SPECIFICATION FairThreadsSpec
CONSTANTS
    a = a
    Modules = {a}
    Flashed = {a}
    Torn = {}
    Phones = TRUE
    MaxWills = 2
    Prompt = TRUE
    Configured = {a}
INVARIANTS ThreadsTypeOK Owed
PROPERTIES LeftOutStays Rescued Settles ImplementsLink
