SPECIFICATION FairSpec
CONSTANTS
 a = a
 b = b
 Modules = {a, b}
 Flashed = {a, b}
 Torn = {}
 Phones = FALSE
 MaxWills = 1
 Prompt = TRUE
INVARIANTS OneClient
PROPERTIES NobodyStays
CHECK_DEADLOCK FALSE
