SPECIFICATION FairSpec
CONSTANTS
    Modules = {"a", "b"}
    Names = {"n1", "n2"}
    Messages <- MCMessages
    MaxLines = 4
INVARIANTS TypeOK Distinct WholePass
PROPERTIES WipedStays RouterKeeps Rests TableSpec
