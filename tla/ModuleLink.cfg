SPECIFICATION Spec
CONSTANTS
 a = a
 b = b
 Modules = {a, b}
 Flashed = {a}
 Torn = {b}
 Phones = TRUE
 MaxWills = 1
 Prompt = FALSE
INVARIANTS TypeOK OneStart SessionKnown
PROPERTIES DeafStays
CHECK_DEADLOCK FALSE
