SPECIFICATION MCSpec
CONSTANTS
    Modules = {a, b}
    Names = {n}
    Outlets = 2
    MaxLines = 5
SYMMETRY Alike
INVARIANTS TypeOK Blocks AllListed HearsKnown
PROPERTIES NoneLost
