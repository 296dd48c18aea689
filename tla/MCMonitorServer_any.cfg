SPECIFICATION Spec
CONSTANTS
    c1 = c1
    c2 = c2
    Clients = {c1, c2}
    MonNames = {"mon1", "mon2", "mon3"}
    NoName = "none"
    Sizes = {0, 1, 51}
    Values = {1}
    ArrayIndices <- MCAnyIndices
    MAX_MON_COUNT = 2
    MAX_ARR_COUNT = 2
    MaxStale = 0
SYMMETRY MCSymmetry
INVARIANTS
    LiveMonsUnique
CHECK_DEADLOCK FALSE
