CONSTANTS
    o1 = o1
    o2 = o2
    x = x
    y = y
    Start = 6
    End = 16
    PerBlock = 2
    Reserved = 2
    PassiveChunks = 0
    DaftFactor = 1
    FactoryBad = {11, 12, 13, 14, 15, 16}
    Weak = {17}
    Ids = {o1, o2}
    Names = {"a"}
    Parts = {1, 2, 3}
    Values = {x, y}
    Unused = Unused
    EraseAnswers = {0, 1}
    MaxCalls = 7
    MaxCuts = 1
    MaxFaults = 1
SPECIFICATION Spec
INVARIANTS ReadsKept BlocksAccounted TreesOwnPages
PROPERTIES RetiredStaysRetired
SYMMETRY Symmetry
CHECK_DEADLOCK FALSE
