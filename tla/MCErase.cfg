CONSTANTS
    o1 = o1
    o2 = o2
    x = x
    y = y
    Start = 6
    End = 16
    PerBlock = 2
    Reserved = 2
    PassiveChunks = 0
    DaftFactor = 1
    FactoryBad = {11, 12, 13, 14, 15, 16}
    Weak = {}
    Ids = {o1, o2}
    Names = {"a"}
    Parts = {1, 2, 3}
    Values = {x, y}
    Unused = Unused
    EraseAnswers = {1}
    MaxCalls = 7
    MaxCuts = 0
    MaxFaults = 0
SPECIFICATION Spec
INVARIANTS HealthyBlocksStay
SYMMETRY Symmetry
CHECK_DEADLOCK FALSE
