CONSTANTS
    OpenFiles = {f1, f2}
    NoFile = NoFile
    Descriptors = {d1, d2}
    ChunkSize = 2
    Lines = 2
    UseLimit = 2
    Reserved = 1
    Bytes = {1}
    Sizes = {1, 3}
    MaxChunks = 2
    MaxSteps = 6
    MaxFree = 3
    Level0 = 4
    Batch = 2
    MaxLevel = 6
    ChunkIds = {1, 5, 8, 14}
    NandChunks = {7, 9}
    MaxTnodes = 8
    MaxCalls = 5
    AddressBits = 3
    TagBits = 16
    EccPlaces = {9, 10, 11, 12, 13, 14}
    Pages <- MCPages
    TagSets <- MCTagSets
    MaxFlips = 2
SPECIFICATION FilesSpec
CHECK_DEADLOCK FALSE
SYMMETRY Symmetry
INVARIANTS ReadsBack ClosedIsFlushed TreeExact FlipsCorrected
