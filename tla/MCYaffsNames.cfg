CONSTANTS
    o1 = o1
    o2 = o2
    o3 = o3
    h1 = h1
    h2 = h2
    Objects = {o1, o2, o3}
    NoObject = NoObject
    FileNames = {"a", "b"}
    Handles = {h1, h2}
    OpenFlags <- MCOpenFlags
    MaxOps = 6
    MaxOuts = 1
SPECIFICATION NamesSpec
INVARIANTS HandlesAlive NamesFound FlashAgrees LinksKept
SYMMETRY Symmetry
CHECK_DEADLOCK FALSE
