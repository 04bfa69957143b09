CONSTANTS
    b1 = b1
    b2 = b2
    Bufs = {b1, b2}
    Last = 1
    Longest = 3
    OutLen = 2
    MainTask = main
    Services = {s1}
    Destinations = {1, 3}
    NsTags = {"c1", "c2"}
    TosTags = {"t1"}
SPECIFICATION CarriedSpec
INVARIANTS FreedOnce OutputsReclaimed DeliveredInOrder InputsKept CallerKept
PROPERTIES TosResumes CallerResumes TaskResumes AbortPrecise
SYMMETRY Symmetry
