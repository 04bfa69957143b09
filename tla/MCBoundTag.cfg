CONSTANTS
    PoolSize = 33
    Sizes = {1, 4}
    MaxOwned = 4
SPECIFICATION HeapSpec
INVARIANT HeldApart
CHECK_DEADLOCK FALSE
