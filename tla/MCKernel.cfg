CONSTANTS
    Services = {service}
    MainEntry = main
    Pool = "limited"
    MaxTasks = 6
    NumPages = 8
    ReservedPages = 2
    MaxRun = 3
    PoolSize = 33
    Sizes = {1, 4}
    MaxOwned = 4
    Top = 4
    LongTop = 32
    Powers = {1, 2, 4, 8, 16, 32}
    Octals = 2
    Formats <- MCFormats
SPECIFICATION KernelSpec
INVARIANTS OnePlace RunsDisjoint BitmapExact PoolExact HeldApartUntilTaken
           DivisionExact NumbersShown ReadsFormat
PROPERTIES ReadyRuns
\* A format ends, a division returns, and a loop that never ends or a write
\* through NULL does stop T-OS.
CHECK_DEADLOCK FALSE
