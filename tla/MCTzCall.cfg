CONSTANTS
    t1 = t1
    t2 = t2
    t3 = t3
    c1 = c1
    c2 = c2
    Threads <- MCThreads
    Clients = {c1, c2}
    ClientOf <- MCClientOf
    NoThread = NoThread
    Services = {string}
    NoService = none
    MainEntry = main
    Pool = "limited"
    MaxTasks = 3
    MaxSessions = 2
SPECIFICATION Spec
INVARIANTS SecureWorldOwned ParkedInMain RunsForCaller HandlesReal SessionsOwnTasks
PROPERTIES Isolated
SYMMETRY Symmetry
\* A service without a stack does stop T-OS.
CHECK_DEADLOCK FALSE
