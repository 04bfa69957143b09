CONSTANTS
    c1 = c1
    Threads = {t1, t2}
    Clients = {c1}
    ClientOf <- MCClientOf
    NoThread = NoThread
    Services = {string, robust}
    NoService = none
    MainEntry = main
    Pool = "ample"
    MaxTasks = 2
    MaxSessions = 1
SPECIFICATION Spec
INVARIANTS SuccessMeansDone
