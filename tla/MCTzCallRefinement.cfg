CONSTANTS
    c1 = c1
    Threads = {t1, t2}
    Clients = {c1}
    ClientOf <- MCClientOf
    NoThread = NoThread
    Services = {string, robust}
    NoService = none
    MainEntry = main
    Pool = "ample"
    MaxTasks = 3
    MaxSessions = 2
SPECIFICATION Spec
INVARIANTS KnownCommandDone
PROPERTIES Implements CallAnswered
