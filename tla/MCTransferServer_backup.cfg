SPECIFICATION Spec
CONSTANTS
    Clients = {c1, c2, c3}
    Nil = Nil
    Listener = Listener
    OpType = "backup"
    Chunks = 2
    SockBuf = 2
    MaxClient = 1
    MaxEpollEvents = 2
    Faults = {"setup", "epoll", "accept", "create", "register", "write", "commit", "delete"}
SYMMETRY Symmetry
CHECK_DEADLOCK FALSE
INVARIANTS
    NoLostWakeup
    ListedAreOpen
    RunningCountCovers
    SuccessIsComplete
    UploadedWhole
PROPERTIES
    ExitIsQuiet
    KeepsPromise
