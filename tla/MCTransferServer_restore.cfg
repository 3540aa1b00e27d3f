SPECIFICATION FairSpec
CONSTANTS
    Clients = {c1, c2}
    Nil = Nil
    Listener = Listener
    OpType = "restore"
    Chunks = 2
    SockBuf = 1
    MaxClient = 1
    MaxEpollEvents = 2
    Faults = {"reset", "read", "setup", "epoll", "create", "register", "nodelay"}
CHECK_DEADLOCK FALSE
INVARIANTS
    TypeOK
    SuccessIsComplete
PROPERTIES
    ExitEventually
