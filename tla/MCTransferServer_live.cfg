SPECIFICATION FairSpec
CONSTANTS
    Clients = {c1, c2}
    Nil = Nil
    Listener = Listener
    OpType = "backup"
    Chunks = 1
    SockBuf = 1
    MaxClient = 1
    MaxEpollEvents = 1
    Faults = {"reset", "create", "register", "write", "commit"}
CHECK_DEADLOCK FALSE
INVARIANTS
    EventsAreLive
    CountedOnce
PROPERTIES ExitEventually GoneIsNoticed BacklogServed
