SPECIFICATION Spec
CONSTANTS
    Clients = {c1, c2}
    Nil = Nil
    Listener = Listener
    OpType = "backup"
    Chunks = 2
    SockBuf = 2
    MaxClient = 1
    MaxEpollEvents = 2
    Faults = {}
SYMMETRY Symmetry
CHECK_DEADLOCK FALSE
INVARIANTS SuccessExact
