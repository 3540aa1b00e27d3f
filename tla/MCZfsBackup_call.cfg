SPECIFICATION ZfsFairSpec
CONSTANTS
    Clients = {c1, c2}
    Nil = Nil
    Listener = Listener
    OpType = "backup"
    Chunks = 2
    SockBuf = 2
    MaxClient = 1
    MaxEpollEvents = 2
    Faults = {"setup", "epoll", "reset", "create", "register", "write", "commit"}
    ApiFaults = {{"volume", "zfsvol", "size", "create", "get", "agent", "crash"}, {"get", "agent", "answer", "delete"}}
INVARIANTS
    ZfsTypeOK
    IdMeansObject
    ReadyNotNil
    AgentFindsServer
    NoOrphanResource
PROPERTIES
    Returns
