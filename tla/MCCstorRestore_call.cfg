SPECIFICATION FairSpec
CONSTANTS
    N = 4
    Target = 3
    MayLack = {1, 2, 3}
    MayBePart = {1, 2}
    r1 = r1
    r2 = r2
    Replicas = {r1, r2}
    WaitCount = 2
    Faults = {{"read", "update", "touch", "offline", "namespace", "newer", "list", "post", "answer", "setup", "epoll", "agent"}, {"exists", "agent", "lost", "bare", "update"}}
INVARIANTS
    ReadyToReceive
    AllAreMarked
    VolumeIsRestored
    StatusIsOwn
PROPERTIES
    CallReturns
