SPECIFICATION FairSpec
CONSTANTS
    Calls = 2
    NoContent = NoContent
    Faults = {{"pvc", "post", "agent", "delete"}, {"answer", "setup", "epoll", "agent", "late"}}
INVARIANTS
    TypeOK
    IdMeansObject
    StatusIsFinal
    NothingCleanedInUse
PROPERTIES
    StopsWhenOrderly
    CallsReturn
