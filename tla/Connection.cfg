\* A web socket and an HTTP connection whose operations share one pool thread.
SPECIFICATION FairSpec
CONSTANTS
    None = None
    HttpId = zero
    WebSockets = {ws1}
    HttpRequests = {http1}
    Ids = {zero}
    Ops = {p1, p2}
    SingletonOps = {p1, p2}
    Workers = 1
    MaxTasks = 1
INVARIANTS
    TypeOK
    ReplyNeverEmpty
    NothingUnstoppable
    OneHttpResponse
    OpenIsKnown
    
PROPERTIES
    EveryStartAnswered
    ShutdownEnds
    ConnectionsAreFreed
    GarbageIsCollected
