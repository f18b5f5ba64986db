\* The claim that copying onReply first avoids the race with tearDown().
SPECIFICATION Spec
CONSTANTS
    None = None
    HttpId = zero
    WebSockets = {ws1}
    HttpRequests = {}
    Ids = {zero}
    Ops = {p1}
    SingletonOps = {}
    Workers = 1
    MaxTasks = 1
INVARIANTS
    HandlersOutliveJobs
