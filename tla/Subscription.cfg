\* Two subscriptions of one field while the attribute changes.
SPECIFICATION FairSpec
CONSTANTS
    None = None
    Error = Error
    Ops = {s1, s2}
    Name <- MCName
    UnsetKeys <- MCUnsetKeys
    MayFail = {s2}
    Interval = 1
    MaxVersion = 1
INVARIANTS
    TypeOK
    StoppedIsUnregistered
    OnlyUnsetKeysForget
PROPERTIES
    RateLimited
    LastChangeArrives
    StopReturns
