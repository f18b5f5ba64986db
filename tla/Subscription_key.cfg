\* The claim that only its own end ends a subscription.
SPECIFICATION Spec
CONSTANTS
    None = None
    Error = Error
    Ops = {s1, s2}
    Name <- MCName
    UnsetKeys <- MCUnsetKeys
    MayFail = {}
    Interval = 0
    MaxVersion = 0
INVARIANTS
    ActiveIsRegistered
