\* The claim that CommonAPISubscriptionProxyAttribute tracks changes.
SPECIFICATION Spec
CONSTANTS
    None = None
    Kinds = {"full"}
    Refreshed = {}
    Users = {u1}
    MaxVersion = 1
    Topic <- MCTopic
CHECK_DEADLOCK FALSE
INVARIANTS
    SubscriptionTracks
