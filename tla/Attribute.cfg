\* Every class of attribute, with two users and four changes.
SPECIFICATION FairSpec
CONSTANTS
    None = None
    Kinds <- MCKinds
    Refreshed <- MCRefreshed
    Users = {u1, u2}
    MaxVersion = 4
    Topic <- MCTopic
CHECK_DEADLOCK FALSE
INVARIANTS
    TypeOK
    QuietIsCurrent
    SubscribedIsAlive
PROPERTIES
    ReadIsStable
    ConstructionEnds
