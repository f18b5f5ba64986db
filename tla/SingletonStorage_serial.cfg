\* One thread uses the storage and collects; creations still run beside it.
SPECIFICATION FairSpec
CONSTANTS
    None = None
    attribute = attribute
    proxy = proxy
    Clients = {w1}
    Collectors = {w1}
    Clearers = {w1}
    ClientRefs = {r1, r2}
    Keys = {attribute, proxy}
    Objs = {o1, o2, o3, o4}
    DependsOn <- MCDependsOn
INVARIANTS
    NoUseAfterFree
    DisposedAreUnreferenced
    DisposedAreRegistered
    NoOrphanLeaks
    DependencyOutlives
PROPERTIES
    ImplementsRegistry
