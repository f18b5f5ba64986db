\* Two workers that share one Ref, and the collecting main thread.
SPECIFICATION FairSpec
CONSTANTS
    None = None
    attribute = attribute
    proxy = proxy
    Clients = {w1, w2}
    Collectors = {main}
    Clearers = {}
    ClientRefs = {r1}
    Keys = {attribute, proxy}
    Objs = {o1, o2}
    DependsOn <- MCDependsOn
PROPERTIES
    CollectionEnds
    EveryGetReturns
