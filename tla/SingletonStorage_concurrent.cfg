\* Two workers and the main thread, which collects and clears.
SPECIFICATION Spec
CONSTANTS
    None = None
    attribute = attribute
    proxy = proxy
    Clients = {w1, w2}
    Collectors = {main}
    Clearers = {main}
    ClientRefs = {r1, r2}
    Keys = {attribute, proxy}
    Objs = {o1, o2, o3}
    DependsOn <- MCDependsOn
SYMMETRY MCSymmetry
INVARIANTS
    TypeOK
    RefCountExact
    NothingStranded
    OneInstance
    NeverCollectUnfinished
