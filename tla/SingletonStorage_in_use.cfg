\* The assertion that what is collected has no reference.
SPECIFICATION Spec
CONSTANTS
    None = None
    attribute = attribute
    proxy = proxy
    Clients = {w1, w2}
    Collectors = {main}
    Clearers = {}
    ClientRefs = {r1, r2}
    Keys = {attribute, proxy}
    Objs = {o1, o2}
    DependsOn <- MCDependsOn
INVARIANTS
    DisposedAreUnreferenced
