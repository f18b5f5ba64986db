------------------------- MODULE MCSingletonStorage -------------------------
(* Instances of SingletonStorage for TLC: an attribute whose value depends  *)
(* on a proxy, as in commonapi-singletons.hpp, and the proxy itself.        *)
EXTENDS SingletonStorage, TLC

CONSTANTS attribute, proxy

MCDependsOn == [k \in {attribute, proxy} |-> IF k = attribute THEN proxy ELSE None]

MCSymmetry == Permutations(Objs) \cup Permutations(ClientRefs) \cup Permutations(Clients)
=============================================================================
