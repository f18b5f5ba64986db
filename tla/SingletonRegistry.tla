-------------------------- MODULE SingletonRegistry --------------------------
(***************************************************************************)
(* What SingletonStorage promises its users: one shared instance per type, *)
(* kept as long as anybody holds it.  Nothing here counts references,      *)
(* collects or locks.                                                      *)
(***************************************************************************)
CONSTANTS
    Keys,     \* types
    Objs,     \* instances
    Users,    \* whoever can hold one instance
    Inner(_), \* the user that is part of an instance: the Ref its value keeps
    None

VARIABLES
    instance,  \* the shared instance of a type, or None
    holds      \* the instance a user holds, or None

vars == <<instance, holds>>

Held(o) == \E u \in Users : holds[u] = o

Init ==
    /\ instance = [k \in Keys |-> None]
    /\ holds = [u \in Users |-> None]

\* A user gets the shared instance of its type; the first one creates it.
Acquire(k, u) ==
    /\ holds[u] = None
    /\ \/ instance[k] # None /\ UNCHANGED instance
       \/ /\ instance[k] = None
          /\ \E o \in Objs :
               /\ ~Held(o) /\ \A j \in Keys : instance[j] # o
               /\ instance' = [instance EXCEPT ![k] = o]
    /\ holds' = [holds EXCEPT ![u] = instance'[k]]

Share(u, v) ==
    /\ holds[u] # None /\ holds[v] = None
    /\ holds' = [holds EXCEPT ![v] = holds[u]]
    /\ UNCHANGED instance

Drop(u) ==
    /\ holds[u] # None
    /\ holds' = [holds EXCEPT ![u] = None]
    /\ UNCHANGED instance

\* Only an instance that nobody holds is given up, and what it held with it.
Retire(k) ==
    /\ instance[k] # None /\ ~Held(instance[k])
    /\ instance' = [instance EXCEPT ![k] = None]
    /\ holds' = [holds EXCEPT ![Inner(instance[k])] = None]

\* The registry starts afresh; the users of the old instances keep them.
Forget ==
    /\ instance' = [k \in Keys |-> None]
    /\ UNCHANGED holds

Next ==
    \/ \E k \in Keys, u \in Users : Acquire(k, u)
    \/ \E u, v \in Users : Share(u, v)
    \/ \E u \in Users : Drop(u)
    \/ \E k \in Keys : Retire(k)
    \/ Forget

Spec == Init /\ [][Next]_vars
=============================================================================
