------------------------ MODULE SingletonStorageProofs ------------------------
(***************************************************************************)
(* Theorems about SingletonStorage, for any number of threads, references, *)
(* types and objects: the reference counts are exact, a type has one       *)
(* attached instance, and no unreferenced singleton is forgotten.          *)
(***************************************************************************)
EXTENDS SingletonStorage, FiniteSetTheorems, TLAPS

-----------------------------------------------------------------------------
(* Counting the references to an object. *)

Count(f, o) == Cardinality({r \in Refs : f[r] = o})

\* A count is a natural number, and zero only without references.
LEMMA CountNat ==
    ASSUME NEW f, NEW o
    PROVE  /\ Count(f, o) \in Nat
           /\ (\A r \in Refs : f[r] # o) => Count(f, o) = 0
<1> DEFINE S == {r \in Refs : f[r] = o}
<1>1. IsFiniteSet(S)
  BY ConstantsAssumption, FS_Subset
<1>2. Cardinality(S) \in Nat
  BY <1>1, FS_CardinalityType
<1>3. ASSUME \A r \in Refs : f[r] # o
      PROVE  Cardinality(S) = 0
  <2>1. S = {}
    BY <1>3
  <2> QED
    BY <2>1, FS_EmptySet
<1> QED
  BY <1>2, <1>3 DEF Count

\* Storing a pointer in a null Ref adds one reference to its object only.
LEMMA CountPut ==
    ASSUME NEW f \in [Refs -> Objs \cup {None}], NEW r \in Refs, NEW o \in Objs,
           f[r] = None
    PROVE  /\ Count([f EXCEPT ![r] = o], o) = Count(f, o) + 1
           /\ \A p \in Objs \ {o} : Count([f EXCEPT ![r] = o], p) = Count(f, p)
<1> DEFINE g == [f EXCEPT ![r] = o]
           S(h, p) == {s \in Refs : h[s] = p}
<1>0. None \notin Objs
  BY ConstantsAssumption DEF Actors
<1>1. S(g, o) = S(f, o) \cup {r} /\ r \notin S(f, o)
  BY <1>0
<1>2. IsFiniteSet(S(f, o))
  BY ConstantsAssumption, FS_Subset
<1>3. Cardinality(S(g, o)) = Cardinality(S(f, o)) + 1
  BY <1>1, <1>2, FS_AddElement
<1>4. ASSUME NEW p \in Objs \ {o}
      PROVE  S(g, p) = S(f, p)
  BY <1>0
<1>5. \A h, p : Count(h, p) = Cardinality(S(h, p))
  BY DEF Count
<1> HIDE DEF S
<1> QED
  BY <1>3, <1>4, <1>5

\* Clearing a Ref takes one reference from the object it pointed to only.
LEMMA CountDrop ==
    ASSUME NEW f \in [Refs -> Objs \cup {None}], NEW r \in Refs, NEW o \in Objs,
           f[r] = o
    PROVE  /\ Count(f, o) > 0
           /\ Count([f EXCEPT ![r] = None], o) = Count(f, o) - 1
           /\ \A p \in Objs \ {o} : Count([f EXCEPT ![r] = None], p) = Count(f, p)
<1> DEFINE g == [f EXCEPT ![r] = None]
           S(h, p) == {s \in Refs : h[s] = p}
<1>0. None \notin Objs
  BY ConstantsAssumption DEF Actors
<1>1. S(g, o) = S(f, o) \ {r} /\ r \in S(f, o)
  BY <1>0
<1>2. IsFiniteSet(S(f, o)) /\ IsFiniteSet(S(g, o))
  BY ConstantsAssumption, FS_Subset
<1>3. Cardinality(S(g, o)) = Cardinality(S(f, o)) - 1
  BY <1>1, <1>2, FS_RemoveElement
<1>4. Cardinality(S(g, o)) \in Nat /\ Cardinality(S(f, o)) \in Nat
  BY <1>2, FS_CardinalityType
<1>5. ASSUME NEW p \in Objs \ {o}
      PROVE  S(g, p) = S(f, p)
  BY <1>0
<1>6. \A h, p : Count(h, p) = Cardinality(S(h, p))
  BY DEF Count
<1>7. Cardinality(S(f, o)) > 0
  BY <1>3, <1>4
<1> HIDE DEF S
<1> QED
  BY <1>3, <1>4, <1>5, <1>6, <1>7

-----------------------------------------------------------------------------
(* The reference counts. *)

\* A creation task runs on behalf of an object that exists and has no value
\* yet; an object without a value, or without memory, keeps no Ref.
CreatorInv ==
    \A o \in Objs :
        /\ o \in live => keyOf[o] \in Keys
        /\ o \notin live => value[o] # "creating"
        /\ pc[o] # "idle" => o \in live /\ value[o] = "creating"
        /\ o \notin live => ref[o] = None
        /\ pc[o] \in {"create", "ref"} => ref[o] = None
        /\ pc[o] = "ref" => slot[o] = o
        /\ pc[o] = "wait" => slot[o] = o /\ ref[o] = ptr[o]

\* A Ref that is being constructed belongs to one actor, and the Ref of a
\* value to the task that creates the value.
SlotInv ==
    \A x \in Actors :
        /\ IF pc[x] \in {"ref", "wait"}
           THEN slot[x] \in Refs /\ ptr[x] \in Objs
           ELSE slot[x] = None
        /\ pc[x] = "ref" => ref[slot[x]] = None
        /\ slot[x] \in Objs => slot[x] = x
        /\ \A y \in Actors : slot[x] = slot[y] /\ slot[x] # None => x = y

CountInv == \A o \in live : refCount[o] = Count(ref, o)

RefInv == TypeOK /\ CreatorInv /\ SlotInv /\ CountInv

\* What a Ref refers to when it is dropped: unref() ends or goes on to lock.
LEMMA DecrementType ==
    ASSUME TypeOK, NEW x \in Actors, NEW o \in Objs, Decrement(x, o), refCount[o] > 0
    PROVE  /\ refCount' \in [Objs -> Nat]
           /\ refCount' = [refCount EXCEPT ![o] = refCount[o] - 1]
           /\ pc' \in [Actors -> {"idle", "create", "ref", "wait", "lock", "check",
                          "unlock", "delete", "sweep", "detach", "throw"}]
           /\ ptr' \in [Actors -> Objs \cup {None}]
           /\ slot' = [slot EXCEPT ![x] = None]
           /\ \A y \in Actors \ {x} : pc'[y] = pc[y] /\ ptr'[y] = ptr[y]
           /\ pc'[x] \in IF x \in Objs THEN {"lock", "throw"} ELSE {"lock", "sweep", "idle"}
BY DEF Decrement, Return, AfterUnref, GoTo, TypeOK

\* Looking a key up, for a client's Ref or for the one a value will keep.
LEMMA LookupRefInv ==
    ASSUME RefInv, NEW x \in Actors, NEW k \in Keys, NEW r \in Refs, Lookup(x, k, r),
           ref[r] = None, ~Filling(r), r \in Objs => r = x,
           x \in Objs => x = r /\ pc[x] = "create"
    PROVE  RefInv'
<1> USE DEF RefInv
<1>0. None \notin Objs
  BY ConstantsAssumption DEF Actors
<1>1. CASE children[k] # None
  <2>1. TypeOK'
    BY <1>1 DEF TypeOK, Lookup, Recycle, GoTo, objectVars
  <2>2. CreatorInv'
    BY <1>1 DEF TypeOK, Lookup, Recycle, GoTo, objectVars, CreatorInv, Actors, Refs
  <2>4. SlotInv'
    BY <1>1 DEF TypeOK, Lookup, Recycle, GoTo, objectVars, SlotInv, Filling
  <2>3. CountInv'
    BY <1>1 DEF Lookup, Recycle, objectVars, CountInv
  <2> QED
    BY <2>1, <2>2, <2>3, <2>4
<1>2. CASE children[k] = None
  <2>0. PICK o \in Objs :
               /\ Fresh(o)
               /\ pc[o] = "idle"
               /\ children' = [children EXCEPT ![k] = o]
               /\ live' = live \cup {o}
               /\ attached' = attached \cup {o}
               /\ keyOf' = [keyOf EXCEPT ![o] = k]
               /\ value' = [value EXCEPT ![o] = "creating"]
               /\ refCount' = [refCount EXCEPT ![o] = 0]
               /\ spinlock' = [spinlock EXCEPT ![o] = None]
               /\ ptr' = [ptr EXCEPT ![x] = o]
               /\ pc' = [pc EXCEPT ![x] = "ref", ![o] = "create"]
               /\ UNCHANGED disposed
    BY <1>2 DEF Lookup, Recycle
  <2>a. UNCHANGED <<childrenLock, clearing, doomed, toDetach, ref, crashed>>
        /\ slot' = [slot EXCEPT ![x] = r]
    BY DEF Lookup, Recycle
  <2>b. x # o
    BY <2>0
  <2>1. TypeOK'
    BY <2>0, <2>a DEF TypeOK
  <2>2. CreatorInv'
    BY <2>0, <2>a, <2>b DEF TypeOK, CreatorInv, Fresh, Actors, Refs
  <2>3. SlotInv'
    BY <2>0, <2>a, <2>b DEF TypeOK, SlotInv, Filling
  <2>4. CountInv'
    <3>1. Count(ref, o) = 0
      BY <2>0, CountNat DEF Fresh
    <3>2. \A p \in live : p # o
      BY <2>0 DEF Fresh
    <3> QED
      BY <2>0, <2>a, <3>1, <3>2 DEF CountInv, TypeOK
  <2> QED
    BY <2>1, <2>2, <2>3, <2>4
<1> QED
  BY <1>1, <1>2


\* The constructor of Ref adds the reference that the count announces.
LEMMA TakeRefRefInv ==
    ASSUME RefInv, NEW x \in Actors, TakeRef(x)
    PROVE  RefInv'
<1> USE DEF RefInv, TakeRef, registryVars, objectVars
<1>0. /\ None \notin Objs /\ None \notin Refs
      /\ slot[x] \in Refs /\ ptr[x] \in Objs /\ ref[slot[x]] = None
  BY ConstantsAssumption DEF Actors, SlotInv
<1>1. TypeOK'
  BY <1>0 DEF TypeOK, GoTo
<1>2. CreatorInv'
  BY <1>0 DEF TypeOK, GoTo, CreatorInv, SlotInv, Actors, Refs
<1>3. SlotInv'
  BY <1>0 DEF TypeOK, GoTo, SlotInv
<1>4. CountInv'
  <2>1. /\ Count(ref', ptr[x]) = Count(ref, ptr[x]) + 1
        /\ \A p \in Objs \ {ptr[x]} : Count(ref', p) = Count(ref, p)
    <3>1. ref \in [Refs -> Objs \cup {None}] /\ ref' = [ref EXCEPT ![slot[x]] = ptr[x]]
      BY DEF TypeOK
    <3>2. /\ Count([ref EXCEPT ![slot[x]] = ptr[x]], ptr[x]) = Count(ref, ptr[x]) + 1
          /\ \A p \in Objs \ {ptr[x]} : Count([ref EXCEPT ![slot[x]] = ptr[x]], p) = Count(ref, p)
      BY ONLY <1>0, <3>1, CountPut
    <3> QED
      BY ONLY <3>1, <3>2
  <2> QED
    BY <1>0, <2>1 DEF TypeOK, CountInv
<1> QED
  BY <1>1, <1>2, <1>3, <1>4

\* Copying a Ref counts the copy.
LEMMA CopyRefRefInv ==
    ASSUME RefInv, NEW x \in Clients, NEW r \in ClientRefs, NEW s \in ClientRefs,
           CopyRef(x, r, s)
    PROVE  RefInv'
<1> USE DEF RefInv, CopyRef, registryVars, objectVars
<1>0. /\ None \notin Objs /\ s \in Refs /\ s \notin Objs /\ r \in Refs
      /\ x \in Actors /\ x \notin Objs
      /\ ref[r] \in Objs /\ ref[s] = None
  BY ConstantsAssumption DEF Actors, Refs, Threads, TypeOK
<1>1. TypeOK'
  BY <1>0 DEF TypeOK, GoTo
<1>2. CreatorInv'
  BY <1>0 DEF TypeOK, GoTo, CreatorInv, Actors, Refs
<1>3. SlotInv'
  BY <1>0 DEF TypeOK, GoTo, SlotInv, Filling
<1>4. CountInv'
  <2>1. /\ Count(ref', ref[r]) = Count(ref, ref[r]) + 1
        /\ \A p \in Objs \ {ref[r]} : Count(ref', p) = Count(ref, p)
    <3>1. ref \in [Refs -> Objs \cup {None}] /\ ref' = [ref EXCEPT ![s] = ref[r]]
      BY DEF TypeOK
    <3>2. /\ Count([ref EXCEPT ![s] = ref[r]], ref[r]) = Count(ref, ref[r]) + 1
          /\ \A p \in Objs \ {ref[r]} : Count([ref EXCEPT ![s] = ref[r]], p) = Count(ref, p)
      BY ONLY <1>0, <3>1, CountPut
    <3> QED
      BY ONLY <3>1, <3>2
  <2> QED
    BY <1>0, <2>1 DEF TypeOK, CountInv
<1> QED
  BY <1>1, <1>2, <1>3, <1>4

\* Steps that move an actor along without touching a Ref, a count or the life
\* of an object.
LEMMA QuietRefInv ==
    ASSUME RefInv, NEW x \in Actors,
           \/ Value(x) \/ AcquireSpinlock(x) \/ Dispose(x) \/ ReleaseSpinlock(x)
           \/ Orphaned(x)
    PROVE  RefInv'
<1> USE DEF RefInv, Value, AcquireSpinlock, Dispose, ReleaseSpinlock, Orphaned,
            registryVars, objectVars
<1>0. None \notin Objs /\ \A y \in Clients : y \in Actors /\ y \notin Objs
  BY ConstantsAssumption DEF Actors, Threads
<1>1. TypeOK'
  BY <1>0 DEF TypeOK, GoTo, Return, AfterUnref
<1>2. CreatorInv'
  BY <1>0 DEF TypeOK, GoTo, Return, AfterUnref, CreatorInv, Actors, Refs
<1>3. SlotInv'
  BY <1>0 DEF TypeOK, GoTo, Return, AfterUnref, SlotInv
<1>4. CountInv'
  BY DEF CountInv
<1> QED
  BY <1>1, <1>2, <1>3, <1>4

\* The steps of a creation that touch no reference.
LEMMA CreatorRefInv ==
    ASSUME RefInv, NEW o \in Objs, CreateDone(o) \/ CreateFail(o) \/ StoreException(o)
    PROVE  RefInv'
<1> USE DEF RefInv, CreateDone, CreateFail, StoreException, HasDependency,
            registryVars, objectVars
<1>0. None \notin Objs /\ o \in Actors
  BY ConstantsAssumption DEF Actors
<1>1. TypeOK'
  BY DEF TypeOK, GoTo, Actors
<1>2. CreatorInv'
  BY DEF TypeOK, GoTo, CreatorInv, Actors, Refs
<1>3. SlotInv'
  BY <1>0 DEF TypeOK, GoTo, SlotInv
<1>4. CountInv'
  BY DEF CountInv
<1> QED
  BY <1>1, <1>2, <1>3, <1>4

\* The steps of a collection that destroy nothing.
LEMMA CollectRefInv ==
    ASSUME RefInv, NEW x \in Threads,
           \/ StartCollect(x, FALSE) \/ StartCollect(x, TRUE) \/ MoveDisposed(x)
           \/ EndCollect(x) \/ (\E k \in Keys : Detach(x, k)) \/ EndClear(x)
    PROVE  RefInv'
<1> USE DEF RefInv, StartCollect, MoveDisposed, EndCollect, Detach, EndClear,
            registryVars, objectVars
<1>0. x \in Actors /\ x \notin Objs
  BY ConstantsAssumption DEF Actors
<1>1. TypeOK'
  BY <1>0 DEF TypeOK, GoTo, Garbage
<1>2. CreatorInv'
  BY <1>0 DEF TypeOK, GoTo, CreatorInv, Actors, Refs
<1>3. SlotInv'
  BY <1>0 DEF TypeOK, GoTo, SlotInv
<1>4. CountInv'
  BY DEF CountInv
<1> QED
  BY <1>1, <1>2, <1>3, <1>4


\* Dropping the Ref r of a live object d is a step of the counts.
LEMMA DropCount ==
    ASSUME TypeOK, CountInv, NEW r \in Refs, NEW d \in live, ref[r] = d,
           ref' = [ref EXCEPT ![r] = None],
           refCount' = [refCount EXCEPT ![d] = refCount[d] - 1],
           live' \subseteq live
    PROVE  CountInv'
<1>1. ref \in [Refs -> Objs \cup {None}] /\ live \subseteq Objs /\ d \in Objs
      /\ refCount \in [Objs -> Nat]
  BY DEF TypeOK
<1>2. /\ Count([ref EXCEPT ![r] = None], d) = Count(ref, d) - 1
      /\ \A p \in Objs \ {d} : Count([ref EXCEPT ![r] = None], p) = Count(ref, p)
  BY <1>1, CountDrop
<1> QED
  BY <1>1, <1>2 DEF CountInv

\* An object some Ref points to has a positive count.
LEMMA DropPositive ==
    ASSUME TypeOK, CountInv, NEW r \in Refs, NEW d \in live, ref[r] = d
    PROVE  refCount[d] > 0
<1>1. ref \in [Refs -> Objs \cup {None}] /\ d \in Objs
  BY DEF TypeOK
<1> QED
  BY <1>1, CountDrop DEF CountInv

\* Dropping a Ref, as a request does when it ends.
LEMMA ReleaseRefInv ==
    ASSUME RefInv, NEW x \in Clients, NEW r \in ClientRefs, Release(x, r)
    PROVE  RefInv'
<1> USE DEF RefInv, Release, registryVars, objectVars
<1>0. /\ None \notin Objs /\ r \in Refs /\ r \notin Objs
      /\ x \in Actors /\ x \notin Objs /\ ref[r] \in Objs
  BY ConstantsAssumption DEF Actors, Refs, Threads, TypeOK
<1>1. refCount[ref[r]] > 0
  BY <1>0, DropPositive
<1>2. TypeOK'
  BY <1>0, <1>1, DecrementType DEF TypeOK
<1>3. CreatorInv'
  BY <1>0, <1>1, DecrementType DEF TypeOK, CreatorInv, Actors, Refs
<1>4. SlotInv'
  BY <1>0, <1>1, DecrementType DEF TypeOK, SlotInv
<1>5. CountInv'
  BY <1>0, <1>1, DecrementType, DropCount
<1> QED
  BY <1>2, <1>3, <1>4, <1>5

\* A failing creation drops the Ref to its dependency.
LEMMA CreateUnwindRefInv ==
    ASSUME RefInv, NEW o \in Objs, CreateUnwind(o)
    PROVE  RefInv'
<1> USE DEF RefInv, CreateUnwind, registryVars, objectVars
<1>0. /\ None \notin Objs /\ o \in Refs /\ o \in Actors
      /\ ptr[o] \in Objs /\ ref[o] = ptr[o]
  BY ConstantsAssumption DEF Actors, Refs, CreatorInv, SlotInv
<1>1. refCount[ptr[o]] > 0
  BY <1>0, DropPositive
<1>2. TypeOK'
  BY <1>0, <1>1, DecrementType DEF TypeOK
<1>3. CreatorInv'
  BY <1>0, <1>1, DecrementType DEF TypeOK, CreatorInv, Actors, Refs
<1>4. SlotInv'
  BY <1>0, <1>1, DecrementType DEF TypeOK, SlotInv
<1>5. CountInv'
  BY <1>0, <1>1, DecrementType, DropCount
<1> QED
  BY <1>2, <1>3, <1>4, <1>5

\* The destructor, wherever it is called from.
LEMMA DestroyRefInv ==
    ASSUME RefInv, NEW x \in Actors, NEW o \in live, Destroy(x, o),
           pc[x] \in {"delete", "sweep"}, TypeOK'
    PROVE  RefInv'
<1> USE DEF RefInv, Destroy
<1>0. None \notin Objs /\ o \in Objs /\ o \in Refs /\ o \in Actors
  BY ConstantsAssumption DEF Actors, Refs, TypeOK
<1>1. x # o /\ pc[o] = "idle" /\ slot[o] \notin Objs \ {o}
  BY <1>0 DEF CreatorInv, SlotInv
<1>2. CASE ref[o] = None
  <2>1. ref' = ref
    BY <1>0, <1>2 DEF TypeOK
  <2>2. CreatorInv'
    BY <1>0, <1>1, <1>2 DEF TypeOK, CreatorInv, Return, AfterUnref, GoTo, Actors, Refs
  <2>3. SlotInv'
    BY <1>0, <1>2, <2>1 DEF TypeOK, SlotInv, Return, AfterUnref, GoTo
  <2>4. CountInv'
    BY <1>2, <2>1 DEF CountInv
  <2> QED
    BY <2>2, <2>3, <2>4
<1>3. CASE ref[o] # None
  <2>0. ref[o] \in live /\ ref[o] \in Objs /\ Decrement(x, ref[o])
    BY <1>3 DEF TypeOK
  <2>1. refCount[ref[o]] > 0
    BY <1>0, <2>0, DropPositive
  <2>a. /\ \A y \in Actors \ {x} : pc'[y] = pc[y] /\ ptr'[y] = ptr[y]
        /\ slot' = [slot EXCEPT ![x] = None]
        /\ x \in Objs => pc'[x] \in {"lock", "throw"}
    BY <2>0, <2>1, DecrementType
  <2>2. CreatorInv'
    BY <1>0, <1>1, <2>a DEF TypeOK, CreatorInv, Actors, Refs
  <2>3. SlotInv'
    BY <1>0, <2>0, <2>1, DecrementType DEF TypeOK, SlotInv
  <2>4. CountInv'
    <3>1. live' \subseteq live
      OBVIOUS
    <3> QED
      BY <1>0, <2>0, <2>1, <3>1, DecrementType, DropCount
  <2> QED
    BY <2>2, <2>3, <2>4
<1> QED
  BY <1>2, <1>3

\* What an actor does after a destructor stays within its types.
LEMMA DestroyType ==
    ASSUME RefInv, NEW x \in Actors, NEW o \in live, Destroy(x, o)
    PROVE  /\ live' \subseteq Objs /\ attached' \subseteq Objs
           /\ keyOf' \in [Objs -> Keys \cup {None}]
           /\ value' \in [Objs -> {"creating", "ready", "failed"}]
           /\ spinlock' \in [Objs -> Actors \cup {None}]
           /\ ref' \in [Refs -> Objs \cup {None}]
           /\ refCount' \in [Objs -> Nat]
           /\ pc' \in [Actors -> {"idle", "create", "ref", "wait", "lock", "check",
                          "unlock", "delete", "sweep", "detach", "throw"}]
           /\ ptr' \in [Actors -> Objs \cup {None}]
           /\ slot' \in [Actors -> Refs \cup {None}]
<1> USE DEF RefInv, Destroy
<1>0. o \in Objs /\ o \in Refs
  BY DEF Refs, TypeOK
<1>1. CASE ref[o] = None
  BY <1>0, <1>1 DEF TypeOK, Return, AfterUnref, GoTo
<1>2. CASE ref[o] # None
  <2>1. ref[o] \in live /\ ref[o] \in Objs /\ Decrement(x, ref[o])
    BY <1>2 DEF TypeOK
  <2>2. refCount[ref[o]] > 0
    BY <1>0, <2>1, DropPositive
  <2> QED
    BY <1>0, <2>1, <2>2, DecrementType DEF TypeOK
<1> QED
  BY <1>1, <1>2

\* unref() deletes an object that clear() detached.
LEMMA DeleteThisRefInv ==
    ASSUME RefInv, NEW x \in Actors, DeleteThis(x)
    PROVE  RefInv'
<1>1. TypeOK'
  BY DestroyType DEF RefInv, TypeOK, DeleteThis, registryVars
<1> QED
  BY <1>1, DestroyRefInv DEF DeleteThis

\* The collector destroys a registered object.
LEMMA SweepRefInv ==
    ASSUME RefInv, NEW x \in Threads, NEW k \in Keys, Sweep(x, k)
    PROVE  RefInv'
<1>0. x \in Actors
  BY DEF Actors
<1>1. TypeOK'
  BY <1>0, DestroyType DEF RefInv, TypeOK, Sweep
<1> QED
  BY <1>0, <1>1, DestroyRefInv DEF Sweep


\* The counts are right when the storage is empty.
LEMMA RefInvInit == Init => RefInv
<1> SUFFICES ASSUME Init PROVE RefInv
  OBVIOUS
<1>0. None \notin Objs
  BY ConstantsAssumption DEF Actors
<1>1. TypeOK
  BY DEF Init, TypeOK
<1>2. CreatorInv /\ SlotInv
  BY <1>0 DEF Init, CreatorInv, SlotInv, Actors, Refs
<1>3. CountInv
  BY DEF Init, CountInv
<1> QED
  BY <1>1, <1>2, <1>3 DEF RefInv

\* Every step keeps the counts right.
LEMMA RefInvStep == RefInv /\ [Next]_vars => RefInv'
<1> SUFFICES ASSUME RefInv, [Next]_vars PROVE RefInv'
  OBVIOUS
<1>0. /\ \A x \in Clients : x \in Actors /\ x \notin Objs
      /\ \A x \in Collectors \cup Clearers : x \in Threads
      /\ \A r \in ClientRefs : r \in Refs /\ r \notin Objs
      /\ \A o \in Objs : o \in Actors /\ o \in Refs
  BY ConstantsAssumption DEF Actors, Refs, Threads
<1>1. ASSUME NEW x \in Clients, ClientStep(x) PROVE RefInv'
  <2>1. ASSUME NEW k \in Keys, NEW r \in ClientRefs, Get(x, k, r) PROVE RefInv'
    BY <1>0, <2>1, LookupRefInv DEF Get
  <2> QED
    BY <1>1, <2>1, CopyRefRefInv, ReleaseRefInv DEF ClientStep
<1>2. ASSUME NEW x \in Collectors, StartCollect(x, FALSE) PROVE RefInv'
  BY <1>0, <1>2, CollectRefInv
<1>3. ASSUME NEW x \in Clearers, StartCollect(x, TRUE) PROVE RefInv'
  BY <1>0, <1>3, CollectRefInv
<1>4. ASSUME NEW x \in Actors, TakeRef(x) \/ Value(x) \/ UnrefStep(x) PROVE RefInv'
  BY <1>4, TakeRefRefInv, QuietRefInv, DeleteThisRefInv DEF UnrefStep
<1>5. ASSUME NEW o \in Objs, CreatorStep(o) PROVE RefInv'
  <2>1. CASE CreatorGet(o)
    <3>1. pc[o] = "create" /\ DependsOn[keyOf[o]] \in Keys
      BY <1>0, <2>1, ConstantsAssumption DEF CreatorGet, RefInv, CreatorInv
    <3>2. ref[o] = None /\ ~Filling(o)
      BY <1>0, <3>1, ConstantsAssumption DEF RefInv, CreatorInv, SlotInv, Filling
    <3> QED
      BY <1>0, <2>1, <3>1, <3>2, LookupRefInv DEF CreatorGet
  <2> QED
    BY <1>5, <2>1, CreatorRefInv, CreateUnwindRefInv DEF CreatorStep
<1>6. ASSUME NEW x \in Threads, CollectStep(x) PROVE RefInv'
  BY <1>6, CollectRefInv, SweepRefInv DEF CollectStep
<1>7. CASE UseAfterFree
  BY <1>7 DEF UseAfterFree, RefInv, TypeOK, CreatorInv, SlotInv, CountInv, registryVars, objectVars
<1>8. CASE UNCHANGED vars
  BY <1>8 DEF vars, RefInv, TypeOK, CreatorInv, SlotInv, CountInv, registryVars, objectVars
<1> QED
  BY <1>1, <1>2, <1>3, <1>4, <1>5, <1>6, <1>7, <1>8 DEF Next, Halted


\* The inductive invariant of the counts holds in every behaviour.
LEMMA RefInvAlways == Spec => []RefInv
BY RefInvInit, RefInvStep, PTL DEF Spec

\* Every variable keeps its type; m_refCount in particular never goes below
\* zero, although unref() decrements it without a test.
THEOREM TypeCorrect == Spec => []TypeOK
<1>1. RefInv => TypeOK
  BY DEF RefInv
<1> QED
  BY <1>1, RefInvAlways, PTL

\* The count of a live singleton is the number of Refs that point to it.
THEOREM CountsAreExact == Spec => []RefCountExact
<1>1. RefInv => RefCountExact
  BY DEF RefInv, CountInv, RefCountExact, Count
<1> QED
  BY <1>1, RefInvAlways, PTL

-----------------------------------------------------------------------------
(* One attached instance per type. *)

\* Whoever sweeps or detaches keeps m_childrenLock.
LockInv == \A x \in Actors : pc[x] \in {"sweep", "detach"} => childrenLock = x

\* clear() still has to detach every object that is attached.
DetachInv ==
    \A x \in Actors : pc[x] = "detach" =>
        \A o \in live \cap attached : keyOf[o] \in toDetach

ShareInv == OneInstance /\ LockInv /\ DetachInv

\* The table is consistent when it is empty.
LEMMA ShareInvInit == Init => ShareInv
BY DEF Init, ShareInv, OneInstance, LockInv, DetachInv

\* Destroying an object leaves the others registered as they are.
LEMMA DestroyShareInv ==
    ASSUME RefInv, ShareInv, NEW x \in Actors, NEW o \in live, Destroy(x, o),
           pc[x] \in {"delete", "sweep"}
    PROVE  /\ \A p \in live' : p \in live /\ p # o /\ keyOf'[p] = keyOf[p]
           /\ \A p \in attached' : p \in attached
           /\ \A y \in Actors \ {x} : pc'[y] = pc[y]
           /\ pc'[x] # "detach"
           /\ pc'[x] = "sweep" => childrenLock = x
<1>0. o \in Objs /\ o \in Refs
  BY DEF RefInv, TypeOK, Refs
<1>1. /\ \A p \in live' : p \in live /\ p # o /\ keyOf'[p] = keyOf[p]
      /\ \A p \in attached' : p \in attached
  BY <1>0 DEF Destroy, RefInv, TypeOK
<1> QED
  BY <1>1 DEF Destroy, Return, Decrement, AfterUnref, GoTo, RefInv, TypeOK

\* A new object is registered under a key that had none.
LEMMA LookupShareInv ==
    ASSUME RefInv, ShareInv, NEW x \in Actors, NEW k \in Keys, NEW r \in Refs,
           Lookup(x, k, r)
    PROVE  ShareInv'
<1> USE DEF ShareInv, RefInv, TypeOK
<1>0. \A y \in Actors : pc[y] \notin {"sweep", "detach"}
  BY ConstantsAssumption DEF Lookup, Recycle, LockInv
<1>1. CASE children[k] # None
  BY <1>0, <1>1 DEF Lookup, Recycle, GoTo, objectVars, OneInstance, LockInv, DetachInv
<1>2. CASE children[k] = None
  <2>1. OneInstance'
    <3>0. None \notin Objs
      BY ConstantsAssumption DEF Actors
    <3>1. PICK o \in Objs :
            /\ o \notin live
            /\ children' = [children EXCEPT ![k] = o]
            /\ live' = live \cup {o}
            /\ attached' = attached \cup {o}
            /\ keyOf' = [keyOf EXCEPT ![o] = k]
      BY <1>2 DEF Lookup, Recycle, Fresh
    <3>2. SUFFICES ASSUME NEW p \in live' \cap attached' PROVE children'[keyOf'[p]] = p
      BY DEF OneInstance
    <3>3. CASE p = o
      BY <3>1, <3>3
    <3>4. CASE p # o
      <4>1. p \in live \cap attached /\ p \in Objs /\ keyOf'[p] = keyOf[p]
        BY <3>1, <3>4
      <4>2. children[keyOf[p]] = p
        BY <4>1 DEF OneInstance
      <4>3. keyOf[p] # k
        BY <1>2, <3>0, <4>1, <4>2
      <4> QED
        BY <3>1, <4>1, <4>2, <4>3 DEF CreatorInv
    <3> QED
      BY <3>3, <3>4
  <2>2. LockInv' /\ DetachInv'
    BY <1>0, <1>2 DEF Lookup, Recycle, LockInv, DetachInv
  <2> QED
    BY <2>1, <2>2
<1> QED
  BY <1>1, <1>2

\* Steps that leave the table of children and the life of objects alone.
LEMMA QuietShareInv ==
    ASSUME RefInv, ShareInv, NEW x \in Actors,
           UNCHANGED <<children, childrenLock, toDetach, live, attached, keyOf>>,
           \A y \in Actors \ {x} : pc'[y] = pc[y],
           pc'[x] # "detach", pc'[x] = "sweep" => childrenLock = x
    PROVE  ShareInv'
BY DEF ShareInv, OneInstance, LockInv, DetachInv


\* The collector erases the key of what it destroys.
LEMMA SweepShareInv ==
    ASSUME RefInv, ShareInv, NEW x \in Threads, NEW k \in Keys, Sweep(x, k)
    PROVE  ShareInv'
<1>0. x \in Actors /\ children[k] \in live /\ pc[x] = "sweep"
  BY DEF Actors, Sweep
<1>1. /\ \A p \in live' : p \in live /\ p # children[k] /\ keyOf'[p] = keyOf[p]
      /\ \A p \in attached' : p \in attached
      /\ \A y \in Actors \ {x} : pc'[y] = pc[y]
      /\ pc'[x] # "detach"
      /\ pc'[x] = "sweep" => childrenLock = x
  BY <1>0, DestroyShareInv DEF Sweep
<1>2. OneInstance'
  BY <1>1 DEF Sweep, ShareInv, OneInstance, RefInv, TypeOK
<1>3. LockInv' /\ DetachInv'
  BY <1>1 DEF Sweep, ShareInv, LockInv, DetachInv
<1> QED
  BY <1>2, <1>3 DEF ShareInv

\* unref() destroys only what is not registered any more.
LEMMA DeleteThisShareInv ==
    ASSUME RefInv, ShareInv, NEW x \in Actors, DeleteThis(x)
    PROVE  ShareInv'
<1>0. ptr[x] \in live /\ pc[x] = "delete"
  BY DEF DeleteThis
<1>1. /\ \A p \in live' : p \in live /\ p # ptr[x] /\ keyOf'[p] = keyOf[p]
      /\ \A p \in attached' : p \in attached
      /\ \A y \in Actors \ {x} : pc'[y] = pc[y]
      /\ pc'[x] # "detach"
      /\ pc'[x] = "sweep" => childrenLock = x
  BY <1>0, DestroyShareInv DEF DeleteThis
<1> QED
  BY <1>1 DEF DeleteThis, registryVars, ShareInv, OneInstance, LockInv, DetachInv

\* Collections begin, find their garbage and end.
LEMMA CollectShareInv ==
    ASSUME RefInv, ShareInv, NEW x \in Threads,
           \/ StartCollect(x, FALSE) \/ StartCollect(x, TRUE) \/ MoveDisposed(x)
           \/ EndCollect(x)
    PROVE  ShareInv'
<1> USE DEF StartCollect, MoveDisposed, EndCollect, ShareInv, objectVars
<1>0. x \in Actors /\ x # None /\ None \notin Actors /\ None \notin Objs
  BY ConstantsAssumption DEF Actors
<1>1. OneInstance'
  BY DEF OneInstance
<1>2. LockInv'
  BY <1>0 DEF LockInv, GoTo, RefInv, TypeOK
<1>3. DetachInv'
  <2>1. CASE EndCollect(x)
    <3>1. \A o \in live \cap attached : children[keyOf[o]] # None /\ keyOf[o] \in Keys
      BY <1>0 DEF OneInstance, RefInv, TypeOK, CreatorInv
    <3> QED
      BY <1>0, <2>1, <3>1 DEF DetachInv, LockInv, GoTo, RefInv, TypeOK
  <2>2. CASE ~EndCollect(x)
    BY <1>0, <2>2 DEF DetachInv, GoTo, RefInv, TypeOK
  <2> QED
    BY <2>1, <2>2
<1> QED
  BY <1>1, <1>2, <1>3

\* clear() detaches every object before it empties the table.
LEMMA ClearShareInv ==
    ASSUME RefInv, ShareInv, NEW x \in Threads,
           (\E k \in Keys : Detach(x, k)) \/ EndClear(x)
    PROVE  ShareInv'
<1> USE DEF ShareInv
<1>0. x \in Actors /\ x # None /\ None \notin Objs
  BY ConstantsAssumption DEF Actors
<1>1. ASSUME NEW k \in Keys, Detach(x, k) PROVE ShareInv'
  <2>1. OneInstance' /\ LockInv'
    BY <1>1 DEF Detach, OneInstance, LockInv
  <2>2. DetachInv'
    BY <1>1 DEF Detach, DetachInv, OneInstance
  <2> QED
    BY <2>1, <2>2
<1>2. CASE EndClear(x)
  <2>1. live \cap attached = {}
    BY <1>0, <1>2 DEF EndClear, DetachInv
  <2>2. OneInstance' /\ DetachInv'
    BY <1>2, <2>1 DEF EndClear, objectVars, OneInstance, DetachInv
  <2>3. LockInv'
    BY <1>0, <1>2 DEF EndClear, LockInv, GoTo, RefInv, TypeOK
  <2> QED
    BY <2>2, <2>3
<1> QED
  BY <1>1, <1>2


\* Who is who: threads and creations are distinct actors, and so are their Refs.
LEMMA ActorFacts ==
    /\ \A x \in Clients \cup Collectors \cup Clearers : x \in Threads
    /\ \A x \in Threads : x \in Actors /\ x \notin Objs /\ x # None
    /\ \A r \in ClientRefs : r \in Refs /\ r \notin Objs
    /\ \A o \in Objs : o \in Actors /\ o \in Refs
    /\ None \notin Objs
BY ConstantsAssumption DEF Actors, Refs, Threads

\* Every step keeps the table consistent.
LEMMA ShareInvStep == RefInv /\ ShareInv /\ [Next]_vars => ShareInv'
<1> SUFFICES ASSUME RefInv, ShareInv, [Next]_vars PROVE ShareInv'
  OBVIOUS
<1>1. ASSUME NEW x \in Clients, ClientStep(x) PROVE ShareInv'
  <2>0. x \in Actors
    BY ActorFacts
  <2>1. ASSUME NEW k \in Keys, NEW r \in ClientRefs, Get(x, k, r) PROVE ShareInv'
    BY <2>0, <2>1, ActorFacts, LookupShareInv DEF Get
  <2>2. ASSUME NEW r \in ClientRefs, NEW s \in ClientRefs, CopyRef(x, r, s)
        PROVE  ShareInv'
    BY <2>0, <2>2, QuietShareInv DEF CopyRef, GoTo, registryVars, objectVars, RefInv, TypeOK
  <2>3. ASSUME NEW r \in ClientRefs, Release(x, r) PROVE ShareInv'
    BY <2>0, <2>3, QuietShareInv DEF Release, Decrement, Return, AfterUnref, GoTo,
       registryVars, objectVars, RefInv, TypeOK
  <2> QED
    BY <1>1, <2>1, <2>2, <2>3 DEF ClientStep
<1>2. ASSUME NEW x \in Collectors, StartCollect(x, FALSE) PROVE ShareInv'
  BY <1>2, ActorFacts, CollectShareInv
<1>3. ASSUME NEW x \in Clearers, StartCollect(x, TRUE) PROVE ShareInv'
  BY <1>3, ActorFacts, CollectShareInv
<1>4. ASSUME NEW x \in Actors, TakeRef(x) \/ Value(x) \/ UnrefStep(x) PROVE ShareInv'
  <2>1. CASE DeleteThis(x)
    BY <2>1, DeleteThisShareInv
  <2>2. CASE ~DeleteThis(x)
    BY <1>4, <2>2, QuietShareInv DEF TakeRef, Value, UnrefStep, AcquireSpinlock, Dispose,
       ReleaseSpinlock, Orphaned, Return, AfterUnref, GoTo, registryVars, objectVars,
       RefInv, TypeOK
  <2> QED
    BY <2>1, <2>2
<1>5. ASSUME NEW o \in Objs, CreatorStep(o) PROVE ShareInv'
  <2>0. o \in Actors
    BY ActorFacts
  <2>1. CASE CreatorGet(o)
    <3>1. DependsOn[keyOf[o]] \in Keys
      BY <2>0, <2>1, ConstantsAssumption DEF CreatorGet, RefInv, CreatorInv
    <3> QED
      BY <2>0, <2>1, <3>1, ActorFacts, LookupShareInv DEF CreatorGet
  <2>2. CASE ~CreatorGet(o)
    BY <1>5, <2>0, <2>2, QuietShareInv DEF CreatorStep, CreateDone, CreateFail,
       CreateUnwind, StoreException, Decrement, Return, AfterUnref, GoTo, registryVars,
       objectVars, RefInv, TypeOK
  <2> QED
    BY <2>1, <2>2
<1>6. ASSUME NEW x \in Threads, CollectStep(x) PROVE ShareInv'
  BY <1>6, CollectShareInv, ClearShareInv, SweepShareInv DEF CollectStep
<1>7. CASE UseAfterFree \/ UNCHANGED vars
  BY <1>7 DEF UseAfterFree, vars, registryVars, objectVars, ShareInv, OneInstance,
     LockInv, DetachInv
<1> QED
  BY <1>1, <1>2, <1>3, <1>4, <1>5, <1>6, <1>7 DEF Next, Halted

\* The consistency of the table holds in every behaviour.
LEMMA ShareInvAlways == Spec => []ShareInv
BY RefInvInit, RefInvAlways, ShareInvInit, ShareInvStep, PTL DEF Spec

\* While an instance is attached it is the registered one: two users of a
\* type can only hold different instances across a clear().
THEOREM InstanceIsUnique == Spec => []OneInstance
<1>1. ShareInv => OneInstance
  BY DEF ShareInv
<1> QED
  BY <1>1, ShareInvAlways, PTL


-----------------------------------------------------------------------------
(* Nothing is stranded. *)

PendingLabels == {"ref", "lock", "check", "delete"}

\* What an actor works on is pending until it moves.
LEMMA OthersStayPending ==
    ASSUME NEW x \in Actors, NEW o \in Objs, Pending(o),
           \A y \in Actors \ {x} : pc'[y] = pc[y] /\ ptr'[y] = ptr[y],
           ptr[x] # o \/ pc[x] \notin PendingLabels
    PROVE  Pending(o)'
BY DEF Pending, PendingLabels

\* Dropping a Ref: either a reference is left, or the actor is inside unref.
LEMMA DecrementPending ==
    ASSUME RefInv, NEW x \in Actors, NEW d \in Objs, Decrement(x, d), refCount[d] > 0
    PROVE  /\ refCount'[d] > 0 \/ Pending(d)'
           /\ \A p \in Objs \ {d} : refCount'[p] = refCount[p]
           /\ \A y \in Actors \ {x} : pc'[y] = pc[y] /\ ptr'[y] = ptr[y]
BY DEF Decrement, Return, AfterUnref, GoTo, RefInv, TypeOK, Pending

\* What is taken back from m_disposed is pending until it is referenced.
LEMMA LookupNothingStranded ==
    ASSUME RefInv, NothingStranded, NEW x \in Actors, NEW k \in Keys, NEW r \in Refs,
           Lookup(x, k, r), pc[x] \in {"idle", "create"}, x \in Objs => pc[x] = "create"
    PROVE  NothingStranded'
<1> USE DEF RefInv, TypeOK
<1>1. CASE children[k] # None
  <2>1. /\ disposed' = disposed \ {children[k]}
        /\ ptr' = [ptr EXCEPT ![x] = children[k]]
        /\ pc' = [pc EXCEPT ![x] = "ref"]
        /\ UNCHANGED <<live, attached, keyOf, refCount, doomed>>
    BY <1>1 DEF Lookup, Recycle, GoTo, objectVars
  <2>2. SUFFICES ASSUME NEW o \in live \cap attached, refCount[o] = 0
        PROVE  o \in disposed' \/ keyOf[o] \in doomed \/ Pending(o)'
    BY <2>1 DEF NothingStranded
  <2>3. CASE o = children[k]
    BY <2>1, <2>3 DEF Pending
  <2>4. CASE o # children[k]
    <3>1. o \in disposed \/ keyOf[o] \in doomed \/ Pending(o)
      BY <2>2 DEF NothingStranded
    <3>2. Pending(o) => Pending(o)'
      BY <2>1, OthersStayPending DEF PendingLabels
    <3> QED
      BY <2>1, <2>4, <3>1, <3>2
  <2> QED
    BY <2>3, <2>4
<1>2. CASE children[k] = None
  <2>1. PICK n \in Objs :
          /\ Fresh(n) /\ pc[n] = "idle"
          /\ live' = live \cup {n}
          /\ attached' = attached \cup {n}
          /\ keyOf' = [keyOf EXCEPT ![n] = k]
          /\ refCount' = [refCount EXCEPT ![n] = 0]
          /\ ptr' = [ptr EXCEPT ![x] = n]
          /\ pc' = [pc EXCEPT ![x] = "ref", ![n] = "create"]
    BY <1>2 DEF Lookup, Recycle
  <2>2. UNCHANGED <<disposed, doomed>>
    BY <1>2 DEF Lookup, Recycle
  <2>3. SUFFICES ASSUME NEW o \in live' \cap attached', refCount'[o] = 0
        PROVE  o \in disposed' \/ keyOf'[o] \in doomed' \/ Pending(o)'
    BY DEF NothingStranded
  <2>4. CASE o = n
    <3>1. x # n
      BY <2>1
    <3> QED
      BY <2>1, <2>4, <3>1 DEF Pending
  <2>5. CASE o # n
    <3>1. o \in live \cap attached /\ o \in Objs /\ refCount[o] = 0 /\ keyOf'[o] = keyOf[o]
      BY <2>1, <2>3, <2>5
    <3>2. o \in disposed \/ keyOf[o] \in doomed \/ Pending(o)
      BY <3>1 DEF NothingStranded
    <3>3. Pending(o) => Pending(o)'
      BY <2>1, <3>1 DEF Pending
    <3> QED
      BY <2>2, <3>1, <3>2, <3>3
  <2> QED
    BY <2>4, <2>5
<1> QED
  BY <1>1, <1>2


\* Taking a reference leaves its object with one.
LEMMA TakeNothingStranded ==
    ASSUME RefInv, NothingStranded, NEW x \in Actors,
           \/ TakeRef(x)
           \/ \E r, s \in ClientRefs : CopyRef(x, r, s)
    PROVE  NothingStranded'
<1> USE DEF RefInv, TypeOK
<1>1. PICK d \in Objs :
        /\ refCount' = [refCount EXCEPT ![d] = refCount[d] + 1]
        /\ UNCHANGED <<disposed, doomed, live, attached, keyOf>>
        /\ \A y \in Actors \ {x} : pc'[y] = pc[y] /\ ptr'[y] = ptr[y]
        /\ ptr[x] = d \/ pc[x] = "idle"
  BY DEF TakeRef, CopyRef, GoTo, registryVars, objectVars
<1>2. SUFFICES ASSUME NEW o \in live \cap attached, refCount'[o] = 0
      PROVE  o \in disposed \/ keyOf[o] \in doomed \/ Pending(o)'
  BY <1>1 DEF NothingStranded
<1>3. o \in Objs /\ o # d /\ refCount[o] = 0
  BY <1>1, <1>2
<1>4. o \in disposed \/ keyOf[o] \in doomed \/ Pending(o)
  BY <1>3 DEF NothingStranded
<1>5. Pending(o) => Pending(o)'
  BY <1>1, <1>3, OthersStayPending DEF PendingLabels
<1> QED
  BY <1>4, <1>5

\* Dropping a Ref leaves its object with another one or with the dropper.
LEMMA DropNothingStranded ==
    ASSUME RefInv, NothingStranded, NEW x \in Actors, NEW r \in Refs, NEW d \in live,
           ref[r] = d, pc[x] \in {"idle", "wait"},
           Decrement(x, d),
           UNCHANGED <<disposed, doomed, live, attached, keyOf>>
    PROVE  NothingStranded'
<1> USE DEF RefInv, TypeOK
<1>1. refCount[d] > 0 /\ d \in Objs
  BY DropPositive
<1>2. /\ refCount'[d] > 0 \/ Pending(d)'
      /\ \A p \in Objs \ {d} : refCount'[p] = refCount[p]
      /\ \A y \in Actors \ {x} : pc'[y] = pc[y] /\ ptr'[y] = ptr[y]
  BY <1>1, DecrementPending
<1>3. SUFFICES ASSUME NEW o \in live \cap attached, refCount'[o] = 0
      PROVE  o \in disposed \/ keyOf[o] \in doomed \/ Pending(o)'
  BY DEF NothingStranded
<1>4. CASE o = d
  BY <1>2, <1>3, <1>4
<1>5. CASE o # d
  <2>1. o \in Objs /\ refCount[o] = 0
    BY <1>2, <1>3, <1>5
  <2>2. o \in disposed \/ keyOf[o] \in doomed \/ Pending(o)
    BY <2>1 DEF NothingStranded
  <2>3. Pending(o) => Pending(o)'
    BY <1>2, <2>1, OthersStayPending DEF PendingLabels
  <2> QED
    BY <2>2, <2>3
<1> QED
  BY <1>4, <1>5

\* The last Ref is gone: the object is handed to m_disposed, or deleted.
LEMMA UnrefNothingStranded ==
    ASSUME RefInv, NothingStranded, NEW x \in Actors,
           \/ AcquireSpinlock(x) \/ Dispose(x) \/ ReleaseSpinlock(x) \/ Orphaned(x)
           \/ Value(x)
    PROVE  NothingStranded'
<1> USE DEF RefInv, TypeOK, registryVars, objectVars, GoTo
<1>1. /\ UNCHANGED <<doomed, live, attached, keyOf, refCount>>
      /\ disposed \subseteq disposed'
      /\ \A y \in Actors \ {x} : pc'[y] = pc[y] /\ ptr'[y] = ptr[y]
  BY DEF AcquireSpinlock, Dispose, ReleaseSpinlock, Orphaned, Value, Return
<1>2. \/ pc[x] \notin PendingLabels
      \/ ptr[x] \in disposed'
      \/ pc'[x] \in PendingLabels /\ ptr'[x] = ptr[x]
  BY DEF AcquireSpinlock, Dispose, ReleaseSpinlock, Orphaned, Value, PendingLabels
<1>3. ASSUME NEW o \in Objs, Pending(o) PROVE o \in disposed' \/ Pending(o)'
  BY <1>1, <1>2, <1>3, OthersStayPending DEF Pending, PendingLabels
<1> QED
  BY <1>1, <1>3 DEF NothingStranded

\* A creation that ends or fails strands nothing.
LEMMA CreatorNothingStranded ==
    ASSUME RefInv, NothingStranded, NEW o \in Objs,
           CreateDone(o) \/ CreateFail(o) \/ StoreException(o)
    PROVE  NothingStranded'
<1> USE DEF RefInv, TypeOK, registryVars, objectVars, GoTo
<1>1. /\ o \in Actors
      /\ UNCHANGED <<disposed, doomed, live, attached, keyOf, refCount>>
      /\ \A y \in Actors \ {o} : pc'[y] = pc[y] /\ ptr'[y] = ptr[y]
      /\ pc[o] \notin PendingLabels
  BY DEF CreateDone, CreateFail, StoreException, HasDependency, PendingLabels, Actors
<1>2. ASSUME NEW p \in Objs, Pending(p) PROVE Pending(p)'
  BY <1>1, <1>2, OthersStayPending
<1> QED
  BY <1>1, <1>2 DEF NothingStranded

\* Destroying an object strands neither another one nor its dependency.
LEMMA DestroyNothingStranded ==
    ASSUME RefInv, NothingStranded, NEW x \in Actors, NEW c \in live, Destroy(x, c),
           pc[x] \in {"delete", "sweep"}, pc[x] = "delete" => ptr[x] = c
    PROVE  \A o \in live' \cap attached' :
             refCount'[o] = 0 =>
                 /\ o \in live \cap attached /\ o # c /\ keyOf'[o] = keyOf[o]
                 /\ o \in disposed \/ keyOf[o] \in doomed \/ Pending(o)'
<1> USE DEF RefInv, TypeOK
<1>0. c \in Objs /\ c \in Refs
  BY DEF Refs
<1>1. SUFFICES ASSUME NEW o \in live' \cap attached', refCount'[o] = 0
      PROVE  /\ o \in live \cap attached /\ o # c /\ keyOf'[o] = keyOf[o]
             /\ o \in disposed \/ keyOf[o] \in doomed \/ Pending(o)'
  OBVIOUS
<1>2. o \in live \cap attached /\ o # c /\ o \in Objs /\ keyOf'[o] = keyOf[o]
  BY <1>0 DEF Destroy
<1>3. CASE ref[c] = None
  <2>1. /\ refCount' = refCount
        /\ \A y \in Actors \ {x} : pc'[y] = pc[y] /\ ptr'[y] = ptr[y]
    BY <1>3 DEF Destroy, Return, GoTo
  <2>2. o \in disposed \/ keyOf[o] \in doomed \/ Pending(o)
    BY <1>1, <1>2, <2>1 DEF NothingStranded
  <2>3. Pending(o) => Pending(o)'
    BY <1>2, <2>1, OthersStayPending DEF PendingLabels
  <2> QED
    BY <1>2, <2>2, <2>3
<1>4. CASE ref[c] # None
  <2>1. PICK d \in live : ref[c] = d
    BY <1>4 DEF Destroy
  <2>2. d \in Objs /\ Decrement(x, d) /\ refCount[d] > 0
    BY <1>0, <1>4, <2>1, DropPositive DEF Destroy
  <2>3. /\ refCount'[d] > 0 \/ Pending(d)'
        /\ \A p \in Objs \ {d} : refCount'[p] = refCount[p]
        /\ \A y \in Actors \ {x} : pc'[y] = pc[y] /\ ptr'[y] = ptr[y]
    BY <2>2, DecrementPending
  <2>4. CASE o = d
    BY <1>1, <1>2, <2>3, <2>4
  <2>5. CASE o # d
    <3>1. o \in disposed \/ keyOf[o] \in doomed \/ Pending(o)
      BY <1>1, <1>2, <2>3, <2>5 DEF NothingStranded
    <3>2. Pending(o) => Pending(o)'
      BY <1>2, <2>3, OthersStayPending DEF PendingLabels
    <3> QED
      BY <1>2, <3>1, <3>2
  <2> QED
    BY <2>4, <2>5
<1> QED
  BY <1>3, <1>4


\* A collection forgets in m_disposed only what it is about to sweep.
LEMMA CollectNothingStranded ==
    ASSUME RefInv, ShareInv, NothingStranded, NEW x \in Threads,
           \/ StartCollect(x, FALSE) \/ StartCollect(x, TRUE) \/ MoveDisposed(x)
           \/ EndCollect(x) \/ (\E k \in Keys : Detach(x, k)) \/ EndClear(x)
    PROVE  NothingStranded'
<1> USE DEF RefInv, TypeOK, objectVars, GoTo
<1>1. /\ UNCHANGED <<live, keyOf, refCount, ptr>> /\ attached' \subseteq attached
      /\ \A y \in Actors \ {x} : pc'[y] = pc[y]
      /\ pc[x] \notin PendingLabels
      /\ x \in Actors
  BY DEF StartCollect, MoveDisposed, EndCollect, Detach, EndClear, PendingLabels, Actors
<1>2. SUFFICES ASSUME NEW o \in live \cap attached, refCount[o] = 0
      PROVE  o \in disposed' \/ keyOf[o] \in doomed' \/ Pending(o)'
  BY <1>1 DEF NothingStranded
<1>3. o \in disposed \/ keyOf[o] \in doomed \/ Pending(o)
  BY <1>2 DEF NothingStranded
<1>4. CASE Pending(o)
  BY <1>1, <1>4, OthersStayPending
<1>5. CASE o \in disposed
  <2>1. children[keyOf[o]] = o /\ keyOf[o] \in Keys
    BY DEF ShareInv, OneInstance, CreatorInv
  <2>2. keyOf[o] \in Garbage
    BY <1>5, <2>1 DEF Garbage
  <2> QED
    BY <1>5, <2>2 DEF StartCollect, MoveDisposed, EndCollect, Detach, EndClear
<1>6. CASE keyOf[o] \in doomed
  BY <1>6 DEF StartCollect, MoveDisposed, EndCollect, Detach, EndClear
<1> QED
  BY <1>3, <1>4, <1>5, <1>6

\* Sweeping an object strands neither its dependency nor another key.
LEMMA SweepNothingStranded ==
    ASSUME RefInv, ShareInv, NothingStranded, NEW x \in Threads, NEW k \in Keys, Sweep(x, k)
    PROVE  NothingStranded'
<1>0. x \in Actors /\ children[k] \in live /\ pc[x] = "sweep"
  BY DEF Actors, Sweep
<1>1. PICK c \in live : c = children[k]
  BY <1>0
<1>2. \A o \in live' \cap attached' :
         refCount'[o] = 0 =>
             /\ o \in live \cap attached /\ o # c /\ keyOf'[o] = keyOf[o]
             /\ o \in disposed \/ keyOf[o] \in doomed \/ Pending(o)'
  BY <1>0, <1>1, DestroyNothingStranded DEF Sweep
<1>3. \A o \in live \cap attached : o # c => keyOf[o] # k
  BY <1>1 DEF ShareInv, OneInstance
<1>4. disposed' = disposed /\ doomed' = doomed \ {k}
  BY DEF Sweep
<1> QED
  BY <1>2, <1>3, <1>4 DEF NothingStranded

\* Deleting a detached object strands nothing that is registered.
LEMMA DeleteThisNothingStranded ==
    ASSUME RefInv, NothingStranded, NEW x \in Actors, DeleteThis(x)
    PROVE  NothingStranded'
<1>1. PICK c \in live : c = ptr[x]
  BY DEF DeleteThis
<1>2. \A o \in live' \cap attached' :
         refCount'[o] = 0 =>
             /\ o \in live \cap attached /\ o # c /\ keyOf'[o] = keyOf[o]
             /\ o \in disposed \/ keyOf[o] \in doomed \/ Pending(o)'
  BY <1>1, DestroyNothingStranded DEF DeleteThis
<1> QED
  BY <1>2 DEF NothingStranded, DeleteThis, registryVars

\* NothingStranded is inductive, given the counts and the table.
LEMMA NothingStrandedStep ==
    RefInv /\ ShareInv /\ NothingStranded /\ [Next]_vars => NothingStranded'
<1> SUFFICES ASSUME RefInv, ShareInv, NothingStranded, [Next]_vars
             PROVE  NothingStranded'
  OBVIOUS
<1>1. ASSUME NEW x \in Clients, ClientStep(x) PROVE NothingStranded'
  <2>0. x \in Actors /\ x \notin Objs
    BY ActorFacts
  <2>1. ASSUME NEW k \in Keys, NEW r \in ClientRefs, Get(x, k, r) PROVE NothingStranded'
    BY <2>0, <2>1, ActorFacts, LookupNothingStranded DEF Get
  <2>2. ASSUME NEW r \in ClientRefs, NEW s \in ClientRefs, CopyRef(x, r, s)
        PROVE  NothingStranded'
    BY <2>0, <2>2, TakeNothingStranded
  <2>3. ASSUME NEW r \in ClientRefs, Release(x, r) PROVE NothingStranded'
    <3>1. PICK d \in live : d = ref[r]
      BY <2>3 DEF Release
    <3> QED
      BY <2>0, <2>3, <3>1, ActorFacts, DropNothingStranded
         DEF Release, registryVars, objectVars
  <2> QED
    BY <1>1, <2>1, <2>2, <2>3 DEF ClientStep
<1>2. ASSUME NEW x \in Collectors, StartCollect(x, FALSE) PROVE NothingStranded'
  BY <1>2, ActorFacts, CollectNothingStranded
<1>3. ASSUME NEW x \in Clearers, StartCollect(x, TRUE) PROVE NothingStranded'
  BY <1>3, ActorFacts, CollectNothingStranded
<1>4. ASSUME NEW x \in Actors, TakeRef(x) \/ Value(x) \/ UnrefStep(x)
      PROVE  NothingStranded'
  BY <1>4, TakeNothingStranded, UnrefNothingStranded, DeleteThisNothingStranded
     DEF UnrefStep
<1>5. ASSUME NEW o \in Objs, CreatorStep(o) PROVE NothingStranded'
  <2>0. o \in Actors /\ o \in Refs
    BY ActorFacts
  <2>1. CASE CreatorGet(o)
    <3>1. DependsOn[keyOf[o]] \in Keys
      BY <2>0, <2>1, ConstantsAssumption DEF CreatorGet, RefInv, CreatorInv
    <3> QED
      BY <2>0, <2>1, <3>1, LookupNothingStranded DEF CreatorGet
  <2>2. CASE CreateUnwind(o)
    <3>1. PICK d \in live : d = ptr[o] /\ ref[o] = d
      BY <2>2 DEF CreateUnwind, RefInv, CreatorInv
    <3> QED
      BY <2>0, <2>2, <3>1, DropNothingStranded DEF CreateUnwind, registryVars, objectVars
  <2> QED
    BY <1>5, <2>1, <2>2, CreatorNothingStranded DEF CreatorStep
<1>6. ASSUME NEW x \in Threads, CollectStep(x) PROVE NothingStranded'
  BY <1>6, CollectNothingStranded, SweepNothingStranded DEF CollectStep
<1>7. CASE UseAfterFree \/ UNCHANGED vars
  BY <1>7 DEF UseAfterFree, vars, registryVars, objectVars, NothingStranded, Pending
<1> QED
  BY <1>1, <1>2, <1>3, <1>4, <1>5, <1>6, <1>7 DEF Next, Halted

\* Every unreferenced singleton of the storage is on its way to be collected:
\* no interleaving of gets, releases, collections and clears leaves one that
\* no later garbageCollect() would delete.
THEOREM UnreferencedIsCollected == Spec => []NothingStranded
<1>1. Init => NothingStranded
  BY DEF Init, NothingStranded
<1> QED
  BY <1>1, NothingStrandedStep, RefInvAlways, ShareInvAlways, PTL DEF Spec


-----------------------------------------------------------------------------
(* The collector never waits for a creation. *)

\* Every Ref to an object that is being created belongs to somebody who waits
\* for its value, so nobody can have dropped one.
FinishedInv ==
    \A o \in live : value[o] = "creating" =>
        /\ \A r \in Refs : ref[r] = o =>
             \E x \in Actors : slot[x] = r /\ pc[x] = "wait" /\ ptr[x] = o
        /\ \A x \in Actors : ptr[x] = o => pc[x] \in {"ref", "wait"}
        /\ o \notin disposed

\* A sweep in progress owns the table of children.
DoomedInv ==
    /\ doomed # {} => childrenLock # None
    /\ \A x \in Actors : pc[x] = "detach" => doomed = {}
    /\ \A k \in doomed : children[k] \in Objs /\ value[children[k]] # "creating"

\* A lookup leaves the creations and what is referenced alone.
LEMMA LookupFinishedInv ==
    ASSUME RefInv, FinishedInv, NEW x \in Actors, NEW k \in Keys, NEW r \in Refs,
           Lookup(x, k, r), pc[x] \in {"idle", "create"}, x \in Objs => pc[x] = "create"
    PROVE  FinishedInv'
<1> USE DEF RefInv, TypeOK
<1>1. CASE children[k] # None
  BY <1>1 DEF Lookup, Recycle, GoTo, objectVars, FinishedInv
<1>2. CASE children[k] = None
  <2>1. PICK n \in Objs :
          /\ Fresh(n) /\ pc[n] = "idle"
          /\ live' = live \cup {n}
          /\ value' = [value EXCEPT ![n] = "creating"]
          /\ ptr' = [ptr EXCEPT ![x] = n]
          /\ pc' = [pc EXCEPT ![x] = "ref", ![n] = "create"]
    BY <1>2 DEF Lookup, Recycle
  <2>2. UNCHANGED <<disposed, ref>> /\ slot' = [slot EXCEPT ![x] = r]
    BY <1>2 DEF Lookup, Recycle
  <2>3. x # n
    BY <2>1
  <2>4. SUFFICES ASSUME NEW o \in live', value'[o] = "creating"
        PROVE  /\ \A s \in Refs : ref[s] = o =>
                    \E y \in Actors : slot'[y] = s /\ pc'[y] = "wait" /\ ptr'[y] = o
               /\ \A y \in Actors : ptr'[y] = o => pc'[y] \in {"ref", "wait"}
               /\ o \notin disposed
    BY <2>2 DEF FinishedInv
  <2>5. CASE o = n
    BY <2>1, <2>3, <2>5 DEF Fresh
  <2>6. CASE o # n
    <3>1. o \in live /\ value[o] = "creating"
      BY <2>1, <2>4, <2>6
    <3>2. ASSUME NEW s \in Refs, ref[s] = o
          PROVE  \E y \in Actors : slot'[y] = s /\ pc'[y] = "wait" /\ ptr'[y] = o
      <4>1. PICK y \in Actors : slot[y] = s /\ pc[y] = "wait" /\ ptr[y] = o
        BY <3>1, <3>2 DEF FinishedInv
      <4>2. y # x /\ y # n
        BY <2>1, <4>1
      <4> QED
        BY <2>1, <2>2, <4>1, <4>2
    <3> QED
      BY <2>1, <2>6, <3>1, <3>2 DEF FinishedInv, Fresh
  <2> QED
    BY <2>5, <2>6
<1> QED
  BY <1>1, <1>2

\* Whoever takes a Ref waits for the value before it does anything else.
LEMMA TakeRefFinishedInv ==
    ASSUME RefInv, FinishedInv, NEW x \in Actors, TakeRef(x)
    PROVE  FinishedInv'
<1> USE DEF RefInv, TypeOK, registryVars, objectVars, GoTo
<1>1. slot[x] \in Refs /\ ptr[x] \in Objs
  BY DEF TakeRef, SlotInv
<1>2. SUFFICES ASSUME NEW o \in live, value[o] = "creating"
      PROVE  /\ \A r \in Refs : ref'[r] = o =>
                  \E y \in Actors : slot[y] = r /\ pc'[y] = "wait" /\ ptr[y] = o
             /\ \A y \in Actors : ptr[y] = o => pc'[y] \in {"ref", "wait"}
             /\ o \notin disposed
  BY DEF FinishedInv, TakeRef
<1>3. ASSUME NEW r \in Refs, ref'[r] = o
      PROVE  \E y \in Actors : slot[y] = r /\ pc'[y] = "wait" /\ ptr[y] = o
  <2>1. CASE r = slot[x]
    BY <1>1, <1>3, <2>1 DEF TakeRef
  <2>2. CASE r # slot[x]
    BY <1>2, <1>3, <2>2 DEF TakeRef, FinishedInv
  <2> QED
    BY <2>1, <2>2
<1> QED
  BY <1>2, <1>3 DEF TakeRef, FinishedInv

\* Whoever copies a Ref waits for the value before it does anything else.
LEMMA CopyRefFinishedInv ==
    ASSUME RefInv, FinishedInv, NEW x \in Actors, NEW r \in Refs, NEW s \in Refs,
           CopyRef(x, r, s)
    PROVE  FinishedInv'
<1> USE DEF RefInv, TypeOK, registryVars, objectVars, GoTo
<1>1. SUFFICES ASSUME NEW o \in live, value[o] = "creating"
      PROVE  /\ \A q \in Refs : ref'[q] = o =>
                  \E y \in Actors : slot'[y] = q /\ pc'[y] = "wait" /\ ptr'[y] = o
             /\ \A y \in Actors : ptr'[y] = o => pc'[y] \in {"ref", "wait"}
             /\ o \notin disposed
  BY DEF FinishedInv, CopyRef
<1>2. ASSUME NEW q \in Refs, ref'[q] = o
      PROVE  \E y \in Actors : slot'[y] = q /\ pc'[y] = "wait" /\ ptr'[y] = o
  <2>1. CASE q = s
    BY <1>2, <2>1 DEF CopyRef
  <2>2. CASE q # s
    BY <1>1, <1>2, <2>2 DEF CopyRef, FinishedInv
  <2> QED
    BY <2>1, <2>2
<1> QED
  BY <1>1, <1>2 DEF CopyRef, FinishedInv

\* A Ref whose filling has ended points to an object that has its value.
LEMMA DropFinishedInv ==
    ASSUME RefInv, FinishedInv, NEW x \in Actors, NEW r \in Refs, NEW d \in live,
           ref[r] = d, value[d] # "creating", pc[x] \in {"idle", "wait"},
           ptr[x] \in {None, d} \/ pc[x] = "idle",
           ref' = [ref EXCEPT ![r] = None], Decrement(x, d),
           UNCHANGED <<disposed, live, value>>
    PROVE  FinishedInv'
<1> USE DEF RefInv, TypeOK
<1>0. None \notin Objs /\ d \in Objs /\ refCount[d] > 0
  BY ActorFacts, DropPositive
<1>1. /\ \A y \in Actors \ {x} : pc'[y] = pc[y] /\ ptr'[y] = ptr[y] /\ slot'[y] = slot[y]
      /\ ptr'[x] \in {None, d}
  BY <1>0 DEF Decrement, Return, GoTo
<1>2. SUFFICES ASSUME NEW o \in live, value[o] = "creating"
      PROVE  /\ \A q \in Refs : ref'[q] = o =>
                  \E y \in Actors : slot'[y] = q /\ pc'[y] = "wait" /\ ptr'[y] = o
             /\ \A y \in Actors : ptr'[y] = o => pc'[y] \in {"ref", "wait"}
             /\ o \notin disposed
  BY DEF FinishedInv
<1>3. ASSUME NEW q \in Refs, ref'[q] = o
      PROVE  \E y \in Actors : slot'[y] = q /\ pc'[y] = "wait" /\ ptr'[y] = o
  <2>1. PICK y \in Actors : slot[y] = q /\ pc[y] = "wait" /\ ptr[y] = o
    BY <1>0, <1>2, <1>3 DEF FinishedInv
  <2>2. y # x
    BY <1>0, <1>2, <2>1
  <2> QED
    BY <1>1, <2>1, <2>2
<1> QED
  BY <1>0, <1>1, <1>2, <1>3 DEF FinishedInv


\* Steps that hand out no Ref: who waited still waits, unless for a value that
\* is there.
LEMMA QuietFinishedInv ==
    ASSUME RefInv, FinishedInv, NEW x \in Actors,
           \/ Value(x) \/ AcquireSpinlock(x) \/ Dispose(x) \/ ReleaseSpinlock(x)
           \/ Orphaned(x) \/ CreateDone(x) \/ CreateFail(x) \/ StoreException(x)
    PROVE  FinishedInv'
<1> USE DEF RefInv, TypeOK, registryVars, objectVars, GoTo
<1>0. None \notin Objs
  BY ActorFacts
<1>1. /\ UNCHANGED <<live, ref>>
      /\ \A o \in live : value'[o] = "creating" => value[o] = "creating"
      /\ \A y \in Actors \ {x} : pc'[y] = pc[y] /\ ptr'[y] = ptr[y] /\ slot'[y] = slot[y]
      /\ ptr'[x] = ptr[x] \/ ptr'[x] = None
      /\ \A o \in disposed' : o \in disposed \/ o = ptr[x]
  BY DEF Value, AcquireSpinlock, Dispose, ReleaseSpinlock, Orphaned, CreateDone, CreateFail,
     StoreException, Return
<1>2. \/ pc[x] \in {"lock", "check", "unlock", "create", "throw"}
      \/ pc[x] = "wait" /\ ptr'[x] = None /\ value[ptr[x]] # "creating"
  BY DEF Value, AcquireSpinlock, Dispose, ReleaseSpinlock, Orphaned, CreateDone, CreateFail,
     StoreException, HasDependency
<1>3. pc[x] # "check" => disposed' = disposed
  BY DEF Value, AcquireSpinlock, Dispose, ReleaseSpinlock, Orphaned, CreateDone, CreateFail,
     StoreException
<1>4. SUFFICES ASSUME NEW o \in live, value[o] = "creating"
      PROVE  /\ \A q \in Refs : ref[q] = o =>
                  \E y \in Actors : slot'[y] = q /\ pc'[y] = "wait" /\ ptr'[y] = o
             /\ \A y \in Actors : ptr'[y] = o => pc'[y] \in {"ref", "wait"}
             /\ o \notin disposed'
  BY <1>1 DEF FinishedInv
<1>5. ptr'[x] # o
  BY <1>0, <1>1, <1>2, <1>4 DEF FinishedInv
<1>6. ASSUME NEW q \in Refs, ref[q] = o
      PROVE  \E y \in Actors : slot'[y] = q /\ pc'[y] = "wait" /\ ptr'[y] = o
  <2>1. PICK y \in Actors : slot[y] = q /\ pc[y] = "wait" /\ ptr[y] = o
    BY <1>4, <1>6 DEF FinishedInv
  <2>2. y # x
    BY <1>2, <1>4, <2>1
  <2> QED
    BY <1>1, <2>1, <2>2
<1> QED
  BY <1>1, <1>2, <1>3, <1>4, <1>5, <1>6 DEF FinishedInv

\* A destructor runs only on an object that has its value.
LEMMA DestroyFinishedInv ==
    ASSUME RefInv, FinishedInv, NEW x \in Actors, NEW c \in live, Destroy(x, c),
           pc[x] \in {"delete", "sweep"}, UNCHANGED disposed
    PROVE  FinishedInv'
<1> USE DEF RefInv, TypeOK
<1>0. /\ None \notin Objs /\ c \in Objs /\ c \in Refs /\ c \in Actors
      /\ value[c] # "creating" /\ pc[c] = "idle"
  BY ActorFacts DEF Destroy, CreatorInv
<1>1. \A y \in Actors : slot[y] # c
  BY <1>0 DEF SlotInv
<1>2. ref[c] # None => ref[c] \in live /\ value[ref[c]] # "creating"
  BY <1>0, <1>1 DEF FinishedInv, Destroy
<1>3. /\ \A y \in Actors \ {x} : pc'[y] = pc[y] /\ ptr'[y] = ptr[y] /\ slot'[y] = slot[y]
      /\ ptr'[x] \in {None, ref[c]}
      /\ ref' = [ref EXCEPT ![c] = None]
      /\ \A o \in live' : o \in live /\ (value'[o] = "creating" => value[o] = "creating")
  BY <1>0 DEF Destroy, Decrement, Return, GoTo
<1>4. SUFFICES ASSUME NEW o \in live, value[o] = "creating"
      PROVE  /\ \A q \in Refs : ref'[q] = o =>
                  \E y \in Actors : slot'[y] = q /\ pc'[y] = "wait" /\ ptr'[y] = o
             /\ \A y \in Actors : ptr'[y] = o => pc'[y] \in {"ref", "wait"}
             /\ o \notin disposed
  BY <1>3 DEF FinishedInv
<1>5. ASSUME NEW q \in Refs, ref'[q] = o
      PROVE  \E y \in Actors : slot'[y] = q /\ pc'[y] = "wait" /\ ptr'[y] = o
  <2>1. PICK y \in Actors : slot[y] = q /\ pc[y] = "wait" /\ ptr[y] = o
    BY <1>0, <1>3, <1>4, <1>5 DEF FinishedInv
  <2>2. y # x
    BY <2>1
  <2> QED
    BY <1>3, <2>1, <2>2
<1> QED
  BY <1>0, <1>2, <1>3, <1>4, <1>5 DEF FinishedInv

\* Every step keeps unref() away from values in creation.
LEMMA FinishedInvStep == RefInv /\ FinishedInv /\ [Next]_vars => FinishedInv'
<1> SUFFICES ASSUME RefInv, FinishedInv, [Next]_vars PROVE FinishedInv'
  OBVIOUS
<1>1. ASSUME NEW x \in Clients, ClientStep(x) PROVE FinishedInv'
  <2>0. x \in Actors /\ x \notin Objs
    BY ActorFacts
  <2>1. ASSUME NEW k \in Keys, NEW r \in ClientRefs, Get(x, k, r) PROVE FinishedInv'
    BY <2>0, <2>1, ActorFacts, LookupFinishedInv DEF Get
  <2>2. ASSUME NEW r \in ClientRefs, NEW s \in ClientRefs, CopyRef(x, r, s)
        PROVE  FinishedInv'
    BY <2>0, <2>2, ActorFacts, CopyRefFinishedInv
  <2>3. ASSUME NEW r \in ClientRefs, Release(x, r) PROVE FinishedInv'
    <3>1. PICK d \in live : d = ref[r]
      BY <2>3 DEF Release
    <3>2. r \in Refs /\ value[d] # "creating"
      BY <2>3, <3>1, ActorFacts DEF Release, Filling, FinishedInv
    <3> QED
      BY <2>0, <2>3, <3>1, <3>2, DropFinishedInv DEF Release, registryVars, objectVars
  <2> QED
    BY <1>1, <2>1, <2>2, <2>3 DEF ClientStep
<1>2. ASSUME NEW x \in Actors, TakeRef(x) \/ Value(x) \/ UnrefStep(x)
      PROVE  FinishedInv'
  <2>1. CASE DeleteThis(x)
    <3>1. PICK c \in live : c = ptr[x]
      BY <2>1 DEF DeleteThis
    <3> QED
      BY <2>1, <3>1, DestroyFinishedInv DEF DeleteThis, registryVars
  <2> QED
    BY <1>2, <2>1, TakeRefFinishedInv, QuietFinishedInv DEF UnrefStep
<1>3. ASSUME NEW o \in Objs, CreatorStep(o) PROVE FinishedInv'
  <2>0. o \in Actors /\ o \in Refs
    BY ActorFacts
  <2>1. CASE CreatorGet(o)
    <3>1. DependsOn[keyOf[o]] \in Keys
      BY <2>0, <2>1, ConstantsAssumption DEF CreatorGet, RefInv, CreatorInv
    <3> QED
      BY <2>0, <2>1, <3>1, LookupFinishedInv DEF CreatorGet
  <2>2. CASE CreateUnwind(o)
    <3>1. PICK d \in live : d = ptr[o] /\ ref[o] = d
      BY <2>2 DEF CreateUnwind, RefInv, CreatorInv
    <3> QED
      BY <2>0, <2>2, <3>1, DropFinishedInv DEF CreateUnwind, registryVars, objectVars
  <2> QED
    BY <1>3, <2>0, <2>1, <2>2, QuietFinishedInv DEF CreatorStep
<1>4. ASSUME NEW x \in Threads, NEW k \in Keys, Sweep(x, k) PROVE FinishedInv'
  <2>1. PICK c \in live : c = children[k]
    BY <1>4 DEF Sweep
  <2> QED
    BY <1>4, <2>1, ActorFacts, DestroyFinishedInv DEF Sweep
<1>5. ASSUME NEW x \in Threads,
             \/ StartCollect(x, FALSE) \/ StartCollect(x, TRUE) \/ MoveDisposed(x)
             \/ EndCollect(x) \/ (\E k \in Keys : Detach(x, k)) \/ EndClear(x)
      PROVE  FinishedInv'
  <2>1. /\ UNCHANGED <<live, value, ref, ptr, slot>> /\ disposed' \subseteq disposed
        /\ \A y \in Actors \ {x} : pc'[y] = pc[y]
        /\ pc[x] \in {"idle", "sweep", "detach"}
    BY <1>5, ActorFacts DEF StartCollect, MoveDisposed, EndCollect, Detach, EndClear, GoTo,
       objectVars, RefInv, TypeOK
  <2> QED
    BY <2>1, ActorFacts DEF FinishedInv
<1>6. CASE UseAfterFree \/ UNCHANGED vars
  BY <1>6 DEF UseAfterFree, vars, registryVars, objectVars, FinishedInv
<1> QED
  BY <1>1, <1>2, <1>3, <1>4, <1>5, <1>6, ActorFacts DEF Next, Halted, CollectStep


\* No lookup runs while a sweep is in progress.
LEMMA LookupDoomedInv ==
    ASSUME RefInv, DoomedInv, NEW x \in Actors, NEW k \in Keys, NEW r \in Refs,
           Lookup(x, k, r), pc[x] \in {"idle", "create"}
    PROVE  DoomedInv'
<1>1. doomed = {} /\ doomed' = {}
  BY DEF Lookup, Recycle, DoomedInv
<1> QED
  BY <1>1 DEF DoomedInv

\* A destructor starts no creation and no detaching.
LEMMA DestroyDoomedInv ==
    ASSUME RefInv, ShareInv, DoomedInv, NEW x \in Actors, NEW c \in live, Destroy(x, c),
           pc[x] \in {"delete", "sweep"}
    PROVE  /\ \A o \in Objs : value[o] # "creating" => value'[o] # "creating"
           /\ \A y \in Actors : pc'[y] = "detach" => pc[y] = "detach"
BY DEF Destroy, Decrement, Return, AfterUnref, GoTo, RefInv, TypeOK

\* Every step keeps what is being swept registered and finished.
LEMMA DoomedInvStep ==
    RefInv /\ ShareInv /\ FinishedInv /\ DoomedInv /\ [Next]_vars => DoomedInv'
<1> SUFFICES ASSUME RefInv, ShareInv, FinishedInv, DoomedInv, [Next]_vars
             PROVE  DoomedInv'
  OBVIOUS
<1>1. ASSUME NEW x \in Clients, ClientStep(x) PROVE DoomedInv'
  <2>0. x \in Actors
    BY ActorFacts
  <2>1. ASSUME NEW k \in Keys, NEW r \in ClientRefs, Get(x, k, r) PROVE DoomedInv'
    BY <2>0, <2>1, ActorFacts, LookupDoomedInv DEF Get
  <2>2. ASSUME NEW r \in ClientRefs, NEW s \in ClientRefs,
               CopyRef(x, r, s) \/ Release(x, r)
        PROVE  DoomedInv'
    BY <2>0, <2>2 DEF CopyRef, Release, Decrement, Return, AfterUnref, GoTo, registryVars,
       objectVars, DoomedInv, RefInv, TypeOK
  <2> QED
    BY <1>1, <2>1, <2>2 DEF ClientStep
<1>2. ASSUME NEW x \in Actors, TakeRef(x) \/ Value(x) \/ UnrefStep(x) PROVE DoomedInv'
  <2>1. CASE DeleteThis(x)
    <3>1. PICK c \in live : c = ptr[x]
      BY <2>1 DEF DeleteThis
    <3> QED
      BY <2>1, <3>1, DestroyDoomedInv DEF DeleteThis, registryVars, DoomedInv
  <2>2. CASE ~DeleteThis(x)
    BY <1>2, <2>2 DEF TakeRef, Value, UnrefStep, AcquireSpinlock, Dispose, ReleaseSpinlock,
       Orphaned, Return, AfterUnref, GoTo, registryVars, objectVars, DoomedInv, RefInv, TypeOK
  <2> QED
    BY <2>1, <2>2
<1>3. ASSUME NEW o \in Objs, CreatorStep(o) PROVE DoomedInv'
  <2>0. o \in Actors
    BY ActorFacts
  <2>1. CASE CreatorGet(o)
    <3>1. DependsOn[keyOf[o]] \in Keys
      BY <2>0, <2>1, ConstantsAssumption DEF CreatorGet, RefInv, CreatorInv
    <3> QED
      BY <2>0, <2>1, <3>1, ActorFacts, LookupDoomedInv DEF CreatorGet
  <2>2. CASE ~CreatorGet(o)
    BY <1>3, <2>0, <2>2 DEF CreatorStep, CreateDone, CreateFail, CreateUnwind,
       StoreException, Decrement, Return, AfterUnref, GoTo, registryVars, objectVars,
       DoomedInv, RefInv, TypeOK
  <2> QED
    BY <2>1, <2>2
<1>4. ASSUME NEW x \in Threads, NEW k \in Keys, Sweep(x, k) PROVE DoomedInv'
  <2>0. x \in Actors /\ pc[x] = "sweep" /\ childrenLock = x /\ x # None
    BY <1>4, ActorFacts DEF Sweep, ShareInv, LockInv
  <2>1. PICK c \in live : c = children[k]
    BY <1>4 DEF Sweep
  <2>2. /\ \A o \in Objs : value[o] # "creating" => value'[o] # "creating"
        /\ \A y \in Actors : pc'[y] = "detach" => pc[y] = "detach"
    BY <1>4, <2>0, <2>1, DestroyDoomedInv DEF Sweep
  <2>3. \A j \in doomed' : j \in doomed /\ children'[j] = children[j]
    BY <1>4 DEF Sweep, RefInv, TypeOK
  <2> QED
    BY <1>4, <2>0, <2>2, <2>3 DEF Sweep, DoomedInv
<1>5. ASSUME NEW x \in Threads, StartCollect(x, FALSE) \/ StartCollect(x, TRUE)
      PROVE  DoomedInv'
  BY <1>5, ActorFacts DEF StartCollect, GoTo, objectVars, DoomedInv, RefInv, TypeOK
<1>6. ASSUME NEW x \in Threads, MoveDisposed(x) PROVE DoomedInv'
  <2>1. x \in Actors /\ childrenLock = x /\ x # None
    BY <1>6, ActorFacts DEF MoveDisposed, ShareInv, LockInv
  <2>2. \A y \in Actors : pc[y] # "detach"
    BY <1>6, <2>1 DEF MoveDisposed, ShareInv, LockInv
  <2>3. ASSUME NEW k \in Garbage
        PROVE  children[k] \in Objs /\ value[children[k]] # "creating"
    BY DEF Garbage, FinishedInv, RefInv, CreatorInv, TypeOK
  <2> QED
    BY <1>6, <2>1, <2>2, <2>3 DEF MoveDisposed, objectVars, DoomedInv
<1>7. ASSUME NEW x \in Threads,
             EndCollect(x) \/ (\E k \in Keys : Detach(x, k)) \/ EndClear(x)
      PROVE  DoomedInv'
  BY <1>7, ActorFacts DEF EndCollect, Detach, EndClear, GoTo, objectVars, DoomedInv, RefInv, TypeOK
<1>8. CASE UseAfterFree \/ UNCHANGED vars
  BY <1>8 DEF UseAfterFree, vars, registryVars, objectVars, DoomedInv
<1> QED
  BY <1>1, <1>2, <1>3, <1>4, <1>5, <1>6, <1>7, <1>8, ActorFacts DEF Next, Halted, CollectStep


\* What is waiting for the collector, or being swept, has been created: the
\* collector, which joins the creation while it keeps m_childrenLock, never
\* waits for a task that needs that lock.
THEOREM CollectorNeverWaits == Spec => []NeverCollectUnfinished
<1>1. Init => FinishedInv /\ DoomedInv
  BY DEF Init, FinishedInv, DoomedInv
<1>2. FinishedInv /\ DoomedInv => NeverCollectUnfinished
  BY DEF FinishedInv, DoomedInv, NeverCollectUnfinished
<1> QED
  BY <1>1, <1>2, FinishedInvStep, DoomedInvStep, RefInvAlways, ShareInvAlways, PTL DEF Spec

=============================================================================
