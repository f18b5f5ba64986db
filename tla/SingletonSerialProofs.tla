------------------------- MODULE SingletonSerialProofs -------------------------
(***************************************************************************)
(* Theorems about SingletonStorage when one thread calls it, the use its   *)
(* tests make of it: no memory is used after it was freed, the assertions  *)
(* of the collector hold, and the storage implements SingletonRegistry.    *)
(* The creations which that thread starts still run beside it, nested to   *)
(* any depth.                                                              *)
(***************************************************************************)
EXTENDS SingletonStorageProofs

\* The hypothesis of the theorems: whoever gets, drops, collects and clears is
\* one and the same thread.  With two of them the conclusions are false.
OneThread == \A x, y \in Threads : x = y

-----------------------------------------------------------------------------
(* The inductive invariant. *)

\* An actor waits for a value that is being created.
Blocked(x) == pc[x] \in {"ref", "wait"} /\ value[ptr[x]] = "creating"

\* An actor that can act: a creation that runs, or the thread, even when it is
\* outside of the storage.
Moving(x) == ~Blocked(x) /\ (x \in Objs => pc[x] # "idle")

\* Calls nest: a creation runs while the actor that started it is blocked, and
\* its end sets exactly one actor in motion.
MoverInv ==
    \A x \in Actors : Moving(x) =>
        /\ \A y \in Actors : Moving(y) => y = x
        /\ \A y, z \in Actors : Blocked(y) /\ Blocked(z) /\ ptr[y] = ptr[z] => y = z

\* Nothing points to freed memory; who unrefs an object dropped its last Ref,
\* and deletes it only if the storage does not know it any more.
PointerInv ==
    /\ \A r \in Refs : ref[r] # None => ref[r] \in live
    /\ \A x \in Actors :
        /\ ptr[x] # None => ptr[x] \in live
        /\ pc[x] \in {"ref", "wait", "lock", "check", "unlock", "delete"} <=> ptr[x] # None
        /\ pc[x] \in {"lock", "check", "unlock", "delete"} => refCount[ptr[x]] = 0
        /\ pc[x] = "delete" => ptr[x] \notin attached

\* What waits in m_disposed is registered and unreferenced, and clear() has
\* emptied m_disposed before it detaches anything.
DisposedInv ==
    /\ \A o \in disposed :
        /\ o \in live \cap attached
        /\ refCount[o] = 0
        /\ \A x \in Actors : ptr[x] = o => pc[x] = "unlock"
    /\ \A x \in Actors : pc[x] = "detach" => disposed = {}

\* What is being swept is out of everybody's reach.
SweepInv ==
    \A k \in doomed :
        /\ refCount[children[k]] = 0
        /\ children[k] \notin disposed
        /\ \A x \in Actors : ptr[x] # children[k]

\* The table holds objects that exist, attached ones except while clear()
\* detaches them.
ChildInv ==
    \A k \in Keys : children[k] # None =>
        /\ children[k] \in live
        /\ keyOf[children[k]] = k
        /\ children[k] \in attached \/ \E x \in Actors : pc[x] = "detach"

\* The invariants that hold for any number of threads.
AnyThreads == RefInv /\ ShareInv /\ FinishedInv /\ DoomedInv /\ NothingStranded

SerialInv ==
    AnyThreads /\ MoverInv /\ PointerInv /\ DisposedInv /\ SweepInv /\ ChildInv /\ ~crashed

-----------------------------------------------------------------------------
(* Who moves. *)

\* Nobody but the actor that moves works on an object whose creation is over.
LEMMA MoverAlone ==
    ASSUME AnyThreads, MoverInv, PointerInv, NEW x \in Actors, Moving(x),
           NEW o \in Objs, value[o] # "creating"
    PROVE  \A y \in Actors \ {x} : ptr[y] # o
<1>1. SUFFICES ASSUME NEW y \in Actors \ {x}, ptr[y] = o PROVE FALSE
  OBVIOUS
<1>2. ~Moving(y)
  BY DEF MoverInv
<1>3. ~Blocked(y)
  BY <1>1 DEF Blocked
<1>4. pc[y] = "idle"
  BY <1>2, <1>3 DEF Moving
<1>5. ptr[y] = None
  BY <1>4 DEF PointerInv
<1> QED
  BY <1>1, <1>5, ActorFacts

\* An unreferenced object has no Ref.
LEMMA NoRefTo ==
    ASSUME RefInv, NEW o \in live, refCount[o] = 0
    PROVE  \A r \in Refs : ref[r] # o
BY DropPositive DEF RefInv

\* A step of the actor that moves, when it ends no creation.
LEMMA MoverGoesOn ==
    ASSUME RefInv, MoverInv, NEW x \in Actors, Moving(x),
           \A y \in Actors \ {x} : pc'[y] = pc[y] /\ ptr'[y] = ptr[y],
           \A o \in Objs : value'[o] = "creating" <=> value[o] = "creating"
    PROVE  MoverInv'
<1>1. ASSUME NEW y \in Actors \ {x}
      PROVE  ~Moving(y)' /\ (Blocked(y)' => Blocked(y))
  <2>1. ~Moving(y)
    BY DEF MoverInv
  <2>2. pc[y] \in {"ref", "wait"} => ptr[y] \in Objs
    BY DEF RefInv, SlotInv
  <2> QED
    BY <2>1, <2>2 DEF Moving, Blocked
<1>2. SUFFICES ASSUME Moving(x)'
      PROVE  \A y, z \in Actors : Blocked(y)' /\ Blocked(z)' /\ ptr'[y] = ptr'[z] => y = z
  BY <1>1 DEF MoverInv
<1>3. ~Blocked(x)'
  BY <1>2 DEF Moving
<1> QED
  BY <1>1, <1>3 DEF MoverInv

\* The end of a creation sets one actor in motion.
LEMMA MoverEnds ==
    ASSUME RefInv, MoverInv, NEW x \in Objs, Moving(x), pc'[x] = "idle",
           value[x] = "creating", value' = [value EXCEPT ![x] = value'[x]],
           value'[x] # "creating",
           \A y \in Actors \ {x} : pc'[y] = pc[y] /\ ptr'[y] = ptr[y]
    PROVE  MoverInv'
<1>0. x \in Actors /\ \A o \in Objs \ {x} : value'[o] = value[o]
  BY ActorFacts DEF RefInv, TypeOK
<1>1. ~Moving(x)' /\ ~Blocked(x)'
  BY DEF Moving, Blocked
<1>2. ASSUME NEW y \in Actors \ {x}
      PROVE  /\ Blocked(y)' => Blocked(y)
             /\ Moving(y)' => Blocked(y) /\ ptr[y] = x
  <2>1. ~Moving(y)
    BY <1>0 DEF MoverInv
  <2>2. pc[y] \in {"ref", "wait"} => ptr[y] \in Objs
    BY DEF RefInv, SlotInv
  <2> QED
    BY <1>0, <2>1, <2>2 DEF Moving, Blocked
<1> QED
  BY <1>0, <1>1, <1>2 DEF MoverInv

\* The start of a creation blocks the actor that asked for it.
LEMMA MoverStarts ==
    ASSUME RefInv, MoverInv, NEW x \in Actors, Moving(x), NEW n \in Objs,
           Fresh(n), pc[n] = "idle", x # n,
           value' = [value EXCEPT ![n] = "creating"],
           ptr' = [ptr EXCEPT ![x] = n],
           pc' = [pc EXCEPT ![x] = "ref", ![n] = "create"]
    PROVE  MoverInv'
<1>0. n \in Actors /\ \A o \in Objs \ {n} : value'[o] = value[o]
  BY ActorFacts DEF RefInv, TypeOK
<1>1. Blocked(x)' /\ ~Moving(x)' /\ ~Blocked(n)' /\ ptr'[x] = n
  BY <1>0 DEF Moving, Blocked, RefInv, TypeOK
<1>2. ASSUME NEW y \in Actors, y # x, y # n
      PROVE  ~Moving(y)' /\ (Blocked(y)' => Blocked(y)) /\ ptr'[y] = ptr[y] /\ ptr[y] # n
  <2>1. ~Moving(y)
    BY <1>2 DEF MoverInv
  <2>2. pc[y] \in {"ref", "wait"} => ptr[y] \in Objs
    BY DEF RefInv, SlotInv
  <2>3. pc'[y] = pc[y] /\ ptr'[y] = ptr[y] /\ ptr[y] # n
    BY <1>2 DEF RefInv, TypeOK, Fresh
  <2> QED
    BY <1>0, <2>1, <2>2, <2>3 DEF Moving, Blocked
<1> QED
  BY <1>0, <1>1, <1>2 DEF MoverInv

-----------------------------------------------------------------------------
(* Nothing points to freed memory: one lemma per kind of step. *)

\* Looking a key up hands out a registered object, which exists, or a new one.
LEMMA LookupPointerInv ==
    ASSUME RefInv, PointerInv, ChildInv, NEW x \in Actors, NEW k \in Keys, NEW r \in Refs,
           Lookup(x, k, r), pc[x] \in {"idle", "create"}, x \in Objs => pc[x] = "create"
    PROVE  PointerInv'
<1> USE ActorFacts DEF RefInv, TypeOK
<1>1. CASE children[k] # None
  <2>1. /\ ptr' = [ptr EXCEPT ![x] = children[k]] /\ pc' = [pc EXCEPT ![x] = "ref"]
        /\ UNCHANGED <<ref, live, refCount, attached>> /\ children[k] \in live
    BY <1>1 DEF Lookup, Recycle, GoTo, objectVars, ChildInv
  <2> QED
    BY <2>1 DEF PointerInv
<1>2. CASE children[k] = None
  <2>1. PICK n \in Objs :
          /\ Fresh(n) /\ pc[n] = "idle"
          /\ live' = live \cup {n} /\ attached' = attached \cup {n}
          /\ refCount' = [refCount EXCEPT ![n] = 0]
          /\ ptr' = [ptr EXCEPT ![x] = n]
          /\ pc' = [pc EXCEPT ![x] = "ref", ![n] = "create"]
    BY <1>2 DEF Lookup, Recycle
  <2>2. ref' = ref /\ x # n /\ n \in Actors
    BY <2>1 DEF Lookup, Recycle
  <2>3. ASSUME NEW y \in Actors, y # x, y # n
        PROVE  pc'[y] = pc[y] /\ ptr'[y] = ptr[y] /\ ptr[y] # n
    BY <2>1, <2>3 DEF Fresh
  <2>4. /\ pc'[x] = "ref" /\ ptr'[x] = n /\ n # None
        /\ pc'[n] = "create" /\ ptr'[n] = ptr[n] /\ ptr[n] = None
    BY <2>1, <2>2 DEF PointerInv
  <2> QED
    BY <2>1, <2>2, <2>3, <2>4 DEF PointerInv
<1> QED
  BY <1>1, <1>2

\* A Ref is taken to an object that nobody is about to give up.
LEMMA TakeRefPointerInv ==
    ASSUME AnyThreads, MoverInv, PointerInv, NEW x \in Actors, TakeRef(x)
    PROVE  PointerInv'
<1> USE ActorFacts DEF AnyThreads, RefInv, TypeOK, registryVars, objectVars, GoTo
<1>1. /\ slot[x] \in Refs /\ ptr[x] \in Objs /\ ptr[x] \in live
      /\ ref' = [ref EXCEPT ![slot[x]] = ptr[x]]
      /\ refCount' = [refCount EXCEPT ![ptr[x]] = @ + 1]
      /\ pc' = [pc EXCEPT ![x] = "wait"] /\ ptr' = ptr /\ live' = live /\ attached' = attached
  BY DEF TakeRef, SlotInv
<1>2. ASSUME NEW y \in Actors, ptr[y] = ptr[x]
      PROVE  pc[y] \notin {"lock", "check", "unlock", "delete"}
  <2>1. CASE value[ptr[x]] = "creating"
    BY <1>1, <1>2, <2>1 DEF FinishedInv
  <2>2. CASE value[ptr[x]] # "creating"
    <3>1. pc[x] = "ref" /\ Moving(x)
      BY <2>2 DEF TakeRef, Moving, Blocked
    <3> QED
      BY <1>1, <1>2, <2>2, <3>1, MoverAlone
  <2> QED
    BY <2>1, <2>2
<1>3. \A r \in Refs : ref'[r] # None => ref'[r] \in live'
  BY <1>1 DEF PointerInv
<1>4. ASSUME NEW y \in Actors
      PROVE  /\ ptr'[y] # None => ptr'[y] \in live'
             /\ pc'[y] \in {"ref", "wait", "lock", "check", "unlock", "delete"} <=> ptr'[y] # None
             /\ pc'[y] \in {"lock", "check", "unlock", "delete"} => refCount'[ptr'[y]] = 0
             /\ pc'[y] = "delete" => ptr'[y] \notin attached'
  BY <1>1, <1>2 DEF PointerInv, TakeRef
<1> QED
  BY <1>3, <1>4 DEF PointerInv

\* A Ref is copied from one that keeps its object away from unref().
LEMMA CopyRefPointerInv ==
    ASSUME RefInv, PointerInv, NEW x \in Actors, NEW r \in Refs, NEW s \in Refs,
           CopyRef(x, r, s)
    PROVE  PointerInv'
<1> USE ActorFacts DEF RefInv, TypeOK, registryVars, objectVars, GoTo
<1>1. /\ ref[r] \in live /\ ref[r] \in Objs
      /\ ref' = [ref EXCEPT ![s] = ref[r]]
      /\ refCount' = [refCount EXCEPT ![ref[r]] = @ + 1]
      /\ pc' = [pc EXCEPT ![x] = "wait"] /\ ptr' = [ptr EXCEPT ![x] = ref[r]]
      /\ live' = live /\ attached' = attached
  BY DEF CopyRef
<1>2. refCount[ref[r]] > 0
  BY <1>1, DropPositive
<1> QED
  BY <1>1, <1>2 DEF PointerInv

\* Steps that drop no Ref: the actor goes on with its object, or leaves it.
LEMMA QuietPointerInv ==
    ASSUME RefInv, PointerInv, NEW x \in Actors,
           \/ Value(x) \/ AcquireSpinlock(x) \/ Dispose(x) \/ ReleaseSpinlock(x)
           \/ Orphaned(x)
    PROVE  PointerInv'
<1> USE ActorFacts DEF RefInv, TypeOK, registryVars, objectVars, GoTo
<1>1. CASE Value(x)
  BY <1>1 DEF Value, PointerInv
<1>2. CASE AcquireSpinlock(x)
  BY <1>2 DEF AcquireSpinlock, PointerInv
<1>3. CASE Dispose(x)
  BY <1>3 DEF Dispose, PointerInv
<1>4. CASE ReleaseSpinlock(x)
  BY <1>4 DEF ReleaseSpinlock, Return, AfterUnref, PointerInv
<1>5. CASE Orphaned(x)
  BY <1>5 DEF Orphaned, PointerInv
<1> QED
  BY <1>1, <1>2, <1>3, <1>4, <1>5

\* A creation that ends or fails leaves its dependency.
LEMMA CreatorPointerInv ==
    ASSUME RefInv, PointerInv, NEW o \in Objs,
           CreateDone(o) \/ CreateFail(o) \/ StoreException(o)
    PROVE  PointerInv'
<1> USE ActorFacts DEF RefInv, TypeOK, registryVars, objectVars, GoTo
<1>1. CASE CreateDone(o)
  BY <1>1 DEF CreateDone, PointerInv
<1>2. CASE CreateFail(o)
  BY <1>2 DEF CreateFail, PointerInv
<1>3. CASE StoreException(o)
  BY <1>3 DEF StoreException, PointerInv
<1> QED
  BY <1>1, <1>2, <1>3

\* unref() keeps the object it dropped the last Ref of, or nothing.
LEMMA DecrementPointer ==
    ASSUME RefInv, NEW x \in Actors, NEW d \in live, Decrement(x, d), refCount[d] > 0
    PROVE  /\ pc'[x] \in {"lock", "throw", "sweep", "idle"}
           /\ IF pc'[x] = "lock" THEN ptr'[x] = d /\ refCount'[d] = 0 ELSE ptr'[x] = None
           /\ refCount' = [refCount EXCEPT ![d] = refCount[d] - 1]
           /\ \A y \in Actors \ {x} : pc'[y] = pc[y] /\ ptr'[y] = ptr[y]
           /\ x \in Objs => pc'[x] # "idle"
<1>1. d \in Objs
  BY DEF RefInv, TypeOK
<1> QED
  BY <1>1 DEF Decrement, Return, AfterUnref, GoTo, RefInv, TypeOK

\* Whoever drops the last Ref keeps the object until it is disposed of.
LEMMA DropPointerInv ==
    ASSUME RefInv, PointerInv, NEW x \in Actors, NEW r \in Refs, NEW d \in live,
           ref[r] = d, ref' = [ref EXCEPT ![r] = None], Decrement(x, d),
           UNCHANGED <<live, attached>>
    PROVE  PointerInv'
<1> USE ActorFacts DEF RefInv, TypeOK
<1>1. refCount[d] > 0 /\ d \in Objs
  BY DropPositive
<1>2. /\ pc'[x] \in {"lock", "throw", "sweep", "idle"}
      /\ IF pc'[x] = "lock" THEN ptr'[x] = d /\ refCount'[d] = 0 ELSE ptr'[x] = None
      /\ refCount' = [refCount EXCEPT ![d] = refCount[d] - 1]
      /\ \A y \in Actors \ {x} : pc'[y] = pc[y] /\ ptr'[y] = ptr[y]
  BY <1>1, DecrementPointer
<1> QED
  BY <1>1, <1>2 DEF PointerInv

\* A destructor may run on an object that only its actor points to.
LEMMA DestroyPointerInv ==
    ASSUME AnyThreads, MoverInv, PointerInv, NEW x \in Actors, NEW c \in live,
           Destroy(x, c), Moving(x), refCount[c] = 0
    PROVE  PointerInv'
<1> USE ActorFacts DEF AnyThreads, RefInv, TypeOK
<1>0. c \in Objs /\ c \in Refs /\ value[c] # "creating" /\ ref' = [ref EXCEPT ![c] = None]
      /\ live' = live \ {c} /\ attached' = attached \ {c}
  BY DEF Refs, Destroy
<1>1. \A r \in Refs : ref[r] # c
  BY NoRefTo
<1>2. \A y \in Actors \ {x} : ptr[y] # c
  BY <1>0, MoverAlone
<1>3. CASE ref[c] = None
  <2>1. /\ pc'[x] \in {"throw", "sweep", "idle"} /\ ptr'[x] = None /\ refCount' = refCount
        /\ \A y \in Actors \ {x} : pc'[y] = pc[y] /\ ptr'[y] = ptr[y]
    BY <1>3 DEF Destroy, Return, AfterUnref, GoTo
  <2> QED
    BY <1>0, <1>1, <1>2, <2>1 DEF PointerInv
<1>4. CASE ref[c] # None
  <2>1. PICK d \in live : ref[c] = d
    BY <1>4 DEF Destroy
  <2>2. d \in Objs /\ d # c /\ Decrement(x, d) /\ refCount[d] > 0
    BY <1>0, <1>1, <1>4, <2>1, DropPositive DEF Destroy
  <2>3. /\ pc'[x] \in {"lock", "throw", "sweep", "idle"}
        /\ IF pc'[x] = "lock" THEN ptr'[x] = d /\ refCount'[d] = 0 ELSE ptr'[x] = None
        /\ refCount' = [refCount EXCEPT ![d] = refCount[d] - 1]
        /\ \A y \in Actors \ {x} : pc'[y] = pc[y] /\ ptr'[y] = ptr[y]
    BY <2>2, DecrementPointer
  <2> QED
    BY <1>0, <1>1, <1>2, <2>2, <2>3 DEF PointerInv
<1> QED
  BY <1>3, <1>4

\* The rest of a collection moves nobody's pointers.
LEMMA CollectPointerInv ==
    ASSUME RefInv, PointerInv, NEW x \in Threads,
           \/ StartCollect(x, FALSE) \/ StartCollect(x, TRUE) \/ MoveDisposed(x)
           \/ EndCollect(x) \/ (\E k \in Keys : Detach(x, k)) \/ EndClear(x)
    PROVE  PointerInv'
<1> USE ActorFacts DEF RefInv, TypeOK
<1>1. /\ UNCHANGED <<ref, live, refCount, ptr>> /\ attached' \subseteq attached
      /\ \A y \in Actors \ {x} : pc'[y] = pc[y]
      /\ pc[x] \in {"idle", "sweep", "detach"} /\ pc'[x] \in {"idle", "sweep", "detach"}
  BY DEF StartCollect, MoveDisposed, EndCollect, Detach, EndClear, GoTo, objectVars
<1> QED
  BY <1>1 DEF PointerInv

-----------------------------------------------------------------------------
(* What waits for the collector, or is swept, is out of reach. *)

\* A lookup takes what it finds back from m_disposed.
LEMMA LookupDisposedInv ==
    ASSUME RefInv, PointerInv, DisposedInv, NEW x \in Actors, NEW k \in Keys, NEW r \in Refs,
           Lookup(x, k, r)
    PROVE  DisposedInv'
<1> USE ActorFacts DEF RefInv, TypeOK
<1>1. CASE children[k] # None
  BY <1>1 DEF Lookup, Recycle, GoTo, objectVars, DisposedInv
<1>2. CASE children[k] = None
  <2>1. PICK n \in Objs :
          /\ Fresh(n) /\ pc[n] = "idle"
          /\ live' = live \cup {n} /\ attached' = attached \cup {n}
          /\ refCount' = [refCount EXCEPT ![n] = 0]
          /\ ptr' = [ptr EXCEPT ![x] = n]
          /\ pc' = [pc EXCEPT ![x] = "ref", ![n] = "create"]
          /\ disposed' = disposed
    BY <1>2 DEF Lookup, Recycle
  <2>2. ptr[n] = None
    BY <2>1 DEF PointerInv
  <2>3. \A o \in disposed : o # n /\ o # None
    BY <2>1 DEF Fresh
  <2>4. \A y \in Actors : pc'[y] = "detach" => pc[y] = "detach"
    BY <2>1
  <2> QED
    BY <2>1, <2>2, <2>3, <2>4 DEF DisposedInv
<1> QED
  BY <1>1, <1>2

\* Taking or copying a Ref leaves the disposed objects without one.
LEMMA TakeDisposedInv ==
    ASSUME RefInv, DisposedInv, NEW x \in Actors,
           \/ TakeRef(x)
           \/ \E r \in Refs, s \in Refs : CopyRef(x, r, s)
    PROVE  DisposedInv'
<1> USE ActorFacts DEF RefInv, TypeOK, registryVars, objectVars, GoTo
<1>1. CASE TakeRef(x)
  <2>1. ptr[x] \in Objs /\ ptr[x] \notin disposed
    BY <1>1 DEF TakeRef, SlotInv, DisposedInv
  <2> QED
    BY <1>1, <2>1 DEF TakeRef, DisposedInv
<1>2. ASSUME NEW r \in Refs, NEW s \in Refs, CopyRef(x, r, s) PROVE DisposedInv'
  <2>1. ref[r] \in live /\ ref[r] \notin disposed
    BY <1>2, DropPositive DEF CopyRef, DisposedInv
  <2> QED
    BY <1>2, <2>1 DEF CopyRef, DisposedInv
<1> QED
  BY <1>1, <1>2

\* An object is disposed of when nobody else works on it.
LEMMA QuietDisposedInv ==
    ASSUME AnyThreads, MoverInv, PointerInv, DisposedInv, NEW x \in Actors, Moving(x),
           \/ Value(x) \/ AcquireSpinlock(x) \/ Dispose(x) \/ ReleaseSpinlock(x)
           \/ Orphaned(x)
    PROVE  DisposedInv'
<1> USE ActorFacts DEF AnyThreads, RefInv, TypeOK, registryVars, objectVars, GoTo
<1>1. CASE Value(x)
  BY <1>1 DEF Value, DisposedInv
<1>2. CASE AcquireSpinlock(x)
  BY <1>2 DEF AcquireSpinlock, DisposedInv
<1>3. CASE Dispose(x)
  <2>1. ptr[x] \in live /\ pc[x] = "check" /\ refCount[ptr[x]] = 0 /\ ptr[x] \in attached
    BY <1>3 DEF Dispose, PointerInv
  <2>2. value[ptr[x]] # "creating"
    BY <2>1 DEF FinishedInv
  <2>3. \A y \in Actors \ {x} : ptr[y] # ptr[x]
    BY <2>1, <2>2, MoverAlone
  <2>4. \A y \in Actors : pc[y] # "detach"
    <3>1. SUFFICES ASSUME NEW y \in Actors, pc[y] = "detach" PROVE FALSE
      OBVIOUS
    <3>2. Moving(y)
      BY <3>1 DEF Moving, Blocked
    <3> QED
      BY <2>1, <3>1, <3>2 DEF MoverInv
  <2>5. pc' = [pc EXCEPT ![x] = "unlock"] /\ disposed' = disposed \cup {ptr[x]}
        /\ UNCHANGED <<ptr, refCount, live, attached>>
    BY <1>3 DEF Dispose
  <2> QED
    BY <2>1, <2>3, <2>4, <2>5 DEF DisposedInv
<1>4. CASE ReleaseSpinlock(x)
  BY <1>4 DEF ReleaseSpinlock, Return, AfterUnref, DisposedInv
<1>5. CASE Orphaned(x)
  BY <1>5 DEF Orphaned, DisposedInv
<1> QED
  BY <1>1, <1>2, <1>3, <1>4, <1>5

\* Creations work on objects that are not disposed of.
LEMMA CreatorDisposedInv ==
    ASSUME RefInv, DisposedInv, NEW o \in Objs,
           CreateDone(o) \/ CreateFail(o) \/ StoreException(o)
    PROVE  DisposedInv'
<1> USE ActorFacts DEF RefInv, TypeOK, registryVars, objectVars, GoTo
<1>1. CASE CreateDone(o)
  BY <1>1 DEF CreateDone, DisposedInv
<1>2. CASE CreateFail(o)
  <2>1. \A p \in disposed : ptr[o] # p
    BY <1>2 DEF CreateFail, DisposedInv
  <2> QED
    BY <1>2, <2>1 DEF CreateFail, DisposedInv
<1>3. CASE StoreException(o)
  <2>1. \A p \in disposed : ptr[o] # p
    BY <1>3 DEF StoreException, DisposedInv
  <2> QED
    BY <1>3, <2>1 DEF StoreException, DisposedInv
<1> QED
  BY <1>1, <1>2, <1>3

\* The dropper of a Ref takes up an object that had one.
LEMMA DropDisposedInv ==
    ASSUME RefInv, DisposedInv, NEW x \in Actors, NEW d \in live, refCount[d] > 0,
           Decrement(x, d), UNCHANGED <<disposed, live, attached>>
    PROVE  DisposedInv'
<1> USE ActorFacts DEF RefInv, TypeOK
<1>1. /\ pc'[x] \in {"lock", "throw", "sweep", "idle"}
      /\ IF pc'[x] = "lock" THEN ptr'[x] = d /\ refCount'[d] = 0 ELSE ptr'[x] = None
      /\ refCount' = [refCount EXCEPT ![d] = refCount[d] - 1]
      /\ \A y \in Actors \ {x} : pc'[y] = pc[y] /\ ptr'[y] = ptr[y]
  BY DecrementPointer
<1>2. d \in Objs /\ d \notin disposed
  BY DEF DisposedInv
<1> QED
  BY <1>1, <1>2 DEF DisposedInv

\* A destructor of an object outside of m_disposed changes nothing in it.
LEMMA DestroyDisposedInv ==
    ASSUME RefInv, DisposedInv, NEW x \in Actors, NEW c \in live, Destroy(x, c),
           c \notin disposed, disposed' = disposed
    PROVE  DisposedInv'
<1> USE ActorFacts DEF RefInv, TypeOK
<1>0. c \in Objs /\ c \in Refs /\ live' = live \ {c} /\ attached' = attached \ {c}
  BY DEF Refs, Destroy
<1>1. CASE ref[c] = None
  <2>1. /\ pc'[x] \in {"throw", "sweep", "idle"} /\ ptr'[x] = None /\ refCount' = refCount
        /\ \A y \in Actors \ {x} : pc'[y] = pc[y] /\ ptr'[y] = ptr[y]
    BY <1>1 DEF Destroy, Return, AfterUnref, GoTo
  <2> QED
    BY <1>0, <2>1 DEF DisposedInv
<1>2. CASE ref[c] # None
  <2>1. PICK d \in live : ref[c] = d
    BY <1>2 DEF Destroy
  <2>2. d \in Objs /\ Decrement(x, d) /\ refCount[d] > 0 /\ d \notin disposed
    BY <1>0, <1>2, <2>1, DropPositive DEF Destroy, DisposedInv
  <2>3. /\ pc'[x] \in {"lock", "throw", "sweep", "idle"}
        /\ IF pc'[x] = "lock" THEN ptr'[x] = d /\ refCount'[d] = 0 ELSE ptr'[x] = None
        /\ refCount' = [refCount EXCEPT ![d] = refCount[d] - 1]
        /\ \A y \in Actors \ {x} : pc'[y] = pc[y] /\ ptr'[y] = ptr[y]
    BY <2>2, DecrementPointer
  <2> QED
    BY <1>0, <2>2, <2>3 DEF DisposedInv
<1> QED
  BY <1>1, <1>2

\* A collection empties m_disposed: what it does not sweep it forgets only
\* when nothing is there.
LEMMA CollectDisposedInv ==
    ASSUME RefInv, DisposedInv, NEW x \in Threads,
           \/ StartCollect(x, FALSE) \/ StartCollect(x, TRUE) \/ MoveDisposed(x)
           \/ EndCollect(x) \/ (\E k \in Keys : Detach(x, k)) \/ EndClear(x)
    PROVE  DisposedInv'
<1> USE ActorFacts DEF RefInv, TypeOK, objectVars, GoTo
<1>1. CASE StartCollect(x, FALSE) \/ StartCollect(x, TRUE)
  BY <1>1 DEF StartCollect, DisposedInv
<1>2. CASE MoveDisposed(x) \/ EndCollect(x)
  BY <1>2 DEF MoveDisposed, EndCollect, DisposedInv
<1>3. CASE (\E k \in Keys : Detach(x, k)) \/ EndClear(x)
  BY <1>3 DEF Detach, EndClear, DisposedInv
<1> QED
  BY <1>1, <1>2, <1>3

\* What is being swept stays unreferenced: no lookup runs beside a sweep.
LEMMA UserSweepInv ==
    ASSUME RefInv, DoomedInv, SweepInv, NEW x \in Actors,
           \/ \E k \in Keys, r \in Refs : Lookup(x, k, r)
           \/ TakeRef(x)
           \/ \E r \in Refs, s \in Refs : CopyRef(x, r, s)
    PROVE  SweepInv'
<1> USE ActorFacts DEF RefInv, TypeOK, registryVars, objectVars, GoTo
<1>1. ASSUME NEW k \in Keys, NEW r \in Refs, Lookup(x, k, r) PROVE SweepInv'
  <2>1. doomed' = {}
    BY <1>1 DEF Lookup, Recycle, DoomedInv
  <2> QED
    BY <2>1 DEF SweepInv
<1>2. CASE TakeRef(x)
  <2>1. ptr[x] \in Objs /\ \A k \in doomed : children[k] \in Objs /\ children[k] # ptr[x]
    BY <1>2 DEF TakeRef, SlotInv, SweepInv, DoomedInv
  <2> QED
    BY <1>2, <2>1 DEF TakeRef, SweepInv
<1>3. ASSUME NEW r \in Refs, NEW s \in Refs, CopyRef(x, r, s) PROVE SweepInv'
  <2>1. ref[r] \in live /\ refCount[ref[r]] > 0
    BY <1>3, DropPositive DEF CopyRef
  <2>2. \A k \in doomed : children[k] # ref[r]
    BY <2>1 DEF SweepInv
  <2> QED
    BY <1>3, <2>1, <2>2 DEF CopyRef, SweepInv
<1> QED
  BY <1>1, <1>2, <1>3

\* Steps after which an actor is where it was, or with no object.
LEMMA QuietSweepInv ==
    ASSUME RefInv, SweepInv, NEW x \in Actors,
           ptr'[x] \in {ptr[x], None}, \A y \in Actors \ {x} : ptr'[y] = ptr[y],
           UNCHANGED <<children, doomed, refCount>>,
           disposed' \subseteq disposed \cup {ptr[x]}, DoomedInv
    PROVE  SweepInv'
BY ActorFacts DEF RefInv, TypeOK, SweepInv, DoomedInv

\* The object of a dropped Ref was not being swept.
LEMMA DropSweepInv ==
    ASSUME RefInv, DoomedInv, SweepInv, NEW x \in Actors, NEW d \in live, refCount[d] > 0,
           Decrement(x, d), UNCHANGED <<children, doomed, disposed>>
    PROVE  SweepInv'
<1> USE ActorFacts DEF RefInv, TypeOK
<1>1. /\ ptr'[x] \in {d, None}
      /\ refCount' = [refCount EXCEPT ![d] = refCount[d] - 1]
      /\ \A y \in Actors \ {x} : pc'[y] = pc[y] /\ ptr'[y] = ptr[y]
  BY DecrementPointer
<1>2. \A k \in doomed : children[k] # d /\ children[k] \in Objs
  BY DEF SweepInv, DoomedInv
<1> QED
  BY <1>1, <1>2 DEF SweepInv

\* A destructor leaves the other objects of the sweep alone.
LEMMA DestroySweepInv ==
    ASSUME RefInv, DoomedInv, SweepInv, NEW x \in Actors, NEW c \in live, Destroy(x, c),
           doomed' \subseteq doomed, disposed' = disposed,
           \A k \in doomed' : children'[k] = children[k]
    PROVE  SweepInv'
<1> USE ActorFacts DEF RefInv, TypeOK
<1>0. c \in Objs /\ c \in Refs /\ \A k \in doomed : children[k] \in Objs
  BY DEF Refs, DoomedInv
<1>1. CASE ref[c] = None
  <2>1. /\ ptr'[x] = None /\ refCount' = refCount
        /\ \A y \in Actors \ {x} : ptr'[y] = ptr[y]
    BY <1>1 DEF Destroy, Return, AfterUnref, GoTo
  <2> QED
    BY <1>0, <2>1 DEF SweepInv
<1>2. CASE ref[c] # None
  <2>1. PICK d \in live : ref[c] = d
    BY <1>2 DEF Destroy
  <2>2. d \in Objs /\ Decrement(x, d) /\ refCount[d] > 0
    BY <1>0, <1>2, <2>1, DropPositive DEF Destroy
  <2>3. /\ ptr'[x] \in {d, None}
        /\ refCount' = [refCount EXCEPT ![d] = refCount[d] - 1]
        /\ \A y \in Actors \ {x} : ptr'[y] = ptr[y]
    BY <2>2, DecrementPointer
  <2>4. \A k \in doomed : children[k] # d
    BY <2>2 DEF SweepInv
  <2> QED
    BY <1>0, <2>2, <2>3, <2>4 DEF SweepInv
<1> QED
  BY <1>1, <1>2

\* A sweep begins with what m_disposed holds, which nobody works on.
LEMMA MoveSweepInv ==
    ASSUME AnyThreads, MoverInv, PointerInv, DisposedInv, NEW x \in Threads, MoveDisposed(x)
    PROVE  SweepInv'
<1> USE ActorFacts DEF AnyThreads, RefInv, TypeOK, objectVars
<1>1. x \in Actors /\ pc[x] = "sweep" /\ Moving(x)
  BY DEF MoveDisposed, Moving, Blocked
<1>2. ASSUME NEW o \in disposed, NEW y \in Actors PROVE ptr[y] # o
  <2>1. SUFFICES ASSUME ptr[y] = o PROVE FALSE
    OBVIOUS
  <2>2. pc[y] = "unlock"
    BY <2>1 DEF DisposedInv
  <2>3. Moving(y)
    BY <2>2 DEF Moving, Blocked
  <2> QED
    BY <1>1, <2>2, <2>3 DEF MoverInv
<1>3. \A k \in doomed' : children[k] \in disposed /\ children' = children /\ disposed' = {}
  BY DEF MoveDisposed, Garbage
<1>4. ptr' = ptr /\ refCount' = refCount
  BY DEF MoveDisposed
<1> QED
  BY <1>2, <1>3, <1>4 DEF SweepInv, DisposedInv

\* The other steps of a collection sweep nothing.
LEMMA CollectSweepInv ==
    ASSUME RefInv, DoomedInv, SweepInv, NEW x \in Threads,
           \/ StartCollect(x, FALSE) \/ StartCollect(x, TRUE)
           \/ EndCollect(x) \/ (\E k \in Keys : Detach(x, k)) \/ EndClear(x)
    PROVE  SweepInv'
<1> USE ActorFacts DEF objectVars
<1>1. CASE StartCollect(x, FALSE) \/ StartCollect(x, TRUE)
  BY <1>1 DEF StartCollect, SweepInv
<1>2. CASE ~(StartCollect(x, FALSE) \/ StartCollect(x, TRUE))
  <2>1. doomed' = {}
    BY <1>2 DEF EndCollect, Detach, EndClear, DoomedInv
  <2> QED
    BY <2>1 DEF SweepInv
<1> QED
  BY <1>1, <1>2

-----------------------------------------------------------------------------
(* The table of children. *)

\* A lookup registers a new object under the key that was free.
LEMMA LookupChildInv ==
    ASSUME RefInv, ShareInv, ChildInv, NEW x \in Actors, NEW k \in Keys, NEW r \in Refs,
           Lookup(x, k, r), pc[x] \in {"idle", "create"}
    PROVE  ChildInv'
<1> USE ActorFacts DEF RefInv, TypeOK
<1>1. \A y \in Actors : pc[y] # "detach"
  BY ConstantsAssumption DEF Lookup, ShareInv, LockInv
<1>2. CASE children[k] # None
  BY <1>1, <1>2 DEF Lookup, Recycle, GoTo, objectVars, ChildInv
<1>3. CASE children[k] = None
  <2>1. PICK n \in Objs :
          /\ Fresh(n)
          /\ children' = [children EXCEPT ![k] = n]
          /\ live' = live \cup {n} /\ attached' = attached \cup {n}
          /\ keyOf' = [keyOf EXCEPT ![n] = k]
    BY <1>3 DEF Lookup, Recycle
  <2>2. \A j \in Keys : children[j] # n
    BY <2>1 DEF Fresh
  <2> QED
    BY <1>1, <2>1, <2>2 DEF ChildInv
<1> QED
  BY <1>2, <1>3

\* Steps that leave the table and the life of objects alone.
LEMMA QuietChildInv ==
    ASSUME ChildInv, NEW x \in Actors, UNCHANGED <<children, live, keyOf, attached>>,
           \A y \in Actors \ {x} : pc'[y] = pc[y], pc[x] # "detach"
    PROVE  ChildInv'
BY DEF ChildInv

\* What unref() deletes is not in the table any more.
LEMMA DeleteThisChildInv ==
    ASSUME AnyThreads, MoverInv, PointerInv, ChildInv, NEW x \in Actors, DeleteThis(x)
    PROVE  ChildInv'
<1> USE ActorFacts DEF AnyThreads, RefInv, TypeOK
<1>1. PICK c \in live : c = ptr[x] /\ Destroy(x, c)
  BY DEF DeleteThis
<1>2. pc[x] = "delete" /\ Moving(x) /\ c \notin attached /\ children' = children
  BY <1>1 DEF DeleteThis, Moving, Blocked, PointerInv, registryVars
<1>3. ASSUME NEW y \in Actors PROVE pc[y] # "detach"
  <2>1. SUFFICES ASSUME pc[y] = "detach" PROVE FALSE
    OBVIOUS
  <2>2. Moving(y)
    BY <2>1 DEF Moving, Blocked
  <2> QED
    BY <1>2, <2>1, <2>2 DEF MoverInv
<1>4. \A k \in Keys : children[k] # c
  BY <1>2, <1>3 DEF ChildInv
<1>5. /\ live' = live \ {c} /\ attached' = attached \ {c}
      /\ keyOf' = [keyOf EXCEPT ![c] = None]
  BY <1>1 DEF Destroy
<1> QED
  BY <1>2, <1>3, <1>4, <1>5 DEF ChildInv

\* What the collector destroys leaves the table.
LEMMA SweepChildInv ==
    ASSUME AnyThreads, ChildInv, NEW x \in Threads, NEW k \in Keys, Sweep(x, k)
    PROVE  ChildInv'
<1> USE ActorFacts DEF AnyThreads, RefInv, TypeOK
<1>1. PICK c \in live : c = children[k] /\ Destroy(x, c)
  BY DEF Sweep
<1>2. /\ live' = live \ {c} /\ attached' = attached \ {c}
      /\ keyOf' = [keyOf EXCEPT ![c] = None]
      /\ children' = [children EXCEPT ![k] = None]
  BY <1>1 DEF Destroy, Sweep
<1>3. \A y \in Actors : pc[y] # "detach"
  BY ActorFacts DEF Sweep, ShareInv, LockInv
<1>4. ASSUME NEW j \in Keys, j # k PROVE children[j] # c
  BY <1>1, <1>4 DEF ChildInv
<1> QED
  BY <1>2, <1>3, <1>4 DEF ChildInv

\* clear() empties the table after it detached what is in it.
LEMMA CollectChildInv ==
    ASSUME RefInv, ChildInv, NEW x \in Threads,
           \/ StartCollect(x, FALSE) \/ StartCollect(x, TRUE) \/ MoveDisposed(x)
           \/ EndCollect(x) \/ (\E k \in Keys : Detach(x, k)) \/ EndClear(x)
    PROVE  ChildInv'
<1> USE ActorFacts DEF RefInv, TypeOK, objectVars, GoTo
<1>1. CASE StartCollect(x, FALSE) \/ StartCollect(x, TRUE) \/ MoveDisposed(x) \/ EndCollect(x)
  BY <1>1 DEF StartCollect, MoveDisposed, EndCollect, ChildInv
<1>2. CASE EndClear(x)
  BY <1>2 DEF EndClear, ChildInv
<1>3. ASSUME NEW k \in Keys, Detach(x, k) PROVE ChildInv'
  BY <1>3 DEF Detach, ChildInv
<1> QED
  BY <1>1, <1>2, <1>3

-----------------------------------------------------------------------------
(* The inductive invariant holds. *)

\* The storage is empty at first, and there is no second thread to move.
LEMMA SerialInvInit == OneThread /\ Init => SerialInv
<1> SUFFICES ASSUME OneThread, Init PROVE SerialInv
  OBVIOUS
<1>1. AnyThreads
  BY RefInvInit, ShareInvInit
     DEF Init, AnyThreads, FinishedInv, DoomedInv, NothingStranded
<1>2. MoverInv
  <2>1. \A x \in Actors : ~Blocked(x) /\ (Moving(x) => x \in Threads)
    BY ActorFacts DEF Init, Blocked, Moving, Actors
  <2> QED
    BY <2>1 DEF MoverInv, OneThread
<1>3. PointerInv /\ DisposedInv /\ SweepInv /\ ChildInv /\ ~crashed
  BY DEF Init, PointerInv, DisposedInv, SweepInv, ChildInv
<1> QED
  BY <1>1, <1>2, <1>3 DEF SerialInv

\* The invariants that do not need the restriction to one thread are kept.
LEMMA AnyThreadsStep == AnyThreads /\ [Next]_vars => AnyThreads'
BY RefInvStep, ShareInvStep, FinishedInvStep, DoomedInvStep, NothingStrandedStep
   DEF AnyThreads

\* The conjuncts of SerialInv that a step of a kind keeps.
Kept == MoverInv' /\ PointerInv' /\ DisposedInv' /\ SweepInv' /\ ChildInv'

\* Looking a key up.
LEMMA LookupSerialInv ==
    ASSUME SerialInv, NEW x \in Actors, NEW k \in Keys, NEW r \in Refs, Lookup(x, k, r),
           pc[x] \in {"idle", "create"}, x \in Objs => pc[x] = "create"
    PROVE  Kept
<1> USE DEF SerialInv, AnyThreads
<1>1. Moving(x)
  BY DEF Moving, Blocked
<1>2. MoverInv'
  <2>1. CASE children[k] # None
    <3>1. /\ \A y \in Actors \ {x} : pc'[y] = pc[y] /\ ptr'[y] = ptr[y]
          /\ value' = value
      BY <2>1 DEF Lookup, Recycle, GoTo, objectVars, RefInv, TypeOK
    <3> QED
      BY <1>1, <3>1, MoverGoesOn
  <2>2. CASE children[k] = None
    <3>1. PICK n \in Objs :
            /\ Fresh(n) /\ pc[n] = "idle"
            /\ value' = [value EXCEPT ![n] = "creating"]
            /\ ptr' = [ptr EXCEPT ![x] = n]
            /\ pc' = [pc EXCEPT ![x] = "ref", ![n] = "create"]
      BY <2>2 DEF Lookup, Recycle
    <3>2. x # n
      BY <3>1
    <3> QED
      BY <1>1, <3>1, <3>2, MoverStarts
  <2> QED
    BY <2>1, <2>2
<1> QED
  BY <1>2, LookupPointerInv, LookupDisposedInv, UserSweepInv, LookupChildInv DEF Kept

\* Taking the Ref that get returns: who was blocked stays blocked.
LEMMA TakeRefSerialInv ==
    ASSUME SerialInv, NEW x \in Actors, TakeRef(x)
    PROVE  Kept
<1> USE DEF SerialInv, AnyThreads
<1>1. pc[x] = "ref" /\ pc' = [pc EXCEPT ![x] = "wait"]
      /\ UNCHANGED <<children, live, keyOf, attached, ptr, value>>
  BY DEF TakeRef, GoTo, registryVars, objectVars
<1>2. \A y \in Actors : (Moving(y)' <=> Moving(y)) /\ (Blocked(y)' <=> Blocked(y))
  BY <1>1 DEF Moving, Blocked, RefInv, TypeOK
<1>3. MoverInv'
  BY <1>1, <1>2 DEF MoverInv
<1>4. ChildInv'
  BY <1>1, QuietChildInv DEF RefInv, TypeOK
<1> QED
  BY <1>3, <1>4, TakeRefPointerInv, TakeDisposedInv, UserSweepInv DEF Kept

\* Copying a Ref.
LEMMA CopyRefSerialInv ==
    ASSUME SerialInv, NEW x \in Clients, NEW r \in ClientRefs, NEW s \in ClientRefs,
           CopyRef(x, r, s)
    PROVE  Kept
<1> USE ActorFacts DEF SerialInv, AnyThreads
<1>1. pc[x] = "idle" /\ x \in Actors /\ r \in Refs /\ s \in Refs
      /\ UNCHANGED <<children, live, keyOf, attached, value>>
      /\ \A y \in Actors \ {x} : pc'[y] = pc[y] /\ ptr'[y] = ptr[y]
  BY DEF CopyRef, GoTo, registryVars, objectVars, RefInv, TypeOK
<1>2. Moving(x)
  BY <1>1 DEF Moving, Blocked
<1>3. MoverInv'
  BY <1>1, <1>2, MoverGoesOn
<1>4. ChildInv'
  BY <1>1, QuietChildInv
<1> QED
  BY <1>1, <1>3, <1>4, CopyRefPointerInv, TakeDisposedInv, UserSweepInv DEF Kept

\* A creation that ends hands over to who waits for it.
LEMMA CreatorSerialInv ==
    ASSUME SerialInv, NEW o \in Objs, CreateDone(o) \/ CreateFail(o) \/ StoreException(o)
    PROVE  Kept
<1> USE ActorFacts DEF SerialInv, AnyThreads
<1>1. o \in Actors /\ pc[o] # "detach" /\ pc[o] # "idle" /\ value[o] = "creating"
      /\ ptr'[o] \in {ptr[o], None}
      /\ UNCHANGED <<children, disposed, doomed, live, keyOf, attached, refCount>>
      /\ \A y \in Actors \ {o} : pc'[y] = pc[y] /\ ptr'[y] = ptr[y]
  BY DEF CreateDone, HasDependency, CreateFail, StoreException, GoTo, registryVars,
     objectVars, RefInv, TypeOK, CreatorInv
<1>2. Moving(o)
  BY <1>1 DEF CreateDone, HasDependency, CreateFail, StoreException, Moving, Blocked
<1>3. MoverInv'
  <2>1. CASE CreateFail(o)
    <3>1. value' = value
      BY <2>1 DEF CreateFail, objectVars
    <3> QED
      BY <1>1, <1>2, <3>1, MoverGoesOn
  <2>2. CASE CreateDone(o) \/ StoreException(o)
    <3>1. /\ pc'[o] = "idle" /\ value'[o] # "creating"
          /\ value' = [value EXCEPT ![o] = value'[o]]
      BY <1>1, <2>2 DEF CreateDone, StoreException, GoTo, RefInv, TypeOK
    <3> QED
      BY <1>1, <1>2, <3>1, MoverEnds
  <2> QED
    BY <2>1, <2>2
<1>4. ChildInv' /\ SweepInv'
  BY <1>1, QuietChildInv, QuietSweepInv
<1> QED
  BY <1>3, <1>4, CreatorPointerInv, CreatorDisposedInv DEF Kept

\* Dropping a Ref, by a request or by a creation that failed.
LEMMA DropSerialInv ==
    ASSUME SerialInv, NEW x \in Actors, NEW r \in Refs, NEW d \in live, ref[r] = d,
           ref' = [ref EXCEPT ![r] = None], Decrement(x, d), Moving(x), pc[x] # "detach",
           UNCHANGED <<registryVars, objectVars>>
    PROVE  Kept
<1> USE DEF SerialInv, AnyThreads, registryVars, objectVars
<1>1. refCount[d] > 0
  BY DropPositive DEF RefInv
<1>2. \A y \in Actors \ {x} : pc'[y] = pc[y] /\ ptr'[y] = ptr[y]
  BY <1>1, DecrementPointer
<1>3. MoverInv'
  BY <1>2, MoverGoesOn
<1>4. ChildInv'
  BY <1>2, QuietChildInv
<1> QED
  BY <1>1, <1>3, <1>4, DropPointerInv, DropDisposedInv, DropSweepInv DEF Kept

\* A value that is there, and unref() up to its end.
LEMMA QuietSerialInv ==
    ASSUME SerialInv, NEW x \in Actors,
           \/ Value(x) \/ AcquireSpinlock(x) \/ Dispose(x) \/ ReleaseSpinlock(x)
           \/ Orphaned(x)
    PROVE  Kept
<1> USE DEF SerialInv, AnyThreads
<1>1. /\ pc[x] # "detach" /\ ptr'[x] \in {ptr[x], None}
      /\ UNCHANGED <<children, doomed, live, keyOf, attached, refCount, value>>
      /\ disposed' \subseteq disposed \cup {ptr[x]}
      /\ \A y \in Actors \ {x} : pc'[y] = pc[y] /\ ptr'[y] = ptr[y]
  BY DEF Value, AcquireSpinlock, Dispose, ReleaseSpinlock, Orphaned, Return, GoTo,
     registryVars, objectVars, RefInv, TypeOK
<1>2. Moving(x)
  BY ActorFacts DEF Value, AcquireSpinlock, Dispose, ReleaseSpinlock, Orphaned, Moving,
     Blocked, Threads
<1>3. MoverInv'
  BY <1>1, <1>2, MoverGoesOn
<1>4. ChildInv' /\ SweepInv'
  BY <1>1, QuietChildInv, QuietSweepInv
<1> QED
  BY <1>2, <1>3, <1>4, QuietPointerInv, QuietDisposedInv DEF Kept

\* A destructor keeps the flow of control where it is.
LEMMA DestroyMoverInv ==
    ASSUME SerialInv, NEW x \in Actors, NEW c \in live, Destroy(x, c), Moving(x)
    PROVE  MoverInv'
<1> USE DEF SerialInv, AnyThreads, RefInv, TypeOK
<1>1. \A y \in Actors \ {x} : pc'[y] = pc[y] /\ ptr'[y] = ptr[y]
  BY DEF Destroy, Decrement, Return, GoTo
<1>2. \A o \in Objs : value'[o] = "creating" <=> value[o] = "creating"
  BY DEF Destroy
<1> QED
  BY <1>1, <1>2, MoverGoesOn

\* unref() deletes a detached object.
LEMMA DeleteThisSerialInv ==
    ASSUME SerialInv, NEW x \in Actors, DeleteThis(x)
    PROVE  Kept
<1> USE DEF SerialInv, AnyThreads
<1>1. PICK c \in live : c = ptr[x] /\ Destroy(x, c)
  BY DEF DeleteThis
<1>2. /\ pc[x] = "delete" /\ Moving(x) /\ refCount[c] = 0 /\ c \notin disposed
      /\ UNCHANGED <<children, doomed, disposed>>
  BY <1>1 DEF DeleteThis, Moving, Blocked, PointerInv, DisposedInv, registryVars
<1> QED
  BY <1>1, <1>2, DestroyMoverInv, DestroyPointerInv, DestroyDisposedInv, DestroySweepInv,
     DeleteThisChildInv DEF Kept

\* The collector destroys what it swept up.
LEMMA SweepSerialInv ==
    ASSUME SerialInv, NEW x \in Threads, NEW k \in Keys, Sweep(x, k)
    PROVE  Kept
<1> USE ActorFacts DEF SerialInv, AnyThreads
<1>1. PICK c \in live : c = children[k] /\ Destroy(x, c)
  BY DEF Sweep
<1>2. /\ pc[x] = "sweep" /\ Moving(x) /\ refCount[c] = 0 /\ c \notin disposed
      /\ disposed' = disposed /\ doomed' = doomed \ {k}
  BY <1>1 DEF Sweep, Moving, Blocked, SweepInv
<1>3. doomed' \subseteq doomed /\ \A j \in doomed' : children'[j] = children[j]
  BY <1>2 DEF Sweep, RefInv, TypeOK
<1>4. SweepInv'
  BY <1>1, <1>2, <1>3, DestroySweepInv
<1> QED
  BY <1>1, <1>2, <1>4, DestroyMoverInv, DestroyPointerInv, DestroyDisposedInv,
     SweepChildInv DEF Kept

\* The other steps of a collection.
LEMMA CollectSerialInv ==
    ASSUME SerialInv, NEW x \in Threads,
           \/ StartCollect(x, FALSE) \/ StartCollect(x, TRUE) \/ MoveDisposed(x)
           \/ EndCollect(x) \/ (\E k \in Keys : Detach(x, k)) \/ EndClear(x)
    PROVE  Kept
<1> USE ActorFacts DEF SerialInv, AnyThreads
<1>1. /\ pc[x] \in {"idle", "sweep", "detach"} /\ UNCHANGED <<ptr, value>>
      /\ \A y \in Actors \ {x} : pc'[y] = pc[y]
  BY DEF StartCollect, MoveDisposed, EndCollect, Detach, EndClear, GoTo, objectVars,
     RefInv, TypeOK
<1>2. Moving(x)
  BY <1>1 DEF Moving, Blocked
<1>3. MoverInv'
  BY <1>1, <1>2, MoverGoesOn
<1> QED
  BY <1>3, CollectPointerInv, CollectDisposedInv, MoveSweepInv, CollectSweepInv,
     CollectChildInv DEF Kept

\* No step of the program itself is the use of freed memory.
LEMMA OnlyUseAfterFreeCrashes ==
    [Next]_vars => crashed' = crashed \/ UseAfterFree
<1> SUFFICES ASSUME Next, ~UseAfterFree PROVE crashed' = crashed
  BY DEF vars
<1>1. ASSUME NEW x \in Clients, ClientStep(x) PROVE crashed' = crashed
  BY <1>1 DEF ClientStep, Get, Lookup, CopyRef, Release
<1>2. ASSUME NEW x \in Threads, StartCollect(x, FALSE) \/ StartCollect(x, TRUE)
      PROVE  crashed' = crashed
  BY <1>2 DEF StartCollect
<1>3. ASSUME NEW x \in Actors, TakeRef(x) \/ Value(x) \/ UnrefStep(x)
      PROVE  crashed' = crashed
  BY <1>3 DEF TakeRef, Value, UnrefStep, AcquireSpinlock, Dispose, ReleaseSpinlock,
     Orphaned, DeleteThis
<1>4. ASSUME NEW o \in Objs, CreatorStep(o) PROVE crashed' = crashed
  BY <1>4 DEF CreatorStep, CreatorGet, Lookup, CreateDone, CreateFail, CreateUnwind,
     StoreException
<1>5. ASSUME NEW x \in Threads, CollectStep(x) PROVE crashed' = crashed
  BY <1>5 DEF CollectStep, MoveDisposed, Sweep, EndCollect, Detach, EndClear
<1>6. CASE Halted
  BY <1>6 DEF Halted, vars
<1> QED
  BY <1>1, <1>2, <1>3, <1>4, <1>5, <1>6, ActorFacts DEF Next

\* The kinds of steps, with what their guards and the invariant say of them.
LookupStep ==
    \E x \in Actors, k \in Keys, r \in Refs :
        /\ Lookup(x, k, r)
        /\ pc[x] \in {"idle", "create"} /\ (x \in Objs => pc[x] = "create")
        /\ ref[r] = None /\ ~Filling(r)

CopyStep == \E x \in Clients, r \in ClientRefs, s \in ClientRefs : CopyRef(x, r, s)

DropStep ==
    \E x \in Actors, r \in Refs, d \in live :
        /\ ref[r] = d /\ ref' = [ref EXCEPT ![r] = None]
        /\ Decrement(x, d)
        /\ pc[x] \in {"idle", "wait"} /\ Moving(x)
        /\ r \in Objs => value[r] = "creating"
        /\ \A y \in Actors : slot[y] = r => pc[y] # "ref"
        /\ UNCHANGED <<registryVars, objectVars>>

QuietStep ==
    \E x \in Actors :
        \/ Value(x) \/ AcquireSpinlock(x) \/ Dispose(x) \/ ReleaseSpinlock(x)
        \/ Orphaned(x)

EndCreationStep == \E o \in Objs : CreateDone(o) \/ CreateFail(o) \/ StoreException(o)

CollectionStep ==
    \E x \in Threads :
        \/ StartCollect(x, FALSE) \/ StartCollect(x, TRUE) \/ MoveDisposed(x)
        \/ EndCollect(x) \/ (\E k \in Keys : Detach(x, k)) \/ EndClear(x)

\* Every step of the serial use is of one of these kinds.
LEMMA StepCases ==
    ASSUME SerialInv, [Next]_vars
    PROVE  \/ LookupStep \/ CopyStep \/ DropStep \/ QuietStep \/ EndCreationStep
           \/ CollectionStep
           \/ \E x \in Actors : TakeRef(x)
           \/ \E x \in Actors : DeleteThis(x)
           \/ \E x \in Threads, k \in Keys : Sweep(x, k)
           \/ UNCHANGED vars
<1> USE DEF SerialInv, AnyThreads
<1>1. ASSUME NEW x \in Clients, NEW k \in Keys, NEW r \in ClientRefs, Get(x, k, r)
      PROVE  LookupStep
  BY <1>1, ActorFacts DEF Get, LookupStep
<1>2. ASSUME NEW x \in Clients, NEW r \in ClientRefs, Release(x, r) PROVE DropStep
  <2>1. PICK d \in live : d = ref[r]
    BY <1>2 DEF Release
  <2>2. Moving(x) /\ x \in Actors /\ r \in Refs /\ r \notin Objs
    BY <1>2, ActorFacts DEF Release, Moving, Blocked
  <2> QED
    BY <1>2, <2>1, <2>2 DEF Release, Filling, DropStep
<1>3. ASSUME NEW o \in Objs, CreatorGet(o) PROVE LookupStep
  <2>1. o \in Actors /\ o \in Refs /\ pc[o] = "create" /\ DependsOn[keyOf[o]] \in Keys
    BY <1>3, ActorFacts, ConstantsAssumption DEF CreatorGet, RefInv, CreatorInv
  <2>2. ref[o] = None /\ ~Filling(o)
    BY <2>1, ActorFacts, ConstantsAssumption DEF RefInv, CreatorInv, SlotInv, Filling
  <2> QED
    BY <1>3, <2>1, <2>2 DEF CreatorGet, LookupStep
<1>4. ASSUME NEW o \in Objs, CreateUnwind(o) PROVE DropStep
  <2>1. PICK d \in live : d = ptr[o] /\ ref[o] = d
    BY <1>4 DEF CreateUnwind, RefInv, CreatorInv
  <2>2. /\ Moving(o) /\ o \in Actors /\ o \in Refs /\ pc[o] = "wait"
        /\ value[o] = "creating" /\ slot[o] = o
    BY <1>4, ActorFacts DEF CreateUnwind, Moving, Blocked, RefInv, CreatorInv
  <2>3. \A y \in Actors : slot[y] = o => y = o
    BY <2>2, ActorFacts DEF RefInv, SlotInv
  <2> QED
    BY <1>4, <2>1, <2>2, <2>3 DEF CreateUnwind, DropStep
<1>5. ~UseAfterFree
  BY DEF UseAfterFree, Dangling, PointerInv
<1>6. CASE \E x \in Clients : ClientStep(x)
  BY <1>1, <1>2, <1>6 DEF ClientStep, CopyStep
<1>7. CASE \E x \in Actors : TakeRef(x) \/ Value(x) \/ UnrefStep(x)
  BY <1>7 DEF UnrefStep, QuietStep
<1>8. CASE \E o \in Objs : CreatorStep(o)
  BY <1>3, <1>4, <1>8 DEF CreatorStep, EndCreationStep
<1>9. CASE \/ \E x \in Collectors : StartCollect(x, FALSE)
           \/ \E x \in Clearers : StartCollect(x, TRUE)
           \/ \E x \in Threads : CollectStep(x)
  BY <1>9, ActorFacts DEF CollectStep, CollectionStep
<1> QED
  BY <1>5, <1>6, <1>7, <1>8, <1>9 DEF Next, Halted

\* SerialInv is inductive.  It mentions the number of threads nowhere: that
\* there is one is needed for the initial state only.
LEMMA SerialInvStep == SerialInv /\ [Next]_vars => SerialInv'
<1> SUFFICES ASSUME SerialInv, [Next]_vars PROVE SerialInv'
  OBVIOUS
<1>1. LookupStep => Kept
  BY LookupSerialInv DEF LookupStep
<1>2. DropStep => Kept
  BY DropSerialInv DEF DropStep
<1>3. CopyStep \/ QuietStep \/ EndCreationStep => Kept
  BY CopyRefSerialInv, QuietSerialInv, CreatorSerialInv
     DEF CopyStep, QuietStep, EndCreationStep
<1>4. CollectionStep => Kept
  BY CollectSerialInv DEF CollectionStep
<1>5. ASSUME UNCHANGED vars PROVE Kept
  <2>1. UNCHANGED <<children, disposed, doomed, live, keyOf, attached, value, refCount, ref,
                    pc, ptr>>
    BY <1>5 DEF vars, registryVars, objectVars
  <2>2. MoverInv'
    BY <2>1 DEF SerialInv, MoverInv, Moving, Blocked
  <2>3. PointerInv' /\ DisposedInv'
    BY <2>1 DEF SerialInv, PointerInv, DisposedInv
  <2>4. SweepInv' /\ ChildInv'
    BY <2>1 DEF SerialInv, SweepInv, ChildInv
  <2> QED
    BY <2>2, <2>3, <2>4 DEF Kept
<1>6. Kept
  BY <1>1, <1>2, <1>3, <1>4, <1>5, StepCases, TakeRefSerialInv, DeleteThisSerialInv,
     SweepSerialInv
<1>7. ~UseAfterFree
  BY DEF UseAfterFree, Dangling, SerialInv, PointerInv
<1>8. AnyThreads' /\ ~crashed'
  BY <1>7, AnyThreadsStep, OnlyUseAfterFreeCrashes DEF SerialInv
<1> QED
  BY <1>6, <1>8 DEF SerialInv, Kept

\* The invariant of the serial use holds in every behaviour.
LEMMA SerialInvAlways == ASSUME OneThread PROVE Spec => []SerialInv
BY SerialInvInit, SerialInvStep, PTL DEF Spec

\* One thread, with the creations it starts, never uses memory of a singleton
\* that was freed.
THEOREM SerialUseIsSafe == ASSUME OneThread PROVE Spec => []NoUseAfterFree
<1>1. SerialInv => NoUseAfterFree
  BY DEF SerialInv, NoUseAfterFree
<1> QED
  BY <1>1, SerialInvAlways, PTL

\* Both assertions of moveDisposedToDeleteKeysUnlocked hold: what it takes
\* from m_disposed has no reference left ...
THEOREM CollectedHaveNoReference == ASSUME OneThread PROVE Spec => []DisposedAreUnreferenced
<1>1. SerialInv => DisposedAreUnreferenced
  BY DEF SerialInv, DisposedInv, DisposedAreUnreferenced, Garbage
<1> QED
  BY <1>1, SerialInvAlways, PTL

\* ... and all of it is registered.
THEOREM CollectedAreRegistered == ASSUME OneThread PROVE Spec => []DisposedAreRegistered
<1>1. SerialInv => DisposedAreRegistered
  BY DEF SerialInv, AnyThreads, RefInv, CreatorInv, TypeOK, ShareInv, OneInstance,
     DisposedInv, DisposedAreRegistered
<1> QED
  BY <1>1, SerialInvAlways, PTL

-----------------------------------------------------------------------------
(* Detached objects. *)

\* A step leaves no orphan that it does not make itself, or let go.
LEMMA OrphansKept ==
    ASSUME RefInv, NoOrphanLeaks, NEW x \in Actors,
           \A y \in Actors \ {x} : pc'[y] = pc[y] /\ ptr'[y] = ptr[y],
           \A o \in live' \ attached' : refCount'[o] = 0 =>
               \/ Pending(o)'
               \/ /\ o \in live \ attached /\ refCount[o] = 0
                  /\ pc[x] \in PendingLabels /\ ptr[x] = o =>
                        pc'[x] \in PendingLabels /\ ptr'[x] = o
    PROVE  NoOrphanLeaks'
<1>1. SUFFICES ASSUME NEW o \in live' \ attached', refCount'[o] = 0, ~Pending(o)'
      PROVE  FALSE
  BY DEF NoOrphanLeaks
<1>2. o \in live \ attached /\ refCount[o] = 0
  BY <1>1
<1>3. PICK y \in Actors : ptr[y] = o /\ pc[y] \in PendingLabels
  BY <1>2 DEF NoOrphanLeaks, Pending, PendingLabels
<1>4. ptr'[y] = o /\ pc'[y] \in PendingLabels
  BY <1>1, <1>3
<1> QED
  BY <1>1, <1>4 DEF Pending, PendingLabels

\* Destroying an object leaves its dependency a reference, or to its actor.
LEMMA DestroyOrphans ==
    ASSUME SerialInv, NoOrphanLeaks, NEW x \in Actors, NEW c \in live, Destroy(x, c),
           pc[x] = "delete" => ptr[x] = c, pc[x] \in {"delete", "sweep"}
    PROVE  NoOrphanLeaks'
<1> USE DEF SerialInv, AnyThreads, RefInv, TypeOK
<1>0. c \in Objs /\ c \in Refs /\ live' = live \ {c} /\ attached' = attached \ {c}
  BY DEF Refs, Destroy
<1>1. CASE ref[c] = None
  <2>1. /\ refCount' = refCount
        /\ \A y \in Actors \ {x} : pc'[y] = pc[y] /\ ptr'[y] = ptr[y]
    BY <1>1 DEF Destroy, Return, AfterUnref, GoTo
  <2> QED
    BY <1>0, <2>1, OrphansKept DEF PendingLabels
<1>2. CASE ref[c] # None
  <2>1. PICK d \in live : ref[c] = d
    BY <1>2 DEF Destroy
  <2>2. d \in Objs /\ Decrement(x, d) /\ refCount[d] > 0
    BY <1>0, <1>2, <2>1, DropPositive DEF Destroy
  <2>3. /\ refCount'[d] > 0 \/ Pending(d)'
        /\ \A p \in Objs \ {d} : refCount'[p] = refCount[p]
        /\ \A y \in Actors \ {x} : pc'[y] = pc[y] /\ ptr'[y] = ptr[y]
    BY <2>2, DecrementPending
  <2>4. \A o \in live' \ attached' : refCount'[o] = 0 =>
           Pending(o)' \/ (o \in live \ attached /\ refCount[o] = 0)
    BY <1>0, <2>2, <2>3
  <2>5. \A o \in live' : pc[x] \in PendingLabels => ptr[x] # o
    BY <1>0 DEF PendingLabels
  <2> QED
    BY <2>3, <2>4, <2>5, OrphansKept
<1> QED
  BY <1>1, <1>2

\* NoOrphanLeaks is inductive, given the serial use.
LEMMA NoOrphanLeaksStep == SerialInv /\ NoOrphanLeaks /\ [Next]_vars => NoOrphanLeaks'
<1> SUFFICES ASSUME SerialInv, NoOrphanLeaks, [Next]_vars PROVE NoOrphanLeaks'
  OBVIOUS
<1> USE DEF SerialInv, AnyThreads, RefInv, TypeOK
<1>1. ASSUME NEW x \in Actors, NEW k \in Keys, NEW r \in Refs, Lookup(x, k, r),
             pc[x] \in {"idle", "create"}
      PROVE  NoOrphanLeaks'
  <2>1. CASE children[k] # None
    BY <1>1, <2>1, OrphansKept DEF Lookup, Recycle, GoTo, objectVars, PendingLabels
  <2>2. CASE children[k] = None
    <3>1. PICK n \in Objs :
            /\ Fresh(n) /\ pc[n] = "idle"
            /\ live' = live \cup {n} /\ attached' = attached \cup {n}
            /\ refCount' = [refCount EXCEPT ![n] = 0]
            /\ ptr' = [ptr EXCEPT ![x] = n]
            /\ pc' = [pc EXCEPT ![x] = "ref", ![n] = "create"]
      BY <1>1, <2>2 DEF Lookup, Recycle
    <3>2. SUFFICES ASSUME NEW o \in live \ attached, refCount[o] = 0, o # n
          PROVE  Pending(o)'
      BY <3>1 DEF NoOrphanLeaks
    <3>3. PICK y \in Actors : ptr[y] = o /\ pc[y] \in PendingLabels
      BY <3>2 DEF NoOrphanLeaks, Pending, PendingLabels
    <3>4. ptr'[y] = o /\ pc'[y] \in PendingLabels
      BY <1>1, <3>1, <3>3 DEF PendingLabels
    <3> QED
      BY <3>4 DEF Pending, PendingLabels
  <2> QED
    BY <2>1, <2>2
<1>2. ASSUME NEW x \in Actors, TakeRef(x) PROVE NoOrphanLeaks'
  <2>1. ptr[x] \in Objs
    BY <1>2 DEF TakeRef, SlotInv
  <2> QED
    BY <1>2, <2>1, OrphansKept DEF TakeRef, GoTo, objectVars
<1>3. ASSUME NEW x \in Clients, NEW r \in ClientRefs, NEW s \in ClientRefs, CopyRef(x, r, s)
      PROVE  NoOrphanLeaks'
  BY <1>3, ActorFacts, OrphansKept DEF CopyRef, GoTo, objectVars, PendingLabels
<1>4. ASSUME NEW x \in Actors,
             \/ Value(x) \/ AcquireSpinlock(x) \/ Dispose(x) \/ ReleaseSpinlock(x)
             \/ Orphaned(x)
      PROVE  NoOrphanLeaks'
  <2>1. /\ UNCHANGED <<live, attached, refCount>>
        /\ \A y \in Actors \ {x} : pc'[y] = pc[y] /\ ptr'[y] = ptr[y]
        /\ pc[x] \in PendingLabels =>
              ptr[x] \in attached \/ (pc'[x] \in PendingLabels /\ ptr'[x] = ptr[x])
    BY <1>4 DEF Value, AcquireSpinlock, Dispose, ReleaseSpinlock, Orphaned, Return, GoTo,
       objectVars, PendingLabels
  <2> QED
    BY <2>1, OrphansKept
<1>5. ASSUME NEW o \in Objs, CreateDone(o) \/ CreateFail(o) \/ StoreException(o)
      PROVE  NoOrphanLeaks'
  BY <1>5, ActorFacts, OrphansKept DEF CreateDone, HasDependency, CreateFail,
     StoreException, GoTo, objectVars, PendingLabels
<1>6. ASSUME NEW x \in Actors, NEW r \in Refs, NEW d \in live, ref[r] = d, Decrement(x, d),
             pc[x] \in {"idle", "wait"}, UNCHANGED objectVars
      PROVE  NoOrphanLeaks'
  <2>1. refCount[d] > 0 /\ d \in Objs
    BY <1>6, DropPositive
  <2>2. /\ refCount'[d] > 0 \/ Pending(d)'
        /\ \A p \in Objs \ {d} : refCount'[p] = refCount[p]
        /\ \A y \in Actors \ {x} : pc'[y] = pc[y] /\ ptr'[y] = ptr[y]
    BY <1>6, <2>1, DecrementPending
  <2>3. \A o \in live' \ attached' : refCount'[o] = 0 =>
           Pending(o)' \/ (o \in live \ attached /\ refCount[o] = 0)
    BY <1>6, <2>1, <2>2 DEF objectVars
  <2> QED
    BY <1>6, <2>2, <2>3, OrphansKept DEF PendingLabels
<1>7. ASSUME NEW x \in Threads,
             \/ StartCollect(x, FALSE) \/ StartCollect(x, TRUE) \/ MoveDisposed(x)
             \/ EndCollect(x) \/ EndClear(x)
      PROVE  NoOrphanLeaks'
  BY <1>7, ActorFacts, OrphansKept DEF StartCollect, MoveDisposed, EndCollect, EndClear,
     GoTo, objectVars, PendingLabels
<1>8. ASSUME NEW x \in Threads, NEW k \in Keys, Detach(x, k) PROVE NoOrphanLeaks'
  <2>1. disposed = {} /\ doomed = {}
    BY <1>8, ActorFacts DEF Detach, DisposedInv, DoomedInv
  <2>2. \A o \in live \cap attached : refCount[o] = 0 => Pending(o)
    BY <2>1 DEF NothingStranded
  <2>3. /\ UNCHANGED <<live, refCount, pc, ptr>> /\ attached' \subseteq attached
    BY <1>8 DEF Detach
  <2> QED
    BY <2>2, <2>3 DEF NoOrphanLeaks, Pending
<1>9. ASSUME NEW x \in Actors, DeleteThis(x) PROVE NoOrphanLeaks'
  BY <1>9, DestroyOrphans DEF DeleteThis
<1>10. ASSUME NEW x \in Threads, NEW k \in Keys, Sweep(x, k) PROVE NoOrphanLeaks'
  BY <1>10, ActorFacts, DestroyOrphans DEF Sweep
<1>11. CASE UNCHANGED vars
  BY <1>11 DEF vars, objectVars, NoOrphanLeaks, Pending
<1>12. LookupStep \/ DropStep => NoOrphanLeaks'
  BY <1>1, <1>6 DEF LookupStep, DropStep
<1>13. CopyStep \/ QuietStep \/ EndCreationStep \/ CollectionStep => NoOrphanLeaks'
  BY <1>3, <1>4, <1>5, <1>7, <1>8 DEF CopyStep, QuietStep, EndCreationStep, CollectionStep
<1> HIDE DEF SerialInv
<1> QED
  BY <1>2, <1>9, <1>10, <1>11, <1>12, <1>13, StepCases

\* An object that clear() detached is deleted by whoever drops its last Ref:
\* it cannot be left to a storage that has forgotten it.
THEOREM OrphansAreDeleted == ASSUME OneThread PROVE Spec => []NoOrphanLeaks
<1>1. Init => NoOrphanLeaks
  BY DEF Init, NoOrphanLeaks
<1> QED
  BY <1>1, NoOrphanLeaksStep, SerialInvAlways, PTL DEF Spec

-----------------------------------------------------------------------------
(* Values and the singletons they depend on. *)

\* DependencyOutlives is inductive, given the serial use.
LEMMA DependencyOutlivesStep ==
    SerialInv /\ DependencyOutlives /\ [Next]_vars => DependencyOutlives'
<1> SUFFICES ASSUME SerialInv, DependencyOutlives, [Next]_vars PROVE DependencyOutlives'
  OBVIOUS
<1> USE DEF SerialInv, AnyThreads, RefInv, TypeOK
\* Ready values that keep their Ref, and objects that keep their value.
<1>1. ASSUME live' = live, keyOf' = keyOf, value' = value,
             \A o \in live : value[o] = "ready" => ref'[o] = ref[o]
      PROVE  DependencyOutlives'
  BY <1>1 DEF DependencyOutlives
<1>2. LookupStep => DependencyOutlives'
  <2>1. SUFFICES ASSUME NEW x \in Actors, NEW k \in Keys, NEW r \in Refs, Lookup(x, k, r)
        PROVE  DependencyOutlives'
    BY DEF LookupStep
  <2>2. CASE children[k] # None
    BY <1>1, <2>1, <2>2 DEF Lookup, objectVars
  <2>3. CASE children[k] = None
    <3>1. PICK n \in Objs :
            /\ Fresh(n) /\ live' = live \cup {n}
            /\ keyOf' = [keyOf EXCEPT ![n] = k]
            /\ value' = [value EXCEPT ![n] = "creating"]
      BY <2>1, <2>3 DEF Lookup
    <3>2. ref' = ref /\ \A o \in Objs : ref[o] # n
      BY <2>1, <3>1, ActorFacts DEF Lookup, Fresh
    <3> QED
      BY <3>1, <3>2 DEF DependencyOutlives
  <2> QED
    BY <2>2, <2>3
<1>3. CopyStep => DependencyOutlives'
  BY <1>1, ActorFacts DEF CopyStep, CopyRef, objectVars
<1>4. DropStep => DependencyOutlives'
  BY <1>1, ActorFacts DEF DropStep, objectVars
<1>5. QuietStep => DependencyOutlives'
  BY <1>1 DEF QuietStep, Value, AcquireSpinlock, Dispose, ReleaseSpinlock, Orphaned, objectVars
<1>6. CollectionStep => DependencyOutlives'
  BY <1>1 DEF CollectionStep, StartCollect, MoveDisposed, EndCollect, Detach, EndClear,
     objectVars
<1>7. ASSUME NEW x \in Actors, TakeRef(x) PROVE DependencyOutlives'
  <2>1. \A o \in live : value[o] = "ready" => slot[x] # o
    BY <1>7, ActorFacts DEF TakeRef, SlotInv, CreatorInv
  <2> QED
    BY <1>1, <1>7, <2>1, ActorFacts DEF TakeRef, objectVars
<1>8. EndCreationStep => DependencyOutlives'
  <2>1. SUFFICES ASSUME NEW o \in Objs, CreateDone(o) \/ CreateFail(o) \/ StoreException(o)
        PROVE  DependencyOutlives'
    BY DEF EndCreationStep
  <2>2. value[o] = "creating" /\ UNCHANGED <<live, keyOf, ref>>
    BY <2>1 DEF CreateDone, HasDependency, CreateFail, StoreException, CreatorInv, objectVars
  <2>3. CASE CreateDone(o)
    <3>1. DependsOn[keyOf[o]] # None =>
             ref[o] \in live /\ value[ref[o]] = "ready"
      BY <2>3 DEF CreateDone, HasDependency, CreatorInv
    <3> QED
      BY <2>2, <2>3, <3>1 DEF CreateDone, DependencyOutlives
  <2>4. CASE CreateFail(o)
    BY <1>1, <2>2, <2>4 DEF CreateFail, objectVars
  <2>5. CASE StoreException(o)
    BY <2>2, <2>5 DEF StoreException, DependencyOutlives
  <2> QED
    BY <2>1, <2>3, <2>4, <2>5
<1>9. ASSUME NEW x \in Actors, NEW c \in live, Destroy(x, c), refCount[c] = 0
      PROVE  DependencyOutlives'
  <2>1. \A r \in Refs : ref[r] # c
    BY <1>9, NoRefTo
  <2>2. \A o \in Objs : ref[o] # c /\ o \in Refs
    BY <2>1, ActorFacts
  <2>3. /\ c \in Objs /\ live' = live \ {c} /\ keyOf' = [keyOf EXCEPT ![c] = None]
        /\ value' = [value EXCEPT ![c] = "ready"] /\ ref' = [ref EXCEPT ![c] = None]
    BY <1>9 DEF Destroy
  <2> QED
    BY <2>2, <2>3 DEF DependencyOutlives
<1>10. ASSUME NEW x \in Actors, DeleteThis(x) PROVE DependencyOutlives'
  BY <1>9, <1>10 DEF DeleteThis, PointerInv
<1>11. ASSUME NEW x \in Threads, NEW k \in Keys, Sweep(x, k) PROVE DependencyOutlives'
  BY <1>9, <1>11, ActorFacts DEF Sweep, SweepInv
<1>12. CASE UNCHANGED vars
  BY <1>12 DEF vars, objectVars, DependencyOutlives
<1> HIDE DEF SerialInv
<1> QED
  BY <1>2, <1>3, <1>4, <1>5, <1>6, <1>7, <1>8, <1>10, <1>11, <1>12, StepCases

\* A value that is ready keeps the singleton it depends on, whose value is
\* ready as well: a subscription to an attribute can rely on its proxy.
THEOREM DependenciesOutlive == ASSUME OneThread PROVE Spec => []DependencyOutlives
<1>1. Init => DependencyOutlives
  BY DEF Init, DependencyOutlives
<1> QED
  BY <1>1, DependencyOutlivesStep, SerialInvAlways, PTL DEF Spec

-----------------------------------------------------------------------------
(* The storage implements SingletonRegistry. *)

\* An actor is about to fill the Ref q with what get returned to it.
Fills(x, q) == pc[x] = "ref" /\ slot[x] = q

\* What a user holds: the object that an actor will fill its Ref with, or
\* the one its Ref points to.
HoldsMeaning ==
    \A q \in Refs :
        IF \E x \in Actors : Fills(x, q)
        THEN \E x \in Actors : Fills(x, q) /\ Holds[q] = ptr[x]
        ELSE Holds[q] = ref[q]

\* This is what the definition of Holds says.
LEMMA HoldsIs == HoldsMeaning
<1>1. SUFFICES ASSUME NEW q \in Refs
      PROVE  IF \E x \in Actors : Fills(x, q)
             THEN \E x \in Actors : Fills(x, q) /\ Holds[q] = ptr[x]
             ELSE Holds[q] = ref[q]
  BY DEF HoldsMeaning
<1>2. Holds[q] = IF \E x \in Actors : pc[x] = "ref" /\ slot[x] = q
                 THEN ptr[CHOOSE x \in Actors : pc[x] = "ref" /\ slot[x] = q]
                 ELSE ref[q]
  BY DEF Holds
<1>3. CASE \E x \in Actors : Fills(x, q)
  <2> DEFINE y == CHOOSE x \in Actors : pc[x] = "ref" /\ slot[x] = q
  <2>1. y \in Actors /\ pc[y] = "ref" /\ slot[y] = q
    BY <1>3 DEF Fills
  <2>2. Holds[q] = ptr[y]
    BY <1>2, <1>3 DEF Fills
  <2> QED
    BY <1>3, <2>1, <2>2 DEF Fills
<1>4. CASE ~\E x \in Actors : Fills(x, q)
  BY <1>2, <1>4 DEF Fills
<1> QED
  BY <1>3, <1>4

\* It says so in the next state too.
LEMMA HoldsNext == HoldsMeaning'
BY HoldsIs, PTL

\* Changing what one user holds.
LEMMA HoldsUpdate ==
    ASSUME NEW r \in Refs, NEW v, Holds'[r] = v,
           \A q \in Refs \ {r} : Holds'[q] = Holds[q]
    PROVE  Holds' = [Holds EXCEPT ![r] = v]
<1>1. Holds = [q \in Refs |-> Holds[q]] /\ Holds' = [q \in Refs |-> Holds'[q]]
  BY DEF Holds
<1> QED
  BY <1>1

\* Changing what nobody holds.
LEMMA HoldsUnchanged ==
    ASSUME \A q \in Refs : Holds'[q] = Holds[q]
    PROVE  Holds' = Holds
<1>1. Holds = [q \in Refs |-> Holds[q]] /\ Holds' = [q \in Refs |-> Holds'[q]]
  BY DEF Holds
<1> QED
  BY <1>1

\* What a user holds stays while its Ref and who fills it do.
LEMMA HoldsSame ==
    ASSUME RefInv, RefInv', NEW q \in Refs, ref'[q] = ref[q],
           \A y \in Actors : Fills(y, q)' <=> Fills(y, q),
           \A y \in Actors : Fills(y, q) => ptr'[y] = ptr[y]
    PROVE  Holds'[q] = Holds[q]
<1>0. None \notin Refs
  BY ConstantsAssumption
<1>1. CASE \E y \in Actors : Fills(y, q)
  <2>1. PICK y \in Actors : Fills(y, q) /\ Holds[q] = ptr[y]
    BY <1>1, HoldsIs DEF HoldsMeaning
  <2>2. PICK z \in Actors : Fills(z, q)' /\ Holds'[q] = ptr'[z]
    BY <2>1, HoldsNext DEF HoldsMeaning
  <2>3. y = z
    BY <1>0, <2>1, <2>2 DEF Fills, RefInv, SlotInv
  <2> QED
    BY <2>1, <2>2, <2>3
<1>2. CASE ~\E y \in Actors : Fills(y, q)
  BY <1>2, HoldsIs, HoldsNext DEF HoldsMeaning
<1> QED
  BY <1>1, <1>2

\* A Ref that points to something is not being filled.
LEMMA HoldsRef ==
    ASSUME RefInv, NEW r \in Refs, ref[r] # None
    PROVE  Holds[r] = ref[r] /\ \A y \in Actors : ~Fills(y, r)
<1>1. \A y \in Actors : ~Fills(y, r)
  BY DEF Fills, RefInv, SlotInv
<1> QED
  BY <1>1, HoldsIs DEF HoldsMeaning

\* Looking a key up acquires its instance.
LEMMA LookupAcquires ==
    ASSUME SerialInv, SerialInv', NEW x \in Actors, NEW k \in Keys, NEW r \in Refs,
           Lookup(x, k, r), pc[x] \in {"idle", "create"}, ref[r] = None, ~Filling(r)
    PROVE  Registry!Acquire(k, r)
<1> USE ActorFacts DEF SerialInv, AnyThreads, RefInv, TypeOK
<1>1. Holds[r] = None /\ \A y \in Actors : slot[y] # r
  BY HoldsIs DEF HoldsMeaning, Fills, Filling
<1>2. slot' = [slot EXCEPT ![x] = r] /\ ref' = ref /\ r # None
  BY ConstantsAssumption DEF Lookup
<1>3. CASE children[k] # None
  <2>1. /\ UNCHANGED children /\ ptr' = [ptr EXCEPT ![x] = children[k]]
        /\ pc' = [pc EXCEPT ![x] = "ref"]
    BY <1>3 DEF Lookup, GoTo
  <2>2. \A y \in Actors : Fills(y, r)' => y = x
    BY <1>1, <1>2, <2>1 DEF Fills
  <2>3. Holds'[r] = children'[k]
    <3>1. Fills(x, r)'
      BY <1>2, <2>1 DEF Fills
    <3>2. PICK y \in Actors : Fills(y, r)' /\ Holds'[r] = ptr'[y]
      BY <3>1, HoldsNext DEF HoldsMeaning
    <3> QED
      BY <2>1, <2>2, <3>2
  <2>4. ASSUME NEW q \in Refs \ {r} PROVE Holds'[q] = Holds[q]
    <3>1. /\ \A y \in Actors : Fills(y, q)' <=> Fills(y, q)
          /\ \A y \in Actors : Fills(y, q) => ptr'[y] = ptr[y]
      BY <1>2, <2>1 DEF Fills
    <3> QED
      BY <1>2, <3>1, HoldsSame
  <2>5. Holds' = [Holds EXCEPT ![r] = children'[k]]
    BY <2>3, <2>4, HoldsUpdate
  <2> QED
    BY <1>1, <1>3, <2>1, <2>5 DEF Registry!Acquire
<1>4. CASE children[k] = None
  <2>1. PICK n \in Objs :
          /\ Fresh(n) /\ pc[n] = "idle"
          /\ children' = [children EXCEPT ![k] = n]
          /\ ptr' = [ptr EXCEPT ![x] = n]
          /\ pc' = [pc EXCEPT ![x] = "ref", ![n] = "create"]
    BY <1>4 DEF Lookup
  <2>2. x # n /\ children'[k] = n /\ n \in Actors
    BY <2>1
  <2>3. \A y \in Actors : Fills(y, r)' => y = x
    BY <1>1, <1>2, <2>1 DEF Fills
  <2>4. Holds'[r] = children'[k]
    <3>1. Fills(x, r)'
      BY <1>2, <2>1, <2>2 DEF Fills
    <3>2. PICK y \in Actors : Fills(y, r)' /\ Holds'[r] = ptr'[y]
      BY <3>1, HoldsNext DEF HoldsMeaning
    <3> QED
      BY <2>1, <2>2, <2>3, <3>2
  <2>5. ASSUME NEW q \in Refs \ {r} PROVE Holds'[q] = Holds[q]
    <3>1. /\ \A y \in Actors : Fills(y, q)' <=> Fills(y, q)
          /\ \A y \in Actors : Fills(y, q) => ptr'[y] = ptr[y]
      BY <1>2, <2>1, <2>2 DEF Fills
    <3> QED
      BY <1>2, <3>1, HoldsSame
  <2>6. Holds' = [Holds EXCEPT ![r] = children'[k]]
    BY <2>4, <2>5, HoldsUpdate
  <2>7. ~Registry!Held(n) /\ \A j \in Keys : children[j] # n
    BY <2>1, HoldsIs DEF Fresh, HoldsMeaning, Registry!Held
  <2> QED
    BY <1>1, <1>4, <2>1, <2>6, <2>7 DEF Registry!Acquire
<1> QED
  BY <1>3, <1>4

\* Copying a Ref shares its instance.
LEMMA CopyShares ==
    ASSUME SerialInv, SerialInv', NEW x \in Clients, NEW r \in ClientRefs,
           NEW s \in ClientRefs, CopyRef(x, r, s)
    PROVE  Registry!Share(r, s)
<1> USE ActorFacts DEF SerialInv, AnyThreads, RefInv, TypeOK
<1>1. /\ x \in Actors /\ r \in Refs /\ s \in Refs /\ r # s
      /\ ref[r] \in live /\ ref[r] # None /\ ref[s] = None /\ pc[x] = "idle"
      /\ ref' = [ref EXCEPT ![s] = ref[r]] /\ children' = children
      /\ \A y \in Actors : slot[y] # s
      /\ \A y \in Actors \ {x} : pc'[y] = pc[y] /\ ptr'[y] = ptr[y] /\ slot'[y] = slot[y]
      /\ pc'[x] = "wait"
  BY DEF CopyRef, Filling, GoTo, registryVars
<1>2. Holds[r] = ref[r] /\ Holds[s] = None
  BY <1>1, HoldsRef, HoldsIs DEF HoldsMeaning, Fills
<1>3. \A q \in Refs, y \in Actors : Fills(y, q)' <=> Fills(y, q)
  BY <1>1 DEF Fills
<1>4. \A q \in Refs, y \in Actors : Fills(y, q) => ptr'[y] = ptr[y]
  BY <1>1 DEF Fills
<1>5. Holds'[s] = ref[r]
  <2>1. \A y \in Actors : ~Fills(y, s)'
    BY <1>1, <1>3 DEF Fills
  <2> QED
    BY <1>1, <2>1, HoldsNext DEF HoldsMeaning
<1>6. ASSUME NEW q \in Refs \ {s} PROVE Holds'[q] = Holds[q]
  BY <1>1, <1>3, <1>4, HoldsSame
<1>7. Holds' = [Holds EXCEPT ![s] = Holds[r]]
  BY <1>1, <1>2, <1>5, <1>6, HoldsUpdate
<1> QED
  BY <1>1, <1>2, <1>7 DEF Registry!Share

\* Clearing a Ref drops its instance.
LEMMA ClearDrops ==
    ASSUME SerialInv, SerialInv', NEW x \in Actors, NEW r \in Refs, ref[r] # None,
           ref' = [ref EXCEPT ![r] = None], pc[x] # "ref", pc'[x] # "ref",
           \A y \in Actors \ {x} : pc'[y] = pc[y] /\ ptr'[y] = ptr[y],
           \A y \in Actors \ {x} : slot'[y] = slot[y]
    PROVE  /\ Holds[r] # None
           /\ Holds' = [Holds EXCEPT ![r] = None]
<1> USE ActorFacts DEF SerialInv, AnyThreads, RefInv, TypeOK
<1>1. Holds[r] = ref[r] /\ \A y \in Actors : ~Fills(y, r)
  BY HoldsRef
<1>2. \A q \in Refs, y \in Actors : Fills(y, q)' <=> Fills(y, q)
  BY DEF Fills
<1>3. \A q \in Refs, y \in Actors : Fills(y, q) => ptr'[y] = ptr[y]
  BY DEF Fills
<1>4. Holds'[r] = None
  <2>1. \A y \in Actors : ~Fills(y, r)'
    BY <1>1, <1>2
  <2>2. ref'[r] = None
    OBVIOUS
  <2> QED
    BY <2>1, <2>2, HoldsNext DEF HoldsMeaning
<1>5. ASSUME NEW q \in Refs \ {r} PROVE Holds'[q] = Holds[q]
  BY <1>2, <1>3, HoldsSame
<1> QED
  BY <1>1, <1>4, <1>5, HoldsUpdate

\* Steps that the users of the storage do not see.
LEMMA InvisibleStep ==
    ASSUME SerialInv, SerialInv', NEW x \in Actors, ref' = ref,
           pc[x] # "ref", pc'[x] # "ref",
           \A y \in Actors \ {x} : pc'[y] = pc[y] /\ ptr'[y] = ptr[y],
           \A y \in Actors \ {x} : slot'[y] = slot[y]
    PROVE  Holds' = Holds
<1>1. \A q \in Refs, y \in Actors : Fills(y, q)' <=> Fills(y, q)
  BY DEF Fills
<1>2. \A q \in Refs, y \in Actors : Fills(y, q) => ptr'[y] = ptr[y]
  BY DEF Fills
<1>3. ASSUME NEW q \in Refs PROVE Holds'[q] = Holds[q]
  BY <1>1, <1>2, HoldsSame DEF SerialInv, AnyThreads
<1> QED
  BY <1>3, HoldsUnchanged

\* A user holds the instance before its Ref is constructed.
LEMMA TakeRefInvisible ==
    ASSUME SerialInv, SerialInv', NEW x \in Actors, TakeRef(x)
    PROVE  Holds' = Holds
<1> USE DEF SerialInv, AnyThreads
<1>0. None \notin Refs
  BY ConstantsAssumption
<1>1. /\ slot[x] \in Refs /\ Fills(x, slot[x]) /\ ~Fills(x, slot[x])'
      /\ ref' = [ref EXCEPT ![slot[x]] = ptr[x]] /\ ptr' = ptr /\ slot' = slot
      /\ pc' = [pc EXCEPT ![x] = "wait"]
  BY DEF TakeRef, GoTo, Fills, RefInv, SlotInv, TypeOK
<1>2. \A y \in Actors : Fills(y, slot[x]) => y = x
  BY <1>0, <1>1 DEF Fills, RefInv, SlotInv
<1>3. \A q \in Refs, y \in Actors : Fills(y, q)' => Fills(y, q)
  BY <1>1 DEF Fills, RefInv, TypeOK
<1>4. Holds[slot[x]] = ptr[x]
  BY <1>1, <1>2, HoldsIs DEF HoldsMeaning
<1>5. Holds'[slot[x]] = ptr[x]
  <2>1. \A y \in Actors : ~Fills(y, slot[x])'
    BY <1>1, <1>2, <1>3
  <2>2. Holds'[slot[x]] = ref'[slot[x]]
    BY <1>1, <2>1, HoldsNext DEF HoldsMeaning
  <2> QED
    BY <1>1, <2>2 DEF RefInv, TypeOK
<1>6. ASSUME NEW q \in Refs, q # slot[x] PROVE Holds'[q] = Holds[q]
  <2>1. ref'[q] = ref[q]
    BY <1>1, <1>6 DEF RefInv, TypeOK
  <2>2. \A y \in Actors : Fills(y, q) => Fills(y, q)'
    BY <1>1, <1>6 DEF Fills, RefInv, TypeOK
  <2> QED
    BY <1>1, <1>3, <2>1, <2>2, HoldsSame
<1> QED
  BY <1>4, <1>5, <1>6, HoldsUnchanged

\* A destructor drops what its object held.
LEMMA DestroyDrops ==
    ASSUME SerialInv, SerialInv', NEW x \in Actors, NEW c \in live, Destroy(x, c),
           pc[x] \in {"delete", "sweep"}
    PROVE  /\ c \in Refs
           /\ Holds' = [Holds EXCEPT ![c] = None]
           /\ Holds[c] # None \/ Holds' = Holds
<1> USE DEF SerialInv, AnyThreads, RefInv, TypeOK
<1>0. c \in Objs /\ c \in Refs /\ ref' = [ref EXCEPT ![c] = None] /\ c # None
  BY ActorFacts DEF Destroy
<1>1. CASE ref[c] = None
  <2>1. /\ pc'[x] # "ref"
        /\ \A y \in Actors \ {x} : pc'[y] = pc[y] /\ ptr'[y] = ptr[y] /\ slot'[y] = slot[y]
    BY <1>1 DEF Destroy, Return, AfterUnref, GoTo
  <2>2. ref' = ref
    BY <1>0, <1>1
  <2>3. Holds' = Holds
    BY <2>1, <2>2, InvisibleStep
  <2>4. Holds[c] = None
    <3>1. \A y \in Actors : ~Fills(y, c)
      BY <1>0, ActorFacts DEF Fills, SlotInv, CreatorInv, Destroy
    <3> QED
      BY <1>0, <1>1, <3>1, HoldsIs DEF HoldsMeaning
  <2>5. Holds'[c] = None /\ \A q \in Refs \ {c} : Holds'[q] = Holds[q]
    BY <2>3, <2>4
  <2>6. Holds' = [Holds EXCEPT ![c] = None]
    BY <1>0, <2>5, HoldsUpdate
  <2> QED
    BY <1>0, <2>3, <2>6
<1>2. CASE ref[c] # None
  <2>1. PICK d \in live : ref[c] = d
    BY <1>2 DEF Destroy
  <2>2. d \in Objs /\ Decrement(x, d) /\ refCount[d] > 0
    BY <1>0, <1>2, <2>1, DropPositive DEF Destroy
  <2>3. /\ pc'[x] # "ref" /\ slot' = [slot EXCEPT ![x] = None]
        /\ \A y \in Actors \ {x} : pc'[y] = pc[y] /\ ptr'[y] = ptr[y]
    BY <2>2, DecrementType
  <2>4. \A y \in Actors \ {x} : slot'[y] = slot[y]
    BY <2>3
  <2>5. Holds[c] # None /\ Holds' = [Holds EXCEPT ![c] = None]
    BY <1>0, <1>2, <2>3, <2>4, ClearDrops
  <2> QED
    BY <1>0, <2>5
<1> QED
  BY <1>1, <1>2

\* Destroying what was swept up retires an instance that nobody holds.
LEMMA SweepRetires ==
    ASSUME SerialInv, SerialInv', NEW x \in Threads, NEW k \in Keys, Sweep(x, k)
    PROVE  Registry!Retire(k)
<1>1. PICK c \in live : c = children[k] /\ Destroy(x, c)
  BY DEF Sweep
<1>2. /\ x \in Actors /\ pc[x] = "sweep" /\ refCount[c] = 0 /\ c # None
      /\ \A y \in Actors : ptr[y] # c
      /\ children' = [children EXCEPT ![k] = None]
  BY <1>1, ActorFacts DEF Sweep, SerialInv, SweepInv, AnyThreads, RefInv, TypeOK
<1>3. \A r \in Refs : ref[r] # c
  BY <1>2, NoRefTo DEF SerialInv, AnyThreads
<1>4. \A r \in Refs : Holds[r] # c
  BY <1>2, <1>3, HoldsIs DEF HoldsMeaning
<1>5. Holds' = [Holds EXCEPT ![c] = None]
  BY <1>1, <1>2, DestroyDrops
<1> QED
  BY <1>1, <1>2, <1>4, <1>5 DEF Registry!Retire, Registry!Held, InnerRef

\* Every step of the serial use is a step of the registry, or invisible in it.
LEMMA RegistryStep ==
    SerialInv /\ [Next]_vars => [Registry!Next]_(Registry!vars)
<1> SUFFICES ASSUME SerialInv, [Next]_vars PROVE [Registry!Next]_(Registry!vars)
  OBVIOUS
<1>0. SerialInv'
  BY SerialInvStep
<1>1. LookupStep => Registry!Next
  BY <1>0, LookupAcquires DEF LookupStep, Registry!Next
<1>2. CopyStep => Registry!Next
  BY <1>0, CopyShares, ActorFacts DEF CopyStep, Registry!Next
<1>3. DropStep => Registry!Next
  <2>1. SUFFICES ASSUME NEW x \in Actors, NEW r \in Refs, NEW d \in live, ref[r] = d,
                        ref' = [ref EXCEPT ![r] = None], Decrement(x, d),
                        pc[x] \in {"idle", "wait"}, UNCHANGED <<registryVars, objectVars>>
        PROVE  Registry!Next
    BY DEF DropStep
  <2>2. ref[r] # None /\ d \in Objs /\ refCount[d] > 0
    BY <2>1, ActorFacts, DropPositive DEF SerialInv, AnyThreads, RefInv, TypeOK
  <2>3. /\ pc'[x] # "ref" /\ slot' = [slot EXCEPT ![x] = None]
        /\ \A y \in Actors \ {x} : pc'[y] = pc[y] /\ ptr'[y] = ptr[y]
    BY <2>1, <2>2, DecrementType DEF SerialInv, AnyThreads, RefInv
  <2>4. \A y \in Actors \ {x} : slot'[y] = slot[y]
    BY <2>3 DEF SerialInv, AnyThreads, RefInv, TypeOK
  <2>5. Holds[r] # None /\ Holds' = [Holds EXCEPT ![r] = None]
    BY <1>0, <2>1, <2>2, <2>3, <2>4, ClearDrops
  <2>6. Registry!Drop(r)
    BY <2>1, <2>5 DEF Registry!Drop, registryVars
  <2> QED
    BY <2>6 DEF Registry!Next
<1>4. ASSUME QuietStep \/ EndCreationStep PROVE Holds' = Holds /\ children' = children
  <2>1. PICK x \in Actors :
          \/ Value(x) \/ AcquireSpinlock(x) \/ Dispose(x) \/ ReleaseSpinlock(x)
          \/ Orphaned(x)
          \/ x \in Objs /\ (CreateDone(x) \/ CreateFail(x) \/ StoreException(x))
    BY <1>4, ActorFacts DEF QuietStep, EndCreationStep
  <2>2. /\ ref' = ref /\ children' = children /\ pc[x] # "ref" /\ pc'[x] # "ref"
        /\ \A y \in Actors \ {x} : pc'[y] = pc[y] /\ ptr'[y] = ptr[y] /\ slot'[y] = slot[y]
    BY <2>1 DEF Value, AcquireSpinlock, Dispose, ReleaseSpinlock, Orphaned, Return,
       AfterUnref, GoTo, CreateDone, HasDependency, CreateFail, StoreException,
       registryVars, SerialInv, AnyThreads, RefInv, TypeOK
  <2> QED
    BY <1>0, <2>2, InvisibleStep
<1>5. ASSUME CollectionStep PROVE Holds' = Holds /\ (children' = children \/ Registry!Forget)
  <2>1. PICK x \in Threads :
          \/ StartCollect(x, FALSE) \/ StartCollect(x, TRUE) \/ MoveDisposed(x)
          \/ EndCollect(x) \/ (\E k \in Keys : Detach(x, k)) \/ EndClear(x)
    BY <1>5 DEF CollectionStep
  <2>2. /\ ref' = ref /\ pc[x] # "ref" /\ pc'[x] # "ref" /\ x \in Actors
        /\ \A y \in Actors \ {x} : pc'[y] = pc[y] /\ ptr'[y] = ptr[y] /\ slot'[y] = slot[y]
        /\ children' = children \/ EndClear(x)
    BY <2>1, ActorFacts DEF StartCollect, MoveDisposed, EndCollect, Detach, EndClear, GoTo,
       SerialInv, AnyThreads, RefInv, TypeOK
  <2>3. Holds' = Holds
    BY <1>0, <2>2, InvisibleStep
  <2>4. EndClear(x) => Registry!Forget
    BY <2>3 DEF EndClear, Registry!Forget
  <2> QED
    BY <2>2, <2>3, <2>4
<1>6. ASSUME NEW x \in Actors, TakeRef(x) PROVE Holds' = Holds /\ children' = children
  BY <1>0, <1>6, TakeRefInvisible DEF TakeRef, registryVars
<1>7. ASSUME NEW x \in Actors, DeleteThis(x)
      PROVE  children' = children /\ (Holds' = Holds \/ Registry!Next)
  <2>1. PICK c \in live : c = ptr[x] /\ Destroy(x, c)
    BY <1>7 DEF DeleteThis
  <2>2. pc[x] = "delete" /\ children' = children
    BY <1>7 DEF DeleteThis, registryVars
  <2>3. /\ c \in Refs /\ Holds' = [Holds EXCEPT ![c] = None]
        /\ Holds[c] # None \/ Holds' = Holds
    BY <1>0, <2>1, <2>2, DestroyDrops
  <2>4. Holds[c] # None => Registry!Drop(c)
    BY <2>2, <2>3 DEF Registry!Drop
  <2> QED
    BY <2>2, <2>3, <2>4 DEF Registry!Next
<1>8. ASSUME NEW x \in Threads, NEW k \in Keys, Sweep(x, k) PROVE Registry!Next
  BY <1>0, <1>8, SweepRetires DEF Registry!Next
<1>9. ASSUME UNCHANGED vars PROVE Holds' = Holds /\ children' = children
  BY <1>9 DEF vars, registryVars, Holds
<1> QED
  BY <1>1, <1>2, <1>3, <1>4, <1>5, <1>6, <1>7, <1>8, <1>9, StepCases
     DEF Registry!vars, Registry!Next

\* The storage keeps its promise: what get hands out is the one shared
\* instance of its type, and only an instance that nobody holds is given up,
\* by the collector, or forgotten by clear() and left to those who hold it.
THEOREM StorageImplementsRegistry == ASSUME OneThread PROVE Spec => ImplementsRegistry
<1>1. Init => Registry!Init
  <2>1. SUFFICES ASSUME Init PROVE Registry!Init
    OBVIOUS
  <2>2. Holds = [r \in Refs |-> None]
    BY <2>1 DEF Init, Holds
  <2> QED
    BY <2>1, <2>2 DEF Init, Registry!Init
<1> QED
  BY <1>1, RegistryStep, SerialInvAlways, PTL DEF Spec, ImplementsRegistry, Registry!Spec
=============================================================================
