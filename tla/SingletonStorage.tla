--------------------------- MODULE SingletonStorage ---------------------------
(***************************************************************************)
(* support/singleton.{hpp,cpp}: the registry of reference-counted          *)
(* singletons that every GraphQL operation shares, with its callers        *)
(* (GraphQLRequestState::getSingleton) and the std::async tasks that       *)
(* create the values.                                                      *)
(*                                                                         *)
(* An action is one atomic access to shared memory, or one critical        *)
(* section: the section of m_childrenLock in get, and each section of      *)
(* m_disposedLock, is a single step because nothing it touches is          *)
(* accessed without that lock.  The collector keeps m_childrenLock over    *)
(* many steps, as do the holders of an object's spinlock.                  *)
(*                                                                         *)
(* An object o of Objs is a BaseSingleton's address.  o also names the     *)
(* task that creates the value, and the Ref that value keeps to the        *)
(* singleton it depends on (CommonAPIBaseProxyAttribute::m_proxySingleton).*)
(* The value dies with its singleton: the shared_ptr that getSingleton     *)
(* returns is used only while the request holds the Ref.                   *)
(***************************************************************************)
EXTENDS Integers, FiniteSets

CONSTANTS
    Clients,     \* threads that get, copy and drop singletons
    Collectors,  \* threads that call garbageCollect()
    Clearers,    \* threads that call clear()
    ClientRefs,  \* the Ref objects clients own (entries of m_usedSingletons)
    Keys,        \* demangled type names
    Objs,        \* addresses of singletons
    DependsOn,   \* the key whose singleton a value needs, or None
    None

Threads == Clients \cup Collectors \cup Clearers
Actors  == Threads \cup Objs
Refs    == ClientRefs \cup Objs

ASSUME ConstantsAssumption ==
    /\ None \notin Actors \cup Refs \cup Keys
    /\ Threads \cap Objs = {}
    /\ ClientRefs \cap Objs = {}
    /\ IsFiniteSet(Refs)
    /\ DependsOn \in [Keys -> Keys \cup {None}]

VARIABLES
    children,      \* m_children: the singleton registered for a key
    disposed,      \* m_disposed
    childrenLock,  \* the collector that keeps m_childrenLock, or None
    clearing,      \* the collection in progress was started by clear()
    doomed,        \* deletedKeys that are still to be swept
    toDetach,      \* keys clear() still has to detach
    live,          \* addresses that hold an object
    keyOf,         \* the type of the object at an address
    attached,      \* objects with m_storage # nullptr
    refCount,      \* m_refCount
    value,         \* m_future: "creating", "ready" or "failed"
    spinlock,      \* m_spinlock: its holder or None
    ref,           \* Ref::m_singleton, None for a null Ref
    pc, ptr, slot, \* where an actor is, the object and the Ref it works on
    crashed        \* freed memory was used: nothing is known any more

registryVars == <<children, disposed, childrenLock, clearing, doomed, toDetach>>
objectVars   == <<live, keyOf, attached, value>>
vars == <<registryVars, objectVars, refCount, spinlock, ref, pc, ptr, slot, crashed>>

TypeOK ==
    /\ children \in [Keys -> Objs \cup {None}]
    /\ disposed \subseteq Objs
    /\ childrenLock \in Threads \cup {None}
    /\ clearing \in BOOLEAN
    /\ doomed \subseteq Keys
    /\ toDetach \subseteq Keys
    /\ live \subseteq Objs
    /\ keyOf \in [Objs -> Keys \cup {None}]
    /\ attached \subseteq Objs
    /\ refCount \in [Objs -> Nat]
    /\ value \in [Objs -> {"creating", "ready", "failed"}]
    /\ spinlock \in [Objs -> Actors \cup {None}]
    /\ ref \in [Refs -> Objs \cup {None}]
    /\ pc \in [Actors -> {"idle", "create", "ref", "wait", "lock", "check",
                          "unlock", "delete", "sweep", "detach", "throw"}]
    /\ ptr \in [Actors -> Objs \cup {None}]
    /\ slot \in [Actors -> Refs \cup {None}]
    /\ crashed \in BOOLEAN

Init ==
    /\ children = [k \in Keys |-> None]
    /\ disposed = {}
    /\ childrenLock = None
    /\ clearing = FALSE
    /\ doomed = {}
    /\ toDetach = {}
    /\ live = {}
    /\ keyOf = [o \in Objs |-> None]
    /\ attached = {}
    /\ refCount = [o \in Objs |-> 0]
    /\ value = [o \in Objs |-> "ready"]
    /\ spinlock = [o \in Objs |-> None]
    /\ ref = [r \in Refs |-> None]
    /\ pc = [x \in Actors |-> "idle"]
    /\ ptr = [x \in Actors |-> None]
    /\ slot = [x \in Actors |-> None]
    /\ crashed = FALSE

-----------------------------------------------------------------------------
(* Helpers. *)

\* An address is handed out again only when nothing remembers it: a stale
\* pointer is then always seen as dangling.
Fresh(o) ==
    /\ o \notin live \cup disposed
    /\ \A k \in Keys : children[k] # o
    /\ \A r \in Refs : ref[r] # o
    /\ \A x \in Actors : ptr[x] # o

GoTo(x, label) == pc' = [pc EXCEPT ![x] = label]

\* What an actor does once unref() has returned: the sweep goes on, a
\* creation that failed stores its exception, a client is done.
AfterUnref(x) ==
    IF x \in Objs THEN "throw"
    ELSE IF childrenLock = x THEN "sweep"
    ELSE "idle"

Return(x) ==
    /\ GoTo(x, AfterUnref(x))
    /\ ptr' = [ptr EXCEPT ![x] = None]
    /\ slot' = [slot EXCEPT ![x] = None]

\* Mutant: the last unref() returns early as well.
DecrementNeverLast(x, o) ==
    /\ refCount' = [refCount EXCEPT ![o] = @ - 1]
    /\ IF refCount[o] > 0
       THEN Return(x)
       ELSE /\ GoTo(x, "lock")
            /\ ptr' = [ptr EXCEPT ![x] = o]
            /\ slot' = [slot EXCEPT ![x] = None]

\* unref() up to its first early return: the last reference goes on to lock.
Decrement(x, o) ==
    /\ refCount' = [refCount EXCEPT ![o] = @ - 1]
    /\ IF refCount[o] > 1
       THEN Return(x)
       ELSE /\ GoTo(x, "lock")
            /\ ptr' = [ptr EXCEPT ![x] = o]
            /\ slot' = [slot EXCEPT ![x] = None]

\* The destructor of o: its value drops the Ref it keeps, if any, and the
\* fields of o are forgotten with its memory.
Destroy(x, o) ==
    /\ value[o] # "creating"      \* ~future joins the std::async task
    /\ live' = live \ {o}
    /\ attached' = attached \ {o}
    /\ keyOf' = [keyOf EXCEPT ![o] = None]
    /\ value' = [value EXCEPT ![o] = "ready"]
    /\ spinlock' = [spinlock EXCEPT ![o] = None]
    /\ ref' = [ref EXCEPT ![o] = None]
    /\ IF ref[o] = None
       THEN Return(x) /\ UNCHANGED refCount
       ELSE ref[o] \in live /\ Decrement(x, ref[o])

-----------------------------------------------------------------------------
(* Looking a singleton up. *)

\* Mutant: the singleton found stays where the collector looks for garbage.
RecycleNothing(o) == UNCHANGED disposed

\* SingletonStorage::recycle()
Recycle(o) == disposed' = disposed \ {o}

\* Find the key and recycle its singleton, or register a new one whose
\* creation starts at once.
Lookup(x, k, r) ==
    /\ childrenLock = None
    /\ slot' = [slot EXCEPT ![x] = r]
    /\ \/ /\ children[k] # None
          /\ Recycle(children[k])
          /\ ptr' = [ptr EXCEPT ![x] = children[k]]
          /\ GoTo(x, "ref")
          /\ UNCHANGED <<children, objectVars, refCount, spinlock>>
       \/ /\ children[k] = None
          /\ \E o \in Objs :
               /\ Fresh(o)
               /\ pc[o] = "idle"
               /\ children' = [children EXCEPT ![k] = o]
               /\ live' = live \cup {o}
               /\ attached' = attached \cup {o}
               /\ keyOf' = [keyOf EXCEPT ![o] = k]
               /\ value' = [value EXCEPT ![o] = "creating"]
               /\ refCount' = [refCount EXCEPT ![o] = 0]
               /\ spinlock' = [spinlock EXCEPT ![o] = None]
               /\ ptr' = [ptr EXCEPT ![x] = o]
               /\ pc' = [pc EXCEPT ![x] = "ref", ![o] = "create"]
          /\ UNCHANGED disposed
    /\ UNCHANGED <<childrenLock, clearing, doomed, toDetach, ref, crashed>>

Filling(r) == \E x \in Actors : slot[x] = r

\* getSingleton on a key the request has not used yet.
Get(x, k, r) ==
    /\ ~crashed
    /\ pc[x] = "idle"
    /\ ref[r] = None /\ ~Filling(r)
    /\ Lookup(x, k, r)

\* The creation of a value first gets the singleton it depends on.
CreatorGet(o) ==
    /\ ~crashed
    /\ pc[o] = "create"
    /\ DependsOn[keyOf[o]] # None
    /\ Lookup(o, DependsOn[keyOf[o]], o)

\* The constructor of Ref; get has dropped m_childrenLock by then.
TakeRef(x) ==
    /\ ~crashed
    /\ pc[x] = "ref" /\ ptr[x] \in live
    /\ refCount' = [refCount EXCEPT ![ptr[x]] = @ + 1]
    /\ ref' = [ref EXCEPT ![slot[x]] = ptr[x]]
    /\ GoTo(x, "wait")
    /\ UNCHANGED <<registryVars, objectVars, spinlock, ptr, slot, crashed>>

\* Mutant: the copy constructor of Ref does not count.
CopyRefUncounted(x, r, s) ==
    /\ ~crashed
    /\ pc[x] = "idle"
    /\ ref[r] \in live
    /\ ref[s] = None /\ ~Filling(s)
    /\ ref' = [ref EXCEPT ![s] = ref[r]]
    /\ ptr' = [ptr EXCEPT ![x] = ref[r]]
    /\ slot' = [slot EXCEPT ![x] = s]
    /\ GoTo(x, "wait")
    /\ UNCHANGED <<registryVars, objectVars, refCount, spinlock, crashed>>

\* getSingleton on a key the request already uses: a copy of the Ref.
CopyRef(x, r, s) ==
    /\ ~crashed
    /\ pc[x] = "idle"
    /\ ref[r] \in live
    /\ ref[s] = None /\ ~Filling(s)
    /\ refCount' = [refCount EXCEPT ![ref[r]] = @ + 1]
    /\ ref' = [ref EXCEPT ![s] = ref[r]]
    /\ ptr' = [ptr EXCEPT ![x] = ref[r]]
    /\ slot' = [slot EXCEPT ![x] = s]
    /\ GoTo(x, "wait")
    /\ UNCHANGED <<registryVars, objectVars, spinlock, crashed>>

\* Mutant: the request goes on before the value is there.
ValueWithoutWait(x) ==
    /\ ~crashed
    /\ x \in Clients
    /\ pc[x] = "wait" /\ ptr[x] \in live
    /\ GoTo(x, "idle")
    /\ ptr' = [ptr EXCEPT ![x] = None]
    /\ slot' = [slot EXCEPT ![x] = None]
    /\ UNCHANGED <<registryVars, objectVars, refCount, spinlock, ref, crashed>>

\* value() returns, or throws what the creation threw: either way the Ref
\* stays with the request.
Value(x) ==
    /\ ~crashed
    /\ x \in Clients
    /\ pc[x] = "wait" /\ ptr[x] \in live
    /\ value[ptr[x]] # "creating"
    /\ GoTo(x, "idle")
    /\ ptr' = [ptr EXCEPT ![x] = None]
    /\ slot' = [slot EXCEPT ![x] = None]
    /\ UNCHANGED <<registryVars, objectVars, refCount, spinlock, ref, crashed>>

-----------------------------------------------------------------------------
(* The std::async task that creates the value of o. *)

\* Mutant: the exception of the dependency is not passed on.
HasFailedDependency(o) ==
    \/ pc[o] = "create" /\ DependsOn[keyOf[o]] = None
    \/ pc[o] = "wait" /\ ptr[o] \in live /\ value[ptr[o]] # "creating"

\* The task has what it needs: no dependency, or one that is ready.
HasDependency(o) ==
    \/ pc[o] = "create" /\ DependsOn[keyOf[o]] = None
    \/ pc[o] = "wait" /\ ptr[o] \in live /\ value[ptr[o]] = "ready"

CreateDone(o) ==
    /\ ~crashed
    /\ HasDependency(o)
    /\ value' = [value EXCEPT ![o] = "ready"]
    /\ GoTo(o, "idle")
    /\ ptr' = [ptr EXCEPT ![o] = None]
    /\ slot' = [slot EXCEPT ![o] = None]
    /\ UNCHANGED <<registryVars, live, keyOf, attached, refCount, spinlock, ref, crashed>>

\* An independent creation fails: the proxy is not available.
CreateFail(o) ==
    /\ ~crashed
    /\ pc[o] = "create" /\ DependsOn[keyOf[o]] = None
    /\ GoTo(o, "throw")
    /\ UNCHANGED <<registryVars, objectVars, refCount, spinlock, ref, ptr, slot, crashed>>

\* The dependency failed, or fetching the first value did: unwinding drops
\* the Ref to the dependency.
CreateUnwind(o) ==
    /\ ~crashed
    /\ pc[o] = "wait" /\ ptr[o] \in live /\ value[ptr[o]] # "creating"
    /\ ref' = [ref EXCEPT ![o] = None]
    /\ Decrement(o, ptr[o])
    /\ UNCHANGED <<registryVars, objectVars, spinlock, crashed>>

\* Mutant: the exception leaves the task without reaching the future.
StoreNothing(o) ==
    /\ ~crashed
    /\ pc[o] = "throw"
    /\ GoTo(o, "idle")
    /\ UNCHANGED <<registryVars, objectVars, refCount, spinlock, ref, ptr, slot, crashed>>

StoreException(o) ==
    /\ ~crashed
    /\ pc[o] = "throw"
    /\ value' = [value EXCEPT ![o] = "failed"]
    /\ GoTo(o, "idle")
    /\ UNCHANGED <<registryVars, live, keyOf, attached, refCount, spinlock, ref,
                   ptr, slot, crashed>>

-----------------------------------------------------------------------------
(* Dropping a reference: BaseSingleton::unref(). *)

Release(x, r) ==
    /\ ~crashed
    /\ pc[x] = "idle"
    /\ ref[r] \in live /\ ~Filling(r)
    /\ ref' = [ref EXCEPT ![r] = None]
    /\ Decrement(x, ref[r])
    /\ UNCHANGED <<registryVars, objectVars, spinlock, crashed>>

AcquireSpinlock(x) ==
    /\ ~crashed
    /\ pc[x] = "lock" /\ ptr[x] \in live
    /\ spinlock[ptr[x]] = None
    /\ spinlock' = [spinlock EXCEPT ![ptr[x]] = x]
    /\ GoTo(x, "check")
    /\ UNCHANGED <<registryVars, objectVars, refCount, ref, ptr, slot, crashed>>

\* The storage still exists: wait in m_disposed for the next collection.
Dispose(x) ==
    /\ ~crashed
    /\ pc[x] = "check" /\ ptr[x] \in live
    /\ ptr[x] \in attached
    /\ disposed' = disposed \cup {ptr[x]}
    /\ GoTo(x, "unlock")
    /\ UNCHANGED <<children, childrenLock, clearing, doomed, toDetach, objectVars,
                   refCount, spinlock, ref, ptr, slot, crashed>>

ReleaseSpinlock(x) ==
    /\ ~crashed
    /\ pc[x] = "unlock" /\ ptr[x] \in live
    /\ spinlock' = [spinlock EXCEPT ![ptr[x]] = None]
    /\ Return(x)
    /\ UNCHANGED <<registryVars, objectVars, refCount, ref, crashed>>

\* Mutant: an object that was detached is left to nobody.
OrphanedForgotten(x) ==
    /\ ~crashed
    /\ pc[x] = "check" /\ ptr[x] \in live
    /\ ptr[x] \notin attached
    /\ spinlock' = [spinlock EXCEPT ![ptr[x]] = None]
    /\ Return(x)
    /\ UNCHANGED <<registryVars, objectVars, refCount, ref, crashed>>

\* The object was detached by clear(): nobody else will delete it.
Orphaned(x) ==
    /\ ~crashed
    /\ pc[x] = "check" /\ ptr[x] \in live
    /\ ptr[x] \notin attached
    /\ spinlock' = [spinlock EXCEPT ![ptr[x]] = None]
    /\ GoTo(x, "delete")
    /\ UNCHANGED <<registryVars, objectVars, refCount, ref, ptr, slot, crashed>>

DeleteThis(x) ==
    /\ ~crashed
    /\ pc[x] = "delete" /\ ptr[x] \in live
    /\ Destroy(x, ptr[x])
    /\ UNCHANGED <<registryVars, crashed>>

-----------------------------------------------------------------------------
(* Collecting: garbageCollect() and clear(). *)

StartCollect(x, clear) ==
    /\ ~crashed
    /\ pc[x] = "idle"
    /\ childrenLock = None
    /\ childrenLock' = x
    /\ clearing' = clear
    /\ GoTo(x, "sweep")
    /\ UNCHANGED <<children, disposed, doomed, toDetach, objectVars, refCount, spinlock,
                   ref, ptr, slot, crashed>>

\* The disposed singletons that are still registered.
Garbage == {k \in Keys : children[k] \in disposed}

\* moveDisposedToDeleteKeysUnlocked, when it finds something to delete.
MoveDisposed(x) ==
    /\ ~crashed
    /\ pc[x] = "sweep" /\ doomed = {}
    /\ Garbage # {}
    /\ doomed' = Garbage
    /\ disposed' = {}
    /\ UNCHANGED <<children, childrenLock, clearing, toDetach, objectVars, refCount,
                   spinlock, ref, pc, ptr, slot, crashed>>

\* garbageCollectInternalUnlocked, one singleton.  Destroying one may
\* dispose the one it depends on, which the next round finds.
Sweep(x, k) ==
    /\ ~crashed
    /\ pc[x] = "sweep" /\ k \in doomed
    /\ children[k] \in live
    /\ Destroy(x, children[k])
    /\ doomed' = doomed \ {k}
    /\ children' = [children EXCEPT ![k] = None]
    /\ UNCHANGED <<disposed, childrenLock, clearing, toDetach, crashed>>

\* Mutant: clear() forgets the singletons without detaching them.
EndCollectUndetached(x) ==
    /\ ~crashed
    /\ pc[x] = "sweep" /\ doomed = {} /\ Garbage = {}
    /\ disposed' = {}
    /\ IF clearing
       THEN GoTo(x, "detach") /\ UNCHANGED childrenLock
       ELSE GoTo(x, "idle") /\ childrenLock' = None
    /\ UNCHANGED <<children, clearing, doomed, toDetach, objectVars, refCount, spinlock,
                   ref, ptr, slot, crashed>>

\* The round found nothing: garbageCollect() returns, clear() goes on.
EndCollect(x) ==
    /\ ~crashed
    /\ pc[x] = "sweep" /\ doomed = {} /\ Garbage = {}
    /\ disposed' = {}
    /\ IF clearing
       THEN /\ toDetach' = {k \in Keys : children[k] # None}
            /\ GoTo(x, "detach")
            /\ UNCHANGED <<childrenLock, clearing>>
       ELSE /\ childrenLock' = None
            /\ GoTo(x, "idle")
            /\ UNCHANGED <<toDetach, clearing>>
    /\ UNCHANGED <<children, doomed, objectVars, refCount, spinlock, ref, ptr, slot, crashed>>

\* Mutant: detach() does not reset m_storage.
DetachNothing(x, k) ==
    /\ ~crashed
    /\ pc[x] = "detach" /\ k \in toDetach
    /\ children[k] \in live
    /\ spinlock[children[k]] = None
    /\ toDetach' = toDetach \ {k}
    /\ UNCHANGED <<children, disposed, childrenLock, clearing, doomed, objectVars,
                   refCount, spinlock, ref, pc, ptr, slot, crashed>>

\* detach() waits for an unref() that is inside the object's spinlock.
Detach(x, k) ==
    /\ ~crashed
    /\ pc[x] = "detach" /\ k \in toDetach
    /\ children[k] \in live
    /\ spinlock[children[k]] = None
    /\ attached' = attached \ {children[k]}
    /\ toDetach' = toDetach \ {k}
    /\ UNCHANGED <<children, disposed, childrenLock, clearing, doomed, live, keyOf, value,
                   refCount, spinlock, ref, pc, ptr, slot, crashed>>

EndClear(x) ==
    /\ ~crashed
    /\ pc[x] = "detach" /\ toDetach = {}
    /\ children' = [k \in Keys |-> None]
    /\ childrenLock' = None
    /\ clearing' = FALSE
    /\ GoTo(x, "idle")
    /\ UNCHANGED <<disposed, doomed, toDetach, objectVars, refCount, spinlock, ref,
                   ptr, slot, crashed>>

-----------------------------------------------------------------------------
(* Using freed memory. *)

Dangling(p) == p # None /\ p \notin live

\* A Ref, or an actor in the middle of a call, uses an object that was
\* freed: nothing the program does afterwards is defined.
UseAfterFree ==
    /\ ~crashed
    /\ \/ \E r \in Refs : Dangling(ref[r])
       \/ \E x \in Actors : Dangling(ptr[x])
    /\ crashed' = TRUE
    /\ UNCHANGED <<registryVars, objectVars, refCount, spinlock, ref, pc, ptr, slot>>

\* No step is taken after undefined behaviour.
Halted == crashed /\ UNCHANGED vars

ClientStep(x) ==
    \/ \E k \in Keys, r \in ClientRefs : Get(x, k, r)
    \/ \E r, s \in ClientRefs : CopyRef(x, r, s)
    \/ \E r \in ClientRefs : Release(x, r)

UnrefStep(x) ==
    \/ AcquireSpinlock(x)
    \/ Dispose(x)
    \/ ReleaseSpinlock(x)
    \/ Orphaned(x)
    \/ DeleteThis(x)

CreatorStep(o) ==
    \/ CreatorGet(o)
    \/ CreateDone(o)
    \/ CreateFail(o)
    \/ CreateUnwind(o)
    \/ StoreException(o)

CollectStep(x) ==
    \/ MoveDisposed(x)
    \/ \E k \in Keys : Sweep(x, k)
    \/ EndCollect(x)
    \/ \E k \in Keys : Detach(x, k)
    \/ EndClear(x)

Next ==
    \/ \E x \in Clients : ClientStep(x)
    \/ \E x \in Collectors : StartCollect(x, FALSE)
    \/ \E x \in Clearers : StartCollect(x, TRUE)
    \/ \E x \in Actors : TakeRef(x) \/ Value(x) \/ UnrefStep(x)
    \/ \E o \in Objs : CreatorStep(o)
    \/ \E x \in Threads : CollectStep(x)
    \/ UseAfterFree
    \/ Halted

Spec == Init /\ [][Next]_vars

\* The steps that may not be postponed for ever: a thread inside a call goes
\* on, std::async runs its task.  Clients and the owners of the storage are
\* free to stop calling it.
Fairness ==
    /\ \A x \in Actors : WF_vars(TakeRef(x) \/ Value(x) \/ UnrefStep(x))
                         /\ SF_vars(AcquireSpinlock(x))
    /\ \A o \in Objs : WF_vars(CreatorStep(o)) /\ SF_vars(CreatorGet(o))
    /\ \A x \in Threads : WF_vars(CollectStep(x))
    /\ WF_vars(UseAfterFree)

FairSpec == Spec /\ Fairness

-----------------------------------------------------------------------------
(* Safety. *)

\* An actor is about to give o to the storage, to delete it or to refer to it.
Pending(o) ==
    \E x \in Actors : ptr[x] = o /\ pc[x] \in {"ref", "lock", "check", "delete"}

\* m_refCount is the number of Ref objects that point to the singleton,
\* whatever the interleaving of gets, copies, releases and collections.
RefCountExact ==
    \A o \in live : refCount[o] = Cardinality({r \in Refs : ref[r] = o})

\* A registered singleton that nobody refers to is not forgotten: it waits in
\* m_disposed or in the sweep in progress, or the thread that dropped its last
\* Ref (or is about to take one) is still inside unref (or get).
NothingStranded ==
    \A o \in live \cap attached :
        refCount[o] = 0 =>
            \/ o \in disposed
            \/ keyOf[o] \in doomed
            \/ Pending(o)

\* All gets of a key share one instance, until clear() detaches it: the
\* storage never registers a second one while the first is still attached.
OneInstance ==
    \A o \in live \cap attached : children[keyOf[o]] = o

\* What m_disposed and a sweep hold was created before it was dropped, so the
\* collector, which joins the creation task while it keeps m_childrenLock,
\* never waits for a task that needs that lock.
NeverCollectUnfinished ==
    /\ \A o \in disposed \cap live : value[o] # "creating"
    /\ \A k \in doomed : value[children[k]] # "creating"

\* assert(itr.second->refCount() == 0) of moveDisposedToDeleteKeysUnlocked.
DisposedAreUnreferenced ==
    \A x \in Threads : pc[x] = "sweep" /\ doomed = {} =>
        \A k \in Garbage : refCount[children[k]] = 0

\* assert(disposedCount == toBeDisposed) of the same function.
DisposedAreRegistered ==
    \A x \in Threads : pc[x] = "sweep" /\ doomed = {} =>
        \A o \in disposed : \E k \in Keys : children[k] = o

\* While only one thread uses the storage, no pointer leads to a singleton that
\* was deleted: not the Ref to its proxy which an attribute drops in the middle of
\* a collection, not what get() takes back from the list of the collector, and not
\* the pointer of a creation that runs beside them.  With several users it does
\* not hold: the collector may delete what get() has found and not yet counted.
NoUseAfterFree == ~crashed

\* An object that clear() detached is deleted by whoever drops it last.
NoOrphanLeaks ==
    \A o \in live \ attached : refCount[o] = 0 => Pending(o)

\* The value of a singleton keeps the singleton it depends on.
DependencyOutlives ==
    \A o \in live :
        value[o] = "ready" /\ DependsOn[keyOf[o]] # None =>
            ref[o] \in live /\ value[ref[o]] = "ready"

-----------------------------------------------------------------------------
(* Liveness. *)

\* A collection ends: the collector gives m_childrenLock back whatever
\* creations and releases are in progress.
CollectionEnds == (childrenLock # None) ~> (childrenLock = None \/ crashed)

\* Whoever waits for a value gets it or the exception of its creation.
EveryGetReturns ==
    \A x \in Clients : (pc[x] = "ref") ~> (pc[x] = "idle" \/ crashed)
-----------------------------------------------------------------------------
(* The promise made to the users of the storage. *)

\* A user holds what get returned to it, also before its Ref is constructed.
Holds ==
    [r \in Refs |->
        IF \E x \in Actors : pc[x] = "ref" /\ slot[x] = r
        THEN ptr[CHOOSE x \in Actors : pc[x] = "ref" /\ slot[x] = r]
        ELSE ref[r]]

InnerRef(o) == o

Registry == INSTANCE SingletonRegistry
            WITH Users <- Refs, Inner <- InnerRef, instance <- children, holds <- Holds

\* One shared instance per type that is given up only when nobody holds it:
\* every step of the storage is one of SingletonRegistry, or invisible in it.
ImplementsRegistry == Registry!Spec
=============================================================================
