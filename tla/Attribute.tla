------------------------------- MODULE Attribute -------------------------------
(***************************************************************************)
(* One attribute of support/commonapi-singletons.hpp: a value in a remote  *)
(* service, and the object of this process that stands for it.  Its class  *)
(* is the value of the variable kind:                                      *)
(*                                                                         *)
(*    "always"  CommonAPIAlwaysGetValueProxyAttribute, nothing is cached   *)
(*    "cached"  CommonAPICachedProxyAttribute, refreshed by hand           *)
(*    "only"    CommonAPISubscriptionOnlyProxyAttribute, follows events    *)
(*    "full"    CommonAPISubscriptionProxyAttribute, follows events and    *)
(*              fetches the value once more when it is constructed         *)
(*    "broadcast"     CommonAPIBroadcastSubscriptionProxyAttribute, keeps  *)
(*                    the last event                                       *)
(*    "accumulative"  CommonAPIAccumulativeUniqueEventSubscription...,     *)
(*                    keeps the last event of each topic                   *)
(*                                                                         *)
(* Four kinds of threads meet in it: the task that constructs it, the      *)
(* helper thread that waits for the first event, CommonAPI's dispatcher,   *)
(* and the users, who only get it once it is constructed.                  *)
(*                                                                         *)
(* CommonAPI and the service are external: the service sends the events of *)
(* its changes in order, CommonAPI dispatches one at a time, and           *)
(* unsubscribe() drops what waits but not a callback in progress.  For the *)
(* last two classes a change is an event that is fired, and the number of  *)
(* changes is its name.  What the signal of the attribute sets off is in   *)
(* Subscription.                                                           *)
(***************************************************************************)
EXTENDS Integers, Sequences

CONSTANTS
    Kinds,       \* the classes to look at
    Refreshed,   \* the classes whose users call refreshValue()
    Users,       \* threads that use the attribute
    MaxVersion,  \* bound: the remote value changes that often
    Topic(_),    \* findPredicate: events of one topic replace each other
    None

ASSUME AttributeAssumption ==
    /\ Kinds \subseteq {"always", "cached", "only", "full", "broadcast", "accumulative"}
    /\ Kinds # {}
    /\ MaxVersion \in Nat
    /\ Refreshed \subseteq {"cached", "only", "full"}
    /\ None \notin Users \cup Nat

VARIABLES
    \* the service and CommonAPI
    remote,      \* the value in the service: the number of its changes
    events,      \* events that wait to be dispatched to the attribute
    callback,    \* where the callback of subscribeChanges() is
    event,       \* the value it was called with
    \* the attribute
    kind,        \* its class
    value,       \* m_value, None until it is assigned
    collected,   \* m_value of the class that accumulates: a set of events
    missed,      \* how many changes were before the subscription to events
    proxy,       \* the proxy of the attribute exists
    lock,        \* who holds the spin lock: a user, or None
    subscribed,  \* m_subscription has a value
    answered,    \* subscriptionAnswered
    \* threads
    ctor,        \* where the construction is
    fetched,     \* what it fetched
    helper,      \* where the helper thread is
    pc,          \* where a user is
    response     \* what the service told a user

remoteVars == <<remote, events>>
callbackVars == <<callback, event>>
eventVars == <<collected, missed, proxy>>
attributeVars == <<kind, value, lock, subscribed, answered, eventVars>>
ctorVars == <<ctor, fetched, helper>>
userVars == <<pc, response>>
vars == <<remoteVars, callbackVars, attributeVars, ctorVars, userVars>>

Versions == 0 .. MaxVersion

Flags == subscribed \in BOOLEAN /\ answered \in BOOLEAN /\ proxy \in BOOLEAN

TypeOK ==
    /\ Flags
    /\ remote \in Versions
    /\ events \in Seq(Versions)
    /\ callback \in {"idle", "test", "notify", "set", "process"}
    /\ event \in Versions \cup {None}
    /\ event = None <=> callback = "idle"
    /\ kind \in Kinds
    /\ value \in Versions \cup {None}
    /\ collected \subseteq Versions
    /\ missed \in Versions
    /\ lock \in Users \cup {None}
    /\ \A u \in Users : lock = u <=> pc[u] \in {"change", "changed", "reading"}
    /\ ctor \in {"new", "subscribe", "join", "fetch", "store", "unwind", "attach", "base",
                 "ready", "leave", "failed", "gone", "aborted"}
    /\ fetched \in Versions \cup {None}
    /\ helper \in {"none", "started", "waiting", "done"}
    /\ pc \in [Users -> {"idle", "refreshed", "change", "changed", "reading"}]
    /\ response \in [Users -> Versions \cup {None}]

Init ==
    /\ remote = 0
    /\ events = <<>>
    /\ callback = "idle"
    /\ event = None
    /\ kind \in Kinds
    /\ value = None
    /\ collected = {}
    /\ missed = 0
    /\ proxy = TRUE
    /\ lock = None
    /\ subscribed = FALSE
    /\ answered = FALSE
    /\ ctor = "new"
    /\ fetched = None
    /\ helper = "none"
    /\ pc = [u \in Users |-> "idle"]
    /\ response = [u \in Users |-> None]

Readable == kind # "always"
Caches   == kind \in {"cached", "only", "full"}
Follows  == kind \in {"only", "full"}
Collects == kind \in {"broadcast", "accumulative"}
Alive    == ctor \notin {"failed", "gone", "aborted"}

-----------------------------------------------------------------------------
(* The service. *)

\* The value changes, and who has subscribed will be told.
Change ==
    /\ remote < MaxVersion
    /\ remote' = remote + 1
    /\ events' = IF subscribed /\ proxy THEN Append(events, remote + 1) ELSE events

\* A change by anybody else.
RemoteChange ==
    /\ Change
    /\ UNCHANGED <<callbackVars, attributeVars, ctorVars, userVars>>

-----------------------------------------------------------------------------
(* The construction. *)

\* The constructors of the classes without events leave m_value alone;
\* subscribeChanges() of those that follow a value starts its helper thread.
Construct ==
    /\ ctor = "new"
    /\ ctor' = CASE Follows -> "subscribe" [] Collects -> "attach" [] OTHER -> "ready"
    /\ helper' = IF Follows THEN "started" ELSE helper
    /\ UNCHANGED <<remoteVars, callbackVars, attributeVars, fetched, userVars>>

\* getChangedEvent().subscribe(): the service may send the value it has.
Subscribe ==
    /\ ctor = "subscribe"
    /\ ctor' = "join"
    /\ subscribed' = TRUE
    /\ events' \in {<<>>, <<remote>>}
    /\ UNCHANGED <<remote, callbackVars, kind, eventVars, value, lock, answered,
                   fetched, helper, userVars>>

\* The helper thread gets to its wait_for().
HelperWaits ==
    /\ helper = "started"
    /\ helper' = "waiting"
    /\ UNCHANGED <<remoteVars, callbackVars, attributeVars, ctor, fetched, userVars>>

\* Mutant: wait() in place of wait_for().
WaitForEver == FALSE /\ UNCHANGED vars

\* The wait times out, or ends for no reason: it has no predicate, and the
\* helper thread does the same either way.
HelperTimesOut ==
    /\ helper = "waiting"
    /\ helper' = "done"
    /\ UNCHANGED <<remoteVars, callbackVars, attributeVars, ctor, fetched, userVars>>

\* Mutant: a subscription that was not answered is kept.
KeepSubscription == UNCHANGED <<subscribed, events>>

\* unsubscribeChanges()
UnsubscribeChanges ==
    /\ subscribed' = FALSE
    /\ events' = <<>>

\* subscribeChanges() joins the helper thread; without a first event it
\* unsubscribes and the construction fails.
Join ==
    /\ ctor = "join" /\ helper = "done"
    /\ IF answered
          THEN /\ ctor' = IF kind = "full" THEN "fetch" ELSE "ready"
               /\ UNCHANGED <<subscribed, events>>
          ELSE /\ ctor' = "failed"
               /\ UnsubscribeChanges
    /\ UNCHANGED <<remote, callbackVars, kind, eventVars, value, lock, answered,
                   fetched, helper, userVars>>

\* refreshValueUnlocked() of the constructor: the remote value is fetched,
\* or the call fails and the base class, already constructed, is destroyed.
CtorFetch ==
    /\ ctor = "fetch"
    /\ \/ ctor' = "store" /\ fetched' = remote
       \/ ctor' = "unwind" /\ UNCHANGED fetched
    /\ UNCHANGED <<remoteVars, callbackVars, attributeVars, helper, userVars>>

\* ... and stored, without the lock, whatever the callback does meanwhile.
CtorStore ==
    /\ ctor = "store"
    /\ ctor' = "ready"
    /\ value' = fetched
    /\ UNCHANGED <<remoteVars, callbackVars, kind, eventVars, lock, subscribed,
                   answered, fetched, helper, userVars>>

\* ~CommonAPISubscriptionOnlyProxyAttribute() takes the lock to unsubscribe.
Destructor ==
    /\ lock = None
    /\ IF Follows THEN UnsubscribeChanges ELSE UNCHANGED <<subscribed, events>>
    /\ UNCHANGED <<remote, callbackVars, kind, eventVars, value, lock, answered,
                   fetched, helper, userVars>>

CtorUnwind ==
    /\ ctor = "unwind"
    /\ Destructor
    /\ ctor' = "failed"

\* The last Ref of its singleton is dropped and collected: no user is left.
Destroy ==
    /\ ctor = "ready" /\ ~Collects
    /\ \A u \in Users : pc[u] = "idle"
    /\ Destructor
    /\ ctor' = "gone"

\* CommonAPIEventSubscriptionProxyAttribute, the base class of the event
\* attributes, subscribes in its constructor ...
Attach ==
    /\ ctor = "attach"
    /\ ctor' = "base"
    /\ subscribed' = TRUE
    /\ missed' = remote
    /\ UNCHANGED <<remoteVars, callbackVars, kind, value, lock, answered, collected,
                   proxy,
                   fetched, helper, userVars>>

\* ... and then the class itself is constructed.
Derive ==
    /\ ctor = "base"
    /\ ctor' = "ready"
    /\ UNCHANGED <<remoteVars, callbackVars, attributeVars, fetched, helper, userVars>>

\* m_proxySingleton is a reference to the Ref that create() had: once that is
\* gone nothing of the attribute keeps the proxy from being collected, and
\* with it go the events.
ProxyCollected ==
    /\ Collects /\ ctor = "ready" /\ proxy
    /\ proxy' = FALSE
    /\ events' = <<>>
    /\ UNCHANGED <<remote, callbackVars, kind, value, lock, subscribed, answered,
                   collected, missed,
                   ctorVars, userVars>>

\* The destructors of an event attribute: the class goes first, ...
DestroyDerived ==
    /\ ctor = "ready" /\ Collects
    /\ \A u \in Users : pc[u] = "idle"
    /\ ctor' = "leave"
    /\ UNCHANGED <<remoteVars, callbackVars, attributeVars, fetched, helper, userVars>>

\* ... and then the base class unsubscribes, from whatever is left of a proxy
\* that was collected.
DestroyBase ==
    /\ ctor = "leave"
    /\ ctor' = "gone" \/ (~proxy /\ ctor' = "aborted")
    /\ UnsubscribeChanges
    /\ UNCHANGED <<remote, callbackVars, kind, eventVars, value, lock, answered,
                   fetched, helper,
                   userVars>>

CtorStep ==
    \/ Construct \/ Subscribe \/ Join
    \/ CtorFetch \/ CtorStore \/ CtorUnwind
    \/ Attach \/ Derive

DestructorStep == Destroy \/ DestroyDerived \/ DestroyBase

HelperStep == HelperWaits \/ HelperTimesOut

-----------------------------------------------------------------------------
(* The callback, on CommonAPI's dispatcher. *)

Dispatch ==
    /\ callback = "idle" /\ events # <<>>
    /\ callback' = IF Collects THEN "process" ELSE "test"
    /\ event' = Head(events)
    /\ events' = Tail(events)
    /\ UNCHANGED <<remote, attributeVars, ctorVars, userVars>>

\* The first event marks the subscription as answered ...
CallbackTest ==
    /\ callback = "test" /\ Alive
    /\ callback' = IF answered THEN "set" ELSE "notify"
    /\ answered' = TRUE
    /\ UNCHANGED <<remoteVars, event, kind, eventVars, value, lock, subscribed,
                   ctorVars, userVars>>

\* ... and wakes the helper thread if that waits already.
CallbackNotify ==
    /\ callback = "notify" /\ Alive
    /\ callback' = "set"
    /\ helper' = IF helper = "waiting" THEN "done" ELSE helper
    /\ UNCHANGED <<remoteVars, event, attributeVars, ctor, fetched, userVars>>

\* Mutant: the value is assigned without the lock.
SetValueUnlocked(v) == value' = v /\ UNCHANGED <<kind, eventVars, lock, subscribed,
                                                 answered>>

\* setValue(): one critical section of the lock.
SetValue(v) ==
    /\ lock = None
    /\ value' = v
    /\ UNCHANGED <<kind, eventVars, lock, subscribed, answered>>

CallbackSet ==
    /\ callback = "set" /\ Alive
    /\ SetValue(event)
    /\ callback' = "idle"
    /\ event' = None
    /\ UNCHANGED <<remoteVars, ctorVars, userVars>>

\* processEvent() of the class that accumulates: the event replaces the first
\* one of its topic that it finds.
Accumulate(e) ==
    LET same == {o \in collected : Topic(o) = Topic(e)}
    IN IF same = {}
       THEN collected' = collected \cup {e}
       ELSE \E o \in same : collected' = (collected \ {o}) \cup {e}

\* processEvent(): one critical section of the lock.
ProcessEvent ==
    /\ callback = "process" /\ ctor = "ready"
    /\ lock = None
    /\ IF kind = "broadcast"
       THEN value' = event /\ UNCHANGED collected
       ELSE Accumulate(event) /\ UNCHANGED value
    /\ callback' = "idle"
    /\ event' = None
    /\ UNCHANGED <<remoteVars, kind, lock, subscribed, answered, missed, proxy,
                   ctorVars, userVars>>

\* While only the base class exists its processEvent() is pure virtual, and
\* calling it ends the process.
ProcessPureVirtual ==
    /\ callback = "process" /\ ctor \in {"base", "leave"}
    /\ ctor' = "aborted"
    /\ callback' = "idle"
    /\ event' = None
    /\ UnsubscribeChanges
    /\ UNCHANGED <<remote, kind, eventVars, value, lock, answered, fetched, helper,
                   userVars>>

\* A callback that was in progress when the attribute was destroyed goes on
\* in memory that was freed; the model lets it end.
CallbackOnFreed ==
    /\ callback # "idle" /\ ~Alive
    /\ callback' = "idle"
    /\ event' = None
    /\ UNCHANGED <<remoteVars, attributeVars, ctorVars, userVars>>

CallbackStep ==
    \/ Dispatch \/ CallbackTest \/ CallbackNotify \/ CallbackSet
    \/ ProcessEvent \/ ProcessPureVirtual
    \/ CallbackOnFreed

-----------------------------------------------------------------------------
(* The users. *)

\* refreshValue() fetches first, without the lock.
RefreshFetch(u) ==
    /\ ctor = "ready" /\ kind \in Refreshed /\ pc[u] = "idle"
    /\ pc' = [pc EXCEPT ![u] = "refreshed"]
    /\ response' = [response EXCEPT ![u] = remote]
    /\ UNCHANGED <<remoteVars, callbackVars, attributeVars, ctorVars>>

\* ... and stores what it got under the lock.
RefreshStore(u) ==
    /\ pc[u] = "refreshed"
    /\ SetValue(response[u])
    /\ pc' = [pc EXCEPT ![u] = "idle"]
    /\ response' = [response EXCEPT ![u] = None]
    /\ UNCHANGED <<remoteVars, callbackVars, ctorVars>>

\* Mutant: the lock is not kept over the call.
MutateWithoutLock(u) ==
    /\ ctor = "ready" /\ Caches /\ pc[u] = "idle"
    /\ pc' = [pc EXCEPT ![u] = "change"]
    /\ UNCHANGED <<remoteVars, callbackVars, attributeVars, ctorVars, response>>

\* mutateValue() of an attribute with a cache keeps the lock over the call.
MutateLock(u) ==
    /\ ctor = "ready" /\ Caches /\ pc[u] = "idle"
    /\ lock = None
    /\ lock' = u
    /\ pc' = [pc EXCEPT ![u] = "change"]
    /\ UNCHANGED <<remoteVars, callbackVars, kind, eventVars, value, subscribed,
                   answered, ctorVars, response>>

\* changeValue(): the service takes the value and answers with it.
MutateChange(u) ==
    /\ pc[u] = "change"
    /\ Change
    /\ pc' = [pc EXCEPT ![u] = "changed"]
    /\ response' = [response EXCEPT ![u] = remote']
    /\ UNCHANGED <<callbackVars, attributeVars, ctorVars>>

\* Mutant: the exception leaves the lock taken.
MutateFailsLocked(u) ==
    /\ pc[u] = "change"
    /\ pc' = [pc EXCEPT ![u] = "idle"]
    /\ UNCHANGED <<remoteVars, callbackVars, attributeVars, ctorVars, response>>

\* changeValue() throws; the call may have been carried out all the same.
MutateFails(u) ==
    /\ pc[u] = "change"
    /\ Change \/ UNCHANGED remoteVars
    /\ lock' = None
    /\ pc' = [pc EXCEPT ![u] = "idle"]
    /\ UNCHANGED <<callbackVars, kind, eventVars, value, subscribed, answered,
                   ctorVars, response>>

MutateStore(u) ==
    /\ pc[u] = "changed"
    /\ value' = response[u]
    /\ lock' = None
    /\ pc' = [pc EXCEPT ![u] = "idle"]
    /\ response' = [response EXCEPT ![u] = None]
    /\ UNCHANGED <<remoteVars, callbackVars, kind, eventVars, subscribed, answered,
                   ctorVars>>

\* mutateValue() of an attribute without a cache is the call alone.
MutateUncached(u) ==
    /\ ctor = "ready" /\ kind = "always" /\ pc[u] = "idle"
    /\ Change
    /\ UNCHANGED <<callbackVars, attributeVars, ctorVars, userVars>>

\* getValue() keeps the lock while its caller looks at the value.
ReadLock(u) ==
    /\ ctor = "ready" /\ Readable /\ pc[u] = "idle"
    /\ lock = None
    /\ lock' = u
    /\ pc' = [pc EXCEPT ![u] = "reading"]
    /\ UNCHANGED <<remoteVars, callbackVars, kind, eventVars, value, subscribed,
                   answered, ctorVars, response>>

ReadEnd(u) ==
    /\ pc[u] = "reading"
    /\ lock' = None
    /\ pc' = [pc EXCEPT ![u] = "idle"]
    /\ UNCHANGED <<remoteVars, callbackVars, kind, eventVars, value, subscribed,
                   answered, ctorVars, response>>

UserStep(u) ==
    \/ RefreshFetch(u) \/ RefreshStore(u)
    \/ MutateLock(u) \/ MutateChange(u) \/ MutateFails(u) \/ MutateStore(u)
    \/ MutateUncached(u)
    \/ ReadLock(u) \/ ReadEnd(u)

-----------------------------------------------------------------------------
Next ==
    \/ RemoteChange
    \/ CtorStep \/ DestructorStep
    \/ ProxyCollected
    \/ HelperStep
    \/ CallbackStep
    \/ \E u \in Users : UserStep(u)

Spec == Init /\ [][Next]_vars

\* The construction and the helper thread go on by themselves, and CommonAPI
\* gives up a call that the service does not answer.  Nothing is assumed of
\* the dispatcher, of the service, or of who wins the spin lock: the
\* construction meets no user.
Fairness == WF_vars(CtorStep) /\ WF_vars(HelperStep)

FairSpec == Spec /\ Fairness

-----------------------------------------------------------------------------
(* Safety. *)

\* Constructed, and every event the service sent has been worked through.
Quiet == ctor = "ready" /\ events = <<>> /\ callback = "idle"

\* The class whose value comes from events and mutations alone.
Listener == kind = "only" /\ kind \notin Refreshed

\* The events after the subscription that no later one of their topic follows.
LastOfTopics ==
    {v \in missed + 1 .. remote : \A w \in v + 1 .. remote : Topic(w) # Topic(v)}

\* The attributes that only listen to events, and are not refreshed by hand
\* beside that, are never stuck at an old value.  One that follows a value is
\* current although mutateValue() stores what the service answered while the
\* events of older and of newer changes are on their way: the lock it keeps
\* over the call puts every later event after it.  An event attribute has the
\* last event, or the last of each topic, as long as its proxy exists.
QuietIsCurrent ==
    Quiet =>
        /\ Listener => value = remote
        /\ kind = "broadcast" /\ proxy => value = (IF remote = missed THEN None ELSE remote)
        /\ kind = "accumulative" /\ proxy => collected = LastOfTopics

\* While somebody looks at the value through getValue() nobody replaces it:
\* neither a callback, nor an event, nor a refresh, nor a mutation.
ReadIsStable ==
    [][\A u \in Users : pc[u] = "reading" /\ pc'[u] = "reading" =>
           value' = value /\ collected' = collected]_vars

\* CommonAPI never has the callback of an attribute that is gone: all ways
\* out, the timeout, the exception of the first fetch and the destructors,
\* unsubscribe before the memory is freed.
SubscribedIsAlive == subscribed \/ events # <<>> => Alive

\* The comment of CommonAPICachedProxyAttribute names
\* CommonAPISubscriptionProxyAttribute as the class that tracks changes: once
\* the events have come, its value is the one of the service.
SubscriptionTracks == kind = "full" /\ Quiet => value = remote

-----------------------------------------------------------------------------
(* Liveness. *)

\* The construction returns or throws, even when the first event comes before
\* the helper thread waits for it, or never: whoever waits for the singleton
\* of the attribute does not wait for ever.
ConstructionEnds ==
    (ctor \in {"subscribe", "attach"}) ~> (ctor \in {"ready", "failed", "aborted"})
=============================================================================
