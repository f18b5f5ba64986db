------------------------------ MODULE Subscription ------------------------------
(***************************************************************************)
(* The subscriptions of protocol/graphqlconnectionoperation.cpp with the   *)
(* notifications of protocol/graphqlserver.cpp: each subscription has a    *)
(* thread of its own, and the main thread decides when it resolves again.  *)
(*                                                                         *)
(*    attribute changes -> signal -> notify() -> defer -> merge by name    *)
(*      -> 1 ms timer -> schema.deliver() -> onFutureSubscription()        *)
(*      -> rate limit timer -> resolve in the thread -> onReply            *)
(*                                                                         *)
(* The schema is external: subscribe() hands out a new key, deliver()      *)
(* calls back every subscription of a name, unsubscribe() forgets a key.   *)
(* All subscriptions observe one attribute, and a resolver connects to its *)
(* signal before it reads it, as getSingleton() does.                      *)
(*                                                                         *)
(* STOP, the end of a connection and stopListening() call the same stop(). *)
(* How replies reach the client, and that m_handlers is usable until       *)
(* stop() has returned, is in Connection.                                  *)
(***************************************************************************)
EXTENDS Integers, Sequences, FiniteSets

CONSTANTS
    Ops,         \* GraphQLConnectionOperationSubscription objects
    Name(_),     \* the root field an operation subscribes to
    UnsetKeys,   \* what m_subscriptionKey may hold before it is assigned
    MayFail,     \* those the schema may refuse, or whose token may lack a permission
    Interval,    \* m_intervalBetweenDeliveries
    MaxVersion,  \* the attribute changes that often
    None,
    Error        \* a response that only has errors

ASSUME SubscriptionAssumption ==
    /\ UnsetKeys \subseteq Nat /\ UnsetKeys # {}
    /\ MayFail \subseteq Ops
    /\ Interval \in Nat
    /\ MaxVersion \in Nat
    /\ None \notin Ops \cup Nat
    /\ Error \notin Nat \cup {None}

VARIABLES
    \* the schema
    issued,      \* the key an operation was given, or None
    registered,  \* operations the schema delivers to
    nextKey,     \* the next key to give out
    \* an operation
    key,         \* m_subscriptionKey
    stopped,     \* operations with m_stopped
    jobs,        \* what waits in m_thread
    pc,          \* where the thread of an operation is
    response,    \* what the job in progress is about to reply
    checked,     \* operations with m_didPermissionsCheck
    failed,      \* operations with m_failedPermissionsCheck
    timer,       \* m_deliveryTimer: time left, or None
    since,       \* time since m_lastDelivery, up to Interval
    delivered,   \* the last version replied, or None
    refused,     \* operations whose subscribe() threw a schema_exception
    \* the main thread
    tasks,       \* handlers deferred to the main thread
    pending,     \* m_pendingNotifyTriggers: keys by name
    notifyTimer, \* m_notifyTimer is set
    stopping,    \* the operation whose stop() joins its thread, or None
    ended,       \* operations whose stop() has returned
    \* the attribute
    version,     \* its value
    emitting,    \* slots the signal of the last change has still to call
    connected    \* operations connected to the signal

schemaVars == <<issued, registered, nextKey>>
opVars     == <<key, stopped, jobs, pc, response, checked, failed, timer, since, delivered, refused>>
mainVars   == <<tasks, pending, notifyTimer, stopping, ended>>
signalVars == <<version, emitting, connected>>
vars == <<schemaVars, opVars, mainVars, signalVars>>

Names == {Name(op) : op \in Ops}

Tasks ==
    [do : {"notify"}, name : Names, key : Nat]
    \cup [do : {"stop"}, op : Ops]

TypeOK ==
    /\ issued \in [Ops -> Nat \cup {None}]
    /\ registered \subseteq Ops
    /\ nextKey \in Nat
    /\ key \in [Ops -> Nat \cup {None}]
    /\ stopped \subseteq Ops
    /\ jobs \in [Ops -> Seq({"subscribe", "resolve", "unsubscribe"})]
    /\ pc \in [Ops -> {"new", "idle", "subscribe", "assign", "refuse", "observe", "read",
                       "recheck", "reply"}]
    /\ response \in [Ops -> Nat \cup {Error, None}]
    /\ checked \subseteq Ops
    /\ failed \subseteq Ops
    /\ timer \in [Ops -> (0 .. Interval) \cup {None}]
    /\ since \in [Ops -> 0 .. Interval]
    /\ delivered \in [Ops -> Nat \cup {None}]
    /\ refused \subseteq Ops
    /\ tasks \in Seq(Tasks)
    /\ pending \in [Names -> SUBSET Nat]
    /\ notifyTimer \in BOOLEAN
    /\ stopping \in Ops \cup {None}
    /\ ended \subseteq Ops
    /\ version \in Nat
    /\ emitting \subseteq Ops
    /\ connected \subseteq Ops

Init ==
    /\ issued = [op \in Ops |-> None]
    /\ registered = {}
    /\ nextKey = 0
    /\ key = [op \in Ops |-> None]
    /\ stopped = {}
    /\ jobs = [op \in Ops |-> <<>>]
    /\ pc = [op \in Ops |-> "new"]
    /\ response = [op \in Ops |-> None]
    /\ checked = {}
    /\ failed = {}
    /\ timer = [op \in Ops |-> None]
    /\ since = [op \in Ops |-> Interval]
    /\ delivered = [op \in Ops |-> None]
    /\ refused = {}
    /\ tasks = <<>>
    /\ pending = [n \in Names |-> {}]
    /\ notifyTimer = FALSE
    /\ stopping = None
    /\ ended = {}
    /\ version = 0
    /\ emitting = {}
    /\ connected = {}

-----------------------------------------------------------------------------
(* Helpers. *)

\* The main thread is free to run the next handler.
Idle == stopping = None

Running(op) == pc[op] # "new" /\ op \notin stopped

GoTo(op, label) == pc' = [pc EXCEPT ![op] = label]

\* The job in progress returns.
Finish(op) ==
    /\ GoTo(op, "idle")
    /\ response' = [response EXCEPT ![op] = None]

\* GraphQLConnectionOperationSubscription::notify()
Notify(op, k) == tasks' = Append(tasks, [do |-> "notify", name |-> Name(op), key |-> k])

\* Mutant: std::min for std::max, nothing is left to wait.
RemainingNothing(op) == 0

\* Mutant: without std::max, when the last delivery is longer ago than the
\* interval.
RemainingUnclamped(op) == IF since[op] = Interval THEN -1 ELSE Interval - since[op]

\* calculateTimeRemainingToDeliver(): m_lastDelivery starts long ago.
Remaining(op) == Interval - since[op]

-----------------------------------------------------------------------------
(* The life of an operation, on the main thread. *)

\* The constructor leaves m_subscriptionKey uninitialized: its value is what
\* the memory holds, which may be a key that the schema gives out.  start().
Start(op) ==
    /\ Idle
    /\ pc[op] = "new"
    /\ \E k \in UnsetKeys : key' = [key EXCEPT ![op] = k]
    /\ GoTo(op, "idle")
    /\ jobs' = [jobs EXCEPT ![op] = Append(@, "subscribe")]
    /\ UNCHANGED <<schemaVars, stopped, response, checked, failed, timer, since,
                   delivered, refused, mainVars, signalVars>>

\* Mutant: the timer is not reset.
BeginStopWithTimer(op) ==
    /\ stopped' = stopped \cup {op}
    /\ jobs' = [jobs EXCEPT ![op] = Append(@, "unsubscribe")]
    /\ stopping' = op
    /\ UNCHANGED timer

\* stop() up to m_thread.join()
BeginStop(op) ==
    /\ stopped' = stopped \cup {op}
    /\ timer' = [timer EXCEPT ![op] = None]
    /\ jobs' = [jobs EXCEPT ![op] = Append(@, "unsubscribe")]
    /\ stopping' = op

\* STOP, the end of the connection or of the server.
Stop(op) ==
    /\ Idle
    /\ Running(op)
    /\ BeginStop(op)
    /\ UNCHANGED <<schemaVars, key, pc, response, checked, failed, since, delivered, refused,
                   tasks, pending, notifyTimer, ended, signalVars>>

\* m_thread has run all its jobs, and will run no other.
Joined(op) ==
    /\ stopping = op
    /\ jobs[op] = <<>> /\ pc[op] = "idle"
    /\ stopping' = None
    /\ ended' = ended \cup {op}
    /\ UNCHANGED <<schemaVars, opVars, tasks, pending, notifyTimer, signalVars>>

\* A permission failed: the operation deferred its own stop().
RunStop ==
    /\ Idle
    /\ tasks # <<>> /\ Head(tasks).do = "stop"
    /\ tasks' = Tail(tasks)
    /\ LET op == Head(tasks).op IN
       IF op \in stopped
       THEN UNCHANGED <<stopped, timer, jobs, stopping>>
       ELSE BeginStop(op)
    /\ UNCHANGED <<schemaVars, key, pc, response, checked, failed, since, delivered, refused,
                   pending, notifyTimer, ended, signalVars>>

-----------------------------------------------------------------------------
(* Notifications, on the main thread. *)

\* Mutant: "don't reschedule!" comes before the triggers are merged.
MergeTriggersUnlessScheduled ==
    /\ Idle
    /\ tasks # <<>> /\ Head(tasks).do = "notify"
    /\ tasks' = Tail(tasks)
    /\ pending' = IF notifyTimer
                  THEN pending
                  ELSE [pending EXCEPT ![Head(tasks).name] = @ \cup {Head(tasks).key}]
    /\ notifyTimer' = TRUE
    /\ UNCHANGED <<schemaVars, opVars, stopping, ended, signalVars>>

\* notifyInMainThread()
MergeTriggers ==
    /\ Idle
    /\ tasks # <<>> /\ Head(tasks).do = "notify"
    /\ tasks' = Tail(tasks)
    /\ pending' = [pending EXCEPT ![Head(tasks).name] = @ \cup {Head(tasks).key}]
    /\ notifyTimer' = TRUE
    /\ UNCHANGED <<schemaVars, opVars, stopping, ended, signalVars>>

\* shouldDispatchCurrentDelivery(), for an operation the schema calls back.
Triggered(op) == op \in registered /\ key[op] \in pending[Name(op)]

\* onFutureSubscription() of an operation, the timer it leaves: one that runs
\* is not set again.
OnFutureSubscription(op) ==
    IF Triggered(op) /\ op \notin stopped /\ timer[op] = None
    THEN Remaining(op)
    ELSE timer[op]

\* deliverNotifications(): the schema calls every operation back.
DeliverNotifications ==
    /\ Idle
    /\ notifyTimer
    /\ notifyTimer' = FALSE
    /\ pending' = [n \in Names |-> {}]
    /\ timer' = [op \in Ops |-> OnFutureSubscription(op)]
    /\ UNCHANGED <<schemaVars, key, stopped, jobs, pc, response, checked, failed, since,
                   delivered, refused, tasks, stopping, ended, signalVars>>

\* dispatchPendingDelivery()
DispatchPendingDelivery(op) ==
    /\ Idle
    /\ timer[op] = 0
    /\ since' = [since EXCEPT ![op] = 0]
    /\ timer' = [timer EXCEPT ![op] = None]
    /\ jobs' = [jobs EXCEPT ![op] = Append(@, "resolve")]
    /\ UNCHANGED <<schemaVars, key, stopped, pc, response, checked, failed, delivered, refused,
                   mainVars, signalVars>>

\* Time passes; a timer that expired may have to wait for the main thread.
Tick ==
    /\ \E op \in Ops : since[op] < Interval \/ timer[op] \in 1 .. Interval
    /\ since' = [op \in Ops |-> IF since[op] < Interval THEN since[op] + 1 ELSE Interval]
    /\ timer' = [op \in Ops |-> IF timer[op] \in 1 .. Interval THEN timer[op] - 1 ELSE timer[op]]
    /\ UNCHANGED <<schemaVars, key, stopped, jobs, pc, response, checked, failed, delivered,
                   refused, mainVars, signalVars>>

-----------------------------------------------------------------------------
(* The thread of an operation. *)

\* subscribeInAThread() and resolveSubscriptionInAThread() do nothing when
\* the operation was stopped before them.
Begin(op, job, label) ==
    /\ pc[op] = "idle"
    /\ jobs[op] # <<>> /\ Head(jobs[op]) = job
    /\ jobs' = [jobs EXCEPT ![op] = Tail(@)]
    /\ IF op \in stopped THEN UNCHANGED pc ELSE GoTo(op, label)
    /\ UNCHANGED <<schemaVars, key, stopped, response, checked, failed, timer, since,
                   delivered, refused, mainVars, signalVars>>

Subscribe(op) ==
    /\ pc[op] = "subscribe"
    /\ issued' = [issued EXCEPT ![op] = nextKey]
    /\ registered' = registered \cup {op}
    /\ nextKey' = nextKey + 1
    /\ GoTo(op, "assign")
    /\ UNCHANGED <<key, stopped, jobs, response, checked, failed, timer, since, delivered,
                   refused, mainVars, signalVars>>

\* Mutant: the key is what the schema gave out last.
AssignLastKey(op) ==
    /\ pc[op] = "assign"
    /\ key' = [key EXCEPT ![op] = nextKey - 1]
    /\ Notify(op, nextKey - 1)
    /\ GoTo(op, "idle")
    /\ UNCHANGED <<schemaVars, stopped, jobs, response, checked, failed, timer, since,
                   delivered, refused, pending, notifyTimer, stopping, ended, signalVars>>

\* What subscribe() returned is kept, and the operation notifies itself once.
AssignKey(op) ==
    /\ pc[op] = "assign"
    /\ key' = [key EXCEPT ![op] = issued[op]]
    /\ Notify(op, issued[op])
    /\ GoTo(op, "idle")
    /\ UNCHANGED <<schemaVars, stopped, jobs, response, checked, failed, timer, since,
                   delivered, refused, pending, notifyTimer, stopping, ended, signalVars>>

\* subscribe() throws a schema_exception: its errors are the response.
SubscribeThrows(op) ==
    /\ pc[op] = "subscribe" /\ op \in MayFail
    /\ refused' = refused \cup {op}
    /\ GoTo(op, "refuse")
    /\ UNCHANGED <<schemaVars, key, stopped, jobs, response, checked, failed, timer, since,
                   delivered, mainVars, signalVars>>

RefuseSubscription(op) ==
    /\ pc[op] = "refuse"
    /\ IF op \in stopped
       THEN Finish(op)
       ELSE /\ GoTo(op, "recheck")
            /\ response' = [response EXCEPT ![op] = Error]
    /\ UNCHANGED <<schemaVars, key, stopped, jobs, checked, failed, timer, since, delivered,
                   refused, mainVars, signalVars>>

\* The first resolver to get the attribute connects the operation to its
\* signal.
Observe(op) ==
    /\ pc[op] = "observe"
    /\ connected' = connected \cup {op}
    /\ GoTo(op, "read")
    /\ UNCHANGED <<schemaVars, key, stopped, jobs, response, checked, failed, timer, since,
                   delivered, refused, mainVars, version, emitting>>

\* validate() throws in the resolver before it gets the attribute.
PermissionFails(op) ==
    /\ pc[op] = "observe" /\ op \in MayFail \ checked
    /\ failed' = failed \cup {op}
    /\ response' = [response EXCEPT ![op] = Error]
    /\ GoTo(op, "recheck")
    /\ UNCHANGED <<schemaVars, key, stopped, jobs, checked, timer, since, delivered, refused,
                   mainVars, signalVars>>

\* getValue() waits for the lock under which a change is signalled.
Read(op) ==
    /\ pc[op] = "read"
    /\ emitting = {}
    /\ response' = [response EXCEPT ![op] = version]
    /\ GoTo(op, "recheck")
    /\ UNCHANGED <<schemaVars, key, stopped, jobs, checked, failed, timer, since, delivered,
                   refused, mainVars, signalVars>>

Recheck(op) ==
    /\ pc[op] = "recheck"
    /\ IF op \in stopped THEN Finish(op) ELSE GoTo(op, "reply") /\ UNCHANGED response
    /\ UNCHANGED <<schemaVars, key, stopped, jobs, checked, failed, timer, since, delivered,
                   refused, mainVars, signalVars>>

\* Mutant: the reply is handed over to a main thread that has to take it.
ReplyHandedOver(op) ==
    /\ pc[op] = "reply"
    /\ Idle
    /\ delivered' = [delivered EXCEPT ![op] = IF response[op] = Error THEN @ ELSE response[op]]
    /\ checked' = checked \cup {op}
    /\ Finish(op)
    /\ UNCHANGED <<schemaVars, key, stopped, jobs, failed, timer, since, refused, mainVars, signalVars>>

\* onReply(DATA), then stop() is deferred if a permission failed.
Reply(op) ==
    /\ pc[op] = "reply"
    /\ delivered' = [delivered EXCEPT ![op] = IF response[op] = Error THEN @ ELSE response[op]]
    /\ IF op \in failed
       THEN /\ tasks' = Append(tasks, [do |-> "stop", op |-> op])
            /\ UNCHANGED checked
       ELSE /\ checked' = checked \cup {op}
            /\ UNCHANGED tasks
    /\ Finish(op)
    /\ UNCHANGED <<schemaVars, key, stopped, jobs, failed, timer, since, refused, pending,
                   notifyTimer, stopping, ended, signalVars>>

\* unsubscribeInAThread(): whatever key the operation has is unsubscribed.
Unsubscribe(op) ==
    /\ pc[op] = "idle"
    /\ jobs[op] # <<>> /\ Head(jobs[op]) = "unsubscribe"
    /\ jobs' = [jobs EXCEPT ![op] = Tail(@)]
    /\ connected' = connected \ {op}
    /\ registered' = {q \in registered : issued[q] # key[op]}
    /\ UNCHANGED <<issued, nextKey, key, stopped, pc, response, checked, failed, timer, since,
                   delivered, refused, mainVars, version, emitting>>

-----------------------------------------------------------------------------
(* The attribute, on the thread that CommonAPI calls back on. *)

\* setValue() stores the value and signals it, with its lock held.
SetValue ==
    /\ version < MaxVersion
    /\ emitting = {}
    /\ version' = version + 1
    /\ emitting' = Ops
    /\ UNCHANGED <<schemaVars, opVars, mainVars, connected>>

\* The slot of an operation, if it is connected when its turn comes.
EmitSlot(op) ==
    /\ op \in emitting
    /\ emitting' = emitting \ {op}
    /\ IF op \in connected THEN Notify(op, key[op]) ELSE UNCHANGED tasks
    /\ UNCHANGED <<schemaVars, opVars, pending, notifyTimer, stopping, ended, version, connected>>

-----------------------------------------------------------------------------
ClientStep == \E op \in Ops : Start(op) \/ Stop(op)

TaskStep == RunStop \/ MergeTriggers

ThreadStep(op) ==
    \/ Begin(op, "subscribe", "subscribe")
    \/ Subscribe(op)
    \/ SubscribeThrows(op)
    \/ RefuseSubscription(op)
    \/ AssignKey(op)
    \/ Begin(op, "resolve", "observe")
    \/ Observe(op)
    \/ PermissionFails(op)
    \/ Read(op)
    \/ Recheck(op)
    \/ Reply(op)
    \/ Unsubscribe(op)

\* Every subscription is served and its clients are silent.
Quiet ==
    /\ Idle /\ tasks = <<>> /\ ~notifyTimer /\ emitting = {}
    /\ \A op \in Ops : pc[op] \in {"new", "idle"} /\ jobs[op] = <<>> /\ timer[op] = None
    /\ UNCHANGED vars

Next ==
    \/ ClientStep
    \/ TaskStep
    \/ DeliverNotifications
    \/ \E op \in Ops : DispatchPendingDelivery(op) \/ Joined(op) \/ ThreadStep(op) \/ EmitSlot(op)
    \/ SetValue
    \/ Tick
    \/ Quiet

Spec == Init /\ [][Next]_vars

\* The io_service runs what is deferred and the timers that expired, each
\* thread its jobs, and time passes: while any of them has something to do,
\* one does it.  That is less than fairness to each, and enough, as none can be
\* busy for ever: clients and the attribute, which may be silent, start and
\* change things finitely often.
Progress ==
    \/ TaskStep
    \/ DeliverNotifications
    \/ Tick
    \/ \E op \in Ops : DispatchPendingDelivery(op) \/ Joined(op) \/ ThreadStep(op) \/ EmitSlot(op)

FairSpec == Spec /\ WF_vars(Progress)

-----------------------------------------------------------------------------
(* Safety. *)

\* When stop() returns nothing is left of a subscription, wherever it was
\* interrupted: its thread runs the unsubscription after what it had to do,
\* and main waits for that.
StoppedIsUnregistered ==
    \A op \in ended :
        /\ op \notin registered \cup connected
        /\ jobs[op] = <<>> /\ pc[op] = "idle"
        /\ timer[op] = None

\* The schema delivers to a subscription until it is stopped itself, wherever
\* others are stopped, with one exception: an operation that was stopped before
\* it got a key unsubscribes whatever m_subscriptionKey was before, and that may
\* be the key of another one.
OnlyUnsetKeysForget ==
    \A op \in Ops :
        issued[op] # None /\ op \notin stopped \cup registered =>
            \E q \in stopped : issued[q] = None /\ key[q] = issued[op]

\* The README: an operation is kept until the end of the subscription, and has
\* its responses delivered; so the schema delivers to a subscription until it
\* is stopped, and stopping another one does not end it.
ActiveIsRegistered ==
    \A op \in Ops : issued[op] # None /\ op \notin stopped => op \in registered

\* The client asked for at most one delivery per interval: however the
\* notifications come, none is dispatched earlier.
RateLimited ==
    [][\A op \in Ops : Len(jobs'[op]) > Len(jobs[op]) /\ jobs'[op][Len(jobs'[op])] = "resolve"
                          => since[op] = Interval]_vars

-----------------------------------------------------------------------------
(* Liveness. *)

\* No change is lost: a subscription that is served ends up with the last
\* value, over the merging of notifications, both timers and the resolutions
\* that are in progress.  One that the schema has forgotten is not served any
\* more: it was stopped, or it is what OnlyUnsetKeysForget speaks of.
LastChangeArrives ==
    \A op \in Ops :
        (issued[op] # None /\ version = MaxVersion)
            ~> (op \in stopped \/ op \notin registered \/ delivered[op] = MaxVersion)

\* stop() returns: the thread it joins does not wait for the main thread.
StopReturns == (stopping # None) ~> (stopping = None)

\* The comment of subscribeInAThread(): after a schema_exception the
\* subscription stops.
SchemaErrorStops == \A op \in Ops : (op \in refused) ~> (op \in stopped)
=============================================================================
