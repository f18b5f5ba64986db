--------------------------- MODULE SubscriptionProofs ---------------------------
(***************************************************************************)
(* Proofs about Subscription, for any number of operations, any interval   *)
(* and any number of changes.                                              *)
(***************************************************************************)
EXTENDS Subscription, SequenceTheorems, TLAPS

USE SubscriptionAssumption

\* The keys of the operations: one that was started has one, and one that the
\* schema knows has its own.
KeyInv ==
    /\ \A op \in Ops : IF pc[op] = "new" THEN issued[op] = None ELSE key[op] \in Nat
    /\ \A op \in Ops : pc[op] = "assign" => issued[op] \in Nat
    /\ \A op \in Ops : issued[op] # None /\ pc[op] # "assign" => key[op] = issued[op]
    /\ \A op \in registered : issued[op] # None
    /\ \A op \in connected : pc[op] # "new"

\* The argument about stop(): the last job of an operation that was stopped is
\* its unsubscription, and once there is no job left, nothing else is left of it.
StopInv ==
    /\ \A op \in Ops : pc[op] = "new" => jobs[op] = <<>> /\ timer[op] = None
    /\ stopping \in stopped \cup {None}
    /\ ended \subseteq stopped
    /\ \A op \in ended : jobs[op] = <<>>
    /\ \A op \in stopped :
          /\ timer[op] = None
          /\ pc[op] # "new"
          /\ jobs[op] = <<>> => pc[op] = "idle" /\ op \notin registered \cup connected
          /\ jobs[op] # <<>> => jobs[op][Len(jobs[op])] = "unsubscribe"

\* Only an operation that was started stops itself.
TasksInv ==
    \A i \in 1 .. Len(tasks) : tasks[i].do = "stop" => pc[tasks[i].op] # "new"

\* The timer leaves out nothing of the interval that the last delivery began.
TimerInv ==
    \A op \in Ops : timer[op] # None => timer[op] + since[op] >= Interval

\* The inductive invariant.
SubscriptionInv == TypeOK /\ KeyInv /\ StopInv /\ TasksInv /\ TimerInv

-----------------------------------------------------------------------------
(* Types. *)

Jobs == {"subscribe", "resolve", "unsubscribe"}

\* What the main thread takes from its tasks.
LEMMA HeadOfTasks ==
  ASSUME TypeOK, tasks # <<>>
  PROVE  /\ Tail(tasks) \in Seq(Tasks)
         /\ Head(tasks).do = "notify" => Head(tasks).name \in Names /\ Head(tasks).key \in Nat
         /\ Head(tasks).do = "stop" => Head(tasks).op \in Ops
  <1>1. Head(tasks) \in Tasks /\ Tail(tasks) \in Seq(Tasks)
    BY DEF TypeOK
  <1> QED
    BY <1>1 DEF Tasks

\* notify() defers a task.
LEMMA NotifyTypes ==
  ASSUME TypeOK, NEW op \in Ops, NEW k \in Nat, Notify(op, k)
  PROVE  tasks' \in Seq(Tasks)
  <1>1. [do |-> "notify", name |-> Name(op), key |-> k] \in Tasks
    BY DEF Tasks, Names
  <1> QED
    BY <1>1 DEF Notify, TypeOK

\* stop() up to the join.
LEMMA BeginStopTypes ==
  ASSUME TypeOK, NEW op \in Ops, BeginStop(op)
  PROVE  /\ stopped' \subseteq Ops
         /\ timer' \in [Ops -> (0 .. Interval) \cup {None}]
         /\ jobs' \in [Ops -> Seq(Jobs)]
         /\ stopping' \in Ops \cup {None}
  <1>1. Append(jobs[op], "unsubscribe") \in Seq(Jobs)
    BY DEF TypeOK, Jobs
  <1> QED
    BY <1>1 DEF BeginStop, TypeOK, Jobs

\* Types after the steps of the main thread ...
LEMMA TypeMain ==
  ASSUME TypeOK,
         \/ \E op \in Ops : Start(op) \/ Stop(op) \/ DispatchPendingDelivery(op) \/ Joined(op)
         \/ RunStop \/ MergeTriggers \/ DeliverNotifications
  PROVE  TypeOK'
  <1> USE DEF schemaVars, opVars, mainVars, signalVars
  <1>1. ASSUME NEW op \in Ops, Start(op) PROVE TypeOK'
    <2>1. Append(jobs[op], "subscribe") \in Seq(Jobs)
      BY DEF TypeOK, Jobs
    <2>2. jobs' \in [Ops -> Seq(Jobs)] /\ key' \in [Ops -> Nat \cup {None}]
      BY <1>1, <2>1 DEF Start, TypeOK, Jobs
    <2> QED
      BY <1>1, <2>2 DEF Start, GoTo, TypeOK, Jobs
  <1>2. ASSUME NEW op \in Ops, Stop(op) PROVE TypeOK'
    BY <1>2, BeginStopTypes DEF Stop, TypeOK, Jobs
  <1>3. ASSUME NEW op \in Ops, DispatchPendingDelivery(op) PROVE TypeOK'
    <2>1. Append(jobs[op], "resolve") \in Seq(Jobs)
      BY DEF TypeOK, Jobs
    <2>2. jobs' \in [Ops -> Seq(Jobs)] /\ since' \in [Ops -> 0 .. Interval]
      BY <1>3, <2>1 DEF DispatchPendingDelivery, TypeOK, Jobs
    <2> QED
      BY <1>3, <2>2 DEF DispatchPendingDelivery, TypeOK, Jobs
  <1>4. ASSUME NEW op \in Ops, Joined(op) PROVE TypeOK'
    BY <1>4 DEF Joined, TypeOK
  <1>5. CASE RunStop
    <2> DEFINE op == Head(tasks).op
    <2>1. op \in Ops /\ tasks' \in Seq(Tasks)
      BY <1>5, HeadOfTasks DEF RunStop
    <2>2. CASE op \in stopped
      BY <1>5, <2>1, <2>2 DEF RunStop, TypeOK
    <2>3. CASE op \notin stopped
      BY <1>5, <2>1, <2>3, BeginStopTypes DEF RunStop, TypeOK, Jobs
    <2> QED
      BY <2>2, <2>3
  <1>6. CASE MergeTriggers
    <2>1. /\ tasks' \in Seq(Tasks)
          /\ Head(tasks).name \in Names /\ Head(tasks).key \in Nat
      BY <1>6, HeadOfTasks DEF MergeTriggers
    <2>2. pending' \in [Names -> SUBSET Nat]
      BY <1>6, <2>1 DEF MergeTriggers, TypeOK
    <2> QED
      BY <1>6, <2>1, <2>2 DEF MergeTriggers, TypeOK
  <1>7. CASE DeliverNotifications
    <2>1. \A op \in Ops : OnFutureSubscription(op) \in (0 .. Interval) \cup {None}
      BY DEF OnFutureSubscription, Remaining, TypeOK
    <2>2. timer' \in [Ops -> (0 .. Interval) \cup {None}]
      BY <1>7, <2>1 DEF DeliverNotifications
    <2> QED
      BY <1>7, <2>2 DEF DeliverNotifications, TypeOK
  <1> QED
    BY <1>1, <1>2, <1>3, <1>4, <1>5, <1>6, <1>7

\* ... of the thread of an operation ...
LEMMA TypeThread ==
  ASSUME TypeOK, KeyInv, NEW op \in Ops, ThreadStep(op)
  PROVE  TypeOK'
  <1> USE DEF schemaVars, opVars, mainVars, signalVars, GoTo, Finish
  <1>1. ASSUME NEW job \in Jobs, NEW label \in {"subscribe", "observe"}, Begin(op, job, label)
        PROVE  TypeOK'
    <2>1. Tail(jobs[op]) \in Seq(Jobs)
      BY <1>1 DEF Begin, TypeOK, Jobs
    <2>2. jobs' \in [Ops -> Seq(Jobs)]
      BY <1>1, <2>1 DEF Begin, TypeOK, Jobs
    <2> QED
      BY <1>1, <2>2 DEF Begin, TypeOK, Jobs
  <1>2. CASE Subscribe(op)
    BY <1>2 DEF Subscribe, TypeOK
  <1>3. CASE SubscribeThrows(op) \/ RefuseSubscription(op) \/ Observe(op) \/ Recheck(op)
    BY <1>3 DEF SubscribeThrows, RefuseSubscription, Observe, Recheck, TypeOK
  <1>4. CASE AssignKey(op)
    <2>1. issued[op] \in Nat
      BY <1>4 DEF AssignKey, KeyInv
    <2>2. tasks' \in Seq(Tasks)
      BY <1>4, <2>1, NotifyTypes DEF AssignKey
    <2> QED
      BY <1>4, <2>1, <2>2 DEF AssignKey, TypeOK
  <1>5. CASE PermissionFails(op) \/ Read(op)
    <2>1. response' \in [Ops -> Nat \cup {Error, None}]
      <3>1. PICK r \in Nat \cup {Error} : response' = [response EXCEPT ![op] = r]
        <4>1. CASE PermissionFails(op)
          BY <4>1 DEF PermissionFails
        <4>2. CASE Read(op)
          BY <4>2 DEF Read, TypeOK
        <4> QED
          BY <1>5, <4>1, <4>2
      <3> QED
        BY <3>1 DEF TypeOK
    <2>2. CASE PermissionFails(op)
      BY <2>1, <2>2 DEF PermissionFails, TypeOK
    <2>3. CASE Read(op)
      BY <2>1, <2>3 DEF Read, TypeOK
    <2> QED
      BY <1>5, <2>2, <2>3
  <1>6. CASE Reply(op)
    <2> DEFINE task == [do |-> "stop", op |-> op]
    <2>1. task \in Tasks
      BY DEF Tasks
    <2>2. tasks' = Append(tasks, task) \/ tasks' = tasks
      BY <1>6 DEF Reply
    <2>3. tasks' \in Seq(Tasks)
      <3>1. tasks \in Seq(Tasks)
        BY DEF TypeOK
      <3> HIDE DEF task
      <3>2. Append(tasks, task) \in Seq(Tasks)
        BY <2>1, <3>1
      <3> QED
        BY <2>2, <3>1, <3>2
    <2>4. response' \in [Ops -> Nat \cup {Error, None}] /\ checked' \subseteq Ops
      BY <1>6 DEF Reply, TypeOK
    <2>5. delivered' \in [Ops -> Nat \cup {None}]
      BY <1>6 DEF Reply, TypeOK
    <2> QED
      BY <1>6, <2>3, <2>4, <2>5 DEF Reply, TypeOK
  <1>7. CASE Unsubscribe(op)
    <2>1. Tail(jobs[op]) \in Seq(Jobs)
      BY <1>7 DEF Unsubscribe, TypeOK, Jobs
    <2>2. jobs' \in [Ops -> Seq(Jobs)]
      BY <1>7, <2>1 DEF Unsubscribe, TypeOK, Jobs
    <2> QED
      BY <1>7, <2>2 DEF Unsubscribe, TypeOK, Jobs
  <1> QED
    BY <1>1, <1>2, <1>3, <1>4, <1>5, <1>6, <1>7 DEF ThreadStep, Jobs

\* ... of the attribute and of time.
LEMMA TypeSignal ==
  ASSUME TypeOK, KeyInv, (\E op \in Ops : EmitSlot(op)) \/ SetValue \/ Tick
  PROVE  TypeOK'
  <1> USE DEF schemaVars, opVars, mainVars, signalVars
  <1>1. ASSUME NEW op \in Ops, EmitSlot(op) PROVE TypeOK'
    <2>1. tasks' \in Seq(Tasks)
      <3>1. CASE op \in connected
        <4>1. key[op] \in Nat
          BY <3>1 DEF KeyInv
        <4> QED
          BY <1>1, <3>1, <4>1, NotifyTypes DEF EmitSlot
      <3>2. CASE op \notin connected
        BY <1>1, <3>2 DEF EmitSlot, TypeOK
      <3> QED
        BY <3>1, <3>2
    <2> QED
      BY <1>1, <2>1 DEF EmitSlot, TypeOK
  <1>2. CASE SetValue
    BY <1>2 DEF SetValue, TypeOK
  <1>3. CASE Tick
    <2>1. since' \in [Ops -> 0 .. Interval]
      BY <1>3 DEF Tick, TypeOK
    <2>2. timer' \in [Ops -> (0 .. Interval) \cup {None}]
      BY <1>3 DEF Tick, TypeOK
    <2> QED
      BY <1>3, <2>1, <2>2 DEF Tick, TypeOK
  <1> QED
    BY <1>1, <1>2, <1>3
-----------------------------------------------------------------------------
(* The inductive invariant, one lemma for the steps of the main thread, of   *)
(* the threads and of the attribute.                                         *)

\* What a thread does between jobs and inside one, apart from the key.
Moves(op) ==
    \/ SubscribeThrows(op) \/ RefuseSubscription(op)
    \/ PermissionFails(op) \/ Read(op) \/ Recheck(op) \/ Reply(op)

\* A thread moves on, and leaves alone what the invariants speak of.
LEMMA MovesEffect ==
  ASSUME TypeOK, NEW op \in Ops, Moves(op)
  PROVE  /\ pc[op] \notin {"new", "idle", "assign"}
         /\ \E label \in {"idle", "refuse", "recheck", "reply"} :
                pc' = [pc EXCEPT ![op] = label]
         /\ UNCHANGED <<schemaVars, key, stopped, jobs, timer, since, stopping, ended, connected>>
  <1> USE DEF GoTo, Finish, schemaVars, opVars, mainVars, signalVars
  <1>1. CASE SubscribeThrows(op)
    BY <1>1 DEF SubscribeThrows
  <1>2. CASE RefuseSubscription(op)
    BY <1>2 DEF RefuseSubscription
  <1>3. CASE PermissionFails(op)
    BY <1>3 DEF PermissionFails
  <1>4. CASE Read(op)
    <2>1. PICK label \in {"recheck"} : pc' = [pc EXCEPT ![op] = label]
      BY <1>4 DEF Read
    <2> QED
      BY <1>4, <2>1 DEF Read
  <1>5. CASE Recheck(op)
    BY <1>5 DEF Recheck
  <1>6. CASE Reply(op)
    BY <1>6 DEF Reply
  <1> QED
    BY <1>1, <1>2, <1>3, <1>4, <1>5, <1>6 DEF Moves

\* KeyInv only reads these variables.
LEMMA KeySame ==
  ASSUME KeyInv, UNCHANGED <<pc, key, issued, registered, connected>>
  PROVE  KeyInv'
  BY DEF KeyInv

\* start() leaves some key in an operation, other steps of the main thread none.
LEMMA KeyMain ==
  ASSUME TypeOK, KeyInv,
         \/ \E op \in Ops : Start(op) \/ Stop(op) \/ DispatchPendingDelivery(op) \/ Joined(op)
         \/ RunStop \/ MergeTriggers \/ DeliverNotifications
  PROVE  KeyInv'
  <1> USE DEF schemaVars, opVars, mainVars, signalVars
  <1>1. ASSUME NEW op \in Ops, Start(op) PROVE KeyInv'
    <2>1. PICK k \in Nat : key' = [key EXCEPT ![op] = k]
      BY <1>1 DEF Start
    <2> QED
      BY <1>1, <2>1 DEF Start, GoTo, TypeOK, KeyInv
  <1>2. CASE ~(\E op \in Ops : Start(op))
    BY <1>2, KeySame
       DEF Stop, DispatchPendingDelivery, Joined, RunStop, MergeTriggers, DeliverNotifications
  <1> QED
    BY <1>1, <1>2

\* subscribe() gives a key out, the thread keeps it, unsubscribe() reads it.
LEMMA KeyThread ==
  ASSUME TypeOK, KeyInv, NEW op \in Ops, ThreadStep(op)
  PROVE  KeyInv'
  <1> USE DEF schemaVars, opVars, mainVars, signalVars, GoTo
  <1>1. ASSUME NEW job, NEW label \in {"subscribe", "observe"}, Begin(op, job, label)
        PROVE  KeyInv'
    BY <1>1 DEF Begin, TypeOK, KeyInv
  <1>2. CASE Subscribe(op)
    <2>1. pc[op] = "subscribe" /\ key[op] \in Nat
      BY <1>2 DEF Subscribe, KeyInv
    <2>2. /\ pc' = [pc EXCEPT ![op] = "assign"]
          /\ issued' = [issued EXCEPT ![op] = nextKey]
          /\ registered' = registered \cup {op}
          /\ UNCHANGED <<key, connected>>
      BY <1>2 DEF Subscribe
    <2>3. nextKey \in Nat /\ nextKey # None
      BY DEF TypeOK
    <2> QED
      BY <2>1, <2>2, <2>3 DEF TypeOK, KeyInv
  <1>3. CASE AssignKey(op)
    BY <1>3 DEF AssignKey, TypeOK, KeyInv
  <1>4. CASE Moves(op)
    <2>1. pc[op] \notin {"new", "idle", "assign"} /\ UNCHANGED <<key, issued, registered, connected>>
      BY <1>4, MovesEffect
    <2>2. PICK label \in {"idle", "refuse", "recheck", "reply"} : pc' = [pc EXCEPT ![op] = label]
      BY <1>4, MovesEffect
    <2> QED
      BY <2>1, <2>2 DEF TypeOK, KeyInv
  <1>5. CASE Observe(op)
    BY <1>5 DEF Observe, TypeOK, KeyInv
  <1>6. CASE Unsubscribe(op)
    BY <1>6 DEF Unsubscribe, TypeOK, KeyInv
  <1> QED
    BY <1>1, <1>2, <1>3, <1>4, <1>5, <1>6 DEF ThreadStep, Moves

\* The attribute and time have no part in it.
LEMMA KeySignal ==
  ASSUME KeyInv, (\E op \in Ops : EmitSlot(op)) \/ SetValue \/ Tick
  PROVE  KeyInv'
  BY KeySame DEF EmitSlot, SetValue, Tick, schemaVars, opVars, mainVars, signalVars
-----------------------------------------------------------------------------
(* Stopping. *)

\* One more task.
LEMMA TasksAppend ==
  ASSUME TypeOK, TasksInv, NEW task, tasks' = Append(tasks, task),
         task.do = "stop" => pc[task.op] # "new",
         \A op \in Ops : pc[op] # "new" => pc'[op] # "new",
         task.do = "stop" => task.op \in Ops
  PROVE  TasksInv'
  <1>1. tasks \in Seq(Tasks)
    BY DEF TypeOK
  <1>2. /\ Len(tasks') = Len(tasks) + 1
        /\ tasks'[Len(tasks) + 1] = task
        /\ \A i \in 1 .. Len(tasks) : tasks'[i] = tasks[i] /\ tasks[i] \in Tasks
    BY <1>1
  <1>3. \A i \in 1 .. Len(tasks) : tasks[i].do = "stop" => tasks[i].op \in Ops
    BY <1>2 DEF Tasks
  <1>4. ASSUME NEW i \in 1 .. Len(tasks'), tasks'[i].do = "stop"
        PROVE  pc'[tasks'[i].op] # "new"
    <2>1. CASE i = Len(tasks) + 1
      BY <1>2, <1>4, <2>1
    <2>2. CASE i \in 1 .. Len(tasks)
      BY <1>2, <1>3, <1>4, <2>2 DEF TasksInv
    <2> QED
      BY <1>1, <1>2, <2>1, <2>2
  <1> QED
    BY <1>4 DEF TasksInv

\* One task less.
LEMMA TasksTail ==
  ASSUME TypeOK, TasksInv, tasks # <<>>, tasks' = Tail(tasks), UNCHANGED pc
  PROVE  TasksInv'
  <1>1. tasks \in Seq(Tasks)
    BY DEF TypeOK
  <1>2. /\ Len(tasks') = Len(tasks) - 1
        /\ \A i \in 1 .. Len(tasks') : tasks'[i] = tasks[i + 1] /\ i + 1 \in 1 .. Len(tasks)
    BY <1>1
  <1> QED
    BY <1>2 DEF TasksInv

\* The tasks stay, and no operation becomes new again.
LEMMA TasksSame ==
  ASSUME TypeOK, TasksInv, UNCHANGED tasks,
         \A op \in Ops : pc[op] # "new" => pc'[op] # "new"
  PROVE  TasksInv'
  <1>1. \A i \in 1 .. Len(tasks) : tasks[i] \in Tasks
    BY DEF TypeOK
  <1>2. \A i \in 1 .. Len(tasks) : tasks[i].do = "stop" => tasks[i].op \in Ops
    BY <1>1 DEF Tasks
  <1> QED
    BY <1>2 DEF TasksInv

\* Every step keeps TasksInv.
LEMMA TasksStep ==
  ASSUME TypeOK, TasksInv, [Next]_vars
  PROVE  TasksInv'
  <1> USE DEF schemaVars, opVars, mainVars, signalVars, GoTo, Finish
  <1>1. ASSUME NEW op \in Ops, Start(op) PROVE TasksInv'
    BY <1>1, TasksSame DEF Start, TypeOK
  <1>2. CASE RunStop \/ MergeTriggers
    <2>1. tasks # <<>> /\ tasks' = Tail(tasks) /\ UNCHANGED pc
      BY <1>2 DEF RunStop, MergeTriggers
    <2> QED
      BY <2>1, TasksTail
  <1>3. ASSUME NEW op \in Ops, Stop(op) \/ DispatchPendingDelivery(op) \/ Joined(op)
        PROVE  TasksInv'
    BY <1>3, TasksSame DEF Stop, DispatchPendingDelivery, Joined
  <1>4. CASE DeliverNotifications \/ SetValue \/ Tick \/ Quiet \/ UNCHANGED vars
    BY <1>4, TasksSame DEF DeliverNotifications, SetValue, Tick, Quiet, vars
  <1>5. ASSUME NEW op \in Ops, EmitSlot(op) PROVE TasksInv'
    <2>1. UNCHANGED pc
      BY <1>5 DEF EmitSlot
    <2>2. CASE op \in connected
      <3> DEFINE task == [do |-> "notify", name |-> Name(op), key |-> key[op]]
      <3>1. tasks' = Append(tasks, task) /\ task.do # "stop"
        BY <1>5, <2>2 DEF EmitSlot, Notify
      <3> HIDE DEF task
      <3> QED
        BY <2>1, <3>1, TasksAppend
    <2>3. CASE op \notin connected
      BY <1>5, <2>1, <2>3, TasksSame DEF EmitSlot
    <2> QED
      BY <2>2, <2>3
  <1>6. ASSUME NEW op \in Ops, AssignKey(op) PROVE TasksInv'
    <2> DEFINE task == [do |-> "notify", name |-> Name(op), key |-> issued[op]]
    <2>1. tasks' = Append(tasks, task) /\ task.do # "stop"
      BY <1>6 DEF AssignKey, Notify
    <2>2. \A q \in Ops : pc[q] # "new" => pc'[q] # "new"
      BY <1>6 DEF AssignKey, TypeOK
    <2> HIDE DEF task
    <2> QED
      BY <2>1, <2>2, TasksAppend
  <1>7. ASSUME NEW op \in Ops, Reply(op) PROVE TasksInv'
    <2> DEFINE task == [do |-> "stop", op |-> op]
    <2>1. \A q \in Ops : pc[q] # "new" => pc'[q] # "new"
      BY <1>7 DEF Reply, TypeOK
    <2>2. task.do = "stop" /\ task.op = op /\ pc[op] # "new"
      BY <1>7 DEF Reply
    <2>3. tasks' = Append(tasks, task) \/ tasks' = tasks
      BY <1>7 DEF Reply
    <2> HIDE DEF task
    <2> QED
      BY <2>1, <2>2, <2>3, TasksAppend, TasksSame
  <1>8. ASSUME NEW op \in Ops, NEW job, NEW label \in {"subscribe", "observe"},
               Begin(op, job, label)
        PROVE  TasksInv'
    BY <1>8, TasksSame DEF Begin, TypeOK
  <1>9. ASSUME NEW op \in Ops,
               \/ Subscribe(op) \/ SubscribeThrows(op) \/ RefuseSubscription(op) \/ Observe(op)
               \/ PermissionFails(op) \/ Read(op) \/ Recheck(op) \/ Unsubscribe(op)
        PROVE  TasksInv'
    <2>1. UNCHANGED tasks
      BY <1>9 DEF Subscribe, SubscribeThrows, RefuseSubscription, Observe, PermissionFails, Read,
                  Recheck, Unsubscribe
    <2>2. \A q \in Ops : pc[q] # "new" => pc'[q] # "new"
      BY <1>9 DEF Subscribe, SubscribeThrows, RefuseSubscription, Observe, PermissionFails, Read,
                  Recheck, Unsubscribe, TypeOK
    <2> QED
      BY <2>1, <2>2, TasksSame
  <1> QED
    BY <1>1, <1>2, <1>3, <1>4, <1>5, <1>6, <1>7, <1>8, <1>9
       DEF Next, ClientStep, TaskStep, ThreadStep
\* StopInv only reads these variables.
LEMMA StopSame ==
  ASSUME StopInv, UNCHANGED <<pc, jobs, timer, stopped, stopping, ended, registered, connected>>
  PROVE  StopInv'
  BY DEF StopInv

\* The last job is the one that was added.
LEMMA LastOfAppend ==
  ASSUME NEW s \in Seq(Jobs), NEW job \in Jobs
  PROVE  /\ Append(s, job) # <<>>
         /\ Append(s, job)[Len(Append(s, job))] = job
  OBVIOUS

\* The last job stays the last one until it is taken.
LEMMA LastOfTail ==
  ASSUME NEW s \in Seq(Jobs), s # <<>>
  PROVE  IF Tail(s) = <<>> THEN s[Len(s)] = Head(s) ELSE Tail(s)[Len(Tail(s))] = s[Len(s)]
  <1>1. Tail(s) \in Seq(Jobs) /\ Len(s) \in Nat \ {0} /\ Len(Tail(s)) = Len(s) - 1
    BY EmptySeq
  <1>2. Tail(s) = <<>> <=> Len(s) = 1
    <2>1. Tail(s) = <<>> <=> Len(Tail(s)) = 0
      BY <1>1, EmptySeq, SeqEqual, LenProperties
    <2> QED
      BY <1>1, <2>1
  <1>3. Len(s) # 1 => Tail(s)[Len(s) - 1] = s[Len(s)]
    BY <1>1
  <1> QED
    BY <1>1, <1>2, <1>3

\* stop() adds the unsubscription as the last job.
LEMMA StopBegun ==
  ASSUME TypeOK, StopInv, NEW op \in Ops, BeginStop(op), pc[op] # "new",
         UNCHANGED <<pc, ended, registered, connected>>, Idle, op \notin stopped
  PROVE  StopInv'
  <1>1. /\ stopped' = stopped \cup {op} /\ stopping' = op
        /\ timer' = [timer EXCEPT ![op] = None]
        /\ jobs' = [jobs EXCEPT ![op] = Append(jobs[op], "unsubscribe")]
    BY DEF BeginStop
  <1>2. jobs'[op] # <<>> /\ jobs'[op][Len(jobs'[op])] = "unsubscribe"
    BY <1>1, LastOfAppend DEF TypeOK, Jobs
  <1>3. timer'[op] = None /\ \A q \in Ops : q # op => timer'[q] = timer[q] /\ jobs'[q] = jobs[q]
    BY <1>1 DEF TypeOK
  <1>4. \A q \in stopped : q \in Ops /\ q # op
    BY DEF TypeOK
  <1>5. \A q \in ended : q \in stopped
    BY DEF StopInv
  <1> QED
    BY <1>1, <1>2, <1>3, <1>4, <1>5 DEF StopInv

\* The main thread adds no other job to an operation that was stopped.
LEMMA StopMain ==
  ASSUME TypeOK, KeyInv, StopInv, TasksInv,
         \/ \E op \in Ops : Start(op) \/ Stop(op) \/ DispatchPendingDelivery(op) \/ Joined(op)
         \/ RunStop \/ MergeTriggers \/ DeliverNotifications
  PROVE  StopInv'
  <1> USE DEF schemaVars, opVars, mainVars, signalVars, GoTo
  <1>1. ASSUME NEW op \in Ops, Start(op) PROVE StopInv'
    <2>1. op \notin stopped
      BY <1>1 DEF Start, StopInv
    <2>2. \A q \in Ops : q # op => pc'[q] = pc[q] /\ jobs'[q] = jobs[q]
      BY <1>1 DEF Start, TypeOK
    <2>3. pc'[op] # "new"
      BY <1>1 DEF Start, TypeOK
    <2>4. \A q \in stopped : q \in Ops
      BY DEF TypeOK
    <2>5. \A q \in ended : q \in stopped
      BY DEF StopInv
    <2>6. UNCHANGED <<timer, stopped, stopping, ended, registered, connected>>
      BY <1>1 DEF Start
    <2> QED
      BY <2>1, <2>2, <2>3, <2>4, <2>5, <2>6 DEF StopInv
  <1>2. ASSUME NEW op \in Ops, Stop(op) PROVE StopInv'
    BY <1>2, StopBegun DEF Stop, Running
  <1>3. ASSUME NEW op \in Ops, DispatchPendingDelivery(op) PROVE StopInv'
    <2>1. op \notin stopped /\ pc[op] # "new"
      BY <1>3 DEF DispatchPendingDelivery, StopInv
    <2>2. \A q \in Ops : q # op => timer'[q] = timer[q] /\ jobs'[q] = jobs[q]
      BY <1>3 DEF DispatchPendingDelivery, TypeOK
    <2>3. \A q \in stopped : q \in Ops
      BY DEF TypeOK
    <2>4. \A q \in ended : q \in stopped
      BY DEF StopInv
    <2>5. UNCHANGED <<pc, stopped, stopping, ended, registered, connected>>
      BY <1>3 DEF DispatchPendingDelivery
    <2> QED
      BY <2>1, <2>2, <2>3, <2>4, <2>5 DEF StopInv
  <1>4. ASSUME NEW op \in Ops, Joined(op) PROVE StopInv'
    BY <1>4 DEF Joined, StopInv
  <1>5. CASE RunStop
    <2> DEFINE op == Head(tasks).op
    <2>1. op \in Ops
      BY <1>5, HeadOfTasks DEF RunStop
    <2>2. CASE op \in stopped
      BY <1>5, <2>2, StopSame DEF RunStop
    <2>3. CASE op \notin stopped
      <3>1. Head(tasks) = tasks[1] /\ 1 \in 1 .. Len(tasks)
        BY <1>5 DEF RunStop, TypeOK
      <3>2. pc[op] # "new"
        BY <1>5, <3>1 DEF RunStop, TasksInv
      <3>3. BeginStop(op) /\ Idle /\ UNCHANGED <<pc, ended, registered, connected>>
        BY <1>5, <2>3 DEF RunStop
      <3> QED
        BY <2>1, <2>3, <3>2, <3>3, StopBegun
    <2> QED
      BY <2>2, <2>3
  <1>6. CASE MergeTriggers
    BY <1>6, StopSame DEF MergeTriggers
  <1>7. CASE DeliverNotifications
    <2>1. \A op \in Ops : timer'[op] = OnFutureSubscription(op)
      BY <1>7 DEF DeliverNotifications
    <2>2. \A op \in Ops : op \in stopped \/ pc[op] = "new" => timer'[op] = timer[op]
      BY <2>1 DEF OnFutureSubscription, Triggered, KeyInv
    <2>3. \A q \in stopped : q \in Ops
      BY DEF TypeOK
    <2>4. UNCHANGED <<pc, jobs, stopped, stopping, ended, registered, connected>>
      BY <1>7 DEF DeliverNotifications
    <2> QED
      BY <2>2, <2>3, <2>4 DEF StopInv
  <1> QED
    BY <1>1, <1>2, <1>3, <1>4, <1>5, <1>6, <1>7

\* The thread comes to the unsubscription last.
LEMMA StopThread ==
  ASSUME TypeOK, KeyInv, StopInv, NEW op \in Ops, ThreadStep(op)
  PROVE  StopInv'
  <1> USE DEF schemaVars, opVars, mainVars, signalVars, GoTo
  <1>0. (\A q \in stopped : q \in Ops) /\ (\A q \in ended : q \in stopped)
    BY DEF TypeOK, StopInv
  <1>1. ASSUME NEW job \in {"subscribe", "resolve"}, NEW label \in {"subscribe", "observe"},
               Begin(op, job, label)
        PROVE  StopInv'
    <2>1. /\ pc[op] = "idle" /\ jobs[op] # <<>> /\ Head(jobs[op]) # "unsubscribe"
          /\ jobs'[op] = Tail(jobs[op])
          /\ \A q \in Ops : q # op => pc'[q] = pc[q] /\ jobs'[q] = jobs[q]
          /\ IF op \in stopped THEN UNCHANGED pc ELSE pc'[op] = label
          /\ UNCHANGED <<timer, stopped, stopping, ended, registered, connected>>
      BY <1>1 DEF Begin, TypeOK
    <2>2. IF jobs'[op] = <<>>
          THEN jobs[op][Len(jobs[op])] = Head(jobs[op])
          ELSE jobs'[op][Len(jobs'[op])] = jobs[op][Len(jobs[op])]
      BY <2>1, LastOfTail DEF TypeOK, Jobs
    <2>3. op \in stopped => jobs'[op] # <<>> /\ jobs'[op][Len(jobs'[op])] = "unsubscribe"
      BY <2>1, <2>2 DEF StopInv
    <2>4. op \notin ended
      BY <2>1 DEF StopInv
    <2>5. pc'[op] # "new" /\ \A q \in Ops : q \in stopped \/ q # op => pc'[q] = pc[q]
      BY <2>1
    <2>6. ASSUME NEW q \in Ops, pc'[q] = "new" PROVE jobs'[q] = <<>> /\ timer'[q] = None
      BY <2>1, <2>5, <2>6 DEF StopInv
    <2>7. ASSUME NEW q \in stopped'
          PROVE  /\ timer'[q] = None
                 /\ pc'[q] # "new"
                 /\ jobs'[q] = <<>> => pc'[q] = "idle" /\ q \notin registered' \cup connected'
                 /\ jobs'[q] # <<>> => jobs'[q][Len(jobs'[q])] = "unsubscribe"
      <3>1. q \in stopped /\ q \in Ops
        BY <1>0, <2>1, <2>7
      <3>2. CASE q = op
        BY <2>1, <2>3, <2>5, <3>1, <3>2 DEF StopInv
      <3>3. CASE q # op
        <4>1. pc'[q] = pc[q] /\ jobs'[q] = jobs[q] /\ UNCHANGED <<timer, registered, connected>>
          BY <2>1, <3>1, <3>3
        <4> QED
          BY <3>1, <4>1 DEF StopInv
      <3> QED
        BY <3>2, <3>3
    <2>8. /\ stopping' \in stopped' \cup {None}
          /\ ended' \subseteq stopped'
          /\ \A q \in ended' : jobs'[q] = <<>>
      BY <1>0, <2>1, <2>4 DEF StopInv
    <2> QED
      BY <2>6, <2>7, <2>8 DEF StopInv
  <1>2. CASE \/ Subscribe(op) \/ AssignKey(op) \/ Observe(op) \/ Moves(op)
    <2>1. pc[op] \notin {"new", "idle"}
      BY <1>2, MovesEffect DEF Subscribe, AssignKey, Observe
    <2>2. PICK label \in {"assign", "idle", "read", "refuse", "recheck", "reply"} :
             pc' = [pc EXCEPT ![op] = label]
      BY <1>2, MovesEffect DEF Subscribe, AssignKey, Observe
    <2>3. /\ UNCHANGED <<jobs, timer, stopped, stopping, ended>>
          /\ registered' \subseteq registered \cup {op}
          /\ connected' \subseteq connected \cup {op}
      BY <1>2, MovesEffect DEF Subscribe, AssignKey, Observe
    <2>4. op \in stopped => jobs[op] # <<>>
      BY <2>1 DEF StopInv
    <2>5. pc'[op] # "new" /\ \A q \in Ops : q # op => pc'[q] = pc[q]
      BY <2>2 DEF TypeOK
    <2> QED
      BY <1>0, <2>1, <2>3, <2>4, <2>5 DEF StopInv
  <1>3. CASE Unsubscribe(op)
    <2>1. /\ pc[op] = "idle" /\ jobs[op] # <<>>
          /\ jobs'[op] = Tail(jobs[op])
          /\ \A q \in Ops : q # op => jobs'[q] = jobs[q]
          /\ UNCHANGED <<pc, timer, stopped, stopping, ended>>
          /\ registered' \subseteq registered /\ connected' \subseteq connected
          /\ op \notin connected'
      BY <1>3 DEF Unsubscribe, TypeOK
    <2>2. op \notin registered'
      BY <1>3 DEF Unsubscribe, KeyInv
    <2>3. jobs'[op] # <<>> => jobs'[op][Len(jobs'[op])] = jobs[op][Len(jobs[op])]
      BY <2>1, LastOfTail DEF TypeOK, Jobs
    <2>4. op \notin ended
      BY <2>1 DEF StopInv
    <2>5. pc[op] # "new"
      BY <2>1
    <2>6. ASSUME NEW q \in Ops, pc'[q] = "new" PROVE jobs'[q] = <<>> /\ timer'[q] = None
      BY <2>1, <2>5, <2>6 DEF StopInv
    <2>7. ASSUME NEW q \in stopped'
          PROVE  /\ timer'[q] = None
                 /\ pc'[q] # "new"
                 /\ jobs'[q] = <<>> => pc'[q] = "idle" /\ q \notin registered' \cup connected'
                 /\ jobs'[q] # <<>> => jobs'[q][Len(jobs'[q])] = "unsubscribe"
      <3>1. q \in stopped /\ q \in Ops
        BY <1>0, <2>1, <2>7
      <3>2. CASE q = op
        BY <2>1, <2>2, <2>3, <3>1, <3>2 DEF StopInv
      <3>3. CASE q # op
        <4>1. pc'[q] = pc[q] /\ jobs'[q] = jobs[q] /\ timer' = timer
          BY <2>1, <3>1, <3>3
        <4>2. registered' \subseteq registered /\ connected' \subseteq connected
          BY <2>1
        <4> QED
          BY <3>1, <4>1, <4>2 DEF StopInv
      <3> QED
        BY <3>2, <3>3
    <2>8. /\ stopping' \in stopped' \cup {None}
          /\ ended' \subseteq stopped'
          /\ \A q \in ended' : jobs'[q] = <<>>
      BY <1>0, <2>1, <2>4 DEF StopInv
    <2> QED
      BY <2>6, <2>7, <2>8 DEF StopInv
  <1> QED
    BY <1>1, <1>2, <1>3 DEF ThreadStep, Moves

\* Slots of the signal only add tasks.
LEMMA StopSignal ==
  ASSUME StopInv, (\E op \in Ops : EmitSlot(op)) \/ SetValue
  PROVE  StopInv'
  BY StopSame DEF EmitSlot, SetValue, schemaVars, opVars, mainVars, signalVars

\* Time does not set a timer that is not set.
LEMMA StopTick ==
  ASSUME TypeOK, StopInv, Tick
  PROVE  StopInv'
  <1>1. UNCHANGED <<pc, jobs, stopped, stopping, ended, registered, connected>>
    BY DEF Tick, schemaVars, mainVars, signalVars
  <1>2. \A op \in Ops : timer[op] = None => timer'[op] = None
    BY DEF Tick
  <1>3. \A op \in stopped : op \in Ops
    BY DEF TypeOK
  <1> QED
    BY <1>1, <1>2, <1>3 DEF StopInv
-----------------------------------------------------------------------------
(* Time. *)

\* Every step keeps TimerInv.
LEMMA TimerStep ==
  ASSUME TypeOK, TimerInv, [Next]_vars
  PROVE  TimerInv'
  <1> USE DEF schemaVars, opVars, mainVars, signalVars
  <1>1. CASE UNCHANGED <<timer, since>>
    BY <1>1 DEF TimerInv
  <1>2. CASE DeliverNotifications
    <2>1. UNCHANGED since /\ \A op \in Ops : timer'[op] = OnFutureSubscription(op)
      BY <1>2 DEF DeliverNotifications
    <2>2. \A op \in Ops : since[op] \in 0 .. Interval
      BY DEF TypeOK
    <2> QED
      BY <2>1, <2>2 DEF OnFutureSubscription, Remaining, TimerInv
  <1>3. ASSUME NEW op \in Ops, DispatchPendingDelivery(op) PROVE TimerInv'
    BY <1>3 DEF DispatchPendingDelivery, TypeOK, TimerInv
  <1>4. ASSUME NEW op \in Ops, BeginStop(op), UNCHANGED since PROVE TimerInv'
    BY <1>4 DEF BeginStop, TypeOK, TimerInv
  <1>5. CASE RunStop
    BY <1>1, <1>4, <1>5, HeadOfTasks DEF RunStop
  <1>6. CASE Tick
    <2>1. ASSUME NEW op \in Ops, timer'[op] # None
          PROVE  timer'[op] + since'[op] >= Interval
      <3>1. /\ timer'[op] = IF timer[op] \in 1 .. Interval THEN timer[op] - 1 ELSE timer[op]
            /\ since'[op] = IF since[op] < Interval THEN since[op] + 1 ELSE Interval
        BY <1>6 DEF Tick
      <3>2. timer[op] \in 0 .. Interval /\ since[op] \in 0 .. Interval
        BY <2>1, <3>1 DEF TypeOK
      <3>3. timer[op] + since[op] >= Interval
        BY <3>2 DEF TimerInv
      <3> QED
        BY <3>1, <3>2, <3>3
    <2> QED
      BY <2>1 DEF TimerInv
  <1>7. ASSUME NEW op \in Ops, ThreadStep(op) PROVE UNCHANGED <<timer, since>>
    BY <1>7 DEF ThreadStep, Begin, Subscribe, AssignKey, SubscribeThrows, RefuseSubscription, Observe,
                PermissionFails, Read, Recheck, Reply, Unsubscribe
  <1>8. ASSUME NEW op \in Ops, Start(op) \/ Joined(op) \/ EmitSlot(op)
        PROVE  UNCHANGED <<timer, since>>
    BY <1>8 DEF Start, Joined, EmitSlot
  <1>9. CASE MergeTriggers \/ SetValue \/ Quiet \/ UNCHANGED vars
    BY <1>1, <1>9 DEF MergeTriggers, SetValue, Quiet, vars
  <1>10. ASSUME NEW op \in Ops, Stop(op) PROVE TimerInv'
    BY <1>4, <1>10 DEF Stop
  <1> QED
    BY <1>1, <1>2, <1>3, <1>5, <1>6, <1>7, <1>8, <1>9, <1>10 DEF Next, ClientStep, TaskStep

-----------------------------------------------------------------------------
(* Theorems. *)

\* An operation that nobody has started.
LEMMA SubscriptionInit == Init => SubscriptionInv
  <1> SUFFICES ASSUME Init PROVE SubscriptionInv
    OBVIOUS
  <1>1. TypeOK
    <2>1. jobs \in [Ops -> Seq(Jobs)] /\ tasks \in Seq(Tasks)
      BY EmptySeq DEF Init
    <2>2. /\ timer \in [Ops -> (0 .. Interval) \cup {None}]
          /\ since \in [Ops -> 0 .. Interval]
          /\ pending \in [Names -> SUBSET Nat]
      BY DEF Init
    <2>3. /\ issued \in [Ops -> Nat \cup {None}]
          /\ key \in [Ops -> Nat \cup {None}]
          /\ response \in [Ops -> Nat \cup {Error, None}]
          /\ delivered \in [Ops -> Nat \cup {None}]
          /\ pc \in [Ops -> {"new"}]
      BY DEF Init
    <2> QED
      BY <2>1, <2>2, <2>3 DEF Init, TypeOK, Jobs
  <1>2. KeyInv /\ StopInv /\ TasksInv /\ TimerInv
    BY DEF Init, KeyInv, StopInv, TasksInv, TimerInv
  <1> QED
    BY <1>1, <1>2 DEF SubscriptionInv

\* Every step keeps the inductive invariant.
LEMMA SubscriptionStep == SubscriptionInv /\ [Next]_vars => SubscriptionInv'
  <1> SUFFICES ASSUME TypeOK, KeyInv, StopInv, TasksInv, TimerInv, [Next]_vars
               PROVE  TypeOK' /\ KeyInv' /\ StopInv' /\ TasksInv' /\ TimerInv'
    BY DEF SubscriptionInv
  <1>1. TasksInv' /\ TimerInv'
    BY TasksStep, TimerStep
  <1>2. CASE \/ \E op \in Ops : Start(op) \/ Stop(op) \/ DispatchPendingDelivery(op) \/ Joined(op)
             \/ RunStop \/ MergeTriggers \/ DeliverNotifications
    BY <1>1, <1>2, TypeMain, KeyMain, StopMain
  <1>3. ASSUME NEW op \in Ops, ThreadStep(op) PROVE TypeOK' /\ KeyInv' /\ StopInv'
    BY <1>3, TypeThread, KeyThread, StopThread
  <1>4. CASE (\E op \in Ops : EmitSlot(op)) \/ SetValue \/ Tick
    BY <1>1, <1>4, TypeSignal, KeySignal, StopSignal, StopTick
  <1>5. CASE UNCHANGED vars
    BY <1>1, <1>5, KeySame, StopSame DEF TypeOK, vars, schemaVars, opVars, mainVars, signalVars
  <1> QED
    BY <1>1, <1>2, <1>3, <1>4, <1>5 DEF Next, ClientStep, TaskStep, Quiet

\* It holds in every state.
LEMMA SubscriptionAlways == Spec => []SubscriptionInv
  BY SubscriptionInit, SubscriptionStep, PTL DEF Spec

\* Every variable keeps its type, among them the keys of the triggers and the
\* time left of the timers.
THEOREM SubscriptionTypes == Spec => []TypeOK
  <1>1. SubscriptionInv => TypeOK
    BY DEF SubscriptionInv
  <1> QED
    BY <1>1, SubscriptionAlways, PTL

\* stop() returns when its subscription is neither registered nor connected,
\* has no timer and no job, at whatever point of subscribe() or of a
\* resolution it came.
THEOREM StopLeavesNothing == Spec => []StoppedIsUnregistered
  <1>1. SubscriptionInv => StoppedIsUnregistered
    <2> SUFFICES ASSUME SubscriptionInv, NEW op \in ended
                 PROVE  /\ op \notin registered \cup connected
                        /\ jobs[op] = <<>> /\ pc[op] = "idle"
                        /\ timer[op] = None
      BY DEF StoppedIsUnregistered
    <2> QED
      BY DEF SubscriptionInv, StopInv
  <1> QED
    BY <1>1, SubscriptionAlways, PTL

\* Deliveries keep the interval the client asked for, however notifications,
\* expired timers and stop() meet.
THEOREM DeliveriesKeepInterval == Spec => RateLimited
  <1>1. SubscriptionInv /\ [Next]_vars =>
          \A op \in Ops : Len(jobs'[op]) > Len(jobs[op]) /\ jobs'[op][Len(jobs'[op])] = "resolve"
                             => since[op] = Interval
    <2> SUFFICES ASSUME SubscriptionInv, [Next]_vars, NEW op \in Ops,
                        Len(jobs'[op]) > Len(jobs[op]), jobs'[op][Len(jobs'[op])] = "resolve"
                 PROVE  since[op] = Interval
      OBVIOUS
    <2> USE DEF schemaVars, opVars, mainVars, signalVars
    <2>1. TypeOK /\ TimerInv /\ jobs \in [Ops -> Seq(Jobs)]
      BY DEF SubscriptionInv, TypeOK, Jobs
    <2>2. jobs'[op] # jobs[op]
      BY <2>1
    <2>3. ~(\E job \in {"subscribe", "unsubscribe"} :
              jobs' = [jobs EXCEPT ![op] = Append(jobs[op], job)])
      BY <2>1, LastOfAppend DEF Jobs
    <2>4. ASSUME NEW q \in Ops, ThreadStep(q) PROVE FALSE
      <3>1. jobs' = jobs \/ (jobs[q] # <<>> /\ jobs' = [jobs EXCEPT ![q] = Tail(jobs[q])])
        BY <2>4 DEF ThreadStep, Begin, Subscribe, AssignKey, SubscribeThrows, RefuseSubscription,
                    Observe, PermissionFails, Read, Recheck, Reply, Unsubscribe
      <3>2. jobs[q] # <<>> => Len(Tail(jobs[q])) <= Len(jobs[q])
        BY <2>1
      <3> QED
        BY <2>1, <2>2, <3>1, <3>2
    <2>5. ASSUME NEW q \in Ops, Start(q) \/ BeginStop(q) PROVE FALSE
      <3>1. PICK job \in {"subscribe", "unsubscribe"} :
               jobs' = [jobs EXCEPT ![q] = Append(jobs[q], job)]
        BY <2>5 DEF Start, BeginStop
      <3> QED
        BY <2>1, <2>2, <2>3, <3>1
    <2>6. ASSUME NEW q \in Ops, DispatchPendingDelivery(q) PROVE since[op] = Interval
      <3>1. q = op
        BY <2>1, <2>2, <2>6 DEF DispatchPendingDelivery
      <3>2. timer[op] = 0 /\ since[op] \in 0 .. Interval
        BY <2>1, <2>6, <3>1 DEF DispatchPendingDelivery, TypeOK
      <3> QED
        BY <2>1, <3>2 DEF TimerInv
    <2>7. CASE RunStop
      <3>1. Head(tasks).op \in Ops
        BY <2>1, <2>7, HeadOfTasks DEF RunStop
      <3> QED
        BY <2>2, <2>5, <2>7, <3>1 DEF RunStop
    <2>8. CASE \/ MergeTriggers \/ DeliverNotifications \/ SetValue \/ Tick \/ Quiet \/ UNCHANGED vars
               \/ \E q \in Ops : Joined(q) \/ EmitSlot(q)
      BY <2>2, <2>8 DEF MergeTriggers, DeliverNotifications, SetValue, Tick, Quiet, vars, Joined, EmitSlot
    <2>9. ASSUME NEW q \in Ops, Stop(q) PROVE FALSE
      BY <2>5, <2>9 DEF Stop
    <2> QED
      BY <2>4, <2>5, <2>6, <2>7, <2>8, <2>9 DEF Next, ClientStep, TaskStep
  <1> QED
    BY <1>1, SubscriptionAlways, PTL DEF Spec, RateLimited

-----------------------------------------------------------------------------
(* Stopping one subscription does not end another, but by an unset key. *)

\* A stopped operation whose thread has run its last job.
Over(op) == op \in stopped /\ jobs[op] = <<>>

\* Keys are given out once; an unsubscription is the last job of a stopped
\* operation; and what the schema forgot was stopped, or unsubscribed by an
\* operation that never got a key.
ActiveInv ==
    /\ \A op \in Ops : issued[op] # None => issued[op] < nextKey
    /\ \A p, q \in Ops : issued[p] # None /\ issued[p] = issued[q] => p = q
    /\ \A op \in Ops : \A i \in 1 .. Len(jobs[op]) :
         jobs[op][i] = "unsubscribe" => op \in stopped /\ i = Len(jobs[op])
    /\ \A op \in Ops :
         issued[op] # None /\ op \notin stopped \cup registered =>
             \E q \in Ops : Over(q) /\ issued[q] = None /\ key[q] = issued[op]

\* ActiveInv only reads these variables.
LEMMA ActiveSame ==
  ASSUME ActiveInv, UNCHANGED <<issued, nextKey, key, stopped, jobs, registered>>
  PROVE  ActiveInv'
  BY DEF ActiveInv, Over

\* How the jobs of an operation may change.
JobAdded(op) ==
    \/ op \notin stopped /\ \E job \in {"subscribe", "resolve"} : jobs' = [jobs EXCEPT ![op] = Append(@, job)]
    \/ /\ op \notin stopped /\ op \in stopped'
       /\ jobs' = [jobs EXCEPT ![op] = Append(@, "unsubscribe")]
    \/ jobs[op] # <<>> /\ jobs' = [jobs EXCEPT ![op] = Tail(@)]

\* An unsubscription stays the last job, and jobs are added to operations that
\* were not stopped before.
LEMMA LastJob ==
  ASSUME TypeOK, ActiveInv, NEW op \in Ops, JobAdded(op), stopped \subseteq stopped'
  PROVE  /\ \A q \in Ops : \A i \in 1 .. Len(jobs'[q]) :
              jobs'[q][i] = "unsubscribe" => q \in stopped' /\ i = Len(jobs'[q])
         /\ \A q \in Ops : Over(q) => Over(q)' /\ q # op
  <1>1. \A q \in Ops : jobs[q] \in Seq(Jobs)
    BY DEF TypeOK, Jobs
  <1>2. \A q \in Ops : q # op => jobs'[q] = jobs[q]
    BY DEF JobAdded, TypeOK
  <1>3. ASSUME NEW i \in 1 .. Len(jobs'[op]), jobs'[op][i] = "unsubscribe"
        PROVE  op \in stopped' /\ i = Len(jobs'[op])
    <2>1. CASE op \notin stopped /\ \E job \in {"subscribe", "resolve"} : jobs' = [jobs EXCEPT ![op] = Append(@, job)]
      <3>1. PICK job \in {"subscribe", "resolve"} : jobs' = [jobs EXCEPT ![op] = Append(@, job)]
        BY <2>1
      <3>2. jobs'[op] = Append(jobs[op], job)
        BY <3>1 DEF TypeOK
      <3>3. i \in 1 .. Len(jobs[op]) /\ jobs[op][i] = "unsubscribe"
        BY <1>1, <1>3, <3>1, <3>2
      <3> QED
        BY <2>1, <3>3 DEF ActiveInv
    <2>2. CASE /\ op \notin stopped /\ op \in stopped'
               /\ jobs' = [jobs EXCEPT ![op] = Append(@, "unsubscribe")]
      <3>1. jobs'[op] = Append(jobs[op], "unsubscribe")
        BY <2>2 DEF TypeOK
      <3>2. i # Len(jobs'[op]) => i \in 1 .. Len(jobs[op]) /\ jobs[op][i] = "unsubscribe"
        BY <1>1, <1>3, <3>1
      <3> QED
        BY <2>2, <3>2 DEF ActiveInv
    <2>3. CASE jobs[op] # <<>> /\ jobs' = [jobs EXCEPT ![op] = Tail(@)]
      <3>1. jobs'[op] = Tail(jobs[op])
        BY <2>3 DEF TypeOK
      <3>a. jobs[op] \in Seq(Jobs) /\ jobs[op] # <<>>
        BY <1>1, <2>3
      <3>b. /\ Len(Tail(jobs[op])) = Len(jobs[op]) - 1 /\ Len(jobs[op]) \in Nat
            /\ \A j \in 1 .. Len(jobs[op]) - 1 : Tail(jobs[op])[j] = jobs[op][j + 1]
        BY <3>a
      <3>2. /\ i + 1 \in 1 .. Len(jobs[op]) /\ jobs[op][i + 1] = "unsubscribe"
            /\ Len(jobs'[op]) = Len(jobs[op]) - 1 /\ Len(jobs[op]) \in Nat
        BY <1>3, <3>1, <3>b
      <3>3. op \in stopped /\ i + 1 = Len(jobs[op])
        BY <3>2 DEF ActiveInv
      <3> QED
        BY <3>2, <3>3
    <2> QED
      BY <2>1, <2>2, <2>3 DEF JobAdded
  <1>4. \A q \in Ops : Over(q) => q # op
    BY DEF Over, JobAdded
  <1> QED
    BY <1>2, <1>3, <1>4 DEF ActiveInv, Over

\* Steps that add or take a job and change nothing in the schema.
LEMMA ActiveJob ==
  ASSUME TypeOK, ActiveInv, NEW op \in Ops, JobAdded(op), stopped \subseteq stopped',
         UNCHANGED <<issued, nextKey, registered>>, key' = key \/ \E k : key' = [key EXCEPT ![op] = k]
  PROVE  ActiveInv'
  <1>0. \A q \in Ops : Over(q) => Over(q)' /\ q # op
    BY LastJob
  <1>1. \A q \in Ops : Over(q) => Over(q)' /\ key'[q] = key[q]
    BY <1>0 DEF TypeOK
  <1>2. \A q \in Ops : issued'[q] # None /\ q \notin stopped' \cup registered' =>
           \E r \in Ops : Over(r)' /\ issued'[r] = None /\ key'[r] = issued'[q]
    BY <1>1 DEF ActiveInv
  <1>3. \A q \in Ops : \A i \in 1 .. Len(jobs'[q]) :
           jobs'[q][i] = "unsubscribe" => q \in stopped' /\ i = Len(jobs'[q])
    BY LastJob
  <1>4. /\ \A q \in Ops : issued'[q] # None => issued'[q] < nextKey'
        /\ \A p, q \in Ops : issued'[p] # None /\ issued'[p] = issued'[q] => p = q
    BY DEF ActiveInv
  <1> QED
    BY <1>2, <1>3, <1>4 DEF ActiveInv

\* The main thread adds an unsubscription only when it stops the operation.
LEMMA ActiveMain ==
  ASSUME SubscriptionInv, ActiveInv,
         \/ \E op \in Ops : Start(op) \/ Stop(op) \/ DispatchPendingDelivery(op) \/ Joined(op)
         \/ RunStop \/ MergeTriggers \/ DeliverNotifications
  PROVE  ActiveInv'
  <1> USE DEF schemaVars, opVars, mainVars, signalVars, GoTo
  <1>0. TypeOK
    BY DEF SubscriptionInv
  <1>1. ASSUME NEW op \in Ops, Start(op) PROVE ActiveInv'
    <2>1. op \notin stopped
      BY <1>1 DEF Start, SubscriptionInv, StopInv
    <2>2. JobAdded(op)
      BY <1>1, <2>1 DEF Start, JobAdded
    <2>3. /\ \E k : key' = [key EXCEPT ![op] = k]
          /\ UNCHANGED <<issued, nextKey, stopped, registered>>
      BY <1>1 DEF Start
    <2> QED
      BY <1>0, <2>2, <2>3, ActiveJob
  <1>2. ASSUME NEW op \in Ops, op \notin stopped, BeginStop(op),
               UNCHANGED <<issued, nextKey, key, registered>>
        PROVE  ActiveInv'
    <2>1. JobAdded(op) /\ stopped \subseteq stopped'
      BY <1>2 DEF BeginStop, JobAdded
    <2> QED
      BY <1>0, <1>2, <2>1, ActiveJob
  <1>3. ASSUME NEW op \in Ops, DispatchPendingDelivery(op) PROVE ActiveInv'
    <2>1. op \notin stopped
      BY <1>3 DEF DispatchPendingDelivery, SubscriptionInv, StopInv
    <2>2. JobAdded(op) /\ UNCHANGED <<issued, nextKey, key, stopped, registered>>
      BY <1>3, <2>1 DEF DispatchPendingDelivery, JobAdded
    <2> QED
      BY <1>0, <2>2, ActiveJob
  <1>4. ASSUME NEW op \in Ops, Stop(op) \/ Joined(op) PROVE ActiveInv'
    BY <1>2, <1>4, ActiveSame DEF Stop, Running, Joined
  <1>5. CASE RunStop
    <2>1. Head(tasks).op \in Ops
      BY <1>0, <1>5, HeadOfTasks DEF RunStop
    <2> QED
      BY <1>2, <1>5, <2>1, ActiveSame DEF RunStop
  <1>6. CASE MergeTriggers \/ DeliverNotifications
    BY <1>6, ActiveSame DEF MergeTriggers, DeliverNotifications
  <1> QED
    BY <1>1, <1>3, <1>4, <1>5, <1>6

\* A key is given out once, and a thread unsubscribes its own, or what its
\* operation held before it had one.
LEMMA ActiveThread ==
  ASSUME SubscriptionInv, ActiveInv, NEW op \in Ops, ThreadStep(op)
  PROVE  ActiveInv'
  <1> USE DEF schemaVars, opVars, mainVars, signalVars, GoTo
  <1>0. TypeOK /\ KeyInv /\ StopInv
    BY DEF SubscriptionInv
  <1>1. ASSUME NEW job, NEW label \in {"subscribe", "observe"}, Begin(op, job, label)
        PROVE  ActiveInv'
    <2>1. JobAdded(op) /\ UNCHANGED <<issued, nextKey, key, stopped, registered>>
      BY <1>1 DEF Begin, JobAdded
    <2> QED
      BY <1>0, <2>1, ActiveJob
  <1>2. ASSUME pc[op] # "idle" PROVE ~Over(op)
    BY <1>0, <1>2 DEF Over, StopInv
  <1>3. CASE Subscribe(op)
    <2>1. /\ issued' = [issued EXCEPT ![op] = nextKey] /\ nextKey' = nextKey + 1
          /\ registered' = registered \cup {op}
          /\ pc[op] = "subscribe"
          /\ UNCHANGED <<key, stopped, jobs>>
      BY <1>3 DEF Subscribe
    <2>2. nextKey \in Nat /\ nextKey # None
      BY <1>0 DEF TypeOK
    <2>3. \A q \in Ops : issued[q] # None => issued[q] \in Nat /\ issued[q] < nextKey
      BY <1>0 DEF TypeOK, ActiveInv
    <2>4. \A q \in Ops : issued'[q] # None => issued'[q] < nextKey'
      BY <1>0, <2>1, <2>2, <2>3 DEF TypeOK
    <2>5. \A p, q \in Ops : issued'[p] # None /\ issued'[p] = issued'[q] => p = q
      BY <1>0, <2>1, <2>2, <2>3 DEF TypeOK, ActiveInv
    <2>6. \A q \in Ops : Over(q) => Over(q)' /\ issued'[q] = issued[q]
      BY <1>0, <1>2, <2>1 DEF TypeOK, Over
    <2>7. \A q \in Ops : issued'[q] # None /\ q \notin stopped' \cup registered' =>
             \E r \in Ops : Over(r)' /\ issued'[r] = None /\ key'[r] = issued'[q]
      BY <1>0, <2>1, <2>6 DEF TypeOK, ActiveInv
    <2>8. \A q \in Ops : \A i \in 1 .. Len(jobs'[q]) :
             jobs'[q][i] = "unsubscribe" => q \in stopped' /\ i = Len(jobs'[q])
      BY <2>1 DEF ActiveInv
    <2> QED
      BY <2>4, <2>5, <2>7, <2>8 DEF ActiveInv
  <1>4. CASE AssignKey(op)
    <2>1. /\ key' = [key EXCEPT ![op] = issued[op]] /\ pc[op] = "assign"
          /\ UNCHANGED <<issued, nextKey, stopped, jobs, registered>>
      BY <1>4 DEF AssignKey
    <2>2. \A q \in Ops : Over(q) => Over(q)' /\ key'[q] = key[q]
      BY <1>0, <1>2, <2>1 DEF TypeOK, Over
    <2>3. \A q \in Ops : issued'[q] # None /\ q \notin stopped' \cup registered' =>
             \E r \in Ops : Over(r)' /\ issued'[r] = None /\ key'[r] = issued'[q]
      BY <2>1, <2>2 DEF ActiveInv
    <2> QED
      BY <2>1, <2>3 DEF ActiveInv
  <1>5. CASE Moves(op) \/ Observe(op)
    <2>1. UNCHANGED <<issued, nextKey, key, stopped, jobs, registered>>
      BY <1>0, <1>5, MovesEffect DEF Observe
    <2> QED
      BY <2>1, ActiveSame
  <1>6. CASE Unsubscribe(op)
    <2>1. /\ pc[op] = "idle" /\ jobs[op] # <<>> /\ Head(jobs[op]) = "unsubscribe"
          /\ registered' = {q \in registered : issued[q] # key[op]}
          /\ jobs' = [jobs EXCEPT ![op] = Tail(@)]
          /\ UNCHANGED <<issued, nextKey, key, stopped>>
      BY <1>6 DEF Unsubscribe
    <2>2. JobAdded(op)
      BY <2>1 DEF JobAdded
    <2>3. jobs[op] \in Seq(Jobs) /\ jobs'[op] = Tail(jobs[op])
      BY <1>0, <2>1 DEF TypeOK, Jobs
    <2>4. op \in stopped /\ Len(jobs[op]) = 1
      <3>1. 1 \in 1 .. Len(jobs[op]) /\ jobs[op][1] = "unsubscribe"
        BY <2>1, <2>3
      <3> QED
        BY <3>1 DEF ActiveInv
    <2>5. Over(op)'
      <3>1. Tail(jobs[op]) \in Seq(Jobs) /\ Len(Tail(jobs[op])) = 0
        BY <2>1, <2>3, <2>4
      <3>2. Tail(jobs[op]) = <<>>
        BY <3>1, EmptySeq
      <3> QED
        BY <2>1, <2>3, <2>4, <3>2 DEF Over
    <2>6. ASSUME NEW q \in Ops, issued[q] # None, q \notin stopped \cup registered'
          PROVE  \E r \in Ops : Over(r)' /\ issued'[r] = None /\ key'[r] = issued'[q]
      <3>1. CASE q \in registered
        <4>1. issued[q] = key[op] /\ q # op
          BY <2>1, <2>4, <2>6, <3>1
        <4>2. issued[op] = None
          BY <1>0, <2>1, <2>6, <4>1 DEF KeyInv, ActiveInv
        <4> QED
          BY <2>1, <2>5, <4>1, <4>2
      <3>2. CASE q \notin registered
        <4>1. PICK r \in Ops : Over(r) /\ issued[r] = None /\ key[r] = issued[q]
          BY <2>6, <3>2 DEF ActiveInv
        <4> QED
          BY <1>0, <2>1, <2>2, <4>1, LastJob
      <3> QED
        BY <3>1, <3>2
    <2>7. \A q \in Ops : \A i \in 1 .. Len(jobs'[q]) :
             jobs'[q][i] = "unsubscribe" => q \in stopped' /\ i = Len(jobs'[q])
      BY <1>0, <2>1, <2>2, LastJob
    <2> QED
      BY <2>1, <2>6, <2>7 DEF ActiveInv
  <1> QED
    BY <1>1, <1>3, <1>4, <1>5, <1>6 DEF ThreadStep, Moves

\* ActiveInv is inductive.
LEMMA ActiveStep == SubscriptionInv /\ ActiveInv /\ [Next]_vars => ActiveInv'
  <1> SUFFICES ASSUME SubscriptionInv, ActiveInv, [Next]_vars PROVE ActiveInv'
    OBVIOUS
  <1>1. CASE \/ (\E op \in Ops : EmitSlot(op)) \/ SetValue \/ Tick \/ Quiet \/ UNCHANGED vars
    BY <1>1, ActiveSame
       DEF EmitSlot, SetValue, Tick, Quiet, vars, schemaVars, opVars, mainVars, signalVars
  <1> QED
    BY <1>1, ActiveMain, ActiveThread DEF Next, ClientStep, TaskStep

LEMMA ActiveInit == Init => ActiveInv
  BY EmptySeq DEF Init, ActiveInv

\* A subscription gets its deliveries until it is stopped itself, wherever the
\* others are stopped, and whatever m_subscriptionKey holds before it is
\* assigned: only one that was stopped before that can end another.
THEOREM StopSparesOthers == Spec => []OnlyUnsetKeysForget
  <1>1. ActiveInv => OnlyUnsetKeysForget
    BY DEF ActiveInv, Over, OnlyUnsetKeysForget
  <1> QED
    BY <1>1, ActiveInit, ActiveStep, SubscriptionAlways, PTL DEF Spec
-----------------------------------------------------------------------------
(* No change is lost: what LastChangeArrives rests on.                       *)

\* The notification an operation is sent, and whether the main thread has it
\* still to take.
Trigger(op) == [do |-> "notify", name |-> Name(op), key |-> issued[op]]

Waits(op) == \E i \in 1 .. Len(tasks) : tasks[i] = Trigger(op)

HasResolve(op) == \E i \in 1 .. Len(jobs[op]) : jobs[op][i] = "resolve"

\* Something is on its way to make the operation read the attribute.
Underway(op) ==
    \/ pc[op] \in {"assign", "observe"}
    \/ Waits(op)
    \/ notifyTimer /\ issued[op] \in pending[Name(op)]
    \/ timer[op] # None
    \/ HasResolve(op)

\* The operation replied the value of the attribute, or is about to.
Current(op) ==
    IF pc[op] \in {"recheck", "reply"} /\ response[op] # Error
    THEN response[op] = version
    ELSE delivered[op] = version

\* A subscription that gets its deliveries: the schema knows it, it was not
\* stopped, and none of them was refused.
Served(op) == issued[op] # None /\ op \in registered /\ op \notin stopped \cup failed

\* A subscription is connected or will be, and it is current or the change it
\* has still to see is on its way.
Covered(op) ==
    /\ op \in connected \/ Underway(op)
    /\ Current(op) \/ Underway(op) \/ pc[op] = "read" \/ op \in emitting

CoveredInv == \A op \in Ops : Served(op) => Covered(op)

\* Nothing is left to do for anybody.
AtRest ==
    /\ tasks = <<>> /\ ~notifyTimer /\ emitting = {}
    /\ \A op \in Ops : pc[op] \in {"new", "idle"} /\ jobs[op] = <<>> /\ timer[op] = None

RestIsCurrent == AtRest => \A op \in Ops : Served(op) => delivered[op] = version

\* How the tasks of the main thread change, other than by MergeTriggers.
TasksGrow ==
    \/ UNCHANGED tasks
    \/ \E t \in Tasks : tasks' = Append(tasks, t)
    \/ tasks # <<>> /\ Head(tasks).do = "stop" /\ tasks' = Tail(tasks)

LEMMA TailKeepsTrigger ==
  ASSUME TypeOK, NEW op \in Ops, Waits(op), issued'[op] = issued[op],
         tasks # <<>>, Head(tasks) # Trigger(op), tasks' = Tail(tasks)
  PROVE  Waits(op)'
  <1>1. PICK i \in 1 .. Len(tasks) : tasks[i] = Trigger(op)
    BY DEF Waits
  <1>2. tasks \in Seq(Tasks)
    BY DEF TypeOK
  <1>3. i # 1
    BY <1>1, <1>2
  <1>4. i - 1 \in 1 .. Len(tasks') /\ tasks'[i - 1] = tasks[i]
    BY <1>2, <1>3
  <1>5. Trigger(op)' = Trigger(op)
    BY DEF Trigger
  <1> QED
    BY <1>1, <1>4, <1>5 DEF Waits

LEMMA AppendKeepsTrigger ==
  ASSUME TypeOK, NEW op \in Ops, issued'[op] = issued[op],
         NEW t \in Tasks, tasks' = Append(tasks, t), Waits(op) \/ t = Trigger(op)
  PROVE  Waits(op)'
  <1>1. tasks \in Seq(Tasks)
    BY DEF TypeOK
  <1>2. /\ Len(tasks') = Len(tasks) + 1 /\ tasks'[Len(tasks) + 1] = t
        /\ \A i \in 1 .. Len(tasks) : tasks'[i] = tasks[i]
    BY <1>1
  <1>3. Trigger(op)' = Trigger(op)
    BY DEF Trigger
  <1>4. Len(tasks) \in Nat
    BY <1>1
  <1>5. CASE Waits(op)
    <2>1. PICK i \in 1 .. Len(tasks) : tasks[i] = Trigger(op)
      BY <1>5 DEF Waits
    <2>2. i \in 1 .. Len(tasks') /\ tasks'[i] = Trigger(op)'
      BY <1>2, <1>3, <1>4, <2>1
    <2> QED
      BY <2>2 DEF Waits
  <1>6. CASE t = Trigger(op)
    <2>1. Len(tasks) + 1 \in 1 .. Len(tasks') /\ tasks'[Len(tasks) + 1] = Trigger(op)'
      BY <1>2, <1>3, <1>4, <1>6
    <2> QED
      BY <2>1 DEF Waits
  <1> QED
    BY <1>5, <1>6

LEMMA GrowKeepsTrigger ==
  ASSUME TypeOK, NEW op \in Ops, Waits(op), issued'[op] = issued[op], TasksGrow
  PROVE  Waits(op)'
  <1>1. CASE UNCHANGED tasks
    BY <1>1 DEF Waits, Trigger
  <1>2. CASE tasks # <<>> /\ Head(tasks).do = "stop" /\ tasks' = Tail(tasks)
    <2>1. Head(tasks) # Trigger(op)
      BY <1>2 DEF Trigger
    <2> QED
      BY <1>2, <2>1, TailKeepsTrigger
  <1> QED
    BY <1>1, <1>2, AppendKeepsTrigger DEF TasksGrow

\* How the jobs of an operation change without one of its resolutions begun.
JobsGrow(op) ==
    \/ jobs'[op] = jobs[op]
    \/ \E job \in Jobs : jobs'[op] = Append(jobs[op], job)
    \/ jobs[op] # <<>> /\ Head(jobs[op]) # "resolve" /\ jobs'[op] = Tail(jobs[op])

LEMMA GrowKeepsResolve ==
  ASSUME TypeOK, NEW op \in Ops, HasResolve(op), JobsGrow(op)
  PROVE  HasResolve(op)'
  <1>1. PICK i \in 1 .. Len(jobs[op]) : jobs[op][i] = "resolve"
    BY DEF HasResolve
  <1>2. jobs[op] \in Seq(Jobs)
    BY DEF TypeOK, Jobs
  <1>3. CASE jobs'[op] = jobs[op]
    BY <1>1, <1>3 DEF HasResolve
  <1>4. ASSUME NEW job \in Jobs, jobs'[op] = Append(jobs[op], job) PROVE HasResolve(op)'
    <2>1. i \in 1 .. Len(jobs'[op]) /\ jobs'[op][i] = "resolve"
      BY <1>1, <1>2, <1>4
    <2> QED
      BY <2>1 DEF HasResolve
  <1>5. CASE jobs[op] # <<>> /\ Head(jobs[op]) # "resolve" /\ jobs'[op] = Tail(jobs[op])
    <2>1. i # 1
      BY <1>1, <1>2, <1>5
    <2>2. /\ Len(Tail(jobs[op])) = Len(jobs[op]) - 1 /\ Len(jobs[op]) \in Nat
          /\ \A j \in 1 .. Len(jobs[op]) - 1 : Tail(jobs[op])[j] = jobs[op][j + 1]
      BY <1>2, <1>5
    <2>3. i - 1 \in 1 .. Len(jobs'[op]) /\ jobs'[op][i - 1] = "resolve"
      BY <1>1, <1>5, <2>1, <2>2
    <2> QED
      BY <2>3 DEF HasResolve
  <1> QED
    BY <1>3, <1>4, <1>5 DEF JobsGrow

\* A step that only adds to what is on its way ...
LEMMA UnderwayKept ==
  ASSUME TypeOK, NEW op \in Ops, Underway(op), issued'[op] = issued[op],
         pc'[op] = pc[op] \/ pc[op] \notin {"assign", "observe"},
         TasksGrow, JobsGrow(op), timer[op] # None => timer'[op] # None,
         UNCHANGED <<pending, notifyTimer>>
  PROVE  Underway(op)'
  BY GrowKeepsTrigger, GrowKeepsResolve DEF Underway

\* ... and changes nothing else of an operation.
LEMMA CoveredKept ==
  ASSUME TypeOK, NEW op \in Ops, Covered(op), issued'[op] = issued[op],
         pc'[op] = pc[op], response'[op] = response[op], delivered'[op] = delivered[op],
         version' = version, TasksGrow, JobsGrow(op), timer[op] # None => timer'[op] # None,
         UNCHANGED <<pending, notifyTimer>>,
         op \in connected => op \in connected', op \in emitting => op \in emitting'
  PROVE  Covered(op)'
  <1>1. Underway(op) => Underway(op)'
    BY UnderwayKept
  <1>2. Current(op) => Current(op)'
    BY DEF Current
  <1> QED
    BY <1>1, <1>2 DEF Covered

\* The main thread: what it takes from its tasks, or from a timer, it passes on.
LEMMA CoveredMerge ==
  ASSUME SubscriptionInv, CoveredInv, MergeTriggers
  PROVE  CoveredInv'
  <1> USE DEF schemaVars, opVars, mainVars, signalVars
  <1>0. TypeOK
    BY DEF SubscriptionInv
  <1> SUFFICES ASSUME NEW op \in Ops, Served(op)' PROVE Covered(op)'
    BY DEF CoveredInv
  <1>1. /\ tasks # <<>> /\ tasks' = Tail(tasks)
        /\ pending' = [pending EXCEPT ![Head(tasks).name] = @ \cup {Head(tasks).key}]
        /\ notifyTimer' = TRUE
        /\ UNCHANGED <<issued, registered, stopped, failed, pc, response, delivered, version, jobs, timer,
                       connected, emitting>>
    BY DEF MergeTriggers
  <1>2. Name(op) \in Names /\ Head(tasks).name \in Names
    BY <1>0, HeadOfTasks DEF MergeTriggers, Names
  <1>3. pending[Name(op)] \subseteq pending'[Name(op)]
    BY <1>0, <1>1, <1>2 DEF TypeOK
  <1>4. Underway(op) => Underway(op)'
    <2>1. CASE Waits(op) /\ Head(tasks) = Trigger(op)
      <3>1. Head(tasks).name = Name(op) /\ Head(tasks).key = issued[op]
        BY <2>1 DEF Trigger
      <3>2. issued'[op] \in pending'[Name(op)]
        BY <1>0, <1>1, <1>2, <3>1 DEF TypeOK
      <3> QED
        BY <1>1, <3>2 DEF Underway
    <2>2. CASE Waits(op) /\ Head(tasks) # Trigger(op)
      BY <1>0, <1>1, <2>2, TailKeepsTrigger DEF Underway
    <2>3. CASE ~Waits(op)
      BY <1>1, <1>3, <2>3 DEF Underway, HasResolve
    <2> QED
      BY <2>1, <2>2, <2>3
  <1>5. Covered(op)
    BY <1>1 DEF CoveredInv, Served
  <1>6. Current(op) => Current(op)'
    BY <1>1 DEF Current
  <1> QED
    BY <1>1, <1>4, <1>5, <1>6 DEF Covered

LEMMA CoveredDeliver ==
  ASSUME SubscriptionInv, CoveredInv, DeliverNotifications
  PROVE  CoveredInv'
  <1> USE DEF schemaVars, opVars, mainVars, signalVars
  <1>0. TypeOK /\ KeyInv
    BY DEF SubscriptionInv
  <1> SUFFICES ASSUME NEW op \in Ops, Served(op)' PROVE Covered(op)'
    BY DEF CoveredInv
  <1>1. /\ timer' = [o \in Ops |-> OnFutureSubscription(o)]
        /\ UNCHANGED <<issued, registered, stopped, failed, pc, response, delivered, version, jobs, tasks,
                       connected, emitting>>
    BY DEF DeliverNotifications
  <1>2. Served(op) /\ Covered(op)
    BY <1>1 DEF CoveredInv, Served
  <1>3. timer[op] # None => timer'[op] # None
    BY <1>1 DEF OnFutureSubscription
  <1>4. Underway(op) => Underway(op)'
    <2>1. CASE pc[op] \in {"assign", "observe"} \/ Waits(op) \/ timer[op] # None \/ HasResolve(op)
      BY <1>1, <1>3, <2>1 DEF Underway, Waits, Trigger, HasResolve
    <2>2. CASE pc[op] # "assign" /\ timer[op] = None /\ issued[op] \in pending[Name(op)]
      <3>1. op \in registered /\ key[op] = issued[op] /\ op \notin stopped
        BY <1>0, <1>2, <2>2 DEF Served, KeyInv
      <3>2. timer'[op] = Remaining(op)
        BY <1>1, <2>2, <3>1 DEF OnFutureSubscription, Triggered
      <3>3. timer'[op] # None
        BY <1>0, <3>2 DEF Remaining, TypeOK
      <3> QED
        BY <3>3 DEF Underway
    <2> QED
      BY <2>1, <2>2 DEF Underway
  <1>5. Current(op) => Current(op)'
    BY <1>1 DEF Current
  <1> QED
    BY <1>1, <1>2, <1>4, <1>5 DEF Covered

LEMMA CoveredMain ==
  ASSUME SubscriptionInv, CoveredInv,
         \/ \E op \in Ops : Start(op) \/ Stop(op) \/ DispatchPendingDelivery(op) \/ Joined(op)
         \/ RunStop
  PROVE  CoveredInv'
  <1> USE DEF schemaVars, opVars, mainVars, signalVars, GoTo
  <1>0. TypeOK
    BY DEF SubscriptionInv
  <1> SUFFICES ASSUME NEW q \in Ops, Served(q)' PROVE Covered(q)'
    BY DEF CoveredInv
  <1>1. ASSUME NEW op \in Ops, Start(op) PROVE Covered(q)'
    <2>1. issued[op] = None
      BY <1>1 DEF Start, SubscriptionInv, KeyInv
    <2>2. q # op /\ Served(q)
      BY <1>1, <2>1 DEF Start, Served
    <2>3. JobsGrow(q) /\ pc'[q] = pc[q]
      BY <1>0, <1>1, <2>2 DEF Start, JobsGrow, TypeOK
    <2> QED
      BY <1>0, <1>1, <2>2, <2>3, CoveredKept DEF Start, CoveredInv, TasksGrow
  <1>2. ASSUME NEW op \in Ops, BeginStop(op), TasksGrow,
               UNCHANGED <<issued, registered, failed, pc, response, delivered, version, pending, notifyTimer,
                           connected, emitting>>
        PROVE  Covered(q)'
    <2>1. q # op /\ Served(q)
      BY <1>2 DEF BeginStop, Served
    <2>2. JobsGrow(q) /\ timer'[q] = timer[q]
      BY <1>0, <1>2, <2>1 DEF BeginStop, JobsGrow, TypeOK
    <2> QED
      BY <1>0, <1>2, <2>1, <2>2, CoveredKept DEF CoveredInv
  <1>3. ASSUME NEW op \in Ops, Stop(op) PROVE Covered(q)'
    BY <1>2, <1>3 DEF Stop, TasksGrow
  <1>4. ASSUME UNCHANGED <<stopped, timer, jobs>>, TasksGrow,
               UNCHANGED <<issued, registered, failed, pc, response, delivered, version, pending, notifyTimer,
                           connected, emitting>>
        PROVE  Covered(q)'
    <2>1. Served(q) /\ JobsGrow(q)
      BY <1>4 DEF Served, JobsGrow
    <2> QED
      BY <1>0, <1>4, <2>1, CoveredKept DEF CoveredInv
  <1>5. CASE RunStop
    <2>1. Head(tasks).op \in Ops
      BY <1>0, <1>5, HeadOfTasks DEF RunStop
    <2>2. TasksGrow
      BY <1>5 DEF RunStop, TasksGrow
    <2> QED
      BY <1>2, <1>4, <1>5, <2>1, <2>2 DEF RunStop
  <1>6. ASSUME NEW op \in Ops, Joined(op) PROVE Covered(q)'
    BY <1>4, <1>6 DEF Joined, TasksGrow
  <1>7. ASSUME NEW op \in Ops, DispatchPendingDelivery(op) PROVE Covered(q)'
    <2>1. /\ jobs' = [jobs EXCEPT ![op] = Append(jobs[op], "resolve")]
          /\ timer' = [timer EXCEPT ![op] = None]
          /\ UNCHANGED <<issued, registered, stopped, failed, pc, response, delivered, version, tasks,
                         pending, notifyTimer, connected, emitting>>
      BY <1>7 DEF DispatchPendingDelivery
    <2>2. CASE q = op
      <3>1. jobs[q] \in Seq(Jobs) /\ jobs'[q] = Append(jobs[q], "resolve")
        BY <1>0, <2>1, <2>2 DEF TypeOK, Jobs
      <3>2. Len(jobs[q]) + 1 \in 1 .. Len(jobs'[q]) /\ jobs'[q][Len(jobs[q]) + 1] = "resolve"
        BY <3>1
      <3>3. HasResolve(q)'
        BY <3>2 DEF HasResolve
      <3> QED
        BY <3>3 DEF Covered, Underway
    <2>3. CASE q # op
      <3>1. Served(q) /\ JobsGrow(q) /\ timer'[q] = timer[q]
        BY <1>0, <2>1, <2>3 DEF Served, JobsGrow, TypeOK
      <3> QED
        BY <1>0, <2>1, <3>1, CoveredKept DEF CoveredInv, TasksGrow
    <2> QED
      BY <2>2, <2>3
  <1> QED
    BY <1>1, <1>3, <1>5, <1>6, <1>7

\* The attribute calls the slots of all that are connected.
LEMMA CoveredSignal ==
  ASSUME SubscriptionInv, CoveredInv, (\E op \in Ops : EmitSlot(op)) \/ SetValue \/ Tick
  PROVE  CoveredInv'
  <1> USE DEF schemaVars, opVars, mainVars, signalVars
  <1>0. TypeOK /\ KeyInv
    BY DEF SubscriptionInv
  <1> SUFFICES ASSUME NEW q \in Ops, Served(q)' PROVE Covered(q)'
    BY DEF CoveredInv
  <1>1. Served(q) /\ Covered(q)
    BY DEF Served, CoveredInv, EmitSlot, SetValue, Tick
  <1>2. CASE Tick
    <2>1. timer[q] # None => timer'[q] # None
      BY <1>0, <1>2 DEF Tick, TypeOK
    <2> QED
      BY <1>0, <1>1, <1>2, <2>1, CoveredKept DEF Tick, TasksGrow, JobsGrow
  <1>3. CASE SetValue
    <2>1. Underway(q) => Underway(q)'
      BY <1>0, <1>3, UnderwayKept DEF SetValue, TasksGrow, JobsGrow
    <2> QED
      BY <1>1, <1>3, <2>1 DEF SetValue, Covered
  <1>4. ASSUME NEW op \in Ops, EmitSlot(op) PROVE Covered(q)'
    <2>1. UNCHANGED <<issued, pc, response, delivered, version, jobs, timer, pending, notifyTimer,
                      connected>>
      BY <1>4 DEF EmitSlot
    <2>2. TasksGrow /\ (tasks' # tasks => op \in connected /\ Notify(op, key[op]))
      <3>1. CASE op \in connected
        <4>1. key[op] \in Nat
          BY <1>0, <3>1 DEF KeyInv
        <4>2. [do |-> "notify", name |-> Name(op), key |-> key[op]] \in Tasks
          BY <4>1 DEF Tasks, Names
        <4> QED
          BY <1>4, <3>1, <4>2 DEF EmitSlot, Notify, TasksGrow
      <3>2. CASE op \notin connected
        BY <1>4, <3>2 DEF EmitSlot, TasksGrow
      <3> QED
        BY <3>1, <3>2
    <2>3. CASE q = op /\ q \in connected /\ pc[q] # "assign"
      <3>1. key[q] = issued[q] /\ issued[q] \in Nat
        BY <1>0, <1>1, <2>3 DEF KeyInv, Served, TypeOK
      <3>2. tasks' = Append(tasks, Trigger(q)) /\ Trigger(q) \in Tasks
        BY <1>4, <2>3, <3>1 DEF EmitSlot, Notify, Trigger, Tasks, Names
      <3>3. Waits(q)'
        BY <1>0, <2>1, <3>2, AppendKeepsTrigger
      <3> QED
        BY <3>3 DEF Covered, Underway
    <2>4. CASE Underway(q)
      <3>1. Underway(q)'
        BY <1>0, <2>1, <2>2, <2>4, UnderwayKept DEF JobsGrow
      <3> QED
        BY <3>1 DEF Covered
    <2>5. CASE q # op
      <3>1. q \in emitting => q \in emitting'
        BY <1>4, <2>5 DEF EmitSlot
      <3> QED
        BY <1>0, <1>1, <2>1, <2>2, <3>1, CoveredKept DEF JobsGrow
    <2> QED
      BY <1>1, <2>3, <2>4, <2>5 DEF Covered, Underway
  <1> QED
    BY <1>2, <1>3, <1>4

\* An operation that begins a job: its resolution reads, and what made it run
\* may go.
LEMMA CoveredBegin ==
  ASSUME SubscriptionInv, CoveredInv, NEW q \in Ops, Served(q)',
         Begin(q, "subscribe", "subscribe") \/ Begin(q, "resolve", "observe")
  PROVE  Covered(q)'
  <1> USE DEF schemaVars, opVars, mainVars, signalVars, GoTo
  <1>0. TypeOK
    BY DEF SubscriptionInv
  <1>1. /\ pc[q] = "idle" /\ jobs[q] # <<>> /\ jobs'[q] = Tail(jobs[q])
        /\ UNCHANGED <<issued, registered, stopped, failed, response, delivered, version, tasks, timer,
                       pending, notifyTimer, connected, emitting>>
    BY <1>0 DEF Begin, TypeOK
  <1>2. Served(q) /\ Covered(q) /\ q \notin stopped
    BY <1>1 DEF Served, CoveredInv
  <1>3. CASE Begin(q, "resolve", "observe")
    <2>1. pc'[q] = "observe"
      BY <1>0, <1>2, <1>3 DEF Begin, TypeOK
    <2> QED
      BY <2>1 DEF Covered, Underway
  <1>4. CASE Begin(q, "subscribe", "subscribe")
    <2>1. pc'[q] = "subscribe" /\ JobsGrow(q)
      BY <1>0, <1>1, <1>2, <1>4 DEF Begin, TypeOK, JobsGrow
    <2>2. Underway(q) => Underway(q)'
      BY <1>0, <1>1, <2>1, UnderwayKept DEF TasksGrow
    <2>3. Current(q) => Current(q)'
      BY <1>1, <2>1 DEF Current
    <2> QED
      BY <1>1, <1>2, <2>2, <2>3 DEF Covered
  <1> QED
    BY <1>3, <1>4

\* What is on its way to an operation stays so while it is in a job, unless it
\* reads.
LEMMA CoveredMoves ==
  ASSUME SubscriptionInv, CoveredInv, NEW q \in Ops, Moves(q), Served(q)'
  PROVE  Covered(q)'
  <1> USE DEF schemaVars, opVars, mainVars, signalVars, GoTo, Finish
  <1>0. TypeOK
    BY DEF SubscriptionInv
  <1>1. UNCHANGED <<issued, registered, stopped, jobs, timer, connected>>
    BY <1>0, MovesEffect
  <1>2. UNCHANGED <<version, emitting, pending, notifyTimer>> /\ q \notin stopped \cup failed
    BY <1>1 DEF Moves, SubscribeThrows, RefuseSubscription, PermissionFails, Read, Recheck, Reply,
       Served
  <1>3. Served(q) /\ Covered(q)
    BY <1>1, <1>2 DEF Served, CoveredInv
  <1>4. CASE PermissionFails(q)
    BY <1>4 DEF PermissionFails, Served
  <1>5. CASE ~PermissionFails(q)
    <2>1. pc[q] \notin {"assign", "observe"} /\ TasksGrow
      <3>1. CASE Reply(q)
        BY <1>2, <3>1 DEF Reply, TasksGrow
      <3>2. CASE ~Reply(q)
        BY <1>5, <3>2 DEF Moves, SubscribeThrows, RefuseSubscription, Read, Recheck, TasksGrow
      <3> QED
        BY <3>1, <3>2
    <2>2. Underway(q) => Underway(q)'
      BY <1>0, <1>1, <1>2, <2>1, UnderwayKept DEF JobsGrow
    <2>3. CASE SubscribeThrows(q)
      <3>1. pc[q] = "subscribe" /\ pc'[q] = "refuse" /\ UNCHANGED delivered
        BY <1>0, <2>3 DEF SubscribeThrows, TypeOK
      <3> QED
        BY <1>1, <1>2, <1>3, <2>2, <3>1 DEF Covered, Current
    <2>4. CASE RefuseSubscription(q)
      <3>1. /\ pc[q] = "refuse" /\ pc'[q] = "recheck" /\ response'[q] = Error
            /\ UNCHANGED delivered
        BY <1>0, <1>2, <2>4 DEF RefuseSubscription, TypeOK
      <3> QED
        BY <1>1, <1>2, <1>3, <2>2, <3>1 DEF Covered, Current
    <2>5. CASE Read(q)
      <3>1. pc'[q] = "recheck" /\ response'[q] = version
        BY <1>0, <2>5 DEF Read, TypeOK
      <3>2. Current(q)'
        BY <1>0, <1>2, <3>1 DEF Current, TypeOK
      <3> QED
        BY <1>1, <1>3, <2>2, <3>2 DEF Covered
    <2>6. CASE Recheck(q)
      <3>1. pc[q] = "recheck" /\ pc'[q] = "reply" /\ UNCHANGED <<response, delivered>>
        BY <1>0, <1>2, <2>6 DEF Recheck, TypeOK
      <3> QED
        BY <1>1, <1>2, <1>3, <2>2, <3>1 DEF Covered, Current
    <2>7. CASE Reply(q)
      <3>1. /\ pc[q] = "reply" /\ pc'[q] = "idle"
            /\ delivered'[q] = IF response[q] = Error THEN delivered[q] ELSE response[q]
        BY <1>0, <1>2, <2>7 DEF Reply, TypeOK
      <3> QED
        BY <1>1, <1>2, <1>3, <2>2, <3>1 DEF Covered, Current
    <2> QED
      BY <1>5, <2>3, <2>4, <2>5, <2>6, <2>7 DEF Moves
  <1> QED
    BY <1>4, <1>5

\* What an operation does itself.
LEMMA CoveredOwn ==
  ASSUME SubscriptionInv, ActiveInv, CoveredInv, NEW q \in Ops, ThreadStep(q), Served(q)'
  PROVE  Covered(q)'
  <1> USE DEF schemaVars, opVars, mainVars, signalVars, GoTo
  <1>0. TypeOK
    BY DEF SubscriptionInv
  <1>1. CASE Subscribe(q)
    <2>1. pc'[q] = "assign"
      BY <1>0, <1>1 DEF Subscribe, TypeOK
    <2> QED
      BY <2>1 DEF Covered, Underway
  <1>2. CASE AssignKey(q)
    <2>1. issued[q] \in Nat
      BY <1>0, <1>2 DEF AssignKey, Served, TypeOK
    <2>2. Trigger(q) \in Tasks /\ tasks' = Append(tasks, Trigger(q)) /\ issued'[q] = issued[q]
      BY <1>2, <2>1 DEF AssignKey, Notify, Trigger, Tasks, Names
    <2>3. Waits(q)'
      BY <1>0, <2>2, AppendKeepsTrigger
    <2> QED
      BY <2>3 DEF Covered, Underway
  <1>3. CASE Observe(q)
    <2>1. pc'[q] = "read" /\ q \in connected'
      BY <1>0, <1>3 DEF Observe, TypeOK
    <2> QED
      BY <2>1 DEF Covered
  <1>4. CASE Unsubscribe(q)
    <2>1. q \notin stopped /\ jobs[q] # <<>> /\ Head(jobs[q]) = "unsubscribe"
      BY <1>4 DEF Unsubscribe, Served
    <2>2. jobs[q] \in Seq(Jobs)
      BY <1>0 DEF TypeOK, Jobs
    <2>3. 1 \in 1 .. Len(jobs[q]) /\ jobs[q][1] = "unsubscribe"
      BY <2>1, <2>2
    <2> QED
      BY <2>1, <2>3 DEF ActiveInv
  <1> QED
    BY <1>1, <1>2, <1>3, <1>4, CoveredBegin, CoveredMoves DEF ThreadStep, Moves

\* What the threads of others do.
LEMMA CoveredOther ==
  ASSUME SubscriptionInv, ActiveInv, CoveredInv, NEW op \in Ops, ThreadStep(op),
         NEW q \in Ops \ {op}, Served(q)'
  PROVE  Covered(q)'
  <1> USE DEF schemaVars, opVars, mainVars, signalVars, GoTo, Finish
  <1>0. TypeOK
    BY DEF SubscriptionInv
  <1>1. UNCHANGED <<stopped, timer, version, emitting, pending, notifyTimer>>
    BY DEF ThreadStep, Begin, Subscribe, SubscribeThrows, RefuseSubscription, AssignKey,
       Observe, PermissionFails, Read, Recheck, Reply, Unsubscribe
  <1>2. /\ pc'[q] = pc[q] /\ issued'[q] = issued[q] /\ jobs'[q] = jobs[q]
        /\ q \in connected => q \in connected'
    <2> DEFINE Same == /\ pc'[q] = pc[q] /\ issued'[q] = issued[q] /\ jobs'[q] = jobs[q]
                       /\ q \in connected => q \in connected'
    <2>1. ASSUME NEW job, NEW label, Begin(op, job, label) PROVE Same
      <3>1. /\ pc' = pc \/ pc' = [pc EXCEPT ![op] = label]
            /\ jobs' = [jobs EXCEPT ![op] = Tail(jobs[op])]
            /\ UNCHANGED <<issued, connected>>
        BY <2>1 DEF Begin
      <3> QED
        BY <1>0, <3>1 DEF TypeOK
    <2>2. CASE Subscribe(op)
      BY <1>0, <2>2 DEF Subscribe, TypeOK
    <2>3. CASE AssignKey(op)
      BY <1>0, <2>3 DEF AssignKey, TypeOK
    <2>4. CASE Observe(op)
      BY <1>0, <2>4 DEF Observe, TypeOK
    <2>5. CASE Unsubscribe(op)
      BY <1>0, <2>5 DEF Unsubscribe, TypeOK
    <2>6. CASE Moves(op)
      <3>1. PICK label : pc' = [pc EXCEPT ![op] = label]
        BY <1>0, <2>6, MovesEffect
      <3>2. UNCHANGED <<issued, jobs, connected>>
        BY <1>0, <2>6, MovesEffect
      <3> QED
        BY <1>0, <3>1, <3>2 DEF TypeOK
    <2> QED
      BY <2>1, <2>2, <2>3, <2>4, <2>5, <2>6 DEF ThreadStep, Moves
  <1>3. response'[q] = response[q] /\ delivered'[q] = delivered[q] /\ (q \in failed => q \in failed')
    BY <1>0 DEF ThreadStep, Begin, Subscribe, SubscribeThrows, RefuseSubscription, AssignKey,
       Observe, PermissionFails, Read, Recheck, Reply, Unsubscribe, TypeOK
  <1>4. TasksGrow
    <2>1. CASE AssignKey(op)
      <3>1. [do |-> "notify", name |-> Name(op), key |-> issued[op]] \in Tasks
        BY <2>1 DEF AssignKey, SubscriptionInv, KeyInv, Tasks, Names
      <3> QED
        BY <2>1, <3>1 DEF AssignKey, Notify, TasksGrow
    <2>2. CASE Reply(op)
      <3>1. [do |-> "stop", op |-> op] \in Tasks
        BY DEF Tasks
      <3> QED
        BY <2>2, <3>1 DEF Reply, TasksGrow
    <2>3. CASE ~AssignKey(op) /\ ~Reply(op)
      BY <2>3 DEF ThreadStep, Begin, Subscribe, SubscribeThrows, RefuseSubscription, Observe,
         PermissionFails, Read, Recheck, Unsubscribe, TasksGrow
    <2> QED
      BY <2>1, <2>2, <2>3
  <1>5. q \in registered' => q \in registered
    BY DEF ThreadStep, Begin, Subscribe, SubscribeThrows, RefuseSubscription, AssignKey,
       Observe, PermissionFails, Read, Recheck, Reply, Unsubscribe
  <1>6. Served(q) /\ Covered(q) /\ JobsGrow(q)
    BY <1>1, <1>2, <1>3, <1>5 DEF Served, CoveredInv, JobsGrow
  <1> QED
    BY <1>0, <1>1, <1>2, <1>3, <1>4, <1>6, CoveredKept

\* When all is quiet every subscription that the schema delivers to, and that
\* was not refused, has replied the value of the attribute, however
\* notifications were merged, timers set and resolutions interrupted by changes.
THEOREM NoChangeIsLost == Spec => []RestIsCurrent
  <1>1. Init => CoveredInv
    BY DEF Init, CoveredInv, Served
  <1>2. SubscriptionInv /\ ActiveInv /\ CoveredInv /\ [Next]_vars => CoveredInv'
    <2> SUFFICES ASSUME SubscriptionInv, ActiveInv, CoveredInv, [Next]_vars PROVE CoveredInv'
      OBVIOUS
    <2>1. CASE Quiet \/ UNCHANGED vars
      BY <2>1 DEF Quiet, vars, schemaVars, opVars, mainVars, signalVars, CoveredInv, Served,
         Covered, Underway, Waits, Trigger, HasResolve, Current
    <2>2. ASSUME NEW op \in Ops, ThreadStep(op) PROVE CoveredInv'
      <3>1. ASSUME NEW q \in Ops, Served(q)' PROVE Covered(q)'
        BY <2>2, <3>1, CoveredOwn, CoveredOther
      <3> QED
        BY <3>1 DEF CoveredInv
    <2> QED
      BY <2>1, <2>2, CoveredMain, CoveredMerge, CoveredDeliver, CoveredSignal
         DEF Next, ClientStep, TaskStep
  <1>3. TypeOK /\ CoveredInv => RestIsCurrent
    <2> SUFFICES ASSUME TypeOK, CoveredInv, AtRest, NEW op \in Ops, Served(op)
                 PROVE  delivered[op] = version
      BY DEF RestIsCurrent
    <2>1. ~Underway(op) /\ op \notin emitting /\ pc[op] \notin {"read", "recheck", "reply"}
      BY DEF AtRest, Underway, Waits, HasResolve
    <2> QED
      BY <2>1 DEF CoveredInv, Covered, Current
  <1>4. SubscriptionInv => TypeOK
    BY DEF SubscriptionInv
  <1> QED
    BY <1>1, <1>2, <1>3, <1>4, ActiveInit, ActiveStep, SubscriptionAlways, PTL DEF Spec
=============================================================================
