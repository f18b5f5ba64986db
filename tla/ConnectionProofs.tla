---------------------------- MODULE ConnectionProofs ----------------------------
(***************************************************************************)
(* Proofs about Connection, for any number of connections, operations and  *)
(* pool threads.                                                           *)
(***************************************************************************)
EXTENDS Connection, TLAPS

\* These only name a part of the actions they occur in.
USE DEF StopOperations, Make, HandleRequest, storageVars, Forget, ScheduleGarbageCollect,
        GetSingleton, CloseConnections

\* A connection that has its handlers, or had none yet, is the only one that
\* maps operations; an operation is mapped by the connection it belongs to.
MapInv ==
    /\ \A c \in Conns, id \in Ids :
         operations[c][id] # None =>
             /\ c \in handlers
             /\ owner[operations[c][id]] = c
             /\ pc[operations[c][id]] # "free"
    /\ \A op \in Ops : pc[op] # "free" => owner[op] \in Conns
    /\ \A c \in Conns : /\ conState[c] = "open" => c \in handlers
                        /\ conState[c] = "handshake" => c \notin handlers
    /\ main.do = "clear" =>
         /\ main.con \in Conns
         /\ conState[main.con] \in {"closing", "closed"}
         /\ operations[main.con] = NoOperations

\* What a job has copied, once it has looked at m_handlers.
CopyInv ==
    \A op \in Ops :
        /\ pc[op] = "check" => op \in replies \cup stopped
        /\ pc[op] \in {"resolve", "data", "complete", "autostop"} => op \in replies

\* The pool holds each job once, and only jobs that were not taken.
PoolInv ==
    \A i \in DOMAIN pool :
        /\ pc[pool[i]] = "queued"
        /\ \A j \in DOMAIN pool : pool[i] = pool[j] => i = j

\* The inductive invariant of the operations.
JobInv == TypeOK /\ MapInv /\ NothingUnstoppable /\ CopyInv /\ PoolInv

-----------------------------------------------------------------------------
\* The empty server.
LEMMA JobInvInit == Init => JobInv
<1> SUFFICES ASSUME Init PROVE JobInv
  OBVIOUS
<1>1. TypeOK
  <2>1. singleton \in BOOLEAN /\ users \subseteq Ops /\ collectTimer \in BOOLEAN
    BY DEF Init
  <2> QED
    BY <2>1, ConnectionAssumption DEF Init, TypeOK, NoOperations, Loop, Conns, Tasks
<1>2. MapInv /\ NothingUnstoppable /\ CopyInv /\ PoolInv
  BY ConnectionAssumption
     DEF Init, PoolInv, MapInv, NothingUnstoppable, CopyInv, NoOperations, Loop, Conns
<1> QED
  BY <1>1, <1>2 DEF JobInv

\* What is registered is what some connection maps.
LEMMA RegisteredOps ==
    ASSUME TypeOK, NEW op \in Ops
    PROVE  Registered(op) <=> \E c \in Conns, id \in Ids : operations[c][id] = op
BY ConnectionAssumption DEF Registered, Mapped, TypeOK

\* Steps that neither move a job nor change what a connection maps.
LEMMA OtherJobInv ==
    ASSUME JobInv, TypeOK', UNCHANGED <<operations, owner, pc, replies, pool>>,
           stopped \subseteq stopped', handlers \subseteq handlers',
           \A c \in Conns : /\ conState'[c] = "open" => c \in handlers'
                            /\ conState'[c] = "handshake" => c \notin handlers',
           main'.do = "clear" => main' = main /\ conState'[main.con] \in {"closing", "closed"}
    PROVE  JobInv'
<1> USE DEF JobInv
<1>1. MapInv'
  <2>1. \A c \in Conns, id \in Ids :
          operations'[c][id] # None =>
             /\ c \in handlers'
             /\ owner'[operations'[c][id]] = c
             /\ pc'[operations'[c][id]] # "free"
    BY DEF MapInv
  <2>2. \A op \in Ops : pc'[op] # "free" => owner'[op] \in Conns
    BY DEF MapInv
  <2>3. main'.do = "clear" =>
             /\ main'.con \in Conns
             /\ conState'[main'.con] \in {"closing", "closed"}
             /\ operations'[main'.con] = NoOperations
    BY DEF MapInv
  <2> QED
    BY <2>1, <2>2, <2>3 DEF MapInv
<1>2. NothingUnstoppable' /\ CopyInv' /\ PoolInv'
  BY DEF NothingUnstoppable, CopyInv, PoolInv, Registered, Mapped
<1> QED
  BY <1>1, <1>2

\* setup() of a connection.
LEMMA SetupJobInv ==
    ASSUME JobInv, NEW c \in Conns, Setup(c), TypeOK', Idle, UNCHANGED <<operations, owner, pc,
           replies, pool, stopped, main>>
    PROVE  JobInv'
<1>1. main'.do # "clear"
  BY DEF Idle, Loop
<1>2. \A d \in Conns : /\ conState'[d] = "open" => d \in handlers'
                       /\ conState'[d] = "handshake" => d \notin handlers'
  BY DEF Setup, JobInv, TypeOK, MapInv
<1>3. handlers \subseteq handlers' /\ stopped \subseteq stopped'
  BY DEF Setup
<1> QED
  BY <1>1, <1>2, <1>3, OtherJobInv

\* A new operation is mapped by a connection that has its handlers.
LEMMA AddOperationJobInv ==
    ASSUME JobInv, Idle, NEW c \in Conns, NEW id \in Ids, NEW op \in Ops,
           AddOperation(c, id, op), operations[c][id] = None,
           UNCHANGED main, c \in handlers', handlers \subseteq handlers',
           \A d \in Conns : /\ conState'[d] = "open" => d \in handlers'
                            /\ conState'[d] = "handshake" => d \notin handlers',
           TypeOK'
    PROVE  JobInv'
<1> USE DEF JobInv, AddOperation
<1>1. MapInv'
  <2>1. ASSUME NEW d \in Conns, NEW i \in Ids, operations'[d][i] # None
        PROVE  /\ d \in handlers'
               /\ owner'[operations'[d][i]] = d
               /\ pc'[operations'[d][i]] # "free"
    <3>1. CASE d = c /\ i = id
      BY <3>1 DEF TypeOK
    <3>2. CASE ~(d = c /\ i = id)
      <4>1. operations'[d][i] = operations[d][i] /\ operations[d][i] \in Ops
        BY <2>1, <3>2 DEF TypeOK
      <4> QED
        BY <2>1, <4>1 DEF MapInv, TypeOK
    <3> QED
      BY <3>1, <3>2
  <2>2. \A q \in Ops : pc'[q] # "free" => owner'[q] \in Conns
    BY DEF MapInv, TypeOK
  <2>3. main'.do # "clear"
    BY DEF Idle, Loop
  <2> QED
    BY <2>1, <2>2, <2>3 DEF MapInv
<1>2. NothingUnstoppable'
  <2> SUFFICES ASSUME NEW q \in Ops, pc'[q] \notin {"free", "done"}
               PROVE  (\E d \in Conns, i \in Ids : operations'[d][i] = q) \/ q \in stopped'
    BY RegisteredOps DEF NothingUnstoppable, Registered, Mapped
  <2>1. CASE q = op
    BY <2>1 DEF TypeOK
  <2>2. CASE q # op
    <3>1. Registered(q) \/ q \in stopped
      BY <2>2 DEF NothingUnstoppable, TypeOK
    <3> QED
      BY <2>2, <3>1, RegisteredOps, ConnectionAssumption DEF TypeOK
  <2> QED
    BY <2>1, <2>2
<1>3. CopyInv'
  BY DEF CopyInv, TypeOK
<1>4. PoolInv'
  <2>1. \A i \in DOMAIN pool : pool[i] \in Ops /\ pool[i] # op /\ pool'[i] = pool[i]
    BY DEF PoolInv, TypeOK
  <2>2. DOMAIN pool' = DOMAIN pool \cup {Len(pool) + 1} /\ pool'[Len(pool) + 1] = op
    BY DEF TypeOK
  <2> QED
    BY <2>1, <2>2 DEF PoolInv, TypeOK
<1> QED
  BY <1>1, <1>2, <1>3, <1>4

\* A job moves on: what is mapped does not change.
LEMMA MoveJobInv ==
    ASSUME JobInv, TypeOK', NEW op \in Ops, pc[op] # "free", pc'[op] # "free",
           pc[op] = "done" => pc'[op] = "done",
           \A q \in Ops \ {op} : pc'[q] = pc[q] /\ (q \in replies => q \in replies'),
           pc'[op] = "check" => op \in replies' \cup stopped',
           pc'[op] \in {"resolve", "data", "complete", "autostop"} => op \in replies',
           stopped \subseteq stopped', UNCHANGED <<operations, owner, handlers, conState, main>>,
           (pool' = pool /\ pc[op] # "queued") \/ PoolInv'
    PROVE  JobInv'
<1> USE DEF JobInv
<1>1. MapInv'
  BY DEF MapInv, TypeOK
<1>2. NothingUnstoppable'
  BY DEF NothingUnstoppable, Registered, Mapped
<1>3. CopyInv'
  BY DEF CopyInv, TypeOK
<1>4. PoolInv'
  BY DEF PoolInv, TypeOK
<1> QED
  BY <1>1, <1>2, <1>3, <1>4

\* STOP takes an operation out of the map of its connection and stops it.
LEMMA OnStopJobInv ==
    ASSUME JobInv, NEW c \in Conns, NEW id \in Ids, OnStop(c, id)
    PROVE  JobInv'
<1> USE DEF JobInv, OnStop
<1>1. TypeOK'
  BY DEF TypeOK, opVars, conVars, clientVars
<1>2. MapInv'
  BY ConnectionAssumption DEF MapInv, TypeOK, Idle, Loop
<1>3. NothingUnstoppable'
  <2> SUFFICES ASSUME NEW q \in Ops, pc'[q] \notin {"free", "done"}
               PROVE  (\E d \in Conns, i \in Ids : operations'[d][i] = q) \/ q \in stopped'
    BY <1>1, ConnectionAssumption DEF NothingUnstoppable, Registered, Mapped
  <2>1. (\E d \in Conns, i \in Ids : operations[d][i] = q) \/ q \in stopped
    BY RegisteredOps DEF NothingUnstoppable
  <2> QED
    BY <2>1 DEF TypeOK
<1>4. CopyInv' /\ PoolInv'
  BY DEF CopyInv, PoolInv
<1> QED
  BY <1>1, <1>2, <1>3, <1>4

\* The first half of tearDown() stops what it takes out of the map.
LEMMA DoneJobInv ==
    ASSUME JobInv, TypeOK', NEW c \in Conns, Done(c), UNCHANGED <<handlers, owner, pc, replies, pool>>,
           conState' = [conState EXCEPT ![c] = "closing"] \/ conState' = [conState EXCEPT ![c] = "closed"]
    PROVE  JobInv'
<1> USE DEF JobInv, Done
<1>1. MapInv'
  BY ConnectionAssumption DEF MapInv, TypeOK, NoOperations
<1>2. NothingUnstoppable'
  <2> SUFFICES ASSUME NEW q \in Ops, pc'[q] \notin {"free", "done"}
               PROVE  (\E d \in Conns, i \in Ids : operations'[d][i] = q) \/ q \in stopped'
    BY ConnectionAssumption DEF NothingUnstoppable, Registered, Mapped
  <2>1. (\E d \in Conns, i \in Ids : operations[d][i] = q) \/ q \in stopped
    BY RegisteredOps DEF NothingUnstoppable
  <2>2. CASE q \in stopped
    BY <2>2
  <2>3. ASSUME NEW d \in Conns, NEW i \in Ids, operations[d][i] = q
        PROVE  operations'[d][i] = q \/ q \in stopped'
    <3>1. CASE d = c
      <4>1. q \in Mapped(c)
        BY <2>3, <3>1, ConnectionAssumption DEF Mapped
      <4> QED
        BY <4>1
    <3>2. CASE d # c
      BY <2>3, <3>2 DEF TypeOK
    <3> QED
      BY <3>1, <3>2
  <2> QED
    BY <2>1, <2>2, <2>3
<1>3. CopyInv' /\ PoolInv'
  BY DEF CopyInv, PoolInv
<1> QED
  BY <1>1, <1>2, <1>3

\* stopListening() stops what it takes out of the maps.
LEMMA StopConnectionsJobInv ==
    ASSUME JobInv, StopConnections
    PROVE  JobInv'
<1> USE DEF JobInv, StopConnections, Run
<1>1. TypeOK'
  BY ConnectionAssumption DEF TypeOK, Mapped, NoOperations, clientVars
<1>2. MapInv'
  BY ConnectionAssumption DEF MapInv, TypeOK, NoOperations
<1>3. NothingUnstoppable'
  <2> SUFFICES ASSUME NEW q \in Ops, pc'[q] \notin {"free", "done"}
               PROVE  (\E d \in Conns, i \in Ids : operations'[d][i] = q) \/ q \in stopped'
    BY ConnectionAssumption DEF NothingUnstoppable, Registered, Mapped
  <2>1. (\E d \in Conns, i \in Ids : operations[d][i] = q) \/ q \in stopped
    BY RegisteredOps DEF NothingUnstoppable
  <2>2. ASSUME NEW d \in Conns, NEW i \in Ids, operations[d][i] = q
        PROVE  operations'[d][i] = q \/ q \in stopped'
    <3>1. CASE d \in connections
      <4>1. q \in Mapped(d)
        BY <2>2, ConnectionAssumption DEF Mapped
      <4> QED
        BY <3>1, <4>1
    <3>2. CASE d \notin connections
      BY <2>2, <3>2 DEF TypeOK
    <3> QED
      BY <3>1, <3>2
  <2> QED
    BY <2>1, <2>2
<1>4. CopyInv' /\ PoolInv'
  BY DEF CopyInv, PoolInv
<1> QED
  BY <1>1, <1>2, <1>3, <1>4

\* The steps of the main thread that concern no operation.
LEMMA MainJobInv ==
    ASSUME JobInv, \/ \E c \in WebSockets : OnOtherMessage(c)
                   \/ \E c \in HttpRequests : HttpWritten(c)
                   \/ ClearHandlers \/ SendReply \/ CloseOnRequest \/ StopListening \/ PoolJoined
                   \/ GarbageCollect
    PROVE  JobInv'
<1> USE DEF JobInv
<1>0. WebSockets \subseteq Conns /\ HttpRequests \subseteq Conns
  BY DEF Conns
<1>1. ASSUME NEW c \in WebSockets, OnOtherMessage(c) PROVE JobInv'
  <2>1. TypeOK'
    BY <1>1 DEF OnOtherMessage, TypeOK, Tasks, Task, Defer, conVars, opVars, clientVars
  <2> QED
    BY <1>1, <2>1, OtherJobInv
       DEF OnOtherMessage, Idle, Loop, MapInv, conVars, opVars
<1>2. ASSUME NEW c \in HttpRequests, HttpWritten(c) PROVE JobInv'
  <2>1. TypeOK'
    BY <1>0, <1>2 DEF HttpWritten, TypeOK, opVars, clientVars
  <2> QED
    BY <1>0, <1>2, <2>1, OtherJobInv
       DEF HttpWritten, Idle, Loop, MapInv, TypeOK, opVars
<1>3. CASE ClearHandlers
  <2>1. TypeOK'
    BY <1>3 DEF ClearHandlers, Loop, TypeOK, opVars, clientVars
  <2>2. MapInv'
    <3>1. main'.do # "clear"
      BY <1>3 DEF ClearHandlers, Loop
    <3>2. \A id \in Ids : operations[main.con][id] = None
      BY <1>3 DEF ClearHandlers, MapInv, NoOperations
    <3> QED
      BY <1>3, <3>1, <3>2 DEF ClearHandlers, MapInv, opVars
  <2>3. NothingUnstoppable' /\ CopyInv' /\ PoolInv'
    BY <1>3 DEF ClearHandlers, NothingUnstoppable, CopyInv, PoolInv, Registered, Mapped, opVars
  <2> QED
    BY <2>1, <2>2, <2>3
<1>4. CASE SendReply
  <2>1. TypeOK'
    <3>1. Head(tasks) \in Tasks /\ tasks' \in Seq(Tasks)
      BY <1>4 DEF SendReply, Run, TypeOK
    <3>2. Head(tasks).kind # "answer" =>
            Head(tasks).kind \in {"data", "complete"} /\ Head(tasks).op \in Ops
      BY <1>4, <3>1 DEF SendReply, Run, Tasks
    <3>3. sent' \in [Ops -> Seq({"data", "complete"})]
      BY <1>4, <3>2 DEF SendReply, TypeOK
    <3> QED
      BY <1>4, <3>1, <3>3 DEF SendReply, TypeOK, conVars, opVars
  <2> QED
    BY <1>4, <2>1, OtherJobInv
       DEF SendReply, Run, Idle, Loop, MapInv, conVars, opVars
<1>5. CASE CloseOnRequest
  <2>0. Head(tasks) \in Tasks /\ Head(tasks).kind = "close" /\ tasks' \in Seq(Tasks)
    BY <1>5 DEF CloseOnRequest, Run, TypeOK
  <2>1. Head(tasks).con \in Conns /\ tasks' \in Seq(Tasks)
    BY <1>0, <2>0 DEF Tasks
  <2>2. TypeOK'
    BY <1>5, <2>1 DEF CloseOnRequest, TypeOK, opVars, clientVars
  <2>3. \A c \in Conns : /\ conState'[c] = "open" => conState[c] = "open"
                         /\ conState'[c] = "handshake" => conState[c] = "handshake"
    BY <1>5, <2>1 DEF CloseOnRequest, TypeOK
  <2> QED
    BY <1>5, <2>2, <2>3, OtherJobInv DEF CloseOnRequest, Run, Idle, Loop, MapInv, opVars
<1>6. CASE StopListening
  <2>1. TypeOK'
    BY <1>6 DEF StopListening, TypeOK, Tasks, Task, Defer, conVars, opVars, clientVars
  <2> QED
    BY <1>6, <2>1, OtherJobInv DEF StopListening, Idle, Loop, MapInv, conVars, opVars
<1>7. CASE PoolJoined
  <2>1. TypeOK'
    BY <1>7 DEF PoolJoined, Loop, TypeOK, opVars, clientVars
  <2>2. main'.do # "clear"
    BY <1>7 DEF PoolJoined, Loop
  <2>3. \A c \in Conns : /\ conState'[c] = "open" => conState[c] = "open"
                         /\ conState'[c] = "handshake" => conState[c] = "handshake"
    BY <1>7 DEF PoolJoined, TypeOK
  <2> QED
    BY <1>7, <2>1, <2>2, <2>3, OtherJobInv DEF PoolJoined, MapInv, opVars
<1>8. CASE GarbageCollect
  <2>1. TypeOK'
    BY <1>8 DEF GarbageCollect, TypeOK, conVars, opVars, clientVars
  <2> QED
    BY <1>8, <2>1, OtherJobInv DEF GarbageCollect, Idle, Loop, MapInv, conVars, opVars
<1> QED
  BY <1>1, <1>2, <1>3, <1>4, <1>5, <1>6, <1>7, <1>8

\* The steps of a job, on a pool thread.
LEMMA JobStepJobInv ==
    ASSUME JobInv, TakeJob \/ \E op \in Ops : JobStep(op) \/ ResolveThrows(op)
    PROVE  JobInv'
<1> USE DEF JobInv
<1>1. CASE TakeJob
  <2>1. TypeOK'
    BY <1>1 DEF TakeJob, GoTo, TypeOK, conVars, clientVars
  <2>2. Head(pool) \in Ops /\ Head(pool) = pool[1] /\ 1 \in DOMAIN pool
    BY <1>1 DEF TakeJob, TypeOK
  <2>3. pc[Head(pool)] = "queued"
    BY <2>2 DEF PoolInv
  <2>4. PoolInv'
    <3>1. \A i \in DOMAIN pool' : i + 1 \in DOMAIN pool /\ pool'[i] = pool[i + 1] /\ i # 0 /\ i \in Nat
      BY <1>1 DEF TakeJob, TypeOK
    <3> QED
      BY <1>1, <2>2, <3>1 DEF TakeJob, GoTo, PoolInv, TypeOK
  <2> QED
    BY <1>1, <2>1, <2>2, <2>3, <2>4, MoveJobInv DEF TakeJob, GoTo, TypeOK, conVars
<1>2. ASSUME NEW op \in Ops, CopyOnReply(op) PROVE JobInv'
  <2>1. TypeOK'
    BY <1>2 DEF CopyOnReply, At, GoTo, TypeOK, conVars, clientVars
  <2>2. owner[op] \notin handlers => op \in stopped
    BY <1>2, RegisteredOps, ConnectionAssumption
       DEF CopyOnReply, At, NothingUnstoppable, MapInv
  <2>3. CASE Alive(owner[op])
    <3>1. /\ pc[op] = "copy" /\ pc' = [pc EXCEPT ![op] = "check"]
          /\ replies \subseteq replies' /\ op \in replies' \cup stopped'
          /\ UNCHANGED <<operations, owner, handlers, conState, main, stopped, pool>>
      BY <1>2, <2>2, <2>3 DEF CopyOnReply, At, GoTo, conVars
    <3>2. pc'[op] = "check" /\ \A q \in Ops \ {op} : pc'[q] = pc[q]
      BY <3>1 DEF TypeOK
    <3> QED
      BY <2>1, <3>1, <3>2, MoveJobInv
  <2>4. CASE ~Alive(owner[op])
    BY <1>2, <2>1, <2>4, OtherJobInv DEF CopyOnReply, MapInv, conVars
  <2> QED
    BY <2>3, <2>4
<1>3. ASSUME NEW op \in Ops, CheckStopped(op) \/ Resolve(op) PROVE JobInv'
  <2>1. TypeOK'
    BY <1>3 DEF CheckStopped, Resolve, At, GoTo, Finish, TypeOK, conVars, clientVars
  <2>2. /\ pc[op] \in {"check", "resolve"}
        /\ \/ pc' = [pc EXCEPT ![op] = "done"] /\ replies' = replies \ {op}
           \/ /\ pc' = [pc EXCEPT ![op] = "resolve"] \/ pc' = [pc EXCEPT ![op] = "data"]
              /\ op \in replies /\ replies' = replies
        /\ UNCHANGED <<operations, owner, handlers, conState, main, stopped, pool>>
    BY <1>3 DEF CheckStopped, Resolve, At, GoTo, Finish, CopyInv, conVars
  <2>3. /\ \A q \in Ops \ {op} : pc'[q] = pc[q] /\ (q \in replies => q \in replies')
        /\ \/ pc'[op] = "done"
           \/ pc'[op] \in {"resolve", "data"} /\ op \in replies'
    BY <2>2 DEF TypeOK
  <2> QED
    BY <2>1, <2>2, <2>3, MoveJobInv
<1>4. ASSUME NEW op \in Ops, NEW kind \in {"data", "complete"}, NEW next \in {"complete", "autostop"},
             Reply(op, kind, next)
      PROVE  JobInv'
  <2>0. owner[op] \in Conns
    BY <1>4 DEF Reply, At, MapInv
  <2>1. TypeOK'
    <3>1. tasks' \in Seq(Tasks)
      <4>1. owner[op] \in WebSockets => Task(kind, owner[op], op) \in Tasks
        BY <1>4 DEF Task, Tasks
      <4>2. owner[op] \in HttpRequests => Task("http", owner[op], op) \in Tasks
        BY <1>4 DEF Task, Tasks
      <4>3. \/ tasks' = tasks
            \/ owner[op] \in WebSockets /\ tasks' = Append(tasks, Task(kind, owner[op], op))
            \/ owner[op] \in HttpRequests /\ tasks' = Append(tasks, Task("http", owner[op], op))
        BY <1>4, <2>0 DEF Reply, Defer, Conns
      <4>4. tasks \in Seq(Tasks)
        BY DEF TypeOK
      <4> QED
        BY <4>1, <4>2, <4>3, <4>4
    <3> QED
      BY <1>4, <3>1 DEF Reply, At, GoTo, TypeOK, conVars, clientVars
  <2>2. CASE op \in replies
    <3>1. /\ pc[op] = kind /\ pc' = [pc EXCEPT ![op] = next]
          /\ UNCHANGED <<operations, owner, handlers, conState, main, stopped, replies, pool>>
      BY <1>4, <2>2 DEF Reply, At, GoTo, conVars
    <3>2. pc'[op] = next /\ \A q \in Ops \ {op} : pc'[q] = pc[q]
      BY <3>1 DEF TypeOK
    <3> QED
      BY <2>1, <2>2, <3>1, <3>2, MoveJobInv
  <2>3. CASE op \notin replies
    BY <1>4, <2>1, <2>3, OtherJobInv DEF Reply, MapInv, conVars
  <2> QED
    BY <2>2, <2>3
<1>5. ASSUME NEW op \in Ops, AutoStop(op) PROVE JobInv'
  <2>1. TypeOK'
    BY <1>5 DEF AutoStop, At, GoTo, Finish, TypeOK, conVars, clientVars
  <2> QED
    BY <1>5, <2>1, MoveJobInv DEF AutoStop, At, GoTo, Finish, TypeOK, conVars
<1>6. ASSUME NEW op \in Ops, ResolveThrows(op) PROVE JobInv'
  <2>1. TypeOK'
    BY <1>6 DEF ResolveThrows, TypeOK, conVars, opVars, clientVars
  <2> QED
    BY <1>6, <2>1, OtherJobInv DEF ResolveThrows, MapInv, conVars, opVars
<1> QED
  BY <1>1, <1>2, <1>3, <1>4, <1>5, <1>6 DEF JobStep

\* Every step keeps the invariant of the operations.
LEMMA JobInvStep == JobInv /\ [Next]_vars => JobInv'
<1> SUFFICES ASSUME JobInv, [Next]_vars PROVE JobInv'
  OBVIOUS
<1>0. WebSockets \subseteq Conns /\ HttpRequests \subseteq Conns
  BY DEF Conns
<1>1. ASSUME NEW c \in WebSockets, OnWebSocketOpen(c) PROVE JobInv'
  <2>1. TypeOK'
    BY <1>0, <1>1 DEF OnWebSocketOpen, Setup, JobInv, TypeOK, opVars, clientVars
  <2> QED
    BY <1>0, <1>1, <2>1, SetupJobInv DEF OnWebSocketOpen, opVars
<1>2. ASSUME NEW c \in WebSockets, NEW id \in Ids, OnStart(c, id) PROVE JobInv'
  <2>1. PICK op \in Ops : AddOperation(c, id, op)
    BY <1>2 DEF OnStart
  <2>2. TypeOK'
    BY <1>0, <1>2, <2>1 DEF OnStart, AddOperation, JobInv, TypeOK, clientVars
  <2>3. /\ Idle /\ operations[c][id] = None /\ UNCHANGED <<main, handlers, conState>>
        /\ \A d \in Conns : /\ conState[d] = "open" => d \in handlers
                            /\ conState[d] = "handshake" => d \notin handlers
        /\ c \in handlers
    BY <1>0, <1>2 DEF OnStart, JobInv, MapInv
  <2> QED
    BY <1>0, <2>1, <2>2, <2>3, AddOperationJobInv
<1>3. ASSUME NEW c \in WebSockets, NEW id \in Ids, OnStop(c, id) PROVE JobInv'
  BY <1>0, <1>3, OnStopJobInv
<1>4. ASSUME NEW c \in HttpRequests, OnHttp(c) PROVE JobInv'
  <2>1. CASE Defer("http", c, None) /\ UNCHANGED <<operations, owner, opVars>>
    <3>1. TypeOK'
      BY <1>0, <1>4, <2>1
         DEF OnHttp, Setup, Defer, Task, Tasks, JobInv, TypeOK, opVars, clientVars
    <3> QED
      BY <1>0, <1>4, <2>1, <3>1, SetupJobInv DEF OnHttp, opVars
  <2>2. ASSUME NEW op \in Ops, AddOperation(c, HttpId, op), UNCHANGED tasks PROVE JobInv'
    <3>1. TypeOK'
      BY <1>0, <1>4, <2>2, ConnectionAssumption
         DEF OnHttp, Setup, AddOperation, JobInv, TypeOK, clientVars
    <3>2. /\ operations[c][HttpId] = None /\ Idle /\ UNCHANGED main
          /\ c \in handlers' /\ handlers \subseteq handlers'
          /\ \A d \in Conns : /\ conState'[d] = "open" => d \in handlers'
                              /\ conState'[d] = "handshake" => d \notin handlers'
      BY <1>0, <1>4, ConnectionAssumption DEF OnHttp, Setup, JobInv, MapInv, TypeOK
    <3> QED
      BY <1>0, <2>2, <3>1, <3>2, ConnectionAssumption, AddOperationJobInv
  <2> QED
    BY <1>4, <2>1, <2>2 DEF OnHttp
<1>5. ASSUME NEW c \in WebSockets, OnWebSocketClose(c) PROVE JobInv'
  <2>1. TypeOK'
    BY <1>0, <1>5, ConnectionAssumption
       DEF OnWebSocketClose, Done, Mapped, NoOperations, JobInv, TypeOK, clientVars
  <2> QED
    BY <1>0, <1>5, <2>1, DoneJobInv DEF OnWebSocketClose
<1>6. CASE SendHttpResponse
  <2>1. Head(tasks) \in Tasks /\ Head(tasks).kind = "http" /\ tasks' \in Seq(Tasks)
    BY <1>6 DEF SendHttpResponse, Run, JobInv, TypeOK
  <2>2. Head(tasks).con \in HttpRequests
    BY <2>1 DEF Tasks
  <2>3. TypeOK'
    BY <1>0, <1>6, <2>1, <2>2, ConnectionAssumption
       DEF SendHttpResponse, Done, Mapped, NoOperations, JobInv, TypeOK
  <2> QED
    BY <1>0, <1>6, <2>2, <2>3, DoneJobInv DEF SendHttpResponse
<1>7. CASE UNCHANGED vars
  BY <1>7 DEF vars, conVars, opVars, clientVars, JobInv, TypeOK, MapInv, NothingUnstoppable,
              CopyInv, PoolInv, Registered, Mapped
<1>8. ASSUME NEW c \in WebSockets, OnWebSocketValidate(c) PROVE JobInv'
  <2>1. TypeOK'
    BY <1>0, <1>8 DEF OnWebSocketValidate, JobInv, TypeOK, opVars, clientVars
  <2>2. main.do # "clear"
    BY <1>8 DEF OnWebSocketValidate, Idle, Loop
  <2> QED
    BY <1>0, <1>8, <2>1, <2>2, OtherJobInv DEF OnWebSocketValidate, JobInv, TypeOK, MapInv, opVars
<1> QED
  BY <1>1, <1>2, <1>3, <1>4, <1>5, <1>6, <1>7, <1>8, MainJobInv, JobStepJobInv, StopConnectionsJobInv
     DEF Next, ClientStep, TransportStep, MainStep, Quiet

\* The invariant of the operations holds in every behaviour.
LEMMA JobInvAlways == Spec => []JobInv
BY JobInvInit, JobInvStep, PTL DEF Spec

\* Type correctness: in particular, every deferred task keeps a connection of
\* the kind its handler expects.
THEOREM ConnectionTypes == Spec => []TypeOK
<1>1. JobInv => TypeOK
  BY DEF JobInv
<1> QED
  BY <1>1, JobInvAlways, PTL

\* Copying onReply before reading m_stopped is enough for a job never to call
\* an empty handler, however its connection goes away meanwhile.
THEOREM RepliesHaveAHandler == Spec => []ReplyNeverEmpty
<1>1. JobInv => ReplyNeverEmpty
  BY DEF JobInv, CopyInv, ReplyNeverEmpty
<1> QED
  BY <1>1, JobInvAlways, PTL

\* No job escapes STOP, the end of its connection and stopListening().
THEOREM JobsCanBeStopped == Spec => []NothingUnstoppable
<1>1. JobInv => NothingUnstoppable
  BY DEF JobInv
<1> QED
  BY <1>1, JobInvAlways, PTL

-----------------------------------------------------------------------------
\* stopListening() has joined the pool, and is over.
Joined == server \in {"stopped", "failed"}

\* What the shutdown leaves when it is over: no job runs and none will, and
\* clear() has left no singleton to dispose of.
JoinedInv == Joined => Active = {} /\ ~singleton /\ ~collectTimer

\* Only the end of stopListening() sets server to what Joined means.
LEMMA JoinedByPoolJoined ==
    ASSUME [Next]_vars, Joined', ~Joined
    PROVE  PoolJoined
<1>1. server' = server \/ PoolJoined \/ StopListening
  BY DEF Next, ClientStep, TransportStep, MainStep, JobStep, Quiet, OnWebSocketValidate, OnWebSocketOpen, OnStart,
         OnStop, OnOtherMessage, OnHttp, OnWebSocketClose, HttpWritten, ClearHandlers, SendReply,
         SendHttpResponse, CloseOnRequest, StopConnections, TakeJob, CopyOnReply, CheckStopped,
         Resolve, Reply, AutoStop, ResolveThrows, GarbageCollect, vars
<1> QED
  BY <1>1 DEF Joined, StopListening

LEMMA JoinedInvStep ==
    ASSUME JobInv, JoinedInv, [Next]_vars
    PROVE  JoinedInv'
<1> SUFFICES ASSUME Joined'
             PROVE  Active' = {} /\ ~singleton' /\ ~collectTimer'
  BY DEF JoinedInv
<1>1. CASE PoolJoined
  <2>1. Active' = {}
    BY <1>1 DEF PoolJoined, Active, opVars
  <2> QED
    BY <1>1, <2>1 DEF PoolJoined
<1>2. CASE Joined /\ ~PoolJoined
  <2>1. Active = {} /\ ~singleton /\ ~collectTimer
    BY <1>2 DEF JoinedInv
  <2>2. ~Disposed
    BY <2>1 DEF Disposed
  <2>3. \A op \in Ops : ~JobStep(op) /\ ~ResolveThrows(op)
    BY <2>1 DEF Active, JobStep, ResolveThrows, CopyOnReply, CheckStopped, Resolve, Reply,
                AutoStop, At
  <2>4. ~TakeJob
    BY <1>2 DEF TakeJob, Joined
  <2>5. \A op \in Ops : pc'[op] = pc[op] \/ pc'[op] = "queued"
    BY <1>2, <2>3, <2>4
       DEF Next, ClientStep, TransportStep, MainStep, Quiet, OnWebSocketValidate, OnWebSocketOpen, OnStart, OnStop,
           OnOtherMessage, OnHttp, AddOperation, OnWebSocketClose, HttpWritten, ClearHandlers,
           SendReply, SendHttpResponse, CloseOnRequest, StopListening, StopConnections,
           GarbageCollect, vars, opVars, JobInv, TypeOK
  <2>6. Active' = {}
    BY <2>1, <2>5 DEF Active
  <2>7. CASE ClearHandlers \/ GarbageCollect
    BY <2>1, <2>2, <2>6, <2>7 DEF ClearHandlers, GarbageCollect
  <2>8. CASE ~(ClearHandlers \/ GarbageCollect)
    <3>1. UNCHANGED storageVars
      BY <1>2, <2>3, <2>4, <2>8
         DEF Next, ClientStep, TransportStep, MainStep, Quiet, OnWebSocketValidate, OnWebSocketOpen,
             OnStart, OnStop, OnOtherMessage, OnHttp, OnWebSocketClose, HttpWritten, SendReply,
             SendHttpResponse, CloseOnRequest, StopListening, StopConnections, vars
    <3> QED
      BY <2>1, <2>6, <3>1
  <2> QED
    BY <2>7, <2>8
<1> QED
  BY <1>1, <1>2, JoinedByPoolJoined

\* Connections that close after the shutdown find no garbage: the timer that
\* stopListening() dropped is not set again, whether onStopped() was called or
\* a close() threw.
THEOREM StoppedSetsNoTimer == Spec => []NoTimerAfterStop
<1>1. Init => JoinedInv
  BY DEF Init, JoinedInv, Joined
<1>2. JoinedInv => NoTimerAfterStop
  BY DEF JoinedInv, Joined, NoTimerAfterStop
<1> QED
  BY <1>1, <1>2, JoinedInvStep, JobInvAlways, PTL DEF Spec

-----------------------------------------------------------------------------
\* An HTTP reply is deferred on the connection.
Answering(c) == \E i \in DOMAIN tasks : tasks[i].kind = "http" /\ tasks[i].con = c

\* A job that has not replied yet.
Waiting(op) == pc[op] \in {"queued", "copy", "check", "resolve", "data"}

\* No two replies are deferred on one HTTP connection.
OneTask ==
    \A i, j \in DOMAIN tasks :
        tasks[i].kind = "http" /\ tasks[j].kind = "http" /\ tasks[i].con = tasks[j].con => i = j

\* An HTTP request is at one stage only: not sent, with its one operation
\* unanswered, with its reply deferred, or answered.
AnswerInv ==
    /\ \A op \in Ops : pc[op] = "free" => owner[op] = None
    /\ OneTask
    /\ \A c \in HttpRequests :
         /\ conState[c] = "handshake" =>
               (\A op \in Ops : owner[op] # c) /\ ~Answering(c) /\ responses[c] = 0
         /\ \A op, q \in Ops : owner[op] = c /\ owner[q] = c => op = q
         /\ \A op \in Ops : owner[op] = c /\ Waiting(op) => ~Answering(c) /\ responses[c] = 0
         /\ Answering(c) => responses[c] = 0
         /\ responses[c] \in {0, 1}

\* A task that is no HTTP reply leaves the deferred replies as they are, when
\* it is queued and when it is run.
LEMMA DeferOther ==
    ASSUME TypeOK, OneTask, NEW kind \in {"data", "complete", "answer", "close", "stop"}, NEW c, NEW op,
           Defer(kind, c, op)
    PROVE  OneTask' /\ \A d \in HttpRequests : Answering(d)' => Answering(d)
<1>1. /\ DOMAIN tasks' = DOMAIN tasks \cup {Len(tasks) + 1}
      /\ tasks'[Len(tasks) + 1].kind # "http"
      /\ \A i \in DOMAIN tasks : tasks'[i] = tasks[i]
  BY DEF Defer, Task, TypeOK
<1> QED
  BY <1>1 DEF OneTask, Answering

\* Running a task queues nothing.
LEMMA RunOther ==
    ASSUME TypeOK, OneTask, tasks # <<>>, tasks' = Tail(tasks)
    PROVE  OneTask' /\ \A d \in HttpRequests : Answering(d)' => Answering(d)
<1>1. \A i \in DOMAIN tasks' : i \in Int /\ i + 1 \in DOMAIN tasks /\ tasks'[i] = tasks[i + 1]
  BY DEF TypeOK
<1>2. OneTask'
  BY <1>1 DEF OneTask
<1>3. \A d \in HttpRequests : Answering(d)' => Answering(d)
  BY <1>1 DEF Answering
<1> QED
  BY <1>2, <1>3

\* Steps that neither start nor answer an HTTP request.
LEMMA OtherAnswerInv ==
    ASSUME AnswerInv, UNCHANGED <<owner, responses>>, OneTask',
           \A c \in HttpRequests : Answering(c)' => Answering(c),
           \A c \in HttpRequests : conState'[c] = "handshake" => conState[c] = "handshake",
           \A op \in Ops : /\ pc'[op] = "free" => pc[op] = "free"
                           /\ Waiting(op)' => Waiting(op)
    PROVE  AnswerInv'
BY DEF AnswerInv

\* A START on a web socket starts no HTTP request.
LEMMA OnStartAnswerInv ==
    ASSUME JobInv, AnswerInv, NEW c \in WebSockets, NEW id \in Ids, OnStart(c, id)
    PROVE  AnswerInv'
<1>1. PICK op \in Ops : AddOperation(c, id, op)
  BY DEF OnStart
<1>2. c \notin HttpRequests
  BY ConnectionAssumption
<1>3. /\ owner'[op] = c /\ pc'[op] = "queued"
      /\ \A q \in Ops \ {op} : owner'[q] = owner[q] /\ pc'[q] = pc[q]
  BY <1>1 DEF AddOperation, JobInv, TypeOK
<1>4. UNCHANGED <<responses, tasks, conState>>
  BY DEF OnStart, clientVars
<1>5. OneTask' /\ \A d \in HttpRequests : Answering(d)' = Answering(d)
  BY <1>4 DEF AnswerInv, OneTask, Answering
<1>6. \A q \in Ops, d \in HttpRequests : owner'[q] = d => q # op /\ owner[q] = d /\ Waiting(q)' = Waiting(q)
  BY <1>2, <1>3 DEF Waiting
<1>7. \A q \in Ops : pc'[q] = "free" => owner'[q] = None
  BY <1>3 DEF AnswerInv
<1> QED
  BY <1>4, <1>5, <1>6, <1>7 DEF AnswerInv

\* An HTTP request is refused with a reply or gets its one operation.
LEMMA OnHttpAnswerInv ==
    ASSUME JobInv, AnswerInv, NEW c \in HttpRequests, OnHttp(c)
    PROVE  AnswerInv'
<1>1. /\ conState[c] = "handshake" /\ conState'[c] # "handshake"
      /\ \A d \in HttpRequests \ {c} : conState'[d] = conState[d]
      /\ UNCHANGED responses
  BY DEF OnHttp, Setup, JobInv, TypeOK, clientVars, Conns
<1>2. (\A op \in Ops : owner[op] # c) /\ ~Answering(c) /\ responses[c] = 0
  BY <1>1 DEF AnswerInv
<1>3. CASE Defer("http", c, None) /\ UNCHANGED <<operations, owner, opVars>>
  <2>1. /\ DOMAIN tasks' = DOMAIN tasks \cup {Len(tasks) + 1}
        /\ tasks'[Len(tasks) + 1].kind = "http" /\ tasks'[Len(tasks) + 1].con = c
        /\ \A i \in DOMAIN tasks : tasks'[i] = tasks[i]
    BY <1>3 DEF Defer, Task, JobInv, TypeOK
  <2>2. OneTask'
    BY <1>2, <2>1 DEF AnswerInv, OneTask, Answering
  <2>3. \A d \in HttpRequests \ {c} : Answering(d)' = Answering(d)
    BY <2>1 DEF Answering
  <2>4. UNCHANGED <<owner, pc>> /\ \A op \in Ops : Waiting(op)' = Waiting(op)
    BY <1>3 DEF opVars, Waiting
  <2> QED
    BY <1>1, <1>2, <2>2, <2>3, <2>4 DEF AnswerInv
<1>4. ASSUME NEW op \in Ops, AddOperation(c, HttpId, op), UNCHANGED tasks PROVE AnswerInv'
  <2>1. /\ owner'[op] = c /\ pc'[op] = "queued" /\ owner[op] = None
        /\ \A q \in Ops \ {op} : owner'[q] = owner[q] /\ pc'[q] = pc[q]
    BY <1>4 DEF AddOperation, JobInv, TypeOK, AnswerInv
  <2>2. OneTask' /\ \A d \in HttpRequests : Answering(d)' = Answering(d)
    BY <1>4 DEF AnswerInv, OneTask, Answering
  <2>3. \A q \in Ops \ {op} : Waiting(q)' = Waiting(q)
    BY <2>1 DEF Waiting
  <2>4. \A q \in Ops : pc'[q] = "free" => owner'[q] = None
    BY <2>1 DEF AnswerInv
  <2> QED
    BY <1>1, <1>2, <2>1, <2>2, <2>3, <2>4 DEF AnswerInv
<1> QED
  BY <1>3, <1>4 DEF OnHttp

\* The one reply of a request is sent.
LEMMA ResponseAnswerInv ==
    ASSUME JobInv, AnswerInv, SendHttpResponse
    PROVE  AnswerInv'
<1> PICK c : c = Head(tasks).con
  OBVIOUS
<1>1. /\ 1 \in DOMAIN tasks /\ Head(tasks) = tasks[1] /\ tasks[1] \in Tasks
      /\ tasks[1].kind = "http" /\ tasks # <<>> /\ tasks' = Tail(tasks)
  BY DEF SendHttpResponse, Run, JobInv, TypeOK
<1>2. c \in HttpRequests /\ Answering(c)
  BY <1>1 DEF Tasks, Answering
<1>3. /\ responses[c] = 0 /\ responses'[c] = 1 /\ conState'[c] = "closing"
      /\ \A d \in HttpRequests \ {c} : responses'[d] = responses[d] /\ conState'[d] = conState[d]
  BY <1>2 DEF SendHttpResponse, AnswerInv, JobInv, TypeOK, Conns
<1>4. OneTask' /\ \A d \in HttpRequests : Answering(d)' => Answering(d)
  BY <1>1, RunOther DEF AnswerInv, JobInv
<1>5. ~Answering(c)'
  <2>1. \A i \in DOMAIN tasks' : i \in Int /\ i + 1 \in DOMAIN tasks /\ tasks'[i] = tasks[i + 1] /\ i + 1 # 1
    BY <1>1 DEF JobInv, TypeOK
  <2> QED
    BY <1>1, <2>1 DEF Answering, AnswerInv, OneTask
<1>6. UNCHANGED <<owner, pc>> /\ \A op \in Ops : Waiting(op)' = Waiting(op)
  BY DEF SendHttpResponse, Waiting
<1>7. \A op \in Ops : owner[op] = c => ~Waiting(op)
  BY <1>2 DEF AnswerInv
<1> QED
  BY <1>2, <1>3, <1>4, <1>5, <1>6, <1>7 DEF AnswerInv

\* A job replies once with what onHttpReply sends.
LEMMA ReplyAnswerInv ==
    ASSUME JobInv, AnswerInv, NEW op \in Ops,
           Reply(op, "data", "complete") \/ Reply(op, "complete", "autostop")
    PROVE  AnswerInv'
<1>1. UNCHANGED <<owner, responses, conState>>
  BY DEF Reply, conVars, clientVars
<1>2. /\ \A q \in Ops \ {op} : pc'[q] = pc[q]
      /\ pc[op] \in {"data", "complete"}
      /\ pc'[op] \in {pc[op], "complete", "autostop"}
  BY DEF Reply, At, GoTo, JobInv, TypeOK
<1>3. \A q \in Ops : /\ pc'[q] = "free" => pc[q] = "free"
                     /\ Waiting(q)' => Waiting(q)
  BY <1>2 DEF Waiting
<1>4. CASE UNCHANGED tasks
  <2>1. OneTask' /\ \A d \in HttpRequests : Answering(d)' => Answering(d)
    BY <1>4 DEF AnswerInv, OneTask, Answering
  <2> QED
    BY <1>1, <1>3, <2>1, OtherAnswerInv
<1>5. ASSUME NEW kind \in {"data", "complete"}, Defer(kind, owner[op], op)
      PROVE  AnswerInv'
  <2>1. OneTask' /\ \A d \in HttpRequests : Answering(d)' => Answering(d)
    BY <1>5, DeferOther DEF AnswerInv, JobInv
  <2> QED
    BY <1>1, <1>3, <2>1, OtherAnswerInv
<1>6. CASE /\ Defer("http", owner[op], op)
           /\ owner[op] \in HttpRequests /\ pc[op] = "data" /\ pc'[op] = "complete"
  <2> PICK c : c = owner[op]
    OBVIOUS
  <2>1. ~Answering(c) /\ responses[c] = 0 /\ conState[c] # "handshake"
    BY <1>6 DEF AnswerInv, Waiting
  <2>2. /\ DOMAIN tasks' = DOMAIN tasks \cup {Len(tasks) + 1}
        /\ tasks'[Len(tasks) + 1].kind = "http" /\ tasks'[Len(tasks) + 1].con = c
        /\ \A i \in DOMAIN tasks : tasks'[i] = tasks[i]
    BY <1>6 DEF Defer, Task, JobInv, TypeOK
  <2>3. OneTask'
    BY <2>1, <2>2 DEF AnswerInv, OneTask, Answering
  <2>4. \A d \in HttpRequests \ {c} : Answering(d)' = Answering(d)
    BY <2>2 DEF Answering
  <2>5. ~Waiting(op)' /\ \A q \in Ops : owner[q] = c => q = op
    BY <1>6 DEF AnswerInv, Waiting
  <2> QED
    BY <1>1, <1>3, <1>6, <2>1, <2>3, <2>4, <2>5 DEF AnswerInv
<1>7. \/ UNCHANGED tasks
      \/ Defer("data", owner[op], op)
      \/ Defer("complete", owner[op], op)
      \/ /\ Defer("http", owner[op], op) /\ pc[op] = "data" /\ pc'[op] = "complete"
         /\ owner[op] \in HttpRequests
  <2>1. owner[op] \in WebSockets \/ owner[op] \in HttpRequests
    BY <1>2 DEF JobInv, MapInv, Conns
  <2> QED
    BY <2>1 DEF Reply, At, GoTo, JobInv, TypeOK
<1> QED
  BY <1>4, <1>5, <1>6, <1>7

\* Every step keeps an HTTP request at one stage.
LEMMA AnswerInvStep == JobInv /\ AnswerInv /\ [Next]_vars => AnswerInv'
<1> SUFFICES ASSUME JobInv, AnswerInv, [Next]_vars PROVE AnswerInv'
  OBVIOUS
<1>0. (UNCHANGED tasks => OneTask' /\ \A c \in HttpRequests : Answering(c)' => Answering(c))
  BY DEF AnswerInv, OneTask, Answering
<1>1. CASE \/ \E c \in WebSockets, id \in Ids : OnStop(c, id)
           \/ ClearHandlers \/ StopListening \/ StopConnections \/ SendReply \/ GarbageCollect
           \/ \E c \in WebSockets : OnOtherMessage(c)
           \/ UNCHANGED vars
  <2>1. UNCHANGED <<owner, responses, conState, pc>>
    BY <1>1 DEF OnStop, ClearHandlers, StopListening, StopConnections, SendReply, GarbageCollect, OnOtherMessage,
                vars, conVars, opVars, clientVars
  <2>2. OneTask' /\ \A c \in HttpRequests : Answering(c)' => Answering(c)
    <3>1. \/ UNCHANGED tasks
          \/ tasks # <<>> /\ tasks' = Tail(tasks)
          \/ \E kind \in {"answer", "close", "stop"}, c \in WebSockets \cup {None} : Defer(kind, c, None)
      BY <1>1 DEF OnStop, ClearHandlers, StopListening, StopConnections, SendReply, GarbageCollect, OnOtherMessage,
                  Run, vars, conVars, opVars, clientVars
    <3> QED
      BY <1>0, <3>1, RunOther, DeferOther DEF JobInv, AnswerInv
  <2> QED
    BY <2>1, <2>2, OtherAnswerInv DEF Waiting
<1>2. CASE \/ \E c \in WebSockets :
                OnWebSocketValidate(c) \/ OnWebSocketOpen(c) \/ OnWebSocketClose(c)
           \/ \E c \in HttpRequests : HttpWritten(c)
           \/ PoolJoined \/ CloseOnRequest
  <2>1. UNCHANGED <<owner, responses, pc>>
    BY <1>2 DEF OnWebSocketValidate, OnWebSocketOpen, OnWebSocketClose, HttpWritten, PoolJoined, CloseOnRequest,
                Setup, conVars, opVars, clientVars
  <2>2. \A c \in HttpRequests : conState'[c] = "handshake" => conState[c] = "handshake"
    BY <1>2 DEF OnWebSocketValidate, OnWebSocketOpen, OnWebSocketClose, HttpWritten, PoolJoined, CloseOnRequest,
                Setup, JobInv, TypeOK, Conns
  <2>3. UNCHANGED tasks \/ (tasks # <<>> /\ tasks' = Tail(tasks))
    BY <1>2 DEF OnWebSocketValidate, OnWebSocketOpen, OnWebSocketClose, HttpWritten, PoolJoined, CloseOnRequest, Run
  <2> QED
    BY <1>0, <2>1, <2>2, <2>3, RunOther, OtherAnswerInv DEF Waiting, JobInv, AnswerInv
<1>3. CASE \/ TakeJob
           \/ \E op \in Ops : \/ CopyOnReply(op) \/ CheckStopped(op) \/ Resolve(op)
                              \/ AutoStop(op) \/ ResolveThrows(op)
  <2>1. UNCHANGED <<owner, responses, conState, tasks>>
    BY <1>3 DEF TakeJob, CopyOnReply, CheckStopped, Resolve, AutoStop, ResolveThrows, conVars, clientVars
  <2>2. \A op \in Ops : /\ pc'[op] = "free" => pc[op] = "free"
                        /\ Waiting(op)' => Waiting(op)
    <3>1. CASE TakeJob
      <4>1. Head(pool) \in Ops /\ pc[Head(pool)] = "queued"
        BY <3>1 DEF TakeJob, JobInv, TypeOK, PoolInv
      <4> QED
        BY <3>1, <4>1 DEF TakeJob, GoTo, Waiting, JobInv, TypeOK
    <3>2. CASE \E op \in Ops : \/ CopyOnReply(op) \/ CheckStopped(op) \/ Resolve(op)
                               \/ AutoStop(op) \/ ResolveThrows(op)
      BY <3>2 DEF CopyOnReply, CheckStopped, Resolve, AutoStop, ResolveThrows, At, GoTo, Finish,
                  Waiting, opVars, JobInv, TypeOK
    <3> QED
      BY <1>3, <3>1, <3>2
  <2> QED
    BY <1>0, <2>1, <2>2, OtherAnswerInv
<1> QED
  BY <1>1, <1>2, <1>3, OnStartAnswerInv, OnHttpAnswerInv, ResponseAnswerInv, ReplyAnswerInv
     DEF Next, ClientStep, TransportStep, MainStep, JobStep, Quiet

\* The stages of HTTP requests hold in every behaviour.
LEMMA AnswerInvAlways == Spec => []AnswerInv
<1>1. Init => AnswerInv
  BY ConnectionAssumption DEF Init, AnswerInv, OneTask, Answering, Waiting, Conns
<1> QED
  BY <1>1, AnswerInvStep, JobInvAlways, PTL DEF Spec

\* COMPLETE is ignored and a request starts one operation at most: no client
\* that sent one HTTP request gets two responses.
THEOREM HttpAnsweredOnce == Spec => []OneHttpResponse
<1>1. AnswerInv => OneHttpResponse
  BY DEF AnswerInv, OneHttpResponse
<1> QED
  BY <1>1, AnswerInvAlways, PTL
-----------------------------------------------------------------------------
\* An HTTP connection that was answered ends like a web socket that closed.
Over(c) == conState[c] = "closed" \/ (c \in HttpRequests /\ conState[c] = "closing")

\* What tearDown() has let go of stays so.
LiveInv ==
    /\ \A c \in Conns : Over(c) => main.con = c \/ c \notin connections \cup handlers
    /\ \A c \in connections : conState[c] # "handshake"
    /\ main.do # "clear" => main.con = None
    /\ main.con \notin connections
    /\ replies \subseteq Active

\* A closed connection is kept by work that is under way, never by itself.
ClosedIsKeptByWork ==
    \A c \in Conns : conState[c] = "closed" /\ Alive(c) =>
        \/ main.con = c
        \/ \E op \in Active : owner[op] = c
        \/ \E i \in DOMAIN tasks : tasks[i].con = c


\* Only a job that runs holds a copy of onReply.
LEMMA RepliesActive ==
    ASSUME JobInv, replies \subseteq Active, [Next]_vars
    PROVE  (replies \subseteq Active)'
<1> USE DEF JobInv
<1>1. CASE UNCHANGED <<pc, replies>>
  BY <1>1 DEF Active
<1>2. ASSUME NEW c \in Conns, NEW id \in Ids, NEW op \in Ops, AddOperation(c, id, op)
      PROVE  (replies \subseteq Active)'
  <2>1. /\ op \notin Active /\ replies' = replies
        /\ \A q \in Ops \ {op} : pc'[q] = pc[q]
    BY <1>2 DEF AddOperation, Active, TypeOK
  <2> QED
    BY <2>1 DEF Active
<1>3. CASE TakeJob
  <2>1. Head(pool) \in Ops /\ pc[Head(pool)] = "queued"
    BY <1>3 DEF TakeJob, TypeOK, PoolInv
  <2> QED
    BY <1>3, <2>1 DEF TakeJob, GoTo, Active, TypeOK
<1>4. ASSUME NEW op \in Ops, JobStep(op)
      PROVE  (replies \subseteq Active)'
  BY <1>4 DEF JobStep, CopyOnReply, CheckStopped, Resolve, Reply, AutoStop, At, GoTo, Finish,
              Active, TypeOK
<1>5. \/ UNCHANGED <<pc, replies>>
      \/ \E c \in Conns, id \in Ids, op \in Ops : AddOperation(c, id, op)
      \/ TakeJob
      \/ \E op \in Ops : JobStep(op)
  BY ConnectionAssumption
     DEF Next, ClientStep, TransportStep, MainStep, Quiet, OnWebSocketValidate, OnWebSocketOpen,
         OnStart, OnStop, OnOtherMessage, OnHttp, OnWebSocketClose, HttpWritten, ClearHandlers,
         SendReply, SendHttpResponse, CloseOnRequest, StopListening, StopConnections, PoolJoined,
         GarbageCollect, ResolveThrows, vars, opVars, Conns
<1> QED
  BY <1>1, <1>2, <1>3, <1>4, <1>5

\* A connection that is done leaves m_connections before its handlers go.
LEMMA DoneLive ==
    ASSUME JobInv, LiveInv, (replies \subseteq Active)', NEW c \in Conns, Done(c), Idle,
           UNCHANGED handlers, conState[c] # "handshake",
           conState' = [conState EXCEPT ![c] = "closing"] \/ conState' = [conState EXCEPT ![c] = "closed"]
    PROVE  LiveInv'
<1>1. main'.do = "clear" /\ main'.con = c /\ connections' = connections \ {c}
  BY DEF Done
<1>2. \A d \in Conns : d # c => conState'[d] = conState[d]
  BY DEF JobInv, TypeOK
<1>3. main.con \notin Conns
  BY ConnectionAssumption DEF Idle, Loop
<1>4. \A d \in Conns : Over(d)' => main'.con = d \/ d \notin connections' \cup handlers'
  BY <1>1, <1>2, <1>3 DEF LiveInv, Over
<1>5. \A d \in connections' : conState'[d] # "handshake"
  BY <1>1, <1>2 DEF LiveInv, JobInv, TypeOK
<1> QED
  BY <1>1, <1>4, <1>5 DEF LiveInv

\* Every step keeps what tearDown() has let go of.
LEMMA LiveInvStep == JobInv /\ AnswerInv /\ LiveInv /\ [Next]_vars => LiveInv'
<1> SUFFICES ASSUME JobInv, AnswerInv, LiveInv, [Next]_vars PROVE LiveInv'
  OBVIOUS
<1> USE DEF JobInv
<1>0. (replies \subseteq Active)'
  BY RepliesActive DEF LiveInv
<1>c. WebSockets \subseteq Conns /\ HttpRequests \subseteq Conns /\ connections \subseteq Conns
  BY DEF Conns, TypeOK
<1>1. CASE UNCHANGED <<conState, connections, handlers, main>>
  BY <1>0, <1>1 DEF LiveInv, Over
<1>2. ASSUME NEW c \in Conns, Setup(c), Idle, UNCHANGED main PROVE LiveInv'
  <2>1. /\ conState[c] = "handshake" /\ conState'[c] = "open"
        /\ \A d \in Conns : d # c => conState'[d] = conState[d]
        /\ connections' = connections \cup {c} /\ handlers' = handlers \cup {c}
    BY <1>2 DEF Setup, TypeOK
  <2>2. main.con \notin Conns
    BY <1>2, ConnectionAssumption DEF Idle, Loop
  <2>3. \A d \in Conns : Over(d)' => main'.con = d \/ d \notin connections' \cup handlers'
    BY <1>2, <2>1 DEF LiveInv, Over
  <2>4. \A d \in connections' : conState'[d] # "handshake"
    BY <1>c, <2>1 DEF LiveInv
  <2> QED
    BY <1>0, <1>2, <2>1, <2>2, <2>3, <2>4 DEF LiveInv
<1>3. ASSUME NEW c \in WebSockets, OnWebSocketValidate(c) PROVE LiveInv'
  <2>1. /\ conState[c] = "handshake" /\ conState'[c] = "closed"
        /\ \A d \in Conns : d # c => conState'[d] = conState[d]
        /\ UNCHANGED <<connections, handlers, main>>
    BY <1>c, <1>3 DEF OnWebSocketValidate, TypeOK
  <2>2. c \notin connections \cup handlers
    BY <1>c, <2>1 DEF LiveInv, MapInv
  <2> QED
    BY <1>0, <1>c, <2>1, <2>2 DEF LiveInv, Over
<1>4. ASSUME NEW c \in WebSockets, OnWebSocketClose(c) PROVE LiveInv'
  BY <1>0, <1>c, <1>4, DoneLive DEF OnWebSocketClose
<1>5. CASE SendHttpResponse
  <2>1. Head(tasks) \in Tasks /\ Head(tasks).kind = "http"
    BY <1>5 DEF SendHttpResponse, Run, TypeOK
  <2>2. Head(tasks).con \in HttpRequests
    BY <2>1 DEF Tasks
  <2>3. 1 \in DOMAIN tasks /\ Head(tasks) = tasks[1]
    BY <1>5 DEF SendHttpResponse, Run, TypeOK
  <2>4. Answering(Head(tasks).con)
    BY <2>1, <2>3 DEF Answering
  <2>5. conState[Head(tasks).con] # "handshake"
    BY <2>2, <2>4 DEF AnswerInv
  <2> QED
    BY <1>0, <1>c, <1>5, <2>2, <2>5, DoneLive DEF SendHttpResponse, Run
<1>6. CASE ClearHandlers
  <2>1. /\ main' = Loop /\ handlers' = handlers \ {main.con}
        /\ UNCHANGED <<conState, connections>>
    BY <1>6 DEF ClearHandlers
  <2>2. main'.con \notin Conns /\ main'.con = None /\ main'.do # "clear"
    BY <2>1, ConnectionAssumption DEF Loop
  <2> QED
    BY <1>0, <1>c, <2>1, <2>2 DEF LiveInv, Over
<1>7. ASSUME NEW c \in HttpRequests, HttpWritten(c) PROVE LiveInv'
  <2>1. /\ conState[c] = "closing" /\ conState'[c] = "closed"
        /\ \A d \in Conns : d # c => conState'[d] = conState[d]
        /\ UNCHANGED <<connections, handlers, main>>
    BY <1>c, <1>7 DEF HttpWritten, TypeOK
  <2>2. Over(c)
    BY <1>7, <2>1 DEF Over
  <2> QED
    BY <1>0, <1>c, <2>1, <2>2 DEF LiveInv, Over
<1>8. CASE CloseOnRequest
  <2>1. Head(tasks) \in Tasks /\ Head(tasks).kind = "close"
    BY <1>8 DEF CloseOnRequest, Run, TypeOK
  <2>2. Head(tasks).con \in WebSockets
    BY <2>1 DEF Tasks
  <2>3. \A d \in Conns : \/ conState'[d] = conState[d]
                         \/ d \in WebSockets /\ conState'[d] = "closing"
    BY <1>8, <2>2 DEF CloseOnRequest, TypeOK
  <2>4. UNCHANGED <<connections, handlers, main>>
    BY <1>8 DEF CloseOnRequest
  <2> QED
    BY <1>0, <1>c, <2>3, <2>4, ConnectionAssumption DEF LiveInv, Over
<1>9. CASE StopConnections
  <2>1. /\ main' = [do |-> "join", con |-> None]
        /\ UNCHANGED <<conState, connections, handlers>> /\ main = Loop
    BY <1>9 DEF StopConnections, Run, Idle
  <2> QED
    BY <1>0, <1>c, <2>1, ConnectionAssumption DEF LiveInv, Over, Loop
<1>10. CASE PoolJoined
  <2>1. /\ main' = Loop /\ main.do = "join" /\ handlers' = handlers /\ connections' = {}
        /\ \A d \in Conns : \/ conState'[d] = conState[d]
                            \/ d \in WebSockets /\ conState'[d] = "closing"
    BY <1>10 DEF PoolJoined, Closable
  <2>2. main.con = None /\ None \notin Conns
    BY <2>1, ConnectionAssumption DEF LiveInv
  <2> QED
    BY <1>0, <2>1, <2>2, ConnectionAssumption DEF LiveInv, Over, Loop
<1> QED
  BY <1>c, <1>1, <1>2, <1>3, <1>4, <1>5, <1>6, <1>7, <1>8, <1>9, <1>10
     DEF Next, ClientStep, TransportStep, MainStep, JobStep, Quiet, OnWebSocketOpen, OnStart,
         OnStop, OnOtherMessage, OnHttp, SendReply, StopListening, GarbageCollect, TakeJob,
         CopyOnReply, CheckStopped, Resolve, Reply, AutoStop, ResolveThrows, vars, conVars

\* tearDown() breaks the cycle between a connection and its handlers: what is
\* left of a closed connection waits for the main thread or for a job, which
\* ends.  This is the safety half of ConnectionsAreFreed.
THEOREM ClosedDoNotKeepThemselves == Spec => []ClosedIsKeptByWork
<1>1. Init => LiveInv
  BY DEF Init, LiveInv, Over, Loop
<1>2. JobInv /\ LiveInv => ClosedIsKeptByWork
  BY ConnectionAssumption DEF LiveInv, ClosedIsKeptByWork, Alive, Over
<1> QED
  BY <1>1, <1>2, LiveInvStep, JobInvAlways, AnswerInvAlways, PTL DEF Spec
-----------------------------------------------------------------------------
Sends(i, kind, op) == tasks[i].kind = kind /\ tasks[i].op = op

\* A reply of a web socket waits for the main thread.
Pending(kind, op) == \E i \in DOMAIN tasks : Sends(i, kind, op)

\* Nobody receives what the operation replies.
Lost(op) == conState[owner[op]] \in {"closing", "closed"}

\* A connection maps the operation.
Maps(op) == \E c \in Conns, id \in Ids : operations[c][id] = op

\* A job that waits is in the pool; what is mapped was not told to stop,
\* unless it is done anyway.
StopInv ==
    /\ \A op \in Ops :
         /\ pc[op] = "queued" => \E i \in DOMAIN pool : pool[i] = op
         /\ pc[op] = "free" => op \notin stopped
         /\ pc[op] # "free" => conState[owner[op]] # "handshake"
         /\ Maps(op) /\ op \in stopped => pc[op] = "done"
    /\ \A c \in Conns : \A id, key \in Ids :
         operations[c][id] # None /\ operations[c][id] = operations[c][key] => id = key

\* An operation has a DATA and a COMPLETE deferred at most, in this order.
TaskInv ==
    /\ \A i \in DOMAIN tasks :
         tasks[i].kind \in {"data", "complete"} => tasks[i].con = owner[tasks[i].op]
    /\ \A i, j \in DOMAIN tasks : \A op \in Ops :
         /\ \A kind \in {"data", "complete"} : Sends(i, kind, op) /\ Sends(j, kind, op) => i = j
         /\ Sends(i, "data", op) /\ Sends(j, "complete", op) => i < j

\* How far a web socket operation is with its replies.
ReplyInv ==
    \A op \in Ops :
        /\ sent[op] \in {<<>>, <<"data">>, <<"data", "complete">>}
        /\ Pending("data", op) => pc[op] \in {"complete", "autostop", "done"} /\ sent[op] = <<>>
        /\ Pending("complete", op) =>
             pc[op] \in {"autostop", "done"} /\ sent[op] # <<"data", "complete">>
        /\ sent[op] = <<"data">> => pc[op] \in {"complete", "autostop", "done"}
        /\ sent[op] = <<"data", "complete">> => pc[op] \in {"autostop", "done"}
        /\ Pending("complete", op) \/ (pc[op] = "complete" /\ owner[op] \in WebSockets) =>
             sent[op] # <<>> \/ Pending("data", op) \/ Lost(op)

\* The last reply is on its way, was sent, or reaches nobody.
Handed(op) ==
    \/ Lost(op)
    \/ owner[op] \in WebSockets /\ (Pending("complete", op) \/ sent[op] = <<"data", "complete">>)
    \/ owner[op] \in HttpRequests /\ (Answering(owner[op]) \/ responses[owner[op]] > 0)

\* The job of the operation has replied, and nobody stopped it.
Due(op) ==
    \/ pc[op] = "autostop"
    \/ pc[op] = "complete" /\ owner[op] \in HttpRequests
    \/ pc[op] = "done" /\ Maps(op)

HandInv == \A op \in Ops : Due(op) => Handed(op)

\* A web socket client gets DATA, then COMPLETE, and nothing twice.
RepliesInOrder == \A op \in Ops : sent[op] \in {<<>>, <<"data">>, <<"data", "complete">>}

\* The server has nothing left to do.
AtRest == main = Loop /\ tasks = <<>> /\ pool = <<>> /\ Active = {}

RestIsAnswered ==
    AtRest =>
        \A op \in Ops : Registered(op) /\ conState[owner[op]] = "open" => Answered(op)

\* The others move up when the first task runs.
LEMMA Ran ==
    ASSUME TypeOK, tasks # <<>>, tasks' = Tail(tasks)
    PROVE  /\ 1 \in DOMAIN tasks /\ Head(tasks) = tasks[1] /\ tasks[1] \in Tasks
           /\ \A i \in DOMAIN tasks' : i \in Int /\ i + 1 \in DOMAIN tasks /\ i + 1 # 1 /\ tasks'[i] = tasks[i + 1]
           /\ \A i \in DOMAIN tasks : i # 1 => i - 1 \in DOMAIN tasks' /\ tasks'[i - 1] = tasks[i]
           /\ \A i \in DOMAIN tasks : i \in Int /\ i >= 1
BY DEF TypeOK

\* Steps that defer something else, or run it, leave the replies of web sockets
\* as they are.
LEMMA OtherTask ==
    ASSUME TypeOK, TaskInv, NEW kind \in {"answer", "close", "stop", "http"}, NEW c, NEW o,
           \/ UNCHANGED tasks
           \/ Defer(kind, c, o)
           \/ tasks # <<>> /\ tasks' = Tail(tasks) /\ Head(tasks).kind = kind,
           \A op \in Ops : pc[op] # "free" => owner'[op] = owner[op],
           \A op \in Ops : Pending("data", op) \/ Pending("complete", op) => pc[op] # "free"
    PROVE  /\ TaskInv'
           /\ \A op \in Ops : Pending("data", op)' = Pending("data", op)
           /\ \A op \in Ops : Pending("complete", op)' = Pending("complete", op)
<1>0. \A i \in DOMAIN tasks : tasks[i].kind \in {"data", "complete"} =>
        tasks[i].op \in Ops /\ owner'[tasks[i].op] = owner[tasks[i].op]
  <2> SUFFICES ASSUME NEW i \in DOMAIN tasks, tasks[i].kind \in {"data", "complete"}
               PROVE  tasks[i].op \in Ops /\ owner'[tasks[i].op] = owner[tasks[i].op]
    OBVIOUS
  <2>1. tasks[i] \in Tasks
    BY DEF TypeOK
  <2>2. tasks[i].op \in Ops
    BY <2>1 DEF Tasks
  <2> QED
    BY <2>2 DEF Pending, Sends
<1>1. CASE UNCHANGED tasks
  BY <1>0, <1>1 DEF TaskInv, Pending, Sends
<1>2. CASE Defer(kind, c, o)
  <2>1. /\ DOMAIN tasks' = DOMAIN tasks \cup {Len(tasks) + 1}
        /\ tasks'[Len(tasks) + 1].kind \notin {"data", "complete"}
        /\ \A i \in DOMAIN tasks : tasks'[i] = tasks[i]
    BY <1>2 DEF Defer, Task, TypeOK
  <2>2. TaskInv'
    BY <1>0, <2>1 DEF TaskInv, Sends
  <2> QED
    BY <2>1, <2>2 DEF Pending, Sends
<1>3. CASE tasks # <<>> /\ tasks' = Tail(tasks) /\ Head(tasks).kind = kind
  <2>1. /\ tasks[1].kind \notin {"data", "complete"}
        /\ \A i \in DOMAIN tasks' : i \in Int /\ i + 1 \in DOMAIN tasks /\ tasks'[i] = tasks[i + 1]
        /\ \A i \in DOMAIN tasks : i # 1 => i - 1 \in DOMAIN tasks' /\ tasks'[i - 1] = tasks[i]
    BY <1>3, Ran
  <2>2. TaskInv'
    <3>1. \A i \in DOMAIN tasks' :
            tasks'[i].kind \in {"data", "complete"} => tasks'[i].con = owner'[tasks'[i].op]
      BY <1>0, <2>1 DEF TaskInv
    <3>2. \A i, j \in DOMAIN tasks' : \A op \in Ops :
            /\ \A k \in {"data", "complete"} : Sends(i, k, op)' /\ Sends(j, k, op)' => i = j
            /\ Sends(i, "data", op)' /\ Sends(j, "complete", op)' => i < j
      <4> SUFFICES ASSUME NEW i \in DOMAIN tasks', NEW j \in DOMAIN tasks', NEW op \in Ops
                   PROVE  /\ \A k \in {"data", "complete"} : Sends(i, k, op)' /\ Sends(j, k, op)' => i = j
                          /\ Sends(i, "data", op)' /\ Sends(j, "complete", op)' => i < j
        OBVIOUS
      <4>1. /\ i \in Int /\ j \in Int /\ i + 1 \in DOMAIN tasks /\ j + 1 \in DOMAIN tasks
            /\ \A k : Sends(i, k, op)' = Sends(i + 1, k, op) /\ Sends(j, k, op)' = Sends(j + 1, k, op)
        BY <2>1 DEF Sends
      <4>2. /\ \A k \in {"data", "complete"} : Sends(i + 1, k, op) /\ Sends(j + 1, k, op) => i + 1 = j + 1
            /\ Sends(i + 1, "data", op) /\ Sends(j + 1, "complete", op) => i + 1 < j + 1
        BY <4>1 DEF TaskInv
      <4> QED
        BY <4>1, <4>2
    <3> QED
      BY <3>1, <3>2 DEF TaskInv
  <2>3. ASSUME NEW op \in Ops, NEW k \in {"data", "complete"}
        PROVE  Pending(k, op)' = Pending(k, op)
    BY <2>1 DEF Pending, Sends
  <2> QED
    BY <2>2, <2>3
<1> QED
  BY <1>1, <1>2, <1>3

\* A reply that is deferred is the last one, behind those of its operation.
LEMMA ReplyDeferred ==
    ASSUME TypeOK, TaskInv, NEW kind \in {"data", "complete"}, NEW op \in Ops,
           Defer(kind, owner[op], op), ~Pending(kind, op), kind = "data" => ~Pending("complete", op),
           UNCHANGED owner
    PROVE  /\ TaskInv' /\ Pending(kind, op)'
           /\ \A q \in Ops, k \in {"data", "complete"} :
                q # op \/ k # kind => Pending(k, q)' = Pending(k, q)
<1>1. /\ DOMAIN tasks' = DOMAIN tasks \cup {Len(tasks) + 1}
      /\ tasks'[Len(tasks) + 1].kind = kind /\ tasks'[Len(tasks) + 1].op = op
      /\ tasks'[Len(tasks) + 1].con = owner[op]
      /\ \A i \in DOMAIN tasks : tasks'[i] = tasks[i] /\ i < Len(tasks) + 1
  BY DEF Defer, Task, TypeOK
<1>2. ~(Len(tasks) + 1 < Len(tasks) + 1)
  BY DEF TypeOK
<1>3. \A i \in DOMAIN tasks : ~Sends(i, kind, op) /\ (kind = "data" => ~Sends(i, "complete", op))
  BY DEF Pending
<1>4. TaskInv'
  BY <1>1, <1>2, <1>3 DEF TaskInv, Sends
<1> QED
  BY <1>1, <1>4 DEF Pending, Sends

\* A reply that runs is not deferred any more; COMPLETE finds no DATA before it.
LEMMA ReplyRan ==
    ASSUME TypeOK, TaskInv, tasks # <<>>, tasks' = Tail(tasks), NEW kind \in {"data", "complete"},
           NEW op \in Ops, Head(tasks).kind = kind, Head(tasks).op = op, UNCHANGED owner
    PROVE  /\ TaskInv' /\ ~Pending(kind, op)' /\ Pending(kind, op)
           /\ kind = "complete" => ~Pending("data", op)
           /\ Head(tasks).con = owner[op]
           /\ \A q \in Ops, k \in {"data", "complete"} :
                q # op \/ k # kind => Pending(k, q)' = Pending(k, q)
<1>1. /\ 1 \in DOMAIN tasks /\ tasks[1].kind = kind /\ tasks[1].op = op /\ Head(tasks) = tasks[1]
      /\ \A i \in DOMAIN tasks' : i \in Int /\ i + 1 \in DOMAIN tasks /\ i + 1 # 1 /\ tasks'[i] = tasks[i + 1]
      /\ \A i \in DOMAIN tasks : i # 1 => i - 1 \in DOMAIN tasks' /\ tasks'[i - 1] = tasks[i]
      /\ \A i \in DOMAIN tasks : i \in Int /\ i >= 1
  BY Ran
<1>2. \A i \in DOMAIN tasks : Sends(i, kind, op) => i = 1
  BY <1>1 DEF TaskInv, Sends
<1>3. ~Pending(kind, op)'
  BY <1>1, <1>2 DEF Pending, Sends
<1>4. kind = "complete" => ~Pending("data", op)
  <2>1. \A i \in DOMAIN tasks : kind = "complete" /\ Sends(i, "data", op) => i < 1
    BY <1>1 DEF TaskInv, Sends
  <2> QED
    BY <1>1, <2>1 DEF Pending
<1>5. Pending(kind, op) /\ Head(tasks).con = owner[op]
  BY <1>1 DEF Pending, Sends, TaskInv
<1>6. TaskInv'
  <2>1. \A i \in DOMAIN tasks' :
          tasks'[i].kind \in {"data", "complete"} => tasks'[i].con = owner'[tasks'[i].op]
    BY <1>1 DEF TaskInv
  <2>2. ASSUME NEW i \in DOMAIN tasks', NEW j \in DOMAIN tasks', NEW q \in Ops
        PROVE  /\ \A k \in {"data", "complete"} : Sends(i, k, q)' /\ Sends(j, k, q)' => i = j
               /\ Sends(i, "data", q)' /\ Sends(j, "complete", q)' => i < j
    <3>1. /\ i \in Int /\ j \in Int /\ i + 1 \in DOMAIN tasks /\ j + 1 \in DOMAIN tasks
          /\ \A k : Sends(i, k, q)' = Sends(i + 1, k, q) /\ Sends(j, k, q)' = Sends(j + 1, k, q)
      BY <1>1 DEF Sends
    <3>2. /\ \A k \in {"data", "complete"} : Sends(i + 1, k, q) /\ Sends(j + 1, k, q) => i + 1 = j + 1
          /\ Sends(i + 1, "data", q) /\ Sends(j + 1, "complete", q) => i + 1 < j + 1
      BY <3>1 DEF TaskInv
    <3> QED
      BY <3>1, <3>2
  <2> QED
    BY <2>1, <2>2 DEF TaskInv
<1>7. ASSUME NEW q \in Ops, NEW k \in {"data", "complete"}, q # op \/ k # kind
      PROVE  Pending(k, q)' = Pending(k, q)
  <2>1. ~Sends(1, k, q)
    BY <1>1, <1>7 DEF Sends
  <2>2. ASSUME NEW i \in DOMAIN tasks, Sends(i, k, q) PROVE Pending(k, q)'
    <3>1. i - 1 \in DOMAIN tasks' /\ tasks'[i - 1] = tasks[i]
      BY <1>1, <2>1, <2>2
    <3> QED
      BY <2>2, <3>1 DEF Pending, Sends
  <2>3. ASSUME NEW i \in DOMAIN tasks', Sends(i, k, q)' PROVE Pending(k, q)
    <3>1. i + 1 \in DOMAIN tasks /\ tasks'[i] = tasks[i + 1]
      BY <1>1
    <3> QED
      BY <2>3, <3>1 DEF Pending, Sends
  <2> QED
    BY <2>2, <2>3 DEF Pending
<1> QED
  BY <1>3, <1>4, <1>5, <1>6, <1>7

\* Once it is started, an operation keeps its connection.
LEMMA OwnerKept ==
    ASSUME JobInv, [Next]_vars
    PROVE  \A op \in Ops : pc[op] # "free" => owner'[op] = owner[op] /\ pc'[op] # "free"
<1> USE DEF JobInv
<1>1. CASE UNCHANGED <<owner, pc>>
  BY <1>1
<1>2. ASSUME NEW c \in Conns, NEW id \in Ids, NEW op \in Ops, AddOperation(c, id, op)
      PROVE  \A q \in Ops : pc[q] # "free" => owner'[q] = owner[q] /\ pc'[q] # "free"
  BY <1>2 DEF AddOperation, TypeOK
<1>3. CASE UNCHANGED owner /\ \E op \in Ops : \E label \in {"copy", "check", "resolve", "data", "complete", "autostop", "done"} :
                                 pc' = [pc EXCEPT ![op] = label]
  BY <1>3 DEF TypeOK
<1>4. \/ UNCHANGED <<owner, pc>>
      \/ \E c \in Conns, id \in Ids, op \in Ops : AddOperation(c, id, op)
      \/ TakeJob
      \/ \E op \in Ops : JobStep(op)
  BY ConnectionAssumption
     DEF Next, ClientStep, TransportStep, MainStep, Quiet, OnWebSocketValidate, OnWebSocketOpen,
         OnStart, OnStop, OnOtherMessage, OnHttp, OnWebSocketClose, HttpWritten, ClearHandlers,
         SendReply, SendHttpResponse, CloseOnRequest, StopListening, StopConnections, PoolJoined,
         GarbageCollect, ResolveThrows, vars, conVars, opVars, Conns
<1>5. CASE TakeJob
  <2>1. Head(pool) \in Ops
    BY <1>5 DEF TakeJob, TypeOK
  <2> QED
    BY <1>3, <1>5, <2>1 DEF TakeJob, GoTo, conVars
<1>6. ASSUME NEW op \in Ops, JobStep(op)
      PROVE  \A q \in Ops : pc[q] # "free" => owner'[q] = owner[q] /\ pc'[q] # "free"
  BY <1>1, <1>3, <1>6
     DEF JobStep, CopyOnReply, CheckStopped, Resolve, Reply, AutoStop, At, GoTo, Finish, conVars
<1> QED
  BY <1>1, <1>2, <1>4, <1>5, <1>6

\* A connection that is closing or closed is not opened again, nor does one
\* go back to its handshake.
LEMMA LostKept ==
    ASSUME JobInv, [Next]_vars
    PROVE  \A c \in Conns :
             /\ conState[c] \in {"closing", "closed"} => conState'[c] \in {"closing", "closed"}
             /\ conState'[c] = "handshake" => conState[c] = "handshake"
<1> USE DEF JobInv
<1>c. WebSockets \subseteq Conns /\ HttpRequests \subseteq Conns
  BY DEF Conns
<1>1. CASE UNCHANGED conState
  BY <1>1
<1>2. ASSUME NEW c \in Conns,
             \/ Setup(c)
             \/ \E state \in {"closing", "closed"} : conState' = [conState EXCEPT ![c] = state]
      PROVE  \A d \in Conns :
               /\ conState[d] \in {"closing", "closed"} => conState'[d] \in {"closing", "closed"}
               /\ conState'[d] = "handshake" => conState[d] = "handshake"
  BY <1>2 DEF Setup, TypeOK
<1>3. CASE PoolJoined
  BY <1>3 DEF PoolJoined, Closable
<1>4. CASE SendHttpResponse
  <2>1. Head(tasks) \in Tasks /\ Head(tasks).kind = "http"
    BY <1>4 DEF SendHttpResponse, Run, TypeOK
  <2>2. Head(tasks).con \in Conns
    BY <1>c, <2>1 DEF Tasks
  <2> QED
    BY <1>2, <1>4, <2>2 DEF SendHttpResponse
<1>5. CASE CloseOnRequest
  <2>1. Head(tasks) \in Tasks /\ Head(tasks).kind = "close"
    BY <1>5 DEF CloseOnRequest, Run, TypeOK
  <2>2. Head(tasks).con \in Conns
    BY <1>c, <2>1 DEF Tasks
  <2> QED
    BY <1>1, <1>2, <1>5, <2>2 DEF CloseOnRequest
<1> QED
  BY <1>c, <1>1, <1>2, <1>3, <1>4, <1>5
     DEF Next, ClientStep, TransportStep, MainStep, JobStep, Quiet, OnWebSocketValidate,
         OnWebSocketOpen, OnStart, OnStop, OnOtherMessage, OnHttp, OnWebSocketClose, HttpWritten,
         ClearHandlers, SendReply, StopListening, StopConnections, GarbageCollect, TakeJob,
         CopyOnReply, CheckStopped, Resolve, Reply, AutoStop, ResolveThrows, vars, conVars

\* Steps that neither map, stop nor queue an operation.
LEMMA OtherStopInv ==
    ASSUME JobInv, StopInv, [Next]_vars, UNCHANGED <<operations, owner, stopped, pool>>,
           \A op \in Ops : /\ pc'[op] = "queued" => pc[op] = "queued"
                           /\ pc[op] = "free" => pc'[op] = "free"
                           /\ pc[op] = "done" => pc'[op] = "done"
    PROVE  StopInv'
<1>1. \A op \in Ops : pc'[op] # "free" => conState'[owner'[op]] # "handshake"
  BY OwnerKept, LostKept DEF StopInv, JobInv, MapInv
<1>2. \A op \in Ops : pc'[op] = "free" => pc[op] = "free"
  BY OwnerKept
<1> QED
  BY <1>1, <1>2 DEF StopInv, Maps

\* A new operation was never stopped, and is mapped once.
LEMMA AddStopInv ==
    ASSUME JobInv, StopInv, [Next]_vars, NEW c \in Conns, NEW id \in Ids, NEW op \in Ops,
           AddOperation(c, id, op), conState'[c] # "handshake"
    PROVE  StopInv'
<1> USE DEF JobInv
<1>1. /\ pc[op] = "free" /\ pc'[op] = "queued" /\ owner'[op] = c
      /\ \A q \in Ops \ {op} : pc'[q] = pc[q] /\ owner'[q] = owner[q]
      /\ stopped' = stopped /\ op \notin stopped
  BY DEF AddOperation, TypeOK, StopInv
<1>2. /\ operations'[c][id] = op
      /\ \A d \in Conns, key \in Ids : d # c \/ key # id => operations'[d][key] = operations[d][key]
  BY DEF AddOperation, TypeOK
<1>3. \A d \in Conns, key \in Ids : operations[d][key] # op
  BY <1>1, ConnectionAssumption DEF MapInv
<1>4. \A q \in Ops : pc'[q] = "queued" => \E i \in DOMAIN pool' : pool'[i] = q
  <2>1. /\ DOMAIN pool' = DOMAIN pool \cup {Len(pool) + 1} /\ pool'[Len(pool) + 1] = op
        /\ \A i \in DOMAIN pool : pool'[i] = pool[i]
    BY DEF AddOperation, TypeOK
  <2> QED
    BY <1>1, <2>1 DEF StopInv
<1>5. \A q \in Ops : pc'[q] # "free" => conState'[owner'[q]] # "handshake"
  BY <1>1, LostKept DEF StopInv, MapInv
<1>6. \A q \in Ops : Maps(q)' /\ q \in stopped' => pc'[q] = "done"
  BY <1>1, <1>2 DEF StopInv, Maps
<1>7. \A d \in Conns : \A key, other \in Ids :
        operations'[d][key] # None /\ operations'[d][key] = operations'[d][other] => key = other
  BY <1>2, <1>3 DEF StopInv
<1> QED
  BY <1>1, <1>4, <1>5, <1>6, <1>7 DEF StopInv

\* What is stopped when connections end is not mapped any more.
LEMMA UnmapStopInv ==
    ASSUME JobInv, StopInv, [Next]_vars, UNCHANGED <<owner, pc, pool>>, NEW S \in SUBSET Conns,
           \A c \in Conns : operations'[c] = IF c \in S THEN NoOperations ELSE operations[c],
           \A op \in Ops : op \in stopped' => op \in stopped \/ \E c \in S : op \in Mapped(c)
    PROVE  StopInv'
<1> USE DEF JobInv
<1>1. \A op \in Ops : op \in stopped' => op \in stopped \/ \E c \in S, id \in Ids : operations[c][id] = op
  BY DEF Mapped
<1>2. \A c \in Conns, id \in Ids :
        operations'[c][id] # None => c \notin S /\ operations'[c][id] = operations[c][id]
  BY DEF NoOperations
<1>3. \A op \in Ops : pc'[op] = "free" => op \notin stopped'
  BY <1>1, ConnectionAssumption DEF StopInv, MapInv
<1>4. \A op \in Ops : pc'[op] # "free" => conState'[owner'[op]] # "handshake"
  BY LostKept DEF StopInv, MapInv
<1>5. ASSUME NEW op \in Ops, Maps(op)', op \in stopped' PROVE pc'[op] = "done"
  <2>1. PICK c \in Conns, id \in Ids : operations'[c][id] = op
    BY <1>5 DEF Maps
  <2>2. c \notin S /\ operations[c][id] = op /\ op # None
    BY <1>2, <2>1, ConnectionAssumption
  <2>3. owner[op] = c
    BY <2>2 DEF MapInv
  <2>4. \A d \in S, key \in Ids : operations[d][key] # op
    BY <2>2, <2>3 DEF MapInv
  <2>5. op \in stopped
    BY <1>1, <1>5, <2>4
  <2> QED
    BY <2>2, <2>5 DEF StopInv, Maps
<1>6. \A d \in Conns : \A key, other \in Ids :
        operations'[d][key] # None /\ operations'[d][key] = operations'[d][other] => key = other
  BY <1>2 DEF StopInv
<1>7. \A op \in Ops : pc'[op] = "queued" => \E i \in DOMAIN pool' : pool'[i] = op
  BY DEF StopInv
<1> QED
  BY <1>3, <1>4, <1>5, <1>6, <1>7 DEF StopInv

\* Every step keeps apart what is mapped and what was stopped.
LEMMA StopInvStep == JobInv /\ StopInv /\ [Next]_vars => StopInv'
<1> SUFFICES ASSUME JobInv, StopInv, [Next]_vars PROVE StopInv'
  OBVIOUS
<1> USE DEF JobInv
<1>c. WebSockets \subseteq Conns /\ HttpRequests \subseteq Conns
  BY DEF Conns
<1>1. CASE UNCHANGED <<operations, owner, stopped, pc, pool>>
  BY <1>1, OtherStopInv
<1>2. ASSUME NEW c \in WebSockets, NEW id \in Ids, OnStart(c, id) PROVE StopInv'
  <2>1. PICK op \in Ops : AddOperation(c, id, op)
    BY <1>2 DEF OnStart
  <2>2. conState'[c] = "open"
    BY <1>2 DEF OnStart
  <2> QED
    BY <1>c, <2>1, <2>2, AddStopInv
<1>3. ASSUME NEW c \in HttpRequests, OnHttp(c) PROVE StopInv'
  <2>1. conState'[c] = "open"
    BY <1>c, <1>3 DEF OnHttp, Setup, TypeOK
  <2>2. ASSUME NEW op \in Ops, AddOperation(c, HttpId, op) PROVE StopInv'
    BY <1>c, <2>1, <2>2, AddStopInv, ConnectionAssumption
  <2> QED
    BY <1>1, <1>3, <2>2 DEF OnHttp, HandleRequest, opVars
<1>4. ASSUME NEW c \in WebSockets, NEW id \in Ids, OnStop(c, id) PROVE StopInv'
  <2>1. /\ UNCHANGED <<owner, pc, pool, conState>> /\ operations'[c][id] = None
        /\ \A d \in Conns, key \in Ids : d # c \/ key # id => operations'[d][key] = operations[d][key]
        /\ stopped' = stopped \cup {operations[c][id]}
    BY <1>c, <1>4 DEF OnStop, TypeOK
  <2>2. \A op \in Ops : pc'[op] = "free" => op \notin stopped'
    BY <1>c, <1>4, <2>1 DEF OnStop, StopInv, MapInv
  <2>3. ASSUME NEW op \in Ops, Maps(op)', op \in stopped' PROVE pc'[op] = "done"
    <3>1. PICK d \in Conns, key \in Ids : operations'[d][key] = op
      BY <2>3 DEF Maps
    <3>2. op # None
      BY ConnectionAssumption
    <3>3. (d # c \/ key # id) /\ operations[d][key] = op
      BY <2>1, <3>1, <3>2
    <3>4. op # operations[c][id]
      BY <1>c, <3>2, <3>3 DEF StopInv, MapInv
    <3> QED
      BY <2>1, <2>3, <3>3, <3>4 DEF StopInv, Maps
  <2>4. \A d \in Conns : \A key, other \in Ids :
          operations'[d][key] # None /\ operations'[d][key] = operations'[d][other] => key = other
    BY <2>1 DEF StopInv
  <2> QED
    BY <2>1, <2>2, <2>3, <2>4 DEF StopInv
<1>5. ASSUME NEW c \in Conns, Done(c), UNCHANGED <<owner, pc, pool>> PROVE StopInv'
  <2>1. /\ \A d \in Conns : operations'[d] = IF d \in {c} THEN NoOperations ELSE operations[d]
        /\ \A op \in Ops : op \in stopped' => op \in stopped \/ \E d \in {c} : op \in Mapped(d)
    BY <1>5 DEF Done, TypeOK
  <2> QED
    BY <1>5, <2>1, UnmapStopInv
<1>6. CASE StopConnections
  <2>1. /\ UNCHANGED <<owner, pc, pool>> /\ connections \in SUBSET Conns
        /\ \A d \in Conns : operations'[d] = IF d \in connections THEN NoOperations ELSE operations[d]
        /\ \A op \in Ops : op \in stopped' => op \in stopped \/ \E d \in connections : op \in Mapped(d)
    BY <1>6 DEF StopConnections, TypeOK
  <2> QED
    BY <2>1, UnmapStopInv
<1>7. CASE SendHttpResponse
  <2>1. Head(tasks) \in Tasks /\ Head(tasks).kind = "http"
    BY <1>7 DEF SendHttpResponse, Run, TypeOK
  <2>2. Head(tasks).con \in Conns
    BY <1>c, <2>1 DEF Tasks
  <2> QED
    BY <1>5, <1>7, <2>2 DEF SendHttpResponse
<1>8. CASE TakeJob
  <2>1. /\ Head(pool) \in Ops /\ Head(pool) = pool[1] /\ pc' = [pc EXCEPT ![Head(pool)] = "copy"]
        /\ \A i \in DOMAIN pool : i # 1 => i - 1 \in DOMAIN pool' /\ pool'[i - 1] = pool[i]
    BY <1>8 DEF TakeJob, GoTo, TypeOK
  <2>2. pc[Head(pool)] = "queued"
    BY <1>8 DEF TakeJob, PoolInv, TypeOK
  <2>3. \A op \in Ops : pc'[op] = "queued" => \E i \in DOMAIN pool' : pool'[i] = op
    <3> SUFFICES ASSUME NEW op \in Ops, pc'[op] = "queued" PROVE \E i \in DOMAIN pool' : pool'[i] = op
      OBVIOUS
    <3>1. pc[op] = "queued" /\ op # Head(pool)
      BY <2>1 DEF TypeOK
    <3>2. PICK i \in DOMAIN pool : pool[i] = op
      BY <3>1 DEF StopInv
    <3> QED
      BY <2>1, <3>1, <3>2
  <2>4. UNCHANGED <<operations, owner, stopped, conState>>
    BY <1>8 DEF TakeJob, conVars
  <2> QED
    BY <2>1, <2>2, <2>3, <2>4 DEF StopInv, Maps, TypeOK
<1>9. ASSUME NEW op \in Ops, JobStep(op) PROVE StopInv'
  <2>1. CASE AutoStop(op)
    BY <2>1 DEF AutoStop, At, GoTo, Finish, StopInv, Maps, TypeOK, conVars
  <2>2. CASE ~AutoStop(op)
    <3>1. /\ UNCHANGED <<operations, owner, stopped, pool>>
          /\ \A q \in Ops : /\ pc'[q] = "queued" => pc[q] = "queued"
                            /\ pc[q] = "free" => pc'[q] = "free"
                            /\ pc[q] = "done" => pc'[q] = "done"
      BY <1>9, <2>2 DEF JobStep, CopyOnReply, CheckStopped, Resolve, Reply, At, GoTo, Finish,
                        TypeOK, conVars
    <3> QED
      BY <3>1, OtherStopInv
  <2> QED
    BY <2>1, <2>2
<1>10. ASSUME NEW c \in WebSockets, OnWebSocketClose(c) PROVE StopInv'
  BY <1>c, <1>5, <1>10 DEF OnWebSocketClose
<1> QED
  BY <1>1, <1>2, <1>3, <1>4, <1>6, <1>7, <1>8, <1>9, <1>10
     DEF Next, ClientStep, TransportStep, MainStep, Quiet, OnWebSocketValidate,
         OnWebSocketOpen, OnOtherMessage, HttpWritten, ClearHandlers, SendReply, CloseOnRequest,
         StopListening, PoolJoined, GarbageCollect, ResolveThrows, vars, conVars, opVars

\* Steps that neither defer a reply of a web socket nor send one.
LEMMA OtherReplyInv ==
    ASSUME JobInv, TaskInv, ReplyInv, [Next]_vars, UNCHANGED sent,
           NEW kind \in {"answer", "close", "stop", "http"}, NEW c, NEW o,
           \/ UNCHANGED tasks
           \/ Defer(kind, c, o)
           \/ tasks # <<>> /\ tasks' = Tail(tasks) /\ Head(tasks).kind = kind,
           \A op \in Ops :
             /\ pc[op] \in {"complete", "autostop", "done"} => pc'[op] \in {"complete", "autostop", "done"}
             /\ pc[op] \in {"autostop", "done"} => pc'[op] \in {"autostop", "done"}
             /\ pc'[op] = "complete" => pc[op] = "complete" \/ owner'[op] \notin WebSockets
    PROVE  /\ TaskInv' /\ ReplyInv'
           /\ \A op \in Ops : Pending("data", op)' = Pending("data", op)
           /\ \A op \in Ops : Pending("complete", op)' = Pending("complete", op)
<1>1. \A op \in Ops : Pending("data", op) \/ Pending("complete", op) => pc[op] # "free"
  BY DEF ReplyInv
<1>2. \A op \in Ops : pc[op] # "free" => owner'[op] = owner[op]
  BY OwnerKept
<1>3. /\ TaskInv'
      /\ \A op \in Ops : Pending("data", op)' = Pending("data", op)
      /\ \A op \in Ops : Pending("complete", op)' = Pending("complete", op)
  BY <1>1, <1>2, OtherTask DEF JobInv
<1>4. \A op \in Ops : pc[op] # "free" /\ Lost(op) => Lost(op)'
  BY <1>2, LostKept DEF Lost, JobInv, MapInv
<1>5. ReplyInv'
  BY <1>2, <1>3, <1>4 DEF ReplyInv
<1> QED
  BY <1>3, <1>5

\* What a job defers for a web socket is its next reply.
LEMMA DeferReplyInv ==
    ASSUME JobInv, TaskInv, ReplyInv, NEW op \in Ops, op \in replies, owner[op] \in WebSockets,
           Reply(op, "data", "complete") \/ Reply(op, "complete", "autostop")
    PROVE  /\ TaskInv' /\ ReplyInv'
           /\ pc[op] = "complete" => Pending("complete", op)'
           /\ \A q \in Ops : q # op => Pending("complete", q)' = Pending("complete", q)
<1>1. UNCHANGED <<owner, conState, sent>>
  BY DEF Reply, conVars, clientVars
<1>2. \A q \in Ops : Lost(q)' = Lost(q)
  BY <1>1 DEF Lost
<1>3. CASE Reply(op, "data", "complete")
  <2>1. /\ pc[op] = "data" /\ pc'[op] = "complete" /\ Defer("data", owner[op], op)
        /\ \A q \in Ops \ {op} : pc'[q] = pc[q]
    BY <1>3 DEF Reply, At, GoTo, JobInv, TypeOK
  <2>2. ~Pending("data", op) /\ ~Pending("complete", op) /\ sent[op] = <<>>
    BY <2>1 DEF ReplyInv
  <2>3. /\ TaskInv' /\ Pending("data", op)'
        /\ \A q \in Ops, k \in {"data", "complete"} :
             q # op \/ k # "data" => Pending(k, q)' = Pending(k, q)
    BY <1>1, <2>1, <2>2, ReplyDeferred DEF JobInv
  <2>4. ReplyInv'
    BY <1>1, <1>2, <2>1, <2>2, <2>3 DEF ReplyInv
  <2> QED
    BY <2>1, <2>3, <2>4
<1>4. CASE Reply(op, "complete", "autostop")
  <2>1. /\ pc[op] = "complete" /\ pc'[op] = "autostop" /\ Defer("complete", owner[op], op)
        /\ \A q \in Ops \ {op} : pc'[q] = pc[q]
    BY <1>4 DEF Reply, At, GoTo, JobInv, TypeOK
  <2>2. /\ ~Pending("complete", op) /\ sent[op] # <<"data", "complete">>
        /\ sent[op] # <<>> \/ Pending("data", op) \/ Lost(op)
    BY <2>1 DEF ReplyInv
  <2>3. /\ TaskInv' /\ Pending("complete", op)'
        /\ \A q \in Ops, k \in {"data", "complete"} :
             q # op \/ k # "complete" => Pending(k, q)' = Pending(k, q)
    BY <1>1, <2>1, <2>2, ReplyDeferred DEF JobInv
  <2>4. ReplyInv'
    BY <1>1, <1>2, <2>1, <2>2, <2>3 DEF ReplyInv
  <2> QED
    BY <2>1, <2>3, <2>4
<1> QED
  BY <1>3, <1>4

\* What the main thread sends is the next reply, unless nobody receives it.
LEMMA SendReplyInv ==
    ASSUME JobInv, StopInv, TaskInv, ReplyInv, SendReply, Head(tasks).kind # "answer"
    PROVE  /\ TaskInv' /\ ReplyInv'
           /\ \A op \in Ops : Pending("complete", op) =>
                \/ Pending("complete", op)' /\ sent'[op] # <<"data", "complete">>
                \/ Lost(op)' \/ sent'[op] = <<"data", "complete">>
           /\ \A op \in Ops : sent[op] = <<"data", "complete">> => sent'[op] = sent[op]
<1> PICK op : op = Head(tasks).op
  OBVIOUS
<1> PICK kind : kind = Head(tasks).kind
  OBVIOUS
<1>1. /\ tasks # <<>> /\ tasks' = Tail(tasks) /\ Head(tasks) \in Tasks
      /\ kind \in {"data", "complete"} /\ UNCHANGED <<owner, pc, conState>>
  BY DEF SendReply, Run, JobInv, TypeOK, conVars, opVars
<1>2. op \in Ops
  BY <1>1 DEF Tasks
<1>3. /\ TaskInv' /\ ~Pending(kind, op)' /\ Pending(kind, op)
      /\ kind = "complete" => ~Pending("data", op)
      /\ Head(tasks).con = owner[op]
      /\ \A q \in Ops, k \in {"data", "complete"} :
           q # op \/ k # kind => Pending(k, q)' = Pending(k, q)
  BY <1>1, <1>2, ReplyRan DEF JobInv
<1>4. \A q \in Ops : Lost(q)' = Lost(q)
  BY <1>1 DEF Lost
<1>5. conState[owner[op]] # "open" => Lost(op)
  <2>1. pc[op] # "free"
    BY <1>1, <1>2, <1>3 DEF ReplyInv
  <2>2. owner[op] \in Conns /\ conState[owner[op]] # "handshake"
    BY <1>2, <2>1 DEF JobInv, MapInv, StopInv
  <2> QED
    BY <2>2 DEF Lost, JobInv, TypeOK
<1>6. /\ \A q \in Ops : q # op => sent'[q] = sent[q]
      /\ conState[owner[op]] = "open" => sent'[op] = Append(sent[op], kind)
      /\ conState[owner[op]] # "open" => sent'[op] = sent[op]
  BY <1>2, <1>3 DEF SendReply, JobInv, TypeOK
<1>7. CASE kind = "data"
  <2>1. sent[op] = <<>> /\ pc[op] \in {"complete", "autostop", "done"}
    BY <1>2, <1>3, <1>7 DEF ReplyInv
  <2>2. sent'[op] = <<"data">> \/ (Lost(op) /\ sent'[op] = <<>>)
    BY <1>5, <1>6, <1>7, <2>1
  <2>3. ReplyInv'
    <3> SUFFICES ASSUME NEW q \in Ops
                 PROVE  /\ sent'[q] \in {<<>>, <<"data">>, <<"data", "complete">>}
                        /\ Pending("data", q)' => pc[q] \in {"complete", "autostop", "done"} /\ sent'[q] = <<>>
                        /\ Pending("complete", q)' =>
                             pc[q] \in {"autostop", "done"} /\ sent'[q] # <<"data", "complete">>
                        /\ sent'[q] = <<"data">> => pc[q] \in {"complete", "autostop", "done"}
                        /\ sent'[q] = <<"data", "complete">> => pc[q] \in {"autostop", "done"}
                        /\ Pending("complete", q)' \/ (pc[q] = "complete" /\ owner[q] \in WebSockets) =>
                             sent'[q] # <<>> \/ Pending("data", q)' \/ Lost(q)
      BY <1>1, <1>4 DEF ReplyInv
    <3>1. CASE q # op
      BY <1>3, <1>6, <3>1 DEF ReplyInv
    <3>2. CASE q = op
      <4>1. Pending("complete", op)' = Pending("complete", op) /\ ~Pending("data", op)'
        BY <1>2, <1>3, <1>7
      <4>2. Pending("complete", op) => pc[op] \in {"autostop", "done"}
        BY <1>2 DEF ReplyInv
      <4>3. <<"data">> # <<>> /\ <<"data">> # <<"data", "complete">>
        OBVIOUS
      <4>4. CASE sent'[op] = <<"data">>
        BY <2>1, <3>2, <4>1, <4>2, <4>3, <4>4
      <4>5. CASE Lost(op) /\ sent'[op] = <<>>
        BY <2>1, <3>2, <4>1, <4>2, <4>5
      <4> QED
        BY <2>2, <4>4, <4>5
    <3> QED
      BY <3>1, <3>2
  <2>4. \A q \in Ops : sent[q] = <<"data", "complete">> => sent'[q] = sent[q]
    BY <1>6, <2>1
  <2>5. \A q \in Ops : Pending("complete", q) =>
           Pending("complete", q)' /\ sent'[q] # <<"data", "complete">>
    BY <1>3, <1>7, <2>3 DEF ReplyInv
  <2> QED
    BY <1>3, <2>3, <2>4, <2>5
<1>8. CASE kind = "complete"
  <2>1. /\ sent[op] = <<"data">> \/ (sent[op] = <<>> /\ Lost(op))
        /\ pc[op] \in {"autostop", "done"}
    BY <1>2, <1>3, <1>8 DEF ReplyInv
  <2>2. \/ sent'[op] = <<"data", "complete">>
        \/ Lost(op) /\ sent'[op] = sent[op]
    <3>1. Lost(op) => conState[owner[op]] # "open"
      BY DEF Lost
    <3> QED
      BY <1>5, <1>6, <1>8, <2>1, <3>1
  <2>3. ReplyInv'
    <3> SUFFICES ASSUME NEW q \in Ops
                 PROVE  /\ sent'[q] \in {<<>>, <<"data">>, <<"data", "complete">>}
                        /\ Pending("data", q)' => pc[q] \in {"complete", "autostop", "done"} /\ sent'[q] = <<>>
                        /\ Pending("complete", q)' =>
                             pc[q] \in {"autostop", "done"} /\ sent'[q] # <<"data", "complete">>
                        /\ sent'[q] = <<"data">> => pc[q] \in {"complete", "autostop", "done"}
                        /\ sent'[q] = <<"data", "complete">> => pc[q] \in {"autostop", "done"}
                        /\ Pending("complete", q)' \/ (pc[q] = "complete" /\ owner[q] \in WebSockets) =>
                             sent'[q] # <<>> \/ Pending("data", q)' \/ Lost(q)
      BY <1>1, <1>4 DEF ReplyInv
    <3>1. CASE q # op
      BY <1>3, <1>6, <3>1 DEF ReplyInv
    <3>2. CASE q = op
      BY <1>2, <1>3, <1>8, <2>1, <2>2, <3>2 DEF ReplyInv
    <3> QED
      BY <3>1, <3>2
  <2>4. \A q \in Ops : sent[q] = <<"data", "complete">> => sent'[q] = sent[q]
    BY <1>6, <2>1
  <2>5. \A q \in Ops : Pending("complete", q) =>
           \/ Pending("complete", q)' /\ sent'[q] # <<"data", "complete">>
           \/ Lost(q)' \/ sent'[q] = <<"data", "complete">>
    BY <1>3, <1>4, <1>8, <2>2, <2>3 DEF ReplyInv
  <2> QED
    BY <1>3, <2>3, <2>4, <2>5
<1> QED
  BY <1>1, <1>7, <1>8

\* All about the replies.
HandedInv == JobInv /\ StopInv /\ TaskInv /\ ReplyInv /\ HandInv

\* An HTTP reply stays deferred while others are deferred or run.
LEMMA AnsweringKept ==
    ASSUME TypeOK, NEW kind, NEW c, NEW op,
           \/ UNCHANGED tasks
           \/ Defer(kind, c, op)
           \/ tasks # <<>> /\ tasks' = Tail(tasks) /\ Head(tasks).kind # "http"
    PROVE  \A d \in HttpRequests : Answering(d) => Answering(d)'
<1>1. CASE UNCHANGED tasks
  BY <1>1 DEF Answering
<1>2. CASE Defer(kind, c, op)
  <2>1. /\ DOMAIN tasks' = DOMAIN tasks \cup {Len(tasks) + 1}
        /\ \A i \in DOMAIN tasks : tasks'[i] = tasks[i]
    BY <1>2 DEF Defer, TypeOK
  <2> QED
    BY <2>1 DEF Answering
<1>3. CASE tasks # <<>> /\ tasks' = Tail(tasks) /\ Head(tasks).kind # "http"
  <2>1. /\ tasks[1].kind # "http"
        /\ \A i \in DOMAIN tasks : i # 1 => i - 1 \in DOMAIN tasks' /\ tasks'[i - 1] = tasks[i]
    BY <1>3, Ran
  <2> QED
    BY <2>1 DEF Answering
<1> QED
  BY <1>1, <1>2, <1>3

\* Steps that send no reply to a web socket, and after which what an operation
\* owes is handed over.
LEMMA OtherHandInv ==
    ASSUME HandedInv, [Next]_vars, UNCHANGED sent,
           NEW kind \in {"answer", "close", "stop", "http"}, NEW c, NEW o,
           \/ UNCHANGED tasks
           \/ Defer(kind, c, o)
           \/ tasks # <<>> /\ tasks' = Tail(tasks) /\ Head(tasks).kind = kind,
           \A op \in Ops :
             /\ pc[op] \in {"complete", "autostop", "done"} => pc'[op] \in {"complete", "autostop", "done"}
             /\ pc[op] \in {"autostop", "done"} => pc'[op] \in {"autostop", "done"}
             /\ pc'[op] = "complete" => pc[op] = "complete" \/ owner'[op] \notin WebSockets
             /\ Due(op)' => Due(op) \/ Handed(op)',
           \A d \in HttpRequests :
             Answering(d) \/ responses[d] > 0 => Answering(d)' \/ responses'[d] > 0
    PROVE  TaskInv' /\ ReplyInv' /\ HandInv'
<1>1. /\ TaskInv' /\ ReplyInv'
      /\ \A op \in Ops : Pending("complete", op)' = Pending("complete", op)
  BY OtherReplyInv DEF HandedInv
<1>2. ASSUME NEW op \in Ops, Due(op), Handed(op) PROVE Handed(op)'
  <2>1. owner'[op] = owner[op] /\ owner[op] \in Conns
    BY <1>2, OwnerKept DEF Due, HandedInv, JobInv, MapInv
  <2>2. Lost(op) => Lost(op)'
    BY <2>1, LostKept DEF Lost, HandedInv
  <2> QED
    BY <1>1, <1>2, <2>1, <2>2 DEF Handed
<1> QED
  BY <1>1, <1>2 DEF HandedInv, HandInv

\* Steps that move no job and map nothing new.
LEMMA MainHandInv ==
    ASSUME HandedInv, [Next]_vars, UNCHANGED <<sent, pc, owner>>,
           NEW kind \in {"answer", "close", "stop", "http"}, NEW c, NEW o,
           \/ UNCHANGED tasks
           \/ Defer(kind, c, o)
           \/ tasks # <<>> /\ tasks' = Tail(tasks) /\ Head(tasks).kind = kind,
           \A d \in Conns, id \in Ids : operations'[d][id] \in {operations[d][id], None},
           \A d \in HttpRequests :
             Answering(d) \/ responses[d] > 0 => Answering(d)' \/ responses'[d] > 0
    PROVE  TaskInv' /\ ReplyInv' /\ HandInv'
<1>1. \A op \in Ops : Due(op)' => Due(op)
  BY ConnectionAssumption DEF Due, Maps
<1> QED
  BY <1>1, OtherHandInv

\* A new operation has replied nothing.
LEMMA AddHandInv ==
    ASSUME HandedInv, [Next]_vars, UNCHANGED <<sent, tasks, responses>>,
           NEW c \in Conns, NEW id \in Ids, NEW op \in Ops, AddOperation(c, id, op)
    PROVE  TaskInv' /\ ReplyInv' /\ HandInv'
<1>1. /\ pc[op] = "free" /\ pc'[op] = "queued"
      /\ \A q \in Ops \ {op} : pc'[q] = pc[q] /\ owner'[q] = owner[q]
  BY DEF AddOperation, HandedInv, JobInv, TypeOK
<1>2. \A d \in Conns, key \in Ids : operations'[d][key] \in {operations[d][key], op}
  BY DEF AddOperation, HandedInv, JobInv, TypeOK
<1>3. \A q \in Ops : Due(q)' => Due(q)
  BY <1>1, <1>2 DEF Due, Maps
<1>4. \A d \in HttpRequests : Answering(d)' = Answering(d)
  BY DEF Answering
<1> QED
  BY <1>1, <1>3, <1>4, OtherHandInv

\* A job is taken, copies onReply, or resolves: it owes nothing yet, or was
\* stopped and taken out of the map before.
LEMMA EarlyHandInv ==
    ASSUME HandedInv, [Next]_vars, NEW op \in Ops,
           TakeJob \/ CopyOnReply(op) \/ CheckStopped(op) \/ Resolve(op)
    PROVE  TaskInv' /\ ReplyInv' /\ HandInv'
<1>1. UNCHANGED <<sent, tasks, responses, operations, owner>>
  BY DEF TakeJob, CopyOnReply, CheckStopped, Resolve, conVars, clientVars
<1>2. PICK q \in Ops :
        /\ pc[q] \in {"queued", "copy", "check", "resolve"}
        /\ pc'[q] \in {pc[q], "copy", "check", "resolve", "data", "done"}
        /\ pc'[q] = "done" => q \in stopped
        /\ \A r \in Ops \ {q} : pc'[r] = pc[r]
  <2>1. CASE TakeJob
    <3>1. Head(pool) \in Ops /\ pc[Head(pool)] = "queued"
      BY <2>1 DEF TakeJob, HandedInv, JobInv, TypeOK, PoolInv
    <3> QED
      BY <2>1, <3>1 DEF TakeJob, GoTo, HandedInv, JobInv, TypeOK
  <2>2. CASE CopyOnReply(op)
    BY <2>2 DEF CopyOnReply, At, GoTo, HandedInv, JobInv, TypeOK
  <2>3. CASE CheckStopped(op) \/ Resolve(op)
    BY <2>3 DEF CheckStopped, Resolve, At, GoTo, Finish, HandedInv, JobInv, TypeOK
  <2> QED
    BY <2>1, <2>2, <2>3
<1>3. ~Due(q)'
  <2>1. q \in stopped => ~Maps(q)
    BY <1>2 DEF HandedInv, StopInv
  <2> QED
    BY <1>1, <1>2, <2>1 DEF Due, Maps
<1>4. \A r \in Ops : Due(r)' => Due(r)
  BY <1>1, <1>2, <1>3 DEF Due, Maps
<1>5. \A d \in HttpRequests : Answering(d)' = Answering(d)
  BY <1>1 DEF Answering
<1>6. \A r \in Ops :
        /\ pc[r] \in {"complete", "autostop", "done"} => pc'[r] = pc[r]
        /\ pc'[r] = "complete" => pc[r] = "complete"
  BY <1>2
<1> QED
  BY <1>1, <1>4, <1>5, <1>6, OtherHandInv

\* The replies of a job, and its end.
LEMMA LateHandInv ==
    ASSUME HandedInv, [Next]_vars, NEW op \in Ops,
           Reply(op, "data", "complete") \/ Reply(op, "complete", "autostop") \/ AutoStop(op)
    PROVE  TaskInv' /\ ReplyInv' /\ HandInv'
<1>1. /\ UNCHANGED <<sent, responses, operations, owner, conState>>
      /\ \A q \in Ops : Maps(q)' = Maps(q)
      /\ \A q \in Ops : Lost(q)' = Lost(q)
  BY DEF Reply, AutoStop, conVars, clientVars, Maps, Lost
<1>2. CASE AutoStop(op)
  <2>1. /\ pc[op] = "autostop" /\ pc'[op] = "done" /\ UNCHANGED tasks
        /\ \A q \in Ops \ {op} : pc'[q] = pc[q]
    BY <1>2 DEF AutoStop, At, GoTo, Finish, HandedInv, JobInv, TypeOK
  <2>2. \A q \in Ops : Due(q)' => Due(q)
    BY <1>1, <2>1 DEF Due
  <2>3. \A d \in HttpRequests : Answering(d)' = Answering(d)
    BY <2>1 DEF Answering
  <2> QED
    BY <1>1, <2>1, <2>2, <2>3, OtherHandInv
<1>3. CASE ~AutoStop(op) /\ op \notin replies
  <2>1. UNCHANGED <<pc, tasks>>
    BY <1>3 DEF Reply
  <2>2. \A d \in HttpRequests : Answering(d)' = Answering(d)
    BY <2>1 DEF Answering
  <2> QED
    BY <1>1, <2>1, <2>2, MainHandInv
<1>4. CASE ~AutoStop(op) /\ op \in replies /\ owner[op] \in WebSockets
  <2>1. /\ TaskInv' /\ ReplyInv'
        /\ pc[op] = "complete" => Pending("complete", op)'
        /\ \A q \in Ops : q # op => Pending("complete", q)' = Pending("complete", q)
    BY <1>4, DeferReplyInv DEF HandedInv
  <2>2. /\ \A q \in Ops \ {op} : pc'[q] = pc[q]
        /\ \/ pc[op] = "data" /\ pc'[op] = "complete"
           \/ pc[op] = "complete" /\ pc'[op] = "autostop"
    BY <1>4 DEF Reply, At, GoTo, HandedInv, JobInv, TypeOK
  <2>3. \A d \in HttpRequests : Answering(d) => Answering(d)'
    <3>1. Defer("data", owner[op], op) \/ Defer("complete", owner[op], op)
      BY <1>4 DEF Reply
    <3> QED
      BY <3>1, AnsweringKept DEF HandedInv, JobInv
  <2>4. ASSUME NEW q \in Ops, Due(q)' PROVE Handed(q)'
    <3>1. CASE q = op
      <4>1. pc[op] = "complete"
        BY <1>1, <1>4, <2>2, <2>4, <3>1, ConnectionAssumption DEF Due
      <4> QED
        BY <1>1, <1>4, <2>1, <3>1, <4>1 DEF Handed
    <3>2. CASE q # op
      <4>1. Handed(q)
        BY <1>1, <2>2, <2>4, <3>2 DEF Due, HandedInv, HandInv
      <4> QED
        BY <1>1, <2>1, <2>3, <3>2, <4>1 DEF Handed
    <3> QED
      BY <3>1, <3>2
  <2> QED
    BY <2>1, <2>4 DEF HandInv
<1>5. CASE ~AutoStop(op) /\ op \in replies /\ owner[op] \notin WebSockets
  <2>0. owner[op] \in HttpRequests
    BY <1>5 DEF Reply, At, HandedInv, JobInv, MapInv, Conns
  <2>1. /\ \A q \in Ops \ {op} : pc'[q] = pc[q]
        /\ \/ pc[op] = "data" /\ pc'[op] = "complete" /\ Defer("http", owner[op], op)
           \/ pc[op] = "complete" /\ pc'[op] = "autostop" /\ UNCHANGED tasks
    BY <1>5 DEF Reply, At, GoTo, HandedInv, JobInv, TypeOK
  <2>2. \A d \in HttpRequests : Answering(d) => Answering(d)'
    BY <2>1, AnsweringKept DEF HandedInv, JobInv
  <2>3. Due(op)' => Due(op) \/ Handed(op)'
    <3>1. CASE pc[op] = "complete"
      BY <2>0, <3>1 DEF Due
    <3>2. CASE pc[op] = "data" /\ Defer("http", owner[op], op)
      <4>1. /\ DOMAIN tasks' = DOMAIN tasks \cup {Len(tasks) + 1}
            /\ tasks'[Len(tasks) + 1].kind = "http" /\ tasks'[Len(tasks) + 1].con = owner[op]
        BY <3>2 DEF Defer, Task, HandedInv, JobInv, TypeOK
      <4>2. Answering(owner[op])'
        BY <1>1, <4>1 DEF Answering
      <4> QED
        BY <1>1, <2>0, <4>2 DEF Handed
    <3> QED
      BY <2>1, <3>1, <3>2
  <2>4. \A q \in Ops : Due(q)' => Due(q) \/ Handed(q)'
    BY <1>1, <2>1, <2>3 DEF Due
  <2> QED
    BY <1>1, <1>5, <2>1, <2>2, <2>4, OtherHandInv
<1> QED
  BY <1>2, <1>3, <1>4, <1>5

\* What the main thread sends was handed over.
LEMMA SendHandInv ==
    ASSUME HandedInv, SendReply, Head(tasks).kind # "answer"
    PROVE  TaskInv' /\ ReplyInv' /\ HandInv'
<1>1. /\ TaskInv' /\ ReplyInv'
      /\ \A op \in Ops : Pending("complete", op) =>
           \/ Pending("complete", op)' /\ sent'[op] # <<"data", "complete">>
           \/ Lost(op)' \/ sent'[op] = <<"data", "complete">>
      /\ \A op \in Ops : sent[op] = <<"data", "complete">> => sent'[op] = sent[op]
  BY SendReplyInv DEF HandedInv
<1>2. UNCHANGED <<operations, owner, pc, conState, responses>>
  BY DEF SendReply, conVars, opVars
<1>3. Head(tasks).kind # "http" /\ tasks # <<>> /\ tasks' = Tail(tasks)
  BY DEF SendReply, Run
<1>4. \A d \in HttpRequests : Answering(d) => Answering(d)'
  BY <1>3, AnsweringKept DEF HandedInv, JobInv
<1>5. ASSUME NEW op \in Ops, Due(op)' PROVE Handed(op)'
  <2>1. Handed(op)
    BY <1>2, <1>5 DEF Due, Maps, HandedInv, HandInv
  <2> QED
    BY <1>1, <1>2, <1>4, <2>1 DEF Handed, Lost
<1> QED
  BY <1>1, <1>5 DEF HandInv

\* Every step hands over what an operation owes.
LEMMA HandedInvStep == HandedInv /\ [Next]_vars => HandedInv'
<1> SUFFICES ASSUME HandedInv, [Next]_vars PROVE TaskInv' /\ ReplyInv' /\ HandInv'
  BY JobInvStep, StopInvStep DEF HandedInv
<1>c. WebSockets \subseteq Conns /\ HttpRequests \subseteq Conns
  BY DEF Conns
<1>0. \A d \in HttpRequests : UNCHANGED <<tasks, responses>> /\ (Answering(d) \/ responses[d] > 0) =>
        Answering(d)' \/ responses'[d] > 0
  BY DEF Answering
<1>1. CASE \/ \E c \in WebSockets : OnWebSocketValidate(c) \/ OnWebSocketOpen(c) \/ OnWebSocketClose(c)
           \/ \E c \in WebSockets, id \in Ids : OnStop(c, id)
           \/ \E c \in HttpRequests : HttpWritten(c)
           \/ \E op \in Ops : ResolveThrows(op)
           \/ ClearHandlers \/ GarbageCollect \/ PoolJoined \/ UNCHANGED vars
  <2>1. UNCHANGED <<sent, pc, owner, tasks, responses>>
    BY <1>1 DEF OnWebSocketValidate, OnWebSocketOpen, OnWebSocketClose, OnStop, HttpWritten,
                ClearHandlers, GarbageCollect, PoolJoined, ResolveThrows, vars, conVars, opVars, clientVars
  <2>2. \A d \in Conns, id \in Ids : operations'[d][id] \in {operations[d][id], None}
    <3>1. ASSUME NEW c \in WebSockets, OnWebSocketClose(c)
          PROVE  \A d \in Conns, id \in Ids : operations'[d][id] \in {operations[d][id], None}
      BY <1>c, <3>1 DEF OnWebSocketClose, Done, NoOperations, HandedInv, JobInv, TypeOK
    <3>2. ASSUME NEW c \in WebSockets, NEW key \in Ids, OnStop(c, key)
          PROVE  \A d \in Conns, id \in Ids : operations'[d][id] \in {operations[d][id], None}
      BY <1>c, <3>2 DEF OnStop, HandedInv, JobInv, TypeOK
    <3> QED
      BY <1>1, <3>1, <3>2
         DEF OnWebSocketValidate, OnWebSocketOpen, HttpWritten, ClearHandlers, GarbageCollect,
             PoolJoined, ResolveThrows, vars, conVars
  <2> QED
    BY <1>0, <2>1, <2>2, MainHandInv
<1>2. CASE (\E c \in WebSockets : OnOtherMessage(c)) \/ StopListening
  <2>1. /\ UNCHANGED <<sent, pc, owner, responses, operations>>
        /\ \E kind \in {"answer", "close", "stop"}, c \in WebSockets \cup {None} : Defer(kind, c, None)
    BY <1>2 DEF OnOtherMessage, StopListening, conVars, opVars, clientVars
  <2>2. \A d \in HttpRequests : Answering(d) => Answering(d)'
    BY <2>1, AnsweringKept DEF HandedInv, JobInv
  <2> QED
    BY <2>1, <2>2, MainHandInv
<1>3. CASE CloseOnRequest \/ StopConnections \/ (SendReply /\ Head(tasks).kind = "answer")
  <2>1. /\ UNCHANGED <<sent, pc, owner, responses>>
        /\ tasks # <<>> /\ tasks' = Tail(tasks) /\ Head(tasks).kind \in {"close", "stop", "answer"}
    BY <1>3 DEF CloseOnRequest, StopConnections, SendReply, Run, conVars, opVars, clientVars
  <2>2. \A d \in Conns, id \in Ids : operations'[d][id] \in {operations[d][id], None}
    BY <1>3 DEF CloseOnRequest, StopConnections, SendReply, NoOperations, conVars
  <2>3. \A d \in HttpRequests : Answering(d) => Answering(d)'
    BY <2>1, AnsweringKept DEF HandedInv, JobInv
  <2> QED
    BY <2>1, <2>2, <2>3, MainHandInv
<1>4. CASE SendHttpResponse
  <2>1. /\ UNCHANGED <<sent, pc, owner>>
        /\ tasks # <<>> /\ tasks' = Tail(tasks) /\ Head(tasks).kind = "http"
    BY <1>4 DEF SendHttpResponse, Run
  <2>2. 1 \in DOMAIN tasks /\ Head(tasks) = tasks[1] /\ tasks[1] \in Tasks
    BY <2>1, Ran DEF HandedInv, JobInv
  <2>3. tasks[1].con \in HttpRequests
    BY <2>1, <2>2 DEF Tasks
  <2>4. /\ \A d \in Conns, id \in Ids : operations'[d][id] \in {operations[d][id], None}
        /\ responses' = [responses EXCEPT ![tasks[1].con] = @ + 1]
    BY <1>c, <1>4, <2>2, <2>3 DEF SendHttpResponse, Done, NoOperations, HandedInv, JobInv, TypeOK
  <2>5. ASSUME NEW d \in HttpRequests, Answering(d) \/ responses[d] > 0
        PROVE  Answering(d)' \/ responses'[d] > 0
    <3>1. CASE d = tasks[1].con
      BY <2>4, <3>1 DEF HandedInv, JobInv, TypeOK
    <3>2. CASE d # tasks[1].con
      <4>1. \A i \in DOMAIN tasks : i # 1 => i - 1 \in DOMAIN tasks' /\ tasks'[i - 1] = tasks[i]
        BY <2>1, Ran DEF HandedInv, JobInv
      <4>2. responses'[d] = responses[d]
        BY <2>4, <3>2 DEF HandedInv, JobInv, TypeOK
      <4> QED
        BY <2>5, <3>2, <4>1, <4>2 DEF Answering
    <3> QED
      BY <3>1, <3>2
  <2> QED
    BY <2>1, <2>4, <2>5, MainHandInv
<1>5. ASSUME NEW c \in WebSockets, NEW id \in Ids, OnStart(c, id) PROVE TaskInv' /\ ReplyInv' /\ HandInv'
  <2>1. PICK op \in Ops : AddOperation(c, id, op)
    BY <1>5 DEF OnStart
  <2> QED
    BY <1>c, <1>5, <2>1, AddHandInv DEF OnStart, clientVars
<1>6. ASSUME NEW c \in HttpRequests, OnHttp(c) PROVE TaskInv' /\ ReplyInv' /\ HandInv'
  <2>1. CASE Defer("http", c, None) /\ UNCHANGED <<operations, owner, opVars>>
    <3>1. UNCHANGED <<sent, pc, owner, responses, operations>>
      BY <1>6, <2>1 DEF OnHttp, opVars, clientVars
    <3>2. \A d \in HttpRequests : Answering(d) => Answering(d)'
      BY <2>1, AnsweringKept DEF HandedInv, JobInv
    <3> QED
      BY <2>1, <3>1, <3>2, MainHandInv
  <2>2. ASSUME NEW op \in Ops, AddOperation(c, HttpId, op), UNCHANGED tasks
        PROVE  TaskInv' /\ ReplyInv' /\ HandInv'
    BY <1>c, <1>6, <2>2, AddHandInv, ConnectionAssumption DEF OnHttp, clientVars
  <2> QED
    BY <1>6, <2>1, <2>2 DEF OnHttp
<1>7. CASE TakeJob
  <2>1. Head(pool) \in Ops
    BY <1>7 DEF TakeJob, HandedInv, JobInv, TypeOK
  <2> QED
    BY <1>7, <2>1, EarlyHandInv
<1>8. ASSUME NEW op \in Ops, JobStep(op) PROVE TaskInv' /\ ReplyInv' /\ HandInv'
  BY <1>8, EarlyHandInv, LateHandInv DEF JobStep
<1> QED
  BY <1>1, <1>2, <1>3, <1>4, <1>5, <1>6, <1>7, <1>8, SendHandInv
     DEF Next, ClientStep, TransportStep, MainStep, Quiet

\* All about the replies holds in every behaviour.
LEMMA HandedInvAlways == Spec => []HandedInv
<1>1. Init => HandedInv
  BY JobInvInit, ConnectionAssumption
     DEF Init, HandedInv, StopInv, Maps, TaskInv, ReplyInv, HandInv, Due, Pending, NoOperations
<1> QED
  BY <1>1, HandedInvStep, PTL DEF Spec

\* Whatever threads resolve and whenever the main thread gets to send, a web
\* socket client gets the DATA of an operation before its COMPLETE, and each
\* once at most.
THEOREM RepliesKeepOrder == Spec => []RepliesInOrder
<1>1. HandedInv => RepliesInOrder
  BY DEF HandedInv, ReplyInv, RepliesInOrder
<1> QED
  BY <1>1, HandedInvAlways, PTL

\* A server with nothing left to do has answered every operation that was not
\* stopped and whose connection is open: nothing is forgotten between the pool
\* and the main thread.  This is the safety half of EveryStartAnswered.
THEOREM NoAnswerIsForgotten == Spec => []RestIsAnswered
<1>1. HandedInv => RestIsAnswered
  <2> SUFFICES ASSUME HandedInv, AtRest, NEW op \in Ops, Registered(op), conState[owner[op]] = "open"
               PROVE  Answered(op)
    BY DEF RestIsAnswered
  <2> USE DEF HandedInv
  <2>1. PICK c \in Conns, id \in Ids : operations[c][id] = op
    BY RegisteredOps DEF JobInv
  <2>2. owner[op] = c /\ pc[op] # "free" /\ Maps(op)
    BY <2>1, ConnectionAssumption DEF JobInv, MapInv, Maps
  <2>3. pc[op] = "done"
    <3>1. pc[op] # "queued"
      BY DEF AtRest, StopInv
    <3> QED
      BY <2>2, <3>1 DEF AtRest, Active
  <2>4. Handed(op) /\ ~Lost(op)
    BY <2>2, <2>3 DEF HandInv, Due, Lost
  <2>5. ~Pending("complete", op) /\ ~Answering(owner[op])
    BY DEF AtRest, Pending, Answering
  <2> QED
    BY <2>2, <2>4, <2>5, ConnectionAssumption DEF Handed, Answered
<1> QED
  BY <1>1, HandedInvAlways, PTL

-----------------------------------------------------------------------------
\* What stopListening() deferred waits once, and runs once.
Stops == {i \in DOMAIN tasks : tasks[i].kind = "stop"}

ShutdownInv ==
    /\ Stops # {} \/ main.do = "join" => server = "stopping"
    /\ \A i, j \in Stops : i = j
    /\ main.do = "join" => Stops = {}

\* Steps that are no part of the shutdown.
LEMMA OtherShutdownInv ==
    ASSUME TypeOK, ShutdownInv, server' = server, main'.do = "join" => main.do = "join",
           \/ UNCHANGED tasks
           \/ \E kind, c, op : kind # "stop" /\ Defer(kind, c, op)
           \/ tasks # <<>> /\ tasks' = Tail(tasks) /\ main.do # "join"
    PROVE  ShutdownInv'
<1>1. CASE UNCHANGED tasks
  <2>1. Stops' = Stops
    BY <1>1 DEF Stops
  <2> QED
    BY <2>1 DEF ShutdownInv
<1>2. CASE \E kind, c, op : kind # "stop" /\ Defer(kind, c, op)
  <2>1. PICK kind, c, op : kind # "stop" /\ Defer(kind, c, op)
    BY <1>2
  <2>2. /\ DOMAIN tasks' = DOMAIN tasks \cup {Len(tasks) + 1}
        /\ tasks'[Len(tasks) + 1].kind # "stop"
        /\ \A i \in DOMAIN tasks : tasks'[i] = tasks[i]
    BY <2>1 DEF Defer, Task, TypeOK
  <2>3. Stops' = Stops
    BY <2>2 DEF Stops
  <2> QED
    BY <2>3 DEF ShutdownInv
<1>3. CASE tasks # <<>> /\ tasks' = Tail(tasks) /\ main.do # "join"
  <2>1. \A i \in Stops' : i \in Int /\ i + 1 \in Stops
    BY <1>3, Ran DEF Stops
  <2>2. \A i, j \in Stops' : i = j
    BY <2>1 DEF ShutdownInv
  <2> QED
    BY <1>3, <2>1, <2>2 DEF ShutdownInv
<1> QED
  BY <1>1, <1>2, <1>3

LEMMA ShutdownInvStep ==
    ASSUME TypeOK, ShutdownInv, [Next]_vars
    PROVE  ShutdownInv'
<1>1. CASE StopListening
  <2>1. Stops = {} /\ main.do # "join" /\ main' = main /\ server' = "stopping"
    BY <1>1 DEF StopListening, ShutdownInv, Idle, Loop
  <2>2. /\ DOMAIN tasks' = DOMAIN tasks \cup {Len(tasks) + 1}
        /\ \A i \in DOMAIN tasks : tasks'[i] = tasks[i]
    BY <1>1 DEF StopListening, Defer, Task, TypeOK
  <2>3. Stops' \subseteq {Len(tasks) + 1}
    BY <2>1, <2>2 DEF Stops
  <2> QED
    BY <2>1, <2>3 DEF ShutdownInv
<1>2. CASE StopConnections
  <2>1. /\ tasks # <<>> /\ tasks' = Tail(tasks) /\ Head(tasks).kind = "stop"
        /\ server' = server /\ main'.do = "join"
    BY <1>2 DEF StopConnections, Run
  <2>2. 1 \in Stops
    BY <2>1, Ran DEF Stops
  <2>3. \A i \in Stops' : i + 1 \in Stops /\ i + 1 # 1
    BY <2>1, Ran DEF Stops
  <2>4. Stops' = {}
    BY <2>2, <2>3 DEF ShutdownInv
  <2> QED
    BY <2>1, <2>2, <2>4 DEF ShutdownInv
<1>3. CASE PoolJoined
  <2>1. Stops = {} /\ tasks' = tasks /\ main'.do = "loop"
    BY <1>3 DEF PoolJoined, ShutdownInv, Loop
  <2>2. Stops' = {}
    BY <2>1 DEF Stops
  <2> QED
    BY <2>1, <2>2 DEF ShutdownInv
<1>4. CASE ~StopListening /\ ~StopConnections /\ ~PoolJoined
  <2>1. server' = server
    BY <1>4
       DEF Next, ClientStep, TransportStep, MainStep, JobStep, Quiet, OnWebSocketValidate, OnWebSocketOpen, OnStart,
           OnStop, OnOtherMessage, OnHttp, OnWebSocketClose, HttpWritten, ClearHandlers, SendReply,
           SendHttpResponse, CloseOnRequest, TakeJob, CopyOnReply, CheckStopped,
           Resolve, Reply, AutoStop, ResolveThrows, GarbageCollect, vars
  <2>2. main' = main \/ main'.do \in {"loop", "clear"}
    BY <1>4
       DEF Next, ClientStep, TransportStep, MainStep, JobStep, Quiet, OnWebSocketValidate, OnWebSocketOpen, OnStart,
           OnStop, OnOtherMessage, OnHttp, OnWebSocketClose, HttpWritten, ClearHandlers, SendReply,
           SendHttpResponse, CloseOnRequest, TakeJob, CopyOnReply, CheckStopped,
           Resolve, Reply, AutoStop, ResolveThrows, GarbageCollect, vars, Done, Loop
  <2>3. CASE SendReply \/ SendHttpResponse \/ CloseOnRequest
    <3>1. tasks # <<>> /\ tasks' = Tail(tasks) /\ main.do = "loop"
      BY <2>3 DEF SendReply, SendHttpResponse, CloseOnRequest, Run, Idle, Loop
    <3> QED
      BY <2>1, <2>2, <3>1, OtherShutdownInv
  <2>4. CASE \E c \in WebSockets : OnOtherMessage(c)
    <3>1. \E kind, c, op : kind # "stop" /\ Defer(kind, c, op)
      BY <2>4 DEF OnOtherMessage
    <3> QED
      BY <2>1, <2>2, <3>1, OtherShutdownInv
  <2>5. CASE \E c \in HttpRequests : OnHttp(c)
    <3>1. \/ UNCHANGED tasks
          \/ \E kind, c, op : kind # "stop" /\ Defer(kind, c, op)
      BY <2>5 DEF OnHttp
    <3> QED
      BY <2>1, <2>2, <3>1, OtherShutdownInv
  <2>6. CASE \E op \in Ops : Reply(op, "data", "complete") \/ Reply(op, "complete", "autostop")
    <3>1. \/ UNCHANGED tasks
          \/ \E kind, c, op : kind # "stop" /\ Defer(kind, c, op)
      BY <2>6 DEF Reply
    <3> QED
      BY <2>1, <2>2, <3>1, OtherShutdownInv
  <2>7. CASE UNCHANGED tasks
    BY <2>1, <2>2, <2>7, OtherShutdownInv
  <2> QED
    BY <1>4, <2>3, <2>4, <2>5, <2>6, <2>7
       DEF Next, ClientStep, TransportStep, MainStep, JobStep, Quiet, OnWebSocketValidate, OnWebSocketOpen, OnStart,
           OnStop, OnWebSocketClose, HttpWritten, ClearHandlers, TakeJob, CopyOnReply, CheckStopped,
           Resolve, AutoStop, ResolveThrows, GarbageCollect, vars
<1> QED
  BY <1>1, <1>2, <1>3, <1>4

\* What the shutdown has to close is what m_connections holds: a connection
\* that is open is in it, until onStopped() is called and after it, unless a
\* close() threw.
THEOREM OpenAreKnown == Spec => []OpenIsKnown
<1>1. Init => OpenIsKnown /\ ShutdownInv
  BY DEF Init, OpenIsKnown, ShutdownInv, Stops, Loop
<1>2. JobInv /\ ShutdownInv /\ OpenIsKnown /\ [Next]_vars => OpenIsKnown'
  <2> SUFFICES ASSUME JobInv, ShutdownInv, OpenIsKnown, [Next]_vars, server' # "failed",
                      NEW c \in Conns, conState'[c] = "open"
               PROVE  c \in connections'
    BY DEF OpenIsKnown
  <2> USE DEF JobInv
  <2>0. HttpRequests \subseteq Conns /\ WebSockets \subseteq Conns
    BY DEF Conns
  <2>1. CASE PoolJoined
    <3>1. PICK closed \in SUBSET {d \in connections : Closable(d)} :
            /\ conState' = [d \in Conns |-> IF d \in closed THEN "closing" ELSE conState[d]]
            /\ \/ closed = connections /\ server' = "stopped"
               \/ server' = "failed"
      BY <2>1 DEF PoolJoined
    <3>2. conState[c] = "open" /\ c \notin connections
      BY <3>1
    <3>3. server = "failed"
      BY <3>2 DEF OpenIsKnown
    <3> QED
      BY <2>1, <3>3 DEF PoolJoined, ShutdownInv
  <2>2. CASE ~PoolJoined
    <3>1. server # "failed"
      BY <2>2
         DEF Next, ClientStep, TransportStep, MainStep, JobStep, Quiet, OnWebSocketValidate, OnWebSocketOpen, OnStart,
             OnStop, OnOtherMessage, OnHttp, OnWebSocketClose, HttpWritten, ClearHandlers, SendReply,
             SendHttpResponse, CloseOnRequest, StopListening, StopConnections, TakeJob, CopyOnReply, CheckStopped,
             Resolve, Reply, AutoStop, ResolveThrows, GarbageCollect, vars
    <3>2. \A d \in Conns : conState[d] = "open" => d \in connections
      BY <3>1 DEF OpenIsKnown
    <3>3. CASE \E d \in WebSockets : OnWebSocketOpen(d)
      BY <2>0, <3>2, <3>3 DEF OnWebSocketOpen, Setup, TypeOK
    <3>4. CASE \E d \in HttpRequests : OnHttp(d)
      BY <2>0, <3>2, <3>4 DEF OnHttp, Setup, TypeOK
    <3>5. CASE \E d \in WebSockets : OnWebSocketClose(d)
      BY <2>0, <3>2, <3>5 DEF OnWebSocketClose, Done, TypeOK
    <3>6. CASE SendHttpResponse
      BY <2>0, <3>2, <3>6 DEF SendHttpResponse, Done, TypeOK
    <3>7. CASE \/ \E d \in WebSockets : OnWebSocketValidate(d)
               \/ \E d \in HttpRequests : HttpWritten(d)
               \/ CloseOnRequest
      <4>1. connections' = connections /\ conState[c] = "open"
        BY <2>0, <3>7 DEF OnWebSocketValidate, HttpWritten, CloseOnRequest, TypeOK
      <4> QED
        BY <3>2, <4>1
    <3>8. CASE UNCHANGED <<conState, connections>>
      BY <3>2, <3>8
    <3> QED
      BY <2>2, <3>3, <3>4, <3>5, <3>6, <3>7, <3>8
         DEF Next, ClientStep, TransportStep, MainStep, JobStep, Quiet, OnStart, OnStop,
             OnOtherMessage, ClearHandlers, SendReply, StopListening, StopConnections, TakeJob,
             CopyOnReply, CheckStopped, Resolve, Reply, AutoStop, ResolveThrows, GarbageCollect,
             conVars, vars
  <2> QED
    BY <2>1, <2>2
<1>3. JobInv => TypeOK
  BY DEF JobInv
<1> QED
  BY <1>1, <1>2, <1>3, ShutdownInvStep, JobInvAlways, PTL DEF Spec
=============================================================================
