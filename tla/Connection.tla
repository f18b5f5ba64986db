------------------------------ MODULE Connection ------------------------------
(***************************************************************************)
(* protocol/graphqlserver.cpp and graphqlconnection.cpp with the queries   *)
(* and mutations of graphqlconnectionoperation.cpp: connections come and   *)
(* go on the main thread, operations are resolved by a pool of threads,    *)
(* and what these threads reply is deferred to the main thread.            *)
(*                                                                         *)
(* A step of the main thread is a whole handler, except where the pool can *)
(* see the middle of it: tearDown() stops the operations of a connection   *)
(* before it clears m_handlers, and stopListening() waits for the pool.    *)
(* A step of a pool thread is one access to what it shares: m_handlers,    *)
(* m_stopped, or the queue of the io_service.                              *)
(*                                                                         *)
(* A START whose id is in use and a STOP of an unknown id change nothing:  *)
(* they are stuttering steps.  Permissions, variables and the result of a  *)
(* query are not told apart: a resolver that fails a permission or meets a *)
(* schema error replies with DATA all the same.                            *)
(***************************************************************************)
EXTENDS Integers, Sequences, FiniteSets

CONSTANTS
    WebSockets,    \* web socket connections
    HttpRequests,  \* HTTP connections: each carries one request
    Ids,           \* what clients choose as "id" of a START
    HttpId,        \* the id onHttp gives its operation, "0"
    Ops,           \* addresses of GraphQLConnectionOperationRegular
    SingletonOps,  \* operations whose resolvers may get a singleton
    Workers,       \* threads in m_threadPool
    MaxTasks,      \* a client sends nothing more while that many tasks wait
    None

Conns == WebSockets \cup HttpRequests

ASSUME ConnectionAssumption ==
    /\ WebSockets \cap HttpRequests = {}
    /\ HttpId \in Ids
    /\ Workers \in Nat \ {0}
    /\ MaxTasks \in Nat
    /\ None \notin Conns \cup Ops
    /\ SingletonOps \subseteq Ops

VARIABLES
    conState,     \* the state of a connection in WebSocket++
    connections,  \* m_connections
    handlers,     \* connections whose m_handlers is set
    operations,   \* m_operations of each connection
    owner,        \* the connection whose m_handlers an operation refers to
    stopped,      \* operations with m_stopped
    pc,           \* where the job of an operation is
    replies,      \* operations whose local onReply is not empty
    pool,         \* jobs that wait in m_threadPool
    tasks,        \* handlers deferred to the main thread
    main,         \* what the main thread is in the middle of
    server,       \* "running", "stopping", and then "stopped", or "failed": an
                  \* exception has left stopListening() before onStopped()
    singleton,    \* m_singletonStorage has a child
    users,        \* operations that put it into m_usedSingletons
    collectTimer, \* m_garbageCollectTimer is set
    sent,         \* what a web socket client got for an operation
    responses,    \* HTTP responses sent on a connection
    outcome       \* "running", "terminated" or "undefined"

conVars    == <<conState, connections, handlers, operations, owner>>
opVars     == <<stopped, pc, replies, pool>>
clientVars == <<sent, responses>>
storageVars == <<singleton, users, collectTimer>>
vars == <<conVars, opVars, clientVars, tasks, main, server, storageVars, outcome>>

\* A deferred task keeps the connection it was deferred for.
Tasks ==
    [kind : {"data", "complete"}, con : WebSockets, op : Ops]
    \cup [kind : {"answer", "close"}, con : WebSockets, op : {None}]
    \cup [kind : {"http"}, con : HttpRequests, op : Ops \cup {None}]
    \cup [kind : {"stop"}, con : {None}, op : {None}]

TypeOK ==
    /\ conState \in [Conns -> {"handshake", "open", "closing", "closed"}]
    /\ connections \subseteq Conns
    /\ handlers \subseteq Conns
    /\ operations \in [Conns -> [Ids -> Ops \cup {None}]]
    /\ owner \in [Ops -> Conns \cup {None}]
    /\ stopped \subseteq Ops
    /\ pc \in [Ops -> {"free", "queued", "copy", "check", "resolve", "data",
                       "complete", "autostop", "done"}]
    /\ replies \subseteq Ops
    /\ pool \in Seq(Ops)
    /\ tasks \in Seq(Tasks)
    /\ main \in [do : {"loop", "clear", "join"}, con : Conns \cup {None}]
    /\ server \in {"running", "stopping", "stopped", "failed"}
    /\ singleton \in BOOLEAN
    /\ users \subseteq Ops
    /\ collectTimer \in BOOLEAN
    /\ sent \in [Ops -> Seq({"data", "complete"})]
    /\ responses \in [HttpRequests -> Nat]
    /\ outcome \in {"running", "terminated", "undefined"}

NoOperations == [id \in Ids |-> None]
Loop == [do |-> "loop", con |-> None]

Init ==
    /\ conState = [c \in Conns |-> "handshake"]
    /\ connections = {}
    /\ handlers = {}
    /\ operations = [c \in Conns |-> NoOperations]
    /\ owner = [op \in Ops |-> None]
    /\ stopped = {}
    /\ pc = [op \in Ops |-> "free"]
    /\ replies = {}
    /\ pool = <<>>
    /\ tasks = <<>>
    /\ main = Loop
    /\ server = "running"
    /\ singleton = FALSE
    /\ users = {}
    /\ collectTimer = FALSE
    /\ sent = [op \in Ops |-> <<>>]
    /\ responses = [c \in HttpRequests |-> 0]
    /\ outcome = "running"

-----------------------------------------------------------------------------
(* Helpers. *)

\* The main thread is free to run the next handler.
Idle == outcome = "running" /\ main = Loop

Mapped(c) == {operations[c][id] : id \in Ids} \ {None}

Registered(op) == \E c \in Conns : op \in Mapped(c)

Task(kind, c, op) == [kind |-> kind, con |-> c, op |-> op]

\* stop() of operations: their jobs return when they look at m_stopped.
StopOperations(ops) == stopped' = stopped \cup ops

Defer(kind, c, op) == tasks' = Append(tasks, Task(kind, c, op))

\* Jobs a pool thread has taken.
Active == {op \in Ops : pc[op] \notin {"free", "queued", "done"}}

\* Its connection and its job have let go of the operation: it is destroyed,
\* and its references to singletons with it.
Released(op) == pc[op] = "done" /\ ~Registered(op)

\* m_disposed is not empty: the singleton was used, and nobody uses it now.
Disposed == singleton /\ \A op \in users : Released(op)

\* The storage deletes its singleton, or detaches one that is in use.
Forget ==
    /\ singleton' = FALSE
    /\ users' = {}

\* scheduleGarbageCollectIfNeeded()
ScheduleGarbageCollect ==
    /\ collectTimer' = (collectTimer \/ Disposed)
    /\ UNCHANGED <<singleton, users>>

\* Somebody keeps a shared_ptr to the connection: WebSocket++, m_connections,
\* its own handlers, a copy of onReply, a deferred task, the main thread.
Alive(c) ==
    \/ conState[c] # "closed"
    \/ c \in connections \cup handlers
    \/ \E op \in replies : owner[op] = c
    \/ \E i \in DOMAIN tasks : tasks[i].con = c
    \/ main.con = c

-----------------------------------------------------------------------------
(* Connections and their messages, on the main thread. *)

\* onWebSocketOpen, onConnectionStart and setup().
Setup(c) ==
    /\ conState[c] = "handshake"
    /\ conState' = [conState EXCEPT ![c] = "open"]
    /\ connections' = connections \cup {c}
    /\ handlers' = handlers \cup {c}

\* The client asks for sub-protocols, but not for graphql-ws: the handshake
\* fails, and the connection is never opened.
OnWebSocketValidate(c) ==
    /\ Idle
    /\ conState[c] = "handshake"
    /\ conState' = [conState EXCEPT ![c] = "closed"]
    /\ UNCHANGED <<connections, handlers, operations, owner, opVars, clientVars, tasks, main,
                   server, storageVars, outcome>>

OnWebSocketOpen(c) ==
    /\ Idle
    /\ Setup(c)
    /\ UNCHANGED <<operations, owner, opVars, clientVars, tasks, main, server, storageVars,
                   outcome>>

\* make(): a new operation refers to the handlers of its connection.
Make(c, op) ==
    /\ pc[op] = "free"
    /\ owner' = [owner EXCEPT ![op] = c]

\* addConnectionOperation and start().
AddOperation(c, id, op) ==
    /\ Make(c, op)
    /\ operations' = [operations EXCEPT ![c][id] = op]
    /\ pc' = [pc EXCEPT ![op] = "queued"]
    /\ pool' = Append(pool, op)
    /\ UNCHANGED <<stopped, replies>>

OnStart(c, id) ==
    /\ Idle
    /\ conState[c] = "open"
    /\ operations[c][id] = None
    /\ \E op \in Ops : AddOperation(c, id, op)
    /\ UNCHANGED <<conState, connections, handlers, clientVars, tasks, main, server, storageVars,
                   outcome>>

\* Mutant: the operation is erased from the map before it is stopped.
OnStopErasedFirst(c, id) ==
    /\ Idle
    /\ conState[c] = "open"
    /\ operations[c][id] # None
    /\ operations' = [operations EXCEPT ![c][id] = None]
    /\ StopOperations({operations'[c][id]})
    /\ UNCHANGED <<conState, connections, handlers, owner, pc, replies, pool, clientVars,
                   tasks, main, server, storageVars, outcome>>

\* Mutant: the operation is forgotten but goes on.
OnStopForgets(c, id) ==
    /\ Idle
    /\ conState[c] = "open"
    /\ operations[c][id] # None
    /\ operations' = [operations EXCEPT ![c][id] = None]
    /\ UNCHANGED <<conState, connections, handlers, owner, opVars, clientVars,
                   tasks, main, server, storageVars, outcome>>

OnStop(c, id) ==
    /\ Idle
    /\ conState[c] = "open"
    /\ operations[c][id] # None
    /\ StopOperations({operations[c][id]})
    /\ operations' = [operations EXCEPT ![c][id] = None]
    /\ UNCHANGED <<conState, connections, handlers, owner, pc, replies, pool, clientVars,
                   tasks, main, server, storageVars, outcome>>

\* CONNECTION_INIT gets an ACK, a message that cannot be used an error;
\* CONNECTION_TERMINATE asks for the connection to be closed.
OnOtherMessage(c) ==
    /\ Idle
    /\ conState[c] = "open"
    /\ Len(tasks) < MaxTasks
    /\ c \in handlers
    /\ \E kind \in {"answer", "close"} : Defer(kind, c, None)
    /\ UNCHANGED <<conVars, opVars, clientVars, main, server, storageVars, outcome>>

\* The token or the payload is refused, or the request is started.
HandleRequest(c) ==
    \/ /\ Defer("http", c, None)
       /\ UNCHANGED <<operations, owner, opVars>>
    \/ /\ \E op \in Ops : AddOperation(c, HttpId, op)
       /\ UNCHANGED tasks

\* The server's onHttp, which calls the connection's.
OnHttp(c) ==
    /\ Idle
    /\ Setup(c)
    /\ HandleRequest(c)
    /\ UNCHANGED <<clientVars, main, server, storageVars, outcome>>

\* Mutant: tearDown() does not stop what is still running.
DoneWithoutStop(c) ==
    /\ connections' = connections \ {c}
    /\ operations' = [operations EXCEPT ![c] = NoOperations]
    /\ main' = [do |-> "clear", con |-> c]
    /\ UNCHANGED stopped

\* onConnectionDone up to the middle of tearDown(): stop().
Done(c) ==
    /\ connections' = connections \ {c}
    /\ StopOperations(Mapped(c))
    /\ operations' = [operations EXCEPT ![c] = NoOperations]
    /\ main' = [do |-> "clear", con |-> c]

OnWebSocketClose(c) ==
    /\ Idle
    /\ conState[c] \in {"open", "closing"}
    /\ conState' = [conState EXCEPT ![c] = "closed"]
    /\ Done(c)
    /\ UNCHANGED <<handlers, owner, pc, replies, pool, clientVars, tasks, server, storageVars,
                   outcome>>

\* Mutant: tearDown() keeps the handlers, and with them the cycle.
KeepHandlers ==
    /\ outcome = "running"
    /\ main.do = "clear"
    /\ ScheduleGarbageCollect
    /\ main' = Loop
    /\ UNCHANGED <<conVars, opVars, clientVars, tasks, server, outcome>>

\* Mutant: onConnectionDone does not schedule a collection.
ClearHandlersOnly ==
    /\ outcome = "running"
    /\ main.do = "clear"
    /\ handlers' = handlers \ {main.con}
    /\ main' = Loop
    /\ UNCHANGED <<conState, connections, operations, owner, opVars, clientVars, tasks,
                   server, storageVars, outcome>>

\* The rest of onConnectionDone: m_handlers = {} in tearDown(), and a
\* collection is scheduled if there is garbage now.
ClearHandlers ==
    /\ outcome = "running"
    /\ main.do = "clear"
    /\ handlers' = handlers \ {main.con}
    /\ ScheduleGarbageCollect
    /\ main' = Loop
    /\ UNCHANGED <<conState, connections, operations, owner, opVars, clientVars, tasks,
                   server, outcome>>

\* garbageCollect(), called by the timer or by the application: what nobody
\* uses is deleted.
GarbageCollect ==
    /\ Idle
    /\ collectTimer' = FALSE
    /\ IF Disposed THEN Forget ELSE UNCHANGED <<singleton, users>>
    /\ UNCHANGED <<conVars, opVars, clientVars, tasks, main, server, outcome>>

\* WebSocket++ has written the response and drops the HTTP connection.
HttpWritten(c) ==
    /\ Idle
    /\ conState[c] = "closing"
    /\ conState' = [conState EXCEPT ![c] = "closed"]
    /\ UNCHANGED <<connections, handlers, operations, owner, opVars, clientVars, tasks,
                   main, server, storageVars, outcome>>

-----------------------------------------------------------------------------
(* Deferred tasks, on the main thread, in the order they were deferred. *)

Run(kinds) ==
    /\ Idle
    /\ tasks # <<>>
    /\ Head(tasks).kind \in kinds
    /\ tasks' = Tail(tasks)

\* onWebSocketReply: a connection that is not open any more ignores it.
SendReply ==
    /\ Run({"data", "complete", "answer"})
    /\ LET t == Head(tasks) IN
       sent' = IF t.kind # "answer" /\ conState[t.con] = "open"
               THEN [sent EXCEPT ![t.op] = Append(@, t.kind)]
               ELSE sent
    /\ UNCHANGED <<conVars, opVars, responses, main, server, storageVars, outcome>>

\* onHttpReply: the response ends the connection.
SendHttpResponse ==
    /\ Run({"http"})
    /\ LET c == Head(tasks).con IN
       /\ responses' = [responses EXCEPT ![c] = @ + 1]
       /\ conState' = [conState EXCEPT ![c] = "closing"]
       /\ Done(c)
    /\ UNCHANGED <<handlers, owner, pc, replies, pool, sent, server, storageVars, outcome>>

\* onWebSocketTerminate
CloseOnRequest ==
    /\ Run({"close"})
    /\ LET c == Head(tasks).con IN
       conState' = IF conState[c] = "open" THEN [conState EXCEPT ![c] = "closing"] ELSE conState
    /\ UNCHANGED <<connections, handlers, operations, owner, opVars, clientVars, main, server,
                   storageVars, outcome>>

StopListening ==
    /\ Idle
    /\ server = "running"
    /\ server' = "stopping"
    /\ Defer("stop", None, None)
    /\ UNCHANGED <<conVars, opVars, clientVars, main, storageVars, outcome>>

\* What stopListening() defers, up to m_threadPool.join().
StopConnections ==
    /\ Run({"stop"})
    /\ StopOperations(UNION {Mapped(c) : c \in connections})
    /\ operations' = [c \in Conns |-> IF c \in connections THEN NoOperations ELSE operations[c]]
    /\ main' = [do |-> "join", con |-> None]
    /\ UNCHANGED <<conState, connections, handlers, owner, pc, replies, pool, clientVars,
                   server, storageVars, outcome>>

\* Mutant: stopListening() also waits for the replies to be sent, which only
\* the main thread could do.
PoolJoinedAndReplied ==
    /\ outcome = "running"
    /\ main.do = "join"
    /\ pool = <<>> /\ Active = {} /\ tasks = <<>>
    /\ connections' = {}
    /\ main' = Loop
    /\ server' = "stopped"
    /\ UNCHANGED <<conState, handlers, operations, owner, opVars, clientVars, tasks, storageVars,
                   outcome>>

\* What is in WebSocket++'s session state "open": an HTTP connection never is.
Closable(c) == c \in WebSockets /\ conState[c] = "open"

\* Mutant: the close() that reports its error instead of throwing it.
CloseWhatIsOpen ==
    /\ conState' = [c \in Conns |-> IF c \in connections /\ Closable(c)
                                    THEN "closing" ELSE conState[c]]
    /\ connections' = {}
    /\ server' = "stopped"

\* m_connections is emptied, and what it held is closed one by one, in the
\* order of the pointers.  close() throws when its turn comes to a connection
\* that is not open: an HTTP request without its response, or a web socket
\* that is already closing.  The rest is not closed then and onStopped() is
\* not called: the exception goes through run() to the application, which
\* has to call run() again for anything more to happen.
CloseConnections ==
    /\ connections' = {}
    /\ \E closed \in SUBSET {c \in connections : Closable(c)} :
         /\ conState' = [c \in Conns |-> IF c \in closed THEN "closing" ELSE conState[c]]
         /\ \/ closed = connections /\ server' = "stopped"
            \/ (\E c \in connections : ~Closable(c)) /\ server' = "failed"

\* Mutant: the timer is dropped, but the storage keeps its singletons.
PoolJoinedNotCleared ==
    /\ outcome = "running"
    /\ main.do = "join"
    /\ pool = <<>> /\ Active = {}
    /\ collectTimer' = FALSE
    /\ CloseConnections
    /\ main' = Loop
    /\ UNCHANGED <<handlers, operations, owner, opVars, clientVars, tasks, singleton, users,
                   outcome>>

\* The pool has run every job: drop the timer, clear() the storage, close
\* what is connected.
PoolJoined ==
    /\ outcome = "running"
    /\ main.do = "join"
    /\ pool = <<>> /\ Active = {}
    /\ collectTimer' = FALSE
    /\ Forget
    /\ CloseConnections
    /\ main' = Loop
    /\ UNCHANGED <<handlers, operations, owner, opVars, clientVars, tasks, outcome>>

-----------------------------------------------------------------------------
(* The job of an operation, resolveInAThread(), on a pool thread. *)

At(op, label) == outcome = "running" /\ pc[op] = label

GoTo(op, label) == pc' = [pc EXCEPT ![op] = label]

\* The job returns; its copy of onReply goes.
Finish(op) ==
    /\ GoTo(op, "done")
    /\ replies' = replies \ {op}

\* Mutant: one thread of the pool never takes a job.
TakeJobOneThreadShort ==
    /\ outcome = "running"
    /\ server \in {"running", "stopping"}
    /\ pool # <<>> /\ Cardinality(Active) < Workers - 1
    /\ GoTo(Head(pool), "copy")
    /\ pool' = Tail(pool)
    /\ UNCHANGED <<conVars, stopped, replies, clientVars, tasks, main, server, storageVars,
                   outcome>>

\* A pool that was joined runs nothing more.
TakeJob ==
    /\ outcome = "running"
    /\ server \in {"running", "stopping"}
    /\ pool # <<>> /\ Cardinality(Active) < Workers
    /\ GoTo(Head(pool), "copy")
    /\ pool' = Tail(pool)
    /\ UNCHANGED <<conVars, stopped, replies, clientVars, tasks, main, server, storageVars,
                   outcome>>

\* auto onReply = m_handlers.onReply, where m_handlers is a reference into
\* the connection: reading it after the connection is gone is undefined.
CopyOnReply(op) ==
    /\ At(op, "copy")
    /\ IF Alive(owner[op])
       THEN /\ replies' = IF owner[op] \in handlers THEN replies \cup {op} ELSE replies
            /\ GoTo(op, "check")
            /\ UNCHANGED outcome
       ELSE /\ outcome' = "undefined"
            /\ UNCHANGED <<replies, pc>>
    /\ UNCHANGED <<conVars, stopped, pool, clientVars, tasks, main, server, storageVars>>

CheckStopped(op) ==
    /\ At(op, "check")
    /\ IF op \in stopped THEN Finish(op) ELSE GoTo(op, "resolve") /\ UNCHANGED replies
    /\ UNCHANGED <<conVars, stopped, pool, clientVars, tasks, main, server, storageVars, outcome>>

\* getSingleton(): the storage creates or recycles the singleton, and the
\* operation keeps a reference until it is destroyed.
GetSingleton(op) ==
    /\ op \in SingletonOps
    /\ singleton' = TRUE
    /\ users' = users \cup {op}

\* The resolvers return, and m_stopped is looked at again.
Resolve(op) ==
    /\ At(op, "resolve")
    /\ GetSingleton(op) \/ UNCHANGED <<singleton, users>>
    /\ IF op \in stopped THEN Finish(op) ELSE GoTo(op, "data") /\ UNCHANGED replies
    /\ UNCHANGED <<conVars, stopped, pool, clientVars, tasks, main, server, collectTimer, outcome>>

\* A resolver throws what is not a schema error: the handler throws again
\* out of a noexcept function.
ResolveThrows(op) ==
    /\ At(op, "resolve")
    /\ outcome' = "terminated"
    /\ UNCHANGED <<conVars, opVars, clientVars, tasks, main, server, storageVars>>

\* Mutant: onHttpReply does not ignore COMPLETE.
ReplyEverything(op, kind, next) ==
    /\ At(op, kind)
    /\ op \in replies
    /\ Defer(IF owner[op] \in WebSockets THEN kind ELSE "http", owner[op], op)
    /\ GoTo(op, next)
    /\ UNCHANGED <<conVars, stopped, replies, pool, clientVars, main, server, storageVars, outcome>>

\* onReply(DATA) or onReply(COMPLETE); an empty std::function throws.
Reply(op, kind, next) ==
    /\ At(op, kind)
    /\ IF op \in replies
       THEN /\ IF owner[op] \in WebSockets
               THEN Defer(kind, owner[op], op)
               ELSE IF kind = "data"
                    THEN Defer("http", owner[op], op)
                    ELSE UNCHANGED tasks
            /\ GoTo(op, next)
            /\ UNCHANGED outcome
       ELSE /\ outcome' = "terminated"
            /\ UNCHANGED <<tasks, pc>>
    /\ UNCHANGED <<conVars, stopped, replies, pool, clientVars, main, server, storageVars>>

AutoStop(op) ==
    /\ At(op, "autostop")
    /\ StopOperations({op})
    /\ Finish(op)
    /\ UNCHANGED <<conVars, pool, clientVars, tasks, main, server, storageVars, outcome>>

-----------------------------------------------------------------------------
ClientStep ==
    \/ \E c \in WebSockets : OnWebSocketValidate(c) \/ OnWebSocketOpen(c)
    \/ \E c \in WebSockets, id \in Ids : OnStart(c, id) \/ OnStop(c, id)
    \/ \E c \in WebSockets : OnOtherMessage(c)
    \/ \E c \in HttpRequests : OnHttp(c)

TransportStep(c) ==
    \/ c \in WebSockets /\ OnWebSocketClose(c)
    \/ c \in HttpRequests /\ HttpWritten(c)

MainStep ==
    \/ ClearHandlers
    \/ SendReply
    \/ SendHttpResponse
    \/ CloseOnRequest
    \/ StopConnections
    \/ PoolJoined

JobStep(op) ==
    \/ CopyOnReply(op)
    \/ CheckStopped(op)
    \/ Resolve(op)
    \/ Reply(op, "data", "complete")
    \/ Reply(op, "complete", "autostop")
    \/ AutoStop(op)

\* The main loop waits for its clients, for ever if they are silent.
Quiet == (main = Loop \/ outcome # "running") /\ UNCHANGED vars

Next ==
    \/ ClientStep
    \/ \E c \in Conns : TransportStep(c)
    \/ StopListening
    \/ MainStep
    \/ GarbageCollect
    \/ TakeJob
    \/ \E op \in Ops : JobStep(op) \/ ResolveThrows(op)
    \/ Quiet

Spec == Init /\ [][Next]_vars

\* The io_service runs what is deferred, the pool what is offloaded, and
\* resolvers return.  A close that was begun ends, by the peer's answer or
\* by WebSocket++'s timeout, and a timer that is set expires.
Closing(c) == conState[c] = "closing" /\ TransportStep(c)

Fairness ==
    /\ WF_vars(MainStep)
    /\ WF_vars(collectTimer /\ GarbageCollect)
    /\ WF_vars(TakeJob)
    /\ \A op \in Ops : WF_vars(JobStep(op))
    /\ \A c \in Conns : WF_vars(Closing(c))

FairSpec == Spec /\ Fairness

-----------------------------------------------------------------------------
(* Safety. *)

\* resolveInAThread() calls no empty onReply, although tearDown() clears the
\* handlers while the job runs: the copy is made before m_stopped is read,
\* and m_stopped is set before the handlers are cleared.
ReplyNeverEmpty == \A op \in Ops : pc[op] \in {"data", "complete"} => op \in replies

\* A job that goes on is in the map of its connection, where STOP, a close
\* and stopListening() find it, or it was told to stop.
NothingUnstoppable ==
    \A op \in Ops :
        pc[op] \notin {"free", "done"} => Registered(op) \/ op \in stopped

\* onHttpReply ignores COMPLETE and ends the connection on the first reply:
\* no HTTP request gets two responses.
OneHttpResponse == \A c \in HttpRequests : responses[c] <= 1

\* A connection that is open is in m_connections, where the shutdown finds it,
\* whichever of client and server ends it and whenever; so nobody is left open
\* when onStopped() is called.  Only a close() that throws leaves connections
\* open that the server does not know any more.
OpenIsKnown ==
    server # "failed" => \A c \in Conns : conState[c] = "open" => c \in connections

\* A shutdown leaves no timer set that would keep its io_service, and with it
\* run(), busy for minutes: what connections leave behind when they close
\* after it was detached by clear().
NoTimerAfterStop == server \in {"stopped", "failed"} => ~collectTimer

\* The comment of resolveInAThread(): copying m_handlers.onReply before the
\* check of m_stopped avoids the race with a connection that goes away.
HandlersOutliveJobs == outcome # "undefined"

-----------------------------------------------------------------------------
(* Liveness. *)

Answered(op) ==
    IF owner[op] \in HttpRequests
    THEN responses[owner[op]] > 0
    ELSE sent[op] = <<"data", "complete">>

\* Every operation is answered unless it is stopped, its connection goes away
\* or the server shuts down, however many wait for the pool.
EveryStartAnswered ==
    \A op \in Ops :
        (pc[op] = "queued") ~>
            \/ Answered(op)
            \/ ~Registered(op)
            \/ conState[owner[op]] # "open"
            \/ server # "running"
            \/ outcome # "running"

\* What stopListening() defers ends: no job that main waits for waits for main,
\* whatever was running.  It ends with onStopped(), or with the exception of a
\* close(), which CloseConnections describes.
ShutdownEnds == (server = "stopping") ~> (server # "stopping" \/ outcome # "running")

\* tearDown() breaks the cycle between a connection and its handlers: a
\* connection that was closed is freed.
ConnectionsAreFreed ==
    \A c \in Conns : (conState[c] = "closed") ~> (~Alive(c) \/ outcome # "running")

\* What nobody uses any more when a connection goes away is collected or used
\* again, although the timer is set once for many connections and the use may
\* race with the collection.
GarbageIsCollected ==
    (main.do = "clear" /\ Disposed) ~> (~Disposed \/ outcome # "running")
=============================================================================
