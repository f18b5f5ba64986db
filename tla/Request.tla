-------------------------------- MODULE Request --------------------------------
(***************************************************************************)
(* What happens to a request: protocol/graphqlconnection.cpp takes tokens  *)
(* and queries, GraphQLRequestState::validate guards the fields, and       *)
(* resolvers check and apply their arguments with support/scalars.cpp.     *)
(*                                                                         *)
(* Operations are resolved field by field while the main thread goes on    *)
(* with messages.  How jobs and replies travel between threads is in       *)
(* Connection and Subscription: here a reply and what it leads to is one   *)
(* step, except for the stop() that a refused subscription defers.         *)
(*                                                                         *)
(* The schema and its resolvers are external.  A resolver names the keys   *)
(* it needs, and sets one of two values of the car: a number, the level,   *)
(* and a color.  A message or payload that is refused by a web socket      *)
(* changes nothing: it is a stuttering step.  The library is built without *)
(* DISABLE_PERMISSIONS.                                                    *)
(***************************************************************************)
EXTENDS Messages, Authorization, Scalars

CONSTANTS
    WebSockets, HttpRequests,  \* connections
    Ids,          \* what clients choose as "id"
    HttpId,       \* the id onHttp gives its operation, "0"
    Ops,          \* operations
    Authorizers,  \* of "jwt" and "dummy": what the server may be built with
    Tokens, Token,      \* names of tokens, and what each one is
    Requests,     \* what web sockets send: a sequence of values
    Posts,        \* what HTTP requests bring: a sequence of tokens with payloads
    Queries, Document,  \* texts of queries, and what the parser makes of each
    Fields, Field,      \* fields with their keys, target, argument, and whether
                        \* they are absent when their parent is null
    LevelType, LevelRange,
    None

Conns == WebSockets \cup HttpRequests

\* What the handlers look at in a payload: the text of its query, and its
\* first "authorization" member, if that is a string.
QueryOf(payload) ==
    IF payload.type = "Map" THEN toOperationDefinitionParts(payload).query ELSE Empty

TokenOf(payload) ==
    LET found == Named(payload.is, "authorization")
        value == Earliest(payload.is, found)
    IN IF payload.type = "Map" /\ found # {} /\ value.type = "String" THEN value.is ELSE None

\* What they look at in a message.
Received(message) ==
    LET parts == toMessageParts(message)
    IN [type |-> parts.type, id |-> parts.id,
        token |-> TokenOf(parts.payload), query |-> QueryOf(parts.payload)]

WebSocketMessages == {Received(Requests[i]) : i \in {j \in DOMAIN Requests : Requests[j].type = "Map"}}

HttpMessages == {[token |-> Posts[i].token, query |-> QueryOf(Posts[i].payload)] : i \in DOMAIN Posts}

ASSUME RequestAssumption ==
    /\ WebSockets \cap HttpRequests = {}
    /\ HttpId \in Ids
    /\ Empty \notin Ids \cup Queries
    /\ None \notin Ops \cup Conns \cup Tokens \cup Queries \cup Fields
    /\ Authorizers \subseteq {"jwt", "dummy"}
    /\ \A t \in Tokens : Token[t].is \in Outcomes
    /\ Document \in [Queries -> [parses : BOOLEAN, subscription : BOOLEAN, fields : Seq(Fields)]]
    /\ \A f \in Fields : Field[f].keys \subseteq Keys /\ Field[f].optional \in BOOLEAN
    /\ \A m \in WebSocketMessages :
          /\ m.id \in Ids \cup {Empty}
          /\ m.token \in Tokens \cup {None}
          /\ m.query \in Queries \cup {Empty}
    /\ \A m \in HttpMessages : m.token \in Tokens /\ m.query \in Queries \cup {Empty}

ASSUME ArgumentAssumption ==
    /\ IsType(LevelType) /\ LevelType.integral
    /\ LevelRange.min \in Int /\ LevelRange.max \in Int
    /\ \A f \in Fields :
          /\ Field[f].target = "level" =>
                /\ Field[f].argument.number \in Components \cup {Error}
                /\ Field[f].argument.type \in {"Int", "Float"} => Field[f].argument.number \in Int
                /\ Field[f].argument.digits => Field[f].argument.number # NaN
          /\ Field[f].target = "color" =>
                /\ Field[f].argument.hsv.hue \in Components
                /\ Field[f].argument.hsv.saturation \in Components
                /\ Field[f].argument.hsv.value \in Components

VARIABLES
    authorizer,   \* m_authorizer of the server
    phase,        \* of a connection: "new", "open" or "done"
    permissions,  \* m_permissions of a connection
    accepted,     \* the last token its authorizer accepted, or None
    operations,   \* m_operations of a connection
    pc,           \* where an operation is
    owner,        \* its connection
    query,        \* m_query
    granted,      \* its m_permissions
    token,        \* accepted, when it was made
    left,         \* fields the resolution in progress has still to resolve
    stopped,      \* operations with m_stopped
    checked,      \* operations with m_didPermissionsCheck
    failed,       \* operations with m_failedPermissionsCheck
    stopTasks,    \* operations whose stop() is deferred
    resolved,     \* <<operation, field>>: its resolver got past validate()
    level,        \* a number of the car
    levelField,   \* the field it was set by, or None
    color,        \* an HSVColor of the car
    status        \* the HTTP status of a connection's response, or None

conVars   == <<authorizer, phase, permissions, accepted, operations>>
opVars    == <<owner, query, granted, token>>
jobVars   == <<pc, left, stopped, checked, failed, stopTasks>>
carVars   == <<resolved, level, levelField, color>>
vars == <<conVars, opVars, jobVars, carVars, status>>

Permissions == {NoPermissions} \cup SUBSET Keys

TypeOK ==
    /\ authorizer \in Authorizers
    /\ phase \in [Conns -> {"new", "open", "done"}]
    /\ permissions \in [Conns -> Permissions]
    /\ accepted \in [Conns -> Tokens \cup {None}]
    /\ operations \in [Conns -> [Ids -> Ops \cup {None}]]
    /\ pc \in [Ops -> {"free", "waits", "resolves", "done"}]
    /\ owner \in [Ops -> Conns \cup {None}]
    /\ query \in [Ops -> Queries \cup {None}]
    /\ \A op \in Ops : (pc[op] = "free") <=> (query[op] = None)
    /\ \A op \in Ops : (pc[op] = "free") <=> (owner[op] = None)
    /\ granted \in [Ops -> Permissions]
    /\ token \in [Ops -> Tokens \cup {None}]
    /\ left \in [Ops -> Seq(Fields)]
    /\ stopped \subseteq Ops
    /\ checked \subseteq Ops
    /\ failed \subseteq Ops
    /\ stopTasks \subseteq Ops
    /\ resolved \subseteq Ops \X Fields
    /\ levelField \in Fields \cup {None}
    /\ status \in [HttpRequests -> {None, 200, 400, 401}]

Init ==
    /\ authorizer \in Authorizers
    /\ phase = [c \in Conns |-> "new"]
    /\ permissions = [c \in Conns |-> NoPermissions]
    /\ accepted = [c \in Conns |-> None]
    /\ operations = [c \in Conns |-> [id \in Ids |-> None]]
    /\ pc = [op \in Ops |-> "free"]
    /\ owner = [op \in Ops |-> None]
    /\ query = [op \in Ops |-> None]
    /\ granted = [op \in Ops |-> NoPermissions]
    /\ token = [op \in Ops |-> None]
    /\ left = [op \in Ops |-> <<>>]
    /\ stopped = {}
    /\ checked = {}
    /\ failed = {}
    /\ stopTasks = {}
    /\ resolved = {}
    /\ level = LevelRange.min
    /\ levelField = None
    /\ color = HSV(0, 0, 0)
    /\ status = [c \in HttpRequests |-> None]

-----------------------------------------------------------------------------
(* Connections and their messages, on the main thread. *)

\* m_authorizer->authorize()
Authorized(t) == IF authorizer = "jwt" THEN authorize(Token[t]) ELSE {authorizeEverybody}

\* What came of the token: an exception leaves m_permissions as it was.
Accept(c, t, outcome) ==
    IF outcome.ok
    THEN /\ permissions' = [permissions EXCEPT ![c] = outcome.permissions]
         /\ accepted' = [accepted EXCEPT ![c] = t]
    ELSE UNCHANGED <<permissions, accepted>>

\* onGraphQLStart and make() find nothing to refuse.
Startable(text) == text # Empty /\ Document[text].parses

\* Which free operation is made does not matter.
Unused == CHOOSE op \in Ops : pc[op] = "free"

\* addConnectionOperation: the operation keeps the permissions of this moment.
AddOperation(c, id, text, p, t) ==
    /\ \E op \in Ops : pc[op] = "free"
    /\ operations' = [operations EXCEPT ![c][id] = Unused]
    /\ pc' = [pc EXCEPT ![Unused] = "waits"]
    /\ owner' = [owner EXCEPT ![Unused] = c]
    /\ query' = [query EXCEPT ![Unused] = text]
    /\ granted' = [granted EXCEPT ![Unused] = p]
    /\ token' = [token EXCEPT ![Unused] = t]

OnOpen(c) ==
    /\ phase[c] = "new"
    /\ phase' = [phase EXCEPT ![c] = "open"]
    /\ UNCHANGED <<authorizer, permissions, accepted, operations, opVars, jobVars, carVars,
                   status>>

\* CONNECTION_INIT: without an "authorization" there is only the ACK.
OnInit(c, t) ==
    /\ t # None
    /\ \E outcome \in Authorized(t) : Accept(c, t, outcome)
    /\ UNCHANGED <<authorizer, phase, operations, opVars, jobVars, carVars, status>>

OnStart(c, id, text) ==
    /\ id # Empty /\ operations[c][id] = None
    /\ Startable(text)
    /\ AddOperation(c, id, text, permissions[c], accepted[c])
    /\ UNCHANGED <<authorizer, phase, permissions, accepted, left, stopped, checked, failed,
                   stopTasks, carVars, status>>

OnStop(c, id) ==
    /\ id # Empty /\ operations[c][id] # None
    /\ stopped' = stopped \cup {operations[c][id]}
    /\ operations' = [operations EXCEPT ![c][id] = None]
    /\ UNCHANGED <<authorizer, phase, permissions, accepted, opVars, pc, left, checked, failed,
                   stopTasks, carVars, status>>

\* onWebSocketMessage and onGraphQLMessage
OnWebSocketMessage(c) ==
    /\ phase[c] = "open"
    /\ \E m \in WebSocketMessages :
        \/ m.type = "connection_init" /\ OnInit(c, m.token)
        \/ m.type = "start" /\ OnStart(c, m.id, m.query)
        \/ m.type = "stop" /\ OnStop(c, m.id)

\* tearDown(): the connection is done with, its operations are stopped.
TearDown(c) ==
    /\ phase' = [phase EXCEPT ![c] = "done"]
    /\ permissions' = [permissions EXCEPT ![c] = NoPermissions]
    /\ operations' = [operations EXCEPT ![c] = [id \in Ids |-> None]]

Mapped(c) == {operations[c][id] : id \in Ids} \ {None}

OnClose(c) ==
    /\ phase[c] = "open"
    /\ TearDown(c)
    /\ stopped' = stopped \cup Mapped(c)
    /\ UNCHANGED <<authorizer, accepted, opVars, pc, left, checked, failed, stopTasks, carVars,
                   status>>

\* cppgraphqlgen puts "data" into every result, null if there are errors.
Result == Value("Map", <<Member("data", NullValue)>>)

\* onHttpReply, for a result and for what onHttp caught.
ResultStatus == HttpStatus(createResponse("data", HttpId, Result))

ErrorStatus ==
    [exception \in {"InvalidToken", "TokenVerification", "RuntimeError", "InvalidPayload"} |->
        HttpStatus(createErrorResponse("connection_error", HttpId, exception))]

Answer(c, code) == status' = [status EXCEPT ![c] = code]

RefuseRequest(c, exception) ==
    /\ Answer(c, ErrorStatus[exception])
    /\ phase' = [phase EXCEPT ![c] = "done"]
    /\ UNCHANGED <<permissions, accepted, operations, opVars, pc>>

\* onHttp of the server and of the connection.
OnHttp(c) ==
    /\ phase[c] = "new"
    /\ \E m \in HttpMessages : \E outcome \in Authorized(m.token) :
        IF ~outcome.ok
        THEN RefuseRequest(c, outcome.exception)
        ELSE IF ~Startable(m.query)
        THEN RefuseRequest(c, "InvalidPayload")
        ELSE /\ phase' = [phase EXCEPT ![c] = "open"]
             /\ Accept(c, m.token, outcome)
             /\ AddOperation(c, HttpId, m.query, outcome.permissions, m.token)
             /\ UNCHANGED status
    /\ UNCHANGED <<authorizer, left, stopped, checked, failed, stopTasks, carVars>>

-----------------------------------------------------------------------------
(* Operations: a query or mutation is resolved once, a subscription         *)
(* whenever it is notified.                                                 *)

Plan(op) == Document[query[op]]

\* resolveInAThread, or a delivery of a subscription.
Begin(op) ==
    /\ pc[op] = "waits"
    /\ IF op \in stopped
       THEN pc' = [pc EXCEPT ![op] = "done"] /\ UNCHANGED left
       ELSE /\ pc' = [pc EXCEPT ![op] = "resolves"]
            /\ left' = [left EXCEPT ![op] = Plan(op).fields]
    /\ UNCHANGED <<conVars, opVars, stopped, checked, failed, stopTasks, carVars, status>>

\* GraphQLRequestState::validate; a field without keys does not call it.
Valid(op, f) ==
    \/ Field[f].keys = {}
    \/ op \in checked
    \/ granted[op] # NoPermissions /\ validate(granted[op], Field[f].keys)

Advance(op) == left' = [left EXCEPT ![op] = Tail(@)]

\* The parent of the field is null.
SkipField(op, f) ==
    /\ Field[f].optional
    /\ UNCHANGED <<failed, carVars>>

\* ContextException or PermissionException: an error of this field.
RefuseField(op, f) ==
    /\ ~Valid(op, f)
    /\ failed' = failed \cup {op}
    /\ UNCHANGED carVars

\* What validateRange may make of the argument of a field.
LevelOf ==
    [f \in {g \in Fields : Field[g].target = "level"} |->
        validateRange(LevelType, Field[f].argument, LevelRange)]

\* The resolver sets the level, or an exception leaves it as it was.
SetLevel(f) ==
    /\ \E outcome \in LevelOf[f] :
         IF outcome = Error
         THEN UNCHANGED <<level, levelField>>
         ELSE level' = outcome /\ levelField' = f
    /\ UNCHANGED color

SetColor(f) ==
    /\ \E outcome \in setColorText(color, Field[f].argument) : color' = outcome.color
    /\ UNCHANGED <<level, levelField>>

ReadOnly == UNCHANGED <<level, levelField, color>>

ApplyField(op, f) ==
    /\ Valid(op, f)
    /\ resolved' = resolved \cup {<<op, f>>}
    /\ CASE Field[f].target = "level" -> SetLevel(f)
         [] Field[f].target = "color" -> SetColor(f)
         [] OTHER -> ReadOnly
    /\ UNCHANGED failed

\* cppgraphqlgen resolves the fields in their order (std::launch::deferred),
\* and a field that fails does not keep the others from being resolved.
ResolveField(op) ==
    /\ pc[op] = "resolves" /\ left[op] # <<>>
    /\ LET f == Head(left[op]) IN SkipField(op, f) \/ RefuseField(op, f) \/ ApplyField(op, f)
    /\ Advance(op)
    /\ UNCHANGED <<conVars, opVars, pc, stopped, checked, stopTasks, status>>

\* An HTTP connection ends with the first reply.
Deliver(op) ==
    IF owner[op] \in HttpRequests /\ phase[owner[op]] = "open"
    THEN /\ Answer(owner[op], ResultStatus)
         /\ TearDown(owner[op])
         /\ stopped' = stopped \cup {op}
    ELSE /\ stopped' = IF Plan(op).subscription THEN stopped ELSE stopped \cup {op}
         /\ UNCHANGED <<status, phase, permissions, operations>>

\* Mutant: the check counts as done whatever it said.
ReplyAlwaysPasses(op) ==
    /\ pc[op] = "resolves" /\ left[op] = <<>>
    /\ IF op \in stopped
       THEN /\ pc' = [pc EXCEPT ![op] = "done"]
            /\ UNCHANGED <<phase, permissions, operations, stopped, checked, status>>
       ELSE /\ Deliver(op)
            /\ pc' = [pc EXCEPT ![op] = IF Plan(op).subscription THEN "waits" ELSE "done"]
            /\ checked' = IF Plan(op).subscription THEN checked \cup {op} ELSE checked
    /\ UNCHANGED <<authorizer, accepted, opVars, left, failed, stopTasks, carVars>>

\* The end of a resolution.  A subscription that passed is never checked
\* again, and one that did not is to be stopped by the main thread.
Reply(op) ==
    /\ pc[op] = "resolves" /\ left[op] = <<>>
    /\ IF op \in stopped
       THEN /\ pc' = [pc EXCEPT ![op] = "done"]
            /\ UNCHANGED <<phase, permissions, operations, stopped, checked, stopTasks, status>>
       ELSE /\ Deliver(op)
            /\ pc' = [pc EXCEPT ![op] = IF Plan(op).subscription THEN "waits" ELSE "done"]
            /\ IF ~Plan(op).subscription
               THEN UNCHANGED <<checked, stopTasks>>
               ELSE IF op \in failed
               THEN stopTasks' = stopTasks \cup {op} /\ UNCHANGED checked
               ELSE checked' = checked \cup {op} /\ UNCHANGED stopTasks
    /\ UNCHANGED <<authorizer, accepted, opVars, left, failed, carVars>>

\* The deferred stop() of a subscription.
RunStop(op) ==
    /\ op \in stopTasks
    /\ stopTasks' = stopTasks \ {op}
    /\ stopped' = stopped \cup {op}
    /\ UNCHANGED <<conVars, opVars, pc, left, checked, failed, carVars, status>>

-----------------------------------------------------------------------------
JobStep(op) == Begin(op) \/ ResolveField(op) \/ Reply(op)

Next ==
    \/ \E c \in WebSockets : OnOpen(c) \/ OnWebSocketMessage(c) \/ OnClose(c)
    \/ \E c \in HttpRequests : OnHttp(c)
    \/ \E op \in Ops : JobStep(op) \/ RunStop(op)

Spec == Init /\ [][Next]_vars

\* Resolvers return, and the main thread runs what is deferred.  Nothing says
\* that a subscription is ever notified.
Fairness ==
    /\ \A op \in Ops : WF_vars(ResolveField(op) \/ Reply(op))
    /\ WF_vars(\E op \in Ops : RunStop(op))

FairSpec == Spec /\ Fairness

-----------------------------------------------------------------------------
(* Properties. *)

\* What a token allows: the keys its claims list, or what undefined behaviour
\* may make of a number that is no key; the dummy allows every known key.
Allowed(a, t) ==
    IF a = "dummy"
    THEN {Known[name] : name \in DOMAIN Known}
    ELSE IF t = None \/ Token[t].is # "list"
    THEN {}
    ELSE Listed(Token[t]) \cup (IF Unfit(Token[t]) = {} THEN {} ELSE Keys)

\* No resolver runs without the keys it needs among those of the token that
\* the connection had accepted last when the operation was started: not after
\* a refused or newer CONNECTION_INIT, and not in the later deliveries of a
\* subscription, which validate() does not check.  Excepted, once a delivery has
\* passed the check, is a field that this one need not have met, as it is absent
\* when its parent is null.
GrantedOnly ==
    \A p \in resolved :
        \/ Field[p[2]].keys \subseteq Allowed(authorizer, token[p[1]])
        \/ /\ Field[p[2]].optional
           /\ Document[query[p[1]]].subscription
           /\ p[1] \in checked

\* Some request wrote a color with NaN for that component.
NaNWritten(part) ==
    \E p \in resolved : Field[p[2]].target = "color" /\ Field[p[2]].argument.hsv[part] = NaN

\* The level is in its range, and it is the number the last request wrote,
\* without its fraction, whether that came as Int, Float or String; only of a
\* text that denotes NaN it may be any number of the range.  The components of
\* the color are in their ranges also after set() has failed half way, except
\* that one is NaN once it was written so: the code takes NaN for a number in
\* range, although its documentation says that only the range is accepted.
\* What str() prints of the color can be set again.
AppliedInRange ==
    /\ levelField # None =>
         LET written == Field[levelField].argument.number IN
         /\ InRange(level, LevelRange)
         /\ written # NaN => level = Truncated(written)
    /\ \A part \in DOMAIN Ranges :
         InRange(color[part], Ranges[part]) \/ (color[part] = NaN /\ NaNWritten(part))
    /\ \A printed \in str(color) : setColor(color, printed).ok

\* A subscription that failed its permissions check is stopped, although it
\* may be notified again before the main thread comes to it.
RefusedIsStopped ==
    \A op \in Ops :
        (op \in failed /\ Plan(op).subscription) ~> (op \in stopped)
=============================================================================
