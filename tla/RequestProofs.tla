----------------------------- MODULE RequestProofs -----------------------------
(***************************************************************************)
(* What holds of Request for every number of connections and operations,   *)
(* every token, schema and query.                                          *)
(***************************************************************************)
EXTENDS Request, MessagesProofs, ScalarsProofs, TLAPS

USE RequestAssumption, AuthorizationAssumption

-----------------------------------------------------------------------------
(* What authorizers grant. *)

LEMMA KnownAreKeys == {Known[name] : name \in DOMAIN Known} \subseteq Keys
  OBVIOUS

LEMMA ListedAreKeys == \A t : Listed(t) \subseteq Keys
  BY DEF Listed

\* What an authorizer returns for a token is nothing or keys the token allows.
LEMMA AuthorizedIsAllowed ==
  ASSUME TypeOK, NEW t \in Tokens, NEW outcome \in Authorized(t), outcome.ok
  PROVE  /\ outcome.permissions \in Permissions
         /\ outcome.permissions # NoPermissions => outcome.permissions \subseteq Allowed(authorizer, t)
  <1>1. authorizer \in {"jwt", "dummy"}
    BY DEF TypeOK
  <1>2. CASE authorizer = "dummy"
    <2>1. outcome = Granted({Known[name] : name \in DOMAIN Known})
      BY <1>2 DEF Authorized, authorizeEverybody
    <2>2. Allowed(authorizer, t) = {Known[name] : name \in DOMAIN Known}
      BY <1>2 DEF Allowed
    <2> QED
      BY <2>1, <2>2, KnownAreKeys DEF Granted, Permissions
  <1>3. CASE authorizer = "jwt"
    <2>1. outcome \in authorize(Token[t])
      BY <1>3 DEF Authorized
    <2> DEFINE tok == Token[t]
    <2>2. CASE tok.is = "empty"
      BY <2>1, <2>2 DEF authorize, Granted, Permissions
    <2>3. CASE tok.is \in {"malformed", "undecodable", "signature", "expired", "claims"}
      BY <2>1, <2>3 DEF authorize, Refused
    <2>4. CASE tok.is = "list"
      <3>1. CASE \E item \in tok.items : item.is = "other"
        BY <2>1, <2>4, <3>1 DEF authorize, Refused
      <3>2. CASE ~\E item \in tok.items : item.is = "other"
        <4>1. PICK U \in SUBSET Keys :
                 /\ (U = {}) <=> (Unfit(tok) = {})
                 /\ outcome = Granted(Listed(tok) \cup U)
          BY <2>1, <2>4, <3>2 DEF authorize, Undefined
        <4>2. outcome.permissions = Listed(tok) \cup U
          BY <4>1 DEF Granted
        <4>3. outcome.permissions \subseteq Keys
          BY <4>2, ListedAreKeys
        <4>4. outcome.permissions \subseteq Allowed(authorizer, t)
          <5>1. Allowed(authorizer, t) = Listed(tok) \cup (IF Unfit(tok) = {} THEN {} ELSE Keys)
            BY <1>3, <2>4 DEF Allowed
          <5> QED
            BY <4>1, <4>2, <4>3, <5>1
        <4> QED
          BY <4>3, <4>4 DEF Permissions
      <3> QED
        BY <3>1, <3>2
    <2> QED
      BY <2>2, <2>3, <2>4 DEF Outcomes
  <1> QED
    BY <1>1, <1>2, <1>3
-----------------------------------------------------------------------------
(* What is answered, from how replies travel (MessagesProofs).              *)

\* What an authorizer may throw.
Exceptions == {"InvalidToken", "TokenVerification", "RuntimeError"}

LEMMA RefusedWithException ==
  ASSUME TypeOK, NEW t \in Tokens, NEW outcome \in Authorized(t), ~outcome.ok
  PROVE  outcome.exception \in Exceptions
  <1>1. CASE authorizer = "dummy"
    BY <1>1 DEF Authorized, authorizeEverybody, Granted
  <1>2. CASE authorizer = "jwt"
    <2>1. outcome \in authorize(Token[t])
      BY <1>2 DEF Authorized
    <2> DEFINE tok == Token[t]
    <2>2. tok.is \in Outcomes
      OBVIOUS
    <2>3. CASE tok.is = "empty"
      BY <2>1, <2>3 DEF authorize, Granted
    <2>4. CASE tok.is \in {"malformed", "undecodable", "signature", "expired", "claims"}
      BY <2>1, <2>4 DEF authorize, Refused, Exceptions
    <2>5. CASE tok.is = "list" /\ \E item \in tok.items : item.is = "other"
      BY <2>1, <2>5 DEF authorize, Refused, Exceptions
    <2>6. CASE tok.is = "list" /\ ~\E item \in tok.items : item.is = "other"
      <3>1. PICK U : outcome = Granted(Listed(tok) \cup U)
        BY <2>1, <2>6 DEF authorize
      <3> QED
        BY <3>1 DEF Granted
    <2> QED
      BY <2>2, <2>3, <2>4, <2>5, <2>6 DEF Outcomes
  <1> QED
    BY <1>1, <1>2 DEF TypeOK

LEMMA ResultIsOk == ResultStatus = 200
  BY DataIsOk DEF ResultStatus, Result

LEMMA ErrorsAreTold ==
  ASSUME NEW exception \in Exceptions \cup {"InvalidPayload"}
  PROVE  ErrorStatus[exception] = IF exception = "InvalidToken" THEN 401 ELSE 400
  <1>1. ErrorStatus[exception] = HttpStatus(createErrorResponse("connection_error", HttpId, exception))
    BY DEF ErrorStatus, Exceptions
  <1> QED
    BY <1>1, ErrorKeepsStatus DEF StatusOf

\* What onHttp comes to.
HttpOutcome(c, m, outcome) ==
    IF ~outcome.ok
    THEN RefuseRequest(c, outcome.exception)
    ELSE IF ~Startable(m.query)
    THEN RefuseRequest(c, "InvalidPayload")
    ELSE /\ phase' = [phase EXCEPT ![c] = "open"]
         /\ Accept(c, m.token, outcome)
         /\ AddOperation(c, HttpId, m.query, outcome.permissions, m.token)
         /\ UNCHANGED status

LEMMA AnswersOnHttp ==
  ASSUME TypeOK, NEW c \in HttpRequests, OnHttp(c)
  PROVE  status' \in [HttpRequests -> {None, 200, 400, 401}]
  <1>0. status \in [HttpRequests -> {None, 200, 400, 401}]
    BY DEF TypeOK
  <1>1. PICK m \in HttpMessages : \E outcome \in Authorized(m.token) : HttpOutcome(c, m, outcome)
    BY DEF OnHttp, HttpOutcome
  <1>2. PICK outcome \in Authorized(m.token) : HttpOutcome(c, m, outcome)
    BY <1>1
  <1>3. m.token \in Tokens
    OBVIOUS
  <1>4. ASSUME NEW exception \in Exceptions \cup {"InvalidPayload"}, RefuseRequest(c, exception)
        PROVE  status' \in [HttpRequests -> {None, 200, 400, 401}]
    <2>1. ErrorStatus[exception] \in {400, 401}
      BY ErrorsAreTold
    <2>2. status' = [status EXCEPT ![c] = ErrorStatus[exception]]
      BY <1>4 DEF RefuseRequest, Answer
    <2> QED
      BY <1>0, <2>1, <2>2
  <1>5. CASE ~outcome.ok
    <2>1. outcome.exception \in Exceptions
      BY <1>2, <1>3, <1>5, RefusedWithException
    <2> QED
      BY <1>2, <1>4, <1>5, <2>1 DEF HttpOutcome
  <1>6. CASE outcome.ok /\ ~Startable(m.query)
    BY <1>2, <1>4, <1>6 DEF HttpOutcome
  <1>7. CASE outcome.ok /\ Startable(m.query)
    BY <1>0, <1>2, <1>7 DEF HttpOutcome
  <1> QED
    BY <1>5, <1>6, <1>7
-----------------------------------------------------------------------------
(* Types. *)

LEMMA TypeInit == Init => TypeOK
  BY DEF Init, TypeOK, Permissions, Conns

LEMMA UnusedIsFree ==
  ASSUME \E op \in Ops : pc[op] = "free"
  PROVE  Unused \in Ops /\ pc[Unused] = "free"
  BY DEF Unused

LEMMA StartableIsQuery ==
  ASSUME NEW text \in Queries \cup {Empty}, Startable(text)
  PROVE  text \in Queries
  BY DEF Startable

LEMMA AcceptTypes ==
  ASSUME TypeOK, NEW c \in Conns, NEW t \in Tokens, NEW outcome \in Authorized(t),
         Accept(c, t, outcome)
  PROVE  /\ permissions' \in [Conns -> Permissions]
         /\ accepted' \in [Conns -> Tokens \cup {None}]
  <1>1. CASE outcome.ok
    <2>1. outcome.permissions \in Permissions
      BY <1>1, AuthorizedIsAllowed
    <2>2. /\ permissions' = [permissions EXCEPT ![c] = outcome.permissions]
          /\ accepted' = [accepted EXCEPT ![c] = t]
      BY <1>1 DEF Accept
    <2> QED
      BY <2>1, <2>2 DEF TypeOK
  <1>2. CASE ~outcome.ok
    BY <1>2 DEF Accept, TypeOK
  <1> QED
    BY <1>1, <1>2

\* Types after the steps of connections.
LEMMA TypeConnections ==
  ASSUME TypeOK,
         \/ \E c \in WebSockets : OnOpen(c) \/ OnWebSocketMessage(c) \/ OnClose(c)
         \/ \E c \in HttpRequests : OnHttp(c)
  PROVE  TypeOK'
  <1> USE DEF TypeOK, conVars, opVars, jobVars, carVars, Conns
  <1>1. ASSUME NEW c \in WebSockets, OnOpen(c) PROVE TypeOK'
    BY <1>1 DEF OnOpen
  <1>2. ASSUME NEW c \in WebSockets, OnClose(c) PROVE TypeOK'
    <2>1. stopped' \subseteq Ops
      BY <1>2 DEF OnClose, Mapped
    <2> QED
      BY <1>2, <2>1 DEF OnClose, TearDown, Permissions
  <1>3. ASSUME NEW c \in WebSockets, NEW m \in WebSocketMessages, OnInit(c, m.token)
        PROVE  TypeOK'
    <2>1. m.token \in Tokens
      BY <1>3 DEF OnInit
    <2>2. PICK outcome \in Authorized(m.token) : Accept(c, m.token, outcome)
      BY <1>3 DEF OnInit
    <2>4. permissions' \in [Conns -> Permissions] /\ accepted' \in [Conns -> Tokens \cup {None}]
      BY <2>1, <2>2, AcceptTypes
    <2> QED
      BY <1>3, <2>4 DEF OnInit
  <1>4. ASSUME NEW c \in WebSockets, NEW m \in WebSocketMessages, OnStart(c, m.id, m.query)
        PROVE  TypeOK'
    <2>1. m.id \in Ids /\ m.query \in Queries
      BY <1>4, StartableIsQuery DEF OnStart
    <2>2. Unused \in Ops /\ pc[Unused] = "free"
      BY <1>4, UnusedIsFree DEF OnStart, AddOperation
    <2> QED
      BY <1>4, <2>1, <2>2 DEF OnStart, AddOperation
  <1>5. ASSUME NEW c \in WebSockets, NEW m \in WebSocketMessages, OnStop(c, m.id)
        PROVE  TypeOK'
    <2>1. m.id \in Ids
      BY <1>5 DEF OnStop
    <2> QED
      BY <1>5, <2>1 DEF OnStop
  <1>6. ASSUME NEW c \in HttpRequests, OnHttp(c) PROVE TypeOK'
    <2>1. PICK m \in HttpMessages : \E outcome \in Authorized(m.token) :
             HttpOutcome(c, m, outcome)
      BY <1>6 DEF OnHttp, HttpOutcome
    <2>5. PICK outcome \in Authorized(m.token) : HttpOutcome(c, m, outcome)
      BY <2>1
    <2>4. status' \in [HttpRequests -> {None, 200, 400, 401}]
      <3> HIDE DEF TypeOK
      <3> QED
        BY <1>6, AnswersOnHttp
    <2>2. CASE \E exception : RefuseRequest(c, exception)
      BY <1>6, <2>2, <2>4 DEF OnHttp, RefuseRequest
    <2>3. CASE ~\E exception : RefuseRequest(c, exception)
      <3>1. /\ outcome.ok /\ Startable(m.query)
            /\ phase' = [phase EXCEPT ![c] = "open"]
            /\ Accept(c, m.token, outcome)
            /\ AddOperation(c, HttpId, m.query, outcome.permissions, m.token)
            /\ UNCHANGED status
        BY <2>5, <2>3 DEF HttpOutcome
      <3>2. m.token \in Tokens /\ m.query \in Queries
        BY <3>1, StartableIsQuery
      <3>3. outcome.permissions \in Permissions
        BY <3>1, <3>2, AuthorizedIsAllowed
      <3>4. Unused \in Ops /\ pc[Unused] = "free"
        BY <3>1, UnusedIsFree DEF AddOperation
      <3>5. permissions' \in [Conns -> Permissions] /\ accepted' \in [Conns -> Tokens \cup {None}]
        BY <3>1, <3>2, AcceptTypes
      <3> QED
        BY <1>6, <3>1, <3>2, <3>3, <3>4, <3>5 DEF OnHttp, AddOperation
    <2> QED
      BY <2>2, <2>3
  <1> HIDE DEF TypeOK
  <1> QED
    BY <1>1, <1>2, <1>3, <1>4, <1>5, <1>6 DEF OnWebSocketMessage

\* Types after the steps of operations.
LEMMA TypeOperations ==
  ASSUME TypeOK, NEW op \in Ops, JobStep(op) \/ RunStop(op)
  PROVE  TypeOK'
  <1> USE DEF TypeOK, conVars, opVars, jobVars, carVars, Conns
  <1>1. CASE Begin(op)
    <2>1. pc[op] = "waits" => query[op] \in Queries
      OBVIOUS
    <2>2. query[op] \in Queries => Plan(op).fields \in Seq(Fields)
      BY DEF Plan
    <2>3. CASE op \in stopped
      <3>1. pc[op] = "waits" /\ pc' = [pc EXCEPT ![op] = "done"] /\ left' = left
        BY <1>1, <2>3 DEF Begin
      <3> QED
        BY <1>1, <3>1 DEF Begin
    <2>4. CASE op \notin stopped
      <3>1. /\ pc[op] = "waits" /\ pc' = [pc EXCEPT ![op] = "resolves"]
            /\ left' = [left EXCEPT ![op] = Plan(op).fields]
        BY <1>1, <2>4 DEF Begin
      <3> QED
        BY <1>1, <2>1, <2>2, <3>1 DEF Begin
    <2> QED
      BY <2>3, <2>4
  <1>2. CASE ResolveField(op)
    <2> DEFINE f == Head(left[op])
    <2>1. f \in Fields /\ Tail(left[op]) \in Seq(Fields)
      BY <1>2 DEF ResolveField
    <2>2. left' \in [Ops -> Seq(Fields)]
      BY <1>2, <2>1 DEF ResolveField, Advance
    <2>3. SkipField(op, f) \/ RefuseField(op, f) \/ ApplyField(op, f)
      BY <1>2 DEF ResolveField
    <2>4. CASE SkipField(op, f)
      BY <1>2, <2>2, <2>4 DEF ResolveField, SkipField
    <2>5. CASE RefuseField(op, f)
      BY <1>2, <2>2, <2>5 DEF ResolveField, RefuseField
    <2>6. CASE ApplyField(op, f)
      <3>1. levelField' \in {levelField, f}
        <4>1. CASE Field[f].target = "level"
          BY <2>6, <4>1 DEF ApplyField, SetLevel
        <4>2. CASE Field[f].target = "color"
          BY <2>6, <4>2 DEF ApplyField, SetColor
        <4>3. CASE Field[f].target \notin {"level", "color"}
          BY <2>6, <4>3 DEF ApplyField, ReadOnly
        <4> QED
          BY <4>1, <4>2, <4>3
      <3>2. resolved' \subseteq Ops \X Fields /\ failed' \subseteq Ops
        BY <2>1, <2>6 DEF ApplyField
      <3> QED
        BY <1>2, <2>1, <2>2, <3>1, <3>2 DEF ResolveField
    <2> QED
      BY <2>3, <2>4, <2>5, <2>6
  <1>3. CASE Reply(op)
    <2> USE DEF Reply
    <2>1. CASE op \in stopped
      BY <1>3, <2>1
    <2>2. CASE op \notin stopped
      <3>1. Deliver(op) /\ pc[op] = "resolves"
        BY <1>3, <2>2
      <3>2. /\ pc' \in [Ops -> {"free", "waits", "resolves", "done"}]
            /\ \A o \in Ops : (pc'[o] = "free") <=> (pc[o] = "free")
        <4>1. PICK next \in {"waits", "done"} : pc' = [pc EXCEPT ![op] = next]
          BY <1>3, <2>2
        <4> QED
          BY <3>1, <4>1
      <3>3. checked' \subseteq Ops /\ stopTasks' \subseteq Ops
        BY <1>3, <2>2
      <3>4. CASE owner[op] \in HttpRequests /\ phase[owner[op]] = "open"
        <4>1. /\ status' = [status EXCEPT ![owner[op]] = 200]
              /\ phase' = [phase EXCEPT ![owner[op]] = "done"]
              /\ permissions' = [permissions EXCEPT ![owner[op]] = NoPermissions]
              /\ operations' = [operations EXCEPT ![owner[op]] = [id \in Ids |-> None]]
              /\ stopped' = stopped \cup {op}
          BY <3>1, <3>4, ResultIsOk DEF Deliver, Answer, TearDown
        <4>2. UNCHANGED <<authorizer, accepted, opVars, left, failed, carVars>>
          BY <1>3
        <4> QED
          BY <3>2, <3>3, <3>4, <4>1, <4>2 DEF Permissions
      <3>5. CASE ~(owner[op] \in HttpRequests /\ phase[owner[op]] = "open")
        BY <1>3, <3>1, <3>2, <3>3, <3>5 DEF Deliver
      <3> QED
        BY <3>4, <3>5
    <2> QED
      BY <2>1, <2>2
  <1>4. CASE RunStop(op)
    BY <1>4 DEF RunStop
  <1> QED
    BY <1>1, <1>2, <1>3, <1>4 DEF JobStep

\* Types.
THEOREM TypeCorrect == Spec => []TypeOK
  <1>1. TypeOK /\ [Next]_vars => TypeOK'
    <2> SUFFICES ASSUME TypeOK, [Next]_vars PROVE TypeOK'
      OBVIOUS
    <2>1. CASE Next
      BY <2>1, TypeConnections, TypeOperations DEF Next
    <2>2. CASE UNCHANGED vars
      BY <2>2 DEF TypeOK, vars, conVars, opVars, jobVars, carVars
    <2> QED
      BY <2>1, <2>2
  <1> QED
    BY <1>1, TypeInit, PTL DEF Spec
-----------------------------------------------------------------------------
(* GrantedOnly.  A field is resolved because validate() passed it, which    *)
(* granted[op] answers for, or because the operation is checked: then its   *)
(* fields all passed in a delivery before.  What makes that inductive is    *)
(* the delivery in progress: what it has behind it passed, unless it failed.*)

Items(s) == {s[i] : i \in DOMAIN s}

LEMMA HeadAndTail ==
  ASSUME NEW s \in Seq(Fields), s # <<>>
  PROVE  Head(s) \in Items(s) /\ Items(s) = {Head(s)} \cup Items(Tail(s))
  <1>1. Len(s) \in Nat /\ Len(s) >= 1 /\ DOMAIN s = 1 .. Len(s)
    OBVIOUS
  <1>2. Head(s) = s[1]
    OBVIOUS
  <1>3. DOMAIN Tail(s) = 1 .. Len(s) - 1 /\ \A i \in 1 .. Len(s) - 1 : Tail(s)[i] = s[i + 1]
    BY <1>1
  <1>4. \A i \in DOMAIN s : i = 1 \/ (i - 1 \in DOMAIN Tail(s) /\ Tail(s)[i - 1] = s[i])
    BY <1>1, <1>3
  <1>5. \A i \in DOMAIN Tail(s) : i + 1 \in DOMAIN s /\ Tail(s)[i] = s[i + 1]
    BY <1>1, <1>3
  <1>6. Head(s) \in Items(s)
    BY <1>1, <1>2 DEF Items
  <1>7. Items(s) \subseteq {Head(s)} \cup Items(Tail(s))
    <2>1. ASSUME NEW i \in DOMAIN s PROVE s[i] \in {Head(s)} \cup Items(Tail(s))
      BY <1>2, <1>4 DEF Items
    <2> QED
      BY <2>1 DEF Items
  <1>8. Items(Tail(s)) \subseteq Items(s)
    BY <1>5 DEF Items
  <1> QED
    BY <1>6, <1>7, <1>8

ConnectionsGrant ==
    \A c \in Conns :
        permissions[c] # NoPermissions => permissions[c] \subseteq Allowed(authorizer, accepted[c])

OperationsGrant ==
    \A op \in Ops :
        granted[op] # NoPermissions => granted[op] \subseteq Allowed(authorizer, token[op])

Passed(op, f) == Field[f].optional \/ Field[f].keys \subseteq Allowed(authorizer, token[op])

CheckedPassed ==
    \A op \in checked :
        /\ pc[op] # "free"
        /\ Document[query[op]].subscription
        /\ \A f \in Items(Document[query[op]].fields) : Passed(op, f)

PassedSoFar ==
    \A op \in Ops : pc[op] = "resolves" =>
        /\ Items(left[op]) \subseteq Items(Document[query[op]].fields)
        /\ op \notin failed =>
              \A f \in Items(Document[query[op]].fields) : f \in Items(left[op]) \/ Passed(op, f)

ResolvedStarted == \A p \in resolved : pc[p[1]] # "free"

GrantInv ==
    /\ TypeOK
    /\ ConnectionsGrant
    /\ OperationsGrant
    /\ CheckedPassed
    /\ PassedSoFar
    /\ ResolvedStarted
    /\ GrantedOnly

LEMMA GrantInit == Init => GrantInv
  BY TypeInit DEF Init, GrantInv, ConnectionsGrant, OperationsGrant, CheckedPassed, PassedSoFar,
     ResolvedStarted, GrantedOnly

LEMMA AcceptGrants ==
  ASSUME TypeOK, ConnectionsGrant, UNCHANGED authorizer,
         NEW c \in Conns, NEW t \in Tokens, NEW outcome \in Authorized(t),
         Accept(c, t, outcome)
  PROVE  ConnectionsGrant'
  <1>1. CASE outcome.ok
    <2>1. outcome.permissions # NoPermissions =>
             outcome.permissions \subseteq Allowed(authorizer, t)
      BY <1>1, AuthorizedIsAllowed
    <2>2. /\ permissions' = [permissions EXCEPT ![c] = outcome.permissions]
          /\ accepted' = [accepted EXCEPT ![c] = t]
      BY <1>1 DEF Accept
    <2> QED
      BY <2>1, <2>2 DEF TypeOK, ConnectionsGrant
  <1>2. CASE ~outcome.ok
    BY <1>2 DEF Accept, ConnectionsGrant
  <1> QED
    BY <1>1, <1>2

\* An operation that is made was free, so nothing is said of it yet.
LEMMA AddedGrants ==
  ASSUME GrantInv, NEW c \in Conns, NEW id \in Ids, NEW text \in Queries, NEW t,
         NEW p, p # NoPermissions => p \subseteq Allowed(authorizer, t),
         AddOperation(c, id, text, p, t),
         UNCHANGED <<authorizer, left, checked, failed, resolved>>
  PROVE  /\ OperationsGrant' /\ CheckedPassed' /\ PassedSoFar'
         /\ ResolvedStarted' /\ GrantedOnly'
  <1> DEFINE new == Unused
  <1>1. new \in Ops /\ pc[new] = "free"
    BY UnusedIsFree DEF AddOperation
  <1>2. /\ pc' = [pc EXCEPT ![new] = "waits"]
        /\ query' = [query EXCEPT ![new] = text]
        /\ granted' = [granted EXCEPT ![new] = p]
        /\ token' = [token EXCEPT ![new] = t]
    BY DEF AddOperation
  <1> HIDE DEF new
  <1>3. OperationsGrant'
    BY <1>1, <1>2 DEF GrantInv, TypeOK, OperationsGrant
  <1>4. /\ \A op \in Ops \ {new} :
              /\ pc'[op] = pc[op] /\ query'[op] = query[op] /\ token'[op] = token[op]
        /\ pc'[new] = "waits"
    BY <1>1, <1>2 DEF GrantInv, TypeOK
  <1>5. CheckedPassed'
    <2>1. new \notin checked
      BY <1>1 DEF GrantInv, CheckedPassed
    <2>2. \A op \in checked' : op \in checked /\ op \in Ops \ {new}
      BY <2>1 DEF GrantInv, TypeOK
    <2> QED
      BY <1>4, <2>2 DEF GrantInv, CheckedPassed, Passed
  <1>6. PassedSoFar'
    BY <1>1, <1>4 DEF GrantInv, PassedSoFar, Passed
  <1>7. \A q \in resolved : q[1] \in Ops \ {new}
    BY <1>1 DEF GrantInv, TypeOK, ResolvedStarted
  <1>8. ResolvedStarted'
    BY <1>4, <1>7 DEF GrantInv, ResolvedStarted
  <1>9. GrantedOnly'
    <2>1. ASSUME NEW q \in resolved
          PROVE  \/ Field[q[2]].keys \subseteq Allowed(authorizer, token'[q[1]])
                 \/ /\ Field[q[2]].optional
                    /\ Document[query'[q[1]]].subscription
                    /\ q[1] \in checked
      <3>1. token'[q[1]] = token[q[1]] /\ query'[q[1]] = query[q[1]]
        BY <1>4, <1>7
      <3> QED
        BY <3>1 DEF GrantInv, GrantedOnly
    <2> QED
      BY <2>1 DEF GrantedOnly
  <1> QED
    BY <1>9, <1>3, <1>5, <1>6, <1>8

LEMMA GrantConnections ==
  ASSUME GrantInv,
         \/ \E c \in WebSockets : OnOpen(c) \/ OnWebSocketMessage(c) \/ OnClose(c)
         \/ \E c \in HttpRequests : OnHttp(c)
  PROVE  GrantInv'
  <1>1. TypeOK /\ TypeOK'
    BY TypeConnections DEF GrantInv
  <1> USE DEF Conns, conVars, opVars, jobVars, carVars
  <1>2. ASSUME UNCHANGED <<authorizer, opVars, pc, left, checked, failed, carVars>>
        PROVE  /\ OperationsGrant' /\ CheckedPassed' /\ PassedSoFar'
               /\ ResolvedStarted' /\ GrantedOnly'
    BY <1>2 DEF GrantInv, OperationsGrant, CheckedPassed, PassedSoFar, Passed, ResolvedStarted,
                GrantedOnly
  <1>3. ASSUME NEW c \in WebSockets, OnOpen(c) PROVE GrantInv'
    <2>1. ConnectionsGrant'
      BY <1>3 DEF OnOpen, GrantInv, ConnectionsGrant
    <2> QED
      BY <1>1, <1>2, <1>3, <2>1 DEF OnOpen, GrantInv
  <1>4. ASSUME NEW c \in WebSockets, OnClose(c) PROVE GrantInv'
    <2>1. ConnectionsGrant'
      BY <1>1, <1>4 DEF OnClose, TearDown, GrantInv, TypeOK, ConnectionsGrant
    <2> QED
      BY <1>1, <1>2, <1>4, <2>1 DEF OnClose, GrantInv
  <1>5. ASSUME NEW c \in WebSockets, NEW m \in WebSocketMessages, OnInit(c, m.token)
        PROVE  GrantInv'
    <2>1. PICK outcome \in Authorized(m.token) : Accept(c, m.token, outcome)
      BY <1>5 DEF OnInit
    <2>2. m.token \in Tokens /\ UNCHANGED authorizer
      BY <1>5 DEF OnInit
    <2>3. ConnectionsGrant'
      BY <1>1, <2>1, <2>2, AcceptGrants DEF GrantInv
    <2> QED
      BY <1>1, <1>2, <1>5, <2>3 DEF OnInit, GrantInv
  <1>6. ASSUME NEW c \in WebSockets, NEW m \in WebSocketMessages, OnStart(c, m.id, m.query)
        PROVE  GrantInv'
    <2>1. m.id \in Ids /\ m.query \in Queries
      BY <1>6, StartableIsQuery DEF OnStart
    <2>2. ConnectionsGrant'
      BY <1>6 DEF OnStart, GrantInv, ConnectionsGrant
    <2>3. permissions[c] # NoPermissions =>
             permissions[c] \subseteq Allowed(authorizer, accepted[c])
      BY DEF GrantInv, ConnectionsGrant
    <2>4. /\ AddOperation(c, m.id, m.query, permissions[c], accepted[c])
          /\ UNCHANGED <<authorizer, left, checked, failed, resolved>>
      BY <1>6 DEF OnStart
    <2>5. /\ OperationsGrant' /\ CheckedPassed' /\ PassedSoFar'
          /\ ResolvedStarted' /\ GrantedOnly'
      BY <2>1, <2>3, <2>4, AddedGrants
    <2> QED
      BY <1>1, <2>2, <2>5 DEF GrantInv
  <1>7. ASSUME NEW c \in WebSockets, NEW m \in WebSocketMessages, OnStop(c, m.id)
        PROVE  GrantInv'
    <2>1. ConnectionsGrant'
      BY <1>7 DEF OnStop, GrantInv, ConnectionsGrant
    <2> QED
      BY <1>1, <1>2, <1>7, <2>1 DEF OnStop, GrantInv
  <1>8. ASSUME NEW c \in HttpRequests, OnHttp(c) PROVE GrantInv'
    <2>1. PICK m \in HttpMessages : \E outcome \in Authorized(m.token) :
             HttpOutcome(c, m, outcome)
      BY <1>8 DEF OnHttp, HttpOutcome
    <2>2. PICK outcome \in Authorized(m.token) : HttpOutcome(c, m, outcome)
      BY <2>1
    <2>3. UNCHANGED <<authorizer, left, checked, failed, resolved>>
      BY <1>8 DEF OnHttp
    <2>4. CASE \E exception : RefuseRequest(c, exception)
      <3>1. UNCHANGED <<authorizer, permissions, accepted, opVars, pc, left, checked, failed,
                        carVars>>
        BY <1>8, <2>4 DEF OnHttp, RefuseRequest
      <3>2. ConnectionsGrant'
        BY <3>1 DEF GrantInv, ConnectionsGrant
      <3> QED
        BY <1>1, <1>2, <3>1, <3>2 DEF GrantInv
    <2>5. CASE ~\E exception : RefuseRequest(c, exception)
      <3>1. /\ outcome.ok /\ Startable(m.query)
            /\ Accept(c, m.token, outcome)
            /\ AddOperation(c, HttpId, m.query, outcome.permissions, m.token)
        BY <2>2, <2>5 DEF HttpOutcome
      <3>2. m.token \in Tokens /\ m.query \in Queries
        BY <3>1, StartableIsQuery
      <3>3. ConnectionsGrant'
        BY <1>1, <2>3, <3>1, <3>2, AcceptGrants DEF GrantInv
      <3>4. outcome.permissions # NoPermissions =>
               outcome.permissions \subseteq Allowed(authorizer, m.token)
        BY <1>1, <3>1, <3>2, AuthorizedIsAllowed
      <3>5. /\ OperationsGrant' /\ CheckedPassed' /\ PassedSoFar'
            /\ ResolvedStarted' /\ GrantedOnly'
        BY <2>3, <3>1, <3>2, <3>4, AddedGrants
      <3> QED
        BY <1>1, <3>3, <3>5 DEF GrantInv
    <2> QED
      BY <2>4, <2>5
  <1> QED
    BY <1>3, <1>4, <1>5, <1>6, <1>7, <1>8 DEF OnWebSocketMessage

LEMMA GrantResolve ==
  ASSUME GrantInv, NEW op \in Ops, ResolveField(op)
  PROVE  GrantInv'
  <1> DEFINE f == Head(left[op])
  <1>1. TypeOK /\ TypeOK'
    BY TypeOperations DEF JobStep, GrantInv
  <1>2. /\ pc[op] = "resolves" /\ left[op] \in Seq(Fields) /\ left[op] # <<>>
        /\ left' = [left EXCEPT ![op] = Tail(left[op])]
        /\ UNCHANGED <<conVars, opVars, pc, checked>>
        /\ SkipField(op, f) \/ RefuseField(op, f) \/ ApplyField(op, f)
    BY <1>1 DEF ResolveField, Advance, TypeOK
  <1>3. /\ f \in Fields /\ f \in Items(left[op])
        /\ Items(left[op]) = {f} \cup Items(Tail(left[op]))
    BY <1>2, HeadAndTail
  <1>4. f \in Items(Document[query[op]].fields)
    BY <1>2, <1>3 DEF GrantInv, PassedSoFar
  <1>5. Valid(op, f) => Passed(op, f)
    <2>1. CASE op \in checked
      BY <1>4, <2>1 DEF GrantInv, CheckedPassed
    <2>2. CASE op \notin checked
      BY <2>2 DEF Valid, validate, Passed, GrantInv, OperationsGrant
    <2> QED
      BY <2>1, <2>2
  <1>6. op \notin failed' => Passed(op, f)
    <2>1. CASE SkipField(op, f)
      BY <2>1 DEF SkipField, Passed
    <2>2. CASE RefuseField(op, f)
      BY <2>2 DEF RefuseField
    <2>3. CASE ApplyField(op, f)
      BY <1>5, <2>3 DEF ApplyField
    <2> QED
      BY <1>2, <2>1, <2>2, <2>3
  <1>7. resolved' = resolved \/ (Valid(op, f) /\ resolved' = resolved \cup {<<op, f>>})
    BY <1>2 DEF SkipField, RefuseField, ApplyField, carVars
  <1>8. failed \subseteq failed'
    BY <1>2 DEF SkipField, RefuseField, ApplyField
  <1>9. ConnectionsGrant' /\ OperationsGrant' /\ CheckedPassed'
    BY <1>2 DEF conVars, opVars, GrantInv, ConnectionsGrant, OperationsGrant, CheckedPassed, Passed
  <1>10. PassedSoFar'
    <2>1. \A o \in Ops \ {op} : left'[o] = left[o]
      BY <1>1, <1>2 DEF TypeOK
    <2>2. left'[op] = Tail(left[op])
      BY <1>1, <1>2 DEF TypeOK
    <2>3. ASSUME NEW o \in Ops, pc'[o] = "resolves"
          PROVE  /\ Items(left'[o]) \subseteq Items(Document[query'[o]].fields)
                 /\ o \notin failed' =>
                       \A g \in Items(Document[query'[o]].fields) :
                           g \in Items(left'[o]) \/ Passed(o, g)
      <3>1. CASE o = op
        BY <1>2, <1>3, <1>6, <1>8, <2>2, <3>1 DEF opVars, GrantInv, PassedSoFar
      <3>2. CASE o # op
        BY <1>2, <1>8, <2>1, <2>3, <3>2 DEF opVars, GrantInv, PassedSoFar
      <3> QED
        BY <3>1, <3>2
    <2> QED
      BY <1>2, <2>3 DEF conVars, opVars, PassedSoFar, Passed
  <1>11. ResolvedStarted'
    BY <1>2, <1>7 DEF GrantInv, ResolvedStarted
  <1>12. GrantedOnly'
    <2>1. CASE resolved' = resolved
      BY <1>2, <2>1 DEF conVars, opVars, GrantInv, GrantedOnly
    <2>2. CASE Valid(op, f) /\ resolved' = resolved \cup {<<op, f>>}
      <3>1. \/ Field[f].keys \subseteq Allowed(authorizer, token[op])
            \/ Field[f].optional /\ Document[query[op]].subscription /\ op \in checked
        <4>1. CASE op \in checked
          BY <1>4, <4>1 DEF GrantInv, CheckedPassed, Passed
        <4>2. CASE op \notin checked
          BY <2>2, <4>2 DEF Valid, validate, GrantInv, OperationsGrant
        <4> QED
          BY <4>1, <4>2
      <3> QED
        BY <1>2, <2>2, <3>1 DEF conVars, opVars, GrantInv, GrantedOnly
    <2> QED
      BY <1>7, <2>1, <2>2
  <1> QED
    BY <1>1, <1>9, <1>10, <1>11, <1>12 DEF GrantInv

LEMMA GrantBegin ==
  ASSUME GrantInv, NEW op \in Ops, Begin(op)
  PROVE  GrantInv'
  <1>1. TypeOK /\ TypeOK'
    BY TypeOperations DEF JobStep, GrantInv
  <1>2. /\ pc[op] = "waits" /\ UNCHANGED <<conVars, opVars, checked, failed, carVars>>
        /\ \A o \in Ops \ {op} : pc'[o] = pc[o] /\ left'[o] = left[o]
        /\ pc'[op] # "free"
        /\ pc'[op] = "resolves" => left'[op] = Document[query[op]].fields
    <2>1. CASE op \in stopped
      <3>1. pc' = [pc EXCEPT ![op] = "done"] /\ left' = left
        BY <2>1 DEF Begin
      <3> QED
        BY <1>1, <3>1 DEF Begin, TypeOK
    <2>2. CASE op \notin stopped
      <3>1. /\ pc' = [pc EXCEPT ![op] = "resolves"]
            /\ left' = [left EXCEPT ![op] = Document[query[op]].fields]
        BY <2>2 DEF Begin, Plan
      <3> QED
        BY <1>1, <3>1 DEF Begin, TypeOK
    <2> QED
      BY <2>1, <2>2
  <1> USE <1>2 DEF conVars, opVars, carVars
  <1>3. ConnectionsGrant' /\ OperationsGrant' /\ GrantedOnly'
    BY DEF GrantInv, ConnectionsGrant, OperationsGrant, GrantedOnly
  <1>4. CheckedPassed'
    BY <1>1 DEF TypeOK, GrantInv, CheckedPassed, Passed
  <1>5. PassedSoFar'
    BY DEF GrantInv, PassedSoFar, Passed
  <1>6. ResolvedStarted'
    BY <1>1 DEF TypeOK, GrantInv, ResolvedStarted
  <1> QED
    BY <1>1, <1>3, <1>4, <1>5, <1>6 DEF GrantInv

LEMMA GrantReply ==
  ASSUME GrantInv, NEW op \in Ops, Reply(op)
  PROVE  GrantInv'
  <1>1. TypeOK /\ TypeOK'
    BY TypeOperations DEF JobStep, GrantInv
  <1>2. /\ pc[op] = "resolves" /\ left[op] = <<>>
        /\ UNCHANGED <<authorizer, accepted, opVars, left, failed, carVars>>
    BY DEF Reply
  <1>3. PICK next \in {"waits", "done"} : pc' = [pc EXCEPT ![op] = next]
    <2>1. CASE op \in stopped
      BY <2>1 DEF Reply
    <2>2. CASE op \notin stopped
      BY <2>2 DEF Reply
    <2> QED
      BY <2>1, <2>2
  <1>4. \/ checked' = checked
        \/ /\ checked' = checked \cup {op}
           /\ Document[query[op]].subscription /\ op \notin failed
    <2>1. CASE op \in stopped
      BY <2>1 DEF Reply
    <2>2. CASE op \notin stopped
      BY <2>2 DEF Reply, Plan
    <2> QED
      BY <2>1, <2>2
  <1>5. \/ permissions' = permissions
        \/ \E c \in Conns : permissions' = [permissions EXCEPT ![c] = NoPermissions]
    <2>1. CASE op \in stopped
      BY <2>1 DEF Reply
    <2>2. CASE op \notin stopped
      BY <2>2 DEF Reply, Deliver, TearDown, Conns
    <2> QED
      BY <2>1, <2>2
  <1>6. ConnectionsGrant'
    BY <1>1, <1>2, <1>5 DEF TypeOK, GrantInv, ConnectionsGrant
  <1>7. /\ \A o \in Ops \ {op} : pc'[o] = pc[o]
        /\ pc'[op] \in {"waits", "done"}
    BY <1>1, <1>3 DEF TypeOK
  <1> USE <1>2 DEF opVars, carVars
  <1>8. OperationsGrant' /\ GrantedOnly'
    BY <1>4 DEF GrantInv, OperationsGrant, GrantedOnly
  <1>9. \A f \in Items(Document[query[op]].fields) : op \notin failed => Passed(op, f)
    <2>1. Items(left[op]) = {}
      BY DEF Items
    <2> QED
      BY <2>1 DEF GrantInv, PassedSoFar
  <1>10. CheckedPassed'
    <2>1. ASSUME NEW o \in checked'
          PROVE  /\ pc'[o] # "free"
                 /\ Document[query[o]].subscription
                 /\ \A f \in Items(Document[query[o]].fields) : Passed(o, f)
      <3>1. CASE o \in checked
        <4>1. o \in Ops /\ pc'[o] # "free"
          BY <1>1, <1>7, <3>1 DEF TypeOK, GrantInv, CheckedPassed
        <4> QED
          BY <3>1, <4>1 DEF GrantInv, CheckedPassed
      <3>2. CASE o = op /\ Document[query[op]].subscription /\ op \notin failed
        BY <1>7, <1>9, <3>2
      <3> QED
        BY <1>4, <2>1, <3>1, <3>2
    <2> QED
      BY <2>1 DEF CheckedPassed, Passed
  <1>11. PassedSoFar'
    BY <1>7 DEF GrantInv, PassedSoFar, Passed
  <1>12. ResolvedStarted'
    BY <1>1, <1>7 DEF TypeOK, GrantInv, ResolvedStarted
  <1> QED
    BY <1>1, <1>6, <1>8, <1>10, <1>11, <1>12 DEF GrantInv

\* Resolvers only run with keys that the token of their operation allows.
THEOREM ResolversAreGranted == Spec => []GrantedOnly
  <1>1. GrantInv /\ [Next]_vars => GrantInv'
    <2> SUFFICES ASSUME GrantInv, [Next]_vars PROVE GrantInv'
      OBVIOUS
    <2>1. ASSUME NEW op \in Ops, RunStop(op) PROVE GrantInv'
      <3>1. TypeOK'
        BY <2>1, TypeOperations DEF GrantInv
      <3> QED
        BY <2>1, <3>1 DEF RunStop, conVars, opVars, carVars, GrantInv, ConnectionsGrant,
           OperationsGrant, CheckedPassed, PassedSoFar, Passed, ResolvedStarted, GrantedOnly
    <2>2. CASE UNCHANGED vars
      BY <2>2 DEF vars, conVars, opVars, jobVars, carVars, GrantInv, TypeOK,
         ConnectionsGrant, OperationsGrant, CheckedPassed, PassedSoFar, Passed, ResolvedStarted,
         GrantedOnly
    <2> QED
      BY <2>1, <2>2, GrantConnections, GrantBegin, GrantResolve, GrantReply DEF Next, JobStep
  <1>2. GrantInv => GrantedOnly
    BY DEF GrantInv
  <1> QED
    BY <1>1, <1>2, GrantInit, PTL DEF Spec
-----------------------------------------------------------------------------
(* AppliedInRange, from what the conversions return (ScalarsProofs).        *)

LEMMA LevelIsValidated ==
  ASSUME NEW f \in Fields, Field[f].target = "level", NEW outcome \in LevelOf[f], outcome # Error
  PROVE  /\ InRange(outcome, LevelRange)
         /\ Field[f].argument.number # NaN => outcome = Truncated(Field[f].argument.number)
  <1> DEFINE value == Field[f].argument
  <1>1. outcome \in validateRange(LevelType, value, LevelRange)
    BY DEF LevelOf
  <1>2. /\ value.number \in Components \cup {Error}
        /\ value.type \in {"Int", "Float"} => value.number \in Int
        /\ IsType(LevelType) /\ LevelType.integral
        /\ LevelRange.min \in Int /\ LevelRange.max \in Int
    BY ArgumentAssumption
  <1> HIDE DEF value
  <1> QED
    BY <1>1, <1>2, ValidatedIsInRange DEF value

\* The three parts of AppliedInRange without what str() prints.
LevelApplied ==
    levelField # None =>
        /\ InRange(level, LevelRange)
        /\ Field[levelField].argument.number # NaN =>
              level = Truncated(Field[levelField].argument.number)

ColorApplied ==
    \A part \in DOMAIN Ranges :
        InRange(color[part], Ranges[part]) \/ (color[part] = NaN /\ NaNWritten(part))

AppliedInv == TypeOK /\ LevelApplied /\ ColorApplied

LEMMA AppliedFollows == AppliedInv => AppliedInRange
  <1> SUFFICES ASSUME AppliedInv PROVE AppliedInRange
    OBVIOUS
  <1>1. ColorInRangeOrNaN(color)
    BY DEF AppliedInv, ColorApplied, ColorInRangeOrNaN, InRangeOrNaN
  <1>2. \A printed \in str(color) : setColor(color, printed).ok
    BY <1>1, PrintedCanBeSet
  <1> QED
    BY <1>2 DEF AppliedInv, LevelApplied, ColorApplied, AppliedInRange

LEMMA AppliedInit == Init => AppliedInv
  <1> SUFFICES ASSUME Init PROVE AppliedInv
    OBVIOUS
  <1>1. ColorApplied
    BY PartsOfColors DEF Init, HSV, ColorApplied, InRange, HueRange, PercentRange
  <1> QED
    BY <1>1, TypeInit DEF Init, AppliedInv, LevelApplied

\* What was written stays written.
LEMMA WrittenIsKept ==
  ASSUME resolved \subseteq resolved', NEW part, NaNWritten(part)
  PROVE  NaNWritten(part)'
  BY DEF NaNWritten

LEMMA AppliedColor ==
  ASSUME AppliedInv, NEW op \in Ops, NEW f \in Fields, ApplyField(op, f),
         Field[f].target = "color"
  PROVE  LevelApplied' /\ ColorApplied'
  <1> DEFINE hsv == Field[f].argument.hsv
  <1>1. PICK outcome \in setColorText(color, Field[f].argument) : color' = outcome.color
    BY DEF ApplyField, SetColor
  <1>2. color' \in {setColor(color, hsv).color, color}
    <2>1. PICK ok : outcome = IF ok THEN setColor(color, hsv) ELSE [ok |-> FALSE, color |-> color]
      BY DEF setColorText
    <2>2. CASE ok
      BY <1>1, <2>1, <2>2
    <2>3. CASE ~ok
      BY <1>1, <2>1, <2>3
    <2> QED
      BY <2>2, <2>3
  <1>3. hsv.hue \in Components /\ hsv.saturation \in Components /\ hsv.value \in Components
    BY ArgumentAssumption
  <1>4. /\ UNCHANGED <<level, levelField>>
        /\ resolved' = resolved \cup {<<op, f>>}
    BY DEF ApplyField, SetColor
  <1>5. \A part \in DOMAIN Ranges : hsv[part] = NaN => NaNWritten(part)'
    <2>1. <<op, f>> \in resolved' /\ <<op, f>>[2] = f
      BY <1>4
    <2> QED
      BY <2>1 DEF NaNWritten
  <1>6. \A part \in DOMAIN Ranges : NaNWritten(part) => NaNWritten(part)'
    BY <1>4, WrittenIsKept
  <1> HIDE DEF hsv
  <1>7. ASSUME NEW part \in DOMAIN Ranges
        PROVE  InRange(color'[part], Ranges[part]) \/ (color'[part] = NaN /\ NaNWritten(part)')
    <2>1. InRange(color[part], Ranges[part]) \/ (color[part] = NaN /\ NaNWritten(part))
      BY DEF AppliedInv, ColorApplied
    <2>2. CASE color' = color
      BY <1>6, <2>1, <2>2
    <2>3. CASE color' = setColor(color, hsv).color
      <3>1. \/ color'[part] = color[part]
            \/ /\ color'[part] = hsv[part]
               /\ InRange(color'[part], Ranges[part]) \/ color'[part] = NaN
        BY <1>3, <2>3, SetKeepsInRange
      <3> QED
        BY <1>5, <1>6, <2>1, <3>1
    <2> QED
      BY <1>2, <2>2, <2>3
  <1> QED
    BY <1>4, <1>7 DEF AppliedInv, LevelApplied, ColorApplied

LEMMA AppliedField ==
  ASSUME AppliedInv, NEW op \in Ops, NEW f \in Fields, ApplyField(op, f)
  PROVE  LevelApplied' /\ ColorApplied'
  <1>1. resolved \subseteq resolved'
    BY DEF ApplyField
  <1>2. ASSUME UNCHANGED color PROVE ColorApplied'
    BY <1>1, <1>2, WrittenIsKept DEF AppliedInv, ColorApplied
  <1>3. CASE Field[f].target = "level"
    <2>1. SetLevel(f)
      BY <1>3 DEF ApplyField
    <2>2. PICK outcome \in LevelOf[f] :
             IF outcome = Error
             THEN UNCHANGED <<level, levelField>>
             ELSE level' = outcome /\ levelField' = f
      BY <2>1 DEF SetLevel
    <2>3. LevelApplied'
      <3>1. CASE outcome = Error
        BY <2>2, <3>1 DEF AppliedInv, LevelApplied
      <3>2. CASE outcome # Error
        BY <1>3, <2>2, <3>2, LevelIsValidated DEF LevelApplied
      <3> QED
        BY <3>1, <3>2
    <2> QED
      BY <1>2, <2>1, <2>3 DEF SetLevel
  <1>4. CASE Field[f].target = "color"
    BY <1>4, AppliedColor
  <1>5. CASE Field[f].target \notin {"level", "color"}
    <2>1. UNCHANGED <<level, levelField, color>>
      BY <1>5 DEF ApplyField, ReadOnly
    <2> QED
      BY <1>2, <2>1 DEF AppliedInv, LevelApplied
  <1> QED
    BY <1>3, <1>4, <1>5

LEMMA AppliedSame ==
  ASSUME AppliedInv, UNCHANGED <<resolved, level, levelField, color>>
  PROVE  LevelApplied' /\ ColorApplied'
  BY DEF AppliedInv, LevelApplied, ColorApplied, NaNWritten

\* The level is in its range and the number that was written, unless that was
\* NaN, and a component of the color is in its range unless it was written NaN,
\* for every request and every interleaving of them.
THEOREM ValuesAreInRange == Spec => []AppliedInRange
  <1>1. AppliedInv /\ [Next]_vars => AppliedInv'
    <2> SUFFICES ASSUME AppliedInv, [Next]_vars PROVE TypeOK' /\ LevelApplied' /\ ColorApplied'
      BY DEF AppliedInv
    <2>1. TypeOK'
      <3>1. CASE Next
        BY <3>1, TypeConnections, TypeOperations DEF Next, AppliedInv
      <3>2. CASE UNCHANGED vars
        BY <3>2 DEF TypeOK, vars, conVars, opVars, jobVars, carVars, AppliedInv
      <3> QED
        BY <3>1, <3>2
    <2>2. ASSUME NEW op \in Ops, ResolveField(op) PROVE LevelApplied' /\ ColorApplied'
      <3> DEFINE f == Head(left[op])
      <3>1. f \in Fields
        BY <2>2 DEF ResolveField, AppliedInv, TypeOK
      <3>2. SkipField(op, f) \/ RefuseField(op, f) \/ ApplyField(op, f)
        BY <2>2 DEF ResolveField
      <3>3. CASE SkipField(op, f) \/ RefuseField(op, f)
        BY <3>3, AppliedSame DEF SkipField, RefuseField, carVars
      <3>4. CASE ApplyField(op, f)
        BY <3>1, <3>4, AppliedField
      <3> QED
        BY <3>2, <3>3, <3>4
    <2>3. (\E op \in Ops : ResolveField(op)) \/ UNCHANGED carVars
      BY DEF Next, JobStep, OnOpen, OnWebSocketMessage, OnInit, OnStart, OnStop, OnClose, OnHttp,
         Begin, Reply, RunStop, vars
    <2> QED
      BY <2>1, <2>2, <2>3, AppliedSame DEF carVars
  <1> QED
    BY <1>1, AppliedInit, AppliedFollows, PTL DEF Spec
-----------------------------------------------------------------------------
(* What RefusedIsStopped rests on.                                          *)

\* A subscription that was refused is known: its resolution has not ended, its
\* stop() waits for the main thread, or it was stopped.
RefusedIsKnown ==
    \A op \in failed :
        Plan(op).subscription => pc[op] = "resolves" \/ op \in stopTasks \cup stopped

RefusedInv ==
    /\ TypeOK
    /\ \A op \in failed : pc[op] # "free"
    /\ RefusedIsKnown

LEMMA RefusedStep == RefusedInv /\ [Next]_vars => RefusedInv'
  <1> SUFFICES ASSUME RefusedInv, [Next]_vars
               PROVE  TypeOK' /\ \A op \in failed' :
                         /\ pc'[op] # "free"
                         /\ Document[query'[op]].subscription =>
                                pc'[op] = "resolves" \/ op \in stopTasks' \cup stopped'
    BY DEF RefusedInv, RefusedIsKnown, Plan
  <1> DEFINE IsKnown(op) ==
                /\ pc'[op] # "free"
                /\ Document[query'[op]].subscription =>
                      pc'[op] = "resolves" \/ op \in stopTasks' \cup stopped'
  <1>0. TypeOK /\ TypeOK'
    <2>1. CASE Next
      BY <2>1, TypeConnections, TypeOperations DEF Next, RefusedInv
    <2>2. CASE UNCHANGED vars
      BY <2>2 DEF TypeOK, vars, conVars, opVars, jobVars, carVars, RefusedInv
    <2> QED
      BY <2>1, <2>2 DEF RefusedInv
  \* Nothing that is known is forgotten.
  <1>1. ASSUME UNCHANGED failed, stopTasks \cup stopped \subseteq stopTasks' \cup stopped',
               \A op \in Ops : pc[op] # "free" => pc'[op] = pc[op] /\ query'[op] = query[op],
               NEW op \in failed'
        PROVE  IsKnown(op)
    BY <1>0, <1>1 DEF RefusedInv, RefusedIsKnown, Plan, TypeOK
  <1>2. ASSUME NEW c \in Conns, NEW id \in Ids, NEW text, NEW p, NEW t,
               AddOperation(c, id, text, p, t), UNCHANGED <<failed, stopTasks, stopped>>,
               NEW op \in failed'
        PROVE  IsKnown(op)
    <2>1. Unused \in Ops /\ pc[Unused] = "free"
      BY <1>2, UnusedIsFree DEF AddOperation
    <2>2. /\ pc' = [pc EXCEPT ![Unused] = "waits"]
          /\ query' = [query EXCEPT ![Unused] = text]
      BY <1>2 DEF AddOperation
    <2>3. \A o \in Ops : pc[o] # "free" => pc'[o] = pc[o] /\ query'[o] = query[o]
      BY <1>0, <2>1, <2>2 DEF TypeOK
    <2> QED
      BY <1>1, <1>2, <2>3
  <1>3. ASSUME NEW c \in WebSockets, OnOpen(c) \/ OnClose(c), NEW op \in failed' PROVE IsKnown(op)
    BY <1>1, <1>3 DEF OnOpen, OnClose, opVars, jobVars
  <1>4. ASSUME NEW c \in WebSockets, OnWebSocketMessage(c), NEW op \in failed' PROVE IsKnown(op)
    <2>1. PICK m \in WebSocketMessages :
             \/ OnInit(c, m.token) \/ OnStart(c, m.id, m.query) \/ OnStop(c, m.id)
      BY <1>4 DEF OnWebSocketMessage
    <2>2. CASE OnInit(c, m.token) \/ OnStop(c, m.id)
      BY <1>1, <1>4, <2>2 DEF OnInit, OnStop, opVars, jobVars
    <2>3. CASE OnStart(c, m.id, m.query)
      <3>1. m.id \in Ids /\ c \in Conns
        BY <2>3 DEF OnStart, Conns
      <3> QED
        BY <1>2, <1>4, <2>3, <3>1 DEF OnStart
    <2> QED
      BY <2>1, <2>2, <2>3
  <1>5. ASSUME NEW c \in HttpRequests, OnHttp(c), NEW op \in failed' PROVE IsKnown(op)
    <2>1. UNCHANGED <<failed, stopTasks, stopped>> /\ c \in Conns
      BY <1>5 DEF OnHttp, Conns
    <2>2. \/ UNCHANGED <<opVars, pc>>
          \/ \E m \in HttpMessages : \E outcome \in Authorized(m.token) :
                AddOperation(c, HttpId, m.query, outcome.permissions, m.token)
      BY <1>5 DEF OnHttp, RefuseRequest
    <2> QED
      BY <1>1, <1>2, <1>5, <2>1, <2>2 DEF opVars
  <1>6. ASSUME NEW q \in Ops, Begin(q), NEW op \in failed' PROVE IsKnown(op)
    <2>1. /\ pc[q] = "waits" /\ UNCHANGED <<query, stopped, failed, stopTasks>>
          /\ pc' = [pc EXCEPT ![q] = "resolves"] \/ (pc' = [pc EXCEPT ![q] = "done"] /\ q \in stopped)
      BY <1>6 DEF Begin, opVars
    <2> QED
      BY <1>0, <1>6, <2>1 DEF RefusedInv, RefusedIsKnown, Plan, TypeOK
  <1>7. ASSUME NEW q \in Ops, ResolveField(q), NEW op \in failed' PROVE IsKnown(op)
    <2>1. /\ pc[q] = "resolves" /\ UNCHANGED <<query, pc, stopped, stopTasks>>
          /\ failed' \subseteq failed \cup {q}
      BY <1>7 DEF ResolveField, opVars, SkipField, RefuseField, ApplyField
    <2> QED
      BY <1>0, <1>7, <2>1 DEF RefusedInv, RefusedIsKnown, Plan, TypeOK
  <1>8. ASSUME NEW q \in Ops, Reply(q), NEW op \in failed' PROVE IsKnown(op)
    <2>1. /\ UNCHANGED <<query, failed>>
          /\ stopped \subseteq stopped' /\ stopTasks \subseteq stopTasks'
      BY <1>8 DEF Reply, Deliver, opVars
    <2>2. PICK next \in {"waits", "done"} : pc' = [pc EXCEPT ![q] = next]
      <3>1. CASE q \in stopped
        BY <1>8, <3>1 DEF Reply
      <3>2. CASE q \notin stopped
        BY <1>8, <3>2 DEF Reply
      <3> QED
        BY <3>1, <3>2
    <2>3. Plan(q).subscription /\ q \in failed => q \in stopTasks' \cup stopped'
      BY <1>8 DEF Reply
    <2> QED
      BY <1>0, <1>8, <2>1, <2>2, <2>3 DEF RefusedInv, RefusedIsKnown, Plan, TypeOK
  <1>9. ASSUME NEW q \in Ops, RunStop(q), NEW op \in failed' PROVE IsKnown(op)
    BY <1>1, <1>9 DEF RunStop, opVars
  <1>10. ASSUME UNCHANGED vars, NEW op \in failed' PROVE IsKnown(op)
    BY <1>1, <1>10 DEF vars, opVars, jobVars
  <1> QED
    BY <1>0, <1>3, <1>4, <1>5, <1>6, <1>7, <1>8, <1>9, <1>10 DEF Next, JobStep

\* No refusal of a subscription is forgotten, whenever the main thread, its
\* STOP or the end of its connection comes to it.
THEOREM RefusalsAreKept == Spec => []RefusedIsKnown
  <1>1. Init => RefusedInv
    BY TypeInit DEF Init, RefusedInv, RefusedIsKnown
  <1>2. RefusedInv => RefusedIsKnown
    BY DEF RefusedInv
  <1> QED
    BY <1>1, <1>2, RefusedStep, PTL DEF Spec
=============================================================================
