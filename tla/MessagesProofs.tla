---------------------------- MODULE MessagesProofs ----------------------------
(***************************************************************************)
(* A reply that is put together by createResponse is taken apart by        *)
(* toMessageParts as it was, for every type the server sends, every id and *)
(* every payload it can have: what onHttpReply needs to find the status.   *)
(***************************************************************************)
EXTENDS Messages, SequenceTheorems, TLAPS

\* The least of the indices is the one that is taken.
LEMMA EarliestIsLeast ==
  ASSUME NEW members, NEW found \in SUBSET Int,
         NEW i \in found, \A j \in found : i <= j
  PROVE  Earliest(members, found) = members[i].value
  <1> DEFINE c == CHOOSE k \in found : \A j \in found : k <= j
  <1>1. c \in found /\ \A j \in found : c <= j
    OBVIOUS
  <1>2. c = i
    <2> HIDE DEF c
    <2>1. c \in Int /\ i \in Int /\ c <= i /\ i <= c
      BY <1>1
    <2> QED
      BY <2>1
  <1> QED
    BY <1>2 DEF Earliest

\* When one member has that name, First() returns it if its type is right.
LEMMA FirstIsTheOne ==
  ASSUME NEW map, NEW name, NEW type, NEW default, NEW i \in Int,
         Named(map.is, name) = {i}, map.is[i].value.type = type,
         map.is[i].value # Value("String", Empty)
  PROVE  First(map, name, type, default) = map.is[i].value
  <1> DEFINE Wanted(value) == value.type = type /\ value # Value("String", Empty)
             found == {j \in Named(map.is, name) : Wanted(map.is[j].value)}
  <1>1. found = {i}
    OBVIOUS
  <1>2. First(map, name, type, default) = Earliest(map.is, found)
    BY <1>1 DEF First
  <1>3. Earliest(map.is, {i}) = map.is[i].value
    <2>1. {i} \in SUBSET Int /\ i \in {i} /\ \A j \in {i} : i <= j
      OBVIOUS
    <2> QED
      BY <2>1, EarliestIsLeast
  <1> QED
    BY <1>1, <1>2, <1>3

\* A name that no member has makes First() return the default.
LEMMA FirstIsDefault ==
  ASSUME NEW map, NEW name, NEW type, NEW default,
         \A j \in DOMAIN map.is : map.is[j].name # name
  PROVE  First(map, name, type, default) = default
  BY DEF First, Named

\* Short sequences are put together from their elements.
LEMMA Appended ==
  ASSUME NEW a, NEW b, NEW c
  PROVE  /\ <<a>> \o <<>> \o <<>> = <<a>>
         /\ <<a>> \o <<b>> \o <<>> = <<a, b>>
         /\ <<a>> \o <<>> \o <<b>> = <<a, b>>
         /\ <<a>> \o <<b>> \o <<c>> = <<a, b, c>>
  <1> DEFINE S == {a, b, c}
  <1>1. <<>> \in Seq(S) /\ <<a>> \in Seq(S) /\ <<b>> \in Seq(S) /\ <<c>> \in Seq(S)
    OBVIOUS
  <1>2. <<a, b>> \in Seq(S) /\ <<a, b, c>> \in Seq(S)
    OBVIOUS
  <1> HIDE DEF S
  <1>3. <<a>> \o <<>> = <<a>>
    BY <1>1, ConcatEmptySeq
  <1>4. <<a>> \o <<b>> = <<a, b>>
    <2>1. /\ <<a>> \o <<b>> \in Seq(S) /\ Len(<<a>> \o <<b>>) = 2
          /\ \A i \in 1 .. 2 : (<<a>> \o <<b>>)[i] = IF i <= 1 THEN <<a>>[i] ELSE <<b>>[i - 1]
      BY <1>1, ConcatProperties
    <2>2. \A i \in 1 .. 2 : (<<a>> \o <<b>>)[i] = <<a, b>>[i]
      BY <2>1
    <2> QED
      BY <1>2, <2>1, <2>2, SeqEqual
  <1>5. <<a, b>> \o <<>> = <<a, b>>
    BY <1>2, ConcatEmptySeq
  <1>6. <<a, b>> \o <<c>> = <<a, b, c>>
    <2>1. /\ <<a, b>> \o <<c>> \in Seq(S) /\ Len(<<a, b>> \o <<c>>) = 3
          /\ \A i \in 1 .. 3 : (<<a, b>> \o <<c>>)[i] = IF i <= 2 THEN <<a, b>>[i] ELSE <<c>>[i - 2]
      BY <1>1, <1>2, ConcatProperties
    <2>2. \A i \in 1 .. 3 : (<<a, b>> \o <<c>>)[i] = <<a, b, c>>[i]
      BY <2>1
    <2> QED
      BY <1>2, <2>1, <2>2, SeqEqual
  <1> QED
    BY <1>3, <1>4, <1>5, <1>6

\* The members createResponse() puts into a reply, and where.
LEMMA ResponseMembers ==
  ASSUME NEW type, NEW id, NEW payload
  PROVE  LET s == createResponse(type, id, payload).is
             hasId == id # Empty
             hasPayload == payload.type # "Null"
             p == IF hasId THEN 3 ELSE 2
         IN /\ DOMAIN s = 1 .. (1 + (IF hasId THEN 1 ELSE 0) + (IF hasPayload THEN 1 ELSE 0))
            /\ s[1] = Member("type", Value("String", type))
            /\ hasId => s[2] = Member("id", Value("String", id))
            /\ hasPayload => s[p] = Member("payload", payload)
  <1> DEFINE t == Member("type", Value("String", type))
             i == Member("id", Value("String", id))
             m == Member("payload", payload)
             s == createResponse(type, id, payload).is
  <1>1. s = <<t>> \o (IF id # Empty THEN <<i>> ELSE <<>>)
                  \o (IF payload.type # "Null" THEN <<m>> ELSE <<>>)
    BY DEF createResponse, Value
  <1> HIDE DEF t, i, m, s
  <1>2. CASE id # Empty /\ payload.type # "Null"
    <2>1. s = <<t, i, m>>
      BY <1>1, <1>2, Appended
    <2> QED
      BY <1>2, <2>1 DEF t, i, m, s
  <1>3. CASE id # Empty /\ payload.type = "Null"
    <2>1. s = <<t, i>>
      BY <1>1, <1>3, Appended
    <2> QED
      BY <1>3, <2>1 DEF t, i, s
  <1>4. CASE id = Empty /\ payload.type # "Null"
    <2>1. s = <<t, m>>
      BY <1>1, <1>4, Appended
    <2> QED
      BY <1>4, <2>1 DEF t, m, s
  <1>5. CASE id = Empty /\ payload.type = "Null"
    <2>1. s = <<t>>
      BY <1>1, <1>5, Appended
    <2> QED
      BY <1>5, <2>1 DEF t, s
  <1> QED
    BY <1>2, <1>3, <1>4, <1>5

\* Taking a reply apart gives back what it was put together from, also when
\* it has no id or no payload.
THEOREM ResponseRoundTrips ==
  ASSUME NEW type \in ReplyTypes, NEW id, NEW payload,
         payload = NullValue \/ payload.type = "Map"
  PROVE  toMessageParts(createResponse(type, id, payload))
           = [type |-> type, id |-> id, payload |-> payload]
  <1> DEFINE r == createResponse(type, id, payload)
             s == r.is
             p == IF id # Empty THEN 3 ELSE 2
             last == 1 + (IF id # Empty THEN 1 ELSE 0) + (IF payload.type # "Null" THEN 1 ELSE 0)
             text == Value("String", Empty)
  <1>1. /\ DOMAIN s = 1 .. last
        /\ s[1] = Member("type", Value("String", type))
        /\ id # Empty => s[2] = Member("id", Value("String", id))
        /\ payload.type # "Null" => s[p] = Member("payload", payload)
    BY ResponseMembers
  <1> HIDE DEF r
  <1>2. First(r, "type", "String", text).is = type
    <2>1. Named(s, "type") = {1} /\ s[1].value = Value("String", type)
      BY <1>1 DEF Member, Named
    <2>2. Value("String", type) # text /\ Value("String", type).type = "String"
      BY MessagesAssumption DEF Value, ReplyTypes
    <2>3. First(r, "type", "String", text) = s[1].value
      BY <2>1, <2>2, FirstIsTheOne
    <2> QED
      BY <2>1, <2>3 DEF Value
  <1>3. First(r, "id", "String", text).is = id
    <2>1. CASE id = Empty
      <3>1. \A j \in DOMAIN s : s[j].name # "id"
        BY <1>1, <2>1 DEF Member
      <3> QED
        BY <2>1, <3>1, FirstIsDefault DEF Value
    <2>2. CASE id # Empty
      <3>1. Named(s, "id") = {2} /\ s[2].value = Value("String", id)
        BY <1>1, <2>2 DEF Member, Named
      <3>2. Value("String", id) # text /\ Value("String", id).type = "String"
        BY <2>2 DEF Value
      <3>3. First(r, "id", "String", text) = s[2].value
        BY <3>1, <3>2, FirstIsTheOne
      <3> QED
        BY <3>1, <3>3 DEF Value
    <2> QED
      BY <2>1, <2>2
  <1>4. First(r, "payload", "Map", NullValue) = payload
    <2>1. CASE payload = NullValue
      <3>1. \A j \in DOMAIN s : s[j].name # "payload"
        BY <1>1, <2>1 DEF Member, NullValue, Value
      <3> QED
        BY <2>1, <3>1, FirstIsDefault
    <2>2. CASE payload.type = "Map"
      <3>1. Named(s, "payload") = {p} /\ s[p].value = payload
        BY <1>1, <2>2 DEF Member, Named
      <3>2. payload # text
        BY <2>2 DEF Value
      <3> QED
        BY <2>2, <3>1, <3>2, FirstIsTheOne
    <2> QED
      BY <2>1, <2>2
  <1> QED
    BY <1>2, <1>3, <1>4 DEF toMessageParts, r

-----------------------------------------------------------------------------
(* The statuses of onHttpReply. *)

\* A result is 200, whatever "data" is.
LEMMA DataIsOk ==
  ASSUME NEW id, NEW data
  PROVE  HttpStatus(createResponse("data", id, Value("Map", <<Member("data", data)>>))) = 200
  <1> DEFINE payload == Value("Map", <<Member("data", data)>>)
  <1>1. toMessageParts(createResponse("data", id, payload))
           = [type |-> "data", id |-> id, payload |-> payload]
    BY ResponseRoundTrips DEF ReplyTypes, Value
  <1>2. 1 \in Named(payload.is, "data")
    BY DEF Named, Member, Value
  <1> QED
    BY <1>1, <1>2 DEF HttpStatus, Value

\* An error has the status createErrorResponse() chose.
LEMMA ErrorKeepsStatus ==
  ASSUME NEW type \in {"error", "connection_error"}, NEW id, NEW exception
  PROVE  HttpStatus(createErrorResponse(type, id, exception)) = StatusOf(exception)
  <1> DEFINE members == <<Member("message", Value("String", exception)),
                          Member("statusCode", Value("Int", StatusOf(exception)))>>
             payload == Value("Map", members)
             found == Named(members, "statusCode")
  <1>1. toMessageParts(createResponse(type, id, payload))
           = [type |-> type, id |-> id, payload |-> payload]
    BY ResponseRoundTrips DEF ReplyTypes, Value
  <1>2. found = {2} /\ members[2].value = Value("Int", StatusOf(exception))
    BY DEF Named, Member
  <1>3. Earliest(members, found) = Value("Int", StatusOf(exception))
    BY <1>2, EarliestIsLeast
  <1>4. createErrorResponse(type, id, exception) = createResponse(type, id, payload)
    BY DEF createErrorResponse
  <1>5. payload.is = members /\ payload.type = "Map"
    BY DEF Value
  <1> HIDE DEF members, payload, found
  <1> QED
    BY <1>1, <1>2, <1>3, <1>4, <1>5 DEF HttpStatus, Value, found
=============================================================================
