------------------------------- MODULE Messages -------------------------------
(***************************************************************************)
(* protocol/response_helpers.hpp and the statuses of graphqlserver.cpp:    *)
(* how messages are taken apart, how replies are put together, and which   *)
(* HTTP status a reply becomes.                                            *)
(*                                                                         *)
(* A response::Value is a record of its type and what it is.  A Map is a   *)
(* sequence of members, as names may be repeated and their order counts.   *)
(***************************************************************************)
EXTENDS Integers, Sequences

CONSTANTS
    Empty,  \* the empty string
    Null    \* what a Value of type Null is

\* The types of the messages the server sends, none of which is empty.
ReplyTypes == {"connection_ack", "connection_error", "ka", "data", "error", "complete"}

ASSUME MessagesAssumption == Empty \notin ReplyTypes

Value(type, is) == [type |-> type, is |-> is]

NullValue == Value("Null", Null)

Member(name, value) == [name |-> name, value |-> value]

\* The indices of the members of that name, and the value of the first of some.
Named(members, name) == {i \in DOMAIN members : members[i].name = name}

Earliest(members, found) == members[CHOOSE i \in found : \A j \in found : i <= j].value

\* The first member of that name and type which is not an empty string.
First(map, name, type, default) ==
    LET Wanted(value) == value.type = type /\ value # Value("String", Empty)
        found == {i \in Named(map.is, name) : Wanted(map.is[i].value)}
    IN IF found = {} THEN default ELSE Earliest(map.is, found)

\* The type, the id and the payload of a message that is a Map.
toMessageParts(message) ==
    [type    |-> First(message, "type", "String", Value("String", Empty)).is,
     id      |-> First(message, "id", "String", Value("String", Empty)).is,
     payload |-> First(message, "payload", "Map", NullValue)]

\* The query of a START whose payload is a Map.  operationName and variables
\* are taken the same way and only passed on to the schema.
toOperationDefinitionParts(payload) ==
    [query         |-> First(payload, "query", "String", Value("String", Empty)).is,
     operationName |-> First(payload, "operationName", "String", Value("String", Empty)).is,
     variables     |-> First(payload, "variables", "Map", NullValue)]

createResponse(type, id, payload) ==
    Value("Map",
          <<Member("type", Value("String", type))>>
          \o (IF id # Empty THEN <<Member("id", Value("String", id))>> ELSE <<>>)
          \o (IF payload.type # "Null" THEN <<Member("payload", payload)>> ELSE <<>>))

\* Only an InvalidToken has a message that starts with its prefix.
StatusOf(exception) == IF exception = "InvalidToken" THEN 401 ELSE 400

createErrorResponse(type, id, exception) ==
    createResponse(type, id,
        Value("Map", <<Member("message", Value("String", exception)),
                       Member("statusCode", Value("Int", StatusOf(exception)))>>))

\* onHttpReply, for what is not COMPLETE.
HttpStatus(response) ==
    LET parts == toMessageParts(response)
        members == parts.payload.is
        code == Earliest(members, Named(members, "statusCode"))
    IN CASE parts.type = "data" /\ parts.payload.type = "Map" ->
                IF Named(members, "data") # {} THEN 200 ELSE 400
         [] parts.type \in {"error", "connection_error"} ->
                IF /\ parts.payload.type = "Map"
                   /\ Named(members, "statusCode") # {}
                   /\ code.type = "Int"
                THEN code.is
                ELSE 400
         [] OTHER -> 501
=============================================================================
