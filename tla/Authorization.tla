----------------------------- MODULE Authorization -----------------------------
(***************************************************************************)
(* support/permissions.*, protocol/jwtauthorizer.cpp and                   *)
(* protocol/dummyauthorizer.cpp: how a token becomes the permissions of a  *)
(* client.                                                                 *)
(*                                                                         *)
(* jwt-cpp and picojson are external: a token is a record of what decoding *)
(* and verifying it come to, and of the items of its permissions claim.    *)
(***************************************************************************)
EXTENDS Integers, Sequences, FiniteSets

CONSTANTS
    Keys,    \* values of ClientPermissions::Key, uint16_t
    Known,   \* knownPermissions: the key of a name, for the names it has
    NoPermissions  \* a null pointer to ClientPermissions

ASSUME AuthorizationAssumption ==
    /\ Keys \subseteq Nat /\ IsFiniteSet(Keys)
    /\ Known \in [DOMAIN Known -> Keys]
    /\ \A permissions \in SUBSET Keys : NoPermissions # permissions

\* The items are strings, and numbers given in tenths; a double becomes an
\* integer by dropping its fraction.
Whole(tenths) == IF tenths >= 0 THEN tenths \div 10 ELSE -((-tenths) \div 10)

\* Mutant: numbers are taken as they come.
ListedUnchecked(token) ==
    {Known[item.name] : item \in {i \in token.items : i.is = "string" /\ i.name \in DOMAIN Known}}
    \cup {Whole(item.tenths) : item \in {i \in token.items : i.is = "number"}}

Listed(token) ==
    {Known[item.name] : item \in {i \in token.items : i.is = "string" /\ i.name \in DOMAIN Known}}
    \cup ({Whole(item.tenths) : item \in {i \in token.items : i.is = "number"}} \cap Keys)

\* Numbers that do not fit into a key: what the conversion makes of them is
\* undefined, so each may become any key.
Unfit(token) == {i \in token.items : i.is = "number" /\ Whole(i.tenths) \notin Keys}

Undefined(token) ==
    {U \in SUBSET Keys : /\ Cardinality(U) <= Cardinality(Unfit(token))
                         /\ (U = {}) <=> (Unfit(token) = {})}

\* What decoding and verifying a token may come to.
\* "malformed" is a token without its three parts, "undecodable" one whose
\* parts are not base64 or not JSON.
Outcomes == {"empty", "malformed", "undecodable", "signature", "expired", "claims", "list"}

Granted(permissions) == [ok |-> TRUE, permissions |-> permissions, exception |-> "none"]

Refused(exception) == [ok |-> FALSE, permissions |-> NoPermissions, exception |-> exception]

\* What JwtAuthorizer::authorize may return or throw.  Only two kinds of
\* exceptions are turned into an InvalidToken, those of a signature and
\* std::invalid_argument: that of a token that has expired and the
\* std::runtime_error of one that cannot be decoded leave as they are.
authorize(token) ==
    CASE token.is = "empty" -> {Granted(NoPermissions)}
      [] token.is \in {"malformed", "signature"} -> {Refused("InvalidToken")}
      [] token.is = "undecodable" -> {Refused("RuntimeError")}
      [] token.is = "expired" -> {Refused("TokenVerification")}
      [] token.is = "claims" -> {Refused("InvalidToken")}
      [] token.is = "list" ->
            IF \E item \in token.items : item.is = "other"
            THEN {Refused("RuntimeError")}
            ELSE {Granted(Listed(token) \cup U) : U \in Undefined(token)}

\* What DummyAuthorizer::authorize returns, whatever the token.
authorizeEverybody == Granted({Known[name] : name \in DOMAIN Known})

\* ClientPermissions::validate: it throws at the first key that is missing.
validate(permissions, keys) == keys \subseteq permissions
=============================================================================
