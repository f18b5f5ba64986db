------------------------------ MODULE MCAttribute ------------------------------
(* Instances of Attribute for TLC.                                          *)
EXTENDS Attribute

\* Every class of attribute in commonapi-singletons.hpp, and those whose users
\* refresh it by hand: the one that has no other way to a new value, and
\* one that could follow events alone.
MCKinds == {"always", "cached", "only", "full", "broadcast", "accumulative"}
MCRefreshed == {"cached", "full"}

\* Two topics: the first comes twice in a row, and again after the second.
MCTopic(v) == IF v = 3 THEN "second" ELSE "first"
=============================================================================
