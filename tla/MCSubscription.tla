---------------------------- MODULE MCSubscription ----------------------------
(* Instances of Subscription for TLC.                                       *)
EXTENDS Subscription

\* All operations subscribe to one field, so deliver() calls them all back.
MCName(op) == "vehicle"

\* What memory that was not used before holds, and the first key of the schema.
MCUnsetKeys == {0}
=============================================================================
