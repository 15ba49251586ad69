---------------------------- MODULE MCMessaging -----------------------------
(* Instances of Messaging for TLC. *)
EXTENDS Messaging

\* Parts that use each other's pools, together.
Together == {{"bulkSet", "bulkSetAck", "push"}, {"bulkSet", "bulkSetAck", "inPull"}}
\* Parts that use no pool but their own.
Alone    == {{"outPull"}, {"tombstone"}, {"bulkSetAck"}}
AllParts == Together \cup Alone
PullOnly == {{"bulkSet", "bulkSetAck", "inPull"}}
PushOnly == {{"bulkSet", "push"}}
None     == {}
=============================================================================
