---------------------------- MODULE MCUpdateInbox ----------------------------
(* Instances of UpdateInbox for TLC. *)
EXTENDS UpdateInbox

CONSTANTS c1, c2

MCChat == {c1, c2}
SameChat == [u \in Update |-> c1]
TwoChats == [u \in Update |-> IF u = 2 THEN c2 ELSE c1]
NoneDamaged == {}
LastDamaged == {NumUpdates - 1}
==============================================================================
