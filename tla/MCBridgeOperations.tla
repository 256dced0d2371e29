------------------------- MODULE MCBridgeOperations -------------------------
(* Instances of BridgeOperations for TLC. *)
EXTENDS BridgeOperations, TLC

CONSTANTS o1

MCOp1 == {o1}
SendOnly == [op \in Op |-> "send"]
UndoOnly == [op \in Op |-> "undo"]
RuntimeSymmetry == Permutations(Runtime)
==============================================================================
