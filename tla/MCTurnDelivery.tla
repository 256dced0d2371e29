---------------------------- MODULE MCTurnDelivery ----------------------------
(* A small instance of TurnDelivery for TLC.                                  *)
EXTENDS TurnDelivery

AllKinds == {"send", "undo", "revoke", "redo"}
=============================================================================
