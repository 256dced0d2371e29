----------------------------- MODULE MCChatEngine -----------------------------
(* A small instance of ChatEngine.                                            *)
EXTENDS ChatEngine

AllKinds == {"send", "regenerate", "retry", "start", "select", "character", "undo", "compress", "history"}
=============================================================================
