---------------------------- MODULE MCLegacyImport ----------------------------
(* Two owners.  a1 has two cards and a chat in the data directory, and a bot *)
(* token in the plugin database, where it lists u1 and u2.  a2 is an         *)
(* administrator of the server, has no token, and lists u2 as well.          *)
EXTENDS ImportTranscript, TLC

CONSTANTS a1, a2, u1, u2, card, png, chat

Files == (card :> a1) @@ (png :> a1) @@ (chat :> a1)
Lists == (a1 :> {u1, u2}) @@ (a2 :> {u2})
JobSymmetry == Permutations(Job)
===============================================================================
