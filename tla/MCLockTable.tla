----------------------------- MODULE MCLockTable -----------------------------
(* A small instance of LockTable for TLC.                                     *)
EXTENDS LockTable
=============================================================================
