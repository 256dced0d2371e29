-------------------------- MODULE OperationPromise --------------------------
(***************************************************************************)
(* What the operation ledger promises its callers, for each operation id:  *)
(* the mutation is requested at most once, takes effect only after it was  *)
(* requested, is confirmed only when it took effect, and a rejection is    *)
(* final.  CONTEXT.md: "A lost commit response is reconciled with the same *)
(* operation ID; the business mutation is not blindly repeated."           *)
(***************************************************************************)
EXTENDS Naturals

CONSTANT Op

VARIABLES
    phase,      \* "open", "confirmed" or "rejected", as the ledger answers
    issued,     \* mutation requests issued so far
    effect      \* "none" or "applied": the chat itself

promiseVars == <<phase, issued, effect>>

Init ==
    /\ phase = [op \in Op |-> "open"]
    /\ issued = [op \in Op |-> 0]
    /\ effect = [op \in Op |-> "none"]

Issue(op) ==
    /\ phase[op] = "open" /\ issued[op] = 0
    /\ issued' = [issued EXCEPT ![op] = 1]
    /\ UNCHANGED <<phase, effect>>

TakeEffect(op) ==
    /\ phase[op] = "open" /\ issued[op] = 1 /\ effect[op] = "none"
    /\ effect' = [effect EXCEPT ![op] = "applied"]
    /\ UNCHANGED <<phase, issued>>

Confirm(op) ==
    /\ phase[op] = "open" /\ effect[op] = "applied"
    /\ phase' = [phase EXCEPT ![op] = "confirmed"]
    /\ UNCHANGED <<issued, effect>>

Reject(op) ==
    /\ phase[op] = "open" /\ effect[op] = "none"
    /\ phase' = [phase EXCEPT ![op] = "rejected"]
    /\ UNCHANGED <<issued, effect>>

Next == \E op \in Op : Issue(op) \/ TakeEffect(op) \/ Confirm(op) \/ Reject(op)

Spec == Init /\ [][Next]_promiseVars
==============================================================================
