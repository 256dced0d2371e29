--------------------------- MODULE OperationLedger ---------------------------
(***************************************************************************)
(* One row of the durable table bridge_operations and the compare-and-swap *)
(* updates OperationStore performs on it.  A store method is a pair: the   *)
(* WHERE clause of its UPDATE (X_where), and the row the UPDATE leaves.     *)
(* Rows affected = 0 is an error (assert_cas) and changes nothing.          *)
(*                                                                         *)
(* payload is the runtime instance whose fence the encrypted recovery      *)
(* payload is bound to (the additional authenticated data holds the        *)
(* instance id); NoRuntime means that no payload has been stored.          *)
(***************************************************************************)
CONSTANTS
    Runtime,        \* runtime instance ids; claim_numeric_bot draws a fresh one per start
    NoRuntime       \* "no instance"

ASSUME NoRuntimeAssumption == NoRuntime \notin Runtime

Status == {"absent", "received", "snapshot_ready", "generating", "generated",
           "committing", "committed", "delivered", "conflict", "failed",
           "interrupted"}

CommitState == {"not_started", "not_applied", "applied", "unknown"}

Row == [status : Status, commit : CommitState, payload : Runtime \cup {NoRuntime}]

AbsentRow == [status |-> "absent", commit |-> "not_started", payload |-> NoRuntime]

(* The transition table of BridgeOperationStatus; "absent" -> "received" is the INSERT. *)
CanTransitionTo ==
    {<<"absent", "received">>,
     <<"received", "snapshot_ready">>, <<"snapshot_ready", "generating">>,
     <<"snapshot_ready", "generated">>, <<"generating", "generated">>,
     <<"generated", "committing">>, <<"committing", "committed">>,
     <<"committed", "delivered">>, <<"received", "failed">>,
     <<"snapshot_ready", "failed">>, <<"generating", "failed">>,
     <<"generating", "interrupted">>, <<"generated", "failed">>,
     <<"committing", "conflict">>, <<"committing", "failed">>,
     <<"committing", "interrupted">>}
------------------------------------------------------------------------------
(* claim_operation: INSERT received/not_started unless the unique key exists. *)
claim_operation_where(row) == row.status = "absent"
claim_operation(row) == [AbsentRow EXCEPT !.status = "received"]

update_snapshot_ready_where(row) == row.status = "received" /\ row.commit = "not_started"
update_snapshot_ready(row) == [row EXCEPT !.status = "snapshot_ready"]

update_generating_where(row) == row.status = "snapshot_ready" /\ row.commit = "not_started"
update_generating(row) == [row EXCEPT !.status = "generating"]

update_generated_where(row) ==
    row.status \in {"snapshot_ready", "generating"} /\ row.commit = "not_started"
update_generated(row, r) == [row EXCEPT !.status = "generated", !.payload = r]

mark_committing_where(row) == row.status = "generated" /\ row.commit = "not_started"
mark_committing(row) == [row EXCEPT !.status = "committing"]

mark_committed_where(row, expected) == row.status = "committing" /\ row.commit = expected
mark_committed(row) == [row EXCEPT !.status = "committed", !.commit = "applied"]

mark_delivered_where(row) == row.status = "committed" /\ row.commit = "applied"
mark_delivered(row) == [row EXCEPT !.status = "delivered"]

mark_failed_where(row) ==
    /\ row.status \in {"received", "snapshot_ready", "generating", "generated", "committing"}
    /\ row.commit = "not_started"

mark_failed(row, state) == [row EXCEPT !.status = "failed", !.commit = state]

mark_commit_unknown_where(row) == row.status = "committing" /\ row.commit = "not_started"
mark_commit_unknown(row) == [row EXCEPT !.commit = "unknown"]

(* list_recovery_candidates_for_bot *)
recovery_candidate(row) ==
    \/ row.status \in {"generated", "committing"}
    \/ row.status = "committed" /\ row.commit = "applied"

(* OperationCoordinator::claim and StBridgeEngine::resume_or_replay on a row *)
(* that already exists: the command answers from the row, goes on, or fails. *)

(* Mutant: a row that is still committing counts as done. *)
AlreadyDoneWhileCommitting(row) == row.status \in {"committing", "committed", "delivered"}

AlreadyDone(row) == row.status \in {"committed", "delivered"} /\ row.commit = "applied"
MayProceed(row) ==
    row.status \in {"received", "snapshot_ready", "generating"} /\ row.commit = "not_started"
==============================================================================
