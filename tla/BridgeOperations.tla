-------------------------- MODULE BridgeOperations --------------------------
(***************************************************************************)
(* The life of durable operations: the bridge engine that executes a       *)
(* command, the coordinator that commits it through the Connector, the     *)
(* recovery pass of the poll loop, and the runtimes that run all of this.  *)
(*                                                                         *)
(* Every start of a poller is a runtime instance with a fresh id.  Several *)
(* may be alive on the same database: one that lost its ownership does not *)
(* notice until its next fence check.  A crash loses the tasks, never the  *)
(* database rows, and never a request that already left.                   *)
(*                                                                         *)
(* pc[r][op] is the task of runtime r on operation op.  Labels from "claim" *)
(* to "deliver" belong to StBridgeEngine's commands, the labels that begin  *)
(* with "r_" to OperationRecoveryCoordinator::recover_for_bot, which runs   *)
(* in the poll loop when every handler task of the batch has been joined.  *)
(***************************************************************************)
EXTENDS OperationLedger, Naturals

CONSTANTS
    Op,             \* operation ids: one per Telegram update and kind
    Kind,           \* Kind[op]: "start", "undo" (undo, revoke) or "send" (send, regenerate, compress)
    MaxAttempts,    \* bound: executions of one update (attempt_count < 3 in the inbox)
    MaxFaults       \* bound: crashes, drains, lost ownerships, storage failures

ASSUME KindAssumption == Kind \in [Op -> {"start", "undo", "send"}]
ASSUME BoundAssumption == MaxAttempts \in Nat /\ MaxFaults \in Nat

VARIABLES
    ledger,         \* bridge_operations: a row per operation
    lease,          \* operation_execution_leases: holder and whether its deadline passed
    pc,             \* pc[r][op]: where the task of runtime r on op is
    seen,           \* seen[r][op]: the row the current recovery pass of r listed
    life,           \* life[r]: PollerLifecycle of the runtime
    owner,          \* the instance bound at the ownership registry
    requests,       \* commit and create requests on their way to the Connector
    responses,      \* answers on their way back
    journal,        \* the Connector's journal entry of an operation
    sent,           \* how many mutation requests have left, per operation
    attempts,       \* executions of the operation's update so far
    faults          \* faults so far

vars == <<ledger, lease, pc, seen, life, owner, requests, responses, journal,
          sent, attempts, faults>>

connectorVars == <<requests, responses, journal>>
runtimeVars == <<life, owner>>

ExecutorLabels == {"claim", "snapshot", "ready", "generate", "persist", "fence",
                   "mark", "send", "await", "deliver"}
RecoveryLabels == {"r_fence", "r_work", "r_send", "r_await", "r_release"}
Labels == {"idle"} \cup ExecutorLabels \cup RecoveryLabels

NoLease == [holder |-> NoRuntime, expired |-> FALSE]

(* The types of the tables, the tasks, the messages and the bounds. *)
TypeOK ==
    /\ ledger \in [Op -> Row]
    /\ lease \in [Op -> [holder : Runtime \cup {NoRuntime}, expired : BOOLEAN]]
    /\ pc \in [Runtime -> [Op -> Labels]]
    /\ seen \in [Runtime -> [Op -> Row]]
    /\ life \in [Runtime -> {"unborn", "running", "draining", "stopped"}]
    /\ owner \in Runtime \cup {NoRuntime}
    /\ requests \subseteq [op : Op, rt : Runtime]
    /\ responses \subseteq [op : Op, rt : Runtime, outcome : {"applied", "not_applied"}]
    /\ journal \in [Op -> {"none", "applied"}]
    /\ sent \in [Op -> Nat]
    /\ attempts \in [Op -> Nat]
    /\ faults \in Nat

Init ==
    /\ ledger = [op \in Op |-> AbsentRow]
    /\ lease = [op \in Op |-> NoLease]
    /\ pc = [r \in Runtime |-> [op \in Op |-> "idle"]]
    /\ seen = [r \in Runtime |-> [op \in Op |-> AbsentRow]]
    /\ life = [r \in Runtime |-> "unborn"]
    /\ owner = NoRuntime
    /\ requests = {} /\ responses = {}
    /\ journal = [op \in Op |-> "none"]
    /\ sent = [op \in Op |-> 0]
    /\ attempts = [op \in Op |-> 0]
    /\ faults = 0
------------------------------------------------------------------------------
Goto(r, op, label) == pc' = [pc EXCEPT ![r][op] = label]

(* One UPDATE ... WHERE: the row changes and the task goes on, or no row is *)
(* affected and the task goes to the label of the error.                    *)
Cas(r, op, where, row, next, error) ==
    /\ ledger' = [ledger EXCEPT ![op] = IF where THEN row ELSE @]
    /\ Goto(r, op, IF where THEN next ELSE error)

Fault == faults < MaxFaults /\ faults' = faults + 1

(* PollerOwnershipGuard::runtime_fence: a local check of the lifecycle. *)
RuntimeFence(r) == life[r] = "running"

(* assert_valid = assert_generation_fence = assert_commit_fence: the       *)
(* lifecycle and the binding at the registry, at the time of the check.    *)
FenceValid(r) == life[r] = "running" /\ owner = r

Idle(r) == \A op \in Op : pc[r][op] = "idle" /\ seen[r][op] = AbsentRow

StepUnchanged == UNCHANGED <<lease, seen, runtimeVars, connectorVars, sent, attempts, faults>>
------------------------------------------------------------------------------
(* The engine: start_chat, send_message, regenerate, compress_chat, undo_last_turn. *)

(* A handler task takes the update up: first delivery, inbox retry, or the  *)
(* replay after a restart.  No recovery pass of the same poller is running. *)
BeginCommand(r, op) ==
    /\ FenceValid(r)
    /\ \A o \in Op : seen[r][o] = AbsentRow
    /\ pc[r][op] = "idle"
    /\ attempts[op] < MaxAttempts
    /\ attempts' = [attempts EXCEPT ![op] = @ + 1]
    /\ Goto(r, op, "claim")
    /\ UNCHANGED <<ledger, lease, seen, runtimeVars, connectorVars, sent, faults>>

(* claim_operation inserts the row: ClaimDisposition::Fresh. *)
ClaimFresh(r, op) ==
    /\ pc[r][op] = "claim"
    /\ claim_operation_where(ledger[op])
    /\ ledger' = [ledger EXCEPT ![op] = claim_operation(@)]
    /\ Goto(r, op, "snapshot")
    /\ StepUnchanged

(* A duplicate claim.  A start names its chat file after the clock, so its  *)
(* duplicate never matches the stored claim (ST_OPERATION_ID_REUSED).       *)
DuplicateClaim(r, op) == pc[r][op] = "claim" /\ ~claim_operation_where(ledger[op])

ResumeCommitted(r, op) ==
    /\ DuplicateClaim(r, op)
    /\ Kind[op] # "start" /\ AlreadyDone(ledger[op])
    /\ Goto(r, op, "deliver")
    /\ UNCHANGED ledger /\ StepUnchanged

ResumePending(r, op) ==
    /\ DuplicateClaim(r, op)
    /\ Kind[op] # "start" /\ MayProceed(ledger[op])
    /\ Goto(r, op, "snapshot")
    /\ UNCHANGED ledger /\ StepUnchanged

RejectDuplicate(r, op) ==
    /\ DuplicateClaim(r, op)
    /\ Kind[op] = "start" \/ ~(AlreadyDone(ledger[op]) \/ MayProceed(ledger[op]))
    /\ Goto(r, op, "idle")
    /\ UNCHANGED ledger /\ StepUnchanged

(* The Connector's snapshot was read; mark_snapshot_ready. *)
MarkSnapshotReady(r, op) ==
    /\ pc[r][op] = "snapshot"
    /\ Kind[op] = "start" => RuntimeFence(r)
    /\ Cas(r, op, update_snapshot_ready_where(ledger[op]), update_snapshot_ready(ledger[op]),
           IF Kind[op] = "send" THEN "ready" ELSE "persist", "idle")
    /\ StepUnchanged

MarkGenerating(r, op) ==
    /\ pc[r][op] = "ready"
    /\ Cas(r, op, update_generating_where(ledger[op]), update_generating(ledger[op]),
           "generate", "idle")
    /\ StepUnchanged

(* require_generation_fence passed and the model answered. *)
Generate(r, op) ==
    /\ pc[r][op] = "generate"
    /\ FenceValid(r)
    /\ Goto(r, op, "persist")
    /\ UNCHANGED ledger /\ StepUnchanged

(* The generation block failed, the fence check in it included. *)
SettleGenerationFailure(r, op) ==
    /\ pc[r][op] = "generate"
    /\ Cas(r, op, mark_failed_where(ledger[op]), mark_failed(ledger[op], "not_started"),
           "idle", "idle")
    /\ StepUnchanged

(* persist_generated_payload, persist_create_payload: bind the payload to   *)
(* this runtime's fence, then mark_generated.                               *)
PersistGeneratedPayload(r, op) ==
    /\ pc[r][op] = "persist"
    /\ RuntimeFence(r)
    /\ Cas(r, op, update_generated_where(ledger[op]), update_generated(ledger[op], r),
           "fence", "idle")
    /\ StepUnchanged

(* require_commit_fence and runtime_fence, before the commit. *)
RequireCommitFence(r, op) ==
    /\ pc[r][op] = "fence"
    /\ FenceValid(r)
    /\ Goto(r, op, "mark")
    /\ UNCHANGED ledger /\ StepUnchanged

(* OperationCoordinator::commit and create: the CAS before the request. *)
MarkCommitting(r, op) ==
    /\ pc[r][op] = "mark"
    /\ Cas(r, op, mark_committing_where(ledger[op]), mark_committing(ledger[op]), "send", "idle")
    /\ StepUnchanged

(* An awaited call before the request returned an error: a rejected fence,  *)
(* the snapshot, an empty dialogue, nothing to compress, storage (that of a *)
(* generation failure included).  The command ends, the row stays.          *)
AbortCommand(r, op) ==
    /\ pc[r][op] \in ExecutorLabels \ {"await"}
    /\ Goto(r, op, "idle")
    /\ UNCHANGED ledger /\ StepUnchanged

(* The reply reached Telegram; mark_delivered_after_delivery. *)
MarkDelivered(r, op) ==
    /\ pc[r][op] = "deliver"
    /\ Cas(r, op, mark_delivered_where(ledger[op]), mark_delivered(ledger[op]), "idle", "idle")
    /\ StepUnchanged
------------------------------------------------------------------------------
(* The request to the Connector and its outcome, for a command (send, await) *)
(* and for a replay (r_send, r_await).                                       *)

AfterAwait(label) == IF label \in {"send", "await"} THEN "idle" ELSE "r_release"

(* A request carries the fence of the runtime that sends it. *)
Request(r, op) == [op |-> op, rt |-> r]

SendRequest(r, op) ==
    /\ pc[r][op] \in {"send", "r_send"}
    /\ requests' = requests \cup {Request(r, op)}
    /\ sent' = [sent EXCEPT ![op] = @ + 1]
    /\ Goto(r, op, IF pc[r][op] = "send" THEN "await" ELSE "r_await")
    /\ UNCHANGED <<ledger, lease, seen, runtimeVars, responses, journal, attempts, faults>>

(* Session, CSRF or signing failed before anything left: NotApplied. *)
RequestNotSent(r, op) ==
    /\ pc[r][op] \in {"send", "r_send"}
    /\ Cas(r, op, mark_failed_where(ledger[op]), mark_failed(ledger[op], "not_applied"),
           AfterAwait(pc[r][op]), AfterAwait(pc[r][op]))
    /\ StepUnchanged

(* Mutant: a lost answer is taken for a rejection. *)
LostAnswerIsFailure(r, op) ==
    /\ pc[r][op] \in {"send", "await", "r_send", "r_await"}
    /\ Cas(r, op, mark_failed_where(ledger[op]), mark_failed(ledger[op], "not_applied"),
           AfterAwait(pc[r][op]), AfterAwait(pc[r][op]))
    /\ StepUnchanged

(* The outcome is not known: timeout, broken stream, 5xx, malformed answer, *)
(* a write-mode probe that failed before anything left, and, in commit and  *)
(* create, an applied outcome that mark_committed failed to store.          *)
SettleUnknown(r, op) ==
    /\ pc[r][op] \in {"send", "await", "r_send", "r_await"}
    /\ Cas(r, op, mark_commit_unknown_where(ledger[op]), mark_commit_unknown(ledger[op]),
           AfterAwait(pc[r][op]), AfterAwait(pc[r][op]))
    /\ StepUnchanged

(* Storing the outcome failed: the row stays as it is.  replay_generated    *)
(* ends here also when mark_committed fails.                                *)
OutcomeNotStored(r, op) ==
    /\ pc[r][op] \in {"await", "r_send", "r_await"}
    /\ Fault
    /\ Goto(r, op, AfterAwait(pc[r][op]))
    /\ UNCHANGED <<ledger, lease, seen, runtimeVars, connectorVars, sent, attempts>>

Answer(r, op, outcome) == [op |-> op, rt |-> r, outcome |-> outcome]

SettleUnchanged == UNCHANGED <<lease, seen, runtimeVars, requests, journal, sent, attempts, faults>>

Receive(r, op, outcome) ==
    /\ pc[r][op] \in {"await", "r_await"}
    /\ Answer(r, op, outcome) \in responses
    /\ responses' = responses \ {Answer(r, op, outcome)}

SettleApplied(r, op) ==
    /\ Receive(r, op, "applied")
    /\ Cas(r, op, mark_committed_where(ledger[op], "not_started"), mark_committed(ledger[op]),
           IF pc[r][op] = "await" THEN "deliver" ELSE "r_release", AfterAwait(pc[r][op]))
    /\ SettleUnchanged

SettleNotApplied(r, op) ==
    /\ Receive(r, op, "not_applied")
    /\ Cas(r, op, mark_failed_where(ledger[op]), mark_failed(ledger[op], "not_applied"),
           AfterAwait(pc[r][op]), AfterAwait(pc[r][op]))
    /\ SettleUnchanged
------------------------------------------------------------------------------
(* Recovery: OperationRecoveryCoordinator::recover_for_bot. *)

(* assert_valid at the head of the poll loop (claim_runtime, at startup),   *)
(* then the list.  The pass works from the rows as listed here.             *)
ListCandidates(r) ==
    /\ FenceValid(r) /\ Idle(r)
    /\ \E op \in Op : recovery_candidate(ledger[op])
    /\ seen' = [seen EXCEPT ![r] =
                  [op \in Op |-> IF recovery_candidate(ledger[op]) THEN ledger[op] ELSE AbsentRow]]
    /\ UNCHANGED <<ledger, lease, pc, runtimeVars, connectorVars, sent, attempts, faults>>

RecoveryUnchanged == UNCHANGED <<runtimeVars, connectorVars, sent, attempts, faults>>

(* Mutant: a lease is taken over before its deadline. *)
LeaseAlwaysAvailable(r, op) == TRUE

(* try_acquire_execution_lease: free, held by this instance, or expired. *)
LeaseAvailable(r, op) == lease[op].holder \in {NoRuntime, r} \/ lease[op].expired

NextCandidate(r, op) == seen[r][op] # AbsentRow /\ \A o \in Op : pc[r][o] = "idle"

TryAcquireLease(r, op) ==
    /\ NextCandidate(r, op) /\ LeaseAvailable(r, op)
    /\ lease' = [lease EXCEPT ![op] = [holder |-> r, expired |-> FALSE]]
    /\ Goto(r, op, "r_fence")
    /\ UNCHANGED <<ledger, seen>> /\ RecoveryUnchanged

(* A candidate leased by another instance is left to it. *)
SkipLeased(r, op) ==
    /\ NextCandidate(r, op) /\ ~LeaseAvailable(r, op)
    /\ seen' = [seen EXCEPT ![r][op] = AbsentRow]
    /\ UNCHANGED <<ledger, lease, pc>> /\ RecoveryUnchanged

(* assert_commit_fence under the lease. *)
AssertCommitFence(r, op) ==
    /\ pc[r][op] = "r_fence"
    /\ Goto(r, op, IF FenceValid(r) THEN "r_work" ELSE "r_release")
    /\ UNCHANGED <<ledger, lease, seen>> /\ RecoveryUnchanged

(* Mutant: a replay of whatever was not finished. *)
ReplayUnfinished(r, op) ==
    /\ pc[r][op] = "r_work"
    /\ seen[r][op].status \in {"generated", "committing"}
    /\ Cas(r, op, seen[r][op].payload = r, mark_committing(ledger[op]), "r_send", "r_release")
    /\ UNCHANGED <<lease, seen>> /\ RecoveryUnchanged

(* Mutant: a payload that decrypts under any fence. *)
ReplayForeignPayload(r, op) ==
    /\ pc[r][op] = "r_work"
    /\ seen[r][op].status = "generated"
    /\ Cas(r, op, mark_committing_where(ledger[op]), mark_committing(ledger[op]), "r_send", "r_release")
    /\ UNCHANGED <<lease, seen>> /\ RecoveryUnchanged

(* replay_generated up to the request: the payload decrypts only under the  *)
(* fence of the runtime that stored it.                                     *)
ReplayGenerated(r, op) ==
    /\ pc[r][op] = "r_work"
    /\ seen[r][op].status = "generated"
    /\ Cas(r, op, seen[r][op].payload = r /\ mark_committing_where(ledger[op]),
           mark_committing(ledger[op]), "r_send", "r_release")
    /\ UNCHANGED <<lease, seen>> /\ RecoveryUnchanged

(* The digest a row was marked generated with: of the mutation, and for a   *)
(* start of the private payload that recovery would read back.              *)
RowDigest(op) == IF Kind[op] = "start" THEN "recovery payload" ELSE "mutation"

(* The digest in the journal entry (external): the Connector can only have  *)
(* taken it of what the request carried.                                    *)
JournalDigest(op) == IF Kind[op] = "start" THEN "create request" ELSE "mutation"

(* StOperationJournalRecord::identity_matches.  No entry of a start does.   *)
identity_matches(op) == JournalDigest(op) = RowDigest(op)

(* Mutant: a reconciliation that does not ask the journal. *)
ReconcileBlindly(r, op) ==
    /\ pc[r][op] = "r_work"
    /\ seen[r][op].status = "committing"
    /\ Cas(r, op, mark_committed_where(ledger[op], seen[r][op].commit),
           mark_committed(ledger[op]), "r_release", "r_release")
    /\ UNCHANGED <<lease, seen>> /\ RecoveryUnchanged

(* Mutant: a reconciliation whose CAS expects `not_started`. *)
ReconcileOnlyNotStarted(r, op) ==
    /\ pc[r][op] = "r_work"
    /\ seen[r][op].status = "committing"
    /\ Cas(r, op,
           /\ journal[op] = "applied" /\ identity_matches(op)
           /\ mark_committed_where(ledger[op], "not_started"),
           mark_committed(ledger[op]), "r_release", "r_release")
    /\ UNCHANGED <<lease, seen>> /\ RecoveryUnchanged

(* reconcile_commit: only an applied journal entry of the same mutation     *)
(* confirms the commit, by a CAS from the commit state that was listed.  An *)
(* entry of another mutation is an error (ST_OPERATION_ID_REUSED).          *)
ReconcileCommit(r, op) ==
    /\ pc[r][op] = "r_work"
    /\ seen[r][op].status = "committing"
    /\ Cas(r, op,
           /\ journal[op] = "applied" /\ identity_matches(op)
           /\ mark_committed_where(ledger[op], seen[r][op].commit),
           mark_committed(ledger[op]), "r_release", "r_release")
    /\ UNCHANGED <<lease, seen>> /\ RecoveryUnchanged

(* A committed candidate needs nothing. *)
SkipCommitted(r, op) ==
    /\ pc[r][op] = "r_work"
    /\ seen[r][op].status = "committed"
    /\ Goto(r, op, "r_release")
    /\ UNCHANGED <<ledger, lease, seen>> /\ RecoveryUnchanged

(* The journal lookup, a CAS or the fence check failed: logged, next candidate. *)
RecoveryStepFails(r, op) ==
    /\ pc[r][op] \in {"r_fence", "r_work"}
    /\ Fault
    /\ Goto(r, op, "r_release")
    /\ UNCHANGED <<ledger, lease, seen, runtimeVars, connectorVars, sent, attempts>>

ReleaseLease(r, op) ==
    /\ pc[r][op] = "r_release" /\ lease[op].holder = r
    /\ lease' = [lease EXCEPT ![op] = NoLease]
    /\ seen' = [seen EXCEPT ![r][op] = AbsentRow]
    /\ Goto(r, op, "idle")
    /\ UNCHANGED ledger /\ RecoveryUnchanged

(* Another instance took the lease over (OPERATION_LEASE_LOST): the pass ends. *)
LeaseLost(r, op) ==
    /\ pc[r][op] = "r_release" /\ lease[op].holder # r
    /\ seen' = [seen EXCEPT ![r] = [o \in Op |-> AbsentRow]]
    /\ Goto(r, op, "idle")
    /\ UNCHANGED <<ledger, lease>> /\ RecoveryUnchanged

(* A storage error in acquiring or releasing a lease ends the pass. *)
AbandonPass(r) ==
    /\ \E op \in Op : seen[r][op] # AbsentRow
    /\ \A op \in Op : pc[r][op] \in {"idle", "r_release"}
    /\ Fault
    /\ seen' = [seen EXCEPT ![r] = [op \in Op |-> AbsentRow]]
    /\ pc' = [pc EXCEPT ![r] = [op \in Op |-> "idle"]]
    /\ UNCHANGED <<ledger, lease, runtimeVars, connectorVars, sent, attempts>>

(* Sixty seconds after the pass began. *)
ExpireLease(op) ==
    /\ lease[op].holder # NoRuntime /\ ~lease[op].expired
    /\ lease' = [lease EXCEPT ![op].expired = TRUE]
    /\ UNCHANGED <<ledger, pc, seen>> /\ RecoveryUnchanged
------------------------------------------------------------------------------
(* The Connector (external).  It may handle a request at any time, also     *)
(* after the runtime that sent it is gone.  An operation it has applied is  *)
(* answered again from its journal; a request that is rejected is never     *)
(* applied later.  A request nobody handles, an answer nobody takes: lost.  *)

ConnectorUnchanged == UNCHANGED <<ledger, lease, pc, seen, runtimeVars, sent, attempts, faults>>

ConnectorApplies(m) ==
    /\ m \in requests
    /\ requests' = requests \ {m}
    /\ journal' = [journal EXCEPT ![m.op] = "applied"]
    /\ responses' = responses \cup {Answer(m.rt, m.op, "applied")}
    /\ ConnectorUnchanged

ConnectorRejects(m) ==
    /\ m \in requests
    /\ journal[m.op] # "applied"
    /\ requests' = requests \ {m}
    /\ responses' = responses \cup {Answer(m.rt, m.op, "not_applied")}
    /\ UNCHANGED journal /\ ConnectorUnchanged
------------------------------------------------------------------------------
(* Runtimes: start_bot, stop_bot, finalize_poller_exit, process crashes.    *)

RuntimeUnchanged == UNCHANGED <<ledger, lease, connectorVars, sent, attempts>>

(* claim_runtime binds the fresh instance; a binding that exists is a conflict. *)
StartRuntime(r) ==
    /\ life[r] = "unborn" /\ owner = NoRuntime
    /\ life' = [life EXCEPT ![r] = "running"]
    /\ owner' = r
    /\ UNCHANGED <<pc, seen, faults>> /\ RuntimeUnchanged

(* stop_bot: begin_draining; the handler tasks still run to their end. *)
BeginDraining(r) ==
    /\ life[r] = "running" /\ Fault
    /\ life' = [life EXCEPT ![r] = "draining"]
    /\ UNCHANGED <<pc, seen, owner>> /\ RuntimeUnchanged

(* The poll loop left, on cancellation or on a failed assert_valid: finalize_poller_exit. *)
FinalizePollerExit(r) ==
    /\ life[r] \in {"running", "draining"} /\ ~FenceValid(r) /\ Idle(r)
    /\ life' = [life EXCEPT ![r] = "stopped"]
    /\ owner' = IF owner = r THEN NoRuntime ELSE owner
    /\ UNCHANGED <<pc, seen, faults>> /\ RuntimeUnchanged

(* The process dies: its tasks are gone, its binding stays. *)
Crash(r) ==
    /\ life[r] \in {"running", "draining"} /\ Fault
    /\ life' = [life EXCEPT ![r] = "stopped"]
    /\ pc' = [pc EXCEPT ![r] = [op \in Op |-> "idle"]]
    /\ seen' = [seen EXCEPT ![r] = [op \in Op |-> AbsentRow]]
    /\ UNCHANGED owner /\ RuntimeUnchanged

(* The registry drops the binding of a live runtime (ownership moved away)... *)
LoseOwnership(r) ==
    /\ owner = r /\ life[r] \in {"running", "draining"} /\ Fault
    /\ owner' = NoRuntime
    /\ UNCHANGED <<pc, seen, life>> /\ RuntimeUnchanged

(* ... or of a dead one (external: the operator or the registry frees it). *)
FreeBinding(r) ==
    /\ owner = r /\ life[r] = "stopped"
    /\ owner' = NoRuntime
    /\ UNCHANGED <<pc, seen, life, faults>> /\ RuntimeUnchanged
------------------------------------------------------------------------------
CommandStep(r, op) ==
    \/ ClaimFresh(r, op)
    \/ ResumeCommitted(r, op)
    \/ ResumePending(r, op)
    \/ RejectDuplicate(r, op)
    \/ MarkSnapshotReady(r, op)
    \/ MarkGenerating(r, op)
    \/ Generate(r, op)
    \/ SettleGenerationFailure(r, op)
    \/ PersistGeneratedPayload(r, op)
    \/ RequireCommitFence(r, op)
    \/ MarkCommitting(r, op)
    \/ AbortCommand(r, op)
    \/ MarkDelivered(r, op)

CommitStep(r, op) ==
    \/ SendRequest(r, op)
    \/ RequestNotSent(r, op)
    \/ SettleUnknown(r, op)
    \/ SettleApplied(r, op)
    \/ SettleNotApplied(r, op)

RecoveryStep(r, op) ==
    \/ TryAcquireLease(r, op)
    \/ SkipLeased(r, op)
    \/ AssertCommitFence(r, op)
    \/ ReplayGenerated(r, op)
    \/ ReconcileCommit(r, op)
    \/ SkipCommitted(r, op)
    \/ ReleaseLease(r, op)
    \/ LeaseLost(r, op)

FaultStep(r, op) ==
    \/ OutcomeNotStored(r, op)
    \/ RecoveryStepFails(r, op)

ConnectorStep == \E m \in requests : ConnectorApplies(m) \/ ConnectorRejects(m)

RuntimeStep(r) ==
    \/ ListCandidates(r)
    \/ AbandonPass(r)
    \/ StartRuntime(r)
    \/ BeginDraining(r)
    \/ FinalizePollerExit(r)
    \/ Crash(r)
    \/ LoseOwnership(r)
    \/ FreeBinding(r)

Next ==
    \/ \E r \in Runtime, op \in Op :
          \/ BeginCommand(r, op)
          \/ CommandStep(r, op)
          \/ CommitStep(r, op)
          \/ RecoveryStep(r, op)
          \/ FaultStep(r, op)
    \/ \E r \in Runtime : RuntimeStep(r)
    \/ \E op \in Op : ExpireLease(op)
    \/ ConnectorStep

Spec == Init /\ [][Next]_vars

(* Fairness.  Tokio polls every ready task and every call in a command has  *)
(* a timeout, so a task that can move moves; the poll loop starts a         *)
(* recovery pass every 30 s; time passes; a stopped poller is started again *)
(* and the binding of a dead one is freed by the operator.  Nothing is      *)
(* assumed of the Connector.                                                *)
Fairness ==
    /\ \A r \in Runtime :
         /\ \A op \in Op :
              /\ WF_vars(CommandStep(r, op) \/ CommitStep(r, op))
              /\ WF_vars(RecoveryStep(r, op))
         /\ WF_vars(ListCandidates(r))
         /\ WF_vars(StartRuntime(r))
         /\ WF_vars(FinalizePollerExit(r))
         /\ WF_vars(FreeBinding(r))
    /\ \A op \in Op : WF_vars(ExpireLease(op))

LiveSpec == Spec /\ Fairness
------------------------------------------------------------------------------
(* CONTEXT.md, invariant 4: across crashes, restarts, stale owners and       *)
(* recovery passes, at most one mutation request leaves for an operation id. *)
AtMostOneRequest == \A op \in Op : sent[op] <= 1

(* A row that claims `applied` (mark_committed after an answer or after a    *)
(* reconciliation) tells the truth about the chat.                           *)
AppliedIsTrue == \A op \in Op : ledger[op].commit = "applied" => journal[op] = "applied"

(* A failed row is final: the mutation did not happen, no request that could *)
(* still apply it is on its way, and no task is about to send one.           *)
FailedIsFinal ==
    \A op \in Op : ledger[op].status = "failed" =>
        /\ journal[op] # "applied"
        /\ \A r \in Runtime : Request(r, op) \notin requests /\ pc[r][op] \notin {"send", "r_send"}

(* The coordinator's contract: "Telegram delivery ... must only run after    *)
(* mark_committed succeeds".                                                 *)
DeliveryAfterCommit ==
    \A r \in Runtime, op \in Op : pc[r][op] = "deliver" =>
        ledger[op].status \in {"committed", "delivered"} /\ journal[op] = "applied"

(* A mutation travels only under the fence it was prepared with: no other    *)
(* runtime sends the payload of a runtime that lost its ownership.           *)
SentUnderOwnFence ==
    \A r \in Runtime, op \in Op : Request(r, op) \in requests => ledger[op].payload = r

(* The guards written in SQL allow no status step that                       *)
(* BridgeOperationStatus::can_transition_to does not list; in particular a   *)
(* terminal row never changes its status again.                              *)
StatusStepsAllowed ==
    [][\A op \in Op : ledger'[op].status # ledger[op].status =>
          <<ledger[op].status, ledger'[op].status>> \in CanTransitionTo]_vars

(* The ledger implements its promise. *)
Promise == INSTANCE OperationPromise WITH
    phase <- [op \in Op |->
                CASE ledger[op].status \in {"committed", "delivered"} -> "confirmed"
                  [] ledger[op].status \in {"failed", "conflict", "interrupted"} -> "rejected"
                  [] OTHER -> "open"],
    issued <- sent,
    effect <- journal

KeepsPromise == Promise!Spec

(* architecture.md: "`unknown` must be reconciled": whatever is lost between *)
(* the Connector and the ledger - the answer, the runtime that waited for    *)
(* it, its ownership - an applied mutation of a chat is eventually recorded. *)
(* It says nothing of a start: the digest of its row is not one the journal  *)
(* can hold (engine.rs:412), so a start whose applied answer is lost stays   *)
(* `committing`.                                                             *)
AppliedIsRecorded ==
    \A op \in Op : journal[op] = "applied" /\ Kind[op] # "start" ~> ledger[op].commit = "applied"

(* A lease whose deadline has not passed is given up only by its holder's    *)
(* own release: no other pass takes it or deletes it.                        *)
LeaseGivenUpByHolder ==
    [][\A op \in Op : LET h == lease[op].holder IN
          (h # NoRuntime /\ ~lease[op].expired /\ lease'[op].holder # h)
              => pc[h][op] = "r_release"]_vars

(* What the coordinator's claim says of duplicates: "Pending, generating,    *)
(* generated, and committing rows must be resumed/reconciled under the       *)
(* original operation id".  So a stored mutation is eventually replayed.     *)
GeneratedIsResumed ==
    \A op \in Op : ledger[op].status = "generated" ~> ledger[op].status # "generated"
------------------------------------------------------------------------------
(* The inductive invariant behind AtMostOneRequest, AppliedIsTrue,          *)
(* FailedIsFinal, DeliveryAfterCommit and SentUnderOwnFence.                *)

Early == {"absent", "received", "snapshot_ready", "generating"}
Building == {"ready", "generate", "persist"}
Sending == {"send", "r_send"}
Waiting == {"await", "r_await"}

(* Between mark_snapshot_ready and mark_generated one task has the row. *)
OneBuilder ==
    \A r \in Runtime, op \in Op : pc[r][op] \in Building =>
        /\ ledger[op].status \in {"snapshot_ready", "generating"}
        /\ \A q \in Runtime \ {r} : pc[q][op] \notin Building

(* mark_committing lets one task through, and no request was sent before. *)
OneSender ==
    \A r \in Runtime, op \in Op : pc[r][op] \in Sending \cup Waiting =>
        /\ ledger[op].status \notin Early \cup {"generated"}
        /\ \A q \in Runtime \ {r} : pc[q][op] \notin Sending \cup Waiting
        /\ pc[r][op] \in Sending =>
              ledger[op].status = "committing" /\ ledger[op].commit = "not_started" /\ sent[op] = 0

NothingSentBefore ==
    \A op \in Op : ledger[op].status \in Early \cup {"generated"} => sent[op] = 0

(* Where the one request of an operation is: not sent, on its way, rejected, applied. *)
Accounted(op) ==
    /\ sent[op] = 0 => journal[op] = "none" /\ \A r \in Runtime :
          /\ Request(r, op) \notin requests
          /\ \A o \in {"applied", "not_applied"} : Answer(r, op, o) \notin responses
    /\ \A r \in Runtime : Request(r, op) \in requests =>
          /\ journal[op] = "none"
          /\ \A q \in Runtime \ {r} : Request(q, op) \notin requests
          /\ \A q \in Runtime : Answer(q, op, "not_applied") \notin responses
    /\ \A r \in Runtime : Answer(r, op, "not_applied") \in responses => journal[op] = "none"
    /\ \A r \in Runtime : Answer(r, op, "applied") \in responses => journal[op] = "applied"

RequestAccounted == \A op \in Op : Accounted(op)

(* Once stored, a payload keeps its fence; who holds it got it from the row. *)
PayloadBound ==
    /\ \A r \in Runtime, op \in Op :
         pc[r][op] \in {"fence", "mark"} \cup Sending \cup Waiting =>
             ledger[op].payload = r /\ ledger[op].status \notin Early
    /\ \A r \in Runtime, op \in Op : seen[r][op] # AbsentRow =>
         /\ seen[r][op].payload = ledger[op].payload
         /\ ledger[op].status \notin Early

IInv ==
    /\ TypeOK /\ OneBuilder /\ OneSender /\ NothingSentBefore /\ RequestAccounted
    /\ PayloadBound /\ AtMostOneRequest /\ AppliedIsTrue /\ FailedIsFinal
    /\ DeliveryAfterCommit /\ SentUnderOwnFence
==============================================================================
