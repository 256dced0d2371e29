----------------------- MODULE BridgeOperationsProofs -----------------------
(***************************************************************************)
(* Proofs about BridgeOperations, for every set of operations and runtimes *)
(* and every bound on attempts and faults.                                 *)
(***************************************************************************)
EXTENDS BridgeOperations, TLAPS

(* An operation without a row is modelled by a row too. *)
LEMMA AbsentRowType == AbsentRow \in Row
BY Zenon DEF AbsentRow, Row, Status, CommitState

(* Every CAS of the store leaves a well-formed row. *)
LEMMA RowUpdates ==
    ASSUME NEW row \in Row, NEW r \in Runtime, NEW state \in CommitState
    PROVE  /\ claim_operation(row) \in Row
           /\ update_snapshot_ready(row) \in Row
           /\ update_generating(row) \in Row
           /\ update_generated(row, r) \in Row
           /\ mark_committing(row) \in Row
           /\ mark_committed(row) \in Row
           /\ mark_delivered(row) \in Row
           /\ mark_failed(row, state) \in Row
           /\ mark_commit_unknown(row) \in Row
BY Zenon DEF Row, Status, CommitState, AbsentRow, claim_operation, update_snapshot_ready,
       update_generating, update_generated, mark_committing, mark_committed,
       mark_delivered, mark_failed, mark_commit_unknown

(* The initial state is well typed. *)
LEMMA InitType == Init => TypeOK
BY AbsentRowType DEF Init, TypeOK, NoLease, Labels

(* A step of the engine's commands keeps the types. *)
LEMMA CommandType ==
    ASSUME TypeOK, NEW r \in Runtime, NEW op \in Op, CommandStep(r, op)
    PROVE  TypeOK'
<1> USE DEF TypeOK, Goto, Cas, Labels, ExecutorLabels, RecoveryLabels, runtimeVars, connectorVars
<1>0. /\ ledger[op] \in Row /\ AbsentRow \in Row
      /\ {"not_started", "not_applied"} \subseteq CommitState
  BY Zenon DEF CommitState, AbsentRow, Row, Status
<1>1. CASE ClaimFresh(r, op)
  BY <1>0, <1>1, RowUpdates, Zenon DEF ClaimFresh, StepUnchanged
<1>2. CASE ResumeCommitted(r, op)
  BY <1>2, Zenon DEF ResumeCommitted, StepUnchanged
<1>3. CASE ResumePending(r, op)
  BY <1>3, Zenon DEF ResumePending, StepUnchanged
<1>4. CASE RejectDuplicate(r, op)
  BY <1>4, Zenon DEF RejectDuplicate, StepUnchanged
<1>5. CASE MarkSnapshotReady(r, op)
  BY <1>0, <1>5, RowUpdates, Zenon DEF MarkSnapshotReady, StepUnchanged
<1>6. CASE MarkGenerating(r, op)
  BY <1>0, <1>6, RowUpdates, Zenon DEF MarkGenerating, StepUnchanged
<1>7. CASE Generate(r, op)
  BY <1>7, Zenon DEF Generate, StepUnchanged
<1>8. CASE SettleGenerationFailure(r, op)
  BY <1>0, <1>8, RowUpdates, Zenon DEF SettleGenerationFailure, StepUnchanged
<1>9. CASE PersistGeneratedPayload(r, op)
  BY <1>0, <1>9, RowUpdates, Zenon DEF PersistGeneratedPayload, StepUnchanged
<1>10. CASE RequireCommitFence(r, op)
  BY <1>10, Zenon DEF RequireCommitFence, StepUnchanged
<1>11. CASE MarkCommitting(r, op)
  BY <1>0, <1>11, RowUpdates, Zenon DEF MarkCommitting, StepUnchanged
<1>12. CASE AbortCommand(r, op)
  BY <1>12, Zenon DEF AbortCommand, StepUnchanged
<1>13. CASE MarkDelivered(r, op)
  BY <1>0, <1>13, RowUpdates, Zenon DEF MarkDelivered, StepUnchanged
<1> QED
  BY <1>1, <1>2, <1>3, <1>4, <1>5, <1>6, <1>7, <1>8, <1>9, <1>10, <1>11, <1>12, <1>13, Zenon DEF CommandStep

(* A step of the request to the Connector keeps the types. *)
LEMMA CommitType ==
    ASSUME TypeOK, NEW r \in Runtime, NEW op \in Op, CommitStep(r, op)
    PROVE  TypeOK'
<1> USE DEF TypeOK, Goto, Cas, Labels, ExecutorLabels, RecoveryLabels, runtimeVars, connectorVars
<1>0. /\ ledger[op] \in Row /\ AbsentRow \in Row
      /\ {"not_started", "not_applied"} \subseteq CommitState
  BY Zenon DEF CommitState, AbsentRow, Row, Status
<1>1. CASE SendRequest(r, op)
  BY <1>1 DEF SendRequest, Request
<1>2. CASE RequestNotSent(r, op)
  BY <1>0, <1>2, RowUpdates, Zenon DEF RequestNotSent, StepUnchanged, AfterAwait
<1>3. CASE SettleUnknown(r, op)
  BY <1>0, <1>3, RowUpdates, Zenon DEF SettleUnknown, StepUnchanged, AfterAwait
<1>4. CASE SettleApplied(r, op)
  BY <1>0, <1>4, RowUpdates, Zenon DEF SettleApplied, Receive, Answer, SettleUnchanged, AfterAwait
<1>5. CASE SettleNotApplied(r, op)
  BY <1>0, <1>5, RowUpdates, Zenon DEF SettleNotApplied, Receive, Answer, SettleUnchanged, AfterAwait
<1> QED
  BY <1>1, <1>2, <1>3, <1>4, <1>5, Zenon DEF CommitStep

(* A step of a recovery pass on one candidate keeps the types. *)
LEMMA RecoveryType ==
    ASSUME TypeOK, NEW r \in Runtime, NEW op \in Op, RecoveryStep(r, op)
    PROVE  TypeOK'
<1> USE DEF TypeOK, Goto, Cas, Labels, ExecutorLabels, RecoveryLabels, runtimeVars, connectorVars
<1>0. /\ ledger[op] \in Row /\ AbsentRow \in Row
      /\ {"not_started", "not_applied"} \subseteq CommitState
  BY Zenon DEF CommitState, AbsentRow, Row, Status
<1>1. CASE TryAcquireLease(r, op)
  BY <1>1, Zenon DEF TryAcquireLease, RecoveryUnchanged
<1>2. CASE SkipLeased(r, op)
  BY <1>2, AbsentRowType, Zenon DEF SkipLeased, RecoveryUnchanged
<1>3. CASE AssertCommitFence(r, op)
  BY <1>3, Zenon DEF AssertCommitFence, RecoveryUnchanged
<1>4. CASE ReplayGenerated(r, op)
  BY <1>0, <1>4, RowUpdates, Zenon DEF ReplayGenerated, RecoveryUnchanged
<1>5. CASE ReconcileCommit(r, op)
  BY <1>0, <1>5, RowUpdates, Zenon DEF ReconcileCommit, RecoveryUnchanged
<1>6. CASE SkipCommitted(r, op)
  BY <1>6, Zenon DEF SkipCommitted, RecoveryUnchanged
<1>7. CASE ReleaseLease(r, op)
  BY <1>7, AbsentRowType, Zenon DEF ReleaseLease, RecoveryUnchanged, NoLease
<1>8. CASE LeaseLost(r, op)
  BY <1>8, AbsentRowType, Zenon DEF LeaseLost, RecoveryUnchanged
<1> QED
  BY <1>1, <1>2, <1>3, <1>4, <1>5, <1>6, <1>7, <1>8, Zenon DEF RecoveryStep

(* The poll loop and the runtimes keep the types. *)
LEMMA RuntimeType ==
    ASSUME TypeOK, NEW r \in Runtime, RuntimeStep(r)
    PROVE  TypeOK'
<1> USE DEF TypeOK, Goto, Cas, Labels, ExecutorLabels, RecoveryLabels, runtimeVars, connectorVars
<1>1. CASE ListCandidates(r)
  BY <1>1, AbsentRowType, Zenon DEF ListCandidates
<1>2. CASE AbandonPass(r)
  BY <1>2, AbsentRowType DEF AbandonPass, Fault
<1>3. CASE StartRuntime(r)
  BY <1>3, Zenon DEF StartRuntime, RuntimeUnchanged
<1>4. CASE BeginDraining(r)
  BY <1>4 DEF BeginDraining, RuntimeUnchanged, Fault
<1>5. CASE FinalizePollerExit(r)
  BY <1>5, Zenon DEF FinalizePollerExit, RuntimeUnchanged
<1>6. CASE Crash(r)
  BY <1>6, AbsentRowType DEF Crash, RuntimeUnchanged, Fault
<1>7. CASE LoseOwnership(r)
  BY <1>7 DEF LoseOwnership, RuntimeUnchanged, Fault
<1>8. CASE FreeBinding(r)
  BY <1>8, Zenon DEF FreeBinding, RuntimeUnchanged
<1> QED
  BY <1>1, <1>2, <1>3, <1>4, <1>5, <1>6, <1>7, <1>8, Zenon DEF RuntimeStep

(* Every step keeps the types. *)
LEMMA NextType == TypeOK /\ [Next]_vars => TypeOK'
<1> SUFFICES ASSUME TypeOK, [Next]_vars PROVE TypeOK'
  BY Zenon
<1> USE DEF Goto, Labels, ExecutorLabels, RecoveryLabels, runtimeVars, connectorVars
<1>1. ASSUME NEW r \in Runtime, NEW op \in Op, BeginCommand(r, op) PROVE TypeOK'
  BY <1>1 DEF TypeOK, BeginCommand
<1>2. ASSUME NEW r \in Runtime, NEW op \in Op, FaultStep(r, op) PROVE TypeOK'
  <2>1. CASE OutcomeNotStored(r, op)
    BY <2>1 DEF TypeOK, OutcomeNotStored, Fault, AfterAwait
  <2>2. CASE RecoveryStepFails(r, op)
    BY <2>2 DEF TypeOK, RecoveryStepFails, Fault
  <2> QED
    BY <1>2, <2>1, <2>2, Zenon DEF FaultStep
<1>3. ASSUME NEW op \in Op, ExpireLease(op) PROVE TypeOK'
  <2>1. lease' \in [Op -> [holder : Runtime \cup {NoRuntime}, expired : BOOLEAN]]
    <3>1. lease[op] \in [holder : Runtime \cup {NoRuntime}, expired : BOOLEAN]
      BY Zenon DEF TypeOK
    <3>2. [lease[op] EXCEPT !.expired = TRUE] \in [holder : Runtime \cup {NoRuntime}, expired : BOOLEAN]
      BY <3>1, Zenon
    <3> QED
      BY <1>3, <3>2, Zenon DEF TypeOK, ExpireLease
  <2>2. UNCHANGED <<ledger, pc, seen, life, owner, requests, responses, journal, sent, attempts, faults>>
    BY <1>3, Zenon DEF ExpireLease, RecoveryUnchanged
  <2> QED
    BY <2>1, <2>2, Zenon DEF TypeOK
<1>4. ASSUME ConnectorStep PROVE TypeOK'
  BY <1>4 DEF TypeOK, ConnectorStep, ConnectorApplies, ConnectorRejects, ConnectorUnchanged, Answer
<1>5. CASE UNCHANGED vars
  BY <1>5, Zenon DEF TypeOK, vars
<1> QED
  BY <1>1, <1>2, <1>3, <1>4, <1>5, CommandType, CommitType, RecoveryType, RuntimeType, Zenon DEF Next

(* THEOREM: in every reachable state every variable has its type: each CAS  *)
(* writes a status and a commit state the tables know, and each task is at  *)
(* a step of a command or of a recovery pass.                               *)
THEOREM TypeCorrect == Spec => []TypeOK
BY InitType, NextType, PTL DEF Spec
------------------------------------------------------------------------------
(* IInv without the types. *)
SafeInv ==
    /\ OneBuilder /\ OneSender /\ NothingSentBefore /\ RequestAccounted
    /\ PayloadBound /\ AtMostOneRequest /\ AppliedIsTrue /\ FailedIsFinal
    /\ DeliveryAfterCommit /\ SentUnderOwnFence

(* Steps that change no row, send nothing (an answer may be taken), and     *)
(* move tasks only to labels the invariant says nothing about.              *)
Quiet ==
    /\ responses' \subseteq responses
    /\ UNCHANGED <<ledger, requests, journal, sent>>
    /\ \A q \in Runtime, o \in Op :
         /\ pc'[q][o] = pc[q][o] \/
            pc'[q][o] \in {"idle", "claim", "snapshot", "r_fence", "r_work", "r_release"}
         /\ seen'[q][o] = seen[q][o] \/ seen'[q][o] = AbsentRow

(* A quiet step preserves the invariant. *)
LEMMA QuietStep == SafeInv /\ Quiet => SafeInv'
<1> SUFFICES ASSUME SafeInv, Quiet PROVE SafeInv'
  BY Zenon
<1> USE DEF SafeInv, Quiet, Building, Sending, Waiting
<1>1. OneBuilder'  BY DEF OneBuilder
<1>2. OneSender'  BY DEF OneSender
<1>3. NothingSentBefore' /\ RequestAccounted'  BY Zenon DEF NothingSentBefore, RequestAccounted, Accounted, Answer, Request
<1>4. PayloadBound'  BY DEF PayloadBound
<1>5. AtMostOneRequest' /\ AppliedIsTrue'  BY Zenon DEF AtMostOneRequest, AppliedIsTrue
<1>6. FailedIsFinal'  BY Zenon DEF FailedIsFinal, Request
<1>7. DeliveryAfterCommit'  BY DEF DeliveryAfterCommit
<1>8. SentUnderOwnFence'  BY Zenon DEF SentUnderOwnFence, Request
<1> QED  BY <1>1, <1>2, <1>3, <1>4, <1>5, <1>6, <1>7, <1>8, Zenon

(* Steps that write the row of one operation and move one task on it; the   *)
(* Connector and the messages on their way are left alone, but an answer    *)
(* may be taken.                                                            *)
RowStep(r, op, row, label) ==
    /\ ledger' = [ledger EXCEPT ![op] = row]
    /\ Goto(r, op, label)
    /\ responses' \subseteq responses
    /\ UNCHANGED <<seen, requests, journal, sent>>

(* What such a step does to the variables, index by index. *)
LEMMA RowStepFacts ==
    ASSUME TypeOK, NEW r \in Runtime, NEW op \in Op, NEW row \in Row, NEW label \in Labels,
           RowStep(r, op, row, label)
    PROVE  /\ ledger'[op] = row
           /\ \A o \in Op \ {op} : ledger'[o] = ledger[o]
           /\ pc'[r][op] = label
           /\ \A q \in Runtime, o \in Op : q # r \/ o # op => pc'[q][o] = pc[q][o]
           /\ responses' \subseteq responses /\ UNCHANGED <<seen, requests, journal, sent>>
BY Zenon DEF TypeOK, RowStep, Goto

(* claim_operation inserts the row. *)
ClaimMove(r, op, row, label) ==
    /\ pc[r][op] = "claim"
    /\ label = "snapshot"
    /\ ledger[op].status = "absent"
    /\ row.status = "received"
    /\ row.commit = "not_started"

(* A duplicate of a committed operation is answered from its row. *)
ResumeMove(r, op, row, label) ==
    /\ pc[r][op] = "claim"
    /\ label = "deliver"
    /\ row = ledger[op]
    /\ AlreadyDone(row)

(* mark_snapshot_ready makes the task the one builder. *)
SnapshotMove(r, op, row, label) ==
    /\ pc[r][op] = "snapshot"
    /\ label \in {"ready", "persist"}
    /\ ledger[op].status = "received"
    /\ row.status = "snapshot_ready"
    /\ row.commit = "not_started"
    /\ row.payload = ledger[op].payload

(* mark_generating, and the generation itself. *)
GeneratingMove(r, op, row, label) ==
    /\ pc[r][op] \in {"ready", "generate"}
    /\ label \in {"generate", "persist"}
    /\ row.status \in {"snapshot_ready", "generating"}
    /\ row.commit = ledger[op].commit
    /\ row.payload = ledger[op].payload

(* settle_generation_failure: nothing was sent for a row that is being built. *)
GenerationFailedMove(r, op, row, label) ==
    /\ pc[r][op] = "generate"
    /\ label = "idle"
    /\ row.status = "failed"
    /\ row.commit = "not_started"
    /\ row.payload = ledger[op].payload

(* mark_generated binds the payload to the runtime. *)
PersistMove(r, op, row, label) ==
    /\ pc[r][op] = "persist"
    /\ label = "fence"
    /\ row.status = "generated"
    /\ row.commit = "not_started"
    /\ row.payload = r

(* require_commit_fence. *)
FenceMove(r, op, row, label) ==
    /\ pc[r][op] = "fence"
    /\ label = "mark"
    /\ row = ledger[op]

(* mark_committing lets one task through. *)
CommittingMove(r, op, row, label) ==
    /\ pc[r][op] \in {"mark", "r_work"}
    /\ label \in Sending
    /\ ledger[op].status = "generated"
    /\ ledger[op].payload = r
    /\ row.status = "committing"
    /\ row.commit = "not_started"
    /\ row.payload = ledger[op].payload

(* A request that never left: failed, not applied. *)
NotSentMove(r, op, row, label) ==
    /\ pc[r][op] \in Sending
    /\ label \in {"idle", "r_release"}
    /\ row.status = "failed"
    /\ row.commit = "not_applied"
    /\ row.payload = ledger[op].payload

(* A request the Connector rejected: failed, not applied. *)
RejectedMove(r, op, row, label) ==
    /\ pc[r][op] \in Waiting
    /\ label \in {"idle", "r_release"}
    /\ Answer(r, op, "not_applied") \in responses
    /\ row.status = "failed"
    /\ row.commit = "not_applied"
    /\ row.payload = ledger[op].payload

(* mark_commit_unknown. *)
UnknownMove(r, op, row, label) ==
    /\ pc[r][op] \in Sending \cup Waiting
    /\ label \in {"idle", "r_release"}
    /\ ledger[op].status = "committing"
    /\ row.status = "committing"
    /\ row.commit = "unknown"
    /\ row.payload = ledger[op].payload

(* mark_committed, after an answer or after a reconciliation. *)
CommittedMove(r, op, row, label) ==
    /\ pc[r][op] \in Waiting \cup {"r_work"}
    /\ label \in {"deliver", "r_release"}
    /\ ledger[op].status = "committing"
    /\ journal[op] = "applied"
    /\ row.status = "committed"
    /\ row.commit = "applied"
    /\ row.payload = ledger[op].payload

(* mark_delivered. *)
DeliveredMove(r, op, row, label) ==
    /\ pc[r][op] = "deliver"
    /\ label = "idle"
    /\ ledger[op].status = "committed"
    /\ row.status = "delivered"
    /\ row.commit = ledger[op].commit
    /\ row.payload = ledger[op].payload

Move(r, op, row, label) ==
    \/ ClaimMove(r, op, row, label)
    \/ ResumeMove(r, op, row, label)
    \/ SnapshotMove(r, op, row, label)
    \/ GeneratingMove(r, op, row, label)
    \/ GenerationFailedMove(r, op, row, label)
    \/ PersistMove(r, op, row, label)
    \/ FenceMove(r, op, row, label)
    \/ CommittingMove(r, op, row, label)
    \/ NotSentMove(r, op, row, label)
    \/ RejectedMove(r, op, row, label)
    \/ UnknownMove(r, op, row, label)
    \/ CommittedMove(r, op, row, label)
    \/ DeliveredMove(r, op, row, label)

(* What a move may do, one fact each, without the case analysis on the moves. *)

\* A row fails out of a run that holds it, or on the Connector's refusal.
FailsFrom(r, op, row, label) ==
    row.status = "failed" =>
        /\ label \notin Sending
        /\ \/ row = ledger[op]
           \/ pc[r][op] \in Building \cup Sending
           \/ pc[r][op] \in Waiting /\ Answer(r, op, "not_applied") \in responses

\* Delivery starts from a row that is done or committed.
DeliversFrom(r, op, row, label) ==
    label = "deliver" =>
        \/ row = ledger[op] /\ AlreadyDone(row)
        \/ row.status = "committed" /\ journal[op] = "applied"

\* What may take a row back from committed or delivered.
LeavesCommitted(r, op, row, label) ==
    ledger[op].status \in {"committed", "delivered"} =>
        \/ row.status \in {"committed", "delivered"}
        \/ pc[r][op] \in Building \cup Sending
        \/ pc[r][op] \in Waiting /\ Answer(r, op, "not_applied") \in responses

\* Only a builder, or a fresh claim, changes the payload.
PayloadFrom(r, op, row, label) ==
    \/ row.payload = ledger[op].payload
    \/ pc[r][op] \in Building
    \/ ledger[op].status = "absent"

\* A run past the payload holds a row with its own payload.
PastPayload(r, op, row, label) ==
    label \in {"fence", "mark"} \cup Sending \cup Waiting =>
        \/ row.status = "generated" /\ row.payload = r
        \/ row = ledger[op] /\ pc[r][op] = "fence"
        \/ row.status = "committing" /\ row.payload = r

\* Rows before the commit come from rows before the commit.
EarlyFrom(r, op, row, label) ==
    row.status \in Early \cup {"generated"} =>
        row = ledger[op] \/ ledger[op].status \in Early \/ pc[r][op] \in Building

\* A run gets to send by taking the row from generated to committing.
SendsFrom(r, op, row, label) ==
    label \in Sending \cup Waiting =>
        /\ ledger[op].status = "generated" /\ label \in Sending
        /\ row.status = "committing" /\ row.commit = "not_started"

\* Who may change a committing row.
LeavesCommitting(r, op, row, label) ==
    ledger[op].status = "committing" =>
        \/ row = ledger[op] \/ journal[op] = "applied"
        \/ pc[r][op] \in Building \cup Sending \cup Waiting

\* A commit is recorded as applied after the journal has it.
AppliedFrom(r, op, row, label) ==
    row.commit = "applied" => ledger[op].commit = "applied" \/ journal[op] = "applied"

\* A run gets to build by claiming the row.
BuildsFrom(r, op, row, label) ==
    label \in Building =>
        /\ row.status \in {"snapshot_ready", "generating"}
        /\ pc[r][op] \in Building \/ ledger[op].status = "received"

\* Who may change a row that is being built.
LeavesBuilding(r, op, row, label) ==
    ledger[op].status \in {"snapshot_ready", "generating"} =>
        row = ledger[op] \/ pc[r][op] \in Building \cup Sending \cup Waiting

(* Every move has these facts. *)
LEMMA MoveFacts ==
    ASSUME NEW r \in Runtime, NEW op \in Op, NEW row \in Row, NEW label \in Labels,
           Move(r, op, row, label)
    PROVE  /\ FailsFrom(r, op, row, label)
           /\ DeliversFrom(r, op, row, label)
           /\ LeavesCommitted(r, op, row, label)
           /\ PayloadFrom(r, op, row, label)
           /\ PastPayload(r, op, row, label)
           /\ EarlyFrom(r, op, row, label)
           /\ SendsFrom(r, op, row, label)
           /\ LeavesCommitting(r, op, row, label)
           /\ AppliedFrom(r, op, row, label)
           /\ BuildsFrom(r, op, row, label)
           /\ LeavesBuilding(r, op, row, label)
<1> USE DEF Move, ClaimMove, ResumeMove, SnapshotMove, GeneratingMove,
            GenerationFailedMove, PersistMove, FenceMove, CommittingMove, NotSentMove,
            RejectedMove, UnknownMove, CommittedMove, DeliveredMove,
            Sending, Waiting, Building, Early
<1>1. FailsFrom(r, op, row, label)
  BY Zenon DEF FailsFrom
<1>2. DeliversFrom(r, op, row, label)
  BY Zenon DEF DeliversFrom
<1>3. LeavesCommitted(r, op, row, label)
  BY Zenon DEF LeavesCommitted
<1>4. PayloadFrom(r, op, row, label)
  BY Zenon DEF PayloadFrom
<1>5. PastPayload(r, op, row, label)
  BY Zenon DEF PastPayload
<1>6. EarlyFrom(r, op, row, label)
  BY Zenon DEF EarlyFrom
<1>7. SendsFrom(r, op, row, label)
  BY Zenon DEF SendsFrom
<1>8. LeavesCommitting(r, op, row, label)
  BY Zenon DEF LeavesCommitting
<1>9. AppliedFrom(r, op, row, label)
  BY Zenon DEF AppliedFrom
<1>10. BuildsFrom(r, op, row, label)
  BY Zenon DEF BuildsFrom
<1>11. LeavesBuilding(r, op, row, label)
  BY Zenon DEF LeavesBuilding
<1> QED
  BY <1>1, <1>2, <1>3, <1>4, <1>5, <1>6, <1>7, <1>8, <1>9, <1>10, <1>11, Zenon

(* Such a step preserves the invariant. *)
LEMMA RowSafe ==
    ASSUME TypeOK, SafeInv, NEW r \in Runtime, NEW op \in Op, NEW row \in Row, NEW label \in Labels,
           Move(r, op, row, label),
           RowStep(r, op, row, label)
    PROVE  SafeInv'
<1>1. /\ ledger'[op] = row /\ \A o \in Op \ {op} : ledger'[o] = ledger[o]
      /\ pc'[r][op] = label
      /\ \A q \in Runtime, o \in Op : q # r \/ o # op => pc'[q][o] = pc[q][o]
      /\ responses' \subseteq responses /\ UNCHANGED <<seen, requests, journal, sent>>
  BY RowStepFacts
<1>0. /\ pc[r][op] \in Building => ledger[op].status \in Early
      /\ ledger[op].status \in Early => sent[op] = 0
      /\ pc[r][op] \in Sending => ledger[op].status = "committing" /\ sent[op] = 0
      /\ sent[op] = 0 => journal[op] = "none" /\ \A q \in Runtime : Request(q, op) \notin requests
      /\ Answer(r, op, "not_applied") \in responses =>
            journal[op] = "none" /\ \A q \in Runtime : Request(q, op) \notin requests
  BY Zenon DEF SafeInv, OneBuilder, OneSender, NothingSentBefore, RequestAccounted, Accounted, Building, Early
<1>10. /\ FailsFrom(r, op, row, label)
       /\ DeliversFrom(r, op, row, label)
       /\ LeavesCommitted(r, op, row, label)
       /\ PayloadFrom(r, op, row, label)
       /\ PastPayload(r, op, row, label)
       /\ EarlyFrom(r, op, row, label)
       /\ SendsFrom(r, op, row, label)
       /\ LeavesCommitting(r, op, row, label)
       /\ AppliedFrom(r, op, row, label)
       /\ BuildsFrom(r, op, row, label)
       /\ LeavesBuilding(r, op, row, label)
  BY MoveFacts, Zenon
<1>2. OneBuilder'
  <2>1. ASSUME NEW q \in Runtime, NEW o \in Op, pc'[q][o] \in Building
        PROVE  ledger'[o].status \in {"snapshot_ready", "generating"}
    <3>1. CASE o # op
      BY <1>1, <2>1, <3>1 DEF SafeInv, OneBuilder
    <3>2. CASE o = op /\ q = r
      BY <1>1, <2>1, <3>2, <1>10, Zenon DEF BuildsFrom
    <3>3. CASE o = op /\ q # r
      <4>1. ledger[op].status \in {"snapshot_ready", "generating"} /\ pc[r][op] \notin Building
        BY <1>1, <2>1, <3>3, Zenon DEF SafeInv, OneBuilder
      <4>2. pc[r][op] \notin Sending \cup Waiting
        BY <4>1, Zenon DEF SafeInv, OneSender, Early
      <4> QED
        BY <1>1, <3>3, <4>1, <4>2, <1>10, Zenon DEF LeavesBuilding
    <3> QED
      BY <3>1, <3>2, <3>3, Zenon
  <2>2. ASSUME NEW q \in Runtime, NEW o \in Op, pc'[q][o] \in Building,
               NEW p \in Runtime, p # q
        PROVE  pc'[p][o] \notin Building
    <3>1. CASE o # op \/ (q # r /\ p # r)
      BY <1>1, <2>2, <3>1, Zenon DEF SafeInv, OneBuilder
    <3>2. CASE o = op /\ (q = r \/ p = r)
      <4>1. ASSUME NEW x \in Runtime, x # r, pc[x][op] \in Building, label \in Building
            PROVE  FALSE
        <5>1. ledger[op].status # "received" /\ pc[r][op] \notin Building
          BY <4>1, Zenon DEF SafeInv, OneBuilder
        <5> QED
          BY <4>1, <5>1, <1>10, Zenon DEF BuildsFrom
      <4> QED
        BY <1>1, <2>2, <3>2, <4>1
    <3> QED
      BY <3>1, <3>2
  <2> QED
    BY <2>1, <2>2, Zenon, Zenon, Zenon DEF OneBuilder
<1>3. OneSender'
  <2>1. ASSUME NEW q \in Runtime, NEW o \in Op, pc'[q][o] \in Sending \cup Waiting
        PROVE  /\ ledger'[o].status \notin Early \cup {"generated"}
               /\ \A p \in Runtime \ {q} : pc'[p][o] \notin Sending \cup Waiting
               /\ pc'[q][o] \in Sending =>
                     /\ ledger'[o].status = "committing" /\ ledger'[o].commit = "not_started"
                     /\ sent'[o] = 0
    <3>1. CASE o # op
      BY <1>1, <2>1, <3>1 DEF SafeInv, OneSender
    <3>2. CASE o = op /\ q = r
      <4>1. /\ ledger[op].status = "generated"
            /\ row.status = "committing" /\ row.commit = "not_started"
        BY <1>1, <2>1, <3>2, <1>10, Zenon DEF SendsFrom
      <4>2. sent[op] = 0
        BY <4>1, Zenon DEF SafeInv, NothingSentBefore
      <4>3. ASSUME NEW p \in Runtime PROVE pc[p][op] \notin Sending \cup Waiting
        BY <4>1, Zenon DEF SafeInv, OneSender
      <4> QED
        BY <1>1, <3>2, <4>1, <4>2, <4>3, Zenon DEF Early
    <3>3. CASE o = op /\ q # r
      <4>1. /\ ledger[op].status \notin Early \cup {"generated"}
            /\ \A p \in Runtime \ {q} : pc[p][op] \notin Sending \cup Waiting
            /\ pc[q][op] \in Sending =>
                  ledger[op].status = "committing" /\ ledger[op].commit = "not_started" /\ sent[op] = 0
        BY <1>1, <2>1, <3>3, Zenon DEF SafeInv, OneSender
      <4>2. /\ pc[r][op] \notin Building \cup Sending \cup Waiting
            /\ label \notin Sending \cup Waiting
        BY <1>0, <3>3, <4>1, <1>10, Zenon DEF SendsFrom
      <4>3. row.status \notin Early \cup {"generated"}
        BY <4>1, <4>2, <1>10, Zenon DEF EarlyFrom
      <4>4. pc[q][op] \in Sending => row = ledger[op]
        BY <1>0, <4>1, <4>2, <1>10, Zenon DEF LeavesCommitting
      <4> QED
        BY <1>1, <3>3, <4>1, <4>2, <4>3, <4>4
    <3> QED
      BY <3>1, <3>2, <3>3
  <2> QED
    BY <2>1, Zenon, Zenon, Zenon DEF OneSender
<1>4. NothingSentBefore' /\ RequestAccounted'
  <2>1. ASSUME NEW o \in Op, ledger'[o].status \in Early \cup {"generated"}
        PROVE  sent'[o] = 0
    <3>1. CASE o # op
      BY <1>1, <2>1, <3>1, Zenon DEF SafeInv, NothingSentBefore
    <3>2. CASE o = op
      <4>1. row = ledger[op] \/ ledger[op].status \in Early
        BY <1>0, <1>1, <2>1, <3>2, <1>10, Zenon DEF EarlyFrom
      <4> QED
        BY <1>0, <1>1, <2>1, <3>2, <4>1, Zenon DEF SafeInv, NothingSentBefore
    <3> QED
      BY <3>1, <3>2, Zenon
  <2>2. RequestAccounted'
    BY <1>1, Zenon DEF SafeInv, RequestAccounted, Accounted, Answer, Request
  <2> QED
    BY <2>1, <2>2, Zenon DEF NothingSentBefore
<1>5. PayloadBound'
  <2>1. ASSUME NEW q \in Runtime, NEW o \in Op,
               pc'[q][o] \in {"fence", "mark"} \cup Sending \cup Waiting
        PROVE  ledger'[o].payload = q /\ ledger'[o].status \notin Early
    <3>1. CASE o # op
      <4>1. pc[q][o] = pc'[q][o] /\ ledger'[o] = ledger[o]
        BY <1>1, <3>1, Zenon
      <4>2. ledger[o].payload = q /\ ledger[o].status \notin Early
        BY <2>1, <4>1, Zenon DEF SafeInv, PayloadBound
      <4> QED
        BY <4>1, <4>2, Zenon
    <3>2. CASE o = op /\ q = r
      <4>1. \/ row.status \in {"generated", "committing"} /\ row.payload = r
            \/ row = ledger[op] /\ pc[r][op] = "fence"
        BY <1>1, <1>10, <2>1, <3>2, Zenon DEF PastPayload
      <4>2. pc[r][op] = "fence" => ledger[op].payload = r /\ ledger[op].status \notin Early
        BY Zenon DEF SafeInv, PayloadBound
      <4>3. row.payload = r /\ row.status \notin Early
        BY <4>1, <4>2, Zenon DEF Early
      <4> QED
        BY <1>1, <3>2, <4>3, Zenon
    <3>3. CASE o = op /\ q # r
      <4>1. ledger[op].payload = q /\ ledger[op].status \notin Early
        BY <1>1, <2>1, <3>3 DEF SafeInv, PayloadBound
      <4> QED
        BY <1>0, <1>1, <3>3, <4>1, <1>10, Zenon DEF PayloadFrom, EarlyFrom, Early
    <3> QED
      BY <3>1, <3>2, <3>3, Zenon
  <2>2. ASSUME NEW q \in Runtime, NEW o \in Op, seen'[q][o] # AbsentRow
        PROVE  seen'[q][o].payload = ledger'[o].payload /\ ledger'[o].status \notin Early
    <3>1. seen[q][o].payload = ledger[o].payload /\ ledger[o].status \notin Early
      BY <1>1, <2>2, Zenon DEF SafeInv, PayloadBound
    <3>2. CASE o # op
      BY <1>1, <3>1, <3>2, Zenon
    <3>3. CASE o = op
      BY <1>0, <1>1, <3>1, <3>3, <1>10, Zenon DEF PayloadFrom, EarlyFrom, Early
    <3> QED
      BY <3>2, <3>3
  <2> QED
    BY <2>1, <2>2, Zenon, Zenon DEF PayloadBound
<1>6. AtMostOneRequest' /\ AppliedIsTrue'
  <2>1. AtMostOneRequest'
    BY <1>1, Zenon DEF SafeInv, AtMostOneRequest
  <2>2. ASSUME NEW o \in Op, ledger'[o].commit = "applied"
        PROVE  journal'[o] = "applied"
    <3>1. CASE o # op
      BY <1>1, <2>2, <3>1, Zenon DEF SafeInv, AppliedIsTrue
    <3>2. CASE o = op
      BY <1>1, <2>2, <3>2, <1>10, Zenon DEF AppliedFrom, SafeInv, AppliedIsTrue
    <3> QED
      BY <3>1, <3>2
  <2> QED
    BY <2>1, <2>2, Zenon, Zenon DEF AppliedIsTrue
<1>7. FailedIsFinal'
  <2>1. ASSUME NEW o \in Op, ledger'[o].status = "failed"
        PROVE  /\ journal'[o] # "applied"
               /\ \A q \in Runtime : Request(q, o) \notin requests' /\ pc'[q][o] \notin {"send", "r_send"}
    <3>1. CASE o # op
      BY <1>1, <2>1, <3>1, Zenon DEF SafeInv, FailedIsFinal
    <3>2. CASE o = op /\ row = ledger[op]
      BY <1>1, <2>1, <3>2, <1>10, Zenon DEF FailsFrom, SafeInv, FailedIsFinal, Sending
    <3>3. CASE o = op /\ row # ledger[op]
      <4>1. /\ label \notin Sending
            /\ \/ pc[r][op] \in Building \cup Sending
               \/ pc[r][op] \in Waiting /\ Answer(r, op, "not_applied") \in responses
        BY <1>1, <2>1, <3>3, <1>10, Zenon DEF FailsFrom
      <4>2. journal[op] # "applied" /\ \A q \in Runtime : Request(q, op) \notin requests
        BY <1>0, <4>1, Zenon
      <4>3. ASSUME NEW q \in Runtime, q # r PROVE pc[q][op] \notin Sending
        <5>1. CASE pc[r][op] \in Building
          BY <1>0, <4>3, <5>1, Zenon DEF SafeInv, OneSender
        <5>2. CASE pc[r][op] \in Sending \cup Waiting
          BY <4>3, <5>2, Zenon DEF SafeInv, OneSender
        <5> QED
          BY <4>1, <5>1, <5>2
      <4> QED
        BY <1>1, <3>3, <4>1, <4>2, <4>3, Zenon, Zenon DEF Sending
    <3> QED
      BY <3>1, <3>2, <3>3
  <2> QED
    BY <2>1, Zenon, Zenon DEF FailedIsFinal, Request
<1>8. DeliveryAfterCommit'
  <2>1. ASSUME NEW q \in Runtime, NEW o \in Op, pc'[q][o] = "deliver"
        PROVE  ledger'[o].status \in {"committed", "delivered"} /\ journal'[o] = "applied"
    <3>1. CASE o # op
      BY <1>1, <2>1, <3>1, Zenon DEF SafeInv, DeliveryAfterCommit
    <3>2. CASE o = op /\ q = r
      BY <1>1, <2>1, <3>2, <1>10, Zenon DEF DeliversFrom, SafeInv, AppliedIsTrue, AlreadyDone
    <3>3. CASE o = op /\ q # r
      <4>1. ledger[op].status \in {"committed", "delivered"} /\ journal[op] = "applied"
        BY <1>1, <2>1, <3>3, Zenon DEF SafeInv, DeliveryAfterCommit
      <4>2. row.status \in {"committed", "delivered"}
        BY <1>0, <4>1, <1>10, Zenon DEF LeavesCommitted, Early
      <4> QED
        BY <1>1, <3>3, <4>1, <4>2
    <3> QED
      BY <3>1, <3>2, <3>3
  <2> QED
    BY <2>1, Zenon, Zenon, Zenon DEF DeliveryAfterCommit
<1>9. SentUnderOwnFence'
  <2>1. ASSUME NEW q \in Runtime, NEW o \in Op, Request(q, o) \in requests
        PROVE  ledger'[o].payload = q
    <3>1. ledger[o].payload = q
      BY <2>1, Zenon DEF SafeInv, SentUnderOwnFence
    <3>2. CASE o # op
      BY <1>1, <3>1, <3>2, Zenon
    <3>3. CASE o = op
      <4>1. ledger[op].status \notin Early
        BY <1>0, <2>1, <3>3, Zenon
      <4>2. row.payload = ledger[op].payload
        BY <1>0, <4>1, <1>10, Zenon DEF PayloadFrom, Early
      <4> QED
        BY <1>1, <3>1, <3>3, <4>2
    <3> QED
      BY <3>2, <3>3
  <2> QED
    BY <1>1, <2>1, Zenon, Zenon, Zenon DEF SentUnderOwnFence, Request
<1> QED
  BY <1>2, <1>3, <1>4, <1>5, <1>6, <1>7, <1>8, <1>9, Zenon DEF SafeInv

(* The request leaves: the first and only one. *)
LEMMA SendRequestSafe ==
    ASSUME TypeOK, SafeInv, NEW r \in Runtime, NEW op \in Op, SendRequest(r, op)
    PROVE  SafeInv'
<1>1. /\ pc[r][op] \in Sending
      /\ pc'[r][op] \in Waiting
      /\ \A q \in Runtime, o \in Op : q # r \/ o # op => pc'[q][o] = pc[q][o]
      /\ requests' = requests \cup {Request(r, op)}
      /\ UNCHANGED <<ledger, seen, responses, journal>>
  BY Zenon DEF TypeOK, SendRequest, Goto, Sending, Waiting
<1>2. sent[op] = 0 /\ sent'[op] = 1 /\ \A o \in Op \ {op} : sent'[o] = sent[o]
  <2>1. sent[op] = 0
    BY <1>1, Zenon DEF SafeInv, OneSender
  <2> QED
    BY <2>1 DEF TypeOK, SendRequest
<1>7. PayloadBound'
  <2>1. ASSUME NEW q \in Runtime, NEW o \in Op,
               pc'[q][o] \in {"fence", "mark"} \cup Sending \cup Waiting
        PROVE  ledger'[o].payload = q /\ ledger'[o].status \notin Early
    <3>1. pc[q][o] \in {"fence", "mark"} \cup Sending \cup Waiting
      BY <1>1, <2>1, Zenon
    <3>2. ledger[o].payload = q /\ ledger[o].status \notin Early
      BY <3>1, Zenon DEF SafeInv, PayloadBound
    <3> QED
      BY <1>1, <3>2, Zenon
  <2>2. ASSUME NEW q \in Runtime, NEW o \in Op, seen'[q][o] # AbsentRow
        PROVE  seen'[q][o].payload = ledger'[o].payload /\ ledger'[o].status \notin Early
    BY <1>1, <2>2, Zenon DEF SafeInv, PayloadBound
  <2> QED
    BY <2>1, <2>2, Zenon DEF PayloadBound
<1> USE DEF SafeInv, Building, Sending, Waiting, Early
<1>3. OneBuilder'
  BY <1>1, <1>2 DEF OneBuilder
<1>4. OneSender'
  BY <1>1, <1>2 DEF OneSender
<1>5. NothingSentBefore'
  BY <1>1, <1>2 DEF NothingSentBefore, OneSender
<1>6. RequestAccounted'
  <2>1. \A q \in Runtime, o \in Op :
           Request(q, o) \in requests' <=> Request(q, o) \in requests \/ (q = r /\ o = op)
    BY <1>1, Zenon DEF Request
  <2>2. \A q \in Runtime : Request(q, op) \notin requests
    BY <1>2, Zenon DEF RequestAccounted, Accounted
  <2>3. journal[op] = "none" /\ \A q \in Runtime :
           Answer(q, op, "applied") \notin responses /\ Answer(q, op, "not_applied") \notin responses
    BY <1>2, Zenon DEF RequestAccounted, Accounted
  <2>4. ASSUME NEW q \in Runtime, NEW o \in Op, NEW x \in {"applied", "not_applied"}
        PROVE  Answer(q, o, x)' = Answer(q, o, x) /\ Request(q, o)' = Request(q, o)
    BY Zenon DEF Answer, Request
  <2>5. Accounted(op)'
    <3>1. ASSUME NEW q \in Runtime, Request(q, op) \in requests' PROVE q = r
      BY <2>1, <2>2, <3>1, Zenon
    <3>2. sent'[op] # 0
      BY <1>2
    <3>3. UNCHANGED <<journal, responses>>
      BY <1>1
    <3> QED
      BY <2>3, <2>4, <3>1, <3>2, <3>3, Zenon, Zenon DEF Accounted
  <2>6. ASSUME NEW o \in Op, o # op PROVE Accounted(o)'
    <3>1. Accounted(o)
      BY Zenon DEF RequestAccounted
    <3>2. /\ sent'[o] = sent[o] /\ journal'[o] = journal[o] /\ responses' = responses
          /\ \A q \in Runtime : Request(q, o) \in requests' <=> Request(q, o) \in requests
      BY <1>1, <1>2, <2>1, <2>6
    <3> QED
      BY <2>4, <3>1, <3>2, Zenon, Zenon DEF Accounted
  <2> QED
    BY <2>5, <2>6, Zenon DEF RequestAccounted
<1>8. AtMostOneRequest' /\ AppliedIsTrue'
  <2>1. ASSUME NEW o \in Op PROVE sent'[o] <= 1
    BY <1>2 DEF AtMostOneRequest
  <2> QED
    BY <1>1, <2>1, Zenon DEF AtMostOneRequest, AppliedIsTrue
<1>9. FailedIsFinal'
  <2>1. ledger[op].status = "committing"
    BY <1>1, Zenon DEF OneSender
  <2>2. ASSUME NEW q \in Runtime, NEW o \in Op, o # op
        PROVE  Request(q, o) \in requests' <=> Request(q, o) \in requests
    BY <1>1, <2>2, Zenon DEF Request
  <2> QED
    BY <1>1, <2>1, <2>2 DEF FailedIsFinal
<1>10. DeliveryAfterCommit'
  BY <1>1, <1>2 DEF DeliveryAfterCommit
<1>11. SentUnderOwnFence'
  BY <1>1, <1>2 DEF SentUnderOwnFence, PayloadBound, Request
<1> QED
  BY <1>3, <1>4, <1>5, <1>6, <1>7, <1>8, <1>9, <1>10, <1>11, Zenon

(* The Connector handles the one request of an operation. *)
LEMMA ConnectorSafe ==
    ASSUME TypeOK, SafeInv, ConnectorStep
    PROVE  SafeInv'
<1>1. PICK r \in Runtime, op \in Op :
        /\ Request(r, op) \in requests
        /\ ConnectorApplies(Request(r, op)) \/ ConnectorRejects(Request(r, op))
  BY DEF TypeOK, ConnectorStep, Request
<1>2. /\ requests' = requests \ {Request(r, op)}
      /\ UNCHANGED <<ledger, pc, seen, sent>>
      /\ \/ /\ journal'[op] = "applied"
            /\ responses' = responses \cup {Answer(r, op, "applied")}
         \/ /\ journal'[op] = journal[op] /\ journal[op] = "none"
            /\ responses' = responses \cup {Answer(r, op, "not_applied")}
      /\ \A o \in Op \ {op} : journal'[o] = journal[o]
  BY <1>1, Zenon DEF TypeOK, Request, ConnectorApplies, ConnectorRejects, ConnectorUnchanged, Answer
<1> USE DEF SafeInv, Building, Sending, Waiting, Early
<1>3. sent[op] # 0 /\ journal[op] = "none" /\ ledger[op].status # "failed"
  BY <1>1, Zenon DEF RequestAccounted, Accounted, FailedIsFinal, Request
<1>4. OneBuilder' /\ OneSender' /\ NothingSentBefore'
  BY <1>2, Zenon DEF OneBuilder, OneSender, NothingSentBefore
<1>5. RequestAccounted'
  <2>1. /\ \A q \in Runtime : Request(q, op) \in requests => q = r
        /\ \A q \in Runtime : Answer(q, op, "not_applied") \notin responses
        /\ \A q \in Runtime : Answer(q, op, "applied") \notin responses
    BY <1>1, <1>3, Zenon DEF RequestAccounted, Accounted
  <2>2. \A q \in Runtime, o \in Op :
           Request(q, o) \in requests' <=> Request(q, o) \in requests /\ ~(q = r /\ o = op)
    BY <1>2, Zenon DEF Request
  <2>3. ASSUME NEW q \in Runtime, NEW o \in Op, NEW x \in {"applied", "not_applied"}
        PROVE  Answer(q, o, x)' = Answer(q, o, x) /\ Request(q, o)' = Request(q, o)
    BY Zenon DEF Answer, Request
  <2>4. Accounted(op)'
    <3>1. sent'[op] # 0 /\ \A q \in Runtime : Request(q, op) \notin requests'
      BY <1>2, <1>3, <2>1, <2>2, Zenon
    <3>2. \/ /\ journal'[op] = "applied"
             /\ \A q \in Runtime : Answer(q, op, "not_applied") \notin responses'
          \/ /\ journal'[op] = "none"
             /\ \A q \in Runtime : Answer(q, op, "applied") \notin responses'
      BY <1>2, <2>1 DEF Answer
    <3> QED
      BY <2>3, <3>1, <3>2, Zenon DEF Accounted
  <2>5. ASSUME NEW o \in Op, o # op PROVE Accounted(o)'
    <3>1. Accounted(o)
      BY Zenon DEF RequestAccounted
    <3>2. ASSUME NEW q \in Runtime, NEW x \in {"applied", "not_applied"}
          PROVE  Answer(q, o, x) \in responses' <=> Answer(q, o, x) \in responses
      <4>1. ASSUME NEW y PROVE Answer(q, o, x) # Answer(r, op, y)
        BY <2>5, Zenon DEF Answer
      <4>2. responses' \in {responses \cup {Answer(r, op, "applied")},
                            responses \cup {Answer(r, op, "not_applied")}}
        BY <1>2
      <4> QED
        BY <4>1, <4>2, Zenon, Zenon
    <3>3. /\ sent'[o] = sent[o] /\ journal'[o] = journal[o]
          /\ \A q \in Runtime : Request(q, o) \in requests' <=> Request(q, o) \in requests
      BY <1>2, <2>2, <2>5
    <3> QED
      BY <2>3, <3>1, <3>2, <3>3, Zenon, Zenon DEF Accounted
  <2> QED
    BY <2>4, <2>5, Zenon DEF RequestAccounted
<1>6. PayloadBound' /\ AtMostOneRequest'
  BY <1>2 DEF PayloadBound, AtMostOneRequest
<1>7. AppliedIsTrue' /\ DeliveryAfterCommit'
  BY <1>2, <1>3, Zenon DEF AppliedIsTrue, DeliveryAfterCommit
<1>8. FailedIsFinal'
  BY <1>2, <1>3, Zenon DEF FailedIsFinal, Request
<1>9. SentUnderOwnFence'
  BY <1>2, Zenon DEF SentUnderOwnFence, Request
<1> QED
  BY <1>4, <1>5, <1>6, <1>7, <1>8, <1>9, Zenon

(* A pass lists rows that already have their payload. *)
LEMMA ListCandidatesSafe ==
    ASSUME TypeOK, SafeInv, NEW r \in Runtime, ListCandidates(r)
    PROVE  SafeInv'
<1>1. /\ UNCHANGED <<ledger, pc, requests, responses, journal, sent>>
      /\ \A q \in Runtime \ {r} : seen'[q] = seen[q]
      /\ \A op \in Op : seen'[r][op] =
            IF recovery_candidate(ledger[op]) THEN ledger[op] ELSE AbsentRow
  BY Zenon DEF TypeOK, ListCandidates, connectorVars
<1>2. PayloadBound'
  <2>1. ASSUME NEW q \in Runtime, NEW op \in Op, seen'[q][op] # AbsentRow
        PROVE  seen'[q][op].payload = ledger[op].payload /\ ledger[op].status \notin Early
    <3>1. CASE q = r
      <4>1. recovery_candidate(ledger[op]) /\ seen'[q][op] = ledger[op]
        BY <1>1, <2>1, <3>1
      <4> QED
        BY <4>1, Zenon, Zenon DEF recovery_candidate, Early
    <3>2. CASE q # r
      BY <1>1, <2>1, <3>2 DEF SafeInv, PayloadBound
    <3> QED
      BY <3>1, <3>2, Zenon
  <2>2. ASSUME NEW q \in Runtime, NEW op \in Op,
               pc[q][op] \in {"fence", "mark"} \cup Sending \cup Waiting
        PROVE  ledger[op].payload = q /\ ledger[op].status \notin Early
    BY <2>2, Zenon DEF SafeInv, PayloadBound
  <2> QED
    BY <1>1, <2>1, <2>2, Zenon DEF PayloadBound
<1> USE DEF SafeInv, Building, Sending, Waiting, Early
<1>3. OneBuilder' /\ OneSender' /\ NothingSentBefore' /\ RequestAccounted'
  BY <1>1 DEF OneBuilder, OneSender, NothingSentBefore, RequestAccounted, Accounted, Answer, Request
<1>4. AtMostOneRequest' /\ AppliedIsTrue' /\ DeliveryAfterCommit'
  BY <1>1, Zenon DEF AtMostOneRequest, AppliedIsTrue, DeliveryAfterCommit
<1>5. FailedIsFinal' /\ SentUnderOwnFence'
  BY <1>1, Zenon DEF FailedIsFinal, SentUnderOwnFence, Request
<1> QED
  BY <1>2, <1>3, <1>4, <1>5, Zenon

(* A command's step. *)
LEMMA CommandSafe ==
    ASSUME TypeOK, SafeInv, NEW r \in Runtime, NEW op \in Op, CommandStep(r, op)
    PROVE  SafeInv'
<1>0. /\ ledger[op] \in Row
      /\ claim_operation(ledger[op]) \in Row
      /\ update_snapshot_ready(ledger[op]) \in Row
      /\ update_generating(ledger[op]) \in Row
      /\ update_generated(ledger[op], r) \in Row
      /\ mark_failed(ledger[op], "not_started") \in Row
      /\ mark_committing(ledger[op]) \in Row
      /\ mark_delivered(ledger[op]) \in Row
  BY RowUpdates, Zenon DEF TypeOK, CommitState
<1>1. CASE ClaimFresh(r, op)
  <2>1. RowStep(r, op, claim_operation(ledger[op]), "snapshot")
    BY <1>1, Zenon DEF ClaimFresh, RowStep, StepUnchanged, connectorVars
  <2>2. ClaimMove(r, op, claim_operation(ledger[op]), "snapshot")
    BY <1>0, <1>1, Zenon DEF ClaimFresh, claim_operation_where, ClaimMove, claim_operation, AbsentRow
  <2>3. Move(r, op, claim_operation(ledger[op]), "snapshot")
    BY <2>2, Zenon DEF Move
  <2>4. "snapshot" \in Labels
    BY Zenon DEF Labels, ExecutorLabels
  <2> QED
    BY <1>0, <2>1, <2>3, <2>4, RowSafe, Zenon
<1>2. CASE ResumeCommitted(r, op)
  <2>1. RowStep(r, op, ledger[op], "deliver")
    BY <1>2, Zenon DEF TypeOK, ResumeCommitted, RowStep, StepUnchanged, connectorVars
  <2> QED
    BY <1>0, <1>2, <2>1, RowSafe, Zenon
       DEF ResumeCommitted, DuplicateClaim, Labels, ExecutorLabels, Move, ResumeMove
<1>3. CASE ResumePending(r, op)
  <2>1. Quiet
    BY <1>3, Zenon DEF TypeOK, Quiet, ResumePending, Goto, StepUnchanged, connectorVars
  <2> QED
    BY <2>1, QuietStep, Zenon
<1>4. CASE RejectDuplicate(r, op)
  <2>1. Quiet
    BY <1>4, Zenon DEF TypeOK, Quiet, RejectDuplicate, Goto, StepUnchanged, connectorVars
  <2> QED
    BY <2>1, QuietStep, Zenon
<1>5. CASE MarkSnapshotReady(r, op)
  <2>1. CASE update_snapshot_ready_where(ledger[op])
    <3>1. RowStep(r, op, update_snapshot_ready(ledger[op]), (IF Kind[op] = "send" THEN "ready" ELSE "persist"))
      BY <1>5, <2>1, Zenon DEF MarkSnapshotReady, Cas, RowStep, StepUnchanged, connectorVars
    <3>2. update_snapshot_ready(ledger[op]) \in Row /\ (IF Kind[op] = "send" THEN "ready" ELSE "persist") \in Labels
      BY <1>0, Zenon DEF Labels, ExecutorLabels, RecoveryLabels
    <3>3. SnapshotMove(r, op, update_snapshot_ready(ledger[op]), (IF Kind[op] = "send" THEN "ready" ELSE "persist"))
      BY <1>0, <1>5, <2>1, Zenon DEF MarkSnapshotReady, update_snapshot_ready_where, SnapshotMove, update_snapshot_ready, Row
    <3>8. Move(r, op, update_snapshot_ready(ledger[op]), (IF Kind[op] = "send" THEN "ready" ELSE "persist"))
      BY <3>3, Zenon DEF Move
    <3> QED
      BY <1>0, <3>1, <3>2, <3>8, RowSafe, Zenon
  <2>2. CASE ~(update_snapshot_ready_where(ledger[op]))
    <3>1. Quiet
      BY <1>5, <2>2, Zenon DEF TypeOK, Quiet, MarkSnapshotReady, Cas, Goto, StepUnchanged, connectorVars
    <3> QED
      BY <3>1, QuietStep
  <2> QED
    BY <2>1, <2>2, Zenon, Zenon
<1>6. CASE MarkGenerating(r, op)
  <2>1. CASE update_generating_where(ledger[op])
    <3>1. RowStep(r, op, update_generating(ledger[op]), "generate")
      BY <1>6, <2>1, Zenon DEF MarkGenerating, Cas, RowStep, StepUnchanged, connectorVars
    <3>2. update_generating(ledger[op]) \in Row /\ "generate" \in Labels
      BY <1>0, Zenon DEF Labels, ExecutorLabels, RecoveryLabels
    <3>3. GeneratingMove(r, op, update_generating(ledger[op]), "generate")
      BY <1>0, <1>6, <2>1, Zenon DEF MarkGenerating, update_generating_where, GeneratingMove, update_generating, Row
    <3>8. Move(r, op, update_generating(ledger[op]), "generate")
      BY <3>3, Zenon DEF Move
    <3> QED
      BY <1>0, <3>1, <3>2, <3>8, RowSafe, Zenon
  <2>2. CASE ~(update_generating_where(ledger[op]))
    <3>1. Quiet
      BY <1>6, <2>2, Zenon DEF TypeOK, Quiet, MarkGenerating, Cas, Goto, StepUnchanged, connectorVars
    <3> QED
      BY <3>1, QuietStep
  <2> QED
    BY <2>1, <2>2, Zenon, Zenon
<1>7. CASE Generate(r, op)
  <2>1. RowStep(r, op, ledger[op], "persist")
    BY <1>7, Zenon DEF TypeOK, Generate, RowStep, StepUnchanged, connectorVars
  <2>2. ledger[op].status \in {"snapshot_ready", "generating"}
    BY <1>7, Zenon DEF Generate, SafeInv, OneBuilder, Building
  <2> QED
    BY <1>0, <1>7, <2>1, <2>2, RowSafe, Zenon
       DEF Generate, Labels, ExecutorLabels, Move, GeneratingMove
<1>8. CASE SettleGenerationFailure(r, op)
  <2>1. CASE mark_failed_where(ledger[op])
    <3>1. RowStep(r, op, mark_failed(ledger[op], "not_started"), "idle")
      BY <1>8, <2>1, Zenon DEF SettleGenerationFailure, Cas, RowStep, StepUnchanged, connectorVars
    <3>2. mark_failed(ledger[op], "not_started") \in Row /\ "idle" \in Labels
      BY <1>0, Zenon DEF Labels, ExecutorLabels, RecoveryLabels
    <3>3. GenerationFailedMove(r, op, mark_failed(ledger[op], "not_started"), "idle")
      BY <1>0, <1>8, <2>1, Zenon DEF SettleGenerationFailure, mark_failed_where, GenerationFailedMove, mark_failed, Row
    <3>8. Move(r, op, mark_failed(ledger[op], "not_started"), "idle")
      BY <3>3, Zenon DEF Move
    <3> QED
      BY <1>0, <3>1, <3>2, <3>8, RowSafe, Zenon
  <2>2. CASE ~(mark_failed_where(ledger[op]))
    <3>1. Quiet
      BY <1>8, <2>2, Zenon DEF TypeOK, Quiet, SettleGenerationFailure, Cas, Goto, StepUnchanged, connectorVars
    <3> QED
      BY <3>1, QuietStep
  <2> QED
    BY <2>1, <2>2, Zenon, Zenon
<1>9. CASE PersistGeneratedPayload(r, op)
  <2>1. CASE update_generated_where(ledger[op])
    <3>1. RowStep(r, op, update_generated(ledger[op], r), "fence")
      BY <1>9, <2>1, Zenon DEF PersistGeneratedPayload, Cas, RowStep, StepUnchanged, connectorVars
    <3>2. update_generated(ledger[op], r) \in Row /\ "fence" \in Labels
      BY <1>0, Zenon DEF Labels, ExecutorLabels, RecoveryLabels
    <3>3. PersistMove(r, op, update_generated(ledger[op], r), "fence")
      BY <1>0, <1>9, <2>1, Zenon DEF PersistGeneratedPayload, update_generated_where, PersistMove, update_generated, Row
    <3>8. Move(r, op, update_generated(ledger[op], r), "fence")
      BY <3>3, Zenon DEF Move
    <3> QED
      BY <1>0, <3>1, <3>2, <3>8, RowSafe, Zenon
  <2>2. CASE ~(update_generated_where(ledger[op]))
    <3>1. Quiet
      BY <1>9, <2>2, Zenon DEF TypeOK, Quiet, PersistGeneratedPayload, Cas, Goto, StepUnchanged, connectorVars
    <3> QED
      BY <3>1, QuietStep
  <2> QED
    BY <2>1, <2>2, Zenon, Zenon
<1>10. CASE RequireCommitFence(r, op)
  <2>1. RowStep(r, op, ledger[op], "mark")
    BY <1>10, Zenon DEF TypeOK, RequireCommitFence, RowStep, StepUnchanged, connectorVars
  <2> QED
    BY <1>0, <1>10, <2>1, RowSafe, Zenon
       DEF RequireCommitFence, Labels, ExecutorLabels, Move, FenceMove
<1>11. CASE MarkCommitting(r, op)
  <2>1. CASE mark_committing_where(ledger[op])
    <3>1. RowStep(r, op, mark_committing(ledger[op]), "send")
      BY <1>11, <2>1, Zenon DEF MarkCommitting, Cas, RowStep, StepUnchanged, connectorVars
    <3>2. ledger[op].payload = r
      BY <1>11, Zenon DEF MarkCommitting, SafeInv, PayloadBound
    <3>3. CommittingMove(r, op, mark_committing(ledger[op]), "send")
      BY <1>0, <1>11, <2>1, <3>2, Zenon
         DEF MarkCommitting, mark_committing_where, Sending, CommittingMove, mark_committing, Row
    <3>8. Move(r, op, mark_committing(ledger[op]), "send")
      BY <3>3, Zenon DEF Move
    <3>9. "send" \in Labels
      BY Zenon DEF Labels, ExecutorLabels
    <3> QED
      BY <1>0, <3>1, <3>8, <3>9, RowSafe, Zenon
  <2>2. CASE ~mark_committing_where(ledger[op])
    <3>1. Quiet
      BY <1>11, <2>2, Zenon DEF TypeOK, Quiet, MarkCommitting, Cas, Goto, StepUnchanged, connectorVars
    <3> QED
      BY <3>1, QuietStep
  <2> QED
    BY <2>1, <2>2, Zenon, Zenon
<1>12. CASE AbortCommand(r, op)
  <2>1. Quiet
    BY <1>12, Zenon DEF TypeOK, Quiet, AbortCommand, Goto, StepUnchanged, connectorVars
  <2> QED
    BY <2>1, QuietStep, Zenon
<1>13. CASE MarkDelivered(r, op)
  <2>1. CASE mark_delivered_where(ledger[op])
    <3>1. RowStep(r, op, mark_delivered(ledger[op]), "idle")
      BY <1>13, <2>1, Zenon DEF MarkDelivered, Cas, RowStep, StepUnchanged, connectorVars
    <3>2. mark_delivered(ledger[op]) \in Row /\ "idle" \in Labels
      BY <1>0, Zenon DEF Labels, ExecutorLabels, RecoveryLabels
    <3>3. DeliveredMove(r, op, mark_delivered(ledger[op]), "idle")
      BY <1>0, <1>13, <2>1, Zenon DEF MarkDelivered, mark_delivered_where, DeliveredMove, mark_delivered, Row
    <3>8. Move(r, op, mark_delivered(ledger[op]), "idle")
      BY <3>3, Zenon DEF Move
    <3> QED
      BY <1>0, <3>1, <3>2, <3>8, RowSafe, Zenon
  <2>2. CASE ~(mark_delivered_where(ledger[op]))
    <3>1. Quiet
      BY <1>13, <2>2, Zenon DEF TypeOK, Quiet, MarkDelivered, Cas, Goto, StepUnchanged, connectorVars
    <3> QED
      BY <3>1, QuietStep
  <2> QED
    BY <2>1, <2>2
<1> QED
  BY <1>1, <1>2, <1>3, <1>4, <1>5, <1>6, <1>7, <1>8, <1>9, <1>10, <1>11, <1>12, <1>13, Zenon, Zenon, Zenon DEF CommandStep

(* A step of the commit request. *)
LEMMA CommitSafe ==
    ASSUME TypeOK, SafeInv, NEW r \in Runtime, NEW op \in Op, CommitStep(r, op)
    PROVE  SafeInv'
<1>0. /\ ledger[op] \in Row
      /\ mark_failed(ledger[op], "not_applied") \in Row
      /\ mark_commit_unknown(ledger[op]) \in Row
      /\ mark_committed(ledger[op]) \in Row
  BY RowUpdates, Zenon DEF TypeOK, CommitState
<1>1. CASE SendRequest(r, op)
  BY <1>1, SendRequestSafe, Zenon
<1>2. CASE RequestNotSent(r, op)
  <2>1. CASE mark_failed_where(ledger[op])
    <3>1. RowStep(r, op, mark_failed(ledger[op], "not_applied"), AfterAwait(pc[r][op]))
      BY <1>2, <2>1, Zenon DEF RequestNotSent, Cas, RowStep, StepUnchanged, connectorVars, AfterAwait
    <3>2. mark_failed(ledger[op], "not_applied") \in Row /\ AfterAwait(pc[r][op]) \in Labels
      BY <1>0, Zenon DEF Labels, ExecutorLabels, RecoveryLabels, AfterAwait
    <3>3. NotSentMove(r, op, mark_failed(ledger[op], "not_applied"), AfterAwait(pc[r][op]))
      BY <1>0, <1>2, <2>1, Zenon DEF RequestNotSent, mark_failed_where, Sending, AfterAwait, NotSentMove, mark_failed, Row
    <3>8. Move(r, op, mark_failed(ledger[op], "not_applied"), AfterAwait(pc[r][op]))
      BY <3>3, Zenon DEF Move
    <3> QED
      BY <1>0, <3>1, <3>2, <3>8, RowSafe, Zenon
  <2>2. CASE ~(mark_failed_where(ledger[op]))
    <3>1. Quiet
      BY <1>2, <2>2, Zenon DEF TypeOK, Quiet, RequestNotSent, Cas, Goto, StepUnchanged, connectorVars, AfterAwait
    <3> QED
      BY <3>1, QuietStep
  <2> QED
    BY <2>1, <2>2, Zenon, Zenon
<1>3. CASE SettleUnknown(r, op)
  <2>1. CASE mark_commit_unknown_where(ledger[op])
    <3>1. RowStep(r, op, mark_commit_unknown(ledger[op]), AfterAwait(pc[r][op]))
      BY <1>3, <2>1, Zenon DEF SettleUnknown, Cas, RowStep, StepUnchanged, connectorVars, AfterAwait
    <3>2. mark_commit_unknown(ledger[op]) \in Row /\ AfterAwait(pc[r][op]) \in Labels
      BY <1>0, Zenon DEF Labels, ExecutorLabels, RecoveryLabels, AfterAwait
    <3>3. UnknownMove(r, op, mark_commit_unknown(ledger[op]), AfterAwait(pc[r][op]))
      BY <1>0, <1>3, <2>1, Zenon DEF SettleUnknown, mark_commit_unknown_where, Sending, Waiting, AfterAwait, UnknownMove, mark_commit_unknown, Row
    <3>8. Move(r, op, mark_commit_unknown(ledger[op]), AfterAwait(pc[r][op]))
      BY <3>3, Zenon DEF Move
    <3> QED
      BY <1>0, <3>1, <3>2, <3>8, RowSafe, Zenon
  <2>2. CASE ~(mark_commit_unknown_where(ledger[op]))
    <3>1. Quiet
      BY <1>3, <2>2, Zenon DEF TypeOK, Quiet, SettleUnknown, Cas, Goto, StepUnchanged, connectorVars, AfterAwait
    <3> QED
      BY <3>1, QuietStep
  <2> QED
    BY <2>1, <2>2, Zenon, Zenon
<1>4. CASE SettleApplied(r, op)
  <2> DEFINE label == IF pc[r][op] = "await" THEN "deliver" ELSE "r_release"
  <2>1. CASE mark_committed_where(ledger[op], "not_started")
    <3>1. RowStep(r, op, mark_committed(ledger[op]), label)
      BY <1>4, <2>1, Zenon DEF SettleApplied, Cas, RowStep, SettleUnchanged, Receive
    <3>2. journal[op] = "applied"
      BY <1>4, Zenon DEF SettleApplied, Receive, SafeInv, RequestAccounted, Accounted
    <3>3. label \in Labels /\ label \in {"deliver", "r_release"}
      BY Zenon DEF Labels, ExecutorLabels, RecoveryLabels
    <3>4. pc[r][op] \in Waiting
      BY <1>4, Zenon DEF SettleApplied, Receive, Waiting
    <3> HIDE DEF label
    <3>5. CommittedMove(r, op, mark_committed(ledger[op]), label)
      BY <1>0, <2>1, <3>2, <3>3, <3>4, Zenon DEF mark_committed_where, CommittedMove, mark_committed, Row
    <3>8. Move(r, op, mark_committed(ledger[op]), label)
      BY <3>5, Zenon DEF Move
    <3> QED
      BY <1>0, <3>1, <3>3, <3>8, RowSafe, Zenon
  <2>2. CASE ~mark_committed_where(ledger[op], "not_started")
    <3>1. Quiet
      BY <1>4, <2>2, Zenon DEF TypeOK, Quiet, SettleApplied, Cas, Goto, SettleUnchanged, Receive, AfterAwait
    <3> QED
      BY <3>1, QuietStep
  <2> QED
    BY <2>1, <2>2, Zenon, Zenon
<1>5. CASE SettleNotApplied(r, op)
  <2>1. CASE mark_failed_where(ledger[op])
    <3>1. RowStep(r, op, mark_failed(ledger[op], "not_applied"), AfterAwait(pc[r][op]))
      BY <1>5, <2>1, Zenon DEF SettleNotApplied, Cas, RowStep, SettleUnchanged, Receive, AfterAwait
    <3>2. mark_failed(ledger[op], "not_applied") \in Row /\ AfterAwait(pc[r][op]) \in Labels
      BY <1>0, Zenon DEF Labels, ExecutorLabels, RecoveryLabels, AfterAwait
    <3>3. RejectedMove(r, op, mark_failed(ledger[op], "not_applied"), AfterAwait(pc[r][op]))
      BY <1>0, <1>5, <2>1, Zenon DEF SettleNotApplied, mark_failed_where, Waiting, AfterAwait, Receive, RejectedMove, mark_failed, Row
    <3>8. Move(r, op, mark_failed(ledger[op], "not_applied"), AfterAwait(pc[r][op]))
      BY <3>3, Zenon DEF Move
    <3> QED
      BY <1>0, <3>1, <3>2, <3>8, RowSafe, Zenon
  <2>2. CASE ~(mark_failed_where(ledger[op]))
    <3>1. Quiet
      BY <1>5, <2>2, Zenon DEF TypeOK, Quiet, SettleNotApplied, Cas, Goto, SettleUnchanged, Receive, AfterAwait
    <3> QED
      BY <3>1, QuietStep
  <2> QED
    BY <2>1, <2>2
<1> QED
  BY <1>1, <1>2, <1>3, <1>4, <1>5, Zenon, Zenon, Zenon DEF CommitStep

(* A step of a recovery pass. *)
LEMMA RecoverySafe ==
    ASSUME TypeOK, SafeInv, NEW r \in Runtime, NEW op \in Op, RecoveryStep(r, op)
    PROVE  SafeInv'
<1>0. /\ ledger[op] \in Row
      /\ mark_committing(ledger[op]) \in Row
      /\ mark_committed(ledger[op]) \in Row
  BY RowUpdates, Zenon DEF TypeOK, CommitState
<1>1. CASE TryAcquireLease(r, op)
  <2>1. Quiet
    BY <1>1, Zenon DEF TypeOK, Quiet, TryAcquireLease, Goto, RecoveryUnchanged, connectorVars
  <2> QED
    BY <2>1, QuietStep, Zenon
<1>2. CASE SkipLeased(r, op)
  <2>1. Quiet
    BY <1>2, Zenon DEF TypeOK, Quiet, SkipLeased, Goto, RecoveryUnchanged, connectorVars
  <2> QED
    BY <2>1, QuietStep, Zenon
<1>3. CASE AssertCommitFence(r, op)
  <2>1. Quiet
    BY <1>3, Zenon DEF TypeOK, Quiet, AssertCommitFence, Goto, RecoveryUnchanged, connectorVars
  <2> QED
    BY <2>1, QuietStep, Zenon
<1>4. CASE ReplayGenerated(r, op)
  <2> DEFINE where == seen[r][op].payload = r /\ mark_committing_where(ledger[op])
  <2>1. CASE where
    <3>1. RowStep(r, op, mark_committing(ledger[op]), "r_send")
      BY <1>4, <2>1, Zenon DEF ReplayGenerated, Cas, RowStep, RecoveryUnchanged, connectorVars
    <3>2. ledger[op].payload = r
      <4>1. seen[r][op] # AbsentRow
        <5>1. seen[r][op].status = "generated"
          BY <1>4, Zenon DEF ReplayGenerated
        <5>2. AbsentRow.status = "absent"
          BY DEF AbsentRow
        <5> QED
          BY <5>1, <5>2
      <4> QED
        BY <2>1, <4>1, ZenonT(60) DEF SafeInv, PayloadBound
    <3>3. CommittingMove(r, op, mark_committing(ledger[op]), "r_send")
      BY <1>0, <1>4, <2>1, <3>2, Zenon
         DEF ReplayGenerated, mark_committing_where, Sending, CommittingMove, mark_committing, Row
    <3>8. Move(r, op, mark_committing(ledger[op]), "r_send")
      BY <3>3, Zenon DEF Move
    <3>9. "r_send" \in Labels
      BY Zenon DEF Labels, RecoveryLabels
    <3> QED
      BY <1>0, <3>1, <3>8, <3>9, RowSafe, Zenon
  <2>2. CASE ~where
    <3>1. Quiet
      BY <1>4, <2>2, Zenon DEF TypeOK, Quiet, ReplayGenerated, Cas, Goto, RecoveryUnchanged, connectorVars
    <3> QED
      BY <3>1, QuietStep
  <2> QED
    BY <2>1, <2>2, Zenon, Zenon
<1>5. CASE ReconcileCommit(r, op)
  <2> DEFINE where == /\ journal[op] = "applied" /\ identity_matches(op)
                      /\ mark_committed_where(ledger[op], seen[r][op].commit)
  <2>1. CASE where
    <3>1. RowStep(r, op, mark_committed(ledger[op]), "r_release")
      BY <1>5, <2>1, Zenon DEF ReconcileCommit, Cas, RowStep, RecoveryUnchanged, connectorVars
    <3>2. CommittedMove(r, op, mark_committed(ledger[op]), "r_release")
      BY <1>0, <1>5, <2>1, Zenon DEF ReconcileCommit, mark_committed_where, CommittedMove, mark_committed, Row
    <3>8. Move(r, op, mark_committed(ledger[op]), "r_release")
      BY <3>2, Zenon DEF Move
    <3>9. "r_release" \in Labels
      BY Zenon DEF Labels, RecoveryLabels
    <3> QED
      BY <1>0, <3>1, <3>8, <3>9, RowSafe, Zenon
  <2>2. CASE ~where
    <3>1. Quiet
      BY <1>5, <2>2, Zenon DEF TypeOK, Quiet, ReconcileCommit, Cas, Goto, RecoveryUnchanged, connectorVars
    <3> QED
      BY <3>1, QuietStep
  <2> QED
    BY <2>1, <2>2, Zenon, Zenon
<1>6. CASE SkipCommitted(r, op)
  <2>1. Quiet
    BY <1>6, Zenon DEF TypeOK, Quiet, SkipCommitted, Goto, RecoveryUnchanged, connectorVars
  <2> QED
    BY <2>1, QuietStep, Zenon
<1>7. CASE ReleaseLease(r, op)
  <2>1. Quiet
    BY <1>7, Zenon DEF TypeOK, Quiet, ReleaseLease, Goto, RecoveryUnchanged, connectorVars
  <2> QED
    BY <2>1, QuietStep, Zenon
<1>8. CASE LeaseLost(r, op)
  <2>1. Quiet
    BY <1>8, Zenon DEF TypeOK, Quiet, LeaseLost, Goto, RecoveryUnchanged, connectorVars
  <2> QED
    BY <2>1, QuietStep
<1> QED
  BY <1>1, <1>2, <1>3, <1>4, <1>5, <1>6, <1>7, <1>8, Zenon, Zenon DEF RecoveryStep

(* A step of the poll loop or of the process. *)
LEMMA RuntimeSafe ==
    ASSUME TypeOK, SafeInv, NEW r \in Runtime, RuntimeStep(r)
    PROVE  SafeInv'
<1>1. CASE ListCandidates(r)
  BY <1>1, ListCandidatesSafe, Zenon
<1>2. CASE AbandonPass(r)
  <2>1. Quiet
    BY <1>2, Zenon DEF TypeOK, Quiet, AbandonPass, Goto, connectorVars
  <2> QED
    BY <2>1, QuietStep, Zenon
<1>3. CASE StartRuntime(r)
  <2>1. Quiet
    BY <1>3, Zenon DEF TypeOK, Quiet, StartRuntime, Goto, RuntimeUnchanged, connectorVars
  <2> QED
    BY <2>1, QuietStep, Zenon
<1>4. CASE BeginDraining(r)
  <2>1. Quiet
    BY <1>4, Zenon DEF TypeOK, Quiet, BeginDraining, Goto, RuntimeUnchanged, connectorVars
  <2> QED
    BY <2>1, QuietStep, Zenon
<1>5. CASE FinalizePollerExit(r)
  <2>1. Quiet
    BY <1>5, Zenon DEF TypeOK, Quiet, FinalizePollerExit, Goto, RuntimeUnchanged, connectorVars
  <2> QED
    BY <2>1, QuietStep, Zenon
<1>6. CASE Crash(r)
  <2>1. Quiet
    BY <1>6, Zenon DEF TypeOK, Quiet, Crash, Goto, RuntimeUnchanged, connectorVars
  <2> QED
    BY <2>1, QuietStep, Zenon
<1>7. CASE LoseOwnership(r)
  <2>1. Quiet
    BY <1>7, Zenon DEF TypeOK, Quiet, LoseOwnership, Goto, RuntimeUnchanged, connectorVars
  <2> QED
    BY <2>1, QuietStep, Zenon
<1>8. CASE FreeBinding(r)
  <2>1. Quiet
    BY <1>8, Zenon DEF TypeOK, Quiet, FreeBinding, Goto, RuntimeUnchanged, connectorVars
  <2> QED
    BY <2>1, QuietStep
<1> QED
  BY <1>1, <1>2, <1>3, <1>4, <1>5, <1>6, <1>7, <1>8, Zenon, Zenon DEF RuntimeStep

(* Nothing has happened yet. *)
LEMMA InitSafe == Init => SafeInv
<1> SUFFICES ASSUME Init PROVE SafeInv
  BY Zenon
<1> USE DEF Init, AbsentRow, Building, Sending, Waiting, Early
<1>1. OneBuilder /\ OneSender /\ NothingSentBefore
  BY Zenon DEF OneBuilder, OneSender, NothingSentBefore
<1>2. RequestAccounted /\ PayloadBound
  BY Zenon DEF RequestAccounted, Accounted, PayloadBound
<1>3. AtMostOneRequest /\ AppliedIsTrue /\ FailedIsFinal /\ DeliveryAfterCommit /\ SentUnderOwnFence
  BY DEF AtMostOneRequest, AppliedIsTrue, FailedIsFinal, DeliveryAfterCommit, SentUnderOwnFence
<1> QED
  BY <1>1, <1>2, <1>3, Zenon DEF SafeInv

(* Every step preserves the invariant. *)
LEMMA NextSafe == TypeOK /\ SafeInv /\ [Next]_vars => SafeInv'
<1> SUFFICES ASSUME TypeOK, SafeInv, [Next]_vars PROVE SafeInv'
  BY Zenon
<1>1. ASSUME NEW r \in Runtime, NEW op \in Op, BeginCommand(r, op) PROVE SafeInv'
  <2>1. Quiet
    BY <1>1, Zenon DEF TypeOK, Quiet, BeginCommand, Goto, connectorVars
  <2> QED
    BY <2>1, QuietStep, Zenon
<1>2. ASSUME NEW r \in Runtime, NEW op \in Op, FaultStep(r, op) PROVE SafeInv'
  <2>1. CASE OutcomeNotStored(r, op)
    <3>1. Quiet
      BY <2>1, Zenon DEF TypeOK, Quiet, OutcomeNotStored, Goto, connectorVars, AfterAwait
    <3> QED
      BY <3>1, QuietStep, Zenon
  <2>2. CASE RecoveryStepFails(r, op)
    <3>1. Quiet
      BY <2>2, Zenon DEF TypeOK, Quiet, RecoveryStepFails, Goto, connectorVars
    <3> QED
      BY <3>1, QuietStep
  <2> QED
    BY <1>2, <2>1, <2>2, Zenon, Zenon DEF FaultStep
<1>3. ASSUME NEW op \in Op, ExpireLease(op) PROVE SafeInv'
  <2>1. Quiet
    BY <1>3, Zenon DEF TypeOK, Quiet, ExpireLease, RecoveryUnchanged, connectorVars
  <2> QED
    BY <2>1, QuietStep, Zenon
<1>4. CASE UNCHANGED vars
  <2>1. Quiet
    BY <1>4, Zenon DEF TypeOK, Quiet, vars
  <2> QED
    BY <2>1, QuietStep
<1> QED
  BY <1>1, <1>2, <1>3, <1>4, CommandSafe, CommitSafe, RecoverySafe, RuntimeSafe, ConnectorSafe, Zenon, Zenon
     DEF Next

(* THEOREM: the inductive invariant holds in every reachable state. *)
THEOREM InductiveInvariant == Spec => []IInv
<1>1. Init => IInv
  BY InitType, InitSafe, Zenon DEF IInv, SafeInv
<1>2. IInv /\ [Next]_vars => IInv'
  BY NextType, NextSafe DEF IInv, SafeInv
<1> QED
  BY <1>1, <1>2, PTL DEF Spec

(* THEOREM: for any number of runtimes and operations, whatever crashes,    *)
(* restarts, lost ownerships and recovery passes happen, OperationCoordinator *)
(* and its recovery send at most one mutation request per operation id.     *)
THEOREM OneRequestPerOperation == Spec => []AtMostOneRequest
<1>1. IInv => AtMostOneRequest
  BY DEF IInv
<1> QED
  BY <1>1, InductiveInvariant, PTL

(* THEOREM: a row marked applied, by mark_committed after an answer or after *)
(* a reconciliation, means that the Connector applied the mutation.         *)
THEOREM AppliedRowsAreTrue == Spec => []AppliedIsTrue
<1>1. IInv => AppliedIsTrue
  BY DEF IInv
<1> QED
  BY <1>1, InductiveInvariant, PTL

(* THEOREM: a row that mark_failed settled stays true: nothing was applied  *)
(* and nothing on its way can still apply it.                               *)
THEOREM FailedRowsAreFinal == Spec => []FailedIsFinal
<1>1. IInv => FailedIsFinal
  BY DEF IInv
<1> QED
  BY <1>1, InductiveInvariant, PTL

(* THEOREM: a reply is delivered only for a mutation that is committed in   *)
(* the ledger and applied by the Connector.                                 *)
THEOREM DeliveredAfterCommit == Spec => []DeliveryAfterCommit
<1>1. IInv => DeliveryAfterCommit
  BY DEF IInv
<1> QED
  BY <1>1, InductiveInvariant, PTL

(* THEOREM: no runtime sends a payload stored under another runtime's fence. *)
THEOREM RequestsKeepTheirFence == Spec => []SentUnderOwnFence
<1>1. IInv => SentUnderOwnFence
  BY DEF IInv
<1> QED
  BY <1>1, InductiveInvariant, PTL
------------------------------------------------------------------------------
(* The lease table changes only by an acquisition, a release and a deadline. *)
LEMMA LeaseSteps ==
    ASSUME [Next]_vars
    PROVE  \/ UNCHANGED lease
           \/ \E r \in Runtime, op \in Op : TryAcquireLease(r, op) \/ ReleaseLease(r, op)
           \/ \E op \in Op : ExpireLease(op)
<1>1. ASSUME NEW r \in Runtime, NEW op \in Op, CommandStep(r, op) PROVE UNCHANGED lease
  BY <1>1, Zenon DEF CommandStep, ClaimFresh, ResumeCommitted, ResumePending, RejectDuplicate,
     MarkSnapshotReady, MarkGenerating, Generate, SettleGenerationFailure, PersistGeneratedPayload,
     RequireCommitFence, MarkCommitting, AbortCommand, MarkDelivered, StepUnchanged
<1>2. ASSUME NEW r \in Runtime, NEW op \in Op, CommitStep(r, op) PROVE UNCHANGED lease
  BY <1>2, Zenon DEF CommitStep, SendRequest, RequestNotSent, SettleUnknown, SettleApplied,
     SettleNotApplied, StepUnchanged, SettleUnchanged
<1>3. ASSUME NEW r \in Runtime, NEW op \in Op, RecoveryStep(r, op)
      PROVE  UNCHANGED lease \/ TryAcquireLease(r, op) \/ ReleaseLease(r, op)
  BY <1>3, Zenon DEF RecoveryStep, SkipLeased, AssertCommitFence, ReplayGenerated, ReconcileCommit,
     SkipCommitted, LeaseLost
<1>4. ASSUME NEW r \in Runtime, NEW op \in Op, BeginCommand(r, op) \/ FaultStep(r, op)
      PROVE  UNCHANGED lease
  BY <1>4, Zenon DEF BeginCommand, FaultStep, OutcomeNotStored, RecoveryStepFails
<1>5. ASSUME NEW r \in Runtime, RuntimeStep(r) PROVE UNCHANGED lease
  BY <1>5, Zenon DEF RuntimeStep, ListCandidates, AbandonPass, StartRuntime, BeginDraining,
     FinalizePollerExit, Crash, LoseOwnership, FreeBinding, RuntimeUnchanged
<1>6. CASE ConnectorStep
  BY <1>6, Zenon DEF ConnectorStep, ConnectorApplies, ConnectorRejects, ConnectorUnchanged
<1>7. CASE UNCHANGED vars
  BY <1>7, Zenon DEF vars
<1> QED
  BY <1>1, <1>2, <1>3, <1>4, <1>5, <1>6, <1>7, Zenon DEF Next

(* THEOREM: try_acquire_execution_lease takes no lease from another instance *)
(* before its deadline, and release_execution_lease deletes only one's own:  *)
(* a lease that is not expired changes hands only by its holder's release.   *)
THEOREM LeasesAreRespected == Spec => LeaseGivenUpByHolder
<1>1. ASSUME TypeOK, [Next]_vars, NEW op \in Op, NEW h, h = lease[op].holder,
             h # NoRuntime, ~lease[op].expired, lease'[op].holder # h
      PROVE  pc[h][op] = "r_release"
  <2>1. ASSUME NEW r \in Runtime, NEW o \in Op, TryAcquireLease(r, o) PROVE FALSE
    <3>1. CASE o = op
      BY <1>1, <2>1, <3>1, Zenon DEF TryAcquireLease, LeaseAvailable, TypeOK
    <3>2. CASE o # op
      BY <1>1, <2>1, <3>2, Zenon DEF TryAcquireLease, TypeOK
    <3> QED
      BY <3>1, <3>2, Zenon
  <2>2. ASSUME NEW r \in Runtime, NEW o \in Op, ReleaseLease(r, o) PROVE pc[h][op] = "r_release"
    BY <1>1, <2>2, Zenon DEF ReleaseLease, TypeOK
  <2>3. ASSUME NEW o \in Op, ExpireLease(o) PROVE FALSE
    BY <1>1, <2>3, Zenon DEF ExpireLease, TypeOK
  <2> QED
    BY <1>1, <2>1, <2>2, <2>3, LeaseSteps, Zenon
<1>2. TypeOK /\ [Next]_vars =>
        [\A op \in Op : LET h == lease[op].holder IN
            (h # NoRuntime /\ ~lease[op].expired /\ lease'[op].holder # h)
                => pc[h][op] = "r_release"]_vars
  BY <1>1
<1> QED
  BY <1>2, TypeCorrect, PTL DEF Spec, LeaseGivenUpByHolder

-----------------------------------------------------------------------------
(***************************************************************************)
(* BridgeOperations implements OperationPromise, and its rows take only    *)
(* the status steps of can_transition_to.                                  *)
(***************************************************************************)
(* What one UPDATE of the store may do to a row. *)
RowChange(old, new) ==
    \/ new = old
    \/ new.status = "committing" /\ old.status = "committing"
    \/ /\ <<old.status, new.status>> \in CanTransitionTo
       /\ new.status \notin {"conflict", "interrupted"}
       /\ new.status \in {"committed", "delivered"} => new.commit = "applied"

(* The UPDATEs of OperationStore, each under its WHERE clause. *)
LEMMA UpdatesAllowed ==
    ASSUME NEW row \in Row, NEW r \in Runtime, NEW state \in CommitState
    PROVE  /\ claim_operation_where(row) => RowChange(row, claim_operation(row))
           /\ update_snapshot_ready_where(row) => RowChange(row, update_snapshot_ready(row))
           /\ update_generating_where(row) => RowChange(row, update_generating(row))
           /\ update_generated_where(row) => RowChange(row, update_generated(row, r))
           /\ mark_committing_where(row) => RowChange(row, mark_committing(row))
           /\ mark_committed_where(row, state) => RowChange(row, mark_committed(row))
           /\ mark_delivered_where(row) => RowChange(row, mark_delivered(row))
           /\ mark_failed_where(row) => RowChange(row, mark_failed(row, state))
           /\ mark_commit_unknown_where(row) => RowChange(row, mark_commit_unknown(row))
<1> USE DEF RowChange, CanTransitionTo, Row
<1>1. claim_operation_where(row) => RowChange(row, claim_operation(row))
  BY Zenon DEF claim_operation_where, claim_operation, AbsentRow
<1>2. update_snapshot_ready_where(row) => RowChange(row, update_snapshot_ready(row))
  BY Zenon DEF update_snapshot_ready_where, update_snapshot_ready
<1>3. update_generating_where(row) => RowChange(row, update_generating(row))
  BY Zenon DEF update_generating_where, update_generating
<1>4. update_generated_where(row) => RowChange(row, update_generated(row, r))
  BY Zenon DEF update_generated_where, update_generated
<1>5. mark_committing_where(row) => RowChange(row, mark_committing(row))
  BY Zenon DEF mark_committing_where, mark_committing
<1>6. mark_committed_where(row, state) => RowChange(row, mark_committed(row))
  BY Zenon DEF mark_committed_where, mark_committed
<1>7. mark_delivered_where(row) => RowChange(row, mark_delivered(row))
  BY Zenon DEF mark_delivered_where, mark_delivered
<1>8. mark_failed_where(row) => RowChange(row, mark_failed(row, state))
  BY Zenon DEF mark_failed_where, mark_failed
<1>9. mark_commit_unknown_where(row) => RowChange(row, mark_commit_unknown(row))
  BY Zenon DEF mark_commit_unknown_where, mark_commit_unknown
<1> QED
  BY <1>1, <1>2, <1>3, <1>4, <1>5, <1>6, <1>7, <1>8, <1>9, Zenon

(* A step writes at most the row of op, and neither sends nor applies. *)
Writes(op) ==
    /\ RowChange(ledger[op], ledger'[op])
    /\ \A o \in Op \ {op} : ledger'[o] = ledger[o]
    /\ UNCHANGED <<sent, journal>>

(* A step changes no row, and neither sends nor applies. *)
Reads == UNCHANGED <<ledger, sent, journal>>

(* One compare-and-swap. *)
LEMMA CasWrites ==
    ASSUME TypeOK, NEW r \in Runtime, NEW op \in Op, NEW where, NEW row, NEW next, NEW error,
           Cas(r, op, where, row, next, error),
           where => RowChange(ledger[op], row),
           UNCHANGED <<sent, journal>>
    PROVE  Writes(op)
BY Zenon DEF TypeOK, Cas, Writes, RowChange

(* A command's step. *)
LEMMA CommandWrites ==
    ASSUME TypeOK, NEW r \in Runtime, NEW op \in Op, CommandStep(r, op)
    PROVE  Writes(op) \/ Reads
<1> USE DEF StepUnchanged, connectorVars
<1>0. ledger[op] \in Row /\ "not_started" \in CommitState
  BY Zenon DEF TypeOK, CommitState
<1>1. CASE ClaimFresh(r, op)
  BY <1>0, <1>1, UpdatesAllowed, Zenon DEF TypeOK, ClaimFresh, Writes
<1>2. CASE ResumeCommitted(r, op) \/ ResumePending(r, op) \/ RejectDuplicate(r, op)
  BY <1>2, Zenon DEF ResumeCommitted, ResumePending, RejectDuplicate, Reads
<1>3. CASE MarkSnapshotReady(r, op)
  BY <1>0, <1>3, UpdatesAllowed, CasWrites, Zenon DEF MarkSnapshotReady
<1>4. CASE MarkGenerating(r, op)
  BY <1>0, <1>4, UpdatesAllowed, CasWrites, Zenon DEF MarkGenerating
<1>5. CASE SettleGenerationFailure(r, op)
  BY <1>0, <1>5, UpdatesAllowed, CasWrites, Zenon DEF SettleGenerationFailure
<1>6. CASE PersistGeneratedPayload(r, op)
  BY <1>0, <1>6, UpdatesAllowed, CasWrites, Zenon DEF PersistGeneratedPayload
<1>7. CASE MarkCommitting(r, op)
  BY <1>0, <1>7, UpdatesAllowed, CasWrites, Zenon DEF MarkCommitting
<1>8. CASE MarkDelivered(r, op)
  BY <1>0, <1>8, UpdatesAllowed, CasWrites, Zenon DEF MarkDelivered
<1>9. CASE Generate(r, op) \/ RequireCommitFence(r, op) \/ AbortCommand(r, op)
  BY <1>9, Zenon DEF Generate, RequireCommitFence, AbortCommand, Reads
<1> QED
  BY <1>1, <1>2, <1>3, <1>4, <1>5, <1>6, <1>7, <1>8, <1>9, Zenon DEF CommandStep

(* The outcome of a request. *)
LEMMA CommitWrites ==
    ASSUME TypeOK, NEW r \in Runtime, NEW op \in Op, CommitStep(r, op)
    PROVE  Writes(op) \/ SendRequest(r, op)
<1> USE DEF StepUnchanged, SettleUnchanged, connectorVars
<1>0. ledger[op] \in Row /\ "not_started" \in CommitState /\ "not_applied" \in CommitState
  BY Zenon DEF TypeOK, CommitState
<1>1. CASE RequestNotSent(r, op)
  BY <1>0, <1>1, UpdatesAllowed, CasWrites, Zenon DEF RequestNotSent
<1>2. CASE SettleUnknown(r, op)
  BY <1>0, <1>2, UpdatesAllowed, CasWrites, Zenon DEF SettleUnknown
<1>3. CASE SettleApplied(r, op)
  BY <1>0, <1>3, UpdatesAllowed, CasWrites, Zenon DEF SettleApplied
<1>4. CASE SettleNotApplied(r, op)
  BY <1>0, <1>4, UpdatesAllowed, CasWrites, Zenon DEF SettleNotApplied
<1> QED
  BY <1>1, <1>2, <1>3, <1>4, Zenon DEF CommitStep

(* A step of a recovery pass. *)
LEMMA RecoveryWrites ==
    ASSUME TypeOK, NEW r \in Runtime, NEW op \in Op, RecoveryStep(r, op)
    PROVE  Writes(op) \/ Reads
<1> USE DEF RecoveryUnchanged, connectorVars
<1>0. ledger[op] \in Row /\ seen[r][op].commit \in CommitState
  BY DEF TypeOK, Row
<1>1. CASE ReplayGenerated(r, op)
  BY <1>0, <1>1, UpdatesAllowed, CasWrites, Zenon DEF ReplayGenerated
<1>2. CASE ReconcileCommit(r, op)
  BY <1>0, <1>2, UpdatesAllowed, CasWrites, Zenon DEF ReconcileCommit
<1>3. CASE TryAcquireLease(r, op) \/ SkipLeased(r, op) \/ AssertCommitFence(r, op)
  BY <1>3, Zenon DEF TryAcquireLease, SkipLeased, AssertCommitFence, Reads
<1>4. CASE SkipCommitted(r, op) \/ ReleaseLease(r, op) \/ LeaseLost(r, op)
  BY <1>4, Zenon DEF SkipCommitted, ReleaseLease, LeaseLost, Reads
<1> QED
  BY <1>1, <1>2, <1>3, <1>4, Zenon DEF RecoveryStep

(* Every step reads, writes one row, sends one request or is the Connector's. *)
LEMMA StepShape ==
    ASSUME TypeOK, [Next]_vars
    PROVE  \/ Reads
           \/ \E op \in Op : Writes(op)
           \/ \E r \in Runtime, op \in Op : SendRequest(r, op)
           \/ ConnectorStep
<1>1. ASSUME NEW r \in Runtime, NEW op \in Op, BeginCommand(r, op) \/ FaultStep(r, op)
      PROVE  Reads
  BY <1>1, Zenon DEF BeginCommand, FaultStep, OutcomeNotStored, RecoveryStepFails, connectorVars, Reads
<1>2. ASSUME NEW r \in Runtime, RuntimeStep(r) PROVE Reads
  BY <1>2, Zenon DEF RuntimeStep, ListCandidates, AbandonPass, StartRuntime, BeginDraining,
              FinalizePollerExit, Crash, LoseOwnership, FreeBinding, RuntimeUnchanged,
              connectorVars, Reads
<1>3. ASSUME NEW op \in Op, ExpireLease(op) PROVE Reads
  BY <1>3, Zenon DEF ExpireLease, RecoveryUnchanged, connectorVars, Reads
<1>4. CASE UNCHANGED vars
  BY <1>4, Zenon DEF vars, Reads
<1> QED
  BY <1>1, <1>2, <1>3, <1>4, CommandWrites, CommitWrites, RecoveryWrites, Zenon DEF Next

(* The status columns change as can_transition_to allows. *)
LEMMA StatusStep ==
    ASSUME TypeOK, [Next]_vars, NEW op \in Op, ledger'[op].status # ledger[op].status
    PROVE  <<ledger[op].status, ledger'[op].status>> \in CanTransitionTo
<1>1. CASE Reads
  BY <1>1, Zenon DEF Reads
<1>2. ASSUME NEW o \in Op, Writes(o) PROVE <<ledger[op].status, ledger'[op].status>> \in CanTransitionTo
  BY <1>2, Zenon DEF Writes, RowChange
<1>3. CASE (\E r \in Runtime, o \in Op : SendRequest(r, o)) \/ ConnectorStep
  BY <1>3, Zenon DEF SendRequest, ConnectorStep, ConnectorApplies, ConnectorRejects, ConnectorUnchanged
<1> QED
  BY <1>1, <1>2, <1>3, StepShape, Zenon

(* THEOREM: the WHERE clauses of OperationStore let no row take a status     *)
(* step that can_transition_to does not list, whatever commands, recovery    *)
(* passes and faults interleave.                                             *)
THEOREM StatusStepsAreAllowed == Spec => StatusStepsAllowed
<1>1. TypeOK /\ [Next]_vars =>
        [\A op \in Op : ledger'[op].status # ledger[op].status =>
            <<ledger[op].status, ledger'[op].status>> \in CanTransitionTo]_vars
  BY StatusStep
<1> QED
  BY <1>1, TypeCorrect, PTL DEF Spec, StatusStepsAllowed
------------------------------------------------------------------------------
(* Committed rows are applied ones, and no production code writes conflict   *)
(* or interrupted.                                                           *)
RowsSettled ==
    \A op \in Op :
        /\ ledger[op].status \in {"committed", "delivered"} => ledger[op].commit = "applied"
        /\ ledger[op].status \notin {"conflict", "interrupted"}

(* RowsSettled is an invariant: only mark_committed and mark_delivered write *)
(* the two statuses, and both leave commit_state applied.                    *)
LEMMA RowsSettledInvariant == Spec => []RowsSettled
<1>1. Init => RowsSettled
  BY DEF Init, AbsentRow, RowsSettled
<1>2. TypeOK /\ RowsSettled /\ [Next]_vars => RowsSettled'
  <2> SUFFICES ASSUME TypeOK, RowsSettled, [Next]_vars PROVE RowsSettled'
    BY Zenon
  <2>1. CASE UNCHANGED ledger
    BY <2>1, Zenon DEF RowsSettled
  <2>2. ASSUME NEW op \in Op, Writes(op) PROVE RowsSettled'
    BY <2>2, Zenon DEF Writes, RowChange, RowsSettled
  <2>3. CASE (\E r \in Runtime, op \in Op : SendRequest(r, op)) \/ ConnectorStep
    BY <2>1, <2>3 DEF SendRequest, ConnectorStep, ConnectorApplies, ConnectorRejects,
                      ConnectorUnchanged
  <2> QED
    BY <2>1, <2>2, <2>3, StepShape DEF Reads
<1> QED
  BY <1>1, <1>2, TypeCorrect, PTL DEF Spec

(* What a row means to the callers of the ledger. *)
Phase(row) ==
    CASE row.status \in {"committed", "delivered"} -> "confirmed"
      [] row.status \in {"failed", "conflict", "interrupted"} -> "rejected"
      [] OTHER -> "open"

Phases == [op \in Op |-> Phase(ledger[op])]

promised == <<Phases, sent, journal>>

(* The UPDATE of a row confirms, rejects, or does not show. *)
LEMMA WritesKeepPromise ==
    ASSUME TypeOK, IInv', RowsSettled, NEW op \in Op, Writes(op)
    PROVE  Promise!Next \/ UNCHANGED promised
<1>0. /\ \A o \in Op \ {op} : Phase(ledger'[o]) = Phase(ledger[o])
      /\ UNCHANGED <<sent, journal>>
  BY Zenon DEF Writes
<1>1. CASE Phase(ledger'[op]) = Phase(ledger[op])
  <2>1. Phases' = Phases
    BY <1>0, <1>1, Zenon DEF Phases
  <2> QED
    BY <1>0, <2>1, Zenon DEF promised
<1>2. CASE Phase(ledger'[op]) # Phase(ledger[op])
  <2>1. /\ Phase(ledger[op]) = "open"
        /\ \/ Phase(ledger'[op]) = "confirmed" /\ ledger'[op].commit = "applied"
           \/ Phase(ledger'[op]) = "rejected" /\ ledger'[op].status = "failed"
    BY <1>2, Zenon DEF Writes, RowChange, CanTransitionTo, Phase
  <2>2. journal[op] \in {"none", "applied"}
    BY Zenon DEF TypeOK
  <2>3. CASE Phase(ledger'[op]) = "confirmed" /\ ledger'[op].commit = "applied"
    <3>1. journal[op] = "applied"
      BY <1>0, <2>3, Zenon DEF IInv, AppliedIsTrue
    <3>2. Phases' = [Phases EXCEPT ![op] = "confirmed"]
      BY <1>0, <2>3, Zenon DEF Phases
    <3>3. Promise!Confirm(op)
      BY <1>0, <2>1, <3>1, <3>2, Zenon DEF Promise!Confirm, Phases, Phase
    <3> QED
      BY <3>3, Zenon DEF Promise!Next
  <2>4. CASE Phase(ledger'[op]) = "rejected" /\ ledger'[op].status = "failed"
    <3>1. journal[op] = "none"
      BY <1>0, <2>2, <2>4, Zenon DEF IInv, FailedIsFinal
    <3>2. Phases' = [Phases EXCEPT ![op] = "rejected"]
      BY <1>0, <2>4, Zenon DEF Phases
    <3>3. Promise!Reject(op)
      BY <1>0, <2>1, <3>1, <3>2, Zenon DEF Promise!Reject, Phases, Phase
    <3> QED
      BY <3>3, Zenon DEF Promise!Next
  <2> QED
    BY <2>1, <2>3, <2>4
<1> QED
  BY <1>1, <1>2, Zenon, Zenon

(* A request that leaves is the first of its operation. *)
LEMMA SendKeepsPromise ==
    ASSUME IInv, NEW r \in Runtime, NEW op \in Op, SendRequest(r, op)
    PROVE  Promise!Next
<1>1. ledger[op].status = "committing" /\ sent[op] = 0
  BY Zenon DEF SendRequest, IInv, OneSender, Sending
<1>2. UNCHANGED <<ledger, journal>> /\ sent' = [sent EXCEPT ![op] = 1]
  BY <1>1 DEF SendRequest
<1>3. Phase(ledger[op]) = "open"
  BY <1>1, Zenon DEF Phase
<1>4. Promise!Issue(op)
  BY <1>1, <1>2, <1>3, Zenon DEF Promise!Issue, Phase
<1> QED
  BY <1>4, Zenon DEF Promise!Next

(* The Connector applies only what is on its way and not settled. *)
LEMMA ConnectorKeepsPromise ==
    ASSUME IInv, RowsSettled, ConnectorStep
    PROVE  Promise!Next \/ UNCHANGED promised
<1>1. PICK m \in requests : ConnectorApplies(m) \/ ConnectorRejects(m)
  BY Zenon DEF ConnectorStep
<1>2. UNCHANGED <<ledger, sent>>
  BY <1>1, Zenon DEF ConnectorApplies, ConnectorRejects, ConnectorUnchanged
<1>3. Phases' = Phases
  BY <1>2, Zenon DEF Phases
<1>4. CASE ConnectorRejects(m)
  BY <1>2, <1>3, <1>4, Zenon DEF ConnectorRejects, promised
<1>5. CASE ConnectorApplies(m)
  <2>1. PICK r \in Runtime, op \in Op : m = Request(r, op)
    BY Zenon DEF IInv, TypeOK, Request
  <2>2. journal[op] = "none" /\ sent[op] # 0
    BY <1>1, <2>1, Zenon DEF IInv, RequestAccounted, Accounted
  <2>3. sent[op] = 1
    <3>1. sent[op] \in Nat
      BY Zenon DEF IInv, TypeOK
    <3>2. sent[op] <= 1
      BY Zenon DEF IInv, AtMostOneRequest
    <3> QED
      BY <2>2, <3>1, <3>2
  <2>4. Phase(ledger[op]) = "open"
    BY <1>1, <2>1, <2>2, Zenon DEF IInv, AppliedIsTrue, FailedIsFinal, RowsSettled, Phase
  <2>5. journal' = [journal EXCEPT ![op] = "applied"]
    BY <1>5, <2>1, Zenon DEF ConnectorApplies, Request
  <2>6. Promise!TakeEffect(op)
    BY <1>2, <1>3, <2>2, <2>3, <2>4, <2>5, Zenon DEF Promise!TakeEffect, Phase, Phases
  <2> QED
    BY <2>6, Zenon DEF Promise!Next
<1> QED
  BY <1>1, <1>4, <1>5, Zenon

(* THEOREM: the ledger with its coordinator, recovery passes, lost messages  *)
(* and crashes implements OperationPromise: one request, an effect only      *)
(* after it, a confirmation only after the effect, and a final rejection.    *)
THEOREM LedgerKeepsPromise == Spec => KeepsPromise
<1>1. Init => Promise!Init
  BY DEF Init, AbsentRow, Promise!Init
<1>2. IInv /\ RowsSettled /\ IInv' /\ [Next]_vars => [Promise!Next]_promised
  <2> SUFFICES ASSUME IInv, RowsSettled, IInv', [Next]_vars
               PROVE  Promise!Next \/ UNCHANGED promised
    BY Zenon
  <2>1. TypeOK
    BY Zenon DEF IInv
  <2>2. CASE Reads
    BY <2>2 DEF Reads, promised, Phases
  <2> QED
    BY <2>1, <2>2, StepShape, WritesKeepPromise, SendKeepsPromise, ConnectorKeepsPromise
<1> QED
  BY <1>1, <1>2, InductiveInvariant, RowsSettledInvariant, PTL
     DEF Spec, KeepsPromise, Promise!Spec, Promise!promiseVars, promised, Phases, Phase
=============================================================================
