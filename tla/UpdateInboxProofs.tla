-------------------------- MODULE UpdateInboxProofs --------------------------
(* Proofs about UpdateInbox, for every number of updates, chats and faults.   *)
EXTENDS UpdateInbox, TLAPS

(* A step that touches neither an offset nor the batch, and deletes no row.   *)
Quiet ==
    /\ UNCHANGED <<durable, offset, acked, batch>>
    /\ phase = "persist" => phase' = "persist"
    /\ \A u \in Update : status[u] # "absent" => status'[u] # "absent"

(* The next offset exists and covers the batch: max(offset, last + 1).        *)
LEMMA CandidateExists ==
    ASSUME TypeOK, BatchHasNoGap
    PROVE  /\ Candidate \in 0 .. NumUpdates
           /\ Candidate >= offset
           /\ \A u \in batch : Candidate > u
           /\ Candidate = offset \/ \E u \in batch : Candidate = u + 1
<1>. DEFINE Fits(n) == /\ n >= offset /\ \A u \in batch : n > u
                       /\ n = offset \/ \E u \in batch : n = u + 1
<1>1. PICK n \in 0 .. NumUpdates : batch = {u \in Update : acked <= u /\ u < n}
  BY Zenon DEF BatchHasNoGap
<1>2. \E m \in 0 .. NumUpdates : Fits(m)
  <2>1. CASE n <= offset \/ n <= acked
    <3>1. \A u \in batch : offset > u
      BY <1>1, <2>1, UpdateAssumption DEF TypeOK, Update
    <3>. QED BY <3>1 DEF TypeOK
  <2>2. CASE offset < n /\ acked < n
    <3>1. n - 1 \in batch /\ n = (n - 1) + 1
      BY <1>1, <2>2, UpdateAssumption DEF TypeOK, Update
    <3>2. \A u \in batch : n > u
      BY <1>1, UpdateAssumption, Zenon DEF Update
    <3>. QED BY <2>2, <3>1, <3>2, UpdateAssumption DEF TypeOK
  <2>. QED BY <2>1, <2>2, UpdateAssumption DEF TypeOK
<1>3. Candidate = CHOOSE m \in 0 .. NumUpdates : Fits(m)
  BY Zenon DEF Candidate
<1>4. Candidate \in 0 .. NumUpdates /\ Fits(Candidate)
  <2>. HIDE DEF Fits
  <2>. QED BY <1>2, <1>3, Zenon
<1>. QED BY <1>4, Zenon

(* The initial state: no update has arrived.                                  *)
LEMMA InitSafe == Init => TypeOK /\ OffsetInv
<1>. SUFFICES ASSUME Init PROVE TypeOK /\ OffsetInv
  BY Zenon
<1>. USE UpdateAssumption, InboxBounds
<1>1. queue \in [Worker -> SUBSET Update] /\ phase \in Phases
  BY Zenon DEF Init, NoWork, Phases
<1>2. TypeOK
  <2>1. timer \in BOOLEAN /\ owned \in BOOLEAN BY Zenon DEF Init
  <2>2. /\ status \in [Update -> {"absent", "received", "processing", "processed", "failed"}]
        /\ count \in [Update -> 0 .. MaxAttempts]
    BY DEF Init
  <2>3. 0 \in 0 .. NumUpdates /\ 0 \in Nat OBVIOUS
  <2>. QED BY <1>1, <2>1, <2>2, <2>3, Zenon DEF Init, TypeOK
<1>3. OffsetsFollowDurable /\ DurableHasRows /\ BatchOnlyInHand
  BY DEF Init, OffsetsFollowDurable, DurableHasRows, BatchOnlyInHand, Update
<1>4. BatchHasNoGap
  <2>1. batch = {u \in Update : acked <= u /\ u < 0}
    BY DEF Init, Update
  <2>. QED BY <2>1 DEF BatchHasNoGap
<1>. QED BY <1>2, <1>3, <1>4, Zenon DEF OffsetInv
------------------------------------------------------------------------------
(* The loop's own steps keep the types.                                       *)
LEMMA LoopType ==
    ASSUME TypeOK, BatchHasNoGap,
           Arrive \/ LoopStep \/ GetUpdatesFails \/ LoseOwnership \/ Crash \/ TimerElapses
    PROVE  TypeOK'
<1>. USE UpdateAssumption, InboxBounds
     DEF TypeOK, Phases, rowVars, workVars, faultVars, CrashFault
<1>1. CASE Arrive BY <1>1 DEF Arrive
<1>2. CASE Start BY <1>2, Zenon DEF Start
<1>3. CASE ResetProcessing BY <1>3, Zenon DEF ResetProcessing
<1>4. CASE LoopHead BY <1>4, Zenon DEF LoopHead
<1>5. CASE LeaveLoop BY <1>5, Zenon DEF LeaveLoop
<1>6. CASE GetUpdates BY <1>6, Zenon DEF GetUpdates, Larger
<1>7. CASE PersistBatch
  <2>1. Candidate \in 0 .. NumUpdates BY CandidateExists, Zenon
  <2>2. status' \in [Update -> {"absent", "received", "processing", "processed", "failed"}]
    BY <1>7, Zenon DEF PersistBatch, StoreBatch
  <2>3. queue' \in [Worker -> SUBSET Update]
    BY <1>7, Zenon DEF PersistBatch
  <2>4. durable' \in 0 .. NumUpdates /\ offset' \in 0 .. NumUpdates
    BY <1>7, <2>1, Zenon DEF PersistBatch, StoreBatch, Larger
  <2>. QED BY <1>7, <2>2, <2>3, <2>4, Zenon DEF PersistBatch
<1>8. CASE DrainDone BY <1>8, Zenon DEF DrainDone
<1>9. CASE GetUpdatesFails BY <1>9 DEF GetUpdatesFails, Larger
<1>10. CASE LoseOwnership
  <2>1. owned' \in BOOLEAN BY <1>10, Zenon DEF LoseOwnership
  <2>. QED BY <1>10, <2>1 DEF LoseOwnership
<1>11. CASE Crash
  <2>1. owned' \in BOOLEAN BY <1>11, Zenon DEF Crash
  <2>2. queue' \in [Worker -> SUBSET Update] BY <1>11, Zenon DEF Crash, NoWork
  <2>. QED BY <1>11, <2>1, <2>2 DEF Crash
<1>12. CASE TimerElapses BY <1>12, Zenon DEF TimerElapses
<1>. QED
  BY <1>1, <1>2, <1>3, <1>4, <1>5, <1>6, <1>7, <1>8, <1>9, <1>10, <1>11, <1>12, Zenon DEF LoopStep

(* The steps of the retries, the handlers and their storage errors keep the   *)
(* types; a claim never counts past MaxAttempts.                              *)
LEMMA WorkType ==
    ASSUME TypeOK, BatchHasNoGap,
           \/ PassStep \/ StorageStep
           \/ \E w \in Worker : HandlerStep(w)
           \/ \E u \in Update : BackoffElapses(u)
    PROVE  TypeOK'
<1>. USE UpdateAssumption, InboxBounds
     DEF TypeOK, Phases, rowVars, workVars, faultVars, StorageFault, RowUnchanged,
         AfterPass, TimerAfterPass, Done
<1>1. CASE ListPending BY <1>1, LoopAssumption, Zenon DEF ListPending, Pending, Worker
<1>2. CASE PassEnds BY <1>2, Zenon DEF PassEnds, NoWork
<1>3. ASSUME NEW u \in Update, Quarantine(u) PROVE TypeOK'
  <2>1. MaxAttempts \in 0 .. MaxAttempts OBVIOUS
  <2>2. count' \in [Update -> 0 .. MaxAttempts] BY <1>3, <2>1, Zenon DEF Quarantine
  <2>3. /\ status' \in [Update -> {"absent", "received", "processing", "processed", "failed"}]
        /\ queue' \in [Worker -> SUBSET Update]
    BY <1>3, Zenon DEF Quarantine, Worker
  <2>. QED BY <1>3, <2>2, <2>3, Zenon DEF Quarantine
<1>4. ASSUME NEW w \in Worker, NEW u \in Update, Claim(w, u) PROVE TypeOK'
  <2>1. count' \in [Update -> 0 .. MaxAttempts]
    BY <1>4 DEF Claim, Claimable
  <2>. QED BY <1>4, <2>1, Zenon DEF Claim
<1>5. ASSUME NEW w \in Worker, NEW u \in Update, SkipUnclaimed(w, u) PROVE TypeOK'
  BY <1>5, Zenon DEF SkipUnclaimed
<1>6. ASSUME NEW w \in Worker, NEW u \in Update, Processed(w, u) \/ Failed(w, u) PROVE TypeOK'
  BY <1>6 DEF Processed, Failed, Finish
<1>7. ASSUME NEW u \in Update, BackoffElapses(u) PROVE TypeOK'
  BY <1>7, Zenon DEF BackoffElapses
<1>8. CASE ResetFails BY <1>8 DEF ResetFails
<1>9. CASE ListFails
  <2>1. timer' \in BOOLEAN BY <1>9, Zenon DEF ListFails
  <2>2. phase' \in Phases BY <1>9, Zenon DEF ListFails
  <2>3. storage' \in Nat /\ crashes' \in Nat BY <1>9 DEF ListFails
  <2>. QED BY <1>9, <2>1, <2>2, <2>3, Zenon DEF ListFails
<1>10. CASE QuarantineFails
  <2>1. timer' \in BOOLEAN BY <1>10, Zenon DEF QuarantineFails
  <2>2. phase' \in Phases BY <1>10, Zenon DEF QuarantineFails
  <2>3. storage' \in Nat /\ crashes' \in Nat BY <1>10 DEF QuarantineFails
  <2>4. queue' \in [Worker -> SUBSET Update] BY <1>10, Zenon DEF QuarantineFails, NoWork
  <2>. QED BY <1>10, <2>1, <2>2, <2>3, <2>4, Zenon DEF QuarantineFails
<1>11. CASE PersistRolledBack BY <1>11 DEF PersistRolledBack
<1>12. CASE CommitNotAcknowledged
  <2>1. Candidate \in 0 .. NumUpdates BY CandidateExists, Zenon
  <2>2. /\ status' \in [Update -> {"absent", "received", "processing", "processed", "failed"}]
        /\ durable' \in 0 .. NumUpdates
    BY <1>12, <2>1, Zenon DEF CommitNotAcknowledged, StoreBatch, Larger
  <2>. QED BY <1>12, <2>2 DEF CommitNotAcknowledged
<1>13. ASSUME NEW w \in Worker, NEW u \in Update, ClaimFails(w, u) PROVE TypeOK'
  BY <1>13 DEF ClaimFails
<1>14. ASSUME NEW w \in Worker, NEW u \in Update, FailureNotStored(w, u) PROVE TypeOK'
  BY <1>14 DEF FailureNotStored
<1>15. ASSUME NEW w \in Worker, TaskPanics(w) PROVE TypeOK'
  BY <1>15 DEF TaskPanics
<1>. QED
  BY <1>1, <1>2, <1>3, <1>4, <1>5, <1>6, <1>7, <1>8, <1>9, <1>10, <1>11, <1>12, <1>13,
     <1>14, <1>15, Zenon
  DEF PassStep, HandlerStep, StorageStep

(* Every step keeps the types.                                                *)
LEMMA NextType == TypeOK /\ BatchHasNoGap /\ [Next]_vars => TypeOK'
<1>1. ASSUME TypeOK, BatchHasNoGap, Next PROVE TypeOK'
  BY <1>1, LoopType, WorkType, Zenon DEF Next
<1>2. ASSUME TypeOK, UNCHANGED vars PROVE TypeOK'
  BY <1>2, Zenon DEF TypeOK, vars
<1>. QED BY <1>1, <1>2, Zenon
------------------------------------------------------------------------------
(* Quiet steps keep the invariant of the offsets.                             *)
LEMMA QuietKeeps == OffsetInv /\ Quiet => OffsetInv'
BY Zenon DEF OffsetInv, Quiet, OffsetsFollowDurable, DurableHasRows, BatchHasNoGap, BatchOnlyInHand

(* The handlers, the retries, time and ownership are quiet.                   *)
LEMMA QuietSteps ==
    ASSUME TypeOK,
           \/ Arrive \/ ResetProcessing \/ LoopHead \/ LeaveLoop \/ DrainDone
           \/ PassStep \/ TimerElapses \/ LoseOwnership
           \/ ResetFails \/ ListFails \/ QuarantineFails
           \/ \E w \in Worker, u \in Update : ClaimFails(w, u) \/ FailureNotStored(w, u)
           \/ \E w \in Worker : TaskPanics(w) \/ HandlerStep(w)
           \/ \E u \in Update : BackoffElapses(u)
    PROVE  Quiet
<1>. USE DEF TypeOK, Quiet, rowVars, AfterPass, RowUnchanged
<1>1. CASE Arrive \/ ResetProcessing \/ LoopHead \/ LeaveLoop \/ DrainDone
  BY <1>1, Zenon DEF Arrive, ResetProcessing, LoopHead, LeaveLoop, DrainDone
<1>2. CASE PassStep \/ TimerElapses \/ LoseOwnership
  BY <1>2, Zenon DEF PassStep, ListPending, PassEnds, Quarantine, TimerElapses, LoseOwnership
<1>3. CASE ResetFails \/ ListFails \/ QuarantineFails
  BY <1>3, Zenon DEF ResetFails, ListFails, QuarantineFails
<1>4. ASSUME NEW w \in Worker, NEW u \in Update, ClaimFails(w, u) \/ FailureNotStored(w, u)
      PROVE  Quiet
  BY <1>4, Zenon DEF ClaimFails, FailureNotStored
<1>5. ASSUME NEW w \in Worker, TaskPanics(w) PROVE Quiet
  BY <1>5, Zenon DEF TaskPanics
<1>6. ASSUME NEW w \in Worker, HandlerStep(w) PROVE Quiet
  BY <1>6, Zenon DEF HandlerStep, Claim, SkipUnclaimed, Processed, Failed, Finish
<1>7. ASSUME NEW u \in Update, BackoffElapses(u) PROVE Quiet
  BY <1>7, Zenon DEF BackoffElapses
<1>. QED BY <1>1, <1>2, <1>3, <1>4, <1>5, <1>6, <1>7, Zenon

(* The transaction: every update below the new durable offset has a row,      *)
(* because the batch has no gap above the offset Telegram remembers.          *)
LEMMA StoreKeepsRows ==
    ASSUME TypeOK, OffsetInv, StoreBatch
    PROVE  DurableHasRows' /\ durable <= durable' /\ Candidate <= durable'
<1>. USE UpdateAssumption DEF TypeOK, OffsetInv
<1>1. /\ Candidate \in 0 .. NumUpdates
      /\ Candidate = offset \/ \E u \in batch : Candidate = u + 1
  BY CandidateExists, Zenon
<1>2. durable' = IF durable < Candidate THEN Candidate ELSE durable
  BY Zenon DEF StoreBatch, Larger
<1>3. durable <= durable' /\ Candidate <= durable'
  BY <1>1, <1>2
<1>4. ASSUME NEW u \in Update, u < durable' PROVE status'[u] # "absent"
  <2>1. CASE u < durable
    BY <2>1, Zenon DEF StoreBatch, DurableHasRows
  <2>2. CASE durable <= u
    <3>1. PICK v \in batch : Candidate = v + 1
      BY <1>1, <1>2, <1>4, <2>2 DEF OffsetsFollowDurable, Update
    <3>2. u <= v /\ acked <= u
      BY <1>1, <1>2, <1>4, <2>2, <3>1 DEF OffsetsFollowDurable, Update
    <3>3. u \in batch
      BY <3>1, <3>2 DEF BatchHasNoGap, Update
    <3>. QED BY <3>3, Zenon DEF StoreBatch
  <2>. QED BY <1>2, <1>1, <2>1, <2>2 DEF Update
<1>. QED BY <1>3, <1>4, Zenon DEF DurableHasRows

(* A batch that was dropped or stored leaves none in hand.                    *)
LEMMA EmptyBatch ==
    ASSUME batch' = {}
    PROVE  BatchHasNoGap' /\ BatchOnlyInHand'
<1>1. batch' = {u \in Update : acked' <= u /\ u < 0}
  BY UpdateAssumption DEF Update
<1>. QED BY <1>1, UpdateAssumption DEF BatchHasNoGap, BatchOnlyInHand

(* The steps that move an offset or the batch keep the invariant.             *)
LEMMA OffsetSteps ==
    ASSUME TypeOK, OffsetInv,
           \/ Start \/ GetUpdates \/ GetUpdatesFails \/ Crash
           \/ PersistBatch \/ PersistRolledBack \/ CommitNotAcknowledged
    PROVE  OffsetInv'
<1>. USE UpdateAssumption DEF TypeOK, OffsetInv, rowVars
<1>1. CASE Start
  BY <1>1 DEF Start, OffsetsFollowDurable, DurableHasRows, BatchHasNoGap, BatchOnlyInHand
<1>2. CASE GetUpdates
  <2>1. OffsetsFollowDurable' /\ DurableHasRows' /\ BatchOnlyInHand'
    BY <1>2, Zenon DEF GetUpdates, Larger, OffsetsFollowDurable, DurableHasRows, BatchOnlyInHand
  <2>2. PICK n \in acked' .. arrived : batch' = {u \in Update : acked' <= u /\ u < n}
    BY <1>2, Zenon DEF GetUpdates
  <2>3. n \in 0 .. NumUpdates
    BY <1>2, <2>2 DEF GetUpdates, Larger
  <2>4. BatchHasNoGap'
    BY <2>2, <2>3, Zenon DEF BatchHasNoGap
  <2>. QED BY <2>1, <2>4, Zenon
<1>3. CASE GetUpdatesFails
  <2>1. OffsetsFollowDurable' /\ DurableHasRows'
    BY <1>3, Zenon DEF GetUpdatesFails, Larger, OffsetsFollowDurable, DurableHasRows
  <2>2. batch' = {}
    BY <1>3, Zenon DEF GetUpdatesFails, BatchOnlyInHand
  <2>. QED BY <2>1, <2>2, EmptyBatch, Zenon
<1>4. CASE Crash
  BY <1>4, EmptyBatch, Zenon DEF Crash, OffsetsFollowDurable, DurableHasRows
<1>5. CASE PersistBatch
  <2>1. DurableHasRows' /\ durable <= durable' /\ Candidate <= durable'
    BY <1>5, StoreKeepsRows, Zenon DEF PersistBatch
  <2>2. Candidate \in 0 .. NumUpdates
    BY CandidateExists, Zenon
  <2>3. durable' \in Nat
    BY <1>5, <2>2 DEF PersistBatch, StoreBatch, Larger
  <2>4. OffsetsFollowDurable'
    BY <1>5, <2>1, <2>2, <2>3 DEF PersistBatch, OffsetsFollowDurable
  <2>. QED BY <1>5, <2>1, <2>4, EmptyBatch, Zenon DEF PersistBatch
<1>6. CASE PersistRolledBack
  BY <1>6, EmptyBatch, Zenon DEF PersistRolledBack, OffsetsFollowDurable, DurableHasRows
<1>7. CASE CommitNotAcknowledged
  <2>1. DurableHasRows' /\ durable <= durable'
    BY <1>7, StoreKeepsRows, Zenon DEF CommitNotAcknowledged
  <2>2. durable' \in Nat
    BY <1>7, CandidateExists DEF CommitNotAcknowledged, StoreBatch, Larger
  <2>3. OffsetsFollowDurable'
    BY <1>7, <2>1, <2>2 DEF CommitNotAcknowledged, OffsetsFollowDurable
  <2>. QED BY <1>7, <2>1, <2>3, EmptyBatch, Zenon DEF CommitNotAcknowledged
<1>. QED BY <1>1, <1>2, <1>3, <1>4, <1>5, <1>6, <1>7, Zenon

(* Every step keeps the invariant of the offsets.                             *)
LEMMA NextSafe == TypeOK /\ OffsetInv /\ [Next]_vars => OffsetInv'
<1>1. ASSUME TypeOK, OffsetInv, Next PROVE OffsetInv'
  BY <1>1, QuietSteps, QuietKeeps, OffsetSteps, Zenon DEF Next, LoopStep, StorageStep
<1>2. ASSUME OffsetInv, UNCHANGED vars PROVE OffsetInv'
  BY <1>2, QuietKeeps, Zenon DEF vars, Quiet
<1>. QED BY <1>1, <1>2, Zenon
------------------------------------------------------------------------------
(* The inductive invariant of poll_telegram_bot_at and persist_update_batch:  *)
(* the loop's offset and the one Telegram has seen follow the durable one.    *)
THEOREM OffsetInvariant == Spec => [](TypeOK /\ OffsetInv)
<1>1. OffsetInv => BatchHasNoGap BY Zenon DEF OffsetInv
<1>2. TypeOK /\ OffsetInv /\ [Next]_vars => TypeOK' /\ OffsetInv'
  BY <1>1, NextType, NextSafe, Zenon
<1>. QED BY <1>2, InitSafe, PTL DEF Spec

(* The types of the inbox; attempt_count never exceeds the bound of the claim. *)
THEOREM TypeCorrect == Spec => []TypeOK
BY OffsetInvariant, PTL

(* No update that Telegram may forget is missing from telegram_updates,       *)
(* whatever crashes, rolled-back batches, lost answers and lost               *)
(* acknowledgements happen between getUpdates and the next request.           *)
THEOREM UpdatesAreNotLost == Spec => []NoUpdateLost
<1>1. TypeOK /\ OffsetInv => NoUpdateLost
  BY UpdateAssumption DEF TypeOK, OffsetInv, OffsetsFollowDurable, DurableHasRows, NoUpdateLost, Update
<1>. QED BY <1>1, OffsetInvariant, PTL
------------------------------------------------------------------------------
(* The lists in hand: between passes and batches there are none, a pass has   *)
(* only the loop's, a batch one per chat, and none names a processed update.  *)
NoLists == \A w \in Worker : queue[w] = {}
ListsByPhase ==
    /\ phase \notin {"work0", "work", "drain"} => NoLists
    /\ phase \in {"work0", "work"} => \A c \in Chat : queue[c] = {}
    /\ phase = "drain" => queue[Loop] = {}
ListsByChat == \A c \in Chat : \A u \in queue[c] : ChatOf[u] = c
NothingDoneListed == \A w \in Worker : \A u \in queue[w] : status[u] # "processed"
ListInv == ListsByPhase /\ ListsByChat /\ NothingDoneListed

(* No update is in two lists.                                                 *)
LEMMA ListedOnce ==
    ASSUME TypeOK, ListInv, NEW w \in Worker, NEW v \in Worker, NEW u \in queue[w], u \in queue[v]
    PROVE  w = v
<1>1. \A x \in Worker : x \in Chat \/ x = Loop BY Zenon DEF Worker
<1>2. CASE w \in Chat /\ v \in Chat BY <1>2, Zenon DEF ListInv, ListsByChat
<1>3. CASE w = Loop /\ v \in Chat BY <1>3, Zenon DEF ListInv, ListsByPhase, NoLists, TypeOK, Phases
<1>4. CASE w \in Chat /\ v = Loop BY <1>4, Zenon DEF ListInv, ListsByPhase, NoLists, TypeOK, Phases
<1>. QED BY <1>1, <1>2, <1>3, <1>4, Zenon

(* Steps that leave phase and lists alone and process nothing.                *)
Settled == \A u \in Update : status'[u] = "processed" <=> status[u] = "processed"
LEMMA ListsKept ==
    ASSUME TypeOK, ListInv, Settled, UNCHANGED <<phase, queue>>
    PROVE  ListInv'
BY Zenon DEF TypeOK, ListInv, ListsByPhase, NoLists, ListsByChat, NothingDoneListed, Settled

(* Steps that empty every list.                                               *)
LEMMA ListsEmptied ==
    ASSUME NoLists'
    PROVE  ListInv'
BY Zenon DEF ListInv, ListsByPhase, NoLists, ListsByChat, NothingDoneListed, Worker

(* Steps that shorten the list of one worker, having settled its first entry. *)
LEMMA ListShortened ==
    ASSUME TypeOK, ListInv, NEW w \in Worker, NEW u \in queue[w], Done(w, u), UNCHANGED phase,
           \A v \in Update \ {u} : status'[v] = status[v]
    PROVE  ListInv'
<1>1. /\ queue'[w] = queue[w] \ {u}
      /\ \A x \in Worker \ {w} : queue'[x] = queue[x]
  BY Zenon DEF TypeOK, Done
<1>2. \A x \in Worker : queue'[x] \subseteq queue[x] /\ u \notin queue'[x]
  BY <1>1, ListedOnce, Zenon
<1>3. Loop \in Worker /\ Chat \subseteq Worker BY Zenon DEF Worker
<1>4. ListsByPhase' BY <1>2, <1>3, Zenon DEF ListInv, ListsByPhase, NoLists
<1>5. ListsByChat' BY <1>2, <1>3, Zenon DEF ListInv, ListsByChat
<1>6. NothingDoneListed' BY <1>2, Zenon DEF ListInv, NothingDoneListed, TypeOK
<1>. QED BY <1>4, <1>5, <1>6, Zenon DEF ListInv

(* The steps of the loop between passes and batches have no lists in hand.    *)
LEMMA LoopLists ==
    ASSUME TypeOK, ListInv,
           \/ Start \/ ResetProcessing \/ ResetFails \/ ListFails \/ LoopHead \/ LeaveLoop
           \/ GetUpdates \/ GetUpdatesFails \/ PersistRolledBack \/ CommitNotAcknowledged
           \/ DrainDone \/ PassEnds \/ QuarantineFails \/ Crash
    PROVE  ListInv'
<1>1. CASE PassEnds \/ QuarantineFails \/ Crash
  <2>1. queue' = NoWork BY <1>1, Zenon DEF PassEnds, QuarantineFails, Crash
  <2>2. NoLists' BY <2>1, Zenon DEF NoWork, NoLists
  <2>. QED BY <2>2, ListsEmptied, Zenon
<1>2. CASE DrainDone
  <2>1. queue' = NoWork BY <1>2, Zenon DEF DrainDone, workVars
  <2>2. NoLists' BY <2>1, Zenon DEF NoWork, NoLists
  <2>. QED BY <2>2, ListsEmptied, Zenon
<1>3. CASE \/ Start \/ ResetProcessing \/ ResetFails \/ ListFails \/ LoopHead \/ LeaveLoop
           \/ GetUpdates \/ GetUpdatesFails \/ PersistRolledBack \/ CommitNotAcknowledged
  <2>1. phase \notin {"work0", "work", "drain"} /\ queue' = queue
    BY <1>3, Zenon DEF Start, ResetProcessing, ResetFails, ListFails, LoopHead, LeaveLoop, GetUpdates,
                GetUpdatesFails, PersistRolledBack, CommitNotAcknowledged, workVars
  <2>2. NoLists' BY <2>1, Zenon DEF ListInv, ListsByPhase, NoLists
  <2>. QED BY <2>2, ListsEmptied, Zenon
<1>. QED BY <1>1, <1>2, <1>3, Zenon

(* The two steps that make lists take no processed update into them.          *)
LEMMA NewLists ==
    ASSUME TypeOK, ListInv, ListPending \/ PersistBatch
    PROVE  ListInv'
<1>1. CASE ListPending
  <2>1. NoLists BY <1>1, Zenon DEF ListPending, ListInv, ListsByPhase
  <2>2. queue'[Loop] = Pending /\ \A c \in Chat : queue'[c] = {}
    BY <1>1, <2>1, LoopAssumption, Zenon DEF ListPending, TypeOK, NoLists, Worker
  <2>3. status' = status /\ phase' \in {"work0", "work"}
    BY <1>1, Zenon DEF ListPending, rowVars
  <2>4. \A u \in Pending : status[u] # "processed" BY Zenon DEF Pending, Claimable
  <2>. QED BY <2>2, <2>3, <2>4, Zenon
       DEF ListInv, ListsByPhase, ListsByChat, NothingDoneListed, NoLists, Worker
<1>2. CASE PersistBatch
  <2>1. /\ queue'[Loop] = {}
        /\ \A c \in Chat : queue'[c] =
              {u \in batch : ChatOf[u] = c /\ status[u] \in {"absent", "received", "failed"}}
    BY <1>2, LoopAssumption, Zenon DEF PersistBatch, Worker
  <2>2. phase' = "drain" BY <1>2, Zenon DEF PersistBatch
  <2>3. \A u \in batch : status[u] # "processed" => status'[u] # "processed"
    BY <1>2, Zenon DEF PersistBatch, StoreBatch, TypeOK
  <2>4. NothingDoneListed' BY <2>1, <2>3, Zenon DEF NothingDoneListed, Worker
  <2>. QED BY <2>1, <2>2, <2>4, Zenon DEF ListInv, ListsByPhase, ListsByChat
<1>. QED BY <1>1, <1>2, Zenon

(* The steps of the handlers and of the quarantine.                           *)
LEMMA WorkLists ==
    ASSUME TypeOK, ListInv,
           \/ \E u \in Update : Quarantine(u)
           \/ \E w \in Worker : HandlerStep(w) \/ TaskPanics(w)
           \/ \E w \in Worker, u \in Update : ClaimFails(w, u) \/ FailureNotStored(w, u)
    PROVE  ListInv'
<1>1. ASSUME NEW u \in Update, Quarantine(u) PROVE ListInv'
  <2>1. \A v \in Update \ {u} : status'[v] = status[v] BY <1>1, Zenon DEF Quarantine, TypeOK
  <2>2. Loop \in Worker BY Zenon DEF Worker
  <2>. QED BY <1>1, <2>1, <2>2, ListShortened, Zenon DEF Quarantine, IsNext
<1>2. ASSUME NEW w \in Worker, NEW u \in Update, Claim(w, u) PROVE ListInv'
  <2>1. Settled BY <1>2, Zenon DEF Claim, Claimable, Settled, TypeOK
  <2>. QED BY <1>2, <2>1, ListsKept, Zenon DEF Claim, RowUnchanged
<1>3. ASSUME NEW w \in Worker, NEW u \in Update,
             SkipUnclaimed(w, u) \/ Processed(w, u) \/ Failed(w, u)
                \/ ClaimFails(w, u) \/ FailureNotStored(w, u)
      PROVE  ListInv'
  <2>1. \A v \in Update \ {u} : status'[v] = status[v]
    BY <1>3, Zenon DEF SkipUnclaimed, Processed, Failed, Finish, ClaimFails, FailureNotStored, rowVars, TypeOK
  <2>2. u \in queue[w] /\ Done(w, u) /\ UNCHANGED phase
    BY <1>3, Zenon DEF SkipUnclaimed, Processed, Failed, Finish, ClaimFails, FailureNotStored, MayTake,
                IsNext, RowUnchanged
  <2>. QED BY <2>1, <2>2, ListShortened, Zenon
<1>4. ASSUME NEW w \in Worker, TaskPanics(w) PROVE ListInv'
  <2>1. \A x \in Worker : queue'[x] \subseteq queue[x] BY <1>4, Zenon DEF TaskPanics, TypeOK
  <2>2. status' = status /\ phase' = phase BY <1>4, Zenon DEF TaskPanics, rowVars, RowUnchanged
  <2>3. Loop \in Worker /\ Chat \subseteq Worker BY Zenon DEF Worker
  <2>. QED BY <2>1, <2>2, <2>3, Zenon
       DEF ListInv, ListsByPhase, ListsByChat, NothingDoneListed, NoLists
<1>. QED BY <1>1, <1>2, <1>3, <1>4, Zenon DEF HandlerStep

(* Every step keeps the lists free of processed updates.                      *)
LEMMA NextLists == TypeOK /\ ListInv /\ [Next]_vars => ListInv'
<1>1. ASSUME TypeOK, ListInv, Arrive \/ LoseOwnership \/ TimerElapses \/ \E u \in Update : BackoffElapses(u)
      PROVE  ListInv'
  <2>1. Settled /\ UNCHANGED <<phase, queue>>
    BY <1>1, Zenon DEF Arrive, LoseOwnership, TimerElapses, BackoffElapses, Settled, rowVars, workVars
  <2>. QED BY <1>1, <2>1, ListsKept, Zenon
<1>2. ASSUME TypeOK, ListInv, Next PROVE ListInv'
  BY <1>1, <1>2, LoopLists, NewLists, WorkLists, Zenon DEF Next, LoopStep, PassStep, StorageStep
<1>3. ASSUME TypeOK, ListInv, UNCHANGED vars PROVE ListInv'
  <2>1. Settled /\ UNCHANGED <<phase, queue>> BY <1>3, Zenon DEF vars, Settled
  <2>. QED BY <1>3, <2>1, ListsKept, Zenon
<1>. QED BY <1>2, <1>3, Zenon

(* No step takes a processed update back.                                     *)
LEMMA NextFinal ==
    ASSUME TypeOK, ListInv, [Next]_vars, NEW u \in Update, status[u] = "processed"
    PROVE  status'[u] = "processed"
<1>. USE DEF TypeOK, rowVars
<1>1. CASE LoopStep \/ GetUpdatesFails \/ LoseOwnership \/ Crash \/ TimerElapses \/ Arrive
  BY <1>1, Zenon DEF LoopStep, Start, ResetProcessing, LoopHead, LeaveLoop, GetUpdates, PersistBatch,
              StoreBatch, DrainDone, GetUpdatesFails, LoseOwnership, Crash, TimerElapses, Arrive
<1>2. CASE ResetFails \/ ListFails \/ QuarantineFails \/ PersistRolledBack \/ CommitNotAcknowledged
  BY <1>2, Zenon DEF ResetFails, ListFails, QuarantineFails, PersistRolledBack, CommitNotAcknowledged, StoreBatch
<1>3. CASE PassStep BY <1>3, Zenon DEF PassStep, ListPending, PassEnds, Quarantine
<1>4. ASSUME NEW w \in Worker, NEW v \in Update,
             \/ Claim(w, v) \/ SkipUnclaimed(w, v) \/ Processed(w, v) \/ Failed(w, v)
             \/ ClaimFails(w, v) \/ FailureNotStored(w, v)
      PROVE  status'[u] = "processed"
  <2>1. v \in queue[w]
    BY <1>4, Zenon DEF Claim, SkipUnclaimed, Processed, Failed, Finish, ClaimFails, FailureNotStored, MayTake, IsNext
  <2>2. v # u BY <2>1, Zenon DEF ListInv, NothingDoneListed
  <2>. QED BY <1>4, <2>2, Zenon DEF Claim, SkipUnclaimed, Processed, Failed, Finish, ClaimFails, FailureNotStored
<1>5. ASSUME NEW w \in Worker, TaskPanics(w) PROVE status'[u] = "processed" BY <1>5, Zenon DEF TaskPanics
<1>6. ASSUME NEW v \in Update, BackoffElapses(v) PROVE status'[u] = "processed" BY <1>6, Zenon DEF BackoffElapses
<1>7. CASE UNCHANGED vars BY <1>7, Zenon DEF vars
<1>. QED BY <1>1, <1>2, <1>3, <1>4, <1>5, <1>6, <1>7, Zenon DEF Next, StorageStep, HandlerStep

(* mark_update_processed is final: neither the reset at startup, nor a retry, *)
(* nor the unconditional UPDATE of a failed handler takes a processed update  *)
(* back, because no list in hand ever names one.                              *)
THEOREM ProcessedStaysProcessed == Spec => ProcessedIsFinal
<1>1. Init => ListInv
  <2>1. Init => NoLists BY Zenon DEF Init, NoWork, NoLists
  <2>. QED BY <2>1, Zenon DEF ListInv, ListsByPhase, ListsByChat, NothingDoneListed, NoLists, Worker
<1>2. Spec => []ListInv
  BY <1>1, NextLists, TypeCorrect, PTL DEF Spec
<1>3. TypeOK /\ ListInv /\ [Next]_vars =>
        [\A u \in Update : status[u] = "processed" => status'[u] = "processed"]_vars
  BY NextFinal, Zenon
<1>. QED BY <1>2, <1>3, TypeCorrect, PTL DEF Spec, ProcessedIsFinal
------------------------------------------------------------------------------
(* A stored update nobody has tried yet.                                      *)
Untried(u) == status[u] # "absent" /\ count[u] = 0

(* Where the untried updates are: none once the loop is past its recovery, in *)
(* the list of the pass or of their chat while one is worked off.             *)
UntriedByPhase ==
    /\ phase \in {"list", "persist"} => \A u \in Update : ~Untried(u)
    /\ phase \in {"loop", "poll"} /\ owned => \A u \in Update : ~Untried(u)
    /\ phase \in {"work0", "work"} => \A u \in Update : Untried(u) => u \in queue[Loop]
    /\ phase = "drain" => \A u \in Update : Untried(u) => u \in queue[ChatOf[u]]

(* A row was stored by the transaction that moved the offset past it, and is  *)
(* `received` until its first attempt.                                        *)
RowsBelowDurable == \A u \in Update : status[u] # "absent" => u < durable
UntriedIsReceived == \A u \in Update :
    /\ Untried(u) => status[u] = "received"
    /\ status[u] = "absent" => count[u] = 0

(* A busy worker has claimed the first update of its list.                    *)
BusyHasClaimed ==
    /\ phase \notin {"work0", "work", "drain"} => busy = {}
    /\ \A w \in busy : \A u \in queue[w] :
          IsNext(w, u) => count[u] > 0 /\ (w = Loop => u \notin Damaged)

OrderInv ==
    storage = 0 /\ MaxAttempts > 0 =>
        /\ UntriedByPhase /\ RowsBelowDurable /\ UntriedIsReceived /\ BusyHasClaimed
        /\ FirstAttemptsInOrder

(* Steps that leave the rows, the lists and the busy workers as they are.     *)
LEMMA OrderKept ==
    ASSUME OrderInv, UNCHANGED <<count, queue, busy, storage>>,
           \A u \in Update : status'[u] = status[u],
           durable' = durable, UntriedByPhase => UntriedByPhase',
           phase' \notin {"work0", "work", "drain"} => busy' = {}
    PROVE  OrderInv'
BY Zenon DEF OrderInv, UntriedIsReceived, RowsBelowDurable, BusyHasClaimed, FirstAttemptsInOrder, Untried, IsNext

(* The steps of the loop that move between passes and batches.                *)
LEMMA LoopOrder ==
    ASSUME TypeOK, ListInv, OrderInv, storage' = 0, MaxAttempts > 0,
           \/ Arrive \/ Start \/ LoopHead \/ LeaveLoop \/ GetUpdates \/ DrainDone
           \/ GetUpdatesFails \/ LoseOwnership \/ TimerElapses
           \/ \E u \in Update : BackoffElapses(u)
    PROVE  OrderInv'
<1>1. /\ UNCHANGED <<count, queue, busy, status, durable, storage>>
      /\ phase' \notin {"work0", "work", "drain"} => busy' = {}
      /\ storage = 0
  BY Zenon DEF Arrive, Start, LoopHead, LeaveLoop, GetUpdates, DrainDone, GetUpdatesFails, CrashFault,
         LoseOwnership, TimerElapses, BackoffElapses, OrderInv, BusyHasClaimed, rowVars, workVars, faultVars
<1>2. \A u \in Update : Untried(u)' = Untried(u) BY <1>1, Zenon DEF Untried
<1>3. UntriedByPhase BY <1>1, Zenon DEF OrderInv
<1>4. CASE DrainDone
  <2>1. \A u \in Update : queue[ChatOf[u]] = {}
    BY <1>4, UpdateAssumption, Zenon DEF DrainDone, NoWork, Worker
  <2>2. \A u \in Update : ~Untried(u)
    BY <1>3, <1>4, <2>1, Zenon DEF DrainDone, UntriedByPhase
  <2>3. UntriedByPhase' BY <1>2, <1>4, <2>2, Zenon DEF DrainDone, UntriedByPhase
  <2>. QED BY <1>1, <2>3, OrderKept, Zenon
<1>5. CASE Arrive \/ TimerElapses \/ \E u \in Update : BackoffElapses(u)
  <2>1. phase' = phase /\ owned' = owned
    BY <1>5, Zenon DEF Arrive, TimerElapses, BackoffElapses
  <2>2. UntriedByPhase' BY <1>1, <1>2, <1>3, <2>1, Zenon DEF UntriedByPhase
  <2>. QED BY <1>1, <2>2, OrderKept, Zenon
<1>6. CASE Start \/ LoopHead \/ LeaveLoop \/ GetUpdates \/ GetUpdatesFails \/ LoseOwnership
  <2>1. UntriedByPhase'
    BY <1>1, <1>2, <1>3, <1>6, Zenon
    DEF Start, LoopHead, LeaveLoop, GetUpdates, GetUpdatesFails, LoseOwnership, UntriedByPhase
  <2>. QED BY <1>1, <2>1, OrderKept, Zenon
<1>. QED BY <1>4, <1>5, <1>6, Zenon

(* The startup reset, a crash and the two ends of a pass.                     *)
LEMMA PassOrder ==
    ASSUME TypeOK, ListInv, OrderInv, storage' = 0, MaxAttempts > 0,
           ResetProcessing \/ Crash \/ PassEnds \/ ListPending
    PROVE  OrderInv'
<1>1. UNCHANGED <<count, durable, storage>> /\ storage = 0
  BY Zenon DEF ResetProcessing, Crash, PassEnds, ListPending, CrashFault, rowVars, faultVars
<1>2. /\ UntriedByPhase /\ RowsBelowDurable /\ UntriedIsReceived /\ BusyHasClaimed
      /\ FirstAttemptsInOrder
  BY <1>1, Zenon DEF OrderInv
<1>3. \A u \in Update : /\ status'[u] = "absent" <=> status[u] = "absent"
                        /\ status[u] = "received" => status'[u] = "received"
  BY Zenon DEF ResetProcessing, Crash, PassEnds, ListPending, rowVars, TypeOK
<1>4. \A u \in Update : Untried(u)' = Untried(u) BY <1>1, <1>3, Zenon DEF Untried
<1>5. FirstAttemptsInOrder' /\ RowsBelowDurable' /\ UntriedIsReceived'
  BY <1>1, <1>2, <1>3, <1>4, Zenon DEF FirstAttemptsInOrder, RowsBelowDurable, UntriedIsReceived
<1>6. busy' = {}
  BY <1>2, Zenon DEF ResetProcessing, Crash, PassEnds, ListPending, BusyHasClaimed, workVars
<1>7. UntriedByPhase'
  <2>1. CASE ResetProcessing \/ Crash
    BY <2>1, Zenon DEF ResetProcessing, Crash, UntriedByPhase
  <2>2. CASE PassEnds
    BY <1>2, <1>4, <2>2, Zenon DEF PassEnds, AfterPass, UntriedByPhase
  <2>3. CASE ListPending
    <3>1. \A u \in Update : Untried(u) => u \in Pending
      BY <1>2, Zenon DEF UntriedIsReceived, Untried, Pending, Claimable
    <3>2. queue'[Loop] = Pending /\ phase' \in {"work0", "work"}
      BY <2>3, Zenon DEF ListPending, TypeOK, Worker
    <3>. QED BY <1>4, <3>1, <3>2, Zenon DEF UntriedByPhase
  <2>. QED BY <2>1, <2>2, <2>3, Zenon
<1>8. BusyHasClaimed' BY <1>6, Zenon DEF BusyHasClaimed
<1>. QED BY <1>5, <1>7, <1>8, Zenon DEF OrderInv

(* A stored batch: its new rows are in the lists of their chats.              *)
LEMMA BatchOrder ==
    ASSUME TypeOK, OffsetInv, ListInv, OrderInv, storage' = 0, MaxAttempts > 0, PersistBatch
    PROVE  OrderInv'
<1>1. UNCHANGED <<count, busy, storage>> /\ storage = 0 /\ phase = "persist" /\ phase' = "drain"
  BY Zenon DEF PersistBatch, faultVars
<1>2. /\ UntriedByPhase /\ RowsBelowDurable /\ UntriedIsReceived /\ BusyHasClaimed
      /\ FirstAttemptsInOrder
  BY <1>1, Zenon DEF OrderInv
<1>3. \A u \in Update :
         status'[u] = IF u \in batch /\ status[u] = "absent" THEN "received" ELSE status[u]
  BY Zenon DEF PersistBatch, StoreBatch
<1>4. FirstAttemptsInOrder' BY <1>1, <1>2, Zenon DEF FirstAttemptsInOrder
<1>5. RowsBelowDurable'
  <2>1. durable <= durable' /\ Candidate <= durable' BY StoreKeepsRows, Zenon DEF PersistBatch
  <2>2. Candidate \in 0 .. NumUpdates /\ \A u \in batch : Candidate > u
    BY CandidateExists, Zenon DEF OffsetInv
  <2>3. durable' \in Nat BY <2>2 DEF PersistBatch, StoreBatch, Larger, TypeOK
  <2>. QED BY <1>2, <1>3, <2>1, <2>2, <2>3, UpdateAssumption DEF RowsBelowDurable, TypeOK, Update
<1>6. UntriedIsReceived' BY <1>1, <1>2, <1>3, Zenon DEF UntriedIsReceived, Untried
<1>7. UntriedByPhase'
  <2>1. \A u \in Update : Untried(u)' => u \in batch /\ status[u] = "absent"
    BY <1>1, <1>2, <1>3, Zenon DEF UntriedByPhase, Untried
  <2>2. \A u \in Update : u \in batch /\ status[u] = "absent" => u \in queue'[ChatOf[u]]
    BY UpdateAssumption, LoopAssumption, Zenon DEF PersistBatch, Worker
  <2>. QED BY <1>1, <2>1, <2>2, Zenon DEF UntriedByPhase
<1>8. BusyHasClaimed' BY <1>1, <1>2, Zenon DEF BusyHasClaimed
<1>. QED BY <1>4, <1>5, <1>6, <1>7, <1>8, Zenon DEF OrderInv

(* A worker that takes the first update of its list tries it in order: every  *)
(* earlier update of the chat has a row, and would still be in the list.      *)
LEMMA TriedInOrder ==
    ASSUME TypeOK, OffsetInv, ListInv, OrderInv, storage = 0, MaxAttempts > 0,
           NEW w \in Worker, NEW v \in Update, IsNext(w, v), status[v] # "absent",
           phase \in {"work0", "work", "drain"},
           NEW u \in Update, u < v, ChatOf[u] = ChatOf[v]
    PROVE  count[u] > 0
<1>1. UntriedByPhase /\ RowsBelowDurable BY Zenon DEF OrderInv
<1>2. v \in queue[w] /\ \A x \in queue[w] : v <= x BY Zenon DEF IsNext
<1>3. status[u] # "absent"
  BY <1>1, UpdateAssumption DEF RowsBelowDurable, OffsetInv, DurableHasRows, TypeOK, Update
<1>4. ~Untried(u)
  <2>1. CASE phase \in {"work0", "work"}
    <3>1. w = Loop BY <1>2, <2>1, Zenon DEF ListInv, ListsByPhase, Worker
    <3>. QED BY <1>1, <1>2, <2>1, <3>1, UpdateAssumption DEF UntriedByPhase, Update
  <2>2. CASE phase = "drain"
    <3>1. w = ChatOf[v] BY <1>2, <2>2, Zenon DEF ListInv, ListsByPhase, ListsByChat, Worker
    <3>. QED BY <1>1, <1>2, <2>2, <3>1, UpdateAssumption DEF UntriedByPhase, Update
  <2>. QED BY <2>1, <2>2, Zenon
<1>. QED BY <1>3, <1>4, UpdateAssumption, InboxBounds DEF Untried, TypeOK

(* A step of a worker on the first update of its list, which has been tried   *)
(* when it leaves the list.                                                   *)
LEMMA WorkerOrder ==
    ASSUME TypeOK, OffsetInv, ListInv, OrderInv, storage = 0, MaxAttempts > 0,
           UNCHANGED <<durable, phase, owned, storage>>,
           NEW w \in Worker, NEW v \in Update, IsNext(w, v),
           phase \in {"work0", "work", "drain"},
           \A u \in Update \ {v} : status'[u] = status[u] /\ count'[u] = count[u],
           status'[v] # "absent" <=> status[v] # "absent",
           count'[v] \in 0 .. MaxAttempts, count[v] > 0 => count'[v] > 0,
           count'[v] > 0 => status[v] # "absent",
           count'[v] = 0 => status'[v] = status[v],
           \/ queue' = queue /\ busy' = busy \cup {w} /\ count'[v] > 0 /\ (w = Loop => v \notin Damaged)
           \/ Done(w, v) /\ busy' = busy \ {w} /\ (Untried(v) => count'[v] > 0)
    PROVE  OrderInv'
<1>1. /\ UntriedByPhase /\ RowsBelowDurable /\ UntriedIsReceived /\ BusyHasClaimed
      /\ FirstAttemptsInOrder
  BY Zenon DEF OrderInv
<1>2. /\ Loop \in Worker /\ \A u \in Update : ChatOf[u] \in Worker
      /\ \A x \in Worker \ {w} : queue'[x] = queue[x]
      /\ queue'[w] = queue[w] \/ queue'[w] = queue[w] \ {v}
  BY UpdateAssumption, Zenon DEF Worker, Done, TypeOK
<1>3. \A u \in Update : Untried(u)' => Untried(u)
  <2>1. count[v] \in 0 .. MaxAttempts BY Zenon DEF TypeOK
  <2>2. count'[v] = 0 => count[v] = 0 BY <2>1, InboxBounds
  <2>. QED BY <2>2, Zenon DEF Untried
<1>4. Untried(v)' => queue' = queue
  BY <1>3, InboxBounds DEF Untried
<1>5. UntriedByPhase'
  <2>1. \A u \in Update, x \in Worker : Untried(u)' /\ u \in queue[x] => u \in queue'[x]
    BY <1>2, <1>4, Zenon
  <2>. QED BY <1>1, <1>2, <1>3, <2>1, Zenon DEF UntriedByPhase
<1>6. RowsBelowDurable' BY <1>1, Zenon DEF RowsBelowDurable
<1>7. UntriedIsReceived'
  <2>1. \A u \in Update : Untried(u)' => status'[u] = "received"
    BY <1>1, <1>3, Zenon DEF UntriedIsReceived, Untried
  <2>2. \A u \in Update : status'[u] = "absent" => count'[u] = 0
    <3>1. status'[v] = "absent" => count'[v] = 0 BY InboxBounds
    <3>2. \A u \in Update \ {v} : status'[u] = "absent" => count'[u] = 0
      BY <1>1, Zenon DEF UntriedIsReceived
    <3>. QED BY <3>1, <3>2, Zenon
  <2>. QED BY <2>1, <2>2, Zenon DEF UntriedIsReceived
<1>8. BusyHasClaimed'
  <2>1. ASSUME NEW x \in busy', NEW u \in queue'[x], IsNext(x, u)'
        PROVE  count'[u] > 0 /\ (x = Loop => u \notin Damaged)
    <3>1. x \in Worker /\ u \in Update BY <1>2, <2>1, Zenon DEF TypeOK
    <3>2. CASE x # w
      <4>1. x \in busy /\ u \in queue[x] /\ IsNext(x, u)
        BY <1>2, <2>1, <3>1, <3>2, Zenon DEF IsNext
      <4>2. u # v BY <3>2, <4>1, ListedOnce, <3>1, Zenon DEF IsNext
      <4>. QED BY <1>1, <3>1, <4>1, <4>2, Zenon DEF BusyHasClaimed
    <3>3. CASE x = w
      <4>1. queue' = queue /\ count'[v] > 0 /\ (w = Loop => v \notin Damaged)
        BY <2>1, <3>3, Zenon
      <4>2. u = v
        BY <2>1, <3>1, <3>3, <4>1, UpdateAssumption DEF IsNext, Update
      <4>. QED BY <3>3, <4>1, <4>2, Zenon
    <3>. QED BY <3>2, <3>3, Zenon
  <2>. QED BY <2>1, Zenon DEF BusyHasClaimed
<1>9. FirstAttemptsInOrder'
  <2>1. ASSUME NEW u \in Update, NEW x \in Update, u < x, ChatOf[u] = ChatOf[x], count'[x] > 0
        PROVE  count'[u] > 0
    <3>1. CASE x # v BY <1>1, <2>1, <3>1, Zenon DEF FirstAttemptsInOrder
    <3>2. CASE x = v
      <4>1. u # v BY <2>1, <3>2, UpdateAssumption DEF Update
      <4>. QED BY <2>1, <3>2, <4>1, TriedInOrder, Zenon
    <3>. QED BY <3>1, <3>2, Zenon
  <2>. QED BY <2>1, Zenon DEF FirstAttemptsInOrder
<1>. QED BY <1>5, <1>6, <1>7, <1>8, <1>9, Zenon DEF OrderInv

(* The steps of the handlers and of the quarantine, when storage works.       *)
LEMMA WorkOrder ==
    ASSUME TypeOK, OffsetInv, ListInv, OrderInv, storage' = 0, MaxAttempts > 0,
           \/ \E u \in Update : Quarantine(u)
           \/ \E w \in Worker : HandlerStep(w)
    PROVE  OrderInv'
<1>. USE DEF RowUnchanged, faultVars, rowVars
<1>0. \A u \in Update : count[u] \in 0 .. MaxAttempts BY Zenon DEF TypeOK
<1>1. storage = 0
  BY ZenonT(30) DEF Quarantine, HandlerStep, Claim, SkipUnclaimed, Processed, Failed, Finish
<1>2. UntriedIsReceived /\ BusyHasClaimed BY <1>1, Zenon DEF OrderInv
<1>3. ASSUME NEW u \in Update, Quarantine(u) PROVE OrderInv'
  <2>1. Loop \notin busy BY <1>2, <1>3, Zenon DEF Quarantine, BusyHasClaimed, IsNext
  <2>2. /\ UNCHANGED <<durable, phase, owned, storage>>
        /\ Loop \in Worker /\ IsNext(Loop, u) /\ phase \in {"work0", "work", "drain"}
        /\ Done(Loop, u) /\ busy' = busy \ {Loop}
    BY <1>3, <2>1, Zenon DEF Quarantine, Worker, TypeOK
  <2>3. \A v \in Update \ {u} : status'[v] = status[v] /\ count'[v] = count[v]
    BY <1>3, Zenon DEF Quarantine, TypeOK
  <2>4. CASE status[u] \in {"received", "failed"}
    <3>1. status'[u] = "failed" /\ count'[u] = MaxAttempts BY <1>3, <2>4, Zenon DEF Quarantine, TypeOK
    <3>2. count'[u] \in 0 .. MaxAttempts /\ count'[u] > 0 BY <3>1, InboxBounds
    <3>. QED BY <1>1, <2>2, <2>3, <2>4, <3>1, <3>2, WorkerOrder
  <2>5. CASE status[u] \notin {"received", "failed"}
    <3>1. status'[u] = status[u] /\ count'[u] = count[u] BY <1>3, <2>5, Zenon DEF Quarantine, TypeOK
    <3>2. ~Untried(u) /\ (status[u] = "absent" => count[u] = 0)
      BY <1>2, <2>5, Zenon DEF UntriedIsReceived
    <3>3. count'[u] \in 0 .. MaxAttempts /\ (count'[u] > 0 => status[u] # "absent")
      BY <1>0, <3>1, <3>2
    <3>. QED BY <1>1, <2>2, <2>3, <3>1, <3>2, <3>3, WorkerOrder, Zenon
  <2>. QED BY <2>4, <2>5, Zenon
<1>4. ASSUME NEW w \in Worker, NEW u \in Update, Claim(w, u) PROVE OrderInv'
  <2>1. /\ UNCHANGED <<durable, phase, owned, storage, queue>> /\ busy' = busy \cup {w}
        /\ IsNext(w, u) /\ phase \in {"work0", "work", "drain"} /\ (w = Loop => u \notin Damaged)
    BY <1>4, Zenon DEF Claim, MayTake
  <2>2. \A v \in Update \ {u} : status'[v] = status[v] /\ count'[v] = count[v]
    BY <1>4, Zenon DEF Claim, TypeOK
  <2>3. status'[u] = "processing" /\ count'[u] = count[u] + 1 /\ count[u] < MaxAttempts
        /\ status[u] # "absent"
    BY <1>4, Zenon DEF Claim, Claimable, TypeOK
  <2>4. count'[u] \in 0 .. MaxAttempts /\ count'[u] > 0 /\ count'[u] # 0
    BY <1>0, <2>3, InboxBounds
  <2>5. queue' = queue BY <2>1, Zenon
  <2>6. storage' = 0 /\ (status'[u] # "absent" <=> status[u] # "absent") BY <2>3, Zenon
  <2>. QED BY <1>1, <2>1, <2>2, <2>3, <2>4, <2>5, <2>6, WorkerOrder, Zenon
<1>5. ASSUME NEW w \in Worker, NEW u \in Update, SkipUnclaimed(w, u) PROVE OrderInv'
  <2>1. /\ UNCHANGED <<durable, phase, owned, storage, status, count>>
        /\ busy' = busy \ {w} /\ Done(w, u)
        /\ IsNext(w, u) /\ phase \in {"work0", "work", "drain"}
    BY <1>5, Zenon DEF SkipUnclaimed, MayTake
  <2>2. ~Untried(u) /\ (status[u] = "absent" => count[u] = 0)
    BY <1>2, <1>5, Zenon DEF SkipUnclaimed, UntriedIsReceived, Claimable, Untried
  <2>3. count'[u] \in 0 .. MaxAttempts /\ (count'[u] > 0 => status[u] # "absent")
    BY <1>0, <2>1, <2>2
  <2>. QED BY <1>1, <2>1, <2>2, <2>3, WorkerOrder, Zenon
<1>6. ASSUME NEW w \in Worker, NEW u \in Update, Processed(w, u) \/ Failed(w, u) PROVE OrderInv'
  <2>1. /\ UNCHANGED <<durable, phase, owned, storage, count>>
        /\ busy' = busy \ {w} /\ Done(w, u) /\ IsNext(w, u) /\ w \in busy
    BY <1>6, Zenon DEF Processed, Failed, Finish
  <2>2. status'[u] \in {"processed", "failed"} /\ \A v \in Update \ {u} : status'[v] = status[v]
    BY <1>6, Zenon DEF Processed, Failed, Finish, TypeOK
  <2>3. count[u] > 0 /\ phase \in {"work0", "work", "drain"}
    BY <1>2, <2>1, Zenon DEF BusyHasClaimed, IsNext
  <2>4. status[u] # "absent" /\ count'[u] \in 0 .. MaxAttempts /\ count'[u] > 0 /\ count'[u] # 0
    <3>1. count'[u] = count[u] BY <2>1, Zenon
    <3>2. count'[u] \in 0 .. MaxAttempts BY <1>0, <3>1, Zenon
    <3>3. count'[u] > 0 /\ count'[u] # 0 BY <2>3, <3>1
    <3>4. status[u] # "absent" BY <1>2, <3>1, <3>3, Zenon DEF UntriedIsReceived
    <3>. QED BY <3>2, <3>3, <3>4, Zenon
  <2>5. /\ status'[u] # "absent" <=> status[u] # "absent"
        /\ \A v \in Update \ {u} : status'[v] = status[v] /\ count'[v] = count[v]
    BY <2>1, <2>2, <2>4, Zenon
  <2>. QED BY <1>1, <2>1, <2>3, <2>4, <2>5, WorkerOrder, Zenon
<1>. QED BY <1>3, <1>4, <1>5, <1>6, Zenon DEF HandlerStep

(* Every step keeps the order; a storage error ends what it promises.         *)
LEMMA NextOrder == TypeOK /\ OffsetInv /\ ListInv /\ OrderInv /\ [Next]_vars => OrderInv'
<1>. SUFFICES ASSUME TypeOK, OffsetInv, ListInv, OrderInv, [Next]_vars, storage' = 0, MaxAttempts > 0
              PROVE  OrderInv'
  BY Zenon DEF OrderInv
<1>1. ~StorageStep
  <2>. USE DEF StorageFault, TypeOK
  <2>1. ~ResetFails /\ ~ListFails /\ ~QuarantineFails BY DEF ResetFails, ListFails, QuarantineFails
  <2>2. ~PersistRolledBack /\ ~CommitNotAcknowledged BY DEF PersistRolledBack, CommitNotAcknowledged
  <2>3. \A w \in Worker, u \in Update : ~ClaimFails(w, u) /\ ~FailureNotStored(w, u)
    BY DEF ClaimFails, FailureNotStored
  <2>4. \A w \in Worker : ~TaskPanics(w) BY DEF TaskPanics
  <2>. QED BY <2>1, <2>2, <2>3, <2>4, Zenon DEF StorageStep
<1>2. CASE UNCHANGED vars
  <2>1. UntriedByPhase => UntriedByPhase' BY <1>2, Zenon DEF vars, UntriedByPhase, Untried
  <2>2. storage = 0 BY <1>2, Zenon DEF vars
  <2>3. phase' \notin {"work0", "work", "drain"} => busy' = {}
    BY <1>2, <2>2, Zenon DEF vars, OrderInv, BusyHasClaimed
  <2>. QED BY <1>2, <2>1, <2>3, OrderKept, Zenon DEF vars
<1>3. CASE Next
  BY <1>1, <1>3, LoopOrder, PassOrder, BatchOrder, WorkOrder, Zenon DEF Next, LoopStep, PassStep
<1>. QED BY <1>2, <1>3, Zenon

(* process_and_deliver first tries the updates of a chat in the order they    *)
(* were sent, across batches, retry passes, crashes and restarts, as long as  *)
(* storage does not fail: while an update waits for its first attempt it is   *)
(* in the list of its worker, or the loop has not come past its recovery.     *)
THEOREM AttemptsAreInOrder == Spec => []FirstAttemptsInOrder
<1>1. Init => ListInv /\ OrderInv
  <2>1. Init => NoLists BY Zenon DEF Init, NoWork, NoLists
  <2>2. Init => ListInv
    BY <2>1, Zenon DEF Init, ListInv, ListsByPhase, ListsByChat, NothingDoneListed, NoLists, Worker
  <2>3. Init => OrderInv
    BY Zenon DEF Init, OrderInv, UntriedByPhase, RowsBelowDurable, UntriedIsReceived, BusyHasClaimed,
           FirstAttemptsInOrder, Untried
  <2>. QED BY <2>2, <2>3, Zenon
<1>2. TypeOK /\ OrderInv => FirstAttemptsInOrder
  BY InboxBounds DEF TypeOK, OrderInv, FirstAttemptsInOrder
<1>3. Spec => [](TypeOK /\ OffsetInv /\ ListInv /\ OrderInv)
  BY <1>1, NextLists, NextOrder, OffsetInvariant, PTL DEF Spec
<1>. QED BY <1>2, <1>3, PTL
==============================================================================
