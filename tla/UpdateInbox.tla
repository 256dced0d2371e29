------------------------------ MODULE UpdateInbox ------------------------------
(***************************************************************************)
(* The durable inbox of Telegram updates: the poll loop of one bot         *)
(* (poll_telegram_bot_at), the transaction that stores a batch together    *)
(* with the next offset, the handler tasks that process the batch, the     *)
(* retries between two polls, and the recovery at startup.                 *)
(*                                                                         *)
(* An update is its update_id.  Telegram (external) numbers them in order, *)
(* keeps an update until a getUpdates request carries a greater offset,    *)
(* and may answer a request whose answer never arrives.                    *)
(***************************************************************************)
EXTENDS Naturals

CONSTANTS
    NumUpdates,     \* bound: Telegram's updates are 0 .. NumUpdates - 1
    Chat,           \* chats; a batch is processed by one task per chat
    ChatOf,         \* ChatOf[u]: the chat of an update
    Loop,           \* the poll loop itself, which processes retries one by one
    Damaged,        \* updates whose stored JSON does not parse any more
    MaxAttempts,    \* attempt_count < 3
    MaxCrashes,     \* bound: crashes, lost ownerships, lost getUpdates answers
    MaxStorage      \* bound: storage errors and panics

Update == 0 .. NumUpdates - 1
Worker == Chat \cup {Loop}

ASSUME UpdateAssumption == NumUpdates \in Nat /\ ChatOf \in [Update -> Chat] /\ Damaged \subseteq Update
ASSUME LoopAssumption == Loop \notin Chat
ASSUME InboxBounds == MaxAttempts \in Nat /\ MaxCrashes \in Nat /\ MaxStorage \in Nat

VARIABLES
    status,         \* telegram_updates.status, "absent" when there is no row
    count,          \* telegram_updates.attempt_count
    cooling,        \* updates whose 2 s or 4 s since updated_at have not passed
    durable,        \* telegram_bot_offsets.next_offset
    offset,         \* the loop's offset
    arrived,        \* updates 0 .. arrived - 1 have been sent to the bot
    acked,          \* the greatest offset Telegram has seen: earlier updates are gone
    phase,          \* where the poll loop is
    batch,          \* the updates of the getUpdates answer in hand
    queue,          \* queue[w]: what worker w still has to process, in the order of ids
    busy,           \* workers inside process_and_deliver, after the claim
    timer,          \* next_inbox_recovery_at has passed
    owned,          \* assert_valid would succeed
    crashes, storage

rowVars == <<status, count, cooling>>
workVars == <<queue, busy>>
faultVars == <<crashes, storage>>
vars == <<status, count, cooling, durable, offset, arrived, acked, phase, batch,
          queue, busy, timer, owned, crashes, storage>>

Phases == {"down", "reset", "list0", "work0", "loop", "list", "work", "poll", "persist", "drain"}

(* The types; attempt_count never exceeds the three attempts of the inbox. *)
TypeOK ==
    /\ status \in [Update -> {"absent", "received", "processing", "processed", "failed"}]
    /\ count \in [Update -> 0 .. MaxAttempts]
    /\ cooling \subseteq Update
    /\ durable \in 0 .. NumUpdates /\ offset \in 0 .. NumUpdates
    /\ arrived \in 0 .. NumUpdates /\ acked \in 0 .. NumUpdates
    /\ phase \in Phases
    /\ batch \subseteq Update
    /\ queue \in [Worker -> SUBSET Update]
    /\ busy \subseteq Worker
    /\ timer \in BOOLEAN /\ owned \in BOOLEAN
    /\ crashes \in Nat /\ storage \in Nat

NoWork == [w \in Worker |-> {}]

Init ==
    /\ status = [u \in Update |-> "absent"]
    /\ count = [u \in Update |-> 0]
    /\ cooling = {}
    /\ durable = 0 /\ offset = 0 /\ arrived = 0 /\ acked = 0
    /\ phase = "down"
    /\ batch = {}
    /\ queue = NoWork /\ busy = {}
    /\ timer = FALSE /\ owned = FALSE
    /\ crashes = 0 /\ storage = 0
------------------------------------------------------------------------------
CrashFault == crashes < MaxCrashes /\ crashes' = crashes + 1 /\ UNCHANGED storage
StorageFault == storage < MaxStorage /\ storage' = storage + 1 /\ UNCHANGED crashes

Larger(a, b) == IF a < b THEN b ELSE a

(* The WHERE clause of the claim: retryable, with attempts left. *)
Claimable(u) == status[u] \in {"received", "failed"} /\ count[u] < MaxAttempts

(* The next update of a worker: a chat's updates are sorted by id, and so   *)
(* are the rows of pending_inbox_batch.                                     *)
IsNext(w, u) == u \in queue[w] /\ \A v \in queue[w] : u <= v

Done(w, u) == queue' = [queue EXCEPT ![w] = @ \ {u}]
------------------------------------------------------------------------------
(* Startup. *)

Arrive ==
    /\ arrived < NumUpdates
    /\ arrived' = arrived + 1
    /\ UNCHANGED <<rowVars, durable, offset, acked, phase, batch, workVars, timer, owned, faultVars>>

(* Mutant: no recovery before the first poll. *)
StartWithoutRecovery ==
    /\ phase = "down"
    /\ phase' = "poll"
    /\ offset' = durable
    /\ owned' = TRUE
    /\ timer' = TRUE
    /\ UNCHANGED <<rowVars, durable, arrived, acked, batch, workVars, faultVars>>

(* A poller starts: ownership was claimed, the durable offset is read. *)
Start ==
    /\ phase = "down"
    /\ phase' = "reset"
    /\ offset' = durable
    /\ owned' = TRUE
    /\ timer' = TRUE
    /\ UNCHANGED <<rowVars, durable, arrived, acked, batch, workVars, faultVars>>

(* Mutant: finished rows are reset too. *)
ResetEverything ==
    /\ phase = "reset"
    /\ status' = [u \in Update |-> IF status[u] = "absent" THEN "absent" ELSE "received"]
    /\ cooling' = cooling \cup {u \in Update : status[u] = "processing"}
    /\ phase' = "list0"
    /\ UNCHANGED <<count, durable, offset, arrived, acked, batch, workVars, timer, owned, faultVars>>

(* recover_startup_updates: rows a crash left in `processing` are received again. *)
ResetProcessing ==
    /\ phase = "reset"
    /\ status' = [u \in Update |-> IF status[u] = "processing" THEN "received" ELSE status[u]]
    /\ cooling' = cooling \cup {u \in Update : status[u] = "processing"}
    /\ phase' = "list0"
    /\ UNCHANGED <<count, durable, offset, arrived, acked, batch, workVars, timer, owned, faultVars>>

(* The reset failed: logged; the recovery at startup is skipped. *)
ResetFails ==
    /\ phase = "reset" /\ StorageFault
    /\ phase' = "loop"
    /\ UNCHANGED <<rowVars, durable, offset, arrived, acked, batch, workVars, timer, owned>>
------------------------------------------------------------------------------
(* Retries: recover_pending_updates, at startup and between two polls. *)

AfterPass == IF phase \in {"list0", "work0"} THEN "loop" ELSE "poll"

(* The timer of the loop starts again when an online pass is over. *)
TimerAfterPass == IF phase \in {"list0", "work0"} THEN timer ELSE FALSE

(* Mutant: only rows that were never tried, or were reset, are due. *)
OnlyReceived == {u \in Update : Claimable(u) /\ status[u] = "received" /\ u \notin cooling}

(* pending_inbox_batch *)
Pending == {u \in Update : Claimable(u) /\ (count[u] = 0 \/ u \notin cooling)}

ListPending ==
    /\ phase \in {"list0", "list"}
    /\ queue' = [queue EXCEPT ![Loop] = Pending]
    /\ phase' = IF phase = "list0" THEN "work0" ELSE "work"
    /\ UNCHANGED <<rowVars, durable, offset, arrived, acked, batch, busy, timer, owned, faultVars>>

ListFails ==
    /\ phase \in {"list0", "list"} /\ StorageFault
    /\ phase' = AfterPass /\ timer' = TimerAfterPass
    /\ UNCHANGED <<rowVars, durable, offset, arrived, acked, batch, workVars, owned>>

(* A stored row that does not parse is quarantined with no attempts left. *)
Quarantine(u) ==
    /\ phase \in {"work0", "work"} /\ owned
    /\ IsNext(Loop, u) /\ u \in Damaged
    /\ status' = [status EXCEPT ![u] = IF @ \in {"received", "failed"} THEN "failed" ELSE @]
    /\ count' = [count EXCEPT ![u] = IF status[u] \in {"received", "failed"} THEN MaxAttempts ELSE @]
    /\ cooling' = cooling \cup {u}
    /\ Done(Loop, u)
    /\ UNCHANGED <<durable, offset, arrived, acked, phase, batch, busy, timer, owned, faultVars>>

(* The pass is through, ownership was found lost before a row, or the       *)
(* quarantine could not be stored: the rest of the list waits.              *)
PassEnds ==
    /\ phase \in {"work0", "work"} /\ busy = {}
    /\ queue[Loop] = {} \/ ~owned
    /\ queue' = NoWork
    /\ phase' = AfterPass /\ timer' = TimerAfterPass
    /\ UNCHANGED <<rowVars, durable, offset, arrived, acked, batch, busy, owned, faultVars>>

QuarantineFails ==
    /\ phase \in {"work0", "work"} /\ owned
    /\ \E u \in Damaged : IsNext(Loop, u)
    /\ StorageFault
    /\ queue' = NoWork
    /\ phase' = AfterPass /\ timer' = TimerAfterPass
    /\ UNCHANGED <<rowVars, durable, offset, arrived, acked, batch, busy, owned>>
------------------------------------------------------------------------------
(* process_and_deliver, for a retry (worker Loop) and for a task of a chat. *)

MayTake(w, u) ==
    /\ phase \in {"work0", "work", "drain"} /\ w \notin busy
    /\ IsNext(w, u)
    /\ w = Loop => owned /\ u \notin Damaged

RowUnchanged == UNCHANGED <<durable, offset, arrived, acked, phase, batch, timer, owned>>

Claim(w, u) ==
    /\ MayTake(w, u) /\ Claimable(u)
    /\ status' = [status EXCEPT ![u] = "processing"]
    /\ count' = [count EXCEPT ![u] = @ + 1]
    /\ cooling' = cooling \cup {u}
    /\ busy' = busy \cup {w}
    /\ UNCHANGED <<queue, faultVars>> /\ RowUnchanged

(* No row was claimed: somebody has it, or its attempts are used up. *)
SkipUnclaimed(w, u) ==
    /\ MayTake(w, u) /\ ~Claimable(u)
    /\ Done(w, u)
    /\ UNCHANGED <<rowVars, busy, faultVars>> /\ RowUnchanged

(* The claim itself failed; the caller still writes `failed`, if it can. *)
ClaimFails(w, u) ==
    /\ MayTake(w, u) /\ StorageFault
    /\ \/ status' = [status EXCEPT ![u] = "failed"] /\ cooling' = cooling \cup {u}
       \/ UNCHANGED <<status, cooling>>
    /\ Done(w, u)
    /\ UNCHANGED <<count, busy>> /\ RowUnchanged

Finish(w, u, s) ==
    /\ w \in busy /\ IsNext(w, u)
    /\ status' = [status EXCEPT ![u] = s]
    /\ cooling' = cooling \cup {u}
    /\ busy' = busy \ {w}
    /\ Done(w, u)
    /\ UNCHANGED <<count, faultVars>> /\ RowUnchanged

(* mark_update_processed: replies delivered, no chat, or a client error answered. *)
Processed(w, u) == Finish(w, u, "processed")

(* Any other error: the caller's UPDATE, which has no condition on the status. *)
Failed(w, u) == Finish(w, u, "failed")

(* ... and when this UPDATE fails too, the row stays in `processing`. *)
FailureNotStored(w, u) ==
    /\ w \in busy /\ IsNext(w, u) /\ StorageFault
    /\ busy' = busy \ {w}
    /\ Done(w, u)
    /\ UNCHANGED rowVars /\ RowUnchanged

(* A handler task panics: the rest of its chat's updates is dropped with it. *)
TaskPanics(w) ==
    /\ w \in busy \ {Loop} /\ StorageFault
    /\ busy' = busy \ {w}
    /\ queue' = [queue EXCEPT ![w] = {}]
    /\ UNCHANGED rowVars /\ RowUnchanged
------------------------------------------------------------------------------
(* The loop. *)

(* assert_valid at the head of the loop; then the retries, when they are due. *)
LoopHead ==
    /\ phase = "loop" /\ owned
    /\ phase' = IF timer THEN "list" ELSE "poll"
    /\ UNCHANGED <<rowVars, durable, offset, arrived, acked, batch, workVars, timer, owned, faultVars>>

(* Ownership lost, or cancelled: the loop is left and the poller cleaned up. *)
LeaveLoop ==
    /\ phase \in {"loop", "poll"} /\ ~owned
    /\ phase' = "down"
    /\ UNCHANGED <<rowVars, durable, offset, arrived, acked, batch, workVars, timer, owned, faultVars>>

(* getUpdates: Telegram takes note of the offset and answers with a prefix  *)
(* of what it still has.                                                    *)
GetUpdates ==
    /\ phase = "poll" /\ owned
    /\ acked' = Larger(acked, offset)
    /\ \E n \in acked' .. arrived :
          /\ n = acked' => arrived <= acked'
          /\ batch' = {u \in Update : acked' <= u /\ u < n}
    /\ phase' = "persist"
    /\ UNCHANGED <<rowVars, durable, offset, arrived, workVars, timer, owned, faultVars>>

(* The request or its answer is lost, or the answer is an error. *)
GetUpdatesFails ==
    /\ phase = "poll" /\ owned /\ CrashFault
    /\ acked' \in {acked, Larger(acked, offset)}
    /\ phase' = "loop"
    /\ UNCHANGED <<rowVars, durable, offset, arrived, batch, workVars, timer, owned>>

(* candidate_offset after the whole batch *)
Candidate ==
    CHOOSE n \in 0 .. NumUpdates :
        /\ n >= offset /\ \A u \in batch : n > u
        /\ n = offset \/ \E u \in batch : n = u + 1

StoreBatch ==
    /\ status' = [u \in Update |-> IF u \in batch /\ status[u] = "absent" THEN "received" ELSE status[u]]
    /\ durable' = Larger(durable, Candidate)

(* persist_update_batch: rows and offset in one transaction, then the loop's *)
(* offset.  New rows and rows waiting for a retry go to the tasks.           *)
PersistBatch ==
    /\ phase = "persist"
    /\ StoreBatch
    /\ offset' = Candidate
    /\ queue' = [w \in Worker |->
                   IF w = Loop THEN {}
                   ELSE {u \in batch : ChatOf[u] = w /\ status[u] \in {"absent", "received", "failed"}}]
    /\ batch' = {}
    /\ phase' = "drain"
    /\ UNCHANGED <<count, cooling, arrived, acked, busy, timer, owned, faultVars>>

(* Mutant: the offset is published although the transaction was rolled back. *)
PublishOnRollback ==
    /\ phase = "persist" /\ StorageFault
    /\ batch' = {} /\ phase' = "loop"
    /\ offset' = Candidate
    /\ UNCHANGED <<rowVars, durable, arrived, acked, workVars, timer, owned>>

(* The transaction is rolled back: the batch is dropped, the offset stays. *)
PersistRolledBack ==
    /\ phase = "persist" /\ StorageFault
    /\ batch' = {} /\ phase' = "loop"
    /\ UNCHANGED <<rowVars, durable, offset, arrived, acked, workVars, timer, owned>>

(* The transaction is durable but its acknowledgement is lost. *)
CommitNotAcknowledged ==
    /\ phase = "persist" /\ StorageFault
    /\ StoreBatch
    /\ batch' = {} /\ phase' = "loop"
    /\ UNCHANGED <<count, cooling, offset, arrived, acked, workVars, timer, owned>>

(* Every task has been joined. *)
DrainDone ==
    /\ phase = "drain" /\ queue = NoWork /\ busy = {}
    /\ phase' = "loop"
    /\ UNCHANGED <<rowVars, durable, offset, arrived, acked, batch, workVars, timer, owned, faultVars>>
------------------------------------------------------------------------------
(* Time, ownership, crashes. *)

BackoffElapses(u) ==
    /\ u \in cooling /\ status[u] \in {"received", "failed"}
    /\ cooling' = cooling \ {u}
    /\ UNCHANGED <<status, count, durable, offset, arrived, acked, phase, batch, workVars, timer, owned, faultVars>>

TimerElapses ==
    /\ ~timer /\ phase # "down"
    /\ timer' = TRUE
    /\ UNCHANGED <<rowVars, durable, offset, arrived, acked, phase, batch, workVars, owned, faultVars>>

(* Ownership moves away, or stop_bot begins to drain. *)
LoseOwnership ==
    /\ owned /\ phase # "down" /\ CrashFault
    /\ owned' = FALSE
    /\ UNCHANGED <<rowVars, durable, offset, arrived, acked, phase, batch, workVars, timer>>

(* The process dies, or the poll task panics. *)
Crash ==
    /\ phase # "down" /\ CrashFault
    /\ phase' = "down" /\ batch' = {} /\ queue' = NoWork /\ busy' = {} /\ owned' = FALSE
    /\ UNCHANGED <<rowVars, durable, offset, arrived, acked, timer>>
------------------------------------------------------------------------------
PassStep == ListPending \/ PassEnds \/ \E u \in Update : Quarantine(u)

HandlerStep(w) ==
    \E u \in Update : Claim(w, u) \/ SkipUnclaimed(w, u) \/ Processed(w, u) \/ Failed(w, u)

LoopStep == Start \/ ResetProcessing \/ LoopHead \/ LeaveLoop \/ GetUpdates \/ PersistBatch \/ DrainDone

StorageStep ==
    \/ ResetFails \/ ListFails \/ QuarantineFails \/ PersistRolledBack \/ CommitNotAcknowledged
    \/ \E w \in Worker, u \in Update : ClaimFails(w, u) \/ FailureNotStored(w, u)
    \/ \E w \in Worker : TaskPanics(w)

Next ==
    \/ Arrive
    \/ LoopStep
    \/ PassStep
    \/ \E w \in Worker : HandlerStep(w)
    \/ StorageStep
    \/ GetUpdatesFails \/ LoseOwnership \/ Crash
    \/ TimerElapses \/ \E u \in Update : BackoffElapses(u)

Spec == Init /\ [][Next]_vars

(* Fairness.  Tokio polls a ready task; a handler has timeouts on all its   *)
(* calls; time passes; a poller that stopped is started again.              *)
Fairness ==
    /\ WF_vars(LoopStep)
    /\ WF_vars(PassStep)
    /\ \A w \in Worker : WF_vars(HandlerStep(w))
    /\ WF_vars(TimerElapses)
    /\ \A u \in Update : WF_vars(BackoffElapses(u))

LiveSpec == Spec /\ Fairness
------------------------------------------------------------------------------
(* inbox-offset-atomicity.md: an update that Telegram may forget has a row,  *)
(* whatever fails between the answer of getUpdates, the transaction, the     *)
(* published offset and the next request.                                    *)
NoUpdateLost == \A u \in Update : u < acked => status[u] # "absent"

(* What makes NoUpdateLost inductive: the offsets never run ahead of the     *)
(* durable one, whose updates all have rows, and a batch in hand continues   *)
(* where Telegram's memory begins, without a gap.                            *)
OffsetsFollowDurable == offset <= durable /\ acked <= durable
DurableHasRows == \A u \in Update : u < durable => status[u] # "absent"
BatchHasNoGap ==
    \E n \in 0 .. NumUpdates : batch = {u \in Update : acked <= u /\ u < n}
BatchOnlyInHand == phase # "persist" => batch = {}

(* The inductive invariant of the transaction protocol of the offset. *)
OffsetInv == OffsetsFollowDurable /\ DurableHasRows /\ BatchHasNoGap /\ BatchOnlyInHand

(* A processed update is never processed again: no reset, no retry and no    *)
(* late failure (whose UPDATE has no condition) takes it back.               *)
ProcessedIsFinal ==
    [][\A u \in Update : status[u] = "processed" => status'[u] = "processed"]_vars

(* Updates of a chat are first tried in the order they were sent, across     *)
(* batches, retries and crashes, as long as storage does not fail.           *)
FirstAttemptsInOrder ==
    \A u, v \in Update :
        (storage = 0 /\ u < v /\ ChatOf[u] = ChatOf[v] /\ count[v] > 0) => count[u] > 0

(* round2-merge-readiness.md: "The poller retries durable received/failed    *)
(* rows ... no new incoming update or process restart is required": every    *)
(* update sent to the bot is processed, or used up all its attempts, unless  *)
(* storage fails: a row whose outcome could not be written stays             *)
(* "processing" until the next start.                                        *)
EveryUpdateSettles ==
    \A u \in Update :
        u < arrived ~> status[u] = "processed" \/ count[u] = MaxAttempts \/ storage > 0

(* pending_inbox_batch: "Exhausted rows stay visible as failed for manual    *)
(* inspection."                                                              *)
ExhaustedStayFailed ==
    \A u \in Update : (count[u] = MaxAttempts /\ status[u] \notin {"processing", "processed"})
        => status[u] = "failed"
==============================================================================
