----------------------------- MODULE TurnDelivery -----------------------------
(* What one Telegram chat sees of a conversation, and what the bridge records *)
(* of it: process_and_deliver on sends and on /undo, /revoke and /redo, with  *)
(* TelegramDelivery's tables (channel_deliveries, telegram_turn_messages,     *)
(* telegram_turn_targets), the Telegram side and the SillyTavern chat.        *)
(*                                                                            *)
(* The delivery lock and the single poller make the updates of a chat run one *)
(* at a time; what can go wrong is a crash between two steps, an answer that  *)
(* is lost, a statement that fails, and the retry of an update that already   *)
(* did part of its work.  The ledger of operations is reduced to what         *)
(* OperationPromise says of it.                                               *)
EXTENDS Naturals, Sequences, FiniteSets

CONSTANTS NumUpdates,   \* updates of the chat
          Kinds,        \* the kinds an update may have
          MaxAttempts,  \* attempt_count < 3 in process_and_deliver
          MaxChunks,    \* bound: Telegram messages one reply is split into
          MaxFaults     \* bound: crashes, lost or refused calls, failed writes

Update == 1 .. NumUpdates
Chunk == 1 .. MaxChunks

ASSUME KindsAssumption == Kinds \subseteq {"send", "undo", "revoke", "redo"}
ASSUME BoundsAssumption ==
    NumUpdates \in Nat /\ MaxAttempts \in Nat /\ MaxChunks \in Nat \ {0} /\ MaxFaults \in Nat

VARIABLES
    kind,       \* kind[u]: what the update asks for
    inbox,      \* inbox[u]: telegram_updates.status
    attempts,   \* attempts[u]: telegram_updates.attempt_count
    op,         \* op[u]: the operation tg:{bot}:{u}
    effect,     \* effect[u]: the turn SillyTavern added, removed or rewrote; 0: none
    st,         \* the turns of the SillyTavern chat, a turn named by its send
    chat,       \* chat[m]: Telegram message m of the bot: whose, and what it says
    deliveries, \* channel_deliveries, in the order of creation
    rows,       \* rows[t][c]: telegram_turn_messages of turn t, chunk c
    clock,      \* the writes of active rows so far, which stand for the time of now_rfc3339
    target,     \* target[u]: telegram_turn_targets of an undo, revoke or redo
    touched,    \* touched[u]: old messages edited or deleted on behalf of u
    cur,        \* the update being processed; 0: none
    job,        \* the local state of its processing
    faults

ledgerVars == <<kind, op, effect, st>>
telegramVars == <<chat, touched>>
tableVars == <<deliveries, rows, clock, target>>
inboxVars == <<inbox, attempts, cur>>
vars == <<ledgerVars, telegramVars, tableVars, inboxVars, job, faults>>

NoRow == [msg |-> 0, version |-> 0, life |-> "none", at |-> 0]
NoTarget == [turn |-> 0, rev |-> 0, ids |-> <<>>, status |-> "none"]

(* pc: the next step; why: what the message being sent is for; i, n: the      *)
(* chunk at work and how many there are; rev: render_version or               *)
(* target_revision; msg: the message at work; dlv: the delivery row; bad:     *)
(* failed_message_ids is not empty.                                           *)
Idle == [pc |-> "idle", why |-> "none", i |-> 0, n |-> 0, rev |-> 0,
         msg |-> 0, dlv |-> 0, bad |-> FALSE]

SendLabels == {"create", "mark", "call", "record", "confirm"}
Labels == SendLabels \union
    {"idle", "sink", "execute", "edit", "update", "settle", "target",
     "applying", "check", "retire", "v_call", "v_mark", "r_assert", "r_edit",
     "r_update", "r_delete", "c_delete", "c_mark", "finish", "delivered"}
Reasons == {"none", "placeholder", "reply", "failure", "chunk", "redo_chunk",
            "replace", "notice", "error"}

TypeOK ==
    /\ kind \in [Update -> Kinds]
    /\ inbox \in [Update -> {"received", "processing", "failed", "processed"}]
    /\ attempts \in [Update -> 0 .. MaxAttempts]
    /\ op \in [Update -> {"none", "open", "unknown", "committed", "delivered", "failed"}]
    /\ effect \in [Update -> 0 .. NumUpdates]
    /\ st \in Seq(Update)
    /\ chat \in Seq([of : Update, text : {"placeholder", "failure", "notice", "error",
                                          "reply", "tombstone", "deleted"}, part : 0 .. MaxChunks])
    /\ deliveries \in Seq([op : 0 .. NumUpdates, kind : {"generation", "reply"},
                           status : {"pending", "sending", "sent", "retry_pending",
                                     "unknown", "failed"}, msg : Nat])
    /\ rows \in [Update -> [Chunk -> [msg : Nat, version : Nat,
                                      life : {"none", "active", "retired"}, at : 0 .. clock]]]
    /\ clock \in Nat
    /\ target \in [Update -> [turn : 0 .. NumUpdates, rev : Nat, ids : Seq(Nat),
                              status : {"none", "frozen", "applying", "applied",
                                        "failed", "unknown"}]]
    /\ touched \in [Update -> SUBSET (1 .. Len(chat))]
    /\ cur \in 0 .. NumUpdates
    /\ job \in [pc : Labels, why : Reasons, i : Nat, n : 0 .. MaxChunks, rev : Nat,
                msg : Nat, dlv : Nat, bad : BOOLEAN]
    /\ faults \in 0 .. MaxFaults

(* An empty chat; the user's commands are in the inbox in their order.        *)
Init ==
    /\ kind \in [Update -> Kinds]
    /\ inbox = [u \in Update |-> "received"]
    /\ attempts = [u \in Update |-> 0]
    /\ op = [u \in Update |-> "none"]
    /\ effect = [u \in Update |-> 0]
    /\ st = <<>> /\ chat = <<>> /\ deliveries = <<>> /\ clock = 0
    /\ rows = [u \in Update |-> [c \in Chunk |-> NoRow]]
    /\ target = [u \in Update |-> NoTarget]
    /\ touched = [u \in Update |-> {}]
    /\ cur = 0 /\ job = Idle /\ faults = 0

-----------------------------------------------------------------------------
Fault == faults < MaxFaults /\ faults' = faults + 1
At(pc) == job.pc = pc
Goto(pc) == job' = [job EXCEPT !.pc = pc]

(* The update's processing ends: mark_update_processed, or the error that     *)
(* leaves it failed for a later poll.                                         *)
Leave(status) ==
    /\ inbox' = [inbox EXCEPT ![cur] = status]
    /\ cur' = 0
    /\ job' = Idle
    /\ UNCHANGED attempts

StartSend(why, msg) == job' = [job EXCEPT !.pc = "create", !.why = why, !.msg = msg]

(* A dispatch error below 500: its text is sent, and the update is processed. *)
ReplyError == StartSend("error", 0)

(* A dispatch error is a client error, or a server error that leaves the      *)
(* update failed.                                                             *)
DispatchError ==
    \/ ReplyError /\ UNCHANGED inboxVars
    \/ Leave("failed")

ActiveRows(t) == {c \in Chunk : rows[t][c].life = "active"}
ActiveTurns == {t \in Update : ActiveRows(t) # {}}

(* SELECT MAX(render_version) over the active rows of the turn is rev.        *)
RevisionIs(t, rev) ==
    /\ \E c \in ActiveRows(t) : rows[t][c].version = rev
    /\ \A c \in ActiveRows(t) : rows[t][c].version <= rev

(* A write of one row that leaves it active: its message, its revision and    *)
(* updated_at.                                                                *)
WriteRow(t, c, msg, version) ==
    /\ rows' = [rows EXCEPT ![t][c] =
          [msg |-> msg, version |-> version, life |-> "active", at |-> clock + 1]]
    /\ clock' = clock + 1

SetDelivery(status) == deliveries' = [deliveries EXCEPT ![job.dlv].status = status]

(* Deliveries of the update's operation, and whether all of them are sent.    *)
Deliveries(u) == {d \in DOMAIN deliveries : deliveries[d].op = u}
AllSent(u) == Deliveries(u) # {} /\ \A d \in Deliveries(u) : deliveries[d].status = "sent"

-----------------------------------------------------------------------------
(* process_and_deliver claims the update.  First attempts come in the order   *)
(* of the inbox; a failed update may come again at any later poll.            *)
Claim(u) ==
    /\ cur = 0
    /\ inbox[u] \in {"received", "failed"}
    /\ attempts[u] < MaxAttempts
    /\ \A v \in Update : v < u => attempts[v] > 0
    /\ inbox' = [inbox EXCEPT ![u] = "processing"]
    /\ attempts' = [attempts EXCEPT ![u] = @ + 1]
    /\ cur' = u
    /\ job' = [Idle EXCEPT !.pc = IF kind[u] = "send" THEN "sink" ELSE "target"]
    /\ UNCHANGED <<ledgerVars, telegramVars, tableVars, faults>>

(* stream_sink: the placeholder of an earlier attempt is taken up again.      *)
ReusePlaceholder ==
    /\ At("sink")
    /\ \E d \in Deliveries(cur) :
          /\ deliveries[d].kind = "generation" /\ deliveries[d].status = "sent"
          /\ \A e \in Deliveries(cur) :
                deliveries[e].kind = "generation" /\ deliveries[e].status = "sent" => e <= d
          /\ job' = [job EXCEPT !.pc = "execute", !.dlv = d, !.msg = deliveries[d].msg, !.rev = 1]
    /\ UNCHANGED <<ledgerVars, telegramVars, tableVars, inboxVars, faults>>

SendPlaceholder ==
    /\ At("sink")
    /\ \A d \in Deliveries(cur) :
          deliveries[d].kind = "generation" => deliveries[d].status # "sent"
    /\ StartSend("placeholder", 0)
    /\ UNCHANGED <<ledgerVars, telegramVars, tableVars, inboxVars, faults>>

-----------------------------------------------------------------------------
(* One message: create_delivery, mark_sending, sendMessage, the turn row, and *)
(* mark_sent_result.                                                          *)
CreateDelivery ==
    /\ At("create")
    /\ deliveries' = Append(deliveries,
          [op |-> IF job.why = "error" THEN 0 ELSE cur,
           kind |-> IF job.why = "placeholder" THEN "generation" ELSE "reply",
           status |-> "pending", msg |-> 0])
    /\ job' = [job EXCEPT !.pc = "mark", !.dlv = Len(deliveries) + 1]
    /\ UNCHANGED <<ledgerVars, telegramVars, rows, clock, target, inboxVars, faults>>

MarkSending ==
    /\ At("mark")
    /\ SetDelivery("sending")
    /\ Goto("call")
    /\ UNCHANGED <<ledgerVars, telegramVars, rows, clock, target, inboxVars, faults>>

Says ==
    CASE job.why = "placeholder" -> [of |-> cur, text |-> "placeholder", part |-> 1]
      [] job.why \in {"chunk", "redo_chunk", "replace"} ->
            [of |-> cur, text |-> "reply", part |-> job.i]
      [] OTHER -> [of |-> cur, text |-> job.why, part |-> 0]

HasRow == job.why \in {"placeholder", "chunk", "redo_chunk", "replace"}

(* Where the processing goes when the message could not be sent or recorded.  *)
(* A failed Done is only logged by the engine; a failed redo leaves its       *)
(* target unknown; the other errors leave the update failed.                  *)
SendFailed ==
    CASE job.why = "chunk" -> Goto("settle") /\ UNCHANGED <<inboxVars, target>>
      [] job.why \in {"redo_chunk", "replace"} ->
            /\ target' = [target EXCEPT ![cur].status = "unknown"]
            /\ DispatchError
      [] OTHER -> Leave("failed") /\ UNCHANGED target

(* The message is in the chat; its id is the last one.                        *)
MessageAccepted ==
    /\ At("call")
    /\ chat' = Append(chat, Says)
    /\ Goto(IF HasRow THEN "record" ELSE "confirm")
    /\ UNCHANGED <<ledgerVars, touched, tableVars, inboxVars, faults>>

(* Telegram refuses it: 429 (mark_retry_pending), another API error           *)
(* (mark_failed), or the request never arrives (mark_unknown).                *)
MessageRefused ==
    /\ At("call")
    /\ Fault
    /\ \E s \in {"retry_pending", "failed", "unknown"} : SetDelivery(s)
    /\ SendFailed
    /\ UNCHANGED <<ledgerVars, telegramVars, rows, clock>>

(* Mutant: a request whose answer is lost is sent again.                      *)
AnswerLostResends ==
    /\ At("call")
    /\ Fault
    /\ chat' = Append(chat, Says)
    /\ UNCHANGED <<ledgerVars, touched, tableVars, inboxVars, job>>

(* The message is in the chat, but the answer is lost or unreadable.          *)
AnswerLost ==
    /\ At("call")
    /\ Fault
    /\ chat' = Append(chat, Says)
    /\ SetDelivery("unknown")
    /\ SendFailed
    /\ UNCHANGED <<ledgerVars, touched, rows, clock>>

(* The row of a new chunk; the unique index admits one row per turn and chunk.*)
RowTurn == IF job.why = "redo_chunk" THEN target[cur].turn ELSE cur
RowChunk == IF job.why = "placeholder" THEN 1 ELSE job.i

RecordRow ==
    /\ At("record") /\ job.why # "replace"
    /\ rows[RowTurn][RowChunk].life = "none"
    /\ WriteRow(RowTurn, RowChunk, Len(chat), IF job.why = "placeholder" THEN 1 ELSE job.rev + 1)
    /\ Goto("confirm")
    /\ UNCHANGED <<ledgerVars, telegramVars, deliveries, target, inboxVars, faults>>

(* UPDATE telegram_turn_messages ... WHERE message_id = ? AND render_version  *)
(* <= ? AND active.                                                           *)
Matches(t, c, msg) ==
    /\ c \in Chunk
    /\ rows[t][c].life = "active" /\ rows[t][c].msg = msg /\ rows[t][c].version <= job.rev

(* replace_turn_chunk_scoped: the row takes the new message and the delivery  *)
(* is sent, in one transaction.                                               *)
ReplaceRow ==
    /\ At("record") /\ job.why = "replace"
    /\ Matches(target[cur].turn, job.i, job.msg)
    /\ WriteRow(target[cur].turn, job.i, Len(chat), job.rev + 1)
    /\ deliveries' = [deliveries EXCEPT ![job.dlv].status = "sent", ![job.dlv].msg = Len(chat)]
    /\ Goto("r_delete")
    /\ UNCHANGED <<ledgerVars, telegramVars, target, inboxVars, faults>>

(* Mutant: a row that could not be written is only logged.                    *)
RecordFailsUnnoticed ==
    /\ At("record")
    /\ Fault
    /\ Goto("confirm")
    /\ UNCHANGED <<ledgerVars, telegramVars, tableVars, inboxVars>>

(* mark_unknown_after_persistence_failure: the row does not fit, or a write   *)
(* fails after Telegram took the message.                                     *)
RecordFails ==
    /\ At("record")
    /\ \/ UNCHANGED faults /\ IF job.why = "replace"
                              THEN ~Matches(target[cur].turn, job.i, job.msg)
                              ELSE rows[RowTurn][RowChunk].life # "none"
       \/ Fault
    /\ SetDelivery("unknown")
    /\ SendFailed
    /\ UNCHANGED <<ledgerVars, telegramVars, rows, clock>>

(* mark_sent_result, and on to what the message was for.                      *)
ConfirmSent ==
    /\ At("confirm")
    /\ deliveries' = [deliveries EXCEPT ![job.dlv].status = "sent", ![job.dlv].msg = Len(chat)]
    /\ CASE job.why = "placeholder" ->
              /\ job' = [job EXCEPT !.pc = "execute", !.msg = Len(chat), !.rev = 1]
              /\ UNCHANGED inboxVars
         [] job.why = "chunk" ->
              /\ job' = [job EXCEPT !.pc = IF job.i = job.n THEN "settle" ELSE "create",
                                    !.i = @ + 1, !.rev = @ + 1]
              /\ UNCHANGED inboxVars
         [] job.why = "redo_chunk" ->
              /\ job' = [job EXCEPT !.pc = "r_assert", !.i = @ + 1, !.rev = @ + 1]
              /\ UNCHANGED inboxVars
         [] job.why = "notice" -> Goto("delivered") /\ UNCHANGED inboxVars
         [] job.why = "error" -> Leave("processed")
    /\ UNCHANGED <<ledgerVars, telegramVars, rows, clock, target, faults>>

ConfirmFails ==
    /\ At("confirm")
    /\ Fault
    /\ SetDelivery("unknown")
    /\ SendFailed
    /\ UNCHANGED <<ledgerVars, telegramVars, rows, clock>>

-----------------------------------------------------------------------------
(* The engine executes the command of the update.                             *)

(* What SillyTavern does with the command: a new turn, the last turn removed, *)
(* or the last turn's reply rewritten.                                        *)
Applies ==
    /\ kind[cur] # "send" => st # <<>>
    /\ st' = CASE kind[cur] = "send" -> Append(st, cur)
               [] kind[cur] = "redo" -> st
               [] OTHER -> SubSeq(st, 1, Len(st) - 1)
    /\ effect' = [effect EXCEPT ![cur] = IF kind[cur] = "send" THEN cur ELSE st[Len(st)]]

Executable == At("execute") /\ op[cur] \in {"none", "open"}

(* The commit is confirmed: finalize the reply, or clean up in Telegram.      *)
ExecuteCommits ==
    /\ Executable
    /\ Applies
    /\ op' = [op EXCEPT ![cur] = "committed"]
    /\ \E n \in Chunk :
          job' = CASE kind[cur] = "send" ->
                        [job EXCEPT !.pc = "edit", !.why = "reply", !.i = 1, !.n = n]
                   [] kind[cur] = "redo" ->
                        [job EXCEPT !.pc = "r_assert", !.i = 1, !.n = n, !.rev = target[cur].rev]
                   [] kind[cur] = "undo" -> [job EXCEPT !.pc = "retire"]
                   [] kind[cur] = "revoke" -> [job EXCEPT !.pc = "v_call", !.i = 1]
    /\ UNCHANGED <<kind, telegramVars, tableVars, inboxVars, faults>>

(* The error of the engine: a send tells it in its placeholder (sink.fail), a *)
(* turn command settles its target with it.                                   *)
ExecuteError(status) ==
    IF kind[cur] = "send"
    THEN /\ job' = [job EXCEPT !.pc = "edit", !.why = "failure", !.i = 1, !.n = 1]
         /\ UNCHANGED <<target, inboxVars>>
    ELSE /\ target' = [target EXCEPT ![cur].status = status]
         /\ DispatchError

(* Not applied: rejected for good, or an error before the commit began.       *)
ExecuteFails ==
    /\ Executable
    /\ Fault
    /\ \E end \in {<<"failed", "failed">>, <<"open", "unknown">>} :
          op' = [op EXCEPT ![cur] = end[1]] /\ ExecuteError(end[2])
    /\ UNCHANGED <<kind, effect, st, telegramVars, deliveries, rows, clock>>

(* Mutant: an ambiguous commit is taken for a confirmed one.                  *)
ExecuteAmbiguousProceeds ==
    /\ Executable
    /\ Fault
    /\ Applies \/ UNCHANGED <<st, effect>>
    /\ op' = [op EXCEPT ![cur] = "unknown"]
    /\ job' = [job EXCEPT !.pc = CASE kind[cur] = "send" -> "settle" [] kind[cur] = "redo" -> "r_assert"
                                   [] kind[cur] = "undo" -> "retire" [] OTHER -> "v_call",
                          !.i = 1, !.n = 1, !.rev = target[cur].rev]
    /\ UNCHANGED <<kind, telegramVars, tableVars, inboxVars>>

(* The commit's answer is lost: applied or not, the state is unknown.         *)
ExecuteAmbiguous ==
    /\ Executable
    /\ Fault
    /\ Applies \/ UNCHANGED <<st, effect>>
    /\ op' = [op EXCEPT ![cur] = "unknown"]
    /\ ExecuteError("unknown")
    /\ UNCHANGED <<kind, telegramVars, deliveries, rows, clock>>

(* A send that is already committed answers without a Done event, so nothing  *)
(* is rendered; one that failed or is unknown answers with an error.          *)
ExecuteReplays ==
    /\ At("execute")
    /\ \/ /\ op[cur] \in {"committed", "delivered"}
          /\ Goto("settle")
       \/ /\ op[cur] \in {"unknown", "failed"}
          /\ job' = [job EXCEPT !.pc = "edit", !.why = "failure", !.i = 1, !.n = 1]
    /\ UNCHANGED <<ledgerVars, telegramVars, tableVars, inboxVars, faults>>

(* The recovery pass settles an unknown commit from the Connector's journal.  *)
Reconcile(u) ==
    /\ cur = 0
    /\ op[u] = "unknown"
    /\ op' = [op EXCEPT ![u] = IF effect[u] # 0 THEN "committed" ELSE "failed"]
    /\ UNCHANGED <<kind, effect, st, telegramVars, tableVars, inboxVars, job, faults>>

-----------------------------------------------------------------------------
(* TelegramProgressSink::finalize, for the reply or for the failure text.     *)
FinalText ==
    IF job.why = "reply" THEN [of |-> cur, text |-> "reply", part |-> 1]
                         ELSE [of |-> cur, text |-> "failure", part |-> 0]

FinalizeFailed ==
    /\ SetDelivery("unknown")
    /\ IF job.why = "reply" THEN Goto("settle") /\ UNCHANGED inboxVars ELSE Leave("failed")

EditPlaceholder ==
    /\ At("edit")
    /\ chat[job.msg].text # "deleted"
    /\ chat' = [chat EXCEPT ![job.msg] = FinalText]
    /\ Goto("update")
    /\ UNCHANGED <<ledgerVars, touched, tableVars, inboxVars, faults>>

EditFails ==
    /\ At("edit")
    /\ \/ Fault /\ UNCHANGED chat
       \/ Fault /\ chat[job.msg].text # "deleted" /\ chat' = [chat EXCEPT ![job.msg] = FinalText]
       \/ chat[job.msg].text = "deleted" /\ UNCHANGED <<chat, faults>>
    /\ FinalizeFailed
    /\ UNCHANGED <<ledgerVars, touched, rows, clock, target>>

(* Mutant: the update of the row forgets its revision.                        *)
UpdateChunkAnyRevision ==
    /\ At("update")
    /\ rows[cur][1].life = "active" /\ rows[cur][1].msg = job.msg
    /\ WriteRow(cur, 1, job.msg, job.rev + 1)
    /\ IF job.why = "failure" THEN Leave("processed")
       ELSE /\ job' = [job EXCEPT !.pc = IF job.n = 1 THEN "settle" ELSE "create",
                                  !.why = "chunk", !.i = 2, !.rev = @ + 1]
            /\ UNCHANGED inboxVars
    /\ UNCHANGED <<ledgerVars, telegramVars, deliveries, target, faults>>

(* update_turn_chunk_scoped, then the further chunks, or the end of fail.     *)
UpdateChunk ==
    /\ At("update")
    /\ Matches(cur, 1, job.msg)
    /\ WriteRow(cur, 1, job.msg, job.rev + 1)
    /\ IF job.why = "failure" THEN Leave("processed")
       ELSE /\ job' = [job EXCEPT !.pc = IF job.n = 1 THEN "settle" ELSE "create",
                                  !.why = "chunk", !.i = 2, !.rev = @ + 1]
            /\ UNCHANGED inboxVars
    /\ UNCHANGED <<ledgerVars, telegramVars, deliveries, target, faults>>

UpdateChunkFails ==
    /\ At("update")
    /\ (Fault \/ (~Matches(cur, 1, job.msg) /\ UNCHANGED faults))
    /\ FinalizeFailed
    /\ UNCHANGED <<ledgerVars, telegramVars, rows, clock, target>>

(* mark_delivered_after_delivery, and the check that nothing is incomplete.   *)
Settle ==
    /\ At("settle")
    /\ op' = [op EXCEPT ![cur] = IF AllSent(cur) /\ @ = "committed" THEN "delivered" ELSE @]
    /\ Leave(IF AllSent(cur) THEN "processed" ELSE "failed")
    /\ UNCHANGED <<kind, effect, st, telegramVars, tableVars, faults>>

-----------------------------------------------------------------------------
(* undo_turn, revoke_turn and redo_turn.                                      *)

(* find_last_turn: the turn whose active row was written last, and its active *)
(* rows in the order of the chunks.                                           *)
IsLastTurn(t) == \E c \in ActiveRows(t) :
    \A x \in Update : \A d \in ActiveRows(x) : rows[x][d].at <= rows[t][c].at

ActiveChunks(t) ==
    {s \in UNION {[1 .. n -> ActiveRows(t)] : n \in Chunk} :
        /\ \A c \in ActiveRows(t) : \E k \in DOMAIN s : s[k] = c
        /\ \A j, k \in DOMAIN s : j < k => s[j] < s[k]}

(* The claim and the stored target decide whether there is anything to do.    *)
AlreadyDone ==
    /\ At("target")
    /\ op[cur] = "delivered" \/ target[cur].status = "applied"
    /\ Leave("processed")
    /\ UNCHANGED <<ledgerVars, telegramVars, tableVars, faults>>

(* Mutant: a target left unknown is taken up again.                           *)
StillOpenIfUnknown(status) == status \in {"frozen", "unknown"}

StillOpen(status) == status = "frozen"

TargetConflict ==
    /\ At("target")
    /\ op[cur] # "delivered"
    /\ \/ target[cur].status # "none" /\ target[cur].status # "applied"
          /\ ~StillOpen(target[cur].status)
       \/ target[cur].status = "none" /\ (st = <<>> \/ ActiveTurns = {})
    /\ op' = [op EXCEPT ![cur] = IF @ = "none" THEN "open" ELSE @]
    /\ ReplyError
    /\ UNCHANGED <<kind, effect, st, telegramVars, tableVars, inboxVars, faults>>

(* freeze_target, or the target an earlier attempt froze.                     *)
FreezeTarget ==
    /\ At("target")
    /\ op[cur] # "delivered"
    /\ \/ StillOpen(target[cur].status) /\ UNCHANGED target
       \/ /\ target[cur].status = "none" /\ st # <<>>
          /\ \E t \in ActiveTurns : \E rev \in {rows[t][c].version : c \in ActiveRows(t)} :
             \E s \in ActiveChunks(t) :
                /\ IsLastTurn(t) /\ RevisionIs(t, rev)
                /\ target' = [target EXCEPT ![cur] =
                      [turn |-> t, rev |-> rev, ids |-> [k \in DOMAIN s |-> rows[t][s[k]].msg],
                       status |-> "frozen"]]
    /\ op' = [op EXCEPT ![cur] = IF @ = "none" THEN "open" ELSE @]
    /\ Goto("applying")
    /\ UNCHANGED <<kind, effect, st, telegramVars, deliveries, rows, clock, inboxVars, faults>>

(* cas_target_status frozen -> applying                                       *)
StartApplying ==
    /\ At("applying")
    /\ target' = [target EXCEPT ![cur].status = "applying"]
    /\ Goto(IF kind[cur] = "redo" THEN "execute" ELSE "check")
    /\ UNCHANGED <<ledgerVars, telegramVars, deliveries, rows, clock, inboxVars, faults>>

(* assert_turn_revision before SillyTavern is asked (undo, revoke).           *)
CheckRevision ==
    /\ At("check")
    /\ IF RevisionIs(target[cur].turn, target[cur].rev)
       THEN Goto("execute") /\ UNCHANGED target
       ELSE ReplyError /\ target' = [target EXCEPT ![cur].status = "failed"]
    /\ UNCHANGED <<ledgerVars, telegramVars, deliveries, rows, clock, inboxVars, faults>>

TargetUnknown ==
    /\ target' = [target EXCEPT ![cur].status = "unknown"]
    /\ DispatchError

(* undo: retire_turn_scoped; the messages stay as they are.                   *)
RetireTurn ==
    /\ At("retire")
    /\ ActiveRows(target[cur].turn) # {}
    /\ LET t == target[cur].turn
       IN  rows' = [rows EXCEPT ![t] = [c \in Chunk |->
              IF c \in ActiveRows(t) THEN [rows[t][c] EXCEPT !.life = "retired"] ELSE rows[t][c]]]
    /\ Goto("finish")
    /\ UNCHANGED <<ledgerVars, telegramVars, deliveries, clock, target, inboxVars, faults>>

RetireFails ==
    /\ At("retire")
    /\ Fault \/ (ActiveRows(target[cur].turn) = {} /\ UNCHANGED faults)
    /\ TargetUnknown
    /\ UNCHANGED <<ledgerVars, telegramVars, deliveries, rows, clock>>

(* The Telegram message at work, and what a call that succeeds does to it.    *)
OldMessage == target[cur].ids[job.i]
Shows(m, text) == chat' = [chat EXCEPT ![m] = text]
Touches(m) == touched' = [touched EXCEPT ![cur] = @ \union {m}]
Deleted(m) == [chat[m] EXCEPT !.text = "deleted"]
Deletes(m) == chat[m].text # "deleted" /\ Shows(m, Deleted(m)) /\ Touches(m)

(* mark_status: exactly one row of the chat has the message, and it retires.  *)
RowsOf(m) ==
    {tc \in Update \X Chunk : rows[tc[1]][tc[2]].life = "active" /\ rows[tc[1]][tc[2]].msg = m}
RetireMessage(m) ==
    \E tc \in RowsOf(m) :
        /\ RowsOf(m) = {tc}
        /\ rows' = [rows EXCEPT ![tc[1]][tc[2]].life = "retired"]

(* revoke: execute_revoke_effect_scoped, the first message becomes a          *)
(* tombstone and the others are deleted; a call that fails is noted.          *)
AfterRevokeStep(bad) ==
    job' = [job EXCEPT !.bad = bad, !.i = @ + 1,
                       !.pc = IF job.i < Len(target[cur].ids) THEN "v_call" ELSE "finish"]

Revokes ==
    /\ job.i = 1 => chat[OldMessage].text # "deleted"
    /\ Shows(OldMessage, IF job.i = 1 THEN [of |-> cur, text |-> "tombstone", part |-> 0]
                                      ELSE Deleted(OldMessage))
    /\ Touches(OldMessage)

RevokeMessage ==
    /\ At("v_call")
    /\ Revokes
    /\ Goto("v_mark")
    /\ UNCHANGED <<ledgerVars, tableVars, inboxVars, faults>>

(* Telegram refuses the call, or does it and the answer is lost.              *)
RevokeCallFails ==
    /\ At("v_call")
    /\ \/ job.i = 1 /\ chat[OldMessage].text = "deleted" /\ UNCHANGED <<faults, telegramVars>>
       \/ Fault /\ UNCHANGED telegramVars
       \/ Fault /\ Revokes
    /\ AfterRevokeStep(TRUE)
    /\ UNCHANGED <<ledgerVars, tableVars, inboxVars>>

MarkRevoked ==
    /\ At("v_mark")
    /\ RetireMessage(OldMessage)
    /\ AfterRevokeStep(job.bad)
    /\ UNCHANGED <<ledgerVars, telegramVars, deliveries, clock, target, inboxVars, faults>>

(* Mutant: a row that could not be retired is only logged.                    *)
MarkRevokedFailsUnnoticed ==
    /\ At("v_mark")
    /\ Fault
    /\ AfterRevokeStep(job.bad)
    /\ UNCHANGED <<ledgerVars, telegramVars, tableVars, inboxVars>>

MarkRevokedFails ==
    /\ At("v_mark")
    /\ Fault \/ (Cardinality(RowsOf(OldMessage)) # 1 /\ UNCHANGED faults)
    /\ TargetUnknown
    /\ UNCHANGED <<ledgerVars, telegramVars, deliveries, rows, clock>>

-----------------------------------------------------------------------------
(* redo: the old messages are edited in place, a first message that cannot be *)
(* edited is replaced, further chunks are sent, surplus messages are deleted. *)
Ids == target[cur].ids

RedoNext ==
    CASE job.i <= job.n /\ job.i <= Len(Ids) -> "r_edit"
      [] job.i <= job.n /\ job.i > Len(Ids) -> "create"
      [] job.i > job.n /\ Len(Ids) > job.n -> "c_delete"
      [] OTHER -> "finish"

(* assert_turn_revision before every chunk and before the cleanup.            *)
RedoAssert ==
    /\ At("r_assert")
    /\ IF RedoNext = "finish" \/ RevisionIs(target[cur].turn, job.rev)
       THEN /\ job' = [job EXCEPT !.pc = RedoNext, !.why = "redo_chunk",
                                  !.i = IF RedoNext = "c_delete" THEN Len(Ids) ELSE @]
            /\ UNCHANGED target
       ELSE ReplyError /\ target' = [target EXCEPT ![cur].status = "failed"]
    /\ UNCHANGED <<ledgerVars, telegramVars, deliveries, rows, clock, inboxVars, faults>>

RedoText == [of |-> cur, text |-> "reply", part |-> job.i]

RedoEdit ==
    /\ At("r_edit")
    /\ chat[OldMessage].text # "deleted"
    /\ Shows(OldMessage, RedoText)
    /\ Touches(OldMessage)
    /\ Goto("r_update")
    /\ UNCHANGED <<ledgerVars, tableVars, inboxVars, faults>>

(* Telegram answers that the first message can no longer be edited, or is     *)
(* gone (is_known_uneditable): it is replaced.                                *)
RedoUneditable ==
    /\ At("r_edit") /\ job.i = 1
    /\ StartSend("replace", OldMessage)
    /\ UNCHANGED <<ledgerVars, telegramVars, tableVars, inboxVars, faults>>

RedoEditFails ==
    /\ At("r_edit")
    /\ \/ job.i > 1 /\ chat[OldMessage].text = "deleted" /\ UNCHANGED <<faults, telegramVars>>
       \/ Fault /\ UNCHANGED telegramVars
       \/ /\ Fault /\ chat[OldMessage].text # "deleted"
          /\ Shows(OldMessage, RedoText) /\ Touches(OldMessage)
    /\ TargetUnknown
    /\ UNCHANGED <<ledgerVars, deliveries, rows, clock>>

RedoUpdate ==
    /\ At("r_update")
    /\ Matches(target[cur].turn, job.i, OldMessage)
    /\ WriteRow(target[cur].turn, job.i, OldMessage, job.rev + 1)
    /\ job' = [job EXCEPT !.pc = "r_assert", !.i = @ + 1, !.rev = @ + 1]
    /\ UNCHANGED <<ledgerVars, telegramVars, deliveries, target, inboxVars, faults>>

RedoUpdateFails ==
    /\ At("r_update")
    /\ Fault \/ (~Matches(target[cur].turn, job.i, OldMessage) /\ UNCHANGED faults)
    /\ TargetUnknown
    /\ UNCHANGED <<ledgerVars, telegramVars, deliveries, rows, clock>>

(* The replaced message is deleted last.                                      *)
DeleteReplaced ==
    /\ At("r_delete")
    /\ Deletes(job.msg)
    /\ job' = [job EXCEPT !.pc = "r_assert", !.i = @ + 1, !.rev = @ + 1]
    /\ UNCHANGED <<ledgerVars, tableVars, inboxVars, faults>>

DeleteReplacedFails ==
    /\ At("r_delete")
    /\ \/ chat[job.msg].text = "deleted" /\ UNCHANGED <<faults, telegramVars>>
       \/ Fault /\ UNCHANGED telegramVars
       \/ Fault /\ Deletes(job.msg)
    /\ SetDelivery("unknown")
    /\ TargetUnknown
    /\ UNCHANGED <<ledgerVars, rows, clock>>

(* execute_redo_cleanup_scoped: the surplus messages, the last one first.     *)
DeleteSurplus ==
    /\ At("c_delete")
    /\ Deletes(OldMessage)
    /\ Goto("c_mark")
    /\ UNCHANGED <<ledgerVars, tableVars, inboxVars, faults>>

MarkDeleted ==
    /\ At("c_mark")
    /\ RetireMessage(OldMessage)
    /\ job' = [job EXCEPT !.pc = IF job.i - 1 > job.n THEN "c_delete" ELSE "finish", !.i = @ - 1]
    /\ UNCHANGED <<ledgerVars, telegramVars, deliveries, clock, target, inboxVars, faults>>

CleanupFails ==
    /\ \/ /\ At("c_delete")
          /\ \/ chat[OldMessage].text = "deleted" /\ UNCHANGED <<faults, telegramVars>>
             \/ Fault /\ UNCHANGED telegramVars
             \/ Fault /\ Deletes(OldMessage)
       \/ /\ At("c_mark")
          /\ Fault \/ (Cardinality(RowsOf(OldMessage)) # 1 /\ UNCHANGED faults)
          /\ UNCHANGED telegramVars
    /\ TargetUnknown
    /\ UNCHANGED <<ledgerVars, deliveries, rows, clock>>

-----------------------------------------------------------------------------
(* Mutant: failed_message_ids is not looked at.                               *)
FinishIgnoringFailures ==
    /\ At("finish")
    /\ target' = [target EXCEPT ![cur].status = "applied"]
    /\ IF kind[cur] = "redo" THEN Goto("delivered") ELSE StartSend("notice", 0)
    /\ UNCHANGED <<ledgerVars, telegramVars, deliveries, rows, clock, inboxVars, faults>>

(* cas_target_status applying -> applied; undo and revoke then tell the user. *)
FinishTarget ==
    /\ At("finish")
    /\ ~job.bad
    /\ target' = [target EXCEPT ![cur].status = "applied"]
    /\ IF kind[cur] = "redo" THEN Goto("delivered") ELSE StartSend("notice", 0)
    /\ UNCHANGED <<ledgerVars, telegramVars, deliveries, rows, clock, inboxVars, faults>>

(* TELEGRAM_REVOKE_CLEANUP_UNKNOWN, or the write of applied fails.            *)
FinishUnknown ==
    /\ At("finish")
    /\ (job.bad /\ UNCHANGED faults) \/ Fault
    /\ TargetUnknown
    /\ UNCHANGED <<ledgerVars, telegramVars, deliveries, rows, clock>>

(* mark_delivered: redo at once, undo and revoke when their notice is sent.   *)
MarkDelivered ==
    /\ At("delivered")
    /\ op' = [op EXCEPT ![cur] = IF kind[cur] = "redo" \/ AllSent(cur) THEN "delivered" ELSE @]
    /\ Leave("processed")
    /\ UNCHANGED <<kind, effect, st, telegramVars, tableVars, faults>>

(* A crash: the tables stay; the restart makes the update received again.  A  *)
(* command that was executing may have been applied, or be unknown.           *)
Crash ==
    /\ cur # 0
    /\ Fault
    /\ \/ UNCHANGED ledgerVars
       \/ /\ Executable
          /\ Applies \/ UNCHANGED <<st, effect>>
          /\ op' = [op EXCEPT ![cur] = "unknown"]
          /\ UNCHANGED kind
    /\ Leave("received")
    /\ UNCHANGED <<telegramVars, tableVars>>

SendStep ==
    \/ ReusePlaceholder \/ SendPlaceholder
    \/ CreateDelivery \/ MarkSending \/ MessageAccepted \/ MessageRefused \/ AnswerLost
    \/ RecordRow \/ ReplaceRow \/ RecordFails \/ ConfirmSent \/ ConfirmFails
    \/ EditPlaceholder \/ EditFails \/ UpdateChunk \/ UpdateChunkFails \/ Settle

ExecuteStep ==
    ExecuteCommits \/ ExecuteFails \/ ExecuteAmbiguous \/ ExecuteReplays

TurnStep ==
    \/ AlreadyDone \/ TargetConflict \/ FreezeTarget \/ StartApplying \/ CheckRevision
    \/ RetireTurn \/ RetireFails
    \/ RevokeMessage \/ RevokeCallFails \/ MarkRevoked \/ MarkRevokedFails
    \/ RedoAssert \/ RedoEdit \/ RedoUneditable \/ RedoEditFails
    \/ RedoUpdate \/ RedoUpdateFails \/ DeleteReplaced \/ DeleteReplacedFails
    \/ DeleteSurplus \/ MarkDeleted \/ CleanupFails
    \/ FinishTarget \/ FinishUnknown \/ MarkDelivered

Next ==
    \/ \E u \in Update : Claim(u) \/ Reconcile(u)
    \/ SendStep \/ ExecuteStep \/ TurnStep
    \/ Crash

Spec == Init /\ [][Next]_vars

-----------------------------------------------------------------------------
TurnCommand(u) == kind[u] # "send"

(* Nothing the user already sees is edited or deleted for an undo, a revoke   *)
(* or a redo before SillyTavern confirmed it (undo_turn, revoke_turn,         *)
(* redo_turn; the test revoke_edits_tombstone_and_deletes_extras_strictly_    *)
(* after_commit, with crashes and ambiguous commits).                         *)
CleanupAfterCommit ==
    \A u \in Update : touched[u] # {} => effect[u] # 0 /\ op[u] \in {"committed", "delivered"}

(* A settled target is final: whatever attempt of its update comes, nothing   *)
(* is edited, deleted or asked of SillyTavern for it again                    *)
(* (load_frozen_target's status in undo_turn, revoke_turn and redo_turn).     *)
SettledTargetIsFinal ==
    [][\A u \in Update :
          target[u].status \in {"applied", "failed", "unknown"} =>
              /\ target'[u] = target[u]
              /\ touched'[u] = touched[u]
              /\ effect'[u] = effect[u]]_vars

(* Each part of a reply is in at most one message of the chat, through lost   *)
(* answers, failed writes, crashes and retries (stream_sink, finalize,        *)
(* send_turn_chunk_scoped: what was accepted is never sent again).            *)
ReplyShownOnce ==
    \A m, k \in DOMAIN chat :
        chat[m].text = "reply" /\ chat[k] = chat[m] => m = k

(* The commands on turn t that ended, or may yet end, without a conclusion.   *)
Unfinished(t) == {u \in Update : target[u].turn = t /\ target[u].status \in {"applying", "unknown"}}

(* A send counts as complete only if the ledger knows every message of it:    *)
(* each message the chat still shows for a processed and delivered send has   *)
(* its row, unless a redo of it was left unfinished (process_and_deliver's    *)
(* check of the deliveries, replace_turn_chunk_scoped).                       *)
CompleteSendIsTracked ==
    \A u \in Update :
        kind[u] = "send" /\ inbox[u] = "processed" /\ op[u] = "delivered" /\ Unfinished(u) = {} =>
            \A m \in DOMAIN chat :
                chat[m].of = u /\ chat[m].text # "deleted" =>
                    \E t \in Update, c \in Chunk : rows[t][c].msg = m

(* Between updates an active row names a message that is still in the chat,   *)
(* unless a command that touched it was left unfinished (mark_status after    *)
(* deleteMessage, replace_turn_chunk_scoped).                                 *)
ActiveRowIsShown ==
    cur = 0 => \A t \in Update : \A c \in ActiveRows(t) :
        \/ chat[rows[t][c].msg].text \notin {"deleted", "tombstone"}
        \/ \E u \in Unfinished(t) : rows[t][c].msg \in touched[u]

(* The render_version of a row never goes back, whichever of a retried send   *)
(* and a later redo writes it last (update_turn_chunk_scoped,                 *)
(* replace_turn_chunk_scoped).                                                *)
RenderVersionGrows ==
    [][\A t \in Update, c \in Chunk : rows'[t][c].version >= rows[t][c].version]_vars

(* Every update was taken up at most once; the sends committed, the turn       *)
(* commands settled as applied or found nothing to do.                         *)
Undisturbed ==
    \A u \in Update :
        /\ attempts[u] <= 1
        /\ attempts[u] = 1 =>
              \/ kind[u] = "send" /\ op[u] \in {"committed", "delivered"} /\ rows[u][1].life # "none"
              \/ TurnCommand(u) /\ target[u].status = "applied"
              \/ TurnCommand(u) /\ target[u].status = "none" /\ effect[u] = 0

(* While the chat is undisturbed, the active rows are those of the turns       *)
(* SillyTavern has, and the turn a command froze is the one SillyTavern        *)
(* removed or rewrote, although the two look for "the last turn" in different  *)
(* stores (find_last_turn against GetLastTurn).                                *)
TurnsAgree ==
    cur = 0 /\ Undisturbed =>
        /\ ActiveTurns = {st[i] : i \in DOMAIN st}
        /\ \A u \in Update : target[u].status = "applied" => target[u].turn = effect[u]
=============================================================================
