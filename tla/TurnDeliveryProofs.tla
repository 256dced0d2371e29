-------------------------- MODULE TurnDeliveryProofs --------------------------
(* Proofs about TurnDelivery, for any number of updates, attempts, messages   *)
(* of a reply and faults.                                                     *)
(*                                                                            *)
(* Everything rests on where the update at work can be (Place): each step of  *)
(* process_and_deliver is reached only with the row of the operation and the  *)
(* frozen target in the state the earlier steps left them in.                 *)
(*                                                                            *)
(* The lemmas Next... say what every step keeps.  Their proofs begin with     *)
(* named steps, one per way to move on and one per group of actions.          *)
EXTENDS TurnDelivery, TLAPS

JobFields == {"pc", "why", "i", "n", "rev", "msg", "dlv", "bad"}
TargetFields == {"turn", "rev", "ids", "status"}
Confirmed == {"committed", "delivered"}

Tables ==
    /\ kind \in [Update -> Kinds]
    /\ op \in [Update -> {"none", "open", "unknown", "committed", "delivered", "failed"}]
    /\ effect \in [Update -> 0 .. NumUpdates]
    /\ st \in Seq(Update)
    /\ DOMAIN target = Update /\ \A u \in Update : DOMAIN target[u] = TargetFields
    /\ DOMAIN touched = Update
    /\ cur \in 0 .. NumUpdates
    /\ DOMAIN job = JobFields

(* A message is being sent for one of these reasons.                          *)
Sending(whys) == job.pc \in SendLabels /\ job.why \in whys

(* The turn command at work has its target and did nothing yet; ...           *)
Open(status) ==
    /\ kind[cur] # "send" /\ target[cur].status = status
    /\ op[cur] = "open" /\ effect[cur] = 0

(* ... or SillyTavern confirmed it, and its messages are brought up to date.  *)
Cleaning ==
    \/ job.pc \in {"retire", "v_call", "v_mark", "r_assert", "r_edit", "r_update",
                   "r_delete", "c_delete", "c_mark", "finish"}
    \/ Sending({"redo_chunk", "replace"})

Place ==
    /\ cur = 0 <=> job.pc = "idle"
    /\ job.pc \in SendLabels =>
          job.why \in {"placeholder", "chunk", "redo_chunk", "replace", "notice", "error"}
    /\ job.pc = "record" => HasRow
    /\ job.pc = "confirm" => job.why # "replace"
    /\ job.pc \in {"sink", "edit", "update", "settle"} => kind[cur] = "send"
    /\ Sending({"placeholder", "chunk"}) => kind[cur] = "send"
    /\ job.pc \in {"edit", "update"} => job.why \in {"reply", "failure"}
    /\ job.pc \in {"edit", "update"} /\ job.why = "reply" => op[cur] = "committed"
    /\ Sending({"chunk"}) => op[cur] = "committed"
    /\ job.pc = "execute" => kind[cur] = "send" \/ Open("applying")
    /\ job.pc = "target" => kind[cur] # "send"
    /\ job.pc = "applying" => Open("frozen")
    /\ job.pc = "check" => Open("applying")
    /\ Cleaning =>
          /\ kind[cur] # "send" /\ target[cur].status = "applying"
          /\ op[cur] = "committed" /\ effect[cur] # 0
    /\ job.pc = "delivered" \/ Sending({"notice"}) =>
          kind[cur] # "send" /\ target[cur].status = "applied" /\ op[cur] = "committed"

(* What is left of an update, between its attempts too.                       *)
History(u) ==
    /\ kind[u] = "send" => target[u].status = "none" /\ touched[u] = {}
    /\ kind[u] # "send" /\ target[u].status \in {"none", "frozen"} =>
          op[u] \in {"none", "open"} /\ effect[u] = 0
    /\ touched[u] # {} => effect[u] # 0 /\ op[u] \in Confirmed

Safe == Tables /\ Place /\ \A u \in Update : History(u)

(* What a step may not do to a settled target.                                *)
Settled == {"applied", "failed", "unknown"}
FinalStep ==
    \A u \in Update :
        target[u].status \in Settled =>
            target'[u] = target[u] /\ touched'[u] = touched[u] /\ effect'[u] = effect[u]

(* An operation that SillyTavern confirmed stays confirmed.                   *)
ConfirmedStays == \A u \in Update : op[u] \in Confirmed => op'[u] \in Confirmed

Keeps == Safe' /\ FinalStep /\ ConfirmedStays

-----------------------------------------------------------------------------
(* At the start no update was taken up.                                       *)
LEMMA InitSafe == Init => Safe
<1>. SUFFICES ASSUME Init PROVE Safe
  BY Zenon
<1>1. Tables
  <2>1. 0 \in 0 .. NumUpdates BY BoundsAssumption
  <2>2. st \in Seq(Update) BY DEF Init
  <2>. QED BY <2>1, <2>2, Zenon DEF Init, Tables, NoTarget, TargetFields, Idle, JobFields
<1>2. Place BY Zenon DEF Init, Place, Idle, SendLabels, Sending, Cleaning
<1>3. \A u \in Update : History(u) BY Zenon DEF Init, History, NoTarget
<1>. QED BY <1>1, <1>2, <1>3, Zenon DEF Safe

(* A step of process_and_deliver belongs to an update.                        *)
LEMMA AtWork ==
    ASSUME Safe, job.pc # "idle"
    PROVE  cur \in Update /\ cur # 0
BY BoundsAssumption DEF Safe, Place, Tables, Update

-----------------------------------------------------------------------------
(* A step that leaves the rows of all updates alone.                          *)
Same == UNCHANGED <<kind, op, effect, st, target, touched, cur>>

(* stream_sink: on to the execution, or to a new placeholder.                 *)
LEMMA SinkMoves ==
    ASSUME DOMAIN job = JobFields, ReusePlaceholder \/ SendPlaceholder
    PROVE  /\ job'.pc = "execute" \/ (job'.pc = "create" /\ job'.why = "placeholder")
           /\ DOMAIN job' = JobFields
           /\ job'.i = job.i /\ job'.n = job.n /\ job'.rev \in {1, job.rev}
<1>1. CASE ReusePlaceholder
  <2>1. PICK d, m : job' = [job EXCEPT !.pc = "execute", !.dlv = d, !.msg = m, !.rev = 1]
    BY <1>1, Zenon DEF ReusePlaceholder
  <2>2. DOMAIN job' = DOMAIN job BY <2>1, Zenon
  <2>3. {"pc", "i", "n", "rev"} \subseteq DOMAIN job BY Zenon DEF JobFields
  <2>. QED BY <2>1, <2>2, <2>3, Zenon
<1>2. CASE SendPlaceholder
  <2>1. StartSend("placeholder", 0) BY <1>2, Zenon DEF SendPlaceholder
  <2>. QED BY <2>1, Zenon DEF StartSend, JobFields
<1>. QED BY <1>1, <1>2, Zenon

-----------------------------------------------------------------------------
(* The operation at work is not settled when it is executed.                  *)
LEMMA Executing ==
    ASSUME Safe, Executable
    PROVE  /\ cur \in Update /\ cur # 0 /\ touched[cur] = {} /\ op[cur] \notin Confirmed
           /\ target[cur].status \notin Settled
           /\ kind[cur] # "send" => Open("applying")
           /\ kind[cur] = "send" => target[cur].status = "none"
<1>1. cur \in Update /\ cur # 0 /\ job.pc = "execute" /\ op[cur] \in {"none", "open"}
  BY AtWork, Zenon DEF Executable, At
<1>2. kind[cur] # "send" => Open("applying") BY <1>1, Zenon DEF Safe, Place
<1>3. History(cur) BY <1>1, Zenon DEF Safe
<1>. QED BY <1>1, <1>2, <1>3, Zenon DEF History, Open, Settled, Confirmed

-----------------------------------------------------------------------------
(* A turn command brings its messages up to date.                             *)
CleaningLabels == {"retire", "v_call", "v_mark", "r_assert", "r_edit", "r_update",
                   "r_delete", "c_delete", "c_mark", "finish"}
MayTouch == touched' = touched \/ \E m : Touches(m)

(* The command is confirmed by then, and its target is being applied.         *)
LEMMA Cleaned ==
    ASSUME Safe, Cleaning
    PROVE  /\ cur \in Update /\ cur # 0 /\ kind[cur] # "send" /\ target[cur].status = "applying"
           /\ op[cur] = "committed" /\ effect[cur] # 0
<1>1. job.pc # "idle" BY Zenon DEF Cleaning, Sending, SendLabels
<1>. QED BY <1>1, AtWork, Zenon DEF Safe, Place

(* Every step keeps Safe, and what is settled or confirmed.                   *)
LEMMA NextKeeps == Safe /\ [Next]_vars => Keeps
(* A step on behalf of the update at work.                                    *)
<1>StepKeeps.
    ASSUME Safe, NEW v \in Update, v = cur, kind' = kind, Tables', Place', History(v)',
           \A u \in Update \ {cur} : op'[u] = op[u] /\ effect'[u] = effect[u]
                                     /\ target'[u] = target[u] /\ touched'[u] = touched[u],
           \/ target[cur].status \notin Settled
           \/ target'[cur] = target[cur] /\ touched'[cur] = touched[cur] /\ effect'[cur] = effect[cur],
           op[cur] \in Confirmed => op'[cur] \in Confirmed
    PROVE  Keeps
  <2>. USE <1>StepKeeps
  <2>1. \A u \in Update \ {cur} : History(u)' BY ZenonT(30) DEF Safe, History
  <2>2. \A u \in Update : History(u)' BY <2>1, Zenon
  <2>3. FinalStep BY Zenon DEF FinalStep
  <2>4. ConfirmedStays BY Zenon DEF ConfirmedStays
  <2>. QED BY <2>2, <2>3, <2>4, Zenon DEF Safe, Keeps
(* A step that only moves on.                                                 *)
<1>MoveKeeps.
    ASSUME Safe, UNCHANGED <<kind, op, effect, st, target, touched>>,
           DOMAIN job' = JobFields, cur' \in 0 .. NumUpdates, Place'
    PROVE  Keeps
  BY <1>MoveKeeps, Zenon DEF Safe, Tables, History, Keeps, FinalStep, ConfirmedStays
(* The processing ends, or a text is sent about its error.                    *)
<1>LeavePlace.
    ASSUME NEW s, Leave(s)
    PROVE  Place' /\ DOMAIN job' = JobFields /\ cur' \in 0 .. NumUpdates
  <2>. USE <1>LeavePlace
  <2>1. cur' = 0 /\ job'.pc = "idle" /\ DOMAIN job' = JobFields BY Zenon DEF Leave, Idle, JobFields
  <2>2. Place' BY <2>1, Zenon DEF Place, Sending, Cleaning, SendLabels
  <2>. QED BY <2>1, <2>2, BoundsAssumption
<1>ErrorPlace.
    ASSUME Safe, cur \in Update, ReplyError, cur' = cur
    PROVE  Place' /\ DOMAIN job' = JobFields /\ cur' \in 0 .. NumUpdates
  <2>. USE <1>ErrorPlace
  <2>1. job'.pc = "create" /\ job'.why = "error" /\ DOMAIN job' = JobFields
    BY Zenon DEF ReplyError, StartSend, Safe, Tables, JobFields
  <2>2. cur' # 0 /\ cur' \in 0 .. NumUpdates BY BoundsAssumption DEF Update
  <2>3. Place' BY <2>1, <2>2, Zenon DEF Place, Sending, Cleaning, SendLabels
  <2>. QED BY <2>1, <2>2, <2>3, Zenon
<1>ErrorEnds.
    ASSUME Safe, cur \in Update, DispatchError
    PROVE  Place' /\ DOMAIN job' = JobFields /\ cur' \in 0 .. NumUpdates
  BY <1>ErrorEnds, <1>LeavePlace, <1>ErrorPlace, Zenon DEF DispatchError, inboxVars
(* A target that ends badly.                                                  *)
<1>TargetEnds.
    ASSUME Safe, cur \in Update, kind[cur] # "send", target[cur].status \notin Settled,
           NEW s \in {"unknown", "failed"}, target' = [target EXCEPT ![cur].status = s],
           kind' = kind, Place', DOMAIN job' = JobFields, cur' \in 0 .. NumUpdates,
           op' \in [Update -> {"none", "open", "unknown", "committed", "delivered", "failed"}],
           effect' \in [Update -> 0 .. NumUpdates], st' \in Seq(Update),
           \A u \in Update \ {cur} : op'[u] = op[u] /\ effect'[u] = effect[u],
           DOMAIN touched' = Update, \A u \in Update \ {cur} : touched'[u] = touched[u],
           touched'[cur] # {} => effect'[cur] # 0 /\ op'[cur] \in Confirmed,
           op[cur] \in Confirmed => op'[cur] \in Confirmed
    PROVE  Keeps
  <2>. USE <1>TargetEnds
  <2>1. /\ DOMAIN target' = Update /\ \A u \in Update : DOMAIN target'[u] = TargetFields
        /\ target'[cur].status = s /\ \A u \in Update \ {cur} : target'[u] = target[u]
    BY Zenon DEF Safe, Tables, TargetFields
  <2>2. Tables' BY <2>1, Zenon DEF Safe, Tables
  <2>3. PICK v \in Update : v = cur BY Zenon
  <2>4. History(v)' BY <2>1, <2>3, Zenon DEF Safe, History
  <2>. QED BY <2>1, <2>2, <2>3, <2>4, <1>StepKeeps, Zenon
<1>GoKeeps.
    ASSUME Safe, cur \in Update, Same, DOMAIN job' = JobFields, Place'
    PROVE  Keeps
  <2>. USE <1>GoKeeps
  <2>1. cur' \in 0 .. NumUpdates BY Zenon DEF Safe, Tables, Same
  <2>. QED BY <2>1, <1>MoveKeeps, Zenon DEF Same
(* What follows a message that could not be sent or recorded.                 *)
<1>FailedSend.
    ASSUME Safe, job.pc \in SendLabels, SendFailed,
           UNCHANGED <<kind, op, effect, st, touched>>
    PROVE  Keeps
  <2>. USE <1>FailedSend
  <2>1. cur \in Update /\ cur # 0 BY AtWork, Zenon DEF SendLabels
  <2>2. CASE job.why = "chunk"
    <3>1. Same /\ job'.pc = "settle" /\ DOMAIN job' = JobFields
      BY <2>2, Zenon DEF SendFailed, Goto, Same, inboxVars, Safe, Tables, JobFields
    <3>2. kind[cur] = "send" BY <2>2, Zenon DEF Safe, Place, Sending
    <3>3. Place' BY <2>1, <3>1, <3>2, Zenon DEF Place, Sending, Cleaning, SendLabels, Same
    <3>. QED BY <2>1, <3>1, <3>3, <1>GoKeeps, Zenon
  <2>3. CASE job.why \in {"redo_chunk", "replace"}
    <3>1. kind[cur] # "send" /\ target[cur].status \notin Settled
      BY <2>3, Zenon DEF Safe, Place, Cleaning, Sending, Settled
    <3>2. target' = [target EXCEPT ![cur].status = "unknown"] /\ DispatchError
      BY <2>3, Zenon DEF SendFailed
    <3>3. Place' /\ DOMAIN job' = JobFields /\ cur' \in 0 .. NumUpdates
      BY <2>1, <3>2, <1>ErrorEnds, Zenon
    <3>4. touched[cur] # {} => effect[cur] # 0 /\ op[cur] \in Confirmed
      BY <2>1, Zenon DEF Safe, History
    <3>. QED BY <2>1, <3>1, <3>2, <3>3, <3>4, <1>TargetEnds, Zenon DEF Safe, Tables
  <2>4. CASE job.why \notin {"chunk", "redo_chunk", "replace"}
    <3>1. Leave("failed") /\ UNCHANGED target BY <2>4, Zenon DEF SendFailed
    <3>. QED BY <3>1, <1>LeavePlace, <1>MoveKeeps, Zenon
  <2>. QED BY <2>2, <2>3, <2>4, Zenon
(* The steps of one message.                                                  *)
<1>MessageKeeps.
    ASSUME Safe,
           \/ ReusePlaceholder \/ SendPlaceholder
           \/ CreateDelivery \/ MarkSending \/ MessageAccepted \/ MessageRefused \/ AnswerLost
           \/ RecordRow \/ ReplaceRow \/ RecordFails \/ ConfirmSent \/ ConfirmFails
    PROVE  Keeps
  <2>. USE <1>MessageKeeps
  <2>. USE DEF SendLabels
  <2>0. cur \in Update /\ cur # 0
    BY AtWork, Zenon DEF ReusePlaceholder, SendPlaceholder, CreateDelivery, MarkSending, MessageAccepted,
       MessageRefused, AnswerLost, RecordRow, ReplaceRow, RecordFails, ConfirmSent, ConfirmFails, At
  <2>a. DOMAIN job = JobFields BY Zenon DEF Safe, Tables
  <2>1. CASE ReusePlaceholder \/ SendPlaceholder
    <3>1. Same /\ job.pc = "sink"
      BY <2>1, Zenon DEF ReusePlaceholder, SendPlaceholder, Same, ledgerVars, telegramVars, tableVars,
                         inboxVars, At
    <3>a. kind[cur] = "send" BY <3>1, Zenon DEF Safe, Place
    <3>2. /\ job'.pc = "execute" \/ (job'.pc = "create" /\ job'.why = "placeholder")
          /\ DOMAIN job' = JobFields
      BY <2>1, <2>a, SinkMoves, Zenon
    <3>3. Place' BY <2>0, <3>a, <3>1, <3>2, Zenon DEF Place, Sending, Cleaning, Same
    <3>. QED BY <2>0, <3>1, <3>2, <3>3, <1>GoKeeps, Zenon
  <2>2. CASE CreateDelivery \/ MarkSending
    <3>1. Same /\ job.pc \in {"create", "mark"}
      BY <2>2, Zenon DEF CreateDelivery, MarkSending, Same, ledgerVars, telegramVars, inboxVars, At
    <3>2. job'.pc \in {"mark", "call"} /\ job'.why = job.why /\ DOMAIN job' = JobFields
      BY <2>2, <2>a, Zenon DEF CreateDelivery, MarkSending, Goto, JobFields
    <3>3. Place' BY <2>0, <3>1, <3>2, Zenon DEF Safe, Place, Sending, Cleaning, Same, Open
    <3>. QED BY <2>0, <3>1, <3>2, <3>3, <1>GoKeeps, Zenon
  <2>3. CASE MessageAccepted
    <3>1. Same /\ job.pc = "call"
      BY <2>3, Zenon DEF MessageAccepted, Same, ledgerVars, tableVars, inboxVars, At
    <3>2. /\ job'.why = job.why /\ DOMAIN job' = JobFields
          /\ job'.pc = IF HasRow THEN "record" ELSE "confirm"
      BY <2>3, <2>a, Zenon DEF MessageAccepted, Goto, JobFields
    <3>3. Place' BY <2>0, <3>1, <3>2, Zenon DEF Safe, Place, Sending, Cleaning, Same, Open, HasRow
    <3>. QED BY <2>0, <3>1, <3>2, <3>3, <1>GoKeeps, Zenon
  <2>4. CASE MessageRefused \/ AnswerLost \/ RecordFails \/ ConfirmFails
    <3>1. UNCHANGED <<kind, op, effect, st, touched>> /\ job.pc \in SendLabels /\ SendFailed
      BY <2>4, Zenon DEF MessageRefused, AnswerLost, RecordFails, ConfirmFails, ledgerVars, telegramVars, At
    <3>. QED BY <3>1, <1>FailedSend, Zenon
  <2>5. CASE RecordRow \/ ReplaceRow
    <3>1. Same /\ job.pc = "record"
      BY <2>5, Zenon DEF RecordRow, ReplaceRow, Same, ledgerVars, telegramVars, inboxVars, At
    <3>2. /\ job'.why = job.why /\ DOMAIN job' = JobFields
          /\ \/ job.why # "replace" /\ job'.pc = "confirm"
             \/ job.why = "replace" /\ job'.pc = "r_delete"
      BY <2>5, <2>a, Zenon DEF RecordRow, ReplaceRow, Goto, JobFields
    <3>3. Place' BY <2>0, <3>1, <3>2, Zenon DEF Safe, Place, Sending, Cleaning, Same, Open, HasRow
    <3>. QED BY <2>0, <3>1, <3>2, <3>3, <1>GoKeeps, Zenon
  <2>6. CASE ConfirmSent
    <3>1. job.pc = "confirm" /\ UNCHANGED <<kind, op, effect, st, target, touched>>
      BY <2>6, Zenon DEF ConfirmSent, ledgerVars, telegramVars, At
    <3>2. job.why \in {"placeholder", "chunk", "redo_chunk", "notice", "error"}
      BY <3>1, Zenon DEF Safe, Place
    <3>3. CASE job.why = "error"
      <4>1. Leave("processed") BY <2>6, <3>3, Zenon DEF ConfirmSent
      <4>. QED BY <3>1, <4>1, <1>LeavePlace, <1>MoveKeeps, Zenon
    <3>4. CASE job.why # "error"
      <4>1. /\ cur' = cur /\ DOMAIN job' = JobFields /\ job'.why = job.why
            /\ \/ job.why = "placeholder" /\ job'.pc = "execute"
               \/ job.why = "chunk" /\ job'.pc \in {"settle", "create"}
               \/ job.why = "redo_chunk" /\ job'.pc = "r_assert"
               \/ job.why = "notice" /\ job'.pc = "delivered"
        BY <2>6, <2>a, <3>2, <3>4, Zenon DEF ConfirmSent, Goto, JobFields, inboxVars
      <4>2. Place' BY <2>0, <3>1, <4>1, Zenon DEF Safe, Place, Sending, Cleaning, Open, HasRow
      <4>. QED BY <2>0, <3>1, <4>1, <4>2, <1>GoKeeps, Zenon DEF Same
    <3>. QED BY <3>3, <3>4, Zenon
  <2>. QED BY <2>1, <2>2, <2>3, <2>4, <2>5, <2>6, Zenon
(* finalize: the edit of the placeholder, its row, and the settling.          *)
<1>EditKeeps.
    ASSUME Safe,
           EditPlaceholder \/ EditFails \/ UpdateChunk \/ UpdateChunkFails \/ Settle
    PROVE  Keeps
  <2>. USE <1>EditKeeps
  <2>0. cur \in Update /\ cur # 0
    BY AtWork, Zenon DEF EditPlaceholder, EditFails, UpdateChunk, UpdateChunkFails, Settle, At
  <2>a. DOMAIN job = JobFields /\ Place BY Zenon DEF Safe, Tables
  <2>1. CASE EditPlaceholder
    <3>1. Same /\ job.pc = "edit"
      BY <2>1, Zenon DEF EditPlaceholder, Same, ledgerVars, tableVars, inboxVars, At
    <3>2. job'.pc = "update" /\ job'.why = job.why /\ DOMAIN job' = JobFields
      BY <2>1, <2>a, Zenon DEF EditPlaceholder, Goto, JobFields
    <3>3. Place' BY <2>0, <2>a, <3>1, <3>2, Zenon DEF Place, Sending, Cleaning, Same, SendLabels
    <3>. QED BY <2>0, <3>1, <3>2, <3>3, <1>GoKeeps, Zenon
  <2>2. CASE EditFails \/ UpdateChunkFails
    <3>1. /\ UNCHANGED <<kind, op, effect, st, target, touched>>
          /\ job.pc \in {"edit", "update"} /\ FinalizeFailed
      BY <2>2, Zenon DEF EditFails, UpdateChunkFails, ledgerVars, telegramVars, At
    <3>2. CASE job.why = "reply"
      <4>1. Same /\ job'.pc = "settle" /\ DOMAIN job' = JobFields
        BY <2>a, <3>1, <3>2, Zenon DEF FinalizeFailed, Goto, Same, inboxVars, JobFields
      <4>2. Place' BY <2>0, <2>a, <3>1, <4>1, Zenon DEF Place, Sending, Cleaning, Same, SendLabels
      <4>. QED BY <2>0, <4>1, <4>2, <1>GoKeeps, Zenon
    <3>3. CASE job.why # "reply"
      <4>1. Leave("failed") BY <3>1, <3>3, Zenon DEF FinalizeFailed
      <4>. QED BY <3>1, <4>1, <1>LeavePlace, <1>MoveKeeps, Zenon
    <3>. QED BY <3>2, <3>3, Zenon
  <2>3. CASE UpdateChunk
    <3>1. UNCHANGED <<kind, op, effect, st, target, touched>> /\ job.pc = "update"
      BY <2>3, Zenon DEF UpdateChunk, ledgerVars, telegramVars, At
    <3>2. CASE job.why = "failure"
      <4>1. Leave("processed") BY <2>3, <3>2, Zenon DEF UpdateChunk
      <4>. QED BY <3>1, <4>1, <1>LeavePlace, <1>MoveKeeps, Zenon
    <3>3. CASE job.why # "failure"
      <4>1. /\ job' = [job EXCEPT !.pc = IF job.n = 1 THEN "settle" ELSE "create",
                                  !.why = "chunk", !.i = 2, !.rev = @ + 1]
            /\ cur' = cur
        BY <2>3, <3>3, Zenon DEF UpdateChunk, inboxVars
      <4>2. job'.pc \in {"settle", "create"} /\ job'.why = "chunk" /\ DOMAIN job' = JobFields
        BY <2>a, <4>1, Zenon DEF JobFields
      <4>3. job.why = "reply" /\ op[cur] = "committed" BY <2>a, <3>1, <3>3, Zenon DEF Place
      <4>4. Place'
        BY <2>0, <2>a, <3>1, <4>1, <4>2, <4>3, Zenon DEF Place, Sending, Cleaning, SendLabels
      <4>. QED BY <2>0, <3>1, <4>1, <4>2, <4>4, <1>GoKeeps, Zenon DEF Same
    <3>. QED BY <3>2, <3>3, Zenon
  <2>4. CASE Settle
    <3>1. /\ UNCHANGED <<kind, effect, st, target, touched>> /\ job.pc = "settle"
          /\ \E s : Leave(s)
      BY <2>4, Zenon DEF Settle, telegramVars, tableVars, At
    <3>2. Place' /\ DOMAIN job' = JobFields /\ cur' \in 0 .. NumUpdates
      BY <3>1, <1>LeavePlace, Zenon
    <3>3. op' = [op EXCEPT ![cur] = IF AllSent(cur) /\ @ = "committed" THEN "delivered" ELSE @]
      BY <2>4, Zenon DEF Settle
    <3>4. /\ op' \in [Update -> {"none", "open", "unknown", "committed", "delivered", "failed"}]
          /\ \A u \in Update \ {cur} : op'[u] = op[u]
          /\ op[cur] \in Confirmed => op'[cur] \in Confirmed
      BY <2>0, <3>3, Zenon DEF Safe, Tables, Confirmed
    <3>5. PICK v \in Update : v = cur BY <2>0, Zenon
    <3>6. kind[v] = "send" BY <2>a, <3>1, <3>5, Zenon DEF Place
    <3>7. History(v)' BY <3>1, <3>5, <3>6, Zenon DEF Safe, History
    <3>8. Tables' BY <3>1, <3>2, <3>4, Zenon DEF Safe, Tables
    <3>. QED BY <3>1, <3>2, <3>4, <3>5, <3>7, <3>8, <1>StepKeeps, Zenon
  <2>. QED BY <2>1, <2>2, <2>3, <2>4, Zenon
(* SillyTavern applies it: a turn is added, removed or rewritten.             *)
<1>AppliesTypes.
    ASSUME Safe, cur \in Update, Applies
    PROVE  /\ st' \in Seq(Update) /\ effect' \in [Update -> 0 .. NumUpdates] /\ effect'[cur] # 0
           /\ \A u \in Update \ {cur} : effect'[u] = effect[u]
  <2>. USE <1>AppliesTypes
  <2>1. /\ st \in Seq(Update) /\ effect \in [Update -> 0 .. NumUpdates]
    BY Zenon DEF Safe, Tables
  <2>2. \A x \in Update : x # 0 /\ x \in 0 .. NumUpdates BY BoundsAssumption DEF Update
  <2>3. CASE kind[cur] = "send"
    <3>1. st' = Append(st, cur) /\ effect' = [effect EXCEPT ![cur] = cur]
      BY <2>3, Zenon DEF Applies
    <3>. QED BY <2>1, <2>2, <3>1
  <2>4. CASE kind[cur] # "send"
    <3>1. /\ st # <<>> /\ effect' = [effect EXCEPT ![cur] = st[Len(st)]]
          /\ st' = st \/ st' = SubSeq(st, 1, Len(st) - 1)
      BY <2>4, Zenon DEF Applies
    <3>2. st[Len(st)] \in Update /\ Len(st) - 1 \in 0 .. Len(st) BY <2>1, <3>1
    <3>3. SubSeq(st, 1, Len(st) - 1) \in Seq(Update) BY <2>1, <3>2
    <3>. QED BY <2>1, <2>2, <3>1, <3>2, <3>3, Zenon
  <2>. QED BY <2>3, <2>4, Zenon
(* The engine ends with an error.                                             *)
<1>ExecuteEnds.
    ASSUME Safe, Executable, NEW o \in {"failed", "open", "unknown"}, NEW s \in {"failed", "unknown"},
           op' = [op EXCEPT ![cur] = o], Applies \/ UNCHANGED <<st, effect>>, ExecuteError(s),
           kind' = kind, touched' = touched
    PROVE  Keeps
  <2>. USE <1>ExecuteEnds
  <2>1. /\ cur \in Update /\ cur # 0 /\ touched[cur] = {} /\ op[cur] \notin Confirmed
        /\ target[cur].status \notin Settled
    BY Executing, Zenon
  <2>2. /\ st' \in Seq(Update) /\ effect' \in [Update -> 0 .. NumUpdates]
        /\ \A u \in Update \ {cur} : effect'[u] = effect[u]
    BY <2>1, <1>AppliesTypes, Zenon DEF Safe, Tables
  <2>3. /\ op' \in [Update -> {"none", "open", "unknown", "committed", "delivered", "failed"}]
        /\ \A u \in Update \ {cur} : op'[u] = op[u]
    BY <2>1, Zenon DEF Safe, Tables
  <2>4. CASE kind[cur] = "send"
    <3>1. /\ job' = [job EXCEPT !.pc = "edit", !.why = "failure", !.i = 1, !.n = 1]
          /\ target' = target /\ cur' = cur
      BY <2>4, Zenon DEF ExecuteError, inboxVars
    <3>2. DOMAIN job = JobFields BY Zenon DEF Safe, Tables
    <3>3. job'.pc = "edit" /\ job'.why = "failure" /\ DOMAIN job' = JobFields
      BY <3>1, <3>2, Zenon DEF JobFields
    <3>4. Place' BY <2>1, <2>4, <3>1, <3>3, Zenon DEF Place, Sending, Cleaning, SendLabels
    <3>5. Tables' BY <2>2, <2>3, <3>1, <3>3, Zenon DEF Safe, Tables
    <3>6. PICK v \in Update : v = cur BY <2>1, Zenon
    <3>7. History(v)' BY <2>1, <2>4, <3>1, <3>6, Zenon DEF Safe, History
    <3>. QED BY <2>1, <2>2, <2>3, <3>1, <3>4, <3>5, <3>6, <3>7, <1>StepKeeps, Zenon
  <2>5. CASE kind[cur] # "send"
    <3>1. target' = [target EXCEPT ![cur].status = s] /\ DispatchError
      BY <2>5, Zenon DEF ExecuteError
    <3>2. Place' /\ DOMAIN job' = JobFields /\ cur' \in 0 .. NumUpdates
      BY <2>1, <3>1, <1>ErrorEnds, Zenon
    <3>3. DOMAIN touched = Update BY Zenon DEF Safe, Tables
    <3>. QED BY <2>1, <2>2, <2>3, <2>5, <3>1, <3>2, <3>3, <1>TargetEnds, Zenon
  <2>. QED BY <2>4, <2>5, Zenon
<1>ExecuteKeeps.
    ASSUME Safe, ExecuteStep
    PROVE  Keeps
  <2>. USE <1>ExecuteKeeps
  <2>a. DOMAIN job = JobFields /\ Place BY Zenon DEF Safe, Tables
  <2>1. CASE ExecuteReplays
    <3>1. /\ Same /\ job.pc = "execute"
          /\ op[cur] \in {"committed", "delivered", "unknown", "failed"}
          /\ Goto("settle") \/ job' = [job EXCEPT !.pc = "edit", !.why = "failure", !.i = 1, !.n = 1]
      BY <2>1, Zenon DEF ExecuteReplays, Same, ledgerVars, telegramVars, tableVars, inboxVars, At
    <3>2. cur \in Update /\ cur # 0 BY <3>1, AtWork, Zenon
    <3>3. kind[cur] = "send" BY <2>a, <3>1, Zenon DEF Place, Open
    <3>4. /\ job'.pc = "settle" \/ (job'.pc = "edit" /\ job'.why = "failure")
          /\ DOMAIN job' = JobFields
      BY <2>a, <3>1, Zenon DEF Goto, JobFields
    <3>5. Place' BY <3>1, <3>2, <3>3, <3>4, Zenon DEF Place, Sending, Cleaning, SendLabels, Same
    <3>. QED BY <3>1, <3>2, <3>4, <3>5, <1>GoKeeps, Zenon
  <2>2. CASE ExecuteFails
    <3>1. PICK end \in {<<"failed", "failed">>, <<"open", "unknown">>} :
             op' = [op EXCEPT ![cur] = end[1]] /\ ExecuteError(end[2])
      BY <2>2, Zenon DEF ExecuteFails
    <3>2. Executable /\ UNCHANGED <<kind, effect, st, touched>>
      BY <2>2, Zenon DEF ExecuteFails, telegramVars
    <3>3. end[1] \in {"failed", "open", "unknown"} /\ end[2] \in {"failed", "unknown"} BY <3>1
    <3>. QED BY <3>1, <3>2, <3>3, <1>ExecuteEnds, Zenon
  <2>3. CASE ExecuteAmbiguous
    <3>1. /\ Executable /\ UNCHANGED <<kind, touched>> /\ (Applies \/ UNCHANGED <<st, effect>>)
          /\ op' = [op EXCEPT ![cur] = "unknown"] /\ ExecuteError("unknown")
      BY <2>3, Zenon DEF ExecuteAmbiguous, telegramVars
    <3>. QED BY <3>1, <1>ExecuteEnds, Zenon
  <2>4. CASE ExecuteCommits
    <3>1. /\ Executable /\ Applies /\ op' = [op EXCEPT ![cur] = "committed"]
          /\ UNCHANGED <<kind, touched, target, cur>>
      BY <2>4, Zenon DEF ExecuteCommits, telegramVars, tableVars, inboxVars
    <3>2. /\ cur \in Update /\ cur # 0 /\ touched[cur] = {} /\ op[cur] \notin Confirmed
          /\ target[cur].status \notin Settled
          /\ kind[cur] # "send" => Open("applying")
          /\ kind[cur] = "send" => target[cur].status = "none"
      BY <3>1, Executing, Zenon
    <3>3. /\ st' \in Seq(Update) /\ effect' \in [Update -> 0 .. NumUpdates] /\ effect'[cur] # 0
          /\ \A u \in Update \ {cur} : effect'[u] = effect[u]
      BY <3>1, <3>2, <1>AppliesTypes, Zenon
    <3>4. /\ op' \in [Update -> {"none", "open", "unknown", "committed", "delivered", "failed"}]
          /\ op'[cur] = "committed" /\ \A u \in Update \ {cur} : op'[u] = op[u]
      BY <3>1, <3>2, Zenon DEF Safe, Tables
    <3>5. kind[cur] \in {"send", "undo", "revoke", "redo"}
      BY <3>2, KindsAssumption, Zenon DEF Safe, Tables
    <3>6. PICK n \in Chunk :
            job' = CASE kind[cur] = "send" ->
                          [job EXCEPT !.pc = "edit", !.why = "reply", !.i = 1, !.n = n]
                     [] kind[cur] = "redo" ->
                          [job EXCEPT !.pc = "r_assert", !.i = 1, !.n = n, !.rev = target[cur].rev]
                     [] kind[cur] = "undo" -> [job EXCEPT !.pc = "retire"]
                     [] kind[cur] = "revoke" -> [job EXCEPT !.pc = "v_call", !.i = 1]
      BY <2>4, Zenon DEF ExecuteCommits
    <3>7. /\ DOMAIN job' = JobFields
          /\ \/ kind[cur] = "send" /\ job'.pc = "edit" /\ job'.why = "reply"
             \/ kind[cur] # "send" /\ job'.pc \in {"r_assert", "retire", "v_call"}
      <4>1. CASE kind[cur] = "send" BY <2>a, <3>6, <4>1, Zenon DEF JobFields
      <4>2. CASE kind[cur] = "redo" BY <2>a, <3>6, <4>2, Zenon DEF JobFields
      <4>3. CASE kind[cur] = "undo" BY <2>a, <3>6, <4>3, Zenon DEF JobFields
      <4>4. CASE kind[cur] = "revoke" BY <2>a, <3>6, <4>4, Zenon DEF JobFields
      <4>. QED BY <3>5, <4>1, <4>2, <4>3, <4>4, Zenon
    <3>8. Place'
      BY <3>1, <3>2, <3>3, <3>4, <3>7, Zenon DEF Place, Sending, Cleaning, SendLabels, Open
    <3>9. Tables' BY <3>1, <3>3, <3>4, <3>7, Zenon DEF Safe, Tables
    <3>10. PICK v \in Update : v = cur BY <3>2, Zenon
    <3>11. History(v)' BY <3>1, <3>2, <3>10, Zenon DEF History, Open
    <3>. QED BY <3>1, <3>2, <3>3, <3>4, <3>8, <3>9, <3>10, <3>11, <1>StepKeeps, Zenon
  <2>. QED BY <2>1, <2>2, <2>3, <2>4, Zenon DEF ExecuteStep
(* A turn command up to the call of SillyTavern.                              *)
<1>TargetKeeps.
    ASSUME Safe, AlreadyDone \/ TargetConflict \/ FreezeTarget \/ StartApplying \/ CheckRevision
    PROVE  Keeps
  <2>. USE <1>TargetKeeps
  <2>0. cur \in Update /\ cur # 0
    BY AtWork, Zenon DEF AlreadyDone, TargetConflict, FreezeTarget, StartApplying, CheckRevision, At
  <2>a. DOMAIN job = JobFields /\ Place /\ History(cur) BY <2>0, Zenon DEF Safe, Tables
  <2>b. PICK v \in Update : v = cur BY <2>0, Zenon
  <2>1. CASE AlreadyDone
    <3>1. UNCHANGED <<kind, op, effect, st, target, touched>> /\ Leave("processed")
      BY <2>1, Zenon DEF AlreadyDone, ledgerVars, telegramVars, tableVars
    <3>. QED BY <3>1, <1>LeavePlace, <1>MoveKeeps, Zenon
  <2>2. CASE TargetConflict
    <3>1. /\ job.pc = "target" /\ ReplyError
          /\ UNCHANGED <<kind, effect, st, target, touched, cur>>
          /\ op' = [op EXCEPT ![cur] = IF @ = "none" THEN "open" ELSE @]
      BY <2>2, Zenon DEF TargetConflict, telegramVars, tableVars, inboxVars, At
    <3>2. Place' /\ DOMAIN job' = JobFields /\ cur' \in 0 .. NumUpdates
      BY <2>0, <3>1, <1>ErrorPlace, Zenon
    <3>3. /\ op' \in [Update -> {"none", "open", "unknown", "committed", "delivered", "failed"}]
          /\ op'[cur] = op[cur] \/ (op[cur] = "none" /\ op'[cur] = "open")
          /\ \A u \in Update \ {cur} : op'[u] = op[u]
          /\ op[cur] \in Confirmed => op'[cur] \in Confirmed
      BY <2>0, <3>1, Zenon DEF Safe, Tables, Confirmed
    <3>4. Tables' BY <3>1, <3>2, <3>3, Zenon DEF Safe, Tables
    <3>5. kind[cur] # "send" BY <2>a, <3>1, Zenon DEF Place
    <3>6. History(v)' BY <2>a, <2>b, <3>1, <3>3, <3>5, Zenon DEF History, Confirmed
    <3>. QED BY <2>b, <3>1, <3>2, <3>3, <3>4, <3>6, <1>StepKeeps, Zenon
  <2>3. CASE FreezeTarget
    <3>1. /\ job.pc = "target" /\ Goto("applying")
          /\ UNCHANGED <<kind, effect, st, touched, cur>>
          /\ op' = [op EXCEPT ![cur] = IF @ = "none" THEN "open" ELSE @]
      BY <2>3, Zenon DEF FreezeTarget, telegramVars, inboxVars, At
    <3>2. \/ target[cur].status = "frozen" /\ target' = target
          \/ /\ target[cur].status = "none"
             /\ \E t, r, ids : target' = [target EXCEPT ![cur] =
                   [turn |-> t, rev |-> r, ids |-> ids, status |-> "frozen"]]
      BY <2>3, Zenon DEF FreezeTarget, StillOpen
    <3>3. /\ DOMAIN target' = Update /\ \A u \in Update : DOMAIN target'[u] = TargetFields
          /\ target'[cur].status = "frozen" /\ \A u \in Update \ {cur} : target'[u] = target[u]
      <4>1. CASE target[cur].status = "frozen" /\ target' = target BY <4>1, Zenon DEF Safe, Tables
      <4>2. ASSUME NEW t, NEW r, NEW ids,
                   target' = [target EXCEPT ![cur] = [turn |-> t, rev |-> r, ids |-> ids, status |-> "frozen"]]
            PROVE  /\ DOMAIN target' = Update /\ \A u \in Update : DOMAIN target'[u] = TargetFields
                   /\ target'[cur].status = "frozen" /\ \A u \in Update \ {cur} : target'[u] = target[u]
        BY <2>0, <4>2, Zenon DEF Safe, Tables, TargetFields
      <4>. QED BY <3>2, <4>1, <4>2, Zenon
    <3>4. job'.pc = "applying" /\ DOMAIN job' = JobFields BY <2>a, <3>1, Zenon DEF Goto, JobFields
    <3>5. kind[cur] # "send" /\ op[cur] \in {"none", "open"} /\ effect[cur] = 0
      BY <2>a, <3>1, <3>2, Zenon DEF Place, History
    <3>6. /\ op' \in [Update -> {"none", "open", "unknown", "committed", "delivered", "failed"}]
          /\ op'[cur] = "open" /\ \A u \in Update \ {cur} : op'[u] = op[u]
      BY <2>0, <3>1, <3>5, Zenon DEF Safe, Tables
    <3>7. Place'
      BY <2>0, <3>1, <3>3, <3>4, <3>5, <3>6, Zenon DEF Place, Sending, Cleaning, SendLabels, Open
    <3>8. Tables' BY <3>1, <3>3, <3>4, <3>6, Zenon DEF Safe, Tables
    <3>9. History(v)' BY <2>a, <2>b, <3>1, <3>5, <3>6, Zenon DEF History, Confirmed
    <3>10. op[cur] \notin Confirmed BY <3>5, Zenon DEF Confirmed
    <3>. QED
      BY <2>b, <3>1, <3>2, <3>3, <3>6, <3>7, <3>8, <3>9, <3>10, <1>StepKeeps, Zenon DEF Settled
  <2>4. CASE StartApplying
    <3>1. /\ job.pc = "applying" /\ UNCHANGED <<kind, op, effect, st, touched, cur>>
          /\ target' = [target EXCEPT ![cur].status = "applying"]
          /\ Goto(IF kind[cur] = "redo" THEN "execute" ELSE "check")
      BY <2>4, Zenon DEF StartApplying, ledgerVars, telegramVars, inboxVars, At
    <3>2. /\ DOMAIN target' = Update /\ \A u \in Update : DOMAIN target'[u] = TargetFields
          /\ target'[cur].status = "applying" /\ \A u \in Update \ {cur} : target'[u] = target[u]
      BY <2>0, <3>1, Zenon DEF Safe, Tables, TargetFields
    <3>3. job'.pc \in {"execute", "check"} /\ DOMAIN job' = JobFields
      BY <2>a, <3>1, Zenon DEF Goto, JobFields
    <3>4. Open("frozen") BY <2>a, <3>1, Zenon DEF Place
    <3>5. Place'
      BY <2>0, <3>1, <3>2, <3>3, <3>4, Zenon DEF Place, Sending, Cleaning, SendLabels, Open
    <3>6. Tables' BY <3>1, <3>2, <3>3, Zenon DEF Safe, Tables
    <3>7. History(v)' BY <2>a, <2>b, <3>1, <3>2, <3>4, Zenon DEF History, Open
    <3>. QED BY <2>b, <3>1, <3>2, <3>4, <3>5, <3>6, <3>7, <1>StepKeeps, Zenon DEF Settled, Open
  <2>5. CASE CheckRevision
    <3>1. job.pc = "check" /\ UNCHANGED <<kind, op, effect, st, touched, cur>>
      BY <2>5, Zenon DEF CheckRevision, ledgerVars, telegramVars, inboxVars, At
    <3>2. Open("applying") BY <2>a, <3>1, Zenon DEF Place
    <3>3. CASE Goto("execute") /\ UNCHANGED target
      <4>1. job'.pc = "execute" /\ DOMAIN job' = JobFields BY <2>a, <3>3, Zenon DEF Goto, JobFields
      <4>2. Place'
        BY <2>0, <3>1, <3>2, <3>3, <4>1, Zenon DEF Place, Sending, Cleaning, SendLabels, Open
      <4>. QED BY <2>0, <3>1, <3>3, <4>1, <4>2, <1>GoKeeps, Zenon DEF Same
    <3>4. CASE ReplyError /\ target' = [target EXCEPT ![cur].status = "failed"]
      <4>1. Place' /\ DOMAIN job' = JobFields /\ cur' \in 0 .. NumUpdates
        BY <2>0, <3>1, <3>4, <1>ErrorPlace, Zenon
      <4>2. /\ op \in [Update -> {"none", "open", "unknown", "committed", "delivered", "failed"}]
            /\ effect \in [Update -> 0 .. NumUpdates] /\ st \in Seq(Update) /\ DOMAIN touched = Update
        BY Zenon DEF Safe, Tables
      <4>3. touched[cur] # {} => effect[cur] # 0 /\ op[cur] \in Confirmed BY <2>a, Zenon DEF History
      <4>4. kind[cur] # "send" /\ target[cur].status \notin Settled BY <3>2, Zenon DEF Open, Settled
      <4>. QED BY <2>0, <3>1, <3>4, <4>1, <4>2, <4>3, <4>4, <1>TargetEnds, Zenon
    <3>. QED BY <2>5, <3>3, <3>4, Zenon DEF CheckRevision
  <2>. QED BY <2>1, <2>2, <2>3, <2>4, <2>5, Zenon
<1>TouchesOwn.
    ASSUME Safe, cur \in Update, MayTouch
    PROVE  DOMAIN touched' = Update /\ \A u \in Update \ {cur} : touched'[u] = touched[u]
  BY <1>TouchesOwn, Zenon DEF MayTouch, Touches, Safe, Tables
<1>CleanKeeps.
    ASSUME Safe, Cleaning, UNCHANGED <<kind, op, effect, st, target, cur>>, MayTouch,
           DOMAIN job' = JobFields,
           \/ job'.pc \in CleaningLabels
           \/ job'.pc = "create" /\ job'.why \in {"redo_chunk", "replace"}
    PROVE  Keeps
  <2>. USE <1>CleanKeeps
  <2>1. /\ cur \in Update /\ cur # 0 /\ kind[cur] # "send" /\ target[cur].status = "applying"
        /\ op[cur] = "committed" /\ effect[cur] # 0
    BY Cleaned, Zenon
  <2>2. Place' BY <2>1, Zenon DEF Place, Sending, Cleaning, CleaningLabels, SendLabels
  <2>3. DOMAIN touched' = Update /\ \A u \in Update \ {cur} : touched'[u] = touched[u]
    BY <2>1, <1>TouchesOwn, Zenon
  <2>4. Tables' BY <2>3, Zenon DEF Safe, Tables
  <2>5. PICK v \in Update : v = cur BY <2>1, Zenon
  <2>6. History(v)' BY <2>1, <2>5, Zenon DEF History, Confirmed
  <2>. QED BY <2>1, <2>2, <2>3, <2>4, <2>5, <2>6, <1>StepKeeps, Zenon DEF Settled
<1>CleanEnds.
    ASSUME Safe, Cleaning, UNCHANGED <<kind, op, effect, st>>, MayTouch,
           NEW s \in {"unknown", "failed"}, target' = [target EXCEPT ![cur].status = s],
           DispatchError \/ (ReplyError /\ UNCHANGED inboxVars)
    PROVE  Keeps
  <2>. USE <1>CleanEnds
  <2>1. /\ cur \in Update /\ cur # 0 /\ kind[cur] # "send" /\ target[cur].status = "applying"
        /\ op[cur] = "committed" /\ effect[cur] # 0
    BY Cleaned, Zenon
  <2>2. DOMAIN touched' = Update /\ \A u \in Update \ {cur} : touched'[u] = touched[u]
    BY <2>1, <1>TouchesOwn, Zenon
  <2>3. Place' /\ DOMAIN job' = JobFields /\ cur' \in 0 .. NumUpdates
    BY <2>1, <1>ErrorEnds, <1>ErrorPlace, Zenon DEF inboxVars
  <2>4. /\ op \in [Update -> {"none", "open", "unknown", "committed", "delivered", "failed"}]
        /\ effect \in [Update -> 0 .. NumUpdates] /\ st \in Seq(Update)
    BY Zenon DEF Safe, Tables
  <2>. QED BY <2>1, <2>2, <2>3, <2>4, <1>TargetEnds, Zenon DEF Settled, Confirmed
<1>CleanupKeeps.
    ASSUME Safe,
           \/ RetireTurn \/ RetireFails
           \/ RevokeMessage \/ RevokeCallFails \/ MarkRevoked \/ MarkRevokedFails
           \/ RedoAssert \/ RedoEdit \/ RedoUneditable \/ RedoEditFails
           \/ RedoUpdate \/ RedoUpdateFails \/ DeleteReplaced \/ DeleteReplacedFails
           \/ DeleteSurplus \/ MarkDeleted \/ CleanupFails \/ FinishUnknown
    PROVE  Keeps
  <2>. USE <1>CleanupKeeps
  <2>a. DOMAIN job = JobFields BY Zenon DEF Safe, Tables
  <2>1. CASE RetireTurn \/ MarkRevoked \/ RedoUpdate \/ MarkDeleted
    <3>1. UNCHANGED <<kind, op, effect, st, target, cur, touched>> /\ Cleaning
      BY <2>1, Zenon DEF RetireTurn, MarkRevoked, RedoUpdate, MarkDeleted, ledgerVars, telegramVars,
                         inboxVars, Cleaning, At
    <3>2. DOMAIN job' = JobFields /\ job'.pc \in CleaningLabels
      <4>1. CASE RetireTurn BY <2>a, <4>1, Zenon DEF RetireTurn, Goto, JobFields, CleaningLabels
      <4>2. CASE MarkRevoked
        <5>1. AfterRevokeStep(job.bad) BY <4>2, Zenon DEF MarkRevoked
        <5>. QED BY <2>a, <5>1, Zenon DEF AfterRevokeStep, JobFields, CleaningLabels
      <4>3. CASE RedoUpdate
        <5>1. job' = [job EXCEPT !.pc = "r_assert", !.i = @ + 1, !.rev = @ + 1]
          BY <4>3, Zenon DEF RedoUpdate
        <5>. QED BY <2>a, <5>1, Zenon DEF JobFields, CleaningLabels
      <4>4. CASE MarkDeleted
        <5>1. job' = [job EXCEPT !.pc = IF job.i - 1 > job.n THEN "c_delete" ELSE "finish", !.i = @ - 1]
          BY <4>4, Zenon DEF MarkDeleted
        <5>. QED BY <2>a, <5>1, Zenon DEF JobFields, CleaningLabels
      <4>. QED BY <2>1, <4>1, <4>2, <4>3, <4>4, Zenon
    <3>. QED BY <3>1, <3>2, <1>CleanKeeps, Zenon DEF MayTouch
  <2>2. CASE RevokeMessage \/ RedoEdit \/ DeleteReplaced \/ DeleteSurplus
    <3>1. UNCHANGED <<kind, op, effect, st, target, cur>> /\ MayTouch /\ Cleaning
      BY <2>2, Zenon DEF RevokeMessage, RedoEdit, DeleteReplaced, DeleteSurplus, Revokes, Deletes,
                         ledgerVars, tableVars, inboxVars, Cleaning, At, MayTouch
    <3>2. \/ Goto("v_mark") \/ Goto("r_update") \/ Goto("c_mark")
          \/ job' = [job EXCEPT !.pc = "r_assert", !.i = @ + 1, !.rev = @ + 1]
      BY <2>2, Zenon DEF RevokeMessage, RedoEdit, DeleteReplaced, DeleteSurplus
    <3>3. DOMAIN job' = JobFields /\ job'.pc \in CleaningLabels
      BY <2>a, <3>2, Zenon DEF Goto, JobFields, CleaningLabels
    <3>. QED BY <3>1, <3>3, <1>CleanKeeps, Zenon
  <2>3. CASE RevokeCallFails \/ RedoUneditable
    <3>1. UNCHANGED <<kind, op, effect, st, target, cur>> /\ MayTouch /\ Cleaning
      BY <2>3, Zenon DEF RevokeCallFails, RedoUneditable, Revokes, ledgerVars, telegramVars, tableVars,
                         inboxVars, Cleaning, At, MayTouch
    <3>2. \/ AfterRevokeStep(TRUE) \/ \E m : StartSend("replace", m)
      BY <2>3, Zenon DEF RevokeCallFails, RedoUneditable
    <3>3. /\ DOMAIN job' = JobFields
          /\ job'.pc \in CleaningLabels \/ (job'.pc = "create" /\ job'.why \in {"redo_chunk", "replace"})
      BY <2>a, <3>2, Zenon DEF AfterRevokeStep, StartSend, JobFields, CleaningLabels
    <3>. QED BY <3>1, <3>3, <1>CleanKeeps, Zenon
  <2>4. CASE \/ RetireFails \/ MarkRevokedFails \/ RedoEditFails \/ RedoUpdateFails
             \/ DeleteReplacedFails \/ CleanupFails \/ FinishUnknown
    <3>1. UNCHANGED <<kind, op, effect, st>> /\ TargetUnknown /\ Cleaning
      BY <2>4, Zenon DEF RetireFails, MarkRevokedFails, RedoEditFails, RedoUpdateFails,
         DeleteReplacedFails, CleanupFails, FinishUnknown, ledgerVars, Cleaning, At
    <3>2. MayTouch
      BY <2>4, Zenon DEF RetireFails, MarkRevokedFails, RedoEditFails, RedoUpdateFails,
         DeleteReplacedFails, CleanupFails, FinishUnknown, Deletes, telegramVars, MayTouch
    <3>. QED BY <3>1, <3>2, <1>CleanEnds, Zenon DEF TargetUnknown
  <2>5. CASE RedoAssert
    <3>1. UNCHANGED <<kind, op, effect, st, touched, inboxVars>> /\ Cleaning
      BY <2>5, Zenon DEF RedoAssert, ledgerVars, telegramVars, Cleaning, At
    <3>2. CASE ReplyError /\ target' = [target EXCEPT ![cur].status = "failed"]
      BY <3>1, <3>2, <1>CleanEnds, Zenon DEF MayTouch
    <3>3. ASSUME NEW k, UNCHANGED target,
                 job' = [job EXCEPT !.pc = RedoNext, !.why = "redo_chunk", !.i = k]
          PROVE  Keeps
      <4>1. RedoNext \in {"r_edit", "create", "c_delete", "finish"} BY Zenon DEF RedoNext
      <4>2. /\ DOMAIN job' = JobFields /\ job'.why = "redo_chunk"
            /\ job'.pc \in {"r_edit", "create", "c_delete", "finish"}
        BY <2>a, <3>3, <4>1, Zenon DEF JobFields
      <4>. QED BY <3>1, <3>3, <4>2, <1>CleanKeeps, Zenon DEF MayTouch, CleaningLabels, inboxVars
    <3>. QED BY <2>5, <3>2, <3>3, Zenon DEF RedoAssert
  <2>. QED BY <2>1, <2>2, <2>3, <2>4, <2>5, Zenon
(* A turn command is through.                                                 *)
<1>FinishKeeps.
    ASSUME Safe, FinishTarget \/ MarkDelivered
    PROVE  Keeps
  <2>. USE <1>FinishKeeps
  <2>0. cur \in Update /\ cur # 0
    BY AtWork, Zenon DEF FinishTarget, MarkDelivered, At
  <2>a. DOMAIN job = JobFields /\ Place /\ History(cur) BY <2>0, Zenon DEF Safe, Tables
  <2>b. PICK v \in Update : v = cur BY <2>0, Zenon
  <2>1. CASE FinishTarget
    <3>1. /\ Cleaning /\ UNCHANGED <<kind, op, effect, st, touched, cur>>
          /\ target' = [target EXCEPT ![cur].status = "applied"]
          /\ Goto("delivered") \/ StartSend("notice", 0)
      BY <2>1, Zenon DEF FinishTarget, Cleaning, ledgerVars, telegramVars, inboxVars, At
    <3>2. /\ DOMAIN target' = Update /\ \A u \in Update : DOMAIN target'[u] = TargetFields
          /\ target'[cur].status = "applied" /\ \A u \in Update \ {cur} : target'[u] = target[u]
      BY <2>0, <3>1, Zenon DEF Safe, Tables, TargetFields
    <3>3. /\ DOMAIN job' = JobFields
          /\ job'.pc = "delivered" \/ (job'.pc = "create" /\ job'.why = "notice")
      BY <2>a, <3>1, Zenon DEF Goto, StartSend, JobFields
    <3>4. /\ kind[cur] # "send" /\ target[cur].status = "applying" /\ op[cur] = "committed"
      BY <3>1, Cleaned, Zenon
    <3>5. Place' BY <2>0, <3>1, <3>2, <3>3, <3>4, Zenon DEF Place, Sending, Cleaning, SendLabels
    <3>6. Tables' BY <3>1, <3>2, <3>3, Zenon DEF Safe, Tables
    <3>7. History(v)' BY <2>a, <2>b, <3>1, <3>2, <3>4, Zenon DEF History
    <3>. QED BY <2>b, <3>1, <3>2, <3>4, <3>5, <3>6, <3>7, <1>StepKeeps, Zenon DEF Settled
  <2>2. CASE MarkDelivered
    <3>1. /\ job.pc = "delivered" /\ UNCHANGED <<kind, effect, st, target, touched>>
          /\ op' = [op EXCEPT ![cur] = IF kind[cur] = "redo" \/ AllSent(cur) THEN "delivered" ELSE @]
          /\ Leave("processed")
      BY <2>2, Zenon DEF MarkDelivered, telegramVars, tableVars, At
    <3>2. Place' /\ DOMAIN job' = JobFields /\ cur' \in 0 .. NumUpdates
      BY <3>1, <1>LeavePlace, Zenon
    <3>3. kind[cur] # "send" /\ target[cur].status = "applied" /\ op[cur] = "committed"
      BY <2>a, <3>1, Zenon DEF Place
    <3>4. /\ op' \in [Update -> {"none", "open", "unknown", "committed", "delivered", "failed"}]
          /\ op'[cur] \in Confirmed /\ \A u \in Update \ {cur} : op'[u] = op[u]
      BY <2>0, <3>1, <3>3, Zenon DEF Safe, Tables, Confirmed
    <3>5. Tables' BY <3>1, <3>2, <3>4, Zenon DEF Safe, Tables
    <3>6. History(v)' BY <2>a, <2>b, <3>1, <3>3, <3>4, Zenon DEF History
    <3>. QED BY <2>b, <3>1, <3>2, <3>4, <3>5, <3>6, <1>StepKeeps, Zenon
  <2>. QED BY <2>1, <2>2, Zenon
(* An update is taken up, a commit is reconciled, the process crashes.        *)
<1>OtherKeeps.
    ASSUME Safe, Crash \/ \E u \in Update : Claim(u) \/ Reconcile(u)
    PROVE  Keeps
  <2>. USE <1>OtherKeeps
  <2>1. CASE Crash
    <3>1. cur \in Update BY <2>1, BoundsAssumption DEF Crash, Safe, Tables, Update
    <3>2. /\ Leave("received") /\ UNCHANGED <<kind, target, touched>>
          /\ UNCHANGED <<op, effect, st>>
             \/ (Executable /\ (Applies \/ UNCHANGED <<st, effect>>) /\ op' = [op EXCEPT ![cur] = "unknown"])
      BY <2>1, Zenon DEF Crash, ledgerVars, telegramVars, tableVars
    <3>3. Place' /\ DOMAIN job' = JobFields /\ cur' \in 0 .. NumUpdates
      BY <3>2, <1>LeavePlace, Zenon
    <3>4. CASE UNCHANGED <<op, effect, st>> BY <3>2, <3>3, <3>4, <1>MoveKeeps, Zenon
    <3>5. CASE Executable /\ (Applies \/ UNCHANGED <<st, effect>>) /\ op' = [op EXCEPT ![cur] = "unknown"]
      <4>1. /\ touched[cur] = {} /\ target[cur].status \notin Settled /\ op[cur] \notin Confirmed
            /\ kind[cur] # "send" => target[cur].status = "applying"
        BY <3>5, Executing, Zenon DEF Open
      <4>2. /\ st' \in Seq(Update) /\ effect' \in [Update -> 0 .. NumUpdates]
            /\ \A u \in Update \ {cur} : effect'[u] = effect[u]
        BY <3>1, <3>5, <1>AppliesTypes, Zenon DEF Safe, Tables
      <4>3. /\ op' \in [Update -> {"none", "open", "unknown", "committed", "delivered", "failed"}]
            /\ \A u \in Update \ {cur} : op'[u] = op[u]
        BY <3>1, <3>5, Zenon DEF Safe, Tables
      <4>4. Tables' BY <3>2, <3>3, <4>2, <4>3, Zenon DEF Safe, Tables
      <4>5. PICK v \in Update : v = cur BY <3>1, Zenon
      <4>6. History(v)' BY <3>2, <4>1, <4>5, Zenon DEF Safe, History
      <4>. QED BY <3>2, <3>3, <4>1, <4>2, <4>3, <4>4, <4>5, <4>6, <1>StepKeeps, Zenon
    <3>. QED BY <3>2, <3>4, <3>5, Zenon
  <2>2. ASSUME NEW u \in Update, Claim(u) PROVE Keeps
    <3>1. /\ UNCHANGED <<kind, op, effect, st, target, touched>> /\ cur' = u
          /\ job' = [Idle EXCEPT !.pc = IF kind[u] = "send" THEN "sink" ELSE "target"]
      BY <2>2, Zenon DEF Claim, ledgerVars, telegramVars, tableVars
    <3>2. /\ DOMAIN job' = JobFields
          /\ job'.pc = IF kind[u] = "send" THEN "sink" ELSE "target"
      BY <3>1, Zenon DEF Idle, JobFields
    <3>3. u # 0 /\ u \in 0 .. NumUpdates BY BoundsAssumption DEF Update
    <3>4. Place' BY <3>1, <3>2, <3>3 DEF Place, Sending, Cleaning, SendLabels
    <3>. QED BY <3>1, <3>2, <3>3, <3>4, <1>MoveKeeps, Zenon
  <2>3. ASSUME NEW u \in Update, Reconcile(u) PROVE Keeps
    <3>1. /\ cur = 0 /\ op[u] = "unknown" /\ UNCHANGED <<kind, effect, st, target, touched, cur, job>>
          /\ op' = [op EXCEPT ![u] = IF effect[u] # 0 THEN "committed" ELSE "failed"]
      BY <2>3, Zenon DEF Reconcile, telegramVars, tableVars, inboxVars
    <3>2. /\ op' \in [Update -> {"none", "open", "unknown", "committed", "delivered", "failed"}]
          /\ \A v \in Update \ {u} : op'[v] = op[v]
      BY <3>1, Zenon DEF Safe, Tables
    <3>3. job.pc = "idle" BY <3>1, Zenon DEF Safe, Place
    <3>4. Place' BY <3>1, <3>3, Zenon DEF Place, Sending, Cleaning, SendLabels
    <3>5. Tables' BY <3>1, <3>2, Zenon DEF Safe, Tables
    <3>6. History(u) /\ \A v \in Update \ {u} : History(v) BY Zenon DEF Safe
    <3>7. History(u)' BY <3>1, <3>6, Zenon DEF History, Confirmed
    <3>8. \A v \in Update \ {u} : History(v)' BY <3>1, <3>2, <3>6, Zenon DEF History
    <3>9. \A v \in Update : History(v)' BY <3>7, <3>8, Zenon
    <3>10. ConfirmedStays BY <3>1, <3>2, Zenon DEF ConfirmedStays, Confirmed
    <3>. QED BY <3>1, <3>4, <3>5, <3>9, <3>10, Zenon DEF Keeps, Safe, FinalStep
  <2>. QED BY <2>1, <2>2, <2>3, Zenon
<1>. SUFFICES ASSUME Safe, [Next]_vars PROVE Keeps
  BY Zenon
<1>1. CASE SendStep BY <1>1, <1>MessageKeeps, <1>EditKeeps, Zenon DEF SendStep
<1>2. CASE TurnStep BY <1>2, <1>TargetKeeps, <1>CleanupKeeps, <1>FinishKeeps, Zenon DEF TurnStep
<1>3. CASE UNCHANGED vars
  <2>1. UNCHANGED <<kind, op, effect, st, target, touched, cur, job>>
    BY <1>3, Zenon DEF vars, ledgerVars, telegramVars, tableVars, inboxVars
  <2>2. DOMAIN job' = JobFields /\ cur' \in 0 .. NumUpdates BY <2>1, Zenon DEF Safe, Tables
  <2>3. Place' BY <2>1, Zenon DEF Safe, Place, Sending, Cleaning, Open, HasRow
  <2>. QED BY <2>1, <2>2, <2>3, <1>MoveKeeps, Zenon
<1>. QED BY <1>1, <1>2, <1>3, <1>ExecuteKeeps, <1>OtherKeeps, Zenon DEF Next

(* Wherever the processing of an update is, the row of its operation and its  *)
(* frozen target are in the state the earlier steps left them in, through     *)
(* crashes and retries (process_and_deliver, undo_turn, revoke_turn,          *)
(* redo_turn).                                                                *)
THEOREM SafeAlways == Spec => []Safe
BY InitSafe, NextKeeps, PTL DEF Spec, Keeps

(* Nothing the user sees is edited or deleted for an undo, a revoke or a redo *)
(* before SillyTavern confirmed it (undo_turn, revoke_turn, redo_turn).       *)
THEOREM CleanupFollowsCommit == Spec => []CleanupAfterCommit
<1>1. Safe => CleanupAfterCommit BY Zenon DEF Safe, History, CleanupAfterCommit, Confirmed
<1>. QED BY <1>1, SafeAlways, PTL

(* A settled target is never taken up again, whatever attempt of its update   *)
(* comes (load_frozen_target's status in undo_turn, revoke_turn, redo_turn).  *)
THEOREM SettledTargetsAreFinal == Spec => SettledTargetIsFinal
<1>1. Safe /\ [Next]_vars =>
        [\A u \in Update :
          target[u].status \in {"applied", "failed", "unknown"} =>
              /\ target'[u] = target[u]
              /\ touched'[u] = touched[u]
              /\ effect'[u] = effect[u]]_vars
  BY NextKeeps, Zenon DEF Keeps, FinalStep, Settled
<1>. QED BY <1>1, SafeAlways, PTL DEF Spec, SettledTargetIsFinal

-----------------------------------------------------------------------------
(* The parts of a reply go out in their order: while part k is on its way,    *)
(* the chat has no message of the same update with part k or a later one.     *)
Texts == {"placeholder", "failure", "notice", "error", "reply", "tombstone", "deleted"}
Message == [of : Update, text : Texts, part : Nat]
Parts == {"chunk", "redo_chunk", "replace"}

Below(k) == \A m \in DOMAIN chat : chat[m].text = "reply" /\ chat[m].of = cur => chat[m].part < k

Writing ==
    \/ job.pc = "edit" /\ job.why = "reply"
    \/ job.pc \in {"create", "mark", "call"} /\ job.why \in Parts
    \/ job.pc \in {"r_assert", "r_edit"}
Written ==
    \/ job.pc = "update" /\ job.why = "reply"
    \/ job.pc \in {"record", "confirm"} /\ job.why \in Parts
    \/ job.pc \in {"r_update", "r_delete"}

InOrder ==
    /\ Writing => job.i \in Nat /\ Below(job.i)
    /\ Written => job.i \in Nat /\ Below(job.i + 1)
    /\ job.pc \in {"edit", "update"} => job.i = 1

Backed == \A m \in DOMAIN chat : chat[m].text = "reply" => op[chat[m].of] \in Confirmed

Replies == chat \in Seq(Message) /\ Backed /\ ReplyShownOnce /\ InOrder

(* One message of the chat says something else, or a new one.                 *)
Says1(p, x) ==
    /\ chat' \in Seq(Message)
    /\ \A m \in DOMAIN chat' : \/ m = p /\ chat'[m] = x
                               \/ m # p /\ m \in DOMAIN chat /\ chat'[m] = chat[m]

NextReply(x) == x.text = "reply" => x.of = cur /\ x.part \in Nat /\ Below(x.part) /\ op[cur] \in Confirmed

(* The update ends, or a text is sent about its error.                        *)
Ends == (\E s : Leave(s)) \/ ReplyError \/ DispatchError \/ SendFailed \/ FinalizeFailed

Quiet ==
    \/ job.pc \in {"idle", "sink", "execute", "settle", "target", "applying", "check", "retire", "finish",
                   "delivered"}
    \/ job.pc = "create" /\ job.why \in {"placeholder", "notice", "error"}

(* After the end of an attempt, or on the way to its error text, no part of a *)
(* reply is being written.                                                    *)
LEMMA EndsQuiet ==
    ASSUME DOMAIN job = JobFields, Ends
    PROVE  Quiet' /\ ~Cleaning' /\ (job' = Idle \/ (job'.i = job.i /\ job'.n = job.n /\ job'.rev = job.rev))
<1>1. (\E s : Leave(s)) \/ ReplyError \/ Goto("settle")
  BY Zenon DEF Ends, DispatchError, SendFailed, FinalizeFailed
<1>2. CASE \E s : Leave(s) BY <1>2 DEF Leave, Idle, Quiet, Cleaning, Sending, SendLabels
<1>3. CASE ReplyError \/ Goto("settle")
  <2>1. /\ job'.pc = "settle" \/ (job'.pc = "create" /\ job'.why = "error")
        /\ job'.i = job.i /\ job'.n = job.n /\ job'.rev = job.rev
    BY <1>3, Zenon DEF ReplyError, StartSend, Goto, JobFields
  <2>2. Quiet' BY <2>1, Zenon DEF Quiet
  <2>3. ~Cleaning' BY <2>1, Zenon DEF Cleaning, Sending, SendLabels
  <2>. QED BY <2>1, <2>2, <2>3, Zenon
<1>. QED BY <1>1, <1>2, <1>3, Zenon

-----------------------------------------------------------------------------
(* What the message being sent says.                                          *)
LEMMA SaysMessage ==
    ASSUME Safe, Replies, job.pc = "call"
    PROVE  /\ Says \in Message /\ NextReply(Says)
           /\ Says.of = cur /\ Says.text \notin {"deleted", "tombstone"}
           /\ job.why \in Parts => Says.text = "reply" /\ Says.part = job.i
           /\ job.why \notin Parts => Says.text # "reply"
<1>1. cur \in Update BY AtWork, Zenon
<1>2. CASE job.why \in Parts
  <2>1. Says = [of |-> cur, text |-> "reply", part |-> job.i] BY <1>2, Zenon DEF Says, Parts
  <2>2. job.i \in Nat /\ Below(job.i) BY <1>2, Zenon DEF Replies, InOrder, Writing
  <2>3. op[cur] = "committed"
    BY <1>2, Zenon DEF Safe, Place, Sending, Cleaning, SendLabels, Parts
  <2>. QED BY <1>1, <1>2, <2>1, <2>2, <2>3, Zenon DEF Message, Texts, NextReply, Confirmed
<1>3. CASE job.why \notin Parts
  <2>1. job.why \in {"placeholder", "notice", "error"}
    BY <1>3, Zenon DEF Safe, Place, SendLabels, Parts
  <2>2. \/ Says = [of |-> cur, text |-> "placeholder", part |-> 1]
        \/ Says = [of |-> cur, text |-> job.why, part |-> 0]
    BY <2>1, Zenon DEF Says
  <2>. QED BY <1>1, <1>3, <2>1, <2>2 DEF Message, Texts, NextReply
<1>. QED BY <1>2, <1>3, Zenon

(* The chat is empty at the start.                                            *)
LEMMA InitReplies == Init => Replies
BY DEF Init, Replies, Backed, ReplyShownOnce, InOrder, Writing, Written, Idle

(* Every step keeps the order of the parts.                                   *)
LEMMA NextReplies == Safe /\ Replies /\ [Next]_vars => Replies'
<1>ChatMessages.
    ASSUME Replies, NEW m \in DOMAIN chat
    PROVE  chat[m] \in Message /\ chat[m].of \in Update /\ chat[m].text \in Texts /\ chat[m].part \in Nat
  <2>. USE <1>ChatMessages
  <2>1. chat[m] \in Message BY DEF Replies
  <2>. QED BY <2>1, Zenon DEF Message
<1>PlainReplies.
    ASSUME Replies, ConfirmedStays, chat' = chat, InOrder'
    PROVE  Replies'
  <2>. USE <1>PlainReplies
  <2>1. \A m \in DOMAIN chat : chat[m].of \in Update BY <1>ChatMessages, Zenon
  <2>2. Backed' BY <2>1, Zenon DEF Replies, Backed, ConfirmedStays
  <2>3. ReplyShownOnce' BY Zenon DEF Replies, ReplyShownOnce
  <2>. QED BY <2>2, <2>3, Zenon DEF Replies
<1>SamePart.
    ASSUME Replies, UNCHANGED <<chat, cur>>, job'.i = job.i, Writing' => Writing, Written' => Written,
           job'.pc \notin {"edit", "update"}
    PROVE  InOrder'
  BY <1>SamePart, Zenon DEF Replies, InOrder, Below
<1>NextPart.
    ASSUME Replies, UNCHANGED <<chat, cur>>, Written, job'.i = job.i + 1, ~Written',
           job'.pc \notin {"edit", "update"}
    PROVE  InOrder'
  BY <1>NextPart DEF Replies, InOrder, Below
<1>AppendSays.
    ASSUME Replies, NEW x \in Message, chat' = Append(chat, x)
    PROVE  Says1(Len(chat) + 1, x)
  BY <1>AppendSays DEF Replies, Says1
<1>ShowsSays.
    ASSUME Replies, NEW p, NEW x, p \in DOMAIN chat => x \in Message, chat' = [chat EXCEPT ![p] = x]
    PROVE  Says1(p, x)
  <2>. USE <1>ShowsSays
  <2>1. CASE p \in DOMAIN chat BY <2>1 DEF Replies, Says1
  <2>2. CASE p \notin DOMAIN chat
    <3>1. chat' = chat BY <2>2 DEF Replies
    <3>. QED BY <2>2, <3>1, Zenon DEF Replies, Says1
  <2>. QED BY <2>1, <2>2, Zenon
<1>SaysReplies.
    ASSUME Replies, ConfirmedStays, cur \in Update, NEW p, NEW x, Says1(p, x), NextReply(x), InOrder'
    PROVE  Replies'
  <2>. USE <1>SaysReplies
  <2>1. \A m \in DOMAIN chat : chat[m].of \in Update BY <1>ChatMessages, Zenon
  <2>2. Backed' BY <2>1, Zenon DEF Replies, Backed, Says1, NextReply, ConfirmedStays
  <2>3. ReplyShownOnce'
    <3>1. SUFFICES ASSUME NEW m \in DOMAIN chat', NEW k \in DOMAIN chat',
                          chat'[m].text = "reply", chat'[k] = chat'[m], m # k
                   PROVE  FALSE
      BY Zenon DEF ReplyShownOnce
    <3>2. m # p /\ k # p => FALSE BY <3>1, Zenon DEF Replies, ReplyShownOnce, Says1
    <3>3. ASSUME NEW j \in DOMAIN chat, chat[j] = x, x.text = "reply" PROVE FALSE
      BY <3>3 DEF NextReply, Below
    <3>. QED BY <3>1, <3>2, <3>3, Zenon DEF Says1
  <2>. QED BY <2>2, <2>3, Zenon DEF Replies, Says1
<1>SaysBelow.
    ASSUME cur' = cur, NEW p, NEW x, Says1(p, x), NEW k \in Nat, Below(k),
           x.text = "reply" => x.part < k
    PROVE  Below(k)'
  BY <1>SaysBelow, Zenon DEF Below, Says1
<1>BelowGrows.
    ASSUME Replies, NEW k \in Nat, Below(k)
    PROVE  Below(k + 1)
  <2>. USE <1>BelowGrows
  <2>1. \A m \in DOMAIN chat : chat[m].part \in Nat BY <1>ChatMessages, Zenon
  <2>. QED BY <2>1 DEF Below
<1>QuietInOrder. ASSUME Quiet' PROVE InOrder'
  BY <1>QuietInOrder, Zenon DEF Quiet, InOrder, Writing, Written, Parts
<1>EndsReplies.
    ASSUME Safe, Replies, ConfirmedStays, Ends, chat' = chat
    PROVE  Replies'
  <2>. USE <1>EndsReplies
  <2>1. Quiet' BY EndsQuiet, Zenon DEF Safe, Tables
  <2>. QED BY <2>1, <1>QuietInOrder, <1>PlainReplies, Zenon
<1>MessageReplies.
    ASSUME Safe, Replies, ConfirmedStays,
           \/ ReusePlaceholder \/ SendPlaceholder
           \/ CreateDelivery \/ MarkSending \/ MessageAccepted \/ MessageRefused \/ AnswerLost
           \/ RecordRow \/ ReplaceRow \/ RecordFails \/ ConfirmSent \/ ConfirmFails
    PROVE  Replies'
  <2>. USE <1>MessageReplies
  <2>a. DOMAIN job = JobFields BY Zenon DEF Safe, Tables
  <2>1. CASE ReusePlaceholder \/ SendPlaceholder
    <3>1. chat' = chat BY <2>1, Zenon DEF ReusePlaceholder, SendPlaceholder, telegramVars
    <3>2. job'.pc = "execute" \/ (job'.pc = "create" /\ job'.why = "placeholder")
      BY <2>1, <2>a, SinkMoves, Zenon
    <3>3. Quiet' BY <3>2, Zenon DEF Quiet
    <3>. QED BY <3>1, <3>3, <1>QuietInOrder, <1>PlainReplies, Zenon
  <2>2. CASE CreateDelivery \/ MarkSending
    <3>1. UNCHANGED <<chat, cur>> /\ job.pc \in {"create", "mark"}
      BY <2>2, Zenon DEF CreateDelivery, MarkSending, telegramVars, inboxVars, At
    <3>2. \/ \E d : job' = [job EXCEPT !.pc = "mark", !.dlv = d]
          \/ job' = [job EXCEPT !.pc = "call"]
      BY <2>2, Zenon DEF CreateDelivery, MarkSending, Goto
    <3>3. job'.pc \in {"mark", "call"} /\ job'.why = job.why /\ job'.i = job.i
      BY <2>a, <3>2, Zenon DEF JobFields
    <3>4. InOrder' BY <3>1, <3>3, <1>SamePart, Zenon DEF Writing, Written
    <3>. QED BY <3>1, <3>4, <1>PlainReplies, Zenon
  <2>3. CASE MessageAccepted
    <3>1. cur' = cur /\ job.pc = "call" /\ chat' = Append(chat, Says)
          /\ Goto(IF HasRow THEN "record" ELSE "confirm")
      BY <2>3, Zenon DEF MessageAccepted, inboxVars, At
    <3>2. job'.pc \in {"record", "confirm"} /\ job'.why = job.why /\ job'.i = job.i
      BY <2>a, <3>1, Zenon DEF Goto, JobFields
    <3>3. /\ Says \in Message /\ NextReply(Says)
          /\ job.why \in Parts => Says.text = "reply" /\ Says.part = job.i
      BY <3>1, SaysMessage, Zenon
    <3>4. Says1(Len(chat) + 1, Says) BY <3>1, <3>3, <1>AppendSays, Zenon
    <3>5. InOrder'
      <4>1. CASE job.why \in Parts
        <5>1. job.i \in Nat /\ Below(job.i) BY <3>1, <4>1, Zenon DEF Replies, InOrder, Writing
        <5>2. Below(job.i + 1) BY <5>1, <1>BelowGrows, Zenon
        <5>3. PICK k \in Nat : k = job.i + 1 BY <5>1
        <5>4. Below(k)' BY <3>1, <3>3, <3>4, <4>1, <5>1, <5>2, <5>3, <1>SaysBelow
        <5>. QED BY <3>2, <4>1, <5>1, <5>3, <5>4, Zenon DEF InOrder, Writing, Written, Below
      <4>2. CASE job.why \notin Parts BY <3>2, <4>2, Zenon DEF InOrder, Writing, Written
      <4>. QED BY <4>1, <4>2, Zenon
    <3>6. cur \in Update BY <3>1, AtWork, Zenon
    <3>. QED BY <3>3, <3>4, <3>5, <3>6, <1>SaysReplies, Zenon
  <2>4. CASE MessageRefused \/ AnswerLost \/ RecordFails \/ ConfirmFails
    <3>1. SendFailed /\ (chat' = chat \/ (job.pc = "call" /\ chat' = Append(chat, Says)))
      BY <2>4, Zenon DEF MessageRefused, AnswerLost, RecordFails, ConfirmFails, telegramVars, At
    <3>2. InOrder' BY <2>a, <3>1, EndsQuiet, <1>QuietInOrder, Zenon DEF Ends
    <3>3. CASE chat' = chat BY <3>2, <3>3, <1>PlainReplies, Zenon
    <3>4. CASE job.pc = "call" /\ chat' = Append(chat, Says)
      <4>1. Says \in Message /\ NextReply(Says) BY <3>4, SaysMessage, Zenon
      <4>2. cur \in Update BY <3>4, AtWork, Zenon
      <4>3. Says1(Len(chat) + 1, Says) BY <3>4, <4>1, <1>AppendSays, Zenon
      <4>. QED BY <3>2, <4>1, <4>2, <4>3, <1>SaysReplies, Zenon
    <3>. QED BY <3>1, <3>3, <3>4, Zenon
  <2>5. CASE RecordRow \/ ReplaceRow
    <3>1. UNCHANGED <<chat, cur>> /\ job.pc = "record"
      BY <2>5, Zenon DEF RecordRow, ReplaceRow, telegramVars, inboxVars, At
    <3>2. (job.why # "replace" /\ Goto("confirm")) \/ (job.why = "replace" /\ Goto("r_delete"))
      BY <2>5, Zenon DEF RecordRow, ReplaceRow
    <3>3. /\ job'.why = job.why /\ job'.i = job.i
          /\ job'.pc = "confirm" \/ (job'.pc = "r_delete" /\ job.why = "replace")
      BY <2>a, <3>2, Zenon DEF Goto, JobFields
    <3>4. InOrder' BY <3>1, <3>3, <1>SamePart, Zenon DEF Writing, Written, Parts
    <3>. QED BY <3>1, <3>4, <1>PlainReplies, Zenon
  <2>6. CASE ConfirmSent
    <3>1. chat' = chat /\ job.pc = "confirm" BY <2>6, Zenon DEF ConfirmSent, telegramVars, At
    <3>2. job.why \in {"placeholder", "chunk", "redo_chunk", "notice", "error"}
      BY <3>1, Zenon DEF Safe, Place, SendLabels
    <3>3. CASE job.why = "error"
      <4>1. Leave("processed") BY <2>6, <3>3, Zenon DEF ConfirmSent
      <4>. QED BY <3>1, <4>1, <1>EndsReplies, Zenon DEF Ends
    <3>4. CASE job.why \in {"placeholder", "notice"}
      <4>1. job'.pc \in {"execute", "delivered"}
        BY <2>6, <2>a, <3>4, Zenon DEF ConfirmSent, Goto, JobFields
      <4>2. Quiet' BY <4>1, Zenon DEF Quiet
      <4>. QED BY <3>1, <4>2, <1>QuietInOrder, <1>PlainReplies, Zenon
    <3>5. CASE job.why \in {"chunk", "redo_chunk"}
      <4>1. /\ cur' = cur
            /\ \E pc \in {"settle", "create", "r_assert"} :
                  job' = [job EXCEPT !.pc = pc, !.i = @ + 1, !.rev = @ + 1]
        BY <2>6, <3>5, Zenon DEF ConfirmSent, inboxVars
      <4>2. job'.pc \in {"settle", "create", "r_assert"} /\ job'.i = job.i + 1
        BY <2>a, <4>1, Zenon DEF JobFields
      <4>3. Written BY <3>1, <3>5, Zenon DEF Written, Parts
      <4>4. InOrder' BY <3>1, <4>1, <4>2, <4>3, <1>NextPart, Zenon DEF Written
      <4>. QED BY <3>1, <4>4, <1>PlainReplies, Zenon
    <3>. QED BY <3>2, <3>3, <3>4, <3>5, Zenon
  <2>. QED BY <2>1, <2>2, <2>3, <2>4, <2>5, <2>6, Zenon
<1>EditReplies.
    ASSUME Safe, Replies, ConfirmedStays,
           EditPlaceholder \/ EditFails \/ UpdateChunk \/ UpdateChunkFails \/ Settle
    PROVE  Replies'
  <2>. USE <1>EditReplies
  <2>a. DOMAIN job = JobFields BY Zenon DEF Safe, Tables
  <2>b. ASSUME job.pc = "edit", chat' = [chat EXCEPT ![job.msg] = FinalText]
        PROVE  /\ Says1(job.msg, FinalText) /\ NextReply(FinalText) /\ cur \in Update
               /\ FinalText.text = "reply" => job.why = "reply" /\ FinalText.part = 1
    <3>1. cur \in Update BY <2>b, AtWork, Zenon
    <3>2. /\ FinalText \in Message
          /\ FinalText.text = "reply" => job.why = "reply" /\ FinalText.part = 1 /\ FinalText.of = cur
      BY <3>1, Zenon DEF FinalText, Message, Texts
    <3>3. job.why = "reply" => Below(1) /\ op[cur] = "committed"
      BY <2>b, Zenon DEF Replies, InOrder, Writing, Safe, Place
    <3>4. NextReply(FinalText) BY <3>2, <3>3 DEF NextReply, Confirmed
    <3>. QED BY <2>b, <3>1, <3>2, <3>4, <1>ShowsSays, Zenon
  <2>1. CASE EditPlaceholder
    <3>1. /\ job.pc = "edit" /\ cur' = cur /\ chat' = [chat EXCEPT ![job.msg] = FinalText]
          /\ Goto("update")
      BY <2>1, Zenon DEF EditPlaceholder, inboxVars, At
    <3>2. job'.pc = "update" /\ job'.why = job.why /\ job'.i = job.i
      BY <2>a, <3>1, Zenon DEF Goto, JobFields
    <3>3. job.i = 1 /\ (job.why = "reply" => Below(1)) BY <3>1, Zenon DEF Replies, InOrder, Writing
    <3>4. job.why = "reply" => Below(2)'
      <4>1. SUFFICES ASSUME job.why = "reply" PROVE Below(2)'
        BY Zenon
      <4>2. 1 \in Nat /\ 1 + 1 = 2 OBVIOUS
      <4>3. Below(2) BY <3>3, <4>1, <4>2, <1>BelowGrows, Zenon
      <4>4. FinalText.text = "reply" => FinalText.part < 2 BY <2>b, <3>1
      <4>. QED BY <2>b, <3>1, <4>3, <4>4, <1>SaysBelow, Zenon
    <3>5. InOrder' BY <3>2, <3>3, <3>4 DEF InOrder, Writing, Written
    <3>. QED BY <2>b, <3>1, <3>5, <1>SaysReplies, Zenon
  <2>2. CASE EditFails
    <3>1. /\ job.pc = "edit" /\ FinalizeFailed
          /\ chat' = chat \/ chat' = [chat EXCEPT ![job.msg] = FinalText]
      BY <2>2, Zenon DEF EditFails, At
    <3>2. InOrder' BY <2>a, <3>1, EndsQuiet, <1>QuietInOrder, Zenon DEF Ends
    <3>. QED BY <2>b, <3>1, <3>2, <1>SaysReplies, <1>PlainReplies, Zenon
  <2>3. CASE UpdateChunk
    <3>1. chat' = chat /\ job.pc = "update" BY <2>3, Zenon DEF UpdateChunk, telegramVars, At
    <3>2. CASE job.why = "failure"
      <4>1. Leave("processed") BY <2>3, <3>2, Zenon DEF UpdateChunk
      <4>. QED BY <3>1, <4>1, <1>EndsReplies, Zenon DEF Ends
    <3>3. CASE job.why # "failure"
      <4>1. /\ job' = [job EXCEPT !.pc = IF job.n = 1 THEN "settle" ELSE "create",
                                  !.why = "chunk", !.i = 2, !.rev = @ + 1]
            /\ cur' = cur
        BY <2>3, <3>3, Zenon DEF UpdateChunk, inboxVars
      <4>2. job'.pc \in {"settle", "create"} /\ job'.i = 2 BY <2>a, <4>1, Zenon DEF JobFields
      <4>3. job.why = "reply" BY <3>1, <3>3, Zenon DEF Safe, Place
      <4>4. Written /\ job.i = 1 BY <3>1, <4>3, Zenon DEF Written, Replies, InOrder
      <4>5. InOrder' BY <3>1, <4>1, <4>2, <4>4, <1>NextPart DEF Written
      <4>. QED BY <3>1, <4>5, <1>PlainReplies, Zenon
    <3>. QED BY <3>2, <3>3, Zenon
  <2>4. CASE UpdateChunkFails \/ Settle
    <3>1. chat' = chat /\ (FinalizeFailed \/ \E s : Leave(s))
      BY <2>4, Zenon DEF UpdateChunkFails, Settle, telegramVars
    <3>. QED BY <3>1, <1>EndsReplies, Zenon DEF Ends
  <2>. QED BY <2>1, <2>2, <2>3, <2>4, Zenon
(* The engine starts a reply only for an operation that was not confirmed.    *)
<1>ExecuteReplies.
    ASSUME Safe, Replies, ConfirmedStays, ExecuteStep
    PROVE  Replies'
  <2>. USE <1>ExecuteReplies
  <2>a. DOMAIN job = JobFields BY Zenon DEF Safe, Tables
  <2>1. CASE ExecuteReplays \/ ExecuteFails \/ ExecuteAmbiguous
    <3>1. /\ chat' = chat
          /\ \/ Goto("settle") \/ DispatchError
             \/ job' = [job EXCEPT !.pc = "edit", !.why = "failure", !.i = 1, !.n = 1]
      BY <2>1, Zenon DEF ExecuteReplays, ExecuteFails, ExecuteAmbiguous, ExecuteError, telegramVars
    <3>2. DispatchError \/ job'.pc = "settle" \/ (job'.pc = "edit" /\ job'.why = "failure" /\ job'.i = 1)
      BY <2>a, <3>1, Zenon DEF Goto, JobFields
    <3>3. CASE DispatchError BY <3>1, <3>3, <1>EndsReplies, Zenon DEF Ends
    <3>4. CASE ~DispatchError
      <4>1. InOrder' BY <3>2, <3>4, Zenon DEF InOrder, Writing, Written
      <4>. QED BY <3>1, <4>1, <1>PlainReplies, Zenon
    <3>. QED BY <3>3, <3>4, Zenon
  <2>2. CASE ExecuteCommits
    <3>1. Executable /\ UNCHANGED <<chat, cur>>
      BY <2>2, Zenon DEF ExecuteCommits, telegramVars, inboxVars
    <3>2. cur \in Update /\ op[cur] \notin Confirmed BY <3>1, Executing, Zenon
    <3>3. Below(1)' BY <3>1, <3>2, Zenon DEF Replies, Backed, Below
    <3>4. kind[cur] \in {"send", "undo", "revoke", "redo"}
      BY <3>2, KindsAssumption, Zenon DEF Safe, Tables
    <3>5. \E n : \/ job' = [job EXCEPT !.pc = "edit", !.why = "reply", !.i = 1, !.n = n]
                 \/ job' = [job EXCEPT !.pc = "r_assert", !.i = 1, !.n = n, !.rev = target[cur].rev]
                 \/ job' = [job EXCEPT !.pc = "retire"]
                 \/ job' = [job EXCEPT !.pc = "v_call", !.i = 1]
      BY <2>2, <3>4, Zenon DEF ExecuteCommits
    <3>6. \/ job'.pc \in {"edit", "r_assert"} /\ job'.i = 1
          \/ job'.pc \in {"retire", "v_call"}
      BY <2>a, <3>5, Zenon DEF JobFields
    <3>7. InOrder' BY <3>3, <3>6 DEF InOrder, Writing, Written
    <3>. QED BY <3>1, <3>7, <1>PlainReplies, Zenon
  <2>. QED BY <2>1, <2>2, Zenon DEF ExecuteStep
(* Steps that neither send nor edit a part.                                   *)
<1>QuietReplies.
    ASSUME Safe, Replies, ConfirmedStays,
           \/ AlreadyDone \/ TargetConflict \/ FreezeTarget \/ StartApplying \/ CheckRevision
           \/ RetireTurn \/ RetireFails
           \/ MarkRevoked \/ MarkRevokedFails \/ RedoUpdateFails \/ MarkDeleted
           \/ chat' = chat /\ (RevokeCallFails \/ DeleteReplacedFails \/ CleanupFails)
           \/ FinishTarget \/ FinishUnknown \/ MarkDelivered
           \/ Crash \/ \E u \in Update : Claim(u)
    PROVE  Replies'
  <2>. USE <1>QuietReplies
  <2>a. DOMAIN job = JobFields BY Zenon DEF Safe, Tables
  <2>1. chat' = chat
    BY Zenon DEF AlreadyDone, TargetConflict, FreezeTarget, StartApplying, CheckRevision, RetireTurn,
       RetireFails, MarkRevoked, MarkRevokedFails, RedoUpdateFails, MarkDeleted, FinishTarget,
       FinishUnknown, MarkDelivered, Crash, Claim, telegramVars
  <2>2. \/ DispatchError \/ ReplyError \/ \E s : Leave(s)
        \/ \E pc \in {"applying", "execute", "check", "finish", "delivered"} : Goto(pc)
        \/ StartSend("notice", 0)
        \/ \E b : AfterRevokeStep(b)
        \/ job' = [job EXCEPT !.pc = IF job.i - 1 > job.n THEN "c_delete" ELSE "finish", !.i = @ - 1]
        \/ \E pc \in {"sink", "target"} : job' = [Idle EXCEPT !.pc = pc]
    <3>1. CASE AlreadyDone \/ MarkDelivered \/ Crash
      BY <3>1, Zenon DEF AlreadyDone, MarkDelivered, Crash
    <3>2. CASE TargetConflict \/ FreezeTarget \/ RetireTurn \/ CheckRevision
      BY <3>2, Zenon DEF TargetConflict, FreezeTarget, RetireTurn, CheckRevision
    <3>3. CASE StartApplying BY <3>3, Zenon DEF StartApplying
    <3>4. CASE \/ RetireFails \/ MarkRevokedFails \/ RedoUpdateFails \/ DeleteReplacedFails
               \/ CleanupFails \/ FinishUnknown
      BY <3>4, Zenon DEF RetireFails, MarkRevokedFails, RedoUpdateFails, DeleteReplacedFails,
         CleanupFails, FinishUnknown, TargetUnknown
    <3>5. CASE RevokeCallFails \/ MarkRevoked \/ MarkDeleted
      BY <3>5, Zenon DEF RevokeCallFails, MarkRevoked, MarkDeleted
    <3>6. CASE FinishTarget BY <3>6, Zenon DEF FinishTarget
    <3>7. CASE \E u \in Update : Claim(u) BY <3>7, Zenon DEF Claim
    <3>. QED BY <3>1, <3>2, <3>3, <3>4, <3>5, <3>6, <3>7, Zenon
  <2>3. CASE DispatchError \/ ReplyError \/ \E s : Leave(s)
    BY <2>1, <2>3, <1>EndsReplies, Zenon DEF Ends
  <2>4. CASE ~(DispatchError \/ ReplyError \/ \E s : Leave(s))
    <3>1. \/ job'.pc \in {"applying", "execute", "check", "finish", "delivered", "v_call", "c_delete",
                          "sink", "target"}
          \/ job'.pc = "create" /\ job'.why = "notice"
      BY <2>a, <2>2, <2>4, Zenon DEF Goto, StartSend, AfterRevokeStep, JobFields, Idle
    <3>2. InOrder' BY <3>1, Zenon DEF InOrder, Writing, Written, Parts
    <3>. QED BY <2>1, <3>2, <1>PlainReplies, Zenon
  <2>. QED BY <2>3, <2>4, Zenon
(* Messages that are deleted or become a tombstone.                           *)
<1>RemovedReplies.
    ASSUME Safe, Replies, ConfirmedStays,
           \/ RevokeMessage \/ DeleteReplaced \/ DeleteSurplus
           \/ chat' # chat /\ (RevokeCallFails \/ DeleteReplacedFails \/ CleanupFails)
    PROVE  Replies'
  <2>. USE <1>RemovedReplies
  <2>a. DOMAIN job = JobFields BY Zenon DEF Safe, Tables
  <2>0. cur \in Update /\ cur # 0
    BY AtWork, Zenon DEF RevokeMessage, RevokeCallFails, DeleteReplaced, DeleteReplacedFails, DeleteSurplus,
       CleanupFails, At
  <2>1. PICK m, x : /\ chat' = [chat EXCEPT ![m] = x]
                    /\ x = Deleted(m) \/ x = [of |-> cur, text |-> "tombstone", part |-> 0]
    BY Zenon DEF RevokeMessage, RevokeCallFails, DeleteReplaced, DeleteReplacedFails, DeleteSurplus,
       CleanupFails, Revokes, Deletes, Shows, telegramVars
  <2>2. ASSUME m \in DOMAIN chat PROVE x \in Message /\ x.text # "reply"
    <3>1. chat[m] \in Message BY <2>2, <1>ChatMessages, Zenon
    <3>. QED BY <2>0, <2>1, <3>1 DEF Deleted, Message, Texts
  <2>3. Says1(m, x) BY <2>1, <2>2, <1>ShowsSays, Zenon
  <2>5. InOrder'
    <3>1. CASE RevokeMessage \/ DeleteSurplus \/ RevokeCallFails
      <4>1. Goto("v_mark") \/ Goto("c_mark") \/ AfterRevokeStep(TRUE)
        BY <3>1, Zenon DEF RevokeMessage, DeleteSurplus, RevokeCallFails
      <4>2. job'.pc \in {"v_mark", "c_mark", "v_call", "finish"}
        BY <2>a, <4>1, Zenon DEF Goto, AfterRevokeStep, JobFields
      <4>. QED BY <4>2, Zenon DEF InOrder, Writing, Written
    <3>2. CASE DeleteReplaced
      <4>1. job.pc = "r_delete" /\ job' = [job EXCEPT !.pc = "r_assert", !.i = @ + 1, !.rev = @ + 1]
        BY <3>2, Zenon DEF DeleteReplaced, At
      <4>c. cur' = cur BY <3>2, Zenon DEF DeleteReplaced, inboxVars
      <4>2. job'.pc = "r_assert" /\ job'.i = job.i + 1 BY <2>a, <4>1, Zenon DEF JobFields
      <4>3. job.i \in Nat /\ Below(job.i + 1) BY <4>1, Zenon DEF Replies, InOrder, Written
      <4>4. PICK k \in Nat : k = job.i + 1 BY <4>3
      <4>5. \A j \in DOMAIN chat' : chat'[j].text = "reply" => j \in DOMAIN chat /\ chat'[j] = chat[j]
        <5>1. DOMAIN chat' = DOMAIN chat BY <2>1, Zenon DEF Replies
        <5>. QED BY <2>2, <2>3, <5>1, Zenon DEF Says1
      <4>6. Below(k)' BY <4>c, <4>3, <4>4, <4>5, Zenon DEF Below
      <4>. QED BY <4>2, <4>4, <4>6, Zenon DEF InOrder, Writing, Written, Below
    <3>3. CASE DeleteReplacedFails \/ CleanupFails
      <4>1. DispatchError BY <3>3, Zenon DEF DeleteReplacedFails, CleanupFails, TargetUnknown
      <4>. QED BY <2>a, <4>1, EndsQuiet, <1>QuietInOrder, Zenon DEF Ends
    <3>. QED BY <3>1, <3>2, <3>3, Zenon
  <2>6. CASE m \in DOMAIN chat
    <3>1. NextReply(x) BY <2>2, <2>6, Zenon DEF NextReply
    <3>. QED BY <2>0, <2>3, <2>5, <3>1, <1>SaysReplies, Zenon
  <2>7. CASE m \notin DOMAIN chat
    <3>1. chat' = chat BY <2>1, <2>7 DEF Replies
    <3>. QED BY <2>5, <3>1, <1>PlainReplies, Zenon
  <2>. QED BY <2>6, <2>7, Zenon
(* redo writes its parts over the old messages, or sends them.                *)
<1>RedoReplies.
    ASSUME Safe, Replies, ConfirmedStays,
           RedoAssert \/ RedoEdit \/ RedoUneditable \/ RedoEditFails \/ RedoUpdate
    PROVE  Replies'
  <2>. USE <1>RedoReplies
  <2>a. DOMAIN job = JobFields BY Zenon DEF Safe, Tables
  <2>b. ASSUME job.pc = "r_edit", Shows(OldMessage, RedoText)
        PROVE  Says1(OldMessage, RedoText) /\ NextReply(RedoText) /\ cur \in Update
    <3>1. cur \in Update BY <2>b, AtWork, Zenon
    <3>2. job.i \in Nat /\ Below(job.i) BY <2>b, Zenon DEF Replies, InOrder, Writing
    <3>3. op[cur] = "committed" BY <2>b, Zenon DEF Safe, Place, Cleaning
    <3>4. RedoText \in Message BY <3>1, <3>2, Zenon DEF RedoText, Message, Texts
    <3>5. NextReply(RedoText) BY <3>2, <3>3, Zenon DEF RedoText, NextReply, Confirmed
    <3>. QED BY <2>b, <3>1, <3>4, <3>5, <1>ShowsSays, Zenon DEF Shows
  <2>1. CASE RedoAssert
    <3>1. job.pc = "r_assert" /\ UNCHANGED <<chat, cur>>
      BY <2>1, Zenon DEF RedoAssert, telegramVars, inboxVars, At
    <3>2. CASE ReplyError BY <3>1, <3>2, <1>EndsReplies, Zenon DEF Ends
    <3>3. CASE job' = [job EXCEPT !.pc = RedoNext, !.why = "redo_chunk",
                                  !.i = IF RedoNext = "c_delete" THEN Len(Ids) ELSE @]
      <4>1. RedoNext \in {"r_edit", "create", "c_delete", "finish"} BY Zenon DEF RedoNext
      <4>2. \/ job'.pc \in {"r_edit", "create"} /\ job'.i = job.i
            \/ job'.pc \in {"c_delete", "finish"}
        BY <2>a, <3>3, <4>1, Zenon DEF JobFields
      <4>3. Writing BY <3>1, Zenon DEF Writing
      <4>4. InOrder' BY <3>1, <4>2, <4>3, Zenon DEF Replies, InOrder, Writing, Written, Below
      <4>. QED BY <3>1, <4>4, <1>PlainReplies, Zenon
    <3>. QED BY <2>1, <3>2, <3>3, Zenon DEF RedoAssert
  <2>2. CASE RedoEdit
    <3>1. job.pc = "r_edit" /\ cur' = cur /\ Shows(OldMessage, RedoText) /\ Goto("r_update")
      BY <2>2, Zenon DEF RedoEdit, inboxVars, At
    <3>2. job'.pc = "r_update" /\ job'.i = job.i BY <2>a, <3>1, Zenon DEF Goto, JobFields
    <3>3. job.i \in Nat /\ Below(job.i) BY <3>1, Zenon DEF Replies, InOrder, Writing
    <3>4. Below(job.i + 1) BY <3>3, <1>BelowGrows, Zenon
    <3>5. PICK k \in Nat : k = job.i + 1 BY <3>3
    <3>6. RedoText.part < k BY <3>3, <3>5 DEF RedoText
    <3>7. Below(k)' BY <2>b, <3>1, <3>4, <3>5, <3>6, <1>SaysBelow, Zenon
    <3>8. InOrder' BY <3>2, <3>3, <3>5, <3>7, Zenon DEF InOrder, Writing, Written, Below
    <3>. QED BY <2>b, <3>1, <3>8, <1>SaysReplies, Zenon
  <2>3. CASE RedoUneditable
    <3>1. /\ job.pc = "r_edit" /\ UNCHANGED <<chat, cur>> /\ \E m : StartSend("replace", m)
      BY <2>3, Zenon DEF RedoUneditable, telegramVars, inboxVars, At
    <3>2. job'.pc = "create" /\ job'.i = job.i BY <2>a, <3>1, Zenon DEF StartSend, JobFields
    <3>3. InOrder' BY <3>1, <3>2, <1>SamePart, Zenon DEF Writing, Written
    <3>. QED BY <3>1, <3>3, <1>PlainReplies, Zenon
  <2>4. CASE RedoEditFails
    <3>1. job.pc = "r_edit" /\ DispatchError /\ (chat' = chat \/ Shows(OldMessage, RedoText))
      BY <2>4, Zenon DEF RedoEditFails, TargetUnknown, telegramVars, At
    <3>2. InOrder' BY <2>a, <3>1, EndsQuiet, <1>QuietInOrder, Zenon DEF Ends
    <3>. QED BY <2>b, <3>1, <3>2, <1>SaysReplies, <1>PlainReplies, Zenon
  <2>5. CASE RedoUpdate
    <3>1. /\ job.pc = "r_update" /\ UNCHANGED <<chat, cur>>
          /\ job' = [job EXCEPT !.pc = "r_assert", !.i = @ + 1, !.rev = @ + 1]
      BY <2>5, Zenon DEF RedoUpdate, telegramVars, inboxVars, At
    <3>2. job'.pc = "r_assert" /\ job'.i = job.i + 1 BY <2>a, <3>1, Zenon DEF JobFields
    <3>3. InOrder' BY <3>1, <3>2, <1>NextPart, Zenon DEF Written
    <3>. QED BY <3>1, <3>3, <1>PlainReplies, Zenon
  <2>. QED BY <2>1, <2>2, <2>3, <2>4, <2>5, Zenon
<1>. SUFFICES ASSUME Safe, Replies, [Next]_vars PROVE Replies'
  BY Zenon
<1>0. ConfirmedStays BY NextKeeps, Zenon DEF Keeps
<1>1. CASE SendStep BY <1>0, <1>1, <1>MessageReplies, <1>EditReplies, Zenon DEF SendStep
<1>2. CASE TurnStep
  BY <1>0, <1>2, <1>QuietReplies, <1>RemovedReplies, <1>RedoReplies, Zenon DEF TurnStep
<1>3. CASE UNCHANGED vars
  <2>1. UNCHANGED <<chat, job, cur>> BY <1>3, Zenon DEF vars, telegramVars, inboxVars
  <2>2. InOrder' BY <2>1, Zenon DEF Replies, InOrder, Writing, Written, Below
  <2>. QED BY <1>0, <2>1, <2>2, <1>PlainReplies, Zenon
<1>4. ASSUME NEW u \in Update, Reconcile(u) PROVE Replies'
  <2>1. UNCHANGED <<chat, job, cur>> BY <1>4, Zenon DEF Reconcile, telegramVars, inboxVars
  <2>2. InOrder' BY <2>1, Zenon DEF Replies, InOrder, Writing, Written, Below
  <2>. QED BY <1>0, <2>1, <2>2, <1>PlainReplies, Zenon
<1>. QED BY <1>0, <1>1, <1>2, <1>3, <1>4, <1>ExecuteReplies, <1>QuietReplies, Zenon DEF Next

(* Each part of a reply is in at most one message of the chat, through lost   *)
(* answers, failed writes, crashes and retries (stream_sink, finalize,        *)
(* send_turn_chunk_scoped, redo_turn).                                        *)
THEOREM RepliesAreShownOnce == Spec => []ReplyShownOnce
<1>1. Init => Safe /\ Replies BY InitSafe, InitReplies, Zenon
<1>2. Safe /\ Replies /\ [Next]_vars => (Safe /\ Replies)'
  BY NextKeeps, NextReplies, Zenon DEF Keeps
<1>3. Replies => ReplyShownOnce BY Zenon DEF Replies
<1>. QED BY <1>1, <1>2, <1>3, PTL DEF Spec

-----------------------------------------------------------------------------
(* The rows: a message is in at most one row, a row only ever takes a message *)
(* that was just sent, and a stored target names messages of its own turn.    *)
Row == [msg : Nat, version : Nat, life : {"none", "active", "retired"}, at : Nat]
Gone == {"deleted", "tombstone"}

Has(t, c, m) == rows[t][c].life # "none" /\ rows[t][c].msg = m
Stored(u) == target[u].status # "none"
Names(u, m) == \E k \in DOMAIN target[u].ids : target[u].ids[k] = m

RowsOK ==
    /\ rows \in [Update -> [Chunk -> Row]]
    /\ clock \in Nat
    /\ \A t \in Update, c \in Chunk :
          IF rows[t][c].life = "none" THEN rows[t][c].version = 0 ELSE rows[t][c].msg \in DOMAIN chat
    /\ \A t, x \in Update : \A c, d \in Chunk : \A m \in DOMAIN chat :
          Has(t, c, m) /\ Has(x, d, m) => t = x /\ c = d

StoredOK(u) ==
    Stored(u) =>
        /\ target[u].turn \in Update /\ target[u].rev \in Nat
        /\ target[u].ids \in Seq(Nat) /\ target[u].ids # <<>>
        /\ \A m : Names(u, m) =>
              m \in DOMAIN chat /\ \A t \in Update, c \in Chunk : Has(t, c, m) => t = target[u].turn

(* No row and no target has the message yet.                                  *)
Fresh(m) ==
    /\ m \in DOMAIN chat
    /\ \A t \in Update, c \in Chunk : ~Has(t, c, m)
    /\ \A u \in Update : Stored(u) => ~Names(u, m)

JobOK ==
    /\ job.i \in Nat /\ job.n \in Nat /\ job.rev \in Nat
    /\ job.pc \in {"edit", "update"} => job.n \in Chunk
    /\ Sending({"chunk", "redo_chunk"}) => job.i \in 1 .. job.n /\ job.n \in Chunk
    /\ job.pc \in {"r_assert", "r_edit", "r_update", "r_delete"} \/ Sending({"replace"}) =>
          job.i # 0 /\ job.n \in Chunk
    /\ job.pc \in {"v_call", "v_mark", "r_edit", "r_update", "c_delete", "c_mark"} =>
          job.i \in DOMAIN target[cur].ids
    /\ job.pc = "record" => Fresh(Len(chat)) /\ chat[Len(chat)].text \notin Gone
    /\ job.pc = "r_delete" =>
          job.msg \in DOMAIN chat /\ \A t \in Update, c \in Chunk : ~Has(t, c, job.msg)

Ledger == RowsOK /\ (\A u \in Update : StoredOK(u)) /\ JobOK

(* A render_version never goes back.                                          *)
VersionsGrow == \A t \in Update, c \in Chunk : rows'[t][c].version >= rows[t][c].version

-----------------------------------------------------------------------------
(* What a step does to the rows and to the targets.                           *)
ChatGrows == chat' \in Seq(Message) /\ Len(chat') >= Len(chat)

TargetsKept ==
    \A u \in Update : Stored(u)' =>
        Stored(u) /\ target'[u].turn = target[u].turn /\ target'[u].rev = target[u].rev
                  /\ target'[u].ids = target[u].ids

NewRowsFresh ==
    \A t \in Update, c \in Chunk : \A m : Has(t, c, m)' => Has(t, c, m) \/ Fresh(m)

(* Rows are retired.                                                          *)
Retires ==
    /\ rows' \in [Update -> [Chunk -> Row]]
    /\ \A t \in Update, c \in Chunk :
          \/ rows'[t][c] = rows[t][c]
          \/ /\ rows[t][c].life = "active" /\ rows'[t][c].life = "retired"
             /\ rows'[t][c].msg = rows[t][c].msg /\ rows'[t][c].version = rows[t][c].version
             /\ rows'[t][c].at = rows[t][c].at

-----------------------------------------------------------------------------
(* find_last_turn: the messages come from the active rows of one turn.        *)
IdsOf(t, s) == [k \in DOMAIN s |-> rows[t][s[k]].msg]

(* A command that brings its messages up to date has a turn.                  *)
LEMMA CleanedTurn == ASSUME Safe, Ledger, Cleaning PROVE cur \in Update /\ target[cur].turn \in Update
BY Cleaned, Zenon DEF Ledger, StoredOK, Stored

(* The row of the message that is recorded.                                   *)
LEMMA RecordsRow ==
    ASSUME Safe, Ledger, job.pc = "record", job.why # "replace"
    PROVE  RowTurn \in Update /\ RowChunk \in Chunk
<1>0. cur \in Update BY AtWork, Zenon
<1>1. job.why \in {"placeholder", "chunk", "redo_chunk"} BY Zenon DEF Safe, Place, HasRow
<1>2. CASE job.why = "placeholder" BY <1>0, <1>2, BoundsAssumption DEF RowTurn, RowChunk, Chunk
<1>3. CASE job.why # "placeholder"
  <2>1. job.i \in 1 .. job.n /\ job.n \in Chunk
    BY <1>1, <1>3, Zenon DEF Ledger, JobOK, Sending, SendLabels
  <2>2. job.why = "redo_chunk" => target[cur].turn \in Update
    BY CleanedTurn, Zenon DEF Cleaning, Sending, SendLabels
  <2>. QED BY <1>0, <1>3, <2>1, <2>2, BoundsAssumption DEF RowTurn, RowChunk, Chunk
<1>. QED BY <1>2, <1>3, Zenon

(* Rows are retired: the whole turn, or the row of one message.               *)
LEMMA MessageRetires ==
    ASSUME RowsOK, NEW m, RetireMessage(m)
    PROVE  /\ Retires
           /\ \A t \in Update, c \in Chunk : rows'[t][c].life = "active" => rows'[t][c] = rows[t][c]
           /\ \A t \in Update, c \in Chunk : rows'[t][c].life = "active" => rows'[t][c].msg # m
<1>1. PICK tc \in RowsOf(m) : RowsOf(m) = {tc} /\ rows' = [rows EXCEPT ![tc[1]][tc[2]].life = "retired"]
  BY Zenon DEF RetireMessage
<1>2. PICK t \in Update, c \in Chunk :
        tc = <<t, c>> /\ rows[t][c].life = "active" /\ rows[t][c].msg = m
  BY <1>1, Zenon DEF RowsOf
<1>3. rows' = [rows EXCEPT ![t][c].life = "retired"] BY <1>1, <1>2, Zenon
<1>4. rows \in [Update -> [Chunk -> Row]] BY Zenon DEF RowsOK
<1>a. [rows[t][c] EXCEPT !.life = "retired"] \in Row BY <1>4 DEF Row
<1>5. /\ rows' \in [Update -> [Chunk -> Row]]
      /\ rows'[t][c] = [rows[t][c] EXCEPT !.life = "retired"]
      /\ \A x \in Update, d \in Chunk : x # t \/ d # c => rows'[x][d] = rows[x][d]
  BY <1>3, <1>4, <1>a, Zenon
<1>6. /\ rows'[t][c].life = "retired" /\ rows'[t][c].msg = rows[t][c].msg
      /\ rows'[t][c].version = rows[t][c].version /\ rows'[t][c].at = rows[t][c].at
  BY <1>4, <1>5 DEF Row
<1>7. Retires BY <1>2, <1>5, <1>6, Zenon DEF Retires
<1>8. \A x \in Update, d \in Chunk : rows'[x][d].life = "active" => rows'[x][d] = rows[x][d]
  BY <1>5, <1>6, Zenon
<1>9. ASSUME NEW x \in Update, NEW d \in Chunk, rows'[x][d].life = "active", rows'[x][d].msg = m
      PROVE  FALSE
  <2>1. rows[x][d].life = "active" /\ rows[x][d].msg = m BY <1>8, <1>9, Zenon
  <2>2. <<x, d>> \in RowsOf(m) BY <2>1, Zenon DEF RowsOf
  <2>3. x = t /\ d = c BY <1>1, <1>2, <2>2, Zenon
  <2>. QED BY <1>6, <1>9, <2>3, Zenon
<1>. QED BY <1>7, <1>8, <1>9, Zenon

(* retire_turn_scoped.                                                        *)
LEMMA TurnRetires ==
    ASSUME RowsOK, target[cur].turn \in Update, RetireTurn
    PROVE  Retires
<1>1. PICK t \in Update : t = target[cur].turn BY Zenon
<1>2. /\ rows' = [rows EXCEPT ![t] = [c \in Chunk |->
            IF c \in ActiveRows(t) THEN [rows[t][c] EXCEPT !.life = "retired"] ELSE rows[t][c]]]
  BY <1>1, Zenon DEF RetireTurn
<1>3. rows \in [Update -> [Chunk -> Row]] BY Zenon DEF RowsOK
<1>4. \A c \in Chunk : rows[t][c] \in Row /\ [rows[t][c] EXCEPT !.life = "retired"] \in Row
  BY <1>3 DEF Row
<1>5. /\ rows' \in [Update -> [Chunk -> Row]]
      /\ \A x \in Update, c \in Chunk : x # t => rows'[x][c] = rows[x][c]
      /\ \A c \in Chunk : rows'[t][c] =
            IF c \in ActiveRows(t) THEN [rows[t][c] EXCEPT !.life = "retired"] ELSE rows[t][c]
  BY <1>2, <1>3, <1>4, Zenon
<1>6. Retires
  <2>1. ASSUME NEW c \in ActiveRows(t)
        PROVE  /\ rows[t][c].life = "active" /\ rows'[t][c].life = "retired"
               /\ rows'[t][c].msg = rows[t][c].msg /\ rows'[t][c].version = rows[t][c].version
               /\ rows'[t][c].at = rows[t][c].at
    <3>2. c \in Chunk /\ rows[t][c].life = "active" BY <2>1, Zenon DEF ActiveRows
    <3>3. rows'[t][c] = [rows[t][c] EXCEPT !.life = "retired"] /\ rows[t][c] \in Row
      BY <1>4, <1>5, <2>1, <3>2, Zenon
    <3>. QED BY <3>2, <3>3, Zenon DEF Row
  <2>2. ASSUME NEW x \in Update, NEW c \in Chunk
        PROVE  rows'[x][c] = rows[x][c] \/ (x = t /\ c \in ActiveRows(t))
    BY <1>5, Zenon
  <2>. QED BY <1>5, <2>1, <2>2, ZenonT(30) DEF Retires
<1>. QED BY <1>6, Zenon

(* There are no rows and no targets at the start.                             *)
LEMMA InitLedger == Init => Ledger
<1>. SUFFICES ASSUME Init PROVE Ledger BY Zenon
<1>1. rows = [u \in Update |-> [c \in Chunk |-> NoRow]] /\ clock = 0 /\ chat = <<>> /\ job = Idle
      /\ target = [u \in Update |-> NoTarget]
  BY Zenon DEF Init
<1>2. NoRow \in Row BY Zenon DEF NoRow, Row
<1>3. rows \in [Update -> [Chunk -> Row]] /\ \A t \in Update, c \in Chunk : rows[t][c] = NoRow
  BY <1>1, <1>2, Zenon
<1>4. RowsOK BY <1>1, <1>3, Zenon DEF RowsOK, NoRow, Has
<1>5. \A u \in Update : StoredOK(u) BY <1>1, Zenon DEF StoredOK, Stored, NoTarget
<1>6. JobOK BY <1>1, Zenon DEF JobOK, Idle, Sending, SendLabels
<1>. QED BY <1>4, <1>5, <1>6, Zenon DEF Ledger

(* A message is edited, deleted or appended; none disappears.                 *)
LEMMA NextChat == Safe /\ Replies /\ Replies' /\ [Next]_vars => ChatGrows
<1>. SUFFICES ASSUME Safe, Replies, Replies', [Next]_vars PROVE ChatGrows BY Zenon
<1>1. chat' = chat \/ (\E x : chat' = Append(chat, x)) \/ (\E m, x : chat' = [chat EXCEPT ![m] = x])
  <2>1. CASE SendStep
    BY <2>1, Zenon DEF SendStep, ReusePlaceholder, SendPlaceholder, CreateDelivery, MarkSending,
       MessageAccepted, MessageRefused, AnswerLost, RecordRow, ReplaceRow, RecordFails, ConfirmSent,
       ConfirmFails, EditPlaceholder, EditFails, UpdateChunk, UpdateChunkFails, Settle, telegramVars
  <2>2. CASE ExecuteStep
    BY <2>2, Zenon DEF ExecuteStep, ExecuteCommits, ExecuteFails, ExecuteAmbiguous, ExecuteReplays,
       telegramVars
  <2>3. CASE TurnStep
    BY <2>3, Zenon DEF TurnStep, AlreadyDone, TargetConflict, FreezeTarget, StartApplying, CheckRevision,
       RetireTurn, RetireFails, RevokeMessage, RevokeCallFails, MarkRevoked, MarkRevokedFails, RedoAssert,
       RedoEdit, RedoUneditable, RedoEditFails, RedoUpdate, RedoUpdateFails, DeleteReplaced,
       DeleteReplacedFails, DeleteSurplus, MarkDeleted, CleanupFails, FinishTarget, FinishUnknown,
       MarkDelivered, Revokes, Deletes, Shows, telegramVars
  <2>4. CASE Crash \/ UNCHANGED vars \/ \E u \in Update : Claim(u) \/ Reconcile(u)
    BY <2>4, Zenon DEF Crash, Claim, Reconcile, vars, telegramVars
  <2>. QED BY <2>1, <2>2, <2>3, <2>4, Zenon DEF Next
<1>2. chat \in Seq(Message) /\ chat' \in Seq(Message) BY Zenon DEF Replies
<1>3. CASE \E x : chat' = Append(chat, x) BY <1>2, <1>3 DEF ChatGrows
<1>4. CASE \E m, x : chat' = [chat EXCEPT ![m] = x]
  <2>1. DOMAIN chat' = DOMAIN chat BY <1>4, Zenon
  <2>2. Len(chat') = Len(chat) BY <1>2, <2>1
  <2>. QED BY <1>2, <2>2 DEF ChatGrows
<1>. QED BY <1>1, <1>2, <1>3, <1>4 DEF ChatGrows

(* Every step keeps the ledger, and the versions of the rows grow.            *)
LEMMA NextLedger == Safe /\ Replies /\ Ledger /\ [Next]_vars => Ledger' /\ VersionsGrow
<1>RowsStay.
    ASSUME RowsOK, chat \in Seq(Message), ChatGrows, UNCHANGED <<rows, clock>>
    PROVE  RowsOK' /\ VersionsGrow /\ NewRowsFresh
  <2>. USE <1>RowsStay
  <2>1. DOMAIN chat \subseteq DOMAIN chat' BY DEF ChatGrows
  <2>2. \A t, x \in Update : \A c, d \in Chunk : \A m \in DOMAIN chat' :
            Has(t, c, m)' /\ Has(x, d, m)' => t = x /\ c = d
    BY DEF RowsOK, Has
  <2>3. VersionsGrow BY DEF RowsOK, VersionsGrow, Row
  <2>4. NewRowsFresh BY Zenon DEF NewRowsFresh, Has
  <2>5. /\ rows' \in [Update -> [Chunk -> Row]]
        /\ clock' \in Nat
        /\ \A t \in Update, c \in Chunk :
              IF rows'[t][c].life = "none" THEN rows'[t][c].version = 0 ELSE rows'[t][c].msg \in DOMAIN chat'
    BY <2>1, Zenon DEF RowsOK
  <2>. QED BY <2>2, <2>3, <2>4, <2>5, Zenon DEF RowsOK
<1>StoredStays.
    ASSUME \A u \in Update : StoredOK(u), chat \in Seq(Message), ChatGrows, TargetsKept, NewRowsFresh
    PROVE  \A u \in Update : StoredOK(u)'
  <2>. USE <1>StoredStays
  <2>. SUFFICES ASSUME NEW u \in Update, Stored(u)' PROVE StoredOK(u)'
    BY Zenon DEF StoredOK
  <2>1. /\ Stored(u) /\ target'[u].turn = target[u].turn /\ target'[u].rev = target[u].rev
        /\ target'[u].ids = target[u].ids
    BY Zenon DEF TargetsKept
  <2>2. ASSUME NEW m, Names(u, m)'
        PROVE  m \in DOMAIN chat' /\ \A t \in Update, c \in Chunk : Has(t, c, m)' => t = target[u].turn
    <3>1. Names(u, m) BY <2>1, <2>2, Zenon DEF Names
    <3>2. m \in DOMAIN chat /\ \A t \in Update, c \in Chunk : Has(t, c, m) => t = target[u].turn
      BY <2>1, <3>1, Zenon DEF StoredOK
    <3>3. ~Fresh(m) BY <2>1, <3>1, Zenon DEF Fresh
    <3>. QED BY <3>2, <3>3 DEF NewRowsFresh, ChatGrows
  <2>3. target[u].turn \in Update /\ target[u].rev \in Nat /\ target[u].ids \in Seq(Nat) /\ target[u].ids # <<>>
    BY <2>1, Zenon DEF StoredOK
  <2>. QED BY <2>1, <2>2, <2>3, Zenon DEF StoredOK
(* A row is written: it keeps its message, or takes one that is fresh.        *)
<1>WriteRows.
    ASSUME RowsOK, chat \in Seq(Message), chat' = chat,
           NEW t \in Update, NEW c \in Chunk, NEW m \in Nat, NEW v \in Nat, WriteRow(t, c, m, v),
           v >= rows[t][c].version, Has(t, c, m) \/ Fresh(m)
    PROVE  /\ RowsOK' /\ VersionsGrow /\ NewRowsFresh
           /\ Has(t, c, m)' /\ \A k : Has(t, c, k)' => k = m
           /\ \A x \in Update, d \in Chunk : x # t \/ d # c => rows'[x][d] = rows[x][d]
  <2>. USE <1>WriteRows
  <2>0. rows \in [Update -> [Chunk -> Row]] /\ clock \in Nat BY Zenon DEF RowsOK
  <2>1. /\ rows' = [rows EXCEPT ![t][c] = [msg |-> m, version |-> v, life |-> "active", at |-> clock + 1]]
        /\ clock' = clock + 1
    BY Zenon DEF WriteRow
  <2>2. [msg |-> m, version |-> v, life |-> "active", at |-> clock + 1] \in Row BY <2>0 DEF Row
  <2>3. /\ rows' \in [Update -> [Chunk -> Row]]
        /\ rows'[t][c] = [msg |-> m, version |-> v, life |-> "active", at |-> clock + 1]
        /\ \A x \in Update, d \in Chunk : x # t \/ d # c => rows'[x][d] = rows[x][d]
    BY <2>0, <2>1, <2>2, Zenon
  <2>4. /\ rows'[t][c].msg = m /\ rows'[t][c].version = v /\ rows'[t][c].life = "active"
        /\ rows'[t][c].at = clock + 1
    BY <2>3
  <2>5. Has(t, c, m)' /\ \A k : Has(t, c, k)' => k = m BY <2>4, Zenon DEF Has
  <2>6. m \in DOMAIN chat BY ZenonT(30) DEF RowsOK, Has, Fresh
  <2>7. \A x \in Update, d \in Chunk : x # t \/ d # c => \A k : Has(x, d, k)' <=> Has(x, d, k)
    BY <2>3, Zenon DEF Has
  <2>8. NewRowsFresh BY <2>5, <2>7, Zenon DEF NewRowsFresh
  <2>9. \A x, y \in Update : \A d, e \in Chunk : \A k \in DOMAIN chat :
            Has(x, d, k)' /\ Has(y, e, k)' => x = y /\ d = e
    <3>1. \A x \in Update, d \in Chunk : Has(x, d, m) => x = t /\ d = c
      BY <2>6, Zenon DEF RowsOK, Fresh
    <3>2. \A x, y \in Update : \A d, e \in Chunk : \A k \in DOMAIN chat :
            Has(x, d, k) /\ Has(y, e, k) => x = y /\ d = e
      BY Zenon DEF RowsOK
    <3>. QED BY <2>5, <2>7, <3>1, <3>2
  <2>10. clock' \in Nat BY <2>0, <2>1
  <2>12. \A x \in Update, d \in Chunk :
            IF rows'[x][d].life = "none" THEN rows'[x][d].version = 0 ELSE rows'[x][d].msg \in DOMAIN chat'
    BY <2>3, <2>4, <2>6 DEF RowsOK
  <2>13. VersionsGrow
    <3>1. \A x \in Update, d \in Chunk : rows[x][d].version \in Nat BY <2>0, Zenon DEF Row
    <3>. QED BY <2>3, <2>4, <3>1 DEF VersionsGrow
  <2>14. RowsOK' BY <2>3, <2>9, <2>10, <2>12, Zenon DEF RowsOK
  <2>. QED BY <2>3, <2>5, <2>8, <2>13, <2>14, Zenon
<1>RetireRows.
    ASSUME RowsOK, chat' = chat, clock' = clock, Retires
    PROVE  RowsOK' /\ VersionsGrow /\ NewRowsFresh
  <2>. USE <1>RetireRows
  <2>1. \A t \in Update, c \in Chunk :
          /\ rows'[t][c].msg = rows[t][c].msg /\ rows'[t][c].version = rows[t][c].version
          /\ rows'[t][c].at = rows[t][c].at
          /\ rows'[t][c].life = "none" <=> rows[t][c].life = "none"
    BY Zenon DEF Retires
  <2>2. \A t \in Update, c \in Chunk : \A m : Has(t, c, m)' <=> Has(t, c, m) BY <2>1, Zenon DEF Has
  <2>3. NewRowsFresh BY <2>2, Zenon DEF NewRowsFresh
  <2>4. \A t \in Update, c \in Chunk : rows[t][c].version \in Nat BY Zenon DEF RowsOK, Row
  <2>5. VersionsGrow BY <2>1, <2>4 DEF VersionsGrow
  <2>6. \A t, x \in Update : \A c, d \in Chunk : \A m \in DOMAIN chat :
            Has(t, c, m)' /\ Has(x, d, m)' => t = x /\ c = d
    BY <2>2 DEF RowsOK
  <2>7. /\ rows' \in [Update -> [Chunk -> Row]]
        /\ clock' \in Nat
        /\ \A t \in Update, c \in Chunk :
              IF rows'[t][c].life = "none" THEN rows'[t][c].version = 0 ELSE rows'[t][c].msg \in DOMAIN chat'
    BY <2>1 DEF RowsOK, Retires
  <2>. QED BY <2>3, <2>5, <2>6, <2>7, Zenon DEF RowsOK
<1>ActiveIds.
    ASSUME RowsOK, NEW t \in Update, NEW s \in ActiveChunks(t)
    PROVE  /\ IdsOf(t, s) \in Seq(Nat) /\ IdsOf(t, s) # <<>>
           /\ \A k \in DOMAIN IdsOf(t, s) : \E c \in ActiveRows(t) : IdsOf(t, s)[k] = rows[t][c].msg
  <2>. USE <1>ActiveIds
  <2>0. PICK ids : ids = IdsOf(t, s) BY Zenon
  <2>1. PICK n \in Chunk : s \in [1 .. n -> ActiveRows(t)] BY Zenon DEF ActiveChunks
  <2>2. n \in Nat /\ n # 0 BY BoundsAssumption DEF Chunk
  <2>3. \A c \in ActiveRows(t) : rows[t][c].msg \in Nat BY Zenon DEF RowsOK, Row, ActiveRows
  <2>4. DOMAIN s = 1 .. n /\ \A k \in 1 .. n : s[k] \in ActiveRows(t) BY <2>1, Zenon
  <2>5. ids \in [1 .. n -> Nat] BY <2>0, <2>3, <2>4, Zenon DEF IdsOf
  <2>6. ids \in Seq(Nat) /\ DOMAIN ids = 1 .. n /\ ids # <<>> BY <2>2, <2>5
  <2>7. \A k \in 1 .. n : ids[k] = rows[t][s[k]].msg BY <2>0, <2>4, Zenon DEF IdsOf
  <2>. QED BY <2>0, <2>4, <2>6, <2>7, Zenon
<1>SameTargets. ASSUME target' = target PROVE TargetsKept
  BY <1>SameTargets, Zenon DEF TargetsKept, Stored
<1>StatusTargets.
    ASSUME Safe, cur \in Update, Stored(cur), NEW s, target' = [target EXCEPT ![cur].status = s]
    PROVE  TargetsKept
  BY <1>StatusTargets, Zenon DEF Safe, Tables, TargetFields, TargetsKept, Stored
<1>FailedTargets.
    ASSUME Safe, job.pc \in SendLabels, SendFailed
    PROVE  TargetsKept
  <2>. USE <1>FailedTargets
  <2>1. CASE job.why \in {"redo_chunk", "replace"}
    <3>1. Cleaning BY <2>1, Zenon DEF Cleaning, Sending
    <3>2. cur \in Update /\ Stored(cur) BY <3>1, Cleaned, Zenon DEF Stored
    <3>3. target' = [target EXCEPT ![cur].status = "unknown"] BY <2>1, Zenon DEF SendFailed
    <3>. QED BY <3>2, <3>3, <1>StatusTargets, Zenon
  <2>2. CASE job.why \notin {"redo_chunk", "replace"}
    <3>1. target' = target BY <2>2, Zenon DEF SendFailed
    <3>. QED BY <3>1, <1>SameTargets, Zenon
  <2>. QED BY <2>1, <2>2, Zenon
<1>QuietJobOK.
    ASSUME Quiet', job'.i \in Nat, job'.n \in Nat, job'.rev \in Nat
    PROVE  JobOK'
  BY <1>QuietJobOK, Zenon DEF JobOK, Quiet, Sending, SendLabels
<1>EndsJobOK.
    ASSUME Safe, JobOK, Ends
    PROVE  JobOK'
  <2>. USE <1>EndsJobOK
  <2>1. DOMAIN job = JobFields BY Zenon DEF Safe, Tables
  <2>2. job'.i \in Nat /\ job'.n \in Nat /\ job'.rev \in Nat BY <2>1, EndsQuiet DEF JobOK, Idle
  <2>. QED BY <2>1, <2>2, EndsQuiet, <1>QuietJobOK, Zenon
(* A step that writes no row.                                                 *)
<1>MoveLedger.
    ASSUME Replies, Ledger, ChatGrows, UNCHANGED <<rows, clock>>, TargetsKept, JobOK'
    PROVE  Ledger' /\ VersionsGrow
  <2>. USE <1>MoveLedger
  <2>1. chat \in Seq(Message) BY Zenon DEF Replies
  <2>2. RowsOK' /\ VersionsGrow /\ NewRowsFresh BY <2>1, <1>RowsStay, Zenon DEF Ledger
  <2>3. \A u \in Update : StoredOK(u)' BY <2>1, <2>2, <1>StoredStays, Zenon DEF Ledger
  <2>. QED BY <2>2, <2>3, Zenon DEF Ledger
<1>EndsLedger.
    ASSUME Safe, Replies, Ledger, ChatGrows, UNCHANGED <<rows, clock>>, TargetsKept, Ends
    PROVE  Ledger' /\ VersionsGrow
  BY <1>EndsLedger, <1>EndsJobOK, <1>MoveLedger, Zenon DEF Ledger
<1>MessageLedger.
    ASSUME Safe, Replies, Ledger, ChatGrows,
           \/ ReusePlaceholder \/ SendPlaceholder
           \/ CreateDelivery \/ MarkSending \/ MessageAccepted \/ MessageRefused \/ AnswerLost
           \/ RecordFails \/ ConfirmSent \/ ConfirmFails
    PROVE  Ledger' /\ VersionsGrow
  <2>. USE <1>MessageLedger
  <2>a. DOMAIN job = JobFields /\ JobOK BY Zenon DEF Safe, Tables, Ledger
  <2>b. UNCHANGED <<rows, clock>>
    BY Zenon DEF ReusePlaceholder, SendPlaceholder, CreateDelivery, MarkSending, MessageAccepted,
       MessageRefused, AnswerLost, RecordFails, ConfirmSent, ConfirmFails, tableVars
  <2>1. CASE ReusePlaceholder \/ SendPlaceholder
    <3>1. target' = target BY <2>1, Zenon DEF ReusePlaceholder, SendPlaceholder, tableVars
    <3>2. /\ job'.pc = "execute" \/ (job'.pc = "create" /\ job'.why = "placeholder")
          /\ job'.i = job.i /\ job'.n = job.n /\ job'.rev \in {1, job.rev}
      BY <2>1, <2>a, SinkMoves, Zenon
    <3>3. JobOK' BY <2>a, <3>2, <1>QuietJobOK DEF JobOK, Quiet
    <3>. QED BY <2>b, <3>1, <3>3, <1>SameTargets, <1>MoveLedger, Zenon
  <2>2. CASE CreateDelivery \/ MarkSending
    <3>1. target' = target /\ job.pc \in {"create", "mark"}
      BY <2>2, Zenon DEF CreateDelivery, MarkSending, At
    <3>2. \/ \E d : job' = [job EXCEPT !.pc = "mark", !.dlv = d]
          \/ job' = [job EXCEPT !.pc = "call"]
      BY <2>2, Zenon DEF CreateDelivery, MarkSending, Goto
    <3>3. /\ job'.pc \in {"mark", "call"} /\ job'.why = job.why
          /\ job'.i = job.i /\ job'.n = job.n /\ job'.rev = job.rev
      BY <2>a, <3>2, Zenon DEF JobFields
    <3>4. JobOK' BY <2>a, <3>1, <3>3, Zenon DEF JobOK, Sending, SendLabels
    <3>. QED BY <2>b, <3>1, <3>4, <1>SameTargets, <1>MoveLedger, Zenon
  <2>3. CASE MessageAccepted
    <3>1. /\ target' = target /\ job.pc = "call" /\ chat' = Append(chat, Says)
          /\ Goto(IF HasRow THEN "record" ELSE "confirm")
      BY <2>3, Zenon DEF MessageAccepted, tableVars, At
    <3>2. /\ job'.pc \in {"record", "confirm"} /\ job'.why = job.why
          /\ job'.i = job.i /\ job'.n = job.n /\ job'.rev = job.rev
      BY <2>a, <3>1, Zenon DEF Goto, JobFields
    <3>3. chat \in Seq(Message) /\ Says \in Message /\ Says.text \notin Gone
      BY <3>1, SaysMessage, Zenon DEF Replies, Gone
    <3>4. PICK m \in Nat : m = Len(chat) + 1 BY <3>3
    <3>5. m \notin DOMAIN chat /\ m \in DOMAIN chat' /\ m = Len(chat') /\ chat'[m] = Says
      BY <3>1, <3>3, <3>4
    <3>6. \A t \in Update, c \in Chunk : ~Has(t, c, m)'
      BY <2>b, <3>5 DEF Ledger, RowsOK, Has
    <3>7. \A u \in Update : Stored(u)' => ~Names(u, m)'
      BY <3>1, <3>5, Zenon DEF Ledger, StoredOK, Stored, Names
    <3>8. Fresh(m)' BY <3>5, <3>6, <3>7, Zenon DEF Fresh
    <3>9. Fresh(Len(chat))' BY <3>5, <3>8, Zenon DEF Fresh, Has, Names
    <3>10. JobOK' BY <2>a, <3>1, <3>2, <3>3, <3>5, <3>9, Zenon DEF JobOK, Sending, SendLabels
    <3>. QED BY <2>b, <3>1, <3>10, <1>SameTargets, <1>MoveLedger, Zenon
  <2>4. CASE MessageRefused \/ AnswerLost \/ RecordFails \/ ConfirmFails
    <3>1. SendFailed /\ job.pc \in SendLabels
      BY <2>4, Zenon DEF MessageRefused, AnswerLost, RecordFails, ConfirmFails, At, SendLabels
    <3>. QED BY <2>b, <3>1, <1>FailedTargets, <1>EndsLedger, Zenon DEF Ends
  <2>5. CASE ConfirmSent
    <3>1. target' = target /\ job.pc = "confirm" BY <2>5, Zenon DEF ConfirmSent, At
    <3>2. job.why \in {"placeholder", "chunk", "redo_chunk", "notice", "error"}
      BY <3>1, Zenon DEF Safe, Place, SendLabels
    <3>3. CASE job.why = "error"
      <4>1. Leave("processed") BY <2>5, <3>3, Zenon DEF ConfirmSent
      <4>. QED BY <2>b, <3>1, <4>1, <1>SameTargets, <1>EndsLedger, Zenon DEF Ends
    <3>4. CASE job.why \in {"placeholder", "notice"}
      <4>1. \/ \E m : job' = [job EXCEPT !.pc = "execute", !.msg = m, !.rev = 1]
            \/ job' = [job EXCEPT !.pc = "delivered"]
        BY <2>5, <3>4, Zenon DEF ConfirmSent, Goto
      <4>2. /\ job'.pc \in {"execute", "delivered"} /\ job'.i = job.i /\ job'.n = job.n
            /\ job'.rev \in {1, job.rev}
        BY <2>a, <4>1, Zenon DEF JobFields
      <4>3. JobOK' BY <2>a, <4>2, <1>QuietJobOK DEF JobOK, Quiet
      <4>. QED BY <2>b, <3>1, <4>3, <1>SameTargets, <1>MoveLedger, Zenon
    <3>5. CASE job.why \in {"chunk", "redo_chunk"}
      <4>1. /\ job.why = "chunk" =>
                  job' = [job EXCEPT !.pc = IF job.i = job.n THEN "settle" ELSE "create",
                                     !.i = @ + 1, !.rev = @ + 1]
            /\ job.why = "redo_chunk" => job' = [job EXCEPT !.pc = "r_assert", !.i = @ + 1, !.rev = @ + 1]
        BY <2>5, <3>5, Zenon DEF ConfirmSent
      <4>2. /\ job'.i = job.i + 1 /\ job'.n = job.n /\ job'.rev = job.rev + 1 /\ job'.why = job.why
            /\ \/ job'.pc \in {"settle", "r_assert"}
               \/ job'.pc = "create" /\ job.i # job.n
        BY <2>a, <3>5, <4>1, Zenon DEF JobFields
      <4>3. job.i \in 1 .. job.n /\ job.n \in Chunk /\ job.n \in Nat /\ job.rev \in Nat
        BY <2>a, <3>1, <3>5, Zenon DEF JobOK, Sending, SendLabels
      <4>4. job'.i \in Nat /\ job'.i # 0 /\ (job.i # job.n => job'.i \in 1 .. job.n) BY <4>2, <4>3
      <4>5. JobOK' BY <4>2, <4>3, <4>4 DEF JobOK, Sending, SendLabels
      <4>. QED BY <2>b, <3>1, <4>5, <1>SameTargets, <1>MoveLedger, Zenon
    <3>. QED BY <3>2, <3>3, <3>4, <3>5, Zenon
  <2>. QED BY <2>1, <2>2, <2>3, <2>4, <2>5, Zenon
(* A step that writes a row.                                                  *)
<1>WriteLedger.
    ASSUME Replies, Ledger, UNCHANGED <<chat, target>>,
           NEW t \in Update, NEW c \in Chunk, NEW m \in Nat, NEW v \in Nat, WriteRow(t, c, m, v),
           v >= rows[t][c].version, Has(t, c, m) \/ Fresh(m), JobOK'
    PROVE  Ledger' /\ VersionsGrow
  <2>. USE <1>WriteLedger
  <2>1. chat \in Seq(Message) BY Zenon DEF Replies
  <2>2. ChatGrows BY <2>1 DEF ChatGrows
  <2>3. RowsOK' /\ VersionsGrow /\ NewRowsFresh BY <2>1, <1>WriteRows, Zenon DEF Ledger
  <2>4. \A u \in Update : StoredOK(u)'
    BY <2>1, <2>2, <2>3, <1>SameTargets, <1>StoredStays, Zenon DEF Ledger
  <2>. QED BY <2>3, <2>4, Zenon DEF Ledger
<1>RowsLedger.
    ASSUME Safe, Replies, Ledger, RecordRow \/ ReplaceRow \/ UpdateChunk \/ RedoUpdate
    PROVE  Ledger' /\ VersionsGrow
  <2>. USE <1>RowsLedger
  <2>a. /\ DOMAIN job = JobFields /\ JobOK /\ RowsOK /\ chat \in Seq(Message)
        /\ job.rev \in Nat /\ job.rev + 1 \in Nat
    BY DEF Safe, Tables, Ledger, Replies, JobOK
  <2>b. UNCHANGED <<chat, target>>
    BY Zenon DEF RecordRow, ReplaceRow, UpdateChunk, RedoUpdate, telegramVars
  <2>c. ASSUME NEW t \in Update, NEW c, NEW m, Matches(t, c, m)
        PROVE  c \in Chunk /\ m \in Nat /\ Has(t, c, m) /\ job.rev + 1 >= rows[t][c].version
    BY <2>a, <2>c DEF Matches, Has, RowsOK, Row
  <2>1. CASE RecordRow
    <3>1. /\ job.pc = "record" /\ job.why # "replace" /\ rows[RowTurn][RowChunk].life = "none"
          /\ WriteRow(RowTurn, RowChunk, Len(chat), IF job.why = "placeholder" THEN 1 ELSE job.rev + 1)
          /\ Goto("confirm")
      BY <2>1, Zenon DEF RecordRow, At
    <3>4. RowTurn \in Update /\ RowChunk \in Chunk BY <3>1, RecordsRow, Zenon
    <3>5. PICK v \in Nat : v = IF job.why = "placeholder" THEN 1 ELSE job.rev + 1 BY <2>a, Zenon
    <3>6. v >= rows[RowTurn][RowChunk].version BY <2>a, <3>1, <3>4 DEF RowsOK
    <3>7. Fresh(Len(chat)) /\ Len(chat) \in Nat BY <2>a, <3>1 DEF JobOK
    <3>8. /\ job'.pc = "confirm" /\ job'.why = job.why /\ job'.i = job.i /\ job'.n = job.n
          /\ job'.rev = job.rev
      BY <2>a, <3>1, Zenon DEF Goto, JobFields
    <3>9. JobOK' BY <2>a, <3>1, <3>8, Zenon DEF JobOK, Sending, SendLabels
    <3>. QED BY <2>b, <3>1, <3>4, <3>5, <3>6, <3>7, <3>9, <1>WriteLedger, Zenon
  <2>2. CASE ReplaceRow
    <3>1. /\ job.pc = "record" /\ job.why = "replace" /\ Matches(target[cur].turn, job.i, job.msg)
          /\ WriteRow(target[cur].turn, job.i, Len(chat), job.rev + 1) /\ Goto("r_delete")
      BY <2>2, Zenon DEF ReplaceRow, At
    <3>2. Cleaning BY <3>1, Zenon DEF Cleaning, Sending, SendLabels
    <3>3. target[cur].turn \in Update BY <3>2, CleanedTurn, Zenon
    <3>4. /\ job.i \in Chunk /\ job.msg \in Nat /\ Has(target[cur].turn, job.i, job.msg)
          /\ job.rev + 1 >= rows[target[cur].turn][job.i].version
      BY <2>c, <3>1, <3>3, Zenon
    <3>5. Fresh(Len(chat)) /\ Len(chat) \in Nat BY <2>a, <3>1 DEF JobOK
    <3>6. /\ job'.pc = "r_delete" /\ job'.why = job.why /\ job'.i = job.i /\ job'.n = job.n
          /\ job'.rev = job.rev /\ job'.msg = job.msg
      BY <2>a, <3>1, Zenon DEF Goto, JobFields
    <3>7. job.i # 0 /\ job.n \in Chunk BY <2>a, <3>1, Zenon DEF JobOK, Sending, SendLabels
    <3>8. job.msg \in DOMAIN chat BY <3>3, <3>4, Zenon DEF Ledger, RowsOK, Has
    <3>9. \A t \in Update, c \in Chunk : ~Has(t, c, job.msg)'
      <4>1. PICK m \in DOMAIN chat : m = job.msg BY <3>8, Zenon
      <4>2. m # Len(chat) BY <3>3, <3>4, <3>5, <4>1, Zenon DEF Fresh
      <4>a. PICK y \in Update, e \in Chunk, l \in Nat, v \in Nat :
              y = target[cur].turn /\ e = job.i /\ l = Len(chat) /\ v = job.rev + 1
        BY <2>a, <3>3, <3>4, <3>5, Zenon
      <4>3. \A t \in Update, c \in Chunk : Has(t, c, m) => t = y /\ c = e
        BY <2>a, <3>4, <4>1, <4>a, Zenon DEF RowsOK
      <4>b. WriteRow(y, e, l, v) /\ v >= rows[y][e].version /\ Fresh(l) /\ chat' = chat
        BY <2>b, <3>1, <3>4, <3>5, <4>a, Zenon
      <4>4. /\ \A k : Has(y, e, k)' => k = l
            /\ \A x \in Update, d \in Chunk : x # y \/ d # e => rows'[x][d] = rows[x][d]
        BY <2>a, <4>b, <1>WriteRows, ZenonT(30)
      <4>5. ASSUME NEW t \in Update, NEW c \in Chunk, Has(t, c, m)' PROVE FALSE
        <5>1. CASE t = y /\ c = e BY <4>2, <4>a, <4>4, <4>5, <5>1, Zenon DEF Has
        <5>2. CASE ~(t = y /\ c = e)
          <6>1. rows'[t][c] = rows[t][c] BY <4>4, <5>2, Zenon
          <6>. QED BY <4>3, <4>5, <5>2, <6>1, Zenon DEF Has
        <5>. QED BY <5>1, <5>2, Zenon
      <4>. QED BY <3>6, <4>1, <4>5, Zenon DEF Has
    <3>10. JobOK' BY <2>a, <2>b, <3>6, <3>7, <3>8, <3>9, Zenon DEF JobOK, Sending, SendLabels
    <3>. QED BY <2>a, <2>b, <3>1, <3>3, <3>4, <3>5, <3>10, <1>WriteLedger, Zenon
  <2>3. CASE UpdateChunk
    <3>1. job.pc = "update" /\ Matches(cur, 1, job.msg) /\ WriteRow(cur, 1, job.msg, job.rev + 1)
      BY <2>3, Zenon DEF UpdateChunk, At
    <3>2. cur \in Update BY <3>1, AtWork, Zenon
    <3>3. /\ 1 \in Chunk /\ job.msg \in Nat /\ Has(cur, 1, job.msg)
          /\ job.rev + 1 >= rows[cur][1].version
      BY <2>c, <3>1, <3>2, Zenon
    <3>4. JobOK'
      <4>1. CASE job.why = "failure"
        <5>1. Leave("processed") BY <2>3, <4>1, Zenon DEF UpdateChunk
        <5>. QED BY <2>a, <5>1, <1>EndsJobOK, Zenon DEF Ends
      <4>2. CASE job.why # "failure"
        <5>1. job' = [job EXCEPT !.pc = IF job.n = 1 THEN "settle" ELSE "create",
                                 !.why = "chunk", !.i = 2, !.rev = @ + 1]
          BY <2>3, <4>2, Zenon DEF UpdateChunk
        <5>2. /\ job'.why = "chunk" /\ job'.i = 2 /\ job'.n = job.n /\ job'.rev = job.rev + 1
              /\ job'.pc = "settle" \/ (job'.pc = "create" /\ job.n # 1)
          BY <2>a, <5>1, Zenon DEF JobFields
        <5>3. job.n \in Chunk /\ job.n \in Nat BY <2>a, <3>1, Zenon DEF JobOK
        <5>4. job.n # 1 => 2 \in 1 .. job.n BY <5>3 DEF Chunk
        <5>. QED BY <2>a, <5>2, <5>3, <5>4 DEF JobOK, Sending, SendLabels
      <4>. QED BY <4>1, <4>2, Zenon
    <3>. QED BY <2>a, <2>b, <3>1, <3>2, <3>3, <3>4, <1>WriteLedger, Zenon
  <2>4. CASE RedoUpdate
    <3>1. /\ job.pc = "r_update" /\ Matches(target[cur].turn, job.i, OldMessage)
          /\ WriteRow(target[cur].turn, job.i, OldMessage, job.rev + 1)
          /\ job' = [job EXCEPT !.pc = "r_assert", !.i = @ + 1, !.rev = @ + 1]
      BY <2>4, Zenon DEF RedoUpdate, At
    <3>2. Cleaning BY <3>1, Zenon DEF Cleaning
    <3>3. target[cur].turn \in Update BY <3>2, CleanedTurn, Zenon
    <3>4. /\ job.i \in Chunk /\ OldMessage \in Nat /\ Has(target[cur].turn, job.i, OldMessage)
          /\ job.rev + 1 >= rows[target[cur].turn][job.i].version
      BY <2>c, <3>1, <3>3, Zenon
    <3>5. job'.pc = "r_assert" /\ job'.i = job.i + 1 /\ job'.n = job.n /\ job'.rev = job.rev + 1
      BY <2>a, <3>1, Zenon DEF JobFields
    <3>6. job.i \in Nat /\ job.n \in Chunk /\ job.n \in Nat BY <2>a, <3>1, Zenon DEF JobOK
    <3>7. JobOK' BY <2>a, <3>5, <3>6 DEF JobOK, Sending, SendLabels
    <3>. QED BY <2>a, <2>b, <3>1, <3>3, <3>4, <3>7, <1>WriteLedger, ZenonT(30)
  <2>. QED BY <2>1, <2>2, <2>3, <2>4, Zenon
(* Steps that end the processing, or are quiet about the rows.                *)
<1>SameLedger.
    ASSUME Replies, Ledger, UNCHANGED <<rows, clock, target, chat, job, cur>>
    PROVE  Ledger' /\ VersionsGrow
  <2>. USE <1>SameLedger
  <2>1. ChatGrows BY DEF Replies, ChatGrows
  <2>2. JobOK' BY Zenon DEF Ledger, JobOK, Sending, Fresh, Has, Stored, Names
  <2>. QED BY <2>1, <2>2, <1>SameTargets, <1>MoveLedger, Zenon
<1>EditLedger.
    ASSUME Safe, Replies, Ledger, ChatGrows,
           \/ EditPlaceholder \/ EditFails \/ UpdateChunkFails \/ Settle
           \/ AlreadyDone \/ MarkDelivered \/ Crash \/ \E u \in Update : Claim(u)
    PROVE  Ledger' /\ VersionsGrow
  <2>. USE <1>EditLedger
  <2>a. DOMAIN job = JobFields /\ JobOK BY Zenon DEF Safe, Tables, Ledger
  <2>b. UNCHANGED <<rows, clock, target>>
    BY Zenon DEF EditPlaceholder, EditFails, UpdateChunkFails, Settle, AlreadyDone, MarkDelivered, Crash,
       Claim, tableVars
  <2>1. CASE EditPlaceholder
    <3>1. job.pc = "edit" /\ Goto("update") BY <2>1, Zenon DEF EditPlaceholder, At
    <3>2. job'.pc = "update" /\ job'.i = job.i /\ job'.n = job.n /\ job'.rev = job.rev
      BY <2>a, <3>1, Zenon DEF Goto, JobFields
    <3>3. JobOK' BY <2>a, <3>1, <3>2, Zenon DEF JobOK, Sending, SendLabels
    <3>. QED BY <2>b, <3>3, <1>SameTargets, <1>MoveLedger, Zenon
  <2>2. CASE EditFails \/ UpdateChunkFails \/ Settle \/ AlreadyDone \/ MarkDelivered \/ Crash
    <3>1. Ends
      BY <2>2, Zenon DEF Ends, EditFails, UpdateChunkFails, Settle, AlreadyDone, MarkDelivered, Crash
    <3>. QED BY <2>b, <3>1, <1>SameTargets, <1>EndsLedger, Zenon
  <2>3. ASSUME NEW u \in Update, Claim(u) PROVE Ledger' /\ VersionsGrow
    <3>1. \E pc \in {"sink", "target"} : job' = [Idle EXCEPT !.pc = pc] BY <2>3, Zenon DEF Claim
    <3>2. job'.pc \in {"sink", "target"} /\ job'.i = 0 /\ job'.n = 0 /\ job'.rev = 0
      BY <3>1, Zenon DEF Idle
    <3>3. JobOK' BY <3>2, <1>QuietJobOK DEF Quiet
    <3>. QED BY <2>b, <3>3, <1>SameTargets, <1>MoveLedger, Zenon
  <2>. QED BY <2>1, <2>2, <2>3, Zenon
<1>ExecuteLedger.
    ASSUME Safe, Replies, Ledger, ExecuteStep
    PROVE  Ledger' /\ VersionsGrow
  <2>. USE <1>ExecuteLedger
  <2>a. DOMAIN job = JobFields /\ JobOK BY Zenon DEF Safe, Tables, Ledger
  <2>b. UNCHANGED <<rows, clock, chat>>
    BY Zenon DEF ExecuteStep, ExecuteReplays, ExecuteFails, ExecuteAmbiguous, ExecuteCommits, tableVars,
       telegramVars
  <2>c. ChatGrows BY <2>b DEF Replies, ChatGrows
  <2>d. ASSUME target' = target, job' = [job EXCEPT !.pc = "edit", !.why = "failure", !.i = 1, !.n = 1]
        PROVE  Ledger' /\ VersionsGrow
    <3>1. job'.pc = "edit" /\ job'.i = 1 /\ job'.n = 1 /\ job'.rev = job.rev
      BY <2>a, <2>d, Zenon DEF JobFields
    <3>2. 1 \in Chunk BY BoundsAssumption DEF Chunk
    <3>3. JobOK' BY <2>a, <3>1, <3>2 DEF JobOK, Sending, SendLabels
    <3>. QED BY <2>b, <2>c, <2>d, <3>3, <1>SameTargets, <1>MoveLedger, Zenon
  <2>1. CASE ExecuteReplays
    <3>1. target' = target BY <2>1, Zenon DEF ExecuteReplays, tableVars
    <3>2. Goto("settle") \/ job' = [job EXCEPT !.pc = "edit", !.why = "failure", !.i = 1, !.n = 1]
      BY <2>1, Zenon DEF ExecuteReplays
    <3>3. CASE Goto("settle")
      <4>1. job'.pc = "settle" /\ job'.i = job.i /\ job'.n = job.n /\ job'.rev = job.rev
        BY <2>a, <3>3, Zenon DEF Goto, JobFields
      <4>2. JobOK' BY <2>a, <4>1, <1>QuietJobOK, Zenon DEF JobOK, Quiet
      <4>. QED BY <2>b, <2>c, <3>1, <4>2, <1>SameTargets, <1>MoveLedger, Zenon
    <3>. QED BY <2>d, <3>1, <3>2, <3>3, Zenon
  <2>2. CASE ExecuteFails \/ ExecuteAmbiguous
    <3>1. Executable /\ \E s : ExecuteError(s)
      BY <2>2, Zenon DEF ExecuteFails, ExecuteAmbiguous
    <3>2. CASE kind[cur] = "send" BY <2>d, <3>1, <3>2, Zenon DEF ExecuteError
    <3>3. CASE kind[cur] # "send"
      <4>1. cur \in Update /\ Stored(cur) BY <3>1, <3>3, Executing, Zenon DEF Open, Stored
      <4>2. PICK s : target' = [target EXCEPT ![cur].status = s] /\ DispatchError
        BY <3>1, <3>3, Zenon DEF ExecuteError
      <4>3. TargetsKept BY <4>1, <4>2, <1>StatusTargets, Zenon
      <4>. QED BY <2>b, <2>c, <4>2, <4>3, <1>EndsLedger, Zenon DEF Ends
    <3>. QED BY <3>2, <3>3, Zenon
  <2>3. CASE ExecuteCommits
    <3>1. Executable /\ UNCHANGED <<target, cur>>
      BY <2>3, Zenon DEF ExecuteCommits, tableVars, inboxVars
    <3>2. /\ cur \in Update /\ kind[cur] # "send" => Open("applying") BY <3>1, Executing, Zenon
    <3>3. kind[cur] \in {"send", "undo", "revoke", "redo"}
      BY <3>1, Executing, KindsAssumption, Zenon DEF Safe, Tables
    <3>4. kind[cur] # "send" => target[cur].rev \in Nat /\ 1 \in DOMAIN target[cur].ids
      <4>1. SUFFICES ASSUME kind[cur] # "send" PROVE target[cur].rev \in Nat /\ 1 \in DOMAIN target[cur].ids
        BY Zenon
      <4>2. /\ target[cur].rev \in Nat /\ target[cur].ids \in Seq(Nat) /\ target[cur].ids # <<>>
        BY <3>1, <4>1, Executing, Zenon DEF Ledger, StoredOK, Stored, Open
      <4>. QED BY <4>2
    <3>5. PICK n \in Chunk :
            \/ job' = [job EXCEPT !.pc = "edit", !.why = "reply", !.i = 1, !.n = n]
            \/ /\ kind[cur] # "send"
               /\ \/ job' = [job EXCEPT !.pc = "r_assert", !.i = 1, !.n = n, !.rev = target[cur].rev]
                  \/ job' = [job EXCEPT !.pc = "retire"]
                  \/ job' = [job EXCEPT !.pc = "v_call", !.i = 1]
      BY <2>3, <3>3, Zenon DEF ExecuteCommits
    <3>6. n \in Nat BY BoundsAssumption DEF Chunk
    <3>7. \/ job'.pc = "edit" /\ job'.i = 1 /\ job'.n = n /\ job'.rev = job.rev
          \/ /\ kind[cur] # "send"
             /\ \/ job'.pc = "r_assert" /\ job'.i = 1 /\ job'.n = n /\ job'.rev = target[cur].rev
                \/ job'.pc = "retire" /\ job'.i = job.i /\ job'.n = job.n /\ job'.rev = job.rev
                \/ job'.pc = "v_call" /\ job'.i = 1 /\ job'.n = job.n /\ job'.rev = job.rev
      BY <2>a, <3>5, Zenon DEF JobFields
    <3>8. JobOK' BY <2>a, <3>1, <3>4, <3>6, <3>7 DEF JobOK, Sending, SendLabels
    <3>. QED BY <2>b, <2>c, <3>1, <3>8, <1>SameTargets, <1>MoveLedger, Zenon
  <2>. QED BY <2>1, <2>2, <2>3, Zenon DEF ExecuteStep
(* freeze_target stores what find_last_turn found.                            *)
<1>FreezeLedger.
    ASSUME Safe, Replies, Ledger, FreezeTarget
    PROVE  Ledger' /\ VersionsGrow
  <2>. USE <1>FreezeLedger
  <2>a. DOMAIN job = JobFields /\ JobOK /\ RowsOK /\ chat \in Seq(Message)
    BY Zenon DEF Safe, Tables, Ledger, Replies
  <2>b. UNCHANGED <<rows, clock, chat>> /\ job.pc = "target" /\ Goto("applying")
    BY Zenon DEF FreezeTarget, telegramVars, At
  <2>c. ChatGrows BY <2>a, <2>b DEF ChatGrows
  <2>d. cur \in Update BY <2>b, AtWork, Zenon
  <2>1. job'.pc = "applying" /\ job'.i = job.i /\ job'.n = job.n /\ job'.rev = job.rev
    BY <2>a, <2>b, Zenon DEF Goto, JobFields
  <2>2. JobOK' BY <2>a, <2>1, <1>QuietJobOK, Zenon DEF JobOK, Quiet
  <2>3. CASE target' = target BY <2>b, <2>c, <2>2, <2>3, <1>SameTargets, <1>MoveLedger, Zenon
  <2>4. CASE target' # target
    <3>1. PICK t \in ActiveTurns : \E rev \in {rows[t][c].version : c \in ActiveRows(t)} :
                 \E s \in ActiveChunks(t) :
                    target' = [target EXCEPT ![cur] =
                       [turn |-> t, rev |-> rev, ids |-> [k \in DOMAIN s |-> rows[t][s[k]].msg],
                        status |-> "frozen"]]
      BY <2>4, Zenon DEF FreezeTarget
    <3>2. PICK rev \in {rows[t][c].version : c \in ActiveRows(t)}, s \in ActiveChunks(t) :
            target' = [target EXCEPT ![cur] =
               [turn |-> t, rev |-> rev, ids |-> IdsOf(t, s), status |-> "frozen"]]
      BY <3>1, Zenon DEF IdsOf
    <3>a. t \in Update /\ ActiveRows(t) \subseteq Chunk BY Zenon DEF ActiveTurns, ActiveRows
    <3>3. rev \in Nat BY <2>a, <3>a DEF RowsOK, Row
    <3>b. PICK ids : ids = IdsOf(t, s) BY Zenon
    <3>4. /\ ids \in Seq(Nat) /\ ids # <<>>
          /\ \A k \in DOMAIN ids : \E c \in ActiveRows(t) : ids[k] = rows[t][c].msg
      <4>1. /\ IdsOf(t, s) \in Seq(Nat) /\ IdsOf(t, s) # <<>>
            /\ \A k \in DOMAIN IdsOf(t, s) : \E c \in ActiveRows(t) : IdsOf(t, s)[k] = rows[t][c].msg
        BY <2>a, <3>a, <1>ActiveIds, Zenon
      <4>. QED BY <3>b, <4>1, Zenon
    <3>5. /\ target'[cur].turn = t /\ target'[cur].rev = rev /\ target'[cur].ids = ids
          /\ \A u \in Update \ {cur} : target'[u] = target[u]
      BY <2>d, <3>2, <3>b, Zenon DEF Safe, Tables
    <3>6. RowsOK' /\ VersionsGrow /\ NewRowsFresh BY <2>a, <2>b, <2>c, <1>RowsStay, Zenon
    <3>7. PICK v \in Update : v = cur BY <2>d, Zenon
    <3>8. ASSUME NEW m, Names(v, m)'
          PROVE  m \in DOMAIN chat /\ \A x \in Update, c \in Chunk : Has(x, c, m)' => x = t
      <4>0. PICK k \in DOMAIN ids : ids[k] = m BY <3>5, <3>7, <3>8, Zenon DEF Names
      <4>1. PICK c \in ActiveRows(t) : m = rows[t][c].msg BY <3>4, <4>0, Zenon
      <4>2. c \in Chunk /\ Has(t, c, m) BY <4>1, Zenon DEF ActiveRows, Has
      <4>3. m \in DOMAIN chat
        <5>1. /\ \A x \in Update, d \in Chunk : rows[x][d].life # "none" => rows[x][d].msg \in DOMAIN chat
              /\ c \in Chunk /\ rows[t][c].life # "none" /\ rows[t][c].msg = m
          BY <2>a, <4>2, Zenon DEF RowsOK, Has
        <5>. QED BY <3>a, <5>1, Zenon
      <4>4. \A x \in Update, d \in Chunk : Has(x, d, m)' <=> Has(x, d, m) BY <2>b, Zenon DEF Has
      <4>5. \A x \in Update, d \in Chunk : Has(x, d, m) => x = t
        BY <2>a, <3>a, <4>2, <4>3, Zenon DEF RowsOK
      <4>. QED BY <4>3, <4>4, <4>5, Zenon
    <3>9. StoredOK(v)' BY <2>b, <3>3, <3>4, <3>5, <3>7, <3>8, <3>a, Zenon DEF StoredOK
    <3>10. ASSUME NEW u \in Update, u # cur PROVE StoredOK(u)'
      <4>1. StoredOK(u) /\ target'[u] = target[u] BY <3>5, <3>10, Zenon DEF Ledger
      <4>. QED BY <2>b, <4>1 DEF StoredOK, Stored, Names, Has
    <3>. QED BY <2>2, <3>6, <3>7, <3>9, <3>10, Zenon DEF Ledger
  <2>. QED BY <2>3, <2>4, Zenon
<1>TargetLedger.
    ASSUME Safe, Replies, Ledger, TargetConflict \/ StartApplying \/ CheckRevision \/ FinishTarget
    PROVE  Ledger' /\ VersionsGrow
  <2>. USE <1>TargetLedger
  <2>a. DOMAIN job = JobFields /\ JobOK BY Zenon DEF Safe, Tables, Ledger
  <2>b. UNCHANGED <<rows, clock, chat>>
    BY Zenon DEF TargetConflict, StartApplying, CheckRevision, FinishTarget, tableVars, telegramVars
  <2>c. ChatGrows BY <2>b DEF Replies, ChatGrows
  <2>d. cur \in Update
    BY AtWork, Zenon DEF TargetConflict, StartApplying, CheckRevision, FinishTarget, At
  <2>e. job.pc \in {"applying", "check", "finish"} => Stored(cur)
    BY Zenon DEF Safe, Place, Open, Cleaning, Stored
  <2>1. TargetsKept
    <3>1. CASE target' = target BY <3>1, <1>SameTargets, Zenon
    <3>2. CASE target' # target
      <4>1. job.pc \in {"applying", "check", "finish"} /\ \E s : target' = [target EXCEPT ![cur].status = s]
        BY <3>2, Zenon DEF TargetConflict, StartApplying, CheckRevision, FinishTarget, tableVars, At
      <4>. QED BY <2>d, <2>e, <4>1, <1>StatusTargets, Zenon
    <3>. QED BY <3>1, <3>2, Zenon
  <2>2. CASE ReplyError BY <2>b, <2>c, <2>1, <2>2, <1>EndsLedger, Zenon DEF Ends
  <2>3. CASE ~ReplyError
    <3>1. \/ \E pc \in {"execute", "check", "delivered"} : Goto(pc)
          \/ StartSend("notice", 0)
      BY <2>3, Zenon DEF TargetConflict, StartApplying, CheckRevision, FinishTarget
    <3>2. /\ job'.i = job.i /\ job'.n = job.n /\ job'.rev = job.rev
          /\ \/ job'.pc \in {"execute", "check", "delivered"}
             \/ job'.pc = "create" /\ job'.why = "notice"
      BY <2>a, <3>1, Zenon DEF Goto, StartSend, JobFields
    <3>3. JobOK' BY <2>a, <3>2, <1>QuietJobOK, Zenon DEF JobOK, Quiet
    <3>. QED BY <2>b, <2>c, <2>1, <3>3, <1>MoveLedger, Zenon
  <2>. QED BY <2>2, <2>3, Zenon
(* revoke goes on with the next message, or is done.                          *)
<1>RevokeStepJobOK.
    ASSUME DOMAIN job = JobFields, JobOK, UNCHANGED <<target, cur>>, job.pc \in {"v_call", "v_mark"},
           NEW b, AfterRevokeStep(b), NEW L \in Nat, L = Len(target[cur].ids),
           DOMAIN target[cur].ids = 1 .. L
    PROVE  JobOK'
  <2>. USE <1>RevokeStepJobOK
  <2>1. /\ job'.i = job.i + 1 /\ job'.n = job.n /\ job'.rev = job.rev
        /\ job'.pc = "finish" \/ (job'.pc = "v_call" /\ job.i < L)
    BY Zenon DEF AfterRevokeStep, JobFields
  <2>2. job.i \in 1 .. L /\ job.n \in Nat /\ job.rev \in Nat BY Zenon DEF JobOK
  <2>3. job'.i \in Nat /\ (job.i < L => job'.i \in 1 .. L) BY <2>1, <2>2
  <2>. QED BY <2>1, <2>2, <2>3, Zenon DEF JobOK, Sending, SendLabels
(* The messages and rows of a turn are brought up to date.                    *)
<1>CleanupLedger.
    ASSUME Safe, Replies, Ledger, ChatGrows,
           \/ RetireFails \/ RevokeMessage \/ RevokeCallFails \/ MarkRevokedFails
           \/ RedoAssert \/ RedoEdit \/ RedoUneditable \/ RedoEditFails
           \/ RedoUpdateFails \/ DeleteReplaced \/ DeleteReplacedFails
           \/ DeleteSurplus \/ CleanupFails \/ FinishUnknown
    PROVE  Ledger' /\ VersionsGrow
  <2>. USE <1>CleanupLedger
  <2>a. DOMAIN job = JobFields /\ JobOK BY Zenon DEF Safe, Tables, Ledger
  <2>b. UNCHANGED <<rows, clock>>
    BY Zenon DEF RetireFails, RevokeMessage, RevokeCallFails, MarkRevokedFails, RedoAssert, RedoEdit,
       RedoUneditable, RedoEditFails, RedoUpdateFails, DeleteReplaced, DeleteReplacedFails, DeleteSurplus,
       CleanupFails, FinishUnknown, tableVars
  <2>c. Cleaning
    BY Zenon DEF RetireFails, RevokeMessage, RevokeCallFails, MarkRevokedFails, RedoAssert, RedoEdit,
       RedoUneditable, RedoEditFails, RedoUpdateFails, DeleteReplaced, DeleteReplacedFails, DeleteSurplus,
       CleanupFails, FinishUnknown, Cleaning, At
  <2>d. cur \in Update /\ Stored(cur) BY <2>c, Cleaned, Zenon DEF Stored
  <2>e. target[cur].ids \in Seq(Nat) /\ target[cur].ids # <<>> BY <2>d, Zenon DEF Ledger, StoredOK
  <2>f. PICK L \in Nat : L = Len(target[cur].ids) /\ DOMAIN target[cur].ids = 1 .. L /\ L # 0
    BY <2>e
  <2>1. CASE \/ RetireFails \/ MarkRevokedFails \/ RedoEditFails \/ RedoUpdateFails
             \/ DeleteReplacedFails \/ CleanupFails \/ FinishUnknown
    <3>1. TargetUnknown
      BY <2>1, Zenon DEF RetireFails, MarkRevokedFails, RedoEditFails, RedoUpdateFails,
         DeleteReplacedFails, CleanupFails, FinishUnknown
    <3>2. TargetsKept BY <2>d, <3>1, <1>StatusTargets, Zenon DEF TargetUnknown
    <3>. QED BY <2>b, <3>1, <3>2, <1>EndsLedger, Zenon DEF Ends, TargetUnknown
  <2>2. CASE RevokeMessage \/ RedoEdit \/ DeleteSurplus
    <3>1. UNCHANGED <<target, cur>>
      BY <2>2, Zenon DEF RevokeMessage, RedoEdit, DeleteSurplus, tableVars, inboxVars
    <3>2. \/ job.pc = "v_call" /\ Goto("v_mark")
          \/ job.pc = "r_edit" /\ Goto("r_update")
          \/ job.pc = "c_delete" /\ Goto("c_mark")
      BY <2>2, Zenon DEF RevokeMessage, RedoEdit, DeleteSurplus, At
    <3>3. /\ job'.i = job.i /\ job'.n = job.n /\ job'.rev = job.rev
          /\ \/ job'.pc \in {"v_mark", "c_mark"}
             \/ job.pc = "r_edit" /\ job'.pc = "r_update"
      BY <2>a, <3>2, Zenon DEF Goto, JobFields
    <3>4. job.i \in DOMAIN target[cur].ids BY <2>a, <3>2, Zenon DEF JobOK
    <3>5. JobOK' BY <2>a, <3>1, <3>3, <3>4, Zenon DEF JobOK, Sending, SendLabels
    <3>. QED BY <2>b, <3>1, <3>5, <1>SameTargets, <1>MoveLedger, Zenon
  <2>3. CASE RevokeCallFails
    <3>1. UNCHANGED <<target, cur>> /\ job.pc = "v_call" /\ AfterRevokeStep(TRUE)
      BY <2>3, Zenon DEF RevokeCallFails, tableVars, inboxVars, At
    <3>2. JobOK' BY <2>a, <2>f, <3>1, <1>RevokeStepJobOK, Zenon
    <3>. QED BY <2>b, <3>1, <3>2, <1>SameTargets, <1>MoveLedger, Zenon
  <2>4. CASE RedoAssert
    <3>1. job.pc = "r_assert" /\ UNCHANGED <<cur>> BY <2>4, Zenon DEF RedoAssert, inboxVars, At
    <3>2. CASE ReplyError /\ target' = [target EXCEPT ![cur].status = "failed"]
      BY <2>b, <2>d, <3>2, <1>StatusTargets, <1>EndsLedger, Zenon DEF Ends
    <3>3. CASE /\ target' = target
               /\ job' = [job EXCEPT !.pc = RedoNext, !.why = "redo_chunk",
                                     !.i = IF RedoNext = "c_delete" THEN Len(Ids) ELSE @]
      <4>1. job.i \in Nat /\ job.i # 0 /\ job.n \in Chunk /\ job.n \in Nat /\ job.rev \in Nat
        BY <2>a, <3>1, Zenon DEF JobOK
      <4>2. \/ RedoNext = "r_edit" /\ job.i <= L
            \/ RedoNext = "create" /\ job.i <= job.n
            \/ RedoNext \in {"c_delete", "finish"}
        BY <2>f DEF RedoNext, Ids
      <4>3. /\ job'.pc = RedoNext /\ job'.why = "redo_chunk" /\ job'.n = job.n /\ job'.rev = job.rev
            /\ job'.i = IF RedoNext = "c_delete" THEN L ELSE job.i
        BY <2>a, <2>f, <3>3, Zenon DEF JobFields, Ids
      <4>4. JobOK' BY <2>f, <3>1, <3>3, <4>1, <4>2, <4>3 DEF JobOK, Sending, SendLabels
      <4>. QED BY <2>b, <3>3, <4>4, <1>SameTargets, <1>MoveLedger, Zenon
    <3>. QED BY <2>4, <3>2, <3>3, Zenon DEF RedoAssert
  <2>5. CASE RedoUneditable
    <3>1. target' = target /\ job.pc = "r_edit" /\ \E m : StartSend("replace", m)
      BY <2>5, Zenon DEF RedoUneditable, tableVars, At
    <3>2. /\ job'.pc = "create" /\ job'.why = "replace" /\ job'.i = job.i /\ job'.n = job.n
          /\ job'.rev = job.rev
      BY <2>a, <3>1, Zenon DEF StartSend, JobFields
    <3>3. JobOK' BY <2>a, <3>1, <3>2, Zenon DEF JobOK, Sending, SendLabels
    <3>. QED BY <2>b, <3>1, <3>3, <1>SameTargets, <1>MoveLedger, Zenon
  <2>6. CASE DeleteReplaced
    <3>1. /\ target' = target /\ job.pc = "r_delete"
          /\ job' = [job EXCEPT !.pc = "r_assert", !.i = @ + 1, !.rev = @ + 1]
      BY <2>6, Zenon DEF DeleteReplaced, tableVars, At
    <3>2. job'.pc = "r_assert" /\ job'.i = job.i + 1 /\ job'.n = job.n /\ job'.rev = job.rev + 1
      BY <2>a, <3>1, Zenon DEF JobFields
    <3>3. JobOK' BY <2>a, <3>1, <3>2 DEF JobOK, Sending, SendLabels
    <3>. QED BY <2>b, <3>1, <3>3, <1>SameTargets, <1>MoveLedger, Zenon
  <2>. QED BY <2>1, <2>2, <2>3, <2>4, <2>5, <2>6, Zenon
<1>RetireLedger.
    ASSUME Safe, Replies, Ledger, RetireTurn \/ MarkRevoked \/ MarkDeleted
    PROVE  Ledger' /\ VersionsGrow
  <2>. USE <1>RetireLedger
  <2>a. DOMAIN job = JobFields /\ JobOK /\ RowsOK /\ chat \in Seq(Message)
    BY Zenon DEF Safe, Tables, Ledger, Replies
  <2>b. UNCHANGED <<clock, chat, target, cur>>
    BY Zenon DEF RetireTurn, MarkRevoked, MarkDeleted, telegramVars, inboxVars
  <2>c. Cleaning BY Zenon DEF RetireTurn, MarkRevoked, MarkDeleted, Cleaning, At
  <2>d. cur \in Update /\ Stored(cur) BY <2>c, Cleaned, Zenon DEF Stored
  <2>e. target[cur].turn \in Update /\ target[cur].ids \in Seq(Nat) /\ target[cur].ids # <<>>
    BY <2>d, Zenon DEF Ledger, StoredOK
  <2>f. PICK L \in Nat : L = Len(target[cur].ids) /\ DOMAIN target[cur].ids = 1 .. L /\ L # 0
    BY <2>e
  <2>1. ASSUME Retires, JobOK' PROVE Ledger' /\ VersionsGrow
    <3>1. RowsOK' /\ VersionsGrow /\ NewRowsFresh BY <2>a, <2>b, <2>1, <1>RetireRows, Zenon
    <3>2. ChatGrows BY <2>a, <2>b DEF ChatGrows
    <3>3. \A u \in Update : StoredOK(u)'
      BY <2>a, <2>b, <3>1, <3>2, <1>SameTargets, <1>StoredStays, Zenon DEF Ledger
    <3>. QED BY <2>1, <3>1, <3>3, Zenon DEF Ledger
  <2>2. CASE RetireTurn
    <3>2. Goto("finish") BY <2>2, Zenon DEF RetireTurn
    <3>6. Retires BY <2>2, <2>a, <2>e, TurnRetires, Zenon
    <3>7. job'.pc = "finish" /\ job'.i = job.i /\ job'.n = job.n /\ job'.rev = job.rev
      BY <2>a, <3>2, Zenon DEF Goto, JobFields
    <3>8. JobOK' BY <2>a, <3>7, <1>QuietJobOK, Zenon DEF JobOK, Quiet
    <3>. QED BY <2>1, <3>6, <3>8, Zenon
  <2>3. CASE MarkRevoked
    <3>1. job.pc = "v_mark" /\ RetireMessage(OldMessage) /\ AfterRevokeStep(job.bad)
      BY <2>3, Zenon DEF MarkRevoked, At
    <3>2. Retires BY <2>a, <3>1, MessageRetires, Zenon
    <3>3. JobOK' BY <2>a, <2>b, <2>f, <3>1, <1>RevokeStepJobOK, Zenon
    <3>. QED BY <2>1, <3>2, <3>3, Zenon
  <2>4. CASE MarkDeleted
    <3>1. /\ job.pc = "c_mark" /\ RetireMessage(OldMessage)
          /\ job' = [job EXCEPT !.pc = IF job.i - 1 > job.n THEN "c_delete" ELSE "finish", !.i = @ - 1]
      BY <2>4, Zenon DEF MarkDeleted, At
    <3>2. Retires BY <2>a, <3>1, MessageRetires, Zenon
    <3>3. /\ job'.i = job.i - 1 /\ job'.n = job.n /\ job'.rev = job.rev
          /\ job'.pc = "finish" \/ (job'.pc = "c_delete" /\ job.i - 1 > job.n)
      BY <2>a, <3>1, Zenon DEF JobFields
    <3>4. job.i \in 1 .. L /\ job.n \in Nat /\ job.rev \in Nat BY <2>a, <2>f, <3>1, Zenon DEF JobOK
    <3>5. job'.i \in Nat /\ (job.i - 1 > job.n => job'.i \in 1 .. L) BY <2>f, <3>3, <3>4
    <3>6. JobOK' BY <2>b, <2>f, <3>3, <3>4, <3>5, Zenon DEF JobOK, Sending, SendLabels
    <3>. QED BY <2>1, <3>2, <3>6, Zenon
  <2>. QED BY <2>2, <2>3, <2>4, Zenon
<1>. SUFFICES ASSUME Safe, Replies, Ledger, [Next]_vars PROVE Ledger' /\ VersionsGrow BY Zenon
<1>0. ChatGrows BY NextReplies, NextChat, Zenon
<1>1. CASE SendStep
  BY <1>0, <1>1, <1>MessageLedger, <1>RowsLedger, <1>EditLedger, Zenon DEF SendStep
<1>2. CASE TurnStep
  BY <1>0, <1>2, <1>EditLedger, <1>FreezeLedger, <1>TargetLedger, <1>CleanupLedger, <1>RetireLedger, <1>RowsLedger,
     Zenon DEF TurnStep
<1>3. CASE UNCHANGED vars \/ \E u \in Update : Reconcile(u)
  <2>1. UNCHANGED <<rows, clock, target, chat, job, cur>>
    BY <1>3, Zenon DEF vars, Reconcile, tableVars, telegramVars, inboxVars
  <2>. QED BY <2>1, <1>SameLedger, Zenon
<1>. QED BY <1>0, <1>1, <1>2, <1>3, <1>ExecuteLedger, <1>EditLedger, Zenon DEF Next

(* The render_version of a row never goes back, whichever of a retried send   *)
(* and a later redo writes it last (update_turn_chunk_scoped,                 *)
(* replace_turn_chunk_scoped).                                                *)
THEOREM RenderVersionsGrow == Spec => RenderVersionGrows
<1>. DEFINE Inv == Safe /\ Replies /\ Ledger
<1>1. Init => Inv BY InitSafe, InitReplies, InitLedger, Zenon
<1>2. Inv /\ [Next]_vars => Inv' BY NextKeeps, NextReplies, NextLedger, Zenon DEF Keeps
<1>3. Inv /\ [Next]_vars =>
        [\A t \in Update, c \in Chunk : rows'[t][c].version >= rows[t][c].version]_vars
  BY NextLedger, Zenon DEF VersionsGrow
<1>. QED BY <1>1, <1>2, <1>3, PTL DEF Spec, RenderVersionGrows

-----------------------------------------------------------------------------
(* Commands that were confirmed and not concluded stay so, except that the    *)
(* one at work goes on or concludes.  Pending: the message at work is gone    *)
(* from the chat or from its row, and not yet from the other.  Failing: a     *)
(* call of revoke failed, so the command will not conclude.                   *)
OpenEnd == {"applying", "unknown"}
Pending == {"v_mark", "c_mark", "r_delete"}
Failing == job.bad /\ job.pc \in {"v_call", "v_mark", "finish"}
Passes == MarkRevoked \/ MarkDeleted \/ DeleteReplaced

EndsKept ==
    \A u \in Update :
        /\ touched[u] \subseteq touched'[u]
        /\ target[u].status \in OpenEnd =>
              /\ target'[u].turn = target[u].turn
              /\ \/ target'[u].status \in OpenEnd
                 \/ u = cur /\ op[u] \notin Confirmed
                 \/ u = cur /\ Cleaning /\ job.pc \notin Pending /\ ~Failing
CleansOn ==
    Cleaning' =>
        /\ cur' = cur
        /\ \/ op[cur] \notin Confirmed
           \/ Cleaning /\ (job.pc \in Pending => Passes) /\ (Failing => Failing')

CleanupStep ==
    \/ RetireTurn \/ RetireFails
    \/ RevokeMessage \/ RevokeCallFails \/ MarkRevoked \/ MarkRevokedFails
    \/ RedoAssert \/ RedoEdit \/ RedoUneditable \/ RedoEditFails
    \/ RedoUpdate \/ RedoUpdateFails \/ DeleteReplaced \/ DeleteReplacedFails
    \/ DeleteSurplus \/ MarkDeleted \/ CleanupFails
    \/ FinishTarget \/ FinishUnknown

(* The steps after the commit.                                                *)
LEMMA CleanupCleans == ASSUME CleanupStep PROVE Cleaning
BY Zenon DEF CleanupStep, RetireTurn, RetireFails, RevokeMessage, RevokeCallFails, MarkRevoked,
   MarkRevokedFails, RedoAssert, RedoEdit, RedoUneditable, RedoEditFails, RedoUpdate, RedoUpdateFails,
   DeleteReplaced, DeleteReplacedFails, DeleteSurplus, MarkDeleted, CleanupFails, FinishTarget,
   FinishUnknown, Cleaning, At

(* Every step keeps the unfinished commands.                                  *)
LEMMA NextEnds == Safe /\ Next => EndsKept /\ CleansOn
<1>SameEnds.
    ASSUME UNCHANGED <<target, touched>>
    PROVE  EndsKept
  BY <1>SameEnds, Zenon DEF EndsKept
<1>StatusEnds.
    ASSUME Safe, cur \in Update, \A u \in Update : touched[u] \subseteq touched'[u],
           NEW s, target' = [target EXCEPT ![cur].status = s],
           \/ s \in OpenEnd
           \/ op[cur] \notin Confirmed
           \/ Cleaning /\ job.pc \notin Pending /\ ~Failing
    PROVE  EndsKept
  BY <1>StatusEnds, Zenon DEF Safe, Tables, TargetFields, EndsKept
<1>EndsCleansOn. ASSUME Safe, Ends PROVE CleansOn
  BY <1>EndsCleansOn, EndsQuiet, Zenon DEF Safe, Tables, CleansOn
<1>SendEnds.
    ASSUME Safe, SendStep
    PROVE  EndsKept /\ CleansOn
  <2>. USE <1>SendEnds
  <2>a. DOMAIN job = JobFields /\ touched' = touched
    BY Zenon DEF Safe, Tables, SendStep, ReusePlaceholder, SendPlaceholder, CreateDelivery, MarkSending,
       MessageAccepted, MessageRefused, AnswerLost, RecordRow, ReplaceRow, RecordFails, ConfirmSent,
       ConfirmFails, EditPlaceholder, EditFails, UpdateChunk, UpdateChunkFails, Settle, telegramVars
  <2>1. CASE ReusePlaceholder \/ SendPlaceholder
    <3>1. target' = target BY <2>1, Zenon DEF ReusePlaceholder, SendPlaceholder, tableVars
    <3>2. job'.pc = "execute" \/ (job'.pc = "create" /\ job'.why = "placeholder")
      BY <2>1, <2>a, SinkMoves, Zenon
    <3>3. CleansOn BY <3>2, Zenon DEF CleansOn, Cleaning, Sending, SendLabels
    <3>. QED BY <2>a, <3>1, <3>3, <1>SameEnds, Zenon
  <2>2. CASE CreateDelivery \/ MarkSending \/ MessageAccepted
    <3>1. UNCHANGED <<target, cur>> /\ job.pc \in {"create", "mark", "call"}
      BY <2>2, Zenon DEF CreateDelivery, MarkSending, MessageAccepted, tableVars, inboxVars, At
    <3>2. \/ \E d : job' = [job EXCEPT !.pc = "mark", !.dlv = d]
          \/ \E pc \in {"call", "record", "confirm"} : job' = [job EXCEPT !.pc = pc]
      BY <2>2, Zenon DEF CreateDelivery, MarkSending, MessageAccepted, Goto
    <3>3. job'.pc \in {"mark", "call", "record", "confirm"} /\ job'.why = job.why
      BY <2>a, <3>2, Zenon DEF JobFields
    <3>4. CleansOn BY <3>1, <3>3, Zenon DEF CleansOn, Cleaning, Sending, SendLabels, Pending, Failing
    <3>. QED BY <2>a, <3>1, <3>4, <1>SameEnds, Zenon
  <2>3. CASE MessageRefused \/ AnswerLost \/ RecordFails \/ ConfirmFails
    <3>1. SendFailed /\ job.pc \in SendLabels
      BY <2>3, Zenon DEF MessageRefused, AnswerLost, RecordFails, ConfirmFails, At, SendLabels
    <3>2. target' = target \/ target' = [target EXCEPT ![cur].status = "unknown"]
      BY <3>1, Zenon DEF SendFailed
    <3>3. cur \in Update BY <3>1, AtWork, Zenon DEF SendLabels
    <3>4. EndsKept BY <2>a, <3>2, <3>3, <1>SameEnds, <1>StatusEnds, Zenon DEF OpenEnd
    <3>. QED BY <3>1, <3>4, <1>EndsCleansOn, Zenon DEF Ends
  <2>4. CASE RecordRow \/ ReplaceRow
    <3>1. UNCHANGED <<target, cur>> /\ job.pc = "record"
      BY <2>4, Zenon DEF RecordRow, ReplaceRow, inboxVars, At
    <3>2. Goto("confirm") \/ (job.why = "replace" /\ Goto("r_delete"))
      BY <2>4, Zenon DEF RecordRow, ReplaceRow
    <3>3. job'.why = job.why /\ (job'.pc = "confirm" \/ (job'.pc = "r_delete" /\ job.why = "replace"))
      BY <2>a, <3>2, Zenon DEF Goto, JobFields
    <3>4. CleansOn BY <3>1, <3>3, Zenon DEF CleansOn, Cleaning, Sending, SendLabels, Pending, Failing
    <3>. QED BY <2>a, <3>1, <3>4, <1>SameEnds, Zenon
  <2>5. CASE ConfirmSent
    <3>1. target' = target /\ job.pc = "confirm" BY <2>5, Zenon DEF ConfirmSent, At
    <3>2. job.why \in {"placeholder", "chunk", "redo_chunk", "notice", "error"}
      BY <3>1, Zenon DEF Safe, Place, SendLabels
    <3>3. CleansOn
      <4>1. CASE job.why = "error"
        <5>1. Leave("processed") BY <2>5, <4>1, Zenon DEF ConfirmSent
        <5>. QED BY <5>1, <1>EndsCleansOn, Zenon DEF Ends
      <4>2. CASE job.why = "redo_chunk"
        <5>1. cur' = cur BY <2>5, <4>2, Zenon DEF ConfirmSent, inboxVars
        <5>. QED BY <3>1, <4>2, <5>1, Zenon DEF CleansOn, Cleaning, Sending, SendLabels, Pending, Failing
      <4>3. CASE job.why \in {"placeholder", "chunk", "notice"}
        <5>1. \/ \E m : job' = [job EXCEPT !.pc = "execute", !.msg = m, !.rev = 1]
              \/ \E pc \in {"settle", "create"} : job' = [job EXCEPT !.pc = pc, !.i = @ + 1, !.rev = @ + 1]
              \/ Goto("delivered")
          BY <2>5, <4>3, Zenon DEF ConfirmSent
        <5>2. job'.pc \in {"execute", "settle", "create", "delivered"} /\ job'.why = job.why
          BY <2>a, <5>1, Zenon DEF Goto, JobFields
        <5>. QED BY <4>3, <5>2, Zenon DEF CleansOn, Cleaning, Sending, SendLabels
      <4>. QED BY <3>2, <4>1, <4>2, <4>3, Zenon
    <3>. QED BY <2>a, <3>1, <3>3, <1>SameEnds, Zenon
  <2>6. CASE EditPlaceholder
    <3>1. target' = target /\ Goto("update") BY <2>6, Zenon DEF EditPlaceholder, tableVars
    <3>2. job'.pc = "update" BY <2>a, <3>1, Zenon DEF Goto, JobFields
    <3>3. CleansOn BY <3>2, Zenon DEF CleansOn, Cleaning, Sending, SendLabels
    <3>. QED BY <2>a, <3>1, <3>3, <1>SameEnds, Zenon
  <2>7. CASE UpdateChunk
    <3>1. target' = target BY <2>7, Zenon DEF UpdateChunk
    <3>2. CleansOn
      <4>1. CASE job.why = "failure"
        <5>1. Leave("processed") BY <2>7, <4>1, Zenon DEF UpdateChunk
        <5>. QED BY <5>1, <1>EndsCleansOn, Zenon DEF Ends
      <4>2. CASE job.why # "failure"
        <5>1. job' = [job EXCEPT !.pc = IF job.n = 1 THEN "settle" ELSE "create",
                                 !.why = "chunk", !.i = 2, !.rev = @ + 1]
          BY <2>7, <4>2, Zenon DEF UpdateChunk
        <5>2. job'.pc \in {"settle", "create"} /\ job'.why = "chunk"
          BY <2>a, <5>1, Zenon DEF JobFields
        <5>. QED BY <5>2, Zenon DEF CleansOn, Cleaning, Sending
      <4>. QED BY <4>1, <4>2, Zenon
    <3>. QED BY <2>a, <3>1, <3>2, <1>SameEnds, Zenon
  <2>8. CASE EditFails \/ UpdateChunkFails \/ Settle
    <3>1. target' = target /\ Ends
      BY <2>8, Zenon DEF EditFails, UpdateChunkFails, Settle, Ends, tableVars
    <3>. QED BY <2>a, <3>1, <1>SameEnds, <1>EndsCleansOn, Zenon
  <2>. QED BY <2>1, <2>2, <2>3, <2>4, <2>5, <2>6, <2>7, <2>8, Zenon DEF SendStep
<1>ExecuteEndsKept.
    ASSUME Safe, ExecuteStep
    PROVE  EndsKept /\ CleansOn
  <2>. USE <1>ExecuteEndsKept
  <2>a. DOMAIN job = JobFields BY Zenon DEF Safe, Tables
  <2>b. touched' = touched
    BY Zenon DEF ExecuteStep, ExecuteReplays, ExecuteFails, ExecuteAmbiguous, ExecuteCommits, telegramVars
  <2>c. ASSUME target' = target, job' = [job EXCEPT !.pc = "edit", !.why = "failure", !.i = 1, !.n = 1]
        PROVE  EndsKept /\ CleansOn
    <3>1. job'.pc = "edit" BY <2>a, <2>c, Zenon DEF JobFields
    <3>2. CleansOn BY <3>1, Zenon DEF CleansOn, Cleaning, Sending, SendLabels
    <3>. QED BY <2>b, <2>c, <3>2, <1>SameEnds, Zenon
  <2>1. CASE ExecuteReplays
    <3>1. /\ target' = target
          /\ Goto("settle") \/ job' = [job EXCEPT !.pc = "edit", !.why = "failure", !.i = 1, !.n = 1]
      BY <2>1, Zenon DEF ExecuteReplays, tableVars
    <3>2. CASE Goto("settle")
      <4>1. job'.pc = "settle" BY <2>a, <3>2, Zenon DEF Goto, JobFields
      <4>2. CleansOn BY <4>1, Zenon DEF CleansOn, Cleaning, Sending, SendLabels
      <4>. QED BY <2>b, <3>1, <4>2, <1>SameEnds, Zenon
    <3>. QED BY <2>c, <3>1, <3>2, Zenon
  <2>2. CASE ExecuteFails \/ ExecuteAmbiguous
    <3>1. Executable /\ \E s : ExecuteError(s) BY <2>2, Zenon DEF ExecuteFails, ExecuteAmbiguous
    <3>2. cur \in Update /\ op[cur] \notin Confirmed BY <3>1, Executing, Zenon
    <3>3. CASE kind[cur] = "send" BY <2>c, <3>1, <3>3, Zenon DEF ExecuteError
    <3>4. CASE kind[cur] # "send"
      <4>1. PICK s : target' = [target EXCEPT ![cur].status = s] /\ DispatchError
        BY <3>1, <3>4, Zenon DEF ExecuteError
      <4>2. EndsKept BY <2>b, <3>2, <4>1, <1>StatusEnds, Zenon
      <4>. QED BY <4>1, <4>2, <1>EndsCleansOn, Zenon DEF Ends
    <3>. QED BY <3>3, <3>4, Zenon
  <2>3. CASE ExecuteCommits
    <3>1. Executable /\ UNCHANGED <<target, cur>>
      BY <2>3, Zenon DEF ExecuteCommits, tableVars, inboxVars
    <3>2. op[cur] \notin Confirmed BY <3>1, Executing, Zenon
    <3>3. CleansOn BY <3>1, <3>2, Zenon DEF CleansOn
    <3>. QED BY <2>b, <3>1, <3>3, <1>SameEnds, Zenon
  <2>. QED BY <2>1, <2>2, <2>3, Zenon DEF ExecuteStep
<1>FreezeEnds.
    ASSUME Safe, TargetConflict \/ FreezeTarget \/ StartApplying \/ CheckRevision
    PROVE  EndsKept /\ CleansOn
  <2>. USE <1>FreezeEnds
  <2>a. DOMAIN job = JobFields BY Zenon DEF Safe, Tables
  <2>b. touched' = touched /\ job.pc \in {"target", "applying", "check"}
    BY Zenon DEF TargetConflict, FreezeTarget, StartApplying, CheckRevision, telegramVars, At
  <2>c. cur \in Update BY <2>b, AtWork, Zenon
  <2>1. CleansOn
    <3>1. ReplyError \/ \E pc \in {"applying", "execute", "check"} : Goto(pc)
      BY Zenon DEF TargetConflict, FreezeTarget, StartApplying, CheckRevision
    <3>2. CASE ReplyError BY <3>2, <1>EndsCleansOn, Zenon DEF Ends
    <3>3. CASE \E pc \in {"applying", "execute", "check"} : Goto(pc)
      <4>1. job'.pc \in {"applying", "execute", "check"} BY <2>a, <3>3, Zenon DEF Goto, JobFields
      <4>. QED BY <4>1, Zenon DEF CleansOn, Cleaning, Sending, SendLabels
    <3>. QED BY <3>1, <3>2, <3>3, Zenon
  <2>2. EndsKept
    <3>1. CASE target' = target BY <2>b, <3>1, <1>SameEnds, Zenon
    <3>2. CASE FreezeTarget /\ target' # target
      <4>1. target[cur].status = "none" /\ \E x : target' = [target EXCEPT ![cur] = x]
        BY <3>2, Zenon DEF FreezeTarget
      <4>. QED BY <2>b, <2>c, <4>1, Zenon DEF EndsKept, OpenEnd, Safe, Tables
    <3>3. CASE StartApplying \/ CheckRevision
      <4>1. job.pc \in {"applying", "check"} BY <3>3, Zenon DEF StartApplying, CheckRevision, At
      <4>2. op[cur] \notin Confirmed BY <4>1, Zenon DEF Safe, Place, Open, Confirmed
      <4>3. target' = target \/ \E s : target' = [target EXCEPT ![cur].status = s]
        BY <3>3, Zenon DEF StartApplying, CheckRevision
      <4>. QED BY <2>b, <2>c, <3>1, <4>2, <4>3, <1>StatusEnds, Zenon
    <3>4. CASE TargetConflict
      <4>1. target' = target BY <3>4, Zenon DEF TargetConflict, tableVars
      <4>. QED BY <3>1, <4>1, Zenon
    <3>. QED BY <3>1, <3>2, <3>3, <3>4, Zenon
  <2>. QED BY <2>1, <2>2, Zenon
<1>LeaveEnds.
    ASSUME Safe, AlreadyDone \/ MarkDelivered \/ Crash \/ \E u \in Update : Claim(u)
    PROVE  EndsKept /\ CleansOn
  <2>. USE <1>LeaveEnds
  <2>1. UNCHANGED <<touched, target>>
    BY Zenon DEF AlreadyDone, MarkDelivered, Crash, Claim, tableVars, telegramVars
  <2>2. CleansOn
    <3>1. (\E s : Leave(s)) \/ \E pc \in {"sink", "target"} : job' = [Idle EXCEPT !.pc = pc]
      BY Zenon DEF AlreadyDone, MarkDelivered, Crash, Claim
    <3>2. CASE \E s : Leave(s) BY <3>2, <1>EndsCleansOn, Zenon DEF Ends
    <3>3. CASE \E pc \in {"sink", "target"} : job' = [Idle EXCEPT !.pc = pc]
      <4>1. job'.pc \in {"sink", "target"} BY <3>3, Zenon DEF Idle
      <4>. QED BY <4>1, Zenon DEF CleansOn, Cleaning, Sending, SendLabels
    <3>. QED BY <3>1, <3>2, <3>3, Zenon
  <2>. QED BY <2>1, <2>2, <1>SameEnds, Zenon
<1>CleanupEnds.
    ASSUME Safe, CleanupStep
    PROVE  EndsKept /\ CleansOn
  <2>. USE <1>CleanupEnds
  <2>a. DOMAIN job = JobFields /\ DOMAIN touched = Update BY Zenon DEF Safe, Tables
  <2>b. Cleaning /\ cur \in Update BY CleanupCleans, Cleaned, Zenon
  <2>c. \A u \in Update : touched[u] \subseteq touched'[u]
    <3>1. MayTouch
      BY Zenon DEF CleanupStep, RetireTurn, RetireFails, RevokeMessage, RevokeCallFails, MarkRevoked,
         MarkRevokedFails, RedoAssert, RedoEdit, RedoUneditable, RedoEditFails, RedoUpdate,
         RedoUpdateFails, DeleteReplaced, DeleteReplacedFails, DeleteSurplus, MarkDeleted, CleanupFails,
         FinishTarget, FinishUnknown, Revokes, Deletes, MayTouch, telegramVars
    <3>. QED BY <2>a, <2>b, <3>1, Zenon DEF MayTouch, Touches
  <2>1. CASE \/ RetireFails \/ MarkRevokedFails \/ RedoEditFails \/ RedoUpdateFails
             \/ DeleteReplacedFails \/ CleanupFails \/ FinishUnknown
    <3>1. TargetUnknown
      BY <2>1, Zenon DEF RetireFails, MarkRevokedFails, RedoEditFails, RedoUpdateFails,
         DeleteReplacedFails, CleanupFails, FinishUnknown
    <3>2. EndsKept BY <2>b, <2>c, <3>1, <1>StatusEnds, Zenon DEF TargetUnknown, OpenEnd
    <3>. QED BY <3>1, <3>2, <1>EndsCleansOn, Zenon DEF Ends, TargetUnknown
  <2>2. CASE \/ RetireTurn \/ RevokeMessage \/ RevokeCallFails \/ RedoEdit \/ RedoUneditable
             \/ RedoUpdate \/ DeleteSurplus \/ Passes
    <3>1. UNCHANGED <<target, cur>> /\ (job.pc \in Pending => Passes)
      BY <2>2, Zenon DEF RetireTurn, RevokeMessage, RevokeCallFails, RedoEdit, RedoUneditable, RedoUpdate,
         DeleteSurplus, Passes, MarkRevoked, MarkDeleted, DeleteReplaced, tableVars, inboxVars, At, Pending
    <3>2. ASSUME Failing PROVE Failing'
      <4>1. RevokeMessage \/ RevokeCallFails \/ MarkRevoked
        BY <2>2, <3>2, Zenon DEF Failing, RetireTurn, RedoEdit, RedoUneditable, RedoUpdate, DeleteSurplus,
           Passes, MarkDeleted, DeleteReplaced, At
      <4>2. Goto("v_mark") \/ AfterRevokeStep(TRUE) \/ AfterRevokeStep(job.bad)
        BY <4>1, Zenon DEF RevokeMessage, RevokeCallFails, MarkRevoked
      <4>. QED BY <2>a, <3>2, <4>2, Zenon DEF Failing, Goto, AfterRevokeStep, JobFields
    <3>3. CleansOn BY <2>b, <3>1, <3>2, Zenon DEF CleansOn
    <3>4. EndsKept BY <2>c, <3>1, Zenon DEF EndsKept
    <3>. QED BY <3>3, <3>4, Zenon
  <2>3. CASE RedoAssert \/ FinishTarget
    <3>1. /\ cur' = cur /\ job.pc \notin Pending /\ ~Failing
          /\ target' = target \/ \E s : target' = [target EXCEPT ![cur].status = s]
      BY <2>3, Zenon DEF RedoAssert, FinishTarget, inboxVars, At, Pending, Failing
    <3>2. CleansOn BY <2>b, <3>1, Zenon DEF CleansOn
    <3>3. CASE target' = target BY <2>c, <3>2, <3>3, Zenon DEF EndsKept
    <3>. QED BY <2>b, <2>c, <3>1, <3>2, <3>3, <1>StatusEnds, Zenon
  <2>. QED BY <2>1, <2>2, <2>3, Zenon DEF CleanupStep, Passes
<1>. SUFFICES ASSUME Safe, Next PROVE EndsKept /\ CleansOn BY Zenon
<1>1. CASE TurnStep
  BY <1>1, <1>FreezeEnds, <1>LeaveEnds, <1>CleanupEnds, Zenon DEF TurnStep, CleanupStep
<1>2. CASE \E u \in Update : Reconcile(u)
  <2>1. UNCHANGED <<target, touched, job>> /\ cur = 0
    BY <1>2, Zenon DEF Reconcile, tableVars, telegramVars
  <2>2. ~Cleaning' BY <2>1, Zenon DEF Safe, Place, Cleaning, Sending, SendLabels
  <2>. QED BY <2>1, <2>2, <1>SameEnds, Zenon DEF CleansOn
<1>. QED BY <1>1, <1>2, <1>SendEnds, <1>ExecuteEndsKept, <1>LeaveEnds, Zenon DEF Next

-----------------------------------------------------------------------------
(* A message that is gone while its row is still active is the one the        *)
(* command at work is about to mark, or one whose call it has noted as        *)
(* failed, or was left so by an unfinished command.                           *)
Marks == {"v_mark", "c_mark"}
Marking(m) == job.pc \in Marks /\ m = OldMessage
Excused(t, m) ==
    \E u \in Unfinished(t) : m \in touched[u] /\ (u = cur /\ Cleaning => Failing \/ Marking(m))
Shown ==
    \A t \in Update, c \in Chunk :
        rows[t][c].life = "active" /\ chat[rows[t][c].msg].text \in Gone => Excused(t, rows[t][c].msg)

(* No message goes away that an active row names.                             *)
RowsShown ==
    \A t \in Update, c \in Chunk :
        rows'[t][c].life = "active" /\ chat'[rows'[t][c].msg].text \in Gone =>
            /\ rows[t][c].life = "active" /\ rows'[t][c].msg = rows[t][c].msg
            /\ chat[rows[t][c].msg].text \in Gone

(* The steps that write a message or a row.                                   *)
LEMMA NextQuiet ==
    ASSUME Next
    PROVE  \/ UNCHANGED <<rows, chat>>
           \/ MessageAccepted \/ AnswerLost
           \/ EditPlaceholder \/ EditFails \/ RedoEdit \/ RedoEditFails
           \/ RecordRow \/ ReplaceRow \/ UpdateChunk \/ RedoUpdate
           \/ DeleteReplaced \/ DeleteReplacedFails \/ RetireTurn
           \/ RevokeMessage \/ RevokeCallFails \/ DeleteSurplus \/ CleanupFails
           \/ MarkRevoked \/ MarkDeleted
<1>1. CASE SendStep
  BY <1>1, Zenon DEF SendStep, ReusePlaceholder, SendPlaceholder, CreateDelivery, MarkSending,
     MessageRefused, RecordFails, ConfirmSent, ConfirmFails, UpdateChunkFails, Settle, telegramVars, tableVars
<1>2. CASE ExecuteStep
  BY <1>2, Zenon DEF ExecuteStep, ExecuteCommits, ExecuteFails, ExecuteAmbiguous, ExecuteReplays,
     telegramVars, tableVars
<1>3. CASE TurnStep
  BY <1>3, Zenon DEF TurnStep, AlreadyDone, TargetConflict, FreezeTarget, StartApplying, CheckRevision,
     RetireFails, MarkRevokedFails, RedoAssert, RedoUneditable, RedoUpdateFails, FinishTarget, FinishUnknown,
     MarkDelivered, telegramVars, tableVars
<1>4. CASE Crash \/ \E u \in Update : Claim(u) \/ Reconcile(u)
  BY <1>4, Zenon DEF Crash, Claim, Reconcile, telegramVars, tableVars
<1>. QED BY <1>1, <1>2, <1>3, <1>4, Zenon DEF Next

(* There are no rows at the start.                                            *)
LEMMA InitShown == Init => Shown
BY DEF Init, Shown, NoRow

(* Every step keeps the rows shown, or a command at work accounts for them.   *)
LEMMA NextShown == Safe /\ Replies /\ Ledger /\ Shown /\ [Next]_vars => Shown'
<1>ShownStays.
    ASSUME Safe, Shown, RowsShown, EndsKept, CleansOn, ~(MarkRevoked \/ MarkDeleted)
    PROVE  Shown'
  <2>. USE <1>ShownStays
  <2>. SUFFICES ASSUME NEW t \in Update, NEW c \in Chunk, rows'[t][c].life = "active",
                       chat'[rows'[t][c].msg].text \in Gone
                PROVE  Excused(t, rows[t][c].msg)'
    BY Zenon DEF Shown
  <2>1. /\ rows[t][c].life = "active" /\ rows'[t][c].msg = rows[t][c].msg
        /\ chat[rows[t][c].msg].text \in Gone
    BY Zenon DEF RowsShown
  <2>2. PICK m : m = rows[t][c].msg BY Zenon
  <2>3. PICK u \in Unfinished(t) :
          m \in touched[u] /\ (u = cur /\ Cleaning => Failing \/ job.pc \in Marks)
    BY <2>1, <2>2, Zenon DEF Shown, Excused, Marking
  <2>4. u \in Update /\ target[u].turn = t /\ target[u].status \in OpenEnd
    BY <2>3, Zenon DEF Unfinished, OpenEnd
  <2>5. op[u] \in Confirmed BY <2>3, <2>4, Zenon DEF Safe, History
  <2>6. Marks \subseteq Pending /\ "r_delete" \notin Marks BY Zenon DEF Marks, Pending
  <2>7. m \in touched'[u] /\ target'[u].turn = t /\ target'[u].status \in OpenEnd
    BY <2>3, <2>4, <2>5, <2>6, Zenon DEF EndsKept
  <2>8. u = cur' /\ Cleaning' => Failing'
    <3>1. DeleteReplaced => job.pc = "r_delete" BY Zenon DEF DeleteReplaced, At
    <3>. QED BY <2>3, <2>5, <2>6, <3>1, Zenon DEF CleansOn, Passes
  <2>9. u \in Unfinished(t)' BY <2>4, <2>7, Zenon DEF Unfinished, OpenEnd
  <2>10. Excused(t, m)' BY <2>7, <2>8, <2>9, Zenon DEF Excused
  <2>. QED BY <2>1, <2>2, <2>10, Zenon DEF Excused
<1>AppendShown.
    ASSUME Safe, Replies, Ledger, MessageAccepted \/ AnswerLost
    PROVE  RowsShown
  <2>. USE <1>AppendShown
  <2>0. rows' = rows /\ job.pc = "call" /\ chat' = Append(chat, Says)
    BY Zenon DEF MessageAccepted, AnswerLost, tableVars, At
  <2>1. chat \in Seq(Message) /\ Says.text \notin Gone BY <2>0, SaysMessage, Zenon DEF Replies, Gone
  <2>2. \A t \in Update, c \in Chunk : rows[t][c].life = "active" => rows[t][c].msg \in DOMAIN chat
    BY Zenon DEF Ledger, RowsOK
  <2>3. \A m \in DOMAIN chat : chat'[m] = chat[m] BY <2>0, <2>1
  <2>. QED BY <2>0, <2>2, <2>3, Zenon DEF RowsShown
<1>EditShown.
    ASSUME Replies, Ledger, EditPlaceholder \/ EditFails \/ RedoEdit \/ RedoEditFails
    PROVE  RowsShown
  <2>. USE <1>EditShown
  <2>1. rows' = rows /\ (chat' = chat \/ \E p : \E x \in {FinalText, RedoText} : chat' = [chat EXCEPT ![p] = x])
    BY Zenon DEF EditPlaceholder, EditFails, RedoEdit, RedoEditFails, Shows, tableVars, telegramVars
  <2>2. FinalText.text \notin Gone /\ RedoText.text \notin Gone
    BY Zenon DEF FinalText, RedoText, Gone
  <2>3. \A t \in Update, c \in Chunk : rows[t][c].life = "active" => rows[t][c].msg \in DOMAIN chat
    BY Zenon DEF Ledger, RowsOK
  <2>4. \A m \in DOMAIN chat : chat'[m] = chat[m] \/ chat'[m].text \notin Gone BY <2>1, <2>2, Zenon
  <2>. QED BY <2>1, <2>3, <2>4, Zenon DEF RowsShown
(* A row that is written keeps its message, or takes the one just sent.       *)
<1>WriteShown.
    ASSUME Safe, Replies, Ledger, RecordRow \/ ReplaceRow \/ UpdateChunk \/ RedoUpdate
    PROVE  RowsShown
  <2>. USE <1>WriteShown
  <2>1. chat' = chat
    BY Zenon DEF RecordRow, ReplaceRow, UpdateChunk, RedoUpdate, telegramVars
  <2>2. ASSUME NEW t \in Update, NEW c \in Chunk, NEW m, NEW v, WriteRow(t, c, m, v),
               (Has(t, c, m) /\ rows[t][c].life = "active") \/ chat[m].text \notin Gone
        PROVE  RowsShown
    <3>1. rows \in [Update -> [Chunk -> Row]] BY Zenon DEF Ledger, RowsOK
    <3>2. /\ rows'[t][c].msg = m
          /\ \A x \in Update, d \in Chunk : x # t \/ d # c => rows'[x][d] = rows[x][d]
      BY <2>2, <3>1, Zenon DEF WriteRow
    <3>. QED BY <2>1, <2>2, <3>2, Zenon DEF RowsShown, Has
  <2>3. CASE RecordRow
    <3>1. job.pc = "record" /\ job.why # "replace" /\ \E v : WriteRow(RowTurn, RowChunk, Len(chat), v)
      BY <2>3, Zenon DEF RecordRow, At
    <3>2. chat[Len(chat)].text \notin Gone BY <3>1, Zenon DEF Ledger, JobOK
    <3>. QED BY <2>2, <3>1, <3>2, RecordsRow, Zenon
  <2>4. CASE ReplaceRow
    <3>1. /\ job.pc = "record" /\ job.why = "replace" /\ Matches(target[cur].turn, job.i, job.msg)
          /\ \E v : WriteRow(target[cur].turn, job.i, Len(chat), v)
      BY <2>4, Zenon DEF ReplaceRow, At
    <3>2. chat[Len(chat)].text \notin Gone BY <3>1, Zenon DEF Ledger, JobOK
    <3>3. Cleaning BY <3>1, Zenon DEF Cleaning, Sending, SendLabels
    <3>. QED BY <2>2, <3>1, <3>2, <3>3, CleanedTurn, Zenon DEF Matches
  <2>5. CASE UpdateChunk
    <3>1. job.pc = "update" /\ Matches(cur, 1, job.msg) /\ \E v : WriteRow(cur, 1, job.msg, v)
      BY <2>5, Zenon DEF UpdateChunk, At
    <3>2. cur \in Update BY <3>1, AtWork, Zenon
    <3>. QED BY <2>2, <3>1, <3>2, Zenon DEF Matches, Has
  <2>6. CASE RedoUpdate
    <3>1. /\ job.pc = "r_update" /\ Matches(target[cur].turn, job.i, OldMessage)
          /\ \E v : WriteRow(target[cur].turn, job.i, OldMessage, v)
      BY <2>6, Zenon DEF RedoUpdate, At
    <3>2. Cleaning BY <3>1, Zenon DEF Cleaning
    <3>. QED BY <2>2, <3>1, <3>2, CleanedTurn, Zenon DEF Matches, Has
  <2>. QED BY <2>3, <2>4, <2>5, <2>6, Zenon
<1>RemoveShown.
    ASSUME Safe, Replies, Ledger, DeleteReplaced \/ DeleteReplacedFails \/ RetireTurn
    PROVE  RowsShown
  <2>. USE <1>RemoveShown
  <2>1. CASE DeleteReplaced \/ DeleteReplacedFails
    <3>1. /\ rows' = rows /\ job.pc = "r_delete"
          /\ chat' = chat \/ \E x : chat' = [chat EXCEPT ![job.msg] = x]
      BY <2>1, Zenon DEF DeleteReplaced, DeleteReplacedFails, Deletes, tableVars, telegramVars, At, Shows
    <3>2. \A t \in Update, c \in Chunk : ~Has(t, c, job.msg) BY <3>1, Zenon DEF Ledger, JobOK
    <3>3. \A m \in DOMAIN chat : m # job.msg => chat'[m] = chat[m] BY <3>1, Zenon
    <3>4. \A t \in Update, c \in Chunk : rows[t][c].life = "active" => rows[t][c].msg \in DOMAIN chat
      BY Zenon DEF Ledger, RowsOK
    <3>. QED BY <3>1, <3>2, <3>3, <3>4, Zenon DEF RowsShown, Has
  <2>2. CASE RetireTurn
    <3>1. chat' = chat /\ job.pc = "retire" BY <2>2, Zenon DEF RetireTurn, telegramVars, At
    <3>2. Cleaning BY <3>1, Zenon DEF Cleaning
    <3>3. Retires BY <2>2, <3>2, CleanedTurn, TurnRetires, Zenon DEF Ledger
    <3>. QED BY <3>1, <3>3, Zenon DEF RowsShown, Retires
  <2>. QED BY <2>1, <2>2, Zenon
(* A message is deleted or becomes a tombstone before its row is retired: in  *)
(* between, or when the answer is lost, the unfinished command accounts for   *)
(* it.                                                                        *)
<1>RemovedShown.
    ASSUME Safe, Replies, Ledger, Shown, CleansOn,
           RevokeMessage \/ DeleteSurplus \/ (chat' # chat /\ (RevokeCallFails \/ CleanupFails))
    PROVE  Shown'
  <2>. USE <1>RemovedShown
  <2>a. DOMAIN job = JobFields /\ DOMAIN touched = Update BY Zenon DEF Safe, Tables
  <2>b. /\ rows' = rows /\ Touches(OldMessage) /\ job.pc \in {"v_call", "c_delete"}
        /\ \E x : Shows(OldMessage, x)
    BY Zenon DEF RevokeMessage, RevokeCallFails, DeleteSurplus, CleanupFails, Revokes, Deletes, tableVars,
       telegramVars, At
  <2>c. Cleaning /\ job.pc \notin Marks /\ op[cur] \in Confirmed
    BY <2>b, Zenon DEF Cleaning, Marks, Safe, Place, Confirmed
  <2>d. /\ cur \in Update /\ target[cur].status = "applying" /\ job.i \in DOMAIN target[cur].ids
    BY <2>b, <2>c, Cleaned, Zenon DEF Ledger, JobOK
  <2>1. PICK m : m = OldMessage BY Zenon
  <2>e. /\ \A u \in Update : target'[u].turn = target[u].turn
        /\ \A u \in Update : target[u].status \in OpenEnd => target'[u].status \in OpenEnd
        /\ Cleaning' => cur' = cur /\ (Failing \/ Marking(m))'
    <3>1. CASE RevokeMessage \/ DeleteSurplus
      <4>1. UNCHANGED <<target, cur>> /\ (Goto("v_mark") \/ Goto("c_mark"))
        BY <3>1, Zenon DEF RevokeMessage, DeleteSurplus, tableVars, inboxVars
      <4>2. job'.pc \in Marks /\ job'.i = job.i BY <2>a, <4>1, Zenon DEF Goto, JobFields, Marks
      <4>3. OldMessage' = m BY <2>1, <4>1, <4>2, Zenon DEF OldMessage
      <4>. QED BY <4>1, <4>2, <4>3, Zenon DEF Marking
    <3>2. CASE RevokeCallFails
      <4>1. UNCHANGED <<target, cur>> /\ AfterRevokeStep(TRUE)
        BY <3>2, Zenon DEF RevokeCallFails, tableVars, inboxVars
      <4>2. Failing' BY <2>a, <4>1, Zenon DEF AfterRevokeStep, JobFields, Failing
      <4>. QED BY <4>1, <4>2, Zenon
    <3>3. CASE CleanupFails
      <4>1. target' = [target EXCEPT ![cur].status = "unknown"] /\ DispatchError
        BY <3>3, Zenon DEF CleanupFails, TargetUnknown
      <4>2. ~Cleaning' BY <2>a, <4>1, EndsQuiet, Zenon DEF Ends
      <4>. QED BY <2>d, <4>1, <4>2, Zenon DEF Safe, Tables, TargetFields, OpenEnd
    <3>. QED BY <3>1, <3>2, <3>3, Zenon
  <2>3. \A t \in Update, c \in Chunk : Has(t, c, m) => t = target[cur].turn
    <3>1. StoredOK(cur) /\ Stored(cur) /\ Names(cur, m)
      BY <2>d, <2>1, Zenon DEF Ledger, Stored, Names, OldMessage
    <3>. QED BY <3>1, Zenon DEF StoredOK
  <2>4. /\ m \in touched'[cur] /\ \A u \in Update : u # cur => touched'[u] = touched[u]
    BY <2>a, <2>b, <2>d, <2>1, Zenon DEF Touches
  <2>5. \A k \in DOMAIN chat : k # m => chat'[k] = chat[k] BY <2>b, <2>1, Zenon DEF Shows
  <2>. SUFFICES ASSUME NEW t \in Update, NEW c \in Chunk, rows[t][c].life = "active",
                       chat'[rows[t][c].msg].text \in Gone
                PROVE  Excused(t, rows[t][c].msg)'
    BY <2>b, Zenon DEF Shown
  <2>6. PICK k : k = rows[t][c].msg BY Zenon
  <2>7. k \in DOMAIN chat /\ Has(t, c, k) BY <2>6, Zenon DEF Ledger, RowsOK, Has
  <2>8. Excused(t, k)'
    <3>1. CASE k = m
      <4>1. cur \in Unfinished(t)' BY <2>d, <2>e, <2>3, <2>7, <3>1, Zenon DEF Unfinished, OpenEnd
      <4>. QED BY <2>e, <2>4, <3>1, <4>1, Zenon DEF Excused
    <3>2. CASE k # m
      <4>1. chat[k].text \in Gone BY <2>5, <2>6, <2>7, <3>2, Zenon
      <4>2. PICK u \in Unfinished(t) : k \in touched[u] /\ (u = cur => Failing)
        BY <2>c, <2>6, <4>1, Zenon DEF Shown, Excused, Marking
      <4>3. u \in Update /\ u \in Unfinished(t)' BY <2>e, <4>2, Zenon DEF Unfinished, OpenEnd
      <4>4. k \in touched'[u] BY <2>a, <2>b, <2>4, <4>2, <4>3, Zenon DEF Touches
      <4>5. u = cur' /\ Cleaning' => Failing' BY <2>c, <4>2, Zenon DEF CleansOn
      <4>. QED BY <4>3, <4>4, <4>5, Zenon DEF Excused
    <3>. QED BY <3>1, <3>2, Zenon
  <2>. QED BY <2>b, <2>6, <2>8, Zenon DEF Excused
<1>MarkedShown.
    ASSUME Safe, Replies, Ledger, Shown, CleansOn, MarkRevoked \/ MarkDeleted
    PROVE  Shown'
  <2>. USE <1>MarkedShown
  <2>1. UNCHANGED <<chat, touched, target, cur>> /\ RetireMessage(OldMessage) /\ job.pc \in Marks
    BY Zenon DEF MarkRevoked, MarkDeleted, telegramVars, inboxVars, At, Marks
  <2>2. Cleaning /\ op[cur] \in Confirmed BY <2>1, Zenon DEF Cleaning, Marks, Safe, Place, Confirmed
  <2>3. /\ \A t \in Update, c \in Chunk : rows'[t][c].life = "active" => rows'[t][c] = rows[t][c]
        /\ \A t \in Update, c \in Chunk : rows'[t][c].life = "active" => rows'[t][c].msg # OldMessage
    BY <2>1, MessageRetires, Zenon DEF Ledger
  <2>. SUFFICES ASSUME NEW t \in Update, NEW c \in Chunk, rows'[t][c].life = "active",
                       chat'[rows'[t][c].msg].text \in Gone
                PROVE  Excused(t, rows[t][c].msg)'
    BY Zenon DEF Shown
  <2>4. rows[t][c].life = "active" /\ rows'[t][c] = rows[t][c] /\ rows[t][c].msg # OldMessage
    BY <2>3, Zenon
  <2>5. PICK k : k = rows[t][c].msg BY Zenon
  <2>6. PICK u \in Unfinished(t) : k \in touched[u] /\ (u = cur => Failing)
    BY <2>1, <2>2, <2>4, <2>5, Zenon DEF Shown, Excused, Marking
  <2>7. u \in Unfinished(t)' BY <2>1, <2>6, Zenon DEF Unfinished
  <2>8. Excused(t, k)'
    <3>1. u = cur' /\ Cleaning' => Failing' BY <2>2, <2>6, Zenon DEF CleansOn
    <3>. QED BY <2>1, <2>6, <2>7, <3>1, Zenon DEF Excused
  <2>. QED BY <2>4, <2>5, <2>8, Zenon DEF Excused
<1>. SUFFICES ASSUME Safe, Replies, Ledger, Shown, [Next]_vars PROVE Shown' BY Zenon
<1>1. CASE UNCHANGED vars
  <2>1. UNCHANGED <<rows, chat, target, touched, job, cur>>
    BY <1>1, Zenon DEF vars, tableVars, telegramVars, inboxVars
  <2>. QED BY <2>1 DEF Shown, Excused, Unfinished, Cleaning, Sending, Failing, Marking, OldMessage
<1>2. CASE /\ Next
           /\ ~(RevokeMessage \/ DeleteSurplus \/ MarkRevoked \/ MarkDeleted)
           /\ ~(chat' # chat /\ (RevokeCallFails \/ CleanupFails))
  <2>0. RevokeCallFails \/ CleanupFails => rows' = rows BY Zenon DEF RevokeCallFails, CleanupFails, tableVars
  <2>1. \/ UNCHANGED <<rows, chat>>
        \/ MessageAccepted \/ AnswerLost
        \/ EditPlaceholder \/ EditFails \/ RedoEdit \/ RedoEditFails
        \/ RecordRow \/ ReplaceRow \/ UpdateChunk \/ RedoUpdate
        \/ DeleteReplaced \/ DeleteReplacedFails \/ RetireTurn
    BY <1>2, <2>0, NextQuiet, Zenon
  <2>2. CASE UNCHANGED <<rows, chat>>
    <3>1. RowsShown BY <2>2, Zenon DEF RowsShown
    <3>. QED BY <1>2, <3>1, NextEnds, <1>ShownStays, Zenon
  <2>3. CASE ~UNCHANGED <<rows, chat>>
    <3>1. RowsShown
      BY <2>1, <2>3, <1>AppendShown, <1>EditShown, <1>WriteShown, <1>RemoveShown, Zenon
    <3>. QED BY <1>2, <3>1, NextEnds, <1>ShownStays, Zenon
  <2>. QED BY <2>2, <2>3, Zenon
<1>. QED BY <1>1, <1>2, NextEnds, <1>RemovedShown, <1>MarkedShown, Zenon

(* Between updates an active row names a message that is still in the chat,   *)
(* unless a command that touched it was left unfinished (mark_status after    *)
(* deleteMessage, replace_turn_chunk_scoped).                                 *)
THEOREM ActiveRowsAreShown == Spec => []ActiveRowIsShown
<1>. DEFINE Inv == Safe /\ Replies /\ Ledger /\ Shown
<1>1. Init => Inv BY InitSafe, InitReplies, InitLedger, InitShown, Zenon
<1>2. Inv /\ [Next]_vars => Inv' BY NextKeeps, NextReplies, NextLedger, NextShown, Zenon DEF Keeps
<1>3. Inv => ActiveRowIsShown BY Zenon DEF ActiveRowIsShown, Shown, Excused, ActiveRows, Gone
<1>. QED BY <1>1, <1>2, <1>3, PTL DEF Spec

-----------------------------------------------------------------------------
(* The messages of a send: those that say so, and its placeholder.  Each has  *)
(* a row of the send's turn, or is just being recorded, or a delivery of the  *)
(* send was lost for good, or a redo that replaced it is unfinished.          *)
Delivery == [op : 0 .. NumUpdates, kind : {"generation", "reply"},
             status : {"pending", "sending", "sent", "retry_pending", "unknown", "failed"}, msg : Nat]
InFlight == job.pc \in {"mark", "call", "record", "confirm"}

Placeholder(d) == deliveries[d].kind = "generation" /\ deliveries[d].status = "sent"
Held(u, m) == \E d \in DOMAIN deliveries : deliveries[d].op = u /\ Placeholder(d) /\ deliveries[d].msg = m
Owned(u, m) == chat[m].of = u \/ Held(u, m)

Tracked(m) == \E t \in Update, c \in Chunk : Has(t, c, m)
Recording(u, m) == job.pc = "record" /\ cur = u /\ m = Len(chat)
Lost(u) ==
    \E d \in DOMAIN deliveries :
        deliveries[d].op = u /\ deliveries[d].status # "sent" /\ (InFlight => d # job.dlv)
Redone(u, m) ==
    \E x \in Update :
        /\ target[x].turn = u /\ target[x].status \in OpenEnd /\ op[x] \in Confirmed
        /\ x = cur /\ Cleaning => job.pc = "r_delete" /\ m = job.msg

OwnRows(u, m) == \A t \in Update, c \in Chunk : Has(t, c, m) => t = u
Account(u, m) ==
    /\ OwnRows(u, m)
    /\ chat[m].text # "deleted" => Tracked(m) \/ Recording(u, m) \/ Lost(u) \/ Redone(u, m)
Accounts == \A u \in Update, m \in DOMAIN chat : kind[u] = "send" /\ Owned(u, m) => Account(u, m)

DeliveriesOK ==
    /\ deliveries \in Seq(Delivery)
    /\ \A d \in DOMAIN deliveries : Placeholder(d) => deliveries[d].msg \in DOMAIN chat

Completed ==
    /\ DOMAIN inbox = Update
    /\ cur # 0 => inbox[cur] = "processing"
    /\ \A u \in Update : kind[u] = "send" /\ op[u] = "delivered" => inbox[u] = "processed" /\ AllSent(u)

AtDelivery ==
    /\ Sending({"error"}) => kind[cur] # "send"
    /\ InFlight \/ job.pc = "r_delete" =>
          job.dlv \in DOMAIN deliveries /\ deliveries[job.dlv].op \in {0, cur}
    /\ InFlight =>
          /\ deliveries[job.dlv].status # "sent"
          /\ job.why # "error" => deliveries[job.dlv].op = cur
          /\ job.why = "placeholder" => deliveries[job.dlv].kind = "generation"
    /\ job.pc \in {"record", "confirm"} => chat # <<>> /\ chat[Len(chat)].of = cur
    /\ job.pc = "record" => \A d \in DOMAIN deliveries : Placeholder(d) => deliveries[d].msg # Len(chat)
    /\ job.pc \in {"execute", "edit", "update"} /\ kind[cur] = "send" =>
          /\ job.dlv \in DOMAIN deliveries /\ deliveries[job.dlv].op = cur
          /\ Placeholder(job.dlv) /\ deliveries[job.dlv].msg = job.msg

Books == DeliveriesOK /\ Completed /\ AtDelivery /\ Accounts

-----------------------------------------------------------------------------
(* What a step does to the deliveries.                                        *)
DeliveriesKept ==
    /\ deliveries' \in Seq(Delivery) /\ DOMAIN deliveries \subseteq DOMAIN deliveries'
    /\ \A d \in DOMAIN deliveries :
          /\ deliveries'[d].op = deliveries[d].op
          /\ deliveries[d].status # "sent" /\ (InFlight => d # job.dlv) => deliveries'[d].status # "sent"
    /\ \A d \in DOMAIN deliveries' : Placeholder(d)' =>
          /\ d \in DOMAIN deliveries
          /\ \/ Placeholder(d) /\ deliveries'[d].msg = deliveries[d].msg
             \/ /\ job.pc \in {"record", "confirm"}
                /\ deliveries[d].op \in {0, cur} /\ deliveries'[d].msg = Len(chat)
    /\ \A d \in DOMAIN deliveries' :
          deliveries'[d].op \in {0, cur} \/ (d \in DOMAIN deliveries /\ deliveries'[d] = deliveries[d])

(* mark_sent_result.                                                          *)
LEMMA SentDelivery ==
    ASSUME DeliveriesOK, AtDelivery, chat \in Seq(Message), job.pc \in {"record", "confirm"},
           deliveries' = [deliveries EXCEPT ![job.dlv].status = "sent", ![job.dlv].msg = Len(chat)]
    PROVE  /\ DeliveriesKept
           /\ deliveries'[job.dlv].status = "sent" /\ deliveries'[job.dlv].msg = Len(chat)
           /\ deliveries'[job.dlv].kind = deliveries[job.dlv].kind
<1>1. job.dlv \in DOMAIN deliveries /\ deliveries[job.dlv].op \in {0, cur} /\ InFlight
  BY Zenon DEF AtDelivery, InFlight
<1>2. deliveries \in Seq(Delivery) /\ Len(chat) \in Nat BY DEF DeliveriesOK
<1>3. deliveries[job.dlv] \in Delivery BY <1>1, <1>2
<1>4. PICK x : x = [deliveries[job.dlv] EXCEPT !.status = "sent", !.msg = Len(chat)] BY Zenon
<1>5. /\ x \in Delivery /\ x.op = deliveries[job.dlv].op /\ x.kind = deliveries[job.dlv].kind
      /\ x.status = "sent" /\ x.msg = Len(chat)
  BY <1>2, <1>3, <1>4, Zenon DEF Delivery
<1>6. deliveries' = [deliveries EXCEPT ![job.dlv] = x] BY <1>1, <1>2, <1>3, <1>4, Zenon
<1>7. /\ deliveries' \in Seq(Delivery) /\ DOMAIN deliveries' = DOMAIN deliveries
      /\ deliveries'[job.dlv] = x
      /\ \A d \in DOMAIN deliveries : d # job.dlv => deliveries'[d] = deliveries[d]
  BY <1>1, <1>2, <1>5, <1>6
<1>. QED BY <1>1, <1>5, <1>7, Zenon DEF DeliveriesKept, Placeholder

(* Every step only adds deliveries, or changes the one at work.               *)
LEMMA NextDeliveries == Safe /\ Replies /\ DeliveriesOK /\ AtDelivery /\ Next => DeliveriesKept
<1>SameDeliveries.
    ASSUME DeliveriesOK, deliveries' = deliveries
    PROVE  DeliveriesKept
  BY <1>SameDeliveries, Zenon DEF DeliveriesOK, DeliveriesKept, Placeholder
<1>CreatesDelivery.
    ASSUME Safe, DeliveriesOK, CreateDelivery
    PROVE  DeliveriesKept
  <2>. USE <1>CreatesDelivery
  <2>1. PICK x : /\ deliveries' = Append(deliveries, x) /\ job.pc = "create"
                 /\ x = [op |-> IF job.why = "error" THEN 0 ELSE cur,
                         kind |-> IF job.why = "placeholder" THEN "generation" ELSE "reply",
                         status |-> "pending", msg |-> 0]
    BY Zenon DEF CreateDelivery, At
  <2>2. cur \in 0 .. NumUpdates /\ 0 \in 0 .. NumUpdates BY BoundsAssumption DEF Safe, Tables
  <2>3. x \in Delivery /\ x.op \in {0, cur} /\ x.status = "pending"
    BY <2>1, <2>2, Zenon DEF Delivery
  <2>4. deliveries \in Seq(Delivery) BY Zenon DEF DeliveriesOK
  <2>5. /\ deliveries' \in Seq(Delivery) /\ DOMAIN deliveries \subseteq DOMAIN deliveries'
        /\ \A d \in DOMAIN deliveries : deliveries'[d] = deliveries[d]
        /\ \A d \in DOMAIN deliveries' : d \notin DOMAIN deliveries => deliveries'[d] = x
    BY <2>1, <2>3, <2>4
  <2>. QED BY <2>3, <2>5, Zenon DEF DeliveriesKept, Placeholder
<1>SetsDelivery.
    ASSUME DeliveriesOK, AtDelivery, InFlight \/ job.pc \in {"r_delete", "edit", "update"},
           job.pc \in {"edit", "update"} => kind[cur] = "send",
           NEW s \in {"sending", "retry_pending", "unknown", "failed"}, SetDelivery(s)
    PROVE  DeliveriesKept
  <2>. USE <1>SetsDelivery
  <2>1. job.dlv \in DOMAIN deliveries /\ deliveries[job.dlv].op \in {0, cur} BY Zenon DEF AtDelivery
  <2>2. deliveries' = [deliveries EXCEPT ![job.dlv].status = s] BY Zenon DEF SetDelivery
  <2>3. deliveries \in Seq(Delivery) BY Zenon DEF DeliveriesOK
  <2>4. /\ deliveries' \in Seq(Delivery) /\ DOMAIN deliveries' = DOMAIN deliveries
        /\ \A d \in DOMAIN deliveries : d # job.dlv => deliveries'[d] = deliveries[d]
        /\ deliveries'[job.dlv].op = deliveries[job.dlv].op /\ deliveries'[job.dlv].status = s
    <3>1. deliveries[job.dlv] \in Delivery BY <2>1, <2>3
    <3>2. [deliveries[job.dlv] EXCEPT !.status = s] \in Delivery BY <3>1, Zenon DEF Delivery
    <3>3. /\ deliveries'[job.dlv] = [deliveries[job.dlv] EXCEPT !.status = s]
          /\ DOMAIN deliveries' = DOMAIN deliveries
          /\ \A d \in DOMAIN deliveries : d # job.dlv => deliveries'[d] = deliveries[d]
      BY <2>1, <2>2, Zenon
    <3>4. deliveries' \in Seq(Delivery) BY <2>1, <2>2, <2>3, <3>2
    <3>5. deliveries'[job.dlv].op = deliveries[job.dlv].op /\ deliveries'[job.dlv].status = s
      BY <3>1, <3>3, Zenon DEF Delivery
    <3>. QED BY <3>3, <3>4, <3>5, Zenon
  <2>. QED BY <2>1, <2>4, Zenon DEF DeliveriesKept, Placeholder
<1>. SUFFICES ASSUME Safe, Replies, DeliveriesOK, AtDelivery, Next PROVE DeliveriesKept BY Zenon
<1>a. chat \in Seq(Message) BY Zenon DEF Replies
<1>b. job.pc \in {"edit", "update"} => kind[cur] = "send" BY Zenon DEF Safe, Place
<1>1. CASE CreateDelivery BY <1>1, <1>CreatesDelivery, Zenon
<1>2. CASE ConfirmSent \/ ReplaceRow
  <2>1. /\ job.pc \in {"record", "confirm"}
        /\ deliveries' = [deliveries EXCEPT ![job.dlv].status = "sent", ![job.dlv].msg = Len(chat)]
    BY <1>2, Zenon DEF ConfirmSent, ReplaceRow, At
  <2>. QED BY <1>a, <2>1, SentDelivery, Zenon
<1>3. CASE \/ MarkSending \/ MessageRefused \/ AnswerLost \/ RecordFails \/ ConfirmFails
           \/ EditFails \/ UpdateChunkFails \/ DeleteReplacedFails
  <2>1. /\ \E s \in {"sending", "retry_pending", "unknown", "failed"} : SetDelivery(s)
        /\ job.pc \in {"mark", "call", "record", "confirm", "r_delete", "edit", "update"}
    BY <1>3, Zenon DEF MarkSending, MessageRefused, AnswerLost, RecordFails, ConfirmFails, EditFails,
       UpdateChunkFails, DeleteReplacedFails, FinalizeFailed, At
  <2>. QED BY <1>b, <2>1, <1>SetsDelivery, Zenon DEF InFlight
<1>4. CASE ~(\/ CreateDelivery \/ ConfirmSent \/ ReplaceRow \/ MarkSending \/ MessageRefused \/ AnswerLost
             \/ RecordFails \/ ConfirmFails \/ EditFails \/ UpdateChunkFails \/ DeleteReplacedFails)
  <2>1. deliveries' = deliveries
    <3>1. CASE SendStep
      BY <1>4, <3>1, Zenon DEF SendStep, ReusePlaceholder, SendPlaceholder, MessageAccepted, RecordRow,
         EditPlaceholder, UpdateChunk, Settle, tableVars
    <3>2. CASE ExecuteStep
      BY <3>2, Zenon DEF ExecuteStep, ExecuteCommits, ExecuteFails, ExecuteAmbiguous, ExecuteReplays,
         tableVars
    <3>3. CASE TurnStep
      BY <1>4, <3>3, Zenon DEF TurnStep, AlreadyDone, TargetConflict, FreezeTarget, StartApplying,
         CheckRevision, RetireTurn, RetireFails, RevokeMessage, RevokeCallFails, MarkRevoked,
         MarkRevokedFails, RedoAssert, RedoEdit, RedoUneditable, RedoEditFails, RedoUpdate,
         RedoUpdateFails, DeleteReplaced, DeleteSurplus, MarkDeleted, CleanupFails, FinishTarget,
         FinishUnknown, MarkDelivered, tableVars
    <3>4. CASE Crash \/ \E u \in Update : Claim(u) \/ Reconcile(u)
      BY <3>4, Zenon DEF Crash, Claim, Reconcile, tableVars
    <3>. QED BY <3>1, <3>2, <3>3, <3>4, Zenon DEF Next
  <2>. QED BY <2>1, <1>SameDeliveries, Zenon
<1>. QED BY <1>1, <1>2, <1>3, <1>4, Zenon

-----------------------------------------------------------------------------
(* What a step does to the messages.                                          *)
ChatKept ==
    \A m \in DOMAIN chat :
        \/ chat'[m] = chat[m]
        \/ chat'[m].text = "deleted" /\ chat'[m].of = chat[m].of
        \/ /\ chat[m].text # "deleted" /\ chat'[m].of = cur
           /\ kind[cur] # "send" \/ (job.pc = "edit" /\ m = job.msg)

(* Every step only adds messages, or edits them for the update at work.       *)
LEMMA NextChatKept ==
    ASSUME Safe, Replies, Next
    PROVE  ChatKept
<1>a. chat \in Seq(Message) BY Zenon DEF Replies
<1>b. ASSUME NEW p, NEW x, chat' = [chat EXCEPT ![p] = x],
             p \in DOMAIN chat =>
                 \/ x.text = "deleted" /\ x.of = chat[p].of
                 \/ /\ chat[p].text # "deleted" /\ x.of = cur
                    /\ kind[cur] # "send" \/ (job.pc = "edit" /\ p = job.msg)
      PROVE  ChatKept
  BY <1>a, <1>b, Zenon DEF ChatKept
<1>c. \A p \in DOMAIN chat : Deleted(p).text = "deleted" /\ Deleted(p).of = chat[p].of
  BY <1>a DEF Deleted, Message
<1>1. CASE chat' = chat BY <1>1, Zenon DEF ChatKept
<1>2. CASE MessageAccepted \/ AnswerLost
  <2>1. chat' = Append(chat, Says) BY <1>2, Zenon DEF MessageAccepted, AnswerLost
  <2>. QED BY <1>a, <2>1 DEF ChatKept
<1>3. CASE chat' # chat /\ (EditPlaceholder \/ EditFails)
  <2>1. /\ job.pc = "edit" /\ chat[job.msg].text # "deleted"
        /\ chat' = [chat EXCEPT ![job.msg] = FinalText]
    BY <1>3, Zenon DEF EditPlaceholder, EditFails, At
  <2>2. FinalText.of = cur BY Zenon DEF FinalText
  <2>. QED BY <1>b, <2>1, <2>2, Zenon
<1>4. CASE chat' # chat /\ (RedoEdit \/ RedoEditFails)
  <2>1. /\ job.pc = "r_edit" /\ chat[OldMessage].text # "deleted"
        /\ chat' = [chat EXCEPT ![OldMessage] = RedoText]
    BY <1>4, Zenon DEF RedoEdit, RedoEditFails, At, Shows, telegramVars
  <2>2. RedoText.of = cur BY Zenon DEF RedoText
  <2>3. kind[cur] # "send" BY <2>1, Zenon DEF Safe, Place, Cleaning
  <2>. QED BY <1>b, <2>1, <2>2, <2>3, Zenon
<1>5. CASE RevokeMessage \/ (chat' # chat /\ RevokeCallFails)
  <2>1. /\ job.pc = "v_call" /\ (job.i = 1 => chat[OldMessage].text # "deleted")
        /\ \/ job.i = 1 /\ chat' = [chat EXCEPT ![OldMessage] = [of |-> cur, text |-> "tombstone", part |-> 0]]
           \/ chat' = [chat EXCEPT ![OldMessage] = Deleted(OldMessage)]
    BY <1>5, Zenon DEF RevokeMessage, RevokeCallFails, Revokes, At, Shows, telegramVars
  <2>2. kind[cur] # "send" BY <2>1, Zenon DEF Safe, Place, Cleaning
  <2>3. PICK x : x = [of |-> cur, text |-> "tombstone", part |-> 0] BY Zenon
  <2>4. CASE job.i = 1 /\ chat' = [chat EXCEPT ![OldMessage] = x]
    <3>1. x.of = cur /\ chat[OldMessage].text # "deleted" BY <2>1, <2>3, <2>4, Zenon
    <3>. QED BY <1>b, <2>2, <2>4, <3>1, Zenon
  <2>5. CASE chat' = [chat EXCEPT ![OldMessage] = Deleted(OldMessage)]
    BY <1>b, <1>c, <2>2, <2>5, Zenon
  <2>. QED BY <2>1, <2>3, <2>4, <2>5, Zenon
<1>6. CASE DeleteReplaced \/ DeleteSurplus \/ (chat' # chat /\ (DeleteReplacedFails \/ CleanupFails))
  <2>1. \E p : chat' = [chat EXCEPT ![p] = Deleted(p)]
    BY <1>6, Zenon DEF DeleteReplaced, DeleteReplacedFails, DeleteSurplus, CleanupFails, Deletes, Shows,
       telegramVars
  <2>. QED BY <1>b, <1>c, <2>1, Zenon
<1>7. CASE \/ RecordRow \/ ReplaceRow \/ UpdateChunk \/ RedoUpdate
           \/ RetireTurn \/ MarkRevoked \/ MarkDeleted
  <2>1. chat' = chat
    BY <1>7, Zenon DEF RecordRow, ReplaceRow, UpdateChunk, RedoUpdate, RetireTurn, MarkRevoked,
       MarkDeleted, telegramVars
  <2>. QED BY <1>1, <2>1, Zenon
<1>. QED BY <1>1, <1>2, <1>3, <1>4, <1>5, <1>6, <1>7, NextQuiet, Zenon

-----------------------------------------------------------------------------
(* The delivery in flight stays the one at work, or is a new one.             *)
FlightKept ==
    InFlight' => (InFlight /\ job'.dlv = job.dlv) \/ job'.dlv \notin DOMAIN deliveries

(* The delivery at work stays the one that was created for it.                *)
LEMMA NextAt ==
    Safe /\ Replies /\ DeliveriesOK /\ AtDelivery /\ DeliveriesKept /\ Next => AtDelivery' /\ FlightKept
<1>QuietAt.
    ASSUME kind' = kind, job'.pc \notin {"mark", "call", "record", "confirm", "r_delete"},
           job'.pc \in {"execute", "edit", "update"} \/ Sending({"error"})' => cur' = cur /\ kind[cur] # "send"
    PROVE  AtDelivery' /\ FlightKept
  BY <1>QuietAt, Zenon DEF AtDelivery, FlightKept, InFlight
<1>HeldAt.
    ASSUME UNCHANGED <<kind, cur>>, job'.pc \in {"execute", "edit", "update"},
           job'.dlv \in DOMAIN deliveries', deliveries'[job'.dlv].op = cur,
           (Placeholder(job.dlv))', deliveries'[job'.dlv].msg = job'.msg
    PROVE  AtDelivery' /\ FlightKept
  BY <1>HeldAt, Zenon DEF AtDelivery, FlightKept, InFlight, Sending, SendLabels
<1>EndsAt.
    ASSUME Safe, kind' = kind,
           \/ \E s : Leave(s)
           \/ kind[cur] # "send" /\ DispatchError
           \/ SendFailed /\ job.pc \in SendLabels
           \/ FinalizeFailed
    PROVE  AtDelivery' /\ FlightKept
  <2>. USE <1>EndsAt
  <2>1. \/ \E s : Leave(s)
        \/ Goto("settle")
        \/ kind[cur] # "send" /\ ReplyError /\ UNCHANGED inboxVars
    <3>1. CASE SendFailed /\ job.pc \in SendLabels
      <4>1. job.why \in {"redo_chunk", "replace"} => kind[cur] # "send"
        BY <3>1, Zenon DEF Safe, Place, Cleaning, Sending
      <4>. QED BY <3>1, <4>1, Zenon DEF SendFailed, DispatchError
    <3>2. CASE FinalizeFailed BY <3>2, Zenon DEF FinalizeFailed
    <3>3. CASE kind[cur] # "send" /\ DispatchError BY <3>3, Zenon DEF DispatchError
    <3>. QED BY <3>1, <3>2, <3>3, Zenon
  <2>2. CASE \E s : Leave(s)
    <3>1. job'.pc = "idle" BY <2>2 DEF Leave, Idle
    <3>. QED BY <3>1, <1>QuietAt, Zenon DEF Sending, SendLabels
  <2>3. CASE Goto("settle")
    <3>1. job'.pc = "settle" BY <2>3, Zenon DEF Goto, Safe, Tables, JobFields
    <3>. QED BY <3>1, <1>QuietAt, Zenon DEF Sending, SendLabels
  <2>4. CASE kind[cur] # "send" /\ ReplyError /\ UNCHANGED inboxVars
    <3>1. job'.pc = "create" BY <2>4, Zenon DEF ReplyError, StartSend, Safe, Tables, JobFields
    <3>2. cur' = cur BY <2>4, Zenon DEF inboxVars
    <3>. QED BY <2>4, <3>1, <3>2, <1>QuietAt, Zenon
  <2>. QED BY <2>1, <2>2, <2>3, <2>4, Zenon
<1>MessageAt.
    ASSUME Safe, Replies, DeliveriesOK, AtDelivery, DeliveriesKept,
           CreateDelivery \/ MarkSending \/ MessageAccepted \/ RecordRow \/ ReplaceRow
    PROVE  AtDelivery' /\ FlightKept
  <2>. USE <1>MessageAt
  <2>a. DOMAIN job = JobFields BY Zenon DEF Safe, Tables
  <2>b. UNCHANGED <<kind, cur>>
    BY Zenon DEF CreateDelivery, MarkSending, MessageAccepted, RecordRow, ReplaceRow, ledgerVars, inboxVars
  <2>c. deliveries \in Seq(Delivery) /\ chat \in Seq(Message) BY Zenon DEF DeliveriesOK, Replies
  <2>1. CASE CreateDelivery
    <3>1. /\ job.pc = "create" /\ job' = [job EXCEPT !.pc = "mark", !.dlv = Len(deliveries) + 1]
          /\ deliveries' = Append(deliveries, [op |-> IF job.why = "error" THEN 0 ELSE cur,
                                  kind |-> IF job.why = "placeholder" THEN "generation" ELSE "reply",
                                  status |-> "pending", msg |-> 0])
      BY <2>1, Zenon DEF CreateDelivery, At
    <3>2. job'.pc = "mark" /\ job'.dlv = Len(deliveries) + 1 /\ job'.why = job.why
      BY <2>a, <3>1, Zenon DEF JobFields
    <3>3. /\ job'.dlv \in DOMAIN deliveries' /\ job'.dlv \notin DOMAIN deliveries
          /\ deliveries'[job'.dlv].op = (IF job.why = "error" THEN 0 ELSE cur)
          /\ deliveries'[job'.dlv].kind = (IF job.why = "placeholder" THEN "generation" ELSE "reply")
          /\ deliveries'[job'.dlv].status = "pending"
      BY <2>c, <3>1, <3>2
    <3>4. Sending({"error"})' => kind'[cur'] # "send"
      BY <2>b, <3>1, <3>2, Zenon DEF AtDelivery, Sending, SendLabels
    <3>. QED BY <2>b, <3>2, <3>3, <3>4, Zenon DEF AtDelivery, FlightKept, InFlight
  <2>2. CASE MarkSending
    <3>1. job.pc = "mark" /\ Goto("call") /\ SetDelivery("sending")
      BY <2>2, Zenon DEF MarkSending, At
    <3>2. job'.pc = "call" /\ job'.dlv = job.dlv /\ job'.why = job.why
      BY <2>a, <3>1, Zenon DEF Goto, JobFields
    <3>3. /\ job.dlv \in DOMAIN deliveries /\ deliveries[job.dlv].op \in {0, cur}
          /\ job.why # "error" => deliveries[job.dlv].op = cur
          /\ job.why = "placeholder" => deliveries[job.dlv].kind = "generation"
      BY <3>1, Zenon DEF AtDelivery, InFlight
    <3>4. /\ deliveries'[job.dlv] = [deliveries[job.dlv] EXCEPT !.status = "sending"]
          /\ DOMAIN deliveries' = DOMAIN deliveries
      BY <2>c, <3>1, <3>3, Zenon DEF SetDelivery
    <3>5. deliveries[job.dlv] \in Delivery BY <2>c, <3>3
    <3>6. /\ deliveries'[job.dlv].op = deliveries[job.dlv].op
          /\ deliveries'[job.dlv].kind = deliveries[job.dlv].kind
          /\ deliveries'[job.dlv].status = "sending"
      BY <3>4, <3>5, Zenon DEF Delivery
    <3>7. Sending({"error"})' => kind'[cur'] # "send"
      BY <2>b, <3>1, <3>2, Zenon DEF AtDelivery, Sending, SendLabels
    <3>. QED BY <2>b, <3>1, <3>2, <3>3, <3>4, <3>6, <3>7, Zenon DEF AtDelivery, FlightKept, InFlight
  <2>3. CASE MessageAccepted
    <3>1. /\ job.pc = "call" /\ Goto(IF HasRow THEN "record" ELSE "confirm") /\ chat' = Append(chat, Says)
          /\ deliveries' = deliveries
      BY <2>3, Zenon DEF MessageAccepted, At, tableVars
    <3>2. job'.pc \in {"record", "confirm"} /\ job'.dlv = job.dlv /\ job'.why = job.why
      BY <2>a, <3>1, Zenon DEF Goto, JobFields
    <3>3. Says \in Message /\ Says.of = cur BY <3>1, SaysMessage, Zenon DEF Says
    <3>4. chat' # <<>> /\ Len(chat') = Len(chat) + 1 /\ chat'[Len(chat')] = Says BY <2>c, <3>1, <3>3
    <3>5. \A d \in DOMAIN deliveries : Placeholder(d) => deliveries[d].msg # Len(chat')
      BY <2>c, <3>4 DEF DeliveriesOK
    <3>6. Sending({"error"})' => kind'[cur'] # "send"
      BY <2>b, <3>1, <3>2, Zenon DEF AtDelivery, Sending, SendLabels
    <3>. QED
      BY <2>b, <3>1, <3>2, <3>3, <3>4, <3>5, <3>6, Zenon DEF AtDelivery, FlightKept, InFlight, Placeholder
  <2>4. CASE RecordRow
    <3>1. job.pc = "record" /\ Goto("confirm") /\ UNCHANGED <<chat, deliveries>>
      BY <2>4, Zenon DEF RecordRow, At, telegramVars
    <3>2. job'.pc = "confirm" /\ job'.dlv = job.dlv /\ job'.why = job.why
      BY <2>a, <3>1, Zenon DEF Goto, JobFields
    <3>3. Sending({"error"})' => kind'[cur'] # "send"
      BY <2>b, <3>1, <3>2, Zenon DEF AtDelivery, Sending, SendLabels
    <3>. QED BY <2>b, <3>1, <3>2, <3>3, Zenon DEF AtDelivery, FlightKept, InFlight
  <2>5. CASE ReplaceRow
    <3>1. job.pc = "record" /\ Goto("r_delete") BY <2>5, Zenon DEF ReplaceRow, At
    <3>2. job'.pc = "r_delete" /\ job'.dlv = job.dlv BY <2>a, <3>1, Zenon DEF Goto, JobFields
    <3>3. job.dlv \in DOMAIN deliveries /\ deliveries[job.dlv].op \in {0, cur}
      BY <3>1, Zenon DEF AtDelivery, InFlight
    <3>4. job.dlv \in DOMAIN deliveries' /\ deliveries'[job.dlv].op \in {0, cur}
      BY <3>3, Zenon DEF DeliveriesKept
    <3>. QED BY <2>b, <3>2, <3>4, Zenon DEF AtDelivery, FlightKept, InFlight, Sending, SendLabels
  <2>. QED BY <2>1, <2>2, <2>3, <2>4, <2>5, Zenon
<1>SendAt.
    ASSUME Safe, Replies, DeliveriesOK, AtDelivery, DeliveriesKept, SendStep
    PROVE  AtDelivery' /\ FlightKept
  <2>. USE <1>SendAt
  <2>a. DOMAIN job = JobFields BY Zenon DEF Safe, Tables
  <2>b. kind' = kind
    BY Zenon DEF SendStep, ReusePlaceholder, SendPlaceholder, CreateDelivery, MarkSending,
       MessageAccepted, MessageRefused, AnswerLost, RecordRow, ReplaceRow, RecordFails, ConfirmSent,
       ConfirmFails, EditPlaceholder, EditFails, UpdateChunk, UpdateChunkFails, Settle, ledgerVars
  <2>1. CASE ReusePlaceholder
    <3>1. /\ UNCHANGED <<cur, deliveries>>
          /\ \E d \in Deliveries(cur) :
                /\ deliveries[d].kind = "generation" /\ deliveries[d].status = "sent"
                /\ job' = [job EXCEPT !.pc = "execute", !.dlv = d, !.msg = deliveries[d].msg, !.rev = 1]
      BY <2>1, Zenon DEF ReusePlaceholder, inboxVars, tableVars
    <3>2. PICK d \in Deliveries(cur) :
                /\ deliveries[d].kind = "generation" /\ deliveries[d].status = "sent"
                /\ job' = [job EXCEPT !.pc = "execute", !.dlv = d, !.msg = deliveries[d].msg, !.rev = 1]
      BY <3>1, Zenon
    <3>3. job'.pc = "execute" /\ job'.dlv = d /\ job'.msg = deliveries[d].msg
      BY <2>a, <3>2, Zenon DEF JobFields
    <3>. QED BY <2>b, <3>1, <3>2, <3>3, <1>HeldAt, Zenon DEF Deliveries, Placeholder
  <2>2. CASE SendPlaceholder
    <3>1. job'.pc = "create" /\ job'.why = "placeholder"
      BY <2>2, <2>a, Zenon DEF SendPlaceholder, StartSend, JobFields
    <3>. QED BY <2>b, <3>1, <1>QuietAt, Zenon DEF Sending
  <2>3. CASE CreateDelivery \/ MarkSending \/ MessageAccepted \/ RecordRow \/ ReplaceRow
    BY <2>3, <1>MessageAt, Zenon
  <2>4. CASE MessageRefused \/ AnswerLost \/ RecordFails \/ ConfirmFails
    <3>1. SendFailed /\ job.pc \in SendLabels
      BY <2>4, Zenon DEF MessageRefused, AnswerLost, RecordFails, ConfirmFails, At, SendLabels
    <3>. QED BY <2>b, <3>1, <1>EndsAt, Zenon
  <2>5. CASE ConfirmSent
    <3>1. /\ job.pc = "confirm"
          /\ deliveries' = [deliveries EXCEPT ![job.dlv].status = "sent", ![job.dlv].msg = Len(chat)]
      BY <2>5, Zenon DEF ConfirmSent, At
    <3>2. job.why \in {"placeholder", "chunk", "redo_chunk", "notice", "error"}
      BY <3>1, Zenon DEF Safe, Place, SendLabels
    <3>3. CASE job.why = "error"
      <4>1. Leave("processed") BY <2>5, <3>3, Zenon DEF ConfirmSent
      <4>. QED BY <2>b, <4>1, <1>EndsAt, Zenon
    <3>4. CASE job.why = "placeholder"
      <4>1. cur' = cur /\ job' = [job EXCEPT !.pc = "execute", !.msg = Len(chat), !.rev = 1]
        BY <2>5, <3>4, Zenon DEF ConfirmSent, inboxVars
      <4>2. job'.pc = "execute" /\ job'.dlv = job.dlv /\ job'.msg = Len(chat)
        BY <2>a, <4>1, Zenon DEF JobFields
      <4>3. /\ job.dlv \in DOMAIN deliveries /\ deliveries[job.dlv].op = cur
            /\ deliveries[job.dlv].kind = "generation"
        BY <3>1, <3>4, Zenon DEF AtDelivery, InFlight
      <4>4. /\ job.dlv \in DOMAIN deliveries' /\ deliveries'[job.dlv].op = cur
            /\ deliveries'[job.dlv].kind = "generation"
            /\ deliveries'[job.dlv].status = "sent" /\ deliveries'[job.dlv].msg = Len(chat)
        BY <3>1, <4>3, SentDelivery, Zenon DEF Replies, DeliveriesKept
      <4>. QED BY <2>b, <4>1, <4>2, <4>4, <1>HeldAt, Zenon DEF Placeholder
    <3>5. CASE job.why \in {"chunk", "redo_chunk", "notice"}
      <4>1. \/ \E pc \in {"settle", "create", "r_assert"} : job' = [job EXCEPT !.pc = pc, !.i = @ + 1, !.rev = @ + 1]
            \/ Goto("delivered")
        BY <2>5, <3>5, Zenon DEF ConfirmSent
      <4>2. job'.pc \in {"settle", "create", "r_assert", "delivered"} /\ job'.why = job.why
        BY <2>a, <4>1, Zenon DEF Goto, JobFields
      <4>. QED BY <2>b, <3>5, <4>2, <1>QuietAt, Zenon DEF Sending, SendLabels
    <3>. QED BY <3>2, <3>3, <3>4, <3>5, Zenon
  <2>6. CASE EditPlaceholder
    <3>1. job.pc = "edit" /\ Goto("update") /\ UNCHANGED <<cur, deliveries>>
      BY <2>6, Zenon DEF EditPlaceholder, At, tableVars, inboxVars
    <3>2. job'.pc = "update" /\ job'.dlv = job.dlv /\ job'.msg = job.msg
      BY <2>a, <3>1, Zenon DEF Goto, JobFields
    <3>3. kind[cur] = "send" BY <3>1, Zenon DEF Safe, Place
    <3>. QED BY <2>b, <3>1, <3>2, <3>3, <1>HeldAt, Zenon DEF AtDelivery, Placeholder
  <2>7. CASE UpdateChunk
    <3>1. CASE job.why = "failure"
      <4>1. Leave("processed") BY <2>7, <3>1, Zenon DEF UpdateChunk
      <4>. QED BY <2>b, <4>1, <1>EndsAt, Zenon
    <3>2. CASE job.why # "failure"
      <4>1. job' = [job EXCEPT !.pc = IF job.n = 1 THEN "settle" ELSE "create",
                               !.why = "chunk", !.i = 2, !.rev = @ + 1]
        BY <2>7, <3>2, Zenon DEF UpdateChunk
      <4>2. job'.pc \in {"settle", "create"} /\ job'.why = "chunk"
        BY <2>a, <4>1, Zenon DEF JobFields
      <4>. QED BY <2>b, <4>2, <1>QuietAt, Zenon DEF Sending
    <3>. QED BY <3>1, <3>2, Zenon
  <2>8. CASE EditFails \/ UpdateChunkFails \/ Settle
    <3>1. FinalizeFailed \/ \E s : Leave(s) BY <2>8, Zenon DEF EditFails, UpdateChunkFails, Settle
    <3>. QED BY <2>b, <3>1, <1>EndsAt, Zenon
  <2>. QED BY <2>1, <2>2, <2>3, <2>4, <2>5, <2>6, <2>7, <2>8, Zenon DEF SendStep
<1>ExecuteAt.
    ASSUME Safe, AtDelivery, ExecuteStep
    PROVE  AtDelivery' /\ FlightKept
  <2>. USE <1>ExecuteAt
  <2>a. DOMAIN job = JobFields BY Zenon DEF Safe, Tables
  <2>b. kind' = kind /\ job.pc = "execute"
    BY Zenon DEF ExecuteStep, ExecuteCommits, ExecuteFails, ExecuteAmbiguous, ExecuteReplays, Executable,
       ledgerVars, At
  <2>c. ASSUME UNCHANGED <<cur, deliveries>>, kind[cur] = "send", NEW w, NEW n,
               job' = [job EXCEPT !.pc = "edit", !.why = w, !.i = 1, !.n = n]
        PROVE  AtDelivery' /\ FlightKept
    <3>1. job'.pc = "edit" /\ job'.dlv = job.dlv /\ job'.msg = job.msg
      BY <2>a, <2>c, Zenon DEF JobFields
    <3>. QED BY <2>b, <2>c, <3>1, <1>HeldAt, Zenon DEF AtDelivery, Placeholder
  <2>1. CASE ExecuteReplays
    <3>1. /\ UNCHANGED <<cur, deliveries>>
          /\ \/ Goto("settle")
             \/ /\ op[cur] \in {"unknown", "failed"}
                /\ job' = [job EXCEPT !.pc = "edit", !.why = "failure", !.i = 1, !.n = 1]
      BY <2>1, Zenon DEF ExecuteReplays, tableVars, inboxVars
    <3>2. CASE Goto("settle")
      <4>1. job'.pc = "settle" BY <2>a, <3>2, Zenon DEF Goto, JobFields
      <4>. QED BY <2>b, <4>1, <1>QuietAt, Zenon DEF Sending, SendLabels
    <3>3. CASE op[cur] \in {"unknown", "failed"}
      <4>1. kind[cur] = "send" BY <2>b, <3>3, Zenon DEF Safe, Place, Open
      <4>. QED BY <2>c, <3>1, <3>2, <4>1, Zenon
    <3>. QED BY <3>1, <3>2, <3>3, Zenon
  <2>2. CASE ExecuteFails \/ ExecuteAmbiguous
    <3>1. deliveries' = deliveries /\ \E s : ExecuteError(s)
      BY <2>2, Zenon DEF ExecuteFails, ExecuteAmbiguous
    <3>2. CASE kind[cur] = "send"
      <4>1. cur' = cur /\ job' = [job EXCEPT !.pc = "edit", !.why = "failure", !.i = 1, !.n = 1]
        BY <3>1, <3>2, Zenon DEF ExecuteError, inboxVars
      <4>. QED BY <2>c, <3>1, <3>2, <4>1, Zenon
    <3>3. CASE kind[cur] # "send"
      <4>1. DispatchError BY <3>1, <3>3, Zenon DEF ExecuteError
      <4>. QED BY <2>b, <3>3, <4>1, <1>EndsAt, Zenon
    <3>. QED BY <3>2, <3>3, Zenon
  <2>3. CASE ExecuteCommits
    <3>1. /\ Executable /\ UNCHANGED <<cur, deliveries>>
          /\ \E n \in Chunk :
                job' = CASE kind[cur] = "send" ->
                              [job EXCEPT !.pc = "edit", !.why = "reply", !.i = 1, !.n = n]
                         [] kind[cur] = "redo" ->
                              [job EXCEPT !.pc = "r_assert", !.i = 1, !.n = n, !.rev = target[cur].rev]
                         [] kind[cur] = "undo" -> [job EXCEPT !.pc = "retire"]
                         [] kind[cur] = "revoke" -> [job EXCEPT !.pc = "v_call", !.i = 1]
      BY <2>3, Zenon DEF ExecuteCommits, tableVars, inboxVars
    <3>2. CASE kind[cur] = "send" BY <2>c, <3>1, <3>2, Zenon
    <3>3. CASE kind[cur] # "send"
      <4>1. cur \in Update BY <2>b, AtWork, Zenon
      <4>2. kind[cur] \in {"undo", "revoke", "redo"}
        BY <3>3, <4>1, KindsAssumption, Zenon DEF Safe, Tables
      <4>3. job'.pc \in {"r_assert", "retire", "v_call"} BY <2>a, <3>1, <4>2, Zenon DEF JobFields
      <4>. QED BY <2>b, <4>3, <1>QuietAt, Zenon DEF Sending, SendLabels
    <3>. QED BY <3>2, <3>3, Zenon
  <2>. QED BY <2>1, <2>2, <2>3, Zenon DEF ExecuteStep
<1>TurnAt.
    ASSUME Safe, AtDelivery, TurnStep
    PROVE  AtDelivery' /\ FlightKept
  <2>. USE <1>TurnAt
  <2>a. DOMAIN job = JobFields BY Zenon DEF Safe, Tables
  <2>b. kind' = kind
    BY Zenon DEF TurnStep, AlreadyDone, TargetConflict, FreezeTarget, StartApplying, CheckRevision,
       RetireTurn, RetireFails, RevokeMessage, RevokeCallFails, MarkRevoked, MarkRevokedFails, RedoAssert,
       RedoEdit, RedoUneditable, RedoEditFails, RedoUpdate, RedoUpdateFails, DeleteReplaced,
       DeleteReplacedFails, DeleteSurplus, MarkDeleted, CleanupFails, FinishTarget, FinishUnknown,
       MarkDelivered, ledgerVars
  <2>c. kind[cur] # "send"
    <3>1. job.pc \in {"target", "applying", "check", "delivered"} \/ CleanupStep
      BY Zenon DEF TurnStep, CleanupStep, AlreadyDone, TargetConflict, FreezeTarget, StartApplying,
         CheckRevision, MarkDelivered, At
    <3>. QED BY <3>1, CleanupCleans, Zenon DEF Safe, Place, Open
  <2>1. CASE AlreadyDone \/ MarkDelivered
    <3>1. \E s : Leave(s) BY <2>1, Zenon DEF AlreadyDone, MarkDelivered
    <3>. QED BY <2>b, <3>1, <1>EndsAt, Zenon
  <2>2. CASE TargetConflict \/ FreezeTarget \/ StartApplying \/ CheckRevision
    <3>1. /\ UNCHANGED inboxVars
          /\ ReplyError \/ \E pc \in {"applying", "execute", "check"} : Goto(pc)
      BY <2>2, Zenon DEF TargetConflict, FreezeTarget, StartApplying, CheckRevision
    <3>2. CASE ReplyError BY <2>b, <2>c, <3>1, <3>2, <1>EndsAt, Zenon DEF DispatchError
    <3>3. CASE \E pc \in {"applying", "execute", "check"} : Goto(pc)
      <4>1. job'.pc \in {"applying", "execute", "check"} BY <2>a, <3>3, Zenon DEF Goto, JobFields
      <4>2. cur' = cur BY <3>1, Zenon DEF inboxVars
      <4>. QED BY <2>b, <2>c, <4>1, <4>2, <1>QuietAt, Zenon DEF Sending, SendLabels
    <3>. QED BY <3>1, <3>2, <3>3, Zenon
  <2>3. CASE \/ RetireFails \/ MarkRevokedFails \/ RedoEditFails \/ RedoUpdateFails
             \/ DeleteReplacedFails \/ CleanupFails \/ FinishUnknown
    <3>1. DispatchError
      BY <2>3, Zenon DEF RetireFails, MarkRevokedFails, RedoEditFails, RedoUpdateFails,
         DeleteReplacedFails, CleanupFails, FinishUnknown, TargetUnknown
    <3>. QED BY <2>b, <2>c, <3>1, <1>EndsAt, Zenon
  <2>4. CASE \/ RetireTurn \/ RevokeMessage \/ RevokeCallFails \/ MarkRevoked \/ RedoEdit \/ RedoUneditable
             \/ RedoUpdate \/ DeleteReplaced \/ DeleteSurplus \/ MarkDeleted \/ FinishTarget
    <3>1. \/ \E pc \in {"finish", "delivered", "v_mark", "r_update", "c_mark"} : job' = [job EXCEPT !.pc = pc]
          \/ \E b : \E pc \in {"v_call", "finish"} : job' = [job EXCEPT !.bad = b, !.i = @ + 1, !.pc = pc]
          \/ \E w, m : job' = [job EXCEPT !.pc = "create", !.why = w, !.msg = m] /\ w \in {"replace", "notice"}
          \/ job' = [job EXCEPT !.pc = "r_assert", !.i = @ + 1, !.rev = @ + 1]
          \/ \E pc \in {"c_delete", "finish"} : job' = [job EXCEPT !.pc = pc, !.i = @ - 1]
      BY <2>4, Zenon DEF RetireTurn, RevokeMessage, RevokeCallFails, MarkRevoked, RedoEdit, RedoUneditable,
         RedoUpdate, DeleteReplaced, DeleteSurplus, MarkDeleted, FinishTarget, Goto, StartSend, AfterRevokeStep
    <3>2. \/ job'.pc \in {"finish", "delivered", "v_mark", "r_update", "c_mark", "v_call", "r_assert", "c_delete"}
          \/ job'.pc = "create" /\ job'.why \in {"replace", "notice"}
      BY <2>a, <3>1, Zenon DEF JobFields
    <3>. QED BY <2>b, <3>2, <1>QuietAt, Zenon DEF Sending, SendLabels
  <2>5. CASE RedoAssert
    <3>1. /\ UNCHANGED inboxVars
          /\ ReplyError \/ \E i : job' = [job EXCEPT !.pc = RedoNext, !.why = "redo_chunk", !.i = i]
      BY <2>5, Zenon DEF RedoAssert
    <3>2. CASE ReplyError BY <2>b, <2>c, <3>1, <3>2, <1>EndsAt, Zenon DEF DispatchError
    <3>3. CASE \E i : job' = [job EXCEPT !.pc = RedoNext, !.why = "redo_chunk", !.i = i]
      <4>1. RedoNext \in {"r_edit", "create", "c_delete", "finish"} BY Zenon DEF RedoNext
      <4>2. job'.pc \in {"r_edit", "create", "c_delete", "finish"} /\ job'.why = "redo_chunk"
        BY <2>a, <3>3, <4>1, Zenon DEF JobFields
      <4>. QED BY <2>b, <4>2, <1>QuietAt, Zenon DEF Sending
    <3>. QED BY <3>1, <3>2, <3>3, Zenon
  <2>. QED BY <2>1, <2>2, <2>3, <2>4, <2>5, Zenon DEF TurnStep
<1>. SUFFICES ASSUME Safe, Replies, DeliveriesOK, AtDelivery, DeliveriesKept, Next
              PROVE  AtDelivery' /\ FlightKept
  BY Zenon
<1>1. CASE Crash
  <2>1. kind' = kind /\ \E s : Leave(s) BY <1>1, Zenon DEF Crash, ledgerVars
  <2>. QED BY <2>1, <1>EndsAt, Zenon
<1>2. CASE \E u \in Update : Claim(u)
  <2>1. kind' = kind /\ \E pc \in {"sink", "target"} : job' = [Idle EXCEPT !.pc = pc]
    BY <1>2, Zenon DEF Claim, ledgerVars
  <2>2. job'.pc \in {"sink", "target"} BY <2>1, Zenon DEF Idle
  <2>. QED BY <2>1, <2>2, <1>QuietAt, Zenon DEF Sending, SendLabels
<1>3. CASE \E u \in Update : Reconcile(u)
  <2>1. UNCHANGED <<kind, job>> /\ cur = 0 BY <1>3, Zenon DEF Reconcile
  <2>2. job'.pc = "idle" BY <2>1, Zenon DEF Safe, Place
  <2>. QED BY <2>1, <2>2, <1>QuietAt, Zenon DEF Sending, SendLabels
<1>. QED BY <1>1, <1>2, <1>3, <1>SendAt, <1>ExecuteAt, <1>TurnAt, Zenon DEF Next

-----------------------------------------------------------------------------
(* Where the inbox and the operations change.                                 *)
InboxStep ==
    \/ UNCHANGED <<inbox, cur>>
    \/ cur # 0 /\ \E s : inbox' = [inbox EXCEPT ![cur] = s] /\ cur' = 0
    \/ \E u \in Update :
          inbox[u] \in {"received", "failed"} /\ inbox' = [inbox EXCEPT ![u] = "processing"] /\ cur' = u

OpStep ==
    \A u \in Update :
        kind'[u] = "send" /\ op'[u] = "delivered" =>
            kind[u] = "send" /\ (op[u] = "delivered" \/ (u = cur /\ Settle))

(* A send that counts as complete has all its deliveries sent, and keeps      *)
(* them.                                                                      *)
LEMMA NextCompleted == Safe /\ DeliveriesKept /\ Completed /\ Next => Completed'
<1>SentStays.
    ASSUME DeliveriesKept, NEW u \in Update, u # cur, AllSent(u)
    PROVE  AllSent(u)'
  <2>. USE <1>SentStays
  <2>1. u # 0 BY DEF Update
  <2>2. \A d \in DOMAIN deliveries' : deliveries'[d].op = u => d \in DOMAIN deliveries /\ deliveries'[d] = deliveries[d]
    BY <2>1, Zenon DEF DeliveriesKept
  <2>3. \A d \in DOMAIN deliveries : d \in DOMAIN deliveries' /\ deliveries'[d].op = deliveries[d].op
    BY Zenon DEF DeliveriesKept
  <2>. QED BY <2>2, <2>3, Zenon DEF AllSent, Deliveries
<1>NextInbox. ASSUME Safe, Next PROVE InboxStep
  <2>. USE <1>NextInbox
  <2>1. \/ UNCHANGED inboxVars
        \/ job.pc # "idle" /\ \E s : Leave(s)
        \/ cur # 0 /\ \E s : Leave(s)
        \/ \E u \in Update : Claim(u)
    <3>1. CASE SendStep
      <4>1. CASE MessageRefused \/ AnswerLost \/ RecordFails \/ ConfirmFails
        <5>1. SendFailed /\ job.pc \in {"call", "record", "confirm"}
          BY <4>1, Zenon DEF MessageRefused, AnswerLost, RecordFails, ConfirmFails, At
        <5>2. UNCHANGED inboxVars \/ \E s : Leave(s) BY <5>1, Zenon DEF SendFailed, DispatchError
        <5>. QED BY <5>1, <5>2, Zenon
      <4>2. CASE ConfirmSent
        <5>1. job.pc = "confirm" BY <4>2, Zenon DEF ConfirmSent, At
        <5>2. job.why \in {"placeholder", "chunk", "redo_chunk", "notice", "error"}
          BY <5>1, Zenon DEF Safe, Place, SendLabels
        <5>3. UNCHANGED inboxVars \/ Leave("processed") BY <4>2, <5>2, Zenon DEF ConfirmSent
        <5>. QED BY <5>1, <5>3, Zenon
      <4>3. CASE EditFails \/ UpdateChunk \/ UpdateChunkFails \/ Settle
        <5>1. job.pc \in {"edit", "update", "settle"} /\ (UNCHANGED inboxVars \/ \E s : Leave(s))
          BY <4>3, Zenon DEF EditFails, UpdateChunk, UpdateChunkFails, Settle, FinalizeFailed, At
        <5>. QED BY <5>1, Zenon
      <4>4. CASE \/ ReusePlaceholder \/ SendPlaceholder \/ CreateDelivery \/ MarkSending \/ MessageAccepted
                 \/ RecordRow \/ ReplaceRow \/ EditPlaceholder
        BY <4>4, Zenon DEF ReusePlaceholder, SendPlaceholder, CreateDelivery, MarkSending, MessageAccepted,
           RecordRow, ReplaceRow, EditPlaceholder
      <4>. QED BY <3>1, <4>1, <4>2, <4>3, <4>4, Zenon DEF SendStep
    <3>2. CASE ExecuteStep
      <4>1. job.pc = "execute" /\ (UNCHANGED inboxVars \/ DispatchError)
        BY <3>2, Zenon DEF ExecuteStep, ExecuteCommits, ExecuteFails, ExecuteAmbiguous, ExecuteReplays,
           Executable, At, ExecuteError
      <4>. QED BY <4>1, Zenon DEF DispatchError
    <3>3. CASE TurnStep
      <4>1. CASE AlreadyDone \/ MarkDelivered
        <5>1. job.pc \in {"target", "delivered"} /\ \E s : Leave(s)
          BY <4>1, Zenon DEF AlreadyDone, MarkDelivered, At
        <5>. QED BY <5>1, Zenon
      <4>2. CASE \/ RetireFails \/ MarkRevokedFails \/ RedoEditFails \/ RedoUpdateFails
                 \/ DeleteReplacedFails \/ CleanupFails \/ FinishUnknown
        <5>1. DispatchError /\ Cleaning
          BY <4>2, CleanupCleans, Zenon DEF RetireFails, MarkRevokedFails, RedoEditFails, RedoUpdateFails,
             DeleteReplacedFails, CleanupFails, FinishUnknown, TargetUnknown, CleanupStep
        <5>2. job.pc # "idle" BY <5>1, Zenon DEF Cleaning, Sending, SendLabels
        <5>. QED BY <5>1, <5>2, Zenon DEF DispatchError
      <4>3. CASE \/ TargetConflict \/ FreezeTarget \/ StartApplying \/ CheckRevision
                 \/ RetireTurn \/ RevokeMessage \/ RevokeCallFails \/ MarkRevoked \/ RedoAssert \/ RedoEdit
                 \/ RedoUneditable \/ RedoUpdate \/ DeleteReplaced \/ DeleteSurplus \/ MarkDeleted \/ FinishTarget
        BY <4>3, Zenon DEF TargetConflict, FreezeTarget, StartApplying, CheckRevision, RetireTurn,
           RevokeMessage, RevokeCallFails, MarkRevoked, RedoAssert, RedoEdit, RedoUneditable, RedoUpdate,
           DeleteReplaced, DeleteSurplus, MarkDeleted, FinishTarget
      <4>. QED BY <3>3, <4>1, <4>2, <4>3, Zenon DEF TurnStep
    <3>4. CASE Crash BY <3>4, Zenon DEF Crash
    <3>5. CASE \E u \in Update : Claim(u) \/ Reconcile(u) BY <3>5, Zenon DEF Reconcile
    <3>. QED BY <3>1, <3>2, <3>3, <3>4, <3>5, Zenon DEF Next
  <2>2. job.pc # "idle" => cur # 0 BY Zenon DEF Safe, Place
  <2>. QED BY <2>1, <2>2, Zenon DEF InboxStep, inboxVars, Leave, Claim
<1>NextOps. ASSUME Safe, Next PROVE OpStep
  <2>. USE <1>NextOps
  <2>a. DOMAIN op = Update BY Zenon DEF Safe, Tables
  <2>1. CASE UNCHANGED <<kind, op>> BY <2>1, Zenon DEF OpStep
  <2>2. CASE kind' = kind /\ \E v : \E s \in {"none", "open", "unknown", "committed", "failed"} :
                                        op' = [op EXCEPT ![v] = s]
    BY <2>a, <2>2, Zenon DEF OpStep
  <2>3. CASE SendStep
    <3>1. CASE Settle
      <4>1. kind' = kind /\ \E s : op' = [op EXCEPT ![cur] = s] BY <3>1, Zenon DEF Settle
      <4>. QED BY <2>a, <3>1, <4>1, Zenon DEF OpStep
    <3>2. CASE ~Settle
      <4>1. UNCHANGED <<kind, op>>
        BY <2>3, <3>2, Zenon DEF SendStep, ReusePlaceholder, SendPlaceholder, CreateDelivery, MarkSending,
           MessageAccepted, MessageRefused, AnswerLost, RecordRow, ReplaceRow, RecordFails, ConfirmSent,
           ConfirmFails, EditPlaceholder, EditFails, UpdateChunk, UpdateChunkFails, ledgerVars
      <4>. QED BY <2>1, <4>1, Zenon
    <3>. QED BY <3>1, <3>2, Zenon
  <2>4. CASE ExecuteStep
    <3>1. CASE ExecuteCommits \/ ExecuteAmbiguous
      <4>1. kind' = kind /\ \E s \in {"committed", "unknown"} : op' = [op EXCEPT ![cur] = s]
        BY <3>1, Zenon DEF ExecuteCommits, ExecuteAmbiguous
      <4>. QED BY <2>2, <4>1, Zenon
    <3>2. CASE ExecuteFails
      <4>1. PICK end \in {<<"failed", "failed">>, <<"open", "unknown">>} :
              kind' = kind /\ op' = [op EXCEPT ![cur] = end[1]]
        BY <3>2, Zenon DEF ExecuteFails
      <4>2. end[1] \in {"failed", "open"} BY <4>1
      <4>. QED BY <2>2, <4>1, <4>2, Zenon
    <3>3. CASE ExecuteReplays
      <4>1. UNCHANGED <<kind, op>> BY <3>3, Zenon DEF ExecuteReplays, ledgerVars
      <4>. QED BY <2>1, <4>1, Zenon
    <3>. QED BY <2>4, <3>1, <3>2, <3>3, Zenon DEF ExecuteStep
  <2>5. CASE TurnStep
    <3>1. CASE TargetConflict \/ FreezeTarget
      <4>1. kind' = kind /\ (op' = [op EXCEPT ![cur] = "open"] \/ op' = [op EXCEPT ![cur] = op[cur]])
        BY <3>1, Zenon DEF TargetConflict, FreezeTarget
      <4>2. [op EXCEPT ![cur] = op[cur]] = op BY Zenon DEF Safe, Tables
      <4>. QED BY <2>1, <2>2, <4>1, <4>2, Zenon
    <3>2. CASE MarkDelivered
      <4>1. job.pc = "delivered" /\ kind' = kind /\ \E s : op' = [op EXCEPT ![cur] = s]
        BY <3>2, Zenon DEF MarkDelivered, At
      <4>2. kind[cur] # "send" BY <4>1, Zenon DEF Safe, Place
      <4>. QED BY <2>a, <4>1, <4>2, Zenon DEF OpStep
    <3>3. CASE ~(TargetConflict \/ FreezeTarget \/ MarkDelivered)
      <4>1. UNCHANGED <<kind, op>>
        BY <2>5, <3>3, Zenon DEF TurnStep, AlreadyDone, StartApplying, CheckRevision, RetireTurn,
           RetireFails, RevokeMessage, RevokeCallFails, MarkRevoked, MarkRevokedFails, RedoAssert, RedoEdit,
           RedoUneditable, RedoEditFails, RedoUpdate, RedoUpdateFails, DeleteReplaced, DeleteReplacedFails,
           DeleteSurplus, MarkDeleted, CleanupFails, FinishTarget, FinishUnknown, ledgerVars
      <4>. QED BY <2>1, <4>1, Zenon
    <3>. QED BY <3>1, <3>2, <3>3, Zenon
  <2>6. CASE Crash \/ \E u \in Update : Claim(u) \/ Reconcile(u)
    <3>1. \/ UNCHANGED <<kind, op>>
          \/ kind' = kind /\ \E v : \E s \in {"unknown", "committed", "failed"} : op' = [op EXCEPT ![v] = s]
      BY <2>6, Zenon DEF Crash, Claim, Reconcile, ledgerVars
    <3>. QED BY <2>1, <2>2, <3>1, Zenon
  <2>. QED BY <2>3, <2>4, <2>5, <2>6, Zenon DEF Next
<1>. SUFFICES ASSUME Safe, DeliveriesKept, Completed, Next PROVE Completed' BY Zenon
<1>1. InboxStep /\ OpStep BY <1>NextInbox, <1>NextOps, Zenon
<1>2. DOMAIN inbox' = Update /\ (cur' # 0 => inbox'[cur'] = "processing")
  BY <1>1, Zenon DEF InboxStep, Completed
<1>3. ASSUME NEW u \in Update, kind'[u] = "send", op'[u] = "delivered"
      PROVE  inbox'[u] = "processed" /\ AllSent(u)'
  <2>1. CASE op[u] = "delivered"
    <3>1. kind[u] = "send" /\ inbox[u] = "processed" /\ AllSent(u)
      BY <1>1, <1>3, <2>1, Zenon DEF OpStep, Completed
    <3>2. u # cur BY <3>1 DEF Completed, Update
    <3>3. inbox'[u] = "processed" BY <1>1, <3>1, <3>2, Zenon DEF InboxStep, Completed
    <3>. QED BY <3>1, <3>2, <3>3, <1>SentStays, Zenon
  <2>2. CASE op[u] # "delivered"
    <3>1. u = cur /\ Settle BY <1>1, <1>3, <2>2, Zenon DEF OpStep
    <3>2. /\ op' = [op EXCEPT ![cur] = IF AllSent(cur) /\ @ = "committed" THEN "delivered" ELSE @]
          /\ inbox' = [inbox EXCEPT ![cur] = IF AllSent(cur) THEN "processed" ELSE "failed"]
          /\ deliveries' = deliveries
      BY <3>1, Zenon DEF Settle, Leave, tableVars
    <3>3. DOMAIN op = Update /\ DOMAIN inbox = Update BY Zenon DEF Safe, Tables, Completed
    <3>4. AllSent(u) BY <1>3, <2>2, <3>1, <3>2, <3>3, Zenon
    <3>5. inbox'[u] = "processed" BY <3>1, <3>2, <3>3, <3>4, Zenon
    <3>. QED BY <3>2, <3>4, <3>5, Zenon DEF AllSent, Deliveries
  <2>. QED BY <2>1, <2>2, Zenon
<1>. QED BY <1>2, <1>3, Zenon DEF Completed

-----------------------------------------------------------------------------
(* Every message of a send keeps its account.                                 *)
LEMMA NextAccounts ==
    /\ Safe /\ Replies /\ Ledger /\ Books
    /\ DeliveriesKept /\ FlightKept /\ ChatKept /\ EndsKept /\ CleansOn /\ ConfirmedStays
    /\ Next
    => Accounts'
(* What a send owns after the step, of the messages there were, it owned.     *)
<1>OwnedBefore.
    ASSUME AtDelivery, DeliveriesKept, ChatKept,
           NEW u \in Update, kind[u] = "send", NEW m \in DOMAIN chat, Owned(u, m)'
    PROVE  Owned(u, m)
  <2>. USE <1>OwnedBefore
  <2>1. CASE Held(u, m)'
    <3>1. PICK d \in DOMAIN deliveries' : deliveries'[d].op = u /\ Placeholder(d)' /\ deliveries'[d].msg = m
      BY <2>1, Zenon DEF Held
    <3>2. d \in DOMAIN deliveries /\ deliveries[d].op = u BY <3>1, Zenon DEF DeliveriesKept
    <3>3. CASE Placeholder(d) /\ deliveries'[d].msg = deliveries[d].msg
      BY <3>1, <3>2, <3>3, Zenon DEF Held, Owned
    <3>4. CASE job.pc \in {"record", "confirm"} /\ deliveries[d].op \in {0, cur} /\ deliveries'[d].msg = Len(chat)
      <4>1. u = cur BY <3>2, <3>4 DEF Update
      <4>. QED BY <3>1, <3>4, <4>1, Zenon DEF AtDelivery, Owned
    <3>. QED BY <3>1, <3>3, <3>4, Zenon DEF DeliveriesKept
  <2>2. CASE chat'[m].of = u
    <3>1. CASE chat[m].of = u BY <3>1, Zenon DEF Owned
    <3>2. CASE chat[m].of # u
      <4>1. u = cur /\ job.pc = "edit" /\ m = job.msg BY <2>2, <3>2, Zenon DEF ChatKept
      <4>. QED BY <4>1, Zenon DEF AtDelivery, Held, Owned
    <3>. QED BY <3>1, <3>2, Zenon
  <2>. QED BY <2>1, <2>2, Zenon DEF Owned
<1>LostKept.
    ASSUME DeliveriesKept, FlightKept, NEW u \in Update, Lost(u)
    PROVE  Lost(u)'
  <2>. USE <1>LostKept
  <2>1. PICK d \in DOMAIN deliveries :
          deliveries[d].op = u /\ deliveries[d].status # "sent" /\ (InFlight => d # job.dlv)
    BY Zenon DEF Lost
  <2>2. d \in DOMAIN deliveries' /\ deliveries'[d].op = u /\ deliveries'[d].status # "sent"
    BY <2>1, Zenon DEF DeliveriesKept
  <2>3. InFlight' => d # job'.dlv BY <2>1, Zenon DEF FlightKept
  <2>. QED BY <2>2, <2>3, Zenon DEF Lost
<1>RedoneKept.
    ASSUME EndsKept, CleansOn, ConfirmedStays, NEW u \in Update, NEW m, Redone(u, m),
           DeleteReplaced => m # job.msg
    PROVE  Redone(u, m)'
  <2>. USE <1>RedoneKept
  <2>1. PICK x \in Update :
          /\ target[x].turn = u /\ target[x].status \in OpenEnd /\ op[x] \in Confirmed
          /\ x = cur /\ Cleaning => job.pc = "r_delete" /\ m = job.msg
    BY Zenon DEF Redone
  <2>2. target'[x].turn = u /\ target'[x].status \in OpenEnd /\ op'[x] \in Confirmed
    BY <2>1, Zenon DEF EndsKept, ConfirmedStays, Pending
  <2>3. ~(x = cur' /\ Cleaning')
    <3>1. MarkRevoked \/ MarkDeleted => job.pc \in {"v_mark", "c_mark"}
      BY Zenon DEF MarkRevoked, MarkDeleted, At
    <3>. QED BY <2>1, <3>1, Zenon DEF CleansOn, Passes, Pending
  <2>. QED BY <2>2, <2>3, Zenon DEF Redone
<1>AccountStays.
    ASSUME EndsKept, CleansOn, ConfirmedStays, DeliveriesKept, FlightKept, ChatKept,
           NEW u \in Update, NEW m \in DOMAIN chat, Account(u, m),
           \A t \in Update, c \in Chunk : Has(t, c, m)' <=> Has(t, c, m),
           Recording(u, m) => Lost(u)',
           DeleteReplaced /\ m = job.msg => chat'[m].text = "deleted"
    PROVE  Account(u, m)'
  <2>. USE <1>AccountStays
  <2>1. OwnRows(u, m)' BY Zenon DEF Account, OwnRows
  <2>2. ASSUME chat'[m].text # "deleted" PROVE (Tracked(m) \/ Recording(u, m) \/ Lost(u) \/ Redone(u, m))'
    <3>1. chat[m].text # "deleted" BY <2>2, Zenon DEF ChatKept
    <3>2. CASE Tracked(m) BY <3>2, Zenon DEF Tracked
    <3>3. CASE Lost(u) BY <3>3, <1>LostKept, Zenon
    <3>4. CASE Redone(u, m) BY <2>2, <3>4, <1>RedoneKept, Zenon
    <3>. QED BY <3>1, <3>2, <3>3, <3>4, Zenon DEF Account
  <2>. QED BY <2>1, <2>2, Zenon DEF Account
<1>RowsSame.
    ASSUME Safe, Replies, Ledger, Next, ~RecordRow, ~ReplaceRow
    PROVE  \A t \in Update, c \in Chunk : \A m : Has(t, c, m)' <=> Has(t, c, m)
  <2>. USE <1>RowsSame
  <2>1. CASE rows' = rows BY <2>1, Zenon DEF Has
  <2>2. CASE Retires BY <2>2, Zenon DEF Retires, Has
  <2>3. ASSUME NEW t \in Update, NEW c \in Chunk, NEW m, NEW v, WriteRow(t, c, m, v),
               Has(t, c, m)
        PROVE  \A x \in Update, d \in Chunk : \A k : Has(x, d, k)' <=> Has(x, d, k)
    <3>1. rows \in [Update -> [Chunk -> Row]] BY Zenon DEF Ledger, RowsOK
    <3>2. /\ rows'[t][c].msg = m /\ rows'[t][c].life = "active"
          /\ \A x \in Update, d \in Chunk : x # t \/ d # c => rows'[x][d] = rows[x][d]
      BY <2>3, <3>1, Zenon DEF WriteRow
    <3>. QED BY <2>3, <3>2, Zenon DEF Has
  <2>4. CASE UpdateChunk
    <3>1. job.pc = "update" /\ Matches(cur, 1, job.msg) /\ \E v : WriteRow(cur, 1, job.msg, v)
      BY <2>4, Zenon DEF UpdateChunk, At
    <3>2. cur \in Update BY <3>1, AtWork, Zenon
    <3>. QED BY <2>3, <3>1, <3>2, Zenon DEF Matches, Has
  <2>5. CASE RedoUpdate
    <3>1. /\ job.pc = "r_update" /\ Matches(target[cur].turn, job.i, OldMessage)
          /\ \E v : WriteRow(target[cur].turn, job.i, OldMessage, v)
      BY <2>5, Zenon DEF RedoUpdate, At
    <3>2. Cleaning BY <3>1, Zenon DEF Cleaning
    <3>. QED BY <2>3, <3>1, <3>2, CleanedTurn, Zenon DEF Matches, Has
  <2>6. CASE RetireTurn
    <3>1. Cleaning BY <2>6, Zenon DEF RetireTurn, At, Cleaning
    <3>. QED BY <2>2, <2>6, <3>1, CleanedTurn, TurnRetires, Zenon DEF Ledger
  <2>7. CASE MarkRevoked \/ MarkDeleted
    <3>1. RetireMessage(OldMessage) BY <2>7, Zenon DEF MarkRevoked, MarkDeleted
    <3>. QED BY <2>2, <3>1, MessageRetires, Zenon DEF Ledger
  <2>8. CASE \/ MessageAccepted \/ AnswerLost \/ EditPlaceholder \/ EditFails \/ RedoEdit \/ RedoEditFails
             \/ DeleteReplaced \/ DeleteReplacedFails \/ RevokeMessage \/ RevokeCallFails
             \/ DeleteSurplus \/ CleanupFails
    <3>1. rows' = rows
      BY <2>8, Zenon DEF MessageAccepted, AnswerLost, EditPlaceholder, EditFails, RedoEdit, RedoEditFails,
         DeleteReplaced, DeleteReplacedFails, RevokeMessage, RevokeCallFails, DeleteSurplus, CleanupFails,
         tableVars
    <3>. QED BY <2>1, <3>1, Zenon
  <2>. QED BY <2>1, <2>4, <2>5, <2>6, <2>7, <2>8, NextQuiet, Zenon
<1>NextKind. ASSUME Next PROVE kind' = kind
  <2>. USE <1>NextKind
  <2>1. CASE SendStep
    BY <2>1, Zenon DEF SendStep, ReusePlaceholder, SendPlaceholder, CreateDelivery, MarkSending,
       MessageAccepted, MessageRefused, AnswerLost, RecordRow, ReplaceRow, RecordFails, ConfirmSent,
       ConfirmFails, EditPlaceholder, EditFails, UpdateChunk, UpdateChunkFails, Settle, ledgerVars
  <2>2. CASE ExecuteStep
    BY <2>2, Zenon DEF ExecuteStep, ExecuteCommits, ExecuteFails, ExecuteAmbiguous, ExecuteReplays, ledgerVars
  <2>3. CASE TurnStep
    BY <2>3, Zenon DEF TurnStep, AlreadyDone, TargetConflict, FreezeTarget, StartApplying, CheckRevision,
       RetireTurn, RetireFails, RevokeMessage, RevokeCallFails, MarkRevoked, MarkRevokedFails, RedoAssert,
       RedoEdit, RedoUneditable, RedoEditFails, RedoUpdate, RedoUpdateFails, DeleteReplaced,
       DeleteReplacedFails, DeleteSurplus, MarkDeleted, CleanupFails, FinishTarget, FinishUnknown,
       MarkDelivered, ledgerVars
  <2>4. CASE Crash \/ \E u \in Update : Claim(u) \/ Reconcile(u)
    BY <2>4, Zenon DEF Crash, Claim, Reconcile, ledgerVars
  <2>. QED BY <2>1, <2>2, <2>3, <2>4, Zenon DEF Next
(* What a send is sending.                                                    *)
<1>SendSends.
    ASSUME Safe, AtDelivery, job.pc \in {"call", "record"}, kind[cur] = "send"
    PROVE  job.why \in {"placeholder", "chunk"}
  <2>. USE <1>SendSends
  <2>1. job.why \in {"placeholder", "chunk", "redo_chunk", "replace", "notice", "error"}
    BY Zenon DEF Safe, Place, SendLabels
  <2>2. job.why # "error" BY Zenon DEF AtDelivery, Sending, SendLabels
  <2>3. job.why \notin {"redo_chunk", "replace", "notice"}
    BY Zenon DEF Safe, Place, Cleaning, Sending, SendLabels
  <2>. QED BY <2>1, <2>2, <2>3, Zenon
(* Its message may be in the chat, and its delivery says that it is lost.     *)
<1>LosesSend.
    ASSUME Safe, DeliveriesOK, AtDelivery, DeliveriesKept, job.pc \in {"call", "record"}, kind[cur] = "send",
           (SetDelivery("unknown") /\ SendFailed) \/ Crash, NEW u \in Update, u = cur
    PROVE  Lost(u)'
  <2>. USE <1>LosesSend
  <2>1. /\ job.dlv \in DOMAIN deliveries /\ deliveries[job.dlv].op = u
        /\ deliveries[job.dlv].status # "sent"
    BY <1>SendSends, Zenon DEF AtDelivery, InFlight
  <2>2. job.dlv \in DOMAIN deliveries' /\ deliveries'[job.dlv].op = u
    BY <2>1, Zenon DEF DeliveriesKept
  <2>3. DOMAIN job = JobFields BY Zenon DEF Safe, Tables
  <2>4. CASE SetDelivery("unknown") /\ SendFailed
    <3>1. deliveries[job.dlv] \in Delivery /\ deliveries' = [deliveries EXCEPT ![job.dlv].status = "unknown"]
      BY <2>1, <2>4 DEF DeliveriesOK, SetDelivery
    <3>2. deliveries'[job.dlv].status = "unknown" BY <2>1, <3>1, Zenon DEF Delivery
    <3>3. Goto("settle") \/ Leave("failed") BY <2>4, <1>SendSends, Zenon DEF SendFailed
    <3>4. job'.pc \in {"settle", "idle"} BY <2>3, <3>3 DEF Goto, Leave, Idle, JobFields
    <3>5. \E d \in DOMAIN deliveries' :
            deliveries'[d].op = u /\ deliveries'[d].status # "sent" /\ (InFlight' => d # job'.dlv)
      BY <2>2, <3>2, <3>4, Zenon DEF InFlight
    <3>. QED BY <3>5, Zenon DEF Lost
  <2>5. CASE Crash
    <3>1. deliveries' = deliveries /\ job' = Idle BY <2>5, Zenon DEF Crash, Leave, tableVars
    <3>2. job'.pc = "idle" BY <3>1, Zenon DEF Idle
    <3>. QED BY <2>1, <3>1, <3>2, Zenon DEF Lost, InFlight
  <2>. QED BY <2>4, <2>5, Zenon
<1>AtRecord.
    ASSUME Safe, Next, job.pc = "record"
    PROVE  RecordRow \/ ReplaceRow \/ RecordFails \/ Crash
  <2>. USE <1>AtRecord
  <2>1. cur # 0 BY Zenon DEF Safe, Place
  <2>2. ~ExecuteStep
    BY Zenon DEF ExecuteStep, ExecuteCommits, ExecuteFails, ExecuteAmbiguous, ExecuteReplays, Executable, At
  <2>3. ~TurnStep
    BY Zenon DEF TurnStep, AlreadyDone, TargetConflict, FreezeTarget, StartApplying, CheckRevision,
       RetireTurn, RetireFails, RevokeMessage, RevokeCallFails, MarkRevoked, MarkRevokedFails, RedoAssert,
       RedoEdit, RedoUneditable, RedoEditFails, RedoUpdate, RedoUpdateFails, DeleteReplaced,
       DeleteReplacedFails, DeleteSurplus, MarkDeleted, CleanupFails, FinishTarget, FinishUnknown,
       MarkDelivered, At
  <2>4. SendStep => RecordRow \/ ReplaceRow \/ RecordFails
    BY Zenon DEF SendStep, ReusePlaceholder, SendPlaceholder, CreateDelivery, MarkSending, MessageAccepted,
       MessageRefused, AnswerLost, ConfirmSent, ConfirmFails, EditPlaceholder, EditFails, UpdateChunk,
       UpdateChunkFails, Settle, At
  <2>. QED BY <2>1, <2>2, <2>3, <2>4, Zenon DEF Next, Claim, Reconcile
(* The message that is being recorded belongs to the update at work.          *)
<1>RecordedOwner.
    ASSUME AtDelivery, job.pc = "record", NEW u \in Update, Owned(u, Len(chat))
    PROVE  u = cur
  BY <1>RecordedOwner, Zenon DEF AtDelivery, Owned, Held
<1>RecordAccount.
    ASSUME Safe, Replies, Ledger, Books, DeliveriesKept, FlightKept, ChatKept, EndsKept, CleansOn,
           ConfirmedStays, RecordRow,
           NEW u \in Update, kind[u] = "send", NEW m \in DOMAIN chat, Owned(u, m)
    PROVE  Account(u, m)'
  <2>. USE <1>RecordAccount
  <2>1. /\ job.pc = "record" /\ job.why # "replace" /\ rows[RowTurn][RowChunk].life = "none"
        /\ WriteRow(RowTurn, RowChunk, Len(chat), IF job.why = "placeholder" THEN 1 ELSE job.rev + 1)
        /\ UNCHANGED <<chat, cur>>
    BY Zenon DEF RecordRow, At, telegramVars, inboxVars
  <2>2. RowTurn \in Update /\ RowChunk \in Chunk BY <2>1, RecordsRow, Zenon
  <2>3. rows \in [Update -> [Chunk -> Row]] /\ Fresh(Len(chat))
    BY <2>1, Zenon DEF Ledger, RowsOK, JobOK
  <2>4. /\ rows'[RowTurn][RowChunk].msg = Len(chat) /\ rows'[RowTurn][RowChunk].life = "active"
        /\ \A t \in Update, c \in Chunk : t # RowTurn \/ c # RowChunk => rows'[t][c] = rows[t][c]
    BY <2>1, <2>2, <2>3, Zenon DEF WriteRow
  <2>5. CASE m = Len(chat)
    <3>1. u = cur BY <2>1, <2>5, <1>RecordedOwner, Zenon DEF Books
    <3>2. RowTurn = u BY <2>1, <3>1, <1>SendSends, Zenon DEF Books, RowTurn
    <3>3. \A t \in Update, c \in Chunk : ~Has(t, c, m) BY <2>3, <2>5, Zenon DEF Fresh
    <3>4. \A t \in Update, c \in Chunk : Has(t, c, m)' => t = RowTurn BY <2>4, <3>3 DEF Has
    <3>5. Tracked(m)' BY <2>2, <2>4, <2>5, Zenon DEF Tracked, Has
    <3>6. OwnRows(u, m)' BY <3>2, <3>4, Zenon DEF OwnRows
    <3>. QED BY <3>5, <3>6, Zenon DEF Account
  <2>6. CASE m # Len(chat)
    <3>1. \A t \in Update, c \in Chunk : Has(t, c, m)' <=> Has(t, c, m)
      BY <2>1, <2>2, <2>4, <2>6, Zenon DEF Has
    <3>2. ~Recording(u, m) BY <2>6, Zenon DEF Recording
    <3>3. ~DeleteReplaced BY <2>1, Zenon DEF DeleteReplaced, At
    <3>4. Account(u, m) BY Zenon DEF Books, Accounts
    <3>. QED BY <3>1, <3>2, <3>3, <3>4, <1>AccountStays, Zenon
  <2>. QED BY <2>5, <2>6, Zenon
<1>ReplaceAccount.
    ASSUME Safe, Replies, Ledger, Books, DeliveriesKept, FlightKept, ChatKept, EndsKept, CleansOn,
           ConfirmedStays, ReplaceRow,
           NEW u \in Update, kind[u] = "send", NEW m \in DOMAIN chat, Owned(u, m)
    PROVE  Account(u, m)'
  <2>. USE <1>ReplaceAccount
  <2>1. /\ job.pc = "record" /\ job.why = "replace" /\ Matches(target[cur].turn, job.i, job.msg)
        /\ WriteRow(target[cur].turn, job.i, Len(chat), job.rev + 1)
        /\ Goto("r_delete") /\ UNCHANGED <<chat, cur, target, op>>
    BY Zenon DEF ReplaceRow, At, telegramVars, inboxVars, ledgerVars
  <2>2. Cleaning BY <2>1, ZenonT(30) DEF Cleaning, Sending, SendLabels
  <2>3. /\ cur \in Update /\ target[cur].turn \in Update /\ kind[cur] # "send"
        /\ target[cur].status = "applying" /\ op[cur] = "committed"
    BY <2>2, CleanedTurn DEF Safe, Place
  <2>4. rows \in [Update -> [Chunk -> Row]] BY Zenon DEF Ledger, RowsOK
  <2>5. PICK x \in Update : x = target[cur].turn BY <2>3, Zenon
  <2>6. PICK k \in Chunk : k = job.i BY <2>1, Zenon DEF Matches
  <2>7. Has(x, k, job.msg) /\ \A t \in Update : \A j : j # job.msg => ~Has(x, k, j)
    BY <2>1, <2>5, <2>6, Zenon DEF Matches, Has
  <2>8. /\ rows'[x][k].msg = Len(chat)
        /\ \A t \in Update, c \in Chunk : t # x \/ c # k => rows'[t][c] = rows[t][c]
    BY <2>1, <2>4, <2>5, <2>6, Zenon DEF WriteRow
  <2>9. m # Len(chat)
    <3>1. CASE m = Len(chat)
      <4>1. u = cur BY <2>1, <3>1, <1>RecordedOwner, Zenon DEF Books
      <4>. QED BY <2>3, <4>1, Zenon
    <3>. QED BY <3>1, Zenon
  <2>10. Account(u, m) BY Zenon DEF Books, Accounts
  <2>11. ~Recording(u, m) BY <2>9, Zenon DEF Recording
  <2>12. CASE m = job.msg
    <3>1. x = u BY <2>7, <2>10, <2>12, Zenon DEF Account, OwnRows
    <3>2. \A t \in Update, c \in Chunk : Has(t, c, m)' => Has(t, c, m) BY <2>8, <2>9, Zenon DEF Has
    <3>3. OwnRows(u, m)' BY <2>10, <3>2, Zenon DEF Account, OwnRows
    <3>4. job'.pc = "r_delete" /\ job'.msg = job.msg
      BY <2>1, Zenon DEF Goto, Safe, Tables, JobFields
    <3>5. Redone(u, m)' BY <2>1, <2>3, <2>5, <2>12, <3>1, <3>4, Zenon DEF Redone, OpenEnd, Confirmed
    <3>. QED BY <3>3, <3>5, Zenon DEF Account
  <2>13. CASE m # job.msg
    <3>1. \A t \in Update, c \in Chunk : Has(t, c, m)' <=> Has(t, c, m)
      BY <2>7, <2>8, <2>9, <2>13, Zenon DEF Has
    <3>2. ~DeleteReplaced BY <2>1, Zenon DEF DeleteReplaced, At
    <3>. QED BY <2>10, <2>11, <3>1, <3>2, <1>AccountStays, Zenon
  <2>. QED BY <2>12, <2>13, Zenon
<1>OldAccount.
    ASSUME Safe, Replies, Ledger, Books, DeliveriesKept, FlightKept, ChatKept, EndsKept, CleansOn,
           ConfirmedStays, Next, ~RecordRow, ~ReplaceRow,
           NEW u \in Update, kind[u] = "send", NEW m \in DOMAIN chat, Owned(u, m)
    PROVE  Account(u, m)'
  <2>. USE <1>OldAccount
  <2>1. Account(u, m) BY Zenon DEF Books, Accounts
  <2>2. \A t \in Update, c \in Chunk : Has(t, c, m)' <=> Has(t, c, m) BY <1>RowsSame, Zenon
  <2>3. ASSUME Recording(u, m) PROVE Lost(u)'
    <3>1. job.pc = "record" /\ cur = u BY <2>3, Zenon DEF Recording
    <3>2. (SetDelivery("unknown") /\ SendFailed) \/ Crash
      BY <3>1, <1>AtRecord, Zenon DEF RecordFails
    <3>. QED BY <3>1, <3>2, <1>LosesSend, Zenon DEF Books
  <2>4. ASSUME DeleteReplaced, m = job.msg PROVE chat'[m].text = "deleted"
    <3>1. chat' = [chat EXCEPT ![m] = Deleted(m)] BY <2>4, Zenon DEF DeleteReplaced, Deletes, Shows
    <3>2. chat \in Seq(Message) BY Zenon DEF Replies
    <3>3. chat'[m] = Deleted(m) BY <3>1, <3>2, Zenon
    <3>4. Deleted(m).text = "deleted" BY <3>2 DEF Deleted, Message
    <3>. QED BY <3>3, <3>4, Zenon
  <2>. QED BY <2>1, <2>2, <2>3, <2>4, <1>AccountStays, Zenon
<1>NewMessages.
    ASSUME Replies, Next
    PROVE  DOMAIN chat' = DOMAIN chat \/ MessageAccepted \/ AnswerLost
  <2>. USE <1>NewMessages
  <2>1. ASSUME NEW p, NEW x, chat' = [chat EXCEPT ![p] = x] PROVE DOMAIN chat' = DOMAIN chat
    BY <2>1, Zenon DEF Replies
  <2>2. CASE \/ EditPlaceholder \/ EditFails \/ RedoEdit \/ RedoEditFails
             \/ DeleteReplaced \/ DeleteReplacedFails \/ RevokeMessage \/ RevokeCallFails
             \/ DeleteSurplus \/ CleanupFails
    <3>1. chat' = chat \/ \E p, x : chat' = [chat EXCEPT ![p] = x]
      BY <2>2, Zenon DEF EditPlaceholder, EditFails, RedoEdit, RedoEditFails, DeleteReplaced,
         DeleteReplacedFails, RevokeMessage, RevokeCallFails, DeleteSurplus, CleanupFails, Revokes, Deletes,
         Shows, telegramVars
    <3>. QED BY <2>1, <3>1, Zenon
  <2>3. CASE \/ RecordRow \/ ReplaceRow \/ UpdateChunk \/ RedoUpdate
             \/ RetireTurn \/ MarkRevoked \/ MarkDeleted
    BY <2>3, Zenon DEF RecordRow, ReplaceRow, UpdateChunk, RedoUpdate, RetireTurn, MarkRevoked,
       MarkDeleted, telegramVars
  <2>. QED BY <2>2, <2>3, NextQuiet, Zenon
<1>NewAccount.
    ASSUME Safe, Replies, Ledger, Books, DeliveriesKept, MessageAccepted \/ AnswerLost,
           NEW u \in Update, kind[u] = "send", NEW m \in DOMAIN chat', m \notin DOMAIN chat, Owned(u, m)'
    PROVE  Account(u, m)'
  <2>. USE <1>NewAccount
  <2>1. job.pc = "call" /\ chat' = Append(chat, Says) /\ rows' = rows
    BY Zenon DEF MessageAccepted, AnswerLost, At, tableVars
  <2>2. /\ chat \in Seq(Message) /\ Says \in Message /\ Says.of = cur /\ Says.text # "deleted"
    BY <2>1, SaysMessage, Zenon DEF Replies
  <2>3. m = Len(chat') /\ chat'[m] = Says BY <2>1, <2>2
  <2>4. ~Held(u, m)'
    <3>1. \A d \in DOMAIN deliveries' : Placeholder(d)' => deliveries'[d].msg # m
      BY <2>1 DEF DeliveriesKept, Books, DeliveriesOK
    <3>. QED BY <3>1, ZenonT(30) DEF Held
  <2>5. u = cur BY <2>2, <2>3, <2>4, Zenon DEF Owned
  <2>6. \A t \in Update, c \in Chunk : ~Has(t, c, m)' BY <2>1 DEF Ledger, RowsOK, Has
  <2>7. job.why \in {"placeholder", "chunk"} BY <2>1, <2>5, <1>SendSends, Zenon DEF Books
  <2>8. CASE MessageAccepted
    <3>1. Goto(IF HasRow THEN "record" ELSE "confirm") /\ cur' = cur
      BY <2>8, Zenon DEF MessageAccepted, inboxVars
    <3>2. job'.pc = "record" BY <2>7, <3>1, Zenon DEF Goto, HasRow, Safe, Tables, JobFields
    <3>3. Recording(u, m)' BY <2>3, <2>5, <3>1, <3>2, Zenon DEF Recording
    <3>. QED BY <2>6, <3>3, Zenon DEF Account, OwnRows
  <2>9. CASE AnswerLost
    <3>1. SetDelivery("unknown") /\ SendFailed BY <2>9, Zenon DEF AnswerLost
    <3>2. Lost(u)' BY <2>1, <2>5, <3>1, <1>LosesSend, Zenon DEF Books
    <3>. QED BY <2>6, <3>2, Zenon DEF Account, OwnRows
  <2>. QED BY <2>8, <2>9, Zenon
<1>. SUFFICES ASSUME Safe, Replies, Ledger, Books, DeliveriesKept, FlightKept, ChatKept, EndsKept,
                     CleansOn, ConfirmedStays, Next
              PROVE  Accounts'
  BY Zenon
<1>1. kind' = kind BY <1>NextKind, Zenon
<1>2. SUFFICES ASSUME NEW u \in Update, NEW m \in DOMAIN chat', kind[u] = "send", Owned(u, m)'
               PROVE  Account(u, m)'
  BY <1>1, Zenon DEF Accounts
<1>3. CASE m \in DOMAIN chat
  <2>1. Owned(u, m) BY <1>2, <1>3, <1>OwnedBefore, Zenon DEF Books
  <2>. QED BY <1>2, <1>3, <2>1, <1>RecordAccount, <1>ReplaceAccount, <1>OldAccount
<1>4. CASE m \notin DOMAIN chat
  <2>1. MessageAccepted \/ AnswerLost BY <1>2, <1>4, <1>NewMessages, Zenon
  <2>. QED BY <1>2, <1>4, <2>1, <1>NewAccount, Zenon
<1>. QED BY <1>3, <1>4, Zenon

(* There are no deliveries at the start.                                      *)
LEMMA InitBooks == Init => Books
<1>. SUFFICES ASSUME Init PROVE Books
  BY Zenon
<1>1. DeliveriesOK BY DEF Init, DeliveriesOK
<1>2. Completed BY Zenon DEF Init, Completed
<1>3. AtDelivery BY Zenon DEF Init, AtDelivery, Idle, Sending, SendLabels, InFlight
<1>4. Accounts BY DEF Init, Accounts
<1>. QED BY <1>1, <1>2, <1>3, <1>4, Zenon DEF Books

(* Every step keeps the books.                                                *)
LEMMA NextBooks == Safe /\ Replies /\ Ledger /\ Books /\ [Next]_vars => Books'
<1>SameBooks. ASSUME Books, UNCHANGED vars PROVE Books'
  <2>. USE <1>SameBooks
  <2>1. UNCHANGED <<kind, op, chat, deliveries, rows, target, inbox, cur, job>>
    BY Zenon DEF vars, ledgerVars, telegramVars, tableVars, inboxVars
  <2>2. DeliveriesOK' BY <2>1, Zenon DEF Books, DeliveriesOK, Placeholder
  <2>3. Completed' BY <2>1 DEF Books, Completed, AllSent, Deliveries
  <2>4. AtDelivery' BY <2>1, Zenon DEF Books, AtDelivery, Sending, InFlight, Placeholder
  <2>5. Accounts'
    BY <2>1 DEF Books, Accounts, Account, Owned, Held, Placeholder, OwnRows, Has, Tracked, Recording, Lost,
       InFlight, Redone, Cleaning, Sending
  <2>. QED BY <2>2, <2>3, <2>4, <2>5, Zenon DEF Books
(* What a step does to the account of a message.                              *)
<1>NextDeliveriesOK.
    ASSUME Replies, DeliveriesOK, AtDelivery, DeliveriesKept, ChatGrows
    PROVE  DeliveriesOK'
  <2>. USE <1>NextDeliveriesOK
  <2>1. chat \in Seq(Message) BY Zenon DEF Replies
  <2>2. DOMAIN chat \subseteq DOMAIN chat' BY <2>1 DEF ChatGrows
  <2>3. ASSUME NEW d \in DOMAIN deliveries', Placeholder(d)'
        PROVE  deliveries'[d].msg \in DOMAIN chat'
    <3>1. CASE d \in DOMAIN deliveries /\ Placeholder(d) /\ deliveries'[d].msg = deliveries[d].msg
      BY <2>2, <3>1, Zenon DEF DeliveriesOK
    <3>2. CASE job.pc \in {"record", "confirm"} /\ deliveries'[d].msg = Len(chat)
      <4>1. chat # <<>> BY <3>2, Zenon DEF AtDelivery
      <4>2. Len(chat) \in DOMAIN chat BY <2>1, <4>1
      <4>. QED BY <2>2, <3>2, <4>2, Zenon
    <3>. QED BY <2>3, <3>1, <3>2, Zenon DEF DeliveriesKept
  <2>. QED BY <2>3, Zenon DEF DeliveriesOK, DeliveriesKept
<1>. SUFFICES ASSUME Safe, Replies, Ledger, Books, [Next]_vars PROVE Books'
  BY Zenon
<1>1. CASE UNCHANGED vars BY <1>1, <1>SameBooks, Zenon
<1>2. CASE Next
  <2>1. ConfirmedStays /\ Replies' /\ ChatGrows BY NextKeeps, NextReplies, NextChat, Zenon DEF Keeps
  <2>2. EndsKept /\ CleansOn BY <1>2, NextEnds, Zenon
  <2>3. DeliveriesKept BY <1>2, NextDeliveries, Zenon DEF Books
  <2>4. ChatKept BY <1>2, NextChatKept, Zenon
  <2>5. AtDelivery' /\ FlightKept BY <1>2, <2>3, NextAt, Zenon DEF Books
  <2>6. DeliveriesOK' BY <2>1, <2>3, <1>NextDeliveriesOK, Zenon DEF Books
  <2>7. Completed' BY <1>2, <2>3, NextCompleted, Zenon DEF Books
  <2>8. Accounts' BY <1>2, <2>1, <2>2, <2>3, <2>4, <2>5, NextAccounts, Zenon
  <2>. QED BY <2>5, <2>6, <2>7, <2>8, Zenon DEF Books
<1>. QED BY <1>1, <1>2, Zenon

(* A send counts as complete only if every message of it that the chat still  *)
(* shows has its row, unless a redo of it was left unfinished                 *)
(* (process_and_deliver's check of the deliveries).                           *)
THEOREM CompleteSendsAreTracked == Spec => []CompleteSendIsTracked
<1>1. Books => CompleteSendIsTracked
  <2>1. SUFFICES ASSUME Books, NEW u \in Update, kind[u] = "send", inbox[u] = "processed",
                        op[u] = "delivered", Unfinished(u) = {},
                        NEW m \in DOMAIN chat, chat[m].of = u, chat[m].text # "deleted"
                 PROVE  \E t \in Update, c \in Chunk : rows[t][c].msg = m
    BY Zenon DEF CompleteSendIsTracked
  <2>2. Tracked(m) \/ Recording(u, m) \/ Lost(u) \/ Redone(u, m)
    BY <2>1, Zenon DEF Books, Accounts, Owned, Account
  <2>3. ~Recording(u, m) BY <2>1 DEF Books, Completed, Recording, Update
  <2>4. ~Lost(u) BY <2>1, Zenon DEF Books, Completed, Lost, AllSent, Deliveries
  <2>5. ~Redone(u, m) BY <2>1, Zenon DEF Redone, Unfinished, OpenEnd
  <2>. QED BY <2>2, <2>3, <2>4, <2>5, Zenon DEF Tracked, Has
<1>. DEFINE Inv == Safe /\ Replies /\ Ledger /\ Books
<1>2. Init => Inv BY InitSafe, InitReplies, InitLedger, InitBooks, Zenon
<1>3. Inv /\ [Next]_vars => Inv' BY NextKeeps, NextReplies, NextLedger, NextBooks, Zenon DEF Keeps
<1>. QED BY <1>1, <1>2, <1>3, PTL DEF Spec
=============================================================================
