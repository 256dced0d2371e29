---------------------------- MODULE PollerLifecycle ----------------------------
(***************************************************************************)
(* Starting and stopping the poller of one Telegram bot in one process:    *)
(* TelegramModule::start_bot, claim_numeric_bot, stop_bot, the poll task,  *)
(* finalize_poller_exit, and the ownership registry at the Connector.      *)
(*                                                                         *)
(* Requests run concurrently.  Every start draws a fresh runtime instance  *)
(* id, so a start is identified with its instance.  Three places record a  *)
(* running poller: the map of numeric bot ids (active), the map of         *)
(* runtimes (entry), and the binding at the registry.                      *)
(***************************************************************************)
EXTENDS Naturals

CONSTANTS
    Inst,           \* runtime instances, one per call of start_bot
    None,           \* no instance
    Stopper,        \* calls of stop_bot
    MaxTransfers,   \* bound: transfers of the ownership
    MaxRegistry,    \* bound: failed calls of the registry
    MaxPanics,      \* bound: panics of the poll task
    MaxStorage,     \* bound: failed reads of the offset when a poller starts
    MaxDrops        \* bound: start requests whose client goes away

ASSUME NoneAssumption == None \notin Inst
ASSUME LifecycleBounds ==
    /\ MaxTransfers \in Nat /\ MaxRegistry \in Nat /\ MaxPanics \in Nat
    /\ MaxStorage \in Nat /\ MaxDrops \in Nat

VARIABLES
    record,         \* PollerOwnershipRecord at the registry
    binding,        \* the instance of the PollerRuntimeBinding at the registry
    active,         \* active_numeric_bots
    entry,          \* runtime: the instance of the bot's BotRuntime
    joinable,       \* the entry still has its JoinHandle
    start,          \* start[i]: where start_bot is
    epoch,          \* epoch[i]: the ownership epoch instance i claims
    life,           \* life[i]: lifecycle of the instance's guard
    poller,         \* poller[i]: the poll task
    fin,            \* fin[i]: where finalize_poller_exit is
    stop,           \* stop[k]: where stop_bot is
    target,         \* target[k]: the instance stop_bot waits for
    transfers, registryFaults, panics, storage, drops

placeVars == <<active, entry, joinable>>
instVars == <<start, epoch, life, poller, fin>>
stopVars == <<stop, target>>
faultVars == <<transfers, registryFaults, panics, storage, drops>>
vars == <<record, binding, placeVars, instVars, stopVars, faultVars>>

StartLabels == {"idle", "get_me", "reserved", "read", "asserted", "bound", "enabled",
                "cleanup", "done", "failed"}

(* The types; a JoinHandle exists only inside a runtime entry. *)
TypeOK ==
    /\ record \in [owner : {"legacy", "rust"}, epoch : Nat]
    /\ binding \in Inst \cup {None} /\ active \in Inst \cup {None} /\ entry \in Inst \cup {None}
    /\ joinable \in BOOLEAN /\ (joinable => entry # None)
    /\ start \in [Inst -> StartLabels]
    /\ epoch \in [Inst -> Nat]
    /\ life \in [Inst -> {"none", "running", "draining", "stopped"}]
    /\ poller \in [Inst -> {"none", "starting", "loop", "leaving", "panicked", "gone"}]
    /\ fin \in [Inst -> {"none", "release", "active", "entry", "done"}]
    /\ stop \in [Stopper -> {"idle", "join", "finalize", "done"}]
    /\ target \in [Stopper -> Inst \cup {None}]
    /\ transfers \in Nat /\ registryFaults \in Nat /\ panics \in Nat /\ storage \in Nat /\ drops \in Nat

Init ==
    /\ record = [owner |-> "rust", epoch |-> 1]
    /\ binding = None /\ active = None /\ entry = None /\ joinable = FALSE
    /\ start = [i \in Inst |-> "idle"]
    /\ epoch = [i \in Inst |-> 0]
    /\ life = [i \in Inst |-> "none"]
    /\ poller = [i \in Inst |-> "none"]
    /\ fin = [i \in Inst |-> "none"]
    /\ stop = [k \in Stopper |-> "idle"]
    /\ target = [k \in Stopper |-> None]
    /\ transfers = 0 /\ registryFaults = 0 /\ panics = 0 /\ storage = 0 /\ drops = 0
------------------------------------------------------------------------------
RegistryFault ==
    /\ registryFaults < MaxRegistry /\ registryFaults' = registryFaults + 1
    /\ UNCHANGED <<transfers, panics, storage, drops>>

StartAt(i, from, to) == start[i] = from /\ start' = [start EXCEPT ![i] = to]

(* release_numeric_bot_instance: only the instance's own claim. *)
ReleaseActive(i) == active' = IF active = i THEN None ELSE active

(* Mutant: the fence does not compare the ownership record. *)
FenceWithoutRecord(i) == life[i] = "running" /\ binding = i

(* assert_fence with the guard's binding *)
FenceValid(i) ==
    /\ life[i] = "running"
    /\ record = [owner |-> "rust", epoch |-> epoch[i]]
    /\ binding = i
------------------------------------------------------------------------------
(* start_bot *)

(* The bot is not in the runtime map; getMe is sent. *)
CheckRunning(i) ==
    /\ StartAt(i, "idle", "get_me") /\ entry = None
    /\ UNCHANGED <<record, binding, placeVars, epoch, life, poller, fin, stopVars, faultVars>>

(* BOT_ALREADY_RUNNING; getMe failed; the numeric id is already active. *)
StartRefused(i) ==
    /\ \/ StartAt(i, "idle", "failed") /\ entry # None
       \/ StartAt(i, "get_me", "failed")
    /\ UNCHANGED <<record, binding, placeVars, epoch, life, poller, fin, stopVars, faultVars>>

(* claim_numeric_bot reserves the numeric id before it asks the registry. *)
ReserveNumericId(i) ==
    /\ StartAt(i, "get_me", "reserved") /\ active = None
    /\ active' = i
    /\ UNCHANGED <<record, binding, entry, joinable, epoch, life, poller, fin, stopVars, faultVars>>

ReadEpoch(i) ==
    /\ StartAt(i, "reserved", "read")
    /\ epoch' = [epoch EXCEPT ![i] = record.epoch]
    /\ UNCHANGED <<record, binding, placeVars, life, poller, fin, stopVars, faultVars>>

MayStart(i) == record = [owner |-> "rust", epoch |-> epoch[i]]

AssertCanStart(i) ==
    /\ StartAt(i, "read", "asserted") /\ MayStart(i)
    /\ UNCHANGED <<record, binding, placeVars, epoch, life, poller, fin, stopVars, faultVars>>

(* claim_runtime: the registry checks owner and epoch again, and that nobody is bound. *)
ClaimRuntime(i) ==
    /\ StartAt(i, "asserted", "bound") /\ MayStart(i) /\ binding = None
    /\ binding' = i
    /\ life' = [life EXCEPT ![i] = "running"]
    /\ UNCHANGED <<record, placeVars, epoch, poller, fin, stopVars, faultVars>>

(* Mutant: the numeric id stays reserved. *)
ClaimRejectedKeepsId(i) ==
    /\ start[i] \in {"read", "asserted"} /\ start' = [start EXCEPT ![i] = "failed"]
    /\ ~MayStart(i)
    /\ UNCHANGED <<record, binding, placeVars, epoch, life, poller, fin, stopVars, faultVars>>

(* A refusal or a failure of the registry gives the numeric id back. *)
ClaimRejected(i) ==
    /\ \/ StartAt(i, "read", "failed") /\ ~MayStart(i) /\ UNCHANGED faultVars
       \/ StartAt(i, "asserted", "failed") /\ ~(MayStart(i) /\ binding = None) /\ UNCHANGED faultVars
       \/ \E from \in {"reserved", "read", "asserted"} : StartAt(i, from, "failed") /\ RegistryFault
    /\ ReleaseActive(i)
    /\ UNCHANGED <<record, binding, entry, joinable, epoch, life, poller, fin, stopVars>>

(* The registry bound the instance and the answer was lost: start_bot takes  *)
(* it for a refusal and does not release the binding.                        *)
ClaimAnswerLost(i) ==
    /\ StartAt(i, "asserted", "failed") /\ MayStart(i) /\ binding = None
    /\ RegistryFault
    /\ binding' = i
    /\ ReleaseActive(i)
    /\ UNCHANGED <<record, entry, joinable, epoch, life, poller, fin, stopVars>>

(* desired_enabled = 1 *)
EnableBot(i) ==
    /\ StartAt(i, "bound", "enabled")
    /\ UNCHANGED <<record, binding, placeVars, epoch, life, poller, fin, stopVars, faultVars>>

(* The UPDATE failed: start_bot itself finalizes. *)
EnableFails(i) ==
    /\ StartAt(i, "bound", "cleanup")
    /\ life' = [life EXCEPT ![i] = "stopped"]
    /\ fin' = [fin EXCEPT ![i] = "release"]
    /\ UNCHANGED <<record, binding, placeVars, epoch, poller, stopVars, faultVars>>

(* The poll task is spawned, the runtime entry written, the task let go. *)
InsertRuntime(i) ==
    /\ StartAt(i, "enabled", "done")
    /\ entry' = i /\ joinable' = TRUE
    /\ poller' = [poller EXCEPT ![i] = "starting"]
    /\ UNCHANGED <<record, binding, active, epoch, life, fin, stopVars, faultVars>>

Drop ==
    /\ drops < MaxDrops /\ drops' = drops + 1
    /\ UNCHANGED <<transfers, registryFaults, panics, storage>>

(* The client goes away and the request's future is dropped at an await: what *)
(* it claimed stays claimed, and a finalization it runs is abandoned.          *)
DropStart(i) ==
    /\ start[i] \in {"get_me", "reserved", "read", "asserted", "bound", "cleanup"}
    /\ start' = [start EXCEPT ![i] = "failed"]
    /\ fin' = [fin EXCEPT ![i] = "none"]
    /\ Drop
    /\ UNCHANGED <<record, binding, placeVars, epoch, life, poller, stopVars>>

(* Dropped at the lock of the runtime map: the spawned task finalizes itself. *)
DropBeforeInsert(i) ==
    /\ StartAt(i, "enabled", "failed")
    /\ poller' = [poller EXCEPT ![i] = "leaving"]
    /\ life' = [life EXCEPT ![i] = "stopped"]
    /\ fin' = [fin EXCEPT ![i] = "release"]
    /\ Drop
    /\ UNCHANGED <<record, binding, placeVars, epoch, stopVars>>
------------------------------------------------------------------------------
(* The poll task. *)

EnterLoop(i) ==
    /\ poller[i] = "starting"
    /\ poller' = [poller EXCEPT ![i] = "loop"]
    /\ UNCHANGED <<record, binding, placeVars, start, epoch, life, fin, stopVars, faultVars>>

(* The offset could not be read: `?` returns from the task. *)
OffsetReadFails(i) ==
    /\ poller[i] = "starting"
    /\ storage < MaxStorage /\ storage' = storage + 1
    /\ poller' = [poller EXCEPT ![i] = "gone"]
    /\ UNCHANGED <<record, binding, placeVars, start, epoch, life, fin, stopVars,
                   transfers, registryFaults, panics, drops>>

(* No HTTP client: the task finalizes and returns. *)
ClientBuildFails(i) ==
    /\ poller[i] = "starting"
    /\ poller' = [poller EXCEPT ![i] = "leaving"]
    /\ life' = [life EXCEPT ![i] = "stopped"]
    /\ fin' = [fin EXCEPT ![i] = "release"]
    /\ UNCHANGED <<record, binding, placeVars, start, epoch, stopVars, faultVars>>

(* Cancelled, or assert_valid failed (also when the registry did not answer):  *)
(* finalize_poller_exit begins with begin_draining and mark_stopped.           *)
LeaveLoop(i) ==
    /\ poller[i] = "loop"
    /\ \/ ~FenceValid(i) /\ UNCHANGED faultVars
       \/ RegistryFault
    /\ poller' = [poller EXCEPT ![i] = "leaving"]
    /\ life' = [life EXCEPT ![i] = "stopped"]
    /\ fin' = [fin EXCEPT ![i] = "release"]
    /\ UNCHANGED <<record, binding, placeVars, start, epoch, stopVars>>

PollerPanics(i) ==
    /\ poller[i] \in {"starting", "loop"}
    /\ panics < MaxPanics /\ panics' = panics + 1
    /\ poller' = [poller EXCEPT ![i] = "panicked"]
    /\ UNCHANGED <<record, binding, placeVars, start, epoch, life, fin, stopVars,
                   transfers, registryFaults, storage, drops>>
------------------------------------------------------------------------------
(* finalize_poller_exit: the registry, the numeric id, the runtime entry. *)

FinAt(i, from, to) == fin[i] = from /\ fin' = [fin EXCEPT ![i] = to]

(* release_runtime frees the instance's own binding only.  An error is      *)
(* remembered and does not stop the cleanup.                                *)
ReleaseBinding(i) ==
    /\ FinAt(i, "release", "active")
    /\ \/ binding' = (IF binding = i THEN None ELSE binding) /\ UNCHANGED faultVars
       \/ binding' \in {binding, IF binding = i THEN None ELSE binding} /\ RegistryFault
    /\ UNCHANGED <<record, placeVars, start, epoch, life, poller, stopVars>>

ReleaseNumericId(i) ==
    /\ FinAt(i, "active", "entry")
    /\ ReleaseActive(i)
    /\ UNCHANGED <<record, binding, entry, joinable, start, epoch, life, poller, stopVars, faultVars>>

(* Mutant: whatever entry the bot has is removed. *)
RemoveAnyEntry(i) ==
    /\ FinAt(i, "entry", "done")
    /\ entry' = None /\ joinable' = FALSE
    /\ poller' = [poller EXCEPT ![i] = IF @ = "leaving" THEN "gone" ELSE @]
    /\ UNCHANGED <<record, binding, active, start, epoch, life, stopVars, faultVars>>

(* The entry is removed unless a later start replaced it. *)
RemoveEntry(i) ==
    /\ FinAt(i, "entry", "done")
    /\ entry' = IF entry = i THEN None ELSE entry
    /\ joinable' = IF entry = i THEN FALSE ELSE joinable
    /\ poller' = [poller EXCEPT ![i] = IF @ = "leaving" THEN "gone" ELSE @]
    /\ UNCHANGED <<record, binding, active, start, epoch, life, stopVars, faultVars>>
------------------------------------------------------------------------------
(* stop_bot *)

StopAt(k, from, to) == stop[k] = from /\ stop' = [stop EXCEPT ![k] = to]

CanBeStopped == entry # None /\ life[entry] # "stopped" /\ joinable

(* The entry's guard begins to drain, the task is cancelled, its handle taken. *)
BeginStop(k) ==
    /\ StopAt(k, "idle", "join") /\ CanBeStopped
    /\ life' = [life EXCEPT ![entry] = "draining"]
    /\ target' = [target EXCEPT ![k] = entry]
    /\ joinable' = FALSE
    /\ UNCHANGED <<record, binding, active, entry, start, epoch, poller, fin, faultVars>>

(* No entry; a guard that is stopped already; a handle another stop has taken. *)
StopReturns(k) ==
    /\ StopAt(k, "idle", "done") /\ ~CanBeStopped
    /\ UNCHANGED <<record, binding, placeVars, instVars, target, faultVars>>

JoinPoller(k) ==
    /\ StopAt(k, "join", "done") /\ poller[target[k]] = "gone"
    /\ UNCHANGED <<record, binding, placeVars, instVars, target, faultVars>>

(* Mutant: the join is given up and the task finalized while it may still run. *)
JoinGivenUp(k) ==
    /\ StopAt(k, "join", "finalize") /\ poller[target[k]] \in {"loop", "panicked"}
    /\ life' = [life EXCEPT ![target[k]] = "stopped"]
    /\ fin' = [fin EXCEPT ![target[k]] = "release"]
    /\ UNCHANGED <<record, binding, placeVars, start, epoch, poller, target, faultVars>>

(* Mutant: the error of the join is only logged. *)
JoinErrorLogged(k) ==
    /\ StopAt(k, "join", "done") /\ poller[target[k]] = "panicked"
    /\ poller' = [poller EXCEPT ![target[k]] = "gone"]
    /\ UNCHANGED <<record, binding, placeVars, start, epoch, life, fin, target, faultVars>>

(* The task panicked: stop_bot finalizes in its place. *)
JoinPanicked(k) ==
    /\ StopAt(k, "join", "finalize") /\ poller[target[k]] = "panicked"
    /\ life' = [life EXCEPT ![target[k]] = "stopped"]
    /\ fin' = [fin EXCEPT ![target[k]] = "release"]
    /\ UNCHANGED <<record, binding, placeVars, start, epoch, poller, target, faultVars>>

FallbackDone(k) ==
    /\ StopAt(k, "finalize", "done") /\ fin[target[k]] = "done"
    /\ poller' = [poller EXCEPT ![target[k]] = "gone"]
    /\ UNCHANGED <<record, binding, placeVars, start, epoch, life, fin, target, faultVars>>

(* The client of a stop goes away: nobody joins the task any more, and the   *)
(* finalization of a panicked task is abandoned.                             *)
DropStop(k) ==
    /\ stop[k] \in {"join", "finalize"}
    /\ stop' = [stop EXCEPT ![k] = "done"]
    /\ fin' = [fin EXCEPT ![target[k]] = IF stop[k] = "finalize" THEN "none" ELSE @]
    /\ Drop
    /\ UNCHANGED <<record, binding, placeVars, start, epoch, life, poller, target>>
------------------------------------------------------------------------------
(* The registry's operator moves the ownership (transfer): a new epoch, the  *)
(* binding stays.                                                            *)
Transfer ==
    /\ transfers < MaxTransfers /\ transfers' = transfers + 1
    /\ record' = [owner |-> IF record.owner = "rust" THEN "legacy" ELSE "rust",
                  epoch |-> record.epoch + 1]
    /\ UNCHANGED <<binding, placeVars, instVars, stopVars, registryFaults, panics, storage, drops>>
------------------------------------------------------------------------------
StartStep(i) ==
    \/ CheckRunning(i) \/ StartRefused(i) \/ ReserveNumericId(i) \/ ReadEpoch(i)
    \/ AssertCanStart(i) \/ ClaimRuntime(i) \/ ClaimRejected(i) \/ ClaimAnswerLost(i)
    \/ EnableBot(i) \/ EnableFails(i) \/ InsertRuntime(i)

PollerStep(i) ==
    \/ EnterLoop(i) \/ ClientBuildFails(i) \/ LeaveLoop(i)
    \/ ReleaseBinding(i) \/ ReleaseNumericId(i) \/ RemoveEntry(i)

StopStep(k) == BeginStop(k) \/ StopReturns(k)
WaitStep(k) == JoinPoller(k) \/ JoinPanicked(k) \/ FallbackDone(k)

Next ==
    \/ \E i \in Inst :
          \/ StartStep(i) \/ DropStart(i) \/ DropBeforeInsert(i)
          \/ PollerStep(i) \/ OffsetReadFails(i) \/ PollerPanics(i)
    \/ \E k \in Stopper : StopStep(k) \/ WaitStep(k) \/ DropStop(k)
    \/ Transfer

Spec == Init /\ [][Next]_vars

(* Tokio polls the tasks and the requests that wait; nobody has to call.    *)
Fairness ==
    /\ \A i \in Inst : WF_vars(PollerStep(i))
    /\ \A k \in Stopper : WF_vars(WaitStep(k))

LiveSpec == Spec /\ Fairness
------------------------------------------------------------------------------
Claiming(i) == start[i] \in {"reserved", "read", "asserted", "bound", "enabled"}

Polling(i) == poller[i] \in {"starting", "loop"}

(* CONTEXT.md, invariant 5, inside the process: at most one poll task calls  *)
(* getUpdates for the bot, whatever starts and stops overlap.                *)
AtMostOnePoller == \A i, j \in Inst : Polling(i) /\ Polling(j) => i = j

(* A poll task can always be found and stopped: the late cleanup of an       *)
(* earlier instance never removes the entry of the one that replaced it.     *)
PollerIsReachable == \A i \in Inst : Polling(i) => entry = i

NotYetClaimed == \A i \in Inst :
    start[i] \in {"idle", "get_me"} => poller[i] = "none" /\ fin[i] = "none"
ClaimingHoldsId == \A i \in Inst :
    Claiming(i) => active = i /\ poller[i] = "none" /\ fin[i] = "none"
PollingHoldsPlaces == \A i \in Inst :
    Polling(i) => active = i /\ entry = i /\ fin[i] = "none"

(* The inductive invariant: a start or a poll task that is under way holds   *)
(* the numeric id, and finalize_poller_exit does not run for it.             *)
IInv == TypeOK /\ NotYetClaimed /\ ClaimingHoldsId /\ PollingHoldsPlaces

Involved(i) ==
    \/ Claiming(i)
    \/ poller[i] \in {"starting", "loop", "leaving", "panicked"}
    \/ fin[i] \in {"release", "active", "entry"}

(* The numeric id and the runtime entry are never left behind: the instance  *)
(* they name is starting, running or cleaning up, or its task panicked and   *)
(* stop_bot will clean up for it.  (A task that ended on a storage error, or *)
(* a request dropped inside start_bot, does leave them: see ExitCleansUp.)   *)
ClaimsAreHeld ==
    storage = 0 /\ drops = 0 =>
        \A i \in Inst : active = i \/ entry = i => Involved(i)

(* stop_bot leads to a bot that can be started again, also when the task     *)
(* panics or the registry does not answer, unless the stop request itself is *)
(* dropped or a storage error ended the task (see ExitCleansUp).             *)
StopFreesBot ==
    \A k \in Stopper, i \in Inst :
        stop[k] = "join" /\ target[k] = i
            ~> (active # i /\ entry # i) \/ drops > 0 \/ storage > 0

(* A poller that lost its ownership stops polling.                           *)
StaleOwnerLeaves ==
    \A i \in Inst : Polling(i) /\ record.epoch # epoch[i] ~> poller[i] \notin {"starting", "loop"}

(* recover_startup_updates, mod.rs 1729: "do not exit without poller cleanup". *)
(* A task that has ended without a panic has given up its places.            *)
ExitCleansUp == \A i \in Inst : poller[i] = "gone" => active # i /\ entry # i
==============================================================================
