# Formal model of im-bridge-rs

TLA+ specifications of the parts of im-bridge-rs whose correctness depends on
interleavings, crashes, retries and lost messages, TLC configurations that check
them on small instances, and TLAPS proofs for every value of the constants.
Every definition is translated from the Rust source; `PROJECT.json` maps each
one to its lines (about a third of the lines of the implementation).

## 1. The system and its parts

im-bridge-rs connects Telegram bots with a SillyTavern installation. A poll task
per bot fetches updates, stores them in a durable inbox, and processes them. A
command that changes a chat becomes a durable *operation*: its row in
`bridge_operations` passes through snapshot, generation, payload storage and
commit, and the mutation itself is sent to a *Connector* beside SillyTavern,
which keeps a journal per operation id. Which process may poll a bot, and send
mutations for it, is decided by an ownership registry (also at the Connector).
What the user sees (replies, their later edits and deletions, inline keyboards)
is recorded in tables of its own, since Telegram cannot be asked.

| Part | Source (under `src/src/`) | State | Model |
|---|---|---|---|
| Operation ledger | `modules/bridge/operation_store.rs`, `operations.rs` | rows, leases | `OperationLedger`, `BridgeOperations` |
| Coordinator, recovery, engine commands | `operation_coordinator.rs`, `operation_recovery.rs`, `engine.rs` | tasks between awaits | `BridgeOperations` |
| Connector client, ownership | `adapters/st/connector.rs`, `poller_ownership.rs` | requests, record, epoch, binding | `BridgeOperations`, `PollerLifecycle` |
| Start and stop of bots | `modules/telegram/mod.rs` | two maps, poll tasks | `PollerLifecycle` |
| Update inbox | `modules/telegram/mod.rs` | rows, offsets, handler tasks | `UpdateInbox` |
| Delivery, /undo, /revoke, /redo | `delivery.rs`, `dispatch.rs` | deliveries, turn rows, targets | `TurnDelivery` |
| Panels, callbacks | `panel.rs`, `panel_store.rs`, `callback.rs`, `dispatch.rs` | slots, tokens, effects, keyboards | `Panels` |
| Lock tables | `lock_table.rs` and its wrappers | entries, waiters | `LockTable`, `KeyedMutex` |
| Accounts, bots, bind codes | `identity/mod.rs`, `telegram/mod.rs` | rows, jobs | `TelegramBinding` |
| Legacy import | `migration/mod.rs`, `characters/store.rs` | rows, source keys | `LegacyImport`, `ImportTranscript` |
| Native chat engine | `modules/chat/` | conversations, runs, results | `ChatEngine` |
| Rate limits, sessions, HTTP, rendering, vault, configuration | see `PROJECT.json` | row-wise or none | not modelled (section 7) |

How the parts meet. The poll loop of `UpdateInbox` runs the commands and
recovery passes of `BridgeOperations`; `process_and_deliver`, a claim and an
outcome there, is opened up in `TurnDelivery` (messages and turn commands) and
in `Panels` (keyboards). `TurnDelivery` uses of the ledger only what
`OperationPromise` states, and `BridgeOperations` is shown to implement that.
`PollerLifecycle` provides the runtimes and fences that `BridgeOperations`
abstracts to `life` and `owner`. `LegacyImport` extends `TelegramBinding`: the
import writes the same tables as a running server.

## 2. Modules

**OperationLedger** has the row of an operation and one pair of operators per
UPDATE of the store: `f_where(row)` is its WHERE clause, `f(row)` the new row.
`CanTransitionTo` is the table of `can_transition_to`. A row keeps the runtime
its recovery payload is bound to, because the additional authenticated data of
the encryption contains the runtime fence: decrypting is modelled as comparing.

**BridgeOperations** has one task per runtime and operation. `pc[r][op]` is the
await at which the task stands, and one action is the code between two awaits.
A runtime is one start of a poller. Several runtimes may run on the same
database, since one that lost its ownership notices only at its next fence
check. The recovery pass lists its candidates first (`seen`), then takes the
lease of each, checks the fence, and replays or reconciles. The Connector is
external: it applies or rejects a request at any later time, also after the
sender is gone; requests and answers may be lost. `reconcile_commit` believes an
entry of the journal only if its digest is the row's (`identity_matches`).
`RowDigest` and `JournalDigest` say which document each was taken of: the same
mutation, except for a start, whose row has the digest of the recovery payload
(`engine.rs:412`) while the Connector sees the create request.

**OperationPromise** is the abstract specification: per operation id, at most
one request, an effect only after a request, a confirmation only after the
effect, and a rejection that is final. `KeepsPromise` is the refinement.

**UpdateInbox** is the poll loop of one bot: startup reset, recovery passes,
getUpdates, the transaction that stores rows and offset, one handler task per
chat, and the retries. Telegram is external: it forgets an update when a request
with a greater offset arrives. The 2 s and 4 s backoffs are a set of cooling
updates that leave it at any time.

**PollerLifecycle** is `start_bot`, `stop_bot`, the poll task and
`finalize_poller_exit` for one bot in one process, with the registry at the
Connector. A start is identified with the instance id it draws. A request whose
HTTP client goes away is dropped at its await (`DropStart`, `DropStop`).

**TurnDelivery** is one Telegram chat. A turn is named by the update that sent
it; `st` is the list of turns SillyTavern has, `chat` the messages Telegram
shows, `rows` the table of turn messages, `target` the frozen targets of turn
commands. `clock` counts the writes of rows and stands for the time of
`updated_at`, by which `find_last_turn` orders them. `job` is the place of `process_and_deliver` in the update at hand: the
delivery lock and the single poller make a chat's updates run one at a time, so
the hard cases are a crash, a lost answer or a failed statement between two
steps, followed by the inbox's retry of the whole update. A call to Telegram
that fails may have been carried out: a send, an edit or a deletion whose answer
is lost has happened in `chat` and not in the rows.

**Panels** is the keyboards of one chat. A render is one keyboard with the
tokens it was bound to; a press may name any render ever shown. A name is the
sequence of its parts between colons, because `parse_legacy_callback_data` splits
there. `Buttons` gives what a panel draws, `Accepts` the conditions of
`consume`, and `Command`, `Consume`, `Replace` and their failures the steps.

**LockTable** is `acquire`, `prune`, the waiting and the dropping of clones. A
mutex is a number, so that two mutexes for one key can be told apart; tokio's
mutex is external and first come, first served. **KeyedMutex** is what callers
expect: one holder per key. `ImplementsKeyedMutex` is the refinement, with
`owners[k]` mapped to the tasks that hold a mutex under key `k`.

**TelegramBinding** has accounts, bots, codes, identities and bindings; a job is
a request or a `/bind` command between two statements. The latter finds the
newest open code, reads it again by its id, deletes it by its id when it has
expired, reads the identity, and commits in a transaction; other commands and
`generate_bind_code` may come between any two. **LegacyImport** adds the
import as one more process that may stop at any statement and be run again.
A character is `bare` (inserted) or `whole` (with its revision); `Canonical` are
the cards whose file hash is the checksum of the stored card, which a rerun
recognises by it. `orphans` counts the stops that leave a row the next run
cannot recognise. **ImportTranscript** is the pure part of it: the transcript of
a chat file is a fold over its lines (`Transcript`). `Export` writes each stored
line back with its `mes` replaced by the prompt content, as `export_workspace`
does, and `PromptText` is what a model is given of a message.

**ChatEngine** is `SqliteChatEngine`. A request looks up its client id without
the lock, waits for the lock of the conversation, and then runs a chain of
transactions with a model call in between; it may be cut off after each.

**MC*.tla** give the small sets of the instances. ***Proofs.tla** hold the
theorems. Definitions commented "Mutant" are plausible bugs; no specification
uses them, they show that each property can fail.

## 3. What the runs check

| Run | Instance | Result |
|---|---|---|
| `BridgeOperations_safety` | 1 send, 2 runtimes, 3 executions, 3 faults | holds, 110,653 states |
| `BridgeOperations_live` | 1 undo, 3 runtimes, 1 execution, 2 faults, fairness | holds, 168,379 states |
| `BridgeOperations_generated` | 1 send, 2 runtimes, fairness | **violated**, finding 3 |
| `UpdateInbox` | 3 updates of 2 chats, one damaged, 2 attempts, 1 crash, 1 storage error, fairness | holds, 203,253 states |
| `UpdateInbox_exhausted` | 1 update, 3 attempts, 1 crash | **violated**, finding 1 |
| `PollerLifecycle` | 2 starts, 2 stops, 1 transfer, 2 registry faults, 1 panic, 1 storage error, 1 dropped request, fairness | holds, 46,388 states |
| `PollerLifecycle_exit` | 2 starts, 2 stops, 1 storage error | **violated**, finding 2 |
| `LockTable` | 3 tasks, 3 keys, capacity 2, 3 mutexes, fairness | holds, 64,786 states |
| `TurnDelivery` | 3 updates of any kind, replies of 1 or 2 messages, 3 attempts, 1 fault | holds, 359,401 states |
| `ChatEngine` | 3 requests of any kind, 1 client id, 2 conversations, 1 cut | holds, 2,301,592 states |
| `Panels` | 2 users, 2 items on pages of 1, 2 panels, 3 presses, 1 change of lists, 1 fault | holds, 1,130,232 states |
| `LegacyImport` | 2 accounts, 2 users, 2 jobs, a JSON and a PNG card, 1 chat; up to 2 runs of the import, 2 codes, 2 /bind and 1 upsert, 5 of these together; chat files of up to 4 lines | holds, 2,070,262 states |

**Operations.** No second mutation request leaves for an operation
(`AtMostOneRequest`); `applied` and `failed` rows are true (`AppliedIsTrue`,
`FailedIsFinal`); delivery follows the commit (`DeliveryAfterCommit`); a request
travels under the fence its payload was stored with (`SentUnderOwnFence`); a
lease ends only by its holder or its deadline (`LeaseGivenUpByHolder`); the
whole implements `OperationPromise` (`KeepsPromise`); an applied mutation of a
chat is eventually recorded (`AppliedIsRecorded`; not the creation of one, see
section 6).

**Inbox.** An update Telegram may forget has a row (`NoUpdateLost`); first
attempts in a chat are in order (`FirstAttemptsInOrder`); a processed update
stays processed (`ProcessedIsFinal`); every update is processed or uses up its
attempts (`EveryUpdateSettles`). Order and settling are claimed while storage
does not fail: a claim that fails is retried after later updates of the chat,
and an outcome that cannot be written leaves the row in `processing` until the
next start.

**Bots.** One poll task at most (`AtMostOnePoller`), `stop_bot` finds it
(`PollerIsReachable`), the maps name only instances somebody looks after
(`ClaimsAreHeld`), a stop frees the bot (`StopFreesBot`), a poller that lost its
ownership stops (`StaleOwnerLeaves`). `ClaimsAreHeld` and `StopFreesBot` do not
speak of behaviours with dropped requests or storage errors: a start dropped
between its awaits does leave its claim behind.

**Locks.** A task that holds or waits has the mutex that is in the table
(`HandleIsCurrent`), the table stays within its capacity (`WithinCapacity`), it
implements one mutex per key (`ImplementsKeyedMutex`), and a waiter that is not
cancelled gets its turn (`WaiterIsServed`).

**Turns.** Nothing shown is edited or deleted for a turn command before
SillyTavern confirmed it (`CleanupAfterCommit`); a part of a reply is in one
message (`ReplyShownOnce`); a delivered send has a row for each message
(`CompleteSendIsTracked`); active rows name messages that are there
(`ActiveRowIsShown`); a settled target is never taken up again
(`SettledTargetIsFinal`); render versions only grow (`RenderVersionGrows`); and
while nothing was disturbed Telegram's and SillyTavern's "last turn" are the
same (`TurnsAgree`). With two faults the same instance has 13.3 million states
and holds too (9.5 minutes, not kept as a run).

**Keyboards.** A token's handler runs once (`ActsAtMostOnce`); the buttons of
the active panel work (`ShownButtonsWork`); a selection opens what was drawn,
when the lists are those drawn (`SelectionAsShown`); only the newest panel acts
(`OnlyNewestPanelActs`).

**Chat engine.** One client id is one operation, also when it arrives twice at
once (`SameIdSameOperation`); a generation starts from the revision its sender
named (`ExpectedRevisionHonoured`); a reply is hidden only by its replacement
(`SupersededIsReplaced`); "unchanged" is true (`UnchangedIsCurrent`).

**Binding and import.** A code is redeemed once, and not after it was replaced or
deleted as expired, though a `/bind` may already have checked it
(`CodeRedeemedOnce`, about steps, since the row of a code redeemed a moment ago
may be deleted too); a user acts at a bot as its owner or as nobody
(`BoundToOwner`). An import stopped anywhere and run again makes one conversation
of a chat; of a card one row of `characters`, and one more for each stop counted
in `orphans`, never more; and a run that ends has imported, recorded and bound
what it should (`ImportedOnce`). A chat keeps its messages, order and turns.
Exported and imported again it has the same turns and gives the model the same
text, unless a `display_text` was blank; the original text of a message with a
`display_text` is lost, and a second round changes nothing more
(`TranscriptKept`). The last is about a function, not about steps: it is
evaluated for every file of the instance as the import starts.

### Bounds

Faults, attempts, requests and presses are counted, and the counters are guards.
Two runtimes are enough for a stale owner beside the new one; the liveness run
has three, so that two may fail. Operations share only the fence of their
runtime, so one suffices; the theorems are for any set. Two updates of one chat
and one of another make order, batches, retries and the offset interact. Two
starts and two stops let a start overlap a running poller, another start and a
late cleanup. Three keys for two places force eviction and refusal. Three
updates give a send, a command on it and a send or command after that. Three
requests let two with the same id race while a third changes the conversation.
Two panels and three presses cover a press on an old panel, a repeated press and
a press after a replaced page. Two runs of the import cover every place to stop
once, two codes a code replaced under a `/bind`; `MaxWork` keeps the product of
import and requests small: of the seven runs, codes, `/bind` commands and upserts
a history has any five.
The digests differ for a start only, which no run instantiates; the theorems are
for any kinds.
The LIMITs of the queries (128 candidates, 100 updates) are larger than any
instance and are not modelled.

Symmetry is used over runtimes, users of a chat or jobs, in runs without
liveness. Deadlock is not checked: with the bounds used up the systems rightly
stop. The type invariants of `BridgeOperations`, `UpdateInbox`,
`PollerLifecycle`, `ChatEngine` and `Panels` are proved.

### Fairness

Tokio polls every ready task and the calls of a command have timeouts, so tasks
that can move do (weak fairness per task). The poll loop itself starts recovery
passes and retries on timers, and time passes. For `EveryUpdateSettles` the loop
(`LoopStep`) also includes its start: a poller that crashed is assumed to be
started again, by the operator or at the next start of the server. A holder of a lock gives it back
and tokio wakes waiters in order. For `BridgeOperations_live`, a stopped poller
is started again and the binding of a dead runtime is freed: the code does
neither by itself, so both are assumptions about the operator. Nothing is
assumed of the Connector or of Telegram; no other start, and no stop or request,
has to come.

## 4. Findings

1. `UpdateInbox_exhausted`: "Exhausted rows stay visible as failed"
   (`telegram/mod.rs:1751`). A crash in the third attempt and the startup reset
   leave the row `received` with three attempts: not retried, not failed.
2. `PollerLifecycle_exit`: "do not exit without poller cleanup"
   (`telegram/mod.rs:1730`). A failed read of the offset a few lines earlier
   ends the task without `finalize_poller_exit`; the bot can then be neither
   started nor stopped until the process restarts.
3. `BridgeOperations_generated`: "generated ... rows must be resumed/reconciled
   under the original operation id" (`operation_coordinator.rs:445`). The
   payload is bound to the runtime that stored it; a later runtime never
   decrypts it, and the row stays `generated`.

## 5. What is proved

The proofs hold for all operations, runtimes, updates, starts, stops, tasks,
keys, accounts, users, files, requests, conversations and panels, and all
bounds. They assume only what the modules state as ASSUME: the types of the
constants, finiteness of the tasks and keys of a lock table, that an import
finds a file and an account, that the commands of `Panels` are those that open
one, and that `None`, `NoRuntime`, `NoKey`, `NoAccount` and `Loop` are not
members of the sets they accompany.

**BridgeOperationsProofs.** `AtMostOneRequest` is not inductive: a second sender
is excluded because `mark_committing` lets only one task through, and that is so
because nobody leaves `generated` otherwise. `IInv` adds: one task between
`mark_snapshot_ready` and `mark_generated` (`OneBuilder`), one sender
(`OneSender`), nothing sent before `committing` (`NothingSentBefore`), where the
one request is (`RequestAccounted`), and the payload of a task or a listed
candidate is the payload of the row (`PayloadBound`). Theorems: `TypeCorrect`,
`InductiveInvariant`, `OneRequestPerOperation`, `AppliedRowsAreTrue`,
`FailedRowsAreFinal`, `DeliveredAfterCommit`, `RequestsKeepTheirFence`. The
leases are not needed for any of them: the CAS guards alone suffice. That a
lease is given up by its holder only (`LeasesAreRespected`) is an action
property of its own: of the UPDATEs that write `lease_owner`, each compares it,
or the deadline, first.

The same module has the refinement. `StatusStepsAreAllowed`: every change of a row's
status is one `can_transition_to` allows, although the statements never call it.
`LedgerKeepsPromise`: `BridgeOperations` implements `OperationPromise`. Every
step only reads, or changes one row by one of the UPDATEs, or sends one request,
or is the Connector's (`StepShape`); each of the four is a step of the promise
or a stutter. Besides `IInv` this needs that committed and delivered rows are
`applied` and that no row is in a status without a production caller
(`RowsSettled`).

**UpdateInboxProofs.** `NoUpdateLost` follows from `OffsetInv`: the loop's offset
and Telegram's are at most the durable one, every update below that has a row,
and a batch in hand begins where Telegram's memory begins and has no gap.
`ProcessedIsFinal` follows from `ListInv`: the list of an attempt, a pass or a
batch never names a processed update, because no update is in two lists
(`ListedOnce`), so the UPDATE of a failed handler, which has no condition on the
status, cannot meet one. `FirstAttemptsInOrder` needs `OrderInv`, which says
where an update without an attempt can be: none is left once a recovery pass is
through, and during a pass or a batch each is in the list of the pass or of its
chat (`UntriedByPhase`); a row lies below the durable offset; an update without
an attempt is `received`; and a busy worker has claimed the first of its list.
Then an update is first tried when all earlier ones of its chat have left the
list, hence were tried. Like the property, `OrderInv` is claimed until storage
fails. Theorems: `OffsetInvariant`, `TypeCorrect`, `UpdatesAreNotLost`,
`ProcessedStaysProcessed`, `AttemptsAreInOrder`.

**PollerLifecycleProofs.** `IInv`: a start between reserving the numeric id and
its end, and a poll task, hold `active`; a poll task holds its `entry`; none of
them is being finalized. For `ClaimsAreHeld`, `HeldInv` adds that finalization
has let go of the numeric id when it comes to the entry, and of both when it is
done, and that only a start that got through has an entry. Theorems:
`InductiveInvariant`, `TypeCorrect`, `OnePollerPerBot`, `PollersAreReachable`,
`ClaimsAlwaysHeld`.

**LockTableProofs.** An entry with a clone outside the table is neither evicted
nor pruned, so whoever holds or waits has the entry's mutex; two holders of a
key would hold one mutex. Theorems: `HandlesStayCurrent`,
`TableStaysWithinCapacity`, `LockTableIsKeyedMutex`.

**LegacyImportProofs** is about `TelegramBinding` with the import beside it. That
the bindings agree with the owners (`BindingsOwned`) is not inductive: a `/bind`
past its reads and an import past its own write from what they remember.
`OwnerInv` adds that what they remember is still so: a request that found the
identity of the user will find it (`JobKnows`), the import has a bot of every
account with a token, and it is that account's (`RunKnows`). It stays so because
no bot changes its owner and no identity its account (`Stays`), the latter by
the UNIQUE constraint. `CodeInv`: a redeemed code was redeemed once and its row is
not open; more cannot be said of the row, which may be deleted later. That a
deleted row stays deleted is shown of each step (`CodeStep`).
`FirstBot` and `Newest` choose a least and a greatest row, which exist because
the order of the naturals is well-founded (`Least`, `Greatest`). What a finished
run owes is shown by two more invariants. `FileInv`: a source key is recorded
only for a file that is stored; a card has as many rows as `orphans` counts, but
for the one that is recorded or recognised, or in hand (`Rows`); and
every file the run has left behind (`Passed`) is recorded or was a warning
(`Processed`), whatever earlier runs left. `UserInv`: every user the run has
dealt with is bound or belongs to another account, and stays so beside the
requests because rows of bots, identities and bindings are never taken back
(`Grows`). Theorems: `BoundUsersActAsOwner`, `CodesAreRedeemedOnce`,
`FilesAreImportedOnce`.

**ChatEngineProofs.** `IInv` is about what a request knows between its
transactions (`Knows`): the revision it compared under the lock is still the
conversation's, its `op` names a run or a result of its kind and id, and what a
reader remembers is not ahead of the conversation. This survives the steps of
others because a conversation's lock has one holder (`OneHolder`) and every
change of what a history shows raises the revision or is marked `torn`. The
unique indexes make runs and results of an id unique (`RunsOK`, `ResultsOK`), so
of two requests that both missed the replay one is refused. `compress` and
`undo_turn` rewrite messages by loops in the code; the model has them as
pointwise maps, so that what they leave alone can be proved. Theorems:
`InductiveInvariant`, `TypeCorrect`, `IdsNameOneOperation`,
`ExpectedRevisionIsHonoured`, `HiddenRepliesAreReplaced`,
`UnchangedHistoryIsCurrent`.

**PanelsProofs.** The tie between the keyboard Telegram shows and the slot's row
breaks for good when the outcome of an edit is not recorded, so `IInv` speaks of
the renders whose effect is `sent`: their revisions differ and none is ahead of
the slot's (`SentOK`). From that, a press is accepted for one render only, which
gives `ActsAtMostOnce` together with the token that `consume` takes. Slots are
saved in order and only the last one is active (`SlotsOK`); the update at work
is tied to the render it draws at each of its steps. Theorems:
`InductiveInvariant`, `TypeCorrect`, `AButtonActsOnce`,
`SelectionsOpenWhatTheyShow`, `ShownButtonsAreAccepted`, `OldPanelsAreDead`.

**TurnDeliveryProofs.** Five invariants, built on one another. `Safe`
says where the update at work can be (`Place`): each step is reached only with
the operation's row and the frozen target as the earlier steps left them, and
what an update leaves behind between its attempts (`History`). `CleanupFollowsCommit`
and `SettledTargetsAreFinal` follow. `Replies` adds the order of the parts: while
part k of a reply is on its way, the chat has no message with part k or a later
one. It holds through a retry because a reply starts only for an operation that
was not confirmed, and a confirmed one stays so; hence `RepliesAreShownOnce`.
`Ledger` is about the rows: a message is in at most one row, a row takes only a
message that was just sent (`Fresh`), a target names messages of its own turn,
and a message replaced by a redo has left its row before it is deleted. With it,
`RenderVersionsGrow`, and `ActiveRowsAreShown` by way of `Shown`: a message that
is gone while its row is active is the one the command at work is about to mark,
or was touched by a command that stays unfinished (`NextEnds`), or by a command
whose call failed after Telegram had carried it out: that command goes on to mark
its failure (`Failing`) and is never complete. `Books` is an
account of every message of a send (`Account`): it has a row of the send's turn,
or is being recorded, or one of the send's deliveries is not `sent` and never
will be, or an unfinished redo replaced it. A send counts as complete only when all its
deliveries are `sent`, so of the four only the first and the last are left:
`CompleteSendsAreTracked`.

Only model-checked: all liveness properties, which are beyond the prover;
`TypeOK` and `TurnsAgree` of `TurnDelivery`, the latter a statement about
undisturbed histories that would need an invariant of its own on the order of
turns; and `TranscriptKept`, which is about a fold over data, for which there is
no usable induction.

## 6. Observations

What the models show of the code where no document promises otherwise. The
properties are stated so that they leave these cases out explicitly.

*Operations.* A start whose applied answer is lost stays `committing`: every
reconciliation ends in ST_OPERATION_ID_REUSED, because the row's digest is not
that of the request. With a start in place of the undo, `BridgeOperations_live`
finds this behaviour when `AppliedIsRecorded` is asked of starts too.

*Turns.* A failed send leaves its placeholder as an active turn; a later /undo,
/revoke or /redo then freezes that turn while SillyTavern changes the one
before. A turn command retried after a crash, with a later send in between, acts
in SillyTavern on the newer turn and in Telegram on the frozen one:
`tail_fingerprint` is stored and never compared. After a crash between the
commit and `finalize` the placeholder is never edited, though the operation
becomes delivered.

*Keyboards.* A name with a colon does not survive `parse_legacy_callback_data`,
so `bind_panel_callbacks` leaves its button without a token. `list_characters`
and `list_history` put the whole list on every page while a selection adds the
page's offset to the index, hence "first page" in `SelectionAsShown`;
`open_recent` reads one page where the panel lists 64. An index is looked up in
the list of now (`catalog_revision` is always None). A lost answer to an edit
leaves a keyboard of revision r + 1 on a slot at r. Pending `callback_action`
rows are not resumed after a crash.

*Chat engine.* It is not wired into the sidecar; only tests use it. A request
cut off leaves its run `started` for ever. A compression that fails half-way has
changed texts without raising the revision (`torn`). A regenerate after a failed
send supersedes the reply of an earlier turn. The revision conflict in
`complete_generation` cannot occur within one process, which holds the lock.

*Import and binding.* `existing_character_by_checksum` compares the hash of the
file with a checksum taken of the re-serialised card (`card_png.rs:231`), so for
a PNG an import stopped between the insert and `record_source_target` makes a
second character when run again (not in `Canonical`). A stop between the two
INSERTs of a character leaves one without a revision, and the next run inserts
another. An export writes the prompt text as `mes`, blank or not, so importing it
stores another `content_original`. A bad card ends the
import, a bad chat is a warning. Overlapping `upsert_bot` calls make two bots,
overlapping `generate_bind_code` calls two open codes, of which the older can be
redeemed after the newer. A /bind retried after a crash past its commit reports
failure to a user who is bound. Failures stay counted when a lockout ends. A
success between the two statements of `record_bind_failure` makes the second
fail.

## 7. Not modelled

- Cryptography, signatures, encodings, wording, logging, rendering: no state.
- Rate limits (`delivery_queue.rs`): cooldowns only delay calls, and the readers
  of the pending set have no caller; `claim_due_delivery` refuses every replay.
- Two tokens with different numeric ids for the same bot row, `shutdown_all`,
  `bootstrap_legacy` and `heartbeat` of the registry.
- `mark_conflict`, `mark_interrupted`, `interrupt_stale_generating`: no caller
  outside tests.
- The locator locks around commands: commands of different updates on one chat
  are ordered by them, but each operation has a row of its own. The table behind
  them is `LockTable`.
- An identity conflict or invalid id in a batch (`persist_update_batch` then
  fails for the whole batch each time) is covered only as a failed transaction.
- Expiry of callback tokens: a refusal changes nothing else. Eviction
  from the in-memory registry of 256 panels is the step `PanelForgotten`.
- Progress edits while a reply streams; the preview texts of selections.
- Login, sessions, the vault, model and channel settings, audit: statements on
  single rows. Prompt building, card parsing, `st_ops.rs`: functions on
  documents whose content no property tells apart.
- HTTP routing, the SillyTavern session and stream decoding: a call succeeds,
  fails or is lost, which the modules have as outcomes.
- Configuration and start-up: sequential.
