---------------------------- MODULE LegacyImport -----------------------------
(****************************************************************************)
(* The import of a SillyTavern data directory and of the old plugin's       *)
(* database (migration/mod.rs), run from the command line beside a server   *)
(* that keeps answering requests (TelegramBinding).                         *)
(*                                                                          *)
(* The import is a long sequence of small writes with no transaction around *)
(* it.  It can stop anywhere - a crash, or the first `?` that fails - and   *)
(* the operator runs it again from the start.                               *)
(****************************************************************************)
EXTENDS TelegramBinding

CONSTANTS
  Card,       \* character files
  Canonical,  \* cards whose bytes are their parsed JSON written back
  Chat,       \* chat files
  Owner,      \* Card \cup Chat -> the handle whose directory holds the file
  Tokens,     \* accounts with a bot token in the plugin database
  Allowed,    \* account -> Telegram users it lists
  MaxRuns,    \* bound: times the operator runs the import
  MaxWork     \* bound: runs, codes, /bind commands and upserts, taken together

ASSUME ImportAssumption ==
  /\ Canonical \subseteq Card
  /\ Card \cap Chat = {}
  /\ Owner \in [Card \cup Chat -> Account]
  /\ Tokens \subseteq Account
  /\ Allowed \in [Account -> SUBSET User]
  /\ MaxRuns \in Nat /\ MaxWork \in Nat
  /\ Card \cup Chat # {}     \* there is something to import
  /\ Tokens # {} \/ \E a \in Account : Allowed[a] # {}

VARIABLES
  bare,    \* characters: rows of a card whose revision was not inserted
  whole,   \* characters: rows of a card with their revision
  talks,   \* conversations: rows of a chat file, each with its archive row
  keys,    \* legacy_source_keys: the files recorded as imported
  orphans, \* ghost: the rows of a card that a later run does not recognise
  run      \* the import in progress

importVars == <<bare, whole, talks, keys, orphans, run>>
vars == <<bindVars, importVars>>

File == Card \cup Chat
FilesOf(a) == {f \in File : Owner[f] = a}
Handles == {Owner[f] : f \in File}
Specs == {a \in Account : a \in Tokens \/ Allowed[a] # {}}

(* What a run carries: the handles, accounts or bindings left, the files of *)
(* the handle left, the file or account in hand, the bot and identity read, *)
(* and the bots written (bots_by_account).                                  *)
Stopped == [at |-> "stopped", n |-> 0, left |-> {}, files |-> {}, item |-> {},
            seen |-> 0, fresh |-> FALSE, made |-> {}]

TypeOK ==
  /\ BindTypeOK
  /\ bare \in [Card -> 0..MaxRuns]
  /\ whole \in [Card -> 0..MaxRuns]
  /\ talks \in [Chat -> 0..MaxRuns]
  /\ keys \subseteq File
  /\ orphans \in [Card -> 0..MaxRuns]
  /\ run.n \in 0..MaxRuns
  /\ run.at \in {"stopped", "handles", "files", "revision", "key", "accounts",
                 "bots", "write", "settings", "bindings", "identity", "bind",
                 "done"}

Init ==
  /\ BindInit
  /\ bare = [f \in Card |-> 0]
  /\ whole = [f \in Card |-> 0]
  /\ talks = [f \in Chat |-> 0]
  /\ keys = {}
  /\ orphans = [f \in Card |-> 0]
  /\ run = Stopped

Work == run.n + Len(codes) + used.binds + used.upserts

(* The only member of a set used as an optional value.                      *)
The(s) == CHOOSE x \in s : TRUE

(* import_st starts, from the beginning, with nothing remembered.           *)
Start ==
  /\ run.at \in {"stopped", "done"}
  /\ run.n < MaxRuns /\ Work < MaxWork
  /\ run' = [Stopped EXCEPT !.at = "handles", !.n = run.n + 1, !.left = Handles]
  /\ UNCHANGED <<bindVars, bare, whole, talks, keys, orphans>>

(* A stop now leaves the row of card f without its revision, or with one    *)
(* whose checksum is not that of the file, and without its source key.      *)
Orphaned(f) ==
  /\ run.item = {f}
  /\ run.at = "revision" \/ (run.at = "key" /\ f \notin Canonical)

(* Any `?` that fails, and any crash, ends the run where it is.             *)
Stop ==
  /\ run.at \notin {"stopped", "done"}
  /\ run' = [Stopped EXCEPT !.n = run.n]
  /\ orphans' = [f \in Card |-> orphans[f] + (IF Orphaned(f) THEN 1 ELSE 0)]
  /\ UNCHANGED <<bindVars, bare, whole, talks, keys>>

(* ensure_legacy_account: an account with the handle is taken, one with the *)
(* username is given the handle, otherwise one is provisioned.              *)
EnsureLegacyAccount(a) ==
  \/ Provision(a, FALSE, TRUE)
  \/ /\ accounts[a].made
     /\ accounts' = [accounts EXCEPT ![a].handle = TRUE]

notAccounts == <<bots, codes, identity, bindings, attempts, jobs, redeemed, used>>

(****************************************************************************)
(* import_source                                                            *)
(****************************************************************************)

(* The next handle: its account, and the characters before the chats.       *)
NextHandle ==
  /\ run.at = "handles"
  /\ \E a \in run.left :
       /\ EnsureLegacyAccount(a)
       /\ run' = [run EXCEPT !.at = "files", !.left = @ \ {a},
                             !.files = FilesOf(a)]
  /\ UNCHANGED <<notAccounts, bare, whole, talks, keys, orphans>>

(* A file of the current handle whose turn it is.                           *)
Due(f) ==
  /\ run.at = "files" /\ f \in run.files
  /\ f \in Chat => run.files \cap Card = {}

(* source_target knows the file: nothing to do.                             *)
SkipFile ==
  /\ \E f \in keys : Due(f) /\ run' = [run EXCEPT !.files = @ \ {f}]
  /\ UNCHANGED <<bindVars, bare, whole, talks, keys, orphans>>

(* existing_character_by_checksum compares the hash of the file's bytes     *)
(* with the checksum of the stored revision, which is the hash of the card  *)
(* parsed and written back.                                                 *)
ExistingCharacter(f) == f \in Canonical /\ whole[f] > 0

(* existing_chat_import: the archive row of the same path and bytes.        *)
ExistingChat(f) == talks[f] > 0

(* Mutant: only the source keys tell what was imported before.              *)
ImportedIfKeyed(f) == FALSE

(* The file was imported by a run that stopped before it recorded the key.  *)
Imported(f) == IF f \in Card THEN ExistingCharacter(f) ELSE ExistingChat(f)

(* A chat needs some character of the workspace; a character without its    *)
(* revision will do.                                                        *)
HasCharacter(a) == \E c \in Card : Owner[c] = a /\ bare[c] + whole[c] > 0

(* An import of the file that stopped short is found: only the key is due.  *)
FindImported ==
  /\ \E f \in File \ keys :
       Due(f) /\ Imported(f) /\ run' = [run EXCEPT !.at = "key", !.item = {f}]
  /\ UNCHANGED <<bindVars, bare, whole, talks, keys, orphans>>

(* import_bytes inserts the character ...                                   *)
ImportCharacter ==
  /\ \E f \in Card \ keys :
       /\ Due(f) /\ ~Imported(f)
       /\ bare' = [bare EXCEPT ![f] = @ + 1]
       /\ run' = [run EXCEPT !.at = "revision", !.item = {f}]
  /\ UNCHANGED <<bindVars, whole, talks, keys, orphans>>

(* ... and then its revision.                                               *)
InsertRevision ==
  LET f == The(run.item) IN
  /\ run.at = "revision"
  /\ bare' = [bare EXCEPT ![f] = @ - 1]
  /\ whole' = [whole EXCEPT ![f] = @ + 1]
  /\ run' = [run EXCEPT !.at = "key"]
  /\ UNCHANGED <<bindVars, talks, keys, orphans>>

(* import_chat is one transaction: conversation, archive, turns, messages.  *)
ImportChat ==
  /\ \E f \in Chat \ keys :
       /\ Due(f) /\ ~Imported(f) /\ HasCharacter(Owner[f])
       /\ talks' = [talks EXCEPT ![f] = @ + 1]
       /\ run' = [run EXCEPT !.at = "key", !.item = {f}]
  /\ UNCHANGED <<bindVars, bare, whole, keys, orphans>>

(* A chat that cannot be imported - no character, or a failed transaction - *)
(* is a warning, and the run goes on.                                       *)
SkipChat ==
  /\ \E f \in Chat \ keys :
       /\ Due(f) /\ ~Imported(f)
       /\ run' = [run EXCEPT !.files = @ \ {f}]
  /\ UNCHANGED <<bindVars, bare, whole, talks, keys, orphans>>

(* record_source_target.                                                    *)
RecordKey ==
  /\ run.at = "key"
  /\ keys' = keys \cup run.item
  /\ run' = [run EXCEPT !.at = "files", !.files = @ \ run.item, !.item = {}]
  /\ UNCHANGED <<bindVars, bare, whole, talks, orphans>>

(* The handle is finished; after the last one the plugin database follows.  *)
HandleDone ==
  /\ run.at = "files" /\ run.files = {}
  /\ run' = IF run.left # {} THEN [run EXCEPT !.at = "handles"]
            ELSE [run EXCEPT !.at = "accounts", !.left = Specs]
  /\ UNCHANGED <<bindVars, bare, whole, talks, keys, orphans>>

(****************************************************************************)
(* import_plugin_db                                                         *)
(****************************************************************************)

(* Every account of the plugin database, before any bot.                    *)
PluginAccount ==
  /\ run.at = "accounts"
  /\ \E a \in run.left :
       /\ EnsureLegacyAccount(a)
       /\ run' = IF run.left # {a} THEN [run EXCEPT !.left = @ \ {a}]
                 ELSE [run EXCEPT !.at = "bots", !.left = Tokens]
  /\ UNCHANGED <<notAccounts, bare, whole, talks, keys, orphans>>

(* A configuration with a token: upsert_bot reads the bots ...              *)
ReadBot ==
  /\ run.at = "bots"
  /\ \E a \in run.left :
       run' = [run EXCEPT !.at = "write", !.left = @ \ {a}, !.item = {a},
                          !.seen = FirstBot(a)]
  /\ UNCHANGED <<bindVars, bare, whole, talks, keys, orphans>>

notBots == <<accounts, codes, identity, bindings, attempts, jobs, redeemed, used>>

(* ... and writes the bot, disabled.                                        *)
ImportBot ==
  LET a == The(run.item)
      b == IF run.seen # 0 THEN run.seen ELSE Len(bots) + 1
  IN
  /\ run.at = "write"
  /\ b <= MaxBots
  /\ WriteBot(a, run.seen, FALSE)
  /\ run' = [run EXCEPT !.at = "settings", !.seen = b, !.made = @ \cup {<<a, b>>}]
  /\ UNCHANGED <<notBots, bare, whole, talks, keys, orphans>>

(* The delivery settings of the bot, which disable it once more.            *)
ImportSettings ==
  /\ run.at = "settings"
  /\ bots' = [bots EXCEPT ![run.seen].enabled = FALSE]
  /\ run' = [run EXCEPT !.at = "bots", !.item = {}, !.seen = 0]
  /\ UNCHANGED <<notBots, bare, whole, talks, keys, orphans>>

(* conflicting_users: listed under several owners of the plugin database.   *)
Conflicting(u) == Cardinality({a \in Account : u \in Allowed[a]}) > 1

(* The users to bind: those of the owners that have a bot.                  *)
Pending ==
  {p \in Tokens \X User : p[2] \in Allowed[p[1]] /\ ~Conflicting(p[2])}

BotsDone ==
  /\ run.at = "bots" /\ run.left = {}
  /\ run' = [run EXCEPT !.at = "bindings", !.left = Pending]
  /\ UNCHANGED <<bindVars, bare, whole, talks, keys, orphans>>

(* import_telegram_binding reads the identity.  One that belongs to another *)
(* account is skipped with a warning.                                       *)
ReadIdentity ==
  /\ run.at = "bindings"
  /\ \E p \in run.left :
       run' = IF identity[p[2]] \in {NoAccount, p[1]}
              THEN [run EXCEPT !.at = "identity", !.left = @ \ {p}, !.item = {p},
                               !.fresh = identity[p[2]] = NoAccount]
              ELSE [run EXCEPT !.left = @ \ {p}]
  /\ UNCHANGED <<bindVars, bare, whole, talks, keys, orphans>>

(* It inserts the identity if there was none.  One inserted meanwhile makes *)
(* the statement fail, and the run stops.                                   *)
ImportIdentity ==
  LET p == The(run.item) IN
  /\ run.at = "identity"
  /\ IF run.fresh THEN /\ Insertable(p[2])
                       /\ identity' = [identity EXCEPT ![p[2]] = p[1]]
     ELSE UNCHANGED identity
  /\ run' = [run EXCEPT !.at = "bind", !.fresh = FALSE]
  /\ UNCHANGED <<accounts, bots, codes, bindings, attempts, jobs, redeemed, used,
                 bare, whole, talks, keys, orphans>>

(* It inserts the binding unless there is one.                              *)
ImportBinding ==
  LET p == The(run.item)
      b == (CHOOSE m \in run.made : m[1] = p[1])[2]
  IN
  /\ run.at = "bind"
  /\ bindings' = bindings \cup {<<b, p[2]>>}
  /\ run' = [run EXCEPT !.at = "bindings", !.item = {}]
  /\ UNCHANGED <<accounts, bots, codes, identity, attempts, jobs, redeemed, used,
                 bare, whole, talks, keys, orphans>>

Done ==
  /\ run.at = "bindings" /\ run.left = {}
  /\ run' = [Stopped EXCEPT !.at = "done", !.n = run.n]
  /\ UNCHANGED <<bindVars, bare, whole, talks, keys, orphans>>

Import ==
  \/ Start \/ Stop
  \/ NextHandle \/ SkipFile \/ FindImported \/ ImportCharacter \/ InsertRevision
  \/ ImportChat \/ SkipChat \/ RecordKey \/ HandleDone
  \/ PluginAccount \/ ReadBot \/ ImportBot \/ ImportSettings
  \/ BotsDone \/ ReadIdentity \/ ImportIdentity \/ ImportBinding \/ Done

Next == Import \/ (BindNext /\ UNCHANGED importVars /\ Work' <= MaxWork)

Spec == Init /\ [][Next]_vars

------------------------------------------------------------------------------

(* However often the import stops and is run again - between the character  *)
(* and its revision, between a write and the source key that records it,    *)
(* between two owners - a chat file becomes one conversation, and a card    *)
(* becomes one row of characters but for one more per stop that the next    *)
(* run cannot see past: a stop before the revision, whose row stays without *)
(* one, and, for a card whose bytes are not its JSON written back (a PNG),  *)
(* a stop before the source key.  A run that reaches its end has imported   *)
(* every card, has recorded exactly the chats that have their conversation  *)
(* (the others were warnings), and has bound every user it may bind, unless *)
(* the user belongs to another account (migration/mod.rs:89-154, 441-460,   *)
(* characters/store.rs:39-59).                                              *)
ImportedOnce ==
  /\ \A f \in Chat : talks[f] <= 1
  /\ \A f \in Card : bare[f] + whole[f] <= orphans[f] + 1
  /\ run.at = "done" =>
       /\ \A f \in Card : f \in keys /\ whole[f] >= 1
       /\ \A f \in Chat : f \in keys <=> talks[f] = 1
       /\ \A p \in Pending :
            \/ identity[p[2]] \notin {NoAccount, p[1]}
            \/ \E b \in BotsOf(p[1]) : <<b, p[2]>> \in bindings
==============================================================================
