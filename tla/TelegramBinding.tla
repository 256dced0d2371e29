--------------------------- MODULE TelegramBinding ---------------------------
(****************************************************************************)
(* Who a Telegram user acts as: accounts, their bots, the one-time codes    *)
(* that bind a Telegram user to the owner of a bot, and the count of failed *)
(* attempts.                                                                 *)
(*                                                                          *)
(*   identity/mod.rs      bootstrap_admin, provision_account                *)
(*   telegram/mod.rs      upsert_bot, generate_bind_code, redeem_bind_code, *)
(*                        record_bind_failure, resolve_bound_actor          *)
(*   http/router.rs       the handlers that call them                       *)
(*                                                                          *)
(* A job is one HTTP request or one /bind command.  A job reads tables and  *)
(* writes them later, so jobs interleave between any two statements that    *)
(* are not in one transaction; a job cut off takes no further step.  An     *)
(* account owns one workspace, the one default_workspace_id returns, so an  *)
(* account stands for both.                                                 *)
(****************************************************************************)
EXTENDS Integers, Sequences, FiniteSets

CONSTANTS
  Account,       \* usernames, which are also the legacy handles
  User,          \* Telegram users
  Job,           \* requests that can be in progress at once
  Admins,        \* accounts the operator bootstraps
  Wanted,        \* values of desired_enabled that are posted
  NoAccount,     \* an identity that belongs to no account
  Limit,         \* failures after which a user is locked out (10 in the code)
  MaxBots,       \* bound: rows of telegram_bots
  MaxCodes,      \* bound: bind codes generated
  MaxBinds,      \* bound: /bind commands
  MaxUpserts     \* bound: bot upserts over HTTP

ASSUME BindingAssumption ==
  /\ Admins \subseteq Account
  /\ NoAccount \notin Account
  /\ Wanted \subseteq BOOLEAN
  /\ Limit \in Nat \ {0}
  /\ {MaxBots, MaxCodes, MaxBinds, MaxUpserts} \subseteq Nat

VARIABLES
  accounts,  \* accounts: admin flag and legacy handle of each existing account
  bots,      \* telegram_bots, in insertion order
  codes,     \* bind_codes, in creation order
  identity,  \* external_identities: the account a Telegram user belongs to
  bindings,  \* telegram_bindings: <<bot, user>>, none is ever revoked in src
  attempts,  \* bind_attempts: failures and lock of each <<account, user>>
  jobs,      \* the requests in progress
  redeemed,  \* ghost: how often each code was redeemed
  used       \* commands and requests spent, against their bounds

bindVars == <<accounts, bots, codes, identity, bindings, attempts, jobs,
              redeemed, used>>

Missing == [made |-> FALSE, admin |-> FALSE, handle |-> FALSE]
NoRow == [failures |-> 0, locked |-> FALSE]
Idle == [at |-> "idle"]

(* The fields a request carries between two statements.                     *)
Busy ==
  [at : {"upsert"}, account : Account, seen : 0..MaxBots, enable : BOOLEAN]
    \cup [at : {"issue"}, bot : 1..MaxBots]
    \cup [at : {"find"}, user : User, bot : 1..MaxBots]
    \cup [at : {"match", "expired", "owner"}, user : User, bot : 1..MaxBots,
          code : 1..MaxCodes]
    \cup [at : {"redeem"}, user : User, bot : 1..MaxBots, code : 1..MaxCodes,
          fresh : BOOLEAN]
    \cup [at : {"failed", "count"}, user : User, account : Account]

BindTypeOK ==
  /\ accounts \in [Account -> [made : BOOLEAN, admin : BOOLEAN, handle : BOOLEAN]]
  /\ \A b \in DOMAIN bots :
        bots[b] \in [owner : Account, enabled : BOOLEAN]
  /\ Len(bots) <= MaxBots
  /\ \A c \in DOMAIN codes :
        codes[c] \in [bot : DOMAIN bots, row : {"open", "consumed", "deleted"}]
  /\ identity \in [User -> Account \cup {NoAccount}]
  /\ bindings \subseteq (DOMAIN bots) \X User
  /\ attempts \in [Account \X User -> [failures : 0..MaxBinds, locked : BOOLEAN]]
  /\ jobs \in [Job -> Busy \cup {Idle}]
  /\ redeemed \in [1..MaxCodes -> 0..2]

BindInit ==
  /\ accounts = [a \in Account |-> Missing]
  /\ bots = <<>>
  /\ codes = <<>>
  /\ identity = [u \in User |-> NoAccount]
  /\ bindings = {}
  /\ attempts = [p \in Account \X User |-> NoRow]
  /\ jobs = [j \in Job |-> Idle]
  /\ redeemed = [c \in 1..MaxCodes |-> 0]
  /\ used = [binds |-> 0, upserts |-> 0]

(****************************************************************************)
(* Accounts                                                                 *)
(****************************************************************************)

(* provision_account: account, workspace, membership and settings are one   *)
(* transaction; the username is UNIQUE.                                     *)
Provision(a, admin, handle) ==
  /\ ~accounts[a].made
  /\ accounts' = [accounts EXCEPT
       ![a] = [made |-> TRUE, admin |-> admin, handle |-> handle]]

(* bootstrap_admin from the command line.  An existing account is returned  *)
(* or refused; neither changes it.                                          *)
BootstrapAdmin ==
  /\ \E a \in Admins : Provision(a, TRUE, FALSE)
  /\ UNCHANGED <<bots, codes, identity, bindings, attempts, jobs, redeemed, used>>

(****************************************************************************)
(* Bots                                                                     *)
(****************************************************************************)

(* list_bots: the bots of the account's workspace.                          *)
BotsOf(a) == {b \in DOMAIN bots : bots[b].owner = a}

(* upsert_bot looks at the first one only.                                  *)
FirstBot(a) ==
  IF BotsOf(a) = {} THEN 0 ELSE CHOOSE b \in BotsOf(a) : \A c \in BotsOf(a) : b <= c

(* The write of upsert_bot: update the bot that was read, or insert one.    *)
WriteBot(a, seen, enable) ==
  bots' = IF seen # 0 THEN [bots EXCEPT ![seen].enabled = enable]
                      ELSE Append(bots, [owner |-> a, enabled |-> enable])

(* A manager of the workspace posts its bot: upsert_bot reads.              *)
UpsertRead(j) ==
  \E a \in Account, enable \in Wanted :
    /\ jobs[j] = Idle
    /\ accounts[a].made
    /\ used.upserts < MaxUpserts
    /\ jobs' = [jobs EXCEPT ![j] = [at |-> "upsert", account |-> a,
                                    seen |-> FirstBot(a), enable |-> enable]]
    /\ used' = [used EXCEPT !.upserts = @ + 1]
    /\ UNCHANGED <<accounts, bots, codes, identity, bindings, attempts, redeemed>>

(* ... and writes.                                                          *)
UpsertWrite(j) ==
  /\ jobs[j].at = "upsert"
  /\ jobs[j].seen # 0 \/ Len(bots) < MaxBots
  /\ WriteBot(jobs[j].account, jobs[j].seen, jobs[j].enable)
  /\ jobs' = [jobs EXCEPT ![j] = Idle]
  /\ UNCHANGED <<accounts, codes, identity, bindings, attempts, redeemed, used>>

(****************************************************************************)
(* Bind codes                                                               *)
(****************************************************************************)

(* generate_bind_code first deletes the open codes of the bot ...           *)
GenerateDelete(j) ==
  \E b \in DOMAIN bots :
    /\ jobs[j] = Idle
    /\ Len(codes) < MaxCodes
    /\ codes' = [c \in DOMAIN codes |->
                   IF codes[c].bot = b /\ codes[c].row = "open"
                   THEN [codes[c] EXCEPT !.row = "deleted"] ELSE codes[c]]
    /\ jobs' = [jobs EXCEPT ![j] = [at |-> "issue", bot |-> b]]
    /\ UNCHANGED <<accounts, bots, identity, bindings, attempts, redeemed, used>>

(* ... and then inserts the new one, in a statement of its own.             *)
GenerateInsert(j) ==
  /\ jobs[j].at = "issue"
  /\ Len(codes) < MaxCodes
  /\ codes' = Append(codes, [bot |-> jobs[j].bot, row |-> "open"])
  /\ jobs' = [jobs EXCEPT ![j] = Idle]
  /\ UNCHANGED <<accounts, bots, identity, bindings, attempts, redeemed, used>>

OpenCodes(b) == {c \in DOMAIN codes : codes[c].bot = b /\ codes[c].row = "open"}
Newest(b) == CHOOSE c \in OpenCodes(b) : \A d \in OpenCodes(b) : d <= c

(* /bind at bot b: redeem_bind_code asks is_locked; a locked user is told    *)
(* so and nothing changes.                                                  *)
Bind(j) ==
  \E b \in DOMAIN bots, u \in User :
    /\ jobs[j] = Idle
    /\ used.binds < MaxBinds
    /\ ~attempts[<<bots[b].owner, u>>].locked
    /\ jobs' = [jobs EXCEPT ![j] = [at |-> "find", user |-> u, bot |-> b]]
    /\ used' = [used EXCEPT !.binds = @ + 1]
    /\ UNCHANGED <<accounts, bots, codes, identity, bindings, attempts, redeemed>>

(* What a /bind that was refused still has to do: count the failure.        *)
Refused(job) == [at |-> "failed", user |-> job.user, account |-> bots[job.bot].owner]

Keep(job, at) == [at |-> at, user |-> job.user, bot |-> job.bot, code |-> job.code]

(* SELECT id, expires_at: the newest open code of the bot, or none.         *)
BindFindsCode(j) ==
  LET job == jobs[j] IN
  /\ job.at = "find"
  /\ jobs' = [jobs EXCEPT ![j] =
       IF OpenCodes(job.bot) = {} THEN Refused(job)
       ELSE [at |-> "match", user |-> job.user, bot |-> job.bot,
             code |-> Newest(job.bot)]]
  /\ UNCHANGED <<accounts, bots, codes, identity, bindings, attempts, redeemed,
                 used>>

(* SELECT code_hmac of that id, consumed or not; a row deleted meanwhile    *)
(* fails the command.  The code presented is another one, or it is this one *)
(* and its deadline has passed or has not.                                  *)
BindMatchesCode(j) ==
  LET job == jobs[j] IN
  /\ job.at = "match"
  /\ \E next \in {Refused(job), Keep(job, "expired"), Keep(job, "owner")} :
       jobs' = [jobs EXCEPT ![j] =
                  IF codes[job.code].row = "deleted" THEN Idle ELSE next]
  /\ UNCHANGED <<accounts, bots, codes, identity, bindings, attempts, redeemed,
                 used>>

(* The expired code is deleted by its id, consumed meanwhile or not.        *)
BindDeletesExpired(j) ==
  LET job == jobs[j] IN
  /\ job.at = "expired"
  /\ codes' = [codes EXCEPT ![job.code].row = "deleted"]
  /\ jobs' = [jobs EXCEPT ![j] = Refused(job)]
  /\ UNCHANGED <<accounts, bots, identity, bindings, attempts, redeemed, used>>

(* The identity is read before the transaction: a user of another account   *)
(* is refused, and whether a row must be inserted is decided here.          *)
BindReadsIdentity(j) ==
  LET job == jobs[j]
      owner == identity[job.user]
  IN
  /\ job.at = "owner"
  /\ jobs' = [jobs EXCEPT ![j] =
       IF owner \in {NoAccount, bots[job.bot].owner}
       THEN [at |-> "redeem", user |-> job.user, bot |-> job.bot,
             code |-> job.code, fresh |-> owner = NoAccount]
       ELSE Idle]
  /\ UNCHANGED <<accounts, bots, codes, identity, bindings, attempts, redeemed,
                 used>>

(* Mutant: the code is marked consumed whatever its row says.               *)
ConsumableAlways(c) == TRUE

(* UPDATE bind_codes ... WHERE id = ? AND consumed_at IS NULL finds the row. *)
Consumable(c) == codes[c].row = "open"

(* Mutant: the identity is written over whoever owns it by now.             *)
InsertOverwrites(u) == TRUE

(* INSERT INTO external_identities: UNIQUE (channel, external_user_id).     *)
Insertable(u) == identity[u] = NoAccount

(* The transaction of redeem_bind_code: consume, identity, binding, reset   *)
(* of the failures.  A code consumed or deleted meanwhile, or an identity   *)
(* inserted meanwhile, rolls everything back.                               *)
BindCommit(j) ==
  LET job == jobs[j]
      a == bots[job.bot].owner
  IN
  /\ job.at = "redeem"
  /\ jobs' = [jobs EXCEPT ![j] = Idle]
  /\ IF Consumable(job.code) /\ (job.fresh => Insertable(job.user))
     THEN /\ codes' = [codes EXCEPT ![job.code].row = "consumed"]
          /\ identity' = IF job.fresh THEN [identity EXCEPT ![job.user] = a]
                                      ELSE identity
          /\ bindings' = bindings \cup {<<job.bot, job.user>>}
          /\ attempts' = [attempts EXCEPT ![<<a, job.user>>] = NoRow]
          /\ redeemed' = [redeemed EXCEPT ![job.code] = @ + 1]
     ELSE UNCHANGED <<codes, identity, bindings, attempts, redeemed>>
  /\ UNCHANGED <<accounts, bots, used>>

(* record_bind_failure counts in one statement ...                          *)
RecordFailure(j) ==
  LET p == <<jobs[j].account, jobs[j].user>> IN
  /\ jobs[j].at = "failed"
  /\ attempts' = [attempts EXCEPT ![p].failures = @ + 1]
  /\ jobs' = [jobs EXCEPT ![j].at = "count"]
  /\ UNCHANGED <<accounts, bots, codes, identity, bindings, redeemed, used>>

(* ... reads the count back and locks in another.  A redemption between the *)
(* two deletes the row: the read finds none and the command fails.          *)
LockAtLimit(j) ==
  LET p == <<jobs[j].account, jobs[j].user>> IN
  /\ jobs[j].at = "count"
  /\ attempts' = [attempts EXCEPT ![p].locked = @ \/ attempts[p].failures >= Limit]
  /\ jobs' = [jobs EXCEPT ![j] = Idle]
  /\ UNCHANGED <<accounts, bots, codes, identity, bindings, redeemed, used>>

(* Fifteen minutes pass: the lock ends, the failures stay counted.          *)
LockEnds ==
  \E p \in Account \X User :
    /\ attempts[p].locked
    /\ attempts' = [attempts EXCEPT ![p].locked = FALSE]
    /\ UNCHANGED <<accounts, bots, codes, identity, bindings, jobs, redeemed, used>>

Request(j) ==
  \/ UpsertRead(j) \/ UpsertWrite(j)
  \/ GenerateDelete(j) \/ GenerateInsert(j)
  \/ Bind(j) \/ BindFindsCode(j) \/ BindMatchesCode(j) \/ BindDeletesExpired(j)
  \/ BindReadsIdentity(j) \/ BindCommit(j)
  \/ RecordFailure(j) \/ LockAtLimit(j)

BindNext ==
  \/ BootstrapAdmin \/ LockEnds
  \/ \E j \in Job : Request(j)

(* resolve_bound_actor: the account a command of user u on bot b runs as.   *)
ResolveBoundActor(b, u) == IF <<b, u>> \in bindings THEN identity[u] ELSE NoAccount

------------------------------------------------------------------------------

(* A bind code binds at most one user, once.  Two /bind commands that found *)
(* the same code do not both commit; the code on offer is one that nobody   *)
(* has redeemed; and a code that is gone - replaced by a newer one, or      *)
(* deleted as expired, by its id, perhaps after it was consumed - is not    *)
(* redeemed any more by a command that had already found it and checked it  *)
(* (telegram/mod.rs:394-423, 440-450).                                      *)
CodeRedeemedOnce ==
  [][\A c \in DOMAIN codes :
       /\ redeemed'[c] # redeemed[c] => redeemed[c] = 0 /\ redeemed'[c] = 1
       /\ codes'[c].row = "open" => redeemed'[c] = 0
       /\ codes[c].row = "deleted" =>
            codes'[c].row = "deleted" /\ redeemed'[c] = redeemed[c]]_bindVars

(* Whoever sends a command to a bot runs it as the owner of that bot or as  *)
(* nobody: the identity that /bind or the importer read before writing can  *)
(* have been given to another account meanwhile, and no binding survives    *)
(* that disagrees (telegram/mod.rs:424-433, migration/mod.rs:980-990).      *)
BoundToOwner ==
  \A b \in DOMAIN bots, u \in User :
    ResolveBoundActor(b, u) \in {bots[b].owner, NoAccount}
==============================================================================
