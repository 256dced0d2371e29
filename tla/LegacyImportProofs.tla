-------------------------- MODULE LegacyImportProofs --------------------------
(* Proofs about TelegramBinding beside LegacyImport, for every set of         *)
(* accounts, users, jobs and files, and every bound.                          *)
EXTENDS LegacyImport, SequenceTheorems, WellFoundedInduction, TLAPS

Bot == [owner : Account, enabled : BOOLEAN]
Code == [bot : Nat, row : {"open", "consumed", "deleted"}]

(* The fields of a job and of a run of the import, as far as they decide      *)
(* about bots, codes and identities.                                          *)
JobShape ==
  [at : {"idle"}]
    \cup [at : {"upsert"}, account : Account, seen : Nat, enable : BOOLEAN]
    \cup [at : {"issue"}, bot : Nat]
    \cup [at : {"find"}, user : User, bot : Nat]
    \cup [at : {"match", "expired", "owner"}, user : User, bot : Nat, code : Nat]
    \cup [at : {"redeem"}, user : User, bot : Nat, code : Nat, fresh : BOOLEAN]
    \cup [at : {"failed", "count"}, user : User, account : Account]
Early == {"stopped", "done", "handles", "files", "revision", "key", "accounts"}
Stages == Early \cup {"bots", "write", "settings", "bindings", "identity", "bind"}
RunShape ==
  [at : Stages, n : Nat, left : SUBSET (Account \cup (Account \X User)), files : SUBSET File,
   item : SUBSET (File \cup Account \cup (Account \X User)), seen : Nat, fresh : BOOLEAN,
   made : SUBSET (Account \X Nat)]

Shape ==
  /\ bots \in Seq(Bot) /\ codes \in Seq(Code)
  /\ identity \in [User -> Account \cup {NoAccount}]
  /\ bindings \subseteq Nat \X User
  /\ jobs \in [Job -> JobShape]
  /\ redeemed \in [1 .. MaxCodes -> Nat]
  /\ run \in RunShape
  /\ Len(codes) <= MaxCodes

(* Who is bound to a bot belongs to its owner; a request or an import that    *)
(* found an identity or a bot found what is still there.                      *)
OwnedBy(b, a) == b \in DOMAIN bots /\ bots[b].owner = a
BindingsOwned == \A p \in bindings : OwnedBy(p[1], identity[p[2]])
JobKnows(j) ==
  /\ jobs[j].at = "upsert" /\ jobs[j].seen # 0 => jobs[j].seen \in DOMAIN bots
  /\ jobs[j].at = "find" => jobs[j].bot \in DOMAIN bots
  /\ jobs[j].at \in {"match", "expired", "owner", "redeem"} =>
       jobs[j].bot \in DOMAIN bots /\ jobs[j].code \in DOMAIN codes
  /\ jobs[j].at = "redeem" /\ ~jobs[j].fresh => OwnedBy(jobs[j].bot, identity[jobs[j].user])
JobsKnow == \A j \in Job : JobKnows(j)
HasMade(a) == \E m \in run.made : m[1] = a
RunKnows ==
  /\ \A m \in run.made : OwnedBy(m[2], m[1])
  /\ run.at \in Early => run.left \subseteq Account
  /\ run.at \in {"bots", "write", "settings"} => run.left \subseteq Tokens
  /\ run.at = "bots" => \A a \in Tokens \ run.left : HasMade(a)
  /\ run.at = "write" =>
       \E a \in Tokens : /\ run.item = {a}
                         /\ run.seen # 0 => OwnedBy(run.seen, a)
                         /\ \A o \in Tokens \ (run.left \cup {a}) : HasMade(o)
  /\ run.at = "settings" => run.seen \in DOMAIN bots /\ \A o \in Tokens \ run.left : HasMade(o)
  /\ run.at \in {"bindings", "identity", "bind"} =>
       run.left \subseteq Pending /\ \A o \in Tokens : HasMade(o)
  /\ run.at = "identity" =>
       \E p \in Pending : run.item = {p} /\ (~run.fresh => identity[p[2]] = p[1])
  /\ run.at = "bind" => \E p \in Pending : run.item = {p} /\ identity[p[2]] = p[1]
OwnerInv == BindingsOwned /\ JobsKnow /\ RunKnows

(* BoundToOwner is what OwnerInv says of the bindings.                        *)
LEMMA OwnerInvImplies == ASSUME Shape, OwnerInv PROVE BoundToOwner
<1>. SUFFICES ASSUME NEW b \in DOMAIN bots, NEW u \in User
              PROVE  ResolveBoundActor(b, u) \in {bots[b].owner, NoAccount}
  BY Zenon DEF BoundToOwner
<1>1. CASE <<b, u>> \in bindings
  <2>1. OwnedBy(b, identity[u]) BY <1>1, Zenon DEF OwnerInv, BindingsOwned
  <2>. QED BY <1>1, <2>1, Zenon DEF OwnedBy, ResolveBoundActor
<1>2. CASE <<b, u>> \notin bindings BY <1>2, Zenon DEF ResolveBoundActor
<1>. QED BY <1>1, <1>2, Zenon

(* A code that was redeemed was redeemed once, and is not on offer any more.  *)
(* Its row need not say "consumed": a /bind that found the code expired may   *)
(* have deleted it since.                                                     *)
Spent(c) == c \in DOMAIN codes /\ codes[c].row # "open"
CodeInv ==
  \A c \in 1 .. MaxCodes : redeemed[c] \in {0, 1} /\ (redeemed[c] = 1 => Spent(c))

(* The initial state has no rows at all.                                      *)
LEMMA InitBound == Init => Shape /\ OwnerInv /\ CodeInv
<1>. SUFFICES ASSUME Init PROVE Shape /\ OwnerInv /\ CodeInv BY Zenon
<1>. USE BindingAssumption DEF Init, BindInit, Idle
<1>1. bots \in Seq(Bot) /\ codes \in Seq(Code) /\ Len(codes) = 0 /\ DOMAIN codes = {} OBVIOUS
<1>2. jobs \in [Job -> JobShape] /\ \A j \in Job : jobs[j].at = "idle" BY Zenon DEF JobShape
<1>3. run \in RunShape /\ run.at = "stopped" /\ run.made = {}
  <2>1. run = Stopped BY Zenon
  <2>2. Stopped.at = "stopped" /\ Stopped.made = {} BY Zenon DEF Stopped
  <2>3. Stopped \in RunShape BY Zenon DEF Stopped, RunShape, Stages, Early
  <2>. QED BY <2>1, <2>2, <2>3, Zenon
<1>4. Shape
  <2>1. MaxCodes \in Nat BY Zenon DEF BindingAssumption
  <2>. QED BY <1>1, <1>2, <1>3, <2>1 DEF Shape
<1>5. OwnerInv
  <2>1. run.left = {} BY Zenon DEF Stopped
  <2>. QED BY <1>2, <1>3, <2>1, Zenon DEF OwnerInv, BindingsOwned, JobsKnow, JobKnows, RunKnows
<1>6. CodeInv BY <1>1 DEF CodeInv, Spent
<1>. QED BY <1>4, <1>5, <1>6, Zenon
------------------------------------------------------------------------------
(* Bots keep their owners, users their account, codes their number.           *)
Stays ==
  /\ \A b \in DOMAIN bots : b \in DOMAIN bots' /\ bots'[b].owner = bots[b].owner
  /\ \A u \in User : identity[u] # NoAccount => identity'[u] = identity[u]
  /\ \A c \in DOMAIN codes : c \in DOMAIN codes'

(* An owner is an account, never NoAccount.                                   *)
LEMMA OwnerIsAccount ==
  ASSUME Shape, NEW b, NEW a, OwnedBy(b, a)
  PROVE  a \in Account /\ a # NoAccount /\ b \in Nat
<1>1. DOMAIN bots = 1 .. Len(bots) /\ Len(bots) \in Nat BY DEF Shape
<1>2. bots[b] \in Bot BY <1>1 DEF Shape, OwnedBy
<1>. QED BY <1>1, <1>2, BindingAssumption DEF OwnedBy, Bot

(* What was owned stays owned.                                                *)
LEMMA OwnedStays ==
  ASSUME Shape, Stays, NEW b, NEW a, OwnedBy(b, a)
  PROVE  b \in DOMAIN bots' /\ bots'[b].owner = a
BY Zenon DEF Stays, OwnedBy

(* What the bindings, an unchanged job and an unchanged run know stays true.  *)
LEMMA BindingsStay ==
  ASSUME Shape, OwnerInv, Stays, NEW p \in bindings
  PROVE  p[1] \in DOMAIN bots' /\ bots'[p[1]].owner = identity'[p[2]]
<1>1. OwnedBy(p[1], identity[p[2]]) BY Zenon DEF OwnerInv, BindingsOwned
<1>2. identity[p[2]] # NoAccount BY <1>1, OwnerIsAccount, Zenon
<1>3. p[2] \in User BY Zenon DEF Shape
<1>. QED BY <1>1, <1>2, <1>3, OwnedStays, Zenon DEF Stays

LEMMA JobStays ==
  ASSUME Shape, OwnerInv, Stays, NEW j \in Job, jobs'[j] = jobs[j]
  PROVE  JobKnows(j)'
<1>1. JobKnows(j) BY Zenon DEF OwnerInv, JobsKnow
<1>2. ASSUME jobs[j].at = "redeem", ~jobs[j].fresh
      PROVE  OwnedBy(jobs[j].bot, identity[jobs[j].user])'
  <2>1. OwnedBy(jobs[j].bot, identity[jobs[j].user]) BY <1>1, <1>2, Zenon DEF JobKnows
  <2>2. identity[jobs[j].user] # NoAccount BY <2>1, OwnerIsAccount, Zenon
  <2>3. jobs[j].user \in User BY <1>2, Zenon DEF Shape, JobShape
  <2>. QED BY <2>1, <2>2, <2>3, OwnedStays, Zenon DEF Stays, OwnedBy
<1>. QED BY <1>1, <1>2, Zenon DEF JobKnows, Stays

LEMMA RunStays ==
  ASSUME Shape, OwnerInv, Stays, run' = run
  PROVE  RunKnows'
<1>1. RunKnows BY Zenon DEF OwnerInv
<1>2. \A m \in run.made : OwnedBy(m[2], m[1])' BY <1>1, OwnedStays, Zenon DEF RunKnows, OwnedBy
<1>3. \A p \in Pending : identity[p[2]] = p[1] => identity'[p[2]] = p[1]
  BY BindingAssumption, ImportAssumption DEF Pending, Stays
<1>4. \A a \in Tokens : OwnedBy(run.seen, a) => OwnedBy(run.seen, a)' BY OwnedStays, Zenon DEF OwnedBy
<1>5. run.seen \in DOMAIN bots => run.seen \in DOMAIN bots' BY Zenon DEF Stays
<1>. QED BY <1>1, <1>2, <1>3, <1>4, <1>5, Zenon DEF RunKnows, HasMade
------------------------------------------------------------------------------
(* Nonempty sets of numbers have a least element, bounded ones a greatest.    *)
LEMMA Least ==
  ASSUME NEW S \in SUBSET Nat, S # {}
  PROVE  \E n \in S : \A m \in S : n <= m
<1>. DEFINE R == OpToRel(<, Nat)
<1>1. IsWellFoundedOn(R, Nat) BY NatLessThanWellFounded, Zenon
<1>2. \A x, y \in Nat : x < y => <<x, y>> \in R BY Zenon DEF OpToRel
<1>. HIDE DEF R
<1>3. PICK n \in S : \A m \in S : ~(<<m, n>> \in R) BY <1>1, WFMin, Zenon
<1>4. ASSUME NEW m \in S PROVE n <= m
  <2>1. n \in Nat /\ m \in Nat /\ ~(m < n) BY <1>2, <1>3, Zenon
  <2>. QED BY <2>1
<1>. QED BY <1>4, Zenon

LEMMA Greatest ==
  ASSUME NEW S \in SUBSET Nat, S # {}, NEW k \in Nat, \A m \in S : m <= k
  PROVE  \E n \in S : \A m \in S : m <= n
<1>. DEFINE U == {n \in Nat : \A m \in S : m <= n}
<1>1. U \in SUBSET Nat /\ k \in U BY Zenon
<1>2. PICK n \in U : \A m \in U : n <= m BY <1>1, Least, Zenon
<1>3. n \in S
  <2>. SUFFICES ASSUME n \notin S PROVE FALSE BY Zenon
  <2>1. \A m \in S : m < n BY <1>2
  <2>2. n \in Nat /\ n - 1 \in Nat
    <3>1. PICK m \in S : TRUE BY Zenon
    <3>. QED BY <2>1, <3>1
  <2>3. \A m \in S : m <= n - 1 BY <2>1, <2>2
  <2>4. n - 1 \in U BY <2>2, <2>3, Zenon
  <2>. QED BY <1>2, <2>2, <2>4
<1>. QED BY <1>2, <1>3, Zenon

(* upsert_bot finds a bot of the account, or none.                            *)
LEMMA FirstBotFound ==
  ASSUME Shape, NEW a \in Account
  PROVE  FirstBot(a) \in Nat /\ (FirstBot(a) # 0 => OwnedBy(FirstBot(a), a))
<1>1. DOMAIN bots = 1 .. Len(bots) /\ Len(bots) \in Nat BY DEF Shape
<1>2. CASE BotsOf(a) = {} BY <1>2, Zenon DEF FirstBot
<1>3. CASE BotsOf(a) # {}
  <2>1. BotsOf(a) \in SUBSET Nat BY <1>1 DEF BotsOf
  <2>2. \E b \in BotsOf(a) : \A c \in BotsOf(a) : b <= c BY <1>3, <2>1, Least, Zenon
  <2>3. FirstBot(a) \in BotsOf(a) BY <1>3, <2>2, Zenon DEF FirstBot
  <2>. QED BY <2>1, <2>3, Zenon DEF BotsOf, OwnedBy
<1>. QED BY <1>2, <1>3, Zenon

(* redeem_bind_code finds an existing row.                                    *)
LEMMA NewestFound ==
  ASSUME Shape, NEW b, OpenCodes(b) # {}
  PROVE  Newest(b) \in DOMAIN codes /\ codes[Newest(b)].row = "open"
<1>1. DOMAIN codes = 1 .. Len(codes) /\ Len(codes) \in Nat BY DEF Shape
<1>2. OpenCodes(b) \in SUBSET Nat /\ \A c \in OpenCodes(b) : c <= Len(codes) BY <1>1 DEF OpenCodes
<1>3. \E c \in OpenCodes(b) : \A d \in OpenCodes(b) : d <= c BY <1>1, <1>2, Greatest, Zenon
<1>4. Newest(b) \in OpenCodes(b) BY <1>3, Zenon DEF Newest
<1>. QED BY <1>4, Zenon DEF OpenCodes

(* A write of upsert_bot keeps the owners and adds at most a bot of its own.  *)
LEMMA BotWritten ==
  ASSUME Shape, NEW a \in Account, NEW s \in Nat, NEW e \in BOOLEAN,
         s # 0 => s \in DOMAIN bots, WriteBot(a, s, e)
  PROVE  /\ bots' \in Seq(Bot)
         /\ \A b \in DOMAIN bots : b \in DOMAIN bots' /\ bots'[b].owner = bots[b].owner
         /\ s = 0 => Len(bots) + 1 \in DOMAIN bots' /\ bots'[Len(bots) + 1].owner = a
<1>1. /\ DOMAIN bots = 1 .. Len(bots) /\ Len(bots) \in Nat
      /\ \A b \in DOMAIN bots : bots[b] \in Bot
  BY DEF Shape
<1>2. CASE s = 0
  <2>1. bots' = Append(bots, [owner |-> a, enabled |-> e]) BY <1>2, Zenon DEF WriteBot
  <2>2. [owner |-> a, enabled |-> e] \in Bot BY Zenon DEF Bot
  <2>. QED BY <1>1, <1>2, <2>1, <2>2 DEF Shape
<1>3. CASE s # 0
  <2>1. bots' = [bots EXCEPT ![s].enabled = e] BY <1>3, Zenon DEF WriteBot
  <2>2. \A b \in DOMAIN bots : bots'[b] \in Bot /\ bots'[b].owner = bots[b].owner
    BY <1>1, <2>1, Zenon DEF Bot
  <2>3. bots' \in [1 .. Len(bots) -> Bot] BY <1>1, <2>1, <2>2, Zenon DEF Bot
  <2>4. bots' \in Seq(Bot) BY <1>1, <2>3, SeqDef, Zenon
  <2>. QED BY <1>1, <1>3, <2>2, <2>3, <2>4, Zenon
<1>. QED BY <1>2, <1>3, Zenon
------------------------------------------------------------------------------
(* The steps of a request.  They leave the run of the import alone.           *)
LEMMA RequestKeeps ==
  ASSUME Shape, OwnerInv, Stays, UNCHANGED <<bindings, run>>,
         NEW j \in Job, NEW x \in JobShape, jobs' = [jobs EXCEPT ![j] = x], JobKnows(j)'
  PROVE  jobs' \in [Job -> JobShape] /\ OwnerInv'
<1>1. jobs' \in [Job -> JobShape] BY Zenon DEF Shape
<1>2. BindingsOwned' BY BindingsStay, Zenon DEF BindingsOwned, OwnedBy
<1>3. ASSUME NEW i \in Job PROVE JobKnows(i)'
  <2>1. CASE i = j BY <2>1, Zenon
  <2>2. CASE i # j
    <3>1. jobs'[i] = jobs[i] BY <2>2, Zenon DEF Shape
    <3>. QED BY <3>1, JobStays, Zenon
  <2>. QED BY <2>1, <2>2, Zenon
<1>4. JobsKnow' BY <1>3, Zenon DEF JobsKnow
<1>. QED BY <1>1, <1>2, <1>4, RunStays, Zenon DEF OwnerInv

(* A change of one row of bind_codes.                                         *)
LEMMA RowChanged ==
  ASSUME Shape, NEW c \in DOMAIN codes, NEW r \in {"open", "consumed", "deleted"},
         codes' = [codes EXCEPT ![c].row = r]
  PROVE  /\ codes' \in Seq(Code) /\ Len(codes') = Len(codes) /\ DOMAIN codes' = DOMAIN codes
         /\ codes'[c].row = r
         /\ \A d \in DOMAIN codes : d # c => codes'[d] = codes[d]
<1>1. /\ DOMAIN codes = 1 .. Len(codes) /\ Len(codes) \in Nat
      /\ \A d \in DOMAIN codes : codes[d] \in Code
  BY DEF Shape
<1>2. \A d \in DOMAIN codes : codes'[d] \in Code BY <1>1, Zenon DEF Code
<1>3. codes' \in [1 .. Len(codes) -> Code] BY <1>1, <1>2, Zenon
<1>4. codes' \in Seq(Code) BY <1>1, <1>3, SeqDef
<1>5. codes'[c].row = r BY <1>1, Zenon DEF Code
<1>. QED BY <1>1, <1>3, <1>4, <1>5

LEMMA UpsertReadKeeps ==
  ASSUME Shape, OwnerInv, CodeInv, NEW j \in Job, UpsertRead(j), run' = run
  PROVE  Shape' /\ OwnerInv' /\ CodeInv'
<1>1. PICK a \in Account, enable \in Wanted :
        jobs' = [jobs EXCEPT ![j] = [at |-> "upsert", account |-> a,
                                     seen |-> FirstBot(a), enable |-> enable]]
  BY Zenon DEF UpsertRead
<1>. DEFINE x == [at |-> "upsert", account |-> a, seen |-> FirstBot(a), enable |-> enable]
<1>2. UNCHANGED <<bots, codes, identity, bindings, redeemed>> BY Zenon DEF UpsertRead
<1>3. FirstBot(a) \in Nat /\ (FirstBot(a) # 0 => FirstBot(a) \in DOMAIN bots)
  BY FirstBotFound, Zenon DEF OwnedBy
<1>4. x \in JobShape BY <1>3, BindingAssumption, Zenon DEF JobShape
<1>5. Stays BY <1>2, Zenon DEF Stays
<1>6. jobs'[j] = x BY <1>1, Zenon DEF Shape
<1>7. JobKnows(j)' BY <1>2, <1>3, <1>6 DEF JobKnows
<1>8. jobs' \in [Job -> JobShape] /\ OwnerInv' BY <1>1, <1>2, <1>4, <1>5, <1>7, RequestKeeps, Zenon
<1>. QED BY <1>2, <1>8, Zenon DEF Shape, CodeInv, Spent

LEMMA UpsertWriteKeeps ==
  ASSUME Shape, OwnerInv, CodeInv, NEW j \in Job, UpsertWrite(j), run' = run
  PROVE  Shape' /\ OwnerInv' /\ CodeInv'
<1>1. UNCHANGED <<codes, identity, bindings, redeemed>> /\ jobs' = [jobs EXCEPT ![j] = Idle]
  BY Zenon DEF UpsertWrite
<1>2. jobs[j].account \in Account /\ jobs[j].seen \in Nat /\ jobs[j].enable \in BOOLEAN
  <2>1. jobs[j] \in JobShape /\ jobs[j].at = "upsert" BY Zenon DEF Shape, UpsertWrite
  <2>. QED BY <2>1, Zenon DEF JobShape
<1>3. jobs[j].seen # 0 => jobs[j].seen \in DOMAIN bots
  BY Zenon DEF OwnerInv, JobsKnow, JobKnows, UpsertWrite
<1>4. /\ bots' \in Seq(Bot)
      /\ \A b \in DOMAIN bots : b \in DOMAIN bots' /\ bots'[b].owner = bots[b].owner
  <2>1. WriteBot(jobs[j].account, jobs[j].seen, jobs[j].enable) BY Zenon DEF UpsertWrite
  <2>. QED BY <1>2, <1>3, <2>1, BotWritten, Zenon
<1>5. Stays BY <1>1, <1>4, Zenon DEF Stays
<1>6. Idle \in JobShape /\ jobs'[j] = Idle BY <1>1, Zenon DEF Shape, JobShape, Idle
<1>7. JobKnows(j)' BY <1>6 DEF JobKnows, Idle
<1>8. jobs' \in [Job -> JobShape] /\ OwnerInv' BY <1>1, <1>5, <1>6, <1>7, RequestKeeps, Zenon
<1>. QED BY <1>1, <1>4, <1>8, Zenon DEF Shape, CodeInv, Spent

LEMMA GenerateDeleteKeeps ==
  ASSUME Shape, OwnerInv, CodeInv, NEW j \in Job, GenerateDelete(j), run' = run
  PROVE  Shape' /\ OwnerInv' /\ CodeInv'
<1>1. PICK b \in DOMAIN bots :
        /\ codes' = [c \in DOMAIN codes |->
                       IF codes[c].bot = b /\ codes[c].row = "open"
                       THEN [codes[c] EXCEPT !.row = "deleted"] ELSE codes[c]]
        /\ jobs' = [jobs EXCEPT ![j] = [at |-> "issue", bot |-> b]]
  BY Zenon DEF GenerateDelete
<1>2. UNCHANGED <<bots, identity, bindings, redeemed>> BY Zenon DEF GenerateDelete
<1>3. /\ DOMAIN codes = 1 .. Len(codes) /\ Len(codes) \in Nat
      /\ \A d \in DOMAIN codes : codes[d] \in Code
  BY DEF Shape
<1>4. \A d \in DOMAIN codes :
        codes'[d] \in Code /\ (codes[d].row # "open" => codes'[d].row # "open")
  BY <1>1, <1>3, Zenon DEF Code
<1>5. codes' \in [1 .. Len(codes) -> Code] BY <1>1, <1>3, <1>4, Zenon
<1>6. codes' \in Seq(Code) /\ Len(codes') = Len(codes) /\ DOMAIN codes' = DOMAIN codes
  BY <1>3, <1>5, SeqDef
<1>7. Stays BY <1>2, <1>6, Zenon DEF Stays
<1>8. [at |-> "issue", bot |-> b] \in JobShape
  <2>1. b \in Nat
    <3>1. DOMAIN bots = 1 .. Len(bots) /\ Len(bots) \in Nat BY DEF Shape
    <3>. QED BY <3>1
  <2>. QED BY <2>1, Zenon DEF JobShape
<1>9. jobs'[j] = [at |-> "issue", bot |-> b] BY <1>1, Zenon DEF Shape
<1>10. JobKnows(j)' BY <1>9 DEF JobKnows
<1>11. jobs' \in [Job -> JobShape] /\ OwnerInv' BY <1>1, <1>2, <1>7, <1>8, <1>10, RequestKeeps, Zenon
<1>12. CodeInv' BY <1>2, <1>4, <1>6, Zenon DEF CodeInv, Spent
<1>. QED BY <1>2, <1>6, <1>11, <1>12, Zenon DEF Shape

LEMMA GenerateInsertKeeps ==
  ASSUME Shape, OwnerInv, CodeInv, NEW j \in Job, GenerateInsert(j), run' = run
  PROVE  Shape' /\ OwnerInv' /\ CodeInv'
<1>1. /\ UNCHANGED <<bots, identity, bindings, redeemed>> /\ jobs' = [jobs EXCEPT ![j] = Idle]
      /\ Len(codes) < MaxCodes /\ codes' = Append(codes, [bot |-> jobs[j].bot, row |-> "open"])
  BY Zenon DEF GenerateInsert
<1>2. [bot |-> jobs[j].bot, row |-> "open"] \in Code
  <2>1. jobs[j] \in JobShape /\ jobs[j].at = "issue" BY Zenon DEF Shape, GenerateInsert
  <2>2. jobs[j].bot \in Nat BY <2>1, Zenon DEF JobShape
  <2>. QED BY <2>2, Zenon DEF Code
<1>3. DOMAIN codes = 1 .. Len(codes) /\ Len(codes) \in Nat /\ MaxCodes \in Nat
  BY BindingAssumption DEF Shape
<1>4. /\ codes' \in Seq(Code) /\ Len(codes') = Len(codes) + 1 /\ DOMAIN codes' = 1 .. Len(codes) + 1
      /\ \A c \in DOMAIN codes : codes'[c] = codes[c]
      /\ codes'[Len(codes) + 1].row = "open"
  BY <1>1, <1>2, <1>3 DEF Shape
<1>5. Stays BY <1>1, <1>3, <1>4 DEF Stays
<1>6. Idle \in JobShape /\ jobs'[j] = Idle BY <1>1, Zenon DEF Shape, JobShape, Idle
<1>7. JobKnows(j)' BY <1>6 DEF JobKnows, Idle
<1>8. jobs' \in [Job -> JobShape] /\ OwnerInv' BY <1>1, <1>5, <1>6, <1>7, RequestKeeps, Zenon
<1>9. CodeInv'
  <2>1. \A c \in DOMAIN codes : c \in DOMAIN codes' BY <1>3, <1>4
  <2>. QED BY <1>1, <1>4, <2>1, Zenon DEF CodeInv, Spent
<1>. QED BY <1>1, <1>3, <1>4, <1>8, <1>9 DEF Shape

(* A step of a /bind command that only decides how the command goes on.       *)
LEMMA JobMoves ==
  ASSUME Shape, OwnerInv, CodeInv, UNCHANGED <<bots, codes, identity, bindings, redeemed, run>>,
         NEW j \in Job, NEW x \in JobShape, jobs' = [jobs EXCEPT ![j] = x],
         x.at \in {"idle", "find", "match", "expired", "owner", "failed"},
         x.at = "find" => x.bot \in DOMAIN bots,
         x.at \in {"match", "expired", "owner"} => x.bot \in DOMAIN bots /\ x.code \in DOMAIN codes
  PROVE  Shape' /\ OwnerInv' /\ CodeInv'
<1>1. Stays BY Zenon DEF Stays
<1>2. jobs'[j] = x BY Zenon DEF Shape
<1>3. JobKnows(j)' BY <1>2 DEF JobKnows
<1>4. jobs' \in [Job -> JobShape] /\ OwnerInv' BY <1>1, <1>3, RequestKeeps, Zenon
<1>. QED BY <1>4, Zenon DEF Shape, CodeInv, Spent

(* A /bind that is refused goes on to count the failure of the bot's owner.   *)
LEMMA RefusedShape ==
  ASSUME Shape, NEW job, job.user \in User, job.bot \in DOMAIN bots
  PROVE  Refused(job) \in JobShape /\ Refused(job).at = "failed"
<1>1. bots[job.bot].owner \in Account
  <2>1. bots[job.bot] \in Bot BY DEF Shape
  <2>. QED BY <2>1, Zenon DEF Bot
<1>. QED BY <1>1, Zenon DEF Refused, JobShape

LEMMA BindKeeps ==
  ASSUME Shape, OwnerInv, CodeInv, NEW j \in Job, Bind(j), run' = run
  PROVE  Shape' /\ OwnerInv' /\ CodeInv'
<1>1. PICK b \in DOMAIN bots, u \in User :
        jobs' = [jobs EXCEPT ![j] = [at |-> "find", user |-> u, bot |-> b]]
  BY Zenon DEF Bind
<1>. DEFINE x == [at |-> "find", user |-> u, bot |-> b]
<1>2. UNCHANGED <<bots, codes, identity, bindings, redeemed>> BY Zenon DEF Bind
<1>3. b \in Nat
  <2>1. DOMAIN bots = 1 .. Len(bots) /\ Len(bots) \in Nat BY DEF Shape
  <2>. QED BY <2>1
<1>4. x \in JobShape BY <1>3, Zenon DEF JobShape
<1>5. x.at = "find" /\ x.bot = b BY Zenon
<1>. HIDE DEF x
<1>6. jobs' = [jobs EXCEPT ![j] = x] BY <1>1, Zenon DEF x
<1>7. x.at \notin {"match", "expired", "owner"} BY <1>5
<1>. QED BY <1>2, <1>4, <1>5, <1>6, <1>7, JobMoves, Zenon

LEMMA BindFindsCodeKeeps ==
  ASSUME Shape, OwnerInv, CodeInv, NEW j \in Job, BindFindsCode(j), run' = run
  PROVE  Shape' /\ OwnerInv' /\ CodeInv'
<1>. DEFINE job == jobs[j]
            y == [at |-> "match", user |-> job.user, bot |-> job.bot, code |-> Newest(job.bot)]
<1>1. /\ UNCHANGED <<bots, codes, identity, bindings, redeemed>>
      /\ jobs' = [jobs EXCEPT ![j] = IF OpenCodes(job.bot) = {} THEN Refused(job) ELSE y]
  BY Zenon DEF BindFindsCode
<1>2. job \in JobShape /\ job.at = "find" BY Zenon DEF Shape, BindFindsCode
<1>3. job.user \in User /\ job.bot \in Nat BY <1>2, Zenon DEF JobShape
<1>4. job.bot \in DOMAIN bots BY <1>2, Zenon DEF OwnerInv, JobsKnow, JobKnows
<1>. HIDE DEF job
<1>5. CASE OpenCodes(job.bot) = {}
  <2>1. Refused(job) \in JobShape /\ Refused(job).at = "failed" BY <1>3, <1>4, RefusedShape, Zenon
  <2>2. jobs' = [jobs EXCEPT ![j] = Refused(job)] BY <1>1, <1>5, Zenon
  <2>3. Refused(job).at \notin {"find", "match", "expired", "owner"} BY <2>1
  <2>. QED BY <1>1, <2>1, <2>2, <2>3, JobMoves, Zenon
<1>6. CASE OpenCodes(job.bot) # {}
  <2>1. Newest(job.bot) \in DOMAIN codes BY <1>6, NewestFound, Zenon
  <2>2. Newest(job.bot) \in Nat
    <3>1. DOMAIN codes = 1 .. Len(codes) /\ Len(codes) \in Nat BY DEF Shape
    <3>. QED BY <2>1, <3>1
  <2>3. y \in JobShape BY <1>3, <2>2, Zenon DEF JobShape
  <2>4. y.at = "match" /\ y.bot = job.bot /\ y.code = Newest(job.bot) BY Zenon
  <2>5. jobs' = [jobs EXCEPT ![j] = y] BY <1>1, <1>6, Zenon
  <2>. HIDE DEF y
  <2>6. y.at # "find" BY <2>4
  <2>. QED BY <1>1, <1>4, <2>1, <2>3, <2>4, <2>5, <2>6, JobMoves, Zenon
<1>. QED BY <1>5, <1>6, Zenon

LEMMA BindMatchesCodeKeeps ==
  ASSUME Shape, OwnerInv, CodeInv, NEW j \in Job, BindMatchesCode(j), run' = run
  PROVE  Shape' /\ OwnerInv' /\ CodeInv'
<1>. DEFINE job == jobs[j]
<1>1. /\ UNCHANGED <<bots, codes, identity, bindings, redeemed>>
      /\ \E x \in {Idle, Refused(job), Keep(job, "expired"), Keep(job, "owner")} :
           jobs' = [jobs EXCEPT ![j] = x]
  BY Zenon DEF BindMatchesCode
<1>2. job \in JobShape /\ job.at = "match" BY Zenon DEF Shape, BindMatchesCode
<1>3. job.user \in User /\ job.bot \in Nat /\ job.code \in Nat BY <1>2, Zenon DEF JobShape
<1>4. job.bot \in DOMAIN bots /\ job.code \in DOMAIN codes
  BY <1>2, Zenon DEF OwnerInv, JobsKnow, JobKnows
<1>. HIDE DEF job
<1>5. PICK x \in {Idle, Refused(job), Keep(job, "expired"), Keep(job, "owner")} :
        jobs' = [jobs EXCEPT ![j] = x]
  BY <1>1, Zenon
<1>6. CASE x \in {Idle, Refused(job)}
  <2>1. Idle \in JobShape /\ Idle.at = "idle" BY Zenon DEF Idle, JobShape
  <2>2. Refused(job) \in JobShape /\ Refused(job).at = "failed" BY <1>3, <1>4, RefusedShape, Zenon
  <2>3. x \in JobShape /\ x.at \in {"idle", "failed"} BY <1>6, <2>1, <2>2, Zenon
  <2>4. x.at \notin {"find", "match", "expired", "owner"} BY <2>3
  <2>. QED BY <1>1, <1>5, <2>3, <2>4, JobMoves, Zenon
<1>7. ASSUME NEW at \in {"expired", "owner"}, x = Keep(job, at) PROVE Shape' /\ OwnerInv' /\ CodeInv'
  <2>1. x \in JobShape BY <1>3, <1>7, Zenon DEF Keep, JobShape
  <2>2. x.at = at /\ x.bot = job.bot /\ x.code = job.code BY <1>7, Zenon DEF Keep
  <2>3. x.at # "find" /\ x.at \in {"expired", "owner"} BY <2>2
  <2>. QED BY <1>1, <1>4, <1>5, <2>1, <2>2, <2>3, JobMoves, Zenon
<1>. QED BY <1>5, <1>6, <1>7, Zenon

(* The row goes whatever it says, so a redeemed code stays off offer.         *)
LEMMA BindDeletesExpiredKeeps ==
  ASSUME Shape, OwnerInv, CodeInv, NEW j \in Job, BindDeletesExpired(j), run' = run
  PROVE  Shape' /\ OwnerInv' /\ CodeInv'
<1>. DEFINE job == jobs[j]
<1>1. /\ UNCHANGED <<bots, identity, bindings, redeemed>> /\ jobs' = [jobs EXCEPT ![j] = Refused(job)]
      /\ codes' = [codes EXCEPT ![job.code].row = "deleted"]
  BY Zenon DEF BindDeletesExpired
<1>2. job \in JobShape /\ job.at = "expired" BY Zenon DEF Shape, BindDeletesExpired
<1>3. job.user \in User BY <1>2, Zenon DEF JobShape
<1>4. job.bot \in DOMAIN bots /\ job.code \in DOMAIN codes
  BY <1>2, Zenon DEF OwnerInv, JobsKnow, JobKnows
<1>. HIDE DEF job
<1>5. /\ codes' \in Seq(Code) /\ Len(codes') = Len(codes) /\ DOMAIN codes' = DOMAIN codes
      /\ codes'[job.code].row = "deleted"
      /\ \A d \in DOMAIN codes : d # job.code => codes'[d] = codes[d]
  BY <1>1, <1>4, RowChanged, Zenon
<1>6. Stays BY <1>1, <1>5, Zenon DEF Stays
<1>7. Refused(job) \in JobShape /\ Refused(job).at = "failed" BY <1>3, <1>4, RefusedShape, Zenon
<1>8. jobs'[j] = Refused(job) BY <1>1, Zenon DEF Shape
<1>9. JobKnows(j)' BY <1>7, <1>8 DEF JobKnows
<1>10. jobs' \in [Job -> JobShape] /\ OwnerInv' BY <1>1, <1>6, <1>7, <1>9, RequestKeeps, Zenon
<1>11. CodeInv'
  <2>1. "deleted" # "open" OBVIOUS
  <2>. QED BY <1>1, <1>5, <2>1, Zenon DEF CodeInv, Spent
<1>. QED BY <1>1, <1>5, <1>10, <1>11, Zenon DEF Shape

LEMMA BindReadsIdentityKeeps ==
  ASSUME Shape, OwnerInv, CodeInv, NEW j \in Job, BindReadsIdentity(j), run' = run
  PROVE  Shape' /\ OwnerInv' /\ CodeInv'
<1>. DEFINE job == jobs[j]
            owner == identity[job.user]
            y == [at |-> "redeem", user |-> job.user, bot |-> job.bot, code |-> job.code,
                  fresh |-> owner = NoAccount]
            x == IF owner \in {NoAccount, bots[job.bot].owner} THEN y ELSE Idle
<1>1. UNCHANGED <<bots, codes, identity, bindings, redeemed>> /\ jobs' = [jobs EXCEPT ![j] = x]
  BY Zenon DEF BindReadsIdentity
<1>2. job \in JobShape /\ job.at = "owner" BY Zenon DEF Shape, BindReadsIdentity
<1>3. job.user \in User /\ job.bot \in Nat /\ job.code \in Nat BY <1>2, Zenon DEF JobShape
<1>4. job.bot \in DOMAIN bots /\ job.code \in DOMAIN codes
  BY <1>2, Zenon DEF OwnerInv, JobsKnow, JobKnows
<1>5. x \in JobShape
  <2>1. (owner = NoAccount) \in BOOLEAN BY Zenon
  <2>2. y \in JobShape BY <1>3, <2>1, Zenon DEF JobShape
  <2>3. Idle \in JobShape BY Zenon DEF Idle, JobShape
  <2>. QED BY <2>2, <2>3, Zenon
<1>6. jobs'[j] = x BY <1>1, Zenon DEF Shape
<1>7. JobKnows(j)'
  <2>1. CASE owner \in {NoAccount, bots[job.bot].owner}
    <3>1. jobs'[j] = y BY <1>6, <2>1, Zenon
    <3>2. /\ y.at = "redeem" /\ y.user = job.user /\ y.bot = job.bot /\ y.code = job.code
          /\ y.fresh = (owner = NoAccount)
      BY Zenon
    <3>. HIDE DEF y
    <3>. QED BY <1>1, <1>4, <2>1, <3>1, <3>2, Zenon DEF JobKnows, OwnedBy
  <2>2. CASE owner \notin {NoAccount, bots[job.bot].owner}
    <3>1. jobs'[j] = Idle BY <1>6, <2>2, Zenon
    <3>. QED BY <3>1 DEF JobKnows, Idle
  <2>. QED BY <2>1, <2>2, Zenon
<1>8. Stays BY <1>1, Zenon DEF Stays
<1>. HIDE DEF x
<1>9. jobs' \in [Job -> JobShape] /\ OwnerInv' BY <1>1, <1>5, <1>7, <1>8, RequestKeeps, Zenon
<1>. QED BY <1>1, <1>9, Zenon DEF Shape, CodeInv, Spent

(* Only here do identities, bindings and redemptions change by a request.     *)
LEMMA BindCommitKeeps ==
  ASSUME Shape, OwnerInv, CodeInv, NEW j \in Job, BindCommit(j), run' = run
  PROVE  Shape' /\ OwnerInv' /\ CodeInv'
<1>. DEFINE job == jobs[j]
            a == bots[job.bot].owner
<1>1. bots' = bots /\ jobs' = [jobs EXCEPT ![j] = Idle] BY Zenon DEF BindCommit
<1>2. job \in JobShape /\ job.at = "redeem" BY Zenon DEF Shape, BindCommit
<1>3. job.user \in User /\ job.fresh \in BOOLEAN BY <1>2, Zenon DEF JobShape
<1>4. /\ job.bot \in DOMAIN bots /\ job.code \in DOMAIN codes
      /\ ~job.fresh => OwnedBy(job.bot, identity[job.user])
  BY <1>2, Zenon DEF OwnerInv, JobsKnow, JobKnows
<1>5. /\ Idle \in JobShape /\ jobs' \in [Job -> JobShape] /\ jobs'[j] = Idle
      /\ \A i \in Job : i # j => jobs'[i] = jobs[i]
  BY <1>1, Zenon DEF Shape, JobShape, Idle
<1>6. JobKnows(j)' BY <1>5 DEF JobKnows, Idle
<1>7. CASE ~(Consumable(job.code) /\ (job.fresh => Insertable(job.user)))
  <2>1. UNCHANGED <<codes, identity, bindings, redeemed>> BY <1>7, Zenon DEF BindCommit
  <2>2. Stays BY <1>1, <2>1, Zenon DEF Stays
  <2>3. OwnerInv' BY <1>1, <1>5, <1>6, <2>1, <2>2, RequestKeeps, Zenon
  <2>. QED BY <1>1, <1>5, <2>1, <2>3, Zenon DEF Shape, CodeInv, Spent
<1>8. CASE Consumable(job.code) /\ (job.fresh => Insertable(job.user))
  <2>1. /\ codes' = [codes EXCEPT ![job.code].row = "consumed"]
        /\ identity' = IF job.fresh THEN [identity EXCEPT ![job.user] = a] ELSE identity
        /\ bindings' = bindings \cup {<<job.bot, job.user>>}
        /\ redeemed' = [redeemed EXCEPT ![job.code] = @ + 1]
    BY <1>8, Zenon DEF BindCommit
  <2>2. /\ codes' \in Seq(Code) /\ Len(codes') = Len(codes) /\ DOMAIN codes' = DOMAIN codes
        /\ codes'[job.code].row = "consumed"
        /\ \A d \in DOMAIN codes : d # job.code => codes'[d] = codes[d]
    BY <1>4, <2>1, RowChanged, Zenon
  <2>3. /\ OwnedBy(job.bot, a) /\ job.bot \in Nat /\ a \in Account
        /\ DOMAIN codes = 1 .. Len(codes) /\ Len(codes) \in Nat
    <3>1. OwnedBy(job.bot, a) BY <1>4, Zenon DEF OwnedBy
    <3>. QED BY <3>1, OwnerIsAccount DEF Shape
  <2>4. /\ identity' \in [User -> Account \cup {NoAccount}]
        /\ identity'[job.user] = a
        /\ \A u \in User : identity[u] # NoAccount => identity'[u] = identity[u]
    <3>1. CASE job.fresh
      <4>1. identity[job.user] = NoAccount BY <1>8, <3>1, Zenon DEF Insertable
      <4>2. identity' = [identity EXCEPT ![job.user] = a] BY <2>1, <3>1, Zenon
      <4>. QED BY <1>3, <2>3, <4>1, <4>2, Zenon DEF Shape
    <3>2. CASE ~job.fresh
      <4>1. identity' = identity BY <2>1, <3>2, Zenon
      <4>2. identity[job.user] = a BY <1>4, <3>2, Zenon DEF OwnedBy
      <4>. QED BY <4>1, <4>2, Zenon DEF Shape
    <3>. QED BY <3>1, <3>2, Zenon
  <2>5. Stays BY <1>1, <2>2, <2>4, Zenon DEF Stays
  <2>6. BindingsOwned'
    <3>. SUFFICES ASSUME NEW p \in bindings' PROVE OwnedBy(p[1], identity[p[2]])'
      BY Zenon DEF BindingsOwned
    <3>1. CASE p \in bindings BY <2>5, <3>1, BindingsStay, Zenon DEF OwnedBy
    <3>2. CASE p = <<job.bot, job.user>> BY <1>1, <2>3, <2>4, <3>2, Zenon DEF OwnedBy
    <3>. QED BY <2>1, <3>1, <3>2, Zenon
  <2>7. JobsKnow'
    <3>. SUFFICES ASSUME NEW i \in Job PROVE JobKnows(i)' BY Zenon DEF JobsKnow
    <3>1. CASE i # j BY <1>5, <2>5, <3>1, JobStays, Zenon
    <3>. QED BY <1>6, <3>1, Zenon
  <2>8. OwnerInv' BY <2>5, <2>6, <2>7, RunStays, Zenon DEF OwnerInv
  <2>9. redeemed' \in [1 .. MaxCodes -> Nat]
    <3>1. \A c \in 1 .. MaxCodes : redeemed[c] \in Nat /\ redeemed[c] + 1 \in Nat BY DEF Shape
    <3>. QED BY <2>1, <3>1, Zenon DEF Shape
  <2>10. CodeInv'
    <3>. SUFFICES ASSUME NEW c \in 1 .. MaxCodes
                  PROVE  redeemed'[c] \in {0, 1} /\ (redeemed'[c] = 1 => Spent(c)')
      BY Zenon DEF CodeInv
    <3>1. CASE c = job.code
      <4>1. redeemed[c] = 0 BY <1>8, <3>1, Zenon DEF CodeInv, Spent, Consumable
      <4>2. redeemed'[c] = 1 BY <2>1, <3>1, <4>1 DEF Shape
      <4>3. "consumed" # "open" OBVIOUS
      <4>. QED BY <1>4, <2>2, <3>1, <4>2, <4>3, Zenon DEF Spent
    <3>2. CASE c # job.code
      <4>1. redeemed'[c] = redeemed[c] BY <2>1, <3>2, Zenon DEF Shape
      <4>. QED BY <2>2, <3>2, <4>1, Zenon DEF CodeInv, Spent
    <3>. QED BY <3>1, <3>2, Zenon
  <2>11. bindings' \subseteq Nat \X User BY <1>3, <2>1, <2>3 DEF Shape
  <2>. QED BY <1>1, <1>5, <2>2, <2>4, <2>8, <2>9, <2>10, <2>11, Zenon DEF Shape
<1>. QED BY <1>7, <1>8, Zenon

(* Counting failures touches neither bots nor codes nor identities.           *)
LEMMA FailureKeeps ==
  ASSUME Shape, OwnerInv, CodeInv, NEW j \in Job, RecordFailure(j) \/ LockAtLimit(j), run' = run
  PROVE  Shape' /\ OwnerInv' /\ CodeInv'
<1>1. UNCHANGED <<bots, codes, identity, bindings, redeemed>> BY Zenon DEF RecordFailure, LockAtLimit
<1>2. Stays BY <1>1, Zenon DEF Stays
<1>3. PICK x \in JobShape : jobs' = [jobs EXCEPT ![j] = x] /\ x.at \in {"count", "idle"}
  <2>1. CASE RecordFailure(j)
    <3>1. jobs[j] \in JobShape /\ jobs[j].at = "failed" BY <2>1, Zenon DEF Shape, RecordFailure
    <3>2. jobs[j] \in [at : {"failed", "count"}, user : User, account : Account]
      BY <3>1, Zenon DEF JobShape
    <3>3. [jobs[j] EXCEPT !.at = "count"] \in [at : {"failed", "count"}, user : User, account : Account]
      BY <3>2, Zenon
    <3>4. [jobs[j] EXCEPT !.at = "count"].at = "count" BY <3>2, Zenon
    <3>5. jobs' = [jobs EXCEPT ![j] = [jobs[j] EXCEPT !.at = "count"]] BY <2>1, Zenon DEF RecordFailure
    <3>6. [jobs[j] EXCEPT !.at = "count"] \in JobShape BY <3>3, Zenon DEF JobShape
    <3>. QED BY <3>4, <3>5, <3>6, Zenon
  <2>2. CASE LockAtLimit(j)
    <3>1. jobs' = [jobs EXCEPT ![j] = Idle] BY <2>2, Zenon DEF LockAtLimit
    <3>2. Idle \in JobShape /\ Idle.at = "idle" BY Zenon DEF Idle, JobShape
    <3>. QED BY <3>1, <3>2, Zenon
  <2>. QED BY <2>1, <2>2, Zenon
<1>4. jobs'[j] = x BY <1>3, Zenon DEF Shape
<1>5. JobKnows(j)' BY <1>3, <1>4, Zenon DEF JobKnows
<1>6. jobs' \in [Job -> JobShape] /\ OwnerInv' BY <1>1, <1>2, <1>3, <1>5, RequestKeeps, Zenon
<1>. QED BY <1>1, <1>6, Zenon DEF Shape, CodeInv, Spent
------------------------------------------------------------------------------
(* The steps of the import.  They leave codes and requests alone.             *)
LEMMA ImportKeeps ==
  ASSUME Shape, OwnerInv, CodeInv, Stays, UNCHANGED <<codes, bindings, jobs, redeemed>>,
         bots' \in Seq(Bot), identity' \in [User -> Account \cup {NoAccount}],
         run' \in RunShape, RunKnows'
  PROVE  Shape' /\ OwnerInv' /\ CodeInv'
<1>1. BindingsOwned' BY BindingsStay, Zenon DEF BindingsOwned, OwnedBy
<1>2. JobsKnow' BY JobStays, Zenon DEF JobsKnow
<1>. QED BY <1>1, <1>2, Zenon DEF Shape, OwnerInv, CodeInv, Spent

(* A step that reads, or writes other tables.                                 *)
Elsewhere == UNCHANGED <<bots, codes, identity, bindings, jobs, redeemed>>

LEMMA ElsewhereKeeps ==
  ASSUME Shape, OwnerInv, CodeInv, Elsewhere, run' \in RunShape, RunKnows'
  PROVE  Shape' /\ OwnerInv' /\ CodeInv'
<1>1. Stays BY Zenon DEF Elsewhere, Stays
<1>. QED BY <1>1, ImportKeeps, Zenon DEF Elsewhere, Shape

(* Up to the accounts of the plugin database there is nothing to know.        *)
LEMMA EarlyKeeps ==
  ASSUME Shape, OwnerInv, CodeInv, Elsewhere, run' \in RunShape, run'.at \in Early,
         run'.left \subseteq Account, run'.made \subseteq run.made
  PROVE  Shape' /\ OwnerInv' /\ CodeInv'
<1>1. \A m \in run'.made : OwnedBy(m[2], m[1])'
  BY Zenon DEF OwnerInv, RunKnows, OwnedBy, Elsewhere
<1>2. RunKnows' BY <1>1, Zenon DEF RunKnows, Early
<1>. QED BY <1>2, ElsewhereKeeps, Zenon

LEMMA StartStopKeep ==
  ASSUME Shape, OwnerInv, CodeInv, Start \/ Stop \/ Done
  PROVE  Shape' /\ OwnerInv' /\ CodeInv'
<1>1. Elsewhere BY Zenon DEF Start, Stop, Done, Elsewhere, bindVars
<1>2. run.n \in Nat BY Zenon DEF Shape, RunShape
<1>3. Handles \subseteq Account BY ImportAssumption, Zenon DEF Handles, File
<1>4. run' \in RunShape /\ run'.at \in Early /\ run'.left \subseteq Account /\ run'.made = {}
  <2>1. CASE Start
    <3>1. run' = [at |-> "handles", n |-> run.n + 1, left |-> Handles, files |-> {}, item |-> {},
                  seen |-> 0, fresh |-> FALSE, made |-> {}]
      BY <2>1, Zenon DEF Start, Stopped
    <3>. QED BY <1>2, <1>3, <3>1 DEF RunShape, Stages, Early
  <2>2. CASE Stop BY <1>2, <2>2, Zenon DEF Stop, Stopped, RunShape, Stages, Early
  <2>3. CASE Done BY <1>2, <2>3, Zenon DEF Done, Stopped, RunShape, Stages, Early
  <2>. QED BY <2>1, <2>2, <2>3, Zenon
<1>. QED BY <1>1, <1>4, EarlyKeeps, Zenon

(* The files of one handle.                                                   *)
FileStep ==
  \/ NextHandle \/ SkipFile \/ FindImported \/ ImportCharacter \/ InsertRevision
  \/ ImportChat \/ SkipChat \/ RecordKey \/ HandleDone

LEMMA FileStepKeeps ==
  ASSUME Shape, OwnerInv, CodeInv, FileStep
  PROVE  Shape' /\ OwnerInv' /\ CodeInv'
<1>1. Elsewhere
  BY Zenon DEF FileStep, NextHandle, SkipFile, FindImported, ImportCharacter, InsertRevision, ImportChat,
         SkipChat, RecordKey, HandleDone, Elsewhere, bindVars, notAccounts
<1>2. run \in RunShape BY Zenon DEF Shape
<1>3. run.at \in Early
  BY Zenon DEF FileStep, NextHandle, SkipFile, FindImported, ImportCharacter, InsertRevision, ImportChat,
         SkipChat, RecordKey, HandleDone, Due, Early
<1>4. run.left \subseteq Account BY <1>3, Zenon DEF OwnerInv, RunKnows
<1>5. run' \in RunShape /\ run'.at \in Early /\ run'.left \subseteq Account /\ run'.made = run.made
  <2>1. CASE NextHandle
    <3>1. PICK a \in run.left : run' = [run EXCEPT !.at = "files", !.left = @ \ {a},
                                                   !.files = FilesOf(a)]
      BY <2>1, Zenon DEF NextHandle
    <3>2. FilesOf(a) \subseteq File BY Zenon DEF FilesOf
    <3>. QED BY <1>2, <1>4, <3>1, <3>2, Zenon DEF RunShape, Stages, Early
  <2>2. CASE SkipFile \/ SkipChat
    <3>1. PICK f : run' = [run EXCEPT !.files = @ \ {f}] BY <2>2, Zenon DEF SkipFile, SkipChat
    <3>. QED BY <1>2, <1>3, <1>4, <3>1, Zenon DEF RunShape
  <2>3. CASE FindImported \/ ImportChat
    <3>1. PICK f \in File : run' = [run EXCEPT !.at = "key", !.item = {f}]
      BY <2>3, Zenon DEF FindImported, ImportChat, File
    <3>. QED BY <1>2, <1>4, <3>1, Zenon DEF RunShape, Stages, Early
  <2>4. CASE ImportCharacter
    <3>1. PICK f \in File : run' = [run EXCEPT !.at = "revision", !.item = {f}]
      BY <2>4, Zenon DEF ImportCharacter, File
    <3>. QED BY <1>2, <1>4, <3>1, Zenon DEF RunShape, Stages, Early
  <2>5. CASE InsertRevision
    <3>1. run' = [run EXCEPT !.at = "key"] BY <2>5, Zenon DEF InsertRevision
    <3>. QED BY <1>2, <1>4, <3>1, Zenon DEF RunShape, Stages, Early
  <2>6. CASE RecordKey
    <3>1. run' = [run EXCEPT !.at = "files", !.files = @ \ run.item, !.item = {}]
      BY <2>6, Zenon DEF RecordKey
    <3>. QED BY <1>2, <1>4, <3>1, Zenon DEF RunShape, Stages, Early
  <2>7. CASE HandleDone
    <3>1. run' = IF run.left # {} THEN [run EXCEPT !.at = "handles"]
                 ELSE [run EXCEPT !.at = "accounts", !.left = Specs]
      BY <2>7, Zenon DEF HandleDone
    <3>2. Specs \subseteq Account BY Zenon DEF Specs
    <3>3. CASE run.left # {}
      <4>1. run' = [run EXCEPT !.at = "handles"] BY <3>1, <3>3, Zenon
      <4>. QED BY <1>2, <1>4, <4>1, Zenon DEF RunShape, Stages, Early
    <3>4. CASE run.left = {}
      <4>1. run' = [run EXCEPT !.at = "accounts", !.left = Specs] BY <3>1, <3>4, Zenon
      <4>. QED BY <1>2, <3>2, <4>1, Zenon DEF RunShape, Stages, Early
    <3>. QED BY <3>3, <3>4, Zenon
  <2>. QED BY <2>1, <2>2, <2>3, <2>4, <2>5, <2>6, <2>7, Zenon DEF FileStep
<1>. QED BY <1>1, <1>5, EarlyKeeps, Zenon

(* The plugin database: its accounts, then its bots, then its users.          *)
LEMMA PluginAccountKeeps ==
  ASSUME Shape, OwnerInv, CodeInv, PluginAccount
  PROVE  Shape' /\ OwnerInv' /\ CodeInv'
<1>1. Elsewhere BY Zenon DEF PluginAccount, Elsewhere, notAccounts
<1>2. run \in RunShape /\ run.at \in Early BY Zenon DEF Shape, PluginAccount, Early
<1>3. run.left \subseteq Account BY <1>2, Zenon DEF OwnerInv, RunKnows
<1>4. PICK a \in run.left :
        run' = IF run.left # {a} THEN [run EXCEPT !.left = @ \ {a}]
               ELSE [run EXCEPT !.at = "bots", !.left = Tokens]
  BY Zenon DEF PluginAccount
<1>5. CASE run.left # {a}
  <2>1. run' = [run EXCEPT !.left = @ \ {a}] BY <1>4, <1>5, Zenon
  <2>2. run' \in RunShape /\ run'.at \in Early /\ run'.left \subseteq Account /\ run'.made = run.made
    BY <1>2, <1>3, <2>1, Zenon DEF RunShape
  <2>. QED BY <1>1, <2>2, EarlyKeeps, Zenon
<1>6. CASE run.left = {a}
  <2>1. run' = [run EXCEPT !.at = "bots", !.left = Tokens] BY <1>4, <1>6, Zenon
  <2>2. run' \in RunShape /\ run'.at = "bots" /\ run'.left = Tokens /\ run'.made = run.made
    BY <1>2, <2>1, ImportAssumption, Zenon DEF RunShape, Stages
  <2>3. \A m \in run'.made : OwnedBy(m[2], m[1])'
    BY <1>1, <2>2, Zenon DEF OwnerInv, RunKnows, OwnedBy, Elsewhere
  <2>4. RunKnows' BY <2>2, <2>3, Zenon DEF RunKnows, Early
  <2>. QED BY <1>1, <2>2, <2>4, ElsewhereKeeps, Zenon
<1>. QED BY <1>5, <1>6, Zenon

LEMMA ReadBotKeeps ==
  ASSUME Shape, OwnerInv, CodeInv, ReadBot
  PROVE  Shape' /\ OwnerInv' /\ CodeInv'
<1>1. Elsewhere /\ run \in RunShape /\ run.at = "bots"
  BY Zenon DEF ReadBot, Elsewhere, bindVars, Shape
<1>2. /\ run.left \subseteq Tokens
      /\ \A m \in run.made : OwnedBy(m[2], m[1])
      /\ \A o \in Tokens \ run.left : HasMade(o)
  BY <1>1, Zenon DEF OwnerInv, RunKnows
<1>3. PICK a \in run.left :
        run' = [run EXCEPT !.at = "write", !.left = @ \ {a}, !.item = {a}, !.seen = FirstBot(a)]
  BY Zenon DEF ReadBot
<1>4. a \in Tokens /\ a \in Account BY <1>2, ImportAssumption, Zenon
<1>5. FirstBot(a) \in Nat /\ (FirstBot(a) # 0 => OwnedBy(FirstBot(a), a)) BY <1>4, FirstBotFound, Zenon
<1>6. /\ run' \in RunShape /\ run'.at = "write" /\ run'.left = run.left \ {a}
      /\ run'.item = {a} /\ run'.seen = FirstBot(a) /\ run'.made = run.made
  BY <1>1, <1>3, <1>4, <1>5, Zenon DEF RunShape, Stages
<1>7. \A m \in run'.made : OwnedBy(m[2], m[1])' BY <1>1, <1>2, <1>6, Zenon DEF OwnedBy, Elsewhere
<1>8. \A o \in Tokens \ (run'.left \cup {a}) : HasMade(o)' BY <1>2, <1>6, Zenon DEF HasMade
<1>9. run'.seen # 0 => OwnedBy(run.seen, a)' BY <1>1, <1>5, <1>6, Zenon DEF OwnedBy, Elsewhere
<1>10. RunKnows' BY <1>2, <1>4, <1>6, <1>7, <1>8, <1>9, Zenon DEF RunKnows, Early
<1>. QED BY <1>1, <1>6, <1>10, ElsewhereKeeps, Zenon

LEMMA ImportBotKeeps ==
  ASSUME Shape, OwnerInv, CodeInv, ImportBot
  PROVE  Shape' /\ OwnerInv' /\ CodeInv'
<1>1. run \in RunShape /\ run.at = "write" BY Zenon DEF ImportBot, Shape
<1>2. UNCHANGED <<codes, identity, bindings, jobs, redeemed>> BY Zenon DEF ImportBot, notBots
<1>3. PICK a \in Tokens : /\ run.item = {a}
                          /\ run.seen # 0 => OwnedBy(run.seen, a)
                          /\ \A o \in Tokens \ (run.left \cup {a}) : HasMade(o)
  BY <1>1, Zenon DEF OwnerInv, RunKnows
<1>4. run.left \subseteq Tokens /\ \A m \in run.made : OwnedBy(m[2], m[1])
  BY <1>1, Zenon DEF OwnerInv, RunKnows
<1>5. The(run.item) = a /\ a \in Account BY <1>3, ImportAssumption, Zenon DEF The
<1>. DEFINE b == IF run.seen # 0 THEN run.seen ELSE Len(bots) + 1
<1>6. WriteBot(a, run.seen, FALSE)
      /\ run' = [run EXCEPT !.at = "settings", !.seen = b, !.made = @ \cup {<<a, b>>}]
  BY <1>5, Zenon DEF ImportBot
<1>7. run.seen \in Nat /\ Len(bots) \in Nat /\ b \in Nat BY <1>1 DEF Shape, RunShape
<1>8. /\ bots' \in Seq(Bot)
      /\ \A c \in DOMAIN bots : c \in DOMAIN bots' /\ bots'[c].owner = bots[c].owner
      /\ run.seen = 0 => Len(bots) + 1 \in DOMAIN bots' /\ bots'[Len(bots) + 1].owner = a
  <2>1. run.seen # 0 => run.seen \in DOMAIN bots BY <1>3, Zenon DEF OwnedBy
  <2>. QED BY <1>5, <1>6, <1>7, <2>1, BotWritten, Zenon
<1>9. b \in DOMAIN bots' /\ bots'[b].owner = a BY <1>3, <1>8, Zenon DEF OwnedBy
<1>. HIDE DEF b
<1>10. /\ run' \in RunShape /\ run'.at = "settings" /\ run'.left = run.left
       /\ run'.seen = b /\ run'.made = run.made \cup {<<a, b>>}
  <2>. DEFINE made == run.made \cup {<<a, b>>}
  <2>1. made \in SUBSET (Account \X Nat) BY <1>1, <1>5, <1>7 DEF RunShape
  <2>2. run' = [run EXCEPT !.at = "settings", !.seen = b, !.made = made] BY <1>6, Zenon
  <2>. HIDE DEF made
  <2>3. /\ run' \in RunShape /\ run'.at = "settings" /\ run'.left = run.left
        /\ run'.seen = b /\ run'.made = made
    BY <1>1, <1>7, <2>1, <2>2, Zenon DEF RunShape, Stages
  <2>. QED BY <2>3, Zenon DEF made
<1>11. \A m \in run'.made : OwnedBy(m[2], m[1])' BY <1>4, <1>8, <1>9, <1>10 DEF OwnedBy
<1>12. ASSUME NEW o \in Tokens \ run'.left PROVE HasMade(o)'
  <2>1. CASE o = a
    <3>1. <<a, b>> \in run'.made /\ <<a, b>>[1] = o BY <1>10, <2>1, Zenon
    <3>. QED BY <3>1, Zenon DEF HasMade
  <2>2. CASE o # a
    <3>1. PICK m \in run.made : m[1] = o BY <1>3, <1>10, <2>2, Zenon DEF HasMade
    <3>2. m \in run'.made BY <1>10, Zenon
    <3>. QED BY <3>1, <3>2, Zenon DEF HasMade
  <2>. QED BY <2>1, <2>2, Zenon
<1>13. RunKnows' BY <1>4, <1>9, <1>10, <1>11, <1>12, Zenon DEF RunKnows, Early
<1>14. Stays BY <1>2, <1>8, Zenon DEF Stays
<1>15. identity' \in [User -> Account \cup {NoAccount}] BY <1>2, Zenon DEF Shape
<1>. QED BY <1>2, <1>8, <1>10, <1>13, <1>14, <1>15, ImportKeeps, Zenon

LEMMA ImportSettingsKeeps ==
  ASSUME Shape, OwnerInv, CodeInv, ImportSettings
  PROVE  Shape' /\ OwnerInv' /\ CodeInv'
<1>1. run \in RunShape /\ run.at = "settings" BY Zenon DEF ImportSettings, Shape
<1>2. UNCHANGED <<codes, identity, bindings, jobs, redeemed>> BY Zenon DEF ImportSettings, notBots
<1>3. /\ run.left \subseteq Tokens /\ run.seen \in DOMAIN bots
      /\ \A m \in run.made : OwnedBy(m[2], m[1])
      /\ \A o \in Tokens \ run.left : HasMade(o)
  BY <1>1, Zenon DEF OwnerInv, RunKnows
<1>4. /\ bots' \in Seq(Bot)
      /\ \A c \in DOMAIN bots : c \in DOMAIN bots' /\ bots'[c].owner = bots[c].owner
  <2>1. /\ DOMAIN bots = 1 .. Len(bots) /\ Len(bots) \in Nat
        /\ \A c \in DOMAIN bots : bots[c] \in Bot
    BY DEF Shape
  <2>2. run.seen \in Nat /\ run.seen # 0 /\ bots[run.seen].owner \in Account
    BY <1>3, <2>1 DEF Bot
  <2>3. WriteBot(bots[run.seen].owner, run.seen, FALSE) BY <2>2, Zenon DEF WriteBot, ImportSettings
  <2>. QED BY <1>3, <2>2, <2>3, BotWritten, Zenon
<1>5. /\ run' \in RunShape /\ run'.at = "bots" /\ run'.left = run.left /\ run'.made = run.made
  <2>1. run' = [run EXCEPT !.at = "bots", !.item = {}, !.seen = 0] BY Zenon DEF ImportSettings
  <2>. QED BY <1>1, <2>1, Zenon DEF RunShape, Stages
<1>6. \A m \in run'.made : OwnedBy(m[2], m[1])' BY <1>3, <1>4, <1>5, Zenon DEF OwnedBy
<1>7. \A o \in Tokens \ run'.left : HasMade(o)' BY <1>3, <1>5, Zenon DEF HasMade
<1>8. RunKnows' BY <1>3, <1>5, <1>6, <1>7, Zenon DEF RunKnows, Early
<1>9. Stays BY <1>2, <1>4, Zenon DEF Stays
<1>10. identity' \in [User -> Account \cup {NoAccount}] BY <1>2, Zenon DEF Shape
<1>. QED BY <1>2, <1>4, <1>5, <1>8, <1>9, <1>10, ImportKeeps, Zenon

(* From here on the run has a bot of every owner with a token.                *)
LEMMA PendingMade ==
  ASSUME Shape, OwnerInv, run.at \in {"bindings", "identity", "bind"}
  PROVE  /\ run \in RunShape /\ run.left \subseteq Pending
         /\ \A m \in run.made : OwnedBy(m[2], m[1])
         /\ \A o \in Tokens : HasMade(o)
BY Zenon DEF Shape, OwnerInv, RunKnows

LEMMA PendingPair ==
  ASSUME NEW p \in Pending
  PROVE  p[1] \in Tokens /\ p[1] \in Account /\ p[2] \in User /\ p \in Account \X User
BY ImportAssumption, Zenon DEF Pending

LEMMA BotsDoneKeeps ==
  ASSUME Shape, OwnerInv, CodeInv, BotsDone
  PROVE  Shape' /\ OwnerInv' /\ CodeInv'
<1>1. Elsewhere /\ run \in RunShape /\ run.at = "bots" /\ run.left = {}
  BY Zenon DEF BotsDone, Elsewhere, bindVars, Shape
<1>2. /\ \A m \in run.made : OwnedBy(m[2], m[1])
      /\ \A o \in Tokens : HasMade(o)
  BY <1>1, Zenon DEF OwnerInv, RunKnows
<1>3. Pending \subseteq Account \X User BY PendingPair, Zenon
<1>4. /\ run' \in RunShape /\ run'.at = "bindings" /\ run'.left = Pending /\ run'.made = run.made
  <2>1. run' = [run EXCEPT !.at = "bindings", !.left = Pending] BY Zenon DEF BotsDone
  <2>2. Pending \in SUBSET (Account \cup (Account \X User)) BY <1>3, Zenon
  <2>. QED BY <1>1, <2>1, <2>2, Zenon DEF RunShape, Stages
<1>5. \A m \in run'.made : OwnedBy(m[2], m[1])' BY <1>1, <1>2, <1>4, Zenon DEF OwnedBy, Elsewhere
<1>6. \A o \in Tokens : HasMade(o)' BY <1>2, <1>4, Zenon DEF HasMade
<1>7. RunKnows' BY <1>4, <1>5, <1>6, Zenon DEF RunKnows, Early
<1>. QED BY <1>1, <1>4, <1>7, ElsewhereKeeps, Zenon

LEMMA ReadIdentityKeeps ==
  ASSUME Shape, OwnerInv, CodeInv, ReadIdentity
  PROVE  Shape' /\ OwnerInv' /\ CodeInv'
<1>1. Elsewhere /\ run.at = "bindings" BY Zenon DEF ReadIdentity, Elsewhere, bindVars
<1>2. /\ run \in RunShape /\ run.left \subseteq Pending
      /\ \A m \in run.made : OwnedBy(m[2], m[1])
      /\ \A o \in Tokens : HasMade(o)
  BY <1>1, PendingMade, Zenon
<1>3. PICK p \in run.left :
        run' = IF identity[p[2]] \in {NoAccount, p[1]}
               THEN [run EXCEPT !.at = "identity", !.left = @ \ {p}, !.item = {p},
                                !.fresh = identity[p[2]] = NoAccount]
               ELSE [run EXCEPT !.left = @ \ {p}]
  BY Zenon DEF ReadIdentity
<1>4. p \in Pending /\ p \in Account \X User BY <1>2, PendingPair, Zenon
<1>5. CASE identity[p[2]] \in {NoAccount, p[1]}
  <2>. DEFINE fresh == identity[p[2]] = NoAccount
  <2>1. fresh \in BOOLEAN BY Zenon
  <2>2. run' = [run EXCEPT !.at = "identity", !.left = @ \ {p}, !.item = {p}, !.fresh = fresh]
    BY <1>3, <1>5, Zenon
  <2>. HIDE DEF fresh
  <2>3. /\ run' \in RunShape /\ run'.at = "identity" /\ run'.left = run.left \ {p}
        /\ run'.item = {p} /\ run'.fresh = fresh /\ run'.made = run.made
    BY <1>2, <1>4, <2>1, <2>2, Zenon DEF RunShape, Stages
  <2>4. ~run'.fresh => identity'[p[2]] = p[1] BY <1>1, <1>5, <2>3, Zenon DEF fresh, Elsewhere
  <2>5. \A m \in run'.made : OwnedBy(m[2], m[1])' BY <1>1, <1>2, <2>3, Zenon DEF OwnedBy, Elsewhere
  <2>6. \A o \in Tokens : HasMade(o)' BY <1>2, <2>3, Zenon DEF HasMade
  <2>7. run'.left \subseteq Pending BY <1>2, <2>3, Zenon
  <2>8. RunKnows' BY <1>4, <2>3, <2>4, <2>5, <2>6, <2>7, Zenon DEF RunKnows, Early
  <2>. QED BY <1>1, <2>3, <2>8, ElsewhereKeeps, Zenon
<1>6. CASE identity[p[2]] \notin {NoAccount, p[1]}
  <2>1. run' = [run EXCEPT !.left = @ \ {p}] BY <1>3, <1>6, Zenon
  <2>2. run' \in RunShape /\ run'.at = "bindings" /\ run'.left = run.left \ {p} /\ run'.made = run.made
    BY <1>1, <1>2, <2>1, Zenon DEF RunShape
  <2>3. \A m \in run'.made : OwnedBy(m[2], m[1])' BY <1>1, <1>2, <2>2, Zenon DEF OwnedBy, Elsewhere
  <2>4. \A o \in Tokens : HasMade(o)' BY <1>2, <2>2, Zenon DEF HasMade
  <2>5. run'.left \subseteq Pending BY <1>2, <2>2, Zenon
  <2>6. RunKnows' BY <2>2, <2>3, <2>4, <2>5, Zenon DEF RunKnows, Early
  <2>. QED BY <1>1, <2>2, <2>6, ElsewhereKeeps, Zenon
<1>. QED BY <1>5, <1>6, Zenon

(* The insert succeeds only where no account has the user, as the UNIQUE      *)
(* constraint has it: no binding loses its owner.                             *)
LEMMA ImportIdentityKeeps ==
  ASSUME Shape, OwnerInv, CodeInv, ImportIdentity
  PROVE  Shape' /\ OwnerInv' /\ CodeInv'
<1>1. UNCHANGED <<bots, codes, bindings, jobs, redeemed>> /\ run.at = "identity"
  BY Zenon DEF ImportIdentity
<1>2. /\ run \in RunShape /\ run.left \subseteq Pending
      /\ \A m \in run.made : OwnedBy(m[2], m[1])
      /\ \A o \in Tokens : HasMade(o)
  BY <1>1, PendingMade, Zenon
<1>3. PICK p \in Pending : run.item = {p} /\ (~run.fresh => identity[p[2]] = p[1])
  BY <1>1, Zenon DEF OwnerInv, RunKnows
<1>4. The(run.item) = p /\ p[1] \in Account /\ p[2] \in User BY <1>3, PendingPair, Zenon DEF The
<1>5. /\ identity' \in [User -> Account \cup {NoAccount}] /\ identity'[p[2]] = p[1]
      /\ \A u \in User : identity[u] # NoAccount => identity'[u] = identity[u]
  <2>1. CASE run.fresh
    <3>1. identity[p[2]] = NoAccount /\ identity' = [identity EXCEPT ![p[2]] = p[1]]
      BY <1>4, <2>1, Zenon DEF ImportIdentity, Insertable
    <3>. QED BY <1>4, <3>1, Zenon DEF Shape
  <2>2. CASE ~run.fresh
    <3>1. identity' = identity BY <2>2, Zenon DEF ImportIdentity
    <3>. QED BY <1>3, <2>2, <3>1, Zenon DEF Shape
  <2>. QED BY <2>1, <2>2, Zenon
<1>6. /\ run' \in RunShape /\ run'.at = "bind" /\ run'.left = run.left /\ run'.item = run.item
      /\ run'.made = run.made
  <2>1. run' = [run EXCEPT !.at = "bind", !.fresh = FALSE] BY Zenon DEF ImportIdentity
  <2>. QED BY <1>2, <2>1, Zenon DEF RunShape, Stages
<1>7. \A m \in run'.made : OwnedBy(m[2], m[1])' BY <1>1, <1>2, <1>6, Zenon DEF OwnedBy
<1>8. \A o \in Tokens : HasMade(o)' BY <1>2, <1>6, Zenon DEF HasMade
<1>9. RunKnows' BY <1>2, <1>3, <1>5, <1>6, <1>7, <1>8, Zenon DEF RunKnows, Early
<1>10. Stays BY <1>1, <1>5, Zenon DEF Stays
<1>11. bots' \in Seq(Bot) BY <1>1, Zenon DEF Shape
<1>. QED BY <1>1, <1>5, <1>6, <1>9, <1>10, <1>11, ImportKeeps, Zenon

LEMMA ImportBindingKeeps ==
  ASSUME Shape, OwnerInv, CodeInv, ImportBinding
  PROVE  Shape' /\ OwnerInv' /\ CodeInv'
<1>1. UNCHANGED <<bots, codes, identity, jobs, redeemed>> /\ run.at = "bind"
  BY Zenon DEF ImportBinding
<1>2. /\ run \in RunShape /\ run.left \subseteq Pending
      /\ \A m \in run.made : OwnedBy(m[2], m[1])
      /\ \A o \in Tokens : HasMade(o)
  BY <1>1, PendingMade, Zenon
<1>3. PICK p \in Pending : run.item = {p} /\ identity[p[2]] = p[1]
  BY <1>1, Zenon DEF OwnerInv, RunKnows
<1>4. The(run.item) = p /\ p[1] \in Tokens /\ p[2] \in User BY <1>3, PendingPair, Zenon DEF The
<1>. DEFINE m == CHOOSE k \in run.made : k[1] = p[1]
<1>5. m \in run.made /\ m[1] = p[1] BY <1>2, <1>4, Zenon DEF HasMade
<1>6. bindings' = bindings \cup {<<m[2], p[2]>>} BY <1>4, Zenon DEF ImportBinding
<1>. HIDE DEF m
<1>7. OwnedBy(m[2], p[1]) /\ m[2] \in Nat
  <2>1. OwnedBy(m[2], p[1]) BY <1>2, <1>5, Zenon
  <2>. QED BY <2>1, OwnerIsAccount, Zenon
<1>8. bindings' \subseteq Nat \X User BY <1>4, <1>6, <1>7 DEF Shape
<1>9. BindingsOwned'
  <2>. SUFFICES ASSUME NEW q \in bindings' PROVE OwnedBy(q[1], identity[q[2]])'
    BY Zenon DEF BindingsOwned
  <2>1. CASE q \in bindings BY <1>1, <2>1, Zenon DEF OwnerInv, BindingsOwned, OwnedBy
  <2>2. CASE q = <<m[2], p[2]>> BY <1>1, <1>3, <1>7, <2>2, Zenon DEF OwnedBy
  <2>. QED BY <1>6, <2>1, <2>2, Zenon
<1>10. /\ run' \in RunShape /\ run'.at = "bindings" /\ run'.left = run.left /\ run'.made = run.made
  <2>1. run' = [run EXCEPT !.at = "bindings", !.item = {}] BY Zenon DEF ImportBinding
  <2>. QED BY <1>2, <2>1, Zenon DEF RunShape, Stages
<1>11. \A k \in run'.made : OwnedBy(k[2], k[1])' BY <1>1, <1>2, <1>10, Zenon DEF OwnedBy
<1>12. \A o \in Tokens : HasMade(o)' BY <1>2, <1>10, Zenon DEF HasMade
<1>13. RunKnows' BY <1>2, <1>10, <1>11, <1>12, Zenon DEF RunKnows, Early
<1>14. JobsKnow'
  <2>1. Stays BY <1>1, Zenon DEF Stays
  <2>. QED BY <1>1, <2>1, JobStays, Zenon DEF JobsKnow
<1>. QED BY <1>1, <1>8, <1>9, <1>10, <1>13, <1>14, Zenon DEF Shape, OwnerInv, CodeInv, Spent
------------------------------------------------------------------------------
BindingInv == Shape /\ OwnerInv /\ CodeInv

(* Every step of a request, of the import or of neither keeps the invariant.  *)
LEMMA NextKeeps == BindingInv /\ [Next]_vars => BindingInv'
<1>. SUFFICES ASSUME Shape, OwnerInv, CodeInv, [Next]_vars PROVE Shape' /\ OwnerInv' /\ CodeInv'
  BY Zenon DEF BindingInv
<1>1. CASE Import
  <2>1. CASE Start \/ Stop \/ Done BY <2>1, StartStopKeep, Zenon
  <2>2. CASE FileStep BY <2>2, FileStepKeeps, Zenon
  <2>3. CASE PluginAccount BY <2>3, PluginAccountKeeps, Zenon
  <2>4. CASE ReadBot BY <2>4, ReadBotKeeps, Zenon
  <2>5. CASE ImportBot BY <2>5, ImportBotKeeps, Zenon
  <2>6. CASE ImportSettings BY <2>6, ImportSettingsKeeps, Zenon
  <2>7. CASE BotsDone BY <2>7, BotsDoneKeeps, Zenon
  <2>8. CASE ReadIdentity BY <2>8, ReadIdentityKeeps, Zenon
  <2>9. CASE ImportIdentity BY <2>9, ImportIdentityKeeps, Zenon
  <2>10. CASE ImportBinding BY <2>10, ImportBindingKeeps, Zenon
  <2>. QED
    BY <1>1, <2>1, <2>2, <2>3, <2>4, <2>5, <2>6, <2>7, <2>8, <2>9, <2>10, Zenon DEF Import, FileStep
<1>2. CASE BindNext /\ UNCHANGED importVars
  <2>1. run' = run BY <1>2, Zenon DEF importVars
  <2>2. CASE BootstrapAdmin \/ LockEnds
    <3>1. Elsewhere BY <2>2, Zenon DEF BootstrapAdmin, LockEnds, Elsewhere
    <3>2. Stays BY <3>1, Zenon DEF Elsewhere, Stays
    <3>3. RunKnows' BY <2>1, <3>2, RunStays, Zenon
    <3>4. run' \in RunShape BY <2>1, Zenon DEF Shape
    <3>. QED BY <3>1, <3>3, <3>4, ElsewhereKeeps, Zenon
  <2>3. ASSUME NEW j \in Job, Request(j) PROVE Shape' /\ OwnerInv' /\ CodeInv'
    <3>1. CASE UpsertRead(j) BY <2>1, <3>1, UpsertReadKeeps, Zenon
    <3>2. CASE UpsertWrite(j) BY <2>1, <3>2, UpsertWriteKeeps
    <3>3. CASE GenerateDelete(j) BY <2>1, <3>3, GenerateDeleteKeeps, Zenon
    <3>4. CASE GenerateInsert(j) BY <2>1, <3>4, GenerateInsertKeeps, Zenon
    <3>5. CASE Bind(j) BY <2>1, <3>5, BindKeeps, Zenon
    <3>9. CASE BindFindsCode(j) BY <2>1, <3>9, BindFindsCodeKeeps, Zenon
    <3>10. CASE BindMatchesCode(j) BY <2>1, <3>10, BindMatchesCodeKeeps, Zenon
    <3>11. CASE BindDeletesExpired(j) BY <2>1, <3>11, BindDeletesExpiredKeeps, Zenon
    <3>6. CASE BindReadsIdentity(j) BY <2>1, <3>6, BindReadsIdentityKeeps, Zenon
    <3>7. CASE BindCommit(j) BY <2>1, <3>7, BindCommitKeeps, Zenon
    <3>8. CASE RecordFailure(j) \/ LockAtLimit(j) BY <2>1, <3>8, FailureKeeps, Zenon
    <3>. QED
      BY <2>3, <3>1, <3>2, <3>3, <3>4, <3>5, <3>6, <3>7, <3>8, <3>9, <3>10, <3>11, Zenon DEF Request
  <2>. QED BY <1>2, <2>2, <2>3, Zenon DEF BindNext
<1>3. CASE UNCHANGED vars
  <2>1. Elsewhere /\ run' = run BY <1>3, Zenon DEF vars, bindVars, importVars, Elsewhere
  <2>2. Stays BY <2>1, Zenon DEF Elsewhere, Stays
  <2>3. RunKnows' BY <2>1, <2>2, RunStays, Zenon
  <2>4. run' \in RunShape BY <2>1, Zenon DEF Shape
  <2>. QED BY <2>1, <2>3, <2>4, ElsewhereKeeps, Zenon
<1>. QED BY <1>1, <1>2, <1>3, Zenon DEF Next

(* Whoever redeems bind codes and whatever an import does beside them, a      *)
(* command runs as the owner of the bot it is sent to or as nobody: what      *)
(* redeem_bind_code and import_telegram_binding read before they write may be *)
(* old, but the UNIQUE identity lets neither write a binding that disagrees.  *)
THEOREM BoundUsersActAsOwner == Spec => []BoundToOwner
<1>1. Init => BindingInv BY InitBound, Zenon DEF BindingInv
<1>2. BindingInv /\ [Next]_vars => BindingInv' BY NextKeeps, Zenon
<1>3. BindingInv => BoundToOwner BY OwnerInvImplies, Zenon DEF BindingInv
<1>. QED BY <1>1, <1>2, <1>3, PTL DEF Spec

(* What one step does to the codes: a count rises once and from zero, by the  *)
(* UPDATE that finds the row open, and a row that is gone stays gone.         *)
LEMMA CodeStep ==
  ASSUME Shape, OwnerInv, CodeInv, [Next]_vars, NEW c \in DOMAIN codes
  PROVE  /\ redeemed'[c] # redeemed[c] => redeemed[c] = 0 /\ redeemed'[c] = 1
         /\ codes[c].row = "deleted" => codes'[c].row = "deleted" /\ redeemed'[c] = redeemed[c]
<1>. DEFINE Goal == /\ redeemed'[c] # redeemed[c] => redeemed[c] = 0 /\ redeemed'[c] = 1
                    /\ codes[c].row = "deleted" => codes'[c].row = "deleted" /\ redeemed'[c] = redeemed[c]
<1>1. /\ DOMAIN codes = 1 .. Len(codes) /\ Len(codes) \in Nat
      /\ c \in 1 .. MaxCodes /\ codes[c] \in Code
  BY BindingAssumption DEF Shape
<1>2. CASE UNCHANGED <<codes, redeemed>> BY <1>2, Zenon
<1>3. ASSUME NEW j \in Job, GenerateDelete(j) PROVE Goal
  <2>1. redeemed' = redeemed BY <1>3, Zenon DEF GenerateDelete
  <2>2. PICK b \in DOMAIN bots :
          codes' = [d \in DOMAIN codes |-> IF codes[d].bot = b /\ codes[d].row = "open"
                                           THEN [codes[d] EXCEPT !.row = "deleted"] ELSE codes[d]]
    BY <1>3, Zenon DEF GenerateDelete
  <2>3. "deleted" # "open" OBVIOUS
  <2>4. codes[c].row = "deleted" => codes'[c] = codes[c] BY <2>2, <2>3, Zenon
  <2>. QED BY <2>1, <2>4, Zenon
<1>4. ASSUME NEW j \in Job, GenerateInsert(j) PROVE Goal
  <2>1. redeemed' = redeemed /\ codes' = Append(codes, [bot |-> jobs[j].bot, row |-> "open"])
    BY <1>4, Zenon DEF GenerateInsert
  <2>2. codes'[c] = codes[c] BY <1>1, <2>1 DEF Shape
  <2>. QED BY <2>1, <2>2, Zenon
<1>5. ASSUME NEW j \in Job, BindDeletesExpired(j) PROVE Goal
  <2>1. redeemed' = redeemed /\ codes' = [codes EXCEPT ![jobs[j].code].row = "deleted"]
    BY <1>5, Zenon DEF BindDeletesExpired
  <2>2. codes[c].row = "deleted" => codes'[c].row = "deleted" BY <1>1, <2>1, Zenon DEF Code
  <2>. QED BY <2>1, <2>2, Zenon
<1>6. ASSUME NEW j \in Job, BindCommit(j) PROVE Goal
  <2>1. CASE c = jobs[j].code /\ Consumable(c)
    <3>1. redeemed[c] = 0 /\ codes[c].row = "open"
      BY <1>1, <2>1, Zenon DEF CodeInv, Spent, Consumable
    <3>2. redeemed' = redeemed \/ redeemed' = [redeemed EXCEPT ![c] = redeemed[c] + 1]
      BY <1>6, <2>1, Zenon DEF BindCommit
    <3>3. redeemed[c] + 1 = 1 BY <3>1
    <3>4. redeemed'[c] \in {0, 1} BY <1>1, <3>1, <3>2, <3>3, Zenon DEF Shape
    <3>5. codes[c].row # "deleted" BY <3>1
    <3>. QED BY <3>1, <3>4, <3>5, Zenon
  <2>2. CASE ~(c = jobs[j].code /\ Consumable(c))
    <3>1. redeemed'[c] = redeemed[c] /\ codes'[c] = codes[c]
      <4>1. CASE UNCHANGED <<codes, redeemed>> BY <4>1, Zenon
      <4>2. CASE ~UNCHANGED <<codes, redeemed>>
        <5>1. /\ codes' = [codes EXCEPT ![jobs[j].code].row = "consumed"]
              /\ redeemed' = [redeemed EXCEPT ![jobs[j].code] = @ + 1]
              /\ Consumable(jobs[j].code)
          BY <1>6, <4>2, Zenon DEF BindCommit
        <5>2. c # jobs[j].code BY <2>2, <5>1, Zenon
        <5>. QED BY <1>1, <5>1, <5>2, Zenon DEF Shape
      <4>. QED BY <4>1, <4>2, Zenon
    <3>. QED BY <3>1, Zenon
  <2>. QED BY <2>1, <2>2, Zenon
<1>7. ASSUME NEW j \in Job, Request(j), ~GenerateDelete(j), ~GenerateInsert(j), ~BindDeletesExpired(j),
             ~BindCommit(j)
      PROVE  UNCHANGED <<codes, redeemed>>
  BY <1>7, Zenon DEF Request, UpsertRead, UpsertWrite, Bind, BindFindsCode, BindMatchesCode,
       BindReadsIdentity, RecordFailure, LockAtLimit
<1>8. CASE Import
  <2>1. UNCHANGED <<codes, redeemed>>
    BY <1>8, Zenon DEF Import, Start, Stop, NextHandle, SkipFile, FindImported, ImportCharacter,
         InsertRevision, ImportChat, SkipChat, RecordKey, HandleDone, PluginAccount, ReadBot, ImportBot,
         ImportSettings, BotsDone, ReadIdentity, ImportIdentity, ImportBinding, Done, bindVars,
         notAccounts, notBots
  <2>. QED BY <1>2, <2>1, Zenon
<1>9. CASE BindNext
  <2>1. CASE BootstrapAdmin \/ LockEnds
    <3>1. UNCHANGED <<codes, redeemed>> BY <2>1, Zenon DEF BootstrapAdmin, LockEnds
    <3>. QED BY <1>2, <3>1, Zenon
  <2>. QED BY <1>2, <1>3, <1>4, <1>5, <1>6, <1>7, <1>9, <2>1, Zenon DEF BindNext
<1>10. CASE UNCHANGED vars BY <1>2, <1>10, Zenon DEF vars, bindVars
<1>. QED BY <1>8, <1>9, <1>10, Zenon DEF Next

(* However many /bind commands passed the checks with the same code, it is    *)
(* redeemed once, and never after it was replaced or deleted as expired: the  *)
(* UPDATE of redeem_bind_code asks again whether the row is open.             *)
THEOREM CodesAreRedeemedOnce == Spec => CodeRedeemedOnce
<1>. DEFINE Step == \A c \in DOMAIN codes :
                      /\ redeemed'[c] # redeemed[c] => redeemed[c] = 0 /\ redeemed'[c] = 1
                      /\ codes'[c].row = "open" => redeemed'[c] = 0
                      /\ codes[c].row = "deleted" =>
                           codes'[c].row = "deleted" /\ redeemed'[c] = redeemed[c]
<1>1. Init => BindingInv BY InitBound, Zenon DEF BindingInv
<1>2. BindingInv /\ [Next]_vars => BindingInv' BY NextKeeps, Zenon
<1>3. BindingInv /\ BindingInv' /\ [Next]_vars => Step
  <2>. SUFFICES ASSUME Shape, OwnerInv, CodeInv, CodeInv', [Next]_vars, NEW c \in DOMAIN codes
                PROVE  /\ redeemed'[c] # redeemed[c] => redeemed[c] = 0 /\ redeemed'[c] = 1
                       /\ codes'[c].row = "open" => redeemed'[c] = 0
                       /\ codes[c].row = "deleted" =>
                            codes'[c].row = "deleted" /\ redeemed'[c] = redeemed[c]
    BY Zenon DEF BindingInv
  <2>1. c \in 1 .. MaxCodes
    <3>1. DOMAIN codes = 1 .. Len(codes) /\ Len(codes) \in Nat /\ Len(codes) <= MaxCodes
      BY DEF Shape
    <3>. QED BY <3>1, BindingAssumption
  <2>2. codes'[c].row = "open" => redeemed'[c] = 0 BY <2>1, Zenon DEF CodeInv, Spent
  <2>. QED BY <2>2, CodeStep, Zenon
<1>4. Spec => [][Step]_vars
  <2>. HIDE DEF Step
  <2>. QED BY <1>1, <1>2, <1>3, PTL DEF Spec
<1>5. UNCHANGED vars => UNCHANGED bindVars BY Zenon DEF vars
<1>6. [Step]_vars => [Step]_bindVars BY <1>5, Zenon
<1>. QED BY <1>4, <1>6, PTL DEF CodeRedeemedOnce
------------------------------------------------------------------------------
(* No step takes a bot from its owner, a user from their account, or a        *)
(* binding away.                                                              *)
Grows ==
  /\ \A b \in DOMAIN bots : b \in DOMAIN bots' /\ bots'[b].owner = bots[b].owner
  /\ \A u \in User : identity[u] # NoAccount => identity'[u] = identity[u]
  /\ bindings \subseteq bindings'

LEMMA NextGrows ==
  ASSUME Shape, OwnerInv, [Next]_vars
  PROVE  Grows
<1>1. CASE UNCHANGED <<bots, identity, bindings>> BY <1>1, Zenon DEF Grows
<1>2. ASSUME NEW j \in Job, UpsertWrite(j) PROVE Grows
  <2>1. jobs[j] \in JobShape /\ jobs[j].at = "upsert" BY <1>2, Zenon DEF Shape, UpsertWrite
  <2>2. jobs[j].account \in Account /\ jobs[j].seen \in Nat /\ jobs[j].enable \in BOOLEAN
    BY <2>1, Zenon DEF JobShape
  <2>3. jobs[j].seen # 0 => jobs[j].seen \in DOMAIN bots
    BY <2>1, Zenon DEF OwnerInv, JobsKnow, JobKnows
  <2>4. WriteBot(jobs[j].account, jobs[j].seen, jobs[j].enable) BY <1>2, Zenon DEF UpsertWrite
  <2>5. \A b \in DOMAIN bots : b \in DOMAIN bots' /\ bots'[b].owner = bots[b].owner
    BY <2>2, <2>3, <2>4, BotWritten, Zenon
  <2>. QED BY <1>2, <2>5, Zenon DEF UpsertWrite, Grows
<1>3. ASSUME NEW j \in Job, BindCommit(j) PROVE Grows
  <2>1. bots' = bots /\ bindings \subseteq bindings' BY <1>3, Zenon DEF BindCommit
  <2>2. \/ identity' = identity
        \/ /\ identity[jobs[j].user] = NoAccount
           /\ identity' = [identity EXCEPT ![jobs[j].user] = bots[jobs[j].bot].owner]
    BY <1>3, Zenon DEF BindCommit, Insertable
  <2>3. \A u \in User : identity[u] # NoAccount => identity'[u] = identity[u]
    BY <2>2, Zenon DEF Shape
  <2>. QED BY <2>1, <2>3, Zenon DEF Grows
<1>4. CASE ImportBot
  <2>1. PICK a \in Tokens : run.item = {a} /\ (run.seen # 0 => OwnedBy(run.seen, a))
    BY <1>4, Zenon DEF ImportBot, OwnerInv, RunKnows
  <2>2. The(run.item) = a /\ a \in Account BY <2>1, ImportAssumption, Zenon DEF The
  <2>3. WriteBot(a, run.seen, FALSE) BY <1>4, <2>2, Zenon DEF ImportBot
  <2>4. run.seen \in Nat /\ (run.seen # 0 => run.seen \in DOMAIN bots)
    BY <2>1, Zenon DEF Shape, RunShape, OwnedBy
  <2>5. \A b \in DOMAIN bots : b \in DOMAIN bots' /\ bots'[b].owner = bots[b].owner
    BY <2>2, <2>3, <2>4, BotWritten, Zenon
  <2>. QED BY <1>4, <2>5, Zenon DEF ImportBot, notBots, Grows
<1>5. CASE ImportSettings
  <2>1. run.seen \in DOMAIN bots BY <1>5, Zenon DEF ImportSettings, OwnerInv, RunKnows
  <2>2. \A b \in DOMAIN bots : bots[b] \in Bot BY DEF Shape
  <2>3. bots' = [bots EXCEPT ![run.seen].enabled = FALSE] BY <1>5, Zenon DEF ImportSettings
  <2>4. \A b \in DOMAIN bots : b \in DOMAIN bots' /\ bots'[b].owner = bots[b].owner
    BY <2>1, <2>2, <2>3, Zenon DEF Bot
  <2>. QED BY <1>5, <2>4, Zenon DEF ImportSettings, notBots, Grows
<1>6. CASE ImportIdentity
  <2>. DEFINE p == The(run.item)
  <2>1. \/ identity' = identity
        \/ identity[p[2]] = NoAccount /\ identity' = [identity EXCEPT ![p[2]] = p[1]]
    BY <1>6, Zenon DEF ImportIdentity, Insertable
  <2>. HIDE DEF p
  <2>2. \A u \in User : identity[u] # NoAccount => identity'[u] = identity[u]
    BY <2>1, Zenon DEF Shape
  <2>. QED BY <1>6, <2>2, Zenon DEF ImportIdentity, Grows
<1>7. CASE ImportBinding
  <2>1. bots' = bots /\ identity' = identity /\ bindings \subseteq bindings'
    BY <1>7, Zenon DEF ImportBinding
  <2>. QED BY <2>1, Zenon DEF Grows
<1>8. CASE Import
  <2>1. CASE Start \/ Stop \/ FileStep \/ PluginAccount \/ ReadBot \/ BotsDone \/ ReadIdentity \/ Done
    <3>1. UNCHANGED <<bots, identity, bindings>>
      BY <2>1, Zenon DEF Start, Stop, FileStep, NextHandle, SkipFile, FindImported, ImportCharacter,
           InsertRevision, ImportChat, SkipChat, RecordKey, HandleDone, PluginAccount, ReadBot,
           BotsDone, ReadIdentity, Done, bindVars, notAccounts
    <3>. QED BY <1>1, <3>1, Zenon
  <2>. QED BY <1>4, <1>5, <1>6, <1>7, <1>8, <2>1, Zenon DEF Import, FileStep
<1>9. CASE BindNext
  <2>1. CASE BootstrapAdmin \/ LockEnds
    <3>1. UNCHANGED <<bots, identity, bindings>> BY <2>1, Zenon DEF BootstrapAdmin, LockEnds
    <3>. QED BY <1>1, <3>1, Zenon
  <2>2. ASSUME NEW j \in Job, Request(j), ~UpsertWrite(j), ~BindCommit(j)
        PROVE  UNCHANGED <<bots, identity, bindings>>
    BY <2>2, Zenon DEF Request, UpsertRead, GenerateDelete, GenerateInsert, Bind, BindFindsCode,
         BindMatchesCode, BindDeletesExpired, BindReadsIdentity, RecordFailure, LockAtLimit
  <2>. QED BY <1>1, <1>2, <1>3, <1>9, <2>1, <2>2, Zenon DEF BindNext
<1>10. CASE UNCHANGED vars BY <1>1, <1>10, Zenon DEF vars, bindVars
<1>. QED BY <1>8, <1>9, <1>10, Zenon DEF Next
------------------------------------------------------------------------------
(* The files.  Stored: what its source key promises.  Processed: what the end *)
(* of a run owes the file.  Passed: the run has left it behind.  Seen: the    *)
(* card has a row that this run or the next one will take for its import.     *)
Stored(f) == IF f \in Card THEN whole[f] # 0 ELSE talks[f] = 1
Processed(f) == IF f \in Card THEN f \in keys ELSE f \in keys <=> talks[f] = 1
Passed(f) ==
  /\ run.at # "stopped"
  /\ run.at \in {"handles", "files", "revision", "key"} => Owner[f] \notin run.left
  /\ run.at \in {"files", "revision", "key"} => f \notin run.files

Hands == {"revision", "key"}
Seen(f) ==
  \/ f \in keys
  \/ f \in Canonical /\ whole[f] # 0
  \/ run.at \in Hands /\ run.item = {f}

Tables ==
  /\ bare \in [Card -> Nat] /\ orphans \in [Card -> Nat]
  /\ whole \in [Card -> Nat] /\ talks \in [Chat -> {0, 1}] /\ keys \subseteq File
  /\ \A f \in Canonical : whole[f] \in {0, 1}
  /\ \A f \in keys : Stored(f)

(* Which file is in hand, and that every file passed was processed.           *)
InHand ==
  /\ run.at = "revision" =>
       \E f \in Card : /\ run.item = {f} /\ f \in run.files /\ bare[f] # 0
                       /\ f \in Canonical => whole[f] = 0
  /\ run.at = "key" => \E f \in File : run.item = {f} /\ f \in run.files /\ Stored(f)

(* The rows of a card: the orphans, and one that is seen.                     *)
Rows ==
  \A f \in Card : /\ bare[f] + whole[f] <= orphans[f] + 1
                  /\ ~Seen(f) => bare[f] + whole[f] <= orphans[f]
FileInv == Tables /\ InHand /\ Rows /\ \A f \in File : Passed(f) => Processed(f)

(* A step of the run, with no file in hand, that writes no card.              *)
LEMMA RowsStay ==
  ASSUME Rows, UNCHANGED <<bare, whole, keys, orphans>>, run.at \notin Hands
  PROVE  Rows'
BY Zenon DEF Rows, Seen

(* A step of the run, with no file in hand, that writes no file.              *)
LEMMA FileInvStays ==
  ASSUME FileInv, UNCHANGED <<bare, whole, talks, keys, orphans>>, run.at \notin Hands, InHand',
         \A f \in File : Passed(f)' => Processed(f)
  PROVE  FileInv'
<1>1. Tables' BY Zenon DEF FileInv, Tables, Stored
<1>2. \A f \in File : Passed(f)' => Processed(f)' BY Zenon DEF Processed
<1>. QED BY <1>1, <1>2, RowsStay, Zenon DEF FileInv

Later ==
  {"accounts", "bots", "write", "settings", "bindings", "identity", "bind", "done"}

LEMMA FilesKept ==
  ASSUME Shape, FileInv, [Next]_vars
  PROVE  FileInv'
<1>. USE DEF Passed
<1>1. run \in RunShape BY Zenon DEF Shape
<1>2. Tables /\ InHand /\ Rows /\ \A f \in File : Passed(f) => Processed(f) BY Zenon DEF FileInv
<1>3. Card \cap Chat = {} /\ Canonical \subseteq Card BY ImportAssumption, Zenon
<1>4. \A f \in Chat : talks[f] \in {0, 1} BY <1>2, Zenon DEF Tables
<1>5. CASE UNCHANGED <<bare, whole, talks, keys, orphans, run>>
  BY <1>5, Zenon DEF FileInv, Tables, InHand, Rows, Seen, Stored, Processed
<1>6. CASE Start
  <2>1. /\ UNCHANGED <<bare, whole, talks, keys, orphans>> /\ run.at \in {"stopped", "done"}
        /\ run'.at = "handles" /\ run'.left = Handles
    BY <1>6, Zenon DEF Start, Stopped
  <2>2. \A f \in File : Owner[f] \in Handles BY Zenon DEF Handles
  <2>3. InHand' BY <2>1, Zenon DEF InHand
  <2>4. run.at \notin Hands BY <2>1 DEF Hands
  <2>. QED BY <2>1, <2>2, <2>3, <2>4, FileInvStays, Zenon
<1>7. CASE Stop
  <2>1. UNCHANGED <<bare, whole, talks, keys>> /\ run'.at = "stopped" BY <1>7, Zenon DEF Stop, Stopped
  <2>2. InHand' BY <2>1, Zenon DEF InHand
  <2>3. \A f \in Card : /\ orphans[f] \in Nat /\ bare[f] \in Nat /\ whole[f] \in Nat
                        /\ orphans'[f] = orphans[f] + (IF Orphaned(f) THEN 1 ELSE 0)
    BY <1>2, <1>7, Zenon DEF Stop, Tables
  <2>4. orphans' \in [Card -> Nat]
    <3>1. \A f \in Card : orphans'[f] \in Nat BY <2>3
    <3>2. orphans' = [f \in Card |-> orphans[f] + (IF Orphaned(f) THEN 1 ELSE 0)]
      BY <1>7, Zenon DEF Stop
    <3>. QED BY <3>1, <3>2, Zenon
  <2>5. Tables' BY <1>2, <2>1, <2>4, Zenon DEF Tables, Stored
  <2>6. ASSUME NEW f \in Card, ~Orphaned(f), ~Seen(f)' PROVE ~Seen(f)
    <3>1. f \notin keys /\ ~(f \in Canonical /\ whole[f] # 0) BY <2>1, <2>6, Zenon DEF Seen
    <3>2. ASSUME run.at \in Hands, run.item = {f} PROVE FALSE
      <4>1. run.at = "key" /\ f \in Canonical BY <2>6, <3>2, Zenon DEF Hands, Orphaned
      <4>2. Stored(f) BY <1>2, <3>2, <4>1, Zenon DEF InHand
      <4>. QED BY <3>1, <4>1, <4>2, Zenon DEF Stored
    <3>. QED BY <3>1, <3>2, Zenon DEF Seen
  <2>7. Rows'
    <3>. SUFFICES ASSUME NEW f \in Card
                  PROVE  /\ bare'[f] + whole'[f] <= orphans'[f] + 1
                         /\ ~Seen(f)' => bare'[f] + whole'[f] <= orphans'[f]
      BY Zenon DEF Rows
    <3>1. /\ bare[f] + whole[f] <= orphans[f] + 1
          /\ ~Seen(f) => bare[f] + whole[f] <= orphans[f]
      BY <1>2, Zenon DEF Rows
    <3>2. CASE Orphaned(f)
      <4>1. orphans'[f] = orphans[f] + 1 BY <2>3, <3>2, Zenon
      <4>2. bare'[f] + whole'[f] <= orphans'[f] BY <2>1, <2>3, <3>1, <4>1, Zenon
      <4>. QED BY <2>1, <2>3, <4>1, <4>2
    <3>3. CASE ~Orphaned(f)
      <4>1. orphans'[f] = orphans[f] BY <2>3, <3>3
      <4>. QED BY <2>1, <2>6, <3>1, <3>3, <4>1, Zenon
    <3>. QED BY <3>2, <3>3, Zenon
  <2>8. \A f \in File : ~Passed(f)' BY <2>1, Zenon
  <2>. QED BY <2>2, <2>5, <2>7, <2>8, Zenon DEF FileInv
<1>8. CASE NextHandle
  <2>1. PICK a \in run.left : run' = [run EXCEPT !.at = "files", !.left = @ \ {a},
                                                 !.files = FilesOf(a)]
    BY <1>8, Zenon DEF NextHandle
  <2>2. run'.at = "files" /\ run'.left = run.left \ {a} /\ run'.files = FilesOf(a)
    BY <1>1, <2>1, Zenon DEF RunShape
  <2>3. UNCHANGED <<bare, whole, talks, keys, orphans>> /\ run.at = "handles" BY <1>8, Zenon DEF NextHandle
  <2>4. InHand' BY <2>2, Zenon DEF InHand
  <2>5. ASSUME NEW f \in File, Passed(f)' PROVE Processed(f)
    <3>1. Owner[f] # a BY <2>2, <2>5, Zenon DEF FilesOf
    <3>2. Owner[f] \notin run.left BY <2>2, <2>5, <3>1, Zenon
    <3>. QED BY <1>2, <2>3, <3>2, Zenon
  <2>6. run.at \notin Hands BY <2>3 DEF Hands
  <2>. QED BY <2>3, <2>4, <2>5, <2>6, FileInvStays, Zenon
<1>9. CASE SkipFile \/ SkipChat
  <2>1. PICK f \in File : /\ Processed(f) /\ run.at = "files" /\ run' = [run EXCEPT !.files = @ \ {f}]
    <3>1. CASE SkipFile
      <4>1. PICK f \in keys : Due(f) /\ run' = [run EXCEPT !.files = @ \ {f}]
        BY <3>1, Zenon DEF SkipFile
      <4>2. f \in File /\ Stored(f) BY <1>2, Zenon DEF Tables
      <4>3. Processed(f) BY <4>2, Zenon DEF Processed, Stored
      <4>. QED BY <4>1, <4>2, <4>3, Zenon DEF Due
    <3>2. CASE SkipChat
      <4>1. PICK f \in Chat \ keys : Due(f) /\ ~Imported(f) /\ run' = [run EXCEPT !.files = @ \ {f}]
        BY <3>2, Zenon DEF SkipChat
      <4>2. f \in File /\ f \notin Card BY <1>3, <4>1, Zenon DEF File
      <4>3. talks[f] # 1 BY <4>1, <4>2 DEF Imported, ExistingChat
      <4>4. Processed(f) BY <4>1, <4>2, <4>3, Zenon DEF Processed
      <4>. QED BY <4>1, <4>2, <4>4, Zenon DEF Due
    <3>. QED BY <1>9, <3>1, <3>2, Zenon
  <2>2. run'.at = "files" /\ run'.left = run.left /\ run'.files = run.files \ {f}
    BY <1>1, <2>1, Zenon DEF RunShape
  <2>3. UNCHANGED <<bare, whole, talks, keys, orphans>> BY <1>9, Zenon DEF SkipFile, SkipChat
  <2>4. InHand' BY <2>2, Zenon DEF InHand
  <2>5. ASSUME NEW g \in File, Passed(g)' PROVE Processed(g)
    <3>1. CASE g = f BY <2>1, <3>1, Zenon
    <3>2. CASE g # f BY <1>2, <2>1, <2>2, <2>5, <3>2, Zenon
    <3>. QED BY <3>1, <3>2, Zenon
  <2>6. run.at \notin Hands BY <2>1 DEF Hands
  <2>. QED BY <2>3, <2>4, <2>5, <2>6, FileInvStays, Zenon
<1>10. CASE FindImported
  <2>1. PICK f \in File \ keys :
          Due(f) /\ Imported(f) /\ run' = [run EXCEPT !.at = "key", !.item = {f}]
    BY <1>10, Zenon DEF FindImported
  <2>2. /\ run'.at = "key" /\ run'.left = run.left /\ run'.files = run.files /\ run'.item = {f}
        /\ run.at = "files" /\ f \in run.files
    BY <1>1, <2>1, Zenon DEF RunShape, Due
  <2>3. UNCHANGED <<bare, whole, talks, keys, orphans>> BY <1>10, Zenon DEF FindImported
  <2>4. Stored(f)
    <3>1. CASE f \in Card BY <2>1, <3>1 DEF Imported, ExistingCharacter, Stored
    <3>2. CASE f \notin Card
      <4>1. talks[f] \in {0, 1} /\ talks[f] > 0
        BY <1>4, <2>1, <3>2, Zenon DEF Imported, ExistingChat, File
      <4>. QED BY <3>2, <4>1 DEF Stored
    <3>. QED BY <3>1, <3>2, Zenon
  <2>5. Stored(f)' BY <2>3, <2>4, Zenon DEF Stored
  <2>6. InHand' BY <2>1, <2>2, <2>5, Zenon DEF InHand
  <2>7. \A g \in File : Passed(g)' => Processed(g) BY <1>2, <2>2, Zenon
  <2>8. run.at \notin Hands BY <2>2 DEF Hands
  <2>. QED BY <2>3, <2>6, <2>7, <2>8, FileInvStays, Zenon
<1>11. CASE ImportCharacter
  <2>1. PICK f \in Card \ keys :
          /\ Due(f) /\ ~Imported(f) /\ run' = [run EXCEPT !.at = "revision", !.item = {f}]
          /\ bare' = [bare EXCEPT ![f] = bare[f] + 1]
    BY <1>11, Zenon DEF ImportCharacter
  <2>2. /\ run'.at = "revision" /\ run'.left = run.left /\ run'.files = run.files /\ run'.item = {f}
        /\ run.at = "files" /\ f \in run.files
    BY <1>1, <2>1, Zenon DEF RunShape, Due
  <2>3. UNCHANGED <<whole, talks, keys, orphans>> BY <1>11, Zenon DEF ImportCharacter
  <2>4. f \in Canonical => whole[f] = 0
    <3>1. f \in Canonical => ~(whole[f] > 0) BY <2>1, Zenon DEF Imported, ExistingCharacter
    <3>2. whole[f] \in Nat BY <1>2, <2>1, Zenon DEF Tables
    <3>. QED BY <3>1, <3>2
  <2>5. \A g \in Card : bare[g] \in Nat /\ whole[g] \in Nat /\ orphans[g] \in Nat
    BY <1>2, Zenon DEF Tables
  <2>6. /\ bare' \in [Card -> Nat] /\ bare'[f] = bare[f] + 1 /\ bare'[f] # 0
        /\ \A g \in Card : g # f => bare'[g] = bare[g]
    <3>1. bare[f] + 1 \in Nat /\ bare[f] + 1 # 0 BY <2>5
    <3>. QED BY <1>2, <2>1, <3>1, Zenon DEF Tables
  <2>7. InHand' BY <2>1, <2>2, <2>3, <2>4, <2>6, Zenon DEF InHand
  <2>8. Tables' BY <1>2, <2>3, <2>6, Zenon DEF Tables, Stored
  <2>9. ASSUME NEW g \in File, Passed(g)' PROVE Processed(g)'
    <3>1. Processed(g) BY <1>2, <2>2, <2>9, Zenon
    <3>. QED BY <2>3, <3>1, Zenon DEF Processed
  <2>10. Rows'
    <3>. SUFFICES ASSUME NEW g \in Card
                  PROVE  /\ bare'[g] + whole'[g] <= orphans'[g] + 1
                         /\ ~Seen(g)' => bare'[g] + whole'[g] <= orphans'[g]
      BY Zenon DEF Rows
    <3>1. run.at \notin Hands BY <2>2 DEF Hands
    <3>2. CASE g = f
      <4>1. ~Seen(f) BY <2>1, <2>4, <3>1, Zenon DEF Seen
      <4>2. bare[f] + whole[f] <= orphans[f] BY <1>2, <4>1, Zenon DEF Rows
      <4>3. bare'[f] + whole'[f] <= orphans'[f] + 1 BY <2>3, <2>5, <2>6, <4>2
      <4>4. Seen(f)' BY <2>2, Zenon DEF Seen, Hands
      <4>. QED BY <3>2, <4>3, <4>4, Zenon
    <3>3. CASE g # f
      <4>1. bare'[g] = bare[g] BY <2>6, <3>3, Zenon
      <4>2. ~Seen(g)' => ~Seen(g) BY <2>3, <3>1, Zenon DEF Seen
      <4>. QED BY <1>2, <2>3, <4>1, <4>2, Zenon DEF Rows
    <3>. QED BY <3>2, <3>3, Zenon
  <2>. QED BY <2>7, <2>8, <2>9, <2>10, Zenon DEF FileInv
<1>12. CASE InsertRevision
  <2>1. PICK f \in Card : /\ run.item = {f} /\ f \in run.files /\ bare[f] # 0
                          /\ f \in Canonical => whole[f] = 0
    BY <1>2, <1>12, Zenon DEF InsertRevision, InHand
  <2>2. The(run.item) = f BY <2>1, Zenon DEF The
  <2>3. /\ whole' = [whole EXCEPT ![f] = whole[f] + 1] /\ run' = [run EXCEPT !.at = "key"]
        /\ bare' = [bare EXCEPT ![f] = bare[f] - 1]
        /\ UNCHANGED <<talks, keys, orphans>> /\ run.at = "revision"
    BY <1>12, <2>2, Zenon DEF InsertRevision
  <2>4. /\ run'.at = "key" /\ run'.left = run.left /\ run'.files = run.files /\ run'.item = {f}
    BY <1>1, <2>1, <2>3, Zenon DEF RunShape
  <2>5. whole \in [Card -> Nat] BY <1>2, Zenon DEF Tables
  <2>6. /\ whole' \in [Card -> Nat] /\ whole'[f] # 0 /\ (f \in Canonical => whole'[f] = 1)
        /\ \A g \in Card : g # f => whole'[g] = whole[g]
    BY <2>1, <2>3, <2>5
  <2>11. /\ bare' \in [Card -> Nat] /\ bare'[f] + whole'[f] = bare[f] + whole[f]
         /\ \A g \in Card : g # f => bare'[g] = bare[g]
    <3>1. bare \in [Card -> Nat] BY <1>2, Zenon DEF Tables
    <3>2. bare[f] - 1 \in Nat BY <2>1, <3>1
    <3>3. /\ bare' \in [Card -> Nat] /\ bare'[f] = bare[f] - 1
          /\ \A g \in Card : g # f => bare'[g] = bare[g]
      BY <2>3, <3>1, <3>2, Zenon
    <3>4. whole'[f] = whole[f] + 1 /\ bare[f] \in Nat /\ whole[f] \in Nat BY <2>3, <2>5, <3>1, Zenon
    <3>. QED BY <3>3, <3>4
  <2>7. Tables'
    <3>1. \A g \in Canonical : whole'[g] \in {0, 1} BY <1>2, <1>3, <2>6, Zenon DEF Tables
    <3>2. \A g \in keys : Stored(g)' BY <1>2, <2>3, <2>6, Zenon DEF Tables, Stored
    <3>. QED BY <1>2, <2>3, <2>6, <2>11, <3>1, <3>2, Zenon DEF Tables
  <2>12. Rows'
    <3>. SUFFICES ASSUME NEW g \in Card
                  PROVE  /\ bare'[g] + whole'[g] <= orphans'[g] + 1
                         /\ ~Seen(g)' => bare'[g] + whole'[g] <= orphans'[g]
      BY Zenon DEF Rows
    <3>1. CASE g = f
      <4>1. Seen(f)' BY <2>4, Zenon DEF Seen, Hands
      <4>2. bare[f] + whole[f] <= orphans[f] + 1 BY <1>2, Zenon DEF Rows
      <4>. QED BY <2>3, <2>11, <3>1, <4>1, <4>2, Zenon
    <3>2. CASE g # f
      <4>1. bare'[g] = bare[g] /\ whole'[g] = whole[g] BY <2>6, <2>11, <3>2, Zenon
      <4>2. ~Seen(g)' => ~Seen(g) BY <2>1, <2>3, <3>2, <4>1, Zenon DEF Seen
      <4>. QED BY <1>2, <2>3, <4>1, <4>2, Zenon DEF Rows
    <3>. QED BY <3>1, <3>2, Zenon
  <2>8. Stored(f)' /\ f \in File BY <2>6, Zenon DEF Stored, File
  <2>9. InHand' BY <2>1, <2>4, <2>8, Zenon DEF InHand
  <2>10. \A g \in File : Passed(g)' => Processed(g)' BY <1>2, <2>3, <2>4, Zenon DEF Processed
  <2>. QED BY <2>7, <2>9, <2>10, <2>12, Zenon DEF FileInv
<1>13. CASE ImportChat
  <2>1. PICK f \in Chat \ keys :
          /\ Due(f) /\ ~Imported(f)
          /\ talks' = [talks EXCEPT ![f] = talks[f] + 1]
          /\ run' = [run EXCEPT !.at = "key", !.item = {f}]
    BY <1>13, Zenon DEF ImportChat
  <2>2. /\ run'.at = "key" /\ run'.left = run.left /\ run'.files = run.files /\ run'.item = {f}
        /\ run.at = "files" /\ f \in run.files
    BY <1>1, <2>1, Zenon DEF RunShape, Due
  <2>3. UNCHANGED <<bare, whole, keys, orphans>> BY <1>13, Zenon DEF ImportChat
  <2>4. f \notin Card /\ f \in File BY <1>3, <2>1, Zenon DEF File
  <2>5. talks[f] = 0 BY <1>4, <2>1, <2>4 DEF Imported, ExistingChat
  <2>6. talks \in [Chat -> {0, 1}] BY <1>2, Zenon DEF Tables
  <2>7. talks' = [talks EXCEPT ![f] = 1] BY <2>1, <2>5
  <2>8. talks' \in [Chat -> {0, 1}] /\ talks'[f] = 1 /\ \A g \in Chat : g # f => talks'[g] = talks[g]
    BY <2>1, <2>6, <2>7, Zenon
  <2>9. ASSUME NEW g \in File, g # f PROVE g \notin Card => talks'[g] = talks[g]
    BY <2>8, <2>9, Zenon DEF File
  <2>10. Tables'
    <3>1. \A g \in keys : Stored(g)' BY <1>2, <2>3, <2>4, <2>8, <2>9, Zenon DEF Tables, Stored
    <3>. QED BY <1>2, <2>3, <2>8, <3>1, Zenon DEF Tables
  <2>11. InHand' BY <2>2, <2>4, <2>8, Zenon DEF InHand, Stored
  <2>12. ASSUME NEW g \in File, Passed(g)' PROVE Processed(g)'
    <3>1. g # f /\ Processed(g) BY <1>2, <2>2, <2>12, Zenon
    <3>. QED BY <2>3, <2>9, <3>1, Zenon DEF Processed
  <2>13. run.at \notin Hands BY <2>2 DEF Hands
  <2>. QED BY <1>2, <2>3, <2>10, <2>11, <2>12, <2>13, RowsStay, Zenon DEF FileInv
<1>14. CASE RecordKey
  <2>1. PICK f \in File : run.item = {f} /\ f \in run.files /\ Stored(f)
    BY <1>2, <1>14, Zenon DEF RecordKey, InHand
  <2>2. /\ keys' = keys \cup {f} /\ UNCHANGED <<bare, whole, talks, orphans>> /\ run.at = "key"
        /\ run' = [run EXCEPT !.at = "files", !.files = @ \ {f}, !.item = {}]
    BY <1>14, <2>1, Zenon DEF RecordKey
  <2>3. run'.at = "files" /\ run'.left = run.left /\ run'.files = run.files \ {f}
    BY <1>1, <2>2, Zenon DEF RunShape
  <2>4. Tables' BY <1>2, <2>1, <2>2, Zenon DEF Tables, Stored
  <2>5. InHand' BY <2>3, Zenon DEF InHand
  <2>6. ASSUME NEW g \in File, Passed(g)' PROVE Processed(g)'
    <3>1. CASE g = f BY <2>1, <2>2, <3>1, Zenon DEF Processed, Stored
    <3>2. CASE g # f
      <4>1. Processed(g) BY <1>2, <2>2, <2>3, <2>6, <3>2, Zenon
      <4>. QED BY <2>2, <3>2, <4>1, Zenon DEF Processed
    <3>. QED BY <3>1, <3>2, Zenon
  <2>7. \A g \in Card : ~Seen(g)' => ~Seen(g) BY <2>1, <2>2, Zenon DEF Seen
  <2>8. Rows' BY <1>2, <2>2, <2>7, Zenon DEF Rows
  <2>. QED BY <2>4, <2>5, <2>6, <2>8, Zenon DEF FileInv
<1>15. CASE HandleDone
  <2>1. UNCHANGED <<bare, whole, talks, keys, orphans>> /\ run.at = "files" /\ run.files = {}
    BY <1>15, Zenon DEF HandleDone
  <2>2. \/ run'.at = "handles" /\ run'.left = run.left
        \/ run'.at = "accounts" /\ run.left = {}
    BY <1>1, <1>15, Zenon DEF HandleDone, RunShape
  <2>3. InHand' BY <2>2, Zenon DEF InHand
  <2>4. \A f \in File : Passed(f)' => Processed(f) BY <1>2, <2>1, <2>2, Zenon
  <2>5. run.at \notin Hands BY <2>1 DEF Hands
  <2>. QED BY <2>1, <2>3, <2>4, <2>5, FileInvStays, Zenon
<1>16. ASSUME UNCHANGED <<bare, whole, talks, keys, orphans>>, run.at \in Later, run'.at \in Later
       PROVE  FileInv'
  <2>1. InHand' BY <1>16, Zenon DEF InHand, Later
  <2>2. \A f \in File : Processed(f) BY <1>2, <1>16, Zenon DEF Later
  <2>3. run.at \notin Hands BY <1>16 DEF Later, Hands
  <2>. QED BY <1>16, <2>1, <2>2, <2>3, FileInvStays, Zenon
<1>17. CASE PluginAccount
  <2>1. run'.at \in {"accounts", "bots"} BY <1>1, <1>17, Zenon DEF PluginAccount, RunShape
  <2>. QED BY <1>16, <1>17, <2>1, Zenon DEF PluginAccount, Later
<1>18. CASE ReadBot \/ ImportBot \/ ImportSettings \/ BotsDone
  <2>1. UNCHANGED <<bare, whole, talks, keys, orphans>> /\ run.at \in Later
    BY <1>18, Zenon DEF ReadBot, ImportBot, ImportSettings, BotsDone, Later
  <2>2. run'.at \in Later
    BY <1>1, <1>18, Zenon DEF ReadBot, ImportBot, ImportSettings, BotsDone, Later, RunShape
  <2>. QED BY <1>16, <2>1, <2>2, Zenon
<1>19. CASE ReadIdentity \/ ImportIdentity \/ ImportBinding \/ Done
  <2>1. UNCHANGED <<bare, whole, talks, keys, orphans>> /\ run.at \in Later
    BY <1>19, Zenon DEF ReadIdentity, ImportIdentity, ImportBinding, Done, Later
  <2>2. run'.at \in Later
    BY <1>1, <1>19, Zenon DEF ReadIdentity, ImportIdentity, ImportBinding, Done, Stopped, Later, RunShape
  <2>. QED BY <1>16, <2>1, <2>2, Zenon
<1>20. CASE Import
  BY <1>6, <1>7, <1>8, <1>9, <1>10, <1>11, <1>12, <1>13, <1>14, <1>15, <1>17, <1>18, <1>19, <1>20,
     Zenon DEF Import
<1>21. CASE (BindNext /\ UNCHANGED importVars) \/ UNCHANGED vars
  BY <1>5, <1>21, Zenon DEF vars, importVars
<1>. QED BY <1>20, <1>21, Zenon DEF Next
------------------------------------------------------------------------------
(* The users.  A user the run has dealt with is bound, or another account's.  *)
Settled(p) ==
  \/ identity[p[2]] \notin {NoAccount, p[1]}
  \/ \E b \in BotsOf(p[1]) : <<b, p[2]>> \in bindings
UserInv ==
  /\ run.at = "done" => \A p \in Pending : Settled(p)
  /\ run.at = "bindings" => \A p \in Pending \ run.left : Settled(p)
  /\ run.at \in {"identity", "bind"} => \A p \in Pending \ (run.left \cup run.item) : Settled(p)

LEMMA UsersKept ==
  ASSUME Shape, OwnerInv, UserInv, [Next]_vars
  PROVE  UserInv'
<1>1. run \in RunShape BY Zenon DEF Shape
<1>2. ASSUME NEW p \in Pending, Settled(p) PROVE Settled(p)'
  <2>1. Grows /\ p[2] \in User BY NextGrows, PendingPair, Zenon
  <2>2. CASE identity[p[2]] \notin {NoAccount, p[1]} BY <2>1, <2>2, Zenon DEF Grows, Settled
  <2>3. ASSUME NEW b \in BotsOf(p[1]), <<b, p[2]>> \in bindings PROVE Settled(p)'
    <3>1. b \in BotsOf(p[1])' /\ <<b, p[2]>> \in bindings'
      BY <2>1, <2>3, Zenon DEF Grows, BotsOf
    <3>. QED BY <3>1, Zenon DEF Settled
  <2>. QED BY <1>2, <2>2, <2>3, Zenon DEF Settled
<1>3. CASE run' = run BY <1>2, <1>3, Zenon DEF UserInv
<1>4. CASE run'.at \notin {"done", "bindings", "identity", "bind"} BY <1>4, Zenon DEF UserInv
<1>5. CASE BotsDone
  <2>1. run'.at = "bindings" /\ run'.left = Pending BY <1>1, <1>5, Zenon DEF BotsDone, RunShape
  <2>. QED BY <2>1, Zenon DEF UserInv
<1>6. CASE ReadIdentity
  <2>1. PICK p \in run.left :
          run' = IF identity[p[2]] \in {NoAccount, p[1]}
                 THEN [run EXCEPT !.at = "identity", !.left = @ \ {p}, !.item = {p},
                                  !.fresh = identity[p[2]] = NoAccount]
                 ELSE [run EXCEPT !.left = @ \ {p}]
    BY <1>6, Zenon DEF ReadIdentity
  <2>2. run.at = "bindings" /\ identity' = identity BY <1>6, Zenon DEF ReadIdentity, bindVars
  <2>3. \A q \in Pending \ run.left : Settled(q) BY <2>2, Zenon DEF UserInv
  <2>4. CASE identity[p[2]] \in {NoAccount, p[1]}
    <3>1. run'.at = "identity" /\ run'.left = run.left \ {p} /\ run'.item = {p}
      BY <1>1, <2>1, <2>4, Zenon DEF RunShape
    <3>. QED BY <1>2, <2>3, <3>1, Zenon DEF UserInv
  <2>5. CASE identity[p[2]] \notin {NoAccount, p[1]}
    <3>1. run'.at = "bindings" /\ run'.left = run.left \ {p}
      BY <1>1, <2>1, <2>2, <2>5, Zenon DEF RunShape
    <3>2. Settled(p)' BY <2>2, <2>5, Zenon DEF Settled
    <3>. QED BY <1>2, <2>3, <3>1, <3>2, Zenon DEF UserInv
  <2>. QED BY <2>4, <2>5, Zenon
<1>7. CASE ImportIdentity
  <2>1. run.at = "identity" /\ run' = [run EXCEPT !.at = "bind", !.fresh = FALSE]
    BY <1>7, Zenon DEF ImportIdentity
  <2>2. run'.at = "bind" /\ run'.left = run.left /\ run'.item = run.item
    BY <1>1, <2>1, Zenon DEF RunShape
  <2>. QED BY <1>2, <2>1, <2>2, Zenon DEF UserInv
<1>8. CASE ImportBinding
  <2>1. run.at = "bind" /\ bots' = bots /\ run' = [run EXCEPT !.at = "bindings", !.item = {}]
    BY <1>8, Zenon DEF ImportBinding
  <2>2. run'.at = "bindings" /\ run'.left = run.left BY <1>1, <2>1, Zenon DEF RunShape
  <2>3. PICK p \in Pending : run.item = {p} BY <2>1, Zenon DEF OwnerInv, RunKnows
  <2>4. The(run.item) = p /\ p[1] \in Tokens BY <2>3, PendingPair, Zenon DEF The
  <2>. DEFINE m == CHOOSE k \in run.made : k[1] = p[1]
  <2>5. m \in run.made /\ m[1] = p[1] BY <2>1, <2>4, PendingMade, Zenon DEF HasMade
  <2>6. bindings' = bindings \cup {<<m[2], p[2]>>} BY <1>8, <2>4, Zenon DEF ImportBinding
  <2>. HIDE DEF m
  <2>7. OwnedBy(m[2], p[1]) BY <2>1, <2>5, PendingMade, Zenon
  <2>8. m[2] \in BotsOf(p[1])' /\ <<m[2], p[2]>> \in bindings'
    BY <2>1, <2>6, <2>7, Zenon DEF BotsOf, OwnedBy
  <2>9. Settled(p)' BY <2>8, Zenon DEF Settled
  <2>10. \A q \in Pending \ (run.left \cup {p}) : Settled(q) BY <2>1, <2>3, Zenon DEF UserInv
  <2>. QED BY <1>2, <2>2, <2>9, <2>10, Zenon DEF UserInv
<1>9. CASE Done
  <2>1. run.at = "bindings" /\ run.left = {} /\ run'.at = "done" BY <1>9, Zenon DEF Done, Stopped
  <2>. QED BY <1>2, <2>1, Zenon DEF UserInv
<1>10. CASE Import
  <2>1. CASE Start \/ Stop BY <1>4, <2>1, Zenon DEF Start, Stop, Stopped
  <2>2. CASE FileStep
    <3>1. run'.at \in {"handles", "files", "revision", "key", "accounts"}
      <4>1. CASE NextHandle BY <1>1, <4>1, Zenon DEF NextHandle, RunShape
      <4>2. CASE SkipFile \/ SkipChat BY <1>1, <4>2, Zenon DEF SkipFile, SkipChat, Due, RunShape
      <4>3. CASE FindImported \/ ImportCharacter \/ ImportChat
        BY <1>1, <4>3, Zenon DEF FindImported, ImportCharacter, ImportChat, RunShape
      <4>4. CASE InsertRevision \/ RecordKey BY <1>1, <4>4, Zenon DEF InsertRevision, RecordKey, RunShape
      <4>5. CASE HandleDone BY <1>1, <4>5, Zenon DEF HandleDone, RunShape
      <4>. QED BY <2>2, <4>1, <4>2, <4>3, <4>4, <4>5, Zenon DEF FileStep
    <3>. QED BY <1>4, <3>1, Zenon
  <2>3. CASE PluginAccount \/ ReadBot \/ ImportBot \/ ImportSettings
    <3>1. run'.at \in {"accounts", "bots", "write", "settings"}
      BY <1>1, <2>3, Zenon DEF PluginAccount, ReadBot, ImportBot, ImportSettings, RunShape
    <3>. QED BY <1>4, <3>1, Zenon
  <2>. QED BY <1>5, <1>6, <1>7, <1>8, <1>9, <1>10, <2>1, <2>2, <2>3, Zenon DEF Import, FileStep
<1>. QED BY <1>3, <1>10, Zenon DEF Next, vars, importVars
------------------------------------------------------------------------------
(* However often the import stops between two of its writes and is run again, *)
(* beside requests and /bind commands, a chat file becomes one conversation   *)
(* and a card, PNG or JSON, one row of characters and at most one more per    *)
(* stop that left a row the next run does not recognise; and a run that       *)
(* reaches its end has imported every card, recorded exactly the chats that   *)
(* have a conversation, and bound every user it may bind.                     *)
THEOREM FilesAreImportedOnce == Spec => []ImportedOnce
<1>. DEFINE Inv == BindingInv /\ FileInv /\ UserInv
<1>1. Init => Inv
  <2>. SUFFICES ASSUME Init PROVE FileInv /\ UserInv BY InitBound, Zenon DEF BindingInv
  <2>1. run.at = "stopped" BY Zenon DEF Init, Stopped
  <2>2. /\ bare = [f \in Card |-> 0] /\ whole = [f \in Card |-> 0] /\ orphans = [f \in Card |-> 0]
        /\ talks = [f \in Chat |-> 0] /\ keys = {}
    BY Zenon DEF Init
  <2>3. Tables
    <3>1. /\ whole \in [Card -> Nat] /\ bare \in [Card -> Nat] /\ orphans \in [Card -> Nat]
          /\ talks \in [Chat -> {0, 1}]
      BY <2>2
    <3>2. \A f \in Canonical : whole[f] \in {0, 1} BY <2>2, ImportAssumption
    <3>. QED BY <2>2, <3>1, <3>2, Zenon DEF Tables
  <2>4. Rows BY <2>2 DEF Rows
  <2>. QED BY <2>1, <2>3, <2>4, Zenon DEF FileInv, InHand, Passed, UserInv
<1>2. Inv /\ [Next]_vars => Inv'
  BY NextKeeps, FilesKept, UsersKept, Zenon DEF BindingInv
<1>3. Inv => ImportedOnce
  <2>. SUFFICES ASSUME FileInv, UserInv PROVE ImportedOnce BY Zenon
  <2>1. Tables /\ Card \cap Chat = {} /\ Canonical \subseteq Card
    BY ImportAssumption, Zenon DEF FileInv
  <2>2. \A f \in Chat : talks[f] <= 1
    <3>1. \A f \in Chat : talks[f] \in {0, 1} BY <2>1, Zenon DEF Tables
    <3>. QED BY <3>1
  <2>3. \A f \in Card : bare[f] + whole[f] <= orphans[f] + 1 BY Zenon DEF FileInv, Rows
  <2>4. ASSUME run.at = "done" PROVE /\ \A f \in Card : f \in keys /\ whole[f] >= 1
                                     /\ \A f \in Chat : f \in keys <=> talks[f] = 1
    <3>1. \A f \in File : Processed(f) BY <2>4, Zenon DEF FileInv, Passed
    <3>2. ASSUME NEW f \in Card PROVE f \in keys /\ whole[f] >= 1
      <4>1. f \in keys BY <3>1, Zenon DEF Processed, File
      <4>2. whole[f] \in Nat /\ whole[f] # 0 BY <2>1, <4>1, Zenon DEF Tables, Stored
      <4>. QED BY <4>1, <4>2
    <3>3. \A f \in Chat : f \in keys <=> talks[f] = 1 BY <2>1, <3>1, Zenon DEF Processed, File
    <3>. QED BY <3>2, <3>3, Zenon
  <2>5. run.at = "done" => \A p \in Pending : Settled(p) BY Zenon DEF UserInv
  <2>. QED BY <2>2, <2>3, <2>4, <2>5, Zenon DEF ImportedOnce, Settled
<1>. HIDE DEF Inv
<1>. QED BY <1>1, <1>2, <1>3, PTL DEF Spec
==============================================================================
