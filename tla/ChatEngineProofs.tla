--------------------------- MODULE ChatEngineProofs ---------------------------
(* Proofs about ChatEngine, for any number of requests, conversations, client *)
(* turn ids and cuts.                                                         *)
(*                                                                            *)
(* None of the four invariants is inductive.  What they need is the local     *)
(* state of every request (RequestOK): which row its op names, that what it   *)
(* read under the conversation's lock is still so, and that a reader's        *)
(* revision is not ahead of the conversation's; and that a conversation's     *)
(* lock has one holder (OneHolder).                                           *)
EXTENDS ChatEngine, TLAPS

MsgRow == [turn : Nat, role : {"user", "assistant"},
           status : {"active", "revoked", "superseded"}, sup : Nat, brief : BOOLEAN]
TurnRow == {"pending", "complete", "failed", "revoked"}
ConvRow == [rev : Nat, turns : Seq(TurnRow), msgs : Seq(MsgRow), torn : BOOLEAN]
RunRow == [conv : 1 .. MaxConvs, kind : Generations, id : Id, turn : Nat, sup : Nat,
           exp : Nat, base : Nat, status : {"started", "completed", "failed"}]
ResultRow == [kind : {"start", "undo"}, id : Id, conv : 1 .. MaxConvs]
RequestRow == [pc : {"new", "check", "replay", "lock", "read", "create",
                     "context", "done"} \union Locked,
               kind : Kinds \union {"none"}, id : Id, conv : 1 .. MaxConvs,
               exp : Nat, rev : Nat, op : Nat, sup : Nat, todo : SUBSET Nat,
               answer : {"none", "completed", "in_progress", "error"}]

Types ==
    /\ convs \in Seq(ConvRow) /\ Len(convs) \in 1 .. MaxConvs
    /\ runs \in Seq(RunRow)
    /\ results \in Seq(ResultRow)
    /\ context \in 0 .. Len(convs)
    /\ req \in [Request -> RequestRow]
    /\ view.rev \in Nat
    /\ cuts \in 0 .. MaxCuts

(* The steps of a request are those of its kind.                              *)
KindOfStep(q) ==
    /\ q.id # 0 => q.kind \in Generations \union {"start", "undo"}
    /\ q.pc \in {"check", "prepare", "stream"} => q.kind \in Generations
    /\ q.pc = "lock" => q.kind \in Generations \union {"undo", "compress"}
    /\ q.pc = "create" => q.kind = "start"
    /\ q.pc = "context" => q.kind \in {"start", "select", "character"}
    /\ q.pc = "remove" => q.kind = "undo"
    /\ q.pc = "compress" => q.kind = "compress"
    /\ q.pc = "read" => q.kind = "history" /\ q.conv = 1
    /\ q.answer = "completed" => q.pc = "done"

(* What a request knows is so.                                                *)
Knows(q) ==
    /\ q.conv \in DOMAIN convs
    /\ q.pc = "read" => q.rev <= convs[1].rev
    /\ q.pc = "prepare" => q.rev = convs[q.conv].rev /\ q.exp \in {0, q.rev}
    /\ q.pc = "stream" =>
          /\ q.op \in DOMAIN runs
          /\ runs[q.op].conv = q.conv /\ runs[q.op].sup = q.sup
          /\ runs[q.op].kind = q.kind /\ runs[q.op].id = q.id
    /\ q.id # 0 /\ q.kind \in Generations /\ q.answer = "completed" =>
          q.op \in DOMAIN runs /\ runs[q.op].kind = q.kind /\ runs[q.op].id = q.id
    /\ q.id # 0 /\ q.kind \notin Generations /\ (q.answer = "completed" \/ q.pc = "context") =>
          q.op \in DOMAIN results /\ results[q.op].kind = q.kind /\ results[q.op].id = q.id

RequestsOK == \A r \in Request : KindOfStep(req[r]) /\ Knows(req[r])

OneHolder ==
    \A r, q \in Request :
        req[r].pc \in Locked /\ req[q].pc \in Locked /\ req[r].conv = req[q].conv => r = q

RunsOK ==
    /\ \A k \in DOMAIN runs :
          runs[k].conv \in DOMAIN convs /\ (runs[k].exp # 0 => runs[k].base = runs[k].exp)
    /\ \A j, k \in DOMAIN runs :
          runs[j].id # 0 /\ runs[j].id = runs[k].id /\ runs[j].kind = runs[k].kind => j = k

ResultsOK ==
    /\ \A k \in DOMAIN results : results[k].conv \in DOMAIN convs /\ results[k].id # 0
    /\ \A j, k \in DOMAIN results :
          results[j].id = results[k].id /\ results[j].kind = results[k].kind => j = k

ViewOK == view.rev <= convs[1].rev /\ UnchangedIsCurrent

IInv ==
    /\ Types
    /\ RequestsOK
    /\ OneHolder
    /\ RunsOK
    /\ ResultsOK
    /\ SupersededIsReplaced
    /\ ViewOK

-----------------------------------------------------------------------------
(* What the type invariant says of the tables, in the form the provers use.   *)
LEMMA TableFacts ==
    ASSUME Types
    PROVE  /\ DOMAIN convs = 1 .. Len(convs) /\ Len(convs) \in Nat /\ 1 \in DOMAIN convs
           /\ \A c \in DOMAIN convs : convs[c] \in ConvRow /\ c \in 1 .. MaxConvs
           /\ DOMAIN runs = 1 .. Len(runs) /\ Len(runs) \in Nat
           /\ \A k \in DOMAIN runs : runs[k] \in RunRow
           /\ DOMAIN results = 1 .. Len(results) /\ Len(results) \in Nat
           /\ \A k \in DOMAIN results : results[k] \in ResultRow
           /\ \A r \in Request : req[r] \in RequestRow
<1>1. DOMAIN convs = 1 .. Len(convs) /\ Len(convs) \in Nat /\ 1 \in DOMAIN convs
  BY DEF Types
<1>2. \A c \in DOMAIN convs : convs[c] \in ConvRow BY DEF Types
<1>3. \A c \in DOMAIN convs : c \in 1 .. MaxConvs BY <1>1, BoundsAssumption DEF Types
<1>. QED BY <1>1, <1>2, <1>3 DEF Types

LEMMA MessageFacts ==
    ASSUME NEW row \in ConvRow
    PROVE  /\ DOMAIN row.msgs = 1 .. Len(row.msgs) /\ Len(row.msgs) \in Nat
           /\ \A m \in DOMAIN row.msgs : row.msgs[m] \in MsgRow
           /\ DOMAIN row.turns = 1 .. Len(row.turns) /\ Len(row.turns) \in Nat
           /\ row.rev \in Nat /\ row.torn \in BOOLEAN
           /\ row.msgs \in Seq(MsgRow) /\ row.turns \in Seq(TurnRow)
<1>1. row.msgs \in Seq(MsgRow) /\ row.turns \in Seq(TurnRow) /\ row.rev \in Nat /\ row.torn \in BOOLEAN
  BY Zenon DEF ConvRow
<1>. QED BY <1>1

(* Tables are sequences: a row is replaced, or appended.                      *)
LEMMA RowReplaced ==
    ASSUME NEW S, NEW s \in Seq(S), NEW i \in DOMAIN s, NEW x \in S,
           NEW t, t = [s EXCEPT ![i] = x]
    PROVE  /\ t \in Seq(S) /\ Len(t) = Len(s) /\ DOMAIN t = DOMAIN s
           /\ t[i] = x /\ \A j \in DOMAIN s : j # i => t[j] = s[j]
<1>1. s \in [1 .. Len(s) -> S] /\ Len(s) \in Nat /\ DOMAIN s = 1 .. Len(s) OBVIOUS
<1>2. t \in [1 .. Len(s) -> S] BY <1>1, Zenon
<1>3. t \in Seq(S) /\ Len(t) = Len(s) /\ DOMAIN t = DOMAIN s BY <1>1, <1>2
<1>. QED BY <1>1, <1>3, Zenon

LEMMA RowAppended ==
    ASSUME NEW S, NEW s \in Seq(S), NEW x \in S, NEW t, t = Append(s, x)
    PROVE  /\ t \in Seq(S) /\ Len(t) = Len(s) + 1 /\ DOMAIN t = 1 .. Len(s) + 1
           /\ Len(s) + 1 \in DOMAIN t /\ t[Len(s) + 1] = x
           /\ \A j \in DOMAIN s : j \in DOMAIN t /\ t[j] = s[j]
           /\ \A j \in DOMAIN t : j \in DOMAIN s \/ j = Len(s) + 1
           /\ Len(s) \in Nat
<1>1. Len(s) \in Nat /\ DOMAIN s = 1 .. Len(s) OBVIOUS
<1>2. t \in Seq(S) /\ Len(t) = Len(s) + 1 /\ t[Len(s) + 1] = x OBVIOUS
<1>3. DOMAIN t = 1 .. Len(s) + 1 BY <1>1, <1>2
<1>4. \A j \in DOMAIN s : t[j] = s[j] BY <1>1
<1>. QED BY <1>1, <1>2, <1>3, <1>4

(* Whatever is said of the rows alone stays while no table changes.           *)
LEMMA SameTables ==
    ASSUME IInv, convs' = convs, runs' = runs, results' = results
    PROVE  RunsOK' /\ ResultsOK' /\ SupersededIsReplaced'
<1>1. RunsOK' BY Zenon DEF IInv, RunsOK
<1>2. ResultsOK' BY Zenon DEF IInv, ResultsOK
<1>3. SupersededIsReplaced' BY DEF IInv, SupersededIsReplaced
<1>. QED BY <1>1, <1>2, <1>3, Zenon

LEMMA SameTablesKnown ==
    ASSUME IInv, convs' = convs, runs' = runs, results' = results, NEW q \in Request, req'[q] = req[q]
    PROVE  KindOfStep(req'[q]) /\ Knows(req[q])'
<1>1. KindOfStep(req[q]) /\ Knows(req[q]) BY Zenon DEF IInv, RequestsOK
<1>. QED BY <1>1, Zenon DEF Knows

(* A step that changes no table: a request moves on to a state that is right. *)
LEMMA RequestKeeps ==
    ASSUME IInv, NEW r \in Request,
           UNCHANGED <<tableVars, view>>,
           context' \in 0 .. Len(convs), cuts' \in 0 .. MaxCuts,
           NEW new \in RequestRow, req' = [req EXCEPT ![r] = new],
           KindOfStep(new), Knows(new),
           new.pc \in Locked =>
              (req[r].pc \in Locked /\ new.conv = req[r].conv) \/ Free(new.conv)
    PROVE  IInv'
<1>1. /\ convs' = convs /\ runs' = runs /\ results' = results /\ view' = view
      /\ req \in [Request -> RequestRow]
  BY Zenon DEF IInv, Types, tableVars
<1>2. req'[r] = new /\ \A q \in Request : q # r => req'[q] = req[q] BY <1>1, Zenon
<1>3. Types' BY <1>1, Zenon DEF IInv, Types
<1>4. RequestsOK'
  <2>. SUFFICES ASSUME NEW q \in Request PROVE KindOfStep(req'[q]) /\ Knows(req[q])'
    BY Zenon DEF RequestsOK, KindOfStep
  <2>1. CASE q = r
    <3>1. KindOfStep(req'[q]) BY <1>2, <2>1, Zenon
    <3>2. Knows(req[q])' BY <1>1, <1>2, <2>1, Zenon DEF Knows
    <3>. QED BY <3>1, <3>2, Zenon
  <2>2. CASE q # r BY <1>1, <1>2, <2>2, SameTablesKnown, Zenon
  <2>. QED BY <2>1, <2>2, Zenon
<1>5. OneHolder'
  <2>. SUFFICES ASSUME NEW p \in Request, NEW q \in Request, p # q,
                       req'[p].pc \in Locked, req'[q].pc \in Locked, req'[p].conv = req'[q].conv
                PROVE FALSE
    BY Zenon DEF OneHolder
  <2>1. CASE p = r BY <1>2, <2>1, Zenon DEF IInv, OneHolder, Free
  <2>2. CASE q = r BY <1>2, <2>2, Zenon DEF IInv, OneHolder, Free
  <2>3. CASE p # r /\ q # r BY <1>2, <2>3, Zenon DEF IInv, OneHolder
  <2>. QED BY <2>1, <2>2, <2>3, Zenon
<1>6. RunsOK' /\ ResultsOK' /\ SupersededIsReplaced' BY <1>1, SameTables, Zenon
<1>7. ViewOK' BY <1>1, Zenon DEF IInv, ViewOK, UnchangedIsCurrent, Items, Active
<1>. QED BY <1>3, <1>4, <1>5, <1>6, <1>7, Zenon DEF IInv

(* The tables after a write keep the rows that requests know of.              *)
RowsKept ==
    /\ DOMAIN convs \subseteq DOMAIN convs'
    /\ \A c \in DOMAIN convs : convs[c].rev <= convs'[c].rev
    /\ \A k \in DOMAIN runs :
          /\ k \in DOMAIN runs'
          /\ runs'[k].conv = runs[k].conv /\ runs'[k].sup = runs[k].sup
          /\ runs'[k].kind = runs[k].kind /\ runs'[k].id = runs[k].id
    /\ \A k \in DOMAIN results : k \in DOMAIN results' /\ results'[k] = results[k]

LEMMA RowsKeptKnown ==
    ASSUME IInv, Types', RowsKept, NEW q \in Request, req'[q] = req[q],
           req[q].pc = "prepare" => convs'[req[q].conv].rev = convs[req[q].conv].rev
    PROVE  KindOfStep(req'[q]) /\ Knows(req[q])'
<1>1. req[q] \in RequestRow /\ Types BY Zenon DEF IInv, Types
<1>2. KindOfStep(req[q]) /\ Knows(req[q]) BY Zenon DEF IInv, RequestsOK
<1>3. KindOfStep(req'[q]) BY <1>2, Zenon
<1>4. /\ req[q].conv \in DOMAIN convs /\ 1 \in DOMAIN convs
      /\ \A c \in DOMAIN convs : convs[c].rev \in Nat /\ convs'[c].rev \in Nat
  <2>1. \A c \in DOMAIN convs : convs[c].rev \in Nat /\ c \in DOMAIN convs' BY <1>1, TableFacts, Zenon DEF ConvRow, RowsKept
  <2>2. \A c \in DOMAIN convs' : convs'[c] \in ConvRow BY DEF Types
  <2>. QED BY <1>1, <1>2, <2>1, <2>2, TableFacts, Zenon DEF Knows, ConvRow
<1>5. req[q].rev \in Nat BY <1>1, Zenon DEF RequestRow
<1>6. req'[q].conv \in DOMAIN convs' BY <1>4, Zenon DEF RowsKept
<1>7. req'[q].pc = "read" => req'[q].rev <= convs'[1].rev BY <1>2, <1>4, <1>5 DEF RowsKept, Knows
<1>8. req'[q].pc = "prepare" => req'[q].rev = convs'[req'[q].conv].rev /\ req'[q].exp \in {0, req'[q].rev}
  BY <1>2, Zenon DEF Knows
<1>9. req'[q].pc = "stream" =>
        /\ req'[q].op \in DOMAIN runs'
        /\ runs'[req'[q].op].conv = req'[q].conv /\ runs'[req'[q].op].sup = req'[q].sup
        /\ runs'[req'[q].op].kind = req'[q].kind /\ runs'[req'[q].op].id = req'[q].id
  BY <1>2, ZenonT(30) DEF Knows, RowsKept
<1>10. req'[q].id # 0 /\ req'[q].kind \in Generations /\ req'[q].answer = "completed" =>
        /\ req'[q].op \in DOMAIN runs'
        /\ runs'[req'[q].op].kind = req'[q].kind /\ runs'[req'[q].op].id = req'[q].id
  BY <1>2, Zenon DEF Knows, RowsKept
<1>11. req'[q].id # 0 /\ req'[q].kind \notin Generations
        /\ (req'[q].answer = "completed" \/ req'[q].pc = "context") =>
        /\ req'[q].op \in DOMAIN results'
        /\ results'[req'[q].op].kind = req'[q].kind /\ results'[req'[q].op].id = req'[q].id
  BY <1>2, Zenon DEF Knows, RowsKept
<1>. QED BY <1>3, <1>6, <1>7, <1>8, <1>9, <1>10, <1>11, Zenon DEF Knows

(* A request writes to the conversation whose lock it holds, and counts its   *)
(* revision or leaves it torn.                                                *)
WritesOwn(r) ==
    /\ req[r].pc \in Locked
    /\ Len(convs') = Len(convs)
    /\ \A c \in DOMAIN convs : c # req[r].conv => convs'[c] = convs[c]
    /\ convs[req[r].conv].rev <= convs'[req[r].conv].rev
    /\ convs'[req[r].conv].torn \/ convs[req[r].conv].rev < convs'[req[r].conv].rev
    /\ \A k \in DOMAIN runs : runs[k].conv # req[r].conv => runs'[k] = runs[k]
    /\ view' = view

(* What a superseded message of c has after the step.                         *)
ReplacedAfter(c) ==
    \A m \in DOMAIN convs'[c].msgs :
        convs'[c].msgs[m].status = "superseded" =>
            \/ \E n \in DOMAIN convs'[c].msgs : convs'[c].msgs[n].sup = m
            \/ \E k \in DOMAIN runs' :
                  runs'[k].conv = c /\ runs'[k].sup = m /\ runs'[k].status = "started"

(* What a step of r owes the invariant when it writes to its conversation.    *)
GoodWrite(r) ==
    /\ WritesOwn(r) /\ RowsKept /\ Types'
    /\ \A q \in Request : q # r => req'[q] = req[q]
    /\ KindOfStep(req'[r]) /\ Knows(req[r])'
    /\ (req'[r].pc \in Locked => req'[r].conv = req[r].conv)
    /\ RunsOK' /\ ResultsOK'
    /\ ReplacedAfter(req[r].conv)

LEMMA WriteKeeps == ASSUME IInv, NEW r \in Request, GoodWrite(r) PROVE IInv'
<1>1. Types /\ req[r].conv \in DOMAIN convs BY Zenon DEF IInv, RequestsOK, Knows
<1>2. /\ DOMAIN convs' = DOMAIN convs /\ 1 \in DOMAIN convs
      /\ \A c \in DOMAIN convs : convs[c].rev \in Nat /\ convs'[c].rev \in Nat
  <2>1. convs \in Seq(ConvRow) /\ convs' \in Seq(ConvRow) BY <1>1, Zenon DEF GoodWrite, Types
  <2>2. Len(convs') = Len(convs) BY Zenon DEF GoodWrite, WritesOwn
  <2>3. DOMAIN convs' = DOMAIN convs BY <2>1, <2>2
  <2>4. \A c \in DOMAIN convs' : convs'[c] \in ConvRow BY <2>1
  <2>5. \A c \in DOMAIN convs : convs[c] \in ConvRow BY <2>1
  <2>6. \A c \in DOMAIN convs : convs[c].rev \in Nat /\ convs'[c].rev \in Nat
    BY <2>3, <2>4, <2>5, Zenon DEF ConvRow
  <2>. QED BY <1>1, <2>3, <2>6, TableFacts, Zenon
<1>3. RequestsOK'
  <2>. SUFFICES ASSUME NEW q \in Request PROVE KindOfStep(req'[q]) /\ Knows(req[q])'
    BY Zenon DEF RequestsOK, KindOfStep
  <2>1. CASE q = r BY <2>1, Zenon DEF GoodWrite
  <2>2. CASE q # r
    <3>1. req[q].pc = "prepare" => req[q].conv # req[r].conv
      BY <2>2, Zenon DEF IInv, OneHolder, GoodWrite, WritesOwn, Locked
    <3>2. req[q].conv \in DOMAIN convs BY Zenon DEF IInv, RequestsOK, Knows
    <3>3. req[q].pc = "prepare" => convs'[req[q].conv].rev = convs[req[q].conv].rev
      BY <3>1, <3>2, Zenon DEF GoodWrite, WritesOwn
    <3>4. req'[q] = req[q] /\ Types' /\ RowsKept BY <2>2, Zenon DEF GoodWrite
    <3>. QED BY <3>3, <3>4, RowsKeptKnown, Zenon
  <2>. QED BY <2>1, <2>2, Zenon
<1>4. OneHolder'
  <2>. SUFFICES ASSUME NEW p \in Request, NEW q \in Request, p # q,
                       req'[p].pc \in Locked, req'[q].pc \in Locked, req'[p].conv = req'[q].conv
                PROVE FALSE
    BY Zenon DEF OneHolder
  <2>1. /\ req[p].pc \in Locked /\ req[p].conv = req'[p].conv
        /\ req[q].pc \in Locked /\ req[q].conv = req'[q].conv
    BY Zenon DEF GoodWrite, WritesOwn
  <2>. QED BY <2>1, Zenon DEF IInv, OneHolder
<1>5. SupersededIsReplaced'
  <2>. SUFFICES ASSUME NEW c \in DOMAIN convs PROVE ReplacedAfter(c)
    BY <1>2 DEF SupersededIsReplaced, ReplacedAfter
  <2>1. CASE c = req[r].conv BY <2>1, Zenon DEF GoodWrite
  <2>2. CASE c # req[r].conv
    <3>. SUFFICES ASSUME NEW m \in DOMAIN convs'[c].msgs, convs'[c].msgs[m].status = "superseded"
                  PROVE  \/ \E n \in DOMAIN convs'[c].msgs : convs'[c].msgs[n].sup = m
                         \/ \E k \in DOMAIN runs' :
                               runs'[k].conv = c /\ runs'[k].sup = m /\ runs'[k].status = "started"
      BY Zenon DEF ReplacedAfter
    <3>1. convs'[c] = convs[c] BY <2>2, Zenon DEF GoodWrite, WritesOwn
    <3>2. CASE \E n \in DOMAIN convs[c].msgs : convs[c].msgs[n].sup = m BY <3>1, <3>2, Zenon
    <3>3. CASE \E k \in DOMAIN runs : runs[k].conv = c /\ runs[k].sup = m /\ runs[k].status = "started"
      BY <2>2, <3>3, Zenon DEF GoodWrite, WritesOwn, RowsKept
    <3>. QED BY <3>1, <3>2, <3>3 DEF IInv, SupersededIsReplaced
  <2>. QED BY <2>1, <2>2, Zenon
<1>6. ViewOK'
  <2>1. view.rev \in Nat /\ view.rev <= convs[1].rev BY <1>1, Zenon DEF IInv, ViewOK, Types
  <2>2. WritesOwn(r) /\ view' = view BY Zenon DEF GoodWrite, WritesOwn
  <2>3. CASE req[r].conv = 1
    BY <1>2, <2>1, <2>2, <2>3 DEF ViewOK, UnchangedIsCurrent, WritesOwn
  <2>4. CASE req[r].conv # 1
    <3>1. convs'[1] = convs[1] BY <1>2, <2>2, <2>4, Zenon DEF WritesOwn
    <3>2. Items(1)' = Items(1) BY <3>1, Zenon DEF Items, Active
    <3>. QED BY <2>1, <2>2, <3>1, <3>2, Zenon DEF IInv, ViewOK, UnchangedIsCurrent
  <2>. QED BY <2>3, <2>4, Zenon
<1>7. Types' /\ RunsOK' /\ ResultsOK' BY Zenon DEF GoodWrite
<1>. QED BY <1>3, <1>4, <1>5, <1>6, <1>7, Zenon DEF IInv

(* A step of r that replaces the row of its conversation.                     *)
RowWrite(r, row, new) ==
    /\ req[r].pc \in Locked
    /\ convs' = [convs EXCEPT ![req[r].conv] = row]
    /\ convs[req[r].conv].rev <= row.rev
    /\ row.torn \/ convs[req[r].conv].rev < row.rev
    /\ req' = [req EXCEPT ![r] = new]
    /\ context' = context /\ cuts' = cuts /\ view' = view
    /\ runs' \in Seq(RunRow) /\ results' \in Seq(ResultRow)
    /\ \A k \in DOMAIN runs :
          /\ k \in DOMAIN runs'
          /\ runs'[k].conv = runs[k].conv /\ runs'[k].sup = runs[k].sup
          /\ runs'[k].kind = runs[k].kind /\ runs'[k].id = runs[k].id
          /\ (runs[k].conv # req[r].conv => runs'[k] = runs[k])
    /\ \A k \in DOMAIN results : k \in DOMAIN results' /\ results'[k] = results[k]

LEMMA RowWriteFacts ==
    ASSUME IInv, NEW r \in Request, NEW row \in ConvRow, NEW new \in RequestRow,
           RowWrite(r, row, new)
    PROVE  /\ WritesOwn(r) /\ RowsKept /\ Types'
           /\ req'[r] = new /\ \A q \in Request : q # r => req'[q] = req[q]
           /\ convs'[req[r].conv] = row /\ DOMAIN convs' = DOMAIN convs
<1>1. Types /\ req[r].conv \in DOMAIN convs BY Zenon DEF IInv, RequestsOK, Knows
<1>2. convs \in Seq(ConvRow) /\ req \in [Request -> RequestRow] BY <1>1, Zenon DEF Types
<1>3. convs' = [convs EXCEPT ![req[r].conv] = row] BY Zenon DEF RowWrite
<1>4. /\ convs' \in Seq(ConvRow) /\ Len(convs') = Len(convs) /\ DOMAIN convs' = DOMAIN convs
      /\ convs'[req[r].conv] = row
      /\ \A d \in DOMAIN convs : d # req[r].conv => convs'[d] = convs[d]
  BY <1>1, <1>2, <1>3, RowReplaced
<1>5. /\ req'[r] = new /\ \A q \in Request : q # r => req'[q] = req[q]
      /\ req' \in [Request -> RequestRow]
  BY <1>2, Zenon DEF RowWrite
<1>6. WritesOwn(r) BY <1>4, Zenon DEF WritesOwn, RowWrite
<1>7. RowsKept
  <2>1. \A d \in DOMAIN convs : convs[d].rev \in Nat
    <3>1. \A d \in DOMAIN convs : convs[d] \in ConvRow BY <1>2
    <3>. QED BY <3>1, Zenon DEF ConvRow
  <2>2. convs[req[r].conv].rev <= convs'[req[r].conv].rev BY <1>4, Zenon DEF RowWrite
  <2>3. \A d \in DOMAIN convs : convs[d].rev <= convs'[d].rev
    <3>. SUFFICES ASSUME NEW d \in DOMAIN convs PROVE convs[d].rev <= convs'[d].rev BY Zenon
    <3>1. CASE d = req[r].conv BY <2>2, <3>1, Zenon
    <3>2. CASE d # req[r].conv BY <1>4, <2>1, <3>2
    <3>. QED BY <3>1, <3>2, Zenon
  <2>. QED BY <1>4, <2>3, Zenon DEF RowsKept, RowWrite
<1>8. Types' BY <1>1, <1>4, <1>5, Zenon DEF Types, RowWrite
<1>. QED BY <1>4, <1>5, <1>6, <1>7, <1>8, Zenon

-----------------------------------------------------------------------------
(* The steps of a request that leave the tables alone.                        *)

(* A request ends; when its answer is "completed", op is the row of its id.   *)
LEMMA AnswerKeeps ==
    ASSUME IInv, NEW r \in Request,
           UNCHANGED <<tableVars, view>>,
           context' \in 0 .. Len(convs), cuts' \in 0 .. MaxCuts,
           NEW answer \in {"completed", "in_progress", "error"}, NEW op \in Nat,
           Answer(r, answer, op),
           answer = "completed" /\ req[r].id # 0 =>
              op \in IF Kind(r) \in Generations THEN RunsOf(r) ELSE ResultsOf(r)
    PROVE  IInv'
<1>. DEFINE new == [req[r] EXCEPT !.pc = "done", !.answer = answer, !.op = op]
<1>1. req[r] \in RequestRow /\ KindOfStep(req[r]) /\ Knows(req[r]) BY Zenon DEF IInv, Types, RequestsOK
<1>2. /\ new \in RequestRow
      /\ new.pc = "done" /\ new.answer = answer /\ new.op = op
      /\ new.kind = req[r].kind /\ new.id = req[r].id /\ new.conv = req[r].conv
  BY <1>1, Zenon DEF RequestRow
<1>3. req' = [req EXCEPT ![r] = new] BY Zenon DEF Answer, Set
<1>. HIDE DEF new
<1>4. KindOfStep(new) BY <1>1, <1>2, Zenon DEF KindOfStep
<1>5. Knows(new) BY <1>1, <1>2, Zenon DEF Knows, RunsOf, ResultsOf, Kind
<1>6. new.pc \notin Locked BY <1>2, Zenon DEF Locked
<1>. QED BY <1>2, <1>3, <1>4, <1>5, <1>6, RequestKeeps, Zenon

(* A request goes on to a step that knows nothing yet.                        *)
LEMMA GotoKeeps ==
    ASSUME IInv, NEW r \in Request,
           UNCHANGED <<tableVars, context, view, cuts>>,
           NEW pc \in {"replay", "lock", "create"}, Goto(r, pc),
           ~At(r, "done"),
           pc = "lock" => Kind(r) \in Generations \union {"undo"},
           pc = "create" => Kind(r) = "start"
    PROVE  IInv'
<1>. DEFINE new == [req[r] EXCEPT !.pc = pc]
<1>1. req[r] \in RequestRow /\ KindOfStep(req[r]) /\ Knows(req[r]) BY Zenon DEF IInv, Types, RequestsOK
<1>2. /\ new \in RequestRow
      /\ new.pc = pc /\ new.answer = req[r].answer /\ new.op = req[r].op
      /\ new.kind = req[r].kind /\ new.id = req[r].id /\ new.conv = req[r].conv
  BY <1>1, Zenon DEF RequestRow
<1>3. req' = [req EXCEPT ![r] = new] BY Zenon DEF Goto, Set
<1>. HIDE DEF new
<1>4. KindOfStep(new) BY <1>1, <1>2, Zenon DEF KindOfStep, At, Kind
<1>5. Knows(new) BY <1>1, <1>2, Zenon DEF Knows, KindOfStep, At
<1>6. new.pc \notin Locked BY <1>2, Zenon DEF Locked
<1>7. context' \in 0 .. Len(convs) /\ cuts' \in 0 .. MaxCuts BY Zenon DEF IInv, Types
<1>. QED BY <1>2, <1>3, <1>4, <1>5, <1>6, <1>7, RequestKeeps, Zenon

LEMMA ArriveKeeps == ASSUME IInv, NEW r \in Request, Arrive(r) PROVE IInv'
<1>1. PICK k \in Kinds, id \in Id, c \in DOMAIN convs, exp \in {0, convs[1].rev} :
          /\ k \in {"select", "character", "compress", "history"} => id = 0
          /\ k \notin {"send", "regenerate", "undo"} \/ c # 1 => exp = 0
          /\ k \in {"start", "character"} => c = 1
          /\ k = "history" =>
                c = 1 /\ ~\E q \in Request : Kind(q) = "history" /\ ~At(q, "done")
          /\ Set(r, [NoRequest EXCEPT
                !.kind = k, !.id = id, !.conv = c, !.exp = exp,
                !.pc = CASE k = "retry" -> "check" [] k = "compress" -> "lock"
                         [] k \in {"select", "character"} -> "context"
                         [] k = "history" -> "read" [] OTHER -> "replay"])
  BY Zenon DEF Arrive
<1>. DEFINE pc == CASE k = "retry" -> "check" [] k = "compress" -> "lock"
                    [] k \in {"select", "character"} -> "context"
                    [] k = "history" -> "read" [] OTHER -> "replay"
            new == [NoRequest EXCEPT !.kind = k, !.id = id, !.conv = c, !.exp = exp, !.pc = pc]
<1>2. req' = [req EXCEPT ![r] = new] BY <1>1, Zenon DEF Set
<1>3. /\ pc \in {"check", "lock", "context", "read", "replay"}
      /\ pc = "check" => k = "retry"
      /\ pc = "lock" => k = "compress"
      /\ pc = "context" => k \in {"select", "character"}
      /\ pc = "read" => k = "history"
  BY Zenon
<1>. HIDE DEF pc
<1>4. c \in 1 .. MaxConvs /\ exp \in Nat /\ 0 <= convs[1].rev
  <2>1. convs[1] \in ConvRow /\ c \in 1 .. MaxConvs BY TableFacts, Zenon DEF IInv
  <2>2. convs[1].rev \in Nat BY <2>1, Zenon DEF ConvRow
  <2>. QED BY <2>1, <2>2
<1>5. NoRequest \in RequestRow /\ NoRequest.answer = "none" /\ NoRequest.rev = 0
  BY BoundsAssumption DEF NoRequest, RequestRow, Id
<1>6. /\ new \in RequestRow /\ new.kind = k /\ new.id = id /\ new.conv = c /\ new.exp = exp
      /\ new.pc = pc /\ new.answer = "none" /\ new.rev = 0
  BY <1>3, <1>4, <1>5, Zenon DEF RequestRow
<1>. HIDE DEF new
<1>7. KindOfStep(new) BY <1>1, <1>3, <1>6, KindsAssumption, Zenon DEF KindOfStep, Generations
<1>8. Knows(new) BY <1>1, <1>3, <1>4, <1>6, Zenon DEF Knows
<1>9. new.pc \notin Locked BY <1>3, <1>6, Zenon DEF Locked
<1>10. /\ UNCHANGED <<tableVars, view>>
       /\ context' \in 0 .. Len(convs) /\ cuts' \in 0 .. MaxCuts
  BY Zenon DEF IInv, Types, Arrive
<1>. QED BY <1>2, <1>6, <1>7, <1>8, <1>9, <1>10, RequestKeeps, Zenon

LEMMA CheckRetryKeeps == ASSUME IInv, NEW r \in Request, CheckRetry(r) PROVE IInv'
<1>1. /\ UNCHANGED <<tableVars, context, view, cuts>> /\ UNCHANGED <<tableVars, view>>
      /\ context' \in 0 .. Len(convs) /\ cuts' \in 0 .. MaxCuts /\ ~At(r, "done")
  BY Zenon DEF IInv, Types, CheckRetry, At
<1>2. CASE Goto(r, "replay") BY <1>1, <1>2, GotoKeeps, Zenon
<1>3. CASE Answer(r, "error", 0) BY <1>1, <1>3, AnswerKeeps, Zenon
<1>. QED BY <1>2, <1>3, Zenon DEF CheckRetry

LEMMA ReplayGenerationKeeps == ASSUME IInv, NEW r \in Request, ReplayGeneration(r) PROVE IInv'
<1>1. /\ UNCHANGED <<tableVars, context, view, cuts>> /\ UNCHANGED <<tableVars, view>>
      /\ context' \in 0 .. Len(convs) /\ cuts' \in 0 .. MaxCuts
      /\ ~At(r, "done") /\ Kind(r) \in Generations
  BY Zenon DEF IInv, Types, ReplayGeneration, At
<1>2. CASE RunsOf(r) = {}
  <2>1. Goto(r, "lock") BY <1>2, Zenon DEF ReplayGeneration
  <2>. QED BY <1>1, <2>1, GotoKeeps, Zenon
<1>3. CASE RunsOf(r) # {}
  <2>1. PICK k \in RunsOf(r) :
              Answer(r, CASE runs[k].status = "completed" -> "completed"
                          [] runs[k].status = "started" -> "in_progress"
                          [] runs[k].status = "failed" -> "error", k)
    BY <1>3, Zenon DEF ReplayGeneration
  <2>. DEFINE answer == CASE runs[k].status = "completed" -> "completed"
                          [] runs[k].status = "started" -> "in_progress"
                          [] runs[k].status = "failed" -> "error"
  <2>2. runs[k] \in RunRow /\ k \in Nat BY TableFacts DEF IInv, RunsOf
  <2>3. runs[k].status \in {"started", "completed", "failed"} BY <2>2, Zenon DEF RunRow
  <2>4. answer \in {"completed", "in_progress", "error"} BY <2>3, Zenon
  <2>. HIDE DEF answer
  <2>5. Answer(r, answer, k) BY <2>1, Zenon DEF answer
  <2>. QED BY <1>1, <2>2, <2>4, <2>5, AnswerKeeps, Zenon
<1>. QED BY <1>2, <1>3, Zenon

LEMMA ReplayCommandKeeps == ASSUME IInv, NEW r \in Request, ReplayCommand(r) PROVE IInv'
<1>1. /\ UNCHANGED <<tableVars, context, view, cuts>> /\ UNCHANGED <<tableVars, view>>
      /\ context' \in 0 .. Len(convs) /\ cuts' \in 0 .. MaxCuts
      /\ ~At(r, "done") /\ Kind(r) \in {"start", "undo"} /\ Kind(r) \notin Generations
  BY Zenon DEF IInv, Types, ReplayCommand, At, Generations
<1>2. CASE Goto(r, IF Kind(r) = "start" THEN "create" ELSE "lock")
  <2>1. CASE Kind(r) = "start"
    <3>1. Goto(r, "create") BY <1>2, <2>1, Zenon
    <3>. QED BY <1>1, <2>1, <3>1, GotoKeeps, Zenon
  <2>2. CASE Kind(r) # "start"
    <3>1. Goto(r, "lock") /\ Kind(r) = "undo" BY <1>1, <1>2, <2>2, Zenon
    <3>. QED BY <1>1, <3>1, GotoKeeps, Zenon
  <2>. QED BY <2>1, <2>2, Zenon
<1>3. ASSUME NEW k \in ResultsOf(r),
             IF Kind(r) = "start"
             THEN Set(r, [req[r] EXCEPT !.pc = "context", !.op = k, !.conv = results[k].conv])
             ELSE Answer(r, "completed", k)
      PROVE  IInv'
  <2>1. /\ k \in Nat /\ results[k] \in ResultRow /\ k \in DOMAIN results
        /\ results[k].kind = req[r].kind /\ results[k].id = req[r].id
        /\ results[k].conv \in DOMAIN convs
    BY TableFacts DEF IInv, ResultsOf, ResultsOK, Kind
  <2>2. CASE Kind(r) # "start" BY <1>1, <1>3, <2>1, <2>2, AnswerKeeps, Zenon
  <2>3. CASE Kind(r) = "start"
    <3>. DEFINE new == [req[r] EXCEPT !.pc = "context", !.op = k, !.conv = results[k].conv]
    <3>1. req[r] \in RequestRow /\ KindOfStep(req[r]) /\ Knows(req[r]) BY Zenon DEF IInv, Types, RequestsOK
    <3>2. req' = [req EXCEPT ![r] = new] BY <1>3, <2>3, Zenon DEF Set
    <3>3. results[k].conv \in 1 .. MaxConvs BY <2>1, Zenon DEF ResultRow
    <3>4. /\ new \in RequestRow
          /\ new.pc = "context" /\ new.answer = req[r].answer /\ new.op = k
          /\ new.kind = req[r].kind /\ new.id = req[r].id /\ new.conv = results[k].conv
      BY <2>1, <3>1, <3>3, Zenon DEF RequestRow
    <3>. HIDE DEF new
    <3>5. KindOfStep(new) BY <2>3, <3>1, <3>4, Zenon DEF KindOfStep, Kind, ReplayCommand, At
    <3>6. Knows(new) BY <1>1, <2>1, <3>4, <3>5, Zenon DEF Knows, Kind, KindOfStep
    <3>7. new.pc \notin Locked BY <3>4, Zenon DEF Locked
    <3>. QED BY <1>1, <3>2, <3>4, <3>5, <3>6, <3>7, RequestKeeps, Zenon
  <2>. QED BY <2>2, <2>3, Zenon
<1>. QED BY <1>2, <1>3, Zenon DEF ReplayCommand

(* The answers that report an error.                                          *)
LEMMA RefusalKeeps ==
    ASSUME IInv, NEW r \in Request,
           CreateConflict(r) \/ PrepareConflict(r) \/ UndoRefused(r) \/ CompressFails(r) \/ CutOff(r)
    PROVE  IInv'
<1>1. Answer(r, "error", 0) /\ UNCHANGED <<tableVars, view>> /\ context' = context
  BY Zenon DEF CreateConflict, PrepareConflict, UndoRefused, CompressFails, CutOff
<1>2. cuts' \in 0 .. MaxCuts
  <2>1. cuts \in 0 .. MaxCuts /\ MaxCuts \in Nat BY BoundsAssumption, Zenon DEF IInv, Types
  <2>2. cuts' = cuts \/ (cuts < MaxCuts /\ cuts' = cuts + 1)
    BY Zenon DEF CreateConflict, PrepareConflict, UndoRefused, CompressFails, CutOff
  <2>. QED BY <2>1, <2>2
<1>3. context' \in 0 .. Len(convs) BY <1>1, Zenon DEF IInv, Types
<1>. QED BY <1>1, <1>2, <1>3, AnswerKeeps, Zenon

LEMMA PointChannelKeeps == ASSUME IInv, NEW r \in Request, PointChannel(r) PROVE IInv'
<1>1. /\ req[r] \in RequestRow /\ KindOfStep(req[r]) /\ Knows(req[r]) /\ At(r, "context")
      /\ UNCHANGED <<tableVars, view>> /\ cuts' \in 0 .. MaxCuts
      /\ Answer(r, "completed", req[r].op)
  BY Zenon DEF IInv, Types, RequestsOK, PointChannel
<1>2. req[r].op \in Nat /\ Kind(r) \in {"start", "select", "character"} /\ Kind(r) \notin Generations
  BY <1>1, Zenon DEF RequestRow, KindOfStep, Kind, At, Generations
<1>3. req[r].id # 0 => req[r].op \in ResultsOf(r)
  BY <1>1, <1>2, Zenon DEF Knows, ResultsOf, Kind, At
<1>4. context' \in 0 .. Len(convs)
  <2>1. req[r].conv \in 1 .. Len(convs) /\ Len(convs) \in Nat BY <1>1, TableFacts, Zenon DEF IInv, Knows
  <2>2. context' \in {0, req[r].conv} BY Zenon DEF PointChannel
  <2>. QED BY <2>1, <2>2
<1>. QED BY <1>1, <1>2, <1>3, <1>4, AnswerKeeps, Zenon

LEMMA LockKeeps == ASSUME IInv, NEW r \in Request, Lock(r) PROVE IInv'
<1>1. /\ req[r] \in RequestRow /\ KindOfStep(req[r]) /\ Knows(req[r])
      /\ At(r, "lock") /\ Free(req[r].conv)
      /\ UNCHANGED <<tableVars, view>>
      /\ context' \in 0 .. Len(convs) /\ cuts' \in 0 .. MaxCuts
  BY Zenon DEF IInv, Types, RequestsOK, Lock
<1>2. CASE ~RevisionAccepted(r)
  <2>1. Answer(r, "error", 0) BY <1>2, Zenon DEF Lock
  <2>. QED BY <1>1, <2>1, AnswerKeeps, Zenon
<1>3. CASE RevisionAccepted(r)
  <2>1. PICK keep \in IF Kind(r) = "compress" THEN {0, 1} ELSE {0} :
              LET todo == IF Kind(r) = "compress" THEN Targets(req[r].conv, keep) ELSE {}
              IN  IF Kind(r) = "compress" /\ todo = {} THEN Answer(r, "completed", 0)
                  ELSE Set(r, [req[r] EXCEPT !.pc = AfterLock(r), !.rev = Conv(r).rev, !.todo = todo])
    BY <1>3, Zenon DEF Lock
  <2>. DEFINE todo == IF Kind(r) = "compress" THEN Targets(req[r].conv, keep) ELSE {}
  <2>2. CASE Kind(r) = "compress" /\ todo = {}
    <3>1. Answer(r, "completed", 0) BY <2>1, <2>2, Zenon
    <3>2. req[r].id = 0 BY <1>1, <2>2, Zenon DEF KindOfStep, Kind, Generations
    <3>. QED BY <1>1, <3>1, <3>2, AnswerKeeps
  <2>3. CASE ~(Kind(r) = "compress" /\ todo = {})
    <3>. DEFINE new == [req[r] EXCEPT !.pc = AfterLock(r), !.rev = Conv(r).rev, !.todo = todo]
    <3>1. req' = [req EXCEPT ![r] = new] BY <2>1, <2>3, Zenon DEF Set
    <3>2. req[r].conv \in DOMAIN convs /\ convs[req[r].conv] \in ConvRow
      BY <1>1, TableFacts, Zenon DEF IInv, Knows
    <3>3. todo \in SUBSET Nat /\ Conv(r).rev \in Nat
      <4>1. Targets(req[r].conv, keep) \subseteq Nat
        <5>1. DOMAIN convs[req[r].conv].msgs \subseteq Nat BY <3>2, MessageFacts
        <5>2. Targets(req[r].conv, keep) \subseteq Active(req[r].conv) BY Zenon DEF Targets
        <5>3. Active(req[r].conv) \subseteq DOMAIN convs[req[r].conv].msgs BY Zenon DEF Active
        <5>. QED BY <5>1, <5>2, <5>3, Zenon
      <4>. QED BY <3>2, <4>1, MessageFacts, Zenon DEF Conv
    <3>4. /\ AfterLock(r) \in Locked
          /\ AfterLock(r) \in {"prepare", "remove", "compress"}
          /\ AfterLock(r) = "prepare" => Kind(r) \in Generations
          /\ AfterLock(r) = "remove" => Kind(r) = "undo"
          /\ AfterLock(r) = "compress" => Kind(r) = "compress"
      BY <1>1, Zenon DEF AfterLock, Locked, KindOfStep, Kind, At
    <3>. HIDE DEF todo
    <3>5. /\ new \in RequestRow
          /\ new.pc = AfterLock(r) /\ new.rev = Conv(r).rev /\ new.answer = req[r].answer
          /\ new.op = req[r].op /\ new.kind = Kind(r) /\ new.id = req[r].id
          /\ new.conv = req[r].conv /\ new.exp = req[r].exp
      BY <1>1, <3>3, <3>4, Zenon DEF RequestRow, Kind
    <3>. HIDE DEF new
    <3>6. KindOfStep(new) BY <1>1, <3>4, <3>5, Zenon DEF KindOfStep, At, Kind
    <3>7. Knows(new)
      BY <1>1, <1>3, <3>2, <3>4, <3>5, <3>6, Zenon DEF Knows, Conv, RevisionAccepted, KindOfStep
    <3>. QED BY <1>1, <3>1, <3>4, <3>5, <3>6, <3>7, RequestKeeps, Zenon
  <2>. QED BY <2>2, <2>3, Zenon
<1>. QED BY <1>2, <1>3, Zenon

LEMMA ReadRevisionKeeps == ASSUME IInv, NEW r \in Request, ReadRevision(r) PROVE IInv'
<1>. DEFINE new == [req[r] EXCEPT !.rev = Conv(r).rev]
<1>1. /\ req[r] \in RequestRow /\ KindOfStep(req[r]) /\ Knows(req[r]) /\ At(r, "read")
      /\ UNCHANGED <<tableVars, view>>
      /\ context' \in 0 .. Len(convs) /\ cuts' \in 0 .. MaxCuts
      /\ req' = [req EXCEPT ![r] = new]
  BY Zenon DEF IInv, Types, RequestsOK, ReadRevision, Set
<1>2. req[r].conv = 1 /\ Conv(r).rev \in Nat /\ Conv(r).rev = convs[1].rev
  <2>1. req[r].conv = 1 BY <1>1, Zenon DEF KindOfStep, At
  <2>2. convs[1] \in ConvRow BY TableFacts, Zenon DEF IInv
  <2>. QED BY <2>1, <2>2, Zenon DEF ConvRow, Conv
<1>3. /\ new \in RequestRow
      /\ new.pc = "read" /\ new.rev = convs[1].rev /\ new.answer = req[r].answer
      /\ new.op = req[r].op /\ new.kind = Kind(r) /\ new.id = req[r].id
      /\ new.conv = req[r].conv
  BY <1>1, <1>2, Zenon DEF RequestRow, Kind, At
<1>. HIDE DEF new
<1>4. KindOfStep(new) BY <1>1, <1>3, Zenon DEF KindOfStep, At, Kind
<1>5. Knows(new) BY <1>1, <1>2, <1>3, <1>4 DEF Knows, KindOfStep
<1>6. new.pc \notin Locked BY <1>3, Zenon DEF Locked
<1>. QED BY <1>1, <1>3, <1>4, <1>5, <1>6, RequestKeeps, Zenon

(* The polling client: the messages may be newer than the revision read       *)
(* before them, and then the view is one of an older revision.                *)
LEMMA ReadMessagesKeeps == ASSUME IInv, NEW r \in Request, ReadMessages(r) PROVE IInv'
<1>. DEFINE new == [req[r] EXCEPT !.pc = "done", !.answer = "completed", !.op = 0]
<1>1. /\ req \in [Request -> RequestRow] /\ req[r] \in RequestRow
      /\ KindOfStep(req[r]) /\ Knows(req[r]) /\ At(r, "read")
      /\ convs' = convs /\ runs' = runs /\ results' = results
      /\ context' = context /\ cuts' = cuts
      /\ req' = [req EXCEPT ![r] = new]
  BY Zenon DEF IInv, Types, RequestsOK, ReadMessages, Answer, Set, tableVars
<1>2. /\ new \in RequestRow
      /\ new.pc = "done" /\ new.answer = "completed" /\ new.op = 0
      /\ new.kind = req[r].kind /\ new.id = req[r].id /\ new.conv = req[r].conv
  BY <1>1, Zenon DEF RequestRow
<1>. HIDE DEF new
<1>3. req'[r] = new /\ \A q \in Request : q # r => req'[q] = req[q] BY <1>1, Zenon
<1>4. new.id = 0 /\ req[r].conv = 1 /\ req[r].rev <= convs[1].rev
  BY <1>1, <1>2, Zenon DEF KindOfStep, Knows, At, Generations
<1>5. /\ req[r].rev \in Nat /\ convs[1].rev \in Nat
      /\ view.rev \in Nat /\ view.rev <= convs[1].rev
  <2>1. convs[1] \in ConvRow BY TableFacts, Zenon DEF IInv
  <2>. QED BY <1>1, <2>1, Zenon DEF IInv, Types, ViewOK, RequestRow, ConvRow
<1>6. /\ view' = IF view.rev = req[r].rev THEN view ELSE [rev |-> req[r].rev, items |-> Items(1)]
      /\ Items(1)' = Items(1)
  BY <1>1, <1>4, Zenon DEF ReadMessages, Items, Active
<1>7. view'.rev \in Nat /\ ViewOK'
  <2>1. CASE view.rev = req[r].rev
    BY <1>1, <1>5, <1>6, <2>1, Zenon DEF IInv, ViewOK, UnchangedIsCurrent
  <2>2. CASE view.rev # req[r].rev
    BY <1>1, <1>4, <1>5, <1>6, <2>2, Zenon DEF ViewOK, UnchangedIsCurrent
  <2>. QED BY <2>1, <2>2, Zenon
<1>8. Types'
  <2>1. req' \in [Request -> RequestRow] BY <1>1, <1>2, Zenon
  <2>. QED BY <1>1, <1>7, <2>1, Zenon DEF IInv, Types
<1>9. RequestsOK'
  <2>. SUFFICES ASSUME NEW q \in Request PROVE KindOfStep(req'[q]) /\ Knows(req[q])'
    BY Zenon DEF RequestsOK, KindOfStep
  <2>1. CASE q = r
    <3>1. KindOfStep(new) BY <1>2, <1>4, Zenon DEF KindOfStep
    <3>2. new.conv \in DOMAIN convs' BY <1>1, <1>2, Zenon DEF Knows
    <3>. QED BY <1>2, <1>3, <1>4, <2>1, <3>1, <3>2, Zenon DEF Knows
  <2>2. CASE q # r BY <1>1, <1>3, <2>2, SameTablesKnown, Zenon
  <2>. QED BY <2>1, <2>2, Zenon
<1>10. OneHolder' BY <1>2, <1>3, ZenonT(30) DEF IInv, OneHolder, Locked
<1>11. RunsOK' /\ ResultsOK' /\ SupersededIsReplaced' BY <1>1, SameTables, Zenon
<1>. QED BY <1>7, <1>8, <1>9, <1>10, <1>11, Zenon DEF IInv

-----------------------------------------------------------------------------
(* The steps that write to the tables.                                        *)

LEMMA CreateConversationKeeps == ASSUME IInv, NEW r \in Request, CreateConversation(r) PROVE IInv'
<1>. DEFINE n == Len(convs) + 1
            op == IF req[r].id = 0 THEN 0 ELSE Len(results) + 1
            new == [req[r] EXCEPT !.pc = "context", !.conv = n, !.op = op]
            row == [kind |-> "start", id |-> req[r].id, conv |-> n]
<1>1. /\ Types /\ req \in [Request -> RequestRow] /\ req[r] \in RequestRow
      /\ KindOfStep(req[r]) /\ Knows(req[r]) /\ At(r, "create")
      /\ ResultsOf(r) = {} /\ Len(convs) < MaxConvs
      /\ convs' = Append(convs, NewConv) /\ runs' = runs
      /\ results' = IF req[r].id = 0 THEN results ELSE Append(results, row)
      /\ context' = context /\ cuts' = cuts /\ view' = view
      /\ req' = [req EXCEPT ![r] = new]
  BY Zenon DEF IInv, Types, RequestsOK, CreateConversation, Set
<1>2. NewConv \in ConvRow /\ NewConv.msgs = <<Opening>> /\ Opening.status = "active"
  <2>1. Opening \in MsgRow /\ Opening.status = "active" BY Zenon DEF Opening, MsgRow
  <2>2. <<Opening>> \in Seq(MsgRow) /\ <<"complete">> \in Seq(TurnRow) BY <2>1 DEF TurnRow
  <2>. QED BY <2>1, <2>2, Zenon DEF NewConv, ConvRow
<1>3. /\ DOMAIN convs = 1 .. Len(convs) /\ Len(convs) \in Nat /\ 1 \in DOMAIN convs
      /\ DOMAIN results = 1 .. Len(results) /\ Len(results) \in Nat
      /\ n \in 1 .. MaxConvs
  BY <1>1, BoundsAssumption, TableFacts
<1>4. /\ convs' \in Seq(ConvRow) /\ Len(convs') = n /\ DOMAIN convs' = 1 .. n
      /\ convs'[n] = NewConv /\ \A c \in DOMAIN convs : convs'[c] = convs[c]
  BY <1>1, <1>2, <1>3 DEF Types
<1>5. Kind(r) = "start" /\ req[r].id \in Id
  BY <1>1, Zenon DEF KindOfStep, At, Kind, RequestRow
<1>6. /\ new \in RequestRow
      /\ new.pc = "context" /\ new.answer = req[r].answer /\ new.op = op
      /\ new.kind = "start" /\ new.id = req[r].id /\ new.conv = n
  <2>1. op \in Nat BY <1>3
  <2>. HIDE DEF op
  <2>. QED BY <1>1, <1>3, <1>5, <2>1, Zenon DEF RequestRow, Kind
<1>7. /\ results' \in Seq(ResultRow)
      /\ \A k \in DOMAIN results : k \in DOMAIN results' /\ results'[k] = results[k]
      /\ req[r].id # 0 => Len(results) + 1 \in DOMAIN results' /\ results'[Len(results) + 1] = row
      /\ \A k \in DOMAIN results' : k \in DOMAIN results \/ (req[r].id # 0 /\ k = Len(results) + 1)
  <2>1. row \in ResultRow BY <1>3, <1>5, Zenon DEF ResultRow
  <2>2. results \in Seq(ResultRow) BY <1>1, Zenon DEF Types
  <2>. HIDE DEF row
  <2>3. CASE req[r].id = 0 BY <1>1, <1>3, <2>2, <2>3, Zenon
  <2>4. CASE req[r].id # 0
    <3>1. results' = Append(results, row) BY <1>1, <2>4, Zenon
    <3>. QED BY <1>3, <2>1, <2>2, <2>4, <3>1
  <2>. QED BY <2>3, <2>4, Zenon
<1>. HIDE DEF new
<1>8. req'[r] = new /\ \A q \in Request : q # r => req'[q] = req[q] BY <1>1, Zenon
<1>9. Types'
  <2>1. req' \in [Request -> RequestRow] BY <1>1, <1>6, Zenon
  <2>2. Len(convs') \in 1 .. MaxConvs /\ context' \in 0 .. Len(convs')
    BY <1>1, <1>3, <1>4 DEF Types
  <2>. QED BY <1>1, <1>4, <1>7, <2>1, <2>2, Zenon DEF Types
<1>10. RowsKept
  <2>1. \A c \in DOMAIN convs : c \in DOMAIN convs' /\ convs[c].rev <= convs'[c].rev
    <3>1. \A c \in DOMAIN convs : convs[c].rev \in Nat BY <1>1, TableFacts, Zenon DEF ConvRow
    <3>. QED BY <1>3, <1>4, <3>1
  <2>. QED BY <1>1, <1>7, <2>1, Zenon DEF RowsKept
<1>11. RequestsOK'
  <2>. SUFFICES ASSUME NEW q \in Request PROVE KindOfStep(req'[q]) /\ Knows(req[q])'
    BY Zenon DEF RequestsOK, KindOfStep
  <2>1. CASE q = r
    <3>1. KindOfStep(new) BY <1>1, <1>5, <1>6, Zenon DEF KindOfStep, At, Kind
    <3>2. /\ req'[q].conv \in DOMAIN convs' /\ req'[q].pc = "context"
          /\ req'[q].answer # "completed" /\ req'[q].kind = "start"
      BY <1>3, <1>4, <1>6, <1>8, <2>1, <3>1 DEF KindOfStep
    <3>3. req'[q].id # 0 =>
            /\ req'[q].op \in DOMAIN results'
            /\ results'[req'[q].op].kind = req'[q].kind
            /\ results'[req'[q].op].id = req'[q].id
      BY <1>6, <1>7, <1>8, <2>1
    <3>. QED BY <1>8, <2>1, <3>1, <3>2, <3>3, Zenon DEF Knows
  <2>2. CASE q # r
    <3>1. req[q].conv \in DOMAIN convs BY Zenon DEF IInv, RequestsOK, Knows
    <3>. QED BY <1>4, <1>8, <1>9, <1>10, <2>2, <3>1, RowsKeptKnown, Zenon
  <2>. QED BY <2>1, <2>2, Zenon
<1>12. OneHolder' BY <1>6, <1>8, ZenonT(30) DEF IInv, OneHolder, Locked
<1>13. RunsOK' BY <1>1, <1>10, Zenon DEF IInv, RunsOK, RowsKept
<1>14. ResultsOK'
  <2>1. \A k \in DOMAIN results' : results'[k].conv \in DOMAIN convs' /\ results'[k].id # 0
    BY <1>3, <1>4, <1>7, <1>10 DEF IInv, ResultsOK, RowsKept
  <2>2. req[r].id # 0 => \A k \in DOMAIN results : results[k].kind # "start" \/ results[k].id # req[r].id
    BY <1>1, <1>5, Zenon DEF ResultsOf
  <2>3. ASSUME NEW j \in DOMAIN results', NEW k \in DOMAIN results',
               results'[j].id = results'[k].id, results'[j].kind = results'[k].kind
        PROVE  j = k
    BY <1>7, <2>2, <2>3 DEF IInv, ResultsOK
  <2>. QED BY <2>1, <2>3, Zenon DEF ResultsOK
<1>15. SupersededIsReplaced'
  <2>. SUFFICES ASSUME NEW c \in DOMAIN convs', NEW m \in DOMAIN convs'[c].msgs,
                       convs'[c].msgs[m].status = "superseded"
                PROVE  \/ \E i \in DOMAIN convs'[c].msgs : convs'[c].msgs[i].sup = m
                       \/ \E k \in DOMAIN runs' :
                             runs'[k].conv = c /\ runs'[k].sup = m /\ runs'[k].status = "started"
    BY Zenon DEF SupersededIsReplaced
  <2>1. CASE c = n BY <1>2, <1>4, <2>1
  <2>2. CASE c # n
    <3>1. c \in DOMAIN convs BY <1>3, <1>4, <2>2
    <3>. QED BY <1>1, <1>4, <3>1 DEF IInv, SupersededIsReplaced
  <2>. QED BY <2>1, <2>2, Zenon
<1>16. ViewOK'
  <2>1. convs'[1] = convs[1] BY <1>3, <1>4, Zenon
  <2>2. Items(1)' = Items(1) BY <2>1, Zenon DEF Items, Active
  <2>. QED BY <1>1, <2>1, <2>2, Zenon DEF IInv, ViewOK, UnchangedIsCurrent
<1>. QED BY <1>9, <1>11, <1>12, <1>13, <1>14, <1>15, <1>16, Zenon DEF IInv

(* With changes the status of one message.                                    *)
LEMMA WithFacts ==
    ASSUME NEW msgs \in Seq(MsgRow), NEW m, NEW status \in {"active", "revoked", "superseded"}
    PROVE  /\ With(msgs, m, status) \in Seq(MsgRow)
           /\ DOMAIN With(msgs, m, status) = DOMAIN msgs
           /\ \A n \in DOMAIN msgs :
                 /\ With(msgs, m, status)[n].sup = msgs[n].sup
                 /\ n # m => With(msgs, m, status)[n] = msgs[n]
                 /\ n = m => With(msgs, m, status)[n].status = status
<1>1. DOMAIN msgs = 1 .. Len(msgs) /\ Len(msgs) \in Nat /\ \A n \in DOMAIN msgs : msgs[n] \in MsgRow
  OBVIOUS
<1>2. \A n \in DOMAIN msgs :
        /\ [msgs[n] EXCEPT !.status = status] \in MsgRow
        /\ [msgs[n] EXCEPT !.status = status].sup = msgs[n].sup
        /\ [msgs[n] EXCEPT !.status = status].status = status
  BY <1>1, Zenon DEF MsgRow
<1>3. With(msgs, m, status) \in [1 .. Len(msgs) -> MsgRow] BY <1>1, <1>2, Zenon DEF With
<1>4. With(msgs, m, status) \in Seq(MsgRow) /\ DOMAIN With(msgs, m, status) = DOMAIN msgs BY <1>1, <1>3
<1>5. \A n \in DOMAIN msgs : With(msgs, m, status)[n] =
        IF n = m THEN [msgs[n] EXCEPT !.status = status] ELSE msgs[n]
  BY Zenon DEF With
<1>. QED BY <1>2, <1>4, <1>5, Zenon

LEMMA PrepareGenerationKeeps ==
    ASSUME IInv, NEW r \in Request, PrepareGeneration(r), Superseded(r) \in Nat
    PROVE  IInv'
<1>. DEFINE c == req[r].conv
            turn == Len(convs[c].turns) + 1
            base == With(convs[c].msgs, Superseded(r), "superseded")
            msgs == IF Kind(r) = "send" THEN Append(base, Message(turn, "user", 0)) ELSE base
            turns == Append(convs[c].turns, "pending")
            row == [rev |-> req[r].rev + 1, torn |-> FALSE, turns |-> turns, msgs |-> msgs]
            run == [conv |-> c, kind |-> Kind(r), id |-> req[r].id, turn |-> turn,
                    sup |-> Superseded(r), exp |-> req[r].exp, base |-> convs[c].rev,
                    status |-> "started"]
            n == Len(runs) + 1
            new == [req[r] EXCEPT !.pc = "stream", !.rev = req[r].rev + 1, !.sup = Superseded(r), !.op = n]
<1>1. /\ Types /\ req[r] \in RequestRow /\ runs \in Seq(RunRow)
      /\ KindOfStep(req[r]) /\ Knows(req[r])
  BY Zenon DEF IInv, Types, RequestsOK
<1>2. /\ At(r, "prepare") /\ RunsOf(r) = {} /\ results' = results
      /\ context' = context /\ cuts' = cuts /\ view' = view
  BY Zenon DEF PrepareGeneration, RunConflicts
<1>3. /\ convs' = [convs EXCEPT ![c] = row] /\ runs' = Append(runs, run)
      /\ req' = [req EXCEPT ![r] = new]
  BY Zenon DEF PrepareGeneration, Set
<1>4. /\ c \in DOMAIN convs /\ c \in 1 .. MaxConvs /\ convs[c] \in ConvRow
      /\ convs[c].rev \in Nat /\ req[r].rev = convs[c].rev /\ req[r].exp \in {0, convs[c].rev}
      /\ Kind(r) \in Generations /\ req[r].id \in Id /\ Superseded(r) \in Nat
      /\ turn \in Nat /\ n \in Nat
  <2>1. c \in DOMAIN convs /\ c \in 1 .. MaxConvs /\ convs[c] \in ConvRow BY <1>1, TableFacts, Zenon DEF Knows
  <2>2. convs[c].rev \in Nat /\ turn \in Nat BY <2>1, MessageFacts
  <2>4. n \in Nat BY <1>1
  <2>5. req[r].rev = convs[c].rev /\ req[r].exp \in {0, convs[c].rev} /\ Kind(r) \in Generations
    BY <1>1, <1>2, Zenon DEF Knows, KindOfStep, Kind, At
  <2>6. req[r].id \in Id BY <1>1, Zenon DEF RequestRow
  <2>. QED BY <2>1, <2>2, <2>4, <2>5, <2>6, Zenon
<1>5. /\ base \in Seq(MsgRow) /\ DOMAIN base = DOMAIN convs[c].msgs
      /\ \A m \in DOMAIN base : base[m].sup = convs[c].msgs[m].sup
      /\ \A m \in DOMAIN base : m # Superseded(r) => base[m] = convs[c].msgs[m]
  <2>1. convs[c].msgs \in Seq(MsgRow) BY <1>4, MessageFacts, Zenon
  <2>. QED BY <2>1, WithFacts
<1>. HIDE DEF base
<1>6. /\ msgs \in Seq(MsgRow) /\ DOMAIN base \subseteq DOMAIN msgs
      /\ \A m \in DOMAIN base : msgs[m] = base[m]
      /\ \A m \in DOMAIN msgs : m \in DOMAIN base \/ msgs[m].status = "active"
  <2>. DEFINE last == Message(turn, "user", 0)
  <2>1. last \in MsgRow /\ last.status = "active" BY <1>4, Zenon DEF Message, MsgRow
  <2>. HIDE DEF last
  <2>2. CASE Kind(r) = "send"
    <3>1. msgs = Append(base, last) BY <2>2, Zenon DEF last
    <3>. HIDE DEF msgs
    <3>. QED BY <1>5, <2>1, <3>1, RowAppended
  <2>3. CASE Kind(r) # "send" BY <1>5, <2>3, Zenon
  <2>. QED BY <2>2, <2>3, Zenon
<1>. HIDE DEF msgs
<1>7. row \in ConvRow /\ row.msgs = msgs /\ row.rev = convs[c].rev + 1 /\ row.torn = FALSE
  <2>1. convs[c].turns \in Seq(TurnRow) /\ "pending" \in TurnRow BY <1>4, MessageFacts, Zenon DEF TurnRow
  <2>2. turns \in Seq(TurnRow) BY <2>1
  <2>. HIDE DEF turns
  <2>. QED BY <1>4, <1>6, <2>2 DEF ConvRow
<1>8. /\ run \in RunRow /\ run.conv = c /\ run.kind = Kind(r) /\ run.id = req[r].id
      /\ run.sup = Superseded(r) /\ run.status = "started"
      /\ run.exp = req[r].exp /\ run.base = convs[c].rev
  <2>. HIDE DEF turn, c
  <2>1. req[r].exp \in Nat BY <1>1, Zenon DEF RequestRow
  <2>. QED BY <1>4, <2>1, Zenon DEF RunRow
<1>9. /\ new \in RequestRow /\ new.pc = "stream" /\ new.answer = req[r].answer /\ new.op = n
      /\ new.kind = Kind(r) /\ new.id = req[r].id /\ new.conv = c /\ new.sup = Superseded(r)
  <2>1. req[r].rev + 1 \in Nat BY <1>4
  <2>. HIDE DEF n
  <2>. QED BY <1>1, <1>4, <2>1, Zenon DEF RequestRow, Locked, Kind
<1>. HIDE DEF row, run, new
<1>10. /\ runs' \in Seq(RunRow) /\ n \in DOMAIN runs' /\ runs'[n] = run
       /\ \A k \in DOMAIN runs : k \in DOMAIN runs' /\ runs'[k] = runs[k]
       /\ \A k \in DOMAIN runs' : k \in DOMAIN runs \/ k = n
  BY <1>1, <1>3, <1>8, RowAppended
<1>11. RowWrite(r, row, new)
  <2>1. req[r].pc \in Locked BY <1>2, Zenon DEF At, Locked
  <2>2. convs[c].rev <= row.rev /\ convs[c].rev < row.rev BY <1>4, <1>7
  <2>3. results' \in Seq(ResultRow) BY <1>1, <1>2, Zenon DEF Types
  <2>. QED BY <1>2, <1>3, <1>10, <2>1, <2>2, <2>3, Zenon DEF RowWrite
<1>12. /\ WritesOwn(r) /\ RowsKept /\ Types' /\ req'[r] = new
       /\ \A q \in Request : q # r => req'[q] = req[q]
       /\ convs'[c] = row /\ DOMAIN convs' = DOMAIN convs
  BY <1>7, <1>9, <1>11, RowWriteFacts, Zenon
<1>13. KindOfStep(req'[r])
  <2>1. KindOfStep(new) BY <1>1, <1>2, <1>4, <1>9, Zenon DEF KindOfStep, Kind, At
  <2>. QED BY <1>12, <2>1, Zenon
<1>14. Knows(req[r])'
  <2>1. /\ new.conv \in DOMAIN convs' /\ new.pc = "stream" /\ new.answer # "completed"
        /\ new.op \in DOMAIN runs' /\ runs'[new.op] = run
    BY <1>4, <1>9, <1>10, <1>12, <1>13, Zenon DEF KindOfStep
  <2>. QED BY <1>8, <1>9, <1>12, <2>1, Zenon DEF Knows
<1>15. RunsOK'
  <2>1. \A k \in DOMAIN runs' :
          runs'[k].conv \in DOMAIN convs' /\ (runs'[k].exp # 0 => runs'[k].base = runs'[k].exp)
    BY <1>4, <1>8, <1>10, <1>12 DEF IInv, RunsOK
  <2>2. req[r].id # 0 => \A k \in DOMAIN runs : runs[k].kind # Kind(r) \/ runs[k].id # req[r].id
    BY <1>2, Zenon DEF RunsOf
  <2>3. ASSUME NEW j \in DOMAIN runs', NEW k \in DOMAIN runs', runs'[j].id # 0,
               runs'[j].id = runs'[k].id, runs'[j].kind = runs'[k].kind
        PROVE  j = k
    BY <1>8, <1>10, <2>2, <2>3 DEF IInv, RunsOK
  <2>4. \A j, k \in DOMAIN runs' :
          runs'[j].id # 0 /\ runs'[j].id = runs'[k].id /\ runs'[j].kind = runs'[k].kind => j = k
    BY <2>3, Zenon
  <2>. QED BY <2>1, <2>4, Zenon DEF RunsOK
<1>16. ResultsOK' BY <1>2, <1>12, Zenon DEF IInv, ResultsOK
<1>17. ReplacedAfter(c)
  <2>. SUFFICES ASSUME NEW m \in DOMAIN msgs, msgs[m].status = "superseded"
                PROVE  \/ \E i \in DOMAIN msgs : msgs[i].sup = m
                       \/ \E k \in DOMAIN runs' :
                             runs'[k].conv = c /\ runs'[k].sup = m /\ runs'[k].status = "started"
    BY <1>7, <1>12, Zenon DEF ReplacedAfter
  <2>1. m \in DOMAIN base /\ msgs[m] = base[m] BY <1>6, Zenon
  <2>2. CASE m = Superseded(r) BY <1>8, <1>10, <2>2, Zenon
  <2>3. CASE m # Superseded(r)
    <3>1. convs[c].msgs[m].status = "superseded" /\ m \in DOMAIN convs[c].msgs
      <4>1. base[m].status = "superseded" BY <2>1, Zenon
      <4>. QED BY <1>5, <2>1, <2>3, <4>1, Zenon
    <3>2. CASE \E i \in DOMAIN convs[c].msgs : convs[c].msgs[i].sup = m
      <4>1. PICK i \in DOMAIN convs[c].msgs : convs[c].msgs[i].sup = m BY <3>2, Zenon
      <4>2. i \in DOMAIN base /\ base[i].sup = m BY <1>5, <4>1, Zenon
      <4>. QED BY <1>6, <4>2, Zenon
    <3>3. CASE \E k \in DOMAIN runs : runs[k].conv = c /\ runs[k].sup = m /\ runs[k].status = "started"
      BY <1>10, <3>3, Zenon
    <3>. QED BY <1>4, <3>1, <3>2, <3>3, Zenon DEF IInv, SupersededIsReplaced
  <2>. QED BY <2>2, <2>3, Zenon
<1>18. GoodWrite(r) BY <1>9, <1>12, <1>13, <1>14, <1>15, <1>16, <1>17, Zenon DEF GoodWrite
<1>. QED BY <1>18, WriteKeeps, Zenon

(* The end of a generation; msgs keep a replacement for what is hidden.       *)
GoodEnd(r, status, msgs) ==
    /\ At(r, "stream") /\ Conv(r).rev = req[r].rev /\ Finish(r, status, msgs)
    /\ \A m \in DOMAIN msgs : msgs[m].status = "superseded" =>
          \/ \E n \in DOMAIN msgs : msgs[n].sup = m
          \/ \E k \in DOMAIN runs : /\ k # req[r].op /\ runs[k].conv = req[r].conv
                                    /\ runs[k].sup = m /\ runs[k].status = "started"

LEMMA FinishKeeps ==
    ASSUME IInv, NEW r \in Request, NEW status \in {"completed", "failed"}, NEW msgs \in Seq(MsgRow),
           GoodEnd(r, status, msgs)
    PROVE  IInv'
<1>. DEFINE c == req[r].conv
            k == req[r].op
            s == IF status = "completed" THEN "complete" ELSE "failed"
            turns == [convs[c].turns EXCEPT ![runs[k].turn] = s]
            row == [rev |-> req[r].rev + 1, torn |-> FALSE, msgs |-> msgs, turns |-> turns]
            answer == IF status = "completed" THEN "completed" ELSE "error"
            new == [req[r] EXCEPT !.pc = "done", !.answer = answer, !.op = k]
            run == [runs[k] EXCEPT !.status = status]
<1>1. /\ Types /\ req[r] \in RequestRow /\ runs \in Seq(RunRow)
      /\ KindOfStep(req[r]) /\ Knows(req[r])
  BY Zenon DEF IInv, Types, RequestsOK
<1>2. At(r, "stream") /\ Conv(r).rev = req[r].rev /\ Finish(r, status, msgs) BY Zenon DEF GoodEnd
<1>3. results' = results /\ context' = context /\ cuts' = cuts /\ view' = view
  BY <1>2, Zenon DEF Finish
<1>4. convs' = [convs EXCEPT ![c] = row] BY <1>2, Zenon DEF Finish
<1>5. runs' = [runs EXCEPT ![k] = run] BY <1>2, Zenon DEF Finish
<1>6. req' = [req EXCEPT ![r] = new] BY <1>2, Zenon DEF Finish, Answer, Set
<1>7. /\ c \in DOMAIN convs /\ convs[c] \in ConvRow
      /\ convs[c].rev \in Nat /\ req[r].rev = convs[c].rev
      /\ k \in DOMAIN runs /\ runs[k] \in RunRow
  <2>1. c \in DOMAIN convs /\ convs[c] \in ConvRow BY <1>1, TableFacts, Zenon DEF Knows
  <2>2. convs[c].rev \in Nat BY <2>1, MessageFacts, Zenon
  <2>3. k \in DOMAIN runs /\ req[r].rev = convs[c].rev BY <1>1, <1>2, Zenon DEF Knows, At, Conv
  <2>. QED BY <1>1, <2>1, <2>2, <2>3
<1>8. /\ runs[k].conv = c /\ runs[k].kind = req[r].kind /\ runs[k].id = req[r].id
      /\ req[r].kind \in Generations
  BY <1>1, <1>2, Zenon DEF Knows, KindOfStep, At
<1>9. row \in ConvRow /\ row.msgs = msgs /\ row.rev = convs[c].rev + 1 /\ row.torn = FALSE
  <2>1. turns \in Seq(TurnRow)
    <3>. DEFINE old == convs[c].turns
                t == runs[k].turn
    <3>1. s \in TurnRow /\ old \in [1 .. Len(old) -> TurnRow] /\ Len(old) \in Nat
      BY <1>7, MessageFacts DEF TurnRow
    <3>. HIDE DEF s, old, t
    <3>2. [old EXCEPT ![t] = s] \in [1 .. Len(old) -> TurnRow] BY <3>1, Zenon
    <3>3. [old EXCEPT ![t] = s] \in Seq(TurnRow) BY <3>1, <3>2
    <3>. QED BY <3>3, Zenon DEF old, t
  <2>. HIDE DEF turns
  <2>. QED BY <1>7, <2>1 DEF ConvRow
<1>10. /\ run \in RunRow
       /\ run.conv = runs[k].conv /\ run.sup = runs[k].sup /\ run.kind = runs[k].kind
       /\ run.id = runs[k].id /\ run.exp = runs[k].exp /\ run.base = runs[k].base
  <2>. HIDE DEF k
  <2>. QED BY <1>7, Zenon DEF RunRow
<1>11. /\ new \in RequestRow /\ new.pc = "done" /\ new.op = k
       /\ new.kind = req[r].kind /\ new.id = req[r].id /\ new.conv = c
  <2>1. answer \in {"completed", "error"} BY Zenon
  <2>. HIDE DEF answer
  <2>. QED BY <1>1, <2>1, Zenon DEF RequestRow
<1>. HIDE DEF row, run, new
<1>12. /\ runs' \in Seq(RunRow) /\ DOMAIN runs' = DOMAIN runs
       /\ runs'[k] = run /\ \A i \in DOMAIN runs : i # k => runs'[i] = runs[i]
  BY <1>1, <1>5, <1>7, <1>10, RowReplaced, Zenon
<1>13. \A i \in DOMAIN runs :
         /\ runs'[i].conv = runs[i].conv /\ runs'[i].sup = runs[i].sup
         /\ runs'[i].kind = runs[i].kind /\ runs'[i].id = runs[i].id
         /\ runs'[i].exp = runs[i].exp /\ runs'[i].base = runs[i].base
  BY <1>10, <1>12, Zenon
<1>14. RowWrite(r, row, new)
  <2>1. req[r].pc \in Locked BY <1>2, Zenon DEF At, Locked
  <2>2. convs[c].rev <= row.rev /\ convs[c].rev < row.rev BY <1>7, <1>9
  <2>3. results' \in Seq(ResultRow) BY <1>1, <1>3, Zenon DEF Types
  <2>4. \A i \in DOMAIN runs : i \in DOMAIN runs' /\ (runs[i].conv # c => runs'[i] = runs[i])
    BY <1>8, <1>12, Zenon
  <2>. QED BY <1>3, <1>4, <1>6, <1>12, <1>13, <2>1, <2>2, <2>3, <2>4, Zenon DEF RowWrite
<1>15. /\ WritesOwn(r) /\ RowsKept /\ Types' /\ req'[r] = new
       /\ \A q \in Request : q # r => req'[q] = req[q]
       /\ convs'[c] = row /\ DOMAIN convs' = DOMAIN convs
  BY <1>9, <1>11, <1>14, RowWriteFacts, ZenonT(30)
<1>16. KindOfStep(req'[r])
  <2>1. KindOfStep(new) BY <1>1, <1>11, Zenon DEF KindOfStep
  <2>. QED BY <1>15, <2>1, Zenon
<1>17. Knows(req[r])'
  <2>1. new.conv \in DOMAIN convs' /\ new.op \in DOMAIN runs' /\ runs'[new.op] = run
    BY <1>7, <1>11, <1>12, <1>15, Zenon
  <2>. QED BY <1>8, <1>10, <1>11, <1>15, <2>1, Zenon DEF Knows
<1>18. RunsOK'
  <2>1. \A i \in DOMAIN runs' :
          runs'[i].conv \in DOMAIN convs' /\ (runs'[i].exp # 0 => runs'[i].base = runs'[i].exp)
    BY <1>12, <1>13, <1>15, Zenon DEF IInv, RunsOK
  <2>2. ASSUME NEW i \in DOMAIN runs', NEW j \in DOMAIN runs', runs'[i].id # 0,
               runs'[i].id = runs'[j].id, runs'[i].kind = runs'[j].kind
        PROVE  i = j
    <3>1. /\ i \in DOMAIN runs /\ j \in DOMAIN runs /\ runs[i].id # 0
          /\ runs[i].id = runs[j].id /\ runs[i].kind = runs[j].kind
      BY <1>12, <1>13, <2>2, Zenon
    <3>. QED BY <3>1, Zenon DEF IInv, RunsOK
  <2>. QED BY <2>1, <2>2, Zenon DEF RunsOK
<1>19. ResultsOK' BY <1>3, <1>15, Zenon DEF IInv, ResultsOK
<1>20. ReplacedAfter(c)
  <2>. SUFFICES ASSUME NEW m \in DOMAIN msgs, msgs[m].status = "superseded"
                PROVE  \/ \E n \in DOMAIN msgs : msgs[n].sup = m
                       \/ \E i \in DOMAIN runs' :
                             runs'[i].conv = c /\ runs'[i].sup = m /\ runs'[i].status = "started"
    BY <1>9, <1>15, Zenon DEF ReplacedAfter
  <2>1. CASE \E i \in DOMAIN runs : /\ i # k /\ runs[i].conv = c
                                    /\ runs[i].sup = m /\ runs[i].status = "started"
    BY <1>12, <2>1, Zenon
  <2>. QED BY <2>1, Zenon DEF GoodEnd
<1>21. req'[r].pc \notin Locked BY <1>11, <1>15, Zenon DEF Locked
<1>22. GoodWrite(r) BY <1>15, <1>16, <1>17, <1>18, <1>19, <1>20, <1>21, Zenon DEF GoodWrite
<1>. QED BY <1>22, WriteKeeps, Zenon

LEMMA GenerationCompletesKeeps == ASSUME IInv, NEW r \in Request, GenerationCompletes(r) PROVE IInv'
<1>. DEFINE c == req[r].conv
            old == convs[c].msgs
            reply == Message(runs[req[r].op].turn, "assistant", req[r].sup)
            msgs == Append(old, reply)
            last == Len(old) + 1
<1>1. Types /\ req[r] \in RequestRow /\ Knows(req[r]) BY Zenon DEF IInv, Types, RequestsOK
<1>2. /\ At(r, "stream") /\ Conv(r).rev = req[r].rev /\ Finish(r, "completed", msgs)
  BY Zenon DEF GenerationCompletes, Conv
<1>3. c \in DOMAIN convs /\ old \in Seq(MsgRow)
  <2>1. c \in DOMAIN convs /\ convs[c] \in ConvRow BY <1>1, TableFacts, Zenon DEF Knows
  <2>. QED BY <2>1, MessageFacts, Zenon
<1>4. req[r].op \in DOMAIN runs /\ runs[req[r].op].sup = req[r].sup BY <1>1, <1>2, Zenon DEF Knows, At
<1>5. reply \in MsgRow /\ reply.sup = req[r].sup /\ reply.status = "active"
  <2>1. runs[req[r].op] \in RunRow BY <1>1, <1>4, TableFacts, Zenon
  <2>2. runs[req[r].op].turn \in Nat /\ req[r].sup \in Nat BY <1>1, <2>1, Zenon DEF RunRow, RequestRow
  <2>. QED BY <2>2, Zenon DEF Message, MsgRow
<1>. HIDE DEF reply, old
<1>6. /\ msgs \in Seq(MsgRow) /\ last \in DOMAIN msgs /\ msgs[last] = reply
      /\ \A m \in DOMAIN old : m \in DOMAIN msgs /\ msgs[m] = old[m]
      /\ \A m \in DOMAIN msgs : m \in DOMAIN old \/ m = last
  BY <1>3, <1>5, RowAppended
<1>. HIDE DEF msgs, last
<1>7. ASSUME NEW m \in DOMAIN msgs, msgs[m].status = "superseded"
      PROVE  \/ \E n \in DOMAIN msgs : msgs[n].sup = m
             \/ \E k \in DOMAIN runs : /\ k # req[r].op /\ runs[k].conv = c
                                       /\ runs[k].sup = m /\ runs[k].status = "started"
  <2>1. m \in DOMAIN old /\ old[m].status = "superseded" BY <1>5, <1>6, <1>7, Zenon
  <2>2. CASE \E n \in DOMAIN old : old[n].sup = m BY <1>6, <2>2, Zenon
  <2>3. CASE \E k \in DOMAIN runs : runs[k].conv = c /\ runs[k].sup = m /\ runs[k].status = "started"
    <3>1. PICK k \in DOMAIN runs : runs[k].conv = c /\ runs[k].sup = m /\ runs[k].status = "started"
      BY <2>3, Zenon
    <3>2. CASE k = req[r].op
      <4>1. msgs[last].sup = m BY <1>4, <1>5, <1>6, <3>1, <3>2, Zenon
      <4>. QED BY <1>6, <4>1, Zenon
    <3>3. CASE k # req[r].op BY <3>1, <3>3, Zenon
    <3>. QED BY <3>2, <3>3, Zenon
  <2>. QED BY <1>3, <2>1, <2>2, <2>3 DEF IInv, SupersededIsReplaced, old
<1>8. GoodEnd(r, "completed", msgs) BY <1>2, <1>7, Zenon DEF GoodEnd
<1>. QED BY <1>6, <1>8, FinishKeeps, Zenon

LEMMA GenerationFailsKeeps == ASSUME IInv, NEW r \in Request, GenerationFails(r) PROVE IInv'
<1>. DEFINE c == req[r].conv
            old == convs[c].msgs
            msgs == With(old, req[r].sup, "active")
<1>1. Types /\ req[r] \in RequestRow /\ Knows(req[r]) BY Zenon DEF IInv, Types, RequestsOK
<1>2. At(r, "stream") /\ Conv(r).rev = req[r].rev /\ Finish(r, "failed", msgs)
  BY Zenon DEF GenerationFails, Conv
<1>3. c \in DOMAIN convs /\ old \in Seq(MsgRow)
  <2>1. c \in DOMAIN convs /\ convs[c] \in ConvRow BY <1>1, TableFacts, Zenon DEF Knows
  <2>. QED BY <2>1, MessageFacts, Zenon
<1>4. req[r].op \in DOMAIN runs /\ runs[req[r].op].sup = req[r].sup BY <1>1, <1>2, Zenon DEF Knows, At
<1>. HIDE DEF old
<1>5. /\ msgs \in Seq(MsgRow) /\ DOMAIN msgs = DOMAIN old
      /\ \A n \in DOMAIN old : msgs[n].sup = old[n].sup
      /\ \A n \in DOMAIN old : n # req[r].sup => msgs[n] = old[n]
      /\ (req[r].sup \in DOMAIN old => msgs[req[r].sup].status = "active")
  BY <1>3, WithFacts
<1>. HIDE DEF msgs
<1>6. ASSUME NEW m \in DOMAIN msgs, msgs[m].status = "superseded"
      PROVE  \/ \E n \in DOMAIN msgs : msgs[n].sup = m
             \/ \E k \in DOMAIN runs : /\ k # req[r].op /\ runs[k].conv = c
                                       /\ runs[k].sup = m /\ runs[k].status = "started"
  <2>1. m \in DOMAIN old /\ m # req[r].sup /\ old[m].status = "superseded" BY <1>5, <1>6, Zenon
  <2>2. CASE \E n \in DOMAIN old : old[n].sup = m BY <1>5, <2>2, Zenon
  <2>3. CASE \E k \in DOMAIN runs : runs[k].conv = c /\ runs[k].sup = m /\ runs[k].status = "started"
    BY <1>4, <2>1, <2>3, Zenon
  <2>. QED BY <1>3, <2>1, <2>2, <2>3 DEF IInv, SupersededIsReplaced, old
<1>7. GoodEnd(r, "failed", msgs) BY <1>2, <1>6, Zenon DEF GoodEnd
<1>. QED BY <1>5, <1>7, FinishKeeps, Zenon

(* A write that keeps runs and the messages that replace others; the request  *)
(* stays out of the steps that rest on what it read.                          *)
Rewrites(r, row, new) ==
    /\ RowWrite(r, row, new) /\ runs' = runs /\ ResultsOK'
    /\ DOMAIN row.msgs = DOMAIN convs[req[r].conv].msgs
    /\ \A m \in DOMAIN row.msgs :
          /\ row.msgs[m].sup = convs[req[r].conv].msgs[m].sup
          /\ (row.msgs[m].status = "superseded" =>
                 convs[req[r].conv].msgs[m].status = "superseded")
    /\ KindOfStep(new) /\ new.conv = req[r].conv
    /\ new.pc \notin {"read", "prepare", "stream", "context"}
    /\ new.id # 0 /\ new.answer = "completed" =>
          /\ new.kind \notin Generations
          /\ new.op \in DOMAIN results' /\ results'[new.op].kind = new.kind
          /\ results'[new.op].id = new.id

LEMMA RewriteKeeps ==
    ASSUME IInv, NEW r \in Request, NEW row \in ConvRow, NEW new \in RequestRow,
           Rewrites(r, row, new)
    PROVE  IInv'
<1>. DEFINE c == req[r].conv
<1>1. /\ WritesOwn(r) /\ RowsKept /\ Types' /\ req'[r] = new
      /\ \A q \in Request : q # r => req'[q] = req[q]
      /\ convs'[c] = row /\ DOMAIN convs' = DOMAIN convs
  <2>1. RowWrite(r, row, new) BY Zenon DEF Rewrites
  <2>. QED BY <2>1, RowWriteFacts, Zenon
<1>2. c \in DOMAIN convs BY Zenon DEF IInv, RequestsOK, Knows
<1>3. runs' = runs /\ ResultsOK' BY Zenon DEF Rewrites
<1>4. KindOfStep(req'[r]) /\ req'[r].conv = c BY <1>1, Zenon DEF Rewrites
<1>5. Knows(req[r])'
  <2>1. new.conv \in DOMAIN convs' BY <1>1, <1>2, Zenon DEF Rewrites
  <2>2. KindOfStep(new) /\ new.pc \notin {"read", "prepare", "stream", "context"} BY Zenon DEF Rewrites
  <2>3. new.id # 0 /\ new.answer = "completed" =>
           /\ new.kind \notin Generations
           /\ new.op \in DOMAIN results' /\ results'[new.op].kind = new.kind
           /\ results'[new.op].id = new.id
    BY Zenon DEF Rewrites
  <2>. QED BY <1>1, <2>1, <2>2, <2>3, Zenon DEF Knows
<1>6. RunsOK' BY <1>1, <1>3, Zenon DEF IInv, RunsOK
<1>7. ReplacedAfter(c)
  <2>. SUFFICES ASSUME NEW m \in DOMAIN row.msgs, row.msgs[m].status = "superseded"
                PROVE  \/ \E n \in DOMAIN row.msgs : row.msgs[n].sup = m
                       \/ \E i \in DOMAIN runs :
                             runs[i].conv = c /\ runs[i].sup = m /\ runs[i].status = "started"
    BY <1>1, <1>3, ZenonT(30) DEF ReplacedAfter
  <2>1. m \in DOMAIN convs[c].msgs /\ convs[c].msgs[m].status = "superseded" BY Zenon DEF Rewrites
  <2>2. CASE \E n \in DOMAIN convs[c].msgs : convs[c].msgs[n].sup = m BY <2>2, Zenon DEF Rewrites
  <2>. QED BY <1>2, <2>1, <2>2 DEF IInv, SupersededIsReplaced
<1>8. GoodWrite(r) BY <1>1, <1>3, <1>4, <1>5, <1>6, <1>7, Zenon DEF GoodWrite
<1>. QED BY <1>8, WriteKeeps, Zenon

(* A revoked turn hides its messages and leaves no new one superseded.        *)
LEMMA UndoneRow ==
    ASSUME NEW c, convs[c] \in ConvRow
    PROVE  /\ Undone(c) \in ConvRow
           /\ Undone(c).rev = convs[c].rev + 1 /\ Undone(c).torn = FALSE
           /\ DOMAIN Undone(c).msgs = DOMAIN convs[c].msgs
           /\ \A m \in DOMAIN convs[c].msgs :
                /\ Undone(c).msgs[m].sup = convs[c].msgs[m].sup
                /\ (Undone(c).msgs[m].status = "superseded" => convs[c].msgs[m].status = "superseded")
<1>. DEFINE t == Latest(Undoable(c))
            old == convs[c].msgs
            turns == [convs[c].turns EXCEPT ![t] = "revoked"]
            msgs == [m \in DOMAIN old |->
                       IF old[m].turn = t /\ m \in Active(c)
                       THEN [old[m] EXCEPT !.status = "revoked"] ELSE old[m]]
            row == [rev |-> Bumped(convs[c].rev), torn |-> FALSE, turns |-> turns, msgs |-> msgs]
<1>1. old \in Seq(MsgRow) /\ convs[c].turns \in Seq(TurnRow) /\ convs[c].rev \in Nat
  BY MessageFacts, Zenon
<1>0. Undone(c) = row BY Zenon DEF Undone
<1>2. /\ msgs \in Seq(MsgRow) /\ DOMAIN msgs = DOMAIN old
      /\ \A m \in DOMAIN old : msgs[m].sup = old[m].sup
      /\ \A m \in DOMAIN old : msgs[m].status = "superseded" => old[m].status = "superseded"
  <2>. HIDE DEF old, t
  <2>1. /\ DOMAIN old = 1 .. Len(old) /\ Len(old) \in Nat
        /\ \A m \in DOMAIN old : old[m] \in MsgRow
    BY <1>1
  <2>2. \A m \in DOMAIN old :
          /\ [old[m] EXCEPT !.status = "revoked"] \in MsgRow
          /\ [old[m] EXCEPT !.status = "revoked"].sup = old[m].sup
          /\ [old[m] EXCEPT !.status = "revoked"].status = "revoked"
    BY <2>1, Zenon DEF MsgRow
  <2>3. \A m \in DOMAIN old : /\ msgs[m] \in MsgRow /\ msgs[m].sup = old[m].sup
                              /\ (msgs[m].status = "superseded" => old[m].status = "superseded")
    BY <2>1, <2>2, Zenon
  <2>4. msgs \in [1 .. Len(old) -> MsgRow] BY <2>1, <2>3, Zenon
  <2>5. msgs \in Seq(MsgRow) /\ DOMAIN msgs = DOMAIN old BY <2>1, <2>4
  <2>. QED BY <2>3, <2>5, Zenon
<1>3. turns \in Seq(TurnRow)
  <2>. DEFINE before == convs[c].turns
  <2>1. before \in [1 .. Len(before) -> TurnRow] /\ Len(before) \in Nat /\ "revoked" \in TurnRow
    BY <1>1 DEF TurnRow
  <2>. HIDE DEF before, t
  <2>2. [before EXCEPT ![t] = "revoked"] \in [1 .. Len(before) -> TurnRow] BY <2>1, Zenon
  <2>3. [before EXCEPT ![t] = "revoked"] \in Seq(TurnRow) BY <2>1, <2>2
  <2>. QED BY <2>3, Zenon DEF before
<1>. HIDE DEF msgs, turns, old
<1>4. row \in ConvRow /\ row.msgs = msgs /\ row.rev = convs[c].rev + 1 /\ row.torn = FALSE
  BY <1>1, <1>2, <1>3 DEF ConvRow, Bumped
<1>. HIDE DEF row
<1>. QED BY <1>0, <1>2, <1>4, Zenon DEF old

LEMMA UndoLastTurnKeeps == ASSUME IInv, NEW r \in Request, UndoLastTurn(r) PROVE IInv'
<1>. DEFINE c == req[r].conv
            row == Undone(c)
            res == [kind |-> "undo", id |-> req[r].id, conv |-> c]
            n == Len(results) + 1
            op == IF req[r].id = 0 THEN 0 ELSE n
            new == [req[r] EXCEPT !.pc = "done", !.answer = "completed", !.op = op]
<1>1. Types /\ req[r] \in RequestRow /\ KindOfStep(req[r]) /\ Knows(req[r])
  BY Zenon DEF IInv, Types, RequestsOK
<1>2. At(r, "remove") /\ ResultsOf(r) = {} BY Zenon DEF UndoLastTurn
<1>3. convs' = [convs EXCEPT ![c] = row] BY Zenon DEF UndoLastTurn
<1>4. req' = [req EXCEPT ![r] = new] BY Zenon DEF UndoLastTurn, Answer, Set
<1>5. IF req[r].id = 0 THEN results' = results ELSE results' = Append(results, res)
  BY Zenon DEF UndoLastTurn
<1>6. runs' = runs /\ context' = context /\ cuts' = cuts /\ view' = view BY Zenon DEF UndoLastTurn
<1>7. c \in DOMAIN convs /\ c \in 1 .. MaxConvs /\ convs[c] \in ConvRow
  BY <1>1, TableFacts, Zenon DEF Knows
<1>8. /\ Len(results) \in Nat /\ results \in Seq(ResultRow)
      /\ req[r].kind = "undo" /\ req[r].id \in Id /\ req[r].pc \in Locked
  BY <1>1, <1>2, TableFacts, Zenon DEF Types, KindOfStep, At, RequestRow, Locked
<1>9. convs[c].rev \in Nat BY <1>7, MessageFacts, Zenon
<1>12. /\ row \in ConvRow /\ row.rev = convs[c].rev + 1 /\ row.torn = FALSE
       /\ DOMAIN row.msgs = DOMAIN convs[c].msgs
       /\ \A m \in DOMAIN convs[c].msgs :
            /\ row.msgs[m].sup = convs[c].msgs[m].sup
            /\ (row.msgs[m].status = "superseded" => convs[c].msgs[m].status = "superseded")
  BY <1>7, UndoneRow, Zenon
<1>13. res \in ResultRow /\ res.id = req[r].id /\ res.kind = "undo" /\ res.conv = c
  BY <1>7, <1>8, Zenon DEF ResultRow
<1>14. /\ new \in RequestRow /\ new.pc = "done" /\ new.op = op
       /\ new.kind = "undo" /\ new.id = req[r].id /\ new.conv = c
  <2>1. op \in Nat BY <1>8
  <2>. HIDE DEF op
  <2>. QED BY <1>1, <1>8, <2>1, Zenon DEF RequestRow
<1>. HIDE DEF row, res, new
<1>15. /\ results' \in Seq(ResultRow)
       /\ \A k \in DOMAIN results : k \in DOMAIN results' /\ results'[k] = results[k]
       /\ (req[r].id # 0 => n \in DOMAIN results' /\ results'[n] = res)
       /\ \A k \in DOMAIN results' : k \in DOMAIN results \/ (req[r].id # 0 /\ k = n)
  <2>1. CASE req[r].id = 0 BY <1>5, <1>8, <2>1, Zenon
  <2>2. CASE req[r].id # 0 BY <1>5, <1>8, <1>13, <2>2, RowAppended
  <2>. QED BY <2>1, <2>2, Zenon
<1>16. RowWrite(r, row, new)
  <2>0. row.rev = convs[c].rev + 1 BY <1>12, Zenon
  <2>1. convs[c].rev <= row.rev /\ convs[c].rev < row.rev BY <1>9, <2>0
  <2>2. runs \in Seq(RunRow) BY <1>1, Zenon DEF Types
  <2>. QED BY <1>3, <1>4, <1>6, <1>8, <1>15, <2>1, <2>2, Zenon DEF RowWrite
<1>17. DOMAIN convs' = DOMAIN convs BY <1>12, <1>14, <1>16, RowWriteFacts, Zenon
<1>18. ResultsOK'
  <2>1. \A k \in DOMAIN results' : results'[k].conv \in DOMAIN convs' /\ results'[k].id # 0
    BY <1>7, <1>13, <1>15, <1>17, Zenon DEF IInv, ResultsOK
  <2>2. req[r].id # 0 => \A k \in DOMAIN results : results[k].kind # "undo" \/ results[k].id # req[r].id
    BY <1>2, <1>8, Zenon DEF ResultsOf, Kind
  <2>3. ASSUME NEW j \in DOMAIN results', NEW k \in DOMAIN results',
               results'[j].id = results'[k].id, results'[j].kind = results'[k].kind
        PROVE  j = k
    BY <1>13, <1>15, <2>2, <2>3 DEF IInv, ResultsOK
  <2>. QED BY <2>1, <2>3, Zenon DEF ResultsOK
<1>19. KindOfStep(new) BY <1>1, <1>14, Zenon DEF KindOfStep
<1>20. new.id # 0 => /\ new.kind \notin Generations
                     /\ new.op \in DOMAIN results' /\ results'[new.op].kind = new.kind
                     /\ results'[new.op].id = new.id
  BY <1>13, <1>14, <1>15, Zenon DEF Generations
<1>21. /\ DOMAIN row.msgs = DOMAIN convs[c].msgs
       /\ \A m \in DOMAIN row.msgs :
            /\ row.msgs[m].sup = convs[c].msgs[m].sup
            /\ (row.msgs[m].status = "superseded" => convs[c].msgs[m].status = "superseded")
  BY <1>12, Zenon
<1>22. Rewrites(r, row, new)
  BY <1>6, <1>14, <1>16, <1>18, <1>19, <1>20, <1>21, Zenon DEF Rewrites
<1>. QED BY <1>12, <1>14, <1>22, RewriteKeeps, Zenon

LEMMA CompressMessageKeeps == ASSUME IInv, NEW r \in Request, CompressMessage(r) PROVE IInv'
<1>. DEFINE c == req[r].conv
            x == Earliest(req[r].todo)
            todo == req[r].todo \ {x}
            new == [req[r] EXCEPT !.todo = todo]
            old == convs[c].msgs
            msgs == [old EXCEPT ![x].brief = TRUE]
            row == Digested(c, x)
<1>1. \/ convs' = [convs EXCEPT ![c] = row]
      \/ convs' = convs
  BY Zenon DEF CompressMessage
<1>2. req' = [req EXCEPT ![r] = new] BY Zenon DEF CompressMessage, Set
<1>3. /\ At(r, "compress")
      /\ runs' = runs /\ results' = results /\ context' = context /\ cuts' = cuts /\ view' = view
  BY Zenon DEF CompressMessage
<1>4. Types /\ req[r] \in RequestRow /\ KindOfStep(req[r]) /\ Knows(req[r])
  BY Zenon DEF IInv, Types, RequestsOK
<1>. HIDE DEF x
<1>5. c \in DOMAIN convs /\ convs[c] \in ConvRow BY <1>4, TableFacts, Zenon DEF Knows
<1>6. req[r].kind = "compress" /\ req[r].id = 0 /\ req[r].pc = "compress" /\ req[r].pc \in Locked
  BY <1>3, <1>4, Zenon DEF KindOfStep, At, Locked, Generations
<1>7. /\ new \in RequestRow /\ new.pc = "compress" /\ new.answer = req[r].answer
      /\ new.kind = req[r].kind /\ new.id = 0 /\ new.conv = c
  <2>1. todo \in SUBSET Nat BY <1>4, Zenon DEF RequestRow
  <2>. HIDE DEF todo
  <2>. QED BY <1>4, <1>6, <2>1, Zenon DEF RequestRow
<1>. HIDE DEF new
<1>8. KindOfStep(new) BY <1>4, <1>6, <1>7, Zenon DEF KindOfStep
<1>9. CASE convs' = convs
  <2>1. Knows(new) BY <1>4, <1>5, <1>7, Zenon DEF Knows
  <2>2. UNCHANGED <<tableVars, view>> BY <1>3, <1>9, Zenon DEF tableVars
  <2>3. context' \in 0 .. Len(convs) /\ cuts' \in 0 .. MaxCuts BY <1>3, <1>4, Zenon DEF Types
  <2>. QED BY <1>2, <1>6, <1>7, <1>8, <2>1, <2>2, <2>3, RequestKeeps, Zenon
<1>10. CASE convs' = [convs EXCEPT ![c] = row]
  <2>1. old \in Seq(MsgRow) /\ convs[c].rev \in Nat BY <1>5, MessageFacts, Zenon
  <2>2. row = [convs[c] EXCEPT !.msgs = msgs, !.torn = TRUE] BY <1>5, Zenon DEF ConvRow, Digested
  <2>3. /\ msgs \in Seq(MsgRow) /\ DOMAIN msgs = DOMAIN old
        /\ \A m \in DOMAIN old : msgs[m].sup = old[m].sup /\ msgs[m].status = old[m].status
    <3>. HIDE DEF old
    <3>1. /\ DOMAIN old = 1 .. Len(old) /\ Len(old) \in Nat
          /\ \A m \in DOMAIN old : old[m] \in MsgRow
      BY <2>1
    <3>2. \A m \in DOMAIN old :
            msgs[m] \in MsgRow /\ msgs[m].sup = old[m].sup /\ msgs[m].status = old[m].status
      BY <3>1, Zenon DEF MsgRow
    <3>3. msgs \in [1 .. Len(old) -> MsgRow] BY <3>1, <3>2, Zenon
    <3>4. msgs \in Seq(MsgRow) /\ DOMAIN msgs = DOMAIN old BY <3>1, <3>3
    <3>. QED BY <3>2, <3>4, Zenon
  <2>. HIDE DEF msgs
  <2>4. row \in ConvRow /\ row.msgs = msgs /\ row.rev = convs[c].rev /\ row.torn = TRUE
    BY <1>5, <2>2, <2>3, Zenon DEF ConvRow
  <2>. HIDE DEF row
  <2>5. RowWrite(r, row, new)
    <3>1. runs \in Seq(RunRow) /\ results \in Seq(ResultRow) BY <1>4, Zenon DEF Types
    <3>2. convs[c].rev <= row.rev BY <2>1, <2>4
    <3>. QED BY <1>2, <1>3, <1>6, <1>10, <2>4, <3>1, <3>2, Zenon DEF RowWrite
  <2>6. ResultsOK'
    <3>1. DOMAIN convs' = DOMAIN convs BY <1>10, Zenon
    <3>. QED BY <1>3, <3>1, Zenon DEF IInv, ResultsOK
  <2>7. /\ DOMAIN row.msgs = DOMAIN convs[c].msgs
        /\ \A m \in DOMAIN row.msgs :
             /\ row.msgs[m].sup = convs[c].msgs[m].sup
             /\ (row.msgs[m].status = "superseded" => convs[c].msgs[m].status = "superseded")
    BY <2>3, <2>4, Zenon
  <2>8. Rewrites(r, row, new) BY <1>3, <1>7, <1>8, <2>5, <2>6, <2>7, Zenon DEF Rewrites
  <2>. QED BY <1>7, <2>4, <2>8, RewriteKeeps, Zenon
<1>. QED BY <1>1, <1>9, <1>10, Zenon

LEMMA CompressEndsKeeps == ASSUME IInv, NEW r \in Request, CompressEnds(r) PROVE IInv'
<1>. DEFINE c == req[r].conv
            new == [req[r] EXCEPT !.pc = "done", !.answer = "completed", !.op = 0]
            row == [convs[c] EXCEPT !.rev = convs[c].rev + 1, !.torn = FALSE]
<1>1. convs' = [convs EXCEPT ![c].rev = Bumped(@), ![c].torn = FALSE] BY Zenon DEF CompressEnds
<1>2. req' = [req EXCEPT ![r] = new] BY Zenon DEF CompressEnds, Answer, Set
<1>3. /\ At(r, "compress")
      /\ runs' = runs /\ results' = results /\ context' = context /\ cuts' = cuts /\ view' = view
  BY Zenon DEF CompressEnds
<1>4. Types /\ req[r] \in RequestRow /\ KindOfStep(req[r]) /\ Knows(req[r])
  BY Zenon DEF IInv, Types, RequestsOK
<1>5. c \in DOMAIN convs /\ convs[c] \in ConvRow /\ convs[c].rev \in Nat
  BY <1>4, TableFacts, MessageFacts, Zenon DEF Knows
<1>6. req[r].kind = "compress" /\ req[r].id = 0 /\ req[r].pc \in Locked
  BY <1>3, <1>4, Zenon DEF KindOfStep, At, Locked, Generations
<1>7. /\ new \in RequestRow /\ new.pc = "done" /\ new.answer = "completed"
      /\ new.kind = req[r].kind /\ new.id = 0 /\ new.conv = c
  BY <1>4, <1>6, Zenon DEF RequestRow
<1>. HIDE DEF new
<1>8. KindOfStep(new) BY <1>4, <1>6, <1>7, Zenon DEF KindOfStep
<1>9. convs' = [convs EXCEPT ![c] = row] BY <1>1, <1>5, Zenon DEF ConvRow, Bumped
<1>10. row \in ConvRow /\ row.msgs = convs[c].msgs /\ row.rev = convs[c].rev + 1
  <2>. DEFINE n == convs[c].rev + 1
  <2>1. convs[c] \in ConvRow /\ n \in Nat BY <1>5
  <2>. HIDE DEF n, c
  <2>2. [convs[c] EXCEPT !.rev = n, !.torn = FALSE] \in ConvRow
    BY <2>1, Zenon DEF ConvRow
  <2>3. /\ [convs[c] EXCEPT !.rev = n, !.torn = FALSE].msgs = convs[c].msgs
        /\ [convs[c] EXCEPT !.rev = n, !.torn = FALSE].rev = n
    BY <2>1, Zenon DEF ConvRow
  <2>. QED BY <2>2, <2>3, Zenon DEF n
<1>. HIDE DEF row
<1>11. RowWrite(r, row, new)
  <2>1. runs \in Seq(RunRow) /\ results \in Seq(ResultRow) BY <1>4, Zenon DEF Types
  <2>2. convs[c].rev <= row.rev /\ convs[c].rev < row.rev BY <1>5, <1>10
  <2>. QED BY <1>2, <1>3, <1>6, <1>9, <2>1, <2>2, Zenon DEF RowWrite
<1>12. ResultsOK'
  <2>1. DOMAIN convs' = DOMAIN convs BY <1>9, Zenon
  <2>. QED BY <1>3, <2>1, Zenon DEF IInv, ResultsOK
<1>13. Rewrites(r, row, new) BY <1>3, <1>7, <1>8, <1>10, <1>11, <1>12, Zenon DEF Rewrites
<1>. QED BY <1>7, <1>10, <1>13, RewriteKeeps, Zenon

-----------------------------------------------------------------------------
LEMMA InitOK == Init => IInv
<1>. SUFFICES ASSUME Init PROVE IInv BY Zenon
<1>1. NewConv \in ConvRow /\ NewConv.msgs = <<Opening>> /\ Opening.status = "active" /\ NewConv.rev = 1
  <2>1. Opening \in MsgRow /\ Opening.status = "active" BY Zenon DEF Opening, MsgRow
  <2>2. <<Opening>> \in Seq(MsgRow) /\ <<"complete">> \in Seq(TurnRow) BY <2>1 DEF TurnRow
  <2>. QED BY <2>1, <2>2, Zenon DEF NewConv, ConvRow
<1>2. /\ convs = <<NewConv>> /\ convs \in Seq(ConvRow) /\ Len(convs) = 1
      /\ DOMAIN convs = {1} /\ convs[1] = NewConv
  BY <1>1 DEF Init
<1>3. /\ runs = <<>> /\ results = <<>> /\ DOMAIN runs = {} /\ DOMAIN results = {}
      /\ runs \in Seq(RunRow) /\ results \in Seq(ResultRow)
  BY DEF Init
<1>4. NoRequest \in RequestRow BY BoundsAssumption DEF NoRequest, RequestRow, Id
<1>5. req \in [Request -> RequestRow] /\ \A r \in Request : req[r] = NoRequest BY <1>4, Zenon DEF Init
<1>6. view.rev = 0 BY Zenon DEF Init
<1>7. Types
  <2>1. context \in 0 .. Len(convs) /\ Len(convs) \in 1 .. MaxConvs /\ cuts \in 0 .. MaxCuts
    BY <1>2, BoundsAssumption DEF Init
  <2>. QED BY <1>2, <1>3, <1>5, <1>6, <2>1 DEF Types
<1>8. RequestsOK
  <2>1. KindOfStep(NoRequest) BY Zenon DEF KindOfStep, NoRequest
  <2>2. Knows(NoRequest) BY <1>2, Zenon DEF Knows, NoRequest
  <2>. QED BY <1>5, <2>1, <2>2, Zenon DEF RequestsOK
<1>9. OneHolder BY <1>5 DEF OneHolder, NoRequest, Locked
<1>10. RunsOK /\ ResultsOK BY <1>3, Zenon DEF RunsOK, ResultsOK
<1>11. SupersededIsReplaced BY <1>1, <1>2 DEF SupersededIsReplaced
<1>12. ViewOK BY <1>1, <1>2, <1>6 DEF ViewOK, UnchangedIsCurrent
<1>. QED BY <1>7, <1>8, <1>9, <1>10, <1>11, <1>12, Zenon DEF IInv

INSTANCE WellFoundedInduction

(* Sets of naturals have a least element, and bounded ones a greatest.        *)
LEMMA Least ==
    ASSUME NEW S \in SUBSET Nat, S # {}
    PROVE  \E n \in S : \A m \in S : n <= m
<1>. DEFINE R == OpToRel(<, Nat)
<1>1. IsWellFoundedOn(R, Nat) BY NatLessThanWellFounded, Zenon
<1>2. \A x, y \in Nat : x < y => <<x, y>> \in R BY Zenon DEF OpToRel
<1>. HIDE DEF R
<1>3. PICK n \in S : \A m \in S : ~(<<m, n>> \in R) BY <1>1, WFMin, Zenon
<1>4. ASSUME NEW m \in S PROVE n <= m
  <2>1. n \in Nat /\ m \in Nat /\ ~(m < n) BY <1>2, <1>3, Zenon
  <2>. QED BY <2>1
<1>. QED BY <1>4, Zenon

LEMMA Greatest ==
    ASSUME NEW S \in SUBSET Nat, S # {}, NEW k \in Nat, \A m \in S : m <= k
    PROVE  \E n \in S : \A m \in S : m <= n
<1>. DEFINE U == {n \in Nat : \A m \in S : m <= n}
<1>1. U \in SUBSET Nat /\ k \in U BY Zenon
<1>2. PICK n \in U : \A m \in U : n <= m BY <1>1, Least, Zenon
<1>3. n \in S
  <2>. SUFFICES ASSUME n \notin S PROVE FALSE BY Zenon
  <2>1. \A m \in S : m < n BY <1>2
  <2>2. n \in Nat /\ n - 1 \in Nat
    <3>1. PICK m \in S : TRUE BY Zenon
    <3>. QED BY <2>1, <3>1
  <2>3. \A m \in S : m <= n - 1 BY <2>1, <2>2
  <2>4. n - 1 \in U BY <2>2, <2>3, Zenon
  <2>. QED BY <1>2, <2>2, <2>4
<1>. QED BY <1>2, <1>3, Zenon

LEMMA SupersededIsNat == ASSUME Types, NEW r \in Request, req[r].conv \in DOMAIN convs PROVE Superseded(r) \in Nat
<1>. DEFINE c == req[r].conv
            S == Replies(c)
<1>1. convs[c] \in ConvRow BY TableFacts, Zenon
<1>2. S \in SUBSET Nat /\ Len(convs[c].msgs) \in Nat /\ \A m \in S : m <= Len(convs[c].msgs)
  BY <1>1, MessageFacts DEF Replies, Active
<1>3. CASE S = {} BY <1>3, Zenon DEF Superseded
<1>4. CASE S # {}
  <2>. HIDE DEF S
  <2>1. \E n \in S : \A m \in S : m <= n BY <1>2, <1>4, Greatest, Zenon
  <2>2. Latest(S) \in S BY <2>1, Zenon DEF Latest
  <2>. QED BY <1>2, <2>2, Zenon DEF Superseded, S
<1>. QED BY <1>3, <1>4, Zenon

LEMMA NextOK == IInv /\ [Next]_vars => IInv'
<1>. SUFFICES ASSUME IInv, [Next]_vars PROVE IInv' BY Zenon
<1>1. CASE UNCHANGED vars
  <2>1. /\ convs' = convs /\ runs' = runs /\ results' = results /\ context' = context
        /\ req' = req /\ view' = view /\ cuts' = cuts
    BY <1>1, Zenon DEF vars, tableVars
  <2>2. Types' BY <2>1, Zenon DEF IInv, Types
  <2>3. RequestsOK' /\ OneHolder'
    <3>1. \A q \in Request : KindOfStep(req'[q]) /\ Knows(req[q])' BY <2>1, SameTablesKnown, Zenon
    <3>2. RequestsOK' BY <3>1, Zenon DEF RequestsOK, KindOfStep
    <3>. QED BY <2>1, <3>2, Zenon DEF IInv, OneHolder
  <2>4. RunsOK' /\ ResultsOK' /\ SupersededIsReplaced' BY <2>1, SameTables, Zenon
  <2>5. ViewOK' BY <2>1, Zenon DEF IInv, ViewOK, UnchangedIsCurrent, Items, Active
  <2>. QED BY <2>2, <2>3, <2>4, <2>5, Zenon DEF IInv
<1>2. ASSUME NEW r \in Request, Arrive(r) \/ Step(r) \/ CutOff(r) PROVE IInv'
  <2>1. CASE Arrive(r) BY <2>1, ArriveKeeps, Zenon
  <2>2. CASE CheckRetry(r) BY <2>2, CheckRetryKeeps, ZenonT(30)
  <2>3. CASE ReplayGeneration(r) BY <2>3, ReplayGenerationKeeps, Zenon
  <2>4. CASE ReplayCommand(r) BY <2>4, ReplayCommandKeeps, Zenon
  <2>5. CASE CreateConversation(r) BY <2>5, CreateConversationKeeps, Zenon
  <2>6. CASE PointChannel(r) BY <2>6, PointChannelKeeps, Zenon
  <2>7. CASE Lock(r) BY <2>7, LockKeeps, Zenon
  <2>8. CASE PrepareGeneration(r)
    <3>1. Types /\ req[r].conv \in DOMAIN convs BY Zenon DEF IInv, RequestsOK, Knows
    <3>2. Superseded(r) \in Nat BY <3>1, SupersededIsNat
    <3>. QED BY <2>8, <3>2, PrepareGenerationKeeps, Zenon
  <2>9. CASE GenerationCompletes(r) BY <2>9, GenerationCompletesKeeps, Zenon
  <2>10. CASE GenerationFails(r) BY <2>10, GenerationFailsKeeps, Zenon
  <2>11. CASE UndoLastTurn(r) BY <2>11, UndoLastTurnKeeps, Zenon
  <2>12. CASE CompressMessage(r) BY <2>12, CompressMessageKeeps, Zenon
  <2>13. CASE CompressEnds(r) BY <2>13, CompressEndsKeeps, Zenon
  <2>14. CASE ReadRevision(r) BY <2>14, ReadRevisionKeeps, Zenon
  <2>15. CASE ReadMessages(r) BY <2>15, ReadMessagesKeeps, Zenon
  <2>16. CASE CreateConflict(r) \/ PrepareConflict(r) \/ UndoRefused(r) \/ CompressFails(r) \/ CutOff(r)
    BY <2>16, RefusalKeeps, Zenon
  <2>. QED BY <1>2, <2>1, <2>2, <2>3, <2>4, <2>5, <2>6, <2>7, <2>8, <2>9, <2>10, <2>11,
              <2>12, <2>13, <2>14, <2>15, <2>16, ZenonT(30) DEF Step
<1>. QED BY <1>1, <1>2, Zenon DEF Next

(* The inductive invariant holds in every reachable state of the engine.      *)
THEOREM InductiveInvariant == Spec => []IInv
BY InitOK, NextOK, PTL DEF Spec

(* The rows and the local state of the requests keep their types.             *)
THEOREM TypeCorrect == Spec => []TypeOK
<1>1. IInv => TypeOK
  BY Zenon DEF IInv, Types, TypeOK, MsgRow, TurnRow, ConvRow, RunRow, ResultRow, RequestRow
<1>. QED BY <1>1, InductiveInvariant, PTL

(* One client turn id is one operation, however many copies of a request      *)
(* arrive and miss the replay together (replay_or_start,                      *)
(* replay_channel_command and the unique indexes).                            *)
THEOREM IdsNameOneOperation == Spec => []SameIdSameOperation
<1>1. IInv => SameIdSameOperation
  <2>. SUFFICES ASSUME IInv PROVE SameIdSameOperation BY Zenon
  <2>1. ASSUME NEW r \in Request, NEW q \in Request,
               req[r].id # 0, req[r].id = req[q].id, Kind(r) = Kind(q),
               req[r].answer = "completed", req[q].answer = "completed"
        PROVE  req[r].op = req[q].op
    <3>1. Knows(req[r]) /\ Knows(req[q]) BY Zenon DEF IInv, RequestsOK
    <3>2. CASE req[r].kind \in Generations BY <2>1, <3>1, <3>2, Zenon DEF IInv, Knows, RunsOK, Kind
    <3>3. CASE req[r].kind \notin Generations BY <2>1, <3>1, <3>3, Zenon DEF IInv, Knows, ResultsOK, Kind
    <3>. QED BY <3>2, <3>3, Zenon
  <2>. QED BY <2>1, Zenon DEF IInv, RunsOK, ResultsOK, SameIdSameOperation
<1>. QED BY <1>1, InductiveInvariant, PTL

(* A generation starts from the revision its sender expects, whatever ran     *)
(* while it waited for the conversation's lock (send_or_regenerate).          *)
THEOREM ExpectedRevisionIsHonoured == Spec => []ExpectedRevisionHonoured
<1>1. IInv => ExpectedRevisionHonoured BY Zenon DEF IInv, RunsOK, ExpectedRevisionHonoured
<1>. QED BY <1>1, InductiveInvariant, PTL

(* A superseded reply has a replacement, or a regeneration that never ended   *)
(* (prepare_generation, complete_generation).                                 *)
THEOREM HiddenRepliesAreReplaced == Spec => []SupersededIsReplaced
<1>1. IInv => SupersededIsReplaced BY Zenon DEF IInv
<1>. QED BY <1>1, InductiveInvariant, PTL

(* A client told "unchanged" holds the current history, unless a compression  *)
(* is under way or was cut short (GetHistory against every writer).           *)
THEOREM UnchangedHistoryIsCurrent == Spec => []UnchangedIsCurrent
<1>1. IInv => UnchangedIsCurrent BY Zenon DEF IInv, ViewOK
<1>. QED BY <1>1, InductiveInvariant, PTL
===============================================================================
