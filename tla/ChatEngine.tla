------------------------------ MODULE ChatEngine ------------------------------
(* SqliteChatEngine, the engine that keeps its conversations in SQLite:       *)
(* concurrent requests to start, select, send, regenerate, retry, undo,       *)
(* compress and read, each a chain of transactions with model calls in        *)
(* between.  The replay of a client_turn_id is looked up before the           *)
(* conversation's lock is taken; a request may be cut off between two steps,  *)
(* by a crash, a dropped connection, or a statement or event that fails.      *)
(*                                                                            *)
(* A message stands for its text; `brief` says that prompt_content replaces   *)
(* the text in prompts and histories.                                         *)
EXTENDS Naturals, Sequences, FiniteSets

CONSTANTS NumRequests,  \* bound: requests
          Kinds,        \* the kinds of request
          NumIds,       \* bound: client turn ids; 0 stands for None
          MaxConvs,     \* bound: conversations
          MaxCuts       \* bound: requests cut off

Request == 1 .. NumRequests
Id == 0 .. NumIds
Generations == {"send", "regenerate", "retry"}

ASSUME KindsAssumption ==
    Kinds \subseteq Generations \union {"start", "select", "character", "undo", "compress", "history"}
ASSUME BoundsAssumption ==
    NumRequests \in Nat /\ NumIds \in Nat /\ MaxConvs \in Nat \ {0} /\ MaxCuts \in Nat

VARIABLES convs,    \* conversations, with their turns and messages
          runs,     \* generation_runs
          results,  \* channel_command_results
          context,  \* the conversation of the channel (channel_contexts); 0: none
          req,      \* req[r]: the local state of a request
          view,     \* what a client that polls conversation 1 has seen of it
          cuts

tableVars == <<convs, runs, results>>
vars == <<tableVars, context, req, view, cuts>>

Opening == [turn |-> 1, role |-> "assistant", status |-> "active", sup |-> 0, brief |-> FALSE]
NewConv == [rev |-> 1, turns |-> <<"complete">>, msgs |-> <<Opening>>, torn |-> FALSE]

(* pc: the next step; exp: expected_revision, 0 for None; rev: the revision   *)
(* read, then revision_after_a; op: the run or result row; sup:               *)
(* supersedes_message_id; todo: messages still to compress; answer: the       *)
(* status of the ChatOutcome.                                                 *)
NoRequest == [pc |-> "new", kind |-> "none", id |-> 0, conv |-> 1, exp |-> 0, rev |-> 0,
              op |-> 0, sup |-> 0, todo |-> {}, answer |-> "none"]

Locked == {"prepare", "stream", "compress", "remove"}

TypeOK ==
    /\ convs \in Seq([rev : Nat, turns : Seq({"pending", "complete", "failed", "revoked"}),
                      msgs : Seq([turn : Nat, role : {"user", "assistant"},
                                  status : {"active", "revoked", "superseded"},
                                  sup : Nat, brief : BOOLEAN]),
                      torn : BOOLEAN])
    /\ runs \in Seq([conv : 1 .. MaxConvs, kind : Generations, id : Id, turn : Nat, sup : Nat,
                     exp : Nat, base : Nat, status : {"started", "completed", "failed"}])
    /\ results \in Seq([kind : {"start", "undo"}, id : Id, conv : 1 .. MaxConvs])
    /\ context \in 0 .. Len(convs)
    /\ req \in [Request -> [pc : {"new", "check", "replay", "lock", "read", "create",
                                  "context", "done"} \union Locked,
                            kind : Kinds \union {"none"}, id : Id, conv : 1 .. MaxConvs,
                            exp : Nat, rev : Nat, op : Nat, sup : Nat, todo : SUBSET Nat,
                            answer : {"none", "completed", "in_progress", "error"}]]
    /\ view.rev \in Nat
    /\ cuts \in 0 .. MaxCuts

(* One conversation has been started.                                         *)
Init ==
    /\ convs = <<NewConv>>
    /\ runs = <<>> /\ results = <<>>
    /\ context = 1
    /\ req = [r \in Request |-> NoRequest]
    /\ view = [rev |-> 0, items |-> {}]
    /\ cuts = 0

-----------------------------------------------------------------------------
Kind(r) == req[r].kind
At(r, pc) == req[r].pc = pc
Conv(r) == convs[req[r].conv]

Set(r, new) == req' = [req EXCEPT ![r] = new]
Goto(r, pc) == Set(r, [req[r] EXCEPT !.pc = pc])
Answer(r, answer, op) == Set(r, [req[r] EXCEPT !.pc = "done", !.answer = answer, !.op = op])

(* load_active_messages, and what history_items shows of them.                *)
Active(c) == {m \in DOMAIN convs[c].msgs : convs[c].msgs[m].status = "active"}
Items(c) == {<<m, convs[c].msgs[m].brief>> : m \in Active(c)}

Latest(S) == CHOOSE m \in S : \A n \in S : n <= m
Earliest(S) == CHOOSE m \in S : \A n \in S : m <= n

(* A request arrives: for a conversation there is, with or without a client   *)
(* turn id, with or without the revision its sender saw last.                 *)
Arrive(r) ==
    /\ At(r, "new")
    /\ \A q \in Request : q < r => ~At(q, "new")
    /\ \E k \in Kinds, id \in Id, c \in DOMAIN convs, exp \in {0, convs[1].rev} :
          /\ k \in {"select", "character", "compress", "history"} => id = 0
          /\ k \notin {"send", "regenerate", "undo"} \/ c # 1 => exp = 0
          /\ k \in {"start", "character"} => c = 1
          /\ k = "history" =>
                c = 1 /\ ~\E q \in Request : Kind(q) = "history" /\ ~At(q, "done")
          /\ Set(r, [NoRequest EXCEPT
                !.kind = k, !.id = id, !.conv = c, !.exp = exp,
                !.pc = CASE k = "retry" -> "check" [] k = "compress" -> "lock"
                         [] k \in {"select", "character"} -> "context"
                         [] k = "history" -> "read" [] OTHER -> "replay"])
    /\ UNCHANGED <<tableVars, context, view, cuts>>

(* RetryGeneration: the operation named must be a failed one.                 *)
CheckRetry(r) ==
    /\ At(r, "check")
    /\ IF \E k \in DOMAIN runs : runs[k].conv = req[r].conv /\ runs[k].status = "failed"
       THEN Goto(r, "replay")
       ELSE Answer(r, "error", 0)
    /\ UNCHANGED <<tableVars, context, view, cuts>>

-----------------------------------------------------------------------------
(* Idempotency: rows of this kind with this client turn id.                   *)
RunsOf(r) == {k \in DOMAIN runs : req[r].id # 0 /\ runs[k].kind = Kind(r) /\ runs[k].id = req[r].id}
ResultsOf(r) ==
    {k \in DOMAIN results : req[r].id # 0 /\ results[k].kind = Kind(r) /\ results[k].id = req[r].id}

(* replay_or_start: the answer of the run there is, or on to the lock.        *)
ReplayGeneration(r) ==
    /\ At(r, "replay") /\ Kind(r) \in Generations
    /\ IF RunsOf(r) = {} THEN Goto(r, "lock")
       ELSE \E k \in RunsOf(r) :
              Answer(r, CASE runs[k].status = "completed" -> "completed"
                          [] runs[k].status = "started" -> "in_progress"
                          [] runs[k].status = "failed" -> "error", k)
    /\ UNCHANGED <<tableVars, context, view, cuts>>

(* replay_channel_command; a replayed start points the channel to its         *)
(* conversation again.                                                        *)
ReplayCommand(r) ==
    /\ At(r, "replay") /\ Kind(r) \in {"start", "undo"}
    /\ \/ ResultsOf(r) = {} /\ Goto(r, IF Kind(r) = "start" THEN "create" ELSE "lock")
       \/ \E k \in ResultsOf(r) :
             IF Kind(r) = "start"
             THEN Set(r, [req[r] EXCEPT !.pc = "context", !.op = k, !.conv = results[k].conv])
             ELSE Answer(r, "completed", k)
    /\ UNCHANGED <<tableVars, context, view, cuts>>

-----------------------------------------------------------------------------
(* start_conversation: conversation, turn, opening and result in one          *)
(* transaction, which the unique index on the client turn id may roll back.   *)
CreateConversation(r) ==
    /\ At(r, "create")
    /\ ResultsOf(r) = {} /\ Len(convs) < MaxConvs
    /\ convs' = Append(convs, NewConv)
    /\ IF req[r].id = 0 THEN UNCHANGED results
       ELSE results' = Append(results,
              [kind |-> "start", id |-> req[r].id, conv |-> Len(convs) + 1])
    /\ Set(r, [req[r] EXCEPT !.pc = "context", !.conv = Len(convs) + 1,
                             !.op = IF req[r].id = 0 THEN 0 ELSE Len(results) + 1])
    /\ UNCHANGED <<runs, context, view, cuts>>

CreateConflict(r) ==
    /\ At(r, "create")
    /\ ResultsOf(r) # {}
    /\ Answer(r, "error", 0)
    /\ UNCHANGED <<tableVars, context, view, cuts>>

(* persist_channel_context, for SelectConversation and, in a statement of its *)
(* own after the commit, for StartConversation; SelectCharacter leaves the    *)
(* channel without a conversation.                                            *)
PointChannel(r) ==
    /\ At(r, "context")
    /\ context' = IF Kind(r) = "character" THEN 0 ELSE req[r].conv
    /\ Answer(r, "completed", req[r].op)
    /\ UNCHANGED <<tableVars, view, cuts>>

-----------------------------------------------------------------------------
(* ConversationLocks::lock, the conversation, and its expected revision.      *)
Free(c) == \A q \in Request : req[q].conv = c => req[q].pc \notin Locked

(* Mutant: the revision a sender expects is compared before the lock is held. *)
RevisionCheckedEarly(r) == TRUE

RevisionAccepted(r) == req[r].exp \in {0, Conv(r).rev}

AfterLock(r) ==
    CASE Kind(r) \in Generations -> "prepare" [] Kind(r) = "undo" -> "remove"
      [] OTHER -> "compress"

(* compress: the replies older than the kept ones, not yet brief.             *)
Targets(c, keep) ==
    LET kept == {m \in Active(c) : Cardinality({n \in Active(c) : n >= m}) <= keep}
    IN  {m \in Active(c) \ kept : convs[c].msgs[m].role = "assistant" /\ ~convs[c].msgs[m].brief}

Lock(r) ==
    /\ At(r, "lock")
    /\ Free(req[r].conv)
    /\ IF ~RevisionAccepted(r) THEN Answer(r, "error", 0)
       ELSE \E keep \in IF Kind(r) = "compress" THEN {0, 1} ELSE {0} :
              LET todo == IF Kind(r) = "compress" THEN Targets(req[r].conv, keep) ELSE {}
              IN  IF Kind(r) = "compress" /\ todo = {} THEN Answer(r, "completed", 0)
                  ELSE Set(r, [req[r] EXCEPT !.pc = AfterLock(r), !.rev = Conv(r).rev, !.todo = todo])
    /\ UNCHANGED <<tableVars, context, view, cuts>>

-----------------------------------------------------------------------------
(* prepare_generation, transaction A: the reply to regenerate is superseded,  *)
(* and turn, user message and run are inserted; the revision counts up.       *)
Replies(c) == {m \in Active(c) : convs[c].msgs[m].role = "assistant"}

Superseded(r) ==
    IF Kind(r) = "regenerate" /\ Replies(req[r].conv) # {} THEN Latest(Replies(req[r].conv)) ELSE 0

With(msgs, m, status) ==
    [n \in DOMAIN msgs |-> IF n = m THEN [msgs[n] EXCEPT !.status = status] ELSE msgs[n]]

Message(turn, role, sup) ==
    [turn |-> turn, role |-> role, status |-> "active", sup |-> sup, brief |-> FALSE]

(* Mutant: no unique index on the client turn id of a run.                    *)
RunsOfNoOne(r) == {}

RunConflicts(r) == RunsOf(r)

PrepareGeneration(r) ==
    /\ At(r, "prepare")
    /\ RunConflicts(r) = {}
    /\ LET c == req[r].conv
           turn == Len(convs[c].turns) + 1
           base == With(convs[c].msgs, Superseded(r), "superseded")
       IN  /\ convs' = [convs EXCEPT ![c] =
                [rev |-> req[r].rev + 1, torn |-> FALSE, turns |-> Append(convs[c].turns, "pending"),
                 msgs |-> IF Kind(r) = "send" THEN Append(base, Message(turn, "user", 0)) ELSE base]]
           /\ runs' = Append(runs, [conv |-> c, kind |-> Kind(r), id |-> req[r].id, turn |-> turn,
                sup |-> Superseded(r), exp |-> req[r].exp, base |-> convs[c].rev,
                status |-> "started"])
           /\ Set(r, [req[r] EXCEPT !.pc = "stream", !.rev = @ + 1, !.sup = Superseded(r),
                                    !.op = Len(runs) + 1])
    /\ UNCHANGED <<results, context, view, cuts>>

PrepareConflict(r) ==
    /\ At(r, "prepare")
    /\ RunConflicts(r) # {}
    /\ Answer(r, "error", 0)
    /\ UNCHANGED <<tableVars, context, view, cuts>>

(* complete_generation, transaction B.                                        *)
Finish(r, status, msgs) ==
    LET c == req[r].conv
        k == req[r].op
    IN  /\ convs' = [convs EXCEPT ![c] =
              [rev |-> req[r].rev + 1, torn |-> FALSE, msgs |-> msgs,
               turns |-> [convs[c].turns EXCEPT
                  ![runs[k].turn] = IF status = "completed" THEN "complete" ELSE "failed"]]]
        /\ runs' = [runs EXCEPT ![k].status = status]
        /\ Answer(r, IF status = "completed" THEN "completed" ELSE "error", k)
        /\ UNCHANGED <<results, context, view, cuts>>

GenerationCompletes(r) ==
    /\ At(r, "stream")
    /\ Conv(r).rev = req[r].rev
    /\ Finish(r, "completed",
              Append(Conv(r).msgs, Message(runs[req[r].op].turn, "assistant", req[r].sup)))

(* Mutant: the superseded reply is not restored.                              *)
GenerationFailsForGood(r) ==
    /\ At(r, "stream")
    /\ Conv(r).rev = req[r].rev
    /\ Finish(r, "failed", Conv(r).msgs)

(* The model's call fails: the reply to regenerate is active again.           *)
GenerationFails(r) ==
    /\ At(r, "stream")
    /\ Conv(r).rev = req[r].rev
    /\ Finish(r, "failed", With(Conv(r).msgs, req[r].sup, "active"))

-----------------------------------------------------------------------------
(* Mutant: the statement that counts the revision is missing.                 *)
NotBumped(rev) == rev

(* UPDATE conversations SET revision = revision + 1, in undo and compress.    *)
Bumped(rev) == rev + 1

(* undo: the last turn that is not revoked, with its active messages.         *)
Undoable(c) == {t \in DOMAIN convs[c].turns : convs[c].turns[t] # "revoked"}

(* The conversation with its last turn revoked.                               *)
Undone(c) ==
    LET t == Latest(Undoable(c))
    IN  [rev |-> Bumped(convs[c].rev), torn |-> FALSE,
         turns |-> [convs[c].turns EXCEPT ![t] = "revoked"],
         msgs |-> [m \in DOMAIN convs[c].msgs |->
            IF convs[c].msgs[m].turn = t /\ m \in Active(c)
            THEN [convs[c].msgs[m] EXCEPT !.status = "revoked"] ELSE convs[c].msgs[m]]]

UndoLastTurn(r) ==
    /\ At(r, "remove")
    /\ Undoable(req[r].conv) # {} /\ ResultsOf(r) = {}
    /\ convs' = [convs EXCEPT ![req[r].conv] = Undone(req[r].conv)]
    /\ IF req[r].id = 0 THEN UNCHANGED results
       ELSE results' = Append(results, [kind |-> "undo", id |-> req[r].id, conv |-> req[r].conv])
    /\ Answer(r, "completed", IF req[r].id = 0 THEN 0 ELSE Len(results) + 1)
    /\ UNCHANGED <<runs, context, view, cuts>>

UndoRefused(r) ==
    /\ At(r, "remove")
    /\ Undoable(req[r].conv) = {} \/ ResultsOf(r) # {}
    /\ Answer(r, "error", 0)
    /\ UNCHANGED <<tableVars, context, view, cuts>>

-----------------------------------------------------------------------------
(* compress: one model call and one UPDATE per reply, outside a transaction;  *)
(* a digest that is empty or no shorter is dropped.                           *)
Digested(c, m) == [convs[c] EXCEPT !.msgs[m].brief = TRUE, !.torn = TRUE]

CompressMessage(r) ==
    /\ At(r, "compress")
    /\ req[r].todo # {}
    /\ LET m == Earliest(req[r].todo)
       IN  /\ \/ convs' = [convs EXCEPT ![req[r].conv] = Digested(req[r].conv, m)]
              \/ UNCHANGED convs
           /\ Set(r, [req[r] EXCEPT !.todo = @ \ {m}])
    /\ UNCHANGED <<runs, results, context, view, cuts>>

(* The model's call fails; what is written stays written.                     *)
CompressFails(r) ==
    /\ At(r, "compress")
    /\ req[r].todo # {}
    /\ Answer(r, "error", 0)
    /\ UNCHANGED <<tableVars, context, view, cuts>>

CompressEnds(r) ==
    /\ At(r, "compress")
    /\ req[r].todo = {}
    /\ convs' = [convs EXCEPT ![req[r].conv].rev = Bumped(@), ![req[r].conv].torn = FALSE]
    /\ Answer(r, "completed", 0)
    /\ UNCHANGED <<runs, results, context, view, cuts>>

-----------------------------------------------------------------------------
(* GetHistory: the conversation first, its messages next; a client that knows *)
(* the revision is told "unchanged".                                          *)
ReadRevision(r) ==
    /\ At(r, "read") /\ req[r].rev = 0
    /\ Set(r, [req[r] EXCEPT !.rev = Conv(r).rev])
    /\ UNCHANGED <<tableVars, context, view, cuts>>

ReadMessages(r) ==
    /\ At(r, "read") /\ req[r].rev # 0
    /\ view' = IF view.rev = req[r].rev THEN view
               ELSE [rev |-> req[r].rev, items |-> Items(req[r].conv)]
    /\ Answer(r, "completed", 0)
    /\ UNCHANGED <<tableVars, context, cuts>>

(* A request is cut off, and its lock with it: the process ends, its client   *)
(* goes away, or a statement or a progress event fails.  Before it holds the  *)
(* lock or has written anything, that changes nothing.                        *)
CutOff(r) ==
    /\ req[r].pc \in Locked \union {"context"}
    /\ cuts < MaxCuts
    /\ cuts' = cuts + 1
    /\ Answer(r, "error", 0)
    /\ UNCHANGED <<tableVars, context, view>>

Step(r) ==
    \/ CheckRetry(r) \/ ReplayGeneration(r) \/ ReplayCommand(r)
    \/ CreateConversation(r) \/ CreateConflict(r) \/ PointChannel(r)
    \/ Lock(r) \/ PrepareGeneration(r) \/ PrepareConflict(r)
    \/ GenerationCompletes(r) \/ GenerationFails(r)
    \/ UndoLastTurn(r) \/ UndoRefused(r)
    \/ CompressMessage(r) \/ CompressFails(r) \/ CompressEnds(r)
    \/ ReadRevision(r) \/ ReadMessages(r)

Next ==
    \E r \in Request : Arrive(r) \/ Step(r) \/ CutOff(r)

Spec == Init /\ [][Next]_vars

-----------------------------------------------------------------------------
(* One client turn id is one operation, also when the same request arrives    *)
(* twice at once and both miss the replay: at most one row has it, and        *)
(* requests that are answered "completed" name the same row (replay_or_start, *)
(* replay_channel_command, the unique indexes).                               *)
SameIdSameOperation ==
    /\ \A j, k \in DOMAIN runs :
          runs[j].id # 0 /\ runs[j].id = runs[k].id /\ runs[j].kind = runs[k].kind => j = k
    /\ \A j, k \in DOMAIN results :
          results[j].id = results[k].id /\ results[j].kind = results[k].kind => j = k
    /\ \A r, q \in Request :
          /\ req[r].id # 0 /\ req[r].id = req[q].id /\ Kind(r) = Kind(q)
          /\ req[r].answer = "completed" /\ req[q].answer = "completed"
          => req[r].op = req[q].op

(* A generation that names the revision its sender saw starts from exactly    *)
(* that revision, whatever ran while it waited for the lock                   *)
(* (send_or_regenerate).                                                      *)
ExpectedRevisionHonoured ==
    \A k \in DOMAIN runs : runs[k].exp # 0 => runs[k].base = runs[k].exp

(* A reply is hidden only by the reply that replaced it or by a regeneration  *)
(* that never came to its end: one that failed restored it                    *)
(* (prepare_generation, complete_generation).                                 *)
SupersededIsReplaced ==
    \A c \in DOMAIN convs : \A m \in DOMAIN convs[c].msgs :
        convs[c].msgs[m].status = "superseded" =>
            \/ \E n \in DOMAIN convs[c].msgs : convs[c].msgs[n].sup = m
            \/ \E k \in DOMAIN runs :
                  runs[k].conv = c /\ runs[k].sup = m /\ runs[k].status = "started"

(* A client that is told "unchanged" has the current history: what it saw at  *)
(* a revision is what the conversation shows at that revision, unless a       *)
(* compression is under way or was cut short (GetHistory against every        *)
(* writer).                                                                   *)
UnchangedIsCurrent ==
    view.rev = convs[1].rev /\ ~convs[1].torn => view.items = Items(1)
=============================================================================
