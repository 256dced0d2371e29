--------------------------- MODULE ImportTranscript ---------------------------
(****************************************************************************)
(* What the import of LegacyImport stores for one chat file: the loop of    *)
(* import_chat over the lines of the file, and export_workspace, which      *)
(* writes the messages back.                                                *)
(****************************************************************************)
EXTENDS LegacyImport, SequencesExt

CONSTANT MaxLines   \* bound: lines of a chat file

ASSUME LinesAssumption == MaxLines \in Nat

(* A line is a message of one of three roles, or is not JSON.  A message    *)
(* has its text, mes, and may have a display_text, which may be blank.      *)
Damaged == [role |-> "damaged"]
Line == [role : {"user", "assistant", "system"}, mes : {"said"},
         display : {"none", "shown", "blank"}] \cup {Damaged}

NoTranscript == [ordinal |-> 0, waiting |-> FALSE, complete |-> {}, messages |-> <<>>]

(* The INSERT of a message: mes is its original, display_text its prompt    *)
(* content, and the line is kept as source_raw_json.                        *)
Put(t, line, turn) ==
  [t EXCEPT !.messages = Append(@, [role |-> line.role, turn |-> turn,
                                    original |-> line.mes, prompt |-> line.display,
                                    raw |-> line])]

(* Mutant: a turn that was answered takes the next answer too.              *)
AnswerSameTurn(t, line) ==
  LET turn == IF t.ordinal > 0 THEN t.ordinal ELSE 1 IN
  [Put(t, line, turn) EXCEPT !.ordinal = turn, !.waiting = FALSE,
                             !.complete = @ \cup {turn}]

(* An assistant message completes the turn that waits for one, or makes a   *)
(* turn of its own.                                                         *)
AnswerLine(t, line) ==
  LET turn == IF t.waiting THEN t.ordinal ELSE t.ordinal + 1 IN
  [Put(t, line, turn) EXCEPT !.ordinal = turn, !.waiting = FALSE,
                             !.complete = @ \cup {turn}]

(* One line of the loop of import_chat.                                     *)
AddLine(t, line) ==
  CASE line.role = "damaged" -> t
    [] line.role = "system" -> Put(t, line, 0)
    [] line.role = "user" -> [Put(t, line, t.ordinal + 1) EXCEPT
                                !.ordinal = t.ordinal + 1, !.waiting = TRUE]
    [] line.role = "assistant" -> AnswerLine(t, line)

(* The turns and messages import_chat stores; ordinal is the revision.      *)
Transcript(lines) == FoldLeft(AddLine, NoTranscript, lines)

(* export_workspace writes the messages back in order: the stored line with *)
(* its role, and with its mes replaced by the prompt content, blank or not. *)
Export(t) ==
  [i \in DOMAIN t.messages |->
     LET m == t.messages[i] IN
     [m.raw EXCEPT !.role = m.role,
                   !.mes = IF m.prompt = "none" THEN m.original ELSE m.prompt]]

(* Message::prompt_text, what the model is given: the prompt content unless *)
(* it is blank.                                                             *)
PromptText(m) == IF m.prompt \in {"none", "blank"} THEN m.original ELSE m.prompt

Turns(t) == [i \in DOMAIN t.messages |-> <<t.messages[i].role, t.messages[i].turn>>]

(* The messages of a turn, as indices into the transcript.                  *)
OfTurn(t, n, role) ==
  {i \in DOMAIN t.messages : t.messages[i].turn = n /\ t.messages[i].role = role}

(* What import_chat stores is the chat: the readable messages in order, in  *)
(* turns numbered 1 .. revision without a gap, each with at most one        *)
(* question and one answer, the answer directly after its question but for  *)
(* system messages, complete exactly when it has an answer.  What           *)
(* export_workspace writes imports to the same turns, and to messages that  *)
(* give the model the same text unless the display_text was blank; the      *)
(* original of a message with a display_text is lost, and a second export   *)
(* and import change nothing more (migration/mod.rs:554-657, 687-716,       *)
(* conversation.rs:141-147).  It is a statement about every file the import *)
(* may read, made as the import starts on an empty database.                *)
TranscriptKept ==
  run.at = "handles" /\ accounts = [a \in Account |-> Missing] =>
  \A lines \in SeqOf(Line, MaxLines) :
    LET t == Transcript(lines)
        again == Transcript(Export(t))
        Readable(l) == l # Damaged
    IN
    /\ [i \in DOMAIN t.messages |-> t.messages[i].raw] = SelectSeq(lines, Readable)
    /\ Turns(again) = Turns(t) /\ again.complete = t.complete
    /\ Export(again) = Export(t)
    /\ \A i \in DOMAIN t.messages :
         /\ PromptText(again.messages[i]) = PromptText(t.messages[i])
               <=> t.messages[i].prompt # "blank"
         /\ again.messages[i].original = t.messages[i].original
               <=> t.messages[i].prompt = "none"
    /\ \A i, j \in DOMAIN t.messages :
         i < j /\ t.messages[j].turn # 0 => t.messages[i].turn <= t.messages[j].turn
    /\ \A n \in 1..t.ordinal :
         LET asks == OfTurn(t, n, "user")
             answers == OfTurn(t, n, "assistant")
         IN
         /\ asks \cup answers # {}
         /\ Cardinality(asks) <= 1 /\ Cardinality(answers) <= 1
         /\ n \in t.complete <=> answers # {}
         /\ \A i \in answers :
              asks = {} => \A h \in DOMAIN t.messages :
                h < i /\ t.messages[h].role = "user"
                  => \E k \in h + 1 .. i - 1 : t.messages[k].role = "assistant"
==============================================================================
