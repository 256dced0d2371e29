-------------------------------- MODULE Panels --------------------------------
(* The inline keyboards of one Telegram chat: the panel a command opens, the  *)
(* tokens its buttons are bound to, and the callback a press starts, with the *)
(* tables telegram_panel_slots and telegram_panel_effects, the keyboards      *)
(* Telegram shows and the channel context the selections change.              *)
(*                                                                            *)
(* The delivery lock makes the updates of the chat run one at a time.  A      *)
(* press may name any keyboard the chat ever showed: a client may press       *)
(* twice, press what was just replaced, or the inbox may hand the same        *)
(* callback over again after a crash, which the code cannot tell from a       *)
(* second press.  A press that is refused changes nothing, so the expiry of   *)
(* tokens, which only adds refusals, is left out; so are the help and status  *)
(* panels, which hold no state: home stands for them.                         *)
EXTENDS Naturals, Sequences, FiniteSets

CONSTANTS
    User,         \* users of the chat, bound to the account of the bot
    NumItems,     \* length of a list of characters, of chats, of recent chats
    PageSize,     \* PAGE_SIZE: items of a page
    Provider,     \* the name of a model provider, as its parts between colons
    Model,        \* the names of its models, each as its parts between colons
    Commands,     \* the panels the user's commands open
    MaxPanels,    \* bound: panel messages
    MaxPresses,   \* bound: presses that are accepted
    MaxChanges,   \* bound: changes of SillyTavern's lists
    MaxFaults     \* bound: crashes, failed statements and calls

Purpose == {"chat", "comp"}
Item == 0 .. NumItems - 1
Pages == 0 .. NumItems \div PageSize

ASSUME PanelBounds ==
    /\ NumItems \in Nat \ {0} /\ PageSize \in Nat \ {0} /\ MaxPanels \in Nat
    /\ MaxPresses \in Nat /\ MaxChanges \in Nat /\ MaxFaults \in Nat
ASSUME NamesAreParts == Provider \in Seq(STRING) /\ Model \subseteq Seq(STRING)

VARIABLES
    ctx,       \* channel_contexts: the character, whether a chat is open, the models
    version,   \* of the lists SillyTavern answers with
    renders,   \* the keyboards shown so far, with their callback_token rows
    acts,      \* acts[t]: callback_action row of a consumed token, and runs of its handler
    slots,     \* slots[p]: telegram_panel_slots
    keyboard,  \* keyboard[p]: the render message p, sent for panel p, shows; 0: none
    job,       \* the update being processed
    faults

vars == <<ctx, version, renders, acts, slots, keyboard, job, faults>>

-----------------------------------------------------------------------------
(* CallbackAction, its template text and the buttons of a panel.              *)

Act(do) == [do |-> do, page |-> 0, index |-> 0, purpose |-> "chat", name |-> <<>>]
OnPage(do, page) == [Act(do) EXCEPT !.page = page]
Pick(do, page, i) == [Act(do) EXCEPT !.page = page, !.index = i]
For(do, purpose) == [Act(do) EXCEPT !.purpose = purpose]
Select(purpose, m) == [For("sel_mdl_id", purpose) EXCEPT !.name = m]

(* legacy_data: the parts of the template text, cut at its colons.            *)
LegacyData(a) ==
    <<"cb", a.do>> \o
    CASE a.do \in {"chars", "hist", "recent"} -> <<"page">>
      [] a.do \in {"sel_char", "sel_hist", "sel_recent"} -> <<"page", "index">>
      [] a.do = "prov" -> <<a.purpose, "page">>
      [] a.do = "rst_mdl" -> <<a.purpose>>
      [] a.do = "p_mdl" -> <<a.purpose>> \o Provider \o <<"page">>
      [] a.do = "sel_mdl_id" -> <<a.purpose>> \o Provider \o a.name
      [] OTHER -> <<>>

(* parse_legacy_callback_data knows an action by its name and its number of   *)
(* parts; a template it cannot parse is left on the button as it is.          *)
Parses(a) ==
    Len(LegacyData(a)) = CASE a.do \in {"chars", "hist", "recent", "rst_mdl"} -> 3
                           [] a.do \in {"sel_char", "sel_hist", "sel_recent", "prov"} -> 4
                           [] a.do \in {"p_mdl", "sel_mdl_id"} -> 5
                           [] OTHER -> 2

(* render_characters and render_history are handed the whole list and put all *)
(* of it on every page; render_recent shows the items of its page.            *)
PageButtons(v) ==
    {OnPage(v.do, p) : p \in {q \in Pages : q * PageSize < NumItems
                                         /\ (q + 1 = v.page \/ q = v.page + 1)}}

Buttons(v) ==
    (IF v.do = "home" THEN {} ELSE {Act("home")}) \union
    CASE v.do = "home" ->
            {Act("chars"), Act("hist"), Act("recent"), Act("now"), Act("settings")}
      [] v.do = "settings" -> {For("prov", q) : q \in Purpose}
      [] v.do = "chars" -> {Pick("sel_char", v.page, i) : i \in Item} \union PageButtons(v)
      [] v.do = "hist" -> {Pick("sel_hist", v.page, i) : i \in Item} \union PageButtons(v)
      [] v.do = "recent" ->
            {Pick("sel_recent", v.page, i) : i \in {j \in Item :
                j < PageSize /\ v.page * PageSize + j < NumItems}} \union PageButtons(v)
      [] v.do = "now" -> {Act("now"), Act("hist")}
      [] v.do = "prov" -> {For("p_mdl", v.purpose), For("rst_mdl", v.purpose)}
      [] v.do = "p_mdl" ->
            {Select(v.purpose, m) : m \in Model} \union {For("prov", v.purpose)}

Views == {"home", "settings", "chars", "hist", "recent", "now", "prov", "p_mdl"}
Lists == {"sel_char", "sel_hist", "sel_recent"}
Action == [do : Views \union Lists \union {"sel_mdl_id", "rst_mdl"}, page : Pages,
           index : Item, purpose : Purpose, name : Model \union {<<>>}]

ASSUME CommandsOpenPanels == Commands \subseteq {v \in Action : v.do \in Views}

-----------------------------------------------------------------------------
NoAvatar == <<>>
Avatar == {<<v, i>> : v \in 0 .. MaxChanges, i \in Item}

Nothing == Act("none")
(* user, by, act: who pressed which button of which render; item, avatar:     *)
(* what a selection opened, and the character it was looked up for; view: the *)
(* panel to show; panel, new: the panel at work and its new render; old: the  *)
(* panel a new one takes over from.                                           *)
Idle == [pc |-> "idle", user |-> "none", by |-> 0, act |-> Nothing, item |-> 0,
         avatar |-> NoAvatar, view |-> Nothing, panel |-> 0, new |-> 0, old |-> 0]
NoSlot == [saved |-> FALSE, active |-> FALSE, rev |-> 0]

Panel == 1 .. MaxPanels
Render == 1 .. Len(renders)

TypeOK ==
    /\ ctx \in [avatar : Avatar \union {NoAvatar}, chat : BOOLEAN,
                models : [Purpose -> Model \union {<<>>}]]
    /\ version \in 0 .. MaxChanges
    /\ renders \in Seq([panel : Panel, rev : Nat, user : User, view : Action,
                        avatar : Avatar \union {NoAvatar}, version : 0 .. MaxChanges,
                        effect : {"sending", "sent", "failed"}])
    /\ \A t \in DOMAIN acts : t[1] \in Render /\ t[2] \in Buttons(renders[t[1]].view)
    /\ \A t \in DOMAIN acts : acts[t] \in
          [status : {"pending", "sending", "sent", "failed", "unknown"}, runs : Nat]
    /\ slots \in [Panel -> [saved : BOOLEAN, active : BOOLEAN, rev : Nat]]
    /\ keyboard \in Seq(0 .. Len(renders)) /\ Len(keyboard) <= MaxPanels
    /\ job.pc \in {"idle", "claim", "act", "render", "complete", "fail", "replace",
                   "confirm", "create", "keys", "save", "retire"}
    /\ faults \in 0 .. MaxFaults

Init ==
    /\ ctx = [avatar |-> NoAvatar, chat |-> FALSE, models |-> [q \in Purpose |-> <<>>]]
    /\ version = 0 /\ renders = <<>> /\ acts = <<>>
    /\ slots = [p \in Panel |-> NoSlot]
    /\ keyboard = <<>>
    /\ job = Idle /\ faults = 0

Fault == faults < MaxFaults /\ faults' = faults + 1
At(pc) == job.pc = pc
Goto(pc) == job' = [job EXCEPT !.pc = pc]
Leave == job' = Idle

tables == <<renders, acts, slots>>
world == <<ctx, version>>

(* find_active_slot_for_scope: 0 when the chat has no active panel.           *)
ActiveSlot ==
    IF \E p \in Panel : slots[p].active
    THEN CHOOSE p \in Panel : slots[p].active ELSE 0

(* Whether a panel can be drawn: history needs a character, the current chat  *)
(* a character and a chat; the answer is a line of text otherwise.            *)
Drawable(v) ==
    /\ v.do \in {"hist", "now"} => ctx.avatar # NoAvatar
    /\ v.do = "now" => ctx.chat

(* bind_panel_callbacks gives every button a token row bound to the panel, its *)
(* message, the user and a revision; then the keyboard is edited in.  A row    *)
(* whose edit is not made belongs to no button and is not kept here.           *)
Show(p, rev, effect) ==
    /\ renders' = Append(renders,
          [panel |-> p, rev |-> rev, user |-> job.user, view |-> job.view,
           avatar |-> ctx.avatar, version |-> version, effect |-> effect])
    /\ keyboard' = [keyboard EXCEPT ![p] = Len(renders) + 1]

-----------------------------------------------------------------------------
(* A command that opens a panel: process_and_deliver on a message.            *)

(* dispatch_update draws the panel.  A list SillyTavern refuses ends the      *)
(* update with an error text and changes nothing.                             *)
Command(u, v) ==
    /\ At("idle")
    /\ v \in Commands /\ Drawable(v) /\ Len(keyboard) < MaxPanels
    /\ job' = [Idle EXCEPT !.pc = "create", !.user = u, !.view = v, !.old = ActiveSlot]
    /\ UNCHANGED <<world, tables, keyboard, faults>>

(* The message is sent without its keyboard.                                  *)
CreatePanel ==
    /\ At("create")
    /\ keyboard' = Append(keyboard, 0)
    /\ job' = [job EXCEPT !.pc = "keys", !.panel = Len(keyboard) + 1]
    /\ UNCHANGED <<world, tables, faults>>

AddKeyboard ==
    /\ At("keys")
    /\ Show(job.panel, 0, "sending")
    /\ job' = [job EXCEPT !.pc = "save", !.new = Len(renders) + 1]
    /\ UNCHANGED <<world, acts, slots, faults>>

(* Mutant: the slot of an earlier panel stays active. *)
SaveSlotKeepsOld ==
    /\ At("save")
    /\ slots' = [slots EXCEPT ![job.panel] = [saved |-> TRUE, active |-> TRUE, rev |-> 0]]
    /\ renders' = [renders EXCEPT ![job.new].effect = "sent"]
    /\ Goto("retire")
    /\ UNCHANGED <<world, acts, keyboard, faults>>

(* save_slot: one transaction that puts the chat's other panels out of use.   *)
SaveSlot ==
    /\ At("save")
    /\ slots' = [p \in Panel |->
                   IF p = job.panel THEN [saved |-> TRUE, active |-> TRUE, rev |-> 0]
                                    ELSE [slots[p] EXCEPT !.active = FALSE]]
    /\ renders' = [renders EXCEPT ![job.new].effect = "sent"]
    /\ Goto("retire")
    /\ UNCHANGED <<world, acts, keyboard, faults>>

(* The keyboard of the panel that was active before is taken away; an error   *)
(* is only logged.                                                            *)
RetireKeyboard ==
    /\ At("retire")
    /\ \/ job.old # 0 /\ keyboard' = [keyboard EXCEPT ![job.old] = 0] /\ UNCHANGED faults
       \/ job.old = 0 /\ UNCHANGED <<keyboard, faults>>
       \/ job.old # 0 /\ Fault /\ UNCHANGED keyboard
    /\ Leave
    /\ UNCHANGED <<world, tables>>

-----------------------------------------------------------------------------
(* A press: handle_callback.                                                  *)

Token == <<job.by, job.act>>

(* Mutant: a token already consumed is accepted again. *)
AcceptsAgain(u, r, a) ==
    /\ Parses(a)
    /\ ActiveSlot = renders[r].panel
    /\ renders[r].user = u
    /\ renders[r].rev = slots[ActiveSlot].rev

(* consume: the token is active and every field it is bound to is the         *)
(* callback's: the user, the active panel, its message and its revision.      *)
Accepts(u, r, a) ==
    /\ Parses(a)
    /\ ActiveSlot = renders[r].panel
    /\ <<r, a>> \notin DOMAIN acts
    /\ renders[r].user = u
    /\ renders[r].rev = slots[ActiveSlot].rev

Runs(t) == IF t \in DOMAIN acts THEN acts[t].runs ELSE 0

(* A user presses a button of a keyboard the chat showed at some time.  The   *)
(* token is consumed and its action queued, in one transaction; a press that  *)
(* is not accepted is answered with an error text and changes nothing.        *)
Consume(u, r, a) ==
    /\ At("idle")
    /\ Accepts(u, r, a) /\ Cardinality(DOMAIN acts) < MaxPresses
    /\ acts' = [t \in DOMAIN acts \union {<<r, a>>} |->
                  IF t = <<r, a>> THEN [status |-> "pending", runs |-> Runs(t)] ELSE acts[t]]
    /\ job' = [Idle EXCEPT !.pc = "claim", !.user = u, !.by = r, !.act = a,
                           !.panel = ActiveSlot]
    /\ UNCHANGED <<world, renders, slots, keyboard, faults>>

SetAct(status, runs) == acts' = [acts EXCEPT ![Token] = [status |-> status, runs |-> runs]]

ClaimActionEffect ==
    /\ At("claim")
    /\ SetAct("sending", Runs(Token) + 1)
    /\ Goto("act")
    /\ UNCHANGED <<world, renders, slots, keyboard, faults>>

-----------------------------------------------------------------------------
(* handle_panel_callback.                                                     *)

Answer(v) == job' = [job EXCEPT !.pc = "complete", !.view = v]

(* A panel is asked for: it is drawn, or a text says why not.                 *)
ActView ==
    /\ At("act") /\ job.act.do \in Views
    /\ Answer(IF Drawable(job.act) THEN job.act ELSE Nothing)
    /\ UNCHANGED <<world, tables, keyboard, faults>>

(* The item a selection opens: the index is looked up in the list of now, and *)
(* open_recent reads one page of it only.                                     *)
Opens(a) == a.page * PageSize + a.index
Found(a) ==
    CASE a.do = "sel_char" -> Opens(a) < NumItems
      [] a.do = "sel_hist" -> ctx.avatar # NoAvatar /\ Opens(a) < NumItems
      [] a.do = "sel_recent" -> Opens(a) < NumItems /\ Opens(a) < PageSize

(* select_character, open_history and open_recent.                            *)
SelectItem ==
    LET a == job.act IN
    /\ At("act") /\ a.do \in Lists /\ Found(a)
    /\ ctx' = CASE a.do = "sel_char" ->
                     [ctx EXCEPT !.avatar = <<version, Opens(a)>>, !.chat = FALSE]
               [] a.do = "sel_hist" -> [ctx EXCEPT !.chat = TRUE]
               [] a.do = "sel_recent" ->
                     [ctx EXCEPT !.avatar = <<version, Opens(a)>>, !.chat = TRUE]
    /\ job' = [job EXCEPT !.pc = "render", !.item = Opens(a), !.avatar = ctx.avatar]
    /\ UNCHANGED <<version, tables, keyboard, faults>>

(* select_provider_model_by_id and ResetModel: the model is found by name.    *)
SelectModel ==
    LET a == job.act IN
    /\ At("act") /\ a.do \in {"sel_mdl_id", "rst_mdl"}
    /\ ctx' = [ctx EXCEPT !.models[a.purpose] = a.name]
    /\ Goto("render")
    /\ UNCHANGED <<version, tables, keyboard, faults>>

(* What was selected is no longer there: a text says so.                      *)
SelectStale ==
    /\ At("act")
    /\ \/ job.act.do \in Lists /\ ~Found(job.act)
       \/ job.act.do = "sel_mdl_id" /\ version # renders[job.by].version
    /\ Answer(Nothing)
    /\ UNCHANGED <<world, tables, keyboard, faults>>

(* The panel a selection leads to.                                            *)
RenderNext ==
    /\ At("render")
    /\ Answer(CASE job.act.do = "sel_char" -> Act("hist")
                [] job.act.do \in {"sel_hist", "sel_recent"} -> Act("now")
                [] job.act.do = "sel_mdl_id" -> For("p_mdl", job.act.purpose)
                [] job.act.do = "rst_mdl" -> For("prov", job.act.purpose))
    /\ UNCHANGED <<world, tables, keyboard, faults>>

(* SillyTavern or the context store refuses a step of the action.             *)
ActFails ==
    /\ job.pc \in {"act", "render"}
    /\ job.act.do # "home"
    /\ Fault
    /\ Goto("fail")
    /\ UNCHANGED <<world, tables, keyboard>>

FailActionEffect ==
    /\ At("fail")
    /\ SetAct("failed", Runs(Token))
    /\ Leave
    /\ UNCHANGED <<world, renders, slots, keyboard, faults>>

(* A text is sent and the update ends; a panel replaces the one pressed.      *)
CompleteActionEffect ==
    /\ At("complete")
    /\ SetAct("sent", Runs(Token))
    /\ IF job.view = Nothing THEN Leave ELSE Goto("replace")
    /\ UNCHANGED <<world, renders, slots, keyboard, faults>>

(* The action is done, and its row cannot be written.                         *)
CompleteActionFails ==
    /\ At("complete")
    /\ Fault
    /\ SetAct("unknown", Runs(Token)) \/ UNCHANGED acts
    /\ Leave
    /\ UNCHANGED <<world, renders, slots, keyboard>>

-----------------------------------------------------------------------------
(* apply_panel_reply: the active panel's message is edited in place.          *)

(* Mutant: a replacement keeps the revision. *)
SameRevision(p) == slots[p].rev

(* plan_effect: the next revision of the slot.                                *)
NextRevision(p) == slots[p].rev + 1

(* Mutant: the new tokens are bound to the revision they replace. *)
BoundToCurrent(p) == slots[p].rev

(* The revision the new tokens are bound to.                                  *)
BoundRevision(p) == NextRevision(p)

SetEffect(status) == renders' = [renders EXCEPT ![job.new].effect = status]

(* The buttons are bound to the next revision, claim_panel_revision finds the *)
(* slot at the revision planned for (the payload it compares holds the new    *)
(* tokens, so no earlier row is equal), the effect is marked and the message  *)
(* edited.                                                                    *)
Replace ==
    /\ At("replace")
    /\ ActiveSlot = job.panel
    /\ Show(job.panel, BoundRevision(job.panel), "sending")
    /\ job' = [job EXCEPT !.pc = "confirm", !.new = Len(renders) + 1]
    /\ UNCHANGED <<world, acts, slots, faults>>

(* The edit is refused, or made and its answer lost: the code cannot tell.    *)
ReplaceFails ==
    /\ At("replace")
    /\ Fault
    /\ Show(job.panel, BoundRevision(job.panel), "failed") \/ UNCHANGED <<renders, keyboard>>
    /\ Leave
    /\ UNCHANGED <<world, acts, slots>>

(* complete_panel_replace: slot and effect in one transaction.                *)
CompletePanelReplace ==
    /\ At("confirm")
    /\ slots' = [slots EXCEPT ![job.panel].rev = NextRevision(job.panel)]
    /\ SetEffect("sent")
    /\ Leave
    /\ UNCHANGED <<world, acts, keyboard, faults>>

CompleteReplaceFails ==
    /\ At("confirm")
    /\ Fault
    /\ SetEffect("failed")
    /\ Leave
    /\ UNCHANGED <<world, acts, slots, keyboard>>

(* The panel was evicted from the registry of 256 before it was looked up:    *)
(* it is sent as a plain message whose buttons carry no token.                *)
PanelForgotten ==
    /\ job.pc \in {"create", "replace"}
    /\ Fault
    /\ Leave
    /\ UNCHANGED <<world, tables, keyboard>>

-----------------------------------------------------------------------------
(* A crash, or an error of a statement or call not named above, ends the      *)
(* update where it stands; a call cut off may have reached Telegram.          *)
Interrupted ==
    /\ job.pc # "idle"
    /\ Fault
    /\ \/ UNCHANGED <<keyboard, renders>>
       \/ At("create") /\ keyboard' = Append(keyboard, 0) /\ UNCHANGED renders
       \/ At("keys") /\ Show(job.panel, 0, "sending")
       \/ At("replace") /\ Show(job.panel, BoundRevision(job.panel), "sending")
    /\ Leave
    /\ UNCHANGED <<world, acts, slots>>

(* SillyTavern's lists change between two updates: a position now stands for  *)
(* something else.                                                            *)
ListsChange ==
    /\ At("idle") /\ version < MaxChanges
    /\ version' = version + 1
    /\ UNCHANGED <<ctx, tables, keyboard, job, faults>>

Opening ==
    \/ \E u \in User : \E v \in Commands : Command(u, v)
    \/ CreatePanel \/ AddKeyboard \/ SaveSlot \/ RetireKeyboard

Callback ==
    \/ \E u \in User, r \in Render : \E a \in Buttons(renders[r].view) : Consume(u, r, a)
    \/ ClaimActionEffect \/ ActView \/ SelectItem \/ SelectModel
    \/ SelectStale \/ RenderNext \/ ActFails \/ FailActionEffect
    \/ CompleteActionEffect \/ CompleteActionFails

Replacing ==
    \/ Replace \/ ReplaceFails \/ CompletePanelReplace \/ CompleteReplaceFails \/ PanelForgotten

Next == Opening \/ Callback \/ Replacing \/ Interrupted \/ ListsChange

Spec == Init /\ [][Next]_vars

-----------------------------------------------------------------------------
(* A button acts at most once: however often it is pressed, and however often *)
(* its callback is handed over after a crash, its handler runs once.          *)
ActsAtMostOnce == \A t \in DOMAIN acts : acts[t].runs <= 1

(* A panel one of whose keyboards was shown without the slot learning of it.  *)
Torn(p) ==
    \E r \in Render : renders[r].panel = p /\ renders[r].effect # "sent"

(* Between two updates, every button on the chat's active panel works for the *)
(* user it was drawn for, until it is pressed or expires; only a name with a  *)
(* colon, or an edit whose outcome was not recorded, makes an exception.      *)
ShownButtonsWork ==
    LET p == ActiveSlot IN
    At("idle") /\ p # 0 => Torn(p) \/
        LET r == keyboard[p] IN
        r # 0 /\ \A a \in Buttons(renders[r].view) :
            Parses(a) /\ <<r, a>> \notin DOMAIN acts
                => Accepts(renders[r].user, r, a)

(* A selection on a first page opens what its button showed when the lists    *)
(* are the ones drawn, and a chat of the character the panel was drawn for,   *)
(* though the index and the current character are read afresh at the press.   *)
SelectionAsShown ==
    LET r == renders[job.by] IN
    (/\ At("render") /\ job.act.do \in Lists /\ job.act.page = 0
     /\ version = r.version /\ ~Torn(r.panel)) =>
        /\ job.item = job.act.index
        /\ job.act.do = "sel_hist" => job.avatar = r.avatar

(* Buttons of older panels are dead: a handler starts only for the panel that *)
(* was saved last.                                                            *)
OnlyNewestPanelActs ==
    [][\A t \in DOMAIN acts : Runs(t)' > Runs(t) =>
          \A p \in Panel : slots[p].saved => p <= renders[t[1]].panel]_vars
=============================================================================
