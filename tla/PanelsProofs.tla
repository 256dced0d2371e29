----------------------------- MODULE PanelsProofs -----------------------------
(* Proofs about Panels, for any users, lists, pages, names and commands, and  *)
(* any number of panels, presses, changes of the lists and faults.            *)
(*                                                                            *)
(* The invariant behind them ties the keyboard Telegram shows to the slot's   *)
(* row through every step of the update at work.  An edit whose outcome was   *)
(* not recorded breaks that tie for good, so what is said of a panel is said  *)
(* of the renders whose effect is "sent": their revisions are all different   *)
(* and none is ahead of the slot's (SentOK).                                  *)
EXTENDS Panels, TLAPS

RenderRow == [panel : Panel, rev : Nat, user : User, view : Action,
              avatar : Avatar \union {NoAvatar}, version : 0 .. MaxChanges,
              effect : {"sending", "sent", "failed"}]
SlotRow == [saved : BOOLEAN, active : BOOLEAN, rev : Nat]
ActRow == [status : {"pending", "sending", "sent", "failed", "unknown"}, runs : Nat]
CtxRow == [avatar : Avatar \union {NoAvatar}, chat : BOOLEAN,
           models : [Purpose -> Model \union {<<>>}]]
AnyAction == Action \union {Nothing}
AnyAvatar == Avatar \union {NoAvatar}
JobRow == [pc : {"idle", "claim", "act", "render", "complete", "fail", "replace",
                 "confirm", "create", "keys", "save", "retire"},
           user : User \union {"none"}, by : Nat, act : AnyAction, item : Nat,
           avatar : AnyAvatar, view : AnyAction,
           panel : Nat, new : Nat, old : Nat]

Types ==
    /\ ctx \in CtxRow
    /\ version \in 0 .. MaxChanges
    /\ renders \in Seq(RenderRow)
    /\ \A r \in Render : renders[r].view.do \in Views
    /\ \A t \in DOMAIN acts : t[1] \in Render /\ t[2] \in Buttons(renders[t[1]].view)
    /\ \A t \in DOMAIN acts : acts[t] \in ActRow
    /\ slots \in [Panel -> SlotRow]
    /\ keyboard \in Seq(0 .. Len(renders)) /\ Len(keyboard) <= MaxPanels
    /\ job \in JobRow
    /\ faults \in 0 .. MaxFaults

(* The slots: only a saved panel is active, and none was saved after it.      *)
SlotsOK ==
    /\ \A p \in Panel : slots[p].active => slots[p].saved
    /\ \A p \in Panel : slots[p].saved => p <= Len(keyboard)
    /\ \A p, q \in Panel : slots[p].active /\ slots[q].saved => q <= p
    /\ \A r \in Render : renders[r].panel <= Len(keyboard)

(* The renders the slots know of have different revisions, none of them ahead *)
(* of its slot's.                                                             *)
Sent(p) == {r \in Render : renders[r].panel = p /\ renders[r].effect = "sent"}

SentOK ==
    \A p \in Panel :
        /\ \A r \in Sent(p) : renders[r].rev <= slots[p].rev
        /\ \A r, q \in Sent(p) : renders[r].rev = renders[q].rev => r = q

(* The keyboard on an active panel is the one its slot knows of, and a        *)
(* history was drawn for the current character.                               *)
Shown(p) ==
    LET r == keyboard[p] IN
    /\ r # 0 /\ renders[r].panel = p /\ renders[r].rev = slots[p].rev
    /\ renders[r].view.do = "hist" => renders[r].avatar = ctx.avatar

ShownOK == \A p \in Panel : slots[p].active /\ ~Torn(p) => Shown(p)

(* The update at work: a command, ...                                         *)
Opened == {"create", "keys", "save", "retire"}

(* ... the new render of its panel, which its slot is to learn of, ...        *)
NewRender(rev) ==
    /\ job.new \in Render /\ job.panel \in Panel /\ job.panel <= Len(keyboard)
    /\ keyboard[job.panel] = job.new
    /\ renders[job.new].panel = job.panel /\ renders[job.new].rev = rev
    /\ renders[job.new].effect = "sending" /\ renders[job.new].avatar = ctx.avatar

CommandOK ==
    /\ job.pc \in Opened =>
          /\ job.user \in User /\ job.view \in Action /\ job.view.do \in Views
          /\ job.old <= Len(keyboard)
    /\ At("create") => Len(keyboard) < MaxPanels
    /\ job.pc \in {"keys", "save"} =>
          /\ job.panel = Len(keyboard) /\ job.panel \in Panel
          /\ ~slots[job.panel].saved /\ job.old < job.panel
    /\ At("keys") => \A r \in Render : renders[r].panel # job.panel
    /\ At("save") =>
          /\ NewRender(0)
          /\ \A r \in Render : renders[r].panel = job.panel => r = job.new
    /\ At("retire") => job.panel \in Panel /\ slots[job.panel].active /\ job.old # job.panel

(* ... or a press, on a render of the active panel at its revision.           *)
Pressed == {"claim", "act", "render", "complete", "fail", "replace", "confirm"}

PressOK ==
    /\ job.pc \in Pressed =>
          /\ job.by \in Render /\ job.act \in Buttons(renders[job.by].view)
          /\ Token \in DOMAIN acts
          /\ job.user \in User /\ job.panel = renders[job.by].panel
          /\ slots[job.panel].active /\ renders[job.by].rev = slots[job.panel].rev
    /\ At("claim") => acts[Token].runs = 0
    /\ At("render") => job.act.do \in Lists \union {"sel_mdl_id", "rst_mdl"}
    /\ job.pc \in {"complete", "replace"} /\ job.view # Nothing =>
          job.view \in Action /\ job.view.do \in Views
    /\ At("replace") => job.view # Nothing
    /\ At("confirm") => NewRender(slots[job.panel].rev + 1)

IInv ==
    /\ Types
    /\ SlotsOK
    /\ SentOK
    /\ ShownOK
    /\ CommandOK
    /\ PressOK
    /\ ActsAtMostOnce
    /\ SelectionAsShown

-----------------------------------------------------------------------------
(* Actions and buttons.                                                       *)
Doing == Views \union Lists \union {"sel_mdl_id", "rst_mdl"}

LEMMA ActIsAction == ASSUME NEW do \in Doing PROVE Act(do) \in Action /\ Act(do).do = do
<1>1. 0 \in Pages
  <2>1. NumItems \div PageSize \in Nat BY PanelBounds
  <2>. QED BY <2>1 DEF Pages
<1>2. 0 \in Item BY PanelBounds DEF Item
<1>. QED BY <1>1, <1>2, Zenon DEF Act, Action, Doing, Purpose

LEMMA OnPageIsAction ==
    ASSUME NEW do \in Doing, NEW page \in Pages
    PROVE  OnPage(do, page) \in Action /\ OnPage(do, page).do = do
<1>1. Act(do) \in Action /\ Act(do).do = do BY ActIsAction, Zenon
<1>. QED BY <1>1, Zenon DEF OnPage, Action

LEMMA PickIsAction ==
    ASSUME NEW do \in Doing, NEW page \in Pages, NEW i \in Item
    PROVE  Pick(do, page, i) \in Action /\ Pick(do, page, i).do = do
<1>1. Act(do) \in Action /\ Act(do).do = do BY ActIsAction, Zenon
<1>. QED BY <1>1, Zenon DEF Pick, Action

LEMMA ForIsAction ==
    ASSUME NEW do \in Doing, NEW purpose \in Purpose
    PROVE  For(do, purpose) \in Action /\ For(do, purpose).do = do
<1>1. Act(do) \in Action /\ Act(do).do = do BY ActIsAction, Zenon
<1>. QED BY <1>1, Zenon DEF For, Action

LEMMA SelectIsAction ==
    ASSUME NEW purpose \in Purpose, NEW m \in Model
    PROVE  Select(purpose, m) \in Action /\ Select(purpose, m).do = "sel_mdl_id"
<1>1. For("sel_mdl_id", purpose) \in Action /\ For("sel_mdl_id", purpose).do = "sel_mdl_id"
  BY ForIsAction, Zenon DEF Doing
<1>. QED BY <1>1, Zenon DEF Select, Action

LEMMA PageButtonsAreActions ==
    ASSUME NEW v \in Action, v.do \in Views
    PROVE  \A a \in PageButtons(v) : a \in Action /\ a.do = v.do
BY OnPageIsAction, Zenon DEF PageButtons, Doing

(* The buttons of a panel are actions, and a selection is on its own list.    *)
LEMMA ButtonsAreActions ==
    ASSUME NEW v \in Action, v.do \in Views, NEW a \in Buttons(v)
    PROVE  /\ a \in Action
           /\ a.do = "sel_hist" => v.do = "hist"
           /\ a.do \in {"sel_char", "sel_recent"} => v.do # "hist"
<1>1. v.page \in Pages /\ v.purpose \in Purpose BY Zenon DEF Action
<1>2. CASE a = Act("home") BY <1>2, ActIsAction, Zenon DEF Doing, Views
<1>3. CASE a \in PageButtons(v) BY <1>3, PageButtonsAreActions, Zenon DEF Views
<1>4. CASE v.do = "home" /\ a \in {Act("chars"), Act("hist"), Act("recent"), Act("now"), Act("settings")}
  BY <1>4, ActIsAction, Zenon DEF Doing, Views
<1>5. CASE v.do = "settings" /\ a \in {For("prov", q) : q \in Purpose}
  <2>1. "prov" \in Doing BY Zenon DEF Doing, Views
  <2>2. \A q \in Purpose : For("prov", q) \in Action /\ For("prov", q).do = "prov"
    BY <2>1, ForIsAction, Zenon
  <2>. QED BY <1>5, <2>2, Zenon
<1>6. CASE v.do = "chars" /\ a \in {Pick("sel_char", v.page, i) : i \in Item}
  BY <1>1, <1>6, PickIsAction DEF Doing, Lists
<1>7. CASE v.do = "hist" /\ a \in {Pick("sel_hist", v.page, i) : i \in Item}
  BY <1>1, <1>7, PickIsAction DEF Doing, Lists
<1>8. CASE v.do = "recent" /\ a \in {Pick("sel_recent", v.page, i) : i \in Item}
  BY <1>1, <1>8, PickIsAction DEF Doing, Lists
<1>9. CASE v.do = "now" /\ a \in {Act("now"), Act("hist")} BY <1>9, ActIsAction, Zenon DEF Doing, Views
<1>10. CASE v.do = "prov" /\ a \in {For("p_mdl", v.purpose), For("rst_mdl", v.purpose)}
  BY <1>1, <1>10, ForIsAction DEF Doing, Views
<1>11. CASE v.do = "p_mdl" /\ a \in {Select(v.purpose, m) : m \in Model} \union {For("prov", v.purpose)}
  BY <1>1, <1>11, ForIsAction, SelectIsAction DEF Doing, Views
<1>12. CASE v.do = "home" BY <1>4, <1>12, Zenon DEF Buttons
<1>13. CASE v.do = "settings" BY <1>2, <1>5, <1>13, Zenon DEF Buttons
<1>14. CASE v.do = "chars" BY <1>2, <1>3, <1>6, <1>14, Zenon DEF Buttons
<1>15. CASE v.do = "hist" BY <1>2, <1>3, <1>7, <1>15, Zenon DEF Buttons
<1>16. CASE v.do = "recent" BY <1>2, <1>3, <1>8, <1>16, Zenon DEF Buttons
<1>17. CASE v.do = "now" BY <1>2, <1>9, <1>17, Zenon DEF Buttons
<1>18. CASE v.do = "prov" BY <1>2, <1>10, <1>18, Zenon DEF Buttons
<1>19. CASE v.do = "p_mdl" BY <1>2, <1>11, <1>19, Zenon DEF Buttons
<1>. QED BY <1>12, <1>13, <1>14, <1>15, <1>16, <1>17, <1>18, <1>19, Zenon DEF Views

(* A function on 1 .. k is a sequence of length k.                            *)
LEMMA FunctionIsSeq ==
    ASSUME NEW S, NEW k \in Nat, NEW f \in [1 .. k -> S]
    PROVE  f \in Seq(S) /\ Len(f) = k
OBVIOUS

-----------------------------------------------------------------------------
(* What the types say, in the form the provers use.                           *)
LEMMA RowFacts ==
    ASSUME Types
    PROVE  /\ Len(renders) \in Nat /\ DOMAIN renders = Render /\ Render = 1 .. Len(renders)
           /\ \A r \in Render : renders[r] \in RenderRow
           /\ Len(keyboard) \in Nat /\ DOMAIN keyboard = 1 .. Len(keyboard)
           /\ \A p \in 1 .. Len(keyboard) : keyboard[p] \in 0 .. Len(renders) /\ p \in Panel
           /\ \A p \in Panel : slots[p] \in SlotRow /\ p \in Nat /\ p # 0
           /\ MaxPanels \in Nat
<1>1. renders \in Seq(RenderRow) /\ keyboard \in Seq(0 .. Len(renders)) BY Zenon DEF Types
<1>2. Len(renders) \in Nat /\ DOMAIN renders = 1 .. Len(renders) BY <1>1
<1>3. Len(keyboard) \in Nat /\ DOMAIN keyboard = 1 .. Len(keyboard) BY <1>1
<1>4. \A p \in DOMAIN keyboard : keyboard[p] \in 0 .. Len(renders) BY <1>1
<1>5. \A r \in DOMAIN renders : renders[r] \in RenderRow BY <1>1
<1>6. \A p \in 1 .. Len(keyboard) : p \in Panel BY <1>3, PanelBounds DEF Types, Panel
<1>7. \A p \in Panel : slots[p] \in SlotRow /\ p \in Nat /\ p # 0 BY PanelBounds DEF Types, Panel
<1>. QED BY <1>2, <1>3, <1>4, <1>5, <1>6, <1>7, PanelBounds, Zenon DEF Render

(* There is at most one active panel, and find_active_slot_for_scope finds it. *)
LEMMA ActiveFound ==
    ASSUME Types, SlotsOK
    PROVE  /\ \A p \in Panel : slots[p].active => ActiveSlot = p
           /\ ActiveSlot # 0 => ActiveSlot \in Panel /\ slots[ActiveSlot].active
           /\ ActiveSlot \in Nat /\ ActiveSlot <= Len(keyboard)
<1>1. \A p, q \in Panel : slots[p].active /\ slots[q].active => p = q
  <2>. SUFFICES ASSUME NEW p \in Panel, NEW q \in Panel, slots[p].active, slots[q].active PROVE p = q
    BY Zenon
  <2>1. p \in Nat /\ q \in Nat /\ p <= q /\ q <= p BY RowFacts, Zenon DEF SlotsOK
  <2>. QED BY <2>1
<1>2. CASE \E p \in Panel : slots[p].active
  <2>1. ActiveSlot \in Panel /\ slots[ActiveSlot].active BY <1>2, Zenon DEF ActiveSlot
  <2>2. ActiveSlot <= Len(keyboard) /\ ActiveSlot \in Nat BY <2>1, RowFacts, Zenon DEF SlotsOK
  <2>. QED BY <1>1, <2>1, <2>2, Zenon
<1>3. CASE ~\E p \in Panel : slots[p].active
  <2>1. ActiveSlot = 0 BY <1>3, Zenon DEF ActiveSlot
  <2>. QED BY <1>3, <2>1, RowFacts
<1>. QED BY <1>2, <1>3, Zenon

-----------------------------------------------------------------------------
(* Steps of the update at work that leave the tables and Telegram alone.      *)
LEMMA Names ==
    /\ Nothing \notin Action /\ Nothing.do = "none"
    /\ Idle \in JobRow /\ Idle.pc = "idle"
<1>1. Nothing.do = "none" BY Zenon DEF Nothing, Act
<1>2. Nothing \notin Action BY <1>1, Zenon DEF Action, Views, Lists
<1>3. Idle \in JobRow BY Zenon DEF Idle, JobRow, AnyAction, AnyAvatar
<1>. QED BY <1>1, <1>2, <1>3, Zenon DEF Idle

(* An update at work that moves on keeps its fields.                          *)
JobSteps == {"idle", "claim", "act", "render", "complete", "fail", "replace",
             "confirm", "create", "keys", "save", "retire"}

LEMMA JobAt ==
    ASSUME job \in JobRow, NEW pc \in JobSteps,
           job' = [job EXCEPT !.pc = pc]
    PROVE  /\ job' \in JobRow /\ job'.pc = pc /\ job'.user = job.user /\ job'.by = job.by /\ job'.act = job.act
           /\ job'.item = job.item /\ job'.avatar = job.avatar /\ job'.view = job.view /\ job'.panel = job.panel
           /\ job'.new = job.new /\ job'.old = job.old
BY Zenon DEF JobRow, JobSteps

LEMMA JobAtNew ==
    ASSUME job \in JobRow, NEW pc \in JobSteps, NEW n \in Nat,
           job' = [job EXCEPT !.pc = pc, !.new = n]
    PROVE  /\ job' \in JobRow /\ job'.pc = pc /\ job'.user = job.user /\ job'.by = job.by /\ job'.act = job.act
           /\ job'.item = job.item /\ job'.avatar = job.avatar /\ job'.view = job.view /\ job'.panel = job.panel
           /\ job'.new = n /\ job'.old = job.old
BY Zenon DEF JobRow, JobSteps

LEMMA JobAtPanel ==
    ASSUME job \in JobRow, NEW pc \in JobSteps, NEW n \in Nat,
           job' = [job EXCEPT !.pc = pc, !.panel = n]
    PROVE  /\ job' \in JobRow /\ job'.pc = pc /\ job'.user = job.user /\ job'.by = job.by /\ job'.act = job.act
           /\ job'.item = job.item /\ job'.avatar = job.avatar /\ job'.view = job.view /\ job'.panel = n
           /\ job'.new = job.new /\ job'.old = job.old
BY Zenon DEF JobRow, JobSteps

LEMMA JobAtView ==
    ASSUME job \in JobRow, NEW pc \in JobSteps, NEW v \in AnyAction,
           job' = [job EXCEPT !.pc = pc, !.view = v]
    PROVE  /\ job' \in JobRow /\ job'.pc = pc /\ job'.user = job.user /\ job'.by = job.by /\ job'.act = job.act
           /\ job'.item = job.item /\ job'.avatar = job.avatar /\ job'.view = v /\ job'.panel = job.panel
           /\ job'.new = job.new /\ job'.old = job.old
BY Zenon DEF JobRow, JobSteps

LEMMA JobAtItem ==
    ASSUME job \in JobRow, NEW pc \in JobSteps, NEW i \in Nat, NEW a \in AnyAvatar,
           job' = [job EXCEPT !.pc = pc, !.item = i, !.avatar = a]
    PROVE  /\ job' \in JobRow /\ job'.pc = pc /\ job'.user = job.user /\ job'.by = job.by /\ job'.act = job.act
           /\ job'.item = i /\ job'.avatar = a /\ job'.view = job.view /\ job'.panel = job.panel
           /\ job'.new = job.new /\ job'.old = job.old
BY Zenon DEF JobRow, JobSteps

LEMMA Idling ==
    ASSUME job' = Idle
    PROVE  CommandOK' /\ PressOK' /\ SelectionAsShown' /\ job' \in JobRow
BY Names, Zenon DEF CommandOK, PressOK, SelectionAsShown, At, Opened, Pressed

LEMMA QuietKeeps ==
    ASSUME IInv, UNCHANGED <<renders, slots, keyboard>>
    PROVE  SlotsOK' /\ SentOK' /\ (ctx'.avatar = ctx.avatar => ShownOK')
<1>1. SlotsOK' BY Zenon DEF IInv, SlotsOK, Render
<1>2. SentOK' BY DEF IInv, SentOK, Sent, Render
<1>3. ASSUME ctx'.avatar = ctx.avatar PROVE ShownOK'
  BY <1>3, Zenon DEF IInv, ShownOK, Shown, Torn, Render
<1>. QED BY <1>1, <1>2, <1>3, Zenon

(* The rows that stay, when only the update at work moves on.                 *)
LEMMA QuietTypes ==
    ASSUME IInv, UNCHANGED <<renders, slots, keyboard>>,
           ctx' \in CtxRow, version' \in 0 .. MaxChanges, job' \in JobRow, faults' \in 0 .. MaxFaults,
           DOMAIN acts' = DOMAIN acts, \A t \in DOMAIN acts : acts'[t] \in ActRow
    PROVE  Types'
BY Zenon DEF IInv, Types, Render

(* complete_action_effect and its likes write the row of the token pressed.   *)
LEMMA SetActRow ==
    ASSUME IInv, job.pc \in Pressed,
           NEW status \in {"pending", "sending", "sent", "failed", "unknown"},
           NEW runs \in 0 .. 1, SetAct(status, runs)
    PROVE  /\ DOMAIN acts' = DOMAIN acts
           /\ \A t \in DOMAIN acts : acts'[t] \in ActRow
           /\ ActsAtMostOnce'
<1>1. Token \in DOMAIN acts BY Zenon DEF IInv, PressOK
<1>2. DOMAIN acts' = DOMAIN acts BY Zenon DEF SetAct
<1>3. \A t \in DOMAIN acts : acts'[t] = IF t = Token THEN [status |-> status, runs |-> runs] ELSE acts[t]
  BY Zenon DEF SetAct
<1>4. \A t \in DOMAIN acts : acts'[t] \in ActRow BY <1>3 DEF IInv, Types, ActRow
<1>5. \A t \in DOMAIN acts : acts'[t].runs <= 1 BY <1>3 DEF IInv, ActsAtMostOnce
<1>. QED BY <1>2, <1>4, <1>5, Zenon DEF ActsAtMostOnce

LEMMA RunsAtMostOne ==
    ASSUME IInv, job.pc \in Pressed
    PROVE  Runs(Token) \in 0 .. 1 /\ (At("claim") => Runs(Token) = 0)
<1>1. Token \in DOMAIN acts BY Zenon DEF IInv, PressOK
<1>2. acts[Token] \in ActRow /\ acts[Token].runs <= 1 BY <1>1, Zenon DEF IInv, Types, ActsAtMostOnce
<1>3. acts[Token].runs \in 0 .. 1 BY <1>2 DEF ActRow
<1>. QED BY <1>1, <1>3, Zenon DEF Runs, IInv, PressOK

-----------------------------------------------------------------------------
(* A keyboard shown whose outcome is not recorded yet.                        *)
LEMMA ShowRow ==
    ASSUME IInv, NEW p \in Panel, p <= Len(keyboard), NEW rev \in Nat,
           NEW effect \in {"sending", "failed"},
           job.user \in User, job.view \in Action, job.view.do \in Views, Show(p, rev, effect)
    PROVE  LET n == Len(renders) + 1 IN
           /\ renders' \in Seq(RenderRow) /\ Render' = 1 .. n /\ Len(renders') = n /\ n \notin Render
           /\ \A r \in Render : renders'[r] = renders[r]
           /\ renders'[n].panel = p /\ renders'[n].rev = rev /\ renders'[n].effect = effect
           /\ renders'[n].avatar = ctx.avatar /\ renders'[n].view = job.view
           /\ keyboard' \in Seq(0 .. n) /\ Len(keyboard') = Len(keyboard)
           /\ keyboard'[p] = n
           /\ \A q \in 1 .. Len(keyboard) : q # p => keyboard'[q] = keyboard[q]
<1>. DEFINE n == Len(renders) + 1
            row == [panel |-> p, rev |-> rev, user |-> job.user, view |-> job.view,
                    avatar |-> ctx.avatar, version |-> version, effect |-> effect]
<1>1. Types BY Zenon DEF IInv
<1>2. row \in RenderRow BY <1>1, Zenon DEF Types, RenderRow, CtxRow
<1>3. /\ row.panel = p /\ row.rev = rev /\ row.effect = effect
      /\ row.avatar = ctx.avatar /\ row.view = job.view
  BY Zenon
<1>4. renders' = Append(renders, row) /\ keyboard' = [keyboard EXCEPT ![p] = n] BY Zenon DEF Show
<1>5. renders \in Seq(RenderRow) /\ Len(renders) \in Nat /\ DOMAIN renders = 1 .. Len(renders)
  BY <1>1, RowFacts, Zenon DEF Types
<1>. HIDE DEF row
<1>6. /\ renders' \in Seq(RenderRow) /\ Len(renders') = n /\ renders'[n] = row
      /\ \A r \in 1 .. Len(renders) : renders'[r] = renders[r]
  BY <1>2, <1>4, <1>5
<1>7. Render' = 1 .. n /\ n \notin Render BY <1>5, <1>6 DEF Render
<1>8. /\ Len(keyboard) \in Nat /\ DOMAIN keyboard = 1 .. Len(keyboard)
      /\ \A q \in 1 .. Len(keyboard) : keyboard[q] \in 0 .. Len(renders)
  BY <1>1, RowFacts, Zenon
<1>9. p \in 1 .. Len(keyboard) BY <1>1, <1>8, RowFacts
<1>10. \A q \in 1 .. Len(keyboard) : keyboard[q] \in 0 .. n /\ n \in 0 .. n BY <1>5, <1>8
<1>11. keyboard' \in [1 .. Len(keyboard) -> 0 .. n] BY <1>4, <1>8, <1>10, Zenon
<1>12. keyboard' \in Seq(0 .. n) /\ Len(keyboard') = Len(keyboard)
  BY <1>8, <1>11, FunctionIsSeq, Zenon
<1>13. keyboard'[p] = n /\ \A q \in 1 .. Len(keyboard) : q # p => keyboard'[q] = keyboard[q]
  BY <1>4, <1>8, <1>9, Zenon
<1>. QED BY <1>3, <1>5, <1>6, <1>7, <1>12, <1>13, Zenon DEF Render

LEMMA ShowKeeps ==
    ASSUME IInv, NEW p \in Panel, p <= Len(keyboard), NEW rev \in Nat,
           NEW effect \in {"sending", "failed"},
           job.user \in User, job.view \in Action, job.view.do \in Views, Show(p, rev, effect),
           UNCHANGED <<ctx, version, acts, slots>>, job' \in JobRow, faults' \in 0 .. MaxFaults
    PROVE  Types' /\ SlotsOK' /\ SentOK' /\ ShownOK' /\ ActsAtMostOnce'
<1>. DEFINE n == Len(renders) + 1
<1>1. /\ renders' \in Seq(RenderRow) /\ Render' = 1 .. n /\ Len(renders') = n /\ n \notin Render
      /\ \A r \in Render : renders'[r] = renders[r]
      /\ renders'[n].panel = p /\ renders'[n].effect = effect /\ renders'[n].view = job.view
      /\ keyboard' \in Seq(0 .. n) /\ Len(keyboard') = Len(keyboard)
      /\ \A q \in 1 .. Len(keyboard) : q # p => keyboard'[q] = keyboard[q]
  BY ShowRow
<1>2. Types /\ SlotsOK /\ SentOK /\ ShownOK BY Zenon DEF IInv
<1>3. Len(renders) \in Nat /\ Render = 1 .. Len(renders) BY <1>2, RowFacts, Zenon
<1>. HIDE DEF n
<1>4. Render' = Render \union {n} BY <1>1, <1>3 DEF n
<1>5. Types'
  <2>1. \A r \in Render' : renders'[r].view.do \in Views BY <1>1, <1>2, <1>4, Zenon DEF Types
  <2>2. \A t \in DOMAIN acts : t[1] \in Render' /\ t[2] \in Buttons(renders'[t[1]].view)
    BY <1>1, <1>2, <1>4, Zenon DEF Types
  <2>3. Len(keyboard') <= MaxPanels BY <1>1, <1>2, Zenon DEF Types
  <2>. QED BY <1>1, <1>2, <2>1, <2>2, <2>3, Zenon DEF Types
<1>6. SlotsOK'
  <2>1. \A r \in Render' : renders'[r].panel <= Len(keyboard') BY <1>1, <1>2, <1>4, Zenon DEF SlotsOK
  <2>2. Len(keyboard') = Len(keyboard) /\ slots' = slots BY <1>1, Zenon
  <2>. QED BY <1>2, <2>1, <2>2, Zenon DEF SlotsOK
<1>7. SentOK'
  <2>1. \A q \in Panel : Sent(q)' = Sent(q) BY <1>1, <1>4, Zenon DEF Sent
  <2>2. \A q \in Panel : \A r \in Sent(q) : renders'[r] = renders[r] BY <1>1, Zenon DEF Sent
  <2>. QED BY <1>2, <2>1, <2>2 DEF SentOK
<1>8. ShownOK'
  <2>. SUFFICES ASSUME NEW q \in Panel, slots[q].active, ~Torn(q)' PROVE Shown(q)'
    BY Zenon DEF ShownOK
  <2>1. q # p BY <1>1, <1>4, Zenon DEF Torn
  <2>2. ~Torn(q) BY <1>1, <1>4 DEF Torn
  <2>3. Shown(q) BY <1>2, <2>2, Zenon DEF ShownOK
  <2>4. q \in 1 .. Len(keyboard) BY <1>2, RowFacts DEF SlotsOK
  <2>5. keyboard[q] \in Render BY <1>2, <1>3, <2>3, <2>4, RowFacts DEF Shown
  <2>6. keyboard'[q] = keyboard[q] /\ renders'[keyboard[q]] = renders[keyboard[q]]
    BY <1>1, <2>1, <2>4, <2>5, Zenon
  <2>. QED BY <2>3, <2>6, Zenon DEF Shown
<1>9. ActsAtMostOnce' BY Zenon DEF IInv, ActsAtMostOnce
<1>. QED BY <1>5, <1>6, <1>7, <1>8, <1>9, Zenon

(* The outcome of a render is recorded.                                       *)
LEMMA EffectRow ==
    ASSUME IInv, job.new \in Render, NEW status \in {"sent", "failed"}, SetEffect(status)
    PROVE  /\ renders' \in Seq(RenderRow) /\ Len(renders') = Len(renders) /\ Render' = Render
           /\ \A r \in Render : r # job.new => renders'[r] = renders[r]
           /\ \A r \in Render :
                 /\ renders'[r].panel = renders[r].panel /\ renders'[r].rev = renders[r].rev
                 /\ renders'[r].view = renders[r].view /\ renders'[r].avatar = renders[r].avatar
           /\ renders'[job.new].effect = status
<1>. DEFINE row == [renders[job.new] EXCEPT !.effect = status]
<1>1. /\ renders \in Seq(RenderRow) /\ Len(renders) \in Nat /\ DOMAIN renders = 1 .. Len(renders)
      /\ Render = 1 .. Len(renders) /\ \A r \in Render : renders[r] \in RenderRow
  BY RowFacts, Zenon DEF IInv, Types
<1>2. /\ row \in RenderRow /\ row.effect = status
      /\ row.panel = renders[job.new].panel /\ row.rev = renders[job.new].rev
      /\ row.view = renders[job.new].view /\ row.avatar = renders[job.new].avatar
  <2>1. \A was \in RenderRow :
           LET new == [was EXCEPT !.effect = status] IN
           /\ new \in RenderRow /\ new.effect = status
           /\ new.panel = was.panel /\ new.rev = was.rev
           /\ new.view = was.view /\ new.avatar = was.avatar
    BY Zenon DEF RenderRow
  <2>. QED BY <1>1, <2>1, Zenon
<1>3. renders' = [renders EXCEPT ![job.new] = row] BY Zenon DEF SetEffect
<1>. HIDE DEF row
<1>4. renders' \in [1 .. Len(renders) -> RenderRow] BY <1>1, <1>2, <1>3, Zenon
<1>5. renders' \in Seq(RenderRow) /\ Len(renders') = Len(renders) BY <1>1, <1>4
<1>6. \A r \in Render : renders'[r] = IF r = job.new THEN row ELSE renders[r] BY <1>1, <1>3, Zenon
<1>. QED BY <1>2, <1>5, <1>6, Zenon DEF Render

LEMMA EffectTypes ==
    ASSUME IInv, job.new \in Render, NEW status \in {"sent", "failed"}, SetEffect(status),
           UNCHANGED <<ctx, version, acts, keyboard>>, slots' \in [Panel -> SlotRow],
           job' \in JobRow, faults' \in 0 .. MaxFaults
    PROVE  Types' /\ ActsAtMostOnce'
<1>1. /\ renders' \in Seq(RenderRow) /\ Len(renders') = Len(renders) /\ Render' = Render
      /\ \A r \in Render : renders'[r].view = renders[r].view
  BY EffectRow, Zenon
<1>2. Types /\ ActsAtMostOnce BY Zenon DEF IInv
<1>. QED BY <1>1, <1>2, Zenon DEF Types, ActsAtMostOnce

-----------------------------------------------------------------------------
(* One lemma for each step.  A command opens a panel.                         *)
LEMMA CommandKeeps ==
    ASSUME IInv, NEW u \in User, NEW v \in Commands, Command(u, v) PROVE IInv'
<1>1. /\ UNCHANGED <<ctx, version, renders, acts, slots, keyboard, faults>>
      /\ Len(keyboard) < MaxPanels
      /\ job' = [Idle EXCEPT !.pc = "create", !.user = u, !.view = v, !.old = ActiveSlot]
  BY Zenon DEF Command, world, tables
<1>2. v \in Action /\ v.do \in Views BY CommandsOpenPanels, Zenon
<1>3. Types /\ SlotsOK BY Zenon DEF IInv
<1>4. ActiveSlot \in Nat /\ ActiveSlot <= Len(keyboard) BY <1>3, ActiveFound, Zenon
<1>5. /\ job' \in JobRow /\ job'.pc = "create" /\ job'.user = u /\ job'.view = v
      /\ job'.old = ActiveSlot
  BY <1>1, <1>2, <1>4, Names, Zenon DEF JobRow, AnyAction
<1>6. Types' BY <1>1, <1>5, QuietTypes, Zenon DEF IInv, Types
<1>7. SlotsOK' /\ SentOK' /\ ShownOK' BY <1>1, QuietKeeps, Zenon
<1>8. CommandOK' BY <1>1, <1>2, <1>4, <1>5, Zenon DEF CommandOK, At, Opened
<1>9. PressOK' /\ SelectionAsShown' BY <1>5, Zenon DEF PressOK, SelectionAsShown, At, Pressed
<1>10. ActsAtMostOnce' BY <1>1, Zenon DEF IInv, ActsAtMostOnce
<1>. QED BY <1>6, <1>7, <1>8, <1>9, <1>10, Zenon DEF IInv

(* A message without a keyboard is sent.                                      *)
LEMMA NewMessage ==
    ASSUME IInv, Len(keyboard) < MaxPanels, keyboard' = Append(keyboard, 0),
           UNCHANGED <<ctx, version, renders, acts, slots>>,
           job' \in JobRow, faults' \in 0 .. MaxFaults
    PROVE  /\ Types' /\ SlotsOK' /\ SentOK' /\ ShownOK' /\ ActsAtMostOnce'
           /\ Len(keyboard') = Len(keyboard) + 1
<1>1. Types /\ SlotsOK /\ SentOK /\ ShownOK BY Zenon DEF IInv
<1>2. keyboard \in Seq(0 .. Len(renders)) /\ Len(keyboard) \in Nat /\ Len(renders) \in Nat
  BY <1>1, RowFacts, Zenon DEF Types
<1>3. /\ keyboard' \in Seq(0 .. Len(renders)) /\ Len(keyboard') = Len(keyboard) + 1
      /\ \A p \in 1 .. Len(keyboard) : keyboard'[p] = keyboard[p]
  BY <1>2
<1>4. Types'
  <2>1. Len(keyboard') <= MaxPanels BY <1>2, <1>3, PanelBounds
  <2>. QED BY <1>1, <1>3, <2>1, Zenon DEF Types, Render
<1>5. SlotsOK'
  <2>1. \A p \in Panel : slots[p].saved => p <= Len(keyboard')
    BY <1>1, <1>2, <1>3, RowFacts DEF SlotsOK
  <2>2. \A r \in Render : renders[r].panel <= Len(keyboard')
    <3>1. \A r \in Render : renders[r].panel \in Nat BY <1>1, RowFacts, Zenon DEF RenderRow, Panel
    <3>. QED BY <1>1, <1>2, <1>3, <3>1 DEF SlotsOK
  <2>. QED BY <1>1, <2>1, <2>2, Zenon DEF SlotsOK, Render
<1>6. SentOK' BY <1>1 DEF SentOK, Sent, Render
<1>7. ShownOK'
  <2>. SUFFICES ASSUME NEW p \in Panel, slots[p].active, ~Torn(p)' PROVE Shown(p)'
    BY Zenon DEF ShownOK
  <2>1. Shown(p) BY <1>1, Zenon DEF ShownOK, Torn, Render
  <2>2. p \in 1 .. Len(keyboard) BY <1>1, RowFacts DEF SlotsOK
  <2>. QED BY <1>3, <2>1, <2>2, Zenon DEF Shown
<1>8. ActsAtMostOnce' BY Zenon DEF IInv, ActsAtMostOnce
<1>. QED BY <1>3, <1>4, <1>5, <1>6, <1>7, <1>8, Zenon

LEMMA CreatePanelKeeps == ASSUME IInv, CreatePanel PROVE IInv'
<1>1. /\ job.pc = "create" /\ UNCHANGED <<ctx, version, renders, acts, slots, faults>>
      /\ keyboard' = Append(keyboard, 0)
      /\ job' = [job EXCEPT !.pc = "keys", !.panel = Len(keyboard) + 1]
  BY Zenon DEF CreatePanel, At, world, tables
<1>2. Types /\ SlotsOK BY Zenon DEF IInv
<1>3. /\ Len(keyboard) < MaxPanels /\ job.user \in User /\ job.view \in Action
      /\ job.view.do \in Views /\ job.old <= Len(keyboard)
  BY <1>1, Zenon DEF IInv, CommandOK, At, Opened
<1>4. Len(keyboard) \in Nat /\ job \in JobRow BY <1>2, RowFacts, Zenon DEF Types
<1>5. /\ job' \in JobRow /\ job'.pc = "keys" /\ job'.panel = Len(keyboard) + 1
      /\ job'.user = job.user /\ job'.view = job.view /\ job'.old = job.old
  <2>1. "keys" \in JobSteps /\ Len(keyboard) + 1 \in Nat BY <1>4 DEF JobSteps
  <2>2. job \in JobRow /\ job' = [job EXCEPT !.pc = "keys", !.panel = Len(keyboard) + 1] BY <1>1, <1>4, Zenon
  <2>. QED BY <2>1, <2>2, JobAtPanel, Zenon
<1>6. faults' \in 0 .. MaxFaults BY <1>1, <1>2, Zenon DEF Types
<1>7. /\ Types' /\ SlotsOK' /\ SentOK' /\ ShownOK' /\ ActsAtMostOnce'
      /\ Len(keyboard') = Len(keyboard) + 1
  BY <1>1, <1>3, <1>5, <1>6, NewMessage, Zenon
<1>8. job.old \in Nat BY <1>4, Zenon DEF JobRow
<1>9. Len(keyboard) + 1 \in Panel BY <1>3, <1>4, PanelBounds DEF Panel
<1>10. ~slots[Len(keyboard) + 1].saved
  BY <1>2, <1>4, <1>9 DEF SlotsOK
<1>11. \A r \in Render : renders[r].panel # Len(keyboard) + 1
  <2>1. \A r \in Render : renders[r].panel \in Nat /\ renders[r].panel <= Len(keyboard)
    BY <1>2, RowFacts, Zenon DEF RenderRow, Panel, SlotsOK
  <2>. QED BY <1>4, <2>1
<1>12. CommandOK'
  <2>1. job'.old <= Len(keyboard') /\ job'.old < job'.panel BY <1>3, <1>4, <1>5, <1>7, <1>8
  <2>2. job'.panel = Len(keyboard') /\ job'.panel \in Panel /\ ~slots'[job'.panel].saved
    BY <1>1, <1>5, <1>7, <1>9, <1>10, Zenon
  <2>3. \A r \in Render' : renders'[r].panel # job'.panel BY <1>1, <1>5, <1>11, Zenon DEF Render
  <2>. QED BY <1>3, <1>5, <2>1, <2>2, <2>3, Zenon DEF CommandOK, At, Opened
<1>13. PressOK' /\ SelectionAsShown' BY <1>5, Zenon DEF PressOK, SelectionAsShown, At, Pressed
<1>. QED BY <1>7, <1>12, <1>13, Zenon DEF IInv

LEMMA AddKeyboardKeeps == ASSUME IInv, AddKeyboard PROVE IInv'
<1>. DEFINE n == Len(renders) + 1
            p == job.panel
<1>1. /\ job.pc = "keys" /\ UNCHANGED <<ctx, version, acts, slots, faults>>
      /\ Show(p, 0, "sending") /\ job' = [job EXCEPT !.pc = "save", !.new = n]
  BY Zenon DEF AddKeyboard, At, world
<1>2. /\ job.user \in User /\ job.view \in Action /\ job.view.do \in Views
      /\ job.old <= Len(keyboard) /\ p = Len(keyboard) /\ p \in Panel /\ ~slots[p].saved
      /\ job.old < p /\ \A r \in Render : renders[r].panel # p
  BY <1>1, Zenon DEF IInv, CommandOK, At, Opened
<1>3. Types BY Zenon DEF IInv
<1>4. Len(renders) \in Nat /\ job \in JobRow /\ Len(keyboard) \in Nat BY <1>3, RowFacts, Zenon DEF Types
<1>5. /\ job' \in JobRow /\ job'.pc = "save" /\ job'.new = n /\ job'.panel = p
      /\ job'.user = job.user /\ job'.view = job.view /\ job'.old = job.old
  <2>1. "save" \in JobSteps /\ n \in Nat BY <1>4 DEF JobSteps
  <2>2. job \in JobRow /\ job' = [job EXCEPT !.pc = "save", !.new = n] BY <1>1, <1>4, Zenon
  <2>. HIDE DEF n, p
  <2>. QED BY <2>1, <2>2, JobAtNew, Zenon DEF p
<1>6. /\ Render' = 1 .. n /\ \A r \in Render : renders'[r] = renders[r]
      /\ renders'[n].panel = p /\ renders'[n].rev = 0 /\ renders'[n].effect = "sending"
      /\ renders'[n].avatar = ctx.avatar /\ Len(keyboard') = Len(keyboard) /\ keyboard'[p] = n
  BY <1>1, <1>2, <1>4, ShowRow
<1>7. faults' \in 0 .. MaxFaults BY <1>1, <1>3, Zenon DEF Types
<1>8. Types' /\ SlotsOK' /\ SentOK' /\ ShownOK' /\ ActsAtMostOnce'
  BY <1>1, <1>2, <1>4, <1>5, <1>7, ShowKeeps
<1>. HIDE DEF n, p
<1>9. CommandOK'
  <2>1. n \in Render' /\ \A r \in Render' : r = n \/ r \in Render BY <1>4, <1>6 DEF n, Render
  <2>2. NewRender(0)' BY <1>1, <1>2, <1>4, <1>5, <1>6, <2>1 DEF NewRender
  <2>3. \A r \in Render' : renders'[r].panel = job'.panel => r = job'.new
    BY <1>2, <1>5, <1>6, <2>1, Zenon
  <2>4. job'.panel = Len(keyboard') /\ job'.panel \in Panel /\ ~slots'[job'.panel].saved
    BY <1>1, <1>2, <1>5, <1>6, Zenon
  <2>. QED BY <1>2, <1>5, <1>6, <2>2, <2>3, <2>4, Zenon DEF CommandOK, At, Opened
<1>10. PressOK' /\ SelectionAsShown' BY <1>5, Zenon DEF PressOK, SelectionAsShown, At, Pressed
<1>. QED BY <1>8, <1>9, <1>10, Zenon DEF IInv

LEMMA SaveSlotKeeps == ASSUME IInv, SaveSlot PROVE IInv'
<1>. DEFINE p == job.panel
<1>1. /\ job.pc = "save" /\ UNCHANGED <<ctx, version, acts, keyboard, faults>>
      /\ slots' = [q \in Panel |->
                     IF q = p THEN [saved |-> TRUE, active |-> TRUE, rev |-> 0]
                              ELSE [slots[q] EXCEPT !.active = FALSE]]
      /\ SetEffect("sent") /\ job' = [job EXCEPT !.pc = "retire"]
  BY Zenon DEF SaveSlot, At, world, SetEffect, Goto
<1>2. Types /\ SlotsOK /\ SentOK BY Zenon DEF IInv
<1>3. /\ job.user \in User /\ job.view \in Action /\ job.view.do \in Views
      /\ job.old <= Len(keyboard) /\ p = Len(keyboard) /\ p \in Panel /\ job.old < p
      /\ NewRender(0) /\ \A r \in Render : renders[r].panel = p => r = job.new
  BY <1>1, Zenon DEF IInv, CommandOK, At, Opened
<1>4. job \in JobRow /\ Len(keyboard) \in Nat BY <1>2, RowFacts, Zenon DEF Types
<1>5. /\ job' \in JobRow /\ job'.pc = "retire" /\ job'.panel = p
      /\ job'.user = job.user /\ job'.view = job.view /\ job'.old = job.old
  <2>1. "retire" \in JobSteps BY Zenon DEF JobSteps
  <2>. QED BY <1>1, <1>4, <2>1, JobAt, Zenon
<1>6. /\ job.new \in Render /\ keyboard[p] = job.new /\ renders[job.new].panel = p
      /\ renders[job.new].rev = 0 /\ renders[job.new].avatar = ctx.avatar
  BY <1>3, Zenon DEF NewRender
<1>7. /\ Render' = Render /\ renders'[job.new].effect = "sent"
      /\ \A r \in Render : r # job.new => renders'[r] = renders[r]
      /\ \A r \in Render :
            /\ renders'[r].panel = renders[r].panel /\ renders'[r].rev = renders[r].rev
            /\ renders'[r].view = renders[r].view /\ renders'[r].avatar = renders[r].avatar
  BY <1>1, <1>6, EffectRow, Zenon
<1>8. /\ slots' \in [Panel -> SlotRow]
      /\ slots'[p].saved /\ slots'[p].active /\ slots'[p].rev = 0
      /\ \A q \in Panel : q # p =>
            ~slots'[q].active /\ slots'[q].saved = slots[q].saved /\ slots'[q].rev = slots[q].rev
  <2>1. \A q \in Panel : slots[q] \in SlotRow BY <1>2, RowFacts, Zenon
  <2>2. \A was \in SlotRow :
           LET new == [was EXCEPT !.active = FALSE] IN
           new \in SlotRow /\ ~new.active /\ new.saved = was.saved /\ new.rev = was.rev
    BY Zenon DEF SlotRow
  <2>3. [saved |-> TRUE, active |-> TRUE, rev |-> 0] \in SlotRow BY Zenon DEF SlotRow
  <2>. HIDE DEF p
  <2>4. \A q \in Panel : slots'[q] \in SlotRow BY <1>1, <2>1, <2>2, <2>3, Zenon
  <2>5. slots' \in [Panel -> SlotRow] BY <1>1, <2>4, Zenon
  <2>6. slots'[p] = [saved |-> TRUE, active |-> TRUE, rev |-> 0] BY <1>1, <1>3, Zenon
  <2>7. \A q \in Panel : q # p => slots'[q] = [slots[q] EXCEPT !.active = FALSE] BY <1>1, Zenon
  <2>8. slots'[p].saved /\ slots'[p].active /\ slots'[p].rev = 0 BY <2>6
  <2>9. \A q \in Panel : q # p =>
           ~slots'[q].active /\ slots'[q].saved = slots[q].saved /\ slots'[q].rev = slots[q].rev
    BY <2>1, <2>2, <2>7, Zenon
  <2>. QED BY <2>5, <2>8, <2>9, Zenon
<1>9. faults' \in 0 .. MaxFaults BY <1>1, <1>2, Zenon DEF Types
<1>10. Types' /\ ActsAtMostOnce' BY <1>1, <1>5, <1>6, <1>8, <1>9, EffectTypes, Zenon
<1>. HIDE DEF p
<1>11. SlotsOK'
  <2>1. \A q \in Panel : slots'[q].saved => q <= Len(keyboard)
    BY <1>2, <1>3, <1>4, <1>8 DEF SlotsOK
  <2>2. \A q \in Panel : slots'[q].active => q = p BY <1>8, Zenon
  <2>3. \A r \in Render' : renders'[r].panel <= Len(keyboard) BY <1>2, <1>7, Zenon DEF SlotsOK
  <2>. QED BY <1>1, <1>3, <1>8, <2>1, <2>2, <2>3, Zenon DEF SlotsOK
<1>12. SentOK'
  <2>. SUFFICES ASSUME NEW q \in Panel
                PROVE  /\ \A r \in Sent(q)' : renders'[r].rev <= slots'[q].rev
                       /\ \A r, t \in Sent(q)' : renders'[r].rev = renders'[t].rev => r = t
    BY Zenon DEF SentOK
  <2>1. CASE q = p
    <3>1. \A r \in Sent(q)' : r = job.new BY <1>3, <1>7, <2>1, Zenon DEF Sent, p
    <3>2. renders'[job.new].rev = 0 /\ slots'[q].rev = 0 BY <1>6, <1>7, <1>8, <2>1, Zenon
    <3>. QED BY <3>1, <3>2
  <2>2. CASE q # p
    <3>1. \A r \in Sent(q)' : r \in Sent(q) /\ renders'[r] = renders[r]
      BY <1>6, <1>7, <2>2, Zenon DEF Sent
    <3>. QED BY <1>2, <1>8, <2>2, <3>1 DEF SentOK
  <2>. QED BY <2>1, <2>2, Zenon
<1>13. ShownOK'
  <2>1. job.new # 0 BY <1>2, <1>6, RowFacts
  <2>2. keyboard'[p] = job.new /\ ctx' = ctx BY <1>1, <1>6, Zenon
  <2>. SUFFICES ASSUME NEW q \in Panel, slots'[q].active PROVE Shown(q)'
    BY Zenon DEF ShownOK
  <2>3. q = p BY <1>8, Zenon
  <2>. QED BY <1>6, <1>7, <1>8, <2>1, <2>2, <2>3 DEF Shown
<1>14. CommandOK'
  <2>1. job'.old # job'.panel BY <1>3, <1>4, <1>5
  <2>. QED BY <1>1, <1>3, <1>5, <1>8, <2>1, Zenon DEF CommandOK, At, Opened
<1>15. PressOK' /\ SelectionAsShown' BY <1>5, Zenon DEF PressOK, SelectionAsShown, At, Pressed
<1>. QED BY <1>10, <1>11, <1>12, <1>13, <1>14, <1>15, Zenon DEF IInv

LEMMA RetireKeyboardKeeps == ASSUME IInv, RetireKeyboard PROVE IInv'
<1>1. /\ job.pc = "retire" /\ UNCHANGED <<ctx, version, renders, acts, slots>> /\ job' = Idle
      /\ \/ keyboard' = keyboard
         \/ job.old # 0 /\ keyboard' = [keyboard EXCEPT ![job.old] = 0]
  BY Zenon DEF RetireKeyboard, At, world, tables, Leave
<1>2. Types /\ SlotsOK /\ SentOK /\ ShownOK BY Zenon DEF IInv
<1>3. /\ job.old <= Len(keyboard) /\ job.panel \in Panel /\ slots[job.panel].active
      /\ job.old # job.panel
  BY <1>1, Zenon DEF IInv, CommandOK, At, Opened
<1>4. faults' \in 0 .. MaxFaults
  BY <1>2, PanelBounds DEF RetireKeyboard, Fault, Types
<1>5. CommandOK' /\ PressOK' /\ SelectionAsShown' /\ job' \in JobRow BY <1>1, Idling, Zenon
<1>6. ActsAtMostOnce' BY <1>1, Zenon DEF IInv, ActsAtMostOnce
<1>7. CASE keyboard' = keyboard
  <2>1. SlotsOK' /\ SentOK' /\ ShownOK' BY <1>1, <1>7, QuietKeeps, Zenon
  <2>2. Types' BY <1>1, <1>2, <1>4, <1>5, <1>7, QuietTypes, Zenon DEF Types
  <2>. QED BY <1>5, <1>6, <2>1, <2>2, Zenon DEF IInv
<1>8. CASE job.old # 0 /\ keyboard' = [keyboard EXCEPT ![job.old] = 0]
  <2>1. /\ Len(keyboard) \in Nat /\ DOMAIN keyboard = 1 .. Len(keyboard) /\ Len(renders) \in Nat
        /\ \A q \in 1 .. Len(keyboard) : keyboard[q] \in 0 .. Len(renders)
    BY <1>2, RowFacts, Zenon
  <2>2. keyboard' \in [1 .. Len(keyboard) -> 0 .. Len(renders)]
    <3>1. 0 \in 0 .. Len(renders) BY <2>1
    <3>2. DOMAIN keyboard' = 1 .. Len(keyboard) /\ keyboard' = [q \in DOMAIN keyboard' |-> keyboard'[q]]
      BY <1>8, <2>1, Zenon
    <3>3. \A q \in 1 .. Len(keyboard) : keyboard'[q] \in 0 .. Len(renders) BY <1>8, <2>1, <3>1, Zenon
    <3>. QED BY <3>2, <3>3, Zenon
  <2>3. keyboard' \in Seq(0 .. Len(renders)) /\ Len(keyboard') = Len(keyboard) BY <2>1, <2>2
  <2>4. Types' BY <1>1, <1>2, <1>4, <1>5, <2>3, Zenon DEF Types, Render
  <2>5. SlotsOK' /\ SentOK' BY <1>1, <1>2, <2>3 DEF SlotsOK, SentOK, Sent, Render
  <2>6. ShownOK'
    <3>. SUFFICES ASSUME NEW q \in Panel, slots[q].active, ~Torn(q)' PROVE Shown(q)'
      BY <1>1, Zenon DEF ShownOK
    <3>1. Shown(q) BY <1>1, <1>2, Zenon DEF ShownOK, Torn, Render
    <3>2. q = job.panel BY <1>2, <1>3, ActiveFound, Zenon
    <3>3. q \in 1 .. Len(keyboard) BY <1>2, RowFacts DEF SlotsOK
    <3>4. keyboard'[q] = keyboard[q] BY <1>3, <1>8, <2>1, <3>2, <3>3, Zenon
    <3>. QED BY <1>1, <3>1, <3>4, Zenon DEF Shown
  <2>. QED BY <1>5, <1>6, <2>4, <2>5, <2>6, Zenon DEF IInv
<1>. QED BY <1>1, <1>7, <1>8, Zenon

-----------------------------------------------------------------------------
(* A press.                                                                   *)
LEMMA ConsumeKeeps ==
    ASSUME IInv, NEW u \in User, NEW r \in Render, NEW a \in Buttons(renders[r].view), Consume(u, r, a)
    PROVE  IInv'
<1>. DEFINE t == <<r, a>>
<1>1. /\ job.pc = "idle" /\ UNCHANGED <<ctx, version, renders, slots, keyboard, faults>>
      /\ acts' = [s \in DOMAIN acts \union {t} |->
                    IF s = t THEN [status |-> "pending", runs |-> Runs(s)] ELSE acts[s]]
      /\ job' = [Idle EXCEPT !.pc = "claim", !.user = u, !.by = r, !.act = a, !.panel = ActiveSlot]
      /\ ActiveSlot = renders[r].panel /\ t \notin DOMAIN acts /\ renders[r].rev = slots[ActiveSlot].rev
  BY Zenon DEF Consume, Accepts, At, world
<1>2. Types /\ SlotsOK BY Zenon DEF IInv
<1>3. renders[r] \in RenderRow /\ renders[r].view.do \in Views /\ r \in Nat
  BY <1>2, RowFacts DEF Types
<1>4. a \in Action BY <1>3, ButtonsAreActions, Zenon DEF RenderRow
<1>5. renders[r].panel \in Panel /\ renders[r].panel # 0 BY <1>2, <1>3, RowFacts, Zenon DEF RenderRow
<1>6. ActiveSlot \in Nat /\ slots[ActiveSlot].active BY <1>1, <1>2, <1>5, ActiveFound, Zenon
<1>7. /\ job' \in JobRow /\ job'.pc = "claim" /\ job'.user = u /\ job'.by = r /\ job'.act = a
      /\ job'.panel = ActiveSlot
  BY <1>1, <1>3, <1>4, <1>6, Names, Zenon DEF JobRow, AnyAction
<1>8. /\ DOMAIN acts' = DOMAIN acts \union {t} /\ acts'[t] = [status |-> "pending", runs |-> 0]
      /\ \A s \in DOMAIN acts : acts'[s] = acts[s]
  BY <1>1, Zenon DEF Runs
<1>9. acts'[t] \in ActRow /\ acts'[t].runs = 0 BY <1>8 DEF ActRow
<1>10. t[1] = r /\ t[2] = a /\ Token' = t BY <1>7, Zenon DEF Token
<1>. HIDE DEF t
<1>11. Types'
  <2>1. \A s \in DOMAIN acts' : s[1] \in Render' /\ s[2] \in Buttons(renders'[s[1]].view)
    BY <1>1, <1>2, <1>8, <1>10, Zenon DEF Types, Render
  <2>2. \A s \in DOMAIN acts' : acts'[s] \in ActRow BY <1>2, <1>8, <1>9, Zenon DEF Types
  <2>. QED BY <1>1, <1>2, <1>7, <2>1, <2>2, Zenon DEF Types, Render
<1>12. SlotsOK' /\ SentOK' /\ ShownOK' BY <1>1, QuietKeeps, Zenon
<1>13. CommandOK' /\ SelectionAsShown' BY <1>7, Zenon DEF CommandOK, SelectionAsShown, At, Opened
<1>14. PressOK'
  <2>1. job'.by \in Render' /\ job'.act \in Buttons(renders'[job'.by].view) BY <1>1, <1>7, Zenon DEF Render
  <2>2. Token' \in DOMAIN acts' /\ acts'[Token'].runs = 0 BY <1>8, <1>9, <1>10, Zenon
  <2>3. /\ job'.user \in User /\ job'.panel = renders'[job'.by].panel
        /\ slots'[job'.panel].active /\ renders'[job'.by].rev = slots'[job'.panel].rev
    BY <1>1, <1>6, <1>7, Zenon
  <2>. QED BY <1>7, <2>1, <2>2, <2>3, Zenon DEF PressOK, At, Pressed
<1>15. ActsAtMostOnce' BY <1>8, <1>9 DEF IInv, ActsAtMostOnce
<1>. QED BY <1>11, <1>12, <1>13, <1>14, <1>15, Zenon DEF IInv

(* What a step of a press has to show: the row of its token, and the panel    *)
(* drawn.  The update stays on the render that was pressed.                   *)
LEMMA PressMoves ==
    ASSUME IInv, job.pc \in Pressed, UNCHANGED <<renders, slots, keyboard>>,
           ctx' \in CtxRow, version' = version, faults' \in 0 .. MaxFaults, job' \in JobRow,
           job'.pc \in Pressed \ {"claim", "confirm"}, job'.by = job.by, job'.act = job.act,
           job'.user = job.user, job'.panel = job.panel,
           DOMAIN acts' = DOMAIN acts, \A t \in DOMAIN acts : acts'[t] \in ActRow, ActsAtMostOnce',
           job'.pc \in {"complete", "replace"} /\ job'.view # Nothing =>
               job'.view \in Action /\ job'.view.do \in Views,
           job'.pc = "replace" => job'.view # Nothing,
           job'.pc = "render" => job'.act.do \in Lists \union {"sel_mdl_id", "rst_mdl"},
           SelectionAsShown', ShownOK'
    PROVE  IInv'
<1>1. Types' BY QuietTypes, Zenon DEF IInv, Types
<1>2. SlotsOK' /\ SentOK' BY QuietKeeps, Zenon
<1>3. CommandOK' BY Zenon DEF CommandOK, At, Opened, Pressed
<1>4. /\ job.by \in Render /\ job.act \in Buttons(renders[job.by].view)
      /\ Token \in DOMAIN acts
      /\ job.user \in User /\ job.panel = renders[job.by].panel
      /\ slots[job.panel].active /\ renders[job.by].rev = slots[job.panel].rev
  BY Zenon DEF IInv, PressOK
<1>5. Token' = Token /\ Render' = Render BY Zenon DEF Token, Render
<1>6. PressOK' BY <1>4, <1>5, Zenon DEF PressOK, At, Pressed
<1>. QED BY <1>1, <1>2, <1>3, <1>6, Zenon DEF IInv

LEMMA ClaimKeeps == ASSUME IInv, ClaimActionEffect PROVE IInv'
<1>1. /\ job.pc = "claim" /\ UNCHANGED <<ctx, version, renders, slots, keyboard, faults>>
      /\ SetAct("sending", Runs(Token) + 1) /\ job' = [job EXCEPT !.pc = "act"]
  BY Zenon DEF ClaimActionEffect, At, world, Goto
<1>2. job.pc \in Pressed BY <1>1, Zenon DEF Pressed
<1>3. Runs(Token) + 1 \in 0 .. 1 BY <1>1, <1>2, RunsAtMostOne DEF At
<1>4. /\ DOMAIN acts' = DOMAIN acts /\ ActsAtMostOnce'
      /\ \A t \in DOMAIN acts : acts'[t] \in ActRow
  BY <1>1, <1>2, <1>3, SetActRow, Zenon
<1>5. /\ job' \in JobRow /\ job'.pc = "act" /\ job'.by = job.by /\ job'.act = job.act
      /\ job'.user = job.user /\ job'.panel = job.panel
  <2>1. "act" \in JobSteps /\ job \in JobRow BY Zenon DEF JobSteps, IInv, Types
  <2>. QED BY <1>1, <2>1, JobAt, Zenon
<1>6. ShownOK' BY <1>1, QuietKeeps, Zenon
<1>7. SelectionAsShown' BY <1>5, Zenon DEF SelectionAsShown, At
<1>8. ctx' \in CtxRow /\ faults' \in 0 .. MaxFaults BY <1>1, Zenon DEF IInv, Types
<1>9. job'.pc \in Pressed \ {"claim", "confirm"} BY <1>5, Zenon DEF Pressed
<1>. QED BY <1>1, <1>2, <1>4, <1>5, <1>6, <1>7, <1>8, <1>9, PressMoves, Zenon

(* The panel drawn next, or a text.                                           *)
LEMMA AnswerKeeps ==
    ASSUME IInv, job.pc \in {"act", "render"}, NEW v \in AnyAction, Answer(v),
           v # Nothing => v.do \in Views,
           UNCHANGED <<ctx, version, renders, acts, slots, keyboard, faults>>
    PROVE  IInv'
<1>1. job.pc \in Pressed BY Zenon DEF Pressed
<1>2. /\ job' \in JobRow /\ job'.pc = "complete" /\ job'.by = job.by /\ job'.act = job.act
      /\ job'.user = job.user /\ job'.panel = job.panel /\ job'.view = v
  <2>1. "complete" \in JobSteps /\ job \in JobRow BY Zenon DEF JobSteps, IInv, Types
  <2>2. job' = [job EXCEPT !.pc = "complete", !.view = v] BY Zenon DEF Answer
  <2>. QED BY <2>1, <2>2, JobAtView, Zenon
<1>3. ShownOK' BY QuietKeeps, Zenon
<1>4. SelectionAsShown' BY <1>2, Zenon DEF SelectionAsShown, At
<1>5. /\ ctx' \in CtxRow /\ faults' \in 0 .. MaxFaults /\ DOMAIN acts' = DOMAIN acts
      /\ \A t \in DOMAIN acts : acts'[t] \in ActRow
  BY Zenon DEF IInv, Types
<1>6. ActsAtMostOnce' BY Zenon DEF IInv, ActsAtMostOnce
<1>7. job'.pc \in Pressed \ {"claim", "confirm"} BY <1>2, Zenon DEF Pressed
<1>8. job'.view # Nothing => job'.view \in Action /\ job'.view.do \in Views
  BY <1>2, Zenon DEF AnyAction
<1>. QED BY <1>1, <1>2, <1>3, <1>4, <1>5, <1>6, <1>7, <1>8, PressMoves, Zenon

LEMMA PressedAct ==
    ASSUME IInv, job.pc \in Pressed
    PROVE  /\ job.act \in Action
           /\ job.act.do = "sel_hist" => renders[job.by].view.do = "hist"
           /\ job.act.do \in {"sel_char", "sel_recent"} => renders[job.by].view.do # "hist"
<1>1. job.by \in Render /\ job.act \in Buttons(renders[job.by].view) BY Zenon DEF IInv, PressOK
<1>2. renders[job.by] \in RenderRow /\ renders[job.by].view.do \in Views
  BY <1>1, RowFacts, Zenon DEF IInv, Types
<1>3. renders[job.by].view \in Action BY <1>2, Zenon DEF RenderRow
<1>. QED BY <1>1, <1>2, <1>3, ButtonsAreActions, Zenon

LEMMA ActViewKeeps == ASSUME IInv, ActView PROVE IInv'
<1>. DEFINE v == IF Drawable(job.act) THEN job.act ELSE Nothing
<1>1. /\ job.pc = "act" /\ job.act.do \in Views /\ Answer(v)
      /\ UNCHANGED <<ctx, version, renders, acts, slots, keyboard, faults>>
  BY Zenon DEF ActView, At, world, tables
<1>2. job.act \in Action BY <1>1, PressedAct, Zenon DEF Pressed
<1>3. v \in AnyAction /\ (v # Nothing => v.do \in Views) BY <1>1, <1>2, Zenon DEF AnyAction
<1>. HIDE DEF v
<1>. QED BY <1>1, <1>3, AnswerKeeps, Zenon

LEMMA SelectStaleKeeps == ASSUME IInv, SelectStale PROVE IInv'
<1>1. /\ job.pc = "act" /\ Answer(Nothing)
      /\ UNCHANGED <<ctx, version, renders, acts, slots, keyboard, faults>>
  BY Zenon DEF SelectStale, At, world, tables
<1>2. Nothing \in AnyAction BY Zenon DEF AnyAction
<1>. QED BY <1>1, <1>2, AnswerKeeps, Zenon

LEMMA RenderNextKeeps == ASSUME IInv, RenderNext PROVE IInv'
<1>. DEFINE v == CASE job.act.do = "sel_char" -> Act("hist")
                   [] job.act.do \in {"sel_hist", "sel_recent"} -> Act("now")
                   [] job.act.do = "sel_mdl_id" -> For("p_mdl", job.act.purpose)
                   [] job.act.do = "rst_mdl" -> For("prov", job.act.purpose)
<1>1. /\ job.pc = "render" /\ Answer(v)
      /\ UNCHANGED <<ctx, version, renders, acts, slots, keyboard, faults>>
  BY Zenon DEF RenderNext, At, world, tables
<1>2. job.act \in Action BY <1>1, PressedAct, Zenon DEF Pressed
<1>3. job.act.do \in Lists \union {"sel_mdl_id", "rst_mdl"} BY <1>1, Zenon DEF IInv, PressOK, At
<1>4. v \in Action /\ v.do \in Views
  <2>1. job.act.purpose \in Purpose BY <1>2, Zenon DEF Action
  <2>2. Act("hist") \in Action /\ Act("hist").do = "hist" BY ActIsAction, Zenon DEF Doing, Views
  <2>3. Act("now") \in Action /\ Act("now").do = "now" BY ActIsAction, Zenon DEF Doing, Views
  <2>4. For("p_mdl", job.act.purpose) \in Action /\ For("p_mdl", job.act.purpose).do = "p_mdl"
    BY <2>1, ForIsAction, Zenon DEF Doing, Views
  <2>5. For("prov", job.act.purpose) \in Action /\ For("prov", job.act.purpose).do = "prov"
    BY <2>1, ForIsAction, Zenon DEF Doing, Views
  <2>6. CASE job.act.do = "sel_char" BY <2>2, <2>6, Zenon DEF Views
  <2>7. CASE job.act.do \in {"sel_hist", "sel_recent"} BY <2>3, <2>7, Zenon DEF Views
  <2>8. CASE job.act.do = "sel_mdl_id" BY <2>4, <2>8, Zenon DEF Views
  <2>9. CASE job.act.do = "rst_mdl" BY <2>5, <2>9, Zenon DEF Views
  <2>. QED BY <1>3, <2>6, <2>7, <2>8, <2>9, Zenon DEF Lists
<1>5. v \in AnyAction BY <1>4, Zenon DEF AnyAction
<1>. HIDE DEF v
<1>. QED BY <1>1, <1>4, <1>5, AnswerKeeps, Zenon

(* The item a selection opens is an item of the list.                         *)
LEMMA OpensAnItem ==
    ASSUME NEW a \in Action, a.do \in Lists, Found(a)
    PROVE  Opens(a) \in Item /\ (a.page = 0 => Opens(a) = a.index)
<1>1. a.page \in Nat /\ a.index \in Item
  <2>1. NumItems \div PageSize \in Nat BY PanelBounds
  <2>. QED BY <2>1 DEF Action, Pages
<1>2. a.page * PageSize \in Nat BY <1>1, PanelBounds
<1>3. a.page = 0 => a.page * PageSize = 0 BY PanelBounds
<1>4. a.index \in Nat BY <1>1, PanelBounds DEF Item
<1>5. Opens(a) < NumItems BY Zenon DEF Found, Lists
<1>. QED BY <1>2, <1>3, <1>4, <1>5, PanelBounds DEF Opens, Item

(* The render pressed is the one on the panel, unless the panel is torn.      *)
LEMMA PressedIsShown ==
    ASSUME IInv, job.pc \in Pressed, ~Torn(job.panel)
    PROVE  job.panel \in Panel /\ keyboard[job.panel] = job.by /\ Shown(job.panel)
<1>1. Types /\ SlotsOK /\ SentOK /\ ShownOK BY Zenon DEF IInv
<1>2. /\ job.by \in Render /\ job.panel = renders[job.by].panel
      /\ slots[job.panel].active /\ renders[job.by].rev = slots[job.panel].rev
  BY Zenon DEF IInv, PressOK
<1>3. job.panel \in Panel BY <1>1, <1>2, RowFacts, Zenon DEF RenderRow
<1>4. Shown(job.panel) BY <1>1, <1>2, <1>3, Zenon DEF ShownOK
<1>5. job.panel \in 1 .. Len(keyboard) BY <1>1, <1>2, <1>3, RowFacts DEF SlotsOK
<1>6. keyboard[job.panel] \in Render BY <1>1, <1>4, <1>5, RowFacts DEF Shown
<1>7. job.by \in Sent(job.panel) /\ keyboard[job.panel] \in Sent(job.panel)
  BY <1>2, <1>4, <1>6, Zenon DEF Sent, Torn, Shown
<1>8. renders[keyboard[job.panel]].rev = renders[job.by].rev BY <1>2, <1>4, Zenon DEF Shown
<1>. QED BY <1>1, <1>3, <1>4, <1>7, <1>8, Zenon DEF SentOK

LEMMA SelectItemKeeps == ASSUME IInv, SelectItem PROVE IInv'
<1>. DEFINE a == job.act
<1>1. /\ job.pc = "act" /\ a.do \in Lists /\ Found(a)
      /\ job' = [job EXCEPT !.pc = "render", !.item = Opens(a), !.avatar = ctx.avatar]
      /\ UNCHANGED <<version, renders, acts, slots, keyboard, faults>>
      /\ a.do = "sel_char" => ctx' = [ctx EXCEPT !.avatar = <<version, Opens(a)>>, !.chat = FALSE]
      /\ a.do = "sel_hist" => ctx' = [ctx EXCEPT !.chat = TRUE]
      /\ a.do = "sel_recent" => ctx' = [ctx EXCEPT !.avatar = <<version, Opens(a)>>, !.chat = TRUE]
  BY Zenon DEF SelectItem, At, tables
<1>2. job.pc \in Pressed BY <1>1, Zenon DEF Pressed
<1>3. /\ a \in Action
      /\ a.do = "sel_hist" => renders[job.by].view.do = "hist"
      /\ a.do \in {"sel_char", "sel_recent"} => renders[job.by].view.do # "hist"
  BY <1>2, PressedAct, Zenon
<1>4. Opens(a) \in Item /\ (a.page = 0 => Opens(a) = a.index) BY <1>1, <1>3, OpensAnItem, Zenon
<1>5. ctx \in CtxRow /\ version \in 0 .. MaxChanges /\ job \in JobRow /\ faults \in 0 .. MaxFaults
  BY Zenon DEF IInv, Types
<1>6. <<version, Opens(a)>> \in Avatar BY <1>4, <1>5 DEF Avatar
<1>7. ctx' \in CtxRow /\ (a.do = "sel_hist" => ctx'.avatar = ctx.avatar)
  <2>. HIDE DEF a
  <2>1. CASE a.do = "sel_char" BY <1>1, <1>5, <1>6, <2>1, Zenon DEF CtxRow
  <2>2. CASE a.do = "sel_hist" BY <1>1, <1>5, <2>2, Zenon DEF CtxRow
  <2>3. CASE a.do = "sel_recent" BY <1>1, <1>5, <1>6, <2>3, Zenon DEF CtxRow
  <2>. QED BY <1>1, <2>1, <2>2, <2>3, Zenon DEF Lists
<1>8. /\ job' \in JobRow /\ job'.pc = "render" /\ job'.by = job.by /\ job'.act = job.act
      /\ job'.user = job.user /\ job'.panel = job.panel /\ job'.item = Opens(a)
      /\ job'.avatar = ctx.avatar
  <2>1. "render" \in JobSteps /\ Opens(a) \in Nat /\ ctx.avatar \in AnyAvatar
    BY <1>4, <1>5, PanelBounds DEF JobSteps, Item, AnyAvatar, CtxRow
  <2>2. job' = [job EXCEPT !.pc = "render", !.item = Opens(a), !.avatar = ctx.avatar] BY <1>1, Zenon
  <2>. HIDE DEF a
  <2>. QED BY <1>5, <2>1, <2>2, JobAtItem, Zenon
<1>9. job.by \in Render /\ job.panel = renders[job.by].panel BY <1>2, Zenon DEF IInv, PressOK
<1>10. ShownOK'
  <2>. SUFFICES ASSUME NEW q \in Panel, slots[q].active, ~Torn(q)' PROVE Shown(q)'
    BY <1>1, Zenon DEF ShownOK
  <2>1. ~Torn(q) BY <1>1, Zenon DEF Torn, Render
  <2>2. q = job.panel
    <3>1. slots[job.panel].active /\ job.panel \in Panel
      BY <1>2, <1>9, RowFacts, Zenon DEF IInv, PressOK, RenderRow
    <3>. QED BY <3>1, ActiveFound, Zenon DEF IInv
  <2>3. keyboard[q] = job.by /\ Shown(q) BY <1>2, <2>1, <2>2, PressedIsShown, Zenon
  <2>4. renders[job.by].view.do = "hist" => ctx'.avatar = ctx.avatar
    BY <1>1, <1>3, <1>7, Zenon DEF Lists
  <2>. QED BY <1>1, <2>3, <2>4, Zenon DEF Shown
<1>11. SelectionAsShown'
  <2>. SUFFICES ASSUME a.page = 0, ~Torn(renders[job.by].panel)
                PROVE  /\ job'.item = a.index
                       /\ a.do = "sel_hist" => job'.avatar = renders[job.by].avatar
    BY <1>1, <1>8 DEF SelectionAsShown, Torn, Render
  <2>1. keyboard[job.panel] = job.by /\ Shown(job.panel) BY <1>2, <1>9, PressedIsShown, Zenon
  <2>2. a.do = "sel_hist" => renders[job.by].avatar = ctx.avatar BY <1>3, <2>1, Zenon DEF Shown
  <2>. QED BY <1>4, <1>8, <2>2, Zenon
<1>12. /\ DOMAIN acts' = DOMAIN acts /\ \A t \in DOMAIN acts : acts'[t] \in ActRow
       /\ ActsAtMostOnce'
  BY <1>1, Zenon DEF IInv, Types, ActsAtMostOnce
<1>13. job'.pc \in Pressed \ {"claim", "confirm"} BY <1>8, Zenon DEF Pressed
<1>14. job'.act.do \in Lists \union {"sel_mdl_id", "rst_mdl"} BY <1>1, <1>8, Zenon
<1>. QED BY <1>1, <1>2, <1>5, <1>7, <1>8, <1>10, <1>11, <1>12, <1>13, <1>14, PressMoves, Zenon

LEMMA SelectModelKeeps == ASSUME IInv, SelectModel PROVE IInv'
<1>. DEFINE a == job.act
<1>1. /\ job.pc = "act" /\ a.do \in {"sel_mdl_id", "rst_mdl"}
      /\ job' = [job EXCEPT !.pc = "render"]
      /\ UNCHANGED <<version, renders, acts, slots, keyboard, faults>>
  BY Zenon DEF SelectModel, At, tables, Goto
<1>2. ctx' = [ctx EXCEPT !.models[a.purpose] = a.name] BY Zenon DEF SelectModel
<1>3. job.pc \in Pressed BY <1>1, Zenon DEF Pressed
<1>4. a \in Action BY <1>3, PressedAct, Zenon
<1>5. ctx \in CtxRow /\ job \in JobRow /\ faults \in 0 .. MaxFaults BY Zenon DEF IInv, Types
<1>6. ctx' \in CtxRow /\ ctx'.avatar = ctx.avatar
  <2>1. a.purpose \in Purpose /\ a.name \in Model \union {<<>>} BY <1>4, Zenon DEF Action
  <2>. DEFINE models == [ctx.models EXCEPT ![a.purpose] = a.name]
  <2>2. models \in [Purpose -> Model \union {<<>>}] BY <1>5, <2>1, Zenon DEF CtxRow
  <2>3. ctx' = [ctx EXCEPT !.models = models] BY <1>2, Zenon
  <2>. HIDE DEF models, a
  <2>. QED BY <1>5, <2>2, <2>3, Zenon DEF CtxRow
<1>7. /\ job' \in JobRow /\ job'.pc = "render" /\ job'.by = job.by /\ job'.act = job.act
      /\ job'.user = job.user /\ job'.panel = job.panel
  <2>1. "render" \in JobSteps BY Zenon DEF JobSteps
  <2>. QED BY <1>1, <1>5, <2>1, JobAt, Zenon
<1>8. ShownOK' BY <1>1, <1>6, QuietKeeps, Zenon
<1>9. SelectionAsShown' BY <1>1, <1>7, Zenon DEF SelectionAsShown, Lists
<1>10. /\ DOMAIN acts' = DOMAIN acts /\ \A t \in DOMAIN acts : acts'[t] \in ActRow
       /\ ActsAtMostOnce'
  BY <1>1, Zenon DEF IInv, Types, ActsAtMostOnce
<1>11. job'.pc \in Pressed \ {"claim", "confirm"} BY <1>7, Zenon DEF Pressed
<1>12. job'.act.do \in Lists \union {"sel_mdl_id", "rst_mdl"} BY <1>1, <1>7, Zenon
<1>. QED BY <1>1, <1>3, <1>5, <1>6, <1>7, <1>8, <1>9, <1>10, <1>11, <1>12, PressMoves, Zenon

LEMMA FaultCounted == ASSUME Types, Fault \/ UNCHANGED faults PROVE faults' \in 0 .. MaxFaults
BY PanelBounds DEF Types, Fault

LEMMA ActFailsKeeps == ASSUME IInv, ActFails PROVE IInv'
<1>1. /\ job.pc \in {"act", "render"} /\ job' = [job EXCEPT !.pc = "fail"]
      /\ UNCHANGED <<ctx, version, renders, acts, slots, keyboard>> /\ Fault
  BY Zenon DEF ActFails, Goto, world, tables
<1>2. job.pc \in Pressed BY <1>1, Zenon DEF Pressed
<1>3. /\ job' \in JobRow /\ job'.pc = "fail" /\ job'.by = job.by /\ job'.act = job.act
      /\ job'.user = job.user /\ job'.panel = job.panel
  <2>1. "fail" \in JobSteps /\ job \in JobRow BY Zenon DEF JobSteps, IInv, Types
  <2>. QED BY <1>1, <2>1, JobAt, Zenon
<1>4. ShownOK' BY <1>1, QuietKeeps, Zenon
<1>5. SelectionAsShown' BY <1>3, Zenon DEF SelectionAsShown, At
<1>6. ctx' \in CtxRow /\ faults' \in 0 .. MaxFaults BY <1>1, FaultCounted, Zenon DEF IInv, Types
<1>7. /\ DOMAIN acts' = DOMAIN acts /\ \A t \in DOMAIN acts : acts'[t] \in ActRow
      /\ ActsAtMostOnce'
  BY <1>1, Zenon DEF IInv, Types, ActsAtMostOnce
<1>8. job'.pc \in Pressed \ {"claim", "confirm"} BY <1>3, Zenon DEF Pressed
<1>. QED BY <1>1, <1>2, <1>3, <1>4, <1>5, <1>6, <1>7, <1>8, PressMoves, Zenon

(* The update ends, and nothing but rows of actions and faults is written.    *)
LEMMA LeaveKeeps ==
    ASSUME IInv, job' = Idle, UNCHANGED <<ctx, renders, slots, keyboard>>,
           version' \in 0 .. MaxChanges, faults' \in 0 .. MaxFaults,
           DOMAIN acts' = DOMAIN acts, \A t \in DOMAIN acts : acts'[t] \in ActRow, ActsAtMostOnce'
    PROVE  IInv'
<1>1. CommandOK' /\ PressOK' /\ SelectionAsShown' /\ job' \in JobRow BY Idling, Zenon
<1>2. SlotsOK' /\ SentOK' /\ ShownOK' BY QuietKeeps, Zenon
<1>3. ctx' \in CtxRow BY Zenon DEF IInv, Types
<1>4. Types' BY <1>1, <1>3, QuietTypes, Zenon
<1>. QED BY <1>1, <1>2, <1>4, Zenon DEF IInv

LEMMA FailActionKeeps == ASSUME IInv, FailActionEffect PROVE IInv'
<1>1. /\ job.pc = "fail" /\ SetAct("failed", Runs(Token)) /\ job' = Idle
      /\ UNCHANGED <<ctx, version, renders, slots, keyboard, faults>>
  BY Zenon DEF FailActionEffect, At, Leave, world
<1>2. job.pc \in Pressed BY <1>1, Zenon DEF Pressed
<1>3. /\ DOMAIN acts' = DOMAIN acts /\ \A t \in DOMAIN acts : acts'[t] \in ActRow
      /\ ActsAtMostOnce'
  <2>1. Runs(Token) \in 0 .. 1 BY <1>2, RunsAtMostOne, Zenon
  <2>. QED BY <1>1, <1>2, <2>1, SetActRow, Zenon
<1>4. version' \in 0 .. MaxChanges /\ faults' \in 0 .. MaxFaults BY <1>1, Zenon DEF IInv, Types
<1>. QED BY <1>1, <1>3, <1>4, LeaveKeeps, Zenon

LEMMA CompleteActionKeeps == ASSUME IInv, CompleteActionEffect PROVE IInv'
<1>1. /\ job.pc = "complete" /\ SetAct("sent", Runs(Token))
      /\ UNCHANGED <<ctx, version, renders, slots, keyboard, faults>>
      /\ \/ job' = Idle
         \/ job.view # Nothing /\ job' = [job EXCEPT !.pc = "replace"]
  BY Zenon DEF CompleteActionEffect, At, Leave, Goto, world
<1>2. job.pc \in Pressed BY <1>1, Zenon DEF Pressed
<1>3. /\ DOMAIN acts' = DOMAIN acts /\ \A t \in DOMAIN acts : acts'[t] \in ActRow
      /\ ActsAtMostOnce'
  <2>1. Runs(Token) \in 0 .. 1 BY <1>2, RunsAtMostOne, Zenon
  <2>. QED BY <1>1, <1>2, <2>1, SetActRow, Zenon
<1>4. version' \in 0 .. MaxChanges /\ faults' \in 0 .. MaxFaults /\ ctx' \in CtxRow
  BY <1>1, Zenon DEF IInv, Types
<1>5. CASE job' = Idle BY <1>1, <1>3, <1>4, <1>5, LeaveKeeps, Zenon
<1>6. CASE job.view # Nothing /\ job' = [job EXCEPT !.pc = "replace"]
  <2>1. /\ job' \in JobRow /\ job'.pc = "replace" /\ job'.by = job.by /\ job'.act = job.act
        /\ job'.user = job.user /\ job'.panel = job.panel /\ job'.view = job.view
    <3>1. "replace" \in JobSteps /\ job \in JobRow BY Zenon DEF JobSteps, IInv, Types
    <3>. QED BY <1>6, <3>1, JobAt, Zenon
  <2>2. job'.view # Nothing /\ job'.view \in Action /\ job'.view.do \in Views
    BY <1>1, <1>6, <2>1, Zenon DEF IInv, PressOK, At
  <2>3. ShownOK' BY <1>1, QuietKeeps, Zenon
  <2>4. SelectionAsShown' BY <2>1, Zenon DEF SelectionAsShown, At
  <2>5. job'.pc \in Pressed \ {"claim", "confirm"} BY <2>1, Zenon DEF Pressed
  <2>. QED BY <1>1, <1>2, <1>3, <1>4, <2>1, <2>2, <2>3, <2>4, <2>5, PressMoves, Zenon
<1>. QED BY <1>1, <1>5, <1>6, Zenon

LEMMA CompleteActionFailsKeeps == ASSUME IInv, CompleteActionFails PROVE IInv'
<1>1. /\ job.pc = "complete" /\ job' = Idle /\ Fault
      /\ UNCHANGED <<ctx, version, renders, slots, keyboard>>
      /\ SetAct("unknown", Runs(Token)) \/ UNCHANGED acts
  BY Zenon DEF CompleteActionFails, At, Leave, world
<1>2. job.pc \in Pressed BY <1>1, Zenon DEF Pressed
<1>3. /\ DOMAIN acts' = DOMAIN acts /\ \A t \in DOMAIN acts : acts'[t] \in ActRow
      /\ ActsAtMostOnce'
  <2>1. Runs(Token) \in 0 .. 1 BY <1>2, RunsAtMostOne, Zenon
  <2>2. CASE SetAct("unknown", Runs(Token)) BY <1>2, <2>1, <2>2, SetActRow, Zenon
  <2>3. CASE UNCHANGED acts BY <2>3, Zenon DEF IInv, Types, ActsAtMostOnce
  <2>. QED BY <1>1, <2>2, <2>3, Zenon
<1>4. version' \in 0 .. MaxChanges /\ faults' \in 0 .. MaxFaults
  BY <1>1, FaultCounted, Zenon DEF IInv, Types
<1>. QED BY <1>1, <1>3, <1>4, LeaveKeeps, Zenon

-----------------------------------------------------------------------------
(* A panel is replaced.                                                       *)
LEMMA Replaces ==
    ASSUME IInv, At("replace")
    PROVE  /\ job.panel \in Panel /\ job.panel <= Len(keyboard)
           /\ BoundRevision(job.panel) \in Nat
           /\ BoundRevision(job.panel) = slots[job.panel].rev + 1
           /\ job.user \in User /\ job.view \in Action /\ job.view.do \in Views
<1>1. Types /\ SlotsOK BY Zenon DEF IInv
<1>2. /\ job.by \in Render /\ job.panel = renders[job.by].panel /\ slots[job.panel].active
      /\ job.user \in User /\ job.view # Nothing
  BY Zenon DEF IInv, PressOK, At, Pressed
<1>3. job.view \in Action /\ job.view.do \in Views BY <1>2, Zenon DEF IInv, PressOK, At
<1>4. job.panel \in Panel BY <1>1, <1>2, RowFacts, Zenon DEF RenderRow
<1>5. job.panel <= Len(keyboard) BY <1>1, <1>2, <1>4, Zenon DEF SlotsOK
<1>6. slots[job.panel].rev \in Nat BY <1>1, <1>4, RowFacts, Zenon DEF SlotRow
<1>. QED BY <1>2, <1>3, <1>4, <1>5, <1>6 DEF BoundRevision, NextRevision

LEMMA ReplaceKeeps == ASSUME IInv, Replace PROVE IInv'
<1>. DEFINE n == Len(renders) + 1
            rev == BoundRevision(job.panel)
<1>1. /\ At("replace") /\ UNCHANGED <<ctx, version, acts, slots, faults>>
      /\ Show(job.panel, rev, "sending") /\ job' = [job EXCEPT !.pc = "confirm", !.new = n]
  BY Zenon DEF Replace, world
<1>2. /\ job.panel \in Panel /\ job.panel <= Len(keyboard) /\ rev \in Nat
      /\ rev = slots[job.panel].rev + 1
      /\ job.user \in User /\ job.view \in Action /\ job.view.do \in Views
  BY <1>1, Replaces, Zenon
<1>3. Types BY Zenon DEF IInv
<1>4. Len(renders) \in Nat /\ job \in JobRow /\ faults \in 0 .. MaxFaults BY <1>3, RowFacts, Zenon DEF Types
<1>5. /\ job' \in JobRow /\ job'.pc = "confirm" /\ job'.new = n /\ job'.panel = job.panel
      /\ job'.user = job.user /\ job'.by = job.by /\ job'.act = job.act
  <2>1. "confirm" \in JobSteps /\ n \in Nat BY <1>4 DEF JobSteps
  <2>2. job' = [job EXCEPT !.pc = "confirm", !.new = n] BY <1>1, Zenon
  <2>. HIDE DEF n
  <2>. QED BY <1>4, <2>1, <2>2, JobAtNew, Zenon
<1>. HIDE DEF rev
<1>6. /\ Render' = 1 .. n /\ \A r \in Render : renders'[r] = renders[r]
      /\ renders'[n].panel = job.panel /\ renders'[n].rev = rev /\ renders'[n].effect = "sending"
      /\ renders'[n].avatar = ctx.avatar /\ Len(keyboard') = Len(keyboard)
      /\ keyboard'[job.panel] = n
  BY <1>1, <1>2, ShowRow
<1>7. Types' /\ SlotsOK' /\ SentOK' /\ ShownOK' /\ ActsAtMostOnce'
  BY <1>1, <1>2, <1>4, <1>5, ShowKeeps, Zenon
<1>8. /\ job.by \in Render /\ job.act \in Buttons(renders[job.by].view)
      /\ Token \in DOMAIN acts
      /\ job.user \in User /\ job.panel = renders[job.by].panel
      /\ slots[job.panel].active /\ renders[job.by].rev = slots[job.panel].rev
  BY <1>1, Zenon DEF IInv, PressOK, At, Pressed
<1>. HIDE DEF n
<1>9. n \in Render' /\ job.by \in Render' BY <1>4, <1>6, <1>8 DEF n, Render
<1>10. Token' = Token BY <1>5, Zenon DEF Token
<1>11. NewRender(slots[job.panel].rev + 1)'
  BY <1>1, <1>2, <1>5, <1>6, <1>9, Zenon DEF NewRender
<1>12. PressOK'
  <2>1. job'.by \in Render' /\ job'.act \in Buttons(renders'[job'.by].view)
    BY <1>5, <1>6, <1>8, <1>9, Zenon
  <2>2. /\ Token' \in DOMAIN acts' /\ job'.user \in User /\ job'.panel = renders'[job'.by].panel
        /\ slots'[job'.panel].active /\ renders'[job'.by].rev = slots'[job'.panel].rev
    BY <1>1, <1>5, <1>6, <1>8, <1>10
  <2>. QED BY <1>5, <1>11, <2>1, <2>2, Zenon DEF PressOK, At, Pressed
<1>13. CommandOK' /\ SelectionAsShown' BY <1>5, Zenon DEF CommandOK, SelectionAsShown, At, Opened
<1>. QED BY <1>7, <1>12, <1>13, Zenon DEF IInv

LEMMA ReplaceFailsKeeps == ASSUME IInv, ReplaceFails PROVE IInv'
<1>1. /\ At("replace") /\ UNCHANGED <<ctx, version, acts, slots>> /\ Fault /\ job' = Idle
      /\ \/ Show(job.panel, BoundRevision(job.panel), "failed")
         \/ UNCHANGED <<renders, keyboard>>
  BY Zenon DEF ReplaceFails, world, Leave
<1>2. CommandOK' /\ PressOK' /\ SelectionAsShown' /\ job' \in JobRow BY <1>1, Idling, Zenon
<1>3. version' \in 0 .. MaxChanges /\ faults' \in 0 .. MaxFaults
  BY <1>1, FaultCounted, Zenon DEF IInv, Types
<1>4. CASE Show(job.panel, BoundRevision(job.panel), "failed")
  <2>1. Types' /\ SlotsOK' /\ SentOK' /\ ShownOK' /\ ActsAtMostOnce'
    BY <1>1, <1>2, <1>3, <1>4, Replaces, ShowKeeps, Zenon
  <2>. QED BY <1>2, <2>1, Zenon DEF IInv
<1>5. CASE UNCHANGED <<renders, keyboard>>
  BY <1>1, <1>3, <1>5, LeaveKeeps, Zenon DEF IInv, Types, ActsAtMostOnce
<1>. QED BY <1>1, <1>4, <1>5, Zenon

(* The outcome of a replacement is recorded: the new render is ahead of every *)
(* one the slot knows of.                                                     *)
LEMMA Confirms ==
    ASSUME IInv, At("confirm")
    PROVE  /\ job.new \in Render /\ job.panel \in Panel /\ job.panel <= Len(keyboard)
           /\ keyboard[job.panel] = job.new /\ job.new # 0
           /\ renders[job.new].panel = job.panel /\ renders[job.new].effect = "sending"
           /\ renders[job.new].rev = slots[job.panel].rev + 1
           /\ renders[job.new].avatar = ctx.avatar
           /\ slots[job.panel].active /\ slots[job.panel] \in SlotRow
<1>1. NewRender(slots[job.panel].rev + 1) /\ slots[job.panel].active
  BY Zenon DEF IInv, PressOK, At, Pressed
<1>2. Types BY Zenon DEF IInv
<1>3. job.new \in Render => job.new # 0 BY <1>2, RowFacts
<1>. QED BY <1>1, <1>2, <1>3, RowFacts, Zenon DEF NewRender

LEMMA CompleteReplaceFailsKeeps == ASSUME IInv, CompleteReplaceFails PROVE IInv'
<1>1. /\ At("confirm") /\ UNCHANGED <<ctx, version, acts, slots, keyboard>> /\ Fault
      /\ SetEffect("failed") /\ job' = Idle
  BY Zenon DEF CompleteReplaceFails, world, Leave
<1>2. CommandOK' /\ PressOK' /\ SelectionAsShown' /\ job' \in JobRow BY <1>1, Idling, Zenon
<1>3. Types /\ SlotsOK /\ SentOK /\ ShownOK BY Zenon DEF IInv
<1>4. faults' \in 0 .. MaxFaults /\ slots' \in [Panel -> SlotRow]
  BY <1>1, <1>3, FaultCounted, Zenon DEF Types
<1>5. job.new \in Render /\ renders[job.new].panel = job.panel /\ renders[job.new].effect = "sending"
  BY <1>1, Confirms, Zenon
<1>6. /\ Render' = Render /\ renders'[job.new].effect = "failed"
      /\ \A r \in Render : r # job.new => renders'[r] = renders[r]
      /\ \A r \in Render :
            /\ renders'[r].panel = renders[r].panel /\ renders'[r].rev = renders[r].rev
            /\ renders'[r].view = renders[r].view /\ renders'[r].avatar = renders[r].avatar
  BY <1>1, <1>5, EffectRow, Zenon
<1>7. Types' /\ ActsAtMostOnce' BY <1>1, <1>2, <1>4, <1>5, EffectTypes, Zenon
<1>8. SlotsOK'
  <2>1. \A r \in Render' : renders'[r].panel <= Len(keyboard) BY <1>3, <1>6, Zenon DEF SlotsOK
  <2>. QED BY <1>1, <1>3, <2>1, Zenon DEF SlotsOK
<1>9. SentOK'
  <2>1. \A q \in Panel : \A r \in Sent(q)' : r \in Sent(q) /\ renders'[r] = renders[r]
    BY <1>6, Zenon DEF Sent
  <2>. QED BY <1>1, <1>3, <2>1, Zenon DEF SentOK
<1>10. ShownOK'
  <2>. SUFFICES ASSUME NEW q \in Panel, slots[q].active, ~Torn(q)' PROVE Shown(q)'
    BY <1>1, Zenon DEF ShownOK
  <2>1. q # job.panel BY <1>5, <1>6, Zenon DEF Torn
  <2>2. ~Torn(q) BY <1>5, <1>6, <2>1 DEF Torn
  <2>3. Shown(q) BY <1>3, <2>2, Zenon DEF ShownOK
  <2>4. keyboard[q] \in Render
    <3>1. q \in 1 .. Len(keyboard) BY <1>3, RowFacts DEF SlotsOK
    <3>. QED BY <1>3, <2>3, <3>1, RowFacts DEF Shown
  <2>. QED BY <1>1, <1>6, <2>3, <2>4, Zenon DEF Shown
<1>. QED BY <1>2, <1>7, <1>8, <1>9, <1>10, Zenon DEF IInv

LEMMA CompletePanelReplaceKeeps == ASSUME IInv, CompletePanelReplace PROVE IInv'
<1>. DEFINE row == [slots[job.panel] EXCEPT !.rev = slots[job.panel].rev + 1]
<1>1. /\ At("confirm") /\ UNCHANGED <<ctx, version, acts, keyboard, faults>>
      /\ SetEffect("sent") /\ job' = Idle
  BY Zenon DEF CompletePanelReplace, world, Leave
<1>2. slots' = [slots EXCEPT ![job.panel] = row] BY Zenon DEF CompletePanelReplace, NextRevision
<1>3. CommandOK' /\ PressOK' /\ SelectionAsShown' /\ job' \in JobRow BY <1>1, Idling, Zenon
<1>4. Types /\ SlotsOK /\ SentOK /\ ShownOK BY Zenon DEF IInv
<1>5. /\ job.new \in Render /\ job.panel \in Panel /\ job.panel <= Len(keyboard)
      /\ keyboard[job.panel] = job.new /\ job.new # 0
      /\ renders[job.new].panel = job.panel /\ renders[job.new].effect = "sending"
      /\ renders[job.new].rev = slots[job.panel].rev + 1
      /\ renders[job.new].avatar = ctx.avatar
      /\ slots[job.panel].active /\ slots[job.panel] \in SlotRow
  BY <1>1, Confirms, Zenon
<1>6. /\ row \in SlotRow /\ row.rev = slots[job.panel].rev + 1
      /\ row.active = slots[job.panel].active /\ row.saved = slots[job.panel].saved
  <2>1. \A was \in SlotRow :
           LET new == [was EXCEPT !.rev = was.rev + 1] IN
           /\ new \in SlotRow /\ new.rev = was.rev + 1
           /\ new.active = was.active /\ new.saved = was.saved
    BY DEF SlotRow
  <2>. QED BY <1>5, <2>1, Zenon
<1>. HIDE DEF row
<1>7. /\ slots' \in [Panel -> SlotRow] /\ slots'[job.panel].rev = slots[job.panel].rev + 1
      /\ \A q \in Panel : /\ q # job.panel => slots'[q] = slots[q]
                          /\ slots'[q].active = slots[q].active /\ slots'[q].saved = slots[q].saved
  BY <1>2, <1>4, <1>5, <1>6, Zenon DEF Types
<1>8. /\ Render' = Render /\ renders'[job.new].effect = "sent"
      /\ \A r \in Render : r # job.new => renders'[r] = renders[r]
      /\ \A r \in Render :
            /\ renders'[r].panel = renders[r].panel /\ renders'[r].rev = renders[r].rev
            /\ renders'[r].view = renders[r].view /\ renders'[r].avatar = renders[r].avatar
  BY <1>1, <1>5, EffectRow, Zenon
<1>9. faults' \in 0 .. MaxFaults BY <1>1, <1>4, Zenon DEF Types
<1>10. Types' /\ ActsAtMostOnce' BY <1>1, <1>3, <1>5, <1>7, <1>9, EffectTypes, Zenon
<1>11. SlotsOK'
  <2>1. \A r \in Render' : renders'[r].panel <= Len(keyboard) BY <1>4, <1>8, Zenon DEF SlotsOK
  <2>. QED BY <1>1, <1>4, <1>7, <2>1, Zenon DEF SlotsOK
<1>12. SentOK'
  <2>. SUFFICES ASSUME NEW q \in Panel
                PROVE  /\ \A r \in Sent(q)' : renders'[r].rev <= slots'[q].rev
                       /\ \A r, t \in Sent(q)' : renders'[r].rev = renders'[t].rev => r = t
    BY Zenon DEF SentOK
  <2>1. CASE q = job.panel
    <3>1. \A r \in Sent(q)' : r = job.new \/ r \in Sent(q) BY <1>8, Zenon DEF Sent
    <3>2. \A r \in Sent(q) : renders[r].rev \in Nat /\ r \in Render BY <1>4, RowFacts, Zenon DEF Sent, RenderRow
    <3>3. slots[q].rev \in Nat BY <1>5, <2>1, Zenon DEF SlotRow
    <3>4. renders'[job.new].rev = slots[q].rev + 1 /\ slots'[q].rev = slots[q].rev + 1
      BY <1>5, <1>7, <1>8, <2>1, Zenon
    <3>5. \A r \in Sent(q) : renders'[r].rev = renders[r].rev /\ renders[r].rev <= slots[q].rev
      BY <1>4, <1>8, <3>2, Zenon DEF SentOK
    <3>6. \A r \in Sent(q)' : renders'[r].rev <= slots'[q].rev BY <3>1, <3>2, <3>3, <3>4, <3>5
    <3>7. ASSUME NEW r \in Sent(q)', NEW t \in Sent(q)', renders'[r].rev = renders'[t].rev
          PROVE  r = t
      <4>1. CASE r = job.new /\ t \in Sent(q) BY <3>2, <3>3, <3>4, <3>5, <3>7, <4>1
      <4>2. CASE t = job.new /\ r \in Sent(q) BY <3>2, <3>3, <3>4, <3>5, <3>7, <4>2
      <4>3. CASE r \in Sent(q) /\ t \in Sent(q) BY <1>4, <3>5, <3>7, <4>3, Zenon DEF SentOK
      <4>. QED BY <3>1, <4>1, <4>2, <4>3, Zenon
    <3>. QED BY <3>6, <3>7, Zenon
  <2>2. CASE q # job.panel
    <3>1. \A r \in Sent(q)' : r \in Sent(q) /\ renders'[r] = renders[r]
      BY <1>5, <1>8, <2>2 DEF Sent
    <3>. QED BY <1>4, <1>7, <2>2, <3>1 DEF SentOK
  <2>. QED BY <2>1, <2>2, Zenon
<1>13. ShownOK'
  <2>. SUFFICES ASSUME NEW q \in Panel, slots[q].active, ~Torn(q)' PROVE Shown(q)'
    BY <1>7, Zenon DEF ShownOK
  <2>1. q = job.panel BY <1>4, <1>5, ActiveFound, Zenon
  <2>2. keyboard' = keyboard /\ ctx' = ctx BY <1>1, Zenon
  <2>3. /\ renders'[job.new].panel = job.panel /\ renders'[job.new].avatar = ctx.avatar
        /\ renders'[job.new].rev = slots'[job.panel].rev
    BY <1>5, <1>7, <1>8, Zenon
  <2>4. keyboard[q] = job.new /\ job.new # 0 BY <1>5, <2>1, Zenon
  <2>. QED BY <2>1, <2>2, <2>3, <2>4, Zenon DEF Shown
<1>. QED BY <1>3, <1>10, <1>11, <1>12, <1>13, Zenon DEF IInv

LEMMA PanelForgottenKeeps == ASSUME IInv, PanelForgotten PROVE IInv'
<1>1. UNCHANGED <<ctx, version, renders, acts, slots, keyboard>> /\ Fault /\ job' = Idle
  BY Zenon DEF PanelForgotten, world, tables, Leave
<1>2. version' \in 0 .. MaxChanges /\ faults' \in 0 .. MaxFaults
  BY <1>1, FaultCounted, Zenon DEF IInv, Types
<1>. QED BY <1>1, <1>2, LeaveKeeps, Zenon DEF IInv, Types, ActsAtMostOnce

LEMMA InterruptedKeeps == ASSUME IInv, Interrupted PROVE IInv'
<1>1. /\ UNCHANGED <<ctx, version, acts, slots>> /\ Fault /\ job' = Idle
      /\ \/ UNCHANGED <<keyboard, renders>>
         \/ At("create") /\ keyboard' = Append(keyboard, 0) /\ UNCHANGED renders
         \/ At("keys") /\ Show(job.panel, 0, "sending")
         \/ At("replace") /\ Show(job.panel, BoundRevision(job.panel), "sending")
  BY Zenon DEF Interrupted, world, Leave
<1>2. CommandOK' /\ PressOK' /\ SelectionAsShown' /\ job' \in JobRow BY <1>1, Idling, Zenon
<1>3. version' \in 0 .. MaxChanges /\ faults' \in 0 .. MaxFaults
  BY <1>1, FaultCounted, Zenon DEF IInv, Types
<1>4. CASE UNCHANGED <<keyboard, renders>>
  BY <1>1, <1>3, <1>4, LeaveKeeps, Zenon DEF IInv, Types, ActsAtMostOnce
<1>5. CASE At("create") /\ keyboard' = Append(keyboard, 0) /\ UNCHANGED renders
  <2>1. Len(keyboard) < MaxPanels BY <1>5, Zenon DEF IInv, CommandOK
  <2>2. Types' /\ SlotsOK' /\ SentOK' /\ ShownOK' /\ ActsAtMostOnce'
    BY <1>1, <1>2, <1>3, <1>5, <2>1, NewMessage, Zenon
  <2>. QED BY <1>2, <2>2, Zenon DEF IInv
<1>6. CASE At("keys") /\ Show(job.panel, 0, "sending")
  <2>1. /\ job.user \in User /\ job.view \in Action /\ job.view.do \in Views
        /\ job.panel = Len(keyboard) /\ job.panel \in Panel
    BY <1>6, Zenon DEF IInv, CommandOK, At, Opened
  <2>2. job.panel <= Len(keyboard) BY <2>1, RowFacts DEF IInv
  <2>3. Types' /\ SlotsOK' /\ SentOK' /\ ShownOK' /\ ActsAtMostOnce'
    BY <1>1, <1>2, <1>3, <1>6, <2>1, <2>2, ShowKeeps, Zenon
  <2>. QED BY <1>2, <2>3, Zenon DEF IInv
<1>7. CASE At("replace") /\ Show(job.panel, BoundRevision(job.panel), "sending")
  <2>1. Types' /\ SlotsOK' /\ SentOK' /\ ShownOK' /\ ActsAtMostOnce'
    BY <1>1, <1>2, <1>3, <1>7, Replaces, ShowKeeps, Zenon
  <2>. QED BY <1>2, <2>1, Zenon DEF IInv
<1>. QED BY <1>1, <1>4, <1>5, <1>6, <1>7, Zenon

LEMMA ListsChangeKeeps == ASSUME IInv, ListsChange PROVE IInv'
<1>1. /\ job.pc = "idle" /\ version < MaxChanges /\ version' = version + 1
      /\ UNCHANGED <<ctx, renders, acts, slots, keyboard, job, faults>>
  BY Zenon DEF ListsChange, At, tables
<1>2. version' \in 0 .. MaxChanges BY <1>1, PanelBounds DEF IInv, Types
<1>3. Types' BY <1>1, <1>2, Zenon DEF IInv, Types, Render
<1>4. SlotsOK' /\ SentOK' /\ ShownOK' BY <1>1, QuietKeeps, Zenon
<1>5. CommandOK' /\ PressOK' /\ SelectionAsShown'
  BY <1>1, Zenon DEF CommandOK, PressOK, SelectionAsShown, At, Opened, Pressed
<1>6. ActsAtMostOnce' BY <1>1, Zenon DEF IInv, ActsAtMostOnce
<1>. QED BY <1>3, <1>4, <1>5, <1>6, Zenon DEF IInv

-----------------------------------------------------------------------------
LEMMA InitOK == Init => IInv
<1>. SUFFICES ASSUME Init PROVE IInv BY Zenon
<1>. USE DEF Init
<1>1. /\ renders = <<>> /\ keyboard = <<>> /\ acts = <<>> /\ job = Idle
      /\ slots = [p \in Panel |-> NoSlot]
  BY Zenon
<1>2. Render = {} /\ Len(renders) = 0 /\ Len(keyboard) = 0 BY <1>1 DEF Render
<1>3. DOMAIN acts = {} BY <1>1
<1>4. NoSlot \in SlotRow /\ ~NoSlot.active /\ ~NoSlot.saved BY Zenon DEF NoSlot, SlotRow
<1>5. Types
  <2>1. ctx \in CtxRow BY Zenon DEF CtxRow
  <2>2. renders \in Seq(RenderRow) /\ keyboard \in Seq(0 .. Len(renders)) BY <1>1
  <2>3. slots \in [Panel -> SlotRow] BY <1>1, <1>4, Zenon
  <2>4. version \in 0 .. MaxChanges /\ faults \in 0 .. MaxFaults /\ Len(keyboard) <= MaxPanels
    BY <1>2, PanelBounds
  <2>. QED BY <1>1, <1>2, <1>3, <2>1, <2>2, <2>3, <2>4, Names, Zenon DEF Types
<1>6. \A p \in Panel : ~slots[p].active /\ ~slots[p].saved BY <1>1, <1>4, Zenon
<1>7. SlotsOK /\ SentOK /\ ShownOK BY <1>2, <1>6, Zenon DEF SlotsOK, SentOK, Sent, ShownOK
<1>8. CommandOK /\ PressOK /\ SelectionAsShown
  BY <1>1, Names, Zenon DEF CommandOK, PressOK, SelectionAsShown, At, Opened, Pressed
<1>9. ActsAtMostOnce BY <1>3, Zenon DEF ActsAtMostOnce
<1>. QED BY <1>5, <1>7, <1>8, <1>9, Zenon DEF IInv

LEMMA NextOK == IInv /\ [Next]_vars => IInv'
<1>. SUFFICES ASSUME IInv, [Next]_vars PROVE IInv' BY Zenon
<1>1. CASE Opening
  BY <1>1, CommandKeeps, CreatePanelKeeps, AddKeyboardKeeps, SaveSlotKeeps, RetireKeyboardKeeps, Zenon
     DEF Opening
<1>2. CASE Callback
  BY <1>2, ConsumeKeeps, ClaimKeeps, ActViewKeeps, SelectItemKeeps, SelectModelKeeps,
     SelectStaleKeeps, RenderNextKeeps, ActFailsKeeps, FailActionKeeps, CompleteActionKeeps,
     CompleteActionFailsKeeps, Zenon
     DEF Callback
<1>3. CASE Replacing
  BY <1>3, ReplaceKeeps, ReplaceFailsKeeps, CompletePanelReplaceKeeps, CompleteReplaceFailsKeeps,
     PanelForgottenKeeps, Zenon
     DEF Replacing
<1>4. CASE UNCHANGED vars
  <2>1. UNCHANGED <<ctx, version, renders, acts, slots, keyboard, job, faults>> BY <1>4, Zenon DEF vars
  <2>2. Types' BY <2>1, Zenon DEF IInv, Types, Render
  <2>3. SlotsOK' /\ SentOK' /\ ShownOK' BY <2>1, QuietKeeps, Zenon
  <2>4. CommandOK' BY <2>1, Zenon DEF IInv, CommandOK, At, NewRender, Render
  <2>5. PressOK' BY <2>1, Zenon DEF IInv, PressOK, At, NewRender, Render, Token
  <2>6. SelectionAsShown' /\ ActsAtMostOnce'
    BY <2>1, Zenon DEF IInv, SelectionAsShown, ActsAtMostOnce, Torn, Render, At
  <2>. QED BY <2>2, <2>3, <2>4, <2>5, <2>6, Zenon DEF IInv
<1>. QED BY <1>1, <1>2, <1>3, <1>4, InterruptedKeeps, ListsChangeKeeps, Zenon DEF Next

(* The tables of panels, effects and actions, the keyboards Telegram shows    *)
(* and the update at work stay tied together through every step, crash and    *)
(* failed call of handle_callback and apply_panel_reply.                      *)
THEOREM InductiveInvariant == Spec => []IInv
<1>. QED BY InitOK, NextOK, PTL DEF Spec

(* Every row is one the schema of telegram_panel_slots,                       *)
(* telegram_panel_effects and telegram_effects can hold.                      *)
THEOREM TypeCorrect == Spec => []TypeOK
<1>1. IInv => TypeOK
  <2>. SUFFICES ASSUME Types PROVE TypeOK BY Zenon DEF IInv
  <2>1. job.pc \in {"idle", "claim", "act", "render", "complete", "fail", "replace",
                    "confirm", "create", "keys", "save", "retire"}
    BY Zenon DEF Types, JobRow
  <2>. QED BY <2>1, Zenon DEF Types, TypeOK, CtxRow, RenderRow, ActRow, SlotRow
<1>. QED BY <1>1, InductiveInvariant, PTL

(* A button acts at most once: consume takes its token in the transaction     *)
(* that queues its action, so neither a second press nor a callback handed    *)
(* over again after a crash runs the handler twice.                           *)
THEOREM AButtonActsOnce == Spec => []ActsAtMostOnce
<1>1. IInv => ActsAtMostOnce BY Zenon DEF IInv
<1>. QED BY <1>1, InductiveInvariant, PTL

(* A selection opens what its button showed, and a chat of the character its  *)
(* panel was drawn for, though select_character, open_history and open_recent *)
(* look the index and the character up again.                                 *)
THEOREM SelectionsOpenWhatTheyShow == Spec => []SelectionAsShown
<1>1. IInv => SelectionAsShown BY Zenon DEF IInv
<1>. QED BY <1>1, InductiveInvariant, PTL

(* Between updates, the buttons of the active panel are accepted by consume:  *)
(* the revision bind_panel_callbacks bound them to is the slot's, unless an   *)
(* edit was made whose outcome complete_panel_replace did not record.         *)
THEOREM ShownButtonsAreAccepted == Spec => []ShownButtonsWork
<1>1. IInv => ShownButtonsWork
  <2>. DEFINE p == ActiveSlot
              r == keyboard[p]
  <2>. SUFFICES ASSUME IInv, p # 0, ~Torn(p)
                PROVE  r # 0 /\ \A a \in Buttons(renders[r].view) :
                          Parses(a) /\ <<r, a>> \notin DOMAIN acts
                             => Accepts(renders[r].user, r, a)
    BY Zenon DEF ShownButtonsWork
  <2>1. p \in Panel /\ slots[p].active BY ActiveFound, Zenon DEF IInv
  <2>2. Shown(p) BY <2>1, Zenon DEF IInv, ShownOK
  <2>3. r # 0 /\ renders[r].panel = p /\ renders[r].rev = slots[p].rev BY <2>2, Zenon DEF Shown
  <2>. HIDE DEF r
  <2>. QED BY <2>3, Zenon DEF Accepts
<1>. QED BY <1>1, InductiveInvariant, PTL

(* Buttons of older panels are dead: claim_action_effect starts a handler     *)
(* only for a button of the panel save_slot saved last, however late the      *)
(* press and whatever was interrupted before.                                 *)
THEOREM OldPanelsAreDead == Spec => OnlyNewestPanelActs
<1>. DEFINE Acts == \A t \in DOMAIN acts : Runs(t)' > Runs(t) =>
                       \A p \in Panel : slots[p].saved => p <= renders[t[1]].panel
<1>1. IInv /\ [Next]_vars => [Acts]_vars
  <2>. SUFFICES ASSUME IInv, Next, NEW t \in DOMAIN acts, Runs(t)' > Runs(t),
                       NEW p \in Panel, slots[p].saved
                PROVE  p <= renders[t[1]].panel
    BY Zenon
  <2>1. Runs(t) = acts[t].runs /\ Runs(t) \in Nat BY Zenon DEF Runs, IInv, Types, ActRow
  <2>2. acts' # acts BY <2>1 DEF Runs
  <2>3. ~\E u \in User, r \in Render : \E a \in Buttons(renders[r].view) : Consume(u, r, a)
    <3>. SUFFICES ASSUME NEW u \in User, NEW r \in Render, NEW a \in Buttons(renders[r].view),
                         Consume(u, r, a)
                  PROVE  FALSE
      BY Zenon
    <3>1. <<r, a>> \notin DOMAIN acts BY Zenon DEF Consume, Accepts
    <3>2. t \in DOMAIN acts' /\ acts'[t] = acts[t] BY <3>1, Zenon DEF Consume
    <3>3. Runs(t)' = acts'[t].runs BY <3>2, Zenon DEF Runs
    <3>. QED BY <2>1, <3>2, <3>3
  <2>4. ASSUME job.pc \in Pressed, NEW status, SetAct(status, Runs(Token)) PROVE FALSE
    <3>1. Token \in DOMAIN acts BY <2>4, Zenon DEF IInv, PressOK
    <3>2. t \in DOMAIN acts' /\ acts'[t].runs = acts[t].runs BY <2>4, <3>1, Zenon DEF SetAct, Runs
    <3>. QED BY <2>1, <3>2 DEF Runs
  <2>5. ~FailActionEffect /\ ~CompleteActionEffect /\ ~CompleteActionFails
    BY <2>2, <2>4, Zenon DEF FailActionEffect, CompleteActionEffect, CompleteActionFails, At, Pressed
  <2>6. ClaimActionEffect
    <3>1. ~Opening
      BY <2>2, Zenon DEF Opening, Command, CreatePanel, AddKeyboard, SaveSlot, RetireKeyboard, tables
    <3>2. ~Replacing
      BY <2>2, Zenon DEF Replacing, Replace, ReplaceFails, CompletePanelReplace, CompleteReplaceFails,
                  PanelForgotten, tables
    <3>3. ~Interrupted /\ ~ListsChange BY <2>2, Zenon DEF Interrupted, ListsChange, tables
    <3>4. ~ActView /\ ~SelectItem /\ ~SelectModel /\ ~SelectStale /\ ~RenderNext /\ ~ActFails
      BY <2>2, Zenon DEF ActView, SelectItem, SelectModel, SelectStale, RenderNext, ActFails, tables
    <3>. QED BY <2>3, <2>5, <3>1, <3>2, <3>3, <3>4, Zenon DEF Next, Callback
  <2>7. job.pc \in Pressed BY <2>6, Zenon DEF ClaimActionEffect, At, Pressed
  <2>8. t = Token
    <3>1. Token \in DOMAIN acts BY <2>7, Zenon DEF IInv, PressOK
    <3>2. t # Token => acts'[t] = acts[t] /\ t \in DOMAIN acts'
      BY <2>6, <3>1, Zenon DEF ClaimActionEffect, SetAct
    <3>. QED BY <2>1, <3>2 DEF Runs
  <2>9. /\ job.by \in Render /\ job.panel = renders[job.by].panel /\ slots[job.panel].active
    BY <2>7, Zenon DEF IInv, PressOK
  <2>10. job.panel \in Panel BY <2>9, RowFacts, Zenon DEF IInv, RenderRow
  <2>. QED BY <2>8, <2>9, <2>10, Zenon DEF Token, IInv, SlotsOK
<1>. QED BY <1>1, InductiveInvariant, PTL DEF Spec, OnlyNewestPanelActs
===============================================================================
