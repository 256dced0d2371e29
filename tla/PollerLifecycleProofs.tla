------------------------ MODULE PollerLifecycleProofs ------------------------
(* Proofs about PollerLifecycle, for every set of starts and stops and every  *)
(* number of faults.                                                          *)
EXTENDS PollerLifecycle, TLAPS

StartActs(i) == StartStep(i) \/ DropStart(i) \/ DropBeforeInsert(i)
PollerActs(i) == PollerStep(i) \/ OffsetReadFails(i) \/ PollerPanics(i)
StopActs(k) == StopStep(k) \/ WaitStep(k) \/ DropStop(k)

(* Next, grouped by the actor that takes the step.                            *)
LEMMA NextActs ==
    ASSUME Next
    PROVE  \/ \E i \in Inst : StartActs(i) \/ PollerActs(i)
           \/ \E k \in Stopper : StopActs(k)
           \/ Transfer
BY DEF Next, StartActs, PollerActs, StopActs

(* The types of the steps of start_bot.                                       *)
LEMMA StartType ==
    ASSUME TypeOK, NEW i \in Inst, StartActs(i)
    PROVE  TypeOK'
<1>. USE NoneAssumption DEF TypeOK, StartLabels, StartAt, placeVars, instVars, stopVars, faultVars
<1>1. CASE CheckRunning(i) BY <1>1 DEF CheckRunning
<1>2. CASE StartRefused(i) BY <1>2 DEF StartRefused
<1>3. CASE ReserveNumericId(i) BY <1>3 DEF ReserveNumericId
<1>4. CASE ReadEpoch(i) BY <1>4 DEF ReadEpoch
<1>5. CASE AssertCanStart(i) BY <1>5 DEF AssertCanStart
<1>6. CASE ClaimRuntime(i) BY <1>6 DEF ClaimRuntime
<1>7. CASE ClaimRejected(i) BY <1>7 DEF ClaimRejected, ReleaseActive, RegistryFault
<1>8. CASE ClaimAnswerLost(i) BY <1>8 DEF ClaimAnswerLost, ReleaseActive, RegistryFault
<1>9. CASE EnableBot(i) BY <1>9 DEF EnableBot
<1>10. CASE EnableFails(i) BY <1>10 DEF EnableFails
<1>11. CASE InsertRuntime(i) BY <1>11 DEF InsertRuntime
<1>12. CASE DropStart(i) BY <1>12 DEF DropStart, Drop
<1>13. CASE DropBeforeInsert(i) BY <1>13 DEF DropBeforeInsert, Drop
<1>. QED
  BY <1>1, <1>2, <1>3, <1>4, <1>5, <1>6, <1>7, <1>8, <1>9, <1>10, <1>11, <1>12, <1>13
  DEF StartActs, StartStep

(* The types of the steps of the poll task and of finalize_poller_exit.       *)
LEMMA PollerType ==
    ASSUME TypeOK, NEW i \in Inst, PollerActs(i)
    PROVE  TypeOK'
<1>. USE DEF TypeOK, FinAt, placeVars, instVars, stopVars, faultVars
<1>1. CASE EnterLoop(i) BY <1>1 DEF EnterLoop
<1>2. CASE ClientBuildFails(i) BY <1>2 DEF ClientBuildFails
<1>3. CASE LeaveLoop(i) BY <1>3 DEF LeaveLoop, RegistryFault
<1>4. CASE ReleaseBinding(i) BY <1>4 DEF ReleaseBinding, RegistryFault
<1>5. CASE ReleaseNumericId(i) BY <1>5 DEF ReleaseNumericId, ReleaseActive
<1>6. CASE RemoveEntry(i)
  <2>1. poller' \in [Inst -> {"none", "starting", "loop", "leaving", "panicked", "gone"}]
    BY <1>6 DEF RemoveEntry
  <2>. QED BY <1>6, <2>1 DEF RemoveEntry
<1>7. CASE OffsetReadFails(i) BY <1>7 DEF OffsetReadFails
<1>8. CASE PollerPanics(i) BY <1>8 DEF PollerPanics
<1>. QED
  BY <1>1, <1>2, <1>3, <1>4, <1>5, <1>6, <1>7, <1>8 DEF PollerActs, PollerStep

(* The types of the steps of stop_bot.                                        *)
LEMMA StopType ==
    ASSUME TypeOK, NEW k \in Stopper, StopActs(k)
    PROVE  TypeOK'
<1>. USE DEF TypeOK, StopAt, placeVars, instVars, stopVars, faultVars
<1>1. CASE BeginStop(k) BY <1>1 DEF BeginStop, CanBeStopped
<1>2. CASE StopReturns(k) BY <1>2 DEF StopReturns
<1>3. CASE JoinPoller(k) BY <1>3 DEF JoinPoller
<1>4. CASE JoinPanicked(k) BY <1>4 DEF JoinPanicked
<1>5. CASE FallbackDone(k) BY <1>5 DEF FallbackDone
<1>6. CASE DropStop(k)
  <2>1. CASE target[k] \in Inst BY <1>6, <2>1 DEF DropStop, Drop
  <2>2. CASE target[k] \notin Inst
    <3>1. fin' = fin BY <1>6, <2>2 DEF DropStop
    <3>2. /\ stop' = [stop EXCEPT ![k] = "done"]
          /\ Drop
          /\ UNCHANGED <<record, binding, placeVars, start, epoch, life, poller, target>>
      BY <1>6 DEF DropStop
    <3>. QED BY <3>1, <3>2 DEF Drop
  <2>. QED BY <2>1, <2>2
<1>. QED BY <1>1, <1>2, <1>3, <1>4, <1>5, <1>6 DEF StopActs, StopStep, WaitStep

(* Every step keeps the types.                                                *)
LEMMA NextType == TypeOK /\ [Next]_vars => TypeOK'
<1>1. ASSUME TypeOK, Next PROVE TypeOK'
  <2>1. CASE Transfer
    BY <1>1, <2>1 DEF Transfer, TypeOK, placeVars, instVars, stopVars
  <2>. QED BY <1>1, <2>1, NextActs, StartType, PollerType, StopType
<1>2. ASSUME TypeOK, UNCHANGED vars PROVE TypeOK'
  BY <1>2 DEF TypeOK, vars, placeVars, instVars, stopVars, faultVars
<1>. QED BY <1>1, <1>2
------------------------------------------------------------------------------
Parts == NotYetClaimed /\ ClaimingHoldsId /\ PollingHoldsPlaces

(* A step of start_bot keeps the parts.  The numeric id is taken only when it *)
(* is free, so no other instance claims or polls when the entry is written.   *)
LEMMA StartKeepsParts ==
    ASSUME TypeOK, Parts, NEW i \in Inst, StartActs(i)
    PROVE  Parts'
<1>. USE NoneAssumption DEF TypeOK, Parts, NotYetClaimed, ClaimingHoldsId, PollingHoldsPlaces,
         Claiming, Polling, StartAt, placeVars
<1>1. CASE CheckRunning(i) BY <1>1 DEF CheckRunning
<1>2. CASE StartRefused(i) BY <1>2 DEF StartRefused
<1>3. CASE ReserveNumericId(i) BY <1>3 DEF ReserveNumericId
<1>4. CASE ReadEpoch(i) BY <1>4 DEF ReadEpoch
<1>5. CASE AssertCanStart(i) BY <1>5 DEF AssertCanStart
<1>6. CASE ClaimRuntime(i) BY <1>6 DEF ClaimRuntime
<1>7. CASE ClaimRejected(i) BY <1>7 DEF ClaimRejected, ReleaseActive
<1>8. CASE ClaimAnswerLost(i) BY <1>8 DEF ClaimAnswerLost, ReleaseActive
<1>9. CASE EnableBot(i) BY <1>9 DEF EnableBot
<1>10. CASE EnableFails(i) BY <1>10 DEF EnableFails
<1>11. CASE InsertRuntime(i) BY <1>11 DEF InsertRuntime
<1>12. CASE DropStart(i) BY <1>12 DEF DropStart
<1>13. CASE DropBeforeInsert(i) BY <1>13 DEF DropBeforeInsert
<1>. QED
  BY <1>1, <1>2, <1>3, <1>4, <1>5, <1>6, <1>7, <1>8, <1>9, <1>10, <1>11, <1>12, <1>13
  DEF StartActs, StartStep

(* A step of the poll task or of its finalization keeps the parts: by the time *)
(* the numeric id and the entry are released the task no longer polls.         *)
LEMMA PollerKeepsParts ==
    ASSUME TypeOK, Parts, NEW i \in Inst, PollerActs(i)
    PROVE  Parts'
<1>. USE DEF TypeOK, Parts, NotYetClaimed, ClaimingHoldsId, PollingHoldsPlaces,
         Claiming, Polling, FinAt, placeVars
<1>1. CASE EnterLoop(i) BY <1>1 DEF EnterLoop
<1>2. CASE ClientBuildFails(i) BY <1>2 DEF ClientBuildFails
<1>3. CASE LeaveLoop(i) BY <1>3 DEF LeaveLoop
<1>4. CASE ReleaseBinding(i) BY <1>4 DEF ReleaseBinding
<1>5. CASE ReleaseNumericId(i) BY <1>5 DEF ReleaseNumericId, ReleaseActive
<1>6. CASE RemoveEntry(i) BY <1>6 DEF RemoveEntry
<1>7. CASE OffsetReadFails(i) BY <1>7 DEF OffsetReadFails
<1>8. CASE PollerPanics(i) BY <1>8 DEF PollerPanics
<1>. QED
  BY <1>1, <1>2, <1>3, <1>4, <1>5, <1>6, <1>7, <1>8 DEF PollerActs, PollerStep

(* A step of stop_bot keeps the parts: it finalizes only for a task that       *)
(* panicked.                                                                   *)
LEMMA StopKeepsParts ==
    ASSUME TypeOK, Parts, NEW k \in Stopper, StopActs(k)
    PROVE  Parts'
<1>. USE DEF TypeOK, Parts, NotYetClaimed, ClaimingHoldsId, PollingHoldsPlaces,
         Claiming, Polling, StopAt, placeVars, instVars
<1>1. CASE BeginStop(k) BY <1>1 DEF BeginStop
<1>2. CASE StopReturns(k) BY <1>2 DEF StopReturns
<1>3. CASE JoinPoller(k) BY <1>3 DEF JoinPoller
<1>4. CASE JoinPanicked(k) BY <1>4 DEF JoinPanicked
<1>5. CASE FallbackDone(k) BY <1>5 DEF FallbackDone
<1>6. CASE DropStop(k) BY <1>6 DEF DropStop
<1>. QED BY <1>1, <1>2, <1>3, <1>4, <1>5, <1>6 DEF StopActs, StopStep, WaitStep

(* Every step keeps the inductive invariant.                                   *)
LEMMA NextSafe == IInv /\ [Next]_vars => IInv'
<1>1. ASSUME TypeOK, Parts, Next PROVE Parts'
  <2>1. CASE Transfer
    BY <1>1, <2>1 DEF Transfer, Parts, NotYetClaimed, ClaimingHoldsId, PollingHoldsPlaces,
       Claiming, Polling, placeVars, instVars
  <2>. QED BY <1>1, <2>1, NextActs, StartKeepsParts, PollerKeepsParts, StopKeepsParts
<1>2. ASSUME Parts, UNCHANGED vars PROVE Parts'
  BY <1>2 DEF vars, Parts, NotYetClaimed, ClaimingHoldsId, PollingHoldsPlaces,
     Claiming, Polling, placeVars, instVars
<1>. QED BY <1>1, <1>2, NextType DEF IInv, Parts

(* The initial state satisfies the inductive invariant.                        *)
LEMMA InitSafe == Init => IInv
<1>1. ASSUME Init PROVE TypeOK
  <2>1. record \in [owner : {"legacy", "rust"}, epoch : Nat]
    BY <1>1 DEF Init
  <2>2. joinable \in BOOLEAN /\ (joinable => entry # None)
    BY <1>1 DEF Init
  <2>3. start \in [Inst -> StartLabels] /\ life \in [Inst -> {"none", "running", "draining", "stopped"}]
    BY <1>1 DEF Init, StartLabels
  <2>. QED BY <1>1, <2>1, <2>2, <2>3 DEF Init, TypeOK
<1>2. Init => NotYetClaimed BY DEF Init, NotYetClaimed
<1>3. Init => ClaimingHoldsId BY DEF Init, ClaimingHoldsId, Claiming
<1>4. Init => PollingHoldsPlaces BY DEF Init, PollingHoldsPlaces, Polling
<1>. QED BY <1>1, <1>2, <1>3, <1>4 DEF IInv

(* The inductive invariant of start_bot, stop_bot and finalize_poller_exit.    *)
THEOREM InductiveInvariant == Spec => []IInv
BY InitSafe, NextSafe, PTL DEF Spec

(* The types of the maps, the tasks and the requests.                          *)
THEOREM TypeCorrect == Spec => []TypeOK
<1>1. IInv => TypeOK BY DEF IInv
<1>. QED BY <1>1, InductiveInvariant, PTL

(* However starts, stops, panics and lost answers interleave, at most one poll *)
(* task of the process asks Telegram for the bot's updates.                    *)
THEOREM OnePollerPerBot == Spec => []AtMostOnePoller
<1>1. IInv => AtMostOnePoller
  BY DEF IInv, PollingHoldsPlaces, AtMostOnePoller
<1>. QED BY <1>1, InductiveInvariant, PTL

(* The runtime entry of a polling task is its own, so stop_bot reaches it.     *)
THEOREM PollersAreReachable == Spec => []PollerIsReachable
<1>1. IInv => PollerIsReachable
  BY DEF IInv, PollingHoldsPlaces, PollerIsReachable
<1>. QED BY <1>1, InductiveInvariant, PTL
------------------------------------------------------------------------------
(* finalize_poller_exit releases the numeric id before the entry, and what it *)
(* released stays so.                                                         *)
FinishedLetsGo == \A i \in Inst :
    /\ fin[i] \in {"entry", "done"} => active # i
    /\ fin[i] = "done" => entry # i

(* Only a start that got through has a runtime entry.                         *)
EntryStarted == \A i \in Inst : entry = i => start[i] = "done"

HeldInv == IInv /\ FinishedLetsGo /\ EntryStarted /\ ClaimsAreHeld

(* A step of start_bot: a claim that is refused is given back.                *)
LEMMA StartKeepsHeld ==
    ASSUME HeldInv, NEW i \in Inst, StartActs(i)
    PROVE  FinishedLetsGo' /\ EntryStarted' /\ ClaimsAreHeld'
<1>. USE NoneAssumption DEF HeldInv, IInv, TypeOK, NotYetClaimed, ClaimingHoldsId, FinishedLetsGo,
         EntryStarted, ClaimsAreHeld, Involved, Claiming, StartAt, placeVars, faultVars
<1>1. CASE CheckRunning(i) BY <1>1 DEF CheckRunning
<1>2. CASE StartRefused(i) BY <1>2 DEF StartRefused
<1>3. CASE ReserveNumericId(i) BY <1>3 DEF ReserveNumericId
<1>4. CASE ReadEpoch(i) BY <1>4 DEF ReadEpoch
<1>5. CASE AssertCanStart(i) BY <1>5 DEF AssertCanStart
<1>6. CASE ClaimRuntime(i) BY <1>6 DEF ClaimRuntime
<1>7. CASE ClaimRejected(i) BY <1>7 DEF ClaimRejected, ReleaseActive, RegistryFault
<1>8. CASE ClaimAnswerLost(i) BY <1>8 DEF ClaimAnswerLost, ReleaseActive, RegistryFault
<1>9. CASE EnableBot(i) BY <1>9 DEF EnableBot
<1>10. CASE EnableFails(i) BY <1>10 DEF EnableFails
<1>11. CASE InsertRuntime(i) BY <1>11 DEF InsertRuntime
<1>12. CASE DropStart(i) BY <1>12 DEF DropStart, Drop
<1>13. CASE DropBeforeInsert(i) BY <1>13 DEF DropBeforeInsert, Drop
<1>. QED
  BY <1>1, <1>2, <1>3, <1>4, <1>5, <1>6, <1>7, <1>8, <1>9, <1>10, <1>11, <1>12, <1>13
  DEF StartActs, StartStep

(* A step of the poll task or of its finalization: the task is gone only when *)
(* the id and the entry are.                                                  *)
LEMMA PollerKeepsHeld ==
    ASSUME HeldInv, NEW i \in Inst, PollerActs(i)
    PROVE  FinishedLetsGo' /\ EntryStarted' /\ ClaimsAreHeld'
<1>. USE NoneAssumption DEF HeldInv, IInv, TypeOK, FinishedLetsGo,
         EntryStarted, ClaimsAreHeld, Involved, Claiming, FinAt, placeVars, faultVars
<1>1. CASE EnterLoop(i) BY <1>1 DEF EnterLoop
<1>2. CASE ClientBuildFails(i) BY <1>2 DEF ClientBuildFails
<1>3. CASE LeaveLoop(i) BY <1>3 DEF LeaveLoop, RegistryFault
<1>4. CASE ReleaseBinding(i) BY <1>4 DEF ReleaseBinding, RegistryFault
<1>5. CASE ReleaseNumericId(i) BY <1>5 DEF ReleaseNumericId, ReleaseActive
<1>6. CASE RemoveEntry(i) BY <1>6 DEF RemoveEntry
<1>7. CASE OffsetReadFails(i) BY <1>7 DEF OffsetReadFails
<1>8. CASE PollerPanics(i) BY <1>8 DEF PollerPanics
<1>. QED
  BY <1>1, <1>2, <1>3, <1>4, <1>5, <1>6, <1>7, <1>8 DEF PollerActs, PollerStep

(* A step of stop_bot: the task it finalizes for panicked and stays involved  *)
(* until the finalization is done.                                            *)
LEMMA StopKeepsHeld ==
    ASSUME HeldInv, NEW k \in Stopper, StopActs(k)
    PROVE  FinishedLetsGo' /\ EntryStarted' /\ ClaimsAreHeld'
<1>. USE DEF HeldInv, IInv, TypeOK, FinishedLetsGo,
         EntryStarted, ClaimsAreHeld, Involved, Claiming, StopAt, placeVars, instVars, faultVars
<1>1. CASE BeginStop(k) BY <1>1 DEF BeginStop
<1>2. CASE StopReturns(k) BY <1>2 DEF StopReturns
<1>3. CASE JoinPoller(k) BY <1>3 DEF JoinPoller
<1>4. CASE JoinPanicked(k) BY <1>4 DEF JoinPanicked
<1>5. CASE FallbackDone(k) BY <1>5 DEF FallbackDone
<1>6. CASE DropStop(k) BY <1>6 DEF DropStop, Drop
<1>. QED BY <1>1, <1>2, <1>3, <1>4, <1>5, <1>6 DEF StopActs, StopStep, WaitStep

LEMMA NextHeld == HeldInv /\ [Next]_vars => HeldInv'
<1>1. ASSUME HeldInv, Next PROVE FinishedLetsGo' /\ EntryStarted' /\ ClaimsAreHeld'
  <2>1. CASE Transfer
    BY <1>1, <2>1 DEF Transfer, HeldInv, FinishedLetsGo, EntryStarted, ClaimsAreHeld, Involved,
       Claiming, placeVars, instVars
  <2>. QED BY <1>1, <2>1, NextActs, StartKeepsHeld, PollerKeepsHeld, StopKeepsHeld
<1>2. ASSUME HeldInv, UNCHANGED vars PROVE FinishedLetsGo' /\ EntryStarted' /\ ClaimsAreHeld'
  BY <1>2 DEF vars, HeldInv, FinishedLetsGo, EntryStarted, ClaimsAreHeld, Involved,
     Claiming, placeVars, instVars, faultVars
<1>. QED BY <1>1, <1>2, NextSafe DEF HeldInv

(* The numeric id and the runtime entry always name an instance that is       *)
(* starting, running or cleaning up, or a panicked task that a stop finalizes *)
(* for, while no start is dropped and no offset read fails.                   *)
THEOREM ClaimsAlwaysHeld == Spec => []ClaimsAreHeld
<1>1. Init => HeldInv
  <2>1. Init => FinishedLetsGo /\ EntryStarted /\ ClaimsAreHeld
    BY NoneAssumption DEF Init, FinishedLetsGo, EntryStarted, ClaimsAreHeld
  <2>. QED BY <2>1, InitSafe DEF HeldInv
<1>2. HeldInv => ClaimsAreHeld BY DEF HeldInv
<1>. QED BY <1>1, <1>2, NextHeld, PTL DEF Spec
==============================================================================
