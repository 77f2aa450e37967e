-------------------------- MODULE WatchDaemonProofs --------------------------
(***************************************************************************)
(* Theorems about WatchDaemon, for any number of instances, signals,       *)
(* troubles and any lease.                                                 *)
(***************************************************************************)
EXTENDS WatchDaemon, TLAPS

USE DEF cycleVars, loopVars, worldVars

----------------------------------------------------------------------------
(* Type correctness *)

LEMMA InitType == Init => TypeOK
BY SignalLeaseAssumption, EditsAssumption, NoInstanceAssumption
   DEF Init, InboxInit, AbsentSignal, TypeOK, InboxTypeOK, SignalRow, Places, Files, Clean, Naps

\* The operations on the inbox keep its type.
LEMMA InboxTypes ==
    ASSUME InboxTypeOK, NEW s \in Signals, NEW d \in Instances
    PROVE  /\ EnqueueSignal(s) => InboxTypeOK'
           /\ ClaimSignal(s, d) => InboxTypeOK'
           /\ SettleSignal(s, d) => InboxTypeOK'
           /\ ReleaseSignal(s, d) => InboxTypeOK'
<1> USE SignalLeaseAssumption DEF InboxTypeOK, SignalRow
<1>1. PendingSignal \in SignalRow /\ ProcessedSignal \in SignalRow
  BY DEF PendingSignal, ProcessedSignal, AbsentSignal
<1>2. [state |-> "claimed", token |-> d, age |-> 0] \in SignalRow
  OBVIOUS
<1>3. EnqueueSignal(s) => InboxTypeOK'
  BY <1>1 DEF EnqueueSignal
<1>4. ClaimSignal(s, d) => InboxTypeOK'
  BY <1>2 DEF ClaimSignal
<1>5. SettleSignal(s, d) => InboxTypeOK'
  BY <1>1 DEF SettleSignal
<1>6. ReleaseSignal(s, d) => InboxTypeOK'
  BY <1>1 DEF ReleaseSignal
<1>7. QED
  BY <1>3, <1>4, <1>5, <1>6

LEMMA PassTimeType == InboxTypeOK /\ PassTime => InboxTypeOK'
<1> SUFFICES ASSUME InboxTypeOK, PassTime PROVE InboxTypeOK'
  OBVIOUS
<1>1. ASSUME NEW s \in Signals PROVE Aged(inbox[s]) \in SignalRow
  BY SignalLeaseAssumption DEF InboxTypeOK, SignalRow, Aged
<1>2. QED
  BY <1>1 DEF PassTime, InboxTypeOK

LEMMA TypeStep == TypeOK /\ [Next]_vars => TypeOK'
<1> SUFFICES ASSUME TypeOK, [Next]_vars PROVE TypeOK'
  OBVIOUS
<1> USE SignalLeaseAssumption, EditsAssumption DEF TypeOK, Places, Pass, Files, Naps, Clean
<1>1. ASSUME NEW d \in Instances, Launch(d) PROVE TypeOK'
  BY <1>1 DEF Launch, Goto, InboxTypeOK
<1>2. ASSUME NEW d \in Instances, ReadState(d) PROVE TypeOK'
  BY <1>2 DEF ReadState, Goto, InboxTypeOK
<1>3. ASSUME NEW d \in Instances, WriteStarted(d) PROVE TypeOK'
  BY <1>3 DEF WriteStarted, Goto, InboxTypeOK
<1>4. ASSUME NEW d \in Instances, ClaimNextSignal(d) PROVE TypeOK'
  <2>1. InboxTypeOK'
    <3>1. UNCHANGED inbox \/ \E s \in Signals : ClaimSignal(s, d)
      BY <1>4, Zenon DEF ClaimNextSignal
    <3>2. CASE UNCHANGED inbox
      BY <3>2 DEF InboxTypeOK
    <3>3. ASSUME NEW s \in Signals, ClaimSignal(s, d) PROVE InboxTypeOK'
      BY <3>3, InboxTypes
    <3>4. QED
      BY <3>1, <3>2, <3>3
  <2>2. \/ UNCHANGED <<held, fresh>>
        \/ \E s \in Signals : /\ held' = [held EXCEPT ![d] = s]
                              /\ fresh' = [fresh EXCEPT ![s] = NoInstance]
    BY <1>4, Zenon DEF ClaimNextSignal
  <2>3. /\ held' \in [Instances -> Signals \cup {NoSignal}]
        /\ fresh' \in [Signals -> Instances \cup {NoInstance}]
    <3>1. CASE UNCHANGED <<held, fresh>>
      BY <3>1
    <3>2. ASSUME NEW s \in Signals,
                 held' = [held EXCEPT ![d] = s], fresh' = [fresh EXCEPT ![s] = NoInstance]
          PROVE  /\ held' \in [Instances -> Signals \cup {NoSignal}]
                 /\ fresh' \in [Signals -> Instances \cup {NoInstance}]
      BY <3>2
    <3>3. QED
      BY <2>2, <3>1, <3>2
  <2>4. QED
    BY <1>4, <2>1, <2>3 DEF ClaimNextSignal, Goto
<1>5. ASSUME NEW d \in Instances, FastPush(d) PROVE TypeOK'
  BY <1>5 DEF FastPush, Goto, InboxTypeOK
<1>6. ASSUME NEW d \in Instances, PullReads(d) PROVE TypeOK'
  BY <1>6 DEF PullReads, Goto, InboxTypeOK
<1>7. ASSUME NEW d \in Instances, PullAppends(d) PROVE TypeOK'
  BY <1>7 DEF PullAppends, Goto, InboxTypeOK
<1>8. ASSUME NEW d \in Instances, SettleHeld(d) PROVE TypeOK'
  <2>1. InboxTypeOK'
    <3>1. UNCHANGED inbox \/ \E s \in Signals : SettleSignal(s, d)
      BY <1>8 DEF SettleHeld, SettleSignal, HoldsSignal
    <3>2. CASE UNCHANGED inbox
      BY <3>2 DEF InboxTypeOK
    <3>3. ASSUME NEW s \in Signals, SettleSignal(s, d) PROVE InboxTypeOK'
      BY <3>3, InboxTypes
    <3>4. QED
      BY <3>1, <3>2, <3>3
  <2>2. QED
    BY <1>8, <2>1 DEF SettleHeld, Goto, Forgets
<1>9. ASSUME NEW d \in Instances, CompleteCycle(d) PROVE TypeOK'
  BY <1>9 DEF CompleteCycle, Goto, InboxTypeOK
<1>10. ASSUME NEW d \in Instances, ChooseDelay(d) PROVE TypeOK'
  BY <1>10 DEF ChooseDelay, Goto, InboxTypeOK
<1>11. ASSUME NEW d \in Instances, AwaitWake(d) PROVE TypeOK'
  BY <1>11 DEF AwaitWake, Goto, NextCycle, InboxTypeOK
<1>12. ASSUME NEW d \in Instances, SleepEnds(d) PROVE TypeOK'
  BY <1>12 DEF SleepEnds, Goto, NextCycle, InboxTypeOK
<1>13. ASSUME NEW d \in Instances, Wake(d) PROVE TypeOK'
  BY <1>13 DEF Wake, Goto, NextCycle, InboxTypeOK
<1>14. ASSUME NEW d \in Instances, FailOutside(d) PROVE TypeOK'
  BY <1>14 DEF FailOutside, Goto, Forgets, Trouble, InboxTypeOK
<1>15. ASSUME NEW d \in Instances, FailInPass(d) PROVE TypeOK'
  <2>1. InboxTypeOK'
    <3>1. UNCHANGED inbox \/ \E s \in Signals : ReleaseSignal(s, d)
      BY <1>15 DEF FailInPass, ReleaseSignal, HoldsSignal
    <3>2. CASE UNCHANGED inbox
      BY <3>2 DEF InboxTypeOK
    <3>3. ASSUME NEW s \in Signals, ReleaseSignal(s, d) PROVE InboxTypeOK'
      BY <3>3, InboxTypes
    <3>4. QED
      BY <3>1, <3>2, <3>3
  <2>2. pc' \in [Instances -> Places]
    BY <1>15 DEF FailInPass, Goto
  <2>3. file' \in Files
    <3>1. [open |-> TRUE, repair |-> "later"] \in Files
      OBVIOUS
    <3>2. QED
      BY <1>15, <3>1 DEF FailInPass
  <2>4. troubles' \in 0..MaxTroubles
    BY <1>15 DEF FailInPass, Trouble
  <2>5. held' \in [Instances -> Signals \cup {NoSignal}] /\ view' \in [Instances -> 0..MaxEdits]
    BY <1>15 DEF FailInPass, Forgets
  <2>6. before' \in [Instances -> Files]
    BY <1>15 DEF FailInPass, Forgets
  <2>7. UNCHANGED <<pendingWake, enqueued, nap, remote, pulled, fresh>>
    BY <1>15 DEF FailInPass
  <2>8. QED
    BY <2>1, <2>2, <2>3, <2>4, <2>5, <2>6, <2>7
<1>16. ASSUME NEW d \in Instances, Die(d) PROVE TypeOK'
  BY <1>16 DEF Die, Goto, Forgets, Trouble, InboxTypeOK
<1>17. ASSUME NEW d \in Instances, NEW s \in Signals, Deliver(s, d) PROVE TypeOK'
  <2>1. InboxTypeOK'
    BY <1>17, InboxTypes DEF Deliver
  <2>2. QED
    BY <1>17, <2>1 DEF Deliver
<1>18. ASSUME RemoteEdit PROVE TypeOK'
  BY <1>18 DEF RemoteEdit, InboxTypeOK
<1>19. ASSUME Tick PROVE TypeOK'
  <2>1. InboxTypeOK'
    BY <1>19, PassTimeType DEF Tick
  <2>2. troubles' \in 0..MaxTroubles
    BY <1>19 DEF Tick, Trouble
  <2>3. QED
    BY <1>19, <2>1, <2>2 DEF Tick
<1>20. CASE UNCHANGED vars
  BY <1>20 DEF vars, InboxTypeOK
<1>21. QED
  BY <1>1, <1>2, <1>3, <1>4, <1>5, <1>6, <1>7, <1>8, <1>9,
     <1>10, <1>11, <1>12, <1>13, <1>14, <1>15, <1>16, <1>17, <1>18, <1>19, <1>20
     DEF Next, CycleStep, LoopStep

\* The variables, the inbox among them, stay within their types (store.ts,
\* watch.ts).
THEOREM TypeCorrect == Spec => []TypeOK
BY InitType, TypeStep, PTL DEF Spec

----------------------------------------------------------------------------
(* What is processed was pulled *)

\* The state of a signal after an operation on the inbox.
LEMMA InboxEffects ==
    ASSUME InboxTypeOK, NEW s \in Signals, NEW d \in Instances, NEW t \in Signals
    PROVE  /\ EnqueueSignal(s) =>
                 inbox'[t].state = IF t = s /\ inbox[s].state = "absent" THEN "pending"
                                   ELSE inbox[t].state
           /\ ClaimSignal(s, d) =>
                 /\ inbox[s].state # "absent"
                 /\ inbox'[t].state = IF t = s THEN "claimed" ELSE inbox[t].state
           /\ SettleSignal(s, d) =>
                 \/ inbox'[t].state = inbox[t].state
                 \/ t = s /\ inbox[s].state = "claimed" /\ inbox'[t].state = "processed"
           /\ ReleaseSignal(s, d) =>
                 \/ inbox'[t].state = inbox[t].state
                 \/ t = s /\ inbox[s].state = "claimed" /\ inbox'[t].state = "pending"
<1> USE DEF InboxTypeOK, SignalRow
<1>1. PendingSignal.state = "pending" /\ ProcessedSignal.state = "processed"
  BY DEF PendingSignal, ProcessedSignal, AbsentSignal
<1>2. EnqueueSignal(s) => inbox'[t].state = IF t = s /\ inbox[s].state = "absent"
                                            THEN "pending" ELSE inbox[t].state
  BY <1>1 DEF EnqueueSignal
<1>3. ClaimSignal(s, d) => /\ inbox[s].state # "absent"
                           /\ inbox'[t].state = IF t = s THEN "claimed" ELSE inbox[t].state
  BY DEF ClaimSignal, ClaimableSignal
<1>4. SettleSignal(s, d) =>
         \/ inbox'[t].state = inbox[t].state
         \/ t = s /\ inbox[s].state = "claimed" /\ inbox'[t].state = "processed"
  BY <1>1 DEF SettleSignal, HoldsSignal
<1>5. ReleaseSignal(s, d) =>
         \/ inbox'[t].state = inbox[t].state
         \/ t = s /\ inbox[s].state = "claimed" /\ inbox'[t].state = "pending"
  BY <1>1 DEF ReleaseSignal, HoldsSignal
<1>6. QED
  BY <1>2, <1>3, <1>4, <1>5

LEMMA PassTimeEffect ==
    ASSUME InboxTypeOK, PassTime, NEW s \in Signals
    PROVE  inbox'[s].state = inbox[s].state
BY DEF InboxTypeOK, SignalRow, PassTime, Aged

\* A signal is stored after its edit, and claimed before the pull that covers it
\* begins.
StoredAfterEdit == \A s \in Signals : inbox[s].state # "absent" => s <= remote
ViewsInRange == pulled <= remote /\ \A d \in Instances : view[d] <= remote
HeldBeforeView ==
    \A d \in Instances :
        held[d] # NoSignal =>
            /\ held[d] <= remote
            /\ pc[d] = "append" => held[d] <= view[d]
            /\ pc[d] = "settle" => held[d] <= pulled

PullInv == StoredAfterEdit /\ ViewsInRange /\ HeldBeforeView /\ ProcessedSignalsWerePulled

LEMMA InitPull == Init => PullInv
BY DEF Init, InboxInit, AbsentSignal, PullInv, StoredAfterEdit, ViewsInRange,
       HeldBeforeView, ProcessedSignalsWerePulled

LEMMA PullStep == TypeOK /\ PullInv /\ [Next]_vars => PullInv'
<1> SUFFICES ASSUME TypeOK, PullInv, [Next]_vars PROVE PullInv'
  OBVIOUS
<1>0. InboxTypeOK
  BY DEF TypeOK
<1> USE EditsAssumption DEF TypeOK, PullInv, StoredAfterEdit, ViewsInRange, HeldBeforeView,
                            ProcessedSignalsWerePulled
<1>1. ASSUME NEW d \in Instances, Launch(d) PROVE PullInv'
  BY <1>1 DEF Launch, Goto
<1>2. ASSUME NEW d \in Instances, ReadState(d) PROVE PullInv'
  BY <1>2 DEF ReadState, Goto
<1>3. ASSUME NEW d \in Instances, WriteStarted(d) PROVE PullInv'
  BY <1>3 DEF WriteStarted, Goto
<1>4. ASSUME NEW d \in Instances, ClaimNextSignal(d) PROVE PullInv'
  <2>1. CASE UNCHANGED <<inbox, held, fresh>>
    BY <1>4, <2>1 DEF ClaimNextSignal, Goto
  <2>2. ASSUME NEW s \in Signals, ClaimSignal(s, d), held' = [held EXCEPT ![d] = s]
        PROVE  PullInv'
    <3>0. \A t \in Signals :
             /\ inbox[s].state # "absent"
             /\ inbox'[t].state = IF t = s THEN "claimed" ELSE inbox[t].state
      BY <2>2, <1>0, InboxEffects
    <3>1. /\ inbox[s].state # "absent"
          /\ \A t \in Signals : inbox'[t].state = IF t = s THEN "claimed" ELSE inbox[t].state
      BY <3>0, Zenon
    <3>2. HeldBeforeView'
      BY <1>4, <2>2, <3>1 DEF ClaimNextSignal, Goto
    <3>3. QED
      BY <1>4, <2>2, <3>1, <3>2 DEF ClaimNextSignal
  <2>3. QED
    BY <1>4, <2>1, <2>2, Zenon DEF ClaimNextSignal
<1>5. ASSUME NEW d \in Instances, FastPush(d) PROVE PullInv'
  BY <1>5 DEF FastPush, Goto
<1>6. ASSUME NEW d \in Instances, PullReads(d) PROVE PullInv'
  BY <1>6 DEF PullReads, Goto
<1>7. ASSUME NEW d \in Instances, PullAppends(d) PROVE PullInv'
  BY <1>7 DEF PullAppends, Goto
<1>8. ASSUME NEW d \in Instances, SettleHeld(d) PROVE PullInv'
  <2>1. CASE UNCHANGED inbox
    <3>1. HeldBeforeView'
      BY <1>8 DEF SettleHeld, Goto, Forgets, Pass
    <3>2. ViewsInRange' /\ UNCHANGED <<remote, pulled>>
      BY <1>8 DEF SettleHeld, Forgets
    <3>3. QED
      BY <2>1, <3>1, <3>2
  <2>2. ASSUME NEW s \in Signals, s = held[d], SettleSignal(s, d)
        PROVE  PullInv'
    <3>1. HeldBeforeView'
      BY <1>8 DEF SettleHeld, Goto, Forgets, Pass
    <3>2. \A t \in Signals :
             \/ inbox'[t].state = inbox[t].state
             \/ t = s /\ inbox[t].state = "claimed" /\ inbox'[t].state = "processed"
      BY <2>2, <1>0, InboxEffects
    <3>3. ViewsInRange' /\ UNCHANGED <<remote, pulled>>
      BY <1>8 DEF SettleHeld, Forgets
    <3>4. StoredAfterEdit'
      BY <3>2, <3>3
    <3>5. ProcessedSignalsWerePulled'
      BY <1>8, <2>2, <3>2, <3>3 DEF SettleHeld
    <3>6. QED
      BY <3>1, <3>3, <3>4, <3>5
  <2>3. UNCHANGED inbox \/ \E s \in Signals : s = held[d] /\ SettleSignal(s, d)
    BY <1>8 DEF SettleHeld, SettleSignal, HoldsSignal
  <2>4. QED
    BY <2>1, <2>2, <2>3
<1>9. ASSUME NEW d \in Instances, CompleteCycle(d) PROVE PullInv'
  BY <1>9 DEF CompleteCycle, Goto
<1>10. ASSUME NEW d \in Instances, ChooseDelay(d) PROVE PullInv'
  BY <1>10 DEF ChooseDelay, Goto
<1>11. ASSUME NEW d \in Instances, AwaitWake(d) PROVE PullInv'
  BY <1>11 DEF AwaitWake, Goto, NextCycle
<1>12. ASSUME NEW d \in Instances, SleepEnds(d) PROVE PullInv'
  BY <1>12 DEF SleepEnds, Goto, NextCycle
<1>13. ASSUME NEW d \in Instances, Wake(d) PROVE PullInv'
  BY <1>13 DEF Wake, Goto, NextCycle
<1>14. ASSUME NEW d \in Instances, FailOutside(d) PROVE PullInv'
  BY <1>14 DEF FailOutside, Goto, Forgets, Trouble
<1>15. ASSUME NEW d \in Instances, FailInPass(d) PROVE PullInv'
  <2>1. CASE UNCHANGED inbox
    <3>1. HeldBeforeView'
      BY <1>15 DEF FailInPass, Goto, Forgets, Pass
    <3>2. ViewsInRange' /\ UNCHANGED <<remote, pulled>>
      BY <1>15 DEF FailInPass, Forgets
    <3>3. QED
      BY <2>1, <3>1, <3>2
  <2>2. ASSUME NEW s \in Signals, s = held[d], ReleaseSignal(s, d)
        PROVE  PullInv'
    <3>1. HeldBeforeView'
      BY <1>15 DEF FailInPass, Goto, Forgets, Pass
    <3>2. \A t \in Signals :
             \/ inbox'[t].state = inbox[t].state
             \/ t = s /\ inbox[t].state = "claimed" /\ inbox'[t].state = "pending"
      BY <2>2, <1>0, InboxEffects
    <3>3. ViewsInRange' /\ UNCHANGED <<remote, pulled>>
      BY <1>15 DEF FailInPass, Forgets
    <3>4. StoredAfterEdit'
      BY <3>2, <3>3
    <3>5. ProcessedSignalsWerePulled'
      BY <1>15, <2>2, <3>2, <3>3 DEF FailInPass
    <3>6. QED
      BY <3>1, <3>3, <3>4, <3>5
  <2>3. UNCHANGED inbox \/ \E s \in Signals : s = held[d] /\ ReleaseSignal(s, d)
    BY <1>15 DEF FailInPass, ReleaseSignal, HoldsSignal
  <2>4. QED
    BY <2>1, <2>2, <2>3
<1>16. ASSUME NEW d \in Instances, Die(d) PROVE PullInv'
  BY <1>16 DEF Die, Goto, Forgets, Trouble
<1>17. ASSUME NEW d \in Instances, NEW s \in Signals, Deliver(s, d) PROVE PullInv'
  BY <1>17, <1>0, InboxEffects, ZenonT(40) DEF Deliver
<1>18. ASSUME RemoteEdit PROVE PullInv'
  <2>1. remote' = remote + 1 /\ UNCHANGED <<inbox, pc, held, view, pulled>>
    BY <1>18 DEF RemoteEdit
  <2>2. remote \in Nat /\ pulled \in Nat /\ view \in [Instances -> Nat]
    OBVIOUS
  <2>3. \A n \in Nat : n <= remote => n <= remote'
    BY <2>1, <2>2
  <2>4. StoredAfterEdit'
    BY <2>1, <2>3
  <2>5. ViewsInRange'
    BY <2>1, <2>2, <2>3
  <2>6. HeldBeforeView'
    BY <2>1, <2>3
  <2>7. QED
    BY <2>1, <2>4, <2>5, <2>6
<1>19. ASSUME Tick PROVE PullInv'
  BY <1>19, <1>0, PassTimeEffect DEF Tick
<1>20. CASE UNCHANGED vars
  BY <1>20 DEF vars, cycleVars, loopVars, worldVars
<1>21. QED
  BY <1>1, <1>2, <1>3, <1>4, <1>5, <1>6, <1>7, <1>8, <1>9,
     <1>10, <1>11, <1>12, <1>13, <1>14, <1>15, <1>16, <1>17, <1>18, <1>19, <1>20
     DEF Next, CycleStep, LoopStep

\* A processed signal's edit is in the event log, whichever instances claimed,
\* failed, timed out or settled it (claimNextSignal, runWatchDaemonCycle).
THEOREM ProcessedOnlyAfterPull == Spec => []ProcessedSignalsWerePulled
<1>1. Init => TypeOK /\ PullInv
  BY InitType, InitPull
<1>2. TypeOK /\ PullInv /\ [Next]_vars => (TypeOK /\ PullInv)'
  BY TypeStep, PullStep
<1>3. PullInv => ProcessedSignalsWerePulled
  BY DEF PullInv
<1>4. QED
  BY <1>1, <1>2, <1>3, PTL DEF Spec

----------------------------------------------------------------------------
(* No wake-up is lost *)

\* A signal that nobody has claimed is pending.
FreshArePending == \A s \in Signals : fresh[s] # NoInstance => inbox[s].state = "pending"

\* Once it has chosen the backoff, a daemon has no fresh signal of its own receiver
\* that will not wake it.
RestersMissNoSignal ==
    \A d \in Instances, s \in Signals :
        /\ pc[d] \in {"rest", "asleep"} /\ nap[d] = "backoff"
        /\ fresh[s] = d
        => enqueued[d] \/ (pc[d] = "rest" /\ pendingWake[d])

WakeInv == FreshArePending /\ RestersMissNoSignal

LEMMA InitWake == Init => WakeInv
BY NoInstanceAssumption DEF Init, WakeInv, FreshArePending, RestersMissNoSignal

LEMMA WakeStep == TypeOK /\ WakeInv /\ [Next]_vars => WakeInv'
<1> SUFFICES ASSUME TypeOK, WakeInv, [Next]_vars PROVE WakeInv'
  OBVIOUS
<1>0. InboxTypeOK
  BY DEF TypeOK
<1> USE NoInstanceAssumption DEF TypeOK, WakeInv, FreshArePending, RestersMissNoSignal
<1>1. ASSUME NEW d \in Instances, Launch(d) PROVE WakeInv'
  BY <1>1 DEF Launch, Goto
<1>2. ASSUME NEW d \in Instances, ReadState(d) PROVE WakeInv'
  BY <1>2 DEF ReadState, Goto
<1>3. ASSUME NEW d \in Instances, WriteStarted(d) PROVE WakeInv'
  BY <1>3 DEF WriteStarted, Goto
<1>4. ASSUME NEW d \in Instances, ClaimNextSignal(d) PROVE WakeInv'
  <2>1. CASE UNCHANGED <<inbox, held, fresh>>
    BY <1>4, <2>1 DEF ClaimNextSignal, Goto
  <2>2. ASSUME NEW s \in Signals, ClaimSignal(s, d), fresh' = [fresh EXCEPT ![s] = NoInstance]
        PROVE  WakeInv'
    <3>1. \A t \in Signals : inbox'[t].state = IF t = s THEN "claimed" ELSE inbox[t].state
      BY <2>2, <1>0, InboxEffects
    <3>2. FreshArePending'
      BY <2>2, <3>1
    <3>3. RestersMissNoSignal'
      BY <1>4, <2>2 DEF ClaimNextSignal, Goto
    <3>4. QED
      BY <3>2, <3>3
  <2>3. QED
    BY <1>4, <2>1, <2>2, Zenon DEF ClaimNextSignal
<1>5. ASSUME NEW d \in Instances, FastPush(d) PROVE WakeInv'
  BY <1>5 DEF FastPush, Goto
<1>6. ASSUME NEW d \in Instances, PullReads(d) PROVE WakeInv'
  BY <1>6 DEF PullReads, Goto
<1>7. ASSUME NEW d \in Instances, PullAppends(d) PROVE WakeInv'
  BY <1>7 DEF PullAppends, Goto
<1>8. ASSUME NEW d \in Instances, SettleHeld(d) PROVE WakeInv'
  <2>1. RestersMissNoSignal'
    BY <1>8 DEF SettleHeld, Goto
  <2>2. UNCHANGED inbox \/ \E s \in Signals : SettleSignal(s, d)
    BY <1>8 DEF SettleHeld, SettleSignal, HoldsSignal
  <2>3. CASE UNCHANGED inbox
    BY <1>8, <2>1, <2>3 DEF SettleHeld
  <2>4. ASSUME NEW s \in Signals, SettleSignal(s, d)
        PROVE  FreshArePending'
    <3>1. \A t \in Signals :
             \/ inbox'[t].state = inbox[t].state
             \/ t = s /\ inbox[t].state = "claimed" /\ inbox'[t].state = "processed"
      BY <2>4, <1>0, InboxEffects
    <3>2. QED
      BY <1>8, <3>1 DEF SettleHeld
  <2>5. QED
    BY <2>1, <2>2, <2>3, <2>4
<1>9. ASSUME NEW d \in Instances, CompleteCycle(d) PROVE WakeInv'
  BY <1>9 DEF CompleteCycle, Goto
<1>10. ASSUME NEW d \in Instances, ChooseDelay(d) PROVE WakeInv'
  <2>1. nap'[d] = "backoff" => ~HasPending
    BY <1>10 DEF ChooseDelay
  <2>2. QED
    BY <1>10, <2>1 DEF ChooseDelay, Goto, HasPending
<1>11. ASSUME NEW d \in Instances, AwaitWake(d) PROVE WakeInv'
  BY <1>11 DEF AwaitWake, Goto, NextCycle, Rests
<1>12. ASSUME NEW d \in Instances, SleepEnds(d) PROVE WakeInv'
  BY <1>12 DEF SleepEnds, Goto, NextCycle
<1>13. ASSUME NEW d \in Instances, Wake(d) PROVE WakeInv'
  BY <1>13 DEF Wake, Goto, NextCycle
<1>14. ASSUME NEW d \in Instances, FailOutside(d) PROVE WakeInv'
  BY <1>14 DEF FailOutside, Goto, Forgets, Trouble
<1>15. ASSUME NEW d \in Instances, FailInPass(d) PROVE WakeInv'
  <2>1. RestersMissNoSignal'
    BY <1>15 DEF FailInPass, Goto
  <2>2. UNCHANGED inbox \/ \E s \in Signals : ReleaseSignal(s, d)
    BY <1>15 DEF FailInPass, ReleaseSignal, HoldsSignal
  <2>3. CASE UNCHANGED inbox
    BY <1>15, <2>1, <2>3 DEF FailInPass
  <2>4. ASSUME NEW s \in Signals, ReleaseSignal(s, d)
        PROVE  FreshArePending'
    <3>1. \A t \in Signals :
             \/ inbox'[t].state = inbox[t].state
             \/ t = s /\ inbox[t].state = "claimed" /\ inbox'[t].state = "pending"
      BY <2>4, <1>0, InboxEffects
    <3>2. QED
      BY <1>15, <3>1 DEF FailInPass
  <2>5. QED
    BY <2>1, <2>2, <2>3, <2>4
<1>16. ASSUME NEW d \in Instances, Die(d) PROVE WakeInv'
  BY <1>16 DEF Die, Goto, Forgets, Trouble
<1>17. ASSUME NEW d \in Instances, NEW s \in Signals, Deliver(s, d) PROVE WakeInv'
  <2>1. \A t \in Signals :
           inbox'[t].state = IF t = s /\ inbox[s].state = "absent" THEN "pending"
                             ELSE inbox[t].state
    BY <1>17, <1>0, InboxEffects DEF Deliver
  <2>2. FreshArePending'
    BY <1>17, <2>1 DEF Deliver
  <2>3. RestersMissNoSignal'
    BY <1>17 DEF Deliver
  <2>4. QED
    BY <2>2, <2>3
<1>18. ASSUME RemoteEdit PROVE WakeInv'
  BY <1>18 DEF RemoteEdit
<1>19. ASSUME Tick PROVE WakeInv'
  BY <1>19, <1>0, PassTimeEffect DEF Tick
<1>20. CASE UNCHANGED vars
  BY <1>20 DEF vars, cycleVars, loopVars, worldVars
<1>21. QED
  BY <1>1, <1>2, <1>3, <1>4, <1>5, <1>6, <1>7, <1>8, <1>9,
     <1>10, <1>11, <1>12, <1>13, <1>14, <1>15, <1>16, <1>17, <1>18, <1>19, <1>20
     DEF Next, CycleStep, LoopStep

\* A daemon never sleeps its backoff over a signal of its own receiver: the
\* wake-up is kept for it or about to come (makeWatchDaemonWakeNotifier).
THEOREM NoLostWakeUp == Spec => []SleepersMissNoSignal
<1>1. Init => TypeOK /\ WakeInv
  BY InitType, InitWake
<1>2. TypeOK /\ WakeInv /\ [Next]_vars => (TypeOK /\ WakeInv)'
  BY TypeStep, WakeStep
<1>3. WakeInv => SleepersMissNoSignal
  BY DEF WakeInv, RestersMissNoSignal, SleepersMissNoSignal
<1>4. QED
  BY <1>1, <1>2, <1>3, PTL DEF Spec

----------------------------------------------------------------------------
(* Leases are respected *)

\* Signal s leaves the claim of d.
Leaves(s, d) ==
    /\ inbox[s].state = "claimed" /\ inbox[s].token = d
    /\ inbox[s].age < SignalLease
    /\ inbox'[s].state # "claimed" \/ inbox'[s].token # d

LEMMA LeaveStep ==
    ASSUME TypeOK, [Next]_vars, NEW s \in Signals, NEW d \in Instances, Leaves(s, d)
    PROVE  held[d] = s /\ pc[d] \in Pass /\ pc'[d] # pc[d]
<1> DEFINE Goal == held[d] = s /\ pc[d] \in Pass /\ pc'[d] # pc[d]
<1> HIDE DEF Goal
<1>1. InboxTypeOK /\ pc \in [Instances -> Places]
  BY DEF TypeOK
<1>2. ~UNCHANGED inbox
  BY DEF Leaves
<1>3. ASSUME NEW t \in Signals, EnqueueSignal(t) PROVE Goal
  BY <1>1, <1>3 DEF Leaves, EnqueueSignal, InboxTypeOK
<1>4. ASSUME NEW t \in Signals, NEW e \in Instances, ClaimSignal(t, e) PROVE Goal
  BY <1>1, <1>4, SignalLeaseAssumption
     DEF Leaves, ClaimSignal, ClaimableSignal, InboxTypeOK, SignalRow
<1>5. ASSUME PassTime PROVE Goal
  BY <1>1, <1>5 DEF Leaves, PassTime, Aged, InboxTypeOK, SignalRow
<1>6. ASSUME NEW e \in Instances, SettleHeld(e) PROVE Goal
  <2>1. SettleSignal(held[e], e)
    BY <1>2, <1>6 DEF SettleHeld
  <2>2. s = held[e] /\ e = d
    BY <1>1, <2>1 DEF Leaves, SettleSignal, HoldsSignal, InboxTypeOK
  <2>3. QED
    BY <1>1, <1>6, <2>2 DEF SettleHeld, Goto, Pass, Goal
<1>7. ASSUME NEW e \in Instances, FailInPass(e) PROVE Goal
  <2>1. ReleaseSignal(held[e], e)
    BY <1>2, <1>7 DEF FailInPass
  <2>2. s = held[e] /\ e = d
    BY <1>1, <2>1 DEF Leaves, ReleaseSignal, HoldsSignal, InboxTypeOK
  <2>3. QED
    BY <1>1, <1>7, <2>2 DEF FailInPass, Goto, Pass, Goal
<1>8. ASSUME NEW e \in Instances, ClaimNextSignal(e) PROVE Goal
  BY <1>2, <1>4, <1>8, Zenon DEF ClaimNextSignal
<1>9. ASSUME NEW e \in Instances,
             \/ Launch(e) \/ ReadState(e) \/ WriteStarted(e) \/ FastPush(e) \/ PullReads(e)
             \/ PullAppends(e) \/ CompleteCycle(e) \/ LoopStep(e) \/ Wake(e)
             \/ FailOutside(e) \/ Die(e)
      PROVE  Goal
  BY <1>2, <1>9 DEF Launch, ReadState, WriteStarted, FastPush, PullReads, PullAppends,
     CompleteCycle, LoopStep, ChooseDelay, AwaitWake, SleepEnds, Wake, FailOutside, Die
<1>10. ASSUME NEW e \in Instances, NEW t \in Signals, Deliver(t, e) PROVE Goal
  BY <1>3, <1>10 DEF Deliver
<1>11. ASSUME RemoteEdit \/ UNCHANGED vars PROVE Goal
  BY <1>2, <1>11 DEF RemoteEdit, vars
<1>12. ASSUME Tick PROVE Goal
  BY <1>5, <1>12 DEF Tick
<1>13. Goal
  BY <1>6, <1>7, <1>8, <1>9,
     <1>10, <1>11, <1>12 DEF Next, CycleStep
<1>14. QED
  BY <1>13 DEF Goal

\* Until its lease runs out, a claimed signal is settled or released by the cycle
\* that claimed it and taken over by nobody (claimNextSignal, settleSignal,
\* releaseSignal).
THEOREM LeasesAreRespected == Spec => LeasedSignalsStayPut
<1>1. TypeOK /\ [Next]_vars =>
         [\A s \in Signals, d \in Instances :
             /\ inbox[s].state = "claimed" /\ inbox[s].token = d
             /\ inbox[s].age < SignalLease
             /\ inbox'[s].state # "claimed" \/ inbox'[s].token # d
             => held[d] = s /\ pc[d] \in Pass /\ pc'[d] # pc[d]]_vars
  BY LeaveStep DEF Leaves
<1>2. QED
  BY <1>1, TypeCorrect, PTL DEF Spec, LeasedSignalsStayPut
==============================================================================
