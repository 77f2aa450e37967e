----------------------------- MODULE WatchDaemon -----------------------------
(***************************************************************************)
(* runWatchDaemon and runWatchDaemonCycle, run by several daemon instances *)
(* (an old one that hangs, its replacement) over one signal inbox and one  *)
(* state file, with the wake notifier and the webhook receiver that share  *)
(* an instance's process.  A cycle is cut at its awaits.                   *)
(*                                                                         *)
(* The data source is a counter of edits.  Edit number n is announced by   *)
(* signal n, which may arrive late, twice, or never.  Claiming the oldest  *)
(* signal first is abstracted to claiming any; a dry run, which claims     *)
(* nothing, is left out.                                                   *)
(***************************************************************************)
EXTENDS SignalInbox

CONSTANTS
    MaxEdits,    \* bound: remote edits
    MaxTroubles, \* bound: cycles that fail, are killed or outlive their lease
    NoSignal     \* a cycle that found no signal

ASSUME EditsAssumption ==
    /\ MaxEdits \in Nat /\ Signals = 1..MaxEdits
    /\ MaxTroubles \in Nat /\ NoSignal \notin Signals

VARIABLES
    pc,        \* where each instance is
    held,      \* the signal its cycle has claimed
    view,      \* the edits its pull has read
    before,    \* the state file as its cycle found it
    pendingWake, \* the notifier's flag
    enqueued,  \* its receiver has stored a signal and not called wake() yet
    nap,       \* the delay chosen after its last cycle
    file,      \* the daemon state file
    remote,    \* edits of the data source
    pulled,    \* edits covered by what was appended to the event log
    fresh,     \* history: whose receiver stored a signal nobody has claimed yet
    troubles   \* failures so far

cycleVars == <<held, view, before>>
loopVars  == <<pendingWake, enqueued, nap>>
worldVars == <<remote, pulled, fresh>>
vars == <<inbox, pc, cycleVars, loopVars, file, worldVars, troubles>>

Pass   == {"pull", "append", "settle"}
Places == {"off", "start", "begin", "claim", "push", "complete", "failed", "done",
           "rest", "asleep", "dead"} \cup Pass

\* `open`: the last cycle started is not the last one completed.  `repair`: none,
\* a retry at once, or a retry after a delay.
Files == [open : BOOLEAN, repair : {"none", "now", "later"}]
Clean == [open |-> FALSE, repair |-> "none"]

Naps == {"none", "backoff", "retry"}

Alive(d) == pc[d] \notin {"off", "dead"}

\* The last instance is not stopped.
OthersAlive(d) == \E e \in Instances \ {d} : Alive(e)

Goto(d, place) == pc' = [pc EXCEPT ![d] = place]

\* The cycle's local variables are out of scope.
Forgets(d) ==
    /\ held' = [held EXCEPT ![d] = NoSignal]
    /\ view' = [view EXCEPT ![d] = 0]
    /\ before' = [before EXCEPT ![d] = Clean]

Trouble == troubles < MaxTroubles /\ troubles' = troubles + 1

----------------------------------------------------------------------------
(* One cycle *)

Launch(d) ==
    /\ pc[d] = "off"
    /\ Goto(d, "start")
    /\ UNCHANGED <<inbox, cycleVars, loopVars, file, worldVars, troubles>>

ReadState(d) ==
    /\ pc[d] = "start"
    /\ before' = [before EXCEPT ![d] = file]
    /\ Goto(d, "begin")
    /\ UNCHANGED <<inbox, held, view, loopVars, file, worldVars, troubles>>

\* The started cycle is written over whatever another instance wrote meanwhile.
WriteStarted(d) ==
    /\ pc[d] = "begin"
    /\ file' = [open |-> TRUE,
                repair |-> IF before[d].open THEN "now" ELSE before[d].repair]
    /\ before' = [before EXCEPT ![d] = Clean]
    /\ Goto(d, "claim")
    /\ UNCHANGED <<inbox, held, view, loopVars, worldVars, troubles>>

ClaimNextSignal(d) ==
    /\ pc[d] = "claim"
    /\ IF \E s \in Signals : ClaimableSignal(s)
       THEN \E s \in Signals :
               /\ ClaimSignal(s, d)
               /\ held' = [held EXCEPT ![d] = s]
               /\ fresh' = [fresh EXCEPT ![s] = NoInstance]
       ELSE UNCHANGED <<inbox, held, fresh>>
    /\ Goto(d, "push")
    /\ UNCHANGED <<view, before, loopVars, file, remote, pulled, troubles>>

\* The fast push drains the outbox (OutboxExecutor), or is skipped.
FastPush(d) ==
    /\ pc[d] = "push"
    /\ Goto(d, "pull")
    /\ UNCHANGED <<inbox, cycleVars, loopVars, file, worldVars, troubles>>

\* The state file cannot be written, or the fast push fails: outside the pass that
\* pulls nothing is released and nothing is written to the state file.
FailOutside(d) ==
    /\ pc[d] \in {"begin", "push", "complete"}
    /\ Trouble
    /\ Goto(d, "failed")
    /\ Forgets(d)
    /\ UNCHANGED <<inbox, loopVars, file, worldVars>>

PullReads(d) ==
    /\ pc[d] = "pull"
    /\ view' = [view EXCEPT ![d] = remote]
    /\ Goto(d, "append")
    /\ UNCHANGED <<inbox, held, before, loopVars, file, worldVars, troubles>>

PullAppends(d) ==
    /\ pc[d] = "append"
    /\ pulled' = IF view[d] > pulled THEN view[d] ELSE pulled
    /\ Goto(d, "settle")
    /\ view' = [view EXCEPT ![d] = 0]
    /\ UNCHANGED <<inbox, held, before, loopVars, file, remote, fresh, troubles>>

SettleHeld(d) ==
    /\ pc[d] = "settle"
    /\ IF held[d] = NoSignal THEN UNCHANGED inbox ELSE SettleSignal(held[d], d)
    /\ Goto(d, "complete")
    /\ Forgets(d)
    /\ UNCHANGED <<loopVars, file, worldVars, troubles>>

CompleteCycle(d) ==
    /\ pc[d] = "complete"
    /\ file' = Clean
    /\ Goto(d, "done")
    /\ UNCHANGED <<inbox, cycleVars, loopVars, worldVars, troubles>>

\* A failed, timed-out or aborted pass gives its signal back and writes a retry
\* to the state file, if it can.  An abort ends the daemon as well.
FailInPass(d) ==
    /\ pc[d] \in Pass
    /\ Trouble
    /\ IF held[d] = NoSignal THEN UNCHANGED inbox ELSE ReleaseSignal(held[d], d)
    /\ file' \in {[open |-> TRUE, repair |-> "later"], file}
    /\ \E place \in {"failed"} \cup (IF OthersAlive(d) THEN {"dead"} ELSE {}) :
          Goto(d, place)
    /\ Forgets(d)
    /\ UNCHANGED <<loopVars, worldVars>>

\* The process dies, or is aborted between the passes.
Die(d) ==
    /\ Alive(d) /\ OthersAlive(d)
    /\ Trouble
    /\ Goto(d, "dead")
    /\ Forgets(d)
    /\ enqueued' = [enqueued EXCEPT ![d] = FALSE]
    /\ pendingWake' = [pendingWake EXCEPT ![d] = FALSE]
    /\ nap' = [nap EXCEPT ![d] = "none"]
    /\ UNCHANGED <<inbox, file, worldVars>>

----------------------------------------------------------------------------
(* Between the cycles *)

HasPending == \E s \in Signals : inbox[s].state = "pending"

\* After a completed cycle the delay follows from the inbox, after a failed one
\* from the state file first.
ChooseDelay(d) ==
    /\ pc[d] \in {"done", "failed"}
    /\ LET repair == IF pc[d] = "done" THEN "none" ELSE file.repair IN
       nap' = [nap EXCEPT ![d] =
                  IF repair = "later" THEN "retry"
                  ELSE IF repair = "now" \/ HasPending THEN "none" ELSE "backoff"]
    /\ Goto(d, "rest")
    /\ UNCHANGED <<inbox, cycleVars, pendingWake, enqueued, file, worldVars, troubles>>

NextCycle(d) == Goto(d, "start") /\ nap' = [nap EXCEPT ![d] = "none"]

\* Mutant: a wake-up that came before the waiter is not kept.
RestsRegardless(d) == nap[d] # "none"

Rests(d) == nap[d] # "none" /\ ~pendingWake[d]

AwaitWake(d) ==
    /\ pc[d] = "rest"
    /\ IF Rests(d)
       THEN Goto(d, "asleep") /\ UNCHANGED <<pendingWake, nap>>
       ELSE /\ NextCycle(d)
            /\ pendingWake' = [pendingWake EXCEPT ![d] = FALSE]
    /\ UNCHANGED <<inbox, cycleVars, enqueued, file, worldVars, troubles>>

\* Mutant: the timer runs only after a failed cycle.
SleepEndsAfterFailure(d) ==
    /\ pc[d] = "asleep" /\ nap[d] = "retry"
    /\ NextCycle(d)
    /\ UNCHANGED <<inbox, cycleVars, pendingWake, enqueued, file, worldVars, troubles>>

SleepEnds(d) ==
    /\ pc[d] = "asleep"
    /\ NextCycle(d)
    /\ UNCHANGED <<inbox, cycleVars, pendingWake, enqueued, file, worldVars, troubles>>

\* The receiver stores the signal of a delivery, new or not (one delivery at a
\* time) ...
Deliver(s, d) ==
    /\ Alive(d) /\ ~enqueued[d]
    /\ s <= remote
    /\ EnqueueSignal(s)
    /\ enqueued' = [enqueued EXCEPT ![d] = TRUE]
    /\ fresh' = IF inbox[s].state = "absent" THEN [fresh EXCEPT ![s] = d] ELSE fresh
    /\ UNCHANGED <<pc, cycleVars, pendingWake, nap, file, remote, pulled, troubles>>

\* ... and, once its span is written, wakes the daemon of its process.
Wake(d) ==
    /\ Alive(d) /\ enqueued[d]
    /\ enqueued' = [enqueued EXCEPT ![d] = FALSE]
    /\ IF pc[d] = "asleep"
       THEN NextCycle(d) /\ pendingWake' = [pendingWake EXCEPT ![d] = FALSE]
       ELSE pendingWake' = [pendingWake EXCEPT ![d] = TRUE] /\ UNCHANGED <<pc, nap>>
    /\ UNCHANGED <<inbox, cycleVars, file, worldVars, troubles>>

RemoteEdit ==
    /\ remote < MaxEdits
    /\ remote' = remote + 1
    /\ UNCHANGED <<inbox, pc, cycleVars, loopVars, file, pulled, fresh, troubles>>

\* A cycle outlives the lease of its signal, which is never renewed.
Overrun ==
    \E d \in Instances :
        /\ pc[d] \in Pass \cup {"push"} /\ held[d] # NoSignal
        /\ HoldsSignal(held[d], d) /\ inbox[held[d]].age + 1 >= SignalLease

Tick ==
    /\ PassTime
    /\ IF Overrun THEN Trouble ELSE UNCHANGED troubles
    /\ UNCHANGED <<pc, cycleVars, loopVars, file, worldVars>>

CycleStep(d) ==
    \/ ReadState(d) \/ WriteStarted(d) \/ ClaimNextSignal(d) \/ FastPush(d) \/ PullReads(d)
    \/ PullAppends(d) \/ SettleHeld(d) \/ CompleteCycle(d)

LoopStep(d) == ChooseDelay(d) \/ AwaitWake(d) \/ SleepEnds(d)

Init ==
    /\ InboxInit
    /\ pc \in {[d \in Instances |-> IF d = e THEN "start" ELSE "off"] : e \in Instances}
    /\ held = [d \in Instances |-> NoSignal]
    /\ view = [d \in Instances |-> 0]
    /\ before = [d \in Instances |-> Clean]
    /\ pendingWake = [d \in Instances |-> FALSE]
    /\ enqueued = [d \in Instances |-> FALSE]
    /\ nap = [d \in Instances |-> "none"]
    /\ file = Clean
    /\ remote = 0 /\ pulled = 0
    /\ fresh = [s \in Signals |-> NoInstance]
    /\ troubles = 0

Next ==
    \/ \E d \in Instances :
          \/ Launch(d) \/ CycleStep(d) \/ LoopStep(d) \/ Wake(d)
          \/ FailOutside(d) \/ FailInPass(d) \/ Die(d)
          \/ \E s \in Signals : Deliver(s, d)
    \/ RemoteEdit
    \/ Tick

Spec == Init /\ [][Next]_vars

\* The event loops run, the receivers get to their wake() and time passes.
FairSpec ==
    /\ Spec
    /\ \A d \in Instances : WF_vars(CycleStep(d) \/ LoopStep(d)) /\ WF_vars(Wake(d))
    /\ WF_vars(Tick /\ ~Overrun)

----------------------------------------------------------------------------
(* Correctness *)

\* Types of the inbox, the instances and the rest.
TypeOK ==
    /\ InboxTypeOK
    /\ pc \in [Instances -> Places]
    /\ held \in [Instances -> Signals \cup {NoSignal}]
    /\ view \in [Instances -> 0..MaxEdits]
    /\ before \in [Instances -> Files]
    /\ pendingWake \in [Instances -> BOOLEAN]
    /\ enqueued \in [Instances -> BOOLEAN]
    /\ nap \in [Instances -> Naps]
    /\ file \in Files
    /\ remote \in 0..MaxEdits /\ pulled \in 0..MaxEdits
    /\ fresh \in [Signals -> Instances \cup {NoInstance}]
    /\ troubles \in 0..MaxTroubles

\* A signal is processed only when the edit it announced was pulled, whichever
\* instance claimed, failed or settled it (the pull follows the claim).
ProcessedSignalsWerePulled ==
    \A s \in Signals : inbox[s].state = "processed" => s <= pulled

\* No wake-up is lost: a daemon that sleeps its backoff has no fresh signal of its
\* own receiver, unless the wake-up is about to come (awaitWake, pendingWake).
SleepersMissNoSignal ==
    \A d \in Instances, s \in Signals :
        /\ pc[d] = "asleep" /\ nap[d] = "backoff"
        /\ fresh[s] = d
        => enqueued[d]

\* Until its lease runs out, a claimed signal is settled, released or claimed by
\* nobody but the cycle that claimed it (claimNextSignal, settleSignal).
LeasedSignalsStayPut ==
    [][\A s \in Signals, d \in Instances :
          /\ inbox[s].state = "claimed" /\ inbox[s].token = d
          /\ inbox[s].age < SignalLease
          /\ inbox'[s].state # "claimed" \/ inbox'[s].token # d
          => held[d] = s /\ pc[d] \in Pass /\ pc'[d] # pc[d]]_vars

\* Every signal that was stored is processed in the end.
StoredSignalsAreProcessed ==
    \A s \in Signals : inbox[s].state = "pending" ~> inbox[s].state = "processed"

\* Every edit is pulled in the end, even if its signal never arrives.
EditsArePulled == \A n \in Signals : remote >= n ~> pulled >= n
==============================================================================
