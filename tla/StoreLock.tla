----------------------------- MODULE StoreLock -----------------------------
(***************************************************************************)
(* withRepoLock / withWorktreeLock of megarepo: in each process a gate     *)
(* around DistributedSemaphore.withPermits(1), over the file-system        *)
(* backing the processes share.  A holder is one call of withRepoLock for  *)
(* one key.  The protected effect is opaque: it runs from the acquisition  *)
(* until it ends or has been interrupted.                                  *)
(***************************************************************************)
EXTENDS HolderFiles

CONSTANTS
    Processes,
    ProcessOf,    \* the process each holder belongs to
    Interval,     \* ticks between two refreshes
    MaxTroubles   \* bound: crashes, revocations, failures, interrupts

ASSUME StoreLockAssumption ==
    /\ ProcessOf \in [Holders -> Processes]
    /\ Interval \in Nat \ {0} /\ Interval < Ttl
    /\ MaxTroubles \in Nat

VARIABLES
    phase,     \* where each call is
    gate,      \* the holder inside each process's gate
    rivals,    \* history: who published while this holder was acquiring
    lapsed,    \* history: running holders that were without a live file
    excused,   \* history: holders that were slow or revoked
    troubles   \* failures so far

vars == <<files, phase, gate, rivals, lapsed, excused, troubles>>

Phases == {"queued", "trying", "held", "lost", "failed", "releasing",
           "done", "dead"}

\* The protected effect runs, be it for the last moments before it is interrupted.
Running(h) == phase[h] \in {"held", "lost", "failed"}
Waiting(h)  == phase[h] \in {"queued", "trying"}
Ended(h)   == phase[h] \in {"done", "dead"}

TypeOK ==
    /\ FilesTypeOK
    /\ phase \in [Holders -> Phases]
    /\ gate \in [Processes -> Holders \cup {NoHolder}]
    /\ rivals \in [Holders -> SUBSET Holders]
    /\ lapsed \in SUBSET Holders
    /\ excused \in SUBSET Holders
    /\ troubles \in 0..MaxTroubles
    \* a gate is held by a call of its process that is past it and not over
    /\ \A p \in Processes : gate[p] # NoHolder =>
          ProcessOf[gate[p]] = p /\ phase[gate[p]] \notin {"queued", "done", "dead"}

Init ==
    /\ FilesInit
    /\ phase = [h \in Holders |-> "queued"]
    /\ gate = [p \in Processes |-> NoHolder]
    /\ rivals = [h \in Holders |-> {}]
    /\ lapsed = {}
    /\ excused = {}
    /\ troubles = 0

Goto(h, place) == phase' = [phase EXCEPT ![h] = place]

\* Mutant: the gate is not given back.
OpenNoGate(h) == gate' = gate

OpenGate(h) == gate' = [gate EXCEPT ![ProcessOf[h]] = NoHolder]

Trouble == troubles < MaxTroubles /\ troubles' = troubles + 1

\* A holder that runs on without a live file, as of the end of the step.
NoteLapses == lapsed' = {h \in Holders : Running(h)' /\ (h \in lapsed \/ ~Live(h)')}

\* The histories are kept while a holder runs or acquires.
Forgets(h) ==
    /\ rivals' = [rivals EXCEPT ![h] = {}]
    /\ excused' = excused \ {h}

----------------------------------------------------------------------------
(* Acquiring *)

\* Mutant: no gate, the lock files alone decide.
EnterUngated(h) ==
    /\ phase[h] = "queued"
    /\ gate' = [gate EXCEPT ![ProcessOf[h]] = h]
    /\ Goto(h, "trying")
    /\ UNCHANGED <<files, rivals, excused, troubles>>

EnterGate(h) ==
    /\ phase[h] = "queued" /\ gate[ProcessOf[h]] = NoHolder
    /\ gate' = [gate EXCEPT ![ProcessOf[h]] = h]
    /\ Goto(h, "trying")
    /\ UNCHANGED <<files, rivals, excused, troubles>>

\* An attempt of the polling loop begins.
Attempt(h) ==
    /\ phase[h] = "trying"
    /\ ListFiles(h)
    /\ rivals' = [rivals EXCEPT ![h] = {}]
    /\ UNCHANGED <<phase, gate, excused, troubles>>

Scan(h) ==
    /\ \/ \E g \in Holders : ReadFile(h, g)
       \/ ClearStale(h)
       \/ Refuse(h)
    /\ UNCHANGED <<phase, gate, rivals, excused, troubles>>

Acquire(h) ==
    /\ Publish(h)
    /\ Goto(h, "held")
    /\ rivals' = [g \in Holders |->
                    IF op[g] \in {"scan", "clear"} /\ g # h
                    THEN rivals[g] \cup {h} ELSE rivals[g]]
    /\ UNCHANGED <<gate, excused, troubles>>

\* The backing fails past its retries: the call fails without running the effect.
AcquireFails(h) ==
    /\ phase[h] = "trying" /\ op[h] # "none"
    /\ Trouble
    /\ Returns(h, "none")
    /\ Goto(h, "done")
    /\ OpenGate(h)
    /\ Forgets(h)
    /\ UNCHANGED lock

----------------------------------------------------------------------------
(* Holding *)

\* keepAlive, at once and then every Interval.
Refresh(h) ==
    /\ phase[h] = "held"
    /\ \/ ReadOwn(h) /\ UNCHANGED phase
       \/ MissOwn(h) /\ Goto(h, "lost")
    /\ UNCHANGED <<gate, rivals, excused, troubles>>

\* Also of a refresh whose holder has ended: a rename that was issued lands.
Renew(h) ==
    /\ WriteOwn(h)
    /\ UNCHANGED <<phase, gate, rivals, excused, troubles>>

RefreshFails(h) ==
    /\ phase[h] = "held"
    /\ Trouble
    /\ Returns(h, "none")
    /\ Goto(h, "failed")
    /\ UNCHANGED <<lock, gate, rivals, excused>>

\* keepAlive is interrupted; a rename it has issued is not taken back.
InterruptsRefresh(h) ==
    \/ UNCHANGED <<op, age, scanVars>>
    \/ op[h] = "write" /\ Returns(h, "none")

\* The effect completes, or has been interrupted.
EndEffect(h) ==
    /\ Running(h)
    /\ Goto(h, "releasing")
    /\ InterruptsRefresh(h)
    /\ Forgets(h)
    /\ UNCHANGED <<lock, gate, troubles>>

\* The finalizer's release, then the gate.
Release(h) ==
    /\ phase[h] = "releasing"
    /\ RemoveFile(h)
    /\ Goto(h, "done")
    /\ OpenGate(h)
    /\ UNCHANGED <<rivals, excused, troubles>>

\* A release that fails past its retries is ignored.
ReleaseFails(h) ==
    /\ phase[h] = "releasing"
    /\ Trouble
    /\ Goto(h, "done")
    /\ OpenGate(h)
    /\ UNCHANGED <<files, rivals, excused>>

----------------------------------------------------------------------------
(* Failures and time *)

\* The caller is interrupted before the finalizer is installed: a lock file that
\* was being written stays behind.
Interrupt(h) ==
    /\ phase[h] \in {"queued", "trying"}
    /\ Trouble
    /\ \/ Returns(h, "none")
       \/ IssueRename(h)
    /\ Goto(h, "done")
    /\ IF phase[h] = "trying" THEN OpenGate(h) ELSE UNCHANGED gate
    /\ Forgets(h)
    /\ UNCHANGED lock

ForceRevoke(h) ==
    /\ lock[h] # NoFile
    /\ Trouble
    /\ RemoveFile(h)
    /\ excused' = excused \cup (IF Running(h) THEN {h} ELSE {})
    /\ UNCHANGED <<phase, gate, rivals>>

Crash(p) ==
    /\ Trouble
    /\ \E h \in Holders : ProcessOf[h] = p /\ ~Ended(h)
    /\ phase' = [h \in Holders |->
                   IF ProcessOf[h] = p /\ ~Ended(h) THEN "dead" ELSE phase[h]]
    /\ LET kept(f, init) == [h \in Holders |-> IF ProcessOf[h] = p THEN init ELSE f[h]]
       IN /\ op' = kept(op, "none")
          /\ age' = kept(age, 0)
          /\ listed' = kept(listed, {})
          /\ counted' = kept(counted, {})
          /\ stale' = kept(stale, NoHolder)
          /\ rivals' = kept(rivals, {})
    /\ gate' = [gate EXCEPT ![p] = NoHolder]
    /\ excused' = {h \in excused : ProcessOf[h] # p}
    /\ UNCHANGED lock

\* A refresh is due, or an operation under way, as the clock moves on.
Slow(h) ==
    \/ op[h] # "none" /\ (phase[h] = "trying" \/ Running(h))
    \/ phase[h] = "held" /\ Live(h) /\ lock[h] <= Ttl - Interval

Tick ==
    /\ PassTime
    /\ excused' = excused \cup {h \in Holders : Slow(h)}
    /\ UNCHANGED <<phase, gate, rivals, troubles>>

Next ==
    /\ \/ \E h \in Holders :
            \/ EnterGate(h) \/ Attempt(h) \/ Scan(h) \/ Acquire(h)
            \/ AcquireFails(h) \/ Refresh(h) \/ Renew(h) \/ RefreshFails(h)
            \/ EndEffect(h) \/ Release(h) \/ ReleaseFails(h)
            \/ Interrupt(h) \/ ForceRevoke(h)
       \/ \E p \in Processes : Crash(p)
       \/ Tick
    /\ NoteLapses

\* What a process that lives does of itself: it waits, polls, refreshes, stops an
\* effect it has interrupted and releases.  The effect need not end of itself.
Proceed(h) ==
    \/ EnterGate(h) \/ Attempt(h) \/ Scan(h) \/ Acquire(h)
    \/ Refresh(h) \/ Renew(h)
    \/ phase[h] \in {"lost", "failed"} /\ EndEffect(h)
    \/ Release(h)

Fairness ==
    /\ \A h \in Holders : WF_vars(Proceed(h) /\ NoteLapses)
    /\ WF_vars(Tick /\ NoteLapses)

Spec == Init /\ [][Next]_vars /\ Fairness

----------------------------------------------------------------------------
(* Properties *)

\* In one process the effect of one call runs at a time, whatever becomes of the
\* lock files: the gate is held until the file is removed.
GateExcludes ==
    \A g, h \in Holders :
        Running(g) /\ Running(h) /\ ProcessOf[g] = ProcessOf[h] => g = h

\* Across processes the limit is kept among holders that never were without a
\* live file and of which none published while another was acquiring.
NoOvercommit ==
    \A S \in SUBSET {h \in Holders : Running(h) /\ h \notin lapsed} :
        (\A g, h \in S : g \notin rivals[h]) => Cardinality(S) <= Limit

\* A lock is lost only by a holder that was revoked, or that did not refresh or
\* finish an operation in time.
LossExplained == \A h \in Holders : phase[h] = "lost" => h \in excused

\* A holder whose file was removed stops, unless its next one was being written.
LossNoticed ==
    \A h \in Holders :
        (phase[h] = "held" /\ lock[h] = NoFile /\ op[h] # "write") ~> phase[h] # "held"

\* Crashed holders, failed releases and late renames block a caller for a time
\* only: again and again somebody runs, or nobody waits.
NeverWedged ==
    []<>((\E h \in Holders : Running(h)) \/ ~\E h \in Holders : Waiting(h))
=============================================================================
