---------------------------- MODULE OutboxProofs ----------------------------
(***************************************************************************)
(* Theorems about OutboxExecutor, for any number of commands, workers,     *)
(* attempts, faults and forgets: what a worker may do to a command, and    *)
(* what the store may rely on.  A settled command has evidence of its      *)
(* write, compaction finds no run under way, and a rebuild changes         *)
(* nothing.                                                                *)
(***************************************************************************)
EXTENDS OutboxExecutor, InductionLemmas, TLAPS

----------------------------------------------------------------------------
(* The store *)

LEMMA AgeCapNat == AgeCap \in Nat
BY TicksAssumption DEF AgeCap

\* An event leaves a row a row.
LEMMA AfterEventType ==
    ASSUME NEW row \in OutboxRow, NEW e \in OutboxEvents
    PROVE  AfterEvent(row, e) \in OutboxRow
<1> USE DEF OutboxRow, OutboxStates, ClaimStates, FailureStates
<1>1. CASE e \in PlannedEvents
  BY <1>1 DEF PlannedEvents, AfterEvent, AfterPlanned, QueuedRow, AbsentRow
<1>2. CASE e \in AttemptEvents
  BY <1>2 DEF AttemptEvents, AfterEvent, AfterAttempted
<1>3. CASE e \in SettledEvents
  BY <1>3 DEF SettledEvents, AfterEvent, AfterSettled
<1>4. CASE e \in ForgetEvents
  BY <1>4 DEF ForgetEvents, AfterEvent, AfterForgotten
<1>5. QED
  BY <1>1, <1>2, <1>3, <1>4 DEF OutboxEvents

LEMMA EventCommand ==
    ASSUME NEW e \in OutboxEvents
    PROVE  e.cmd \in Commands
BY DEF OutboxEvents, PlannedEvents, AttemptEvents, SettledEvents, ForgetEvents

(* Replay *)

\* The tables of a replay, event by event.
Rebuilds(table, events) ==
    table = [n \in 0..Len(events) |->
                IF n = 0 THEN EmptyOutbox ELSE ApplyEvent(table[n - 1], events[n])]

Outboxes == [Commands -> OutboxRow]

LEMMA ApplyEventType ==
    ASSUME NEW table \in Outboxes, NEW e \in OutboxEvents
    PROVE  ApplyEvent(table, e) \in Outboxes
<1>1. table[e.cmd] \in OutboxRow
  BY EventCommand DEF Outboxes
<1>2. AfterEvent(table[e.cmd], e) \in OutboxRow
  BY <1>1, AfterEventType
<1>3. QED
  BY <1>2 DEF ApplyEvent, Outboxes

LEMMA ReplayRuns ==
    ASSUME NEW events \in Seq(OutboxEvents)
    PROVE  \E table : Rebuilds(table, events)
<1> DEFINE n == Len(events)
           step == [p \in Outboxes \X (1..n) |-> ApplyEvent(p[1], events[p[2]])]
<1>0. n \in Nat
  OBVIOUS
<1>1. \A i \in 1..n : events[i] \in OutboxEvents
  OBVIOUS
<1>2. EmptyOutbox \in Outboxes
  BY DEF EmptyOutbox, Outboxes, AbsentRow, OutboxRow, OutboxStates
<1>3. \A t \in Outboxes : \A i \in 1..n : step[<<t, i>>] = ApplyEvent(t, events[i])
  OBVIOUS
<1>4. \A t \in Outboxes : \A i \in 1..n : step[<<t, i>>] \in Outboxes
  BY <1>1, <1>3, ApplyEventType
<1>5. PICK f : IsStepwise(f, n, Outboxes, EmptyOutbox, step)
  <2> HIDE DEF step, n
  <2> QED
    BY <1>0, <1>2, <1>4, StepwiseFunction
<1>6. \A i \in 1..n : f[i] = ApplyEvent(f[i - 1], events[i])
  <2> HIDE DEF step
  <2> SUFFICES ASSUME NEW i \in 1..n PROVE f[i] = ApplyEvent(f[i - 1], events[i])
    OBVIOUS
  <2>1. i - 1 \in 0..n
    BY <1>0
  <2>2. f[i - 1] \in Outboxes /\ f[i] = step[<<f[i - 1], i>>]
    BY <1>5, <2>1 DEF IsStepwise
  <2>3. QED
    BY <1>3, <2>2
<1>7. f = [i \in 0..n |-> IF i = 0 THEN EmptyOutbox ELSE ApplyEvent(f[i - 1], events[i])]
  BY <1>0, <1>5, <1>6 DEF IsStepwise
<1>8. QED
  BY <1>7 DEF Rebuilds

LEMMA ReplayTable ==
    ASSUME NEW events \in Seq(OutboxEvents)
    PROVE  \E table : Rebuilds(table, events) /\ Replay(events) = table[Len(events)]
<1> DEFINE t == CHOOSE table : Rebuilds(table, events)
<1>1. Rebuilds(t, events)
  BY ReplayRuns
<1>2. Replay(events) = t[Len(events)]
  BY DEF Replay, Rebuilds
<1>3. QED
  BY <1>1, <1>2

\* Replaying one event more changes the row of that event, and nothing else.
LEMMA ReplayAppend ==
    ASSUME NEW events \in Seq(OutboxEvents), NEW e \in OutboxEvents
    PROVE  Replay(Append(events, e)) = ApplyEvent(Replay(events), e)
<1> DEFINE n == Len(events)
           more == Append(events, e)
<1>1. n \in Nat /\ more \in Seq(OutboxEvents) /\ Len(more) = n + 1 /\ more[n + 1] = e
      /\ \A i \in 1..n : more[i] = events[i]
  OBVIOUS
<1>2. PICK t : Rebuilds(t, events) /\ Replay(events) = t[n]
  BY ReplayTable
<1>3. PICK u : Rebuilds(u, more) /\ Replay(more) = u[n + 1]
  <2> HIDE DEF more
  <2> QED
    BY <1>1, ReplayTable
<1>4. t[0] = EmptyOutbox /\ \A i \in 1..n : t[i] = ApplyEvent(t[i - 1], events[i])
  BY <1>1, <1>2 DEF Rebuilds
<1>5. u[0] = EmptyOutbox /\ \A i \in 1..(n + 1) : u[i] = ApplyEvent(u[i - 1], more[i])
  <2> HIDE DEF more, n
  <2>1. u = [i \in 0..(n + 1) |-> IF i = 0 THEN EmptyOutbox ELSE ApplyEvent(u[i - 1], more[i])]
    BY <1>1, <1>3 DEF Rebuilds
  <2>2. n \in Nat
    BY <1>1
  <2>3. QED
    BY <2>1, <2>2
<1> DEFINE S == {i \in 0..n : t[i] = u[i]}
<1> HIDE DEF more, n
<1>6. 0 \in S
  BY <1>1, <1>4, <1>5
<1>7. ASSUME NEW k \in 0..(n - 1), k \in S PROVE k + 1 \in S
  <2>1. k + 1 \in 1..n /\ k + 1 \in 1..(n + 1) /\ k + 1 - 1 = k /\ t[k] = u[k]
    BY <1>1, <1>7
  <2>2. t[k + 1] = ApplyEvent(t[k], events[k + 1]) /\ u[k + 1] = ApplyEvent(u[k], more[k + 1])
    BY <1>4, <1>5, <2>1
  <2>3. QED
    BY <1>1, <2>1, <2>2
<1>8. n \in S
  <2> HIDE DEF S
  <2> QED
    <3>1. n \in Nat
      BY <1>1
    <3>2. 0..n \subseteq S
      BY <3>1, <1>6, <1>7, BoundedInduction, Zenon
    <3>3. QED
      BY <3>1, <3>2
<1>9. u[n + 1] = ApplyEvent(u[n], e)
  <2>1. n + 1 \in 1..(n + 1) /\ n + 1 - 1 = n
    BY <1>1
  <2>2. QED
    BY <1>1, <1>5, <2>1
<1>10. QED
  BY <1>2, <1>3, <1>8, <1>9 DEF more

\* The projection is the replay of the log (every insert rebuilds it).
Replayed == outbox = Replay(log)

LEMMA InitReplayed == Init => Replayed
<1> SUFFICES ASSUME Init PROVE outbox = Replay(log)
  BY DEF Replayed
<1>1. log = <<>> /\ outbox = EmptyOutbox /\ <<>> \in Seq(OutboxEvents) /\ Len(<<>>) = 0
  BY DEF Init, StoreInit
<1>2. PICK t : Rebuilds(t, <<>>) /\ Replay(<<>>) = t[Len(<<>>)]
  BY <1>1, ReplayTable
<1>3. t[0] = EmptyOutbox
  BY <1>1, <1>2 DEF Rebuilds
<1>4. QED
  BY <1>1, <1>2, <1>3

LEMMA KeptReplayed ==
    ASSUME Replayed, UNCHANGED <<log, outbox>>
    PROVE  Replayed'
BY DEF Replayed

LEMMA AppendReplayed ==
    ASSUME Replayed, NEW e, AppendEvent(e)
    PROVE  Replayed'
BY DEF Replayed, AppendEvent, Rebuilt, storeVars

\* Replaying a log with one event more is the same as applying that event to the
\* projection.
LEMMA AppendApplies ==
    ASSUME StoreTypeOK, Replayed, NEW e \in OutboxEvents, AppendEvent(e)
    PROVE  \/ InLog(e) /\ UNCHANGED storeVars
           \/ ~InLog(e) /\ log' = Append(log, e) /\ outbox' = ApplyEvent(outbox, e) /\ age' = 0
<1>1. CASE InLog(e)
  BY <1>1 DEF AppendEvent
<1>2. CASE ~InLog(e)
  <2>1. log' = Append(log, e) /\ outbox' = Replay(log') /\ age' = 0
    BY <1>2 DEF AppendEvent, Rebuilt
  <2>2. Replay(Append(log, e)) = ApplyEvent(Replay(log), e)
    BY ReplayAppend DEF StoreTypeOK
  <2>3. QED
    BY <1>2, <2>1, <2>2 DEF Replayed
<1>3. QED
  BY <1>1, <1>2

\* A rebuild changes nothing but the time stamps.
LEMMA RebuildKeeps ==
    ASSUME Replayed, RebuildProjections
    PROVE  UNCHANGED <<log, outbox>> /\ age' = 0
BY DEF Replayed, RebuildProjections, Rebuilt

\* Appending an event keeps the types of the store.
LEMMA AppendType ==
    ASSUME StoreTypeOK, Replayed, NEW e \in OutboxEvents, AppendEvent(e)
    PROVE  StoreTypeOK'
<1>1. CASE UNCHANGED storeVars
  BY <1>1 DEF StoreTypeOK, storeVars, AgeCap
<1>2. CASE log' = Append(log, e) /\ outbox' = ApplyEvent(outbox, e) /\ age' = 0
  <2>1. log' = Append(log, e) /\ outbox' = ApplyEvent(outbox, e) /\ age' = 0
    BY <1>2
  <2>2. log' \in Seq(OutboxEvents)
    BY <2>1 DEF StoreTypeOK
  <2>3. outbox' \in [Commands -> OutboxRow]
    BY <2>1, EventCommand, AfterEventType DEF StoreTypeOK, ApplyEvent
  <2>4. age' \in 0..AgeCap'
    BY <2>1, AgeCapNat DEF AgeCap
  <2>5. QED
    BY <2>2, <2>3, <2>4 DEF StoreTypeOK
<1>3. QED
  BY <1>1, <1>2, AppendApplies

\* The events the workers and the commands append are events.
LEMMA EventTypes ==
    ASSUME NEW c \in Commands
    PROVE  /\ Planned(c) \in OutboxEvents
           /\ \A exact \in BOOLEAN : Settled(c, exact) \in OutboxEvents
           /\ \A n \in Nat : Forgotten(c, n) \in OutboxEvents
           /\ \A n \in Nat, s \in ClaimStates \cup FailureStates, t \in Tokens, d \in BOOLEAN :
                 Attempted(c, n, s, t, d) \in OutboxEvents
BY DEF OutboxEvents, Planned, Settled, Forgotten, Attempted,
       PlannedEvents, SettledEvents, ForgetEvents, AttemptEvents

\* A worker's token is a token.
LEMMA TokenType == \A w \in Workers : Token[w] \in Tokens
BY WorkersAssumption

LEMMA ClaimEventType ==
    ASSUME StoreTypeOK, NEW c \in Commands, NEW t \in Tokens
    PROVE  /\ ClaimEvent(c, t) \in OutboxEvents
           /\ outbox[c].attempt + 1 \in Nat
           /\ ClaimState(outbox[c]) \in ClaimStates
<1>1. outbox[c] \in OutboxRow
  BY DEF StoreTypeOK
<1>2. outbox[c].attempt + 1 \in Nat
  BY <1>1 DEF OutboxRow
<1>3. ClaimState(outbox[c]) \in ClaimStates
  BY DEF ClaimState, ClaimStates
<1>4. QED
  BY <1>2, <1>3, EventTypes DEF ClaimEvent

----------------------------------------------------------------------------
(* Type correctness *)

USE DEF Fault

\* Writing a surface gives a surface of the same kind of command.
LEMMA WrittenType ==
    ASSUME NEW k \in Kinds, NEW surface \in Surfaces(k)
    PROVE  Written(k, surface) \in Surfaces(k)
<1> DEFINE base == surface.base /\ k \in {"relation", "lifecycle", "create"}
           met  == k \in {"hash", "lifecycle"}
<1>1. base \in BOOLEAN /\ met \in BOOLEAN
  OBVIOUS
<1>2. k = "hash" => base = FALSE
  OBVIOUS
<1>3. k \notin {"hash", "lifecycle"} => met = FALSE
  OBVIOUS
<1>4. Written(k, surface) = [base |-> base, met |-> met]
  BY DEF Written
<1> HIDE DEF base, met
<1>5. CASE k = "hash"
  BY <1>1, <1>2, <1>4, <1>5 DEF Surfaces
<1>6. CASE k = "lifecycle"
  BY <1>1, <1>4, <1>6 DEF Surfaces
<1>7. CASE k \notin {"hash", "lifecycle"}
  <2>1. Surfaces(k) = [base : BOOLEAN, met : {FALSE}]
    BY <1>7 DEF Surfaces
  <2>2. QED
    BY <1>1, <1>3, <1>4, <1>7, <2>1
<1>8. QED
  BY <1>5, <1>6, <1>7

\* The part of TypeOK that is about the workers.
WorkersTypeOK ==
    /\ pc \in [Workers -> Places]
    /\ \A w \in Workers : job[w] \in IF Busy(w) THEN Jobs ELSE {NoJob}
    /\ job \in [Workers -> Jobs \cup {NoJob}]
    /\ \A w \in Workers : pc[w] = "record" => job[w].report \in Failures

LEMMA FinishType ==
    ASSUME WorkersTypeOK, NEW w \in Workers, Finish(w)
    PROVE  WorkersTypeOK'
BY DEF WorkersTypeOK, Finish, Goto, Busy, Places

LEMMA GotoType ==
    ASSUME WorkersTypeOK, NEW w \in Workers, Busy(w),
           NEW place \in Places \ {"idle", "record"}, Goto(w, place), UNCHANGED job
    PROVE  WorkersTypeOK'
BY DEF WorkersTypeOK, Goto, Busy

LEMMA FailType ==
    ASSUME WorkersTypeOK, NEW w \in Workers, Busy(w),
           NEW report \in Failures, Fail(w, report)
    PROVE  WorkersTypeOK'
BY DEF WorkersTypeOK, Fail, Goto, Busy, Places, Jobs, Reports

\* The part of TypeOK that is about the remote side and the bounds.
RemoteTypeOK ==
    /\ kind \in [Commands -> Kinds]
    /\ network \in SUBSET Requests
    /\ remote \in [Commands -> [base : BOOLEAN, met : BOOLEAN]]
    /\ \A c \in Commands : remote[c] \in Surfaces(kind[c])
    /\ applied \in [Commands -> Nat]
    /\ seen \in [Commands -> BOOLEAN]
    /\ faults \in 0..MaxFaults
    /\ forgets \in 0..MaxForgets

LEMMA TypeParts == TypeOK <=> StoreTypeOK /\ WorkersTypeOK /\ RemoteTypeOK
BY DEF TypeOK, WorkersTypeOK, RemoteTypeOK

LEMMA TypePartsPrime == TypeOK' <=> StoreTypeOK' /\ WorkersTypeOK' /\ RemoteTypeOK'
BY DEF TypeOK, WorkersTypeOK, RemoteTypeOK

\* The job of a busy worker.
LEMMA JobType ==
    ASSUME WorkersTypeOK, NEW w \in Workers, Busy(w)
    PROVE  /\ job[w] \in Jobs
           /\ job[w].cmd \in Commands
           /\ job[w].attempt \in Nat
           /\ job[w].state \in ClaimStates
           /\ job[w].report \in Reports
BY DEF WorkersTypeOK, Jobs

\* Answering a request keeps its waiters busy.
LEMMA AnswerType ==
    ASSUME WorkersTypeOK, NEW r, NEW place \in Places \ {"idle"},
           NEW report \in Reports, place = "record" => report \in Failures,
           Answer(r, place, report)
    PROVE  WorkersTypeOK'
BY DEF WorkersTypeOK, Answer, Awaits, Busy, Jobs, Places, Reports

LEMMA UnchangedStoreType ==
    ASSUME StoreTypeOK, UNCHANGED storeVars
    PROVE  StoreTypeOK'
BY DEF StoreTypeOK, storeVars, AgeCap

LEMMA UnchangedWorkersType ==
    ASSUME WorkersTypeOK, UNCHANGED workerVars
    PROVE  WorkersTypeOK'
BY DEF WorkersTypeOK, workerVars, Busy

LEMMA InitType == Init => TypeOK
<1> SUFFICES ASSUME Init PROVE TypeOK
  OBVIOUS
<1> USE DEF Init
<1>1. StoreTypeOK
  BY AgeCapNat DEF StoreInit, StoreTypeOK, EmptyOutbox, OutboxRow, AbsentRow, OutboxStates
<1>2. WorkersTypeOK
  BY DEF WorkersTypeOK, Places, Busy
<1>3. RemoteTypeOK
  <2>1. \A k \in Kinds : Unwritten \in Surfaces(k)
    <3> SUFFICES ASSUME NEW k \in Kinds PROVE Unwritten \in Surfaces(k)
      OBVIOUS
    <3>1. CASE k = "hash"
      BY <3>1 DEF Unwritten, Surfaces
    <3>2. CASE k = "lifecycle"
      BY <3>2 DEF Unwritten, Surfaces
    <3>3. CASE k \notin {"hash", "lifecycle"}
      BY <3>3 DEF Unwritten, Surfaces
    <3>4. QED
      BY <3>1, <3>2, <3>3
  <2>2. QED
    BY <2>1, WorkersAssumption DEF RemoteTypeOK, Unwritten
<1>4. QED
  BY <1>1, <1>2, <1>3, TypeParts

\* Every step of the program keeps the types.
LEMMA NextType == TypeOK /\ Replayed /\ [Next]_vars => TypeOK'
<1> SUFFICES ASSUME StoreTypeOK, WorkersTypeOK, RemoteTypeOK, Replayed, [Next]_vars
             PROVE  StoreTypeOK' /\ WorkersTypeOK' /\ RemoteTypeOK'
  BY TypeParts, TypePartsPrime
<1> USE DEF Failures, Reports, Places
<1>1. ASSUME NEW c \in Commands, Plan(c)
      PROVE  StoreTypeOK' /\ WorkersTypeOK' /\ RemoteTypeOK'
  <2> USE <1>1 DEF Plan
  <2>1. StoreTypeOK'
    BY AppendType, EventTypes
  <2>2. WorkersTypeOK'
    BY UnchangedWorkersType
  <2>3. RemoteTypeOK'
    BY DEF RemoteTypeOK, remoteVars
  <2>4. QED
    BY <2>1, <2>2, <2>3
<1>2. ASSUME NEW c \in Commands, ThirdPartyEdit(c)
      PROVE  StoreTypeOK' /\ WorkersTypeOK' /\ RemoteTypeOK'
  <2> USE <1>2 DEF ThirdPartyEdit
  <2>1. StoreTypeOK' /\ WorkersTypeOK'
    BY UnchangedStoreType, UnchangedWorkersType
  <2>2. RemoteTypeOK'
    <3>1. PICK surface \in Surfaces(kind[c]) : remote' = [remote EXCEPT ![c] = surface]
      OBVIOUS
    <3>2. surface \in [base : BOOLEAN, met : BOOLEAN]
      BY DEF Surfaces
    <3>3. QED
      BY <3>1, <3>2, WorkersAssumption DEF RemoteTypeOK
  <2>3. QED
    BY <2>1, <2>2
<1>3. ASSUME NEW c \in Commands, Forget(c)
      PROVE  StoreTypeOK' /\ WorkersTypeOK' /\ RemoteTypeOK'
  <2> USE <1>3 DEF Forget
  <2>1. StoreTypeOK'
    BY AppendType, EventTypes DEF RemoteTypeOK
  <2>2. WorkersTypeOK'
    BY UnchangedWorkersType
  <2>3. RemoteTypeOK'
    BY WorkersAssumption DEF RemoteTypeOK, remoteVars
  <2>4. QED
    BY <2>1, <2>2, <2>3
<1>4. ASSUME NEW w \in Workers, Claim(w)
      PROVE  StoreTypeOK' /\ WorkersTypeOK' /\ RemoteTypeOK'
  <2> USE <1>4 DEF Claim
  <2>1. StoreTypeOK'
    BY AppendType, ClaimEventType, TokenType
  <2>2. WorkersTypeOK'
    <3>1. PICK c \in Commands :
             job' = [job EXCEPT ![w] = [cmd |-> c, attempt |-> outbox[c].attempt + 1,
                                        state |-> ClaimState(outbox[c]), report |-> "none"]]
      OBVIOUS
    <3>2. [cmd |-> c, attempt |-> outbox[c].attempt + 1,
           state |-> ClaimState(outbox[c]), report |-> "none"] \in Jobs
      BY ClaimEventType, TokenType DEF Jobs
    <3>3. QED
      BY <3>1, <3>2 DEF WorkersTypeOK, Busy, Goto
  <2>3. RemoteTypeOK'
    BY DEF RemoteTypeOK, remoteVars
  <2>4. QED
    BY <2>1, <2>2, <2>3
<1>5. ASSUME NEW w \in Workers, ObserveBefore(w)
      PROVE  StoreTypeOK' /\ WorkersTypeOK' /\ RemoteTypeOK'
  <2> USE <1>5 DEF ObserveBefore
  <2>0. Busy(w)
    BY DEF Busy
  <2>1. StoreTypeOK'
    BY UnchangedStoreType
  <2>2. WorkersTypeOK'
    BY <2>0, FinishType, FailType, GotoType
  <2>3. RemoteTypeOK'
    BY DEF RemoteTypeOK, remoteVars
  <2>4. QED
    BY <2>1, <2>2, <2>3
<1>6. ASSUME NEW w \in Workers, CheckLease(w)
      PROVE  StoreTypeOK' /\ WorkersTypeOK' /\ RemoteTypeOK'
  <2> USE <1>6 DEF CheckLease
  <2>0. Busy(w)
    BY DEF Busy
  <2>1. StoreTypeOK'
    BY UnchangedStoreType
  <2>2. WorkersTypeOK'
    BY <2>0, FailType, GotoType
  <2>3. RemoteTypeOK'
    <3>1. [cmd |-> job[w].cmd, attempt |-> job[w].attempt, checked |-> FALSE] \in Requests
      BY <2>0, JobType DEF Requests
    <3>2. network' \in SUBSET Requests
      BY <3>1 DEF RemoteTypeOK
    <3>3. QED
      BY <3>2 DEF RemoteTypeOK
  <2>4. QED
    BY <2>1, <2>2, <2>3
<1>7. ASSUME NEW w \in Workers, ObserveAfter(w)
      PROVE  StoreTypeOK' /\ WorkersTypeOK' /\ RemoteTypeOK'
  <2> USE <1>7 DEF ObserveAfter
  <2>0. Busy(w)
    BY DEF Busy
  <2>1. StoreTypeOK'
    BY UnchangedStoreType
  <2>2. WorkersTypeOK'
    <3>1. CASE Fail(w, "retryable")
      BY <2>0, <3>1, FailType
    <3>2. ASSUME NEW report \in Reports, Goto(w, "settle"),
                 job' = [job EXCEPT ![w].report = report]
          PROVE  WorkersTypeOK'
      BY <2>0, <3>2 DEF WorkersTypeOK, Goto, Busy, Jobs
    <3>3. QED
      BY <3>1, <3>2
  <2>3. RemoteTypeOK'
    BY DEF RemoteTypeOK, remoteVars
  <2>4. QED
    BY <2>1, <2>2, <2>3
<1>8. ASSUME NEW w \in Workers, Settle(w)
      PROVE  StoreTypeOK' /\ WorkersTypeOK' /\ RemoteTypeOK'
  <2> USE <1>8 DEF Settle
  <2>0. Busy(w)
    BY DEF Busy
  <2>1. StoreTypeOK'
    BY <2>0, AppendType, EventTypes, JobType
  <2>2. WorkersTypeOK'
    BY FinishType
  <2>3. RemoteTypeOK'
    BY DEF RemoteTypeOK, remoteVars
  <2>4. QED
    BY <2>1, <2>2, <2>3
<1>9. ASSUME NEW w \in Workers, RecordAttemptState(w)
      PROVE  StoreTypeOK' /\ WorkersTypeOK' /\ RemoteTypeOK'
  <2> USE <1>9 DEF RecordAttemptState
  <2>0. Busy(w)
    BY DEF Busy
  <2>1. StoreTypeOK'
    <3>1. PICK state : /\ state = IF job[w].report = "later" THEN "retryable" ELSE job[w].report
                       /\ AppendEvent(Attempted(job[w].cmd, job[w].attempt, state, Token[w],
                                                job[w].report = "later"))
      OBVIOUS
    <3>2. state \in FailureStates
      BY <2>0, <3>1 DEF WorkersTypeOK, FailureStates
    <3>3. QED
      BY <2>0, <3>1, <3>2, AppendType, EventTypes, JobType, TokenType
  <2>2. WorkersTypeOK'
    BY FinishType
  <2>3. RemoteTypeOK'
    BY DEF RemoteTypeOK, remoteVars
  <2>4. QED
    BY <2>1, <2>2, <2>3
<1>10. ASSUME NEW w \in Workers, ObserveError(w)
       PROVE  StoreTypeOK' /\ WorkersTypeOK' /\ RemoteTypeOK'
  <2> USE <1>10 DEF ObserveError
  <2>0. Busy(w)
    BY DEF Busy
  <2>1. StoreTypeOK'
    BY UnchangedStoreType
  <2>2. WorkersTypeOK'
    BY <2>0, FailType
  <2>3. RemoteTypeOK'
    BY WorkersAssumption DEF RemoteTypeOK, remoteVars
  <2>4. QED
    BY <2>1, <2>2, <2>3
<1>11. ASSUME NEW w \in Workers, WriteError(w)
       PROVE  StoreTypeOK' /\ WorkersTypeOK' /\ RemoteTypeOK'
  <2> USE <1>11 DEF WriteError
  <2>0. Busy(w)
    BY DEF Busy
  <2>1. StoreTypeOK'
    BY UnchangedStoreType
  <2>2. WorkersTypeOK'
    BY <2>0, FailType
  <2>3. RemoteTypeOK'
    BY WorkersAssumption DEF RemoteTypeOK
  <2>4. QED
    BY <2>1, <2>2, <2>3
<1>12. ASSUME NEW w \in Workers, Stop(w)
       PROVE  StoreTypeOK' /\ WorkersTypeOK' /\ RemoteTypeOK'
  <2> USE <1>12 DEF Stop
  <2>1. StoreTypeOK'
    BY UnchangedStoreType
  <2>2. WorkersTypeOK'
    BY FinishType
  <2>3. RemoteTypeOK'
    BY WorkersAssumption DEF RemoteTypeOK
  <2>4. QED
    BY <2>1, <2>2, <2>3
<1>13. ASSUME NEW r \in network, GatewayCheck(r)
       PROVE  StoreTypeOK' /\ WorkersTypeOK' /\ RemoteTypeOK'
  <2> USE <1>13 DEF GatewayCheck
  <2>1. StoreTypeOK'
    BY UnchangedStoreType
  <2>2. WorkersTypeOK'
    <3>1. Refusals(kind[r.cmd]) \subseteq Failures
      BY DEF Refusals, Failures
    <3>2. "record" \in Places \ {"idle"}
      BY DEF Places
    <3>3. CASE remote[r.cmd].base
      BY <3>3, UnchangedWorkersType
    <3>4. CASE ~remote[r.cmd].base
      BY <3>1, <3>2, <3>4, AnswerType
    <3>5. QED
      BY <3>3, <3>4
  <2>3. RemoteTypeOK'
    <3>1. [r EXCEPT !.checked = TRUE] \in Requests
      BY DEF RemoteTypeOK, Requests
    <3>2. network' \in SUBSET Requests
      BY <3>1 DEF RemoteTypeOK
    <3>3. QED
      BY <3>2 DEF RemoteTypeOK
  <2>4. QED
    BY <2>1, <2>2, <2>3
<1>14. ASSUME NEW r \in network, RemoteWrite(r)
       PROVE  StoreTypeOK' /\ WorkersTypeOK' /\ RemoteTypeOK'
  <2> USE <1>14 DEF RemoteWrite
  <2>1. StoreTypeOK'
    BY UnchangedStoreType
  <2>2. WorkersTypeOK'
    BY AnswerType
  <2>3. RemoteTypeOK'
    <3>1. r.cmd \in Commands
      BY DEF RemoteTypeOK, Requests
    <3>2. Written(kind[r.cmd], remote[r.cmd]) \in Surfaces(kind[r.cmd])
      BY <3>1, WrittenType DEF RemoteTypeOK
    <3>3. Written(kind[r.cmd], remote[r.cmd]) \in [base : BOOLEAN, met : BOOLEAN]
      BY <3>2 DEF Surfaces
    <3>4. QED
      BY <3>1, <3>2, <3>3 DEF RemoteTypeOK
  <2>4. QED
    BY <2>1, <2>2, <2>3
<1>15. CASE Rebuild
  <2> USE <1>15 DEF Rebuild
  <2>1. StoreTypeOK'
    BY AgeCapNat, RebuildKeeps DEF StoreTypeOK, AgeCap
  <2>2. QED
    BY <2>1, UnchangedWorkersType DEF RemoteTypeOK, remoteVars
<1>16. CASE Tick
  <2> USE <1>16 DEF Tick
  <2>1. StoreTypeOK'
    BY AgeCapNat DEF StoreTypeOK, AgeCap
  <2>2. QED
    BY <2>1, UnchangedWorkersType DEF RemoteTypeOK, remoteVars
<1>17. CASE UNCHANGED vars
  BY <1>17, UnchangedStoreType, UnchangedWorkersType DEF vars, RemoteTypeOK, remoteVars
<1>18. QED
  BY <1>1, <1>2, <1>3, <1>4, <1>5, <1>6, <1>7, <1>8, <1>9, <1>10, <1>11, <1>12,
     <1>13, <1>14, <1>15, <1>16, <1>17 DEF Next, WorkerStep, Faulty, GatewayStep

\* Every step replays the log or leaves the log and the projection alone.
LEMMA NextReplayed == Replayed /\ [Next]_vars => Replayed'
<1> SUFFICES ASSUME Replayed, [Next]_vars PROVE Replayed'
  OBVIOUS
<1>1. ASSUME NEW e, AppendEvent(e) PROVE Replayed'
  BY <1>1, AppendReplayed
<1>2. ASSUME NEW c \in Commands, Plan(c) \/ Forget(c) PROVE Replayed'
  BY <1>1, <1>2 DEF Plan, Forget
<1>3. ASSUME NEW w \in Workers, Claim(w) \/ Settle(w) \/ RecordAttemptState(w) PROVE Replayed'
  BY <1>1, <1>3 DEF Claim, Settle, RecordAttemptState
<1>4. ASSUME NEW w \in Workers,
             ObserveBefore(w) \/ CheckLease(w) \/ ObserveAfter(w) \/ Faulty(w)
      PROVE  Replayed'
  <2>1. UNCHANGED <<log, outbox>>
    BY <1>4 DEF ObserveBefore, CheckLease, ObserveAfter, Faulty, ObserveError, WriteError,
                Stop, storeVars
  <2>2. QED
    BY <2>1, KeptReplayed
<1>5. ASSUME NEW c \in Commands, ThirdPartyEdit(c) PROVE Replayed'
  BY <1>5, KeptReplayed DEF ThirdPartyEdit, storeVars
<1>6. ASSUME NEW r \in network, GatewayStep(r) PROVE Replayed'
  BY <1>6, KeptReplayed DEF GatewayStep, GatewayCheck, RemoteWrite, storeVars
<1>7. CASE Rebuild \/ Tick \/ UNCHANGED vars
  BY <1>7, KeptReplayed, RebuildKeeps DEF Rebuild, Tick, vars, storeVars
<1>8. QED
  BY <1>2, <1>3, <1>4, <1>5, <1>6, <1>7 DEF Next, WorkerStep

\* Every variable keeps its type (TypeOK).
THEOREM TypeCorrect == Spec => []TypeOK
<1>1. Init => TypeOK /\ Replayed
  BY InitType, InitReplayed
<1>2. TypeOK /\ Replayed /\ [Next]_vars => TypeOK' /\ Replayed'
  BY NextType, NextReplayed
<1>3. QED
  BY <1>1, <1>2, PTL DEF Spec

----------------------------------------------------------------------------
(* The inductive invariant                                                 *)
(*                                                                         *)
(* An attempt number is handed out once, because a claim takes the number  *)
(* after the row's and its event is never a duplicate: no event of the log *)
(* and no run has a number above the row's.                                *)

\* A row that was never claimed has attempt number 0; the projection of a
\* planned command starts there (RemoteWritePlanned).
UnclaimedRows ==
    \A c \in Commands :
        outbox[c].state \in {"absent", "queued"} => outbox[c].attempt = 0

\* Only rows without an attempt under way have no lease.
LeaselessRows ==
    \A c \in Commands :
        outbox[c].token = NoToken =>
            outbox[c].state \in {"absent", "queued", "settled", "fenced"}

\* No attempt in the log is newer than its row.
LoggedAttempts ==
    \A i \in 1..Len(log) :
        log[i].type = "Attempted" => log[i].attempt <= outbox[log[i].cmd].attempt

\* No run is newer than the row of its command.
JobsAttempted ==
    \A w \in Workers :
        Busy(w) => 1 <= job[w].attempt /\ job[w].attempt <= outbox[job[w].cmd].attempt

\* While the run of the newest attempt is under way, the row says so, unless
\* the command was settled or forgotten and has lost its lease.
NewestIsUnderWay ==
    \A w \in Workers :
        Busy(w) /\ job[w].attempt = outbox[job[w].cmd].attempt =>
            outbox[job[w].cmd].token = NoToken \/ outbox[job[w].cmd].state \in ClaimStates

IInv ==
    /\ TypeOK
    /\ Replayed
    /\ UnclaimedRows
    /\ LeaselessRows
    /\ LoggedAttempts
    /\ JobsAttempted
    /\ OneWorkerPerAttempt
    /\ NewestIsUnderWay

\* What almost every step does to the runs: some may end, none changes its
\* command or its attempt.
RunsKept ==
    \A w \in Workers :
        Busy(w)' => Busy(w) /\ job'[w].cmd = job[w].cmd /\ job'[w].attempt = job[w].attempt

\* Rows only gain attempts.
AttemptsKept == \A c \in Commands : outbox[c].attempt <= outbox'[c].attempt

LEMMA FinishKeepsRuns ==
    ASSUME WorkersTypeOK, NEW w \in Workers, Finish(w)
    PROVE  RunsKept
BY DEF WorkersTypeOK, RunsKept, Finish, Goto, Busy

LEMMA FailKeepsRuns ==
    ASSUME WorkersTypeOK, NEW w \in Workers, Busy(w), NEW report, Fail(w, report)
    PROVE  RunsKept
BY DEF WorkersTypeOK, RunsKept, Fail, Goto, Busy, Jobs

LEMMA GotoKeepsRuns ==
    ASSUME WorkersTypeOK, NEW w \in Workers, Busy(w), NEW place, Goto(w, place),
           UNCHANGED job
    PROVE  RunsKept
BY DEF WorkersTypeOK, RunsKept, Goto, Busy

LEMMA AnswerKeepsRuns ==
    ASSUME WorkersTypeOK, NEW r, NEW place, NEW report, Answer(r, place, report)
    PROVE  RunsKept
BY DEF WorkersTypeOK, RunsKept, Answer, Awaits, Busy, Jobs

LEMMA UnchangedKeepsRuns == UNCHANGED workerVars => RunsKept
BY DEF RunsKept, workerVars, Busy

\* The runs' part of the invariant, for a step that starts no run.
LEMMA RunsKeptInv ==
    ASSUME IInv, TypeOK', RunsKept, AttemptsKept
    PROVE  JobsAttempted' /\ OneWorkerPerAttempt'
<1>1. JobsAttempted'
  <2> SUFFICES ASSUME NEW w \in Workers, Busy(w)'
               PROVE  1 <= job'[w].attempt /\ job'[w].attempt <= outbox'[job'[w].cmd].attempt
    BY DEF JobsAttempted
  <2>1. Busy(w) /\ job'[w].cmd = job[w].cmd /\ job'[w].attempt = job[w].attempt
    BY DEF RunsKept
  <2>2. job[w].cmd \in Commands /\ job[w].attempt \in Nat
    BY <2>1, TypeParts, JobType DEF IInv
  <2>3. outbox[job[w].cmd].attempt \in Nat /\ outbox'[job[w].cmd].attempt \in Nat
    BY <2>2 DEF IInv, TypeOK, StoreTypeOK, OutboxRow
  <2>4. QED
    BY <2>1, <2>2, <2>3 DEF IInv, JobsAttempted, AttemptsKept
<1>2. OneWorkerPerAttempt'
  BY DEF IInv, OneWorkerPerAttempt, RunsKept
<1>3. QED
  BY <1>1, <1>2

\* A step that leaves the store's log and rows alone and starts no run.
LEMMA OutboxKeptInv ==
    ASSUME IInv, TypeOK', RunsKept, UNCHANGED <<log, outbox>>
    PROVE  IInv'
<1>1. AttemptsKept
  BY DEF AttemptsKept, IInv, TypeOK, StoreTypeOK, OutboxRow
<1>2. UnclaimedRows' /\ LeaselessRows' /\ LoggedAttempts'
  BY DEF IInv, UnclaimedRows, LeaselessRows, LoggedAttempts
<1>3. NewestIsUnderWay'
  BY DEF IInv, NewestIsUnderWay, RunsKept
<1>4. QED
  BY <1>1, <1>2, <1>3, RunsKeptInv, KeptReplayed DEF IInv

\* What appending an event does: nothing, or the event joins the log and its
\* command's row is the only one that may change.
LEMMA AppendEffect ==
    ASSUME StoreTypeOK, Replayed, NEW e \in OutboxEvents, AppendEvent(e)
    PROVE  \/ UNCHANGED <<log, outbox>>
           \/ /\ log' = Append(log, e)
              /\ outbox'[e.cmd] = AfterEvent(outbox[e.cmd], e)
              /\ \A c \in Commands : c # e.cmd => outbox'[c] = outbox[c]
BY EventCommand, AppendApplies DEF storeVars, ApplyEvent, StoreTypeOK

\* The log's part of the invariant, for an event whose attempt, if it has one,
\* is not newer than its row.
LEMMA AppendLogged ==
    ASSUME StoreTypeOK, StoreTypeOK', LoggedAttempts, AttemptsKept,
           NEW e \in OutboxEvents, log' = Append(log, e),
           e.type = "Attempted" => e.attempt <= outbox'[e.cmd].attempt
    PROVE  LoggedAttempts'
<1> SUFFICES ASSUME NEW i \in 1..Len(log'), log'[i].type = "Attempted"
             PROVE  log'[i].attempt <= outbox'[log'[i].cmd].attempt
  BY DEF LoggedAttempts
<1>1. log \in Seq(OutboxEvents) /\ Len(log') = Len(log) + 1
  BY DEF StoreTypeOK
<1>2. CASE i = Len(log) + 1
  BY <1>1, <1>2
<1>3. CASE i \in 1..Len(log)
  <2>1. log'[i] = log[i] /\ log[i] \in OutboxEvents
    BY <1>1, <1>3
  <2>2. log[i].cmd \in Commands
    BY <2>1, EventCommand
  <2>3. log[i] \in AttemptEvents
    BY <2>1 DEF OutboxEvents, PlannedEvents, SettledEvents, ForgetEvents
  <2>4. /\ log[i].attempt \in Nat
        /\ outbox[log[i].cmd].attempt \in Nat
        /\ outbox'[log[i].cmd].attempt \in Nat
    BY <2>2, <2>3 DEF AttemptEvents, StoreTypeOK, OutboxRow
  <2>5. QED
    BY <1>3, <2>1, <2>2, <2>4 DEF LoggedAttempts, AttemptsKept
<1>4. QED
  BY <1>1, <1>2, <1>3

\* The claim of a claimable command is never a duplicate and always applies.
LEMMA ClaimApplies ==
    ASSUME IInv, NEW c \in Commands, NEW t \in Tokens, Claimable(c),
           AppendEvent(ClaimEvent(c, t))
    PROVE  /\ log' = Append(log, ClaimEvent(c, t))
           /\ outbox' = [outbox EXCEPT ![c] =
                            [state |-> ClaimState(outbox[c]),
                             attempt |-> outbox[c].attempt + 1,
                             token |-> t, delayed |-> FALSE]]
<1> DEFINE e == ClaimEvent(c, t)
<1>0. StoreTypeOK /\ outbox[c] \in OutboxRow /\ outbox[c].attempt \in Nat
  BY DEF IInv, TypeOK, StoreTypeOK, OutboxRow
<1>1. /\ e \in OutboxEvents /\ e.type = "Attempted" /\ e.cmd = c
      /\ e.attempt = outbox[c].attempt + 1
      /\ e.state = ClaimState(outbox[c]) /\ e.state \in ClaimStates
      /\ e.token = t /\ e.delayed = FALSE
  BY <1>0, ClaimEventType DEF ClaimEvent, Attempted
<1> HIDE DEF e
<1>2. ~InLog(e)
  <2> SUFFICES ASSUME NEW i \in 1..Len(log), Key(log[i]) = Key(e) PROVE FALSE
    BY DEF InLog
  <2>1. Key(e) = <<"claim", c, outbox[c].attempt + 1>>
    BY <1>1 DEF Key
  <2>2. log[i] \in OutboxEvents
    BY <1>0 DEF StoreTypeOK
  <2>3. CASE log[i] \in AttemptEvents /\ log[i].state \in ClaimStates
    <3>1. Key(log[i]) = <<"claim", log[i].cmd, log[i].attempt>> /\ log[i].type = "Attempted"
      BY <2>3 DEF Key, AttemptEvents
    <3>2. log[i].cmd = c /\ log[i].attempt = outbox[c].attempt + 1
      BY <2>1, <3>1
    <3>3. log[i].attempt <= outbox[c].attempt
      BY <3>1, <3>2 DEF IInv, LoggedAttempts
    <3>4. QED
      BY <1>0, <3>2, <3>3
  <2>4. CASE log[i] \in AttemptEvents /\ log[i].state \notin ClaimStates
    <3>1. Key(log[i])[1] = "report"
      BY <2>4 DEF Key, AttemptEvents
    <3>2. QED
      BY <2>1, <3>1
  <2>5. CASE log[i] \in PlannedEvents \cup SettledEvents \cup ForgetEvents
    <3>1. Key(log[i])[1] \in {"Planned", "Settled", "forget"}
      BY <2>5 DEF Key, PlannedEvents, SettledEvents, ForgetEvents
    <3>2. QED
      BY <2>1, <3>1
  <2>6. QED
    BY <2>2, <2>3, <2>4, <2>5 DEF OutboxEvents
<1>3. log' = Append(log, e) /\ outbox' = [outbox EXCEPT ![c] = AfterEvent(outbox[c], e)]
  <2>1. AppendEvent(e)
    BY DEF e
  <2>2. log' = Append(log, e) /\ outbox' = ApplyEvent(outbox, e)
    BY <1>0, <1>1, <1>2, <2>1, AppendApplies DEF IInv
  <2>3. QED
    BY <1>1, <2>2 DEF ApplyEvent
<1>4. AttemptApplies(outbox[c], e)
  BY <1>0, <1>1 DEF AttemptApplies, Claimable, Unsettled
<1>5. AfterEvent(outbox[c], e) = AfterAttempted(outbox[c], e)
  BY <1>1 DEF AfterEvent
<1>6. QED
  BY <1>1, <1>3, <1>4, <1>5 DEF AfterAttempted, e

\* The rows an event may produce, for the events that are not claims.
LEMMA AfterEventRow ==
    ASSUME NEW row \in OutboxRow, NEW e \in OutboxEvents,
           row.state \in {"absent", "queued"} => row.attempt = 0,
           row.token = NoToken => row.state \in {"absent", "queued", "settled", "fenced"},
           e.type = "Attempted" => /\ e.state \in FailureStates
                                   /\ 1 <= e.attempt /\ e.attempt <= row.attempt
    PROVE  LET new == AfterEvent(row, e) IN
           /\ new.attempt = row.attempt
           /\ new.state \in {"absent", "queued"} => new.attempt = 0
           /\ new.token = NoToken => new.state \in {"absent", "queued", "settled", "fenced"}
           /\ \/ e.type = "Attempted" /\ e.attempt = row.attempt
              \/ new.token = NoToken
              \/ new = row
<1> USE DEF OutboxRow
<1>1. CASE e.type = "Planned"
  BY <1>1 DEF AfterEvent, AfterPlanned, QueuedRow, AbsentRow
<1>2. CASE e.type = "Attempted"
  <2>1. e.attempt \in Nat /\ e.token \in Tokens /\ e.token # NoToken
    BY <1>2, NoTokenAssumption
       DEF OutboxEvents, PlannedEvents, AttemptEvents, SettledEvents, ForgetEvents
  <2>2. AfterEvent(row, e) = AfterAttempted(row, e)
    BY <1>2 DEF AfterEvent
  <2>3. CASE AttemptApplies(row, e)
    <3>1. e.attempt = row.attempt
      BY <1>2, <2>1, <2>3 DEF AttemptApplies
    <3>2. AfterEvent(row, e) = [state |-> e.state, attempt |-> e.attempt, token |-> e.token,
                                delayed |-> e.delayed]
      BY <2>2, <2>3 DEF AfterAttempted
    <3>3. QED
      BY <1>2, <2>1, <3>1, <3>2 DEF FailureStates
  <2>4. CASE ~AttemptApplies(row, e)
    BY <2>2, <2>4 DEF AfterAttempted
  <2>5. QED
    BY <2>3, <2>4
<1>3. CASE e.type = "Settled"
  BY <1>3 DEF AfterEvent, AfterSettled
<1>4. CASE e.type = "Forgotten"
  BY <1>4 DEF AfterEvent, AfterForgotten
<1>5. QED
  BY <1>1, <1>2, <1>3, <1>4
     DEF OutboxEvents, PlannedEvents, AttemptEvents, SettledEvents, ForgetEvents

\* The invariant survives an event that is not a claim and starts no run, if a
\* report comes from the only run of its attempt, which ends with it.
LEMMA AppendInv ==
    ASSUME IInv, TypeOK', RunsKept, NEW e \in OutboxEvents, AppendEvent(e),
           e.type = "Attempted" =>
               /\ e.state \in FailureStates
               /\ 1 <= e.attempt /\ e.attempt <= outbox[e.cmd].attempt
               /\ \A w \in Workers :
                     Busy(w)' /\ job[w].cmd = e.cmd => job[w].attempt # e.attempt
    PROVE  IInv'
<1>0. StoreTypeOK /\ StoreTypeOK' /\ e.cmd \in Commands
  BY EventCommand, TypeParts, TypePartsPrime DEF IInv
<1>1. CASE UNCHANGED <<log, outbox>>
  BY <1>1, OutboxKeptInv
<1>2. CASE /\ log' = Append(log, e)
           /\ outbox'[e.cmd] = AfterEvent(outbox[e.cmd], e)
           /\ \A c \in Commands : c # e.cmd => outbox'[c] = outbox[c]
  <2> DEFINE row == outbox[e.cmd]
             new == outbox'[e.cmd]
  <2>1. row \in OutboxRow
    BY <1>0 DEF StoreTypeOK
  <2>2. /\ new.attempt = row.attempt
        /\ new.state \in {"absent", "queued"} => new.attempt = 0
        /\ new.token = NoToken => new.state \in {"absent", "queued", "settled", "fenced"}
        /\ \/ e.type = "Attempted" /\ e.attempt = row.attempt
           \/ new.token = NoToken
           \/ new = row
    BY <1>0, <1>2, <2>1, AfterEventRow DEF IInv, UnclaimedRows, LeaselessRows
  <2>3. \A c \in Commands : outbox'[c].attempt = outbox[c].attempt
    BY <1>2, <2>2
  <2>4. AttemptsKept
    BY <1>0, <2>3 DEF AttemptsKept, StoreTypeOK, OutboxRow
  <2>5. UnclaimedRows' /\ LeaselessRows'
    BY <1>2, <2>2 DEF IInv, UnclaimedRows, LeaselessRows
  <2>6. LoggedAttempts'
    BY <1>0, <1>2, <2>2, <2>4, AppendLogged DEF IInv
  <2>7. NewestIsUnderWay'
    <3> SUFFICES ASSUME NEW w \in Workers, Busy(w)',
                        job'[w].attempt = outbox'[job'[w].cmd].attempt
                 PROVE  \/ outbox'[job'[w].cmd].token = NoToken
                        \/ outbox'[job'[w].cmd].state \in ClaimStates
      BY DEF NewestIsUnderWay
    <3>1. Busy(w) /\ job'[w].cmd = job[w].cmd /\ job'[w].attempt = job[w].attempt
      BY DEF RunsKept
    <3>2. job[w].cmd \in Commands
      BY <3>1, TypeParts, JobType DEF IInv
    <3>3. CASE job[w].cmd # e.cmd
      BY <1>2, <3>1, <3>2, <3>3 DEF IInv, NewestIsUnderWay
    <3>4. CASE job[w].cmd = e.cmd
      BY <2>2, <3>1, <3>4 DEF IInv, NewestIsUnderWay
    <3>5. QED
      BY <3>3, <3>4
  <2>8. QED
    BY <2>4, <2>5, <2>6, <2>7, RunsKeptInv, AppendReplayed DEF IInv
<1>3. QED
  BY <1>0, <1>1, <1>2, AppendEffect DEF IInv

\* What a claim does: an idle worker takes the next attempt of a claimable
\* command, its row and the log record it, and nobody else is touched.
LEMMA ClaimEffect ==
    ASSUME IInv, NEW w \in Workers, Claim(w)
    PROVE  \E c \in Commands :
              /\ Claimable(c)
              /\ ~Busy(w) /\ job'[w].cmd = c /\ job'[w].attempt = outbox[c].attempt + 1
              /\ pc'[w] = "observe" /\ job'[w].state = ClaimState(outbox[c])
              /\ \A v \in Workers \ {w} : pc'[v] = pc[v] /\ job'[v] = job[v]
              /\ ClaimEvent(c, Token[w]) \in OutboxEvents
              /\ log' = Append(log, ClaimEvent(c, Token[w]))
              /\ outbox' = [outbox EXCEPT ![c] =
                               [state |-> ClaimState(outbox[c]),
                                attempt |-> outbox[c].attempt + 1,
                                token |-> Token[w], delayed |-> FALSE]]
<1>1. StoreTypeOK /\ WorkersTypeOK
  BY TypeParts DEF IInv
<1>2. PICK c \in Commands :
         /\ Claimable(c)
         /\ job' = [job EXCEPT ![w] = [cmd |-> c, attempt |-> outbox[c].attempt + 1,
                                       state |-> ClaimState(outbox[c]), report |-> "none"]]
         /\ AppendEvent(ClaimEvent(c, Token[w]))
  BY DEF Claim
<1>3. /\ log' = Append(log, ClaimEvent(c, Token[w]))
      /\ outbox' = [outbox EXCEPT ![c] =
                       [state |-> ClaimState(outbox[c]), attempt |-> outbox[c].attempt + 1,
                        token |-> Token[w], delayed |-> FALSE]]
  BY <1>2, ClaimApplies, TokenType
<1>4. ClaimEvent(c, Token[w]) \in OutboxEvents
  BY <1>1, ClaimEventType, TokenType
<1>5. /\ ~Busy(w)
      /\ job'[w].cmd = c /\ job'[w].attempt = outbox[c].attempt + 1
      /\ pc'[w] = "observe" /\ job'[w].state = ClaimState(outbox[c])
      /\ \A v \in Workers \ {w} : pc'[v] = pc[v] /\ job'[v] = job[v]
  BY <1>1, <1>2 DEF Claim, Busy, Goto, WorkersTypeOK
<1>6. QED
  BY <1>2, <1>3, <1>4, <1>5

LEMMA ClaimInv ==
    ASSUME IInv, TypeOK', NEW w \in Workers, Claim(w)
    PROVE  IInv'
<1>0. StoreTypeOK /\ StoreTypeOK' /\ WorkersTypeOK
  BY TypeParts, TypePartsPrime DEF IInv
<1>1. PICK c \in Commands :
         /\ ~Busy(w) /\ job'[w].cmd = c /\ job'[w].attempt = outbox[c].attempt + 1
         /\ \A v \in Workers \ {w} : pc'[v] = pc[v] /\ job'[v] = job[v]
         /\ ClaimEvent(c, Token[w]) \in OutboxEvents
         /\ log' = Append(log, ClaimEvent(c, Token[w]))
         /\ outbox' = [outbox EXCEPT ![c] =
                          [state |-> ClaimState(outbox[c]), attempt |-> outbox[c].attempt + 1,
                           token |-> Token[w], delayed |-> FALSE]]
  BY ClaimEffect
<1>2. /\ outbox'[c].attempt = outbox[c].attempt + 1
      /\ outbox'[c].state \in ClaimStates
      /\ outbox'[c].token # NoToken
      /\ \A d \in Commands \ {c} : outbox'[d] = outbox[d]
  BY <1>0, <1>1, TokenType, NoTokenAssumption DEF StoreTypeOK, ClaimState, ClaimStates
<1>3. \A d \in Commands : outbox[d].attempt \in Nat
  BY <1>0 DEF StoreTypeOK, OutboxRow
<1>4. AttemptsKept
  BY <1>2, <1>3 DEF AttemptsKept
<1>5. UnclaimedRows' /\ LeaselessRows'
  BY <1>2 DEF IInv, UnclaimedRows, LeaselessRows, ClaimStates
<1>6. LoggedAttempts'
  <2>1. /\ ClaimEvent(c, Token[w]).cmd = c
        /\ ClaimEvent(c, Token[w]).attempt = outbox[c].attempt + 1
    BY DEF ClaimEvent, Attempted
  <2>2. QED
    BY <1>0, <1>1, <1>2, <1>3, <1>4, <2>1, AppendLogged DEF IInv
\* Every other run is at most as new as the row was.
<1>7. \A v \in Workers \ {w} :
         Busy(v)' => /\ Busy(v) /\ job'[v] = job[v]
                     /\ job[v].cmd \in Commands /\ job[v].attempt \in Nat
                     /\ 1 <= job[v].attempt
                     /\ job[v].attempt <= outbox[job[v].cmd].attempt
  BY <1>0, <1>1, JobType DEF Busy, IInv, JobsAttempted
<1>8. JobsAttempted'
  <2> SUFFICES ASSUME NEW v \in Workers, Busy(v)'
               PROVE  1 <= job'[v].attempt /\ job'[v].attempt <= outbox'[job'[v].cmd].attempt
    BY DEF JobsAttempted
  <2>1. CASE v = w
    BY <1>1, <1>2, <1>3, <2>1
  <2>2. CASE v # w
    BY <1>2, <1>3, <1>7, <2>2
  <2>3. QED
    BY <2>1, <2>2
<1>9. OneWorkerPerAttempt'
  <2> SUFFICES ASSUME NEW u \in Workers, NEW v \in Workers, u # v, Busy(u)', Busy(v)',
                      job'[u].cmd = job'[v].cmd
               PROVE  job'[u].attempt # job'[v].attempt
    BY DEF OneWorkerPerAttempt
  <2>0. job'[w].cmd = c /\ job'[w].attempt = outbox[c].attempt + 1
    BY <1>1
  <2>1. CASE u = w
    <3>1. job'[v].attempt \in Nat /\ job'[v].attempt <= outbox[c].attempt
      BY <1>7, <2>0, <2>1
    <3>2. QED
      BY <1>3, <2>0, <2>1, <3>1
  <2>2. CASE v = w
    <3>1. job'[u].attempt \in Nat /\ job'[u].attempt <= outbox[c].attempt
      BY <1>7, <2>0, <2>2
    <3>2. QED
      BY <1>3, <2>0, <2>2, <3>1
  <2>3. CASE u # w /\ v # w
    <3>1. /\ Busy(u) /\ job'[u] = job[u]
          /\ Busy(v) /\ job'[v] = job[v]
      BY <1>7, <2>3
    <3>2. OneWorkerPerAttempt
      BY DEF IInv
    <3>3. QED
      BY <3>1, <3>2 DEF OneWorkerPerAttempt
  <2>4. QED
    BY <2>1, <2>2, <2>3
<1>10. NewestIsUnderWay'
  <2> SUFFICES ASSUME NEW v \in Workers, Busy(v)',
                      job'[v].attempt = outbox'[job'[v].cmd].attempt
               PROVE  \/ outbox'[job'[v].cmd].token = NoToken
                      \/ outbox'[job'[v].cmd].state \in ClaimStates
    BY DEF NewestIsUnderWay
  <2>1. CASE job'[v].cmd = c
    BY <1>2, <2>1
  <2>2. CASE job'[v].cmd # c
    BY <1>1, <1>2, <1>7, <2>2 DEF IInv, NewestIsUnderWay
  <2>3. QED
    BY <2>1, <2>2
<1>11. Replayed'
  <2>1. \E d \in Commands : AppendEvent(ClaimEvent(d, Token[w]))
    BY DEF Claim
  <2>2. QED
    BY <2>1, AppendReplayed DEF IInv
<1>12. QED
  BY <1>5, <1>6, <1>8, <1>9, <1>10, <1>11 DEF IInv

\* What a run appends when it fails: the report of its own attempt.
LEMMA ReportEffect ==
    ASSUME IInv, NEW w \in Workers, RecordAttemptState(w)
    PROVE  \E e \in OutboxEvents :
              /\ AppendEvent(e) /\ Finish(w) /\ Busy(w)
              /\ e.type = "Attempted" /\ e.state \in FailureStates
              /\ e.cmd = job[w].cmd /\ e.attempt = job[w].attempt
              /\ e.token = Token[w]
<1>1. WorkersTypeOK /\ Busy(w)
  BY TypeParts DEF IInv, RecordAttemptState, Busy
<1>2. PICK state, d :
         /\ state = IF job[w].report = "later" THEN "retryable" ELSE job[w].report
         /\ d = (job[w].report = "later")
         /\ AppendEvent(Attempted(job[w].cmd, job[w].attempt, state, Token[w], d))
  BY DEF RecordAttemptState
<1>3. state \in FailureStates /\ d \in BOOLEAN
  BY <1>1, <1>2 DEF WorkersTypeOK, FailureStates, Failures, RecordAttemptState
<1>4. Attempted(job[w].cmd, job[w].attempt, state, Token[w], d) \in OutboxEvents
  BY <1>1, <1>3, JobType, TokenType, EventTypes
<1>5. QED
  BY <1>1, <1>2, <1>3, <1>4 DEF Attempted, RecordAttemptState

LEMMA InitInv == Init => IInv
<1> SUFFICES ASSUME Init PROVE IInv
  OBVIOUS
<1>1. TypeOK
  BY InitType
<1>2. UnclaimedRows /\ LeaselessRows /\ LoggedAttempts
  BY DEF Init, StoreInit, EmptyOutbox, AbsentRow, UnclaimedRows, LeaselessRows,
         LoggedAttempts
<1>3. \A w \in Workers : ~Busy(w)
  BY DEF Init, Busy
<1>4. QED
  BY <1>1, <1>2, <1>3, InitReplayed DEF IInv, JobsAttempted, OneWorkerPerAttempt, NewestIsUnderWay

LEMMA NextInv == IInv /\ [Next]_vars => IInv'
<1> SUFFICES ASSUME IInv, [Next]_vars PROVE IInv'
  OBVIOUS
<1>0. TypeOK' /\ WorkersTypeOK
  BY NextType, TypeParts DEF IInv
<1>1. ASSUME NEW c \in Commands, Plan(c) PROVE IInv'
  <2>1. Planned(c) \in OutboxEvents /\ Planned(c).type # "Attempted"
    BY EventTypes DEF Planned
  <2>2. QED
    BY <1>0, <1>1, <2>1, UnchangedKeepsRuns, AppendInv DEF Plan
<1>2. ASSUME NEW c \in Commands, ThirdPartyEdit(c) PROVE IInv'
  BY <1>0, <1>2, UnchangedKeepsRuns, OutboxKeptInv DEF ThirdPartyEdit, storeVars
<1>3. ASSUME NEW c \in Commands, Forget(c) PROVE IInv'
  <2>1. Forgotten(c, forgets) \in OutboxEvents /\ Forgotten(c, forgets).type # "Attempted"
    BY EventTypes DEF Forgotten, IInv, TypeOK
  <2>2. QED
    BY <1>0, <1>3, <2>1, UnchangedKeepsRuns, AppendInv DEF Forget
<1>4. ASSUME NEW w \in Workers, Claim(w) PROVE IInv'
  BY <1>0, <1>4, ClaimInv
<1>5. ASSUME NEW w \in Workers, ObserveBefore(w) PROVE IInv'
  <2>1. Busy(w) /\ UNCHANGED <<log, outbox>>
    BY <1>5 DEF ObserveBefore, Busy, storeVars
  <2>2. RunsKept
    BY <1>0, <1>5, <2>1, FinishKeepsRuns, FailKeepsRuns, GotoKeepsRuns DEF ObserveBefore
  <2>3. QED
    BY <1>0, <2>1, <2>2, OutboxKeptInv
<1>6. ASSUME NEW w \in Workers, CheckLease(w) PROVE IInv'
  <2>1. Busy(w) /\ UNCHANGED <<log, outbox>>
    BY <1>6 DEF CheckLease, Busy, storeVars
  <2>2. RunsKept
    BY <1>0, <1>6, <2>1, FailKeepsRuns, GotoKeepsRuns DEF CheckLease
  <2>3. QED
    BY <1>0, <2>1, <2>2, OutboxKeptInv
<1>7. ASSUME NEW w \in Workers, ObserveAfter(w) PROVE IInv'
  <2>1. Busy(w) /\ UNCHANGED <<log, outbox>>
    BY <1>7 DEF ObserveAfter, Busy, storeVars
  <2>2. CASE Fail(w, "retryable")
    BY <1>0, <2>1, <2>2, FailKeepsRuns, OutboxKeptInv
  <2>3. ASSUME NEW report, Goto(w, "settle"), job' = [job EXCEPT ![w].report = report]
        PROVE  RunsKept
    BY <1>0, <2>1, <2>3 DEF RunsKept, WorkersTypeOK, Goto, Busy, Jobs
  <2>4. QED
    BY <1>0, <1>7, <2>1, <2>2, <2>3, OutboxKeptInv DEF ObserveAfter
<1>8. ASSUME NEW w \in Workers, Settle(w) PROVE IInv'
  <2>1. Busy(w)
    BY <1>8 DEF Settle, Busy
  <2>2. PICK e \in OutboxEvents : AppendEvent(e) /\ e.type # "Attempted"
    BY <1>0, <1>8, <2>1, JobType, EventTypes DEF Settle, Settled
  <2>3. QED
    BY <1>0, <1>8, <2>2, FinishKeepsRuns, AppendInv DEF Settle
<1>9. ASSUME NEW w \in Workers, RecordAttemptState(w) PROVE IInv'
  <2>1. PICK e \in OutboxEvents :
           /\ AppendEvent(e) /\ Finish(w) /\ Busy(w)
           /\ e.state \in FailureStates
           /\ e.cmd = job[w].cmd /\ e.attempt = job[w].attempt
    BY <1>9, ReportEffect
  <2>2. RunsKept
    BY <1>0, <2>1, FinishKeepsRuns
  <2>3. 1 <= e.attempt /\ e.attempt <= outbox[e.cmd].attempt
    BY <2>1 DEF IInv, JobsAttempted
  <2>4. \A v \in Workers : Busy(v)' /\ job[v].cmd = e.cmd => job[v].attempt # e.attempt
    <3>1. ~Busy(w)'
      BY <1>0, <2>1 DEF Finish, Goto, Busy, WorkersTypeOK
    <3>2. QED
      BY <2>1, <2>2, <3>1 DEF RunsKept, IInv, OneWorkerPerAttempt
  <2>5. QED
    BY <1>0, <2>1, <2>2, <2>3, <2>4, AppendInv
<1>10. ASSUME NEW w \in Workers, ObserveError(w) PROVE IInv'
  <2>1. Busy(w) /\ UNCHANGED <<log, outbox>>
    BY <1>10 DEF ObserveError, Busy, storeVars
  <2>2. QED
    BY <1>0, <1>10, <2>1, FailKeepsRuns, OutboxKeptInv DEF ObserveError
<1>11. ASSUME NEW w \in Workers, WriteError(w) PROVE IInv'
  <2>1. Busy(w) /\ UNCHANGED <<log, outbox>>
    BY <1>11 DEF WriteError, Busy, storeVars
  <2>2. QED
    BY <1>0, <1>11, <2>1, FailKeepsRuns, OutboxKeptInv DEF WriteError
<1>12. ASSUME NEW w \in Workers, Stop(w) PROVE IInv'
  BY <1>0, <1>12, FinishKeepsRuns, OutboxKeptInv DEF Stop, storeVars
<1>13. ASSUME NEW r \in network, GatewayStep(r) PROVE IInv'
  <2>1. UNCHANGED <<log, outbox>>
    BY <1>13 DEF GatewayStep, GatewayCheck, RemoteWrite, storeVars
  <2>2. RunsKept
    BY <1>0, <1>13, UnchangedKeepsRuns, AnswerKeepsRuns
       DEF GatewayStep, GatewayCheck, RemoteWrite
  <2>3. QED
    BY <1>0, <2>1, <2>2, OutboxKeptInv
<1>14. CASE Rebuild \/ Tick \/ UNCHANGED vars
  <2>1. UNCHANGED <<log, outbox>>
    BY <1>14, RebuildKeeps DEF IInv, Rebuild, Tick, vars, storeVars
  <2>2. QED
    BY <1>0, <1>14, <2>1, UnchangedKeepsRuns, OutboxKeptInv DEF Rebuild, Tick, vars
<1>15. QED
  BY <1>1, <1>2, <1>3, <1>4, <1>5, <1>6, <1>7, <1>8, <1>9, <1>10, <1>11, <1>12,
     <1>13, <1>14 DEF Next, WorkerStep, Faulty

THEOREM InvariantHolds == Spec => []IInv
BY InitInv, NextInv, PTL DEF Spec

\* No two runs ever work on the same attempt of a command.
THEOREM AttemptsAreExclusive == Spec => []OneWorkerPerAttempt
<1>1. IInv => OneWorkerPerAttempt
  BY DEF IInv
<1>2. QED
  BY <1>1, InvariantHolds, PTL

----------------------------------------------------------------------------
(* Steps of the outbox                                                     *)

\* Every change of the table is the claim of a claimable command, or an event
\* that is planned, settled, forgotten, or the report of a run under way.
ClaimChange(c, t) ==
    /\ Claimable(c)
    /\ outbox' = [outbox EXCEPT ![c] =
                     [state |-> ClaimState(outbox[c]), attempt |-> outbox[c].attempt + 1,
                      token |-> t, delayed |-> FALSE]]

EventChange(e) ==
    /\ outbox' = [outbox EXCEPT ![e.cmd] = AfterEvent(outbox[e.cmd], e)]
    /\ e.type = "Attempted" =>
           /\ e.state \in FailureStates
           /\ \E w \in Workers :
                 /\ Busy(w) /\ job[w].cmd = e.cmd /\ job[w].attempt = e.attempt
                 /\ e.token = Token[w]

LEMMA AppendChange ==
    ASSUME IInv, NEW e \in OutboxEvents, AppendEvent(e)
    PROVE  \/ UNCHANGED outbox
           \/ outbox' = [outbox EXCEPT ![e.cmd] = AfterEvent(outbox[e.cmd], e)]
BY AppendApplies, TypeParts DEF IInv, storeVars, ApplyEvent

LEMMA OutboxChange ==
    ASSUME IInv, [Next]_vars
    PROVE  \/ UNCHANGED outbox
           \/ \E c \in Commands, w \in Workers : Claim(w) /\ ClaimChange(c, Token[w])
           \/ \E e \in OutboxEvents : EventChange(e)
<1> DEFINE Goal == \/ UNCHANGED outbox
                   \/ \E c \in Commands, w \in Workers : Claim(w) /\ ClaimChange(c, Token[w])
                   \/ \E e \in OutboxEvents : EventChange(e)
<1>0. WorkersTypeOK
  BY TypeParts DEF IInv
<1>1. ASSUME NEW e \in OutboxEvents, AppendEvent(e), e.type # "Attempted" PROVE Goal
  BY <1>1, AppendChange DEF EventChange
<1>2. ASSUME NEW c \in Commands, Plan(c) PROVE Goal
  BY <1>1, <1>2, EventTypes DEF Plan, Planned
<1>3. ASSUME NEW c \in Commands, Forget(c) PROVE Goal
  <2>1. Forgotten(c, forgets) \in OutboxEvents /\ Forgotten(c, forgets).type # "Attempted"
    BY EventTypes DEF Forgotten, IInv, TypeOK
  <2>2. QED
    BY <1>1, <1>3, <2>1 DEF Forget
<1>4. ASSUME NEW w \in Workers, Claim(w) PROVE Goal
  BY <1>4, ClaimEffect, TokenType DEF ClaimChange
<1>5. ASSUME NEW w \in Workers, Settle(w) PROVE Goal
  <2>1. Busy(w)
    BY <1>5 DEF Settle, Busy
  <2>2. QED
    BY <1>0, <1>1, <1>5, <2>1, JobType, EventTypes DEF Settle, Settled
<1>6. ASSUME NEW w \in Workers, RecordAttemptState(w) PROVE Goal
  BY <1>6, ReportEffect, AppendChange DEF EventChange
<1>7. ASSUME NEW w \in Workers,
             ObserveBefore(w) \/ CheckLease(w) \/ ObserveAfter(w) \/ Faulty(w)
      PROVE  UNCHANGED outbox
  BY <1>7 DEF ObserveBefore, CheckLease, ObserveAfter, Faulty, ObserveError, WriteError,
              Stop, storeVars
<1>8. ASSUME NEW c \in Commands, ThirdPartyEdit(c) PROVE UNCHANGED outbox
  BY <1>8 DEF ThirdPartyEdit, storeVars
<1>9. ASSUME NEW r \in network, GatewayStep(r) PROVE UNCHANGED outbox
  BY <1>9 DEF GatewayStep, GatewayCheck, RemoteWrite, storeVars
<1>10. CASE Rebuild \/ Tick \/ UNCHANGED vars
  BY <1>10, RebuildKeeps DEF IInv, Rebuild, Tick, vars, storeVars
<1>11. QED
  BY <1>2, <1>3, <1>4, <1>5, <1>6, <1>7, <1>8, <1>9, <1>10 DEF Next, WorkerStep

\* A settled command stays as it is.
THEOREM SettlementIsFinal == Spec => SettledIsFinal
<1>1. ASSUME IInv, [Next]_vars, NEW c \in Commands, outbox[c].state = "settled"
      PROVE  outbox'[c] = outbox[c]
  <2>0. outbox \in [Commands -> OutboxRow]
    BY <1>1 DEF IInv, TypeOK, StoreTypeOK
  <2>1. ASSUME NEW d \in Commands, NEW t \in Tokens, ClaimChange(d, t)
        PROVE  outbox'[c] = outbox[c]
    BY <1>1, <2>0, <2>1 DEF ClaimChange, Claimable
  <2>2. ASSUME NEW e \in OutboxEvents, EventChange(e)
        PROVE  outbox'[c] = outbox[c]
    <3>1. AfterEvent(outbox[c], e) = outbox[c]
      BY <1>1 DEF AfterEvent, AfterPlanned, AfterAttempted, AttemptApplies, AfterSettled,
                  SettlementApplies, AfterForgotten, Unsettled, ClaimStates,
                  OutboxEvents, PlannedEvents, AttemptEvents, SettledEvents, ForgetEvents
    <3>2. QED
      BY <2>0, <2>2, <3>1, EventCommand DEF EventChange
  <2>3. QED
    BY <1>1, <2>1, <2>2, OutboxChange, TokenType
<1>2. IInv /\ [Next]_vars =>
          [\A c \in Commands : outbox[c].state = "settled" => outbox'[c] = outbox[c]]_vars
  BY <1>1
<1>3. QED
  BY <1>2, InvariantHolds, PTL DEF Spec, SettledIsFinal

----------------------------------------------------------------------------
(* The outbox implements the life cycle of a command                       *)

StatusMap  == [c \in Commands |-> Status(c)]
AttemptMap == [c \in Commands |-> outbox[c].attempt]

LEMMA OtherStatus ==
    ASSUME NEW c \in Commands, outbox'[c] = outbox[c]
    PROVE  Status(c)' = Status(c)
BY DEF Status

\* One row changed: both maps change at that command only.
LEMMA MapsChange ==
    ASSUME outbox \in [Commands -> OutboxRow], NEW c \in Commands, NEW row,
           outbox' = [outbox EXCEPT ![c] = row]
    PROVE  /\ outbox'[c] = row
           /\ StatusMap' = [StatusMap EXCEPT ![c] = Status(c)']
           /\ AttemptMap' = [AttemptMap EXCEPT ![c] = row.attempt]
<1>1. outbox'[c] = row /\ \A d \in Commands \ {c} : outbox'[d] = outbox[d]
  OBVIOUS
<1>2. \A d \in Commands \ {c} : Status(d)' = Status(d)
  BY <1>1, OtherStatus
<1>3. StatusMap' = [StatusMap EXCEPT ![c] = Status(c)']
  BY <1>2 DEF StatusMap
<1>4. AttemptMap' = [AttemptMap EXCEPT ![c] = row.attempt]
  BY <1>1 DEF AttemptMap
<1>5. QED
  BY <1>1, <1>3, <1>4

\* The status of a command in each state of its row.
LEMMA StatusCases ==
    ASSUME NEW c \in Commands, outbox[c] \in OutboxRow
    PROVE  /\ outbox[c].state \in {"absent", "settled"} => Status(c) = outbox[c].state
           /\ outbox[c].state \in {"queued", "retryable"} => Status(c) = "waiting"
           /\ outbox[c].state \in ClaimStates => Status(c) = "attempted"
           /\ outbox[c].state \in {"blocked", "fenced"} =>
                  Status(c) = IF outbox[c].token = NoToken THEN "forgotten" ELSE "stopped"
BY DEF Status, ClaimStates

LEMMA StatusCasesPrime ==
    ASSUME NEW c \in Commands, outbox'[c] \in OutboxRow
    PROVE  /\ outbox'[c].state \in {"absent", "settled"} => Status(c)' = outbox'[c].state
           /\ outbox'[c].state \in {"queued", "retryable"} => Status(c)' = "waiting"
           /\ outbox'[c].state \in ClaimStates => Status(c)' = "attempted"
           /\ outbox'[c].state \in {"blocked", "fenced"} =>
                  Status(c)' = IF outbox'[c].token = NoToken THEN "forgotten" ELSE "stopped"
BY DEF Status, ClaimStates

\* A claim begins an attempt.
LEMMA ClaimBegins ==
    ASSUME IInv, TypeOK', NEW c \in Commands, NEW t \in Tokens, ClaimChange(c, t)
    PROVE  Lifecycle!Begun(c)
<1>0. outbox \in [Commands -> OutboxRow] /\ outbox' \in [Commands -> OutboxRow]
  BY DEF IInv, TypeOK, StoreTypeOK
<1>1. /\ outbox'[c].state \in ClaimStates
      /\ StatusMap' = [StatusMap EXCEPT ![c] = Status(c)']
      /\ AttemptMap' = [AttemptMap EXCEPT ![c] = outbox[c].attempt + 1]
  <2>1. PICK row : /\ row = [state |-> ClaimState(outbox[c]),
                             attempt |-> outbox[c].attempt + 1,
                             token |-> t, delayed |-> FALSE]
                   /\ outbox' = [outbox EXCEPT ![c] = row]
    BY DEF ClaimChange
  <2>2. /\ outbox'[c] = row
        /\ StatusMap' = [StatusMap EXCEPT ![c] = Status(c)']
        /\ AttemptMap' = [AttemptMap EXCEPT ![c] = row.attempt]
    BY <1>0, <2>1, MapsChange
  <2>3. row.state \in ClaimStates /\ row.attempt = outbox[c].attempt + 1
    BY <2>1 DEF ClaimState, ClaimStates
  <2>4. QED
    BY <2>2, <2>3
<1>2. Status(c)' = "attempted"
  BY <1>0, <1>1, StatusCasesPrime
<1>3. Status(c) \in {"waiting", "attempted"}
  BY <1>0, StatusCases DEF ClaimChange, Claimable, ClaimStates
<1>4. QED
  BY <1>1, <1>2, <1>3 DEF Lifecycle!Begun, StatusMap, AttemptMap

\* Any other change of a row is a step of its life cycle, or none.
LEMMA EventAdvances ==
    ASSUME IInv, TypeOK', NEW e \in OutboxEvents, EventChange(e)
    PROVE  Lifecycle!Next \/ UNCHANGED <<StatusMap, AttemptMap>>
<1> DEFINE c == e.cmd
           row == outbox[c]
           new == AfterEvent(row, e)
<1>0. /\ c \in Commands /\ outbox \in [Commands -> OutboxRow]
      /\ outbox' \in [Commands -> OutboxRow]
  BY EventCommand DEF IInv, TypeOK, StoreTypeOK
<1>1. /\ outbox'[c] = new
      /\ StatusMap' = [StatusMap EXCEPT ![c] = Status(c)']
      /\ AttemptMap' = [AttemptMap EXCEPT ![c] = new.attempt]
  BY <1>0, MapsChange DEF EventChange
<1>2. /\ row \in OutboxRow /\ new \in OutboxRow
      /\ StatusMap[c] = Status(c) /\ AttemptMap[c] = row.attempt
  BY <1>0, <1>1 DEF StatusMap, AttemptMap
<1> HIDE DEF c
<1>3. CASE new = row
  BY <1>0, <1>1, <1>2, <1>3, OtherStatus DEF StatusMap, AttemptMap
<1>4. CASE e.type = "Planned" /\ new # row
  <2>1. row.state = "absent" /\ new = QueuedRow
    BY <1>4 DEF AfterEvent, AfterPlanned
  <2>2. row.attempt = 0 /\ new.attempt = 0
    BY <1>0, <2>1 DEF IInv, UnclaimedRows, QueuedRow, AbsentRow
  <2>3. Status(c) = "absent" /\ Status(c)' = "waiting"
    BY <1>0, <1>1, <1>2, <2>1, StatusCases, StatusCasesPrime DEF QueuedRow, AbsentRow
  <2>4. Lifecycle!Planned(c)
    BY <1>0, <1>1, <1>2, <2>2, <2>3 DEF Lifecycle!Planned, StatusMap, AttemptMap
  <2>5. QED
    BY <1>0, <2>4 DEF Lifecycle!Next
<1>5. CASE e.type = "Settled" /\ new # row
  <2>1. row.state \in ClaimStates /\ new.state = "settled" /\ new.attempt = row.attempt
    BY <1>2, <1>5 DEF AfterEvent, AfterSettled, SettlementApplies, OutboxRow
  <2>2. Status(c) = "attempted" /\ Status(c)' = "settled"
    BY <1>0, <1>1, <1>2, <2>1, StatusCases, StatusCasesPrime
  <2>3. Lifecycle!Settled(c)
    BY <1>0, <1>1, <1>2, <2>1, <2>2 DEF Lifecycle!Settled, StatusMap, AttemptMap
  <2>4. QED
    BY <1>0, <2>3 DEF Lifecycle!Next
<1>6. CASE e.type = "Forgotten" /\ new # row
  <2>1. /\ row.state \notin {"absent", "settled"}
        /\ row.state \in {"blocked", "fenced"} => row.token # NoToken \/ row.state = "blocked"
        /\ new.state = "fenced" /\ new.token = NoToken /\ new.attempt = row.attempt
    BY <1>2, <1>6 DEF AfterEvent, AfterForgotten, Unsettled, OutboxRow
  <2>2. row.state = "blocked" => row.token # NoToken
    BY <1>0 DEF IInv, LeaselessRows
  <2>3. Status(c) \in {"waiting", "attempted", "stopped"} /\ Status(c)' = "forgotten"
    BY <1>0, <1>1, <1>2, <2>1, <2>2, StatusCases, StatusCasesPrime
       DEF OutboxRow, OutboxStates, ClaimStates, FailureStates
  <2>4. Lifecycle!Forgotten(c)
    BY <1>0, <1>1, <1>2, <2>1, <2>3 DEF Lifecycle!Forgotten, StatusMap, AttemptMap
  <2>5. QED
    BY <1>0, <2>4 DEF Lifecycle!Next
<1>7. CASE e.type = "Attempted" /\ new # row
  <2>1. PICK w \in Workers : Busy(w) /\ job[w].cmd = c /\ job[w].attempt = e.attempt
    BY <1>7 DEF EventChange, c
  <2>2. e.attempt \in Nat /\ 1 <= e.attempt /\ e.attempt <= row.attempt /\ row.attempt \in Nat
    BY <1>2, <2>1, TypeParts, JobType DEF IInv, JobsAttempted, OutboxRow
  <2>3. e.token \in Tokens /\ e.token # NoToken /\ e.state \in FailureStates
    BY <1>7, NoTokenAssumption
       DEF EventChange, OutboxEvents, PlannedEvents, AttemptEvents, SettledEvents, ForgetEvents
  <2>4. /\ AttemptApplies(row, e)
        /\ new = [state |-> e.state, attempt |-> e.attempt, token |-> e.token,
                  delayed |-> e.delayed]
    BY <1>7 DEF AfterEvent, AfterAttempted
  <2>5. e.attempt = row.attempt
    BY <2>2, <2>4 DEF AttemptApplies
  <2>6. row.token = NoToken \/ row.state \in ClaimStates
    BY <2>1, <2>5 DEF IInv, NewestIsUnderWay
  <2>7. row.token = NoToken => row.state = "fenced"
    <3>1. row.token = NoToken => row.state \in {"absent", "queued", "settled", "fenced"}
      BY <1>0 DEF IInv, LeaselessRows
    <3>2. row.state \notin {"absent", "queued"}
      BY <1>0, <2>2, <2>5 DEF IInv, UnclaimedRows
    <3>3. row.state # "settled"
      BY <2>4 DEF AttemptApplies, Unsettled
    <3>4. QED
      BY <3>1, <3>2, <3>3
  <2>8. Status(c) \in {"attempted", "forgotten"}
    BY <1>0, <1>2, <2>6, <2>7, StatusCases
  <2>9. Status(c)' \in {"waiting", "stopped"}
    BY <1>0, <1>1, <1>2, <2>3, <2>4, StatusCasesPrime DEF FailureStates
  <2>10. Lifecycle!Failed(c)
    <3>1. StatusMap[c] \in {"attempted", "forgotten"} /\ AttemptMap[c] > 0
      BY <1>2, <2>2, <2>5, <2>8
    <3>2. \E s \in {"waiting", "stopped"} : StatusMap' = [StatusMap EXCEPT ![c] = s]
      BY <1>1, <2>9
    <3>3. AttemptMap' = AttemptMap
      <4>1. new.attempt = AttemptMap[c]
        BY <1>2, <2>4, <2>5
      <4>2. AttemptMap' = [AttemptMap EXCEPT ![c] = AttemptMap[c]]
        BY <1>1, <4>1
      <4>3. QED
        BY <4>2 DEF AttemptMap
    <3>4. QED
      BY <3>1, <3>2, <3>3 DEF Lifecycle!Failed, StatusMap, AttemptMap
  <2>11. QED
    BY <1>0, <2>10 DEF Lifecycle!Next
<1>8. QED
  BY <1>3, <1>4, <1>5, <1>6, <1>7
     DEF OutboxEvents, PlannedEvents, AttemptEvents, SettledEvents, ForgetEvents

\* Every behaviour of the workers is, command by command, a life cycle.
THEOREM Refinement == Spec => ImplementsLifecycle
<1>1. Init => Lifecycle!Init
  <2> SUFFICES ASSUME Init PROVE Lifecycle!Init
    OBVIOUS
  <2>1. \A c \in Commands : outbox[c].state = "absent" /\ outbox[c].attempt = 0
    BY DEF Init, StoreInit, EmptyOutbox, AbsentRow
  <2>2. \A c \in Commands : Status(c) = "absent"
    BY <2>1, InitType, StatusCases DEF TypeOK, StoreTypeOK
  <2>3. QED
    BY <2>1, <2>2 DEF Lifecycle!Init
<1>2. IInv /\ [Next]_vars => [Lifecycle!Next]_<<StatusMap, AttemptMap>>
  <2> SUFFICES ASSUME IInv, [Next]_vars
               PROVE  Lifecycle!Next \/ UNCHANGED <<StatusMap, AttemptMap>>
    OBVIOUS
  <2>1. TypeOK'
    BY NextType DEF IInv
  <2>2. CASE UNCHANGED outbox
    BY <2>2, OtherStatus DEF StatusMap, AttemptMap
  <2>3. ASSUME NEW c \in Commands, NEW t \in Tokens, ClaimChange(c, t)
        PROVE  Lifecycle!Next
    BY <2>1, <2>3, ClaimBegins DEF Lifecycle!Next
  <2>4. ASSUME NEW e \in OutboxEvents, EventChange(e)
        PROVE  Lifecycle!Next \/ UNCHANGED <<StatusMap, AttemptMap>>
    BY <2>1, <2>4, EventAdvances
  <2>5. QED
    BY <2>2, <2>3, <2>4, OutboxChange, TokenType
<1>3. QED
  BY <1>1, <1>2, InvariantHolds, PTL
     DEF Spec, ImplementsLifecycle, Lifecycle!Spec, StatusMap, AttemptMap

----------------------------------------------------------------------------
(* Superseded runs                                                         *)

\* The only steps that take a worker from "record" to "idle".
LEMMA EndsRecording ==
    ASSUME TypeOK, Next, NEW w \in Workers, pc[w] = "record", pc'[w] = "idle"
    PROVE  RecordAttemptState(w) \/ Stop(w)
<1>0. pc \in [Workers -> Places]
  BY DEF TypeOK
<1>1. ASSUME NEW v \in Workers, v # w, WorkerStep(v) \/ ObserveError(v) \/ Stop(v)
      PROVE  pc'[w] = pc[w]
  BY <1>0, <1>1 DEF WorkerStep, Claim, ObserveBefore, CheckLease, ObserveAfter, Settle,
                    RecordAttemptState, ObserveError, Stop, Finish, Fail, Goto
<1>2. ASSUME NEW v \in Workers, WriteError(v) PROVE pc'[w] # "idle"
  BY <1>0, <1>2 DEF WriteError, Fail, Goto
<1>3. ASSUME NEW r \in network, GatewayStep(r) PROVE pc'[w] = pc[w]
  BY <1>0, <1>3 DEF GatewayStep, GatewayCheck, RemoteWrite, Answer, Awaits, workerVars
<1>4. CASE WorkerStep(w) \/ ObserveError(w)
  BY <1>4 DEF WorkerStep, Claim, ObserveBefore, CheckLease, ObserveAfter, Settle, ObserveError
<1>5. ASSUME NEW c \in Commands, Plan(c) \/ ThirdPartyEdit(c) \/ Forget(c)
      PROVE  pc'[w] = pc[w]
  BY <1>5 DEF Plan, ThirdPartyEdit, Forget, workerVars
<1>6. CASE Rebuild \/ Tick
  BY <1>6 DEF Rebuild, Tick, workerVars
<1>7. QED
  BY <1>1, <1>2, <1>3, <1>4, <1>5, <1>6 DEF Next, Faulty

\* A superseded run's report changes no row.
THEOREM SupersededReportsAreIgnored == Spec => SupersededReportsIgnored
<1>1. ASSUME IInv, Next, NEW w \in Workers, pc[w] = "record", pc'[w] = "idle", Superseded(w)
      PROVE  outbox' = outbox
  <2>0. outbox \in [Commands -> OutboxRow]
    BY <1>1 DEF IInv, TypeOK, StoreTypeOK
  <2>1. CASE Stop(w)
    BY <2>1 DEF Stop, storeVars
  <2>2. CASE RecordAttemptState(w)
    <3>1. PICK e \in OutboxEvents :
             /\ AppendEvent(e) /\ Busy(w) /\ e.type = "Attempted"
             /\ e.cmd = job[w].cmd /\ e.attempt = job[w].attempt
      BY <1>1, <2>2, ReportEffect
    <3>2. e.cmd \in Commands /\ e.attempt \in Nat /\ outbox[e.cmd].attempt \in Nat
      BY <1>1, <2>0, <3>1, TypeParts, JobType DEF IInv, OutboxRow
    <3>3. ~AttemptApplies(outbox[e.cmd], e)
      BY <1>1, <3>1, <3>2 DEF Superseded, AttemptApplies
    <3>4. AfterEvent(outbox[e.cmd], e) = outbox[e.cmd]
      BY <3>1, <3>3 DEF AfterEvent, AfterAttempted
    <3>5. QED
      BY <1>1, <2>0, <3>1, <3>2, <3>4, AppendChange
  <2>3. QED
    BY <1>1, <2>1, <2>2, EndsRecording DEF IInv
<1>2. IInv /\ [Next]_vars =>
          [\A w \in Workers :
              pc[w] = "record" /\ pc'[w] = "idle" /\ Superseded(w) => outbox' = outbox]_vars
  BY <1>1
<1>3. QED
  BY <1>2, InvariantHolds, PTL DEF Spec, SupersededReportsIgnored

----------------------------------------------------------------------------
(* Who may write                                                           *)

\* A run whose lease is the row's, and nobody else's, has the row's attempt.
LeaseOwner ==
    \A w \in Workers :
        Busy(w) /\ ~SharesToken(w) /\ outbox[job[w].cmd].token = Token[w] =>
            job[w].attempt = outbox[job[w].cmd].attempt

\* A step starts no run, or it is a claim.
LEMMA RunsChange ==
    ASSUME IInv, [Next]_vars, ~(\E w \in Workers : Claim(w))
    PROVE  RunsKept
<1>0. WorkersTypeOK
  BY TypeParts DEF IInv
<1>1. ASSUME NEW w \in Workers, ObserveBefore(w) \/ CheckLease(w) PROVE RunsKept
  <2>1. Busy(w)
    BY <1>1 DEF ObserveBefore, CheckLease, Busy
  <2>2. QED
    BY <1>0, <1>1, <2>1, FinishKeepsRuns, FailKeepsRuns, GotoKeepsRuns
       DEF ObserveBefore, CheckLease
<1>2. ASSUME NEW w \in Workers, ObserveAfter(w) PROVE RunsKept
  <2>1. Busy(w)
    BY <1>2 DEF ObserveAfter, Busy
  <2>2. ASSUME NEW report, Goto(w, "settle"), job' = [job EXCEPT ![w].report = report]
        PROVE  RunsKept
    BY <1>0, <2>1, <2>2 DEF RunsKept, WorkersTypeOK, Goto, Busy, Jobs
  <2>3. QED
    BY <1>0, <1>2, <2>1, <2>2, FailKeepsRuns DEF ObserveAfter
<1>3. ASSUME NEW w \in Workers, Settle(w) \/ RecordAttemptState(w) \/ Stop(w) PROVE RunsKept
  BY <1>0, <1>3, FinishKeepsRuns DEF Settle, RecordAttemptState, Stop
<1>4. ASSUME NEW w \in Workers, ObserveError(w) \/ WriteError(w) PROVE RunsKept
  <2>1. Busy(w)
    BY <1>4 DEF ObserveError, WriteError, Busy
  <2>2. QED
    BY <1>0, <1>4, <2>1, FailKeepsRuns DEF ObserveError, WriteError
<1>5. ASSUME NEW r \in network, GatewayStep(r) PROVE RunsKept
  BY <1>0, <1>5, UnchangedKeepsRuns, AnswerKeepsRuns DEF GatewayStep, GatewayCheck, RemoteWrite
<1>6. ASSUME NEW c \in Commands, Plan(c) \/ ThirdPartyEdit(c) \/ Forget(c) PROVE RunsKept
  BY <1>6, UnchangedKeepsRuns DEF Plan, ThirdPartyEdit, Forget
<1>7. CASE Rebuild \/ Tick \/ UNCHANGED vars
  BY <1>7, UnchangedKeepsRuns DEF Rebuild, Tick, vars
<1>8. QED
  BY <1>1, <1>2, <1>3, <1>4, <1>5, <1>6, <1>7 DEF Next, WorkerStep, Faulty

LEMMA LeaseOwnerStep ==
    ASSUME IInv, LeaseOwner, [Next]_vars
    PROVE  LeaseOwner'
<1>0. /\ outbox \in [Commands -> OutboxRow] /\ WorkersTypeOK
      /\ \A w \in Workers : Token[w] # NoToken
  BY TypeParts, TokenType, NoTokenAssumption DEF IInv, TypeOK, StoreTypeOK
<1> SUFFICES ASSUME NEW v \in Workers, Busy(v)', ~SharesToken(v),
                    outbox'[job'[v].cmd].token = Token[v]
             PROVE  job'[v].attempt = outbox'[job'[v].cmd].attempt
  BY DEF LeaseOwner
<1>1. ASSUME NEW w \in Workers, Claim(w)
      PROVE  job'[v].attempt = outbox'[job'[v].cmd].attempt
  <2>1. PICK c \in Commands :
           /\ ~Busy(w) /\ job'[w].cmd = c /\ job'[w].attempt = outbox[c].attempt + 1
           /\ \A u \in Workers \ {w} : pc'[u] = pc[u] /\ job'[u] = job[u]
           /\ outbox' = [outbox EXCEPT ![c] =
                            [state |-> ClaimState(outbox[c]), attempt |-> outbox[c].attempt + 1,
                             token |-> Token[w], delayed |-> FALSE]]
    BY <1>1, ClaimEffect
  <2>2. /\ outbox'[c].token = Token[w] /\ outbox'[c].attempt = outbox[c].attempt + 1
        /\ \A d \in Commands \ {c} : outbox'[d] = outbox[d]
    BY <1>0, <2>1
  <2>3. CASE v = w
    BY <2>1, <2>2, <2>3
  <2>4. CASE v # w
    <3>1. Busy(v) /\ job'[v] = job[v] /\ job[v].cmd \in Commands
      BY <1>0, <2>1, <2>4, JobType DEF Busy
    <3>2. job[v].cmd # c
      BY <2>2, <2>4, <3>1 DEF SharesToken
    <3>3. QED
      BY <2>2, <3>1, <3>2 DEF LeaseOwner
  <2>5. QED
    BY <2>3, <2>4
<1>2. CASE ~(\E w \in Workers : Claim(w))
  <2>1. Busy(v) /\ job'[v].cmd = job[v].cmd /\ job'[v].attempt = job[v].attempt
    BY <1>2, RunsChange DEF RunsKept
  <2>2. job[v].cmd \in Commands /\ job[v].attempt \in Nat
    BY <1>0, <2>1, JobType
  <2>3. CASE UNCHANGED outbox
    BY <2>1, <2>3 DEF LeaseOwner
  <2>4. ASSUME NEW e \in OutboxEvents, EventChange(e)
        PROVE  job[v].attempt = outbox'[job[v].cmd].attempt
    <3> DEFINE row == outbox[job[v].cmd]
               new == outbox'[job[v].cmd]
    <3>1. row \in OutboxRow /\ row.attempt \in Nat
      BY <1>0, <2>2 DEF OutboxRow
    <3>2. CASE new = row
      BY <2>1, <3>2 DEF LeaseOwner
    <3>3. CASE new # row
      <4>1. e.cmd = job[v].cmd /\ new = AfterEvent(row, e)
        BY <1>0, <2>2, <2>4, <3>3, EventCommand DEF EventChange
      <4>2. e.type = "Attempted"
        BY <1>0, <2>1, <3>1, <3>3, <4>1
           DEF AfterEvent, AfterPlanned, QueuedRow, AbsentRow, AfterSettled, AfterForgotten,
               OutboxRow, OutboxEvents, PlannedEvents, AttemptEvents, SettledEvents, ForgetEvents
      <4>3. PICK w \in Workers :
               Busy(w) /\ job[w].cmd = e.cmd /\ job[w].attempt = e.attempt /\ e.token = Token[w]
        BY <2>4, <4>2 DEF EventChange
      <4>4. new.token = e.token /\ new.attempt = e.attempt
        BY <3>3, <4>1, <4>2 DEF AfterEvent, AfterAttempted
      <4>5. v = w
        BY <2>1, <4>3, <4>4 DEF SharesToken
      <4>6. QED
        BY <4>3, <4>4, <4>5
    <3>4. QED
      BY <3>2, <3>3
  <2>5. QED
    BY <1>2, <2>1, <2>3, <2>4, OutboxChange
<1>3. QED
  BY <1>1, <1>2

\* A write request leaves only in CheckLease.
LEMMA SendsWrite ==
    ASSUME TypeOK, Next, NEW w \in Workers, pc[w] = "lease", pc'[w] = "await"
    PROVE  LeaseActive(job[w].cmd, Token[w])
<1>0. pc \in [Workers -> Places]
  BY DEF TypeOK
<1>1. ASSUME NEW v \in Workers, v # w, WorkerStep(v) \/ Faulty(v)
      PROVE  pc'[w] = pc[w]
  BY <1>0, <1>1 DEF WorkerStep, Claim, ObserveBefore, CheckLease, ObserveAfter, Settle,
                    RecordAttemptState, Faulty, ObserveError, WriteError, Stop, Finish,
                    Fail, Goto
<1>2. ASSUME NEW r \in network, GatewayStep(r) PROVE pc'[w] = pc[w]
  BY <1>0, <1>2 DEF GatewayStep, GatewayCheck, RemoteWrite, Answer, Awaits, workerVars
<1>3. CASE WorkerStep(w)
  BY <1>0, <1>3 DEF WorkerStep, Claim, ObserveBefore, CheckLease, ObserveAfter, Settle,
                    RecordAttemptState, Fail, Goto
<1>4. CASE Faulty(w)
  BY <1>0, <1>4 DEF Faulty, ObserveError, WriteError, Stop, Finish, Goto
<1>5. ASSUME NEW c \in Commands, Plan(c) \/ ThirdPartyEdit(c) \/ Forget(c)
      PROVE  pc'[w] = pc[w]
  BY <1>5 DEF Plan, ThirdPartyEdit, Forget, workerVars
<1>6. CASE Rebuild \/ Tick
  BY <1>6 DEF Rebuild, Tick, workerVars
<1>7. QED
  BY <1>1, <1>2, <1>3, <1>4, <1>5, <1>6 DEF Next

\* A run on its way to the lease check was claimed as running.
RunningWhenLeasing == \A w \in Workers : pc[w] = "lease" => job[w].state = "running"

\* While the row shows that the newest attempt is under way, it shows the state
\* it was claimed in.
ClaimIsShown ==
    \A w \in Workers :
        /\ Busy(w)
        /\ job[w].attempt = outbox[job[w].cmd].attempt
        /\ outbox[job[w].cmd].state \in ClaimStates
        => outbox[job[w].cmd].state = job[w].state

\* The attempt that takes a running one over is never running itself.
TakeoverIsAmbiguous ==
    \A w \in Workers :
        /\ Busy(w)
        /\ job[w].state = "running"
        /\ outbox[job[w].cmd].attempt = job[w].attempt + 1
        => outbox[job[w].cmd].state # "running"

\* A run keeps the state it was claimed in, and goes to the lease check in
\* running state only.
LEMMA RunState ==
    ASSUME TypeOK, [Next]_vars, NEW w \in Workers, Busy(w)', ~Claim(w)
    PROVE  /\ job'[w].state = job[w].state
           /\ pc'[w] = "lease" => pc[w] = "lease" \/ job[w].state = "running"
<1> DEFINE Goal == /\ job'[w].state = job[w].state
                   /\ pc'[w] = "lease" => pc[w] = "lease" \/ job[w].state = "running"
<1>0. pc \in [Workers -> Places] /\ job \in [Workers -> Jobs \cup {NoJob}]
  BY DEF TypeOK
<1>1. ASSUME NEW v \in Workers, v # w, WorkerStep(v) \/ Faulty(v)
      PROVE  Goal
  BY <1>0, <1>1 DEF WorkerStep, Claim, ObserveBefore, CheckLease, ObserveAfter, Settle,
                    RecordAttemptState, Faulty, ObserveError, WriteError, Stop, Finish,
                    Fail, Goto
<1>2. ASSUME NEW r \in network, GatewayStep(r) PROVE Goal
  <2>1. CASE UNCHANGED workerVars
    BY <2>1 DEF workerVars
  <2>2. ASSUME NEW place \in {"record", "settle", "verify"}, NEW report,
               Answer(r, place, report)
        PROVE  Goal
    <3>1. /\ pc'[w] = (IF Awaits(w, r) THEN place ELSE pc[w])
          /\ job'[w] = (IF Awaits(w, r) THEN [job[w] EXCEPT !.report = report] ELSE job[w])
      BY <2>2 DEF Answer
    <3>2. Awaits(w, r) => job[w] \in Jobs
      BY <1>0 DEF Awaits, Busy, TypeOK
    <3>3. QED
      BY <3>1, <3>2 DEF Jobs
  <2>3. QED
    BY <1>2, <2>1, <2>2 DEF GatewayStep, GatewayCheck, RemoteWrite
<1>3. CASE WorkerStep(w) \/ Faulty(w)
  <2>1. CASE Finish(w)
    BY <1>0, <2>1 DEF Finish, Goto, Busy
  <2>2. ASSUME NEW report, Fail(w, report), Busy(w) PROVE Goal
    <3>1. job[w] \in Jobs
      BY <2>2 DEF TypeOK
    <3>2. QED
      BY <1>0, <2>2, <3>1 DEF Fail, Goto, Jobs
  <2>3. CASE ObserveBefore(w)
    BY <1>0, <2>1, <2>2, <2>3 DEF ObserveBefore, Goto, Busy
  <2>4. CASE CheckLease(w)
    BY <1>0, <2>2, <2>4 DEF CheckLease, Goto, Busy
  <2>5. CASE ObserveAfter(w)
    <3>1. job[w] \in Jobs /\ Busy(w)
      BY <2>5 DEF TypeOK, ObserveAfter, Busy
    <3>2. QED
      BY <1>0, <2>2, <2>5, <3>1 DEF ObserveAfter, Goto, Jobs
  <2>6. CASE Settle(w) \/ RecordAttemptState(w) \/ Stop(w)
    BY <2>1, <2>6 DEF Settle, RecordAttemptState, Stop
  <2>7. CASE ObserveError(w) \/ WriteError(w)
    BY <2>2, <2>7 DEF ObserveError, WriteError, Busy
  <2>8. QED
    BY <1>3, <2>3, <2>4, <2>5, <2>6, <2>7 DEF WorkerStep, Faulty
<1>4. ASSUME NEW c \in Commands, Plan(c) \/ ThirdPartyEdit(c) \/ Forget(c) PROVE Goal
  BY <1>4 DEF Plan, ThirdPartyEdit, Forget, workerVars
<1>5. CASE Rebuild \/ Tick \/ UNCHANGED vars
  BY <1>5 DEF Rebuild, Tick, vars, workerVars
<1>6. QED
  BY <1>1, <1>2, <1>3, <1>4, <1>5 DEF Next

\* An event that is not a claim leaves no row in a state of a claim, but one that
\* it does not change.
LEMMA OnlyClaimsClaim ==
    ASSUME NEW row \in OutboxRow, NEW e \in OutboxEvents,
           e.type = "Attempted" => e.state \in FailureStates,
           AfterEvent(row, e).state \in ClaimStates
    PROVE  AfterEvent(row, e) = row
BY DEF AfterEvent, AfterPlanned, AfterAttempted, AfterSettled, AfterForgotten, QueuedRow,
       AbsentRow, OutboxRow, ClaimStates, FailureStates,
       OutboxEvents, PlannedEvents, AttemptEvents, SettledEvents, ForgetEvents

LEMMA TakeoverStep ==
    ASSUME IInv, RunningWhenLeasing, ClaimIsShown, TakeoverIsAmbiguous, [Next]_vars
    PROVE  RunningWhenLeasing' /\ ClaimIsShown' /\ TakeoverIsAmbiguous'
<1>0. /\ outbox \in [Commands -> OutboxRow] /\ WorkersTypeOK /\ TypeOK
      /\ \A c \in Commands : outbox[c].attempt \in Nat
  BY TypeParts DEF IInv, TypeOK, StoreTypeOK, OutboxRow
<1> SUFFICES ASSUME NEW v \in Workers, Busy(v)'
             PROVE  /\ pc'[v] = "lease" => job'[v].state = "running"
                    /\ LET row == outbox'[job'[v].cmd]
                       IN  /\ job'[v].attempt = row.attempt /\ row.state \in ClaimStates
                                  => row.state = job'[v].state
                           /\ job'[v].state = "running" /\ row.attempt = job'[v].attempt + 1
                                  => row.state # "running"
  BY DEF RunningWhenLeasing, ClaimIsShown, TakeoverIsAmbiguous, Busy
<1> DEFINE Goal == /\ pc'[v] = "lease" => job'[v].state = "running"
                   /\ LET row == outbox'[job'[v].cmd]
                      IN  /\ job'[v].attempt = row.attempt /\ row.state \in ClaimStates
                                 => row.state = job'[v].state
                          /\ job'[v].state = "running" /\ row.attempt = job'[v].attempt + 1
                                 => row.state # "running"
<1>1. ASSUME NEW w \in Workers, Claim(w) PROVE Goal
  <2>1. PICK c \in Commands :
           /\ Claimable(c)
           /\ ~Busy(w) /\ job'[w].cmd = c /\ job'[w].attempt = outbox[c].attempt + 1
           /\ pc'[w] = "observe" /\ job'[w].state = ClaimState(outbox[c])
           /\ \A u \in Workers \ {w} : pc'[u] = pc[u] /\ job'[u] = job[u]
           /\ outbox' = [outbox EXCEPT ![c] =
                            [state |-> ClaimState(outbox[c]), attempt |-> outbox[c].attempt + 1,
                             token |-> Token[w], delayed |-> FALSE]]
    BY <1>1, ClaimEffect
  <2>2. /\ outbox'[c].state = ClaimState(outbox[c])
        /\ outbox'[c].attempt = outbox[c].attempt + 1
        /\ \A d \in Commands \ {c} : outbox'[d] = outbox[d]
    BY <1>0, <2>1
  <2>3. CASE v = w
    BY <1>0, <2>1, <2>2, <2>3
  <2>4. CASE v # w
    <3>1. /\ Busy(v) /\ job'[v] = job[v] /\ pc'[v] = pc[v]
          /\ job[v].cmd \in Commands /\ job[v].attempt \in Nat
      BY <1>0, <2>1, <2>4, JobType DEF Busy
    <3>2. CASE job[v].cmd # c
      BY <2>2, <3>1, <3>2 DEF RunningWhenLeasing, ClaimIsShown, TakeoverIsAmbiguous
    <3>3. CASE job[v].cmd = c
      <4>1. 1 <= job[v].attempt /\ job[v].attempt <= outbox[c].attempt
        BY <3>1, <3>3 DEF IInv, JobsAttempted
      <4>2. job[v].attempt # outbox'[c].attempt
        BY <1>0, <2>2, <3>1, <4>1
      <4>3. ASSUME job[v].state = "running", outbox'[c].attempt = job[v].attempt + 1
            PROVE  outbox'[c].state # "running"
        <5>1. job[v].attempt = outbox[c].attempt
          BY <1>0, <2>2, <3>1, <4>3
        <5>2. outbox[c].state \notin {"absent", "queued"}
          BY <1>0, <4>1, <5>1 DEF IInv, UnclaimedRows
        <5>3. outbox[c].token # NoToken
          BY <2>1, <5>2 DEF IInv, LeaselessRows, Claimable
        <5>4. outbox[c].state \in ClaimStates
          BY <3>1, <3>3, <5>1, <5>3 DEF IInv, NewestIsUnderWay
        <5>5. outbox[c].state = "running"
          BY <3>1, <3>3, <4>3, <5>1, <5>4 DEF ClaimIsShown
        <5>6. QED
          BY <2>2, <5>5 DEF ClaimState
      <4>4. QED
        BY <3>1, <3>3, <4>2, <4>3 DEF RunningWhenLeasing
    <3>4. QED
      BY <3>2, <3>3
  <2>5. QED
    BY <2>3, <2>4
<1>2. CASE ~(\E w \in Workers : Claim(w))
  <2>1. Busy(v) /\ job'[v].cmd = job[v].cmd /\ job'[v].attempt = job[v].attempt
    BY <1>2, RunsChange DEF RunsKept
  <2>2. job'[v].state = job[v].state /\ (pc'[v] = "lease" => job[v].state = "running")
    BY <1>0, <1>2, RunState DEF RunningWhenLeasing
  <2>3. job[v].cmd \in Commands
    BY <1>0, <2>1, JobType
  <2> DEFINE row == outbox[job[v].cmd]
             new == outbox'[job[v].cmd]
  <2>4. new.state \in ClaimStates => new = row
    <3>1. CASE UNCHANGED outbox
      BY <3>1
    <3>2. ASSUME NEW e \in OutboxEvents, EventChange(e), new.state \in ClaimStates, new # row
          PROVE  FALSE
      <4>1. e.cmd = job[v].cmd /\ new = AfterEvent(row, e) /\ row \in OutboxRow
        BY <1>0, <2>3, <3>2, EventCommand DEF EventChange
      <4>2. QED
        BY <3>2, <4>1, OnlyClaimsClaim DEF EventChange
    <3>3. QED
      BY <1>2, <3>1, <3>2, OutboxChange
  <2>5. QED
    BY <2>1, <2>2, <2>4 DEF ClaimIsShown, TakeoverIsAmbiguous, ClaimStates
<1>3. QED
  BY <1>1, <1>2

\* A superseded run sends a write request only if it shares its token, and only
\* after two takeovers, whichever workers share one.
THEOREM SupersededRunsAreFenced == Spec => WritesAreFenced
<1> DEFINE FInv == LeaseOwner /\ RunningWhenLeasing /\ ClaimIsShown /\ TakeoverIsAmbiguous
           Fenced(w) == LET newest == outbox[job[w].cmd].attempt
                        IN  \/ newest = job[w].attempt
                            \/ SharesToken(w) /\ newest >= job[w].attempt + 2
<1>1. Init => FInv
  BY DEF Init, Busy, LeaseOwner, RunningWhenLeasing, ClaimIsShown, TakeoverIsAmbiguous
<1>2. IInv /\ FInv /\ [Next]_vars => FInv'
  BY LeaseOwnerStep, TakeoverStep
<1>3. ASSUME IInv, FInv, Next, NEW w \in Workers, pc[w] = "lease", pc'[w] = "await"
      PROVE  Fenced(w)
  <2>1. Busy(w) /\ LeaseActive(job[w].cmd, Token[w]) /\ job[w].state = "running"
    BY <1>3, SendsWrite DEF IInv, Busy, RunningWhenLeasing
  <2>2. /\ job[w].cmd \in Commands /\ job[w].attempt \in Nat
        /\ outbox[job[w].cmd].attempt \in Nat
    BY <1>3, <2>1, TypeParts, JobType DEF IInv, StoreTypeOK, OutboxRow
  <2>3. job[w].attempt <= outbox[job[w].cmd].attempt
    BY <1>3, <2>1 DEF IInv, JobsAttempted
  <2>4. outbox[job[w].cmd].attempt # job[w].attempt + 1
    BY <1>3, <2>1 DEF TakeoverIsAmbiguous, LeaseActive
  <2>5. ~SharesToken(w) => outbox[job[w].cmd].attempt = job[w].attempt
    BY <1>3, <2>1 DEF LeaseOwner, LeaseActive
  <2>6. QED
    BY <2>2, <2>3, <2>4, <2>5
<1>4. IInv /\ FInv /\ [Next]_vars =>
          [\A w \in Workers : pc[w] = "lease" /\ pc'[w] = "await" => Fenced(w)]_vars
  <2> HIDE DEF FInv, Fenced
  <2> QED
    BY <1>3
<1>5. Spec => []FInv
  <2> HIDE DEF FInv
  <2> QED
    BY <1>1, <1>2, InvariantHolds, PTL DEF Spec
<1>6. Spec => [][\A w \in Workers : pc[w] = "lease" /\ pc'[w] = "await" => Fenced(w)]_vars
  <2> HIDE DEF FInv, Fenced
  <2> QED
    BY <1>4, <1>5, InvariantHolds, PTL DEF Spec
<1>7. QED
  BY <1>6 DEF WritesAreFenced

----------------------------------------------------------------------------
(* What the store may rely on *)

\* Every change of the store is the append of an event; a settlement comes from a
\* run that is about to settle.
LEMMA StoreChange ==
    ASSUME TypeOK, Replayed, [Next]_vars
    PROVE  \/ UNCHANGED <<log, outbox>>
           \/ \E e \in OutboxEvents :
                 /\ AppendEvent(e)
                 /\ e.type = "Settled" => \E w \in Workers : pc[w] = "settle" /\ job[w].cmd = e.cmd
<1> DEFINE Goal ==
        \/ UNCHANGED <<log, outbox>>
        \/ \E e \in OutboxEvents :
              /\ AppendEvent(e)
              /\ e.type = "Settled" => \E w \in Workers : pc[w] = "settle" /\ job[w].cmd = e.cmd
<1>0. StoreTypeOK /\ WorkersTypeOK
  BY TypeParts
<1>1. ASSUME NEW c \in Commands, Plan(c) PROVE Goal
  BY <1>1, EventTypes DEF Plan, Planned
<1>2. ASSUME NEW c \in Commands, Forget(c) PROVE Goal
  <2>1. forgets \in Nat
    BY DEF TypeOK
  <2>2. QED
    BY <1>2, <2>1, EventTypes DEF Forget, Forgotten
<1>3. ASSUME NEW w \in Workers, Claim(w) PROVE Goal
  <2>1. PICK c \in Commands : AppendEvent(ClaimEvent(c, Token[w]))
    BY <1>3 DEF Claim
  <2>2. ClaimEvent(c, Token[w]) \in OutboxEvents
    BY <1>0, ClaimEventType, TokenType
  <2>3. ClaimEvent(c, Token[w]).type = "Attempted"
    BY DEF ClaimEvent, Attempted
  <2>4. QED
    BY <2>1, <2>2, <2>3
<1>4. ASSUME NEW w \in Workers, Settle(w) PROVE Goal
  <2>1. Busy(w) /\ pc[w] = "settle"
    BY <1>4 DEF Settle, Busy
  <2>2. QED
    BY <1>0, <1>4, <2>1, JobType, EventTypes DEF Settle, Settled
<1>5. ASSUME NEW w \in Workers, RecordAttemptState(w) PROVE Goal
  <2>1. Busy(w) /\ job[w].report \in Failures
    BY <1>5, <1>0 DEF RecordAttemptState, Busy, WorkersTypeOK
  <2> DEFINE state == IF job[w].report = "later" THEN "retryable" ELSE job[w].report
             e == Attempted(job[w].cmd, job[w].attempt, state, Token[w], job[w].report = "later")
  <2>2. e \in OutboxEvents
    BY <1>0, <2>1, JobType, EventTypes, TokenType DEF Failures, FailureStates
  <2>3. e.type = "Attempted" /\ AppendEvent(e)
    BY <1>5 DEF RecordAttemptState, Attempted
  <2>4. QED
    BY <2>2, <2>3
<1>6. ASSUME NEW w \in Workers, ObserveBefore(w) \/ CheckLease(w) \/ ObserveAfter(w) \/ Faulty(w)
      PROVE  Goal
  BY <1>6 DEF ObserveBefore, CheckLease, ObserveAfter, Faulty, ObserveError, WriteError,
              Stop, storeVars
<1>7. ASSUME NEW c \in Commands, ThirdPartyEdit(c) PROVE Goal
  BY <1>7 DEF ThirdPartyEdit, storeVars
<1>8. ASSUME NEW r \in network, GatewayStep(r) PROVE Goal
  BY <1>8 DEF GatewayStep, GatewayCheck, RemoteWrite, storeVars
<1>9. CASE Rebuild \/ Tick \/ UNCHANGED vars
  BY <1>9, RebuildKeeps DEF Rebuild, Tick, vars, storeVars
<1>10. QED
  BY <1>1, <1>2, <1>3, <1>4, <1>5, <1>6, <1>7, <1>8, <1>9 DEF Next, WorkerStep

----------------------------------------------------------------------------
(* Compaction                                                              *)

\* A row exists only after its command was planned.
PlannedRows ==
    \A c \in Commands :
        outbox[c].state # "absent" => \E i \in 1..Len(log) : log[i] = Planned(c)

\* A fenced row without a lease is a forgotten one: a run that was fenced leaves
\* its lease in the row.
ForgottenRows ==
    \A c \in Commands :
        outbox[c].state = "fenced" /\ outbox[c].token = NoToken => IsForgotten(c)

\* What one event does to its row.
LEMMA EventRow ==
    ASSUME NEW row \in OutboxRow, NEW e \in OutboxEvents
    PROVE  LET new == AfterEvent(row, e) IN
           /\ new.state # "absent" => row.state # "absent" \/ e.type = "Planned"
           /\ new.state = "fenced" /\ new.token = NoToken =>
                 new = row \/ (e.type = "Forgotten" /\ row.state # "absent")
           /\ new.state = "settled" => row.state = "settled" \/ e.type = "Settled"
<1> USE DEF OutboxRow
<1>1. CASE e.type = "Planned"
  BY <1>1 DEF AfterEvent, AfterPlanned, QueuedRow, AbsentRow
<1>2. CASE e.type = "Attempted"
  <2>1. e.token # NoToken /\ e.state \in ClaimStates \cup FailureStates
    BY <1>2, NoTokenAssumption
       DEF OutboxEvents, PlannedEvents, AttemptEvents, SettledEvents, ForgetEvents
  <2>2. AfterEvent(row, e) = AfterAttempted(row, e)
    BY <1>2 DEF AfterEvent
  <2>3. AfterAttempted(row, e) = row
        \/ /\ AfterAttempted(row, e).token = e.token /\ AfterAttempted(row, e).state = e.state
           /\ row.state # "absent"
    BY DEF AfterAttempted, AttemptApplies, Unsettled
  <2>4. QED
    BY <2>1, <2>2, <2>3 DEF ClaimStates, FailureStates
<1>3. CASE e.type = "Settled"
  BY <1>3 DEF AfterEvent, AfterSettled, SettlementApplies, ClaimStates
<1>4. CASE e.type = "Forgotten"
  BY <1>4 DEF AfterEvent, AfterForgotten, Unsettled
<1>5. QED
  BY <1>1, <1>2, <1>3, <1>4
     DEF OutboxEvents, PlannedEvents, AttemptEvents, SettledEvents, ForgetEvents

LEMMA CompactionStep ==
    ASSUME TypeOK, Replayed, PlannedRows, ForgottenRows, [Next]_vars
    PROVE  PlannedRows' /\ ForgottenRows'
<1>0. StoreTypeOK
  BY TypeParts
<1>1. CASE UNCHANGED <<log, outbox>>
  BY <1>1 DEF PlannedRows, ForgottenRows, IsForgotten
<1>2. ASSUME NEW e \in OutboxEvents, AppendEvent(e), log' = Append(log, e),
             outbox'[e.cmd] = AfterEvent(outbox[e.cmd], e),
             \A c \in Commands : c # e.cmd => outbox'[c] = outbox[c]
      PROVE  PlannedRows' /\ ForgottenRows'
  <2>1. /\ log \in Seq(OutboxEvents) /\ Len(log') = Len(log) + 1 /\ Len(log) \in Nat
        /\ \A i \in 1..Len(log) : log'[i] = log[i]
        /\ log'[Len(log) + 1] = e
    BY <1>0, <1>2 DEF StoreTypeOK
  <2>2. e.cmd \in Commands /\ outbox[e.cmd] \in OutboxRow
    BY <1>0, EventCommand DEF StoreTypeOK
  <2>3. PlannedRows'
    <3> SUFFICES ASSUME NEW c \in Commands, outbox'[c].state # "absent"
                 PROVE  \E i \in 1..Len(log') : log'[i] = Planned(c)
      BY DEF PlannedRows
    <3>1. CASE outbox[c].state # "absent"
      <4>1. PICK i \in 1..Len(log) : log[i] = Planned(c)
        BY <3>1 DEF PlannedRows
      <4>2. i \in 1..Len(log') /\ log'[i] = Planned(c)
        BY <2>1, <4>1
      <4>3. QED
        BY <4>2
    <3>2. CASE outbox[c].state = "absent"
      <4>1. c = e.cmd /\ e.type = "Planned"
        BY <1>2, <2>2, <3>2, EventRow
      <4>2. e = Planned(c)
        BY <4>1 DEF OutboxEvents, PlannedEvents, AttemptEvents, SettledEvents, ForgetEvents, Planned
      <4>3. Len(log) + 1 \in 1..Len(log')
        BY <2>1
      <4>4. QED
        BY <2>1, <4>2, <4>3
    <3>3. QED
      BY <3>1, <3>2
  <2>4. ForgottenRows'
    <3> SUFFICES ASSUME NEW c \in Commands, outbox'[c].state = "fenced", outbox'[c].token = NoToken
                 PROVE  IsForgotten(c)'
      BY DEF ForgottenRows
    <3>1. CASE outbox'[c] = outbox[c]
      <4>1. PICK i \in 1..Len(log), j \in 1..Len(log) :
                i < j /\ log[i] = Planned(c) /\ log[j].type = "Forgotten" /\ log[j].cmd = c
        BY <3>1 DEF ForgottenRows, IsForgotten
      <4>2. i \in 1..Len(log') /\ j \in 1..Len(log') /\ log'[i] = log[i] /\ log'[j] = log[j]
        BY <2>1, <4>1
      <4>3. QED
        BY <4>1, <4>2 DEF IsForgotten
    <3>2. CASE outbox'[c] # outbox[c]
      <4>1. c = e.cmd /\ e.type = "Forgotten" /\ outbox[c].state # "absent"
        BY <1>2, <2>2, <3>2, EventRow
      <4>2. PICK i \in 1..Len(log) : log[i] = Planned(c)
        BY <4>1 DEF PlannedRows
      <4>3. /\ i \in 1..Len(log') /\ Len(log) + 1 \in 1..Len(log') /\ i < Len(log) + 1
            /\ log'[i] = Planned(c)
        BY <2>1, <4>2
      <4>4. QED
        BY <2>1, <4>1, <4>3 DEF IsForgotten
    <3>3. QED
      BY <3>1, <3>2
  <2>5. QED
    BY <2>3, <2>4
<1>3. QED
  BY <1>0, <1>1, <1>2, StoreChange, AppendEffect

\* While compaction of the log is allowed, no run is under way on a command that is
\* not settled, unless its page was forgotten (getCompactionDecision).
THEOREM CompactionIsSafe == Spec => []CompactionFindsNoRun
<1>1. Init => PlannedRows /\ ForgottenRows
  BY DEF Init, StoreInit, EmptyOutbox, AbsentRow, PlannedRows, ForgottenRows
<1>2. IInv /\ PlannedRows /\ ForgottenRows /\ [Next]_vars => (PlannedRows /\ ForgottenRows)'
  BY CompactionStep DEF IInv
<1>3. IInv /\ PlannedRows /\ ForgottenRows => CompactionFindsNoRun
  <2> SUFFICES ASSUME IInv, ForgottenRows, CompactionAllowed, NEW w \in Workers, Busy(w)
               PROVE  outbox[job[w].cmd].state = "settled" \/ IsForgotten(job[w].cmd)
    BY DEF CompactionFindsNoRun
  <2> DEFINE c == job[w].cmd
  <2>1. c \in Commands /\ job[w].attempt \in Nat
    BY JobType, TypeParts DEF IInv
  <2>2. outbox[c].attempt \in Nat /\ 1 <= job[w].attempt /\ job[w].attempt <= outbox[c].attempt
    BY <2>1 DEF IInv, JobsAttempted, TypeOK, StoreTypeOK, OutboxRow
  <2>3. outbox[c].state # "absent"
    BY <2>1, <2>2 DEF IInv, UnclaimedRows
  <2>4. outbox[c].state = "settled" \/ (outbox[c].state = "fenced" /\ outbox[c].token = NoToken)
    BY <2>1, <2>3 DEF CompactionAllowed, IInv, LeaselessRows
  <2>5. QED
    BY <2>1, <2>4 DEF ForgottenRows
<1>4. QED
  BY <1>1, <1>2, <1>3, InvariantHolds, PTL DEF Spec

----------------------------------------------------------------------------
(* Evidence                                                                *)

\* Where the desired hash can be observed some run observed it; where it cannot,
\* the write was carried out.
Evidence(c) == IF kind[c] \in {"hash", "lifecycle"} THEN seen[c] ELSE applied[c] > 0

\* Evidence in the next state.
EvidenceAfter(c) == IF kind'[c] \in {"hash", "lifecycle"} THEN seen'[c] ELSE applied'[c] > 0

\* A run that is to settle has its evidence, and one that is to verify has written.
RunsEvidence ==
    \A w \in Workers :
        /\ pc[w] = "settle" => Evidence(job[w].cmd)
        /\ pc[w] = "verify" => applied[job[w].cmd] > 0

\* Evidence is never lost.
EvidenceKept ==
    \A c \in Commands : /\ Evidence(c) => EvidenceAfter(c)
                        /\ applied[c] > 0 => applied'[c] > 0

LEMMA EvidenceStays ==
    ASSUME RemoteTypeOK, RemoteTypeOK', kind' = kind,
           \A c \in Commands : (seen[c] => seen'[c]) /\ applied[c] <= applied'[c]
    PROVE  EvidenceKept
BY DEF EvidenceKept, Evidence, EvidenceAfter, RemoteTypeOK

\* Runs that go on as they are, or end, keep their evidence.
LEMMA QuietRuns ==
    ASSUME WorkersTypeOK, RunsEvidence, EvidenceKept,
           \A w \in Workers :
               \/ pc'[w] \notin {"settle", "verify"}
               \/ pc'[w] = pc[w] /\ job'[w].cmd = job[w].cmd
    PROVE  RunsEvidence'
<1> SUFFICES ASSUME NEW w \in Workers, pc'[w] \in {"settle", "verify"}
             PROVE  /\ pc'[w] = "settle" => EvidenceAfter(job'[w].cmd)
                    /\ pc'[w] = "verify" => applied'[job'[w].cmd] > 0
  BY DEF RunsEvidence, Evidence, EvidenceAfter
<1>1. pc'[w] = pc[w] /\ job'[w].cmd = job[w].cmd /\ Busy(w)
  BY DEF Busy
<1>2. job[w].cmd \in Commands
  BY <1>1, JobType
<1>3. QED
  BY <1>1, <1>2 DEF RunsEvidence, EvidenceKept, Evidence, EvidenceAfter

\* The evidence of one run that goes on as it is.
LEMMA RunEvidence ==
    ASSUME WorkersTypeOK, RunsEvidence, EvidenceKept,
           NEW v \in Workers, pc'[v] = pc[v], job'[v] = job[v]
    PROVE  /\ pc'[v] = "settle" => EvidenceAfter(job'[v].cmd)
           /\ pc'[v] = "verify" => applied'[job'[v].cmd] > 0
<1>1. pc[v] \in {"settle", "verify"} => job[v].cmd \in Commands
  BY JobType DEF Busy
<1>2. QED
  BY <1>1 DEF RunsEvidence, EvidenceKept, Evidence, EvidenceAfter

\* One run moves on, to settle with its evidence or not to verify; the others stay.
LEMMA OthersEvidence ==
    ASSUME WorkersTypeOK, RunsEvidence, EvidenceKept, NEW w \in Workers,
           pc'[w] = "settle" => EvidenceAfter(job'[w].cmd), pc'[w] # "verify",
           \A v \in Workers : v # w => pc'[v] = pc[v] /\ job'[v] = job[v]
    PROVE  RunsEvidence'
<1> SUFFICES ASSUME NEW v \in Workers
             PROVE  /\ pc'[v] = "settle" => EvidenceAfter(job'[v].cmd)
                    /\ pc'[v] = "verify" => applied'[job'[v].cmd] > 0
  BY DEF RunsEvidence, Evidence, EvidenceAfter
<1>1. CASE v = w
  BY <1>1
<1>2. CASE v # w
  BY <1>2, RunEvidence
<1>3. QED
  BY <1>1, <1>2

LEMMA EvidenceStep ==
    ASSUME TypeOK, TypeOK', RunsEvidence, [Next]_vars
    PROVE  EvidenceKept /\ RunsEvidence'
<1> DEFINE Goal == EvidenceKept /\ RunsEvidence'
<1>0. WorkersTypeOK /\ RemoteTypeOK /\ RemoteTypeOK' /\ WorkersTypeOK'
  BY TypeParts, TypePartsPrime
<1>1. ASSUME UNCHANGED <<kind, seen, applied>> PROVE EvidenceKept
  BY <1>1 DEF EvidenceKept, Evidence, EvidenceAfter
<1>2. ASSUME NEW c \in Commands, Plan(c) \/ ThirdPartyEdit(c) \/ Forget(c) PROVE Goal
  <2>1. UNCHANGED <<kind, seen, applied, pc, job>>
    BY <1>2 DEF Plan, ThirdPartyEdit, Forget, remoteVars, workerVars
  <2>2. QED
    BY <1>0, <1>1, <2>1, QuietRuns
<1>3. CASE Rebuild \/ Tick \/ UNCHANGED vars
  <2>1. UNCHANGED <<kind, seen, applied, pc, job>>
    BY <1>3 DEF Rebuild, Tick, vars, remoteVars, workerVars
  <2>2. QED
    BY <1>0, <1>1, <2>1, QuietRuns
<1>4. ASSUME NEW w \in Workers,
             \/ Claim(w) \/ CheckLease(w) \/ Settle(w) \/ RecordAttemptState(w)
             \/ ObserveError(w) \/ WriteError(w) \/ Stop(w)
      PROVE  Goal
  <2>1. UNCHANGED <<kind, seen, applied>>
    BY <1>4 DEF Claim, CheckLease, Settle, RecordAttemptState, ObserveError, WriteError, Stop,
                remoteVars
  <2>2. \A v \in Workers :
            pc'[v] \notin {"settle", "verify"} \/ (pc'[v] = pc[v] /\ job'[v].cmd = job[v].cmd)
    BY <1>0, <1>4 DEF Claim, CheckLease, Settle, RecordAttemptState, ObserveError, WriteError, Stop,
                Goto, Finish, Fail, WorkersTypeOK
  <2>3. QED
    BY <1>0, <1>1, <2>1, <2>2, QuietRuns
<1>5. ASSUME NEW w \in Workers, ObserveBefore(w) PROVE Goal
  <2> DEFINE c == job[w].cmd
  <2>1. c \in Commands /\ Busy(w)
    BY <1>0, <1>5, JobType DEF ObserveBefore, Busy
  <2>2. UNCHANGED <<kind, applied>> /\ seen' = [seen EXCEPT ![c] = @ \/ remote[c].met]
    BY <1>5 DEF ObserveBefore, remoteVars
  <2>3. EvidenceKept
    BY <1>0, <2>2, EvidenceStays DEF RemoteTypeOK
  <2>4. remote[c].met => kind[c] \in {"hash", "lifecycle"}
    BY <1>0, <2>1 DEF RemoteTypeOK, Surfaces
  <2>5. \A v \in Workers :
            \/ pc'[v] \notin {"settle", "verify"}
            \/ pc'[v] = pc[v] /\ job'[v].cmd = job[v].cmd
            \/ v = w /\ pc'[w] = "settle" /\ remote[c].met /\ job' = job
    BY <1>0, <1>5, <2>1 DEF ObserveBefore, Goto, Finish, Fail, WorkersTypeOK
  <2>6. CASE pc'[w] # "settle" \/ ~remote[c].met
    BY <1>0, <2>3, <2>5, <2>6, QuietRuns
  <2>7. CASE pc'[w] = "settle" /\ remote[c].met
    <3>1. EvidenceAfter(c)
      BY <1>0, <2>1, <2>2, <2>4, <2>7 DEF Evidence, EvidenceAfter, RemoteTypeOK
    <3>2. ASSUME NEW v \in Workers, v # w, pc'[v] \in {"settle", "verify"}
          PROVE  /\ pc'[v] = "settle" => EvidenceAfter(job'[v].cmd)
                 /\ pc'[v] = "verify" => applied'[job'[v].cmd] > 0
      <4>1. pc'[v] = pc[v] /\ job'[v].cmd = job[v].cmd /\ Busy(v)
        BY <2>5, <3>2 DEF Busy
      <4>2. job[v].cmd \in Commands
        BY <1>0, <4>1, JobType
      <4>3. QED
        BY <2>3, <4>1, <4>2 DEF RunsEvidence, EvidenceKept, Evidence, EvidenceAfter
    <3>3. job'[w].cmd = c
      BY <2>5, <2>7, <1>5, <1>0 DEF ObserveBefore, WorkersTypeOK, Finish, Fail, Goto
    <3>4. RunsEvidence'
      BY <2>7, <3>1, <3>2, <3>3 DEF RunsEvidence, Evidence, EvidenceAfter
    <3>5. QED
      BY <2>3, <3>4
  <2>8. QED
    BY <2>6, <2>7
<1>6. ASSUME NEW w \in Workers, ObserveAfter(w) PROVE Goal
  <2> DEFINE c == job[w].cmd
  <2>1. c \in Commands /\ pc[w] = "verify"
    BY <1>0, <1>6, JobType DEF ObserveAfter, Busy
  <2>2. UNCHANGED <<kind, applied>> /\ seen' = [seen EXCEPT ![c] = @ \/ remote[c].met]
    BY <1>6 DEF ObserveAfter, remoteVars
  <2>3. EvidenceKept
    BY <1>0, <2>2, EvidenceStays DEF RemoteTypeOK
  <2>4. applied[c] > 0
    BY <2>1 DEF RunsEvidence, Evidence, EvidenceAfter
  <2>5. pc'[w] = "settle" => EvidenceAfter(c)
    <3>1. SUFFICES ASSUME pc'[w] = "settle" PROVE EvidenceAfter(c)
      OBVIOUS
    <3>2. Verified(kind[c], remote[c])
      BY <1>0, <1>6, <3>1 DEF ObserveAfter, Fail, Goto, WorkersTypeOK
    <3>3. kind[c] \in {"hash", "lifecycle"} => remote[c].met
      BY <3>2 DEF Verified
    <3>4. QED
      BY <1>0, <2>1, <2>2, <2>4, <3>3 DEF Evidence, EvidenceAfter, RemoteTypeOK
  <2>6. pc'[w] \in {"settle", "record"} /\ job'[w].cmd = c
    BY <1>0, <1>6, <2>1 DEF ObserveAfter, Fail, Goto, WorkersTypeOK, Jobs, NoJob
  <2>7. ASSUME NEW v \in Workers, v # w PROVE pc'[v] = pc[v] /\ job'[v] = job[v]
    BY <1>0, <1>6, <2>7 DEF ObserveAfter, Fail, Goto, WorkersTypeOK
  <2>8. RunsEvidence'
    BY <1>0, <2>3, <2>5, <2>6, <2>7, OthersEvidence
  <2>9. QED
    BY <2>3, <2>8
<1>7. ASSUME NEW r \in network, GatewayStep(r) PROVE Goal
  <2>1. r.cmd \in Commands
    BY <1>0, <1>7 DEF RemoteTypeOK, Requests
  <2>2. CASE GatewayCheck(r)
    <3>1. UNCHANGED <<kind, seen, applied>>
      BY <2>2 DEF GatewayCheck
    <3>2. \A v \in Workers :
              pc'[v] \notin {"settle", "verify"} \/ (pc'[v] = pc[v] /\ job'[v].cmd = job[v].cmd)
      BY <1>0, <2>2 DEF GatewayCheck, Answer, workerVars, WorkersTypeOK
    <3>3. QED
      BY <1>0, <1>1, <3>1, <3>2, QuietRuns
  <2>3. CASE RemoteWrite(r)
    <3>1. UNCHANGED <<kind, seen>> /\ applied' = [applied EXCEPT ![r.cmd] = @ + 1]
      BY <2>3 DEF RemoteWrite
    <3>2. EvidenceKept
      BY <1>0, <3>1, EvidenceStays DEF RemoteTypeOK
    <3>3. applied'[r.cmd] > 0
      BY <1>0, <2>1, <3>1 DEF RemoteTypeOK
    <3>4. ASSUME NEW v \in Workers
          PROVE  /\ pc'[v] = "settle" => EvidenceAfter(job'[v].cmd)
                 /\ pc'[v] = "verify" => applied'[job'[v].cmd] > 0
      <4>1. CASE Awaits(v, r)
        <5>1. pc'[v] = IF kind[r.cmd] = "create" THEN "settle" ELSE "verify"
          BY <2>3, <4>1 DEF RemoteWrite, Answer
        <5>2. job'[v].cmd = r.cmd
          BY <1>0, <2>3, <4>1 DEF RemoteWrite, Answer, Awaits, WorkersTypeOK, Jobs, NoJob
        <5>3. kind[r.cmd] = "create" => EvidenceAfter(r.cmd)
          BY <3>1, <3>3 DEF Evidence, EvidenceAfter
        <5>4. QED
          BY <3>3, <5>1, <5>2, <5>3
      <4>2. CASE ~Awaits(v, r)
        <5>1. pc'[v] = pc[v] /\ job'[v] = job[v]
          BY <2>3, <4>2 DEF RemoteWrite, Answer
        <5>2. QED
          BY <1>0, <3>2, <5>1, RunEvidence
      <4>3. QED
        BY <4>1, <4>2
    <3>5. QED
      BY <3>2, <3>4 DEF RunsEvidence, Evidence, EvidenceAfter
  <2>4. QED
    BY <1>7, <2>2, <2>3 DEF GatewayStep
<1>8. QED
  BY <1>2, <1>3, <1>4, <1>5, <1>6, <1>7 DEF Next, WorkerStep, Faulty

\* A command is settled only on evidence: where the desired hash can be observed some
\* run observed it, where it cannot the write was carried out (verifyAfterWrite).
THEOREM SettlementHasEvidence == Spec => []SettledHasEvidence
<1>1. Init => RunsEvidence /\ SettledHasEvidence
  BY DEF Init, StoreInit, EmptyOutbox, AbsentRow, RunsEvidence, SettledHasEvidence
<1>2. IInv /\ IInv' /\ RunsEvidence /\ SettledHasEvidence /\ [Next]_vars
          => (RunsEvidence /\ SettledHasEvidence)'
  <2> SUFFICES ASSUME IInv, IInv', RunsEvidence, SettledHasEvidence, [Next]_vars
               PROVE  RunsEvidence' /\ SettledHasEvidence'
    OBVIOUS
  <2>1. TypeOK /\ TypeOK' /\ StoreTypeOK /\ Replayed
    BY TypeParts DEF IInv
  <2>2. EvidenceKept /\ RunsEvidence'
    BY <2>1, EvidenceStep
  <2>3. ASSUME NEW c \in Commands, outbox'[c].state = "settled" PROVE EvidenceAfter(c)
    <3>1. CASE outbox[c].state = "settled"
      BY <2>2, <3>1 DEF SettledHasEvidence, EvidenceKept, Evidence, EvidenceAfter
    <3>2. CASE outbox[c].state # "settled"
      <4>1. PICK e \in OutboxEvents :
                /\ AppendEvent(e)
                /\ e.type = "Settled" =>
                       \E w \in Workers : pc[w] = "settle" /\ job[w].cmd = e.cmd
        BY <2>1, <2>3, <3>2, StoreChange
      <4>2. /\ outbox'[e.cmd] = AfterEvent(outbox[e.cmd], e)
            /\ \A d \in Commands : d # e.cmd => outbox'[d] = outbox[d]
            \/ UNCHANGED outbox
        BY <2>1, <4>1, AppendEffect
      <4>3. c = e.cmd /\ e.type = "Settled"
        BY <2>1, <2>3, <3>2, <4>2, EventRow DEF StoreTypeOK
      <4>4. QED
        BY <2>2, <4>1, <4>3 DEF RunsEvidence, EvidenceKept
    <3>3. QED
      BY <3>1, <3>2
  <2>4. QED
    BY <2>2, <2>3 DEF SettledHasEvidence, Evidence, EvidenceAfter
<1>3. QED
  BY <1>1, <1>2, InvariantHolds, PTL DEF Spec

=============================================================================
