-------------------------- MODULE StoreLockProofs --------------------------
(***************************************************************************)
(* Theorems about StoreLock, for any number of processes, holders, permits *)
(* and failures, any expiry and any bound on how slow an operation may be. *)
(***************************************************************************)
EXTENDS StoreLock, FiniteSetTheorems, TLAPS

----------------------------------------------------------------------------
(* The inductive invariant *)

\* A call that is past its gate is in it.
Inside(h) == phase[h] \in {"trying", "held", "lost", "failed", "releasing"}
GateInv == \A h \in Holders : Inside(h) => gate[ProcessOf[h]] = h

\* Who is in the middle of which operation, and that a waiting call has no file.
OpInv ==
    \A h \in Holders :
        /\ op[h] \in {"scan", "clear"} => phase[h] = "trying"
        /\ op[h] = "clear" => stale[h] \in Holders
        /\ Waiting(h) => lock[h] = NoFile /\ op[h] # "write"

\* An operation during which time has passed excuses its holder.
SlowInv ==
    \A h \in Holders :
        op[h] # "none" /\ age[h] > 0 /\ (phase[h] = "trying" \/ Running(h))
            => h \in excused

\* A running holder without a live file has lapsed, and a holder lapses with an
\* excuse only; so does one whose expired file another is about to remove.
LapseInv ==
    /\ \A h \in Holders : Running(h) /\ ~Live(h) => h \in lapsed
    /\ \A h \in lapsed : Running(h)
    /\ \A h \in Holders : phase[h] = "held" /\ h \in lapsed => h \in excused
    /\ \A h \in Holders : op[h] = "clear" =>
          /\ phase[stale[h]] \notin {"queued", "trying"}
          /\ phase[stale[h]] = "held" => stale[h] \in lapsed

\* A scan has counted, or has still to read, every file that was there when it
\* began and whose holder never lapsed.
ScanInv ==
    \A h \in Holders : op[h] \in {"scan", "clear"} =>
        \A g \in Holders \ {h} :
            Running(g) /\ g \notin lapsed /\ g \notin rivals[h]
                => g \in listed[h] \cup counted[h]

IInv ==
    /\ TypeOK /\ GateInv /\ OpInv /\ SlowInv /\ LapseInv /\ ScanInv
    /\ NoOvercommit /\ LossExplained

----------------------------------------------------------------------------
(* Facts several steps use *)

\* What a step records about lapses.
LEMMA Lapses ==
    ASSUME TypeOK, NoteLapses
    PROVE  /\ lapsed' \in SUBSET Holders
           /\ \A h \in Holders : h \in lapsed' <=> Running(h)' /\ (h \in lapsed \/ ~Live(h)')
BY DEF NoteLapses

\* A step that makes nobody run, and forgets no rival of who runs on, overcommits
\* nothing.
LEMMA NobodyStarts ==
    ASSUME NoOvercommit,
           \A h \in Holders : Running(h)' /\ h \notin lapsed' =>
               Running(h) /\ h \notin lapsed /\ rivals'[h] = rivals[h]
    PROVE  NoOvercommit'
<1> SUFFICES ASSUME NEW S \in SUBSET {h \in Holders : Running(h)' /\ h \notin lapsed'},
                    \A g, h \in S : g \notin rivals'[h]
             PROVE  Cardinality(S) <= Limit
  BY DEF NoOvercommit
<1>1. S \in SUBSET {h \in Holders : Running(h) /\ h \notin lapsed}
  OBVIOUS
<1>2. \A g, h \in S : g \notin rivals[h]
  OBVIOUS
<1>3. QED
  BY <1>1, <1>2 DEF NoOvercommit

----------------------------------------------------------------------------
(* Every step preserves the invariant *)

LEMMA EnterGateStep ==
    ASSUME IInv,
           NEW h \in Holders,
           EnterGate(h),
           NoteLapses
    PROVE  IInv'
<1> USE FilesAssumption, StoreLockAssumption DEF IInv
<1>1. TypeOK'
  <2>1. FilesTypeOK'
    BY DEF TypeOK, FilesTypeOK, Ops, EnterGate, Goto, files, scanVars
  <2>2. gate' \in [Processes -> Holders \cup {NoHolder}] /\ phase' \in [Holders -> Phases]
    BY DEF TypeOK, Phases, EnterGate, Goto, files, scanVars
  <2>3. rivals' \in [Holders -> SUBSET Holders] /\ lapsed' \in SUBSET Holders
        /\ excused' \in SUBSET Holders /\ troubles' \in 0..MaxTroubles
    BY Lapses DEF TypeOK, EnterGate, Goto, files, scanVars
  <2>4. \A p \in Processes : gate'[p] # NoHolder =>
           ProcessOf[gate'[p]] = p /\ phase'[gate'[p]] \notin {"queued", "done", "dead"}
    BY DEF TypeOK, EnterGate, Goto, files, scanVars
  <2>5. QED
    BY <2>1, <2>2, <2>3, <2>4 DEF TypeOK
<1>2. GateInv'
  <2> SUFFICES ASSUME NEW g \in Holders, Inside(g)'
               PROVE  gate'[ProcessOf[g]] = g
    BY DEF GateInv
  <2> USE DEF EnterGate, Goto, Inside, TypeOK
  <2>1. CASE g = h
    BY <2>1
  <2>2. CASE g # h
    <3>1. gate[ProcessOf[g]] = g
      BY <2>2 DEF GateInv
    <3>2. ProcessOf[g] # ProcessOf[h]
      BY <3>1
    <3>3. QED
      BY <3>1, <3>2
  <2>3. QED
    BY <2>1, <2>2
<1>3. OpInv'
  BY DEF OpInv, Waiting, TypeOK, FilesTypeOK, EnterGate, Goto, files, scanVars
<1>4. SlowInv'
  BY DEF SlowInv, OpInv, Waiting, Running, Ops, TypeOK, FilesTypeOK, EnterGate, Goto, files
<1>5. LapseInv'
  BY Lapses DEF LapseInv, OpInv, Running, Waiting, Live, TypeOK, FilesTypeOK, EnterGate, Goto, files, scanVars
<1>6. ScanInv'
  BY Lapses DEF ScanInv, LapseInv, OpInv, Running, Waiting, Live, TypeOK, FilesTypeOK, EnterGate, Goto, files, scanVars
<1>7. NoOvercommit'
  BY Lapses, NobodyStarts DEF LapseInv, Running, Live, TypeOK, FilesTypeOK, EnterGate, Goto, files, scanVars
<1>8. LossExplained'
  BY DEF LossExplained, LapseInv, Running, Live, TypeOK, FilesTypeOK, EnterGate, Goto, files, scanVars
<1>9. QED
  BY <1>1, <1>2, <1>3, <1>4, <1>5, <1>6, <1>7, <1>8

LEMMA AttemptStep ==
    ASSUME IInv,
           NEW h \in Holders,
           Attempt(h),
           NoteLapses
    PROVE  IInv'
<1> USE FilesAssumption, StoreLockAssumption DEF IInv
<1>1. TypeOK'
  BY Lapses DEF TypeOK, FilesTypeOK, Ops, Phases, Attempt, ListFiles
<1>2. GateInv'
  BY DEF GateInv, Inside, TypeOK, FilesTypeOK, Attempt, ListFiles
<1>3. OpInv'
  BY DEF OpInv, Waiting, TypeOK, FilesTypeOK, Attempt, ListFiles
<1>4. SlowInv'
  BY DEF SlowInv, OpInv, Waiting, Running, TypeOK, FilesTypeOK, Attempt, ListFiles
<1>5. LapseInv'
  BY Lapses DEF LapseInv, OpInv, Running, Waiting, Live, TypeOK, FilesTypeOK, Attempt, ListFiles
<1>6. ScanInv'
  BY Lapses DEF ScanInv, LapseInv, OpInv, Running, Waiting, Live, TypeOK, FilesTypeOK, Attempt, ListFiles
<1>7. NoOvercommit'
  BY Lapses, NobodyStarts DEF LapseInv, Running, Live, TypeOK, FilesTypeOK, Attempt, ListFiles
<1>8. LossExplained'
  BY DEF LossExplained, LapseInv, Running, Live, TypeOK, FilesTypeOK, Attempt, ListFiles
<1>9. QED
  BY <1>1, <1>2, <1>3, <1>4, <1>5, <1>6, <1>7, <1>8

LEMMA ReadFileStep ==
    ASSUME IInv,
           NEW h \in Holders,
           NEW f \in Holders,
           ReadFile(h, f),
           UNCHANGED <<phase, gate, rivals, excused, troubles>>,
           NoteLapses
    PROVE  IInv'
<1> USE FilesAssumption, StoreLockAssumption DEF IInv
<1>1. TypeOK'
  BY Lapses DEF TypeOK, FilesTypeOK, Ops, Phases, ReadFile
<1>2. GateInv'
  BY DEF GateInv, Inside, TypeOK, FilesTypeOK, ReadFile
<1>3. OpInv'
  BY DEF OpInv, Waiting, TypeOK, FilesTypeOK, ReadFile
<1>4. SlowInv'
  BY DEF SlowInv, OpInv, Waiting, Running, TypeOK, FilesTypeOK, ReadFile
<1>5. LapseInv'
  <2> USE DEF ReadFile
  <2>1. \A g \in Holders : (Live(g)' <=> Live(g)) /\ (Running(g)' <=> Running(g))
    BY DEF Running, Live
  <2>2. \A g \in Holders : Running(g)' /\ ~Live(g)' => g \in lapsed'
    BY <2>1, Lapses
  <2>3. \A g \in Holders : phase'[g] = "held" /\ g \in lapsed' => g \in excused'
    BY <2>1, Lapses DEF LapseInv, Running
  <2>4. lock[f] # NoFile /\ Expired(f, age[h]) => ~Waiting(f) /\ ~Live(f)
    BY DEF OpInv, Expired, Live, TypeOK, FilesTypeOK
  <2>5. ASSUME NEW g \in Holders, op'[g] = "clear"
        PROVE  phase'[stale'[g]] \notin {"queued", "trying"} /\ (phase'[stale'[g]] = "held" => stale'[g] \in lapsed')
    <3>1. CASE op[g] = "clear"
      <4>1. stale'[g] = stale[g]
        BY <3>1 DEF TypeOK, FilesTypeOK
      <4>2. QED
        BY <3>1, <4>1, Lapses DEF LapseInv, OpInv, Running
    <3>2. CASE op[g] # "clear"
      <4>1. g = h /\ stale'[g] = f /\ lock[f] # NoFile /\ Expired(f, age[h])
        BY <2>5, <3>2 DEF TypeOK, FilesTypeOK
      <4>2. QED
        BY <4>1, <2>4, Lapses DEF LapseInv, Running, Waiting
    <3>3. QED
      BY <3>1, <3>2
  <2>6. QED
    BY <2>2, <2>3, <2>5, Lapses DEF LapseInv
<1>6. ScanInv'
  <2> USE DEF ReadFile
  <2> SUFFICES ASSUME NEW k \in Holders, op'[k] \in {"scan", "clear"}, NEW g \in Holders \ {k},
                      Running(g)', g \notin lapsed', g \notin rivals'[k]
               PROVE  g \in listed'[k] \cup counted'[k]
    BY DEF ScanInv
  <2>1. Running(g) /\ g \notin lapsed /\ Live(g) /\ g \notin rivals[k]
    BY Lapses DEF Running, Live, LapseInv
  <2>2. op[k] \in {"scan", "clear"}
    BY DEF TypeOK, FilesTypeOK
  <2>3. g \in listed[k] \cup counted[k]
    BY <2>1, <2>2 DEF ScanInv
  <2>4. CASE k = h
    <3>1. lock[f] # NoFile /\ Expired(f, age[h]) => f # g
      BY <2>1 DEF Expired, Live, TypeOK, FilesTypeOK
    <3>2. lock[f] = NoFile => f # g
      BY <2>1 DEF Live
    <3>3. listed'[h] = listed[h] \ {f}
      BY DEF TypeOK, FilesTypeOK
    <3>4. lock[f] # NoFile /\ ~Expired(f, age[h]) => counted'[h] = counted[h] \cup {f}
      BY DEF TypeOK, FilesTypeOK
    <3>5. counted[h] \subseteq counted'[h]
      BY DEF TypeOK, FilesTypeOK
    <3>6. QED
      BY <2>3, <2>4, <3>1, <3>2, <3>3, <3>4, <3>5
  <2>5. CASE k # h
    BY <2>3, <2>5 DEF TypeOK, FilesTypeOK
  <2>6. QED
    BY <2>4, <2>5
<1>7. NoOvercommit'
  BY Lapses, NobodyStarts DEF LapseInv, Running, Live, TypeOK, FilesTypeOK, ReadFile
<1>8. LossExplained'
  BY DEF LossExplained, LapseInv, Running, Live, TypeOK, FilesTypeOK, ReadFile
<1>9. QED
  BY <1>1, <1>2, <1>3, <1>4, <1>5, <1>6, <1>7, <1>8

LEMMA ClearStaleStep ==
    ASSUME IInv,
           NEW h \in Holders,
           ClearStale(h),
           UNCHANGED <<phase, gate, rivals, excused, troubles>>,
           NoteLapses
    PROVE  IInv'
<1> USE FilesAssumption, StoreLockAssumption DEF IInv
<1>1. TypeOK'
  BY Lapses DEF TypeOK, FilesTypeOK, Ops, Phases, ClearStale
<1>2. GateInv'
  BY DEF GateInv, Inside, TypeOK, FilesTypeOK, ClearStale
<1>3. OpInv'
  BY DEF OpInv, Waiting, TypeOK, FilesTypeOK, ClearStale
<1>4. SlowInv'
  BY DEF SlowInv, OpInv, Waiting, Running, TypeOK, FilesTypeOK, ClearStale
<1>5. LapseInv'
  BY Lapses DEF LapseInv, OpInv, Running, Waiting, Live, TypeOK, FilesTypeOK, ClearStale
<1>6. ScanInv'
  BY Lapses DEF ScanInv, LapseInv, OpInv, Running, Waiting, Live, TypeOK, FilesTypeOK, ClearStale
<1>7. NoOvercommit'
  BY Lapses, NobodyStarts DEF LapseInv, Running, Live, TypeOK, FilesTypeOK, ClearStale
<1>8. LossExplained'
  BY DEF LossExplained, LapseInv, Running, Live, TypeOK, FilesTypeOK, ClearStale
<1>9. QED
  BY <1>1, <1>2, <1>3, <1>4, <1>5, <1>6, <1>7, <1>8

LEMMA RefuseStep ==
    ASSUME IInv,
           NEW h \in Holders,
           Refuse(h),
           UNCHANGED <<phase, gate, rivals, excused, troubles>>,
           NoteLapses
    PROVE  IInv'
<1> USE FilesAssumption, StoreLockAssumption DEF IInv
<1>1. TypeOK'
  BY Lapses DEF TypeOK, FilesTypeOK, Ops, Phases, Refuse, Returns
<1>2. GateInv'
  BY DEF GateInv, Inside, TypeOK, FilesTypeOK, Refuse, Returns
<1>3. OpInv'
  BY DEF OpInv, Waiting, TypeOK, FilesTypeOK, Refuse, Returns
<1>4. SlowInv'
  BY DEF SlowInv, OpInv, Waiting, Running, TypeOK, FilesTypeOK, Refuse, Returns
<1>5. LapseInv'
  BY Lapses DEF LapseInv, OpInv, Running, Waiting, Live, TypeOK, FilesTypeOK, Refuse, Returns
<1>6. ScanInv'
  BY Lapses DEF ScanInv, LapseInv, OpInv, Running, Waiting, Live, TypeOK, FilesTypeOK, Refuse, Returns
<1>7. NoOvercommit'
  BY Lapses, NobodyStarts DEF LapseInv, Running, Live, TypeOK, FilesTypeOK, Refuse, Returns
<1>8. LossExplained'
  BY DEF LossExplained, LapseInv, Running, Live, TypeOK, FilesTypeOK, Refuse, Returns
<1>9. QED
  BY <1>1, <1>2, <1>3, <1>4, <1>5, <1>6, <1>7, <1>8

LEMMA AcquireStep ==
    ASSUME IInv,
           NEW h \in Holders,
           Acquire(h),
           NoteLapses
    PROVE  IInv'
<1> USE FilesAssumption, StoreLockAssumption DEF IInv
<1>1. TypeOK'
  BY Lapses DEF TypeOK, FilesTypeOK, Ops, Phases, Acquire, Publish, Scanned, Goto, Returns
<1>2. GateInv'
  <2>1. phase[h] = "trying"
    BY DEF Acquire, Publish, Scanned, OpInv
  <2>2. QED
    BY <2>1 DEF GateInv, Inside, Acquire, Goto, TypeOK
<1>3. OpInv'
  BY DEF OpInv, Waiting, TypeOK, FilesTypeOK, Acquire, Publish, Scanned, Goto, Returns
<1>4. SlowInv'
  BY DEF SlowInv, OpInv, Waiting, Running, TypeOK, FilesTypeOK, Acquire, Publish, Scanned, Goto, Returns
<1>5. LapseInv'
  <2> USE DEF Acquire, Publish, Scanned, Goto, Returns
  <2>1. phase[h] = "trying" /\ phase' = [phase EXCEPT ![h] = "held"] /\ lock'[h] = Ttl - age[h]
    BY DEF OpInv, TypeOK, FilesTypeOK
  <2>2. age[h] > 0 => h \in excused
    BY <2>1 DEF SlowInv
  <2>3. ~Live(h)' => age[h] > 0
    BY <2>1 DEF Live, TypeOK, FilesTypeOK
  <2>4. \A g \in Holders : Running(g)' /\ ~Live(g)' => g \in lapsed'
    BY Lapses
  <2>5. h \notin lapsed \/ h \in excused
    BY <2>1 DEF LapseInv, Running
  <2>6. ASSUME NEW g \in Holders, phase'[g] = "held", g \in lapsed' PROVE g \in excused'
    <3>1. CASE g = h
      BY <2>2, <2>3, <2>5, <2>6, <3>1, Lapses
    <3>2. CASE g # h
      <4>1. phase[g] = "held" /\ (Live(g)' <=> Live(g))
        BY <2>1, <2>6, <3>2 DEF Live, TypeOK, FilesTypeOK
      <4>2. g \in lapsed
        BY <2>6, <4>1, Lapses DEF LapseInv, Running
      <4>3. QED
        BY <4>1, <4>2 DEF LapseInv
    <3>3. QED
      BY <3>1, <3>2
  <2>7. ASSUME NEW g \in Holders, op'[g] = "clear"
        PROVE  phase'[stale'[g]] \notin {"queued", "trying"} /\ (phase'[stale'[g]] = "held" => stale'[g] \in lapsed')
    <3>1. g # h /\ op[g] = "clear" /\ stale'[g] = stale[g] /\ stale[g] \in Holders
      BY <2>7 DEF TypeOK, FilesTypeOK, OpInv
    <3>2. stale[g] # h
      BY <2>1, <3>1 DEF LapseInv, Waiting
    <3>3. QED
      BY <2>1, <3>1, <3>2, Lapses DEF LapseInv, Waiting, Running, TypeOK
  <2>8. QED
    BY <2>4, <2>6, <2>7, Lapses DEF LapseInv
<1>6. ScanInv'
  BY Lapses DEF ScanInv, LapseInv, OpInv, Running, Waiting, Live, TypeOK, FilesTypeOK, Acquire, Publish, Scanned, Goto, Returns
<1>7. NoOvercommit'
  <2> USE DEF Acquire, Publish, Scanned, Goto, Returns
  <2> SUFFICES ASSUME NEW S \in SUBSET {g \in Holders : Running(g)' /\ g \notin lapsed'},
                      \A g, k \in S : g \notin rivals'[k]
               PROVE  Cardinality(S) <= Limit
    BY DEF NoOvercommit
  <2>1. phase' = [phase EXCEPT ![h] = "held"] /\ op[h] = "scan"
    BY DEF TypeOK
  <2>2. \A g \in S \ {h} : Running(g) /\ g \notin lapsed
    BY <2>1, Lapses DEF Running, TypeOK
  <2>3. \A g, k \in S : g \notin rivals[k]
    BY DEF TypeOK
  <2>4. CASE h \notin S
    <3>1. S \in SUBSET {g \in Holders : Running(g) /\ g \notin lapsed}
      BY <2>2, <2>4
    <3>2. QED
      BY <2>3, <3>1 DEF NoOvercommit
  <2>5. CASE h \in S
    <3>1. S \ {h} \subseteq counted[h] \ {h}
      BY <2>1, <2>2, <2>3, <2>5 DEF ScanInv
    <3>2. IsFiniteSet(counted[h] \ {h}) /\ IsFiniteSet(S)
      BY FS_Subset DEF TypeOK, FilesTypeOK
    <3>3. Cardinality(S \ {h}) <= Cardinality(counted[h] \ {h})
      BY <3>1, <3>2, FS_Subset
    <3>4. Cardinality(S \ {h}) = Cardinality(S) - 1
      BY <2>5, <3>2, FS_RemoveElement
    <3>5. Cardinality(counted[h] \ {h}) + 1 <= Limit
      BY DEF Fits
    <3>6. Cardinality(S) \in Nat /\ Cardinality(counted[h] \ {h}) \in Nat
      BY <3>2, FS_CardinalityType
    <3>7. QED
      BY <3>3, <3>4, <3>5, <3>6
  <2>6. QED
    BY <2>4, <2>5
<1>8. LossExplained'
  BY DEF LossExplained, LapseInv, Running, Live, TypeOK, FilesTypeOK, Acquire, Publish, Scanned, Goto, Returns
<1>9. QED
  BY <1>1, <1>2, <1>3, <1>4, <1>5, <1>6, <1>7, <1>8

LEMMA AcquireFailsStep ==
    ASSUME IInv,
           NEW h \in Holders,
           AcquireFails(h),
           NoteLapses
    PROVE  IInv'
<1> USE FilesAssumption, StoreLockAssumption DEF IInv
<1>1. TypeOK'
  <2>1. FilesTypeOK'
    BY DEF TypeOK, FilesTypeOK, Ops, AcquireFails, Trouble, Returns, Goto, OpenGate, Forgets
  <2>2. gate' \in [Processes -> Holders \cup {NoHolder}] /\ phase' \in [Holders -> Phases]
    BY DEF TypeOK, Phases, AcquireFails, Trouble, Returns, Goto, OpenGate, Forgets
  <2>3. rivals' \in [Holders -> SUBSET Holders] /\ lapsed' \in SUBSET Holders
        /\ excused' \in SUBSET Holders /\ troubles' \in 0..MaxTroubles
    BY Lapses DEF TypeOK, AcquireFails, Trouble, Returns, Goto, OpenGate, Forgets
  <2>4. \A p \in Processes : gate'[p] # NoHolder =>
           ProcessOf[gate'[p]] = p /\ phase'[gate'[p]] \notin {"queued", "done", "dead"}
    BY DEF TypeOK, AcquireFails, Trouble, Returns, Goto, OpenGate, Forgets
  <2>5. QED
    BY <2>1, <2>2, <2>3, <2>4 DEF TypeOK
<1>2. GateInv'
  BY DEF GateInv, Inside, TypeOK, FilesTypeOK, AcquireFails, Trouble, Returns, Goto, OpenGate, Forgets
<1>3. OpInv'
  BY DEF OpInv, Waiting, TypeOK, FilesTypeOK, AcquireFails, Trouble, Returns, Goto, OpenGate, Forgets
<1>4. SlowInv'
  BY DEF SlowInv, OpInv, Waiting, Running, TypeOK, FilesTypeOK, AcquireFails, Trouble, Returns, Goto, OpenGate, Forgets
<1>5. LapseInv'
  BY Lapses DEF LapseInv, OpInv, Running, Waiting, Live, TypeOK, FilesTypeOK, AcquireFails, Trouble, Returns, Goto, OpenGate, Forgets
<1>6. ScanInv'
  BY Lapses DEF ScanInv, LapseInv, OpInv, Running, Waiting, Live, TypeOK, FilesTypeOK, AcquireFails, Trouble, Returns, Goto, OpenGate, Forgets
<1>7. NoOvercommit'
  BY Lapses, NobodyStarts DEF LapseInv, Running, Live, TypeOK, FilesTypeOK, AcquireFails, Trouble, Returns, Goto, OpenGate, Forgets
<1>8. LossExplained'
  BY DEF LossExplained, LapseInv, Running, Live, TypeOK, FilesTypeOK, AcquireFails, Trouble, Returns, Goto, OpenGate, Forgets
<1>9. QED
  BY <1>1, <1>2, <1>3, <1>4, <1>5, <1>6, <1>7, <1>8

LEMMA RefreshStep ==
    ASSUME IInv,
           NEW h \in Holders,
           Refresh(h),
           NoteLapses
    PROVE  IInv'
<1> USE FilesAssumption, StoreLockAssumption DEF IInv
<1>1. TypeOK'
  BY Lapses DEF TypeOK, FilesTypeOK, Ops, Phases, Refresh, ReadOwn, MissOwn, Find, Goto, scanVars
<1>2. GateInv'
  BY DEF GateInv, Inside, TypeOK, FilesTypeOK, Refresh, ReadOwn, MissOwn, Find, Goto, scanVars
<1>3. OpInv'
  BY DEF OpInv, Waiting, TypeOK, FilesTypeOK, Refresh, ReadOwn, MissOwn, Find, Goto, scanVars
<1>4. SlowInv'
  BY DEF SlowInv, OpInv, Waiting, Running, TypeOK, FilesTypeOK, Refresh, ReadOwn, MissOwn, Find, Goto, scanVars
<1>5. LapseInv'
  BY Lapses DEF LapseInv, OpInv, Running, Waiting, Live, TypeOK, FilesTypeOK, Refresh, ReadOwn, MissOwn, Find, Goto, scanVars
<1>6. ScanInv'
  BY Lapses DEF ScanInv, LapseInv, OpInv, Running, Waiting, Live, TypeOK, FilesTypeOK, Refresh, ReadOwn, MissOwn, Find, Goto, scanVars
<1>7. NoOvercommit'
  BY Lapses, NobodyStarts DEF LapseInv, Running, Live, TypeOK, FilesTypeOK, Refresh, ReadOwn, MissOwn, Find, Goto, scanVars
<1>8. LossExplained'
  BY DEF LossExplained, LapseInv, Running, Live, TypeOK, FilesTypeOK, Refresh, ReadOwn, MissOwn, Find, Goto, scanVars
<1>9. QED
  BY <1>1, <1>2, <1>3, <1>4, <1>5, <1>6, <1>7, <1>8

LEMMA RenewStep ==
    ASSUME IInv,
           NEW h \in Holders,
           Renew(h),
           NoteLapses
    PROVE  IInv'
<1> USE FilesAssumption, StoreLockAssumption DEF IInv
<1>1. TypeOK'
  BY Lapses DEF TypeOK, FilesTypeOK, Ops, Phases, Renew, WriteOwn, Returns
<1>2. GateInv'
  BY DEF GateInv, Inside, TypeOK, FilesTypeOK, Renew, WriteOwn, Returns
<1>3. OpInv'
  BY DEF OpInv, Waiting, TypeOK, FilesTypeOK, Renew, WriteOwn, Returns
<1>4. SlowInv'
  BY DEF SlowInv, OpInv, Waiting, Running, TypeOK, FilesTypeOK, Renew, WriteOwn, Returns
<1>5. LapseInv'
  <2> USE DEF Renew, WriteOwn, Returns
  <2>1. \A g \in Holders : Running(g)' /\ ~Live(g)' => g \in lapsed'
    BY Lapses
  <2>2. \A g \in Holders : g # h => (Live(g)' <=> Live(g))
    BY DEF Live, TypeOK, FilesTypeOK
  <2>3. Running(h) /\ ~Live(h)' => h \in excused
    <3>1. lock'[h] = Ttl - age[h] /\ op[h] = "write"
      BY DEF TypeOK, FilesTypeOK
    <3>2. ~Live(h)' => age[h] > 0
      BY <3>1 DEF Live, TypeOK, FilesTypeOK
    <3>3. QED
      BY <3>1, <3>2 DEF SlowInv
  <2>4. ASSUME NEW g \in Holders, phase'[g] = "held", g \in lapsed' PROVE g \in excused'
    <3>1. Running(g) /\ phase[g] = "held"
      BY <2>4 DEF Running
    <3>2. CASE g \in lapsed
      BY <3>1, <3>2 DEF LapseInv
    <3>3. CASE g \notin lapsed
      BY <2>2, <2>3, <2>4, <3>1, <3>3, Lapses DEF LapseInv
    <3>4. QED
      BY <3>2, <3>3
  <2>5. ASSUME NEW g \in Holders, op'[g] = "clear"
        PROVE  phase'[stale'[g]] \notin {"queued", "trying"} /\ (phase'[stale'[g]] = "held" => stale'[g] \in lapsed')
    <3>1. op[g] = "clear" /\ stale'[g] = stale[g] /\ stale[g] \in Holders
      BY <2>5 DEF TypeOK, FilesTypeOK, OpInv
    <3>2. QED
      BY <3>1, Lapses DEF LapseInv, Waiting, Running
  <2>6. QED
    BY <2>1, <2>4, <2>5, Lapses DEF LapseInv
<1>6. ScanInv'
  BY Lapses DEF ScanInv, LapseInv, OpInv, Running, Waiting, Live, TypeOK, FilesTypeOK, Renew, WriteOwn, Returns
<1>7. NoOvercommit'
  BY Lapses, NobodyStarts DEF LapseInv, Running, Live, TypeOK, FilesTypeOK, Renew, WriteOwn, Returns
<1>8. LossExplained'
  BY DEF LossExplained, LapseInv, Running, Live, TypeOK, FilesTypeOK, Renew, WriteOwn, Returns
<1>9. QED
  BY <1>1, <1>2, <1>3, <1>4, <1>5, <1>6, <1>7, <1>8

LEMMA RefreshFailsStep ==
    ASSUME IInv,
           NEW h \in Holders,
           RefreshFails(h),
           NoteLapses
    PROVE  IInv'
<1> USE FilesAssumption, StoreLockAssumption DEF IInv
<1>1. TypeOK'
  BY Lapses DEF TypeOK, FilesTypeOK, Ops, Phases, RefreshFails, Trouble, Returns, Goto
<1>2. GateInv'
  BY DEF GateInv, Inside, TypeOK, FilesTypeOK, RefreshFails, Trouble, Returns, Goto
<1>3. OpInv'
  BY DEF OpInv, Waiting, TypeOK, FilesTypeOK, RefreshFails, Trouble, Returns, Goto
<1>4. SlowInv'
  BY DEF SlowInv, OpInv, Waiting, Running, TypeOK, FilesTypeOK, RefreshFails, Trouble, Returns, Goto
<1>5. LapseInv'
  BY Lapses DEF LapseInv, OpInv, Running, Waiting, Live, TypeOK, FilesTypeOK, RefreshFails, Trouble, Returns, Goto
<1>6. ScanInv'
  BY Lapses DEF ScanInv, LapseInv, OpInv, Running, Waiting, Live, TypeOK, FilesTypeOK, RefreshFails, Trouble, Returns, Goto
<1>7. NoOvercommit'
  BY Lapses, NobodyStarts DEF LapseInv, Running, Live, TypeOK, FilesTypeOK, RefreshFails, Trouble, Returns, Goto
<1>8. LossExplained'
  BY DEF LossExplained, LapseInv, Running, Live, TypeOK, FilesTypeOK, RefreshFails, Trouble, Returns, Goto
<1>9. QED
  BY <1>1, <1>2, <1>3, <1>4, <1>5, <1>6, <1>7, <1>8

LEMMA EndEffectStep ==
    ASSUME IInv,
           NEW h \in Holders,
           EndEffect(h),
           NoteLapses
    PROVE  IInv'
<1> USE FilesAssumption, StoreLockAssumption DEF IInv
<1>1. TypeOK'
  <2>1. FilesTypeOK'
    BY DEF TypeOK, FilesTypeOK, Ops, EndEffect, InterruptsRefresh, Returns, Goto, Forgets, scanVars
  <2>2. gate' \in [Processes -> Holders \cup {NoHolder}] /\ phase' \in [Holders -> Phases]
    BY DEF TypeOK, Phases, EndEffect, InterruptsRefresh, Returns, Goto, Forgets, scanVars
  <2>3. rivals' \in [Holders -> SUBSET Holders] /\ lapsed' \in SUBSET Holders
        /\ excused' \in SUBSET Holders /\ troubles' \in 0..MaxTroubles
    BY Lapses DEF TypeOK, EndEffect, InterruptsRefresh, Returns, Goto, Forgets, scanVars
  <2>4. \A p \in Processes : gate'[p] # NoHolder =>
           ProcessOf[gate'[p]] = p /\ phase'[gate'[p]] \notin {"queued", "done", "dead"}
    BY DEF TypeOK, EndEffect, InterruptsRefresh, Returns, Goto, Forgets, scanVars
  <2>5. QED
    BY <2>1, <2>2, <2>3, <2>4 DEF TypeOK
<1>2. GateInv'
  BY DEF GateInv, Inside, Running, TypeOK, EndEffect, Goto
<1>3. OpInv'
  BY DEF OpInv, Waiting, Running, TypeOK, FilesTypeOK, EndEffect, InterruptsRefresh, Returns, Goto, Forgets, scanVars
<1>4. SlowInv'
  BY DEF SlowInv, OpInv, Waiting, Running, TypeOK, FilesTypeOK, EndEffect, InterruptsRefresh, Returns, Goto, Forgets, scanVars
<1>5. LapseInv'
  BY Lapses DEF LapseInv, OpInv, Running, Waiting, Live, TypeOK, FilesTypeOK, EndEffect, InterruptsRefresh, Returns, Goto, Forgets, scanVars
<1>6. ScanInv'
  BY Lapses DEF ScanInv, LapseInv, OpInv, Running, Waiting, Live, TypeOK, FilesTypeOK, EndEffect, InterruptsRefresh, Returns, Goto, Forgets, scanVars
<1>7. NoOvercommit'
  BY Lapses, NobodyStarts DEF LapseInv, Running, Live, TypeOK, FilesTypeOK, EndEffect, InterruptsRefresh, Returns, Goto, Forgets, scanVars
<1>8. LossExplained'
  BY DEF LossExplained, LapseInv, Running, Live, TypeOK, FilesTypeOK, EndEffect, InterruptsRefresh, Returns, Goto, Forgets, scanVars
<1>9. QED
  BY <1>1, <1>2, <1>3, <1>4, <1>5, <1>6, <1>7, <1>8

LEMMA ReleaseStep ==
    ASSUME IInv,
           NEW h \in Holders,
           Release(h),
           NoteLapses
    PROVE  IInv'
<1> USE FilesAssumption, StoreLockAssumption DEF IInv
<1>1. TypeOK'
  BY Lapses DEF TypeOK, FilesTypeOK, Ops, Phases, Release, RemoveFile, Goto, OpenGate, scanVars
<1>2. GateInv'
  BY DEF GateInv, Inside, TypeOK, FilesTypeOK, Release, RemoveFile, Goto, OpenGate, scanVars
<1>3. OpInv'
  BY DEF OpInv, Waiting, TypeOK, FilesTypeOK, Release, RemoveFile, Goto, OpenGate, scanVars
<1>4. SlowInv'
  BY DEF SlowInv, OpInv, Waiting, Running, TypeOK, FilesTypeOK, Release, RemoveFile, Goto, OpenGate, scanVars
<1>5. LapseInv'
  BY Lapses DEF LapseInv, OpInv, Running, Waiting, Live, TypeOK, FilesTypeOK, Release, RemoveFile, Goto, OpenGate, scanVars
<1>6. ScanInv'
  BY Lapses DEF ScanInv, LapseInv, OpInv, Running, Waiting, Live, TypeOK, FilesTypeOK, Release, RemoveFile, Goto, OpenGate, scanVars
<1>7. NoOvercommit'
  BY Lapses, NobodyStarts DEF LapseInv, Running, Live, TypeOK, FilesTypeOK, Release, RemoveFile, Goto, OpenGate, scanVars
<1>8. LossExplained'
  BY DEF LossExplained, LapseInv, Running, Live, TypeOK, FilesTypeOK, Release, RemoveFile, Goto, OpenGate, scanVars
<1>9. QED
  BY <1>1, <1>2, <1>3, <1>4, <1>5, <1>6, <1>7, <1>8

LEMMA ReleaseFailsStep ==
    ASSUME IInv,
           NEW h \in Holders,
           ReleaseFails(h),
           NoteLapses
    PROVE  IInv'
<1> USE FilesAssumption, StoreLockAssumption DEF IInv
<1>1. TypeOK'
  <2>1. FilesTypeOK'
    BY DEF TypeOK, FilesTypeOK, Ops, ReleaseFails, Trouble, Goto, OpenGate, files, scanVars
  <2>2. gate' \in [Processes -> Holders \cup {NoHolder}] /\ phase' \in [Holders -> Phases]
    BY DEF TypeOK, Phases, ReleaseFails, Trouble, Goto, OpenGate, files, scanVars
  <2>3. rivals' \in [Holders -> SUBSET Holders] /\ lapsed' \in SUBSET Holders
        /\ excused' \in SUBSET Holders /\ troubles' \in 0..MaxTroubles
    BY Lapses DEF TypeOK, ReleaseFails, Trouble, Goto, OpenGate, files, scanVars
  <2>4. \A p \in Processes : gate'[p] # NoHolder =>
           ProcessOf[gate'[p]] = p /\ phase'[gate'[p]] \notin {"queued", "done", "dead"}
    BY DEF TypeOK, ReleaseFails, Trouble, Goto, OpenGate, files, scanVars
  <2>5. QED
    BY <2>1, <2>2, <2>3, <2>4 DEF TypeOK
<1>2. GateInv'
  BY DEF GateInv, Inside, TypeOK, FilesTypeOK, ReleaseFails, Trouble, Goto, OpenGate, files, scanVars
<1>3. OpInv'
  BY DEF OpInv, Waiting, TypeOK, FilesTypeOK, ReleaseFails, Trouble, Goto, OpenGate, files, scanVars
<1>4. SlowInv'
  BY DEF SlowInv, OpInv, Waiting, Running, TypeOK, FilesTypeOK, ReleaseFails, Trouble, Goto, OpenGate, files, scanVars
<1>5. LapseInv'
  BY Lapses DEF LapseInv, OpInv, Running, Waiting, Live, TypeOK, FilesTypeOK, ReleaseFails, Trouble, Goto, OpenGate, files, scanVars
<1>6. ScanInv'
  BY Lapses DEF ScanInv, LapseInv, OpInv, Running, Waiting, Live, TypeOK, FilesTypeOK, ReleaseFails, Trouble, Goto, OpenGate, files, scanVars
<1>7. NoOvercommit'
  BY Lapses, NobodyStarts DEF LapseInv, Running, Live, TypeOK, FilesTypeOK, ReleaseFails, Trouble, Goto, OpenGate, files, scanVars
<1>8. LossExplained'
  BY DEF LossExplained, LapseInv, Running, Live, TypeOK, FilesTypeOK, ReleaseFails, Trouble, Goto, OpenGate, files, scanVars
<1>9. QED
  BY <1>1, <1>2, <1>3, <1>4, <1>5, <1>6, <1>7, <1>8

LEMMA InterruptStep ==
    ASSUME IInv,
           NEW h \in Holders,
           Interrupt(h),
           NoteLapses
    PROVE  IInv'
<1> USE FilesAssumption, StoreLockAssumption DEF IInv
<1>1. TypeOK'
  <2>1. FilesTypeOK'
    <3>1. CASE Returns(h, "none")
      BY <3>1 DEF TypeOK, FilesTypeOK, Ops, Interrupt, Returns
    <3>2. CASE IssueRename(h)
      BY <3>2 DEF TypeOK, FilesTypeOK, Ops, Interrupt, IssueRename
    <3>3. QED
      BY <3>1, <3>2 DEF Interrupt
  <2>2. gate' \in [Processes -> Holders \cup {NoHolder}] /\ phase' \in [Holders -> Phases]
    BY DEF TypeOK, Phases, Interrupt, Goto, OpenGate
  <2>3. rivals' \in [Holders -> SUBSET Holders] /\ lapsed' \in SUBSET Holders
        /\ excused' \in SUBSET Holders /\ troubles' \in 0..MaxTroubles
    BY Lapses DEF TypeOK, Interrupt, Trouble, Forgets
  <2>4. ASSUME NEW p \in Processes, gate'[p] # NoHolder
        PROVE  ProcessOf[gate'[p]] = p /\ phase'[gate'[p]] \notin {"queued", "done", "dead"}
    <3>1. gate'[p] = gate[p] /\ gate[p] # NoHolder
      BY <2>4 DEF TypeOK, Interrupt, OpenGate
    <3>2. gate[p] # h
      <4>1. CASE phase[h] = "queued"
        BY <3>1, <4>1 DEF TypeOK
      <4>2. CASE phase[h] = "trying"
        BY <2>4, <3>1, <4>2 DEF TypeOK, Interrupt, OpenGate
      <4>3. QED
        BY <4>1, <4>2 DEF Interrupt
    <3>3. QED
      BY <3>1, <3>2 DEF TypeOK, Interrupt, Goto
  <2>5. QED
    BY <2>1, <2>2, <2>3, <2>4 DEF TypeOK
<1>2. GateInv'
  <2> SUFFICES ASSUME NEW g \in Holders, Inside(g)'
               PROVE  gate'[ProcessOf[g]] = g
    BY DEF GateInv
  <2> USE DEF Interrupt, Goto, Inside, TypeOK
  <2>1. g # h /\ gate[ProcessOf[g]] = g
    BY DEF GateInv
  <2>2. phase[h] = "trying" => ProcessOf[g] # ProcessOf[h]
    BY <2>1 DEF GateInv
  <2>3. CASE phase[h] = "trying"
    <3>1. gate' = [gate EXCEPT ![ProcessOf[h]] = NoHolder]
      BY <2>3 DEF OpenGate
    <3>2. QED
      BY <2>1, <2>2, <2>3, <3>1
  <2>4. CASE phase[h] # "trying"
    BY <2>1, <2>4
  <2>5. QED
    BY <2>3, <2>4
<1>3. OpInv'
  BY DEF OpInv, Waiting, TypeOK, FilesTypeOK, Interrupt, Trouble, Returns, IssueRename, Scanned, Goto, OpenGate, Forgets
<1>4. SlowInv'
  BY DEF SlowInv, OpInv, Waiting, Running, TypeOK, FilesTypeOK, Interrupt, Trouble, Returns, IssueRename, Scanned, Goto, OpenGate, Forgets
<1>5. LapseInv'
  BY Lapses DEF LapseInv, OpInv, Running, Waiting, Live, TypeOK, FilesTypeOK, Interrupt, Trouble, Returns, IssueRename, Scanned, Goto, OpenGate, Forgets
<1>6. ScanInv'
  BY Lapses DEF ScanInv, LapseInv, OpInv, Running, Waiting, Live, TypeOK, FilesTypeOK, Interrupt, Trouble, Returns, IssueRename, Scanned, Goto, OpenGate, Forgets
<1>7. NoOvercommit'
  BY Lapses, NobodyStarts DEF LapseInv, Running, Live, TypeOK, FilesTypeOK, Interrupt, Trouble, Returns, IssueRename, Scanned, Goto, OpenGate, Forgets
<1>8. LossExplained'
  BY DEF LossExplained, LapseInv, Running, Live, TypeOK, FilesTypeOK, Interrupt, Trouble, Returns, IssueRename, Scanned, Goto, OpenGate, Forgets
<1>9. QED
  BY <1>1, <1>2, <1>3, <1>4, <1>5, <1>6, <1>7, <1>8

LEMMA ForceRevokeStep ==
    ASSUME IInv,
           NEW h \in Holders,
           ForceRevoke(h),
           NoteLapses
    PROVE  IInv'
<1> USE FilesAssumption, StoreLockAssumption DEF IInv
<1>1. TypeOK'
  BY Lapses DEF TypeOK, FilesTypeOK, Ops, Phases, ForceRevoke, Trouble, RemoveFile, scanVars
<1>2. GateInv'
  BY DEF GateInv, Inside, TypeOK, FilesTypeOK, ForceRevoke, Trouble, RemoveFile, scanVars
<1>3. OpInv'
  BY DEF OpInv, Waiting, TypeOK, FilesTypeOK, ForceRevoke, Trouble, RemoveFile, scanVars
<1>4. SlowInv'
  BY DEF SlowInv, OpInv, Waiting, Running, TypeOK, FilesTypeOK, ForceRevoke, Trouble, RemoveFile, scanVars
<1>5. LapseInv'
  BY Lapses DEF LapseInv, OpInv, Running, Waiting, Live, TypeOK, FilesTypeOK, ForceRevoke, Trouble, RemoveFile, scanVars
<1>6. ScanInv'
  BY Lapses DEF ScanInv, LapseInv, OpInv, Running, Waiting, Live, TypeOK, FilesTypeOK, ForceRevoke, Trouble, RemoveFile, scanVars
<1>7. NoOvercommit'
  BY Lapses, NobodyStarts DEF LapseInv, Running, Live, TypeOK, FilesTypeOK, ForceRevoke, Trouble, RemoveFile, scanVars
<1>8. LossExplained'
  BY DEF LossExplained, LapseInv, Running, Live, TypeOK, FilesTypeOK, ForceRevoke, Trouble, RemoveFile, scanVars
<1>9. QED
  BY <1>1, <1>2, <1>3, <1>4, <1>5, <1>6, <1>7, <1>8

LEMMA CrashStep ==
    ASSUME IInv,
           NEW p \in Processes,
           Crash(p),
           NoteLapses
    PROVE  IInv'
<1> USE FilesAssumption, StoreLockAssumption DEF IInv
<1>1. TypeOK'
  BY Lapses DEF TypeOK, FilesTypeOK, Ops, Phases, Crash, Trouble, Ended
<1>2. GateInv'
  BY DEF GateInv, Inside, TypeOK, FilesTypeOK, Crash, Trouble, Ended
<1>3. OpInv'
  BY DEF OpInv, Waiting, TypeOK, FilesTypeOK, Crash, Trouble, Ended
<1>4. SlowInv'
  BY DEF SlowInv, OpInv, Waiting, Running, TypeOK, FilesTypeOK, Crash, Trouble, Ended
<1>5. LapseInv'
  BY Lapses DEF LapseInv, OpInv, Running, Waiting, Live, TypeOK, FilesTypeOK, Crash, Trouble, Ended
<1>6. ScanInv'
  BY Lapses DEF ScanInv, LapseInv, OpInv, Running, Waiting, Live, TypeOK, FilesTypeOK, Crash, Trouble, Ended
<1>7. NoOvercommit'
  BY Lapses, NobodyStarts DEF LapseInv, Running, Live, TypeOK, FilesTypeOK, Crash, Trouble, Ended
<1>8. LossExplained'
  BY DEF LossExplained, LapseInv, Running, Live, TypeOK, FilesTypeOK, Crash, Trouble, Ended
<1>9. QED
  BY <1>1, <1>2, <1>3, <1>4, <1>5, <1>6, <1>7, <1>8

LEMMA TickStep ==
    ASSUME IInv,
           Tick,
           NoteLapses
    PROVE  IInv'
<1> USE FilesAssumption, StoreLockAssumption DEF IInv
<1>1. TypeOK'
  BY Lapses DEF TypeOK, FilesTypeOK, Ops, Phases, Tick, PassTime, Slow, scanVars
<1>2. GateInv'
  BY DEF GateInv, Inside, TypeOK, FilesTypeOK, Tick, PassTime, Slow, scanVars
<1>3. OpInv'
  BY DEF OpInv, Waiting, TypeOK, FilesTypeOK, Tick, PassTime, Slow, scanVars
<1>4. SlowInv'
  BY DEF SlowInv, OpInv, Waiting, Running, TypeOK, FilesTypeOK, Tick, PassTime, Slow, scanVars
<1>5. LapseInv'
  BY Lapses DEF LapseInv, OpInv, Running, Waiting, Live, TypeOK, FilesTypeOK, Tick, PassTime, Slow, scanVars
<1>6. ScanInv'
  BY Lapses DEF ScanInv, LapseInv, OpInv, Running, Waiting, Live, TypeOK, FilesTypeOK, Tick, PassTime, Slow, scanVars
<1>7. NoOvercommit'
  BY Lapses, NobodyStarts DEF LapseInv, Running, Live, TypeOK, FilesTypeOK, Tick, PassTime, Slow, scanVars
<1>8. LossExplained'
  BY DEF LossExplained, LapseInv, Running, Live, TypeOK, FilesTypeOK, Tick, PassTime, Slow, scanVars
<1>9. QED
  BY <1>1, <1>2, <1>3, <1>4, <1>5, <1>6, <1>7, <1>8

LEMMA StutterStep == IInv /\ UNCHANGED vars => IInv'
<1> SUFFICES ASSUME IInv, UNCHANGED vars PROVE IInv'
  OBVIOUS
<1> USE DEF IInv, vars, files, scanVars
<1>1. TypeOK'
  BY DEF TypeOK, FilesTypeOK
<1>2. GateInv' /\ OpInv' /\ SlowInv'
  BY DEF GateInv, Inside, OpInv, SlowInv, Waiting, Running
<1>3. LapseInv' /\ ScanInv'
  BY DEF LapseInv, ScanInv, Running, Live
<1>4. NoOvercommit' /\ LossExplained'
  BY DEF NoOvercommit, LossExplained, Running
<1>5. QED
  BY <1>1, <1>2, <1>3, <1>4

LEMMA InitInv == Init => IInv
<1> SUFFICES ASSUME Init PROVE IInv
  OBVIOUS
<1> USE FilesAssumption, StoreLockAssumption DEF Init, FilesInit
<1>1. TypeOK
  BY DEF TypeOK, FilesTypeOK, Ops, Phases
<1>2. GateInv /\ OpInv /\ SlowInv /\ LossExplained
  BY DEF GateInv, Inside, OpInv, SlowInv, Waiting, Running, LossExplained
<1>3. LapseInv /\ ScanInv
  BY DEF LapseInv, ScanInv, Running
<1>4. NoOvercommit
  <2>1. {h \in Holders : Running(h) /\ h \notin lapsed} = {}
    BY DEF Running
  <2>2. QED
    BY <2>1, FS_EmptySet DEF NoOvercommit
<1>5. QED
  BY <1>1, <1>2, <1>3, <1>4 DEF IInv

LEMMA NextStep == IInv /\ [Next]_vars => IInv'
<1> SUFFICES ASSUME IInv, Next PROVE IInv'
  BY StutterStep
<1>1. NoteLapses
  BY DEF Next
<1>2. ASSUME NEW h \in Holders, EnterGate(h) \/ Attempt(h) \/ Scan(h) \/ Acquire(h) \/ AcquireFails(h)
      PROVE  IInv'
  BY <1>1, <1>2, EnterGateStep, AttemptStep, ReadFileStep, ClearStaleStep, RefuseStep,
     AcquireStep, AcquireFailsStep DEF Scan
<1>3. ASSUME NEW h \in Holders, Refresh(h) \/ Renew(h) \/ RefreshFails(h) \/ EndEffect(h)
      PROVE  IInv'
  BY <1>1, <1>3, RefreshStep, RenewStep, RefreshFailsStep, EndEffectStep
<1>4. ASSUME NEW h \in Holders,
             Release(h) \/ ReleaseFails(h) \/ Interrupt(h) \/ ForceRevoke(h)
      PROVE  IInv'
  BY <1>1, <1>4, ReleaseStep, ReleaseFailsStep, InterruptStep, ForceRevokeStep
<1>5. ASSUME NEW p \in Processes, Crash(p) PROVE IInv'
  BY <1>1, <1>5, CrashStep
<1>6. ASSUME Tick PROVE IInv'
  BY <1>1, <1>6, TickStep
<1>7. QED
  BY <1>2, <1>3, <1>4, <1>5, <1>6 DEF Next

THEOREM Invariance == Spec => []IInv
<1>1. IInv /\ [Next]_vars => IInv'
  BY NextStep
<1>2. QED
  BY InitInv, <1>1, PTL DEF Spec

----------------------------------------------------------------------------
(* What it implies *)

\* The lock files and the histories keep their types, and a gate is only ever held
\* by a call of its process that is past it and not over.
THEOREM TypeCorrect == Spec => []TypeOK
<1>1. IInv => TypeOK
  BY DEF IInv
<1>2. QED
  BY <1>1, Invariance, PTL

\* In one process the protected effect runs once at a time, whatever happens to the
\* lock files: what store-lock.ts calls its primary correctness mechanism.
THEOREM GateExclusion == Spec => []GateExcludes
<1>1. IInv => GateExcludes
  <2> SUFFICES ASSUME IInv, NEW g \in Holders, NEW h \in Holders,
                      Running(g), Running(h), ProcessOf[g] = ProcessOf[h]
               PROVE  g = h
    BY DEF GateExcludes
  <2>1. gate[ProcessOf[g]] = g /\ gate[ProcessOf[h]] = h
    BY DEF IInv, GateInv, Inside, Running
  <2>2. QED
    BY <2>1
<1>2. QED
  BY <1>1, Invariance, PTL

\* Across processes no set of holders without lapses and races exceeds the limit.
THEOREM LimitKept == Spec => []NoOvercommit
<1>1. IInv => NoOvercommit
  BY DEF IInv
<1>2. QED
  BY <1>1, Invariance, PTL

\* keepAlive raises LockLostError only on a holder that was revoked or slow.
THEOREM NoFalseLoss == Spec => []LossExplained
<1>1. IInv => LossExplained
  BY DEF IInv
<1>2. QED
  BY <1>1, Invariance, PTL

=============================================================================
