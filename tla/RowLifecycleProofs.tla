------------------------- MODULE RowLifecycleProofs -------------------------
(***************************************************************************)
(* Theorems about RowLifecycle, for any number of processes that pull and  *)
(* resolve, any contents, any number of intents and any bounds.            *)
(***************************************************************************)
EXTENDS RowLifecycle, TLAPS

----------------------------------------------------------------------------
(* The inductive invariant *)

\* What an absent page was seen as, what a comparison left on record, and that
\* only conflicts are resolved.
JobInv ==
    \A p \in Processes :
        /\ job[p].at \in {"candidate", "compare", "record"} /\ job[p].saw.via = "in-trash"
              => job[p].saw.life = "trashed"
        /\ job[p].at = "candidate" => job[p].saw.via # "query"
        /\ job[p].at = "compare" => job[p].saw.via \in {"query", "in-trash"}
        /\ job[p].at = "record" =>
              \/ job[p].agreed \in {"none", job[p].saw.life}
              \/ conflict[job[p].saw.life] # "none"
        /\ job[p].at = "decided" => conflict[job[p].about] # "none"

IInv == TypeOK /\ JobInv /\ ContradictionsAreRecorded /\ ResolvingIsReasserted

----------------------------------------------------------------------------
(* Facts several steps use *)

\* What a process is at says what it has read.
LEMMA JobFields ==
    ASSUME TypeOK, NEW p \in Processes
    PROVE  /\ job[p].at \in {"idle", "listed", "absent", "candidate", "compare", "record",
                             "decided", "reassert"}
           /\ job[p].at \in {"candidate", "compare"} =>
                 job[p] = [at |-> job[p].at, saw |-> job[p].saw] /\ job[p].saw \in Sightings
           /\ job[p].at = "record" =>
                 /\ job[p].saw \in Sightings
                 /\ job[p].agreed \in Life \cup {"none"}
           /\ job[p].at = "decided" => job[p].about \in Life /\ job[p].how \in Choices
           /\ job[p].at = "reassert" => job[p].about \in Life
<1>1. job[p] \in Jobs
  BY DEF TypeOK
<1>2. QED
  BY <1>1 DEF Jobs, Idle

\* A step after which a process is at another job of the right type.
LEMMA JobTypes ==
    ASSUME TypeOK, NEW p \in Processes, NEW j \in Jobs, Do(p, j)
    PROVE  /\ job' \in [Processes -> Jobs]
           /\ job'[p] = j
           /\ \A q \in Processes \ {p} : job'[q] = job[q]
BY DEF TypeOK, Do

\* What JobInv says of a process goes on being so while no conflict is forgotten.
LEMMA ConflictsStayRaised ==
    ASSUME TypeOK, JobInv, NEW q \in Processes,
           \A r \in Life : conflict[r] # "none" => conflict'[r] # "none"
    PROVE  /\ job[q].at \in {"candidate", "compare", "record"}
                 /\ job[q].saw.via = "in-trash" => job[q].saw.life = "trashed"
           /\ job[q].at = "candidate" => job[q].saw.via # "query"
           /\ job[q].at = "compare" => job[q].saw.via \in {"query", "in-trash"}
           /\ job[q].at = "record" =>
                 \/ job[q].agreed \in {"none", job[q].saw.life}
                 \/ conflict'[job[q].saw.life] # "none"
           /\ job[q].at = "decided" => conflict'[job[q].about] # "none"
<1>1. /\ job[q].at \in {"candidate", "compare", "record"}
            /\ job[q].saw.via = "in-trash" => job[q].saw.life = "trashed"
      /\ job[q].at = "candidate" => job[q].saw.via # "query"
      /\ job[q].at = "compare" => job[q].saw.via \in {"query", "in-trash"}
  BY DEF JobInv
<1>2. ASSUME job[q].at = "record"
      PROVE  job[q].agreed \in {"none", job[q].saw.life} \/ conflict'[job[q].saw.life] # "none"
  <2>1. job[q].saw.life \in Life
    BY <1>2, JobFields DEF Sightings
  <2>2. job[q].agreed \in {"none", job[q].saw.life} \/ conflict[job[q].saw.life] # "none"
    BY <1>2 DEF JobInv
  <2>3. QED
    BY <2>1, <2>2
<1>3. ASSUME job[q].at = "decided" PROVE conflict'[job[q].about] # "none"
  <2>1. job[q].about \in Life
    BY <1>3, JobFields
  <2>2. conflict[job[q].about] # "none"
    BY <1>3 DEF JobInv
  <2>3. QED
    BY <2>1, <2>2
<1>4. QED
  BY <1>1, <1>2, <1>3

\* Conflicts are never forgotten: a process that goes idle leaves JobInv as it is.
LEMMA JobEnds ==
    ASSUME TypeOK, JobInv, NEW p \in Processes, Do(p, Idle),
           \A r \in Life : conflict[r] # "none" => conflict'[r] # "none"
    PROVE  JobInv'
<1>1. Idle \in Jobs
  BY DEF Jobs
<1>2. \A q \in Processes : job'[q] = job[q] \/ job'[q] = Idle
  BY <1>1, JobTypes
<1>3. SUFFICES ASSUME NEW q \in Processes
               PROVE  /\ job'[q].at \in {"candidate", "compare", "record"}
                         /\ job'[q].saw.via = "in-trash" => job'[q].saw.life = "trashed"
                      /\ job'[q].at = "candidate" => job'[q].saw.via # "query"
                      /\ job'[q].at = "compare" => job'[q].saw.via \in {"query", "in-trash"}
                      /\ job'[q].at = "record" =>
                            \/ job'[q].agreed \in {"none", job'[q].saw.life}
                            \/ conflict'[job'[q].saw.life] # "none"
                      /\ job'[q].at = "decided" => conflict'[job'[q].about] # "none"
  BY DEF JobInv
<1>4. CASE job'[q] = Idle
  BY <1>4 DEF Idle
<1>5. CASE job'[q] = job[q]
  BY <1>5, ConflictsStayRaised
<1>6. QED
  BY <1>2, <1>4, <1>5

\* So does a step that leaves every process where it is.
LEMMA JobsStay ==
    ASSUME TypeOK, JobInv, job' = job,
           \A r \in Life : conflict[r] # "none" => conflict'[r] # "none"
    PROVE  JobInv'
<1>1. SUFFICES ASSUME NEW q \in Processes
               PROVE  /\ job[q].at \in {"candidate", "compare", "record"}
                         /\ job[q].saw.via = "in-trash" => job[q].saw.life = "trashed"
                      /\ job[q].at = "candidate" => job[q].saw.via # "query"
                      /\ job[q].at = "compare" => job[q].saw.via \in {"query", "in-trash"}
                      /\ job[q].at = "record" =>
                            \/ job[q].agreed \in {"none", job[q].saw.life}
                            \/ conflict'[job[q].saw.life] # "none"
                      /\ job[q].at = "decided" => conflict'[job[q].about] # "none"
  BY DEF JobInv
<1>2. QED
  BY ConflictsStayRaised

\* A conflict waits for its re-assertion after a step if it did before, and the
\* step neither ended the process about to append it nor took it from the outbox.
LEMMA StillReasserted ==
    ASSUME TypeOK, ResolvingIsReasserted,
           \A r \in Life : conflict'[r] = "resolving" => conflict[r] = "resolving",
           \A c \in Commands : command[c].state # "none" => command'[c].state # "none",
           cut \subseteq cut',
           \A q \in Processes : job[q].at = "reassert" => job'[q] = job[q]
    PROVE  ResolvingIsReasserted'
<1>1. Life \subseteq Commands
  BY DEF Commands
<1>2. QED
  BY <1>1 DEF ResolvingIsReasserted

----------------------------------------------------------------------------
(* Every step preserves the invariant *)

LEMMA InitInv == Init => IInv
<1> SUFFICES ASSUME Init PROVE IInv
  OBVIOUS
<1> USE RowAssumption DEF Init
<1>1. TypeOK
  <2>1. remote \in Pages /\ row \in Pages \cup {NoRow}
    BY DEF Pages, Life
  <2>2. conflict \in [Life -> {"none", "open", "resolving", "resolved", "ignored"}]
        /\ target \in Life \cup {"none"}
    OBVIOUS
  <2>3. command \in [Commands ->
            [state : {"none", "queued", "verified", "settled", "blocked", "fenced"},
             goal : Life, base : Props \cup {NoBase}]]
    BY DEF Life
  <2>4. logged \subseteq Logs /\ cut \subseteq Life /\ raced \in BOOLEAN
    OBVIOUS
  <2>5. job \in [Processes -> Jobs]
    BY DEF Jobs
  <2>6. edits \in 0..MaxEdits /\ forgets \in 0..MaxForgets /\ crashes \in 0..MaxCrashes
    OBVIOUS
  <2>7. QED
    BY <2>1, <2>2, <2>3, <2>4, <2>5, <2>6 DEF TypeOK
<1>2. JobInv
  BY DEF JobInv, Idle
<1>3. ContradictionsAreRecorded /\ ResolvingIsReasserted
  BY DEF ContradictionsAreRecorded, ResolvingIsReasserted, Life
<1>4. QED
  BY <1>1, <1>2, <1>3 DEF IInv

LEMMA QueryStep == ASSUME IInv, NEW p \in Processes, Query(p) PROVE IInv'
<1> USE DEF IInv
<1> DEFINE j == CASE remote.life = "active" -> [at |-> "listed"]
                  [] remote.life = "trashed" /\ row # NoRow -> [at |-> "absent"]
                  [] OTHER -> Idle
<1>1. j \in {[at |-> "listed"], [at |-> "absent"], Idle}
  OBVIOUS
<1>2. j \in Jobs /\ j.at \in {"listed", "absent", "idle"}
  BY <1>1 DEF Jobs, Idle
<1>3. job[p] = Idle /\ Do(p, j)
      /\ UNCHANGED <<remote, storeVars, command, raced, cut, bounds>>
  BY DEF Query
<1> HIDE DEF j
<1>4. /\ job' \in [Processes -> Jobs] /\ job'[p] = j
      /\ \A q \in Processes \ {p} : job'[q] = job[q]
  BY <1>2, <1>3, JobTypes
<1>5. TypeOK'
  BY <1>3, <1>4 DEF TypeOK, storeVars, bounds
<1>6. JobInv'
  BY <1>2, <1>3, <1>4 DEF JobInv, storeVars
<1>7. ContradictionsAreRecorded'
  BY <1>3 DEF ContradictionsAreRecorded, storeVars
<1>8. ResolvingIsReasserted'
  <2>1. \A q \in Processes : job[q].at = "reassert" => job'[q] = job[q]
    BY <1>3, <1>4 DEF Idle
  <2>2. QED
    BY <1>3, <2>1, StillReasserted DEF storeVars
<1>9. QED
  BY <1>5, <1>6, <1>7, <1>8

LEMMA HydrateStep == ASSUME IInv, NEW p \in Processes, Hydrate(p) PROVE IInv'
<1> USE DEF IInv
<1> DEFINE s == Sighting("query")
           j == [at |-> "compare", saw |-> s]
<1>1. s \in Sightings /\ s.via = "query"
  BY DEF TypeOK, Pages, Sighting, Sightings
<1> HIDE DEF s
<1>2. j \in Jobs /\ j.at = "compare" /\ j.saw = s
  BY <1>1 DEF Jobs
<1>3. job[p].at = "listed" /\ Do(p, j)
      /\ UNCHANGED <<remote, storeVars, command, raced, cut, bounds>>
  BY DEF Hydrate, s
<1> HIDE DEF j
<1>4. /\ job' \in [Processes -> Jobs] /\ job'[p] = j
      /\ \A q \in Processes \ {p} : job'[q] = job[q]
  BY <1>2, <1>3, JobTypes
<1>5. TypeOK'
  BY <1>3, <1>4 DEF TypeOK, storeVars, bounds
<1>6. JobInv'
  BY <1>1, <1>2, <1>3, <1>4 DEF JobInv, storeVars
<1>7. ContradictionsAreRecorded'
  BY <1>3 DEF ContradictionsAreRecorded, storeVars
<1>8. ResolvingIsReasserted'
  <2>1. \A q \in Processes : job[q].at = "reassert" => job'[q] = job[q]
    BY <1>3, <1>4
  <2>2. QED
    BY <1>3, <2>1, StillReasserted DEF storeVars
<1>9. QED
  BY <1>5, <1>6, <1>7, <1>8

LEMMA ClassifyStep == ASSUME IInv, NEW p \in Processes, Classify(p) PROVE IInv'
<1> USE DEF IInv
<1>1. PICK via \in {IF remote.life = "trashed" THEN "in-trash" ELSE "accessible", "ambiguous"} :
         Do(p, [at |-> "candidate", saw |-> Sighting(via)])
  BY DEF Classify
<1> DEFINE s == Sighting(via)
           j == [at |-> "candidate", saw |-> s]
<1>2. s \in Sightings /\ s.via # "query" /\ (s.via = "in-trash" => s.life = "trashed")
  BY DEF TypeOK, Pages, Sighting, Sightings, Absences
<1>3. Do(p, j)
  BY <1>1
<1> HIDE DEF s
<1>4. j \in Jobs /\ j.at = "candidate" /\ j.saw = s
  BY <1>2 DEF Jobs
<1> HIDE DEF j
<1>5. job[p].at = "absent" /\ UNCHANGED <<remote, storeVars, command, raced, cut, bounds>>
  BY DEF Classify
<1>6. /\ job' \in [Processes -> Jobs] /\ job'[p] = j
      /\ \A q \in Processes \ {p} : job'[q] = job[q]
  BY <1>3, <1>4, JobTypes
<1>7. TypeOK'
  BY <1>5, <1>6 DEF TypeOK, storeVars, bounds
<1>8. JobInv'
  BY <1>2, <1>4, <1>5, <1>6 DEF JobInv, storeVars
<1>9. ContradictionsAreRecorded'
  BY <1>5 DEF ContradictionsAreRecorded, storeVars
<1>10. ResolvingIsReasserted'
  <2>1. \A q \in Processes : job[q].at = "reassert" => job'[q] = job[q]
    BY <1>5, <1>6
  <2>2. QED
    BY <1>5, <2>1, StillReasserted DEF storeVars
<1>11. QED
  BY <1>7, <1>8, <1>9, <1>10
LEMMA AppendCandidateStep == ASSUME IInv, NEW p \in Processes, AppendCandidate(p) PROVE IInv'
<1> USE DEF IInv
<1> DEFINE s == job[p].saw
           j == IF s.via = "in-trash" THEN [job[p] EXCEPT !.at = "compare"] ELSE Idle
<1>1. job[p].at = "candidate" /\ Do(p, j)
      /\ UNCHANGED <<remote, row, conflict, target, command, raced, cut, bounds>>
  BY DEF AppendCandidate
<1>2. job[p] = [at |-> "candidate", saw |-> s] /\ s \in Sightings
  BY <1>1, JobFields
<1>3. s.via = "in-trash" => s.life = "trashed"
  BY <1>1 DEF JobInv
<1> HIDE DEF s
<1>4. j = Idle \/ (j = [at |-> "compare", saw |-> s] /\ s.via = "in-trash")
  BY <1>2
<1>5. /\ j \in Jobs /\ j.at \in {"idle", "compare"}
      /\ j.at = "compare" => j.saw = s /\ s.via = "in-trash"
  BY <1>2, <1>4 DEF Jobs, Idle
<1> HIDE DEF j
<1>6. /\ job' \in [Processes -> Jobs] /\ job'[p] = j
      /\ \A q \in Processes \ {p} : job'[q] = job[q]
  BY <1>1, <1>5, JobTypes
<1>7. /\ tombstone' \in {"none", "in-trash", "ambiguous", "remote_trash"}
      /\ evidence' \in {"none"} \cup Absences
      /\ logged' \subseteq Logs
  <2>1. <<"absence", s.via>> \in Logs /\ s.via \in Absences
    <3>1. s.via # "query"
      BY <1>1, <1>2 DEF s, JobInv
    <3>2. QED
      BY <1>2, <3>1 DEF Logs, Sightings
  <2>2. CASE <<"absence", s.via>> \in logged
    BY <2>2 DEF AppendCandidate, TypeOK, s
  <2>3. CASE <<"absence", s.via>> \notin logged
    <3>1. logged' = logged \cup {<<"absence", s.via>>} /\ evidence' = s.via
          /\ tombstone' \in {"none", s.via, tombstone}
          /\ (tombstone' = s.via => s.via # "accessible" \/ tombstone' = tombstone)
      BY <2>3 DEF AppendCandidate, s
    <3>2. QED
      BY <2>1, <3>1 DEF TypeOK, Absences
  <2>4. QED
    BY <2>2, <2>3
<1>8. TypeOK'
  BY <1>1, <1>6, <1>7 DEF TypeOK, bounds
<1>9. JobInv'
  BY <1>1, <1>3, <1>5, <1>6 DEF JobInv
<1>10. ContradictionsAreRecorded'
  BY <1>1 DEF ContradictionsAreRecorded
<1>11. ResolvingIsReasserted'
  <2>1. \A q \in Processes : job[q].at = "reassert" => job'[q] = job[q]
    BY <1>1, <1>6
  <2>2. QED
    BY <1>1, <2>1, StillReasserted
<1>12. QED
  BY <1>8, <1>9, <1>10, <1>11
\* What the append that follows relies on: the target agreed with the
\* observation, or the conflict it raised is on record.
LEMMA CompareStep == ASSUME IInv, NEW p \in Processes, Compare(p) PROVE IInv'
<1> USE DEF IInv
<1> DEFINE s == job[p].saw
           j == [at |-> "record", saw |-> s, agreed |-> target]
<1>1. job[p].at = "compare" /\ Do(p, j)
      /\ UNCHANGED <<remote, row, tombstone, evidence, target, logged, command, raced, cut, bounds>>
      /\ IF DivergesOnRow(s) \/ DivergesOnTombstone(s) THEN Raise(s.life) ELSE UNCHANGED conflict
  BY DEF Compare
<1>2. s \in Sightings /\ (s.via = "in-trash" => s.life = "trashed")
  BY <1>1, JobFields DEF JobInv
<1> HIDE DEF s
<1>3. j \in Jobs /\ j.at = "record" /\ j.saw = s /\ j.agreed = target
  BY <1>2 DEF Jobs, TypeOK
<1> HIDE DEF j
<1>4. /\ job' \in [Processes -> Jobs] /\ job'[p] = j
      /\ \A q \in Processes \ {p} : job'[q] = job[q]
  BY <1>1, <1>3, JobTypes
<1>5. /\ conflict' \in [Life -> {"none", "open", "resolving", "resolved", "ignored"}]
      /\ \A r \in Life : conflict[r] # "none" => conflict'[r] = conflict[r]
      /\ \A r \in Life : conflict'[r] # conflict[r] => conflict'[r] = "open"
  BY <1>1, <1>2 DEF Raise, TypeOK, Sightings
<1>6. TypeOK'
  BY <1>1, <1>4, <1>5 DEF TypeOK, bounds
<1>7. target \in {"none", s.life} \/ conflict'[s.life] # "none"
  <2>1. CASE s.via = "query"
    BY <1>1, <1>2, <2>1 DEF DivergesOnRow, Raise, TypeOK, Sightings
  <2>2. CASE s.via = "in-trash"
    BY <1>1, <1>2, <2>2 DEF DivergesOnTombstone, Raise, TypeOK, Sightings, Life
  <2>3. s.via \in {"query", "in-trash"}
    BY <1>1 DEF JobInv, s
  <2>4. QED
    BY <2>1, <2>2, <2>3
<1>8. JobInv'
  <2>1. \A r \in Life : conflict[r] # "none" => conflict'[r] # "none"
    BY <1>5
  <2>2. QED
    BY <1>2, <1>3, <1>4, <1>7, <2>1, ConflictsStayRaised DEF JobInv
<1>9. ContradictionsAreRecorded'
  BY <1>1, <1>5 DEF ContradictionsAreRecorded, TypeOK, Pages
<1>10. ResolvingIsReasserted'
  <2>1. \A q \in Processes : job[q].at = "reassert" => job'[q] = job[q]
    BY <1>1, <1>4
  <2>2. QED
    BY <1>1, <1>5, <2>1, StillReasserted
<1>11. QED
  BY <1>6, <1>8, <1>9, <1>10

LEMMA AppendRowStep == ASSUME IInv, NEW p \in Processes, AppendRow(p) PROVE IInv'
<1> USE DEF IInv
<1> DEFINE s == job[p].saw
<1>1. job[p].at = "record" /\ Do(p, Idle)
      /\ UNCHANGED <<remote, tombstone, evidence, conflict, target, command, cut, bounds>>
  BY DEF AppendRow
<1>2. /\ s \in Sightings
      /\ job[p].agreed \in Life \cup {"none"}
      /\ job[p].agreed \in {"none", s.life} \/ conflict[s.life] # "none"
  BY <1>1, JobFields DEF JobInv
<1>3. \/ UNCHANGED <<row, logged, raced>>
      \/ /\ logged' = logged \cup {RowKey(s)}
         /\ ApplyRow(s)
         /\ raced' = (raced \/ job[p].agreed # target)
  BY DEF AppendRow
<1> HIDE DEF s
<1>4. /\ job' \in [Processes -> Jobs] /\ job'[p] = Idle
      /\ \A q \in Processes \ {p} : job'[q] = job[q]
  BY <1>1, JobTypes DEF Jobs
<1>5. row' \in Pages \cup {NoRow} /\ logged' \subseteq Logs /\ raced' \in BOOLEAN
  <2>1. CASE UNCHANGED <<row, logged, raced>>
    BY <2>1 DEF TypeOK
  <2>2. CASE /\ logged' = logged \cup {RowKey(s)}
             /\ ApplyRow(s)
             /\ raced' = (raced \/ job[p].agreed # target)
    <3>1. RowKey(s) \in Logs
      BY <1>2 DEF RowKey, Logs, Sightings
    <3>2. row' \in Pages
      BY <1>2, <2>2 DEF ApplyRow, Pages, Sightings, TypeOK
    <3>3. QED
      BY <2>2, <3>1, <3>2 DEF TypeOK
  <2>3. QED
    BY <1>3, <2>1, <2>2
<1>6. TypeOK'
  BY <1>1, <1>4, <1>5 DEF TypeOK, bounds
<1>7. JobInv'
  BY <1>1, JobEnds
<1>8. ContradictionsAreRecorded'
  <2>1. CASE UNCHANGED <<row, logged, raced>>
    BY <1>1, <2>1 DEF ContradictionsAreRecorded
  <2>2. CASE ApplyRow(s) /\ raced' = (raced \/ job[p].agreed # target)
    <3>1. CASE Frozen /\ row # NoRow
      <4>1. row'.life = row.life
        BY <2>2, <3>1 DEF ApplyRow
      <4>2. QED
        BY <1>1, <2>2, <3>1, <4>1 DEF ContradictionsAreRecorded
    <3>2. CASE ~(Frozen /\ row # NoRow)
      <4>1. row'.life = s.life
        BY <2>2, <3>2 DEF ApplyRow
      <4>2. QED
        BY <1>1, <1>2, <2>2, <4>1 DEF ContradictionsAreRecorded
    <3>3. QED
      BY <3>1, <3>2
  <2>3. QED
    BY <1>3, <2>1, <2>2
<1>9. ResolvingIsReasserted'
  <2>1. \A q \in Processes : job[q].at = "reassert" => job'[q] = job[q]
    BY <1>1, <1>4
  <2>2. QED
    BY <1>1, <2>1, StillReasserted
<1>10. QED
  BY <1>6, <1>7, <1>8, <1>9

LEMMA AppendTombstoneStep == ASSUME IInv, NEW p \in Processes, AppendTombstone(p) PROVE IInv'
<1> USE DEF IInv
<1>1. job[p].at = "record" /\ job[p].saw.via = "in-trash" /\ Do(p, Idle)
      /\ UNCHANGED <<remote, evidence, conflict, target, command, cut, bounds>>
  BY DEF AppendTombstone
<1>2. /\ job[p].saw.life = "trashed"
      /\ job[p].agreed \in Life \cup {"none"}
      /\ job[p].agreed \in {"none", "trashed"} \/ conflict["trashed"] # "none"
  BY <1>1, JobFields DEF JobInv
<1>3. \/ UNCHANGED <<row, tombstone, logged, raced>>
      \/ /\ logged' = logged \cup {<<"tombstone">>}
         /\ tombstone' = "remote_trash"
         /\ row' = IF Frozen \/ row = NoRow THEN row ELSE [row EXCEPT !.life = "trashed"]
         /\ raced' = (raced \/ job[p].agreed # target)
  BY DEF AppendTombstone
<1>4. /\ job' \in [Processes -> Jobs] /\ job'[p] = Idle
      /\ \A q \in Processes \ {p} : job'[q] = job[q]
  BY <1>1, JobTypes DEF Jobs
<1>5. /\ row' \in {row, [row EXCEPT !.life = "trashed"]}
      /\ row = NoRow => row' = row
      /\ raced => raced'
      /\ row' = row \/ raced' = (raced \/ job[p].agreed # target)
  BY <1>3 DEF TypeOK
<1>6. row' \in Pages \cup {NoRow} /\ (row' = row \/ row'.life = "trashed")
  BY <1>5 DEF TypeOK, Pages, Life
<1>7. TypeOK'
  <2>1. <<"tombstone">> \in Logs
    BY DEF Logs
  <2>2. tombstone' \in {"none", "in-trash", "ambiguous", "remote_trash"}
        /\ logged' \subseteq Logs /\ raced' \in BOOLEAN
    BY <1>3, <2>1 DEF TypeOK
  <2>3. QED
    BY <1>1, <1>4, <1>6, <2>2 DEF TypeOK, bounds
<1>8. JobInv'
  BY <1>1, JobEnds
<1>9. ContradictionsAreRecorded'
  BY <1>1, <1>2, <1>5, <1>6 DEF ContradictionsAreRecorded
<1>10. ResolvingIsReasserted'
  <2>1. \A q \in Processes : job[q].at = "reassert" => job'[q] = job[q]
    BY <1>1, <1>4
  <2>2. QED
    BY <1>1, <2>1, StillReasserted
<1>11. QED
  BY <1>7, <1>8, <1>9, <1>10
LEMMA DecideStep == ASSUME IInv, NEW p \in Processes, Decide(p) PROVE IInv'
<1> USE DEF IInv
<1>1. PICK r \in Life, how \in Choices :
         conflict[r] = "open" /\ Do(p, [at |-> "decided", about |-> r, how |-> how])
  BY DEF Decide
<1> DEFINE j == [at |-> "decided", about |-> r, how |-> how]
<1>2. j \in Jobs /\ j.at = "decided" /\ j.about = r
  BY DEF Jobs
<1>3. Do(p, j)
  BY <1>1
<1> HIDE DEF j
<1>4. job[p] = Idle /\ UNCHANGED <<remote, storeVars, command, raced, cut, bounds>>
  BY DEF Decide
<1>5. /\ job' \in [Processes -> Jobs] /\ job'[p] = j
      /\ \A q \in Processes \ {p} : job'[q] = job[q]
  BY <1>2, <1>3, JobTypes
<1>6. TypeOK'
  BY <1>4, <1>5 DEF TypeOK, storeVars, bounds
<1>7. JobInv'
  BY <1>1, <1>2, <1>4, <1>5 DEF JobInv, storeVars
<1>8. ContradictionsAreRecorded'
  BY <1>4 DEF ContradictionsAreRecorded, storeVars
<1>9. ResolvingIsReasserted'
  <2>1. \A q \in Processes : job[q].at = "reassert" => job'[q] = job[q]
    BY <1>4, <1>5 DEF Idle
  <2>2. QED
    BY <1>4, <2>1, StillReasserted DEF storeVars
<1>10. QED
  BY <1>6, <1>7, <1>8, <1>9

\* Only a decision that goes on to its re-assertion sets a conflict to resolving.
LEMMA AppendResolutionStep == ASSUME IInv, NEW p \in Processes, AppendResolution(p) PROVE IInv'
<1> USE DEF IInv
<1> DEFINE r == job[p].about
           how == job[p].how
           key == <<"resolved", r, how>>
           j == IF how = "keep-local" THEN [at |-> "reassert", about |-> r] ELSE Idle
<1>1. job[p].at = "decided" /\ Do(p, j)
      /\ UNCHANGED <<remote, evidence, target, command, raced, cut, bounds>>
  BY DEF AppendResolution
<1>2. r \in Life /\ how \in Choices /\ conflict[r] # "none"
  BY <1>1, JobFields DEF JobInv
<1>3. \/ UNCHANGED <<logged, conflict, row, tombstone>>
      \/ /\ logged' = logged \cup {key}
         /\ conflict' = [conflict EXCEPT ![r] = IF @ = "open" THEN Resolved(how) ELSE @]
         /\ row' = IF how = "keep-remote" /\ row # NoRow THEN [row EXCEPT !.life = r] ELSE row
         /\ tombstone' = IF how = "keep-remote" /\ r = "active" /\ tombstone = "remote_trash"
                         THEN "none" ELSE tombstone
  BY DEF AppendResolution
<1> HIDE DEF r, how
<1>4. /\ j \in Jobs
      /\ how = "keep-local" => j.at = "reassert" /\ j.about = r
      /\ how # "keep-local" => j = Idle
      /\ j.at \in {"idle", "reassert"}
  BY <1>2 DEF Jobs, Idle
<1> HIDE DEF j
<1>5. /\ job' \in [Processes -> Jobs] /\ job'[p] = j
      /\ \A q \in Processes \ {p} : job'[q] = job[q]
  BY <1>1, <1>4, JobTypes
<1>6. /\ conflict' \in [Life -> {"none", "open", "resolving", "resolved", "ignored"}]
      /\ \A l \in Life : conflict[l] # "none" => conflict'[l] # "none"
      /\ \A l \in Life : conflict'[l] = "resolving" /\ conflict[l] # "resolving"
            => l = r /\ how = "keep-local"
  BY <1>2, <1>3 DEF Resolved, TypeOK
<1>7. /\ row' \in Pages \cup {NoRow}
      /\ row' # NoRow => row # NoRow
      /\ row' # NoRow => row'.life = row.life \/ row'.life = r
  BY <1>2, <1>3 DEF TypeOK, Pages
<1>8. TypeOK'
  <2>1. key \in Logs
    BY <1>2 DEF Logs
  <2>2. tombstone' \in {"none", "in-trash", "ambiguous", "remote_trash"} /\ logged' \subseteq Logs
    BY <1>3, <2>1 DEF TypeOK
  <2>3. QED
    BY <1>1, <1>5, <1>6, <1>7, <2>2 DEF TypeOK, bounds
<1>9. JobInv'
  <2>1. QED
    BY <1>4, <1>5, <1>6, ConflictsStayRaised DEF JobInv
<1>10. ContradictionsAreRecorded'
  BY <1>1, <1>2, <1>6, <1>7 DEF ContradictionsAreRecorded, TypeOK, Pages
<1>11. ResolvingIsReasserted'
  <2>1. SUFFICES ASSUME NEW l \in Life, conflict'[l] = "resolving"
                 PROVE  \/ command[l].state # "none"
                        \/ l \in cut
                        \/ \E q \in Processes : job'[q].at = "reassert" /\ job'[q].about = l
    BY <1>1 DEF ResolvingIsReasserted
  <2>2. CASE conflict[l] = "resolving"
    BY <1>1, <1>5, <2>2 DEF ResolvingIsReasserted
  <2>3. CASE conflict[l] # "resolving"
    BY <1>4, <1>5, <1>6, <2>1, <2>3
  <2>4. QED
    BY <2>2, <2>3
<1>12. QED
  BY <1>8, <1>9, <1>10, <1>11

\* The command a state of the outbox is built from.
LEMMA EnqueueTypes ==
    ASSUME TypeOK, NEW c \in Commands, NEW goal \in Life, NEW base \in Props \cup {NoBase},
           Enqueue(c, goal, base)
    PROVE  /\ command' \in [Commands ->
                 [state : {"none", "queued", "verified", "settled", "blocked", "fenced"},
                  goal : Life, base : Props \cup {NoBase}]]
           /\ command'[c].state = "queued"
           /\ \A d \in Commands \ {c} : command'[d] = command[d]
BY DEF TypeOK, Enqueue

LEMMA AppendReassertStep == ASSUME IInv, NEW p \in Processes, AppendReassert(p) PROVE IInv'
<1> USE DEF IInv
<1> DEFINE r == job[p].about
<1>1. job[p].at = "reassert" /\ Do(p, Idle)
      /\ UNCHANGED <<remote, storeVars, raced, cut, bounds>>
  BY DEF AppendReassert
<1>2. IF command[r].state = "none" THEN Enqueue(r, Opposite(r), NoBase) ELSE UNCHANGED command
  BY DEF AppendReassert
<1>3. r \in Life /\ r \in Commands /\ Opposite(r) \in Life
  BY <1>1, JobFields DEF Commands, Opposite, Life
<1> HIDE DEF r
<1>4. /\ job' \in [Processes -> Jobs] /\ job'[p] = Idle
      /\ \A q \in Processes \ {p} : job'[q] = job[q]
  BY <1>1, JobTypes DEF Jobs
<1>5. /\ command' \in [Commands ->
            [state : {"none", "queued", "verified", "settled", "blocked", "fenced"},
             goal : Life, base : Props \cup {NoBase}]]
      /\ command'[r].state # "none"
      /\ \A d \in Commands : command[d].state # "none" => command'[d].state # "none"
  <2>1. CASE command[r].state = "none"
    <3>1. Enqueue(r, Opposite(r), NoBase)
      BY <1>2, <2>1
    <3>2. QED
      BY <1>3, <3>1, EnqueueTypes
  <2>2. CASE command[r].state # "none"
    BY <1>2, <2>2 DEF TypeOK
  <2>3. QED
    BY <2>1, <2>2
<1>6. TypeOK'
  BY <1>1, <1>4, <1>5 DEF TypeOK, storeVars, bounds
<1>7. JobInv'
  BY <1>1, JobEnds DEF storeVars
<1>8. ContradictionsAreRecorded'
  BY <1>1 DEF ContradictionsAreRecorded, storeVars
<1>9. ResolvingIsReasserted'
  <2>1. SUFFICES ASSUME NEW l \in Life, conflict[l] = "resolving"
                 PROVE  \/ command'[l].state # "none"
                        \/ l \in cut
                        \/ \E q \in Processes : job'[q].at = "reassert" /\ job'[q].about = l
    BY <1>1 DEF ResolvingIsReasserted, storeVars
  <2>2. l \in Commands
    BY DEF Commands
  <2>3. CASE l = r
    BY <1>5, <2>3
  <2>4. CASE l # r
    BY <1>4, <1>5, <2>1, <2>2, <2>4 DEF ResolvingIsReasserted, r
  <2>5. QED
    BY <2>3, <2>4
<1>10. QED
  BY <1>6, <1>7, <1>8, <1>9
\* A step of the outbox alone, which takes no command out of it.
LEMMA OutboxMoves ==
    ASSUME IInv,
           command' \in [Commands ->
              [state : {"none", "queued", "verified", "settled", "blocked", "fenced"},
               goal : Life, base : Props \cup {NoBase}]],
           \A c \in Commands : command[c].state # "none" => command'[c].state # "none",
           UNCHANGED <<remote, storeVars, job, raced, cut, bounds>>
    PROVE  IInv'
<1> USE DEF IInv, storeVars, bounds
<1>1. TypeOK'
  BY DEF TypeOK
<1>2. JobInv'
  BY JobsStay
<1>3. ContradictionsAreRecorded'
  BY DEF ContradictionsAreRecorded
<1>4. ResolvingIsReasserted'
  BY StillReasserted
<1>5. QED
  BY <1>1, <1>2, <1>3, <1>4

\* What a command that changes state is after it.
LEMMA BecomeTypes ==
    ASSUME TypeOK, NEW c \in Commands,
           NEW state \in {"queued", "verified", "settled", "blocked", "fenced"},
           Become(c, state)
    PROVE  /\ command' \in [Commands ->
                 [state : {"none", "queued", "verified", "settled", "blocked", "fenced"},
                  goal : Life, base : Props \cup {NoBase}]]
           /\ \A d \in Commands : command[d].state # "none" => command'[d].state # "none"
BY DEF TypeOK, Become

LEMMA PlanIntentStep == ASSUME IInv, NEW i \in Intents, PlanIntent(i) PROVE IInv'
<1> USE DEF IInv
<1>1. /\ command[i].state = "none" /\ row # NoRow
      /\ Enqueue(i, Opposite(row.life), row.props)
      /\ UNCHANGED <<remote, storeVars, job, raced, cut, bounds>>
  BY DEF PlanIntent
<1>2. i \in Commands /\ Opposite(row.life) \in Life /\ row.props \in Props \cup {NoBase}
  BY <1>1 DEF Commands, Opposite, Life, TypeOK, Pages
<1>3. QED
  BY <1>1, <1>2, EnqueueTypes, OutboxMoves

LEMMA VerifyStep == ASSUME IInv, NEW c \in Commands, Verify(c) PROVE IInv'
<1> USE DEF IInv
<1>1. Become(c, "verified") /\ UNCHANGED <<remote, storeVars, job, raced, cut, bounds>>
  BY DEF Verify
<1>2. QED
  BY <1>1, BecomeTypes, OutboxMoves

LEMMA RefuseStep == ASSUME IInv, NEW c \in Commands, Refuse(c) PROVE IInv'
<1> USE DEF IInv
<1>1. Become(c, "blocked") /\ UNCHANGED <<remote, storeVars, job, raced, cut, bounds>>
  BY DEF Refuse
<1>2. QED
  BY <1>1, BecomeTypes, OutboxMoves

\* The page at Notion changes, and nothing here sees it yet.
LEMMA RemoteMoves ==
    ASSUME IInv, remote' \in Pages, edits' \in 0..MaxEdits,
           UNCHANGED <<storeVars, command, job, raced, cut, forgets, crashes>>
    PROVE  IInv'
<1> USE DEF IInv, storeVars
<1>1. TypeOK'
  BY DEF TypeOK
<1>2. JobInv'
  BY JobsStay
<1>3. ContradictionsAreRecorded'
  BY DEF ContradictionsAreRecorded
<1>4. ResolvingIsReasserted'
  BY StillReasserted
<1>5. QED
  BY <1>1, <1>2, <1>3, <1>4

LEMMA WriteStep == ASSUME IInv, NEW c \in Commands, Write(c) PROVE IInv'
<1> USE DEF IInv
<1>1. remote' \in Pages
  BY DEF Write, TypeOK, Pages
<1>2. UNCHANGED <<storeVars, command, job, raced, cut, bounds>> /\ edits \in 0..MaxEdits
  BY DEF Write, TypeOK
<1>3. QED
  BY <1>1, <1>2, RemoteMoves DEF bounds

LEMMA EditElsewhereStep == ASSUME IInv, EditElsewhere PROVE IInv'
<1> USE DEF IInv
<1>1. remote' \in Pages
  <2>1. CASE \E props \in Props \ {remote.props} : remote' = [remote EXCEPT !.props = props]
    BY <2>1 DEF TypeOK, Pages
  <2>2. CASE remote' = [remote EXCEPT !.life = Opposite(@)]
    BY <2>2 DEF TypeOK, Pages, Opposite, Life
  <2>3. QED
    BY <2>1, <2>2 DEF EditElsewhere
<1>2. edits' \in 0..MaxEdits
  BY RowAssumption DEF EditElsewhere, TypeOK
<1>3. QED
  BY <1>1, <1>2, RemoteMoves DEF EditElsewhere

\* The row takes the target, and what waited for the settlement is resolved.
LEMMA SettleStep == ASSUME IInv, NEW c \in Commands, Settle(c) PROVE IInv'
<1> USE DEF IInv
<1> DEFINE goal == command[c].goal
<1>1. /\ Become(c, "settled")
      /\ target' = goal
      /\ row' = IF row = NoRow THEN row ELSE [row EXCEPT !.life = goal]
      /\ conflict' = [r \in Life |-> IF conflict[r] = "resolving" THEN "resolved" ELSE conflict[r]]
      /\ tombstone' = IF goal = "active" /\ tombstone = "remote_trash" THEN "none" ELSE tombstone
      /\ raced' = FALSE
      /\ UNCHANGED <<remote, evidence, logged, job, cut, bounds>>
  BY DEF Settle
<1>2. goal \in Life
  BY DEF TypeOK
<1> HIDE DEF goal
<1>3. /\ command' \in [Commands ->
            [state : {"none", "queued", "verified", "settled", "blocked", "fenced"},
             goal : Life, base : Props \cup {NoBase}]]
      /\ \A d \in Commands : command[d].state # "none" => command'[d].state # "none"
  BY <1>1, BecomeTypes
<1>4. row' \in Pages \cup {NoRow} /\ (row' # NoRow => row'.life = goal)
  BY <1>1, <1>2 DEF TypeOK, Pages
<1>5. /\ conflict' \in [Life -> {"none", "open", "resolving", "resolved", "ignored"}]
      /\ \A r \in Life : conflict[r] # "none" => conflict'[r] # "none"
      /\ \A r \in Life : conflict'[r] # "resolving"
  BY <1>1 DEF TypeOK
<1>6. tombstone' \in {"none", "in-trash", "ambiguous", "remote_trash"}
  BY <1>1 DEF TypeOK
<1>7. TypeOK'
  BY <1>1, <1>2, <1>3, <1>4, <1>5, <1>6 DEF TypeOK, bounds
<1>8. JobInv'
  BY <1>1, <1>5, JobsStay
<1>9. ContradictionsAreRecorded'
  BY <1>1, <1>4 DEF ContradictionsAreRecorded
<1>10. ResolvingIsReasserted'
  BY <1>5 DEF ResolvingIsReasserted
<1>11. QED
  BY <1>7, <1>8, <1>9, <1>10

LEMMA ForgetStep == ASSUME IInv, Forget PROVE IInv'
<1> USE DEF IInv
<1>1. /\ row' = NoRow /\ tombstone' = "none" /\ evidence' = "none"
      /\ UNCHANGED <<remote, target, logged, job, raced, cut, edits, crashes>>
      /\ forgets' \in 0..MaxForgets
  BY RowAssumption DEF Forget, TypeOK
<1>2. command' \in [Commands ->
            [state : {"none", "queued", "verified", "settled", "blocked", "fenced"},
             goal : Life, base : Props \cup {NoBase}]]
  BY DEF Forget, TypeOK
<1>3. /\ conflict' \in [Life -> {"none", "open", "resolving", "resolved", "ignored"}]
      /\ \A r \in Life : conflict[r] # "none" => conflict'[r] # "none"
      /\ \A r \in Life : conflict'[r] # "resolving"
  BY DEF Forget, TypeOK
<1>4. TypeOK'
  BY <1>1, <1>2, <1>3 DEF TypeOK
<1>5. JobInv'
  BY <1>1, <1>3, JobsStay
<1>6. ContradictionsAreRecorded'
  BY <1>1 DEF ContradictionsAreRecorded
<1>7. ResolvingIsReasserted'
  BY <1>3 DEF ResolvingIsReasserted
<1>8. QED
  BY <1>4, <1>5, <1>6, <1>7

\* What a process about to re-assert leaves undone is on record as cut.
LEMMA CrashStep == ASSUME IInv, NEW p \in Processes, Crash(p) PROVE IInv'
<1> USE DEF IInv
<1>1. /\ Do(p, Idle)
      /\ UNCHANGED <<remote, storeVars, command, raced, edits, forgets>>
      /\ cut' = IF job[p].at = "reassert" THEN cut \cup {job[p].about} ELSE cut
      /\ crashes' \in 0..MaxCrashes
  BY RowAssumption DEF Crash, TypeOK
<1>2. /\ job' \in [Processes -> Jobs] /\ job'[p] = Idle
      /\ \A q \in Processes \ {p} : job'[q] = job[q]
  BY <1>1, JobTypes DEF Jobs
<1>3. cut' \subseteq Life /\ cut \subseteq cut'
  BY <1>1, JobFields DEF TypeOK
<1>4. TypeOK'
  BY <1>1, <1>2, <1>3 DEF TypeOK, storeVars
<1>5. JobInv'
  BY <1>1, JobEnds DEF storeVars
<1>6. ContradictionsAreRecorded'
  BY <1>1 DEF ContradictionsAreRecorded, storeVars
<1>7. ResolvingIsReasserted'
  BY <1>1, <1>2, <1>3 DEF ResolvingIsReasserted, storeVars
<1>8. QED
  BY <1>4, <1>5, <1>6, <1>7

LEMMA StepInv == IInv /\ [Next]_vars => IInv'
<1> SUFFICES ASSUME IInv, [Next]_vars PROVE IInv'
  OBVIOUS
<1>1. ASSUME NEW p \in Pullers, Pull(p) PROVE IInv'
  <2>1. p \in Processes
    BY DEF Processes
  <2>2. QED
    BY <1>1, <2>1, QueryStep, HydrateStep, ClassifyStep, AppendCandidateStep, CompareStep,
       AppendRowStep, AppendTombstoneStep DEF Pull
<1>2. ASSUME NEW p \in Resolvers, Decide(p) \/ Resolve(p) PROVE IInv'
  <2>1. p \in Processes
    BY DEF Processes
  <2>2. QED
    BY <1>2, <2>1, DecideStep, AppendResolutionStep, AppendReassertStep DEF Resolve
<1>3. ASSUME NEW p \in Processes, Crash(p) PROVE IInv'
  BY <1>3, CrashStep
<1>4. ASSUME NEW i \in Intents, PlanIntent(i) PROVE IInv'
  BY <1>4, PlanIntentStep
<1>5. ASSUME NEW c \in Commands, Verify(c) \/ Write(c) \/ Refuse(c) \/ Settle(c) PROVE IInv'
  BY <1>5, VerifyStep, WriteStep, RefuseStep, SettleStep
<1>6. CASE Forget \/ EditElsewhere
  BY <1>6, ForgetStep, EditElsewhereStep
<1>7. CASE UNCHANGED vars
  <2>1. command' = command /\ UNCHANGED <<remote, storeVars, job, raced, cut, bounds>>
    BY <1>7 DEF vars
  <2>2. QED
    BY <2>1, OutboxMoves DEF IInv, TypeOK
<1>8. QED
  BY <1>1, <1>2, <1>3, <1>4, <1>5, <1>6, <1>7 DEF Next

----------------------------------------------------------------------------
(* The theorems *)

\* Every state the projections and the processes of one page reach, whatever the
\* pulls, resolutions, settlements and ends of processes, satisfies the invariant.
THEOREM Invariance == Spec => []IInv
<1>1. QED
  BY InitInv, StepInv, PTL DEF Spec

\* Projections, commands and what processes have read keep their types.
THEOREM TypeCorrect == Spec => []TypeOK
<1>1. IInv => TypeOK
  BY DEF IInv
<1>2. QED
  BY <1>1, Invariance, PTL

\* A row contradicts the last settled archive or restore only where a conflict
\* was put on record, or a settlement came between a check and its append
\* (decision 0026 in pullOneShotSync).
THEOREM ContradictionsRecorded == Spec => []ContradictionsAreRecorded
<1>1. IInv => ContradictionsAreRecorded
  BY DEF IInv
<1>2. QED
  BY <1>1, Invariance, PTL

\* A conflict that waits for its re-assertion has one, is about to have one, or
\* lost it with the process that ended between the two appends (applyPlan).
THEOREM ReassertionKept == Spec => []ResolvingIsReasserted
<1>1. IInv => ResolvingIsReasserted
  BY DEF IInv
<1>2. QED
  BY <1>1, Invariance, PTL
=============================================================================
