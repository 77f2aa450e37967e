---------------------------- MODULE RowLifecycle ----------------------------
(***************************************************************************)
(* The trash state of one page as the store projects it: what a pull reads *)
(* of the page and appends (pullOneShotSync), the conflicts it raises, the *)
(* user's resolutions (resolveConflictCommand) and the lifecycle commands  *)
(* whose settlements set the local target (readSettledLifecycleTarget).    *)
(* Several processes share the store; each append is one transaction of    *)
(* one process, and others come in between.                                *)
(*                                                                         *)
(* An event is its idempotency key: appending a key the log already has    *)
(* changes nothing.  The keys of this page's events are made of content,   *)
(* so `logged` is a set.  A conflict's key is the pair of the local target *)
(* and the remote state; as they differ, the remote state names it.        *)
(* Bodies, moved pages and other pages are left out; how a command is      *)
(* claimed, retried and reclaimed is OutboxExecutor's subject, and here a  *)
(* command is written, verified, settled or refused.                       *)
(***************************************************************************)
EXTENDS Naturals

CONSTANTS
    Pullers,     \* the processes that pull: daemons, sync and pull calls
    Resolvers,   \* the processes that resolve conflicts: conflicts and sync calls
    Props,       \* the contents of the page's properties
    FirstProps,  \* what it holds to begin with
    Intents,     \* archive and restore edits of the local row, by change id
    Choices,     \* the strategies users resolve conflicts with
    NoRow, NoBase,
    MaxEdits,    \* bound: changes of the page by others
    MaxForgets,  \* bound: forget commands
    MaxCrashes   \* bound: processes that end between two appends

Life == {"active", "trashed"}

ASSUME RowAssumption ==
    /\ FirstProps \in Props /\ NoBase \notin Props
    /\ Intents \cap Life = {}
    /\ Choices \subseteq {"keep-local", "keep-remote", "manual"}
    /\ NoRow \notin [props : Props, life : Life]
    /\ MaxEdits \in Nat /\ MaxForgets \in Nat /\ MaxCrashes \in Nat

VARIABLES
    remote,    \* the page at Notion
    row,       \* _nds_row: properties_hash and in_trash
    tombstone, \* _nds_tombstone: remote_trash, or the candidate that opened it
    evidence,  \* _nds_query_absence: the candidate appended last
    conflict,  \* _nds_conflict, by the remote state it was raised for
    target,    \* the last settled lifecycle command's, or "none"
    command,   \* _nds_outbox: intents, and the re-assertion of each conflict
    logged,    \* the keys of the events
    job,       \* what each process is at and what it has read for it
    raced,     \* history: a target was settled between a check and its append
    cut,       \* history: resolutions whose process ended half way
    edits, forgets, crashes

storeVars == <<row, tombstone, evidence, conflict, target, logged>>
bounds    == <<edits, forgets, crashes>>
vars == <<remote, storeVars, command, job, raced, cut, bounds>>

Processes == Pullers \cup Resolvers

Opposite(l) == IF l = "active" THEN "trashed" ELSE "active"

Pages     == [props : Props, life : Life]
Commands  == Intents \cup Life   \* conflict r re-asserts Opposite(r) by command r
Absences  == {"accessible", "in-trash", "ambiguous"}
Sightings == [props : Props, life : Life, via : {"query"} \cup Absences]

Idle == [at |-> "idle"]

Do(p, j) == job' = [job EXCEPT ![p] = j]

\* #hasOpenLifecycleConflict
Frozen == \E r \in Life : conflict[r] \in {"open", "resolving"}

\* makeConflictRaisedEvent, ON CONFLICT DO NOTHING: once for each remote state.
Raise(r) == conflict' = [conflict EXCEPT ![r] = IF @ = "none" THEN "open" ELSE @]

\* lifecycleDivergenceEvents
DivergesOnRow(s) == s.via = "query" /\ target # "none" /\ target # s.life

\* Mutant: compares with the wrong target.
DivergesOnTrash(s) == s.via = "in-trash" /\ target = "trashed"

\* tombstoneLifecycleDivergenceEvents
DivergesOnTombstone(s) == s.via = "in-trash" /\ target = "active"

----------------------------------------------------------------------------
(* A pull *)

\* Trashed pages drop out of the query; a known row that does is looked up.
Query(p) ==
    /\ job[p] = Idle
    /\ Do(p, CASE remote.life = "active" -> [at |-> "listed"]
               [] remote.life = "trashed" /\ row # NoRow -> [at |-> "absent"]
               [] OTHER -> Idle)
    /\ UNCHANGED <<remote, storeVars, command, raced, cut, bounds>>

Sighting(via) == [props |-> remote.props, life |-> remote.life, via |-> via]

\* The listed page as the query or, later, retrievePage shows it.
Hydrate(p) ==
    /\ job[p].at = "listed"
    /\ Do(p, [at |-> "compare", saw |-> Sighting("query")])
    /\ UNCHANGED <<remote, storeVars, command, raced, cut, bounds>>

\* classifyQueryAbsencePage, or classifyQueryAbsenceError
Classify(p) ==
    /\ job[p].at = "absent"
    /\ \E via \in {IF remote.life = "trashed" THEN "in-trash" ELSE "accessible", "ambiguous"} :
          Do(p, [at |-> "candidate", saw |-> Sighting(via)])
    /\ UNCHANGED <<remote, storeVars, command, raced, cut, bounds>>

\* TombstoneCandidateObserved: "accessible" clears an unclassified tombstone the
\* last evidence opened; a classified tombstone is not reopened.
AppendCandidate(p) ==
    LET via == job[p].saw.via
        key == <<"absence", via>>
    IN
    /\ job[p].at = "candidate"
    /\ Do(p, IF via = "in-trash" THEN [job[p] EXCEPT !.at = "compare"] ELSE Idle)
    /\ IF key \in logged
       THEN UNCHANGED <<tombstone, evidence, logged>>
       ELSE /\ logged' = logged \cup {key}
            /\ evidence' = via
            /\ tombstone' = CASE via = "accessible" /\ tombstone = evidence -> "none"
                              [] via # "accessible" /\ tombstone # "remote_trash" -> via
                              [] OTHER -> tombstone
    /\ UNCHANGED <<remote, row, conflict, target, command, raced, cut,
                   bounds>>

\* The divergence events go before the observation's own.
Compare(p) ==
    LET s == job[p].saw
    IN
    /\ job[p].at = "compare"
    /\ IF DivergesOnRow(s) \/ DivergesOnTombstone(s) THEN Raise(s.life) ELSE UNCHANGED conflict
    /\ Do(p, [at |-> "record", saw |-> s, agreed |-> target])
    /\ UNCHANGED <<remote, row, tombstone, evidence, target, logged, command, raced, cut, bounds>>

\* Mutant: in_trash is left out of the payload hash.
RowKeyOfProps(s) == <<"row", s.props>>

\* The idempotency key of a row observation.
RowKey(s) == <<"row", s.props, s.life>>

\* Mutant: the freeze covers the whole row.
FreezeRow(s) == row' = IF Frozen /\ row # NoRow THEN row ELSE [props |-> s.props, life |-> s.life]

\* RowObserved: a frozen row keeps its in_trash, a new one has none to keep.
ApplyRow(s) ==
    row' = [props |-> s.props, life |-> IF Frozen /\ row # NoRow THEN row.life ELSE s.life]

AppendRow(p) ==
    LET s == job[p].saw
    IN
    /\ job[p].at = "record" /\ s.via = "query"
    /\ IF RowKey(s) \in logged
       THEN UNCHANGED <<row, logged, raced>>
       ELSE /\ logged' = logged \cup {RowKey(s)}
            /\ ApplyRow(s)
            /\ raced' = (raced \/ job[p].agreed # target)
    /\ Do(p, Idle)
    /\ UNCHANGED <<remote, tombstone, evidence, conflict, target, command, cut, bounds>>

\* TombstoneRecorded(remote_trash)
AppendTombstone(p) ==
    /\ job[p].at = "record" /\ job[p].saw.via = "in-trash"
    /\ IF <<"tombstone">> \in logged
       THEN UNCHANGED <<row, tombstone, logged, raced>>
       ELSE /\ logged' = logged \cup {<<"tombstone">>}
            /\ tombstone' = "remote_trash"
            /\ row' = IF Frozen \/ row = NoRow THEN row ELSE [row EXCEPT !.life = "trashed"]
            /\ raced' = (raced \/ job[p].agreed # target)
    /\ Do(p, Idle)
    /\ UNCHANGED <<remote, evidence, conflict, target, command, cut,
                   bounds>>

Pull(p) ==
    \/ Query(p) \/ Hydrate(p) \/ Classify(p) \/ AppendCandidate(p)
    \/ Compare(p) \/ AppendRow(p) \/ AppendTombstone(p)

----------------------------------------------------------------------------
(* A resolution *)

\* conflictById finds open conflicts only.
Decide(p) ==
    /\ job[p] = Idle
    /\ \E r \in Life, how \in Choices :
          /\ conflict[r] = "open"
          /\ Do(p, [at |-> "decided", about |-> r, how |-> how])
    /\ UNCHANGED <<remote, storeVars, command, raced, cut, bounds>>

\* Mutant: manual waits too, though it has no re-assertion.
ResolvedUnlessRemote(how) == IF how = "keep-remote" THEN "resolved" ELSE "resolving"

\* keep-local waits, frozen, for its re-assertion to settle.
Resolved(how) == IF how = "keep-local" THEN "resolving" ELSE "resolved"

\* ConflictResolved: keep-remote takes the remote state over, whether or not the
\* conflict was still open.
AppendResolution(p) ==
    LET r == job[p].about
        how == job[p].how
        key == <<"resolved", r, how>>
    IN
    /\ job[p].at = "decided"
    /\ IF key \in logged
       THEN UNCHANGED <<logged, conflict, row, tombstone>>
       ELSE /\ logged' = logged \cup {key}
            /\ conflict' = [conflict EXCEPT ![r] = IF @ = "open" THEN Resolved(how) ELSE @]
            /\ row' = IF how = "keep-remote" /\ row # NoRow THEN [row EXCEPT !.life = r] ELSE row
            /\ tombstone' = IF how = "keep-remote" /\ r = "active" /\ tombstone = "remote_trash"
                            THEN "none" ELSE tombstone
    /\ Do(p, IF how = "keep-local" THEN [at |-> "reassert", about |-> r] ELSE Idle)
    /\ UNCHANGED <<remote, evidence, target, command, raced, cut, bounds>>

Enqueue(c, goal, base) ==
    command' = [command EXCEPT ![c] = [state |-> "queued", goal |-> goal, base |-> base]]

\* The follow-up's base is a lifecycle hash, which is the hash of no properties.
AppendReassert(p) ==
    LET r == job[p].about
    IN
    /\ job[p].at = "reassert"
    /\ IF command[r].state = "none" THEN Enqueue(r, Opposite(r), NoBase) ELSE UNCHANGED command
    /\ Do(p, Idle)
    /\ UNCHANGED <<remote, storeVars, raced, cut, bounds>>

Resolve(p) == AppendResolution(p) \/ AppendReassert(p)

----------------------------------------------------------------------------
(* Lifecycle commands *)

\* An edit of in_trash in the local row, planned (planLocalDelete).
PlanIntent(i) ==
    /\ command[i].state = "none" /\ row # NoRow
    /\ row.life = "active" => ~(tombstone = "ambiguous" /\ evidence = "ambiguous")
    /\ Enqueue(i, Opposite(row.life), row.props)
    /\ UNCHANGED <<remote, storeVars, job, raced, cut, bounds>>

Become(c, state) == command' = [command EXCEPT ![c].state = state]

\* Nothing to do, or the write that was sent is observed.
Verify(c) ==
    /\ command[c].state = "queued" /\ remote.life = command[c].goal
    /\ Become(c, "verified")
    /\ UNCHANGED <<remote, storeVars, job, raced, cut, bounds>>

Write(c) ==
    /\ command[c].state = "queued" /\ remote.life # command[c].goal
    /\ command[c].base = remote.props
    /\ remote' = [remote EXCEPT !.life = command[c].goal]
    /\ UNCHANGED <<storeVars, command, job, raced, cut, bounds>>

\* StaleSurfaceBase
Refuse(c) ==
    /\ command[c].state = "queued" /\ remote.life # command[c].goal
    /\ command[c].base # remote.props
    /\ Become(c, "blocked")
    /\ UNCHANGED <<remote, storeVars, job, raced, cut, bounds>>

\* RemoteWriteSettled of a TrashPage or RestorePage.
Settle(c) ==
    LET goal == command[c].goal
    IN
    /\ command[c].state = "verified"
    /\ Become(c, "settled")
    /\ target' = goal
    /\ row' = IF row = NoRow THEN row ELSE [row EXCEPT !.life = goal]
    /\ conflict' = [r \in Life |-> IF conflict[r] = "resolving" THEN "resolved" ELSE conflict[r]]
    /\ tombstone' = IF goal = "active" /\ tombstone = "remote_trash" THEN "none" ELSE tombstone
    /\ raced' = FALSE
    /\ UNCHANGED <<remote, evidence, logged, job, cut, bounds>>

----------------------------------------------------------------------------
(* The user, the others, and the ends of processes *)

\* RowForgotten; its key holds the time.
Forget ==
    /\ forgets < MaxForgets /\ forgets' = forgets + 1
    /\ row' = NoRow /\ tombstone' = "none" /\ evidence' = "none"
    /\ command' = [c \in Commands |->
          IF command[c].state \in {"queued", "verified", "blocked"}
          THEN [command[c] EXCEPT !.state = "fenced"] ELSE command[c]]
    /\ conflict' = [r \in Life |->
          IF conflict[r] \in {"open", "resolving"} THEN "ignored" ELSE conflict[r]]
    /\ UNCHANGED <<remote, target, logged, job, raced, cut, edits, crashes>>

EditElsewhere ==
    /\ edits < MaxEdits /\ edits' = edits + 1
    /\ \/ \E props \in Props \ {remote.props} : remote' = [remote EXCEPT !.props = props]
       \/ remote' = [remote EXCEPT !.life = Opposite(@)]
    /\ UNCHANGED <<storeVars, command, job, raced, cut, forgets, crashes>>

Crash(p) ==
    /\ job[p] # Idle /\ crashes < MaxCrashes /\ crashes' = crashes + 1
    /\ cut' = IF job[p].at = "reassert" THEN cut \cup {job[p].about} ELSE cut
    /\ Do(p, Idle)
    /\ UNCHANGED <<remote, storeVars, command, raced, edits, forgets>>

\* A workspace established and not pulled yet.
Init ==
    /\ remote = [props |-> FirstProps, life |-> "active"]
    /\ row = NoRow /\ tombstone = "none" /\ evidence = "none"
    /\ conflict = [r \in Life |-> "none"]
    /\ target = "none"
    /\ command = [c \in Commands |-> [state |-> "none", goal |-> "active", base |-> NoBase]]
    /\ logged = {}
    /\ job = [p \in Processes |-> Idle]
    /\ raced = FALSE /\ cut = {}
    /\ edits = 0 /\ forgets = 0 /\ crashes = 0

Next ==
    \/ \E p \in Pullers : Pull(p)
    \/ \E p \in Resolvers : Decide(p) \/ Resolve(p)
    \/ \E p \in Processes : Crash(p)
    \/ \E i \in Intents : PlanIntent(i)
    \/ \E c \in Commands : Verify(c) \/ Write(c) \/ Refuse(c) \/ Settle(c)
    \/ Forget \/ EditElsewhere

Spec == Init /\ [][Next]_vars

\* Watch daemons pull again and again, and a call that has begun goes on.
FairSpec == Spec /\ \A p \in Processes : WF_vars((p \in Pullers /\ Pull(p)) \/ Resolve(p))

----------------------------------------------------------------------------
(* Correctness *)

Jobs == {Idle} \cup [at : {"listed", "absent"}]
        \cup [at : {"candidate", "compare"}, saw : Sightings]
        \cup [at : {"record"}, saw : Sightings, agreed : Life \cup {"none"}]
        \cup [at : {"decided"}, about : Life, how : Choices]
        \cup [at : {"reassert"}, about : Life]

Logs == ({"row"} \X Props \X Life) \cup ({"absence"} \X Absences)
          \cup ({"resolved"} \X Life \X Choices) \cup {<<"tombstone">>}

\* Types of the page, the projections and the processes.
TypeOK ==
    /\ remote \in Pages
    /\ row \in Pages \cup {NoRow}
    /\ tombstone \in {"none", "in-trash", "ambiguous", "remote_trash"}
    /\ evidence \in {"none"} \cup Absences
    /\ conflict \in [Life -> {"none", "open", "resolving", "resolved", "ignored"}]
    /\ target \in Life \cup {"none"}
    /\ command \in [Commands ->
          [state : {"none", "queued", "verified", "settled", "blocked", "fenced"},
           goal : Life, base : Props \cup {NoBase}]]
    /\ logged \subseteq Logs
    /\ job \in [Processes -> Jobs]
    /\ raced \in BOOLEAN /\ cut \subseteq Life
    /\ edits \in 0..MaxEdits /\ forgets \in 0..MaxForgets /\ crashes \in 0..MaxCrashes

\* A row contradicts the last settled archive or restore only where a conflict for
\* that contradiction was put on record, or a settlement came between a pull's
\* check and its append (decision 0026 in pullOneShotSync).
ContradictionsAreRecorded ==
    row # NoRow /\ target # "none" /\ row.life # target =>
        conflict[row.life] # "none" \/ raced

\* A conflict that waits for its re-assertion has one in the outbox, or is about
\* to; applyPlan appends them one by one and may end in between.
ResolvingIsReasserted ==
    \A r \in Life : conflict[r] = "resolving" =>
        \/ command[r].state # "none"
        \/ r \in cut
        \/ \E p \in Processes : job[p].at = "reassert" /\ job[p].about = r

\* What was never observed before reaches the row, unless it changes first: no
\* freeze, conflict or crash keeps properties away (pullOneShotSync).
NewContentIsMirrored ==
    \A props \in Props :
        LET shown == remote = [props |-> props, life |-> "active"]
        IN  shown /\ <<"row", props, "active">> \notin logged
                ~> ~shown \/ (row # NoRow /\ row.props = props)

\* "Never a silent last-writer-wins flip to the remote value" (store.ts,
\* #hasOpenLifecycleConflict): even where no settlement comes in between, a row
\* leaves the settled target only by the resolution of the conflict that says so.
NoSilentFlip ==
    [][row # NoRow /\ row' # NoRow /\ target' = target
          /\ row.life = target /\ row'.life # target /\ ~raced'
       => conflict[row'.life] = "open" /\ conflict'[row'.life] = "resolved"]_vars
=============================================================================
