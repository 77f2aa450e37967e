--------------------------- MODULE OutboxExecutor ---------------------------
(***************************************************************************)
(* executeOutboxOnce, run by several workers (watch daemons and one-shot   *)
(* syncs) over one store and against one remote workspace that other       *)
(* people edit.  A worker's run is cut at each of its awaits: the claim,   *)
(* the observation of the remote surface, the lease check, the write       *)
(* request, the observation after it, and the append that ends the run     *)
(* are separate steps, and anything may happen between two of them.        *)
(***************************************************************************)
EXTENDS OutboxStore

CONSTANTS
    CommandKinds, \* the kinds of commands planned, see Kinds
    Workers,     \* processes that drain the outbox
    Token,       \* the lease token of each worker
    MaxAttempts, \* bound: claims of one command
    MaxFaults,   \* bound: remote errors, third-party edits and stopped workers
    MaxForgets   \* bound: `forget` commands

(***************************************************************************)
(* What tells the commands apart is how their write shows in the two       *)
(* hashes an observation returns.                                          *)
(*   hash      schema and metadata patches, body pushes: one hash, which   *)
(*             the write moves from the command's base to its desired one  *)
(*   property  page property patches: the page's hash moves off the base,  *)
(*             but is never the desired hash of the property surface       *)
(*   relation  patches of a relation too long for the page retrieval to    *)
(*             show: the page's hash stays the base; the relation itself,  *)
(*             read page by page after the write, has the desired hash     *)
(*   lifecycle trash and restore: the base (properties) hash stays, the    *)
(*             lifecycle hash becomes the desired one                      *)
(*   create    neither the base (schema) hash nor any other one moves      *)
(***************************************************************************)
Kinds == {"hash", "property", "relation", "lifecycle", "create"}

ASSUME WorkersAssumption ==
    /\ CommandKinds \subseteq Kinds
    /\ Token \in [Workers -> Tokens]
    /\ MaxAttempts \in Nat /\ MaxFaults \in Nat /\ MaxForgets \in Nat

VARIABLES
    kind,     \* the kind of each command; never changes
    pc,       \* where each worker is in executeOutboxOnce
    job,      \* the command it has claimed
    network,  \* write requests sent and not yet carried out
    remote,   \* the surface of each command, as the two hash comparisons see it
    applied,  \* how often a request of the command was carried out
    seen,     \* history: an observation returned the desired hash
    faults,   \* faults so far
    forgets   \* forget commands so far

workerVars == <<pc, job>>
remoteVars == <<kind, network, remote, applied>>
vars == <<storeVars, workerVars, remoteVars, seen, faults, forgets>>

Places == {"idle", "observe", "lease", "await", "verify", "settle", "record"}

\* What a run has to report: how it failed ("later" is a retryable failure that
\* carries Retry-After), or that the hash it verified is not the desired one.
Failures == {"retryable", "later", "blocked", "fenced"}
Reports  == Failures \cup {"none", "unmoved"}

Jobs == [cmd : Commands, attempt : Nat, state : ClaimStates, report : Reports]
NoJob == [cmd |-> "none", attempt |-> 0, state |-> "running", report |-> "none"]

Requests == [cmd : Commands, attempt : Nat, checked : BOOLEAN]

\* base: the observed base hash is the one the command was planned against.
\* met: the observed verification hash is the desired one.
Surfaces(k) ==
    [base : BOOLEAN,
     met  : IF k \in {"hash", "lifecycle"} THEN BOOLEAN ELSE {FALSE}]
        \ (IF k = "hash" THEN {[base |-> TRUE, met |-> TRUE]} ELSE {})

Unwritten == [base |-> TRUE, met |-> FALSE]

Written(k, surface) ==
    [base |-> surface.base /\ k \in {"relation", "lifecycle", "create"},
     met  |-> k \in {"hash", "lifecycle"}]

----------------------------------------------------------------------------
(* Steps of a run *)

Busy(w) == pc[w] # "idle"

Goto(w, place) == pc' = [pc EXCEPT ![w] = place]

Finish(w) == Goto(w, "idle") /\ job' = [job EXCEPT ![w] = NoJob]

Fail(w, report) ==
    /\ Goto(w, "record")
    /\ job' = [job EXCEPT ![w].report = report]

Fault == faults < MaxFaults /\ faults' = faults + 1

\* A planned command enters the log; planning it again finds its key taken.
Plan(c) ==
    /\ AppendEvent(Planned(c))
    /\ UNCHANGED <<workerVars, remoteVars, seen, faults, forgets>>

Claim(w) ==
    /\ pc[w] = "idle"
    /\ \E c \in Commands :
          /\ Claimable(c)
          /\ outbox[c].attempt < MaxAttempts
          /\ job' = [job EXCEPT ![w] = [cmd |-> c, attempt |-> outbox[c].attempt + 1,
                                        state |-> ClaimState(outbox[c]), report |-> "none"]]
          /\ AppendEvent(ClaimEvent(c, Token[w]))
    /\ Goto(w, "observe")
    /\ UNCHANGED <<remoteVars, seen, faults, forgets>>

\* The remote surface is read; what was read decides how the run goes on.  An
\* ambiguous attempt that does not find its desired hash ends here, without
\* an event.
ObserveBefore(w) ==
    /\ pc[w] = "observe"
    /\ LET c == job[w].cmd
           surface == remote[c] IN
       /\ seen' = [seen EXCEPT ![c] = @ \/ surface.met]
       /\ \/ surface.met /\ Goto(w, "settle") /\ UNCHANGED job
          \/ ~surface.met /\ job[w].state = "ambiguous" /\ Finish(w)
          \/ ~surface.met /\ job[w].state = "running" /\ ~surface.base /\ Fail(w, "blocked")
          \/ /\ ~surface.met /\ job[w].state = "running" /\ surface.base
             /\ Goto(w, "lease") /\ UNCHANGED job
    /\ UNCHANGED <<storeVars, remoteVars, faults, forgets>>

\* An observation that fails, before or after the write; after it, also one
\* that reads back a relation somebody edited meanwhile.
ObserveError(w) ==
    /\ pc[w] \in {"observe", "verify"}
    /\ \E report \in {"retryable", "later"} \cup
                     (IF pc[w] = "observe" THEN {"blocked"} ELSE {}) : Fail(w, report)
    /\ Fault
    /\ UNCHANGED <<storeVars, remoteVars, seen, forgets>>

\* The last look at the lease; the request leaves outside any transaction.
CheckLease(w) ==
    /\ pc[w] = "lease"
    /\ IF LeaseActive(job[w].cmd, Token[w])
       THEN /\ network' = network \cup
                   {[cmd |-> job[w].cmd, attempt |-> job[w].attempt, checked |-> FALSE]}
            /\ Goto(w, "await")
            /\ UNCHANGED job
       ELSE Fail(w, "fenced") /\ UNCHANGED network
    /\ UNCHANGED <<storeVars, kind, remote, applied, seen, faults, forgets>>

Awaits(w, r) == pc[w] = "await" /\ job[w].cmd = r.cmd /\ job[w].attempt = r.attempt

\* Every waiter of the request goes on to the same place.
Answer(r, place, report) ==
    /\ pc' = [w \in Workers |-> IF Awaits(w, r) THEN place ELSE pc[w]]
    /\ job' = [w \in Workers |->
                  IF Awaits(w, r) THEN [job[w] EXCEPT !.report = report] ELSE job[w]]

\* How a stale base is reported: a body push refuses it with an error of its
\* own class, which is retried.
Refusals(k) == {"blocked"} \cup (IF k = "hash" THEN {"retryable"} ELSE {})

\* The gateway reads the surface once more before it writes, and refuses a
\* stale base.
GatewayCheck(r) ==
    /\ ~r.checked
    /\ IF remote[r.cmd].base
       THEN /\ network' = (network \ {r}) \cup {[r EXCEPT !.checked = TRUE]}
            /\ UNCHANGED workerVars
       ELSE /\ network' = network \ {r}
            /\ \E report \in Refusals(kind[r.cmd]) : Answer(r, "record", report)
    /\ UNCHANGED <<storeVars, kind, remote, applied, seen, faults, forgets>>

\* The write happens.  A created page is returned by the request itself; all
\* other kinds are verified by reading the surface again.
RemoteWrite(r) ==
    /\ r.checked
    /\ network' = network \ {r}
    /\ remote' = [remote EXCEPT ![r.cmd] = Written(kind[r.cmd], @)]
    /\ applied' = [applied EXCEPT ![r.cmd] = @ + 1]
    /\ Answer(r, IF kind[r.cmd] = "create" THEN "settle" ELSE "verify", "none")
    /\ UNCHANGED <<storeVars, kind, seen, faults, forgets>>

\* The gateway's read fails and nothing was sent, or the write itself fails or
\* loses its answer: then it is gone, or still on its way.
WriteError(w) ==
    /\ pc[w] = "await"
    /\ \E report \in {"retryable", "later"} : Fail(w, report)
    /\ \E r \in network :
          /\ Awaits(w, r)
          /\ network' \in {network \ {r}} \cup (IF r.checked THEN {network} ELSE {})
    /\ Fault
    /\ UNCHANGED <<storeVars, kind, remote, applied, seen, forgets>>

\* Mutant: a write that was answered is taken for verified.
VerifiedByAnswer(k, surface) == surface \in Surfaces(k)

\* A property patch is verified by any change of the page since the base check,
\* a relation patch by the relation it reads back as well.
Verified(k, surface) ==
    \/ k \in {"hash", "lifecycle"} /\ surface.met
    \/ k = "property" /\ ~surface.base
    \/ k = "relation"

\* A relation patch that did not change the page settles under the page's hash.
ObserveAfter(w) ==
    /\ pc[w] = "verify"
    /\ LET c == job[w].cmd
           unmoved == kind[c] = "relation" /\ remote[c].base IN
       /\ seen' = [seen EXCEPT ![c] = @ \/ remote[c].met]
       /\ IF Verified(kind[c], remote[c])
          THEN /\ Goto(w, "settle")
               /\ job' = [job EXCEPT ![w].report = IF unmoved THEN "unmoved" ELSE "none"]
          ELSE Fail(w, "retryable")
    /\ UNCHANGED <<storeVars, remoteVars, faults, forgets>>

Settle(w) ==
    /\ pc[w] = "settle"
    /\ AppendEvent(Settled(job[w].cmd, job[w].report # "unmoved"))
    /\ Finish(w)
    /\ UNCHANGED <<remoteVars, seen, faults, forgets>>

RecordAttemptState(w) ==
    /\ pc[w] = "record"
    /\ LET j == job[w]
           state == IF j.report = "later" THEN "retryable" ELSE j.report IN
       AppendEvent(Attempted(j.cmd, j.attempt, state, Token[w], j.report = "later"))
    /\ Finish(w)
    /\ UNCHANGED <<remoteVars, seen, faults, forgets>>

----------------------------------------------------------------------------
(* Around the runs *)

\* The process dies, its cycle is cancelled or timed out, or a store transaction
\* fails: the run is abandoned, a write already sent is not.
Stop(w) ==
    /\ Busy(w)
    /\ Finish(w)
    /\ network' = {r \in network : Awaits(w, r) => r.checked}
    /\ Fault
    /\ UNCHANGED <<storeVars, kind, remote, applied, seen, forgets>>

\* Somebody else edits the surface.
ThirdPartyEdit(c) ==
    /\ \E surface \in Surfaces(kind[c]) \ {remote[c]} :
          remote' = [remote EXCEPT ![c] = surface]
    /\ Fault
    /\ UNCHANGED <<storeVars, workerVars, kind, network, applied, seen, forgets>>

\* `notion db forget` of the page a command writes to, under a key that no
\* earlier forget has.  A page still to be created cannot be named.
Forget(c) ==
    /\ kind[c] # "create"
    /\ forgets < MaxForgets
    /\ forgets' = forgets + 1
    /\ AppendEvent(Forgotten(c, forgets))
    /\ UNCHANGED <<workerVars, remoteVars, seen, faults>>

Rebuild ==
    /\ RebuildProjections
    /\ UNCHANGED <<workerVars, remoteVars, seen, faults, forgets>>

Tick ==
    /\ age < AgeCap
    /\ age' = age + 1
    /\ UNCHANGED <<log, outbox, workerVars, remoteVars, seen, faults, forgets>>

WorkerStep(w) ==
    \/ Claim(w) \/ ObserveBefore(w) \/ CheckLease(w) \/ ObserveAfter(w)
    \/ Settle(w) \/ RecordAttemptState(w)

Faulty(w) == ObserveError(w) \/ WriteError(w) \/ Stop(w)

GatewayStep(r) == GatewayCheck(r) \/ RemoteWrite(r)

Init ==
    /\ StoreInit
    /\ kind \in [Commands -> CommandKinds]
    /\ pc = [w \in Workers |-> "idle"]
    /\ job = [w \in Workers |-> NoJob]
    /\ network = {}
    /\ remote = [c \in Commands |-> Unwritten]
    /\ applied = [c \in Commands |-> 0]
    /\ seen = [c \in Commands |-> FALSE]
    /\ faults = 0
    /\ forgets = 0

Next ==
    \/ \E c \in Commands : Plan(c) \/ ThirdPartyEdit(c) \/ Forget(c)
    \/ \E w \in Workers : WorkerStep(w) \/ Faulty(w)
    \/ \E r \in network : GatewayStep(r)
    \/ Rebuild
    \/ Tick

Spec == Init /\ [][Next]_vars

----------------------------------------------------------------------------
(* Correctness *)

\* One-shot syncs of a root all have the same token, a watch daemon has its own.
SharesToken(w) == \E v \in Workers \ {w} : Token[v] = Token[w]

Superseded(w) == Busy(w) /\ job[w].attempt < outbox[job[w].cmd].attempt

HasSettlement(c) == \E i \in 1..Len(log) : log[i].type = "Settled" /\ log[i].cmd = c

\* The page was forgotten after the command had been planned.
IsForgotten(c) ==
    \E i, j \in 1..Len(log) :
        i < j /\ log[i] = Planned(c) /\ log[j].type = "Forgotten" /\ log[j].cmd = c

\* Types of every variable of the store, the workers and the remote side.
TypeOK ==
    /\ StoreTypeOK
    /\ kind \in [Commands -> Kinds]
    /\ pc \in [Workers -> Places]
    /\ \A w \in Workers : job[w] \in IF Busy(w) THEN Jobs ELSE {NoJob}
    /\ job \in [Workers -> Jobs \cup {NoJob}]
    /\ \A w \in Workers : pc[w] = "record" => job[w].report \in Failures
    /\ network \in SUBSET Requests
    /\ remote \in [Commands -> [base : BOOLEAN, met : BOOLEAN]]
    /\ \A c \in Commands : remote[c] \in Surfaces(kind[c])
    /\ applied \in [Commands -> Nat]
    /\ seen \in [Commands -> BOOLEAN]
    /\ faults \in 0..MaxFaults
    /\ forgets \in 0..MaxForgets

\* No two runs ever work on the same attempt of a command, however long one of
\* them sleeps: the attempt number is what fences them (claimNextOutboxCommand).
OneWorkerPerAttempt ==
    \A v, w \in Workers :
        v # w /\ Busy(v) /\ Busy(w) /\ job[v].cmd = job[w].cmd
            => job[v].attempt # job[w].attempt

\* A command is settled only on evidence.  Where the desired hash can be
\* observed some run observed it; where it cannot, the write was carried out.
SettledHasEvidence ==
    \A c \in Commands :
        outbox[c].state = "settled" =>
            IF kind[c] \in {"hash", "lifecycle"} THEN seen[c] ELSE applied[c] > 0

\* While compaction of the log is allowed, no run is under way on a command
\* that is not settled, unless its page was forgotten (getCompactionDecision).
CompactionFindsNoRun ==
    CompactionAllowed =>
        \A w \in Workers : Busy(w) =>
            \/ outbox[job[w].cmd].state = "settled"
            \/ IsForgotten(job[w].cmd)

\* Of the runs on a command, the one with the newest attempt sends the write
\* request: the lease check stops a run that was superseded while it was
\* observing (isOutboxLeaseActive).  Only a run whose token another worker has as
\* well gets past it, and not before the command was taken over twice: the first
\* takeover is an ambiguous one, which keeps everybody from writing.
WritesAreFenced ==
    [][\A w \in Workers :
          pc[w] = "lease" /\ pc'[w] = "await" =>
              LET newest == outbox[job[w].cmd].attempt
              IN  \/ newest = job[w].attempt
                  \/ SharesToken(w) /\ newest >= job[w].attempt + 2]_vars

\* What a superseded run reports of its failure changes no row (#applyEvent).
SupersededReportsIgnored ==
    [][\A w \in Workers :
          pc[w] = "record" /\ pc'[w] = "idle" /\ Superseded(w)
              => outbox' = outbox]_vars

\* A settled command stays as it is, whatever late runs append.
SettledIsFinal ==
    [][\A c \in Commands :
          outbox[c].state = "settled" => outbox'[c] = outbox[c]]_vars

\* The status a command shows: a row that a `forget` fenced has lost its lease.
Status(c) ==
    LET row == outbox[c] IN
    CASE row.state \in {"absent", "settled"}   -> row.state
      [] row.state \in {"queued", "retryable"} -> "waiting"
      [] row.state \in ClaimStates             -> "attempted"
      [] row.state \in {"blocked", "fenced"}   ->
             IF row.token = NoToken THEN "forgotten" ELSE "stopped"

Lifecycle ==
    INSTANCE CommandLifecycle WITH
        status  <- [c \in Commands |-> Status(c)],
        attempt <- [c \in Commands |-> outbox[c].attempt]

\* Whatever the workers do, a command goes through its life cycle: an attempt
\* number is used once, a stopped command is neither tried nor settled again,
\* and only an attempted one settles.
ImplementsLifecycle == Lifecycle!Spec

----------------------------------------------------------------------------
(* Liveness.  A lease is long against a run: it runs out only under a worker   *)
(* that stopped.  No other event keeps postponing the clock.                   *)

TimelyNext ==
    \/ Next /\ ~Rebuild /\ (Tick => \A w \in Workers : ~Busy(w))

TimelySpec ==
    /\ Init /\ [][TimelyNext]_vars
    /\ \A w \in Workers : WF_vars(WorkerStep(w))
    /\ \A w \in Workers :
          WF_vars(\E r \in network : Awaits(w, r) /\ GatewayStep(r))
    /\ WF_vars(Tick /\ \A w \in Workers : ~Busy(w))

AtRest(c) == outbox[c].state \in {"settled", "blocked", "fenced"}

\* Every planned command comes to rest: settled, or stopped by a guard.
PlannedCommandsRest ==
    \A c \in Commands : outbox[c].state = "queued" ~> AtRest(c)

----------------------------------------------------------------------------
(* What the documents say and the code does not keep *)

\* A planned page is created at most once.
OnePagePerCreate == \A c \in Commands : kind[c] = "create" => applied[c] <= 1

\* Once its page is forgotten, a command has no new effect on the remote side.
ForgottenPagesAreLeftAlone ==
    [][\A w \in Workers :
          pc[w] = "lease" /\ pc'[w] = "await" => ~IsForgotten(job[w].cmd)]_vars
============================================================================
