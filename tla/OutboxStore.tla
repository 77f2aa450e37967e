---------------------------- MODULE OutboxStore ----------------------------
(***************************************************************************)
(* The private store of notion-datasource-sync, as its outbox sees it: an  *)
(* append-only event log deduplicated by idempotency key, and the          *)
(* `_nds_outbox` projection that is rebuilt from the log at every append.  *)
(*                                                                         *)
(* Time is kept as the code keeps it.  Every inserted event replays the    *)
(* whole log, and the replay stamps EVERY row with the clock of the        *)
(* rebuild, so `updated_at` is the same for all rows and `retry_after_at`  *)
(* is that instant plus the delay.  One variable, the ticks since the last *)
(* rebuild, is therefore all that is left of the two columns.              *)
(***************************************************************************)
EXTENDS Naturals, Sequences

CONSTANTS
    Commands,    \* outbox commands; each has a surface (a page) of its own
    Tokens,      \* lease tokens
    NoToken,     \* a NULL lease_token
    LeaseTicks,  \* leaseDurationMs, in ticks
    RetryTicks   \* retryAfterMillis of a rate-limited attempt, in ticks

ASSUME NoTokenAssumption == NoToken \notin Tokens
ASSUME TicksAssumption == LeaseTicks \in Nat /\ RetryTicks \in Nat

VARIABLES
    log,     \* _nds_sync_event, in sequence order (outbox events only)
    outbox,  \* _nds_outbox, by command
    age      \* ticks since the last rebuild, up to AgeCap

storeVars == <<log, outbox, age>>

AgeCap == IF LeaseTicks > RetryTicks THEN LeaseTicks ELSE RetryTicks

----------------------------------------------------------------------------
(* Rows and events *)

ClaimStates   == {"running", "ambiguous"}
FailureStates == {"retryable", "blocked", "fenced"}
OutboxStates  == {"absent", "queued", "settled"} \cup ClaimStates \cup FailureStates

\* One row; "absent" before the command is planned.  `delayed` says that
\* retry_after_at is not NULL.
OutboxRow == [state : OutboxStates, attempt : Nat,
              token : Tokens \cup {NoToken}, delayed : BOOLEAN]

AbsentRow == [state |-> "absent", attempt |-> 0, token |-> NoToken, delayed |-> FALSE]
QueuedRow == [AbsentRow EXCEPT !.state = "queued"]

PlannedEvents == [type : {"Planned"}, cmd : Commands]
AttemptEvents == [type : {"Attempted"}, cmd : Commands, attempt : Nat,
                  state : ClaimStates \cup FailureStates,
                  token : Tokens, delayed : BOOLEAN]
SettledEvents == [type : {"Settled"}, cmd : Commands, exact : BOOLEAN]
ForgetEvents  == [type : {"Forgotten"}, cmd : Commands, at : Nat]
OutboxEvents  == PlannedEvents \cup AttemptEvents \cup SettledEvents \cup ForgetEvents

Planned(c)      == [type |-> "Planned", cmd |-> c]
\* `exact` says that the observed hash the event records is the desired one.
Settled(c, exact) == [type |-> "Settled", cmd |-> c, exact |-> exact]
Forgotten(c, n) == [type |-> "Forgotten", cmd |-> c, at |-> n]
Attempted(c, n, s, t, d) ==
    [type |-> "Attempted", cmd |-> c, attempt |-> n, state |-> s,
     token |-> t, delayed |-> d]

\* The idempotency key.  A claim's key names the command and the attempt, a
\* report's key its state and delay as well; a settlement's key names the
\* command only, whichever worker and attempt it comes from.
Key(e) ==
    CASE e.type = "Attempted" /\ e.state \in ClaimStates ->
             <<"claim", e.cmd, e.attempt>>
      [] e.type = "Attempted" /\ e.state \notin ClaimStates ->
             <<"report", e.cmd, e.attempt, e.state, e.delayed>>
      [] e.type = "Forgotten" -> <<"forget", e.cmd, e.at>>
      [] e.type \in {"Planned", "Settled"} -> <<e.type, e.cmd>>

----------------------------------------------------------------------------
(* The projection: what one event does to its command's row *)

\* Mutant: a settled row is not told from the others.
UnsettledAlways(row) == row.state # "absent"

Unsettled(row) == row.state \notin {"absent", "settled"}

AfterPlanned(row) == IF row.state = "absent" THEN QueuedRow ELSE row

\* Mutant: only the lease is compared, not the attempt number.
AttemptAppliesByLease(row, e) == Unsettled(row) /\ row.token \in {NoToken, e.token}

\* An attempt of an older number, or of the current number under another
\* lease, is superseded.  A row without a lease matches every lease.
AttemptApplies(row, e) ==
    /\ Unsettled(row)
    /\ e.attempt >= row.attempt
    /\ e.attempt = row.attempt => row.token \in {NoToken, e.token}

\* Mutant: the attempt count is not written.
AfterAttemptedUncounted(row, e) ==
    IF AttemptApplies(row, e)
    THEN [row EXCEPT !.state = e.state, !.token = e.token, !.delayed = e.delayed]
    ELSE row

AfterAttempted(row, e) ==
    IF AttemptApplies(row, e)
    THEN [state |-> e.state, attempt |-> e.attempt, token |-> e.token,
          delayed |-> e.delayed]
    ELSE row

\* The settlement event carries neither the attempt nor the lease it was
\* written under: only its hashes and the state of the row are looked at.
SettlementApplies(row, e) == e.exact /\ row.state \in ClaimStates /\ row.attempt > 0

AfterSettled(row, e) ==
    IF SettlementApplies(row, e)
    THEN [row EXCEPT !.state = "settled", !.token = NoToken]
    ELSE row

AfterForgotten(row) ==
    IF Unsettled(row) THEN [row EXCEPT !.state = "fenced", !.token = NoToken]
    ELSE row

AfterEvent(row, e) ==
    CASE e.type = "Planned"   -> AfterPlanned(row)
      [] e.type = "Attempted" -> AfterAttempted(row, e)
      [] e.type = "Settled"   -> AfterSettled(row, e)
      [] e.type = "Forgotten" -> AfterForgotten(row)

ApplyEvent(table, e) == [table EXCEPT ![e.cmd] = AfterEvent(@, e)]

EmptyOutbox == [c \in Commands |-> AbsentRow]

\* Clearing the tables and applying the log from its first event.
Replay(events) ==
    LET table[n \in 0..Len(events)] ==
          IF n = 0 THEN EmptyOutbox ELSE ApplyEvent(table[n - 1], events[n])
    IN  table[Len(events)]

----------------------------------------------------------------------------
(* The store's operations *)

InLog(e) == \E i \in 1..Len(log) : Key(log[i]) = Key(e)

Rebuilt == outbox' = Replay(log') /\ age' = 0

\* An event whose key is taken is returned as it is: nothing is written and
\* nothing is rebuilt.
AppendEvent(e) ==
    IF InLog(e) THEN UNCHANGED storeVars
    ELSE log' = Append(log, e) /\ Rebuilt

\* The same rebuild, caused by an event the outbox does not read (an
\* observation, a conflict, a checkpoint) or asked for by rebuildProjections.
RebuildProjections == UNCHANGED log /\ Rebuilt

\* Mutant: ambiguous commands wait for somebody to look at them.
ClaimableUnambiguous(c) ==
    LET row == outbox[c] IN
    \/ row.state = "queued"
    \/ row.state = "retryable" /\ (row.delayed => age >= RetryTicks)
    \/ row.state = "running" /\ age >= LeaseTicks

\* Mutant: blocked commands are tried again.
ClaimableBlocked(c) ==
    LET row == outbox[c] IN
    \/ row.state \in {"queued", "ambiguous", "blocked"}
    \/ row.state = "retryable" /\ (row.delayed => age >= RetryTicks)
    \/ row.state = "running" /\ age >= LeaseTicks

Claimable(c) ==
    LET row == outbox[c] IN
    \/ row.state \in {"queued", "ambiguous"}
    \/ row.state = "retryable" /\ (row.delayed => age >= RetryTicks)
    \/ row.state = "running" /\ age >= LeaseTicks

\* Mutant: the claim keeps the state it finds.
ClaimStateKept(row) == row.state

\* A running command whose lease ran out is claimed as ambiguous; every other
\* claim, the claim of an ambiguous command included, is running.
ClaimState(row) == IF row.state = "running" THEN "ambiguous" ELSE "running"

ClaimEvent(c, t) ==
    Attempted(c, outbox[c].attempt + 1, ClaimState(outbox[c]), t, FALSE)

\* Mutant: any lease will do.
LeaseActiveForAnyone(c, t) == outbox[c].state = "running" /\ t \in Tokens

LeaseActive(c, t) == outbox[c].state = "running" /\ outbox[c].token = t

\* Mutant: ambiguous commands do not block compaction.
CompactionAllowedDespiteAmbiguity ==
    \A c \in Commands :
        \/ outbox[c].state \in {"absent", "settled", "ambiguous"}
        \/ outbox[c].state \in {"blocked", "fenced"} /\ outbox[c].token = NoToken

CompactionAllowed ==
    \A c \in Commands :
        \/ outbox[c].state \in {"absent", "settled"}
        \/ outbox[c].state \in {"blocked", "fenced"} /\ outbox[c].token = NoToken

StoreInit == log = <<>> /\ outbox = EmptyOutbox /\ age = 0

StoreTypeOK ==
    /\ log \in Seq(OutboxEvents)
    /\ outbox \in [Commands -> OutboxRow]
    /\ age \in 0..AgeCap
============================================================================
