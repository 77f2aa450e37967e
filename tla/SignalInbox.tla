----------------------------- MODULE SignalInbox -----------------------------
(***************************************************************************)
(* The signal inbox of the private store (`_nds_signal_inbox`): durable    *)
(* hints that something changed remotely, claimed by watch daemons under   *)
(* leases of their own.  Unlike the outbox it is no projection: rows are   *)
(* updated in place and keep the time of their claim.                      *)
(***************************************************************************)
EXTENDS Naturals

CONSTANTS
    Signals,     \* external ids of webhook events
    Instances,   \* daemon instances; the lease token of one is its identity
    NoInstance,  \* a NULL lease_token
    SignalLease  \* leaseDurationMs of a claim, in ticks

ASSUME NoInstanceAssumption == NoInstance \notin Instances
ASSUME SignalLeaseAssumption == SignalLease \in Nat

VARIABLE inbox  \* the row of each signal

\* `age` counts the ticks since claimed_at, up to the lease, while it matters.
SignalRow == [state : {"absent", "pending", "claimed", "processed"},
              token : Instances \cup {NoInstance},
              age : 0..SignalLease]

AbsentSignal == [state |-> "absent", token |-> NoInstance, age |-> 0]
PendingSignal == [AbsentSignal EXCEPT !.state = "pending"]
ProcessedSignal == [AbsentSignal EXCEPT !.state = "processed"]

\* A signal is inserted once; a redelivery finds its external id, processed or
\* not.
EnqueueSignal(s) ==
    inbox' = IF inbox[s].state = "absent"
             THEN [inbox EXCEPT ![s] = PendingSignal] ELSE inbox

\* Mutant: a claim is never taken over.
ClaimablePending(s) == inbox[s].state = "pending"

ClaimableSignal(s) ==
    \/ inbox[s].state = "pending"
    \/ inbox[s].state = "claimed" /\ inbox[s].age >= SignalLease

ClaimSignal(s, t) ==
    /\ ClaimableSignal(s)
    /\ inbox' = [inbox EXCEPT ![s] = [state |-> "claimed", token |-> t, age |-> 0]]

\* Mutant: any claim will do.
HoldsAnyLease(s, t) == inbox[s].state = "claimed" /\ t \in Instances

HoldsSignal(s, t) == inbox[s].state = "claimed" /\ inbox[s].token = t

SettleSignal(s, t) ==
    inbox' = IF HoldsSignal(s, t) THEN [inbox EXCEPT ![s] = ProcessedSignal] ELSE inbox

\* Mutant: giving a signal back marks it as done.
ReleaseAsProcessed(s, t) == SettleSignal(s, t)

\* The daemons never release a signal as `failed`.
ReleaseSignal(s, t) ==
    inbox' = IF HoldsSignal(s, t) THEN [inbox EXCEPT ![s] = PendingSignal] ELSE inbox

\* Mutant: ages past the lease, and of rows that nobody has claimed.
AgedRegardless(row) == [row EXCEPT !.age = @ + 1]

Aged(row) ==
    IF row.state = "claimed" /\ row.age < SignalLease
    THEN [row EXCEPT !.age = @ + 1] ELSE row

PassTime == inbox' = [s \in Signals |-> Aged(inbox[s])]

InboxInit == inbox = [s \in Signals |-> AbsentSignal]

InboxTypeOK == inbox \in [Signals -> SignalRow]
==============================================================================
