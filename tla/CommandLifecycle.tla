-------------------------- MODULE CommandLifecycle --------------------------
(***************************************************************************)
(* What the outbox promises about one command, without log, leases, clocks *)
(* or workers: the states a user of `notion sync status` may see, and the  *)
(* attempt numbers, which only grow and are used once each.                *)
(***************************************************************************)
EXTENDS Naturals

CONSTANT Commands

VARIABLES
    status,  \* of each command
    attempt  \* the newest attempt of each command

Statuses ==
    { "absent",     \* not planned yet
      "waiting",    \* planned, or failed in a way that is retried
      "attempted",  \* an attempt is under way, or its outcome is unknown
      "stopped",    \* failed in a way that is not retried
      "forgotten",  \* stopped because its page was forgotten
      "settled" }

Planned(c) ==
    /\ status[c] = "absent"
    /\ status' = [status EXCEPT ![c] = "waiting"]
    /\ UNCHANGED attempt

\* An attempt begins: the first one, a retry, or one that takes over from an
\* attempt whose outcome is unknown.
Begun(c) ==
    /\ status[c] \in {"waiting", "attempted"}
    /\ status' = [status EXCEPT ![c] = "attempted"]
    /\ attempt' = [attempt EXCEPT ![c] = @ + 1]

\* The newest attempt fails.  That of a forgotten page still may.
Failed(c) ==
    /\ status[c] \in {"attempted", "forgotten"}
    /\ attempt[c] > 0
    /\ \E s \in {"waiting", "stopped"} : status' = [status EXCEPT ![c] = s]
    /\ UNCHANGED attempt

Settled(c) ==
    /\ status[c] = "attempted"
    /\ status' = [status EXCEPT ![c] = "settled"]
    /\ UNCHANGED attempt

Forgotten(c) ==
    /\ status[c] \in {"waiting", "attempted", "stopped"}
    /\ status' = [status EXCEPT ![c] = "forgotten"]
    /\ UNCHANGED attempt

Init ==
    /\ status = [c \in Commands |-> "absent"]
    /\ attempt = [c \in Commands |-> 0]

Next ==
    \E c \in Commands :
        Planned(c) \/ Begun(c) \/ Failed(c) \/ Settled(c) \/ Forgotten(c)

Spec == Init /\ [][Next]_<<status, attempt>>
============================================================================
