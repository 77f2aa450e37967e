---------------------------- MODULE MCWatchDaemon ----------------------------
(* A daemon and its replacement. *)
EXTENDS WatchDaemon

CONSTANTS d1, d2

Announced == 1..MaxEdits
==============================================================================
