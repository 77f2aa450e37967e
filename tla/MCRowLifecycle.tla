--------------------------- MODULE MCRowLifecycle ---------------------------
(* Processes over one page. *)
EXTENDS RowLifecycle

CONSTANTS p1, p2, a, b, i1
=============================================================================
