------------------------------ MODULE MCOutbox ------------------------------
(* Two one-shot syncs of a root, which share their lease token, and a watch    *)
(* daemon with a token of its own.                                             *)
EXTENDS OutboxExecutor, TLC

CONSTANTS w1, w2, daemon, c1, t1, t2

LeaseTokens == [w \in Workers |-> IF w = daemon THEN t2 ELSE t1]
OneShotSyncs == Permutations({w1, w2})
=============================================================================
