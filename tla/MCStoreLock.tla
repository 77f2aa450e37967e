---------------------------- MODULE MCStoreLock ----------------------------
EXTENDS StoreLock, TLC

CONSTANTS h1, h2, h3, p1, p2

\* Two calls in one process and one in another.
MCProcessOf == h1 :> p1 @@ h2 :> p1 @@ h3 :> p2
=============================================================================
