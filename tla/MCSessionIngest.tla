--------------------------- MODULE MCSessionIngest ---------------------------
(* An agent that may replace its transcript, by one that starts otherwise or   *)
(* alike; agents whose transcripts have a record longer than a first read, one *)
(* with a character of three bytes, or one that does not decode; two agents    *)
(* whose pollers share the checkpoint file; and one that keeps its session in  *)
(* a database.                                                                 *)
EXTENDS SessionIngest, TLC

CONSTANTS codex, kept, lengthy, accented, broken, claude, other, opencode,
          r1, r2, r3, r4, q1, q2, long, wide, bad

RecordWidths ==
    [r \in Records |->
        CASE r \in {q1, q2, bad} -> 1 [] r = wide -> 3 [] r = long -> 6 [] OTHER -> 2]
ThreeBytes == {<<wide, 2>>, <<wide, 3>>}
AloneOrTogether ==
    {{codex}, {kept}, {lengthy}, {accented}, {broken}, {claude, other}, {opencode}}
Replaced ==
    (codex :> <<<<r1, r2>>, <<r3, r4>>>>) @@ (kept :> <<<<r1, r2>>, <<r1, r4>>>>) @@
    (lengthy :> <<<<long, q1>>>>) @@ (accented :> <<<<q1, wide, q2>>>>) @@
    (broken :> <<<<q1, bad, q2>>>>) @@ (claude :> <<<<q1>>>>) @@ (other :> <<<<q2>>>>)
AppendedTo == codex :> <<<<wide, q1>>>>
MessageAndParts == {<<1, 1>>, <<2, 1>>, <<2, 2>>}
\* Part 1 is "B" and part 2 is "a".
LocaleOrder == [k \in MessageAndParts \cup {SessionKey} |-> IF k = <<2, 1>> THEN 2 ELSE 1]
=============================================================================
