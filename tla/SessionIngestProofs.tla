------------------------- MODULE SessionIngestProofs -------------------------
(***************************************************************************)
(* Checkpoints are well-formed, and neither a record of a JSONL transcript *)
(* nor a row is passed by: for any number of sources of either kind that   *)
(* share the checkpoint file, any transcripts and widths of records, any   *)
(* sizes at which a file is seen or replaced, any rows and changes, any    *)
(* times and deaths.                                                       *)
(*                                                                         *)
(* A transcript is laid out as Ends says (TextLayout): the line of record  *)
(* i are the bytes from Ends[i - 1] + 1 to Ends[i], and no other place has *)
(* a newline.  A file, and what a read takes of it, are parts of that      *)
(* layout (Matches), so that what is decoded is exactly the records that   *)
(* start after a place and end before another (LinesAreComplete,           *)
(* LinesAreSound).  The invariant says of every cursor anybody holds that  *)
(* what it passes was given, will be, or may be missed, and that it lies   *)
(* behind a line (Sound).  A second one (RepeatInv) says where everything  *)
(* that was handed over lies: before the cursor of the poll that did.      *)
(* Nothing is assumed of what transcripts hold: a read in which characters *)
(* of several bytes are counted as one ends too early, never too late      *)
(* (NextOffsetFacts), and no earlier than the line before the first of     *)
(* them (NextOffsetBeyond).                                                *)
(***************************************************************************)
EXTENDS SessionIngest, FiniteSetTheorems, InductionLemmas

----------------------------------------------------------------------------
(* Transcripts, byte by byte *)

\* Where the line of each record of a transcript ends.
Ends(recs) ==
    LET end[i \in 0..Len(recs)] ==
            IF i = 0 THEN 0 ELSE end[i - 1] + Width[recs[i]] + 1
    IN  end

Bytes == Records \X Nat \cup {NL}
ByteLines(recs) == [i \in DOMAIN recs |-> Append(Line(recs[i]), NL)]

LEMMA LineBytes ==
    ASSUME NEW r \in Records
    PROVE  /\ Width[r] \in Nat \ {0}
           /\ Line(r) \in Seq(Bytes) /\ Len(Line(r)) = Width[r]
           /\ \A j \in 1..Width[r] : Line(r)[j] = <<r, j>> /\ <<r, j>> # NL
           /\ Append(Line(r), NL) \in Seq(Bytes)
           /\ Len(Append(Line(r), NL)) = Width[r] + 1
           /\ \A j \in 1..Width[r] : Append(Line(r), NL)[j] = <<r, j>>
           /\ Append(Line(r), NL)[Width[r] + 1] = NL
<1>1. Width[r] \in Nat \ {0}
  BY WidthAssumption
<1>2. Line(r) \in Seq(Bytes) /\ Len(Line(r)) = Width[r]
  BY <1>1 DEF Line, Bytes
<1>3. \A j \in 1..Width[r] : Line(r)[j] = <<r, j>> /\ <<r, j>> # NL
  BY BytesAssumption DEF Line
<1>4. NL \in Bytes
  BY DEF Bytes
<1>5. QED
  BY <1>1, <1>2, <1>3, <1>4

\* The recursive definition of Ends holds of it.
LEMMA EndsUnfold ==
    ASSUME NEW recs \in Seq(Records)
    PROVE  /\ Ends(recs) \in [0..Len(recs) -> Nat]
           /\ Ends(recs)[0] = 0
           /\ \A i \in 1..Len(recs) : Ends(recs)[i] = Ends(recs)[i - 1] + Width[recs[i]] + 1
<1> DEFINE n == Len(recs)
           step == [p \in Nat \X (1..n) |-> p[1] + Width[recs[p[2]]] + 1]
           Unfolds(e) == e = [i \in 0..n |-> IF i = 0 THEN 0 ELSE e[i - 1] + Width[recs[i]] + 1]
<1>1. n \in Nat
  OBVIOUS
<1>2. \A i \in 1..n : recs[i] \in Records /\ Width[recs[i]] \in Nat
  BY WidthAssumption
<1>3. \A t \in Nat : \A i \in 1..n : step[<<t, i>>] = t + Width[recs[i]] + 1
  OBVIOUS
<1>4. \A t \in Nat : \A i \in 1..n : step[<<t, i>>] \in Nat
  <2> SUFFICES ASSUME NEW t \in Nat, NEW i \in 1..n PROVE t + Width[recs[i]] + 1 \in Nat
    BY <1>3
  <2> HIDE DEF n
  <2> QED
    BY <1>2
<1>5. PICK f : IsStepwise(f, n, Nat, 0, step)
  <2> HIDE DEF step, n
  <2> QED
    BY <1>1, <1>4, StepwiseFunction
<1>6. f \in [0..n -> Nat] /\ f[0] = 0 /\ \A i \in 1..n : f[i] = step[<<f[i - 1], i>>]
  BY <1>5 DEF IsStepwise
<1>7. \A i \in 1..n : f[i] = f[i - 1] + Width[recs[i]] + 1
  <2> SUFFICES ASSUME NEW i \in 1..n PROVE f[i] = f[i - 1] + Width[recs[i]] + 1
    OBVIOUS
  <2> HIDE DEF step, n
  <2>1. i - 1 \in 0..n
    BY <1>1
  <2>2. QED
    BY <1>3, <1>6, <2>1
<1>8. Unfolds(f)
  <2> HIDE DEF n
  <2>1. ASSUME NEW i \in 0..n
        PROVE  f[i] = IF i = 0 THEN 0 ELSE f[i - 1] + Width[recs[i]] + 1
    <3>1. i = 0 \/ i \in 1..n
      BY <1>1
    <3>2. QED
      BY <1>6, <1>7, <3>1
  <2>2. QED
    BY <1>6, <2>1
<1>9. Unfolds(Ends(recs))
  <2>1. Ends(recs) = CHOOSE e : Unfolds(e)
    BY DEF Ends
  <2>2. \E e : Unfolds(e)
    <3> HIDE DEF Unfolds
    <3> QED
      BY <1>8
  <2> HIDE DEF Unfolds
  <2>3. QED
    BY <2>1, <2>2
<1> DEFINE e == Ends(recs)
<1>10. \A i \in 0..n : e[i] = IF i = 0 THEN 0 ELSE e[i - 1] + Width[recs[i]] + 1
  <2> DEFINE F == [i \in 0..n |-> IF i = 0 THEN 0 ELSE e[i - 1] + Width[recs[i]] + 1]
  <2>1. e = F
    BY <1>9
  <2>2. \A i \in 0..n : F[i] = IF i = 0 THEN 0 ELSE e[i - 1] + Width[recs[i]] + 1
    OBVIOUS
  <2> HIDE DEF F, e
  <2>3. QED
    BY <2>1, <2>2
<1>11. DOMAIN e = 0..n /\ e = [i \in 0..n |-> e[i]]
  <2> DEFINE F == [i \in 0..n |-> IF i = 0 THEN 0 ELSE e[i - 1] + Width[recs[i]] + 1]
  <2>1. e = F
    BY <1>9
  <2>2. DOMAIN F = 0..n /\ F = [i \in 0..n |-> F[i]]
    OBVIOUS
  <2> HIDE DEF F, e
  <2>3. QED
    BY <2>1, <2>2
<1> HIDE DEF e, n
<1> DEFINE S == {i \in 0..n : e[i] = f[i]}
<1>12. 0 \in S
  BY <1>1, <1>6, <1>10
<1>13. ASSUME NEW k \in 0..(n - 1), k \in S PROVE k + 1 \in S
  <2> DEFINE x == k + 1
  <2>1. x \in 1..n /\ x \in 0..n /\ x # 0 /\ x - 1 = k
    BY <1>1
  <2> HIDE DEF x
  <2>2. e[x] = e[x - 1] + Width[recs[x]] + 1 /\ f[x] = f[x - 1] + Width[recs[x]] + 1
    BY <1>7, <1>10, <2>1
  <2>3. e[x] = f[x]
    BY <1>13, <2>1, <2>2
  <2>4. QED
    BY <2>1, <2>3 DEF x
<1>14. 0..n \subseteq S
  <2> HIDE DEF S
  <2> QED
    BY <1>1, <1>12, <1>13, BoundedInduction, Zenon
<1>15. \A i \in 0..n : e[i] = f[i]
  BY <1>14
<1>16. e = f
  BY <1>6, <1>11, <1>15
<1>17. QED
  BY <1>6, <1>7, <1>16 DEF e, n

\* The lines of a text are laid out as Ends says.
LEMMA TextLayout ==
    ASSUME NEW recs \in Seq(Records)
    PROVE  /\ Text(recs) \in Seq(Bytes)
           /\ Len(Text(recs)) = Ends(recs)[Len(recs)]
           /\ \A i \in 1..Len(recs) : \A j \in 1..Width[recs[i]] :
                 Text(recs)[Ends(recs)[i - 1] + j] = <<recs[i], j>>
           /\ \A i \in 1..Len(recs) : Text(recs)[Ends(recs)[i]] = NL
           /\ \A p \in 1..Len(Text(recs)) :
                 \E i \in 1..Len(recs) : Ends(recs)[i - 1] < p /\ p <= Ends(recs)[i]
           /\ \A k \in 0..Len(recs) : \A i \in 0..k : Ends(recs)[i] <= Ends(recs)[k]
<1> DEFINE n == Len(recs)
           e == Ends(recs)
           ss == ByteLines(recs)
<1>1. ss \in Seq(Seq(Bytes)) /\ Len(ss) = n
  <2>1. \A i \in 1..n : recs[i] \in Records
    OBVIOUS
  <2>2. \A i \in 1..n : Append(Line(recs[i]), NL) \in Seq(Bytes)
    BY <2>1, LineBytes
  <2>3. ss = [i \in 1..n |-> Append(Line(recs[i]), NL)] /\ n \in Nat
    BY DEF ByteLines
  <2> HIDE DEF ss, n
  <2>4. QED
    BY <2>2, <2>3
<1>2. ASSUME NEW i \in 1..n PROVE ss[i] = Append(Line(recs[i]), NL) /\ recs[i] \in Records
  BY DEF ByteLines
<1>3. n \in Nat
  OBVIOUS
<1>4. e \in [0..n -> Nat] /\ e[0] = 0 /\ \A i \in 1..n : e[i] = e[i - 1] + Width[recs[i]] + 1
  BY EndsUnfold
<1>5. Text(recs) = FlattenSeq(ss)
  BY DEF Text, ByteLines
<1> HIDE DEF e, ss, n
<1>6. ASSUME NEW i \in 1..n
      PROVE  /\ Width[recs[i]] \in Nat \ {0} /\ Len(ss[i]) = Width[recs[i]] + 1
             /\ \A j \in 1..Width[recs[i]] : ss[i][j] = <<recs[i], j>>
             /\ ss[i][Width[recs[i]] + 1] = NL
  <2> DEFINE r == recs[i]
  <2>1. r \in Records /\ ss[i] = Append(Line(r), NL)
    BY <1>2
  <2> HIDE DEF r
  <2>2. /\ Width[r] \in Nat \ {0} /\ Len(ss[i]) = Width[r] + 1
        /\ \A j \in 1..Width[r] : ss[i][j] = <<r, j>>
        /\ ss[i][Width[r] + 1] = NL
    BY <2>1, LineBytes
  <2>3. QED
    BY <2>2 DEF r
<1>7. \A i \in 1..n : e[i - 1] + (Width[recs[i]] + 1) = e[i]
  <2> SUFFICES ASSUME NEW i \in 1..n PROVE e[i - 1] + (Width[recs[i]] + 1) = e[i]
    OBVIOUS
  <2>1. i - 1 \in 0..n
    BY <1>3
  <2>2. e[i] = e[i - 1] + Width[recs[i]] + 1 /\ e[i - 1] \in Nat
    BY <1>4, <2>1
  <2>3. Width[recs[i]] \in Nat
    BY <1>6
  <2>4. QED
    BY <2>2, <2>3
<1>8. IsLayout(e, ss)
  BY <1>1, <1>4, <1>6, <1>7 DEF IsLayout
<1>9. /\ FlattenSeq(ss) \in Seq(Bytes)
      /\ Len(FlattenSeq(ss)) = e[n]
      /\ \A i \in 1..n : \A j \in 1..Len(ss[i]) : FlattenSeq(ss)[e[i - 1] + j] = ss[i][j]
  <2>1. /\ FlattenSeq(ss) \in Seq(Bytes)
        /\ Len(FlattenSeq(ss)) = e[Len(ss)]
        /\ \A i \in 1..Len(ss) : \A j \in 1..Len(ss[i]) : FlattenSeq(ss)[e[i - 1] + j] = ss[i][j]
    <3>1. IsLaidOut(FlattenSeq(ss), e, ss, Bytes)
      BY <1>1, <1>8, FlattenLayout
    <3>2. QED
      BY <3>1 DEF IsLaidOut
  <2>2. QED
    BY <1>1, <2>1
<1>10. \A p \in 1..e[n] : \E i \in 1..n : e[i - 1] < p /\ p <= e[i]
  BY <1>1, <1>8, LayoutCovers
<1>11. \A k \in 0..n : \A i \in 0..k : e[i] <= e[k]
  BY <1>1, <1>8, LayoutIsMonotone
<1>12. ASSUME NEW i \in 1..n
       PROVE  /\ \A j \in 1..Width[recs[i]] : FlattenSeq(ss)[e[i - 1] + j] = <<recs[i], j>>
              /\ FlattenSeq(ss)[e[i]] = NL
  <2>1. \A j \in 1..(Width[recs[i]] + 1) : FlattenSeq(ss)[e[i - 1] + j] = ss[i][j]
    BY <1>6, <1>9
  <2>2. Width[recs[i]] + 1 \in 1..(Width[recs[i]] + 1) /\ 1..Width[recs[i]] \subseteq 1..(Width[recs[i]] + 1)
    BY <1>6
  <2>3. FlattenSeq(ss)[e[i - 1] + (Width[recs[i]] + 1)] = NL
    BY <1>6, <2>1, <2>2
  <2>4. QED
    BY <1>6, <1>7, <2>1, <2>2, <2>3
<1>13. QED
  BY <1>5, <1>9, <1>10, <1>11, <1>12 DEF e, n

\* The latest and the first of some numbers are among them.
LEMMA MaxIsMember ==
    ASSUME NEW n \in Nat, NEW S \in SUBSET (0..n), S # {}
    PROVE  Max(S) \in S /\ \A y \in S : y <= Max(S)
<1> DEFINE T == {n - x : x \in S}
<1>1. T \in SUBSET Nat /\ T # {}
  <2>1. PICK x \in S : TRUE
    OBVIOUS
  <2>2. n - x \in T
    OBVIOUS
  <2>3. QED
    BY <2>2
<1>2. PICK t \in T : \A y \in T : t <= y
  <2> HIDE DEF T
  <2> QED
    BY <1>1, LeastNumber
<1>3. PICK x \in S : t = n - x
  BY <1>2
<1>4. \A y \in S : x >= y
  BY <1>2, <1>3
<1>5. QED
  BY <1>4 DEF Max

LEMMA MinIsMember ==
    ASSUME NEW S \in SUBSET Nat, S # {}
    PROVE  Min(S) \in S /\ \A y \in S : Min(S) <= y
<1>1. PICK x \in S : \A y \in S : x <= y
  BY LeastNumber
<1>2. QED
  BY <1>1 DEF Min

\* The last newline of a text, and what a first read may discard.
LEMMA LastNewlineIsLast ==
    ASSUME NEW text \in Seq(Bytes)
    PROVE  /\ LastNewline(text) \in 0..Len(text)
           /\ LastNewline(text) # 0 => text[LastNewline(text)] = NL
           /\ \A j \in 1..Len(text) : text[j] = NL => j <= LastNewline(text)
<1> DEFINE S == Newlines(text) \cup {0}
<1>1. S \in SUBSET (0..Len(text)) /\ S # {} /\ Len(text) \in Nat
  BY DEF Newlines
<1>2. Max(S) \in S /\ \A y \in S : y <= Max(S)
  <2> HIDE DEF S
  <2> QED
    BY <1>1, MaxIsMember
<1>3. QED
  BY <1>2 DEF LastNewline, Newlines

LEMMA DiscardedIsBeforeLast ==
    ASSUME NEW text \in Seq(Bytes), NEW fromTail, NEW onBoundary
    PROVE  Discarded(text, fromTail, onBoundary) \in 0..LastNewline(text)
<1>1. CASE NL \in Range(text)
  <2>1. Newlines(text) \in SUBSET Nat /\ Newlines(text) # {}
    BY <1>1 DEF Newlines, Range
  <2>2. Min(Newlines(text)) \in Newlines(text)
    BY <2>1, MinIsMember
  <2>3. FirstNewline(text) \in 0..LastNewline(text)
    BY <1>1, <2>2, LastNewlineIsLast DEF FirstNewline, Newlines
  <2>4. QED
    BY <2>3, LastNewlineIsLast DEF Discarded
<1>2. CASE NL \notin Range(text)
  BY <1>2, LastNewlineIsLast DEF Discarded, FirstNewline
<1>3. QED
  BY <1>1, <1>2

\* The ends of lines lie apart, and no other place holds a newline.
LEMMA EndsAreNewlines ==
    ASSUME NEW recs \in Seq(Records)
    PROVE  /\ \A k \in 0..Len(recs) : \A i \in 0..(k - 1) : Ends(recs)[i] < Ends(recs)[k]
           /\ \A i \in 0..Len(recs) : Ends(recs)[i] \in i..Len(Text(recs))
           /\ \A p \in 1..Len(Text(recs)) :
                 Text(recs)[p] = NL => \E i \in 1..Len(recs) : p = Ends(recs)[i]
<1> DEFINE n == Len(recs)
           e == Ends(recs)
           t == Text(recs)
<1>1. n \in Nat /\ \A i \in 1..n : recs[i] \in Records
  OBVIOUS
<1>2. e \in [0..n -> Nat] /\ e[0] = 0 /\ \A i \in 1..n : e[i] = e[i - 1] + Width[recs[i]] + 1
  BY EndsUnfold
<1>3. /\ t \in Seq(Bytes) /\ Len(t) = e[n]
      /\ \A i \in 1..n : \A j \in 1..Width[recs[i]] : t[e[i - 1] + j] = <<recs[i], j>>
      /\ \A p \in 1..Len(t) : \E i \in 1..n : e[i - 1] < p /\ p <= e[i]
      /\ \A k \in 0..n : \A i \in 0..k : e[i] <= e[k]
  BY TextLayout
<1> HIDE DEF n, e, t
<1>4. ASSUME NEW i \in 1..n
      PROVE  /\ e[i] = e[i - 1] + Width[recs[i]] + 1 /\ Width[recs[i]] \in Nat \ {0}
             /\ e[i - 1] \in Nat /\ e[i] \in Nat
  <2>1. i - 1 \in 0..n /\ i \in 0..n
    BY <1>1
  <2>2. recs[i] \in Records
    BY <1>1
  <2>3. QED
    BY <1>2, <2>1, <2>2, WidthAssumption
<1>5. ASSUME NEW k \in 0..n, NEW i \in 0..(k - 1) PROVE e[i] < e[k]
  <2>1. k \in 1..n /\ k - 1 \in 0..n /\ i \in 0..n
    BY <1>1
  <2>2. e[i] <= e[k - 1]
    BY <1>3, <2>1
  <2>3. e[i] \in Nat
    BY <1>2, <2>1
  <2>4. /\ e[k] = e[k - 1] + Width[recs[k]] + 1 /\ Width[recs[k]] \in Nat \ {0}
        /\ e[k - 1] \in Nat /\ e[k] \in Nat
    BY <1>4, <2>1
  <2>5. QED
    BY <2>2, <2>3, <2>4
<1> DEFINE S == {i \in 0..n : i <= e[i]}
<1>6. 0 \in S
  BY <1>1, <1>2
<1>7. ASSUME NEW k \in 0..(n - 1), k \in S PROVE k + 1 \in S
  <2> DEFINE x == k + 1
  <2>1. x \in 1..n /\ x \in 0..n /\ x - 1 = k
    BY <1>1
  <2> HIDE DEF x
  <2>2. /\ e[x] = e[x - 1] + Width[recs[x]] + 1 /\ Width[recs[x]] \in Nat \ {0}
        /\ e[x - 1] \in Nat
    BY <1>4, <2>1
  <2>3. x <= e[x]
    BY <1>7, <2>1, <2>2
  <2>4. QED
    BY <2>1, <2>3 DEF x
<1>8. 0..n \subseteq S
  <2> HIDE DEF S
  <2> QED
    BY <1>1, <1>6, <1>7, BoundedInduction, Zenon
<1>9. ASSUME NEW i \in 0..n PROVE e[i] \in i..Len(t)
  <2>1. e[i] <= e[n] /\ i <= e[i] /\ e[i] \in Nat /\ e[n] \in Nat
    BY <1>1, <1>2, <1>3, <1>8
  <2>2. QED
    BY <1>3, <2>1
<1>10. ASSUME NEW p \in 1..Len(t), t[p] = NL PROVE \E i \in 1..n : p = e[i]
  <2>1. PICK i \in 1..n : e[i - 1] < p /\ p <= e[i]
    BY <1>3
  <2>2. ASSUME p # e[i] PROVE FALSE
    <3> DEFINE j == p - e[i - 1]
    <3>1. j \in 1..Width[recs[i]] /\ p = e[i - 1] + j
      BY <1>4, <2>1, <2>2, SMTT(20)
    <3>2. t[p] = <<recs[i], j>> /\ recs[i] \in Records
      BY <1>1, <1>3, <3>1
    <3>3. QED
      BY <1>10, <3>1, <3>2, BytesAssumption
  <2>3. QED
    BY <2>2
<1>11. QED
  BY <1>5, <1>9, <1>10 DEF n, e, t

\* A text is what a transcript holds from a place on.
Matches(recs, start, text) ==
    \A j \in 1..Len(text) : start + j <= Len(Text(recs)) /\ text[j] = Text(recs)[start + j]

LEMMA SubSeqBytes ==
    ASSUME NEW S, NEW text \in Seq(S), NEW skip \in Nat, NEW stop \in skip..Len(text)
    PROVE  /\ SubSeq(text, skip + 1, stop) \in Seq(S)
           /\ Len(SubSeq(text, skip + 1, stop)) = stop - skip
           /\ \A j \in 1..(stop - skip) : SubSeq(text, skip + 1, stop)[j] = text[skip + j]
<1> DEFINE sub == SubSeq(text, skip + 1, stop)
<1>1. sub \in Seq(S)
  OBVIOUS
<1>2. Len(sub) = stop - skip
  OBVIOUS
<1>3. ASSUME NEW j \in 1..(stop - skip) PROVE sub[j] = text[skip + j]
  OBVIOUS
<1>4. QED
  BY <1>1, <1>2, <1>3

\* The bytes of a record between two newlines are one of the lines.
LEMMA LineBetween ==
    ASSUME NEW sub \in Seq(Bytes), NEW r \in Records, NEW b \in Nat, NEW f \in 1..Len(sub),
           f = b + Width[r] + 1, sub[f] = NL, b # 0 => sub[b] = NL,
           \A j \in 1..Width[r] : sub[b + j] = <<r, j>>
    PROVE  Line(r) \in Lines(sub)
<1> DEFINE before == SubSeq(sub, 1, f - 1)
           m == LastNewline(before)
           w == Width[r]
           n == Len(sub)
<1>0. w \in Nat \ {0} /\ n \in Nat /\ f \in 1..n /\ f = b + w + 1
  BY WidthAssumption
<1>1. \A j \in 1..w : sub[b + j] = <<r, j>> /\ <<r, j>> # NL
  BY BytesAssumption
<1> HIDE DEF w, n
<1>2. before \in Seq(Bytes) /\ Len(before) = f - 1 /\ \A j \in 1..(f - 1) : before[j] = sub[j]
  <2>1. f - 1 \in 0..n /\ 0 + 1 = 1 /\ f - 1 - 0 = f - 1 /\ \A j \in 1..(f - 1) : 0 + j = j
    BY <1>0
  <2>2. f - 1 \in 0..Len(sub) /\ 0 \in Nat
    BY <2>1 DEF n
  <2> HIDE DEF before
  <2>3. /\ SubSeq(sub, 0 + 1, f - 1) \in Seq(Bytes)
        /\ Len(SubSeq(sub, 0 + 1, f - 1)) = f - 1 - 0
        /\ \A j \in 1..(f - 1 - 0) : SubSeq(sub, 0 + 1, f - 1)[j] = sub[0 + j]
    BY <2>2, SubSeqBytes
  <2>4. QED
    BY <2>1, <2>3 DEF before
<1>3. /\ m \in 0..(f - 1) /\ (m # 0 => before[m] = NL)
      /\ \A j \in 1..(f - 1) : before[j] = NL => j <= m
  <2> HIDE DEF before
  <2> QED
    BY <1>2, LastNewlineIsLast
<1> HIDE DEF m, before
<1>4. ~ (b < m)
  <2>1. SUFFICES ASSUME b < m PROVE FALSE
    OBVIOUS
  <2>2. m - b \in 1..w /\ b + (m - b) = m /\ m \in 1..(f - 1) /\ m # 0
    BY <1>0, <1>3, <2>1
  <2>3. sub[m] # NL
    BY <1>1, <2>2
  <2>4. QED
    BY <1>2, <1>3, <2>2, <2>3
<1>5. b # 0 => b <= m
  <2>1. b # 0 => b \in 1..(f - 1)
    BY <1>0
  <2>2. QED
    BY <1>2, <1>3, <2>1
<1>6. m = b
  BY <1>3, <1>4, <1>5
<1>7. SubSeq(sub, b + 1, f - 1) = Line(r)
  <2>1. b \in Nat /\ f - 1 \in b..n /\ f - 1 - b = w
    BY <1>0
  <2>2. /\ SubSeq(sub, b + 1, f - 1) \in Seq(Bytes)
        /\ Len(SubSeq(sub, b + 1, f - 1)) = w
        /\ \A j \in 1..w : SubSeq(sub, b + 1, f - 1)[j] = sub[b + j]
    <3>1. f - 1 \in b..Len(sub)
      BY <2>1 DEF n
    <3>2. /\ SubSeq(sub, b + 1, f - 1) \in Seq(Bytes)
          /\ Len(SubSeq(sub, b + 1, f - 1)) = f - 1 - b
          /\ \A j \in 1..(f - 1 - b) : SubSeq(sub, b + 1, f - 1)[j] = sub[b + j]
      BY <3>1, SubSeqBytes
    <3>3. QED
      BY <2>1, <3>2
  <2>3. Line(r) \in Seq(Bytes) /\ Len(Line(r)) = w /\ \A j \in 1..w : Line(r)[j] = <<r, j>>
    BY LineBytes DEF w
  <2> DEFINE l == SubSeq(sub, b + 1, f - 1)
             k == Line(r)
  <2>4. \A j \in 1..w : l[j] = k[j]
    BY <1>1, <2>2, <2>3
  <2> HIDE DEF l, k
  <2>5. l \in Seq(Bytes) /\ k \in Seq(Bytes) /\ Len(l) = Len(k) /\ \A j \in 1..Len(l) : l[j] = k[j]
    BY <2>2, <2>3, <2>4 DEF l, k
  <2>6. l = k
    BY <2>5
  <2>7. QED
    BY <2>6 DEF l, k
<1>8. Line(r) # <<>>
  <2>1. Len(Line(r)) = w
    BY LineBytes DEF w
  <2>2. QED
    BY <1>0, <2>1
<1>9. f \in Newlines(sub)
  BY DEF Newlines
<1>10. QED
  BY <1>6, <1>7, <1>8, <1>9 DEF Lines, m, before

\* What is decoded of a text, place by place.
LEMMA DecodedPart ==
    ASSUME NEW recs \in Seq(Records), NEW text \in Seq(Bytes), NEW start \in Nat,
           Matches(recs, start, text), NEW skip \in 0..LastNewline(text)
    PROVE  /\ LastNewline(text) \in Nat /\ skip \in Nat
           /\ SubSeq(text, skip + 1, LastNewline(text)) \in Seq(Bytes)
           /\ Len(SubSeq(text, skip + 1, LastNewline(text))) = LastNewline(text) - skip
           /\ \A j \in 1..(LastNewline(text) - skip) :
                 /\ start + skip + j \in 1..Len(Text(recs))
                 /\ SubSeq(text, skip + 1, LastNewline(text))[j] = Text(recs)[start + skip + j]
<1> DEFINE stop == LastNewline(text)
           n == Len(text)
           sub == SubSeq(text, skip + 1, stop)
<1>1. stop \in 0..n /\ n \in Nat /\ skip \in 0..stop
  BY LastNewlineIsLast
<1>2. stop \in Nat /\ skip \in Nat /\ stop \in skip..Len(text)
  <2>1. stop \in skip..n
    <3> HIDE DEF stop, n
    <3> QED
      BY <1>1
  <2>2. QED
    BY <1>1, <2>1
<1>3. sub \in Seq(Bytes) /\ Len(sub) = stop - skip /\ \A j \in 1..(stop - skip) : sub[j] = text[skip + j]
  <2> HIDE DEF stop
  <2> QED
    BY <1>2, SubSeqBytes
<1>4. \A j \in 1..n : start + j <= Len(Text(recs)) /\ text[j] = Text(recs)[start + j]
  BY DEF Matches
<1>5. Len(Text(recs)) \in Nat
  BY TextLayout
<1> HIDE DEF stop, n, sub
<1>6. ASSUME NEW j \in 1..(stop - skip)
      PROVE  start + skip + j \in 1..Len(Text(recs)) /\ sub[j] = Text(recs)[start + skip + j]
  <2>1. skip + j \in 1..n /\ start + (skip + j) = start + skip + j
    BY <1>1, <1>2
  <2>2. start + skip + j <= Len(Text(recs)) /\ text[skip + j] = Text(recs)[start + skip + j]
    BY <1>4, <2>1
  <2>3. QED
    BY <1>2, <1>3, <1>5, <2>2
<1>7. QED
  BY <1>2, <1>3, <1>6 DEF stop, sub

\* Every record whose line starts in what is decoded of a text is decoded.
LEMMA LinesAreComplete ==
    ASSUME NEW recs \in Seq(Records), NEW text \in Seq(Bytes), NEW start \in Nat,
           Matches(recs, start, text), NEW skip \in 0..LastNewline(text),
           NEW i \in 1..Len(recs),
           start + skip <= Ends(recs)[i - 1],
           Ends(recs)[i - 1] < start + LastNewline(text)
    PROVE  Line(recs[i]) \in Lines(SubSeq(text, skip + 1, LastNewline(text)))
<1> DEFINE n == Len(recs)
           e == Ends(recs)
           t == Text(recs)
           stop == LastNewline(text)
           sub == SubSeq(text, skip + 1, stop)
           r == recs[i]
           w == Width[r]
           from == e[i - 1]
           to == e[i]
           b == from - (start + skip)   \* where the line starts in what is decoded
           f == to - (start + skip)     \* and where it ends
<1>1. n \in Nat /\ i \in 1..n /\ i \in 0..n /\ i - 1 \in 0..n /\ r \in Records
  OBVIOUS
<1>2. w \in Nat \ {0}
  BY <1>1, WidthAssumption
<1>3. from \in Nat /\ to \in Nat /\ to = from + w + 1 /\ e[0] = 0
  BY <1>1, EndsUnfold
<1>4. /\ stop \in Nat /\ skip \in Nat /\ sub \in Seq(Bytes) /\ Len(sub) = stop - skip
      /\ \A j \in 1..(stop - skip) : sub[j] = t[start + skip + j] /\ start + skip + j \in 1..Len(t)
  BY DecodedPart
<1>5. t[to] = NL /\ \A j \in 1..w : t[from + j] = <<r, j>>
  BY <1>1, TextLayout
<1>6. i # 1 => t[from] = NL
  <2>1. i # 1 => i - 1 \in 1..n
    BY <1>1
  <2>2. \A k \in 1..n : t[e[k]] = NL
    BY TextLayout
  <2> HIDE DEF n, t, e
  <2>3. QED
    BY <2>1, <2>2
<1>7. start + skip <= from /\ from < start + stop
  OBVIOUS
<1>8. to <= start + stop
  <2>1. stop # 0
    <3> HIDE DEF from, stop
    <3> QED
      BY <1>3, <1>7
  <2>2. stop \in 1..Len(text) /\ text[stop] = NL
    BY <2>1, LastNewlineIsLast
  <2>3. t[start + stop] = NL /\ start + stop \in 1..Len(t)
    <3>1. start + stop <= Len(t) /\ text[stop] = t[start + stop] /\ Len(t) \in Nat
      BY <2>2, TextLayout, SMTT(20) DEF Matches
    <3> HIDE DEF stop, t
    <3>2. QED
      BY <1>4, <2>1, <2>2, <3>1
  <2>4. PICK k \in 1..n : start + stop = e[k]
    BY <2>3, EndsAreNewlines
  <2>5. k \in 0..n
    BY <1>1
  <2>6. \A x \in 0..n : \A y \in 0..x : e[y] <= e[x]
    BY TextLayout
  <2> HIDE DEF n, e, stop, t
  <2>7. ~ (k < i)
    <3>1. SUFFICES ASSUME k < i PROVE FALSE
      OBVIOUS
    <3>2. k \in 0..(i - 1)
      BY <1>1, <3>1
    <3>3. e[k] <= e[i - 1]
      BY <1>1, <2>6, <3>2
    <3> HIDE DEF from
    <3>4. e[k] <= from
      BY <3>3 DEF from
    <3>5. QED
      BY <1>3, <1>4, <1>7, <2>4, <3>4
  <2>8. i \in 0..k
    BY <1>1, <2>7
  <2>9. e[i] <= e[k]
    BY <2>5, <2>6, <2>8
  <2>10. QED
    BY <2>4, <2>9
<1> HIDE DEF n, e, t, stop, sub, r, w, from, to
<1>9. /\ b \in Nat /\ f \in 1..(stop - skip) /\ f = b + w + 1
      /\ start + skip + f = to /\ start + skip + b = from
      /\ \A j \in 1..w : b + j \in 1..(stop - skip) /\ start + skip + (b + j) = from + j
  BY <1>2, <1>3, <1>4, <1>7, <1>8
<1> HIDE DEF b, f
<1>10. b # 0 => b \in 1..(stop - skip) /\ i # 1
  <2>1. b # 0 => from # 0
    BY <1>3, <1>4, <1>9, SMTT(20)
  <2>2. i = 1 => from = 0
    BY <1>3 DEF from
  <2>3. b # 0 => b \in 1..(stop - skip)
    BY <1>2, <1>4, <1>9
  <2>4. QED
    BY <2>1, <2>2, <2>3
<1>11. sub[f] = NL
  BY <1>4, <1>5, <1>9
<1>12. b # 0 => sub[b] = NL
  BY <1>4, <1>6, <1>9, <1>10
<1>13. \A j \in 1..w : sub[b + j] = <<r, j>>
  <2> SUFFICES ASSUME NEW j \in 1..w PROVE sub[b + j] = <<r, j>>
    OBVIOUS
  <2>1. sub[b + j] = t[start + skip + (b + j)]
    BY <1>4, <1>9
  <2>2. QED
    BY <1>5, <1>9, <2>1
<1>14. f \in 1..Len(sub)
  BY <1>4, <1>9
<1>15. Line(r) \in Lines(sub)
  <2>1. \A j \in 1..Width[r] : sub[b + j] = <<r, j>>
    BY <1>13 DEF w
  <2>2. f = b + Width[r] + 1
    BY <1>9 DEF w
  <2>3. r \in Records /\ sub \in Seq(Bytes) /\ b \in Nat
    BY <1>1, <1>4, <1>9
  <2>4. QED
    BY <1>11, <1>12, <1>14, <2>1, <2>2, <2>3, LineBetween
<1>16. QED
  BY <1>15 DEF r, sub, stop

\* A record of a transcript has its line between two places.
Placed(recs, r, from, to) ==
    \E i \in 1..Len(recs) : recs[i] = r /\ from <= Ends(recs)[i - 1] /\ Ends(recs)[i] <= to

\* And what decodes is a record of the transcript that lies there.
LEMMA LinesAreSound ==
    ASSUME NEW recs \in Seq(Records), NEW text \in Seq(Bytes), NEW start \in Nat,
           Matches(recs, start, text), NEW skip \in 0..LastNewline(text),
           NEW l \in Lines(SubSeq(text, skip + 1, LastNewline(text))),
           NEW r \in Decoded(l)
    PROVE  Placed(recs, r, start + skip, start + LastNewline(text))
<1> DEFINE n == Len(recs)
           e == Ends(recs)
           t == Text(recs)
           stop == LastNewline(text)
           sub == SubSeq(text, skip + 1, stop)
           w == Width[r]
<1>1. n \in Nat /\ r \in Records /\ l = Line(r) /\ l # <<>>
  BY DEF Decoded, Lines
<1>2. w \in Nat \ {0} /\ l \in Seq(Bytes) /\ Len(l) = w /\ \A j \in 1..w : l[j] = <<r, j>> /\ <<r, j>> # NL
  BY <1>1, LineBytes
<1>3. /\ stop \in Nat /\ skip \in Nat /\ sub \in Seq(Bytes) /\ Len(sub) = stop - skip
      /\ \A j \in 1..(stop - skip) : sub[j] = t[start + skip + j] /\ start + skip + j \in 1..Len(t)
  BY DecodedPart
<1>4. PICK f \in Newlines(sub) : l = SubSeq(sub, LastNewline(SubSeq(sub, 1, f - 1)) + 1, f - 1)
  BY DEF Lines
<1>5. f \in 1..Len(sub) /\ sub[f] = NL
  BY <1>3, <1>4, SMTT(20) DEF Newlines
<1> DEFINE before == SubSeq(sub, 1, f - 1)
           b == LastNewline(before)
<1>6. before \in Seq(Bytes) /\ Len(before) = f - 1
  <2> HIDE DEF sub
  <2>1. Len(sub) \in Nat
    BY <1>3
  <2>2. f - 1 \in 0..Len(sub)
    BY <1>5, <2>1
  <2>3. QED
    BY <1>3, <1>5, <2>2
<1>7. b \in 0..(f - 1)
  <2> HIDE DEF before
  <2> QED
    BY <1>6, LastNewlineIsLast
<1>8. l = SubSeq(sub, b + 1, f - 1)
  BY <1>4
<1>9. e \in [0..n -> Nat]
  BY EndsUnfold
<1>10. \A i \in 1..n : /\ e[i] = e[i - 1] + Width[recs[i]] + 1
                       /\ Width[recs[i]] \in Nat \ {0}
                       /\ recs[i] \in Records
  BY EndsUnfold, WidthAssumption
<1>11. /\ \A i \in 1..n : \A j \in 1..Width[recs[i]] : t[e[i - 1] + j] = <<recs[i], j>>
       /\ \A i \in 1..n : t[e[i]] = NL
       /\ \A p \in 1..Len(t) : \E i \in 1..n : e[i - 1] < p /\ p <= e[i]
  BY TextLayout
<1> HIDE DEF n, e, t, stop, sub, w, before, b
<1>0. f \in Nat /\ b \in Nat /\ b + 1 <= f /\ f <= stop - skip
  <2>1. f \in Nat /\ f <= stop - skip
    BY <1>3, <1>5
  <2>2. QED
    BY <1>7, <2>1
<1>12. f - 1 - b = w /\ \A j \in 1..w : l[j] = sub[b + j]
  <2>1. sub \in Seq(Bytes) /\ Len(sub) = stop - skip /\ stop \in Nat /\ skip \in Nat
    BY <1>3
  <2>2. b \in Nat /\ f - 1 \in b..Len(sub)
    BY <1>0, <2>1
  <2> DEFINE m == f - 1
  <2>3. m \in b..Len(sub) /\ l = SubSeq(sub, b + 1, m)
    BY <1>8, <2>2
  <2> HIDE DEF m
  <2>4. Len(l) = m - b /\ \A j \in 1..(m - b) : l[j] = sub[b + j]
    BY <2>1, <2>2, <2>3, SubSeqBytes, ZenonT(40)
  <2>5. QED
    BY <1>2, <2>4 DEF m
<1> DEFINE p == start + skip + (b + 1)
<1>13. p \in 1..Len(t) /\ t[p] = <<r, 1>> /\ t[p] # NL
  <2>1. 1 \in 1..w /\ b + 1 \in 1..(stop - skip)
    BY <1>2, <1>3, <1>5, <1>7, <1>12
  <2>2. l[1] = sub[b + 1] /\ l[1] = <<r, 1>> /\ l[1] # NL
    BY <1>2, <1>12, <2>1
  <2>3. QED
    BY <1>3, <2>1, <2>2
<1>14. PICK i \in 1..n : e[i - 1] < p /\ p <= e[i]
  BY <1>11, <1>13
<1> DEFINE j == p - e[i - 1]
<1>15. i - 1 \in 0..n /\ e[i - 1] \in Nat /\ e[i] \in Nat /\ e[i] = e[i - 1] + Width[recs[i]] + 1 /\ Width[recs[i]] \in Nat
  <2>1. i - 1 \in 0..n /\ i \in 0..n
    BY <1>1
  <2>2. QED
    BY <1>9, <1>10, <2>1
<1>16. p # e[i]
  BY <1>11, <1>13
<1>17. p \in Nat
  BY <1>3, <1>7, <1>5, SMTT(20)
<1> HIDE DEF p
<1>18. j \in 1..Width[recs[i]] /\ p = e[i - 1] + j
  BY <1>14, <1>15, <1>16, <1>17, SMTT(20)
<1>19. t[p] = <<recs[i], j>>
  BY <1>11, <1>18
<1>20. recs[i] = r /\ j = 1
  BY <1>13, <1>19
<1>21. e[i - 1] = start + skip + b
  <2>1. p = start + skip + (b + 1)
    BY DEF p
  <2>2. p = e[i - 1] + 1
    BY <1>18, <1>20
  <2>3. skip \in Nat /\ e[i - 1] \in Nat
    BY <1>3, <1>15
  <2> DEFINE x == e[i - 1]
  <2>4. p = start + skip + (b + 1) /\ p = x + 1 /\ x \in Nat
    BY <2>1, <2>2, <2>3
  <2> HIDE DEF x
  <2>5. x = start + skip + b
    BY <1>0, <2>3, <2>4
  <2>6. QED
    BY <2>5 DEF x
<1>22. e[i] <= start + stop
  <2>1. e[i] = e[i - 1] + w + 1
    BY <1>15, <1>20 DEF w
  <2>2. f - 1 - b = w
    BY <1>12
  <2>3. skip \in Nat /\ stop \in Nat /\ w \in Nat
    BY <1>2, <1>3
  <2> DEFINE x == e[i - 1]
             y == e[i]
  <2>4. y = x + w + 1 /\ x = start + skip + b
    BY <1>21, <2>1
  <2> HIDE DEF x, y
  <2>5. y <= start + stop
    BY <1>0, <2>2, <2>3, <2>4
  <2>6. QED
    BY <2>5 DEF y
<1>23. start + skip <= e[i - 1]
  BY <1>3, <1>7, <1>5, <1>21
<1>24. QED
  BY <1>20, <1>22, <1>23 DEF n, e, stop, Placed

\* As many lines end in a part of a text as it has newlines.
LEMMA NewlinesCountLines ==
    ASSUME NEW recs \in Seq(Records), NEW text \in Seq(Bytes), Matches(recs, 0, text),
           NEW place \in Nat,
           NEW i \in 1..Cardinality({p \in Newlines(text) : p <= place})
    PROVE  i \in 1..Len(recs) /\ Ends(recs)[i] <= place
<1> DEFINE n == Len(recs)
           e == Ends(recs)
           N == {p \in Newlines(text) : p <= place}
<1>1. n \in Nat /\ Len(text) \in Nat
  OBVIOUS
<1>2. \A p \in 1..Len(text) : p <= Len(Text(recs)) /\ text[p] = Text(recs)[p]
  BY DEF Matches
<1>3. IsFiniteSet(N)
  <2>1. N \in SUBSET (1..Len(text))
    BY <1>1 DEF Newlines
  <2>2. IsFiniteSet(1..Len(text))
    BY <1>1, FS_Interval
  <2> HIDE DEF N
  <2>3. QED
    BY <2>1, <2>2, FS_Subset
<1>4. Cardinality(N) \in Nat /\ i \in 1..Cardinality(N)
  <2>1. Cardinality(N) \in Nat
    <3> HIDE DEF N
    <3> QED
      BY <1>3, FS_CardinalityType
  <2>2. QED
    BY <2>1
<1>5. \A x \in N : \E k \in 1..n : x = e[k]
  <2> SUFFICES ASSUME NEW x \in N PROVE \E k \in 1..n : x = e[k]
    OBVIOUS
  <2>1. x \in 1..Len(text) /\ text[x] = NL
    BY DEF Newlines
  <2>2. x \in 1..Len(Text(recs)) /\ Text(recs)[x] = NL
    BY <1>2, <2>1, TextLayout
  <2>3. QED
    BY <2>2, EndsAreNewlines
<1>6. SUFFICES ASSUME ~ (i \in 1..n /\ e[i] <= place) PROVE FALSE
  OBVIOUS
<1>7. \A x \in N : \A k \in 1..n : x = e[k] => k \in 1..(i - 1)
  <2> SUFFICES ASSUME NEW x \in N, NEW k \in 1..n, x = e[k], ~ (k < i) PROVE FALSE
    BY <1>4
  <2>1. i \in 1..n /\ i \in 0..k /\ k \in 0..n
    BY <1>1, <1>4
  <2>2. e[i] <= e[k]
    BY <2>1, TextLayout
  <2>3. e[i] \in Nat /\ e[k] \in Nat
    <3>1. e \in [0..n -> Nat]
      BY EndsUnfold
    <3> HIDE DEF e, n
    <3>2. QED
      BY <1>1, <2>1, <3>1
  <2> HIDE DEF e, n
  <2>4. QED
    BY <1>6, <2>1, <2>2, <2>3
<1> HIDE DEF e, n, N
<1> DEFINE g == [x \in N |-> CHOOSE k \in 1..n : x = e[k]]
<1>8. \A x \in N : g[x] \in 1..n /\ x = e[g[x]]
  BY <1>5
<1>9. g \in Injection(N, 1..(i - 1))
  <2>1. g \in [N -> 1..(i - 1)]
    BY <1>7, <1>8
  <2>2. \A x, y \in N : g[x] = g[y] => x = y
    BY <1>8
  <2> HIDE DEF g
  <2>3. QED
    BY <2>1, <2>2 DEF Injection, IsInjective
<1>10. IsFiniteSet(1..(i - 1)) /\ Cardinality(1..(i - 1)) = i - 1
  <2>1. i - 1 \in Int /\ 1 \in Int /\ ~ (1 > i - 1 /\ i # 1) /\ i - 1 - 1 + 1 = i - 1 /\ i \in Nat
    BY <1>4
  <2>2. /\ IsFiniteSet(1..(i - 1))
        /\ Cardinality(1..(i - 1)) = IF 1 > i - 1 THEN 0 ELSE i - 1 - 1 + 1
    BY <2>1, FS_Interval
  <2>3. QED
    BY <2>1, <2>2
<1>11. Cardinality(N) <= Cardinality(1..(i - 1))
  <2> HIDE DEF g
  <2> QED
    BY <1>9, <1>10, FS_Injection
<1>12. QED
  BY <1>4, <1>10, <1>11

\* Before the line of a record lie the newlines of those before it.
LEMMA LinesCountNewlines ==
    ASSUME NEW recs \in Seq(Records), NEW place \in Nat,
           NEW i \in 1..Len(recs), Ends(recs)[i - 1] < place
    PROVE  LET n == Cardinality({p \in Newlines(Text(recs)) : p < place})
           IN  i \in 1..Min({place, n + 1, Len(recs)})
<1> DEFINE n == Len(recs)
           e == Ends(recs)
           t == Text(recs)
           N == {p \in Newlines(t) : p < place}
           g == [k \in 1..(i - 1) |-> e[k]]
<1>1. n \in Nat /\ Len(t) \in Nat /\ i \in 1..n
  BY TextLayout
<1>2. IsFiniteSet(N)
  <2>1. N \in SUBSET (1..Len(t))
    BY <1>1, TextLayout DEF Newlines
  <2> HIDE DEF t
  <2>2. IsFiniteSet(1..Len(t))
    BY <1>1, FS_Interval
  <2> HIDE DEF N
  <2>3. QED
    BY <2>1, <2>2, FS_Subset
<1>3. Cardinality(N) \in Nat
  <2> HIDE DEF N
  <2> QED
    BY <1>2, FS_CardinalityType
<1>4. e \in [0..n -> Nat]
  BY EndsUnfold
<1>5. /\ \A k \in 0..n : \A m \in 0..(k - 1) : e[m] < e[k]
      /\ \A k \in 0..n : e[k] \in k..Len(t)
      /\ \A k \in 1..n : t[e[k]] = NL
      /\ \A k \in 0..n : \A m \in 0..k : e[m] <= e[k]
  BY EndsAreNewlines, TextLayout
<1>6. DOMAIN t = 1..Len(t)
  BY TextLayout
<1> HIDE DEF n, e, t
<1>7. i - 1 \in 0..n /\ e[i - 1] \in Nat /\ i - 1 <= e[i - 1] /\ e[i - 1] < place
  <2>1. i - 1 \in 0..n
    BY <1>1
  <2>2. e[i - 1] < place
    BY DEF e
  <2>3. QED
    BY <1>1, <1>4, <1>5, <2>1, <2>2
<1>8. \A k \in 1..(i - 1) : k \in 1..n /\ k \in 0..n /\ k \in 0..(i - 1)
  BY <1>1
<1>9. \A k \in 1..(i - 1) : g[k] = e[k] /\ e[k] \in N
  <2> SUFFICES ASSUME NEW k \in 1..(i - 1) PROVE e[k] \in N
    OBVIOUS
  <2>1. t[e[k]] = NL /\ e[k] \in k..Len(t) /\ e[k] <= e[i - 1] /\ e[k] \in Nat
    BY <1>4, <1>5, <1>7, <1>8
  <2>2. e[k] \in 1..Len(t) /\ e[k] < place
    BY <1>1, <1>7, <2>1
  <2>3. QED
    BY <1>6, <2>1, <2>2 DEF Newlines
<1>10. \A k, m \in 1..(i - 1) : g[k] = g[m] => k = m
  <2> SUFFICES ASSUME NEW k \in 1..(i - 1), NEW m \in 1..(i - 1), e[k] = e[m], k < m PROVE FALSE
    BY <1>1
  <2>1. k \in 0..(m - 1) /\ m \in 0..n /\ e[m] \in Nat
    BY <1>1, <1>4, <1>8
  <2>2. e[k] < e[m]
    BY <1>5, <2>1
  <2>3. QED
    BY <2>1, <2>2
<1> HIDE DEF N
<1>11. g \in Injection(1..(i - 1), N)
  <2>1. g \in [1..(i - 1) -> N]
    BY <1>9
  <2> HIDE DEF g
  <2>2. QED
    BY <1>10, <2>1 DEF Injection, IsInjective
<1>12. i - 1 <= Cardinality(N)
  <2>1. Cardinality(1..(i - 1)) = i - 1
    BY <1>1, FS_Interval
  <2>2. Cardinality(1..(i - 1)) <= Cardinality(N)
    <3> HIDE DEF g
    <3> QED
      BY <1>2, <1>11, FS_Injection
  <2>3. QED
    BY <2>1, <2>2
<1> DEFINE S == {place, Cardinality(N) + 1, n}
<1>13. Min(S) \in S
  <2>1. S \in SUBSET Nat /\ S # {}
    BY <1>1, <1>3
  <2> HIDE DEF S
  <2>2. QED
    BY <2>1, MinIsMember
<1>14. i <= place /\ i <= Cardinality(N) + 1 /\ i <= n
  BY <1>1, <1>3, <1>7, <1>12
<1>15. i \in 1..Min(S)
  <2> DEFINE m == Min(S)
  <2>1. m \in Nat /\ i <= m
    BY <1>1, <1>3, <1>13, <1>14
  <2> HIDE DEF m
  <2>2. i \in 1..m
    BY <1>1, <2>1
  <2>3. QED
    BY <2>2 DEF m
<1>16. QED
  BY <1>15 DEF N, n, t

USE DEF agentVars, histVars, Becomes

----------------------------------------------------------------------------
(* The invariant *)

\* What a source was given, lost in a crash, or may miss; what it also has once
\* its poll has saved.
Given(s) == once[s] \cup dropped[s] \cup excused[s]
Saved(s) == IF phase[s] = "saved" THEN records[s] ELSE {}

ShortHead(head) == head # NoHead => Len(head) <= HeadSample

\* A head that the file may have now.
Fits(s, g, head) == head = NoHead \/ IsPrefix(head, Text(Plans[s][g]))

\* The records whose line starts before a place.
Passed(s, g, place) ==
    {Plans[s][g][i] :
        i \in {k \in 1..Len(Plans[s][g]) : Ends(Plans[s][g])[k - 1] < place}}

\* A transcript whose bytes are its units.
Narrow(recs) == \A r \in Range(recs) : ~ IsWide(r)

\* A place that is not in the middle of a line, or only of a very long one.
AtLine(recs, place) ==
    place > 0 =>
        \/ Text(recs)[place] = NL
        \/ \E r \in Range(recs) :
              Width[r] > InitialReadMax /\ Text(recs)[place] \in Range(Line(r))

\* A cursor that may be of the transcript that is being written leaves nothing of
\* it behind but what is in a set, and so does one of the rows that are stored.
JsonlSound(s, g, c, given) ==
    /\ Fits(s, g, c.head) => Passed(s, g, c.offset) \subseteq given
    /\ g = 1 /\ Narrow(Plans[s][1]) => AtLine(Plans[s][1], c.offset)
RowsSound(versions, c, given) == \A v \in versions : Rows!Behind(c, v) => v \in given

SoundAt(s, g, versions, c, given) ==
    /\ IsCursor(s, c)
    /\ s \in JsonlSources => JsonlSound(s, g, c, given)
    /\ s \in RowSources => RowsSound(versions, c, given)

Sound(s, c, given) == SoundAt(s, gen[s], Versions, c, given)

PollTypeOK ==
    /\ watching \in Watched
    /\ DOMAIN phase = Sources /\ DOMAIN seen = Sources /\ DOMAIN scan = Sources
    /\ DOMAIN next = Sources /\ DOMAIN records = Sources
    /\ DOMAIN once = Sources /\ DOMAIN dropped = Sources /\ DOMAIN excused = Sources
    /\ DOMAIN last = Sources /\ DOMAIN gen = JsonlSources /\ DOMAIN file = JsonlSources
    /\ store # Torn => DOMAIN store \subseteq Sources
    /\ \A s \in Sources :
          /\ phase[s] \in {"idle", "loaded", "stated", "sampled", "window", "session",
                           "messages", "read", "truncated", "saved", "dead"}
          /\ DOMAIN seen[s] \subseteq Sources
          /\ phase[s] \in {"idle", "dead"} => seen[s] = <<>> /\ records[s] = {}

TableTypeOK ==
    /\ clock \in 1..MaxTime
    /\ DOMAIN table \subseteq RowIds \cup {SessionKey} /\ IsFiniteSet(DOMAIN table)
    /\ SessionKey \in DOMAIN table
    /\ \A k \in DOMAIN table : table[k] \in 1..MaxTime

\* A file is a part of what its agent is writing.
FileInv(s) ==
    /\ gen[s] \in 1..Len(Plans[s])
    /\ file[s] \in Seq(Bytes) /\ Matches(Transcript(s), 0, file[s])

\* The bytes that a first read took are those of the transcript of their time.
\* Where that has been replaced, what lies before the cursor to be is excused if
\* the cursor will be taken for one of the new transcript.  A first read that ends
\* before a line does took all there was, up to initialReadMaxBytes.
TextInv(s) ==
    /\ phase[s] \in {"stated", "sampled"} =>
          scan[s].size \in 0..Reach(s) /\ (gen[s] = 1 => scan[s].size <= Len(file[s]))
    /\ phase[s] = "sampled" => ShortHead(scan[s].head)
    /\ phase[s] = "window" =>
          /\ scan[s].start \in 1..Reach(s) /\ scan[s].text \in Seq(Bytes)
          /\ ShortHead(scan[s].head)
          /\ gen[s] = 1 /\ LastNewline(scan[s].text) = 0 => AtLine(Plans[s][1], scan[s].start)
          /\ \E g \in 1..gen[s] :
                /\ Matches(Plans[s][g], scan[s].start, scan[s].text)
                /\ g # gen[s] /\ Fits(s, gen[s], scan[s].head) =>
                      Passed(s, gen[s], NextOffset(scan[s].start, scan[s].text))
                          \subseteq excused[s]

\* The versions that a row may have.
RowVersions ==
    {<<k[1], k[2], t>> : k \in RowIds \cup {SessionKey}, t \in 1..MaxTime}

\* The rows that a poll has read so far: none of the tables it is through with is
\* missing, but for what was stored since.
ReadSoFar(s, ranks) ==
    /\ scan[s] \subseteq RowVersions /\ IsFiniteSet(scan[s])
    /\ \E v \in scan[s] : v[1] = 0
    /\ \A v \in Versions : v[1] \in ranks => v \in scan[s] \cup Given(s)

QueryInv(s) ==
    /\ phase[s] = "session" => ReadSoFar(s, {0})
    /\ phase[s] = "messages" => ReadSoFar(s, {0, 1})

ScanInv(s) ==
    /\ s \in JsonlSources => FileInv(s) /\ TextInv(s)
    /\ s \in RowSources => QueryInv(s)

StoreInv(s) == store # Torn => Sound(s, Cursor(store, s), Given(s) \cup Saved(s))
SeenInv(s) == \A q \in Sources : Sound(s, Cursor(seen[q], s), Given(s) \cup Saved(s))
NextInv(s) == Sound(s, next[s], Given(s) \cup records[s])

SourceInv(s) == ScanInv(s) /\ StoreInv(s) /\ SeenInv(s) /\ NextInv(s)

IInv ==
    /\ PollTypeOK
    /\ TableTypeOK
    /\ \A s \in Sources : SourceInv(s)

----------------------------------------------------------------------------
(* Lemmas on transcripts and cursors *)

LEMMA PlanIsText ==
    ASSUME NEW s \in JsonlSources, NEW g \in 1..Len(Plans[s])
    PROVE  /\ Plans[s][g] \in Seq(Records)
           /\ Text(Plans[s][g]) \in Seq(Bytes) /\ Len(Text(Plans[s][g])) \in Nat
<1>1. Plans[s][g] \in Seq(Records)
  BY PlansAssumption
<1>2. Text(Plans[s][g]) \in Seq(Bytes)
  BY <1>1, TextLayout
<1>3. QED
  BY <1>1, <1>2

\* No transcript of a source is longer than Reach.
LEMMA ReachBounds ==
    ASSUME NEW s \in JsonlSources
    PROVE  /\ Reach(s) \in Nat
           /\ \A g \in 1..Len(Plans[s]) : Len(Text(Plans[s][g])) <= Reach(s)
<1> DEFINE n == Len(Plans[s])
           l(g) == Len(Text(Plans[s][g]))
           S == {k \in 0..n : \E m \in Nat : \A g \in 1..k : l(g) <= m}
<1>1. n \in Nat \ {0}
  BY PlansAssumption
<1>2. \A g \in 1..n : l(g) \in Nat
  BY PlanIsText
<1> HIDE DEF l
<1>3. 0 \in S
  <2>1. \A g \in 1..0 : l(g) <= 0
    OBVIOUS
  <2>2. QED
    BY <1>1, <2>1
<1>4. ASSUME NEW k \in 0..(n - 1), k \in S PROVE k + 1 \in S
  <2> HIDE DEF n
  <2>1. PICK m \in Nat : \A g \in 1..k : l(g) <= m
    BY <1>4
  <2>2. k + 1 \in 1..n /\ l(k + 1) \in Nat
    BY <1>1, <1>2
  <2>3. \A g \in 1..(k + 1) : l(g) <= m + l(k + 1)
    BY <1>1, <1>2, <2>1, <2>2
  <2>4. QED
    BY <2>2, <2>3
<1>5. n \in S
  <2> HIDE DEF n, S
  <2>1. 0..n \subseteq S
    BY <1>1, <1>3, <1>4, BoundedInduction
  <2>2. QED
    BY <1>1, <2>1
<1>6. PICK m \in Nat : \A g \in 1..n : l(g) <= m
  BY <1>5
<1> DEFINE T == {l(g) : g \in 1..n}
<1>7. Range(Plans[s]) = {Plans[s][g] : g \in 1..n}
  BY PlansAssumption DEF Range
<1>8. T = {Len(Text(p)) : p \in Range(Plans[s])}
  BY <1>7 DEF l
<1>9. T \in SUBSET (0..m) /\ T # {}
  <2> HIDE DEF n
  <2> QED
    BY <1>1, <1>2, <1>6
<1>10. Max(T) \in T /\ \A y \in T : y <= Max(T)
  <2> HIDE DEF T
  <2> QED
    BY <1>9, MaxIsMember
<1>11. Reach(s) = Max(T)
  BY <1>8 DEF Reach
<1>12. QED
  <2>1. Reach(s) \in Nat
    BY <1>9, <1>10, <1>11
  <2>2. \A g \in 1..n : l(g) <= Reach(s)
    BY <1>10, <1>11
  <2>3. QED
    BY <2>1, <2>2 DEF l

\* A decoded text is no longer than its bytes, and as long if none of them
\* continues a character.
LEMMA UnitsBound ==
    ASSUME NEW text \in Seq(Bytes)
    PROVE  /\ Units(text) \in 0..Len(text)
           /\ (\A i \in 1..Len(text) : text[i] \notin Continuation) => Units(text) = Len(text)
<1> DEFINE n == Len(text)
           C == {i \in 2..n : text[i] \in Continuation}
<1>1. n \in Nat
  OBVIOUS
<1>2. IsFiniteSet(1..n) /\ Cardinality(1..n) = n
  <2> HIDE DEF n
  <2>1. n \in Int
    BY <1>1
  <2>2. IsFiniteSet(1..n) /\ Cardinality(1..n) = IF 1 > n THEN 0 ELSE n - 1 + 1
    BY <2>1, FS_Interval
  <2>3. QED
    BY <1>1, <2>2
<1>3. C \subseteq 1..n
  BY <1>1
<1>4. IsFiniteSet(C) /\ Cardinality(C) <= n /\ Cardinality(C) \in Nat
  <2> HIDE DEF C, n
  <2> QED
    BY <1>2, <1>3, FS_Subset, FS_CardinalityType
<1>5. Units(text) = n - Cardinality(C)
  BY DEF Units
<1>6. (\A i \in 1..n : text[i] \notin Continuation) => Cardinality(C) = 0
  <2>1. (\A i \in 1..n : text[i] \notin Continuation) => C = {}
    BY <1>3
  <2> HIDE DEF C
  <2>2. QED
    BY <2>1, FS_EmptySet
<1>7. QED
  <2> HIDE DEF C
  <2>1. /\ Units(text) \in 0..n
        /\ (\A i \in 1..n : text[i] \notin Continuation) => Units(text) = n
    BY <1>1, <1>4, <1>5, <1>6
  <2>2. QED
    BY <2>1

\* A decoded text is longer than a part at its start that no byte of which
\* continues a character, if another such byte follows.
LEMMA UnitsBeyond ==
    ASSUME NEW text \in Seq(Bytes), NEW p \in Nat, NEW e \in (p + 1)..Len(text),
           text[e] \notin Continuation, \A i \in 1..p : text[i] \notin Continuation
    PROVE  p < Units(text)
<1> DEFINE n == Len(text)
           C == {i \in 2..n : text[i] \in Continuation}
           R == (p + 1)..n
<1>1. n \in Nat /\ p < n /\ e \in R
  OBVIOUS
<1>2. IsFiniteSet(R) /\ Cardinality(R) = n - p
  <2> HIDE DEF n
  <2>1. p + 1 \in Int /\ n \in Int
    BY <1>1
  <2>2. IsFiniteSet(R) /\ Cardinality(R) = IF p + 1 > n THEN 0 ELSE n - (p + 1) + 1
    BY <2>1, FS_Interval
  <2>3. QED
    BY <1>1, <2>2
<1>3. C \subseteq R \ {e}
  <2>1. \A i \in C : i \in R /\ i # e
    BY <1>1
  <2> HIDE DEF C, R
  <2>2. QED
    BY <2>1
<1>4. IsFiniteSet(R \ {e}) /\ Cardinality(R \ {e}) = n - p - 1
  <2> HIDE DEF n, R
  <2>1. IsFiniteSet(R \ {e}) /\ Cardinality(R \ {e}) = Cardinality(R) - 1
    BY <1>1, <1>2, FS_RemoveElement
  <2>2. QED
    BY <1>2, <2>1
<1>5. Cardinality(C) \in Nat /\ Cardinality(C) <= n - p - 1
  <2> HIDE DEF C, R, n
  <2>1. IsFiniteSet(C) /\ Cardinality(C) <= Cardinality(R \ {e})
    BY <1>3, <1>4, FS_Subset
  <2>2. QED
    BY <1>4, <2>1, FS_CardinalityType
<1>6. Units(text) = n - Cardinality(C)
  BY DEF Units
<1>7. QED
  <2> HIDE DEF C, n
  <2> QED
    BY <1>1, <1>5, <1>6

LEMMA SampleIsShort ==
    ASSUME NEW text \in Seq(Bytes), NEW size
    PROVE  ShortHead(HeadOf(text, size))
<1> DEFINE n == Len(text)
           T == {HeadSample, n}
           m == Min(T)
<1>1. HeadSample \in Nat /\ n \in Nat
  BY SizesAssumption
<1>2. T \in SUBSET Nat /\ T # {}
  BY <1>1
<1>3. m \in T /\ \A y \in T : m <= y
  <2> HIDE DEF T
  <2> QED
    BY <1>2, MinIsMember
<1>4. m \in 0..HeadSample /\ m <= n
  <2> HIDE DEF m, n
  <2> QED
    BY <1>1, <1>3
<1>5. HeadOf(text, size) = NoHead \/ HeadOf(text, size) = SubSeq(text, 1, m)
  BY DEF HeadOf
<1> HIDE DEF m
<1>6. Len(SubSeq(text, 1, m)) = m
  BY <1>1, <1>4
<1>7. QED
  BY <1>1, <1>4, <1>5, <1>6 DEF ShortHead

\* A place at the start of a file passes nothing, and no place more than all.
LEMMA PassedBounds ==
    ASSUME NEW s \in JsonlSources, NEW g \in 1..Len(Plans[s]), NEW place
    PROVE  /\ Passed(s, g, place) \subseteq Range(Plans[s][g])
           /\ place = 0 => Passed(s, g, place) = {}
           /\ place \in Nat => \A further \in Nat :
                 place <= further => Passed(s, g, place) \subseteq Passed(s, g, further)
<1> DEFINE recs == Plans[s][g]
           n == Len(recs)
           e == Ends(recs)
<1>1. recs \in Seq(Records) /\ n \in Nat
  BY PlanIsText
<1>2. \A i \in 0..n : e[i] \in Nat
  BY <1>1, EndsUnfold
<1>3. DOMAIN recs = 1..n
  BY <1>1
<1>4. Passed(s, g, place) = {recs[i] : i \in {k \in 1..n : e[k - 1] < place}}
  BY DEF Passed
<1> HIDE DEF recs, n, e
<1>5. Passed(s, g, place) \subseteq Range(recs)
  BY <1>3, <1>4 DEF Range
<1>6. ASSUME place = 0, NEW i \in 1..n PROVE ~ (e[i - 1] < place)
  <2>1. i - 1 \in 0..n
    BY <1>1
  <2>2. QED
    BY <1>2, <1>6, <2>1
<1>7. ASSUME place \in Nat, NEW further \in Nat, place <= further
      PROVE  Passed(s, g, place) \subseteq Passed(s, g, further)
  <2>1. \A i \in 1..n : i - 1 \in 0..n
    BY <1>1
  <2>2. \A i \in 1..n : e[i - 1] < place => e[i - 1] < further
    BY <1>2, <1>7, <2>1
  <2>3. Passed(s, g, further) = {recs[i] : i \in {k \in 1..n : e[k - 1] < further}}
    BY DEF Passed, recs, n, e
  <2>4. QED
    BY <1>4, <2>2, <2>3
<1>8. QED
  BY <1>4, <1>5, <1>6, <1>7 DEF recs

\* The records before a place are among those that the agents' side counts.
LEMMA PassedIsStarted ==
    ASSUME NEW s \in JsonlSources, NEW g \in 1..Len(Plans[s]), NEW place \in Nat
    PROVE  Passed(s, g, place) \subseteq StartedBefore(Plans[s][g], place)
<1> DEFINE recs == Plans[s][g]
           n == Len(recs)
           e == Ends(recs)
           N == Cardinality({p \in Newlines(Text(recs)) : p < place})
<1>1. recs \in Seq(Records)
  BY PlanIsText
<1>2. \A i \in 1..n : e[i - 1] < place => i \in 1..Min({place, N + 1, n})
  BY <1>1, LinesCountNewlines
<1>3. StartedBefore(recs, place) = {recs[i] : i \in 1..Min({place, N + 1, n})}
  BY DEF StartedBefore
<1>4. Passed(s, g, place) = {recs[i] : i \in {k \in 1..n : e[k - 1] < place}}
  BY DEF Passed
<1> HIDE DEF recs, n, e, N
<1>5. Passed(s, g, place) \subseteq StartedBefore(recs, place)
  BY <1>2, <1>3, <1>4
<1>6. QED
  BY <1>5 DEF recs

\* What a poll reads is after its cursor, and yielded, or behind it.
LEMMA FreshOrBehind ==
    ASSUME NEW c, c.time \in Nat, NEW session, NEW rows, NEW v \in rows,
           Rows!Time(v) \in Nat \ {0}
    PROVE  v \in Rows!Fresh(c, session, rows) \/ Rows!Behind(c, v)
BY DEF Rows!Fresh, Rows!Behind, Rows!Watermark, Rows!Replays

\* The first cursor leaves nothing behind.
LEMMA FirstCursorSound ==
    ASSUME IInv, NEW s \in Sources, NEW given
    PROVE  Sound(s, FirstCursor(s), given)
<1>1. CASE s \in JsonlSources
  <2>1. FirstCursor(s) = NoCursor /\ NoCursor.offset = 0 /\ NoCursor.head = NoHead
    BY <1>1 DEF FirstCursor, NoCursor
  <2>2. gen[s] \in 1..Len(Plans[s])
    BY <1>1 DEF IInv, SourceInv, ScanInv, FileInv
  <2>3. IsCursor(s, NoCursor)
    BY <1>1, <2>1, ReachBounds DEF IsCursor
  <2>4. JsonlSound(s, gen[s], NoCursor, given)
    BY <1>1, <2>1, <2>2, PassedBounds DEF JsonlSound, AtLine
  <2>5. QED
    BY <1>1, <2>1, <2>3, <2>4, SourcesAssumption DEF Sound, SoundAt
<1>2. CASE s \in RowSources
  <2>1. /\ FirstCursor(s) = Rows!NoRowCursor
        /\ Rows!NoRowCursor.time = 0 /\ Rows!NoRowCursor.key = Rows!NoKey
    BY <1>2, SourcesAssumption DEF FirstCursor, Rows!NoRowCursor
  <2>2. \A v \in Versions : Rows!Time(v) \in 1..MaxTime
    BY DEF IInv, TableTypeOK, Versions, Rows!Time
  <2>3. RowsSound(Versions, Rows!NoRowCursor, given)
    BY <2>1, <2>2, RowsAssumption DEF RowsSound, Rows!Behind
  <2>4. IsCursor(s, Rows!NoRowCursor)
    BY <1>2, <2>1, SourcesAssumption, RowsAssumption DEF IsCursor
  <2>5. QED
    BY <1>2, <2>1, <2>3, <2>4, SourcesAssumption DEF Sound, SoundAt
<1>3. QED
  BY <1>1, <1>2 DEF Sources

LEMMA SoundIsMonotone ==
    ASSUME NEW s, NEW c, NEW given, NEW more, given \subseteq more, Sound(s, c, given)
    PROVE  Sound(s, c, more)
BY DEF Sound, SoundAt, JsonlSound, RowsSound

LEMMA EmptyCursor ==
    ASSUME NEW s \in Sources PROVE Cursor(<<>>, s) = FirstCursor(s)
BY DEF Cursor

\* What a save writes: the own cursor, and for other sources what was loaded.
LEMMA MergedCursors ==
    ASSUME NEW s \in Sources, NEW r \in Sources
    PROVE  Cursor(Merged(s), r) = IF r = s THEN next[s] ELSE Cursor(seen[s], r)
BY DEF Cursor, Merged

\* What is left of a save that was cut off, and of one that was written over others.
LEMMA PartialCursors ==
    ASSUME NEW s \in Sources, NEW r \in Sources, NEW D \in SUBSET DOMAIN Merged(s)
    PROVE  Cursor([q \in D |-> Merged(s)[q]], r) \in {Cursor(Merged(s), r), FirstCursor(r)}
BY DEF Cursor

LEMMA WrittenOverCursors ==
    ASSUME NEW r \in Sources, NEW lines, NEW written \in WrittenOver(lines), written # Torn
    PROVE  \/ Cursor(written, r) = Cursor(lines, r)
           \/ store # Torn /\ Cursor(written, r) = Cursor(store, r)
<1>1. CASE written = lines
  BY <1>1
<1>2. CASE written # lines
  <2>1. store # Torn /\ \E left \in SUBSET DOMAIN store :
           written = [q \in DOMAIN lines \cup left |-> IF q \in left THEN store[q] ELSE lines[q]]
    BY <1>2 DEF WrittenOver
  <2>2. PICK left \in SUBSET DOMAIN store :
           written = [q \in DOMAIN lines \cup left |-> IF q \in left THEN store[q] ELSE lines[q]]
    BY <2>1
  <2>3. CASE r \in left
    BY <2>1, <2>2, <2>3 DEF Cursor
  <2>4. CASE r \notin left
    BY <2>2, <2>4 DEF Cursor
  <2>5. QED
    BY <2>3, <2>4
<1>3. QED
  BY <1>1, <1>2

\* What the file may hold after a save, be it cut off.
LEMMA SavedCursors ==
    ASSUME NEW s \in Sources, NEW r \in Sources, Write(s) \/ Crash(s), store' # Torn
    PROVE  \/ Cursor(store', r) \in {Cursor(Merged(s), r), FirstCursor(r)}
           \/ store # Torn /\ Cursor(store', r) = Cursor(store, r)
<1>1. \/ store' = store
      \/ store' \in WrittenOver(Merged(s))
      \/ \E D \in SUBSET DOMAIN Merged(s) : store' \in WrittenOver([q \in D |-> Merged(s)[q]])
  BY DEF Write, Crash
<1>2. CASE store' = store
  BY <1>2
<1>3. CASE store' \in WrittenOver(Merged(s))
  BY <1>3, WrittenOverCursors
<1>4. ASSUME NEW D \in SUBSET DOMAIN Merged(s),
             store' \in WrittenOver([q \in D |-> Merged(s)[q]])
      PROVE  \/ Cursor(store', r) \in {Cursor(Merged(s), r), FirstCursor(r)}
             \/ store # Torn /\ Cursor(store', r) = Cursor(store, r)
  <2> DEFINE lines == [q \in D |-> Merged(s)[q]]
  <2>1. Cursor(lines, r) \in {Cursor(Merged(s), r), FirstCursor(r)}
    BY PartialCursors
  <2>2. store' \in WrittenOver(lines)
    BY <1>4
  <2> HIDE DEF lines
  <2>3. QED
    BY <2>1, <2>2, WrittenOverCursors
<1>5. QED
  BY <1>1, <1>2, <1>3, <1>4

----------------------------------------------------------------------------
(* Steps that leave a source's artifact alone *)

\* The transcript that is being written, or the rows, stay what they are.
Stable(r) ==
    /\ r \in JsonlSources => gen'[r] = gen[r]
    /\ r \in RowSources => table' = table

LEMMA SoundRemains ==
    ASSUME NEW r, Stable(r), NEW c, NEW given, Sound(r, c, given)
    PROVE  SoundAt(r, gen'[r], Versions', c, given)
BY DEF Stable, Sound, SoundAt, Versions

\* The parts of the invariant after a step, one by one.
LEMMA PartsAfter ==
    ASSUME NEW r
    PROVE  /\ StoreInv(r)' <=> (store' # Torn =>
                 SoundAt(r, gen'[r], Versions', Cursor(store', r), (Given(r) \cup Saved(r))'))
           /\ SeenInv(r)' <=> (\A q \in Sources :
                 SoundAt(r, gen'[r], Versions', Cursor(seen'[q], r), (Given(r) \cup Saved(r))'))
           /\ NextInv(r)' <=> SoundAt(r, gen'[r], Versions', next'[r], (Given(r) \cup records[r])')
<1>1. StoreInv(r)' <=> (store' # Torn =>
         SoundAt(r, gen'[r], Versions', Cursor(store', r), (Given(r) \cup Saved(r))'))
  BY SMT DEF StoreInv, Sound, Cursor
<1>2. SeenInv(r)' <=> (\A q \in Sources :
         SoundAt(r, gen'[r], Versions', Cursor(seen'[q], r), (Given(r) \cup Saved(r))'))
  BY SMT DEF SeenInv, Sound, Cursor
<1>3. NextInv(r)' <=> SoundAt(r, gen'[r], Versions', next'[r], (Given(r) \cup records[r])')
  BY SMT DEF NextInv, Sound
<1>4. QED
  BY <1>1, <1>2, <1>3

LEMMA StoreKept ==
    ASSUME IInv, NEW r \in Sources, Stable(r),
           Given(r) \cup Saved(r) \subseteq (Given(r) \cup Saved(r))',
           store' \in {store, <<>>, Torn}
    PROVE  StoreInv(r)'
<1> DEFINE more == (Given(r) \cup Saved(r))'
<1>1. StoreInv(r)' <=> (store' # Torn => SoundAt(r, gen'[r], Versions', Cursor(store', r), more))
  BY PartsAfter
<1>2. store # Torn => Sound(r, Cursor(store, r), more)
  BY SoundIsMonotone DEF IInv, SourceInv, StoreInv
<1>3. Sound(r, Cursor(<<>>, r), more)
  BY EmptyCursor, FirstCursorSound
<1> HIDE DEF more
<1>4. store' # Torn => Sound(r, Cursor(store', r), more)
  BY <1>2, <1>3
<1>5. QED
  BY <1>1, <1>4, SoundRemains

LEMMA SeenKept ==
    ASSUME IInv, NEW r \in Sources, Stable(r),
           Given(r) \cup Saved(r) \subseteq (Given(r) \cup Saved(r))',
           \A q \in Sources :
              seen'[q] = seen[q] \/ seen'[q] = <<>> \/ (store # Torn /\ seen'[q] = store)
    PROVE  SeenInv(r)'
<1> DEFINE more == (Given(r) \cup Saved(r))'
<1>1. SeenInv(r)' <=> \A q \in Sources : SoundAt(r, gen'[r], Versions', Cursor(seen'[q], r), more)
  BY PartsAfter
<1>2. store # Torn => Sound(r, Cursor(store, r), more)
  BY SoundIsMonotone DEF IInv, SourceInv, StoreInv
<1>3. Sound(r, Cursor(<<>>, r), more)
  BY EmptyCursor, FirstCursorSound
<1>4. \A q \in Sources : Sound(r, Cursor(seen[q], r), more)
  BY SoundIsMonotone DEF IInv, SourceInv, SeenInv
<1> HIDE DEF more
<1>5. \A q \in Sources : Sound(r, Cursor(seen'[q], r), more)
  BY <1>2, <1>3, <1>4
<1>6. QED
  BY <1>1, <1>5, SoundRemains

LEMMA NextKept ==
    ASSUME IInv, NEW r \in Sources, Stable(r),
           \/ next'[r] = FirstCursor(r)
           \/ /\ next'[r] = next[r]
              /\ Given(r) \cup records[r] \subseteq (Given(r) \cup records[r])'
    PROVE  NextInv(r)'
<1> DEFINE more == (Given(r) \cup records[r])'
<1>1. NextInv(r)' <=> SoundAt(r, gen'[r], Versions', next'[r], more)
  BY PartsAfter
<1>2. Sound(r, FirstCursor(r), more)
  BY FirstCursorSound
<1>3. Given(r) \cup records[r] \subseteq more => Sound(r, next[r], more)
  BY SoundIsMonotone DEF IInv, SourceInv, NextInv
<1> HIDE DEF more
<1>4. Sound(r, next'[r], more)
  BY <1>2, <1>3 DEF more
<1>5. QED
  BY <1>1, <1>4, SoundRemains

\* A file is as long as it was, or longer.
FileGrows(r) == Len(file[r]) \in Nat /\ Len(file'[r]) \in Nat /\ Len(file[r]) <= Len(file'[r])

ReadPhases == {"stated", "sampled", "window", "session", "messages"}

LEMMA ScanKept ==
    ASSUME IInv, NEW r \in Sources, Stable(r),
           r \in JsonlSources => FileInv(r)' /\ FileGrows(r),
           Given(r) \subseteq Given(r)', excused[r] \subseteq excused'[r],
           \/ phase'[r] \notin ReadPhases
           \/ phase'[r] = phase[r] /\ scan'[r] = scan[r]
    PROVE  ScanInv(r)'
<1>1. ScanInv(r)
  BY DEF IInv, SourceInv
<1>2. ASSUME phase'[r] \notin ReadPhases PROVE ScanInv(r)'
  BY <1>2 DEF ScanInv, TextInv, QueryInv, ReadPhases
<1>3. ASSUME phase'[r] = phase[r], scan'[r] = scan[r] PROVE ScanInv(r)'
  <2>1. ASSUME r \in JsonlSources PROVE TextInv(r)'
    <3>1. TextInv(r) /\ gen'[r] = gen[r] /\ FileGrows(r) /\ Reach(r) \in Nat
      BY <1>1, <2>1, ReachBounds DEF ScanInv, Stable
    <3>2. phase[r] \in {"stated", "sampled"} =>
             scan[r].size \in 0..Reach(r) /\ (gen[r] = 1 => scan[r].size <= Len(file'[r]))
      BY <3>1 DEF TextInv, FileGrows
    <3>3. QED
      BY <1>3, <3>1, <3>2 DEF TextInv, Transcript
  <2>2. ASSUME r \in RowSources PROVE QueryInv(r)'
    BY <1>1, <1>3, <2>2 DEF ScanInv, Stable, QueryInv, ReadSoFar, Versions
  <2>3. QED
    BY <2>1, <2>2 DEF ScanInv
<1>4. QED
  BY <1>2, <1>3

\* An agent that does not write leaves its file to be what it is.
LEMMA FileKept ==
    ASSUME IInv, NEW r \in JsonlSources, gen'[r] = gen[r], file'[r] = file[r]
    PROVE  FileInv(r)' /\ FileGrows(r)
<1>1. FileInv(r)
  BY DEF IInv, SourceInv, ScanInv, Sources
<1>2. QED
  BY <1>1 DEF FileInv, Transcript, FileGrows

\* A step leaves everything of a source alone, but may excuse it from more.
Untouched(r) ==
    /\ Stable(r) /\ (r \in JsonlSources => file'[r] = file[r])
    /\ phase'[r] = phase[r] /\ scan'[r] = scan[r] /\ next'[r] = next[r]
    /\ records'[r] = records[r] /\ once'[r] = once[r] /\ dropped'[r] = dropped[r]
    /\ excused[r] \subseteq excused'[r]

LEMMA UntouchedParts ==
    ASSUME IInv, NEW r \in Sources, Untouched(r)
    PROVE  /\ Stable(r) /\ Given(r) \cup Saved(r) \subseteq (Given(r) \cup Saved(r))'
           /\ ScanInv(r)' /\ NextInv(r)'
<1>1. /\ Stable(r) /\ Given(r) \subseteq Given(r)'
      /\ Given(r) \cup Saved(r) \subseteq (Given(r) \cup Saved(r))'
      /\ Given(r) \cup records[r] \subseteq (Given(r) \cup records[r])'
      /\ excused[r] \subseteq excused'[r]
  BY DEF Untouched, Given, Saved
<1>2. phase'[r] = phase[r] /\ scan'[r] = scan[r] /\ next'[r] = next[r]
  BY DEF Untouched
<1>3. r \in JsonlSources => FileInv(r)' /\ FileGrows(r)
  BY FileKept DEF Untouched, Stable
<1>4. ScanInv(r)'
  BY <1>1, <1>2, <1>3, ScanKept
<1>5. NextInv(r)'
  BY <1>1, <1>2, NextKept
<1>6. QED
  BY <1>1, <1>4, <1>5

\* The steps of agents and other sources that do not write the checkpoint file.
LEMMA OthersReads ==
    ASSUME IInv, NEW s \in Sources, NEW r \in Sources, r # s,
           \/ AppendBytes(s) \/ Rewrite(s) \/ Load(s) \/ Truncate(s) \/ HandOver(s)
           \/ WatchAgain(s) \/ Stat(s) \/ Sample(s) \/ ReadText(s) \/ ReadBoundary(s)
           \/ ReadSession(s) \/ ReadMessages(s) \/ ReadParts(s)
    PROVE  SourceInv(r)'
<1>1. PollTypeOK
  BY DEF IInv
<1> DEFINE Quiet ==
        /\ Untouched(r) /\ store' \in {store, <<>>}
        /\ \A q \in Sources :
              \/ seen'[q] = seen[q] \/ seen'[q] = <<>>
              \/ store # Torn /\ seen'[q] = store
<1>2. ASSUME AppendBytes(s) \/ Rewrite(s) PROVE Quiet
  BY <1>1, <1>2 DEF AppendBytes, Rewrite, Untouched, Stable, PollTypeOK, pollVars
<1>3. ASSUME Load(s) \/ Truncate(s) \/ HandOver(s) \/ WatchAgain(s) PROVE Quiet
  BY <1>1, <1>3 DEF Load, Truncate, HandOver, WatchAgain, Fail, Forget, Untouched, Stable,
     PollTypeOK
<1>4. ASSUME NEW text, NEW start, NEW head, NEW fromTail, NEW onBoundary,
             Decode(s, text, start, head, fromTail, onBoundary)
      PROVE  Quiet
  BY <1>1, <1>4 DEF Decode, Fail, Forget, Untouched, Stable, PollTypeOK
<1>5. ASSUME Stat(s) \/ Sample(s) \/ ReadText(s) \/ ReadBoundary(s) PROVE Quiet
  <2> HIDE DEF Quiet
  <2>1. ASSUME ReadBoundary(s) PROVE Quiet
    BY <1>4, <2>1 DEF ReadBoundary
  <2>2. ASSUME Stat(s) \/ Sample(s) PROVE Quiet
    BY <1>1, <2>2 DEF Quiet, Stat, Sample, Untouched, Stable, PollTypeOK
  <2>3. ASSUME ReadText(s) PROVE Quiet
    <3>1. \/ UNCHANGED <<gen, file, table, store, seen, next, records, once, dropped, excused>>
             /\ phase' = [phase EXCEPT ![s] = "window"]
             /\ \E x : scan' = [scan EXCEPT ![s] = x]
          \/ \E text, start, head : Decode(s, text, start, head, FALSE, FALSE)
      BY <2>3 DEF ReadText
    <3>2. QED
      BY <1>1, <1>4, <3>1 DEF Quiet, Untouched, Stable, PollTypeOK
  <2>4. QED
    BY <1>5, <2>1, <2>2, <2>3
<1>6. ASSUME ReadSession(s) \/ ReadMessages(s) \/ ReadParts(s) PROVE Quiet
  BY <1>1, <1>6 DEF ReadSession, ReadMessages, ReadParts, Untouched, Stable, PollTypeOK
<1>7. Quiet
  <2> HIDE DEF Quiet
  <2> QED
    BY <1>2, <1>3, <1>5, <1>6
<1>8. /\ Stable(r) /\ Given(r) \cup Saved(r) \subseteq (Given(r) \cup Saved(r))'
      /\ ScanInv(r)' /\ NextInv(r)'
  BY <1>7, UntouchedParts
<1>9. StoreInv(r)' /\ SeenInv(r)'
  BY <1>7, <1>8, StoreKept, SeenKept
<1>10. QED
  BY <1>8, <1>9 DEF SourceInv

\* Another source's save restores what it loaded, in whole or in part.
LEMMA OthersSaves ==
    ASSUME IInv, NEW s \in Sources, NEW r \in Sources, r # s, Write(s) \/ Crash(s)
    PROVE  SourceInv(r)'
<1>1. PollTypeOK /\ SourceInv(r)
  BY DEF IInv
<1>2. Untouched(r)
  BY <1>1 DEF Write, Crash, Fail, Forget, Untouched, Stable, PollTypeOK
<1>3. \A q \in Sources : seen'[q] = seen[q] \/ seen'[q] = <<>>
  BY <1>1 DEF Write, Crash, Fail, Forget, PollTypeOK
<1>4. /\ Stable(r) /\ Given(r) \cup Saved(r) \subseteq (Given(r) \cup Saved(r))'
      /\ ScanInv(r)' /\ NextInv(r)'
  BY <1>2, UntouchedParts
<1>5. SeenInv(r)'
  BY <1>3, <1>4, SeenKept
<1> DEFINE more == (Given(r) \cup Saved(r))'
<1>6. StoreInv(r)' <=> (store' # Torn => SoundAt(r, gen'[r], Versions', Cursor(store', r), more))
  BY PartsAfter
<1>7. Sound(r, FirstCursor(r), more)
  BY FirstCursorSound
<1>8. store # Torn => Sound(r, Cursor(store, r), more)
  BY <1>1, <1>4, SoundIsMonotone DEF SourceInv, StoreInv
<1>9. Sound(r, Cursor(seen[s], r), more)
  BY <1>1, <1>4, SoundIsMonotone DEF SourceInv, SeenInv
<1> HIDE DEF more
<1>10. store' = Torn \/ Sound(r, Cursor(store', r), more)
  <2>1. Sound(r, Cursor(Merged(s), r), more)
    BY <1>9, MergedCursors
  <2>2. QED
    BY <1>7, <1>8, <2>1, SavedCursors
<1>11. StoreInv(r)'
  BY <1>4, <1>6, <1>10, SoundRemains
<1>12. QED
  BY <1>4, <1>5, <1>11 DEF SourceInv

\* The steps of a source's own poll that neither read its artifact nor write the
\* file.
LEMMA OwnQuietStep ==
    ASSUME IInv, NEW s \in Sources,
           Load(s) \/ Truncate(s) \/ HandOver(s) \/ WatchAgain(s)
    PROVE  SourceInv(s)'
<1>1. PollTypeOK
  BY DEF IInv
<1> USE DEF Load, Truncate, HandOver, WatchAgain, Fail, Forget, PollTypeOK
<1>2. Stable(s) /\ UNCHANGED <<gen, file, excused>> /\ store' \in {store, <<>>}
  BY <1>1 DEF Stable
<1>3. \A q \in Sources :
         seen'[q] = seen[q] \/ seen'[q] = <<>> \/ (store # Torn /\ seen'[q] = store)
  BY <1>1
<1>4. Given(s) \subseteq Given(s)' /\ Given(s) \cup Saved(s) \subseteq (Given(s) \cup Saved(s))'
  BY <1>1 DEF Given, Saved
<1>5. phase'[s] \notin ReadPhases
  BY <1>1 DEF ReadPhases
<1>6. \/ next'[s] = FirstCursor(s)
      \/ next'[s] = next[s] /\ Given(s) \cup records[s] \subseteq (Given(s) \cup records[s])'
  BY <1>1 DEF Given
<1>7. ScanInv(s)'
  BY <1>2, <1>4, <1>5, FileKept, ScanKept
<1>8. StoreInv(s)' /\ SeenInv(s)'
  BY <1>2, <1>3, <1>4, StoreKept, SeenKept
<1>9. NextInv(s)'
  BY <1>2, <1>6, NextKept
<1>10. QED
  BY <1>7, <1>8, <1>9 DEF SourceInv

\* What is saved is the next cursor, and what that leaves behind is on its way.
LEMMA OwnSave ==
    ASSUME IInv, NEW s \in Sources, Write(s) \/ Crash(s)
    PROVE  SourceInv(s)'
<1>1. PollTypeOK /\ SourceInv(s)
  BY DEF IInv
<1>2. /\ Stable(s) /\ UNCHANGED <<gen, file, excused>>
      /\ phase'[s] \notin ReadPhases
  BY <1>1 DEF Write, Crash, Fail, PollTypeOK, Stable, ReadPhases
<1>3. Given(s) \subseteq Given(s)' /\ Given(s) \cup Saved(s) \subseteq (Given(s) \cup Saved(s))'
  BY <1>1 DEF Write, Crash, Fail, Forget, PollTypeOK, Given, Saved
<1>4. \/ next'[s] = FirstCursor(s)
      \/ next'[s] = next[s] /\ Given(s) \cup records[s] \subseteq (Given(s) \cup records[s])'
  BY <1>1 DEF Write, Crash, Fail, Forget, PollTypeOK, Given
<1>5. \A q \in Sources : seen'[q] = seen[q] \/ seen'[q] = <<>>
  BY <1>1 DEF Write, Crash, Fail, Forget, PollTypeOK
<1> DEFINE more == (Given(s) \cup Saved(s))'
<1>6. store # Torn => Sound(s, Cursor(store, s), more)
  BY <1>1, <1>3, SoundIsMonotone DEF SourceInv, StoreInv
<1>7. ASSUME store' # store PROVE Given(s) \cup records[s] \subseteq more
  BY <1>1, <1>7 DEF Write, Crash, Fail, Forget, PollTypeOK, Given, Saved
<1>8. store' = Torn \/ Sound(s, Cursor(store', s), more)
  <2>1. SUFFICES ASSUME store' # store, store' # Torn PROVE Sound(s, Cursor(store', s), more)
    BY <1>6
  <2>2. Sound(s, next[s], more)
    BY <1>1, <1>7, <2>1, SoundIsMonotone DEF SourceInv, NextInv
  <2>3. Sound(s, FirstCursor(s), more)
    BY FirstCursorSound
  <2> HIDE DEF more
  <2>4. Sound(s, Cursor(Merged(s), s), more)
    BY <2>2, MergedCursors
  <2>5. QED
    BY <1>6, <2>1, <2>3, <2>4, SavedCursors
<1>9. StoreInv(s)' <=> (store' # Torn => SoundAt(s, gen'[s], Versions', Cursor(store', s), more))
  BY PartsAfter
<1> HIDE DEF more
<1>10. StoreInv(s)'
  BY <1>2, <1>8, <1>9, SoundRemains
<1>11. ScanInv(s)'
  BY <1>2, <1>3, FileKept, ScanKept
<1>12. SeenInv(s)' /\ NextInv(s)'
  BY <1>2, <1>3, <1>4, <1>5, SeenKept, NextKept
<1>13. QED
  BY <1>10, <1>11, <1>12 DEF SourceInv

----------------------------------------------------------------------------
(* Steps of a JSONL source's agent and poll *)

\* A step that changes what has been read, and nothing else of a source.
LEMMA ScanOnlyStep ==
    ASSUME IInv, NEW s \in Sources,
           UNCHANGED <<gen, table, store, seen, next, records, once, dropped, excused>>,
           phase'[s] = "saved" <=> phase[s] = "saved",
           ScanInv(s)'
    PROVE  SourceInv(s)'
<1>1. Stable(s)
  BY DEF Stable
<1>2. Given(s) = Given(s)' /\ Saved(s) = Saved(s)'
  BY DEF Given, Saved
<1>3. StoreInv(s)' /\ SeenInv(s)' /\ NextInv(s)'
  BY <1>1, <1>2, StoreKept, SeenKept, NextKept
<1>4. QED
  BY <1>3 DEF SourceInv

LEMMA AppendStep ==
    ASSUME IInv, NEW s \in JsonlSources, AppendBytes(s)
    PROVE  SourceInv(s)'
<1>1. PollTypeOK /\ SourceInv(s) /\ s \in Sources /\ FileInv(s)
  BY SourcesAssumption DEF IInv, Sources, SourceInv, ScanInv
<1>2. PICK text \in Flushed(Text(Transcript(s))) : file' = [file EXCEPT ![s] = text]
  BY DEF AppendBytes
<1>3. PICK n \in Flushes \cap 1..Len(Text(Transcript(s))) :
         text = SubSeq(Text(Transcript(s)), 1, n)
  BY DEF Flushed
<1>4. Text(Transcript(s)) \in Seq(Bytes)
  BY <1>1, PlanIsText DEF FileInv, Transcript
<1>5. text \in Seq(Bytes) /\ Matches(Transcript(s), 0, text)
  BY <1>3, <1>4 DEF Matches
<1>6. UNCHANGED <<gen, table, store, phase, seen, scan, next, records, once, dropped, excused>>
  BY DEF AppendBytes, pollVars
<1>7. FileInv(s)' /\ FileGrows(s)
  <2>1. file'[s] = text
    BY <1>1, <1>2 DEF PollTypeOK
  <2>2. PICK other \in Flushed(Text(Transcript(s))) :
           Len(other) > Len(file[s]) /\ file' = [file EXCEPT ![s] = other]
    BY DEF AppendBytes
  <2>3. file'[s] = other
    BY <1>1, <2>2 DEF PollTypeOK
  <2>4. Len(file[s]) \in Nat /\ Len(text) \in Nat
    BY <1>1, <1>5 DEF FileInv
  <2>5. FileGrows(s)
    BY <2>1, <2>2, <2>3, <2>4 DEF FileGrows
  <2>6. FileInv(s)'
    BY <1>1, <1>5, <1>6, <2>1 DEF FileInv, Transcript
  <2>7. QED
    BY <2>5, <2>6
<1>8. ScanInv(s)'
  BY <1>1, <1>6, <1>7, ScanKept DEF Stable, Given
<1>9. QED
  BY <1>1, <1>6, <1>8, ScanOnlyStep

\* The next offset is the end of the last line where no byte continues a character,
\* and never beyond it.
LEMMA NextOffsetFacts ==
    ASSUME NEW text \in Seq(Bytes), NEW start \in Nat
    PROVE  /\ NextOffset(start, text) \in Nat /\ start <= NextOffset(start, text)
           /\ NextOffset(start, text) <= start + LastNewline(text)
           /\ (\A i \in 1..Len(text) : text[i] \notin Continuation) =>
                 NextOffset(start, text) = start + LastNewline(text)
<1> DEFINE n == LastNewline(text)
           sub == SubSeq(text, 1, n)
<1>1. n \in Nat /\ n <= Len(text)
  BY LastNewlineIsLast
<1>2. NextOffset(start, text) = start + Units(sub)
  BY DEF NextOffset
<1> HIDE DEF n
<1>3. sub \in Seq(Bytes) /\ Len(sub) = n /\ \A i \in 1..n : i \in 1..Len(text) /\ sub[i] = text[i]
  BY <1>1
<1>4. /\ Units(sub) \in 0..n
      /\ (\A i \in 1..Len(text) : text[i] \notin Continuation) => Units(sub) = n
  <2> HIDE DEF sub
  <2>1. /\ Units(sub) \in 0..n
        /\ (\A i \in 1..n : sub[i] \notin Continuation) => Units(sub) = n
    BY <1>3, UnitsBound
  <2>2. QED
    BY <1>3, <2>1
<1>5. QED
  <2> HIDE DEF sub
  <2> QED
    BY <1>1, <1>2, <1>4 DEF n

\* After a rewrite what lies before a cursor that fits the file is excused.
LEMMA RewrittenCursor ==
    ASSUME NEW s \in JsonlSources, NEW g \in 1..Len(Plans[s]), g + 1 <= Len(Plans[s]),
           NEW c, c.offset \in Nat, NEW given,
           TakenFor(c, Plans[s][g + 1]) =>
               StartedBefore(Plans[s][g + 1], c.offset) \subseteq given
    PROVE  JsonlSound(s, g + 1, c, given)
<1>1. g + 1 \in 1..Len(Plans[s]) /\ g + 1 # 1
  OBVIOUS
<1>2. Passed(s, g + 1, c.offset) \subseteq StartedBefore(Plans[s][g + 1], c.offset)
  BY <1>1, PassedIsStarted
<1>3. Fits(s, g + 1, c.head) => TakenFor(c, Plans[s][g + 1])
  BY DEF Fits, TakenFor
<1>4. QED
  BY <1>1, <1>2, <1>3 DEF JsonlSound

LEMMA RewriteStep ==
    ASSUME IInv, NEW s \in JsonlSources, Rewrite(s)
    PROVE  SourceInv(s)'
<1> DEFINE g == gen[s]
           k == gen[s] + 1
           new == Plans[s][k]
<1>1. /\ PollTypeOK /\ SourceInv(s) /\ s \in Sources /\ s \notin RowSources
      /\ FileInv(s) /\ TextInv(s)
  BY SourcesAssumption DEF IInv, Sources, SourceInv, ScanInv
<1>2. UNCHANGED <<table, store, phase, seen, scan, next, records, once, dropped>>
  BY DEF Rewrite, pollVars
<1>3. g \in 1..Len(Plans[s]) /\ k \in 1..Len(Plans[s]) /\ k <= Len(Plans[s])
  BY <1>1 DEF FileInv, Rewrite
<1>4. gen'[s] = k
  BY <1>1 DEF Rewrite, PollTypeOK
<1>5. /\ excused[s] \subseteq excused'[s]
      /\ \A c \in CursorsOf(s) :
            TakenFor(c, new) => StartedBefore(new, c.offset) \subseteq excused'[s]
  <2>1. excused'[s] = excused[s] \cup
           UNION {StartedBefore(new, c.offset) : c \in {d \in CursorsOf(s) : TakenFor(d, new)}}
    BY <1>1 DEF Rewrite, PollTypeOK
  <2> HIDE DEF new
  <2>2. QED
    BY <2>1
<1>6. Given(s) \subseteq Given(s)' /\ excused'[s] \subseteq Given(s)' /\ Saved(s)' = Saved(s)
  BY <1>2, <1>5 DEF Given, Saved
<1>7. ScanInv(s)'
  <2>1. FileInv(s)'
    <3>1. PICK text \in Flushed(Text(new)) : file' = [file EXCEPT ![s] = text]
      BY DEF Rewrite
    <3>2. PICK n \in Flushes \cap 1..Len(Text(new)) : text = SubSeq(Text(new), 1, n)
      BY <3>1 DEF Flushed
    <3>3. Text(new) \in Seq(Bytes)
      BY <1>3, PlanIsText
    <3> HIDE DEF new
    <3>4. text \in Seq(Bytes) /\ Matches(new, 0, text)
      BY <3>2, <3>3 DEF Matches
    <3>5. file'[s] = text
      BY <1>1, <3>1 DEF PollTypeOK
    <3>6. QED
      BY <1>3, <1>4, <3>4, <3>5 DEF FileInv, Transcript, new
  <2>2. ASSUME phase[s] = "window"
        PROVE  Fits(s, k, scan[s].head) =>
                  Passed(s, k, NextOffset(scan[s].start, scan[s].text)) \subseteq excused'[s]
    <3> DEFINE place == NextOffset(scan[s].start, scan[s].text)
               c == [offset |-> place, head |-> scan[s].head]
    <3>1. scan[s].start \in Nat /\ scan[s].text \in Seq(Bytes)
      BY <1>1, <2>2, ReachBounds DEF TextInv
    <3>2. c \in CursorsOf(s)
      BY <2>2 DEF CursorsOf
    <3>3. place \in Nat
      BY <3>1, NextOffsetFacts
    <3>4. Passed(s, k, place) \subseteq StartedBefore(new, place)
      <4> HIDE DEF place
      <4> QED
        BY <1>3, <3>3, PassedIsStarted
    <3>5. Fits(s, k, scan[s].head) => TakenFor(c, new)
      BY DEF Fits, TakenFor
    <3>6. c.offset = place
      OBVIOUS
    <3> HIDE DEF c, place, new
    <3>7. Fits(s, k, scan[s].head) => Passed(s, k, place) \subseteq excused'[s]
      BY <1>5, <3>2, <3>4, <3>5, <3>6
    <3>8. QED
      BY <3>7 DEF place
  <2>3. (\A h \in 1..g : h \in 1..k /\ h # k) /\ k # 1
    BY <1>3
  <2>4. TextInv(s)'
    <3>1. phase[s] \in {"stated", "sampled"} => scan[s].size \in 0..Reach(s)
      BY <1>1 DEF TextInv
    <3>2. phase[s] = "sampled" => ShortHead(scan[s].head)
      BY <1>1 DEF TextInv
    <3>3. ASSUME phase[s] = "window"
          PROVE  /\ scan[s].start \in 1..Reach(s) /\ scan[s].text \in Seq(Bytes)
                 /\ ShortHead(scan[s].head)
                 /\ \E h \in 1..k :
                       /\ Matches(Plans[s][h], scan[s].start, scan[s].text)
                       /\ h # k /\ Fits(s, k, scan[s].head) =>
                             Passed(s, k, NextOffset(scan[s].start, scan[s].text))
                                 \subseteq excused'[s]
      <4>1. PICK h \in 1..g : Matches(Plans[s][h], scan[s].start, scan[s].text)
        BY <1>1, <3>3 DEF TextInv
      <4>2. /\ scan[s].start \in 1..Reach(s) /\ scan[s].text \in Seq(Bytes)
            /\ ShortHead(scan[s].head)
        BY <1>1, <3>3 DEF TextInv
      <4> HIDE DEF g, k, new
      <4>3. QED
        BY <2>2, <2>3, <3>3, <4>1, <4>2
    <3> HIDE DEF k, new
    <3>4. QED
      BY <1>2, <1>4, <2>3, <3>1, <3>2, <3>3 DEF TextInv
  <2>5. QED
    BY <1>1, <2>1, <2>4 DEF ScanInv
<1>8. ASSUME NEW c, NEW given, NEW more, Sound(s, c, given), c \in CursorsOf(s),
             excused'[s] \subseteq more
      PROVE  SoundAt(s, gen'[s], Versions', c, more)
  <2>1. IsCursor(s, c)
    BY <1>8 DEF Sound, SoundAt
  <2>2. c.offset \in Nat
    BY <2>1, ReachBounds DEF IsCursor
  <2>3. TakenFor(c, new) => StartedBefore(new, c.offset) \subseteq more
    <3> HIDE DEF new
    <3> QED
      BY <1>5, <1>8
  <2>4. JsonlSound(s, k, c, more)
    BY <1>3, <2>1, <2>2, <2>3, RewrittenCursor
  <2>5. QED
    BY <1>1, <1>4, <2>1, <2>4 DEF SoundAt
<1> HIDE DEF g, k, new
<1>9. StoreInv(s)'
  <2> DEFINE more == (Given(s) \cup Saved(s))'
  <2>1. StoreInv(s)' <=> (store' # Torn => SoundAt(s, gen'[s], Versions', Cursor(store', s), more))
    BY PartsAfter
  <2>2. excused'[s] \subseteq more
    BY <1>6
  <2> HIDE DEF more
  <2>3. store # Torn => Cursor(store, s) \in CursorsOf(s)
    BY DEF CursorsOf
  <2>4. store # Torn => Sound(s, Cursor(store, s), Given(s) \cup Saved(s))
    BY <1>1 DEF SourceInv, StoreInv
  <2>5. store # Torn => SoundAt(s, gen'[s], Versions', Cursor(store, s), more)
    BY <1>8, <2>2, <2>3, <2>4
  <2>6. QED
    BY <1>2, <2>1, <2>5
<1>10. SeenInv(s)'
  <2> DEFINE more == (Given(s) \cup Saved(s))'
  <2>1. SeenInv(s)' <=> \A q \in Sources : SoundAt(s, gen'[s], Versions', Cursor(seen'[q], s), more)
    BY PartsAfter
  <2>2. excused'[s] \subseteq more
    BY <1>6
  <2> HIDE DEF more
  <2>3. \A q \in Sources : Cursor(seen[q], s) \in CursorsOf(s)
    BY DEF CursorsOf
  <2>4. \A q \in Sources : Sound(s, Cursor(seen[q], s), Given(s) \cup Saved(s))
    BY <1>1 DEF SourceInv, SeenInv
  <2>5. \A q \in Sources : SoundAt(s, gen'[s], Versions', Cursor(seen[q], s), more)
    BY <1>8, <2>2, <2>3, <2>4
  <2>6. QED
    BY <1>2, <2>1, <2>5
<1>11. NextInv(s)'
  <2> DEFINE more == (Given(s) \cup records[s])'
  <2>1. NextInv(s)' <=> SoundAt(s, gen'[s], Versions', next'[s], more)
    BY PartsAfter
  <2>2. excused'[s] \subseteq more
    BY <1>6
  <2> HIDE DEF more
  <2>3. next[s] \in CursorsOf(s)
    BY DEF CursorsOf
  <2>4. Sound(s, next[s], Given(s) \cup records[s])
    BY <1>1 DEF SourceInv, NextInv
  <2>5. QED
    BY <1>2, <1>8, <2>1, <2>2, <2>3, <2>4
<1>12. QED
  BY <1>7, <1>9, <1>10, <1>11 DEF SourceInv

LEMMA StatStep ==
    ASSUME IInv, NEW s \in JsonlSources, Stat(s)
    PROVE  SourceInv(s)'
<1>1. /\ PollTypeOK /\ s \in Sources /\ s \notin RowSources /\ FileInv(s)
  BY SourcesAssumption DEF IInv, Sources, SourceInv, ScanInv
<1>2. UNCHANGED <<gen, file, table, store, seen, next, records, once, dropped, excused>>
  BY DEF Stat
<1>3. /\ phase[s] = "loaded" /\ phase'[s] = "stated"
      /\ scan'[s].size = Len(file[s])
  BY <1>1 DEF Stat, PollTypeOK
<1>4. Len(file[s]) \in 0..Reach(s)
  <2> DEFINE n == Len(file[s])
             m == Len(Text(Plans[s][gen[s]]))
  <2>1. n \in Nat /\ m \in Nat /\ m <= Reach(s) /\ Reach(s) \in Nat
    BY <1>1, PlanIsText, ReachBounds DEF FileInv
  <2>2. \A j \in 1..n : j <= m
    BY <1>1 DEF FileInv, Matches, Transcript
  <2> HIDE DEF n, m
  <2>3. n <= m
    BY <2>1, <2>2
  <2>4. n \in 0..Reach(s)
    BY <2>1, <2>3
  <2>5. QED
    BY <2>4 DEF n
<1>5. FileInv(s)' /\ FileGrows(s)
  BY <1>2, FileKept
<1>6. ScanInv(s)'
  BY <1>1, <1>2, <1>3, <1>4, <1>5 DEF ScanInv, TextInv, FileGrows
<1>7. QED
  BY <1>1, <1>2, <1>3, <1>6, ScanOnlyStep

LEMMA SampleStep ==
    ASSUME IInv, NEW s \in JsonlSources, Sample(s)
    PROVE  SourceInv(s)'
<1>1. /\ PollTypeOK /\ s \in Sources /\ s \notin RowSources /\ FileInv(s) /\ TextInv(s)
  BY SourcesAssumption DEF IInv, Sources, SourceInv, ScanInv
<1>2. UNCHANGED <<gen, file, table, store, seen, next, records, once, dropped, excused>>
  BY DEF Sample
<1>3. /\ phase[s] = "stated" /\ phase'[s] = "sampled"
      /\ scan'[s].size = scan[s].size /\ scan'[s].head = HeadOf(file[s], scan[s].size)
  BY <1>1 DEF Sample, PollTypeOK
<1>4. ShortHead(HeadOf(file[s], scan[s].size))
  BY <1>1, SampleIsShort DEF FileInv
<1>5. FileInv(s)'
  BY <1>2, FileKept
<1>6. ScanInv(s)'
  BY <1>1, <1>2, <1>3, <1>4, <1>5 DEF ScanInv, TextInv
<1>7. QED
  BY <1>1, <1>2, <1>3, <1>6, ScanOnlyStep

\* What a read takes of a file is what its transcript has there.
LEMMA WindowMatches ==
    ASSUME NEW recs \in Seq(Records), NEW text \in Seq(Bytes), Matches(recs, 0, text),
           NEW start \in Nat, NEW size \in Nat
    PROVE  /\ Window(text, start, size) \in Seq(Bytes)
           /\ Matches(recs, start, Window(text, start, size))
<1> DEFINE n == Len(text)
           T == {size, n}
           m == Min(T)
           w == SubSeq(text, start + 1, m)
<1>1. n \in Nat /\ T \in SUBSET Nat /\ T # {}
  OBVIOUS
<1>2. m \in T /\ \A y \in T : m <= y
  <2> HIDE DEF T
  <2> QED
    BY <1>1, MinIsMember
<1>3. m \in Nat /\ m <= n
  <2> HIDE DEF m, n
  <2> QED
    BY <1>1, <1>2
<1> HIDE DEF m
<1>4. w \in Seq(Bytes)
  BY <1>3
<1>5. \A j \in 1..Len(w) : start + j \in 1..n /\ w[j] = text[start + j]
  BY <1>3, SMTT(20)
<1>6. \A j \in 1..n : j <= Len(Text(recs)) /\ text[j] = Text(recs)[j]
  BY DEF Matches
<1>7. \A j \in 1..Len(w) : start + j <= Len(Text(recs)) /\ w[j] = Text(recs)[start + j]
  <2> HIDE DEF w, n
  <2> QED
    BY <1>5, <1>6
<1>8. Window(text, start, size) = w
  BY DEF Window, m
<1>9. QED
  BY <1>4, <1>7, <1>8 DEF Matches

\* A read starts at the cursor, at the beginning, or from the tail.
LEMMA StartFacts ==
    ASSUME NEW c, c.offset \in Nat, NEW size \in Nat, NEW head
    PROVE  /\ StartOf(c, size, head) \in {0, c.offset, size - InitialReadMax}
           /\ StartOf(c, size, head) \in Nat
           /\ StartsFromTail(c, StartOf(c, size, head)) =>
                 StartOf(c, size, head) \in 1..size
           /\ ~ StartsFromTail(c, StartOf(c, size, head)) =>
                 \/ StartOf(c, size, head) = 0
                 \/ StartOf(c, size, head) = c.offset /\ c.head \in {NoHead, head}
BY SizesAssumption DEF StartOf, StartsFromTail, Rewritten

\* What a text ends with lies within its transcript.
LEMMA MatchEnds ==
    ASSUME NEW s \in JsonlSources, NEW g \in 1..Len(Plans[s]), NEW start \in 0..Reach(s),
           NEW text \in Seq(Bytes), Matches(Plans[s][g], start, text), NEW k \in 0..Len(text)
    PROVE  start + k \in 0..Reach(s)
<1> DEFINE m == Len(Text(Plans[s][g]))
<1>1. m \in Nat /\ m <= Reach(s) /\ Reach(s) \in Nat
  BY PlanIsText, ReachBounds
<1>2. k = 0 \/ start + k <= m
  BY DEF Matches
<1> HIDE DEF m
<1>3. QED
  BY <1>1, <1>2

\* Every record that starts before the end of the last line is decoded, but for
\* those of what the read starts behind.
LEMMA DecodedOrBehind ==
    ASSUME NEW s \in JsonlSources, FileInv(s), NEW start \in Nat, NEW text \in Seq(Bytes),
           Matches(Transcript(s), start, text), NEW skip \in 0..LastNewline(text),
           NEW r \in Passed(s, gen[s], start + LastNewline(text))
    PROVE  \/ Line(r) \in Lines(SubSeq(text, skip + 1, LastNewline(text)))
           \/ r \in Passed(s, gen[s], start + skip)
<1> DEFINE recs == Transcript(s)
           n == Len(recs)
           e == Ends(recs)
           last0 == LastNewline(text)
<1>1. recs \in Seq(Records) /\ n \in Nat
  BY PlanIsText DEF FileInv, Transcript
<1>2. PICK i \in 1..n : r = recs[i] /\ e[i - 1] < start + last0
  BY DEF Passed, Transcript
<1>3. e[i - 1] \in Nat /\ start + skip \in Nat
  <2>1. i - 1 \in 0..n
    BY <1>1
  <2>2. last0 \in Nat
    BY LastNewlineIsLast
  <2>3. skip \in Nat
    BY <2>2
  <2>4. e[i - 1] \in Nat
    BY <1>1, <2>1, EndsUnfold
  <2>5. start + skip \in Nat
    BY <2>3
  <2>6. QED
    BY <2>4, <2>5
<1>4. CASE start + skip <= e[i - 1]
  BY <1>1, <1>2, <1>4, LinesAreComplete
<1>5. CASE e[i - 1] < start + skip
  BY <1>2, <1>5 DEF Passed, Transcript
<1>6. QED
  <2> HIDE DEF e
  <2> QED
    BY <1>3, <1>4, <1>5

\* No byte of a narrow transcript continues a character, nor does a newline.
LEMMA NarrowBytes ==
    ASSUME NEW recs \in Seq(Records), NEW k \in 0..Len(recs),
           \A i \in 1..k : ~ IsWide(recs[i]), NEW p \in 1..Ends(recs)[k]
    PROVE  Text(recs)[p] \notin Continuation
<1> DEFINE n == Len(recs)
           e == Ends(recs)
<1>1. n \in Nat /\ e \in [0..n -> Nat] /\ k \in 0..n
  BY EndsUnfold
<1>2. Len(Text(recs)) = e[n] /\ e[k] <= e[n]
  BY <1>1, TextLayout
<1>3. p \in 1..Len(Text(recs)) /\ p <= e[k] /\ p \in Nat
  <2> HIDE DEF e, n
  <2> QED
    BY <1>1, <1>2 DEF e
<1>4. PICK i \in 1..n : e[i - 1] < p /\ p <= e[i]
  BY <1>3, TextLayout
<1>5. i \in 0..n /\ i - 1 \in 0..n /\ e[i] = e[i - 1] + Width[recs[i]] + 1
  BY <1>1, EndsUnfold
<1>6. recs[i] \in Records /\ Width[recs[i]] \in Nat
  BY WidthAssumption
<1>7. i <= k
  <2>1. ASSUME k < i PROVE FALSE
    <3>1. i - 1 \in 0..n /\ k \in 0..(i - 1)
      BY <1>1, <1>5, <2>1
    <3>2. e[k] <= e[i - 1]
      BY <3>1, TextLayout
    <3>3. e[k] \in Nat /\ e[i - 1] \in Nat
      BY <1>1, <1>5
    <3> HIDE DEF e, n
    <3>4. QED
      BY <1>3, <1>4, <3>2, <3>3
  <2>2. QED
    BY <1>1, <1>5, <2>1
<1>8. ~ IsWide(recs[i])
  BY <1>7
<1>9. CASE p = e[i]
  BY <1>9, TextLayout, BytesAssumption
<1>10. CASE p # e[i]
  <2> DEFINE x == e[i - 1]
             y == e[i]
             j == p - e[i - 1]
             w == Width[recs[i]]
  <2>1. x \in Nat /\ y = x + w + 1 /\ x < p /\ p <= y /\ p # y /\ w \in Nat
    BY <1>1, <1>4, <1>5, <1>6, <1>10
  <2> HIDE DEF x, y, w
  <2>2. p - x \in 1..w /\ p = x + (p - x)
    BY <1>3, <2>1
  <2>3. j \in 1..Width[recs[i]] /\ p = e[i - 1] + j
    BY <2>2 DEF x, w
  <2>4. Text(recs)[e[i - 1] + j] = <<recs[i], j>>
    BY <2>3, TextLayout
  <2> HIDE DEF j, e
  <2>5. Text(recs)[p] = <<recs[i], j>>
    BY <2>3, <2>4
  <2>6. Line(recs[i])[j] = <<recs[i], j>> /\ j \in DOMAIN Line(recs[i])
    BY <1>6, <2>3, LineBytes DEF Line
  <2>7. <<recs[i], j>> \in Range(Line(recs[i]))
    BY <2>6 DEF Range
  <2>8. QED
    BY <1>8, <2>5, <2>7 DEF IsWide
<1>11. QED
  BY <1>9, <1>10

\* A line that decodes as some record decodes as the one it is of.
LEMMA DecodedIsRecord ==
    ASSUME NEW r \in Records, Decoded(Line(r)) # {}
    PROVE  r \in Decoded(Line(r))
<1>1. PICK q \in Records \ Malformed : Line(q) = Line(r)
  BY DEF Decoded
<1>2. 1 \in 1..Width[q] /\ 1 \in 1..Width[r]
  BY <1>1, WidthAssumption
<1>3. Line(q)[1] = <<q, 1>> /\ Line(r)[1] = <<r, 1>>
  BY <1>1, <1>2, LineBytes
<1>4. q = r
  BY <1>1, <1>3
<1>5. QED
  BY <1>1, <1>4 DEF Decoded

\* Where a read of a narrow transcript ends, if it ends a line.
LEMMA NextAtLine ==
    ASSUME NEW recs \in Seq(Records), Narrow(recs), NEW text \in Seq(Bytes), NEW start \in Nat,
           Matches(recs, start, text), LastNewline(text) = 0 => AtLine(recs, start)
    PROVE  AtLine(recs, NextOffset(start, text))
<1> DEFINE n == Len(recs)
           stop == LastNewline(text)
<1>1. stop \in 0..Len(text) /\ (stop # 0 => text[stop] = NL)
  BY LastNewlineIsLast
<1>2. \A i \in 1..n : ~ IsWide(recs[i])
  BY DEF Narrow, Range
<1>3. \A j \in 1..Len(text) : start + j \in 1..Ends(recs)[n] /\ text[j] = Text(recs)[start + j]
  BY TextLayout DEF Matches
<1>4. \A j \in 1..Len(text) : text[j] \notin Continuation
  <2>1. n \in 0..n
    OBVIOUS
  <2>2. QED
    BY <1>2, <1>3, <2>1, NarrowBytes
<1>5. NextOffset(start, text) = start + stop
  BY <1>4, NextOffsetFacts
<1>6. CASE stop = 0
  BY <1>5, <1>6
<1>7. CASE stop # 0
  <2>1. stop \in 1..Len(text)
    BY <1>1, <1>7
  <2>2. Text(recs)[start + stop] = NL
    BY <1>1, <1>3, <1>7, <2>1
  <2>3. QED
    BY <1>5, <2>2 DEF AtLine
<1>8. QED
  BY <1>6, <1>7

LEMMA DecodeStep ==
    ASSUME IInv, NEW s \in JsonlSources, NEW text \in Seq(Bytes), NEW start \in 0..Reach(s),
           NEW head, NEW fromTail, NEW onBoundary,
           Decode(s, text, start, head, fromTail, onBoundary),
           phase[s] # "saved", ShortHead(head),
           NEW g \in 1..gen[s], Matches(Plans[s][g], start, text),
           g # gen[s] /\ Fits(s, gen[s], head) =>
               Passed(s, gen[s], NextOffset(start, text)) \subseteq excused[s],
           fromTail /\ gen[s] = 1 /\ LastNewline(text) = 0 => AtLine(Plans[s][1], start),
           ~ fromTail =>
              start = 0 \/ (start = Own(s).offset /\ Own(s).head \in {NoHead, head})
    PROVE  SourceInv(s)'
<1> DEFINE skip == Discarded(text, fromTail, onBoundary)
           stop == LastNewline(text)
           lines == Lines(SubSeq(text, skip + 1, stop))
           decoded == UNION {Decoded(l) : l \in lines}
           place == NextOffset(start, text)
<1>1. /\ PollTypeOK /\ SourceInv(s) /\ s \in Sources /\ s \notin RowSources /\ FileInv(s)
      /\ gen[s] \in 1..Len(Plans[s]) /\ g \in 1..Len(Plans[s])
  BY SourcesAssumption DEF IInv, Sources, SourceInv, ScanInv, FileInv
<1>2. UNCHANGED <<gen, file, table, store, once, dropped>> /\ Stable(s)
  BY DEF Decode, Stable
<1>3. /\ excused[s] \subseteq excused'[s]
      /\ fromTail => StartedBefore(Transcript(s), start + skip) \subseteq excused'[s]
  BY <1>1 DEF Decode, PollTypeOK
<1>4. Given(s) \subseteq Given(s)' /\ excused'[s] \subseteq Given(s)'
  BY <1>2, <1>3 DEF Given
<1>5. Saved(s) = {}
  BY DEF Saved
<1>6. FileInv(s)' /\ FileGrows(s)
  BY <1>2, FileKept
<1>7. /\ \A q \in Sources : seen'[q] = seen[q] \/ seen'[q] = <<>>
      /\ phase'[s] \in {"dead", "read"}
      /\ \/ next'[s] = FirstCursor(s)
         \/ /\ next'[s] = [offset |-> place, head |-> head]
            /\ records'[s] = decoded
            /\ \A l \in lines : Decoded(l) # {}
  BY <1>1 DEF Decode, Fail, Forget, PollTypeOK
<1>8. ScanInv(s)'
  BY <1>1, <1>2, <1>3, <1>4, <1>6, <1>7, ScanKept DEF ReadPhases
<1>9. StoreInv(s)' /\ SeenInv(s)'
  <2>1. Given(s) \cup Saved(s) \subseteq (Given(s) \cup Saved(s))'
    BY <1>4, <1>5
  <2>2. QED
    BY <1>1, <1>2, <1>7, <2>1, StoreKept, SeenKept
<1>10. stop \in 0..Len(text) /\ skip \in 0..stop /\ start \in Nat
  BY LastNewlineIsLast, DiscardedIsBeforeLast, ReachBounds
<1> HIDE DEF skip, stop, lines, place
<1>11. IsCursor(s, [offset |-> place, head |-> head])
  <2>1. place \in Nat /\ place <= start + stop
    BY <1>10, NextOffsetFacts DEF place, stop
  <2>2. start + stop \in 0..Reach(s)
    BY <1>1, <1>10, MatchEnds
  <2>3. Reach(s) \in Nat
    BY ReachBounds
  <2>4. place \in 0..Reach(s)
    BY <1>10, <2>1, <2>2, <2>3
  <2>5. QED
    BY <2>4 DEF IsCursor, ShortHead
<1>12. ASSUME Fits(s, gen[s], head), \A l \in lines : Decoded(l) # {}
       PROVE  Passed(s, gen[s], place) \subseteq Given(s)' \cup decoded
  <2>1. place \in Nat /\ place <= start + stop /\ start + stop \in Nat
    <3>1. place \in Nat /\ place <= start + stop
      BY <1>10, NextOffsetFacts DEF place, stop
    <3>2. QED
      BY <1>10, <3>1
  <2>2. CASE g # gen[s]
    BY <1>3, <1>4, <1>12, <2>2 DEF place
  <2>3. CASE g = gen[s]
    <3>1. Passed(s, gen[s], place) \subseteq Passed(s, gen[s], start + stop)
      BY <1>1, <2>1, PassedBounds
    <3>2. SUFFICES ASSUME NEW r \in Passed(s, gen[s], start + stop)
                   PROVE  r \in Given(s)' \cup decoded
      BY <3>1
    <3>3. Line(r) \in lines \/ r \in Passed(s, gen[s], start + skip)
      <4>1. Matches(Transcript(s), start, text)
        BY <2>3 DEF Transcript
      <4>2. QED
        BY <1>1, <1>10, <3>2, <4>1, DecodedOrBehind DEF stop, lines
    <3>4. CASE Line(r) \in lines
      <4>1. r \in Records
        BY <1>1, <3>2, PassedBounds, PlanIsText DEF Range
      <4>2. r \in Decoded(Line(r))
        BY <1>12, <3>4, <4>1, DecodedIsRecord
      <4>3. QED
        BY <3>4, <4>2
    <3>5. CASE fromTail /\ r \in Passed(s, gen[s], start + skip)
      <4>1. start + skip \in Nat
        BY <1>10
      <4>2. Passed(s, gen[s], start + skip) \subseteq StartedBefore(Transcript(s), start + skip)
        BY <1>1, <4>1, PassedIsStarted DEF Transcript
      <4>3. QED
        BY <1>3, <1>4, <3>5, <4>2
    <3>6. CASE ~ fromTail /\ r \in Passed(s, gen[s], start + skip)
      <4>1. skip = 0
        BY <3>6 DEF skip, Discarded
      <4>2. start + skip = start
        BY <1>10, <4>1
      <4>3. Passed(s, gen[s], start) \subseteq Given(s)
        <5>1. CASE start = 0
          BY <1>1, <5>1, PassedBounds
        <5>2. CASE start = Own(s).offset /\ Own(s).head \in {NoHead, head}
          <6>1. Sound(s, Own(s), Given(s))
            BY <1>1, <1>5 DEF SourceInv, SeenInv, Own
          <6>2. Fits(s, gen[s], Own(s).head)
            BY <1>12, <5>2 DEF Fits
          <6>3. QED
            BY <1>12, <5>2, <6>1, <6>2 DEF Sound, SoundAt, JsonlSound
        <5>3. QED
          BY <3>6, <5>1, <5>2
      <4>4. QED
        BY <1>4, <3>6, <4>2, <4>3
    <3>7. QED
      BY <3>3, <3>4, <3>5, <3>6
  <2>4. QED
    BY <2>2, <2>3
<1>13. ASSUME gen[s] = 1, Narrow(Plans[s][1]) PROVE AtLine(Plans[s][1], place)
  <2>1. g = 1 /\ Plans[s][1] \in Seq(Records)
    BY <1>1, <1>13, PlanIsText
  <2>2. stop = 0 => AtLine(Plans[s][1], start)
    <3>1. CASE fromTail
      BY <1>13, <3>1 DEF stop
    <3>2. CASE ~ fromTail
      <4>1. CASE start = 0
        BY <4>1 DEF AtLine
      <4>2. CASE start = Own(s).offset
        <5>1. Sound(s, Own(s), Given(s))
          BY <1>1, <1>5 DEF SourceInv, SeenInv, Own
        <5>2. QED
          BY <1>13, <4>2, <5>1 DEF Sound, SoundAt, JsonlSound
      <4>3. QED
        BY <3>2, <4>1, <4>2
    <3>3. QED
      BY <3>1, <3>2
  <2>3. QED
    BY <1>10, <1>13, <2>1, <2>2, NextAtLine DEF place, stop
<1>14. NextInv(s)'
  <2>1. CASE next'[s] = FirstCursor(s)
    BY <1>1, <1>2, <2>1, NextKept
  <2>2. CASE /\ next'[s] = [offset |-> place, head |-> head] /\ records'[s] = decoded
             /\ \A l \in lines : Decoded(l) # {}
    <3> DEFINE c == [offset |-> place, head |-> head]
               more == (Given(s) \cup records[s])'
    <3>1. NextInv(s)' <=> SoundAt(s, gen'[s], Versions', next'[s], more)
      BY PartsAfter
    <3>2. more = Given(s)' \cup decoded
      BY <2>2
    <3>3. c.offset = place /\ c.head = head
      OBVIOUS
    <3>4. IsCursor(s, c)
      BY <1>11
    <3>5. Fits(s, gen[s], head) => Passed(s, gen[s], place) \subseteq Given(s)' \cup decoded
      BY <1>12, <2>2
    <3> HIDE DEF c, more, decoded
    <3>6. JsonlSound(s, gen[s], c, more)
      BY <1>13, <3>2, <3>3, <3>5 DEF JsonlSound
    <3>7. SoundAt(s, gen'[s], Versions', c, more)
      BY <1>1, <1>2, <3>4, <3>6 DEF SoundAt
    <3>8. QED
      BY <2>2, <3>1, <3>7 DEF c
  <2>3. QED
    BY <1>7, <2>1, <2>2
<1>15. QED
  BY <1>8, <1>9, <1>14 DEF SourceInv

\* A read ends within the file, and takes what is there.
LEMMA WindowPlaces ==
    ASSUME NEW text \in Seq(Bytes), NEW start \in Nat, NEW size \in Nat
    PROVE  /\ Window(text, start, size) \in Seq(Bytes)
           /\ Len(Window(text, start, size)) # 0 =>
                 start + Len(Window(text, start, size)) <= Len(text)
           /\ \/ size <= start + Len(Window(text, start, size))
              \/ Len(text) <= start + Len(Window(text, start, size))
           /\ size <= Len(text) /\ start <= size =>
                 /\ Len(Window(text, start, size)) = size - start
                 /\ \A j \in 1..(size - start) : Window(text, start, size)[j] = text[start + j]
<1> DEFINE n == Len(text)
           T == {size, n}
           m == Min(T)
           w == SubSeq(text, start + 1, m)
<1>1. n \in Nat /\ T \in SUBSET Nat /\ T # {}
  OBVIOUS
<1>2. m \in T /\ \A y \in T : m <= y
  <2> HIDE DEF T
  <2> QED
    BY <1>1, MinIsMember
<1>3. m \in Nat /\ m <= n /\ (size <= n => m = size)
  <2> HIDE DEF m, n
  <2> QED
    BY <1>1, <1>2
<1> HIDE DEF m
<1>4. w \in Seq(Bytes) /\ (Len(w) # 0 => start + Len(w) <= n)
  BY <1>3
<1>5. size <= n /\ start <= size =>
         Len(w) = size - start /\ \A j \in 1..(size - start) : w[j] = text[start + j]
  <2> SUFFICES ASSUME size <= n, start <= size
               PROVE  Len(w) = size - start /\ \A j \in 1..(size - start) : w[j] = text[start + j]
    OBVIOUS
  <2>1. m \in start..Len(text)
    BY <1>3
  <2>2. Len(w) = m - start /\ \A j \in 1..(m - start) : w[j] = text[start + j]
    BY <2>1, SubSeqBytes
  <2> HIDE DEF w, n
  <2>3. QED
    BY <1>3, <2>2
<1>6. Window(text, start, size) = w
  BY DEF Window, m
<1>7. size <= start + Len(w) \/ n <= start + Len(w)
  <2>1. m <= start + Len(w)
    <3>1. CASE start <= m
      <4>1. m \in start..Len(text)
        BY <1>3, <3>1
      <4>2. Len(w) = m - start
        BY <4>1, SubSeqBytes
      <4> HIDE DEF w
      <4>3. QED
        BY <1>3, <4>2
    <3>2. CASE m < start
      <4>1. Len(w) \in Nat
        BY <1>4
      <4> HIDE DEF w
      <4>2. QED
        BY <1>3, <3>2, <4>1
    <3>3. QED
      BY <1>3, <3>1, <3>2
  <2> HIDE DEF w, n
  <2>2. QED
    BY <1>2, <2>1
<1>8. QED
  BY <1>4, <1>5, <1>6, <1>7

\* A first read that ends before a line does took all there was, up to
\* initialReadMaxBytes: it began at a line, or in a longer one.
LEMMA TailAtLine ==
    ASSUME NEW recs \in Seq(Records), NEW text \in Seq(Bytes), Matches(recs, 0, text),
           NEW size \in Nat, size <= Len(text), NEW start \in 1..size,
           start = size - InitialReadMax,
           LastNewline(Window(text, start, size)) = 0
    PROVE  AtLine(recs, start)
<1> DEFINE n == Len(recs)
           e == Ends(recs)
           w == Window(text, start, size)
<1>1. n \in Nat /\ e \in [0..n -> Nat] /\ InitialReadMax \in Nat /\ start \in Nat
  BY EndsUnfold, SizesAssumption
<1>2. /\ w \in Seq(Bytes) /\ Len(w) = size - start
      /\ \A j \in 1..(size - start) : w[j] = text[start + j]
  <2>1. start <= size
    OBVIOUS
  <2>2. QED
    BY <1>1, <2>1, WindowPlaces, Zenon
<1>3. \A j \in 1..(size - start) : w[j] # NL
  <2>1. \A j \in 1..Len(w) : w[j] = NL => j <= 0
    BY <1>2, LastNewlineIsLast
  <2> HIDE DEF w
  <2>2. QED
    BY <1>2, <2>1
<1>4. \A p \in 1..Len(text) : p <= Len(Text(recs)) /\ text[p] = Text(recs)[p]
  BY DEF Matches
<1>5. start \in 1..Len(Text(recs))
  BY <1>4, TextLayout
<1>6. \A p \in (start + 1)..size : Text(recs)[p] # NL
  <2> SUFFICES ASSUME NEW p \in (start + 1)..size PROVE Text(recs)[p] # NL
    OBVIOUS
  <2>1. p - start \in 1..(size - start) /\ p = start + (p - start) /\ p \in 1..Len(text)
    OBVIOUS
  <2> HIDE DEF w
  <2>2. QED
    BY <1>2, <1>3, <1>4, <2>1
<1>7. PICK i \in 1..n : e[i - 1] < start /\ start <= e[i]
  BY <1>5, TextLayout
<1>8. i \in 0..n /\ i - 1 \in 0..n /\ e[i] = e[i - 1] + Width[recs[i]] + 1
  BY <1>1, EndsUnfold
<1>9. recs[i] \in Records /\ Width[recs[i]] \in Nat
  BY WidthAssumption
<1>10. CASE start = e[i]
  BY <1>10, TextLayout DEF AtLine
<1>11. CASE start # e[i]
  <2> DEFINE x == e[i - 1]
             y == e[i]
             m == Width[recs[i]]
             j == start - e[i - 1]
  <2>1. x \in Nat /\ y = x + m + 1 /\ x < start /\ start < y /\ m \in Nat
    <3>1. x \in Nat /\ y \in Nat /\ y = x + m + 1 /\ m \in Nat
      BY <1>1, <1>8, <1>9
    <3>2. x < start /\ start <= y /\ start # y
      BY <1>7, <1>11
    <3> HIDE DEF x, y, m
    <3>3. QED
      BY <1>1, <3>1, <3>2
  <2>2. Text(recs)[y] = NL
    BY TextLayout
  <2> HIDE DEF x, y, m
  <2>3. size < y
    BY <1>6, <2>1, <2>2
  <2>4. m > InitialReadMax /\ start - x \in 1..m /\ start = x + (start - x)
    BY <1>1, <2>1, <2>3
  <2>5. j \in 1..Width[recs[i]] /\ start = e[i - 1] + j
    BY <2>4 DEF x, m
  <2>6. Text(recs)[e[i - 1] + j] = <<recs[i], j>>
    BY <2>5, TextLayout
  <2> HIDE DEF j, e
  <2>7. Text(recs)[start] = <<recs[i], j>>
    BY <2>5, <2>6
  <2>8. Line(recs[i])[j] = <<recs[i], j>> /\ j \in DOMAIN Line(recs[i])
    BY <1>9, <2>5, LineBytes DEF Line
  <2>9. <<recs[i], j>> \in Range(Line(recs[i])) /\ recs[i] \in Range(recs)
    BY <2>8 DEF Range
  <2>10. QED
    BY <2>4, <2>7, <2>9 DEF AtLine, m
<1>12. QED
  BY <1>10, <1>11

LEMMA ReadTextStep ==
    ASSUME IInv, NEW s \in JsonlSources, ReadText(s)
    PROVE  SourceInv(s)'
<1> DEFINE size == scan[s].size
           head == scan[s].head
           start == StartOf(Own(s), size, head)
           text == Window(file[s], start, size)
<1>1. /\ PollTypeOK /\ SourceInv(s) /\ s \in Sources /\ s \notin RowSources
      /\ FileInv(s) /\ TextInv(s) /\ gen[s] \in 1..gen[s]
  BY SourcesAssumption DEF IInv, Sources, SourceInv, ScanInv, FileInv
<1>2. /\ phase[s] = "sampled"
      /\ IF StartsFromTail(Own(s), start)
         THEN /\ Becomes(s, "window")
              /\ scan' = [scan EXCEPT ![s] = [head |-> @.head, start |-> start, text |-> text]]
              /\ UNCHANGED <<watching, agentVars, store, seen, next, records, crashes,
                             histVars, excused>>
         ELSE Decode(s, text, start, head, FALSE, FALSE)
  BY DEF ReadText
<1>3. /\ size \in 0..Reach(s) /\ Reach(s) \in Nat /\ ShortHead(head)
      /\ gen[s] = 1 => size <= Len(file[s])
  BY <1>1, <1>2, ReachBounds DEF TextInv
<1>4. Own(s).offset \in 0..Reach(s)
  BY <1>1 DEF SourceInv, SeenInv, Sound, SoundAt, Own, IsCursor
<1>5. /\ start \in {0, Own(s).offset, size - InitialReadMax}
      /\ start \in Nat
      /\ StartsFromTail(Own(s), start) => start \in 1..size
      /\ ~ StartsFromTail(Own(s), start) =>
            start = 0 \/ (start = Own(s).offset /\ Own(s).head \in {NoHead, head})
  <2> DEFINE c == Own(s)
  <2>1. c.offset \in Nat /\ size \in Nat
    BY <1>3, <1>4
  <2> HIDE DEF c, size, head
  <2>2. QED
    BY <2>1, StartFacts DEF c
<1>6. start \in 0..Reach(s)
  <2> HIDE DEF size, start
  <2> QED
    BY <1>3, <1>4, <1>5, SizesAssumption
<1>7. text \in Seq(Bytes) /\ Matches(Transcript(s), start, text)
  <2>1. Transcript(s) \in Seq(Records)
    BY <1>1, PlanIsText DEF FileInv, Transcript
  <2>2. size \in Nat
    BY <1>3
  <2> HIDE DEF size, start
  <2>3. QED
    BY <1>1, <1>5, <2>1, <2>2, WindowMatches DEF FileInv
<1> HIDE DEF size, head, start, text
<1>8. CASE StartsFromTail(Own(s), start)
  <2>1. UNCHANGED <<gen, file, table, store, seen, next, records, once, dropped, excused>>
    BY <1>2, <1>8
  <2>2. /\ phase'[s] = "window"
        /\ scan'[s].head = head /\ scan'[s].start = start /\ scan'[s].text = text
    BY <1>1, <1>2, <1>8 DEF PollTypeOK, head
  <2>3. FileInv(s)'
    BY <2>1, FileKept
  <2>4. start \in 1..Reach(s)
    BY <1>3, <1>5, <1>6, <1>8
  <2>5. ASSUME gen[s] = 1, LastNewline(text) = 0 PROVE AtLine(Plans[s][1], start)
    <3>1. Plans[s][1] \in Seq(Records) /\ file[s] \in Seq(Bytes) /\ Matches(Plans[s][1], 0, file[s])
      BY <1>1, <2>5, PlanIsText DEF FileInv, Transcript
    <3>2. start = size - InitialReadMax /\ start \in 1..size /\ size \in Nat
      BY <1>3, <1>4, <1>5, <1>8 DEF StartsFromTail
    <3>3. size <= Len(file[s])
      BY <1>3, <2>5
    <3>4. LastNewline(Window(file[s], start, size)) = 0
      BY <2>5 DEF text
    <3>5. QED
      BY <3>1, <3>2, <3>3, <3>4, TailAtLine
  <2>6. TextInv(s)'
    BY <1>1, <1>3, <1>7, <2>1, <2>2, <2>4, <2>5 DEF TextInv, Transcript
  <2>7. ScanInv(s)'
    BY <1>1, <2>3, <2>6 DEF ScanInv
  <2>8. QED
    BY <1>1, <1>2, <2>1, <2>2, <2>7, ScanOnlyStep
<1>9. CASE ~ StartsFromTail(Own(s), start)
  <2>1. Decode(s, text, start, head, FALSE, FALSE)
    BY <1>2, <1>9
  <2>2. Matches(Plans[s][gen[s]], start, text)
    BY <1>7 DEF Transcript
  <2>3. start = 0 \/ (start = Own(s).offset /\ Own(s).head \in {NoHead, head})
    BY <1>5, <1>9
  <2>4. QED
    BY <1>1, <1>2, <1>3, <1>6, <1>7, <2>1, <2>2, <2>3, DecodeStep
<1>10. QED
  BY <1>8, <1>9

LEMMA ReadBoundaryStep ==
    ASSUME IInv, NEW s \in JsonlSources, ReadBoundary(s)
    PROVE  SourceInv(s)'
<1>1. s \in Sources /\ TextInv(s) /\ FileInv(s)
  BY SourcesAssumption DEF IInv, Sources, SourceInv, ScanInv
<1>2. /\ phase[s] = "window"
      /\ \E onBoundary : Decode(s, scan[s].text, scan[s].start, scan[s].head, TRUE, onBoundary)
  BY DEF ReadBoundary
<1>3. /\ scan[s].start \in 0..Reach(s) /\ scan[s].text \in Seq(Bytes)
      /\ ShortHead(scan[s].head)
      /\ gen[s] = 1 /\ LastNewline(scan[s].text) = 0 => AtLine(Plans[s][1], scan[s].start)
  BY <1>1, <1>2, ReachBounds DEF TextInv
<1>4. PICK g \in 1..gen[s] :
         /\ Matches(Plans[s][g], scan[s].start, scan[s].text)
         /\ g # gen[s] /\ Fits(s, gen[s], scan[s].head) =>
               Passed(s, gen[s], NextOffset(scan[s].start, scan[s].text)) \subseteq excused[s]
  BY <1>1, <1>2 DEF TextInv
<1>5. QED
  BY <1>2, <1>3, <1>4, DecodeStep

LEMMA VersionFacts ==
    ASSUME NEW v \in RowVersions
    PROVE  /\ v = <<v[1], v[2], v[3]>> /\ v[1] \in {0, 1, 2} /\ v[2] \in Nat /\ v[3] \in 1..MaxTime
           /\ Rows!Key(v) = <<v[1], v[2]>> /\ Rows!Key(v) \in RowIds \cup {SessionKey}
           /\ Rows!Time(v) = v[3] /\ Place[Rows!Key(v)] \in Nat
<1>1. PICK k \in RowIds \cup {SessionKey}, t \in 1..MaxTime : v = <<k[1], k[2], t>>
  BY DEF RowVersions
<1>2. k = <<k[1], k[2]>> /\ k[1] \in {0, 1, 2} /\ k[2] \in Nat
  BY RowsAssumption DEF SessionKey
<1>3. Rows!Key(v) \in RowIds \cup {SessionKey} => Place[Rows!Key(v)] \in Nat
  BY RowsAssumption
<1>4. QED
  BY <1>1, <1>2, <1>3 DEF Rows!Key, Rows!Time

\* The stored rows are versions.
LEMMA StoredVersions ==
    ASSUME TableTypeOK
    PROVE  Versions \subseteq RowVersions /\ IsFiniteSet(Versions)
<1>1. Versions \subseteq RowVersions
  BY DEF Versions, RowVersions, TableTypeOK
<1>2. IsFiniteSet(Versions)
  <2> DEFINE f == [k \in DOMAIN table |-> <<k[1], k[2], table[k]>>]
  <2>1. f \in Surjection(DOMAIN table, Versions)
    BY DEF Versions, Surjection
  <2>2. IsFiniteSet(DOMAIN table)
    BY DEF TableTypeOK
  <2> HIDE DEF f
  <2>3. QED
    BY <2>1, <2>2, FS_Surjection
<1>3. QED
  BY <1>1, <1>2

\* Some rows have a last one.
IsLatest(v, rows) == v \in rows /\ \A w \in rows : w = v \/ Rows!Precedes(w, v)

LEMMA LatestExists ==
    ASSUME NEW rows \in SUBSET RowVersions, IsFiniteSet(rows), rows # {}
    PROVE  \E v \in rows : IsLatest(v, rows)
<1> DEFINE n == Cardinality(rows)
           HaveLatest(k) == \A part \in SUBSET rows :
               Cardinality(part) = k /\ part # {} => \E v \in part : IsLatest(v, part)
           S == {k \in 0..n : HaveLatest(k)}
<1>1. n \in Nat /\ \A part \in SUBSET rows : IsFiniteSet(part)
  BY FS_CardinalityType, FS_Subset
<1>2. 0 \in S
  BY <1>1, FS_EmptySet
<1>3. \A v, w \in rows : v = w \/ Rows!Precedes(v, w) \/ Rows!Precedes(w, v)
  <2> SUFFICES ASSUME NEW v \in rows, NEW w \in rows
               PROVE  v = w \/ Rows!Precedes(v, w) \/ Rows!Precedes(w, v)
    OBVIOUS
  <2>1. /\ v = <<v[1], v[2], v[3]>> /\ v[1] \in {0, 1, 2} /\ v[2] \in Nat /\ v[3] \in 1..MaxTime
        /\ Rows!Key(v) = <<v[1], v[2]>> /\ Rows!Time(v) = v[3] /\ Place[Rows!Key(v)] \in Nat
    BY VersionFacts
  <2>2. /\ w = <<w[1], w[2], w[3]>> /\ w[1] \in {0, 1, 2} /\ w[2] \in Nat /\ w[3] \in 1..MaxTime
        /\ Rows!Key(w) = <<w[1], w[2]>> /\ Rows!Time(w) = w[3] /\ Place[Rows!Key(w)] \in Nat
    BY VersionFacts
  <2>3. QED
    BY <2>1, <2>2, RowsAssumption DEF Rows!Precedes, Rows!SortsBefore
<1>4. \A u, v, w \in rows : Rows!Precedes(u, v) /\ Rows!Precedes(v, w) => Rows!Precedes(u, w)
  <2> SUFFICES ASSUME NEW u \in rows, NEW v \in rows, NEW w \in rows,
                      Rows!Precedes(u, v), Rows!Precedes(v, w)
               PROVE  Rows!Precedes(u, w)
    OBVIOUS
  <2>1. /\ u[1] \in Nat /\ u[2] \in Nat /\ u[3] \in Nat
        /\ Rows!Key(u) = <<u[1], u[2]>> /\ Rows!Time(u) = u[3] /\ Place[Rows!Key(u)] \in Nat
    BY VersionFacts, RowsAssumption
  <2>2. /\ v[1] \in Nat /\ v[2] \in Nat /\ v[3] \in Nat
        /\ Rows!Key(v) = <<v[1], v[2]>> /\ Rows!Time(v) = v[3] /\ Place[Rows!Key(v)] \in Nat
    BY VersionFacts, RowsAssumption
  <2>3. /\ w[1] \in Nat /\ w[2] \in Nat /\ w[3] \in Nat
        /\ Rows!Key(w) = <<w[1], w[2]>> /\ Rows!Time(w) = w[3] /\ Place[Rows!Key(w)] \in Nat
    BY VersionFacts, RowsAssumption
  <2>4. QED
    BY <2>1, <2>2, <2>3 DEF Rows!Precedes, Rows!SortsBefore
<1>5. ASSUME NEW k \in 0..(n - 1), k \in S PROVE k + 1 \in S
  <2>1. HaveLatest(k) /\ k \in Nat /\ k + 1 \in 0..n
    BY <1>1, <1>5
  <2>2. SUFFICES ASSUME NEW part \in SUBSET rows, Cardinality(part) = k + 1, part # {}
                 PROVE  \E v \in part : IsLatest(v, part)
    BY <2>1
  <2>3. PICK x \in part : TRUE
    BY <2>2
  <2> DEFINE rest == part \ {x}
  <2>4. Cardinality(rest) = k
    <3>1. Cardinality(rest) = Cardinality(part) - 1
      BY <1>1, <2>3, FS_RemoveElement
    <3> HIDE DEF rest
    <3>2. QED
      BY <2>1, <2>2, <3>1
  <2>5. CASE rest = {}
    BY <2>5 DEF IsLatest
  <2>6. CASE rest # {}
    <3>1. PICK v \in rest : IsLatest(v, rest)
      <4>1. rest \in SUBSET rows
        OBVIOUS
      <4> HIDE DEF rest
      <4>2. QED
        BY <2>1, <2>4, <2>6, <4>1
    <3>2. CASE Rows!Precedes(v, x)
      <4>1. IsLatest(x, part)
        BY <1>4, <2>3, <3>1, <3>2 DEF IsLatest
      <4>2. QED
        BY <4>1
    <3>3. CASE x = v \/ Rows!Precedes(x, v)
      <4>1. IsLatest(v, part)
        BY <3>1, <3>3 DEF IsLatest
      <4>2. QED
        BY <4>1
    <3>4. QED
      BY <1>3, <3>1, <3>2, <3>3
  <2>7. QED
    BY <2>5, <2>6
<1>6. n \in S
  <2> HIDE DEF S, n
  <2>1. 0..n \subseteq S
    BY <1>1, <1>2, <1>5, BoundedInduction, Zenon
  <2>2. QED
    BY <1>1, <2>1
<1>7. QED
  BY <1>6

LEMMA TableStep == TableTypeOK /\ [Next]_vars => TableTypeOK'
<1> SUFFICES ASSUME TableTypeOK, [Next]_vars PROVE TableTypeOK'
  OBVIOUS
<1>1. CASE UNCHANGED <<clock, table>>
  BY <1>1 DEF TableTypeOK
<1>2. CASE Tick
  BY <1>2, RowsAssumption DEF Tick, TableTypeOK
<1>3. ASSUME NEW k \in RowIds \cup {SessionKey}, UpdateRow(k) PROVE TableTypeOK'
  <2>1. DOMAIN table' = DOMAIN table \cup {k} /\ clock' = clock
    BY <1>3 DEF UpdateRow
  <2>2. \A j \in DOMAIN table' : table'[j] \in 1..MaxTime
    BY <1>3 DEF UpdateRow, TableTypeOK
  <2>3. IsFiniteSet(DOMAIN table \cup {k})
    BY FS_AddElement DEF TableTypeOK
  <2>4. QED
    BY <2>1, <2>2, <2>3 DEF TableTypeOK
<1>4. ASSUME NEW s, Step(s) \/ Crash(s) \/ AppendBytes(s) \/ Rewrite(s) \/ UNCHANGED vars
      PROVE  UNCHANGED <<clock, table>>
  BY <1>4 DEF Step, Load, Truncate, Write, HandOver, WatchAgain, Stat, Sample, ReadText,
     ReadBoundary, Decode, ReadSession, ReadMessages, ReadParts, Crash, AppendBytes, Rewrite,
     vars
<1>5. QED
  BY <1>1, <1>2, <1>3, <1>4 DEF Next, Agents

\* What is written over others' lines is still of sources.
LEMMA WrittenOverDomain ==
    ASSUME store # Torn => DOMAIN store \subseteq Sources,
           NEW lines, DOMAIN lines \subseteq Sources, NEW written \in WrittenOver(lines),
           written # Torn
    PROVE  DOMAIN written \subseteq Sources
<1>1. CASE written = lines
  BY <1>1
<1>2. CASE store # Torn /\ \E left \in SUBSET DOMAIN store :
              written = [q \in DOMAIN lines \cup left |->
                           IF q \in left THEN store[q] ELSE lines[q]]
  <2>1. PICK left \in SUBSET DOMAIN store :
              written = [q \in DOMAIN lines \cup left |->
                           IF q \in left THEN store[q] ELSE lines[q]]
    BY <1>2
  <2>2. DOMAIN written = DOMAIN lines \cup left
    BY <2>1
  <2>3. QED
    BY <1>2, <2>2
<1>3. QED
  BY <1>1, <1>2 DEF WrittenOver

\* Every function over the sources remains one, and whoever is idle holds nothing.
LEMMA PollTypeStep == PollTypeOK /\ [Next]_vars => PollTypeOK'
<1> SUFFICES ASSUME PollTypeOK, [Next]_vars PROVE PollTypeOK'
  OBVIOUS
<1> USE DEF PollTypeOK, pollVars
<1>0. watching \subseteq Sources
  BY SourcesAssumption
<1>1. ASSUME NEW s, Load(s) \/ Truncate(s) \/ WatchAgain(s)
      PROVE  PollTypeOK'
  BY <1>1 DEF Load, Truncate, WatchAgain, Fail, Forget
<1>2. ASSUME NEW s, HandOver(s)
      PROVE  PollTypeOK'
  BY <1>2 DEF HandOver, Forget
<1>3. ASSUME NEW s \in Sources, Write(s) PROVE PollTypeOK'
  <2>1. DOMAIN Merged(s) \subseteq Sources
    BY DEF Merged
  <2>2. store' # Torn => DOMAIN store' \subseteq Sources
    BY <1>3, <2>1, WrittenOverDomain DEF Write
  <2>3. QED
    BY <1>3, <2>2 DEF Write
<1>4. ASSUME NEW s, NEW text, NEW start, NEW head, NEW fromTail, NEW onBoundary,
             Decode(s, text, start, head, fromTail, onBoundary)
      PROVE  PollTypeOK'
  <2>1. UNCHANGED <<watching, gen, file, store, histVars>> /\ DOMAIN excused' = DOMAIN excused
    BY <1>4 DEF Decode
  <2>2. CASE Fail(s)
    BY <2>1, <2>2 DEF Fail, Forget
  <2>3. CASE /\ phase' = [phase EXCEPT ![s] = "read"] /\ UNCHANGED <<seen, scan>>
             /\ \E x, y : next' = [next EXCEPT ![s] = x] /\ records' = [records EXCEPT ![s] = y]
    BY <2>1, <2>3
  <2>4. QED
    BY <1>4, <2>2, <2>3 DEF Decode
<1>5. ASSUME NEW s, Stat(s) \/ Sample(s) PROVE PollTypeOK'
  BY <1>5 DEF Stat, Sample
<1>6. ASSUME NEW s, ReadText(s) \/ ReadBoundary(s) PROVE PollTypeOK'
  <2>1. CASE ReadBoundary(s)
    BY <1>4, <2>1 DEF ReadBoundary
  <2>2. CASE ReadText(s)
    <3>1. \/ UNCHANGED <<watching, gen, file, store, seen, next, records, histVars, excused>>
             /\ phase' = [phase EXCEPT ![s] = "window"]
             /\ \E x : scan' = [scan EXCEPT ![s] = x]
          \/ \E text, start, head : Decode(s, text, start, head, FALSE, FALSE)
      BY <2>2 DEF ReadText
    <3>2. QED
      BY <1>4, <3>1
  <2>3. QED
    BY <1>6, <2>1, <2>2
<1>7. ASSUME NEW s, ReadSession(s) \/ ReadMessages(s) \/ ReadParts(s) PROVE PollTypeOK'
  BY <1>7 DEF ReadSession, ReadMessages, ReadParts
<1>8. ASSUME NEW s \in Sources, Crash(s) PROVE PollTypeOK'
  <2>1. DOMAIN Merged(s) \subseteq Sources
    BY DEF Merged
  <2>2. store' # Torn => DOMAIN store' \subseteq Sources
    <3> SUFFICES ASSUME store' # Torn PROVE DOMAIN store' \subseteq Sources
      OBVIOUS
    <3>1. CASE store' \in {store, Torn}
      BY <3>1
    <3>2. CASE \E D \in SUBSET DOMAIN Merged(s) :
                  store' \in WrittenOver([q \in D |-> Merged(s)[q]])
      BY <2>1, <3>2, WrittenOverDomain
    <3>3. store' \in {store, Torn} \/ \E D \in SUBSET DOMAIN Merged(s) :
                  store' \in WrittenOver([q \in D |-> Merged(s)[q]])
      BY <1>8 DEF Crash
    <3>4. QED
      BY <3>1, <3>2, <3>3
  <2>3. QED
    BY <1>8, <2>2 DEF Crash, Fail, Forget
<1>9. CASE Agents
  BY <1>9 DEF Agents, AppendBytes, Rewrite, Tick, UpdateRow
<1>10. CASE UNCHANGED vars
  BY <1>10 DEF vars
<1>11. QED
  BY <1>0, <1>1, <1>2, <1>3, <1>5, <1>6, <1>7, <1>8, <1>9, <1>10 DEF Next, Step

\* A row that is stored anew is late for every cursor that leaves it behind.
LEMMA UpdateStep ==
    ASSUME IInv, NEW k \in RowIds \cup {SessionKey}, UpdateRow(k), NEW r \in RowSources
    PROVE  SourceInv(r)'
<1> DEFINE new == <<k[1], k[2], clock>>
<1>1. /\ r \in Sources /\ r \notin JsonlSources /\ SourceInv(r) /\ TableTypeOK /\ PollTypeOK
  BY SourcesAssumption DEF IInv, Sources
<1>2. \A v \in Versions' : v = new \/ v \in Versions
  BY DEF UpdateRow, Versions
<1>3. IsLate(r, new) => new \in excused'[r]
  BY <1>1 DEF UpdateRow, PollTypeOK
<1>4. excused[r] \subseteq excused'[r]
  BY <1>1 DEF UpdateRow, PollTypeOK
<1>5. UNCHANGED <<store, phase, seen, scan, next, records, once, dropped>>
  BY DEF UpdateRow, pollVars
<1>6. /\ Given(r) \subseteq Given(r)' /\ excused'[r] \subseteq Given(r)'
      /\ Given(r) \cup Saved(r) \subseteq (Given(r) \cup Saved(r))'
      /\ Given(r) \cup records[r] \subseteq (Given(r) \cup records[r])'
  BY <1>4, <1>5 DEF Given, Saved
<1> HIDE DEF new
<1>7. ASSUME NEW c, NEW given, NEW more, Sound(r, c, given), given \subseteq more,
             excused'[r] \subseteq more, Rows!Behind(c, new) => IsLate(r, new)
      PROVE  SoundAt(r, gen'[r], Versions', c, more)
  <2>1. IsCursor(r, c) /\ RowsSound(Versions, c, given)
    BY <1>7 DEF Sound, SoundAt
  <2>2. RowsSound(Versions', c, more)
    BY <1>2, <1>3, <1>7, <2>1 DEF RowsSound
  <2>3. QED
    BY <1>1, <2>1, <2>2 DEF SoundAt
<1>8. ScanInv(r)'
  <2>1. new[1] = k[1] /\ k[1] \in {0, 1, 2}
    BY RowsAssumption DEF SessionKey, new
  <2>2. phase[r] = "session" /\ new[1] = 0 => new \in Given(r)'
    BY <1>3, <1>6 DEF IsLate
  <2>3. phase[r] = "messages" /\ new[1] \in {0, 1} => new \in Given(r)'
    BY <1>3, <1>6, <2>1 DEF IsLate
  <2>4. QueryInv(r)
    BY <1>1 DEF SourceInv, ScanInv
  <2>5. QueryInv(r)'
    BY <1>2, <1>5, <1>6, <2>2, <2>3, <2>4 DEF QueryInv, ReadSoFar
  <2>6. QED
    BY <1>1, <2>5 DEF ScanInv
<1>9. StoreInv(r)'
  <2> DEFINE given == Given(r) \cup Saved(r)
             more == (Given(r) \cup Saved(r))'
  <2>1. StoreInv(r)' <=> (store' # Torn => SoundAt(r, gen'[r], Versions', Cursor(store', r), more))
    BY PartsAfter
  <2>2. given \subseteq more /\ excused'[r] \subseteq more
    BY <1>6
  <2>3. store # Torn => Sound(r, Cursor(store, r), given)
    BY <1>1 DEF SourceInv, StoreInv
  <2>4. store # Torn => (Rows!Behind(Cursor(store, r), new) => IsLate(r, new))
    BY DEF IsLate
  <2> HIDE DEF given, more
  <2>5. store # Torn => SoundAt(r, gen'[r], Versions', Cursor(store, r), more)
    BY <1>7, <2>2, <2>3, <2>4
  <2>6. QED
    BY <1>5, <2>1, <2>5
<1>10. SeenInv(r)'
  <2> DEFINE given == Given(r) \cup Saved(r)
             more == (Given(r) \cup Saved(r))'
  <2>1. SeenInv(r)' <=> \A q \in Sources : SoundAt(r, gen'[r], Versions', Cursor(seen'[q], r), more)
    BY PartsAfter
  <2>2. given \subseteq more /\ excused'[r] \subseteq more
    BY <1>6
  <2>3. \A q \in Sources : Sound(r, Cursor(seen[q], r), given)
    BY <1>1 DEF SourceInv, SeenInv
  <2>4. \A q \in Sources : Rows!Behind(Cursor(seen[q], r), new) => IsLate(r, new)
    BY DEF IsLate
  <2> HIDE DEF given, more
  <2>5. \A q \in Sources : SoundAt(r, gen'[r], Versions', Cursor(seen[q], r), more)
    BY <1>7, <2>2, <2>3, <2>4
  <2>6. QED
    BY <1>5, <2>1, <2>5
<1>11. NextInv(r)'
  <2> DEFINE given == Given(r) \cup records[r]
             more == (Given(r) \cup records[r])'
  <2>1. NextInv(r)' <=> SoundAt(r, gen'[r], Versions', next'[r], more)
    BY PartsAfter
  <2>2. given \subseteq more /\ excused'[r] \subseteq more
    BY <1>6
  <2>3. Sound(r, next[r], given)
    BY <1>1 DEF SourceInv, NextInv
  <2>4. Rows!Behind(next[r], new) => IsLate(r, new)
    BY DEF IsLate
  <2> HIDE DEF given, more
  <2>5. QED
    BY <1>5, <1>7, <2>1, <2>2, <2>3, <2>4
<1>12. QED
  BY <1>8, <1>9, <1>10, <1>11 DEF SourceInv

\* The queries.  Each reads what its table holds.
LEMMA QueryStep ==
    ASSUME IInv, NEW s \in RowSources, ReadSession(s) \/ ReadMessages(s)
    PROVE  SourceInv(s)'
<1>1. /\ PollTypeOK /\ s \in Sources /\ s \notin JsonlSources /\ TableTypeOK /\ QueryInv(s)
  BY SourcesAssumption DEF IInv, Sources, SourceInv, ScanInv
<1>2. /\ UNCHANGED <<gen, table, store, seen, next, records, once, dropped, excused>>
      /\ phase[s] # "saved" /\ phase'[s] # "saved"
  BY <1>1 DEF ReadSession, ReadMessages, PollTypeOK
<1>3. Versions' = Versions /\ Given(s)' = Given(s)
  BY <1>2 DEF Versions, Given
<1>4. Versions \subseteq RowVersions /\ IsFiniteSet(Versions)
  BY <1>1, StoredVersions
<1>5. QueryInv(s)'
  <2>1. CASE ReadSession(s)
    <3> DEFINE row == <<0, 1, table[SessionKey]>>
    <3>1. phase'[s] = "session" /\ scan'[s] = {row}
      BY <1>1, <2>1 DEF ReadSession, PollTypeOK
    <3>2. row \in Versions
      BY <1>1 DEF TableTypeOK, Versions, SessionKey
    <3>3. \A v \in Versions : v[1] = 0 => v = row
      BY <1>1, RowsAssumption DEF TableTypeOK, Versions, SessionKey
    <3>4. IsFiniteSet({row}) /\ row[1] = 0
      BY FS_Singleton
    <3> HIDE DEF row
    <3>5. ReadSoFar(s, {0})'
      BY <1>3, <1>4, <3>1, <3>2, <3>3, <3>4 DEF ReadSoFar
    <3>6. QED
      BY <3>1, <3>5 DEF QueryInv
  <2>2. CASE ReadMessages(s)
    <3>1. phase'[s] = "messages" /\ scan'[s] = scan[s] \cup VersionsOf(1)
      BY <1>1, <2>2 DEF ReadMessages, PollTypeOK
    <3>2. ReadSoFar(s, {0})
      BY <1>1, <2>2 DEF ReadMessages, QueryInv
    <3>3. VersionsOf(1) \subseteq Versions
      BY DEF VersionsOf
    <3>4. IsFiniteSet(scan[s] \cup VersionsOf(1))
      BY <1>4, <3>2, <3>3, FS_Subset, FS_Union DEF ReadSoFar
    <3>5. ReadSoFar(s, {0, 1})'
      BY <1>3, <1>4, <3>1, <3>2, <3>3, <3>4 DEF ReadSoFar, VersionsOf
    <3>6. QED
      BY <3>1, <3>5 DEF QueryInv
  <2>3. QED
    BY <2>1, <2>2
<1>6. ScanInv(s)'
  BY <1>1, <1>5 DEF ScanInv
<1>7. QED
  BY <1>1, <1>2, <1>6, ScanOnlyStep

\* The last query and the filter: what the next cursor leaves behind is yielded,
\* was behind the old cursor, or came too late for the queries.
LEMMA ReadPartsStep ==
    ASSUME IInv, NEW s \in RowSources, ReadParts(s)
    PROVE  SourceInv(s)'
<1> DEFINE read == scan[s] \cup VersionsOf(2)
           fresh == Rows!Fresh(Own(s), SessionRead(s), read)
           advanced == Rows!Advanced(Own(s), SessionRead(s), read, fresh)
<1>1. /\ PollTypeOK /\ s \in Sources /\ s \notin JsonlSources /\ TableTypeOK
      /\ SourceInv(s) /\ QueryInv(s)
  BY SourcesAssumption DEF IInv, Sources, SourceInv, ScanInv
<1>2. /\ UNCHANGED <<gen, table, store, seen, scan, once, dropped, excused>>
      /\ phase[s] = "messages" /\ phase'[s] = "read"
      /\ records'[s] = fresh /\ next'[s] = advanced
  <2>1. /\ records' = [records EXCEPT ![s] = fresh]
        /\ next' = [next EXCEPT ![s] = advanced]
        /\ phase[s] = "messages" /\ phase' = [phase EXCEPT ![s] = "read"]
        /\ UNCHANGED <<gen, table, store, seen, scan, once, dropped, excused>>
    BY DEF ReadParts
  <2> HIDE DEF fresh, advanced
  <2>2. QED
    BY <1>1, <2>1 DEF PollTypeOK
<1>3. Versions' = Versions /\ Given(s)' = Given(s) /\ Saved(s)' = Saved(s) /\ Stable(s)
  BY <1>2 DEF Versions, Given, Saved, Stable
<1>4. ReadSoFar(s, {0, 1})
  BY <1>1, <1>2 DEF QueryInv
<1>5. read \subseteq RowVersions /\ IsFiniteSet(read)
  <2>1. Versions \subseteq RowVersions /\ IsFiniteSet(Versions) /\ VersionsOf(2) \subseteq Versions
    BY <1>1, StoredVersions DEF VersionsOf
  <2>2. QED
    BY <1>4, <2>1, FS_Subset, FS_Union DEF ReadSoFar
<1>6. \A v \in Versions : v \in read \cup Given(s)
  <2>1. \A v \in Versions : v[1] \in {0, 1, 2}
    BY <1>1, StoredVersions, VersionFacts
  <2>2. QED
    BY <1>4, <2>1 DEF ReadSoFar, VersionsOf
<1>7. Sound(s, Own(s), Given(s))
  BY <1>1, <1>2 DEF SourceInv, SeenInv, Own, Saved
<1>8. /\ Own(s).time \in 0..MaxTime /\ Own(s).key \in RowIds \cup {SessionKey, Rows!NoKey}
      /\ RowsSound(Versions, Own(s), Given(s))
  BY <1>1, <1>7 DEF Sound, SoundAt, IsCursor
<1>9. advanced.time \in 0..MaxTime
  <2> DEFINE times == {Rows!Time(v) : v \in read} \cup {Rows!Time(SessionRead(s)), Own(s).time}
  <2>1. SessionRead(s) \in read
    BY <1>4 DEF ReadSoFar, SessionRead
  <2>2. \A v \in read : Rows!Time(v) \in 0..MaxTime
    BY <1>5, VersionFacts, RowsAssumption
  <2>3. times \in SUBSET (0..MaxTime) /\ times # {}
    BY <1>8, <2>1, <2>2
  <2>4. Max(times) \in times
    <3> HIDE DEF times
    <3> QED
      BY <2>3, MaxIsMember, RowsAssumption
  <2>5. advanced.time = Rows!Max(times)
    BY DEF Rows!Advanced
  <2>6. Rows!Max(times) = Max(times)
    BY DEF Max, Rows!Max
  <2> HIDE DEF times, advanced
  <2>7. QED
    BY <2>3, <2>4, <2>5, <2>6
<1>10. advanced.key \in RowIds \cup {SessionKey, Rows!NoKey}
  <2> DEFINE latest == CHOOSE v \in fresh : \A w \in fresh : w = v \/ Rows!Precedes(w, v)
  <2>1. advanced.key = IF fresh = {} THEN Own(s).key ELSE Rows!Key(latest)
    BY DEF Rows!Advanced
  <2>2. ASSUME fresh # {} PROVE Rows!Key(latest) \in RowIds \cup {SessionKey}
    <3>1. fresh \subseteq read
      BY DEF Rows!Fresh
    <3> HIDE DEF fresh, read
    <3>2. fresh \in SUBSET RowVersions /\ IsFiniteSet(fresh)
      BY <1>5, <3>1, FS_Subset
    <3>3. \E v \in fresh : IsLatest(v, fresh)
      BY <2>2, <3>2, LatestExists
    <3>4. latest \in fresh
      BY <3>3 DEF IsLatest
    <3>5. latest \in RowVersions
      BY <3>2, <3>4
    <3>6. QED
      BY <3>5, VersionFacts
  <2> HIDE DEF fresh, latest, advanced
  <2>3. QED
    BY <1>8, <2>1, <2>2
<1>11. \A v \in Versions : v \in Given(s) \cup fresh
  <2>1. SUFFICES ASSUME NEW v \in Versions, v \in read PROVE v \in Given(s) \cup fresh
    BY <1>6
  <2>2. Own(s).time \in Nat /\ Rows!Time(v) \in Nat \ {0}
    BY <1>5, <1>8, <2>1, VersionFacts, RowsAssumption
  <2>3. v \in fresh \/ Rows!Behind(Own(s), v)
    <3> HIDE DEF read
    <3> QED
      BY <2>1, <2>2, FreshOrBehind
  <2>4. QED
    BY <1>8, <2>3 DEF RowsSound
<1> HIDE DEF fresh, advanced, read
<1>12. NextInv(s)'
  <2> DEFINE more == (Given(s) \cup records[s])'
  <2>1. NextInv(s)' <=> SoundAt(s, gen'[s], Versions', next'[s], more)
    BY PartsAfter
  <2>2. more = Given(s) \cup fresh
    BY <1>2, <1>3
  <2> HIDE DEF more
  <2>3. IsCursor(s, advanced)
    BY <1>1, <1>9, <1>10 DEF IsCursor
  <2>4. RowsSound(Versions', advanced, more)
    BY <1>3, <1>11, <2>2 DEF RowsSound
  <2>5. QED
    BY <1>1, <1>2, <2>1, <2>3, <2>4 DEF SoundAt
<1>13. StoreInv(s)' /\ SeenInv(s)'
  BY <1>1, <1>2, <1>3, StoreKept, SeenKept
<1>14. ScanInv(s)'
  BY <1>1, <1>2 DEF ScanInv, QueryInv
<1>15. QED
  BY <1>12, <1>13, <1>14 DEF SourceInv

----------------------------------------------------------------------------
(* The invariant holds *)

LEMMA InitInv == Init => IInv
<1> SUFFICES ASSUME Init PROVE IInv
  OBVIOUS
<1>1. PollTypeOK
  BY SourcesAssumption DEF Init, PollTypeOK
<1>2. TableTypeOK
  <2>1. DOMAIN table = {SessionKey} /\ table[SessionKey] = 1 /\ clock = 1
    BY DEF Init
  <2>2. IsFiniteSet({SessionKey})
    BY FS_Singleton, Zenon
  <2>3. 1 \in 1..MaxTime
    BY RowsAssumption
  <2>4. QED
    BY <2>1, <2>2, <2>3 DEF TableTypeOK
<1>3. ASSUME NEW s \in JsonlSources PROVE FileInv(s)
  BY <1>3, PlansAssumption DEF Init, FileInv, Matches
<1>4. ASSUME NEW s \in Sources PROVE SourceInv(s)
  <2>1. ScanInv(s)
    BY <1>3 DEF Init, ScanInv, TextInv, QueryInv
  <2>2. \A given : Sound(s, FirstCursor(s), given)
    <3>1. CASE s \in JsonlSources
      <4>1. FirstCursor(s) = NoCursor /\ NoCursor.offset = 0 /\ NoCursor.head = NoHead
        BY <3>1 DEF FirstCursor, NoCursor
      <4>2. gen[s] \in 1..Len(Plans[s])
        BY <1>3, <3>1 DEF FileInv
      <4>3. IsCursor(s, NoCursor)
        BY <3>1, <4>1, ReachBounds DEF IsCursor
      <4>4. \A given : JsonlSound(s, gen[s], NoCursor, given)
        BY <3>1, <4>1, <4>2, PassedBounds DEF JsonlSound, AtLine
      <4>5. QED
        BY <3>1, <4>1, <4>3, <4>4, SourcesAssumption DEF Sound, SoundAt
    <3>2. CASE s \in RowSources
      <4>1. /\ FirstCursor(s) = Rows!NoRowCursor
            /\ Rows!NoRowCursor.time = 0 /\ Rows!NoRowCursor.key = Rows!NoKey
        BY <3>2, SourcesAssumption DEF FirstCursor, Rows!NoRowCursor
      <4>2. \A v \in Versions : Rows!Time(v) \in 1..MaxTime
        BY <1>2 DEF TableTypeOK, Versions, Rows!Time
      <4>3. \A given : RowsSound(Versions, Rows!NoRowCursor, given)
        BY <4>1, <4>2, RowsAssumption DEF RowsSound, Rows!Behind
      <4>4. IsCursor(s, Rows!NoRowCursor)
        BY <3>2, <4>1, SourcesAssumption, RowsAssumption DEF IsCursor
      <4>5. QED
        BY <3>2, <4>1, <4>3, <4>4, SourcesAssumption DEF Sound, SoundAt
    <3>3. QED
      BY <3>1, <3>2 DEF Sources
  <2>3. StoreInv(s) /\ SeenInv(s) /\ NextInv(s)
    BY <2>2, EmptyCursor DEF Init, StoreInv, SeenInv, NextInv
  <2>4. QED
    BY <2>1, <2>3 DEF SourceInv
<1>5. QED
  BY <1>1, <1>2, <1>4 DEF IInv

LEMMA InvStep == IInv /\ [Next]_vars => IInv'
<1> SUFFICES ASSUME IInv, [Next]_vars PROVE IInv'
  OBVIOUS
<1>1. PollTypeOK' /\ TableTypeOK'
  BY PollTypeStep, TableStep DEF IInv
<1>2. ASSUME NEW r \in Sources PROVE SourceInv(r)'
  <2>1. watching \subseteq Sources
    BY SourcesAssumption DEF IInv, PollTypeOK
  <2>2. ASSUME NEW s \in Sources, Step(s) \/ Crash(s) PROVE SourceInv(r)'
    <3>1. CASE s = r
      <4>1. CASE Load(s) \/ Truncate(s) \/ HandOver(s) \/ WatchAgain(s)
        BY <3>1, <4>1, OwnQuietStep
      <4>2. CASE Write(s) \/ Crash(s)
        BY <3>1, <4>2, OwnSave
      <4>3. CASE s \in JsonlSources /\ (Stat(s) \/ Sample(s) \/ ReadText(s) \/ ReadBoundary(s))
        BY <3>1, <4>3, StatStep, SampleStep, ReadTextStep, ReadBoundaryStep
      <4>4. CASE s \in RowSources /\ (ReadSession(s) \/ ReadMessages(s) \/ ReadParts(s))
        BY <3>1, <4>4, QueryStep, ReadPartsStep
      <4>5. QED
        BY <2>2, <4>1, <4>2, <4>3, <4>4 DEF Step
    <3>2. CASE s # r
      BY <2>2, <3>2, OthersReads, OthersSaves DEF Step
    <3>3. QED
      BY <3>1, <3>2
  <2>3. ASSUME NEW s \in JsonlSources, AppendBytes(s) \/ Rewrite(s)
        PROVE  SourceInv(r)'
    <3>1. s \in Sources
      BY DEF Sources
    <3>2. QED
      BY <2>3, <3>1, OthersReads, AppendStep, RewriteStep
  <2>4. ASSUME NEW k \in RowIds \cup {SessionKey}, UpdateRow(k) PROVE SourceInv(r)'
    <3>1. CASE r \in RowSources
      BY <2>4, <3>1, UpdateStep
    <3>2. CASE r \notin RowSources
      <4>1. Untouched(r) /\ UNCHANGED <<store, seen>>
        BY <2>4, <3>2 DEF UpdateRow, pollVars, Untouched, Stable, IInv, PollTypeOK
      <4>2. /\ Stable(r) /\ Given(r) \cup Saved(r) \subseteq (Given(r) \cup Saved(r))'
            /\ ScanInv(r)' /\ NextInv(r)'
        BY <4>1, UntouchedParts
      <4>3. StoreInv(r)' /\ SeenInv(r)'
        BY <4>1, <4>2, StoreKept, SeenKept
      <4>4. QED
        BY <4>2, <4>3 DEF SourceInv
    <3>3. QED
      BY <3>1, <3>2
  <2>5. CASE Tick \/ UNCHANGED vars
    <3>1. Untouched(r) /\ UNCHANGED <<store, seen>>
      BY <2>5 DEF Tick, vars, pollVars, Untouched, Stable
    <3>2. /\ Stable(r) /\ Given(r) \cup Saved(r) \subseteq (Given(r) \cup Saved(r))'
          /\ ScanInv(r)' /\ NextInv(r)'
      BY <3>1, UntouchedParts
    <3>3. StoreInv(r)' /\ SeenInv(r)'
      BY <3>1, <3>2, StoreKept, SeenKept
    <3>4. QED
      BY <3>2, <3>3 DEF SourceInv
  <2>6. QED
    BY <2>1, <2>2, <2>3, <2>4, <2>5 DEF Next, Agents
<1>3. QED
  BY <1>1, <1>2 DEF IInv

THEOREM Invariance == Spec => []IInv
BY InitInv, InvStep, PTL DEF Spec

----------------------------------------------------------------------------
(* What follows *)

LEMMA StoredIsSound ==
    ASSUME IInv, NEW s \in Sources
    PROVE  Sound(s, Cursor(IF store = Torn THEN <<>> ELSE store, s), Given(s) \cup Saved(s))
<1>1. CASE store = Torn
  BY <1>1, EmptyCursor, FirstCursorSound
<1>2. CASE store # Torn
  BY <1>2 DEF IInv, SourceInv, StoreInv
<1>3. QED
  BY <1>1, <1>2

\* Every checkpoint, saved, loaded or to be, is one of its source: whatever is
\* left of a save that was cut off, and however files shrink and grow.
THEOREM TypeCorrect == Spec => []TypeOK
<1>1. IInv => TypeOK
  <2> SUFFICES ASSUME IInv PROVE TypeOK
    OBVIOUS
  <2>1. PollTypeOK /\ \A s \in Sources : SourceInv(s)
    BY DEF IInv
  <2>2. store = Torn \/ Checkpoints(store)
    <3> SUFFICES ASSUME store # Torn PROVE Checkpoints(store)
      OBVIOUS
    <3>1. \A s \in DOMAIN store : Cursor(store, s) = store[s]
      BY DEF Cursor
    <3>2. \A s \in Sources : IsCursor(s, Cursor(store, s))
      BY <2>1 DEF SourceInv, StoreInv, Sound, SoundAt
    <3>3. QED
      BY <2>1, <3>1, <3>2 DEF Checkpoints, PollTypeOK
  <2>3. ASSUME NEW q \in Sources PROVE Checkpoints(seen[q])
    <3>1. \A s \in DOMAIN seen[q] : Cursor(seen[q], s) = seen[q][s]
      BY DEF Cursor
    <3>2. \A s \in Sources : IsCursor(s, Cursor(seen[q], s))
      BY <2>1 DEF SourceInv, SeenInv, Sound, SoundAt
    <3>3. QED
      BY <2>1, <3>1, <3>2 DEF Checkpoints, PollTypeOK
  <2>4. \A s \in Sources : IsCursor(s, next[s])
    BY <2>1 DEF SourceInv, NextInv, Sound, SoundAt
  <2>5. QED
    BY <2>1, <2>2, <2>3, <2>4 DEF TypeOK, PollTypeOK
<1>2. QED
  BY <1>1, Invariance, PTL

\* Of the rows that a saved cursor leaves behind, opencode.ts yielded, or a crash
\* lost, all but those stored behind a cursor or between the queries of a poll:
\* whatever other sources save over the file, and whatever parts of it survive.
THEOREM NoTimelyRowIsSkipped == Spec => []RowsSkippedOnlyIfLate
<1>1. IInv => RowsSkippedOnlyIfLate
  <2> SUFFICES ASSUME IInv, NEW s \in watching \cap RowSources, NEW v \in Versions,
                      Rows!Behind(Cursor(IF store = Torn THEN <<>> ELSE store, s), v)
               PROVE  v \in Accounted(s)
    BY DEF RowsSkippedOnlyIfLate
  <2>1. s \in Sources
    BY DEF Sources
  <2>2. Sound(s, Cursor(IF store = Torn THEN <<>> ELSE store, s), Given(s) \cup Saved(s))
    BY <2>1, StoredIsSound
  <2>3. QED
    BY <2>2 DEF Sound, SoundAt, RowsSound, Given, Saved, Accounted
<1>2. QED
  BY <1>1, Invariance, PTL

LEMMA HeadsAgree ==
    ASSUME NEW text \in Seq(Bytes), NEW whole \in Seq(Bytes), NEW k \in Nat,
           k <= Len(text), k <= Len(whole), \A j \in 1..Len(text) : text[j] = whole[j]
    PROVE  SubSeq(text, 1, k) = SubSeq(whole, 1, k)
OBVIOUS

\* No complete record before a saved cursor of its file is skipped, whatever bytes
\* its transcripts are of, whatever the sizes at which the file is seen, wherever a
\* read starts, however often the file is replaced between two accesses, and
\* whichever poller saves last.  The exceptions are those that NothingSkipped names;
\* that the reader counts characters where it means bytes adds none.
THEOREM NothingIsSkipped == Spec => []NothingSkipped
<1>1. IInv => NothingSkipped
  <2> DEFINE c(s) == Cursor(IF store = Torn THEN <<>> ELSE store, s)
             ends(s) == {j \in Newlines(file[s]) : j <= c(s).offset}
  <2> SUFFICES ASSUME IInv, NEW s \in watching \cap JsonlSources,
                      c(s).head \in {NoHead, HeadOf(file[s], Len(file[s]))},
                      NEW i \in 1..Cardinality(ends(s))
               PROVE  Transcript(s)[i] \in Accounted(s)
    BY DEF NothingSkipped
  <2> DEFINE recs == Transcript(s)
             n == Len(recs)
             e == Ends(recs)
  <2>1. s \in Sources /\ FileInv(s) /\ recs \in Seq(Records) /\ n \in Nat
    BY PlanIsText DEF IInv, Sources, SourceInv, ScanInv, FileInv, Transcript
  <2>2. Sound(s, c(s), Given(s) \cup Saved(s))
    BY <2>1, StoredIsSound
  <2>3. c(s).offset \in Nat
    BY <2>2, ReachBounds DEF Sound, SoundAt, IsCursor
  <2>4. i \in 1..n /\ e[i] <= c(s).offset
    <3> DEFINE place == c(s).offset
    <3>1. file[s] \in Seq(Bytes) /\ Matches(recs, 0, file[s]) /\ place \in Nat
      BY <2>1, <2>3 DEF FileInv
    <3>2. i \in 1..Cardinality({p \in Newlines(file[s]) : p <= place})
      OBVIOUS
    <3> HIDE DEF place, n, e, recs
    <3>3. i \in 1..Len(recs) /\ Ends(recs)[i] <= place
      BY <2>1, <3>1, <3>2, NewlinesCountLines
    <3>4. QED
      BY <3>3 DEF place, n, e
  <2>5. e[i - 1] < c(s).offset
    <3>1. e[i - 1] \in Nat /\ e[i] \in Nat /\ e[i - 1] < e[i]
      <4>1. i \in 0..n /\ i - 1 \in 0..(i - 1) /\ i - 1 \in 0..n
        BY <2>1, <2>4
      <4>2. e[i - 1] < e[i]
        BY <2>1, <4>1, EndsAreNewlines
      <4>3. e[i - 1] \in Nat /\ e[i] \in Nat
        BY <2>1, <4>1, EndsUnfold
      <4>4. QED
        BY <4>2, <4>3
    <3> HIDE DEF e, c
    <3>2. QED
      BY <2>3, <2>4, <3>1
  <2>6. recs[i] \in Passed(s, gen[s], c(s).offset)
    BY <2>4, <2>5 DEF Passed, Transcript
  <2>7. Fits(s, gen[s], c(s).head)
    <3> SUFFICES ASSUME c(s).head # NoHead PROVE Fits(s, gen[s], c(s).head)
      BY DEF Fits
    <3> DEFINE m == Len(file[s])
               T == {HeadSample, m}
               short == Min(T)
    <3>1. m \in Nat /\ HeadSample \in Nat /\ file[s] \in Seq(Bytes) /\ Text(recs) \in Seq(Bytes)
      BY <2>1, TextLayout, SizesAssumption DEF FileInv
    <3>2. c(s).head = HeadOf(file[s], m)
      OBVIOUS
    <3>3. c(s).head = SubSeq(file[s], 1, short)
      BY <3>2 DEF HeadOf
    <3>4. T \in SUBSET Nat /\ T # {}
      BY <3>1
    <3>5. short \in T /\ short <= m
      <4>1. short \in T /\ \A y \in T : short <= y
        <5> HIDE DEF T
        <5> QED
          BY <3>4, MinIsMember
      <4>2. QED
        BY <4>1
    <3>6. short \in 0..m
      BY <3>1, <3>5
    <3>7. \A j \in 1..m : j <= Len(Text(recs)) /\ file[s][j] = Text(recs)[j]
      BY <2>1 DEF FileInv, Matches
    <3>8. short <= Len(Text(recs))
      <4> HIDE DEF m, short
      <4> QED
        BY <3>1, <3>6, <3>7
    <3>9. SubSeq(file[s], 1, short) = SubSeq(Text(recs), 1, short)
      <4> HIDE DEF short
      <4> QED
        BY <3>1, <3>6, <3>7, <3>8, HeadsAgree
    <3>10. Len(SubSeq(Text(recs), 1, short)) = short
      <4> HIDE DEF short
      <4> QED
        BY <3>1, <3>6, <3>8
    <3> HIDE DEF m, short, recs
    <3>11. IsPrefix(c(s).head, Text(recs))
      <4>1. SubSeq(c(s).head, 1, short) = c(s).head
        <5>1. \A t \in Seq(Bytes) : SubSeq(t, 1, Len(t)) = t
          OBVIOUS
        <5>2. SubSeq(Text(recs), 1, short) \in Seq(Bytes)
          BY <3>1, <3>6, <3>8
        <5>3. QED
          BY <3>3, <3>9, <3>10, <5>1, <5>2
      <4>2. QED
        BY <3>3, <3>8, <3>9, <3>10, <4>1 DEF IsPrefix
    <3>12. QED
      BY <3>11 DEF Fits, recs, Transcript
  <2>8. QED
    BY <2>2, <2>6, <2>7 DEF Sound, SoundAt, JsonlSound, Given, Saved, Accounted
<1>2. QED
  BY <1>1, Invariance, PTL

\* A saved cursor of a transcript in ASCII that was not rewritten lies behind a
\* line, or in one that is longer than what a first read takes: whatever the
\* widths of records and the sizes at which the file is seen, and whatever dead
\* pollers leave of the checkpoints.
THEOREM CursorsBeginAtLines == Spec => []CursorsBeginLines
<1>1. IInv => CursorsBeginLines
  <2> DEFINE c(s) == Cursor(IF store = Torn THEN <<>> ELSE store, s)
  <2> SUFFICES ASSUME IInv, NEW s \in watching \cap JsonlSources,
                      gen[s] = 1, c(s).offset > 0, Narrow(Transcript(s))
               PROVE  \/ Text(Transcript(s))[c(s).offset] = NL
                      \/ \E r \in Range(Transcript(s)) :
                            /\ Width[r] > InitialReadMax
                            /\ Text(Transcript(s))[c(s).offset] \in Range(Line(r))
    BY DEF CursorsBeginLines, Narrow
  <2>1. Sound(s, c(s), Given(s) \cup Saved(s))
    BY StoredIsSound DEF Sources
  <2>2. AtLine(Transcript(s), c(s).offset)
    BY <2>1 DEF Sound, SoundAt, JsonlSound, Transcript
  <2>3. QED
    BY <2>2 DEF AtLine
<1>2. QED
  BY <1>1, Invariance, PTL

----------------------------------------------------------------------------
(* What is handed over, once *)

\* Of the records in a set, those that lie at one place and where offsets do not
\* fall short.
Told(s, some) == {r \in some : ~ WrittenTwice(s, r) /\ ~ ComesAfterWide(s, r)}

ReadyPhases == {"read", "truncated", "saved"}

\* The records of a transcript that are in a set all start before a place, and end
\* by one.
StartBy(recs, some, place) ==
    \A i \in 1..Len(recs) : recs[i] \in some => Ends(recs)[i - 1] < place
EndBy(recs, some, place) ==
    \A i \in 1..Len(recs) : recs[i] \in some => Ends(recs)[i] <= place

\* What was handed over lies before the last cursor, as long as the file is the
\* one it was of, and what a poll is to hand over before the next.
LinesOnce(s) ==
    /\ \A r \in once[s] \cup records[s] : \E g \in 1..gen[s] : r \in Range(Plans[s][g])
    /\ StartBy(Transcript(s), Told(s, once[s]), last[s].offset)
    /\ EndBy(Transcript(s), Told(s, once[s]), Len(file[s]))
    /\ phase[s] \in {"stated", "sampled"} =>
          EndBy(Transcript(s), Told(s, once[s]), scan[s].size)
    /\ phase[s] = "window" =>
          \E g \in 1..gen[s] :
             /\ Matches(Plans[s][g], scan[s].start, scan[s].text)
             /\ g # gen[s] => Range(Transcript(s)) \cap Told(s, once[s]) = {}
             /\ g = gen[s] =>
                   /\ StartBy(Transcript(s), Told(s, once[s]),
                              NextOffset(scan[s].start, scan[s].text))
                   /\ LastNewline(scan[s].text) # 0 =>
                         scan[s].start + LastNewline(scan[s].text) <= Len(file[s])
             /\ Own(s) = last[s] => Range(Plans[s][g]) \cap Told(s, once[s]) = {}
    /\ phase[s] \in ReadyPhases =>
          /\ StartBy(Transcript(s), Told(s, once[s] \cup records[s]), next[s].offset)
          /\ EndBy(Transcript(s), Told(s, once[s] \cup records[s]), Len(file[s]))
          /\ Own(s) = last[s] /\ ~ StartedOver(s) => records[s] \cap Told(s, once[s]) = {}

\* A version that is or was stored.
Known(v) == Rows!Key(v) \in DOMAIN table /\ Rows!Time(v) <= table[Rows!Key(v)]

\* Every row of some tables that was handed over has been read again.
ReadAgain(s, ranks) ==
    /\ \A v \in scan[s] : Known(v)
    /\ \A v \in once[s] : v[1] \in ranks =>
          \E w \in scan[s] : Rows!Key(w) = Rows!Key(v) /\ Rows!Time(v) <= Rows!Time(w)

\* A row that a cursor leaves behind, or would but for the order of keys.
Left(c, v) == Rows!Behind(c, v) \/ Rows!Misplaced(c, v)

RowsOnce(s) ==
    /\ once[s] \cup records[s] \subseteq RowVersions
    /\ \A v \in once[s] \cup records[s] : Known(v)
    /\ \A v \in once[s] : Left(last[s], v)
    /\ phase[s] = "session" => ReadAgain(s, {0})
    /\ phase[s] = "messages" => ReadAgain(s, {0, 1})
    /\ phase[s] \in ReadyPhases =>
          /\ \A v \in once[s] \cup records[s] : Left(next[s], v)
          /\ Own(s) = last[s] /\ ~ Rows!Replays(Own(s), SessionRead(s)) =>
                \A v \in records[s] \cap once[s] : Rows!Misplaced(Own(s), v)

ClockInv == \A k \in DOMAIN table : table[k] <= clock

OnceInv(s) ==
    /\ IsCursor(s, last[s])
    /\ s \in JsonlSources => LinesOnce(s)
    /\ s \in RowSources => RowsOnce(s)

RepeatInv == ClockInv /\ \A s \in Sources : OnceInv(s)

\* Nothing of a source and its artifact changes.
Same(r) ==
    /\ r \in JsonlSources => gen'[r] = gen[r] /\ file'[r] = file[r]
    /\ r \in RowSources => table' = table
    /\ phase'[r] = phase[r] /\ seen'[r] = seen[r] /\ scan'[r] = scan[r]
    /\ next'[r] = next[r] /\ records'[r] = records[r]
    /\ once'[r] = once[r] /\ last'[r] = last[r]

LEMMA SameOnce ==
    ASSUME NEW r \in Sources, OnceInv(r), Same(r)
    PROVE  OnceInv(r)'
<1>1. Own(r)' = Own(r)
  BY DEF Same, Own, Cursor
<1>2. ASSUME r \in JsonlSources, LinesOnce(r) PROVE LinesOnce(r)'
  <2>1. Transcript(r)' = Transcript(r)
    BY <1>2 DEF Same, Transcript
  <2>2. StartedOver(r)' <=> StartedOver(r)
    BY <1>1, SourcesAssumption, <1>2 DEF Same, StartedOver
  <2>3. QED
    BY <1>1, <1>2, <2>1, <2>2 DEF Same, LinesOnce
<1>3. ASSUME r \in RowSources, RowsOnce(r) PROVE RowsOnce(r)'
  <2>1. SessionRead(r)' = SessionRead(r)
    BY DEF Same, SessionRead
  <2>2. \A v : Known(v)' <=> Known(v)
    BY <1>3 DEF Same, Known
  <2>3. QED
    BY <1>1, <1>3, <2>1, <2>2 DEF Same, RowsOnce, ReadAgain
<1>4. QED
  BY <1>2, <1>3 DEF OnceInv, Same

LEMMA OthersOnce ==
    ASSUME IInv, NEW s \in Sources, NEW r \in Sources, r # s, OnceInv(r),
           Step(s) \/ Crash(s) \/ AppendBytes(s) \/ Rewrite(s)
    PROVE  OnceInv(r)'
<1>1. PollTypeOK
  BY DEF IInv
<1>2. ASSUME AppendBytes(s) \/ Rewrite(s) PROVE Same(r)
  BY <1>1, <1>2 DEF AppendBytes, Rewrite, Same, PollTypeOK, pollVars
<1>3. ASSUME Load(s) \/ Truncate(s) \/ Write(s) \/ HandOver(s) \/ WatchAgain(s) PROVE Same(r)
  BY <1>1, <1>3 DEF Load, Truncate, Write, HandOver, WatchAgain, Fail, Forget, Same, PollTypeOK
<1>4. ASSUME Crash(s) PROVE Same(r)
  BY <1>1, <1>4 DEF Crash, Fail, Forget, Same, PollTypeOK
<1>5. ASSUME NEW text, NEW start, NEW head, NEW fromTail, NEW onBoundary,
             Decode(s, text, start, head, fromTail, onBoundary)
      PROVE  Same(r)
  BY <1>1, <1>5 DEF Decode, Fail, Forget, Same, PollTypeOK
<1>6. ASSUME Stat(s) \/ Sample(s) \/ ReadBoundary(s) PROVE Same(r)
  <2>1. ASSUME ReadBoundary(s) PROVE Same(r)
    BY <1>5, <2>1 DEF ReadBoundary
  <2>2. ASSUME Stat(s) \/ Sample(s) PROVE Same(r)
    BY <1>1, <2>2 DEF Stat, Sample, Same, PollTypeOK
  <2>3. QED
    BY <1>6, <2>1, <2>2
<1>7. ASSUME ReadText(s) PROVE Same(r)
  <2>1. \/ UNCHANGED <<gen, file, table, seen, next, records, once, last>>
           /\ phase' = [phase EXCEPT ![s] = "window"]
           /\ \E x : scan' = [scan EXCEPT ![s] = x]
        \/ \E text, start, head : Decode(s, text, start, head, FALSE, FALSE)
    BY <1>7 DEF ReadText
  <2>2. QED
    BY <1>1, <1>5, <2>1 DEF Same, PollTypeOK
<1>8. ASSUME ReadSession(s) \/ ReadMessages(s) \/ ReadParts(s) PROVE Same(r)
  BY <1>1, <1>8 DEF ReadSession, ReadMessages, ReadParts, Same, PollTypeOK
<1>9. Same(r)
  BY <1>2, <1>3, <1>4, <1>6, <1>7, <1>8 DEF Step
<1>10. QED
  BY <1>9, SameOnce

----------------------------------------------------------------------------
(* Records of transcripts *)

\* A poll that is between reads, or over, holds nothing that could be repeated.
LEMMA QuietLines ==
    ASSUME NEW s \in JsonlSources, LinesOnce(s),
           gen'[s] = gen[s], file'[s] = file[s], once'[s] = once[s], last'[s] = last[s],
           records'[s] \subseteq records[s],
           phase'[s] \notin ReadyPhases \cup {"stated", "sampled", "window"}
    PROVE  LinesOnce(s)'
<1>1. Transcript(s)' = Transcript(s)
  BY DEF Transcript
<1>2. phase'[s] \notin {"stated", "sampled", "window"} /\ phase'[s] \notin ReadyPhases
  OBVIOUS
<1>3. QED
  BY <1>1, <1>2 DEF LinesOnce

LEMMA OwnLinesQuiet ==
    ASSUME IInv, NEW s \in JsonlSources, LinesOnce(s),
           Load(s) \/ Truncate(s) \/ Write(s) \/ WatchAgain(s) \/ Crash(s)
    PROVE  LinesOnce(s)'
<1>1. PollTypeOK /\ s \in Sources
  BY DEF IInv, Sources
<1>2. UNCHANGED <<gen, file, once, last>>
  BY DEF Load, Truncate, Write, WatchAgain, Crash
<1>3. CASE Load(s) \/ WatchAgain(s) \/ Crash(s)
  <2>1. /\ records'[s] \subseteq records[s]
        /\ phase'[s] \in {"loaded", "idle", "dead"}
    BY <1>1, <1>3 DEF Load, WatchAgain, Crash, Fail, Forget, PollTypeOK
  <2>2. QED
    BY <1>2, <2>1, QuietLines DEF ReadyPhases
<1>4. CASE Truncate(s) \/ Write(s)
  <2>1. /\ UNCHANGED <<seen, scan, next, records>>
        /\ phase[s] \in ReadyPhases /\ phase'[s] \in ReadyPhases
    BY <1>1, <1>4 DEF Truncate, Write, PollTypeOK, ReadyPhases
  <2>2. Own(s)' = Own(s) /\ Transcript(s)' = Transcript(s)
    BY <1>2, <2>1 DEF Own, Cursor, Transcript
  <2>3. phase'[s] \notin {"stated", "sampled", "window"}
    BY <2>1 DEF ReadyPhases
  <2>4. StartedOver(s)' <=> StartedOver(s)
    BY <2>1, <2>2, SourcesAssumption DEF StartedOver
  <2>5. QED
    BY <1>2, <2>1, <2>2, <2>3, <2>4 DEF LinesOnce
<1>5. QED
  BY <1>3, <1>4

LEMMA HandOverLines ==
    ASSUME IInv, NEW s \in JsonlSources, LinesOnce(s), HandOver(s)
    PROVE  LinesOnce(s)'
<1>1. PollTypeOK /\ s \in Sources
  BY DEF IInv, Sources
<1>2. /\ UNCHANGED <<gen, file>> /\ phase[s] \in ReadyPhases
      /\ phase'[s] = "idle" /\ records'[s] = {}
      /\ once'[s] = once[s] \cup records[s] /\ last'[s] = next[s]
  BY <1>1 DEF HandOver, Forget, PollTypeOK, ReadyPhases
<1>3. Transcript(s)' = Transcript(s)
  BY <1>2 DEF Transcript
<1>4. /\ StartBy(Transcript(s), Told(s, once[s] \cup records[s]), next[s].offset)
      /\ EndBy(Transcript(s), Told(s, once[s] \cup records[s]), Len(file[s]))
  BY <1>2 DEF LinesOnce
<1>5. QED
  BY <1>2, <1>3, <1>4 DEF LinesOnce, ReadyPhases

LEMMA EndByGrows ==
    ASSUME NEW recs \in Seq(Records), NEW some, NEW size \in Nat, NEW more \in Nat,
           size <= more, EndBy(recs, some, size)
    PROVE  EndBy(recs, some, more)
<1>1. SUFFICES ASSUME NEW i \in 1..Len(recs), recs[i] \in some PROVE Ends(recs)[i] <= more
  BY DEF EndBy
<1>2. i \in 0..Len(recs)
  OBVIOUS
<1>3. Ends(recs)[i] \in Nat /\ Ends(recs)[i] <= size
  BY <1>1, <1>2, EndsUnfold DEF EndBy
<1>4. QED
  BY <1>3

LEMMA AppendLines ==
    ASSUME IInv, NEW s \in JsonlSources, LinesOnce(s), AppendBytes(s)
    PROVE  LinesOnce(s)'
<1>1. PollTypeOK /\ s \in Sources /\ FileInv(s)
  BY DEF IInv, Sources, SourceInv, ScanInv
<1>2. UNCHANGED <<gen, table, phase, seen, scan, next, records, once, last>>
  BY DEF AppendBytes, pollVars
<1>3. Own(s)' = Own(s) /\ Transcript(s)' = Transcript(s) /\ Transcript(s) \in Seq(Records)
  BY <1>1, <1>2, PlanIsText DEF Own, Cursor, Transcript, FileInv
<1>4. StartedOver(s)' <=> StartedOver(s)
  BY <1>2, <1>3, SourcesAssumption DEF StartedOver
<1>5. Len(file[s]) \in Nat /\ Len(file'[s]) \in Nat /\ Len(file[s]) <= Len(file'[s])
  <2>1. FileInv(s)'
    BY AppendStep, <1>1 DEF SourceInv, ScanInv
  <2>2. file[s] \in Seq(Bytes) /\ file'[s] \in Seq(Bytes)
    BY <1>1, <2>1 DEF FileInv
  <2>3. Len(file'[s]) > Len(file[s])
    BY <1>1 DEF AppendBytes, PollTypeOK
  <2>4. QED
    BY <2>2, <2>3
<1>6. \A some : EndBy(Transcript(s), some, Len(file[s])) =>
                  EndBy(Transcript(s), some, Len(file'[s]))
  BY <1>3, <1>5, EndByGrows
<1>7. ASSUME phase[s] = "window", LastNewline(scan[s].text) # 0,
             scan[s].start + LastNewline(scan[s].text) <= Len(file[s])
      PROVE  scan[s].start + LastNewline(scan[s].text) <= Len(file'[s])
  <2> DEFINE place == scan[s].start + LastNewline(scan[s].text)
  <2>1. scan[s].start \in Nat /\ scan[s].text \in Seq(Bytes)
    BY <1>1, <1>7, ReachBounds DEF IInv, SourceInv, ScanInv, TextInv
  <2>2. place \in Nat
    BY <2>1, LastNewlineIsLast
  <2>3. place <= Len(file[s])
    BY <1>7
  <2> HIDE DEF place
  <2>4. place <= Len(file'[s])
    BY <1>5, <2>2, <2>3
  <2>5. QED
    BY <2>4 DEF place
<1>8. QED
  BY <1>2, <1>3, <1>4, <1>6, <1>7 DEF LinesOnce

\* A record that lies at one place is not of two transcripts, nor twice in one.
LEMMA ToldLiesOnce ==
    ASSUME NEW s \in JsonlSources, NEW some,
           NEW g \in 1..Len(Plans[s]), NEW h \in 1..Len(Plans[s]),
           NEW i \in 1..Len(Plans[s][g]), NEW j \in 1..Len(Plans[s][h]),
           Plans[s][g][i] = Plans[s][h][j], Plans[s][g][i] \in Told(s, some)
    PROVE  g = h /\ i = j
<1>1. Plans[s] \in Seq(Seq(Records))
  BY PlansAssumption
<1>2. g \in DOMAIN Plans[s] /\ h \in DOMAIN Plans[s]
  BY <1>1
<1>3. Plans[s][g] \in Seq(Records) /\ Plans[s][h] \in Seq(Records)
  BY PlanIsText
<1>4. i \in DOMAIN Plans[s][g] /\ j \in DOMAIN Plans[s][h]
  BY <1>3
<1>5. ~ WrittenTwice(s, Plans[s][g][i])
  BY DEF Told
<1>6. <<g, i>> = <<h, j>>
  BY <1>2, <1>4, <1>5 DEF WrittenTwice
<1>7. QED
  BY <1>6

\* No told record of what replaces a file has been read.
LEMMA RewriteLines ==
    ASSUME IInv, NEW s \in JsonlSources, LinesOnce(s), Rewrite(s)
    PROVE  LinesOnce(s)'
<1>1. PollTypeOK /\ s \in Sources /\ FileInv(s)
  BY DEF IInv, Sources, SourceInv, ScanInv
<1>2. UNCHANGED <<table, phase, seen, scan, next, records, once, last>>
  BY DEF Rewrite, pollVars
<1> DEFINE g == gen[s]
           k == gen[s] + 1
<1>3. g \in 1..Len(Plans[s]) /\ k \in 1..Len(Plans[s]) /\ \A h \in 1..g : h \in 1..k /\ h # k /\ h \in 1..Len(Plans[s])
  BY <1>1 DEF FileInv, Rewrite
<1>4. gen'[s] = k
  BY <1>1 DEF Rewrite, PollTypeOK
<1>5. Own(s)' = Own(s) /\ Transcript(s)' = Plans[s][k]
  BY <1>2, <1>4 DEF Own, Cursor, Transcript
<1>6. StartedOver(s)' <=> StartedOver(s)
  BY <1>2, <1>5, SourcesAssumption DEF StartedOver
<1> HIDE DEF g, k
<1>7. ASSUME NEW some, some \subseteq once[s] \cup records[s], NEW i \in 1..Len(Plans[s][k])
      PROVE  Plans[s][k][i] \notin Told(s, some)
  <2> SUFFICES ASSUME Plans[s][k][i] \in Told(s, some) PROVE FALSE
    OBVIOUS
  <2>1. Plans[s][k][i] \in once[s] \cup records[s]
    BY <1>7 DEF Told
  <2>2. PICK h \in 1..g : Plans[s][k][i] \in Range(Plans[s][h])
    BY <2>1 DEF LinesOnce, g
  <2>3. h \in 1..Len(Plans[s]) /\ h # k /\ Plans[s][h] \in Seq(Records)
    BY <1>3, PlanIsText
  <2>4. PICK j \in 1..Len(Plans[s][h]) : Plans[s][k][i] = Plans[s][h][j]
    BY <2>2, <2>3 DEF Range
  <2>5. QED
    BY <1>3, <2>3, <2>4, ToldLiesOnce
<1>8. ASSUME NEW some, some \subseteq once[s] \cup records[s], NEW place
      PROVE  StartBy(Plans[s][k], Told(s, some), place) /\ EndBy(Plans[s][k], Told(s, some), place)
  BY <1>7, <1>8 DEF StartBy, EndBy
<1>9. Range(Plans[s][k]) \cap Told(s, once[s]) = {}
  <2>1. Plans[s][k] \in Seq(Records)
    BY <1>3, PlanIsText
  <2>2. \A i \in 1..Len(Plans[s][k]) : Plans[s][k][i] \notin Told(s, once[s])
    BY <1>7
  <2>3. QED
    BY <2>1, <2>2 DEF Range
<1>10. \A r \in once[s] \cup records[s] : \E h \in 1..k : r \in Range(Plans[s][h])
  BY <1>3 DEF LinesOnce, g
<1>11. phase[s] = "window" =>
          \E h \in 1..k :
             /\ Matches(Plans[s][h], scan[s].start, scan[s].text)
             /\ h # k
             /\ Own(s) = last[s] => Range(Plans[s][h]) \cap Told(s, once[s]) = {}
  BY <1>3 DEF LinesOnce, g
<1>12. phase[s] \in ReadyPhases =>
          (Own(s) = last[s] /\ ~ StartedOver(s) => records[s] \cap Told(s, once[s]) = {})
  BY DEF LinesOnce
<1>13. /\ StartBy(Plans[s][k], Told(s, once[s]), last[s].offset)
       /\ EndBy(Plans[s][k], Told(s, once[s]), Len(file'[s]))
       /\ EndBy(Plans[s][k], Told(s, once[s]), scan[s].size)
       /\ StartBy(Plans[s][k], Told(s, once[s] \cup records[s]), next[s].offset)
       /\ EndBy(Plans[s][k], Told(s, once[s] \cup records[s]), Len(file'[s]))
  BY <1>8
<1>14. QED
  BY <1>2, <1>4, <1>5, <1>6, <1>9, <1>10, <1>11, <1>12, <1>13 DEF LinesOnce

\* Lines end after they start, and after the beginning of the text.
LEMMA EndsOrder ==
    ASSUME NEW recs \in Seq(Records), NEW i \in 1..Len(recs)
    PROVE  /\ Ends(recs)[i - 1] \in Nat /\ Ends(recs)[i] \in Nat
           /\ Ends(recs)[i - 1] < Ends(recs)[i] /\ 0 < Ends(recs)[i]
<1> DEFINE n == Len(recs)
           e == Ends(recs)
<1>1. i \in 0..n /\ i - 1 \in 0..n /\ i - 1 \in 0..(i - 1)
  OBVIOUS
<1>2. e[i - 1] \in Nat /\ e[i] \in Nat
  BY <1>1, EndsUnfold
<1>3. e[i - 1] < e[i]
  BY <1>1, EndsAreNewlines
<1> HIDE DEF e
<1>4. 0 < e[i]
  BY <1>2, <1>3
<1>5. QED
  BY <1>2, <1>3, <1>4 DEF e

\* A read that takes the end of a line before which no byte continues a character
\* ends behind the start of that line.
LEMMA NextOffsetBeyond ==
    ASSUME NEW recs \in Seq(Records), NEW i \in 1..Len(recs),
           \A j \in 1..(i - 1) : ~ IsWide(recs[j]),
           NEW text \in Seq(Bytes), NEW start \in Nat, Matches(recs, start, text),
           Ends(recs)[i] <= start + Len(text)
    PROVE  Ends(recs)[i - 1] < NextOffset(start, text)
<1> DEFINE a == Ends(recs)[i - 1]
           b == Ends(recs)[i]
           m == Len(text)
           stop == LastNewline(text)
           sub == SubSeq(text, 1, stop)
<1>1. a \in Nat /\ b \in Nat /\ a < b /\ m \in Nat
  BY EndsOrder
<1>2. NextOffset(start, text) \in Nat /\ start <= NextOffset(start, text)
  BY NextOffsetFacts
<1>3. Text(recs)[b] = NL
  BY TextLayout
<1>4. \A p \in 1..a : Text(recs)[p] \notin Continuation
  <2>1. i - 1 \in 0..Len(recs)
    OBVIOUS
  <2>2. QED
    BY <2>1, NarrowBytes
<1>5. stop \in 0..m /\ \A j \in 1..m : text[j] = NL => j <= stop
  BY LastNewlineIsLast
<1>6. \A j \in 1..m : text[j] = Text(recs)[start + j]
  BY DEF Matches
<1>7. NextOffset(start, text) = start + Units(sub)
  BY DEF NextOffset
<1>8. b <= start + m
  OBVIOUS
<1> HIDE DEF a, b, m, stop
<1>9. CASE a < start
  BY <1>1, <1>2, <1>9 DEF a
<1>10. CASE start <= a
  <2> DEFINE p == a - start
             e == b - start
  <2>1. p \in Nat /\ e \in 1..m /\ p < e /\ start + p = a /\ start + e = b
    BY <1>1, <1>8, <1>10
  <2> HIDE DEF p, e
  <2>2. text[e] = NL
    BY <1>3, <1>6, <2>1
  <2>3. e <= stop
    BY <1>5, <2>1, <2>2
  <2>4. /\ sub \in Seq(Bytes) /\ Len(sub) = stop
        /\ \A j \in 1..stop : j \in 1..m /\ sub[j] = text[j]
    BY <1>1, <1>5 DEF m
  <2> HIDE DEF sub
  <2>5. sub[e] \notin Continuation
    BY <1>5, <2>1, <2>2, <2>3, <2>4, BytesAssumption
  <2>6. ASSUME NEW j \in 1..p PROVE sub[j] \notin Continuation
    <3>1. j \in 1..stop /\ start + j \in 1..a
      BY <1>1, <1>5, <2>1, <2>3
    <3>2. sub[j] = Text(recs)[start + j]
      BY <1>6, <2>4, <3>1
    <3>3. QED
      BY <1>4, <3>1, <3>2
  <2>7. e \in (p + 1)..Len(sub)
    BY <1>5, <2>1, <2>3, <2>4
  <2>8. p < Units(sub) /\ Units(sub) \in Nat
    BY <2>1, <2>4, <2>5, <2>6, <2>7, UnitsBeyond, UnitsBound
  <2>9. QED
    BY <1>1, <1>7, <2>1, <2>8 DEF a
<1>11. QED
  BY <1>1, <1>9, <1>10 DEF a

\* Where it ends is behind the start of every told record that lies before its end.
LEMMA ToldBeforeNext ==
    ASSUME NEW s \in JsonlSources, NEW g \in 1..Len(Plans[s]), NEW some,
           NEW i \in 1..Len(Plans[s][g]), Plans[s][g][i] \in Told(s, some),
           NEW text \in Seq(Bytes), NEW start \in Nat, Matches(Plans[s][g], start, text),
           Ends(Plans[s][g])[i] <= start + Len(text)
    PROVE  Ends(Plans[s][g])[i - 1] < NextOffset(start, text)
<1>1. Plans[s][g] \in Seq(Records)
  BY PlanIsText
<1>2. \A j \in 1..(i - 1) : ~ IsWide(Plans[s][g][j])
  <2> SUFFICES ASSUME NEW j \in 1..(i - 1), IsWide(Plans[s][g][j])
               PROVE  ComesAfterWide(s, Plans[s][g][i])
    BY DEF Told
  <2>1. g \in DOMAIN Plans[s] /\ i \in DOMAIN Plans[s][g]
    BY <1>1, PlansAssumption
  <2>2. QED
    BY <2>1 DEF ComesAfterWide
<1>3. QED
  BY <1>1, <1>2, NextOffsetBeyond

LEMMA DecodeLines ==
    ASSUME IInv, NEW s \in JsonlSources, LinesOnce(s),
           NEW text \in Seq(Bytes), NEW start \in Nat, NEW head, NEW fromTail, NEW onBoundary,
           Decode(s, text, start, head, fromTail, onBoundary),
           NEW g \in 1..gen[s], Matches(Plans[s][g], start, text),
           g # gen[s] => Range(Transcript(s)) \cap Told(s, once[s]) = {},
           g = gen[s] =>
              /\ StartBy(Transcript(s), Told(s, once[s]), NextOffset(start, text))
              /\ LastNewline(text) # 0 => start + LastNewline(text) <= Len(file[s]),
           Own(s) = last[s] /\ ~ StartedOver(s) =>
              \A i \in 1..Len(Plans[s][g]) :
                 start <= Ends(Plans[s][g])[i - 1] => Plans[s][g][i] \notin Told(s, once[s])
    PROVE  LinesOnce(s)'
<1> DEFINE skip == Discarded(text, fromTail, onBoundary)
           stop == LastNewline(text)
           lines == Lines(SubSeq(text, skip + 1, stop))
           decoded == UNION {Decoded(l) : l \in lines}
           recs == Plans[s][g]
           e == Ends(recs)
           now == Transcript(s)
           place == NextOffset(start, text)
<1>1. /\ PollTypeOK /\ s \in Sources /\ FileInv(s)
      /\ gen[s] \in 1..Len(Plans[s]) /\ g \in 1..Len(Plans[s])
  BY SourcesAssumption DEF IInv, Sources, SourceInv, ScanInv, FileInv
<1>2. UNCHANGED <<gen, file, once, last>>
  BY DEF Decode
<1>3. \/ phase'[s] = "dead" /\ records'[s] = {}
      \/ /\ phase'[s] = "read" /\ seen'[s] = seen[s] /\ scan'[s] = scan[s]
         /\ next'[s] = [offset |-> place, head |-> head]
         /\ records'[s] = decoded
  BY <1>1 DEF Decode, Fail, Forget, PollTypeOK
<1>4. recs \in Seq(Records) /\ now \in Seq(Records) /\ Len(file[s]) \in Nat
  BY <1>1, PlanIsText, SMTT(20) DEF FileInv, Transcript
<1>5. stop \in 0..Len(text) /\ skip \in 0..stop
  BY LastNewlineIsLast, DiscardedIsBeforeLast
<1>6. \A r \in decoded : \E i \in 1..Len(recs) :
         recs[i] = r /\ start + skip <= e[i - 1] /\ e[i] <= start + stop
  <2> SUFFICES ASSUME NEW l \in lines, NEW r \in Decoded(l)
               PROVE  \E i \in 1..Len(recs) :
                         recs[i] = r /\ start + skip <= e[i - 1] /\ e[i] <= start + stop
    OBVIOUS
  <2>1. skip \in 0..LastNewline(text) /\ l \in Lines(SubSeq(text, skip + 1, LastNewline(text)))
    BY <1>5
  <2>2. recs \in Seq(Records) /\ Matches(recs, start, text)
    BY <1>4
  <2> HIDE DEF skip, recs, e
  <2>3. Placed(recs, r, start + skip, start + LastNewline(text))
    BY <2>1, <2>2, LinesAreSound
  <2>4. QED
    BY <2>3 DEF e, Placed
<1> HIDE DEF skip, lines, decoded
<1>7. CASE phase'[s] = "dead" /\ records'[s] = {}
  BY <1>2, <1>7, QuietLines DEF ReadyPhases
<1>8. CASE /\ phase'[s] = "read" /\ seen'[s] = seen[s] /\ scan'[s] = scan[s]
           /\ next'[s] = [offset |-> place, head |-> head]
           /\ records'[s] = decoded
  <2>1. Own(s)' = Own(s) /\ Transcript(s)' = now /\ next'[s].offset = place
    BY <1>2, <1>8 DEF Own, Cursor, Transcript
  <2>2. StartedOver(s)' <=> StartedOver(s)
    BY <1>8, <2>1, SourcesAssumption DEF StartedOver
  <2>3. \A r \in once'[s] \cup records'[s] : \E h \in 1..gen'[s] : r \in Range(Plans[s][h])
    <3>1. \A r \in decoded : r \in Range(recs)
      BY <1>4, <1>6 DEF Range
    <3>2. QED
      BY <1>2, <1>8, <3>1 DEF LinesOnce
  <2>4. ASSUME NEW i \in 1..Len(now), now[i] \in Told(s, once[s] \cup decoded)
        PROVE  Ends(now)[i - 1] < place /\ Ends(now)[i] <= Len(file[s])
    <3>1. CASE now[i] \in once[s]
      <4>1. now[i] \in Told(s, once[s])
        BY <2>4, <3>1 DEF Told
      <4>2. g = gen[s]
        BY <1>4, <4>1 DEF Range
      <4>3. StartBy(now, Told(s, once[s]), place) /\ EndBy(now, Told(s, once[s]), Len(file[s]))
        BY <4>2 DEF LinesOnce
      <4>4. QED
        BY <2>4, <4>1, <4>3 DEF StartBy, EndBy
    <3>2. CASE now[i] \in decoded
      <4>1. PICK j \in 1..Len(recs) :
               recs[j] = now[i] /\ start + skip <= e[j - 1] /\ e[j] <= start + stop
        BY <1>6, <3>2
      <4>2. gen[s] = g /\ i = j
        <5> DEFINE h == gen[s]
        <5>1. /\ h \in 1..Len(Plans[s]) /\ i \in 1..Len(Plans[s][h]) /\ j \in 1..Len(Plans[s][g])
              /\ Plans[s][h][i] = Plans[s][g][j] /\ Plans[s][h][i] \in Told(s, once[s] \cup decoded)
          BY <1>1, <2>4, <4>1 DEF Transcript
        <5> HIDE DEF h
        <5>2. h = g /\ i = j
          BY <1>1, <5>1, ToldLiesOnce
        <5>3. QED
          BY <5>2 DEF h
      <4>3. recs = now
        BY <4>2 DEF Transcript
      <4>4. e[j - 1] \in Nat /\ e[j] \in Nat /\ e[j - 1] < e[j]
        BY <1>4, EndsOrder
      <4>5. e[j] <= start + Len(text) /\ stop # 0
        <5> HIDE DEF e, stop
        <5> QED
          BY <1>5, <4>1, <4>4
      <4>6. e[j - 1] < place
        <5>1. recs[j] \in Told(s, once[s] \cup decoded)
          BY <2>4, <4>1
        <5>2. QED
          BY <1>1, <4>5, <5>1, ToldBeforeNext
      <4>7. start + stop <= Len(file[s])
        BY <4>2, <4>5
      <4>8. e[j] <= Len(file[s])
        <5> HIDE DEF e, stop
        <5> QED
          BY <1>4, <1>5, <4>1, <4>4, <4>7
      <4>9. QED
        BY <4>2, <4>3, <4>6, <4>8
    <3>3. QED
      BY <2>4, <3>1, <3>2 DEF Told
  <2>5. /\ StartBy(now, Told(s, once[s] \cup decoded), place)
        /\ EndBy(now, Told(s, once[s] \cup decoded), Len(file[s]))
    BY <2>4 DEF StartBy, EndBy
  <2>6. ASSUME Own(s) = last[s], ~ StartedOver(s)
        PROVE  decoded \cap Told(s, once[s]) = {}
    <3> SUFFICES ASSUME NEW r \in decoded, r \in Told(s, once[s]) PROVE FALSE
      OBVIOUS
    <3>1. PICK i \in 1..Len(recs) :
             recs[i] = r /\ start + skip <= e[i - 1] /\ e[i] <= start + stop
      BY <1>6
    <3>2. e[i - 1] \in Nat
      BY <1>4, EndsOrder
    <3>3. start <= e[i - 1]
      <4> HIDE DEF e, stop
      <4> QED
        BY <1>5, <3>1, <3>2
    <3>4. QED
      BY <2>6, <3>1, <3>3
  <2> HIDE DEF place, now
  <2>7. /\ StartBy(Transcript(s)', Told(s, once'[s] \cup records'[s]), next'[s].offset)
        /\ EndBy(Transcript(s)', Told(s, once'[s] \cup records'[s]), Len(file'[s]))
        /\ Own(s)' = last'[s] /\ ~ StartedOver(s)' => records'[s] \cap Told(s, once'[s]) = {}
    BY <1>2, <1>8, <2>1, <2>2, <2>5, <2>6
  <2>8. /\ StartBy(Transcript(s)', Told(s, once'[s]), last'[s].offset)
        /\ EndBy(Transcript(s)', Told(s, once'[s]), Len(file'[s]))
    BY <1>2, <2>1 DEF LinesOnce, now
  <2>9. QED
    BY <1>8, <2>3, <2>7, <2>8 DEF LinesOnce
<1>9. QED
  BY <1>3, <1>7, <1>8

LEMMA StatLines ==
    ASSUME IInv, NEW s \in JsonlSources, LinesOnce(s), Stat(s)
    PROVE  LinesOnce(s)'
<1>1. PollTypeOK /\ s \in Sources
  BY DEF IInv, Sources
<1>2. UNCHANGED <<gen, file, seen, next, records, once, last>>
  BY DEF Stat
<1>3. phase'[s] = "stated" /\ scan'[s].size = Len(file[s])
  BY <1>1 DEF Stat, PollTypeOK
<1>4. Transcript(s)' = Transcript(s)
  BY <1>2 DEF Transcript
<1>5. EndBy(Transcript(s)', Told(s, once'[s]), scan'[s].size)
  BY <1>2, <1>3, <1>4 DEF LinesOnce
<1>6. QED
  BY <1>2, <1>3, <1>4, <1>5 DEF LinesOnce, ReadyPhases

LEMMA SampleLines ==
    ASSUME IInv, NEW s \in JsonlSources, LinesOnce(s), Sample(s)
    PROVE  LinesOnce(s)'
<1>1. PollTypeOK /\ s \in Sources
  BY DEF IInv, Sources
<1>2. UNCHANGED <<gen, file, seen, next, records, once, last>>
  BY DEF Sample
<1>3. phase[s] = "stated" /\ phase'[s] = "sampled" /\ scan'[s].size = scan[s].size
  BY <1>1 DEF Sample, PollTypeOK
<1>4. Transcript(s)' = Transcript(s)
  BY <1>2 DEF Transcript
<1>5. QED
  BY <1>2, <1>3, <1>4 DEF LinesOnce, ReadyPhases

\* Where a poll starts at the cursor of the last, and not over, nothing that was
\* told is read again.
LEMMA StartsAfterTold ==
    ASSUME NEW s \in JsonlSources, FileInv(s), Own(s) = last[s], last[s].offset \in Nat,
           StartBy(Transcript(s), Told(s, once[s]), last[s].offset),
           NEW i \in 1..Len(Transcript(s)), Transcript(s)[i] \in Told(s, once[s])
    PROVE  LET start == StartOf(Own(s), scan[s].size, scan[s].head)
           IN  /\ ~ StartsFromTail(Own(s), start)
               /\ ~ StartedOver(s) => Ends(Transcript(s))[i - 1] < start
<1> DEFINE c == Own(s)
           a == Ends(Transcript(s))[i - 1]
           start == StartOf(c, scan[s].size, scan[s].head)
<1>1. a \in Nat /\ a < c.offset /\ c.offset \in Nat
  BY PlanIsText, EndsOrder DEF FileInv, Transcript, StartBy
<1>2. c.offset > 0 /\ c.offset # 0
  <2> DEFINE p == c.offset
  <2>1. a \in Nat /\ a < p /\ p \in Nat
    BY <1>1
  <2> HIDE DEF a, p
  <2>2. p > 0 /\ p # 0
    BY <2>1
  <2>3. QED
    BY <2>2 DEF p
<1>3. ~ StartsFromTail(c, start)
  BY <1>2 DEF StartsFromTail
<1>4. ~ StartedOver(s) => start # 0
  BY <1>2 DEF StartedOver
<1>5. start # 0 => start = c.offset
  BY <1>2 DEF StartOf
<1>6. QED
  BY <1>1, <1>3, <1>4, <1>5

LEMMA ReadTextLines ==
    ASSUME IInv, NEW s \in JsonlSources, LinesOnce(s), last[s].offset \in Nat, ReadText(s)
    PROVE  LinesOnce(s)'
<1> DEFINE size == scan[s].size
           head == scan[s].head
           start == StartOf(Own(s), size, head)
           text == Window(file[s], start, size)
           recs == Transcript(s)
           e == Ends(recs)
           m == Len(file[s])
<1>1. /\ PollTypeOK /\ SourceInv(s) /\ s \in Sources /\ gen[s] \in 1..Len(Plans[s])
      /\ FileInv(s) /\ TextInv(s) /\ gen[s] \in 1..gen[s]
  BY DEF IInv, Sources, SourceInv, ScanInv, FileInv
<1>2. /\ phase[s] = "sampled"
      /\ IF StartsFromTail(Own(s), start)
         THEN /\ Becomes(s, "window")
              /\ scan' = [scan EXCEPT ![s] = [head |-> @.head, start |-> start, text |-> text]]
              /\ UNCHANGED <<watching, agentVars, store, seen, next, records, crashes,
                             histVars, excused>>
         ELSE Decode(s, text, start, head, FALSE, FALSE)
  BY DEF ReadText
<1>3. size \in Nat /\ Own(s).offset \in Nat
  <2>1. size \in 0..Reach(s) /\ Reach(s) \in Nat
    BY <1>1, <1>2, ReachBounds DEF TextInv
  <2>2. Own(s).offset \in 0..Reach(s)
    BY <1>1 DEF SourceInv, SeenInv, Sound, SoundAt, Own, IsCursor
  <2>3. QED
    BY <2>1, <2>2
<1>4. start \in 0..size
  <2> DEFINE c == Own(s)
  <2> HIDE DEF c, size, head
  <2>1. StartOf(c, size, head) \in 0..size
    BY <1>3, SizesAssumption DEF StartOf, c
  <2>2. QED
    BY <2>1 DEF c
<1>5. recs \in Seq(Records) /\ m \in Nat /\ start \in Nat
  BY <1>1, <1>3, <1>4, PlanIsText DEF FileInv, Transcript
<1>6. /\ text \in Seq(Bytes) /\ Matches(recs, start, text)
      /\ Len(text) # 0 => start + Len(text) <= m
      /\ size <= start + Len(text) \/ m <= start + Len(text)
  <2>1. file[s] \in Seq(Bytes) /\ Matches(recs, 0, file[s]) /\ start <= size
    BY <1>1, <1>3, <1>4 DEF FileInv
  <2> HIDE DEF size, start, recs
  <2>2. text \in Seq(Bytes) /\ Matches(recs, start, text)
    BY <1>3, <1>5, <2>1, WindowMatches
  <2>3. /\ Len(text) # 0 => start + Len(text) <= m
        /\ size <= start + Len(text) \/ m <= start + Len(text)
    BY <1>3, <1>5, <2>1, WindowPlaces
  <2>4. QED
    BY <2>2, <2>3
<1>7. ASSUME NEW i \in 1..Len(recs), recs[i] \in Told(s, once[s])
      PROVE  e[i - 1] < NextOffset(start, text)
  <2>1. e[i - 1] \in Nat /\ e[i] \in Nat /\ e[i - 1] < e[i]
    BY <1>5, EndsOrder
  <2>2. e[i] <= size /\ e[i] <= m
    BY <1>2, <1>7 DEF LinesOnce, EndBy
  <2>3. NextOffset(start, text) \in Nat /\ start <= NextOffset(start, text)
    BY <1>5, <1>6, NextOffsetFacts
  <2> DEFINE a == e[i - 1]
             b == e[i]
             l == Len(text)
             place == NextOffset(start, text)
  <2>4. l \in Nat
    BY <1>6
  <2>5. CASE b <= start + l
    <3>1. recs = Plans[s][gen[s]]
      BY DEF Transcript
    <3> HIDE DEF text, start, recs
    <3>2. QED
      BY <1>1, <1>5, <1>6, <1>7, <2>5, <3>1, ToldBeforeNext
  <2>6. CASE ~ (b <= start + l)
    <3>1. /\ a \in Nat /\ b \in Nat /\ a < b /\ b <= size /\ b <= m
          /\ size <= start + l \/ m <= start + l
      BY <1>6, <2>1, <2>2
    <3> HIDE DEF a, b, l, place, start, m, text, size
    <3>2. QED
      BY <1>3, <1>5, <2>4, <2>6, <3>1
  <2>7. QED
    BY <2>5, <2>6
<1>8. StartBy(recs, Told(s, once[s]), NextOffset(start, text))
  BY <1>7 DEF StartBy
<1>9. LastNewline(text) # 0 => start + LastNewline(text) <= m
  <2> DEFINE l == Len(text)
             stop == LastNewline(text)
  <2>1. stop \in 0..l /\ l \in Nat /\ (l # 0 => start + l <= m)
    BY <1>6, LastNewlineIsLast
  <2> HIDE DEF l, stop, start, m
  <2>2. stop # 0 => start + stop <= m
    BY <1>5, <2>1
  <2>3. QED
    BY <2>2 DEF stop, start, m
<1>10. ASSUME Own(s) = last[s], NEW i \in 1..Len(recs), recs[i] \in Told(s, once[s])
       PROVE  /\ ~ StartsFromTail(Own(s), start)
              /\ ~ StartedOver(s) => e[i - 1] < start
  BY <1>1, <1>10, StartsAfterTold DEF LinesOnce
<1> HIDE DEF size, head, start, text
<1>11. CASE StartsFromTail(Own(s), start)
  <2>1. UNCHANGED <<gen, file, seen, next, records, once, last>>
    BY <1>2, <1>11
  <2>2. /\ phase'[s] = "window"
        /\ scan'[s].start = start /\ scan'[s].text = text
    BY <1>1, <1>2, <1>11 DEF PollTypeOK
  <2>3. Transcript(s)' = recs /\ Own(s)' = Own(s)
    BY <2>1 DEF Transcript, Own, Cursor
  <2>4. Own(s) = last[s] => Range(recs) \cap Told(s, once[s]) = {}
    BY <1>5, <1>10, <1>11 DEF Range
  <2>5. Matches(Plans[s][gen[s]], start, text) /\ recs = Plans[s][gen[s]]
    BY <1>6 DEF Transcript
  <2> HIDE DEF recs, m
  <2>6. \E g \in 1..gen'[s] :
           /\ Matches(Plans[s][g], scan'[s].start, scan'[s].text)
           /\ g = gen'[s]
           /\ StartBy(Transcript(s)', Told(s, once'[s]),
                      NextOffset(scan'[s].start, scan'[s].text))
           /\ LastNewline(scan'[s].text) # 0 =>
                 scan'[s].start + LastNewline(scan'[s].text) <= Len(file'[s])
           /\ Own(s)' = last'[s] => Range(Plans[s][g]) \cap Told(s, once'[s]) = {}
    BY <1>1, <1>8, <1>9, <2>1, <2>2, <2>3, <2>4, <2>5 DEF m
  <2>7. QED
    BY <2>1, <2>2, <2>3, <2>6 DEF LinesOnce, ReadyPhases, recs
<1>12. CASE ~ StartsFromTail(Own(s), start)
  <2>1. Decode(s, text, start, head, FALSE, FALSE)
    BY <1>2, <1>12
  <2>2. Matches(Plans[s][gen[s]], start, text)
    BY <1>6 DEF Transcript
  <2>3. Own(s) = last[s] /\ ~ StartedOver(s) =>
           \A i \in 1..Len(Plans[s][gen[s]]) :
              start <= Ends(Plans[s][gen[s]])[i - 1] =>
                 Plans[s][gen[s]][i] \notin Told(s, once[s])
    <3> SUFFICES ASSUME Own(s) = last[s], ~ StartedOver(s),
                        NEW i \in 1..Len(recs), recs[i] \in Told(s, once[s]),
                        start <= e[i - 1]
                 PROVE  FALSE
      BY DEF Transcript
    <3> DEFINE a == e[i - 1]
    <3>1. a \in Nat
      BY <1>5, EndsOrder
    <3>2. a < start
      BY <1>10
    <3>3. start <= a
      OBVIOUS
    <3> HIDE DEF a
    <3>4. QED
      BY <1>5, <3>1, <3>2, <3>3
  <2>4. QED
    BY <1>1, <1>5, <1>6, <1>8, <1>9, <2>1, <2>2, <2>3, DecodeLines
<1>13. QED
  BY <1>11, <1>12

LEMMA ReadBoundaryLines ==
    ASSUME IInv, NEW s \in JsonlSources, LinesOnce(s), ReadBoundary(s)
    PROVE  LinesOnce(s)'
<1> DEFINE start == scan[s].start
           text == scan[s].text
<1>1. s \in Sources /\ TextInv(s) /\ FileInv(s)
  BY DEF IInv, Sources, SourceInv, ScanInv
<1>2. /\ phase[s] = "window"
      /\ \E onBoundary : Decode(s, text, start, scan[s].head, TRUE, onBoundary)
  BY DEF ReadBoundary
<1>3. start \in Nat /\ text \in Seq(Bytes)
  BY <1>1, <1>2, ReachBounds DEF TextInv
<1>4. PICK g \in 1..gen[s] :
         /\ Matches(Plans[s][g], start, text)
         /\ g # gen[s] => Range(Transcript(s)) \cap Told(s, once[s]) = {}
         /\ g = gen[s] =>
               /\ StartBy(Transcript(s), Told(s, once[s]), NextOffset(start, text))
               /\ LastNewline(text) # 0 => start + LastNewline(text) <= Len(file[s])
         /\ Own(s) = last[s] => Range(Plans[s][g]) \cap Told(s, once[s]) = {}
  BY <1>2 DEF LinesOnce
<1>5. Own(s) = last[s] => \A i \in 1..Len(Plans[s][g]) : Plans[s][g][i] \notin Told(s, once[s])
  <2>1. Plans[s][g] \in Seq(Records)
    <3>1. g \in 1..Len(Plans[s])
      BY <1>1 DEF FileInv
    <3>2. QED
      BY <3>1, PlanIsText
  <2>2. QED
    BY <1>4, <2>1 DEF Range
<1> HIDE DEF start, text
<1>6. QED
  BY <1>2, <1>3, <1>4, <1>5, DecodeLines

----------------------------------------------------------------------------
(* Rows *)

LEMMA QuietRows ==
    ASSUME NEW s \in RowSources, RowsOnce(s), table' = table,
           once'[s] = once[s], last'[s] = last[s], records'[s] \subseteq records[s],
           phase'[s] \notin ReadyPhases \cup {"session", "messages"}
    PROVE  RowsOnce(s)'
<1>1. \A v : Known(v)' <=> Known(v)
  BY DEF Known
<1>2. QED
  BY <1>1 DEF RowsOnce

LEMMA OwnRowsQuiet ==
    ASSUME IInv, NEW s \in RowSources, RowsOnce(s),
           Load(s) \/ Truncate(s) \/ Write(s) \/ WatchAgain(s) \/ Crash(s)
    PROVE  RowsOnce(s)'
<1>1. PollTypeOK /\ s \in Sources
  BY DEF IInv, Sources
<1>2. UNCHANGED <<table, once, last>>
  BY DEF Load, Truncate, Write, WatchAgain, Crash
<1>3. CASE Load(s) \/ WatchAgain(s) \/ Crash(s)
  <2>1. /\ records'[s] \subseteq records[s]
        /\ phase'[s] \in {"loaded", "idle", "dead"}
    BY <1>1, <1>3 DEF Load, WatchAgain, Crash, Fail, Forget, PollTypeOK
  <2>2. QED
    BY <1>2, <2>1, QuietRows DEF ReadyPhases
<1>4. CASE Truncate(s) \/ Write(s)
  <2>1. /\ UNCHANGED <<seen, scan, next, records>>
        /\ phase[s] \in ReadyPhases /\ phase'[s] \in ReadyPhases
    BY <1>1, <1>4 DEF Truncate, Write, PollTypeOK, ReadyPhases
  <2>2. Own(s)' = Own(s) /\ SessionRead(s)' = SessionRead(s)
    BY <1>2, <2>1 DEF Own, Cursor, SessionRead
  <2>3. phase'[s] \notin {"session", "messages"}
    BY <2>1 DEF ReadyPhases
  <2>4. \A v : Known(v)' <=> Known(v)
    BY <1>2 DEF Known
  <2>5. QED
    BY <1>2, <2>1, <2>2, <2>3, <2>4 DEF RowsOnce
<1>5. QED
  BY <1>3, <1>4

LEMMA HandOverRows ==
    ASSUME IInv, NEW s \in RowSources, RowsOnce(s), HandOver(s)
    PROVE  RowsOnce(s)'
<1>1. PollTypeOK /\ s \in Sources
  BY DEF IInv, Sources
<1>2. /\ table' = table /\ phase[s] \in ReadyPhases
      /\ phase'[s] = "idle" /\ records'[s] = {}
      /\ once'[s] = once[s] \cup records[s] /\ last'[s] = next[s]
  BY <1>1 DEF HandOver, Forget, PollTypeOK, ReadyPhases
<1>3. \A v : Known(v)' <=> Known(v)
  BY <1>2 DEF Known
<1>4. QED
  BY <1>2, <1>3 DEF RowsOnce, ReadyPhases

\* A row is never stored at an earlier time than before.
LEMMA KnownRemains ==
    ASSUME TableTypeOK, ClockInv, NEW k, UpdateRow(k), NEW v, Known(v), Rows!Time(v) \in Nat
    PROVE  Known(v)'
<1> DEFINE j == Rows!Key(v)
           t == Rows!Time(v)
<1>1. j \in DOMAIN table /\ t <= table[j] /\ table[j] <= clock
  BY DEF Known, ClockInv
<1>2. j \in DOMAIN table' /\ table'[j] = IF j = k THEN clock ELSE table[j]
  BY <1>1 DEF UpdateRow
<1>3. table[j] \in Nat /\ clock \in Nat /\ t \in Nat
  BY <1>1, RowsAssumption DEF TableTypeOK
<1>4. t <= table'[j]
  <2> HIDE DEF j, t
  <2>1. QED
    BY <1>1, <1>2, <1>3
<1>5. QED
  BY <1>2, <1>4 DEF Known

LEMMA UpdateRows ==
    ASSUME IInv, ClockInv, NEW k, UpdateRow(k), NEW s \in RowSources, RowsOnce(s)
    PROVE  RowsOnce(s)'
<1>1. PollTypeOK /\ TableTypeOK /\ QueryInv(s)
  BY SourcesAssumption DEF IInv, Sources, SourceInv, ScanInv
<1>2. UNCHANGED <<phase, seen, scan, next, records, once, last>>
  BY DEF UpdateRow, pollVars
<1>3. Own(s)' = Own(s) /\ SessionRead(s)' = SessionRead(s)
  BY <1>2 DEF Own, Cursor, SessionRead
<1>4. \A v \in RowVersions : Known(v) => Known(v)'
  <2>1. \A v \in RowVersions : Rows!Time(v) \in Nat
    BY VersionFacts, RowsAssumption
  <2>2. QED
    BY <1>1, <2>1, KnownRemains
<1>5. \A v \in once[s] \cup records[s] : Known(v)'
  BY <1>4 DEF RowsOnce
<1>6. phase[s] \in {"session", "messages"} => scan[s] \subseteq RowVersions
  BY <1>1 DEF QueryInv, ReadSoFar
<1>7. phase[s] = "session" => ReadAgain(s, {0})'
  BY <1>2, <1>4, <1>6 DEF RowsOnce, ReadAgain
<1>8. phase[s] = "messages" => ReadAgain(s, {0, 1})'
  BY <1>2, <1>4, <1>6 DEF RowsOnce, ReadAgain
<1>9. QED
  BY <1>2, <1>3, <1>5, <1>7, <1>8 DEF RowsOnce

LEMMA StoredIsKnown ==
    ASSUME TableTypeOK, NEW v \in Versions
    PROVE  Known(v)
<1>1. PICK k \in DOMAIN table : v = <<k[1], k[2], table[k]>>
  BY DEF Versions
<1>2. k = <<k[1], k[2]>> /\ table[k] \in Nat
  BY RowsAssumption DEF TableTypeOK, SessionKey
<1>3. Rows!Key(v) = k /\ Rows!Time(v) = table[k]
  BY <1>1, <1>2 DEF Rows!Key, Rows!Time
<1>4. QED
  BY <1>2, <1>3 DEF Known

LEMMA KnownIsStored ==
    ASSUME TableTypeOK, NEW rank, NEW v \in RowVersions, Known(v), v[1] = rank
    PROVE  \E w \in VersionsOf(rank) : Rows!Key(w) = Rows!Key(v) /\ Rows!Time(v) <= Rows!Time(w)
<1> DEFINE k == Rows!Key(v)
           w == <<k[1], k[2], table[k]>>
<1>1. k \in DOMAIN table /\ Rows!Time(v) <= table[k]
  BY DEF Known
<1>2. k = <<v[1], v[2]>>
  BY DEF Rows!Key
<1>3. w \in VersionsOf(rank)
  BY <1>1, <1>2 DEF VersionsOf, Versions
<1>4. Rows!Key(w) = k /\ Rows!Time(w) = table[k]
  BY <1>2 DEF Rows!Key, Rows!Time
<1> HIDE DEF k, w
<1>5. QED
  BY <1>1, <1>3, <1>4 DEF k

\* A query reads every row of its table at the time it was last stored.
LEMMA QueryRows ==
    ASSUME IInv, NEW s \in RowSources, RowsOnce(s), ReadSession(s) \/ ReadMessages(s)
    PROVE  RowsOnce(s)'
<1>1. PollTypeOK /\ s \in Sources /\ TableTypeOK /\ QueryInv(s)
  BY SourcesAssumption DEF IInv, Sources, SourceInv, ScanInv
<1>2. UNCHANGED <<table, seen, next, records, once, last>>
  BY DEF ReadSession, ReadMessages
<1>3. \A v : Known(v)' <=> Known(v)
  BY <1>2 DEF Known
<1>4. CASE ReadSession(s)
  <2> DEFINE row == <<0, 1, table[SessionKey]>>
  <2>1. phase'[s] = "session" /\ scan'[s] = {row}
    BY <1>1, <1>4 DEF ReadSession, PollTypeOK
  <2>2. Rows!Key(row) = SessionKey /\ Rows!Time(row) = table[SessionKey]
    BY DEF Rows!Key, Rows!Time, SessionKey
  <2>3. SessionKey \in DOMAIN table /\ table[SessionKey] \in Nat
    BY <1>1, RowsAssumption DEF TableTypeOK
  <2> HIDE DEF row
  <2>4. Known(row)
    BY <2>2, <2>3 DEF Known
  <2>5. ASSUME NEW v \in once[s], v[1] = 0
        PROVE  Rows!Key(row) = Rows!Key(v) /\ Rows!Time(v) <= Rows!Time(row)
    <3>1. Known(v) /\ v \in RowVersions
      BY DEF RowsOnce
    <3>2. Rows!Key(v) = SessionKey
      <4>1. Rows!Key(v) \in RowIds \cup {SessionKey} /\ Rows!Key(v)[1] = 0
        BY <2>5, <3>1, VersionFacts DEF Rows!Key
      <4>2. QED
        BY <4>1, RowsAssumption
    <3>3. QED
      BY <2>2, <3>1, <3>2 DEF Known
  <2>6. ReadAgain(s, {0})'
    BY <1>2, <1>3, <2>1, <2>4, <2>5 DEF ReadAgain
  <2>7. QED
    BY <1>2, <1>3, <2>1, <2>6 DEF RowsOnce, ReadyPhases
<1>5. CASE ReadMessages(s)
  <2>1. phase[s] = "session" /\ phase'[s] = "messages" /\ scan'[s] = scan[s] \cup VersionsOf(1)
    BY <1>1, <1>5 DEF ReadMessages, PollTypeOK
  <2>2. ReadAgain(s, {0})
    BY <2>1 DEF RowsOnce
  <2>3. \A v \in VersionsOf(1) : Known(v)
    <3>1. \A v \in Versions : Known(v)
      BY <1>1, StoredIsKnown
    <3>2. QED
      BY <3>1 DEF VersionsOf
  <2>4. ASSUME NEW v \in once[s], v[1] = 1
        PROVE  \E w \in VersionsOf(1) : Rows!Key(w) = Rows!Key(v) /\ Rows!Time(v) <= Rows!Time(w)
    <3>1. Known(v) /\ v \in RowVersions
      BY DEF RowsOnce
    <3>2. QED
      BY <1>1, <2>4, <3>1, KnownIsStored
  <2>5. ReadAgain(s, {0, 1})'
    BY <1>2, <1>3, <2>1, <2>2, <2>3, <2>4 DEF ReadAgain
  <2>6. QED
    BY <1>2, <1>3, <2>1, <2>5 DEF RowsOnce, ReadyPhases
<1>6. QED
  BY <1>4, <1>5

RankedKey(k) == k[1] \in Int /\ k[2] \in Int

LEMMA KeysOrdered ==
    ASSUME NEW a, NEW b, NEW c, RankedKey(a), RankedKey(b), RankedKey(c)
    PROVE  /\ ~ Rows!KeyBefore(a, a)
           /\ Rows!KeyBefore(a, b) => ~ Rows!KeyBefore(b, a)
           /\ Rows!KeyBefore(a, b) /\ Rows!KeyBefore(b, c) => Rows!KeyBefore(a, c)
BY DEF RankedKey, Rows!KeyBefore

\* The latest time that a poll read, and the last row that it yields.
LEMMA AdvancedFacts ==
    ASSUME NEW read \in SUBSET RowVersions, IsFiniteSet(read), NEW session \in read,
           NEW c, c.time \in 0..MaxTime, NEW fresh \in SUBSET read
    PROVE  /\ Rows!Advanced(c, session, read, fresh).time \in 0..MaxTime
           /\ c.time <= Rows!Advanced(c, session, read, fresh).time
           /\ \A v \in read : Rows!Time(v) <= Rows!Advanced(c, session, read, fresh).time
           /\ fresh = {} => Rows!Advanced(c, session, read, fresh).key = c.key
           /\ fresh # {} => \E v \in fresh :
                 /\ Rows!Advanced(c, session, read, fresh).key = Rows!Key(v)
                 /\ \A w \in fresh : w = v \/ Rows!Precedes(w, v)
<1> DEFINE advanced == Rows!Advanced(c, session, read, fresh)
           times == {Rows!Time(v) : v \in read} \cup {Rows!Time(session), c.time}
           latest == CHOOSE v \in fresh : \A w \in fresh : w = v \/ Rows!Precedes(w, v)
<1>1. \A v \in read : Rows!Time(v) \in 0..MaxTime
  BY VersionFacts, RowsAssumption
<1>2. times \in SUBSET (0..MaxTime) /\ times # {}
  BY <1>1
<1>3. /\ advanced.time = Rows!Max(times)
      /\ advanced.key = IF fresh = {} THEN c.key ELSE Rows!Key(latest)
  BY DEF Rows!Advanced
<1>4. Rows!Max(times) \in times /\ \A t \in times : t <= Rows!Max(times)
  <2>1. Rows!Max(times) = Max(times)
    BY DEF Max, Rows!Max
  <2>2. Max(times) \in times /\ \A t \in times : t <= Max(times)
    <3> HIDE DEF times
    <3>1. QED
      BY <1>2, MaxIsMember, RowsAssumption
  <2>3. QED
    BY <2>1, <2>2
<1>5. fresh # {} => latest \in fresh /\ \A w \in fresh : w = latest \/ Rows!Precedes(w, latest)
  <2> SUFFICES ASSUME fresh # {}
               PROVE  latest \in fresh /\ \A w \in fresh : w = latest \/ Rows!Precedes(w, latest)
    OBVIOUS
  <2>1. fresh \in SUBSET RowVersions /\ IsFiniteSet(fresh)
    BY FS_Subset
  <2>2. \E v \in fresh : IsLatest(v, fresh)
    BY <2>1, LatestExists
  <2>3. QED
    BY <2>2 DEF IsLatest
<1>6. \A v \in read : Rows!Time(v) \in times
  OBVIOUS
<1>7. c.time \in times
  OBVIOUS
<1> HIDE DEF advanced, times, latest
<1>8. /\ advanced.time \in 0..MaxTime /\ c.time <= advanced.time
      /\ \A v \in read : Rows!Time(v) <= advanced.time
  BY <1>2, <1>3, <1>4, <1>6, <1>7
<1>9. /\ fresh = {} => advanced.key = c.key
      /\ fresh # {} => \E v \in fresh :
            /\ advanced.key = Rows!Key(v)
            /\ \A w \in fresh : w = v \/ Rows!Precedes(w, v)
  BY <1>3, <1>5
<1>10. QED
  BY <1>8, <1>9 DEF advanced

\* What a poll yields is left by its cursor, and so is what it read again without
\* yielding it.
LEMMA ReadIsLeft ==
    ASSUME NEW read \in SUBSET RowVersions, IsFiniteSet(read), NEW session \in read,
           NEW c, c.time \in 0..MaxTime, RankedKey(c.key),
           NEW v \in read
    PROVE  Left(Rows!Advanced(c, session, read, Rows!Fresh(c, session, read)), v)
<1> DEFINE fresh == Rows!Fresh(c, session, read)
           n == Rows!Advanced(c, session, read, fresh)
           mark == Rows!Watermark(c, session)
<1>1. fresh \in SUBSET read
  BY DEF Rows!Fresh
<1>2. \A w \in read : Rows!Time(w) \in 1..MaxTime /\ RankedKey(Rows!Key(w))
  BY VersionFacts, RowsAssumption DEF RankedKey
<1>3. \A w \in read : w \in fresh <=>
         \/ Rows!Time(w) > mark
         \/ Rows!Time(w) = mark /\ Rows!KeyBefore(c.key, Rows!Key(w))
  BY DEF Rows!Fresh
<1>4. mark \in {0, c.time}
  BY DEF Rows!Watermark
<1>5. /\ n.time \in 0..MaxTime /\ c.time <= n.time
      /\ \A w \in read : Rows!Time(w) <= n.time
      /\ fresh = {} => n.key = c.key
      /\ fresh # {} => \E l \in fresh :
            n.key = Rows!Key(l) /\ \A w \in fresh : w = l \/ Rows!Precedes(w, l)
  <2> HIDE DEF fresh
  <2> QED
    BY <1>1, AdvancedFacts
<1> HIDE DEF fresh, n, mark
<1>6. ASSUME Rows!Time(v) = n.time
      PROVE  \/ ~ Rows!KeyBefore(n.key, Rows!Key(v))
             \/ Rows!SortsBefore(Rows!Key(v), n.key)
  <2>1. CASE v \in fresh
    <3>1. PICK l \in fresh : n.key = Rows!Key(l) /\ (v = l \/ Rows!Precedes(v, l))
      BY <1>5, <2>1
    <3>2. Rows!Time(l) \in 1..MaxTime /\ Rows!Time(l) <= n.time /\ RankedKey(Rows!Key(l))
      BY <1>1, <1>2, <1>5
    <3>3. Rows!Time(v) \in 1..MaxTime /\ RankedKey(Rows!Key(v))
      BY <1>2
    <3>4. v = l \/ Rows!SortsBefore(Rows!Key(v), Rows!Key(l))
      BY <1>6, <3>1, <3>2, <3>3, RowsAssumption DEF Rows!Precedes
    <3>5. QED
      BY <3>1, <3>2, <3>3, <3>4, KeysOrdered
  <2>2. CASE v \notin fresh
    <3>1. Rows!Time(v) \in 1..MaxTime /\ RankedKey(Rows!Key(v)) /\ Rows!Time(v) = n.time
      BY <1>2, <1>6
    <3>2. /\ mark = n.time /\ mark = c.time
          /\ ~ Rows!KeyBefore(c.key, Rows!Key(v))
      <4> DEFINE t == Rows!Time(v)
      <4>1. t \in 1..MaxTime /\ t = n.time /\ c.time <= t /\ mark \in {0, c.time}
        BY <1>4, <1>5, <3>1
      <4>2. ~ (t > mark) /\ ~ (t = mark /\ Rows!KeyBefore(c.key, Rows!Key(v)))
        BY <1>3, <2>2
      <4> HIDE DEF t
      <4>3. t = mark /\ mark = c.time
        BY <4>1, <4>2, RowsAssumption
      <4>4. QED
        BY <4>1, <4>2, <4>3
    <3>3. CASE fresh = {}
      BY <1>5, <3>2, <3>3
    <3>4. CASE fresh # {}
      <4>1. PICK l \in fresh : n.key = Rows!Key(l)
        BY <1>5, <3>4
      <4>2. /\ Rows!Time(l) \in 1..MaxTime /\ Rows!Time(l) <= n.time /\ RankedKey(Rows!Key(l))
            /\ (Rows!Time(l) > mark \/ (Rows!Time(l) = mark /\ Rows!KeyBefore(c.key, Rows!Key(l))))
        BY <1>1, <1>2, <1>3, <1>5
      <4>3. Rows!KeyBefore(c.key, Rows!Key(l))
        <5> DEFINE t == Rows!Time(l)
        <5>1. t \in 1..MaxTime /\ t <= mark /\ mark \in 0..MaxTime
              /\ (t > mark \/ (t = mark /\ Rows!KeyBefore(c.key, Rows!Key(l))))
          BY <1>5, <3>2, <4>2
        <5> HIDE DEF t
        <5>2. QED
          BY <5>1, RowsAssumption
      <4>4. QED
        BY <3>1, <3>2, <4>1, <4>2, <4>3, KeysOrdered
    <3>5. QED
      BY <3>3, <3>4
  <2>3. QED
    BY <2>1, <2>2
<1>7. Rows!Time(v) < n.time \/ Rows!Time(v) = n.time
  <2>1. Rows!Time(v) \in 1..MaxTime /\ Rows!Time(v) <= n.time /\ n.time \in 0..MaxTime
    BY <1>2, <1>5
  <2>2. QED
    BY <2>1, RowsAssumption
<1>8. Left(n, v)
  BY <1>6, <1>7 DEF Left, Rows!Behind, Rows!Misplaced
<1>9. QED
  BY <1>8 DEF n, fresh

LEMMA LeftEarlier ==
    ASSUME NEW c, c.time \in Nat, NEW v \in RowVersions, NEW w \in RowVersions,
           Rows!Key(w) = Rows!Key(v), Rows!Time(v) <= Rows!Time(w), Left(c, w)
    PROVE  Left(c, v)
<1>1. Rows!Time(v) \in Nat /\ Rows!Time(w) \in Nat
  BY VersionFacts, RowsAssumption
<1>2. CASE Rows!Time(v) < Rows!Time(w)
  <2>1. Rows!Time(w) <= c.time
    BY <1>1 DEF Left, Rows!Behind, Rows!Misplaced
  <2>2. Rows!Time(v) < c.time
    BY <1>1, <1>2, <2>1
  <2>3. QED
    BY <2>2 DEF Left, Rows!Behind
<1>3. CASE Rows!Time(v) = Rows!Time(w)
  BY <1>3 DEF Left, Rows!Behind, Rows!Misplaced
<1>4. QED
  BY <1>1, <1>2, <1>3

\* What was handed over before is left by the next cursor, and is not yielded again
\* by a poll that starts where the last one ended, unless it is misplaced.
LEMMA ReadPartsRows ==
    ASSUME IInv, NEW s \in RowSources, RowsOnce(s), ReadParts(s)
    PROVE  RowsOnce(s)'
<1> DEFINE read == scan[s] \cup VersionsOf(2)
           fresh == Rows!Fresh(Own(s), SessionRead(s), read)
           advanced == Rows!Advanced(Own(s), SessionRead(s), read, fresh)
<1>1. /\ PollTypeOK /\ s \in Sources /\ s \notin JsonlSources /\ TableTypeOK
      /\ SourceInv(s) /\ QueryInv(s)
  BY SourcesAssumption DEF IInv, Sources, SourceInv, ScanInv
<1>2. /\ UNCHANGED <<table, seen, scan, once, last>>
      /\ phase[s] = "messages" /\ phase'[s] = "read"
      /\ records'[s] = fresh /\ next'[s] = advanced
  <2>1. /\ records' = [records EXCEPT ![s] = fresh]
        /\ next' = [next EXCEPT ![s] = advanced]
        /\ phase[s] = "messages" /\ phase' = [phase EXCEPT ![s] = "read"]
        /\ UNCHANGED <<table, seen, scan, once, last>>
    BY DEF ReadParts
  <2> HIDE DEF fresh, advanced
  <2>2. QED
    BY <1>1, <2>1 DEF PollTypeOK
<1>3. ReadSoFar(s, {0, 1}) /\ ReadAgain(s, {0, 1})
  BY <1>1, <1>2 DEF QueryInv, RowsOnce
<1>4. read \in SUBSET RowVersions /\ IsFiniteSet(read) /\ VersionsOf(2) \subseteq Versions
  <2>1. Versions \subseteq RowVersions /\ IsFiniteSet(Versions) /\ VersionsOf(2) \subseteq Versions
    BY <1>1, StoredVersions DEF VersionsOf
  <2>2. QED
    BY <1>3, <2>1, FS_Subset, FS_Union DEF ReadSoFar
<1>5. SessionRead(s) \in read
  BY <1>3 DEF ReadSoFar, SessionRead
<1>6. Own(s).time \in 0..MaxTime /\ RankedKey(Own(s).key)
  <2>1. IsCursor(s, Own(s))
    BY <1>1 DEF SourceInv, SeenInv, Sound, SoundAt, Own
  <2>2. Own(s).time \in 0..MaxTime /\ Own(s).key \in RowIds \cup {SessionKey, Rows!NoKey}
    BY <1>1, <2>1 DEF IsCursor
  <2>3. \A k \in RowIds \cup {SessionKey, Rows!NoKey} : RankedKey(k)
    BY RowsAssumption DEF RankedKey, SessionKey, Rows!NoKey
  <2>4. QED
    BY <2>2, <2>3
<1>7. fresh \in SUBSET read
  BY DEF Rows!Fresh
<1>8. \A v \in read : Left(advanced, v)
  <2> HIDE DEF read
  <2> QED
    BY <1>4, <1>5, <1>6, ReadIsLeft
<1>9. advanced.time \in Nat
  <2> HIDE DEF read, fresh
  <2>1. advanced.time \in 0..MaxTime
    BY <1>4, <1>5, <1>6, <1>7, AdvancedFacts
  <2>2. QED
    BY <2>1, RowsAssumption
<1>10. \A v \in read : Known(v)
  BY <1>1, <1>3, <1>4, StoredIsKnown DEF ReadAgain
<1>11. ASSUME NEW v \in once[s]
       PROVE  \E w \in read : Rows!Key(w) = Rows!Key(v) /\ Rows!Time(v) <= Rows!Time(w)
  <2>1. v \in RowVersions /\ Known(v) /\ v[1] \in {0, 1, 2}
    BY VersionFacts DEF RowsOnce
  <2>2. CASE v[1] = 2
    BY <1>1, <2>1, <2>2, KnownIsStored
  <2>3. CASE v[1] \in {0, 1}
    BY <1>3, <2>3 DEF ReadAgain
  <2>4. QED
    BY <2>1, <2>2, <2>3
<1> HIDE DEF read, advanced
<1>12. \A v \in once[s] \cup fresh : Left(advanced, v)
  <2>1. ASSUME NEW v \in once[s] PROVE Left(advanced, v)
    <3>1. v \in RowVersions
      BY DEF RowsOnce
    <3>2. PICK w \in read : Rows!Key(w) = Rows!Key(v) /\ Rows!Time(v) <= Rows!Time(w)
      BY <1>11
    <3>3. QED
      BY <1>4, <1>8, <1>9, <3>1, <3>2, LeftEarlier
  <2> HIDE DEF fresh
  <2>2. QED
    BY <1>7, <1>8, <2>1
<1>13. ASSUME Own(s) = last[s], ~ Rows!Replays(Own(s), SessionRead(s))
       PROVE  \A v \in fresh \cap once[s] : Rows!Misplaced(Own(s), v)
  <2> SUFFICES ASSUME NEW v \in fresh, v \in once[s] PROVE Rows!Misplaced(Own(s), v)
    OBVIOUS
  <2> DEFINE c == Own(s)
             t == Rows!Time(v)
  <2>1. t \in Nat /\ c.time \in Nat
    <3>1. v \in RowVersions
      BY DEF RowsOnce
    <3>2. QED
      BY <1>6, <3>1, VersionFacts, RowsAssumption
  <2>2. Left(c, v)
    BY <1>13 DEF RowsOnce
  <2>3. t > c.time \/ (t = c.time /\ Rows!KeyBefore(c.key, Rows!Key(v)))
    BY <1>13 DEF Rows!Fresh, Rows!Watermark
  <2>4. \/ t < c.time \/ (t = c.time /\ ~ Rows!KeyBefore(c.key, Rows!Key(v)))
        \/ Rows!Misplaced(c, v)
    BY <2>2 DEF Left, Rows!Behind
  <2> HIDE DEF c, t
  <2>5. Rows!Misplaced(c, v)
    BY <2>1, <2>3, <2>4
  <2>6. QED
    BY <2>5 DEF c
<1> HIDE DEF fresh
<1>14. \A v : Known(v)' <=> Known(v)
  BY <1>2 DEF Known
<1>15. Own(s)' = Own(s) /\ SessionRead(s)' = SessionRead(s)
  BY <1>2 DEF Own, Cursor, SessionRead
<1>16. once[s] \cup fresh \subseteq RowVersions /\ \A v \in once[s] \cup fresh : Known(v)
  BY <1>4, <1>7, <1>10 DEF RowsOnce
<1>17. QED
  BY <1>2, <1>12, <1>13, <1>14, <1>15, <1>16 DEF RowsOnce, ReadyPhases

----------------------------------------------------------------------------
(* Nothing is repeated without a reason *)

LEMMA InitRepeat == Init => RepeatInv
<1> SUFFICES ASSUME Init PROVE RepeatInv
  OBVIOUS
<1>1. ClockInv
  BY DEF Init, ClockInv
<1>2. ASSUME NEW s \in Sources PROVE OnceInv(s)
  <2>1. /\ phase[s] = "idle" /\ once[s] = {} /\ records[s] = {} /\ last[s] = FirstCursor(s)
    BY DEF Init
  <2>2. IsCursor(s, last[s])
    BY <2>1, InitInv, FirstCursorSound DEF Sound, SoundAt
  <2>3. s \in JsonlSources => LinesOnce(s)
    BY <2>1 DEF LinesOnce, StartBy, EndBy, Told, ReadyPhases
  <2>4. s \in RowSources => RowsOnce(s)
    BY <2>1 DEF RowsOnce, ReadyPhases
  <2>5. QED
    BY <2>2, <2>3, <2>4 DEF OnceInv
<1>3. QED
  BY <1>1, <1>2 DEF RepeatInv

LEMMA ClockStep == IInv /\ ClockInv /\ [Next]_vars => ClockInv'
<1> SUFFICES ASSUME IInv, ClockInv, [Next]_vars PROVE ClockInv'
  OBVIOUS
<1>1. TableTypeOK
  BY DEF IInv
<1>2. CASE \E k : UpdateRow(k)
  BY <1>1, <1>2, RowsAssumption DEF UpdateRow, ClockInv, TableTypeOK
<1>3. CASE Tick
  BY <1>1, <1>3, RowsAssumption DEF Tick, ClockInv, TableTypeOK
<1>4. CASE UNCHANGED <<table, clock>>
  BY <1>4 DEF ClockInv
<1>5. ASSUME NEW s, Step(s) \/ Crash(s) PROVE UNCHANGED <<table, clock>>
  <2>1. ASSUME ReadText(s) \/ ReadBoundary(s) PROVE UNCHANGED <<table, clock>>
    BY <2>1 DEF ReadText, ReadBoundary, Decode
  <2>2. ASSUME Stat(s) \/ Sample(s) \/ ReadSession(s) \/ ReadMessages(s) \/ ReadParts(s)
        PROVE  UNCHANGED <<table, clock>>
    BY <2>2 DEF Stat, Sample, ReadSession, ReadMessages, ReadParts
  <2>3. ASSUME Load(s) \/ Truncate(s) \/ Write(s) \/ HandOver(s) \/ WatchAgain(s) \/ Crash(s)
        PROVE  UNCHANGED <<table, clock>>
    BY <2>3 DEF Load, Truncate, Write, HandOver, WatchAgain, Crash
  <2>4. QED
    BY <1>5, <2>1, <2>2, <2>3 DEF Step
<1>6. ASSUME NEW s, AppendBytes(s) \/ Rewrite(s) PROVE UNCHANGED <<table, clock>>
  BY <1>6 DEF AppendBytes, Rewrite
<1>7. CASE UNCHANGED vars
  BY <1>4, <1>7 DEF vars
<1>8. QED
  BY <1>2, <1>3, <1>4, <1>5, <1>6, <1>7 DEF Next, Agents

\* The last cursor is one that a poll was to save.
LEMMA LastCursorStep ==
    ASSUME IInv, [Next]_vars, NEW r \in Sources, IsCursor(r, last[r])
    PROVE  IsCursor(r, last'[r])
<1>1. PollTypeOK /\ IsCursor(r, next[r])
  BY DEF IInv, SourceInv, NextInv, Sound, SoundAt
<1>2. last'[r] \in {last[r], next[r]}
  <2>1. ASSUME NEW s, Step(s) \/ Crash(s) PROVE last'[r] \in {last[r], next[r]}
    <3>1. ASSUME ReadText(s) \/ ReadBoundary(s) PROVE last' = last
      BY <3>1 DEF ReadText, ReadBoundary, Decode
    <3>2. ASSUME Stat(s) \/ Sample(s) \/ ReadSession(s) \/ ReadMessages(s) \/ ReadParts(s)
          PROVE  last' = last
      BY <3>2 DEF Stat, Sample, ReadSession, ReadMessages, ReadParts
    <3>3. ASSUME Load(s) \/ Truncate(s) \/ Write(s) \/ WatchAgain(s) \/ Crash(s)
          PROVE  last' = last
      BY <3>3 DEF Load, Truncate, Write, WatchAgain, Crash
    <3>4. ASSUME HandOver(s) PROVE last'[r] \in {last[r], next[r]}
      BY <1>1, <3>4 DEF HandOver, PollTypeOK
    <3>5. QED
      BY <2>1, <3>1, <3>2, <3>3, <3>4 DEF Step
  <2>2. ASSUME Agents PROVE last' = last
    BY <2>2 DEF Agents, AppendBytes, Rewrite, Tick, UpdateRow
  <2>3. ASSUME UNCHANGED vars PROVE last' = last
    BY <2>3 DEF vars
  <2>4. QED
    BY <2>1, <2>2, <2>3 DEF Next
<1>3. QED
  BY <1>1, <1>2

LEMMA RepeatStep == IInv /\ RepeatInv /\ [Next]_vars => RepeatInv'
<1> SUFFICES ASSUME IInv, RepeatInv, [Next]_vars PROVE RepeatInv'
  OBVIOUS
<1>1. ClockInv /\ ClockInv'
  BY ClockStep DEF RepeatInv
<1>2. ASSUME NEW r \in Sources PROVE OnceInv(r)'
  <2>1. OnceInv(r) /\ PollTypeOK /\ watching \subseteq Sources
    BY SourcesAssumption DEF RepeatInv, IInv, PollTypeOK
  <2>2. IsCursor(r, last[r]) /\ IsCursor(r, last'[r])
    BY <2>1, LastCursorStep DEF OnceInv
  <2>3. r \in JsonlSources => last[r].offset \in Nat
    BY <2>2, ReachBounds DEF IsCursor
  <2>4. ASSUME NEW s \in Sources, Step(s) \/ Crash(s) PROVE OnceInv(r)'
    <3>1. CASE s # r
      BY <2>1, <2>4, <3>1, OthersOnce
    <3>2. ASSUME s = r, r \in JsonlSources PROVE LinesOnce(r)'
      <4>1. LinesOnce(r) /\ r \notin RowSources
        BY <2>1, <3>2, SourcesAssumption DEF OnceInv
      <4>2. CASE Load(r) \/ Truncate(r) \/ Write(r) \/ WatchAgain(r) \/ Crash(r)
        BY <3>2, <4>1, <4>2, OwnLinesQuiet
      <4>3. CASE HandOver(r)
        BY <3>2, <4>1, <4>3, HandOverLines
      <4>4. CASE Stat(r) \/ Sample(r)
        BY <2>3, <3>2, <4>1, <4>4, StatLines, SampleLines
      <4>5. CASE ReadText(r) \/ ReadBoundary(r)
        BY <2>3, <3>2, <4>1, <4>5, ReadTextLines, ReadBoundaryLines
      <4>6. QED
        BY <2>4, <3>2, <4>1, <4>2, <4>3, <4>4, <4>5 DEF Step
    <3>3. ASSUME s = r, r \in RowSources PROVE RowsOnce(r)'
      <4>1. RowsOnce(r) /\ r \notin JsonlSources
        BY <2>1, <3>3, SourcesAssumption DEF OnceInv
      <4>2. CASE Load(r) \/ Truncate(r) \/ Write(r) \/ WatchAgain(r) \/ Crash(r)
        BY <3>3, <4>1, <4>2, OwnRowsQuiet
      <4>3. CASE HandOver(r)
        BY <3>3, <4>1, <4>3, HandOverRows
      <4>4. CASE ReadSession(r) \/ ReadMessages(r) \/ ReadParts(r)
        BY <3>3, <4>1, <4>4, QueryRows, ReadPartsRows
      <4>5. QED
        BY <2>4, <3>3, <4>1, <4>2, <4>3, <4>4 DEF Step
    <3>4. QED
      BY <2>2, <3>1, <3>2, <3>3 DEF OnceInv
  <2>5. ASSUME NEW s \in JsonlSources, AppendBytes(s) \/ Rewrite(s) PROVE OnceInv(r)'
    <3>1. s \in Sources /\ s \notin RowSources
      BY SourcesAssumption DEF Sources
    <3>2. CASE s # r
      BY <2>1, <2>5, <3>1, <3>2, OthersOnce
    <3>3. ASSUME s = r PROVE LinesOnce(r)'
      <4>1. LinesOnce(r)
        BY <2>1, <3>3 DEF OnceInv
      <4>2. QED
        BY <2>3, <2>5, <3>3, <4>1, AppendLines, RewriteLines
    <3>4. QED
      BY <2>2, <3>1, <3>2, <3>3 DEF OnceInv
  <2>6. ASSUME NEW k, UpdateRow(k) PROVE OnceInv(r)'
    <3>1. CASE r \in RowSources
      <4>1. RowsOnce(r)'
        BY <1>1, <2>1, <2>6, <3>1, UpdateRows DEF OnceInv
      <4>2. QED
        BY <2>2, <3>1, <4>1, SourcesAssumption DEF OnceInv
    <3>2. CASE r \notin RowSources
      <4>1. Same(r)
        BY <2>6, <3>2 DEF UpdateRow, pollVars, Same
      <4>2. QED
        BY <2>1, <4>1, SameOnce
    <3>3. QED
      BY <3>1, <3>2
  <2>7. CASE Tick \/ UNCHANGED vars
    <3>1. Same(r)
      BY <2>7 DEF Tick, vars, pollVars, Same
    <3>2. QED
      BY <2>1, <3>1, SameOnce
  <2>8. QED
    BY <2>1, <2>4, <2>5, <2>6, <2>7 DEF Next, Agents
<1>3. QED
  BY <1>1, <1>2 DEF RepeatInv

\* ingestSource yields a record a second time only in a poll that did not start
\* where the last one ended, that found its file rewritten or shorter, or whose
\* session is older than its cursor; but for records that an agent wrote twice, those
\* that come after a character of several bytes (append-only.ts counts it as one),
\* and rows that opencode.ts sorts before the cursor's and filters behind it.  For
\* any sources that share the checkpoint file, any appends, rewrites and changes of
\* rows between two accesses, any locale, and any deaths.
THEOREM RepeatsAreExplained == Spec => RepeatsExplained
<1> DEFINE Explained(s, r) ==
              \/ StartedElsewhere(s) \/ StartedOver(s)
              \/ s \in JsonlSources /\ (WrittenTwice(s, r) \/ ComesAfterWide(s, r))
              \/ s \in RowSources /\ Rows!Misplaced(Own(s), r)
           NoRepeat == \A s \in Sources :
              phase[s] = "saved" /\ phase'[s] = "idle" =>
                  \A r \in records[s] \cap once[s] : Explained(s, r)
<1>1. RepeatInv => NoRepeat
  <2> SUFFICES ASSUME RepeatInv, NEW s \in Sources, phase[s] = "saved",
                      NEW r \in records[s] \cap once[s], Own(s) = last[s], ~ StartedOver(s)
               PROVE  \/ s \in JsonlSources /\ (WrittenTwice(s, r) \/ ComesAfterWide(s, r))
                      \/ s \in RowSources /\ Rows!Misplaced(Own(s), r)
    BY DEF StartedElsewhere
  <2>1. OnceInv(s) /\ phase[s] \in ReadyPhases
    BY DEF RepeatInv, ReadyPhases
  <2>2. CASE s \in JsonlSources
    <3>1. records[s] \cap Told(s, once[s]) = {}
      BY <2>1, <2>2 DEF OnceInv, LinesOnce
    <3>2. r \notin Told(s, once[s])
      BY <3>1
    <3>3. QED
      BY <2>2, <3>2 DEF Told
  <2>3. CASE s \in RowSources
    <3>1. ~ Rows!Replays(Own(s), SessionRead(s))
      BY <2>3 DEF StartedOver
    <3>2. QED
      BY <2>1, <2>3, <3>1 DEF OnceInv, RowsOnce
  <2>4. QED
    BY <2>2, <2>3 DEF Sources
<1>2. RepeatInv => [NoRepeat]_vars
  BY <1>1
<1>3. Spec => []RepeatInv
  BY InitRepeat, RepeatStep, InitInv, InvStep, PTL DEF Spec
<1> HIDE DEF NoRepeat
<1>4. Spec => [][NoRepeat]_vars
  BY <1>2, <1>3, PTL
<1>5. QED
  BY <1>4 DEF RepeatsExplained, NoRepeat
==============================================================================
