---------------------------- MODULE InductionLemmas ----------------------------
(***************************************************************************)
(* Induction on numbers, stated for sets of them (the property of a number *)
(* is to be in the set), the functions it defines, and with them what the  *)
(* library's FlattenSeq makes of a sequence of sequences.                  *)
(***************************************************************************)
EXTENDS Integers, Sequences, SequencesExt, WellFoundedInduction, TLAPS

\* A set of numbers has a least one.
LEMMA LeastNumber ==
    ASSUME NEW T \in SUBSET Nat, T # {}
    PROVE  \E x \in T : \A y \in T : x <= y
<1> DEFINE R == {p \in Nat \X Nat : p[1] < p[2]}
<1>1. IsWellFoundedOn(R, Nat)
  BY NatLessThanWellFounded DEF OpToRel
<1>2. PICK x \in T : \A y \in T : ~ (<<y, x>> \in R)
  <2> HIDE DEF R
  <2> QED
    BY <1>1, WFMin
<1>3. \A y \in T : ~ (y < x)
  BY <1>2
<1>4. QED
  BY <1>3

\* Induction up to a bound.
LEMMA BoundedInduction ==
    ASSUME NEW n \in Nat, NEW S, 0 \in S,
           \A k \in 0..(n - 1) : k \in S => k + 1 \in S
    PROVE  0..n \subseteq S
<1> DEFINE T == {k \in 0..n : k \notin S}
<1> SUFFICES ASSUME T # {} PROVE FALSE
  OBVIOUS
<1>0. T \in SUBSET Nat
  OBVIOUS
<1>1. PICK x \in T : \A y \in T : x <= y
  <2> HIDE DEF T
  <2> QED
    BY <1>0, LeastNumber
<1>2. x \in 1..n /\ x - 1 \notin T
  BY <1>1
<1>3. x - 1 \in S
  BY <1>2
<1>4. QED
  BY <1>1, <1>2, <1>3

\* A function of the numbers up to n that is defined step by step.
IsStepwise(f, n, T, base, step) ==
    /\ f \in [0..n -> T]
    /\ f[0] = base
    /\ \A i \in 1..n : f[i] = step[<<f[i - 1], i>>]

\* There is one: step is the function that
\* takes a value and the number of the next one to the next value.
LEMMA StepwiseFunction ==
    ASSUME NEW n \in Nat, NEW T, NEW base \in T, NEW step,
           \A t \in T : \A i \in 1..n : step[<<t, i>>] \in T
    PROVE  \E f : IsStepwise(f, n, T, base, step)
<1> DEFINE Upto(f, k) == f \in [0..k -> T] /\ f[0] = base
                         /\ \A i \in 1..k : f[i] = step[<<f[i - 1], i>>]
           S == {k \in 0..n : \E f : Upto(f, k)}
<1>1. 0 \in S
  <2>1. Upto([i \in 0..0 |-> base], 0)
    OBVIOUS
  <2>2. \E f : Upto(f, 0)
    <3> HIDE DEF Upto
    <3> QED
      BY <2>1
  <2>3. QED
    BY <2>2
<1>2. ASSUME NEW k \in 0..(n - 1), k \in S PROVE k + 1 \in S
  <2>1. PICK f : Upto(f, k)
    BY <1>2
  <2> DEFINE g == [i \in 0..(k + 1) |-> IF i = k + 1 THEN step[<<f[k], k + 1>>] ELSE f[i]]
  <2>2. f[k] \in T /\ step[<<f[k], k + 1>>] \in T
    BY <2>1
  <2>3. g \in [0..(k + 1) -> T]
    BY <2>1, <2>2
  <2>4. g[0] = base
    BY <2>1
  <2>5. ASSUME NEW i \in 1..(k + 1) PROVE g[i] = step[<<g[i - 1], i>>]
    <3>1. CASE i = k + 1
      <4>1. i \in 0..(k + 1) /\ k \in 0..(k + 1) /\ k # k + 1 /\ i - 1 = k
        BY <3>1
      <4>2. g[i] = step[<<f[k], k + 1>>] /\ g[k] = f[k]
        BY <3>1, <4>1
      <4>3. QED
        BY <3>1, <4>1, <4>2
    <3>2. CASE i # k + 1
      <4>1. i \in 1..k /\ i \in 0..(k + 1) /\ i - 1 \in 0..(k + 1) /\ i - 1 # k + 1
        BY <3>2
      <4>2. g[i] = f[i] /\ g[i - 1] = f[i - 1]
        BY <4>1
      <4>3. QED
        BY <2>1, <4>1, <4>2
    <3>3. QED
      BY <3>1, <3>2
  <2>6. Upto(g, k + 1)
    BY <2>3, <2>4, <2>5
  <2>7. \E h : Upto(h, k + 1)
    <3> HIDE DEF Upto, g
    <3> QED
      BY <2>6
  <2>8. QED
    BY <2>7
<1>3. n \in S
  <2> HIDE DEF S
  <2> QED
    BY <1>1, <1>2, BoundedInduction
<1>4. QED
  BY <1>3 DEF IsStepwise

\* What each further sequence makes of the flattened ones before it.
IsFlattening(f, ss, S) ==
    /\ f \in [0..Len(ss) -> Seq(S)]
    /\ f[0] = <<>>
    /\ \A i \in 1..Len(ss) : f[i] = f[i - 1] \o ss[i]
    /\ FlattenSeq(ss) = f[Len(ss)]

\* FlattenSeq, step by step.
LEMMA FlattenUnfolds ==
    ASSUME NEW S, NEW ss \in Seq(Seq(S))
    PROVE  \E f : IsFlattening(f, ss, S)
<1> DEFINE n == Len(ss)
           step == [p \in Seq(S) \X (1..n) |-> p[1] \o ss[p[2]]]
           Flattens(g) == g = [i \in 1..n |-> IF i = 1 THEN ss[i] ELSE g[i - 1] \o ss[i]]
<1>1. n \in Nat
  OBVIOUS
<1>2. \A i \in 1..n : ss[i] \in Seq(S)
  OBVIOUS
<1>3. \A t \in Seq(S) : \A i \in 1..n : step[<<t, i>>] = t \o ss[i]
  OBVIOUS
<1>4. \A t \in Seq(S) : \A i \in 1..n : step[<<t, i>>] \in Seq(S)
  <2> SUFFICES ASSUME NEW t \in Seq(S), NEW i \in 1..n PROVE step[<<t, i>>] \in Seq(S)
    OBVIOUS
  <2>1. ss[i] \in Seq(S)
    BY <1>2
  <2>2. \A x, y \in Seq(S) : x \o y \in Seq(S)
    OBVIOUS
  <2>3. step[<<t, i>>] = t \o ss[i]
    BY <1>3
  <2> HIDE DEF step
  <2>4. QED
    BY <2>1, <2>2, <2>3
<1>5. <<>> \in Seq(S)
  OBVIOUS
<1>6. PICK f : IsStepwise(f, n, Seq(S), <<>>, step)
  <2> HIDE DEF step, n
  <2> QED
    BY <1>1, <1>4, <1>5, StepwiseFunction
<1>7. f \in [0..n -> Seq(S)] /\ f[0] = <<>>
  BY <1>6 DEF IsStepwise
<1>8. \A i \in 1..n : f[i] = f[i - 1] \o ss[i]
  <2> HIDE DEF step, n
  <2> SUFFICES ASSUME NEW i \in 1..n PROVE f[i] = f[i - 1] \o ss[i]
    OBVIOUS
  <2>1. i - 1 \in 0..n
    BY <1>1
  <2>2. QED
    BY <1>3, <1>6, <1>7, <2>1 DEF IsStepwise
<1> DEFINE g == [i \in 1..n |-> f[i]]
           h == CHOOSE h : Flattens(h)
<1>9. \A i \in 1..n : g[i] = IF i = 1 THEN ss[i] ELSE g[i - 1] \o ss[i]
  <2> SUFFICES ASSUME NEW i \in 1..n PROVE g[i] = IF i = 1 THEN ss[i] ELSE g[i - 1] \o ss[i]
    OBVIOUS
  <2>1. CASE i = 1
    <3>1. f[i] = f[i - 1] \o ss[i] /\ i - 1 = 0
      <4>1. f[i] = f[i - 1] \o ss[i]
        BY <1>8
      <4> HIDE DEF n
      <4>2. QED
        BY <2>1, <4>1
    <3>2. ss[i] \in Seq(S)
      BY <1>2
    <3>3. \A x \in Seq(S) : <<>> \o x = x
      OBVIOUS
    <3>4. g[i] = f[i]
      OBVIOUS
    <3> HIDE DEF g, n
    <3>5. QED
      BY <1>7, <2>1, <3>1, <3>2, <3>3, <3>4
  <2>2. CASE i # 1
    <3>1. i - 1 \in 1..n
      BY <2>2
    <3>2. g[i] = f[i] /\ g[i - 1] = f[i - 1]
      BY <3>1
    <3> HIDE DEF g, n
    <3>3. QED
      BY <1>8, <2>2, <3>2
  <2>3. QED
    BY <2>1, <2>2
<1>10. Flattens(g)
  <2> HIDE DEF n
  <2> QED
    BY <1>9
<1>11. Flattens(h)
  <2>1. \E x : Flattens(x)
    <3> HIDE DEF Flattens, g
    <3> QED
      BY <1>10
  <2> HIDE DEF Flattens
  <2> QED
    BY <2>1
<1> DEFINE E == {0} \cup {i \in 1..n : h[i] = f[i]}
<1>12. ASSUME NEW k \in 0..(n - 1), k \in E PROVE k + 1 \in E
  <2>1. k + 1 \in 1..n
    BY <1>1
  <2>2. h[k + 1] = IF k + 1 = 1 THEN ss[k + 1] ELSE h[k + 1 - 1] \o ss[k + 1]
    <3>1. ASSUME NEW x, Flattens(x)
          PROVE  x[k + 1] = IF k + 1 = 1 THEN ss[k + 1] ELSE x[k + 1 - 1] \o ss[k + 1]
      <4> DEFINE F == [i \in 1..n |-> IF i = 1 THEN ss[i] ELSE x[i - 1] \o ss[i]]
      <4>1. F[k + 1] = IF k + 1 = 1 THEN ss[k + 1] ELSE x[k + 1 - 1] \o ss[k + 1]
        BY <2>1
      <4>2. x = F
        BY <3>1
      <4> HIDE DEF F, Flattens
      <4>3. QED
        BY <4>1, <4>2
    <3> HIDE DEF h, Flattens
    <3> QED
      BY <1>11, <3>1
  <2>3. g[k + 1] = f[k + 1]
    BY <2>1
  <2>4. g[k + 1] = IF k + 1 = 1 THEN ss[k + 1] ELSE g[k + 1 - 1] \o ss[k + 1]
    <3> HIDE DEF g
    <3> QED
      BY <1>9, <2>1
  <2>5. CASE k = 0
    <3>1. h[k + 1] = f[k + 1]
      <4> HIDE DEF g, h, n
      <4> QED
        BY <2>2, <2>3, <2>4, <2>5
    <3> HIDE DEF g, h, n
    <3>2. QED
      BY <2>1, <3>1
  <2>6. CASE k # 0
    <3>1. k \in 1..n /\ k + 1 - 1 = k /\ h[k] = f[k] /\ g[k] = f[k]
      <4> HIDE DEF h
      <4> QED
        BY <1>12, <2>6
    <3>2. QED
      <4> HIDE DEF h, g
      <4> QED
        BY <2>1, <2>2, <2>3, <2>4, <2>6, <3>1
  <2>7. QED
    BY <2>5, <2>6
<1>13. n \in E
  <2> HIDE DEF h, n
  <2>1. 0 \in E
    OBVIOUS
  <2>2. 0..n \subseteq E
    <3> HIDE DEF E
    <3> QED
      BY <1>1, <1>12, <2>1, BoundedInduction, Zenon
  <2>3. QED
    BY <1>1, <2>2
<1>14. FlattenSeq(ss) = f[n]
  <2>1. CASE n = 0
    <3>1. FlattenSeq(ss) = <<>>
      BY <2>1 DEF FlattenSeq
    <3> HIDE DEF n
    <3>2. QED
      BY <1>7, <2>1, <3>1
  <2>2. CASE n # 0
    <3>1. FlattenSeq(ss) = h[n]
      BY <2>2 DEF FlattenSeq
    <3> HIDE DEF h
    <3>2. QED
      BY <1>1, <1>13, <2>2, <3>1
  <2>3. QED
    BY <2>1, <2>2
<1>15. QED
  BY <1>7, <1>8, <1>14 DEF IsFlattening

\* Where each of some sequences ends once they are put after one another.
IsLayout(off, ss) ==
    /\ off \in [0..Len(ss) -> Nat]
    /\ off[0] = 0
    /\ \A i \in 1..Len(ss) : off[i] = off[i - 1] + Len(ss[i])

LEMMA LayoutIsMonotone ==
    ASSUME NEW S, NEW ss \in Seq(Seq(S)), NEW off, IsLayout(off, ss),
           NEW k \in 0..Len(ss), NEW i \in 0..k
    PROVE  off[i] <= off[k]
<1> DEFINE n == Len(ss)
           E == {m \in 0..n : i <= m => off[i] <= off[m]}
<1>1. n \in Nat /\ off \in [0..n -> Nat] /\ i \in 0..n /\ k \in 0..n
  BY DEF IsLayout
<1>2. \A m \in 1..n : off[m] = off[m - 1] + Len(ss[m]) /\ Len(ss[m]) \in Nat
  BY DEF IsLayout
<1> HIDE DEF n
<1>3. 0 \in E
  BY <1>1
<1>4. ASSUME NEW m \in 0..(n - 1), m \in E PROVE m + 1 \in E
  <2>1. m + 1 \in 1..n /\ m + 1 - 1 = m /\ m \in 0..n /\ m + 1 \in 0..n
    BY <1>1
  <2>2. off[m + 1] = off[m] + Len(ss[m + 1]) /\ Len(ss[m + 1]) \in Nat
    BY <1>2, <2>1
  <2>3. off[m] \in Nat /\ off[i] \in Nat /\ off[m + 1] \in Nat
    BY <1>1, <2>1
  <2>4. QED
    BY <1>1, <1>4, <2>1, <2>2, <2>3, SMTT(40)
<1>5. 0..n \subseteq E
  <2> HIDE DEF E
  <2> QED
    BY <1>1, <1>3, <1>4, BoundedInduction, Zenon
<1>6. QED
  BY <1>1, <1>5

\* Every place is in one of the sequences.
LEMMA LayoutCovers ==
    ASSUME NEW S, NEW ss \in Seq(Seq(S)), NEW off, IsLayout(off, ss),
           NEW p \in 1..off[Len(ss)]
    PROVE  \E i \in 1..Len(ss) : off[i - 1] < p /\ p <= off[i]
<1> DEFINE n == Len(ss)
           E == {m \in 0..n : p <= off[m] => \E i \in 1..m : off[i - 1] < p /\ p <= off[i]}
<1>1. n \in Nat /\ off \in [0..n -> Nat] /\ off[0] = 0 /\ p \in 1..off[n]
  BY DEF IsLayout
<1> SUFFICES \E i \in 1..n : off[i - 1] < p /\ p <= off[i]
  OBVIOUS
<1> HIDE DEF n
<1>2. p \in Nat \ {0} /\ p <= off[n]
  BY <1>1
<1>3. 0 \in E
  BY <1>1, <1>2
<1>4. ASSUME NEW m \in 0..(n - 1), m \in E PROVE m + 1 \in E
  <2>1. m + 1 \in 1..n /\ m + 1 - 1 = m /\ m \in 0..n /\ m + 1 \in 0..n
    BY <1>1
  <2>2. off[m] \in Nat /\ off[m + 1] \in Nat
    BY <1>1, <2>1
  <2>3. CASE p <= off[m]
    BY <1>4, <2>1, <2>3
  <2>4. CASE off[m] < p
    BY <2>1, <2>4
  <2>5. QED
    BY <1>2, <2>2, <2>3, <2>4
<1>5. 0..n \subseteq E
  <2> HIDE DEF E
  <2> QED
    BY <1>1, <1>3, <1>4, BoundedInduction, Zenon
<1>6. QED
  BY <1>1, <1>2, <1>5

\* What a flattened sequence holds at each place.
IsLaidOut(t, off, ss, S) ==
    /\ t \in Seq(S)
    /\ Len(t) = off[Len(ss)]
    /\ \A i \in 1..Len(ss) : \A j \in 1..Len(ss[i]) : t[off[i - 1] + j] = ss[i][j]

LEMMA FlattenLayout ==
    ASSUME NEW S, NEW ss \in Seq(Seq(S)), NEW off, IsLayout(off, ss)
    PROVE  IsLaidOut(FlattenSeq(ss), off, ss, S)
<1> DEFINE n == Len(ss)
<1>1. PICK f : IsFlattening(f, ss, S)
  BY FlattenUnfolds
<1>2. /\ n \in Nat /\ off \in [0..n -> Nat] /\ off[0] = 0
      /\ f \in [0..n -> Seq(S)] /\ f[0] = <<>> /\ FlattenSeq(ss) = f[n]
  BY <1>1 DEF IsLayout, IsFlattening
<1>3. /\ \A i \in 1..n : ss[i] \in Seq(S)
      /\ \A i \in 1..n : f[i] = f[i - 1] \o ss[i]
      /\ \A i \in 1..n : off[i] = off[i - 1] + Len(ss[i])
  <2>1. \A i \in 1..n : ss[i] \in Seq(S)
    OBVIOUS
  <2>2. QED
    BY <1>1, <2>1 DEF IsLayout, IsFlattening
<1>4. \A k \in 0..n : \A i \in 0..k : off[i] <= off[k]
  BY LayoutIsMonotone
<1> HIDE DEF n
<1> DEFINE Holds(m) == /\ Len(f[m]) = off[m]
                       /\ \A i \in 1..m : \A j \in 1..Len(ss[i]) : f[m][off[i - 1] + j] = ss[i][j]
           E == {m \in 0..n : Holds(m)}
<1>5. 0 \in E
  BY <1>2
<1>6. ASSUME NEW m \in 0..(n - 1), m \in E PROVE m + 1 \in E
  <2>1. m + 1 \in 1..n /\ m + 1 - 1 = m /\ m \in 0..n /\ m + 1 \in 0..n
    BY <1>2
  <2>2. ss[m + 1] \in Seq(S) /\ f[m] \in Seq(S)
    BY <1>2, <1>3, <2>1
  <2>3. f[m + 1] = f[m] \o ss[m + 1] /\ off[m + 1] = off[m] + Len(ss[m + 1])
    <3>1. f[m + 1] = f[m + 1 - 1] \o ss[m + 1] /\ off[m + 1] = off[m + 1 - 1] + Len(ss[m + 1])
      <4>1. \A x : x \in 1..n => f[x] = f[x - 1] \o ss[x]
        BY <1>3
      <4>2. \A x : x \in 1..n => off[x] = off[x - 1] + Len(ss[x])
        BY <1>3
      <4> DEFINE x == m + 1
      <4>3. x \in 1..n
        BY <2>1
      <4> HIDE DEF x, E, Holds
      <4>4. f[x] = f[x - 1] \o ss[x]
        BY <4>1, <4>3
      <4>5. off[x] = off[x - 1] + Len(ss[x])
        BY <4>2, <4>3
      <4>6. QED
        BY <4>4, <4>5 DEF x
    <3>2. QED
      BY <2>1, <3>1
  <2>4. Len(f[m]) = off[m]
    BY <1>6
  <2>5. \A x, y \in Seq(S) :
           /\ Len(x \o y) = Len(x) + Len(y)
           /\ \A p \in 1..Len(x) : (x \o y)[p] = x[p]
           /\ \A p \in 1..Len(y) : (x \o y)[Len(x) + p] = y[p]
    OBVIOUS
  <2>6. Len(f[m + 1]) = off[m + 1]
    BY <2>2, <2>3, <2>4, <2>5, ZenonT(40)
  <2>7. ASSUME NEW i \in 1..(m + 1), NEW j \in 1..Len(ss[i])
        PROVE  f[m + 1][off[i - 1] + j] = ss[i][j]
    <3>1. CASE i = m + 1
      <4>1. i - 1 = m /\ j \in 1..Len(ss[m + 1])
        BY <2>1, <3>1
      <4>2. (f[m] \o ss[m + 1])[Len(f[m]) + j] = ss[m + 1][j]
        BY <2>2, <2>5, <4>1
      <4>3. QED
        BY <2>3, <2>4, <3>1, <4>1, <4>2
    <3>2. CASE i # m + 1
      <4>1. i \in 0..m /\ i \in 1..m /\ i \in 1..n /\ i - 1 \in 0..n
        BY <1>2, <2>1, <3>2
      <4>2. off[i] <= off[m] /\ off[i] = off[i - 1] + Len(ss[i])
        BY <1>3, <1>4, <2>1, <4>1
      <4>3. off[i - 1] \in Nat /\ off[m] \in Nat /\ Len(ss[i]) \in Nat
        <5>1. ss[i] \in Seq(S)
          BY <1>3, <4>1
        <5>2. Len(ss[i]) \in Nat
          BY <5>1
        <5>3. QED
          BY <1>2, <2>1, <4>1, <5>2
      <4>4. off[i - 1] + j \in 1..Len(f[m])
        BY <2>4, <4>2, <4>3, SMTT(40)
      <4>5. f[m][off[i - 1] + j] = ss[i][j]
        BY <1>6, <4>1
      <4>6. (f[m] \o ss[m + 1])[off[i - 1] + j] = f[m][off[i - 1] + j]
        BY <2>2, <2>5, <4>4
      <4>7. QED
        BY <2>3, <4>5, <4>6
    <3>3. QED
      BY <3>1, <3>2
  <2>8. QED
    BY <2>1, <2>6, <2>7
<1>7. 0..n \subseteq E
  <2> HIDE DEF E
  <2> QED
    BY <1>2, <1>5, <1>6, BoundedInduction, Zenon
<1>8. n \in E /\ f[n] \in Seq(S)
  <2> HIDE DEF E
  <2> QED
    BY <1>2, <1>7
<1>9. Holds(n)
  BY <1>8
<1>10. QED
  BY <1>2, <1>8, <1>9 DEF n, IsLaidOut

\* Any sequences can be laid out one after another.
LEMMA LayoutExists ==
    ASSUME NEW S, NEW ss \in Seq(Seq(S))
    PROVE  \E off : IsLayout(off, ss)
<1> DEFINE n == Len(ss)
           step == [x \in Nat \X (1..n) |-> x[1] + Len(ss[x[2]])]
<1>1. n \in Nat /\ \A i \in 1..n : Len(ss[i]) \in Nat
  OBVIOUS
<1> HIDE DEF n
<1>2. \A t \in Nat : \A i \in 1..n : step[<<t, i>>] = t + Len(ss[i])
  OBVIOUS
<1>3. \A t \in Nat : \A i \in 1..n : step[<<t, i>>] \in Nat
  <2> SUFFICES ASSUME NEW t \in Nat, NEW i \in 1..n PROVE step[<<t, i>>] \in Nat
    OBVIOUS
  <2>1. step[<<t, i>>] = t + Len(ss[i]) /\ Len(ss[i]) \in Nat
    BY <1>1, <1>2
  <2> HIDE DEF step
  <2>2. QED
    BY <2>1
<1>4. PICK f : IsStepwise(f, n, Nat, 0, step)
  <2>1. 0 \in Nat
    OBVIOUS
  <2> HIDE DEF step
  <2>2. QED
    BY <1>1, <1>3, <2>1, StepwiseFunction
<1>5. \A i \in 1..n : f[i] = f[i - 1] + Len(ss[i])
  <2> HIDE DEF step
  <2> SUFFICES ASSUME NEW i \in 1..n PROVE f[i] = f[i - 1] + Len(ss[i])
    OBVIOUS
  <2>1. i - 1 \in 0..n
    BY <1>1
  <2>2. f[i - 1] \in Nat /\ f[i] = step[<<f[i - 1], i>>]
    BY <1>4, <2>1 DEF IsStepwise
  <2>3. QED
    BY <1>2, <2>2
<1>6. IsLayout(f, ss)
  <2> HIDE DEF step
  <2> QED
    BY <1>4, <1>5 DEF IsLayout, IsStepwise, n
<1>7. QED
  BY <1>6

\* A table over the prefixes of two lists: step gives an entry from its place, the
\* entry before it in both lists, and the entries before it in the one and in the other.
Entered(f, zero, step, i, j) ==
    IF i = 0 \/ j = 0 THEN zero
    ELSE step[<<i, j, f[<<i-1, j-1>>], f[<<i-1, j>>], f[<<i, j-1>>]>>]

IsTable(f, n, m, T, zero, step) ==
    /\ f \in [(0..n) \X (0..m) -> T]
    /\ \A i \in 0..n : \A j \in 0..m : f[<<i, j>>] = Entered(f, zero, step, i, j)

\* There is one, diagonal by diagonal.
LEMMA TableExists ==
    ASSUME NEW n \in Nat, NEW m \in Nat, NEW T, NEW zero \in T, NEW step,
           \A i \in 1..n : \A j \in 1..m : \A a, b, c \in T : step[<<i, j, a, b, c>>] \in T
    PROVE  \E f : IsTable(f, n, m, T, zero, step)
<1> DEFINE D == (0..n) \X (0..m)
           Filled(f, k) == /\ f \in [D -> T]
                         /\ \A i \in 0..n : \A j \in 0..m :
                                i + j <= k => f[<<i, j>>] = Entered(f, zero, step, i, j)
           S == {k \in 0..(n + m) : \E f : Filled(f, k)}
<1>1. 0 \in S
  <2>1. Filled([p \in D |-> zero], 0)
    BY DEF Entered
  <2>2. \E f : Filled(f, 0)
    <3> HIDE DEF Filled
    <3> QED
      BY <2>1
  <2>3. QED
    BY <2>2
<1>2. ASSUME NEW k \in 0..((n + m) - 1), k \in S PROVE k + 1 \in S
  <2>1. PICK f : Filled(f, k)
    BY <1>2
  <2>2. \A i \in 0..n : \A j \in 0..m : <<i, j>> \in D /\ f[<<i, j>>] \in T
    BY <2>1
  <2>3. \A i \in 0..n : \A j \in 0..m : Entered(f, zero, step, i, j) \in T
    <3> SUFFICES ASSUME NEW i \in 0..n, NEW j \in 0..m
                 PROVE  Entered(f, zero, step, i, j) \in T
      OBVIOUS
    <3>1. CASE i = 0 \/ j = 0
      BY <3>1 DEF Entered
    <3>2. CASE ~(i = 0 \/ j = 0)
      <4>1. i \in 1..n /\ j \in 1..m /\ i-1 \in 0..n /\ j-1 \in 0..m
        BY <3>2
      <4>2. f[<<i-1, j-1>>] \in T /\ f[<<i-1, j>>] \in T /\ f[<<i, j-1>>] \in T
        BY <2>2, <4>1
      <4>3. QED
        BY <3>2, <4>1, <4>2 DEF Entered
    <3>3. QED
      BY <3>1, <3>2
  <2> DEFINE g == [p \in D |-> IF p[1] + p[2] = k + 1 THEN Entered(f, zero, step, p[1], p[2])
                               ELSE f[p]]
  <2>4. \A i \in 0..n : \A j \in 0..m :
            g[<<i, j>>] = IF i + j = k + 1 THEN Entered(f, zero, step, i, j) ELSE f[<<i, j>>]
    OBVIOUS
  <2>5. g \in [D -> T]
    <3> SUFFICES ASSUME NEW p \in D PROVE g[p] \in T
      OBVIOUS
    <3>1. p[1] \in 0..n /\ p[2] \in 0..m
      OBVIOUS
    <3>2. f[p] \in T
      BY <2>1
    <3>3. Entered(f, zero, step, p[1], p[2]) \in T
      BY <2>3, <3>1
    <3>4. QED
      BY <3>2, <3>3
  <2>6. ASSUME NEW i \in 0..n, NEW j \in 0..m, i + j <= k + 1
        PROVE  g[<<i, j>>] = Entered(g, zero, step, i, j)
    <3>1. Entered(g, zero, step, i, j) = Entered(f, zero, step, i, j)
      <4>1. CASE i = 0 \/ j = 0
        BY <4>1 DEF Entered
      <4>2. CASE ~(i = 0 \/ j = 0)
        <5>1. /\ i-1 \in 0..n /\ j-1 \in 0..m
              /\ (i-1) + (j-1) # k + 1 /\ (i-1) + j # k + 1 /\ i + (j-1) # k + 1
          BY <2>6, <4>2
        <5>2. g[<<i-1, j-1>>] = f[<<i-1, j-1>>]
          BY <2>4, <5>1
        <5>3. g[<<i-1, j>>] = f[<<i-1, j>>]
          BY <2>4, <5>1
        <5>4. g[<<i, j-1>>] = f[<<i, j-1>>]
          BY <2>4, <5>1
        <5> HIDE DEF g
        <5>5. QED
          BY <5>2, <5>3, <5>4 DEF Entered
      <4>3. QED
        BY <4>1, <4>2
    <3>2. CASE i + j = k + 1
      BY <2>4, <3>1, <3>2
    <3>3. CASE i + j # k + 1
      <4>1. i + j <= k
        BY <2>6, <3>3
      <4>2. g[<<i, j>>] = f[<<i, j>>]
        BY <2>4, <3>3
      <4>3. f[<<i, j>>] = Entered(f, zero, step, i, j)
        BY <2>1, <4>1
      <4> HIDE DEF g
      <4>4. QED
        BY <3>1, <4>2, <4>3
    <3>4. QED
      BY <3>2, <3>3
  <2>7. Filled(g, k + 1)
    <3> HIDE DEF g
    <3> QED
      BY <2>5, <2>6
  <2>8. \E h : Filled(h, k + 1)
    <3> HIDE DEF Filled, g
    <3> QED
      BY <2>7
  <2>9. QED
    BY <2>8
<1>3. n + m \in S
  <2>1. n + m \in Nat
    OBVIOUS
  <2>2. 0..(n + m) \subseteq S
    <3> DEFINE l == n + m
    <3> HIDE DEF S
    <3>1. l \in Nat /\ 0 \in S /\ \A k \in 0..(l - 1) : k \in S => k + 1 \in S
      BY <1>1, <1>2
    <3> HIDE DEF l
    <3>2. 0..l \subseteq S
      BY <3>1, BoundedInduction
    <3>3. QED
      BY <3>2 DEF l
  <2> HIDE DEF S
  <2>3. QED
    BY <2>1, <2>2
<1>4. PICK f : Filled(f, n + m)
  BY <1>3
<1>5. \A i \in 0..n : \A j \in 0..m : i + j <= n + m
  OBVIOUS
<1>6. IsTable(f, n, m, T, zero, step)
  BY <1>4, <1>5 DEF IsTable
<1>7. QED
  BY <1>6
==============================================================================
