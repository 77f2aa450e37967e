---------------------------- MODULE PageSyncProofs ----------------------------
(***************************************************************************)
(* What a sync keeps of the cached siblings is the most that can be kept,  *)
(* every rendered node has its id when the snapshot is taken, no           *)
(* placeholder gets into a cache, and no block goes before its copy is     *)
(* there: for any set of renderings (with unique sibling keys, as          *)
(* assertUniqueKeys of sync-diff.ts:342-364 demands), any batch size, and  *)
(* any number of renders, faults and edits by others.                      *)
(*                                                                         *)
(* The proof follows a sync.  The table of MatchLength and the walk back   *)
(* through it give a longest common subsequence (TablesAreLongest).  The   *)
(* plan creates every rendered node that inherits no id, under a parent    *)
(* that has one or gets one earlier (PlanIs), and the batches of Calls     *)
(* take its operations one after another (CallsAreBatches), so that the    *)
(* calls do so as well (CallsAreScheduled).  Of that the invariant keeps   *)
(* what a step can keep (Covered): every path has its id, or one of the    *)
(* calls still to be made creates it.                                      *)
(*                                                                         *)
(* That copies land first needs two facts more, which every step keeps     *)
(* (Order): the ids of the page's children and those of the blocks under   *)
(* them are apart (Levels), so that only a removal takes a child off the   *)
(* page; and when a removal is next, the copy of what it removes has its   *)
(* id or is created by an earlier call (Turn).                             *)
(*                                                                         *)
(* The rest is what PageSyncConvergence builds on: what the operations on  *)
(* trees do, node by node; that no two nodes of a tree ever have one id    *)
(* (Distinct), nor two rendered nodes; and what a plan consists of, place  *)
(* by place (PlanHas).                                                     *)
(***************************************************************************)
EXTENDS PageSync, FiniteSetTheorems, InductionLemmas

----------------------------------------------------------------------------
(* Longest common subsequences, by the places of their members *)

\* Two orders of a set K, by the places p and q of its members.
SameOrder(A, p, q) == \A k, l \in A : p[k] < p[l] <=> q[k] < q[l]

Upto(K, p, q, i, j) == {k \in K : p[k] <= i /\ q[k] <= j}

Meet(K, p, q, i, j) == \E k \in K : p[k] = i /\ q[k] = j

\* The recurrence of the longest common subsequence, and of what it consists of.
LengthTable(len, K, p, q, n, m) ==
    /\ len \in [(0..n) \X (0..m) -> Nat]
    /\ \A i \in 0..n : \A j \in 0..m :
        len[<<i, j>>] = IF i = 0 \/ j = 0 THEN 0
                        ELSE IF Meet(K, p, q, i, j) THEN len[<<i-1, j-1>>] + 1
                        ELSE IF len[<<i-1, j>>] >= len[<<i, j-1>>] THEN len[<<i-1, j>>]
                        ELSE len[<<i, j-1>>]

MemberTable(back, len, K, p, q, n, m) ==
    \A i \in 0..n : \A j \in 0..m :
        back[<<i, j>>] = IF i = 0 \/ j = 0 THEN {}
                         ELSE IF Meet(K, p, q, i, j)
                              THEN {k \in K : p[k] = i /\ q[k] = j} \cup back[<<i-1, j-1>>]
                         ELSE IF len[<<i-1, j>>] >= len[<<i, j-1>>] THEN back[<<i-1, j>>]
                         ELSE back[<<i, j-1>>]

Longest(A, l, K, p, q, i, j) ==
    /\ A \subseteq Upto(K, p, q, i, j) /\ SameOrder(A, p, q)
    /\ IsFiniteSet(A) /\ Cardinality(A) = l
    /\ \A B \in SUBSET Upto(K, p, q, i, j) : SameOrder(B, p, q) => Cardinality(B) <= l

\* The steps of the recurrence keep what they compute the longest.
LEMMA LongestByMeeting ==
    ASSUME NEW n \in Nat, NEW m \in Nat, NEW K, IsFiniteSet(K),
           NEW p \in [K -> 1..n], NEW q \in [K -> 1..m], IsInjective(p), IsInjective(q),
           NEW i \in 1..n, NEW j \in 1..m, NEW k \in K, p[k] = i, q[k] = j,
           NEW A, NEW l \in Nat, Longest(A, l, K, p, q, i - 1, j - 1)
    PROVE  Longest({k} \cup A, l + 1, K, p, q, i, j)
<1> DEFINE X == {k} \cup A
<1>1. \A x \in K : p[x] \in 1..n /\ q[x] \in 1..m
  OBVIOUS
<1>2. \A x \in K : x # k => p[x] # i /\ q[x] # j
  BY DEF IsInjective
<1>3. \A x \in A : x \in K /\ p[x] <= i - 1 /\ q[x] <= j - 1
  BY DEF Longest, Upto
<1>4. X \subseteq Upto(K, p, q, i, j)
  BY <1>1, <1>3 DEF Upto
<1>5. SameOrder(X, p, q)
  <2> SUFFICES ASSUME NEW x \in X, NEW y \in X PROVE p[x] < p[y] <=> q[x] < q[y]
    BY DEF SameOrder
  <2>1. CASE x \in A /\ y \in A
    BY <2>1 DEF Longest, SameOrder
  <2>2. CASE x = k /\ y = k
    BY <1>1, <2>2
  <2>3. CASE x = k /\ y \in A
    BY <1>1, <1>3, <2>3
  <2>4. CASE x \in A /\ y = k
    BY <1>1, <1>3, <2>4
  <2>5. QED
    BY <2>1, <2>2, <2>3, <2>4
<1>6. k \notin A
  BY <1>3
<1>7. IsFiniteSet(X) /\ Cardinality(X) = l + 1
  BY <1>6, FS_AddElement DEF Longest
<1>8. ASSUME NEW B \in SUBSET Upto(K, p, q, i, j), SameOrder(B, p, q)
      PROVE  Cardinality(B) <= l + 1
  <2> DEFINE C == B \ {k}
  <2>1. IsFiniteSet(B)
    <3>1. B \subseteq K
      BY DEF Upto
    <3>2. QED
      BY <3>1, FS_Subset
  <2>2. C \subseteq Upto(K, p, q, i - 1, j - 1)
    <3> SUFFICES ASSUME NEW x \in C PROVE p[x] <= i - 1 /\ q[x] <= j - 1 /\ x \in K
      BY DEF Upto
    <3>1. x \in K /\ x # k /\ p[x] <= i /\ q[x] <= j
      BY DEF Upto
    <3>2. QED
      BY <1>1, <1>2, <3>1
  <2>3. SameOrder(C, p, q)
    BY <1>8 DEF SameOrder
  <2>4. Cardinality(C) <= l
    BY <2>2, <2>3 DEF Longest
  <2>5. IsFiniteSet(C) /\ Cardinality(C) \in Nat /\ Cardinality(B) \in Nat
    BY <2>1, FS_Subset, FS_CardinalityType
  <2>6. CASE k \in B
    <3>1. Cardinality(C) = Cardinality(B) - 1
      BY <2>1, <2>6, FS_RemoveElement
    <3> HIDE DEF C
    <3>2. QED
      BY <2>4, <2>5, <3>1
  <2>7. CASE k \notin B
    <3>1. C = B
      BY <2>7
    <3>2. QED
      BY <2>4, <2>5, <3>1
  <2>8. QED
    BY <2>6, <2>7
<1>9. QED
  BY <1>4, <1>5, <1>7, <1>8 DEF Longest

\* The longest one when no member is at this place of both lists.
LEMMA LongestByPassing ==
    ASSUME NEW n \in Nat, NEW m \in Nat, NEW K, IsFiniteSet(K),
           NEW p \in [K -> 1..n], NEW q \in [K -> 1..m],
           NEW i \in 1..n, NEW j \in 1..m, ~Meet(K, p, q, i, j),
           NEW A, NEW B, NEW a \in Nat, NEW b \in Nat,
           Longest(A, a, K, p, q, i - 1, j), Longest(B, b, K, p, q, i, j - 1)
    PROVE  /\ a >= b => Longest(A, a, K, p, q, i, j)
           /\ ~(a >= b) => Longest(B, b, K, p, q, i, j)
<1>1. \A x \in K : p[x] \in 1..n /\ q[x] \in 1..m
  OBVIOUS
<1>2. ASSUME NEW C \in SUBSET Upto(K, p, q, i, j), SameOrder(C, p, q)
      PROVE  Cardinality(C) <= a \/ Cardinality(C) <= b
  <2>1. CASE \A x \in C : p[x] # i
    <3>1. C \subseteq Upto(K, p, q, i - 1, j)
      BY <1>1, <2>1 DEF Upto
    <3>2. QED
      BY <1>2, <3>1 DEF Longest
  <2>2. CASE \A x \in C : q[x] # j
    <3>1. C \subseteq Upto(K, p, q, i, j - 1)
      BY <1>1, <2>2 DEF Upto
    <3>2. QED
      BY <1>2, <3>1 DEF Longest
  <2>3. ASSUME NEW x \in C, NEW y \in C, p[x] = i, q[y] = j PROVE FALSE
    <3>1. x \in K /\ y \in K /\ q[x] <= j /\ p[y] <= i
      BY DEF Upto
    <3>2. q[x] # j /\ p[y] # i
      BY <2>3, <3>1 DEF Meet
    <3>3. p[y] < p[x] /\ ~(q[y] < q[x])
      BY <1>1, <2>3, <3>1, <3>2
    <3>4. QED
      BY <1>2, <3>3 DEF SameOrder
  <2>4. QED
    BY <2>1, <2>2, <2>3
<1>3. \A C \in SUBSET Upto(K, p, q, i, j) : Cardinality(C) \in Nat
  <2> SUFFICES ASSUME NEW C \in SUBSET Upto(K, p, q, i, j) PROVE Cardinality(C) \in Nat
    OBVIOUS
  <2>1. C \subseteq K
    BY DEF Upto
  <2>2. QED
    BY <2>1, FS_Subset, FS_CardinalityType
<1>4. A \subseteq Upto(K, p, q, i, j) /\ B \subseteq Upto(K, p, q, i, j)
  BY <1>1 DEF Longest, Upto
<1>5. ASSUME a >= b PROVE Longest(A, a, K, p, q, i, j)
  <2>1. \A C \in SUBSET Upto(K, p, q, i, j) : SameOrder(C, p, q) => Cardinality(C) <= a
    BY <1>2, <1>3, <1>5
  <2>2. QED
    BY <1>4, <2>1 DEF Longest
<1>6. ASSUME ~(a >= b) PROVE Longest(B, b, K, p, q, i, j)
  <2>1. \A C \in SUBSET Upto(K, p, q, i, j) : SameOrder(C, p, q) => Cardinality(C) <= b
    BY <1>2, <1>3, <1>6
  <2>2. QED
    BY <1>4, <2>1 DEF Longest
<1>7. QED
  BY <1>5, <1>6

\* So the tables hold a longest common subsequence, diagonal by diagonal.
LEMMA TablesAreLongest ==
    ASSUME NEW n \in Nat, NEW m \in Nat, NEW K, IsFiniteSet(K),
           NEW p \in [K -> 1..n], NEW q \in [K -> 1..m], IsInjective(p), IsInjective(q),
           NEW len, LengthTable(len, K, p, q, n, m),
           NEW back, MemberTable(back, len, K, p, q, n, m)
    PROVE  Longest(back[<<n, m>>], len[<<n, m>>], K, p, q, n, m)
<1> DEFINE Good(i, j) == Longest(back[<<i, j>>], len[<<i, j>>], K, p, q, i, j)
           S == {k \in 0..(n + m) : \A i \in 0..n : \A j \in 0..m : i + j <= k => Good(i, j)}
<1>1. ASSUME NEW i \in 0..n, NEW j \in 0..m, i = 0 \/ j = 0 PROVE Good(i, j)
  <2>1. back[<<i, j>>] = {} /\ len[<<i, j>>] = 0
    BY <1>1 DEF LengthTable, MemberTable
  <2>2. Upto(K, p, q, i, j) = {}
    <3>1. \A x \in K : p[x] \in 1..n /\ q[x] \in 1..m
      OBVIOUS
    <3>2. QED
      BY <1>1, <3>1 DEF Upto
  <2>3. IsFiniteSet({}) /\ Cardinality({}) = 0
    BY FS_EmptySet
  <2>4. \A B \in SUBSET {} : B = {}
    OBVIOUS
  <2>5. QED
    BY <2>1, <2>2, <2>3, <2>4 DEF Longest, SameOrder
<1>2. ASSUME NEW i \in 1..n, NEW j \in 1..m, Good(i - 1, j - 1), Good(i - 1, j), Good(i, j - 1)
      PROVE  Good(i, j)
  <2>1. i - 1 \in 0..n /\ j - 1 \in 0..m /\ i \in 0..n /\ j \in 0..m /\ ~(i = 0 \/ j = 0)
    OBVIOUS
  <2>2. len[<<i-1, j-1>>] \in Nat /\ len[<<i-1, j>>] \in Nat /\ len[<<i, j-1>>] \in Nat
    BY <2>1 DEF LengthTable
  <2>3. CASE Meet(K, p, q, i, j)
    <3>1. PICK k \in K : p[k] = i /\ q[k] = j
      BY <2>3 DEF Meet
    <3>2. {x \in K : p[x] = i /\ q[x] = j} = {k}
      BY <3>1 DEF IsInjective
    <3>3. back[<<i, j>>] = {k} \cup back[<<i-1, j-1>>]
      BY <2>1, <2>3, <3>2 DEF MemberTable
    <3>4. len[<<i, j>>] = len[<<i-1, j-1>>] + 1
      BY <2>1, <2>3 DEF LengthTable
    <3> DEFINE A == back[<<i-1, j-1>>]
               l == len[<<i-1, j-1>>]
    <3>5. Longest(A, l, K, p, q, i - 1, j - 1) /\ l \in Nat
      BY <1>2, <2>2
    <3> HIDE DEF A, l
    <3>6. Longest({k} \cup A, l + 1, K, p, q, i, j)
      BY <3>1, <3>5, LongestByMeeting
    <3>7. QED
      BY <3>3, <3>4, <3>6 DEF A, l
  <2>4. CASE ~Meet(K, p, q, i, j)
    <3> DEFINE A == back[<<i-1, j>>]
               a == len[<<i-1, j>>]
               B == back[<<i, j-1>>]
               b == len[<<i, j-1>>]
    <3>1. back[<<i, j>>] = IF a >= b THEN A ELSE B
      BY <2>1, <2>4 DEF MemberTable
    <3>2. len[<<i, j>>] = IF a >= b THEN a ELSE b
      BY <2>1, <2>4 DEF LengthTable
    <3>3. /\ Longest(A, a, K, p, q, i - 1, j) /\ Longest(B, b, K, p, q, i, j - 1)
          /\ a \in Nat /\ b \in Nat
      BY <1>2, <2>2
    <3> HIDE DEF A, B, a, b
    <3>4. /\ a >= b => Longest(A, a, K, p, q, i, j)
          /\ ~(a >= b) => Longest(B, b, K, p, q, i, j)
      BY <2>4, <3>3, LongestByPassing
    <3>5. QED
      BY <3>1, <3>2, <3>4
  <2>5. QED
    BY <2>3, <2>4
<1> HIDE DEF Good
<1>3. 0 \in S
  BY <1>1
<1>4. ASSUME NEW k \in 0..((n + m) - 1), k \in S PROVE k + 1 \in S
  <2> SUFFICES ASSUME NEW i \in 0..n, NEW j \in 0..m, i + j <= k + 1 PROVE Good(i, j)
    OBVIOUS
  <2>1. CASE i = 0 \/ j = 0
    BY <1>1, <2>1
  <2>2. CASE ~(i = 0 \/ j = 0)
    <3>1. /\ i \in 1..n /\ j \in 1..m /\ i - 1 \in 0..n /\ j - 1 \in 0..m
          /\ (i - 1) + (j - 1) <= k /\ (i - 1) + j <= k /\ i + (j - 1) <= k
      BY <2>2
    <3>2. Good(i - 1, j - 1) /\ Good(i - 1, j) /\ Good(i, j - 1)
      BY <1>4, <3>1
    <3>3. QED
      BY <1>2, <3>1, <3>2
  <2>3. QED
    BY <2>1, <2>2
<1>5. n + m \in S
  <2> DEFINE l == n + m
  <2> HIDE DEF S
  <2>1. l \in Nat /\ 0 \in S /\ \A k \in 0..(l - 1) : k \in S => k + 1 \in S
    BY <1>3, <1>4
  <2> HIDE DEF l
  <2>2. 0..l \subseteq S
    BY <2>1, BoundedInduction
  <2>3. QED
    BY <2>1, <2>2 DEF l
<1>6. Good(n, m)
  BY <1>5
<1>7. QED
  BY <1>6 DEF Good

----------------------------------------------------------------------------
(* The tables of diff(), and the walk back through them *)

IsList(s) == Len(s) \in Nat /\ DOMAIN s = 1..Len(s)

\* The two tables, as their recursive definitions describe them.
LengthsOf(len, bs, cs) ==
    /\ len \in [(0..Len(bs)) \X (0..Len(cs)) -> Nat]
    /\ \A i \in 0..Len(bs) : \A j \in 0..Len(cs) :
        len[<<i, j>>] = IF i = 0 \/ j = 0 THEN 0
                        ELSE IF Matches(bs[i], cs[j]) THEN len[<<i-1, j-1>>] + 1
                        ELSE IF len[<<i-1, j>>] >= len[<<i, j-1>>] THEN len[<<i-1, j>>]
                        ELSE len[<<i, j-1>>]

MembersOf(back, len, bs, cs) ==
    /\ RetainedKeys(bs, cs) = back[<<Len(bs), Len(cs)>>]
    /\ \A i \in 0..Len(bs) : \A j \in 0..Len(cs) :
        back[<<i, j>>] = IF i = 0 \/ j = 0 THEN {}
                         ELSE IF Matches(bs[i], cs[j])
                              THEN {bs[i].key} \cup back[<<i-1, j-1>>]
                         ELSE IF len[<<i-1, j>>] >= len[<<i, j-1>>] THEN back[<<i-1, j>>]
                         ELSE back[<<i, j-1>>]

\* MatchLength is the table that its recursive definition describes.
LEMMA MatchLengthUnfolds ==
    ASSUME NEW bs, NEW cs, IsList(bs), IsList(cs), NEW len, len = MatchLength(bs, cs)
    PROVE  LengthsOf(len, bs, cs)
<1> DEFINE n == Len(bs)
           m == Len(cs)
           D == (0..n) \X (0..m)
           step == [x \in (1..n) \X (1..m) \X Nat \X Nat \X Nat |->
                        IF Matches(bs[x[1]], cs[x[2]]) THEN x[3] + 1
                        ELSE IF x[4] >= x[5] THEN x[4] ELSE x[5]]
           Body(f, p) == IF p[1] = 0 \/ p[2] = 0 THEN 0
                         ELSE IF Matches(bs[p[1]], cs[p[2]]) THEN f[<<p[1]-1, p[2]-1>>] + 1
                         ELSE IF f[<<p[1]-1, p[2]>>] >= f[<<p[1], p[2]-1>>] THEN f[<<p[1]-1, p[2]>>]
                         ELSE f[<<p[1], p[2]-1>>]
           Describes(f) == f = [p \in D |-> Body(f, p)]
<1>1. n \in Nat /\ m \in Nat
  BY DEF IsList
<1>2. len = CHOOSE f : Describes(f)
  BY DEF MatchLength, Places
<1> HIDE DEF n, m
<1>3. \A i \in 1..n : \A j \in 1..m : \A a, b, c \in Nat :
        step[<<i, j, a, b, c>>] = IF Matches(bs[i], cs[j]) THEN a + 1
                                  ELSE IF b >= c THEN b ELSE c
  OBVIOUS
<1>4. \A i \in 1..n : \A j \in 1..m : \A a, b, c \in Nat : step[<<i, j, a, b, c>>] \in Nat
  <2> HIDE DEF step
  <2> SUFFICES ASSUME NEW i \in 1..n, NEW j \in 1..m, NEW a \in Nat, NEW b \in Nat, NEW c \in Nat
               PROVE  step[<<i, j, a, b, c>>] \in Nat
    OBVIOUS
  <2>1. a + 1 \in Nat
    OBVIOUS
  <2> HIDE DEF Body, Describes
  <2>2. QED
    BY <1>3, <2>1
<1>5. PICK f : IsTable(f, n, m, Nat, 0, step)
  <2> HIDE DEF step
  <2>1. 0 \in Nat
    OBVIOUS
  <2>2. QED
    BY <1>1, <1>4, <2>1, TableExists
<1>6. Describes(f)
  <2>1. ASSUME NEW p \in D PROVE f[p] = Body(f, p)
    <3> DEFINE i == p[1]
               j == p[2]
    <3>1. i \in 0..n /\ j \in 0..m /\ p = <<i, j>>
      OBVIOUS
    <3> HIDE DEF i, j
    <3>2. f[<<i, j>>] = Entered(f, 0, step, i, j)
      <4> HIDE DEF step
      <4> QED
        BY <1>5, <3>1 DEF IsTable
    <3>3. CASE i = 0 \/ j = 0
      <4> HIDE DEF step
      <4> QED
        BY <3>1, <3>2, <3>3 DEF Entered, i, j
    <3>4. CASE ~(i = 0 \/ j = 0)
      <4>1. i \in 1..n /\ j \in 1..m /\ i-1 \in 0..n /\ j-1 \in 0..m
        BY <1>1, <3>1, <3>4
      <4>2. f[<<i-1, j-1>>] \in Nat /\ f[<<i-1, j>>] \in Nat /\ f[<<i, j-1>>] \in Nat
        <5> HIDE DEF step
        <5> QED
          BY <1>5, <3>1, <4>1 DEF IsTable
      <4>3. f[<<i, j>>] = step[<<i, j, f[<<i-1, j-1>>], f[<<i-1, j>>], f[<<i, j-1>>]>>]
        BY <3>2, <3>4 DEF Entered
      <4> HIDE DEF step
      <4>4. f[<<i, j>>] = IF Matches(bs[i], cs[j]) THEN f[<<i-1, j-1>>] + 1
                          ELSE IF f[<<i-1, j>>] >= f[<<i, j-1>>] THEN f[<<i-1, j>>]
                          ELSE f[<<i, j-1>>]
        <5> DEFINE a == f[<<i-1, j-1>>]
                   b == f[<<i-1, j>>]
                   c == f[<<i, j-1>>]
        <5>1. a \in Nat /\ b \in Nat /\ c \in Nat
          BY <4>2
        <5>2. f[<<i, j>>] = step[<<i, j, a, b, c>>]
          BY <4>3
        <5> HIDE DEF a, b, c
        <5>3. f[<<i, j>>] = IF Matches(bs[i], cs[j]) THEN a + 1 ELSE IF b >= c THEN b ELSE c
          BY <1>3, <4>1, <5>1, <5>2
        <5>4. QED
          BY <5>3 DEF a, b, c
      <4>5. QED
        BY <3>1, <3>4, <4>4 DEF i, j
    <3>5. QED
      BY <3>3, <3>4
  <2>2. f \in [D -> Nat]
    BY <1>5 DEF IsTable
  <2> HIDE DEF Body, D
  <2>3. QED
    BY <2>1, <2>2
<1>7. Describes(len)
  <2> HIDE DEF Describes
  <2> QED
    BY <1>2, <1>6
<1>8. ASSUME NEW i \in 0..n, NEW j \in 0..m
      PROVE  len[<<i, j>>] =
                    IF i = 0 \/ j = 0 THEN 0
                    ELSE IF Matches(bs[i], cs[j]) THEN len[<<i-1, j-1>>] + 1
                    ELSE IF len[<<i-1, j>>] >= len[<<i, j-1>>] THEN len[<<i-1, j>>]
                    ELSE len[<<i, j-1>>]
  <2>1. <<i, j>> \in D
    OBVIOUS
  <2>2. len[<<i, j>>] = Body(len, <<i, j>>)
    <3> HIDE DEF Body, D
    <3> QED
      BY <1>7, <2>1
  <2>3. QED
    BY <2>2
<1>9. \A i \in 0..n : \A j \in 0..m : len[<<i, j>>] \in Nat
  <2> DEFINE S == {k \in 0..(n + m) : \A i \in 0..n : \A j \in 0..m :
                                            i + j <= k => len[<<i, j>>] \in Nat}
             l == n + m
  <2>1. 0 \in S
    <3>1. l \in Nat
      BY <1>1
    <3> SUFFICES ASSUME NEW i \in 0..n, NEW j \in 0..m, i + j <= 0 PROVE len[<<i, j>>] \in Nat
      BY <3>1
    <3>2. i = 0
      OBVIOUS
    <3>3. len[<<i, j>>] = 0
      <4> HIDE DEF Body, Describes, S, l
      <4> QED
        BY <1>8, <3>2
    <3>4. QED
      BY <3>3
  <2>2. ASSUME NEW k \in 0..(l - 1), k \in S PROVE k + 1 \in S
    <3> SUFFICES ASSUME NEW i \in 0..n, NEW j \in 0..m, i + j <= k + 1
                 PROVE  len[<<i, j>>] \in Nat
      BY <1>1
    <3>1. CASE i = 0 \/ j = 0
      <4>1. len[<<i, j>>] = 0
        <5> HIDE DEF Body, Describes, S, l
        <5> QED
          BY <1>8, <3>1
      <4>2. QED
        BY <4>1
    <3>2. CASE ~(i = 0 \/ j = 0)
      <4>1. /\ i-1 \in 0..n /\ j-1 \in 0..m
            /\ (i-1) + (j-1) <= k /\ (i-1) + j <= k /\ i + (j-1) <= k
        BY <1>1, <3>2
      <4>2. len[<<i-1, j-1>>] \in Nat /\ len[<<i-1, j>>] \in Nat /\ len[<<i, j-1>>] \in Nat
        BY <2>2, <4>1
      <4>3. len[<<i-1, j-1>>] + 1 \in Nat
        BY <4>2
      <4>4. QED
        BY <1>8, <3>2, <4>2, <4>3
    <3>3. QED
      BY <3>1, <3>2
  <2>3. l \in S
    <3>1. l \in Nat
      BY <1>1
    <3> HIDE DEF S, l
    <3>2. 0..l \subseteq S
      BY <2>1, <2>2, <3>1, BoundedInduction
    <3>3. QED
      BY <3>1, <3>2
  <2>4. ASSUME NEW i \in 0..n, NEW j \in 0..m PROVE len[<<i, j>>] \in Nat
    <3>1. i + j <= l
      BY <1>1
    <3>2. \A a \in 0..n : \A b \in 0..m : a + b <= l => len[<<a, b>>] \in Nat
      BY <2>3
    <3> HIDE DEF l
    <3>3. QED
      BY <3>1, <3>2
  <2>5. QED
    BY <2>4
<1>10. len \in [D -> Nat]
  <2>1. len = [p \in D |-> len[p]]
    <3> HIDE DEF Body, D
    <3> QED
      BY <1>7
  <2>2. ASSUME NEW p \in D PROVE len[p] \in Nat
    <3>1. p = <<p[1], p[2]>> /\ p[1] \in 0..n /\ p[2] \in 0..m
      OBVIOUS
    <3>2. QED
      BY <1>9, <3>1
  <2> HIDE DEF D
  <2>3. QED
    BY <2>1, <2>2
<1>11. QED
  BY <1>8, <1>10 DEF n, m, LengthsOf

\* RetainedKeys is where the walk back through that table ends.
LEMMA RetainedUnfolds ==
    ASSUME NEW bs, NEW cs, IsList(bs), IsList(cs), NEW len, len = MatchLength(bs, cs)
    PROVE  \E back : MembersOf(back, len, bs, cs)
<1> DEFINE n == Len(bs)
           m == Len(cs)
           D == (0..n) \X (0..m)
           T == SUBSET {bs[i].key : i \in 1..n}
           step == [x \in (1..n) \X (1..m) \X T \X T \X T |->
                        IF Matches(bs[x[1]], cs[x[2]]) THEN {bs[x[1]].key} \cup x[3]
                        ELSE IF len[<<x[1]-1, x[2]>>] >= len[<<x[1], x[2]-1>>] THEN x[4] ELSE x[5]]
           Body(f, p) == IF p[1] = 0 \/ p[2] = 0 THEN {}
                         ELSE IF Matches(bs[p[1]], cs[p[2]])
                              THEN {bs[p[1]].key} \cup f[<<p[1]-1, p[2]-1>>]
                         ELSE IF len[<<p[1]-1, p[2]>>] >= len[<<p[1], p[2]-1>>]
                              THEN f[<<p[1]-1, p[2]>>]
                         ELSE f[<<p[1], p[2]-1>>]
           Describes(f) == f = [p \in D |-> Body(f, p)]
           back == CHOOSE f : Describes(f)
<1>1. n \in Nat /\ m \in Nat
  BY DEF IsList
<1>2. RetainedKeys(bs, cs) = back[<<n, m>>]
  BY DEF RetainedKeys, Places
<1> HIDE DEF n, m
<1>3. \A i \in 1..n : \A j \in 1..m : \A a, b, c \in T :
        step[<<i, j, a, b, c>>] = IF Matches(bs[i], cs[j]) THEN {bs[i].key} \cup a
                                  ELSE IF len[<<i-1, j>>] >= len[<<i, j-1>>] THEN b ELSE c
  <2> HIDE DEF T
  <2> SUFFICES ASSUME NEW i \in 1..n, NEW j \in 1..m, NEW a \in T, NEW b \in T, NEW c \in T
               PROVE  step[<<i, j, a, b, c>>]
                        = IF Matches(bs[i], cs[j]) THEN {bs[i].key} \cup a
                          ELSE IF len[<<i-1, j>>] >= len[<<i, j-1>>] THEN b ELSE c
    OBVIOUS
  <2>1. <<i, j, a, b, c>> \in (1..n) \X (1..m) \X T \X T \X T
    OBVIOUS
  <2>2. QED
    BY <2>1
<1>4. \A i \in 1..n : \A j \in 1..m : \A a, b, c \in T : step[<<i, j, a, b, c>>] \in T
  <2> SUFFICES ASSUME NEW i \in 1..n, NEW j \in 1..m, NEW a \in T, NEW b \in T, NEW c \in T
               PROVE  step[<<i, j, a, b, c>>] \in T
    OBVIOUS
  <2>1. {bs[i].key} \cup a \in T
    OBVIOUS
  <2> HIDE DEF step, T, Body, Describes
  <2>2. step[<<i, j, a, b, c>>] = IF Matches(bs[i], cs[j]) THEN {bs[i].key} \cup a
                                  ELSE IF len[<<i-1, j>>] >= len[<<i, j-1>>] THEN b ELSE c
    BY <1>3
  <2>3. QED
    BY <2>1, <2>2
<1>5. PICK f : IsTable(f, n, m, T, {}, step)
  <2>1. {} \in T
    OBVIOUS
  <2> HIDE DEF step, T
  <2>2. QED
    BY <1>1, <1>4, <2>1, TableExists
<1> HIDE DEF T
<1>6. Describes(f)
  <2>1. ASSUME NEW p \in D PROVE f[p] = Body(f, p)
    <3> DEFINE i == p[1]
               j == p[2]
    <3>1. i \in 0..n /\ j \in 0..m /\ p = <<i, j>>
      OBVIOUS
    <3> HIDE DEF i, j
    <3>2. f[<<i, j>>] = Entered(f, {}, step, i, j)
      <4> HIDE DEF step
      <4> QED
        BY <1>5, <3>1 DEF IsTable
    <3>3. CASE i = 0 \/ j = 0
      <4> HIDE DEF step
      <4> QED
        BY <3>1, <3>2, <3>3 DEF Entered, i, j
    <3>4. CASE ~(i = 0 \/ j = 0)
      <4>1. i \in 1..n /\ j \in 1..m /\ i-1 \in 0..n /\ j-1 \in 0..m
        BY <1>1, <3>1, <3>4
      <4>2. f[<<i-1, j-1>>] \in T /\ f[<<i-1, j>>] \in T /\ f[<<i, j-1>>] \in T
        <5> HIDE DEF step
        <5> QED
          BY <1>5, <3>1, <4>1 DEF IsTable
      <4>3. f[<<i, j>>] = step[<<i, j, f[<<i-1, j-1>>], f[<<i-1, j>>], f[<<i, j-1>>]>>]
        BY <3>2, <3>4 DEF Entered
      <4> DEFINE a == f[<<i-1, j-1>>]
                 b == f[<<i-1, j>>]
                 c == f[<<i, j-1>>]
      <4> HIDE DEF step, a, b, c
      <4>4. f[<<i, j>>] = IF Matches(bs[i], cs[j]) THEN {bs[i].key} \cup f[<<i-1, j-1>>]
                          ELSE IF len[<<i-1, j>>] >= len[<<i, j-1>>] THEN f[<<i-1, j>>]
                          ELSE f[<<i, j-1>>]
        <5>1. step[<<i, j, a, b, c>>] = IF Matches(bs[i], cs[j]) THEN {bs[i].key} \cup a
                                        ELSE IF len[<<i-1, j>>] >= len[<<i, j-1>>] THEN b ELSE c
          <6>1. a \in T /\ b \in T /\ c \in T
            BY <4>2 DEF a, b, c
          <6> DEFINE Reads(x, y, u, v, w) ==
                step[<<x, y, u, v, w>>] =
                    IF Matches(bs[x], cs[y]) THEN {bs[x].key} \cup u
                    ELSE IF len[<<x-1, y>>] >= len[<<x, y-1>>] THEN v ELSE w
          <6>2. \A x \in 1..n : \A y \in 1..m : \A u, v, w \in T : Reads(x, y, u, v, w)
            BY <1>3
          <6> HIDE DEF Reads, Body, Describes, D
          <6>3. Reads(i, j, a, b, c)
            BY <4>1, <6>1, <6>2
          <6>4. QED
            BY <6>3 DEF Reads
        <5>2. f[<<i, j>>] = step[<<i, j, a, b, c>>]
          BY <4>3 DEF a, b, c
        <5>3. QED
          BY <5>1, <5>2 DEF a, b, c
      <4>5. QED
        BY <3>1, <3>4, <4>4 DEF i, j
    <3>5. QED
      BY <3>3, <3>4
  <2>2. f \in [D -> T]
    BY <1>5 DEF IsTable
  <2> HIDE DEF Body, D
  <2>3. QED
    BY <2>1, <2>2
<1>7. Describes(back)
  <2> HIDE DEF Describes
  <2> QED
    BY <1>6
<1> HIDE DEF back
<1>8. ASSUME NEW i \in 0..n, NEW j \in 0..m
      PROVE  back[<<i, j>>] =
                      IF i = 0 \/ j = 0 THEN {}
                      ELSE IF Matches(bs[i], cs[j]) THEN {bs[i].key} \cup back[<<i-1, j-1>>]
                      ELSE IF len[<<i-1, j>>] >= len[<<i, j-1>>] THEN back[<<i-1, j>>]
                      ELSE back[<<i, j-1>>]
  <2>1. <<i, j>> \in D
    OBVIOUS
  <2>2. back[<<i, j>>] = Body(back, <<i, j>>)
    <3> HIDE DEF Body, D
    <3> QED
      BY <1>7, <2>1
  <2>3. QED
    BY <2>2
<1>9. MembersOf(back, len, bs, cs)
  BY <1>2, <1>8 DEF n, m, MembersOf
<1>10. QED
  BY <1>9

CommonKeys(bs, cs) == {b.key : b \in {x \in ToSet(bs) : \E c \in ToSet(cs) : Matches(x, c)}}

IsLongestCommon(kept, bs, cs) ==
    /\ kept \subseteq CommonKeys(bs, cs)
    /\ CommonOrder(bs, cs, kept)
    /\ \A keys \in SUBSET CommonKeys(bs, cs) :
        CommonOrder(bs, cs, keys) => Cardinality(keys) <= Cardinality(kept)

KeysDiffer(cs) == \A i, j \in DOMAIN cs : cs[i].key = cs[j].key => i = j

\* What is kept of two sibling lists is a longest common subsequence of them.
LEMMA RetainedIsLongest ==
    ASSUME NEW bs, NEW cs, IsList(bs), IsList(cs), UniqueKeys(bs), KeysDiffer(cs),
           \A j \in DOMAIN cs : cs[j].key # Ghost
    PROVE  IsLongestCommon(RetainedKeys(bs, cs), bs, cs)
<1> DEFINE n == Len(bs)
           m == Len(cs)
           K == CommonKeys(bs, cs)
           At(list, k) == CHOOSE i \in DOMAIN list : list[i].key = k
           p == [k \in K |-> At(bs, k)]
           q == [k \in K |-> At(cs, k)]
           len == MatchLength(bs, cs)
<1>1. n \in Nat /\ m \in Nat /\ DOMAIN bs = 1..n /\ DOMAIN cs = 1..m
  BY DEF IsList
<1> HIDE DEF n, m
<1>2. \A k \in K : \E i \in 1..n : \E j \in 1..m :
            Matches(bs[i], cs[j]) /\ bs[i].key = k /\ cs[j].key = k
  BY <1>1 DEF CommonKeys, ToSet, Matches
<1>3. \A i \in 1..n : \A j \in 1..m : Matches(bs[i], cs[j]) => bs[i].key \in K
  BY <1>1 DEF CommonKeys, ToSet, Matches
<1>4. \A k \in K : k # Ghost
  BY <1>1, <1>2
<1>5. \A i, j \in 1..n : bs[i].key = bs[j].key /\ bs[i].key # Ghost => i = j
  BY <1>1 DEF UniqueKeys
<1>6. \A i, j \in 1..m : cs[i].key = cs[j].key => i = j
  BY <1>1 DEF KeysDiffer
<1> HIDE DEF K
<1>7. ASSUME NEW k \in K
      PROVE  /\ p[k] \in 1..n /\ bs[p[k]].key = k /\ \A i \in 1..n : bs[i].key = k => i = p[k]
             /\ q[k] \in 1..m /\ cs[q[k]].key = k /\ \A j \in 1..m : cs[j].key = k => j = q[k]
  <2>1. p[k] \in 1..n /\ bs[p[k]].key = k
    BY <1>1, <1>2
  <2>2. q[k] \in 1..m /\ cs[q[k]].key = k
    BY <1>1, <1>2
  <2> HIDE DEF p, q
  <2>3. QED
    BY <1>4, <1>5, <1>6, <2>1, <2>2
<1>8. p \in [K -> 1..n] /\ q \in [K -> 1..m]
  <2>1. p = [k \in K |-> p[k]] /\ q = [k \in K |-> q[k]]
    OBVIOUS
  <2> HIDE DEF p, q
  <2>2. QED
    BY <1>7, <2>1
<1>9. \A k \in K : p[k] = At(bs, k) /\ q[k] = At(cs, k)
  OBVIOUS
<1> HIDE DEF p, q
<1>10. IsInjective(p) /\ IsInjective(q)
  BY <1>7, <1>8 DEF IsInjective
<1>11. ASSUME NEW i \in 1..n, NEW j \in 1..m PROVE Meet(K, p, q, i, j) <=> Matches(bs[i], cs[j])
  <2>1. ASSUME Matches(bs[i], cs[j]) PROVE Meet(K, p, q, i, j)
    <3>1. bs[i].key \in K /\ cs[j].key = bs[i].key
      BY <1>3, <2>1 DEF Matches
    <3>2. QED
      BY <1>7, <3>1 DEF Meet
  <2>2. ASSUME Meet(K, p, q, i, j) PROVE Matches(bs[i], cs[j])
    <3>1. PICK k \in K : p[k] = i /\ q[k] = j
      BY <2>2 DEF Meet
    <3>2. PICK a \in 1..n, b \in 1..m :
            Matches(bs[a], cs[b]) /\ bs[a].key = k /\ cs[b].key = k
      BY <1>2
    <3>3. a = i /\ b = j
      BY <1>7, <3>1, <3>2
    <3>4. QED
      BY <3>2, <3>3
  <2>3. QED
    BY <2>1, <2>2
<1>12. ASSUME NEW i \in 1..n, NEW j \in 1..m, Matches(bs[i], cs[j])
       PROVE  {k \in K : p[k] = i /\ q[k] = j} = {bs[i].key}
  <2>1. bs[i].key \in K /\ cs[j].key = bs[i].key
    BY <1>3, <1>12 DEF Matches
  <2>2. QED
    BY <1>7, <2>1
<1>13. PICK back : MembersOf(back, len, bs, cs)
  <2>1. len = MatchLength(bs, cs)
    OBVIOUS
  <2> HIDE DEF len
  <2>2. QED
    BY <2>1, RetainedUnfolds
<1>14. LengthTable(len, K, p, q, n, m)
  <2>1. len = MatchLength(bs, cs)
    OBVIOUS
  <2> HIDE DEF len
  <2>2. /\ len \in [(0..n) \X (0..m) -> Nat]
        /\ \A i \in 0..n : \A j \in 0..m :
             len[<<i, j>>] =
                    IF i = 0 \/ j = 0 THEN 0
                    ELSE IF Matches(bs[i], cs[j]) THEN len[<<i-1, j-1>>] + 1
                    ELSE IF len[<<i-1, j>>] >= len[<<i, j-1>>] THEN len[<<i-1, j>>]
                    ELSE len[<<i, j-1>>]
    <3>1. LengthsOf(len, bs, cs)
      BY <2>1, MatchLengthUnfolds
    <3>2. QED
      BY <3>1 DEF LengthsOf, n, m
  <2>3. ASSUME NEW i \in 0..n, NEW j \in 0..m
        PROVE  len[<<i, j>>] = IF i = 0 \/ j = 0 THEN 0
                        ELSE IF Meet(K, p, q, i, j) THEN len[<<i-1, j-1>>] + 1
                        ELSE IF len[<<i-1, j>>] >= len[<<i, j-1>>] THEN len[<<i-1, j>>]
                        ELSE len[<<i, j-1>>]
    <3>1. ~(i = 0 \/ j = 0) => i \in 1..n /\ j \in 1..m
      BY <1>1
    <3>2. ~(i = 0 \/ j = 0) => (Meet(K, p, q, i, j) <=> Matches(bs[i], cs[j]))
      BY <1>11, <3>1
    <3>3. QED
      BY <2>2, <3>2
  <2>4. QED
    BY <2>2, <2>3 DEF LengthTable
<1>15. MemberTable(back, len, K, p, q, n, m)
  <2> HIDE DEF len
  <2> SUFFICES ASSUME NEW i \in 0..n, NEW j \in 0..m
               PROVE  back[<<i, j>>] = IF i = 0 \/ j = 0 THEN {}
                         ELSE IF Meet(K, p, q, i, j)
                              THEN {k \in K : p[k] = i /\ q[k] = j} \cup back[<<i-1, j-1>>]
                         ELSE IF len[<<i-1, j>>] >= len[<<i, j-1>>] THEN back[<<i-1, j>>]
                         ELSE back[<<i, j-1>>]
    BY DEF MemberTable
  <2>1. ~(i = 0 \/ j = 0) => i \in 1..n /\ j \in 1..m
    BY <1>1
  <2>2. ~(i = 0 \/ j = 0) => (Meet(K, p, q, i, j) <=> Matches(bs[i], cs[j]))
    BY <1>11, <2>1
  <2>3. ~(i = 0 \/ j = 0) /\ Matches(bs[i], cs[j])
            => {k \in K : p[k] = i /\ q[k] = j} = {bs[i].key}
    BY <1>12, <2>1
  <2>4. back[<<i, j>>] =
                      IF i = 0 \/ j = 0 THEN {}
                      ELSE IF Matches(bs[i], cs[j]) THEN {bs[i].key} \cup back[<<i-1, j-1>>]
                      ELSE IF len[<<i-1, j>>] >= len[<<i, j-1>>] THEN back[<<i-1, j>>]
                      ELSE back[<<i, j-1>>]
    BY <1>13 DEF n, m, MembersOf
  <2>5. QED
    BY <2>2, <2>3, <2>4
<1>16. IsFiniteSet(K)
  <2>1. IsFiniteSet(1..n)
    BY <1>1, FS_Interval
  <2>2. p \in Injection(K, 1..n)
    BY <1>8, <1>10 DEF Injection
  <2>3. QED
    BY <2>1, <2>2, FS_Injection
<1> DEFINE kept == RetainedKeys(bs, cs)
           l == len[<<n, m>>]
<1>17. Longest(kept, l, K, p, q, n, m)
  <2>1. Longest(back[<<n, m>>], len[<<n, m>>], K, p, q, n, m)
    <3> HIDE DEF len
    <3> QED
      BY <1>1, <1>8, <1>10, <1>14, <1>15, <1>16, TablesAreLongest
  <2>2. kept = back[<<n, m>>]
    BY <1>13 DEF n, m, MembersOf
  <2> HIDE DEF kept, l, len
  <2>3. QED
    BY <2>1, <2>2 DEF l
<1>18. Upto(K, p, q, n, m) = K
  <2>1. \A k \in K : p[k] <= n /\ q[k] <= m
    BY <1>1, <1>7
  <2>2. QED
    BY <2>1 DEF Upto
<1>19. ASSUME NEW A \in SUBSET K PROVE CommonOrder(bs, cs, A) <=> SameOrder(A, p, q)
  <2>1. \A k \in A : p[k] = At(bs, k) /\ q[k] = At(cs, k)
    BY <1>9
  <2>2. CommonOrder(bs, cs, A) <=> \A k, x \in A : At(bs, k) < At(bs, x) <=> At(cs, k) < At(cs, x)
    BY DEF CommonOrder
  <2> HIDE DEF At
  <2>3. QED
    BY <2>1, <2>2 DEF SameOrder
<1> HIDE DEF kept, l, len, At
<1>20. kept \subseteq K /\ CommonOrder(bs, cs, kept)
  BY <1>17, <1>18, <1>19 DEF Longest
<1>21. \A keys \in SUBSET K : CommonOrder(bs, cs, keys) => Cardinality(keys) <= Cardinality(kept)
  BY <1>17, <1>18, <1>19 DEF Longest
<1>22. QED
  BY <1>20, <1>21 DEF IsLongestCommon, K, kept

----------------------------------------------------------------------------
(* Picked places *)

\* Where the members of a picked list come from: all the places, in their order.
IsPicking(t, pos, list, places) ==
    /\ DOMAIN t = 1..Len(t) /\ Len(t) \in Nat
    /\ pos \in [1..Len(t) -> places]
    /\ \A k \in 1..Len(t) : t[k] = list[pos[k]]
    /\ \A k, l \in 1..Len(t) : k < l => pos[k] < pos[l]
    /\ \A i \in places : \E k \in 1..Len(t) : pos[k] = i

\* Picked takes all the places, in their order.
LEMMA PickedUnfolds ==
    ASSUME NEW S, NEW list \in Seq(S), NEW places \in SUBSET (1..Len(list))
    PROVE  /\ Picked(list, places) \in Seq(S)
           /\ \E pos : IsPicking(Picked(list, places), pos, list, places)
<1> DEFINE n == Len(list)
           ss == [i \in DOMAIN list |-> IF i \in places THEN <<list[i]>> ELSE <<>>]
           t == Picked(list, places)
<1>1. n \in Nat /\ DOMAIN list = 1..n /\ \A i \in 1..n : list[i] \in S
  OBVIOUS
<1>2. ss \in Seq(Seq(S)) /\ Len(ss) = n
  <2>1. \A i \in 1..n : <<list[i]>> \in Seq(S) /\ <<>> \in Seq(S)
    BY <1>1
  <2>2. \A i \in 1..n : ss[i] \in Seq(S)
    BY <1>1, <2>1
  <2>3. ss = [i \in 1..n |-> ss[i]]
    BY <1>1
  <2> HIDE DEF ss, n
  <2>4. QED
    BY <1>1, <2>2, <2>3
<1>3. t = FlattenSeq(ss)
  BY DEF Picked
<1>4. \A i \in 1..n : IF i \in places THEN Len(ss[i]) = 1 /\ ss[i][1] = list[i] ELSE Len(ss[i]) = 0
  BY <1>1
<1> HIDE DEF ss, t, n
<1>5. PICK off : IsLayout(off, ss)
  BY <1>2, LayoutExists
<1>6. IsLaidOut(t, off, ss, S)
  BY <1>2, <1>3, <1>5, FlattenLayout
<1>7. /\ off \in [0..n -> Nat] /\ off[0] = 0 /\ Len(t) = off[n] /\ t \in Seq(S)
      /\ \A i \in 1..n : off[i] = off[i - 1] + Len(ss[i])
      /\ \A i \in 1..n : \A j \in 1..Len(ss[i]) : t[off[i - 1] + j] = ss[i][j]
  BY <1>2, <1>5, <1>6 DEF IsLayout, IsLaidOut
<1>8. \A i \in 1..n : /\ i \in places => off[i] = off[i - 1] + 1 /\ t[off[i]] = list[i]
                      /\ i \notin places => off[i] = off[i - 1]
  <2> SUFFICES ASSUME NEW i \in 1..n
               PROVE  /\ i \in places => off[i] = off[i - 1] + 1 /\ t[off[i]] = list[i]
                      /\ i \notin places => off[i] = off[i - 1]
    OBVIOUS
  <2>1. off[i] = off[i - 1] + Len(ss[i]) /\ off[i - 1] \in Nat
    BY <1>1, <1>7
  <2>2. \A j \in 1..Len(ss[i]) : t[off[i - 1] + j] = ss[i][j]
    BY <1>7
  <2>3. CASE i \in places
    <3>1. Len(ss[i]) = 1 /\ ss[i][1] = list[i]
      BY <1>4, <2>3
    <3>2. t[off[i - 1] + 1] = list[i]
      BY <2>2, <3>1
    <3>3. QED
      BY <2>1, <2>3, <3>1, <3>2
  <2>4. CASE i \notin places
    BY <1>4, <2>1, <2>4
  <2>5. QED
    BY <2>3, <2>4
<1>9. \A k \in 0..n : \A i \in 0..k : off[i] <= off[k]
  BY <1>2, <1>5, LayoutIsMonotone
<1>10. \A p \in 1..Len(t) : \E i \in 1..n : off[i - 1] < p /\ p <= off[i]
  BY <1>2, <1>5, <1>7, LayoutCovers
<1>11. \A p \in 1..Len(t) : \E i \in places : i \in 1..n /\ off[i] = p /\ t[p] = list[i]
  <2> SUFFICES ASSUME NEW p \in 1..Len(t)
               PROVE  \E i \in places : i \in 1..n /\ off[i] = p /\ t[p] = list[i]
    OBVIOUS
  <2>1. PICK i \in 1..n : off[i - 1] < p /\ p <= off[i]
    BY <1>10
  <2>2. off[i - 1] \in Nat /\ off[i] \in Nat /\ p \in Nat
    BY <1>1, <1>7
  <2>3. i \in places
    BY <1>8, <2>1, <2>2
  <2>4. off[i] = p
    BY <1>8, <2>1, <2>2, <2>3
  <2>5. QED
    BY <1>8, <2>3, <2>4
<1> DEFINE pos == [p \in 1..Len(t) |->
                    CHOOSE i \in places : i \in 1..n /\ off[i] = p /\ t[p] = list[i]]
<1>12. \A p \in 1..Len(t) : pos[p] \in places /\ pos[p] \in 1..n /\ off[pos[p]] = p /\ t[p] = list[pos[p]]
  BY <1>11
<1>13. pos \in [1..Len(t) -> places]
  <2>1. pos = [p \in 1..Len(t) |-> pos[p]]
    OBVIOUS
  <2> HIDE DEF pos
  <2>2. QED
    BY <1>12, <2>1
<1> HIDE DEF pos
<1>14. ASSUME NEW k \in 1..Len(t), NEW l \in 1..Len(t), k < l PROVE pos[k] < pos[l]
  <2>1. /\ pos[k] \in 1..n /\ off[pos[k]] = k
        /\ pos[l] \in 1..n /\ off[pos[l]] = l
    BY <1>12
  <2>2. ASSUME pos[l] <= pos[k] PROVE FALSE
    <3>1. pos[k] \in 0..n /\ pos[l] \in 0..pos[k]
      BY <1>1, <2>1, <2>2
    <3>2. off[pos[l]] <= off[pos[k]]
      BY <1>9, <3>1
    <3>3. QED
      BY <1>14, <2>1, <3>2
  <2>3. QED
    BY <1>1, <2>1, <2>2
<1>15. ASSUME NEW i \in places PROVE \E k \in 1..Len(t) : pos[k] = i
  <2>1. i \in 1..n /\ i \in 0..n /\ i - 1 \in 0..n /\ n \in 0..n
    BY <1>1 DEF n
  <2>2. off[i] \in Nat /\ off[i - 1] \in Nat /\ off[i] = off[i - 1] + 1 /\ off[i] <= off[n]
    BY <1>1, <1>7, <1>8, <1>9, <2>1
  <2>3. off[i] \in 1..Len(t)
    BY <1>7, <2>2
  <2> DEFINE j == pos[off[i]]
  <2>4. j \in 1..n /\ j \in places /\ off[j] = off[i]
    BY <1>12, <2>3
  <2>5. off[j - 1] \in Nat /\ off[j] = off[j - 1] + 1
    <3>1. j - 1 \in 0..n
      BY <1>1, <2>4
    <3> HIDE DEF j
    <3>2. off[j - 1] \in Nat
      BY <1>7, <3>1
    <3>3. QED
      BY <1>8, <2>4, <3>2
  <2>6. ASSUME j < i PROVE FALSE
    <3>1. i - 1 \in 0..n /\ j \in 0..(i - 1)
      BY <1>1, <2>1, <2>4, <2>6
    <3>2. off[j] <= off[i - 1]
      BY <1>9, <3>1
    <3>3. QED
      BY <2>2, <2>4, <3>2
  <2>7. ASSUME i < j PROVE FALSE
    <3>1. j - 1 \in 0..n /\ i \in 0..(j - 1)
      BY <1>1, <2>1, <2>4, <2>7
    <3>2. off[i] <= off[j - 1]
      BY <1>9, <3>1
    <3>3. QED
      BY <2>2, <2>4, <2>5, <3>2
  <2>8. j = i
    BY <2>1, <2>4, <2>6, <2>7
  <2>9. QED
    BY <2>3, <2>8
<1>16. DOMAIN t = 1..Len(t) /\ Len(t) \in Nat
  BY <1>7
<1>17. IsPicking(t, pos, list, places)
  BY <1>12, <1>13, <1>14, <1>15, <1>16 DEF IsPicking
<1>18. t \in Seq(S)
  BY <1>7
<1>19. QED
  BY <1>17, <1>18 DEF t

----------------------------------------------------------------------------
(* The batches of Calls *)

Follows(ops, i) == i > 1 /\ Chains(ops[i], ops[i-1])

AppendOf(ops, i, size) ==
    [op |-> "append", under |-> ops[i].under,
     nodes |-> [k \in 1..size |-> ops[i + k - 1].node],
     at |-> IF Follows(ops, i) THEN "after" ELSE ops[i].at,
     after |-> IF Follows(ops, i) THEN ops[i-1].node ELSE ops[i].after]

\* The calls take the operations one group after the other: head says where each of
\* them begins, and the last one ends with the operations.
IsBatching(queue, head, ops) ==
    LET L == Len(queue)
        n == Len(ops)
    IN  /\ L \in Nat /\ DOMAIN queue = 1..L /\ queue = [k \in 1..L |-> queue[k]]
        /\ head \in [1..(L + 1) -> 1..(n + 1)] /\ head[1] = 1 /\ head[L + 1] = n + 1
        /\ \A k \in 1..L :
            /\ head[k] < head[k + 1]
            /\ queue[k] = IF IsNew(ops[head[k]])
                          THEN AppendOf(ops, head[k], head[k + 1] - head[k]) ELSE ops[head[k]]
            /\ \A i \in (head[k] + 1)..(head[k + 1] - 1) : Follows(ops, i)

\* The place of an operation in its batch.
IsCount(nth, ops) ==
    /\ nth \in [1..Len(ops) -> Nat \ {0}]
    /\ \A i \in 1..Len(ops) :
        nth[i] = IF Follows(ops, i) /\ nth[i - 1] < BatchMax THEN nth[i - 1] + 1 ELSE 1

BatchAt(nth, ops, i) == {j \in DOMAIN ops : j >= i /\ nth[j] = j - i + 1}

\* Calls, with the recursion in it taken for granted.
IsGrouped(queue, nth, ops) ==
    /\ IsCount(nth, ops)
    /\ queue = LET order == Picked([i \in DOMAIN ops |-> i], {i \in DOMAIN ops : nth[i] = 1})
               IN  [k \in DOMAIN order |->
                        IF IsNew(ops[order[k]])
                        THEN AppendOf(ops, order[k], Cardinality(BatchAt(nth, ops, order[k])))
                        ELSE ops[order[k]]]

\* Calls counts the operations and groups them by the counts.
LEMMA CallsUnfold ==
    ASSUME NEW S, NEW ops \in Seq(S)
    PROVE  \E nth : IsGrouped(Calls(ops), nth, ops)
<1> DEFINE n == Len(ops)
           T == Nat \ {0}
           step == [x \in T \X (1..n) |->
                        IF Follows(ops, x[2]) /\ x[1] < BatchMax THEN x[1] + 1 ELSE 1]
           Body(f, i) == IF Follows(ops, i) /\ f[i - 1] < BatchMax THEN f[i - 1] + 1 ELSE 1
           Describes(f) == f = [i \in 1..n |-> Body(f, i)]
           nth == CHOOSE f : Describes(f)
<1>1. n \in Nat /\ DOMAIN ops = 1..n
  OBVIOUS
<1> HIDE DEF n
<1>2. \A t \in T : \A i \in 1..n :
        step[<<t, i>>] = IF Follows(ops, i) /\ t < BatchMax THEN t + 1 ELSE 1
  OBVIOUS
<1>3. \A t \in T : \A i \in 1..n : step[<<t, i>>] \in T
  <2> SUFFICES ASSUME NEW t \in T, NEW i \in 1..n PROVE step[<<t, i>>] \in T
    OBVIOUS
  <2>1. t + 1 \in T /\ 1 \in T
    OBVIOUS
  <2> HIDE DEF step, T
  <2>2. QED
    BY <1>2, <2>1
<1>4. PICK g : IsStepwise(g, n, T, 1, step)
  <2>1. 1 \in T
    OBVIOUS
  <2> HIDE DEF step, T
  <2>2. QED
    BY <1>1, <1>3, <2>1, StepwiseFunction
<1> DEFINE f == [i \in 1..n |-> g[i]]
<1>5. \A i \in 1..n : f[i] \in T /\ f[i] = Body(f, i)
  <2> SUFFICES ASSUME NEW i \in 1..n PROVE f[i] \in T /\ f[i] = Body(f, i)
    OBVIOUS
  <2>1. i - 1 \in 0..n /\ i \in 0..n
    BY <1>1
  <2>2. g[i] \in T /\ g[i - 1] \in T /\ g[i] = step[<<g[i - 1], i>>]
    <3> HIDE DEF step, T
    <3> QED
      BY <1>4, <2>1 DEF IsStepwise
  <2>3. g[i] = IF Follows(ops, i) /\ g[i - 1] < BatchMax THEN g[i - 1] + 1 ELSE 1
    <3> HIDE DEF step, T
    <3> QED
      BY <1>2, <2>2
  <2>4. Follows(ops, i) => i - 1 \in 1..n
    BY <2>1 DEF Follows
  <2>5. f[i] = g[i] /\ Follows(ops, i) => f[i - 1] = g[i - 1]
    BY <2>4
  <2>6. f[i] = g[i]
    OBVIOUS
  <2>7. Body(f, i) = g[i]
    <3>1. CASE Follows(ops, i)
      <4>1. f[i - 1] = g[i - 1]
        BY <2>4, <3>1
      <4> HIDE DEF f
      <4>2. QED
        BY <2>3, <3>1, <4>1
    <3>2. CASE ~Follows(ops, i)
      BY <2>3, <3>2
    <3>3. QED
      BY <3>1, <3>2
  <2> HIDE DEF f, Body, T
  <2>8. QED
    BY <2>2, <2>6, <2>7
<1>6. Describes(f)
  <2> HIDE DEF Body
  <2> QED
    BY <1>5
<1>7. Describes(nth)
  <2> HIDE DEF Describes, f
  <2> QED
    BY <1>6
<1>8. nth = [i \in 1..n |-> nth[i]] /\ \A i \in 1..n : nth[i] = Body(nth, i)
  <2> HIDE DEF nth, Body
  <2> QED
    BY <1>7
<1> DEFINE E == {0} \cup {i \in 1..n : nth[i] \in T}
<1>9. ASSUME NEW k \in 0..(n - 1), k \in E PROVE k + 1 \in E
  <2> HIDE DEF nth, f, step
  <2>1. k + 1 \in 1..n /\ k + 1 - 1 = k
    BY <1>1
  <2>2. nth[k + 1] = IF Follows(ops, k + 1) /\ nth[k] < BatchMax THEN nth[k] + 1 ELSE 1
    <3>1. nth[k + 1] = Body(nth, k + 1)
      <4> HIDE DEF Body
      <4> QED
        BY <1>8, <2>1
    <3>2. QED
      BY <2>1, <3>1
  <2>3. Follows(ops, k + 1) => nth[k] \in T
    <3>1. Follows(ops, k + 1) => k # 0
      BY DEF Follows
    <3>2. QED
      BY <1>9, <3>1
  <2>4. nth[k + 1] \in T
    BY <2>2, <2>3
  <2>5. QED
    BY <2>1, <2>4
<1>10. \A i \in 1..n : nth[i] \in T
  <2> HIDE DEF nth, f, step, T
  <2>1. 0 \in E
    OBVIOUS
  <2>2. 0..n \subseteq E
    <3> HIDE DEF E
    <3> QED
      BY <1>1, <1>9, <2>1, BoundedInduction
  <2>3. QED
    BY <1>1, <2>2
<1>11. IsCount(nth, ops)
  <2>1. nth \in [1..n -> T]
    <3> HIDE DEF nth, T, Body
    <3> QED
      BY <1>8, <1>10
  <2>2. QED
    <3> HIDE DEF nth
    <3> QED
      BY <1>8, <2>1 DEF IsCount, n
<1>12. Calls(ops) =
            LET order == Picked([i \in DOMAIN ops |-> i], {i \in DOMAIN ops : nth[i] = 1})
            IN  [k \in DOMAIN order |->
                        IF IsNew(ops[order[k]])
                        THEN AppendOf(ops, order[k], Cardinality(BatchAt(nth, ops, order[k])))
                        ELSE ops[order[k]]]
  <2>1. nth = CHOOSE h : h = [i \in DOMAIN ops |->
                IF (i > 1 /\ Chains(ops[i], ops[i-1])) /\ h[i-1] < BatchMax THEN h[i-1] + 1 ELSE 1]
    BY <1>1 DEF Follows
  <2> HIDE DEF nth
  <2>2. QED
    BY <2>1 DEF Calls, AppendOf, BatchAt, Follows
<1>13. IsGrouped(Calls(ops), nth, ops)
  <2> HIDE DEF nth
  <2> QED
    BY <1>11, <1>12 DEF IsGrouped
<1>14. QED
  BY <1>13

\* Counts go up by one at most.
LEMMA CountsClimbSlowly ==
    ASSUME NEW S, NEW ops \in Seq(S), NEW nth, IsCount(nth, ops),
           NEW h \in 1..Len(ops), nth[h] = 1, NEW j \in h..Len(ops)
    PROVE  nth[j] <= j - h + 1
<1> DEFINE n == Len(ops)
           l == n - h
           E == {d \in 0..l : nth[h + d] <= d + 1}
<1>1. n \in Nat /\ h \in 1..n /\ l \in Nat
  OBVIOUS
<1>2. \A i \in 1..n : nth[i] \in Nat /\ (nth[i] <= nth[i - 1] + 1 \/ nth[i] = 1)
  BY DEF IsCount
<1>3. \A d \in 0..l : h + d \in 1..n
  BY <1>1
<1> HIDE DEF n
<1>4. 0 \in E
  BY <1>1
<1>5. ASSUME NEW d \in 0..(l - 1), d \in E PROVE d + 1 \in E
  <2>1. h + d \in 1..n /\ h + (d + 1) \in 1..n /\ d + 1 \in 0..l /\ (h + (d + 1)) - 1 = h + d
    BY <1>1
  <2>2. /\ nth[h + (d + 1)] \in Nat /\ nth[h + d] \in Nat
        /\ nth[h + (d + 1)] <= nth[h + d] + 1 \/ nth[h + (d + 1)] = 1
    <3> DEFINE x == h + (d + 1)
    <3>1. x \in 1..n /\ x - 1 = h + d
      BY <2>1
    <3> HIDE DEF x
    <3>2. nth[x] \in Nat /\ (nth[x] <= nth[x - 1] + 1 \/ nth[x] = 1)
      BY <1>2, <3>1
    <3>3. nth[h + d] \in Nat
      BY <1>2, <2>1
    <3>4. QED
      BY <3>1, <3>2, <3>3 DEF x
  <2>3. nth[h + d] <= d + 1
    BY <1>5
  <2>4. QED
    BY <2>1, <2>2, <2>3
<1>6. 0..l \subseteq E
  <2> HIDE DEF E, l
  <2> QED
    BY <1>1, <1>4, <1>5, BoundedInduction
<1>7. j - h \in E
  <2>1. j - h \in 0..l
    BY <1>1 DEF n
  <2> HIDE DEF E, l
  <2>2. QED
    BY <1>6, <2>1
<1>8. nth[h + (j - h)] <= (j - h) + 1 /\ h + (j - h) = j
  BY <1>1, <1>7 DEF n
<1>9. QED
  BY <1>8

\* Up to the next start they go up by one.
LEMMA CountsClimb ==
    ASSUME NEW S, NEW ops \in Seq(S), NEW nth, IsCount(nth, ops),
           NEW h \in 1..Len(ops), nth[h] = 1, NEW e \in h..Len(ops),
           \A i \in (h + 1)..e : nth[i] # 1
    PROVE  \A j \in h..e : nth[j] = j - h + 1
<1> DEFINE n == Len(ops)
           l == e - h
           E == {d \in 0..l : nth[h + d] = d + 1}
<1>1. n \in Nat /\ h \in 1..n /\ e \in h..n /\ l \in Nat
  OBVIOUS
<1>2. \A i \in 1..n : nth[i] # 1 => nth[i] = nth[i - 1] + 1
  BY DEF IsCount
<1> HIDE DEF n
<1>3. 0 \in E
  BY <1>1
<1>4. ASSUME NEW d \in 0..(l - 1), d \in E PROVE d + 1 \in E
  <2> DEFINE x == h + (d + 1)
  <2>1. x \in 1..n /\ x - 1 = h + d /\ x \in (h + 1)..e /\ d + 1 \in 0..l
    BY <1>1
  <2>2. nth[h + d] = d + 1
    BY <1>4
  <2> HIDE DEF x
  <2>3. nth[x] = nth[x - 1] + 1
    BY <1>2, <2>1
  <2>4. nth[x] = (d + 1) + 1
    BY <2>1, <2>2, <2>3
  <2>5. QED
    BY <2>1, <2>4 DEF x
<1>5. 0..l \subseteq E
  <2> HIDE DEF E, l
  <2> QED
    BY <1>1, <1>3, <1>4, BoundedInduction
<1>6. ASSUME NEW j \in h..e PROVE nth[j] = j - h + 1
  <2>1. j - h \in 0..l
    BY <1>1
  <2>2. j - h \in E
    <3> HIDE DEF E, l
    <3> QED
      BY <1>5, <2>1
  <2>3. nth[h + (j - h)] = (j - h) + 1 /\ h + (j - h) = j
    BY <1>1, <2>2
  <2>4. QED
    BY <2>3
<1>7. QED
  BY <1>6

\* The groups are runs of chained operations that follow one another.
LEMMA CallsAreBatches ==
    ASSUME NEW S, NEW ops \in Seq(S)
    PROVE  \E head : IsBatching(Calls(ops), head, ops)
<1> DEFINE n == Len(ops)
           queue == Calls(ops)
<1>1. n \in Nat /\ DOMAIN ops = 1..n
  OBVIOUS
<1>2. PICK nth : IsGrouped(queue, nth, ops)
  BY CallsUnfold
<1> DEFINE starts == {i \in 1..n : nth[i] = 1}
           id == [i \in 1..n |-> i]
           order == Picked(id, starts)
<1>3. id \in Seq(1..n) /\ Len(id) = n /\ starts \in SUBSET (1..Len(id))
  BY <1>1
<1>4. queue = [k \in DOMAIN order |->
                    IF IsNew(ops[order[k]])
                    THEN AppendOf(ops, order[k], Cardinality(BatchAt(nth, ops, order[k])))
                    ELSE ops[order[k]]]
  BY <1>1, <1>2 DEF IsGrouped
<1>5. IsCount(nth, ops)
  BY <1>2 DEF IsGrouped
<1>6. \A i \in 1..n : nth[i] # 1 => Follows(ops, i)
  BY <1>5 DEF IsCount
<1>7. n # 0 => 1 \in starts
  <2>1. ~Follows(ops, 1)
    BY DEF Follows
  <2>2. n # 0 => 1 \in 1..n
    BY <1>1
  <2>3. QED
    BY <1>6, <2>1, <2>2
<1> HIDE DEF n, queue
<1>8. PICK pos : IsPicking(order, pos, id, starts)
  <2> HIDE DEF id, starts
  <2> QED
    BY <1>3, PickedUnfolds
<1> DEFINE L == Len(order)
<1>9. /\ L \in Nat /\ DOMAIN order = 1..L
      /\ \A k \in 1..L : pos[k] \in starts /\ order[k] = pos[k]
      /\ \A k, l \in 1..L : k < l => pos[k] < pos[l]
      /\ \A i \in starts : \E k \in 1..L : pos[k] = i
  <2>1. /\ L \in Nat /\ DOMAIN order = 1..L
        /\ \A k \in 1..L : pos[k] \in starts /\ order[k] = id[pos[k]]
        /\ \A k, l \in 1..L : k < l => pos[k] < pos[l]
        /\ \A i \in starts : \E k \in 1..L : pos[k] = i
    <3> HIDE DEF id, starts, order
    <3> QED
      BY <1>8 DEF IsPicking
  <2>2. \A i \in starts : id[i] = i
    OBVIOUS
  <2> HIDE DEF id, starts, order
  <2>3. QED
    BY <2>1, <2>2
<1>10. \A i : i \in starts <=> i \in 1..n /\ nth[i] = 1
  OBVIOUS
<1> HIDE DEF order, L, starts, id
<1> DEFINE head == [k \in 1..(L + 1) |-> IF k = L + 1 THEN n + 1 ELSE pos[k]]
<1>11. /\ \A k \in 1..L : head[k] = pos[k] /\ head[k] \in 1..n /\ nth[head[k]] = 1
       /\ head[L + 1] = n + 1
  <2>1. \A k \in 1..L : k \in 1..(L + 1) /\ k # L + 1
    BY <1>9
  <2>2. L + 1 \in 1..(L + 1)
    BY <1>9
  <2>3. QED
    BY <1>9, <1>10, <2>1, <2>2
<1>12. head \in [1..(L + 1) -> 1..(n + 1)]
  <2>1. \A k \in 1..(L + 1) : k = L + 1 \/ k \in 1..L
    BY <1>9
  <2>2. \A k \in 1..(L + 1) : head[k] \in 1..(n + 1)
    <3> HIDE DEF head
    <3> QED
      BY <1>1, <1>11, <2>1
  <2>3. head = [k \in 1..(L + 1) |-> head[k]]
    OBVIOUS
  <2> HIDE DEF head
  <2>4. QED
    BY <2>2, <2>3
<1> HIDE DEF head
<1>13. head[1] = 1
  <2>1. CASE n = 0
    <3>1. L = 0
      <4>1. ASSUME L # 0 PROVE FALSE
        <5>1. 1 \in 1..L
          BY <1>9, <4>1
        <5>2. QED
          BY <1>9, <1>10, <2>1, <5>1
      <4>2. QED
        BY <4>1
    <3>2. QED
      BY <1>11, <2>1, <3>1
  <2>2. CASE n # 0
    <3>1. PICK k \in 1..L : pos[k] = 1
      BY <1>7, <1>9, <2>2
    <3>2. 1 \in 1..L
      BY <1>9
    <3>3. pos[1] \in 1..n
      BY <1>9, <1>10, <3>2
    <3>4. k = 1
      <4>1. ASSUME k # 1 PROVE FALSE
        <5>1. 1 < k
          BY <1>9, <4>1
        <5>2. pos[1] < pos[k]
          BY <1>9, <3>2, <5>1
        <5>3. QED
          BY <1>1, <3>1, <3>3, <5>2
      <4>2. QED
        BY <4>1
    <3>5. QED
      BY <1>11, <3>1, <3>2, <3>4
  <2>3. QED
    BY <2>1, <2>2
<1>14. ASSUME NEW k \in 1..L
       PROVE  /\ head[k] < head[k + 1]
              /\ \A i \in (head[k] + 1)..(head[k + 1] - 1) : nth[i] # 1 /\ i \in 1..n
  <2>1. k + 1 \in 1..(L + 1) /\ head[k + 1] \in 1..(n + 1) /\ head[k] \in 1..n
    BY <1>9, <1>11, <1>12
  <2>2. k + 1 = L + 1 \/ k + 1 \in 1..L
    BY <1>9
  <2>3. head[k] < head[k + 1]
    <3>1. CASE k + 1 = L + 1
      BY <1>1, <1>11, <2>1, <3>1
    <3>2. CASE k + 1 \in 1..L
      <4>1. pos[k] < pos[k + 1]
        BY <1>9, <3>2
      <4>2. QED
        BY <1>11, <3>2, <4>1
    <3>3. QED
      BY <2>2, <3>1, <3>2
  <2>4. ASSUME NEW i \in (head[k] + 1)..(head[k + 1] - 1)
        PROVE  nth[i] # 1 /\ i \in 1..n
    <3>1. i \in 1..n /\ head[k] < i /\ i < head[k + 1]
      BY <1>1, <2>1
    <3>2. ASSUME nth[i] = 1 PROVE FALSE
      <4>1. PICK l \in 1..L : pos[l] = i
        BY <1>9, <1>10, <3>1, <3>2
      <4>2. pos[k] < pos[l]
        BY <1>11, <3>1, <4>1
      <4>3. k < l
        <5>1. ASSUME l <= k PROVE FALSE
          <6>1. l = k \/ l < k
            BY <5>1
          <6>2. pos[l] = pos[k] \/ pos[l] < pos[k]
            BY <1>9, <6>1
          <6>3. pos[l] \in 1..n /\ pos[k] \in 1..n
            BY <1>9, <1>10
          <6>4. QED
            BY <1>1, <4>2, <6>2, <6>3
        <5>2. QED
          BY <5>1
      <4>4. k + 1 \in 1..L
        BY <1>9, <4>3
      <4>5. pos[l] < pos[k + 1]
        BY <1>11, <3>1, <4>1, <4>4
      <4>6. k + 1 = l \/ k + 1 < l
        BY <4>3
      <4>7. pos[k + 1] = pos[l] \/ pos[k + 1] < pos[l]
        BY <1>9, <4>4, <4>6
      <4>8. pos[l] \in 1..n /\ pos[k + 1] \in 1..n
        BY <1>9, <1>10, <4>4
      <4>9. QED
        BY <1>1, <4>5, <4>7, <4>8
    <3>3. QED
      BY <3>1, <3>2
  <2>5. QED
    BY <2>3, <2>4
<1>15. ASSUME NEW k \in 1..L
       PROVE  Cardinality(BatchAt(nth, ops, head[k])) = head[k + 1] - head[k]
  <2> DEFINE h == head[k]
             e == head[k + 1] - 1
  <2>1. k + 1 \in 1..(L + 1) /\ head[k + 1] \in 1..(n + 1) /\ head[k] \in 1..n
    BY <1>9, <1>11, <1>12
  <2>2. h \in 1..n /\ e \in h..n /\ nth[h] = 1 /\ \A i \in (h + 1)..e : nth[i] # 1
    BY <1>1, <1>11, <1>14, <2>1
  <2> HIDE DEF h, e
  <2>3. \A j \in h..e : nth[j] = j - h + 1
    BY <1>5, <2>2, CountsClimb DEF n
  <2>4. ASSUME NEW j \in 1..n, j >= h, nth[j] = j - h + 1 PROVE j <= e
    <3>1. ASSUME j > e PROVE FALSE
      <4>1. e + 1 \in 1..n /\ j \in (e + 1)..n
        BY <1>1, <2>2, <3>1
      <4>2. e + 1 = head[k + 1]
        BY <1>1, <2>1 DEF e
      <4>3. k + 1 \in 1..L
        <5>1. k + 1 # L + 1
          BY <1>1, <1>11, <4>1, <4>2
        <5>2. QED
          BY <1>9, <2>1, <5>1
      <4>4. nth[e + 1] = 1
        BY <1>11, <4>2, <4>3
      <4> DEFINE g == e + 1
      <4>5. g \in 1..n /\ j \in g..n /\ nth[g] = 1
        BY <4>1, <4>4
      <4> HIDE DEF g
      <4>6. nth[j] <= j - g + 1
        BY <1>5, <4>5, CountsClimbSlowly DEF n
      <4>7. QED
        BY <1>1, <2>2, <2>4, <4>1, <4>6 DEF g
    <3>2. QED
      BY <2>2, <3>1
  <2>5. BatchAt(nth, ops, h) = h..e
    <3>1. \A j \in h..e : j \in 1..n /\ j >= h
      BY <1>1, <2>2
    <3>2. QED
      BY <1>1, <2>3, <2>4, <3>1 DEF BatchAt
  <2>6. h \in Int /\ e \in Int
    BY <1>1, <2>2
  <2>7. Cardinality(h..e) = IF h > e THEN 0 ELSE e - h + 1
    BY <2>6, FS_Interval
  <2>8. QED
    BY <1>1, <2>1, <2>2, <2>5, <2>7 DEF h, e
<1>16. DOMAIN queue = 1..L /\ Len(queue) = L /\ queue = [k \in 1..L |-> queue[k]]
  BY <1>4, <1>9
<1>17. ASSUME NEW k \in 1..L
       PROVE  queue[k] = IF IsNew(ops[head[k]])
                         THEN AppendOf(ops, head[k], head[k + 1] - head[k]) ELSE ops[head[k]]
  BY <1>4, <1>9, <1>11, <1>15
<1>18. IsBatching(queue, head, ops)
  <2>1. \A k \in 1..L : \A i \in (head[k] + 1)..(head[k + 1] - 1) : Follows(ops, i)
    BY <1>6, <1>14
  <2>2. QED
    BY <1>9, <1>11, <1>12, <1>13, <1>14, <1>16, <1>17, <2>1 DEF IsBatching, n
<1>19. QED
  BY <1>18 DEF queue

----------------------------------------------------------------------------
(* What live and cached trees consist of *)

Kinds == {"block", "page"}

\* What a page may consist of, and what a cache may, with ids from a set for each level.
LiveLeaves(ids) == [id : ids, kind : Kinds, hash : Hashes \cup {Ghost}, kids : {<<>>}]
LiveLevels(tops, ids) == [id : tops, kind : Kinds, hash : Hashes \cup {Ghost},
                          kids : Seq(LiveLeaves(ids))]

LeafEntries(ids) == [id : ids, key : Keys, kind : Kinds, hash : Hashes, kids : {<<>>}]
EntryLevels(tops, ids) == [id : tops, key : Keys, kind : Kinds, hash : Hashes,
                           kids : Seq(LeafEntries(ids))]

LiveNodes(ids)   == LiveLevels(ids, ids)
NodeEntries(ids) == EntryLevels(ids, ids)

\* What both have in common: nodes of N with leaves of L under them.
AreNodes(N, L) ==
    \A n \in N : n.kids \in Seq(L) /\ \A s \in Seq(L) : [n EXCEPT !.kids = s] \in N

TakesHash(N, L, hash) ==
    /\ \A n \in N : [n EXCEPT !.hash = hash] \in N
    /\ \A l \in L : [l EXCEPT !.hash = hash] \in L

\* A list over a set is one over a larger set.
LEMMA SeqSubset ==
    ASSUME NEW S, NEW T, S \subseteq T, NEW s \in Seq(S)
    PROVE  s \in Seq(T)
OBVIOUS

\* A function on the numbers up to n is a list.
LEMMA ListIsSeq ==
    ASSUME NEW S, NEW n \in Nat, NEW s, s = [i \in 1..n |-> s[i]], \A i \in 1..n : s[i] \in S
    PROVE  s \in Seq(S) /\ Len(s) = n
OBVIOUS

\* Live blocks are nodes.
LEMMA LiveAreNodes ==
    ASSUME NEW tops, NEW ids
    PROVE  /\ AreNodes(LiveLevels(tops, ids), LiveLeaves(ids))
           /\ LiveLeaves(tops) \subseteq LiveLevels(tops, ids)
           /\ \A hash \in Hashes : TakesHash(LiveLevels(tops, ids), LiveLeaves(ids), hash)
<1> DEFINE L == LiveLeaves(ids)
           N == LiveLevels(tops, ids)
<1>1. <<>> \in Seq(L)
  OBVIOUS
<1>2. LiveLeaves(tops) \subseteq N
  <2> SUFFICES ASSUME NEW l \in LiveLeaves(tops) PROVE l \in N
    OBVIOUS
  <2>1. l.kids \in Seq(L)
    BY <1>1 DEF LiveLeaves
  <2>2. QED
    BY <2>1 DEF LiveLeaves, LiveLevels
<1>3. \A n \in N : n.kids \in Seq(L) /\ \A s \in Seq(L) : [n EXCEPT !.kids = s] \in N
  <2> HIDE DEF L
  <2> QED
    BY DEF LiveLevels, L
<1>4. \A hash \in Hashes : TakesHash(N, L, hash)
  BY DEF TakesHash, LiveLevels, LiveLeaves
<1>5. QED
  BY <1>2, <1>3, <1>4 DEF AreNodes

\* Cached blocks are nodes.
LEMMA EntriesAreNodes ==
    ASSUME NEW tops, NEW ids
    PROVE  /\ AreNodes(EntryLevels(tops, ids), LeafEntries(ids))
           /\ LeafEntries(tops) \subseteq EntryLevels(tops, ids)
           /\ \A hash \in Hashes : TakesHash(EntryLevels(tops, ids), LeafEntries(ids), hash)
<1> DEFINE L == LeafEntries(ids)
           N == EntryLevels(tops, ids)
<1>1. <<>> \in Seq(L)
  OBVIOUS
<1>2. LeafEntries(tops) \subseteq N
  <2> SUFFICES ASSUME NEW l \in LeafEntries(tops) PROVE l \in N
    OBVIOUS
  <2>1. l.kids \in Seq(L)
    BY <1>1 DEF LeafEntries
  <2>2. QED
    BY <2>1 DEF LeafEntries, EntryLevels
<1>3. \A n \in N : n.kids \in Seq(L) /\ \A s \in Seq(L) : [n EXCEPT !.kids = s] \in N
  <2> HIDE DEF L
  <2> QED
    BY DEF EntryLevels, L
<1>4. \A hash \in Hashes : TakesHash(N, L, hash)
  BY DEF TakesHash, EntryLevels, LeafEntries
<1>5. QED
  BY <1>2, <1>3, <1>4 DEF AreNodes

\* More ids, more trees.
LEMMA MoreIds ==
    ASSUME NEW tops, NEW ids, NEW moreTops, NEW more, tops \subseteq moreTops, ids \subseteq more
    PROVE  /\ Seq(LiveLevels(tops, ids)) \subseteq Seq(LiveLevels(moreTops, more))
           /\ Seq(EntryLevels(tops, ids)) \subseteq Seq(EntryLevels(moreTops, more))
<1>1. LiveLeaves(ids) \subseteq LiveLeaves(more) /\ LeafEntries(ids) \subseteq LeafEntries(more)
  BY DEF LiveLeaves, LeafEntries
<1>2. /\ Seq(LiveLeaves(ids)) \subseteq Seq(LiveLeaves(more))
      /\ Seq(LeafEntries(ids)) \subseteq Seq(LeafEntries(more))
  BY <1>1, SeqSubset
<1>3. /\ LiveLevels(tops, ids) \subseteq LiveLevels(moreTops, more)
      /\ EntryLevels(tops, ids) \subseteq EntryLevels(moreTops, more)
  BY <1>2 DEF LiveLevels, EntryLevels
<1>4. QED
  BY <1>3, SeqSubset

\* Typed nodes stay so when there are more ids.
LEMMA MoreNodes ==
    ASSUME NEW ids, NEW more, ids \subseteq more
    PROVE  /\ Seq(LiveNodes(ids)) \subseteq Seq(LiveNodes(more))
           /\ Seq(NodeEntries(ids)) \subseteq Seq(NodeEntries(more))
BY MoreIds DEF LiveNodes, NodeEntries

\* What the operations on trees keep: new siblings placed,
LEMMA PlacedType ==
    ASSUME NEW S, NEW list \in Seq(S), NEW new \in Seq(S), NEW at, NEW anchor
    PROVE  Placed(list, new, at, anchor) \in Seq(S)
<1>1. new \o list \in Seq(S) /\ list \o new \in Seq(S)
  OBVIOUS
<1>2. ASSUME \E i \in DOMAIN list : list[i].id = anchor
      PROVE  LET i == CHOOSE i \in DOMAIN list : list[i].id = anchor
             IN  SubSeq(list, 1, i) \o new \o SubSeq(list, i + 1, Len(list)) \in Seq(S)
  <2> DEFINE i == CHOOSE i \in DOMAIN list : list[i].id = anchor
  <2>1. i \in 1..Len(list)
    BY <1>2
  <2> HIDE DEF i
  <2>2. SubSeq(list, 1, i) \in Seq(S) /\ SubSeq(list, i + 1, Len(list)) \in Seq(S)
    BY <2>1
  <2>3. SubSeq(list, 1, i) \o new \o SubSeq(list, i + 1, Len(list)) \in Seq(S)
    BY <2>2
  <2>4. QED
    BY <2>3 DEF i
<1>3. QED
  BY <1>1, <1>2 DEF Placed

\* the list under a parent replaced,
LEMMA WithUnderType ==
    ASSUME NEW N, NEW L, AreNodes(N, L), NEW tree \in Seq(N), NEW parent,
           NEW new, new \in Seq(IF parent = Page THEN N ELSE L), NEW at, NEW anchor
    PROVE  WithUnder(tree, parent, Placed(Under(tree, parent), new, at, anchor)) \in Seq(N)
<1> DEFINE kids == Placed(Under(tree, parent), new, at, anchor)
           t == WithUnder(tree, parent, kids)
<1>1. CASE parent = Page
  <2>1. Under(tree, parent) = tree /\ t = kids
    BY <1>1 DEF Under, WithUnder
  <2>2. new \in Seq(N)
    BY <1>1
  <2>3. QED
    BY <2>1, <2>2, PlacedType
<1>2. CASE parent # Page /\ \E i \in DOMAIN tree : tree[i].id = parent
  <2>1. Under(tree, parent) \in Seq(L)
    <3>1. \E i \in DOMAIN tree : Under(tree, parent) = tree[i].kids
      BY <1>2 DEF Under
    <3>2. \A i \in DOMAIN tree : tree[i] \in N
      OBVIOUS
    <3>3. QED
      BY <3>1, <3>2 DEF AreNodes
  <2>2. kids \in Seq(L)
    <3>1. new \in Seq(L)
      BY <1>2
    <3>2. QED
      BY <2>1, <3>1, PlacedType
  <2> HIDE DEF kids
  <2>3. t = [i \in DOMAIN tree |-> IF tree[i].id = parent
                                   THEN [tree[i] EXCEPT !.kids = kids] ELSE tree[i]]
    BY <1>2 DEF WithUnder
  <2>4. \A i \in DOMAIN tree : tree[i] \in N /\ [tree[i] EXCEPT !.kids = kids] \in N
    BY <2>2 DEF AreNodes
  <2> HIDE DEF t
  <2>5. t \in Seq(N)
    BY <2>3, <2>4
  <2>6. QED
    BY <2>5 DEF t, kids
<1>3. CASE parent # Page /\ ~\E i \in DOMAIN tree : tree[i].id = parent
  <2> HIDE DEF kids
  <2>1. t = [i \in DOMAIN tree |-> IF tree[i].id = parent
                                   THEN [tree[i] EXCEPT !.kids = kids] ELSE tree[i]]
    BY <1>3 DEF WithUnder
  <2>2. t = tree
    BY <1>3, <2>1
  <2>3. QED
    BY <2>2 DEF t, kids
<1>4. QED
  BY <1>1, <1>2, <1>3

\* a payload replaced,
LEMMA RehashedType ==
    ASSUME NEW N, NEW L, AreNodes(N, L), NEW tree \in Seq(N), NEW id, NEW hash,
           TakesHash(N, L, hash)
    PROVE  Rehashed(tree, id, hash) \in Seq(N)
<1> DEFINE New(n) == IF n.id = id THEN [n EXCEPT !.hash = hash] ELSE n
           Kids(n) == [k \in DOMAIN n.kids |-> New(n.kids[k])]
           Done(n) == [New(n) EXCEPT !.kids = [k \in DOMAIN @ |-> New(@[k])]]
<1>1. ASSUME NEW n \in N PROVE Done(n) \in N
  <2>1. New(n) \in N
    BY DEF TakesHash
  <2> DEFINE m == New(n)
             s == [k \in DOMAIN m.kids |-> New(m.kids[k])]
  <2>2. m.kids \in Seq(L)
    BY <2>1 DEF AreNodes
  <2>3. \A k \in DOMAIN m.kids : New(m.kids[k]) \in L
    <3> HIDE DEF m
    <3>1. \A k \in DOMAIN m.kids : m.kids[k] \in L
      BY <2>2
    <3>2. QED
      BY <3>1 DEF TakesHash
  <2>4. s \in Seq(L)
    <3> HIDE DEF m, New
    <3> QED
      BY <2>2, <2>3
  <2>5. [m EXCEPT !.kids = s] \in N
    <3> HIDE DEF s, m
    <3> QED
      BY <2>1, <2>4 DEF AreNodes, m
  <2>6. Done(n) = [m EXCEPT !.kids = s]
    OBVIOUS
  <2> HIDE DEF Done, m, s
  <2>7. QED
    BY <2>5, <2>6
<1>2. Rehashed(tree, id, hash) = [i \in DOMAIN tree |-> Done(tree[i])]
  BY DEF Rehashed
<1> HIDE DEF Done
<1>3. QED
  BY <1>1, <1>2

\* and a node left out.
LEMMA WithoutType ==
    ASSUME NEW N, NEW L, AreNodes(N, L), NEW tree \in Seq(N), NEW id
    PROVE  Without(tree, id) \in Seq(N)
<1> DEFINE Drop(list) == Picked(list, {i \in DOMAIN list : list[i].id # id})
           top == Drop(tree)
<1>1. \A S : \A list \in Seq(S) : Drop(list) \in Seq(S)
  <2> SUFFICES ASSUME NEW S, NEW list \in Seq(S) PROVE Drop(list) \in Seq(S)
    OBVIOUS
  <2> DEFINE places == {i \in DOMAIN list : list[i].id # id}
  <2>1. places \in SUBSET (1..Len(list))
    OBVIOUS
  <2> HIDE DEF places
  <2>2. Picked(list, places) \in Seq(S)
    BY <2>1, PickedUnfolds
  <2>3. QED
    BY <2>2 DEF places
<1>2. top \in Seq(N)
  BY <1>1
<1>3. Without(tree, id) = [i \in DOMAIN top |-> [top[i] EXCEPT !.kids = Drop(@)]]
  BY DEF Without
<1>4. \A n \in N : [n EXCEPT !.kids = Drop(@)] \in N
  <2> SUFFICES ASSUME NEW n \in N PROVE [n EXCEPT !.kids = Drop(n.kids)] \in N
    OBVIOUS
  <2>1. Drop(n.kids) \in Seq(L)
    BY <1>1 DEF AreNodes
  <2> HIDE DEF Drop
  <2>2. QED
    BY <2>1 DEF AreNodes
<1> HIDE DEF top, Drop
<1>5. QED
  BY <1>2, <1>3, <1>4

----------------------------------------------------------------------------
(* Renderings and their paths *)

\* The members of a flattened sequence of sequences.
IsMelted(t, ss, S) ==
    /\ t \in Seq(S)
    /\ \A i \in 1..Len(ss) : \A j \in 1..Len(ss[i]) : \E k \in 1..Len(t) : t[k] = ss[i][j]
    /\ \A k \in 1..Len(t) : \E i \in 1..Len(ss) : \E j \in 1..Len(ss[i]) : t[k] = ss[i][j]

\* FlattenSeq has the members of all its parts and no others.
LEMMA FlattenMembers ==
    ASSUME NEW S, NEW ss \in Seq(Seq(S))
    PROVE  IsMelted(FlattenSeq(ss), ss, S)
<1> DEFINE n == Len(ss)
           t == FlattenSeq(ss)
<1>1. PICK off : IsLayout(off, ss)
  BY LayoutExists
<1>2. IsLaidOut(t, off, ss, S)
  BY <1>1, FlattenLayout
<1>3. n \in Nat /\ \A i \in 1..n : Len(ss[i]) \in Nat
  OBVIOUS
<1>4. /\ off \in [0..n -> Nat] /\ off[0] = 0 /\ Len(t) = off[n] /\ t \in Seq(S)
      /\ \A i \in 1..n : off[i] = off[i - 1] + Len(ss[i])
      /\ \A i \in 1..n : \A j \in 1..Len(ss[i]) : t[off[i - 1] + j] = ss[i][j]
  <2> HIDE DEF t
  <2> QED
    BY <1>1, <1>2 DEF IsLayout, IsLaidOut
<1>5. \A k \in 0..n : \A i \in 0..k : off[i] <= off[k]
  BY <1>1, LayoutIsMonotone
<1>6. \A p \in 1..off[n] : \E i \in 1..n : off[i - 1] < p /\ p <= off[i]
  BY <1>1, LayoutCovers
<1> HIDE DEF t, n
<1>7. ASSUME NEW i \in 1..n, NEW j \in 1..Len(ss[i]) PROVE \E k \in 1..Len(t) : t[k] = ss[i][j]
  <2>1. i - 1 \in 0..n /\ i \in 0..n /\ n \in 0..n
    BY <1>3
  <2>2. off[i] <= off[n] /\ off[i] = off[i - 1] + Len(ss[i])
    BY <1>4, <1>5, <2>1
  <2>3. off[i] \in Nat /\ off[i - 1] \in Nat /\ off[n] \in Nat /\ Len(ss[i]) \in Nat
    BY <1>3, <1>4, <2>1
  <2>4. off[i - 1] + j \in 1..Len(t)
    <3>1. Len(t) = off[n] /\ j \in Nat /\ 1 <= j /\ j <= Len(ss[i])
      BY <1>4, <2>3
    <3>2. QED
      BY <2>2, <2>3, <3>1, SMTT(30)
  <2>5. QED
    BY <1>4, <2>4
<1>8. ASSUME NEW k \in 1..Len(t)
      PROVE  \E i \in 1..n : \E j \in 1..Len(ss[i]) : t[k] = ss[i][j]
  <2>1. PICK i \in 1..n : off[i - 1] < k /\ k <= off[i]
    BY <1>4, <1>6
  <2>2. off[i - 1] \in Nat /\ off[i] = off[i - 1] + Len(ss[i]) /\ Len(ss[i]) \in Nat
    BY <1>3, <1>4
  <2> DEFINE j == k - off[i - 1]
  <2>3. j \in 1..Len(ss[i]) /\ off[i - 1] + j = k
    BY <2>1, <2>2, SMTT(30)
  <2> HIDE DEF j
  <2>4. t[k] = ss[i][j]
    BY <1>4, <2>3
  <2>5. QED
    BY <2>3, <2>4
<1>9. IsMelted(t, ss, S)
  BY <1>4, <1>7, <1>8 DEF IsMelted, n
<1>10. QED
  BY <1>9 DEF t

(* What a rendering consists of *)

\* Rendered leaf blocks are rendered blocks.
LEMMA LeavesAreNodes == Leaves \subseteq Nodes
<1> SUFFICES ASSUME NEW l \in Leaves PROVE l \in Nodes
  OBVIOUS
<1>1. <<>> \in Seq(Leaves)
  OBVIOUS
<1>2. l.kids \in Seq(Leaves)
  BY <1>1 DEF Leaves
<1>3. l \in [key : Keys, kind : {"block"}, hash : Hashes, kids : Seq(Leaves)]
  BY <1>2 DEF Leaves
<1>4. QED
  BY <1>3 DEF Nodes

\* The parts of a rendered node.
LEMMA NodeType ==
    ASSUME NEW c \in Nodes
    PROVE  c.key \in Keys /\ c.kind \in Kinds /\ c.hash \in Hashes /\ c.kids \in Seq(Leaves)
<1>1. <<>> \in Seq(Leaves)
  OBVIOUS
<1>2. QED
  BY <1>1 DEF Nodes, Kinds

IsRendered(cs) == cs \in Seq(Nodes) /\ KeysDiffer(cs)

\* A rendering is a list of nodes with keys of their own, and so are its lists of children.
LEMMA RenderingType ==
    ASSUME NEW r \in Renderings
    PROVE  /\ IsRendered(r)
           /\ \A i \in 1..Len(r) : IsRendered(r[i].kids) /\ r[i].kids \in Seq(Leaves)
<1>1. /\ r \in Seq(Nodes)
      /\ IsInjective([i \in DOMAIN r |-> r[i].key])
      /\ \A c \in ToSet(r) : IsInjective([i \in DOMAIN c.kids |-> c.kids[i].key])
  BY PageAssumption DEF RenderingAssumption
<1>2. KeysDiffer(r)
  BY <1>1 DEF IsInjective, KeysDiffer
<1>3. ASSUME NEW i \in 1..Len(r) PROVE IsRendered(r[i].kids) /\ r[i].kids \in Seq(Leaves)
  <2>1. r[i] \in Nodes /\ r[i] \in ToSet(r)
    BY <1>1 DEF ToSet
  <2> DEFINE c == r[i]
             cs == c.kids
  <2>2. cs \in Seq(Leaves)
    BY <2>1, NodeType
  <2>3. IsInjective([k \in DOMAIN cs |-> cs[k].key])
    BY <1>1, <2>1
  <2> HIDE DEF cs
  <2>4. KeysDiffer(cs)
    BY <2>3 DEF IsInjective, KeysDiffer
  <2>5. cs \in Seq(Nodes)
    BY <2>2, LeavesAreNodes, SeqSubset
  <2>6. QED
    BY <2>2, <2>4, <2>5 DEF IsRendered, cs
<1>4. QED
  BY <1>1, <1>2, <1>3 DEF IsRendered

\* NodeWith finds the rendered sibling with a key.
LEMMA NodeWithIs ==
    ASSUME NEW cs, NEW i \in DOMAIN cs, KeysDiffer(cs)
    PROVE  NodeWith(cs, cs[i].key) = cs[i]
BY DEF NodeWith, KeysDiffer

\* The places of a rendering.
LEMMA PathsUnfold ==
    ASSUME NEW r \in Renderings
    PROVE  /\ \A i \in 1..Len(r) : <<r[i].key>> \in Paths(r)
           /\ \A i \in 1..Len(r) : \A k \in 1..Len(r[i].kids) :
                <<r[i].key, r[i].kids[k].key>> \in Paths(r)
           /\ \A p \in Paths(r) :
                \/ \E i \in 1..Len(r) : p = <<r[i].key>>
                \/ \E i \in 1..Len(r) : \E k \in 1..Len(r[i].kids) :
                        p = <<r[i].key, r[i].kids[k].key>>
<1>1. r \in Seq(Nodes) /\ \A i \in 1..Len(r) : r[i].kids \in Seq(Leaves)
  BY RenderingType DEF IsRendered
<1>2. DOMAIN r = 1..Len(r) /\ \A i \in 1..Len(r) : DOMAIN r[i].kids = 1..Len(r[i].kids)
  BY <1>1
<1>3. \A c : c \in ToSet(r) <=> \E i \in 1..Len(r) : c = r[i]
  BY <1>2 DEF ToSet
<1>4. \A i \in 1..Len(r) : \A x : x \in ToSet(r[i].kids) <=>
            \E k \in 1..Len(r[i].kids) : x = r[i].kids[k]
  BY <1>2 DEF ToSet
<1>5. \A p : p \in Paths(r) <=>
        \/ \E c \in ToSet(r) : p = <<c.key>>
        \/ \E c \in ToSet(r) : \E k \in ToSet(c.kids) : p = <<c.key, k.key>>
  BY DEF Paths
<1>6. ASSUME NEW i \in 1..Len(r) PROVE <<r[i].key>> \in Paths(r)
  BY <1>3, <1>5
<1>7. ASSUME NEW i \in 1..Len(r), NEW k \in 1..Len(r[i].kids)
      PROVE  <<r[i].key, r[i].kids[k].key>> \in Paths(r)
  <2>1. r[i] \in ToSet(r) /\ r[i].kids[k] \in ToSet(r[i].kids)
    BY <1>3, <1>4
  <2>2. QED
    BY <1>5, <2>1
<1>8. ASSUME NEW p \in Paths(r)
      PROVE  \/ \E i \in 1..Len(r) : p = <<r[i].key>>
             \/ \E i \in 1..Len(r) : \E k \in 1..Len(r[i].kids) :
                        p = <<r[i].key, r[i].kids[k].key>>
  <2>1. CASE \E c \in ToSet(r) : p = <<c.key>>
    BY <1>3, <2>1
  <2>2. CASE \E c \in ToSet(r) : \E k \in ToSet(c.kids) : p = <<c.key, k.key>>
    <3>1. PICK c \in ToSet(r) : \E k \in ToSet(c.kids) : p = <<c.key, k.key>>
      BY <2>2
    <3>2. PICK i \in 1..Len(r) : c = r[i]
      BY <1>3
    <3>3. \E k \in ToSet(r[i].kids) : p = <<r[i].key, k.key>>
      BY <3>1, <3>2
    <3>4. PICK x \in ToSet(r[i].kids) : p = <<r[i].key, x.key>>
      BY <3>3
    <3>5. PICK k \in 1..Len(r[i].kids) : x = r[i].kids[k]
      BY <1>4
    <3>6. QED
      BY <3>4, <3>5
  <2>3. QED
    BY <1>5, <2>1, <2>2
<1>9. QED
  BY <1>6, <1>7, <1>8

\* NodeAt finds the node at a path.
LEMMA NodeAtType ==
    ASSUME NEW r \in Renderings, NEW p \in Paths(r)
    PROVE  NodeAt(r, p) \in Nodes
<1>1. IsRendered(r) /\ \A i \in 1..Len(r) : IsRendered(r[i].kids)
  BY RenderingType
<1>2. DOMAIN r = 1..Len(r) /\ \A i \in 1..Len(r) : r[i] \in Nodes
  BY <1>1 DEF IsRendered
<1>3. ASSUME NEW i \in 1..Len(r), p = <<r[i].key>> PROVE NodeAt(r, p) \in Nodes
  <2>1. Len(p) = 1 /\ p[1] = r[i].key
    BY <1>3
  <2>2. NodeAt(r, p) = r[i]
    BY <1>1, <1>2, <2>1, NodeWithIs DEF NodeAt, IsRendered
  <2>3. QED
    BY <1>2, <2>2
<1>4. ASSUME NEW i \in 1..Len(r), NEW k \in 1..Len(r[i].kids), p = <<r[i].key, r[i].kids[k].key>>
      PROVE  NodeAt(r, p) \in Nodes
  <2>1. Len(p) # 1 /\ p[1] = r[i].key /\ p[2] = r[i].kids[k].key
    BY <1>4
  <2>2. NodeWith(r, p[1]) = r[i]
    BY <1>1, <1>2, <2>1, NodeWithIs DEF IsRendered
  <2> DEFINE cs == r[i].kids
  <2>3. cs \in Seq(Nodes) /\ KeysDiffer(cs) /\ k \in DOMAIN cs
    BY <1>1 DEF IsRendered
  <2>4. NodeAt(r, p) = NodeWith(cs, cs[k].key)
    BY <2>1, <2>2 DEF NodeAt
  <2> HIDE DEF cs
  <2>5. NodeWith(cs, cs[k].key) = cs[k] /\ cs[k] \in Nodes
    BY <2>3, NodeWithIs
  <2>6. QED
    BY <2>4, <2>5
<1>5. QED
  BY <1>3, <1>4, PathsUnfold

----------------------------------------------------------------------------
(* The operations of one sibling list *)

\* The operations of a plan: what puts blocks in their places, and what removes them.
Tops(r) == {<<c.key>> : c \in ToSet(r)}

Below(r, p) == IF p = Root THEN Tops(r) ELSE Paths(r) \ Tops(r)

News(r, p) ==
    [op : {"append", "insert"}, under : {p}, node : Below(r, p),
     at : {"head", "tail", "after"}, after : Below(r, p) \cup {Root}]

Builds(r, ids, p) ==
    News(r, p)
        \cup [op : {"create"}, node : Tops(r)]
        \cup [op : {"update", "rename"}, id : ids, hash : Hashes]
        \cup [op : {"move"}, id : ids]

Clears(all) == [op : {"remove", "archive"}, id : all]

Makes(o, p) == o.op \in {"append", "insert", "create"} /\ o.node = p

\* The children of a page as the diff knows them: cached ones with their ids, and
\* placeholders for any live block.
Placeholders(all) ==
    [id : all, key : {Ghost}, kind : {"block"}, hash : {Ghost}, kids : {<<>>}]

IsBase(bs, ids, all) == bs \in Seq(NodeEntries(ids) \cup Placeholders(all))

IsDiff(list, p, r, ids, all) ==
    /\ IsBase(list.old, ids, all)
    /\ IsRendered(list.new)
    /\ list.kept \subseteq CommonKeys(list.old, list.new)
    /\ \A j \in 1..Len(list.new) : Path(p, list.new[j]) \in Below(r, p)
    /\ p # Root => \A j \in 1..Len(list.new) : list.new[j].kind = "block"

\* No rendered block has the key of a placeholder.
LEMMA KeysAreNoGhosts == Ghost \notin Keys
BY PageAssumption DEF ConstantsAssumption

\* NodeWith finds the sibling that has a key.
LEMMA EntryWith ==
    ASSUME NEW ids, NEW all, NEW bs, IsBase(bs, ids, all), NEW key \in Keys,
           \E b \in ToSet(bs) : b.key = key
    PROVE  /\ NodeWith(bs, key) \in NodeEntries(ids) /\ NodeWith(bs, key).key = key
           /\ \E i \in DOMAIN bs : NodeWith(bs, key) = bs[i]
<1> DEFINE i == CHOOSE i \in DOMAIN bs : bs[i].key = key
<1>1. i \in DOMAIN bs /\ bs[i].key = key
  BY DEF ToSet
<1>2. NodeWith(bs, key) = bs[i]
  BY DEF NodeWith
<1> HIDE DEF i
<1>3. bs[i] \in NodeEntries(ids) \cup Placeholders(all)
  BY <1>1 DEF IsBase
<1>4. bs[i] \notin Placeholders(all)
  BY <1>1, KeysAreNoGhosts DEF Placeholders
<1>5. QED
  BY <1>1, <1>2, <1>3, <1>4

\* NodeWith finds the cached sibling with a key that both lists have.
LEMMA KeptEntry ==
    ASSUME NEW ids, NEW all, NEW r, NEW p, NEW list, IsDiff(list, p, r, ids, all),
           NEW key, key \in CommonKeys(list.old, list.new)
    PROVE  /\ key \in Keys
           /\ NodeWith(list.old, key) \in NodeEntries(ids) /\ NodeWith(list.old, key).key = key
           /\ \E i \in DOMAIN list.old : NodeWith(list.old, key) = list.old[i]
<1> DEFINE bs == list.old
           cs == list.new
<1>1. PICK b \in ToSet(bs) : b.key = key /\ \E c \in ToSet(cs) : Matches(b, c)
  BY DEF CommonKeys
<1>2. PICK c \in ToSet(cs) : Matches(b, c)
  BY <1>1
<1>3. c \in Nodes
  BY <1>2 DEF IsDiff, IsRendered, ToSet
<1>4. key \in Keys
  BY <1>1, <1>2, <1>3, NodeType DEF Matches
<1>5. IsBase(bs, ids, all)
  BY DEF IsDiff
<1> HIDE DEF bs, cs
<1>6. /\ NodeWith(bs, key) \in NodeEntries(ids) /\ NodeWith(bs, key).key = key
      /\ \E i \in DOMAIN bs : NodeWith(bs, key) = bs[i]
  BY <1>1, <1>4, <1>5, EntryWith
<1>7. QED
  BY <1>4, <1>6 DEF bs

\* The ordered operations of one list: what they are, and that they make what is new.
LEMMA SiblingOpsBuild ==
    ASSUME NEW ids, NEW all, NEW r, NEW p, NEW list, IsDiff(list, p, r, ids, all)
    PROVE  /\ SiblingOps(p, list) \in Seq(Builds(r, ids, p))
           /\ \A i \in 1..Len(list.new) :
                list.new[i].key \notin list.kept
                    /\ ~IsMoved(list.old, list.kept, list.new[i])
                => \E k \in 1..Len(SiblingOps(p, list)) :
                        Makes(SiblingOps(p, list)[k], Path(p, list.new[i]))
<1> DEFINE bs == list.old
           cs == list.new
           IsKept(i) == cs[i].key \in list.kept
           KeptAfter(i) == \E j \in DOMAIN cs : j > i /\ IsKept(j)
           New(i, op, at) == [op |-> op, under |-> p, node |-> Path(p, cs[i]), at |-> at,
                              after |-> IF at = "after" THEN Path(p, cs[i-1]) ELSE Root]
           Ops(i) ==
            CASE IsKept(i) /\ cs[i].kind = "block" ->
                    LET b == NodeWith(bs, cs[i].key)
                    IN  IF b.hash = cs[i].hash THEN <<>>
                        ELSE <<[op |-> "update", id |-> b.id, hash |-> cs[i].hash]>>
              [] IsKept(i) /\ cs[i].kind = "page" -> <<>>
              [] ~IsKept(i) /\ cs[i].kind = "page" ->
                    IF IsMoved(bs, list.kept, cs[i])
                    THEN <<[op |-> "move", id |-> NodeWith(bs, cs[i].key).id]>>
                    ELSE <<[op |-> "create", node |-> Path(p, cs[i])]>>
              [] ~IsKept(i) /\ cs[i].kind = "block" ->
                    <<IF ~KeptAfter(i) THEN New(i, "append", "tail")
                      ELSE New(i, "insert", IF i = 1 THEN "head" ELSE "after")>>
           ss == [i \in DOMAIN cs |-> Ops(i)]
           S == Builds(r, ids, p)
           n == Len(cs)
<1>1. SiblingOps(p, list) = FlattenSeq(ss)
  BY DEF SiblingOps
<1>2. n \in Nat /\ DOMAIN cs = 1..n /\ \A i \in 1..n : cs[i] \in Nodes
  BY DEF IsDiff, IsRendered
<1>3. /\ \A i \in 1..n : Path(p, cs[i]) \in Below(r, p)
      /\ \A i \in 1..n : cs[i].kind = "page" => Below(r, p) = Tops(r)
  BY DEF IsDiff, Below
<1> HIDE DEF n
<1>4. ASSUME NEW i \in 1..n, IsKept(i) PROVE NodeWith(bs, cs[i].key).id \in ids
  <2>1. cs[i].key \in CommonKeys(list.old, list.new)
    BY <1>4 DEF IsDiff
  <2>2. NodeWith(bs, cs[i].key) \in NodeEntries(ids)
    BY <2>1, KeptEntry
  <2>3. QED
    BY <2>2 DEF NodeEntries, EntryLevels
<1>5. ASSUME NEW i \in 1..n, IsMoved(bs, list.kept, cs[i])
      PROVE  NodeWith(bs, cs[i].key).id \in ids /\ cs[i].kind = "page" /\ ~IsKept(i)
  <2>1. cs[i].key \in CommonKeys(list.old, list.new)
    <3>1. PICK b \in ToSet(bs) : Matches(b, cs[i])
      BY <1>5 DEF IsMoved
    <3>2. cs[i] \in ToSet(cs)
      BY <1>2, SMTT(30) DEF ToSet
    <3>3. QED
      BY <3>1, <3>2 DEF CommonKeys, Matches
  <2>2. NodeWith(bs, cs[i].key) \in NodeEntries(ids)
    BY <2>1, KeptEntry
  <2>3. QED
    BY <1>5, <2>2 DEF NodeEntries, EntryLevels, IsMoved
<1> HIDE DEF bs
<1>6. ASSUME NEW i \in 1..n
      PROVE  /\ Ops(i) \in Seq(S)
             /\ ~IsKept(i) /\ ~IsMoved(bs, list.kept, cs[i]) =>
                    Len(Ops(i)) = 1 /\ Makes(Ops(i)[1], Path(p, cs[i]))
  <2> DEFINE c == cs[i]
             q == Path(p, cs[i])
             b == NodeWith(bs, cs[i].key)
  <2>1. c.kind \in {"block", "page"} /\ c.hash \in Hashes /\ q \in Below(r, p)
    BY <1>2, <1>3, NodeType DEF Kinds
  <2>2. \A o \in S : <<o>> \in Seq(S)
    OBVIOUS
  <2>3. <<>> \in Seq(S)
    OBVIOUS
  <2>4. CASE IsKept(i) /\ c.kind = "block"
    <3> DEFINE o == [op |-> "update", id |-> b.id, hash |-> cs[i].hash]
    <3>1. Ops(i) = IF b.hash = cs[i].hash THEN <<>> ELSE <<o>>
      BY <2>4
    <3>2. o \in S
      BY <1>4, <2>1, <2>4 DEF Builds
    <3> HIDE DEF Ops, S, o
    <3>3. QED
      BY <2>2, <2>3, <2>4, <3>1, <3>2
  <2>5. CASE IsKept(i) /\ c.kind = "page"
    <3>1. Ops(i) = <<>>
      BY <2>5
    <3> HIDE DEF Ops, S
    <3>2. QED
      BY <2>3, <2>5, <3>1
  <2>6. CASE ~IsKept(i) /\ c.kind = "page"
    <3>1. CASE IsMoved(bs, list.kept, cs[i])
      <4> DEFINE o == [op |-> "move", id |-> NodeWith(bs, cs[i].key).id]
      <4>1. Ops(i) = <<o>>
        BY <2>6, <3>1
      <4>2. o \in S
        BY <1>5, <3>1 DEF Builds
      <4> HIDE DEF Ops, S, o
      <4>3. QED
        BY <2>2, <3>1, <4>1, <4>2
    <3>2. CASE ~IsMoved(bs, list.kept, cs[i])
      <4> DEFINE o == [op |-> "create", node |-> Path(p, cs[i])]
      <4>1. Ops(i) = <<o>>
        BY <2>6, <3>2
      <4>2. o \in S
        BY <1>3, <2>1, <2>6 DEF Builds
      <4>3. Makes(o, q)
        BY DEF Makes
      <4> HIDE DEF Ops, S, o
      <4>4. QED
        BY <2>2, <4>1, <4>2, <4>3
    <3>3. QED
      BY <3>1, <3>2
  <2>7. CASE ~IsKept(i) /\ c.kind = "block"
    <3> DEFINE o == IF ~KeptAfter(i) THEN New(i, "append", "tail")
                    ELSE New(i, "insert", IF i = 1 THEN "head" ELSE "after")
    <3>1. Ops(i) = <<o>>
      BY <2>7
    <3>2. New(i, "append", "tail") \in S
      BY <1>3, <2>1 DEF Builds, News
    <3>3. ASSUME i = 1 PROVE New(i, "insert", IF i = 1 THEN "head" ELSE "after") \in S
      BY <1>3, <2>1, <3>3 DEF Builds, News
    <3>4. ASSUME i # 1 PROVE New(i, "insert", IF i = 1 THEN "head" ELSE "after") \in S
      <4>1. i - 1 \in 1..n
        BY <1>2, <3>4
      <4>2. Path(p, cs[i-1]) \in Below(r, p)
        BY <1>3, <4>1
      <4>3. QED
        BY <1>3, <2>1, <3>4, <4>2 DEF Builds, News
    <3>5. o \in S
      <4> HIDE DEF New, S
      <4> QED
        BY <3>2, <3>3, <3>4
    <3>6. Makes(o, q)
      BY DEF Makes
    <3> HIDE DEF Ops, S, o
    <3>7. QED
      BY <2>2, <3>1, <3>5, <3>6
  <2>8. QED
    BY <2>1, <2>4, <2>5, <2>6, <2>7
<1>7. ss = [i \in 1..n |-> ss[i]] /\ \A i \in 1..n : ss[i] = Ops(i)
  <2> HIDE DEF Ops
  <2> QED
    BY <1>2
<1> HIDE DEF ss, S, Ops
<1>8. ss \in Seq(Seq(S)) /\ Len(ss) = n
  BY <1>2, <1>6, <1>7
<1>9. IsMelted(FlattenSeq(ss), ss, S)
  BY <1>8, FlattenMembers
<1> DEFINE t == SiblingOps(p, list)
<1>10. t \in Seq(S) /\ \A i \in 1..n : \A j \in 1..Len(ss[i]) : \E k \in 1..Len(t) : t[k] = ss[i][j]
  BY <1>1, <1>8, <1>9 DEF IsMelted
<1> HIDE DEF t
<1>11. ASSUME NEW i \in 1..n, ~IsKept(i), ~IsMoved(bs, list.kept, cs[i])
       PROVE  \E k \in 1..Len(t) : Makes(t[k], Path(p, cs[i]))
  <2>1. Len(ss[i]) = 1 /\ Makes(ss[i][1], Path(p, cs[i]))
    BY <1>6, <1>7, <1>11
  <2>2. PICK k \in 1..Len(t) : t[k] = ss[i][1]
    BY <1>10, <2>1
  <2>3. QED
    BY <2>1, <2>2
<1>12. QED
  BY <1>10, <1>11 DEF t, S, n, bs

\* A cached sibling that is neither kept nor moved.
Goes(list, i) ==
    /\ i \in DOMAIN list.old /\ list.old[i].key \notin list.kept
    /\ \/ list.old[i].kind = "block"
       \/ list.old[i].kind = "page" /\ ~\E c \in ToSet(list.new) : Matches(list.old[i], c)

\* Operations that remove such siblings only.
ClearsOf(ops, list, all) ==
    /\ ops \in Seq(Clears(all))
    /\ \A k \in 1..Len(ops) : \E i \in DOMAIN list.old :
            Goes(list, i) /\ ops[k].id = list.old[i].id

\* Removals and Archivals name only siblings that are neither kept nor moved.
LEMMA RemovalsClear ==
    ASSUME NEW ids, NEW all, ids \subseteq all, NEW list, IsBase(list.old, ids, all)
    PROVE  ClearsOf(Removals(list), list, all) /\ ClearsOf(Archivals(list), list, all)
<1> DEFINE bs == list.old
           S == NodeEntries(ids) \cup Placeholders(all)
           Blocks == {i \in DOMAIN bs : bs[i].kind = "block" /\ bs[i].key \notin list.kept}
           Pages == {i \in DOMAIN bs :
                    /\ bs[i].kind = "page" /\ bs[i].key \notin list.kept
                    /\ ~\E c \in ToSet(list.new) : Matches(bs[i], c)}
<1>1. bs \in Seq(S)
  BY DEF IsBase
<1>2. \A n \in S : n.id \in all
  BY DEF NodeEntries, EntryLevels, Placeholders
<1>3. DOMAIN bs = 1..Len(bs) /\ \A i \in DOMAIN bs : bs[i].id \in all
  BY <1>1, <1>2
<1>4. \A i \in Blocks \cup Pages : Goes(list, i)
  BY DEF Goes
<1> HIDE DEF S
<1>5. ASSUME NEW places \in SUBSET (1..Len(bs)), \A i \in places : Goes(list, i),
             NEW op \in {"remove", "archive"},
             NEW gone, gone = Picked(bs, places),
             NEW ops, ops = [k \in DOMAIN gone |-> [op |-> op, id |-> gone[k].id]]
      PROVE  ClearsOf(ops, list, all)
  <2>1. PICK pos : IsPicking(gone, pos, bs, places)
    <3> HIDE DEF bs
    <3> QED
      BY <1>1, <1>5, PickedUnfolds
  <2>2. /\ DOMAIN gone = 1..Len(gone) /\ Len(gone) \in Nat
        /\ \A k \in 1..Len(gone) : pos[k] \in places /\ gone[k] = bs[pos[k]]
    <3> HIDE DEF bs
    <3> QED
      BY <2>1 DEF IsPicking
  <2>3. \A k \in 1..Len(gone) : ops[k] = [op |-> op, id |-> bs[pos[k]].id] /\ pos[k] \in places
    <3> HIDE DEF bs
    <3> QED
      BY <1>5, <2>2
  <2>4. \A k \in 1..Len(gone) : pos[k] \in DOMAIN bs /\ bs[pos[k]].id \in all
    BY <1>3, <2>3
  <2>5. \A k \in 1..Len(gone) : ops[k] \in Clears(all)
    <3> SUFFICES ASSUME NEW k \in 1..Len(gone) PROVE ops[k] \in Clears(all)
      OBVIOUS
    <3> DEFINE id == bs[pos[k]].id
    <3>1. ops[k] = [op |-> op, id |-> id] /\ id \in all
      BY <2>3, <2>4
    <3> HIDE DEF id
    <3>2. QED
      BY <3>1 DEF Clears
  <2>6. ops \in Seq(Clears(all)) /\ Len(ops) = Len(gone)
    <3>1. ops = [k \in 1..Len(gone) |-> ops[k]]
      BY <1>5, <2>2
    <3> HIDE DEF bs
    <3>2. QED
      BY <2>2, <2>5, <3>1, ListIsSeq
  <2>7. \A k \in 1..Len(ops) : \E i \in DOMAIN bs : Goes(list, i) /\ ops[k].id = bs[i].id
    <3> SUFFICES ASSUME NEW k \in 1..Len(gone)
                 PROVE  \E i \in DOMAIN bs : Goes(list, i) /\ ops[k].id = bs[i].id
      BY <2>6
    <3> DEFINE i == pos[k]
    <3>1. ops[k] = [op |-> op, id |-> bs[i].id] /\ i \in places /\ i \in DOMAIN bs
      BY <2>3, <2>4
    <3> HIDE DEF i, bs
    <3>2. ops[k].id = bs[i].id /\ Goes(list, i)
      BY <1>5, <3>1
    <3>3. QED
      BY <3>1, <3>2
  <2>8. QED
    BY <2>6, <2>7 DEF ClearsOf
<1>6. Blocks \in SUBSET (1..Len(bs)) /\ Pages \in SUBSET (1..Len(bs))
  BY <1>3
<1>7. Removals(list) = [k \in DOMAIN Picked(bs, Blocks) |->
                            [op |-> "remove", id |-> Picked(bs, Blocks)[k].id]]
  BY DEF Removals
<1>8. Archivals(list) = [k \in DOMAIN Picked(bs, Pages) |->
                            [op |-> "archive", id |-> Picked(bs, Pages)[k].id]]
  BY DEF Archivals
<1> HIDE DEF Blocks, Pages, bs
<1>9. ClearsOf(Removals(list), list, all)
  BY <1>4, <1>5, <1>6, <1>7
<1>10. ClearsOf(Archivals(list), list, all)
  BY <1>4, <1>5, <1>6, <1>8
<1>11. QED
  BY <1>9, <1>10

\* New titles go to sub-pages that stay.
LEMMA PageUpdatesBuild ==
    ASSUME NEW ids, NEW all, NEW r, NEW p, NEW list, IsDiff(list, p, r, ids, all)
    PROVE  PageUpdates(list) \in Seq(Builds(r, ids, p))
<1> DEFINE bs == list.old
           cs == list.new
           Drifts(c) == c.kind = "page"
                            /\ \E b \in ToSet(bs) : Matches(b, c) /\ b.hash # c.hash
           places == {i \in DOMAIN cs : Drifts(cs[i])}
           drifted == Picked(cs, places)
           ops == [i \in DOMAIN drifted |->
                    [op |-> "rename", id |-> NodeWith(bs, drifted[i].key).id,
                     hash |-> drifted[i].hash]]
<1>1. PageUpdates(list) = ops
  BY DEF PageUpdates
<1>2. cs \in Seq(Nodes) /\ DOMAIN cs = 1..Len(cs) /\ places \in SUBSET (1..Len(cs))
  BY DEF IsDiff, IsRendered
<1>3. \A i \in places : cs[i].key \in CommonKeys(list.old, list.new) /\ cs[i] \in Nodes
  <2> SUFFICES ASSUME NEW i \in places
               PROVE  cs[i].key \in CommonKeys(list.old, list.new) /\ cs[i] \in Nodes
    OBVIOUS
  <2>1. PICK b \in ToSet(bs) : Matches(b, cs[i])
    OBVIOUS
  <2>2. cs[i] \in ToSet(cs) /\ cs[i] \in Nodes
    BY <1>2 DEF ToSet
  <2>3. QED
    BY <2>1, <2>2 DEF CommonKeys, Matches
<1> HIDE DEF places, cs
<1>4. PICK pos : IsPicking(drifted, pos, cs, places)
  BY <1>2, PickedUnfolds
<1>5. /\ DOMAIN drifted = 1..Len(drifted) /\ Len(drifted) \in Nat
      /\ \A k \in 1..Len(drifted) : pos[k] \in places /\ drifted[k] = cs[pos[k]]
  <2> HIDE DEF drifted
  <2> QED
    BY <1>4 DEF IsPicking
<1> HIDE DEF drifted
<1>6. ASSUME NEW k \in 1..Len(drifted) PROVE ops[k] \in Builds(r, ids, p)
  <2>1. ops[k] = [op |-> "rename", id |-> NodeWith(bs, drifted[k].key).id,
                  hash |-> drifted[k].hash]
    BY <1>5
  <2>2. drifted[k].key \in CommonKeys(list.old, list.new) /\ drifted[k] \in Nodes
    BY <1>3, <1>5
  <2>3. NodeWith(list.old, drifted[k].key) \in NodeEntries(ids)
    BY <2>2, KeptEntry
  <2>4. drifted[k].hash \in Hashes
    BY <2>2, NodeType
  <2>5. NodeWith(bs, drifted[k].key).id \in ids
    BY <2>3 DEF NodeEntries, EntryLevels
  <2> HIDE DEF ops, bs
  <2>6. QED
    BY <2>1, <2>4, <2>5 DEF Builds
<1>7. ops = [k \in 1..Len(drifted) |-> ops[k]]
  BY <1>5
<1> HIDE DEF ops
<1>8. QED
  BY <1>1, <1>5, <1>6, <1>7, ListIsSeq

----------------------------------------------------------------------------
(* The matching, and the ids it passes on *)

\* Appending, member by member.
LEMMA AppendIs ==
    ASSUME NEW S, NEW s \in Seq(S), NEW b \in S
    PROVE  /\ Append(s, b) \in Seq(S) /\ Len(Append(s, b)) = Len(s) + 1
           /\ \A i \in 1..Len(s) : Append(s, b)[i] = s[i]
           /\ Append(s, b)[Len(s) + 1] = b
OBVIOUS

\* Paths of two keys.
LEMMA AppendOne ==
    ASSUME NEW S, NEW a \in S, NEW b \in S
    PROVE  Append(<<a>>, b) = <<a, b>>
<1> DEFINE s == <<a>>
           t == Append(s, b)
<1>1. s \in Seq(S) /\ Len(s) = 1 /\ s[1] = a
  OBVIOUS
<1> HIDE DEF s
<1>2. t \in Seq(S) /\ Len(t) = 2 /\ t[1] = a /\ t[2] = b
  <2>1. s \in Seq(S)
    BY <1>1
  <2>2. /\ t \in Seq(S) /\ Len(t) = Len(s) + 1
        /\ \A i \in 1..Len(s) : t[i] = s[i]
        /\ t[Len(s) + 1] = b
    BY <2>1, AppendIs
  <2> HIDE DEF t
  <2>3. QED
    BY <1>1, <2>2
<1> HIDE DEF t
<1>3. t = <<a, b>>
  BY <1>2
<1>4. QED
  BY <1>3 DEF s, t

\* What is kept of the live children is longest, whatever placeholders are among them.
LEMMA RetainedOfBase ==
    ASSUME NEW ids, NEW all, NEW bs, IsBase(bs, ids, all), UniqueKeys(bs),
           NEW cs, IsRendered(cs)
    PROVE  IsLongestCommon(RetainedKeys(bs, cs), bs, cs)
<1>1. IsList(bs) /\ IsList(cs)
  BY DEF IsBase, IsRendered, IsList
<1>2. \A j \in DOMAIN cs : cs[j].key # Ghost
  <2> SUFFICES ASSUME NEW j \in DOMAIN cs PROVE cs[j].key # Ghost
    OBVIOUS
  <2>1. cs[j] \in Nodes
    BY DEF IsRendered
  <2>2. QED
    BY <2>1, NodeType, KeysAreNoGhosts
<1>3. QED
  BY <1>1, <1>2, RetainedIsLongest DEF IsRendered

\* The two levels of a rendering.
LEMMA TopsUnfold ==
    ASSUME NEW r \in Renderings
    PROVE  /\ Tops(r) \subseteq Paths(r)
           /\ \A i \in 1..Len(r) : <<r[i].key>> \in Tops(r)
           /\ \A p \in Tops(r) : \E i \in 1..Len(r) : p = <<r[i].key>>
           /\ \A i \in 1..Len(r) : \A k \in 1..Len(r[i].kids) :
                <<r[i].key, r[i].kids[k].key>> \in Paths(r) \ Tops(r)
<1>1. r \in Seq(Nodes)
  BY RenderingType DEF IsRendered
<1>2. \A c : c \in ToSet(r) <=> \E i \in 1..Len(r) : c = r[i]
  BY <1>1 DEF ToSet
<1>3. \A p : p \in Tops(r) <=> \E i \in 1..Len(r) : p = <<r[i].key>>
  BY <1>2 DEF Tops
<1>4. \A k, l, x : <<x>> # <<k, l>>
  OBVIOUS
<1>5. \A i \in 1..Len(r) : \A k \in 1..Len(r[i].kids) :
        <<r[i].key, r[i].kids[k].key>> \in Paths(r) \ Tops(r)
  <2> SUFFICES ASSUME NEW i \in 1..Len(r), NEW k \in 1..Len(r[i].kids)
               PROVE  <<r[i].key, r[i].kids[k].key>> \in Paths(r) \ Tops(r)
    OBVIOUS
  <2> DEFINE p == <<r[i].key, r[i].kids[k].key>>
  <2>1. \A x : p # <<x>>
    BY <1>4
  <2> HIDE DEF p
  <2>2. p \notin Tops(r)
    BY <1>3, <2>1
  <2>3. QED
    BY <2>2, PathsUnfold DEF p
<1>6. QED
  BY <1>3, <1>5, PathsUnfold

IsMatching(m, base, r, ids, all) ==
    /\ m.top.old = base /\ m.top.new = r
    /\ m.top.kept = RetainedKeys(base, r)
    /\ IsDiff(m.top, Root, r, ids, all)
    /\ DOMAIN m.kids = 1..Len(r)
    /\ \A i \in 1..Len(r) :
        /\ IsDiff(m.kids[i], <<r[i].key>>, r, ids, all)
        /\ m.kids[i].new = r[i].kids
        /\ m.kids[i].old = IF r[i].key \in m.top.kept THEN NodeWith(base, r[i].key).kids
                           ELSE <<>>

\* What is kept of the lists of a diff is common to them.
LEMMA MatchingIs ==
    ASSUME NEW ids, NEW all, NEW r \in Renderings, NEW base, IsBase(base, ids, all),
           NEW m, m = Matching(base, r), Diffable(m)
    PROVE  IsMatching(m, base, r, ids, all)
<1> DEFINE kept == RetainedKeys(base, r)
           Old(c) == IF c.key \in kept THEN NodeWith(base, c.key).kids ELSE <<>>
           top == [old |-> base, new |-> r, kept |-> kept]
           kids == [i \in DOMAIN r |-> [old |-> Old(r[i]), new |-> r[i].kids,
                                        kept |-> RetainedKeys(Old(r[i]), r[i].kids)]]
<1>1. m.top = top /\ m.kids = kids
  BY DEF Matching
<1>2. /\ IsRendered(r) /\ r \in Seq(Nodes) /\ DOMAIN r = 1..Len(r)
      /\ \A i \in 1..Len(r) : IsRendered(r[i].kids) /\ r[i].kids \in Seq(Leaves)
  BY RenderingType DEF IsRendered
<1>3. /\ \A i \in 1..Len(r) : <<r[i].key>> \in Tops(r)
      /\ \A i \in 1..Len(r) : \A k \in 1..Len(r[i].kids) :
            <<r[i].key, r[i].kids[k].key>> \in Paths(r) \ Tops(r)
  BY TopsUnfold
<1>4. IsDiff(m.top, Root, r, ids, all)
  <2>1. UniqueKeys(base)
    BY <1>1 DEF Diffable
  <2>2. kept \subseteq CommonKeys(base, r)
    BY <1>2, <2>1, RetainedOfBase DEF IsLongestCommon
  <2>3. \A j \in 1..Len(r) : Path(Root, r[j]) \in Below(r, Root)
    BY <1>3 DEF Path, Root, Below
  <2> HIDE DEF kept, kids
  <2>4. QED
    BY <1>1, <1>2, <2>2, <2>3 DEF IsDiff
<1>5. ASSUME NEW i \in 1..Len(r) PROVE IsDiff(m.kids[i], <<r[i].key>>, r, ids, all)
  <2> DEFINE old == Old(r[i])
             new == r[i].kids
  <2>1. m.kids[i] = [old |-> old, new |-> new, kept |-> RetainedKeys(old, new)]
    <3> HIDE DEF Old
    <3> QED
      BY <1>1, <1>2
  <2>2. IsBase(old, ids, all)
    <3>1. CASE r[i].key \in kept
      <4>1. kept \subseteq CommonKeys(m.top.old, m.top.new)
        BY <1>1, <1>4 DEF IsDiff
      <4> DEFINE key == r[i].key
      <4>2. key \in CommonKeys(m.top.old, m.top.new)
        BY <3>1, <4>1
      <4> HIDE DEF key, kept, kids
      <4>3. NodeWith(m.top.old, key) \in NodeEntries(ids)
        BY <1>4, <4>2, KeptEntry
      <4>4. old = NodeWith(m.top.old, key).kids
        BY <1>1, <3>1 DEF key
      <4>5. old \in Seq(LeafEntries(ids))
        BY <4>3, <4>4 DEF NodeEntries, EntryLevels
      <4>6. LeafEntries(ids) \subseteq NodeEntries(ids) \cup Placeholders(all)
        BY EntriesAreNodes DEF NodeEntries
      <4>7. QED
        BY <4>5, <4>6, SeqSubset DEF IsBase
    <3>2. CASE r[i].key \notin kept
      BY <3>2 DEF IsBase
    <3>3. QED
      BY <3>1, <3>2
  <2> HIDE DEF old
  <2>3. IsRendered(new)
    BY <1>2
  <2>4. UniqueKeys(old)
    <3>1. i \in DOMAIN m.kids
      BY <1>1, <1>2
    <3>2. UniqueKeys(m.kids[i].old)
      BY <3>1 DEF Diffable
    <3>3. QED
      BY <2>1, <3>2
  <2> HIDE DEF new
  <2>5. RetainedKeys(old, new) \subseteq CommonKeys(old, new)
    BY <2>2, <2>3, <2>4, RetainedOfBase DEF IsLongestCommon
  <2>6. \A k \in 1..Len(new) : Path(<<r[i].key>>, new[k]) \in Below(r, <<r[i].key>>)
    <3>1. r[i].key \in Keys /\ \A k \in 1..Len(new) : new[k].key \in Keys
      <4>1. r[i] \in Nodes /\ \A k \in 1..Len(new) : new[k] \in Nodes
        BY <1>2 DEF IsRendered, new
      <4>2. QED
        BY <4>1, NodeType
    <3>2. \A k \in 1..Len(new) : <<r[i].key, new[k].key>> \in Paths(r) \ Tops(r)
      BY <1>3 DEF new
    <3> HIDE DEF kids, Old
    <3>3. QED
      <4>1. Below(r, <<r[i].key>>) = Paths(r) \ Tops(r)
        BY DEF Below, Root
      <4>2. QED
        BY <3>1, <3>2, <4>1, AppendOne DEF Path
  <2>7. \A k \in 1..Len(new) : new[k].kind = "block"
    <3>1. \A k \in 1..Len(new) : new[k] \in Leaves
      BY <1>2 DEF new
    <3>2. QED
      BY <3>1 DEF Leaves
  <2> HIDE DEF kids
  <2>8. QED
    BY <2>1, <2>2, <2>3, <2>5, <2>6, <2>7 DEF IsDiff
<1>6. DOMAIN m.kids = 1..Len(r) /\ \A i \in 1..Len(r) : m.kids[i].new = r[i].kids /\ m.kids[i].old = Old(r[i])
  <2> HIDE DEF Old
  <2> QED
    BY <1>1, <1>2
<1>7. QED
  <2> HIDE DEF kids, kept
  <2> QED
    BY <1>1, <1>4, <1>5, <1>6 DEF IsMatching, kept

(* What is bound at the start *)

Stays(m, r, i) ==
    r[i].key \in m.top.kept \/ IsMoved(m.top.old, m.top.kept, r[i])

IsInherited(b, m, r, ids) ==
    /\ DOMAIN b \subseteq Paths(r)
    /\ \A p \in DOMAIN b : b[p] \in ids
    /\ \A i \in 1..Len(r) : Stays(m, r, i) => <<r[i].key>> \in DOMAIN b
    /\ \A i \in 1..Len(r) : \A k \in 1..Len(r[i].kids) :
        r[i].kids[k].key \in m.kids[i].kept => <<r[i].key, r[i].kids[k].key>> \in DOMAIN b
    /\ \A i \in 1..Len(r) : <<r[i].key>> \in DOMAIN b =>
        /\ Stays(m, r, i)
        /\ \E x \in DOMAIN m.top.old :
            m.top.old[x].key = r[i].key /\ b[<<r[i].key>>] = m.top.old[x].id
    /\ \A i \in 1..Len(r) : \A k \in 1..Len(r[i].kids) :
        <<r[i].key, r[i].kids[k].key>> \in DOMAIN b =>
            \E x \in DOMAIN m.top.old : \E y \in DOMAIN m.top.old[x].kids :
                b[<<r[i].key, r[i].kids[k].key>>] = m.top.old[x].kids[y].id

\* The ids that stay are those of cached nodes of the same key.
LEMMA InheritedIs ==
    ASSUME NEW ids, NEW all, NEW r \in Renderings, NEW base,
           NEW m, IsMatching(m, base, r, ids, all)
    PROVE  IsInherited(Inherited(m), m, r, ids)
<1> DEFINE stays == {i \in DOMAIN r : \/ r[i].key \in m.top.kept
                                      \/ IsMoved(m.top.old, m.top.kept, r[i])}
           paths == {<<r[i].key>> : i \in stays}
                        \cup UNION {{<<r[i].key, k>> : k \in m.kids[i].kept} : i \in stays}
           b == Inherited(m)
<1>1. b = [p \in paths |-> NodeAt(base, p).id]
  BY DEF Inherited, IsMatching
<1>2. /\ IsRendered(r) /\ r \in Seq(Nodes) /\ DOMAIN r = 1..Len(r)
      /\ \A i \in 1..Len(r) : r[i] \in Nodes /\ r[i].kids \in Seq(Leaves)
  BY RenderingType DEF IsRendered
<1>3. \A i : i \in stays <=> i \in 1..Len(r) /\ Stays(m, r, i)
  BY <1>2 DEF Stays
<1>4. \A p : p \in paths <=> \/ \E i \in stays : p = <<r[i].key>>
                             \/ \E i \in stays : \E k \in m.kids[i].kept : p = <<r[i].key, k>>
  OBVIOUS
<1> HIDE DEF stays, paths, b
<1>5. ASSUME NEW i \in stays
      PROVE  /\ <<r[i].key>> \in Paths(r) /\ NodeAt(base, <<r[i].key>>) = NodeWith(base, r[i].key)
             /\ NodeWith(base, r[i].key) \in NodeEntries(ids)
             /\ \E x \in DOMAIN base : base[x].key = r[i].key /\ NodeWith(base, r[i].key) = base[x]
  <2>1. i \in 1..Len(r) /\ Stays(m, r, i)
    BY <1>3
  <2>2. <<r[i].key>> \in Paths(r)
    BY <2>1, PathsUnfold
  <2>3. NodeAt(base, <<r[i].key>>) = NodeWith(base, r[i].key)
    BY DEF NodeAt
  <2>4. r[i].key \in CommonKeys(m.top.old, m.top.new)
    <3>1. CASE r[i].key \in m.top.kept
      BY <3>1 DEF IsMatching, IsDiff
    <3>2. CASE IsMoved(m.top.old, m.top.kept, r[i])
      <4>1. PICK x \in ToSet(m.top.old) : Matches(x, r[i])
        BY <3>2 DEF IsMoved
      <4>2. r[i] \in ToSet(m.top.new)
        BY <1>2, <2>1 DEF IsMatching, ToSet
      <4>3. QED
        BY <4>1, <4>2 DEF CommonKeys, Matches
    <3>3. QED
      BY <2>1, <3>1, <3>2 DEF Stays
  <2>5. IsDiff(m.top, Root, r, ids, all) /\ m.top.old = base
    BY DEF IsMatching
  <2>6. /\ NodeWith(base, r[i].key) \in NodeEntries(ids)
        /\ \E x \in DOMAIN base : base[x].key = r[i].key /\ NodeWith(base, r[i].key) = base[x]
    BY <2>4, <2>5, KeptEntry
  <2>7. QED
    BY <2>2, <2>3, <2>6
<1>6. ASSUME NEW i \in 1..Len(r), NEW key \in m.kids[i].kept
      PROVE  /\ i \in stays /\ <<r[i].key, key>> \in Paths(r)
             /\ NodeAt(base, <<r[i].key, key>>) \in NodeEntries(ids)
             /\ \E x \in DOMAIN base : \E y \in DOMAIN base[x].kids :
                    NodeAt(base, <<r[i].key, key>>) = base[x].kids[y]
  <2> DEFINE list == m.kids[i]
  <2>1. IsDiff(list, <<r[i].key>>, r, ids, all) /\ list.new = r[i].kids
    BY DEF IsMatching
  <2>2. key \in CommonKeys(list.old, list.new)
    BY <2>1 DEF IsDiff
  <2>3. PICK x \in ToSet(list.old) : x.key = key /\ \E c \in ToSet(list.new) : Matches(x, c)
    BY <2>2 DEF CommonKeys
  <2>4. PICK k \in 1..Len(r[i].kids) : r[i].kids[k].key = key
    <3>1. PICK c \in ToSet(list.new) : Matches(x, c)
      BY <2>3
    <3>2. r[i].kids \in Seq(Leaves)
      BY <1>2
    <3>3. \E k \in DOMAIN list.new : list.new[k].key = key
      BY <2>3, <3>1 DEF ToSet, Matches
    <3>4. DOMAIN r[i].kids = 1..Len(r[i].kids)
      BY <3>2
    <3> HIDE DEF list
    <3>5. QED
      BY <2>1, <3>3, <3>4
  <2>5. r[i].key \in m.top.kept /\ list.old = NodeWith(base, r[i].key).kids
    <3>1. ToSet(<<>>) = {}
      BY DEF ToSet
    <3>2. list.old # <<>>
      BY <2>3, <3>1
    <3>3. list.old = IF r[i].key \in m.top.kept THEN NodeWith(base, r[i].key).kids ELSE <<>>
      BY DEF IsMatching
    <3>4. QED
      BY <3>2, <3>3
  <2>6. i \in stays
    BY <1>3, <2>5 DEF Stays
  <2>7. <<r[i].key, key>> \in Paths(r)
    BY <2>4, PathsUnfold
  <2>8. NodeAt(base, <<r[i].key, key>>) = NodeWith(list.old, key)
    BY <2>5 DEF NodeAt
  <2> HIDE DEF list
  <2>9. /\ NodeWith(list.old, key) \in NodeEntries(ids)
        /\ \E y \in DOMAIN list.old : NodeWith(list.old, key) = list.old[y]
    <3>1. \E p : IsDiff(list, p, r, ids, all)
      BY <2>1
    <3>2. PICK p : IsDiff(list, p, r, ids, all)
      BY <3>1
    <3>3. NodeWith(list.old, key) \in NodeEntries(ids)
      BY <2>2, <3>2, KeptEntry
    <3>4. \E y \in DOMAIN list.old : list.old[y].key = key
      BY <2>3 DEF ToSet
    <3>5. \E y \in DOMAIN list.old : NodeWith(list.old, key) = list.old[y]
      BY <3>4 DEF NodeWith
    <3>6. QED
      BY <3>3, <3>5
  <2>10. PICK z \in DOMAIN base : NodeWith(base, r[i].key) = base[z]
    BY <1>5, <2>6
  <2>11. list.old = base[z].kids
    BY <2>5, <2>10
  <2>12. QED
    BY <2>6, <2>7, <2>8, <2>9, <2>11
<1>7. ASSUME NEW p \in paths PROVE p \in Paths(r) /\ NodeAt(base, p).id \in ids
  <2>1. NodeAt(base, p) \in NodeEntries(ids) /\ p \in Paths(r)
    <3>1. CASE \E i \in stays : p = <<r[i].key>>
      BY <1>5, <3>1
    <3>2. CASE \E i \in stays : \E k \in m.kids[i].kept : p = <<r[i].key, k>>
      BY <1>3, <1>6, <3>2
    <3>3. QED
      BY <1>4, <3>1, <3>2
  <2>2. QED
    BY <2>1 DEF NodeEntries, EntryLevels
<1>8. DOMAIN b = paths /\ \A p \in paths : b[p] = NodeAt(base, p).id
  BY <1>1
<1>9. ASSUME NEW i \in 1..Len(r), <<r[i].key>> \in DOMAIN b
      PROVE  /\ Stays(m, r, i)
             /\ \E x \in DOMAIN base : base[x].key = r[i].key /\ b[<<r[i].key>>] = base[x].id
  <2>1. \E j \in stays : <<r[i].key>> = <<r[j].key>>
    <3>1. \A k, l, x : <<x>> # <<k, l>>
      OBVIOUS
    <3>2. QED
      BY <1>4, <1>8, <1>9, <3>1
  <2>2. PICK j \in stays : r[i].key = r[j].key
    BY <2>1
  <2>3. i = j
    BY <1>2, <1>3, <2>2 DEF IsRendered, KeysDiffer
  <2>4. /\ Stays(m, r, i) /\ NodeAt(base, <<r[i].key>>) = NodeWith(base, r[i].key)
        /\ \E x \in DOMAIN base : base[x].key = r[i].key /\ NodeWith(base, r[i].key) = base[x]
    BY <1>3, <1>5, <2>3
  <2>5. QED
    BY <1>8, <1>9, <2>4
<1>10. \A i \in 1..Len(r) : Stays(m, r, i) => <<r[i].key>> \in DOMAIN b
  BY <1>3, <1>4, <1>8
<1>11. ASSUME NEW i \in 1..Len(r), NEW k \in 1..Len(r[i].kids), r[i].kids[k].key \in m.kids[i].kept
       PROVE  <<r[i].key, r[i].kids[k].key>> \in DOMAIN b
  BY <1>4, <1>6, <1>8, <1>11
<1>12. ASSUME NEW i \in 1..Len(r), NEW k \in 1..Len(r[i].kids),
              <<r[i].key, r[i].kids[k].key>> \in DOMAIN b
       PROVE  \E x \in DOMAIN base : \E y \in DOMAIN base[x].kids :
                    b[<<r[i].key, r[i].kids[k].key>>] = base[x].kids[y].id
  <2> DEFINE p == <<r[i].key, r[i].kids[k].key>>
  <2>1. \E j \in stays : \E key \in m.kids[j].kept : p = <<r[j].key, key>>
    <3>1. \A j : p # <<r[j].key>>
      OBVIOUS
    <3> HIDE DEF p
    <3>2. QED
      BY <1>4, <1>8, <1>12, <3>1 DEF p
  <2>2. PICK j \in stays : \E key \in m.kids[j].kept : p = <<r[j].key, key>>
    BY <2>1
  <2>3. PICK key \in m.kids[j].kept : p = <<r[j].key, key>>
    BY <2>2
  <2>4. \E x \in DOMAIN base : \E y \in DOMAIN base[x].kids :
            NodeAt(base, <<r[j].key, key>>) = base[x].kids[y]
    BY <1>3, <1>6
  <2> HIDE DEF p
  <2>5. b[p] = NodeAt(base, p).id
    BY <1>8, <1>12 DEF p
  <2>6. \E x \in DOMAIN base : \E y \in DOMAIN base[x].kids : b[p] = base[x].kids[y].id
    BY <2>3, <2>4, <2>5
  <2>7. QED
    BY <2>6 DEF p
<1>13. m.top.old = base
  BY DEF IsMatching
<1>14. QED
  BY <1>7, <1>8, <1>9, <1>10, <1>11, <1>12, <1>13 DEF IsInherited, b

----------------------------------------------------------------------------
(* The plan *)

\* The operations of a plan.
PlanOps(r, ids, all) ==
    Clears(all) \cup UNION {Builds(r, ids, p) : p \in Tops(r) \cup {Root}}

\* An id that the diff gives up, of the page's children or of their children.
GivenUp(m, id) ==
    \/ \E i \in DOMAIN m.top.old : Goes(m.top, i) /\ id = m.top.old[i].id
    \/ \E j \in DOMAIN m.kids : \E i \in DOMAIN m.kids[j].old : id = m.kids[j].old[i].id

Careful(ops, m, all) ==
    \A k \in 1..Len(ops) : ops[k] \in Clears(all) => GivenUp(m, ops[k].id)

\* A plan: its first operations put the top level in its place, and everything that is
\* new is made by one of them.
IsPlan(ops, n, m, r, ids, all) ==
    /\ ops \in Seq(PlanOps(r, ids, all)) /\ n \in 0..Len(ops)
    /\ \A k \in 1..n : ops[k] \in Builds(r, ids, Root)
    /\ \A i \in 1..Len(r) : ~Stays(m, r, i) =>
            \E k \in 1..n : Makes(ops[k], <<r[i].key>>)
    /\ \A i \in 1..Len(r) : \A k \in 1..Len(r[i].kids) : r[i].kids[k].key \notin m.kids[i].kept =>
            \E u \in 1..Len(ops) : Makes(ops[u], <<r[i].key, r[i].kids[k].key>>)
    /\ Careful(ops, m, all)

\* Two sequences put one after the other, member by member.
LEMMA JoinedIs ==
    ASSUME NEW S, NEW s \in Seq(S), NEW t \in Seq(S)
    PROVE  /\ s \o t \in Seq(S) /\ Len(s \o t) = Len(s) + Len(t)
           /\ \A i \in 1..Len(s) : (s \o t)[i] = s[i]
           /\ \A i \in 1..Len(t) : (s \o t)[Len(s) + i] = t[i]
           /\ \A i \in 1..Len(s \o t) : \/ i \in 1..Len(s)
                                        \/ \E j \in 1..Len(t) : i = Len(s) + j
<1>1. Len(s) \in Nat /\ Len(t) \in Nat
  OBVIOUS
<1>2. s \o t \in Seq(S) /\ Len(s \o t) = Len(s) + Len(t)
  OBVIOUS
<1>3. \A i \in 1..Len(s) : (s \o t)[i] = s[i]
  OBVIOUS
<1>4. \A i \in 1..Len(t) : (s \o t)[Len(s) + i] = t[i]
  OBVIOUS
<1>5. ASSUME NEW i \in 1..(Len(s) + Len(t)), i \notin 1..Len(s)
      PROVE  \E j \in 1..Len(t) : i = Len(s) + j
  <2>1. i - Len(s) \in 1..Len(t) /\ i = Len(s) + (i - Len(s))
    BY <1>1, <1>5
  <2>2. QED
    BY <2>1
<1>6. QED
  BY <1>2, <1>3, <1>4, <1>5

\* A plan stays one when operations follow that remove only what may go.
LEMMA PlanGoesOn ==
    ASSUME NEW r, NEW ids, NEW all, NEW m, NEW ops, NEW n, IsPlan(ops, n, m, r, ids, all),
           NEW more \in Seq(PlanOps(r, ids, all)), Careful(more, m, all)
    PROVE  IsPlan(ops \o more, n, m, r, ids, all)
<1> DEFINE S == PlanOps(r, ids, all)
           t == ops \o more
<1>1. ops \in Seq(S) /\ n \in 0..Len(ops)
  BY DEF IsPlan
<1> HIDE DEF S
<1>2. /\ t \in Seq(S) /\ Len(t) = Len(ops) + Len(more)
      /\ \A i \in 1..Len(ops) : t[i] = ops[i]
      /\ \A i \in 1..Len(more) : t[Len(ops) + i] = more[i]
      /\ \A i \in 1..Len(t) : \/ i \in 1..Len(ops)
                              \/ \E j \in 1..Len(more) : i = Len(ops) + j
  BY <1>1, JoinedIs DEF S
<1> HIDE DEF t
<1>3. Len(ops) \in Nat /\ Len(more) \in Nat
  BY <1>1
<1>4. n \in 0..Len(t) /\ 1..Len(ops) \subseteq 1..Len(t) /\ 1..n \subseteq 1..Len(ops)
  BY <1>1, <1>2, <1>3
<1>5. \A k \in 1..n : t[k] = ops[k]
  BY <1>2, <1>4
<1>6. \A k \in 1..n : t[k] \in Builds(r, ids, Root)
  BY <1>5 DEF IsPlan
<1>7. \A i \in 1..Len(r) : ~Stays(m, r, i) => \E k \in 1..n : Makes(t[k], <<r[i].key>>)
  BY <1>5 DEF IsPlan
<1>8. ASSUME NEW i \in 1..Len(r), NEW k \in 1..Len(r[i].kids), r[i].kids[k].key \notin m.kids[i].kept
      PROVE  \E u \in 1..Len(t) : Makes(t[u], <<r[i].key, r[i].kids[k].key>>)
  <2>1. PICK u \in 1..Len(ops) : Makes(ops[u], <<r[i].key, r[i].kids[k].key>>)
    BY <1>8 DEF IsPlan
  <2>2. QED
    BY <1>2, <1>4, <2>1
<1>9. Careful(t, m, all)
  <2> SUFFICES ASSUME NEW k \in 1..Len(t), t[k] \in Clears(all) PROVE GivenUp(m, t[k].id)
    BY DEF Careful
  <2>1. CASE k \in 1..Len(ops)
    BY <1>2, <2>1 DEF IsPlan, Careful
  <2>2. CASE \E j \in 1..Len(more) : k = Len(ops) + j
    BY <1>2, <2>2 DEF Careful
  <2>3. QED
    BY <1>2, <2>1, <2>2
<1>10. IsPlan(t, n, m, r, ids, all)
  BY <1>2, <1>4, <1>6, <1>7, <1>8, <1>9 DEF IsPlan, S
<1>11. QED
  BY <1>10 DEF t

\* What puts a block in its place removes none.
LEMMA BuildsClearNothing ==
    ASSUME NEW r, NEW ids, NEW p, NEW all
    PROVE  Builds(r, ids, p) \cap Clears(all) = {}
BY DEF Builds, News, Clears

\* What each part of Plan may hold.
LEMMA PartsOfPlan ==
    ASSUME NEW ids, NEW all, NEW r \in Renderings, NEW base,
           NEW m, IsMatching(m, base, r, ids, all)
    PROVE  /\ \A p \in Tops(r) \cup {Root} : Builds(r, ids, p) \subseteq PlanOps(r, ids, all)
           /\ Clears(all) \subseteq PlanOps(r, ids, all)
           /\ \A p \in Tops(r) \cup {Root} : \A ops \in Seq(Builds(r, ids, p)) :
                ops \in Seq(PlanOps(r, ids, all)) /\ Careful(ops, m, all)
           /\ \A ops : ClearsOf(ops, m.top, all) =>
                ops \in Seq(PlanOps(r, ids, all)) /\ Careful(ops, m, all)
           /\ \A i \in 1..Len(r) : \A ops : ClearsOf(ops, m.kids[i], all) =>
                ops \in Seq(PlanOps(r, ids, all)) /\ Careful(ops, m, all)
<1> DEFINE S == PlanOps(r, ids, all)
<1>1. \A p \in Tops(r) \cup {Root} : Builds(r, ids, p) \subseteq S
  BY DEF PlanOps
<1>2. Clears(all) \subseteq S
  BY DEF PlanOps
<1> HIDE DEF S
<1>3. ASSUME NEW p \in Tops(r) \cup {Root}, NEW ops \in Seq(Builds(r, ids, p))
      PROVE  ops \in Seq(S) /\ Careful(ops, m, all)
  <2>1. ops \in Seq(S)
    BY <1>1, SeqSubset
  <2>2. \A k \in 1..Len(ops) : ops[k] \in Builds(r, ids, p)
    OBVIOUS
  <2>3. QED
    BY <2>1, <2>2, BuildsClearNothing DEF Careful
<1>4. ASSUME NEW ops, ClearsOf(ops, m.top, all)
      PROVE  ops \in Seq(S) /\ Careful(ops, m, all)
  <2>1. ops \in Seq(S)
    BY <1>2, <1>4, SeqSubset DEF ClearsOf
  <2>2. Careful(ops, m, all)
    BY <1>4 DEF ClearsOf, Careful, GivenUp
  <2>3. QED
    BY <2>1, <2>2
<1>5. ASSUME NEW i \in 1..Len(r), NEW ops, ClearsOf(ops, m.kids[i], all)
      PROVE  ops \in Seq(S) /\ Careful(ops, m, all)
  <2>1. ops \in Seq(S)
    BY <1>2, <1>5, SeqSubset DEF ClearsOf
  <2>2. i \in DOMAIN m.kids
    BY DEF IsMatching
  <2>3. Careful(ops, m, all)
    BY <1>5, <2>2 DEF ClearsOf, Careful, GivenUp
  <2>4. QED
    BY <2>1, <2>3
<1>6. QED
  BY <1>1, <1>2, <1>3, <1>4, <1>5 DEF S

\* The operations of a list of children create those of them that are not kept.
LEMMA KidsAreMade ==
    ASSUME NEW ids, NEW all, ids \subseteq all, NEW r \in Renderings, NEW base,
           NEW m, IsMatching(m, base, r, ids, all), NEW i \in 1..Len(r),
           NEW ops, ops = SiblingOps(<<r[i].key>>, m.kids[i]) \o Removals(m.kids[i])
    PROVE  /\ ops \in Seq(PlanOps(r, ids, all)) /\ Careful(ops, m, all)
           /\ \A k \in 1..Len(r[i].kids) : r[i].kids[k].key \notin m.kids[i].kept =>
                \E u \in 1..Len(ops) : Makes(ops[u], <<r[i].key, r[i].kids[k].key>>)
<1> DEFINE p == <<r[i].key>>
           list == m.kids[i]
           new == r[i].kids
           S == PlanOps(r, ids, all)
           a == SiblingOps(p, list)
           b == Removals(list)
<1>1. IsDiff(list, p, r, ids, all) /\ list.new = new
  BY DEF IsMatching
<1>2. p \in Tops(r) /\ p # Root /\ r[i].kids \in Seq(Leaves)
  <2>1. p # <<>>
    OBVIOUS
  <2>2. QED
    BY <2>1, TopsUnfold, RenderingType DEF Root
<1>3. \A k \in 1..Len(new) : Path(p, new[k]) = <<r[i].key, new[k].key>>
  <2>1. r[i].key \in Keys
    <3>1. r[i] \in Nodes
      BY RenderingType DEF IsRendered
    <3>2. QED
      BY <3>1, NodeType
  <2>2. \A k \in 1..Len(new) : new[k].key \in Keys
    <3> SUFFICES ASSUME NEW k \in 1..Len(new) PROVE new[k].key \in Keys
      OBVIOUS
    <3>1. new[k] \in Nodes
      BY <1>2, LeavesAreNodes
    <3> HIDE DEF new
    <3>2. QED
      BY <3>1, NodeType
  <2> HIDE DEF new
  <2>3. QED
    BY <2>1, <2>2, AppendOne DEF Path
<1> HIDE DEF p, list, new
<1>4. /\ a \in Seq(Builds(r, ids, p))
      /\ \A k \in 1..Len(new) :
            new[k].key \notin list.kept /\ ~IsMoved(list.old, list.kept, new[k])
                => \E u \in 1..Len(a) : Makes(a[u], Path(p, new[k]))
  <2>1. /\ a \in Seq(Builds(r, ids, p))
        /\ \A k \in 1..Len(list.new) :
            list.new[k].key \notin list.kept /\ ~IsMoved(list.old, list.kept, list.new[k])
                => \E u \in 1..Len(a) : Makes(a[u], Path(p, list.new[k]))
    BY <1>1, SiblingOpsBuild
  <2> HIDE DEF a
  <2>2. QED
    BY <1>1, <2>1
<1>5. \A k \in 1..Len(new) : ~IsMoved(list.old, list.kept, new[k])
  <2>1. \A k \in 1..Len(new) : new[k].kind = "block"
    BY <1>1, <1>2 DEF IsDiff
  <2>2. QED
    BY <2>1 DEF IsMoved
<1>6. ClearsOf(b, list, all)
  BY <1>1, RemovalsClear DEF IsDiff
<1> HIDE DEF a, b
<1>7. a \in Seq(S) /\ Careful(a, m, all) /\ b \in Seq(S) /\ Careful(b, m, all)
  BY <1>2, <1>4, <1>6, PartsOfPlan DEF list
<1> HIDE DEF S
<1>8. /\ ops = a \o b /\ ops \in Seq(S)
      /\ \A k \in 1..Len(a) : ops[k] = a[k]
      /\ \A k \in 1..Len(b) : ops[Len(a) + k] = b[k]
      /\ \A k \in 1..Len(ops) : k \in 1..Len(a) \/ \E j \in 1..Len(b) : k = Len(a) + j
      /\ 1..Len(a) \subseteq 1..Len(ops)
  <2>1. ops = a \o b
    BY DEF a, b, p, list
  <2>2. /\ a \o b \in Seq(S) /\ Len(a \o b) = Len(a) + Len(b)
        /\ \A k \in 1..Len(a) : (a \o b)[k] = a[k]
        /\ \A k \in 1..Len(b) : (a \o b)[Len(a) + k] = b[k]
        /\ \A k \in 1..Len(a \o b) : k \in 1..Len(a) \/ \E j \in 1..Len(b) : k = Len(a) + j
    BY <1>7, JoinedIs
  <2>3. Len(a) \in Nat /\ Len(b) \in Nat
    BY <1>7
  <2>4. 1..Len(a) \subseteq 1..(Len(a) + Len(b))
    BY <2>3
  <2>5. QED
    BY <2>1, <2>2, <2>4
<1>9. Careful(ops, m, all)
  <2> SUFFICES ASSUME NEW k \in 1..Len(ops), ops[k] \in Clears(all)
               PROVE  GivenUp(m, ops[k].id)
    BY DEF Careful
  <2>1. CASE k \in 1..Len(a)
    BY <1>7, <1>8, <2>1 DEF Careful
  <2>2. CASE \E j \in 1..Len(b) : k = Len(a) + j
    BY <1>7, <1>8, <2>2 DEF Careful
  <2>3. QED
    BY <1>8, <2>1, <2>2
<1>10. ASSUME NEW k \in 1..Len(new), new[k].key \notin list.kept
       PROVE  \E u \in 1..Len(ops) : Makes(ops[u], <<r[i].key, new[k].key>>)
  <2>1. PICK u \in 1..Len(a) : Makes(a[u], Path(p, new[k]))
    BY <1>4, <1>5, <1>10
  <2>2. u \in 1..Len(ops) /\ ops[u] = a[u]
    BY <1>8
  <2>3. QED
    BY <1>3, <2>1, <2>2
<1>11. QED
  BY <1>8, <1>9, <1>10 DEF S, new, list

\* Plan as a whole: what it creates, in which order, and what it removes.
LEMMA PlanIs ==
    ASSUME NEW ids, NEW all, ids \subseteq all, NEW r \in Renderings, NEW base,
           NEW m, IsMatching(m, base, r, ids, all)
    PROVE  \E n : IsPlan(Plan(m), n, m, r, ids, all)
<1> DEFINE Kids(i) == SiblingOps(Path(Root, m.top.new[i]), m.kids[i]) \o Removals(m.kids[i])
           S == PlanOps(r, ids, all)
           a == SiblingOps(Root, m.top)
           ss == [i \in DOMAIN m.kids |-> Kids(i)]
           b == FlattenSeq(ss)
           n == Len(a)
<1>1. IsDiff(m.top, Root, r, ids, all) /\ m.top.new = r /\ DOMAIN m.kids = 1..Len(r)
  BY DEF IsMatching
<1>2. r \in Seq(Nodes) /\ Len(r) \in Nat
  BY RenderingType DEF IsRendered
<1>3. \A i \in 1..Len(r) : Path(Root, m.top.new[i]) = <<r[i].key>>
  BY <1>1 DEF Path, Root
<1>4. /\ a \in Seq(Builds(r, ids, Root))
      /\ \A i \in 1..Len(r) : ~Stays(m, r, i) => \E k \in 1..n : Makes(a[k], <<r[i].key>>)
  <2>1. /\ a \in Seq(Builds(r, ids, Root))
        /\ \A i \in 1..Len(m.top.new) :
            m.top.new[i].key \notin m.top.kept /\ ~IsMoved(m.top.old, m.top.kept, m.top.new[i])
                => \E k \in 1..n : Makes(a[k], Path(Root, m.top.new[i]))
    BY <1>1, SiblingOpsBuild
  <2> HIDE DEF a, n
  <2>2. QED
    BY <1>1, <1>3, <2>1 DEF Stays
<1> HIDE DEF a
<1>5. a \in Seq(S) /\ Careful(a, m, all)
  BY <1>4, PartsOfPlan
<1>6. ASSUME NEW i \in 1..Len(r)
      PROVE  /\ ss[i] \in Seq(S) /\ Careful(ss[i], m, all)
             /\ \A k \in 1..Len(r[i].kids) : r[i].kids[k].key \notin m.kids[i].kept =>
                    \E u \in 1..Len(ss[i]) : Makes(ss[i][u], <<r[i].key, r[i].kids[k].key>>)
  <2>1. ss[i] = SiblingOps(<<r[i].key>>, m.kids[i]) \o Removals(m.kids[i])
    BY <1>1, <1>3
  <2> HIDE DEF ss, S
  <2>2. QED
    BY <2>1, KidsAreMade DEF S
<1>7. ss \in Seq(Seq(S)) /\ Len(ss) = Len(r)
  <2>1. ss = [i \in 1..Len(r) |-> ss[i]]
    BY <1>1
  <2> HIDE DEF ss, S
  <2>2. QED
    BY <1>2, <1>6, <2>1, ListIsSeq
<1> HIDE DEF ss, S
<1>8. IsMelted(b, ss, S)
  BY <1>7, FlattenMembers
<1> HIDE DEF b
<1>9. /\ b \in Seq(S)
      /\ \A i \in 1..Len(r) : \A j \in 1..Len(ss[i]) : \E k \in 1..Len(b) : b[k] = ss[i][j]
      /\ \A k \in 1..Len(b) : \E i \in 1..Len(r) : \E j \in 1..Len(ss[i]) : b[k] = ss[i][j]
  BY <1>7, <1>8 DEF IsMelted
<1>10. Careful(b, m, all)
  <2> SUFFICES ASSUME NEW k \in 1..Len(b), b[k] \in Clears(all) PROVE GivenUp(m, b[k].id)
    BY DEF Careful
  <2>1. PICK i \in 1..Len(r) : \E j \in 1..Len(ss[i]) : b[k] = ss[i][j]
    BY <1>9
  <2>2. QED
    BY <1>6, <2>1 DEF Careful
<1> DEFINE ab == a \o b
<1>11. /\ ab \in Seq(S) /\ Len(ab) = Len(a) + Len(b)
       /\ \A k \in 1..Len(a) : ab[k] = a[k]
       /\ \A k \in 1..Len(b) : ab[Len(a) + k] = b[k]
       /\ \A k \in 1..Len(ab) : k \in 1..Len(a) \/ \E j \in 1..Len(b) : k = Len(a) + j
  BY <1>5, <1>9, JoinedIs
<1> HIDE DEF ab
<1>12. /\ n \in 0..Len(ab) /\ 1..n \subseteq 1..Len(ab)
       /\ \A k \in 1..Len(b) : Len(a) + k \in 1..Len(ab)
  <2>1. Len(a) \in Nat /\ Len(b) \in Nat
    BY <1>5, <1>9
  <2>2. QED
    BY <1>11, <2>1
<1>13. Careful(ab, m, all)
  <2> SUFFICES ASSUME NEW k \in 1..Len(ab), ab[k] \in Clears(all)
               PROVE  GivenUp(m, ab[k].id)
    BY DEF Careful
  <2>1. CASE k \in 1..Len(a)
    BY <1>5, <1>11, <2>1 DEF Careful
  <2>2. CASE \E j \in 1..Len(b) : k = Len(a) + j
    BY <1>10, <1>11, <2>2 DEF Careful
  <2>3. QED
    BY <1>11, <2>1, <2>2
<1>14. \A k \in 1..n : ab[k] = a[k] /\ a[k] \in Builds(r, ids, Root)
  BY <1>4, <1>11
<1>15. ASSUME NEW i \in 1..Len(r), NEW k \in 1..Len(r[i].kids), r[i].kids[k].key \notin m.kids[i].kept
       PROVE  \E u \in 1..Len(ab) : Makes(ab[u], <<r[i].key, r[i].kids[k].key>>)
  <2>1. PICK u \in 1..Len(ss[i]) : Makes(ss[i][u], <<r[i].key, r[i].kids[k].key>>)
    BY <1>6, <1>15
  <2>2. PICK v \in 1..Len(b) : b[v] = ss[i][u]
    BY <1>9
  <2>3. ab[Len(a) + v] = b[v] /\ Len(a) + v \in 1..Len(ab)
    BY <1>11, <1>12
  <2>4. QED
    BY <2>1, <2>2, <2>3
<1>16. IsPlan(ab, n, m, r, ids, all)
  BY <1>4, <1>11, <1>12, <1>13, <1>14, <1>15 DEF IsPlan, S
<1>17. /\ Removals(m.top) \in Seq(S) /\ Careful(Removals(m.top), m, all)
       /\ Archivals(m.top) \in Seq(S) /\ Careful(Archivals(m.top), m, all)
  <2>1. ClearsOf(Removals(m.top), m.top, all) /\ ClearsOf(Archivals(m.top), m.top, all)
    BY <1>1, RemovalsClear DEF IsDiff
  <2>2. QED
    BY <2>1, PartsOfPlan DEF S
<1>18. PageUpdates(m.top) \in Seq(S) /\ Careful(PageUpdates(m.top), m, all)
  BY <1>1, PageUpdatesBuild, PartsOfPlan DEF S
<1>19. IsPlan(ab \o Removals(m.top), n, m, r, ids, all)
  BY <1>16, <1>17, PlanGoesOn DEF S
<1>20. IsPlan(ab \o Removals(m.top) \o PageUpdates(m.top), n, m, r, ids, all)
  BY <1>18, <1>19, PlanGoesOn DEF S
<1>21. IsPlan(ab \o Removals(m.top) \o PageUpdates(m.top) \o Archivals(m.top), n, m, r, ids, all)
  BY <1>17, <1>20, PlanGoesOn DEF S
<1>22. Plan(m) = ab \o Removals(m.top) \o PageUpdates(m.top) \o Archivals(m.top)
  BY DEF Plan, ab, a, b, ss
<1>23. QED
  BY <1>21, <1>22

----------------------------------------------------------------------------
(* The calls of the plan *)

\* The calls of a plan.
Appends(r, p) ==
    [op : {"append"}, under : {p}, nodes : Seq(Below(r, p)),
     at : {"head", "tail", "after"}, after : Below(r, p) \cup {Root}]

PlanCalls(r, ids, all) ==
    [op : {"create"}, node : Tops(r)]
        \cup [op : {"update", "rename"}, id : ids, hash : Hashes]
        \cup [op : {"move"}, id : ids]
        \cup Clears(all)
        \cup UNION {Appends(r, p) : p \in Tops(r) \cup {Root}}

\* Which call an operation is in: the first one that goes beyond it.
LEMMA OperationIsCalled ==
    ASSUME NEW S, NEW ops \in Seq(S), NEW queue, NEW head, IsBatching(queue, head, ops),
           NEW u \in 1..Len(ops)
    PROVE  \E k \in 1..Len(queue) :
                /\ head[k] <= u /\ u < head[k + 1]
                /\ \A l \in 1..Len(queue) : u < head[l] => k < l
<1> DEFINE L == Len(queue)
           n == Len(ops)
           T == {k \in 1..L : u < head[k + 1]}
<1>1. n \in Nat /\ u \in 1..n
  OBVIOUS
<1>2. /\ L \in Nat /\ head \in [1..(L + 1) -> 1..(n + 1)] /\ head[1] = 1 /\ head[L + 1] = n + 1
  BY DEF IsBatching
<1> HIDE DEF n, L
<1>3. L # 0
  <2>1. ASSUME L = 0 PROVE FALSE
    <3>1. head[1] = n + 1
      BY <1>2, <2>1
    <3>2. QED
      BY <1>1, <1>2, <3>1
  <2>2. QED
    BY <2>1
<1>4. L \in 1..L /\ u < head[L + 1]
  BY <1>1, <1>2, <1>3
<1>5. T \in SUBSET Nat /\ T # {}
  <2>1. L \in T
    BY <1>4
  <2>2. T \subseteq 1..L
    OBVIOUS
  <2>3. 1..L \subseteq Nat
    BY <1>2
  <2> HIDE DEF T
  <2>4. QED
    BY <2>1, <2>2, <2>3
<1>6. PICK k \in T : \A l \in T : k <= l
  <2> HIDE DEF T
  <2> QED
    BY <1>5, LeastNumber
<1>7. head[k] <= u
  <2>1. CASE k = 1
    BY <1>1, <1>2, <2>1
  <2>2. CASE k # 1
    <3> DEFINE j == k - 1
    <3>1. j \in 1..L /\ j + 1 = k /\ ~ (k <= j)
      BY <1>2, <2>2
    <3>2. j \notin T
      BY <1>6, <3>1
    <3>3. ~ (u < head[k])
      BY <3>1, <3>2
    <3>4. head[k] \in 1..(n + 1)
      BY <1>2
    <3>5. QED
      BY <1>1, <3>3, <3>4
  <2>3. QED
    BY <2>1, <2>2
<1>8. ASSUME NEW l \in 1..L, u < head[l] PROVE k < l
  <2> DEFINE j == l - 1
  <2>1. l # 1
    BY <1>1, <1>2, <1>8
  <2>2. j \in 1..L /\ j + 1 = l
    BY <1>2, <2>1
  <2>3. j \in T
    BY <1>8, <2>2
  <2>4. k <= j
    BY <1>6, <2>3
  <2>5. QED
    BY <1>2, <2>2, <2>4
<1>9. QED
  BY <1>7, <1>8 DEF L

\* The operations of one call: more than one only if they are new, under one parent.
LEMMA CallsHoldTogether ==
    ASSUME NEW S, NEW ops \in Seq(S), NEW queue, NEW head, IsBatching(queue, head, ops),
           NEW k \in 1..Len(queue), NEW u \in head[k]..(head[k + 1] - 1)
    PROVE  \/ u = head[k]
           \/ IsNew(ops[head[k]]) /\ IsNew(ops[u]) /\ ops[u].under = ops[head[k]].under
<1> DEFINE h == head[k]
           e == head[k + 1] - 1
           Together(i) == \/ i = h
                          \/ IsNew(ops[h]) /\ IsNew(ops[i]) /\ ops[i].under = ops[h].under
           T == {i \in Nat : h + i <= e => Together(h + i)}
<1>1. /\ Len(queue) \in Nat /\ head \in [1..(Len(queue) + 1) -> 1..(Len(ops) + 1)]
      /\ \A i \in (h + 1)..e : Follows(ops, i)
  BY DEF IsBatching
<1>2. Len(ops) \in Nat
  OBVIOUS
<1>3. h \in Nat /\ e \in Int /\ u \in h..e
  <2>1. k \in 1..(Len(queue) + 1) /\ k + 1 \in 1..(Len(queue) + 1)
    BY <1>1
  <2>2. head[k] \in 1..(Len(ops) + 1) /\ head[k + 1] \in 1..(Len(ops) + 1)
    BY <1>1, <2>1
  <2>3. QED
    BY <1>2, <2>2
<1> HIDE DEF h, e
<1>4. 0 \in T
  BY <1>3
<1>5. ASSUME NEW i \in Nat, i \in T PROVE i + 1 \in T
  <2> SUFFICES ASSUME h + (i + 1) <= e PROVE Together(h + (i + 1))
    BY <1>5
  <2> DEFINE g == h + i
             f == h + (i + 1)
  <2>1. g \in Nat /\ f = g + 1 /\ f - 1 = g /\ g <= e /\ f \in (h + 1)..e
    BY <1>3
  <2>2. Together(g)
    BY <1>5, <2>1
  <2> HIDE DEF g, f
  <2>3. Chains(ops[f], ops[g])
    BY <1>1, <2>1 DEF Follows
  <2>4. IsNew(ops[f]) /\ IsNew(ops[g]) /\ ops[f].under = ops[g].under
    BY <2>3 DEF Chains, IsNew
  <2>5. Together(f)
    BY <2>2, <2>4
  <2>6. QED
    BY <2>5 DEF f
<1> DEFINE d == u - h
<1>6. d \in Nat /\ h + d = u /\ h + d <= e
  BY <1>3
<1>7. d \in T
  <2> HIDE DEF T
  <2>1. \A i \in 0..(d - 1) : i \in T => i + 1 \in T
    BY <1>5, <1>6
  <2>2. 0..d \subseteq T
    <3> HIDE DEF d
    <3> QED
      BY <1>4, <1>6, <2>1, BoundedInduction
  <2>3. QED
    BY <1>6, <2>2
<1>8. Together(h + d)
  BY <1>6, <1>7
<1>9. QED
  BY <1>6, <1>8 DEF h

\* What an operation makes, its call creates.
LEMMA CallsMake ==
    ASSUME NEW S, NEW ops \in Seq(S), NEW queue, NEW head, IsBatching(queue, head, ops),
           NEW u \in 1..Len(ops), NEW p, Makes(ops[u], p)
    PROVE  \E k \in 1..Len(queue) :
                /\ p \in ToSet(Created(queue[k]))
                /\ \A l \in 1..Len(queue) : u < head[l] => k < l
<1>1. PICK k \in 1..Len(queue) : /\ head[k] <= u /\ u < head[k + 1]
                                 /\ \A l \in 1..Len(queue) : u < head[l] => k < l
  BY OperationIsCalled
<1> DEFINE h == head[k]
           size == head[k + 1] - head[k]
<1>2. /\ Len(queue) \in Nat /\ head \in [1..(Len(queue) + 1) -> 1..(Len(ops) + 1)]
      /\ queue[k] = IF IsNew(ops[h]) THEN AppendOf(ops, h, size) ELSE ops[h]
  BY DEF IsBatching
<1>3. head[k] \in Nat /\ head[k + 1] \in Nat /\ u \in Nat
  <2>1. k \in 1..(Len(queue) + 1) /\ k + 1 \in 1..(Len(queue) + 1)
    BY <1>2
  <2>2. head[k] \in 1..(Len(ops) + 1) /\ head[k + 1] \in 1..(Len(ops) + 1)
    BY <1>2, <2>1
  <2>3. QED
    BY <2>2
<1>4. u \in head[k]..(head[k + 1] - 1)
  BY <1>1, <1>3
<1>5. u = h \/ (IsNew(ops[h]) /\ IsNew(ops[u]))
  BY <1>4, CallsHoldTogether
<1>6. CASE IsNew(ops[h])
  <2> DEFINE i == u - h + 1
  <2>1. i \in 1..size /\ h + i - 1 = u
    BY <1>1, <1>3, SMTT(20)
  <2>2. queue[k].op = "append" /\ queue[k].nodes = [j \in 1..size |-> ops[h + j - 1].node]
    BY <1>2, <1>6 DEF AppendOf
  <2>3. Created(queue[k]) = queue[k].nodes
    BY <2>2 DEF Created
  <2> HIDE DEF i, size
  <2>4. i \in DOMAIN queue[k].nodes /\ queue[k].nodes[i] = ops[u].node
    BY <2>1, <2>2
  <2>5. p \in ToSet(Created(queue[k]))
    BY <2>3, <2>4 DEF ToSet, Makes
  <2>6. QED
    BY <1>1, <2>5
<1>7. CASE ~IsNew(ops[h])
  <2>1. u = h /\ queue[k] = ops[u]
    BY <1>2, <1>5, <1>7
  <2>2. queue[k].op = "create" /\ queue[k].node = p
    BY <1>7, <2>1 DEF Makes, IsNew
  <2>3. Created(queue[k]) = <<p>>
    BY <2>2 DEF Created
  <2>4. p \in ToSet(Created(queue[k]))
    BY <2>3 DEF ToSet
  <2>5. QED
    BY <1>1, <2>4
<1>8. QED
  BY <1>6, <1>7

\* A call comes from the first operation it takes.
LEMMA CallType ==
    ASSUME NEW r \in Renderings, NEW ids, NEW all, NEW ops \in Seq(PlanOps(r, ids, all)),
           NEW queue, NEW head, IsBatching(queue, head, ops), NEW k \in 1..Len(queue)
    PROVE  /\ queue[k] \in PlanCalls(r, ids, all)
           /\ head[k] \in 1..Len(ops)
           /\ \/ queue[k] = ops[head[k]] /\ queue[k].op # "append"
              \/ /\ queue[k].op = "append" /\ IsNew(ops[head[k]])
                 /\ queue[k].under = ops[head[k]].under
<1> DEFINE h == head[k]
           e == head[k + 1] - 1
           size == head[k + 1] - head[k]
           S == PlanOps(r, ids, all)
<1>1. /\ Len(queue) \in Nat /\ head \in [1..(Len(queue) + 1) -> 1..(Len(ops) + 1)]
      /\ queue[k] = IF IsNew(ops[h]) THEN AppendOf(ops, h, size) ELSE ops[h]
      /\ head[k] < head[k + 1]
  BY DEF IsBatching
<1>2. h \in 1..Len(ops) /\ e \in h..Len(ops) /\ e = h + size - 1 /\ size \in Nat /\ h \in Nat
  <2>1. k \in 1..(Len(queue) + 1) /\ k + 1 \in 1..(Len(queue) + 1)
    BY <1>1
  <2>2. head[k] \in 1..(Len(ops) + 1) /\ head[k + 1] \in 1..(Len(ops) + 1)
    BY <1>1, <2>1
  <2>3. Len(ops) \in Nat
    OBVIOUS
  <2>4. QED
    BY <1>1, <2>2, <2>3, SMTT(20)
<1>3. \A u \in h..e : u = h \/ (IsNew(ops[h]) /\ IsNew(ops[u]) /\ ops[u].under = ops[h].under)
  BY CallsHoldTogether
<1>4. \A u \in 1..Len(ops) : ops[u] \in S
  OBVIOUS
<1>5. ASSUME NEW o \in S
      PROVE  \/ IsNew(o) /\ \E p \in Tops(r) \cup {Root} : o \in News(r, p)
             \/ ~IsNew(o) /\ o \in PlanCalls(r, ids, all) /\ o.op # "append"
  <2>1. CASE o \in Clears(all)
    BY <2>1 DEF Clears, IsNew, PlanCalls
  <2>2. CASE \E p \in Tops(r) \cup {Root} : o \in Builds(r, ids, p)
    <3>1. PICK p \in Tops(r) \cup {Root} : o \in Builds(r, ids, p)
      BY <2>2
    <3>2. CASE o \in News(r, p)
      BY <3>2 DEF News, IsNew
    <3>3. CASE o \notin News(r, p)
      <4>1. \/ o \in [op : {"create"}, node : Tops(r)]
            \/ o \in [op : {"update", "rename"}, id : ids, hash : Hashes]
            \/ o \in [op : {"move"}, id : ids]
        BY <3>1, <3>3 DEF Builds
      <4>2. o.op \in {"create", "update", "rename", "move"}
        BY <4>1
      <4>3. o \in PlanCalls(r, ids, all)
        BY <4>1 DEF PlanCalls
      <4>4. QED
        BY <4>2, <4>3 DEF IsNew
    <3>4. QED
      BY <3>2, <3>3
  <2>3. QED
    BY <2>1, <2>2 DEF PlanOps
<1> HIDE DEF S, h, e, size
<1>6. CASE ~IsNew(ops[h])
  BY <1>1, <1>2, <1>4, <1>5, <1>6 DEF h
<1>7. CASE IsNew(ops[h])
  <2>1. PICK p \in Tops(r) \cup {Root} : ops[h] \in News(r, p)
    BY <1>2, <1>4, <1>5, <1>7
  <2>2. ops[h].under = p
    BY <2>1 DEF News
  <2>3. ASSUME NEW u \in 1..Len(ops), IsNew(ops[u]), ops[u].under = p
        PROVE  ops[u].node \in Below(r, p)
    <3>1. PICK q \in Tops(r) \cup {Root} : ops[u] \in News(r, q)
      BY <1>4, <1>5, <2>3
    <3>2. q = p
      BY <2>3, <3>1 DEF News
    <3>3. QED
      BY <3>1, <3>2 DEF News
  <2>4. \A u \in h..e : ops[u].node \in Below(r, p)
    <3>1. \A u \in h..e : u \in 1..Len(ops)
      BY <1>2
    <3>2. \A u \in h..e : IsNew(ops[u]) /\ ops[u].under = p
      BY <1>3, <1>7, <2>2
    <3>3. QED
      BY <2>3, <3>1, <3>2
  <2> DEFINE nodes == [i \in 1..size |-> ops[h + i - 1].node]
             after == IF Follows(ops, h) THEN ops[h-1].node ELSE ops[h].after
             at == IF Follows(ops, h) THEN "after" ELSE ops[h].at
  <2>5. nodes \in Seq(Below(r, p))
    <3>1. \A i \in 1..size : h + i - 1 \in h..e
      BY <1>2
    <3>2. \A i \in 1..size : nodes[i] \in Below(r, p)
      BY <2>4, <3>1
    <3>3. nodes = [i \in 1..size |-> nodes[i]]
      OBVIOUS
    <3> HIDE DEF nodes
    <3>4. QED
      BY <1>2, <3>2, <3>3, ListIsSeq
  <2>6. after \in Below(r, p) \cup {Root} /\ at \in {"head", "tail", "after"}
    <3>1. CASE Follows(ops, h)
      <4>1. h - 1 \in 1..Len(ops)
        BY <1>2, <3>1 DEF Follows
      <4>2. IsNew(ops[h-1]) /\ ops[h-1].under = p
        BY <2>2, <3>1 DEF Follows, Chains, IsNew
      <4>3. ops[h-1].node \in Below(r, p)
        BY <2>3, <4>1, <4>2
      <4>4. QED
        BY <3>1, <4>3
    <3>2. CASE ~Follows(ops, h)
      BY <2>1, <3>2 DEF News
    <3>3. QED
      BY <3>1, <3>2
  <2>7. queue[k] = [op |-> "append", under |-> p, nodes |-> nodes, at |-> at, after |-> after]
    BY <1>1, <1>7, <2>2 DEF AppendOf
  <2> HIDE DEF nodes, at, after
  <2>8. queue[k] \in Appends(r, p)
    BY <2>5, <2>6, <2>7 DEF Appends
  <2>9. queue[k] \in PlanCalls(r, ids, all)
    BY <2>8 DEF PlanCalls
  <2>10. QED
    BY <1>2, <1>7, <2>2, <2>7, <2>9 DEF h
<1>8. QED
  BY <1>6, <1>7

\* The calls of a plan: all that is new is created, and the top level is in its place
\* before anything is put under it and before anything is removed.
IsSchedule(queue, m, r, ids, all) ==
    /\ queue \in Seq(PlanCalls(r, ids, all))
    /\ \A i \in 1..Len(r) : ~Stays(m, r, i) =>
            \E k \in 1..Len(queue) : <<r[i].key>> \in ToSet(Created(queue[k]))
    /\ \A i \in 1..Len(r) : \A k \in 1..Len(r[i].kids) : r[i].kids[k].key \notin m.kids[i].kept =>
            \E u \in 1..Len(queue) :
                <<r[i].key, r[i].kids[k].key>> \in ToSet(Created(queue[u]))
    /\ \A l \in 1..Len(queue) :
        queue[l] \in Clears(all) \/ (queue[l].op = "append" /\ queue[l].under # Root) =>
            \A i \in 1..Len(r) : ~Stays(m, r, i) =>
                \E k \in 1..(l - 1) : <<r[i].key>> \in ToSet(Created(queue[k]))
    /\ \A l \in 1..Len(queue) : queue[l] \in Clears(all) => GivenUp(m, queue[l].id)

\* The calls create what the plan does, and parents and anchors before what needs them.
LEMMA CallsAreScheduled ==
    ASSUME NEW ids, NEW all, NEW r \in Renderings, NEW m, NEW ops, NEW n,
           IsPlan(ops, n, m, r, ids, all)
    PROVE  IsSchedule(Calls(ops), m, r, ids, all)
<1> DEFINE queue == Calls(ops)
           S == PlanOps(r, ids, all)
           L == Len(queue)
<1>1. ops \in Seq(S) /\ n \in 0..Len(ops)
  BY DEF IsPlan
<1> HIDE DEF S
<1>2. PICK head : IsBatching(queue, head, ops)
  BY <1>1, CallsAreBatches
<1> HIDE DEF queue
<1>3. L \in Nat /\ DOMAIN queue = 1..L
  BY <1>2 DEF IsBatching
<1>4. \A k \in 1..L :
        /\ queue[k] \in PlanCalls(r, ids, all)
        /\ head[k] \in 1..Len(ops)
        /\ \/ queue[k] = ops[head[k]] /\ queue[k].op # "append"
           \/ /\ queue[k].op = "append" /\ IsNew(ops[head[k]])
              /\ queue[k].under = ops[head[k]].under
  BY <1>1, <1>2, CallType DEF S
<1>5. queue \in Seq(PlanCalls(r, ids, all))
  <2>1. queue = [k \in 1..L |-> queue[k]]
    BY <1>2 DEF IsBatching
  <2>2. QED
    BY <1>3, <1>4, <2>1, ListIsSeq
<1> HIDE DEF L
<1>6. \A u \in 1..Len(ops) : \A p : Makes(ops[u], p) =>
        \E k \in 1..L : /\ p \in ToSet(Created(queue[k]))
                        /\ \A l \in 1..L : u < head[l] => k < l
  BY <1>1, <1>2, CallsMake, ZenonT(40) DEF L
<1>7. 1..n \subseteq 1..Len(ops)
  BY <1>1
<1>8. ASSUME NEW i \in 1..Len(r), ~Stays(m, r, i)
      PROVE  \E k \in 1..L : /\ <<r[i].key>> \in ToSet(Created(queue[k]))
                             /\ \A l \in 1..L : n < head[l] => k < l
  <2>1. PICK u \in 1..n : Makes(ops[u], <<r[i].key>>)
    BY <1>8 DEF IsPlan
  <2>2. u \in 1..Len(ops) /\ u <= n
    BY <1>1, <1>7
  <2>3. PICK k \in 1..L : /\ <<r[i].key>> \in ToSet(Created(queue[k]))
                          /\ \A l \in 1..L : u < head[l] => k < l
    BY <1>6, <2>1, <2>2
  <2>4. \A l \in 1..L : n < head[l] => u < head[l]
    BY <1>1, <1>4, <2>2
  <2>5. QED
    BY <2>3, <2>4
<1>9. ASSUME NEW i \in 1..Len(r), NEW k \in 1..Len(r[i].kids), r[i].kids[k].key \notin m.kids[i].kept
      PROVE  \E u \in 1..L : <<r[i].key, r[i].kids[k].key>> \in ToSet(Created(queue[u]))
  <2>1. PICK u \in 1..Len(ops) : Makes(ops[u], <<r[i].key, r[i].kids[k].key>>)
    BY <1>9 DEF IsPlan
  <2>2. QED
    BY <1>6, <2>1
<1>10. ASSUME NEW l \in 1..L, queue[l] \in Clears(all)
       PROVE  n < head[l] /\ GivenUp(m, queue[l].id)
  <2>1. queue[l] = ops[head[l]] /\ head[l] \in 1..Len(ops)
    <3>1. queue[l].op # "append"
      BY <1>10 DEF Clears
    <3>2. QED
      BY <1>4, <3>1
  <2>2. GivenUp(m, queue[l].id)
    BY <1>10, <2>1 DEF IsPlan, Careful
  <2>3. head[l] \notin 1..n
    BY <1>10, <2>1, BuildsClearNothing DEF IsPlan
  <2>4. QED
    BY <1>1, <2>1, <2>2, <2>3
<1>11. ASSUME NEW l \in 1..L, queue[l].op = "append", queue[l].under # Root
       PROVE  n < head[l]
  <2>1. head[l] \in 1..Len(ops) /\ IsNew(ops[head[l]]) /\ ops[head[l]].under # Root
    BY <1>4, <1>11
  <2>2. \A o \in Builds(r, ids, Root) : IsNew(o) => o.under = Root
    BY DEF Builds, News, IsNew
  <2>3. head[l] \notin 1..n
    BY <2>1, <2>2 DEF IsPlan
  <2>4. QED
    BY <1>1, <2>1, <2>3
<1>12. ASSUME NEW l \in 1..L, n < head[l], NEW i \in 1..Len(r), ~Stays(m, r, i)
       PROVE  \E k \in 1..(l - 1) : <<r[i].key>> \in ToSet(Created(queue[k]))
  <2>1. PICK k \in 1..L : <<r[i].key>> \in ToSet(Created(queue[k])) /\ k < l
    BY <1>8, <1>12
  <2>2. k \in 1..(l - 1)
    BY <1>3, <2>1 DEF L
  <2>3. QED
    BY <2>1, <2>2
<1>13. IsSchedule(queue, m, r, ids, all)
  BY <1>5, <1>8, <1>9, <1>10, <1>11, <1>12 DEF IsSchedule, L
<1>14. QED
  BY <1>13 DEF queue

----------------------------------------------------------------------------
(* What a sync begins with *)

IsBaseOf(base, live, tree) ==
    /\ DOMAIN base = DOMAIN live
    /\ \A i \in DOMAIN base : /\ base[i].id = live[i].id
                              /\ base[i].key # Ghost => base[i] \in ToSet(tree)
                              /\ \A k \in DOMAIN base[i].kids : base[i] \in ToSet(tree)
    /\ \A i, j \in DOMAIN base : base[i].id = base[j].id => base[i] = base[j]

\* The base of the diff is a list of cached blocks and placeholders, as the page has them.
LEMMA BaseIs ==
    ASSUME NEW ids, NEW all, NEW live \in Seq(LiveNodes(all)), NEW tree \in Seq(NodeEntries(ids))
    PROVE  IsBase(Base(live, tree), ids, all) /\ IsBaseOf(Base(live, tree), live, tree)
<1> DEFINE Known(id) == {b \in ToSet(tree) : b.id = id}
           Ghostly(id) == [id |-> id, key |-> Ghost, kind |-> "block", hash |-> Ghost, kids |-> <<>>]
           At(id) == IF Known(id) = {} THEN Ghostly(id) ELSE CHOOSE b \in Known(id) : TRUE
           base == Base(live, tree)
           S == NodeEntries(ids) \cup Placeholders(all)
<1>1. base = [i \in DOMAIN live |-> At(live[i].id)]
  BY DEF Base
<1>2. ASSUME NEW id \in all
      PROVE  /\ At(id) \in S /\ At(id).id = id
             /\ At(id).key # Ghost => At(id) \in ToSet(tree)
             /\ At(id) \in ToSet(tree) \/ At(id).kids = <<>>
  <2>1. CASE Known(id) = {}
    <3>1. At(id) = Ghostly(id)
      BY <2>1
    <3>2. Ghostly(id) \in Placeholders(all)
      BY DEF Placeholders
    <3> HIDE DEF At, Known
    <3>3. QED
      BY <3>1, <3>2
  <2>2. CASE Known(id) # {}
    <3>1. At(id) \in Known(id)
      BY <2>2
    <3>2. \A b \in ToSet(tree) : b \in NodeEntries(ids)
      BY DEF ToSet
    <3>3. At(id) \in ToSet(tree) /\ At(id).id = id
      BY <3>1
    <3> HIDE DEF At, Known
    <3>4. QED
      BY <3>2, <3>3
  <2>3. QED
    BY <2>1, <2>2
<1>3. DOMAIN live = 1..Len(live) /\ Len(live) \in Nat /\ \A i \in DOMAIN live : live[i].id \in all
  <2>1. \A i \in DOMAIN live : live[i] \in LiveNodes(all)
    OBVIOUS
  <2>2. QED
    BY <2>1 DEF LiveNodes, LiveLevels
<1> HIDE DEF At, base, S
<1>4. DOMAIN base = DOMAIN live /\ \A i \in DOMAIN live : base[i] = At(live[i].id)
  BY <1>1
<1>5. base \in Seq(S)
  <2>1. base = [i \in 1..Len(live) |-> base[i]] /\ \A i \in 1..Len(live) : base[i] \in S
    BY <1>1, <1>2, <1>3, <1>4
  <2>2. QED
    BY <1>3, <2>1, ListIsSeq
<1>6. IsBaseOf(base, live, tree)
  <2>1. ASSUME NEW i \in DOMAIN live
        PROVE  /\ base[i].id = live[i].id
               /\ base[i].key # Ghost => base[i] \in ToSet(tree)
               /\ \A k \in DOMAIN base[i].kids : base[i] \in ToSet(tree)
    <3>1. base[i] = At(live[i].id) /\ live[i].id \in all
      BY <1>3, <1>4
    <3>2. DOMAIN <<>> = {}
      OBVIOUS
    <3>3. QED
      BY <1>2, <3>1, <3>2
  <2>2. ASSUME NEW i \in DOMAIN live, NEW j \in DOMAIN live, base[i].id = base[j].id
        PROVE  base[i] = base[j]
    <3>1. live[i].id = live[j].id
      BY <2>1, <2>2
    <3>2. QED
      BY <1>4, <3>1
  <2>3. QED
    BY <1>4, <2>1, <2>2 DEF IsBaseOf
<1>7. QED
  BY <1>5, <1>6 DEF base, S, IsBase

\* What seeds the working cache has no placeholder.
LEMMA ConfirmedIs ==
    ASSUME NEW ids, NEW all, NEW base, IsBase(base, ids, all)
    PROVE  /\ Confirmed(base) \in Seq(NodeEntries(ids))
           /\ \A b \in ToSet(Confirmed(base)) :
                b.key # Ghost /\ \E i \in DOMAIN base : b = base[i]
<1> DEFINE S == NodeEntries(ids) \cup Placeholders(all)
           places == {i \in DOMAIN base : base[i].key # Ghost}
           t == Confirmed(base)
<1>1. base \in Seq(S) /\ DOMAIN base = 1..Len(base)
  BY DEF IsBase
<1>2. places \in SUBSET (1..Len(base)) /\ t = Picked(base, places)
  BY <1>1 DEF Confirmed
<1>3. \A i \in places : i \in DOMAIN base /\ base[i].key # Ghost
  OBVIOUS
<1>4. \A i \in DOMAIN base : base[i] \in S
  BY <1>1
<1> HIDE DEF places, t
<1>5. t \in Seq(S) /\ \E pos : IsPicking(t, pos, base, places)
  <2> HIDE DEF S
  <2> QED
    BY <1>1, <1>2, PickedUnfolds
<1>6. PICK pos : IsPicking(t, pos, base, places)
  BY <1>5
<1>7. DOMAIN t = 1..Len(t) /\ Len(t) \in Nat /\ \A k \in 1..Len(t) : pos[k] \in places /\ t[k] = base[pos[k]]
  BY <1>6 DEF IsPicking
<1>8. \A k \in 1..Len(t) : t[k] \in NodeEntries(ids)
  <2> SUFFICES ASSUME NEW k \in 1..Len(t) PROVE t[k] \in NodeEntries(ids)
    OBVIOUS
  <2>1. t[k] \in S /\ t[k].key # Ghost
    BY <1>3, <1>4, <1>7
  <2>2. QED
    BY <2>1 DEF Placeholders
<1>9. t \in Seq(NodeEntries(ids))
  <2>1. t = [k \in 1..Len(t) |-> t[k]]
    BY <1>5
  <2>2. QED
    BY <1>7, <1>8, <2>1, ListIsSeq
<1>10. \A b \in ToSet(t) : b.key # Ghost /\ \E i \in DOMAIN base : b = base[i]
  <2> SUFFICES ASSUME NEW k \in DOMAIN t
               PROVE  t[k].key # Ghost /\ \E i \in DOMAIN base : t[k] = base[i]
    BY DEF ToSet
  <2>1. QED
    BY <1>3, <1>7
<1>11. QED
  BY <1>9, <1>10 DEF t

\* Calls that are typed stay so when there are more ids.
LEMMA MoreCalls ==
    ASSUME NEW r, NEW ids, NEW all, NEW moreIds, NEW moreAll,
           ids \subseteq moreIds, all \subseteq moreAll
    PROVE  /\ PlanCalls(r, ids, all) \subseteq PlanCalls(r, moreIds, moreAll)
           /\ Seq(PlanCalls(r, ids, all)) \subseteq Seq(PlanCalls(r, moreIds, moreAll))
<1>1. PlanCalls(r, ids, all) \subseteq PlanCalls(r, moreIds, moreAll)
  <2>1. Clears(all) \subseteq Clears(moreAll)
    BY DEF Clears
  <2>2. QED
    BY <2>1 DEF PlanCalls
<1>2. \A s \in Seq(PlanCalls(r, ids, all)) : s \in Seq(PlanCalls(r, moreIds, moreAll))
  BY <1>1, SeqSubset
<1>3. QED
  BY <1>1, <1>2

\* What a rendered node becomes on the page, and in the cache.
LEMMA BlockType ==
    ASSUME NEW n \in Nodes, NEW ids, NEW id \in ids
    PROVE  Block(n, id) \in LiveLeaves(ids) /\ Entry(n, id) \in LeafEntries(ids)
BY NodeType DEF Block, Entry, LiveLeaves, LeafEntries, Kinds

\* What a call creates.
LEMMA CreatedType ==
    ASSUME NEW r \in Renderings, NEW ids, NEW all, NEW call \in PlanCalls(r, ids, all)
    PROVE  /\ Created(call) \in Seq(Paths(r))
           /\ \A k \in DOMAIN Created(call) : NodeAt(r, Created(call)[k]) \in Nodes
<1>1. Created(call) \in Seq(Paths(r))
  <2>1. CASE \E p \in Tops(r) \cup {Root} : call \in Appends(r, p)
    <3>1. PICK p \in Tops(r) \cup {Root} : call \in Appends(r, p)
      BY <2>1
    <3>2. call.op = "append" /\ call.nodes \in Seq(Below(r, p))
      BY <3>1 DEF Appends
    <3>3. Created(call) = call.nodes
      BY <3>2 DEF Created
    <3>4. Below(r, p) \subseteq Paths(r)
      BY TopsUnfold DEF Below
    <3>5. QED
      BY <3>2, <3>3, <3>4, SeqSubset
  <2>2. CASE call \in [op : {"create"}, node : Tops(r)]
    <3>1. Created(call) = <<call.node>> /\ call.node \in Paths(r)
      BY <2>2, TopsUnfold DEF Created
    <3>2. QED
      BY <3>1
  <2>3. CASE call.op \in {"update", "rename", "move", "remove", "archive"}
    <3>1. Created(call) = <<>>
      BY <2>3 DEF Created
    <3>2. QED
      BY <3>1
  <2>4. QED
    BY <2>1, <2>2, <2>3 DEF PlanCalls, Clears
<1> DEFINE new == Created(call)
<1>2. \A k \in DOMAIN new : new[k] \in Paths(r)
  <2>1. new \in Seq(Paths(r))
    BY <1>1
  <2> HIDE DEF new
  <2>2. QED
    BY <2>1
<1>3. QED
  BY <1>1, <1>2, NodeAtType

----------------------------------------------------------------------------
(* What a call does *)

\* A call keeps the trees of a type that is closed under what it does.
LEMMA LandedType ==
    ASSUME rendering \in Renderings, NEW ids, NEW all,
           NEW call \in PlanCalls(rendering, ids, all), NEW first \in Nat,
           NEW N, NEW L, AreNodes(N, L), \A hash \in Hashes : TakesHash(N, L, hash),
           NEW tree \in Seq(N),
           \A k \in DOMAIN Created(call) :
                Block(NodeAt(rendering, Created(call)[k]), first + k - 1)
                    \in IF call.op = "append" /\ Parent(call) # Page THEN L ELSE N
    PROVE  Landed(tree, call, first) \in Seq(N)
<1>1. Created(call) \in Seq(Paths(rendering))
  BY CreatedType
<1>2. CASE call.op = "append"
  <2> DEFINE new == [k \in DOMAIN call.nodes |->
                        Block(NodeAt(rendering, call.nodes[k]), first + k - 1)]
             S == IF Parent(call) = Page THEN N ELSE L
  <2>1. Created(call) = call.nodes
    BY <1>2 DEF Created
  <2>2. new \in Seq(S)
    <3>1. DOMAIN call.nodes = 1..Len(call.nodes) /\ Len(call.nodes) \in Nat
      BY <1>1, <2>1
    <3>2. \A k \in 1..Len(call.nodes) : new[k] \in S
      BY <1>2, <2>1, <3>1
    <3>3. new = [k \in 1..Len(call.nodes) |-> new[k]]
      BY <3>1
    <3> HIDE DEF new, S
    <3>4. QED
      BY <3>1, <3>2, <3>3, ListIsSeq
  <2>3. Landed(tree, call, first)
            = WithUnder(tree, Parent(call),
                Placed(Under(tree, Parent(call)), new, call.at, Anchor(call)))
    BY <1>2 DEF Landed
  <2> HIDE DEF new
  <2>4. QED
    BY <2>2, <2>3, WithUnderType
<1>3. CASE call.op = "create"
  <2> DEFINE n == Block(NodeAt(rendering, call.node), first)
  <2>1. Created(call) = <<call.node>> /\ first + 1 - 1 = first
    BY <1>3 DEF Created
  <2>2. n \in N
    BY <1>3, <2>1
  <2>3. Landed(tree, call, first) = Append(tree, n)
    BY <1>3 DEF Landed
  <2> HIDE DEF n
  <2>4. QED
    BY <2>2, <2>3, AppendIs
<1>4. CASE call.op \in {"update", "rename"}
  <2>1. call.hash \in Hashes
    BY <1>4 DEF PlanCalls, Clears, Appends
  <2>2. Landed(tree, call, first) = Rehashed(tree, call.id, call.hash)
    BY <1>4 DEF Landed
  <2>3. QED
    BY <2>1, <2>2, RehashedType
<1>5. CASE call.op \in {"remove", "archive"}
  <2>1. Landed(tree, call, first) = Without(tree, call.id)
    BY <1>5 DEF Landed
  <2>2. QED
    BY <2>1, WithoutType
<1>6. CASE call.op = "move"
  BY <1>6 DEF Landed
<1>7. call.op \in {"append", "create", "update", "rename", "remove", "archive", "move"}
  BY DEF PlanCalls, Clears, Appends
<1>8. QED
  BY <1>2, <1>3, <1>4, <1>5, <1>6, <1>7

\* The same of what a call does to the working cache.
LEMMA RecordedType ==
    ASSUME rendering \in Renderings, NEW ids, NEW all,
           NEW call \in PlanCalls(rendering, ids, all), NEW first \in Nat,
           NEW N, NEW L, AreNodes(N, L), \A hash \in Hashes : TakesHash(N, L, hash),
           NEW tree \in Seq(N),
           \A k \in DOMAIN Created(call) :
                Entry(NodeAt(rendering, Created(call)[k]), first + k - 1)
                    \in IF call.op = "append" /\ Parent(call) # Page THEN L ELSE N
    PROVE  Recorded(tree, call, first) \in Seq(N)
<1>1. Created(call) \in Seq(Paths(rendering))
  BY CreatedType
<1>2. CASE call.op = "append"
  <2> DEFINE new == [k \in DOMAIN call.nodes |->
                        Entry(NodeAt(rendering, call.nodes[k]), first + k - 1)]
             S == IF Parent(call) = Page THEN N ELSE L
  <2>1. Created(call) = call.nodes
    BY <1>2 DEF Created
  <2>2. new \in Seq(S)
    <3>1. DOMAIN call.nodes = 1..Len(call.nodes) /\ Len(call.nodes) \in Nat
      BY <1>1, <2>1
    <3>2. \A k \in 1..Len(call.nodes) : new[k] \in S
      BY <1>2, <2>1, <3>1
    <3>3. new = [k \in 1..Len(call.nodes) |-> new[k]]
      BY <3>1
    <3> HIDE DEF new, S
    <3>4. QED
      BY <3>1, <3>2, <3>3, ListIsSeq
  <2>3. Recorded(tree, call, first)
            = WithUnder(tree, Parent(call),
                Placed(Under(tree, Parent(call)), new, call.at, Anchor(call)))
    BY <1>2 DEF Recorded
  <2> HIDE DEF new
  <2>4. QED
    BY <2>2, <2>3, WithUnderType
<1>3. CASE call.op = "update"
  <2>1. call.hash \in Hashes
    BY <1>3 DEF PlanCalls, Clears, Appends
  <2>2. Recorded(tree, call, first) = Rehashed(tree, call.id, call.hash)
    BY <1>3 DEF Recorded
  <2>3. QED
    BY <2>1, <2>2, RehashedType
<1>4. CASE call.op = "remove"
  <2>1. Recorded(tree, call, first) = Without(tree, call.id)
    BY <1>4 DEF Recorded
  <2>2. QED
    BY <2>1, WithoutType
<1>5. CASE call.op \notin {"append", "update", "remove"}
  BY <1>5 DEF Recorded
<1>6. QED
  BY <1>2, <1>3, <1>4, <1>5

\* What is bound after a call.
LEMMA BindsIs ==
    ASSUME NEW call, NEW first
    PROVE  /\ DOMAIN Binds(call, first) = ToSet(Created(call)) \cup DOMAIN bound
           /\ \A p \in ToSet(Created(call)) :
                \E k \in DOMAIN Created(call) : Binds(call, first)[p] = first + k - 1
           /\ \A p \in DOMAIN bound \ ToSet(Created(call)) : Binds(call, first)[p] = bound[p]
<1> DEFINE new == Created(call)
           at(p) == CHOOSE k \in DOMAIN new : new[k] = p
           b == Binds(call, first)
<1>1. b = [p \in ToSet(new) \cup DOMAIN bound |->
                IF p \in ToSet(new) THEN first + at(p) - 1 ELSE bound[p]]
  BY DEF Binds
<1>2. \A p \in ToSet(new) : at(p) \in DOMAIN new
  BY DEF ToSet
<1> HIDE DEF new, at, b
<1>3. /\ DOMAIN b = ToSet(new) \cup DOMAIN bound
      /\ \A p \in ToSet(new) : b[p] = first + at(p) - 1
      /\ \A p \in DOMAIN bound \ ToSet(new) : b[p] = bound[p]
  BY <1>1
<1>4. QED
  BY <1>2, <1>3 DEF b, new

\* What the final snapshot consists of.
LEMMA SnapshotType ==
    ASSUME rendering \in Renderings, NEW tops, NEW ids,
           \A p \in Tops(rendering) : bound[p] \in tops,
           \A p \in Paths(rendering) \ Tops(rendering) : bound[p] \in ids
    PROVE  Snapshot \in Seq(EntryLevels(tops, ids))
<1> DEFINE Saved(p) == LET n == NodeAt(rendering, p) IN Entry(n, bound[p])
           Kids(c) == [k \in DOMAIN c.kids |-> Saved(<<c.key, c.kids[k].key>>)]
           Whole(c) == [Saved(<<c.key>>) EXCEPT
                            !.kids = [k \in DOMAIN c.kids |-> Saved(<<c.key, c.kids[k].key>>)]]
           r == rendering
<1>1. Snapshot = [i \in DOMAIN r |-> Whole(r[i])]
  BY DEF Snapshot
<1>2. \A p \in Paths(r) : \A x : bound[p] \in x => Saved(p) \in LeafEntries(x)
  BY NodeAtType, BlockType
<1> HIDE DEF Saved
<1>3. r \in Seq(Nodes) /\ \A i \in 1..Len(r) : r[i].kids \in Seq(Leaves)
  BY RenderingType DEF IsRendered
<1>4. ASSUME NEW i \in 1..Len(r) PROVE Whole(r[i]) \in EntryLevels(tops, ids)
  <2> DEFINE c == r[i]
             s == Kids(r[i])
             e == Saved(<<r[i].key>>)
  <2>1. e \in LeafEntries(tops)
    BY <1>2, TopsUnfold
  <2>2. s \in Seq(LeafEntries(ids))
    <3>1. DOMAIN r[i].kids = 1..Len(r[i].kids) /\ Len(r[i].kids) \in Nat
      BY <1>3
    <3>2. \A k \in 1..Len(r[i].kids) : Saved(<<r[i].key, r[i].kids[k].key>>) \in LeafEntries(ids)
      BY <1>2, TopsUnfold
    <3>3. s = [k \in 1..Len(r[i].kids) |-> Saved(<<r[i].key, r[i].kids[k].key>>)]
      BY <3>1
    <3>4. QED
      BY <3>1, <3>2, <3>3
  <2>3. Whole(r[i]) = [e EXCEPT !.kids = s]
    OBVIOUS
  <2> HIDE DEF s, e
  <2>4. [e EXCEPT !.kids = s] \in EntryLevels(tops, ids)
    <3>1. e \in EntryLevels(tops, ids)
      BY <2>1, EntriesAreNodes
    <3>2. QED
      BY <2>2, <3>1, EntriesAreNodes DEF AreNodes
  <2>5. QED
    BY <2>3, <2>4
<1> HIDE DEF Whole
<1>5. Snapshot = [i \in 1..Len(r) |-> Whole(r[i])]
  BY <1>1, <1>3
<1>6. QED
  BY <1>3, <1>4, <1>5

----------------------------------------------------------------------------
(* The invariant *)

Minted == 1..(nextId - 1)
Live   == Minted \cup Foreign

\* A path has its id, or one of the calls before the l-th creates it.
AtHand(p, binding, list, l) ==
    \/ p \in DOMAIN binding
    \/ \E k \in 1..(l - 1) : p \in ToSet(Created(list[k]))

IsBinding(binding) ==
    /\ DOMAIN binding \subseteq Paths(rendering)
    /\ \A p \in DOMAIN binding : binding[p] \in Minted

Covered == phase = "syncing" => \A p \in Paths(rendering) : AtHand(p, bound, calls, Len(calls) + 1)

Idle == phase = "idle" => calls = <<>> /\ bound = <<>> /\ work = <<>>

Types ==
    /\ rendering \in Renderings
    /\ nextId \in Nat \ {0}
    /\ page \in Seq(LiveNodes(Live))
    /\ cache \in Seq(NodeEntries(Minted))
    /\ work \in Seq(NodeEntries(Minted))
    /\ IsBinding(bound)
    /\ calls \in Seq(PlanCalls(rendering, Minted, Live))

Simple ==
    /\ phase \in {"idle", "syncing"}
    /\ outcome \in {"none", "done", "failed", "threw"}
    /\ quiet \in BOOLEAN /\ tidy \in BOOLEAN /\ known \in BOOLEAN /\ lost \in BOOLEAN
    /\ renders \in 0..MaxRenders /\ upsets \in 0..MaxUpsets

Inv == Types /\ Simple /\ Idle /\ Covered

\* What a sync begins with.
LEMMA BeginsTyped ==
    ASSUME Types, NEW m, m = Matching(Base(page, cache), rendering), Diffable(m)
    PROVE  /\ Calls(Plan(m)) \in Seq(PlanCalls(rendering, Minted, Live))
           /\ IsBinding(Inherited(m))
           /\ Confirmed(m.top.old) \in Seq(NodeEntries(Minted))
           /\ \A p \in Paths(rendering) :
                AtHand(p, Inherited(m), Calls(Plan(m)), Len(Calls(Plan(m))) + 1)
           /\ IsSchedule(Calls(Plan(m)), m, rendering, Minted, Live)
           /\ IsMatching(m, Base(page, cache), rendering, Minted, Live)
           /\ IsInherited(Inherited(m), m, rendering, Minted)
<1> DEFINE base == Base(page, cache)
           r == rendering
           b == Inherited(m)
           list == Calls(Plan(m))
<1>1. /\ r \in Renderings /\ page \in Seq(LiveNodes(Live)) /\ cache \in Seq(NodeEntries(Minted))
      /\ Minted \subseteq Live
  BY DEF Types, Live
<1>2. IsBase(base, Minted, Live)
  BY <1>1, BaseIs
<1> HIDE DEF base, r
<1>3. IsMatching(m, base, r, Minted, Live)
  BY <1>1, <1>2, MatchingIs DEF base, r
<1>4. IsInherited(b, m, r, Minted)
  BY <1>1, <1>3, InheritedIs
<1>5. \E n : IsPlan(Plan(m), n, m, r, Minted, Live)
  BY <1>1, <1>3, PlanIs
<1>6. IsSchedule(list, m, r, Minted, Live)
  BY <1>1, <1>5, CallsAreScheduled
<1> HIDE DEF b, list
<1>7. list \in Seq(PlanCalls(r, Minted, Live)) /\ Len(list) \in Nat
  BY <1>6 DEF IsSchedule
<1>8. ASSUME NEW p \in Paths(r) PROVE AtHand(p, b, list, Len(list) + 1)
  <2>1. ASSUME NEW i \in 1..Len(r), p = <<r[i].key>> PROVE AtHand(p, b, list, Len(list) + 1)
    <3>1. CASE Stays(m, r, i)
      BY <1>4, <2>1, <3>1 DEF IsInherited, AtHand
    <3>2. CASE ~Stays(m, r, i)
      BY <1>6, <1>7, <2>1, <3>2 DEF IsSchedule, AtHand
    <3>3. QED
      BY <3>1, <3>2
  <2>2. ASSUME NEW i \in 1..Len(r), NEW k \in 1..Len(r[i].kids), p = <<r[i].key, r[i].kids[k].key>>
        PROVE  AtHand(p, b, list, Len(list) + 1)
    <3>1. CASE r[i].kids[k].key \in m.kids[i].kept
      BY <1>4, <2>2, <3>1 DEF IsInherited, AtHand
    <3>2. CASE r[i].kids[k].key \notin m.kids[i].kept
      BY <1>6, <1>7, <2>2, <3>2 DEF IsSchedule, AtHand
    <3>3. QED
      BY <3>1, <3>2
  <2>3. QED
    BY <1>1, <2>1, <2>2, PathsUnfold
<1>9. m.top.old = base
  BY <1>3 DEF IsMatching
<1>10. Confirmed(m.top.old) \in Seq(NodeEntries(Minted))
  BY <1>2, <1>9, ConfirmedIs
<1>11. IsBinding(b)
  BY <1>4 DEF IsInherited, IsBinding, r
<1>12. QED
  BY <1>3, <1>4, <1>6, <1>7, <1>8, <1>10, <1>11 DEF b, list, r, base

Before(next) == 1..(next - 1)

\* A call that lands: page, working cache and bindings keep their types.
LEMMA LandsTyped ==
    ASSUME Types, NEW call \in PlanCalls(rendering, Minted, Live),
           NEW first \in Nat, first >= nextId,
           NEW tree \in Seq(LiveNodes(Before(first) \cup Foreign)),
           NEW next, next = first + Len(Created(call))
    PROVE  /\ next \in Nat \ {0} /\ Minted \subseteq Before(next) /\ first <= next
           /\ Landed(tree, call, first) \in Seq(LiveNodes(Before(next) \cup Foreign))
           /\ Recorded(work, call, first) \in Seq(NodeEntries(Before(next)))
           /\ DOMAIN Binds(call, first) \subseteq Paths(rendering)
           /\ \A p \in DOMAIN Binds(call, first) : Binds(call, first)[p] \in Before(next)
<1> DEFINE r == rendering
           new == Created(call)
           all == Before(first) \cup Foreign
           more == Before(next) \cup Foreign
<1>1. /\ r \in Renderings /\ nextId \in Nat \ {0} /\ work \in Seq(NodeEntries(Minted))
      /\ IsBinding(bound)
  BY DEF Types
<1>2. new \in Seq(Paths(r))
  BY <1>1, CreatedType
<1> HIDE DEF new, r
<1>3. /\ next \in Nat \ {0} /\ first <= next /\ Minted \subseteq Before(first)
      /\ Before(first) \subseteq Before(next)
      /\ \A k \in 1..Len(new) : first + k - 1 \in Before(next)
  <2>1. Len(new) \in Nat /\ next = first + Len(new)
    BY <1>2 DEF new
  <2>2. QED
    BY <1>1, <2>1 DEF Minted, Before
<1>4. Live \subseteq all /\ all \subseteq more /\ Before(first) \subseteq more
      /\ \A k \in 1..Len(new) : first + k - 1 \in more
  BY <1>3 DEF Live
<1>5. \A k \in DOMAIN new : k \in 1..Len(new) /\ NodeAt(r, new[k]) \in Nodes
  <2>1. DOMAIN new = 1..Len(new)
    BY <1>2
  <2>2. QED
    BY <1>1, <2>1, CreatedType DEF new, r
<1>6. Landed(tree, call, first) \in Seq(LiveNodes(more))
  <2> DEFINE N == LiveNodes(more)
             L == LiveLeaves(more)
  <2>1. tree \in Seq(N)
    <3>1. all \subseteq more
      BY <1>4
    <3> HIDE DEF all, more
    <3>2. tree \in Seq(LiveNodes(all))
      BY DEF all
    <3>3. QED
      BY <3>1, <3>2, MoreNodes
  <2>2. AreNodes(N, L) /\ L \subseteq N /\ \A hash \in Hashes : TakesHash(N, L, hash)
    BY LiveAreNodes DEF LiveNodes
  <2>3. \A k \in DOMAIN new : Block(NodeAt(r, new[k]), first + k - 1) \in L
    <3> HIDE DEF more
    <3>1. QED
      BY <1>4, <1>5, BlockType
  <2> HIDE DEF N, L
  <2>4. QED
    BY <1>1, <2>1, <2>2, <2>3, LandedType DEF r, new, N
<1>7. Recorded(work, call, first) \in Seq(NodeEntries(Before(next)))
  <2> DEFINE N == NodeEntries(Before(next))
             L == LeafEntries(Before(next))
  <2>1. work \in Seq(N)
    BY <1>1, <1>3, MoreNodes
  <2>2. AreNodes(N, L) /\ L \subseteq N /\ \A hash \in Hashes : TakesHash(N, L, hash)
    BY EntriesAreNodes DEF NodeEntries
  <2>3. \A k \in DOMAIN new : Entry(NodeAt(r, new[k]), first + k - 1) \in L
    BY <1>3, <1>5, BlockType
  <2> HIDE DEF N, L
  <2>4. QED
    BY <1>1, <2>1, <2>2, <2>3, RecordedType DEF r, new, N
<1> DEFINE b == Binds(call, first)
<1>8. /\ DOMAIN b = ToSet(new) \cup DOMAIN bound
      /\ \A p \in ToSet(new) : \E k \in DOMAIN new : b[p] = first + k - 1
      /\ \A p \in DOMAIN bound \ ToSet(new) : b[p] = bound[p]
  BY BindsIs DEF new
<1> HIDE DEF b
<1>9. DOMAIN new = 1..Len(new) /\ ToSet(new) \subseteq Paths(r)
  BY <1>2 DEF ToSet
<1>10. DOMAIN b \subseteq Paths(r)
  BY <1>1, <1>8, <1>9 DEF IsBinding, r
<1>11. ASSUME NEW p \in DOMAIN b PROVE b[p] \in Before(next)
  <2>1. CASE p \in ToSet(new)
    BY <1>3, <1>8, <1>9, <2>1
  <2>2. CASE p \notin ToSet(new)
    <3>1. p \in DOMAIN bound /\ b[p] = bound[p]
      BY <1>8, <2>2
    <3>2. QED
      BY <1>1, <1>3, <3>1 DEF IsBinding
  <2>3. QED
    BY <2>1, <2>2
<1>12. QED
  BY <1>3, <1>6, <1>7, <1>10, <1>11 DEF b, r

\* The calls after the first one.
LEMMA TailIs ==
    ASSUME NEW S, NEW s \in Seq(S), s # <<>>
    PROVE  /\ Head(s) \in S /\ Head(s) = s[1] /\ Tail(s) \in Seq(S)
           /\ Len(s) \in Nat \ {0} /\ Len(Tail(s)) = Len(s) - 1
           /\ \A k \in 1..(Len(s) - 1) : Tail(s)[k] = s[k + 1]
OBVIOUS

\* What is at hand stays so when a call lands.
LEMMA StaysAtHand ==
    ASSUME NEW S, calls \in Seq(S), calls # <<>>, NEW p, NEW l \in 1..(Len(calls) + 1),
           AtHand(p, bound, calls, l), NEW first
    PROVE  AtHand(p, Binds(Head(calls), first), Tail(calls), l - 1)
<1> DEFINE b == Binds(Head(calls), first)
           list == Tail(calls)
<1>1. /\ Head(calls) = calls[1] /\ Len(calls) \in Nat \ {0}
      /\ \A k \in 1..(Len(calls) - 1) : list[k] = calls[k + 1]
  BY TailIs
<1>2. DOMAIN b = ToSet(Created(Head(calls))) \cup DOMAIN bound
  BY BindsIs
<1> HIDE DEF b, list
<1>3. CASE p \in DOMAIN bound
  BY <1>2, <1>3 DEF AtHand, b, list
<1>4. CASE p \notin DOMAIN bound
  <2>1. PICK k \in 1..(l - 1) : p \in ToSet(Created(calls[k]))
    BY <1>4 DEF AtHand
  <2>2. CASE k = 1
    BY <1>1, <1>2, <2>1, <2>2 DEF AtHand, b, list
  <2>3. CASE k # 1
    <3> DEFINE j == k - 1
    <3>1. j \in 1..(Len(calls) - 1) /\ j \in 1..(l - 2) /\ j + 1 = k
      BY <1>1, <2>3
    <3>2. list[j] = calls[k]
      BY <1>1, <3>1
    <3>3. p \in ToSet(Created(list[j])) /\ j \in 1..(l - 1 - 1)
      BY <2>1, <3>1, <3>2
    <3> HIDE DEF j
    <3>4. QED
      BY <3>3 DEF AtHand, list
  <2>4. QED
    BY <2>2, <2>3
<1>5. QED
  BY <1>3, <1>4

----------------------------------------------------------------------------
(* Every step keeps it *)

\* What is left of a sync that has ended.
LEMMA EndsTyped ==
    ASSUME Inv, NEW how \in {"done", "failed"}, Ends(how), UNCHANGED rendering,
           nextId' \in Nat \ {0}, nextId <= nextId',
           page' \in Seq(LiveNodes(Live')), cache' \in Seq(NodeEntries(Minted')),
           UNCHANGED <<tidy, known, renders>>, quiet' \in BOOLEAN, lost' \in BOOLEAN,
           upsets' \in 0..MaxUpsets
    PROVE  Inv'
<1>1. calls' = <<>> /\ bound' = <<>> /\ work' = <<>> /\ phase' = "idle" /\ outcome' = how
  BY DEF Ends
<1>2. DOMAIN <<>> = {} /\ \A S : <<>> \in Seq(S)
  OBVIOUS
<1>3. Types'
  <2>1. rendering' \in Renderings
    BY DEF Inv, Types
  <2>2. IsBinding(bound)'
    BY <1>1, <1>2 DEF IsBinding
  <2>3. QED
    BY <1>1, <1>2, <2>1, <2>2 DEF Types
<1>4. Simple'
  BY <1>1 DEF Inv, Simple
<1>5. QED
  BY <1>1, <1>3, <1>4 DEF Inv, Idle, Covered

\* The application renders something else.
LEMMA RenderTyped ==
    ASSUME Inv, NEW r \in Renderings, Render(r)
    PROVE  Inv'
<1>1. /\ phase = "idle" /\ calls = <<>> /\ bound = <<>> /\ work = <<>>
      /\ UNCHANGED <<page, cache, phase, calls, bound, work, nextId>>
      /\ rendering' = r /\ outcome' = "none"
  BY DEF Inv, Idle, Render, syncVars
<1>2. DOMAIN <<>> = {} /\ \A S : <<>> \in Seq(S)
  OBVIOUS
<1>3. Types'
  <2>1. IsBinding(bound)'
    BY <1>1, <1>2 DEF IsBinding
  <2>2. QED
    BY <1>1, <1>2, <2>1 DEF Inv, Types, Minted, Live
<1>4. Simple'
  <2>1. renders \in 0..MaxRenders /\ renders < MaxRenders /\ renders' = renders + 1
    BY DEF Inv, Simple, Render
  <2>2. MaxRenders \in Nat
    BY PageAssumption DEF ConstantsAssumption
  <2>3. renders' \in 0..MaxRenders
    BY <2>1, <2>2
  <2>4. QED
    BY <1>1, <2>3 DEF Inv, Simple, Render
<1>5. QED
  BY <1>1, <1>3, <1>4 DEF Inv, Idle, Covered

\* A sync begins.
LEMMA BeginTyped ==
    ASSUME Inv, NEW m, m = Matching(Base(page, cache), rendering), Begin(m)
    PROVE  Inv'
<1>1. /\ Diffable(m) /\ phase' = "syncing" /\ calls' = Calls(Plan(m)) /\ bound' = Inherited(m)
      /\ work' = Confirmed(m.top.old) /\ outcome' = "none"
      /\ UNCHANGED <<page, cache, rendering, nextId>>
  BY DEF Begin
<1>2. Minted' = Minted /\ Live' = Live
  BY <1>1 DEF Minted, Live
<1>3. /\ Calls(Plan(m)) \in Seq(PlanCalls(rendering, Minted, Live))
      /\ IsBinding(Inherited(m))
      /\ Confirmed(m.top.old) \in Seq(NodeEntries(Minted))
      /\ \A p \in Paths(rendering) :
            AtHand(p, Inherited(m), Calls(Plan(m)), Len(Calls(Plan(m))) + 1)
  BY <1>1, BeginsTyped DEF Inv
<1>4. Types'
  <2>1. IsBinding(bound)'
    BY <1>1, <1>2, <1>3 DEF IsBinding
  <2>2. QED
    BY <1>1, <1>2, <1>3, <2>1 DEF Inv, Types
<1>5. Covered'
  BY <1>1, <1>3 DEF Covered
<1>6. Simple'
  <2>1. (PagesComeLast(m.top)) \in BOOLEAN /\ ContentsAgree \in BOOLEAN
    BY DEF PagesComeLast, ContentsAgree
  <2>2. quiet' = TRUE /\ tidy' = PagesComeLast(m.top) /\ known' = ContentsAgree
        /\ UNCHANGED <<lost, renders, upsets>>
    BY DEF Begin
  <2>3. QED
    BY <1>1, <2>1, <2>2, Zenon DEF Inv, Simple
<1>7. QED
  BY <1>1, <1>4, <1>5, <1>6 DEF Inv, Idle

\* The call goes through and the sync goes on.
LEMMA GoesOnTyped ==
    ASSUME Inv, Calling, NEW first \in Nat, first >= nextId, UNCHANGED <<rendering, phase>>,
           NEW tree \in Seq(LiveNodes(Before(first) \cup Foreign)),
           page' = Landed(tree, Head(calls), first),
           work' = Recorded(work, Head(calls), first),
           cache' \in {work', cache},
           bound' = Binds(Head(calls), first),
           nextId' = first + Len(Created(Head(calls))),
           calls' = Tail(calls)
    PROVE  Types' /\ Idle' /\ Covered'
<1> DEFINE call == Head(calls)
           S == PlanCalls(rendering, Minted, Live)
<1>1. /\ phase = "syncing" /\ calls # <<>> /\ calls \in Seq(S) /\ Types
      /\ cache \in Seq(NodeEntries(Minted)) /\ rendering \in Renderings
  BY DEF Inv, Types, Calling
<1>2. /\ call \in S /\ Tail(calls) \in Seq(S)
      /\ Len(calls) \in Nat \ {0} /\ Len(Tail(calls)) = Len(calls) - 1
  <2> HIDE DEF S
  <2> QED
    BY <1>1, TailIs
<1> HIDE DEF call
<1>3. /\ nextId' \in Nat \ {0} /\ Minted \subseteq Before(nextId')
      /\ page' \in Seq(LiveNodes(Before(nextId') \cup Foreign))
      /\ work' \in Seq(NodeEntries(Before(nextId')))
      /\ DOMAIN bound' \subseteq Paths(rendering)
      /\ \A p \in DOMAIN bound' : bound'[p] \in Before(nextId')
  BY <1>1, <1>2, LandsTyped DEF call
<1>4. Minted' = Before(nextId') /\ Live' = Before(nextId') \cup Foreign
  BY DEF Minted, Live, Before
<1>5. Minted \subseteq Minted' /\ Live \subseteq Live'
  BY <1>3, <1>4 DEF Live
<1>6. Types'
  <2>1. cache' \in Seq(NodeEntries(Minted'))
    BY <1>1, <1>3, <1>4, <1>5, MoreNodes, ZenonT(40)
  <2>2. calls' \in Seq(PlanCalls(rendering, Minted', Live'))
    BY <1>2, <1>5, MoreCalls
  <2>3. IsBinding(bound)'
    BY <1>3, <1>4 DEF IsBinding
  <2>4. QED
    BY <1>1, <1>3, <1>4, <2>1, <2>2, <2>3 DEF Types
<1>7. Covered'
  <2>1. \A p \in Paths(rendering) : AtHand(p, bound, calls, Len(calls) + 1)
    BY <1>1 DEF Inv, Covered
  <2>2. Len(calls) + 1 \in 1..(Len(calls) + 1) /\ Len(calls) + 1 - 1 = Len(Tail(calls)) + 1
    BY <1>2
  <2>3. \A p \in Paths(rendering) : AtHand(p, bound', Tail(calls), Len(Tail(calls)) + 1)
    BY <1>1, <2>1, <2>2, StaysAtHand
  <2>4. QED
    BY <2>3 DEF Covered
<1>8. Idle'
  BY <1>1 DEF Idle
<1>9. QED
  BY <1>6, <1>7, <1>8

\* A call lands and is recorded.
LEMMA SendTyped ==
    ASSUME Inv, Send
    PROVE  Inv'
<1>1. nextId \in Nat /\ nextId >= nextId /\ page \in Seq(LiveNodes(Before(nextId) \cup Foreign))
  BY DEF Inv, Types, Live, Minted, Before
<1>2. Types' /\ Idle' /\ Covered'
  BY <1>1, GoesOnTyped DEF Send
<1>3. Simple'
  BY DEF Inv, Simple, Send, history
<1>4. QED
  BY <1>2, <1>3 DEF Inv

\* Where a call lands for the first time.
LEMMA LandsOnPage ==
    ASSUME Inv, Calling
    PROVE  LET next == nextId + Len(Created(Head(calls)))
           IN  /\ next \in Nat \ {0} /\ nextId <= next
               /\ Landed(page, Head(calls), nextId) \in Seq(LiveNodes(Before(next) \cup Foreign))
<1>1. nextId \in Nat /\ nextId >= nextId /\ page \in Seq(LiveNodes(Before(nextId) \cup Foreign))
  BY DEF Inv, Types, Live, Minted, Before
<1>2. Head(calls) \in PlanCalls(rendering, Minted, Live) /\ Types
  BY TailIs DEF Inv, Types, Calling
<1>3. QED
  BY <1>1, <1>2, LandsTyped

\* A fault leaves the counters in their bounds.
LEMMA UpsetsTyped ==
    ASSUME Inv, Upset
    PROVE  upsets' \in 0..MaxUpsets /\ quiet' \in BOOLEAN
<1>1. MaxUpsets \in Nat /\ upsets \in 0..MaxUpsets /\ upsets < MaxUpsets /\ upsets' = upsets + 1
  BY PageAssumption DEF ConstantsAssumption, Inv, Simple, Upset
<1>2. upsets' \in 0..MaxUpsets
  BY <1>1
<1>3. quiet' \in BOOLEAN
  BY DEF Upset
<1>4. QED
  BY <1>2, <1>3

\* A call lands twice and the second answer is recorded.
LEMMA SendTwiceTyped ==
    ASSUME Inv, SendTwice
    PROVE  Inv'
<1> DEFINE again == nextId + Len(Created(Head(calls)))
           tree == Landed(page, Head(calls), nextId)
<1>1. again \in Nat /\ again >= nextId /\ tree \in Seq(LiveNodes(Before(again) \cup Foreign))
  BY LandsOnPage DEF SendTwice, Inv, Types
<1>2. /\ Calling /\ UNCHANGED <<rendering, phase>>
      /\ page' = Landed(tree, Head(calls), again)
      /\ work' = Recorded(work, Head(calls), again)
      /\ cache' \in {work', cache} /\ bound' = Binds(Head(calls), again)
      /\ nextId' = again + Len(Created(Head(calls))) /\ calls' = Tail(calls)
  BY DEF SendTwice
<1> HIDE DEF again, tree
<1>3. Types' /\ Idle' /\ Covered'
  BY <1>1, <1>2, GoesOnTyped
<1>4. Simple'
  BY UpsetsTyped DEF Inv, Simple, SendTwice
<1>5. QED
  BY <1>3, <1>4 DEF Inv

\* A call lands without its answer.
LEMMA LoseAnswerTyped ==
    ASSUME Inv, LoseAnswer
    PROVE  Inv'
<1> DEFINE next == nextId + Len(Created(Head(calls)))
<1>1. /\ next \in Nat \ {0} /\ nextId <= next /\ nextId \in Nat \ {0}
      /\ Landed(page, Head(calls), nextId) \in Seq(LiveNodes(Before(next) \cup Foreign))
  BY LandsOnPage DEF LoseAnswer, Inv, Types
<1>2. nextId' = next /\ page' = Landed(page, Head(calls), nextId) /\ UNCHANGED cache
  BY DEF LoseAnswer
<1> HIDE DEF next
<1>3. Minted' = Before(next) /\ Live' = Before(next) \cup Foreign /\ Minted \subseteq Before(next)
  BY <1>1, <1>2 DEF Minted, Live, Before
<1>4. page' \in Seq(LiveNodes(Live')) /\ cache' \in Seq(NodeEntries(Minted'))
  BY <1>1, <1>2, <1>3, MoreNodes DEF Inv, Types
<1>5. QED
  BY <1>1, <1>2, <1>4, EndsTyped, UpsetsTyped DEF LoseAnswer

\* The snapshot becomes the cache.
LEMMA FinishTyped ==
    ASSUME Inv, Finish
    PROVE  Inv' /\ DOMAIN bound = Paths(rendering)
<1>1. phase = "syncing" /\ calls = <<>> /\ cache' = Snapshot /\ UNCHANGED <<page, nextId>>
  BY DEF Finish
<1>2. DOMAIN bound = Paths(rendering)
  <2>1. Len(calls) + 1 = 1 /\ 1..(1 - 1) = {}
    BY <1>1
  <2>2. \A p \in Paths(rendering) : p \in DOMAIN bound
    BY <1>1, <2>1 DEF Inv, Covered, AtHand
  <2>3. QED
    BY <2>2 DEF Inv, Types, IsBinding
<1>3. Snapshot \in Seq(NodeEntries(Minted))
  <2>1. /\ rendering \in Renderings
        /\ \A p \in Paths(rendering) : bound[p] \in Minted
    BY <1>2 DEF Inv, Types, IsBinding
  <2>2. Tops(rendering) \subseteq Paths(rendering)
    BY <2>1, TopsUnfold
  <2>3. Snapshot \in Seq(EntryLevels(Minted, Minted))
    BY <2>1, <2>2, SnapshotType
  <2>4. QED
    BY <2>3 DEF NodeEntries
<1>4. Minted' = Minted /\ Live' = Live
  BY <1>1 DEF Minted, Live
<1>5. page' \in Seq(LiveNodes(Live')) /\ cache' \in Seq(NodeEntries(Minted'))
  BY <1>1, <1>3, <1>4 DEF Inv, Types
<1>6. nextId' \in Nat \ {0} /\ nextId <= nextId'
  BY <1>1 DEF Inv, Types
<1>7. Inv'
  BY <1>5, <1>6, EndsTyped DEF Finish, Inv, Simple
<1>8. QED
  BY <1>2, <1>7

\* A sync ends and nothing lands.
LEMMA EndsQuietlyTyped ==
    ASSUME Inv, Rejected \/ Stop
    PROVE  Inv'
<1>1. Ends("failed") /\ UNCHANGED <<page, cache, rendering, nextId, tidy, known, lost, renders>>
  BY DEF Rejected, Stop
<1>2. Minted' = Minted /\ Live' = Live
  BY <1>1 DEF Minted, Live
<1>3. page' \in Seq(LiveNodes(Live')) /\ cache' \in Seq(NodeEntries(Minted'))
  BY <1>1, <1>2 DEF Inv, Types
<1>4. nextId' \in Nat \ {0} /\ nextId <= nextId'
  BY <1>1 DEF Inv, Types
<1>5. quiet' \in BOOLEAN /\ upsets' \in 0..MaxUpsets
  BY UpsetsTyped DEF Rejected, Stop, Inv, Simple
<1>6. QED
  BY <1>1, <1>3, <1>4, <1>5, EndsTyped DEF Inv, Simple

\* Steps that leave the sync alone.
LEMMA AsideTyped ==
    ASSUME Inv, UNCHANGED <<rendering, syncVars, nextId, tidy, known, lost, renders>>,
           page' \in Seq(LiveNodes(Live)), cache' \in Seq(NodeEntries(Minted)),
           outcome' \in {"none", "threw"}, quiet' \in BOOLEAN, upsets' \in 0..MaxUpsets
    PROVE  Inv'
<1>1. Minted' = Minted /\ Live' = Live
  BY DEF Minted, Live
<1>2. IsBinding(bound)'
  BY <1>1 DEF Inv, Types, IsBinding, syncVars
<1>3. Types'
  BY <1>1, <1>2 DEF Inv, Types, syncVars
<1>4. Simple' /\ Idle' /\ Covered'
  BY DEF Inv, Simple, Idle, Covered, syncVars
<1>5. QED
  BY <1>3, <1>4 DEF Inv

\* Somebody else edits the page.
LEMMA EditTyped ==
    ASSUME Inv, Edit
    PROVE  Inv' /\ page' \in Seq(LiveNodes(Live))
<1> DEFINE N == LiveNodes(Live)
           L == LiveLeaves(Live)
<1>1. page \in Seq(N) /\ AreNodes(N, L) /\ cache \in Seq(NodeEntries(Minted))
  BY LiveAreNodes DEF Inv, Types, LiveNodes
<1>2. \A u \in Foreign : Block([kind |-> "block", hash |-> Ghost], u) \in L
  BY DEF Block, LiveLeaves, Kinds, Live
<1>3. L \subseteq N
  BY LiveAreNodes DEF LiveNodes
<1> HIDE DEF N, L
<1>4. \A id : Without(page, id) \in Seq(N)
  BY <1>1, WithoutType
<1>5. page' \in Seq(N)
  <2>1. CASE \E n \in ToSet(page) : page' = Without(page, n.id)
    BY <1>4, <2>1
  <2>2. CASE \E u \in Foreign \ Ids(page) :
                page' = Append(page, Block([kind |-> "block", hash |-> Ghost], u))
    BY <1>1, <1>2, <1>3, <2>2, AppendIs
  <2>3. CASE \E n \in ToSet(page) : page' = <<n>> \o Without(page, n.id)
    <3>1. PICK n \in ToSet(page) : page' = <<n>> \o Without(page, n.id)
      BY <2>3
    <3>2. n \in N
      BY <1>1 DEF ToSet
    <3>3. <<n>> \in Seq(N)
      BY <3>2
    <3>4. QED
      BY <1>4, <3>1, <3>3, JoinedIs
  <2>4. QED
    BY <2>1, <2>2, <2>3 DEF Edit
<1>6. UNCHANGED cache /\ outcome' \in {"none", "threw"}
  BY DEF Edit
<1>7. Inv'
  BY <1>1, <1>5, <1>6, AsideTyped, UpsetsTyped DEF Edit, N
<1>8. QED
  BY <1>5, <1>7 DEF N

\* The cache file is lost.
LEMMA LoseCacheTyped ==
    ASSUME Inv, LoseCache
    PROVE  Inv'
<1>1. cache' \in Seq(NodeEntries(Minted)) /\ outcome' \in {"none", "threw"}
  BY DEF LoseCache
<1>2. page' \in Seq(LiveNodes(Live))
  BY DEF Inv, Types, LoseCache
<1>3. QED
  BY <1>1, <1>2, AsideTyped, UpsetsTyped DEF LoseCache

\* diff() throws.
LEMMA RefuseTyped ==
    ASSUME Inv, NEW m, Refuse(m)
    PROVE  Inv'
<1>1. /\ page' \in Seq(LiveNodes(Live)) /\ cache' \in Seq(NodeEntries(Minted))
      /\ outcome' \in {"none", "threw"}
  BY DEF Refuse, Inv, Types
<1>2. QED
  BY <1>1, AsideTyped DEF Refuse, Inv, Simple

\* Nothing happens.
LEMMA StutterTyped ==
    ASSUME Inv, UNCHANGED vars
    PROVE  Inv'
<1>1. Minted' = Minted /\ Live' = Live
  BY DEF Minted, Live, vars
<1>2. IsBinding(bound)'
  BY <1>1 DEF Inv, Types, IsBinding, syncVars, vars
<1>3. Types'
  BY <1>1, <1>2 DEF Inv, Types, syncVars, vars
<1>4. Simple' /\ Idle' /\ Covered'
  BY DEF Inv, Simple, Idle, Covered, syncVars, history, vars
<1>5. QED
  BY <1>3, <1>4 DEF Inv

\* The beginning.
LEMMA InitTyped ==
    ASSUME Init
    PROVE  Inv
<1>1. /\ cache = <<>> /\ phase = "idle" /\ calls = <<>> /\ bound = <<>> /\ work = <<>> /\ nextId = 1
      /\ rendering \in Renderings
  BY DEF Init
<1>2. DOMAIN <<>> = {} /\ \A S : <<>> \in Seq(S)
  OBVIOUS
<1>3. page \in Seq(LiveNodes(Live))
  <2>1. \A u \in Foreign : Block([kind |-> "block", hash |-> Ghost], u) \in LiveLeaves(Live)
    BY DEF Block, LiveLeaves, Kinds, Live
  <2>2. LiveLeaves(Live) \subseteq LiveNodes(Live)
    BY LiveAreNodes DEF LiveNodes
  <2>3. \A u \in Foreign : Block([kind |-> "block", hash |-> Ghost], u) \in LiveNodes(Live)
    BY <2>1, <2>2
  <2>4. \/ page = <<>>
        \/ \E u \in Foreign : page = <<Block([kind |-> "block", hash |-> Ghost], u)>>
    BY DEF Init
  <2>5. \A n \in LiveNodes(Live) : <<n>> \in Seq(LiveNodes(Live))
    OBVIOUS
  <2>6. QED
    BY <1>2, <2>3, <2>4, <2>5
<1>4. Types
  <2>1. IsBinding(bound)
    BY <1>1, <1>2 DEF IsBinding
  <2>2. QED
    BY <1>1, <1>2, <1>3, <2>1 DEF Types
<1>5. Simple
  <2>1. MaxRenders \in Nat /\ MaxUpsets \in Nat
    BY PageAssumption DEF ConstantsAssumption
  <2>2. 0 \in 0..MaxRenders /\ 0 \in 0..MaxUpsets
    BY <2>1
  <2>3. phase = "idle" /\ outcome = "none" /\ renders = 0 /\ upsets = 0
    BY DEF Init
  <2>4. quiet \in BOOLEAN /\ tidy \in BOOLEAN /\ known \in BOOLEAN /\ lost \in BOOLEAN
    BY DEF Init
  <2>5. QED
    BY <2>2, <2>3, <2>4 DEF Simple
<1>6. QED
  BY <1>1, <1>4, <1>5 DEF Inv, Idle, Covered

\* Any step.
LEMMA StepTyped ==
    ASSUME Inv, [Next]_vars
    PROVE  Inv'
<1>1. CASE \E r \in Renderings : Render(r)
  BY <1>1, RenderTyped
<1>2. CASE Sync
  <2>1. PICK m \in {Matching(Base(page, cache), rendering)} : Begin(m) \/ Refuse(m)
    BY <1>2 DEF Sync
  <2>2. QED
    BY <2>1, BeginTyped, RefuseTyped
<1>3. CASE Send
  BY <1>3, SendTyped
<1>4. CASE Rejected \/ Stop
  BY <1>4, EndsQuietlyTyped
<1>5. CASE Finish
  BY <1>5, FinishTyped
<1>6. CASE LoseAnswer
  BY <1>6, LoseAnswerTyped
<1>7. CASE SendTwice
  BY <1>7, SendTwiceTyped
<1>8. CASE Edit
  BY <1>8, EditTyped
<1>9. CASE LoseCache
  BY <1>9, LoseCacheTyped
<1>10. CASE UNCHANGED vars
  BY <1>10, StutterTyped
<1>11. QED
  BY <1>1, <1>2, <1>3, <1>4, <1>5, <1>6, <1>7, <1>8, <1>9, <1>10 DEF Next, Step

----------------------------------------------------------------------------
(* The theorems *)

\* The invariant always holds.
LEMMA Invariance == Spec => []Inv
BY InitTyped, StepTyped, PTL DEF Spec

\* The ids of a tree of typed nodes.
LEMMA TreeIds ==
    ASSUME NEW N, NEW L, AreNodes(N, L), L \subseteq N, NEW tree \in Seq(N), NEW ids, \A n \in N : n.id \in ids
    PROVE  Ids(tree) \subseteq ids
<1>1. \A n \in ToSet(tree) : n \in N
  BY DEF ToSet
<1>2. \A n \in ToSet(tree) : \A k \in ToSet(n.kids) : k \in N
  <2> SUFFICES ASSUME NEW n \in ToSet(tree), NEW k \in ToSet(n.kids) PROVE k \in N
    OBVIOUS
  <2>1. n.kids \in Seq(L)
    BY <1>1 DEF AreNodes
  <2>2. k \in L
    BY <2>1 DEF ToSet
  <2>3. QED
    BY <2>2
<1>3. QED
  BY <1>1, <1>2 DEF Ids

\* Type correctness: the ids that sync() has bound to rendered nodes (the temporary ids
\* resolved so far) are ids the server has minted, every id on the page is one of those or
\* a foreign one, and a sync that is over has left no working state.
THEOREM TypeCorrect == Spec => []TypeOK
<1>1. Inv => TypeOK
  <2> SUFFICES ASSUME Inv PROVE TypeOK
    OBVIOUS
  <2>1. Ids(page) \subseteq 1..(nextId - 1) \cup Foreign
    <3>1. \A n \in LiveNodes(Live) : n.id \in Live
      BY DEF LiveNodes, LiveLevels
    <3>2. /\ AreNodes(LiveNodes(Live), LiveLeaves(Live))
          /\ LiveLeaves(Live) \subseteq LiveNodes(Live)
      BY LiveAreNodes DEF LiveNodes
    <3>3. Ids(page) \subseteq Live
      BY <3>1, <3>2, TreeIds DEF Inv, Types
    <3>4. QED
      BY <3>3 DEF Live, Minted
  <2>2. {quiet, tidy, known, lost} \subseteq BOOLEAN
    BY Zenon DEF Inv, Simple
  <2>3. QED
    BY <2>1, <2>2 DEF Inv, Types, Simple, Idle, IsBinding, Minted, TypeOK
<1>2. QED
  BY <1>1, Invariance, PTL

\* When its calls are made, a sync knows the id of every rendered node: the candidate tree
\* that sync() writes as the final cache has no temporary id left, so the snapshot never
\* throws.  From Covered, with no call left.
THEOREM SnapshotAlwaysResolves == Spec => []SnapshotResolves
<1>1. Inv => SnapshotResolves
  <2> SUFFICES ASSUME Inv, phase = "syncing", calls = <<>> PROVE DOMAIN bound = Paths(rendering)
    BY DEF SnapshotResolves
  <2>1. Len(calls) + 1 = 1 /\ 1..(1 - 1) = {}
    OBVIOUS
  <2>2. \A p \in Paths(rendering) : p \in DOMAIN bound
    BY <2>1 DEF Inv, Covered, AtHand
  <2>3. QED
    BY <2>2 DEF Inv, Types, IsBinding
<1>2. QED
  BY <1>1, Invariance, PTL

\* The placeholders that the drift base puts in for foreign live blocks reach neither the
\* working cache nor a persisted one, so no later sync removes a block for one of them.
THEOREM NoGhostIsKept == Spec => []NoGhostsKept
<1>1. Inv => NoGhostsKept
  <2> SUFFICES ASSUME Inv, NEW tree \in {work, cache}
               PROVE  Ids(tree) \cap Foreign = {} /\ \A b \in ToSet(tree) : b.key # Ghost
    BY DEF NoGhostsKept
  <2>1. tree \in Seq(NodeEntries(Minted)) /\ nextId \in Nat
    BY DEF Inv, Types
  <2>2. Ids(tree) \subseteq Minted
    <3>1. \A n \in NodeEntries(Minted) : n.id \in Minted
      BY DEF NodeEntries, EntryLevels
    <3>2. QED
      BY <2>1, <3>1, TreeIds, EntriesAreNodes DEF NodeEntries
  <2>3. Minted \cap Foreign = {}
    <3>1. Minted \subseteq Nat
      BY <2>1 DEF Minted
    <3>2. QED
      BY <3>1, PageAssumption DEF ConstantsAssumption
  <2>4. \A b \in ToSet(tree) : b.key # Ghost
    <3>1. \A b \in ToSet(tree) : b \in NodeEntries(Minted)
      BY <2>1 DEF ToSet
    <3>2. QED
      BY <3>1, KeysAreNoGhosts DEF NodeEntries, EntryLevels
  <2>5. QED
    BY <2>2, <2>3, <2>4
<1>2. QED
  BY <1>1, Invariance, PTL

\* What diff() keeps of the live children, placeholders among them, is a largest set of
\* siblings that stay in order: no sync rewrites more blocks than it must.
THEOREM MostIsAlwaysKept == Spec => []MostIsKept
<1>1. Inv => MostIsKept
  <2> SUFFICES ASSUME Inv, UniqueKeys(Base(page, cache))
               PROVE  IsLongestCommon(RetainedKeys(Base(page, cache), rendering),
                                      Base(page, cache), rendering)
    BY DEF MostIsKept, IsLongestCommon, CommonKeys
  <2>1. IsBase(Base(page, cache), Minted, Live)
    BY BaseIs DEF Inv, Types
  <2>2. IsRendered(rendering)
    BY RenderingType DEF Inv, Types
  <2>3. QED
    BY <2>1, <2>2, RetainedOfBase
<1>2. QED
  BY <1>1, Invariance, PTL

----------------------------------------------------------------------------
(* The page's children have ids of their own *)

\* The page's children, and the ids of rendered ones, are of one set of ids, the
\* children of blocks of another.
Levels(tops, ids) ==
    /\ tops \subseteq Live /\ ids \subseteq Minted /\ tops \cap ids = {}
    /\ page \in Seq(LiveLevels(tops, ids))
    /\ cache \in Seq(EntryLevels(tops, ids))
    /\ work \in Seq(EntryLevels(tops, ids))
    /\ \A p \in DOMAIN bound : bound[p] \in IF p \in Tops(rendering) THEN tops ELSE ids

Apart == \E tops, ids : Levels(tops, ids)

\* The call puts blocks under a block.
IsNested(call) == call.op = "append" /\ call.under # Root

\* A call creates nodes of one level.
LEMMA CreatedOnLevel ==
    ASSUME NEW r \in Renderings, NEW ids, NEW all, NEW call \in PlanCalls(r, ids, all)
    PROVE  \A p \in ToSet(Created(call)) : p \in Tops(r) <=> ~IsNested(call)
<1>1. CASE \E p \in Tops(r) \cup {Root} : call \in Appends(r, p)
  <2>1. PICK p \in Tops(r) \cup {Root} : call \in Appends(r, p)
    BY <1>1
  <2>2. call.op = "append" /\ call.under = p /\ call.nodes \in Seq(Below(r, p))
    BY <2>1 DEF Appends
  <2>3. Created(call) = call.nodes
    BY <2>2 DEF Created
  <2>4. \A q \in ToSet(Created(call)) : q \in Below(r, p)
    BY <2>2, <2>3 DEF ToSet
  <2>5. QED
    BY <2>2, <2>4 DEF IsNested, Below
<1>2. CASE call \in [op : {"create"}, node : Tops(r)]
  <2>1. Created(call) = <<call.node>> /\ call.node \in Tops(r) /\ call.op = "create"
    BY <1>2 DEF Created
  <2>2. \A q \in ToSet(<<call.node>>) : q = call.node
    BY DEF ToSet
  <2>3. QED
    BY <2>1, <2>2 DEF IsNested
<1>3. CASE call.op \in {"update", "rename", "move", "remove", "archive"}
  <2>1. Created(call) = <<>> /\ ToSet(<<>>) = {}
    BY <1>3 DEF Created, ToSet
  <2>2. QED
    BY <2>1
<1>4. QED
  BY <1>1, <1>2, <1>3 DEF PlanCalls, Clears

\* What a call creates gets to its level, on the page, in the working cache and among
\* the ids that are bound.
LEMMA LandsOnLevel ==
    ASSUME Types, NEW call \in PlanCalls(rendering, Minted, Live), NEW first \in Nat,
           IsNested(call) => call.under \in DOMAIN bound,
           NEW tops, NEW ids,
           \A k \in 1..Len(Created(call)) :
                first + k - 1 \in IF IsNested(call) THEN ids ELSE tops,
           \A p \in DOMAIN bound : bound[p] \in IF p \in Tops(rendering) THEN tops ELSE ids,
           NEW tree \in Seq(LiveLevels(tops, ids)), NEW entries \in Seq(EntryLevels(tops, ids))
    PROVE  /\ Landed(tree, call, first) \in Seq(LiveLevels(tops, ids))
           /\ Recorded(entries, call, first) \in Seq(EntryLevels(tops, ids))
           /\ \A p \in DOMAIN Binds(call, first) :
                Binds(call, first)[p] \in IF p \in Tops(rendering) THEN tops ELSE ids
<1> DEFINE r == rendering
           new == Created(call)
<1>1. r \in Renderings /\ IsBinding(bound) /\ nextId \in Nat
  BY DEF Types
<1>2. new \in Seq(Paths(r)) /\ \A k \in DOMAIN new : NodeAt(r, new[k]) \in Nodes
  BY <1>1, CreatedType
<1>3. \A p \in ToSet(new) : p \in Tops(r) <=> ~IsNested(call)
  BY <1>1, CreatedOnLevel
<1> HIDE DEF new, r
<1>4. DOMAIN new = 1..Len(new)
  BY <1>2
<1>5. call.op = "append" /\ Parent(call) # Page <=> IsNested(call)
  <2>1. ASSUME IsNested(call) PROVE Parent(call) # Page
    <3>1. Parent(call) = bound[call.under] /\ bound[call.under] \in Minted
      BY <1>1, <2>1 DEF Parent, IsNested, IsBinding
    <3>2. QED
      BY <1>1, <3>1 DEF Minted, Page
  <2>2. QED
    BY <2>1 DEF Parent, IsNested
<1>6. ASSUME NEW k \in DOMAIN new
      PROVE  /\ Block(NodeAt(r, new[k]), first + k - 1)
                    \in IF IsNested(call) THEN LiveLeaves(ids) ELSE LiveLevels(tops, ids)
             /\ Entry(NodeAt(r, new[k]), first + k - 1)
                    \in IF IsNested(call) THEN LeafEntries(ids) ELSE EntryLevels(tops, ids)
  <2> DEFINE id == first + k - 1
             n == NodeAt(r, new[k])
  <2>1. n \in Nodes
    BY <1>2
  <2>2. id \in IF IsNested(call) THEN ids ELSE tops
    BY <1>4 DEF new
  <2> HIDE DEF id, n
  <2>3. CASE IsNested(call)
    BY <2>1, <2>2, <2>3, BlockType DEF id, n
  <2>4. CASE ~IsNested(call)
    <3>1. Block(n, id) \in LiveLeaves(tops) /\ Entry(n, id) \in LeafEntries(tops)
      BY <2>1, <2>2, <2>4, BlockType
    <3>2. QED
      BY <2>4, <3>1, LiveAreNodes, EntriesAreNodes DEF id, n
  <2>5. QED
    BY <2>3, <2>4
<1>7. Landed(tree, call, first) \in Seq(LiveLevels(tops, ids))
  <2> DEFINE N == LiveLevels(tops, ids)
             L == LiveLeaves(ids)
  <2>1. AreNodes(N, L) /\ \A hash \in Hashes : TakesHash(N, L, hash)
    BY LiveAreNodes
  <2>2. \A k \in DOMAIN new : Block(NodeAt(r, new[k]), first + k - 1)
                    \in IF call.op = "append" /\ Parent(call) # Page THEN L ELSE N
    BY <1>5, <1>6
  <2> HIDE DEF N, L
  <2>3. QED
    BY <1>1, <2>1, <2>2, LandedType DEF r, new, N
<1>8. Recorded(entries, call, first) \in Seq(EntryLevels(tops, ids))
  <2> DEFINE N == EntryLevels(tops, ids)
             L == LeafEntries(ids)
  <2>1. AreNodes(N, L) /\ \A hash \in Hashes : TakesHash(N, L, hash)
    BY EntriesAreNodes
  <2>2. \A k \in DOMAIN new : Entry(NodeAt(r, new[k]), first + k - 1)
                    \in IF call.op = "append" /\ Parent(call) # Page THEN L ELSE N
    BY <1>5, <1>6
  <2> HIDE DEF N, L
  <2>3. QED
    BY <1>1, <2>1, <2>2, RecordedType DEF r, new, N
<1> DEFINE b == Binds(call, first)
<1>9. /\ DOMAIN b = ToSet(new) \cup DOMAIN bound
      /\ \A p \in ToSet(new) : \E k \in DOMAIN new : b[p] = first + k - 1
      /\ \A p \in DOMAIN bound \ ToSet(new) : b[p] = bound[p]
  BY BindsIs DEF new
<1> HIDE DEF b
<1>10. ASSUME NEW p \in DOMAIN b PROVE b[p] \in IF p \in Tops(r) THEN tops ELSE ids
  <2>1. CASE p \in ToSet(new)
    <3>1. PICK k \in DOMAIN new : b[p] = first + k - 1
      BY <1>9, <2>1
    <3>2. b[p] \in IF IsNested(call) THEN ids ELSE tops
      BY <1>4, <3>1 DEF new
    <3>3. QED
      BY <1>3, <2>1, <3>2
  <2>2. CASE p \notin ToSet(new)
    BY <1>9, <2>2 DEF r
  <2>3. QED
    BY <2>1, <2>2
<1>11. QED
  BY <1>7, <1>8, <1>10 DEF b, r

\* The ids that a call takes join one level.
Grown(moreTops, more, tops, ids, next, nested) ==
    /\ tops \subseteq moreTops /\ ids \subseteq more /\ moreTops \cap more = {}
    /\ moreTops \subseteq Before(next) \cup Foreign /\ more \subseteq Before(next)
    /\ nextId..(next - 1) \subseteq IF nested THEN more ELSE moreTops

\* A call's ids fit into the levels of its parent.
LEMMA LevelsGrow ==
    ASSUME Types, NEW tops, NEW ids, Levels(tops, ids), NEW next \in Nat, next >= nextId,
           NEW nested
    PROVE  \E moreTops, more : Grown(moreTops, more, tops, ids, next, nested)
<1> DEFINE new == nextId..(next - 1)
<1>1. nextId \in Nat \ {0} /\ Foreign \cap Nat = {}
  BY PageAssumption DEF ConstantsAssumption, Types
<1>2. tops \subseteq Minted \cup Foreign /\ ids \subseteq Minted /\ tops \cap ids = {}
  BY DEF Levels, Live
<1>3. /\ Minted \subseteq Before(next) /\ new \subseteq Before(next)
      /\ new \cap Minted = {} /\ new \subseteq Nat /\ Before(next) \subseteq Nat
  BY <1>1 DEF Minted, Before
<1> HIDE DEF new
<1>4. new \cap tops = {} /\ new \cap ids = {}
  BY <1>1, <1>2, <1>3
<1>5. ASSUME nested PROVE Grown(tops, ids \cup new, tops, ids, next, nested)
  BY <1>2, <1>3, <1>4, <1>5 DEF Grown, new
<1>6. ASSUME ~nested PROVE Grown(tops \cup new, ids, tops, ids, next, nested)
  BY <1>2, <1>3, <1>4, <1>6 DEF Grown, new
<1>7. QED
  BY <1>5, <1>6

----------------------------------------------------------------------------
(* What the calls still to be made keep in order *)

\* A call lands and the sync goes on.
LEMMA GoesOnApart ==
    ASSUME Types, Calling, IsNested(Head(calls)) => Head(calls).under \in DOMAIN bound,
           NEW tops, NEW ids, Levels(tops, ids), UNCHANGED rendering,
           NEW moreTops, NEW more,
           Grown(moreTops, more, tops, ids, nextId', IsNested(Head(calls))),
           NEW first \in Nat, first >= nextId, nextId' = first + Len(Created(Head(calls))),
           NEW tree \in Seq(LiveLevels(moreTops, more)),
           page' = Landed(tree, Head(calls), first),
           work' = Recorded(work, Head(calls), first),
           cache' \in {work', cache},
           bound' = Binds(Head(calls), first)
    PROVE  Levels(moreTops, more)'
<1> DEFINE call == Head(calls)
<1>1. call \in PlanCalls(rendering, Minted, Live) /\ nextId \in Nat
  BY TailIs DEF Types, Calling
<1> HIDE DEF call
<1>2. Len(Created(call)) \in Nat
  BY <1>1, CreatedType DEF Types
<1>3. \A k \in 1..Len(Created(call)) : first + k - 1 \in nextId..(nextId' - 1)
  BY <1>1, <1>2 DEF call
<1>4. \A k \in 1..Len(Created(call)) :
            first + k - 1 \in IF IsNested(call) THEN more ELSE moreTops
  BY <1>3 DEF Grown, call
<1>5. \A p \in DOMAIN bound : bound[p] \in IF p \in Tops(rendering) THEN moreTops ELSE more
  BY DEF Levels, Grown
<1>6. cache \in Seq(EntryLevels(moreTops, more)) /\ work \in Seq(EntryLevels(moreTops, more))
  BY MoreIds DEF Levels, Grown
<1>7. /\ Landed(tree, call, first) \in Seq(LiveLevels(moreTops, more))
      /\ Recorded(work, call, first) \in Seq(EntryLevels(moreTops, more))
      /\ \A p \in DOMAIN Binds(call, first) :
            Binds(call, first)[p] \in IF p \in Tops(rendering) THEN moreTops ELSE more
  BY <1>1, <1>4, <1>5, <1>6, LandsOnLevel DEF call
<1>8. Minted' = Before(nextId') /\ Live' = Before(nextId') \cup Foreign
  BY DEF Minted, Live, Before
<1>9. moreTops \subseteq Live' /\ more \subseteq Minted' /\ moreTops \cap more = {}
  BY <1>8 DEF Grown
<1>10. /\ page' \in Seq(LiveLevels(moreTops, more)) /\ work' \in Seq(EntryLevels(moreTops, more))
       /\ cache' \in Seq(EntryLevels(moreTops, more))
  BY <1>6, <1>7 DEF call
<1>11. \A p \in DOMAIN bound' : bound'[p] \in IF p \in Tops(rendering') THEN moreTops ELSE more
  BY <1>7 DEF call
<1>12. QED
  BY <1>9, <1>10, <1>11 DEF Levels

Clearing(call) == call.op \in {"remove", "archive"}

\* A block is put under a block that is there by then, and what shows a key that is
\* still rendered goes when its copy is there.
Turn(list, binding, entries) ==
    \A l \in 1..Len(list) :
        /\ IsNested(list[l]) => AtHand(list[l].under, binding, list, l)
        /\ Clearing(list[l]) =>
            \A b \in ToSet(entries) : b.id = list[l].id /\ <<b.key>> \in Tops(rendering) =>
                /\ AtHand(<<b.key>>, binding, list, l)
                /\ <<b.key>> \in DOMAIN binding => binding[<<b.key>>] # b.id

InTurn == Turn(calls, bound, work)

\* Of the siblings in the working cache, those that a call adds have new ids.
LEMMA RecordedOrNew ==
    ASSUME Types, NEW call \in PlanCalls(rendering, Minted, Live),
           NEW first \in Nat, first >= nextId,
           NEW b \in ToSet(Recorded(work, call, first))
    PROVE  \/ \E a \in ToSet(work) : a.id = b.id /\ a.key = b.key
           \/ b.id \in Nat /\ b.id >= nextId
<1> DEFINE Old(n) == \E a \in ToSet(work) : a.id = n.id /\ a.key = n.key
           New(n) == n.id \in Nat /\ n.id >= nextId
           All == EntryLevels(Nat, Nat)
           N == {n \in All : Old(n) \/ New(n)}
           L == LeafEntries(Nat)
           new == Created(call)
<1>1. /\ rendering \in Renderings /\ nextId \in Nat \ {0}
      /\ work \in Seq(NodeEntries(Minted)) /\ Minted \subseteq Nat
  BY DEF Types, Minted
<1>2. work \in Seq(All)
  BY <1>1, MoreNodes DEF NodeEntries
<1>3. /\ AreNodes(All, L) /\ L \subseteq All
      /\ \A hash \in Hashes : TakesHash(All, L, hash)
  BY EntriesAreNodes
<1>4. \A n \in All : /\ \A s : /\ [n EXCEPT !.kids = s].id = n.id
                               /\ [n EXCEPT !.kids = s].key = n.key
                     /\ \A s : /\ [n EXCEPT !.hash = s].id = n.id
                               /\ [n EXCEPT !.hash = s].key = n.key
  BY DEF EntryLevels
<1> HIDE DEF All, L
<1>5. AreNodes(N, L)
  <2> SUFFICES ASSUME NEW n \in N
               PROVE  n.kids \in Seq(L) /\ \A s \in Seq(L) : [n EXCEPT !.kids = s] \in N
    BY DEF AreNodes
  <2>1. n.kids \in Seq(L) /\ \A s \in Seq(L) : [n EXCEPT !.kids = s] \in All
    BY <1>3 DEF AreNodes
  <2>2. \A s \in Seq(L) : Old([n EXCEPT !.kids = s]) \/ New([n EXCEPT !.kids = s])
    BY <1>4
  <2>3. QED
    BY <2>1, <2>2
<1>6. ASSUME NEW hash \in Hashes PROVE TakesHash(N, L, hash)
  <2>1. \A n \in N : [n EXCEPT !.hash = hash] \in All
    BY <1>3 DEF TakesHash
  <2>2. \A n \in N : Old([n EXCEPT !.hash = hash]) \/ New([n EXCEPT !.hash = hash])
    BY <1>4
  <2>3. QED
    BY <1>3, <2>1, <2>2 DEF TakesHash
<1>7. work \in Seq(N)
  <2>1. \A i \in 1..Len(work) : work[i] \in All /\ work[i] \in ToSet(work)
    BY <1>2 DEF ToSet
  <2>2. \A i \in 1..Len(work) : work[i] \in N
    BY <2>1
  <2>3. Len(work) \in Nat /\ work = [i \in 1..Len(work) |-> work[i]]
    BY <1>2
  <2> HIDE DEF N
  <2>4. QED
    BY <2>2, <2>3, ListIsSeq
<1>8. ASSUME NEW k \in DOMAIN new
      PROVE  Entry(NodeAt(rendering, new[k]), first + k - 1)
                \in IF call.op = "append" /\ Parent(call) # Page THEN L ELSE N
  <2> DEFINE e == Entry(NodeAt(rendering, new[k]), first + k - 1)
  <2>1. new \in Seq(Paths(rendering)) /\ NodeAt(rendering, new[k]) \in Nodes
    BY <1>1, CreatedType
  <2>2. k \in Nat \ {0} /\ first + k - 1 \in Nat /\ first + k - 1 >= nextId
    BY <1>1, <2>1
  <2>3. e \in L /\ e.id = first + k - 1
    BY <2>1, <2>2, BlockType DEF L, Entry
  <2> HIDE DEF e
  <2>4. e \in N
    BY <1>3, <2>2, <2>3
  <2>5. QED
    BY <2>3, <2>4 DEF e
<1> HIDE DEF N, new
<1>9. Recorded(work, call, first) \in Seq(N)
  BY <1>1, <1>5, <1>6, <1>7, <1>8, RecordedType DEF new
<1>10. b \in N
  BY <1>9 DEF ToSet
<1>11. QED
  BY <1>10 DEF N

\* What is behind a call in the queue keeps its turn when it lands.
LEMMA TurnGoesOn ==
    ASSUME Types, Calling, InTurn, NEW first \in Nat, first >= nextId
    PROVE  Turn(Tail(calls), Binds(Head(calls), first), Recorded(work, Head(calls), first))
<1> DEFINE call == Head(calls)
           list == Tail(calls)
           b2 == Binds(call, first)
           w2 == Recorded(work, call, first)
           S == PlanCalls(rendering, Minted, Live)
<1>1. /\ calls \in Seq(S) /\ calls # <<>> /\ nextId \in Nat \ {0}
      /\ work \in Seq(NodeEntries(Minted)) /\ Foreign \cap Nat = {}
      /\ rendering \in Renderings
  BY PageAssumption DEF ConstantsAssumption, Types, Calling
<1>2. /\ call \in S /\ Len(calls) \in Nat \ {0} /\ Len(list) = Len(calls) - 1
      /\ \A k \in 1..(Len(calls) - 1) : list[k] = calls[k + 1]
  <2> HIDE DEF S
  <2> QED
    BY <1>1, TailIs
<1>3. \A k \in 1..Len(calls) : calls[k] \in S
  <2> HIDE DEF S
  <2> QED
    BY <1>1
<1> HIDE DEF call, list, b2, w2, S
<1>4. \A l \in 1..Len(list) : l + 1 \in 1..Len(calls) /\ list[l] = calls[l + 1]
                              /\ l + 1 \in 1..(Len(calls) + 1) /\ l + 1 - 1 = l
  BY <1>2
<1>5. \A p : \A l \in 1..Len(list) : AtHand(p, bound, calls, l + 1) => AtHand(p, b2, list, l)
  <2> SUFFICES ASSUME NEW p, NEW l \in 1..Len(list), AtHand(p, bound, calls, l + 1)
               PROVE  AtHand(p, b2, list, l)
    OBVIOUS
  <2>1. AtHand(p, b2, list, l + 1 - 1)
    BY <1>1, <1>4, StaysAtHand DEF b2, list, call
  <2>2. QED
    BY <1>4, <2>1
<1>6. ASSUME NEW l \in 1..Len(list), IsNested(list[l]) PROVE AtHand(list[l].under, b2, list, l)
  <2>1. AtHand(calls[l + 1].under, bound, calls, l + 1)
    BY <1>4, <1>6 DEF InTurn, Turn
  <2>2. QED
    BY <1>4, <1>5, <2>1
<1>7. ASSUME NEW l \in 1..Len(list), Clearing(list[l]), NEW b \in ToSet(w2), b.id = list[l].id,
             <<b.key>> \in Tops(rendering)
      PROVE  AtHand(<<b.key>>, b2, list, l) /\ (<<b.key>> \in DOMAIN b2 => b2[<<b.key>>] # b.id)
  <2>1. list[l].id \in Live
    <3>1. list[l] \in S
      BY <1>3, <1>4
    <3>2. list[l] \in Clears(Live)
      BY <1>7, <3>1 DEF S, PlanCalls, Clearing, Appends
    <3>3. QED
      BY <3>2 DEF Clears
  <2>2. PICK a \in ToSet(work) : a.id = b.id /\ a.key = b.key
    <3>1. \/ \E a \in ToSet(work) : a.id = b.id /\ a.key = b.key
          \/ b.id \in Nat /\ b.id >= nextId
      BY <1>2, RecordedOrNew DEF w2, S
    <3>2. ~(b.id \in Nat /\ b.id >= nextId)
      BY <1>1, <1>7, <2>1 DEF Live, Minted
    <3>3. QED
      BY <3>1, <3>2
  <2>3. /\ AtHand(<<a.key>>, bound, calls, l + 1)
        /\ <<a.key>> \in DOMAIN bound => bound[<<a.key>>] # a.id
    BY <1>4, <1>7, <2>2 DEF InTurn, Turn
  <2>4. AtHand(<<b.key>>, b2, list, l)
    BY <1>5, <2>2, <2>3
  <2>5. a.id \in Minted
    <3>1. a \in NodeEntries(Minted)
      BY <1>1 DEF ToSet
    <3>2. QED
      BY <3>1 DEF NodeEntries, EntryLevels
  <2>6. ASSUME <<b.key>> \in DOMAIN b2 PROVE b2[<<b.key>>] # b.id
    <3>1. CASE <<b.key>> \in ToSet(Created(call))
      <4>1. PICK k \in DOMAIN Created(call) : b2[<<b.key>>] = first + k - 1
        BY <3>1, BindsIs, ZenonT(40) DEF b2
      <4>2. Created(call) \in Seq(Paths(rendering))
        BY <1>1, <1>2, CreatedType DEF S
      <4>3. k \in Nat \ {0}
        BY <4>2
      <4>4. QED
        BY <1>1, <2>2, <2>5, <4>1, <4>3 DEF Minted
    <3>2. CASE <<b.key>> \notin ToSet(Created(call))
      <4>1. <<b.key>> \in DOMAIN bound /\ b2[<<b.key>>] = bound[<<b.key>>]
        <5> DEFINE path == <<b.key>>
        <5> HIDE DEF path
        <5>1. /\ DOMAIN b2 = ToSet(Created(call)) \cup DOMAIN bound
              /\ \A p \in DOMAIN bound \ ToSet(Created(call)) : b2[p] = bound[p]
          BY BindsIs DEF b2
        <5>2. path \in DOMAIN b2 /\ path \notin ToSet(Created(call))
          BY <2>6, <3>2 DEF path
        <5>3. path \in DOMAIN bound /\ b2[path] = bound[path]
          BY <5>1, <5>2
        <5>4. QED
          BY <5>3 DEF path
      <4>2. QED
        BY <2>2, <2>3, <4>1
    <3>3. QED
      BY <3>1, <3>2
  <2>7. QED
    BY <2>4, <2>6
<1>8. Turn(list, b2, w2)
  BY <1>6, <1>7 DEF Turn
<1>9. QED
  BY <1>8 DEF list, b2, w2, call

----------------------------------------------------------------------------
(* A sync begins in order *)

\* A sync begins with ids of their levels,
LEMMA BeginsApart ==
    ASSUME Types, NEW m, m = Matching(Base(page, cache), rendering), Diffable(m),
           NEW tops, NEW ids, Levels(tops, ids)
    PROVE  /\ Confirmed(m.top.old) \in Seq(EntryLevels(tops, ids))
           /\ \A p \in DOMAIN Inherited(m) :
                Inherited(m)[p] \in IF p \in Tops(rendering) THEN tops ELSE ids
<1> DEFINE base == Base(page, cache)
           r == rendering
           b == Inherited(m)
<1>1. /\ r \in Renderings /\ page \in Seq(LiveNodes(Live)) /\ cache \in Seq(NodeEntries(Minted))
      /\ page \in Seq(LiveLevels(tops, ids)) /\ cache \in Seq(EntryLevels(tops, ids))
  BY DEF Types, Levels
<1>2. IsBase(base, Minted, Live) /\ IsBaseOf(base, page, cache)
  BY <1>1, BaseIs
<1>3. m.top.old = base /\ IsInherited(b, m, r, Minted)
  BY BeginsTyped DEF IsMatching
<1> HIDE DEF base, r, b
<1>4. \A i \in DOMAIN base :
        /\ base[i].id \in tops
        /\ base[i].key # Ghost => base[i] \in EntryLevels(tops, ids)
        /\ \A k \in DOMAIN base[i].kids : base[i].kids[k].id \in ids
  <2> SUFFICES ASSUME NEW i \in DOMAIN base
               PROVE  /\ base[i].id \in tops
                      /\ base[i].key # Ghost => base[i] \in EntryLevels(tops, ids)
                      /\ \A k \in DOMAIN base[i].kids : base[i].kids[k].id \in ids
    OBVIOUS
  <2>1. /\ i \in DOMAIN page /\ base[i].id = page[i].id
        /\ base[i].key # Ghost => base[i] \in ToSet(cache)
        /\ \A k \in DOMAIN base[i].kids : base[i] \in ToSet(cache)
    BY <1>2 DEF IsBaseOf
  <2>2. base[i].id \in tops
    <3>1. page[i] \in LiveLevels(tops, ids)
      BY <1>1, <2>1
    <3>2. QED
      BY <2>1, <3>1 DEF LiveLevels
  <2>3. \A e \in ToSet(cache) : e \in EntryLevels(tops, ids)
    BY <1>1 DEF ToSet
  <2>4. ASSUME NEW k \in DOMAIN base[i].kids PROVE base[i].kids[k].id \in ids
    <3>1. base[i] \in EntryLevels(tops, ids)
      BY <2>1, <2>3
    <3>2. base[i].kids \in Seq(LeafEntries(ids))
      BY <3>1 DEF EntryLevels
    <3>3. base[i].kids[k] \in LeafEntries(ids)
      BY <3>2
    <3>4. QED
      BY <3>3 DEF LeafEntries
  <2>5. QED
    BY <2>1, <2>2, <2>3, <2>4
<1>5. Confirmed(base) \in Seq(EntryLevels(tops, ids))
  <2> DEFINE t == Confirmed(base)
  <2>1. t \in Seq(NodeEntries(Minted))
    BY <1>2, ConfirmedIs
  <2>2. \A e \in ToSet(t) : e.key # Ghost /\ \E i \in DOMAIN base : e = base[i]
    BY <1>2, ConfirmedIs
  <2> HIDE DEF t
  <2>3. \A i \in 1..Len(t) : t[i] \in EntryLevels(tops, ids)
    <3>1. \A i \in 1..Len(t) : t[i] \in ToSet(t)
      BY <2>1 DEF ToSet
    <3>2. QED
      BY <1>4, <2>2, <3>1
  <2>4. Len(t) \in Nat /\ t = [i \in 1..Len(t) |-> t[i]]
    BY <2>1
  <2>5. t \in Seq(EntryLevels(tops, ids))
    BY <2>3, <2>4, ListIsSeq
  <2>6. QED
    BY <2>5 DEF t
<1>6. ASSUME NEW p \in DOMAIN b PROVE b[p] \in IF p \in Tops(r) THEN tops ELSE ids
  <2>1. p \in Paths(r)
    BY <1>3 DEF IsInherited
  <2>2. ASSUME NEW i \in 1..Len(r), p = <<r[i].key>> PROVE p \in Tops(r) /\ b[p] \in tops
    <3>1. PICK x \in DOMAIN base : b[p] = base[x].id
      BY <1>3, <2>2 DEF IsInherited
    <3>2. QED
      BY <1>1, <1>4, <2>2, <3>1, TopsUnfold
  <2>3. ASSUME NEW i \in 1..Len(r), NEW k \in 1..Len(r[i].kids), p = <<r[i].key, r[i].kids[k].key>>
        PROVE  p \notin Tops(r) /\ b[p] \in ids
    <3>1. PICK x \in DOMAIN base : \E y \in DOMAIN base[x].kids : b[p] = base[x].kids[y].id
      BY <1>3, <2>3 DEF IsInherited
    <3>2. QED
      BY <1>1, <1>4, <2>3, <3>1, TopsUnfold
  <2>4. QED
    BY <1>1, <2>1, <2>2, <2>3, PathsUnfold
<1>7. QED
  BY <1>3, <1>5, <1>6 DEF b, r

\* and with calls in their turn: what goes is not kept, so its key is rendered anew, and
\* all of the top level is there before anything goes.
LEMMA BeginsInTurn ==
    ASSUME Types, NEW m, m = Matching(Base(page, cache), rendering), Diffable(m), Apart
    PROVE  Turn(Calls(Plan(m)), Inherited(m), Confirmed(m.top.old))
<1> DEFINE base == Base(page, cache)
           r == rendering
           b == Inherited(m)
           list == Calls(Plan(m))
           S == PlanCalls(rendering, Minted, Live)
<1>1. /\ r \in Renderings /\ page \in Seq(LiveNodes(Live)) /\ cache \in Seq(NodeEntries(Minted))
  BY DEF Types
<1>2. IsBase(base, Minted, Live) /\ IsBaseOf(base, page, cache)
  BY <1>1, BaseIs
<1>3. /\ m.top.old = base /\ m.top.new = r /\ IsInherited(b, m, r, Minted)
      /\ IsSchedule(list, m, r, Minted, Live) /\ IsMatching(m, base, r, Minted, Live)
  BY BeginsTyped DEF IsMatching
<1>4. UniqueKeys(base)
  BY <1>3 DEF Diffable
<1>5. DOMAIN r = 1..Len(r) /\ \A i \in 1..Len(r) : <<r[i].key>> \in Tops(r)
  BY <1>1, RenderingType, TopsUnfold DEF IsRendered
<1>6. list \in Seq(S) /\ \A l \in 1..Len(list) : list[l] \in S
  BY <1>3 DEF IsSchedule
<1> HIDE DEF base, r, b, list, S
\* A node of the top level is bound, or created before a call that needs the top level.
<1>7. ASSUME NEW l \in 1..Len(list), list[l] \in Clears(Live) \/ IsNested(list[l]),
             NEW i \in 1..Len(r)
      PROVE  AtHand(<<r[i].key>>, b, list, l)
  <2>1. CASE Stays(m, r, i)
    BY <1>3, <2>1 DEF IsInherited, AtHand
  <2>2. CASE ~Stays(m, r, i)
    BY <1>3, <1>7, <2>2 DEF IsSchedule, IsNested, AtHand
  <2>3. QED
    BY <2>1, <2>2
<1>8. ASSUME NEW l \in 1..Len(list), IsNested(list[l]) PROVE AtHand(list[l].under, b, list, l)
  <2>1. list[l].under \in Tops(r)
    BY <1>6, <1>8 DEF IsNested, S, PlanCalls, Clears, Appends, r
  <2>2. PICK i \in 1..Len(r) : list[l].under = <<r[i].key>>
    BY <1>1, <2>1, TopsUnfold
  <2>3. QED
    BY <1>7, <1>8, <2>2
<1>9. ASSUME NEW l \in 1..Len(list), Clearing(list[l]), NEW e \in ToSet(Confirmed(base)),
             e.id = list[l].id, <<e.key>> \in Tops(r)
      PROVE  AtHand(<<e.key>>, b, list, l) /\ <<e.key>> \notin DOMAIN b
  <2>1. list[l] \in Clears(Live)
    BY <1>6, <1>9 DEF Clearing, S, PlanCalls, Appends
  <2>2. PICK i \in 1..Len(r) : <<e.key>> = <<r[i].key>>
    BY <1>1, <1>9, TopsUnfold
  <2>3. e.key = r[i].key
    BY <2>2
  <2>4. AtHand(<<e.key>>, b, list, l)
    BY <1>7, <2>1, <2>2
  <2>5. PICK j \in DOMAIN base : e = base[j]
    BY <1>2, <1>9, ConfirmedIs
  <2>6. e.key # Ghost
    BY <1>2, <1>9, ConfirmedIs
  <2>7. GivenUp(m, e.id)
    BY <1>3, <1>9, <2>1 DEF IsSchedule
  <2>8. PICK tops, ids : Levels(tops, ids)
    BY DEF Apart
  <2>9. base[j].id \in tops /\ tops \cap ids = {}
    <3>1. j \in DOMAIN page /\ base[j].id = page[j].id
      BY <1>2 DEF IsBaseOf
    <3>2. page[j] \in LiveLevels(tops, ids)
      BY <2>8, <3>1 DEF Levels
    <3>3. QED
      BY <2>8, <3>1, <3>2 DEF Levels, LiveLevels
  \* It is no child of a block,
  <2>10. \E x \in DOMAIN base : Goes(m.top, x) /\ e.id = base[x].id
    <3>1. ASSUME NEW u \in DOMAIN m.kids, NEW y \in DOMAIN m.kids[u].old, e.id = m.kids[u].old[y].id
          PROVE  FALSE
      <4>1. /\ u \in 1..Len(r)
            /\ m.kids[u].old = IF r[u].key \in m.top.kept THEN NodeWith(base, r[u].key).kids
                               ELSE <<>>
        BY <1>3, <3>1 DEF IsMatching
      <4>2. m.kids[u].old = NodeWith(base, r[u].key).kids /\ r[u].key \in m.top.kept
        BY <3>1, <4>1
      <4>3. r[u].key \in CommonKeys(m.top.old, m.top.new) /\ IsDiff(m.top, Root, r, Minted, Live)
        BY <1>3, <4>2 DEF IsMatching, IsDiff
      <4>4. PICK x \in DOMAIN m.top.old : NodeWith(m.top.old, r[u].key) = m.top.old[x]
        <5> DEFINE top == m.top
                   key == r[u].key
        <5> HIDE DEF top, key
        <5>1. key \in CommonKeys(top.old, top.new) /\ IsDiff(top, Root, r, Minted, Live)
          BY <4>3 DEF top, key
        <5>2. \E x \in DOMAIN top.old : NodeWith(top.old, key) = top.old[x]
          BY <5>1, KeptEntry
        <5>3. QED
          BY <5>2 DEF top, key
      <4>5. x \in DOMAIN base /\ y \in DOMAIN base[x].kids /\ e.id = base[x].kids[y].id
        BY <1>3, <3>1, <4>2, <4>4
      <4>6. base[x] \in ToSet(cache)
        BY <1>2, <4>5 DEF IsBaseOf
      <4>7. base[x] \in EntryLevels(tops, ids)
        BY <2>8, <4>6 DEF Levels, ToSet
      <4>8. base[x].kids \in Seq(LeafEntries(ids))
        BY <4>7 DEF EntryLevels
      <4>9. base[x].kids[y] \in LeafEntries(ids)
        BY <4>5, <4>8
      <4>10. e.id \in ids
        BY <4>5, <4>9 DEF LeafEntries
      <4>11. QED
        BY <2>5, <2>9, <4>10
    <3>2. QED
      BY <1>3, <2>7, <3>1 DEF GivenUp
  \* so it is a sibling that is neither kept nor moved.
  <2>11. PICK x \in DOMAIN base : Goes(m.top, x) /\ e.id = base[x].id
    BY <2>10
  <2>12. base[x] = e
    BY <1>2, <2>5, <2>11 DEF IsBaseOf
  <2>13. ASSUME <<r[i].key>> \in DOMAIN b PROVE FALSE
    <3>1. Stays(m, r, i)
      BY <1>3, <2>13 DEF IsInherited
    <3>2. r[i].key \notin m.top.kept
      BY <1>3, <2>3, <2>11, <2>12 DEF Goes
    <3>3. IsMoved(base, m.top.kept, r[i])
      BY <1>3, <3>1, <3>2 DEF Stays
    <3>4. PICK a \in ToSet(base) : Matches(a, r[i]) /\ r[i].kind = "page"
      BY <3>3 DEF IsMoved
    <3>5. PICK z \in DOMAIN base : a = base[z]
      BY <3>4 DEF ToSet
    <3>6. base[z].key = base[x].key /\ base[x].key # Ghost
      BY <2>3, <2>6, <2>12, <3>4, <3>5 DEF Matches
    <3>7. a = e
      BY <1>4, <2>12, <3>5, <3>6 DEF UniqueKeys
    <3>8. Matches(base[x], r[i]) /\ r[i] \in ToSet(m.top.new) /\ base[x].kind = "page"
      BY <1>3, <1>5, <2>12, <3>4, <3>7 DEF Matches, ToSet
    <3>9. QED
      BY <1>3, <2>11, <3>8 DEF Goes
  <2>14. QED
    BY <2>2, <2>4, <2>13
<1>10. Turn(list, b, Confirmed(base))
  BY <1>8, <1>9 DEF Turn, r
<1>11. QED
  BY <1>3, <1>10 DEF list, b

----------------------------------------------------------------------------
(* Every step keeps the order *)

\* The second invariant: levels and turns.
Order == Inv /\ Apart /\ InTurn

\* No sync is under way: only the page and the cache have ids.
LEMMA EndsInOrder ==
    ASSUME Inv', calls' = <<>>, bound' = <<>>, work' = <<>>,
           NEW tops, NEW ids, tops \subseteq Live', ids \subseteq Minted', tops \cap ids = {},
           page' \in Seq(LiveLevels(tops, ids)), cache' \in Seq(EntryLevels(tops, ids))
    PROVE  Order'
<1>1. calls' = <<>> /\ bound' = <<>> /\ work' = <<>>
  OBVIOUS
<1>2. DOMAIN <<>> = {} /\ \A S : <<>> \in Seq(S)
  OBVIOUS
<1>3. Levels(tops, ids)'
  BY <1>1, <1>2 DEF Levels
<1>4. InTurn'
  BY <1>1, <1>2 DEF InTurn, Turn
<1>5. QED
  BY <1>3, <1>4 DEF Order, Apart

\* A sync ends and nothing has landed.
LEMMA QuietEndsInOrder ==
    ASSUME Order, Rejected \/ Stop
    PROVE  Order'
<1>1. Ends("failed") /\ UNCHANGED <<page, cache, nextId>>
  BY DEF Rejected, Stop
<1>2. Inv'
  BY EndsQuietlyTyped DEF Order
<1>3. PICK tops, ids : Levels(tops, ids)
  BY DEF Order, Apart
<1>4. Minted' = Minted /\ Live' = Live
  BY <1>1 DEF Minted, Live
<1>5. QED
  BY <1>1, <1>2, <1>3, <1>4, EndsInOrder DEF Ends, Levels

\* The finished sync saves every id at its level.
LEMMA FinishInOrder ==
    ASSUME Order, Finish
    PROVE  Order'
<1>1. Ends("done") /\ cache' = Snapshot /\ UNCHANGED <<page, nextId>>
  BY DEF Finish
<1>2. Inv' /\ DOMAIN bound = Paths(rendering) /\ rendering \in Renderings
  BY FinishTyped DEF Order, Inv, Types
<1>3. PICK tops, ids : Levels(tops, ids)
  BY DEF Order, Apart
<1>4. Snapshot \in Seq(EntryLevels(tops, ids))
  <2>1. Tops(rendering) \subseteq Paths(rendering)
    BY <1>2, TopsUnfold
  <2>2. /\ \A p \in Tops(rendering) : bound[p] \in tops
        /\ \A p \in Paths(rendering) \ Tops(rendering) : bound[p] \in ids
    BY <1>2, <1>3, <2>1 DEF Levels
  <2>3. QED
    BY <1>2, <2>2, SnapshotType
<1>5. Minted' = Minted /\ Live' = Live
  BY <1>1 DEF Minted, Live
<1>6. QED
  BY <1>1, <1>2, <1>3, <1>4, <1>5, EndsInOrder DEF Ends, Levels

\* A sync begins.
LEMMA BeginInOrder ==
    ASSUME Order, NEW m, m = Matching(Base(page, cache), rendering), Begin(m)
    PROVE  Order'
<1>1. /\ Diffable(m) /\ calls' = Calls(Plan(m)) /\ bound' = Inherited(m)
      /\ work' = Confirmed(m.top.old) /\ UNCHANGED <<page, cache, rendering, nextId>>
  BY DEF Begin
<1>2. Inv' /\ Types /\ Apart
  BY BeginTyped DEF Order, Inv
<1>3. PICK tops, ids : Levels(tops, ids)
  BY <1>2 DEF Apart
<1>4. Minted' = Minted /\ Live' = Live
  BY <1>1 DEF Minted, Live
<1>5. Levels(tops, ids)'
  <2>1. /\ Confirmed(m.top.old) \in Seq(EntryLevels(tops, ids))
        /\ \A p \in DOMAIN Inherited(m) :
                Inherited(m)[p] \in IF p \in Tops(rendering) THEN tops ELSE ids
    BY <1>1, <1>2, <1>3, BeginsApart
  <2>2. QED
    BY <1>1, <1>3, <1>4, <2>1 DEF Levels
<1>6. InTurn'
  <2>1. Turn(Calls(Plan(m)), Inherited(m), Confirmed(m.top.old))
    BY <1>1, <1>2, BeginsInTurn
  <2>2. QED
    BY <1>1, <2>1 DEF InTurn, Turn
<1>7. QED
  BY <1>2, <1>5, <1>6 DEF Order, Apart

\* A call that is next has its parent.
LEMMA ParentIsBound ==
    ASSUME Types, InTurn, Calling, IsNested(Head(calls))
    PROVE  Head(calls).under \in DOMAIN bound
<1>1. Head(calls) = calls[1] /\ 1 \in 1..Len(calls) /\ 1..(1 - 1) = {}
  BY TailIs DEF Types, Calling
<1>2. AtHand(calls[1].under, bound, calls, 1)
  BY <1>1 DEF InTurn, Turn
<1>3. QED
  BY <1>1, <1>2 DEF AtHand

\* A call lands at the level of its parent, and the next one is in its turn.
LEMMA SendInOrder ==
    ASSUME Order, Send
    PROVE  Order'
<1> DEFINE call == Head(calls)
           next == nextId + Len(Created(call))
<1>1. /\ Calling /\ UNCHANGED rendering /\ page' = Landed(page, call, nextId)
      /\ work' = Recorded(work, call, nextId) /\ cache' \in {work', cache}
      /\ bound' = Binds(call, nextId) /\ nextId' = next /\ calls' = Tail(calls)
  BY DEF Send
<1>2. Inv' /\ Types /\ InTurn /\ nextId \in Nat /\ nextId >= nextId
  BY SendTyped DEF Order, Inv, Types
<1>3. next \in Nat /\ next >= nextId
  BY <1>1, <1>2, LandsOnPage DEF Order
<1>4. IsNested(call) => call.under \in DOMAIN bound
  BY <1>1, <1>2, ParentIsBound
<1>5. PICK tops, ids : Levels(tops, ids)
  BY DEF Order, Apart
<1> HIDE DEF call, next
<1>6. PICK moreTops, more : Grown(moreTops, more, tops, ids, next, IsNested(call))
  BY <1>2, <1>3, <1>5, LevelsGrow
<1>7. page \in Seq(LiveLevels(moreTops, more))
  BY <1>5, <1>6, MoreIds DEF Levels, Grown
<1>8. Levels(moreTops, more)'
  BY <1>1, <1>2, <1>4, <1>5, <1>6, <1>7, GoesOnApart DEF call, next
<1>9. InTurn'
  <2>1. Turn(Tail(calls), Binds(call, nextId), Recorded(work, call, nextId))
    BY <1>1, <1>2, TurnGoesOn DEF call
  <2>2. QED
    BY <1>1, <2>1 DEF InTurn, Turn
<1>10. QED
  BY <1>2, <1>8, <1>9 DEF Order, Apart

\* The first of two landings.
LEMMA FirstLanding ==
    ASSUME Types, InTurn, Calling, NEW tops, NEW ids, Levels(tops, ids),
           NEW moreTops, NEW more, NEW next \in Nat, next >= nextId + Len(Created(Head(calls))),
           Grown(moreTops, more, tops, ids, next, IsNested(Head(calls)))
    PROVE  Landed(page, Head(calls), nextId) \in Seq(LiveLevels(moreTops, more))
<1> DEFINE call == Head(calls)
<1>1. call \in PlanCalls(rendering, Minted, Live) /\ nextId \in Nat
  BY TailIs DEF Types, Calling
<1>2. IsNested(call) => call.under \in DOMAIN bound
  BY ParentIsBound
<1>3. next >= nextId + Len(Created(call)) /\ Grown(moreTops, more, tops, ids, next, IsNested(call))
  OBVIOUS
<1> HIDE DEF call
<1>4. Len(Created(call)) \in Nat
  BY <1>1, CreatedType DEF Types
<1>5. \A k \in 1..Len(Created(call)) : nextId + k - 1 \in nextId..(next - 1)
  BY <1>1, <1>3, <1>4
<1>6. \A k \in 1..Len(Created(call)) :
            nextId + k - 1 \in IF IsNested(call) THEN more ELSE moreTops
  BY <1>3, <1>5 DEF Grown
<1>7. \A p \in DOMAIN bound : bound[p] \in IF p \in Tops(rendering) THEN moreTops ELSE more
  BY DEF Levels, Grown
<1>8. /\ page \in Seq(LiveLevels(moreTops, more)) /\ cache \in Seq(EntryLevels(moreTops, more))
  BY MoreIds DEF Levels, Grown
<1>9. QED
  BY <1>1, <1>2, <1>6, <1>7, <1>8, LandsOnLevel DEF call

\* So it is with a call that lands twice.
LEMMA SendTwiceInOrder ==
    ASSUME Order, SendTwice
    PROVE  Order'
<1> DEFINE call == Head(calls)
           again == nextId + Len(Created(call))
           next == again + Len(Created(call))
           tree == Landed(page, call, nextId)
<1>1. /\ Calling /\ UNCHANGED rendering /\ page' = Landed(tree, call, again)
      /\ work' = Recorded(work, call, again) /\ cache' \in {work', cache}
      /\ bound' = Binds(call, again) /\ nextId' = next /\ calls' = Tail(calls)
  BY DEF SendTwice
<1>2. Inv' /\ Types /\ InTurn /\ nextId \in Nat
  BY SendTwiceTyped DEF Order, Inv, Types
<1>3. again \in Nat /\ again >= nextId /\ next \in Nat /\ next >= again /\ next >= nextId
  <2>1. call \in PlanCalls(rendering, Minted, Live)
    BY <1>1, <1>2, TailIs DEF Types, Calling
  <2> HIDE DEF call
  <2>2. Len(Created(call)) \in Nat
    BY <1>2, <2>1, CreatedType DEF Types
  <2>3. QED
    BY <1>2, <2>2
<1>4. IsNested(call) => call.under \in DOMAIN bound
  BY <1>1, <1>2, ParentIsBound
<1>5. PICK tops, ids : Levels(tops, ids)
  BY DEF Order, Apart
<1> HIDE DEF next
<1>6. PICK moreTops, more : Grown(moreTops, more, tops, ids, next, IsNested(call))
  BY <1>2, <1>3, <1>5, LevelsGrow
<1>7. tree \in Seq(LiveLevels(moreTops, more))
  BY <1>1, <1>2, <1>3, <1>5, <1>6, FirstLanding
<1> HIDE DEF tree, again, call
<1>8. nextId' = again + Len(Created(call))
  BY <1>1 DEF next
<1>9. Levels(moreTops, more)'
  BY <1>1, <1>2, <1>3, <1>4, <1>5, <1>6, <1>7, <1>8, GoesOnApart DEF call
<1>10. InTurn'
  <2>1. Turn(Tail(calls), Binds(call, again), Recorded(work, call, again))
    BY <1>1, <1>2, <1>3, TurnGoesOn DEF call
  <2>2. QED
    BY <1>1, <2>1 DEF InTurn, Turn
<1>11. QED
  BY <1>2, <1>9, <1>10 DEF Order, Apart

\* A call lands and the sync ends.
LEMMA LoseAnswerInOrder ==
    ASSUME Order, LoseAnswer
    PROVE  Order'
<1> DEFINE call == Head(calls)
           next == nextId + Len(Created(call))
           tree == Landed(page, call, nextId)
<1>1. Calling /\ page' = tree /\ nextId' = next /\ Ends("failed") /\ UNCHANGED cache
  BY DEF LoseAnswer
<1>2. Inv' /\ Types /\ InTurn /\ nextId \in Nat
  BY LoseAnswerTyped DEF Order, Inv, Types
<1>3. next \in Nat /\ next >= nextId
  BY <1>1, LandsOnPage DEF Order
<1>4. PICK tops, ids : Levels(tops, ids)
  BY DEF Order, Apart
<1>5. PICK moreTops, more : Grown(moreTops, more, tops, ids, next, IsNested(call))
  <2> HIDE DEF call, next
  <2> QED
    BY <1>2, <1>3, <1>4, LevelsGrow
<1>6. tree \in Seq(LiveLevels(moreTops, more))
  <2>1. next >= nextId + Len(Created(Head(calls)))
    BY <1>3
  <2> HIDE DEF next
  <2>2. QED
    BY <1>1, <1>2, <1>3, <1>4, <1>5, <2>1, FirstLanding
<1> HIDE DEF tree, next, call
<1>7. cache \in Seq(EntryLevels(moreTops, more))
  BY <1>4, <1>5, MoreIds DEF Levels, Grown
<1>8. Minted' = Before(next) /\ Live' = Before(next) \cup Foreign
  BY <1>1 DEF Minted, Live, Before
<1>9. moreTops \subseteq Live' /\ more \subseteq Minted' /\ moreTops \cap more = {}
  BY <1>5, <1>8 DEF Grown
<1>10. page' \in Seq(LiveLevels(moreTops, more)) /\ cache' \in Seq(EntryLevels(moreTops, more))
  BY <1>1, <1>6, <1>7
<1>11. QED
  BY <1>1, <1>2, <1>9, <1>10, EndsInOrder DEF Ends

\* Steps that leave the sync alone, and add foreign blocks to the page at most.
LEMMA AsideInOrder ==
    ASSUME Order, Inv', UNCHANGED <<rendering, syncVars, nextId>>,
           NEW tops, NEW ids, Levels(tops, ids),
           page' \in Seq(LiveLevels(tops \cup Foreign, ids)),
           cache' \in {cache, <<>>}
    PROVE  Order'
<1> DEFINE moreTops == tops \cup Foreign
<1>1. Minted' = Minted /\ Live' = Live /\ UNCHANGED <<calls, bound, work>>
  BY DEF Minted, Live, syncVars
<1>2. nextId \in Nat /\ Foreign \cap Nat = {}
  BY PageAssumption DEF ConstantsAssumption, Order, Inv, Types
<1>3. tops \subseteq moreTops /\ moreTops \subseteq Live' /\ moreTops \cap ids = {}
  <2>1. tops \subseteq moreTops /\ moreTops \subseteq Live'
    BY <1>1 DEF Levels, Live
  <2>2. ids \subseteq Nat
    BY <1>2 DEF Levels, Minted
  <2>3. tops \cap ids = {}
    BY DEF Levels
  <2>4. QED
    BY <1>2, <2>1, <2>2, <2>3
<1>4. page' \in Seq(LiveLevels(moreTops, ids))
  OBVIOUS
<1> HIDE DEF moreTops
<1>5. cache \in Seq(EntryLevels(moreTops, ids)) /\ work \in Seq(EntryLevels(moreTops, ids))
  BY <1>3, MoreIds DEF Levels
<1>6. <<>> \in Seq(EntryLevels(moreTops, ids))
  OBVIOUS
<1>7. cache' \in Seq(EntryLevels(moreTops, ids))
  BY <1>5, <1>6
<1>8. \A p \in DOMAIN bound' : bound'[p] \in IF p \in Tops(rendering') THEN moreTops ELSE ids
  BY <1>1, <1>3 DEF Levels
<1>9. ids \subseteq Minted' /\ work' \in Seq(EntryLevels(moreTops, ids))
  BY <1>1, <1>5 DEF Levels
<1>10. Levels(moreTops, ids)'
  BY <1>3, <1>4, <1>7, <1>8, <1>9 DEF Levels
<1>11. InTurn'
  BY <1>1 DEF Order, InTurn, Turn
<1>12. QED
  BY <1>10, <1>11 DEF Order, Apart

\* Others add, remove and move children of the page.
LEMMA EditInOrder ==
    ASSUME Order, Edit
    PROVE  Order'
<1>1. PICK tops, ids : Levels(tops, ids)
  BY DEF Order, Apart
<1> DEFINE N == LiveLevels(tops \cup Foreign, ids)
           L == LiveLeaves(ids)
<1>2. page \in Seq(N)
  <2>1. tops \subseteq tops \cup Foreign
    OBVIOUS
  <2>2. QED
    BY <1>1, <2>1, MoreIds DEF Levels
<1>3. AreNodes(N, L) /\ LiveLeaves(tops \cup Foreign) \subseteq N
  BY LiveAreNodes
<1>4. \A u \in Foreign : Block([kind |-> "block", hash |-> Ghost], u)
                            \in LiveLeaves(tops \cup Foreign)
  BY DEF Block, LiveLeaves, Kinds
<1>5. \A u \in Foreign : Block([kind |-> "block", hash |-> Ghost], u) \in N
  BY <1>3, <1>4
<1> HIDE DEF N, L
<1>6. \A id : Without(page, id) \in Seq(N)
  BY <1>2, <1>3, WithoutType
<1>7. page' \in Seq(N)
  <2>1. CASE \E n \in ToSet(page) : page' = Without(page, n.id)
    BY <1>6, <2>1
  <2>2. CASE \E u \in Foreign \ Ids(page) :
                page' = Append(page, Block([kind |-> "block", hash |-> Ghost], u))
    BY <1>2, <1>5, <2>2, AppendIs
  <2>3. CASE \E n \in ToSet(page) : page' = <<n>> \o Without(page, n.id)
    <3>1. PICK n \in ToSet(page) : page' = <<n>> \o Without(page, n.id)
      BY <2>3
    <3>2. n \in N
      BY <1>2 DEF ToSet
    <3>3. <<n>> \in Seq(N)
      BY <3>2
    <3>4. QED
      BY <1>6, <3>1, <3>3, JoinedIs
  <2>4. QED
    BY <2>1, <2>2, <2>3 DEF Edit
<1>8. Inv' /\ UNCHANGED <<cache, rendering, syncVars, nextId>>
  BY EditTyped DEF Edit, Order
<1>9. QED
  BY <1>1, <1>7, <1>8, AsideInOrder DEF N

\* The page stays as it is.
LEMMA OtherStepsInOrder ==
    ASSUME Order, \/ LoseCache
                  \/ \E m : Refuse(m)
                  \/ UNCHANGED vars
    PROVE  Order'
<1>1. PICK tops, ids : Levels(tops, ids)
  BY DEF Order, Apart
<1>2. Inv'
  BY LoseCacheTyped, RefuseTyped, StutterTyped DEF Order
<1>3. UNCHANGED <<page, rendering, syncVars, nextId>> /\ cache' \in {cache, <<>>}
  BY DEF LoseCache, Refuse, vars
<1>4. page' \in Seq(LiveLevels(tops \cup Foreign, ids))
  <2>1. tops \subseteq tops \cup Foreign
    OBVIOUS
  <2>2. QED
    BY <1>1, <1>3, <2>1, MoreIds DEF Levels
<1>5. QED
  BY <1>1, <1>2, <1>3, <1>4, AsideInOrder

\* No sync is under way when the rendering changes.
LEMMA RenderInOrder ==
    ASSUME Order, NEW r \in Renderings, Render(r)
    PROVE  Order'
<1>1. PICK tops, ids : Levels(tops, ids)
  BY DEF Order, Apart
<1>2. Inv'
  BY RenderTyped DEF Order
<1>3. phase = "idle" /\ UNCHANGED <<page, cache, calls, bound, work, nextId>>
  BY DEF Render, syncVars
<1>4. calls = <<>> /\ bound = <<>> /\ work = <<>>
  BY <1>3 DEF Order, Inv, Idle
<1>5. Minted' = Minted /\ Live' = Live
  BY <1>3 DEF Minted, Live
<1>6. QED
  BY <1>1, <1>2, <1>3, <1>4, <1>5, EndsInOrder DEF Levels

\* At first only a foreign block is there.
LEMMA InitInOrder ==
    ASSUME Init
    PROVE  Order
<1>1. /\ cache = <<>> /\ calls = <<>> /\ bound = <<>> /\ work = <<>> /\ nextId = 1
  BY DEF Init
<1>2. DOMAIN <<>> = {} /\ \A S : <<>> \in Seq(S)
  OBVIOUS
<1>3. page \in Seq(LiveLevels(Foreign, {}))
  <2>1. \A u \in Foreign : Block([kind |-> "block", hash |-> Ghost], u) \in LiveLeaves(Foreign)
    BY DEF Block, LiveLeaves, Kinds
  <2>2. LiveLeaves(Foreign) \subseteq LiveLevels(Foreign, {})
    BY LiveAreNodes
  <2>3. \A u \in Foreign : Block([kind |-> "block", hash |-> Ghost], u) \in LiveLevels(Foreign, {})
    BY <2>1, <2>2
  <2>4. \/ page = <<>>
        \/ \E u \in Foreign : page = <<Block([kind |-> "block", hash |-> Ghost], u)>>
    BY DEF Init
  <2>5. \A n \in LiveLevels(Foreign, {}) : <<n>> \in Seq(LiveLevels(Foreign, {}))
    OBVIOUS
  <2>6. QED
    BY <1>2, <2>3, <2>4, <2>5
<1>4. Levels(Foreign, {})
  BY <1>1, <1>2, <1>3 DEF Levels, Live
<1>5. InTurn
  BY <1>1, <1>2 DEF InTurn, Turn
<1>6. QED
  BY <1>4, <1>5, InitTyped DEF Order, Apart

\* Every step keeps the order.
LEMMA StepInOrder ==
    ASSUME Order, [Next]_vars
    PROVE  Order'
<1>1. CASE \E r \in Renderings : Render(r)
  BY <1>1, RenderInOrder
<1>2. CASE Sync
  <2>1. PICK m \in {Matching(Base(page, cache), rendering)} : Begin(m) \/ Refuse(m)
    BY <1>2 DEF Sync
  <2>2. QED
    BY <2>1, BeginInOrder, OtherStepsInOrder
<1>3. CASE Send
  BY <1>3, SendInOrder
<1>4. CASE Rejected \/ Stop
  BY <1>4, QuietEndsInOrder
<1>5. CASE Finish
  BY <1>5, FinishInOrder
<1>6. CASE LoseAnswer
  BY <1>6, LoseAnswerInOrder
<1>7. CASE SendTwice
  BY <1>7, SendTwiceInOrder
<1>8. CASE Edit
  BY <1>8, EditInOrder
<1>9. CASE LoseCache \/ UNCHANGED vars
  BY <1>9, OtherStepsInOrder
<1>10. QED
  BY <1>1, <1>2, <1>3, <1>4, <1>5, <1>6, <1>7, <1>8, <1>9 DEF Next, Step

\* The invariant of the order of calls always holds.
LEMMA OrderAlwaysHolds == Spec => []Order
BY InitInOrder, StepInOrder, PTL DEF Spec

\* Only a removal takes a block off a list.
LEMMA PlacedKeeps ==
    ASSUME NEW S, NEW list \in Seq(S), NEW new \in Seq(S), NEW at, NEW anchor, NEW j \in 1..Len(list)
    PROVE  list[j] \in ToSet(Placed(list, new, at, anchor))
<1> DEFINE Hit == \E i \in DOMAIN list : list[i].id = anchor
           i == CHOOSE i \in DOMAIN list : list[i].id = anchor
           a == SubSeq(list, 1, i)
           z == SubSeq(list, i + 1, Len(list))
<1>1. \A s, t \in Seq(S) : /\ \A k \in 1..Len(s) : s[k] \in ToSet(s \o t)
                           /\ \A k \in 1..Len(t) : t[k] \in ToSet(s \o t)
  <2> SUFFICES ASSUME NEW s \in Seq(S), NEW t \in Seq(S)
               PROVE  /\ \A k \in 1..Len(s) : s[k] \in ToSet(s \o t)
                      /\ \A k \in 1..Len(t) : t[k] \in ToSet(s \o t)
    OBVIOUS
  <2>1. /\ s \o t \in Seq(S) /\ Len(s \o t) = Len(s) + Len(t)
        /\ \A k \in 1..Len(s) : (s \o t)[k] = s[k]
        /\ \A k \in 1..Len(t) : (s \o t)[Len(s) + k] = t[k]
        /\ Len(s) \in Nat /\ Len(t) \in Nat
    BY JoinedIs
  <2> DEFINE st == s \o t
  <2>2. \A k \in 1..Len(st) : st[k] \in ToSet(st)
    <3>1. st \in Seq(S)
      BY <2>1
    <3> HIDE DEF st
    <3>2. QED
      BY <3>1 DEF ToSet
  <2>3. /\ \A k \in 1..Len(s) : k \in 1..Len(st)
        /\ \A k \in 1..Len(t) : Len(s) + k \in 1..Len(st)
    BY <2>1
  <2> HIDE DEF st
  <2>4. QED
    BY <2>1, <2>2, <2>3 DEF st
<1>2. list[j] \in ToSet(new \o list) /\ list[j] \in ToSet(list \o new)
  BY <1>1
<1>3. ASSUME Hit PROVE list[j] \in ToSet(a \o new \o z)
  <2>1. i \in 1..Len(list) /\ Len(list) \in Nat
    BY <1>3
  <2> HIDE DEF i
  <2>2. /\ a \in Seq(S) /\ z \in Seq(S) /\ Len(a) = i /\ Len(z) = Len(list) - i
        /\ \A k \in 1..i : a[k] = list[k]
        /\ \A k \in 1..(Len(list) - i) : z[k] = list[i + k]
    BY <2>1
  <2> HIDE DEF a, z
  <2>3. a \o new \in Seq(S)
    BY <2>2
  <2>4. CASE j <= i
    <3>1. j \in 1..Len(a) /\ a[j] = list[j]
      BY <2>1, <2>2, <2>4
    <3>2. a[j] \in ToSet(a \o new)
      BY <1>1, <2>2, <3>1
    <3>3. PICK k \in 1..Len(a \o new) : (a \o new)[k] = a[j]
      BY <2>3, <3>2 DEF ToSet
    <3>4. QED
      BY <1>1, <2>2, <2>3, <3>1, <3>3
  <2>5. CASE j > i
    <3>1. j - i \in 1..Len(z) /\ z[j - i] = list[j]
      <4>1. j - i \in 1..(Len(list) - i) /\ i + (j - i) = j
        BY <2>1, <2>5
      <4>2. QED
        BY <2>2, <4>1
    <3>2. QED
      BY <1>1, <2>2, <2>3, <3>1
  <2>6. QED
    BY <2>1, <2>4, <2>5
<1> HIDE DEF a, z
<1>4. Placed(list, new, at, anchor)
        \in {new \o list, list \o new} \cup (IF Hit THEN {a \o new \o z} ELSE {})
  BY DEF Placed, a, z
<1>5. QED
  BY <1>2, <1>3, <1>4

----------------------------------------------------------------------------
(* Blocks go when their copies are there *)

HasTop(tree, id) == \E n \in ToSet(tree) : n.id = id

\* No call but the removal of a block takes it off the page.
LEMMA TopsPersist ==
    ASSUME NEW tops, NEW ids, NEW tree \in Seq(LiveLevels(tops, ids)),
           NEW call \in PlanCalls(rendering, Minted, Live), NEW first, NEW i \in 1..Len(tree),
           ~(Clearing(call) /\ call.id = tree[i].id)
    PROVE  HasTop(Landed(tree, call, first), tree[i].id)
<1> DEFINE N == LiveLevels(tops, ids)
           t == Landed(tree, call, first)
<1>1. DOMAIN tree = 1..Len(tree) /\ Len(tree) \in Nat /\ \A j \in 1..Len(tree) : tree[j] \in N
  OBVIOUS
<1>2. \A n \in N : /\ \A s : [n EXCEPT !.kids = s].id = n.id
                   /\ \A s : [n EXCEPT !.hash = s].id = n.id
                   /\ \A s, q : [[n EXCEPT !.hash = s] EXCEPT !.kids = q].id = n.id
  BY DEF LiveLevels
<1>3. ASSUME NEW s, \E k \in DOMAIN s : s[k].id = tree[i].id PROVE HasTop(s, tree[i].id)
  BY <1>3 DEF HasTop, ToSet
<1> HIDE DEF N
<1>4. CASE \E p \in Tops(rendering) \cup {Root} : call \in Appends(rendering, p)
  <2>1. PICK p \in Tops(rendering) \cup {Root} : call \in Appends(rendering, p)
    BY <1>4
  <2>2. call.op = "append" /\ call.nodes \in Seq(Below(rendering, p))
    BY <2>1 DEF Appends
  <2> DEFINE new == [k \in DOMAIN call.nodes |->
                        Block(NodeAt(rendering, call.nodes[k]), first + k - 1)]
             kids == Placed(Under(tree, Parent(call)), new, call.at, Anchor(call))
             S == N \cup {new[k] : k \in DOMAIN call.nodes}
  <2>3. t = WithUnder(tree, Parent(call), kids)
    BY <2>2 DEF Landed
  <2>4. CASE Parent(call) = Page
    <3>1. new \in Seq(S)
      <4>1. DOMAIN call.nodes = 1..Len(call.nodes) /\ Len(call.nodes) \in Nat
        BY <2>2
      <4>2. \A k \in 1..Len(call.nodes) : new[k] \in S
        BY <4>1
      <4>3. new = [k \in 1..Len(call.nodes) |-> new[k]]
        BY <4>1
      <4> HIDE DEF new, S
      <4>4. QED
        BY <4>1, <4>2, <4>3, ListIsSeq
    <3>2. tree \in Seq(S)
      <4>1. tree \in Seq(N) /\ N \subseteq S
        BY DEF N
      <4> HIDE DEF S
      <4>2. QED
        BY <4>1, SeqSubset
    <3>3. t = Placed(tree, new, call.at, Anchor(call))
      BY <2>3, <2>4 DEF Under, WithUnder
    <3> HIDE DEF new, S
    <3>4. tree[i] \in ToSet(t)
      BY <3>1, <3>2, <3>3, PlacedKeeps
    <3>5. QED
      BY <3>4 DEF HasTop
  <2>5. CASE Parent(call) # Page
    <3> HIDE DEF kids
    <3>1. t = [j \in DOMAIN tree |-> IF tree[j].id = Parent(call)
                                     THEN [tree[j] EXCEPT !.kids = kids] ELSE tree[j]]
      BY <2>3, <2>5 DEF WithUnder
    <3> HIDE DEF t
    <3>2. i \in DOMAIN t /\ t[i].id = tree[i].id
      BY <1>1, <1>2, <3>1
    <3>3. QED
      BY <1>3, <3>2 DEF t
  <2>6. QED
    BY <2>4, <2>5
<1>5. CASE call.op = "create"
  <2> DEFINE b == Block(NodeAt(rendering, call.node), first)
  <2>1. t = Append(tree, b)
    BY <1>5 DEF Landed
  <2> HIDE DEF b
  <2>2. i \in DOMAIN t /\ t[i] = tree[i]
    BY <1>1, <2>1
  <2>3. QED
    BY <1>3, <2>2
<1>6. CASE call.op \in {"update", "rename"}
  <2> DEFINE New(n) == IF n.id = call.id THEN [n EXCEPT !.hash = call.hash] ELSE n
  <2>1. t = [j \in DOMAIN tree |->
                [New(tree[j]) EXCEPT !.kids = [k \in DOMAIN @ |-> New(@[k])]]]
    BY <1>6 DEF Landed, Rehashed
  <2>2. \A s : [New(tree[i]) EXCEPT !.kids = s].id = tree[i].id
    BY <1>1, <1>2
  <2>3. i \in DOMAIN t /\ t[i].id = tree[i].id
    <3> HIDE DEF t
    <3>1. t[i] = [New(tree[i]) EXCEPT !.kids = [k \in DOMAIN New(tree[i]).kids |->
                                                    New(New(tree[i]).kids[k])]]
      BY <1>1, <2>1
    <3> HIDE DEF New
    <3>2. QED
      BY <1>1, <2>1, <2>2, <3>1
  <2>4. QED
    BY <1>3, <2>3
<1>7. CASE Clearing(call)
  <2> DEFINE places == {j \in DOMAIN tree : tree[j].id # call.id}
             top == Picked(tree, places)
             Drop(list) == Picked(list, {j \in DOMAIN list : list[j].id # call.id})
  <2>1. t = Without(tree, call.id)
    BY <1>7 DEF Landed, Clearing
  <2>2. t = [k \in DOMAIN top |-> [top[k] EXCEPT !.kids = Drop(@)]]
    BY <2>1 DEF Without
  <2>3. i \in places /\ places \in SUBSET (1..Len(tree))
    BY <1>1, <1>7
  <2> HIDE DEF places, Drop
  <2>4. PICK pos : IsPicking(top, pos, tree, places)
    BY <1>1, <2>3, PickedUnfolds
  <2>5. PICK k \in DOMAIN top : top[k] = tree[i]
    BY <2>3, <2>4 DEF IsPicking
  <2> HIDE DEF top, t
  <2>6. k \in DOMAIN t /\ t[k].id = tree[i].id
    BY <1>1, <1>2, <2>2, <2>5, ZenonT(40)
  <2>7. QED
    BY <1>3, <2>6 DEF t
<1>8. CASE call.op = "move"
  <2>1. t = tree
    BY <1>8 DEF Landed
  <2>2. QED
    BY <1>1, <1>3, <2>1
<1>9. QED
  BY <1>4, <1>5, <1>6, <1>7, <1>8 DEF PlanCalls, Clears, Clearing

\* The step of the theorem below.
LEMMA SendLandsCopiesFirst ==
    ASSUME Order, Send, NEW b \in ToSet(work), b.id \in Ids(page), b.id \notin Ids(page'),
           NEW c \in ToSet(rendering), c.key = b.key
    PROVE  <<b.key>> \in DOMAIN bound /\ bound[<<b.key>>] # b.id
<1> DEFINE call == Head(calls)
<1>1. Calling /\ Types /\ InTurn /\ page' = Landed(page, call, nextId)
  BY DEF Send, Order, Inv
<1>2. PICK tops, ids : Levels(tops, ids)
  BY DEF Order, Apart
<1>3. /\ page \in Seq(LiveLevels(tops, ids)) /\ work \in Seq(EntryLevels(tops, ids))
      /\ tops \cap ids = {}
  BY <1>2 DEF Levels
<1>4. call \in PlanCalls(rendering, Minted, Live) /\ call = calls[1] /\ 1 \in 1..Len(calls)
  BY <1>1, TailIs DEF Types, Calling
<1> HIDE DEF call
<1>5. b.id \in tops
  <2>1. b \in EntryLevels(tops, ids)
    BY <1>3 DEF ToSet
  <2>2. QED
    BY <2>1 DEF EntryLevels
<1>6. PICK i \in 1..Len(page) : page[i].id = b.id
  <2>1. \A n \in ToSet(page) : n \in LiveLevels(tops, ids)
    BY <1>3 DEF ToSet
  <2>2. \A n \in ToSet(page) : \A k \in ToSet(n.kids) : k.id \in ids
    <3> SUFFICES ASSUME NEW n \in ToSet(page), NEW k \in ToSet(n.kids) PROVE k.id \in ids
      OBVIOUS
    <3>1. n.kids \in Seq(LiveLeaves(ids))
      BY <2>1 DEF LiveLevels
    <3>2. k \in LiveLeaves(ids)
      BY <3>1 DEF ToSet
    <3>3. QED
      BY <3>2 DEF LiveLeaves
  <2>3. b.id \notin ids
    BY <1>3, <1>5
  <2>4. \E n \in ToSet(page) : n.id = b.id
    BY <2>2, <2>3 DEF Ids
  <2>5. QED
    BY <1>3, <2>4 DEF ToSet
<1>7. Clearing(call) /\ call.id = b.id
  <2>1. ~HasTop(page', b.id)
    BY DEF HasTop, Ids
  <2>2. QED
    BY <1>1, <1>3, <1>4, <1>6, <2>1, TopsPersist
<1>8. <<b.key>> \in Tops(rendering)
  <2>1. \E j \in DOMAIN rendering : rendering[j].key = b.key
    BY DEF ToSet
  <2>2. QED
    BY <1>1, <2>1, TopsUnfold DEF Types
<1>9. /\ AtHand(<<b.key>>, bound, calls, 1)
      /\ <<b.key>> \in DOMAIN bound => bound[<<b.key>>] # b.id
  BY <1>1, <1>4, <1>7, <1>8 DEF InTurn, Turn
<1>10. 1..(1 - 1) = {}
  OBVIOUS
<1>11. QED
  BY <1>9, <1>10 DEF AtHand

\* Whatever the renderings, the size of a batch, the faults of calls and what others do
\* to the page, a call of the sync takes a block with a rendered key off the page only
\* when another block is bound to that key: the one a retained match brought along, or
\* the copy whose call has been answered (diff() puts the removals behind everything
\* else, and sync() makes the calls in the order of the plan).
THEOREM CopiesAlwaysLandFirst == Spec => CopiesLandFirst
<1>1. Order /\ [Next]_vars =>
        [Send => \A b \in ToSet(work) :
                    b.id \in Ids(page) \ Ids(page') /\ (\E c \in ToSet(rendering) : c.key = b.key)
                        => <<b.key>> \in DOMAIN bound /\ bound[<<b.key>>] # b.id]_vars
  BY SendLandsCopiesFirst
<1>2. QED
  BY <1>1, OrderAlwaysHolds, PTL DEF Spec, CopiesLandFirst

----------------------------------------------------------------------------
(* Enumerations *)

IsRising(f, n) == \A k, l \in 1..n : k < l => f[k] < f[l]

Enumerates(f, n, T) ==
    /\ IsRising(f, n)
    /\ \A k \in 1..n : f[k] \in T
    /\ \A t \in T : \E k \in 1..n : f[k] = t

\* A set of numbers is put in order in one way only.
LEMMA SameEnumeration ==
    ASSUME NEW T \in SUBSET Nat, NEW n \in Nat, NEW m \in Nat,
           NEW f, NEW g, Enumerates(f, n, T), Enumerates(g, m, T)
    PROVE  n = m /\ \A k \in 1..n : f[k] = g[k]
<1>0. /\ IsRising(f, n) /\ IsRising(g, m)
      /\ \A k \in 1..n : f[k] \in T
      /\ \A k \in 1..m : g[k] \in T
      /\ \A t \in T : (\E k \in 1..n : f[k] = t) /\ (\E k \in 1..m : g[k] = t)
  BY DEF Enumerates
<1> DEFINE Odd == {k \in 1..n : ~(k <= m /\ f[k] = g[k])}
<1>1. ASSUME Odd # {} PROVE FALSE
  <2>1. Odd \in SUBSET Nat
    OBVIOUS
  <2>2. PICK k \in Odd : \A j \in Odd : k <= j
    <3> HIDE DEF Odd
    <3>1. QED
      BY <1>1, <2>1, LeastNumber
  <2>3. k \in 1..n /\ ~(k <= m /\ f[k] = g[k])
    OBVIOUS
  <2>4. \A j \in 1..n : j < k => j <= m /\ f[j] = g[j]
    BY <2>2, <2>3
  <2>5. f[k] \in T /\ f[k] \in Nat
    BY <1>0, <2>3
  <2> HIDE DEF Odd
  <2>6. PICK j \in 1..m : g[j] = f[k]
    BY <1>0, <2>5
  <2>7. ~(j < k)
    <3> SUFFICES ASSUME j < k PROVE FALSE
      OBVIOUS
    <3>1. j \in 1..n
      BY <2>3
    <3>2. f[j] = g[j] /\ f[j] < f[k]
      BY <1>0, <2>3, <2>4, <3>1 DEF IsRising
    <3>3. QED
      BY <2>5, <2>6, <3>2
  <2>8. k <= m /\ k \in 1..m
    BY <2>3, <2>7
  <2>9. g[k] \in T /\ g[k] \in Nat
    BY <1>0, <2>8
  <2>10. k < j
    BY <2>3, <2>6, <2>7, <2>8
  <2>11. g[k] < f[k]
    BY <1>0, <2>6, <2>8, <2>10 DEF IsRising
  <2>12. PICK i \in 1..n : f[i] = g[k]
    BY <1>0, <2>9
  <2>13. i < k
    <3> SUFFICES ASSUME ~(i < k) PROVE FALSE
      OBVIOUS
    <3>1. i = k \/ k < i
      BY <2>3
    <3>2. f[k] = f[i] \/ f[k] < f[i]
      BY <1>0, <2>3, <3>1 DEF IsRising
    <3>3. QED
      BY <2>5, <2>9, <2>11, <2>12, <3>2
  <2>14. i <= m /\ g[i] = g[k] /\ i \in 1..m
    BY <2>4, <2>12, <2>13
  <2>15. g[i] < g[k]
    BY <1>0, <2>8, <2>13, <2>14 DEF IsRising
  <2>16. QED
    BY <2>9, <2>14, <2>15
<1>2. \A k \in 1..n : k <= m /\ f[k] = g[k]
  BY <1>1
<1> HIDE DEF Odd
<1>3. n <= m
  <2>1. CASE n = 0
    BY <2>1
  <2>2. CASE n # 0
    <3>1. n \in 1..n
      BY <2>2
    <3>2. QED
      BY <1>2, <3>1
  <2>3. QED
    BY <2>1, <2>2
<1>4. ASSUME n < m PROVE FALSE
  <2>1. n + 1 \in 1..m
    BY <1>4
  <2>2. g[n + 1] \in T /\ g[n + 1] \in Nat
    BY <1>0, <2>1
  <2>3. PICK j \in 1..n : f[j] = g[n + 1]
    BY <1>0, <2>2
  <2>4. g[j] = g[n + 1] /\ j \in 1..m /\ j < n + 1
    BY <1>2, <2>3
  <2>5. g[j] < g[n + 1]
    BY <1>0, <2>1, <2>4 DEF IsRising
  <2>6. QED
    BY <2>2, <2>4, <2>5
<1>5. QED
  BY <1>2, <1>3, <1>4

\* The same places of two lists of the same length are picked side by side.
LEMMA PickedTogether ==
    ASSUME NEW S, NEW T, NEW list \in Seq(S), NEW other \in Seq(T), Len(list) = Len(other),
           NEW places \in SUBSET (1..Len(list))
    PROVE  \E pos : /\ IsPicking(Picked(list, places), pos, list, places)
                    /\ IsPicking(Picked(other, places), pos, other, places)
                    /\ Len(Picked(list, places)) = Len(Picked(other, places))
<1>0. places \in SUBSET Nat
  OBVIOUS
<1>1. places \in SUBSET (1..Len(other))
  OBVIOUS
<1>2. PICK p : IsPicking(Picked(list, places), p, list, places)
  BY PickedUnfolds
<1>3. PICK q : IsPicking(Picked(other, places), q, other, places)
  BY <1>1, PickedUnfolds
<1> DEFINE s == Picked(list, places)
           t == Picked(other, places)
           n == Len(s)
           m == Len(t)
<1>4. n \in Nat /\ m \in Nat
  BY <1>2, <1>3 DEF IsPicking
<1>5. Enumerates(p, n, places)
  BY <1>2 DEF IsPicking, IsRising, Enumerates
<1>6. Enumerates(q, m, places)
  BY <1>3 DEF IsPicking, IsRising, Enumerates
<1> HIDE DEF n, m, s, t
<1>7. \A A \in SUBSET Nat : \A i, j \in Nat : \A f, g :
        Enumerates(f, i, A) /\ Enumerates(g, j, A) => i = j /\ \A k \in 1..i : f[k] = g[k]
  BY SameEnumeration
<1>8. n = m /\ \A k \in 1..n : p[k] = q[k]
  <2>1. \A i, j \in Nat : \A f, g :
        Enumerates(f, i, places) /\ Enumerates(g, j, places) => i = j /\ \A k \in 1..i : f[k] = g[k]
     BY <1>0, <1>7
  <2>2. \A f, g :
        Enumerates(f, n, places) /\ Enumerates(g, m, places) => n = m /\ \A k \in 1..n : f[k] = g[k]
     BY <2>1, <1>4
  <2>3. QED
     BY <2>2, <1>5, <1>6
<1>9. p = q
  <2>1. p \in [1..n -> places] /\ q \in [1..m -> places]
    BY <1>2, <1>3 DEF IsPicking, n, m, s, t
  <2> HIDE DEF n, m
  <2>2. q \in [1..n -> places]
    BY <1>8, <2>1
  <2>3. p = [k \in 1..n |-> p[k]] /\ q = [k \in 1..n |-> q[k]]
    BY <2>1, <2>2
  <2>4. [k \in 1..n |-> p[k]] = [k \in 1..n |-> q[k]]
    BY <1>8
  <2>5. QED
    BY <2>3, <2>4
<1>10. IsPicking(t, p, other, places)
  BY <1>3, <1>9 DEF t
<1>11. QED
  BY <1>2, <1>8, <1>10 DEF n, m, s, t

\* A list of which all places are picked.
LEMMA PickedAll ==
    ASSUME NEW S, NEW list \in Seq(S), NEW places, places = 1..Len(list)
    PROVE  Len(Picked(list, places)) = Len(list)
           /\ \A k \in 1..Len(list) : Picked(list, places)[k] = list[k]
<1>1. PICK p : IsPicking(Picked(list, places), p, list, places)
  BY PickedUnfolds
<1> DEFINE s == Picked(list, places)
           n == Len(s)
           m == Len(list)
           q == [k \in 1..m |-> k]
<1>2. n \in Nat /\ m \in Nat /\ places \in SUBSET Nat
  BY <1>1 DEF IsPicking
<1>3. Enumerates(p, n, places)
  BY <1>1 DEF IsPicking, IsRising, Enumerates
<1>4. Enumerates(q, m, places)
  BY DEF IsRising, Enumerates
<1>6. \A k \in 1..m : q[k] = k
  OBVIOUS
<1> HIDE DEF n, m, s, q
<1>7. n = m /\ \A k \in 1..n : p[k] = q[k]
  BY <1>2, <1>3, <1>4, SameEnumeration
<1>8. \A k \in 1..n : s[k] = list[p[k]]
  BY <1>1 DEF IsPicking, n, s
<1>9. QED
  BY <1>6, <1>7, <1>8 DEF n, m, s

----------------------------------------------------------------------------
(* Where new siblings are placed *)

IsPlacing(t, cut, list, new) ==
    /\ cut \in 0..Len(list) /\ Len(list) \in Nat /\ Len(new) \in Nat
    /\ Len(t) = Len(list) + Len(new) /\ DOMAIN t = 1..Len(t)
    /\ \A i \in 1..cut : t[i] = list[i]
    /\ \A k \in 1..Len(new) : t[cut + k] = new[k]
    /\ \A i \in (cut + 1)..Len(list) : t[Len(new) + i] = list[i]

CutAt(cut, list, at, anchor) ==
    \/ at = "head" /\ cut = 0
    \/ at = "after" /\ cut \in 1..Len(list) /\ list[cut].id = anchor
    \/ /\ at # "head" /\ cut = Len(list)
       /\ at = "after" => \A i \in 1..Len(list) : list[i].id # anchor

IsPlaced(t, list, new, at, anchor) ==
    \E cut : IsPlacing(t, cut, list, new) /\ CutAt(cut, list, at, anchor)

\* The new siblings come together, at the place that the call names.
LEMMA PlacedIs ==
    ASSUME NEW S, NEW list \in Seq(S), NEW new \in Seq(S), NEW at, NEW anchor
    PROVE  IsPlaced(Placed(list, new, at, anchor), list, new, at, anchor)
<1> DEFINE t == Placed(list, new, at, anchor)
           n == Len(list)
           m == Len(new)
           Hit == \E i \in DOMAIN list : list[i].id = anchor
<1>1. n \in Nat /\ m \in Nat /\ DOMAIN list = 1..n
  OBVIOUS
<1>0. \A s, u \in Seq(S) : /\ s \o u \in Seq(S) /\ Len(s \o u) = Len(s) + Len(u)
                           /\ \A k \in 1..Len(s) : (s \o u)[k] = s[k]
                           /\ \A k \in 1..Len(u) : (s \o u)[Len(s) + k] = u[k]
  BY JoinedIs
<1>2. CASE at = "head"
  <2>1. t = new \o list
    BY <1>2 DEF Placed
  <2>2. /\ Len(t) = m + n /\ t \in Seq(S)
        /\ \A k \in 1..m : t[k] = new[k]
        /\ \A i \in 1..n : t[m + i] = list[i]
    BY <2>1, JoinedIs
  <2>3. DOMAIN t = 1..Len(t)
    BY <2>2
  <2> HIDE DEF t, n, m
  <2>4. IsPlacing(t, 0, list, new)
    BY <1>1, <2>2, <2>3 DEF IsPlacing, n, m
  <2>5. CutAt(0, list, at, anchor)
    BY <1>2 DEF CutAt
  <2>6. QED
    BY <2>4, <2>5 DEF IsPlaced, t
<1>3. CASE at = "after" /\ Hit
  <2> DEFINE i == CHOOSE i \in DOMAIN list : list[i].id = anchor
             a == SubSeq(list, 1, i)
             z == SubSeq(list, i + 1, Len(list))
  <2>1. i \in 1..Len(list) /\ list[i].id = anchor /\ Len(list) \in Nat
    BY <1>1, <1>3
  <2>2. t = a \o new \o z
    BY <1>3 DEF Placed
  <2> HIDE DEF i
  <2>3. /\ a \in Seq(S) /\ z \in Seq(S) /\ Len(a) = i /\ Len(z) = Len(list) - i
        /\ \A k \in 1..i : a[k] = list[k]
        /\ \A k \in 1..(Len(list) - i) : z[k] = list[i + k]
    BY <2>1, SMTT(30)
  <2> HIDE DEF a, z, t, n, m
  <2> DEFINE b == a \o new
  <2>4. /\ b \in Seq(S) /\ Len(b) = i + m
        /\ \A k \in 1..i : b[k] = a[k]
        /\ \A k \in 1..m : b[i + k] = new[k]
    BY <1>0, <2>3 DEF m, b
  <2>5. t = b \o z
    BY <2>2
  <2> HIDE DEF b
  <2>6. /\ t \in Seq(S) /\ Len(t) = Len(b) + Len(z)
        /\ \A k \in 1..Len(b) : t[k] = b[k]
        /\ \A k \in 1..Len(z) : t[Len(b) + k] = z[k]
    <3>1. z \in Seq(S) /\ b \in Seq(S)
      BY <2>3, <2>4
    <3>2. /\ b \o z \in Seq(S) /\ Len(b \o z) = Len(b) + Len(z)
          /\ \A k \in 1..Len(b) : (b \o z)[k] = b[k]
          /\ \A k \in 1..Len(z) : (b \o z)[Len(b) + k] = z[k]
      BY <1>0, <3>1
    <3>3. QED
      BY <2>5, <3>2
  <2>7. Len(t) = n + m /\ DOMAIN t = 1..Len(t)
    BY <1>1, <2>1, <2>3, <2>4, <2>6 DEF n
  <2>8. \A k \in 1..i : t[k] = list[k]
    BY <1>1, <2>1, <2>3, <2>4, <2>6 DEF n
  <2>9. \A k \in 1..m : t[i + k] = new[k]
    <3>1. \A k \in 1..m : i + k \in 1..Len(b)
      BY <1>1, <2>1, <2>4
    <3>2. QED
      BY <2>4, <2>6, <3>1
  <2>10. ASSUME NEW j \in (i + 1)..n PROVE t[m + j] = list[j]
    <3>1. j - i \in 1..(n - i) /\ Len(b) + (j - i) = m + j /\ i + (j - i) = j
      BY <1>1, <2>1, <2>4
    <3>2. t[Len(b) + (j - i)] = z[j - i]
      BY <2>3, <2>6, <3>1 DEF n
    <3>3. z[j - i] = list[i + (j - i)]
      BY <2>3, <3>1 DEF n
    <3>4. QED
      BY <3>1, <3>2, <3>3
  <2>11. IsPlacing(t, i, list, new)
    BY <1>1, <2>1, <2>7, <2>8, <2>9, <2>10 DEF IsPlacing, n, m
  <2>12. CutAt(i, list, at, anchor)
    BY <1>3, <2>1 DEF CutAt, n
  <2>13. QED
    BY <2>11, <2>12 DEF IsPlaced, t
<1>4. CASE at # "head" /\ ~(at = "after" /\ Hit)
  <2>1. t = list \o new
    BY <1>4 DEF Placed
  <2>2. /\ Len(t) = n + m /\ t \in Seq(S)
        /\ \A k \in 1..n : t[k] = list[k]
        /\ \A i \in 1..m : t[n + i] = new[i]
    BY <2>1, JoinedIs
  <2>3. DOMAIN t = 1..Len(t)
    BY <2>2
  <2>4. at = "after" => \A i \in 1..n : list[i].id # anchor
    BY <1>1, <1>4
  <2> HIDE DEF t, n, m
  <2>5. IsPlacing(t, n, list, new)
    BY <1>1, <2>2, <2>3 DEF IsPlacing, n, m
  <2>6. CutAt(n, list, at, anchor)
    BY <1>4, <2>4 DEF CutAt, n
  <2>7. QED
    BY <2>5, <2>6 DEF IsPlaced, t
<1>5. QED
  BY <1>2, <1>3, <1>4

\* Every sibling is one of the old ones or of the new ones.
LEMMA PlacingCovers ==
    ASSUME NEW t, NEW cut, NEW list, NEW new, IsPlacing(t, cut, list, new), NEW j \in 1..Len(t)
    PROVE  \/ j \in 1..cut /\ t[j] = list[j]
           \/ \E k \in 1..Len(new) : j = cut + k /\ t[j] = new[k]
           \/ \E i \in (cut + 1)..Len(list) : j = Len(new) + i /\ t[j] = list[i]
<1>1. /\ cut \in 0..Len(list) /\ Len(list) \in Nat /\ Len(new) \in Nat
      /\ Len(t) = Len(list) + Len(new)
  BY DEF IsPlacing
<1>2. CASE j <= cut
  BY <1>1, <1>2 DEF IsPlacing
<1>3. CASE cut < j /\ j <= cut + Len(new)
  <2>1. j - cut \in 1..Len(new) /\ j = cut + (j - cut)
    BY <1>1, <1>3
  <2>2. QED
    BY <2>1 DEF IsPlacing
<1>4. CASE cut + Len(new) < j
  <2>1. j - Len(new) \in (cut + 1)..Len(list) /\ j = Len(new) + (j - Len(new))
    BY <1>1, <1>4
  <2>2. QED
    BY <2>1 DEF IsPlacing
<1>5. QED
  BY <1>1, <1>2, <1>3, <1>4

----------------------------------------------------------------------------
(* What the operations on trees do, node by node *)

Fields(n) == {"id", "kind", "hash", "kids"} \subseteq DOMAIN n

\* Nodes of N with leaves of L under them.
Nodal(N, L) == /\ \A n \in N : Fields(n) /\ n.kids \in Seq(L)
               /\ \A l \in L : Fields(l)

IdsDiffer(list) == \A i, j \in DOMAIN list : list[i].id = list[j].id => i = j

\* The node with this id takes the new siblings under it.
Grafted(tree, parent, new, at, anchor) ==
    [i \in DOMAIN tree |->
        IF tree[i].id = parent
        THEN [tree[i] EXCEPT !.kids = Placed(tree[i].kids, new, at, anchor)] ELSE tree[i]]

\* With ids of their own, the nodes take new siblings in one place at most.
LEMMA GraftedIs ==
    ASSUME NEW tree, IdsDiffer(tree), NEW parent, parent # Page, NEW new, NEW at, NEW anchor
    PROVE  WithUnder(tree, parent, Placed(Under(tree, parent), new, at, anchor))
             = Grafted(tree, parent, new, at, anchor)
<1> DEFINE kids == Placed(Under(tree, parent), new, at, anchor)
           New(i) == [tree[i] EXCEPT !.kids = Placed(tree[i].kids, new, at, anchor)]
<1>1. WithUnder(tree, parent, kids)
        = [i \in DOMAIN tree |-> IF tree[i].id = parent
                                 THEN [tree[i] EXCEPT !.kids = kids] ELSE tree[i]]
  BY DEF WithUnder
<1>2. \A i \in DOMAIN tree : tree[i].id = parent => Under(tree, parent) = tree[i].kids
  <2> SUFFICES ASSUME NEW i \in DOMAIN tree, tree[i].id = parent
               PROVE  Under(tree, parent) = tree[i].kids
    OBVIOUS
  <2> DEFINE c == CHOOSE j \in DOMAIN tree : tree[j].id = parent
  <2>1. c \in DOMAIN tree /\ tree[c].id = parent
    OBVIOUS
  <2>2. Under(tree, parent) = tree[c].kids
    BY DEF Under
  <2> HIDE DEF c
  <2>3. c = i
    BY <2>1 DEF IdsDiffer
  <2>4. QED
    BY <2>2, <2>3
<1>3. \A i \in DOMAIN tree : tree[i].id = parent => [tree[i] EXCEPT !.kids = kids] = New(i)
  BY <1>2
<1> HIDE DEF kids, New
<1>4. [i \in DOMAIN tree |-> IF tree[i].id = parent
                             THEN [tree[i] EXCEPT !.kids = kids] ELSE tree[i]]
        = [i \in DOMAIN tree |-> IF tree[i].id = parent THEN New(i) ELSE tree[i]]
  BY <1>3
<1>5. QED
  BY <1>1, <1>4 DEF Grafted, kids, New

\* A node whose payload may have been replaced.
Renewed(n, old, id, hash) ==
    n.id = old.id /\ n.kind = old.kind /\ n.hash = IF old.id = id THEN hash ELSE old.hash

IsRehashed(t, tree, id, hash) ==
    /\ Len(t) = Len(tree) /\ DOMAIN t = DOMAIN tree
    /\ \A i \in DOMAIN tree :
        /\ Renewed(t[i], tree[i], id, hash)
        /\ Len(t[i].kids) = Len(tree[i].kids) /\ DOMAIN t[i].kids = DOMAIN tree[i].kids
        /\ \A k \in DOMAIN tree[i].kids : Renewed(t[i].kids[k], tree[i].kids[k], id, hash)

\* An update changes no list and the payload of one id.
LEMMA RehashedIs ==
    ASSUME NEW N, NEW L, Nodal(N, L), NEW tree \in Seq(N), NEW id, NEW hash
    PROVE  IsRehashed(Rehashed(tree, id, hash), tree, id, hash)
<1> DEFINE New(n) == IF n.id = id THEN [n EXCEPT !.hash = hash] ELSE n
           Done(n) == [New(n) EXCEPT !.kids = [k \in DOMAIN @ |-> New(@[k])]]
           t == Rehashed(tree, id, hash)
<1>1. t = [i \in DOMAIN tree |-> Done(tree[i])]
  BY DEF Rehashed
<1>2. DOMAIN tree = 1..Len(tree) /\ Len(tree) \in Nat /\ \A i \in 1..Len(tree) : tree[i] \in N
  OBVIOUS
<1>3. Len(t) = Len(tree) /\ DOMAIN t = DOMAIN tree
  <2> HIDE DEF Done, t
  <2>1. DOMAIN t = 1..Len(tree) /\ t = [i \in 1..Len(tree) |-> t[i]]
    BY <1>1, <1>2
  <2>2. Len(t) = Len(tree)
    BY <1>2, <2>1
  <2>3. QED
    BY <1>2, <2>1, <2>2
<1>4. ASSUME NEW n, Fields(n) PROVE Fields(New(n)) /\ Renewed(New(n), n, id, hash) /\ New(n).kids = n.kids
  BY <1>4 DEF Fields, Renewed
<1>5. ASSUME NEW n \in N
      PROVE  /\ Renewed(Done(n), n, id, hash)
             /\ Len(Done(n).kids) = Len(n.kids) /\ DOMAIN Done(n).kids = DOMAIN n.kids
             /\ \A k \in DOMAIN n.kids : Renewed(Done(n).kids[k], n.kids[k], id, hash)
  <2> DEFINE m == New(n)
             s == [k \in DOMAIN m.kids |-> New(m.kids[k])]
  <2>1. Fields(n) /\ n.kids \in Seq(L)
    BY DEF Nodal
  <2>2. Fields(m) /\ Renewed(m, n, id, hash) /\ m.kids = n.kids
    BY <1>4, <2>1
  <2>3. Done(n) = [m EXCEPT !.kids = s]
    OBVIOUS
  <2> HIDE DEF New, m, Done
  <2>4. /\ Done(n).kids = s /\ Done(n).id = m.id
        /\ Done(n).kind = m.kind /\ Done(n).hash = m.hash
    <3> HIDE DEF s
    <3>1. QED
      BY <2>2, <2>3 DEF Fields
  <2>5. /\ s = [k \in 1..Len(n.kids) |-> New(n.kids[k])] /\ Len(n.kids) \in Nat
        /\ DOMAIN n.kids = 1..Len(n.kids)
        /\ \A k \in 1..Len(n.kids) : Fields(n.kids[k])
    BY <2>1, <2>2 DEF Nodal
  <2>6. Len(s) = Len(n.kids) /\ DOMAIN s = 1..Len(n.kids) /\ \A k \in 1..Len(n.kids) : s[k] = New(n.kids[k])
    <3> HIDE DEF s
    <3>1. QED
      BY <2>5
  <2> HIDE DEF s
  <2>7. \A k \in 1..Len(n.kids) : Renewed(s[k], n.kids[k], id, hash)
    BY <1>4, <2>5, <2>6
  <2>8. Renewed(Done(n), n, id, hash)
    BY <2>2, <2>4 DEF Renewed
  <2>9. QED
    BY <2>4, <2>5, <2>6, <2>7, <2>8
<1> HIDE DEF Done, New
<1>6. \A i \in DOMAIN tree : t[i] = Done(tree[i])
  BY <1>1
<1> HIDE DEF t
<1>7. QED
  BY <1>2, <1>3, <1>5, <1>6 DEF IsRehashed, t

\* The members of a list that have another id.
Others(list, id) == {i \in DOMAIN list : list[i].id # id}

Sieved(list, id) == Picked(list, Others(list, id))

IsSieved(t, pos, tree, id) ==
    /\ DOMAIN t = 1..Len(t) /\ Len(t) \in Nat
    /\ IsRising(pos, Len(t))
    /\ \A k \in 1..Len(t) : /\ pos[k] \in DOMAIN tree /\ tree[pos[k]].id # id
                            /\ t[k].id = tree[pos[k]].id /\ t[k].kind = tree[pos[k]].kind
                            /\ t[k].hash = tree[pos[k]].hash
                            /\ t[k].kids = Sieved(tree[pos[k]].kids, id)
    /\ \A i \in DOMAIN tree : tree[i].id # id => \E k \in 1..Len(t) : pos[k] = i

\* A removal leaves the other nodes in their order.
LEMMA WithoutIs ==
    ASSUME NEW N, NEW L, Nodal(N, L), NEW tree \in Seq(N), NEW id
    PROVE  \E pos : IsSieved(Without(tree, id), pos, tree, id)
<1> DEFINE top == Sieved(tree, id)
           t == Without(tree, id)
           places == Others(tree, id)
<1>1. t = [i \in DOMAIN top |-> [top[i] EXCEPT !.kids = Sieved(@, id)]]
  BY DEF Without, Sieved, Others
<1>2. DOMAIN tree = 1..Len(tree) /\ Len(tree) \in Nat /\ \A i \in 1..Len(tree) : tree[i] \in N
  OBVIOUS
<1>3. places \in SUBSET (1..Len(tree))
  BY <1>2 DEF Others
<1>4. PICK pos : IsPicking(top, pos, tree, places)
  <2> HIDE DEF places
  <2>1. PICK pos : IsPicking(Picked(tree, places), pos, tree, places)
    BY <1>3, PickedUnfolds
  <2>2. QED
    BY <2>1 DEF Sieved, places
<1> HIDE DEF top, t
<1>5. /\ DOMAIN top = 1..Len(top) /\ Len(top) \in Nat
      /\ pos \in [1..Len(top) -> places]
      /\ \A k \in 1..Len(top) : top[k] = tree[pos[k]]
      /\ \A k, l \in 1..Len(top) : k < l => pos[k] < pos[l]
      /\ \A i \in places : \E k \in 1..Len(top) : pos[k] = i
  BY <1>4 DEF IsPicking
<1>6. DOMAIN t = 1..Len(top) /\ Len(t) = Len(top)
  <2>1. DOMAIN t = 1..Len(top) /\ t = [i \in 1..Len(top) |-> t[i]]
    BY <1>1, <1>5
  <2>2. QED
    BY <1>5, <2>1
<1>7. ASSUME NEW k \in 1..Len(t)
      PROVE  /\ pos[k] \in DOMAIN tree /\ tree[pos[k]].id # id
             /\ t[k].id = tree[pos[k]].id /\ t[k].kind = tree[pos[k]].kind
             /\ t[k].hash = tree[pos[k]].hash
             /\ t[k].kids = Sieved(tree[pos[k]].kids, id)
  <2>1. k \in 1..Len(top) /\ pos[k] \in places
    BY <1>5, <1>6
  <2>2. pos[k] \in DOMAIN tree /\ tree[pos[k]].id # id /\ top[k] = tree[pos[k]]
    BY <1>5, <2>1 DEF Others
  <2> DEFINE n == tree[pos[k]]
             s == Sieved(n.kids, id)
  <2>3. t[k] = [n EXCEPT !.kids = s]
    BY <1>1, <1>5, <2>1, <2>2
  <2>4. Fields(n)
    BY <1>2, <2>2 DEF Nodal
  <2> HIDE DEF n, s
  <2>5. t[k].id = n.id /\ t[k].kind = n.kind /\ t[k].hash = n.hash /\ t[k].kids = s
    BY <2>3, <2>4 DEF Fields
  <2>6. QED
    BY <2>2, <2>5 DEF n, s
<1>8. \A i \in DOMAIN tree : tree[i].id # id => i \in places
  BY DEF Others
<1> HIDE DEF places
<1>9. IsRising(pos, Len(t))
  BY <1>5, <1>6 DEF IsRising
<1>10. \A i \in DOMAIN tree : tree[i].id # id => \E k \in 1..Len(t) : pos[k] = i
  BY <1>5, <1>6, <1>8
<1>11. IsSieved(t, pos, tree, id)
  BY <1>5, <1>6, <1>7, <1>9, <1>10 DEF IsSieved
<1>12. QED
  BY <1>11 DEF t

\* So it is with a single list.
LEMMA SievedIs ==
    ASSUME NEW L, NEW list \in Seq(L), NEW id
    PROVE  \E pos : IsPicking(Sieved(list, id), pos, list, Others(list, id))
<1> DEFINE places == Others(list, id)
<1>1. places \in SUBSET (1..Len(list))
  BY DEF Others
<1> HIDE DEF places
<1>2. PICK pos : IsPicking(Picked(list, places), pos, list, places)
  BY <1>1, PickedUnfolds
<1>3. QED
  BY <1>2 DEF Sieved, places

----------------------------------------------------------------------------
(* Every node keeps an id of its own *)

HasKid(n, x) == \E k \in DOMAIN n.kids : n.kids[k].id = x

Sole(tree) ==
    /\ IdsDiffer(tree)
    /\ \A i \in DOMAIN tree : IdsDiffer(tree[i].kids)
    /\ \A i, j \in DOMAIN tree : \A x : HasKid(tree[i], x) /\ HasKid(tree[j], x) => i = j

Older(x, first) == x \in Nat => x < first

IsFresh(new, first) == \A k \in 1..Len(new) : new[k].id = first + k - 1

\* What pages and caches consist of are nodes.
LEMMA TreesAreNodal ==
    ASSUME NEW tops, NEW ids
    PROVE  /\ Nodal(LiveLevels(tops, ids), LiveLeaves(ids))
           /\ Nodal(EntryLevels(tops, ids), LeafEntries(ids))
<1>1. Nodal(LiveLevels(tops, ids), LiveLeaves(ids))
  BY DEF Nodal, LiveLevels, LiveLeaves, Fields
<1>2. Nodal(EntryLevels(tops, ids), LeafEntries(ids))
  BY DEF Nodal, EntryLevels, LeafEntries, Fields
<1>3. QED
  BY <1>1, <1>2

\* New ids among old ones.
LEMMA DifferPlaced ==
    ASSUME NEW t, NEW list, NEW new, NEW at, NEW anchor, IsPlaced(t, list, new, at, anchor),
           DOMAIN list = 1..Len(list), IdsDiffer(list), NEW first \in Nat, IsFresh(new, first),
           \A i \in 1..Len(list) : Older(list[i].id, first)
    PROVE  IdsDiffer(t)
<1>1. PICK cut : IsPlacing(t, cut, list, new)
  BY DEF IsPlaced
<1>2. /\ cut \in 0..Len(list) /\ Len(list) \in Nat /\ Len(new) \in Nat
      /\ DOMAIN t = 1..Len(t)
  BY <1>1 DEF IsPlacing
<1> SUFFICES ASSUME NEW i \in 1..Len(t), NEW j \in 1..Len(t), t[i].id = t[j].id
             PROVE  i = j
  BY <1>2 DEF IdsDiffer
<1> DEFINE Old(p) == \/ p \in 1..cut /\ t[p] = list[p]
                     \/ \E k \in (cut + 1)..Len(list) : p = Len(new) + k /\ t[p] = list[k]
           New(p) == \E k \in 1..Len(new) : p = cut + k /\ t[p] = new[k]
<1>3. (Old(i) \/ New(i)) /\ (Old(j) \/ New(j))
  BY <1>1, PlacingCovers, SMTT(30)
<1>4. \A p : Old(p) => Older(t[p].id, first)
  BY <1>2
<1>5. \A p : New(p) => t[p].id \in Nat /\ t[p].id >= first
  <2> SUFFICES ASSUME NEW k \in 1..Len(new) PROVE new[k].id \in Nat /\ new[k].id >= first
    OBVIOUS
  <2>1. new[k].id = first + k - 1
    BY DEF IsFresh
  <2>2. QED
    BY <1>2, <2>1
<1>6. CASE Old(i) /\ Old(j)
  <2>1. PICK k \in 1..Len(list) : t[i] = list[k] /\ \/ i = k /\ k \in 1..cut
                                                    \/ i = Len(new) + k /\ k \in (cut + 1)..Len(list)
    BY <1>2, <1>6
  <2>2. PICK l \in 1..Len(list) : t[j] = list[l] /\ \/ j = l /\ l \in 1..cut
                                                    \/ j = Len(new) + l /\ l \in (cut + 1)..Len(list)
    BY <1>2, <1>6
  <2>3. k = l
    BY <2>1, <2>2 DEF IdsDiffer
  <2>4. QED
    BY <1>2, <2>1, <2>2, <2>3
<1>7. CASE New(i) /\ New(j)
  <2>1. PICK k \in 1..Len(new) : i = cut + k /\ t[i] = new[k]
    BY <1>7
  <2>2. PICK l \in 1..Len(new) : j = cut + l /\ t[j] = new[l]
    BY <1>7
  <2>3. first + k - 1 = first + l - 1
    BY <2>1, <2>2 DEF IsFresh
  <2>4. QED
    BY <1>2, <2>1, <2>2, <2>3
<1>8. CASE (Old(i) /\ New(j)) \/ (New(i) /\ Old(j))
  <2> HIDE DEF Old, New
  <2>1. QED
    BY <1>4, <1>5, <1>8 DEF Older
<1>9. QED
  BY <1>3, <1>6, <1>7, <1>8

\* Fewer ids.
LEMMA DifferPicked ==
    ASSUME NEW t, NEW pos, NEW list, NEW places, places \subseteq DOMAIN list, DOMAIN list \subseteq Nat,
           IsPicking(t, pos, list, places), IdsDiffer(list)
    PROVE  IdsDiffer(t)
<1> SUFFICES ASSUME NEW i \in 1..Len(t), NEW j \in 1..Len(t), t[i].id = t[j].id
             PROVE  i = j
  BY DEF IdsDiffer, IsPicking
<1>1. /\ Len(t) \in Nat /\ pos[i] \in DOMAIN list /\ pos[j] \in DOMAIN list
      /\ t[i] = list[pos[i]] /\ t[j] = list[pos[j]]
      /\ i < j => pos[i] < pos[j]
      /\ j < i => pos[j] < pos[i]
  BY DEF IsPicking
<1>2. pos[i] = pos[j] /\ pos[i] \in Nat
  BY <1>1 DEF IdsDiffer
<1>3. QED
  BY <1>1, <1>2

\* The same of the nodes that a removal leaves.
LEMMA DifferSieved ==
    ASSUME NEW t, NEW pos, NEW tree, NEW id, IsSieved(t, pos, tree, id),
           DOMAIN tree \subseteq Nat, IdsDiffer(tree)
    PROVE  IdsDiffer(t)
<1> SUFFICES ASSUME NEW i \in 1..Len(t), NEW j \in 1..Len(t), t[i].id = t[j].id
             PROVE  i = j
  BY DEF IdsDiffer, IsSieved
<1>1. /\ Len(t) \in Nat /\ pos[i] \in DOMAIN tree /\ pos[j] \in DOMAIN tree
      /\ t[i].id = tree[pos[i]].id /\ t[j].id = tree[pos[j]].id
      /\ i < j => pos[i] < pos[j]
      /\ j < i => pos[j] < pos[i]
  BY DEF IsSieved, IsRising
<1>2. pos[i] = pos[j] /\ pos[i] \in Nat
  BY <1>1 DEF IdsDiffer
<1>3. QED
  BY <1>1, <1>2

\* New leaves under a node.
LEMMA SoleGrafted ==
    ASSUME NEW N, NEW L, Nodal(N, L), NEW tree \in Seq(N), Sole(tree),
           NEW new \in Seq(L), NEW first \in Nat, IsFresh(new, first),
           \A i \in DOMAIN tree : \A x : HasKid(tree[i], x) => Older(x, first),
           NEW parent, NEW at, NEW anchor
    PROVE  Sole(Grafted(tree, parent, new, at, anchor))
<1> DEFINE t == Grafted(tree, parent, new, at, anchor)
           kids(i) == Placed(tree[i].kids, new, at, anchor)
<1>1. DOMAIN t = DOMAIN tree /\ \A i \in DOMAIN tree : tree[i] \in N
  BY DEF Grafted
<1>2. ASSUME NEW i \in DOMAIN tree
      PROVE  /\ t[i].id = tree[i].id
             /\ t[i].kids = IF tree[i].id = parent THEN kids(i) ELSE tree[i].kids
  <2>1. t[i] = IF tree[i].id = parent THEN [tree[i] EXCEPT !.kids = kids(i)] ELSE tree[i]
    BY DEF Grafted
  <2>2. Fields(tree[i])
    BY <1>1 DEF Nodal
  <2> HIDE DEF t, kids
  <2>3. QED
    BY <2>1, <2>2 DEF Fields
<1>3. ASSUME NEW i \in DOMAIN tree
      PROVE  /\ IsPlaced(kids(i), tree[i].kids, new, at, anchor)
             /\ DOMAIN tree[i].kids = 1..Len(tree[i].kids)
  <2>1. tree[i].kids \in Seq(L)
    BY <1>1 DEF Nodal
  <2>2. QED
    BY <2>1, PlacedIs
<1> HIDE DEF t, kids
<1>4. IdsDiffer(t)
  BY <1>1, <1>2 DEF IdsDiffer, Sole
<1>5. ASSUME NEW i \in DOMAIN tree PROVE IdsDiffer(t[i].kids)
  <2>1. IdsDiffer(tree[i].kids)
    BY DEF Sole
  <2>2. \A k \in 1..Len(tree[i].kids) : Older(tree[i].kids[k].id, first)
    BY <1>3 DEF HasKid
  <2>3. IdsDiffer(kids(i))
    BY <1>3, <2>1, <2>2, DifferPlaced
  <2>4. QED
    BY <1>2, <2>1, <2>3
<1>6. ASSUME NEW i \in DOMAIN tree, NEW x, HasKid(t[i], x)
      PROVE  \/ HasKid(tree[i], x)
             \/ tree[i].id = parent /\ ~Older(x, first)
  <2>1. PICK k \in DOMAIN t[i].kids : t[i].kids[k].id = x
    BY <1>6 DEF HasKid
  <2>2. CASE tree[i].id # parent
    BY <1>2, <1>6, <2>2 DEF HasKid
  <2>3. CASE tree[i].id = parent
    <3>1. t[i].kids = kids(i)
      BY <1>2, <2>3
    <3>2. PICK cut : IsPlacing(kids(i), cut, tree[i].kids, new)
      BY <1>3 DEF IsPlaced
    <3>3. k \in 1..Len(kids(i)) /\ Len(tree[i].kids) \in Nat /\ Len(new) \in Nat /\ cut \in Nat
      BY <2>1, <3>1, <3>2 DEF IsPlacing
    <3>4. \/ \E l \in 1..Len(tree[i].kids) : kids(i)[k] = tree[i].kids[l]
          \/ \E l \in 1..Len(new) : kids(i)[k] = new[l]
      <4>1. \A l : l \in 1..cut \/ l \in (cut + 1)..Len(tree[i].kids) => l \in 1..Len(tree[i].kids)
        BY <3>2, <3>3 DEF IsPlacing
      <4>2. QED
        BY <3>2, <3>3, <4>1, PlacingCovers
    <3>5. ASSUME NEW l \in 1..Len(new) PROVE ~Older(new[l].id, first)
      <4>1. new[l].id = first + l - 1
        BY DEF IsFresh
      <4>2. QED
        BY <3>3, <4>1 DEF Older
    <3>6. QED
      BY <1>3, <2>1, <2>3, <3>1, <3>4, <3>5 DEF HasKid
  <2>4. QED
    BY <2>2, <2>3
<1>7. ASSUME NEW i \in DOMAIN tree, NEW j \in DOMAIN tree, NEW x, HasKid(t[i], x), HasKid(t[j], x)
      PROVE  i = j
  <2>1. /\ HasKid(tree[i], x) \/ (tree[i].id = parent /\ ~Older(x, first))
        /\ HasKid(tree[j], x) \/ (tree[j].id = parent /\ ~Older(x, first))
    BY <1>6, <1>7
  <2>2. CASE Older(x, first)
    BY <2>1, <2>2 DEF Sole
  <2>3. CASE ~Older(x, first)
    <3>1. tree[i].id = parent /\ tree[j].id = parent
      BY <2>1, <2>3
    <3>2. QED
      BY <3>1 DEF Sole, IdsDiffer
  <2>4. QED
    BY <2>2, <2>3
<1>8. Sole(t)
  BY <1>1, <1>4, <1>5, <1>7 DEF Sole
<1>9. QED
  BY <1>8 DEF t

\* New nodes without children.
LEMMA SolePlaced ==
    ASSUME NEW N, NEW tree \in Seq(N), Sole(tree),
           NEW new \in Seq(N), NEW first \in Nat, IsFresh(new, first),
           \A k \in 1..Len(new) : new[k].kids = <<>>,
           \A i \in DOMAIN tree : Older(tree[i].id, first),
           NEW at, NEW anchor
    PROVE  Sole(Placed(tree, new, at, anchor))
<1> DEFINE t == Placed(tree, new, at, anchor)
<1>1. IsPlaced(t, tree, new, at, anchor)
  BY PlacedIs
<1> HIDE DEF t
<1>2. DOMAIN tree = 1..Len(tree)
  OBVIOUS
<1>3. IdsDiffer(t)
  BY <1>1, <1>2, DifferPlaced DEF Sole
<1>4. PICK cut : IsPlacing(t, cut, tree, new)
  BY <1>1 DEF IsPlaced
<1>5. /\ DOMAIN t = 1..Len(t) /\ cut \in 0..Len(tree)
      /\ Len(tree) \in Nat /\ Len(new) \in Nat
  BY <1>4 DEF IsPlacing
<1> DEFINE From(i, p) == /\ p \in 1..Len(tree) /\ t[i] = tree[p]
                         /\ \/ i = p /\ p \in 1..cut
                            \/ i = Len(new) + p /\ p \in (cut + 1)..Len(tree)
<1>6. ASSUME NEW i \in 1..Len(t) PROVE (\E p : From(i, p)) \/ t[i].kids = <<>>
  <2>1. \/ i \in 1..cut /\ t[i] = tree[i]
        \/ \E k \in 1..Len(new) : i = cut + k /\ t[i] = new[k]
        \/ \E p \in (cut + 1)..Len(tree) : i = Len(new) + p /\ t[i] = tree[p]
    BY <1>4, PlacingCovers
  <2>2. CASE i \in 1..cut /\ t[i] = tree[i]
    <3>1. From(i, i)
      BY <1>5, <2>2
    <3>2. QED
      BY <3>1
  <2>3. CASE \E p \in (cut + 1)..Len(tree) : i = Len(new) + p /\ t[i] = tree[p]
    <3>1. PICK p \in (cut + 1)..Len(tree) : i = Len(new) + p /\ t[i] = tree[p]
      BY <2>3
    <3>2. From(i, p)
      BY <1>5, <3>1
    <3>3. QED
      BY <3>2
  <2>4. QED
    BY <2>1, <2>2, <2>3
<1>7. \A i \in 1..Len(t) : IdsDiffer(t[i].kids)
  <2> SUFFICES ASSUME NEW i \in 1..Len(t) PROVE IdsDiffer(t[i].kids)
    OBVIOUS
  <2>1. CASE t[i].kids = <<>>
    BY <2>1 DEF IdsDiffer
  <2>2. CASE \E p : From(i, p)
    BY <1>2, <2>2 DEF Sole
  <2>3. QED
    BY <1>6, <2>1, <2>2
<1>8. ASSUME NEW i \in 1..Len(t), NEW j \in 1..Len(t), NEW x, HasKid(t[i], x), HasKid(t[j], x)
      PROVE  i = j
  <2>1. ~(t[i].kids = <<>>) /\ ~(t[j].kids = <<>>)
    BY <1>8 DEF HasKid
  <2>2. (\E p : From(i, p)) /\ (\E q : From(j, q))
    BY <1>6, <2>1
  <2>3. PICK p : From(i, p)
    BY <2>2
  <2>4. PICK q : From(j, q)
    BY <2>2
  <2>5. p = q
    BY <1>2, <1>8, <2>3, <2>4 DEF Sole
  <2>6. QED
    BY <1>5, <2>3, <2>4, <2>5
<1>9. Sole(t)
  BY <1>3, <1>5, <1>7, <1>8 DEF Sole
<1>10. QED
  BY <1>9 DEF t

\* Nodes that come from different nodes, with no child that those did not have.
LEMMA SoleFrom ==
    ASSUME NEW tree, Sole(tree), NEW t, NEW pos,
           \A k \in DOMAIN t : pos[k] \in DOMAIN tree /\ t[k].id = tree[pos[k]].id,
           \A k, l \in DOMAIN t : pos[k] = pos[l] => k = l,
           \A k \in DOMAIN t : IdsDiffer(t[k].kids),
           \A k \in DOMAIN t : \A x : HasKid(t[k], x) => HasKid(tree[pos[k]], x)
    PROVE  Sole(t)
<1>1. IdsDiffer(t)
  BY DEF Sole, IdsDiffer
<1>2. \A k, l \in DOMAIN t : \A x : HasKid(t[k], x) /\ HasKid(t[l], x) => k = l
  BY DEF Sole
<1>3. QED
  BY <1>1, <1>2 DEF Sole

\* New payloads.
LEMMA SoleRehashed ==
    ASSUME NEW N, NEW L, Nodal(N, L), NEW tree \in Seq(N), NEW id, NEW hash, Sole(tree)
    PROVE  Sole(Rehashed(tree, id, hash))
<1> DEFINE t == Rehashed(tree, id, hash)
           pos == [k \in DOMAIN tree |-> k]
<1>1. IsRehashed(t, tree, id, hash)
  BY RehashedIs
<1> HIDE DEF t
<1>2. /\ DOMAIN t = DOMAIN tree
      /\ \A k \in DOMAIN t : pos[k] \in DOMAIN tree /\ t[k].id = tree[pos[k]].id
      /\ \A k, l \in DOMAIN t : pos[k] = pos[l] => k = l
  BY <1>1 DEF IsRehashed, Renewed
<1>3. \A k \in DOMAIN t : /\ DOMAIN t[k].kids = DOMAIN tree[k].kids
                          /\ \A i \in DOMAIN tree[k].kids : t[k].kids[i].id = tree[k].kids[i].id
  BY <1>1 DEF IsRehashed, Renewed
<1>4. \A k \in DOMAIN t : IdsDiffer(t[k].kids)
  BY <1>2, <1>3 DEF Sole, IdsDiffer
<1>5. \A k \in DOMAIN t : pos[k] = k
  BY <1>2
<1> HIDE DEF pos
<1>6. \A k \in DOMAIN t : \A x : HasKid(t[k], x) => HasKid(tree[pos[k]], x)
  BY <1>2, <1>3, <1>5, SMTT(30) DEF HasKid
<1>7. Sole(t)
  BY <1>2, <1>4, <1>6, SoleFrom
<1>8. QED
  BY <1>7 DEF t

\* A node less.
LEMMA SoleWithout ==
    ASSUME NEW N, NEW L, Nodal(N, L), NEW tree \in Seq(N), NEW id, Sole(tree)
    PROVE  Sole(Without(tree, id))
<1> DEFINE t == Without(tree, id)
<1>1. PICK pos : IsSieved(t, pos, tree, id)
  BY WithoutIs
<1> HIDE DEF t
<1>2. /\ DOMAIN t = 1..Len(t) /\ Len(t) \in Nat
      /\ \A k \in DOMAIN t : pos[k] \in DOMAIN tree /\ t[k].id = tree[pos[k]].id
      /\ \A k \in DOMAIN t : t[k].kids = Sieved(tree[pos[k]].kids, id)
      /\ IsRising(pos, Len(t)) /\ DOMAIN tree \subseteq Nat
  BY <1>1 DEF IsSieved
<1>3. \A k, l \in DOMAIN t : pos[k] = pos[l] => k = l
  BY <1>2 DEF IsRising
<1>4. ASSUME NEW k \in DOMAIN t
      PROVE  /\ IdsDiffer(t[k].kids)
             /\ \A x : HasKid(t[k], x) => HasKid(tree[pos[k]], x)
  <2> DEFINE list == tree[pos[k]].kids
             places == Others(list, id)
             s == t[k].kids
  <2>1. tree[pos[k]] \in N
    BY <1>2
  <2>2. list \in Seq(L)
    BY <2>1 DEF Nodal
  <2>3. s = Sieved(list, id) /\ IdsDiffer(list)
    BY <1>2 DEF Sole
  <2> HIDE DEF list, s
  <2>4. PICK p : IsPicking(s, p, list, places)
    BY <2>2, <2>3, SievedIs
  <2>5. places \subseteq DOMAIN list /\ DOMAIN list \subseteq Nat
    BY <2>2 DEF Others
  <2> HIDE DEF places
  <2>6. IdsDiffer(s)
    BY <2>3, <2>4, <2>5, DifferPicked
  <2>7. \A i \in DOMAIN s : \E j \in DOMAIN list : s[i] = list[j]
    BY <2>4, <2>5 DEF IsPicking
  <2>8. QED
    BY <2>6, <2>7 DEF HasKid, s, list
<1>5. Sole(t)
  BY <1>2, <1>3, <1>4, SoleFrom
<1>6. QED
  BY <1>5 DEF t

----------------------------------------------------------------------------
(* What the calls do, node by node *)

NewBlocks(call, first) ==
    [k \in DOMAIN call.nodes |-> Block(NodeAt(rendering, call.nodes[k]), first + k - 1)]

NewEntries(call, first) ==
    [k \in DOMAIN call.nodes |-> Entry(NodeAt(rendering, call.nodes[k]), first + k - 1)]

\* What an append puts on the page and into the working cache.
LEMMA NewNodesAre ==
    ASSUME rendering \in Renderings, NEW ids, NEW all,
           NEW call \in PlanCalls(rendering, ids, all), call.op = "append", NEW first \in Nat
    PROVE  /\ NewBlocks(call, first) \in Seq(LiveLeaves(Nat \cup Foreign))
           /\ NewEntries(call, first) \in Seq(LeafEntries(Nat))
           /\ Len(NewBlocks(call, first)) = Len(call.nodes)
           /\ Len(NewEntries(call, first)) = Len(call.nodes)
           /\ DOMAIN call.nodes = 1..Len(call.nodes) /\ Len(call.nodes) \in Nat
           /\ IsFresh(NewBlocks(call, first), first) /\ IsFresh(NewEntries(call, first), first)
           /\ \A k \in 1..Len(call.nodes) :
                LET n == NodeAt(rendering, call.nodes[k])
                IN  /\ n \in Nodes
                    /\ NewBlocks(call, first)[k] = Block(n, first + k - 1)
                    /\ NewEntries(call, first)[k] = Entry(n, first + k - 1)
<1> DEFINE u == call.nodes
           m == Len(u)
           P == NewBlocks(call, first)
           Q == NewEntries(call, first)
           node(k) == NodeAt(rendering, u[k])
<1>1. Created(call) = u
  BY DEF Created
<1>2. u \in Seq(Paths(rendering)) /\ \A k \in DOMAIN u : node(k) \in Nodes
  BY <1>1, CreatedType
<1>3. DOMAIN u = 1..m /\ m \in Nat
  BY <1>2
<1>4. P = [k \in 1..m |-> Block(node(k), first + k - 1)]
      /\ Q = [k \in 1..m |-> Entry(node(k), first + k - 1)]
  BY <1>3 DEF NewBlocks, NewEntries
<1> HIDE DEF u, P, Q, node, m
<1>5. ASSUME NEW k \in 1..m
      PROVE  /\ Block(node(k), first + k - 1) \in LiveLeaves(Nat \cup Foreign)
             /\ Entry(node(k), first + k - 1) \in LeafEntries(Nat)
  <2>1. first + k - 1 \in Nat
    BY <1>3
  <2>2. node(k) \in Nodes
    BY <1>2, <1>3
  <2>3. /\ Block(node(k), first + k - 1) \in LiveLeaves(Nat)
        /\ Entry(node(k), first + k - 1) \in LeafEntries(Nat)
    BY <2>1, <2>2, BlockType
  <2>4. LiveLeaves(Nat) \subseteq LiveLeaves(Nat \cup Foreign)
    BY DEF LiveLeaves
  <2>5. QED
    BY <2>3, <2>4
<1>6. P \in Seq(LiveLeaves(Nat \cup Foreign)) /\ Len(P) = m
  <2>1. P = [k \in 1..m |-> P[k]] /\ \A k \in 1..m : P[k] \in LiveLeaves(Nat \cup Foreign)
    BY <1>4, <1>5
  <2>2. QED
    BY <1>3, <2>1, ListIsSeq
<1>7. Q \in Seq(LeafEntries(Nat)) /\ Len(Q) = m
  <2>1. Q = [k \in 1..m |-> Q[k]] /\ \A k \in 1..m : Q[k] \in LeafEntries(Nat)
    BY <1>4, <1>5
  <2>2. QED
    BY <1>3, <2>1, ListIsSeq
<1>8. \A k \in 1..m : node(k) \in Nodes /\ P[k] = Block(node(k), first + k - 1)
                        /\ Q[k] = Entry(node(k), first + k - 1)
  BY <1>2, <1>3, <1>4
<1>9. IsFresh(P, first) /\ IsFresh(Q, first)
  BY <1>6, <1>7, <1>8 DEF IsFresh, Block, Entry
<1>10. QED
  BY <1>3, <1>6, <1>7, <1>8, <1>9 DEF u, m, P, Q, node

\* What a call does to the working cache,
LEMMA RecordedIs ==
    ASSUME Types, NEW call \in PlanCalls(rendering, Minted, Live), NEW first,
           NEW tree, IdsDiffer(tree)
    PROVE  LET t == Recorded(tree, call, first)
           IN  \/ /\ call.op = "append" /\ Parent(call) = Page
                  /\ t = Placed(tree, NewEntries(call, first), call.at, Anchor(call))
               \/ /\ call.op = "append" /\ Parent(call) # Page
                  /\ t = Grafted(tree, Parent(call), NewEntries(call, first), call.at, Anchor(call))
               \/ call.op = "update" /\ t = Rehashed(tree, call.id, call.hash)
               \/ call.op = "remove" /\ t = Without(tree, call.id)
               \/ call.op \in {"create", "rename", "move", "archive"} /\ t = tree
<1> DEFINE t == Recorded(tree, call, first)
           new == NewEntries(call, first)
<1>1. call.op \in {"append", "update", "remove", "create", "rename", "move", "archive"}
  BY DEF PlanCalls, Appends, Clears
<1>2. CASE call.op = "append"
  <2>1. t = WithUnder(tree, Parent(call), Placed(Under(tree, Parent(call)), new, call.at, Anchor(call)))
    BY <1>2 DEF Recorded, NewEntries
  <2> HIDE DEF new, t
  <2>2. CASE Parent(call) = Page
    <3>1. t = Placed(tree, new, call.at, Anchor(call))
      BY <2>1, <2>2 DEF Under, WithUnder
    <3>2. QED
      BY <1>2, <2>2, <3>1 DEF t, new
  <2>3. CASE Parent(call) # Page
    BY <1>2, <2>1, <2>3, GraftedIs DEF t, new
  <2>4. QED
    BY <2>2, <2>3
<1>3. CASE call.op # "append"
  BY <1>1, <1>3 DEF Recorded
<1>4. QED
  BY <1>2, <1>3

\* and to the page.
LEMMA LandedIs ==
    ASSUME Types, NEW call \in PlanCalls(rendering, Minted, Live), NEW first,
           NEW tree, IdsDiffer(tree)
    PROVE  LET t == Landed(tree, call, first)
           IN  \/ /\ call.op = "append" /\ Parent(call) = Page
                  /\ t = Placed(tree, NewBlocks(call, first), call.at, Anchor(call))
               \/ /\ call.op = "append" /\ Parent(call) # Page
                  /\ t = Grafted(tree, Parent(call), NewBlocks(call, first), call.at, Anchor(call))
               \/ call.op = "create" /\ t = Append(tree, Block(NodeAt(rendering, call.node), first))
               \/ call.op \in {"update", "rename"} /\ t = Rehashed(tree, call.id, call.hash)
               \/ Clearing(call) /\ t = Without(tree, call.id)
               \/ call.op = "move" /\ t = tree
<1> DEFINE t == Landed(tree, call, first)
           new == NewBlocks(call, first)
<1>1. call.op \in {"append", "update", "remove", "create", "rename", "move", "archive"}
  BY DEF PlanCalls, Appends, Clears
<1>2. CASE call.op = "append"
  <2>1. t = WithUnder(tree, Parent(call), Placed(Under(tree, Parent(call)), new, call.at, Anchor(call)))
    BY <1>2 DEF Landed, NewBlocks
  <2> HIDE DEF new, t
  <2>2. CASE Parent(call) = Page
    <3>1. t = Placed(tree, new, call.at, Anchor(call))
      BY <2>1, <2>2 DEF Under, WithUnder
    <3>2. QED
      BY <1>2, <2>2, <3>1 DEF t, new
  <2>3. CASE Parent(call) # Page
    BY <1>2, <2>1, <2>3, GraftedIs DEF t, new
  <2>4. QED
    BY <2>2, <2>3
<1>3. CASE call.op # "append"
  BY <1>1, <1>3 DEF Landed, Clearing
<1>4. QED
  BY <1>2, <1>3

\* The calls leave every id of the working cache its own,
LEMMA SoleRecorded ==
    ASSUME Types, NEW call \in PlanCalls(rendering, Minted, Live),
           NEW first \in Nat, first >= nextId, Sole(work)
    PROVE  Sole(Recorded(work, call, first))
<1> DEFINE N == NodeEntries(Nat)
           L == LeafEntries(Nat)
           new == NewEntries(call, first)
           t == Recorded(work, call, first)
<1>1. Nodal(N, L) /\ L \subseteq N
  BY TreesAreNodal, EntriesAreNodes DEF NodeEntries
<1>2. nextId \in Nat /\ Minted \subseteq Nat /\ work \in Seq(NodeEntries(Minted))
      /\ rendering \in Renderings
  BY DEF Types, Minted
<1>3. work \in Seq(N)
  BY <1>2, MoreNodes
<1>4. \A i \in DOMAIN work : work[i] \in NodeEntries(Minted)
  BY <1>2
<1>5. ASSUME NEW i \in DOMAIN work
      PROVE  Older(work[i].id, first) /\ \A x : HasKid(work[i], x) => Older(x, first)
  <2>1. work[i].id \in Minted /\ work[i].kids \in Seq(LeafEntries(Minted))
    BY <1>4 DEF NodeEntries, EntryLevels
  <2> DEFINE s == work[i].kids
  <2>2. \A k \in DOMAIN s : s[k].id \in Minted
    <3>1. s \in Seq(LeafEntries(Minted))
      BY <2>1
    <3> HIDE DEF s
    <3>2. \A k \in DOMAIN s : s[k] \in LeafEntries(Minted)
      BY <3>1
    <3>3. QED
      BY <3>2 DEF LeafEntries
  <2>3. \A x \in Minted : Older(x, first)
    BY <1>2 DEF Minted, Older
  <2>4. QED
    BY <2>1, <2>2, <2>3 DEF HasKid
<1>6. IdsDiffer(work)
  BY DEF Sole
<1>7. \/ /\ call.op = "append" /\ Parent(call) = Page
         /\ t = Placed(work, new, call.at, Anchor(call))
      \/ /\ call.op = "append" /\ Parent(call) # Page
         /\ t = Grafted(work, Parent(call), new, call.at, Anchor(call))
      \/ call.op = "update" /\ t = Rehashed(work, call.id, call.hash)
      \/ call.op = "remove" /\ t = Without(work, call.id)
      \/ call.op \in {"create", "rename", "move", "archive"} /\ t = work
  BY <1>6, RecordedIs
<1> HIDE DEF N, L, new, t
<1>8. ASSUME call.op = "append"
      PROVE  new \in Seq(L) /\ IsFresh(new, first) /\ \A k \in 1..Len(new) : new[k].kids = <<>>
  <2>1. new \in Seq(L) /\ IsFresh(new, first)
    BY <1>2, <1>8, NewNodesAre DEF L, new
  <2>2. \A k \in 1..Len(new) : new[k] \in L
    BY <2>1
  <2>3. QED
    BY <2>1, <2>2 DEF L, LeafEntries
<1>9. CASE call.op = "append" /\ t = Placed(work, new, call.at, Anchor(call))
  <2>1. new \in Seq(N)
    BY <1>1, <1>8, <1>9, SeqSubset
  <2>2. Sole(t)
    BY <1>3, <1>5, <1>8, <1>9, <2>1, SolePlaced
  <2>3. QED
    BY <2>2 DEF t
<1>10. CASE call.op = "append" /\ t = Grafted(work, Parent(call), new, call.at, Anchor(call))
  <2>1. Sole(t)
    BY <1>1, <1>3, <1>5, <1>8, <1>10, SoleGrafted
  <2>2. QED
    BY <2>1 DEF t
<1>11. CASE t = Rehashed(work, call.id, call.hash)
  BY <1>1, <1>3, <1>11, SoleRehashed DEF t
<1>12. CASE t = Without(work, call.id)
  BY <1>1, <1>3, <1>12, SoleWithout DEF t
<1>13. QED
  BY <1>7, <1>9, <1>10, <1>11, <1>12 DEF t

\* and every child of the page.
LEMMA DifferLanded ==
    ASSUME Types, NEW call \in PlanCalls(rendering, Minted, Live),
           NEW first \in Nat, first >= nextId,
           NEW tree \in Seq(LiveNodes(Before(first) \cup Foreign)), IdsDiffer(tree)
    PROVE  IdsDiffer(Landed(tree, call, first))
<1> DEFINE N == LiveNodes(Nat \cup Foreign)
           L == LiveLeaves(Nat \cup Foreign)
           new == NewBlocks(call, first)
           t == Landed(tree, call, first)
<1>1. Nodal(N, L) /\ L \subseteq N
  BY TreesAreNodal, LiveAreNodes DEF LiveNodes
<1>2. nextId \in Nat /\ Before(first) \cup Foreign \subseteq Nat \cup Foreign
      /\ rendering \in Renderings /\ Foreign \cap Nat = {}
  BY PageAssumption DEF Types, Before, ConstantsAssumption
<1>3. tree \in Seq(N)
  BY <1>2, MoreNodes
<1>4. DOMAIN tree = 1..Len(tree) /\ Len(tree) \in Nat /\ \A i \in 1..Len(tree) : Older(tree[i].id, first)
  <2>1. \A i \in 1..Len(tree) : tree[i] \in LiveNodes(Before(first) \cup Foreign)
    OBVIOUS
  <2>2. \A i \in 1..Len(tree) : tree[i].id \in Before(first) \cup Foreign
    BY <2>1 DEF LiveNodes, LiveLevels
  <2>3. QED
    BY <1>2, <2>2 DEF Before, Older
<1>5. \/ /\ call.op = "append" /\ Parent(call) = Page
         /\ t = Placed(tree, new, call.at, Anchor(call))
      \/ /\ call.op = "append" /\ Parent(call) # Page
         /\ t = Grafted(tree, Parent(call), new, call.at, Anchor(call))
      \/ call.op = "create" /\ t = Append(tree, Block(NodeAt(rendering, call.node), first))
      \/ call.op \in {"update", "rename"} /\ t = Rehashed(tree, call.id, call.hash)
      \/ Clearing(call) /\ t = Without(tree, call.id)
      \/ call.op = "move" /\ t = tree
  BY LandedIs
<1> HIDE DEF N, L, new, t
<1>6. ASSUME call.op = "append" PROVE new \in Seq(L) /\ IsFresh(new, first)
  BY <1>2, <1>6, NewNodesAre DEF L, new
<1>7. CASE call.op = "append" /\ t = Placed(tree, new, call.at, Anchor(call))
  <2>1. new \in Seq(N)
    BY <1>1, <1>6, <1>7, SeqSubset
  <2>2. IsPlaced(t, tree, new, call.at, Anchor(call))
    BY <1>3, <1>7, <2>1, PlacedIs
  <2>3. IdsDiffer(t)
    BY <1>4, <1>6, <1>7, <2>2, DifferPlaced
  <2>4. QED
    BY <2>3 DEF t
<1>8. CASE call.op = "append" /\ t = Grafted(tree, Parent(call), new, call.at, Anchor(call))
  <2>1. DOMAIN t = DOMAIN tree
    BY <1>8 DEF Grafted
  <2>2. ASSUME NEW i \in DOMAIN tree PROVE t[i].id = tree[i].id
    <3> DEFINE s == Placed(tree[i].kids, new, call.at, Anchor(call))
    <3>1. t[i] = IF tree[i].id = Parent(call) THEN [tree[i] EXCEPT !.kids = s] ELSE tree[i]
      BY <1>8, <2>2 DEF Grafted
    <3>2. tree[i] \in N
      BY <1>3
    <3>3. Fields(tree[i])
      BY <1>1, <3>2 DEF Nodal
    <3> HIDE DEF s
    <3>4. QED
      BY <3>1, <3>3 DEF Fields
  <2>3. QED
    BY <2>1, <2>2 DEF IdsDiffer, t
<1>9. CASE call.op = "create" /\ t = Append(tree, Block(NodeAt(rendering, call.node), first))
  <2> DEFINE b == Block(NodeAt(rendering, call.node), first)
  <2>1. b.id = first
    BY DEF Block
  <2>2. b \in N
    <3>1. NodeAt(rendering, call.node) \in Nodes
      <4>1. Created(call) = <<call.node>>
        BY <1>9 DEF Created
      <4>2. QED
        BY <1>2, <4>1, CreatedType
    <3>2. b \in LiveLeaves(Nat \cup Foreign)
      BY <3>1, BlockType
    <3>3. QED
      BY <1>1, <3>2 DEF L
  <2> HIDE DEF b
  <2>3. /\ Len(t) = Len(tree) + 1 /\ \A i \in 1..Len(tree) : t[i] = tree[i]
        /\ t[Len(tree) + 1] = b /\ DOMAIN t = 1..Len(t)
    <3>1. t = Append(tree, b) /\ t \in Seq(N)
      BY <1>3, <1>9, <2>2, AppendIs DEF b
    <3>2. QED
      BY <1>3, <2>2, <3>1, AppendIs
  <2>4. \A i \in 1..Len(tree) : tree[i].id # first
    BY <1>4 DEF Older
  <2>5. \A i \in 1..Len(t) : i \in 1..Len(tree) \/ i = Len(tree) + 1
    BY <1>4, <2>3
  <2>6. IdsDiffer(t)
    <3> SUFFICES ASSUME NEW i \in 1..Len(t), NEW j \in 1..Len(t), t[i].id = t[j].id PROVE i = j
      BY <2>3 DEF IdsDiffer
    <3>1. CASE i \in 1..Len(tree) /\ j \in 1..Len(tree)
      BY <1>4, <2>3, <3>1 DEF IdsDiffer
    <3>2. QED
      BY <2>1, <2>3, <2>4, <2>5, <3>1
  <2>7. QED
    BY <2>6 DEF t
<1>10. CASE t = Rehashed(tree, call.id, call.hash)
  <2>1. IsRehashed(t, tree, call.id, call.hash)
    BY <1>1, <1>3, <1>10, RehashedIs
  <2>2. QED
    BY <2>1 DEF IsRehashed, Renewed, IdsDiffer, t
<1>11. CASE t = Without(tree, call.id)
  <2>1. PICK pos : IsSieved(t, pos, tree, call.id)
    BY <1>1, <1>3, <1>11, WithoutIs
  <2>2. IdsDiffer(t)
    BY <1>4, <2>1, DifferSieved
  <2>3. QED
    BY <2>2 DEF t
<1>12. QED
  BY <1>5, <1>7, <1>8, <1>9, <1>10, <1>11 DEF t

----------------------------------------------------------------------------
(* What a sync begins with: ids of their own, and what is passed on *)

\* The base has the ids of the live children, and their children from the cache.
LEMMA SoleBase ==
    ASSUME NEW live, NEW tree, NEW base, IsBaseOf(base, live, tree), IdsDiffer(live), Sole(tree)
    PROVE  Sole(base)
<1>1. IdsDiffer(base)
  BY DEF IsBaseOf, IdsDiffer
<1>2. ASSUME NEW i \in DOMAIN base, NEW k \in DOMAIN base[i].kids
      PROVE  \E a \in DOMAIN tree : base[i] = tree[a]
  BY <1>2 DEF IsBaseOf, ToSet
<1>3. ASSUME NEW i \in DOMAIN base PROVE IdsDiffer(base[i].kids)
  <2> SUFFICES ASSUME NEW k \in DOMAIN base[i].kids, NEW l \in DOMAIN base[i].kids,
                      base[i].kids[k].id = base[i].kids[l].id
               PROVE  k = l
    BY DEF IdsDiffer
  <2>1. PICK a \in DOMAIN tree : base[i] = tree[a]
    BY <1>2
  <2>2. QED
    BY <2>1 DEF Sole, IdsDiffer
<1>4. ASSUME NEW i \in DOMAIN base, NEW j \in DOMAIN base, NEW x,
             HasKid(base[i], x), HasKid(base[j], x)
      PROVE  i = j
  <2>1. PICK a \in DOMAIN tree : base[i] = tree[a]
    BY <1>2, <1>4 DEF HasKid
  <2>2. PICK b \in DOMAIN tree : base[j] = tree[b]
    BY <1>2, <1>4 DEF HasKid
  <2>3. a = b
    BY <1>4, <2>1, <2>2 DEF Sole
  <2>4. QED
    BY <1>1, <2>1, <2>2, <2>3 DEF IdsDiffer
<1>5. QED
  BY <1>1, <1>3, <1>4 DEF Sole

Cached(base) == {i \in DOMAIN base : base[i].key # Ghost}

\* The working cache has the cached ones of them, in their order.
LEMMA ConfirmedPicks ==
    ASSUME NEW ids, NEW all, NEW base, IsBase(base, ids, all)
    PROVE  /\ \E pos : IsPicking(Confirmed(base), pos, base, Cached(base))
           /\ Cached(base) \subseteq 1..Len(base) /\ DOMAIN base = 1..Len(base) /\ Len(base) \in Nat
<1>1. base \in Seq(NodeEntries(ids) \cup Placeholders(all))
  BY DEF IsBase
<1>2. DOMAIN base = 1..Len(base) /\ Len(base) \in Nat
  BY <1>1
<1>3. Cached(base) \in SUBSET (1..Len(base))
  BY <1>2 DEF Cached
<1>4. \E pos : IsPicking(Picked(base, Cached(base)), pos, base, Cached(base))
  BY <1>1, <1>3, PickedUnfolds
<1>5. QED
  BY <1>2, <1>3, <1>4 DEF Confirmed, Cached

\* Each of them has an id of its own.
LEMMA SoleConfirmed ==
    ASSUME NEW ids, NEW all, NEW base, IsBase(base, ids, all), Sole(base)
    PROVE  Sole(Confirmed(base))
<1> DEFINE t == Confirmed(base)
<1>1. PICK pos : IsPicking(t, pos, base, Cached(base))
  BY ConfirmedPicks
<1>2. /\ Len(t) \in Nat /\ DOMAIN t = 1..Len(t)
      /\ \A k \in 1..Len(t) : pos[k] \in DOMAIN base /\ t[k] = base[pos[k]]
      /\ \A k, l \in 1..Len(t) : k < l => pos[k] < pos[l]
  BY <1>1, ConfirmedPicks, SMTT(30) DEF IsPicking
<1>3. DOMAIN base \subseteq Nat
  BY ConfirmedPicks
<1> HIDE DEF t
<1>4. \A k, l \in DOMAIN t : pos[k] = pos[l] => k = l
  <2> SUFFICES ASSUME NEW k \in DOMAIN t, NEW l \in DOMAIN t, pos[k] = pos[l]
               PROVE  k = l
    OBVIOUS
  <2>1. k \in Nat /\ l \in Nat /\ pos[k] \in Nat /\ pos[l] \in Nat
    BY <1>2, <1>3
  <2>2. ~(k < l) /\ ~(l < k)
    BY <1>2, <2>1
  <2>3. QED
    BY <2>1, <2>2
<1>5. \A k \in DOMAIN t : IdsDiffer(t[k].kids)
  BY <1>2 DEF Sole
<1>6. \A k \in DOMAIN t : pos[k] \in DOMAIN base /\ t[k] = base[pos[k]]
  BY <1>2
<1>7. Sole(t)
  BY <1>4, <1>5, <1>6, SoleFrom
<1>8. QED
  BY <1>7 DEF t

\* The one cached sibling with a key that is kept.
IsEntry(bs, x, c) ==
    /\ x \in DOMAIN bs /\ NodeWith(bs, c.key) = bs[x] /\ Matches(bs[x], c)
    /\ \A y \in DOMAIN bs : bs[y].key = c.key => y = x

\* The cached sibling with a key that both lists have is of the same kind.
LEMMA KeptMatches ==
    ASSUME NEW ids, NEW all, NEW bs, IsBase(bs, ids, all), UniqueKeys(bs),
           NEW cs, IsRendered(cs), NEW i \in 1..Len(cs), cs[i].key \in CommonKeys(bs, cs)
    PROVE  \E x : IsEntry(bs, x, cs[i])
<1>1. PICK b \in ToSet(bs) : b.key = cs[i].key /\ \E c \in ToSet(cs) : Matches(b, c)
  BY DEF CommonKeys
<1>2. PICK c \in ToSet(cs) : Matches(b, c)
  BY <1>1
<1>3. cs \in Seq(Nodes) /\ DOMAIN cs = 1..Len(cs)
  BY DEF IsRendered
<1>4. c = cs[i]
  <2>1. PICK j \in DOMAIN cs : c = cs[j]
    BY <1>2 DEF ToSet
  <2>2. cs[j].key = cs[i].key
    BY <1>1, <1>2, <2>1 DEF Matches
  <2>3. QED
    BY <1>3, <2>1, <2>2 DEF IsRendered, KeysDiffer
<1>5. PICK x \in DOMAIN bs : b = bs[x]
  BY <1>1 DEF ToSet
<1>6. cs[i].key # Ghost
  BY <1>3, NodeType, KeysAreNoGhosts
<1>7. \A y \in DOMAIN bs : bs[y].key = cs[i].key => y = x
  BY <1>1, <1>5, <1>6 DEF UniqueKeys
<1>8. NodeWith(bs, cs[i].key) = bs[x]
  BY <1>1, <1>5, <1>7 DEF NodeWith
<1>9. QED
  BY <1>2, <1>4, <1>5, <1>7, <1>8 DEF IsEntry

\* What the lists of a diff pass on, sibling by sibling.
Passed(b, m, r) ==
    /\ DOMAIN b \subseteq Paths(r)
    /\ \A i \in 1..Len(r) :
        /\ <<r[i].key>> \in DOMAIN b <=> Stays(m, r, i)
        /\ Stays(m, r, i) =>
            \E x : IsEntry(m.top.old, x, r[i]) /\ b[<<r[i].key>>] = m.top.old[x].id
    /\ \A i \in 1..Len(r) : \A k \in 1..Len(r[i].kids) :
        /\ <<r[i].key, r[i].kids[k].key>> \in DOMAIN b <=> r[i].kids[k].key \in m.kids[i].kept
        /\ r[i].kids[k].key \in m.kids[i].kept =>
            /\ r[i].key \in m.top.kept
            /\ \E y : /\ IsEntry(m.kids[i].old, y, r[i].kids[k])
                     /\ b[<<r[i].key, r[i].kids[k].key>>] = m.kids[i].old[y].id

\* A sibling that stays is of the same kind.
LEMMA StaysMatched ==
    ASSUME NEW ids, NEW all, NEW r \in Renderings, NEW base,
           NEW m, IsMatching(m, base, r, ids, all), Diffable(m),
           NEW i \in 1..Len(r), Stays(m, r, i)
    PROVE  \E x : IsEntry(base, x, r[i])
<1>1. /\ IsDiff(m.top, Root, r, ids, all) /\ m.top.old = base /\ m.top.new = r
      /\ IsBase(base, ids, all) /\ UniqueKeys(base) /\ IsRendered(r)
  BY RenderingType DEF IsMatching, IsDiff, Diffable
<1>2. r[i].key \in CommonKeys(base, r)
  <2>1. CASE r[i].key \in m.top.kept
    BY <1>1, <2>1 DEF IsDiff
  <2>2. CASE IsMoved(m.top.old, m.top.kept, r[i])
    <3>1. PICK b \in ToSet(base) : Matches(b, r[i])
      BY <1>1, <2>2 DEF IsMoved
    <3>2. r[i] \in ToSet(r)
      BY <1>1 DEF IsRendered, ToSet
    <3>3. QED
      BY <3>1, <3>2 DEF CommonKeys, Matches
  <2>3. QED
    BY <2>1, <2>2 DEF Stays
<1>3. QED
  BY <1>1, <1>2, KeptMatches

\* So is a child that is kept, and its parent is kept as well.
KidsStay(m, base, r) ==
    \A i \in 1..Len(r) : \A k \in 1..Len(r[i].kids) :
        r[i].kids[k].key \in m.kids[i].kept =>
            /\ r[i].key \in m.top.kept /\ m.kids[i].old = NodeWith(base, r[i].key).kids
            /\ \E y : IsEntry(m.kids[i].old, y, r[i].kids[k])

LEMMA KidsMatched ==
    ASSUME NEW ids, NEW all, NEW r \in Renderings, NEW base,
           NEW m, IsMatching(m, base, r, ids, all), Diffable(m)
    PROVE  KidsStay(m, base, r)
<1>1. SUFFICES ASSUME NEW i \in 1..Len(r), NEW k \in 1..Len(r[i].kids),
                      r[i].kids[k].key \in m.kids[i].kept
               PROVE  /\ r[i].key \in m.top.kept /\ m.kids[i].old = NodeWith(base, r[i].key).kids
                      /\ \E y : IsEntry(m.kids[i].old, y, r[i].kids[k])
  BY DEF KidsStay
<1> DEFINE list == m.kids[i]
           c == r[i].kids[k]
<1>2. /\ IsDiff(list, <<r[i].key>>, r, ids, all) /\ list.new = r[i].kids
      /\ UniqueKeys(list.old)
      /\ list.old = IF r[i].key \in m.top.kept THEN NodeWith(base, r[i].key).kids ELSE <<>>
  BY DEF IsMatching, Diffable
<1>3. IsBase(list.old, ids, all) /\ IsRendered(r[i].kids) /\ c.key \in CommonKeys(list.old, r[i].kids)
  BY <1>1, <1>2 DEF IsDiff
<1> HIDE DEF list
<1>4. \E y : IsEntry(list.old, y, c)
  BY <1>2, <1>3, KeptMatches
<1>5. list.old # <<>>
  BY <1>4 DEF IsEntry
<1>6. QED
  BY <1>2, <1>4, <1>5 DEF list

\* The bindings at the start are what the lists pass on.
LEMMA InheritedPasses ==
    ASSUME NEW ids, NEW all, NEW r \in Renderings, NEW base,
           NEW m, IsMatching(m, base, r, ids, all), Diffable(m)
    PROVE  Passed(Inherited(m), m, r)
<1>0. KidsStay(m, base, r)
  BY KidsMatched
<1> DEFINE stays == {i \in DOMAIN r : \/ r[i].key \in m.top.kept
                                      \/ IsMoved(m.top.old, m.top.kept, r[i])}
           paths == {<<r[i].key>> : i \in stays}
                        \cup UNION {{<<r[i].key, k>> : k \in m.kids[i].kept} : i \in stays}
           b == Inherited(m)
<1>1. b = [p \in paths |-> NodeAt(base, p).id]
  BY DEF Inherited, IsMatching
<1>2. /\ IsRendered(r) /\ r \in Seq(Nodes) /\ DOMAIN r = 1..Len(r)
      /\ \A i \in 1..Len(r) : IsRendered(r[i].kids) /\ DOMAIN r[i].kids = 1..Len(r[i].kids)
  BY RenderingType DEF IsRendered
<1>3. \A i : i \in stays <=> i \in 1..Len(r) /\ Stays(m, r, i)
  BY <1>2 DEF Stays
<1>4. \A p : p \in paths <=> \/ \E i \in stays : p = <<r[i].key>>
                             \/ \E i \in stays : \E k \in m.kids[i].kept : p = <<r[i].key, k>>
  OBVIOUS
<1>5. m.top.old = base /\ IsInherited(b, m, r, ids)
  <2>1. m.top.old = base
    BY DEF IsMatching
  <2>2. IsInherited(Inherited(m), m, r, ids)
    BY InheritedIs
  <2>3. QED
    BY <2>1, <2>2
<1> HIDE DEF stays, paths, b
<1>6. DOMAIN b = paths /\ \A p \in paths : b[p] = NodeAt(base, p).id
  BY <1>1
<1>7. ASSUME NEW i \in 1..Len(r)
      PROVE  /\ <<r[i].key>> \in DOMAIN b <=> Stays(m, r, i)
             /\ Stays(m, r, i) => \E x : IsEntry(base, x, r[i]) /\ b[<<r[i].key>>] = base[x].id
  <2>1. <<r[i].key>> \in DOMAIN b <=> Stays(m, r, i)
    BY <1>5 DEF IsInherited
  <2>2. ASSUME Stays(m, r, i)
        PROVE  \E x : IsEntry(base, x, r[i]) /\ b[<<r[i].key>>] = base[x].id
    <3>1. PICK x : IsEntry(base, x, r[i])
      BY <2>2, StaysMatched
    <3>2. NodeAt(base, <<r[i].key>>) = NodeWith(base, r[i].key)
      BY DEF NodeAt
    <3>3. b[<<r[i].key>>] = NodeAt(base, <<r[i].key>>).id
      BY <1>6, <2>1, <2>2
    <3>4. QED
      BY <3>1, <3>2, <3>3 DEF IsEntry
  <2>3. QED
    BY <2>1, <2>2
<1>8. ASSUME NEW i \in 1..Len(r), NEW k \in 1..Len(r[i].kids)
      PROVE  /\ <<r[i].key, r[i].kids[k].key>> \in DOMAIN b <=> r[i].kids[k].key \in m.kids[i].kept
             /\ r[i].kids[k].key \in m.kids[i].kept =>
                 /\ r[i].key \in m.top.kept
                 /\ \E y : /\ IsEntry(m.kids[i].old, y, r[i].kids[k])
                          /\ b[<<r[i].key, r[i].kids[k].key>>] = m.kids[i].old[y].id
  <2> DEFINE p == <<r[i].key, r[i].kids[k].key>>
             kid == r[i].kids[k]
  <2>1. ASSUME p \in DOMAIN b PROVE kid.key \in m.kids[i].kept
    <3>1. \A j : p # <<r[j].key>>
      OBVIOUS
    <3>2. \E j \in stays : \E key \in m.kids[j].kept : p = <<r[j].key, key>>
      BY <1>4, <1>6, <2>1, <3>1
    <3>3. PICK j \in stays : \E key \in m.kids[j].kept : p = <<r[j].key, key>>
      BY <3>2
    <3>4. r[i].key = r[j].key /\ kid.key \in m.kids[j].kept
      BY <3>3
    <3>5. \A x, y \in 1..Len(r) : r[x].key = r[y].key => x = y
      BY <1>2 DEF IsRendered, KeysDiffer
    <3>6. j \in 1..Len(r)
      BY <1>3, <3>3
    <3>7. i = j
      BY <3>4, <3>5, <3>6
    <3>8. QED
      BY <3>4, <3>7
  <2>2. ASSUME kid.key \in m.kids[i].kept
        PROVE  /\ p \in DOMAIN b /\ r[i].key \in m.top.kept
               /\ \E y : IsEntry(m.kids[i].old, y, kid) /\ b[p] = m.kids[i].old[y].id
    <3>1. /\ r[i].key \in m.top.kept /\ m.kids[i].old = NodeWith(base, r[i].key).kids
          /\ \E y : IsEntry(m.kids[i].old, y, kid)
      BY <1>0, <1>8, <2>2 DEF KidsStay
    <3>2. PICK y : IsEntry(m.kids[i].old, y, kid)
      BY <3>1
    <3>3. i \in stays
      BY <1>3, <3>1 DEF Stays
    <3>4. p \in DOMAIN b
      BY <1>4, <1>6, <2>2, <3>3
    <3>5. NodeAt(base, p) = NodeWith(m.kids[i].old, kid.key)
      BY <3>1 DEF NodeAt
    <3>6. b[p] = NodeAt(base, p).id
      BY <1>6, <3>4
    <3>7. QED
      BY <3>1, <3>2, <3>4, <3>5, <3>6 DEF IsEntry
  <2>3. QED
    BY <2>1, <2>2
<1>9. DOMAIN b \subseteq Paths(r)
  BY <1>5 DEF IsInherited
<1>10. QED
  BY <1>5, <1>7, <1>8, <1>9 DEF Passed, b

----------------------------------------------------------------------------
(* No two rendered nodes have one id *)

BindsDiffer(b) == \A p, q \in DOMAIN b : b[p] = b[q] => p = q

\* What is passed on comes from different nodes.
LEMMA InheritedDiffer ==
    ASSUME NEW ids, NEW all, NEW r \in Renderings, NEW base,
           NEW m, IsMatching(m, base, r, ids, all), Diffable(m), Sole(base),
           NEW upper, NEW lower, upper \cap lower = {},
           \A p \in DOMAIN Inherited(m) : Inherited(m)[p] \in IF p \in Tops(r) THEN upper ELSE lower
    PROVE  BindsDiffer(Inherited(m))
<1>0. KidsStay(m, base, r)
  BY KidsMatched
<1> DEFINE b == Inherited(m)
<1>1. Passed(b, m, r) /\ m.top.old = base /\ DOMAIN b \subseteq Paths(r)
  <2>1. Passed(b, m, r)
    BY InheritedPasses
  <2>2. m.top.old = base
    BY DEF IsMatching
  <2>3. QED
    BY <2>1, <2>2 DEF Passed
<1>2. \A p \in DOMAIN b : b[p] \in IF p \in Tops(r) THEN upper ELSE lower
  OBVIOUS
<1> HIDE DEF b
<1>3. IsRendered(r) /\ DOMAIN r = 1..Len(r) /\ \A i \in 1..Len(r) : IsRendered(r[i].kids)
  BY RenderingType DEF IsRendered
<1>4. ASSUME NEW i \in 1..Len(r), NEW j \in 1..Len(r), <<r[i].key>> \in DOMAIN b,
             <<r[j].key>> \in DOMAIN b, b[<<r[i].key>>] = b[<<r[j].key>>]
      PROVE  r[i].key = r[j].key
  <2>1. PICK x : IsEntry(base, x, r[i]) /\ b[<<r[i].key>>] = base[x].id
    BY <1>1, <1>4 DEF Passed
  <2>2. PICK y : IsEntry(base, y, r[j]) /\ b[<<r[j].key>>] = base[y].id
    BY <1>1, <1>4 DEF Passed
  <2>3. x = y
    BY <1>4, <2>1, <2>2 DEF Sole, IdsDiffer, IsEntry
  <2>4. QED
    BY <2>1, <2>2, <2>3 DEF IsEntry, Matches
<1>5. ASSUME NEW i \in 1..Len(r), NEW k \in 1..Len(r[i].kids),
             <<r[i].key, r[i].kids[k].key>> \in DOMAIN b
      PROVE  \E x, y : /\ IsEntry(base, x, r[i]) /\ IsEntry(base[x].kids, y, r[i].kids[k])
                       /\ b[<<r[i].key, r[i].kids[k].key>>] = base[x].kids[y].id
  <2>1. r[i].kids[k].key \in m.kids[i].kept /\ r[i].key \in m.top.kept
    BY <1>1, <1>5 DEF Passed
  <2>2. PICK y : /\ IsEntry(m.kids[i].old, y, r[i].kids[k])
                 /\ b[<<r[i].key, r[i].kids[k].key>>] = m.kids[i].old[y].id
    BY <1>1, <2>1 DEF Passed
  <2>3. PICK x : IsEntry(base, x, r[i])
    BY <2>1, StaysMatched DEF Stays
  <2>4. m.kids[i].old = NodeWith(base, r[i].key).kids
    BY <1>0, <1>5, <2>1 DEF KidsStay
  <2>5. m.kids[i].old = base[x].kids
    BY <2>3, <2>4 DEF IsEntry
  <2>6. QED
    BY <2>2, <2>3, <2>5
<1>6. ASSUME NEW i \in 1..Len(r), NEW k \in 1..Len(r[i].kids),
             NEW j \in 1..Len(r), NEW l \in 1..Len(r[j].kids),
             <<r[i].key, r[i].kids[k].key>> \in DOMAIN b,
             <<r[j].key, r[j].kids[l].key>> \in DOMAIN b,
             b[<<r[i].key, r[i].kids[k].key>>] = b[<<r[j].key, r[j].kids[l].key>>]
      PROVE  r[i].key = r[j].key /\ r[i].kids[k].key = r[j].kids[l].key
  <2>1. PICK x, y : /\ IsEntry(base, x, r[i]) /\ IsEntry(base[x].kids, y, r[i].kids[k])
                    /\ b[<<r[i].key, r[i].kids[k].key>>] = base[x].kids[y].id
    BY <1>5, <1>6
  <2>2. PICK u, v : /\ IsEntry(base, u, r[j]) /\ IsEntry(base[u].kids, v, r[j].kids[l])
                    /\ b[<<r[j].key, r[j].kids[l].key>>] = base[u].kids[v].id
    BY <1>5, <1>6
  <2>3. /\ x \in DOMAIN base /\ u \in DOMAIN base
        /\ y \in DOMAIN base[x].kids /\ v \in DOMAIN base[u].kids
        /\ base[x].kids[y].id = base[u].kids[v].id
    BY <1>6, <2>1, <2>2 DEF IsEntry
  <2>4. x = u
    BY <2>3 DEF Sole, HasKid
  <2>5. y = v
    BY <2>3, <2>4 DEF Sole, IdsDiffer
  <2>6. QED
    BY <2>1, <2>2, <2>4, <2>5 DEF IsEntry, Matches
<1>7. \A p \in DOMAIN b :
        \/ p \in Tops(r) /\ \E i \in 1..Len(r) : p = <<r[i].key>>
        \/ p \notin Tops(r) /\ \E i \in 1..Len(r) : \E k \in 1..Len(r[i].kids) :
                                    p = <<r[i].key, r[i].kids[k].key>>
  <2> SUFFICES ASSUME NEW p \in DOMAIN b
               PROVE  \/ p \in Tops(r) /\ \E i \in 1..Len(r) : p = <<r[i].key>>
                      \/ p \notin Tops(r) /\ \E i \in 1..Len(r) : \E k \in 1..Len(r[i].kids) :
                                                p = <<r[i].key, r[i].kids[k].key>>
    OBVIOUS
  <2>1. p \in Paths(r)
    BY <1>1
  <2>2. CASE p \in Tops(r)
    BY <2>2, TopsUnfold
  <2>3. CASE p \notin Tops(r)
    BY <2>1, <2>3, PathsUnfold, TopsUnfold
  <2>4. QED
    BY <2>2, <2>3
<1>8. SUFFICES ASSUME NEW p \in DOMAIN b, NEW q \in DOMAIN b, b[p] = b[q] PROVE p = q
  BY DEF BindsDiffer, b
<1>9. p \in Tops(r) <=> q \in Tops(r)
  BY <1>2, <1>8
<1>10. CASE p \in Tops(r)
  <2>1. PICK i \in 1..Len(r) : p = <<r[i].key>>
    BY <1>7, <1>10
  <2>2. PICK j \in 1..Len(r) : q = <<r[j].key>>
    BY <1>7, <1>9, <1>10
  <2>3. QED
    BY <1>4, <1>8, <2>1, <2>2
<1>11. CASE p \notin Tops(r)
  <2>1. PICK i \in 1..Len(r) : \E k \in 1..Len(r[i].kids) : p = <<r[i].key, r[i].kids[k].key>>
    BY <1>7, <1>11
  <2>2. PICK k \in 1..Len(r[i].kids) : p = <<r[i].key, r[i].kids[k].key>>
    BY <2>1
  <2>3. PICK j \in 1..Len(r) : \E l \in 1..Len(r[j].kids) : q = <<r[j].key, r[j].kids[l].key>>
    BY <1>7, <1>9, <1>11
  <2>4. PICK l \in 1..Len(r[j].kids) : q = <<r[j].key, r[j].kids[l].key>>
    BY <2>3
  <2>5. QED
    BY <1>6, <1>8, <2>2, <2>4
<1>12. QED
  BY <1>10, <1>11

IsBound(b, old, new, first) ==
    /\ DOMAIN b = ToSet(new) \cup DOMAIN old
    /\ \A p \in ToSet(new) : \E k \in DOMAIN new : new[k] = p /\ b[p] = first + k - 1
    /\ \A p \in DOMAIN old \ ToSet(new) : b[p] = old[p]

\* Each path that a call creates gets the id of its place in the call.
LEMMA BindsAre ==
    ASSUME NEW call, NEW first
    PROVE  IsBound(Binds(call, first), bound, Created(call), first)
<1> DEFINE new == Created(call)
           at(p) == CHOOSE k \in DOMAIN new : new[k] = p
           b == Binds(call, first)
<1>1. b = [p \in ToSet(new) \cup DOMAIN bound |->
                IF p \in ToSet(new) THEN first + at(p) - 1 ELSE bound[p]]
  BY DEF Binds
<1>2. \A p \in ToSet(new) : at(p) \in DOMAIN new /\ new[at(p)] = p
  BY DEF ToSet
<1> HIDE DEF new, at, b
<1>3. /\ DOMAIN b = ToSet(new) \cup DOMAIN bound
      /\ \A p \in ToSet(new) : b[p] = first + at(p) - 1
      /\ \A p \in DOMAIN bound \ ToSet(new) : b[p] = bound[p]
  BY <1>1
<1>4. QED
  BY <1>2, <1>3 DEF b, new, IsBound

\* New ids are other ids.
LEMMA BindsStayApart ==
    ASSUME Types, NEW call \in PlanCalls(rendering, Minted, Live),
           NEW first \in Nat, first >= nextId, BindsDiffer(bound)
    PROVE  BindsDiffer(Binds(call, first))
<1> DEFINE b == Binds(call, first)
           new == Created(call)
<1>1. IsBound(b, bound, new, first)
  BY BindsAre
<1>2. DOMAIN new = 1..Len(new) /\ Len(new) \in Nat /\ nextId \in Nat /\ \A p \in DOMAIN bound : bound[p] \in 1..(nextId - 1)
  <2>1. new \in Seq(Paths(rendering))
    BY CreatedType DEF Types
  <2>2. DOMAIN new = 1..Len(new) /\ Len(new) \in Nat
    BY <2>1
  <2>3. nextId \in Nat /\ \A p \in DOMAIN bound : bound[p] \in 1..(nextId - 1)
    BY DEF Types, IsBinding, Minted
  <2>4. QED
    BY <2>2, <2>3
<1> HIDE DEF b, new
<1>3. SUFFICES ASSUME NEW p \in DOMAIN b, NEW q \in DOMAIN b, b[p] = b[q] PROVE p = q
  BY DEF BindsDiffer, b
<1>4. ASSUME NEW s \in DOMAIN b, s \notin ToSet(new)
      PROVE  s \in DOMAIN bound /\ b[s] = bound[s] /\ b[s] \in Nat /\ b[s] < first
  BY <1>1, <1>2, <1>4 DEF IsBound
<1>5. ASSUME NEW s \in ToSet(new)
      PROVE  \E k \in 1..Len(new) : new[k] = s /\ b[s] = first + k - 1 /\ b[s] >= first
  <2>1. PICK k \in DOMAIN new : new[k] = s /\ b[s] = first + k - 1
    BY <1>1 DEF IsBound
  <2>2. QED
    BY <1>2, <2>1
<1>6. CASE p \in ToSet(new) /\ q \in ToSet(new)
  <2>1. PICK k \in 1..Len(new) : new[k] = p /\ b[p] = first + k - 1
    BY <1>5, <1>6
  <2>2. PICK l \in 1..Len(new) : new[l] = q /\ b[q] = first + l - 1
    BY <1>5, <1>6
  <2>3. k = l
    <3>1. first + k - 1 = first + l - 1
      BY <1>3, <2>1, <2>2
    <3>2. k \in Nat /\ l \in Nat
      BY <1>2
    <3>3. QED
      BY <3>1, <3>2
  <2>4. QED
    BY <2>1, <2>2, <2>3
<1>7. CASE p \notin ToSet(new) /\ q \notin ToSet(new)
  BY <1>3, <1>4, <1>7 DEF BindsDiffer
<1>8. CASE p \in ToSet(new) /\ q \notin ToSet(new)
  BY <1>3, <1>4, <1>5, <1>8
<1>9. CASE p \notin ToSet(new) /\ q \in ToSet(new)
  BY <1>3, <1>4, <1>5, <1>9
<1>10. QED
  BY <1>6, <1>7, <1>8, <1>9

\* What the final snapshot saves of a rendered node.
Saves(e, c, id) ==
    e.id = id /\ e.key = c.key /\ e.kind = c.kind /\ e.hash = c.hash

IsSnapshot(t, r, b) ==
    /\ DOMAIN t = 1..Len(r)
    /\ \A i \in 1..Len(r) :
        /\ Saves(t[i], r[i], b[<<r[i].key>>])
        /\ DOMAIN t[i].kids = 1..Len(r[i].kids) /\ Len(t[i].kids) = Len(r[i].kids)
        /\ \A k \in 1..Len(r[i].kids) :
            Saves(t[i].kids[k], r[i].kids[k], b[<<r[i].key, r[i].kids[k].key>>])

\* The snapshot is the rendering with the ids that are bound.
LEMMA SnapshotIs ==
    ASSUME rendering \in Renderings
    PROVE  IsSnapshot(Snapshot, rendering, bound)
<1> DEFINE r == rendering
           At(p) == NodeAt(r, p)
           Saved(p) == LET n == NodeAt(rendering, p) IN Entry(n, bound[p])
           Kids(c) == [k \in DOMAIN c.kids |-> Saved(<<c.key, c.kids[k].key>>)]
           Whole(c) == [Saved(<<c.key>>) EXCEPT
                            !.kids = [k \in DOMAIN c.kids |-> Saved(<<c.key, c.kids[k].key>>)]]
<1>1. Snapshot = [i \in DOMAIN r |-> Whole(r[i])]
  BY DEF Snapshot
<1>2. \A p : /\ Saves(Saved(p), At(p), bound[p])
             /\ DOMAIN Saved(p) = {"id", "key", "kind", "hash", "kids"}
  BY DEF Saves, Entry
<1>3. /\ IsRendered(r) /\ r \in Seq(Nodes) /\ DOMAIN r = 1..Len(r)
      /\ \A i \in 1..Len(r) : IsRendered(r[i].kids) /\ r[i].kids \in Seq(Leaves)
  BY RenderingType DEF IsRendered
<1>4. \A i \in 1..Len(r) : At(<<r[i].key>>) = r[i]
  <2> SUFFICES ASSUME NEW i \in 1..Len(r) PROVE At(<<r[i].key>>) = r[i]
    OBVIOUS
  <2>1. At(<<r[i].key>>) = NodeWith(r, r[i].key)
    BY DEF NodeAt
  <2>2. QED
    BY <1>3, <2>1, NodeWithIs DEF IsRendered
<1>5. \A i \in 1..Len(r) : \A k \in 1..Len(r[i].kids) : At(<<r[i].key, r[i].kids[k].key>>) = r[i].kids[k]
  <2> SUFFICES ASSUME NEW i \in 1..Len(r), NEW k \in 1..Len(r[i].kids)
               PROVE  At(<<r[i].key, r[i].kids[k].key>>) = r[i].kids[k]
    OBVIOUS
  <2>1. At(<<r[i].key, r[i].kids[k].key>>) = NodeWith(NodeWith(r, r[i].key).kids, r[i].kids[k].key)
    BY DEF NodeAt
  <2>2. NodeWith(r, r[i].key) = r[i]
    BY <1>3, NodeWithIs DEF IsRendered
  <2>3. KeysDiffer(r[i].kids) /\ k \in DOMAIN r[i].kids
    BY <1>3 DEF IsRendered
  <2>4. NodeWith(r[i].kids, r[i].kids[k].key) = r[i].kids[k]
    BY <2>3, NodeWithIs
  <2>5. QED
    BY <2>1, <2>2, <2>4
<1> HIDE DEF Saved, At
<1>6. ASSUME NEW i \in 1..Len(r)
      PROVE  /\ Saves(Whole(r[i]), r[i], bound[<<r[i].key>>])
             /\ DOMAIN Whole(r[i]).kids = 1..Len(r[i].kids)
             /\ Len(Whole(r[i]).kids) = Len(r[i].kids)
             /\ \A k \in 1..Len(r[i].kids) :
                    Saves(Whole(r[i]).kids[k], r[i].kids[k], bound[<<r[i].key, r[i].kids[k].key>>])
  <2> DEFINE s == Kids(r[i])
             e == Saved(<<r[i].key>>)
  <2>1. Whole(r[i]) = [e EXCEPT !.kids = s]
    OBVIOUS
  <2>2. /\ DOMAIN s = DOMAIN r[i].kids
        /\ \A k \in DOMAIN r[i].kids : s[k] = Saved(<<r[i].key, r[i].kids[k].key>>)
    OBVIOUS
  <2>3. DOMAIN r[i].kids = 1..Len(r[i].kids) /\ Len(r[i].kids) \in Nat
    BY <1>3
  <2>4. Len(s) = Len(r[i].kids)
    BY <2>3
  <2>5. Saves(e, r[i], bound[<<r[i].key>>]) /\ DOMAIN e = {"id", "key", "kind", "hash", "kids"}
    BY <1>2, <1>4
  <2>6. \A k \in 1..Len(r[i].kids) :
            Saves(s[k], r[i].kids[k], bound[<<r[i].key, r[i].kids[k].key>>])
    BY <1>2, <1>5, <2>2, <2>3
  <2> HIDE DEF s, e
  <2>7. /\ Whole(r[i]).kids = s /\ Whole(r[i]).id = e.id /\ Whole(r[i]).key = e.key
        /\ Whole(r[i]).kind = e.kind /\ Whole(r[i]).hash = e.hash
    BY <2>1, <2>5
  <2> HIDE DEF Whole
  <2>8. QED
    BY <2>2, <2>3, <2>4, <2>5, <2>6, <2>7 DEF Saves
<1> HIDE DEF Whole
<1>7. DOMAIN Snapshot = 1..Len(r) /\ \A i \in 1..Len(r) : Snapshot[i] = Whole(r[i])
  BY <1>1, <1>3
<1>8. QED
  BY <1>6, <1>7 DEF IsSnapshot

\* The ids of the snapshot are those that are bound.
LEMMA SoleSnapshot ==
    ASSUME rendering \in Renderings, BindsDiffer(bound), DOMAIN bound = Paths(rendering)
    PROVE  Sole(Snapshot)
<1> DEFINE r == rendering
           t == Snapshot
<1>1. IsSnapshot(t, r, bound)
  BY SnapshotIs
<1>2. /\ IsRendered(r) /\ DOMAIN r = 1..Len(r)
      /\ \A i \in 1..Len(r) : IsRendered(r[i].kids) /\ DOMAIN r[i].kids = 1..Len(r[i].kids)
  BY RenderingType DEF IsRendered
<1>3. /\ \A i \in 1..Len(r) : <<r[i].key>> \in DOMAIN bound
      /\ \A i \in 1..Len(r) : \A k \in 1..Len(r[i].kids) : <<r[i].key, r[i].kids[k].key>> \in DOMAIN bound
  BY PathsUnfold
<1> HIDE DEF t
<1>4. /\ DOMAIN t = 1..Len(r)
      /\ \A i \in 1..Len(r) : /\ t[i].id = bound[<<r[i].key>>]
                             /\ DOMAIN t[i].kids = 1..Len(r[i].kids)
      /\ \A i \in 1..Len(r) : \A k \in 1..Len(r[i].kids) :
            t[i].kids[k].id = bound[<<r[i].key, r[i].kids[k].key>>]
  BY <1>1 DEF IsSnapshot, Saves
<1>5. \A i, j \in 1..Len(r) : t[i].id = t[j].id => i = j
  <2> SUFFICES ASSUME NEW i \in 1..Len(r), NEW j \in 1..Len(r), t[i].id = t[j].id PROVE i = j
    OBVIOUS
  <2>1. <<r[i].key>> = <<r[j].key>>
    <3> DEFINE p == <<r[i].key>>
               q == <<r[j].key>>
    <3>1. p \in DOMAIN bound /\ q \in DOMAIN bound /\ bound[p] = bound[q]
      BY <1>3, <1>4
    <3> HIDE DEF p, q
    <3>2. p = q
      BY <3>1 DEF BindsDiffer
    <3>3. QED
      BY <3>2 DEF p, q
  <2>2. QED
    BY <1>2, <2>1 DEF IsRendered, KeysDiffer
<1>6. ASSUME NEW i \in 1..Len(r), NEW j \in 1..Len(r), NEW k \in 1..Len(r[i].kids),
             NEW l \in 1..Len(r[j].kids), t[i].kids[k].id = t[j].kids[l].id
      PROVE  i = j /\ k = l
  <2>1. <<r[i].key, r[i].kids[k].key>> = <<r[j].key, r[j].kids[l].key>>
    <3> DEFINE p == <<r[i].key, r[i].kids[k].key>>
               q == <<r[j].key, r[j].kids[l].key>>
    <3>1. p \in DOMAIN bound /\ q \in DOMAIN bound /\ bound[p] = bound[q]
      BY <1>3, <1>4, <1>6
    <3> HIDE DEF p, q
    <3>2. p = q
      BY <3>1 DEF BindsDiffer
    <3>3. QED
      BY <3>2 DEF p, q
  <2>2. r[i].key = r[j].key /\ r[i].kids[k].key = r[j].kids[l].key
    BY <2>1
  <2>3. i = j
    BY <1>2, <2>2 DEF IsRendered, KeysDiffer
  <2>4. QED
    BY <1>2, <2>2, <2>3 DEF IsRendered, KeysDiffer
<1>7. ASSUME NEW i \in 1..Len(r) PROVE IdsDiffer(t[i].kids)
  <2>1. DOMAIN t[i].kids = 1..Len(r[i].kids)
    BY <1>4
  <2>2. \A k, l \in 1..Len(r[i].kids) : t[i].kids[k].id = t[i].kids[l].id => k = l
    BY <1>6
  <2>3. QED
    BY <2>1, <2>2 DEF IdsDiffer
<1>8. ASSUME NEW i \in 1..Len(r), NEW j \in 1..Len(r), NEW x, HasKid(t[i], x), HasKid(t[j], x)
      PROVE  i = j
  <2>1. PICK k \in 1..Len(r[i].kids) : t[i].kids[k].id = x
    BY <1>4, <1>8 DEF HasKid
  <2>2. PICK l \in 1..Len(r[j].kids) : t[j].kids[l].id = x
    BY <1>4, <1>8 DEF HasKid
  <2>3. QED
    BY <1>6, <2>1, <2>2
<1>9. Sole(t)
  BY <1>4, <1>5, <1>7, <1>8 DEF Sole, IdsDiffer
<1>10. QED
  BY <1>9 DEF t

----------------------------------------------------------------------------
(* Ids stay apart *)

Distinct == IdsDiffer(page) /\ Sole(cache) /\ Sole(work) /\ BindsDiffer(bound)

\* Trees and bindings with nothing in them.
LEMMA NothingDiffers == Sole(<<>>) /\ BindsDiffer(<<>>) /\ IdsDiffer(<<>>)
BY DEF Sole, BindsDiffer, IdsDiffer

\* A sync begins with ids of their own.
LEMMA BeginDistinct ==
    ASSUME Order, Distinct, NEW m, m = Matching(Base(page, cache), rendering), Begin(m)
    PROVE  Distinct'
<1>1. Diffable(m) /\ Types
  BY DEF Begin, Order, Inv
<1>2. /\ IsMatching(m, Base(page, cache), rendering, Minted, Live)
      /\ rendering \in Renderings
  BY <1>1, BeginsTyped DEF Types
<1>3. /\ IsBase(Base(page, cache), Minted, Live)
      /\ IsBaseOf(Base(page, cache), page, cache)
  BY <1>1, BaseIs DEF Types
<1>4. Sole(Base(page, cache))
  BY <1>3, SoleBase DEF Distinct
<1>5. m.top.old = Base(page, cache)
  BY <1>2 DEF IsMatching
<1>6. Sole(Confirmed(m.top.old))
  BY <1>3, <1>4, <1>5, SoleConfirmed
<1>7. BindsDiffer(Inherited(m))
  <2>1. PICK tops, ids : Levels(tops, ids)
    BY DEF Order, Apart
  <2>2. \A p \in DOMAIN Inherited(m) :
            Inherited(m)[p] \in IF p \in Tops(rendering) THEN tops ELSE ids
    BY <1>1, <2>1, BeginsApart
  <2>3. tops \cap ids = {}
    BY <2>1 DEF Levels
  <2>4. QED
    BY <1>1, <1>2, <1>4, <2>2, <2>3, InheritedDiffer
<1>8. page' = page /\ cache' = cache /\ work' = Confirmed(m.top.old) /\ bound' = Inherited(m)
  BY DEF Begin
<1>9. QED
  BY <1>6, <1>7, <1>8 DEF Distinct

\* A call lands and the sync goes on.
LEMMA GoesOnDistinct ==
    ASSUME Types, Distinct, Calling, NEW first \in Nat, first >= nextId,
           NEW tree \in Seq(LiveNodes(Before(first) \cup Foreign)), IdsDiffer(tree),
           page' = Landed(tree, Head(calls), first),
           work' = Recorded(work, Head(calls), first),
           cache' \in {work', cache},
           bound' = Binds(Head(calls), first)
    PROVE  Distinct'
<1>1. Head(calls) \in PlanCalls(rendering, Minted, Live)
  BY TailIs DEF Types, Calling
<1>2. IdsDiffer(page')
  BY <1>1, DifferLanded
<1>3. Sole(work')
  BY <1>1, SoleRecorded DEF Distinct
<1>4. Sole(cache')
  BY <1>3 DEF Distinct
<1>5. BindsDiffer(bound')
  BY <1>1, BindsStayApart DEF Distinct
<1>6. QED
  BY <1>2, <1>3, <1>4, <1>5 DEF Distinct

\* What lands on the page is new.
LEMMA LandsApart ==
    ASSUME Inv, Distinct, Calling
    PROVE  IdsDiffer(Landed(page, Head(calls), nextId))
<1>1. Head(calls) \in PlanCalls(rendering, Minted, Live)
  BY TailIs DEF Inv, Types, Calling
<1>2. nextId \in Nat /\ nextId >= nextId /\ page \in Seq(LiveNodes(Before(nextId) \cup Foreign))
  BY DEF Inv, Types, Live, Minted, Before
<1>3. QED
  BY <1>1, <1>2, DifferLanded DEF Inv, Distinct

\* The answer of the call is there.
LEMMA SendDistinct ==
    ASSUME Inv, Distinct, Send
    PROVE  Distinct'
<1>1. Calling /\ Types
  BY DEF Send, Inv
<1>2. nextId \in Nat /\ nextId >= nextId /\ page \in Seq(LiveNodes(Before(nextId) \cup Foreign))
  BY <1>1 DEF Types, Live, Minted, Before
<1>3. /\ page' = Landed(page, Head(calls), nextId) /\ work' = Recorded(work, Head(calls), nextId)
      /\ cache' \in {work', cache} /\ bound' = Binds(Head(calls), nextId)
  BY DEF Send
<1>4. IdsDiffer(page)
  BY DEF Distinct
<1>5. QED
  BY <1>1, <1>2, <1>3, <1>4, GoesOnDistinct

\* The call has landed twice.
LEMMA SendTwiceDistinct ==
    ASSUME Inv, Distinct, SendTwice
    PROVE  Distinct'
<1> DEFINE next == nextId + Len(Created(Head(calls)))
           tree == Landed(page, Head(calls), nextId)
<1>1. Calling /\ Types
  BY DEF SendTwice, Inv
<1>2. next \in Nat /\ next >= nextId /\ tree \in Seq(LiveNodes(Before(next) \cup Foreign))
  <2>1. next \in Nat \ {0} /\ nextId <= next /\ tree \in Seq(LiveNodes(Before(next) \cup Foreign))
    BY <1>1, LandsOnPage
  <2>2. nextId \in Nat
    BY <1>1 DEF Types
  <2> HIDE DEF next, tree
  <2>3. QED
    BY <2>1, <2>2
<1>3. IdsDiffer(tree)
  BY <1>1, LandsApart
<1>4. /\ page' = Landed(tree, Head(calls), next) /\ work' = Recorded(work, Head(calls), next)
      /\ cache' \in {work', cache} /\ bound' = Binds(Head(calls), next)
  BY DEF SendTwice
<1> HIDE DEF next, tree
<1>5. QED
  BY <1>1, <1>2, <1>3, <1>4, GoesOnDistinct

\* Others put foreign blocks on the page, and move or remove its children.
LEMMA EditDistinct ==
    ASSUME Order, Distinct, Edit
    PROVE  Distinct'
<1>1. UNCHANGED <<cache, work, bound>>
  BY DEF Edit, syncVars
<1>2. page \in Seq(LiveNodes(Live)) /\ DOMAIN page = 1..Len(page) /\ Len(page) \in Nat
      /\ IdsDiffer(page)
  <2>1. page \in Seq(LiveNodes(Live))
    BY DEF Order, Inv, Types
  <2>2. QED
    BY <2>1 DEF Distinct
<1>3. Nodal(LiveNodes(Live), LiveLeaves(Live))
  BY TreesAreNodal DEF LiveNodes
<1>4. ASSUME NEW n \in ToSet(page)
      PROVE  /\ IdsDiffer(Without(page, n.id)) /\ Without(page, n.id) \in Seq(LiveNodes(Live))
             /\ \A i \in DOMAIN Without(page, n.id) : Without(page, n.id)[i].id # n.id
  <2>1. PICK pos : IsSieved(Without(page, n.id), pos, page, n.id)
    BY <1>2, <1>3, WithoutIs
  <2>2. IdsDiffer(Without(page, n.id))
    BY <1>2, <2>1, DifferSieved
  <2>3. \A i \in DOMAIN Without(page, n.id) : Without(page, n.id)[i].id # n.id
    BY <2>1 DEF IsSieved
  <2>4. Without(page, n.id) \in Seq(LiveNodes(Live))
    BY <1>2, LiveAreNodes, WithoutType DEF LiveNodes
  <2>5. QED
    BY <2>2, <2>3, <2>4
<1>5. CASE \E n \in ToSet(page) : page' = Without(page, n.id)
  BY <1>1, <1>4, <1>5 DEF Distinct
<1>6. ASSUME NEW u \in Foreign \ Ids(page), page' = Append(page, Block([kind |-> "block", hash |-> Ghost], u))
      PROVE  Distinct'
  <2> DEFINE b == Block([kind |-> "block", hash |-> Ghost], u)
             S == LiveNodes(Live) \cup {b}
  <2>1. b.id = u
    BY DEF Block
  <2> HIDE DEF b
  <2>2. \A i \in DOMAIN page : page[i].id # u
    <3>1. \A i \in DOMAIN page : page[i].id \in Ids(page)
      BY DEF Ids, ToSet
    <3>2. QED
      BY <1>6, <3>1
  <2>3. page \in Seq(S) /\ b \in S
    BY <1>2, SeqSubset
  <2> HIDE DEF S
  <2>4. /\ Append(page, b) \in Seq(S) /\ Len(Append(page, b)) = Len(page) + 1
        /\ \A i \in 1..Len(page) : Append(page, b)[i] = page[i]
        /\ Append(page, b)[Len(page) + 1] = b
    BY <2>3, AppendIs
  <2>5. DOMAIN Append(page, b) = 1..(Len(page) + 1)
    BY <2>4
  <2>6. IdsDiffer(Append(page, b))
    <3> SUFFICES ASSUME NEW i \in 1..(Len(page) + 1), NEW j \in 1..(Len(page) + 1),
                        Append(page, b)[i].id = Append(page, b)[j].id
                 PROVE  i = j
      BY <2>5 DEF IdsDiffer
    <3>1. \A k \in 1..(Len(page) + 1) : k \in 1..Len(page) \/ k = Len(page) + 1
      BY <1>2
    <3>2. QED
      BY <1>2, <2>1, <2>2, <2>4, <3>1 DEF IdsDiffer
  <2>7. page' = Append(page, b)
    BY <1>6 DEF b
  <2>8. QED
    BY <1>1, <2>6, <2>7 DEF Distinct
<1>7. ASSUME NEW n \in ToSet(page), page' = <<n>> \o Without(page, n.id)
      PROVE  Distinct'
  <2> DEFINE t == Without(page, n.id)
  <2>1. /\ IdsDiffer(t) /\ t \in Seq(LiveNodes(Live)) /\ \A i \in DOMAIN t : t[i].id # n.id
    BY <1>4
  <2>2. <<n>> \in Seq(LiveNodes(Live)) /\ Len(<<n>>) = 1 /\ <<n>>[1] = n
    <3>1. n \in LiveNodes(Live)
      BY <1>2 DEF ToSet
    <3>2. QED
      BY <3>1
  <2> HIDE DEF t
  <2>3. \A s, u \in Seq(LiveNodes(Live)) :
            /\ s \o u \in Seq(LiveNodes(Live)) /\ Len(s \o u) = Len(s) + Len(u)
            /\ \A i \in 1..Len(s) : (s \o u)[i] = s[i]
            /\ \A i \in 1..Len(u) : (s \o u)[Len(s) + i] = u[i]
    BY JoinedIs
  <2>4. DOMAIN t = 1..Len(t) /\ Len(t) \in Nat
    BY <2>1
  <2>5. /\ <<n>> \o t \in Seq(LiveNodes(Live)) /\ Len(<<n>> \o t) = 1 + Len(t)
        /\ (<<n>> \o t)[1] = n /\ \A i \in 1..Len(t) : (<<n>> \o t)[1 + i] = t[i]
    BY <2>1, <2>2, <2>3
  <2>6. DOMAIN (<<n>> \o t) = 1..(1 + Len(t))
    BY <2>5
  <2>7. IdsDiffer(<<n>> \o t)
    <3> DEFINE s == <<n>> \o t
    <3>1. DOMAIN s = 1..(1 + Len(t)) /\ s[1] = n /\ \A i \in 1..Len(t) : s[1 + i] = t[i]
      BY <2>5, <2>6
    <3> HIDE DEF s
    <3> SUFFICES ASSUME NEW i \in 1..(1 + Len(t)), NEW j \in 1..(1 + Len(t)), s[i].id = s[j].id
                 PROVE  i = j
      BY <3>1 DEF IdsDiffer, s
    <3>2. \A k \in 1..(1 + Len(t)) : k = 1 \/ \E a \in 1..Len(t) : k = 1 + a
      <4> SUFFICES ASSUME NEW k \in 1..(1 + Len(t)), k # 1 PROVE \E a \in 1..Len(t) : k = 1 + a
        OBVIOUS
      <4>1. k - 1 \in 1..Len(t) /\ k = 1 + (k - 1)
        BY <2>4
      <4>2. QED
        BY <4>1
    <3>3. \A a, c \in 1..Len(t) : t[a].id = t[c].id => a = c
      BY <2>1, <2>4 DEF IdsDiffer
    <3>4. \A a \in 1..Len(t) : t[a].id # n.id
      BY <2>1, <2>4
    <3>5. CASE i = 1 /\ j = 1
      BY <3>5
    <3>6. CASE i # 1 /\ j # 1
      <4>1. PICK a \in 1..Len(t) : i = 1 + a
        BY <3>2, <3>6
      <4>2. PICK c \in 1..Len(t) : j = 1 + c
        BY <3>2, <3>6
      <4>3. a = c
        BY <3>1, <3>3, <4>1, <4>2
      <4>4. QED
        BY <4>1, <4>2, <4>3
    <3>7. CASE i = 1 /\ j # 1
      <4>1. PICK c \in 1..Len(t) : j = 1 + c
        BY <3>2, <3>7
      <4>2. QED
        BY <3>1, <3>4, <3>7, <4>1
    <3>8. CASE i # 1 /\ j = 1
      <4>1. PICK a \in 1..Len(t) : i = 1 + a
        BY <3>2, <3>8
      <4>2. QED
        BY <3>1, <3>4, <3>8, <4>1
    <3>9. QED
      BY <3>5, <3>6, <3>7, <3>8
  <2>8. page' = <<n>> \o t
    BY <1>7 DEF t
  <2>9. QED
    BY <1>1, <2>7, <2>8 DEF Distinct
<1>8. QED
  BY <1>5, <1>6, <1>7 DEF Edit

\* Any step leaves the ids apart.
LEMMA StepDistinct ==
    ASSUME Order, Distinct, [Next]_vars
    PROVE  Distinct'
<1>1. Inv
  BY DEF Order
<1>2. ASSUME NEW how, Ends(how) PROVE Sole(work') /\ BindsDiffer(bound')
  BY <1>2, NothingDiffers DEF Ends
<1>3. CASE Rejected \/ Stop
  <2>1. \E how : Ends(how)
    BY <1>3 DEF Rejected, Stop
  <2>2. UNCHANGED <<page, cache>>
    BY <1>3 DEF Rejected, Stop
  <2>3. QED
    BY <1>2, <2>1, <2>2 DEF Distinct
<1>4. CASE Finish
  <2>1. DOMAIN bound = Paths(rendering) /\ rendering \in Renderings
    BY <1>1, <1>4, FinishTyped DEF Inv, Types
  <2>2. Sole(Snapshot)
    BY <2>1, SoleSnapshot DEF Distinct
  <2>3. page' = page /\ cache' = Snapshot /\ Ends("done")
    BY <1>4 DEF Finish
  <2>4. QED
    BY <1>2, <2>2, <2>3 DEF Distinct
<1>5. CASE LoseAnswer
  <2>1. page' = Landed(page, Head(calls), nextId) /\ cache' = cache /\ Ends("failed") /\ Calling
    BY <1>5 DEF LoseAnswer
  <2>2. IdsDiffer(page')
    BY <1>1, <2>1, LandsApart
  <2>3. QED
    BY <1>2, <2>1, <2>2 DEF Distinct
<1>6. CASE Sync
  <2>1. PICK m : m = Matching(Base(page, cache), rendering) /\ (Begin(m) \/ Refuse(m))
    BY <1>6 DEF Sync
  <2>2. CASE Begin(m)
    BY <2>1, <2>2, BeginDistinct
  <2>3. CASE Refuse(m)
    BY <2>3 DEF Refuse, Distinct, syncVars
  <2>4. QED
    BY <2>1, <2>2, <2>3
<1>7. CASE LoseCache
  <2>1. page' = page /\ cache' = <<>> /\ work' = work /\ bound' = bound
    BY <1>7 DEF LoseCache, syncVars
  <2>2. QED
    BY <2>1, NothingDiffers DEF Distinct
<1>8. CASE (\E r \in Renderings : Render(r)) \/ UNCHANGED vars
  <2>1. UNCHANGED <<page, cache, work, bound>>
    BY <1>8 DEF Render, syncVars, vars
  <2>2. QED
    BY <2>1 DEF Distinct
<1>9. QED
  BY <1>1, <1>3, <1>4, <1>5, <1>6, <1>7, <1>8, SendDistinct, SendTwiceDistinct, EditDistinct
  DEF Next, Step

\* So it is at first.
LEMMA InitDistinct ==
    ASSUME Init
    PROVE  Distinct
<1>1. IdsDiffer(page)
  <2>1. PICK x : page = <<>> \/ page = <<x>>
    BY DEF Init
  <2>2. QED
    BY <2>1 DEF IdsDiffer
<1>2. cache = <<>> /\ work = <<>> /\ bound = <<>>
  BY DEF Init
<1>3. QED
  BY <1>1, <1>2, NothingDiffers DEF Distinct

----------------------------------------------------------------------------
(* The operations of a plan, place by place *)

\* The places a list of operations is about: all of some places, in their order.
IsListed(t, pos, places) ==
    /\ DOMAIN t = 1..Len(t) /\ Len(t) \in Nat
    /\ \A k \in 1..Len(t) : pos[k] \in places
    /\ IsRising(pos, Len(t))
    /\ \A i \in places : \E k \in 1..Len(t) : pos[k] = i

IsKept(list, i) == list.new[i].key \in list.kept

\* Something has to be done about the sibling at this place.
Acts(list, i) ==
    /\ i \in DOMAIN list.new
    /\ IsKept(list, i) => /\ list.new[i].kind = "block"
                          /\ NodeWith(list.old, list.new[i].key).hash # list.new[i].hash

NewOp(p, list, i, op, at) ==
    [op |-> op, under |-> p, node |-> Path(p, list.new[i]), at |-> at,
     after |-> IF at = "after" THEN Path(p, list.new[i - 1]) ELSE Root]

KeptAfter(list, i) == \E j \in DOMAIN list.new : j > i /\ IsKept(list, j)

\* What that is.
SiblingOp(p, list, i) ==
    LET c == list.new[i]
        old == NodeWith(list.old, c.key)
    IN  IF IsKept(list, i) THEN [op |-> "update", id |-> old.id, hash |-> c.hash]
        ELSE IF c.kind = "page"
        THEN IF IsMoved(list.old, list.kept, c) THEN [op |-> "move", id |-> old.id]
             ELSE [op |-> "create", node |-> Path(p, c)]
        ELSE IF ~KeptAfter(list, i) THEN NewOp(p, list, i, "append", "tail")
        ELSE NewOp(p, list, i, "insert", IF i = 1 THEN "head" ELSE "after")

Acting(list) == {i \in DOMAIN list.new : Acts(list, i)}

IsSiblingOps(t, pos, p, list) ==
    IsListed(t, pos, Acting(list)) /\ \A k \in 1..Len(t) : t[k] = SiblingOp(p, list, pos[k])

\* A picked list is listed.
LEMMA PickedListed ==
    ASSUME NEW S, NEW list \in Seq(S), NEW places \in SUBSET (1..Len(list))
    PROVE  \E pos : /\ IsListed(Picked(list, places), pos, places)
                    /\ \A k \in 1..Len(Picked(list, places)) : Picked(list, places)[k] = list[pos[k]]
<1>1. PICK pos : IsPicking(Picked(list, places), pos, list, places)
  BY PickedUnfolds
<1>2. QED
  BY <1>1 DEF IsPicking, IsListed, IsRising

\* The ordered operations of one list, one for every sibling that needs one.
LEMMA SiblingOpsAre ==
    ASSUME NEW list, IsRendered(list.new), NEW p
    PROVE  \E pos : IsSiblingOps(SiblingOps(p, list), pos, p, list)
<1> DEFINE bs == list.old
           cs == list.new
           Kept(i) == cs[i].key \in list.kept
           After(i) == \E j \in DOMAIN cs : j > i /\ Kept(j)
           New(i, op, at) == [op |-> op, under |-> p, node |-> Path(p, cs[i]), at |-> at,
                              after |-> IF at = "after" THEN Path(p, cs[i-1]) ELSE Root]
           Ops(i) ==
            CASE Kept(i) /\ cs[i].kind = "block" ->
                    LET b == NodeWith(bs, cs[i].key)
                    IN  IF b.hash = cs[i].hash THEN <<>>
                        ELSE <<[op |-> "update", id |-> b.id, hash |-> cs[i].hash]>>
              [] Kept(i) /\ cs[i].kind = "page" -> <<>>
              [] ~Kept(i) /\ cs[i].kind = "page" ->
                    IF IsMoved(bs, list.kept, cs[i])
                    THEN <<[op |-> "move", id |-> NodeWith(bs, cs[i].key).id]>>
                    ELSE <<[op |-> "create", node |-> Path(p, cs[i])]>>
              [] ~Kept(i) /\ cs[i].kind = "block" ->
                    <<IF ~After(i) THEN New(i, "append", "tail")
                      ELSE New(i, "insert", IF i = 1 THEN "head" ELSE "after")>>
           all == [i \in DOMAIN cs |-> SiblingOp(p, list, i)]
           places == Acting(list)
           n == Len(cs)
<1>1. SiblingOps(p, list) = FlattenSeq([i \in DOMAIN cs |-> Ops(i)])
  BY DEF SiblingOps
<1>2. n \in Nat /\ DOMAIN cs = 1..n /\ \A i \in 1..n : cs[i] \in Nodes
  BY DEF IsRendered
<1>3. ASSUME NEW i \in 1..n
      PROVE  Ops(i) = IF i \in places THEN <<all[i]>> ELSE <<>>
  <2> DEFINE c == cs[i]
             o == SiblingOp(p, list, i)
  <2>1. cs[i].kind \in {"block", "page"}
    BY <1>2, NodeType DEF Kinds
  <2>2. /\ all[i] = o
        /\ i \in places <=> Acts(list, i)
        /\ Acts(list, i) <=> (Kept(i) => cs[i].kind = "block" /\ NodeWith(bs, cs[i].key).hash # cs[i].hash)
    BY <1>2 DEF Acts, IsKept, Acting
  <2>3. CASE Kept(i) /\ cs[i].kind = "block"
    <3>1. o = [op |-> "update", id |-> NodeWith(bs, cs[i].key).id, hash |-> cs[i].hash]
      BY <2>3 DEF SiblingOp, IsKept
    <3>2. Ops(i) = IF NodeWith(bs, cs[i].key).hash = cs[i].hash THEN <<>>
                   ELSE <<[op |-> "update", id |-> NodeWith(bs, cs[i].key).id, hash |-> cs[i].hash]>>
      BY <2>3
    <3> HIDE DEF Ops, all, places
    <3>3. QED
      BY <2>2, <2>3, <3>1, <3>2
  <2>4. CASE Kept(i) /\ cs[i].kind = "page"
    <3>1. Ops(i) = <<>>
      BY <2>4
    <3> HIDE DEF Ops, all, places
    <3>2. QED
      BY <2>2, <2>4, <3>1
  <2>5. CASE ~Kept(i) /\ cs[i].kind = "page"
    <3>1. o = IF IsMoved(bs, list.kept, cs[i]) THEN [op |-> "move", id |-> NodeWith(bs, cs[i].key).id]
              ELSE [op |-> "create", node |-> Path(p, cs[i])]
      BY <2>5 DEF SiblingOp, IsKept
    <3>2. Ops(i) = IF IsMoved(bs, list.kept, cs[i])
                   THEN <<[op |-> "move", id |-> NodeWith(bs, cs[i].key).id]>>
                   ELSE <<[op |-> "create", node |-> Path(p, cs[i])]>>
      BY <2>5
    <3> HIDE DEF Ops, all, places
    <3>3. QED
      BY <2>2, <2>5, <3>1, <3>2
  <2>6. CASE ~Kept(i) /\ cs[i].kind = "block"
    <3>1. o = IF ~After(i) THEN New(i, "append", "tail")
              ELSE New(i, "insert", IF i = 1 THEN "head" ELSE "after")
      BY <2>6 DEF SiblingOp, IsKept, KeptAfter, NewOp
    <3>2. Ops(i) = <<IF ~After(i) THEN New(i, "append", "tail")
                     ELSE New(i, "insert", IF i = 1 THEN "head" ELSE "after")>>
      BY <2>6
    <3> HIDE DEF Ops, all, places, New, After
    <3>3. QED
      BY <2>2, <2>6, <3>1, <3>2
  <2>7. QED
    BY <2>1, <2>3, <2>4, <2>5, <2>6
<1> DEFINE S == {all[i] : i \in 1..n}
<1>4. all \in Seq(S) /\ DOMAIN all = 1..n /\ Len(all) = n
  <2>1. all = [i \in 1..n |-> all[i]] /\ \A i \in 1..n : all[i] \in S
    BY <1>2
  <2>2. DOMAIN all = 1..n
    BY <1>2
  <2> HIDE DEF all, n, S
  <2>3. all \in Seq(S) /\ Len(all) = n
    BY <1>2, <2>1, ListIsSeq
  <2>4. QED
    BY <2>2, <2>3
<1>5. places \in SUBSET (1..n) /\ \A k \in 1..n : all[k] = SiblingOp(p, list, k)
  BY <1>2 DEF Acting
<1>6. [i \in DOMAIN cs |-> Ops(i)] = [i \in DOMAIN all |-> IF i \in places THEN <<all[i]>> ELSE <<>>]
  <2> HIDE DEF Ops, all, places
  <2> QED
    BY <1>2, <1>3, <1>4
<1> HIDE DEF Ops, all, places, n, S
<1>7. SiblingOps(p, list) = Picked(all, places)
  BY <1>1, <1>6 DEF Picked
<1>8. \E pos : /\ IsListed(Picked(all, places), pos, places)
               /\ \A k \in 1..Len(Picked(all, places)) : Picked(all, places)[k] = all[pos[k]]
  BY <1>4, <1>5, PickedListed
<1>9. PICK pos : /\ IsListed(SiblingOps(p, list), pos, places)
                 /\ \A k \in 1..Len(SiblingOps(p, list)) : SiblingOps(p, list)[k] = all[pos[k]]
  BY <1>7, <1>8
<1>10. \A k \in 1..Len(SiblingOps(p, list)) : SiblingOps(p, list)[k] = SiblingOp(p, list, pos[k])
  BY <1>5, <1>9 DEF IsListed
<1>11. QED
  BY <1>9, <1>10 DEF IsSiblingOps, places

\* Cached siblings that go: blocks, and sub-pages that are not moved either.
Removed(list) ==
    {i \in DOMAIN list.old : list.old[i].kind = "block" /\ list.old[i].key \notin list.kept}

Archived(list) ==
    {i \in DOMAIN list.old : /\ list.old[i].kind = "page" /\ list.old[i].key \notin list.kept
                             /\ ~\E c \in ToSet(list.new) : Matches(list.old[i], c)}

\* Rendered sub-pages that stay with another title.
Drifted(list) ==
    {i \in DOMAIN list.new :
        /\ list.new[i].kind = "page"
        /\ \E b \in ToSet(list.old) : Matches(b, list.new[i]) /\ b.hash # list.new[i].hash}

ClearOp(op, list, i) == [op |-> op, id |-> list.old[i].id]

RenameOp(list, i) ==
    [op |-> "rename", id |-> NodeWith(list.old, list.new[i].key).id, hash |-> list.new[i].hash]

IsClears(t, pos, op, list, places) ==
    IsListed(t, pos, places) /\ \A k \in 1..Len(t) : t[k] = ClearOp(op, list, pos[k])

IsRenames(t, pos, list) ==
    IsListed(t, pos, Drifted(list)) /\ \A k \in 1..Len(t) : t[k] = RenameOp(list, pos[k])

\* The removals and the archivals, one for every sibling that goes.
LEMMA ClearsAre ==
    ASSUME NEW S, NEW list, list.old \in Seq(S)
    PROVE  /\ \E pos : IsClears(Removals(list), pos, "remove", list, Removed(list))
           /\ \E pos : IsClears(Archivals(list), pos, "archive", list, Archived(list))
<1> DEFINE bs == list.old
           Blocks == {i \in DOMAIN bs : bs[i].kind = "block" /\ bs[i].key \notin list.kept}
           Pages == {i \in DOMAIN bs :
                    /\ bs[i].kind = "page" /\ bs[i].key \notin list.kept
                    /\ ~\E c \in ToSet(list.new) : Matches(bs[i], c)}
<1>1. Removals(list) = [k \in DOMAIN Picked(bs, Blocks) |->
                            [op |-> "remove", id |-> Picked(bs, Blocks)[k].id]]
  BY DEF Removals
<1>2. Archivals(list) = [k \in DOMAIN Picked(bs, Pages) |->
                            [op |-> "archive", id |-> Picked(bs, Pages)[k].id]]
  BY DEF Archivals
<1>3. /\ Blocks \in SUBSET (1..Len(bs)) /\ Pages \in SUBSET (1..Len(bs))
      /\ Blocks = Removed(list) /\ Pages = Archived(list)
  BY DEF Removed, Archived
<1> HIDE DEF Blocks, Pages
<1>4. ASSUME NEW places \in SUBSET (1..Len(bs)), NEW op, NEW gone, gone = Picked(bs, places),
             NEW ops, ops = [k \in DOMAIN gone |-> [op |-> op, id |-> gone[k].id]]
      PROVE  \E pos : IsClears(ops, pos, op, list, places)
  <2>1. PICK pos : IsListed(gone, pos, places) /\ \A k \in 1..Len(gone) : gone[k] = bs[pos[k]]
    <3> HIDE DEF bs
    <3> QED
      BY <1>4, PickedListed DEF bs
  <2>2. DOMAIN gone = 1..Len(gone) /\ Len(gone) \in Nat
    BY <2>1 DEF IsListed
  <2>3. DOMAIN ops = 1..Len(gone) /\ Len(ops) = Len(gone)
    BY <1>4, <2>2
  <2>4. \A k \in 1..Len(gone) : ops[k] = [op |-> op, id |-> bs[pos[k]].id]
    <3> HIDE DEF bs
    <3> QED
      BY <1>4, <2>1, <2>2
  <2>5. QED
    BY <2>1, <2>2, <2>3, <2>4 DEF IsClears, IsListed, ClearOp
<1>5. QED
  BY <1>1, <1>2, <1>3, <1>4

\* The new titles, one for every sub-page that needs it.
LEMMA RenamesAre ==
    ASSUME NEW list, IsRendered(list.new)
    PROVE  \E pos : IsRenames(PageUpdates(list), pos, list)
<1> DEFINE cs == list.new
           Drifts(c) == c.kind = "page"
                            /\ \E b \in ToSet(list.old) : Matches(b, c) /\ b.hash # c.hash
           places == {i \in DOMAIN cs : Drifts(cs[i])}
           t == Picked(cs, places)
           ops == PageUpdates(list)
<1>1. ops = [i \in DOMAIN t |-> [op |-> "rename", id |-> NodeWith(list.old, t[i].key).id,
                                 hash |-> t[i].hash]]
  BY DEF PageUpdates
<1>2. places = Drifted(list) /\ places \in SUBSET (1..Len(cs)) /\ cs \in Seq(Nodes)
  BY DEF Drifted, IsRendered
<1> HIDE DEF places, ops
<1>3. PICK pos : IsListed(t, pos, places) /\ \A k \in 1..Len(t) : t[k] = cs[pos[k]]
  <2> HIDE DEF cs
  <2> QED
    BY <1>2, PickedListed
<1> HIDE DEF t
<1>4. DOMAIN t = 1..Len(t) /\ Len(t) \in Nat
  BY <1>3 DEF IsListed
<1>5. DOMAIN ops = 1..Len(t) /\ Len(ops) = Len(t)
  BY <1>1, <1>4
<1>6. \A k \in 1..Len(t) : ops[k] = RenameOp(list, pos[k])
  BY <1>1, <1>3, <1>4 DEF RenameOp
<1>7. IsRenames(ops, pos, list)
  BY <1>2, <1>3, <1>4, <1>5, <1>6 DEF IsRenames, IsListed
<1>8. QED
  BY <1>7 DEF ops

----------------------------------------------------------------------------
(* The plan, list by list *)

\* The lists of a diff: that of the page, and those of the rendered nodes.
ListOf(m, x) == IF x = 0 THEN m.top ELSE m.kids[x]
PathOf(r, x) == IF x = 0 THEN Root ELSE <<r[x].key>>

Concerns(o, p, list) ==
    \/ IsNew(o) /\ o.under = p
    \/ \E i \in DOMAIN list.new : Makes(o, Path(p, list.new[i]))

\* The operations of one list come one after the other, and no others concern it.
IsListing(ops, b, pos, n, p, list) ==
    /\ b \in Nat /\ n \in Nat /\ b + n <= Len(ops)
    /\ IsRising(pos, n)
    /\ \A u \in 1..n : pos[u] \in Acting(list) /\ ops[b + u] = SiblingOp(p, list, pos[u])
    /\ \A i \in Acting(list) : \E u \in 1..n : pos[u] = i
    /\ \A v \in 1..Len(ops) : Concerns(ops[v], p, list) => \E u \in 1..n : v = b + u

Listing(ops, p, list) == \E b, pos, n : IsListing(ops, b, pos, n, p, list)

Unconcerned(ops, p, list) == \A v \in 1..Len(ops) : ~Concerns(ops[v], p, list)

\* They are so by themselves,
LEMMA ListingAlone ==
    ASSUME NEW list, IsRendered(list.new), NEW p
    PROVE  Listing(SiblingOps(p, list), p, list)
<1> DEFINE t == SiblingOps(p, list)
<1>1. PICK pos : IsSiblingOps(t, pos, p, list)
  BY SiblingOpsAre
<1> HIDE DEF t
<1>2. IsListing(t, 0, pos, Len(t), p, list)
  <2>1. /\ Len(t) \in Nat /\ IsRising(pos, Len(t))
        /\ \A u \in 1..Len(t) : pos[u] \in Acting(list) /\ t[u] = SiblingOp(p, list, pos[u])
        /\ \A i \in Acting(list) : \E u \in 1..Len(t) : pos[u] = i
    BY <1>1 DEF IsSiblingOps, IsListed
  <2>2. \A u \in 1..Len(t) : 0 + u = u
    BY <2>1
  <2>3. QED
    BY <2>1, <2>2 DEF IsListing
<1>3. QED
  BY <1>2 DEF Listing, t

\* before operations that do not concern their list,
LEMMA ListingBefore ==
    ASSUME NEW S, NEW s \in Seq(S), NEW t \in Seq(S), NEW p, NEW list,
           Listing(s, p, list), Unconcerned(t, p, list)
    PROVE  Listing(s \o t, p, list)
<1>1. PICK b, pos, n : IsListing(s, b, pos, n, p, list)
  BY DEF Listing
<1> DEFINE st == s \o t
<1>2. /\ Len(st) = Len(s) + Len(t) /\ Len(s) \in Nat /\ Len(t) \in Nat
      /\ \A i \in 1..Len(s) : st[i] = s[i]
      /\ \A i \in 1..Len(t) : st[Len(s) + i] = t[i]
      /\ \A i \in 1..Len(st) : i \in 1..Len(s) \/ \E j \in 1..Len(t) : i = Len(s) + j
  <2>1. Len(s) \in Nat /\ Len(t) \in Nat
    OBVIOUS
  <2>2. QED
    BY <2>1, JoinedIs
<1> HIDE DEF st
<1>3. /\ b \in Nat /\ n \in Nat /\ b + n <= Len(s) /\ b + n <= Len(st)
      /\ \A u \in 1..n : b + u \in 1..Len(s)
  BY <1>1, <1>2 DEF IsListing
<1>4. \A u \in 1..n : pos[u] \in Acting(list) /\ st[b + u] = SiblingOp(p, list, pos[u])
  BY <1>1, <1>2, <1>3 DEF IsListing
<1>5. ASSUME NEW v \in 1..Len(st), Concerns(st[v], p, list)
      PROVE  \E u \in 1..n : v = b + u
  <2>1. CASE v \in 1..Len(s)
    BY <1>1, <1>2, <1>5, <2>1 DEF IsListing
  <2>2. CASE \E j \in 1..Len(t) : v = Len(s) + j
    BY <1>2, <1>5, <2>2 DEF Unconcerned
  <2>3. QED
    BY <1>2, <2>1, <2>2
<1>6. IsListing(st, b, pos, n, p, list)
  BY <1>1, <1>3, <1>4, <1>5 DEF IsListing
<1>7. QED
  BY <1>6 DEF Listing, st

\* and behind such operations.
LEMMA ListingBehind ==
    ASSUME NEW S, NEW s \in Seq(S), NEW t \in Seq(S), NEW p, NEW list,
           Listing(t, p, list), Unconcerned(s, p, list)
    PROVE  Listing(s \o t, p, list)
<1>1. PICK b, pos, n : IsListing(t, b, pos, n, p, list)
  BY DEF Listing
<1> DEFINE st == s \o t
           c == Len(s) + b
<1>2. /\ Len(st) = Len(s) + Len(t) /\ Len(s) \in Nat /\ Len(t) \in Nat
      /\ \A i \in 1..Len(s) : st[i] = s[i]
      /\ \A i \in 1..Len(t) : st[Len(s) + i] = t[i]
      /\ \A i \in 1..Len(st) : i \in 1..Len(s) \/ \E j \in 1..Len(t) : i = Len(s) + j
  <2>1. Len(s) \in Nat /\ Len(t) \in Nat
    OBVIOUS
  <2>2. QED
    BY <2>1, JoinedIs
<1> HIDE DEF st
<1>3. /\ b \in Nat /\ n \in Nat /\ c \in Nat /\ c + n <= Len(st)
      /\ \A u \in 1..n : b + u \in 1..Len(t) /\ c + u = Len(s) + (b + u)
  BY <1>1, <1>2 DEF IsListing
<1> HIDE DEF c
<1>4. \A u \in 1..n : pos[u] \in Acting(list) /\ st[c + u] = SiblingOp(p, list, pos[u])
  BY <1>1, <1>2, <1>3 DEF IsListing
<1>5. ASSUME NEW v \in 1..Len(st), Concerns(st[v], p, list)
      PROVE  \E u \in 1..n : v = c + u
  <2>1. CASE v \in 1..Len(s)
    BY <1>2, <1>5, <2>1 DEF Unconcerned
  <2>2. CASE \E j \in 1..Len(t) : v = Len(s) + j
    <3>1. PICK j \in 1..Len(t) : v = Len(s) + j
      BY <2>2
    <3>2. Concerns(t[j], p, list)
      BY <1>2, <1>5, <3>1
    <3>3. PICK u \in 1..n : j = b + u
      BY <1>1, <3>2 DEF IsListing
    <3>4. QED
      BY <1>3, <3>1, <3>3
  <2>3. QED
    BY <1>2, <2>1, <2>2
<1>6. IsListing(st, c, pos, n, p, list)
  BY <1>1, <1>3, <1>4, <1>5 DEF IsListing
<1>7. QED
  BY <1>6 DEF Listing, st

\* So it is when they are flattened together with others.
LEMMA ListingAmong ==
    ASSUME NEW S, NEW ss \in Seq(Seq(S)), NEW x \in 1..Len(ss), NEW p, NEW list,
           Listing(ss[x], p, list),
           \A y \in 1..Len(ss) : y # x => Unconcerned(ss[y], p, list)
    PROVE  Listing(FlattenSeq(ss), p, list)
<1>1. PICK off : IsLayout(off, ss)
  BY LayoutExists
<1>2. IsLaidOut(FlattenSeq(ss), off, ss, S)
  BY <1>1, FlattenLayout
<1> DEFINE t == FlattenSeq(ss)
<1>3. PICK b, pos, n : IsListing(ss[x], b, pos, n, p, list)
  BY DEF Listing
<1>4. /\ t \in Seq(S) /\ Len(t) = off[Len(ss)]
      /\ \A i \in 1..Len(ss) : \A j \in 1..Len(ss[i]) : t[off[i - 1] + j] = ss[i][j]
  BY <1>2 DEF IsLaidOut
<1> HIDE DEF t
<1>5. /\ Len(ss) \in Nat /\ Len(t) \in Nat
      /\ \A i \in 1..Len(ss) : Len(ss[i]) \in Nat
      /\ \A i \in 1..Len(ss) : off[i - 1] \in Nat /\ off[i] \in Nat
      /\ \A i \in 1..Len(ss) : off[i] = off[i - 1] + Len(ss[i])
  <2>1. Len(ss) \in Nat /\ \A i \in 1..Len(ss) : ss[i] \in Seq(S)
    OBVIOUS
  <2>2. \A i \in 1..Len(ss) : Len(ss[i]) \in Nat
    BY <2>1
  <2>3. \A i \in 1..Len(ss) : i - 1 \in 0..Len(ss) /\ i \in 0..Len(ss)
    BY <2>1
  <2>4. \A i \in 0..Len(ss) : off[i] \in Nat
    BY <1>1 DEF IsLayout
  <2>5. \A i \in 1..Len(ss) : off[i] = off[i - 1] + Len(ss[i])
    BY <1>1 DEF IsLayout
  <2>6. Len(t) \in Nat
    BY <1>4
  <2>7. QED
    BY <2>1, <2>2, <2>3, <2>4, <2>5, <2>6
<1>6. off[x] <= Len(t)
  <2>1. Len(ss) \in 0..Len(ss) /\ x \in 0..Len(ss)
    BY <1>5
  <2>2. off[x] <= off[Len(ss)]
    BY <1>1, <2>1, LayoutIsMonotone
  <2>3. QED
    BY <1>4, <2>2
<1> DEFINE a == off[x - 1]
           c == a + b
<1>7. /\ b \in Nat /\ n \in Nat /\ c \in Nat /\ c + n <= Len(t)
      /\ \A u \in 1..n : b + u \in 1..Len(ss[x])
      /\ \A u \in 1..n : c + u = a + (b + u)
  <2>1. b \in Nat /\ n \in Nat /\ b + n <= Len(ss[x])
    BY <1>3 DEF IsListing
  <2>2. a \in Nat /\ off[x] = a + Len(ss[x]) /\ Len(ss[x]) \in Nat
    BY <1>5
  <2> HIDE DEF a
  <2>3. a + Len(ss[x]) <= Len(t)
    BY <1>6, <2>2
  <2>4. QED
    BY <1>5, <2>1, <2>2, <2>3
<1>8. \A u \in 1..n : pos[u] \in Acting(list) /\ t[c + u] = SiblingOp(p, list, pos[u])
  <2> SUFFICES ASSUME NEW u \in 1..n
               PROVE  pos[u] \in Acting(list) /\ t[c + u] = SiblingOp(p, list, pos[u])
    OBVIOUS
  <2>1. pos[u] \in Acting(list) /\ ss[x][b + u] = SiblingOp(p, list, pos[u])
    BY <1>3 DEF IsListing
  <2>2. t[a + (b + u)] = ss[x][b + u]
    BY <1>4, <1>7
  <2>3. QED
    BY <1>7, <2>1, <2>2
<1>9. ASSUME NEW v \in 1..Len(t), Concerns(t[v], p, list)
      PROVE  \E u \in 1..n : v = c + u
  <2>1. PICK y \in 1..Len(ss) : off[y - 1] < v /\ v <= off[y]
    BY <1>1, <1>4, <1>9, LayoutCovers
  <2> DEFINE d == off[y - 1]
             j == v - d
  <2>2. j \in 1..Len(ss[y]) /\ v = d + j
    <3>1. d \in Nat /\ off[y] = d + Len(ss[y]) /\ Len(ss[y]) \in Nat /\ d < v /\ v <= off[y]
      BY <1>5, <2>1
    <3> HIDE DEF d
    <3>2. QED
      BY <1>5, <3>1
  <2> HIDE DEF j
  <2>3. t[v] = ss[y][j]
    BY <1>4, <2>2
  <2>4. y = x
    BY <1>9, <2>2, <2>3 DEF Unconcerned
  <2>5. PICK u \in 1..n : j = b + u
    BY <1>3, <1>9, <2>2, <2>3, <2>4 DEF IsListing
  <2>6. QED
    BY <1>7, <2>2, <2>4, <2>5
<1> HIDE DEF a, c
<1>10. IsListing(t, c, pos, n, p, list)
  BY <1>3, <1>7, <1>8, <1>9 DEF IsListing
<1>11. QED
  BY <1>10 DEF Listing, t

\* What an operation of a list makes is a member of it.
LEMMA SiblingOpMakes ==
    ASSUME NEW p, NEW list, NEW i \in Acting(list)
    PROVE  LET o == SiblingOp(p, list, i)
           IN  /\ IsNew(o) => o.under = p
               /\ \A q : Makes(o, q) => q = Path(p, list.new[i])
               /\ o.op = "create" => list.new[i].kind = "page"
               /\ o.op \in {"update", "move", "create", "append", "insert"}
<1> DEFINE o == SiblingOp(p, list, i)
           c == list.new[i]
<1>1. CASE IsKept(list, i)
  <2>1. o = [op |-> "update", id |-> NodeWith(list.old, c.key).id, hash |-> c.hash]
    BY <1>1 DEF SiblingOp
  <2>2. o.op = "update"
    BY <2>1
  <2> HIDE DEF o
  <2>3. QED
    BY <2>2 DEF IsNew, Makes, o
<1>2. CASE ~IsKept(list, i) /\ c.kind = "page"
  <2>1. \/ o = [op |-> "move", id |-> NodeWith(list.old, c.key).id]
        \/ o = [op |-> "create", node |-> Path(p, c)]
    BY <1>2 DEF SiblingOp
  <2>2. o.op = "move" \/ (o.op = "create" /\ o.node = Path(p, c))
    BY <2>1
  <2> HIDE DEF o
  <2>3. QED
    BY <1>2, <2>2 DEF IsNew, Makes, o
<1>3. CASE ~IsKept(list, i) /\ c.kind # "page"
  <2>1. \/ o = NewOp(p, list, i, "append", "tail")
        \/ o = NewOp(p, list, i, "insert", IF i = 1 THEN "head" ELSE "after")
    BY <1>3 DEF SiblingOp
  <2>2. o.op \in {"append", "insert"} /\ o.under = p /\ o.node = Path(p, c)
    BY <2>1 DEF NewOp
  <2> HIDE DEF o
  <2>3. QED
    BY <2>2 DEF IsNew, Makes, o
<1>4. QED
  BY <1>1, <1>2, <1>3

\* Operations that put nothing anywhere.
LEMMA IdleOps ==
    ASSUME NEW ops, \A v \in 1..Len(ops) : ops[v].op \in {"remove", "archive", "rename"}, NEW p, NEW list
    PROVE  Unconcerned(ops, p, list)
BY DEF Unconcerned, Concerns, IsNew, Makes

\* The paths of the two levels.
LEMMA PathsAre ==
    ASSUME NEW c
    PROVE  Path(Root, c) = <<c.key>> /\ \A k : Path(<<k>>, c) = <<k, c.key>>
<1>1. Path(Root, c) = <<c.key>>
  BY DEF Path, Root
<1>2. ASSUME NEW k PROVE Path(<<k>>, c) = <<k, c.key>>
  <2> DEFINE S == {k, c.key}
  <2>1. k \in S /\ c.key \in S
    OBVIOUS
  <2>2. Append(<<k>>, c.key) = <<k, c.key>>
    BY <2>1, AppendOne
  <2>3. QED
    BY <2>2 DEF Path
<1>3. QED
  BY <1>1, <1>2

\* The operations of a list do not concern another one.
LEMMA ListsApart ==
    ASSUME NEW ids, NEW all, NEW r \in Renderings, NEW base,
           NEW m, IsMatching(m, base, r, ids, all),
           NEW x \in 0..Len(r), NEW y \in 0..Len(r), x # y
    PROVE  Unconcerned(SiblingOps(PathOf(r, y), ListOf(m, y)), PathOf(r, x), ListOf(m, x))
<1> DEFINE p == PathOf(r, x)
           q == PathOf(r, y)
           list == ListOf(m, x)
           other == ListOf(m, y)
           t == SiblingOps(q, other)
<1>1. IsRendered(r) /\ Len(r) \in Nat /\ DOMAIN r = 1..Len(r)
  BY RenderingType DEF IsRendered
<1>2. /\ IsDiff(m.top, Root, r, ids, all)
      /\ \A i \in 1..Len(r) : IsDiff(m.kids[i], <<r[i].key>>, r, ids, all)
  BY DEF IsMatching
<1>3. IsDiff(list, p, r, ids, all) /\ IsDiff(other, q, r, ids, all)
  BY <1>1, <1>2 DEF ListOf, PathOf
<1>4. p # q
  <2>1. CASE x = 0 \/ y = 0
    BY <2>1 DEF PathOf, Root
  <2>2. CASE x # 0 /\ y # 0
    <3>1. x \in 1..Len(r) /\ y \in 1..Len(r)
      BY <1>1, <2>2
    <3>2. r[x].key # r[y].key
      BY <1>1, <3>1 DEF IsRendered, KeysDiffer
    <3>3. QED
      BY <2>2, <3>2 DEF PathOf
  <2>3. QED
    BY <2>1, <2>2
<1>5. ASSUME NEW c, NEW d PROVE Path(p, c) # Path(q, d)
  <2>1. CASE x # 0 /\ y # 0
    <3>1. p = <<r[x].key>> /\ q = <<r[y].key>>
      BY <2>1 DEF PathOf
    <3>2. Path(p, c) = <<r[x].key, c.key>> /\ Path(q, d) = <<r[y].key, d.key>>
      BY <3>1, PathsAre
    <3>3. r[x].key # r[y].key
      BY <1>4, <3>1
    <3> HIDE DEF p, q
    <3>4. QED
      BY <3>2, <3>3
  <2>2. CASE x = 0 \/ y = 0
    <3>1. (p = Root /\ q = <<r[y].key>>) \/ (p = <<r[x].key>> /\ q = Root)
      BY <2>2 DEF PathOf
    <3>2. \A e, f, g : <<e>> # <<f, g>>
      OBVIOUS
    <3> HIDE DEF p, q
    <3>3. CASE p = Root /\ q = <<r[y].key>>
      <4>1. Path(p, c) = <<c.key>> /\ Path(q, d) = <<r[y].key, d.key>>
        BY <3>3, PathsAre
      <4>2. QED
        BY <3>2, <4>1
    <3>4. CASE p = <<r[x].key>> /\ q = Root
      <4>1. Path(p, c) = <<r[x].key, c.key>> /\ Path(q, d) = <<d.key>>
        BY <3>4, PathsAre
      <4>2. QED
        BY <3>2, <4>1
    <3>5. QED
      BY <3>1, <3>3, <3>4
  <2>3. QED
    BY <2>1, <2>2
<1> HIDE DEF p, q, list, other
<1>6. PICK pos : IsSiblingOps(t, pos, q, other)
  BY <1>3, SiblingOpsAre DEF IsDiff
<1> HIDE DEF t
<1>7. ASSUME NEW v \in 1..Len(t) PROVE ~Concerns(t[v], p, list)
  <2>1. pos[v] \in Acting(other) /\ t[v] = SiblingOp(q, other, pos[v])
    BY <1>6 DEF IsSiblingOps, IsListed
  <2>2. /\ IsNew(t[v]) => t[v].under = q
        /\ \A s : Makes(t[v], s) => s = Path(q, other.new[pos[v]])
    BY <2>1, SiblingOpMakes
  <2>3. QED
    BY <1>4, <1>5, <2>2 DEF Concerns
<1>8. QED
  BY <1>7 DEF Unconcerned, t, p, q, list, other

\* Operations that follow one another concern no more than each of them does.
LEMMA UnconcernedJoined ==
    ASSUME NEW S, NEW s \in Seq(S), NEW t \in Seq(S), NEW p, NEW list,
           Unconcerned(s, p, list), Unconcerned(t, p, list)
    PROVE  Unconcerned(s \o t, p, list)
<1> DEFINE st == s \o t
<1>0. /\ Len(s) \in Nat /\ Len(t) \in Nat /\ Len(st) = Len(s) + Len(t)
      /\ \A i \in 1..Len(s) : st[i] = s[i]
      /\ \A i \in 1..Len(t) : st[Len(s) + i] = t[i]
  OBVIOUS
<1> HIDE DEF st
<1>1. ASSUME NEW i \in 1..Len(st), i \notin 1..Len(s)
      PROVE  \E j \in 1..Len(t) : i = Len(s) + j
  <2>1. i - Len(s) \in 1..Len(t) /\ i = Len(s) + (i - Len(s))
    BY <1>0, <1>1
  <2>2. QED
    BY <2>1
<1>2. ASSUME NEW v \in 1..Len(st) PROVE ~Concerns(st[v], p, list)
  <2>1. CASE v \in 1..Len(s)
    BY <1>0, <2>1 DEF Unconcerned
  <2>2. CASE \E j \in 1..Len(t) : v = Len(s) + j
    BY <1>0, <2>2 DEF Unconcerned
  <2>3. QED
    BY <1>1, <2>1, <2>2
<1>3. QED
  BY <1>2 DEF Unconcerned, st

\* So it is when they are flattened.
LEMMA UnconcernedFlat ==
    ASSUME NEW S, NEW ss \in Seq(Seq(S)), NEW p, NEW list,
           \A y \in 1..Len(ss) : Unconcerned(ss[y], p, list)
    PROVE  Unconcerned(FlattenSeq(ss), p, list)
<1> DEFINE t == FlattenSeq(ss)
<1>1. \A k \in 1..Len(t) : \E i \in 1..Len(ss) : \E j \in 1..Len(ss[i]) : t[k] = ss[i][j]
  BY FlattenMembers DEF IsMelted
<1> HIDE DEF t
<1>2. QED
  BY <1>1 DEF Unconcerned, t

\* The five parts of a plan.
KidOps(m, r, i) == SiblingOps(<<r[i].key>>, m.kids[i]) \o Removals(m.kids[i])
AllKidOps(m, r) == [i \in 1..Len(r) |-> KidOps(m, r, i)]

IsParts(m, r, S, a, ss, b, c, d, e) ==
    /\ a = SiblingOps(Root, m.top) /\ ss = AllKidOps(m, r) /\ b = FlattenSeq(ss)
    /\ c = Removals(m.top) /\ d = PageUpdates(m.top) /\ e = Archivals(m.top)
    /\ Plan(m) = a \o b \o c \o d \o e
    /\ a \in Seq(S) /\ ss \in Seq(Seq(S)) /\ Len(ss) = Len(r)
    /\ \A i \in 1..Len(r) : /\ ss[i] = KidOps(m, r, i)
                            /\ SiblingOps(<<r[i].key>>, m.kids[i]) \in Seq(S)
                            /\ Removals(m.kids[i]) \in Seq(S)
    /\ b \in Seq(S) /\ c \in Seq(S) /\ d \in Seq(S) /\ e \in Seq(S)

\* The page's list, those of the rendered nodes with their removals, the page's
\* removals, and the calls on sub-pages.
LEMMA PlanParts ==
    ASSUME NEW ids, NEW all, ids \subseteq all, NEW r \in Renderings, NEW base,
           NEW m, IsMatching(m, base, r, ids, all)
    PROVE  IsParts(m, r, PlanOps(r, ids, all), SiblingOps(Root, m.top), AllKidOps(m, r),
                   FlattenSeq(AllKidOps(m, r)), Removals(m.top), PageUpdates(m.top),
                   Archivals(m.top))
<1> DEFINE S == PlanOps(r, ids, all)
<1> DEFINE Kids(i) == SiblingOps(Path(Root, m.top.new[i]), m.kids[i]) \o Removals(m.kids[i])
           ss == AllKidOps(m, r)
<1>1. /\ IsDiff(m.top, Root, r, ids, all) /\ m.top.new = r /\ DOMAIN m.kids = 1..Len(r)
      /\ \A i \in 1..Len(r) : IsDiff(m.kids[i], <<r[i].key>>, r, ids, all)
  BY DEF IsMatching
<1>2. r \in Seq(Nodes) /\ Len(r) \in Nat /\ DOMAIN r = 1..Len(r)
  BY RenderingType DEF IsRendered
<1>3. \A i \in 1..Len(r) : Path(Root, m.top.new[i]) = <<r[i].key>>
  BY <1>1, PathsAre
<1>4. [i \in DOMAIN m.kids |-> Kids(i)] = ss
  BY <1>1, <1>3 DEF AllKidOps, KidOps
<1>5. Plan(m) = SiblingOps(Root, m.top) \o FlattenSeq(ss) \o Removals(m.top)
                    \o PageUpdates(m.top) \o Archivals(m.top)
  BY <1>4 DEF Plan
<1>6. SiblingOps(Root, m.top) \in Seq(Builds(r, ids, Root)) /\ PageUpdates(m.top) \in Seq(Builds(r, ids, Root))
  BY <1>1, SiblingOpsBuild, PageUpdatesBuild
<1>7. SiblingOps(Root, m.top) \in Seq(S) /\ PageUpdates(m.top) \in Seq(S)
  BY <1>6, PartsOfPlan
<1>8. Removals(m.top) \in Seq(S) /\ Archivals(m.top) \in Seq(S)
  <2>1. ClearsOf(Removals(m.top), m.top, all) /\ ClearsOf(Archivals(m.top), m.top, all)
    BY <1>1, RemovalsClear DEF IsDiff
  <2>2. QED
    BY <2>1, PartsOfPlan
<1>9. ASSUME NEW i \in 1..Len(r)
      PROVE  SiblingOps(<<r[i].key>>, m.kids[i]) \in Seq(S) /\ Removals(m.kids[i]) \in Seq(S)
  <2>1. IsDiff(m.kids[i], <<r[i].key>>, r, ids, all)
    BY <1>1
  <2>2. SiblingOps(<<r[i].key>>, m.kids[i]) \in Seq(Builds(r, ids, <<r[i].key>>))
    BY <2>1, SiblingOpsBuild
  <2>3. <<r[i].key>> \in Tops(r) \cup {Root}
    BY TopsUnfold
  <2>4. SiblingOps(<<r[i].key>>, m.kids[i]) \in Seq(S)
    BY <2>2, <2>3, PartsOfPlan
  <2>5. ClearsOf(Removals(m.kids[i]), m.kids[i], all)
    BY <2>1, RemovalsClear DEF IsDiff
  <2>6. Removals(m.kids[i]) \in Seq(S)
    BY <2>5, PartsOfPlan
  <2>7. QED
    BY <2>4, <2>6
<1>10. \A i \in 1..Len(r) : ss[i] = KidOps(m, r, i) /\ KidOps(m, r, i) \in Seq(S)
  <2> SUFFICES ASSUME NEW i \in 1..Len(r)
               PROVE  ss[i] = KidOps(m, r, i) /\ KidOps(m, r, i) \in Seq(S)
    OBVIOUS
  <2>1. ss[i] = KidOps(m, r, i)
    BY DEF AllKidOps
  <2>2. KidOps(m, r, i) \in Seq(S)
    BY <1>9, JoinedIs DEF KidOps
  <2>3. QED
    BY <2>1, <2>2
<1>11. ss \in Seq(Seq(S)) /\ Len(ss) = Len(r)
  <2>1. ss = [i \in 1..Len(r) |-> ss[i]]
    BY DEF AllKidOps
  <2> HIDE DEF ss
  <2>2. QED
    BY <1>2, <1>10, <2>1, ListIsSeq
<1>12. FlattenSeq(ss) \in Seq(S)
  BY <1>11, FlattenMembers DEF IsMelted
<1>13. QED
  BY <1>5, <1>7, <1>8, <1>9, <1>10, <1>11, <1>12 DEF IsParts

\* What removes, and what renames, puts nothing anywhere.
LEMMA ClearsIdle ==
    ASSUME NEW ids, NEW all, NEW list, IsBase(list.old, ids, all), IsRendered(list.new), NEW p, NEW other
    PROVE  /\ Unconcerned(Removals(list), p, other) /\ Unconcerned(Archivals(list), p, other)
           /\ Unconcerned(PageUpdates(list), p, other)
<1>1. ASSUME NEW v \in 1..Len(Removals(list)) PROVE Removals(list)[v].op = "remove"
  <2>1. PICK pos : IsClears(Removals(list), pos, "remove", list, Removed(list))
    BY ClearsAre DEF IsBase
  <2>2. Removals(list)[v] = ClearOp("remove", list, pos[v])
    BY <2>1 DEF IsClears
  <2>3. QED
    BY <2>2 DEF ClearOp
<1>2. ASSUME NEW v \in 1..Len(Archivals(list)) PROVE Archivals(list)[v].op = "archive"
  <2>1. PICK pos : IsClears(Archivals(list), pos, "archive", list, Archived(list))
    BY ClearsAre DEF IsBase
  <2>2. Archivals(list)[v] = ClearOp("archive", list, pos[v])
    BY <2>1 DEF IsClears
  <2>3. QED
    BY <2>2 DEF ClearOp
<1>3. ASSUME NEW v \in 1..Len(PageUpdates(list)) PROVE PageUpdates(list)[v].op = "rename"
  <2>1. PICK pos : IsRenames(PageUpdates(list), pos, list)
    BY RenamesAre
  <2>2. PageUpdates(list)[v] = RenameOp(list, pos[v])
    BY <2>1 DEF IsRenames
  <2>3. QED
    BY <2>2 DEF RenameOp
<1>4. QED
  BY <1>1, <1>2, <1>3, IdleOps

\* Each list of a plan has its operations in one place.
LEMMA PlanListing ==
    ASSUME NEW ids, NEW all, ids \subseteq all, NEW r \in Renderings, NEW base,
           NEW m, IsMatching(m, base, r, ids, all), NEW x \in 0..Len(r)
    PROVE  Listing(Plan(m), PathOf(r, x), ListOf(m, x))
<1> DEFINE p == PathOf(r, x)
           list == ListOf(m, x)
           S == PlanOps(r, ids, all)
           a == SiblingOps(Root, m.top)
           ss == AllKidOps(m, r)
           b == FlattenSeq(ss)
           c == Removals(m.top)
           d == PageUpdates(m.top)
           e == Archivals(m.top)
<1>0. IsParts(m, r, S, a, ss, b, c, d, e)
  BY PlanParts
<1> HIDE DEF S, a, ss, b, c, d, e
<1>1. /\ a = SiblingOps(Root, m.top) /\ b = FlattenSeq(ss)
      /\ Plan(m) = a \o b \o c \o d \o e
      /\ c = Removals(m.top) /\ d = PageUpdates(m.top) /\ e = Archivals(m.top)
      /\ a \in Seq(S) /\ ss \in Seq(Seq(S)) /\ Len(ss) = Len(r)
      /\ \A i \in 1..Len(r) : ss[i] = KidOps(m, r, i)
      /\ \A i \in 1..Len(r) : SiblingOps(<<r[i].key>>, m.kids[i]) \in Seq(S)
                                    /\ Removals(m.kids[i]) \in Seq(S)
      /\ b \in Seq(S) /\ c \in Seq(S) /\ d \in Seq(S) /\ e \in Seq(S)
  BY <1>0 DEF IsParts
<1>2. /\ IsDiff(m.top, Root, r, ids, all) /\ Len(r) \in Nat
      /\ \A i \in 1..Len(r) : IsDiff(m.kids[i], <<r[i].key>>, r, ids, all)
  BY RenderingType DEF IsMatching, IsRendered
<1>3. Unconcerned(c, p, list) /\ Unconcerned(d, p, list) /\ Unconcerned(e, p, list)
  BY <1>1, <1>2, ClearsIdle DEF IsDiff
<1>4. \A i \in 1..Len(r) : Unconcerned(Removals(m.kids[i]), p, list)
  BY <1>2, ClearsIdle DEF IsDiff
<1>5. \A y \in 0..Len(r) : y # x => Unconcerned(SiblingOps(PathOf(r, y), ListOf(m, y)), p, list)
  BY ListsApart
<1>6. \A i \in 1..Len(r) : i # 0 /\ PathOf(r, i) = <<r[i].key>> /\ ListOf(m, i) = m.kids[i]
  BY <1>2 DEF PathOf, ListOf
<1>7. PathOf(r, 0) = Root /\ ListOf(m, 0) = m.top
  BY DEF PathOf, ListOf
<1>8. Listing(SiblingOps(p, list), p, list)
  <2>1. IsRendered(list.new)
    BY <1>2, <1>6, <1>7 DEF IsDiff
  <2>2. QED
    BY <2>1, ListingAlone
<1> HIDE DEF p, list
<1>9. ASSUME NEW y \in 1..Len(r), y # x PROVE Unconcerned(ss[y], p, list)
  <2>1. Unconcerned(SiblingOps(<<r[y].key>>, m.kids[y]), p, list)
    BY <1>2, <1>5, <1>6, <1>9
  <2>2. Unconcerned(Removals(m.kids[y]), p, list)
    BY <1>4
  <2>3. QED
    BY <1>1, <2>1, <2>2, UnconcernedJoined DEF KidOps
<1>10. Listing(a \o b, p, list)
  <2>1. CASE x = 0
    <3>1. p = Root /\ list = m.top
      BY <1>7, <2>1 DEF p, list
    <3>2. Listing(a, p, list)
      BY <1>1, <1>8, <3>1
    <3>3. Unconcerned(b, p, list)
      BY <1>1, <1>2, <1>9, <2>1, UnconcernedFlat
    <3>4. QED
      BY <1>1, <3>2, <3>3, ListingBefore
  <2>2. CASE x # 0
    <3>1. x \in 1..Len(r)
      BY <1>2, <2>2
    <3>2. p = <<r[x].key>> /\ list = m.kids[x]
      BY <1>6, <3>1 DEF p, list
    <3>3. Unconcerned(a, p, list)
      BY <1>1, <1>2, <1>5, <1>7, <2>2
    <3>4. Listing(SiblingOps(<<r[x].key>>, m.kids[x]), p, list)
      BY <1>8, <3>2
    <3>5. Listing(ss[x], p, list)
      BY <1>1, <1>4, <3>1, <3>4, ListingBefore DEF KidOps
    <3>6. Listing(b, p, list)
      BY <1>1, <1>9, <3>1, <3>5, ListingAmong
    <3>7. QED
      BY <1>1, <3>3, <3>6, ListingBehind
  <2>3. QED
    BY <2>1, <2>2
<1>11. \A s, t \in Seq(S) : /\ s \o t \in Seq(S)
                           /\ Listing(s, p, list) /\ Unconcerned(t, p, list) => Listing(s \o t, p, list)
  BY JoinedIs, ListingBefore
<1>12. a \o b \in Seq(S) /\ (a \o b) \o c \in Seq(S) /\ ((a \o b) \o c) \o d \in Seq(S)
  BY <1>1, <1>11
<1>13. Listing((a \o b) \o c, p, list)
  BY <1>1, <1>3, <1>10, <1>11, <1>12
<1>14. Listing(((a \o b) \o c) \o d, p, list)
  BY <1>1, <1>3, <1>11, <1>12, <1>13
<1>15. Listing((((a \o b) \o c) \o d) \o e, p, list)
  <2> DEFINE s == ((a \o b) \o c) \o d
  <2>1. s \in Seq(S) /\ e \in Seq(S) /\ Listing(s, p, list) /\ Unconcerned(e, p, list)
    BY <1>1, <1>3, <1>12, <1>14
  <2> HIDE DEF s
  <2>2. Listing(s \o e, p, list)
    BY <2>1, <1>11
  <2>3. QED
    BY <2>2 DEF s
<1>16. QED
  BY <1>1, <1>15 DEF p, list

----------------------------------------------------------------------------
(* What a plan consists of *)

Has(ops, o) == \E v \in 1..Len(ops) : ops[v] = o

\* What one list asks for.
ListAsks(o, p, list) ==
    \/ \E i \in Acting(list) : o = SiblingOp(p, list, i)
    \/ \E i \in Removed(list) : o = ClearOp("remove", list, i)

PlanAsks(o, m, r) ==
    \/ \E x \in 0..Len(r) : ListAsks(o, PathOf(r, x), ListOf(m, x))
    \/ \E i \in Drifted(m.top) : o = RenameOp(m.top, i)
    \/ \E i \in Archived(m.top) : o = ClearOp("archive", m.top, i)

\* The operations of two sequences,
LEMMA HasJoined ==
    ASSUME NEW S, NEW s \in Seq(S), NEW t \in Seq(S), NEW o
    PROVE  Has(s \o t, o) <=> Has(s, o) \/ Has(t, o)
<1> DEFINE st == s \o t
<1>1. /\ \A i \in 1..Len(s) : st[i] = s[i]
      /\ \A i \in 1..Len(t) : st[Len(s) + i] = t[i]
      /\ \A i \in 1..Len(st) : i \in 1..Len(s) \/ \E j \in 1..Len(t) : i = Len(s) + j
      /\ Len(st) = Len(s) + Len(t) /\ Len(s) \in Nat /\ Len(t) \in Nat
  BY JoinedIs
<1> HIDE DEF st
<1>2. ASSUME Has(st, o) PROVE Has(s, o) \/ Has(t, o)
  BY <1>1, <1>2 DEF Has
<1>3. ASSUME Has(s, o) PROVE Has(st, o)
  BY <1>1, <1>3 DEF Has
<1>4. ASSUME Has(t, o) PROVE Has(st, o)
  <2>1. PICK i \in 1..Len(t) : t[i] = o
    BY <1>4 DEF Has
  <2>2. Len(s) + i \in 1..Len(st) /\ st[Len(s) + i] = o
    BY <1>1, <2>1
  <2>3. QED
    BY <2>2 DEF Has
<1>5. QED
  BY <1>2, <1>3, <1>4 DEF st

\* and of many.
LEMMA HasFlat ==
    ASSUME NEW S, NEW ss \in Seq(Seq(S)), NEW o
    PROVE  Has(FlattenSeq(ss), o) <=> \E y \in 1..Len(ss) : Has(ss[y], o)
<1> DEFINE t == FlattenSeq(ss)
<1>1. /\ \A k \in 1..Len(t) : \E i \in 1..Len(ss) : \E j \in 1..Len(ss[i]) : t[k] = ss[i][j]
      /\ \A i \in 1..Len(ss) : \A j \in 1..Len(ss[i]) : \E k \in 1..Len(t) : t[k] = ss[i][j]
  BY FlattenMembers DEF IsMelted
<1> HIDE DEF t
<1>2. Has(t, o) <=> \E y \in 1..Len(ss) : Has(ss[y], o)
  <2>1. ASSUME Has(t, o) PROVE \E y \in 1..Len(ss) : Has(ss[y], o)
    <3>1. PICK k \in 1..Len(t) : t[k] = o
      BY <2>1 DEF Has
    <3>2. PICK i \in 1..Len(ss) : \E j \in 1..Len(ss[i]) : t[k] = ss[i][j]
      BY <1>1
    <3>3. QED
      BY <3>1, <3>2 DEF Has
  <2>2. ASSUME NEW y \in 1..Len(ss), Has(ss[y], o) PROVE Has(t, o)
    <3>1. PICK j \in 1..Len(ss[y]) : ss[y][j] = o
      BY <2>2 DEF Has
    <3>2. PICK k \in 1..Len(t) : t[k] = ss[y][j]
      BY <1>1
    <3>3. QED
      BY <3>1, <3>2 DEF Has
  <2>3. QED
    BY <2>1, <2>2
<1>3. QED
  BY <1>2 DEF t

\* The parts of a plan, one by one.
IsAsked(o, p, list) ==
    /\ Has(SiblingOps(p, list), o) <=> \E i \in Acting(list) : o = SiblingOp(p, list, i)
    /\ Has(Removals(list), o) <=> \E i \in Removed(list) : o = ClearOp("remove", list, i)
    /\ Has(Archivals(list), o) <=> \E i \in Archived(list) : o = ClearOp("archive", list, i)
    /\ Has(PageUpdates(list), o) <=> \E i \in Drifted(list) : o = RenameOp(list, i)

\* Each has an operation for every sibling that asks for one.
LEMMA HasParts ==
    ASSUME NEW ids, NEW all, NEW list, IsRendered(list.new), IsBase(list.old, ids, all), NEW p, NEW o
    PROVE  IsAsked(o, p, list)
<1>1. Has(SiblingOps(p, list), o) <=> \E i \in Acting(list) : o = SiblingOp(p, list, i)
  <2>1. PICK pos : IsSiblingOps(SiblingOps(p, list), pos, p, list)
    BY SiblingOpsAre
  <2>2. QED
    BY <2>1 DEF IsSiblingOps, IsListed, Has
<1>2. Has(Removals(list), o) <=> \E i \in Removed(list) : o = ClearOp("remove", list, i)
  <2>1. PICK pos : IsClears(Removals(list), pos, "remove", list, Removed(list))
    BY ClearsAre DEF IsBase
  <2>2. QED
    BY <2>1 DEF IsClears, IsListed, Has
<1>3. Has(Archivals(list), o) <=> \E i \in Archived(list) : o = ClearOp("archive", list, i)
  <2>1. PICK pos : IsClears(Archivals(list), pos, "archive", list, Archived(list))
    BY ClearsAre DEF IsBase
  <2>2. QED
    BY <2>1 DEF IsClears, IsListed, Has
<1>4. Has(PageUpdates(list), o) <=> \E i \in Drifted(list) : o = RenameOp(list, i)
  <2>1. PICK pos : IsRenames(PageUpdates(list), pos, list)
    BY RenamesAre
  <2>2. QED
    BY <2>1 DEF IsRenames, IsListed, Has
<1>5. QED
  BY <1>1, <1>2, <1>3, <1>4 DEF IsAsked

\* A plan consists of what its lists ask for, and of the calls on sub-pages.
LEMMA PlanHas ==
    ASSUME NEW ids, NEW all, ids \subseteq all, NEW r \in Renderings, NEW base,
           NEW m, IsMatching(m, base, r, ids, all), NEW o
    PROVE  Has(Plan(m), o) <=> PlanAsks(o, m, r)
<1> DEFINE S == PlanOps(r, ids, all)
           a == SiblingOps(Root, m.top)
           ss == AllKidOps(m, r)
           b == FlattenSeq(ss)
           c == Removals(m.top)
           d == PageUpdates(m.top)
           e == Archivals(m.top)
<1>0. IsParts(m, r, S, a, ss, b, c, d, e)
  BY PlanParts
<1> HIDE DEF S, a, ss, b, c, d, e
<1>1. /\ a = SiblingOps(Root, m.top) /\ b = FlattenSeq(ss)
      /\ Plan(m) = a \o b \o c \o d \o e
      /\ c = Removals(m.top) /\ d = PageUpdates(m.top) /\ e = Archivals(m.top)
      /\ a \in Seq(S) /\ ss \in Seq(Seq(S)) /\ Len(ss) = Len(r)
      /\ b \in Seq(S) /\ c \in Seq(S) /\ d \in Seq(S) /\ e \in Seq(S)
  BY <1>0 DEF IsParts
<1>2. /\ \A i \in 1..Len(r) : ss[i] = KidOps(m, r, i)
      /\ \A i \in 1..Len(r) : SiblingOps(<<r[i].key>>, m.kids[i]) \in Seq(S)
                                    /\ Removals(m.kids[i]) \in Seq(S)
  BY <1>0 DEF IsParts
<1>3. /\ IsRendered(m.top.new) /\ IsBase(m.top.old, ids, all)
      /\ \A i \in 1..Len(r) : IsRendered(m.kids[i].new) /\ IsBase(m.kids[i].old, ids, all)
  <2>1. /\ IsDiff(m.top, Root, r, ids, all)
        /\ \A i \in 1..Len(r) : IsDiff(m.kids[i], <<r[i].key>>, r, ids, all)
    BY DEF IsMatching
  <2>2. QED
    BY <2>1 DEF IsDiff
<1>4. \A s, t \in Seq(S) : s \o t \in Seq(S) /\ (Has(s \o t, o) <=> Has(s, o) \/ Has(t, o))
  BY JoinedIs, HasJoined
<1>5. a \o b \in Seq(S) /\ (Has(a \o b, o) <=> Has(a, o) \/ Has(b, o))
  BY <1>1, <1>4
<1>6. (a \o b) \o c \in Seq(S) /\ (Has((a \o b) \o c, o) <=> Has(a, o) \/ Has(b, o) \/ Has(c, o))
  BY <1>1, <1>4, <1>5
<1>7. /\ ((a \o b) \o c) \o d \in Seq(S)
      /\ Has(((a \o b) \o c) \o d, o) <=> Has(a, o) \/ Has(b, o) \/ Has(c, o) \/ Has(d, o)
  BY <1>1, <1>4, <1>6
<1>8. Has(Plan(m), o) <=> Has(a, o) \/ Has(b, o) \/ Has(c, o) \/ Has(d, o) \/ Has(e, o)
  <2> DEFINE abcd == ((a \o b) \o c) \o d
  <2>1. abcd \in Seq(S) /\ e \in Seq(S)
    BY <1>1, <1>7
  <2> HIDE DEF abcd
  <2>2. Has(abcd \o e, o) <=> Has(abcd, o) \/ Has(e, o)
    BY <1>4, <2>1
  <2>3. QED
    BY <1>1, <1>7, <2>2 DEF abcd
<1>9. /\ Has(a, o) <=> \E i \in Acting(m.top) : o = SiblingOp(Root, m.top, i)
      /\ Has(c, o) <=> \E i \in Removed(m.top) : o = ClearOp("remove", m.top, i)
      /\ Has(d, o) <=> \E i \in Drifted(m.top) : o = RenameOp(m.top, i)
      /\ Has(e, o) <=> \E i \in Archived(m.top) : o = ClearOp("archive", m.top, i)
  <2>1. IsAsked(o, Root, m.top)
    BY <1>3, HasParts
  <2>2. QED
    BY <1>1, <2>1 DEF IsAsked
<1>10. Has(b, o) <=> \E y \in 1..Len(r) : Has(ss[y], o)
  BY <1>1, HasFlat
<1>11. ASSUME NEW y \in 1..Len(r)
       PROVE  Has(ss[y], o) <=> ListAsks(o, <<r[y].key>>, m.kids[y])
  <2>0. /\ ss[y] = SiblingOps(<<r[y].key>>, m.kids[y]) \o Removals(m.kids[y])
        /\ SiblingOps(<<r[y].key>>, m.kids[y]) \in Seq(S) /\ Removals(m.kids[y]) \in Seq(S)
    BY <1>2 DEF KidOps
  <2>1. Has(ss[y], o) <=> Has(SiblingOps(<<r[y].key>>, m.kids[y]), o) \/ Has(Removals(m.kids[y]), o)
    BY <1>4, <2>0
  <2>2. IsAsked(o, <<r[y].key>>, m.kids[y])
    BY <1>3, HasParts
  <2>3. QED
    BY <2>1, <2>2 DEF ListAsks, IsAsked
<1>12. /\ ListOf(m, 0) = m.top /\ PathOf(r, 0) = Root /\ 0 \in 0..Len(r)
       /\ \A y \in 1..Len(r) : /\ ListOf(m, y) = m.kids[y] /\ PathOf(r, y) = <<r[y].key>>
                               /\ y \in 0..Len(r)
       /\ \A y \in 0..Len(r) : y = 0 \/ y \in 1..Len(r)
  <2>1. Len(r) \in Nat
    BY RenderingType DEF IsRendered
  <2>2. QED
    BY <2>1 DEF ListOf, PathOf
<1>13. (\E x \in 0..Len(r) : ListAsks(o, PathOf(r, x), ListOf(m, x)))
            <=> \/ ListAsks(o, Root, m.top)
                \/ \E y \in 1..Len(r) : ListAsks(o, <<r[y].key>>, m.kids[y])
  BY <1>12
<1>14. ListAsks(o, Root, m.top) <=> Has(a, o) \/ Has(c, o)
  BY <1>9 DEF ListAsks
<1>15. QED
  BY <1>8, <1>9, <1>10, <1>11, <1>13, <1>14 DEF PlanAsks
==============================================================================
