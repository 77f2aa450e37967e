------------------------- MODULE PageSyncConvergence -------------------------
(***************************************************************************)
(* An undisturbed sync makes the page what the application renders, a      *)
(* second one makes no call, and the checkpoints on the way are true: for  *)
(* any set of renderings, any batch size, and any number of renders,       *)
(* faults and edits by others.                                             *)
(*                                                                         *)
(* A list of siblings is compared with the rendered one while calls are    *)
(* still to be made (Aligned): what is bound is there, in the rendered     *)
(* order and with its payload or with a call to come that sets it, and     *)
(* everything else is going.  The lists that a sync begins with are        *)
(* aligned, because a longest common subsequence is kept in its order      *)
(* (BeganAligned).  They stay so when a call lands: what it creates is the *)
(* next run of the rendering that is not bound, and the place that the     *)
(* call names is where it belongs (Fitting); what it removes is not bound, *)
(* and what it sets is what is rendered (Apt).  When no call is left, an   *)
(* aligned list is the rendered one (AlignedDone).                         *)
(*                                                                         *)
(* This is the course of the working cache and, while nothing disturbs the *)
(* sync, of the page's own list (Underway, Tracks).  What the page has     *)
(* under its blocks is related to the working cache instead: a call on     *)
(* blocks does the same to both (AgreesSent), so that they agree about     *)
(* contents as long as every call is answered once (Faithful), whatever    *)
(* others do to the children of the page.  Calls on sub-pages write no     *)
(* checkpoint; they do no harm to this because the ids of blocks and those *)
(* of sub-pages are apart (Sorts).                                         *)
(***************************************************************************)
EXTENDS PageSyncProofs

----------------------------------------------------------------------------
(* The calls of a plan, list by list *)

IsDue(list, i) == ~IsKept(list, i) /\ ~IsMoved(list.old, list.kept, list.new[i])

\* What the operation of a sibling puts in its place.
LEMMA SiblingOpPuts ==
    ASSUME NEW list, IsRendered(list.new), NEW p, NEW i \in Acting(list), NEW o, o = SiblingOp(p, list, i)
    PROVE  /\ IsNew(o) => /\ ~IsKept(list, i) /\ list.new[i].kind = "block"
                          /\ o.under = p /\ o.node = Path(p, list.new[i])
           /\ o.op = "append" => ~KeptAfter(list, i) /\ o.at = "tail"
           /\ o.op = "insert" => /\ o.at = IF i = 1 THEN "head" ELSE "after"
                                 /\ i # 1 => o.after = Path(p, list.new[i - 1])
           /\ (\E q : Makes(o, q)) => IsDue(list, i)
           /\ IsDue(list, i) => Makes(o, Path(p, list.new[i]))
<1> DEFINE c == list.new[i]
<1>1. c.kind \in Kinds
  BY NodeType DEF IsRendered, Acting
<1>2. CASE IsKept(list, i)
  <2>1. o.op = "update"
    BY <1>2 DEF SiblingOp
  <2>2. QED
    BY <1>2, <2>1 DEF IsNew, Makes, IsDue
<1>3. CASE ~IsKept(list, i) /\ c.kind = "page"
  <2>1. CASE IsMoved(list.old, list.kept, c)
    <3>1. o.op = "move"
      BY <1>3, <2>1 DEF SiblingOp
    <3>2. QED
      BY <2>1, <3>1 DEF IsNew, Makes, IsDue
  <2>2. CASE ~IsMoved(list.old, list.kept, c)
    <3>1. o = [op |-> "create", node |-> Path(p, c)]
      BY <1>3, <2>2 DEF SiblingOp
    <3>2. QED
      BY <1>3, <2>2, <3>1 DEF IsNew, Makes, IsDue
  <2>3. QED
    BY <2>1, <2>2
<1>4. CASE ~IsKept(list, i) /\ c.kind = "block"
  <2>1. ~IsMoved(list.old, list.kept, c)
    BY <1>4 DEF IsMoved
  <2>2. CASE ~KeptAfter(list, i)
    <3>1. o = NewOp(p, list, i, "append", "tail")
      BY <1>4, <2>2 DEF SiblingOp
    <3>2. o.op = "append" /\ o.under = p /\ o.node = Path(p, c) /\ o.at = "tail"
      BY <3>1 DEF NewOp
    <3>3. QED
      BY <1>4, <2>1, <2>2, <3>2 DEF IsNew, Makes, IsDue
  <2>3. CASE KeptAfter(list, i)
    <3>1. o = NewOp(p, list, i, "insert", IF i = 1 THEN "head" ELSE "after")
      BY <1>4, <2>3 DEF SiblingOp
    <3>2. /\ o.op = "insert" /\ o.under = p /\ o.node = Path(p, c)
          /\ o.at = IF i = 1 THEN "head" ELSE "after"
          /\ i # 1 => o.after = Path(p, list.new[i - 1])
      BY <3>1 DEF NewOp
    <3>3. QED
      BY <1>4, <2>1, <3>2 DEF IsNew, Makes, IsDue
  <2>4. QED
    BY <2>2, <2>3
<1>5. QED
  BY <1>1, <1>2, <1>3, <1>4 DEF Kinds

IsParent(p) == p = Root \/ \E k : p = <<k>>

\* Siblings have paths of their own.
LEMMA PathsDiffer ==
    ASSUME NEW cs, IsRendered(cs), NEW p, IsParent(p)
    PROVE  \A i, j \in 1..Len(cs) : Path(p, cs[i]) = Path(p, cs[j]) => i = j
<1> SUFFICES ASSUME NEW i \in 1..Len(cs), NEW j \in 1..Len(cs), Path(p, cs[i]) = Path(p, cs[j])
             PROVE  i = j
  OBVIOUS
<1>1. cs[i].key = cs[j].key
  <2>1. CASE p = Root
    <3>1. <<cs[i].key>> = <<cs[j].key>>
      BY <2>1, PathsAre
    <3>2. QED
      BY <3>1
  <2>2. CASE \E k : p = <<k>>
    <3>1. PICK k : p = <<k>>
      BY <2>2
    <3>2. <<k, cs[i].key>> = <<k, cs[j].key>>
      BY <3>1, PathsAre
    <3>3. QED
      BY <3>2
  <2>3. QED
    BY <2>1, <2>2 DEF IsParent
<1>2. i \in DOMAIN cs /\ j \in DOMAIN cs
  BY DEF IsRendered
<1>3. QED
  BY <1>1, <1>2 DEF IsRendered, KeysDiffer

\* The calls begin one after the other.
LEMMA HeadsRise ==
    ASSUME NEW ops, NEW queue, NEW head, IsBatching(queue, head, ops), Len(ops) \in Nat,
           NEW k \in 1..(Len(queue) + 1), NEW l \in k..(Len(queue) + 1)
    PROVE  head[k] <= head[l] /\ (k < l => head[k] < head[l] /\ head[k + 1] <= head[l])
<1> DEFINE L == Len(queue)
           n == Len(ops)
<1>1. /\ L \in Nat /\ head \in [1..(L + 1) -> 1..(n + 1)]
      /\ \A i \in 1..L : head[i] < head[i + 1]
  BY DEF IsBatching
<1>2. \A i \in 1..(L + 1) : head[i] \in Nat
  BY <1>1
<1> HIDE DEF L, n
<1>3. ASSUME NEW i \in 1..(L + 1) PROVE \A j \in i..(L + 1) : head[i] <= head[j]
  <2> DEFINE S == {d \in 0..(L + 1 - i) : head[i] <= head[i + d]}
  <2>1. L + 1 - i \in Nat
    BY <1>1
  <2>2. 0 \in S
    BY <1>1, <1>2, <2>1
  <2>3. ASSUME NEW d \in 0..((L + 1 - i) - 1), d \in S PROVE d + 1 \in S
    <3>1. i + d \in 1..L /\ i + d + 1 \in 1..(L + 1) /\ d + 1 \in 0..(L + 1 - i)
      BY <1>1
    <3>2. head[i + d] < head[i + d + 1]
      BY <1>1, <3>1
    <3>3. head[i] <= head[i + d] /\ i + d \in 1..(L + 1)
      BY <1>1, <2>3, <3>1
    <3>4. head[i] <= head[i + d + 1]
      BY <1>2, <3>1, <3>2, <3>3
    <3>5. i + (d + 1) = i + d + 1
      BY <1>1
    <3>6. QED
      BY <3>1, <3>4, <3>5
  <2> HIDE DEF S
  <2>4. 0..(L + 1 - i) \subseteq S
    BY <2>1, <2>2, <2>3, BoundedInduction
  <2>5. ASSUME NEW j \in i..(L + 1) PROVE head[i] <= head[j]
    <3>1. j - i \in 0..(L + 1 - i) /\ i + (j - i) = j
      BY <1>1
    <3>2. j - i \in S
      BY <2>4, <3>1
    <3>3. QED
      BY <3>1, <3>2 DEF S
  <2>6. QED
    BY <2>5
<1>4. k \in 1..(L + 1) /\ l \in k..(L + 1)
  BY DEF L
<1>5. head[k] <= head[l]
  BY <1>3, <1>4
<1>6. ASSUME k < l PROVE head[k] < head[l] /\ head[k + 1] <= head[l]
  <2>1. k \in 1..L /\ k + 1 \in 1..(L + 1) /\ l \in (k + 1)..(L + 1) /\ l \in 1..(L + 1)
    BY <1>1, <1>4, <1>6
  <2>2. head[k + 1] <= head[l] /\ head[k] < head[k + 1]
    BY <1>1, <1>3, <2>1
  <2>3. QED
    BY <1>2, <1>4, <2>1, <2>2
<1>7. QED
  BY <1>5, <1>6

MadeAt(v, ops, k, j, queue, head) ==
    /\ v \in 1..Len(ops) /\ v >= head[k] /\ v < head[k + 1] /\ v = head[k] + j - 1
    /\ Makes(ops[v], Created(queue[k])[j])

\* What a call creates, one of its operations makes.
LEMMA CreatedByOp ==
    ASSUME NEW S, NEW ops \in Seq(S), NEW queue, NEW head, IsBatching(queue, head, ops),
           NEW k \in 1..Len(queue), NEW j \in DOMAIN Created(queue[k])
    PROVE  \E v : MadeAt(v, ops, k, j, queue, head)
<1> DEFINE h == head[k]
           e == head[k + 1]
           c == queue[k]
           L == Len(queue)
           N == Len(ops)
<1>1. /\ L \in Nat /\ N \in Nat /\ k \in 1..L /\ k + 1 \in 1..(L + 1)
      /\ head \in [1..(L + 1) -> 1..(N + 1)]
      /\ c = IF IsNew(ops[h]) THEN AppendOf(ops, h, e - h) ELSE ops[h]
      /\ h < e
  BY DEF IsBatching
<1>2. h \in 1..N /\ e \in 1..(N + 1) /\ h < e
  <2> HIDE DEF L, N
  <2>1. h \in 1..(N + 1) /\ e \in 1..(N + 1)
    BY <1>1
  <2>2. QED
    BY <1>1, <2>1
<1> SUFFICES \E v : /\ v \in 1..N /\ v >= h /\ v < e /\ v = h + j - 1
                    /\ Makes(ops[v], Created(c)[j])
  BY DEF MadeAt
<1>3. CASE IsNew(ops[h])
  <2>1. c.op = "append" /\ c.nodes = [i \in 1..(e - h) |-> ops[h + i - 1].node]
    BY <1>1, <1>3 DEF AppendOf
  <2>2. Created(c) = c.nodes
    BY <2>1 DEF Created
  <2>3. j \in 1..(e - h) /\ Created(c)[j] = ops[h + j - 1].node
    BY <2>1, <2>2
  <2> HIDE DEF h, e, c, L, N
  <2>4. h + j - 1 \in h..(e - 1) /\ h + j - 1 \in 1..N /\ h + j - 1 < e /\ h + j - 1 >= h
    BY <1>1, <1>2, <2>3
  <2>5. IsNew(ops[h + j - 1])
    BY <1>3, <2>4, CallsHoldTogether DEF h, e
  <2>6. Makes(ops[h + j - 1], Created(c)[j])
    BY <2>3, <2>5 DEF Makes, IsNew
  <2>7. QED
    BY <2>4, <2>6
<1>4. CASE ~IsNew(ops[h])
  <2>1. c = ops[h] /\ c.op # "append"
    BY <1>1, <1>4 DEF IsNew
  <2>2. c.op = "create" /\ Created(c) = <<c.node>>
    <3>1. CASE c.op = "create"
      BY <3>1 DEF Created
    <3>2. CASE c.op # "create"
      <4>1. Created(c) = <<>>
        BY <2>1, <3>2 DEF Created
      <4>2. QED
        BY <4>1
    <3>3. QED
      BY <3>1, <3>2
  <2>3. j = 1 /\ Created(c)[j] = c.node
    BY <2>2
  <2>4. h + j - 1 = h
    BY <1>2, <2>3
  <2>5. Makes(ops[h], c.node)
    BY <2>1, <2>2 DEF Makes
  <2> HIDE DEF h, e, c, N
  <2>6. h \in 1..N /\ h >= h /\ h < e /\ h = h + j - 1 /\ Makes(ops[h], Created(c)[j])
    BY <1>2, <2>3, <2>4, <2>5
  <2>7. QED
    BY <2>6
<1>5. QED
  BY <1>3, <1>4

----------------------------------------------------------------------------
(* Where the calls of a list put what they create *)

\* The queue of a sync that begins, seen from one list: its operations come one after the
\* other, and what is not due has its id.
Starts(queue, head, ops, b, pos, n, p, list, binding) ==
    /\ IsBatching(queue, head, ops)
    /\ IsListing(ops, b, pos, n, p, list)
    /\ IsRendered(list.new) /\ IsParent(p)
    /\ \A q \in 1..Len(list.new) : Path(p, list.new[q]) \in DOMAIN binding <=> ~IsDue(list, q)

\* Which operations make a path.
LEMMA MadeBy ==
    ASSUME NEW S, NEW ops \in Seq(S), NEW queue, NEW head, NEW b, NEW pos, NEW n, NEW p,
           NEW list, NEW binding, Starts(queue, head, ops, b, pos, n, p, list, binding),
           NEW q \in 1..Len(list.new)
    PROVE  /\ \A v \in 1..Len(ops) : Makes(ops[v], Path(p, list.new[q])) =>
                IsDue(list, q) /\ \E u \in 1..n : v = b + u /\ pos[u] = q
           /\ IsDue(list, q) => \E u \in 1..n : pos[u] = q /\ Makes(ops[b + u], Path(p, list.new[q]))
<1> DEFINE cs == list.new
<1>1. /\ b \in Nat /\ n \in Nat /\ IsRendered(cs) /\ IsParent(p)
      /\ \A u \in 1..n : pos[u] \in Acting(list) /\ ops[b + u] = SiblingOp(p, list, pos[u])
      /\ \A i \in Acting(list) : \E u \in 1..n : pos[u] = i
      /\ \A v \in 1..Len(ops) : Concerns(ops[v], p, list) => \E u \in 1..n : v = b + u
  BY DEF Starts, IsListing
<1>2. DOMAIN cs = 1..Len(cs) /\ Acting(list) \subseteq 1..Len(cs)
  BY <1>1 DEF IsRendered, Acting
<1>3. ASSUME NEW v \in 1..Len(ops), Makes(ops[v], Path(p, cs[q]))
      PROVE  IsDue(list, q) /\ \E u \in 1..n : v = b + u /\ pos[u] = q
  <2>1. Concerns(ops[v], p, list)
    BY <1>2, <1>3 DEF Concerns
  <2>2. PICK u \in 1..n : v = b + u
    BY <1>1, <2>1
  <2>3. pos[u] \in Acting(list) /\ ops[v] = SiblingOp(p, list, pos[u])
    BY <1>1, <2>2
  <2>4. Path(p, cs[q]) = Path(p, cs[pos[u]]) /\ IsDue(list, pos[u])
    BY <1>1, <1>3, <2>3, SiblingOpMakes, SiblingOpPuts
  <2>5. pos[u] = q
    BY <1>1, <1>2, <2>3, <2>4, PathsDiffer
  <2>6. QED
    BY <2>2, <2>4, <2>5
<1>4. ASSUME IsDue(list, q)
      PROVE  \E u \in 1..n : pos[u] = q /\ Makes(ops[b + u], Path(p, cs[q]))
  <2>1. q \in Acting(list)
    BY <1>2, <1>4 DEF IsDue, Acting, Acts
  <2>2. PICK u \in 1..n : pos[u] = q
    BY <1>1, <2>1
  <2>3. ops[b + u] = SiblingOp(p, list, q)
    BY <1>1, <2>2
  <2>4. Makes(ops[b + u], Path(p, cs[q]))
    BY <1>1, <1>4, <2>1, <2>3, SiblingOpPuts
  <2>5. QED
    BY <2>2, <2>4
<1>5. QED
  BY <1>3, <1>4

\* What is due and has no operation before a call is not there before it.
LEMMA NotYetThere ==
    ASSUME NEW S, NEW ops \in Seq(S), NEW queue, NEW head, NEW b, NEW pos, NEW n, NEW p,
           NEW list, NEW binding, Starts(queue, head, ops, b, pos, n, p, list, binding),
           NEW q \in 1..Len(list.new), NEW k \in 1..Len(queue), IsDue(list, q),
           \A u \in 1..n : pos[u] = q => b + u >= head[k]
    PROVE  ~AtHand(Path(p, list.new[q]), binding, queue, k)
<1> DEFINE pq == Path(p, list.new[q])
<1>1. pq \notin DOMAIN binding
  BY DEF Starts
<1>2. IsBatching(queue, head, ops) /\ Len(ops) \in Nat /\ Len(queue) \in Nat
      /\ head \in [1..(Len(queue) + 1) -> 1..(Len(ops) + 1)]
  BY DEF Starts, IsBatching
<1>3. ASSUME NEW l \in 1..(k - 1), pq \in ToSet(Created(queue[l])) PROVE FALSE
  <2>1. l \in 1..Len(queue) /\ l < k /\ k \in l..(Len(queue) + 1) /\ l + 1 \in 1..(Len(queue) + 1)
        /\ k \in 1..(Len(queue) + 1) /\ l \in 1..(Len(queue) + 1)
    BY <1>2
  <2>2. PICK j \in DOMAIN Created(queue[l]) : pq = Created(queue[l])[j]
    BY <1>3 DEF ToSet
  <2>3. PICK v : MadeAt(v, ops, l, j, queue, head)
    BY <1>2, <2>1, <2>2, CreatedByOp
  <2>3a. v \in 1..Len(ops) /\ v < head[l + 1] /\ Makes(ops[v], pq)
    BY <2>2, <2>3 DEF MadeAt
  <2>4. head[l + 1] <= head[k]
    BY <1>2, <2>1, HeadsRise
  <2>5. head[k] \in Nat /\ head[l + 1] \in Nat
    <3> DEFINE N == Len(ops)
               L == Len(queue)
    <3>1. N \in Nat /\ L \in Nat /\ head \in [1..(L + 1) -> 1..(N + 1)]
          /\ k \in 1..(L + 1) /\ l + 1 \in 1..(L + 1)
      BY <1>2, <2>1
    <3> HIDE DEF N, L
    <3>2. head[k] \in 1..(N + 1) /\ head[l + 1] \in 1..(N + 1)
      BY <3>1
    <3>3. QED
      BY <3>1, <3>2
  <2> HIDE DEF pq
  <2>6. PICK u \in 1..n : v = b + u /\ pos[u] = q
    BY <2>3a, MadeBy DEF pq
  <2>7. v >= head[k]
    BY <2>6
  <2>8. QED
    BY <2>3a, <2>4, <2>5, <2>7
<1>4. QED
  BY <1>1, <1>3 DEF AtHand

\* The call of an operation, before every call that begins behind it.
IsMadeIn(k, p, u, queue, head) ==
    /\ k \in 1..Len(queue) /\ p \in ToSet(Created(queue[k]))
    /\ \A l \in 1..Len(queue) : u < head[l] => k < l

\* Every operation that makes something is in such a call.
LEMMA MadeInCall ==
    ASSUME NEW S, NEW ops \in Seq(S), NEW queue, NEW head, IsBatching(queue, head, ops),
           NEW u \in 1..Len(ops), NEW p, Makes(ops[u], p)
    PROVE  \E k : IsMadeIn(k, p, u, queue, head)
<1>1. PICK k \in 1..Len(queue) :
                /\ p \in ToSet(Created(queue[k]))
                /\ \A l \in 1..Len(queue) : u < head[l] => k < l
  BY CallsMake
<1>2. QED
  BY <1>1 DEF IsMadeIn

\* What has its id, or has all its operations before a call, is there by then.
LEMMA ThereByThen ==
    ASSUME NEW S, NEW ops \in Seq(S), NEW queue, NEW head, NEW b, NEW pos, NEW n, NEW p,
           NEW list, NEW binding, Starts(queue, head, ops, b, pos, n, p, list, binding),
           NEW q \in 1..Len(list.new), NEW k \in 1..Len(queue),
           \A u \in 1..n : pos[u] = q => b + u < head[k]
    PROVE  AtHand(Path(p, list.new[q]), binding, queue, k)
<1> DEFINE pq == Path(p, list.new[q])
<1>1. CASE ~IsDue(list, q)
  BY <1>1 DEF Starts, AtHand
<1>2. CASE IsDue(list, q)
  <2>1. PICK u \in 1..n : pos[u] = q /\ Makes(ops[b + u], pq)
    BY <1>2, MadeBy
  <2>2. b + u \in 1..Len(ops) /\ b + u < head[k] /\ IsBatching(queue, head, ops)
    <3>1. b \in Nat /\ n \in Nat /\ b + n <= Len(ops) /\ Len(ops) \in Nat
      BY DEF Starts, IsListing
    <3>2. QED
      BY <2>1, <3>1 DEF Starts
  <2> DEFINE w == b + u
  <2>3. w \in 1..Len(ops) /\ w < head[k] /\ Makes(ops[w], pq)
    BY <2>1, <2>2
  <2> HIDE DEF w, pq
  <2>4. PICK l : IsMadeIn(l, pq, w, queue, head)
    BY <2>2, <2>3, MadeInCall
  <2>5. l \in 1..(k - 1)
    <3>1. Len(queue) \in Nat
      BY <2>2 DEF IsBatching
    <3>2. QED
      BY <2>3, <2>4, <3>1 DEF IsMadeIn
  <2>6. QED
    BY <2>4, <2>5 DEF AtHand, IsMadeIn, pq
<1>3. QED
  BY <1>1, <1>2

----------------------------------------------------------------------------
(* The calls that create take a run of a list, and know where it belongs *)

\* Operations that chain are about neighbours.
LEMMA NextPlace ==
    ASSUME NEW ops, NEW queue, NEW head, NEW b, NEW pos, NEW n, NEW p,
           NEW list, NEW binding, Starts(queue, head, ops, b, pos, n, p, list, binding),
           NEW u \in 1..n, u + 1 \in 1..n, Chains(ops[b + (u + 1)], ops[b + u])
    PROVE  pos[u + 1] = pos[u] + 1
<1> DEFINE cs == list.new
           i == pos[u]
           j == pos[u + 1]
           o == ops[b + (u + 1)]
           prev == ops[b + u]
<1>1. /\ n \in Nat /\ IsRendered(cs) /\ IsParent(p)
      /\ \A v \in 1..n : pos[v] \in Acting(list) /\ ops[b + v] = SiblingOp(p, list, pos[v])
      /\ \A q \in Acting(list) : \E v \in 1..n : pos[v] = q
      /\ IsRising(pos, n)
  BY DEF Starts, IsListing
<1>2. DOMAIN cs = 1..Len(cs) /\ Len(cs) \in Nat /\ Acting(list) \subseteq 1..Len(cs)
  BY <1>1 DEF IsRendered, Acting
<1>3. /\ i \in Acting(list) /\ prev = SiblingOp(p, list, i)
      /\ j \in Acting(list) /\ o = SiblingOp(p, list, j)
      /\ i < j
  BY <1>1 DEF IsRising
<1>4. IsNew(o) /\ o.op = prev.op /\ (o.op = "insert" => o.at = "after" /\ o.after = prev.node)
  BY DEF Chains
<1> HIDE DEF i, j, o, prev
<1>5. CASE o.op = "insert"
  <2>1. o.at = (IF j = 1 THEN "head" ELSE "after") /\ (j # 1 => o.after = Path(p, cs[j - 1]))
    BY <1>1, <1>3, <1>5, SiblingOpPuts
  <2>2. j # 1 /\ o.after = Path(p, cs[j - 1])
    BY <1>4, <1>5, <2>1
  <2>3. prev.node = Path(p, cs[i])
    <3>1. IsNew(prev)
      BY <1>4, <1>5 DEF IsNew
    <3>2. QED
      BY <1>1, <1>3, <3>1, SiblingOpPuts
  <2>4. j - 1 \in 1..Len(cs) /\ i \in 1..Len(cs)
    BY <1>2, <1>3, <2>2
  <2>5. Path(p, cs[j - 1]) = Path(p, cs[i])
    BY <1>4, <1>5, <2>2, <2>3
  <2>6. j - 1 = i
    BY <1>1, <2>4, <2>5, PathsDiffer
  <2>7. QED
    BY <1>2, <1>3, <2>6 DEF i, j
<1>6. CASE o.op = "append"
  <2>0. prev.op = "append"
    BY <1>4, <1>6
  <2>1. ~KeptAfter(list, i)
    BY <1>1, <1>3, <2>0, SiblingOpPuts
  <2>2. i + 1 \in 1..Len(cs) /\ i + 1 > i /\ i \in Nat /\ j \in Nat
    BY <1>2, <1>3
  <2>3. ~IsKept(list, i + 1)
    BY <1>2, <2>1, <2>2 DEF KeptAfter
  <2>4. i + 1 \in Acting(list)
    BY <1>2, <2>2, <2>3 DEF Acting, Acts
  <2>5. PICK v \in 1..n : pos[v] = i + 1
    BY <1>1, <2>4
  <2>6. ~(v < u) /\ v # u
    BY <1>1, <2>2, <2>5 DEF IsRising, i
  <2>7. v = u + 1 \/ u + 1 < v
    BY <1>1, <2>6
  <2>8. CASE u + 1 < v
    <3>1. j < i + 1
      BY <1>1, <2>5, <2>8 DEF IsRising, j
    <3>2. QED
      BY <1>3, <2>2, <3>1
  <2>9. CASE v = u + 1
    BY <2>5, <2>9 DEF i
  <2>10. QED
    BY <2>7, <2>8, <2>9
<1>7. QED
  BY <1>4, <1>5, <1>6 DEF IsNew

\* The run of a call.
TakesRun(u, len, nodes, h, ops, b, pos, n, p, list) ==
    /\ u \in 1..n /\ len \in Nat \ {0} /\ h = b + u /\ u + len - 1 <= n /\ Len(nodes) = len
    /\ \A d \in 0..(len - 1) : pos[u + d] = pos[u] + d /\ IsNew(ops[b + (u + d)])
    /\ \A j \in 1..len : nodes[j] = Path(p, list.new[pos[u] + j - 1])

\* An append takes neighbours of one list.
LEMMA CallTakesRun ==
    ASSUME NEW S, NEW ops \in Seq(S), NEW queue, NEW head, NEW b, NEW pos, NEW n, NEW p,
           NEW list, NEW binding, Starts(queue, head, ops, b, pos, n, p, list, binding),
           NEW k \in 1..Len(queue), queue[k].op = "append", queue[k].under = p
    PROVE  \E u : /\ TakesRun(u, head[k + 1] - head[k], queue[k].nodes, head[k], ops, b, pos, n, p, list)
                  /\ queue[k] = AppendOf(ops, head[k], head[k + 1] - head[k])
<1> DEFINE h == head[k]
           e == head[k + 1]
           len == e - h
           N == Len(ops)
           L == Len(queue)
           cs == list.new
<1>1. /\ b \in Nat /\ n \in Nat /\ b + n <= N /\ IsRendered(cs) /\ IsParent(p)
      /\ \A v \in 1..n : pos[v] \in Acting(list) /\ ops[b + v] = SiblingOp(p, list, pos[v])
      /\ \A v \in 1..N : Concerns(ops[v], p, list) => \E u \in 1..n : v = b + u
      /\ IsBatching(queue, head, ops)
  BY DEF Starts, IsListing
<1>2. /\ L \in Nat /\ N \in Nat /\ head \in [1..(L + 1) -> 1..(N + 1)] /\ h < e
      /\ queue[k] = IF IsNew(ops[h]) THEN AppendOf(ops, h, len) ELSE ops[h]
      /\ \A i \in (h + 1)..(e - 1) : Follows(ops, i)
  BY <1>1 DEF IsBatching
<1>3. h \in 1..N /\ e \in 1..(N + 1) /\ h < e /\ N \in Nat /\ h \in Nat /\ e \in Nat
  <2> HIDE DEF N
  <2>1. k \in 1..L /\ k + 1 \in 1..(L + 1) /\ k \in 1..(L + 1)
    BY <1>2
  <2> HIDE DEF L
  <2>2. h \in 1..(N + 1) /\ e \in 1..(N + 1)
    BY <1>2, <2>1
  <2>3. QED
    BY <1>2, <2>2, SMTT(30)
<1>4. IsNew(ops[h]) /\ queue[k] = AppendOf(ops, h, len)
  BY <1>2 DEF IsNew
<1>5. ops[h].under = p /\ queue[k].nodes = [j \in 1..len |-> ops[h + j - 1].node]
  BY <1>4 DEF AppendOf
<1> HIDE DEF h, e, N, L
<1>6. Concerns(ops[h], p, list)
  BY <1>4, <1>5 DEF Concerns
<1>7. PICK u \in 1..n : h = b + u
  BY <1>1, <1>3, <1>6
<1>8. len \in Nat \ {0} /\ h + len = e /\ b \in Nat /\ u \in Nat /\ n \in Nat
  BY <1>1, <1>3
<1>9. ASSUME NEW d \in 0..(len - 1)
      PROVE  /\ h + d \in 1..N /\ h + d = b + (u + d) /\ u + d \in 1..n
             /\ IsNew(ops[h + d]) /\ ops[h + d].under = p
  <2>1. h + d \in h..(e - 1) /\ h + d \in 1..N /\ h + d = b + (u + d)
    BY <1>3, <1>7, <1>8
  <2> DEFINE w == h + d
  <2>2. w \in head[k]..(head[k + 1] - 1)
    BY <2>1 DEF h, e
  <2> HIDE DEF w
  <2>3. IsNew(ops[w]) /\ ops[w].under = p
    BY <1>1, <1>4, <1>5, <2>2, CallsHoldTogether DEF h
  <2>4. Concerns(ops[w], p, list)
    BY <2>3 DEF Concerns
  <2>5. PICK v \in 1..n : w = b + v
    BY <1>1, <2>1, <2>4 DEF w
  <2>6. v = u + d
    BY <1>1, <1>7, <2>1, <2>5 DEF w
  <2>7. QED
    BY <2>1, <2>3, <2>5, <2>6 DEF w
<1>10. ASSUME NEW d \in 0..(len - 2) PROVE pos[u + d + 1] = pos[u + d] + 1
  <2>1. d \in 0..(len - 1) /\ d + 1 \in 0..(len - 1) /\ h + (d + 1) \in (h + 1)..(e - 1)
        /\ (h + (d + 1)) - 1 = h + d
    BY <1>3, <1>8
  <2>2. Follows(ops, h + (d + 1))
    BY <1>2, <2>1
  <2>3. Chains(ops[h + (d + 1)], ops[h + d])
    BY <2>1, <2>2 DEF Follows
  <2>4. /\ h + d = b + (u + d) /\ u + d \in 1..n
        /\ h + (d + 1) = b + (u + (d + 1)) /\ u + (d + 1) \in 1..n
    BY <1>9, <2>1
  <2>5. u + (d + 1) = (u + d) + 1
    BY <2>1
  <2> DEFINE x == u + d
  <2>6. x \in 1..n /\ x + 1 \in 1..n /\ Chains(ops[b + (x + 1)], ops[b + x])
    BY <2>3, <2>4, <2>5
  <2> HIDE DEF x
  <2>7. pos[x + 1] = pos[x] + 1
    BY <2>6, NextPlace
  <2>8. QED
    BY <2>5, <2>7 DEF x
<1>11. \A v \in 1..n : pos[v] \in Nat
  BY <1>1 DEF IsRendered, Acting
<1>12. \A d \in 0..(len - 1) : pos[u + d] = pos[u] + d
  <2> DEFINE S1 == {d \in 0..(len - 1) : pos[u + d] = pos[u] + d}
  <2>1. len - 1 \in Nat
    BY <1>8
  <2>2. 0 \in S1
    <3>1. u + 0 = u /\ pos[u] + 0 = pos[u] /\ 0 \in 0..(len - 1)
      BY <1>1, <1>11, <2>1
    <3>2. QED
      BY <3>1
  <2>3. ASSUME NEW d \in 0..((len - 1) - 1), d \in S1 PROVE d + 1 \in S1
    <3>1. d \in 0..(len - 2) /\ d + 1 \in 0..(len - 1)
      BY <1>8
    <3>2. pos[u + d + 1] = pos[u + d] + 1 /\ pos[u + d] = pos[u] + d /\ pos[u] \in Nat
      BY <1>10, <1>11, <2>3, <3>1
    <3>3. u + (d + 1) = u + d + 1 /\ pos[u] + d + 1 = pos[u] + (d + 1)
      <4>1. \A i \in Nat : i + (d + 1) = i + d + 1
        BY <1>8, <3>1
      <4>2. QED
        BY <1>8, <3>2, <4>1
    <3>4. QED
      BY <3>1, <3>2, <3>3
  <2> HIDE DEF S1
  <2>4. 0..(len - 1) \subseteq S1
    BY <2>1, <2>2, <2>3, BoundedInduction
  <2>5. QED
    BY <2>4 DEF S1
<1>13. ASSUME NEW j \in 1..len PROVE queue[k].nodes[j] = Path(p, cs[pos[u] + j - 1])
  <2> DEFINE d == j - 1
  <2>1. d \in 0..(len - 1) /\ h + j - 1 = h + d
    BY <1>3, <1>8
  <2>2. pos[u] + j - 1 = pos[u] + d
    BY <1>8, <1>11
  <2>3. queue[k].nodes[j] = ops[h + j - 1].node
    BY <1>5
  <2> HIDE DEF d
  <2>4. /\ h + d = b + (u + d) /\ u + d \in 1..n /\ IsNew(ops[h + d]) /\ pos[u + d] = pos[u] + d
    BY <1>9, <1>12, <2>1
  <2> DEFINE w == u + d
  <2>5. w \in 1..n /\ IsNew(ops[b + w])
    BY <2>4
  <2> HIDE DEF w
  <2>6. pos[w] \in Acting(list) /\ ops[b + w] = SiblingOp(p, list, pos[w])
    BY <1>1, <2>5
  <2>7. ops[b + w].node = Path(p, cs[pos[w]])
    BY <1>1, <2>5, <2>6, SiblingOpPuts
  <2>8. QED
    BY <2>1, <2>2, <2>3, <2>4, <2>7 DEF w
<1>14. u + len - 1 <= n
  <2>1. len - 1 \in 0..(len - 1)
    BY <1>8
  <2>2. u + (len - 1) \in 1..n
    BY <1>9, <2>1
  <2>3. QED
    BY <1>1, <1>8, <2>2
<1>15. Len(queue[k].nodes) = len
  BY <1>5, <1>8
<1>16. \A d \in 0..(len - 1) : IsNew(ops[b + (u + d)])
  BY <1>9
<1>17. TakesRun(u, len, queue[k].nodes, h, ops, b, pos, n, p, list)
  BY <1>7, <1>8, <1>12, <1>13, <1>14, <1>15, <1>16 DEF TakesRun
<1>18. QED
  BY <1>4, <1>17 DEF h, e

----------------------------------------------------------------------------
(* Calls that fit *)

\* Where a call creates what is new of a list: a run of it, behind what is before it.
Fits(new, at, after, i0, p, cs, binding, queue, l) ==
    /\ i0 \in Nat \ {0} /\ Len(new) \in Nat \ {0} /\ i0 + Len(new) - 1 <= Len(cs)
    /\ \A j \in 1..Len(new) : new[j] = Path(p, cs[i0 + j - 1])
    /\ at \in {"head", "after", "tail"}
    /\ at = "head" => i0 = 1
    /\ at = "after" => i0 > 1 /\ after = Path(p, cs[i0 - 1]) /\ AtHand(after, binding, queue, l)
    /\ at = "tail" => \A q \in i0..Len(cs) : ~AtHand(Path(p, cs[q]), binding, queue, l)

At(call)    == IF call.op = "append" THEN call.at ELSE "tail"
After(call) == IF call.op = "append" THEN call.after ELSE Root

Fitting(call, p, cs, binding, queue, l) ==
    \E i0 : Fits(Created(call), At(call), After(call), i0, p, cs, binding, queue, l)

\* Nothing is created that is there already.
Novel(binding, queue, l) == \A p \in ToSet(Created(queue[l])) : ~AtHand(p, binding, queue, l)

\* Behind a sub-page that is created, and behind the last sibling that is kept, all is new.
LEMMA DueToTheEnd ==
    ASSUME NEW list, IsRendered(list.new), PagesComeLast(list), NEW i \in 1..Len(list.new),
           IsDue(list, i), list.new[i].kind = "page" \/ ~KeptAfter(list, i)
    PROVE  \A q \in i..Len(list.new) : IsDue(list, q)
<1> DEFINE cs == list.new
<1>1. DOMAIN cs = 1..Len(cs) /\ Len(cs) \in Nat
  BY DEF IsRendered
<1>2. \A j \in DOMAIN cs : j > i => cs[j].key \notin list.kept
  <2>1. CASE ~KeptAfter(list, i)
    BY <2>1 DEF KeptAfter, IsKept
  <2>2. CASE cs[i].kind = "page"
    BY <1>1, <2>2 DEF PagesComeLast, IsDue, IsKept
  <2>3. QED
    BY <2>1, <2>2
<1>3. ASSUME NEW q \in i..Len(cs), q # i PROVE IsDue(list, q)
  <2>1. q \in DOMAIN cs /\ q > i
    BY <1>1, <1>3
  <2>2. cs[q].key \notin list.kept
    BY <1>2, <2>1
  <2>3. ~IsMoved(list.old, list.kept, cs[q])
    <3>1. CASE cs[q].kind = "page"
      BY <2>1, <2>2, <3>1 DEF PagesComeLast
    <3>2. CASE cs[q].kind # "page"
      BY <3>2 DEF IsMoved
    <3>3. QED
      BY <3>1, <3>2
  <2>4. QED
    BY <2>2, <2>3 DEF IsDue, IsKept
<1>4. QED
  BY <1>3

\* An append fits.
LEMMA AppendFits ==
    ASSUME NEW S, NEW ops \in Seq(S), NEW queue, NEW head, NEW b, NEW pos, NEW n, NEW p,
           NEW list, NEW binding, Starts(queue, head, ops, b, pos, n, p, list, binding),
           PagesComeLast(list),
           NEW k \in 1..Len(queue), queue[k].op = "append", queue[k].under = p
    PROVE  Fitting(queue[k], p, list.new, binding, queue, k)
<1> DEFINE h == head[k]
           len == head[k + 1] - head[k]
           c == queue[k]
           cs == list.new
<1>1. PICK u : /\ TakesRun(u, len, c.nodes, h, ops, b, pos, n, p, list)
               /\ c = AppendOf(ops, h, len)
  BY CallTakesRun
<1> DEFINE i0 == pos[u]
<1>2. /\ u \in 1..n /\ len \in Nat \ {0} /\ h = b + u /\ u + len - 1 <= n /\ Len(c.nodes) = len
      /\ \A d \in 0..(len - 1) : pos[u + d] = i0 + d /\ IsNew(ops[b + (u + d)])
      /\ \A j \in 1..len : c.nodes[j] = Path(p, cs[i0 + j - 1])
  BY <1>1 DEF TakesRun
<1>3. /\ b \in Nat /\ n \in Nat /\ b + n <= Len(ops) /\ IsRendered(cs) /\ IsParent(p)
      /\ \A v \in 1..n : pos[v] \in Acting(list) /\ ops[b + v] = SiblingOp(p, list, pos[v])
      /\ IsRising(pos, n)
      /\ \A v \in 1..Len(ops) : Concerns(ops[v], p, list) => \E x \in 1..n : v = b + x
  BY DEF Starts, IsListing
<1>4. Created(c) = c.nodes /\ At(c) = c.at /\ After(c) = c.after
  BY DEF Created, At, After
<1>5. /\ c.at = IF Follows(ops, h) THEN "after" ELSE ops[h].at
      /\ c.after = IF Follows(ops, h) THEN ops[h - 1].node ELSE ops[h].after
  BY <1>1 DEF AppendOf
<1>6. DOMAIN cs = 1..Len(cs) /\ Len(cs) \in Nat /\ (\A v \in 1..n : pos[v] \in 1..Len(cs))
  <2>1. IsRendered(cs) /\ \A v \in 1..n : pos[v] \in Acting(list)
    BY <1>3
  <2>2. DOMAIN cs = 1..Len(cs) /\ Len(cs) \in Nat
    BY <2>1 DEF IsRendered
  <2>3. QED
    BY <2>1, <2>2 DEF Acting
<1> HIDE DEF h, len, c, i0
<1>7. IsNew(ops[h])
  <2>1. 0 \in 0..(len - 1) /\ b + (u + 0) = h
    BY <1>2, <1>3
  <2>2. QED
    BY <1>2, <2>1
<1>8. i0 \in 1..Len(cs) /\ i0 \in Acting(list) /\ ops[h] = SiblingOp(p, list, i0)
  BY <1>2, <1>3, <1>6 DEF i0
<1>9. i0 + len - 1 <= Len(cs)
  <2>1. len - 1 \in 0..(len - 1) /\ u + (len - 1) \in 1..n
    BY <1>2, <1>3
  <2>2. pos[u + (len - 1)] = i0 + (len - 1)
    BY <1>2, <2>1
  <2>3. pos[u + (len - 1)] \in 1..Len(cs)
    BY <1>6, <2>1
  <2>4. i0 + (len - 1) = i0 + len - 1
    BY <1>2, <1>8
  <2>5. QED
    BY <1>6, <2>2, <2>3, <2>4
<1>10. ASSUME NEW q \in 1..Len(cs), q < i0 PROVE AtHand(Path(p, cs[q]), binding, queue, k)
  <2>1. ASSUME NEW v \in 1..n, pos[v] = q PROVE b + v < h
    <3>1. ~(u < v) /\ u # v
      <4>1. i0 \in Nat /\ q \in Nat
        BY <1>8
      <4>2. u < v => i0 < q
        BY <1>2, <1>3, <2>1 DEF IsRising, i0
      <4>3. u = v => i0 = q
        BY <2>1 DEF i0
      <4>4. QED
        BY <1>10, <4>1, <4>2, <4>3
    <3>2. QED
      BY <1>2, <1>3, <3>1
  <2>2. QED
    BY <2>1, ThereByThen DEF h
<1>11. ASSUME NEW q \in 1..Len(cs), q >= i0, IsDue(list, q)
       PROVE  ~AtHand(Path(p, cs[q]), binding, queue, k)
  <2>1. ASSUME NEW v \in 1..n, pos[v] = q PROVE b + v >= h
    <3>1. ~(v < u)
      <4>1. i0 \in Nat /\ q \in Nat
        BY <1>8
      <4>2. v < u => q < i0
        BY <1>2, <1>3, <2>1 DEF IsRising, i0
      <4>3. QED
        BY <1>11, <4>1, <4>2
    <3>2. QED
      BY <1>2, <1>3, <3>1
  <2>2. QED
    BY <1>11, <2>1, NotYetThere DEF h
<1>12. IsDue(list, i0)
  <2>1. Makes(ops[h], ops[h].node)
    BY <1>7 DEF IsNew, Makes
  <2>2. QED
    BY <1>3, <1>8, <2>1, SiblingOpPuts
<1>13. Follows(ops, h) => i0 > 1 /\ ops[h - 1].node = Path(p, cs[i0 - 1])
  <2> HAVE Follows(ops, h)
  <2>1. h > 1 /\ Chains(ops[h], ops[h - 1])
    BY DEF Follows
  <2>2. IsNew(ops[h - 1]) /\ ops[h - 1].under = p
    <3>1. ops[h].under = p
      BY <1>3, <1>7, <1>8, SiblingOpPuts
    <3>2. QED
      BY <2>1, <3>1 DEF Chains, IsNew
  <2>3. h - 1 \in 1..Len(ops)
    BY <1>2, <1>3, <2>1, SMTT(30)
  <2>4. Concerns(ops[h - 1], p, list)
    BY <2>2 DEF Concerns
  <2>5. PICK v \in 1..n : h - 1 = b + v
    BY <1>3, <2>3, <2>4
  <2>6. v + 1 = u /\ b + (v + 1) = h /\ v + 1 \in 1..n
    BY <1>2, <1>3, <2>5
  <2>7. Chains(ops[b + (v + 1)], ops[b + v])
    BY <2>1, <2>5, <2>6
  <2>8. pos[v + 1] = pos[v] + 1
    BY <2>6, <2>7, NextPlace
  <2>9. i0 = pos[v] + 1 /\ pos[v] \in 1..Len(cs)
    BY <1>6, <2>6, <2>8 DEF i0
  <2>10. ops[h - 1] = SiblingOp(p, list, pos[v]) /\ pos[v] \in Acting(list)
    BY <1>3, <2>5
  <2>11. ops[h - 1].node = Path(p, cs[pos[v]])
    BY <1>3, <2>2, <2>10, SiblingOpPuts
  <2>12. i0 > 1 /\ i0 - 1 = pos[v]
    BY <2>9
  <2>13. QED
    BY <2>11, <2>12
<1>14. /\ ops[h].op = "append" => ~KeptAfter(list, i0) /\ ops[h].at = "tail"
       /\ ops[h].op = "insert" => /\ ops[h].at = IF i0 = 1 THEN "head" ELSE "after"
                                  /\ i0 # 1 => ops[h].after = Path(p, cs[i0 - 1])
       /\ ops[h].op \in {"append", "insert"}
  BY <1>3, <1>7, <1>8, SiblingOpPuts DEF IsNew
<1>15. /\ c.at \in {"head", "after", "tail"}
       /\ c.at = "head" => i0 = 1
       /\ c.at = "after" => i0 > 1 /\ c.after = Path(p, cs[i0 - 1])
       /\ c.at = "tail" => ~KeptAfter(list, i0)
  <2>1. CASE Follows(ops, h)
    BY <1>5, <1>13, <2>1
  <2>2. CASE ~Follows(ops, h)
    <3>1. c.at = ops[h].at /\ c.after = ops[h].after
      BY <1>5, <2>2
    <3>2. i0 # 1 => i0 > 1
      BY <1>8
    <3>3. CASE ops[h].op = "append"
      BY <1>14, <3>1, <3>3
    <3>4. CASE ops[h].op = "insert"
      BY <1>14, <3>1, <3>2, <3>4
    <3>5. QED
      BY <1>14, <3>3, <3>4
  <2>3. QED
    BY <2>1, <2>2
<1>16. c.at = "after" => AtHand(c.after, binding, queue, k)
  <2> HAVE c.at = "after"
  <2>1. i0 > 1 /\ c.after = Path(p, cs[i0 - 1])
    BY <1>15
  <2>2. i0 - 1 \in 1..Len(cs) /\ i0 - 1 < i0
    BY <1>8, <2>1
  <2>3. AtHand(Path(p, cs[i0 - 1]), binding, queue, k)
    BY <1>10, <2>2
  <2>4. QED
    BY <2>1, <2>3
<1>17. c.at = "tail" => \A q \in i0..Len(cs) : ~AtHand(Path(p, cs[q]), binding, queue, k)
  <2> SUFFICES ASSUME c.at = "tail", NEW q \in i0..Len(cs)
               PROVE  ~AtHand(Path(p, cs[q]), binding, queue, k)
    OBVIOUS
  <2>1. IsDue(list, q)
    BY <1>3, <1>8, <1>12, <1>15, DueToTheEnd
  <2>2. q \in 1..Len(cs) /\ q >= i0
    BY <1>8
  <2>3. QED
    BY <1>11, <2>1, <2>2
<1>18. Fits(c.nodes, c.at, c.after, i0, p, cs, binding, queue, k)
  BY <1>2, <1>8, <1>9, <1>15, <1>16, <1>17 DEF Fits
<1>19. QED
  BY <1>4, <1>18 DEF Fitting, c

\* So does a call that creates a sub-page.
LEMMA CreateFits ==
    ASSUME NEW S, NEW ops \in Seq(S), NEW queue, NEW head, NEW b, NEW pos, NEW n, NEW p,
           NEW list, NEW binding, Starts(queue, head, ops, b, pos, n, p, list, binding),
           PagesComeLast(list),
           NEW k \in 1..Len(queue), queue[k].op = "create",
           NEW i \in 1..Len(list.new), queue[k].node = Path(p, list.new[i])
    PROVE  list.new[i].kind = "page" /\ Fitting(queue[k], p, list.new, binding, queue, k)
<1> DEFINE h == head[k]
           c == queue[k]
           cs == list.new
           new == Created(c)
<1>1. new = <<c.node>> /\ At(c) = "tail"
  BY DEF Created, At
<1>2. /\ b \in Nat /\ n \in Nat /\ b + n <= Len(ops) /\ IsRendered(cs) /\ IsParent(p)
      /\ \A v \in 1..n : pos[v] \in Acting(list) /\ ops[b + v] = SiblingOp(p, list, pos[v])
      /\ IsRising(pos, n) /\ IsBatching(queue, head, ops)
  BY DEF Starts, IsListing
<1>3. 1 \in DOMAIN new /\ new[1] = c.node
  BY <1>1
<1>4. PICK v : MadeAt(v, ops, k, 1, queue, head)
  BY <1>2, <1>3, CreatedByOp
<1>5. v \in 1..Len(ops) /\ v = h /\ Makes(ops[v], c.node)
  <2>1. h \in Nat
    <3> DEFINE N == Len(ops)
               L == Len(queue)
    <3>1. N \in Nat /\ L \in Nat /\ head \in [1..(L + 1) -> 1..(N + 1)] /\ k \in 1..(L + 1)
      BY <1>2 DEF IsBatching
    <3> HIDE DEF N, L
    <3>2. head[k] \in 1..(N + 1)
      BY <3>1
    <3>3. QED
      BY <3>1, <3>2
  <2>2. v \in 1..Len(ops) /\ v = head[k] + 1 - 1 /\ Makes(ops[v], new[1])
    BY <1>4 DEF MadeAt
  <2>3. QED
    BY <1>3, <2>1, <2>2
<1> HIDE DEF h, c, new
<1>6. IsDue(list, i) /\ \E u \in 1..n : v = b + u /\ pos[u] = i
  BY <1>5, MadeBy, SMTT(30) DEF c
<1>7. PICK u \in 1..n : v = b + u /\ pos[u] = i
  BY <1>6
<1>8. cs[i].kind = "page"
  <2>1. i \in Acting(list) /\ ops[v] = SiblingOp(p, list, i)
    BY <1>2, <1>7
  <2>2. ops[v].op = "create"
    <3>1. ~IsNew(ops[h])
      <4>1. IsNew(ops[h]) => c = AppendOf(ops, h, head[k + 1] - h)
        BY <1>2 DEF IsBatching, h, c
      <4>2. QED
        BY <4>1 DEF AppendOf, c
    <3>2. QED
      BY <1>5, <3>1 DEF Makes, IsNew
  <2>3. QED
    BY <2>1, <2>2, SiblingOpMakes
<1>9. DOMAIN cs = 1..Len(cs) /\ Len(cs) \in Nat /\ (\A w \in 1..n : pos[w] \in 1..Len(cs))
  <2>1. IsRendered(cs) /\ \A w \in 1..n : pos[w] \in Acting(list)
    BY <1>2
  <2>2. DOMAIN cs = 1..Len(cs) /\ Len(cs) \in Nat
    BY <2>1 DEF IsRendered
  <2>3. QED
    BY <2>1, <2>2 DEF Acting
<1>10. ASSUME NEW q \in i..Len(cs) PROVE ~AtHand(Path(p, cs[q]), binding, queue, k)
  <2>1. IsDue(list, q)
    BY <1>2, <1>6, <1>8, DueToTheEnd
  <2>2. q \in 1..Len(cs) /\ q >= i /\ i \in Nat
    BY <1>9
  <2>3. ASSUME NEW w \in 1..n, pos[w] = q PROVE b + w >= h
    <3>1. w < u => q < i
      BY <1>2, <1>7, <2>3 DEF IsRising
    <3>2. QED
      BY <1>2, <1>5, <1>7, <2>2, <3>1
  <2>4. QED
    BY <2>1, <2>2, <2>3, NotYetThere DEF h
<1>11. Len(new) = 1 /\ \A j \in 1..1 : new[j] = Path(p, cs[i + j - 1])
  <2>1. Len(new) = 1
    BY <1>1 DEF new
  <2>2. i + 1 - 1 = i /\ \A j \in 1..1 : j = 1
    BY <1>9
  <2>3. QED
    BY <1>3, <2>1, <2>2 DEF c
<1>12. Fits(new, "tail", After(c), i, p, cs, binding, queue, k)
  BY <1>9, <1>10, <1>11 DEF Fits
<1>13. QED
  BY <1>1, <1>8, <1>12 DEF Fitting, new, c

\* What a call creates is due, and no earlier call creates it.
LEMMA CallsAreNovel ==
    ASSUME NEW S, NEW ops \in Seq(S), NEW queue, NEW head, NEW b, NEW pos, NEW n, NEW p,
           NEW list, NEW binding, Starts(queue, head, ops, b, pos, n, p, list, binding),
           NEW k \in 1..Len(queue), NEW i \in 1..Len(list.new),
           Path(p, list.new[i]) \in ToSet(Created(queue[k]))
    PROVE  ~AtHand(Path(p, list.new[i]), binding, queue, k)
<1> DEFINE pi == Path(p, list.new[i])
<1>1. /\ b \in Nat /\ n \in Nat /\ IsRising(pos, n) /\ IsBatching(queue, head, ops)
      /\ IsRendered(list.new) /\ \A v \in 1..n : pos[v] \in Acting(list)
  BY DEF Starts, IsListing
<1>2. PICK j \in DOMAIN Created(queue[k]) : pi = Created(queue[k])[j]
  BY DEF ToSet
<1>3. PICK v : MadeAt(v, ops, k, j, queue, head)
  BY <1>1, CreatedByOp
<1>4. v \in 1..Len(ops) /\ v >= head[k] /\ Makes(ops[v], pi)
  BY <1>2, <1>3 DEF MadeAt
<1>5. IsDue(list, i) /\ \E u \in 1..n : v = b + u /\ pos[u] = i
  BY <1>4, MadeBy
<1>6. PICK u \in 1..n : v = b + u /\ pos[u] = i
  BY <1>5
<1>7. ASSUME NEW w \in 1..n, pos[w] = i PROVE b + w >= head[k]
  <2>1. \A x \in 1..n : pos[x] \in Nat
    BY <1>1 DEF Acting, IsRendered
  <2>2. w = u
    BY <1>1, <1>6, <1>7, <2>1 DEF IsRising
  <2>3. QED
    BY <1>4, <1>6, <2>2
<1>8. QED
  BY <1>5, <1>7, NotYetThere

----------------------------------------------------------------------------
(* The calls that a sync begins with *)

\* The rendered siblings under PathOf(r, x).
Sibs(r, x) == IF x = 0 THEN r ELSE r[x].kids

\* Every path of a rendering is in one of the lists, and leads to the node there.
LEMMA ListsCover ==
    ASSUME NEW r \in Renderings
    PROVE  /\ \A p \in Paths(r) : \E x \in 0..Len(r) : \E i \in 1..Len(Sibs(r, x)) :
                p = Path(PathOf(r, x), Sibs(r, x)[i])
           /\ \A x \in 0..Len(r) : \A i \in 1..Len(Sibs(r, x)) :
                /\ NodeAt(r, Path(PathOf(r, x), Sibs(r, x)[i])) = Sibs(r, x)[i]
                /\ Path(PathOf(r, x), Sibs(r, x)[i]) \in Paths(r)
                /\ x # 0 => Sibs(r, x)[i].kind = "block"
           /\ \A x \in 0..Len(r) : IsRendered(Sibs(r, x)) /\ IsParent(PathOf(r, x))
<1>1. /\ IsRendered(r) /\ Len(r) \in Nat /\ DOMAIN r = 1..Len(r)
      /\ \A i \in 1..Len(r) : IsRendered(r[i].kids) /\ r[i].kids \in Seq(Leaves)
  BY RenderingType DEF IsRendered
<1>2. /\ \A i \in 1..Len(r) : Path(Root, r[i]) = <<r[i].key>>
      /\ \A i \in 1..Len(r) : \A k \in 1..Len(r[i].kids) :
            Path(<<r[i].key>>, r[i].kids[k]) = <<r[i].key, r[i].kids[k].key>>
  BY PathsAre
<1>3. /\ Sibs(r, 0) = r /\ PathOf(r, 0) = Root /\ 0 \in 0..Len(r)
      /\ \A x \in 1..Len(r) : Sibs(r, x) = r[x].kids /\ PathOf(r, x) = <<r[x].key>> /\ x \in 0..Len(r)
      /\ \A x \in 0..Len(r) : x = 0 \/ x \in 1..Len(r)
  BY <1>1 DEF Sibs, PathOf
<1>4. ASSUME NEW p \in Paths(r)
      PROVE  \E x \in 0..Len(r) : \E i \in 1..Len(Sibs(r, x)) : p = Path(PathOf(r, x), Sibs(r, x)[i])
  <2>1. CASE \E i \in 1..Len(r) : p = <<r[i].key>>
    <3>1. PICK i \in 1..Len(r) : p = Path(Root, r[i])
      BY <1>2, <2>1
    <3>2. QED
      BY <1>3, <3>1
  <2>2. CASE \E i \in 1..Len(r) : \E k \in 1..Len(r[i].kids) : p = <<r[i].key, r[i].kids[k].key>>
    <3>1. PICK i \in 1..Len(r) : \E k \in 1..Len(r[i].kids) : p = Path(<<r[i].key>>, r[i].kids[k])
      BY <1>2, <2>2
    <3>2. QED
      BY <1>3, <3>1
  <2>3. QED
    BY <2>1, <2>2, PathsUnfold
<1>5. ASSUME NEW x \in 0..Len(r), NEW i \in 1..Len(Sibs(r, x))
      PROVE  /\ NodeAt(r, Path(PathOf(r, x), Sibs(r, x)[i])) = Sibs(r, x)[i]
             /\ Path(PathOf(r, x), Sibs(r, x)[i]) \in Paths(r)
             /\ x # 0 => Sibs(r, x)[i].kind = "block"
  <2>1. CASE x = 0
    <3>1. i \in 1..Len(r) /\ Path(PathOf(r, x), Sibs(r, x)[i]) = <<r[i].key>> /\ Sibs(r, x)[i] = r[i]
      BY <1>2, <1>3, <2>1
    <3>2. NodeAt(r, <<r[i].key>>) = NodeWith(r, r[i].key)
      BY DEF NodeAt
    <3>3. NodeWith(r, r[i].key) = r[i]
      BY <1>1, <3>1, NodeWithIs DEF IsRendered
    <3>4. <<r[i].key>> \in Paths(r)
      BY <3>1, PathsUnfold
    <3>5. QED
      BY <2>1, <3>1, <3>2, <3>3, <3>4
  <2>2. CASE x # 0
    <3>1. x \in 1..Len(r) /\ i \in 1..Len(r[x].kids) /\ Sibs(r, x)[i] = r[x].kids[i]
          /\ Path(PathOf(r, x), Sibs(r, x)[i]) = <<r[x].key, r[x].kids[i].key>>
      BY <1>2, <1>3, <2>2
    <3>2. NodeAt(r, <<r[x].key, r[x].kids[i].key>>)
            = NodeWith(NodeWith(r, r[x].key).kids, r[x].kids[i].key)
      BY DEF NodeAt
    <3>3. NodeWith(r, r[x].key) = r[x]
      BY <1>1, <3>1, NodeWithIs DEF IsRendered
    <3>4. NodeWith(r[x].kids, r[x].kids[i].key) = r[x].kids[i]
      BY <1>1, <3>1, NodeWithIs DEF IsRendered
    <3>5. r[x].kids[i].kind = "block"
      <4> DEFINE s == r[x].kids
      <4>1. s \in Seq(Leaves) /\ i \in 1..Len(s)
        BY <1>1, <3>1
      <4> HIDE DEF s
      <4>2. s[i] \in Leaves
        BY <4>1
      <4>3. QED
        BY <4>2 DEF Leaves, s
    <3>6. <<r[x].key, r[x].kids[i].key>> \in Paths(r)
      BY <3>1, PathsUnfold
    <3>7. QED
      BY <2>2, <3>1, <3>2, <3>3, <3>4, <3>5, <3>6
  <2>3. QED
    BY <2>1, <2>2
<1>6. ASSUME NEW x \in 0..Len(r) PROVE IsRendered(Sibs(r, x)) /\ IsParent(PathOf(r, x))
  BY <1>1, <1>3 DEF IsParent
<1>7. QED
  BY <1>4, <1>5, <1>6

\* The lists of a diff are diffs.
LEMMA ListsAre ==
    ASSUME NEW ids, NEW all, NEW r \in Renderings, NEW base,
           NEW m, IsMatching(m, base, r, ids, all), NEW x \in 0..Len(r)
    PROVE  /\ IsDiff(ListOf(m, x), PathOf(r, x), r, ids, all)
           /\ ListOf(m, x).new = Sibs(r, x)
<1>1. Len(r) \in Nat
  BY RenderingType DEF IsRendered
<1>2. CASE x = 0
  BY <1>2 DEF IsMatching, ListOf, PathOf, Sibs
<1>3. CASE x # 0
  <2>1. x \in 1..Len(r)
    BY <1>1, <1>3
  <2>2. QED
    BY <1>3, <2>1 DEF IsMatching, ListOf, PathOf, Sibs
<1>4. QED
  BY <1>2, <1>3

\* What the diff does not pass on is due.
LEMMA NotDueIsBound ==
    ASSUME NEW ids, NEW all, NEW r \in Renderings, NEW base,
           NEW m, IsMatching(m, base, r, ids, all), NEW b, Passed(b, m, r),
           NEW x \in 0..Len(r), NEW q \in 1..Len(Sibs(r, x))
    PROVE  Path(PathOf(r, x), Sibs(r, x)[q]) \in DOMAIN b <=> ~IsDue(ListOf(m, x), q)
<1>1. Len(r) \in Nat
  BY RenderingType DEF IsRendered
<1>2. CASE x = 0
  <2>1. /\ q \in 1..Len(r) /\ Path(PathOf(r, x), Sibs(r, x)[q]) = <<r[q].key>>
        /\ ListOf(m, x) = m.top /\ m.top.new = r
    BY <1>2, PathsAre DEF PathOf, Sibs, ListOf, IsMatching
  <2>2. <<r[q].key>> \in DOMAIN b <=> Stays(m, r, q)
    BY <2>1 DEF Passed
  <2>3. QED
    BY <2>1, <2>2 DEF Stays, IsDue, IsKept
<1>3. CASE x # 0
  <2>0. /\ x \in 1..Len(r) /\ Sibs(r, x) = r[x].kids /\ PathOf(r, x) = <<r[x].key>>
        /\ ListOf(m, x) = m.kids[x]
    BY <1>1, <1>3 DEF PathOf, Sibs, ListOf
  <2>1. /\ x \in 1..Len(r) /\ q \in 1..Len(r[x].kids)
        /\ Path(PathOf(r, x), Sibs(r, x)[q]) = <<r[x].key, r[x].kids[q].key>>
        /\ ListOf(m, x) = m.kids[x] /\ m.kids[x].new = r[x].kids
    <3>1. Path(<<r[x].key>>, r[x].kids[q]) = <<r[x].key, r[x].kids[q].key>>
      BY PathsAre
    <3>2. m.kids[x].new = r[x].kids
      BY <2>0 DEF IsMatching
    <3>3. QED
      BY <2>0, <3>1, <3>2
  <2>2. <<r[x].key, r[x].kids[q].key>> \in DOMAIN b <=> r[x].kids[q].key \in m.kids[x].kept
    BY <2>1 DEF Passed
  <2>3. r[x].kids[q].kind = "block"
    BY <1>3, ListsCover DEF Sibs
  <2>4. QED
    BY <2>1, <2>2, <2>3 DEF IsDue, IsKept, IsMoved
<1>4. QED
  BY <1>2, <1>3

\* The calls of a sync that begins, and its bindings.
Began(queue, binding, m, r, ids, all) ==
    /\ ids \subseteq all /\ IsMatching(m, m.top.old, r, ids, all)
    /\ queue = Calls(Plan(m)) /\ Passed(binding, m, r)

\* Seen from any list, its operations come one after the other.
LEMMA BeganStarts ==
    ASSUME NEW r \in Renderings, NEW ids, NEW all, NEW m, NEW queue, NEW binding,
           Began(queue, binding, m, r, ids, all), NEW head, IsBatching(queue, head, Plan(m)),
           NEW x \in 0..Len(r)
    PROVE  \E b, pos, n : Starts(queue, head, Plan(m), b, pos, n, PathOf(r, x), ListOf(m, x), binding)
<1> DEFINE list == ListOf(m, x)
           p == PathOf(r, x)
<1>1. /\ ids \subseteq all /\ IsMatching(m, m.top.old, r, ids, all) /\ Passed(binding, m, r)
  BY DEF Began
<1>2. IsDiff(list, p, r, ids, all) /\ list.new = Sibs(r, x)
  BY <1>1, ListsAre
<1>3. Listing(Plan(m), p, list)
  BY <1>1, PlanListing
<1>4. IsRendered(list.new) /\ IsParent(p)
  BY <1>2, ListsCover
<1>5. \A q \in 1..Len(list.new) : Path(p, list.new[q]) \in DOMAIN binding <=> ~IsDue(list, q)
  <2>1. \A q \in 1..Len(Sibs(r, x)) : Path(p, Sibs(r, x)[q]) \in DOMAIN binding <=> ~IsDue(list, q)
    BY <1>1, NotDueIsBound
  <2>2. QED
    BY <1>2, <2>1
<1> HIDE DEF list, p
<1>6. PICK b, pos, n : IsListing(Plan(m), b, pos, n, p, list)
  BY <1>3 DEF Listing
<1>7. Starts(queue, head, Plan(m), b, pos, n, p, list, binding)
  BY <1>4, <1>5, <1>6 DEF Starts
<1>8. QED
  BY <1>7 DEF p, list

\* Its plan is a sequence of operations, and its calls batch them.
LEMMA BeganBatches ==
    ASSUME NEW r \in Renderings, NEW ids, NEW all, NEW m, NEW queue, NEW binding,
           Began(queue, binding, m, r, ids, all)
    PROVE  /\ Plan(m) \in Seq(PlanOps(r, ids, all))
           /\ \E head : IsBatching(queue, head, Plan(m))
<1>1. ids \subseteq all /\ IsMatching(m, m.top.old, r, ids, all) /\ queue = Calls(Plan(m))
  BY DEF Began
<1>2. PICK n : IsPlan(Plan(m), n, m, r, ids, all)
  BY <1>1, PlanIs
<1>3. Plan(m) \in Seq(PlanOps(r, ids, all))
  BY <1>2 DEF IsPlan
<1>4. QED
  BY <1>1, <1>3, CallsAreBatches

\* An append makes blocks, and what makes a sub-page is a call of its own.
LEMMA MakersAre ==
    ASSUME NEW r \in Renderings, NEW ids, NEW all, NEW ops \in Seq(PlanOps(r, ids, all)),
           NEW queue, NEW head, IsBatching(queue, head, ops), NEW k \in 1..Len(queue),
           NEW j \in DOMAIN Created(queue[k]), NEW v, MadeAt(v, ops, k, j, queue, head)
    PROVE  queue[k].op \in {"append", "create"} /\ (IsNew(ops[v]) <=> queue[k].op = "append")
<1> DEFINE c == queue[k]
<1>1. /\ head[k] \in 1..Len(ops)
      /\ \/ c = ops[head[k]] /\ c.op # "append"
         \/ c.op = "append" /\ IsNew(ops[head[k]])
  BY CallType
<1>2. v \in 1..Len(ops) /\ v >= head[k] /\ v < head[k + 1] /\ v = head[k] + j - 1
  BY DEF MadeAt
<1> HIDE DEF c
<1>3. CASE c.op = "append"
  <2>1. IsNew(ops[head[k]])
    BY <1>1, <1>3
  <2>2. v \in head[k]..(head[k + 1] - 1)
    <3>1. head[k + 1] \in Nat
      <4> DEFINE N == Len(ops)
                 L == Len(queue)
      <4>1. N \in Nat /\ L \in Nat /\ head \in [1..(L + 1) -> 1..(N + 1)] /\ k + 1 \in 1..(L + 1)
        BY DEF IsBatching
      <4> HIDE DEF N, L
      <4>2. head[k + 1] \in 1..(N + 1)
        BY <4>1
      <4>3. QED
        BY <4>1, <4>2
    <3>2. QED
      BY <1>1, <1>2, <3>1
  <2>3. IsNew(ops[v])
    BY <2>1, <2>2, CallsHoldTogether
  <2>4. QED
    BY <1>3, <2>3 DEF c
<1>4. CASE c.op # "append"
  <2>1. c = ops[head[k]]
    BY <1>1, <1>4
  <2>2. c.op = "create" /\ Created(c) = <<c.node>>
    <3>1. CASE c.op = "create"
      BY <3>1 DEF Created
    <3>2. CASE c.op # "create"
      <4>1. Created(c) = <<>>
        BY <1>4, <3>2 DEF Created
      <4>2. QED
        BY <4>1 DEF c
    <3>3. QED
      BY <3>1, <3>2
  <2>3. j = 1
    BY <2>2 DEF c
  <2>4. v = head[k]
    BY <1>1, <1>2, <2>3
  <2>5. QED
    BY <1>4, <2>1, <2>2, <2>4 DEF c, IsNew
<1>5. QED
  BY <1>3, <1>4

\* Under which path a call creates.
Spot(call) == IF call.op = "append" THEN call.under ELSE Root

ToFit(call, x, r, orderly) ==
    call.op \in {"append", "create"} /\ Spot(call) = PathOf(r, x) /\ (x # 0 \/ orderly)

\* Nothing is created twice, sub-pages by calls of their own, and all in its place.
Prepared(queue, binding, r, orderly) ==
    \A k \in 1..Len(queue) :
        /\ Novel(binding, queue, k)
        /\ \A p \in ToSet(Created(queue[k])) : NodeAt(r, p).kind = "page" <=> queue[k].op = "create"
        /\ \A x \in 0..Len(r) : ToFit(queue[k], x, r, orderly) =>
                Fitting(queue[k], PathOf(r, x), Sibs(r, x), binding, queue, k)

\* So it is when a sync begins.
LEMMA BeganPrepared ==
    ASSUME NEW r \in Renderings, NEW ids, NEW all, NEW m, NEW queue, NEW binding,
           Began(queue, binding, m, r, ids, all)
    PROVE  Prepared(queue, binding, r, PagesComeLast(m.top))
<1> DEFINE ops == Plan(m)
           S == PlanOps(r, ids, all)
<1>1. ids \subseteq all /\ IsMatching(m, m.top.old, r, ids, all)
  BY DEF Began
<1>2. ops \in Seq(S) /\ \E head : IsBatching(queue, head, ops)
  BY BeganBatches
<1>3. PICK head : IsBatching(queue, head, ops)
  BY <1>2
<1>4. \A x \in 0..Len(r) : \E b, pos, n :
            Starts(queue, head, ops, b, pos, n, PathOf(r, x), ListOf(m, x), binding)
  BY <1>3, BeganStarts
<1>5. \A x \in 0..Len(r) : ListOf(m, x).new = Sibs(r, x)
  BY <1>1, ListsAre, SMTT(30)
<1> HIDE DEF ops, S
<1>6. ASSUME NEW k \in 1..Len(queue), NEW p \in ToSet(Created(queue[k]))
      PROVE  /\ ~AtHand(p, binding, queue, k)
             /\ NodeAt(r, p).kind = "page" <=> queue[k].op = "create"
  <2>1. queue[k] \in PlanCalls(r, ids, all)
    BY <1>2, <1>3, CallType DEF S
  <2>2. p \in Paths(r)
    <3>1. Created(queue[k]) \in Seq(Paths(r))
      BY <2>1, CreatedType
    <3>2. QED
      BY <3>1 DEF ToSet
  <2>3. PICK x \in 0..Len(r) : \E i \in 1..Len(Sibs(r, x)) : p = Path(PathOf(r, x), Sibs(r, x)[i])
    BY <2>2, ListsCover
  <2>4. PICK i \in 1..Len(Sibs(r, x)) : p = Path(PathOf(r, x), Sibs(r, x)[i])
    BY <2>3
  <2> DEFINE list == ListOf(m, x)
             pp == PathOf(r, x)
  <2>5. /\ i \in 1..Len(list.new) /\ p = Path(pp, list.new[i]) /\ list.new[i] = Sibs(r, x)[i]
    BY <1>5, <2>4
  <2>6. NodeAt(r, p) = list.new[i]
    BY <2>4, <2>5, ListsCover
  <2> HIDE DEF list, pp
  <2>7. PICK b, pos, n : Starts(queue, head, ops, b, pos, n, pp, list, binding)
    BY <1>4 DEF list, pp
  <2>8. ~AtHand(p, binding, queue, k)
    BY <1>2, <2>5, <2>7, CallsAreNovel
  <2>9. PICK j \in DOMAIN Created(queue[k]) : p = Created(queue[k])[j]
    BY DEF ToSet
  <2>10. PICK v : MadeAt(v, ops, k, j, queue, head)
    BY <1>2, <1>3, CreatedByOp
  <2>11. v \in 1..Len(ops) /\ Makes(ops[v], Path(pp, list.new[i]))
    BY <2>5, <2>9, <2>10 DEF MadeAt
  <2>12. PICK u \in 1..n : v = b + u /\ pos[u] = i
    BY <1>2, <2>5, <2>7, <2>11, MadeBy
  <2>13. i \in Acting(list) /\ ops[v] = SiblingOp(pp, list, i) /\ IsRendered(list.new)
    BY <2>7, <2>12 DEF Starts, IsListing
  <2>14. queue[k].op \in {"append", "create"} /\ (IsNew(ops[v]) <=> queue[k].op = "append")
    BY <1>2, <1>3, <2>10, MakersAre DEF S
  <2>15. IsNew(ops[v]) => list.new[i].kind = "block"
    BY <2>13, SiblingOpPuts
  <2>16. ~IsNew(ops[v]) => list.new[i].kind = "page"
    <3>1. ~IsNew(ops[v]) => ops[v].op = "create"
      BY <2>11 DEF Makes, IsNew
    <3>2. QED
      BY <2>13, <3>1, SiblingOpMakes
  <2>17. QED
    BY <2>6, <2>8, <2>14, <2>15, <2>16
<1>7. ASSUME NEW k \in 1..Len(queue), NEW x \in 0..Len(r),
             ToFit(queue[k], x, r, PagesComeLast(m.top))
      PROVE  Fitting(queue[k], PathOf(r, x), Sibs(r, x), binding, queue, k)
  <2> DEFINE list == ListOf(m, x)
             pp == PathOf(r, x)
  <2>1. PagesComeLast(list)
    <3>1. CASE x = 0
      BY <1>7, <3>1 DEF ToFit, ListOf
    <3>2. CASE x # 0
      <4>1. IsRendered(list.new) /\ \A i \in 1..Len(list.new) : list.new[i].kind = "block"
        BY <1>5, <3>2, ListsCover
      <4>2. QED
        BY <4>1 DEF PagesComeLast, IsRendered
    <3>3. QED
      BY <3>1, <3>2
  <2>2. list.new = Sibs(r, x)
    BY <1>5
  <2> HIDE DEF list, pp
  <2>3. PICK b, pos, n : Starts(queue, head, ops, b, pos, n, pp, list, binding)
    BY <1>4 DEF list, pp
  <2>4. CASE queue[k].op = "append"
    <3>1. queue[k].under = pp
      BY <1>7, <2>4 DEF ToFit, Spot, pp
    <3>2. Fitting(queue[k], pp, list.new, binding, queue, k)
      BY <1>2, <2>1, <2>3, <2>4, <3>1, AppendFits
    <3>3. QED
      BY <2>2, <3>2 DEF pp
  <2>5. CASE queue[k].op = "create"
    <3>1. pp = Root /\ x = 0
      <4>1. PathOf(r, x) = Root
        BY <1>7, <2>5 DEF ToFit, Spot
      <4>2. QED
        BY <4>1 DEF PathOf, Root, pp
    <3>2. \E i \in 1..Len(list.new) : queue[k].node = Path(pp, list.new[i])
      <4>1. queue[k] \in PlanCalls(r, ids, all)
        BY <1>2, <1>3, CallType DEF S
      <4>2. queue[k].node \in Tops(r)
        BY <2>5, <4>1 DEF PlanCalls, Clears, Appends
      <4>3. PICK i \in 1..Len(r) : queue[k].node = <<r[i].key>>
        BY <4>2, TopsUnfold
      <4>4. Path(Root, r[i]) = <<r[i].key>>
        BY PathsAre
      <4>5. list.new = r
        BY <2>2, <3>1 DEF Sibs
      <4>6. QED
        BY <3>1, <4>3, <4>4, <4>5
    <3>3. PICK i \in 1..Len(list.new) : queue[k].node = Path(pp, list.new[i])
      BY <3>2
    <3>4. Fitting(queue[k], pp, list.new, binding, queue, k)
      BY <1>2, <2>1, <2>3, <2>5, <3>3, CreateFits
    <3>5. QED
      BY <2>2, <3>4 DEF pp
  <2>6. QED
    BY <1>7, <2>4, <2>5 DEF ToFit
<1>8. QED
  BY <1>6, <1>7 DEF Prepared, Novel

----------------------------------------------------------------------------
(* The calls that remove and update *)

\* A call that creates nothing is an operation of the plan, and each of those is a call.
LEMMA BeganAsks ==
    ASSUME NEW r \in Renderings, NEW ids, NEW all, NEW m, NEW queue, NEW binding,
           Began(queue, binding, m, r, ids, all)
    PROVE  /\ queue \in Seq(PlanCalls(r, ids, all))
           /\ \A k \in 1..Len(queue) : queue[k].op # "append" => PlanAsks(queue[k], m, r)
           /\ \A o : PlanAsks(o, m, r) /\ ~IsNew(o) => \E k \in 1..Len(queue) : queue[k] = o
<1> DEFINE ops == Plan(m)
           S == PlanOps(r, ids, all)
<1>1. ids \subseteq all /\ IsMatching(m, m.top.old, r, ids, all)
  BY DEF Began
<1>2. ops \in Seq(S) /\ \E head : IsBatching(queue, head, ops)
  BY BeganBatches
<1>3. PICK head : IsBatching(queue, head, ops)
  BY <1>2
<1>4. \A o : Has(ops, o) <=> PlanAsks(o, m, r)
  BY <1>1, PlanHas
<1> HIDE DEF ops
<1>5. ASSUME NEW k \in 1..Len(queue)
      PROVE  /\ queue[k] \in PlanCalls(r, ids, all)
             /\ head[k] \in 1..Len(ops)
             /\ queue[k].op # "append" => queue[k] = ops[head[k]]
  BY <1>2, <1>3, CallType
<1>6. queue \in Seq(PlanCalls(r, ids, all))
  <2>1. Len(queue) \in Nat /\ queue = [k \in 1..Len(queue) |-> queue[k]]
    BY <1>3 DEF IsBatching
  <2>2. QED
    BY <1>5, <2>1, ListIsSeq
<1>7. ASSUME NEW k \in 1..Len(queue), queue[k].op # "append" PROVE PlanAsks(queue[k], m, r)
  <2>1. head[k] \in 1..Len(ops) /\ queue[k] = ops[head[k]]
    BY <1>5, <1>7
  <2>2. Has(ops, queue[k])
    BY <2>1 DEF Has
  <2>3. QED
    BY <1>4, <2>2
<1>8. ASSUME NEW o, PlanAsks(o, m, r), ~IsNew(o) PROVE \E k \in 1..Len(queue) : queue[k] = o
  <2>1. PICK u \in 1..Len(ops) : ops[u] = o
    BY <1>4, <1>8 DEF Has
  <2>2. PICK k \in 1..Len(queue) : head[k] <= u /\ u < head[k + 1]
    BY <1>2, <1>3, OperationIsCalled
  <2>3. u \in head[k]..(head[k + 1] - 1)
    <3> DEFINE N == Len(ops)
               L == Len(queue)
    <3>1. /\ N \in Nat /\ L \in Nat /\ head \in [1..(L + 1) -> 1..(N + 1)]
          /\ k + 1 \in 1..(L + 1) /\ k \in 1..(L + 1) /\ u \in 1..N
      BY <1>3 DEF IsBatching
    <3> HIDE DEF N, L
    <3>2. head[k] \in 1..(N + 1) /\ head[k + 1] \in 1..(N + 1)
      BY <3>1
    <3>3. QED
      BY <2>2, <3>1, <3>2
  <2>4. u = head[k] \/ IsNew(ops[u])
    BY <1>2, <1>3, <2>3, CallsHoldTogether
  <2>5. u = head[k] /\ ~IsNew(ops[head[k]])
    BY <1>8, <2>1, <2>4
  <2>6. queue[k] = ops[head[k]]
    BY <1>3, <2>5 DEF IsBatching
  <2>7. QED
    BY <2>1, <2>5, <2>6
<1>9. QED
  BY <1>6, <1>7, <1>8

\* What the calls still to be made remove from the list of x, and what payloads they set.
Going(queue, x) ==
    {queue[l].id : l \in {k \in 1..Len(queue) :
        queue[k].op \in IF x = 0 THEN {"remove", "archive"} ELSE {"remove"}}}

Renewing(queue, x) ==
    {<<queue[l].id, queue[l].hash>> : l \in {k \in 1..Len(queue) :
        queue[k].op \in IF x = 0 THEN {"update", "rename"} ELSE {"update"}}}

----------------------------------------------------------------------------
(* Lists that become what is rendered *)

\* The siblings whose paths are bound are there in their order, with their payloads or
\* with an update to come, and nothing else but what is going.
IsAligned(at, list, p, cs, binding, going, fresh) ==
    /\ \A q \in 1..Len(cs) : Path(p, cs[q]) \in DOMAIN binding =>
        /\ at[q] \in 1..Len(list)
        /\ list[at[q]].id = binding[Path(p, cs[q])] /\ list[at[q]].kind = cs[q].kind
        /\ list[at[q]].hash = cs[q].hash \/ <<list[at[q]].id, cs[q].hash>> \in fresh
    /\ \A q, s \in 1..Len(cs) :
        q < s /\ Path(p, cs[q]) \in DOMAIN binding /\ Path(p, cs[s]) \in DOMAIN binding =>
            at[q] < at[s]
    /\ \A k \in 1..Len(list) :
        \/ list[k].id \in going
        \/ \E q \in 1..Len(cs) : Path(p, cs[q]) \in DOMAIN binding /\ at[q] = k

Aligned(list, p, cs, binding, going, fresh) ==
    \E at : IsAligned(at, list, p, cs, binding, going, fresh)

\* Two bindings of the siblings of a list.
BoundAlike(p, cs, binding, other) ==
    \A q \in 1..Len(cs) :
        /\ Path(p, cs[q]) \in DOMAIN binding <=> Path(p, cs[q]) \in DOMAIN other
        /\ Path(p, cs[q]) \in DOMAIN binding => other[Path(p, cs[q])] = binding[Path(p, cs[q])]

\* A list stays aligned when it stays as it is,
LEMMA AlignedStays ==
    ASSUME NEW list, NEW p, NEW cs, NEW binding, NEW going, NEW fresh,
           Aligned(list, p, cs, binding, going, fresh),
           NEW other, BoundAlike(p, cs, binding, other),
           NEW moreGoing, NEW moreFresh, going \subseteq moreGoing, fresh \subseteq moreFresh
    PROVE  Aligned(list, p, cs, other, moreGoing, moreFresh)
<1>1. PICK at : IsAligned(at, list, p, cs, binding, going, fresh)
  BY DEF Aligned
<1>2. IsAligned(at, list, p, cs, other, moreGoing, moreFresh)
  <2>1. ASSUME NEW q \in 1..Len(cs), Path(p, cs[q]) \in DOMAIN other
        PROVE  /\ at[q] \in 1..Len(list)
               /\ list[at[q]].id = other[Path(p, cs[q])] /\ list[at[q]].kind = cs[q].kind
               /\ list[at[q]].hash = cs[q].hash \/ <<list[at[q]].id, cs[q].hash>> \in moreFresh
    BY <1>1, <2>1 DEF IsAligned, BoundAlike
  <2>2. \A q, s \in 1..Len(cs) :
            q < s /\ Path(p, cs[q]) \in DOMAIN other /\ Path(p, cs[s]) \in DOMAIN other =>
                at[q] < at[s]
    BY <1>1 DEF IsAligned, BoundAlike
  <2>3. ASSUME NEW k \in 1..Len(list)
        PROVE  \/ list[k].id \in moreGoing
               \/ \E q \in 1..Len(cs) : Path(p, cs[q]) \in DOMAIN other /\ at[q] = k
    BY <1>1 DEF IsAligned, BoundAlike
  <2>4. QED
    BY <2>1, <2>2, <2>3 DEF IsAligned
<1>3. QED
  BY <1>2 DEF Aligned

\* The payload of one id is set in a list.
IsReset(t, list, id, hash) ==
    Len(t) = Len(list) /\ \A k \in 1..Len(list) : Renewed(t[k], list[k], id, hash)

\* It is the one that is rendered, if a sibling is bound to that id.
Suits(p, cs, binding, id, hash) ==
    \A q \in 1..Len(cs) :
        Path(p, cs[q]) \in DOMAIN binding /\ binding[Path(p, cs[q])] = id => cs[q].hash = hash

\* when a payload is set that is not another one than the rendered,
LEMMA AlignedRenewed ==
    ASSUME NEW list, NEW p, NEW cs, NEW binding, NEW going, NEW fresh,
           Aligned(list, p, cs, binding, going, fresh),
           NEW t, NEW id, NEW hash, IsReset(t, list, id, hash), Suits(p, cs, binding, id, hash),
           NEW other, BoundAlike(p, cs, binding, other),
           NEW moreGoing, NEW moreFresh, going \subseteq moreGoing, fresh \ {<<id, hash>>} \subseteq moreFresh
    PROVE  Aligned(t, p, cs, other, moreGoing, moreFresh)
<1>1. PICK at : IsAligned(at, list, p, cs, binding, going, fresh)
  BY DEF Aligned
<1>. Len(t) = Len(list)
  BY DEF IsReset
<1>2. IsAligned(at, t, p, cs, other, moreGoing, moreFresh)
  <2>1. ASSUME NEW q \in 1..Len(cs), Path(p, cs[q]) \in DOMAIN other
        PROVE  /\ at[q] \in 1..Len(t)
               /\ t[at[q]].id = other[Path(p, cs[q])] /\ t[at[q]].kind = cs[q].kind
               /\ t[at[q]].hash = cs[q].hash \/ <<t[at[q]].id, cs[q].hash>> \in moreFresh
    <3> DEFINE k == at[q]
               pq == Path(p, cs[q])
    <3>1. /\ pq \in DOMAIN binding /\ other[pq] = binding[pq] /\ k \in 1..Len(list)
          /\ list[k].id = binding[pq] /\ list[k].kind = cs[q].kind
          /\ list[k].hash = cs[q].hash \/ <<list[k].id, cs[q].hash>> \in fresh
      BY <1>1, <2>1 DEF IsAligned, BoundAlike
    <3>2. Renewed(t[k], list[k], id, hash)
      BY <3>1 DEF IsReset
    <3>3. /\ t[k].id = list[k].id /\ t[k].kind = list[k].kind
          /\ t[k].hash = IF list[k].id = id THEN hash ELSE list[k].hash
      BY <3>2 DEF Renewed
    <3>4. binding[pq] = id => cs[q].hash = hash
      BY <3>1 DEF Suits
    <3> HIDE DEF k, pq
    <3>5. CASE list[k].id = id
      BY <3>1, <3>3, <3>4, <3>5 DEF k, pq
    <3>6. CASE list[k].id # id
      <4>1. <<list[k].id, cs[q].hash>> # <<id, hash>>
        BY <3>6
      <4>2. QED
        BY <3>1, <3>3, <3>6, <4>1 DEF k, pq
    <3>7. QED
      BY <3>5, <3>6
  <2>2. \A q, s \in 1..Len(cs) :
            q < s /\ Path(p, cs[q]) \in DOMAIN other /\ Path(p, cs[s]) \in DOMAIN other =>
                at[q] < at[s]
    BY <1>1 DEF IsAligned, BoundAlike
  <2>3. ASSUME NEW k \in 1..Len(t)
        PROVE  \/ t[k].id \in moreGoing
               \/ \E q \in 1..Len(cs) : Path(p, cs[q]) \in DOMAIN other /\ at[q] = k
    <3>1. k \in 1..Len(list) /\ t[k].id = list[k].id
      BY DEF Renewed, IsReset
    <3>2. QED
      BY <1>1, <3>1 DEF IsAligned, BoundAlike
  <2>4. QED
    BY <2>1, <2>2, <2>3 DEF IsAligned
<1>3. QED
  BY <1>2 DEF Aligned

\* What is left of a list without an id.
IsWeeded(t, pos, list, id) ==
    /\ Len(t) \in Nat /\ Len(list) \in Nat
    /\ IsRising(pos, Len(t))
    /\ \A k \in 1..Len(t) :
        /\ pos[k] \in 1..Len(list) /\ t[k].id # id
        /\ t[k].id = list[pos[k]].id /\ t[k].kind = list[pos[k]].kind
        /\ t[k].hash = list[pos[k]].hash
    /\ \A i \in 1..Len(list) : list[i].id # id => \E k \in 1..Len(t) : pos[k] = i

\* when one goes that no path is bound to,
LEMMA AlignedWeeded ==
    ASSUME NEW list, NEW p, NEW cs, NEW binding, NEW going, NEW fresh,
           Aligned(list, p, cs, binding, going, fresh),
           NEW t, NEW pos, NEW id, IsWeeded(t, pos, list, id), Len(cs) \in Nat,
           \A q \in 1..Len(cs) : Path(p, cs[q]) \in DOMAIN binding => binding[Path(p, cs[q])] # id,
           NEW other, BoundAlike(p, cs, binding, other),
           NEW moreGoing, NEW moreFresh, going \ {id} \subseteq moreGoing, fresh \subseteq moreFresh
    PROVE  Aligned(t, p, cs, other, moreGoing, moreFresh)
<1> DEFINE Bound(q) == Path(p, cs[q]) \in DOMAIN binding
<1>1. PICK at : IsAligned(at, list, p, cs, binding, going, fresh)
    BY DEF Aligned
<1> DEFINE new == [q \in 1..Len(cs) |-> CHOOSE k \in 1..Len(t) : pos[k] = at[q]]
<1>2. \A q \in 1..Len(cs) : Bound(q) => new[q] \in 1..Len(t) /\ pos[new[q]] = at[q]
  <2>1. SUFFICES ASSUME NEW q \in 1..Len(cs), Bound(q)
                 PROVE  \E k \in 1..Len(t) : pos[k] = at[q]
    OBVIOUS
  <2>2. at[q] \in 1..Len(list) /\ list[at[q]].id = binding[Path(p, cs[q])]
    BY <1>1, <2>1 DEF IsAligned
  <2>3. list[at[q]].id # id
    BY <2>1, <2>2
  <2>. QED BY <2>2, <2>3 DEF IsWeeded
<1>3. \A k, l \in 1..Len(t) : pos[k] < pos[l] => k < l
  <2>1. SUFFICES ASSUME NEW k \in 1..Len(t), NEW l \in 1..Len(t), pos[k] < pos[l] PROVE k < l
    OBVIOUS
  <2>2. pos[k] \in Int /\ pos[l] \in Int /\ Len(t) \in Nat
    BY DEF IsWeeded
  <2>3. l < k => pos[l] < pos[k]
    BY DEF IsWeeded, IsRising
  <2>. QED BY <2>1, <2>2, <2>3
<1>4. \A k, l \in 1..Len(t) : pos[k] = pos[l] => k = l
  <2>1. SUFFICES ASSUME NEW k \in 1..Len(t), NEW l \in 1..Len(t), pos[k] = pos[l] PROVE k = l
    OBVIOUS
  <2>2. pos[k] \in Int /\ pos[l] \in Int /\ Len(t) \in Nat
    BY DEF IsWeeded
  <2>3. (l < k => pos[l] < pos[k]) /\ (k < l => pos[k] < pos[l])
    BY DEF IsWeeded, IsRising
  <2>. QED BY <2>1, <2>2, <2>3
<1> HIDE DEF new
<1>5. ASSUME NEW q \in 1..Len(cs), Path(p, cs[q]) \in DOMAIN other
      PROVE  /\ new[q] \in 1..Len(t)
             /\ t[new[q]].id = other[Path(p, cs[q])] /\ t[new[q]].kind = cs[q].kind
             /\ t[new[q]].hash = cs[q].hash \/ <<t[new[q]].id, cs[q].hash>> \in moreFresh
  <2>1. Bound(q) /\ other[Path(p, cs[q])] = binding[Path(p, cs[q])]
    BY <1>5 DEF BoundAlike
  <2>2. new[q] \in 1..Len(t) /\ pos[new[q]] = at[q]
    BY <1>2, <2>1
  <2>3. /\ t[new[q]].id = list[at[q]].id /\ t[new[q]].kind = list[at[q]].kind
        /\ t[new[q]].hash = list[at[q]].hash
    BY <2>2 DEF IsWeeded
  <2>4. /\ list[at[q]].id = binding[Path(p, cs[q])] /\ list[at[q]].kind = cs[q].kind
        /\ list[at[q]].hash = cs[q].hash \/ <<list[at[q]].id, cs[q].hash>> \in fresh
    BY <1>1, <2>1 DEF IsAligned
  <2>. QED BY <2>1, <2>2, <2>3, <2>4
<1>6. ASSUME NEW q \in 1..Len(cs), NEW s \in 1..Len(cs), q < s,
             Path(p, cs[q]) \in DOMAIN other, Path(p, cs[s]) \in DOMAIN other
      PROVE  new[q] < new[s]
  <2>1. Bound(q) /\ Bound(s)
    BY <1>6 DEF BoundAlike
  <2>2. at[q] < at[s]
    BY <1>1, <1>6, <2>1 DEF IsAligned
  <2>. QED BY <1>2, <1>3, <2>1, <2>2
<1>7. ASSUME NEW k \in 1..Len(t)
      PROVE  \/ t[k].id \in moreGoing
             \/ \E q \in 1..Len(cs) : Path(p, cs[q]) \in DOMAIN other /\ new[q] = k
  <2>1. pos[k] \in 1..Len(list) /\ t[k].id = list[pos[k]].id /\ t[k].id # id
    BY DEF IsWeeded
  <2>2. \/ list[pos[k]].id \in going
        \/ \E q \in 1..Len(cs) : Bound(q) /\ at[q] = pos[k]
    BY <1>1, <2>1 DEF IsAligned
  <2>3. CASE list[pos[k]].id \in going
    BY <2>1, <2>3
  <2>4. ASSUME NEW q \in 1..Len(cs), Bound(q), at[q] = pos[k]
        PROVE  Path(p, cs[q]) \in DOMAIN other /\ new[q] = k
    BY <1>2, <1>4, <2>4 DEF BoundAlike
  <2>. QED BY <2>2, <2>3, <2>4
<1>8. IsAligned(new, t, p, cs, other, moreGoing, moreFresh)
  BY <1>5, <1>6, <1>7 DEF IsAligned
<1>. QED BY <1>8 DEF Aligned

\* New siblings of a list: what is rendered from i0 on.
IsRun(new, i0, cs, first) ==
    \A k \in 1..Len(new) : /\ new[k].id = first + k - 1 /\ new[k].kind = cs[i0 + k - 1].kind
                           /\ new[k].hash = cs[i0 + k - 1].hash

Divides(cut, where, n, i0, p, cs, binding) ==
    \A q \in 1..Len(cs) : Path(p, cs[q]) \in DOMAIN binding =>
        (q < i0 => where[q] <= cut) /\ (q >= i0 + n => where[q] > cut)

\* Where a call that fits cuts an aligned list.
LEMMA CutBetween ==
    ASSUME NEW list, NEW p, NEW cs, NEW binding, NEW going, NEW fresh, NEW where,
           IsAligned(where, list, p, cs, binding, going, fresh),
           Len(list) \in Nat, DOMAIN list = 1..Len(list), IdsDiffer(list), Len(cs) \in Nat,
           NEW paths, NEW at, NEW after, NEW i0, NEW queue,
           Fits(paths, at, after, i0, p, cs, binding, queue, 1),
           NEW anchor, at = "after" => anchor = binding[after],
           NEW cut \in 0..Len(list), CutAt(cut, list, at, anchor)
    PROVE  Divides(cut, where, Len(paths), i0, p, cs, binding)
<1>1. \A s : AtHand(s, binding, queue, 1) <=> s \in DOMAIN binding
  BY DEF AtHand
<1>2. i0 \in Nat \ {0} /\ Len(paths) \in Nat \ {0} /\ at \in {"head", "after", "tail"}
  BY DEF Fits
<1>3. SUFFICES ASSUME NEW q \in 1..Len(cs), Path(p, cs[q]) \in DOMAIN binding
               PROVE  (q < i0 => where[q] <= cut) /\ (q >= i0 + Len(paths) => where[q] > cut)
  BY DEF Divides
<1>4. where[q] \in 1..Len(list)
  BY <1>3 DEF IsAligned
<1>5. CASE at = "head"
  BY <1>2, <1>3, <1>4, <1>5 DEF Fits, CutAt
<1>6. CASE at = "after"
  <2>1. i0 > 1 /\ after = Path(p, cs[i0 - 1]) /\ after \in DOMAIN binding
    BY <1>1, <1>6 DEF Fits
  <2>2. i0 - 1 \in 1..Len(cs)
    BY <1>2, <2>1 DEF Fits
  <2> DEFINE j == i0 - 1
  <2>3. where[j] \in 1..Len(list) /\ list[where[j]].id = anchor
    BY <1>6, <2>1, <2>2 DEF IsAligned
  <2>4. cut = where[j]
    BY <1>6, <2>3 DEF CutAt, IdsDiffer
  <2>5. q < j => where[q] < where[j]
    BY <1>3, <2>1, <2>2 DEF IsAligned
  <2>6. j < q => where[j] < where[q]
    BY <1>3, <2>1, <2>2 DEF IsAligned
  <2>. QED BY <1>2, <1>4, <2>2, <2>3, <2>4, <2>5, <2>6
<1>7. CASE at = "tail"
  <2>1. cut = Len(list)
    BY <1>7 DEF CutAt
  <2>2. \A s \in i0..Len(cs) : Path(p, cs[s]) \notin DOMAIN binding
    BY <1>1, <1>7 DEF Fits
  <2>3. ~(q >= i0)
    BY <1>2, <1>3, <2>2
  <2>. QED BY <1>2, <1>4, <2>1, <2>3
<1>. QED BY <1>2, <1>5, <1>6, <1>7

\* and when a call that fits creates what is next of it.
LEMMA AlignedGrows ==
    ASSUME NEW list, NEW p, NEW cs, NEW binding, NEW going, NEW fresh,
           Aligned(list, p, cs, binding, going, fresh),
           Len(list) \in Nat, DOMAIN list = 1..Len(list), IdsDiffer(list),
           IsRendered(cs), IsParent(p),
           NEW paths, NEW at, NEW after, NEW i0, NEW queue,
           Fits(paths, at, after, i0, p, cs, binding, queue, 1),
           DOMAIN paths = 1..Len(paths), \A q \in ToSet(paths) : q \notin DOMAIN binding,
           NEW anchor, at = "after" => anchor = binding[after],
           NEW new, NEW first \in Nat, Len(new) = Len(paths), IsRun(new, i0, cs, first),
           NEW t, IsPlaced(t, list, new, at, anchor),
           NEW other, IsBound(other, binding, paths, first),
           NEW moreGoing, NEW moreFresh, going \subseteq moreGoing, fresh \subseteq moreFresh
    PROVE  Aligned(t, p, cs, other, moreGoing, moreFresh)
<1> DEFINE n == Len(paths)
           Bound(q) == Path(p, cs[q]) \in DOMAIN binding
           Runs(q) == i0 <= q /\ q < i0 + n
<1>1. PICK where : IsAligned(where, list, p, cs, binding, going, fresh)
    BY DEF Aligned
<1>2. PICK cut : IsPlacing(t, cut, list, new) /\ CutAt(cut, list, at, anchor)
    BY DEF IsPlaced
<1>3. i0 \in Nat \ {0} /\ n \in Nat \ {0} /\ Len(cs) \in Nat /\ i0 + n - 1 <= Len(cs)
    BY DEF Fits, IsRendered
<1>4. cut \in 0..Len(list) /\ Len(t) = Len(list) + n
    BY <1>2 DEF IsPlacing
<1>5. \A q \in 1..Len(cs) : Bound(q) => (q < i0 => where[q] <= cut) /\ (q >= i0 + n => where[q] > cut)
  <2>1. Len(cs) \in Nat /\ cut \in 0..Len(list) /\ CutAt(cut, list, at, anchor)
    BY <1>2, <1>3, <1>4
  <2>2. Divides(cut, where, Len(paths), i0, p, cs, binding)
    BY <1>1, <2>1, CutBetween, ZenonT(40)
  <2>. QED BY <2>2 DEF Divides
<1>6. \A j \in 1..n : paths[j] = Path(p, cs[i0 + j - 1])
    BY DEF Fits
<1>7. \A i, j \in 1..Len(cs) : Path(p, cs[i]) = Path(p, cs[j]) => i = j
    BY PathsDiffer
<1>8. \A q \in 1..Len(cs) : Runs(q) => paths[q - i0 + 1] = Path(p, cs[q])
  <2>1. SUFFICES ASSUME NEW q \in 1..Len(cs), Runs(q) PROVE paths[q - i0 + 1] = Path(p, cs[q])
    OBVIOUS
  <2> DEFINE j == q - i0 + 1
  <2>2. j \in 1..n /\ i0 + j - 1 = q
    BY <1>3, <2>1
  <2>3. paths[j] = Path(p, cs[i0 + j - 1])
    BY <1>6, <2>2
  <2>. QED BY <2>2, <2>3
<1>9. \A q \in 1..Len(cs) : Path(p, cs[q]) \in ToSet(paths) <=> Runs(q)
  <2>1. ASSUME NEW q \in 1..Len(cs), Runs(q) PROVE Path(p, cs[q]) \in ToSet(paths)
    <3>1. q - i0 + 1 \in 1..n
      BY <1>3, <2>1
    <3>2. paths[q - i0 + 1] = Path(p, cs[q])
      BY <1>8, <2>1
    <3>. QED BY <3>1, <3>2 DEF ToSet
  <2>2. ASSUME NEW q \in 1..Len(cs), Path(p, cs[q]) \in ToSet(paths) PROVE Runs(q)
    <3>1. PICK j \in 1..n : Path(p, cs[q]) = paths[j]
      BY <2>2 DEF ToSet
    <3>2. i0 + j - 1 \in 1..Len(cs)
      BY <1>3
    <3>3. Path(p, cs[q]) = Path(p, cs[i0 + j - 1])
      BY <1>6, <3>1
    <3>4. q = i0 + j - 1
      BY <1>7, <3>2, <3>3
    <3>. QED BY <1>3, <3>4
  <2>. QED BY <2>1, <2>2
<1>10. \A q \in 1..Len(cs) : Runs(q) => ~Bound(q)
  BY <1>9
<1>11. \A q \in 1..Len(cs) : Path(p, cs[q]) \in DOMAIN other <=> Runs(q) \/ Bound(q)
  BY <1>9 DEF IsBound
<1> DEFINE place == [q \in 1..Len(cs) |-> IF Runs(q) THEN cut + (q - i0 + 1)
                                          ELSE IF where[q] <= cut THEN where[q] ELSE n + where[q]]
<1>12. \A q \in 1..Len(cs) : /\ Runs(q) => place[q] = cut + (q - i0 + 1)
                             /\ ~Runs(q) /\ where[q] <= cut => place[q] = where[q]
                             /\ ~Runs(q) /\ ~(where[q] <= cut) => place[q] = n + where[q]
  OBVIOUS
<1> HIDE DEF place
<1>13. ASSUME NEW q \in 1..Len(cs), Runs(q)
       PROVE  /\ place[q] \in 1..Len(t) /\ place[q] = cut + (q - i0 + 1)
              /\ t[place[q]].id = other[Path(p, cs[q])]
              /\ t[place[q]].kind = cs[q].kind /\ t[place[q]].hash = cs[q].hash
  <2> DEFINE j == q - i0 + 1
  <2>1. j \in 1..n /\ i0 + j - 1 = q /\ place[q] = cut + j
    BY <1>3, <1>12, <1>13
  <2>2. place[q] \in 1..Len(t)
    BY <1>3, <1>4, <2>1
  <2>3. t[place[q]] = new[j]
    BY <1>2, <2>1, SMTT(30) DEF IsPlacing
  <2>4. new[j].id = first + j - 1 /\ new[j].kind = cs[q].kind /\ new[j].hash = cs[q].hash
    BY <2>1 DEF IsRun
  <2>5. Path(p, cs[q]) \in ToSet(paths)
    BY <1>9, <1>13
  <2>6. PICK k \in 1..n : paths[k] = Path(p, cs[q]) /\ other[Path(p, cs[q])] = first + k - 1
    BY <2>5 DEF IsBound
  <2>7. i0 + k - 1 \in 1..Len(cs)
    BY <1>3
  <2>8. i0 + k - 1 = q
    BY <1>6, <1>7, <2>6, <2>7
  <2>9. k = j
    BY <1>3, <2>1, <2>8
  <2>. QED BY <2>1, <2>2, <2>3, <2>4, <2>6, <2>9
<1>14. ASSUME NEW q \in 1..Len(cs), Bound(q)
       PROVE  /\ place[q] \in 1..Len(t) /\ t[place[q]] = list[where[q]] /\ where[q] \in 1..Len(list)
              /\ place[q] = IF where[q] <= cut THEN where[q] ELSE n + where[q]
              /\ other[Path(p, cs[q])] = binding[Path(p, cs[q])]
  <2>1. ~Runs(q) /\ where[q] \in 1..Len(list)
    BY <1>1, <1>10, <1>14 DEF IsAligned
  <2>2. Path(p, cs[q]) \in DOMAIN binding \ ToSet(paths)
    BY <1>9, <1>14, <2>1
  <2>3. other[Path(p, cs[q])] = binding[Path(p, cs[q])]
    BY <2>2 DEF IsBound
  <2>4. CASE where[q] <= cut
    <3>1. place[q] = where[q] /\ where[q] \in 1..cut
      BY <1>4, <1>12, <2>1, <2>4
    <3>2. t[where[q]] = list[where[q]]
      BY <1>2, <3>1 DEF IsPlacing
    <3>. QED BY <1>3, <1>4, <2>1, <2>3, <2>4, <3>1, <3>2
  <2>5. CASE ~(where[q] <= cut)
    <3>1. place[q] = n + where[q] /\ where[q] \in (cut + 1)..Len(list)
      BY <1>4, <1>12, <2>1, <2>5
    <3>2. t[n + where[q]] = list[where[q]]
      BY <1>2, <3>1 DEF IsPlacing
    <3>. QED BY <1>3, <1>4, <2>1, <2>3, <2>5, <3>1, <3>2, SMTT(30)
  <2>. QED BY <2>4, <2>5
<1>15. ASSUME NEW q \in 1..Len(cs), Path(p, cs[q]) \in DOMAIN other
       PROVE  /\ place[q] \in 1..Len(t)
              /\ t[place[q]].id = other[Path(p, cs[q])] /\ t[place[q]].kind = cs[q].kind
              /\ t[place[q]].hash = cs[q].hash \/ <<t[place[q]].id, cs[q].hash>> \in moreFresh
  <2>1. CASE Runs(q)
    BY <1>13, <2>1
  <2>2. CASE Bound(q)
    <3>1. /\ list[where[q]].id = binding[Path(p, cs[q])] /\ list[where[q]].kind = cs[q].kind
          /\ list[where[q]].hash = cs[q].hash \/ <<list[where[q]].id, cs[q].hash>> \in fresh
      BY <1>1, <2>2 DEF IsAligned
    <3>. QED BY <1>14, <2>2, <3>1
  <2>. QED BY <1>11, <1>15, <2>1, <2>2
<1>16. ASSUME NEW q \in 1..Len(cs), NEW s \in 1..Len(cs), q < s,
              Path(p, cs[q]) \in DOMAIN other, Path(p, cs[s]) \in DOMAIN other
       PROVE  place[q] < place[s]
  <2>1. CASE Runs(q) /\ Runs(s)
    BY <1>3, <1>4, <1>13, <1>16, <2>1, SMTT(30)
  <2>2. CASE Runs(q) /\ Bound(s)
    <3>0. ~Runs(s)
      BY <1>10, <2>2
    <3>1. s >= i0 + n
      BY <1>3, <1>16, <2>2, <3>0
    <3>2. where[s] > cut
      BY <1>5, <2>2, <3>1
    <3>. QED BY <1>3, <1>4, <1>13, <1>14, <2>2, <3>2, SMTT(30)
  <2>3. CASE Bound(q) /\ Runs(s)
    <3>0. ~Runs(q)
      BY <1>10, <2>3
    <3>1. q < i0
      BY <1>3, <1>16, <2>3, <3>0
    <3>2. where[q] <= cut
      BY <1>5, <2>3, <3>1
    <3>. QED BY <1>3, <1>4, <1>13, <1>14, <2>3, <3>2
  <2>4. CASE Bound(q) /\ Bound(s)
    <3>1. where[q] < where[s]
      BY <1>1, <1>16, <2>4 DEF IsAligned
    <3>2. /\ where[q] \in 1..Len(list) /\ where[s] \in 1..Len(list)
          /\ place[q] = IF where[q] <= cut THEN where[q] ELSE n + where[q]
          /\ place[s] = IF where[s] <= cut THEN where[s] ELSE n + where[s]
      BY <1>14, <2>4
    <3> DEFINE wq == where[q]
               ws == where[s]
    <3>3. /\ wq \in Int /\ ws \in Int /\ wq < ws /\ n \in Nat /\ cut \in Int
          /\ place[q] = IF wq <= cut THEN wq ELSE n + wq
          /\ place[s] = IF ws <= cut THEN ws ELSE n + ws
      BY <1>3, <1>4, <3>1, <3>2
    <3> HIDE DEF wq, ws, n
    <3>. QED BY <3>3
  <2>. QED BY <1>11, <1>16, <2>1, <2>2, <2>3, <2>4
<1>17. ASSUME NEW k \in 1..Len(t)
       PROVE  \/ t[k].id \in moreGoing
              \/ \E q \in 1..Len(cs) : Path(p, cs[q]) \in DOMAIN other /\ place[q] = k
  <2>1. ASSUME NEW i \in 1..Len(list), t[k] = list[i], k = IF i <= cut THEN i ELSE n + i
        PROVE  \/ t[k].id \in moreGoing
               \/ \E q \in 1..Len(cs) : Path(p, cs[q]) \in DOMAIN other /\ place[q] = k
    <3>1. \/ list[i].id \in going
          \/ \E q \in 1..Len(cs) : Bound(q) /\ where[q] = i
      BY <1>1 DEF IsAligned
    <3>2. ASSUME NEW q \in 1..Len(cs), Bound(q), where[q] = i
          PROVE  Path(p, cs[q]) \in DOMAIN other /\ place[q] = k
      BY <1>11, <1>14, <2>1, <3>2
    <3>. QED BY <2>1, <3>1, <3>2
  <2>2. \/ k \in 1..cut /\ t[k] = list[k]
        \/ \E j \in 1..Len(new) : k = cut + j /\ t[k] = new[j]
        \/ \E i \in (cut + 1)..Len(list) : k = Len(new) + i /\ t[k] = list[i]
    BY <1>2, PlacingCovers
  <2>3. CASE k \in 1..cut /\ t[k] = list[k]
    <3>1. k \in 1..Len(list) /\ k <= cut
      BY <1>4, <2>3
    <3>. QED BY <2>1, <2>3, <3>1
  <2>4. ASSUME NEW j \in 1..Len(new), k = cut + j, t[k] = new[j]
        PROVE  \E q \in 1..Len(cs) : Path(p, cs[q]) \in DOMAIN other /\ place[q] = k
    <3> DEFINE q == i0 + j - 1
    <3>1. q \in 1..Len(cs) /\ Runs(q) /\ q - i0 + 1 = j
      BY <1>3
    <3>2. place[q] = k
      BY <1>13, <2>4, <3>1
    <3>. QED BY <1>11, <3>1, <3>2
  <2>5. ASSUME NEW i \in (cut + 1)..Len(list), k = Len(new) + i, t[k] = list[i]
        PROVE  \/ t[k].id \in moreGoing
               \/ \E q \in 1..Len(cs) : Path(p, cs[q]) \in DOMAIN other /\ place[q] = k
    <3>1. i \in 1..Len(list) /\ ~(i <= cut)
      BY <1>4
    <3>. QED BY <2>1, <2>5, <3>1
  <2>. QED BY <2>2, <2>3, <2>4, <2>5
<1>18. IsAligned(place, t, p, cs, other, moreGoing, moreFresh)
  BY <1>15, <1>16, <1>17 DEF IsAligned
<1>. QED BY <1>18 DEF Aligned

----------------------------------------------------------------------------
(* The lists that a sync begins with are aligned *)

\* What a list passes on: the ids of what is kept.
Passes(list, p, binding) ==
    \A q \in 1..Len(list.new) :
        /\ Path(p, list.new[q]) \in DOMAIN binding <=> IsKept(list, q)
        /\ IsKept(list, q) =>
            \E y : IsEntry(list.old, y, list.new[q])
                   /\ binding[Path(p, list.new[q])] = list.old[y].id

\* What is kept has its payload or gets it, and what is not kept goes.
Provides(list, going, fresh) ==
    /\ \A q \in 1..Len(list.new) : IsKept(list, q) =>
        LET b == NodeWith(list.old, list.new[q].key)
        IN  b.hash = list.new[q].hash \/ <<b.id, list.new[q].hash>> \in fresh
    /\ \A i \in DOMAIN list.old : list.old[i].key \notin list.kept => list.old[i].id \in going

\* The place of a key in the cached list is that of its entry,
LEMMA PlaceOfEntry ==
    ASSUME NEW bs, NEW x, NEW c, IsEntry(bs, x, c)
    PROVE  (CHOOSE i \in DOMAIN bs : bs[i].key = c.key) = x
<1>1. x \in DOMAIN bs /\ bs[x].key = c.key /\ \A y \in DOMAIN bs : bs[y].key = c.key => y = x
  BY DEF IsEntry, Matches
<1>. QED BY <1>1

\* and in the rendered list that of its node.
LEMMA PlaceOfNode ==
    ASSUME NEW cs, KeysDiffer(cs), NEW q \in DOMAIN cs
    PROVE  (CHOOSE i \in DOMAIN cs : cs[i].key = cs[q].key) = q
<1>1. \A y \in DOMAIN cs : cs[y].key = cs[q].key => y = q
  BY DEF KeysDiffer
<1>. QED BY <1>1

\* Siblings that are kept are in the same order.
LEMMA KeptInOrder ==
    ASSUME NEW bs, NEW cs, IsRendered(cs), NEW kept, CommonOrder(bs, cs, kept),
           NEW q \in 1..Len(cs), NEW s \in 1..Len(cs), q < s, cs[q].key \in kept, cs[s].key \in kept,
           NEW x, IsEntry(bs, x, cs[q]), NEW y, IsEntry(bs, y, cs[s])
    PROVE  x < y
<1>1. DOMAIN cs = 1..Len(cs) /\ KeysDiffer(cs)
  BY DEF IsRendered
<1>2. /\ (CHOOSE i \in DOMAIN cs : cs[i].key = cs[q].key) = q
      /\ (CHOOSE i \in DOMAIN cs : cs[i].key = cs[s].key) = s
  BY <1>1, PlaceOfNode
<1>3. /\ (CHOOSE i \in DOMAIN bs : bs[i].key = cs[q].key) = x
      /\ (CHOOSE i \in DOMAIN bs : bs[i].key = cs[s].key) = y
  BY PlaceOfEntry
<1> DEFINE k == cs[q].key
           l == cs[s].key
<1>4. (CHOOSE i \in DOMAIN bs : bs[i].key = k) < (CHOOSE i \in DOMAIN bs : bs[i].key = l)
        <=> (CHOOSE i \in DOMAIN cs : cs[i].key = k) < (CHOOSE i \in DOMAIN cs : cs[i].key = l)
  <2>1. k \in kept /\ l \in kept
    OBVIOUS
  <2> HIDE DEF k, l
  <2>. QED BY <2>1 DEF CommonOrder
<1>. QED BY <1>2, <1>3, <1>4

\* The cached list of a diff is aligned with the rendered one.
LEMMA DiffAligns ==
    ASSUME NEW ids, NEW all, NEW r, NEW p, NEW list, IsDiff(list, p, r, ids, all),
           list.kept = RetainedKeys(list.old, list.new), UniqueKeys(list.old),
           NEW binding, Passes(list, p, binding),
           NEW going, NEW fresh, Provides(list, going, fresh)
    PROVE  Aligned(list.old, p, list.new, binding, going, fresh)
<1> DEFINE bs == list.old
           cs == list.new
           at == [q \in 1..Len(cs) |-> CHOOSE y : IsEntry(bs, y, cs[q])]
<1>1. IsRendered(cs) /\ IsBase(bs, ids, all)
  BY DEF IsDiff
<1>2. DOMAIN bs = 1..Len(bs) /\ DOMAIN cs = 1..Len(cs)
  BY <1>1 DEF IsBase, IsRendered
<1>3. IsLongestCommon(list.kept, bs, cs)
  BY <1>1, RetainedOfBase
<1>4. \A q \in 1..Len(cs) : IsKept(list, q) =>
        IsEntry(bs, at[q], cs[q]) /\ binding[Path(p, cs[q])] = bs[at[q]].id
  <2>1. SUFFICES ASSUME NEW q \in 1..Len(cs), IsKept(list, q)
                 PROVE  IsEntry(bs, at[q], cs[q]) /\ binding[Path(p, cs[q])] = bs[at[q]].id
    OBVIOUS
  <2>2. PICK y : IsEntry(bs, y, cs[q]) /\ binding[Path(p, cs[q])] = bs[y].id
    BY <2>1 DEF Passes
  <2>3. IsEntry(bs, at[q], cs[q])
    BY <2>2
  <2>4. at[q] = y
    BY <2>2, <2>3 DEF IsEntry, Matches
  <2>. QED BY <2>2, <2>3, <2>4
<1> HIDE DEF at
<1>5. ASSUME NEW q \in 1..Len(cs), Path(p, cs[q]) \in DOMAIN binding
      PROVE  /\ at[q] \in 1..Len(bs)
             /\ bs[at[q]].id = binding[Path(p, cs[q])] /\ bs[at[q]].kind = cs[q].kind
             /\ bs[at[q]].hash = cs[q].hash \/ <<bs[at[q]].id, cs[q].hash>> \in fresh
  <2>1. IsKept(list, q)
    BY <1>5 DEF Passes
  <2>2. IsEntry(bs, at[q], cs[q]) /\ binding[Path(p, cs[q])] = bs[at[q]].id
    BY <1>4, <2>1
  <2>3. at[q] \in DOMAIN bs /\ NodeWith(bs, cs[q].key) = bs[at[q]] /\ bs[at[q]].kind = cs[q].kind
    BY <2>2 DEF IsEntry, Matches
  <2>4. \/ NodeWith(bs, cs[q].key).hash = cs[q].hash
        \/ <<NodeWith(bs, cs[q].key).id, cs[q].hash>> \in fresh
    BY <2>1 DEF Provides
  <2>. QED BY <1>2, <2>2, <2>3, <2>4
<1>6. ASSUME NEW q \in 1..Len(cs), NEW s \in 1..Len(cs), q < s,
             Path(p, cs[q]) \in DOMAIN binding, Path(p, cs[s]) \in DOMAIN binding
      PROVE  at[q] < at[s]
  <2>1. IsKept(list, q) /\ IsKept(list, s)
    BY <1>6 DEF Passes
  <2>2. IsEntry(bs, at[q], cs[q]) /\ IsEntry(bs, at[s], cs[s])
    BY <1>4, <2>1
  <2>3. cs[q].key \in list.kept /\ cs[s].key \in list.kept /\ CommonOrder(bs, cs, list.kept)
    BY <1>3, <2>1 DEF IsKept, IsLongestCommon
  <2>. QED BY <1>1, <1>6, <2>2, <2>3, KeptInOrder
<1>7. ASSUME NEW k \in 1..Len(bs)
      PROVE  \/ bs[k].id \in going
             \/ \E q \in 1..Len(cs) : Path(p, cs[q]) \in DOMAIN binding /\ at[q] = k
  <2>1. CASE bs[k].key \notin list.kept
    BY <1>2, <2>1 DEF Provides
  <2>2. CASE bs[k].key \in list.kept
    <3>1. bs[k].key \in CommonKeys(bs, cs)
      BY <1>3, <2>2 DEF IsLongestCommon
    <3>2. PICK q \in 1..Len(cs) : cs[q].key = bs[k].key
      BY <1>2, <3>1 DEF CommonKeys, ToSet, Matches
    <3>3. IsKept(list, q)
      BY <2>2, <3>2 DEF IsKept
    <3>4. IsEntry(bs, at[q], cs[q]) /\ Path(p, cs[q]) \in DOMAIN binding
      BY <1>4, <3>3 DEF Passes
    <3>5. k = at[q]
      BY <1>2, <3>2, <3>4 DEF IsEntry
    <3>. QED BY <3>4, <3>5
  <2>. QED BY <2>1, <2>2
<1>8. IsAligned(at, bs, p, cs, binding, going, fresh)
  BY <1>5, <1>6, <1>7 DEF IsAligned
<1>. QED BY <1>8 DEF Aligned

\* Every list of a diff keeps the longest that it can.
AllLongest(m, r) ==
    \A x \in 0..Len(r) : /\ UniqueKeys(ListOf(m, x).old)
                         /\ ListOf(m, x).kept = RetainedKeys(ListOf(m, x).old, ListOf(m, x).new)

\* It follows from what a matching is.
LEMMA MatchingKeeps ==
    ASSUME NEW r \in Renderings, NEW base, NEW m, m = Matching(base, r), Diffable(m)
    PROVE  AllLongest(m, r)
<1>1. DOMAIN r = 1..Len(r) /\ Len(r) \in Nat
  BY RenderingType DEF IsRendered
<1>2. /\ UniqueKeys(m.top.old) /\ m.top.kept = RetainedKeys(m.top.old, m.top.new)
      /\ DOMAIN m.kids = DOMAIN r
      /\ \A i \in DOMAIN r : m.kids[i].kept = RetainedKeys(m.kids[i].old, m.kids[i].new)
  BY DEF Matching, Diffable
<1>3. \A i \in DOMAIN m.kids : UniqueKeys(m.kids[i].old)
  BY DEF Diffable
<1>. QED BY <1>1, <1>2, <1>3 DEF AllLongest, ListOf

\* The lists of children hold blocks.
LeafyLists(m, r) == \A x \in 1..Len(r) : \A i \in DOMAIN m.kids[x].old : m.kids[x].old[i].kind = "block"

\* What the lists pass on, and what their calls provide.
LEMMA BeganPasses ==
    ASSUME NEW r \in Renderings, NEW ids, NEW all, NEW m, NEW queue, NEW binding,
           Began(queue, binding, m, r, ids, all), NEW x \in 0..Len(r),
           x = 0 => PagesComeLast(m.top)
    PROVE  Passes(ListOf(m, x), PathOf(r, x), binding)
<1>1. Passed(binding, m, r) /\ IsMatching(m, m.top.old, r, ids, all)
  BY DEF Began
<1>2. ListOf(m, x).new = Sibs(r, x)
  BY <1>1, ListsAre
<1>3. \A c : Path(Root, c) = <<c.key>> /\ \A k : Path(<<k>>, c) = <<k, c.key>>
  BY PathsAre
<1>4. CASE x = 0
  <2>1. ListOf(m, x) = m.top /\ PathOf(r, x) = Root /\ m.top.new = r
    BY <1>2, <1>4 DEF ListOf, PathOf, Sibs
  <2>2. DOMAIN r = 1..Len(r)
    BY RenderingType DEF IsRendered
  <2>3. ASSUME NEW q \in 1..Len(r)
        PROVE  Stays(m, r, q) <=> IsKept(m.top, q)
    <3>1. ~IsKept(m.top, q) => ~IsMoved(m.top.old, m.top.kept, r[q])
      BY <1>4, <2>1, <2>2 DEF PagesComeLast, IsKept, IsMoved
    <3>. QED BY <2>1, <3>1 DEF Stays, IsKept
  <2>4. ASSUME NEW q \in 1..Len(r)
        PROVE  /\ <<r[q].key>> \in DOMAIN binding <=> IsKept(m.top, q)
               /\ IsKept(m.top, q) => \E y : /\ IsEntry(m.top.old, y, r[q])
                                             /\ binding[<<r[q].key>>] = m.top.old[y].id
    BY <1>1, <2>3 DEF Passed
  <2>5. ASSUME NEW q \in 1..Len(m.top.new)
        PROVE  /\ Path(Root, m.top.new[q]) \in DOMAIN binding <=> IsKept(m.top, q)
               /\ IsKept(m.top, q) => \E y : /\ IsEntry(m.top.old, y, m.top.new[q])
                                             /\ binding[Path(Root, m.top.new[q])] = m.top.old[y].id
    <3>1. Path(Root, m.top.new[q]) = <<r[q].key>> /\ q \in 1..Len(r) /\ m.top.new[q] = r[q]
      BY <1>3, <2>1
    <3> HIDE DEF Root
    <3>. QED BY <2>4, <3>1
  <2>6. Passes(m.top, Root, binding)
    BY <2>5 DEF Passes
  <2>. QED BY <2>1, <2>6
<1>5. CASE x # 0
  <2>1. /\ x \in 1..Len(r) /\ ListOf(m, x) = m.kids[x] /\ PathOf(r, x) = <<r[x].key>>
        /\ m.kids[x].new = r[x].kids
    BY <1>2, <1>5 DEF ListOf, PathOf, Sibs
  <2>2. ASSUME NEW q \in 1..Len(r[x].kids)
        PROVE  /\ <<r[x].key, r[x].kids[q].key>> \in DOMAIN binding <=> IsKept(m.kids[x], q)
               /\ IsKept(m.kids[x], q) =>
                    \E y : /\ IsEntry(m.kids[x].old, y, r[x].kids[q])
                           /\ binding[<<r[x].key, r[x].kids[q].key>>] = m.kids[x].old[y].id
    BY <1>1, <2>1 DEF Passed, IsKept
  <2> DEFINE p == <<r[x].key>>
  <2>3. ASSUME NEW q \in 1..Len(m.kids[x].new)
        PROVE  /\ Path(p, m.kids[x].new[q]) \in DOMAIN binding <=> IsKept(m.kids[x], q)
               /\ IsKept(m.kids[x], q) =>
                    \E y : /\ IsEntry(m.kids[x].old, y, m.kids[x].new[q])
                           /\ binding[Path(p, m.kids[x].new[q])] = m.kids[x].old[y].id
    <3>1. /\ q \in 1..Len(r[x].kids) /\ m.kids[x].new[q] = r[x].kids[q]
          /\ Path(p, r[x].kids[q]) = <<r[x].key, r[x].kids[q].key>>
      BY <1>3, <2>1
    <3> HIDE DEF p
    <3>. QED BY <2>2, <3>1
  <2>4. Passes(m.kids[x], p, binding)
    BY <2>3 DEF Passes
  <2>. QED BY <2>1, <2>4
<1>. QED BY <1>4, <1>5

\* Every sibling that is not passed on is going, and every other payload is to come.
LEMMA BeganProvides ==
    ASSUME NEW r \in Renderings, NEW ids, NEW all, NEW m, NEW queue, NEW binding,
           Began(queue, binding, m, r, ids, all), LeafyLists(m, r), NEW x \in 0..Len(r),
           x = 0 => PagesComeLast(m.top)
    PROVE  Provides(ListOf(m, x), Going(queue, x), Renewing(queue, x))
<1> DEFINE list == ListOf(m, x)
           p == PathOf(r, x)
<1>1. IsMatching(m, m.top.old, r, ids, all)
  BY DEF Began
<1>2. list.new = Sibs(r, x) /\ IsDiff(list, p, r, ids, all)
  BY <1>1, ListsAre
<1>3. Passes(list, p, binding)
  BY BeganPasses
<1>4. DOMAIN list.new = 1..Len(list.new) /\ DOMAIN list.old = 1..Len(list.old)
  BY <1>2 DEF IsDiff, IsRendered, IsBase
<1>5. \A o : PlanAsks(o, m, r) /\ ~IsNew(o) => \E k \in 1..Len(queue) : queue[k] = o
  BY BeganAsks
<1>6. x # 0 => x \in 1..Len(r) /\ list = m.kids[x] /\ p # Root
  BY DEF ListOf, PathOf, Root
<1>7. x = 0 => list = m.top /\ PagesComeLast(list)
  BY DEF ListOf
<1> HIDE DEF list, p
<1>8. ASSUME NEW q \in 1..Len(list.new), IsKept(list, q)
      PROVE  LET b == NodeWith(list.old, list.new[q].key)
             IN  \/ b.hash = list.new[q].hash
                 \/ <<b.id, list.new[q].hash>> \in Renewing(queue, x)
  <2> DEFINE c == list.new[q]
             b == NodeWith(list.old, c.key)
  <2>1. SUFFICES ASSUME b.hash # c.hash PROVE <<b.id, c.hash>> \in Renewing(queue, x)
    OBVIOUS
  <2>2. c.kind \in Kinds
    <3>1. c \in Nodes
      BY <1>2, <1>4 DEF IsDiff, IsRendered
    <3>. QED BY <3>1, NodeType
  <2>3. CASE c.kind = "block"
    <3> DEFINE o == [op |-> "update", id |-> b.id, hash |-> c.hash]
    <3>1. q \in Acting(list)
      BY <1>4, <2>1, <2>3 DEF Acting, Acts
    <3>2. o = SiblingOp(p, list, q)
      BY <1>8 DEF SiblingOp
    <3>3. PlanAsks(o, m, r)
      BY <3>1, <3>2 DEF PlanAsks, ListAsks, list, p
    <3>4. o.op = "update" /\ o.id = b.id /\ o.hash = c.hash /\ ~IsNew(o)
      BY DEF IsNew
    <3>5. PICK k \in 1..Len(queue) : queue[k] = o
      BY <1>5, <3>3, <3>4
    <3>. QED BY <3>4, <3>5 DEF Renewing
  <2>4. CASE c.kind = "page"
    <3>1. x = 0
      BY <1>2, <1>6, <2>4 DEF IsDiff
    <3>2. PICK y : IsEntry(list.old, y, c)
      BY <1>3, <1>8 DEF Passes
    <3>3. b \in ToSet(list.old) /\ Matches(b, c)
      BY <3>2 DEF IsEntry, ToSet
    <3>4. q \in Drifted(list)
      BY <1>4, <2>1, <2>4, <3>3 DEF Drifted
    <3> DEFINE o == [op |-> "rename", id |-> b.id, hash |-> c.hash]
    <3>5. o = RenameOp(list, q)
      BY DEF RenameOp
    <3>6. PlanAsks(o, m, r)
      BY <1>7, <3>1, <3>4, <3>5 DEF PlanAsks
    <3>7. o.op = "rename" /\ o.id = b.id /\ o.hash = c.hash /\ ~IsNew(o)
      BY DEF IsNew
    <3>8. PICK k \in 1..Len(queue) : queue[k] = o
      BY <1>5, <3>6, <3>7
    <3>. QED BY <3>1, <3>7, <3>8 DEF Renewing
  <2>. QED BY <2>2, <2>3, <2>4 DEF Kinds
<1>9. ASSUME NEW i \in DOMAIN list.old, list.old[i].key \notin list.kept
      PROVE  list.old[i].id \in Going(queue, x)
  <2> DEFINE b == list.old[i]
  <2>1. b.kind \in Kinds
    <3>1. b \in NodeEntries(ids) \cup Placeholders(all)
      BY <1>2, <1>4 DEF IsDiff, IsBase
    <3>. QED BY <3>1 DEF NodeEntries, EntryLevels, Placeholders, Kinds
  <2>2. CASE b.kind = "block"
    <3> DEFINE o == [op |-> "remove", id |-> b.id]
    <3>1. i \in Removed(list)
      BY <1>9, <2>2 DEF Removed
    <3>2. o = ClearOp("remove", list, i)
      BY DEF ClearOp
    <3>3. PlanAsks(o, m, r)
      BY <3>1, <3>2 DEF PlanAsks, ListAsks, list, p
    <3>4. o.op = "remove" /\ o.id = b.id /\ ~IsNew(o)
      BY DEF IsNew
    <3>5. PICK k \in 1..Len(queue) : queue[k] = o
      BY <1>5, <3>3, <3>4
    <3>. QED BY <3>4, <3>5 DEF Going
  <2>3. CASE b.kind = "page"
    <3>1. x = 0
      BY <1>6, <2>3 DEF LeafyLists
    <3>2. ~\E c \in ToSet(list.new) : Matches(b, c)
      <4>1. SUFFICES ASSUME NEW j \in DOMAIN list.new, Matches(b, list.new[j]) PROVE FALSE
        BY DEF ToSet
      <4>2. list.new[j].kind = "page" /\ list.new[j].key \notin list.kept
        BY <1>9, <2>3, <4>1 DEF Matches
      <4>3. IsMoved(list.old, list.kept, list.new[j])
        BY <4>1, <4>2 DEF IsMoved, ToSet
      <4>. QED BY <1>7, <3>1, <4>2, <4>3 DEF PagesComeLast
    <3> DEFINE o == [op |-> "archive", id |-> b.id]
    <3>3. i \in Archived(list)
      BY <1>9, <2>3, <3>2 DEF Archived
    <3>4. o = ClearOp("archive", list, i)
      BY DEF ClearOp
    <3>5. PlanAsks(o, m, r)
      BY <1>7, <3>1, <3>3, <3>4 DEF PlanAsks
    <3>6. o.op = "archive" /\ o.id = b.id /\ ~IsNew(o)
      BY DEF IsNew
    <3>7. PICK k \in 1..Len(queue) : queue[k] = o
      BY <1>5, <3>5, <3>6
    <3>. QED BY <3>1, <3>6, <3>7 DEF Going
  <2>. QED BY <2>1, <2>2, <2>3 DEF Kinds
<1>. QED BY <1>8, <1>9 DEF Provides, list

\* So each list of the diff is aligned when the sync begins; that of the page, if no sub-page
\* has to be put before a sibling that stays.
LEMMA BeganAligned ==
    ASSUME NEW r \in Renderings, NEW ids, NEW all, NEW m, NEW queue, NEW binding,
           Began(queue, binding, m, r, ids, all), LeafyLists(m, r), AllLongest(m, r),
           NEW x \in 0..Len(r), x = 0 => PagesComeLast(m.top)
    PROVE  Aligned(ListOf(m, x).old, PathOf(r, x), Sibs(r, x), binding,
                   Going(queue, x), Renewing(queue, x))
<1> DEFINE list == ListOf(m, x)
           p == PathOf(r, x)
<1>1. IsMatching(m, m.top.old, r, ids, all)
  BY DEF Began
<1>2. list.new = Sibs(r, x) /\ IsDiff(list, p, r, ids, all)
  BY <1>1, ListsAre
<1>3. Passes(list, p, binding)
  BY BeganPasses
<1>4. Provides(list, Going(queue, x), Renewing(queue, x))
  BY BeganProvides
<1>5. UniqueKeys(list.old) /\ list.kept = RetainedKeys(list.old, list.new)
  BY DEF AllLongest
<1> HIDE DEF list, p
<1>6. Aligned(list.old, p, list.new, binding, Going(queue, x), Renewing(queue, x))
  BY <1>2, <1>3, <1>4, <1>5, DiffAligns
<1>. QED BY <1>2, <1>6 DEF list, p

----------------------------------------------------------------------------
(* The calls that are left when one has been made *)

\* What is at hand before a later call is the same as it was.
LEMMA StillAtHand ==
    ASSUME NEW S, calls \in Seq(S), calls # <<>>, NEW p, NEW l \in 1..Len(Tail(calls)), NEW first
    PROVE  AtHand(p, Binds(Head(calls), first), Tail(calls), l) <=> AtHand(p, bound, calls, l + 1)
<1> DEFINE b == Binds(Head(calls), first)
           list == Tail(calls)
<1>1. /\ Head(calls) = calls[1] /\ Len(calls) \in Nat \ {0} /\ Len(list) = Len(calls) - 1
      /\ \A k \in 1..(Len(calls) - 1) : list[k] = calls[k + 1]
  BY TailIs
<1>2. DOMAIN b = ToSet(Created(Head(calls))) \cup DOMAIN bound
  BY BindsIs
<1>3. ASSUME AtHand(p, bound, calls, l + 1) PROVE AtHand(p, b, list, l)
  <2>1. l + 1 \in 1..(Len(calls) + 1) /\ l + 1 - 1 = l
    BY <1>1
  <2>2. AtHand(p, Binds(Head(calls), first), Tail(calls), l + 1 - 1)
    BY <1>3, <2>1, StaysAtHand
  <2>. QED BY <2>1, <2>2
<1> HIDE DEF b, list
<1>4. ASSUME AtHand(p, b, list, l) PROVE AtHand(p, bound, calls, l + 1)
  <2>1. CASE p \in DOMAIN bound
    BY <2>1 DEF AtHand
  <2>2. CASE p \in ToSet(Created(Head(calls)))
    <3>1. 1 \in 1..(l + 1 - 1) /\ p \in ToSet(Created(calls[1]))
      BY <1>1, <2>2 DEF list
    <3>. QED BY <3>1 DEF AtHand
  <2>3. CASE p \notin DOMAIN b
    <3>1. PICK k \in 1..(l - 1) : p \in ToSet(Created(list[k]))
      BY <1>4, <2>3 DEF AtHand
    <3> DEFINE j == k + 1
    <3>2. j \in 1..(l + 1 - 1) /\ k \in 1..(Len(calls) - 1)
      BY <1>1 DEF list
    <3>3. list[k] = calls[j]
      BY <1>1, <3>2
    <3>4. p \in ToSet(Created(calls[j]))
      BY <3>1, <3>3
    <3> HIDE DEF j
    <3>. QED BY <3>2, <3>4 DEF AtHand
  <2>. QED BY <1>2, <2>1, <2>2, <2>3
<1>. QED BY <1>3, <1>4 DEF b, list

\* A call fits as well when it comes next but one.
LEMMA FitsLater ==
    ASSUME NEW new, NEW at, NEW after, NEW i0, NEW p, NEW cs, NEW binding, NEW queue, NEW l,
           Fits(new, at, after, i0, p, cs, binding, queue, l),
           NEW other, NEW rest, NEW k,
           \A q : AtHand(q, other, rest, k) <=> AtHand(q, binding, queue, l)
    PROVE  Fits(new, at, after, i0, p, cs, other, rest, k)
BY DEF Fits

\* What is prepared for all calls is prepared for those that are left.
LEMMA PreparedGoesOn ==
    ASSUME NEW S, calls \in Seq(S), calls # <<>>, NEW first,
           Prepared(calls, bound, rendering, tidy)
    PROVE  Prepared(Tail(calls), Binds(Head(calls), first), rendering, tidy)
<1> DEFINE b == Binds(Head(calls), first)
           list == Tail(calls)
<1>1. /\ Len(calls) \in Nat \ {0} /\ Len(list) = Len(calls) - 1
      /\ \A k \in 1..(Len(calls) - 1) : list[k] = calls[k + 1]
  BY TailIs
<1>2. \A k \in 1..Len(list) : k + 1 \in 1..Len(calls) /\ list[k] = calls[k + 1]
  BY <1>1
<1>3. \A k \in 1..Len(list) : \A p : AtHand(p, b, list, k) <=> AtHand(p, bound, calls, k + 1)
  BY StillAtHand
<1> HIDE DEF b, list
<1>4. ASSUME NEW k \in 1..Len(list)
      PROVE  /\ Novel(b, list, k)
             /\ \A p \in ToSet(Created(list[k])) :
                    NodeAt(rendering, p).kind = "page" <=> list[k].op = "create"
             /\ \A x \in 0..Len(rendering) : ToFit(list[k], x, rendering, tidy) =>
                    Fitting(list[k], PathOf(rendering, x), Sibs(rendering, x), b, list, k)
  <2> DEFINE j == k + 1
  <2>1. j \in 1..Len(calls) /\ list[k] = calls[j]
    BY <1>2
  <2>2. \A p : AtHand(p, b, list, k) <=> AtHand(p, bound, calls, j)
    BY <1>3
  <2> HIDE DEF j
  <2>3. /\ Novel(bound, calls, j)
        /\ \A p \in ToSet(Created(calls[j])) :
                NodeAt(rendering, p).kind = "page" <=> calls[j].op = "create"
    BY <2>1 DEF Prepared
  <2>4. Novel(b, list, k)
    BY <2>1, <2>2, <2>3 DEF Novel
  <2>5. ASSUME NEW x \in 0..Len(rendering), ToFit(list[k], x, rendering, tidy)
        PROVE  Fitting(list[k], PathOf(rendering, x), Sibs(rendering, x), b, list, k)
    <3>1. Fitting(calls[j], PathOf(rendering, x), Sibs(rendering, x), bound, calls, j)
      BY <2>1, <2>5 DEF Prepared
    <3> DEFINE call == calls[j]
               p == PathOf(rendering, x)
               cs == Sibs(rendering, x)
    <3>2. PICK i0 : Fits(Created(call), At(call), After(call), i0, p, cs, bound, calls, j)
      BY <3>1 DEF Fitting
    <3> HIDE DEF call, p, cs
    <3>3. Fits(Created(call), At(call), After(call), i0, p, cs, b, list, k)
      BY <2>2, <3>2, FitsLater
    <3>4. Fitting(call, p, cs, b, list, k)
      BY <3>3 DEF Fitting
    <3>. QED BY <2>1, <3>4 DEF call, p, cs
  <2>. QED BY <2>1, <2>3, <2>4, <2>5
<1>. QED BY <1>4 DEF Prepared, b, list

\* A call that removes from the list of x, and one that sets a payload there.
RemovesFrom(call, x) == call.op \in IF x = 0 THEN {"remove", "archive"} ELSE {"remove"}
SetsIn(call, x)      == call.op \in IF x = 0 THEN {"update", "rename"} ELSE {"update"}

\* What the calls behind the first one have still to remove and to set.
LEMMA LeftToDo ==
    ASSUME NEW S, NEW queue \in Seq(S), queue # <<>>, NEW x
    PROVE  /\ \A id \in Going(queue, x) : \/ id \in Going(Tail(queue), x)
                                          \/ RemovesFrom(Head(queue), x) /\ id = Head(queue).id
           /\ \A f \in Renewing(queue, x) : \/ f \in Renewing(Tail(queue), x)
                                            \/ /\ SetsIn(Head(queue), x)
                                               /\ f = <<Head(queue).id, Head(queue).hash>>
<1> DEFINE list == Tail(queue)
<1>1. /\ Head(queue) = queue[1] /\ Len(queue) \in Nat \ {0} /\ Len(list) = Len(queue) - 1
      /\ \A k \in 1..(Len(queue) - 1) : list[k] = queue[k + 1]
  BY TailIs
<1> HIDE DEF list
<1>2. \A l \in 1..Len(queue) : l # 1 => \E k \in 1..Len(list) : list[k] = queue[l]
  <2>1. SUFFICES ASSUME NEW l \in 1..Len(queue), l # 1
                 PROVE  \E k \in 1..Len(list) : list[k] = queue[l]
    OBVIOUS
  <2> DEFINE k == l - 1
  <2>2. k \in 1..(Len(queue) - 1) /\ k \in 1..Len(list) /\ k + 1 = l
    BY <1>1, <2>1
  <2>. QED BY <1>1, <2>2
<1>3. ASSUME NEW id \in Going(queue, x)
      PROVE  id \in Going(list, x) \/ (RemovesFrom(Head(queue), x) /\ id = Head(queue).id)
  <2>1. PICK l \in 1..Len(queue) : RemovesFrom(queue[l], x) /\ id = queue[l].id
    BY <1>3 DEF Going, RemovesFrom
  <2>2. CASE l = 1
    BY <1>1, <2>1, <2>2
  <2>3. CASE l # 1
    <3>1. PICK k \in 1..Len(list) : list[k] = queue[l]
      BY <1>2, <2>3
    <3>. QED BY <2>1, <3>1 DEF Going, RemovesFrom
  <2>. QED BY <2>2, <2>3
<1>4. ASSUME NEW f \in Renewing(queue, x)
      PROVE  \/ f \in Renewing(list, x)
             \/ SetsIn(Head(queue), x) /\ f = <<Head(queue).id, Head(queue).hash>>
  <2>1. PICK l \in 1..Len(queue) : SetsIn(queue[l], x) /\ f = <<queue[l].id, queue[l].hash>>
    BY <1>4 DEF Renewing, SetsIn
  <2>2. CASE l = 1
    BY <1>1, <2>1, <2>2
  <2>3. CASE l # 1
    <3>1. PICK k \in 1..Len(list) : list[k] = queue[l]
      BY <1>2, <2>3
    <3>. QED BY <2>1, <3>1 DEF Renewing, SetsIn
  <2>. QED BY <2>2, <2>3
<1>. QED BY <1>3, <1>4 DEF list

----------------------------------------------------------------------------
(* What is bound is neither removed nor given another payload *)

Apt(queue, binding, r) ==
    \A l \in 1..Len(queue) :
        /\ Clearing(queue[l]) => \A p \in DOMAIN binding : binding[p] # queue[l].id
        /\ queue[l].op \in {"update", "rename"} =>
            \A p \in DOMAIN binding : binding[p] = queue[l].id => NodeAt(r, p).hash = queue[l].hash

\* No child has the id of a node.
LevelsDiffer(tree) ==
    \A i, j \in DOMAIN tree : \A k \in DOMAIN tree[j].kids : tree[i].id # tree[j].kids[k].id

OldApart(m, r) ==
    \A x, y \in 0..Len(r) : \A w \in DOMAIN ListOf(m, x).old : \A z \in DOMAIN ListOf(m, y).old :
        ListOf(m, x).old[w].id = ListOf(m, y).old[z].id => x = y /\ w = z

\* The cached siblings of all lists of a diff have ids of their own.
LEMMA OldIdsDiffer ==
    ASSUME NEW ids, NEW all, NEW r \in Renderings, NEW base, NEW m, IsMatching(m, base, r, ids, all),
           Diffable(m), Sole(base), LevelsDiffer(base)
    PROVE  OldApart(m, r)
<1>0. SUFFICES ASSUME NEW x \in 0..Len(r), NEW y \in 0..Len(r),
                      NEW w \in DOMAIN ListOf(m, x).old, NEW z \in DOMAIN ListOf(m, y).old,
                      ListOf(m, x).old[w].id = ListOf(m, y).old[z].id
               PROVE  x = y /\ w = z
  BY DEF OldApart
<1>1. Len(r) \in Nat /\ DOMAIN r = 1..Len(r) /\ KeysDiffer(r)
  BY RenderingType DEF IsRendered
<1>2. ASSUME NEW u \in 1..Len(r), NEW v \in DOMAIN m.kids[u].old
      PROVE  \E e \in DOMAIN base : base[e].key = r[u].key /\ m.kids[u].old = base[e].kids
  <2>1. m.kids[u].old = IF r[u].key \in m.top.kept THEN NodeWith(base, r[u].key).kids ELSE <<>>
    BY DEF IsMatching
  <2>2. r[u].key \in m.top.kept
    BY <1>2, <2>1
  <2>3. /\ IsBase(base, ids, all) /\ UniqueKeys(base) /\ IsRendered(r)
        /\ r[u].key \in CommonKeys(base, r)
    BY <2>2, RenderingType DEF IsMatching, IsDiff, Diffable
  <2>4. PICK e : IsEntry(base, e, r[u])
    BY <2>3, KeptMatches
  <2>. QED BY <2>1, <2>2, <2>4 DEF IsEntry, Matches
<1>3. m.top.old = base
  BY DEF IsMatching
<1>4. CASE x = 0 /\ y = 0
  BY <1>0, <1>3, <1>4 DEF ListOf, Sole, IdsDiffer
<1>5. CASE x = 0 /\ y # 0
  <2>1. y \in 1..Len(r) /\ ListOf(m, y) = m.kids[y] /\ ListOf(m, x).old = base
    BY <1>1, <1>3, <1>5 DEF ListOf
  <2>2. PICK e \in DOMAIN base : m.kids[y].old = base[e].kids
    BY <1>2, <2>1
  <2>. QED BY <1>0, <2>1, <2>2 DEF LevelsDiffer
<1>6. CASE x # 0 /\ y = 0
  <2>1. x \in 1..Len(r) /\ ListOf(m, x) = m.kids[x] /\ ListOf(m, y).old = base
    BY <1>1, <1>3, <1>6 DEF ListOf
  <2>2. PICK e \in DOMAIN base : m.kids[x].old = base[e].kids
    BY <1>2, <2>1
  <2>. QED BY <1>0, <2>1, <2>2 DEF LevelsDiffer
<1>7. CASE x # 0 /\ y # 0
  <2>1. /\ x \in 1..Len(r) /\ ListOf(m, x) = m.kids[x]
        /\ y \in 1..Len(r) /\ ListOf(m, y) = m.kids[y]
    BY <1>1, <1>7 DEF ListOf
  <2>2. PICK e \in DOMAIN base : base[e].key = r[x].key /\ m.kids[x].old = base[e].kids
    BY <1>2, <2>1
  <2>3. PICK f \in DOMAIN base : base[f].key = r[y].key /\ m.kids[y].old = base[f].kids
    BY <1>2, <2>1
  <2> DEFINE id == base[e].kids[w].id
  <2>4. /\ w \in DOMAIN base[e].kids /\ z \in DOMAIN base[f].kids
        /\ id = base[f].kids[z].id
    BY <1>0, <2>1, <2>2, <2>3
  <2>5. HasKid(base[e], id) /\ HasKid(base[f], id)
    BY <2>4 DEF HasKid
  <2>6. e = f
    BY <2>5 DEF Sole
  <2>7. w = z
    BY <2>4, <2>6 DEF Sole, IdsDiffer
  <2>8. x = y
    BY <1>1, <2>1, <2>2, <2>3, <2>6 DEF KeysDiffer
  <2>. QED BY <2>7, <2>8
<1>. QED BY <1>4, <1>5, <1>6, <1>7

\* What a bound path has got.
IsPassedOn(list, q, z, id) ==
    /\ IsEntry(list.old, z, list.new[q]) /\ id = list.old[z].id
    /\ IsKept(list, q) \/ IsMoved(list.old, list.kept, list.new[q])

\* Every path that a sync begins with has got it.
LEMMA BoundIsPassedOn ==
    ASSUME NEW r \in Renderings, NEW ids, NEW all, NEW m, NEW queue, NEW binding,
           Began(queue, binding, m, r, ids, all), NEW x \in 0..Len(r),
           NEW q \in 1..Len(Sibs(r, x)),
           Path(PathOf(r, x), Sibs(r, x)[q]) \in DOMAIN binding
    PROVE  \E z : IsPassedOn(ListOf(m, x), q, z, binding[Path(PathOf(r, x), Sibs(r, x)[q])])
<1>1. Passed(binding, m, r) /\ IsMatching(m, m.top.old, r, ids, all)
  BY DEF Began
<1>2. ListOf(m, x).new = Sibs(r, x)
  BY <1>1, ListsAre
<1>3. \A c : Path(Root, c) = <<c.key>> /\ \A k : Path(<<k>>, c) = <<k, c.key>>
  BY PathsAre
<1>4. CASE x = 0
  <2>1. ListOf(m, x) = m.top /\ PathOf(r, x) = Root /\ m.top.new = r /\ Sibs(r, x) = r
    BY <1>2, <1>4 DEF ListOf, PathOf, Sibs
  <2>2. q \in 1..Len(r) /\ Path(PathOf(r, x), Sibs(r, x)[q]) = <<r[q].key>>
    <3>1. Path(Root, r[q]) = <<r[q].key>>
      BY <1>3
    <3> HIDE DEF Root
    <3>. QED BY <2>1, <3>1
  <2>3. Stays(m, r, q)
    BY <1>1, <2>2 DEF Passed
  <2>4. PICK z : IsEntry(m.top.old, z, r[q]) /\ binding[<<r[q].key>>] = m.top.old[z].id
    BY <1>1, <2>2, <2>3 DEF Passed
  <2>5. IsPassedOn(m.top, q, z, binding[<<r[q].key>>])
    BY <2>1, <2>3, <2>4 DEF IsPassedOn, Stays, IsKept
  <2>. QED BY <2>1, <2>2, <2>5
<1>5. CASE x # 0
  <2>1. /\ x \in 1..Len(r) /\ ListOf(m, x) = m.kids[x] /\ PathOf(r, x) = <<r[x].key>>
        /\ m.kids[x].new = r[x].kids /\ Sibs(r, x) = r[x].kids
    BY <1>2, <1>5 DEF ListOf, PathOf, Sibs
  <2> DEFINE p == <<r[x].key, r[x].kids[q].key>>
  <2>2. q \in 1..Len(r[x].kids) /\ Path(PathOf(r, x), Sibs(r, x)[q]) = p
    BY <1>3, <2>1
  <2>3. r[x].kids[q].key \in m.kids[x].kept
    BY <1>1, <2>1, <2>2 DEF Passed
  <2>4. PICK z : IsEntry(m.kids[x].old, z, r[x].kids[q]) /\ binding[p] = m.kids[x].old[z].id
    BY <1>1, <2>1, <2>2, <2>3 DEF Passed
  <2>5. IsPassedOn(m.kids[x], q, z, binding[p])
    BY <2>1, <2>3, <2>4 DEF IsPassedOn, IsKept
  <2>. QED BY <2>1, <2>2, <2>5
<1>. QED BY <1>4, <1>5

\* What goes of a list is not what is bound of it.
LEMMA GoneIsUnbound ==
    ASSUME NEW list, NEW q, NEW z, NEW id, IsPassedOn(list, q, z, id), q \in DOMAIN list.new
    PROVE  z \notin Removed(list) /\ z \notin Archived(list)
<1>1. Matches(list.old[z], list.new[q])
  BY DEF IsPassedOn, IsEntry
<1>2. ASSUME z \in Removed(list) PROVE FALSE
  <2>1. list.old[z].kind = "block" /\ list.old[z].key \notin list.kept
    BY <1>2 DEF Removed
  <2>. QED BY <1>1, <2>1 DEF IsPassedOn, IsKept, IsMoved, Matches
<1>3. ASSUME z \in Archived(list) PROVE FALSE
  BY <1>1, <1>3 DEF Archived, ToSet
<1>. QED BY <1>2, <1>3

\* The entry of a sibling that is told a payload.
LEMMA SetsEntry ==
    ASSUME NEW ids, NEW all, NEW list, IsBase(list.old, ids, all), IsRendered(list.new),
           UniqueKeys(list.old), list.kept \subseteq CommonKeys(list.old, list.new),
           NEW i \in 1..Len(list.new), i \in Drifted(list) \/ IsKept(list, i)
    PROVE  \E w : IsEntry(list.old, w, list.new[i])
<1>1. list.new[i].key \in CommonKeys(list.old, list.new)
  <2>1. CASE IsKept(list, i)
    BY <2>1 DEF IsKept
  <2>2. CASE i \in Drifted(list)
    <3>1. PICK b \in ToSet(list.old) : Matches(b, list.new[i])
      BY <2>2 DEF Drifted
    <3>2. DOMAIN list.new = 1..Len(list.new)
      BY DEF IsRendered
    <3>3. b.key = list.new[i].key /\ list.new[i] \in ToSet(list.new)
      BY <3>1, <3>2 DEF Matches, ToSet
    <3>. QED BY <3>1, <3>3 DEF CommonKeys
  <2>. QED BY <2>1, <2>2
<1>. QED BY <1>1, KeptMatches

\* So it is when a sync begins.
LEMMA BeganApt ==
    ASSUME NEW r \in Renderings, NEW ids, NEW all, NEW m, NEW queue, NEW binding,
           Began(queue, binding, m, r, ids, all), Diffable(m),
           Sole(m.top.old), LevelsDiffer(m.top.old)
    PROVE  Apt(queue, binding, r)
<1>1. IsMatching(m, m.top.old, r, ids, all) /\ DOMAIN binding \subseteq Paths(r)
  BY DEF Began, Passed
<1>2. SUFFICES ASSUME NEW l \in 1..Len(queue), NEW p \in DOMAIN binding
               PROVE  /\ Clearing(queue[l]) => binding[p] # queue[l].id
                      /\ queue[l].op \in {"update", "rename"} /\ binding[p] = queue[l].id
                            => NodeAt(r, p).hash = queue[l].hash
  BY DEF Apt
<1>3. PICK y \in 0..Len(r) : \E q \in 1..Len(Sibs(r, y)) : p = Path(PathOf(r, y), Sibs(r, y)[q])
  BY <1>1, ListsCover
<1>4. PICK q \in 1..Len(Sibs(r, y)) : p = Path(PathOf(r, y), Sibs(r, y)[q])
  BY <1>3
<1>5. NodeAt(r, p) = Sibs(r, y)[q]
  BY <1>4, ListsCover
<1>6. PICK z : IsPassedOn(ListOf(m, y), q, z, binding[p])
  BY <1>4, BoundIsPassedOn
<1> DEFINE mine == ListOf(m, y)
<1>7. z \in DOMAIN mine.old /\ mine.old[z].key = mine.new[q].key /\ binding[p] = mine.old[z].id
  BY <1>6 DEF IsPassedOn, IsEntry, Matches
<1>8. ASSUME NEW x \in 0..Len(r), NEW i \in DOMAIN ListOf(m, x).old, binding[p] = ListOf(m, x).old[i].id
      PROVE  x = y /\ i = z
  <2>1. ListOf(m, x).old[i].id = ListOf(m, y).old[z].id /\ z \in DOMAIN ListOf(m, y).old
    BY <1>7, <1>8
  <2>2. OldApart(m, r)
    BY <1>1, OldIdsDiffer
  <2>. QED BY <2>1, <2>2 DEF OldApart
<1>9. ASSUME NEW x \in 0..Len(r)
      PROVE  /\ ListOf(m, x).new = Sibs(r, x)
             /\ DOMAIN ListOf(m, x).new = 1..Len(ListOf(m, x).new) /\ KeysDiffer(ListOf(m, x).new)
             /\ \A i \in 1..Len(ListOf(m, x).new) :
                    i \in Drifted(ListOf(m, x)) \/ IsKept(ListOf(m, x), i) =>
                        \E w : IsEntry(ListOf(m, x).old, w, ListOf(m, x).new[i])
  <2> DEFINE list == ListOf(m, x)
  <2>1. list.new = Sibs(r, x) /\ IsDiff(list, PathOf(r, x), r, ids, all)
    BY <1>1, ListsAre
  <2>2. UniqueKeys(list.old)
    <3>1. x # 0 => x \in DOMAIN m.kids
      BY <1>1 DEF IsMatching
    <3>. QED BY <3>1 DEF Diffable, ListOf
  <2> HIDE DEF list
  <2>3. /\ IsBase(list.old, ids, all) /\ IsRendered(list.new)
        /\ list.kept \subseteq CommonKeys(list.old, list.new)
    BY <2>1 DEF IsDiff
  <2>4. DOMAIN list.new = 1..Len(list.new) /\ KeysDiffer(list.new)
    BY <2>3 DEF IsRendered
  <2>5. \A i \in 1..Len(list.new) : i \in Drifted(list) \/ IsKept(list, i) =>
                \E w : IsEntry(list.old, w, list.new[i])
    BY <2>2, <2>3, SetsEntry
  <2>. QED BY <2>1, <2>4, <2>5 DEF list
<1>10. q \in DOMAIN mine.new /\ mine.new[q] = Sibs(r, y)[q]
  BY <1>9
<1>11. \A x \in 0..Len(r) : \A i \in Removed(ListOf(m, x)) : binding[p] # ListOf(m, x).old[i].id
  <2>1. SUFFICES ASSUME NEW x \in 0..Len(r), NEW i \in Removed(ListOf(m, x)),
                        binding[p] = ListOf(m, x).old[i].id
                 PROVE  FALSE
    OBVIOUS
  <2>2. x = y /\ i = z
    BY <1>8, <2>1 DEF Removed
  <2>. QED BY <1>6, <1>10, <2>1, <2>2, GoneIsUnbound
<1>12. \A i \in Archived(m.top) : binding[p] # m.top.old[i].id
  <2>1. SUFFICES ASSUME NEW i \in Archived(m.top), binding[p] = m.top.old[i].id PROVE FALSE
    OBVIOUS
  <2>2. m.top = ListOf(m, 0) /\ 0 \in 0..Len(r)
    BY RenderingType DEF ListOf, IsRendered
  <2>3. 0 = y /\ i = z
    BY <1>8, <2>1, <2>2 DEF Archived
  <2>. QED BY <1>6, <1>10, <2>1, <2>2, <2>3, GoneIsUnbound
<1>13. ASSUME NEW x \in 0..Len(r), NEW i \in 1..Len(ListOf(m, x).new),
              i \in Drifted(ListOf(m, x)) \/ IsKept(ListOf(m, x), i),
              binding[p] = NodeWith(ListOf(m, x).old, ListOf(m, x).new[i].key).id
       PROVE  NodeAt(r, p).hash = ListOf(m, x).new[i].hash
  <2>1. PICK w : IsEntry(ListOf(m, x).old, w, ListOf(m, x).new[i])
    BY <1>9, <1>13
  <2>2. /\ w \in DOMAIN ListOf(m, x).old /\ binding[p] = ListOf(m, x).old[w].id
        /\ ListOf(m, x).old[w].key = ListOf(m, x).new[i].key
    BY <1>13, <2>1 DEF IsEntry, Matches
  <2>3. x = y /\ w = z
    BY <1>8, <2>2
  <2>4. mine.new[i].key = mine.new[q].key
    BY <1>7, <2>2, <2>3
  <2>5. KeysDiffer(mine.new) /\ i \in DOMAIN mine.new
    BY <1>9, <2>3
  <2>6. i = q
    BY <1>10, <2>4, <2>5 DEF KeysDiffer
  <2>. QED BY <1>5, <1>10, <2>3, <2>6
<1> HIDE DEF mine
<1>14. \A x \in 0..Len(r) : \A i \in Acting(ListOf(m, x)) :
            SiblingOp(PathOf(r, x), ListOf(m, x), i).op
                \in {"update", "move", "create", "append", "insert"}
  BY SiblingOpMakes
<1>15. ASSUME NEW o, o = queue[l], o.op # "append"
       PROVE  PlanAsks(o, m, r)
  BY <1>15, BeganAsks
<1>16. ASSUME Clearing(queue[l]) PROVE binding[p] # queue[l].id
  <2> DEFINE o == queue[l]
  <2>1. o.op \in {"remove", "archive"}
    BY <1>16 DEF Clearing
  <2>2. PlanAsks(o, m, r)
    BY <1>15, <2>1
  <2> HIDE DEF o
  <2>3. CASE \E x \in 0..Len(r) : ListAsks(o, PathOf(r, x), ListOf(m, x))
    <3>1. PICK x \in 0..Len(r) : ListAsks(o, PathOf(r, x), ListOf(m, x))
      BY <2>3
    <3>2. PICK i \in Removed(ListOf(m, x)) : o = ClearOp("remove", ListOf(m, x), i)
      BY <1>14, <2>1, <3>1 DEF ListAsks
    <3>. QED BY <1>11, <3>2 DEF ClearOp, o
  <2>4. CASE \E i \in Archived(m.top) : o = ClearOp("archive", m.top, i)
    BY <1>12, <2>4 DEF ClearOp, o
  <2>5. CASE \E i \in Drifted(m.top) : o = RenameOp(m.top, i)
    BY <2>1, <2>5 DEF RenameOp
  <2>. QED BY <2>2, <2>3, <2>4, <2>5 DEF PlanAsks
<1>17. ASSUME queue[l].op \in {"update", "rename"}, binding[p] = queue[l].id
       PROVE  NodeAt(r, p).hash = queue[l].hash
  <2> DEFINE o == queue[l]
  <2>1. PlanAsks(o, m, r)
    BY <1>15, <1>17
  <2>2. o.op \in {"update", "rename"} /\ binding[p] = o.id
    BY <1>17
  <2> HIDE DEF o
  <2>3. CASE \E x \in 0..Len(r) : ListAsks(o, PathOf(r, x), ListOf(m, x))
    <3>1. PICK x \in 0..Len(r) : ListAsks(o, PathOf(r, x), ListOf(m, x))
      BY <2>3
    <3>2. PICK i \in Acting(ListOf(m, x)) : o = SiblingOp(PathOf(r, x), ListOf(m, x), i)
      BY <2>2, <3>1 DEF ListAsks, ClearOp
    <3>3. i \in 1..Len(ListOf(m, x).new)
      BY <1>9, <3>2 DEF Acting
    <3>4. /\ IsKept(ListOf(m, x), i) /\ o.hash = ListOf(m, x).new[i].hash
          /\ o.id = NodeWith(ListOf(m, x).old, ListOf(m, x).new[i].key).id
      BY <2>2, <3>2, ZenonT(40) DEF SiblingOp, NewOp
    <3>. QED BY <1>13, <2>2, <3>3, <3>4 DEF o
  <2>4. CASE \E i \in Archived(m.top) : o = ClearOp("archive", m.top, i)
    BY <2>2, <2>4 DEF ClearOp
  <2>5. CASE \E i \in Drifted(m.top) : o = RenameOp(m.top, i)
    <3>1. PICK i \in Drifted(m.top) : o = RenameOp(m.top, i)
      BY <2>5
    <3>2. m.top = ListOf(m, 0) /\ 0 \in 0..Len(r)
      BY RenderingType DEF ListOf, IsRendered
    <3>3. i \in 1..Len(m.top.new)
      BY <1>9, <3>2 DEF Drifted
    <3>4. o.hash = m.top.new[i].hash /\ o.id = NodeWith(m.top.old, m.top.new[i].key).id
      BY <3>1 DEF RenameOp
    <3>. QED BY <1>13, <2>2, <3>2, <3>3, <3>4 DEF o
  <2>. QED BY <2>1, <2>3, <2>4, <2>5 DEF PlanAsks
<1>. QED BY <1>16, <1>17

----------------------------------------------------------------------------
(* The next call *)

\* What is prepared for the call that comes next.
IsNext(call, r) ==
    /\ call \in PlanCalls(r, Minted, Live)
    /\ \A p \in ToSet(Created(call)) : p \notin DOMAIN bound
    /\ \A p \in ToSet(Created(call)) : NodeAt(r, p).kind = "page" <=> call.op = "create"
    /\ \A x \in 0..Len(r) : ToFit(call, x, r, tidy) =>
            Fitting(call, PathOf(r, x), Sibs(r, x), bound, calls, 1)

\* It is so for the first of the calls that are left.
LEMMA HeadIsNext ==
    ASSUME Types, Calling, Prepared(calls, bound, rendering, tidy)
    PROVE  IsNext(Head(calls), rendering)
<1> DEFINE S == PlanCalls(rendering, Minted, Live)
<1>1. calls \in Seq(S) /\ calls # <<>>
  BY DEF Types, Calling
<1> HIDE DEF S
<1>2. Head(calls) \in S /\ Head(calls) = calls[1] /\ 1 \in 1..Len(calls)
  BY <1>1, TailIs
<1>3. \A p : AtHand(p, bound, calls, 1) <=> p \in DOMAIN bound
  BY DEF AtHand
<1>4. /\ Novel(bound, calls, 1)
      /\ \A p \in ToSet(Created(calls[1])) :
            NodeAt(rendering, p).kind = "page" <=> calls[1].op = "create"
      /\ \A x \in 0..Len(rendering) : ToFit(calls[1], x, rendering, tidy) =>
            Fitting(calls[1], PathOf(rendering, x), Sibs(rendering, x), bound, calls, 1)
  BY <1>2 DEF Prepared
<1>5. \A p \in ToSet(Created(calls[1])) : p \notin DOMAIN bound
  BY <1>3, <1>4 DEF Novel
<1>. QED BY <1>2, <1>4, <1>5 DEF IsNext, S

\* A nested call creates children of one rendered block.
CreatesUnder(call, r, y) ==
    /\ y \in 1..Len(r) /\ call.under = <<r[y].key>>
    /\ \A p \in ToSet(Created(call)) :
        \E k \in 1..Len(r[y].kids) : p = <<r[y].key, r[y].kids[k].key>>

\* That block is rendered, and is no sub-page.
LEMMA NestedCreates ==
    ASSUME NEW r \in Renderings, NEW call, IsNext(call, r), IsNested(call)
    PROVE  \E y : CreatesUnder(call, r, y) /\ r[y].kind = "block"
<1>1. call.op = "append" /\ call.under # Root
  BY DEF IsNested
<1>2. call.under \in Tops(r)
  <2>1. call \in UNION {Appends(r, p) : p \in Tops(r) \cup {Root}}
    BY <1>1 DEF IsNext, PlanCalls, Clears
  <2>. QED BY <1>1, <2>1 DEF Appends
<1>3. PICK y \in 1..Len(r) : call.under = <<r[y].key>>
  BY <1>2, TopsUnfold
<1>4. y \in 0..Len(r) /\ y # 0 /\ PathOf(r, y) = <<r[y].key>> /\ Sibs(r, y) = r[y].kids
  BY RenderingType DEF PathOf, Sibs, IsRendered
<1>5. Fitting(call, PathOf(r, y), Sibs(r, y), bound, calls, 1)
  BY <1>1, <1>3, <1>4 DEF IsNext, ToFit, Spot
<1> DEFINE p == PathOf(r, y)
           cs == Sibs(r, y)
           new == Created(call)
<1>6. PICK i0 : Fits(new, At(call), After(call), i0, p, cs, bound, calls, 1)
  BY <1>5 DEF Fitting
<1>7. DOMAIN new = 1..Len(new)
  BY CreatedType DEF IsNext
<1> HIDE DEF p, cs, new
<1>8. /\ i0 \in Nat \ {0} /\ Len(new) \in Nat \ {0} /\ i0 + Len(new) - 1 <= Len(cs)
      /\ \A j \in 1..Len(new) : new[j] = Path(p, cs[i0 + j - 1])
  BY <1>6 DEF Fits
<1>9. Len(cs) \in Nat /\ DOMAIN cs = 1..Len(cs) /\ cs \in Seq(Leaves)
  BY <1>4, RenderingType DEF cs
<1>10. ASSUME NEW q \in ToSet(new)
       PROVE  \E k \in 1..Len(cs) : q = <<r[y].key, cs[k].key>>
  <2>1. PICK j \in 1..Len(new) : q = new[j]
    BY <1>7 DEF ToSet
  <2> DEFINE k == i0 + j - 1
  <2>2. k \in 1..Len(cs) /\ q = Path(p, cs[k])
    BY <1>8, <1>9, <2>1
  <2> HIDE DEF k
  <2>3. Path(<<r[y].key>>, cs[k]) = <<r[y].key, cs[k].key>>
    BY PathsAre
  <2>. QED BY <1>4, <2>2, <2>3 DEF p
<1>11. r[y].kind = "block"
  <2>1. r[y] \in Nodes /\ r[y].kids = cs
    BY <1>4, RenderingType DEF IsRendered, cs
  <2>2. Len(cs) # 0
    BY <1>8, <1>9
  <2>3. cs # <<>>
    BY <2>2
  <2>. QED BY <2>1, <2>3 DEF Nodes
<1>12. CreatesUnder(call, r, y)
  BY <1>3, <1>4, <1>10 DEF CreatesUnder, cs, new
<1>. QED BY <1>11, <1>12

\* Children are bound when their parents are.
Rooted(binding, r) ==
    \A x \in 1..Len(r) : \A q \in 1..Len(r[x].kids) :
        <<r[x].key, r[x].kids[q].key>> \in DOMAIN binding => <<r[x].key>> \in DOMAIN binding

\* It stays so when the next call lands.
LEMMA RootedGoesOn ==
    ASSUME Types, InTurn, Calling, IsNext(Head(calls), rendering), Rooted(bound, rendering), NEW first
    PROVE  Rooted(Binds(Head(calls), first), rendering)
<1> DEFINE call == Head(calls)
           b == Binds(call, first)
           r == rendering
<1>1. DOMAIN b = ToSet(Created(call)) \cup DOMAIN bound
  BY BindsIs
<1>2. r \in Renderings /\ call \in PlanCalls(r, Minted, Live)
  BY DEF Types, IsNext
<1>3. SUFFICES ASSUME NEW x \in 1..Len(r), NEW q \in 1..Len(r[x].kids),
                      <<r[x].key, r[x].kids[q].key>> \in DOMAIN b
               PROVE  <<r[x].key>> \in DOMAIN b
  BY DEF Rooted
<1> HIDE DEF b, call, r
<1>4. CASE <<r[x].key, r[x].kids[q].key>> \in DOMAIN bound
  BY <1>1, <1>4 DEF Rooted, r
<1>5. CASE <<r[x].key, r[x].kids[q].key>> \in ToSet(Created(call))
  <2>1. <<r[x].key, r[x].kids[q].key>> \notin Tops(r)
    BY <1>2, TopsUnfold
  <2>2. IsNested(call)
    BY <1>2, <1>5, <2>1, CreatedOnLevel
  <2>3. PICK y : CreatesUnder(call, r, y)
    BY <1>2, <2>2, NestedCreates DEF call, r
  <2>4. PICK k \in 1..Len(r[y].kids) : <<r[x].key, r[x].kids[q].key>> = <<r[y].key, r[y].kids[k].key>>
    BY <1>5, <2>3 DEF CreatesUnder
  <2>5. call.under = <<r[x].key>>
    BY <2>3, <2>4 DEF CreatesUnder
  <2>6. call.under \in DOMAIN bound
    BY <2>2, ParentIsBound DEF call
  <2>. QED BY <1>1, <2>5, <2>6
<1>. QED BY <1>1, <1>3, <1>4, <1>5

\* What the calls behind it remove and set has nothing to do with new ids.
LEMMA AptGoesOn ==
    ASSUME Types, Calling, NEW first \in Nat, first >= nextId, Apt(calls, bound, rendering)
    PROVE  Apt(Tail(calls), Binds(Head(calls), first), rendering)
<1> DEFINE call == Head(calls)
           list == Tail(calls)
           b == Binds(call, first)
           S == PlanCalls(rendering, Minted, Live)
<1>1. /\ calls \in Seq(S) /\ calls # <<>> /\ nextId \in Nat \ {0} /\ Foreign \cap Nat = {}
      /\ rendering \in Renderings
  BY PageAssumption DEF Types, Calling, ConstantsAssumption
<1>2. /\ DOMAIN b = ToSet(Created(call)) \cup DOMAIN bound
      /\ \A p \in ToSet(Created(call)) : \E k \in DOMAIN Created(call) : b[p] = first + k - 1
      /\ \A p \in DOMAIN bound \ ToSet(Created(call)) : b[p] = bound[p]
  BY BindsIs
<1>3. call \in S /\ \A k \in 1..Len(list) : k + 1 \in 1..Len(calls) /\ list[k] = calls[k + 1]
  <2>0. \A s \in Seq(S) : s # <<>> =>
            Head(s) \in S /\ \A k \in 1..Len(Tail(s)) : k + 1 \in 1..Len(s) /\ Tail(s)[k] = s[k + 1]
    <3> SUFFICES ASSUME NEW s \in Seq(S), s # <<>>
                 PROVE Head(s) \in S /\ \A k \in 1..Len(Tail(s)) : k + 1 \in 1..Len(s) /\ Tail(s)[k] = s[k + 1]
      OBVIOUS
    <3> HIDE DEF S
    <3>1. /\ Head(s) \in S /\ Len(s) \in Nat \ {0} /\ Len(Tail(s)) = Len(s) - 1
          /\ \A k \in 1..(Len(s) - 1) : Tail(s)[k] = s[k + 1]
      BY TailIs
    <3>. QED BY <3>1
  <2>. QED BY <1>1, <2>0
<1>4. \A k \in 1..Len(calls) : calls[k] \in S
  <2> HIDE DEF S
  <2>. QED BY <1>1
<1>5. DOMAIN Created(call) \subseteq Nat \ {0}
  <2>1. Created(call) \in Seq(Paths(rendering))
    BY <1>1, <1>3, CreatedType
  <2>. QED BY <2>1
<1> HIDE DEF call, list, b, S
<1>6. \A p \in ToSet(Created(call)) : b[p] \in Nat /\ b[p] >= nextId
  <2>1. \A k \in Nat \ {0} : first + k - 1 \in Nat /\ first + k - 1 >= nextId
    BY <1>1
  <2>. QED BY <1>2, <1>5, <2>1
<1>7. ASSUME NEW l \in 1..Len(list), NEW p \in DOMAIN b
      PROVE  /\ Clearing(list[l]) => b[p] # list[l].id
             /\ list[l].op \in {"update", "rename"} /\ b[p] = list[l].id
                    => NodeAt(rendering, p).hash = list[l].hash
  <2> DEFINE o == calls[l + 1]
  <2>1. list[l] = o /\ l + 1 \in 1..Len(calls) /\ o \in S
    BY <1>3, <1>4
  <2>2. /\ Clearing(o) => bound[p] # o.id \/ p \notin DOMAIN bound
        /\ o.op \in {"update", "rename"} /\ p \in DOMAIN bound /\ bound[p] = o.id
                => NodeAt(rendering, p).hash = o.hash
    BY <2>1 DEF Apt
  <2> HIDE DEF o
  <2>3. CASE p \in ToSet(Created(call))
    <3>1. Clearing(o) => o.id \in Live
      BY <2>1 DEF S, PlanCalls, Clears, Appends, Clearing
    <3>2. o.op \in {"update", "rename"} => o.id \in Minted
      BY <2>1 DEF S, PlanCalls, Clears, Appends
    <3>3. b[p] \notin Live /\ b[p] \notin Minted
      BY <1>1, <1>6, <2>3 DEF Live, Minted
    <3>. QED BY <2>1, <3>1, <3>2, <3>3
  <2>4. CASE p \notin ToSet(Created(call))
    <3>1. p \in DOMAIN bound /\ b[p] = bound[p]
      BY <1>2, <1>7, <2>4
    <3>. QED BY <2>1, <2>2, <3>1
  <2>. QED BY <2>3, <2>4
<1>8. Apt(list, b, rendering)
  BY <1>7 DEF Apt
<1>. QED BY <1>8 DEF list, b, call

----------------------------------------------------------------------------
(* The working cache grows into what is rendered *)

\* The block at place x of the rendering is there, with its payload or one to come, and
\* its children are aligned.
Growing(tree, queue, binding, r, x) ==
    \E j \in 1..Len(tree) :
        /\ tree[j].id = binding[PathOf(r, x)]
        /\ tree[j].hash = r[x].hash \/ <<tree[j].id, r[x].hash>> \in Renewing(queue, x)
        /\ Aligned(tree[j].kids, PathOf(r, x), Sibs(r, x), binding,
                   Going(queue, x), Renewing(queue, x))

AllGrow(tree, queue, binding, r) ==
    \A x \in 1..Len(r) : r[x].kind = "block" /\ PathOf(r, x) \in DOMAIN binding =>
        Growing(tree, queue, binding, r, x)

\* Nothing is aligned with what has no ids yet.
LEMMA AlignedEmpty ==
    ASSUME NEW p, NEW cs, NEW binding, NEW going, NEW fresh,
           \A q \in 1..Len(cs) : Path(p, cs[q]) \notin DOMAIN binding
    PROVE  Aligned(<<>>, p, cs, binding, going, fresh)
<1>1. IsAligned(<<>>, <<>>, p, cs, binding, going, fresh)
  BY DEF IsAligned
<1>. QED BY <1>1 DEF Aligned

\* A call that creates nothing of a list leaves its bindings.
LEMMA AlikeBeside ==
    ASSUME NEW p, NEW cs, NEW binding, NEW other, NEW new, NEW first,
           IsBound(other, binding, new, first),
           \A q \in 1..Len(cs) : Path(p, cs[q]) \notin ToSet(new)
    PROVE  BoundAlike(p, cs, binding, other)
BY DEF IsBound, BoundAlike

\* What a call that fits creates is a run of what is rendered.
LEMMA NewIsRun ==
    ASSUME NEW r \in Renderings, NEW x \in 0..Len(r), NEW paths, NEW at, NEW after, NEW i0,
           NEW binding, NEW queue, NEW l,
           Fits(paths, at, after, i0, PathOf(r, x), Sibs(r, x), binding, queue, l),
           NEW new, Len(new) = Len(paths), NEW first,
           \A k \in 1..Len(new) : LET n == NodeAt(r, paths[k])
                                  IN  new[k].id = first + k - 1 /\ new[k].kind = n.kind
                                      /\ new[k].hash = n.hash
    PROVE  IsRun(new, i0, Sibs(r, x), first)
<1> DEFINE cs == Sibs(r, x)
           p == PathOf(r, x)
<1>1. \A i \in 1..Len(cs) : NodeAt(r, Path(p, cs[i])) = cs[i]
  BY ListsCover
<1>2. Len(cs) \in Nat
  BY ListsCover DEF IsRendered
<1> HIDE DEF cs, p
<1>3. ASSUME NEW k \in 1..Len(new)
      PROVE  NodeAt(r, paths[k]) = cs[i0 + k - 1]
  <2>1. /\ i0 \in Nat \ {0} /\ Len(paths) \in Nat \ {0} /\ i0 + Len(paths) - 1 <= Len(cs)
        /\ \A j \in 1..Len(paths) : paths[j] = Path(p, cs[i0 + j - 1])
    BY DEF Fits, cs, p
  <2>2. i0 + k - 1 \in 1..Len(cs) /\ k \in 1..Len(paths)
    BY <1>2, <2>1
  <2>3. paths[k] = Path(p, cs[i0 + k - 1])
    BY <2>1, <2>2
  <2>. QED BY <1>1, <2>2, <2>3
<1>. QED BY <1>3 DEF IsRun, cs

\* A block that an append creates at the top of the working cache.
LEMMA GrowsAnew ==
    ASSUME Types, Calling, Sole(work), IsNext(Head(calls), rendering), Rooted(bound, rendering),
           NEW first \in Nat,
           NEW x \in 1..Len(rendering), rendering[x].kind = "block",
           PathOf(rendering, x) \in ToSet(Created(Head(calls)))
    PROVE  Growing(Recorded(work, Head(calls), first), Tail(calls), Binds(Head(calls), first),
                   rendering, x)
<1> DEFINE call == Head(calls)
           t == Recorded(work, call, first)
           b == Binds(call, first)
           r == rendering
           p == PathOf(r, x)
           cs == Sibs(r, x)
           new == NewEntries(call, first)
<1>1. /\ call \in PlanCalls(r, Minted, Live) /\ r \in Renderings
      /\ IsBound(b, bound, Created(call), first)
  BY BindsAre DEF IsNext, Types
<1>2. /\ x # 0 /\ x \in 0..Len(r) /\ 0 \in 0..Len(r) /\ p = <<r[x].key>> /\ cs = r[x].kids
      /\ PathOf(r, 0) = Root /\ Sibs(r, 0) = r
  BY <1>1, RenderingType DEF IsRendered, PathOf, Sibs
<1>3. NodeAt(r, p) = r[x] /\ p \in Tops(r)
  <2>1. \A i \in 1..Len(r) : NodeAt(r, Path(Root, r[i])) = r[i]
    <3> HIDE DEF r, p, cs
    <3>1. \A i \in 1..Len(Sibs(r, 0)) : NodeAt(r, Path(PathOf(r, 0), Sibs(r, 0)[i])) = Sibs(r, 0)[i]
      BY <1>1, <1>2, ListsCover
    <3>. QED BY <1>2, <3>1
  <2>2. Path(Root, r[x]) = p
    BY <1>2, PathsAre
  <2>3. NodeAt(r, Path(Root, r[x])) = r[x]
    BY <2>1
  <2>. QED BY <1>1, <1>2, <2>2, <2>3, TopsUnfold
<1>4. call.op = "append" /\ ~IsNested(call)
  <2>1. call.op # "create"
    BY <1>3 DEF IsNext
  <2>2. call.op \in {"append", "create"}
    BY DEF Created, ToSet
  <2>. QED BY <1>1, <1>3, <2>1, <2>2, CreatedOnLevel
<1>5. t = Placed(work, new, call.at, Anchor(call))
  <2>1. Parent(call) = Page
    BY <1>4 DEF IsNested, Parent
  <2>2. IdsDiffer(work)
    BY DEF Sole
  <2>. QED BY <1>1, <1>4, <2>1, <2>2, RecordedIs
<1>6. /\ new \in Seq(LeafEntries(Nat)) /\ Len(new) = Len(call.nodes) /\ Created(call) = call.nodes
      /\ DOMAIN call.nodes = 1..Len(call.nodes) /\ Len(call.nodes) \in Nat
      /\ \A k \in 1..Len(call.nodes) : new[k] = Entry(NodeAt(r, call.nodes[k]), first + k - 1)
  BY <1>1, <1>4, NewNodesAre DEF Created
<1>7. PICK k \in 1..Len(call.nodes) : call.nodes[k] = p /\ b[p] = first + k - 1
  BY <1>1, <1>6 DEF IsBound
<1>8. new[k].id = b[p] /\ new[k].hash = r[x].hash /\ new[k].kids = <<>>
  <2>1. new[k] = Entry(r[x], b[p])
    BY <1>3, <1>6, <1>7
  <2>. QED BY <2>1 DEF Entry
<1>9. PICK cut : IsPlacing(t, cut, work, new)
  <2>1. work \in Seq(NodeEntries(Nat)) /\ new \in Seq(NodeEntries(Nat))
    <3>1. Minted \subseteq Nat
      BY DEF Minted, Types
    <3>2. work \in Seq(NodeEntries(Nat))
      BY <3>1, MoreNodes DEF Types
    <3>3. LeafEntries(Nat) \subseteq NodeEntries(Nat)
      BY EntriesAreNodes DEF NodeEntries
    <3>. QED BY <1>6, <3>2, <3>3, SeqSubset
  <2>2. IsPlaced(Placed(work, new, call.at, Anchor(call)), work, new, call.at, Anchor(call))
    <3> HIDE DEF new
    <3>. QED BY <2>1, PlacedIs
  <2>. QED BY <1>5, <2>2 DEF IsPlaced
<1>10. cut + k \in 1..Len(t) /\ t[cut + k] = new[k]
  <2> HIDE DEF t, new, call, p, cs, b
  <2>. QED BY <1>6, <1>9 DEF IsPlacing
<1>11. \A q \in 1..Len(cs) : Path(p, cs[q]) \notin DOMAIN b
  <2>1. SUFFICES ASSUME NEW q \in 1..Len(cs), Path(p, cs[q]) \in DOMAIN b PROVE FALSE
    OBVIOUS
  <2>2. Path(p, cs[q]) = <<r[x].key, r[x].kids[q].key>>
    BY <1>2, PathsAre
  <2>3. Path(p, cs[q]) \notin Tops(r)
    BY <1>1, <1>2, <2>2, TopsUnfold
  <2>4. Path(p, cs[q]) \notin ToSet(Created(call))
    BY <1>1, <1>4, <2>3, CreatedOnLevel
  <2>5. Path(p, cs[q]) \in DOMAIN bound
    BY <1>1, <2>1, <2>4 DEF IsBound
  <2>6. p \in DOMAIN bound
    BY <1>2, <2>2, <2>5 DEF Rooted
  <2>. QED BY <2>6 DEF IsNext
<1> HIDE DEF t, new, call, p, cs, b, r
<1>12. Aligned(t[cut + k].kids, p, cs, b, Going(Tail(calls), x), Renewing(Tail(calls), x))
  BY <1>8, <1>10, <1>11, AlignedEmpty
<1>13. Growing(t, Tail(calls), b, r, x)
  BY <1>8, <1>10, <1>12 DEF Growing, p, cs
<1>. QED BY <1>13 DEF t, b, call, r

\* A node that grows into the block at place x of the rendering.
Grows(e, queue, binding, r, x) ==
    /\ e.id = binding[PathOf(r, x)]
    /\ e.hash = r[x].hash \/ <<e.id, r[x].hash>> \in Renewing(queue, x)
    /\ Aligned(e.kids, PathOf(r, x), Sibs(r, x), binding, Going(queue, x), Renewing(queue, x))

\* A call that creates nothing under x leaves the bindings of its children.
LEMMA KidsBeside ==
    ASSUME Types, IsNext(Head(calls), rendering), NEW first, NEW x \in 1..Len(rendering),
           IsNested(Head(calls)) => Head(calls).under # PathOf(rendering, x)
    PROVE  BoundAlike(PathOf(rendering, x), Sibs(rendering, x), bound, Binds(Head(calls), first))
<1> DEFINE call == Head(calls)
           r == rendering
           p == PathOf(r, x)
           cs == Sibs(r, x)
<1>1. /\ r \in Renderings /\ call \in PlanCalls(r, Minted, Live)
      /\ IsBound(Binds(call, first), bound, Created(call), first)
  BY BindsAre DEF Types, IsNext
<1>2. p = <<r[x].key>> /\ cs = r[x].kids
  BY <1>1, RenderingType DEF IsRendered, PathOf, Sibs
<1>3. ASSUME NEW q \in 1..Len(cs), Path(p, cs[q]) \in ToSet(Created(call)) PROVE FALSE
  <2>1. Path(p, cs[q]) = <<r[x].key, r[x].kids[q].key>>
    BY <1>2, PathsAre
  <2>2. Path(p, cs[q]) \notin Tops(r)
    BY <1>1, <1>2, <2>1, TopsUnfold
  <2>3. IsNested(call)
    BY <1>1, <1>3, <2>2, CreatedOnLevel
  <2>4. PICK y : CreatesUnder(call, r, y)
    BY <1>1, <2>3, NestedCreates
  <2>5. PICK k \in 1..Len(r[y].kids) : Path(p, cs[q]) = <<r[y].key, r[y].kids[k].key>>
    BY <1>3, <2>4 DEF CreatesUnder
  <2>6. r[y].key = r[x].key
    BY <2>1, <2>5
  <2>. QED BY <1>2, <2>3, <2>4, <2>6 DEF CreatesUnder
<1> HIDE DEF call, r, p, cs
<1>4. BoundAlike(p, cs, bound, Binds(call, first))
  BY <1>1, <1>3, AlikeBeside
<1>. QED BY <1>4 DEF call, r, p, cs

\* What is bound stays bound to its id.
LEMMA StaysBound ==
    ASSUME NEW call, NEW r, IsNext(call, r), NEW first, NEW p \in DOMAIN bound
    PROVE  Binds(call, first)[p] = bound[p] /\ p \in DOMAIN Binds(call, first)
<1>1. IsBound(Binds(call, first), bound, Created(call), first)
  BY BindsAre
<1>2. p \in DOMAIN bound \ ToSet(Created(call))
  BY DEF IsNext
<1>. QED BY <1>1, <1>2 DEF IsBound

\* A node that a call leaves alone.
LEMMA GrowsBeside ==
    ASSUME Types, Calling, IsNext(Head(calls), rendering), NEW first, NEW x \in 1..Len(rendering),
           IsNested(Head(calls)) => Head(calls).under # PathOf(rendering, x),
           Head(calls).op \notin {"update", "remove"}, NEW e,
           PathOf(rendering, x) \in DOMAIN bound, Grows(e, calls, bound, rendering, x)
    PROVE  Grows(e, Tail(calls), Binds(Head(calls), first), rendering, x)
<1> DEFINE p == PathOf(rendering, x)
           cs == Sibs(rendering, x)
           b == Binds(Head(calls), first)
<1>1. x # 0
  BY RenderingType DEF Types, IsRendered
<1>2. /\ Going(calls, x) \subseteq Going(Tail(calls), x)
      /\ Renewing(calls, x) \subseteq Renewing(Tail(calls), x)
  BY <1>1, LeftToDo DEF Types, Calling, RemovesFrom, SetsIn
<1>3. BoundAlike(p, cs, bound, b)
  BY KidsBeside
<1>4. b[p] = bound[p]
  BY StaysBound
<1>5. Aligned(e.kids, p, cs, bound, Going(calls, x), Renewing(calls, x))
  BY DEF Grows
<1> HIDE DEF p, cs, b
<1>6. Aligned(e.kids, p, cs, b, Going(Tail(calls), x), Renewing(Tail(calls), x))
  BY <1>2, <1>3, <1>5, AlignedStays
<1>. QED BY <1>2, <1>4, <1>6 DEF Grows, p, cs, b

\* A node that takes what is next of its children.
LEMMA GrowsUnder ==
    ASSUME Types, Calling, IsNext(Head(calls), rendering), NEW first \in Nat,
           NEW x \in 1..Len(rendering),
           IsNested(Head(calls)), Head(calls).under = PathOf(rendering, x), NEW e, NEW L, NEW grown,
           e.kids \in Seq(L), IdsDiffer(e.kids), NewEntries(Head(calls), first) \in Seq(L),
           PathOf(rendering, x) \in DOMAIN bound, Grows(e, calls, bound, rendering, x),
           grown.id = e.id, grown.hash = e.hash,
           grown.kids = Placed(e.kids, NewEntries(Head(calls), first),
                               Head(calls).at, Anchor(Head(calls)))
    PROVE  Grows(grown, Tail(calls), Binds(Head(calls), first), rendering, x)
<1> DEFINE call == Head(calls)
           r == rendering
           p == PathOf(r, x)
           cs == Sibs(r, x)
           b == Binds(call, first)
           new == NewEntries(call, first)
           list == e.kids
           t == Placed(list, new, call.at, Anchor(call))
<1>1. /\ x # 0 /\ x \in 0..Len(r) /\ r \in Renderings /\ call \in PlanCalls(r, Minted, Live)
      /\ call.op = "append"
  BY RenderingType DEF Types, IsRendered, IsNested, IsNext
<1>2. /\ Going(calls, x) \subseteq Going(Tail(calls), x)
      /\ Renewing(calls, x) \subseteq Renewing(Tail(calls), x)
  BY <1>1, LeftToDo DEF Types, Calling, RemovesFrom, SetsIn
<1>3. b[p] = bound[p] /\ IsBound(b, bound, Created(call), first)
  BY StaysBound, BindsAre
<1>4. Aligned(list, p, cs, bound, Going(calls, x), Renewing(calls, x))
  BY DEF Grows
<1>5. IsRendered(cs) /\ IsParent(p)
  BY <1>1, ListsCover
<1>6. /\ Len(new) = Len(call.nodes) /\ Created(call) = call.nodes
      /\ DOMAIN call.nodes = 1..Len(call.nodes) /\ Len(call.nodes) \in Nat
      /\ \A k \in 1..Len(call.nodes) : new[k] = Entry(NodeAt(r, call.nodes[k]), first + k - 1)
  BY <1>1, NewNodesAre DEF Created
<1>7. Fitting(call, p, cs, bound, calls, 1)
  BY <1>1 DEF IsNext, ToFit, Spot
<1>8. At(call) = call.at /\ After(call) = call.after
  BY <1>1 DEF At, After
<1>9. PICK i0 : Fits(call.nodes, call.at, call.after, i0, p, cs, bound, calls, 1)
  BY <1>6, <1>7, <1>8 DEF Fitting
<1>10. call.at = "after" => Anchor(call) = bound[call.after]
  BY DEF Anchor
<1>11. IsRun(new, i0, cs, first)
  <2>1. \A k \in 1..Len(new) : LET n == NodeAt(r, call.nodes[k])
                               IN  new[k].id = first + k - 1 /\ new[k].kind = n.kind
                                   /\ new[k].hash = n.hash
    <3>1. SUFFICES ASSUME NEW k \in 1..Len(new)
                   PROVE  LET n == NodeAt(r, call.nodes[k])
                          IN  new[k].id = first + k - 1 /\ new[k].kind = n.kind
                              /\ new[k].hash = n.hash
      OBVIOUS
    <3>2. new[k] = Entry(NodeAt(r, call.nodes[k]), first + k - 1)
      BY <1>6
    <3> HIDE DEF new, call, r
    <3>. QED BY <3>2 DEF Entry
  <2>2. Len(new) = Len(call.nodes)
    BY <1>6
  <2> HIDE DEF new, call, r
  <2>. QED BY <1>1, <1>9, <2>1, <2>2, NewIsRun DEF p, cs
<1>12. IsPlaced(t, list, new, call.at, Anchor(call))
  <2> HIDE DEF new
  <2>. QED BY PlacedIs DEF new
<1>13. Len(list) \in Nat /\ DOMAIN list = 1..Len(list)
  OBVIOUS
<1>14. \A q \in ToSet(call.nodes) : q \notin DOMAIN bound
  BY <1>6 DEF IsNext
<1> HIDE DEF p, cs, b, new, list, t, r
<1>15. Aligned(t, p, cs, b, Going(Tail(calls), x), Renewing(Tail(calls), x))
  <2> DEFINE paths == call.nodes
             at == call.at
             after == call.after
             anchor == Anchor(call)
             going == Going(calls, x)
             fresh == Renewing(calls, x)
             going2 == Going(Tail(calls), x)
             fresh2 == Renewing(Tail(calls), x)
  <2>1. /\ Aligned(list, p, cs, bound, going, fresh)
        /\ Len(list) \in Nat /\ DOMAIN list = 1..Len(list) /\ IdsDiffer(list)
        /\ IsRendered(cs) /\ IsParent(p)
        /\ Fits(paths, at, after, i0, p, cs, bound, calls, 1)
        /\ DOMAIN paths = 1..Len(paths) /\ \A q \in ToSet(paths) : q \notin DOMAIN bound
        /\ at = "after" => anchor = bound[after]
        /\ Len(new) = Len(paths) /\ IsRun(new, i0, cs, first)
        /\ IsPlaced(t, list, new, at, anchor) /\ IsBound(b, bound, paths, first)
        /\ going \subseteq going2 /\ fresh \subseteq fresh2
    BY <1>2, <1>3, <1>4, <1>5, <1>6, <1>9, <1>10, <1>11, <1>12, <1>13, <1>14 DEF list
  <2> HIDE DEF paths, at, after, anchor, going, fresh, going2, fresh2
  <2>2. Aligned(t, p, cs, b, going2, fresh2)
    BY <2>1, AlignedGrows
  <2>. QED BY <2>2 DEF going2, fresh2
<1>. QED BY <1>2, <1>3, <1>15 DEF Grows, p, cs, b, t, new, list, r

\* A node of which a payload is set, its own or that of a child.
LEMMA GrowsRenewed ==
    ASSUME Types, Calling, IsNext(Head(calls), rendering), Apt(calls, bound, rendering),
           NEW first, NEW x \in 1..Len(rendering), Head(calls).op = "update", NEW e, NEW grown,
           PathOf(rendering, x) \in DOMAIN bound, Grows(e, calls, bound, rendering, x),
           Renewed(grown, e, Head(calls).id, Head(calls).hash),
           IsReset(grown.kids, e.kids, Head(calls).id, Head(calls).hash)
    PROVE  Grows(grown, Tail(calls), Binds(Head(calls), first), rendering, x)
<1> DEFINE r == rendering
           p == PathOf(r, x)
           cs == Sibs(r, x)
           b == Binds(Head(calls), first)
           id == Head(calls).id
           hash == Head(calls).hash
           going == Going(Tail(calls), x)
           fresh == Renewing(Tail(calls), x)
<1>1. x # 0 /\ x \in 0..Len(r) /\ 0 \in 0..Len(r) /\ r \in Renderings
  BY RenderingType DEF Types, IsRendered
<1>2. Going(calls, x) \subseteq going /\ Renewing(calls, x) \ {<<id, hash>>} \subseteq fresh
  BY <1>1, LeftToDo DEF Types, Calling, RemovesFrom, SetsIn
<1>3. BoundAlike(p, cs, bound, b)
  BY KidsBeside DEF IsNested
<1>4. b[p] = bound[p]
  BY StaysBound
<1>5. Aligned(e.kids, p, cs, bound, Going(calls, x), Renewing(calls, x))
  BY DEF Grows
<1>6. \A q \in DOMAIN bound : bound[q] = id => NodeAt(r, q).hash = hash
  <2>1. 1 \in 1..Len(calls) /\ calls[1] = Head(calls)
    BY TailIs DEF Types, Calling
  <2>. QED BY <2>1 DEF Apt
<1>7. \A q \in 1..Len(cs) : NodeAt(r, Path(p, cs[q])) = cs[q]
  BY <1>1, ListsCover
<1>8. NodeAt(r, p) = r[x]
  <2>1. p = Path(PathOf(r, 0), Sibs(r, 0)[x]) /\ x \in 1..Len(Sibs(r, 0))
    BY <1>1, PathsAre DEF PathOf, Sibs
  <2>2. Sibs(r, 0)[x] = r[x]
    BY DEF Sibs
  <2> HIDE DEF p, r
  <2>. QED BY <1>1, <2>1, <2>2, ListsCover
<1>9. grown.hash = r[x].hash \/ <<grown.id, r[x].hash>> \in fresh
  <2>1. grown.id = e.id /\ grown.hash = IF e.id = id THEN hash ELSE e.hash
    BY DEF Renewed
  <2>2. e.hash = r[x].hash \/ <<e.id, r[x].hash>> \in Renewing(calls, x)
    BY DEF Grows
  <2>3. e.id = id => r[x].hash = hash
    BY <1>6, <1>8 DEF Grows
  <2> HIDE DEF r, id, hash, fresh
  <2>4. CASE e.id = id
    BY <2>1, <2>3, <2>4
  <2>5. CASE e.id # id
    BY <1>2, <2>1, <2>2, <2>5
  <2>. QED BY <2>4, <2>5
<1>10. grown.id = e.id /\ e.id = bound[p]
  BY DEF Renewed, Grows
<1>11. IsReset(grown.kids, e.kids, id, hash)
  OBVIOUS
<1> HIDE DEF r, p, cs, b, id, hash, going, fresh
<1>12. Suits(p, cs, bound, id, hash)
  BY <1>6, <1>7 DEF Suits
<1>13. Aligned(grown.kids, p, cs, b, going, fresh)
  <2> DEFINE list == e.kids
             t == grown.kids
             old == Renewing(calls, x)
             gone == Going(calls, x)
  <2>1. /\ Aligned(list, p, cs, bound, gone, old)
        /\ IsReset(t, list, id, hash)
        /\ gone \subseteq going /\ old \ {<<id, hash>>} \subseteq fresh
    BY <1>2, <1>5, <1>11
  <2> HIDE DEF list, t, old, gone
  <2>2. Aligned(t, p, cs, b, going, fresh)
    BY <1>3, <1>12, <2>1, AlignedRenewed, Zenon
  <2>. QED BY <2>2 DEF t
<1>. QED BY <1>4, <1>9, <1>10, <1>13 DEF Grows, r, p, cs, b, going, fresh

\* A node that may lose a child.
LEMMA GrowsWeeded ==
    ASSUME Types, Calling, IsNext(Head(calls), rendering), Apt(calls, bound, rendering),
           NEW first, NEW x \in 1..Len(rendering), Head(calls).op = "remove", NEW e, NEW grown,
           PathOf(rendering, x) \in DOMAIN bound, Grows(e, calls, bound, rendering, x),
           grown.id = e.id, grown.hash = e.hash,
           NEW pos, IsWeeded(grown.kids, pos, e.kids, Head(calls).id)
    PROVE  Grows(grown, Tail(calls), Binds(Head(calls), first), rendering, x)
<1> DEFINE r == rendering
           p == PathOf(r, x)
           cs == Sibs(r, x)
           b == Binds(Head(calls), first)
           id == Head(calls).id
           going == Going(Tail(calls), x)
           fresh == Renewing(Tail(calls), x)
<1>1. x # 0 /\ x \in 0..Len(r) /\ r \in Renderings
  BY RenderingType DEF Types, IsRendered
<1>2. Going(calls, x) \ {id} \subseteq going /\ Renewing(calls, x) \subseteq fresh
  BY <1>1, LeftToDo DEF Types, Calling, RemovesFrom, SetsIn
<1>3. BoundAlike(p, cs, bound, b)
  BY KidsBeside DEF IsNested
<1>4. b[p] = bound[p]
  BY StaysBound
<1>5. Aligned(e.kids, p, cs, bound, Going(calls, x), Renewing(calls, x))
  BY DEF Grows
<1>6. \A q \in DOMAIN bound : bound[q] # id
  <2>1. 1 \in 1..Len(calls) /\ calls[1] = Head(calls)
    BY TailIs DEF Types, Calling
  <2>. QED BY <2>1 DEF Apt, Clearing
<1>7. Len(cs) \in Nat
  BY <1>1, ListsCover DEF IsRendered
<1>8. /\ grown.id = e.id /\ e.id = bound[p] /\ grown.hash = e.hash
      /\ e.hash = r[x].hash \/ <<e.id, r[x].hash>> \in Renewing(calls, x)
  BY DEF Grows
<1>9. IsWeeded(grown.kids, pos, e.kids, id)
  OBVIOUS
<1> HIDE DEF r, p, cs, b, id, going, fresh
<1>10. \A q \in 1..Len(cs) : Path(p, cs[q]) \in DOMAIN bound => bound[Path(p, cs[q])] # id
  BY <1>6
<1>11. Aligned(grown.kids, p, cs, b, going, fresh)
  BY <1>2, <1>3, <1>5, <1>7, <1>9, <1>10, AlignedWeeded
<1>. QED BY <1>2, <1>4, <1>8, <1>11 DEF Grows, r, p, cs, b, going, fresh

\* The same of a tree: one of its nodes grows.
LEMMA GrowingIs ==
    ASSUME NEW tree, NEW queue, NEW binding, NEW r, NEW x
    PROVE  Growing(tree, queue, binding, r, x)
             <=> \E j \in 1..Len(tree) : Grows(tree[j], queue, binding, r, x)
BY DEF Growing, Grows

\* A list without an id is weeded.
LEMMA SievedWeeds ==
    ASSUME NEW L, NEW list \in Seq(L), NEW id, NEW t, t = Sieved(list, id)
    PROVE  \E pos : IsWeeded(t, pos, list, id)
<1>1. PICK pos : IsPicking(t, pos, list, Others(list, id))
  BY SievedIs
<1>2. IsWeeded(t, pos, list, id)
  <2>1. /\ Len(t) \in Nat /\ pos \in [1..Len(t) -> Others(list, id)]
        /\ \A k \in 1..Len(t) : t[k] = list[pos[k]]
        /\ \A k, l \in 1..Len(t) : k < l => pos[k] < pos[l]
        /\ \A i \in Others(list, id) : \E k \in 1..Len(t) : pos[k] = i
    BY <1>1 DEF IsPicking
  <2>2. DOMAIN list = 1..Len(list) /\ Len(list) \in Nat
    OBVIOUS
  <2>3. Others(list, id) = {i \in 1..Len(list) : list[i].id # id}
    BY <2>2 DEF Others
  <2>. QED BY <2>1, <2>2, <2>3 DEF IsWeeded, IsRising
<1>. QED BY <1>2

\* The children of the page have no parent but the page.
LEMMA NestedInBlock ==
    ASSUME Types, InTurn, Calling, Head(calls).op = "append"
    PROVE  /\ Parent(Head(calls)) = Page <=> ~IsNested(Head(calls))
           /\ IsNested(Head(calls)) => /\ Head(calls).under \in DOMAIN bound
                                       /\ Parent(Head(calls)) = bound[Head(calls).under]
<1>1. CASE ~IsNested(Head(calls))
  BY <1>1 DEF IsNested, Parent
<1>2. CASE IsNested(Head(calls))
  <2>1. Head(calls).under \in DOMAIN bound
    BY <1>2, ParentIsBound
  <2>2. bound[Head(calls).under] \in Minted /\ 0 \notin Minted
    BY <2>1 DEF Types, IsBinding, Minted
  <2>. QED BY <1>2, <2>1, <2>2 DEF IsNested, Parent, Page
<1>. QED BY <1>1, <1>2

\* A block that grows goes on growing when a call is recorded.
LEMMA GrowsOn ==
    ASSUME Types, InTurn, Sole(work), BindsDiffer(bound), Calling, IsNext(Head(calls), rendering),
           Apt(calls, bound, rendering), NEW first \in Nat, NEW x \in 1..Len(rendering),
           PathOf(rendering, x) \in DOMAIN bound, Growing(work, calls, bound, rendering, x)
    PROVE  Growing(Recorded(work, Head(calls), first), Tail(calls), Binds(Head(calls), first),
                   rendering, x)
<1> DEFINE call == Head(calls)
           t == Recorded(work, call, first)
           b == Binds(call, first)
           p == PathOf(rendering, x)
           new == NewEntries(call, first)
           Still(e) == Grows(e, Tail(calls), b, rendering, x)
<1>1. PICK j \in 1..Len(work) : Grows(work[j], calls, bound, rendering, x)
  BY GrowingIs
<1>2. SUFFICES \E i \in 1..Len(t) : Still(t[i])
  BY GrowingIs
<1>3. call \in PlanCalls(rendering, Minted, Live) /\ IdsDiffer(work) /\ rendering \in Renderings
  BY DEF IsNext, Sole, Types
<1>4. work[j].id = bound[p]
  BY <1>1 DEF Grows
<1>5. /\ work \in Seq(NodeEntries(Minted)) /\ Nodal(NodeEntries(Minted), LeafEntries(Minted))
      /\ Len(work) \in Nat /\ DOMAIN work = 1..Len(work)
  BY TreesAreNodal DEF Types, NodeEntries
<1>6. ~IsNested(call) /\ call.op \notin {"update", "remove"} => Still(work[j])
  BY <1>1, GrowsBeside
<1>7. 1 \in 1..Len(calls) /\ calls[1] = call
  BY TailIs DEF Types, Calling
<1>8. CASE /\ call.op = "append" /\ Parent(call) = Page
           /\ t = Placed(work, new, call.at, Anchor(call))
  <2>1. Still(work[j])
    BY <1>6, <1>8, NestedInBlock
  <2>2. work \in Seq(NodeEntries(Nat)) /\ new \in Seq(NodeEntries(Nat))
    <3>1. Minted \subseteq Nat
      BY DEF Minted, Types
    <3>2. new \in Seq(LeafEntries(Nat))
      BY <1>3, <1>8, NewNodesAre
    <3>3. LeafEntries(Nat) \subseteq NodeEntries(Nat)
      BY EntriesAreNodes DEF NodeEntries
    <3>. QED BY <1>5, <3>1, <3>2, <3>3, MoreNodes, SeqSubset
  <2>3. work[j] \in ToSet(t)
    <3> HIDE DEF new, t
    <3>1. work[j] \in ToSet(Placed(work, new, call.at, Anchor(call)))
      BY <2>2, PlacedKeeps
    <3>. QED BY <1>8, <3>1
  <2>4. t \in Seq(NodeEntries(Nat))
    <3> HIDE DEF new, t
    <3>. QED BY <1>8, <2>2, PlacedType
  <2> HIDE DEF t, Still
  <2>. QED BY <2>1, <2>3, <2>4 DEF ToSet
<1>9. CASE /\ call.op = "append" /\ Parent(call) # Page
           /\ t = Grafted(work, Parent(call), new, call.at, Anchor(call))
  <2>1. IsNested(call) /\ call.under \in DOMAIN bound /\ Parent(call) = bound[call.under]
    BY <1>9, NestedInBlock
  <2>2. Len(t) = Len(work) /\ t[j] = IF work[j].id = Parent(call)
                THEN [work[j] EXCEPT !.kids = Placed(work[j].kids, new, call.at, Anchor(call))]
                ELSE work[j]
    <3> HIDE DEF t, new, call
    <3>. QED BY <1>5, <1>9 DEF Grafted
  <2>3. CASE call.under = p
    <3>1. t[j] = [work[j] EXCEPT !.kids = Placed(work[j].kids, new, call.at, Anchor(call))]
      BY <1>4, <2>1, <2>2, <2>3
    <3>2. /\ work[j] \in NodeEntries(Minted) /\ work[j].kids \in Seq(LeafEntries(Nat))
          /\ IdsDiffer(work[j].kids) /\ new \in Seq(LeafEntries(Nat))
      <4>1. Minted \subseteq Nat
        BY DEF Minted, Types
      <4>2. new \in Seq(LeafEntries(Nat))
        BY <1>3, <1>9, NewNodesAre
      <4>3. work[j] \in NodeEntries(Nat)
        <5>1. work \in Seq(NodeEntries(Nat))
          BY <1>5, <4>1, MoreNodes
        <5>. QED BY <5>1
      <4>4. work[j].kids \in Seq(LeafEntries(Nat))
        BY <4>3 DEF NodeEntries, EntryLevels
      <4>5. IdsDiffer(work[j].kids)
        BY <1>5 DEF Sole
      <4>. QED BY <1>5, <4>2, <4>4, <4>5
    <3>3. /\ t[j].id = work[j].id /\ t[j].hash = work[j].hash
          /\ t[j].kids = Placed(work[j].kids, new, call.at, Anchor(call))
      <4> DEFINE placed == Placed(work[j].kids, new, call.at, Anchor(call))
                 e == work[j]
      <4>1. t[j] = [e EXCEPT !.kids = placed] /\ e \in NodeEntries(Minted)
        BY <3>1, <3>2
      <4> HIDE DEF placed, e, t, new, call
      <4>2. t[j].id = e.id /\ t[j].hash = e.hash /\ t[j].kids = placed
        BY <4>1 DEF NodeEntries, EntryLevels
      <4>. QED BY <4>2 DEF e, placed
    <3>4. Still(t[j])
      BY <1>1, <2>1, <2>3, <3>2, <3>3, GrowsUnder
    <3>. QED BY <2>2, <3>4
  <2>4. CASE call.under # p
    <3>1. work[j].id # Parent(call)
      BY <1>4, <2>1, <2>4 DEF BindsDiffer
    <3>2. Still(work[j])
      BY <1>1, <1>9, <2>4, GrowsBeside
    <3>. QED BY <2>2, <3>1, <3>2
  <2>. QED BY <2>3, <2>4
<1>10. CASE call.op = "update" /\ t = Rehashed(work, call.id, call.hash)
  <2>1. IsRehashed(t, work, call.id, call.hash)
    <3> HIDE DEF t
    <3>. QED BY <1>5, <1>10, RehashedIs
  <2>2. /\ Len(t) = Len(work) /\ Renewed(t[j], work[j], call.id, call.hash)
        /\ IsReset(t[j].kids, work[j].kids, call.id, call.hash)
    <3>1. work[j].kids \in Seq(LeafEntries(Minted))
      BY <1>5 DEF Nodal
    <3>2. DOMAIN work[j].kids = 1..Len(work[j].kids)
      BY <3>1
    <3> HIDE DEF t, call
    <3>. QED BY <1>5, <2>1, <3>2 DEF IsRehashed, IsReset
  <2>3. Still(t[j])
    BY <1>1, <1>10, <2>2, GrowsRenewed
  <2>. QED BY <2>2, <2>3
<1>11. CASE call.op = "remove" /\ t = Without(work, call.id)
  <2>1. PICK pos : IsSieved(t, pos, work, call.id)
    <3> HIDE DEF t
    <3>. QED BY <1>5, <1>11, WithoutIs
  <2>2. work[j].id # call.id
    BY <1>4, <1>7, <1>11 DEF Apt, Clearing
  <2>3. PICK k \in 1..Len(t) : pos[k] = j
    <3> HIDE DEF t, call
    <3>. QED BY <1>5, <2>1, <2>2 DEF IsSieved
  <2>4. /\ t[k].id = work[j].id /\ t[k].hash = work[j].hash
        /\ t[k].kids = Sieved(work[j].kids, call.id)
    <3> HIDE DEF t, call
    <3>. QED BY <2>1, <2>3 DEF IsSieved
  <2>5. PICK at : IsWeeded(t[k].kids, at, work[j].kids, call.id)
    <3>1. work[j].kids \in Seq(LeafEntries(Minted))
      BY <1>5 DEF Nodal
    <3> HIDE DEF t, call
    <3>. QED BY <2>4, <3>1, SievedWeeds
  <2>6. Still(t[k])
    BY <1>1, <1>11, <2>4, <2>5, GrowsWeeded
  <2>. QED BY <2>6
<1>12. CASE call.op \in {"create", "rename", "move", "archive"} /\ t = work
  <2>1. Still(work[j])
    BY <1>6, <1>12 DEF IsNested
  <2>. QED BY <1>12, <2>1
<1>. QED BY <1>3, <1>8, <1>9, <1>10, <1>11, <1>12, RecordedIs

\* So all blocks do, and those that are new with them.
LEMMA AllGrowGoesOn ==
    ASSUME Types, InTurn, Sole(work), BindsDiffer(bound), Calling, IsNext(Head(calls), rendering),
           Apt(calls, bound, rendering), Rooted(bound, rendering), NEW first \in Nat,
           AllGrow(work, calls, bound, rendering)
    PROVE  AllGrow(Recorded(work, Head(calls), first), Tail(calls), Binds(Head(calls), first),
                   rendering)
<1>1. SUFFICES ASSUME NEW x \in 1..Len(rendering), rendering[x].kind = "block",
                      PathOf(rendering, x) \in DOMAIN Binds(Head(calls), first)
               PROVE  Growing(Recorded(work, Head(calls), first), Tail(calls),
                              Binds(Head(calls), first), rendering, x)
  BY DEF AllGrow
<1>2. CASE PathOf(rendering, x) \in ToSet(Created(Head(calls)))
  BY <1>1, <1>2, GrowsAnew
<1>3. CASE PathOf(rendering, x) \in DOMAIN bound
  BY <1>1, <1>3, GrowsOn DEF AllGrow
<1>. QED BY <1>1, <1>2, <1>3, BindsAre DEF IsBound

\* A block that is kept is told its payload, unless it has it.
LEMMA BeganRenews ==
    ASSUME NEW r \in Renderings, NEW ids, NEW all, NEW m, NEW queue, NEW binding,
           Began(queue, binding, m, r, ids, all),
           NEW x \in 1..Len(r), r[x].kind = "block", r[x].key \in m.top.kept,
           NEW y, IsEntry(m.top.old, y, r[x])
    PROVE  m.top.old[y].hash = r[x].hash \/ <<m.top.old[y].id, r[x].hash>> \in Renewing(queue, x)
<1>1. SUFFICES ASSUME m.top.old[y].hash # r[x].hash
               PROVE  <<m.top.old[y].id, r[x].hash>> \in Renewing(queue, x)
  OBVIOUS
<1> DEFINE o == [op |-> "update", id |-> m.top.old[y].id, hash |-> r[x].hash]
<1>2. /\ x # 0 /\ 0 \in 0..Len(r) /\ r \in Seq(Nodes) /\ ListOf(m, 0) = m.top /\ m.top.new = r
  BY RenderingType DEF IsRendered, ListOf, Began, IsMatching
<1>3. NodeWith(m.top.old, r[x].key) = m.top.old[y]
  BY DEF IsEntry
<1>4. x \in Acting(m.top) /\ o = SiblingOp(Root, m.top, x)
  BY <1>1, <1>2, <1>3 DEF Acting, Acts, IsKept, SiblingOp
<1>5. PlanAsks(o, m, r)
  <2>1. ListAsks(o, PathOf(r, 0), ListOf(m, 0))
    BY <1>2, <1>4 DEF ListAsks, PathOf
  <2>. QED BY <1>2, <2>1 DEF PlanAsks
<1>6. PICK k \in 1..Len(queue) : queue[k] = o
  <2>1. ~IsNew(o)
    BY DEF IsNew
  <2> HIDE DEF o
  <2>. QED BY <1>5, <2>1, BeganAsks
<1>. QED BY <1>2, <1>6 DEF Renewing

\* A sync begins with a working cache in which the blocks that are kept grow.
LEMMA BeganGrows ==
    ASSUME NEW r \in Renderings, NEW ids, NEW all, NEW m, NEW queue, NEW binding,
           Began(queue, binding, m, r, ids, all), LeafyLists(m, r), AllLongest(m, r)
    PROVE  AllGrow(Confirmed(m.top.old), queue, binding, r)
<1> DEFINE base == m.top.old
           tree == Confirmed(base)
<1>1. SUFFICES ASSUME NEW x \in 1..Len(r), r[x].kind = "block", PathOf(r, x) \in DOMAIN binding
               PROVE  Growing(tree, queue, binding, r, x)
  BY DEF AllGrow
<1>2. /\ r \in Seq(Nodes) /\ x # 0 /\ x \in 0..Len(r) /\ PathOf(r, x) = <<r[x].key>>
      /\ Sibs(r, x) = r[x].kids /\ ListOf(m, x) = m.kids[x] /\ r[x].key \in Keys
  BY RenderingType, NodeType DEF IsRendered, PathOf, Sibs, ListOf
<1>3. Stays(m, r, x) /\ r[x].key \in m.top.kept
  BY <1>1, <1>2 DEF Began, Passed, Stays, IsMoved
<1>4. PICK y : IsEntry(base, y, r[x]) /\ binding[PathOf(r, x)] = base[y].id
  BY <1>2, <1>3 DEF Began, Passed
<1>5. y \in Cached(base)
  BY <1>2, <1>4, KeysAreNoGhosts DEF Cached, IsEntry, Matches
<1>6. IsBase(base, ids, all) /\ m.kids[x].old = base[y].kids
  <2>1. m.kids[x].old = NodeWith(base, r[x].key).kids /\ IsBase(base, ids, all)
    BY <1>3 DEF Began, IsMatching, IsDiff
  <2>. QED BY <1>4, <2>1 DEF IsEntry
<1>7. PICK pos : IsPicking(tree, pos, base, Cached(base))
  BY <1>6, ConfirmedPicks
<1>8. PICK j \in 1..Len(tree) : tree[j] = base[y]
  <2> HIDE DEF base, tree
  <2>. QED BY <1>5, <1>7 DEF IsPicking
<1>9. Aligned(m.kids[x].old, PathOf(r, x), Sibs(r, x), binding, Going(queue, x), Renewing(queue, x))
  <2>1. Aligned(ListOf(m, x).old, PathOf(r, x), Sibs(r, x), binding, Going(queue, x), Renewing(queue, x))
    BY <1>2, BeganAligned
  <2>. QED BY <1>2, <2>1
<1>10. base[y].hash = r[x].hash \/ <<base[y].id, r[x].hash>> \in Renewing(queue, x)
  BY <1>1, <1>3, <1>4, BeganRenews
<1> HIDE DEF base, tree
<1>11. Aligned(tree[j].kids, PathOf(r, x), Sibs(r, x), binding, Going(queue, x), Renewing(queue, x))
  BY <1>6, <1>8, <1>9
<1>. QED BY <1>4, <1>8, <1>10, <1>11 DEF Growing

\* And no child is bound without its parent.
LEMMA BeganRooted ==
    ASSUME NEW r \in Renderings, NEW ids, NEW all, NEW m, NEW queue, NEW binding,
           Began(queue, binding, m, r, ids, all)
    PROVE  Rooted(binding, r)
<1>1. Passed(binding, m, r)
  BY DEF Began
<1>2. ASSUME NEW x \in 1..Len(r), NEW q \in 1..Len(r[x].kids),
             <<r[x].key, r[x].kids[q].key>> \in DOMAIN binding
      PROVE  <<r[x].key>> \in DOMAIN binding
  <2>1. r[x].key \in m.top.kept
    BY <1>1, <1>2 DEF Passed
  <2>. QED BY <1>1, <2>1 DEF Passed, Stays
<1>. QED BY <1>2 DEF Rooted

----------------------------------------------------------------------------
(* Blocks and sub-pages *)

\* Blocks have ids of one set, with blocks under them, sub-pages of another.
LiveTexts(texts) == [id : texts, kind : {"block"}, hash : Hashes \cup {Ghost}, kids : {<<>>}]
LiveSorts(texts, subs) ==
    [id : texts, kind : {"block"}, hash : Hashes \cup {Ghost}, kids : Seq(LiveTexts(texts))]
        \cup [id : subs, kind : {"page"}, hash : Hashes \cup {Ghost}, kids : Seq(LiveTexts(texts))]

TextEntries(texts) == [id : texts, key : Keys, kind : {"block"}, hash : Hashes, kids : {<<>>}]
EntrySorts(texts, subs) ==
    [id : texts, key : Keys, kind : {"block"}, hash : Hashes, kids : Seq(TextEntries(texts))]
        \cup [id : subs, key : Keys, kind : {"page"}, hash : Hashes, kids : Seq(TextEntries(texts))]

\* They are nodes.
LEMMA LiveSortsAreNodes ==
    ASSUME NEW texts, NEW subs
    PROVE  /\ AreNodes(LiveSorts(texts, subs), LiveTexts(texts))
           /\ LiveTexts(texts) \subseteq LiveSorts(texts, subs)
           /\ \A hash \in Hashes : TakesHash(LiveSorts(texts, subs), LiveTexts(texts), hash)
<1> DEFINE L == LiveTexts(texts)
           N == LiveSorts(texts, subs)
<1>1. <<>> \in Seq(L)
  OBVIOUS
<1>2. L \subseteq N
  <2> SUFFICES ASSUME NEW l \in L PROVE l \in N
    OBVIOUS
  <2>1. l.kids \in Seq(L)
    BY <1>1 DEF LiveTexts
  <2>2. QED
    BY <2>1 DEF LiveTexts, LiveSorts
<1>3. \A n \in N : n.kids \in Seq(L) /\ \A s \in Seq(L) : [n EXCEPT !.kids = s] \in N
  <2> HIDE DEF L
  <2> QED
    BY DEF LiveSorts, L
<1>4. \A hash \in Hashes : TakesHash(N, L, hash)
  <2> SUFFICES ASSUME NEW hash \in Hashes PROVE TakesHash(N, L, hash)
    OBVIOUS
  <2>1. \A l \in L : [l EXCEPT !.hash = hash] \in L
    BY DEF LiveTexts
  <2>2. \A n \in N : [n EXCEPT !.hash = hash] \in N
    <3> DEFINE S == Seq(L)
    <3> HIDE DEF S
    <3>. QED BY DEF LiveSorts, S
  <2>. QED BY <2>1, <2>2 DEF TakesHash
<1>5. QED
  BY <1>2, <1>3, <1>4 DEF AreNodes

\* Cached ones as well.
LEMMA EntrySortsAreNodes ==
    ASSUME NEW texts, NEW subs
    PROVE  /\ AreNodes(EntrySorts(texts, subs), TextEntries(texts))
           /\ TextEntries(texts) \subseteq EntrySorts(texts, subs)
           /\ \A hash \in Hashes : TakesHash(EntrySorts(texts, subs), TextEntries(texts), hash)
<1> DEFINE L == TextEntries(texts)
           N == EntrySorts(texts, subs)
<1>1. <<>> \in Seq(L)
  OBVIOUS
<1>2. L \subseteq N
  <2> SUFFICES ASSUME NEW l \in L PROVE l \in N
    OBVIOUS
  <2>1. l.kids \in Seq(L)
    BY <1>1 DEF TextEntries
  <2>2. QED
    BY <2>1 DEF TextEntries, EntrySorts
<1>3. \A n \in N : n.kids \in Seq(L) /\ \A s \in Seq(L) : [n EXCEPT !.kids = s] \in N
  <2> HIDE DEF L
  <2> QED
    BY DEF EntrySorts, L
<1>4. \A hash \in Hashes : TakesHash(N, L, hash)
  <2> SUFFICES ASSUME NEW hash \in Hashes PROVE TakesHash(N, L, hash)
    OBVIOUS
  <2>1. \A l \in L : [l EXCEPT !.hash = hash] \in L
    BY DEF TextEntries
  <2>2. \A n \in N : [n EXCEPT !.hash = hash] \in N
    <3> DEFINE S == Seq(L)
    <3> HIDE DEF S
    <3>. QED BY DEF EntrySorts, S
  <2>. QED BY <2>1, <2>2 DEF TakesHash
<1>5. QED
  BY <1>2, <1>3, <1>4 DEF AreNodes

\* More ids, more trees.
LEMMA MoreSorts ==
    ASSUME NEW texts, NEW subs, NEW moreTexts, NEW moreSubs,
           texts \subseteq moreTexts, subs \subseteq moreSubs
    PROVE  /\ Seq(LiveSorts(texts, subs)) \subseteq Seq(LiveSorts(moreTexts, moreSubs))
           /\ Seq(EntrySorts(texts, subs)) \subseteq Seq(EntrySorts(moreTexts, moreSubs))
<1>1. LiveTexts(texts) \subseteq LiveTexts(moreTexts) /\ TextEntries(texts) \subseteq TextEntries(moreTexts)
  BY DEF LiveTexts, TextEntries
<1>2. /\ Seq(LiveTexts(texts)) \subseteq Seq(LiveTexts(moreTexts))
      /\ Seq(TextEntries(texts)) \subseteq Seq(TextEntries(moreTexts))
  BY <1>1, SeqSubset
<1>3. /\ LiveSorts(texts, subs) \subseteq LiveSorts(moreTexts, moreSubs)
      /\ EntrySorts(texts, subs) \subseteq EntrySorts(moreTexts, moreSubs)
  <2> DEFINE A == Seq(LiveTexts(texts))
             B == Seq(LiveTexts(moreTexts))
             C == Seq(TextEntries(texts))
             D == Seq(TextEntries(moreTexts))
  <2>1. A \subseteq B /\ C \subseteq D
    BY <1>2
  <2> HIDE DEF A, B, C, D
  <2>. QED BY <2>1 DEF LiveSorts, EntrySorts, A, B, C, D
<1>4. QED
  BY <1>3, SeqSubset

\* Entries of which each has its sort.
LEMMA EntriesSorted ==
    ASSUME NEW ids, NEW texts, NEW subs, NEW list \in Seq(NodeEntries(ids)),
           \A i \in 1..Len(list) :
                /\ list[i].id \in IF list[i].kind = "page" THEN subs ELSE texts
                /\ \A k \in 1..Len(list[i].kids) :
                        list[i].kids[k].kind = "block" /\ list[i].kids[k].id \in texts
    PROVE  list \in Seq(EntrySorts(texts, subs))
<1>1. ASSUME NEW i \in 1..Len(list) PROVE list[i] \in EntrySorts(texts, subs)
  <2> DEFINE e == list[i]
             s == e.kids
             S == Seq(LeafEntries(ids))
             T == Seq(TextEntries(texts))
  <2>1. e \in NodeEntries(ids)
    OBVIOUS
  <2>2. s \in S
    BY <2>1 DEF NodeEntries, EntryLevels
  <2>3. s \in T
    <3>1. \A k \in 1..Len(s) : s[k] \in LeafEntries(ids)
      BY <2>2
    <3>2. \A k \in 1..Len(s) : s[k].kind = "block" /\ s[k].id \in texts
      OBVIOUS
    <3>3. Len(s) \in Nat /\ s = [k \in 1..Len(s) |-> s[k]]
      BY <2>2
    <3> HIDE DEF s
    <3>4. \A k \in 1..Len(s) : s[k] \in TextEntries(texts)
      BY <3>1, <3>2 DEF LeafEntries, TextEntries
    <3>. QED BY <3>3, <3>4, ListIsSeq
  <2>4. e.id \in IF e.kind = "page" THEN subs ELSE texts
    OBVIOUS
  <2>5. e \in [id : ids, key : Keys, kind : Kinds, hash : Hashes, kids : S] /\ e.kids \in T
    BY <2>1, <2>3 DEF NodeEntries, EntryLevels
  <2> HIDE DEF e, S, T
  <2>6. e \in [id : texts, key : Keys, kind : {"block"}, hash : Hashes, kids : T]
                \cup [id : subs, key : Keys, kind : {"page"}, hash : Hashes, kids : T]
    BY <2>4, <2>5 DEF Kinds
  <2>. QED BY <2>6 DEF EntrySorts, e, T
<1>2. Len(list) \in Nat /\ list = [i \in 1..Len(list) |-> list[i]]
  OBVIOUS
<1>. QED BY <1>1, <1>2, ListIsSeq

\* What a sorted entry has, and its children.
LEMMA SortedEntry ==
    ASSUME NEW texts, NEW subs, NEW list \in Seq(EntrySorts(texts, subs)), NEW i \in 1..Len(list)
    PROVE  /\ list[i].id \in IF list[i].kind = "page" THEN subs ELSE texts
           /\ list[i].kids \in Seq(TextEntries(texts))
           /\ \A k \in DOMAIN list[i].kids :
                list[i].kids[k].kind = "block" /\ list[i].kids[k].id \in texts
<1> DEFINE e == list[i]
           T == Seq(TextEntries(texts))
           s == e.kids
<1>1. e \in EntrySorts(texts, subs)
  OBVIOUS
<1>2. e \in [id : texts, key : Keys, kind : {"block"}, hash : Hashes, kids : T]
                \cup [id : subs, key : Keys, kind : {"page"}, hash : Hashes, kids : T]
  BY <1>1 DEF EntrySorts
<1>3. (e.id \in IF e.kind = "page" THEN subs ELSE texts) /\ e.kids \in T
  <2> HIDE DEF e, T
  <2>. QED BY <1>2
<1>4. \A k \in DOMAIN s : s[k] \in TextEntries(texts)
  BY <1>3
<1>5. \A k \in DOMAIN s : s[k].kind = "block" /\ s[k].id \in texts
  <2> HIDE DEF s
  <2>. QED BY <1>4 DEF TextEntries
<1>. QED BY <1>3, <1>5

\* And what a live node has.
LEMMA SortedNode ==
    ASSUME NEW texts, NEW subs, NEW list \in Seq(LiveSorts(texts, subs)), NEW i \in 1..Len(list)
    PROVE  /\ list[i].id \in IF list[i].kind = "page" THEN subs ELSE texts
           /\ list[i].kind \in Kinds
           /\ list[i].kids \in Seq(LiveTexts(texts))
           /\ \A k \in DOMAIN list[i].kids :
                list[i].kids[k].kind = "block" /\ list[i].kids[k].id \in texts
<1> DEFINE e == list[i]
           T == Seq(LiveTexts(texts))
           s == e.kids
<1>1. e \in LiveSorts(texts, subs)
  OBVIOUS
<1>2. e \in [id : texts, kind : {"block"}, hash : Hashes \cup {Ghost}, kids : T]
                \cup [id : subs, kind : {"page"}, hash : Hashes \cup {Ghost}, kids : T]
  BY <1>1 DEF LiveSorts
<1>3. (e.id \in IF e.kind = "page" THEN subs ELSE texts) /\ e.kids \in T /\ e.kind \in Kinds
  <2> HIDE DEF e, T
  <2>. QED BY <1>2 DEF Kinds
<1>4. \A k \in DOMAIN s : s[k] \in LiveTexts(texts)
  BY <1>3
<1>5. \A k \in DOMAIN s : s[k].kind = "block" /\ s[k].id \in texts
  <2> HIDE DEF s
  <2>. QED BY <1>4 DEF LiveTexts
<1>. QED BY <1>3, <1>5

\* Every id is that of a block or that of a sub-page, and titles are set and pages archived
\* of sub-pages only.
SortOf(n, texts, subs) == IF n.kind = "page" THEN subs ELSE texts

OnSubPages(queue, subs) ==
    \A l \in 1..Len(queue) : queue[l].op \in {"rename", "archive"} => queue[l].id \in subs

BoundSorts(binding, r, texts, subs) ==
    \A p \in DOMAIN binding : binding[p] \in SortOf(NodeAt(r, p), texts, subs)

Sorts(texts, subs) ==
    /\ texts \subseteq Live /\ subs \subseteq Minted /\ texts \cap subs = {}
    /\ page \in Seq(LiveSorts(texts, subs))
    /\ cache \in Seq(EntrySorts(texts, subs))
    /\ work \in Seq(EntrySorts(texts, subs))
    /\ BoundSorts(bound, rendering, texts, subs)
    /\ OnSubPages(calls, subs)

Sorted == \E texts, subs : Sorts(texts, subs)

\* What a rendered node becomes is of its sort.
LEMMA NewSort ==
    ASSUME NEW n \in Nodes, NEW texts, NEW subs, NEW id \in SortOf(n, texts, subs)
    PROVE  /\ Block(n, id) \in LiveSorts(texts, subs) /\ Entry(n, id) \in EntrySorts(texts, subs)
           /\ n.kind # "page" => Block(n, id) \in LiveTexts(texts) /\ Entry(n, id) \in TextEntries(texts)
<1>1. n.key \in Keys /\ n.kind \in Kinds /\ n.hash \in Hashes
  BY NodeType
<1>2. \A S : <<>> \in Seq(S)
  OBVIOUS
<1>3. CASE n.kind = "page"
  <2> DEFINE T == Seq(LiveTexts(texts))
             U == Seq(TextEntries(texts))
  <2>1. <<>> \in T /\ <<>> \in U /\ id \in subs
    BY <1>2, <1>3 DEF SortOf
  <2> HIDE DEF T, U
  <2>. QED BY <1>1, <1>3, <2>1 DEF Block, Entry, LiveSorts, EntrySorts, T, U
<1>4. CASE n.kind = "block"
  <2>1. id \in texts
    BY <1>4 DEF SortOf
  <2>2. Block(n, id) \in LiveTexts(texts) /\ Entry(n, id) \in TextEntries(texts)
    BY <1>1, <1>4, <2>1 DEF Block, Entry, LiveTexts, TextEntries
  <2>. QED BY <1>4, <2>2, LiveSortsAreNodes, EntrySortsAreNodes
<1>. QED BY <1>1, <1>3, <1>4 DEF Kinds

\* What a call creates, on the page, in the working cache and among the ids that are bound.
LEMMA LandsSorted ==
    ASSUME Types, InTurn, Calling, IsNext(Head(calls), rendering), NEW first \in Nat,
           NEW texts, NEW subs,
           \A k \in 1..Len(Created(Head(calls))) :
                first + k - 1 \in IF Head(calls).op = "create" THEN subs ELSE texts,
           BoundSorts(bound, rendering, texts, subs),
           NEW tree \in Seq(LiveSorts(texts, subs)), NEW entries \in Seq(EntrySorts(texts, subs))
    PROVE  /\ Landed(tree, Head(calls), first) \in Seq(LiveSorts(texts, subs))
           /\ Recorded(entries, Head(calls), first) \in Seq(EntrySorts(texts, subs))
           /\ BoundSorts(Binds(Head(calls), first), rendering, texts, subs)
<1> DEFINE r == rendering
           call == Head(calls)
           new == Created(call)
           b == Binds(call, first)
           N == LiveSorts(texts, subs)
           L == LiveTexts(texts)
           M == EntrySorts(texts, subs)
           K == TextEntries(texts)
<1>1. r \in Renderings /\ call \in PlanCalls(r, Minted, Live)
  BY DEF Types, IsNext
<1>2. /\ new \in Seq(Paths(r)) /\ \A k \in DOMAIN new : NodeAt(r, new[k]) \in Nodes
      /\ DOMAIN new = 1..Len(new)
  <2>1. new \in Seq(Paths(r)) /\ \A k \in DOMAIN new : NodeAt(r, new[k]) \in Nodes
    BY <1>1, CreatedType
  <2> HIDE DEF new
  <2>. QED BY <2>1
<1>3. \A k \in 1..Len(new) : NodeAt(r, new[k]).kind = "page" <=> call.op = "create"
  <2>1. \A k \in 1..Len(new) : new[k] \in ToSet(new)
    BY <1>2 DEF ToSet
  <2>. QED BY <2>1 DEF IsNext
<1>4. \A k \in 1..Len(new) : first + k - 1 \in SortOf(NodeAt(r, new[k]), texts, subs)
  BY <1>3 DEF SortOf
<1>5. \A k \in 1..Len(new) :
        /\ Block(NodeAt(r, new[k]), first + k - 1) \in N
        /\ Entry(NodeAt(r, new[k]), first + k - 1) \in M
        /\ call.op = "append" => /\ Block(NodeAt(r, new[k]), first + k - 1) \in L
                                 /\ Entry(NodeAt(r, new[k]), first + k - 1) \in K
  <2> SUFFICES ASSUME NEW k \in 1..Len(new)
               PROVE  /\ Block(NodeAt(r, new[k]), first + k - 1) \in N
                      /\ Entry(NodeAt(r, new[k]), first + k - 1) \in M
                      /\ call.op = "append" => /\ Block(NodeAt(r, new[k]), first + k - 1) \in L
                                               /\ Entry(NodeAt(r, new[k]), first + k - 1) \in K
    OBVIOUS
  <2> DEFINE n == NodeAt(r, new[k])
             id == first + k - 1
  <2>1. n \in Nodes /\ id \in SortOf(n, texts, subs) /\ (n.kind = "page" <=> call.op = "create")
    BY <1>2, <1>3, <1>4
  <2> HIDE DEF n, id, new, call, r
  <2>. QED BY <2>1, NewSort DEF n, id, N, L, M, K
<1>6. Landed(tree, call, first) \in Seq(N)
  <2>1. AreNodes(N, L) /\ \A hash \in Hashes : TakesHash(N, L, hash)
    BY LiveSortsAreNodes
  <2>2. \A k \in DOMAIN new : Block(NodeAt(r, new[k]), first + k - 1)
                    \in IF call.op = "append" /\ Parent(call) # Page THEN L ELSE N
    BY <1>2, <1>5
  <2> HIDE DEF N, L
  <2>3. QED
    BY <1>1, <2>1, <2>2, LandedType DEF r, new, N
<1>7. Recorded(entries, call, first) \in Seq(M)
  <2>1. AreNodes(M, K) /\ \A hash \in Hashes : TakesHash(M, K, hash)
    BY EntrySortsAreNodes
  <2>2. \A k \in DOMAIN new : Entry(NodeAt(r, new[k]), first + k - 1)
                    \in IF call.op = "append" /\ Parent(call) # Page THEN K ELSE M
    BY <1>2, <1>5
  <2> HIDE DEF M, K
  <2>3. QED
    BY <1>1, <2>1, <2>2, RecordedType DEF r, new, M
<1>8. IsBound(b, bound, new, first)
  BY BindsAre
<1>9. ASSUME NEW p \in DOMAIN b PROVE b[p] \in SortOf(NodeAt(r, p), texts, subs)
  <2> HIDE DEF b, new, r
  <2>1. CASE p \in ToSet(new)
    <3>1. PICK k \in DOMAIN new : new[k] = p /\ b[p] = first + k - 1
      BY <1>8, <2>1 DEF IsBound
    <3>. QED BY <1>2, <1>4, <3>1
  <2>2. CASE p \notin ToSet(new)
    <3>1. p \in DOMAIN bound /\ b[p] = bound[p]
      BY <1>8, <2>2 DEF IsBound
    <3>. QED BY <3>1 DEF BoundSorts, r
  <2>. QED BY <2>1, <2>2
<1>. QED BY <1>6, <1>7, <1>9 DEF BoundSorts

\* The ids that a call takes join one sort.
LEMMA SortsGrow ==
    ASSUME Types, NEW texts, NEW subs, Sorts(texts, subs), NEW next \in Nat, next >= nextId,
           NEW creates
    PROVE  \E moreTexts, moreSubs : Grown(moreTexts, moreSubs, texts, subs, next, creates)
<1> DEFINE new == nextId..(next - 1)
<1>1. nextId \in Nat \ {0} /\ Foreign \cap Nat = {}
  BY PageAssumption DEF ConstantsAssumption, Types
<1>2. texts \subseteq Minted \cup Foreign /\ subs \subseteq Minted /\ texts \cap subs = {}
  BY DEF Sorts, Live
<1>3. /\ Minted \subseteq Before(next) /\ new \subseteq Before(next)
      /\ new \cap Minted = {} /\ new \subseteq Nat /\ Before(next) \subseteq Nat
  BY <1>1 DEF Minted, Before
<1> HIDE DEF new
<1>4. new \cap texts = {} /\ new \cap subs = {}
  BY <1>1, <1>2, <1>3
<1>5. ASSUME creates PROVE Grown(texts, subs \cup new, texts, subs, next, creates)
  BY <1>2, <1>3, <1>4, <1>5 DEF Grown, new
<1>6. ASSUME ~creates PROVE Grown(texts \cup new, subs, texts, subs, next, creates)
  BY <1>2, <1>3, <1>4, <1>6 DEF Grown, new
<1>. QED BY <1>5, <1>6

\* The calls behind the first one are on sub-pages as well.
LEMMA OnSubPagesGoesOn ==
    ASSUME NEW S, NEW queue \in Seq(S), queue # <<>>, NEW subs, OnSubPages(queue, subs),
           NEW moreSubs, subs \subseteq moreSubs
    PROVE  OnSubPages(Tail(queue), moreSubs)
<1>1. \A l \in 1..Len(Tail(queue)) : l + 1 \in 1..Len(queue) /\ Tail(queue)[l] = queue[l + 1]
  BY TailIs
<1>. QED BY <1>1 DEF OnSubPages

\* A call lands and the sync goes on.
LEMMA GoesOnSorted ==
    ASSUME Types, InTurn, Calling, IsNext(Head(calls), rendering), UNCHANGED rendering,
           NEW texts, NEW subs, Sorts(texts, subs), NEW moreTexts, NEW moreSubs,
           Grown(moreTexts, moreSubs, texts, subs, nextId', Head(calls).op = "create"),
           NEW first \in Nat, first >= nextId, nextId' = first + Len(Created(Head(calls))),
           NEW tree \in Seq(LiveSorts(moreTexts, moreSubs)),
           page' = Landed(tree, Head(calls), first),
           work' = Recorded(work, Head(calls), first),
           cache' \in {work', cache},
           bound' = Binds(Head(calls), first), calls' = Tail(calls)
    PROVE  Sorts(moreTexts, moreSubs)'
<1> DEFINE call == Head(calls)
<1>1. call \in PlanCalls(rendering, Minted, Live) /\ nextId \in Nat
  BY TailIs DEF Types, Calling
<1> HIDE DEF call
<1>2. Len(Created(call)) \in Nat
  BY <1>1, CreatedType DEF Types
<1>3. \A k \in 1..Len(Created(call)) : first + k - 1 \in nextId..(nextId' - 1)
  BY <1>1, <1>2 DEF call
<1>4. \A k \in 1..Len(Created(call)) :
            first + k - 1 \in IF call.op = "create" THEN moreSubs ELSE moreTexts
  BY <1>3 DEF Grown, call
<1>5. BoundSorts(bound, rendering, moreTexts, moreSubs)
  BY DEF Sorts, Grown, BoundSorts, SortOf
<1>6. cache \in Seq(EntrySorts(moreTexts, moreSubs)) /\ work \in Seq(EntrySorts(moreTexts, moreSubs))
  BY MoreSorts DEF Sorts, Grown
<1>7. /\ Landed(tree, call, first) \in Seq(LiveSorts(moreTexts, moreSubs))
      /\ Recorded(work, call, first) \in Seq(EntrySorts(moreTexts, moreSubs))
      /\ BoundSorts(Binds(call, first), rendering, moreTexts, moreSubs)
  BY <1>4, <1>5, <1>6, LandsSorted DEF call
<1>8. Minted' = Before(nextId') /\ Live' = Before(nextId') \cup Foreign
  BY DEF Minted, Live, Before
<1>9. moreTexts \subseteq Live' /\ moreSubs \subseteq Minted' /\ moreTexts \cap moreSubs = {}
  BY <1>8 DEF Grown
<1>10. /\ page' \in Seq(LiveSorts(moreTexts, moreSubs)) /\ work' \in Seq(EntrySorts(moreTexts, moreSubs))
       /\ cache' \in Seq(EntrySorts(moreTexts, moreSubs))
  BY <1>6, <1>7 DEF call
<1>11. BoundSorts(bound', rendering', moreTexts, moreSubs)
  BY <1>7 DEF call
<1>12. OnSubPages(calls', moreSubs)
  <2>1. OnSubPages(Tail(calls), moreSubs)
    BY OnSubPagesGoesOn DEF Types, Calling, Sorts, Grown
  <2>. QED BY <2>1
<1>13. QED
  BY <1>9, <1>10, <1>11, <1>12 DEF Sorts, BoundSorts, OnSubPages

\* What a base has from the cache is of its sort.
CachedSorts(base, texts, subs) ==
    \A i \in DOMAIN base :
        /\ base[i].key # Ghost \/ base[i].kind = "page" => base[i].id \in SortOf(base[i], texts, subs)
        /\ \A k \in DOMAIN base[i].kids :
                base[i].kids[k].kind = "block" /\ base[i].kids[k].id \in texts

\* Every cached entry is of its sort, and so is what a base has of it.
LEMMA BaseSorted ==
    ASSUME Types, NEW texts, NEW subs, Sorts(texts, subs)
    PROVE  CachedSorts(Base(page, cache), texts, subs)
<1> DEFINE base == Base(page, cache)
<1>1. IsBase(base, Minted, Live) /\ IsBaseOf(base, page, cache)
  BY BaseIs DEF Types
<1> HIDE DEF base
<1>2. \A e \in ToSet(cache) : /\ e.id \in SortOf(e, texts, subs)
                              /\ \A k \in DOMAIN e.kids : e.kids[k].kind = "block" /\ e.kids[k].id \in texts
  <2>1. cache \in Seq(EntrySorts(texts, subs))
    BY DEF Sorts
  <2>2. \A i \in 1..Len(cache) : /\ cache[i].id \in SortOf(cache[i], texts, subs)
                                 /\ \A k \in DOMAIN cache[i].kids :
                                        cache[i].kids[k].kind = "block" /\ cache[i].kids[k].id \in texts
    BY <2>1, SortedEntry DEF SortOf
  <2>3. DOMAIN cache = 1..Len(cache)
    BY <2>1
  <2>. QED BY <2>2, <2>3 DEF ToSet
<1>3. ASSUME NEW i \in DOMAIN base, base[i].key # Ghost \/ base[i].kind = "page"
      PROVE  base[i] \in ToSet(cache)
  <2>1. base[i] \in NodeEntries(Minted) \cup Placeholders(Live)
    BY <1>1 DEF IsBase
  <2>2. base[i].key # Ghost
    BY <1>3, <2>1, KeysAreNoGhosts DEF NodeEntries, EntryLevels, Placeholders
  <2>. QED BY <1>1, <2>2 DEF IsBaseOf
<1>4. \A i \in DOMAIN base : \A k \in DOMAIN base[i].kids : base[i] \in ToSet(cache)
  BY <1>1 DEF IsBaseOf
<1>. QED BY <1>2, <1>3, <1>4 DEF CachedSorts, base

\* What a sync begins with is of its sort: the working cache,
LEMMA ConfirmedSorted ==
    ASSUME NEW ids, NEW all, NEW base, IsBase(base, ids, all), NEW texts, NEW subs,
           CachedSorts(base, texts, subs)
    PROVE  Confirmed(base) \in Seq(EntrySorts(texts, subs))
<1> DEFINE t == Confirmed(base)
<1>1. t \in Seq(NodeEntries(ids))
  BY ConfirmedIs
<1>2. \A e \in ToSet(t) : e.key # Ghost /\ \E i \in DOMAIN base : e = base[i]
  BY ConfirmedIs
<1> HIDE DEF t
<1>3. ASSUME NEW j \in 1..Len(t)
      PROVE  /\ t[j].id \in IF t[j].kind = "page" THEN subs ELSE texts
             /\ \A k \in 1..Len(t[j].kids) : t[j].kids[k].kind = "block" /\ t[j].kids[k].id \in texts
  <2>1. t[j] \in ToSet(t) /\ t[j] \in NodeEntries(ids)
    BY <1>1 DEF ToSet
  <2>2. PICK i \in DOMAIN base : t[j] = base[i]
    BY <1>2, <2>1
  <2>3. base[i].key # Ghost
    BY <1>2, <2>1, <2>2
  <2>4. base[i].kids \in Seq(LeafEntries(ids))
    BY <2>1, <2>2 DEF NodeEntries, EntryLevels
  <2>5. DOMAIN base[i].kids = 1..Len(base[i].kids)
    BY <2>4
  <2>. QED BY <2>2, <2>3, <2>5 DEF CachedSorts, SortOf
<1>4. t \in Seq(EntrySorts(texts, subs))
  BY <1>1, <1>3, EntriesSorted
<1>. QED BY <1>4 DEF t

\* The paths of a rendered node and of its children lead to them.
NodesThere(r, x) ==
    /\ NodeAt(r, <<r[x].key>>) = r[x]
    /\ \A q \in 1..Len(r[x].kids) : /\ NodeAt(r, <<r[x].key, r[x].kids[q].key>>) = r[x].kids[q]
                                    /\ r[x].kids[q].kind = "block"

\* They do so in every rendering.
LEMMA NodesAreThere ==
    ASSUME NEW r \in Renderings, NEW x \in 1..Len(r)
    PROVE  NodesThere(r, x)
<1>0. Len(r) \in Nat
  BY RenderingType DEF IsRendered
<1>1. /\ 0 \in 0..Len(r) /\ x \in 0..Len(r) /\ x # 0 /\ Sibs(r, 0) = r /\ PathOf(r, 0) = Root
      /\ Sibs(r, x) = r[x].kids /\ PathOf(r, x) = <<r[x].key>>
  BY <1>0 DEF Sibs, PathOf
<1>2. NodeAt(r, Path(Root, r[x])) = r[x]
  <2>1. \A i \in 1..Len(Sibs(r, 0)) : NodeAt(r, Path(PathOf(r, 0), Sibs(r, 0)[i])) = Sibs(r, 0)[i]
    BY <1>1, ListsCover
  <2>. QED BY <1>1, <2>1
<1>3. \A q \in 1..Len(r[x].kids) : /\ NodeAt(r, Path(<<r[x].key>>, r[x].kids[q])) = r[x].kids[q]
                                   /\ r[x].kids[q].kind = "block"
  <2>1. \A i \in 1..Len(Sibs(r, x)) : /\ NodeAt(r, Path(PathOf(r, x), Sibs(r, x)[i])) = Sibs(r, x)[i]
                                      /\ Sibs(r, x)[i].kind = "block"
    BY <1>1, ListsCover
  <2>. QED BY <1>1, <2>1
<1>. QED BY <1>2, <1>3, PathsAre DEF NodesThere

\* the ids that are passed on,
LEMMA InheritedSorted ==
    ASSUME NEW r \in Renderings, NEW ids, NEW all, NEW m, NEW queue, NEW binding,
           Began(queue, binding, m, r, ids, all), NEW texts, NEW subs,
           CachedSorts(m.top.old, texts, subs)
    PROVE  BoundSorts(binding, r, texts, subs) /\ LeafyLists(m, r)
<1> DEFINE base == m.top.old
<1>1. /\ Passed(binding, m, r) /\ IsMatching(m, base, r, ids, all) /\ r \in Seq(Nodes)
      /\ \A x \in 1..Len(r) : r[x].key \in Keys /\ r[x].kids \in Seq(Leaves)
      /\ \A x \in 1..Len(r) : DOMAIN r[x].kids = 1..Len(r[x].kids)
  BY RenderingType, NodeType DEF Began, IsRendered
<1>2. \A x \in 1..Len(r) : NodesThere(r, x)
  BY NodesAreThere
<1>3. ASSUME NEW x \in 1..Len(r), <<r[x].key>> \in DOMAIN binding
      PROVE  binding[<<r[x].key>>] \in SortOf(r[x], texts, subs)
  <2>1. PICK y : IsEntry(base, y, r[x]) /\ binding[<<r[x].key>>] = base[y].id
    BY <1>1, <1>3 DEF Passed
  <2>2. /\ y \in DOMAIN base /\ base[y].key = r[x].key /\ base[y].kind = r[x].kind
        /\ base[y].key # Ghost
    BY <1>1, <2>1, KeysAreNoGhosts DEF IsEntry, Matches
  <2>. QED BY <2>1, <2>2 DEF CachedSorts, SortOf
<1>4. LeafyLists(m, r)
  <2> SUFFICES ASSUME NEW x \in 1..Len(r), NEW i \in DOMAIN m.kids[x].old
               PROVE  m.kids[x].old[i].kind = "block" /\ m.kids[x].old[i].id \in texts
    BY DEF LeafyLists
  <2>1. r[x].key \in m.top.kept /\ m.kids[x].old = NodeWith(base, r[x].key).kids
    <3>1. m.kids[x].old = IF r[x].key \in m.top.kept THEN NodeWith(base, r[x].key).kids ELSE <<>>
      BY <1>1 DEF IsMatching
    <3>2. CASE r[x].key \notin m.top.kept
      <4>1. m.kids[x].old = <<>>
        BY <3>1, <3>2
      <4>2. DOMAIN m.kids[x].old = {}
        BY <4>1
      <4>. QED BY <4>2
    <3>. QED BY <3>1, <3>2
  <2>2. r[x].key \in CommonKeys(m.top.old, m.top.new)
    BY <1>1, <2>1 DEF IsMatching, IsDiff
  <2>3. PICK y \in DOMAIN base : NodeWith(base, r[x].key) = base[y]
    BY <1>1, <2>2, KeptEntry DEF IsMatching
  <2>. QED BY <2>1, <2>3 DEF CachedSorts
<1>5. ASSUME NEW x \in 1..Len(r), NEW q \in 1..Len(r[x].kids),
             <<r[x].key, r[x].kids[q].key>> \in DOMAIN binding
      PROVE  binding[<<r[x].key, r[x].kids[q].key>>] \in texts
  <2>1. r[x].kids[q].key \in m.kids[x].kept
    BY <1>1, <1>5 DEF Passed
  <2>2. PICK y : /\ IsEntry(m.kids[x].old, y, r[x].kids[q])
                 /\ binding[<<r[x].key, r[x].kids[q].key>>] = m.kids[x].old[y].id
    BY <1>1, <2>1 DEF Passed
  <2>3. r[x].key \in m.top.kept
    BY <1>1, <2>1 DEF Passed
  <2>4. m.kids[x].old = NodeWith(base, r[x].key).kids
    BY <1>1, <2>3 DEF IsMatching
  <2>5. r[x].key \in CommonKeys(m.top.old, m.top.new)
    BY <1>1, <2>3 DEF IsMatching, IsDiff
  <2>6. PICK z \in DOMAIN base : NodeWith(base, r[x].key) = base[z]
    BY <1>1, <2>5, KeptEntry DEF IsMatching
  <2>7. y \in DOMAIN m.kids[x].old
    BY <2>2 DEF IsEntry
  <2>. QED BY <2>2, <2>4, <2>6, <2>7 DEF CachedSorts
<1>6. ASSUME NEW p \in DOMAIN binding PROVE binding[p] \in SortOf(NodeAt(r, p), texts, subs)
  <2>1. p \in Paths(r)
    BY <1>1 DEF Passed
  <2>2. ASSUME NEW x \in 1..Len(r), p = <<r[x].key>>
        PROVE  binding[p] \in SortOf(NodeAt(r, p), texts, subs)
    BY <1>2, <1>3, <2>2 DEF NodesThere
  <2>3. ASSUME NEW x \in 1..Len(r), NEW q \in 1..Len(r[x].kids), p = <<r[x].key, r[x].kids[q].key>>
        PROVE  binding[p] \in SortOf(NodeAt(r, p), texts, subs)
    <3>1. NodeAt(r, p).kind # "page"
      BY <1>2, <2>3 DEF NodesThere
    <3>2. binding[p] \in texts
      BY <1>5, <2>3
    <3>. QED BY <3>1, <3>2 DEF SortOf
  <2>. QED BY <2>1, <2>2, <2>3, PathsUnfold
<1>. QED BY <1>4, <1>6 DEF BoundSorts

\* and the calls.
LEMMA CallsSorted ==
    ASSUME NEW r \in Renderings, NEW ids, NEW all, NEW m, NEW queue, NEW binding,
           Began(queue, binding, m, r, ids, all), Diffable(m), NEW texts, NEW subs,
           CachedSorts(m.top.old, texts, subs)
    PROVE  OnSubPages(queue, subs)
<1> DEFINE base == m.top.old
<1>1. /\ IsMatching(m, base, r, ids, all) /\ IsRendered(r)
      /\ \A k \in 1..Len(queue) : queue[k].op # "append" => PlanAsks(queue[k], m, r)
  BY BeganAsks, RenderingType DEF Began
<1>2. ASSUME NEW k \in 1..Len(queue), queue[k].op \in {"rename", "archive"} PROVE queue[k].id \in subs
  <2> DEFINE o == queue[k]
  <2>1. PlanAsks(o, m, r) /\ o.op \in {"rename", "archive"}
    BY <1>1, <1>2
  <2> HIDE DEF o
  <2>2. ASSUME NEW x \in 0..Len(r), ListAsks(o, PathOf(r, x), ListOf(m, x)) PROVE FALSE
    <3>1. ASSUME NEW i \in Acting(ListOf(m, x)), o = SiblingOp(PathOf(r, x), ListOf(m, x), i) PROVE FALSE
      BY <2>1, <3>1, SiblingOpMakes
    <3>2. ASSUME NEW i \in Removed(ListOf(m, x)), o = ClearOp("remove", ListOf(m, x), i) PROVE FALSE
      BY <2>1, <3>2 DEF ClearOp
    <3>. QED BY <2>2, <3>1, <3>2 DEF ListAsks
  <2>3. CASE \E i \in Drifted(m.top) : o = RenameOp(m.top, i)
    <3>1. PICK i \in Drifted(m.top) : o = RenameOp(m.top, i)
      BY <2>3
    <3>2. i \in 1..Len(m.top.new) /\ m.top.new[i].kind = "page"
      BY <1>1 DEF Drifted, IsMatching, IsRendered
    <3>3. PICK w : IsEntry(m.top.old, w, m.top.new[i])
      <4> DEFINE list == m.top
      <4>1. /\ IsBase(list.old, ids, all) /\ IsRendered(list.new) /\ UniqueKeys(list.old)
            /\ list.kept \subseteq CommonKeys(list.old, list.new) /\ i \in Drifted(list)
        BY <1>1 DEF IsMatching, IsDiff, Diffable
      <4> HIDE DEF list
      <4>2. \E w : IsEntry(list.old, w, list.new[i])
        BY <3>2, <4>1, SetsEntry DEF list
      <4>. QED BY <4>2 DEF list
    <3>4. o.id = m.top.old[w].id /\ w \in DOMAIN m.top.old /\ m.top.old[w].kind = "page"
      BY <3>1, <3>2, <3>3 DEF IsEntry, Matches, RenameOp
    <3>. QED BY <3>4 DEF CachedSorts, SortOf, o
  <2>4. CASE \E i \in Archived(m.top) : o = ClearOp("archive", m.top, i)
    BY <2>4 DEF Archived, ClearOp, CachedSorts, SortOf, o
  <2>. QED BY <2>1, <2>2, <2>3, <2>4 DEF PlanAsks
<1>. QED BY <1>2 DEF OnSubPages

----------------------------------------------------------------------------
(* Every step of a sync keeps to the rendering and to the sorts of ids *)

\* What a sync is about while it is under way.
Underway ==
    /\ Prepared(calls, bound, rendering, tidy)
    /\ Apt(calls, bound, rendering)
    /\ Rooted(bound, rendering)
    /\ AllGrow(work, calls, bound, rendering)

Course == Order /\ Distinct /\ Sorted /\ Underway

\* Nothing is under way.
LEMMA NothingUnderway ==
    ASSUME NEW r, NEW orderly
    PROVE  /\ Prepared(<<>>, <<>>, r, orderly) /\ Apt(<<>>, <<>>, r) /\ Rooted(<<>>, r)
           /\ AllGrow(<<>>, <<>>, <<>>, r)
           /\ \A texts, subs : BoundSorts(<<>>, r, texts, subs) /\ OnSubPages(<<>>, subs)
<1>1. DOMAIN <<>> = {} /\ Len(<<>>) = 0 /\ 1..0 = {}
  OBVIOUS
<1>. QED BY <1>1 DEF Prepared, Apt, Rooted, AllGrow, BoundSorts, OnSubPages

\* A sync has ended, or has not begun.
LEMMA EndsUnderway ==
    ASSUME calls' = <<>>, bound' = <<>>, work' = <<>>
    PROVE  Underway'
<1>1. calls' = <<>> /\ bound' = <<>> /\ work' = <<>>
  OBVIOUS
<1>2. /\ Prepared(<<>>, <<>>, rendering', tidy') /\ Apt(<<>>, <<>>, rendering')
      /\ Rooted(<<>>, rendering') /\ AllGrow(<<>>, <<>>, <<>>, rendering')
  BY NothingUnderway
<1>3. Prepared(calls', bound', rendering', tidy') /\ Apt(calls', bound', rendering')
  BY <1>1, <1>2
<1>4. Rooted(bound', rendering') /\ AllGrow(work', calls', bound', rendering')
  BY <1>1, <1>2
<1>. QED BY <1>3, <1>4 DEF Underway

\* The sorts are those of the page and the cache then.
LEMMA EndsSorted ==
    ASSUME calls' = <<>>, bound' = <<>>, work' = <<>>,
           NEW texts, NEW subs, texts \subseteq Live', subs \subseteq Minted', texts \cap subs = {},
           page' \in Seq(LiveSorts(texts, subs)), cache' \in Seq(EntrySorts(texts, subs))
    PROVE  Sorted'
<1>1. calls' = <<>> /\ bound' = <<>> /\ work' = <<>>
  OBVIOUS
<1>2. BoundSorts(<<>>, rendering', texts, subs) /\ OnSubPages(<<>>, subs)
  BY NothingUnderway
<1>3. BoundSorts(bound', rendering', texts, subs) /\ OnSubPages(calls', subs)
  BY <1>1, <1>2
<1>4. work' \in Seq(EntrySorts(texts, subs))
  BY <1>1
<1>5. Sorts(texts, subs)'
  BY <1>3, <1>4 DEF Sorts
<1>. QED BY <1>5 DEF Sorted

\* What a sync begins with.
LEMMA BeginsBegan ==
    ASSUME Types, NEW m, m = Matching(Base(page, cache), rendering), Diffable(m)
    PROVE  /\ Began(Calls(Plan(m)), Inherited(m), m, rendering, Minted, Live)
           /\ m.top.old = Base(page, cache)
           /\ IsBase(m.top.old, Minted, Live) /\ IsBaseOf(m.top.old, page, cache)
<1>1. IsMatching(m, Base(page, cache), rendering, Minted, Live)
  BY BeginsTyped
<1>2. m.top.old = Base(page, cache) /\ rendering \in Renderings /\ Minted \subseteq Live
  BY <1>1 DEF IsMatching, Live, Types
<1>3. Passed(Inherited(m), m, rendering)
  BY <1>1, <1>2, InheritedPasses
<1>4. IsBase(Base(page, cache), Minted, Live) /\ IsBaseOf(Base(page, cache), page, cache)
  BY BaseIs DEF Types
<1>. QED BY <1>1, <1>2, <1>3, <1>4 DEF Began

\* No child of the base has the id of a child of the page.
LEMMA BaseLevels ==
    ASSUME Types, Apart
    PROVE  LevelsDiffer(Base(page, cache))
<1> DEFINE base == Base(page, cache)
<1>1. IsBaseOf(base, page, cache)
  BY BaseIs DEF Types
<1> HIDE DEF base
<1>2. PICK tops, ids : Levels(tops, ids)
  BY DEF Apart
<1>3. /\ tops \cap ids = {} /\ page \in Seq(LiveLevels(tops, ids))
      /\ cache \in Seq(EntryLevels(tops, ids))
  BY <1>2 DEF Levels
<1>4. \A i \in DOMAIN page : page[i].id \in tops
  <2>1. \A i \in DOMAIN page : page[i] \in LiveLevels(tops, ids)
    BY <1>3
  <2>. QED BY <2>1 DEF LiveLevels
<1>5. \A e \in ToSet(cache) : \A k \in DOMAIN e.kids : e.kids[k].id \in ids
  <2> SUFFICES ASSUME NEW e \in ToSet(cache), NEW k \in DOMAIN e.kids PROVE e.kids[k].id \in ids
    OBVIOUS
  <2>1. e \in EntryLevels(tops, ids)
    BY <1>3 DEF ToSet
  <2>2. e.kids \in Seq(LeafEntries(ids))
    BY <2>1 DEF EntryLevels
  <2>3. e.kids[k] \in LeafEntries(ids)
    BY <2>2
  <2>. QED BY <2>3 DEF LeafEntries
<1>6. ASSUME NEW i \in DOMAIN base, NEW j \in DOMAIN base, NEW k \in DOMAIN base[j].kids
      PROVE  base[i].id # base[j].kids[k].id
  <2>1. base[i].id \in tops
    BY <1>1, <1>4 DEF IsBaseOf
  <2>2. base[j] \in ToSet(cache)
    BY <1>1 DEF IsBaseOf
  <2>3. base[j].kids[k].id \in ids
    BY <1>5, <2>2
  <2>. QED BY <1>3, <2>1, <2>3
<1>. QED BY <1>6 DEF LevelsDiffer, base

\* A sync begins.
LEMMA BeginInCourse ==
    ASSUME Order, Distinct, Sorted, NEW m, m = Matching(Base(page, cache), rendering), Begin(m)
    PROVE  Sorted' /\ Underway'
<1> DEFINE queue == Calls(Plan(m))
           b == Inherited(m)
           t == Confirmed(m.top.old)
           base == Base(page, cache)
<1>1. /\ Diffable(m) /\ calls' = queue /\ bound' = b /\ work' = t /\ tidy' = PagesComeLast(m.top)
      /\ UNCHANGED <<page, cache, rendering, nextId>>
  BY DEF Begin
<1>2. Types /\ Apart /\ rendering \in Renderings
  BY DEF Order, Inv, Types
<1>3. /\ Began(queue, b, m, rendering, Minted, Live) /\ m.top.old = base
      /\ IsBase(base, Minted, Live) /\ IsBaseOf(base, page, cache)
  BY <1>1, <1>2, BeginsBegan
<1> HIDE DEF queue, b
<1>4. PICK texts, subs : Sorts(texts, subs)
  BY DEF Sorted
<1>5. CachedSorts(base, texts, subs)
  BY <1>2, <1>4, BaseSorted
<1> HIDE DEF base
<1>6. t \in Seq(EntrySorts(texts, subs))
  BY <1>3, <1>5, ConfirmedSorted
<1>7. BoundSorts(b, rendering, texts, subs) /\ LeafyLists(m, rendering)
  BY <1>2, <1>3, <1>5, InheritedSorted
<1>8. OnSubPages(queue, subs)
  BY <1>1, <1>2, <1>3, <1>5, CallsSorted
<1>9. Minted' = Minted /\ Live' = Live
  BY <1>1 DEF Minted, Live
<1>10. Sorts(texts, subs)'
  <2>1. /\ texts \subseteq Live' /\ subs \subseteq Minted' /\ texts \cap subs = {}
        /\ page' \in Seq(LiveSorts(texts, subs)) /\ cache' \in Seq(EntrySorts(texts, subs))
    BY <1>1, <1>4, <1>9 DEF Sorts
  <2>2. /\ work' \in Seq(EntrySorts(texts, subs)) /\ BoundSorts(bound', rendering', texts, subs)
        /\ OnSubPages(calls', subs)
    BY <1>1, <1>6, <1>7, <1>8
  <2>. QED BY <2>1, <2>2 DEF Sorts
<1>11. Sole(base) /\ LevelsDiffer(base)
  <2>1. IdsDiffer(page) /\ Sole(cache)
    BY DEF Distinct
  <2>2. Sole(base)
    BY <1>3, <2>1, SoleBase
  <2>3. LevelsDiffer(base)
    BY <1>2, BaseLevels DEF base
  <2>. QED BY <2>2, <2>3
<1>12. Prepared(queue, b, rendering, PagesComeLast(m.top)) /\ Rooted(b, rendering)
  BY <1>2, <1>3, BeganPrepared, BeganRooted
<1>13. Apt(queue, b, rendering)
  <2>1. Sole(m.top.old) /\ LevelsDiffer(m.top.old) /\ Diffable(m)
    BY <1>1, <1>3, <1>11
  <2>. QED BY <1>2, <1>3, <2>1, BeganApt
<1>14. AllGrow(t, queue, b, rendering)
  <2>1. AllLongest(m, rendering)
    <3>1. m = Matching(base, rendering)
      BY DEF base
    <3>. QED BY <1>1, <1>2, <3>1, MatchingKeeps
  <2>. QED BY <1>2, <1>3, <1>7, <2>1, BeganGrows
<1>15. Underway'
  BY <1>1, <1>12, <1>13, <1>14 DEF Underway
<1>. QED BY <1>10, <1>15 DEF Sorted

\* What is under way goes on when a call lands.
LEMMA GoesOnUnderway ==
    ASSUME Types, InTurn, Sole(work), BindsDiffer(bound), Underway, Calling,
           NEW first \in Nat, first >= nextId, UNCHANGED <<rendering, tidy>>,
           work' = Recorded(work, Head(calls), first),
           bound' = Binds(Head(calls), first), calls' = Tail(calls)
    PROVE  Underway'
<1> DEFINE call == Head(calls)
<1>1. IsNext(call, rendering) /\ Apt(calls, bound, rendering) /\ Rooted(bound, rendering)
      /\ AllGrow(work, calls, bound, rendering)
  BY HeadIsNext DEF Underway
<1>2. Prepared(Tail(calls), Binds(call, first), rendering, tidy)
  <2>1. calls \in Seq(PlanCalls(rendering, Minted, Live)) /\ calls # <<>>
    BY DEF Types, Calling
  <2>. QED BY <2>1, PreparedGoesOn DEF Underway
<1>3. Apt(Tail(calls), Binds(call, first), rendering)
  BY <1>1, AptGoesOn
<1>4. Rooted(Binds(call, first), rendering)
  BY <1>1, RootedGoesOn
<1>5. AllGrow(Recorded(work, call, first), Tail(calls), Binds(call, first), rendering)
  BY <1>1, AllGrowGoesOn
<1>6. /\ work' = Recorded(work, call, first) /\ bound' = Binds(call, first) /\ calls' = Tail(calls)
      /\ rendering' = rendering /\ tidy' = tidy
  OBVIOUS
<1> HIDE DEF call
<1>7. /\ Prepared(calls', bound', rendering', tidy') /\ Apt(calls', bound', rendering')
      /\ Rooted(bound', rendering') /\ AllGrow(work', calls', bound', rendering')
  BY <1>2, <1>3, <1>4, <1>5, <1>6
<1>. QED BY <1>7 DEF Underway

\* A call lands and is recorded.
LEMMA SendInCourse ==
    ASSUME Order, Distinct, Sorted, Underway, Send
    PROVE  Sorted' /\ Underway'
<1> DEFINE call == Head(calls)
           next == nextId + Len(Created(call))
<1>1. /\ Calling /\ UNCHANGED <<rendering, tidy>> /\ page' = Landed(page, call, nextId)
      /\ work' = Recorded(work, call, nextId) /\ cache' \in {work', cache}
      /\ bound' = Binds(call, nextId) /\ nextId' = next /\ calls' = Tail(calls)
  BY DEF Send, history
<1>2. /\ Types /\ InTurn /\ nextId \in Nat /\ nextId >= nextId
      /\ Sole(work) /\ BindsDiffer(bound) /\ rendering' = rendering
  BY <1>1 DEF Order, Inv, Types, Distinct
<1>3. next \in Nat /\ next >= nextId
  BY <1>1, <1>2, LandsOnPage DEF Order
<1>4. IsNext(call, rendering)
  BY <1>1, <1>2, HeadIsNext DEF Underway
<1>5. PICK texts, subs : Sorts(texts, subs)
  BY DEF Sorted
<1> HIDE DEF call, next
<1>6. PICK moreTexts, moreSubs : Grown(moreTexts, moreSubs, texts, subs, next, call.op = "create")
  BY <1>2, <1>3, <1>5, SortsGrow
<1>7. page \in Seq(LiveSorts(moreTexts, moreSubs))
  BY <1>5, <1>6, MoreSorts DEF Sorts, Grown
<1>8. Sorts(moreTexts, moreSubs)'
  BY <1>1, <1>2, <1>4, <1>5, <1>6, <1>7, GoesOnSorted DEF call, next
<1>9. Underway'
  BY <1>1, <1>2, GoesOnUnderway DEF call
<1>. QED BY <1>8, <1>9 DEF Sorted

\* The first of two landings.
LEMMA FirstLandingSorted ==
    ASSUME Types, InTurn, Calling, IsNext(Head(calls), rendering),
           NEW texts, NEW subs, Sorts(texts, subs),
           NEW moreTexts, NEW moreSubs, NEW next \in Nat,
           next >= nextId + Len(Created(Head(calls))),
           Grown(moreTexts, moreSubs, texts, subs, next, Head(calls).op = "create")
    PROVE  Landed(page, Head(calls), nextId) \in Seq(LiveSorts(moreTexts, moreSubs))
<1> DEFINE call == Head(calls)
<1>1. call \in PlanCalls(rendering, Minted, Live) /\ nextId \in Nat
  BY TailIs DEF Types, Calling
<1>2. /\ next >= nextId + Len(Created(call))
      /\ Grown(moreTexts, moreSubs, texts, subs, next, call.op = "create")
  OBVIOUS
<1> HIDE DEF call
<1>3. Len(Created(call)) \in Nat
  BY <1>1, CreatedType DEF Types
<1>4. \A k \in 1..Len(Created(call)) : nextId + k - 1 \in nextId..(next - 1)
  BY <1>1, <1>2, <1>3
<1>5. \A k \in 1..Len(Created(call)) :
            nextId + k - 1 \in IF call.op = "create" THEN moreSubs ELSE moreTexts
  BY <1>2, <1>4 DEF Grown
<1>6. BoundSorts(bound, rendering, moreTexts, moreSubs)
  BY DEF Sorts, Grown, BoundSorts, SortOf
<1>7. page \in Seq(LiveSorts(moreTexts, moreSubs)) /\ cache \in Seq(EntrySorts(moreTexts, moreSubs))
  BY MoreSorts DEF Sorts, Grown
<1>. QED BY <1>1, <1>5, <1>6, <1>7, LandsSorted DEF call

\* A call lands twice, and its second answer is recorded.
LEMMA SendTwiceInCourse ==
    ASSUME Order, Distinct, Sorted, Underway, SendTwice
    PROVE  Sorted' /\ Underway'
<1> DEFINE call == Head(calls)
           again == nextId + Len(Created(call))
           next == again + Len(Created(call))
           tree == Landed(page, call, nextId)
<1>1. /\ Calling /\ UNCHANGED <<rendering, tidy>> /\ page' = Landed(tree, call, again)
      /\ work' = Recorded(work, call, again) /\ cache' \in {work', cache}
      /\ bound' = Binds(call, again) /\ nextId' = next /\ calls' = Tail(calls)
  BY DEF SendTwice
<1>2. /\ Types /\ InTurn /\ nextId \in Nat
      /\ Sole(work) /\ BindsDiffer(bound) /\ rendering' = rendering
  BY <1>1 DEF Order, Inv, Types, Distinct
<1>3. again \in Nat /\ again >= nextId /\ next \in Nat /\ next >= again /\ next >= nextId
  <2>1. call \in PlanCalls(rendering, Minted, Live)
    BY <1>1, <1>2, TailIs DEF Types, Calling
  <2> HIDE DEF call
  <2>2. Len(Created(call)) \in Nat
    BY <1>2, <2>1, CreatedType DEF Types
  <2>3. QED
    BY <1>2, <2>2
<1>4. IsNext(call, rendering)
  BY <1>1, <1>2, HeadIsNext DEF Underway
<1>5. PICK texts, subs : Sorts(texts, subs)
  BY DEF Sorted
<1> HIDE DEF next
<1>6. PICK moreTexts, moreSubs : Grown(moreTexts, moreSubs, texts, subs, next, call.op = "create")
  BY <1>2, <1>3, <1>5, SortsGrow
<1>7. tree \in Seq(LiveSorts(moreTexts, moreSubs))
  BY <1>1, <1>2, <1>3, <1>4, <1>5, <1>6, FirstLandingSorted
<1> HIDE DEF tree, again, call
<1>8. nextId' = again + Len(Created(call))
  BY <1>1 DEF next
<1>9. Sorts(moreTexts, moreSubs)'
  BY <1>1, <1>2, <1>3, <1>4, <1>5, <1>6, <1>7, <1>8, GoesOnSorted DEF call
<1>10. Underway'
  BY <1>1, <1>2, <1>3, GoesOnUnderway DEF call
<1>. QED BY <1>9, <1>10 DEF Sorted

\* A call lands and the sync ends.
LEMMA LoseAnswerInCourse ==
    ASSUME Order, Sorted, Underway, LoseAnswer
    PROVE  Sorted' /\ Underway'
<1> DEFINE call == Head(calls)
           next == nextId + Len(Created(call))
           tree == Landed(page, call, nextId)
<1>1. Calling /\ page' = tree /\ nextId' = next /\ Ends("failed") /\ UNCHANGED cache
  BY DEF LoseAnswer
<1>2. Types /\ InTurn /\ nextId \in Nat
  BY DEF Order, Inv, Types
<1>3. next \in Nat /\ next >= nextId
  BY <1>1, LandsOnPage DEF Order
<1>4. IsNext(call, rendering)
  BY <1>1, <1>2, HeadIsNext DEF Underway
<1>5. PICK texts, subs : Sorts(texts, subs)
  BY DEF Sorted
<1>6. PICK moreTexts, moreSubs : Grown(moreTexts, moreSubs, texts, subs, next, call.op = "create")
  <2> HIDE DEF call, next
  <2> QED
    BY <1>2, <1>3, <1>5, SortsGrow
<1>7. tree \in Seq(LiveSorts(moreTexts, moreSubs))
  <2>1. next >= nextId + Len(Created(Head(calls)))
    BY <1>3
  <2> HIDE DEF next
  <2>2. QED
    BY <1>1, <1>2, <1>3, <1>4, <1>5, <1>6, <2>1, FirstLandingSorted
<1> HIDE DEF tree, next, call
<1>8. cache \in Seq(EntrySorts(moreTexts, moreSubs))
  BY <1>5, <1>6, MoreSorts DEF Sorts, Grown
<1>9. Minted' = Before(next) /\ Live' = Before(next) \cup Foreign
  BY <1>1 DEF Minted, Live, Before
<1>10. moreTexts \subseteq Live' /\ moreSubs \subseteq Minted' /\ moreTexts \cap moreSubs = {}
  BY <1>6, <1>9 DEF Grown
<1>11. page' \in Seq(LiveSorts(moreTexts, moreSubs)) /\ cache' \in Seq(EntrySorts(moreTexts, moreSubs))
  BY <1>1, <1>7, <1>8
<1>. QED BY <1>1, <1>10, <1>11, EndsSorted, EndsUnderway DEF Ends

\* The snapshot is sorted as the ids that are bound.
LEMMA SnapshotSorted ==
    ASSUME Types, DOMAIN bound = Paths(rendering), NEW texts, NEW subs,
           BoundSorts(bound, rendering, texts, subs)
    PROVE  Snapshot \in Seq(EntrySorts(texts, subs))
<1> DEFINE t == Snapshot
           r == rendering
<1>1. r \in Renderings /\ r \in Seq(Nodes)
  BY RenderingType DEF Types, IsRendered
<1>2. t \in Seq(NodeEntries(Minted))
  <2>1. \A p \in Paths(r) : bound[p] \in Minted
    BY DEF Types, IsBinding
  <2>2. Tops(r) \subseteq Paths(r)
    BY <1>1, TopsUnfold
  <2>3. Snapshot \in Seq(EntryLevels(Minted, Minted))
    BY <1>1, <2>1, <2>2, SnapshotType
  <2>. QED BY <2>3 DEF NodeEntries
<1>3. IsSnapshot(t, r, bound)
  BY <1>1, SnapshotIs
<1> HIDE DEF t
<1>4. Len(t) = Len(r) /\ Len(r) \in Nat
  BY <1>1, <1>2, <1>3 DEF IsSnapshot
<1>5. ASSUME NEW x \in 1..Len(t)
      PROVE  /\ t[x].id \in IF t[x].kind = "page" THEN subs ELSE texts
             /\ \A k \in 1..Len(t[x].kids) : t[x].kids[k].kind = "block" /\ t[x].kids[k].id \in texts
  <2>1. NodesThere(r, x)
    BY <1>1, <1>4, NodesAreThere
  <2>2. /\ <<r[x].key>> \in Paths(r)
        /\ \A k \in 1..Len(r[x].kids) : <<r[x].key, r[x].kids[k].key>> \in Paths(r)
    BY <1>1, <1>4, TopsUnfold
  <2>3. t[x].id = bound[<<r[x].key>>] /\ t[x].kind = r[x].kind
    BY <1>3, <1>4 DEF IsSnapshot, Saves
  <2>4. \A k \in 1..Len(t[x].kids) : /\ k \in 1..Len(r[x].kids)
                                     /\ t[x].kids[k].kind = r[x].kids[k].kind
                                     /\ t[x].kids[k].id = bound[<<r[x].key, r[x].kids[k].key>>]
    <3>1. /\ x \in 1..Len(r) /\ Len(t[x].kids) = Len(r[x].kids)
          /\ \A k \in 1..Len(r[x].kids) :
                Saves(t[x].kids[k], r[x].kids[k], bound[<<r[x].key, r[x].kids[k].key>>])
      BY <1>3, <1>4 DEF IsSnapshot
    <3>. QED BY <3>1 DEF Saves
  <2>5. t[x].id \in IF t[x].kind = "page" THEN subs ELSE texts
    BY <2>1, <2>2, <2>3 DEF NodesThere, BoundSorts, SortOf
  <2>6. ASSUME NEW k \in 1..Len(t[x].kids)
        PROVE  t[x].kids[k].kind = "block" /\ t[x].kids[k].id \in texts
    <3>1. bound[<<r[x].key, r[x].kids[k].key>>] \in SortOf(r[x].kids[k], texts, subs)
      BY <2>1, <2>2, <2>4 DEF NodesThere, BoundSorts
    <3>2. r[x].kids[k].kind = "block"
      BY <2>1, <2>4 DEF NodesThere
    <3>. QED BY <2>4, <3>1, <3>2 DEF SortOf
  <2>. QED BY <2>5, <2>6
<1>6. t \in Seq(EntrySorts(texts, subs))
  BY <1>2, <1>5, EntriesSorted
<1>. QED BY <1>6 DEF t

\* A sync ends, and nothing lands.
LEMMA QuietEndsInCourse ==
    ASSUME Order, Sorted, Finish \/ Rejected \/ Stop
    PROVE  Sorted' /\ Underway'
<1>1. /\ calls' = <<>> /\ bound' = <<>> /\ work' = <<>>
      /\ UNCHANGED <<page, nextId>>
  BY DEF Finish, Rejected, Stop, Ends
<1>2. PICK texts, subs : Sorts(texts, subs)
  BY DEF Sorted
<1>3. Minted' = Minted /\ Live' = Live
  BY <1>1 DEF Minted, Live
<1>4. cache' \in Seq(EntrySorts(texts, subs))
  <2>1. CASE Finish
    <3>1. Types /\ DOMAIN bound = Paths(rendering) /\ cache' = Snapshot
      BY <2>1, FinishTyped DEF Order, Inv, Finish
    <3>. QED BY <1>2, <3>1, SnapshotSorted DEF Sorts
  <2>2. CASE Rejected \/ Stop
    BY <1>2, <2>2 DEF Rejected, Stop, Sorts
  <2>. QED BY <2>1, <2>2
<1>5. /\ texts \subseteq Live' /\ subs \subseteq Minted' /\ texts \cap subs = {}
      /\ page' \in Seq(LiveSorts(texts, subs))
  BY <1>1, <1>2, <1>3 DEF Sorts
<1>. QED BY <1>1, <1>4, <1>5, EndsSorted, EndsUnderway

\* Steps that leave the sync alone, and add foreign blocks to the page at most.
LEMMA AsideInCourse ==
    ASSUME Order, Underway, UNCHANGED <<rendering, syncVars, nextId, tidy>>,
           NEW texts, NEW subs, Sorts(texts, subs),
           page' \in Seq(LiveSorts(texts \cup Foreign, subs)),
           cache' \in {cache, <<>>}
    PROVE  Sorted' /\ Underway'
<1> DEFINE more == texts \cup Foreign
<1>1. Minted' = Minted /\ Live' = Live /\ UNCHANGED <<rendering, calls, bound, work, tidy>>
  BY DEF Minted, Live, syncVars
<1>2. nextId \in Nat /\ Foreign \cap Nat = {}
  BY PageAssumption DEF ConstantsAssumption, Order, Inv, Types
<1>3. texts \subseteq more /\ more \subseteq Live' /\ more \cap subs = {}
  <2>1. texts \subseteq more /\ more \subseteq Live'
    BY <1>1 DEF Sorts, Live
  <2>2. subs \subseteq Nat
    BY <1>2 DEF Sorts, Minted
  <2>3. texts \cap subs = {}
    BY DEF Sorts
  <2>. QED BY <1>2, <2>1, <2>2, <2>3
<1>4. page' \in Seq(LiveSorts(more, subs))
  OBVIOUS
<1> HIDE DEF more
<1>5. cache \in Seq(EntrySorts(more, subs)) /\ work \in Seq(EntrySorts(more, subs))
  BY <1>3, MoreSorts DEF Sorts
<1>6. cache' \in Seq(EntrySorts(more, subs)) /\ work' \in Seq(EntrySorts(more, subs))
  <2>1. <<>> \in Seq(EntrySorts(more, subs))
    OBVIOUS
  <2>. QED BY <1>1, <1>5, <2>1
<1>7. BoundSorts(bound', rendering', more, subs) /\ OnSubPages(calls', subs)
  <2>1. BoundSorts(bound, rendering, more, subs) /\ OnSubPages(calls, subs)
    BY <1>3 DEF Sorts, BoundSorts, SortOf
  <2>. QED BY <1>1, <2>1
<1>8. Sorts(more, subs)'
  BY <1>1, <1>3, <1>4, <1>6, <1>7 DEF Sorts
<1>9. Underway'
  <2>1. /\ Prepared(calls', bound', rendering', tidy') /\ Apt(calls', bound', rendering')
        /\ Rooted(bound', rendering') /\ AllGrow(work', calls', bound', rendering')
    BY <1>1 DEF Underway
  <2>. QED BY <2>1 DEF Underway
<1>. QED BY <1>8, <1>9 DEF Sorted

\* Others add, remove and move children of the page.
LEMMA EditInCourse ==
    ASSUME Order, Sorted, Underway, Edit
    PROVE  Sorted' /\ Underway'
<1>1. PICK texts, subs : Sorts(texts, subs)
  BY DEF Sorted
<1> DEFINE N == LiveSorts(texts \cup Foreign, subs)
           L == LiveTexts(texts \cup Foreign)
<1>2. page \in Seq(N)
  <2>1. texts \subseteq texts \cup Foreign
    OBVIOUS
  <2>2. QED
    BY <1>1, <2>1, MoreSorts DEF Sorts
<1>3. AreNodes(N, L) /\ L \subseteq N
  BY LiveSortsAreNodes
<1>4. \A u \in Foreign : Block([kind |-> "block", hash |-> Ghost], u) \in L
  BY DEF Block, LiveTexts
<1>5. \A u \in Foreign : Block([kind |-> "block", hash |-> Ghost], u) \in N
  BY <1>3, <1>4
<1> HIDE DEF N, L
<1>6. \A id : Without(page, id) \in Seq(N)
  BY <1>2, <1>3, WithoutType
<1>7. page' \in Seq(N)
  <2>1. CASE \E n \in ToSet(page) : page' = Without(page, n.id)
    BY <1>6, <2>1
  <2>2. CASE \E u \in Foreign \ Ids(page) :
                page' = Append(page, Block([kind |-> "block", hash |-> Ghost], u))
    BY <1>2, <1>5, <2>2, AppendIs
  <2>3. CASE \E n \in ToSet(page) : page' = <<n>> \o Without(page, n.id)
    <3>1. PICK n \in ToSet(page) : page' = <<n>> \o Without(page, n.id)
      BY <2>3
    <3>2. n \in N
      BY <1>2 DEF ToSet
    <3>3. <<n>> \in Seq(N)
      BY <3>2
    <3>4. QED
      BY <1>6, <3>1, <3>3, JoinedIs
  <2>4. QED
    BY <2>1, <2>2, <2>3 DEF Edit
<1>8. UNCHANGED <<cache, rendering, syncVars, nextId, tidy>>
  BY DEF Edit
<1>9. QED
  BY <1>1, <1>7, <1>8, AsideInCourse DEF N

\* The page stays as it is.
LEMMA OtherStepsInCourse ==
    ASSUME Order, Sorted, Underway, \/ LoseCache
                                    \/ \E m : Refuse(m)
                                    \/ UNCHANGED vars
    PROVE  Sorted' /\ Underway'
<1>1. PICK texts, subs : Sorts(texts, subs)
  BY DEF Sorted
<1>2. UNCHANGED <<page, rendering, syncVars, nextId, tidy>> /\ cache' \in {cache, <<>>}
  BY DEF LoseCache, Refuse, vars, history
<1>3. page' \in Seq(LiveSorts(texts \cup Foreign, subs))
  <2>1. texts \subseteq texts \cup Foreign
    OBVIOUS
  <2>2. QED
    BY <1>1, <1>2, <2>1, MoreSorts DEF Sorts
<1>4. QED
  BY <1>1, <1>2, <1>3, AsideInCourse

\* No sync is under way when the rendering changes.
LEMMA RenderInCourse ==
    ASSUME Order, Sorted, NEW r \in Renderings, Render(r)
    PROVE  Sorted' /\ Underway'
<1>1. PICK texts, subs : Sorts(texts, subs)
  BY DEF Sorted
<1>2. phase = "idle" /\ UNCHANGED <<page, cache, calls, bound, work, nextId>>
  BY DEF Render, syncVars
<1>3. calls = <<>> /\ bound = <<>> /\ work = <<>>
  BY <1>2 DEF Order, Inv, Idle
<1>4. Minted' = Minted /\ Live' = Live
  BY <1>2 DEF Minted, Live
<1>5. /\ calls' = <<>> /\ bound' = <<>> /\ work' = <<>>
      /\ texts \subseteq Live' /\ subs \subseteq Minted' /\ texts \cap subs = {}
      /\ page' \in Seq(LiveSorts(texts, subs)) /\ cache' \in Seq(EntrySorts(texts, subs))
  BY <1>1, <1>2, <1>3, <1>4 DEF Sorts
<1>. QED BY <1>5, EndsSorted, EndsUnderway

\* At first only a foreign block is there.
LEMMA InitInCourse ==
    ASSUME Init
    PROVE  Course
<1>1. /\ cache = <<>> /\ calls = <<>> /\ bound = <<>> /\ work = <<>> /\ nextId = 1
  BY DEF Init
<1>2. page \in Seq(LiveSorts(Foreign, {}))
  <2>1. \A u \in Foreign : Block([kind |-> "block", hash |-> Ghost], u) \in LiveTexts(Foreign)
    BY DEF Block, LiveTexts
  <2>2. LiveTexts(Foreign) \subseteq LiveSorts(Foreign, {})
    BY LiveSortsAreNodes
  <2>3. \A u \in Foreign : Block([kind |-> "block", hash |-> Ghost], u) \in LiveSorts(Foreign, {})
    BY <2>1, <2>2
  <2>4. \/ page = <<>>
        \/ \E u \in Foreign : page = <<Block([kind |-> "block", hash |-> Ghost], u)>>
    BY DEF Init
  <2>5. \A n \in LiveSorts(Foreign, {}) : <<n>> \in Seq(LiveSorts(Foreign, {}))
    OBVIOUS
  <2>6. \A S : <<>> \in Seq(S)
    OBVIOUS
  <2>. QED BY <2>3, <2>4, <2>5, <2>6
<1>3. BoundSorts(bound, rendering, Foreign, {}) /\ OnSubPages(calls, {})
  BY <1>1, NothingUnderway
<1>4. \A S : <<>> \in Seq(S)
  OBVIOUS
<1>5. Sorts(Foreign, {})
  BY <1>1, <1>2, <1>3, <1>4 DEF Sorts, Live
<1>6. Underway
  BY <1>1, NothingUnderway DEF Underway
<1>. QED BY <1>5, <1>6, InitInOrder, InitDistinct DEF Course, Sorted

\* Every step keeps to its course.
LEMMA StepInCourse ==
    ASSUME Course, [Next]_vars
    PROVE  Course'
<1>0. Order /\ Distinct /\ Sorted /\ Underway
  BY DEF Course
<1>1. Order' /\ Distinct'
  BY <1>0, StepInOrder, StepDistinct
<1>2. Sorted' /\ Underway'
  <2>1. CASE \E r \in Renderings : Render(r)
    BY <1>0, <2>1, RenderInCourse
  <2>2. CASE Sync
    <3>1. PICK m \in {Matching(Base(page, cache), rendering)} : Begin(m) \/ Refuse(m)
      BY <2>2 DEF Sync
    <3>. QED BY <1>0, <3>1, BeginInCourse, OtherStepsInCourse
  <2>3. CASE Send
    BY <1>0, <2>3, SendInCourse
  <2>4. CASE Finish \/ Rejected \/ Stop
    BY <1>0, <2>4, QuietEndsInCourse
  <2>5. CASE LoseAnswer
    BY <1>0, <2>5, LoseAnswerInCourse
  <2>6. CASE SendTwice
    BY <1>0, <2>6, SendTwiceInCourse
  <2>7. CASE Edit
    BY <1>0, <2>7, EditInCourse
  <2>8. CASE LoseCache \/ UNCHANGED vars
    BY <1>0, <2>8, OtherStepsInCourse
  <2>. QED BY <2>1, <2>2, <2>3, <2>4, <2>5, <2>6, <2>7, <2>8 DEF Next, Step
<1>. QED BY <1>1, <1>2 DEF Course

----------------------------------------------------------------------------
(* Trees that agree about contents *)

AgreeTrees(tree, entries) ==
    \A n \in ToSet(tree), b \in ToSet(entries) : n.id = b.id /\ n.kind = "block" => Agree(n, b)

\* The same payload, and the same children with theirs.
AlikeKids(s, t) ==
    Len(s) = Len(t) /\ \A i \in 1..Len(s) : s[i].id = t[i].id /\ s[i].hash = t[i].hash

\* Nodes whose lists of children are lists.
LEMMA AgreeIs ==
    ASSUME NEW S, NEW n, NEW b, n.kids \in Seq(S)
    PROVE  Agree(n, b) <=> n.hash = b.hash /\ AlikeKids(n.kids, b.kids)
<1> DEFINE s == n.kids
<1>1. DOMAIN s = 1..Len(s)
  <2>1. s \in Seq(S)
    OBVIOUS
  <2> HIDE DEF s
  <2>. QED BY <2>1
<1>. QED BY <1>1 DEF Agree, AlikeKids

\* New siblings come to the same place of lists with the same ids.
LEMMA AlikePlaced ==
    ASSUME NEW s, NEW t, AlikeKids(s, t), DOMAIN t = 1..Len(t), Len(t) \in Nat, IdsDiffer(t),
           NEW new, NEW other, AlikeKids(new, other), NEW at, NEW anchor,
           NEW u, IsPlaced(u, s, new, at, anchor), NEW v, IsPlaced(v, t, other, at, anchor)
    PROVE  AlikeKids(u, v)
<1>1. PICK c : IsPlacing(u, c, s, new) /\ CutAt(c, s, at, anchor)
  BY DEF IsPlaced
<1>2. PICK d : IsPlacing(v, d, t, other) /\ CutAt(d, t, at, anchor)
  BY DEF IsPlaced
<1>3. Len(s) = Len(t) /\ Len(new) = Len(other) /\ Len(new) \in Nat
      /\ c \in 0..Len(t) /\ d \in 0..Len(t)
  BY <1>1, <1>2 DEF AlikeKids, IsPlacing
<1>4. \A i \in 1..Len(t) : s[i].id = t[i].id /\ s[i].hash = t[i].hash
  BY <1>3 DEF AlikeKids
<1>5. c = d
  <2>1. \/ at = "head" /\ c = 0
        \/ at = "after" /\ c \in 1..Len(t) /\ t[c].id = anchor
        \/ at # "head" /\ c = Len(t) /\ (at = "after" => \A i \in 1..Len(t) : t[i].id # anchor)
    BY <1>1, <1>3, <1>4 DEF CutAt
  <2>2. \/ at = "head" /\ d = 0
        \/ at = "after" /\ d \in 1..Len(t) /\ t[d].id = anchor
        \/ at # "head" /\ d = Len(t) /\ (at = "after" => \A i \in 1..Len(t) : t[i].id # anchor)
    BY <1>2 DEF CutAt
  <2>3. \A i, j \in 1..Len(t) : t[i].id = t[j].id => i = j
    BY DEF IdsDiffer
  <2>4. CASE at = "head"
    BY <2>1, <2>2, <2>4
  <2>5. CASE at = "after"
    <3>1. CASE \A i \in 1..Len(t) : t[i].id # anchor
      BY <2>1, <2>2, <2>5, <3>1
    <3>2. CASE \E i \in 1..Len(t) : t[i].id = anchor
      <4>1. c \in 1..Len(t) /\ t[c].id = anchor
        BY <2>1, <2>5, <3>2
      <4>2. d \in 1..Len(t) /\ t[d].id = anchor
        BY <2>2, <2>5, <3>2
      <4>. QED BY <2>3, <4>1, <4>2
    <3>. QED BY <3>1, <3>2
  <2>6. CASE at # "head" /\ at # "after"
    BY <2>1, <2>2, <2>6
  <2>. QED BY <2>4, <2>5, <2>6
<1>6. Len(u) = Len(v)
  BY <1>1, <1>2, <1>3 DEF IsPlacing
<1>7. ASSUME NEW j \in 1..Len(u) PROVE u[j].id = v[j].id /\ u[j].hash = v[j].hash
  <2>1. CASE j \in 1..c /\ u[j] = s[j]
    <3>1. v[j] = t[j]
      BY <1>2, <1>5, <2>1 DEF IsPlacing
    <3>. QED BY <1>3, <1>4, <2>1, <3>1
  <2>2. CASE \E k \in 1..Len(new) : j = c + k /\ u[j] = new[k]
    <3>1. PICK k \in 1..Len(new) : j = c + k /\ u[j] = new[k]
      BY <2>2
    <3>2. v[j] = other[k]
      BY <1>2, <1>3, <1>5, <3>1 DEF IsPlacing
    <3>. QED BY <3>1, <3>2 DEF AlikeKids
  <2>3. CASE \E i \in (c + 1)..Len(s) : j = Len(new) + i /\ u[j] = s[i]
    <3>1. PICK i \in (c + 1)..Len(s) : j = Len(new) + i /\ u[j] = s[i]
      BY <2>3
    <3>2. v[j] = t[i]
      BY <1>2, <1>3, <1>5, <3>1 DEF IsPlacing
    <3>3. i \in 1..Len(t)
      BY <1>3, <3>1
    <3>. QED BY <1>4, <3>1, <3>2, <3>3
  <2>. QED BY <1>1, <2>1, <2>2, <2>3, PlacingCovers
<1>. QED BY <1>6, <1>7 DEF AlikeKids

\* What is left of them without an id has the same ids again.
LEMMA AlikeSieved ==
    ASSUME NEW S, NEW T, NEW s \in Seq(S), NEW t \in Seq(T), AlikeKids(s, t), NEW id
    PROVE  AlikeKids(Sieved(s, id), Sieved(t, id))
<1>1. Len(s) = Len(t) /\ DOMAIN s = 1..Len(s) /\ DOMAIN t = 1..Len(s)
      /\ \A i \in 1..Len(s) : s[i].id = t[i].id /\ s[i].hash = t[i].hash
  BY DEF AlikeKids
<1> DEFINE places == Others(s, id)
<1>2. places = Others(t, id) /\ places \in SUBSET (1..Len(s))
  BY <1>1 DEF Others
<1> HIDE DEF places
<1>3. PICK pos : /\ IsPicking(Picked(s, places), pos, s, places)
                 /\ IsPicking(Picked(t, places), pos, t, places)
                 /\ Len(Picked(s, places)) = Len(Picked(t, places))
  BY <1>1, <1>2, PickedTogether, SMTT(30)
<1>4. Sieved(s, id) = Picked(s, places) /\ Sieved(t, id) = Picked(t, places)
  BY <1>2 DEF Sieved, places
<1>5. ASSUME NEW k \in 1..Len(Picked(s, places))
      PROVE  /\ Picked(s, places)[k].id = Picked(t, places)[k].id
             /\ Picked(s, places)[k].hash = Picked(t, places)[k].hash
  <2>1. Picked(s, places)[k] = s[pos[k]] /\ Picked(t, places)[k] = t[pos[k]] /\ pos[k] \in places
    BY <1>3 DEF IsPicking
  <2>2. pos[k] \in 1..Len(s)
    BY <1>2, <2>1
  <2>. QED BY <1>1, <2>1, <2>2
<1>. QED BY <1>3, <1>4, <1>5 DEF AlikeKids

\* A page whose blocks have all been on it with the same contents.
IsOf(n, o) == n.id = o.id /\ n.kind = o.kind /\ n.hash = o.hash /\ AlikeKids(n.kids, o.kids)

\* It agrees with what it agreed with.
LEMMA AgreesLike ==
    ASSUME NEW S, NEW T, NEW tree, NEW entries, AgreeTrees(tree, entries),
           \A n \in ToSet(tree) : n.kids \in Seq(S),
           NEW grown, \A n \in ToSet(grown) : n.kids \in Seq(T),
           \A n \in ToSet(grown) : n.kind = "block" =>
                \/ \E o \in ToSet(tree) : IsOf(n, o)
                \/ \A b \in ToSet(entries) : b.id # n.id
    PROVE  AgreeTrees(grown, entries)
<1> SUFFICES ASSUME NEW n \in ToSet(grown), NEW b \in ToSet(entries), n.id = b.id, n.kind = "block"
             PROVE  Agree(n, b)
  BY DEF AgreeTrees
<1>1. PICK o \in ToSet(tree) : IsOf(n, o)
  OBVIOUS
<1>2. Agree(o, b)
  BY <1>1 DEF AgreeTrees, IsOf
<1>3. o.kids \in Seq(S)
  OBVIOUS
<1>4. o.hash = b.hash /\ AlikeKids(o.kids, b.kids)
  BY <1>2, <1>3, AgreeIs
<1>5. n.hash = b.hash /\ AlikeKids(n.kids, b.kids)
  BY <1>1, <1>4 DEF IsOf, AlikeKids
<1>6. n.kids \in Seq(T)
  OBVIOUS
<1>. QED BY <1>5, <1>6, AgreeIs

\* Fewer entries.
LEMMA AgreesFewer ==
    ASSUME NEW tree, NEW entries, AgreeTrees(tree, entries),
           NEW fewer, \A b \in ToSet(fewer) : b \in ToSet(entries)
    PROVE  AgreeTrees(tree, fewer)
BY DEF AgreeTrees

\* A node is a member of a list at one of its places.
LEMMA AtPlace ==
    ASSUME NEW S, NEW list \in Seq(S), NEW n \in ToSet(list)
    PROVE  n \in S /\ \E i \in 1..Len(list) : n = list[i]
BY DEF ToSet

\* What is in a list with new siblings is old or new.
LEMMA OldOrNew ==
    ASSUME NEW t, NEW list, NEW new, NEW at, NEW anchor, IsPlaced(t, list, new, at, anchor),
           NEW j \in 1..Len(t)
    PROVE  \/ \E i \in 1..Len(list) : t[j] = list[i]
           \/ \E k \in 1..Len(new) : t[j] = new[k]
<1>1. PICK c : IsPlacing(t, c, list, new)
  BY DEF IsPlaced
<1>2. c \in 0..Len(list) /\ Len(list) \in Nat
  BY <1>1 DEF IsPlacing
<1>3. \/ j \in 1..c /\ t[j] = list[j]
      \/ \E k \in 1..Len(new) : j = c + k /\ t[j] = new[k]
      \/ \E i \in (c + 1)..Len(list) : j = Len(new) + i /\ t[j] = list[i]
  BY <1>1, PlacingCovers
<1>4. 1..c \subseteq 1..Len(list) /\ (c + 1)..Len(list) \subseteq 1..Len(list)
  BY <1>2
<1>. QED BY <1>3, <1>4

\* Both trees take the same new nodes.
LEMMA AgreesPlaced ==
    ASSUME NEW N, NEW L, Nodal(N, L), NEW tree \in Seq(N), NEW new \in Seq(N),
           NEW M, NEW K, Nodal(M, K), NEW entries \in Seq(M), NEW other \in Seq(M),
           AgreeTrees(tree, entries), NEW first \in Nat,
           \A i \in 1..Len(tree) : Older(tree[i].id, first),
           \A i \in 1..Len(entries) : Older(entries[i].id, first),
           IsFresh(new, first), IsFresh(other, first), Len(new) = Len(other),
           \A k \in 1..Len(new) : new[k].hash = other[k].hash /\ new[k].kids = <<>> /\ other[k].kids = <<>>,
           NEW at, NEW anchor
    PROVE  AgreeTrees(Placed(tree, new, at, anchor), Placed(entries, other, at, anchor))
<1> DEFINE u == Placed(tree, new, at, anchor)
           v == Placed(entries, other, at, anchor)
<1>1. IsPlaced(u, tree, new, at, anchor) /\ IsPlaced(v, entries, other, at, anchor)
  BY PlacedIs
<1>2. u \in Seq(N) /\ v \in Seq(M)
  BY PlacedType
<1> HIDE DEF u, v
<1>5. \A i \in 1..Len(u) : \/ \E j \in 1..Len(tree) : u[i] = tree[j]
                           \/ \E k \in 1..Len(new) : u[i] = new[k]
  BY <1>1, OldOrNew
<1>6. \A i \in 1..Len(v) : \/ \E j \in 1..Len(entries) : v[i] = entries[j]
                           \/ \E k \in 1..Len(other) : v[i] = other[k]
  BY <1>1, OldOrNew
<1>7. ASSUME NEW n \in ToSet(u), NEW b \in ToSet(v), n.id = b.id, n.kind = "block"
      PROVE  Agree(n, b)
  <2>1. PICK i \in 1..Len(u) : n = u[i]
    BY <1>2, AtPlace
  <2>2. PICK j \in 1..Len(v) : b = v[j]
    BY <1>2, AtPlace
  <2>3. CASE \E k \in 1..Len(tree) : u[i] = tree[k]
    <3>1. PICK k \in 1..Len(tree) : u[i] = tree[k]
      BY <2>3
    <3>2. Older(n.id, first) /\ n \in ToSet(tree)
      BY <2>1, <3>1 DEF ToSet
    <3>3. ASSUME NEW l \in 1..Len(other), v[j] = other[l] PROVE FALSE
      <4>1. n.id = first + l - 1
        BY <1>7, <2>2, <3>3 DEF IsFresh
      <4>. QED BY <3>2, <4>1 DEF Older
    <3>4. b \in ToSet(entries)
      <4>1. PICK l \in 1..Len(entries) : v[j] = entries[l]
        BY <1>6, <3>3
      <4>2. l \in DOMAIN entries
        OBVIOUS
      <4>. QED BY <2>2, <4>1, <4>2 DEF ToSet
    <3>. QED BY <1>7, <3>2, <3>4 DEF AgreeTrees
  <2>4. CASE \E k \in 1..Len(new) : u[i] = new[k]
    <3>1. PICK k \in 1..Len(new) : u[i] = new[k]
      BY <2>4
    <3>2. n.id = first + k - 1 /\ n = new[k]
      BY <2>1, <3>1 DEF IsFresh
    <3>3. ASSUME NEW l \in 1..Len(entries), v[j] = entries[l] PROVE FALSE
      <4>1. Older(n.id, first)
        BY <1>7, <2>2, <3>3
      <4>. QED BY <3>2, <4>1 DEF Older
    <3>4. PICK l \in 1..Len(other) : b = other[l]
      BY <1>6, <2>2, <3>3
    <3>5. l = k
      <4>1. b.id = first + l - 1
        BY <3>4 DEF IsFresh
      <4>2. first + l - 1 = first + k - 1
        BY <1>7, <3>2, <4>1
      <4>3. \A x, y \in Int : first + x - 1 = first + y - 1 => x = y
        OBVIOUS
      <4>. QED BY <4>2, <4>3
    <3>6. n.hash = b.hash /\ n.kids = <<>> /\ b.kids = <<>>
      BY <3>2, <3>4, <3>5
    <3>7. AlikeKids(n.kids, b.kids) /\ n.kids \in Seq(L)
      BY <3>6 DEF AlikeKids
    <3>. QED BY <3>6, <3>7, AgreeIs
  <2>. QED BY <1>5, <2>1, <2>3, <2>4
<1>. QED BY <1>7 DEF AgreeTrees, u, v

\* The node with an id takes the same new children in both trees.
LEMMA AgreesGrafted ==
    ASSUME NEW N, NEW L, Nodal(N, L), NEW tree \in Seq(N), NEW new \in Seq(L),
           NEW M, NEW K, Nodal(M, K), NEW entries \in Seq(M), NEW other \in Seq(K),
           AgreeTrees(tree, entries), Sole(entries), AlikeKids(new, other),
           NEW parent, NEW at, NEW anchor
    PROVE  AgreeTrees(Grafted(tree, parent, new, at, anchor), Grafted(entries, parent, other, at, anchor))
<1> DEFINE u == Grafted(tree, parent, new, at, anchor)
           v == Grafted(entries, parent, other, at, anchor)
<1>1. DOMAIN u = 1..Len(tree) /\ DOMAIN v = 1..Len(entries)
  BY DEF Grafted
<1>2. \A i \in 1..Len(tree) : Fields(tree[i]) /\ tree[i].kids \in Seq(L) /\ tree[i] \in ToSet(tree)
  BY DEF Nodal, ToSet
<1>3. \A j \in 1..Len(entries) : /\ Fields(entries[j]) /\ entries[j].kids \in Seq(K)
                                 /\ IdsDiffer(entries[j].kids) /\ entries[j] \in ToSet(entries)
  BY DEF Nodal, ToSet, Sole
<1>4. \A i \in 1..Len(tree) :
        /\ u[i].id = tree[i].id /\ u[i].kind = tree[i].kind /\ u[i].hash = tree[i].hash
        /\ u[i].kids = IF tree[i].id = parent THEN Placed(tree[i].kids, new, at, anchor)
                       ELSE tree[i].kids
  BY <1>2 DEF Grafted, Fields
<1>5. \A j \in 1..Len(entries) :
        /\ v[j].id = entries[j].id /\ v[j].hash = entries[j].hash
        /\ v[j].kids = IF entries[j].id = parent THEN Placed(entries[j].kids, other, at, anchor)
                       ELSE entries[j].kids
  BY <1>3 DEF Grafted, Fields
<1> HIDE DEF u, v
<1>6. ASSUME NEW i \in 1..Len(tree), NEW j \in 1..Len(entries),
             u[i].id = v[j].id, u[i].kind = "block"
      PROVE  Agree(u[i], v[j])
  <2> DEFINE s == tree[i].kids
             t == entries[j].kids
  <2>1. tree[i].id = entries[j].id /\ tree[i].kind = "block"
    BY <1>4, <1>5, <1>6
  <2>2. Agree(tree[i], entries[j])
    BY <1>2, <1>3, <2>1 DEF AgreeTrees
  <2>3. tree[i].hash = entries[j].hash /\ AlikeKids(s, t)
    BY <1>2, <2>2, AgreeIs
  <2>4. s \in Seq(L) /\ t \in Seq(K) /\ IdsDiffer(t)
    BY <1>2, <1>3
  <2>5. u[i].hash = v[j].hash
    BY <1>4, <1>5, <2>3
  <2>6. CASE tree[i].id # parent
    <3>1. u[i].kids = s /\ v[j].kids = t
      BY <1>4, <1>5, <2>1, <2>6
    <3>. QED BY <2>3, <2>4, <2>5, <3>1, AgreeIs
  <2>7. CASE tree[i].id = parent
    <3> DEFINE a == Placed(s, new, at, anchor)
               b == Placed(t, other, at, anchor)
    <3>1. u[i].kids = a /\ v[j].kids = b
      BY <1>4, <1>5, <2>1, <2>7
    <3> HIDE DEF s, t
    <3>2. IsPlaced(a, s, new, at, anchor) /\ IsPlaced(b, t, other, at, anchor) /\ a \in Seq(L)
      BY <2>4, PlacedIs, PlacedType
    <3> HIDE DEF a, b
    <3>3. DOMAIN t = 1..Len(t) /\ Len(t) \in Nat
      BY <2>4
    <3>4. AlikeKids(a, b)
      BY <2>3, <2>4, <3>2, <3>3, AlikePlaced
    <3>. QED BY <2>5, <3>1, <3>2, <3>4, AgreeIs
  <2>. QED BY <2>6, <2>7
<1>7. ASSUME NEW n \in ToSet(u), NEW b \in ToSet(v), n.id = b.id, n.kind = "block"
      PROVE  Agree(n, b)
  <2>1. PICK i \in 1..Len(tree) : n = u[i]
    BY <1>1 DEF ToSet
  <2>2. PICK j \in 1..Len(entries) : b = v[j]
    BY <1>1 DEF ToSet
  <2>. QED BY <1>6, <1>7, <2>1, <2>2
<1>. QED BY <1>7 DEF AgreeTrees, u, v

\* The payload of one id is set in both trees.
LEMMA AgreesRehashed ==
    ASSUME NEW N, NEW L, Nodal(N, L), NEW tree \in Seq(N),
           NEW M, NEW K, Nodal(M, K), NEW entries \in Seq(M),
           AgreeTrees(tree, entries), NEW id, NEW hash
    PROVE  AgreeTrees(Rehashed(tree, id, hash), Rehashed(entries, id, hash))
<1> DEFINE u == Rehashed(tree, id, hash)
           v == Rehashed(entries, id, hash)
<1>1. IsRehashed(u, tree, id, hash) /\ IsRehashed(v, entries, id, hash)
  BY RehashedIs
<1> HIDE DEF u, v
<1>2. \A i \in DOMAIN tree : tree[i].kids \in Seq(L) /\ tree[i] \in ToSet(tree)
  BY DEF Nodal, ToSet
<1>3. \A j \in DOMAIN entries : entries[j].kids \in Seq(K) /\ entries[j] \in ToSet(entries)
  BY DEF Nodal, ToSet
<1>4. ASSUME NEW i \in DOMAIN tree, NEW j \in DOMAIN entries, u[i].id = v[j].id, u[i].kind = "block"
      PROVE  Agree(u[i], v[j])
  <2> DEFINE s == tree[i].kids
             t == entries[j].kids
             a == u[i].kids
             b == v[j].kids
  <2>1. Renewed(u[i], tree[i], id, hash) /\ Renewed(v[j], entries[j], id, hash)
    BY <1>1 DEF IsRehashed
  <2>2. /\ Len(a) = Len(s) /\ DOMAIN a = DOMAIN s /\ \A k \in DOMAIN s : Renewed(a[k], s[k], id, hash)
        /\ Len(b) = Len(t) /\ DOMAIN b = DOMAIN t /\ \A k \in DOMAIN t : Renewed(b[k], t[k], id, hash)
    BY <1>1 DEF IsRehashed
  <2>3. tree[i].id = entries[j].id /\ tree[i].kind = "block"
    BY <1>4, <2>1 DEF Renewed
  <2>4. Agree(tree[i], entries[j])
    BY <1>2, <1>3, <2>3 DEF AgreeTrees
  <2>5. tree[i].hash = entries[j].hash /\ AlikeKids(s, t)
    BY <1>2, <2>4, AgreeIs
  <2>6. s \in Seq(L) /\ t \in Seq(K)
    BY <1>2, <1>3
  <2> HIDE DEF s, t
  <2>7. DOMAIN s = 1..Len(s) /\ DOMAIN t = 1..Len(s)
    BY <2>5, <2>6 DEF AlikeKids
  <2>8. \A k \in 1..Len(s) : a[k].id = b[k].id /\ a[k].hash = b[k].hash
    BY <2>2, <2>5, <2>7 DEF AlikeKids, Renewed
  <2>9. u[i].hash = v[j].hash
    BY <2>1, <2>3, <2>5 DEF Renewed
  <2>10. Len(a) = Len(b) /\ DOMAIN a = 1..Len(a)
    BY <2>2, <2>5, <2>7 DEF AlikeKids
  <2> HIDE DEF a, b
  <2>11. u[i].kids = a /\ v[j].kids = b
    BY DEF a, b
  <2>. QED BY <2>2, <2>8, <2>9, <2>10, <2>11 DEF Agree
<1>5. ASSUME NEW n \in ToSet(u), NEW b \in ToSet(v), n.id = b.id, n.kind = "block"
      PROVE  Agree(n, b)
  <2>1. PICK i \in DOMAIN tree : n = u[i]
    BY <1>1 DEF ToSet, IsRehashed
  <2>2. PICK j \in DOMAIN entries : b = v[j]
    BY <1>1 DEF ToSet, IsRehashed
  <2>. QED BY <1>4, <1>5, <2>1, <2>2
<1>. QED BY <1>5 DEF AgreeTrees, u, v

\* A node goes from both trees.
LEMMA AgreesWithout ==
    ASSUME NEW N, NEW L, Nodal(N, L), NEW tree \in Seq(N),
           NEW M, NEW K, Nodal(M, K), NEW entries \in Seq(M),
           AgreeTrees(tree, entries), NEW id
    PROVE  AgreeTrees(Without(tree, id), Without(entries, id))
<1> DEFINE u == Without(tree, id)
           v == Without(entries, id)
<1>1. PICK pos : IsSieved(u, pos, tree, id)
  BY WithoutIs
<1>2. PICK loc : IsSieved(v, loc, entries, id)
  BY WithoutIs
<1> HIDE DEF u, v
<1>3. \A i \in DOMAIN tree : tree[i].kids \in Seq(L) /\ tree[i] \in ToSet(tree)
  BY DEF Nodal, ToSet
<1>4. \A j \in DOMAIN entries : entries[j].kids \in Seq(K) /\ entries[j] \in ToSet(entries)
  BY DEF Nodal, ToSet
<1>5. ASSUME NEW n \in ToSet(u), NEW b \in ToSet(v), n.id = b.id, n.kind = "block"
      PROVE  Agree(n, b)
  <2>1. PICK k \in 1..Len(u) : n = u[k]
    BY <1>1 DEF ToSet, IsSieved
  <2>2. PICK l \in 1..Len(v) : b = v[l]
    BY <1>2 DEF ToSet, IsSieved
  <2> DEFINE o == tree[pos[k]]
             e == entries[loc[l]]
  <2>3. /\ pos[k] \in DOMAIN tree /\ n.id = o.id /\ n.kind = o.kind /\ n.hash = o.hash
        /\ n.kids = Sieved(o.kids, id)
    BY <1>1, <2>1 DEF IsSieved
  <2>4. /\ loc[l] \in DOMAIN entries /\ b.id = e.id /\ b.hash = e.hash
        /\ b.kids = Sieved(e.kids, id)
    BY <1>2, <2>2 DEF IsSieved
  <2>5. o.kids \in Seq(L) /\ o \in ToSet(tree) /\ e.kids \in Seq(K) /\ e \in ToSet(entries)
    BY <1>3, <1>4, <2>3, <2>4
  <2> HIDE DEF o, e
  <2>6. Agree(o, e)
    BY <1>5, <2>3, <2>4, <2>5 DEF AgreeTrees
  <2>7. o.hash = e.hash /\ AlikeKids(o.kids, e.kids)
    BY <2>5, <2>6, AgreeIs
  <2>8. AlikeKids(Sieved(o.kids, id), Sieved(e.kids, id))
    BY <2>5, <2>7, AlikeSieved
  <2>9. Sieved(o.kids, id) \in Seq(L)
    <3>1. Others(o.kids, id) \in SUBSET (1..Len(o.kids))
      BY <2>5 DEF Others
    <3>. QED BY <2>5, <3>1, PickedUnfolds DEF Sieved
  <2>. QED BY <2>3, <2>4, <2>7, <2>8, <2>9, AgreeIs
<1>. QED BY <1>5 DEF AgreeTrees, u, v

\* Without a node that nobody has as a child, the others are what they were.
LEMMA WithoutOf ==
    ASSUME NEW N, NEW L, Nodal(N, L), NEW tree \in Seq(N), NEW id,
           \A n \in ToSet(tree) : \A k \in DOMAIN n.kids : n.kids[k].id # id,
           NEW n \in ToSet(Without(tree, id))
    PROVE  n.kids \in Seq(L) /\ \E o \in ToSet(tree) : IsOf(n, o)
<1> DEFINE u == Without(tree, id)
<1>1. PICK pos : IsSieved(u, pos, tree, id)
  BY WithoutIs
<1>2. n \in ToSet(u)
  OBVIOUS
<1> HIDE DEF u
<1>3. PICK i \in 1..Len(u) : n = u[i]
  BY <1>1, <1>2 DEF ToSet, IsSieved
<1> DEFINE o == tree[pos[i]]
<1>4. /\ pos[i] \in DOMAIN tree /\ n.id = o.id /\ n.kind = o.kind /\ n.hash = o.hash
      /\ n.kids = Sieved(o.kids, id)
  BY <1>1, <1>3 DEF IsSieved
<1>5. o \in ToSet(tree) /\ o \in N
  BY <1>4 DEF ToSet
<1> HIDE DEF o
<1> DEFINE s == o.kids
<1>6. s \in Seq(L) /\ \A k \in DOMAIN s : s[k].id # id
  BY <1>5 DEF Nodal
<1> HIDE DEF s
<1>7. Others(s, id) = 1..Len(s) /\ Others(s, id) \in SUBSET (1..Len(s))
  BY <1>6 DEF Others
<1>8. Len(Sieved(s, id)) = Len(s) /\ \A k \in 1..Len(s) : Sieved(s, id)[k] = s[k]
  BY <1>6, <1>7, PickedAll DEF Sieved
<1>9. Sieved(s, id) \in Seq(L)
  BY <1>6, <1>7, PickedUnfolds DEF Sieved
<1>10. n.kids = Sieved(s, id) /\ s = o.kids
  BY <1>4 DEF s
<1>11. AlikeKids(n.kids, o.kids)
  BY <1>8, <1>10 DEF AlikeKids
<1>. QED BY <1>4, <1>5, <1>9, <1>10, <1>11 DEF IsOf

\* The trees as nodes with any ids.
LEMMA TreesAreWide ==
    ASSUME Types
    PROVE  /\ page \in Seq(LiveNodes(Nat \cup Foreign))
           /\ work \in Seq(NodeEntries(Nat)) /\ cache \in Seq(NodeEntries(Nat))
           /\ Nodal(LiveNodes(Nat \cup Foreign), LiveLeaves(Nat \cup Foreign))
           /\ Nodal(NodeEntries(Nat), LeafEntries(Nat))
           /\ LiveLeaves(Nat \cup Foreign) \subseteq LiveNodes(Nat \cup Foreign)
           /\ LeafEntries(Nat) \subseteq NodeEntries(Nat)
<1>1. Live \subseteq Nat \cup Foreign /\ Minted \subseteq Nat
  BY DEF Types, Live, Minted
<1>2. /\ page \in Seq(LiveNodes(Live)) /\ work \in Seq(NodeEntries(Minted))
      /\ cache \in Seq(NodeEntries(Minted))
  BY DEF Types
<1>3. page \in Seq(LiveNodes(Nat \cup Foreign))
  BY <1>1, <1>2, MoreNodes
<1>4. work \in Seq(NodeEntries(Nat)) /\ cache \in Seq(NodeEntries(Nat))
  BY <1>1, <1>2, MoreNodes
<1>5. /\ Nodal(LiveNodes(Nat \cup Foreign), LiveLeaves(Nat \cup Foreign))
      /\ Nodal(NodeEntries(Nat), LeafEntries(Nat))
  BY TreesAreNodal DEF LiveNodes, NodeEntries
<1>6. /\ LiveLeaves(Nat \cup Foreign) \subseteq LiveNodes(Nat \cup Foreign)
      /\ LeafEntries(Nat) \subseteq NodeEntries(Nat)
  BY LiveAreNodes, EntriesAreNodes DEF LiveNodes, NodeEntries
<1>. QED BY <1>3, <1>4, <1>5, <1>6

\* All ids are older than a new one.
LEMMA OlderIds ==
    ASSUME Types, NEW first \in Nat, first >= nextId
    PROVE  /\ \A i \in 1..Len(page) : Older(page[i].id, first)
           /\ \A i \in 1..Len(work) : Older(work[i].id, first)
<1>1. nextId \in Nat \ {0} /\ Foreign \cap Nat = {}
  BY PageAssumption DEF Types, ConstantsAssumption
<1>2. \A x \in Live : Older(x, first)
  BY <1>1 DEF Live, Minted, Older
<1>3. \A i \in 1..Len(page) : page[i] \in LiveNodes(Live)
  BY DEF Types
<1>4. \A i \in 1..Len(work) : work[i] \in NodeEntries(Minted)
  BY DEF Types
<1>5. \A i \in 1..Len(page) : page[i].id \in Live
  BY <1>3 DEF LiveNodes, LiveLevels
<1>6. \A i \in 1..Len(work) : work[i].id \in Live
  BY <1>4 DEF NodeEntries, EntryLevels, Live
<1>. QED BY <1>2, <1>5, <1>6

\* A call on blocks does the same to the page and to the working cache.
LEMMA AgreesSent ==
    ASSUME Types, Distinct, NEW call \in PlanCalls(rendering, Minted, Live), Checkpoints(call),
           NEW first \in Nat, first >= nextId, AgreeTrees(page, work)
    PROVE  AgreeTrees(Landed(page, call, first), Recorded(work, call, first))
<1> DEFINE N == LiveNodes(Nat \cup Foreign)
           L == LiveLeaves(Nat \cup Foreign)
           M == NodeEntries(Nat)
           K == LeafEntries(Nat)
           new == NewBlocks(call, first)
           other == NewEntries(call, first)
           u == Landed(page, call, first)
           v == Recorded(work, call, first)
           p == Parent(call)
           at == call.at
           a == Anchor(call)
<1>1. /\ page \in Seq(N) /\ work \in Seq(M) /\ Nodal(N, L) /\ Nodal(M, K)
      /\ L \subseteq N /\ K \subseteq M
  BY TreesAreWide
<1>2. IdsDiffer(page) /\ IdsDiffer(work) /\ Sole(work) /\ rendering \in Renderings
  BY DEF Distinct, Sole, Types
<1>3. call.op \in {"append", "update", "remove"}
  BY DEF Checkpoints
<1>4. \/ call.op = "append" /\ p = Page /\ v = Placed(work, other, at, a)
      \/ call.op = "append" /\ p # Page /\ v = Grafted(work, p, other, at, a)
      \/ call.op = "update" /\ v = Rehashed(work, call.id, call.hash)
      \/ call.op = "remove" /\ v = Without(work, call.id)
  BY <1>2, <1>3, RecordedIs
<1>5. \/ call.op = "append" /\ p = Page /\ u = Placed(page, new, at, a)
      \/ call.op = "append" /\ p # Page /\ u = Grafted(page, p, new, at, a)
      \/ call.op = "update" /\ u = Rehashed(page, call.id, call.hash)
      \/ call.op = "remove" /\ u = Without(page, call.id)
  BY <1>2, <1>3, LandedIs DEF Clearing
<1>6. ASSUME call.op = "append"
      PROVE  /\ new \in Seq(L) /\ other \in Seq(K) /\ Len(new) = Len(other)
             /\ IsFresh(new, first) /\ IsFresh(other, first)
             /\ \A k \in 1..Len(new) : /\ new[k].id = other[k].id /\ new[k].hash = other[k].hash
                                       /\ new[k].kids = <<>> /\ other[k].kids = <<>>
  <2>1. /\ new \in Seq(L) /\ other \in Seq(K) /\ Len(new) = Len(other)
        /\ IsFresh(new, first) /\ IsFresh(other, first) /\ Len(new) = Len(call.nodes)
    BY <1>2, <1>6, NewNodesAre, ZenonT(60)
  <2>2. ASSUME NEW k \in 1..Len(new)
        PROVE  /\ new[k].id = other[k].id /\ new[k].hash = other[k].hash
               /\ new[k].kids = <<>> /\ other[k].kids = <<>>
    <3> DEFINE n == NodeAt(rendering, call.nodes[k])
               x == first + k - 1
    <3>1. k \in 1..Len(call.nodes)
      BY <2>1
    <3>2. new[k] = Block(n, x) /\ other[k] = Entry(n, x)
      BY <1>2, <1>6, <3>1, NewNodesAre
    <3> HIDE DEF new, other, n, x
    <3>. QED BY <3>2 DEF Block, Entry
  <2>. QED BY <2>1, <2>2
<1> HIDE DEF N, L, M, K, new, other, u, v, p, at, a
<1>7. CASE call.op = "append" /\ p = Page
  <2>1. new \in Seq(N) /\ other \in Seq(M)
    BY <1>1, <1>6, <1>7, SeqSubset
  <2>2. AgreeTrees(Placed(page, new, at, a), Placed(work, other, at, a))
    BY <1>1, <1>6, <1>7, <2>1, OlderIds, AgreesPlaced
  <2>. QED BY <1>4, <1>5, <1>7, <2>2 DEF u, v
<1>8. CASE call.op = "append" /\ p # Page
  <2>1. AlikeKids(new, other)
    BY <1>6, <1>8 DEF AlikeKids
  <2>2. AgreeTrees(Grafted(page, p, new, at, a), Grafted(work, p, other, at, a))
    BY <1>1, <1>2, <1>6, <1>8, <2>1, AgreesGrafted
  <2>. QED BY <1>4, <1>5, <1>8, <2>2 DEF u, v
<1>9. CASE call.op = "update"
  <2>1. AgreeTrees(Rehashed(page, call.id, call.hash), Rehashed(work, call.id, call.hash))
    BY <1>1, AgreesRehashed
  <2>. QED BY <1>4, <1>5, <1>9, <2>1 DEF u, v
<1>10. CASE call.op = "remove"
  <2>1. AgreeTrees(Without(page, call.id), Without(work, call.id))
    BY <1>1, AgreesWithout
  <2>. QED BY <1>4, <1>5, <1>10, <2>1 DEF u, v
<1>. QED BY <1>3, <1>7, <1>8, <1>9, <1>10 DEF u, v

\* A call on a sub-page leaves the blocks of the page as they are.
LEMMA AgreesBeside ==
    ASSUME Types, Distinct, Sorted, Calling, IsNext(Head(calls), rendering),
           ~Checkpoints(Head(calls)), NEW first \in Nat, first >= nextId,
           NEW entries, AgreeTrees(page, entries)
    PROVE  AgreeTrees(Landed(page, Head(calls), first), entries)
<1> DEFINE call == Head(calls)
           N == LiveNodes(Nat \cup Foreign)
           L == LiveLeaves(Nat \cup Foreign)
           u == Landed(page, call, first)
<1>1. page \in Seq(N) /\ Nodal(N, L) /\ L \subseteq N
  BY TreesAreWide
<1>2. IdsDiffer(page) /\ rendering \in Renderings /\ call \in PlanCalls(rendering, Minted, Live)
  BY DEF Distinct, Types, IsNext
<1>3. \A n \in ToSet(page) : n.kids \in Seq(L)
  <2> HIDE DEF N, L
  <2>1. \A n \in ToSet(page) : n \in N
    BY <1>1, AtPlace
  <2>. QED BY <1>1, <2>1 DEF Nodal
<1>4. \/ call.op = "create" /\ u = Append(page, Block(NodeAt(rendering, call.node), first))
      \/ call.op = "rename" /\ u = Rehashed(page, call.id, call.hash)
      \/ call.op = "archive" /\ u = Without(page, call.id)
      \/ call.op = "move" /\ u = page
  BY <1>2, LandedIs DEF Clearing, Checkpoints
<1>5. PICK texts, subs : Sorts(texts, subs)
  BY DEF Sorted
<1>6. /\ texts \cap subs = {} /\ page \in Seq(LiveSorts(texts, subs))
      /\ OnSubPages(calls, subs)
  BY <1>5 DEF Sorts
<1>7. call.op \in {"rename", "archive"} => call.id \in subs
  <2>1. Head(calls) = calls[1] /\ 1 \in 1..Len(calls)
    BY TailIs DEF Types, Calling
  <2>. QED BY <1>6, <2>1 DEF OnSubPages
<1>8. \A i \in 1..Len(page) : /\ page[i].kind = "block" => page[i].id \in texts
                              /\ \A k \in DOMAIN page[i].kids : page[i].kids[k].id \in texts
  BY <1>6, SortedNode
<1> HIDE DEF call, N, L, u
<1>9. ASSUME NEW T, \A n \in ToSet(u) : n.kids \in Seq(T),
             \A n \in ToSet(u) : n.kind = "block" => \E o \in ToSet(page) : IsOf(n, o)
      PROVE  AgreeTrees(u, entries)
  BY <1>3, <1>9, AgreesLike
<1>10. \A n \in ToSet(page) : IsOf(n, n)
  BY DEF IsOf, AlikeKids
<1>11. CASE call.op = "create"
  <2> DEFINE b == Block(NodeAt(rendering, call.node), first)
  <2>1. b.kind = "page" /\ b.kids = <<>> /\ b \in N
    <3>1. Created(call) = <<call.node>> /\ call.node \in ToSet(Created(call))
      BY <1>11 DEF Created, ToSet
    <3>2. NodeAt(rendering, call.node).kind = "page" /\ NodeAt(rendering, call.node) \in Nodes
      BY <1>2, <1>11, <3>1, CreatedType DEF IsNext, call
    <3>3. b \in LiveLeaves(Nat \cup Foreign)
      BY <3>2, BlockType
    <3>. QED BY <1>1, <3>2, <3>3 DEF Block, L
  <2> HIDE DEF b
  <2>2. /\ u = Append(page, b) /\ u \in Seq(N) /\ Len(u) = Len(page) + 1
        /\ \A i \in 1..Len(page) : u[i] = page[i]
        /\ u[Len(page) + 1] = b
    BY <1>1, <1>4, <1>11, <2>1, AppendIs DEF b
  <2>3. \A n \in ToSet(u) : n = b \/ n \in ToSet(page)
    <3>1. \A i \in 1..Len(u) : i \in 1..Len(page) \/ i = Len(page) + 1
      BY <1>1, <2>2
    <3>2. DOMAIN page = 1..Len(page) /\ DOMAIN u = 1..Len(u)
      BY <1>1, <2>2
    <3>. QED BY <2>2, <3>1, <3>2 DEF ToSet
  <2>4. \A n \in ToSet(u) : n.kids \in Seq(L)
    <3>1. <<>> \in Seq(L)
      OBVIOUS
    <3>. QED BY <1>3, <2>1, <2>3, <3>1
  <2>5. AgreeTrees(u, entries)
    BY <1>9, <1>10, <2>1, <2>3, <2>4
  <2>. QED BY <2>5 DEF u, call
<1>12. CASE call.op = "rename"
  <2>1. u = Rehashed(page, call.id, call.hash) /\ IsRehashed(u, page, call.id, call.hash)
    BY <1>1, <1>4, <1>12, RehashedIs
  <2>2. call.id \notin texts /\ DOMAIN page = 1..Len(page)
    BY <1>1, <1>6, <1>7, <1>12
  <2>3. u \in Seq(LiveSorts(texts, subs))
    <3>1. AreNodes(LiveSorts(texts, subs), LiveTexts(texts))
          /\ \A hash \in Hashes : TakesHash(LiveSorts(texts, subs), LiveTexts(texts), hash)
      BY LiveSortsAreNodes
    <3>2. call.hash \in Hashes
      BY <1>2, <1>12 DEF PlanCalls, Clears, Appends
    <3>. QED BY <1>6, <2>1, <3>1, <3>2, RehashedType
  <2>4. \A n \in ToSet(u) : n.kids \in Seq(LiveTexts(texts))
    BY <2>3, SortedNode DEF ToSet
  <2>5. ASSUME NEW n \in ToSet(u), n.kind = "block" PROVE \E o \in ToSet(page) : IsOf(n, o)
    <3>1. PICK i \in 1..Len(page) : n = u[i]
      BY <2>1, <2>2 DEF ToSet, IsRehashed
    <3> DEFINE s == page[i].kids
               t == u[i].kids
    <3>2. /\ Renewed(u[i], page[i], call.id, call.hash) /\ Len(t) = Len(s) /\ DOMAIN t = DOMAIN s
          /\ \A k \in DOMAIN s : Renewed(t[k], s[k], call.id, call.hash)
      BY <2>1, <2>2 DEF IsRehashed
    <3>3. page[i] \in ToSet(page) /\ page[i].kind = "block"
      BY <1>6, <2>2, <2>5, <3>1, <3>2 DEF ToSet, Renewed
    <3>4. /\ n.id = page[i].id /\ n.kind = page[i].kind /\ n.hash = page[i].hash
      BY <1>8, <2>2, <3>1, <3>2, <3>3 DEF Renewed
    <3>5. \A k \in DOMAIN s : t[k].id = s[k].id /\ t[k].hash = s[k].hash
      BY <1>8, <2>2, <3>2 DEF Renewed
    <3>6. DOMAIN s = 1..Len(s)
      <4>1. s \in Seq(L)
        BY <1>3, <3>3
      <4> HIDE DEF s
      <4>. QED BY <4>1
    <3>7. AlikeKids(n.kids, page[i].kids)
      BY <3>1, <3>2, <3>5, <3>6 DEF AlikeKids
    <3>. QED BY <3>3, <3>4, <3>7 DEF IsOf
  <2>6. AgreeTrees(u, entries)
    BY <1>9, <2>4, <2>5
  <2>. QED BY <2>6 DEF u, call
<1>13. CASE call.op = "archive"
  <2>1. u = Without(page, call.id) /\ call.id \notin texts
    BY <1>4, <1>6, <1>7, <1>13
  <2>2. \A n \in ToSet(page) : \A k \in DOMAIN n.kids : n.kids[k].id # call.id
    BY <1>1, <1>8, <2>1, AtPlace
  <2>3. \A n \in ToSet(u) : n.kids \in Seq(L) /\ \E o \in ToSet(page) : IsOf(n, o)
    BY <1>1, <2>1, <2>2, WithoutOf
  <2>4. AgreeTrees(u, entries)
    BY <1>9, <2>3
  <2>. QED BY <2>4 DEF u, call
<1>14. CASE call.op = "move"
  BY <1>4, <1>14 DEF u, call
<1>. QED BY <1>4, <1>11, <1>12, <1>13, <1>14 DEF u, call

----------------------------------------------------------------------------
(* Checkpoints are true *)

\* Unless a call has landed unrecorded or twice, the cache and the working cache are right
\* about the blocks of the page.
Faithful == lost \/ (AgreeTrees(page, cache) /\ AgreeTrees(page, work))

\* A call lands and is recorded.
LEMMA SendFaithful ==
    ASSUME Course, Faithful, Send
    PROVE  Faithful'
<1> DEFINE call == Head(calls)
<1>1. /\ Calling /\ UNCHANGED lost /\ page' = Landed(page, call, nextId)
      /\ work' = Recorded(work, call, nextId)
      /\ cache' = IF Checkpoints(call) THEN work' ELSE cache
  BY DEF Send, history
<1>2. /\ Types /\ Distinct /\ Sorted /\ nextId \in Nat /\ nextId >= nextId
      /\ Prepared(calls, bound, rendering, tidy) /\ IdsDiffer(work)
  BY DEF Course, Order, Inv, Types, Underway, Distinct, Sole
<1>3. IsNext(call, rendering)
  BY <1>1, <1>2, HeadIsNext
<1>4. call \in PlanCalls(rendering, Minted, Live)
  BY <1>3 DEF IsNext
<1>5. SUFFICES ASSUME ~lost
               PROVE  AgreeTrees(page', cache') /\ AgreeTrees(page', work')
  BY <1>1 DEF Faithful
<1>6. AgreeTrees(page, cache) /\ AgreeTrees(page, work)
  BY <1>5 DEF Faithful
<1>7. CASE Checkpoints(call)
  <2> HIDE DEF call
  <2>1. AgreeTrees(page', work')
    BY <1>1, <1>2, <1>4, <1>6, <1>7, AgreesSent
  <2>. QED BY <1>1, <1>7, <2>1
<1>8. CASE ~Checkpoints(call)
  <2>1. \A entries : AgreeTrees(page, entries) => AgreeTrees(page', entries)
    BY <1>1, <1>2, <1>3, <1>8, AgreesBeside
  <2> HIDE DEF call
  <2>2. work' = work
    BY <1>1, <1>2, <1>4, <1>8, RecordedIs DEF Checkpoints
  <2>. QED BY <1>1, <1>6, <1>8, <2>1, <2>2
<1>. QED BY <1>7, <1>8

\* A sync begins.
LEMMA BeginFaithful ==
    ASSUME Order, Faithful, NEW m, m = Matching(Base(page, cache), rendering), Begin(m)
    PROVE  Faithful'
<1>1. Diffable(m) /\ UNCHANGED <<page, cache, lost>> /\ work' = Confirmed(m.top.old)
  BY DEF Begin
<1>2. Types
  BY DEF Order, Inv
<1>3. IsBase(m.top.old, Minted, Live) /\ IsBaseOf(m.top.old, page, cache)
  BY <1>1, <1>2, BeginsBegan
<1>4. ASSUME NEW b \in ToSet(Confirmed(m.top.old)) PROVE b \in ToSet(cache)
  <2>1. b.key # Ghost /\ \E i \in DOMAIN m.top.old : b = m.top.old[i]
    BY <1>3, ConfirmedIs
  <2>. QED BY <1>3, <2>1 DEF IsBaseOf
<1>5. AgreeTrees(page, cache) => AgreeTrees(page, Confirmed(m.top.old))
  BY <1>4, AgreesFewer
<1>. QED BY <1>1, <1>5 DEF Faithful

\* Others put foreign blocks on the page, and move or remove its children.
LEMMA EditAgrees ==
    ASSUME Order, Edit, NEW entries \in Seq(NodeEntries(Minted)), AgreeTrees(page, entries)
    PROVE  AgreeTrees(page', entries)
<1> DEFINE N == LiveNodes(Nat \cup Foreign)
           L == LiveLeaves(Nat \cup Foreign)
<1>1. page \in Seq(N) /\ Nodal(N, L) /\ L \subseteq N
  BY TreesAreWide DEF Order, Inv
<1>2. nextId \in Nat /\ Foreign \cap Nat = {}
  BY PageAssumption DEF ConstantsAssumption, Order, Inv, Types
<1>3. \A b \in ToSet(entries) : b.id \in Minted
  <2>1. \A b \in ToSet(entries) : b \in NodeEntries(Minted)
    BY AtPlace
  <2>. QED BY <2>1 DEF NodeEntries, EntryLevels
<1>4. PICK tops, ids : Levels(tops, ids)
  BY DEF Order, Apart
<1>5. \A n \in ToSet(page) : n.id \in tops /\ \A k \in DOMAIN n.kids : n.kids[k].id \in ids
  <2>1. \A n \in ToSet(page) : n \in LiveLevels(tops, ids)
    BY <1>4, AtPlace DEF Levels
  <2>2. \A n \in ToSet(page) : n.id \in tops /\ n.kids \in Seq(LiveLeaves(ids))
    BY <2>1 DEF LiveLevels
  <2>3. ASSUME NEW n \in ToSet(page), NEW k \in DOMAIN n.kids PROVE n.kids[k].id \in ids
    <3> DEFINE s == n.kids
    <3>1. s \in Seq(LiveLeaves(ids)) /\ k \in DOMAIN s
      BY <2>2
    <3> HIDE DEF s
    <3>2. s[k] \in LiveLeaves(ids)
      BY <3>1
    <3>3. s[k].id \in ids
      BY <3>2 DEF LiveLeaves
    <3>. QED BY <3>3 DEF s
  <2>. QED BY <2>2, <2>3
<1> HIDE DEF N, L
<1>6. \A n \in ToSet(page) : n.kids \in Seq(L)
  BY <1>1, AtPlace DEF Nodal
<1>7. \A n \in ToSet(page) : IsOf(n, n)
  BY DEF IsOf, AlikeKids
<1>8. ASSUME NEW m \in ToSet(page), NEW n \in ToSet(Without(page, m.id))
      PROVE  n.kids \in Seq(L) /\ \E o \in ToSet(page) : IsOf(n, o)
  <2>1. \A o \in ToSet(page) : \A k \in DOMAIN o.kids : o.kids[k].id # m.id
    BY <1>4, <1>5 DEF Levels
  <2>. QED BY <1>1, <1>8, <2>1, WithoutOf
<1>9. SUFFICES ASSUME NEW n \in ToSet(page')
               PROVE  n.kids \in Seq(L) /\ \/ \E o \in ToSet(page) : IsOf(n, o)
                                           \/ \A b \in ToSet(entries) : b.id # n.id
  <2>1. \A n \in ToSet(page') : n.kids \in Seq(L)
    BY <1>9
  <2>2. \A n \in ToSet(page') : n.kind = "block" =>
                \/ \E o \in ToSet(page) : IsOf(n, o)
                \/ \A b \in ToSet(entries) : b.id # n.id
    BY <1>9
  <2>. QED BY <1>6, <2>1, <2>2, AgreesLike
<1>10. CASE \E m \in ToSet(page) : page' = Without(page, m.id)
  BY <1>8, <1>9, <1>10
<1>11. CASE \E u \in Foreign \ Ids(page) :
                page' = Append(page, Block([kind |-> "block", hash |-> Ghost], u))
  <2>1. PICK u \in Foreign : page' = Append(page, Block([kind |-> "block", hash |-> Ghost], u))
    BY <1>11
  <2> DEFINE f == Block([kind |-> "block", hash |-> Ghost], u)
  <2>2. f \in LiveLeaves(Nat \cup Foreign) /\ f.id = u /\ f.kids = <<>>
    BY DEF Block, LiveLeaves, Kinds
  <2>3. page' = Append(page, f)
    BY <2>1
  <2> HIDE DEF f
  <2>4. f \in N
    BY <1>1, <2>2 DEF L
  <2>5. /\ page' \in Seq(N) /\ Len(page') = Len(page) + 1
        /\ \A i \in 1..Len(page) : page'[i] = page[i]
        /\ page'[Len(page) + 1] = f
    BY <1>1, <2>3, <2>4, AppendIs
  <2>6. n = f \/ n \in ToSet(page)
    <3>1. \E i \in 1..Len(page') : n = page'[i]
      BY <1>9, <2>5, AtPlace
    <3>2. \A i \in 1..Len(page') : i \in 1..Len(page) \/ i = Len(page) + 1
      BY <1>1, <2>5
    <3>3. DOMAIN page = 1..Len(page)
      BY <1>1
    <3>. QED BY <2>5, <3>1, <3>2, <3>3 DEF ToSet
  <2>7. CASE n = f
    <3>1. u \notin Minted
      BY <1>2 DEF Minted
    <3>2. \A b \in ToSet(entries) : b.id # n.id
      BY <1>3, <2>2, <2>7, <3>1
    <3>3. <<>> \in Seq(L)
      OBVIOUS
    <3>4. n.kids \in Seq(L)
      BY <2>2, <2>7, <3>3
    <3>. QED BY <3>2, <3>4
  <2>. QED BY <1>6, <1>7, <2>6, <2>7
<1>12. CASE \E m \in ToSet(page) : page' = <<m>> \o Without(page, m.id)
  <2>1. PICK m \in ToSet(page) : page' = <<m>> \o Without(page, m.id)
    BY <1>12
  <2> DEFINE rest == Without(page, m.id)
  <2>2. m \in N /\ rest \in Seq(N)
    <3>1. AreNodes(N, L)
      BY LiveAreNodes DEF N, L, LiveNodes
    <3>. QED BY <1>1, <3>1, AtPlace, WithoutType
  <2> HIDE DEF rest
  <2>3. <<m>> \in Seq(N) /\ Len(<<m>>) = 1 /\ <<m>>[1] = m
    BY <2>2
  <2>4. page' = <<m>> \o rest
    BY <2>1 DEF rest
  <2>5. n = m \/ n \in ToSet(rest)
    <3>1. page' \in Seq(N)
      BY <2>2, <2>3, <2>4, JoinedIs
    <3>2. PICK i \in 1..Len(page') : n = page'[i]
      BY <1>9, <3>1, AtPlace
    <3>3. \/ i \in 1..Len(<<m>>) /\ page'[i] = <<m>>[i]
          \/ \E j \in 1..Len(rest) : page'[i] = rest[j]
      BY <2>2, <2>3, <2>4, <3>2, JoinedIs
    <3>4. DOMAIN rest = 1..Len(rest)
      BY <2>2
    <3>. QED BY <2>3, <3>2, <3>3, <3>4 DEF ToSet
  <2>6. CASE n = m
    BY <1>6, <1>7, <2>6
  <2>7. CASE n \in ToSet(rest)
    BY <1>8, <2>7 DEF rest
  <2>. QED BY <2>5, <2>6, <2>7
<1>. QED BY <1>10, <1>11, <1>12 DEF Edit

\* When all paths are bound, and nothing goes and nothing is to be set any more, a list that
\* is aligned is what is rendered.
Done(list, p, cs, binding) ==
    /\ Len(list) = Len(cs)
    /\ \A q \in 1..Len(cs) : /\ list[q].id = binding[Path(p, cs[q])]
                             /\ list[q].kind = cs[q].kind /\ list[q].hash = cs[q].hash

\* The places of the two lists are then the same.
LEMMA AlignedDone ==
    ASSUME NEW list, NEW p, NEW cs, NEW binding, Aligned(list, p, cs, binding, {}, {}),
           Len(list) \in Nat, Len(cs) \in Nat,
           \A q \in 1..Len(cs) : Path(p, cs[q]) \in DOMAIN binding
    PROVE  Done(list, p, cs, binding)
<1>1. PICK at : IsAligned(at, list, p, cs, binding, {}, {})
  BY DEF Aligned
<1> DEFINE T == 1..Len(list)
           n == Len(cs)
           m == Len(list)
           g == [k \in 1..m |-> k]
<1>2. \A q \in 1..n : /\ at[q] \in T /\ list[at[q]].id = binding[Path(p, cs[q])]
                      /\ list[at[q]].kind = cs[q].kind /\ list[at[q]].hash = cs[q].hash
  BY <1>1 DEF IsAligned
<1>3. Enumerates(at, n, T)
  BY <1>1, <1>2 DEF IsAligned, Enumerates, IsRising
<1>4. Enumerates(g, m, T)
  BY DEF Enumerates, IsRising
<1>5. T \in SUBSET Nat /\ n \in Nat /\ m \in Nat /\ \A k \in 1..m : g[k] = k
  OBVIOUS
<1> HIDE DEF T, n, m, g
<1>6. n = m /\ \A k \in 1..n : at[k] = g[k]
  <2>1. \A A \in SUBSET Nat : \A i, j \in Nat : \A f, h :
        Enumerates(f, i, A) /\ Enumerates(h, j, A) => i = j /\ \A k \in 1..i : f[k] = h[k]
    BY SameEnumeration
  <2>2. \A i, j \in Nat : \A f, h :
        Enumerates(f, i, T) /\ Enumerates(h, j, T) => i = j /\ \A k \in 1..i : f[k] = h[k]
    BY <1>5, <2>1
  <2>3. \A f, h :
        Enumerates(f, n, T) /\ Enumerates(h, m, T) => n = m /\ \A k \in 1..n : f[k] = h[k]
    BY <1>5, <2>2
  <2>. QED BY <1>3, <1>4, <2>3
<1>7. \A k \in 1..n : at[k] = k
  BY <1>5, <1>6
<1>8. \A q \in 1..n : /\ list[q].id = binding[Path(p, cs[q])]
                      /\ list[q].kind = cs[q].kind /\ list[q].hash = cs[q].hash
  BY <1>2, <1>7
<1>. QED BY <1>6, <1>8 DEF Done, n, m

\* No calls are left: nothing goes and nothing is to be set.
LEMMA NothingLeft ==
    ASSUME NEW x
    PROVE  Going(<<>>, x) = {} /\ Renewing(<<>>, x) = {}
BY DEF Going, Renewing

\* A rendered block as the working cache has it in the end.
Complete(e, b) == e.id = b.id /\ e.hash = b.hash /\ AlikeKids(e.kids, b.kids)

\* When no calls are left, the working cache is as right about the blocks of the snapshot as
\* the snapshot itself.
LEMMA BlocksAreComplete ==
    ASSUME Types, Underway, calls = <<>>, DOMAIN bound = Paths(rendering),
           NEW x \in 1..Len(rendering), rendering[x].kind = "block"
    PROVE  \E j \in 1..Len(work) : Complete(work[j], Snapshot[x])
<1> DEFINE r == rendering
           b == Snapshot[x]
           p == PathOf(r, x)
           cs == Sibs(r, x)
<1>1. r \in Renderings /\ IsSnapshot(Snapshot, r, bound)
  BY SnapshotIs DEF Types
<1>2. p = <<r[x].key>> /\ cs = r[x].kids /\ p \in DOMAIN bound
  BY <1>1, PathsUnfold DEF PathOf, Sibs
<1>3. PICK j \in 1..Len(work) :
        /\ work[j].id = bound[p]
        /\ work[j].hash = r[x].hash \/ <<work[j].id, r[x].hash>> \in Renewing(calls, x)
        /\ Aligned(work[j].kids, p, cs, bound, Going(calls, x), Renewing(calls, x))
  BY <1>2 DEF Underway, AllGrow, Growing
<1> DEFINE kids == work[j].kids
<1>4. work[j].id = bound[p] /\ work[j].hash = r[x].hash /\ Aligned(kids, p, cs, bound, {}, {})
  BY <1>3, NothingLeft
<1>5. kids \in Seq(LeafEntries(Minted))
  <2>1. work[j] \in NodeEntries(Minted)
    BY DEF Types
  <2>. QED BY <2>1 DEF NodeEntries, EntryLevels
<1>6. cs \in Seq(Leaves)
  BY <1>1, <1>2, RenderingType
<1>7. \A q \in 1..Len(cs) : Path(p, cs[q]) = <<r[x].key, r[x].kids[q].key>>
  BY <1>2, PathsAre
<1>8. \A q \in 1..Len(cs) : Path(p, cs[q]) \in DOMAIN bound
  BY <1>1, <1>2, <1>7, PathsUnfold
<1>9. /\ b.id = bound[p] /\ b.hash = r[x].hash /\ Len(b.kids) = Len(cs)
      /\ \A q \in 1..Len(cs) : Saves(b.kids[q], cs[q], bound[Path(p, cs[q])])
  BY <1>1, <1>2, <1>7, SMTT(30) DEF IsSnapshot, Saves
<1> HIDE DEF kids, b, p, cs, r
<1>10. Len(kids) \in Nat /\ Len(cs) \in Nat
  BY <1>5, <1>6
<1>11. Done(kids, p, cs, bound)
  BY <1>4, <1>8, <1>10, AlignedDone
<1>12. AlikeKids(kids, b.kids)
  BY <1>9, <1>11 DEF Done, Saves, AlikeKids
<1>. QED BY <1>4, <1>9, <1>12 DEF Complete, kids, b

\* The snapshot becomes the cache.
LEMMA FinishFaithful ==
    ASSUME Course, Faithful, Finish
    PROVE  Faithful'
<1> DEFINE r == rendering
           N == LiveNodes(Nat \cup Foreign)
           L == LiveLeaves(Nat \cup Foreign)
<1>1. /\ Types /\ Underway /\ calls = <<>> /\ DOMAIN bound = Paths(r) /\ cache' = Snapshot
      /\ work' = <<>> /\ UNCHANGED <<page, lost>>
  BY FinishTyped DEF Course, Order, Inv, Finish, Ends
<1>2. AgreeTrees(page, work')
  BY <1>1 DEF AgreeTrees, ToSet
<1>3. SUFFICES ASSUME ~lost, NEW n \in ToSet(page), NEW b \in ToSet(Snapshot), n.id = b.id, n.kind = "block"
               PROVE  Agree(n, b)
  BY <1>1, <1>2 DEF Faithful, AgreeTrees
<1>4. page \in Seq(N) /\ Nodal(N, L)
  BY <1>1, TreesAreWide
<1>5. r \in Renderings /\ IsSnapshot(Snapshot, r, bound)
  BY <1>1, SnapshotIs DEF Types
<1>6. PICK x \in 1..Len(r) : b = Snapshot[x]
  BY <1>3, <1>5 DEF IsSnapshot, ToSet
<1>7. PICK texts, subs : Sorts(texts, subs)
  BY DEF Course, Sorted
<1>8. n.kids \in Seq(L) /\ n.id \in texts
  <2> HIDE DEF N, L
  <2>1. n \in N /\ \E i \in 1..Len(page) : n = page[i]
    BY <1>3, <1>4, AtPlace
  <2>2. page \in Seq(LiveSorts(texts, subs))
    BY <1>7 DEF Sorts
  <2>. QED BY <1>3, <1>4, <2>1, <2>2, SortedNode DEF Nodal
<1>9. r[x].kind = "block"
  <2>1. r[x].kind \in Kinds
    <3>1. r \in Seq(Nodes)
      BY <1>5, RenderingType DEF IsRendered
    <3>2. r[x] \in Nodes
      BY <3>1
    <3>. QED BY <3>2, NodeType
  <2>2. <<r[x].key>> \in DOMAIN bound /\ NodeAt(r, <<r[x].key>>) = r[x]
    BY <1>1, <1>5, PathsUnfold, NodesAreThere DEF NodesThere
  <2>3. b.id = bound[<<r[x].key>>]
    BY <1>5, <1>6 DEF IsSnapshot, Saves
  <2>4. b.id \in SortOf(r[x], texts, subs)
    BY <1>7, <2>2, <2>3 DEF Sorts, BoundSorts
  <2>. QED BY <1>3, <1>7, <1>8, <2>1, <2>4 DEF Sorts, SortOf, Kinds
<1>10. PICK j \in 1..Len(work) : Complete(work[j], b)
  BY <1>1, <1>6, <1>9, BlocksAreComplete
<1> HIDE DEF N, L, r
<1>11. work[j] \in ToSet(work)
  BY <1>1 DEF Types, ToSet
<1>12. Agree(n, work[j])
  BY <1>3, <1>10, <1>11 DEF Faithful, AgreeTrees, Complete
<1>13. n.hash = work[j].hash /\ AlikeKids(n.kids, work[j].kids)
  BY <1>8, <1>12, AgreeIs
<1>14. n.hash = b.hash /\ AlikeKids(n.kids, b.kids)
  BY <1>10, <1>13 DEF Complete, AlikeKids
<1>. QED BY <1>8, <1>14, AgreeIs

\* Every step keeps the caches right, or loses track of a call.
LEMMA StepFaithful ==
    ASSUME Course, Faithful, [Next]_vars
    PROVE  Faithful'
<1>1. Order /\ Types
  BY DEF Course, Order, Inv
<1>2. AgreeTrees(page, <<>>)
  BY DEF AgreeTrees, ToSet
<1>3. CASE Sync
  <2>1. PICK m : m = Matching(Base(page, cache), rendering) /\ (Begin(m) \/ Refuse(m))
    BY <1>3 DEF Sync
  <2>2. CASE Begin(m)
    BY <1>1, <2>1, <2>2, BeginFaithful
  <2>3. CASE Refuse(m)
    BY <2>3 DEF Refuse, syncVars, Faithful
  <2>. QED BY <2>1, <2>2, <2>3
<1>4. CASE Send
  BY <1>4, SendFaithful
<1>5. CASE Finish
  BY <1>5, FinishFaithful
<1>6. CASE Rejected \/ Stop
  BY <1>2, <1>6 DEF Rejected, Stop, Ends, Faithful
<1>7. CASE LoseAnswer \/ SendTwice
  BY <1>7 DEF LoseAnswer, SendTwice, Faithful
<1>8. CASE Edit
  <2>1. UNCHANGED <<cache, work, lost>>
    BY <1>8 DEF Edit, syncVars
  <2>2. cache \in Seq(NodeEntries(Minted)) /\ work \in Seq(NodeEntries(Minted))
    BY <1>1 DEF Types
  <2>3. /\ AgreeTrees(page, cache) => AgreeTrees(page', cache)
        /\ AgreeTrees(page, work) => AgreeTrees(page', work)
    BY <1>1, <1>8, <2>2, EditAgrees
  <2>. QED BY <2>1, <2>3 DEF Faithful
<1>9. CASE LoseCache
  BY <1>2, <1>9 DEF LoseCache, syncVars, Faithful
<1>10. CASE UNCHANGED vars \/ \E r \in Renderings : Render(r)
  BY <1>10 DEF vars, history, syncVars, Render, Faithful
<1>. QED BY <1>3, <1>4, <1>5, <1>6, <1>7, <1>8, <1>9, <1>10 DEF Next, Step

\* So it is at first.
LEMMA InitFaithful ==
    ASSUME Init
    PROVE  Faithful
BY DEF Init, Faithful, AgreeTrees, ToSet

\* The invariant of a sync and of its checkpoints always holds.
LEMMA CourseAlwaysHolds == Spec => [](Course /\ Faithful)
<1>1. Init => Course /\ Faithful
  BY InitInCourse, InitFaithful
<1>2. Course /\ Faithful /\ [Next]_vars => (Course /\ Faithful)'
  BY StepInCourse, StepFaithful
<1>. QED BY <1>1, <1>2, PTL DEF Spec

\* Whatever is rendered, wherever a sync stops, and whatever others do to the children of
\* the page: as long as every call has been answered once, a block of the page that the
\* cache knows has the payload and the children that the cache says.  The next sync takes
\* that on trust: driftedBase of sync.ts takes the entries of the cache by their ids.
THEOREM CheckpointsAreAlwaysTrue == Spec => []CheckpointsAreTrue
<1>1. Faithful => CheckpointsAreTrue
  BY DEF Faithful, CheckpointsAreTrue, AgreeTrees
<1>. QED BY <1>1, CourseAlwaysHolds, PTL

----------------------------------------------------------------------------
(* Nothing is under a sub-page *)

Bare(n) == n.kind = "page" => Len(n.kids) = 0

Barren(tree) == \A i \in 1..Len(tree) : Bare(tree[i])

\* A removal puts nothing under a sub-page.
LEMMA BarrenWithout ==
    ASSUME NEW N, NEW L, Nodal(N, L), NEW tree \in Seq(N), NEW id, Barren(tree)
    PROVE  Barren(Without(tree, id))
<1> DEFINE t == Without(tree, id)
<1>1. PICK pos : IsSieved(t, pos, tree, id)
  BY WithoutIs
<1> HIDE DEF t
<1>2. ASSUME NEW k \in 1..Len(t), t[k].kind = "page" PROVE Len(t[k].kids) = 0
  <2> DEFINE s == tree[pos[k]].kids
  <2>1. /\ pos[k] \in 1..Len(tree) /\ t[k].kind = tree[pos[k]].kind
        /\ t[k].kids = Sieved(s, id)
    BY <1>1 DEF IsSieved
  <2>2. s \in Seq(L)
    <3>1. tree[pos[k]] \in N
      BY <2>1
    <3>. QED BY <3>1 DEF Nodal
  <2>3. Len(s) = 0
    BY <1>2, <2>1 DEF Barren, Bare
  <2> HIDE DEF s
  <2>4. PICK at : IsPicking(Sieved(s, id), at, s, Others(s, id))
    BY <2>2, SievedIs
  <2>5. Others(s, id) = {}
    BY <2>2, <2>3 DEF Others
  <2>6. Len(Sieved(s, id)) = 0
    <3> DEFINE u == Sieved(s, id)
    <3>1. Len(u) \in Nat /\ \A j \in 1..Len(u) : at[j] \in {}
      BY <2>4, <2>5 DEF IsPicking
    <3> HIDE DEF u
    <3>2. Len(u) = 0
      BY <3>1
    <3>. QED BY <3>2 DEF u
  <2>. QED BY <2>1, <2>6
<1>. QED BY <1>2 DEF Barren, Bare, t

\* Nor does a new sibling at the end.
LEMMA BarrenAppend ==
    ASSUME NEW N, NEW tree \in Seq(N), NEW b \in N, Barren(tree), Bare(b)
    PROVE  Barren(Append(tree, b))
<1>1. /\ Len(Append(tree, b)) = Len(tree) + 1 /\ Append(tree, b)[Len(tree) + 1] = b
      /\ \A i \in 1..Len(tree) : Append(tree, b)[i] = tree[i]
  BY AppendIs
<1>2. \A i \in 1..(Len(tree) + 1) : i \in 1..Len(tree) \/ i = Len(tree) + 1
  OBVIOUS
<1>. QED BY <1>1, <1>2 DEF Barren

\* Nor does a call: blocks are created under blocks.
LEMMA BarrenLanded ==
    ASSUME Types, InTurn, Calling, IsNext(Head(calls), rendering), NEW first \in Nat,
           NEW texts, NEW subs, texts \cap subs = {}, BoundSorts(bound, rendering, texts, subs),
           NEW tree \in Seq(LiveSorts(texts, subs)), IdsDiffer(tree), Barren(tree)
    PROVE  Barren(Landed(tree, Head(calls), first))
<1> DEFINE call == Head(calls)
           N == LiveSorts(texts, subs)
           L == LiveTexts(texts)
           u == Landed(tree, call, first)
           new == NewBlocks(call, first)
           at == call.at
           a == Anchor(call)
<1>1. rendering \in Renderings /\ call \in PlanCalls(rendering, Minted, Live)
  BY DEF Types, IsNext
<1>2. Nodal(N, L)
  <2>1. \A n \in N : Fields(n) /\ n.kids \in Seq(L)
    BY DEF LiveSorts, Fields
  <2>2. \A l \in L : Fields(l)
    BY DEF LiveTexts, Fields
  <2>. QED BY <2>1, <2>2 DEF Nodal
<1>3. tree \in Seq(N) /\ Len(tree) \in Nat /\ DOMAIN tree = 1..Len(tree)
  OBVIOUS
<1>4. \/ call.op = "append" /\ Parent(call) = Page /\ u = Placed(tree, new, at, a)
      \/ call.op = "append" /\ Parent(call) # Page /\ u = Grafted(tree, Parent(call), new, at, a)
      \/ call.op = "create" /\ u = Append(tree, Block(NodeAt(rendering, call.node), first))
      \/ call.op \in {"update", "rename"} /\ u = Rehashed(tree, call.id, call.hash)
      \/ Clearing(call) /\ u = Without(tree, call.id)
      \/ call.op = "move" /\ u = tree
  BY <1>1, LandedIs
<1>5. CASE call.op = "append" /\ Parent(call) = Page /\ u = Placed(tree, new, at, a)
  <2>1. new \in Seq(LiveLeaves(Nat \cup Foreign))
    BY <1>1, <1>5, NewNodesAre
  <2>2. \A k \in 1..Len(new) : Bare(new[k])
    <3> HIDE DEF new
    <3>1. \A k \in 1..Len(new) : new[k] \in LiveLeaves(Nat \cup Foreign)
      BY <2>1
    <3>2. \A l \in LiveLeaves(Nat \cup Foreign) : l.kids = <<>>
      BY DEF LiveLeaves
    <3>3. \A l \in LiveLeaves(Nat \cup Foreign) : Len(l.kids) = 0
      BY <3>2
    <3>. QED BY <3>1, <3>3 DEF Bare
  <2>3. IsPlaced(u, tree, new, at, a)
    <3> DEFINE S == N \cup LiveLeaves(Nat \cup Foreign)
    <3>1. tree \in Seq(S) /\ new \in Seq(S)
      <4> HIDE DEF N, new
      <4>. QED BY <1>3, <2>1, SeqSubset
    <3> HIDE DEF S, new, u, at, a
    <3>2. IsPlaced(Placed(tree, new, at, a), tree, new, at, a)
      BY <3>1, PlacedIs
    <3>. QED BY <1>5, <3>2
  <2> HIDE DEF new, u, at, a
  <2>4. ASSUME NEW j \in 1..Len(u) PROVE Bare(u[j])
    <3>1. \/ \E i \in 1..Len(tree) : u[j] = tree[i]
          \/ \E k \in 1..Len(new) : u[j] = new[k]
      BY <2>3, OldOrNew
    <3>. QED BY <2>2, <3>1 DEF Barren
  <2>. QED BY <2>4 DEF Barren, u, call
<1>6. CASE call.op = "append" /\ Parent(call) # Page /\ u = Grafted(tree, Parent(call), new, at, a)
  <2>1. IsNested(call) /\ call.under \in DOMAIN bound /\ Parent(call) = bound[call.under]
    BY <1>6, NestedInBlock
  <2>2. PICK y : CreatesUnder(call, rendering, y) /\ rendering[y].kind = "block"
    BY <1>1, <2>1, NestedCreates
  <2>3. NodeAt(rendering, call.under) = rendering[y]
    BY <1>1, <2>2, NodesAreThere DEF CreatesUnder, NodesThere
  <2>4. Parent(call) \in texts
    BY <2>1, <2>2, <2>3 DEF BoundSorts, SortOf
  <2> DEFINE p == Parent(call)
             G(i) == [tree[i] EXCEPT !.kids = Placed(tree[i].kids, new, at, a)]
  <2> HIDE DEF p
  <2>5. Len(u) = Len(tree) /\ \A i \in 1..Len(tree) : u[i] = IF tree[i].id = p THEN G(i) ELSE tree[i]
    <3> HIDE DEF new, u, at, a
    <3>1. u = Grafted(tree, p, new, at, a)
      BY <1>6 DEF p
    <3>. QED BY <1>3, <3>1 DEF Grafted
  <2>6. \A i \in 1..Len(tree) : tree[i].id = p => tree[i].kind # "page"
    <3>1. \A i \in 1..Len(tree) : tree[i].kind = "page" => tree[i].id \in subs
      BY <1>3, SortedNode DEF N
    <3>. QED BY <2>4, <3>1 DEF p
  <2>7. ASSUME NEW i \in 1..Len(tree) PROVE Bare(u[i])
    <3>1. CASE tree[i].id = p
      <4>1. u[i] = G(i)
        BY <2>5, <3>1
      <4>2. tree[i] \in N
        BY <1>3
      <4> HIDE DEF N
      <4> DEFINE e == tree[i]
                 s == Placed(tree[i].kids, new, at, a)
      <4> HIDE DEF e, s
      <4>3. [e EXCEPT !.kids = s].kind = e.kind
        BY <4>2 DEF N, LiveSorts, e
      <4>. QED BY <2>6, <3>1, <4>1, <4>3 DEF Bare, e, s
    <3>2. CASE tree[i].id # p
      BY <2>5, <3>2 DEF Barren
    <3>. QED BY <3>1, <3>2
  <2>. QED BY <2>5, <2>7 DEF Barren
<1>7. CASE call.op = "create" /\ u = Append(tree, Block(NodeAt(rendering, call.node), first))
  <2> DEFINE b == Block(NodeAt(rendering, call.node), first)
             S == N \cup {b}
  <2>1. Bare(b)
    BY DEF Block, Bare
  <2> HIDE DEF b, N
  <2>2. tree \in Seq(S) /\ b \in S
    BY <1>3, SeqSubset
  <2> HIDE DEF S
  <2>3. Barren(Append(tree, b))
    BY <2>1, <2>2, BarrenAppend
  <2>. QED BY <1>7, <2>3 DEF b
<1>8. CASE call.op \in {"update", "rename"} /\ u = Rehashed(tree, call.id, call.hash)
  <2>1. IsRehashed(u, tree, call.id, call.hash)
    <3> HIDE DEF u, N, L
    <3>. QED BY <1>2, <1>3, <1>8, RehashedIs
  <2> HIDE DEF u
  <2>2. Len(u) = Len(tree) /\ \A i \in 1..Len(tree) : u[i].kind = tree[i].kind /\ Len(u[i].kids) = Len(tree[i].kids)
    BY <1>3, <2>1 DEF IsRehashed, Renewed
  <2>3. Barren(u)
    BY <2>2 DEF Barren, Bare
  <2>. QED BY <2>3 DEF u
<1>9. CASE Clearing(call) /\ u = Without(tree, call.id)
  <2> HIDE DEF N, L
  <2>. QED BY <1>2, <1>3, <1>9, BarrenWithout
<1>10. CASE call.op = "move" /\ u = tree
  BY <1>10
<1>. QED BY <1>4, <1>5, <1>6, <1>7, <1>8, <1>9, <1>10

\* The first landing of the next call.
LEMMA LandsBarren ==
    ASSUME Course, Calling, Barren(page)
    PROVE  Barren(Landed(page, Head(calls), nextId))
<1>1. Types /\ InTurn /\ IdsDiffer(page) /\ nextId \in Nat
  BY DEF Course, Order, Inv, Types, Distinct
<1>2. IsNext(Head(calls), rendering)
  BY <1>1, HeadIsNext DEF Course, Underway
<1>3. PICK texts, subs : Sorts(texts, subs)
  BY DEF Course, Sorted
<1>4. /\ texts \cap subs = {} /\ BoundSorts(bound, rendering, texts, subs)
      /\ page \in Seq(LiveSorts(texts, subs))
  BY <1>3 DEF Sorts
<1>. QED BY <1>1, <1>2, <1>4, BarrenLanded

\* And the second.
LEMMA LandsTwiceBarren ==
    ASSUME Course, Calling, Barren(page)
    PROVE  LET first == nextId
               again == nextId + Len(Created(Head(calls)))
           IN  Barren(Landed(Landed(page, Head(calls), first), Head(calls), again))
<1> DEFINE call == Head(calls)
           again == nextId + Len(Created(call))
           next == again + Len(Created(call))
           tree == Landed(page, call, nextId)
<1>1. Types /\ InTurn /\ nextId \in Nat /\ Inv /\ Distinct /\ Sorted
  BY DEF Course, Order, Inv, Types
<1>2. IsNext(call, rendering)
  BY <1>1, HeadIsNext DEF Course, Underway
<1>3. again \in Nat /\ next \in Nat /\ next >= again /\ next >= nextId
  <2>1. call \in PlanCalls(rendering, Minted, Live)
    BY <1>2 DEF IsNext
  <2> HIDE DEF call
  <2>2. Len(Created(call)) \in Nat
    BY <1>1, <2>1, CreatedType DEF Types
  <2>. QED BY <1>1, <2>2
<1>4. PICK texts, subs : Sorts(texts, subs)
  BY <1>1 DEF Sorted
<1> HIDE DEF next
<1>5. PICK moreTexts, moreSubs : Grown(moreTexts, moreSubs, texts, subs, next, call.op = "create")
  BY <1>1, <1>3, <1>4, SortsGrow
<1>6. tree \in Seq(LiveSorts(moreTexts, moreSubs))
  BY <1>1, <1>2, <1>3, <1>4, <1>5, FirstLandingSorted
<1>7. IdsDiffer(tree)
  BY <1>1, LandsApart
<1>8. Barren(tree)
  BY LandsBarren
<1> HIDE DEF tree, again, call
<1>9. moreTexts \cap moreSubs = {} /\ texts \subseteq moreTexts /\ subs \subseteq moreSubs
  BY <1>5 DEF Grown
<1>10. BoundSorts(bound, rendering, moreTexts, moreSubs)
  <2>1. BoundSorts(bound, rendering, texts, subs)
    BY <1>4 DEF Sorts
  <2>. QED BY <1>9, <2>1 DEF BoundSorts, SortOf
<1>11. Barren(Landed(tree, call, again))
  BY <1>1, <1>2, <1>3, <1>6, <1>7, <1>8, <1>9, <1>10, BarrenLanded DEF call
<1>. QED BY <1>11 DEF tree, again, call

\* Others put no child anywhere.
LEMMA EditBarren ==
    ASSUME Course, Edit, Barren(page)
    PROVE  Barren(page')
<1> DEFINE N == LiveNodes(Nat \cup Foreign)
           L == LiveLeaves(Nat \cup Foreign)
<1>1. page \in Seq(N) /\ Nodal(N, L) /\ L \subseteq N
  BY TreesAreWide DEF Course, Order, Inv
<1>2. AreNodes(N, L)
  BY LiveAreNodes DEF LiveNodes
<1>3. \A u \in Foreign : Block([kind |-> "block", hash |-> Ghost], u) \in L
  BY DEF Block, LiveLeaves, Kinds
<1> HIDE DEF N, L
<1>4. \A id : Barren(Without(page, id)) /\ Without(page, id) \in Seq(N)
  BY <1>1, <1>2, BarrenWithout, WithoutType
<1>5. CASE \E n \in ToSet(page) : page' = Without(page, n.id)
  BY <1>4, <1>5
<1>6. CASE \E u \in Foreign \ Ids(page) :
                page' = Append(page, Block([kind |-> "block", hash |-> Ghost], u))
  <2>1. PICK u \in Foreign : page' = Append(page, Block([kind |-> "block", hash |-> Ghost], u))
    BY <1>6
  <2> DEFINE f == Block([kind |-> "block", hash |-> Ghost], u)
  <2>2. Bare(f) /\ f \in N
    BY <1>1, <1>3 DEF Block, Bare
  <2> HIDE DEF f
  <2>3. Barren(Append(page, f))
    BY <1>1, <2>2, BarrenAppend
  <2>. QED BY <2>1, <2>3 DEF f
<1>7. CASE \E m \in ToSet(page) : page' = <<m>> \o Without(page, m.id)
  <2>1. PICK m \in ToSet(page) : page' = <<m>> \o Without(page, m.id)
    BY <1>7
  <2> DEFINE rest == Without(page, m.id)
  <2>2. m \in N /\ \E i \in 1..Len(page) : m = page[i]
    BY <1>1, AtPlace
  <2>3. rest \in Seq(N) /\ Barren(rest)
    BY <1>4
  <2> HIDE DEF rest
  <2>4. page' = <<m>> \o rest /\ Bare(m)
    BY <2>1, <2>2 DEF rest, Barren
  <2>5. <<m>> \in Seq(N) /\ Len(<<m>>) = 1 /\ <<m>>[1] = m
    BY <2>2
  <2>6. ASSUME NEW i \in 1..Len(page') PROVE Bare(page'[i])
    <3>1. \/ i \in 1..Len(<<m>>) /\ page'[i] = <<m>>[i]
          \/ \E j \in 1..Len(rest) : page'[i] = rest[j]
      BY <2>3, <2>4, <2>5, JoinedIs
    <3>. QED BY <2>3, <2>4, <2>5, <3>1 DEF Barren
  <2>. QED BY <2>6 DEF Barren
<1>. QED BY <1>5, <1>6, <1>7 DEF Edit

\* No step puts anything under a sub-page.
LEMMA StepBarren ==
    ASSUME Course, Barren(page), [Next]_vars
    PROVE  Barren(page')
<1>1. CASE Send \/ LoseAnswer
  BY <1>1, LandsBarren DEF Send, LoseAnswer
<1>2. CASE SendTwice
  BY <1>2, LandsTwiceBarren DEF SendTwice
<1>3. CASE Edit
  BY <1>3, EditBarren
<1>4. CASE UNCHANGED page
  BY <1>4
<1>5. Send \/ LoseAnswer \/ SendTwice \/ Edit \/ UNCHANGED page
  BY DEF Next, Step, Render, Sync, Begin, Refuse, Rejected, Finish, Stop, LoseCache, vars
<1>. QED BY <1>1, <1>2, <1>3, <1>4, <1>5

\* At first there is no sub-page.
LEMMA InitBarren ==
    ASSUME Init
    PROVE  Barren(page)
<1>1. CASE page = <<>>
  BY <1>1 DEF Barren
<1>2. CASE \E u \in Foreign : page = <<Block([kind |-> "block", hash |-> Ghost], u)>>
  <2>1. PICK u \in Foreign : page = <<Block([kind |-> "block", hash |-> Ghost], u)>>
    BY <1>2
  <2> DEFINE b == Block([kind |-> "block", hash |-> Ghost], u)
  <2>2. Bare(b)
    BY DEF Bare, Block
  <2> HIDE DEF b
  <2>3. page = <<b>>
    BY <2>1 DEF b
  <2>. QED BY <2>2, <2>3 DEF Barren
<1>. QED BY <1>1, <1>2 DEF Init

----------------------------------------------------------------------------
(* The page becomes what is rendered *)

\* What a base knows of a live child from a cache that is right about contents.
LEMMA BaseKnows ==
    ASSUME Types, NEW texts, NEW subs, Sorts(texts, subs), ContentsAgree,
           NEW base, IsBaseOf(base, page, cache), NEW i \in 1..Len(page), base[i].key # Ghost,
           base[i].kind \in Kinds
    PROVE  /\ page[i].id = base[i].id /\ page[i].kind = base[i].kind
           /\ page[i].hash = base[i].hash
<1>1. DOMAIN page = 1..Len(page) /\ page[i] \in ToSet(page)
  BY DEF Types, ToSet
<1>2. base[i].id = page[i].id /\ base[i] \in ToSet(cache)
  BY <1>1 DEF IsBaseOf
<1>3. page[i].hash = base[i].hash
  BY <1>1, <1>2 DEF ContentsAgree, Agree
<1>4. cache \in Seq(EntrySorts(texts, subs)) /\ page \in Seq(LiveSorts(texts, subs))
      /\ texts \cap subs = {}
  BY DEF Sorts
<1>5. base[i].id \in SortOf(base[i], texts, subs)
  <2>1. PICK j \in 1..Len(cache) : base[i] = cache[j]
    BY <1>2, <1>4, AtPlace
  <2>. QED BY <1>4, <2>1, SortedEntry DEF SortOf
<1>6. page[i].id \in SortOf(page[i], texts, subs) /\ page[i].kind \in Kinds
  BY <1>4, SortedNode DEF SortOf
<1>7. page[i].kind = base[i].kind
  BY <1>2, <1>4, <1>5, <1>6 DEF SortOf, Kinds
<1>. QED BY <1>2, <1>3, <1>7

\* When the cache is right about contents, the page is aligned as its base is.
LEMMA PageAligns ==
    ASSUME Types, NEW texts, NEW subs, Sorts(texts, subs), ContentsAgree,
           NEW base, IsBaseOf(base, page, cache), Len(base) = Len(page), NEW binding, NEW going, NEW fresh,
           Aligned(base, Root, rendering, binding, going, fresh),
           \A q \in 1..Len(rendering) : Path(Root, rendering[q]) \in DOMAIN binding =>
                \E z \in DOMAIN base : /\ base[z].key = rendering[q].key
                                       /\ base[z].id = binding[Path(Root, rendering[q])]
    PROVE  Aligned(page, Root, rendering, binding, going, fresh)
<1> DEFINE r == rendering
           p == Root
<1> HIDE DEF p
<1>1. PICK at : IsAligned(at, base, p, r, binding, going, fresh)
  BY DEF Aligned, p
<1>2. DOMAIN page = 1..Len(page) /\ DOMAIN base = 1..Len(page)
      /\ \A i \in 1..Len(page) : base[i].id = page[i].id
  <2>1. DOMAIN page = 1..Len(page)
    BY DEF Types
  <2>. QED BY <2>1 DEF IsBaseOf
<1>3. r \in Seq(Nodes) /\ Ghost \notin Keys
  BY RenderingType, KeysAreNoGhosts DEF Types, IsRendered
<1>4. ASSUME NEW q \in 1..Len(r), Path(p, r[q]) \in DOMAIN binding
      PROVE  /\ at[q] \in 1..Len(page)
             /\ page[at[q]].id = binding[Path(p, r[q])] /\ page[at[q]].kind = r[q].kind
             /\ page[at[q]].hash = r[q].hash \/ <<page[at[q]].id, r[q].hash>> \in fresh
  <2>1. /\ at[q] \in 1..Len(page)
        /\ base[at[q]].id = binding[Path(p, r[q])] /\ base[at[q]].kind = r[q].kind
        /\ base[at[q]].hash = r[q].hash \/ <<base[at[q]].id, r[q].hash>> \in fresh
    BY <1>1, <1>4 DEF IsAligned
  <2>2. PICK z \in DOMAIN base : base[z].key = r[q].key /\ base[z].id = binding[Path(p, r[q])]
    BY <1>4 DEF p
  <2>3. r[q].key \in Keys /\ r[q].kind \in Kinds
    <3>1. r[q] \in Nodes
      BY <1>3
    <3>. QED BY <3>1, NodeType
  <2>4. base[at[q]] = base[z]
    BY <1>2, <2>1, <2>2 DEF IsBaseOf
  <2>5. base[at[q]].key # Ghost /\ base[at[q]].kind \in Kinds
    BY <1>3, <2>1, <2>2, <2>3, <2>4
  <2>6. page[at[q]].id = base[at[q]].id /\ page[at[q]].kind = base[at[q]].kind
        /\ page[at[q]].hash = base[at[q]].hash
    BY <2>1, <2>5, BaseKnows
  <2>. QED BY <2>1, <2>6
<1>5. \A q, s \in 1..Len(r) :
        q < s /\ Path(p, r[q]) \in DOMAIN binding /\ Path(p, r[s]) \in DOMAIN binding => at[q] < at[s]
  BY <1>1 DEF IsAligned
<1>6. \A k \in 1..Len(page) : \/ page[k].id \in going
                              \/ \E q \in 1..Len(r) : Path(p, r[q]) \in DOMAIN binding /\ at[q] = k
  BY <1>1, <1>2 DEF IsAligned
<1>7. IsAligned(at, page, p, r, binding, going, fresh)
  BY <1>4, <1>5, <1>6 DEF IsAligned
<1>. QED BY <1>7 DEF Aligned, p

\* A sync begins with a page that is aligned, if the cache is right about contents and no
\* sub-page has to be put before a sibling that stays.
LEMMA BeginAligned ==
    ASSUME Course, NEW m, m = Matching(Base(page, cache), rendering), Diffable(m),
           ContentsAgree, PagesComeLast(m.top)
    PROVE  Aligned(page, Root, rendering, Inherited(m), Going(Calls(Plan(m)), 0),
                   Renewing(Calls(Plan(m)), 0))
<1> DEFINE queue == Calls(Plan(m))
           b == Inherited(m)
           base == m.top.old
           r == rendering
           going == Going(queue, 0)
           fresh == Renewing(queue, 0)
           p == Root
<1>1. Types /\ r \in Renderings
  BY DEF Course, Order, Inv, Types
<1>2. /\ Began(queue, b, m, r, Minted, Live) /\ base = Base(page, cache)
      /\ IsBase(base, Minted, Live) /\ IsBaseOf(base, page, cache)
  BY <1>1, BeginsBegan
<1>3. PICK texts, subs : Sorts(texts, subs)
  BY DEF Course, Sorted
<1>4. CachedSorts(base, texts, subs)
  BY <1>1, <1>2, <1>3, BaseSorted
<1> HIDE DEF queue, b
<1>5. LeafyLists(m, r)
  BY <1>1, <1>2, <1>4, InheritedSorted
<1>6. AllLongest(m, r)
  BY <1>1, MatchingKeeps
<1>7. 0 \in 0..Len(r) /\ ListOf(m, 0) = m.top /\ PathOf(r, 0) = p /\ Sibs(r, 0) = r
      /\ r \in Seq(Nodes) /\ m.top.new = r
  BY <1>1, <1>2, RenderingType DEF IsRendered, ListOf, PathOf, Sibs, Began, IsMatching
<1> HIDE DEF p
<1>8. Aligned(ListOf(m, 0).old, PathOf(r, 0), Sibs(r, 0), b, Going(queue, 0), Renewing(queue, 0))
  BY <1>1, <1>2, <1>5, <1>6, <1>7, BeganAligned
<1>9. Aligned(base, p, r, b, going, fresh)
  BY <1>7, <1>8
<1> HIDE DEF going, fresh
<1>10. ASSUME NEW q \in 1..Len(r), Path(p, r[q]) \in DOMAIN b
       PROVE  \E z \in DOMAIN base : base[z].key = r[q].key /\ base[z].id = b[Path(p, r[q])]
  <2>1. q \in 1..Len(Sibs(r, 0)) /\ Path(PathOf(r, 0), Sibs(r, 0)[q]) = Path(p, r[q])
    BY <1>7
  <2>2. PICK z : IsPassedOn(ListOf(m, 0), q, z, b[Path(PathOf(r, 0), Sibs(r, 0)[q])])
    BY <1>1, <1>2, <1>7, <1>10, <2>1, BoundIsPassedOn
  <2>3. IsPassedOn(m.top, q, z, b[Path(p, r[q])])
    BY <1>7, <2>1, <2>2, SMTT(30)
  <2>. QED BY <1>7, <2>3 DEF IsPassedOn, IsEntry, Matches
<1>11. Len(base) = Len(page)
  <2>1. base \in Seq(NodeEntries(Minted) \cup Placeholders(Live)) /\ page \in Seq(LiveNodes(Live))
    BY <1>1, <1>2 DEF IsBase, Types
  <2>2. DOMAIN base = DOMAIN page
    BY <1>2 DEF IsBaseOf
  <2> HIDE DEF base
  <2>3. DOMAIN base = 1..Len(base) /\ DOMAIN page = 1..Len(page) /\ Len(base) \in Nat /\ Len(page) \in Nat
    BY <2>1
  <2>4. \A u, v \in Nat : 1..u = 1..v => u = v
    <3>1. SUFFICES ASSUME NEW u \in Nat, NEW v \in Nat, 1..u = 1..v PROVE u = v
      OBVIOUS
    <3>2. u \in 1..u \/ u = 0
      OBVIOUS
    <3>3. v \in 1..v \/ v = 0
      OBVIOUS
    <3>. QED BY <3>1, <3>2, <3>3
  <2>. QED BY <2>2, <2>3, <2>4
<1>12. Aligned(page, p, r, b, going, fresh)
  BY <1>1, <1>2, <1>3, <1>9, <1>10, <1>11, PageAligns DEF p
<1>. QED BY <1>12 DEF p, b, going, fresh, queue

\* The page after the next call, and what is left to do.
TopsOn(t, first) ==
    Aligned(t, Root, rendering, Binds(Head(calls), first), Going(Tail(calls), 0),
            Renewing(Tail(calls), 0))

TopsAligned ==
    Aligned(page, Root, rendering, bound, Going(calls, 0), Renewing(calls, 0))

\* The list of the page, as one of the lists of a rendering.
LEMMA TopList ==
    ASSUME NEW r \in Renderings
    PROVE  /\ 0 \in 0..Len(r) /\ Sibs(r, 0) = r /\ PathOf(r, 0) = Root
           /\ IsRendered(r) /\ IsParent(Root) /\ Len(r) \in Nat
           /\ \A q \in 1..Len(r) : /\ NodeAt(r, Path(Root, r[q])) = r[q]
                                   /\ Path(Root, r[q]) \in Tops(r)
<1>1. r \in Seq(Nodes) /\ IsRendered(r)
  BY RenderingType DEF IsRendered
<1>2. 0 \in 0..Len(r) /\ Sibs(r, 0) = r /\ PathOf(r, 0) = Root
  BY <1>1 DEF Sibs, PathOf
<1>3. IsParent(Root)
  BY DEF IsParent
<1> DEFINE p == Root
<1>4. PathOf(r, 0) = p
  BY <1>2
<1> HIDE DEF p
<1>5. \A q \in 1..Len(r) : NodeAt(r, Path(p, r[q])) = r[q]
  <2>1. \A i \in 1..Len(Sibs(r, 0)) : NodeAt(r, Path(PathOf(r, 0), Sibs(r, 0)[i])) = Sibs(r, 0)[i]
    BY <1>2, ListsCover
  <2>. QED BY <1>2, <1>4, <2>1
<1>6. \A q \in 1..Len(r) : Path(Root, r[q]) \in Tops(r)
  BY <1>1, PathsAre, TopsUnfold
<1>. QED BY <1>1, <1>2, <1>3, <1>5, <1>6 DEF p

\* A call that creates children of the page puts what is next of the rendering in its place.
LEMMA TopTakes ==
    ASSUME Types, Calling, IdsDiffer(page), tidy, IsNext(Head(calls), rendering),
           Head(calls).op \in {"append", "create"}, Spot(Head(calls)) = Root,
           NEW first \in Nat, TopsAligned,
           NEW new, Len(new) = Len(Created(Head(calls))),
           \A k \in 1..Len(new) : LET n == NodeAt(rendering, Created(Head(calls))[k])
                                  IN  new[k].id = first + k - 1 /\ new[k].kind = n.kind
                                      /\ new[k].hash = n.hash,
           NEW anchor, At(Head(calls)) = "after" => anchor = bound[After(Head(calls))],
           NEW t, IsPlaced(t, page, new, At(Head(calls)), anchor)
    PROVE  TopsOn(t, first)
<1> DEFINE call == Head(calls)
           r == rendering
           p == Root
           b == Binds(call, first)
           paths == Created(call)
           at == At(call)
           after == After(call)
           going == Going(calls, 0)
           fresh == Renewing(calls, 0)
           going2 == Going(Tail(calls), 0)
           fresh2 == Renewing(Tail(calls), 0)
<1>1. r \in Renderings /\ call \in PlanCalls(r, Minted, Live)
  BY DEF Types, IsNext
<1>2. /\ going \subseteq going2 /\ fresh \subseteq fresh2
  BY LeftToDo DEF Types, Calling, RemovesFrom, SetsIn
<1>3. IsBound(b, bound, paths, first)
  BY BindsAre
<1>4. /\ 0 \in 0..Len(r) /\ Sibs(r, 0) = r /\ PathOf(r, 0) = p /\ IsRendered(r) /\ IsParent(p)
  BY <1>1, TopList
<1>5. DOMAIN paths = 1..Len(paths) /\ Len(paths) \in Nat
  <2>1. paths \in Seq(Paths(r))
    BY <1>1, CreatedType
  <2> HIDE DEF paths
  <2>. QED BY <2>1
<1>6. Fitting(call, PathOf(r, 0), Sibs(r, 0), bound, calls, 1)
  BY <1>4 DEF IsNext, ToFit
<1> HIDE DEF p
<1>7. PICK i0 : Fits(paths, at, after, i0, p, r, bound, calls, 1)
  BY <1>4, <1>6 DEF Fitting
<1>8. \A q \in ToSet(paths) : q \notin DOMAIN bound
  BY DEF IsNext
<1>9. IsRun(new, i0, r, first)
  <2>1. Fits(paths, at, after, i0, PathOf(r, 0), Sibs(r, 0), bound, calls, 1)
    BY <1>4, <1>7
  <2>2. \A k \in 1..Len(new) : LET n == NodeAt(r, paths[k])
                               IN  new[k].id = first + k - 1 /\ new[k].kind = n.kind
                                   /\ new[k].hash = n.hash
    OBVIOUS
  <2>3. Len(new) = Len(paths)
    OBVIOUS
  <2> HIDE DEF r, paths, at, after, call
  <2>4. IsRun(new, i0, Sibs(r, 0), first)
    BY <1>1, <1>4, <2>1, <2>2, <2>3, NewIsRun
  <2>. QED BY <1>4, <2>4
<1>10. page \in Seq(LiveNodes(Live))
  BY DEF Types
<1>11. Len(page) \in Nat /\ DOMAIN page = 1..Len(page)
  BY <1>10
<1>12. /\ Aligned(page, p, r, bound, going, fresh) /\ Len(new) = Len(paths)
       /\ at = "after" => anchor = bound[after]
       /\ IsPlaced(t, page, new, at, anchor)
  BY DEF TopsAligned, p
<1> HIDE DEF call, r, b, paths, at, after, going, fresh, going2, fresh2
<1>13. Aligned(t, p, r, b, going2, fresh2)
  BY <1>2, <1>3, <1>4, <1>5, <1>7, <1>8, <1>9, <1>11, <1>12, AlignedGrows
<1>. QED BY <1>13 DEF TopsOn, p, r, b, going2, fresh2, call

\* The blocks that an append creates on the page,
LEMMA TopAppended ==
    ASSUME Types, Calling, IdsDiffer(page), tidy, IsNext(Head(calls), rendering),
           Head(calls).op = "append", Head(calls).under = Root, NEW first \in Nat, TopsAligned
    PROVE  TopsOn(Placed(page, NewBlocks(Head(calls), first), Head(calls).at, Anchor(Head(calls))), first)
<1> DEFINE call == Head(calls)
           new == NewBlocks(call, first)
           anchor == Anchor(call)
           t == Placed(page, new, call.at, anchor)
<1>1. rendering \in Renderings /\ call \in PlanCalls(rendering, Minted, Live)
  BY DEF Types, IsNext
<1>2. /\ At(call) = call.at /\ After(call) = call.after /\ Spot(call) = Root
      /\ Created(call) = call.nodes
  BY DEF At, After, Spot, Created
<1>3. call.at = "after" => anchor = bound[call.after]
  BY DEF Anchor
<1>4. /\ Len(new) = Len(call.nodes) /\ new \in Seq(LiveLeaves(Nat \cup Foreign))
      /\ \A k \in 1..Len(call.nodes) : new[k] = Block(NodeAt(rendering, call.nodes[k]), first + k - 1)
  <2>1. Len(new) = Len(call.nodes) /\ new \in Seq(LiveLeaves(Nat \cup Foreign))
    BY <1>1, NewNodesAre
  <2>2. ASSUME NEW k \in 1..Len(call.nodes)
        PROVE  new[k] = Block(NodeAt(rendering, call.nodes[k]), first + k - 1)
    BY <1>1, NewNodesAre
  <2>. QED BY <2>1, <2>2
<1>5. \A k \in 1..Len(new) : LET n == NodeAt(rendering, call.nodes[k])
                             IN  new[k].id = first + k - 1 /\ new[k].kind = n.kind
                                 /\ new[k].hash = n.hash
  <2>1. SUFFICES ASSUME NEW k \in 1..Len(new)
                 PROVE  LET n == NodeAt(rendering, call.nodes[k])
                        IN  new[k].id = first + k - 1 /\ new[k].kind = n.kind
                            /\ new[k].hash = n.hash
    OBVIOUS
  <2>2. new[k] = Block(NodeAt(rendering, call.nodes[k]), first + k - 1)
    BY <1>4
  <2> HIDE DEF new, call
  <2>. QED BY <2>2 DEF Block
<1>6. IsPlaced(t, page, new, call.at, anchor)
  <2> DEFINE S == LiveNodes(Nat \cup Foreign)
  <2>1. page \in Seq(S) /\ new \in Seq(S)
    <3> HIDE DEF new, S
    <3>1. page \in Seq(S) /\ LiveLeaves(Nat \cup Foreign) \subseteq S
      BY TreesAreWide DEF S
    <3>. QED BY <1>4, <3>1, SeqSubset
  <2> HIDE DEF new, S, anchor, call
  <2>. QED BY <2>1, PlacedIs
<1> HIDE DEF new, anchor, t
<1>7. TopsOn(t, first)
  BY <1>2, <1>3, <1>4, <1>5, <1>6, TopTakes
<1>. QED BY <1>7 DEF t, new, anchor

\* and the sub-page that a call creates behind them.
LEMMA TopCreated ==
    ASSUME Types, Calling, IdsDiffer(page), tidy, IsNext(Head(calls), rendering),
           Head(calls).op = "create", NEW first \in Nat, TopsAligned
    PROVE  TopsOn(Append(page, Block(NodeAt(rendering, Head(calls).node), first)), first)
<1> DEFINE call == Head(calls)
           b == Block(NodeAt(rendering, call.node), first)
           new == <<b>>
           t == Append(page, b)
           S == LiveNodes(Nat \cup Foreign) \cup {b}
<1>1. /\ At(call) = "tail" /\ Spot(call) = Root /\ Created(call) = <<call.node>>
  BY DEF At, Spot, Created
<1>2. b.id = first /\ b.kind = NodeAt(rendering, call.node).kind /\ b.hash = NodeAt(rendering, call.node).hash
  BY DEF Block
<1> HIDE DEF b
<1>3. Len(new) = 1 /\ new[1] = b /\ Len(Created(call)) = 1 /\ Created(call)[1] = call.node
  BY <1>1
<1>4. \A k \in 1..Len(new) : LET n == NodeAt(rendering, Created(call)[k])
                             IN  new[k].id = first + k - 1 /\ new[k].kind = n.kind
                                 /\ new[k].hash = n.hash
  <2>1. SUFFICES ASSUME NEW k \in 1..Len(new)
                 PROVE  LET n == NodeAt(rendering, Created(call)[k])
                        IN  new[k].id = first + k - 1 /\ new[k].kind = n.kind
                            /\ new[k].hash = n.hash
    OBVIOUS
  <2>2. k = 1 /\ first + k - 1 = first
    BY <1>3
  <2> HIDE DEF new, call
  <2>. QED BY <1>2, <1>3, <2>2 DEF call
<1>5. page \in Seq(S) /\ b \in S
  <2>1. page \in Seq(LiveNodes(Nat \cup Foreign))
    BY TreesAreWide
  <2>. QED BY <2>1, SeqSubset
<1> HIDE DEF S
<1>6. /\ t \in Seq(S) /\ Len(t) = Len(page) + 1 /\ t[Len(page) + 1] = b
      /\ \A i \in 1..Len(page) : t[i] = page[i]
  BY <1>5, AppendIs
<1>7. IsPlaced(t, page, new, "tail", Page)
  <2> HIDE DEF t, new
  <2>1. IsPlacing(t, Len(page), page, new)
    BY <1>3, <1>5, <1>6 DEF IsPlacing
  <2>2. CutAt(Len(page), page, "tail", Page)
    BY DEF CutAt
  <2>. QED BY <2>1, <2>2 DEF IsPlaced
<1> HIDE DEF new, t
<1>8. TopsOn(t, first)
  BY <1>1, <1>3, <1>4, <1>7, TopTakes
<1>. QED BY <1>8 DEF t, b

\* A list of which only the children have changed.
SameTops(t, list) ==
    Len(t) = Len(list)
    /\ \A k \in 1..Len(list) : t[k].id = list[k].id /\ t[k].kind = list[k].kind
                               /\ t[k].hash = list[k].hash

\* It is aligned as it was.
LEMMA AlignedSame ==
    ASSUME NEW list, NEW p, NEW cs, NEW binding, NEW going, NEW fresh,
           Aligned(list, p, cs, binding, going, fresh), NEW t, SameTops(t, list)
    PROVE  Aligned(t, p, cs, binding, going, fresh)
<1>1. PICK at : IsAligned(at, list, p, cs, binding, going, fresh)
  BY DEF Aligned
<1>2. IsAligned(at, t, p, cs, binding, going, fresh)
  BY <1>1 DEF IsAligned, SameTops
<1>. QED BY <1>2 DEF Aligned

\* A call that creates no child of the page leaves their bindings.
LEMMA TopsBeside ==
    ASSUME Types, IsNext(Head(calls), rendering), NEW first,
           IsNested(Head(calls)) \/ Created(Head(calls)) = <<>>
    PROVE  BoundAlike(Root, rendering, bound, Binds(Head(calls), first))
<1> DEFINE call == Head(calls)
           p == Root
<1>1. rendering \in Renderings /\ call \in PlanCalls(rendering, Minted, Live)
  BY DEF Types, IsNext
<1>2. \A q \in 1..Len(rendering) : Path(Root, rendering[q]) \in Tops(rendering)
  BY <1>1, TopList
<1>3. \A q \in 1..Len(rendering) : Path(p, rendering[q]) \notin ToSet(Created(call))
  <2>1. CASE IsNested(call)
    BY <1>1, <1>2, <2>1, CreatedOnLevel
  <2>2. CASE Created(call) = <<>>
    BY <2>2 DEF ToSet
  <2>. QED BY <2>1, <2>2
<1>4. IsBound(Binds(call, first), bound, Created(call), first)
  BY BindsAre
<1> HIDE DEF p, call
<1>5. BoundAlike(p, rendering, bound, Binds(call, first))
  BY <1>3, <1>4, AlikeBeside
<1>. QED BY <1>5 DEF p, call

\* The next call, as the first one of those that are left.
LEMMA HeadIsApt ==
    ASSUME Types, Calling, Apt(calls, bound, rendering)
    PROVE  LET call == Head(calls)
           IN  /\ Clearing(call) => \A p \in DOMAIN bound : bound[p] # call.id
               /\ call.op \in {"update", "rename"} =>
                    \A p \in DOMAIN bound : bound[p] = call.id => NodeAt(rendering, p).hash = call.hash
<1>1. 1 \in 1..Len(calls) /\ calls[1] = Head(calls)
  BY TailIs DEF Types, Calling
<1>. QED BY <1>1 DEF Apt

\* A payload is set on the page, that of a child or of a block under one.
LEMMA TopsRenewed ==
    ASSUME Types, Calling, IsNext(Head(calls), rendering), Apt(calls, bound, rendering),
           Head(calls).op \in {"update", "rename"}, NEW first, TopsAligned,
           NEW t, IsRehashed(t, page, Head(calls).id, Head(calls).hash)
    PROVE  TopsOn(t, first)
<1> DEFINE call == Head(calls)
           r == rendering
           p == Root
           b == Binds(call, first)
           id == call.id
           hash == call.hash
           going == Going(calls, 0)
           fresh == Renewing(calls, 0)
           going2 == Going(Tail(calls), 0)
           fresh2 == Renewing(Tail(calls), 0)
<1>1. going \subseteq going2 /\ fresh \ {<<id, hash>>} \subseteq fresh2
  BY LeftToDo DEF Types, Calling, RemovesFrom, SetsIn
<1>2. BoundAlike(p, r, bound, b)
  BY TopsBeside DEF Created
<1>3. \A q \in DOMAIN bound : bound[q] = id => NodeAt(r, q).hash = hash
  BY HeadIsApt
<1>4. r \in Renderings
  BY DEF Types
<1>5. \A q \in 1..Len(r) : NodeAt(r, Path(p, r[q])) = r[q]
  BY <1>4, TopList
<1>6. DOMAIN page = 1..Len(page)
  BY DEF Types
<1>7. IsReset(t, page, id, hash)
  BY <1>6 DEF IsReset, IsRehashed
<1>8. Aligned(page, p, r, bound, going, fresh)
  BY DEF TopsAligned
<1> HIDE DEF call, r, p, b, id, hash, going, fresh, going2, fresh2
<1>9. Suits(p, r, bound, id, hash)
  BY <1>3, <1>5 DEF Suits
<1>10. Aligned(t, p, r, b, going2, fresh2)
  BY <1>1, <1>2, <1>7, <1>8, <1>9, AlignedRenewed, Zenon
<1>. QED BY <1>10 DEF TopsOn, p, r, b, going2, fresh2, call

\* A child goes, or a block under one.
LEMMA TopsWeeded ==
    ASSUME Types, Calling, IsNext(Head(calls), rendering), Apt(calls, bound, rendering),
           Clearing(Head(calls)), NEW first, TopsAligned,
           NEW t, NEW pos, IsSieved(t, pos, page, Head(calls).id)
    PROVE  TopsOn(t, first)
<1> DEFINE call == Head(calls)
           r == rendering
           p == Root
           b == Binds(call, first)
           id == call.id
           going == Going(calls, 0)
           fresh == Renewing(calls, 0)
           going2 == Going(Tail(calls), 0)
           fresh2 == Renewing(Tail(calls), 0)
<1>1. going \ {id} \subseteq going2 /\ fresh \subseteq fresh2
  BY LeftToDo DEF Types, Calling, RemovesFrom, SetsIn, Clearing
<1>2. BoundAlike(p, r, bound, b)
  BY TopsBeside DEF Created, Clearing
<1>3. \A q \in DOMAIN bound : bound[q] # id
  BY HeadIsApt
<1>4. r \in Renderings /\ Len(r) \in Nat
  BY TopList DEF Types
<1>5. DOMAIN page = 1..Len(page) /\ Len(page) \in Nat
  BY DEF Types
<1>6. IsWeeded(t, pos, page, id)
  BY <1>5 DEF IsWeeded, IsSieved
<1>7. Aligned(page, p, r, bound, going, fresh)
  BY DEF TopsAligned
<1> HIDE DEF call, r, p, b, id, going, fresh, going2, fresh2
<1>8. \A q \in 1..Len(r) : Path(p, r[q]) \in DOMAIN bound => bound[Path(p, r[q])] # id
  BY <1>3
<1>9. Aligned(t, p, r, b, going2, fresh2)
  BY <1>1, <1>2, <1>4, <1>6, <1>7, <1>8, AlignedWeeded
<1>. QED BY <1>9 DEF TopsOn, p, r, b, going2, fresh2, call

\* Nothing about the page's own list changes.
LEMMA TopsStay ==
    ASSUME Types, Calling, IsNext(Head(calls), rendering), NEW first, TopsAligned,
           IsNested(Head(calls)) \/ Head(calls).op = "move",
           NEW t, SameTops(t, page)
    PROVE  TopsOn(t, first)
<1> DEFINE call == Head(calls)
           r == rendering
           p == Root
           b == Binds(call, first)
           going == Going(calls, 0)
           fresh == Renewing(calls, 0)
           going2 == Going(Tail(calls), 0)
           fresh2 == Renewing(Tail(calls), 0)
<1>1. going \subseteq going2 /\ fresh \subseteq fresh2
  BY LeftToDo DEF Types, Calling, RemovesFrom, SetsIn, IsNested
<1>2. BoundAlike(p, r, bound, b)
  BY TopsBeside DEF Created
<1>3. Aligned(page, p, r, bound, going, fresh)
  BY DEF TopsAligned
<1> HIDE DEF call, r, p, b, going, fresh, going2, fresh2
<1>4. Aligned(t, p, r, bound, going, fresh)
  BY <1>3, AlignedSame
<1>5. Aligned(t, p, r, b, going2, fresh2)
  BY <1>1, <1>2, <1>4, AlignedStays
<1>. QED BY <1>5 DEF TopsOn, p, r, b, going2, fresh2, call

\* So a page that is aligned stays so when a call lands.
LEMMA TopsGoOn ==
    ASSUME Course, Calling, tidy, NEW first \in Nat, TopsAligned
    PROVE  TopsOn(Landed(page, Head(calls), first), first)
<1> DEFINE call == Head(calls)
           u == Landed(page, call, first)
           new == NewBlocks(call, first)
           N == LiveNodes(Nat \cup Foreign)
           L == LiveLeaves(Nat \cup Foreign)
<1>1. /\ Types /\ InTurn /\ IdsDiffer(page) /\ Apt(calls, bound, rendering)
      /\ rendering \in Renderings
  BY DEF Course, Order, Inv, Types, Distinct, Underway
<1>2. IsNext(call, rendering)
  BY <1>1, HeadIsNext DEF Course, Underway
<1>3. call \in PlanCalls(rendering, Minted, Live)
  BY <1>2 DEF IsNext
<1>4. page \in Seq(N) /\ Nodal(N, L)
  BY <1>1, TreesAreWide
<1>5. DOMAIN page = 1..Len(page) /\ Len(page) \in Nat
  BY <1>1 DEF Types
<1>6. \/ call.op = "append" /\ Parent(call) = Page /\ u = Placed(page, new, call.at, Anchor(call))
      \/ call.op = "append" /\ Parent(call) # Page /\ u = Grafted(page, Parent(call), new, call.at, Anchor(call))
      \/ call.op = "create" /\ u = Append(page, Block(NodeAt(rendering, call.node), first))
      \/ call.op \in {"update", "rename"} /\ u = Rehashed(page, call.id, call.hash)
      \/ Clearing(call) /\ u = Without(page, call.id)
      \/ call.op = "move" /\ u = page
  BY <1>1, <1>3, LandedIs
<1>7. CASE call.op = "append" /\ Parent(call) = Page /\ u = Placed(page, new, call.at, Anchor(call))
  <2>1. call.under = Root
    BY <1>1, <1>7, NestedInBlock DEF IsNested
  <2>. QED BY <1>1, <1>2, <1>7, <2>1, TopAppended
<1>8. CASE call.op = "append" /\ Parent(call) # Page /\ u = Grafted(page, Parent(call), new, call.at, Anchor(call))
  <2>1. IsNested(call)
    BY <1>1, <1>8, NestedInBlock
  <2>2. SameTops(u, page)
    <3> DEFINE p == Parent(call)
               a == Anchor(call)
               G(i) == [page[i] EXCEPT !.kids = Placed(page[i].kids, new, call.at, a)]
    <3> HIDE DEF p, a, new, u, call
    <3>1. Len(u) = Len(page) /\ \A i \in 1..Len(page) : u[i] = IF page[i].id = p THEN G(i) ELSE page[i]
      BY <1>5, <1>8 DEF Grafted, p, a
    <3>2. ASSUME NEW i \in 1..Len(page)
          PROVE  u[i].id = page[i].id /\ u[i].kind = page[i].kind /\ u[i].hash = page[i].hash
      <4> DEFINE e == page[i]
                 s == Placed(page[i].kids, new, call.at, a)
      <4>1. e \in N
        BY <1>4
      <4>2. u[i] = [e EXCEPT !.kids = s] \/ u[i] = e
        BY <3>1
      <4> HIDE DEF e, s
      <4>3. [e EXCEPT !.kids = s].id = e.id /\ [e EXCEPT !.kids = s].kind = e.kind
            /\ [e EXCEPT !.kids = s].hash = e.hash
        BY <4>1 DEF N, LiveNodes, LiveLevels
      <4>. QED BY <4>2, <4>3 DEF e
    <3>. QED BY <3>1, <3>2 DEF SameTops
  <2> HIDE DEF u
  <2>3. TopsOn(u, first)
    BY <1>1, <1>2, <2>1, <2>2, TopsStay
  <2>. QED BY <2>3 DEF u
<1>9. CASE call.op = "create" /\ u = Append(page, Block(NodeAt(rendering, call.node), first))
  BY <1>1, <1>2, <1>9, TopCreated
<1>10. CASE call.op \in {"update", "rename"} /\ u = Rehashed(page, call.id, call.hash)
  <2>1. IsRehashed(u, page, call.id, call.hash)
    <3> HIDE DEF u, N, L
    <3>. QED BY <1>4, <1>10, RehashedIs
  <2> HIDE DEF u
  <2>2. TopsOn(u, first)
    BY <1>1, <1>2, <1>10, <2>1, TopsRenewed
  <2>. QED BY <2>2 DEF u
<1>11. CASE Clearing(call) /\ u = Without(page, call.id)
  <2>1. PICK pos : IsSieved(u, pos, page, call.id)
    <3> HIDE DEF u, N, L
    <3>. QED BY <1>4, <1>11, WithoutIs
  <2> HIDE DEF u
  <2>2. TopsOn(u, first)
    BY <1>1, <1>2, <1>11, <2>1, TopsWeeded
  <2>. QED BY <2>2 DEF u
<1>12. CASE call.op = "move" /\ u = page
  <2>1. SameTops(page, page)
    BY DEF SameTops
  <2>. QED BY <1>1, <1>2, <1>12, <2>1, TopsStay
<1>. QED BY <1>6, <1>7, <1>8, <1>9, <1>10, <1>11, <1>12

----------------------------------------------------------------------------
(* One sync converges *)

\* While nothing disturbs a sync that began with a cache that was right about contents, the
\* working cache stays so, and the page becomes what is rendered.
Tracks ==
    phase = "syncing" /\ quiet /\ known =>
        AgreeTrees(page, work) /\ (tidy => TopsAligned)

\* How the last sync ended is forgotten when the next one begins.
Busy == phase = "syncing" => outcome = "none"

\* What a sync leaves behind: the page shows the rendering, and the cache knows both.
Synced ==
    /\ Shown
    /\ \E b : IsSnapshot(cache, rendering, b)
    /\ \A i \in 1..Len(rendering) : page[i].id = cache[i].id

\* A sync begins.
LEMMA BeginTracks ==
    ASSUME Course, NEW m, m = Matching(Base(page, cache), rendering), Begin(m)
    PROVE  Tracks'
<1>1. /\ Diffable(m) /\ UNCHANGED <<page, cache, rendering>> /\ work' = Confirmed(m.top.old)
      /\ calls' = Calls(Plan(m)) /\ bound' = Inherited(m)
      /\ tidy' = PagesComeLast(m.top) /\ known' = ContentsAgree
  BY DEF Begin
<1>2. Types
  BY DEF Course, Order, Inv
<1>3. SUFFICES ASSUME ContentsAgree
               PROVE  AgreeTrees(page, work') /\ (tidy' => TopsAligned')
  BY <1>1 DEF Tracks
<1>4. AgreeTrees(page, cache)
  BY <1>3 DEF ContentsAgree, AgreeTrees
<1>5. IsBase(m.top.old, Minted, Live) /\ IsBaseOf(m.top.old, page, cache)
  BY <1>1, <1>2, BeginsBegan
<1>6. ASSUME NEW b \in ToSet(Confirmed(m.top.old)) PROVE b \in ToSet(cache)
  <2>1. b.key # Ghost /\ \E i \in DOMAIN m.top.old : b = m.top.old[i]
    BY <1>5, ConfirmedIs
  <2>. QED BY <1>5, <2>1 DEF IsBaseOf
<1>7. AgreeTrees(page, work')
  BY <1>1, <1>4, <1>6, AgreesFewer
<1>8. ASSUME tidy' PROVE TopsAligned'
  <2>1. Aligned(page, Root, rendering, Inherited(m), Going(Calls(Plan(m)), 0),
                Renewing(Calls(Plan(m)), 0))
    BY <1>1, <1>3, <1>8, BeginAligned
  <2>. QED BY <1>1, <2>1 DEF TopsAligned
<1>. QED BY <1>7, <1>8

\* A call lands and is recorded.
LEMMA SendTracks ==
    ASSUME Course, Tracks, Send
    PROVE  Tracks'
<1> DEFINE call == Head(calls)
<1>1. /\ Calling /\ UNCHANGED <<rendering, phase, quiet, known, tidy>>
      /\ page' = Landed(page, call, nextId) /\ work' = Recorded(work, call, nextId)
      /\ bound' = Binds(call, nextId) /\ calls' = Tail(calls)
  BY DEF Send, history
<1>2. /\ Types /\ Distinct /\ Sorted /\ nextId \in Nat /\ nextId >= nextId
      /\ Prepared(calls, bound, rendering, tidy) /\ IdsDiffer(work)
  BY DEF Course, Order, Inv, Types, Underway, Distinct, Sole
<1>3. IsNext(call, rendering)
  BY <1>1, <1>2, HeadIsNext
<1>4. call \in PlanCalls(rendering, Minted, Live)
  BY <1>3 DEF IsNext
<1>5. SUFFICES ASSUME phase = "syncing", quiet, known
               PROVE  AgreeTrees(page', work') /\ (tidy' => TopsAligned')
  BY <1>1 DEF Tracks
<1>6. AgreeTrees(page, work) /\ (tidy => TopsAligned)
  BY <1>5 DEF Tracks
<1>7. AgreeTrees(page', work')
  <2>1. CASE Checkpoints(call)
    <3> HIDE DEF call
    <3>. QED BY <1>1, <1>2, <1>4, <1>6, <2>1, AgreesSent
  <2>2. CASE ~Checkpoints(call)
    <3>1. \A entries : AgreeTrees(page, entries) => AgreeTrees(page', entries)
      BY <1>1, <1>2, <1>3, <2>2, AgreesBeside
    <3> HIDE DEF call
    <3>2. work' = work
      BY <1>1, <1>2, <1>4, <2>2, RecordedIs DEF Checkpoints
    <3>. QED BY <1>6, <3>1, <3>2
  <2>. QED BY <2>1, <2>2
<1>8. ASSUME tidy PROVE TopsAligned'
  <2>1. TopsOn(Landed(page, Head(calls), nextId), nextId)
    BY <1>1, <1>2, <1>6, <1>8, TopsGoOn
  <2>. QED BY <1>1, <2>1 DEF TopsOn, TopsAligned
<1>. QED BY <1>1, <1>7, <1>8

\* No other step of an undisturbed sync leaves it going.
LEMMA StepTracks ==
    ASSUME Course, Tracks, [Next]_vars
    PROVE  Tracks'
<1>1. CASE Sync
  <2>1. PICK m : m = Matching(Base(page, cache), rendering) /\ (Begin(m) \/ Refuse(m))
    BY <1>1 DEF Sync
  <2>2. CASE Begin(m)
    BY <2>1, <2>2, BeginTracks
  <2>3. CASE Refuse(m)
    BY <1>1, <2>3 DEF Refuse, Sync, syncVars, Tracks
  <2>. QED BY <2>1, <2>2, <2>3
<1>2. CASE Send
  BY <1>2, SendTracks
<1>3. CASE Rejected \/ Finish \/ Stop \/ LoseAnswer
  BY <1>3 DEF Rejected, Finish, Stop, LoseAnswer, Ends, Tracks
<1>4. CASE SendTwice \/ Edit \/ LoseCache
  BY <1>4 DEF SendTwice, Edit, LoseCache, Upset, Tracks
<1>5. CASE \E r \in Renderings : Render(r)
  BY <1>5 DEF Render, syncVars, Tracks
<1>6. CASE UNCHANGED vars
  BY <1>6 DEF vars, history, syncVars, Tracks, TopsAligned
<1>. QED BY <1>1, <1>2, <1>3, <1>4, <1>5, <1>6 DEF Next, Step

\* A sync that ends undisturbed has made the page what is rendered.
LEMMA FinishSyncs ==
    ASSUME Course, Barren(page), Tracks, Finish, quiet, known, tidy
    PROVE  Synced'
<1> DEFINE r == rendering
           s == Snapshot
<1>1. /\ Types /\ Underway /\ calls = <<>> /\ DOMAIN bound = Paths(r) /\ cache' = s
      /\ UNCHANGED <<page, rendering>> /\ phase = "syncing"
  BY FinishTyped DEF Course, Order, Inv, Finish, Ends
<1>2. r \in Renderings /\ IsSnapshot(s, r, bound) /\ page \in Seq(LiveNodes(Live))
  BY <1>1, SnapshotIs DEF Types
<1>3. AgreeTrees(page, work) /\ Aligned(page, Root, r, bound, {}, {})
  BY <1>1, NothingLeft DEF Tracks, TopsAligned
<1>4. Len(r) \in Nat /\ DOMAIN r = 1..Len(r) /\ r \in Seq(Nodes)
  BY <1>2, RenderingType DEF IsRendered
<1>5. \A q \in 1..Len(r) : Path(Root, r[q]) = <<r[q].key>>
  BY PathsAre
<1>6. Done(page, Root, r, bound)
  <2>1. \A q \in 1..Len(r) : Path(Root, r[q]) \in DOMAIN bound
    BY <1>1, <1>2, TopList, TopsUnfold
  <2>2. Len(page) \in Nat
    BY <1>2
  <2>. QED BY <1>3, <1>4, <2>1, <2>2, AlignedDone
<1>7. PICK texts, subs : Sorts(texts, subs)
  BY DEF Course, Sorted
<1>8. Len(page) = Len(r) /\ DOMAIN page = 1..Len(r)
  BY <1>2, <1>6 DEF Done
<1> HIDE DEF s, r
<1>9. ASSUME NEW q \in 1..Len(r)
      PROVE  /\ page[q].id = s[q].id /\ page[q].kind = r[q].kind /\ page[q].hash = r[q].hash
             /\ page[q] \in ToSet(page)
  BY <1>2, <1>5, <1>6, <1>8 DEF Done, IsSnapshot, Saves, ToSet
<1>10. ASSUME NEW q \in 1..Len(r) PROVE Shows(page[q].kids, r[q].kids)
  <2>1. /\ r[q] \in Nodes /\ NodesThere(r, q)
        /\ r[q].kids \in Seq(Leaves)
    BY <1>2, <1>4, NodesAreThere, NodeType
  <2>2. page \in Seq(LiveSorts(texts, subs))
    BY <1>7 DEF Sorts
  <2>3. /\ page[q].kids \in Seq(LiveTexts(texts))
        /\ \A k \in DOMAIN page[q].kids : page[q].kids[k].kind = "block"
    BY <1>8, <2>2, SortedNode
  <2> DEFINE live == page[q].kids
             nodes == r[q].kids
  <2>4. DOMAIN live = 1..Len(live) /\ DOMAIN nodes = 1..Len(nodes) /\ Len(nodes) \in Nat
    BY <2>1, <2>3
  <2>5. CASE r[q].kind = "page"
    <3>1. nodes = <<>>
      BY <2>1, <2>5 DEF Nodes
    <3>2. Len(live) = 0
      BY <1>8, <1>9, <2>5 DEF Barren, Bare
    <3> HIDE DEF live, nodes
    <3>3. Len(nodes) = 0
      BY <3>1
    <3>. QED BY <2>4, <3>2, <3>3 DEF Shows, live, nodes
  <2>6. CASE r[q].kind = "block"
    <3>1. PICK j \in 1..Len(work) : Complete(work[j], s[q])
      BY <1>1, <2>6, BlocksAreComplete DEF r, s
    <3>2. work[j] \in ToSet(work)
      BY <1>1 DEF Types, ToSet
    <3>3. Agree(page[q], work[j])
      BY <1>3, <1>9, <2>6, <3>1, <3>2 DEF AgreeTrees, Complete
    <3>4. AlikeKids(live, work[j].kids)
      BY <2>3, <3>3, AgreeIs
    <3>5. AlikeKids(live, s[q].kids)
      BY <3>1, <3>4 DEF Complete, AlikeKids
    <3>6. /\ Len(s[q].kids) = Len(nodes)
          /\ \A k \in 1..Len(nodes) : s[q].kids[k].hash = nodes[k].hash
      BY <1>2 DEF IsSnapshot, Saves
    <3>7. \A k \in 1..Len(nodes) : nodes[k].kind = "block"
      BY <2>1 DEF NodesThere
    <3>8. \A k \in 1..Len(nodes) : live[k].kind = "block"
      BY <2>3, <2>4, <3>5, <3>6 DEF AlikeKids
    <3> HIDE DEF live, nodes
    <3>. QED BY <2>4, <3>5, <3>6, <3>7, <3>8 DEF Shows, AlikeKids, live, nodes
  <2>. QED BY <2>1, <2>5, <2>6, NodeType DEF Kinds
<1>11. Shown
  BY <1>4, <1>8, <1>9, <1>10 DEF Shown, Shows, r
<1>12. Shown'
  BY <1>1, <1>11 DEF Shown, Shows
<1>13. \A i \in 1..Len(rendering') : page'[i].id = cache'[i].id
  BY <1>1, <1>9 DEF r
<1>14. \E b : IsSnapshot(cache', rendering', b)
  BY <1>1, <1>2 DEF r
<1>. QED BY <1>12, <1>13, <1>14 DEF Synced

\* Until something changes, it stays that way.
LEMMA StepSettles ==
    ASSUME Course, Barren(page), Tracks, Busy, Settled => Synced, [Next]_vars
    PROVE  Busy' /\ (Settled => Synced)'
<1>1. CASE Finish
  <2>1. Busy'
    BY <1>1 DEF Finish, Ends, Busy
  <2>2. ASSUME Settled' PROVE Synced'
    <3>1. quiet /\ tidy /\ known
      BY <1>1, <2>2 DEF Finish, Settled
    <3>. QED BY <1>1, <3>1, FinishSyncs
  <2>. QED BY <2>1, <2>2
<1>2. CASE Send
  <2>1. phase = "syncing" /\ UNCHANGED <<phase, outcome>>
    BY <1>2 DEF Send, Calling, history
  <2>. QED BY <2>1 DEF Busy, Settled
<1>3. CASE Sync
  BY <1>3 DEF Sync, Begin, Refuse, syncVars, Busy, Settled
<1>4. CASE Rejected \/ Stop \/ LoseAnswer
  BY <1>4 DEF Rejected, Stop, LoseAnswer, Ends, Busy, Settled
<1>5. CASE SendTwice
  BY <1>5 DEF SendTwice, Upset, Busy, Settled
<1>6. CASE Edit \/ LoseCache \/ \E r \in Renderings : Render(r)
  BY <1>6 DEF Edit, LoseCache, Render, syncVars, Busy, Settled
<1>7. CASE UNCHANGED vars
  BY <1>7 DEF vars, history, syncVars, Busy, Settled, Synced, Shown, Shows
<1>. QED BY <1>1, <1>2, <1>3, <1>4, <1>5, <1>6, <1>7 DEF Next, Step

\* The invariant of a sync, with what it leaves behind.
Converging ==
    Course /\ Faithful /\ Barren(page) /\ Tracks /\ Busy /\ (Settled => Synced)

\* It always holds.
LEMMA ConvergingHolds == Spec => []Converging
<1>1. Init => Converging
  <2>1. Init => Tracks /\ Busy /\ (Settled => Synced)
    BY DEF Init, Tracks, Busy, Settled
  <2>. QED BY <2>1, InitInCourse, InitFaithful, InitBarren DEF Converging
<1>2. Converging /\ [Next]_vars => Converging'
  <2>1. SUFFICES ASSUME Converging, [Next]_vars PROVE Converging'
    OBVIOUS
  <2>2. Course' /\ Faithful' /\ Tracks' /\ Barren(page')
    BY <2>1, StepInCourse, StepFaithful, StepTracks, StepBarren DEF Converging
  <2>3. Busy' /\ (Settled => Synced)'
    BY <2>1, StepSettles DEF Converging
  <2>4. Barren(page)'
    BY <2>2 DEF Barren, Bare
  <2>. QED BY <2>2, <2>3, <2>4 DEF Converging
<1>. QED BY <1>1, <1>2, PTL DEF Spec

\* Whatever earlier syncs and other people have left behind, and whatever is rendered, one
\* undisturbed sync makes the page show it, if it began with a cache that was right about
\* contents and has no sub-page to put before a sibling that stays.
THEOREM OneSyncAlwaysConverges == Spec => []OneSyncConverges
<1>1. Converging => OneSyncConverges
  BY DEF Converging, Synced, OneSyncConverges
<1>. QED BY <1>1, ConvergingHolds, PTL

----------------------------------------------------------------------------
(* A second sync makes no call *)

\* Cached siblings that are what is rendered, in the same order.
Mirrors(bs, cs) ==
    /\ Len(bs) = Len(cs)
    /\ \A i \in 1..Len(cs) : /\ bs[i].key = cs[i].key /\ bs[i].kind = cs[i].kind
                             /\ bs[i].hash = cs[i].hash

\* All of them are kept.
LEMMA MirrorIsKept ==
    ASSUME NEW ids, NEW all, NEW bs, IsBase(bs, ids, all), NEW cs, IsRendered(cs), Mirrors(bs, cs)
    PROVE  UniqueKeys(bs) /\ \A i \in 1..Len(cs) : cs[i].key \in RetainedKeys(bs, cs)
<1> DEFINE n == Len(cs)
           kept == RetainedKeys(bs, cs)
           K == CommonKeys(bs, cs)
<1>1. /\ n \in Nat /\ DOMAIN cs = 1..n /\ DOMAIN bs = 1..n /\ KeysDiffer(cs)
      /\ \A i \in 1..n : /\ bs[i].key = cs[i].key /\ bs[i].kind = cs[i].kind
                         /\ bs[i] \in ToSet(bs) /\ cs[i] \in ToSet(cs)
  BY DEF IsBase, IsRendered, Mirrors, ToSet
<1>2. UniqueKeys(bs) /\ KeysDiffer(bs)
  BY <1>1 DEF UniqueKeys, KeysDiffer
<1>3. IsLongestCommon(kept, bs, cs)
  BY <1>2, RetainedOfBase
<1>4. \A i \in 1..n : cs[i].key \in K
  <2>1. \A i \in 1..n : bs[i] \in ToSet(bs) /\ Matches(bs[i], cs[i]) /\ cs[i] \in ToSet(cs)
    BY <1>1 DEF Matches
  <2>. QED BY <1>1, <2>1 DEF CommonKeys
<1>5. \A k \in K : \E i \in 1..n : cs[i].key = k
  <2>1. \A c \in ToSet(cs) : \E i \in 1..n : cs[i] = c
    BY <1>1 DEF ToSet
  <2>2. \A k \in K : \E c \in ToSet(cs) : c.key = k
    BY DEF CommonKeys, Matches
  <2>. QED BY <2>1, <2>2
<1> DEFINE SamePlace(k) == (CHOOSE x \in DOMAIN bs : bs[x].key = k) = (CHOOSE x \in DOMAIN cs : cs[x].key = k)
<1>6. \A i \in 1..n : SamePlace(cs[i].key)
  <2> HIDE DEF n
  <2>1. \A i \in 1..n : (CHOOSE x \in DOMAIN cs : cs[x].key = cs[i].key) = i
    BY <1>1, PlaceOfNode
  <2>2. \A i \in 1..n : (CHOOSE x \in DOMAIN bs : bs[x].key = bs[i].key) = i
    BY <1>1, <1>2, PlaceOfNode
  <2>. QED BY <1>1, <2>1, <2>2
<1>7. CommonOrder(bs, cs, K)
  <2>1. ASSUME NEW k \in K PROVE SamePlace(k)
    <3> HIDE DEF K, n, SamePlace
    <3>. QED BY <1>5, <1>6
  <2> HIDE DEF K, n
  <2>. QED BY <2>1 DEF CommonOrder
<1>8. IsFiniteSet(K)
  <2> DEFINE f == [i \in 1..n |-> cs[i].key]
  <2>1. f \in [1..n -> K] /\ \A k \in K : \E i \in 1..n : f[i] = k
    BY <1>4, <1>5
  <2>2. f \in Surjection(1..n, K)
    <3> HIDE DEF f, K, n
    <3>. QED BY <2>1 DEF Surjection
  <2>3. IsFiniteSet(1..n)
    BY <1>1, FS_Interval
  <2> HIDE DEF f, K, n
  <2>. QED BY <2>2, <2>3, FS_Surjection DEF ExistsSurjection
<1> HIDE DEF K, kept, n
<1>9. kept \in SUBSET K /\ Cardinality(K) <= Cardinality(kept)
  BY <1>3, <1>7 DEF IsLongestCommon, K
<1>10. Cardinality(kept) <= Cardinality(K) /\ Cardinality(kept) \in Nat /\ Cardinality(K) \in Nat
  BY <1>8, <1>9, FS_Subset, FS_CardinalityType
<1>11. kept = K
  <2>1. Cardinality(K) = Cardinality(kept)
    BY <1>9, <1>10
  <2>. QED BY <1>8, <1>9, <2>1, FS_Subset
<1>. QED BY <1>2, <1>4, <1>11 DEF n, kept

\* Nothing is asked for then.
Silent(list) ==
    Acting(list) = {} /\ Removed(list) = {} /\ Archived(list) = {} /\ Drifted(list) = {}

\* All is kept, and nothing has another payload.
LEMMA MirrorIsSilent ==
    ASSUME NEW ids, NEW all, NEW list, IsBase(list.old, ids, all), IsRendered(list.new),
           Mirrors(list.old, list.new), list.kept = RetainedKeys(list.old, list.new)
    PROVE  Silent(list)
<1> DEFINE bs == list.old
           cs == list.new
           n == Len(cs)
<1>1. /\ n \in Nat /\ DOMAIN cs = 1..n /\ DOMAIN bs = 1..n /\ KeysDiffer(cs)
      /\ \A i \in 1..n : /\ bs[i].key = cs[i].key /\ bs[i].kind = cs[i].kind
                         /\ bs[i].hash = cs[i].hash
  BY DEF IsBase, IsRendered, Mirrors
<1>2. \A i \in 1..n : cs[i].key \in list.kept
  BY MirrorIsKept
<1>3. \A i \in 1..n : NodeWith(bs, cs[i].key) = bs[i]
  <2>1. KeysDiffer(bs)
    BY <1>1 DEF KeysDiffer
  <2>2. \A i \in DOMAIN bs : NodeWith(bs, bs[i].key) = bs[i]
    BY <2>1, NodeWithIs
  <2>. QED BY <1>1, <2>2
<1>4. Acting(list) = {}
  BY <1>1, <1>2, <1>3 DEF Acting, Acts, IsKept
<1>5. Removed(list) = {} /\ Archived(list) = {}
  BY <1>1, <1>2 DEF Removed, Archived
<1>6. Drifted(list) = {}
  <2>1. \A b \in ToSet(bs) : \E i \in 1..n : bs[i] = b
    BY <1>1 DEF ToSet
  <2>2. ASSUME NEW i \in 1..n, NEW j \in 1..n, Matches(bs[j], cs[i]) PROVE bs[j].hash = cs[i].hash
    <3>1. cs[j].key = cs[i].key
      BY <1>1, <2>2 DEF Matches
    <3>2. j = i
      BY <1>1, <3>1 DEF KeysDiffer
    <3>. QED BY <1>1, <3>2
  <2>3. \A i \in 1..n : \A b \in ToSet(bs) : Matches(b, cs[i]) => b.hash = cs[i].hash
    BY <2>1, <2>2
  <2>. QED BY <1>1, <2>3 DEF Drifted
<1>. QED BY <1>4, <1>5, <1>6 DEF Silent

\* A base that is the rendering, with the children it has.
MirrorsAll(base, r) ==
    Mirrors(base, r) /\ \A i \in 1..Len(r) : Mirrors(base[i].kids, r[i].kids)

\* The diff finds nothing to do.
LEMMA MirrorsPlanNothing ==
    ASSUME NEW ids, NEW all, ids \subseteq all, NEW r \in Renderings,
           NEW base, IsBase(base, ids, all), \A i \in 1..Len(base) : base[i].kids \in Seq(LeafEntries(ids)),
           MirrorsAll(base, r)
    PROVE  Plan(Matching(base, r)) = <<>>
<1> DEFINE m == Matching(base, r)
<1>1. /\ IsRendered(r) /\ DOMAIN r = 1..Len(r) /\ Len(r) \in Nat
      /\ \A i \in 1..Len(r) : IsRendered(r[i].kids)
  BY RenderingType DEF IsRendered
<1>2. Mirrors(base, r) /\ Len(base) = Len(r) /\ DOMAIN base = 1..Len(r)
  BY DEF MirrorsAll, Mirrors, IsBase
<1>3. UniqueKeys(base) /\ \A i \in 1..Len(r) : r[i].key \in RetainedKeys(base, r)
  BY <1>1, <1>2, MirrorIsKept
<1>4. \A i \in 1..Len(r) : NodeWith(base, r[i].key) = base[i]
  <2>1. KeysDiffer(base)
    BY <1>1, <1>2 DEF KeysDiffer, IsRendered, Mirrors
  <2>2. \A i \in DOMAIN base : NodeWith(base, base[i].key) = base[i]
    BY <2>1, NodeWithIs
  <2>. QED BY <1>2, <2>2 DEF Mirrors
<1>5. /\ m.top.old = base /\ DOMAIN m.kids = 1..Len(r)
      /\ \A i \in 1..Len(r) : m.kids[i].old = base[i].kids
  BY <1>1, <1>3, <1>4 DEF Matching
<1>6. ASSUME NEW i \in 1..Len(r)
      PROVE  IsBase(base[i].kids, ids, all) /\ Mirrors(base[i].kids, r[i].kids)
  <2>1. base[i].kids \in Seq(LeafEntries(ids))
    BY <1>2
  <2>2. LeafEntries(ids) \subseteq NodeEntries(ids) \cup Placeholders(all)
    BY EntriesAreNodes DEF NodeEntries
  <2>3. base[i].kids \in Seq(NodeEntries(ids) \cup Placeholders(all))
    BY <2>1, <2>2, SeqSubset
  <2>. QED BY <2>3 DEF IsBase, MirrorsAll
<1>7. Diffable(m)
  <2>1. \A i \in 1..Len(r) : UniqueKeys(base[i].kids)
    BY <1>1, <1>6, MirrorIsKept
  <2> HIDE DEF m
  <2>. QED BY <1>3, <1>5, <2>1 DEF Diffable
<1>8. IsMatching(m, base, r, ids, all) /\ AllLongest(m, r)
  BY <1>7, MatchingIs, MatchingKeeps
<1> HIDE DEF m
<1>9. ASSUME NEW x \in 0..Len(r) PROVE Silent(ListOf(m, x))
  <2> DEFINE list == ListOf(m, x)
  <2>1. /\ IsBase(list.old, ids, all) /\ IsRendered(list.new) /\ Mirrors(list.old, list.new)
    <3>1. CASE x = 0
      BY <1>1, <1>2, <1>8, <3>1 DEF ListOf, IsMatching
    <3>2. CASE x \in 1..Len(r)
      <4>1. list = m.kids[x]
        BY <1>1, <3>2 DEF ListOf
      <4>. QED BY <1>1, <1>5, <1>6, <1>8, <3>2, <4>1, ZenonT(60) DEF IsMatching
    <3>. QED BY <1>1, <3>1, <3>2
  <2>2. list.kept = RetainedKeys(list.old, list.new)
    BY <1>8 DEF AllLongest
  <2> HIDE DEF list
  <2>3. Silent(list)
    BY <2>1, <2>2, MirrorIsSilent
  <2>. QED BY <2>3 DEF list
<1>10. \A o : ~PlanAsks(o, m, r)
  <2>1. Silent(m.top)
    <3>1. 0 \in 0..Len(r) /\ ListOf(m, 0) = m.top
      BY <1>1 DEF ListOf
    <3>. QED BY <1>9, <3>1
  <2>. QED BY <1>9, <2>1 DEF PlanAsks, ListAsks, Silent
<1>11. \A o : ~Has(Plan(m), o)
  BY <1>8, <1>10, PlanHas
<1>12. Plan(m) \in Seq(PlanOps(r, ids, all))
  BY <1>8, PlanIs DEF IsPlan
<1>13. Plan(m) = <<>>
  <2> DEFINE s == Plan(m)
  <2>1. \A v \in 1..Len(s) : FALSE
    BY <1>11 DEF Has
  <2>2. s \in Seq(PlanOps(r, ids, all))
    BY <1>12
  <2> HIDE DEF s
  <2>3. s = <<>>
    BY <2>1, <2>2
  <2>. QED BY <2>3 DEF s
<1>. QED BY <1>13 DEF m

\* When the page and the cache have the same blocks, the base is the cache.
LEMMA BaseIsCache ==
    ASSUME Types, IdsDiffer(cache), Len(page) = Len(cache),
           \A i \in 1..Len(page) : page[i].id = cache[i].id
    PROVE  /\ DOMAIN Base(page, cache) = 1..Len(cache)
           /\ \A i \in 1..Len(cache) : Base(page, cache)[i] = cache[i]
<1> DEFINE Known(n) == {b \in ToSet(cache) : b.id = n.id}
           Placeholder(n) == [id |-> n.id, key |-> Ghost, kind |-> "block", hash |-> Ghost,
                              kids |-> <<>>]
           base == [i \in DOMAIN page |-> IF Known(page[i]) = {} THEN Placeholder(page[i])
                                          ELSE CHOOSE b \in Known(page[i]) : TRUE]
<1>1. Base(page, cache) = base
  BY DEF Base
<1>2. DOMAIN page = 1..Len(page) /\ DOMAIN cache = 1..Len(cache)
  BY DEF Types
<1>3. ASSUME NEW i \in 1..Len(cache) PROVE Known(page[i]) = {cache[i]}
  <2>1. cache[i] \in Known(page[i])
    BY <1>2 DEF ToSet
  <2>2. ASSUME NEW b \in Known(page[i]) PROVE b = cache[i]
    <3>1. PICK j \in 1..Len(cache) : b = cache[j]
      BY <1>2 DEF ToSet
    <3>2. cache[j].id = cache[i].id
      BY <3>1
    <3>. QED BY <1>2, <3>1, <3>2 DEF IdsDiffer
  <2>. QED BY <2>1, <2>2
<1>4. ASSUME NEW i \in 1..Len(cache) PROVE base[i] = cache[i]
  <2>1. i \in DOMAIN page
    BY <1>2
  <2> HIDE DEF Known
  <2>2. (CHOOSE b \in Known(page[i]) : TRUE) = cache[i]
    BY <1>3
  <2>. QED BY <1>3, <2>1, <2>2
<1>. QED BY <1>1, <1>2, <1>4

\* After a sync that ended undisturbed, another one finds nothing to do.
LEMMA SyncedPlansNothing ==
    ASSUME Types, IdsDiffer(cache), Synced
    PROVE  Plan(Matching(Base(page, cache), rendering)) = <<>>
<1> DEFINE r == rendering
           base == Base(page, cache)
<1>1. PICK b : IsSnapshot(cache, r, b)
  BY DEF Synced
<1>2. /\ r \in Renderings /\ cache \in Seq(NodeEntries(Minted)) /\ page \in Seq(LiveNodes(Live))
      /\ Minted \subseteq Live
  BY DEF Types, Live
<1>3. Len(r) \in Nat /\ Len(cache) \in Nat /\ Len(page) = Len(r)
  BY <1>2, RenderingType DEF IsRendered, Synced, Shown, Shows
<1>4. Len(cache) = Len(r)
  <2>1. 1..Len(cache) = 1..Len(r)
    BY <1>1, <1>2 DEF IsSnapshot
  <2>2. \A u, v \in Nat : 1..u = 1..v => u = v
    <3>1. SUFFICES ASSUME NEW u \in Nat, NEW v \in Nat, 1..u = 1..v PROVE u = v
      OBVIOUS
    <3>2. u \in 1..u \/ u = 0
      OBVIOUS
    <3>3. v \in 1..v \/ v = 0
      OBVIOUS
    <3>. QED BY <3>1, <3>2, <3>3
  <2> HIDE DEF r
  <2>. QED BY <1>3, <2>1, <2>2
<1>5. IsBase(base, Minted, Live) /\ base \in Seq(NodeEntries(Minted) \cup Placeholders(Live))
  BY <1>2, BaseIs DEF IsBase
<1>6. DOMAIN base = 1..Len(r) /\ \A i \in 1..Len(r) : base[i] = cache[i]
  <2>1. \A i \in 1..Len(page) : page[i].id = cache[i].id
    BY <1>3 DEF Synced
  <2>. QED BY <1>3, <1>4, <2>1, BaseIsCache
<1> HIDE DEF base
<1>7. Len(base) = Len(r)
  <2> HIDE DEF r
  <2>1. DOMAIN base = 1..Len(base) /\ Len(base) \in Nat
    BY <1>5
  <2>2. Len(base) \in 1..Len(base) \/ Len(base) = 0
    BY <2>1
  <2>3. Len(r) \in 1..Len(r) \/ Len(r) = 0
    BY <1>3
  <2>. QED BY <1>3, <1>6, <2>1, <2>2, <2>3
<1>8. \A i \in 1..Len(base) : base[i].kids \in Seq(LeafEntries(Minted))
  <2>1. \A i \in 1..Len(cache) : cache[i] \in NodeEntries(Minted)
    BY <1>2
  <2>. QED BY <1>4, <1>6, <1>7, <2>1 DEF NodeEntries, EntryLevels
<1>9. MirrorsAll(base, r)
  <2>1. Mirrors(base, r)
    BY <1>1, <1>6, <1>7 DEF Mirrors, IsSnapshot, Saves
  <2>2. ASSUME NEW i \in 1..Len(r) PROVE Mirrors(base[i].kids, r[i].kids)
    <3>1. Mirrors(cache[i].kids, r[i].kids)
      BY <1>1 DEF Mirrors, IsSnapshot, Saves
    <3>2. base[i].kids = cache[i].kids
      BY <1>6
    <3>. QED BY <3>1, <3>2 DEF Mirrors
  <2>. QED BY <2>1, <2>2 DEF MirrorsAll
<1>10. Plan(Matching(base, r)) = <<>>
  BY <1>2, <1>5, <1>8, <1>9, MirrorsPlanNothing
<1>. QED BY <1>10 DEF base

\* Whatever has gone before: when a sync has ended undisturbed, the next one of the same
\* rendering plans nothing, and so makes no call (R04 of the requirements of notion-react).
THEOREM ResyncIsAlwaysSilent == Spec => []ResyncIsSilent
<1>1. Converging => ResyncIsSilent
  <2>1. ASSUME Converging, Settled PROVE Plan(Matching(Base(page, cache), rendering)) = <<>>
    <3>1. Types /\ IdsDiffer(cache) /\ Synced
      BY <2>1 DEF Converging, Course, Order, Inv, Distinct, Sole
    <3>. QED BY <3>1, SyncedPlansNothing
  <2>. QED BY <2>1 DEF ResyncIsSilent
<1>. QED BY <1>1, ConvergingHolds, PTL
==============================================================================
