---------------------------- MODULE SiblingDiff ----------------------------
(***************************************************************************)
(* diff() of notion-react, and the grouping of its plan into API calls:    *)
(* what has to happen to a cached tree of blocks so that it becomes the    *)
(* rendered one.                                                           *)
(*                                                                         *)
(* A tree is the list of the page's children: blocks and sub-pages, and    *)
(* under a block a list of leaf blocks.  A rendered node is a record       *)
(* [key, kind, hash, kids]; a cached one also has the id that the server   *)
(* gave it.  The hash stands for the projected payload, of a sub-page for  *)
(* its title, icon and cover.  A type is part of the kind.  The content    *)
(* of sub-pages, columns and reorderSiblings are left out.                 *)
(*                                                                         *)
(* A rendered node is named by its path of keys, which plays the part of   *)
(* the temporary ids: the driver binds paths to ids as the calls land.     *)
(***************************************************************************)
EXTENDS Naturals, FiniteSets, Sequences, SequencesExt

CONSTANTS
    Ghost,      \* the `drift:` keys of live blocks that the cache does not know
    BatchMax    \* children per append call

ASSUME BatchAssumption == BatchMax \in Nat \ {0}

Root == <<>>

Path(p, c) == Append(p, c.key)

\* The members of a list at some of its places, in their order.
Picked(list, places) ==
    FlattenSeq([i \in DOMAIN list |-> IF i \in places THEN <<list[i]>> ELSE <<>>])

NodeWith(tree, key) == tree[CHOOSE i \in DOMAIN tree : tree[i].key = key]

\* The node at a path of a rendered or cached tree.
NodeAt(tree, p) ==
    IF Len(p) = 1 THEN NodeWith(tree, p[1]) ELSE NodeWith(NodeWith(tree, p[1]).kids, p[2])

Paths(tree) ==
    {<<c.key>> : c \in ToSet(tree)}
        \cup UNION {{<<c.key, k.key>> : k \in ToSet(c.kids)} : c \in ToSet(tree)}

----------------------------------------------------------------------------
(* Which cached siblings stay *)

Matches(b, c) == b.key = c.key /\ b.kind = c.kind

\* How far into each of two sibling lists.
Places(bs, cs) == (0..Len(bs)) \X (0..Len(cs))

\* The longest common subsequences of the siblings up to a place.
MatchLength(bs, cs) ==
    LET Larger(m, n) == IF m >= n THEN m ELSE n
        len[p \in Places(bs, cs)] ==
            LET i == p[1]
                j == p[2]
            IN  IF i = 0 \/ j = 0 THEN 0
                ELSE IF Matches(bs[i], cs[j]) THEN len[<<i-1, j-1>>] + 1
                ELSE Larger(len[<<i-1, j>>], len[<<i, j-1>>])
    IN  len

\* Mutant: where nothing matches, the walk always leaves the cached sibling.
RetainedGreedily(bs, cs) ==
    LET back[p \in Places(bs, cs)] ==
            LET i == p[1]
                j == p[2]
            IN  IF i = 0 \/ j = 0 THEN {}
                ELSE IF Matches(bs[i], cs[j]) THEN {bs[i].key} \cup back[<<i-1, j-1>>]
                ELSE back[<<i-1, j>>]
    IN  back[<<Len(bs), Len(cs)>>]

\* Walked backwards, the table gives the keys that are kept in their order.
RetainedKeys(bs, cs) ==
    LET len == MatchLength(bs, cs)
        back[p \in Places(bs, cs)] ==
            LET i == p[1]
                j == p[2]
            IN  IF i = 0 \/ j = 0 THEN {}
                ELSE IF Matches(bs[i], cs[j]) THEN {bs[i].key} \cup back[<<i-1, j-1>>]
                ELSE IF len[<<i-1, j>>] >= len[<<i, j-1>>] THEN back[<<i-1, j>>]
                ELSE back[<<i, j-1>>]
    IN  back[<<Len(bs), Len(cs)>>]

\* Every ghost has a key of its own.
UniqueKeys(bs) ==
    \A i, j \in DOMAIN bs : bs[i].key = bs[j].key /\ i # j => bs[i].key = Ghost

\* A sub-page that is cached, out of order: it is moved, not created anew.
IsMoved(bs, kept, c) ==
    c.kind = "page" /\ c.key \notin kept /\ \E b \in ToSet(bs) : Matches(b, c)

\* The two trees with what is kept of each list: the children of a node that is not
\* kept are all new.
Matching(base, cand) ==
    LET kept == RetainedKeys(base, cand)
        Old(c) == IF c.key \in kept THEN NodeWith(base, c.key).kids ELSE <<>>
    IN  [top  |-> [old |-> base, new |-> cand, kept |-> kept],
         kids |-> [i \in DOMAIN cand |->
                    [old |-> Old(cand[i]), new |-> cand[i].kids,
                     kept |-> RetainedKeys(Old(cand[i]), cand[i].kids)]]]

\* assertUniqueKeys does not throw for any list.
Diffable(m) == UniqueKeys(m.top.old) /\ \A i \in DOMAIN m.kids : UniqueKeys(m.kids[i].old)

\* Mutant: a sub-page out of order is bound to no id.
InheritedInOrder(m) ==
    LET stays == {i \in DOMAIN m.top.new : m.top.new[i].key \in m.top.kept}
        paths == {Path(Root, m.top.new[i]) : i \in stays}
                    \cup UNION {{<<m.top.new[i].key, k>> : k \in m.kids[i].kept} : i \in stays}
    IN  [p \in paths |-> NodeAt(m.top.old, p).id]

\* The paths that keep the id of a cached node, and that id.
Inherited(m) ==
    LET cand == m.top.new
        stays == {i \in DOMAIN cand :
                    \/ cand[i].key \in m.top.kept
                    \/ IsMoved(m.top.old, m.top.kept, cand[i])}
        paths == {<<cand[i].key>> : i \in stays}
                    \cup UNION {{<<cand[i].key, k>> : k \in m.kids[i].kept} : i \in stays}
    IN  [p \in paths |-> NodeAt(m.top.old, p).id]

----------------------------------------------------------------------------
(* The plan *)

\* What one sibling list asks for, in its rendered order, without removals.
SiblingOps(p, list) ==
    LET bs == list.old
        cs == list.new
        IsKept(i) == cs[i].key \in list.kept
        KeptAfter(i) == \E j \in DOMAIN cs : j > i /\ IsKept(j)
        New(i, op, at) == [op |-> op, under |-> p, node |-> Path(p, cs[i]), at |-> at,
                           after |-> IF at = "after" THEN Path(p, cs[i-1]) ELSE Root]
        Ops(i) ==
            CASE IsKept(i) /\ cs[i].kind = "block" ->
                    LET b == NodeWith(bs, cs[i].key)
                    IN  IF b.hash = cs[i].hash THEN <<>>
                        ELSE <<[op |-> "update", id |-> b.id, hash |-> cs[i].hash]>>
              [] IsKept(i) /\ cs[i].kind = "page" -> <<>>
              [] ~IsKept(i) /\ cs[i].kind = "page" ->
                    IF IsMoved(bs, list.kept, cs[i])
                    THEN <<[op |-> "move", id |-> NodeWith(bs, cs[i].key).id]>>
                    ELSE <<[op |-> "create", node |-> Path(p, cs[i])]>>
              [] ~IsKept(i) /\ cs[i].kind = "block" ->
                    <<IF ~KeptAfter(i) THEN New(i, "append", "tail")
                      ELSE New(i, "insert", IF i = 1 THEN "head" ELSE "after")>>
    IN  FlattenSeq([i \in DOMAIN cs |-> Ops(i)])

\* Cached blocks that are not kept.
Removals(list) ==
    LET bs == list.old
        gone == Picked(bs, {i \in DOMAIN bs : bs[i].kind = "block" /\ bs[i].key \notin list.kept})
    IN  [i \in DOMAIN gone |-> [op |-> "remove", id |-> gone[i].id]]

\* Cached sub-pages that are neither kept nor moved.
Archivals(list) ==
    LET bs == list.old
        gone == Picked(bs, {i \in DOMAIN bs :
                    /\ bs[i].kind = "page" /\ bs[i].key \notin list.kept
                    /\ ~\E c \in ToSet(list.new) : Matches(bs[i], c)})
    IN  [i \in DOMAIN gone |-> [op |-> "archive", id |-> gone[i].id]]

\* New titles, icons and covers of the sub-pages that stay.
PageUpdates(list) ==
    LET Drifts(c) == c.kind = "page"
                        /\ \E b \in ToSet(list.old) : Matches(b, c) /\ b.hash # c.hash
        drifted == Picked(list.new, {i \in DOMAIN list.new : Drifts(list.new[i])})
    IN  [i \in DOMAIN drifted |->
            [op |-> "rename", id |-> NodeWith(list.old, drifted[i].key).id,
             hash |-> drifted[i].hash]]

\* Mutant: removals before the blocks that take their place.
PlanRemovesFirst(m) ==
    LET Kids(i) == SiblingOps(Path(Root, m.top.new[i]), m.kids[i]) \o Removals(m.kids[i])
    IN  Removals(m.top) \o SiblingOps(Root, m.top)
            \o FlattenSeq([i \in DOMAIN m.kids |-> Kids(i)])
            \o PageUpdates(m.top) \o Archivals(m.top)

\* The lists of children come after their parents' list, the parents' removals behind
\* them, and last the calls on sub-pages that do not place them.
Plan(m) ==
    LET Kids(i) == SiblingOps(Path(Root, m.top.new[i]), m.kids[i]) \o Removals(m.kids[i])
    IN  SiblingOps(Root, m.top)
            \o FlattenSeq([i \in DOMAIN m.kids |-> Kids(i)])
            \o Removals(m.top)
            \o PageUpdates(m.top)
            \o Archivals(m.top)

----------------------------------------------------------------------------
(* API calls *)

IsNew(o) == o.op \in {"append", "insert"}

\* Mutant: a run is all that is new under one parent.
ChainsByParent(o, prev) == IsNew(o) /\ o.op = prev.op /\ o.under = prev.under

\* o goes into the same append call as the operation before it.
Chains(o, prev) ==
    /\ IsNew(o) /\ o.op = prev.op /\ o.under = prev.under
    /\ o.op = "insert" => o.at = "after" /\ o.after = prev.node

\* A run of chained operations is one call per BatchMax of them; the batches after
\* the first are anchored on the block before them.
Calls(ops) ==
    LET Follows(i) == i > 1 /\ Chains(ops[i], ops[i-1])
        nth[i \in DOMAIN ops] ==
            IF Follows(i) /\ nth[i-1] < BatchMax THEN nth[i-1] + 1 ELSE 1
        Batch(i) == {j \in DOMAIN ops : j >= i /\ nth[j] = j - i + 1}
        AppendCall(i) ==
            [op |-> "append", under |-> ops[i].under,
             nodes |-> [k \in 1..Cardinality(Batch(i)) |-> ops[i + k - 1].node],
             at |-> IF Follows(i) THEN "after" ELSE ops[i].at,
             after |-> IF Follows(i) THEN ops[i-1].node ELSE ops[i].after]
        order == Picked([i \in DOMAIN ops |-> i], {i \in DOMAIN ops : nth[i] = 1})
    IN  [n \in DOMAIN order |->
            IF IsNew(ops[order[n]]) THEN AppendCall(order[n]) ELSE ops[order[n]]]

----------------------------------------------------------------------------
(* Trees with ids: the working cache, and the page itself *)

Ids(tree) ==
    {n.id : n \in ToSet(tree)} \cup UNION {{k.id : k \in ToSet(n.kids)} : n \in ToSet(tree)}

\* The list under a parent, Page for the page itself.
Page == 0

Under(tree, parent) ==
    IF parent = Page THEN tree
    ELSE tree[CHOOSE i \in DOMAIN tree : tree[i].id = parent].kids

WithUnder(tree, parent, kids) ==
    IF parent = Page THEN kids
    ELSE [i \in DOMAIN tree |-> IF tree[i].id = parent
                                THEN [tree[i] EXCEPT !.kids = kids] ELSE tree[i]]

\* New siblings at the head, at the tail, or after an anchor.
Placed(list, new, at, anchor) ==
    CASE at = "head" -> new \o list
      [] at = "after" /\ (\E i \in DOMAIN list : list[i].id = anchor) ->
            LET i == CHOOSE i \in DOMAIN list : list[i].id = anchor
            IN  SubSeq(list, 1, i) \o new \o SubSeq(list, i + 1, Len(list))
      [] OTHER -> list \o new

Without(tree, id) ==
    LET Drop(list) == Picked(list, {i \in DOMAIN list : list[i].id # id})
        top == Drop(tree)
    IN  [i \in DOMAIN top |-> [top[i] EXCEPT !.kids = Drop(@)]]

Rehashed(tree, id, hash) ==
    LET New(n) == IF n.id = id THEN [n EXCEPT !.hash = hash] ELSE n
    IN  [i \in DOMAIN tree |->
            [New(tree[i]) EXCEPT !.kids = [k \in DOMAIN @ |-> New(@[k])]]]
==============================================================================
