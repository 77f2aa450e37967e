------------------------------ MODULE PageSync ------------------------------
(***************************************************************************)
(* sync() of notion-react: an application renders a page again and again,  *)
(* and every sync reads the live children, diffs them with the cache,      *)
(* sends the plan call by call, writes a checkpoint of the cache after     *)
(* every block call, and the whole rendering at the end.                   *)
(*                                                                         *)
(* A call may be rejected, land without its answer, or land twice because  *)
(* the HTTP client repeats it; the sync may die, and other people edit     *)
(* the page, at any time.                                                  *)
(*                                                                         *)
(* No cache file, a cache of another page and an empty cache lead to the   *)
(* same base and the same working cache (coldBaseline is "clean"), so one  *)
(* empty tree stands for the three.  Left out: a cache of an older schema, *)
(* the root page's own metadata, upload ids.                               *)
(***************************************************************************)
EXTENDS SiblingDiff

CONSTANTS
    Keys,        \* of the blocks that the application renders
    Hashes,      \* of their payloads
    Renderings,  \* what the application may render
    Foreign,     \* ids of blocks that others put on the page
    MaxRenders,  \* bound: changes of the rendering
    MaxUpsets    \* bound: faults of calls and edits of others

Leaves == [key : Keys, kind : {"block"}, hash : Hashes, kids : {<<>>}]
Nodes  == [key : Keys, kind : {"block"}, hash : Hashes, kids : Seq(Leaves)]
            \cup [key : Keys, kind : {"page"}, hash : Hashes, kids : {<<>>}]

\* assertUniqueKeys throws on two rendered siblings with one key.
RenderingAssumption ==
    \A r \in Renderings :
        /\ r \in Seq(Nodes)
        /\ IsInjective([i \in DOMAIN r |-> r[i].key])
        /\ \A c \in ToSet(r) : IsInjective([i \in DOMAIN c.kids |-> c.kids[i].key])

\* The server mints numbers, and the placeholders' keys have a prefix of their own.
ConstantsAssumption ==
    /\ Foreign \cap Nat = {}
    /\ Ghost \notin Keys
    /\ MaxRenders \in Nat /\ MaxUpsets \in Nat

ASSUME PageAssumption == RenderingAssumption /\ ConstantsAssumption

VARIABLES
    page,       \* the live children of the page
    cache,      \* the persisted cache
    rendering,  \* what the application shows now
    phase,      \* idle or syncing
    calls,      \* the calls the sync has still to make
    bound,      \* the paths of the rendering whose id is known
    work,       \* the working cache
    nextId,     \* the id the server mints next
    outcome,    \* history: how the last sync ended, none if much has changed since
    quiet,      \* history: nobody and nothing disturbed the sync since it read the page
    tidy,       \* history: it puts no sub-page before a sibling that stays
    known,      \* history: it began with a cache that was right about contents
    lost,       \* history: a call has landed unrecorded, or twice
    renders, upsets

syncVars == <<phase, calls, bound, work>>
history  == <<outcome, quiet, tidy, known, lost>>
vars == <<page, cache, rendering, syncVars, nextId, history, renders, upsets>>

----------------------------------------------------------------------------
(* The base of the diff *)

\* Mutant: nobody looks at the live page.
BaseOfCache(live, tree) == tree

\* The live children in their order, as the cache knows them: the cache itself if
\* nothing drifted, and placeholders for the blocks it does not know.
Base(live, tree) ==
    LET Known(n) == {b \in ToSet(tree) : b.id = n.id}
        Placeholder(n) == [id |-> n.id, key |-> Ghost, kind |-> "block", hash |-> Ghost,
                           kids |-> <<>>]
    IN  [i \in DOMAIN live |-> IF Known(live[i]) = {} THEN Placeholder(live[i])
                               ELSE CHOOSE b \in Known(live[i]) : TRUE]

\* Mutant: the placeholders too.
ConfirmedAll(base) == base

\* What of it seeds the working cache.
Confirmed(base) == Picked(base, {i \in DOMAIN base : base[i].key # Ghost})

\* The drift check reads only which top-level blocks are there and in which order.
\* This is what it takes on trust: their payloads and their children.
Agree(n, b) ==
    /\ n.hash = b.hash
    /\ Len(n.kids) = Len(b.kids)
    /\ \A i \in DOMAIN n.kids : /\ n.kids[i].id = b.kids[i].id
                               /\ n.kids[i].hash = b.kids[i].hash

ContentsAgree == \A n \in ToSet(page), b \in ToSet(cache) : n.id = b.id => Agree(n, b)

\* No sub-page is moved, and none is created before a sibling that stays.
PagesComeLast(list) ==
    \A i \in DOMAIN list.new :
        list.new[i].kind = "page" /\ list.new[i].key \notin list.kept =>
            /\ ~IsMoved(list.old, list.kept, list.new[i])
            /\ \A j \in DOMAIN list.new : j > i => list.new[j].key \notin list.kept

----------------------------------------------------------------------------
(* Calls *)

Parent(call) == IF call.under = Root THEN Page ELSE bound[call.under]
Anchor(call) == IF call.at = "after" THEN bound[call.after] ELSE Page

Block(n, id) == [id |-> id, kind |-> n.kind, hash |-> n.hash, kids |-> <<>>]
Entry(n, id) == [id |-> id, key |-> n.key, kind |-> n.kind, hash |-> n.hash, kids |-> <<>>]

\* What the call creates, and how many ids that takes.
Created(call) ==
    CASE call.op = "append" -> call.nodes
      [] call.op = "create" -> <<call.node>>
      [] OTHER -> <<>>

\* The API accepts it.  Removing what is gone already counts as done.
Accepts(tree, call) ==
    CASE call.op = "append" ->
            /\ Parent(call) \in Ids(tree) \cup {Page}
            /\ call.at = "after" =>
                \E n \in ToSet(Under(tree, Parent(call))) : n.id = Anchor(call)
      [] call.op \in {"update", "rename", "move", "archive"} -> call.id \in Ids(tree)
      [] call.op \in {"remove", "create"} -> TRUE

\* What it does to the page.  A move within one parent is refused, which the driver
\* takes for done.
Landed(tree, call, first) ==
    CASE call.op = "append" ->
            WithUnder(tree, Parent(call),
                Placed(Under(tree, Parent(call)),
                       [k \in DOMAIN call.nodes |->
                            Block(NodeAt(rendering, call.nodes[k]), first + k - 1)],
                       call.at, Anchor(call)))
      [] call.op = "create" -> Append(tree, Block(NodeAt(rendering, call.node), first))
      [] call.op \in {"update", "rename"} -> Rehashed(tree, call.id, call.hash)
      [] call.op \in {"remove", "archive"} -> Without(tree, call.id)
      [] call.op = "move" -> tree

\* What it does to the working cache, which page calls leave alone.
Recorded(tree, call, first) ==
    CASE call.op = "append" ->
            WithUnder(tree, Parent(call),
                Placed(Under(tree, Parent(call)),
                       [k \in DOMAIN call.nodes |->
                            Entry(NodeAt(rendering, call.nodes[k]), first + k - 1)],
                       call.at, Anchor(call)))
      [] call.op = "update" -> Rehashed(tree, call.id, call.hash)
      [] call.op = "remove" -> Without(tree, call.id)
      [] OTHER -> tree

\* Mutant: an update is not checkpointed.
CheckpointsStructure(call) == call.op \in {"append", "remove"}

Checkpoints(call) == call.op \in {"append", "update", "remove"}

Binds(call, first) ==
    LET new == Created(call)
    IN  [p \in ToSet(new) \cup DOMAIN bound |->
            IF p \in ToSet(new) THEN first + (CHOOSE k \in DOMAIN new : new[k] = p) - 1
            ELSE bound[p]]

\* Mutant: the working cache is saved, which page calls leave alone.
SnapshotOfWork == work

\* The final snapshot: the rendering with its ids.
Snapshot ==
    LET Saved(p) == LET n == NodeAt(rendering, p) IN Entry(n, bound[p])
    IN  [i \in DOMAIN rendering |->
            LET c == rendering[i]
            IN  [Saved(<<c.key>>) EXCEPT
                    !.kids = [k \in DOMAIN c.kids |-> Saved(<<c.key, c.kids[k].key>>)]]]

----------------------------------------------------------------------------
(* The application *)

Render(r) ==
    /\ phase = "idle"
    /\ renders < MaxRenders
    /\ r # rendering
    /\ renders' = renders + 1
    /\ rendering' = r
    /\ outcome' = "none"
    /\ UNCHANGED <<page, cache, syncVars, nextId, quiet, tidy, known, lost, upsets>>

----------------------------------------------------------------------------
(* One sync *)

Begin(m) ==
    /\ Diffable(m)
    /\ phase' = "syncing"
    /\ \E plan \in {Plan(m)} : calls' = Calls(plan)
    /\ bound' = Inherited(m)
    /\ work' = Confirmed(m.top.old)
    /\ outcome' = "none"
    /\ quiet' = TRUE
    /\ tidy' = PagesComeLast(m.top)
    /\ known' = ContentsAgree
    /\ UNCHANGED <<page, cache, rendering, nextId, lost, renders, upsets>>

\* diff() throws on a key that two cached siblings share.
Refuse(m) ==
    /\ ~Diffable(m)
    /\ outcome' = "threw"
    /\ UNCHANGED <<page, cache, rendering, syncVars, nextId, quiet, tidy, known, lost,
                   renders, upsets>>

\* The call of sync(): the diff is worked out before anything is sent.
Sync ==
    /\ phase = "idle"
    /\ \E m \in {Matching(Base(page, cache), rendering)} : Begin(m) \/ Refuse(m)

\* Mutant: the working state of the sync outlives it.
EndsUnclean(how) == phase' = "idle" /\ outcome' = how /\ UNCHANGED <<calls, bound, work>>

Ends(how) ==
    /\ phase' = "idle"
    /\ calls' = <<>> /\ bound' = <<>> /\ work' = <<>>
    /\ outcome' = how

Calling == phase = "syncing" /\ calls # <<>>

\* The call lands and is recorded.
Send ==
    LET call == Head(calls)
    IN  /\ Calling
        /\ Accepts(page, call)
        /\ page' = Landed(page, call, nextId)
        /\ work' = Recorded(work, call, nextId)
        /\ cache' = IF Checkpoints(call) THEN work' ELSE cache
        /\ bound' = Binds(call, nextId)
        /\ nextId' = nextId + Len(Created(call))
        /\ calls' = Tail(calls)
        /\ UNCHANGED <<rendering, phase, history, renders, upsets>>

\* The API rejects it, which ends the sync.
Rejected ==
    /\ Calling
    /\ ~Accepts(page, Head(calls))
    /\ Ends("failed")
    /\ UNCHANGED <<page, cache, rendering, nextId, quiet, tidy, known, lost, renders, upsets>>

Finish ==
    /\ phase = "syncing" /\ calls = <<>>
    /\ cache' = Snapshot
    /\ Ends("done")
    /\ UNCHANGED <<page, rendering, nextId, quiet, tidy, known, lost, renders, upsets>>

----------------------------------------------------------------------------
(* Faults and other people *)

Upset ==
    /\ upsets < MaxUpsets
    /\ upsets' = upsets + 1
    /\ quiet' = FALSE

\* Nothing lands: the call fails, the save fails, or the process dies.
Stop ==
    /\ Upset
    /\ phase = "syncing"
    /\ Ends("failed")
    /\ UNCHANGED <<page, cache, rendering, nextId, tidy, known, lost, renders>>

\* The call lands, and the sync ends before its checkpoint.
LoseAnswer ==
    LET call == Head(calls)
    IN  /\ Upset
        /\ Calling
        /\ Accepts(page, call)
        /\ page' = Landed(page, call, nextId)
        /\ nextId' = nextId + Len(Created(call))
        /\ lost' = TRUE
        /\ Ends("failed")
        /\ UNCHANGED <<cache, rendering, tidy, known, renders>>

\* The answer of a creating call is lost, and the client sends it again.
SendTwice ==
    LET call == Head(calls)
        again == nextId + Len(Created(call))
    IN  /\ Upset
        /\ Calling
        /\ Created(call) # <<>>
        /\ Accepts(page, call)
        /\ page' = Landed(Landed(page, call, nextId), call, again)
        /\ work' = Recorded(work, call, again)
        /\ cache' = IF Checkpoints(call) THEN work' ELSE cache
        /\ bound' = Binds(call, again)
        /\ nextId' = again + Len(Created(call))
        /\ calls' = Tail(calls)
        /\ lost' = TRUE
        /\ UNCHANGED <<rendering, phase, outcome, tidy, known, renders>>

\* Somebody removes, adds or moves a child of the page.
Edit ==
    /\ Upset
    /\ outcome' = "none"
    /\ \/ \E n \in ToSet(page) : page' = Without(page, n.id)
       \/ \E u \in Foreign \ Ids(page) :
            page' = Append(page, Block([kind |-> "block", hash |-> Ghost], u))
       \/ \E n \in ToSet(page) :
            /\ page' = <<n>> \o Without(page, n.id)
            /\ page' # page
    /\ UNCHANGED <<cache, rendering, syncVars, nextId, tidy, known, lost, renders>>

\* The cache file is lost between two syncs.
LoseCache ==
    /\ Upset
    /\ phase = "idle"
    /\ cache # <<>>
    /\ cache' = <<>>
    /\ outcome' = "none"
    /\ UNCHANGED <<page, rendering, syncVars, nextId, tidy, known, lost, renders>>

----------------------------------------------------------------------------
Init ==
    /\ page \in {<<>>} \cup {<<Block([kind |-> "block", hash |-> Ghost], u)>> : u \in Foreign}
    /\ cache = <<>>
    /\ rendering \in Renderings
    /\ phase = "idle" /\ calls = <<>> /\ bound = <<>> /\ work = <<>>
    /\ nextId = 1
    /\ outcome = "none" /\ quiet = TRUE /\ tidy = TRUE /\ known = TRUE /\ lost = FALSE
    /\ renders = 0 /\ upsets = 0

Step == Send \/ Rejected \/ Finish

Next ==
    \/ \E r \in Renderings : Render(r)
    \/ Sync
    \/ Step
    \/ Stop \/ LoseAnswer \/ SendTwice \/ Edit \/ LoseCache

Spec == Init /\ [][Next]_vars

\* A sync that was begun goes on, and the application keeps calling it.
FairSpec == Spec /\ WF_vars(Step) /\ WF_vars(Sync)

----------------------------------------------------------------------------
(* Properties *)

TypeOK ==
    /\ rendering \in Renderings
    /\ phase \in {"idle", "syncing"}
    /\ outcome \in {"none", "done", "failed", "threw"}
    /\ nextId \in Nat \ {0}
    /\ DOMAIN bound \subseteq Paths(rendering)
    /\ \A p \in DOMAIN bound : bound[p] \in 1..(nextId - 1)
    /\ Ids(page) \subseteq 1..(nextId - 1) \cup Foreign
    /\ {quiet, tidy, known, lost} \subseteq BOOLEAN
    /\ renders \in 0..MaxRenders /\ upsets \in 0..MaxUpsets
    /\ phase = "idle" => calls = <<>> /\ bound = <<>> /\ work = <<>>

\* A list of live blocks shows a list of rendered ones.
Shows(live, nodes) ==
    /\ Len(live) = Len(nodes)
    /\ \A i \in DOMAIN nodes : live[i].kind = nodes[i].kind /\ live[i].hash = nodes[i].hash

\* The page shows the rendering.
Shown ==
    /\ Shows(page, rendering)
    /\ \A i \in DOMAIN page : Shows(page[i].kids, rendering[i].kids)

Settled == outcome = "done" /\ quiet /\ tidy /\ known

\* Whatever earlier syncs and other people have left behind, one undisturbed sync
\* makes the page show the rendering, in its order and nothing else (the drift base
\* and the ordered plan).  The driver never compares payloads or nested children with
\* the live page, so the cache must be right about those; and a sub-page is created at
\* the tail and never moved within its parent, so the order is promised only when it
\* need not be.
OneSyncConverges == Settled => Shown

\* The checkpoint after every block call keeps the cache right about what the next
\* drift check takes on trust, wherever a sync stops, as long as every call was
\* answered.  The calls on sub-pages write no checkpoint.
CheckpointsAreTrue ==
    lost \/ \A n \in ToSet(page), b \in ToSet(cache) :
                n.id = b.id /\ n.kind = "block" => Agree(n, b)

\* Syncing the same rendering again makes no call (R04 of the requirements).
ResyncIsSilent == Settled => Plan(Matching(Base(page, cache), rendering)) = <<>>

\* The placeholders of foreign blocks reach neither the working cache nor a checkpoint:
\* persisted, they would make the next sync remove blocks that are gone already.
NoGhostsKept ==
    \A tree \in {work, cache} :
        Ids(tree) \cap Foreign = {} /\ \A b \in ToSet(tree) : b.key # Ghost

\* When the calls are made, every rendered node has an id for the final snapshot, which
\* throws on a temporary one.
SnapshotResolves == phase = "syncing" /\ calls = <<>> => DOMAIN bound = Paths(rendering)

\* Sibling lists in which a set of keys stays in order.
CommonOrder(bs, cs, keys) ==
    LET At(list, k) == CHOOSE i \in DOMAIN list : list[i].key = k
    IN  \A k, l \in keys : At(bs, k) < At(bs, l) <=> At(cs, k) < At(cs, l)

\* What a sync is about to keep is the largest set of siblings that can be kept, and
\* it can be kept: fewer would rewrite blocks nobody changed (R05, R06).
MostIsKept ==
    phase = "idle" /\ UniqueKeys(Base(page, cache)) =>
        LET base == Base(page, cache)
            common == {b.key : b \in {x \in ToSet(base) :
                                        \E c \in ToSet(rendering) : Matches(x, c)}}
            kept == RetainedKeys(base, rendering)
        IN  /\ kept \subseteq common
            /\ CommonOrder(base, rendering, kept)
            /\ \A keys \in SUBSET common :
                CommonOrder(base, rendering, keys) => Cardinality(keys) <= Cardinality(kept)

\* A block whose key is still rendered leaves the page only after its new copy has
\* landed: a sync that ends early may show a block twice, never not at all.
CopiesLandFirst ==
    [][Send =>
        \A b \in ToSet(work) :
            b.id \in Ids(page) \ Ids(page') /\ (\E c \in ToSet(rendering) : c.key = b.key)
                => <<b.key>> \in DOMAIN bound /\ bound[<<b.key>>] # b.id]_vars

\* If the application goes on syncing, the page comes to show the last rendering, or
\* two cached siblings share a key, or a sub-page is never put in its place, or an
\* unrecorded call has left something the drift check does not look at.
SyncsConverge ==
    <>[]Shown \/ <>[](outcome = "threw") \/ <>[]~tidy \/ <>[]~known

\* docs/limitations.md: after a partial failure the cache reflects exactly what landed
\* on the server, and the next sync diffs against reality.
RetriesCanDiff == phase = "idle" => Diffable(Matching(Base(page, cache), rendering))
==============================================================================
