----------------------------- MODULE MCPageSync -----------------------------
(* Renderings of blocks, one of them with children, and sub-pages. *)
EXTENDS PageSync

CONSTANTS u1

Leaf(key) == [key |-> key, kind |-> "block", hash |-> key, kids |-> <<>>]
Toggle(hash, kids) == [key |-> "a", kind |-> "block", hash |-> hash, kids |-> kids]
ChildPage(key, title) == [key |-> key, kind |-> "page", hash |-> title, kids |-> <<>>]

\* Blocks that move, change, grow and go, a block that becomes a sub-page, two places
\* to insert at, and a sub-page behind and before the blocks.
Shapes ==
    {<<Toggle("v1", <<Leaf("x")>>), Leaf("b")>>,
     <<Leaf("c"), Leaf("b"), Toggle("v2", <<Leaf("y"), Leaf("x")>>)>>,
     <<Leaf("c"), Toggle("v1", <<Leaf("x"), Leaf("y")>>), Leaf("d"), Leaf("b")>>,
     <<Leaf("b"), ChildPage("p", "v1")>>,
     <<ChildPage("p", "v2"), Leaf("b")>>,
     <<ChildPage("b", "v1")>>}

ShapeKeys == {"a", "b", "c", "d", "p", "x", "y"}
ShapeHashes == {"v1", "v2"} \cup ShapeKeys
==============================================================================
