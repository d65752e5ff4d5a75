--------------------------- MODULE MCBStarPlusIndex ---------------------------
(* Small instances of BStarPlusIndex.                                       *)
EXTENDS BStarPlusIndex, TLC

MCRecord == [k \in Keys |-> 100 + k]

\* Three pairs of capacities: nodes of at most two keys, of which a full and
\* an underfull one do not fit one page; leaves of three; nodes of four.
MCMaxLeaf == ("two" :> 2) @@ ("three" :> 3) @@ ("four" :> 4)

MCMaxInternal == ("two" :> 2) @@ ("three" :> 2) @@ ("four" :> 4)

\* States that differ in the numbers of the pages, or in pages that no longer
\* belong to the tree, behave alike: the view keeps the tree, what the links
\* from the first leaf lead to, and the call.
RECURSIVE Shape(_)
Shape(p) ==
    IF pages[p].leaf
    THEN pages[p].items
    ELSE <<pages[p].keys, [i \in DOMAIN pages[p].items |-> Shape(pages[p].items[i])]>>

ShapeOfCall ==
    IF call \in {Idle, Killed}
    THEN <<call.fn>>
    ELSE <<call.fn,
           IF call.node.leaf THEN call.node.items ELSE [i \in DOMAIN call.node.items |-> Shape(call.node.items[i])],
           [i \in 1..(Len(call.path) - 1) |-> Index(pages[call.path[i]], call.path[i + 1])]>>

Linked == LET leaves == Chain(meta.first) IN [i \in DOMAIN leaves |-> pages[leaves[i]].items]

\* The last part is TRUE; it makes TLC evaluate the pages in full, where the
\* view alone would leave functions in them that it cannot store.
TreeView ==
    <<IF IsEmpty THEN <<>> ELSE Shape(meta.root), Linked, meta.height, meta.size, meta.kind,
      ShapeOfCall, held, busy, moved, <<pages, call, file>> = <<pages, call, file>>>>

=============================================================================
