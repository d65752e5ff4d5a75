---------------------------- MODULE BStarPlusIndex ----------------------------
(***************************************************************************)
(* index/src/bstarplus_tree_index.cpp: the B*+-tree of an INDEXED column,  *)
(* one node to a page of the index file.                                   *)
(*                                                                         *)
(* insert and erase change a leaf and then call one another's helpers in   *)
(* tail position (split_leaf, split_internal, fix_leaf_underflow, ...), so *)
(* the call in progress is one variable, and a step is one helper with all *)
(* the pages it reads and writes, in its order.                            *)
(*                                                                         *)
(* Every page written is in the file at once, through one stream: a kill   *)
(* keeps the writes made so far and loses the metadata, which are written  *)
(* last.  What the next process does with such a file beyond find is left  *)
(* out (the constructor of the engine inserts the keys of the rows again,  *)
(* StorageEngine).  System calls do not fail.                              *)
(*                                                                         *)
(* Abstracted: the bytes of a page.  A node fits when it has at most       *)
(* MaxLeaf or MaxInternal keys, as it does for keys of a fixed size; what  *)
(* the code computes from the page size are the same two numbers, which    *)
(* the kind of the keys decides.  The branches that throw logic_error are  *)
(* left out: where the code would take one, no step is enabled, and the    *)
(* model checker reports a deadlock.                                       *)
(***************************************************************************)
EXTENDS Integers, Sequences, FiniteSets, SequencesExt

CONSTANTS
    Keys,          \* the keys, integers here
    Record,        \* the row id each key is inserted with
    KeyKinds,      \* IndexKeyKind, the kinds of keys an index may have
    MaxLeaf,       \* max_leaf_key_count of each kind
    MaxInternal,   \* max_internal_key_count of each kind
    None           \* INVALID_PAGE_ID

ASSUME KeysAssumption == Keys \subseteq Int /\ Record \in [Keys -> Nat]

ASSUME CapacityAssumption ==
    /\ MaxLeaf \in [KeyKinds -> Nat \ 0..1]
    /\ MaxInternal \in [KeyKinds -> Nat \ 0..1]
    /\ None \notin Int

VARIABLES
    pages,   \* the pages of the file after the first
    file,    \* the first page of the file: the metadata last written
    meta,    \* _metadata
    call,    \* the helper to run next
    held,    \* (history) the keys inserted and not erased
    busy,    \* (history) the key that is being inserted or erased
    moved    \* (history) the keys that were put under another page for it

vars == <<pages, file, meta, call, held, busy, moved>>

(* A leaf holds [key, rec] pairs, an internal node the numbers of its       *)
(* children and, in keys, the separators between them.                      *)
Leaf(id, items, next) == [id |-> id, leaf |-> TRUE, items |-> items, keys |-> <<>>, next |-> next]

Internal(id, children, keys) ==
    [id |-> id, leaf |-> FALSE, items |-> children, keys |-> keys, next |-> None]

NoTree(kind) == [root |-> None, first |-> None, height |-> 0, size |-> 0, kind |-> kind]

IsEmpty == meta.root = None \/ meta.height = 0

-----------------------------------------------------------------------------
(* Reading the tree.                                                        *)

Item(k) == [key |-> k, rec |-> Record[k]]

KeyCount(node) == IF node.leaf THEN Len(node.items) ELSE Len(node.items) - 1

MaxKeys(node) == IF node.leaf THEN MaxLeaf[meta.kind] ELSE MaxInternal[meta.kind]

\* min_leaf_key_count, min_internal_key_count: two thirds, rounded up.
MinKeys(node) == (2 * MaxKeys(node) + 2) \div 3

Fits(node) == KeyCount(node) <= MaxKeys(node)

\* std::lower_bound over the items of a leaf.
LowerBound(items, k) ==
    CHOOSE i \in 1..(Len(items) + 1) :
        /\ \A j \in 1..(i - 1) : items[j].key < k
        /\ i <= Len(items) => k <= items[i].key

\* A mistake for ChildIndex: lower_bound for upper_bound.
ChildIndexLower(node, k) ==
    CHOOSE i \in 1..(Len(node.keys) + 1) :
        /\ \A j \in 1..(i - 1) : node.keys[j] < k
        /\ i <= Len(node.keys) => k <= node.keys[i]

\* child_index_for_key: past every separator that is not above k.
ChildIndex(node, k) ==
    CHOOSE i \in 1..(Len(node.keys) + 1) :
        /\ \A j \in 1..(i - 1) : node.keys[j] <= k
        /\ i <= Len(node.keys) => k < node.keys[i]

\* Where a loop is after n passes, from s.
Loop(step, s) == LET at[n \in Nat] == IF n = 0 THEN s ELSE step[at[n - 1]] IN at

\* The pages a loop "while (!node.is_leaf)" reads from page p on.  None goes
\* on for longer than there are pages.
Descent(pg, step, p) ==
    LET at == Loop(step, p)
        n == CHOOSE n \in 0..Len(pg) : pg[at[n]].leaf /\ \A m \in 0..(n - 1) : ~pg[at[m]].leaf
    IN [i \in 1..(n + 1) |-> at[i - 1]]

\* find_leaf and find go down to the child where k belongs ...
TowardKey(pg, k) ==
    [p \in DOMAIN pg |-> IF pg[p].leaf THEN p ELSE pg[p].items[ChildIndex(pg[p], k)]]

\* ... subtree_min_key and leftmost_leaf_page_id to the first child.
TowardFirst(pg) == [p \in DOMAIN pg |-> IF pg[p].leaf THEN p ELSE pg[p].items[1]]

\* find_leaf: the pages from the root down to the leaf where k belongs.
Path(k) == Descent(pages, TowardKey(pages, k), meta.root)

LeafOf(k) == pages[Last(Path(k))]

Find(k) ==
    IF IsEmpty THEN {} ELSE {it.rec : it \in {i \in ToSet(LeafOf(k).items) : i.key = k}}

\* The leaves from p on, by their links.
Chain(p) ==
    LET at == Loop([q \in DOMAIN pages \cup {None} |-> IF q = None THEN None ELSE pages[q].next], p)
        n == CHOOSE n \in 0..Len(pages) : at[n] = None /\ \A m \in 0..(n - 1) : at[m] # None
    IN [i \in 1..n |-> at[i - 1]]

\* range_search: the leaves from the one where b belongs, up to e.
RangeSearch(b, e) ==
    IF IsEmpty \/ e < b
    THEN <<>>
    ELSE LET leaves == Chain(Last(Path(b)))
             items == FlattenSeq([i \in DOMAIN leaves |-> pages[leaves[i]].items])
         IN SelectSeq(items, LAMBDA it : b <= it.key /\ it.key <= e)

-----------------------------------------------------------------------------
(* Writing pages.  A write is a page number and what the page will hold; pg *)
(* is the file as it is when the code reads it.                             *)

\* allocate_page: a page of zeros at the end of the file, which is no node.
Blank == Leaf(None, <<>>, None)

Fresh(p) == <<p, Blank>>

\* write_node.
Write(node) == <<node.id, node>>

\* Each page holds what was last written to it.
Written(pg, writes) ==
    [p \in DOMAIN pg \cup {writes[i][1] : i \in DOMAIN writes} |->
        LET to == {i \in DOMAIN writes : writes[i][1] = p}
        IN IF to = {} THEN pg[p] ELSE writes[CHOOSE i \in to : \A j \in to : j <= i][2]]

\* subtree_min_key.
SubtreeMin(pg, p) == pg[Last(Descent(pg, TowardFirst(pg), p))].items[1].key

\* rebuild_internal_keys, for a node that has these children.
Rebuilt(pg, node, children) ==
    [node EXCEPT !.items = children,
                 !.keys = [i \in 1..(Len(children) - 1) |-> SubtreeMin(pg, children[i + 1])]]

Holding(pg, node, items) ==
    IF node.leaf THEN [node EXCEPT !.items = items] ELSE Rebuilt(pg, node, items)

Index(parent, id) == CHOOSE i \in DOMAIN parent.items : parent.items[i] = id

\* A mistake for Propagated: only the parent is looked at.
PropagatedOnce(pg, path) ==
    IF Len(path) < 2 \/ pg[path[Len(path) - 1]].items[1] = Last(path)
    THEN <<>>
    ELSE LET parent == pg[path[Len(path) - 1]] IN
         <<Write([parent EXCEPT !.keys[Index(parent, Last(path)) - 1] = SubtreeMin(pg, Last(path))])>>

\* propagate_subtree_min_change: the smallest key under the last page of path
\* may have changed; it is the separator before the nearest ancestor, or the
\* page itself, that is not a first child.
Propagated(pg, path) ==
    LET notFirst == {i \in 2..Len(path) : pg[path[i - 1]].items[1] # path[i]} IN
    IF notFirst = {}
    THEN <<>>
    ELSE LET i == CHOOSE m \in notFirst : \A n \in notFirst : n <= m
             parent == pg[path[i - 1]]
         IN <<Write([parent EXCEPT !.keys[Index(parent, path[i]) - 1] = SubtreeMin(pg, path[i])])>>

-----------------------------------------------------------------------------
(* The call in progress: a node as it is in memory, and the pages that lead *)
(* to it from the root.                                                     *)

Idle == [fn |-> "idle"]

Killed == [fn |-> "killed"]

Call(fn, node, path) == [fn |-> fn, node |-> node, path |-> path]

IsRoot == Len(call.path) = 1

ParentPath == Front(call.path)

Parent == pages[Last(ParentPath)]

Position == Index(Parent, call.node.id)

HasLeft == Position > 1

HasRight == Position < Len(Parent.items)

LeftSibling == pages[Parent.items[Position - 1]]

RightSibling == pages[Parent.items[Position + 1]]

\* The node with its right sibling, or with its left one if it is the last.
PairOnSplit == IF HasRight THEN <<call.node, RightSibling>> ELSE <<LeftSibling, call.node>>

\* The left sibling and the node, or the node and its right sibling.
PairOnUnderflow == IF HasLeft THEN <<LeftSibling, call.node>> ELSE <<call.node, RightSibling>>

\* The keys that find would meet, were p the root.
KeysUnder(p) ==
    {k \in Keys : \E it \in ToSet(pages[Last(Descent(pages, TowardKey(pages, k), p))].items) : it.key = k}

\* The keys that writes put under another page than the one they are under.
Shifted(writes) ==
    UNION {LET node == w[2]
               old == IF w[1] \in DOMAIN pages THEN ToSet(pages[w[1]].items) ELSE {}
               new == ToSet(node.items) \ old
           IN IF node.leaf THEN {it.key : it \in new} ELSE UNION {KeysUnder(q) : q \in new}
           : w \in ToSet(writes)}

\* write_metadata, which insert and erase call last, writes one page and flushes.
Return(m) == call' = Idle /\ meta' = m /\ file' = m /\ busy' = None /\ moved' = {}

\* The operation goes on; the metadata have changed in memory only.
Continue(k, m, c, shifted) ==
    call' = c /\ meta' = m /\ busy' = k /\ moved' = shifted /\ UNCHANGED file

\* The process is killed, and the file opened again by the next one.
Reopen(k, shifted) ==
    call' = Killed /\ meta' = file /\ busy' = k /\ moved' = shifted /\ UNCHANGED file

\* One helper of the operation on key k: it moves items between the nodes of
\* low, then writes those of high, each of which goes to the file at once.
\* A kill leaves the first n writes; before the first one, it is a kill after
\* the last of the helper before, or one that leaves the file as it was.
Do(k, low, high, m, c) ==
    LET writes == low \o high
        shifted == moved \cup Shifted(low) IN
    \/ /\ pages' = Written(pages, writes)
       /\ IF c = Idle THEN Return(m) ELSE Continue(k, m, c, shifted)
    \/ /\ \E n \in 1..Len(writes) : pages' = Written(pages, SubSeq(writes, 1, n))
       /\ Reopen(k, shifted)

\* A helper after which insert or erase returns.
Finish(low, high) == Do(busy, low, high, meta, Idle) /\ UNCHANGED held

Init ==
    /\ pages = <<>>
    /\ \E kind \in KeyKinds : meta = NoTree(kind)
    /\ file = meta
    /\ call = Idle
    /\ held = {}
    /\ busy = None
    /\ moved = {}

-----------------------------------------------------------------------------
(* insert.  A key that is there already throws before anything changes.     *)

\* A mistake for InsertFirst: the node has another page's number.
InsertFirstPageBelow(k) ==
    LET p == Len(pages) + 1 IN
    /\ call = Idle /\ IsEmpty
    /\ Do(k, <<>>, <<Fresh(p), <<p, Leaf(p - 1, <<Item(k)>>, None)>>>>,
          [meta EXCEPT !.root = p, !.first = p, !.height = 1, !.size = 1], Idle)
    /\ held' = held \cup {k}

InsertFirst(k) ==
    LET p == Len(pages) + 1 IN
    /\ call = Idle /\ IsEmpty
    /\ Do(k, <<>>, <<Fresh(p), Write(Leaf(p, <<Item(k)>>, None))>>,
          [meta EXCEPT !.root = p, !.first = p, !.height = 1, !.size = 1], Idle)
    /\ held' = held \cup {k}

WithItem(leaf, k) == [leaf EXCEPT !.items = InsertAt(@, LowerBound(@, k), Item(k))]

Insert(k) ==
    LET path == Path(k)
        leaf == WithItem(pages[Last(path)], k)
        larger == [meta EXCEPT !.size = @ + 1] IN
    /\ call = Idle /\ ~IsEmpty /\ Find(k) = {}
    /\ IF Fits(leaf)
       THEN Do(k, <<>>, <<Write(leaf)>>, larger, Idle)
       ELSE Do(k, <<>>, <<>>, larger, Call("split", leaf, path))
    /\ held' = held \cup {k}

\* try_give_to_right_leaf, try_give_to_left_leaf: one item to a sibling.
CanGiveRight == ~IsRoot /\ HasRight /\ Len(RightSibling.items) < MaxKeys(RightSibling)

CanGiveLeft == ~IsRoot /\ HasLeft /\ Len(LeftSibling.items) < MaxKeys(LeftSibling)

\* rebuild_internal_keys and write_node of the parent, over the nodes below.
ParentOver(low) == Write(Rebuilt(Written(pages, low), Parent, Parent.items))

GiveToRightLeaf ==
    /\ call.fn = "split" /\ call.node.leaf /\ CanGiveRight
    /\ LET low == <<Write([call.node EXCEPT !.items = Front(@)]),
                    Write([RightSibling EXCEPT !.items = <<Last(call.node.items)>> \o @])>>
       IN Finish(low, <<ParentOver(low)>>)

GiveToLeftLeaf ==
    /\ call.fn = "split" /\ call.node.leaf /\ ~CanGiveRight /\ CanGiveLeft
    /\ LET low == <<Write([LeftSibling EXCEPT !.items = Append(@, Head(call.node.items))]),
                    Write([call.node EXCEPT !.items = Tail(@)])>>
       IN Finish(low, <<ParentOver(low)>>)

\* The parent, and the ancestor whose separator follows from it.
ParentAndAbove(low) ==
    LET parent == ParentOver(low)
    IN <<parent>> \o Propagated(Written(pages, Append(low, parent)), ParentPath)

\* redistribute_leaf_pair, redistribute_internal_pair: half of the items each.
Redistribute(left, right) ==
    LET items == left.items \o right.items
        n == (Len(items) + 1) \div 2
        low == <<Write(Holding(pages, left, SubSeq(items, 1, n))),
                 Write(Holding(pages, right, SubSeq(items, n + 1, Len(items))))>>
    IN Finish(low, ParentAndAbove(low))

\* try_redistribute_internal_with_right, ..._with_left: all children would fit.
CanShare(left, right) == Len(left.items) + Len(right.items) <= 2 * (MaxKeys(left) + 1)

ShareWithSibling ==
    /\ call.fn = "split" /\ ~call.node.leaf /\ ~IsRoot
    /\ IF HasRight /\ CanShare(call.node, RightSibling)
       THEN Redistribute(call.node, RightSibling)
       ELSE HasLeft /\ CanShare(LeftSibling, call.node) /\ Redistribute(LeftSibling, call.node)

NoSiblingHelps ==
    IF call.node.leaf
    THEN ~CanGiveRight /\ ~CanGiveLeft
    ELSE ~(HasRight /\ CanShare(call.node, RightSibling)) /\ ~(HasLeft /\ CanShare(LeftSibling, call.node))

\* three_way_counts: what the first two of three nodes get of n items.
FirstOfThree(n) == (n + 2) \div 3

SecondOfThree(n) == (n - FirstOfThree(n) + 1) \div 2

\* A mistake for Thirds: the first leaf's link skips the new one.
ThirdsUnlinked(left, right, m) ==
    LET items == left.items \o right.items
        first == FirstOfThree(Len(items))
        second == first + SecondOfThree(Len(items))
        middle == [left EXCEPT !.id = m, !.next = IF left.leaf THEN right.id ELSE None]
    IN <<Write(Holding(pages, left, SubSeq(items, 1, first))),
         Write(Holding(pages, middle, SubSeq(items, first + 1, second))),
         Write(Holding(pages, right, SubSeq(items, second + 1, Len(items))))>>

\* The items of two nodes over three, page m being the one between.
Thirds(left, right, m) ==
    LET items == left.items \o right.items
        first == FirstOfThree(Len(items))
        second == first + SecondOfThree(Len(items))
        next(p) == IF left.leaf THEN p ELSE None
        middle == [left EXCEPT !.id = m, !.next = next(right.id)]
    IN <<Write(Holding(pages, [left EXCEPT !.next = next(m)], SubSeq(items, 1, first))),
         Write(Holding(pages, middle, SubSeq(items, first + 1, second))),
         Write(Holding(pages, right, SubSeq(items, second + 1, Len(items))))>>

\* A mistake for SplitPair: the parent is written before its children.
SplitPairParentFirst ==
    /\ call.fn = "split" /\ ~IsRoot /\ NoSiblingHelps
    /\ LET left == PairOnSplit[1]
           m == Len(pages) + 1
           thirds == Thirds(left, PairOnSplit[2], m)
           parent == Rebuilt(Written(pages, <<Fresh(m)>> \o thirds), Parent,
                             InsertAt(Parent.items, Index(Parent, left.id) + 1, m)) IN
       IF Fits(parent)
       THEN Do(busy, <<>>, <<Fresh(m), Write(parent)>> \o thirds, meta, Idle)
       ELSE Do(busy, <<Fresh(m)>> \o thirds, <<>>, meta, Call("split", parent, ParentPath))
    /\ UNCHANGED held

\* split_leaf_pair, split_internal_pair: two full nodes become three.
SplitPair ==
    /\ call.fn = "split" /\ ~IsRoot /\ NoSiblingHelps
    /\ LET left == PairOnSplit[1]
           m == Len(pages) + 1
           low == <<Fresh(m)>> \o Thirds(left, PairOnSplit[2], m)
           parent == Rebuilt(Written(pages, low), Parent,
                             InsertAt(Parent.items, Index(Parent, left.id) + 1, m)) IN
       IF Fits(parent)
       THEN Do(busy, low, <<Write(parent)>>, meta, Idle)
       ELSE Do(busy, low, <<>>, meta, Call("split", parent, ParentPath))
    /\ UNCHANGED held

\* split_leaf or split_internal of the root, and insert_into_parent.
SplitRoot ==
    /\ call.fn = "split" /\ IsRoot
    /\ LET node == call.node
           n == Len(node.items) \div 2
           r == Len(pages) + 1
           right == [node EXCEPT !.id = r]
           left == IF node.leaf THEN [node EXCEPT !.next = r] ELSE node
           low == <<Fresh(r), Fresh(r + 1),
                    Write(Holding(pages, left, SubSeq(node.items, 1, n))),
                    Write(Holding(pages, right, SubSeq(node.items, n + 1, Len(node.items))))>>
           root == Internal(r + 1, <<node.id, r>>, <<SubtreeMin(Written(pages, low), r)>>)
       IN Do(busy, low, <<Write(root)>>, [meta EXCEPT !.root = r + 1, !.height = @ + 1], Idle)
    /\ UNCHANGED held

-----------------------------------------------------------------------------
(* erase.  A key that is not there changes nothing.                         *)

WithoutItem(leaf, k) == [leaf EXCEPT !.items = RemoveAt(@, LowerBound(@, k))]

\* The last key: the page of the root is left behind.
EraseLast(k) ==
    /\ call = Idle /\ Find(k) # {} /\ meta.size = 1
    /\ Do(k, <<>>, <<Write(WithoutItem(LeafOf(k), k))>>, NoTree(meta.kind), Idle)
    /\ held' = held \ {k}

Erase(k) ==
    LET path == Path(k)
        old == pages[Last(path)]
        leaf == WithoutItem(old, k)
        above == IF old.items[1].key = k THEN Propagated(Written(pages, <<Write(leaf)>>), path) ELSE <<>>
        smaller == [meta EXCEPT !.size = @ - 1] IN
    /\ call = Idle /\ Find(k) # {} /\ meta.size # 1
    /\ IF Len(path) = 1 \/ KeyCount(leaf) >= MinKeys(leaf)
       THEN Do(k, <<>>, <<Write(leaf)>> \o above, smaller, Idle)
       ELSE Do(k, <<>>, <<>>, smaller, Call("underflow", leaf, path))
    /\ held' = held \ {k}

CanBorrowLeft == HasLeft /\ KeyCount(LeftSibling) > MinKeys(LeftSibling)

CanBorrowRight == HasRight /\ KeyCount(RightSibling) > MinKeys(RightSibling)

\* fix_leaf_underflow and fix_internal_underflow: one item from a sibling ...
BorrowFromLeft ==
    /\ call.fn = "underflow" /\ CanBorrowLeft
    /\ LET low == <<Write(Holding(pages, LeftSibling, Front(LeftSibling.items))),
                    Write(Holding(pages, call.node, <<Last(LeftSibling.items)>> \o call.node.items))>>
       IN Finish(low, ParentAndAbove(low))

BorrowFromRight ==
    /\ call.fn = "underflow" /\ ~CanBorrowLeft /\ CanBorrowRight
    /\ LET low == <<Write(Holding(pages, call.node, Append(call.node.items, Head(RightSibling.items)))),
                    Write(Holding(pages, RightSibling, Tail(RightSibling.items)))>>
       IN Finish(low, ParentAndAbove(low))

\* ... or, with the pair <<left, right>>, one node of both if it fits ...
Merged == Holding(pages, [PairOnUnderflow[1] EXCEPT !.next = PairOnUnderflow[2].next],
                  PairOnUnderflow[1].items \o PairOnUnderflow[2].items)

\* What is left to do in the parent of a merged pair, in memory so far.
WithoutChild(gone) ==
    Call("child_removed", [Parent EXCEPT !.items = RemoveAt(@, Index(Parent, gone))], ParentPath)

\* A mistake for MergeSiblings: the right node's page is cleared first.
MergeSiblingsClearing ==
    /\ call.fn = "underflow" /\ ~CanBorrowLeft /\ ~CanBorrowRight /\ Fits(Merged)
    /\ LET gone == PairOnUnderflow[2].id IN
       Do(busy, <<>>, <<Write(Merged), <<gone, Blank>>>>,
          [meta EXCEPT !.first = IF @ = gone THEN Merged.id ELSE @], WithoutChild(gone))
    /\ UNCHANGED held

\* The items of the right node are then in two pages, and nothing moves.
MergeSiblings ==
    /\ call.fn = "underflow" /\ ~CanBorrowLeft /\ ~CanBorrowRight /\ Fits(Merged)
    /\ LET gone == PairOnUnderflow[2].id IN
       Do(busy, <<>>, <<Write(Merged)>>,
          [meta EXCEPT !.first = IF @ = gone THEN Merged.id ELSE @], WithoutChild(gone))
    /\ UNCHANGED held

\* ... or half of the items each.
ShareOnUnderflow ==
    /\ call.fn = "underflow" /\ ~CanBorrowLeft /\ ~CanBorrowRight /\ ~Fits(Merged)
    /\ Redistribute(PairOnUnderflow[1], PairOnUnderflow[2])

\* handle_internal_after_child_removed.
ChildRemoved ==
    LET node == Rebuilt(pages, call.node, call.node.items) IN
    /\ call.fn = "child_removed"
    /\ ~(IsRoot /\ Len(node.items) = 1)
    /\ IF ~IsRoot /\ KeyCount(node) < MinKeys(node)
       THEN Do(busy, <<>>, <<>>, meta, Call("underflow", node, call.path)) /\ UNCHANGED held
       ELSE Finish(<<>>, <<Write(node)>> \o Propagated(Written(pages, <<Write(node)>>), call.path))

\* A mistake for LeftmostLeaf: it does not go down.
LeftmostLeafNear(p) == p

\* leftmost_leaf_page_id.
LeftmostLeaf(p) == Last(Descent(pages, TowardFirst(pages), p))

\* A mistake for PromoteChild: the height stays.
PromoteChildHeightKept ==
    /\ call.fn = "child_removed" /\ IsRoot /\ Len(call.node.items) = 1
    /\ Do(busy, <<>>, <<>>,
          [meta EXCEPT !.root = call.node.items[1], !.first = LeftmostLeaf(call.node.items[1])], Idle)
    /\ UNCHANGED held

\* promote_single_child_root: the old root's page is left behind.
PromoteChild ==
    /\ call.fn = "child_removed" /\ IsRoot /\ Len(call.node.items) = 1
    /\ Do(busy, <<>>, <<>>,
          [meta EXCEPT !.root = call.node.items[1], !.height = @ - 1,
                       !.first = LeftmostLeaf(call.node.items[1])], Idle)
    /\ UNCHANGED held

Helpers ==
    \/ GiveToRightLeaf \/ GiveToLeftLeaf \/ ShareWithSibling \/ SplitPair \/ SplitRoot
    \/ BorrowFromLeft \/ BorrowFromRight \/ MergeSiblings \/ ShareOnUnderflow
    \/ ChildRemoved \/ PromoteChild

\* Of a tree that a kill has left, only what find answers is followed.
FindAfterKill == call = Killed /\ UNCHANGED vars

Next ==
    \/ \E k \in Keys : InsertFirst(k) \/ Insert(k) \/ EraseLast(k) \/ Erase(k)
    \/ Helpers
    \/ FindAfterKill

Spec == Init /\ [][Next]_vars

-----------------------------------------------------------------------------
(* The tree, whenever no call is in progress.                               *)

AtRest == call = Idle /\ ~IsEmpty

Children(p) == IF pages[p].leaf THEN {} ELSE ToSet(pages[p].items)

\* The pages n steps below the root.
Level(n) == Loop([S \in SUBSET DOMAIN pages |-> UNION {Children(p) : p \in S}], {meta.root})[n]

LeafLevel == Level(meta.height - 1)

Nodes == UNION {Level(n) : n \in 0..(meta.height - 1)}

Node(leaf) ==
    [id : Nat \cup {None}, leaf : {leaf}, items : Seq(IF leaf THEN {Item(k) : k \in Keys} ELSE Nat),
     keys : Seq(Keys), next : Nat \cup {None}]

IsNode(n) == n.leaf \in BOOLEAN /\ n \in Node(n.leaf)

TypeOK ==
    /\ DOMAIN pages = 1..Len(pages)
    /\ \A p \in DOMAIN pages : IsNode(pages[p]) /\ pages[p].id \in {p, None}
    /\ {meta, file} \subseteq [root : DOMAIN pages \cup {None}, first : DOMAIN pages \cup {None},
                            height : Nat, size : Nat, kind : KeyKinds]
    /\ \/ call \in {Idle, Killed}
       \/ /\ call = Call(call.fn, call.node, call.path)
          /\ call.fn \in {"split", "underflow", "child_removed"}
          /\ IsNode(call.node) /\ call.path \in Seq(DOMAIN pages)
    /\ held \subseteq Keys /\ moved \subseteq Keys /\ busy \in Keys \cup {None}

\* index/index.h: find answers every key with the row id it was inserted with,
\* and no other key, after any mix of insert and erase.
FindIsExact ==
    call = Idle => \A k \in Keys : Find(k) = IF k \in held THEN {Record[k]} ELSE {}

\* range_search returns the row ids of the keys of a closed range in the order
\* of the keys: the links of the leaves miss no leaf and meet none twice.
RangeIsExact ==
    call = Idle =>
        /\ \A b, e \in Keys :
               LET found == RangeSearch(b, e) IN
               /\ ToSet(found) = {Item(k) : k \in {h \in held : b <= h /\ h <= e}}
               /\ \A i \in 2..Len(found) : found[i - 1].key < found[i].key
        /\ ~IsEmpty => ToSet(Chain(meta.first)) = LeafLevel

\* Every leaf is height_ - 1 steps below the root, no node overflows its page,
\* and every internal node has the two children its helpers count on.
Balanced ==
    AtRest =>
        /\ \A n \in 0..(meta.height - 1) : \A p \in Level(n) : pages[p].leaf <=> n = meta.height - 1
        /\ \A p \in Nodes : Fits(pages[p]) /\ KeyCount(pages[p]) >= 1

\* Each separator is the least key of the subtree to its right, not just a
\* bound for it: erase and the redistributions keep it exact, up to the root.
SeparatorsExact ==
    AtRest => \A p \in Nodes : ~pages[p].leaf =>
        pages[p] = Rebuilt(pages, pages[p], pages[p].items)

\* The metadata tell the truth: the number of keys, and which leaf has the
\* least of them.
MetadataAgrees ==
    AtRest =>
        /\ meta.size = Cardinality(held)
        /\ meta.first \in LeafLevel
        /\ \A k \in held : pages[meta.first].items[1].key <= k

-----------------------------------------------------------------------------
(* The tree that a kill between two writes leaves, opened again.            *)

AfterKill == call = Killed

\* A page is linked to its parent, and a root to the metadata, only when it
\* and all the pages below it are written: find meets no page of zeros, which
\* deserialize_node would throw for (allocate_page and write_node of
\* split_leaf_pair, split_internal_pair, insert_into_parent).
FindReadsOnlyNodes ==
    AfterKill /\ ~IsEmpty => \A p \in Nodes : pages[p].id = p

\* A kill costs at most the keys that the operation was moving from one page
\* to another: every other key is still found, the key of the operation is
\* there or not, and no key is found with another's row id.
LossIsLocal ==
    AfterKill => \A k \in Keys :
        LET found == Find(k) IN
        /\ found \subseteq {Record[k]}
        /\ k # busy /\ found # {} => k \in held
        /\ k \in held \ ({busy} \cup moved) => found # {}

=============================================================================
