--------------------------- MODULE BStarPlusTree ---------------------------
(***************************************************************************)
(* The tree of BStarPlusIndex as a thing to reason about.  A tree t is its *)
(* pages (t.nodes) and, of each page, its level above the leaves, its      *)
(* parent, the keys under it and the first leaf under it.  Holds says that *)
(* the pages of a file are such a tree, balanced and in order, with exact  *)
(* separators and nodes of legal size, but for the node of a call in       *)
(* progress and the separator before its subtree.                          *)
(*                                                                         *)
(* Here is what the readers of the file (find_leaf, subtree_min_key,       *)
(* leftmost_leaf_page_id, propagate_subtree_min_change) find in a tree,    *)
(* and which changes leave a tree: two siblings that share what they hold  *)
(* in another way, become one or three, a leaf with another key, a root of *)
(* two nodes, a root that is left out.                                     *)
(***************************************************************************)
EXTENDS BStarPlusIndex, FiniteSetTheorems, SequenceTheorems, WellFoundedInduction, TLAPS

-----------------------------------------------------------------------------
(* Induction and loops.                                                     *)

Smaller == {ss \in Nat \X Nat : ss[1] < ss[2]}

\* A nonempty set of natural numbers has a least element.
LEMMA LeastNatural ==
    ASSUME NEW S, S \subseteq Nat, S # {}
    PROVE  \E n \in S : \A m \in S : n <= m
<1>1. IsWellFoundedOn(Smaller, Nat)
  <2>1. Smaller = OpToRel(<, Nat)
    BY Zenon DEF Smaller, OpToRel
  <2> QED BY <2>1, NatLessThanWellFounded, Zenon
<1>2. PICK n \in S : \A m \in S : ~(<<m, n>> \in Smaller)
  BY <1>1, WFMin, Zenon
<1>3. ASSUME NEW m \in S PROVE n <= m
  <2>1. m \in Nat /\ n \in Nat /\ <<m, n>> \notin Smaller
    BY <1>2
  <2> QED BY <2>1 DEF Smaller
<1> QED BY <1>3

\* Induction over a set of natural numbers.
LEMMA SetInduction ==
    ASSUME NEW S, 0 \in S, \A n \in Nat : n \in S => n + 1 \in S
    PROVE  Nat \subseteq S
<1> SUFFICES ASSUME Nat \ S # {} PROVE FALSE
  OBVIOUS
<1>1. PICK n \in Nat \ S : \A m \in Nat \ S : n <= m
  <2> DEFINE R == Nat \ S
  <2>1. R \subseteq Nat /\ R # {}
    OBVIOUS
  <2> HIDE DEF R
  <2>2. \E n \in R : \A m \in R : n <= m
    BY <2>1, LeastNatural, Zenon
  <2> QED BY <2>2 DEF R
<1>2. n # 0
  OBVIOUS
<1>3. n - 1 \in Nat /\ n - 1 < n /\ (n - 1) + 1 = n
  BY <1>2
<1>4. n - 1 \in S
  BY <1>1, <1>3
<1> QED BY <1>3, <1>4

\* Downwards and upwards from m.
LEMMA SetInductionFrom ==
    ASSUME NEW S, NEW a \in Nat, a \in S, \A n \in Nat : n >= a /\ n \in S => n + 1 \in S
    PROVE  \A n \in Nat : n >= a => n \in S
<1> DEFINE R == {n \in Nat : a + n \in S}
<1>1. 0 \in R
  OBVIOUS
<1>2. ASSUME NEW n \in Nat, n \in R PROVE n + 1 \in R
  <2>1. a + n \in Nat /\ a + n >= a /\ a + n \in S /\ (a + n) + 1 = a + (n + 1)
    BY <1>2
  <2>2. (a + n) + 1 \in S
    BY <2>1
  <2> QED BY <2>1, <2>2
<1>3. Nat \subseteq R
  <2> HIDE DEF R
  <2> QED BY <1>1, <1>2, SetInduction
<1>4. ASSUME NEW n \in Nat, n >= a PROVE n \in S
  <2>1. n - a \in Nat /\ a + (n - a) = n
    BY <1>4
  <2>2. n - a \in R
    BY <1>3, <2>1
  <2> QED BY <2>1, <2>2
<1> QED BY <1>4

\* What the recursive function of Loop is: it starts at s, and one pass is one
\* application of step.
IsLoop(at, step, s) == at = [n \in Nat |-> IF n = 0 THEN s ELSE step[at[n - 1]]]

\* There is such a function: Loop is defined for every step and start.
LEMMA LoopExists ==
    ASSUME NEW step, NEW s
    PROVE  \E at : IsLoop(at, step, s)
<1> DEFINE IsPart(g, n) == /\ g[0] = s
                           /\ \A i \in 1..n : g[i] = step[g[i - 1]]
           S == {n \in Nat : \E g : IsPart(g, n)}
           Part(n) == CHOOSE g : IsPart(g, n)
           at == [n \in Nat |-> Part(n)[n]]
<1>1. 0 \in S
  <2> DEFINE g == [i \in {0} |-> s]
  <2>1. IsPart(g, 0)
    OBVIOUS
  <2> HIDE DEF g
  <2> QED BY <2>1
<1>2. ASSUME NEW n \in Nat, n \in S PROVE n + 1 \in S
  <2>1. PICK g : IsPart(g, n)
    BY <1>2
  <2> DEFINE h == [i \in 0..(n + 1) |-> IF i = n + 1 THEN step[g[n]] ELSE g[i]]
  <2>2. h[0] = s
    BY <2>1
  <2>3. ASSUME NEW i \in 1..(n + 1) PROVE h[i] = step[h[i - 1]]
    BY <2>1
  <2> HIDE DEF h
  <2>4. IsPart(h, n + 1)
    BY <2>2, <2>3
  <2> HIDE DEF IsPart
  <2> QED BY <2>4
<1>3. \A n \in Nat : IsPart(Part(n), n)
  <2>1. Nat \subseteq S
    <3> HIDE DEF S
    <3> QED BY <1>1, <1>2, SetInduction
  <2> HIDE DEF IsPart
  <2> QED BY <2>1
\* Two parts agree where both are.
<1>4. ASSUME NEW m \in Nat, NEW n \in Nat, m <= n PROVE Part(n)[m] = Part(m)[m]
  <2> DEFINE R == {i \in Nat : i <= m => Part(n)[i] = Part(m)[i]}
  <2>0. IsPart(Part(m), m) /\ IsPart(Part(n), n)
    BY <1>3
  <2> HIDE DEF Part
  <2>1. 0 \in R
    BY <2>0
  <2>2. ASSUME NEW i \in Nat, i \in R PROVE i + 1 \in R
    <3> SUFFICES ASSUME i + 1 <= m PROVE Part(n)[i + 1] = Part(m)[i + 1]
      OBVIOUS
    <3>1. i + 1 \in 1..m /\ i + 1 \in 1..n /\ (i + 1) - 1 = i
      BY <1>4
    <3> QED BY <2>0, <2>2, <3>1
  <2>3. Nat \subseteq R
    <3> HIDE DEF R
    <3> QED BY <2>1, <2>2, SetInduction
  <2> QED BY <2>3
<1>5. ASSUME NEW n \in Nat PROVE at[n] = IF n = 0 THEN s ELSE step[at[n - 1]]
  <2>1. IsPart(Part(n), n)
    BY <1>3
  <2> HIDE DEF Part
  <2>2. CASE n = 0
    BY <2>1, <2>2
  <2>3. CASE n # 0
    <3>1. n - 1 \in Nat /\ n - 1 <= n /\ n \in 1..n
      BY <2>3
    <3>2. Part(n)[n - 1] = Part(n - 1)[n - 1]
      BY <1>4, <3>1
    <3> QED BY <2>1, <2>3, <3>1, <3>2
  <2> QED BY <2>2, <2>3
<1>6. IsLoop(at, step, s)
  <2>1. at = [n \in Nat |-> at[n]]
    OBVIOUS
  <2> HIDE DEF at
  <2> QED BY <1>5, <2>1 DEF IsLoop
<1> QED BY <1>6

\* The passes of a loop, one by one.
LEMMA LoopProperties ==
    ASSUME NEW step, NEW s
    PROVE  /\ Loop(step, s)[0] = s
           /\ \A n \in Nat : Loop(step, s)[n + 1] = step[Loop(step, s)[n]]
<1> DEFINE at == Loop(step, s)
<1>1. IsLoop(at, step, s)
  <2>1. at = CHOOSE f : IsLoop(f, step, s)
    BY DEF Loop, IsLoop
  <2> HIDE DEF at
  <2> QED BY <2>1, LoopExists, Zenon
<1> HIDE DEF at
<1>2. at[0] = s
  BY <1>1 DEF IsLoop
<1>3. ASSUME NEW n \in Nat PROVE at[n + 1] = step[at[n]]
  BY <1>1 DEF IsLoop
<1> QED BY <1>2, <1>3 DEF at

-----------------------------------------------------------------------------
(* The tree.                                                                *)

\* How the pages are read as a tree: t.nodes are the pages that belong to it,
\* t.level the distance of each to the leaves, which are at level 1, t.parent
\* its parent, t.under the keys in the leaves below it and t.first the leftmost
\* of these leaves.

\* The keys that entry i of page p stands for.
Part(pg, t, p, i) == IF pg[p].leaf THEN {pg[p].items[i].key} ELSE t.under[pg[p].items[i]]

Size(pg, p) == Len(pg[p].items)

NodeOK(pg, t, p) ==
    /\ t.level[p] \in Nat \ {0} /\ pg[p].leaf \in BOOLEAN /\ (pg[p].leaf <=> t.level[p] = 1)
    /\ pg[p].leaf => pg[p].items \in Seq({Item(k) : k \in Keys}) /\ t.first[p] = p
    /\ ~pg[p].leaf =>
        /\ pg[p].items \in Seq(Nat)
        /\ Size(pg, p) >= 1 => t.first[p] = t.first[pg[p].items[1]]
        /\ \A i \in 1..Size(pg, p) :
               /\ pg[p].items[i] \in t.nodes
               /\ t.level[pg[p].items[i]] = t.level[p] - 1
               /\ t.parent[pg[p].items[i]] = p
        /\ \A i, j \in 1..Size(pg, p) : pg[p].items[i] = pg[p].items[j] => i = j
    /\ t.under[p] \subseteq Keys
    /\ \A k : k \in t.under[p] <=> \E i \in 1..Size(pg, p) : k \in Part(pg, t, p, i)
    /\ \A i, j \in 1..Size(pg, p) : i < j =>
           \A x \in Part(pg, t, p, i), y \in Part(pg, t, p, j) : x < y

Tree(pg, root, t) ==
    /\ root \in t.nodes /\ t.nodes \subseteq DOMAIN pg
    /\ t.parent[root] = None /\ None \notin t.nodes
    /\ \A p \in t.nodes : NodeOK(pg, t, p)

\* A node is a record of these five fields.
LEMMA NodeFields ==
    ASSUME NEW n, IsNode(n)
    PROVE  /\ n = [id |-> n.id, leaf |-> n.leaf, items |-> n.items, keys |-> n.keys, next |-> n.next]
           /\ n.leaf \in BOOLEAN
           /\ n.id \in Nat \cup {None} /\ n.next \in Nat \cup {None}
           /\ n.keys \in Seq(Keys)
           /\ n.leaf => n.items \in Seq({Item(k) : k \in Keys})
           /\ ~n.leaf => n.items \in Seq(Nat)
           /\ Len(n.items) \in Nat /\ DOMAIN n.items = 1..Len(n.items)
           /\ Len(n.keys) \in Nat /\ DOMAIN n.keys = 1..Len(n.keys)
           /\ \A i \in 1..Len(n.keys) : n.keys[i] \in Keys
           /\ n.leaf => \A i \in 1..Len(n.items) :
                  n.items[i] = Item(n.items[i].key) /\ n.items[i].key \in Keys
<1>1. n.leaf \in BOOLEAN /\ n \in Node(n.leaf)
  BY DEF IsNode
<1>2. /\ n = [id |-> n.id, leaf |-> n.leaf, items |-> n.items, keys |-> n.keys, next |-> n.next]
      /\ n.id \in Nat \cup {None} /\ n.next \in Nat \cup {None}
      /\ n.keys \in Seq(Keys)
      /\ n.items \in Seq(IF n.leaf THEN {Item(k) : k \in Keys} ELSE Nat)
  <2> DEFINE S == Seq(IF n.leaf THEN {Item(k) : k \in Keys} ELSE Nat)
             I == Nat \cup {None}
             K == Seq(Keys)
  <2>1. n \in [id : I, leaf : {n.leaf}, items : S, keys : K, next : I]
    BY <1>1 DEF Node
  <2> HIDE DEF S, I, K
  <2>2. /\ n = [id |-> n.id, leaf |-> n.leaf, items |-> n.items, keys |-> n.keys, next |-> n.next]
        /\ n.id \in I /\ n.next \in I /\ n.keys \in K /\ n.items \in S
    BY <2>1
  <2> QED BY <2>2 DEF S, I, K
<1>3. CASE n.leaf
  <2>1. n.items \in Seq({Item(k) : k \in Keys})
    BY <1>2, <1>3
  <2>2. \A i \in 1..Len(n.items) : n.items[i] \in {Item(k) : k \in Keys}
    BY <2>1, ElementOfSeq
  <2>3. \A i \in 1..Len(n.items) : n.items[i] = Item(n.items[i].key) /\ n.items[i].key \in Keys
    BY <2>2 DEF Item
  <2>4. Len(n.items) \in Nat /\ DOMAIN n.items = 1..Len(n.items)
    BY <2>1, LenProperties
  <2> QED BY <1>1, <1>2, <1>3, <2>1, <2>3, <2>4, LenProperties, ElementOfSeq
<1>4. CASE ~n.leaf
  <2>1. n.items \in Seq(Nat)
    BY <1>2, <1>4
  <2>2. Len(n.items) \in Nat /\ DOMAIN n.items = 1..Len(n.items)
    BY <2>1, LenProperties
  <2> QED BY <1>1, <1>2, <1>4, <2>1, <2>2, LenProperties, ElementOfSeq
<1> QED BY <1>1, <1>3, <1>4

\* Conversely.
LEMMA NodeIsNode ==
    ASSUME NEW id \in Nat \cup {None}, NEW leaf \in BOOLEAN, NEW items, NEW keys \in Seq(Keys),
           NEW next \in Nat \cup {None},
           leaf => items \in Seq({Item(k) : k \in Keys}),
           ~leaf => items \in Seq(Nat)
    PROVE  IsNode([id |-> id, leaf |-> leaf, items |-> items, keys |-> keys, next |-> next])
<1> DEFINE S == Seq(IF leaf THEN {Item(k) : k \in Keys} ELSE Nat)
<1>1. items \in S
  BY DEF S
<1> HIDE DEF S
<1>2. [id |-> id, leaf |-> leaf, items |-> items, keys |-> keys, next |-> next] \in
         [id : Nat \cup {None}, leaf : {leaf}, items : S, keys : Seq(Keys), next : Nat \cup {None}]
  BY <1>1
<1> QED BY <1>2 DEF IsNode, Node, S

\* child_index_for_key (upper_bound).
LEMMA ChildIndexProperties ==
    ASSUME NEW n, NEW k \in Int, n.keys \in Seq(Int)
    PROVE  /\ ChildIndex(n, k) \in 1..(Len(n.keys) + 1)
           /\ \A j \in 1..(ChildIndex(n, k) - 1) : n.keys[j] <= k
           /\ ChildIndex(n, k) <= Len(n.keys) => k < n.keys[ChildIndex(n, k)]
<1> DEFINE P(i) == /\ \A j \in 1..(i - 1) : n.keys[j] <= k
                   /\ i <= Len(n.keys) => k < n.keys[i]
<1>1. \E i \in 1..(Len(n.keys) + 1) : P(i)
  <2>0. Len(n.keys) \in Nat /\ \A i \in 1..Len(n.keys) : n.keys[i] \in Int
    BY LenProperties, ElementOfSeq
  <2> DEFINE S == {i \in 1..(Len(n.keys) + 1) : i <= Len(n.keys) => k < n.keys[i]}
  <2>1. S \subseteq Nat /\ Len(n.keys) + 1 \in S
    BY <2>0
  <2>2. PICK i \in S : \A j \in S : i <= j
    <3> HIDE DEF S
    <3> QED BY <2>1, LeastNatural
  <2>3. ASSUME NEW j \in 1..(i - 1) PROVE n.keys[j] <= k
    <3>1. j \notin S
      BY <2>0, <2>2
    <3>2. j \in 1..Len(n.keys)
      BY <2>0, <2>2
    <3> QED BY <2>0, <3>1, <3>2
  <2> QED BY <2>2, <2>3
<1>2. ChildIndex(n, k) = CHOOSE i \in 1..(Len(n.keys) + 1) : P(i)
  BY DEF ChildIndex
<1> HIDE DEF P
<1>3. ChildIndex(n, k) \in 1..(Len(n.keys) + 1) /\ P(ChildIndex(n, k))
  BY <1>1, <1>2
<1> QED BY <1>3 DEF P

\* std::lower_bound over the items of a leaf.
LEMMA LowerBoundProperties ==
    ASSUME NEW items, NEW k \in Int, Len(items) \in Nat, \A i \in 1..Len(items) : items[i].key \in Int
    PROVE  /\ LowerBound(items, k) \in 1..(Len(items) + 1)
           /\ \A j \in 1..(LowerBound(items, k) - 1) : items[j].key < k
           /\ LowerBound(items, k) <= Len(items) => k <= items[LowerBound(items, k)].key
<1> DEFINE P(i) == /\ \A j \in 1..(i - 1) : items[j].key < k
                   /\ i <= Len(items) => k <= items[i].key
<1>1. \E i \in 1..(Len(items) + 1) : P(i)
  <2> DEFINE S == {i \in 1..(Len(items) + 1) : i <= Len(items) => k <= items[i].key}
  <2>1. S \subseteq Nat /\ Len(items) + 1 \in S
    OBVIOUS
  <2>2. PICK i \in S : \A j \in S : i <= j
    <3> HIDE DEF S
    <3> QED BY <2>1, LeastNatural
  <2>3. ASSUME NEW j \in 1..(i - 1) PROVE items[j].key < k
    <3>1. j \notin S
      BY <2>2
    <3>2. j \in 1..Len(items)
      BY <2>2
    <3> QED BY <3>1, <3>2
  <2> QED BY <2>2, <2>3
<1>2. LowerBound(items, k) = CHOOSE i \in 1..(Len(items) + 1) : P(i)
  BY DEF LowerBound
<1> HIDE DEF P
<1>3. LowerBound(items, k) \in 1..(Len(items) + 1) /\ P(LowerBound(items, k))
  BY <1>1, <1>2
<1> QED BY <1>3 DEF P

\* What NodeOK says of a leaf ...
LeafShape(pg, t, p) ==
    /\ Size(pg, p) \in Nat /\ DOMAIN pg[p].items = 1..Size(pg, p)
    /\ pg[p].items \in Seq({Item(k) : k \in Keys})
    /\ t.level[p] = 1 /\ t.first[p] = p /\ t.under[p] \subseteq Keys
    /\ \A i \in 1..Size(pg, p) : pg[p].items[i] = Item(pg[p].items[i].key) /\ pg[p].items[i].key \in Keys
    /\ \A i \in 1..Size(pg, p) : pg[p].items[i].key \in t.under[p]
    /\ \A k \in t.under[p] : \E i \in 1..Size(pg, p) : pg[p].items[i].key = k
    /\ \A i, j \in 1..Size(pg, p) : i < j => pg[p].items[i].key < pg[p].items[j].key

\* A leaf of the tree has this shape.
LEMMA LeafFacts ==
    ASSUME NEW pg, NEW t, NEW p, NodeOK(pg, t, p), pg[p].leaf
    PROVE  LeafShape(pg, t, p)
<1>2. pg[p].items \in Seq({Item(k) : k \in Keys})
  BY DEF NodeOK
<1>2a. Size(pg, p) \in Nat /\ DOMAIN pg[p].items = 1..Size(pg, p)
  BY <1>2, LenProperties DEF Size
<1>3. \A i \in 1..Size(pg, p) : pg[p].items[i] = Item(pg[p].items[i].key) /\ pg[p].items[i].key \in Keys
  <2> SUFFICES ASSUME NEW i \in 1..Size(pg, p)
               PROVE  pg[p].items[i] = Item(pg[p].items[i].key) /\ pg[p].items[i].key \in Keys
    OBVIOUS
  <2>1. pg[p].items[i] \in {Item(k) : k \in Keys}
    BY <1>2, ElementOfSeq DEF Size
  <2> QED BY <2>1 DEF Item
<1>4. \A i : Part(pg, t, p, i) = {pg[p].items[i].key}
  BY DEF Part
<1>5. \A i \in 1..Size(pg, p) : pg[p].items[i].key \in t.under[p]
  BY <1>4 DEF NodeOK
<1>6. \A k \in t.under[p] : \E i \in 1..Size(pg, p) : pg[p].items[i].key = k
  BY <1>4 DEF NodeOK
<1>7. ASSUME NEW i \in 1..Size(pg, p), NEW j \in 1..Size(pg, p), i < j
      PROVE  pg[p].items[i].key < pg[p].items[j].key
  <2>1. \A x \in Part(pg, t, p, i), y \in Part(pg, t, p, j) : x < y
    BY <1>7 DEF NodeOK
  <2> QED BY <2>1, <1>4
<1>8. t.level[p] = 1 /\ t.first[p] = p /\ t.under[p] \subseteq Keys
  BY DEF NodeOK
<1> QED BY <1>2, <1>2a, <1>3, <1>5, <1>6, <1>7, <1>8 DEF LeafShape

\* ... and of an internal node.
InternalShape(pg, t, p) ==
    /\ Size(pg, p) \in Nat /\ DOMAIN pg[p].items = 1..Size(pg, p)
    /\ pg[p].items \in Seq(Nat)
    /\ t.level[p] \in Nat /\ t.level[p] > 1 /\ t.under[p] \subseteq Keys
    /\ Size(pg, p) >= 1 => t.first[p] = t.first[pg[p].items[1]]
    /\ \A i \in 1..Size(pg, p) :
           /\ pg[p].items[i] \in t.nodes
           /\ t.level[pg[p].items[i]] = t.level[p] - 1
           /\ t.parent[pg[p].items[i]] = p
           /\ t.under[pg[p].items[i]] \subseteq t.under[p]
    /\ \A i, j \in 1..Size(pg, p) : pg[p].items[i] = pg[p].items[j] => i = j
    /\ \A k \in t.under[p] : \E i \in 1..Size(pg, p) : k \in t.under[pg[p].items[i]]
    /\ \A i, j \in 1..Size(pg, p) : i < j =>
           \A x \in t.under[pg[p].items[i]], y \in t.under[pg[p].items[j]] : x < y

\* An internal node of the tree has this shape.
LEMMA InternalFacts ==
    ASSUME NEW pg, NEW t, NEW p, NodeOK(pg, t, p), ~pg[p].leaf
    PROVE  InternalShape(pg, t, p)
<1>2. pg[p].items \in Seq(Nat)
  BY DEF NodeOK
<1>3. Size(pg, p) \in Nat /\ DOMAIN pg[p].items = 1..Size(pg, p)
  BY <1>2, LenProperties DEF Size
<1>4. \A i : Part(pg, t, p, i) = t.under[pg[p].items[i]]
  BY DEF Part
<1>5. \A i \in 1..Size(pg, p) : t.under[pg[p].items[i]] \subseteq t.under[p]
  BY <1>4 DEF NodeOK
<1>6. \A k \in t.under[p] : \E i \in 1..Size(pg, p) : k \in t.under[pg[p].items[i]]
  BY <1>4 DEF NodeOK
<1>7. ASSUME NEW i \in 1..Size(pg, p), NEW j \in 1..Size(pg, p), i < j
      PROVE  \A x \in t.under[pg[p].items[i]], y \in t.under[pg[p].items[j]] : x < y
  <2>1. \A x \in Part(pg, t, p, i), y \in Part(pg, t, p, j) : x < y
    BY <1>7 DEF NodeOK
  <2> QED BY <2>1, <1>4
<1>8. t.level[p] \in Nat /\ t.level[p] > 1 /\ t.under[p] \subseteq Keys
  BY DEF NodeOK
<1>9. /\ Size(pg, p) >= 1 => t.first[p] = t.first[pg[p].items[1]]
      /\ \A i \in 1..Size(pg, p) :
            pg[p].items[i] \in t.nodes /\ t.level[pg[p].items[i]] = t.level[p] - 1 /\ t.parent[pg[p].items[i]] = p
      /\ \A i, j \in 1..Size(pg, p) : pg[p].items[i] = pg[p].items[j] => i = j
  BY DEF NodeOK
<1> QED BY <1>2, <1>3, <1>4, <1>5, <1>6, <1>7, <1>8, <1>9 DEF InternalShape

-----------------------------------------------------------------------------
(* Going down.                                                              *)

\* The loops of find_leaf, subtree_min_key and leftmost_leaf_page_id read one
\* page on each level, from that of page r down to the leaves.
StepsDown(pg, step, T, lvl) ==
    \A p \in T : /\ lvl[p] \in Nat \ {0}
                 /\ pg[p].leaf <=> lvl[p] = 1
                 /\ lvl[p] # 1 => step[p] \in T /\ lvl[step[p]] = lvl[p] - 1

IsDescent(d, step, T, lvl, r) ==
    /\ d \in Seq(T) /\ Len(d) = lvl[r] /\ DOMAIN d = 1..lvl[r]
    /\ d[1] = r
    /\ \A i \in 1..lvl[r] : d[i] \in T /\ lvl[d[i]] = lvl[r] + 1 - i
    /\ \A i \in 1..(lvl[r] - 1) : d[i + 1] = step[d[i]]
    /\ Last(d) = d[lvl[r]]

\* A loop that goes down one level at each pass stops at a leaf, after as many
\* pages as there are levels.
LEMMA DescentProperties ==
    ASSUME NEW pg, NEW step, NEW T, NEW lvl, NEW r \in T,
           Len(pg) \in Nat, lvl[r] <= Len(pg),
           StepsDown(pg, step, T, lvl), NEW d, d = Descent(pg, step, r)
    PROVE  IsDescent(d, step, T, lvl, r)
<1> DEFINE at == Loop(step, r)
           h == lvl[r]
           Stop(n) == pg[at[n]].leaf /\ \A m \in 0..(n - 1) : ~pg[at[m]].leaf
           N == CHOOSE n \in 0..Len(pg) : Stop(n)
<1>0. h \in Nat \ {0}
  BY DEF StepsDown
<1>1. at[0] = r /\ \A n \in Nat : at[n + 1] = step[at[n]]
  BY LoopProperties
<1>d. d = [i \in 1..(N + 1) |-> at[i - 1]]
  BY DEF Descent
<1> HIDE DEF at
<1>2. \A n \in Nat : n < h => at[n] \in T /\ lvl[at[n]] = h - n
  <2> DEFINE S == {n \in Nat : n < h => at[n] \in T /\ lvl[at[n]] = h - n}
  <2>1. 0 \in S
    <3>1. at[0] \in T /\ lvl[at[0]] = h
      BY <1>1
    <3> HIDE DEF h
    <3> QED BY <3>1, <1>0
  <2>2. ASSUME NEW n \in Nat, n \in S PROVE n + 1 \in S
    <3> SUFFICES ASSUME n + 1 < h PROVE at[n + 1] \in T /\ lvl[at[n + 1]] = h - (n + 1)
      OBVIOUS
    <3>1. at[n] \in T /\ lvl[at[n]] = h - n /\ lvl[at[n]] # 1
      BY <2>2, <1>0
    <3>2. step[at[n]] \in T /\ lvl[step[at[n]]] = lvl[at[n]] - 1
      BY <3>1 DEF StepsDown
    <3>3. at[n + 1] = step[at[n]]
      BY <1>1
    <3> HIDE DEF h
    <3> QED BY <3>1, <3>2, <3>3, <1>0
  <2>3. Nat \subseteq S
    <3> HIDE DEF S
    <3> QED BY <2>1, <2>2, SetInduction
  <2> QED BY <2>3
<1> HIDE DEF h
<1>3. Stop(h - 1) /\ h - 1 \in 0..Len(pg)
  <2>1. h - 1 \in Nat /\ h - 1 < h /\ h - 1 \in 0..Len(pg)
    BY <1>0 DEF h
  <2>2. pg[at[h - 1]].leaf
    <3>1. at[h - 1] \in T /\ lvl[at[h - 1]] = h - (h - 1)
      BY <1>2, <2>1
    <3>2. lvl[at[h - 1]] = 1
      BY <3>1, <1>0
    <3> QED BY <3>1, <3>2 DEF StepsDown
  <2>3. ASSUME NEW m \in 0..(h - 2) PROVE ~pg[at[m]].leaf
    BY <1>0, <1>2 DEF StepsDown
  <2> QED BY <2>1, <2>2, <2>3, <1>0
<1>4. ASSUME NEW n \in 0..Len(pg), Stop(n) PROVE n = h - 1
  <2>1. ~(n < h - 1)
    BY <1>3, <1>4
  <2>2. ~(h - 1 < n)
    BY <1>3, <1>4
  <2> QED BY <2>1, <2>2, <1>0
<1>5. N = h - 1
  <2> HIDE DEF Stop
  <2> QED BY <1>3, <1>4
<1> HIDE DEF N
<1>6. d = [i \in 1..h |-> at[i - 1]]
  BY <1>5, <1>d, <1>0
<1>7. \A i \in 1..h : d[i] \in T /\ lvl[d[i]] = h + 1 - i
  BY <1>6, <1>2, <1>0
<1>8. d \in Seq(T) /\ Len(d) = h /\ DOMAIN d = 1..h
  <2>1. d \in [1..h -> T]
    BY <1>6, <1>7
  <2> QED BY <2>1, <1>0, SeqDef, LenProperties
<1>9. d[1] = r
  BY <1>6, <1>1, <1>0
<1>10. \A i \in 1..(h - 1) : d[i + 1] = step[d[i]]
  <2>1. ASSUME NEW i \in 1..(h - 1) PROVE d[i + 1] = step[d[i]]
    <3>1. d[i + 1] = at[i] /\ d[i] = at[i - 1] /\ i - 1 \in Nat /\ (i - 1) + 1 = i
      BY <1>6, <1>0
    <3> QED BY <3>1, <1>1
  <2> QED BY <2>1
<1>11. Last(d) = d[h]
  BY <1>8 DEF Last
<1> QED BY <1>7, <1>8, <1>9, <1>10, <1>11 DEF h, IsDescent

\* A fact of one number that holds of 1 and passes from each to the next holds
\* up to h: induction along a path.
LEMMA PathInduction ==
    ASSUME NEW h \in Nat, NEW S, 1 \in S, \A i \in 1..(h - 1) : i \in S => i + 1 \in S
    PROVE  \A i \in 1..h : i \in S
<1> DEFINE R == {n \in Nat : n < h => n + 1 \in S}
<1>1. 0 \in R
  OBVIOUS
<1>2. ASSUME NEW n \in Nat, n \in R PROVE n + 1 \in R
  BY <1>2
<1>3. Nat \subseteq R
  <2> HIDE DEF R
  <2> QED BY <1>1, <1>2, SetInduction
<1>4. ASSUME NEW i \in 1..h PROVE i \in S
  <2>1. i - 1 \in Nat /\ i - 1 < h /\ (i - 1) + 1 = i
    OBVIOUS
  <2> QED BY <1>3, <2>1
<1> QED BY <1>4

\* The least key of a leaf is that of its first item.
LEMMA LeafMin ==
    ASSUME KeysAssumption, NEW pg, NEW t, NEW p, NodeOK(pg, t, p), pg[p].leaf, t.under[p] # {}
    PROVE  /\ pg[p].items[1].key \in t.under[p]
           /\ \A x \in t.under[p] : pg[p].items[1].key <= x
           /\ Size(pg, p) >= 1
<1>0. LeafShape(pg, t, p)
  BY LeafFacts
<1>1. /\ Size(pg, p) \in Nat /\ t.under[p] \subseteq Keys
      /\ \A i \in 1..Size(pg, p) : pg[p].items[i].key \in t.under[p]
      /\ \A k \in t.under[p] : \E i \in 1..Size(pg, p) : pg[p].items[i].key = k
      /\ \A i, j \in 1..Size(pg, p) : i < j => pg[p].items[i].key < pg[p].items[j].key
  BY <1>0 DEF LeafShape
<1>2. t.under[p] \subseteq Int
  BY <1>1 DEF KeysAssumption
<1>3. 1 \in 1..Size(pg, p)
  <2>1. PICK k \in t.under[p] : TRUE
    OBVIOUS
  <2>2. PICK j \in 1..Size(pg, p) : pg[p].items[j].key = k
    BY <1>1
  <2> QED BY <1>1, <2>2
<1>4. ASSUME NEW x \in t.under[p] PROVE pg[p].items[1].key <= x
  <2>1. PICK i \in 1..Size(pg, p) : pg[p].items[i].key = x
    BY <1>1
  <2>2. CASE i = 1
    BY <1>2, <2>1, <2>2
  <2>3. CASE i # 1
    <3>1. 1 < i
      BY <1>1, <2>3
    <3>2. pg[p].items[1].key < x
      BY <1>1, <1>3, <2>1, <3>1
    <3>3. pg[p].items[1].key \in Int /\ x \in Int
      BY <1>1, <1>2, <1>3
    <3> QED BY <3>2, <3>3
  <2> QED BY <2>2, <2>3
<1> QED BY <1>1, <1>3, <1>4

\* The least keys of an internal node are those of its first child.
LEMMA FirstChildMin ==
    ASSUME NEW pg, NEW t, NEW p, NodeOK(pg, t, p), ~pg[p].leaf, Size(pg, p) >= 1
    PROVE  /\ pg[p].items[1] \in t.nodes /\ t.level[pg[p].items[1]] = t.level[p] - 1
           /\ t.first[p] = t.first[pg[p].items[1]]
           /\ t.under[pg[p].items[1]] \subseteq t.under[p]
           /\ \A x \in t.under[p] : x \in t.under[pg[p].items[1]] \/ \A y \in t.under[pg[p].items[1]] : y < x
<1> DEFINE q == pg[p].items[1]
<1>0. InternalShape(pg, t, p)
  BY InternalFacts
<1>1. 1 \in 1..Size(pg, p) /\ Size(pg, p) \in Nat
  BY <1>0 DEF InternalShape
<1>2. q \in t.nodes /\ t.level[q] = t.level[p] - 1 /\ t.first[p] = t.first[q] /\ t.under[q] \subseteq t.under[p]
  BY <1>0, <1>1 DEF InternalShape
<1>3. ASSUME NEW x \in t.under[p], x \notin t.under[q], NEW y \in t.under[q] PROVE y < x
  <2>1. PICK j \in 1..Size(pg, p) : x \in t.under[pg[p].items[j]]
    BY <1>0 DEF InternalShape
  <2>2. 1 < j
    BY <1>1, <1>3, <2>1
  <2> QED BY <1>0, <1>1, <2>1, <2>2 DEF InternalShape
<1> QED BY <1>2, <1>3

\* subtree_min_key of page c: the least key under it.  Only the pages down
\* from c are read, so that pgx may differ from pg above.
SameBelow(pg, t, pgx, c) ==
    /\ \A p \in t.nodes : NodeOK(pg, t, p)
    /\ \A p \in t.nodes : t.level[p] <= t.level[c] =>
           p \in DOMAIN pgx /\ pgx[p] = pg[p] /\ t.under[p] # {} /\ Size(pg, p) >= 1
    /\ Len(pgx) \in Nat /\ t.level[c] <= Len(pgx)

\* subtree_min_key, by the levels below page c.
LEMMA SubtreeMinProperties ==
    ASSUME KeysAssumption, NEW pg, NEW t, NEW c \in t.nodes, NEW pgx, SameBelow(pg, t, pgx, c)
    PROVE  /\ SubtreeMin(pgx, c) \in t.under[c]
           /\ \A x \in t.under[c] : SubtreeMin(pgx, c) <= x
           /\ Last(Descent(pgx, TowardFirst(pgx), c)) = t.first[c]
<1> DEFINE T == {p \in t.nodes : t.level[p] <= t.level[c]}
           step == TowardFirst(pgx)
           d == Descent(pgx, step, c)
           h == t.level[c]
           lvl == t.level
<1>a. /\ \A p \in t.nodes : NodeOK(pg, t, p)
      /\ \A p \in t.nodes : t.level[p] <= t.level[c] =>
             p \in DOMAIN pgx /\ pgx[p] = pg[p] /\ t.under[p] # {} /\ Size(pg, p) >= 1
      /\ Len(pgx) \in Nat /\ t.level[c] <= Len(pgx)
  BY DEF SameBelow
<1>0. h \in Nat \ {0}
  BY <1>a DEF NodeOK
<1>1. \A p \in T : p \in DOMAIN pgx /\ pgx[p] = pg[p] /\ NodeOK(pg, t, p) /\ t.under[p] # {} /\ Size(pg, p) >= 1 /\ p \in t.nodes
  BY <1>a
<1>2. StepsDown(pgx, step, T, lvl)
  <2> SUFFICES ASSUME NEW p \in T
               PROVE  /\ lvl[p] \in Nat \ {0}
                      /\ pgx[p].leaf <=> lvl[p] = 1
                      /\ lvl[p] # 1 => step[p] \in T /\ lvl[step[p]] = lvl[p] - 1
    BY DEF StepsDown
  <2>1. lvl[p] \in Nat \ {0} /\ (pgx[p].leaf <=> lvl[p] = 1)
    BY <1>1 DEF NodeOK
  <2>2. CASE lvl[p] # 1
    <3>1. ~pg[p].leaf
      BY <1>1, <2>1, <2>2
    <3>2. step[p] = pg[p].items[1]
      BY <1>1, <3>1 DEF TowardFirst
    <3>3. pg[p].items[1] \in t.nodes /\ lvl[pg[p].items[1]] = lvl[p] - 1
      BY <1>1, <3>1, FirstChildMin
    <3>4. lvl[p] - 1 <= h /\ lvl[p] <= h
      BY <2>1, <1>0
    <3> HIDE DEF step
    <3> QED BY <2>1, <3>2, <3>3, <3>4
  <2> QED BY <2>1, <2>2
<1>3. \A p \in T : lvl[p] # 1 => ~pg[p].leaf /\ step[p] = pg[p].items[1]
  <2> SUFFICES ASSUME NEW p \in T, lvl[p] # 1 PROVE ~pg[p].leaf /\ step[p] = pg[p].items[1]
    OBVIOUS
  <2>1. ~pg[p].leaf
    BY <1>1, <1>2 DEF StepsDown
  <2> QED BY <1>1, <2>1 DEF TowardFirst
<1>4. c \in T /\ h <= Len(pgx) /\ h = lvl[c]
  BY <1>a, <1>0
<1>5. d = Descent(pgx, step, c)
  OBVIOUS
<1> HIDE DEF d, step, h, T, lvl
<1>6a. IsDescent(d, step, T, lvl, c)
  BY <1>2, <1>4, <1>5, DescentProperties
<1>6. /\ Len(d) = h /\ d[1] = c
      /\ \A i \in 1..h : d[i] \in T /\ lvl[d[i]] = h + 1 - i
      /\ \A i \in 1..(h - 1) : d[i + 1] = step[d[i]]
      /\ Last(d) = d[h]
  BY <1>4, <1>6a DEF IsDescent
<1>7. \A i \in 1..h : /\ t.first[d[i]] = t.first[c]
                      /\ t.under[d[i]] \subseteq t.under[c]
                      /\ \A x \in t.under[c] : x \in t.under[d[i]] \/ \A y \in t.under[d[i]] : y < x
  <2> DEFINE Q(p) == /\ t.first[p] = t.first[c]
                     /\ t.under[p] \subseteq t.under[c]
                     /\ \A x \in t.under[c] : x \in t.under[p] \/ \A y \in t.under[p] : y < x
             S == {i \in 1..h : Q(d[i])}
  <2>1. 1 \in S
    BY <1>0, <1>6
  <2>2. ASSUME NEW i \in 1..(h - 1), i \in S PROVE i + 1 \in S
    <3>1. d[i] \in T /\ lvl[d[i]] # 1 /\ i + 1 \in 1..h /\ d[i + 1] = step[d[i]] /\ Q(d[i])
      BY <1>0, <1>6, <2>2
    <3> DEFINE p == d[i]
               q == d[i + 1]
    <3>2. NodeOK(pg, t, p) /\ ~pg[p].leaf /\ Size(pg, p) >= 1 /\ q = pg[p].items[1]
      BY <1>1, <1>3, <3>1
    <3> HIDE DEF p, q
    <3>3. /\ t.first[p] = t.first[q]
          /\ t.under[q] \subseteq t.under[p]
          /\ \A x \in t.under[p] : x \in t.under[q] \/ \A y \in t.under[q] : y < x
      BY <3>2, FirstChildMin
    <3>4. Q(q)
      <4>1. Q(p)
        BY <3>1 DEF p
      <4> QED BY <3>3, <4>1
    <3> HIDE DEF Q
    <3> QED BY <3>1, <3>4 DEF q
  <2>3. \A i \in 1..h : i \in S
    <3> HIDE DEF S
    <3> QED BY <2>1, <2>2, <1>0, PathInduction
  <2> QED BY <2>3
<1>8. PICK p : p = Last(d)
  OBVIOUS
<1>9. /\ p \in T /\ lvl[p] = 1 /\ t.first[p] = t.first[c] /\ t.under[p] \subseteq t.under[c]
      /\ \A x \in t.under[c] : x \in t.under[p] \/ \A y \in t.under[p] : y < x
  BY <1>0, <1>6, <1>7, <1>8
<1>10. NodeOK(pg, t, p) /\ pg[p].leaf /\ pgx[p] = pg[p] /\ t.under[p] # {} /\ t.first[p] = p
  <2>1. NodeOK(pg, t, p) /\ pgx[p] = pg[p] /\ t.under[p] # {}
    BY <1>1, <1>9
  <2> QED BY <2>1, <1>9 DEF NodeOK, lvl
<1>11. PICK m : m = pg[p].items[1].key
  OBVIOUS
<1>12. m \in t.under[p] /\ \A x \in t.under[p] : m <= x
  BY <1>10, <1>11, LeafMin
<1>13. m \in t.under[c] /\ \A x \in t.under[c] : m <= x
  <2>1. t.under[c] \subseteq Int
    BY <1>a DEF NodeOK, KeysAssumption
  <2>2. ASSUME NEW x \in t.under[c] PROVE m <= x
    <3>1. CASE x \in t.under[p]
      BY <1>12, <3>1
    <3>2. CASE x \notin t.under[p]
      <4>1. m < x /\ m \in Int /\ x \in Int
        BY <1>9, <1>12, <2>1, <3>2
      <4> QED BY <4>1
    <3> QED BY <3>1, <3>2
  <2> QED BY <1>9, <1>12, <2>2
<1>14. SubtreeMin(pgx, c) = m
  BY <1>8, <1>10, <1>11 DEF SubtreeMin, d, step
<1>15. Last(Descent(pgx, TowardFirst(pgx), c)) = t.first[c]
  BY <1>8, <1>9, <1>10 DEF d, step
<1> QED BY <1>13, <1>14, <1>15

\* The separators of page p stand between its children.
Keyed(pg, t, p) ==
    /\ pg[p].keys \in Seq(Keys) /\ Len(pg[p].keys) = Size(pg, p) - 1
    /\ \A i \in 1..(Size(pg, p) - 1) :
           /\ \A x \in t.under[pg[p].items[i]] : x < pg[p].keys[i]
           /\ \A x \in t.under[pg[p].items[i + 1]] : pg[p].keys[i] <= x

\* A tree that find_leaf can be asked about.
Searchable(pg, root, t) ==
    /\ Tree(pg, root, t)
    /\ Len(pg) \in Nat /\ t.level[root] <= Len(pg)
    /\ \A p \in t.nodes :
           /\ t.under[p] # {} /\ Size(pg, p) >= 1
           /\ ~pg[p].leaf => Keyed(pg, t, p)

\* Entry c of page p is the one for key k.
IsWayTo(pg, t, p, k, c) ==
    /\ c \in 1..Size(pg, p)
    /\ k \in t.under[p] <=> k \in t.under[pg[p].items[c]]
    /\ \A i \in 1..Size(pg, p) : i < c => \A x \in t.under[pg[p].items[i]] : x < k
    /\ \A i \in 1..Size(pg, p) : c < i => \A x \in t.under[pg[p].items[i]] : k < x

\* child_index_for_key chooses that entry.
LEMMA ChildIndexIsWay ==
    ASSUME KeysAssumption, NEW pg, NEW t, NEW p, NodeOK(pg, t, p), ~pg[p].leaf, Keyed(pg, t, p),
           Size(pg, p) >= 1, \A i \in 1..Size(pg, p) : t.under[pg[p].items[i]] # {},
           NEW k \in Keys
    PROVE  IsWayTo(pg, t, p, k, ChildIndex(pg[p], k))
<1> DEFINE c == ChildIndex(pg[p], k)
           keys == pg[p].keys
           n == Size(pg, p)
           u(i) == t.under[pg[p].items[i]]
<1>0. InternalShape(pg, t, p)
  BY InternalFacts
<1>1. /\ n \in Nat /\ n >= 1 /\ t.under[p] \subseteq Keys
      /\ \A i \in 1..n : u(i) \subseteq t.under[p] /\ u(i) # {}
      /\ \A x \in t.under[p] : \E i \in 1..n : x \in u(i)
      /\ \A i, j \in 1..n : i < j => \A x \in u(i), y \in u(j) : x < y
  BY <1>0 DEF InternalShape
<1>2. /\ keys \in Seq(Int) /\ Len(keys) = n - 1 /\ k \in Int /\ Keys \subseteq Int
      /\ \A i \in 1..(n - 1) : keys[i] \in Int
  <2>1. keys \in Seq(Keys) /\ Len(keys) = n - 1 /\ k \in Int /\ Keys \subseteq Int
    BY DEF Keyed, KeysAssumption
  <2>2. keys \in Seq(Int)
    <3>1. keys \in [1..Len(keys) -> Keys] /\ Len(keys) \in Nat
      BY <2>1, LenProperties
    <3>2. keys \in [1..Len(keys) -> Int]
      BY <2>1, <3>1
    <3> QED BY <3>1, <3>2, SeqDef
  <2> QED BY <2>1, <2>2, ElementOfSeq
<1>3. /\ c \in 1..(Len(keys) + 1)
      /\ \A j \in 1..(c - 1) : keys[j] <= k
      /\ c <= Len(keys) => k < keys[c]
  BY <1>2, ChildIndexProperties
<1>4. \A i \in 1..(n - 1) : /\ \A x \in u(i) : x < keys[i]
                            /\ \A x \in u(i + 1) : keys[i] <= x
  BY DEF Keyed
<1> HIDE DEF c, keys, n, u
<1>5. c \in 1..n /\ c \in Nat
  BY <1>1, <1>2, <1>3
<1>6. ASSUME NEW i \in 1..n, i < c, NEW x \in u(i) PROVE x < k
  <2>1. i \in 1..(c - 1) /\ i \in 1..(n - 1)
    BY <1>1, <1>5, <1>6
  <2>2. keys[i] <= k /\ x < keys[i]
    BY <1>3, <1>4, <2>1
  <2>3. x \in Int /\ keys[i] \in Int
    BY <1>1, <1>2, <2>1
  <2> QED BY <1>2, <2>2, <2>3
<1>7. ASSUME NEW i \in 1..n, c < i, NEW x \in u(i) PROVE k < x
  <2>1. c \in 1..(n - 1) /\ c + 1 \in 1..n /\ (i = c + 1 \/ c + 1 < i)
    BY <1>1, <1>5, <1>7
  <2>2. k < keys[c]
    BY <1>2, <1>3, <2>1
  <2>3. PICK y \in u(c + 1) : y = x \/ y < x
    BY <1>1, <2>1
  <2>4. keys[c] <= y
    BY <1>4, <2>1
  <2>5. x \in Int /\ y \in Int /\ keys[c] \in Int
    BY <1>1, <1>2, <2>1
  <2> QED BY <1>2, <2>2, <2>3, <2>4, <2>5
<1>8. k \in t.under[p] <=> k \in u(c)
  <2>1. ASSUME k \in t.under[p] PROVE k \in u(c)
    <3>1. PICK i \in 1..n : k \in u(i)
      BY <1>1, <2>1
    <3>2. ~(i < c) /\ ~(c < i)
      BY <1>2, <1>6, <1>7, <3>1
    <3>3. i = c
      BY <1>1, <1>5, <3>2
    <3> QED BY <3>1, <3>3
  <2> QED BY <1>1, <1>5, <2>1
<1> QED BY <1>5, <1>6, <1>7, <1>8 DEF IsWayTo, c, n, u

\* d is the way of find_leaf from the root to the leaf where k belongs.
IsPath(pg, root, t, k, d) ==
    /\ IsDescent(d, TowardKey(pg, k), t.nodes, t.level, root)
    /\ \A i \in 1..t.level[root] : d[i] \in t.nodes /\ (k \in t.under[d[i]] <=> k \in t.under[root])
    /\ \A i \in 1..(t.level[root] - 1) :
           /\ ~pg[d[i]].leaf
           /\ IsWayTo(pg, t, d[i], k, ChildIndex(pg[d[i]], k))
           /\ d[i + 1] = pg[d[i]].items[ChildIndex(pg[d[i]], k)]
    /\ Last(d) \in t.nodes /\ pg[Last(d)].leaf

\* find_leaf.
LEMMA PathProperties ==
    ASSUME KeysAssumption, NEW pg, NEW root, NEW t, Searchable(pg, root, t), NEW k \in Keys,
           NEW d, d = Descent(pg, TowardKey(pg, k), root)
    PROVE  IsPath(pg, root, t, k, d)
<1> DEFINE step == TowardKey(pg, k)
           T == t.nodes
           lvl == t.level
           h == lvl[root]
<1>1. /\ root \in T /\ T \subseteq DOMAIN pg /\ Len(pg) \in Nat /\ h <= Len(pg)
      /\ \A p \in T : NodeOK(pg, t, p) /\ t.under[p] # {} /\ Size(pg, p) >= 1 /\ (~pg[p].leaf => Keyed(pg, t, p))
  BY DEF Searchable, Tree
<1>2. ASSUME NEW p \in T, ~pg[p].leaf
      PROVE  /\ IsWayTo(pg, t, p, k, ChildIndex(pg[p], k))
             /\ step[p] = pg[p].items[ChildIndex(pg[p], k)]
             /\ step[p] \in T /\ lvl[step[p]] = lvl[p] - 1
  <2>0. InternalShape(pg, t, p)
    BY <1>1, <1>2, InternalFacts
  <2>1. \A i \in 1..Size(pg, p) : t.under[pg[p].items[i]] # {}
    BY <1>1, <2>0 DEF InternalShape
  <2>2. IsWayTo(pg, t, p, k, ChildIndex(pg[p], k))
    BY <1>1, <1>2, <2>1, ChildIndexIsWay
  <2>3. step[p] = pg[p].items[ChildIndex(pg[p], k)]
    BY <1>1, <1>2 DEF TowardKey
  <2>4. ChildIndex(pg[p], k) \in 1..Size(pg, p)
    BY <2>2 DEF IsWayTo
  <2> QED BY <2>0, <2>2, <2>3, <2>4 DEF InternalShape
<1>3. StepsDown(pg, step, T, lvl)
  <2>1. \A p \in T : lvl[p] \in Nat \ {0} /\ (pg[p].leaf <=> lvl[p] = 1)
    BY <1>1 DEF NodeOK
  <2> HIDE DEF step
  <2> QED BY <1>2, <2>1 DEF StepsDown
<1>4. h \in Nat \ {0}
  BY <1>1, <1>3 DEF StepsDown
<1>d. d = Descent(pg, step, root)
  OBVIOUS
<1> HIDE DEF step, T, lvl, h
<1>5. IsDescent(d, step, T, lvl, root)
  <2>1. h = lvl[root]
    BY DEF h
  <2> QED BY <1>1, <1>3, <1>d, <2>1, DescentProperties
<1>6. /\ d[1] = root /\ Last(d) = d[h]
      /\ \A i \in 1..h : d[i] \in T /\ lvl[d[i]] = h + 1 - i
      /\ \A i \in 1..(h - 1) : d[i + 1] = step[d[i]]
  BY <1>5 DEF IsDescent, h
<1>7. ASSUME NEW i \in 1..(h - 1)
      PROVE  /\ d[i] \in T /\ ~pg[d[i]].leaf
             /\ IsWayTo(pg, t, d[i], k, ChildIndex(pg[d[i]], k))
             /\ d[i + 1] = pg[d[i]].items[ChildIndex(pg[d[i]], k)]
  <2>1. d[i] \in T /\ lvl[d[i]] # 1 /\ d[i + 1] = step[d[i]]
    BY <1>4, <1>6
  <2>2. ~pg[d[i]].leaf
    BY <1>3, <2>1 DEF StepsDown
  <2> QED BY <1>2, <2>1, <2>2
<1>8. \A i \in 1..h : k \in t.under[d[i]] <=> k \in t.under[root]
  <2> DEFINE S == {i \in 1..h : k \in t.under[d[i]] <=> k \in t.under[root]}
  <2>1. 1 \in S
    BY <1>4, <1>6
  <2>2. ASSUME NEW i \in 1..(h - 1), i \in S PROVE i + 1 \in S
    <3>1. k \in t.under[d[i]] <=> k \in t.under[d[i + 1]]
      BY <1>7 DEF IsWayTo
    <3> QED BY <1>4, <2>2, <3>1
  <2>3. \A i \in 1..h : i \in S
    <3> HIDE DEF S
    <3> QED BY <1>4, <2>1, <2>2, PathInduction
  <2> QED BY <2>3
<1>9. Last(d) \in T /\ pg[Last(d)].leaf
  <2>1. Last(d) \in T /\ lvl[Last(d)] = 1
    BY <1>4, <1>6
  <2> QED BY <1>3, <2>1 DEF StepsDown
<1> QED BY <1>5, <1>6, <1>7, <1>8, <1>9 DEF IsPath, step, T, lvl, h

\* find, of a tree in the file.
LEMMA FindProperties ==
    ASSUME KeysAssumption, NEW t, ~IsEmpty, Searchable(pages, meta.root, t), NEW k \in Keys
    PROVE  Find(k) = IF k \in t.under[meta.root] THEN {Record[k]} ELSE {}
<1>1. PICK d : d = Descent(pages, TowardKey(pages, k), meta.root)
  OBVIOUS
<1>2. IsPath(pages, meta.root, t, k, d)
  BY <1>1, PathProperties
<1>3. PICK p : p = Last(d)
  OBVIOUS
<1>4. p \in t.nodes /\ pages[p].leaf /\ (k \in t.under[p] <=> k \in t.under[meta.root])
  <2>1. t.level[meta.root] \in 1..t.level[meta.root] /\ Last(d) = d[t.level[meta.root]]
    <3>1. NodeOK(pages, t, meta.root)
      BY DEF Searchable, Tree
    <3> QED BY <1>2, <3>1 DEF IsPath, IsDescent, NodeOK
  <2> QED BY <1>2, <1>3, <2>1 DEF IsPath
<1>5. LeafShape(pages, t, p)
  <2>1. NodeOK(pages, t, p)
    BY <1>4 DEF Searchable, Tree
  <2> QED BY <1>4, <2>1, LeafFacts
<1> DEFINE items == pages[p].items
<1>6. Find(k) = {it.rec : it \in {i \in ToSet(items) : i.key = k}}
  BY <1>1, <1>3 DEF Find, LeafOf, Path
<1>7. /\ ToSet(items) = {items[i] : i \in 1..Size(pages, p)}
      /\ \A i \in 1..Size(pages, p) : items[i] = Item(items[i].key) /\ items[i].key \in t.under[p]
      /\ \A x \in t.under[p] : \E i \in 1..Size(pages, p) : items[i].key = x
  BY <1>5 DEF LeafShape, ToSet
<1> HIDE DEF items
<1>8. CASE k \in t.under[meta.root]
  <2>1. PICK i \in 1..Size(pages, p) : items[i].key = k
    BY <1>4, <1>7, <1>8
  <2>2. items[i] = Item(k) /\ Item(k).key = k /\ Item(k).rec = Record[k] /\ Item(k) \in ToSet(items)
    BY <1>7, <2>1 DEF Item
  <2>3. {x \in ToSet(items) : x.key = k} = {Item(k)}
    BY <1>7, <2>2
  <2> QED BY <1>6, <1>8, <2>2, <2>3
<1>9. CASE k \notin t.under[meta.root]
  <2>1. {x \in ToSet(items) : x.key = k} = {}
    BY <1>4, <1>7, <1>9
  <2> QED BY <1>6, <1>9, <2>1
<1> QED BY <1>8, <1>9

\* e is what a sequence s and a sequence u hold together.
IsJoin(s, u, e) ==
    /\ Len(s) \in Nat /\ Len(u) \in Nat /\ Len(e) = Len(s) + Len(u)
    /\ \A i \in 1..Len(s) : s[i] = e[i]
    /\ \A i \in 1..Len(u) : u[i] = e[Len(s) + i]

\* What a leaf or an internal node may hold.
ItemsOK(leaf, items) ==
    /\ leaf => items \in Seq({Item(k) : k \in Keys})
    /\ ~leaf => items \in Seq(Nat)

\* nt has the pages of t at the levels of t, and the same keys under all but
\* l and r, the same first leaf under all but r.
IsLike(t, nt, l, r) ==
    /\ nt.nodes = t.nodes /\ nt.level = t.level
    /\ \A p \in t.nodes \ {l, r} : nt.under[p] = t.under[p]
    /\ \A p \in t.nodes \ {r} : nt.first[p] = t.first[p]

\* Pages l and r are neighbours under page P.
AreSiblings(pg, t, P, j, l, r) ==
    /\ P \in t.nodes /\ ~pg[P].leaf
    /\ j \in 1..(Size(pg, P) - 1)
    /\ l = pg[P].items[j] /\ r = pg[P].items[j + 1]

\* What entry i of e stands for.
EntryKeys(leaf, t, e, i) == IF leaf THEN {e[i].key} ELSE t.under[e[i]]

\* The entries of two siblings, one after the other.
IsRow(leaf, t, l, r, e) ==
    /\ Len(e) \in Nat
    /\ \A i \in 1..Len(e) : EntryKeys(leaf, t, e, i) \subseteq Keys
    /\ \A i, j \in 1..Len(e) : i < j =>
           \A x \in EntryKeys(leaf, t, e, i), y \in EntryKeys(leaf, t, e, j) : x < y
    /\ \A k : k \in t.under[l] \cup t.under[r] <=> \E i \in 1..Len(e) : k \in EntryKeys(leaf, t, e, i)
    /\ ~leaf => /\ \A i \in 1..Len(e) : /\ e[i] \in t.nodes /\ t.level[e[i]] = t.level[l] - 1
                                        /\ t.parent[e[i]] \in {l, r}
                /\ \A i, j \in 1..Len(e) : e[i] = e[j] => i = j
                /\ \A p \in {l, r} : t.level[p] \in Nat

\* What two siblings are to each other.
SiblingShape(pg, t, P, l, r) ==
    /\ l \in t.nodes /\ r \in t.nodes /\ l # r /\ P \notin {l, r}
    /\ t.level[l] = t.level[P] - 1 /\ t.level[r] = t.level[P] - 1
    /\ t.parent[l] = P /\ t.parent[r] = P
    /\ pg[l].leaf = pg[r].leaf /\ pg[l].leaf \in BOOLEAN
    /\ \A x \in t.under[l], y \in t.under[r] : x < y
    /\ t.level[l] \in Nat \ {0} /\ t.level[P] \in Nat

\* Two siblings have this shape.
LEMMA SiblingFacts ==
    ASSUME NEW pg, NEW t, NEW P, NEW j, NEW l, NEW r, AreSiblings(pg, t, P, j, l, r),
           \A p \in t.nodes : NodeOK(pg, t, p)
    PROVE  SiblingShape(pg, t, P, l, r)
<1>1. InternalShape(pg, t, P) /\ P \in t.nodes
  BY InternalFacts DEF AreSiblings
<1>2. j \in 1..Size(pg, P) /\ j + 1 \in 1..Size(pg, P) /\ j < j + 1 /\ Size(pg, P) \in Nat
  BY <1>1 DEF AreSiblings, InternalShape
<1>3. l = pg[P].items[j] /\ r = pg[P].items[j + 1]
  BY DEF AreSiblings
<1>4. /\ l \in t.nodes /\ r \in t.nodes
      /\ t.level[l] = t.level[P] - 1 /\ t.level[r] = t.level[P] - 1
      /\ t.parent[l] = P /\ t.parent[r] = P
      /\ t.level[P] \in Nat
  BY <1>1, <1>2, <1>3 DEF InternalShape
<1>5. l # r
  BY <1>1, <1>2, <1>3 DEF InternalShape
<1>6. \A x \in t.under[l], y \in t.under[r] : x < y
  BY <1>1, <1>2, <1>3 DEF InternalShape
<1>7. pg[l].leaf = pg[r].leaf /\ pg[l].leaf \in BOOLEAN /\ t.level[l] \in Nat \ {0}
  <2>1. /\ t.level[l] \in Nat \ {0} /\ pg[l].leaf \in BOOLEAN /\ (pg[l].leaf <=> t.level[l] = 1)
        /\ pg[r].leaf \in BOOLEAN /\ (pg[r].leaf <=> t.level[r] = 1)
    BY <1>4 DEF NodeOK
  <2> QED BY <1>4, <2>1
<1> QED BY <1>1, <1>4, <1>5, <1>6, <1>7 DEF SiblingShape

\* What two siblings hold, one after the other, is in order.
LEMMA SiblingsRow ==
    ASSUME NEW pg, NEW t, NEW P, NEW j, NEW l, NEW r, AreSiblings(pg, t, P, j, l, r),
           \A p \in t.nodes : NodeOK(pg, t, p), NEW e, IsJoin(pg[l].items, pg[r].items, e)
    PROVE  IsRow(pg[l].leaf, t, l, r, e)
<1> DEFINE a == Size(pg, l)
           b == Size(pg, r)
           leaf == pg[l].leaf
<1>1. /\ l \in t.nodes /\ r \in t.nodes /\ l # r /\ t.level[l] = t.level[r]
      /\ pg[r].leaf = leaf /\ leaf \in BOOLEAN
      /\ \A x \in t.under[l], y \in t.under[r] : x < y
      /\ t.level[l] \in Nat
  <2>1. SiblingShape(pg, t, P, l, r)
    BY SiblingFacts
  <2> QED BY <2>1 DEF SiblingShape
<1>2. NodeOK(pg, t, l) /\ NodeOK(pg, t, r)
  BY <1>1
<1>3. /\ a \in Nat /\ b \in Nat /\ Len(e) = a + b /\ Len(e) \in Nat
      /\ \A i \in 1..a : pg[l].items[i] = e[i]
      /\ \A i \in 1..b : pg[r].items[i] = e[a + i]
  <2>1. /\ a \in Nat /\ b \in Nat /\ Len(e) = a + b
        /\ \A i \in 1..a : pg[l].items[i] = e[i]
        /\ \A i \in 1..b : pg[r].items[i] = e[a + i]
    BY Zenon DEF IsJoin, Size
  <2> HIDE DEF a, b
  <2> QED BY <2>1
<1>4. /\ \A i \in 1..a : Part(pg, t, l, i) = EntryKeys(leaf, t, e, i)
      /\ \A i \in 1..b : Part(pg, t, r, i) = EntryKeys(leaf, t, e, a + i)
  <2>1. \A i \in 1..a : Part(pg, t, l, i) = EntryKeys(leaf, t, e, i)
    BY <1>3 DEF Part, EntryKeys
  <2>2. \A i \in 1..b : Part(pg, t, r, i) = EntryKeys(leaf, t, e, a + i)
    <3> SUFFICES ASSUME NEW i \in 1..b PROVE Part(pg, t, r, i) = EntryKeys(leaf, t, e, a + i)
      OBVIOUS
    <3>1. pg[r].items[i] = e[a + i]
      BY <1>3
    <3>2. Part(pg, t, r, i) = IF leaf THEN {e[a + i].key} ELSE t.under[e[a + i]]
      BY <1>1, <3>1 DEF Part
    <3> QED BY <3>2 DEF EntryKeys
  <2> QED BY <2>1, <2>2
<1> HIDE DEF a, b, leaf
<1>5. ASSUME NEW i \in 1..Len(e)
      PROVE  \/ i \in 1..a /\ EntryKeys(leaf, t, e, i) = Part(pg, t, l, i) /\ e[i] = pg[l].items[i]
             \/ i - a \in 1..b /\ EntryKeys(leaf, t, e, i) = Part(pg, t, r, i - a) /\ e[i] = pg[r].items[i - a]
  <2>1. CASE i <= a
    BY <1>3, <1>4, <2>1
  <2>2. CASE ~(i <= a)
    <3>1. i - a \in 1..b /\ a + (i - a) = i
      BY <1>3, <2>2
    <3> QED BY <1>3, <1>4, <3>1
  <2> QED BY <2>1, <2>2
<1>6. /\ \A i \in 1..a : Part(pg, t, l, i) \subseteq t.under[l]
      /\ \A i \in 1..b : Part(pg, t, r, i) \subseteq t.under[r]
      /\ \A k \in t.under[l] : \E i \in 1..a : k \in Part(pg, t, l, i)
      /\ \A k \in t.under[r] : \E i \in 1..b : k \in Part(pg, t, r, i)
      /\ t.under[l] \subseteq Keys /\ t.under[r] \subseteq Keys
  BY <1>2 DEF NodeOK, a, b
<1>7. /\ \A i, m \in 1..a : i < m => \A x \in Part(pg, t, l, i), y \in Part(pg, t, l, m) : x < y
      /\ \A i, m \in 1..b : i < m => \A x \in Part(pg, t, r, i), y \in Part(pg, t, r, m) : x < y
  BY <1>2 DEF NodeOK, a, b
<1>8. \A i \in 1..Len(e) : EntryKeys(leaf, t, e, i) \subseteq Keys
  BY <1>5, <1>6
<1>9. ASSUME NEW i \in 1..Len(e), NEW m \in 1..Len(e), i < m,
             NEW x \in EntryKeys(leaf, t, e, i), NEW y \in EntryKeys(leaf, t, e, m)
      PROVE  x < y
  <2>1. CASE i \in 1..a /\ m \in 1..a
    <3>1. EntryKeys(leaf, t, e, i) = Part(pg, t, l, i) /\ EntryKeys(leaf, t, e, m) = Part(pg, t, l, m)
      BY <1>4, <2>1
    <3> QED BY <1>7, <1>9, <2>1, <3>1
  <2>2. CASE i \notin 1..a /\ m \notin 1..a
    <3>1. /\ EntryKeys(leaf, t, e, i) = Part(pg, t, r, i - a) /\ EntryKeys(leaf, t, e, m) = Part(pg, t, r, m - a)
          /\ i - a \in 1..b /\ m - a \in 1..b /\ i - a < m - a
      BY <1>3, <1>5, <1>9, <2>2
    <3> QED BY <1>7, <1>9, <3>1
  <2>3. CASE i \in 1..a /\ m \notin 1..a
    <3>1. x \in t.under[l] /\ y \in t.under[r]
      BY <1>4, <1>5, <1>6, <1>9, <2>3
    <3> QED BY <1>1, <3>1
  <2>4. ~(i \notin 1..a /\ m \in 1..a)
    BY <1>3, <1>9
  <2> QED BY <2>1, <2>2, <2>3, <2>4
<1>10. ASSUME NEW k
       PROVE  k \in t.under[l] \cup t.under[r] <=> \E i \in 1..Len(e) : k \in EntryKeys(leaf, t, e, i)
  <2>1. ASSUME k \in t.under[l] PROVE \E i \in 1..Len(e) : k \in EntryKeys(leaf, t, e, i)
    <3>1. PICK i \in 1..a : k \in Part(pg, t, l, i)
      BY <1>6, <2>1
    <3>2. i \in 1..Len(e)
      BY <1>3
    <3> QED BY <1>4, <3>1, <3>2
  <2>2. ASSUME k \in t.under[r] PROVE \E i \in 1..Len(e) : k \in EntryKeys(leaf, t, e, i)
    <3>1. PICK i \in 1..b : k \in Part(pg, t, r, i)
      BY <1>6, <2>2
    <3>2. a + i \in 1..Len(e)
      BY <1>3
    <3> QED BY <1>4, <3>1, <3>2
  <2>3. ASSUME NEW i \in 1..Len(e), k \in EntryKeys(leaf, t, e, i) PROVE k \in t.under[l] \cup t.under[r]
    BY <1>5, <1>6, <2>3
  <2> QED BY <2>1, <2>2, <2>3
<1>11. ASSUME ~leaf
       PROVE  /\ \A i \in 1..Len(e) : /\ e[i] \in t.nodes /\ t.level[e[i]] = t.level[l] - 1
                                      /\ t.parent[e[i]] \in {l, r}
              /\ \A i, m \in 1..Len(e) : e[i] = e[m] => i = m
  <2>1. InternalShape(pg, t, l) /\ InternalShape(pg, t, r)
    BY <1>1, <1>2, <1>11, InternalFacts DEF leaf
  <2>2. /\ \A i \in 1..a : /\ pg[l].items[i] \in t.nodes /\ t.level[pg[l].items[i]] = t.level[l] - 1
                           /\ t.parent[pg[l].items[i]] = l
        /\ \A i \in 1..b : /\ pg[r].items[i] \in t.nodes /\ t.level[pg[r].items[i]] = t.level[l] - 1
                           /\ t.parent[pg[r].items[i]] = r
        /\ \A i, m \in 1..a : pg[l].items[i] = pg[l].items[m] => i = m
        /\ \A i, m \in 1..b : pg[r].items[i] = pg[r].items[m] => i = m
    BY <1>1, <2>1 DEF InternalShape, a, b
  <2>3. ASSUME NEW i \in 1..Len(e)
        PROVE  e[i] \in t.nodes /\ t.level[e[i]] = t.level[l] - 1 /\ t.parent[e[i]] = (IF i \in 1..a THEN l ELSE r)
    <3>1. CASE i \in 1..a
      BY <1>3, <2>2, <3>1
    <3>2. CASE i \notin 1..a
      <4>1. i - a \in 1..b /\ e[i] = pg[r].items[i - a]
        BY <1>5, <3>2
      <4> QED BY <2>2, <3>2, <4>1
    <3> QED BY <3>1, <3>2
  <2>4. ASSUME NEW i \in 1..Len(e), NEW m \in 1..Len(e), e[i] = e[m] PROVE i = m
    <3>1. i \in 1..a <=> m \in 1..a
      BY <1>1, <2>3, <2>4
    <3>2. CASE i \in 1..a
      <4>1. m \in 1..a /\ pg[l].items[i] = pg[l].items[m]
        BY <1>3, <2>4, <3>1, <3>2
      <4> QED BY <2>2, <3>2, <4>1
    <3>3. CASE i \notin 1..a
      <4>1. /\ i - a \in 1..b /\ m - a \in 1..b
            /\ pg[r].items[i - a] = pg[r].items[m - a]
        BY <1>5, <2>4, <3>1, <3>3
      <4>2. i - a = m - a
        BY <2>2, <4>1
      <4> QED BY <1>3, <4>2
    <3> QED BY <3>2, <3>3
  <2> QED BY <2>3, <2>4
<1> QED BY <1>1, <1>3, <1>8, <1>9, <1>10, <1>11 DEF IsRow, leaf

\* The pages of S are of the same kind and hold the same in both files.
SameItems(pg, npg, S) == \A p \in S : npg[p].leaf = pg[p].leaf /\ npg[p].items = pg[p].items

\* Pages l and r share out the entries of e between them.
ShareOut(npg, l, r, leaf, e) ==
    /\ npg[l].leaf = leaf /\ npg[r].leaf = leaf
    /\ ItemsOK(leaf, npg[l].items) /\ ItemsOK(leaf, npg[r].items)
    /\ IsJoin(npg[l].items, npg[r].items, e)

\* What two siblings hold may be shared out between them in any other way.
LEMMA MoveItems ==
    ASSUME NEW pg, NEW root, NEW t, Tree(pg, root, t),
           NEW P, NEW j, NEW l, NEW r, AreSiblings(pg, t, P, j, l, r),
           NEW e, IsJoin(pg[l].items, pg[r].items, e),
           NEW npg, t.nodes \subseteq DOMAIN npg, SameItems(pg, npg, t.nodes \ {l, r}),
           ShareOut(npg, l, r, pg[l].leaf, e),
           ~pg[l].leaf => Size(pg, l) >= 1 /\ Size(npg, l) >= 1
    PROVE  \E nt : Tree(npg, root, nt) /\ IsLike(t, nt, l, r)
<1> DEFINE leaf == pg[l].leaf
           W(i) == EntryKeys(leaf, t, e, i)
           a == Len(npg[l].items)
           b == Len(npg[r].items)
           n == Len(e)
           OfL(p) == ~leaf /\ \E i \in 1..n : i <= a /\ e[i] = p
           OfR(p) == ~leaf /\ \E i \in 1..n : a < i /\ e[i] = p
           parent == [p \in t.nodes |-> IF OfL(p) THEN l ELSE IF OfR(p) THEN r ELSE t.parent[p]]
           under == [p \in t.nodes |-> IF p = l THEN {k \in Keys : \E i \in 1..n : i <= a /\ k \in W(i)}
                                       ELSE IF p = r THEN {k \in Keys : \E i \in 1..n : a < i /\ k \in W(i)}
                                       ELSE t.under[p]]
           first == [p \in t.nodes |-> IF p = r /\ ~leaf /\ b >= 1 THEN t.first[npg[r].items[1]] ELSE t.first[p]]
<1>0. /\ root \in t.nodes /\ t.parent[root] = None /\ None \notin t.nodes
      /\ \A p \in t.nodes : NodeOK(pg, t, p)
  BY DEF Tree
<1>1. /\ P \in t.nodes /\ l \in t.nodes /\ r \in t.nodes /\ l # r /\ P \notin {l, r}
      /\ t.level[l] = t.level[P] - 1 /\ t.level[r] = t.level[l] /\ t.level[l] \in Nat \ {0}
      /\ t.parent[l] = P /\ t.parent[r] = P /\ ~pg[P].leaf
      /\ pg[r].leaf = leaf /\ leaf \in BOOLEAN
  <2>1. P \in t.nodes /\ ~pg[P].leaf
    BY DEF AreSiblings
  <2>2. SiblingShape(pg, t, P, l, r)
    BY <1>0, SiblingFacts
  <2> QED BY <2>1, <2>2 DEF SiblingShape
<1>2. IsRow(leaf, t, l, r, e)
  BY <1>0, SiblingsRow
<1>3. PICK nt : nt = [nodes |-> t.nodes, level |-> t.level, parent |-> parent, under |-> under, first |-> first]
  OBVIOUS
<1>4. nt.nodes = t.nodes /\ nt.level = t.level /\ nt.parent = parent /\ nt.under = under /\ nt.first = first
  BY <1>3
<1>5. /\ a \in Nat /\ b \in Nat /\ n = a + b
      /\ \A i \in 1..a : npg[l].items[i] = e[i] /\ i \in 1..n
      /\ \A i \in 1..b : npg[r].items[i] = e[a + i] /\ a + i \in 1..n /\ a < a + i
  <2>1. /\ a \in Nat /\ b \in Nat /\ n = a + b
        /\ \A i \in 1..a : npg[l].items[i] = e[i]
        /\ \A i \in 1..b : npg[r].items[i] = e[a + i]
    BY Zenon DEF ShareOut, IsJoin
  <2> HIDE DEF a, b, n
  <2> QED BY <2>1
<1>6. npg[l].leaf = leaf /\ npg[r].leaf = leaf /\ ItemsOK(leaf, npg[l].items) /\ ItemsOK(leaf, npg[r].items)
  BY DEF ShareOut
<1>7. /\ nt.under[l] = {k \in Keys : \E i \in 1..n : i <= a /\ k \in W(i)}
      /\ nt.under[r] = {k \in Keys : \E i \in 1..n : a < i /\ k \in W(i)}
      /\ \A p \in t.nodes \ {l, r} : nt.under[p] = t.under[p]
  BY <1>1, <1>4
<1>8. /\ \A p \in t.nodes : ~OfL(p) /\ ~OfR(p) => nt.parent[p] = t.parent[p]
      /\ \A p \in t.nodes : OfL(p) => nt.parent[p] = l
      /\ \A p \in t.nodes : ~OfL(p) /\ OfR(p) => nt.parent[p] = r
  BY <1>4
<1>9. \A p \in t.nodes : p # r => nt.first[p] = t.first[p]
  BY <1>4
<1>10. leaf => nt.first[r] = t.first[r]
  BY <1>1, <1>4
<1>11. ~leaf /\ b >= 1 => nt.first[r] = t.first[npg[r].items[1]]
  BY <1>1, <1>4
<1> HIDE DEF parent, under, first, leaf, a, b, n
<1>12. /\ \A i \in 1..n : W(i) \subseteq Keys
       /\ \A i, m \in 1..n : i < m => \A x \in W(i), y \in W(m) : x < y
       /\ \A k : k \in t.under[l] \cup t.under[r] <=> \E i \in 1..n : k \in W(i)
  BY <1>2 DEF IsRow, n
<1>13. ASSUME ~leaf
       PROVE  /\ \A i \in 1..n : /\ e[i] \in t.nodes /\ t.level[e[i]] = t.level[l] - 1
                                 /\ t.parent[e[i]] \in {l, r} /\ e[i] \notin {l, r}
              /\ \A i, m \in 1..n : e[i] = e[m] => i = m
  BY <1>1, <1>2, <1>13 DEF IsRow, n
<1>14. \A p \in t.nodes : OfL(p) \/ OfR(p) => t.parent[p] \in {l, r} /\ t.level[p] = t.level[l] - 1
  BY <1>13
<1>15. \A i \in 1..n : W(i) = IF leaf THEN {e[i].key} ELSE nt.under[e[i]]
  <2> SUFFICES ASSUME NEW i \in 1..n PROVE W(i) = IF leaf THEN {e[i].key} ELSE nt.under[e[i]]
    OBVIOUS
  <2>1. CASE leaf
    BY <2>1 DEF EntryKeys
  <2>2. CASE ~leaf
    BY <1>7, <1>13, <2>2 DEF EntryKeys
  <2> QED BY <2>1, <2>2
<1> HIDE DEF W
<1>16. NodeOK(npg, nt, l)
  <2>1. nt.level[l] \in Nat \ {0} /\ npg[l].leaf \in BOOLEAN /\ (npg[l].leaf <=> nt.level[l] = 1)
    <3>1. NodeOK(pg, t, l)
      BY <1>0, <1>1
    <3> QED BY <1>1, <1>4, <1>6, <3>1 DEF NodeOK, leaf
  <2>2. npg[l].leaf => npg[l].items \in Seq({Item(k) : k \in Keys}) /\ nt.first[l] = l
    <3>1. NodeOK(pg, t, l)
      BY <1>0, <1>1
    <3> QED BY <1>1, <1>6, <1>9, <3>1 DEF NodeOK, leaf, ItemsOK
  <2>3. ASSUME ~npg[l].leaf
        PROVE  /\ npg[l].items \in Seq(Nat)
               /\ nt.first[l] = nt.first[npg[l].items[1]]
               /\ \A i \in 1..a : /\ npg[l].items[i] \in nt.nodes
                                  /\ nt.level[npg[l].items[i]] = nt.level[l] - 1
                                  /\ nt.parent[npg[l].items[i]] = l
               /\ \A i, m \in 1..a : npg[l].items[i] = npg[l].items[m] => i = m
    <3>1. npg[l].items \in Seq(Nat) /\ ~leaf
      BY <1>6, <2>3 DEF ItemsOK
    <3>2. \A i \in 1..a : /\ npg[l].items[i] \in nt.nodes
                          /\ nt.level[npg[l].items[i]] = nt.level[l] - 1
                          /\ nt.parent[npg[l].items[i]] = l
      <4> SUFFICES ASSUME NEW i \in 1..a
                   PROVE  e[i] \in nt.nodes /\ nt.level[e[i]] = nt.level[l] - 1 /\ nt.parent[e[i]] = l
        BY <1>5
      <4>1. i \in 1..n /\ i <= a
        BY <1>5
      <4>2. e[i] \in t.nodes /\ OfL(e[i])
        BY <1>13, <3>1, <4>1
      <4> QED BY <1>4, <1>8, <1>13, <3>1, <4>1, <4>2
    <3>3. \A i, m \in 1..a : npg[l].items[i] = npg[l].items[m] => i = m
      BY <1>5, <1>13, <3>1
    <3>4. nt.first[l] = nt.first[npg[l].items[1]]
      <4>1. a >= 1 /\ Size(pg, l) >= 1 /\ Size(pg, l) \in Nat /\ ~pg[l].leaf
        <5>1. IsJoin(pg[l].items, pg[r].items, e)
          OBVIOUS
        <5> QED BY <3>1, <5>1 DEF leaf, a, Size, IsJoin
      <4>2. npg[l].items[1] = e[1] /\ pg[l].items[1] = e[1] /\ e[1] \in t.nodes /\ e[1] # r
        <5>1. IsJoin(pg[l].items, pg[r].items, e)
          OBVIOUS
        <5>2. \A i \in 1..Size(pg, l) : pg[l].items[i] = e[i]
          BY <5>1 DEF IsJoin, Size
        <5>3. 1 \in 1..Size(pg, l) /\ 1 \in 1..a
          BY <1>5, <4>1
        <5> QED BY <1>5, <1>13, <3>1, <5>2, <5>3
      <4>3. t.first[l] = t.first[pg[l].items[1]]
        BY <1>0, <1>1, <4>1 DEF NodeOK
      <4> QED BY <1>1, <1>9, <4>2, <4>3
    <3> QED BY <3>1, <3>2, <3>3, <3>4
  <2>4. \A i \in 1..a : Part(npg, nt, l, i) = W(i)
    BY <1>5, <1>6, <1>15 DEF Part
  <2>5. nt.under[l] \subseteq Keys
    BY <1>7
  <2>6. \A k : k \in nt.under[l] <=> \E i \in 1..a : k \in Part(npg, nt, l, i)
    BY <1>5, <1>7, <1>12, <2>4
  <2>7. \A i, m \in 1..a : i < m => \A x \in Part(npg, nt, l, i), y \in Part(npg, nt, l, m) : x < y
    BY <1>5, <1>12, <2>4
  <2>8. Size(npg, l) = a
    BY DEF Size, a
  <2> QED BY <2>1, <2>2, <2>3, <2>5, <2>6, <2>7, <2>8 DEF NodeOK
<1>17. NodeOK(npg, nt, r)
  <2>1. nt.level[r] \in Nat \ {0} /\ npg[r].leaf \in BOOLEAN /\ (npg[r].leaf <=> nt.level[r] = 1)
    <3>1. NodeOK(pg, t, r)
      BY <1>0, <1>1
    <3> QED BY <1>1, <1>4, <1>6, <3>1 DEF NodeOK, leaf
  <2>2. npg[r].leaf => npg[r].items \in Seq({Item(k) : k \in Keys}) /\ nt.first[r] = r
    <3>1. NodeOK(pg, t, r)
      BY <1>0, <1>1
    <3> QED BY <1>1, <1>6, <1>10, <3>1 DEF NodeOK, leaf, ItemsOK
  <2>3. ASSUME ~npg[r].leaf
        PROVE  /\ npg[r].items \in Seq(Nat)
               /\ b >= 1 => nt.first[r] = nt.first[npg[r].items[1]]
               /\ \A i \in 1..b : /\ npg[r].items[i] \in nt.nodes
                                  /\ nt.level[npg[r].items[i]] = nt.level[r] - 1
                                  /\ nt.parent[npg[r].items[i]] = r
               /\ \A i, m \in 1..b : npg[r].items[i] = npg[r].items[m] => i = m
    <3>1. npg[r].items \in Seq(Nat) /\ ~leaf
      BY <1>6, <2>3 DEF ItemsOK
    <3>2. \A i \in 1..b : /\ npg[r].items[i] \in nt.nodes /\ npg[r].items[i] # r
                          /\ nt.level[npg[r].items[i]] = nt.level[r] - 1
                          /\ nt.parent[npg[r].items[i]] = r
      <4> SUFFICES ASSUME NEW i \in 1..b
                   PROVE  /\ e[a + i] \in nt.nodes /\ nt.level[e[a + i]] = nt.level[r] - 1
                          /\ nt.parent[e[a + i]] = r /\ e[a + i] # r
        BY <1>5
      <4>1. a + i \in 1..n /\ a < a + i
        BY <1>5
      <4>2. e[a + i] \in t.nodes /\ OfR(e[a + i])
        BY <1>13, <3>1, <4>1
      <4>3. ~OfL(e[a + i])
        <5>1. ASSUME NEW m \in 1..n, m <= a, e[m] = e[a + i] PROVE FALSE
          <6>1. m = a + i
            BY <1>13, <3>1, <4>1, <5>1
          <6> QED BY <1>5, <4>1, <5>1, <6>1
        <5> QED BY <5>1
      <4> QED BY <1>1, <1>4, <1>8, <1>13, <3>1, <4>1, <4>2, <4>3
    <3>3. \A i, m \in 1..b : npg[r].items[i] = npg[r].items[m] => i = m
      <4> SUFFICES ASSUME NEW i \in 1..b, NEW m \in 1..b, npg[r].items[i] = npg[r].items[m] PROVE i = m
        OBVIOUS
      <4>1. e[a + i] = e[a + m] /\ a + i \in 1..n /\ a + m \in 1..n
        BY <1>5
      <4>2. a + i = a + m
        BY <1>13, <3>1, <4>1
      <4> QED BY <1>5, <4>2
    <3>4. b >= 1 => nt.first[r] = nt.first[npg[r].items[1]]
      BY <1>4, <1>5, <1>9, <1>11, <3>1, <3>2
    <3> QED BY <3>1, <3>2, <3>3, <3>4
  <2>4. \A i \in 1..b : Part(npg, nt, r, i) = W(a + i)
    BY <1>5, <1>6, <1>15 DEF Part
  <2>5. nt.under[r] \subseteq Keys
    BY <1>7
  <2>6. ASSUME NEW k PROVE k \in nt.under[r] <=> \E i \in 1..b : k \in Part(npg, nt, r, i)
    <3>1. ASSUME NEW i \in 1..n, a < i, k \in W(i) PROVE \E m \in 1..b : k \in Part(npg, nt, r, m)
      <4>1. i - a \in 1..b /\ a + (i - a) = i
        BY <1>5, <3>1
      <4> QED BY <2>4, <3>1, <4>1
    <3>2. ASSUME NEW i \in 1..b, k \in Part(npg, nt, r, i) PROVE k \in nt.under[r]
      BY <1>5, <1>7, <1>12, <2>4, <3>2
    <3> QED BY <1>7, <3>1, <3>2
  <2>7. ASSUME NEW i \in 1..b, NEW m \in 1..b, i < m
        PROVE  \A x \in Part(npg, nt, r, i), y \in Part(npg, nt, r, m) : x < y
    <3>1. a + i \in 1..n /\ a + m \in 1..n /\ a + i < a + m
      BY <1>5, <2>7
    <3> QED BY <1>12, <2>4, <3>1
  <2>8. Size(npg, r) = b
    BY DEF Size, b
  <2> QED BY <2>1, <2>2, <2>3, <2>5, <2>6, <2>7, <2>8 DEF NodeOK
<1>18. ASSUME NEW p \in t.nodes \ {l, r} PROVE NodeOK(npg, nt, p)
  <2>1. NodeOK(pg, t, p) /\ npg[p].leaf = pg[p].leaf /\ npg[p].items = pg[p].items
    BY <1>0 DEF SameItems
  <2>2. Size(npg, p) = Size(pg, p) /\ Size(pg, p) \in Nat
    <3>1. Size(npg, p) = Size(pg, p)
      BY <2>1 DEF Size
    <3>2. CASE pg[p].leaf
      <4>1. LeafShape(pg, t, p)
        BY <2>1, <3>2, LeafFacts
      <4> QED BY <3>1, <4>1 DEF LeafShape
    <3>3. CASE ~pg[p].leaf
      <4>1. InternalShape(pg, t, p)
        BY <2>1, <3>3, InternalFacts
      <4> QED BY <3>1, <4>1 DEF InternalShape
    <3> QED BY <3>2, <3>3
  <2>3. /\ nt.level[p] \in Nat \ {0} /\ npg[p].leaf \in BOOLEAN /\ (npg[p].leaf <=> nt.level[p] = 1)
        /\ npg[p].leaf => npg[p].items \in Seq({Item(k) : k \in Keys}) /\ nt.first[p] = p
        /\ nt.under[p] \subseteq Keys
    BY <1>4, <1>7, <1>9, <2>1 DEF NodeOK
  <2>4. CASE pg[p].leaf
    <3>1. \A i : Part(npg, nt, p, i) = Part(pg, t, p, i)
      BY <2>1, <2>4 DEF Part
    <3>2. nt.under[p] = t.under[p]
      BY <1>7
    <3> QED BY <2>1, <2>2, <2>3, <2>4, <3>1, <3>2 DEF NodeOK
  <2>5. CASE ~pg[p].leaf
    <3>0. InternalShape(pg, t, p)
      BY <2>1, <2>5, InternalFacts
    <3>1. ASSUME NEW i \in 1..Size(pg, p)
          PROVE  /\ pg[p].items[i] \in t.nodes
                 /\ t.level[pg[p].items[i]] = t.level[p] - 1
                 /\ t.parent[pg[p].items[i]] = p
      BY <3>0 DEF InternalShape
    <3>2. ASSUME NEW i \in 1..Size(pg, p)
          PROVE  /\ pg[p].items[i] \in nt.nodes
                 /\ nt.level[pg[p].items[i]] = nt.level[p] - 1
                 /\ nt.parent[pg[p].items[i]] = p
      <4>1. ~OfL(pg[p].items[i]) /\ ~OfR(pg[p].items[i])
        BY <1>14, <3>1
      <4> QED BY <1>4, <1>8, <3>1, <4>1
    <3>3. Size(pg, p) >= 1 => nt.first[p] = nt.first[pg[p].items[1]]
      <4> SUFFICES ASSUME Size(pg, p) >= 1 PROVE nt.first[p] = nt.first[pg[p].items[1]]
        OBVIOUS
      <4>1. t.first[p] = t.first[pg[p].items[1]]
        BY <3>0 DEF InternalShape
      <4>2. 1 \in 1..Size(pg, p) /\ pg[p].items[1] \in t.nodes /\ t.parent[pg[p].items[1]] = p
        BY <2>2, <3>1
      <4>3. pg[p].items[1] # r
        <5>1. CASE p = P
          <6>1. /\ j + 1 \in 1..Size(pg, P) /\ r = pg[P].items[j + 1] /\ j \in Nat /\ j >= 1
            BY <2>2, <5>1 DEF AreSiblings
          <6>2. j + 1 # 1
            BY <6>1
          <6> QED BY <3>0, <4>2, <5>1, <6>1, <6>2 DEF InternalShape
        <5>2. CASE p # P
          BY <1>1, <4>2, <5>2
        <5> QED BY <5>1, <5>2
      <4> QED BY <1>9, <4>1, <4>2, <4>3
    <3>4. /\ \A k : k \in t.under[p] <=> \E i \in 1..Size(pg, p) : k \in t.under[pg[p].items[i]]
          /\ \A i, m \in 1..Size(pg, p) : i < m =>
                 \A x \in t.under[pg[p].items[i]], y \in t.under[pg[p].items[m]] : x < y
          /\ \A i, m \in 1..Size(pg, p) : pg[p].items[i] = pg[p].items[m] => i = m
          /\ pg[p].items \in Seq(Nat)
      BY <3>0 DEF InternalShape
    <3>5. \A i : Part(npg, nt, p, i) = nt.under[pg[p].items[i]]
      BY <2>1, <2>5 DEF Part
    <3>6. /\ \A k : k \in nt.under[p] <=> \E i \in 1..Size(pg, p) : k \in nt.under[pg[p].items[i]]
          /\ \A i, m \in 1..Size(pg, p) : i < m =>
                 \A x \in nt.under[pg[p].items[i]], y \in nt.under[pg[p].items[m]] : x < y
      <4>1. CASE p # P
        <5>1. \A i \in 1..Size(pg, p) : nt.under[pg[p].items[i]] = t.under[pg[p].items[i]]
          BY <1>1, <1>7, <3>1, <4>1
        <5> QED BY <1>7, <3>4, <5>1
      <4>2. CASE p = P
        <5>0. j \in 1..Size(pg, p) /\ j + 1 \in 1..Size(pg, p) /\ l = pg[p].items[j] /\ r = pg[p].items[j + 1]
          BY <2>2, <4>2 DEF AreSiblings
        <5>1. ASSUME NEW i \in 1..Size(pg, p), i # j, i # j + 1
              PROVE  nt.under[pg[p].items[i]] = t.under[pg[p].items[i]]
          <6>1. pg[p].items[i] \notin {l, r}
            BY <3>4, <5>0, <5>1
          <6> QED BY <1>7, <3>1, <6>1
        <5>2. /\ nt.under[l] \subseteq t.under[l] \cup t.under[r]
              /\ nt.under[r] \subseteq t.under[l] \cup t.under[r]
              /\ t.under[l] \cup t.under[r] \subseteq nt.under[l] \cup nt.under[r]
          <6>1. nt.under[l] \subseteq t.under[l] \cup t.under[r] /\ nt.under[r] \subseteq t.under[l] \cup t.under[r]
            BY <1>7, <1>12
          <6>2. ASSUME NEW k \in t.under[l] \cup t.under[r] PROVE k \in nt.under[l] \cup nt.under[r]
            <7>1. PICK i \in 1..n : k \in W(i)
              BY <1>12
            <7>2. k \in Keys /\ (i <= a \/ a < i)
              BY <1>5, <1>12, <7>1
            <7> QED BY <1>7, <7>1, <7>2
          <6> QED BY <6>1, <6>2
        <5>3. \A x \in nt.under[l], y \in nt.under[r] : x < y
          <6> SUFFICES ASSUME NEW x \in nt.under[l], NEW y \in nt.under[r] PROVE x < y
            OBVIOUS
          <6>1. PICK i \in 1..n : i <= a /\ x \in W(i)
            BY <1>7
          <6>2. PICK m \in 1..n : a < m /\ y \in W(m)
            BY <1>7
          <6>3. i < m
            BY <1>5, <6>1, <6>2
          <6> QED BY <1>12, <6>1, <6>2, <6>3
        <5>4. ASSUME NEW k PROVE k \in nt.under[p] <=> \E i \in 1..Size(pg, p) : k \in nt.under[pg[p].items[i]]
          <6>0. nt.under[p] = t.under[p]
            BY <1>7
          <6>1. ASSUME k \in t.under[p] PROVE \E i \in 1..Size(pg, p) : k \in nt.under[pg[p].items[i]]
            <7>1. PICK i \in 1..Size(pg, p) : k \in t.under[pg[p].items[i]]
              BY <3>4, <6>1
            <7>2. CASE i # j /\ i # j + 1
              BY <5>1, <7>1, <7>2
            <7>3. CASE i = j \/ i = j + 1
              <8>1. k \in nt.under[l] \/ k \in nt.under[r]
                BY <5>0, <5>2, <7>1, <7>3
              <8>2. nt.under[l] = nt.under[pg[p].items[j]] /\ nt.under[r] = nt.under[pg[p].items[j + 1]]
                BY <5>0
              <8>3. \E m \in {j, j + 1} : k \in nt.under[pg[p].items[m]]
                BY <8>1, <8>2
              <8> QED BY <5>0, <8>3
            <7> QED BY <7>2, <7>3
          <6>2. ASSUME NEW i \in 1..Size(pg, p), k \in nt.under[pg[p].items[i]] PROVE k \in t.under[p]
            <7>1. CASE i # j /\ i # j + 1
              BY <3>4, <5>1, <6>2, <7>1
            <7>2. CASE i = j \/ i = j + 1
              <8>1. k \in t.under[l] \/ k \in t.under[r]
                BY <5>0, <5>2, <6>2, <7>2
              <8>2. t.under[l] = t.under[pg[p].items[j]] /\ t.under[r] = t.under[pg[p].items[j + 1]]
                BY <5>0
              <8>3. PICK m \in {j, j + 1} : k \in t.under[pg[p].items[m]]
                BY <8>1, <8>2
              <8>4. m \in 1..Size(pg, p)
                BY <5>0
              <8> QED BY <3>4, <8>3, <8>4
            <7> QED BY <7>1, <7>2
          <6> QED BY <6>0, <6>1, <6>2
        <5>5. ASSUME NEW i \in 1..Size(pg, p), NEW m \in 1..Size(pg, p), i < m,
                     NEW x \in nt.under[pg[p].items[i]], NEW y \in nt.under[pg[p].items[m]]
              PROVE  x < y
          <6>1. CASE i = j /\ m = j + 1
            BY <5>0, <5>3, <5>5, <6>1
          <6>2. CASE i < j
            <7>1. x \in t.under[pg[p].items[i]]
              <8>1. i # j /\ i # j + 1
                BY <5>0, <6>2
              <8> QED BY <5>1, <5>5, <8>1
            <7>2. CASE m # j /\ m # j + 1
              BY <3>4, <5>1, <5>5, <7>1, <7>2
            <7>3. CASE m = j \/ m = j + 1
              <8>1. y \in t.under[pg[p].items[j]] \/ y \in t.under[pg[p].items[j + 1]]
                BY <5>0, <5>2, <5>5, <7>3
              <8>2. i < j + 1
                BY <5>0, <6>2
              <8> QED BY <3>4, <5>0, <6>2, <7>1, <8>1, <8>2
            <7> QED BY <7>2, <7>3
          <6>3. CASE j + 1 < m
            <7>1. m # j /\ m # j + 1
              BY <5>0, <6>3
            <7>2. y \in t.under[pg[p].items[m]]
              BY <5>1, <5>5, <7>1
            <7>3. CASE i # j /\ i # j + 1
              BY <3>4, <5>1, <5>5, <7>2, <7>3
            <7>4. CASE i = j \/ i = j + 1
              <8>1. x \in t.under[pg[p].items[j]] \/ x \in t.under[pg[p].items[j + 1]]
                BY <5>0, <5>2, <5>5, <7>4
              <8>2. j < m
                BY <5>0, <6>3
              <8> QED BY <3>4, <5>0, <6>3, <7>2, <8>1, <8>2
            <7> QED BY <7>3, <7>4
          <6> QED BY <5>0, <5>5, <6>1, <6>2, <6>3
        <5> QED BY <5>4, <5>5
      <4> QED BY <4>1, <4>2
    <3>7. /\ ~npg[p].leaf
          /\ \A i, m \in 1..Size(npg, p) : npg[p].items[i] = npg[p].items[m] => i = m
          /\ npg[p].items \in Seq(Nat)
      BY <2>1, <2>2, <2>5, <3>4
    <3>8. /\ Size(npg, p) >= 1 => nt.first[p] = nt.first[npg[p].items[1]]
          /\ \A i \in 1..Size(npg, p) : /\ npg[p].items[i] \in nt.nodes
                                        /\ nt.level[npg[p].items[i]] = nt.level[p] - 1
                                        /\ nt.parent[npg[p].items[i]] = p
      BY <2>1, <2>2, <3>2, <3>3
    <3>9. /\ \A k : k \in nt.under[p] <=> \E i \in 1..Size(npg, p) : k \in Part(npg, nt, p, i)
          /\ \A i, m \in 1..Size(npg, p) : i < m =>
                 \A x \in Part(npg, nt, p, i), y \in Part(npg, nt, p, m) : x < y
      <4>1. Size(npg, p) = Size(pg, p)
        BY <2>2
      <4>2. \A k : k \in nt.under[p] <=> \E i \in 1..Size(npg, p) : k \in Part(npg, nt, p, i)
        BY <3>5, <3>6, <4>1
      <4>3. ASSUME NEW i \in 1..Size(npg, p), NEW m \in 1..Size(npg, p), i < m,
                   NEW x \in Part(npg, nt, p, i), NEW y \in Part(npg, nt, p, m)
            PROVE  x < y
        <5>1. x \in nt.under[pg[p].items[i]] /\ y \in nt.under[pg[p].items[m]]
          BY <3>5, <4>3
        <5>2. i \in 1..Size(pg, p) /\ m \in 1..Size(pg, p)
          BY <4>1
        <5> QED BY <3>6, <4>3, <5>1, <5>2
      <4> QED BY <4>2, <4>3
    <3> QED BY <2>3, <3>7, <3>8, <3>9 DEF NodeOK
  <2> QED BY <2>4, <2>5
<1>19. Tree(npg, root, nt)
  <2>1. nt.parent[root] = None /\ None \notin nt.nodes
    <3>1. ~OfL(root) /\ ~OfR(root)
      BY <1>0, <1>1, <1>14
    <3> QED BY <1>0, <1>4, <1>8, <3>1
  <2>2. \A p \in nt.nodes : NodeOK(npg, nt, p)
    BY <1>4, <1>16, <1>17, <1>18
  <2> QED BY <1>0, <1>4, <2>1, <2>2 DEF Tree
<1>20. IsLike(t, nt, l, r)
  <2>1. \A p \in t.nodes \ {r} : nt.first[p] = t.first[p]
    BY <1>9
  <2> QED BY <1>4, <1>7, <2>1 DEF IsLike
<1> QED BY <1>19, <1>20

-----------------------------------------------------------------------------
(* Sequences.                                                               *)

\* n is s with e at position i.
IsInsertion(s, i, e, n) ==
    /\ Len(n) = Len(s) + 1 /\ Len(s) \in Nat
    /\ \A m \in 1..Len(n) : n[m] = IF m < i THEN s[m] ELSE IF m = i THEN e ELSE s[m - 1]

\* n is s without position i.
IsRemoval(s, i, n) ==
    /\ Len(n) = Len(s) - 1 /\ Len(s) \in Nat
    /\ \A m \in 1..Len(n) : n[m] = IF m < i THEN s[m] ELSE s[m + 1]

\* What SubSeq is, entry by entry.
LEMMA PartOfSeq ==
    ASSUME NEW S, NEW s \in Seq(S), NEW a \in 1..(Len(s) + 1), NEW b \in 0..Len(s)
    PROVE  /\ SubSeq(s, a, b) \in Seq(S)
           /\ Len(SubSeq(s, a, b)) = IF a <= b THEN b - a + 1 ELSE 0
           /\ \A i \in 1..(b - a + 1) : SubSeq(s, a, b)[i] = s[a + i - 1]
<1>1. Len(s) \in Nat /\ a \in Int /\ b \in Int
  BY LenProperties
<1>2. \A i \in a..b : s[i] \in S
  BY <1>1, ElementOfSeq
<1> QED BY <1>1, <1>2, SubSeqProperties

\* What std::vector::insert does.
LEMMA InsertAtIsInsertion ==
    ASSUME NEW S, NEW s \in Seq(S), NEW e \in S, NEW i \in 1..(Len(s) + 1)
    PROVE  InsertAt(s, i, e) \in Seq(S) /\ IsInsertion(s, i, e, InsertAt(s, i, e))
<1> DEFINE u == SubSeq(s, 1, i - 1)
           w == SubSeq(s, i, Len(s))
           v == u \o <<e>>
           n == v \o w
<1>0. Len(s) \in Nat /\ i - 1 \in 0..Len(s) /\ 1 \in 1..(Len(s) + 1) /\ Len(s) \in 0..Len(s)
  BY LenProperties
<1>1. u \in Seq(S) /\ Len(u) = i - 1 /\ \A m \in 1..(i - 1) : u[m] = s[m]
  <2>1. /\ u \in Seq(S) /\ Len(u) = IF 1 <= i - 1 THEN i - 1 - 1 + 1 ELSE 0
        /\ \A m \in 1..(i - 1 - 1 + 1) : u[m] = s[1 + m - 1]
    BY <1>0, PartOfSeq
  <2> HIDE DEF u
  <2> QED BY <1>0, <2>1
<1>2. w \in Seq(S) /\ Len(w) = Len(s) - i + 1 /\ \A m \in 1..(Len(s) - i + 1) : w[m] = s[i + m - 1]
  <2>1. /\ w \in Seq(S) /\ Len(w) = IF i <= Len(s) THEN Len(s) - i + 1 ELSE 0
        /\ \A m \in 1..(Len(s) - i + 1) : w[m] = s[i + m - 1]
    BY <1>0, PartOfSeq
  <2> HIDE DEF w
  <2> QED BY <1>0, <2>1
<1>3. <<e>> \in Seq(S) /\ Len(<<e>>) = 1 /\ <<e>>[1] = e
  OBVIOUS
<1> HIDE DEF u, w
<1>4. v \in Seq(S) /\ Len(v) = i /\ \A m \in 1..i : v[m] = IF m < i THEN s[m] ELSE e
  <2>1. /\ v \in Seq(S) /\ Len(v) = Len(u) + Len(<<e>>)
        /\ \A m \in 1..(Len(u) + Len(<<e>>)) : v[m] = IF m <= Len(u) THEN u[m] ELSE <<e>>[m - Len(u)]
    BY <1>1, <1>3, ConcatProperties
  <2> HIDE DEF v
  <2>2. Len(v) = i
    BY <1>0, <1>1, <1>3, <2>1
  <2>3. ASSUME NEW m \in 1..i PROVE v[m] = IF m < i THEN s[m] ELSE e
    <3>1. CASE m < i
      BY <1>0, <1>1, <1>3, <2>1, <3>1
    <3>2. CASE m = i
      <4>1. m - Len(u) = 1 /\ ~(m <= Len(u)) /\ m \in 1..(Len(u) + Len(<<e>>))
        BY <1>0, <1>1, <1>3, <3>2
      <4> QED BY <1>3, <2>1, <3>2, <4>1
    <3> QED BY <1>0, <3>1, <3>2
  <2> QED BY <2>1, <2>2, <2>3
<1> HIDE DEF v
<1>5. /\ n \in Seq(S) /\ Len(n) = Len(v) + Len(w)
      /\ \A m \in 1..(Len(v) + Len(w)) : n[m] = IF m <= Len(v) THEN v[m] ELSE w[m - Len(v)]
  BY <1>2, <1>4, ConcatProperties
<1>6. InsertAt(s, i, e) = n
  BY DEF InsertAt, n, v, u, w
<1> HIDE DEF n
<1>7. Len(n) = Len(s) + 1
  BY <1>0, <1>2, <1>4, <1>5
<1>8. ASSUME NEW m \in 1..Len(n) PROVE n[m] = IF m < i THEN s[m] ELSE IF m = i THEN e ELSE s[m - 1]
  <2>1. CASE m <= i
    BY <1>0, <1>2, <1>4, <1>5, <2>1
  <2>2. CASE i < m
    <3>1. m - i \in 1..(Len(s) - i + 1) /\ i + (m - i) - 1 = m - 1 /\ ~(m <= i) /\ m \in 1..(Len(v) + Len(w))
      BY <1>0, <1>2, <1>4, <1>7, <2>2
    <3>2. n[m] = w[m - i]
      BY <1>4, <1>5, <3>1
    <3>3. w[m - i] = s[m - 1]
      BY <1>2, <3>1
    <3> QED BY <2>2, <3>1, <3>2, <3>3
  <2> QED BY <1>0, <2>1, <2>2
<1> QED BY <1>0, <1>5, <1>6, <1>7, <1>8 DEF IsInsertion

\* What std::vector::erase does.
LEMMA RemoveAtIsRemoval ==
    ASSUME NEW S, NEW s \in Seq(S), NEW i \in 1..Len(s)
    PROVE  RemoveAt(s, i) \in Seq(S) /\ IsRemoval(s, i, RemoveAt(s, i))
<1> DEFINE u == SubSeq(s, 1, i - 1)
           w == SubSeq(s, i + 1, Len(s))
           n == u \o w
<1>0. Len(s) \in Nat /\ i - 1 \in 0..Len(s) /\ 1 \in 1..(Len(s) + 1) /\ i + 1 \in 1..(Len(s) + 1) /\ Len(s) \in 0..Len(s)
  BY LenProperties
<1>1. u \in Seq(S) /\ Len(u) = i - 1 /\ \A m \in 1..(i - 1) : u[m] = s[m]
  <2>1. /\ u \in Seq(S) /\ Len(u) = IF 1 <= i - 1 THEN i - 1 - 1 + 1 ELSE 0
        /\ \A m \in 1..(i - 1 - 1 + 1) : u[m] = s[1 + m - 1]
    BY <1>0, PartOfSeq
  <2> HIDE DEF u
  <2> QED BY <1>0, <2>1
<1>2. w \in Seq(S) /\ Len(w) = Len(s) - i /\ \A m \in 1..(Len(s) - i) : w[m] = s[i + m]
  <2>1. /\ w \in Seq(S) /\ Len(w) = IF i + 1 <= Len(s) THEN Len(s) - (i + 1) + 1 ELSE 0
        /\ \A m \in 1..(Len(s) - (i + 1) + 1) : w[m] = s[(i + 1) + m - 1]
    BY <1>0, PartOfSeq
  <2> HIDE DEF w
  <2>2. Len(w) = Len(s) - i /\ Len(s) - (i + 1) + 1 = Len(s) - i
    BY <1>0, <2>1
  <2>3. ASSUME NEW m \in 1..(Len(s) - i) PROVE w[m] = s[i + m]
    <3>1. m \in 1..(Len(s) - (i + 1) + 1) /\ (i + 1) + m - 1 = i + m
      BY <1>0, <2>2
    <3> QED BY <2>1, <3>1
  <2> QED BY <2>1, <2>2, <2>3
<1> HIDE DEF u, w
<1>5. /\ n \in Seq(S) /\ Len(n) = Len(u) + Len(w)
      /\ \A m \in 1..(Len(u) + Len(w)) : n[m] = IF m <= Len(u) THEN u[m] ELSE w[m - Len(u)]
  BY <1>1, <1>2, ConcatProperties
<1>6. RemoveAt(s, i) = n
  BY DEF RemoveAt, n, u, w
<1> HIDE DEF n
<1>7. Len(n) = Len(s) - 1
  BY <1>0, <1>1, <1>2, <1>5
<1>8. ASSUME NEW m \in 1..Len(n) PROVE n[m] = IF m < i THEN s[m] ELSE s[m + 1]
  <2>1. CASE m < i
    BY <1>0, <1>1, <1>2, <1>5, <2>1
  <2>2. CASE i <= m
    <3>1. /\ m - (i - 1) \in 1..(Len(s) - i) /\ i + (m - (i - 1)) = m + 1 /\ ~(m <= i - 1)
          /\ m \in 1..(Len(u) + Len(w)) /\ ~(m < i)
      BY <1>0, <1>1, <1>2, <1>7, <2>2
    <3>2. n[m] = w[m - (i - 1)]
      BY <1>1, <1>5, <3>1
    <3>3. w[m - (i - 1)] = s[m + 1]
      BY <1>2, <3>1
    <3> QED BY <3>1, <3>2, <3>3
  <2> QED BY <1>0, <2>1, <2>2
<1> QED BY <1>0, <1>5, <1>6, <1>7, <1>8 DEF IsRemoval

\* Cutting a sequence in two.
LEMMA JoinConcat ==
    ASSUME NEW S, NEW s \in Seq(S), NEW u \in Seq(S)
    PROVE  s \o u \in Seq(S) /\ IsJoin(s, u, s \o u)
<1>0. Len(s) \in Nat /\ Len(u) \in Nat
  BY LenProperties
<1>1. /\ s \o u \in Seq(S) /\ Len(s \o u) = Len(s) + Len(u)
      /\ \A i \in 1..(Len(s) + Len(u)) : (s \o u)[i] = IF i <= Len(s) THEN s[i] ELSE u[i - Len(s)]
  BY ConcatProperties
<1> DEFINE e == s \o u
<1> HIDE DEF e
<1>2. \A i \in 1..Len(s) : s[i] = e[i]
  BY <1>0, <1>1 DEF e
<1>3. ASSUME NEW i \in 1..Len(u) PROVE u[i] = e[Len(s) + i]
  <2>1. Len(s) + i \in 1..(Len(s) + Len(u)) /\ ~(Len(s) + i <= Len(s)) /\ (Len(s) + i) - Len(s) = i
    BY <1>0
  <2> QED BY <1>1, <2>1 DEF e
<1> QED BY <1>0, <1>1, <1>2, <1>3 DEF IsJoin, e

\* A sequence cut in two.
LEMMA JoinCut ==
    ASSUME NEW S, NEW e \in Seq(S), NEW n \in 0..Len(e)
    PROVE  /\ SubSeq(e, 1, n) \in Seq(S) /\ SubSeq(e, n + 1, Len(e)) \in Seq(S)
           /\ Len(SubSeq(e, 1, n)) = n /\ Len(SubSeq(e, n + 1, Len(e))) = Len(e) - n
           /\ IsJoin(SubSeq(e, 1, n), SubSeq(e, n + 1, Len(e)), e)
<1> DEFINE s == SubSeq(e, 1, n)
           u == SubSeq(e, n + 1, Len(e))
<1>0. Len(e) \in Nat /\ 1 \in 1..(Len(e) + 1) /\ n + 1 \in 1..(Len(e) + 1) /\ Len(e) \in 0..Len(e) /\ n \in Nat
  BY LenProperties
<1>1. s \in Seq(S) /\ Len(s) = n /\ \A i \in 1..n : s[i] = e[i]
  <2>1. /\ s \in Seq(S) /\ Len(s) = IF 1 <= n THEN n - 1 + 1 ELSE 0
        /\ \A m \in 1..(n - 1 + 1) : s[m] = e[1 + m - 1]
    BY <1>0, PartOfSeq
  <2> HIDE DEF s
  <2> QED BY <1>0, <2>1
<1>2. u \in Seq(S) /\ Len(u) = Len(e) - n /\ \A i \in 1..(Len(e) - n) : u[i] = e[n + i]
  <2>1. /\ u \in Seq(S) /\ Len(u) = IF n + 1 <= Len(e) THEN Len(e) - (n + 1) + 1 ELSE 0
        /\ \A m \in 1..(Len(e) - (n + 1) + 1) : u[m] = e[(n + 1) + m - 1]
    BY <1>0, PartOfSeq
  <2> HIDE DEF u
  <2>2. Len(u) = Len(e) - n /\ Len(e) - (n + 1) + 1 = Len(e) - n
    BY <1>0, <2>1
  <2>3. \A m \in Nat : (n + 1) + m - 1 = n + m
    BY <1>0
  <2> QED BY <1>0, <2>1, <2>2, <2>3
<1> HIDE DEF s, u
<1>3. IsJoin(s, u, e)
  BY <1>0, <1>1, <1>2 DEF IsJoin
<1> QED BY <1>1, <1>2, <1>3 DEF s, u

\* Giving the last entry to the right, and taking the first one from there.
LEMMA JoinGive ==
    ASSUME NEW S, NEW s \in Seq(S), NEW u \in Seq(S), Len(s) >= 1
    PROVE  /\ Front(s) \in Seq(S) /\ <<Last(s)>> \o u \in Seq(S)
           /\ Len(Front(s)) = Len(s) - 1 /\ Len(<<Last(s)>> \o u) = Len(u) + 1
           /\ IsJoin(Front(s), <<Last(s)>> \o u, s \o u)
<1> DEFINE e == s \o u
           f == Front(s)
           w == <<Last(s)>> \o u
<1>0. Len(s) \in Nat /\ Len(u) \in Nat
  BY LenProperties
<1>1. IsJoin(s, u, e)
  BY JoinConcat
<1>2. f \in Seq(S) /\ Len(f) = Len(s) - 1 /\ \A i \in 1..(Len(s) - 1) : f[i] = s[i]
  <2>1. /\ SubSeq(s, 1, Len(s) - 1) \in Seq(S)
        /\ Len(SubSeq(s, 1, Len(s) - 1)) = IF 1 <= Len(s) - 1 THEN Len(s) - 1 - 1 + 1 ELSE 0
        /\ \A m \in 1..(Len(s) - 1 - 1 + 1) : SubSeq(s, 1, Len(s) - 1)[m] = s[1 + m - 1]
    <3>1. 1 \in 1..(Len(s) + 1) /\ Len(s) - 1 \in 0..Len(s)
      BY <1>0
    <3> QED BY <3>1, PartOfSeq
  <2>2. f = SubSeq(s, 1, Len(s) - 1)
    BY DEF Front
  <2> HIDE DEF f
  <2>3. /\ f \in Seq(S) /\ Len(f) = IF 1 <= Len(s) - 1 THEN Len(s) - 1 - 1 + 1 ELSE 0
        /\ \A m \in 1..(Len(s) - 1 - 1 + 1) : f[m] = s[1 + m - 1]
    BY <2>1, <2>2, Zenon
  <2>4. Len(f) = Len(s) - 1 /\ Len(s) - 1 - 1 + 1 = Len(s) - 1
    <3>1. PICK n \in Nat : n = Len(s) /\ n >= 1
      BY <1>0
    <3>2. (IF 1 <= n - 1 THEN n - 1 - 1 + 1 ELSE 0) = n - 1 /\ n - 1 - 1 + 1 = n - 1
      BY <3>1
    <3> QED BY <2>3, <3>1, <3>2
  <2>5. ASSUME NEW i \in 1..(Len(s) - 1) PROVE f[i] = s[i]
    <3>1. i \in 1..(Len(s) - 1 - 1 + 1) /\ 1 + i - 1 = i
      BY <2>4
    <3> QED BY <2>3, <3>1
  <2> QED BY <2>3, <2>4, <2>5
<1>3. Last(s) = s[Len(s)] /\ Last(s) \in S
  BY <1>0, ElementOfSeq DEF Last
<1>4. <<Last(s)>> \in Seq(S) /\ Len(<<Last(s)>>) = 1 /\ <<Last(s)>>[1] = s[Len(s)]
  BY <1>3
<1>5. w \in Seq(S) /\ Len(w) = Len(u) + 1 /\ w[1] = s[Len(s)] /\ \A i \in 2..(Len(u) + 1) : w[i] = u[i - 1]
  <2>1. /\ w \in Seq(S) /\ Len(w) = Len(<<Last(s)>>) + Len(u)
        /\ \A i \in 1..(Len(<<Last(s)>>) + Len(u)) :
              w[i] = IF i <= Len(<<Last(s)>>) THEN <<Last(s)>>[i] ELSE u[i - Len(<<Last(s)>>)]
    BY <1>4, ConcatProperties
  <2> HIDE DEF w
  <2> QED BY <1>0, <1>4, <2>1
<1> HIDE DEF e, f, w
<1>6. \A i \in 1..Len(f) : f[i] = e[i]
  BY <1>0, <1>1, <1>2 DEF IsJoin
<1>7. ASSUME NEW i \in 1..Len(w) PROVE w[i] = e[Len(f) + i]
  <2>1. CASE i = 1
    <3>1. Len(f) + i = Len(s) /\ Len(s) \in 1..Len(s)
      BY <1>0, <1>2, <2>1
    <3> QED BY <1>1, <1>5, <2>1, <3>1 DEF IsJoin
  <2>2. CASE i # 1
    <3>1. i \in 2..(Len(u) + 1) /\ i - 1 \in 1..Len(u) /\ Len(f) + i = Len(s) + (i - 1)
      BY <1>0, <1>2, <1>5, <2>2
    <3>2. w[i] = u[i - 1] /\ u[i - 1] = e[Len(s) + (i - 1)]
      BY <1>1, <1>5, <3>1 DEF IsJoin
    <3> QED BY <3>1, <3>2
  <2> QED BY <2>1, <2>2
<1>8. IsJoin(f, w, e)
  <2>1. Len(e) = Len(s) + Len(u)
    BY <1>1 DEF IsJoin
  <2>2. Len(f) \in Nat /\ Len(w) \in Nat /\ Len(e) = Len(f) + Len(w)
    BY <1>0, <1>2, <1>5, <2>1
  <2> QED BY <1>6, <1>7, <2>2 DEF IsJoin
<1> QED BY <1>2, <1>5, <1>8 DEF e, f, w

\* The first entry of the right part moves to the left one.
LEMMA JoinTake ==
    ASSUME NEW S, NEW s \in Seq(S), NEW u \in Seq(S), Len(u) >= 1
    PROVE  /\ Append(s, Head(u)) \in Seq(S) /\ Tail(u) \in Seq(S)
           /\ Len(Append(s, Head(u))) = Len(s) + 1 /\ Len(Tail(u)) = Len(u) - 1
           /\ IsJoin(Append(s, Head(u)), Tail(u), s \o u)
<1> DEFINE e == s \o u
           f == Append(s, Head(u))
           w == Tail(u)
<1>0. Len(s) \in Nat /\ Len(u) \in Nat /\ u # <<>>
  BY LenProperties
<1>1. IsJoin(s, u, e)
  BY JoinConcat
<1>2. Head(u) = u[1] /\ Head(u) \in S
  BY <1>0, HeadTailProperties
<1>3. /\ f \in Seq(S) /\ Len(f) = Len(s) + 1 /\ f[Len(s) + 1] = u[1]
      /\ \A i \in 1..Len(s) : f[i] = s[i]
  BY <1>2, AppendProperties
<1>4. w \in Seq(S) /\ Len(w) = Len(u) - 1 /\ \A i \in 1..Len(w) : w[i] = u[i + 1]
  BY <1>0, HeadTailProperties
<1> HIDE DEF e, f, w
<1>6. ASSUME NEW i \in 1..Len(f) PROVE f[i] = e[i]
  <2>1. CASE i <= Len(s)
    BY <1>0, <1>1, <1>3, <2>1 DEF IsJoin
  <2>2. CASE ~(i <= Len(s))
    <3>1. i = Len(s) + 1 /\ 1 \in 1..Len(u)
      BY <1>0, <1>3, <2>2
    <3> QED BY <1>1, <1>3, <3>1 DEF IsJoin
  <2> QED BY <2>1, <2>2
<1>7. ASSUME NEW i \in 1..Len(w) PROVE w[i] = e[Len(f) + i]
  <2>1. i + 1 \in 1..Len(u) /\ Len(f) + i = Len(s) + (i + 1)
    BY <1>0, <1>3, <1>4
  <2>2. w[i] = u[i + 1] /\ u[i + 1] = e[Len(s) + (i + 1)]
    BY <1>1, <1>4, <2>1 DEF IsJoin
  <2> QED BY <2>1, <2>2
<1>8. IsJoin(f, w, e)
  <2>1. Len(e) = Len(s) + Len(u)
    BY <1>1 DEF IsJoin
  <2>2. Len(f) \in Nat /\ Len(w) \in Nat /\ Len(e) = Len(f) + Len(w)
    BY <1>0, <1>3, <1>4, <2>1
  <2> QED BY <1>6, <1>7, <2>2 DEF IsJoin
<1> QED BY <1>3, <1>4, <1>8 DEF e, f, w

-----------------------------------------------------------------------------
(* The other changes that keep a tree a tree.                               *)

\* The size of a node is a number.
LEMMA SizeIsNat ==
    ASSUME NEW pg, NEW t, NEW p, NodeOK(pg, t, p)
    PROVE  Size(pg, p) \in Nat /\ DOMAIN pg[p].items = 1..Size(pg, p)
<1>1. CASE pg[p].leaf
  <2>1. LeafShape(pg, t, p)
    BY <1>1, LeafFacts
  <2> QED BY <2>1 DEF LeafShape
<1>2. CASE ~pg[p].leaf
  <2>1. InternalShape(pg, t, p)
    BY <1>2, InternalFacts
  <2> QED BY <2>1 DEF InternalShape
<1> QED BY <1>1, <1>2

\* nt says of page p what t says.
SaysTheSame(t, nt, p) ==
    nt.level[p] = t.level[p] /\ nt.under[p] = t.under[p] /\ nt.first[p] = t.first[p]

\* A node is as good as before when it and its children are as before.
LEMMA NodeKept ==
    ASSUME NEW pg, NEW t, NEW p, NodeOK(pg, t, p),
           NEW npg, NEW nt, npg[p].leaf = pg[p].leaf, npg[p].items = pg[p].items,
           SaysTheSame(t, nt, p),
           ~pg[p].leaf => \A i \in 1..Size(pg, p) :
               /\ pg[p].items[i] \in nt.nodes /\ nt.parent[pg[p].items[i]] = p
               /\ SaysTheSame(t, nt, pg[p].items[i])
    PROVE  NodeOK(npg, nt, p)
<1>1. Size(npg, p) = Size(pg, p) /\ Size(pg, p) \in Nat
  BY SizeIsNat DEF Size
<1>2. CASE pg[p].leaf
  <2>1. \A i : Part(npg, nt, p, i) = Part(pg, t, p, i)
    BY <1>2 DEF Part
  <2> QED BY <1>1, <1>2, <2>1 DEF NodeOK, SaysTheSame
<1>3. CASE ~pg[p].leaf
  <2>0. InternalShape(pg, t, p)
    BY <1>3, InternalFacts
  <2>1. \A i \in 1..Size(pg, p) : Part(npg, nt, p, i) = Part(pg, t, p, i)
    BY <1>3 DEF Part, SaysTheSame
  <2>2. /\ nt.level[p] \in Nat \ {0} /\ npg[p].leaf \in BOOLEAN /\ (npg[p].leaf <=> nt.level[p] = 1)
        /\ ~npg[p].leaf
        /\ nt.under[p] \subseteq Keys /\ npg[p].items \in Seq(Nat)
    BY <1>3 DEF NodeOK, SaysTheSame
  <2>3. Size(npg, p) >= 1 => nt.first[p] = nt.first[npg[p].items[1]]
    BY <1>1, <1>3, <2>0 DEF InternalShape, SaysTheSame
  <2>4. \A i \in 1..Size(npg, p) :
           /\ npg[p].items[i] \in nt.nodes
           /\ nt.level[npg[p].items[i]] = nt.level[p] - 1
           /\ nt.parent[npg[p].items[i]] = p
    BY <1>1, <1>3, <2>0 DEF InternalShape, SaysTheSame
  <2>5. \A i, j \in 1..Size(npg, p) : npg[p].items[i] = npg[p].items[j] => i = j
    BY <1>1, <2>0 DEF InternalShape
  <2>6. /\ \A k : k \in nt.under[p] <=> \E i \in 1..Size(npg, p) : k \in Part(npg, nt, p, i)
        /\ \A i, j \in 1..Size(npg, p) : i < j =>
               \A x \in Part(npg, nt, p, i), y \in Part(npg, nt, p, j) : x < y
    BY <1>1, <2>1 DEF NodeOK, SaysTheSame
  <2> QED BY <2>2, <2>3, <2>4, <2>5, <2>6 DEF NodeOK
<1> QED BY <1>2, <1>3

\* The separators, and the numbers that pages bear, do not matter.
LEMMA SameItemsSameTree ==
    ASSUME NEW pg, NEW root, NEW t, Tree(pg, root, t),
           NEW npg, t.nodes \subseteq DOMAIN npg, SameItems(pg, npg, t.nodes)
    PROVE  Tree(npg, root, t)
<1>1. ASSUME NEW p \in t.nodes PROVE NodeOK(npg, t, p)
  <2>1. NodeOK(pg, t, p) /\ npg[p].leaf = pg[p].leaf /\ npg[p].items = pg[p].items
    BY DEF Tree, SameItems
  <2>2. ASSUME ~pg[p].leaf, NEW i \in 1..Size(pg, p)
        PROVE  pg[p].items[i] \in t.nodes /\ t.parent[pg[p].items[i]] = p
    <3>1. InternalShape(pg, t, p)
      BY <2>1, <2>2, InternalFacts
    <3> QED BY <2>2, <3>1 DEF InternalShape
  <2> QED BY <2>1, <2>2, NodeKept DEF SaysTheSame
<1> QED BY <1>1 DEF Tree

\* The z entries n make page p an internal node.
IsInternal(t, p, n, z) ==
    /\ n \in Seq(Nat)
    /\ z >= 1 => t.first[p] = t.first[n[1]]
    /\ \A i \in 1..z : n[i] \in t.nodes /\ t.level[n[i]] = t.level[p] - 1 /\ t.parent[n[i]] = p
    /\ \A i, j \in 1..z : n[i] = n[j] => i = j
    /\ t.under[p] \subseteq Keys
    /\ \A k : k \in t.under[p] <=> \E i \in 1..z : k \in t.under[n[i]]
    /\ \A i, j \in 1..z : i < j => \A x \in t.under[n[i]], y \in t.under[n[j]] : x < y

\* A page of these children is a node of the tree.
LEMMA InternalIsOK ==
    ASSUME NEW pg, NEW t, NEW p, NEW n, NEW z, IsInternal(t, p, n, z), n = pg[p].items, z = Size(pg, p),
           t.level[p] \in Nat, t.level[p] > 1, pg[p].leaf = FALSE
    PROVE  NodeOK(pg, t, p)
<1>1. \A i : Part(pg, t, p, i) = t.under[n[i]]
  BY DEF Part
<1>2. /\ pg[p].items \in Seq(Nat)
      /\ Size(pg, p) >= 1 => t.first[p] = t.first[pg[p].items[1]]
      /\ \A i \in 1..Size(pg, p) :
             /\ pg[p].items[i] \in t.nodes
             /\ t.level[pg[p].items[i]] = t.level[p] - 1
             /\ t.parent[pg[p].items[i]] = p
      /\ \A i, j \in 1..Size(pg, p) : pg[p].items[i] = pg[p].items[j] => i = j
  BY DEF IsInternal
<1>3. t.under[p] \subseteq Keys
  BY DEF IsInternal
<1>4. ASSUME NEW k PROVE k \in t.under[p] <=> \E i \in 1..Size(pg, p) : k \in Part(pg, t, p, i)
  <2>1. k \in t.under[p] <=> \E i \in 1..z : k \in t.under[n[i]]
    BY DEF IsInternal
  <2> QED BY <1>1, <2>1
<1>5. ASSUME NEW i \in 1..Size(pg, p), NEW j \in 1..Size(pg, p), i < j
      PROVE  \A x \in Part(pg, t, p, i), y \in Part(pg, t, p, j) : x < y
  <2>1. \A x \in t.under[n[i]], y \in t.under[n[j]] : x < y
    BY <1>5 DEF IsInternal
  <2> QED BY <1>1, <2>1
<1>6. /\ t.level[p] \in Nat \ {0} /\ pg[p].leaf \in BOOLEAN /\ (pg[p].leaf <=> t.level[p] = 1)
      /\ ~pg[p].leaf
  <2>1. t.level[p] \in Nat \ {0} /\ t.level[p] # 1
    OBVIOUS
  <2>2. pg[p].leaf \in BOOLEAN /\ ~pg[p].leaf
    OBVIOUS
  <2> QED BY <2>1, <2>2
<1> QED BY <1>2, <1>3, <1>4, <1>5, <1>6 DEF NodeOK

\* nt is t with one more page m, empty, at the level of l.
IsGrown(t, nt, m, l) ==
    /\ nt.nodes = t.nodes \cup {m} /\ m \notin t.nodes
    /\ \A p \in t.nodes : SaysTheSame(t, nt, p)
    /\ nt.level[m] = t.level[l] /\ nt.under[m] = {}

\* A page that holds nothing may join page P, after its child l.
LEMMA AddEmptyChild ==
    ASSUME CapacityAssumption, NEW pg, NEW root, NEW t, Tree(pg, root, t),
           NEW P \in t.nodes, ~pg[P].leaf, NEW j \in 1..Size(pg, P), NEW l, l = pg[P].items[j],
           NEW m \in Nat, m \notin t.nodes,
           NEW npg, t.nodes \cup {m} \subseteq DOMAIN npg, SameItems(pg, npg, t.nodes \ {P}),
           npg[P].leaf = pg[P].leaf, npg[P].items = InsertAt(pg[P].items, j + 1, m),
           npg[m].leaf = pg[l].leaf, npg[m].items = <<>>
    PROVE  \E nt : Tree(npg, root, nt) /\ IsGrown(t, nt, m, l)
<1> DEFINE parent == [p \in t.nodes \cup {m} |-> IF p = m THEN P ELSE t.parent[p]]
           level == [p \in t.nodes \cup {m} |-> IF p = m THEN t.level[l] ELSE t.level[p]]
           under == [p \in t.nodes \cup {m} |-> IF p = m THEN {} ELSE t.under[p]]
           first == [p \in t.nodes \cup {m} |-> IF p = m THEN m ELSE t.first[p]]
           s == pg[P].items
           n == npg[P].items
<1>0. /\ root \in t.nodes /\ t.parent[root] = None /\ None \notin t.nodes
      /\ \A p \in t.nodes : NodeOK(pg, t, p)
      /\ m # None
  BY DEF Tree, CapacityAssumption
<1>1. InternalShape(pg, t, P)
  BY <1>0, InternalFacts
<1>2. /\ l \in t.nodes /\ t.level[l] = t.level[P] - 1 /\ NodeOK(pg, t, l)
      /\ s \in Seq(Nat) /\ Len(s) \in Nat /\ Len(s) = Size(pg, P) /\ j \in 1..Len(s)
  BY <1>0, <1>1 DEF InternalShape, Size
<1>3. PICK nt : nt = [nodes |-> t.nodes \cup {m}, level |-> level, parent |-> parent, under |-> under, first |-> first]
  OBVIOUS
<1>4. /\ nt.nodes = t.nodes \cup {m}
      /\ \A p \in t.nodes : SaysTheSame(t, nt, p) /\ nt.parent[p] = t.parent[p]
      /\ nt.level[m] = t.level[l] /\ nt.parent[m] = P /\ nt.under[m] = {} /\ nt.first[m] = m
  BY <1>3 DEF SaysTheSame
<1>5. n \in Seq(Nat) /\ IsInsertion(s, j + 1, m, n)
  <2>1. j + 1 \in 1..(Len(s) + 1) /\ s \in Seq(Nat)
    BY <1>2
  <2>2. n = InsertAt(s, j + 1, m)
    OBVIOUS
  <2> HIDE DEF s, n
  <2>3. InsertAt(s, j + 1, m) \in Seq(Nat) /\ IsInsertion(s, j + 1, m, InsertAt(s, j + 1, m))
    BY <2>1, InsertAtIsInsertion
  <2> QED BY <2>2, <2>3
<1> HIDE DEF parent, level, under, first, s, n
<1>6. NodeOK(npg, nt, m)
  <2>1. Size(npg, m) = 0
    BY DEF Size
  <2>2. \A i, x : i \in 1..Size(npg, m) => x
    BY <2>1
  <2>3. nt.level[m] \in Nat \ {0} /\ npg[m].leaf \in BOOLEAN /\ (npg[m].leaf <=> nt.level[m] = 1)
    BY <1>2, <1>4 DEF NodeOK
  <2>4. npg[m].items \in Seq({Item(k) : k \in Keys}) /\ npg[m].items \in Seq(Nat)
    OBVIOUS
  <2> QED BY <1>4, <2>1, <2>2, <2>3, <2>4 DEF NodeOK
<1>7. ASSUME NEW p \in t.nodes, p # P PROVE NodeOK(npg, nt, p)
  <2>1. npg[p].leaf = pg[p].leaf /\ npg[p].items = pg[p].items
    BY <1>7 DEF SameItems
  <2>2. ASSUME ~pg[p].leaf, NEW i \in 1..Size(pg, p)
        PROVE  /\ pg[p].items[i] \in nt.nodes /\ nt.parent[pg[p].items[i]] = p
               /\ SaysTheSame(t, nt, pg[p].items[i])
    <3>1. InternalShape(pg, t, p)
      BY <1>0, <2>2, InternalFacts
    <3> QED BY <1>4, <2>2, <3>1 DEF InternalShape
  <2> QED BY <1>0, <1>4, <2>1, <2>2, NodeKept
<1>8. NodeOK(npg, nt, P)
  <2> DEFINE z == Size(pg, P)
             old(i) == IF i < j + 1 THEN i ELSE i - 1
             u(i) == t.under[s[i]]
  <2>1. /\ Size(npg, P) = z + 1 /\ z \in Nat
        /\ \A i \in 1..(z + 1) : n[i] = IF i < j + 1 THEN s[i] ELSE IF i = j + 1 THEN m ELSE s[i - 1]
    BY <1>2, <1>5 DEF Size, IsInsertion, n
  <2>2. /\ \A i \in 1..z : s[i] \in t.nodes /\ t.level[s[i]] = t.level[P] - 1 /\ t.parent[s[i]] = P
        /\ \A i, k \in 1..z : s[i] = s[k] => i = k
        /\ \A k \in t.under[P] : \E i \in 1..z : k \in u(i)
        /\ \A i \in 1..z : u(i) \subseteq t.under[P]
        /\ \A i, k \in 1..z : i < k => \A x \in u(i), y \in u(k) : x < y
        /\ z >= 1 => t.first[P] = t.first[s[1]]
        /\ t.under[P] \subseteq Keys
    BY <1>1 DEF InternalShape, s
  <2>3. j \in 1..z
    BY <1>2
  <2> HIDE DEF z, u
  <2>4. \A i \in 1..(z + 1) : i # j + 1 => old(i) \in 1..z /\ n[i] = s[old(i)]
    BY <2>1, <2>3
  <2>5. n[j + 1] = m /\ j + 1 \in 1..(z + 1)
    BY <2>1, <2>3
  <2>6. \A i \in 1..(z + 1) : n[i] \in nt.nodes /\ nt.level[n[i]] = t.level[P] - 1 /\ nt.parent[n[i]] = P
    <3> SUFFICES ASSUME NEW i \in 1..(z + 1)
                 PROVE  n[i] \in nt.nodes /\ nt.level[n[i]] = t.level[P] - 1 /\ nt.parent[n[i]] = P
      OBVIOUS
    <3>1. CASE i = j + 1
      BY <1>2, <1>4, <2>5, <3>1
    <3>2. CASE i # j + 1
      <4>1. n[i] \in t.nodes /\ t.level[n[i]] = t.level[P] - 1 /\ t.parent[n[i]] = P
        BY <2>2, <2>4, <3>2
      <4> QED BY <1>4, <4>1 DEF SaysTheSame
    <3> QED BY <3>1, <3>2
  <2>7. ASSUME NEW i \in 1..(z + 1), NEW k \in 1..(z + 1), n[i] = n[k] PROVE i = k
    <3>1. \A q \in 1..z : s[q] # m
      BY <2>2
    <3>2. i = j + 1 <=> k = j + 1
      BY <2>4, <2>5, <2>7, <3>1
    <3>3. CASE i # j + 1
      <4>1. old(i) \in 1..z /\ old(k) \in 1..z /\ s[old(i)] = s[old(k)]
        BY <2>4, <2>7, <3>2, <3>3
      <4>2. old(i) = old(k)
        <5> HIDE DEF old
        <5> QED BY <2>2, <4>1
      <4> QED BY <2>1, <2>3, <3>2, <3>3, <4>2
    <3> QED BY <3>2, <3>3
  <2>8. /\ \A i \in 1..(z + 1) : i # j + 1 => nt.under[n[i]] = u(old(i))
        /\ nt.under[n[j + 1]] = {}
    <3>1. ASSUME NEW i \in 1..(z + 1), i # j + 1 PROVE nt.under[n[i]] = u(old(i))
      <4>1. n[i] = s[old(i)] /\ s[old(i)] \in t.nodes
        BY <2>2, <2>4, <3>1
      <4> QED BY <1>4, <4>1 DEF u, SaysTheSame
    <3> QED BY <1>4, <2>5, <3>1
  <2>9. ASSUME NEW k PROVE k \in nt.under[P] <=> \E i \in 1..(z + 1) : k \in nt.under[n[i]]
    <3>0. nt.under[P] = t.under[P]
      BY <1>4 DEF SaysTheSame
    <3>1. ASSUME k \in t.under[P] PROVE \E i \in 1..(z + 1) : k \in nt.under[n[i]]
      <4>1. PICK i \in 1..z : k \in u(i)
        BY <2>2, <3>1
      <4>2. CASE i < j + 1
        <5>1. i \in 1..(z + 1) /\ i # j + 1 /\ old(i) = i
          BY <2>1, <2>3, <4>2
        <5> QED BY <2>8, <4>1, <5>1
      <4>3. CASE ~(i < j + 1)
        <5>1. i + 1 \in 1..(z + 1) /\ i + 1 # j + 1 /\ old(i + 1) = i
          BY <2>1, <2>3, <4>3
        <5> QED BY <2>8, <4>1, <5>1
      <4> QED BY <4>2, <4>3
    <3>2. ASSUME NEW i \in 1..(z + 1), k \in nt.under[n[i]] PROVE k \in t.under[P]
      <4>1. i # j + 1
        BY <2>8, <3>2
      <4>2. k \in u(old(i)) /\ old(i) \in 1..z
        BY <2>4, <2>8, <3>2, <4>1
      <4> QED BY <2>2, <4>2
    <3> QED BY <3>0, <3>1, <3>2
  <2>10. ASSUME NEW i \in 1..(z + 1), NEW k \in 1..(z + 1), i < k,
                NEW x \in nt.under[n[i]], NEW y \in nt.under[n[k]]
         PROVE  x < y
    <3>1. i # j + 1 /\ k # j + 1
      BY <2>8, <2>10
    <3>2. old(i) \in 1..z /\ old(k) \in 1..z /\ x \in u(old(i)) /\ y \in u(old(k))
      BY <2>4, <2>8, <2>10, <3>1
    <3>3. old(i) < old(k)
      BY <2>1, <2>3, <2>10, <3>1
    <3> HIDE DEF old
    <3> QED BY <2>2, <3>2, <3>3
  <2>11. nt.first[P] = nt.first[n[1]]
    <3>1. 1 \in 1..(z + 1) /\ 1 # j + 1 /\ old(1) = 1 /\ z >= 1 /\ 1 \in 1..z
      BY <2>1, <2>3
    <3>2. n[1] = s[1] /\ s[1] \in t.nodes
      BY <2>2, <2>4, <3>1
    <3> QED BY <1>4, <2>2, <3>1, <3>2 DEF SaysTheSame
  <2>12. nt.level[P] = t.level[P] /\ nt.under[P] = t.under[P]
    BY <1>4 DEF SaysTheSame
  <2>13. t.level[P] \in Nat \ {0} /\ ~npg[P].leaf /\ npg[P].leaf \in BOOLEAN /\ t.level[P] # 1
    BY <1>0 DEF NodeOK
  <2> HIDE DEF old
  <2>14. IsInternal(nt, P, n, z + 1)
    BY <1>5, <2>2, <2>6, <2>7, <2>9, <2>10, <2>11, <2>12 DEF IsInternal
  <2>15. npg[P].items = n
    BY DEF n
  <2>16. nt.level[P] \in Nat /\ nt.level[P] > 1 /\ npg[P].leaf = FALSE /\ Size(npg, P) = z + 1
    BY <2>1, <2>12, <2>13
  <2> QED BY <2>14, <2>15, <2>16, InternalIsOK
<1>9. Tree(npg, root, nt)
  BY <1>0, <1>4, <1>6, <1>7, <1>8 DEF Tree
<1> QED BY <1>4, <1>9 DEF IsGrown

\* nt is t without page r.
IsShrunk(t, nt, r) ==
    /\ nt.nodes = t.nodes \ {r}
    /\ nt.level = t.level /\ nt.under = t.under /\ nt.first = t.first

\* A child that holds nothing may be taken from its parent, unless it is the first.
LEMMA DropEmptyChild ==
    ASSUME NEW pg, NEW root, NEW t, Tree(pg, root, t),
           NEW P \in t.nodes, ~pg[P].leaf, NEW j \in 2..Size(pg, P), NEW r, r = pg[P].items[j],
           Size(pg, r) = 0,
           NEW npg, t.nodes \ {r} \subseteq DOMAIN npg, SameItems(pg, npg, t.nodes \ {P, r}),
           npg[P].leaf = pg[P].leaf, npg[P].items = RemoveAt(pg[P].items, j)
    PROVE  \E nt : Tree(npg, root, nt) /\ IsShrunk(t, nt, r)
<1> DEFINE s == pg[P].items
           n == npg[P].items
<1>0. /\ root \in t.nodes /\ t.parent[root] = None /\ None \notin t.nodes
      /\ \A p \in t.nodes : NodeOK(pg, t, p)
  BY DEF Tree
<1>1. InternalShape(pg, t, P)
  BY <1>0, InternalFacts
<1>2. /\ r \in t.nodes /\ t.level[r] = t.level[P] - 1 /\ t.parent[r] = P /\ t.level[P] \in Nat
      /\ s \in Seq(Nat) /\ Len(s) \in Nat /\ Len(s) = Size(pg, P) /\ j \in 1..Len(s)
  BY <1>0, <1>1 DEF InternalShape, Size
<1>3. PICK nt : nt = [nodes |-> t.nodes \ {r}, level |-> t.level, parent |-> t.parent, under |-> t.under, first |-> t.first]
  OBVIOUS
<1>4. nt.nodes = t.nodes \ {r} /\ nt.level = t.level /\ nt.parent = t.parent /\ nt.under = t.under /\ nt.first = t.first
  BY <1>3
<1>5. n \in Seq(Nat) /\ IsRemoval(s, j, n)
  BY <1>2, RemoveAtIsRemoval
<1>6. r # P /\ t.under[r] = {}
  <2>1. NodeOK(pg, t, r)
    BY <1>0, <1>2
  <2> QED BY <1>2, <2>1 DEF NodeOK
<1> HIDE DEF s, n
<1>7. ASSUME NEW p \in t.nodes, p # P, p # r PROVE NodeOK(npg, nt, p)
  <2>1. npg[p].leaf = pg[p].leaf /\ npg[p].items = pg[p].items
    BY <1>7 DEF SameItems
  <2>2. ASSUME ~pg[p].leaf, NEW i \in 1..Size(pg, p)
        PROVE  /\ pg[p].items[i] \in nt.nodes /\ nt.parent[pg[p].items[i]] = p
               /\ SaysTheSame(t, nt, pg[p].items[i])
    <3>1. InternalShape(pg, t, p)
      BY <1>0, <2>2, InternalFacts
    <3>2. pg[p].items[i] \in t.nodes /\ t.parent[pg[p].items[i]] = p
      BY <2>2, <3>1 DEF InternalShape
    <3>3. pg[p].items[i] # r
      BY <1>2, <1>7, <3>2
    <3> QED BY <1>4, <3>2, <3>3 DEF SaysTheSame
  <2> QED BY <1>0, <1>4, <2>1, <2>2, NodeKept DEF SaysTheSame
<1>8. NodeOK(npg, nt, P)
  <2> DEFINE z == Size(pg, P)
             old(i) == IF i < j THEN i ELSE i + 1
             u(i) == t.under[s[i]]
  <2>1. /\ Size(npg, P) = z - 1 /\ z \in Nat
        /\ \A i \in 1..(z - 1) : n[i] = IF i < j THEN s[i] ELSE s[i + 1]
    BY <1>2, <1>5 DEF Size, IsRemoval, n
  <2>2. /\ \A i \in 1..z : s[i] \in t.nodes /\ t.level[s[i]] = t.level[P] - 1 /\ t.parent[s[i]] = P
        /\ \A i, k \in 1..z : s[i] = s[k] => i = k
        /\ \A k \in t.under[P] : \E i \in 1..z : k \in u(i)
        /\ \A i \in 1..z : u(i) \subseteq t.under[P]
        /\ \A i, k \in 1..z : i < k => \A x \in u(i), y \in u(k) : x < y
        /\ z >= 1 => t.first[P] = t.first[s[1]]
        /\ t.under[P] \subseteq Keys
    BY <1>1 DEF InternalShape, s
  <2>3. j \in 2..z /\ s[j] = r /\ u(j) = {}
    BY <1>2, <1>6 DEF s
  <2> HIDE DEF z, u
  <2>4. \A i \in 1..(z - 1) : old(i) \in 1..z /\ n[i] = s[old(i)] /\ old(i) # j
    BY <2>1, <2>3
  <2>5. \A i \in 1..(z - 1) : n[i] \in t.nodes /\ n[i] # r /\ t.level[n[i]] = t.level[P] - 1 /\ t.parent[n[i]] = P
    <3> SUFFICES ASSUME NEW i \in 1..(z - 1)
                 PROVE  n[i] \in t.nodes /\ n[i] # r /\ t.level[n[i]] = t.level[P] - 1 /\ t.parent[n[i]] = P
      OBVIOUS
    <3>1. old(i) \in 1..z /\ n[i] = s[old(i)] /\ old(i) # j /\ j \in 1..z
      BY <2>1, <2>3, <2>4
    <3> HIDE DEF old
    <3> QED BY <2>2, <2>3, <3>1
  <2>6. ASSUME NEW i \in 1..(z - 1), NEW k \in 1..(z - 1), n[i] = n[k] PROVE i = k
    <3>1. old(i) = old(k)
      <4>1. old(i) \in 1..z /\ old(k) \in 1..z /\ s[old(i)] = s[old(k)]
        BY <2>4, <2>6
      <4> HIDE DEF old
      <4> QED BY <2>2, <4>1
    <3> QED BY <2>1, <2>3, <3>1
  <2>7. \A i \in 1..(z - 1) : t.under[n[i]] = u(old(i))
    BY <2>4 DEF u
  <2>8. ASSUME NEW k PROVE k \in t.under[P] <=> \E i \in 1..(z - 1) : k \in t.under[n[i]]
    <3>1. ASSUME k \in t.under[P] PROVE \E i \in 1..(z - 1) : k \in t.under[n[i]]
      <4>1. PICK i \in 1..z : k \in u(i)
        BY <2>2, <3>1
      <4>2. i # j
        BY <2>3, <4>1
      <4>3. CASE i < j
        <5>1. i \in 1..(z - 1) /\ old(i) = i
          BY <2>1, <2>3, <4>3
        <5> QED BY <2>7, <4>1, <5>1
      <4>4. CASE j < i
        <5>1. i - 1 \in 1..(z - 1) /\ old(i - 1) = i
          BY <2>1, <2>3, <4>4
        <5> QED BY <2>7, <4>1, <5>1
      <4> QED BY <2>3, <4>2, <4>3, <4>4
    <3>2. ASSUME NEW i \in 1..(z - 1), k \in t.under[n[i]] PROVE k \in t.under[P]
      BY <2>2, <2>4, <2>7, <3>2
    <3> QED BY <3>1, <3>2
  <2>9. ASSUME NEW i \in 1..(z - 1), NEW k \in 1..(z - 1), i < k,
                NEW x \in t.under[n[i]], NEW y \in t.under[n[k]]
         PROVE  x < y
    <3>2. old(i) \in 1..z /\ old(k) \in 1..z /\ x \in u(old(i)) /\ y \in u(old(k))
      BY <2>4, <2>7, <2>9
    <3>3. old(i) < old(k)
      BY <2>1, <2>3, <2>9
    <3> HIDE DEF old
    <3> QED BY <2>2, <3>2, <3>3
  <2>10. t.first[P] = t.first[n[1]]
    <3>1. 1 \in 1..(z - 1) /\ old(1) = 1 /\ z >= 1 /\ 1 \in 1..z
      BY <2>1, <2>3
    <3>2. n[1] = s[1]
      BY <2>4, <3>1
    <3> QED BY <2>2, <3>1, <3>2
  <2>12. t.level[P] \in Nat \ {0} /\ ~npg[P].leaf /\ npg[P].leaf \in BOOLEAN /\ t.level[P] # 1
    BY <1>0 DEF NodeOK
  <2> HIDE DEF old
  <2>13. IsInternal(nt, P, n, z - 1)
    <3>1. n \in Seq(Nat) /\ nt.under[P] \subseteq Keys
      BY <1>4, <1>5, <2>2
    <3>2. nt.first[P] = nt.first[n[1]]
      BY <1>4, <2>10
    <3>3. \A i \in 1..(z - 1) : n[i] \in nt.nodes /\ nt.level[n[i]] = nt.level[P] - 1 /\ nt.parent[n[i]] = P
      BY <1>4, <2>5
    <3>4. \A k : k \in nt.under[P] <=> \E i \in 1..(z - 1) : k \in nt.under[n[i]]
      BY <1>4, <2>8
    <3>5. \A i, k \in 1..(z - 1) : i < k => \A x \in nt.under[n[i]], y \in nt.under[n[k]] : x < y
      BY <1>4, <2>9
    <3>6. \A i, k \in 1..(z - 1) : n[i] = n[k] => i = k
      BY <2>6
    <3> QED BY <3>1, <3>2, <3>3, <3>4, <3>5, <3>6 DEF IsInternal
  <2>14. npg[P].items = n
    BY DEF n
  <2>16. nt.level[P] \in Nat /\ nt.level[P] > 1 /\ npg[P].leaf = FALSE /\ Size(npg, P) = z - 1
    BY <1>4, <2>1, <2>12
  <2> QED BY <2>13, <2>14, <2>16, InternalIsOK
<1>9. Tree(npg, root, nt)
  <2>1. root # r
    BY <1>0, <1>2
  <2> QED BY <1>0, <1>4, <1>7, <1>8, <2>1 DEF Tree
<1> QED BY <1>4, <1>9 DEF IsShrunk

\* nt is t under a new root m.
IsRaised(t, nt, root, m) ==
    /\ nt.nodes = t.nodes \cup {m} /\ m \notin t.nodes
    /\ \A p \in t.nodes : SaysTheSame(t, nt, p)
    /\ nt.level[m] = t.level[root] + 1
    /\ nt.under[m] = t.under[root] /\ nt.first[m] = t.first[root]

\* A page whose only child is the root may become the root.
LEMMA RootAdded ==
    ASSUME CapacityAssumption, NEW pg, NEW root \in Nat, NEW t, Tree(pg, root, t),
           NEW m \in Nat, m \notin t.nodes,
           NEW npg, t.nodes \cup {m} \subseteq DOMAIN npg, SameItems(pg, npg, t.nodes),
           npg[m].leaf = FALSE, npg[m].items = <<root>>
    PROVE  \E nt : Tree(npg, m, nt) /\ IsRaised(t, nt, root, m)
<1> DEFINE parent == [p \in t.nodes \cup {m} |-> IF p = m THEN None ELSE IF p = root THEN m ELSE t.parent[p]]
           level == [p \in t.nodes \cup {m} |-> IF p = m THEN t.level[root] + 1 ELSE t.level[p]]
           under == [p \in t.nodes \cup {m} |-> IF p = m THEN t.under[root] ELSE t.under[p]]
           first == [p \in t.nodes \cup {m} |-> IF p = m THEN t.first[root] ELSE t.first[p]]
<1>0. /\ root \in t.nodes /\ t.parent[root] = None /\ None \notin t.nodes
      /\ \A p \in t.nodes : NodeOK(pg, t, p)
      /\ m # None /\ m # root
  BY DEF Tree, CapacityAssumption
<1>3. PICK nt : nt = [nodes |-> t.nodes \cup {m}, level |-> level, parent |-> parent, under |-> under, first |-> first]
  OBVIOUS
<1>4. /\ nt.nodes = t.nodes \cup {m}
      /\ \A p \in t.nodes : SaysTheSame(t, nt, p) /\ (p # root => nt.parent[p] = t.parent[p])
      /\ nt.level[m] = t.level[root] + 1 /\ nt.parent[m] = None /\ nt.parent[root] = m
      /\ nt.under[m] = t.under[root] /\ nt.first[m] = t.first[root]
  <2>1. \A p \in t.nodes : p # m
    OBVIOUS
  <2> QED BY <1>0, <1>3, <2>1 DEF SaysTheSame
<1> HIDE DEF parent, level, under, first
<1>5. ASSUME NEW p \in t.nodes PROVE NodeOK(npg, nt, p)
  <2>1. npg[p].leaf = pg[p].leaf /\ npg[p].items = pg[p].items
    BY DEF SameItems
  <2>2. ASSUME ~pg[p].leaf, NEW i \in 1..Size(pg, p)
        PROVE  /\ pg[p].items[i] \in nt.nodes /\ nt.parent[pg[p].items[i]] = p
               /\ SaysTheSame(t, nt, pg[p].items[i])
    <3>1. InternalShape(pg, t, p)
      BY <1>0, <2>2, InternalFacts
    <3>2. pg[p].items[i] \in t.nodes /\ t.parent[pg[p].items[i]] = p
      BY <2>2, <3>1 DEF InternalShape
    <3>3. pg[p].items[i] # root
      BY <1>0, <3>2
    <3> QED BY <1>4, <3>2, <3>3
  <2> QED BY <1>0, <1>4, <2>1, <2>2, NodeKept
<1>6. NodeOK(npg, nt, m)
  <2>1. /\ t.level[root] \in Nat \ {0} /\ t.under[root] \subseteq Keys
    BY <1>0 DEF NodeOK
  <2>2. Size(npg, m) = 1 /\ npg[m].items[1] = root
    BY DEF Size
  <2>3. \A i : i \in 1..1 <=> i = 1
    OBVIOUS
  <2>4. nt.under[root] = nt.under[m] /\ nt.first[root] = nt.first[m] /\ nt.level[m] \in Nat /\ nt.level[m] > 1
        /\ nt.level[root] = nt.level[m] - 1 /\ nt.under[m] \subseteq Keys /\ nt.parent[root] = m /\ root \in nt.nodes
    BY <1>0, <1>4, <2>1 DEF SaysTheSame
  <2>5. \A i, j \in 1..1 : ~(i < j)
    OBVIOUS
  <2>6. IsInternal(nt, m, npg[m].items, 1)
    BY <2>2, <2>3, <2>4, <2>5 DEF IsInternal
  <2> QED BY <2>2, <2>4, <2>6, InternalIsOK
<1>7. Tree(npg, m, nt)
  BY <1>0, <1>4, <1>5, <1>6 DEF Tree
<1> QED BY <1>4, <1>7 DEF IsRaised

\* The only child of the root may take its place.
LEMMA DropRoot ==
    ASSUME NEW pg, NEW root, NEW t, Tree(pg, root, t), ~pg[root].leaf, Size(pg, root) = 1,
           NEW c, c = pg[root].items[1]
    PROVE  \E nt : /\ Tree(pg, c, nt) /\ IsShrunk(t, nt, root)
                   /\ c # root /\ t.level[c] = t.level[root] - 1
                   /\ t.under[c] = t.under[root] /\ t.first[c] = t.first[root]
<1>0. /\ root \in t.nodes /\ t.parent[root] = None /\ None \notin t.nodes /\ t.nodes \subseteq DOMAIN pg
      /\ \A p \in t.nodes : NodeOK(pg, t, p)
  BY DEF Tree
<1>1. InternalShape(pg, t, root)
  BY <1>0, InternalFacts
<1>2. /\ c \in t.nodes /\ t.level[c] = t.level[root] - 1 /\ t.parent[c] = root /\ t.level[root] \in Nat
      /\ t.first[c] = t.first[root] /\ t.under[c] \subseteq t.under[root]
  <2>1. 1 \in 1..Size(pg, root) /\ Size(pg, root) >= 1
    OBVIOUS
  <2> QED BY <1>1, <2>1 DEF InternalShape
<1>3. t.under[c] = t.under[root]
  <2>1. \A i \in 1..Size(pg, root) : i = 1
    OBVIOUS
  <2> QED BY <1>1, <1>2, <2>1 DEF InternalShape
<1> DEFINE parent == [p \in t.nodes |-> IF p = c THEN None ELSE t.parent[p]]
<1>4. PICK nt : nt = [nodes |-> t.nodes \ {root}, level |-> t.level, parent |-> parent, under |-> t.under, first |-> t.first]
  OBVIOUS
<1>5. /\ nt.nodes = t.nodes \ {root} /\ nt.level = t.level /\ nt.under = t.under /\ nt.first = t.first
      /\ nt.parent[c] = None /\ \A p \in t.nodes : p # c => nt.parent[p] = t.parent[p]
  BY <1>2, <1>4
<1> HIDE DEF parent
<1>6. c # root
  BY <1>2
<1>7. ASSUME NEW p \in t.nodes, p # root PROVE NodeOK(pg, nt, p)
  <2>2. ASSUME ~pg[p].leaf, NEW i \in 1..Size(pg, p)
        PROVE  /\ pg[p].items[i] \in nt.nodes /\ nt.parent[pg[p].items[i]] = p
               /\ SaysTheSame(t, nt, pg[p].items[i])
    <3>1. InternalShape(pg, t, p)
      BY <1>0, <2>2, InternalFacts
    <3>2. pg[p].items[i] \in t.nodes /\ t.parent[pg[p].items[i]] = p
      BY <2>2, <3>1 DEF InternalShape
    <3>3. pg[p].items[i] # root /\ pg[p].items[i] # c
      BY <1>0, <1>2, <1>7, <3>2
    <3> QED BY <1>5, <3>2, <3>3 DEF SaysTheSame
  <2> QED BY <1>0, <1>5, <2>2, NodeKept DEF SaysTheSame
<1>8. Tree(pg, c, nt)
  BY <1>0, <1>2, <1>5, <1>6, <1>7 DEF Tree
<1> QED BY <1>2, <1>3, <1>5, <1>6, <1>8 DEF IsShrunk

\* The items of a leaf that has the keys S.
LeafHolds(items, S) ==
    /\ items \in Seq({Item(k) : k \in Keys})
    /\ \A x : x \in S <=> \E i \in 1..Len(items) : items[i].key = x
    /\ \A i, j \in 1..Len(items) : i < j => items[i].key < items[j].key

\* The pages that find_leaf reads.
Passed(t, root, d) == {d[i] : i \in 1..t.level[root]}

\* nt is t with keys new instead of k under the pages of the way d.
IsChanged(t, nt, root, d, k, new) ==
    /\ nt.nodes = t.nodes /\ nt.level = t.level /\ nt.first = t.first
    /\ \A q \in t.nodes : nt.under[q] = IF q \in Passed(t, root, d) THEN (t.under[q] \ {k}) \cup new ELSE t.under[q]

\* What is known of the way of find_leaf to key k.
PathShape(pg, t, root, k, d) ==
    /\ t.level[root] \in Nat \ {0} /\ Passed(t, root, d) \subseteq t.nodes
    /\ d[1] = root /\ root \in Passed(t, root, d)
    /\ Last(d) \in Passed(t, root, d) /\ pg[Last(d)].leaf
    /\ \A q \in Passed(t, root, d) : pg[q].leaf => q = Last(d)
    /\ \A q \in Passed(t, root, d) : k \in t.under[q] <=> k \in t.under[root]
    /\ \A q \in t.nodes : ~pg[q].leaf => \A i \in 1..Size(pg, q) :
           pg[q].items[i] \in Passed(t, root, d) <=> (q \in Passed(t, root, d) /\ i = ChildIndex(pg[q], k))
    /\ \A q \in Passed(t, root, d) : ~pg[q].leaf => IsWayTo(pg, t, q, k, ChildIndex(pg[q], k))

\* The way of find_leaf, for the key it is asked for.
LEMMA PathFacts ==
    ASSUME NEW pg, NEW root, NEW t, Tree(pg, root, t), NEW k, NEW d, IsPath(pg, root, t, k, d)
    PROVE  PathShape(pg, t, root, k, d)
<1> DEFINE h == t.level[root]
           On == Passed(t, root, d)
<1>0. /\ root \in t.nodes /\ t.parent[root] = None /\ None \notin t.nodes
      /\ \A p \in t.nodes : NodeOK(pg, t, p)
  BY DEF Tree
<1>1. /\ h \in Nat \ {0} /\ d[1] = root /\ Last(d) = d[h] /\ pg[Last(d)].leaf
      /\ \A i \in 1..h : d[i] \in t.nodes /\ t.level[d[i]] = h + 1 - i /\ (k \in t.under[d[i]] <=> k \in t.under[root])
      /\ \A i \in 1..(h - 1) : /\ ~pg[d[i]].leaf
                               /\ IsWayTo(pg, t, d[i], k, ChildIndex(pg[d[i]], k))
                               /\ d[i + 1] = pg[d[i]].items[ChildIndex(pg[d[i]], k)]
  <2>1. h \in Nat \ {0}
    BY <1>0 DEF NodeOK
  <2> QED BY <2>1 DEF IsPath, IsDescent
<1> HIDE DEF h
<1>2. \A q : q \in On <=> \E i \in 1..h : q = d[i]
  BY DEF Passed, h
<1> HIDE DEF On
<1>3. On \subseteq t.nodes /\ root \in On /\ Last(d) \in On
  BY <1>1, <1>2
<1>4. ASSUME NEW q \in On, pg[q].leaf PROVE q = Last(d)
  <2>1. PICK i \in 1..h : q = d[i]
    BY <1>2
  <2>2. t.level[q] = 1
    BY <1>0, <1>3, <1>4 DEF NodeOK
  <2>3. i = h
    BY <1>1, <2>1, <2>2
  <2> QED BY <1>1, <2>1, <2>3
<1>5. ASSUME NEW q \in On, ~pg[q].leaf
      PROVE  \E i \in 1..(h - 1) : q = d[i]
  <2>1. PICK i \in 1..h : q = d[i]
    BY <1>2
  <2>2. i # h
    BY <1>1, <1>5, <2>1
  <2> QED BY <1>1, <2>1, <2>2
<1>6. ASSUME NEW q \in On, ~pg[q].leaf PROVE IsWayTo(pg, t, q, k, ChildIndex(pg[q], k))
  BY <1>1, <1>5, <1>6
<1>7. ASSUME NEW q \in t.nodes, ~pg[q].leaf, NEW i \in 1..Size(pg, q)
      PROVE  pg[q].items[i] \in On <=> (q \in On /\ i = ChildIndex(pg[q], k))
  <2> DEFINE c == pg[q].items[i]
  <2>0. InternalShape(pg, t, q)
    BY <1>0, <1>7, InternalFacts
  <2>1. c \in t.nodes /\ t.parent[c] = q /\ t.level[c] = t.level[q] - 1 /\ t.level[q] \in Nat
    BY <2>0 DEF InternalShape
  <2>2. ASSUME NEW m \in 1..(h - 1)
        PROVE  /\ d[m + 1] = pg[d[m]].items[ChildIndex(pg[d[m]], k)] /\ t.parent[d[m + 1]] = d[m]
               /\ ChildIndex(pg[d[m]], k) \in 1..Size(pg, d[m])
    <3>1. InternalShape(pg, t, d[m]) /\ ChildIndex(pg[d[m]], k) \in 1..Size(pg, d[m])
      <4>1. d[m] \in t.nodes /\ ~pg[d[m]].leaf
        BY <1>1
      <4> QED BY <1>0, <1>1, <4>1, InternalFacts DEF IsWayTo
    <3>2. d[m] = d[m] /\ d[m + 1] = pg[d[m]].items[ChildIndex(pg[d[m]], k)]
      BY <1>1
    <3>3. \A y \in 1..Size(pg, d[m]) : t.parent[pg[d[m]].items[y]] = d[m]
      BY <3>1 DEF InternalShape
    <3> QED BY <3>1, <3>2, <3>3
  <2>3. ASSUME q \in On, i = ChildIndex(pg[q], k) PROVE c \in On
    <3>1. PICK m \in 1..(h - 1) : q = d[m]
      BY <1>5, <1>7, <2>3
    <3>2. m + 1 \in 1..h /\ c = d[m + 1]
      BY <1>1, <2>2, <2>3, <3>1
    <3> QED BY <1>2, <3>2
  <2>4. ASSUME c \in On PROVE q \in On /\ i = ChildIndex(pg[q], k)
    <3>1. PICK n \in 1..h : c = d[n]
      BY <1>2, <2>4
    <3>2. n # 1
      BY <1>0, <1>1, <1>7, <2>1, <3>1
    <3>3. PICK m \in 1..(h - 1) : n = m + 1
      <4>1. n - 1 \in 1..(h - 1) /\ n = (n - 1) + 1
        BY <1>1, <3>2
      <4> QED BY <4>1
    <3>4. q = d[m] /\ m \in 1..h
      BY <1>1, <2>1, <2>2, <3>1, <3>3
    <3>5. pg[q].items[i] = pg[q].items[ChildIndex(pg[q], k)] /\ ChildIndex(pg[q], k) \in 1..Size(pg, q)
      BY <2>2, <3>1, <3>3, <3>4
    <3>6. i = ChildIndex(pg[q], k)
      BY <2>0, <3>5 DEF InternalShape
    <3> QED BY <1>2, <3>4, <3>6
  <2> QED BY <2>3, <2>4
<1>8. \A q \in On : k \in t.under[q] <=> k \in t.under[root]
  BY <1>1, <1>2
<1> QED BY <1>1, <1>3, <1>4, <1>6, <1>7, <1>8 DEF PathShape, On, h

\* The leaf where k belongs may get or lose it.
LEMMA ChangeKey ==
    ASSUME NEW pg, NEW root, NEW t, Tree(pg, root, t), NEW k \in Keys, NEW d, PathShape(pg, t, root, k, d),
           NEW new, new \subseteq {k},
           NEW npg, t.nodes \subseteq DOMAIN npg, SameItems(pg, npg, t.nodes \ {Last(d)}),
           npg[Last(d)].leaf = TRUE, LeafHolds(npg[Last(d)].items, (t.under[Last(d)] \ {k}) \cup new)
    PROVE  \E nt : Tree(npg, root, nt) /\ IsChanged(t, nt, root, d, k, new)
<1> DEFINE On == Passed(t, root, d)
           C(S) == (S \ {k}) \cup new
           under == [q \in t.nodes |-> IF q \in On THEN C(t.under[q]) ELSE t.under[q]]
           p == Last(d)
<1>0. /\ root \in t.nodes /\ t.parent[root] = None /\ None \notin t.nodes
      /\ \A q \in t.nodes : NodeOK(pg, t, q)
  BY DEF Tree
<1>1. PICK nt : nt = [nodes |-> t.nodes, level |-> t.level, parent |-> t.parent, under |-> under, first |-> t.first]
  OBVIOUS
<1>2. /\ nt.nodes = t.nodes /\ nt.level = t.level /\ nt.parent = t.parent /\ nt.first = t.first
      /\ \A q \in t.nodes : nt.under[q] = IF q \in On THEN C(t.under[q]) ELSE t.under[q]
  BY <1>1
<1> HIDE DEF under
<1>3. /\ On \subseteq t.nodes /\ p \in On /\ pg[p].leaf
      /\ \A q \in On : pg[q].leaf => q = p
      /\ \A q \in t.nodes : ~pg[q].leaf => \A i \in 1..Size(pg, q) :
             pg[q].items[i] \in On <=> (q \in On /\ i = ChildIndex(pg[q], k))
      /\ \A q \in On : ~pg[q].leaf => IsWayTo(pg, t, q, k, ChildIndex(pg[q], k))
  BY DEF PathShape
<1> HIDE DEF On, p
<1>4. NodeOK(npg, nt, p)
  <2>1. NodeOK(pg, t, p) /\ p \in t.nodes
    BY <1>0, <1>3
  <2>2. nt.under[p] = (t.under[p] \ {k}) \cup new
    BY <1>2, <1>3, <2>1
  <2>3. npg[p].leaf = TRUE /\ LeafHolds(npg[p].items, nt.under[p])
    BY <2>2 DEF p
  <2>4. \A i : Part(npg, nt, p, i) = {npg[p].items[i].key}
    BY <2>3 DEF Part
  <2>5. \A x : x \in nt.under[p] <=> \E i \in 1..Size(npg, p) : x \in Part(npg, nt, p, i)
    BY <2>3, <2>4 DEF LeafHolds, Size
  <2>6. \A i, j \in 1..Size(npg, p) : i < j => \A x \in Part(npg, nt, p, i), y \in Part(npg, nt, p, j) : x < y
    BY <2>3, <2>4 DEF LeafHolds, Size
  <2>7. nt.level[p] \in Nat \ {0} /\ nt.level[p] = 1 /\ nt.first[p] = p
    BY <1>2, <1>3, <2>1 DEF NodeOK
  <2>8. nt.under[p] \subseteq Keys
    BY <2>1, <2>2 DEF NodeOK
  <2>9. npg[p].items \in Seq({Item(x) : x \in Keys})
    BY <2>3 DEF LeafHolds
  <2> QED BY <2>3, <2>5, <2>6, <2>7, <2>8, <2>9 DEF NodeOK
<1>5. ASSUME NEW q \in t.nodes, q \notin On PROVE NodeOK(npg, nt, q)
  <2>1. npg[q].leaf = pg[q].leaf /\ npg[q].items = pg[q].items
    BY <1>3, <1>5 DEF SameItems, p
  <2>2. ASSUME ~pg[q].leaf, NEW i \in 1..Size(pg, q)
        PROVE  /\ pg[q].items[i] \in nt.nodes /\ nt.parent[pg[q].items[i]] = q
               /\ SaysTheSame(t, nt, pg[q].items[i])
    <3>1. InternalShape(pg, t, q)
      BY <1>0, <2>2, InternalFacts
    <3>2. pg[q].items[i] \in t.nodes /\ t.parent[pg[q].items[i]] = q
      BY <2>2, <3>1 DEF InternalShape
    <3>3. pg[q].items[i] \notin On
      BY <1>3, <1>5, <2>2
    <3>4. nt.under[pg[q].items[i]] = t.under[pg[q].items[i]]
      BY <1>2, <3>2, <3>3
    <3> QED BY <1>2, <3>2, <3>4 DEF SaysTheSame
  <2>3. nt.under[q] = t.under[q]
    BY <1>2, <1>5
  <2>4. SaysTheSame(t, nt, q)
    BY <1>2, <2>3 DEF SaysTheSame
  <2>5. NodeOK(pg, t, q)
    BY <1>0
  <2> QED BY <2>1, <2>2, <2>4, <2>5, NodeKept
<1>6. ASSUME NEW q \in On, q # p PROVE NodeOK(npg, nt, q)
  <2> DEFINE c == ChildIndex(pg[q], k)
             z == Size(pg, q)
             u(i) == t.under[pg[q].items[i]]
             s == pg[q].items
             v(i) == nt.under[s[i]]
  <2>1. q \in t.nodes /\ ~pg[q].leaf /\ npg[q].leaf = pg[q].leaf /\ npg[q].items = s
    BY <1>3, <1>6 DEF SameItems, p
  <2>2. InternalShape(pg, t, q) /\ IsWayTo(pg, t, q, k, c) /\ NodeOK(pg, t, q)
    BY <1>0, <1>3, <2>1, InternalFacts
  <2>3. /\ z \in Nat /\ z >= 1
        /\ s \in Seq(Nat)
        /\ t.level[q] \in Nat /\ t.level[q] > 1 /\ t.under[q] \subseteq Keys
        /\ t.first[q] = t.first[s[1]]
        /\ \A i \in 1..z : s[i] \in t.nodes /\ t.level[s[i]] = t.level[q] - 1 /\ t.parent[s[i]] = q /\ u(i) \subseteq t.under[q]
        /\ \A i, j \in 1..z : s[i] = s[j] => i = j
        /\ \A x \in t.under[q] : \E i \in 1..z : x \in u(i)
        /\ \A i, j \in 1..z : i < j => \A x \in u(i), y \in u(j) : x < y
        /\ c \in 1..z
        /\ \A i \in 1..z : i < c => \A x \in u(i) : x < k
        /\ \A i \in 1..z : c < i => \A x \in u(i) : k < x
    <3>1. c \in 1..z /\ z \in Nat /\ z >= 1
      BY <2>2 DEF InternalShape, IsWayTo
    <3> QED BY <2>2, <3>1 DEF InternalShape, IsWayTo
  <2>4. ASSUME NEW i \in 1..z PROVE v(i) = IF i = c THEN C(u(i)) ELSE u(i)
    <3>1. s[i] \in On <=> i = c
      BY <1>3, <1>6, <2>1
    <3>2. s[i] \in t.nodes
      BY <2>3
    <3> QED BY <1>2, <3>1, <3>2
  <2>5. nt.under[q] = C(t.under[q])
    BY <1>2, <2>1
  <2> HIDE DEF c, z, u, s, v
  <2>6. ASSUME NEW x PROVE x \in nt.under[q] <=> \E i \in 1..z : x \in v(i)
    <3>1. ASSUME NEW i \in 1..z, x \in v(i) PROVE x \in nt.under[q]
      <4>1. CASE i = c
        BY <2>3, <2>4, <2>5, <3>1, <4>1
      <4>2. CASE i # c
        <5>1. x \in u(i) /\ x \in t.under[q]
          BY <2>3, <2>4, <3>1, <4>2
        <5>2. x # k
          <6>1. i < c \/ c < i
            BY <2>3, <4>2
          <6>2. x < k \/ k < x
            BY <2>3, <5>1, <6>1
          <6>3. k \in Int
            BY KeysAssumption DEF KeysAssumption
          <6> QED BY <6>2, <6>3
        <5> QED BY <2>5, <5>1, <5>2
      <4> QED BY <4>1, <4>2
    <3>2. ASSUME x \in nt.under[q] PROVE \E i \in 1..z : x \in v(i)
      <4>1. CASE x = k
        BY <2>3, <2>4, <2>5, <3>2, <4>1
      <4>2. CASE x # k
        <5>1. PICK i \in 1..z : x \in u(i)
          BY <2>3, <2>5, <3>2, <4>2
        <5> QED BY <2>4, <4>2, <5>1
      <4> QED BY <4>1, <4>2
    <3> QED BY <3>1, <3>2
  <2>7. ASSUME NEW i \in 1..z, NEW j \in 1..z, i < j, NEW x \in v(i), NEW y \in v(j) PROVE x < y
    <3>1. (i = c /\ x = k) \/ x \in u(i)
      BY <2>4
    <3>2. (j = c /\ y = k) \/ y \in u(j)
      BY <2>4
    <3>3. ~(i = c /\ j = c)
      BY <2>7
    <3>4. CASE x \in u(i) /\ y \in u(j)
      BY <2>3, <2>7, <3>4
    <3>5. CASE i = c /\ x = k /\ y \in u(j)
      BY <2>3, <2>7, <3>5
    <3>6. CASE x \in u(i) /\ j = c /\ y = k
      BY <2>3, <2>7, <3>6
    <3> QED BY <3>1, <3>2, <3>3, <3>4, <3>5, <3>6
  <2>8. nt.under[q] \subseteq Keys
    BY <2>3, <2>5
  <2>9. IsInternal(nt, q, s, z)
    <3>1. nt.first[q] = nt.first[s[1]]
      BY <1>2, <2>3
    <3>2. \A i \in 1..z : s[i] \in nt.nodes /\ nt.level[s[i]] = nt.level[q] - 1 /\ nt.parent[s[i]] = q
      BY <1>2, <2>3
    <3> QED BY <2>3, <2>6, <2>7, <2>8, <3>1, <3>2 DEF IsInternal, v
  <2>10. nt.level[q] \in Nat /\ nt.level[q] > 1 /\ npg[q].leaf = FALSE /\ npg[q].items = s /\ Size(npg, q) = z
    <3>1. npg[q].leaf \in BOOLEAN
      BY <2>1, <2>2 DEF NodeOK
    <3>2. npg[q].leaf = FALSE
      BY <2>1, <3>1
    <3>3. npg[q].items = s
      BY <2>1 DEF s
    <3>4. Size(npg, q) = z
      BY <3>3 DEF Size, z, s
    <3> QED BY <1>2, <2>3, <3>2, <3>3, <3>4
  <2> QED BY <2>9, <2>10, InternalIsOK
<1>7. Tree(npg, root, nt)
  BY <1>0, <1>2, <1>4, <1>5, <1>6 DEF Tree
<1> QED BY <1>2, <1>7 DEF IsChanged, On

\* One leaf by itself.
IsLeafOf(pg, p, S) ==
    p \in Nat /\ p \in DOMAIN pg /\ pg[p].leaf = TRUE /\ S \subseteq Keys /\ LeafHolds(pg[p].items, S)

IsTreeOf(pg, p, S, t) ==
    /\ Tree(pg, p, t) /\ t.nodes = {p} /\ t.level[p] = 1 /\ t.under[p] = S /\ t.first[p] = p

\* A tree of one leaf.
LEMMA OneLeaf ==
    ASSUME CapacityAssumption, NEW p, NEW pg, NEW S, IsLeafOf(pg, p, S)
    PROVE  \E t : IsTreeOf(pg, p, S, t)
<1>0. p \in Nat /\ p \in DOMAIN pg /\ pg[p].leaf = TRUE /\ S \subseteq Keys /\ LeafHolds(pg[p].items, S)
  BY DEF IsLeafOf
<1>1. PICK t : t = [nodes |-> {p}, level |-> [q \in {p} |-> 1], parent |-> [q \in {p} |-> None],
                    under |-> [q \in {p} |-> S], first |-> [q \in {p} |-> p]]
  OBVIOUS
<1>2. t.nodes = {p} /\ t.level[p] = 1 /\ t.parent[p] = None /\ t.under[p] = S /\ t.first[p] = p
  BY <1>1
<1>3. NodeOK(pg, t, p)
  <2>1. \A i : Part(pg, t, p, i) = {pg[p].items[i].key}
    BY <1>0 DEF Part
  <2>2. \A x : x \in t.under[p] <=> \E i \in 1..Size(pg, p) : x \in Part(pg, t, p, i)
    <3>1. \A x : x \in S <=> \E i \in 1..Size(pg, p) : pg[p].items[i].key = x
      BY <1>0 DEF LeafHolds, Size
    <3>2. \A i, x : x \in Part(pg, t, p, i) <=> pg[p].items[i].key = x
      BY <2>1
    <3> QED BY <1>2, <3>1, <3>2
  <2>3. \A i, j \in 1..Size(pg, p) : i < j => \A x \in Part(pg, t, p, i), y \in Part(pg, t, p, j) : x < y
    BY <1>0, <2>1 DEF LeafHolds, Size
  <2>4. pg[p].items \in Seq({Item(x) : x \in Keys})
    BY <1>0 DEF LeafHolds
  <2>5. t.level[p] \in Nat \ {0}
    BY <1>2
  <2>6. pg[p].leaf /\ pg[p].leaf \in BOOLEAN
    BY <1>0
  <2>7. t.first[p] = p /\ t.level[p] = 1 /\ t.under[p] \subseteq Keys
    BY <1>0, <1>2
  <2> QED BY <2>2, <2>3, <2>4, <2>5, <2>6, <2>7 DEF NodeOK
<1>4. p # None
  BY <1>0 DEF CapacityAssumption
<1>5. Tree(pg, p, t)
  BY <1>0, <1>2, <1>3, <1>4 DEF Tree
<1> QED BY <1>2, <1>5 DEF IsTreeOf

\* What holds of the leaves, and of a node when it holds of its children,
\* holds of all the nodes.
LEMMA LevelInduction ==
    ASSUME NEW pg, NEW root, NEW t, Tree(pg, root, t), NEW S,
           \A p \in t.nodes : pg[p].leaf => p \in S,
           \A p \in t.nodes : ~pg[p].leaf /\ (\A i \in 1..Size(pg, p) : pg[p].items[i] \in S) => p \in S
    PROVE  \A p \in t.nodes : p \in S
<1>0. \A p \in t.nodes : NodeOK(pg, t, p)
  BY DEF Tree
<1>1. \A p \in t.nodes : t.level[p] \in Nat \ {0} /\ (pg[p].leaf <=> t.level[p] = 1)
  BY <1>0 DEF NodeOK
<1> DEFINE N == {n \in Nat : \A p \in t.nodes : t.level[p] = n + 1 => p \in S}
<1>2. 0 \in N
  BY <1>1
<1>3. ASSUME NEW n \in Nat, n \in N PROVE n + 1 \in N
  <2> SUFFICES ASSUME NEW p \in t.nodes, t.level[p] = (n + 1) + 1 PROVE p \in S
    OBVIOUS
  <2>1. ~pg[p].leaf
    BY <1>1
  <2>2. InternalShape(pg, t, p)
    BY <1>0, <2>1, InternalFacts
  <2>3. \A i \in 1..Size(pg, p) : pg[p].items[i] \in t.nodes /\ t.level[pg[p].items[i]] = n + 1
    BY <2>2 DEF InternalShape
  <2> QED BY <1>3, <2>1, <2>3
<1>4. Nat \subseteq N
  <2> HIDE DEF N
  <2> QED BY <1>2, <1>3, SetInduction
<1>5. ASSUME NEW p \in t.nodes PROVE p \in S
  <2>1. t.level[p] - 1 \in N /\ t.level[p] = (t.level[p] - 1) + 1
    <3>1. t.level[p] - 1 \in Nat /\ t.level[p] = (t.level[p] - 1) + 1
      BY <1>1
    <3> QED BY <1>4, <3>1
  <2> QED BY <2>1
<1> QED BY <1>5

\* Every internal node of the tree has a child.
NoneChildless(pg, t) == \A p \in t.nodes : ~pg[p].leaf => Size(pg, p) >= 1

\* What the first child has in common with its parent.
LEMMA FirstChild ==
    ASSUME NEW pg, NEW root, NEW t, Tree(pg, root, t), NoneChildless(pg, t), NEW p \in t.nodes, ~pg[p].leaf
    PROVE  /\ 1 \in 1..Size(pg, p)
           /\ pg[p].items[1] \in t.nodes /\ t.parent[pg[p].items[1]] = p
           /\ t.level[pg[p].items[1]] = t.level[p] - 1 /\ t.level[p] \in Nat /\ t.level[p] > 1
           /\ t.first[pg[p].items[1]] = t.first[p]
<1>1. InternalShape(pg, t, p)
  BY InternalFacts DEF Tree
<1>2. 1 \in 1..Size(pg, p) /\ Size(pg, p) >= 1
  BY <1>1 DEF InternalShape, NoneChildless
<1> QED BY <1>1, <1>2 DEF InternalShape

\* The first leaf under a page is a leaf of the tree.
LEMMA FirstIsLeaf ==
    ASSUME NEW pg, NEW root, NEW t, Tree(pg, root, t), NoneChildless(pg, t)
    PROVE  \A p \in t.nodes : t.first[p] \in t.nodes /\ t.level[t.first[p]] = 1
<1> DEFINE S == {p \in t.nodes : t.first[p] \in t.nodes /\ t.level[t.first[p]] = 1}
<1>1. ASSUME NEW p \in t.nodes, pg[p].leaf PROVE p \in S
  <2>1. NodeOK(pg, t, p)
    BY DEF Tree
  <2>2. t.first[p] = p /\ t.level[p] = 1
    BY <1>1, <2>1 DEF NodeOK
  <2> QED BY <2>2
<1>2. ASSUME NEW p \in t.nodes, ~pg[p].leaf, \A i \in 1..Size(pg, p) : pg[p].items[i] \in S PROVE p \in S
  BY <1>2, FirstChild
<1>3. \A p \in t.nodes : p \in S
  <2> HIDE DEF S
  <2> QED BY <1>1, <1>2, LevelInduction
<1> QED BY <1>3

\* Of the nodes of a level, each has its own first leaf.
LEMMA FirstIsUnique ==
    ASSUME NEW pg, NEW root, NEW t, Tree(pg, root, t), NoneChildless(pg, t)
    PROVE  \A p, q \in t.nodes : t.level[p] = t.level[q] /\ t.first[p] = t.first[q] => p = q
<1> DEFINE S == {p \in t.nodes : \A q \in t.nodes : t.level[p] = t.level[q] /\ t.first[p] = t.first[q] => p = q}
<1>0. \A p \in t.nodes : t.level[p] \in Nat \ {0} /\ (pg[p].leaf <=> t.level[p] = 1) /\ (pg[p].leaf => t.first[p] = p)
  BY DEF Tree, NodeOK
<1>1. ASSUME NEW p \in t.nodes, pg[p].leaf PROVE p \in S
  BY <1>0, <1>1
<1>2. ASSUME NEW p \in t.nodes, ~pg[p].leaf, \A i \in 1..Size(pg, p) : pg[p].items[i] \in S PROVE p \in S
  <2> SUFFICES ASSUME NEW q \in t.nodes, t.level[p] = t.level[q], t.first[p] = t.first[q] PROVE p = q
    OBVIOUS
  <2>1. ~pg[q].leaf
    BY <1>0, <1>2
  <2>2. /\ 1 \in 1..Size(pg, p) /\ t.parent[pg[p].items[1]] = p
        /\ t.level[pg[p].items[1]] = t.level[p] - 1 /\ t.first[pg[p].items[1]] = t.first[p]
    BY <1>2, FirstChild
  <2>3. /\ pg[q].items[1] \in t.nodes /\ t.parent[pg[q].items[1]] = q
        /\ t.level[pg[q].items[1]] = t.level[q] - 1 /\ t.first[pg[q].items[1]] = t.first[q]
    BY <2>1, FirstChild
  <2>4. pg[p].items[1] \in S
    BY <1>2, <2>2
  <2>5. pg[p].items[1] = pg[q].items[1]
    BY <2>2, <2>3, <2>4
  <2> QED BY <2>2, <2>3, <2>5
<1>3. \A p \in t.nodes : p \in S
  <2> HIDE DEF S
  <2> QED BY <1>1, <1>2, LevelInduction
<1> QED BY <1>3

\* A node with the first leaf of one above it is the first child of its parent.
LEMMA FirstBelow ==
    ASSUME NEW pg, NEW root, NEW t, Tree(pg, root, t), NoneChildless(pg, t)
    PROVE  \A p, c \in t.nodes : t.level[c] < t.level[p] /\ t.first[c] = t.first[p] =>
               t.parent[c] \in t.nodes /\ pg[t.parent[c]].items[1] = c
<1> DEFINE S == {p \in t.nodes : \A c \in t.nodes : t.level[c] < t.level[p] /\ t.first[c] = t.first[p] =>
                                     t.parent[c] \in t.nodes /\ pg[t.parent[c]].items[1] = c}
<1>0. \A p \in t.nodes : t.level[p] \in Nat \ {0} /\ (pg[p].leaf <=> t.level[p] = 1)
  BY DEF Tree, NodeOK
<1>1. ASSUME NEW p \in t.nodes, pg[p].leaf PROVE p \in S
  <2>1. \A c \in t.nodes : ~(t.level[c] < t.level[p])
    BY <1>0, <1>1
  <2> QED BY <2>1
<1>2. ASSUME NEW p \in t.nodes, ~pg[p].leaf, \A i \in 1..Size(pg, p) : pg[p].items[i] \in S PROVE p \in S
  <2> SUFFICES ASSUME NEW c \in t.nodes, t.level[c] < t.level[p], t.first[c] = t.first[p]
               PROVE  t.parent[c] \in t.nodes /\ pg[t.parent[c]].items[1] = c
    OBVIOUS
  <2> DEFINE d == pg[p].items[1]
  <2>1. /\ d \in t.nodes /\ t.parent[d] = p /\ 1 \in 1..Size(pg, p)
        /\ t.level[d] = t.level[p] - 1 /\ t.first[d] = t.first[p]
    BY <1>2, FirstChild
  <2>2. CASE t.level[c] = t.level[d]
    <3>1. c = d
      BY <2>1, <2>2, FirstIsUnique
    <3> QED BY <2>1, <3>1
  <2>3. CASE t.level[c] # t.level[d]
    <3>1. t.level[c] < t.level[d]
      BY <1>0, <2>1, <2>3
    <3>2. d \in S
      BY <1>2, <2>1
    <3> HIDE DEF d
    <3> QED BY <2>1, <3>1, <3>2
  <2> QED BY <2>2, <2>3
<1>3. \A p \in t.nodes : p \in S
  <2> HIDE DEF S
  <2> QED BY <1>1, <1>2, LevelInduction
<1> QED BY <1>3

\* A child that is not the first has a first leaf that no node above has, nor
\* any other child that is not the first.
LEMMA NotAbove ==
    ASSUME NEW pg, NEW root, NEW t, Tree(pg, root, t), NoneChildless(pg, t),
           NEW q \in t.nodes, ~pg[q].leaf, NEW i \in 2..Size(pg, q), NEW x \in t.nodes,
           t.first[x] = t.first[pg[q].items[i]], t.level[x] >= t.level[pg[q].items[i]]
    PROVE  x = pg[q].items[i]
<1> DEFINE c == pg[q].items[i]
<1>1. InternalShape(pg, t, q)
  BY InternalFacts DEF Tree
<1>2. Size(pg, q) \in Nat
  BY <1>1 DEF InternalShape
<1>3. i \in 1..Size(pg, q) /\ 1 \in 1..Size(pg, q) /\ i # 1
  BY <1>2
<1>4. c \in t.nodes /\ t.parent[c] = q /\ pg[q].items[1] # c /\ t.level[c] = t.level[q] - 1
  BY <1>1, <1>3 DEF InternalShape
<1>5. t.level[x] \in Nat /\ t.level[c] \in Nat
  BY <1>4 DEF Tree, NodeOK
<1>6. CASE t.level[x] = t.level[c]
  BY <1>4, <1>6, FirstIsUnique
<1>7. CASE t.level[c] < t.level[x]
  <2> HIDE DEF c
  <2>1. pg[t.parent[c]].items[1] = c
    BY <1>4, <1>7, FirstBelow DEF c
  <2> QED BY <1>4, <2>1
<1> QED BY <1>5, <1>6, <1>7

\* At most one separator stands before the subtree that begins at a given leaf.
LEMMA SeparatorOnce ==
    ASSUME NEW pg, NEW root, NEW t, Tree(pg, root, t), NoneChildless(pg, t),
           NEW p \in t.nodes, ~pg[p].leaf, NEW i \in 2..Size(pg, p),
           NEW q \in t.nodes, ~pg[q].leaf, NEW j \in 2..Size(pg, q),
           t.first[pg[p].items[i]] = t.first[pg[q].items[j]]
    PROVE  p = q /\ i = j
<1> DEFINE a == pg[p].items[i]
           b == pg[q].items[j]
<1>1. InternalShape(pg, t, q) /\ InternalShape(pg, t, p)
  BY InternalFacts DEF Tree
<1>2. Size(pg, q) \in Nat /\ Size(pg, p) \in Nat
  BY <1>1 DEF InternalShape
<1>3. i \in 1..Size(pg, p) /\ j \in 1..Size(pg, q)
  BY <1>2
<1>4. a \in t.nodes /\ t.parent[a] = p /\ b \in t.nodes /\ t.parent[b] = q
  BY <1>1, <1>3 DEF InternalShape
<1>5. t.level[a] \in Nat /\ t.level[b] \in Nat
  BY <1>4 DEF Tree, NodeOK
<1>6. a = b
  <2>1. CASE t.level[a] >= t.level[b]
    BY <1>4, <2>1, NotAbove
  <2>2. CASE t.level[b] >= t.level[a]
    BY <1>4, <2>2, NotAbove
  <2> QED BY <1>5, <2>1, <2>2
<1>7. p = q
  BY <1>4, <1>6
<1>8. \A m, n \in 1..Size(pg, p) : pg[p].items[m] = pg[p].items[n] => m = n
  BY <1>1 DEF InternalShape
<1> QED BY <1>3, <1>6, <1>7, <1>8

-----------------------------------------------------------------------------
(* The file.                                                                *)

AnyNode == Node(TRUE) \cup Node(FALSE)

\* A file of pages, each of which bears its own number or none.
IsFile(pg) ==
    /\ pg \in Seq(AnyNode)
    /\ \A p \in DOMAIN pg : pg[p].id \in {p, None}

\* What TypeOK says of a page.
LEMMA AnyNodeIsNode ==
    ASSUME NEW n
    PROVE  n \in AnyNode <=> IsNode(n)
<1>1. ASSUME n \in AnyNode PROVE IsNode(n)
  <2>1. PICK leaf \in BOOLEAN : n \in Node(leaf)
    BY <1>1 DEF AnyNode
  <2> DEFINE S == Seq(IF leaf THEN {Item(k) : k \in Keys} ELSE Nat)
  <2>2. n.leaf = leaf
    <3> HIDE DEF S
    <3> USE <2>1 DEF Node, S
    <3> QED OBVIOUS
  <2> QED BY <2>1, <2>2 DEF IsNode
<1>2. ASSUME IsNode(n) PROVE n \in AnyNode
  <2>1. n.leaf \in BOOLEAN /\ n \in Node(n.leaf)
    BY <1>2 DEF IsNode
  <2> QED BY <2>1 DEF AnyNode
<1> QED BY <1>1, <1>2

\* What a file is, page by page.
LEMMA FileFacts ==
    ASSUME NEW pg, IsFile(pg)
    PROVE  /\ Len(pg) \in Nat /\ DOMAIN pg = 1..Len(pg) /\ DOMAIN pg \subseteq Nat
           /\ pg = [p \in DOMAIN pg |-> pg[p]]
           /\ \A p \in DOMAIN pg : pg[p] \in AnyNode /\ IsNode(pg[p]) /\ pg[p].id \in {p, None}
<1>1. pg \in Seq(AnyNode)
  BY DEF IsFile
<1>2. Len(pg) \in Nat /\ DOMAIN pg = 1..Len(pg) /\ pg \in [1..Len(pg) -> AnyNode]
  BY <1>1, LenProperties
<1>3. pg = [p \in DOMAIN pg |-> pg[p]] /\ \A p \in DOMAIN pg : pg[p] \in AnyNode
  BY <1>2
<1> QED BY <1>2, <1>3, AnyNodeIsNode DEF IsFile

\* A nonempty bounded set of natural numbers has a greatest element.
LEMMA GreatestNatural ==
    ASSUME NEW S, S \subseteq Nat, S # {}, NEW h \in Nat, \A m \in S : m <= h
    PROVE  \E n \in S : \A m \in S : m <= n
<1> DEFINE T == {h - m : m \in S}
<1>1. T \subseteq Nat /\ T # {}
  <2>1. \A m \in S : h - m \in Nat
    OBVIOUS
  <2>2. PICK m \in S : TRUE
    OBVIOUS
  <2>3. h - m \in T
    OBVIOUS
  <2> QED BY <2>1, <2>3
<1>2. PICK a \in T : \A b \in T : a <= b
  <2> HIDE DEF T
  <2> QED BY <1>1, LeastNatural
<1>3. PICK n \in S : a = h - n
  OBVIOUS
<1>4. ASSUME NEW m \in S PROVE m <= n
  <2>1. h - n <= h - m
    BY <1>2, <1>3
  <2>2. m \in Nat /\ n \in Nat
    OBVIOUS
  <2> QED BY <2>1, <2>2
<1> QED BY <1>4

\* The page numbers that are written.
Targets(ws) == {ws[i][1] : i \in DOMAIN ws}

\* Each page holds what was last written to it.
IsWritten(pg, ws, out) ==
    /\ DOMAIN out = DOMAIN pg \cup Targets(ws)
    /\ out = [p \in DOMAIN out |-> out[p]]
    /\ \A p \in DOMAIN pg \ Targets(ws) : out[p] = pg[p]
    /\ \A p \in Targets(ws) : \E i \in 1..Len(ws) :
           /\ ws[i][1] = p /\ out[p] = ws[i][2]
           /\ \A j \in 1..Len(ws) : ws[j][1] = p => j <= i

\* What Written leaves in each page.
LEMMA WrittenPages ==
    ASSUME NEW pg, NEW ws, Len(ws) \in Nat, DOMAIN ws = 1..Len(ws), NEW out, out = Written(pg, ws)
    PROVE  IsWritten(pg, ws, out)
<1> DEFINE To(p) == {i \in DOMAIN ws : ws[i][1] = p}
           What(p) == IF To(p) = {} THEN pg[p] ELSE ws[CHOOSE i \in To(p) : \A j \in To(p) : j <= i][2]
<1>1. out = [p \in DOMAIN pg \cup Targets(ws) |-> What(p)]
  BY DEF Written, Targets
<1>2. ASSUME NEW p \in DOMAIN pg \ Targets(ws) PROVE What(p) = pg[p]
  BY DEF Targets
<1>3. ASSUME NEW p \in Targets(ws)
      PROVE  \E i \in 1..Len(ws) : /\ ws[i][1] = p /\ What(p) = ws[i][2]
                                   /\ \A j \in 1..Len(ws) : ws[j][1] = p => j <= i
  <2>1. To(p) # {} /\ To(p) \subseteq Nat /\ \A i \in To(p) : i <= Len(ws)
    BY DEF Targets
  <2>2. \E i \in To(p) : \A j \in To(p) : j <= i
    <3> HIDE DEF To
    <3> QED BY <2>1, GreatestNatural
  <2> DEFINE i == CHOOSE i \in To(p) : \A j \in To(p) : j <= i
  <2>3. i \in To(p) /\ \A j \in To(p) : j <= i
    <3> HIDE DEF To
    <3> QED BY <2>2
  <2>4. What(p) = ws[i][2]
    BY <2>1
  <2> HIDE DEF i, What
  <2>5. i \in 1..Len(ws) /\ ws[i][1] = p
    BY <2>3
  <2>6. \A j \in 1..Len(ws) : ws[j][1] = p => j <= i
    BY <2>3
  <2> QED BY <2>4, <2>5, <2>6
<1> HIDE DEF What
<1> QED BY <1>1, <1>2, <1>3 DEF IsWritten

\* The last write to a page is what the page holds.
LEMMA WrittenLast ==
    ASSUME NEW pg, NEW ws, Len(ws) \in Nat, DOMAIN ws = 1..Len(ws), NEW i \in 1..Len(ws),
           \A j \in 1..Len(ws) : i < j => ws[j][1] # ws[i][1]
    PROVE  Written(pg, ws)[ws[i][1]] = ws[i][2]
<1>1. ws[i][1] \in Targets(ws)
  BY DEF Targets
<1>2. PICK m \in 1..Len(ws) : /\ ws[m][1] = ws[i][1] /\ Written(pg, ws)[ws[i][1]] = ws[m][2]
                              /\ \A j \in 1..Len(ws) : ws[j][1] = ws[i][1] => j <= m
  <2>1. IsWritten(pg, ws, Written(pg, ws))
    BY WrittenPages
  <2> QED BY <1>1, <2>1 DEF IsWritten
<1>3. m = i
  <2>1. i <= m
    BY <1>2
  <2>2. ~(i < m)
    BY <1>2
  <2> QED BY <2>1, <2>2
<1> QED BY <1>2, <1>3

\* One write after another.
LEMMA WrittenConcat ==
    ASSUME NEW pg, NEW S, NEW s \in Seq(S), NEW u \in Seq(S)
    PROVE  Written(pg, s \o u) = Written(Written(pg, s), u)
<1> DEFINE w == s \o u
           a == Written(pg, s)
           b == Written(a, u)
           c == Written(pg, w)
<1>1. /\ Len(s) \in Nat /\ DOMAIN s = 1..Len(s) /\ Len(u) \in Nat /\ DOMAIN u = 1..Len(u)
      /\ w \in Seq(S) /\ Len(w) = Len(s) + Len(u) /\ Len(w) \in Nat /\ DOMAIN w = 1..Len(w)
      /\ \A i \in 1..Len(s) : w[i] = s[i]
      /\ \A i \in 1..Len(u) : w[Len(s) + i] = u[i]
  <2>1. /\ Len(s) \in Nat /\ DOMAIN s = 1..Len(s) /\ Len(u) \in Nat /\ DOMAIN u = 1..Len(u)
    BY LenProperties
  <2>2. w \in Seq(S) /\ IsJoin(s, u, w)
    BY JoinConcat
  <2>3. Len(w) \in Nat /\ DOMAIN w = 1..Len(w)
    BY <2>2, LenProperties
  <2> HIDE DEF w
  <2> QED BY <2>1, <2>2, <2>3 DEF IsJoin
<1> HIDE DEF w
<1>2. /\ DOMAIN a = DOMAIN pg \cup Targets(s)
      /\ \A p \in DOMAIN pg \ Targets(s) : a[p] = pg[p]
      /\ \A p \in Targets(s) : \E i \in 1..Len(s) :
                  /\ s[i][1] = p /\ a[p] = s[i][2]
                  /\ \A j \in 1..Len(s) : s[j][1] = p => j <= i
  <2>1. IsWritten(pg, s, a)
    BY <1>1, WrittenPages
  <2> QED BY <2>1 DEF IsWritten
<1> HIDE DEF a
<1>3. /\ DOMAIN b = DOMAIN a \cup Targets(u)
      /\ b = [p \in DOMAIN b |-> b[p]]
      /\ \A p \in DOMAIN a \ Targets(u) : b[p] = a[p]
      /\ \A p \in Targets(u) : \E i \in 1..Len(u) :
                  /\ u[i][1] = p /\ b[p] = u[i][2]
                  /\ \A j \in 1..Len(u) : u[j][1] = p => j <= i
  <2>1. IsWritten(a, u, b)
    BY <1>1, WrittenPages
  <2> QED BY <2>1 DEF IsWritten
<1>4. /\ DOMAIN c = DOMAIN pg \cup Targets(w)
      /\ c = [p \in DOMAIN c |-> c[p]]
      /\ \A p \in DOMAIN pg \ Targets(w) : c[p] = pg[p]
      /\ \A p \in Targets(w) : \E i \in 1..Len(w) :
                  /\ w[i][1] = p /\ c[p] = w[i][2]
                  /\ \A j \in 1..Len(w) : w[j][1] = p => j <= i
  <2>1. IsWritten(pg, w, c)
    BY <1>1, WrittenPages
  <2> QED BY <2>1 DEF IsWritten
<1> HIDE DEF b, c
<1>5. Targets(w) = Targets(s) \cup Targets(u)
  <2>1. ASSUME NEW i \in 1..Len(w) PROVE w[i][1] \in Targets(s) \cup Targets(u)
    <3>1. CASE i <= Len(s)
      <4>1. i \in 1..Len(s) /\ w[i] = s[i]
        BY <1>1, <3>1
      <4> QED BY <1>1, <4>1 DEF Targets
    <3>2. CASE i > Len(s)
      <4>1. PICK m \in 1..Len(u) : i = Len(s) + m
        <5>1. i - Len(s) \in 1..Len(u) /\ i = Len(s) + (i - Len(s))
          BY <1>1, <3>2
        <5> QED BY <5>1
      <4>2. w[i] = u[m]
        BY <1>1, <4>1
      <4> QED BY <1>1, <4>2 DEF Targets
    <3> QED BY <1>1, <3>1, <3>2
  <2>2. ASSUME NEW i \in 1..Len(s) PROVE s[i][1] \in Targets(w)
    <3>1. i \in 1..Len(w) /\ w[i] = s[i]
      BY <1>1
    <3> QED BY <1>1, <3>1 DEF Targets
  <2>3. ASSUME NEW i \in 1..Len(u) PROVE u[i][1] \in Targets(w)
    <3>1. Len(s) + i \in 1..Len(w) /\ w[Len(s) + i] = u[i]
      BY <1>1
    <3> QED BY <1>1, <3>1 DEF Targets
  <2>4. ASSUME NEW p \in Targets(w) PROVE p \in Targets(s) \cup Targets(u)
    <3>1. PICK i \in 1..Len(w) : p = w[i][1]
      BY <1>1 DEF Targets
    <3> QED BY <2>1, <3>1
  <2>5. ASSUME NEW p \in Targets(s) PROVE p \in Targets(w)
    <3>1. PICK i \in 1..Len(s) : p = s[i][1]
      BY <1>1 DEF Targets
    <3> QED BY <2>2, <3>1
  <2>6. ASSUME NEW p \in Targets(u) PROVE p \in Targets(w)
    <3>1. PICK i \in 1..Len(u) : p = u[i][1]
      BY <1>1 DEF Targets
    <3> QED BY <2>3, <3>1
  <2> QED BY <2>4, <2>5, <2>6
<1>6. DOMAIN b = DOMAIN c
  BY <1>2, <1>3, <1>4, <1>5
<1>7. ASSUME NEW p \in DOMAIN c PROVE b[p] = c[p]
  <2>1. CASE p \in Targets(u)
    <3>1. PICK i \in 1..Len(u) : u[i][1] = p /\ b[p] = u[i][2] /\ \A j \in 1..Len(u) : u[j][1] = p => j <= i
      BY <1>3, <2>1
    <3>2. PICK m \in 1..Len(w) : w[m][1] = p /\ c[p] = w[m][2] /\ \A j \in 1..Len(w) : w[j][1] = p => j <= m
      BY <1>4, <1>5, <2>1
    <3>3. Len(s) + i \in 1..Len(w) /\ w[Len(s) + i] = u[i]
      BY <1>1
    <3>4. Len(s) + i <= m
      BY <3>1, <3>2, <3>3
    <3>5. PICK n \in 1..Len(u) : m = Len(s) + n
      <4>1. m - Len(s) \in 1..Len(u) /\ m = Len(s) + (m - Len(s))
        BY <1>1, <3>4
      <4> QED BY <4>1
    <3>6. w[m] = u[n]
      BY <1>1, <3>5
    <3>7. n <= i
      BY <3>1, <3>2, <3>6
    <3>8. n = i
      BY <1>1, <3>4, <3>5, <3>7
    <3> QED BY <3>1, <3>2, <3>6, <3>8
  <2>2. CASE p \notin Targets(u) /\ p \in Targets(s)
    <3>1. PICK i \in 1..Len(s) : s[i][1] = p /\ a[p] = s[i][2] /\ \A j \in 1..Len(s) : s[j][1] = p => j <= i
      BY <1>2, <2>2
    <3>2. PICK m \in 1..Len(w) : w[m][1] = p /\ c[p] = w[m][2] /\ \A j \in 1..Len(w) : w[j][1] = p => j <= m
      BY <1>4, <1>5, <2>2
    <3>3. m <= Len(s)
      <4> SUFFICES ASSUME m > Len(s) PROVE FALSE
        BY <1>1
      <4>1. PICK n \in 1..Len(u) : m = Len(s) + n
        <5>1. m - Len(s) \in 1..Len(u) /\ m = Len(s) + (m - Len(s))
          BY <1>1
        <5> QED BY <5>1
      <4>2. w[m] = u[n]
        BY <1>1, <4>1
      <4> QED BY <1>1, <2>2, <3>2, <4>2 DEF Targets
    <3>4. m \in 1..Len(s) /\ w[m] = s[m] /\ i \in 1..Len(w) /\ w[i] = s[i]
      BY <1>1, <3>3
    <3>5. m <= i
      BY <3>1, <3>2, <3>4
    <3>5a. i <= m
      BY <3>1, <3>2, <3>4
    <3>6. m = i
      BY <3>5, <3>5a
    <3> QED BY <1>2, <1>3, <2>2, <3>1, <3>2, <3>4, <3>6
  <2>3. CASE p \notin Targets(u) /\ p \notin Targets(s)
    BY <1>2, <1>3, <1>4, <1>5, <2>3
  <2> QED BY <2>1, <2>2, <2>3
<1> QED BY <1>3, <1>4, <1>6, <1>7 DEF a, b, c, w

AnyWrite == (Nat \ {0}) \X AnyNode

\* A list of writes as the helpers make them: new pages first, in order.
Grows(n, ws, f) ==
    /\ f \in 0..Len(ws)
    /\ \A i \in 1..f : ws[i][1] = n + i
    /\ \A i \in 1..Len(ws) : ws[i][1] <= n + f

Orderly(n, ws) ==
    /\ ws \in Seq(AnyWrite)
    /\ \A i \in 1..Len(ws) : ws[i][2].id \in {ws[i][1], None}
    /\ \E f \in Nat : Grows(n, ws, f)

\* What a list of writes is, write by write.
LEMMA WriteFacts ==
    ASSUME NEW ws \in Seq(AnyWrite)
    PROVE  /\ Len(ws) \in Nat /\ DOMAIN ws = 1..Len(ws)
           /\ \A i \in 1..Len(ws) : ws[i][1] \in Nat /\ ws[i][1] >= 1 /\ ws[i][2] \in AnyNode
<1>1. Len(ws) \in Nat /\ DOMAIN ws = 1..Len(ws)
  BY LenProperties
<1>2. ASSUME NEW i \in 1..Len(ws) PROVE ws[i][1] \in Nat /\ ws[i][1] >= 1 /\ ws[i][2] \in AnyNode
  <2>1. ws[i] \in AnyWrite
    BY ElementOfSeq
  <2> DEFINE N == AnyNode
  <2>2. ws[i] \in (Nat \ {0}) \X N
    BY <2>1 DEF AnyWrite
  <2> HIDE DEF N
  <2>3. ws[i][1] \in Nat \ {0} /\ ws[i][2] \in N
    BY <2>2
  <2> QED BY <2>3 DEF N
<1> QED BY <1>1, <1>2

\* After such a list the file is a file.
LEMMA OrderlyFile ==
    ASSUME NEW pg, IsFile(pg), NEW ws, Orderly(Len(pg), ws), NEW out, out = Written(pg, ws)
    PROVE  /\ IsFile(out) /\ Len(out) \in Nat /\ Len(out) >= Len(pg)
           /\ DOMAIN pg \subseteq DOMAIN out
<1> DEFINE n == Len(pg)
<1>0. /\ n \in Nat /\ DOMAIN pg = 1..n /\ \A p \in DOMAIN pg : pg[p] \in AnyNode /\ pg[p].id \in {p, None}
  BY FileFacts
<1>1. /\ Len(ws) \in Nat /\ DOMAIN ws = 1..Len(ws)
      /\ \A i \in 1..Len(ws) : ws[i][1] \in Nat /\ ws[i][1] >= 1 /\ ws[i][2] \in AnyNode
      /\ \A i \in 1..Len(ws) : ws[i][2].id \in {ws[i][1], None}
  BY WriteFacts DEF Orderly
<1>2. PICK f \in Nat : Grows(n, ws, f)
  BY DEF Orderly
<1>3. f \in 0..Len(ws) /\ (\A i \in 1..f : ws[i][1] = n + i) /\ (\A i \in 1..Len(ws) : ws[i][1] <= n + f)
  BY <1>2 DEF Grows
<1>4. IsWritten(pg, ws, out)
  BY <1>1, WrittenPages
<1> HIDE DEF n
<1>5. DOMAIN out = 1..(n + f)
  <2>1. ASSUME NEW p \in Targets(ws) PROVE p \in 1..(n + f)
    <3>1. PICK i \in 1..Len(ws) : p = ws[i][1]
      BY <1>1 DEF Targets
    <3> QED BY <1>0, <1>1, <1>3, <3>1
  <2>2. ASSUME NEW p \in 1..(n + f), p \notin 1..n PROVE p \in Targets(ws)
    <3>1. p - n \in 1..f /\ p - n \in 1..Len(ws) /\ n + (p - n) = p
      BY <1>0, <1>1, <1>3, <2>2
    <3>2. ws[p - n][1] = n + (p - n)
      BY <1>3, <3>1
    <3> QED BY <1>1, <3>1, <3>2 DEF Targets
  <2>3. DOMAIN out = DOMAIN pg \cup Targets(ws)
    BY <1>4 DEF IsWritten
  <2>4. 1..n \subseteq 1..(n + f)
    BY <1>0, <1>3
  <2> QED BY <1>0, <2>1, <2>2, <2>3, <2>4
<1>6. ASSUME NEW p \in DOMAIN out PROVE out[p] \in AnyNode /\ out[p].id \in {p, None}
  <2>1. CASE p \in Targets(ws)
    <3>1. PICK i \in 1..Len(ws) : ws[i][1] = p /\ out[p] = ws[i][2]
      BY <1>4, <2>1 DEF IsWritten
    <3> QED BY <1>1, <3>1
  <2>2. CASE p \notin Targets(ws)
    <3>1. p \in DOMAIN pg /\ out[p] = pg[p]
      BY <1>4, <2>2 DEF IsWritten
    <3> QED BY <1>0, <3>1
  <2> QED BY <2>1, <2>2
<1>7. out \in Seq(AnyNode) /\ Len(out) = n + f
  <2>1. out = [p \in 1..(n + f) |-> out[p]]
    BY <1>4, <1>5 DEF IsWritten
  <2>2. out \in [1..(n + f) -> AnyNode] /\ n + f \in Nat
    BY <1>0, <1>3, <1>5, <1>6, <2>1
  <2> HIDE DEF n
  <2>3. out \in Seq(AnyNode)
    BY <2>2, SeqDef
  <2> QED BY <1>5, <2>2, <2>3, LenProperties
<1> QED BY <1>0, <1>3, <1>5, <1>6, <1>7 DEF IsFile, n

\* A kill keeps the first writes of the list.
LEMMA OrderlyPart ==
    ASSUME NEW n \in Nat, NEW ws, Orderly(n, ws), NEW m \in 1..Len(ws)
    PROVE  Orderly(n, SubSeq(ws, 1, m))
<1> DEFINE s == SubSeq(ws, 1, m)
<1>1. ws \in Seq(AnyWrite) /\ Len(ws) \in Nat /\ \A i \in 1..Len(ws) : ws[i][2].id \in {ws[i][1], None}
  BY WriteFacts DEF Orderly
<1>2. s \in Seq(AnyWrite) /\ Len(s) = m /\ \A i \in 1..m : s[i] = ws[i]
  <2>1. 1 \in 1..(Len(ws) + 1) /\ m \in 0..Len(ws) /\ 1 <= m /\ (m - 1) + 1 = m
    BY <1>1
  <2>2. /\ s \in Seq(AnyWrite) /\ Len(s) = (IF 1 <= m THEN m - 1 + 1 ELSE 0)
        /\ \A i \in 1..(m - 1 + 1) : s[i] = ws[1 + i - 1]
    BY <1>1, <2>1, PartOfSeq
  <2>3. ASSUME NEW i \in 1..m PROVE 1 + i - 1 = i
    OBVIOUS
  <2> HIDE DEF s
  <2> QED BY <2>1, <2>2, <2>3
<1> HIDE DEF s
<1>3. PICK f \in Nat : Grows(n, ws, f)
  BY DEF Orderly
<1>4. f \in 0..Len(ws) /\ (\A i \in 1..f : ws[i][1] = n + i) /\ (\A i \in 1..Len(ws) : ws[i][1] <= n + f)
  BY <1>3 DEF Grows
<1>5. CASE f <= m
  <2>0. f \in 0..Len(s) /\ Len(s) <= Len(ws)
    BY <1>1, <1>2, <1>4, <1>5
  <2>1. ASSUME NEW i \in 1..f PROVE s[i][1] = n + i
    <3>1. i \in 1..m
      BY <1>1, <1>4, <1>5
    <3>2. s[i] = ws[i] /\ ws[i][1] = n + i
      BY <1>2, <1>4, <3>1
    <3> QED BY <3>2
  <2>2. \A i \in 1..Len(s) : s[i][1] <= n + f
    BY <1>1, <1>2, <1>4, <1>5
  <2>3. Grows(n, s, f)
    BY <2>0, <2>1, <2>2 DEF Grows
  <2> QED BY <1>1, <1>2, <2>3 DEF Orderly, s
<1>6. CASE m < f
  <2>1. ASSUME NEW i \in 1..m PROVE s[i][1] = n + i
    BY <1>1, <1>2, <1>4, <1>6
  <2>2. m \in Nat /\ m \in 0..Len(s) /\ \A i \in 1..m : n + i <= n + m
    BY <1>2
  <2>3. \A i \in 1..Len(s) : s[i][1] <= n + m
    BY <1>2, <2>1, <2>2
  <2>4. Grows(n, s, m)
    BY <2>1, <2>2, <2>3 DEF Grows
  <2> QED BY <1>1, <1>2, <2>2, <2>4 DEF Orderly, s
<1> QED BY <1>1, <1>4, <1>5, <1>6

-----------------------------------------------------------------------------
(* The separators.                                                          *)

\* Each separator of page p is the least key of the subtree to its right, but
\* for the one before the subtree that begins at leaf f.
Kept(pg, t, p, f) ==
    /\ Keyed(pg, t, p)
    /\ \A i \in 1..(Size(pg, p) - 1) :
           pg[p].keys[i] \in t.under[pg[p].items[i + 1]] \/ t.first[pg[p].items[i + 1]] = f

\* What rebuild_internal_keys computes.
IsRebuilt(pgx, node) ==
    node.keys = [i \in 1..(Len(node.items) - 1) |-> SubtreeMin(pgx, node.items[i + 1])]

\* subtree_min_key may be asked for pages up to level h of the tree in pgx.
Readable(pg, t, pgx, h) ==
    /\ Len(pgx) \in Nat
    /\ \A p \in t.nodes : t.level[p] <= h =>
           p \in DOMAIN pgx /\ pgx[p] = pg[p] /\ t.under[p] # {} /\ Size(pg, p) >= 1 /\ t.level[p] <= Len(pgx)

\* subtree_min_key of page c is the least key under it, and leftmost_leaf_page_id
\* is the first of its leaves.
LEMMA SubtreeMinFacts ==
    ASSUME KeysAssumption, NEW pg, NEW root, NEW t, Tree(pg, root, t), NEW pgx, NEW c \in t.nodes,
           NEW h, Readable(pg, t, pgx, h), h \in Nat, t.level[c] <= h
    PROVE  /\ SubtreeMin(pgx, c) \in t.under[c]
           /\ \A x \in t.under[c] : SubtreeMin(pgx, c) <= x
           /\ Last(Descent(pgx, TowardFirst(pgx), c)) = t.first[c]
<1>1. \A p \in t.nodes : NodeOK(pg, t, p) /\ t.level[p] \in Nat
  BY DEF Tree, NodeOK
<1>2. \A p \in t.nodes : t.level[p] <= t.level[c] =>
               p \in DOMAIN pgx /\ pgx[p] = pg[p] /\ t.under[p] # {} /\ Size(pg, p) >= 1
  <2> SUFFICES ASSUME NEW p \in t.nodes, t.level[p] <= t.level[c]
               PROVE  p \in DOMAIN pgx /\ pgx[p] = pg[p] /\ t.under[p] # {} /\ Size(pg, p) >= 1
    OBVIOUS
  <2>1. t.level[p] <= h
    BY <1>1
  <2> QED BY <2>1 DEF Readable
<1>3. Len(pgx) \in Nat /\ t.level[c] <= Len(pgx)
  <2>1. Len(pgx) \in Nat
    BY DEF Readable
  <2>2. t.level[c] <= Len(pgx)
    <3>1. ASSUME NEW p \in t.nodes, t.level[p] <= h PROVE t.level[p] <= Len(pgx)
      BY <3>1 DEF Readable
    <3> QED BY <3>1
  <2> QED BY <2>1, <2>2
<1>4. \A p \in t.nodes : NodeOK(pg, t, p)
  BY <1>1
<1>5. SameBelow(pg, t, pgx, c)
  BY <1>2, <1>3, <1>4 DEF SameBelow
<1> QED BY <1>5, SubtreeMinProperties

\* A separator that is the least key on its right is above the keys on its left.
LEMMA LeastSeparates ==
    ASSUME NEW pg, NEW t, NEW p, NodeOK(pg, t, p), ~pg[p].leaf, NEW i \in 1..(Size(pg, p) - 1),
           NEW k \in t.under[pg[p].items[i + 1]]
    PROVE  /\ \A x \in t.under[pg[p].items[i]] : x < k
           /\ i \in 1..Size(pg, p) /\ i + 1 \in 1..Size(pg, p)
<1>1. InternalShape(pg, t, p)
  BY InternalFacts
<1>2. Size(pg, p) \in Nat
  BY <1>1 DEF InternalShape
<1>3. i \in 1..Size(pg, p) /\ i + 1 \in 1..Size(pg, p) /\ i < i + 1
  BY <1>2
<1> QED BY <1>1, <1>3 DEF InternalShape

\* rebuild_internal_keys makes every separator of a node exact.
LEMMA RebuiltExact ==
    ASSUME KeysAssumption, NEW pg, NEW root, NEW t, Tree(pg, root, t), NEW p \in t.nodes, ~pg[p].leaf,
           Size(pg, p) >= 1,
           NEW pgx, IsRebuilt(pgx, pg[p]), Readable(pg, t, pgx, t.level[p] - 1), NEW f
    PROVE  Kept(pg, t, p, f)
<1> DEFINE s == pg[p].items
           z == Size(pg, p)
<1>1. InternalShape(pg, t, p) /\ NodeOK(pg, t, p)
  BY InternalFacts DEF Tree
<1>2. /\ z \in Nat /\ z >= 1 /\ t.level[p] - 1 \in Nat
      /\ \A i \in 1..z : s[i] \in t.nodes /\ t.level[s[i]] = t.level[p] - 1 /\ t.under[s[i]] \subseteq Keys
  <2>1. z \in Nat /\ z >= 1 /\ t.level[p] - 1 \in Nat
    BY <1>1 DEF InternalShape
  <2>2. ASSUME NEW i \in 1..z
        PROVE s[i] \in t.nodes /\ t.level[s[i]] = t.level[p] - 1 /\ t.under[s[i]] \subseteq Keys
    <3>1. s[i] \in t.nodes /\ t.level[s[i]] = t.level[p] - 1
      BY <1>1 DEF InternalShape
    <3> QED BY <3>1 DEF Tree, NodeOK
  <2> QED BY <2>1, <2>2
<1>3. pg[p].keys = [i \in 1..(z - 1) |-> SubtreeMin(pgx, s[i + 1])]
  BY DEF IsRebuilt, Size
<1> HIDE DEF s, z
<1>4. ASSUME NEW i \in 1..(z - 1)
      PROVE  /\ pg[p].keys[i] \in t.under[s[i + 1]] /\ pg[p].keys[i] \in Keys
             /\ \A x \in t.under[s[i + 1]] : pg[p].keys[i] <= x
             /\ \A x \in t.under[s[i]] : x < pg[p].keys[i]
  <2>0. i + 1 \in 1..z
    BY <1>2
  <2>1. s[i + 1] \in t.nodes /\ t.level[s[i + 1]] = t.level[p] - 1 /\ t.under[s[i + 1]] \subseteq Keys
    BY <1>2, <2>0
  <2>1a. t.level[s[i + 1]] <= t.level[p] - 1 /\ t.level[p] - 1 \in Nat
    BY <1>2, <2>1
  <2>2. SubtreeMin(pgx, s[i + 1]) \in t.under[s[i + 1]] /\ \A x \in t.under[s[i + 1]] : SubtreeMin(pgx, s[i + 1]) <= x
    BY <2>1, <2>1a, SubtreeMinFacts
  <2>3. pg[p].keys[i] = SubtreeMin(pgx, s[i + 1])
    BY <1>3
  <2>4. \A x \in t.under[s[i]] : x < pg[p].keys[i]
    <3>1. pg[p].keys[i] \in t.under[pg[p].items[i + 1]] /\ i \in 1..(Size(pg, p) - 1)
      BY <2>2, <2>3 DEF s, z
    <3> QED BY <1>1, <3>1, LeastSeparates DEF s
  <2> QED BY <2>1, <2>2, <2>3, <2>4
<1>5. pg[p].keys \in Seq(Keys) /\ Len(pg[p].keys) = z - 1
  <2>0. z - 1 \in Nat
    BY <1>2
  <2>1. pg[p].keys \in [1..(z - 1) -> Keys]
    BY <1>3, <1>4
  <2>2. pg[p].keys \in Seq(Keys)
    BY <2>0, <2>1, SeqDef
  <2>3. DOMAIN pg[p].keys = 1..(z - 1)
    BY <1>3
  <2> QED BY <2>0, <2>2, <2>3, LenProperties
<1>6. Keyed(pg, t, p)
  BY <1>4, <1>5 DEF Keyed, s, z
<1> QED BY <1>4, <1>6 DEF Kept, s, z

\* path leads from the root down to page p.
IsRoute(pg, t, path, root, p) ==
    /\ path \in Seq(t.nodes) /\ Len(path) >= 1 /\ path[1] = root /\ Last(path) = p
    /\ \A i \in 2..Len(path) :
           /\ ~pg[path[i - 1]].leaf
           /\ \E j \in 1..Size(pg, path[i - 1]) : pg[path[i - 1]].items[j] = path[i]

\* A route begins at the root and ends at the page.
LEMMA RouteFacts ==
    ASSUME NEW pg, NEW t, NEW path, NEW root, NEW p, IsRoute(pg, t, path, root, p)
    PROVE  /\ Len(path) \in Nat /\ Len(path) >= 1 /\ path[1] = root /\ path[Len(path)] = p
           /\ \A i \in 1..Len(path) : path[i] \in t.nodes
           /\ p \in t.nodes
<1>1. path \in Seq(t.nodes) /\ Len(path) >= 1 /\ path[1] = root /\ Last(path) = p
  BY DEF IsRoute
<1>2. Len(path) \in Nat /\ \A i \in 1..Len(path) : path[i] \in t.nodes
  BY <1>1, LenProperties, ElementOfSeq
<1>3. path[Len(path)] = p /\ Len(path) \in 1..Len(path)
  BY <1>1, <1>2 DEF Last
<1> QED BY <1>1, <1>2, <1>3

\* child_index_in_parent finds the child.
LEMMA IndexFacts ==
    ASSUME NEW pg, NEW t, NEW P, InternalShape(pg, t, P), NEW j \in 1..Size(pg, P)
    PROVE  Index(pg[P], pg[P].items[j]) = j
<1>1. DOMAIN pg[P].items = 1..Size(pg, P) /\ \A i \in 1..Size(pg, P) : pg[P].items[i] = pg[P].items[j] => i = j
  BY DEF InternalShape
<1> QED BY <1>1 DEF Index

\* The separators of pg are those of out but for their values.
SameButKeys(pg, out) ==
    /\ DOMAIN out = DOMAIN pg
    /\ \A p \in DOMAIN pg : /\ out[p].id = pg[p].id /\ out[p].leaf = pg[p].leaf
                            /\ out[p].items = pg[p].items /\ out[p].next = pg[p].next

\* The writes go to pages of the tree.
Rewrites(t, ws) ==
    /\ ws \in Seq(AnyWrite)
    /\ \A i \in 1..Len(ws) : ws[i][1] \in t.nodes /\ ws[i][2].id = ws[i][1]

\* When the only separator that may be wrong is the one before the subtree that
\* begins where that of p does, propagate_subtree_min_change, called for the
\* way to p, puts all of them right.
PropagatedOK(pg, t, path) ==
    /\ Rewrites(t, Propagated(pg, path))
    /\ Len(Propagated(pg, path)) <= 1
    /\ SameButKeys(pg, Written(pg, Propagated(pg, path)))
    /\ \A q \in t.nodes : ~pg[q].leaf => Kept(Written(pg, Propagated(pg, path)), t, q, None)

\* propagate_subtree_min_change puts right the separator that may be wrong, and
\* that one only.
LEMMA PropagatedExact ==
    ASSUME KeysAssumption, CapacityAssumption, NEW pg, NEW root, NEW t, Tree(pg, root, t), NoneChildless(pg, t),
           IsFile(pg), \A q \in t.nodes : pg[q].id = q,
           NEW h \in Nat, \A q \in t.nodes : t.level[q] <= h, Readable(pg, t, pg, h),
           NEW path, NEW p, IsRoute(pg, t, path, root, p),
           \A q \in t.nodes : ~pg[q].leaf => Kept(pg, t, q, t.first[p])
    PROVE  PropagatedOK(pg, t, path)
<1> DEFINE H == Len(path)
           notFirst == {i \in 2..H : pg[path[i - 1]].items[1] # path[i]}
           ws == Propagated(pg, path)
<1>0. /\ root \in t.nodes /\ t.parent[root] = None /\ None \notin t.nodes /\ t.nodes \subseteq DOMAIN pg
      /\ \A q \in t.nodes : NodeOK(pg, t, q) /\ t.level[q] \in Nat
  BY DEF Tree, NodeOK
<1>1. /\ H \in Nat /\ H >= 1 /\ path[1] = root /\ path[H] = p /\ p \in t.nodes
      /\ \A i \in 1..H : path[i] \in t.nodes
  BY RouteFacts
<1>2. \A i \in 2..H : /\ ~pg[path[i - 1]].leaf /\ path[i - 1] \in t.nodes
                      /\ \E j \in 1..Size(pg, path[i - 1]) : pg[path[i - 1]].items[j] = path[i]
  <2> SUFFICES ASSUME NEW i \in 2..H
               PROVE  /\ ~pg[path[i - 1]].leaf /\ path[i - 1] \in t.nodes
                      /\ \E j \in 1..Size(pg, path[i - 1]) : pg[path[i - 1]].items[j] = path[i]
    OBVIOUS
  <2>1. i - 1 \in 1..H
    BY <1>1
  <2> QED BY <1>1, <2>1 DEF IsRoute
<1>3. \A i \in 2..H : i \notin notFirst => t.first[path[i]] = t.first[path[i - 1]]
  <2> SUFFICES ASSUME NEW i \in 2..H, i \notin notFirst PROVE t.first[path[i]] = t.first[path[i - 1]]
    OBVIOUS
  <2>1. pg[path[i - 1]].items[1] = path[i]
    OBVIOUS
  <2>2. path[i - 1] \in t.nodes /\ ~pg[path[i - 1]].leaf
    BY <1>2
  <2> QED BY <2>1, <2>2, FirstChild
<1>5. ASSUME NEW c \in t.nodes PROVE t.first[c] # None
  BY <1>0, FirstIsLeaf
<1>6. ws = IF notFirst = {}
           THEN <<>>
           ELSE LET i == CHOOSE m \in notFirst : \A n \in notFirst : n <= m
                    parent == pg[path[i - 1]]
                IN <<Write([parent EXCEPT !.keys[Index(parent, path[i]) - 1] = SubtreeMin(pg, path[i])])>>
  BY DEF Propagated
<1>7. CASE notFirst = {}
  <2>1. ws = <<>>
    BY <1>6, <1>7
  <2>2. \A i \in 1..H : t.first[path[i]] = t.first[root]
    <3> DEFINE S == {i \in Nat : t.first[path[i]] = t.first[root]}
    <3>1. 1 \in S
      BY <1>1
    <3>2. ASSUME NEW i \in 1..(H - 1), i \in S PROVE i + 1 \in S
      <4>1. i + 1 \in 2..H /\ (i + 1) - 1 = i
        BY <1>1
      <4>2. i + 1 \notin notFirst
        BY <1>7
      <4> HIDE DEF notFirst
      <4>3. t.first[path[i + 1]] = t.first[path[i]]
        BY <1>3, <4>1, <4>2
      <4> QED BY <3>2, <4>3
    <3> HIDE DEF S
    <3>3. \A i \in 1..H : i \in S
      BY <1>1, <3>1, <3>2, PathInduction
    <3> QED BY <3>3 DEF S
  <2>3. t.first[p] = t.first[root]
    BY <1>1, <2>2
  <2>4. ASSUME NEW q \in t.nodes, ~pg[q].leaf PROVE Kept(pg, t, q, None)
    <3>1. Kept(pg, t, q, t.first[p]) /\ InternalShape(pg, t, q)
      BY <1>0, <2>4, InternalFacts
    <3>2. ASSUME NEW i \in 1..(Size(pg, q) - 1), t.first[pg[q].items[i + 1]] = t.first[p] PROVE FALSE
      <4>1. Size(pg, q) \in Nat /\ i + 1 \in 2..Size(pg, q) /\ i + 1 \in 1..Size(pg, q)
        BY <3>1 DEF InternalShape
      <4>2. pg[q].items[i + 1] \in t.nodes /\ t.parent[pg[q].items[i + 1]] = q
        BY <3>1, <4>1 DEF InternalShape
      <4>3. t.level[root] >= t.level[pg[q].items[i + 1]] \/ t.level[pg[q].items[i + 1]] > t.level[root]
        BY <1>0, <4>2
      <4>4. CASE t.level[root] >= t.level[pg[q].items[i + 1]]
        <5>1. root = pg[q].items[i + 1]
          BY <1>0, <2>3, <2>4, <3>2, <4>1, <4>4, NotAbove
        <5> QED BY <1>0, <4>2, <5>1
      <4>5. CASE t.level[pg[q].items[i + 1]] > t.level[root]
        <5>1. /\ t.parent[root] \in t.nodes
          BY <1>0, <2>3, <3>2, <4>2, <4>5, FirstBelow
        <5> QED BY <1>0, <5>1
      <4> QED BY <4>3, <4>4, <4>5
    <3> QED BY <3>1, <3>2 DEF Kept
  <2>5. Written(pg, <<>>) = pg
    <3>1. /\ pg = [x \in DOMAIN pg |-> pg[x]]
      BY FileFacts
    <3>2. IsWritten(pg, <<>>, Written(pg, <<>>))
      BY WrittenPages
    <3>3. Targets(<<>>) = {}
      BY DEF Targets
    <3> QED BY <3>1, <3>2, <3>3 DEF IsWritten
  <2>6. Rewrites(t, <<>>) /\ Len(<<>>) <= 1
    BY DEF Rewrites
  <2> HIDE DEF ws
  <2> QED BY <2>1, <2>4, <2>5, <2>6 DEF PropagatedOK, SameButKeys, ws
<1>8. CASE notFirst # {}
  <2> DEFINE s == CHOOSE m \in notFirst : \A n \in notFirst : n <= m
  <2>1. s \in notFirst /\ \A n \in notFirst : n <= s
    <3>1. notFirst \subseteq Nat /\ \A m \in notFirst : m <= H
      BY <1>1
    <3>2. \E m \in notFirst : \A n \in notFirst : n <= m
      <4> HIDE DEF notFirst, H
      <4> QED BY <1>1, <1>8, <3>1, GreatestNatural
    <3> HIDE DEF notFirst
    <3> QED BY <3>2
  <2>2. s \in 2..H /\ pg[path[s - 1]].items[1] # path[s]
    BY <2>1
  <2> HIDE DEF s
  <2> DEFINE A == path[s - 1]
             c == path[s]
  <2>3. ~pg[A].leaf /\ A \in t.nodes /\ c \in t.nodes
    BY <1>1, <1>2, <2>2
  <2>4. PICK j \in 1..Size(pg, A) : pg[A].items[j] = c
    BY <1>2, <2>2
  <2>5. InternalShape(pg, t, A)
    BY <1>0, <2>3, InternalFacts
  <2>6. j \in 2..Size(pg, A) /\ Size(pg, A) \in Nat
    <3>1. Size(pg, A) \in Nat
      BY <2>5 DEF InternalShape
    <3>2. j # 1
      BY <2>2, <2>4
    <3> QED BY <3>1, <3>2
  <2>7. Index(pg[A], c) = j
    BY <2>4, <2>5, IndexFacts
  <2> DEFINE k == SubtreeMin(pg, c)
             node == [pg[A] EXCEPT !.keys[j - 1] = k]
  <2>8. ws = <<Write(node)>>
    <3> HIDE DEF notFirst
    <3>1. ws = <<Write([pg[A] EXCEPT !.keys[Index(pg[A], c) - 1] = k])>>
      BY <1>6, <1>8 DEF s
    <3> QED BY <2>7, <3>1
  <2>9. t.first[c] = t.first[p]
    <3> DEFINE S == {i \in Nat : i <= H => t.first[path[i]] = t.first[path[s]]}
    <3>0. s \in Nat
      BY <2>2
    <3>1. s \in S
      BY <3>0
    <3>2. ASSUME NEW i \in Nat, i >= s, i \in S PROVE i + 1 \in S
      <4> SUFFICES ASSUME i + 1 <= H PROVE t.first[path[i + 1]] = t.first[path[s]]
        OBVIOUS
      <4>1. i + 1 \in 2..H /\ (i + 1) - 1 = i /\ ~(i + 1 <= s)
        BY <1>1, <2>2, <3>2
      <4>2. i + 1 \notin notFirst
        BY <2>1, <4>1
      <4>3. t.first[path[i + 1]] = t.first[path[i]]
        <5> HIDE DEF notFirst
        <5> QED BY <1>3, <4>1, <4>2
      <4>4. t.first[path[i]] = t.first[path[s]]
        BY <1>1, <3>2
      <4> QED BY <4>3, <4>4
    <3>3. \A i \in Nat : i >= s => i \in S
      <4> HIDE DEF S
      <4> QED BY <3>0, <3>1, <3>2, SetInductionFrom
    <3>4. H \in S
      <4> HIDE DEF S
      <4> QED BY <1>1, <2>2, <3>3
    <3> QED BY <1>1, <3>4
  <2> HIDE DEF A, c
  <2>10. k \in t.under[c] /\ (\A x \in t.under[c] : k <= x) /\ k \in Keys
    <3>1. t.level[c] <= h
      BY <2>3
    <3>2. k \in t.under[c] /\ (\A x \in t.under[c] : k <= x)
      BY <2>3, <3>1, SubtreeMinFacts
    <3>3. t.under[c] \subseteq Keys
      BY <1>0, <2>3 DEF NodeOK
    <3> QED BY <3>2, <3>3
  <2> HIDE DEF k
  <2>11. /\ pg[A].id = A /\ A \in DOMAIN pg /\ IsNode(pg[A]) /\ A \in Nat \ {0}
         /\ Kept(pg, t, A, t.first[p])
    <3>1. A \in DOMAIN pg
      BY <1>0, <2>3
    <3>2. A \in 1..Len(pg) /\ Len(pg) \in Nat /\ IsNode(pg[A])
      BY <3>1, FileFacts
    <3> QED BY <2>3, <3>1, <3>2
  <2>12. /\ pg[A].keys \in Seq(Keys) /\ Len(pg[A].keys) = Size(pg, A) - 1
         /\ j - 1 \in 1..Len(pg[A].keys) /\ j - 1 \in 1..(Size(pg, A) - 1)
    BY <2>6, <2>11 DEF Kept, Keyed
  <2>13. /\ node.id = A /\ node.leaf = pg[A].leaf /\ node.items = pg[A].items /\ node.next = pg[A].next
         /\ node.keys = [pg[A].keys EXCEPT ![j - 1] = k]
         /\ node = [id |-> node.id, leaf |-> node.leaf, items |-> node.items, keys |-> node.keys, next |-> node.next]
    <3>1. pg[A] = [id |-> pg[A].id, leaf |-> pg[A].leaf, items |-> pg[A].items, keys |-> pg[A].keys, next |-> pg[A].next]
      BY <2>11, NodeFields
    <3> QED BY <2>11, <3>1
  <2> HIDE DEF node
  <2>14. /\ node.keys \in Seq(Keys) /\ Len(node.keys) = Size(pg, A) - 1
         /\ node.keys[j - 1] = k /\ \A i \in 1..(Size(pg, A) - 1) : i # j - 1 => node.keys[i] = pg[A].keys[i]
    <3>1. /\ node.keys \in Seq(Keys) /\ Len(node.keys) = Len(pg[A].keys)
          /\ node.keys[j - 1] = k /\ \A i \in 1..Len(pg[A].keys) : i # j - 1 => node.keys[i] = pg[A].keys[i]
      <4>1. PICK keys, m : keys = pg[A].keys /\ m = j - 1
        OBVIOUS
      <4>2. keys \in Seq(Keys) /\ m \in 1..Len(keys) /\ k \in Keys /\ node.keys = [keys EXCEPT ![m] = k]
        BY <2>10, <2>12, <2>13, <4>1
      <4>3. /\ [keys EXCEPT ![m] = k] \in Seq(Keys) /\ Len([keys EXCEPT ![m] = k]) = Len(keys)
            /\ [keys EXCEPT ![m] = k][m] = k
            /\ \A i \in 1..Len(keys) : i # m => [keys EXCEPT ![m] = k][i] = keys[i]
        BY <4>2, ExceptSeq
      <4> QED BY <4>1, <4>2, <4>3
    <3> QED BY <2>12, <3>1
  <2>15. IsNode(node)
    <3>1. /\ node.id \in Nat \cup {None} /\ node.leaf \in BOOLEAN /\ node.next \in Nat \cup {None}
          /\ (node.leaf => node.items \in Seq({Item(x) : x \in Keys}))
          /\ (~node.leaf => node.items \in Seq(Nat))
      <4>1. /\ pg[A].leaf \in BOOLEAN /\ pg[A].next \in Nat \cup {None}
            /\ (pg[A].leaf => pg[A].items \in Seq({Item(x) : x \in Keys}))
            /\ (~pg[A].leaf => pg[A].items \in Seq(Nat))
        BY <2>11, NodeFields
      <4> QED BY <2>11, <2>13, <4>1
    <3>2. node.keys \in Seq(Keys)
      BY <2>14
    <3>3. IsNode([id |-> node.id, leaf |-> node.leaf, items |-> node.items, keys |-> node.keys, next |-> node.next])
      BY <3>1, <3>2, NodeIsNode
    <3> QED BY <2>13, <3>3
  <2>16. /\ ws = <<<<A, node>>>> /\ Len(ws) = 1 /\ DOMAIN ws = 1..1 /\ ws[1] = <<A, node>>
         /\ ws[1][1] = A /\ ws[1][2] = node
    BY <2>8, <2>13 DEF Write
  <2> HIDE DEF ws
  <2>17. Rewrites(t, ws)
    <3>1. ws \in Seq(AnyWrite)
      <4>1. node \in AnyNode
        BY <2>15, AnyNodeIsNode
      <4>2. <<A, node>> \in AnyWrite
        BY <2>11, <4>1 DEF AnyWrite
      <4> QED BY <2>16, <4>2
    <3> QED BY <2>3, <2>13, <2>16, <3>1 DEF Rewrites
  <2> DEFINE out == Written(pg, ws)
  <2>18. DOMAIN out = DOMAIN pg /\ out[A] = node /\ \A q \in DOMAIN pg : q # A => out[q] = pg[q]
    <3>1. IsWritten(pg, ws, out)
      BY <2>16, WrittenPages
    <3>2. Targets(ws) = {A}
      BY <2>16 DEF Targets
    <3>3. 1 \in 1..Len(ws) /\ \A i \in 1..Len(ws) : i = 1
      BY <2>16
    <3> HIDE DEF out
    <3>4. DOMAIN out = DOMAIN pg
      BY <2>11, <3>1, <3>2 DEF IsWritten
    <3>5. \E i \in 1..Len(ws) : ws[i][1] = A /\ out[A] = ws[i][2]
      BY <3>1, <3>2 DEF IsWritten
    <3>6. out[A] = node
      BY <2>16, <3>3, <3>5
    <3>7. \A q \in DOMAIN pg : q # A => out[q] = pg[q]
      BY <3>1, <3>2 DEF IsWritten
    <3> QED BY <3>4, <3>6, <3>7
  <2> HIDE DEF out
  <2>19. SameButKeys(pg, out)
    BY <2>11, <2>13, <2>18 DEF SameButKeys
  <2>20. Kept(out, t, A, None)
    <3>1. /\ Size(out, A) = Size(pg, A) /\ out[A].items = pg[A].items /\ out[A].keys = node.keys
      BY <2>13, <2>18 DEF Size
    <3>2. ASSUME NEW i \in 1..(Size(pg, A) - 1)
          PROVE  /\ node.keys[i] \in t.under[pg[A].items[i + 1]]
                 /\ \A x \in t.under[pg[A].items[i]] : x < node.keys[i]
                 /\ \A x \in t.under[pg[A].items[i + 1]] : node.keys[i] <= x
      <4>1. CASE i = j - 1
        <5>1. i + 1 = j /\ pg[A].items[i + 1] = c
          BY <2>4, <2>6, <4>1
        <5>2. node.keys[i] = k
          BY <2>14, <4>1
        <5>3. \A x \in t.under[pg[A].items[i]] : x < k
          BY <1>0, <2>3, <2>10, <5>1, LeastSeparates
        <5> QED BY <2>10, <5>1, <5>2, <5>3
      <4>2. CASE i # j - 1
        <5>1. node.keys[i] = pg[A].keys[i]
          BY <2>14, <4>2
        <5>2. /\ pg[A].keys[i] \in t.under[pg[A].items[i + 1]] \/ t.first[pg[A].items[i + 1]] = t.first[p]
              /\ \A x \in t.under[pg[A].items[i]] : x < pg[A].keys[i]
              /\ \A x \in t.under[pg[A].items[i + 1]] : pg[A].keys[i] <= x
          BY <2>11 DEF Kept, Keyed
        <5>3. ASSUME t.first[pg[A].items[i + 1]] = t.first[p] PROVE FALSE
          <6>1. i + 1 \in 2..Size(pg, A) /\ i + 1 # j
            BY <2>6, <4>2
          <6>2. i + 1 = j
            BY <2>3, <2>4, <2>6, <2>9, <5>3, <6>1, SeparatorOnce
          <6> QED BY <6>1, <6>2
        <5> QED BY <5>1, <5>2, <5>3
      <4> QED BY <4>1, <4>2
    <3> QED BY <2>14, <3>1, <3>2 DEF Kept, Keyed
  <2>21. ASSUME NEW q \in t.nodes, ~pg[q].leaf, q # A PROVE Kept(out, t, q, None)
    <3>1. Kept(pg, t, q, t.first[p]) /\ InternalShape(pg, t, q) /\ out[q] = pg[q]
      BY <1>0, <2>18, <2>21, InternalFacts
    <3>2. ASSUME NEW i \in 1..(Size(pg, q) - 1), t.first[pg[q].items[i + 1]] = t.first[p] PROVE FALSE
      <4>1. Size(pg, q) \in Nat /\ i + 1 \in 2..Size(pg, q)
        BY <3>1 DEF InternalShape
      <4>2. q = A
        BY <2>3, <2>4, <2>6, <2>9, <2>21, <3>2, <4>1, SeparatorOnce
      <4> QED BY <2>21, <4>2
    <3>3. Size(out, q) = Size(pg, q)
      BY <3>1 DEF Size
    <3> QED BY <3>1, <3>2, <3>3 DEF Kept, Keyed
  <2>22. \A q \in t.nodes : ~pg[q].leaf => Kept(out, t, q, None)
    BY <2>20, <2>21
  <2> QED BY <2>16, <2>17, <2>19, <2>22 DEF PropagatedOK, ws, out
<1> QED BY <1>7, <1>8

-----------------------------------------------------------------------------
(* A tree that is balanced, exact and has no empty node, but for one.       *)

MaxOf(kind, leaf) == IF leaf THEN MaxLeaf[kind] ELSE MaxInternal[kind]

Count(pg, p) == IF pg[p].leaf THEN Size(pg, p) ELSE Size(pg, p) - 1

Sized(kind, pg, p) == 1 <= Count(pg, p) /\ Count(pg, p) <= MaxOf(kind, pg[p].leaf)

\* Page n is the node of the call in progress; f as in Kept.
Holds(kind, pg, root, t, n, f) ==
    /\ Tree(pg, root, t)
    /\ \A p \in t.nodes : pg[p].id = p
    /\ \A p \in t.nodes \ {n} : Sized(kind, pg, p) /\ (~pg[p].leaf => Kept(pg, t, p, f))
    /\ n \in t.nodes /\ ~pg[n].leaf => Size(pg, n) >= 1

\* What such a tree is, node by node.
LEMMA HoldsFacts ==
    ASSUME NEW kind, NEW pg, NEW root, NEW t, NEW n, NEW f, Holds(kind, pg, root, t, n, f)
    PROVE  /\ Tree(pg, root, t) /\ NoneChildless(pg, t)
           /\ \A p \in t.nodes : NodeOK(pg, t, p) /\ Size(pg, p) \in Nat /\ pg[p].id = p
           /\ \A p \in t.nodes \ {n} : /\ pg[p].leaf => Size(pg, p) >= 1
                                       /\ ~pg[p].leaf => Size(pg, p) >= 2 /\ Kept(pg, t, p, f)
<1>1. /\ Tree(pg, root, t)
      /\ \A p \in t.nodes : pg[p].id = p
      /\ \A p \in t.nodes \ {n} : Sized(kind, pg, p) /\ (~pg[p].leaf => Kept(pg, t, p, f))
      /\ n \in t.nodes /\ ~pg[n].leaf => Size(pg, n) >= 1
  BY DEF Holds
<1>2. \A p \in t.nodes : NodeOK(pg, t, p) /\ Size(pg, p) \in Nat /\ pg[p].id = p
  BY <1>1, SizeIsNat DEF Tree
<1>3. ASSUME NEW p \in t.nodes \ {n}
      PROVE  /\ pg[p].leaf => Size(pg, p) >= 1
             /\ ~pg[p].leaf => Size(pg, p) >= 2 /\ Kept(pg, t, p, f)
  <2>1. /\ pg[p].leaf => Size(pg, p) >= 1
        /\ ~pg[p].leaf => Size(pg, p) - 1 >= 1
    BY <1>1 DEF Sized, Count
  <2> QED BY <1>1, <1>2, <2>1
<1>4. ASSUME NEW p \in t.nodes, ~pg[p].leaf PROVE Size(pg, p) >= 1
  <2>1. CASE p = n
    BY <1>1, <1>4, <2>1
  <2>2. CASE p # n
    BY <1>2, <1>3, <1>4, <2>2
  <2> QED BY <2>1, <2>2
<1> QED BY <1>1, <1>2, <1>3, <1>4 DEF NoneChildless

\* Every node but an empty leaf has keys below.
LEMMA UnderNotEmpty ==
    ASSUME NEW kind, NEW pg, NEW root, NEW t, NEW n, NEW f, Holds(kind, pg, root, t, n, f)
    PROVE  \A p \in t.nodes : p # n \/ ~pg[p].leaf => t.under[p] # {}
<1> DEFINE S == {p \in t.nodes : p # n \/ ~pg[p].leaf => t.under[p] # {}}
<1>0. /\ Tree(pg, root, t) /\ NoneChildless(pg, t)
      /\ \A p \in t.nodes : NodeOK(pg, t, p) /\ Size(pg, p) \in Nat
      /\ \A p \in t.nodes \ {n} : /\ pg[p].leaf => Size(pg, p) >= 1
                                  /\ ~pg[p].leaf => Size(pg, p) >= 2
  BY HoldsFacts
<1>1. ASSUME NEW p \in t.nodes, pg[p].leaf PROVE p \in S
  <2> SUFFICES ASSUME p # n PROVE t.under[p] # {}
    BY <1>1
  <2>1. LeafShape(pg, t, p)
    BY <1>0, <1>1, LeafFacts
  <2>2. 1 \in 1..Size(pg, p)
    BY <1>0, <1>1
  <2> QED BY <2>1, <2>2 DEF LeafShape
<1>2. ASSUME NEW p \in t.nodes, ~pg[p].leaf, \A i \in 1..Size(pg, p) : pg[p].items[i] \in S PROVE p \in S
  <2>1. InternalShape(pg, t, p)
    BY <1>0, <1>2, InternalFacts
  <2>2. \E i \in 1..Size(pg, p) : pg[p].items[i] # n
    <3>1. CASE p = n
      <4>1. 1 \in 1..Size(pg, p) /\ t.level[pg[p].items[1]] # t.level[p]
        BY <1>0, <1>2, FirstChild
      <4> QED BY <3>1, <4>1
    <3>2. CASE p # n
      <4>1. 1 \in 1..Size(pg, p) /\ 2 \in 1..Size(pg, p)
        BY <1>0, <1>2, <3>2
      <4>2. pg[p].items[1] # pg[p].items[2]
        BY <2>1, <4>1 DEF InternalShape
      <4> QED BY <4>1, <4>2
    <3> QED BY <3>1, <3>2
  <2>3. PICK i \in 1..Size(pg, p) : pg[p].items[i] # n
    BY <2>2
  <2>4. t.under[pg[p].items[i]] # {} /\ pg[p].items[i] \in t.nodes
    BY <1>2, <2>3
  <2>5. t.under[pg[p].items[i]] \subseteq t.under[p]
    BY <2>1 DEF InternalShape
  <2> QED BY <2>4, <2>5
<1>3. \A p \in t.nodes : p \in S
  <2> HIDE DEF S
  <2> QED BY <1>0, <1>1, <1>2, LevelInduction
<1> QED BY <1>3

\* A separator is as exact in the new tree as in the old one.
LEMMA KeptAsBefore ==
    ASSUME NEW pg, NEW t, NEW q, NEW f, Kept(pg, t, q, f),
           NEW npg, NEW nt, NEW g, npg[q] = pg[q], Size(pg, q) \in Nat,
           \A i \in 1..Size(pg, q) : nt.under[pg[q].items[i]] = t.under[pg[q].items[i]],
           \A i \in 2..Size(pg, q) : t.first[pg[q].items[i]] = f => nt.first[pg[q].items[i]] = g
    PROVE  Kept(npg, nt, q, g)
<1>1. Size(npg, q) = Size(pg, q)
  BY DEF Size
<1>2. /\ pg[q].keys \in Seq(Keys) /\ Len(pg[q].keys) = Size(pg, q) - 1
  BY DEF Kept, Keyed
<1>3. ASSUME NEW i \in 1..(Size(pg, q) - 1)
      PROVE  /\ \A x \in nt.under[pg[q].items[i]] : x < pg[q].keys[i]
             /\ \A x \in nt.under[pg[q].items[i + 1]] : pg[q].keys[i] <= x
             /\ pg[q].keys[i] \in nt.under[pg[q].items[i + 1]] \/ nt.first[pg[q].items[i + 1]] = g
  <2>1. /\ \A x \in t.under[pg[q].items[i]] : x < pg[q].keys[i]
        /\ \A x \in t.under[pg[q].items[i + 1]] : pg[q].keys[i] <= x
        /\ pg[q].keys[i] \in t.under[pg[q].items[i + 1]] \/ t.first[pg[q].items[i + 1]] = f
    BY DEF Kept, Keyed
  <2>2. i \in 1..Size(pg, q) /\ i + 1 \in 1..Size(pg, q) /\ i + 1 \in 2..Size(pg, q)
    OBVIOUS
  <2> QED BY <2>1, <2>2
<1> QED BY <1>1, <1>2, <1>3 DEF Kept, Keyed

\* The children of page q are as they were.
SameBelowPage(pg, t, nt, q) ==
    \A i \in 1..Size(pg, q) : /\ nt.under[pg[q].items[i]] = t.under[pg[q].items[i]]
                              /\ nt.first[pg[q].items[i]] = t.first[pg[q].items[i]]

\* pgx is pg up to level h.
Agrees(pg, t, pgx, h) ==
    /\ Len(pgx) \in Nat
    /\ \A p \in t.nodes : t.level[p] <= h => p \in DOMAIN pgx /\ pgx[p] = pg[p] /\ t.level[p] <= Len(pgx)

\* What a helper does: of the pages of the new tree, those of X have been
\* written, with their separators computed anew.
Resettled(kind, pg, t, n, f, npg, root, nt, X, m, g) ==
    /\ Tree(npg, root, nt)
    /\ \A p \in nt.nodes : npg[p].id = p
    /\ \A p \in nt.nodes \ {m} : Sized(kind, npg, p)
    /\ m \in nt.nodes => ~npg[m].leaf /\ Size(npg, m) >= 1
    /\ \A p \in nt.nodes \ X :
           /\ p \in t.nodes \ {n} /\ npg[p] = pg[p]
           /\ ~pg[p].leaf => /\ SameBelowPage(pg, t, nt, p)
                             /\ \A i \in 2..Size(pg, p) : t.first[pg[p].items[i]] = f => f = g
    /\ \A p \in (nt.nodes \cap X) \ {m} : ~npg[p].leaf =>
           \E pgx : IsRebuilt(pgx, npg[p]) /\ Agrees(npg, nt, pgx, nt.level[p] - 1)

\* After a helper the new tree is balanced and exact, but for page m.
LEMMA ResettledHolds ==
    ASSUME KeysAssumption, NEW kind, NEW pg, NEW root, NEW t, NEW n, NEW f, Holds(kind, pg, root, t, n, f),
           NEW npg, NEW nroot, NEW nt, NEW X, NEW m, NEW g,
           Resettled(kind, pg, t, n, f, npg, nroot, nt, X, m, g)
    PROVE  Holds(kind, npg, nroot, nt, m, g)
<1>1. /\ Tree(npg, nroot, nt)
      /\ \A p \in nt.nodes : npg[p].id = p
      /\ \A p \in nt.nodes \ {m} : Sized(kind, npg, p)
      /\ m \in nt.nodes => ~npg[m].leaf /\ Size(npg, m) >= 1
  BY DEF Resettled
<1>2. /\ \A p \in nt.nodes : NodeOK(npg, nt, p) /\ Size(npg, p) \in Nat /\ nt.level[p] \in Nat
  BY <1>1, SizeIsNat DEF Tree, NodeOK
<1>3. \A p \in nt.nodes : Size(npg, p) >= 1 /\ (~npg[p].leaf /\ p # m => Size(npg, p) >= 2)
  <2> SUFFICES ASSUME NEW p \in nt.nodes
               PROVE  Size(npg, p) >= 1 /\ (~npg[p].leaf /\ p # m => Size(npg, p) >= 2)
    OBVIOUS
  <2>1. CASE p = m
    BY <1>1, <2>1
  <2>2. CASE p # m
    <3>1. 1 <= Count(npg, p)
      BY <1>1, <2>2 DEF Sized
    <3>2. CASE npg[p].leaf
      BY <1>2, <3>1, <3>2 DEF Count
    <3>3. CASE ~npg[p].leaf
      <4>1. 1 <= Size(npg, p) - 1 /\ Size(npg, p) \in Nat
        BY <1>2, <3>1, <3>3 DEF Count
      <4> QED BY <4>1
    <3> QED BY <3>2, <3>3
  <2> QED BY <2>1, <2>2
<1>4. \A p \in nt.nodes : nt.under[p] # {}
  <2> DEFINE S == {p \in nt.nodes : nt.under[p] # {}}
  <2>1. ASSUME NEW p \in nt.nodes, npg[p].leaf PROVE p \in S
    <3>1. LeafShape(npg, nt, p)
      BY <1>2, <2>1, LeafFacts
    <3>2. 1 \in 1..Size(npg, p)
      BY <1>2, <1>3
    <3> QED BY <3>1, <3>2 DEF LeafShape
  <2>2. ASSUME NEW p \in nt.nodes, ~npg[p].leaf, \A i \in 1..Size(npg, p) : npg[p].items[i] \in S PROVE p \in S
    <3>1. InternalShape(npg, nt, p)
      BY <1>2, <2>2, InternalFacts
    <3>2. 1 \in 1..Size(npg, p)
      BY <1>2, <1>3
    <3>3. nt.under[npg[p].items[1]] # {} /\ nt.under[npg[p].items[1]] \subseteq nt.under[p]
      BY <2>2, <3>1, <3>2 DEF InternalShape
    <3> QED BY <3>3
  <2>3. \A p \in nt.nodes : p \in S
    <3> HIDE DEF S
    <3> QED BY <1>1, <2>1, <2>2, LevelInduction
  <2> QED BY <2>3
<1>5. ASSUME NEW p \in nt.nodes \ {m}, ~npg[p].leaf PROVE Kept(npg, nt, p, g)
  <2>1. CASE p \in X
    <3>1. PICK pgx : IsRebuilt(pgx, npg[p]) /\ Agrees(npg, nt, pgx, nt.level[p] - 1)
      BY <1>5, <2>1 DEF Resettled
    <3>2. Readable(npg, nt, pgx, nt.level[p] - 1)
      BY <1>3, <1>4, <3>1 DEF Readable, Agrees
    <3> QED BY <1>1, <1>3, <1>5, <3>1, <3>2, RebuiltExact
  <2>2. CASE p \notin X
    <3>1. /\ p \in t.nodes \ {n} /\ npg[p] = pg[p]
          /\ ~pg[p].leaf => /\ SameBelowPage(pg, t, nt, p)
                            /\ \A i \in 2..Size(pg, p) : t.first[pg[p].items[i]] = f => f = g
      BY <2>2 DEF Resettled
    <3>2. ~pg[p].leaf
      BY <1>5, <3>1
    <3>3. /\ SameBelowPage(pg, t, nt, p)
          /\ \A i \in 2..Size(pg, p) : t.first[pg[p].items[i]] = f => f = g
      BY <3>1, <3>2
    <3>4. Kept(pg, t, p, f) /\ Size(pg, p) \in Nat
      BY <3>1, <3>2, HoldsFacts
    <3>5. \A i \in 1..Size(pg, p) : nt.under[pg[p].items[i]] = t.under[pg[p].items[i]]
      BY <3>3 DEF SameBelowPage
    <3>6. ASSUME NEW i \in 2..Size(pg, p), t.first[pg[p].items[i]] = f PROVE nt.first[pg[p].items[i]] = g
      <4>1. i \in 1..Size(pg, p)
        BY <3>4
      <4> QED BY <3>3, <3>6, <4>1 DEF SameBelowPage
    <3> QED BY <3>1, <3>4, <3>5, <3>6, KeptAsBefore
  <2> QED BY <2>1, <2>2
<1> QED BY <1>1, <1>5 DEF Holds

\* A separator before the first leaf of child n of page P is in P, or that leaf
\* is the first of P.
LEMMA ExcuseUp ==
    ASSUME NEW pg, NEW root, NEW t, Tree(pg, root, t), NoneChildless(pg, t),
           NEW P \in t.nodes, ~pg[P].leaf, NEW j \in 1..Size(pg, P),
           NEW q \in t.nodes, ~pg[q].leaf, q # P, NEW i \in 2..Size(pg, q),
           t.first[pg[q].items[i]] = t.first[pg[P].items[j]]
    PROVE  t.first[pg[P].items[j]] = t.first[P]
<1>1. CASE j = 1
  BY <1>1, FirstChild
<1>2. CASE j # 1
  <2>1. j \in 2..Size(pg, P)
    BY <1>2, FirstChild
  <2> QED BY <2>1, SeparatorOnce
<1> QED BY <1>1, <1>2

\* nt says of the whole tree what t says.
SameTop(t, nt, root) ==
    nt.level[root] = t.level[root] /\ nt.under[root] = t.under[root] /\ nt.first[root] = t.first[root]

\* All the nodes, but those of S, are in the file pgx as in pg.
Sees(pgx, pg, t, S) ==
    /\ t.nodes \subseteq DOMAIN pgx /\ Len(pgx) \in Nat
    /\ \A p \in t.nodes : t.level[p] <= Len(pgx)
    /\ \A p \in t.nodes \ S : pgx[p] = pg[p]

\* Which separators may be wrong when the helper of page n is done, and the
\* parent P has been written.
Hands(t, n, f, P, g) == (f = None /\ g = None) \/ (f = t.first[n] /\ g = t.first[P])

\* Two siblings and their parent are written.
PairWritten(pg, t, P, l, r, npg, pgx, pgy) ==
    /\ t.nodes \subseteq DOMAIN npg
    /\ \A p \in t.nodes \ {l, r, P} : npg[p] = pg[p]
    /\ npg[P].id = P /\ npg[P].leaf = pg[P].leaf /\ npg[P].items = pg[P].items /\ IsRebuilt(pgy, npg[P])
    /\ npg[l].id = l /\ npg[r].id = r
    /\ ~pg[l].leaf => IsRebuilt(pgx, npg[l]) /\ IsRebuilt(pgx, npg[r])
    /\ Sees(pgx, pg, t, {l, r}) /\ Sees(pgy, npg, t, {P})

\* Siblings l and r, one of which is the node n, share out e in another way.
CanMove(kind, pg, root, t, n, f, P, j, l, r, g, e, npg, pgx, pgy) ==
    /\ Holds(kind, pg, root, t, n, f)
    /\ AreSiblings(pg, t, P, j, l, r) /\ n \in {l, r} /\ Hands(t, n, f, P, g)
    /\ IsJoin(pg[l].items, pg[r].items, e) /\ ShareOut(npg, l, r, pg[l].leaf, e)
    /\ PairWritten(pg, t, P, l, r, npg, pgx, pgy)
    /\ Sized(kind, npg, l) /\ Sized(kind, npg, r)

\* redistribute_*, try_give_*, and the borrowing of fix_*_underflow: two siblings
\* share out what they hold, and their parent is rebuilt.
LEMMA PairMoved ==
    ASSUME KeysAssumption, NEW kind, NEW pg, NEW root, NEW t, NEW n, NEW f,
           NEW P, NEW j, NEW l, NEW r, NEW g, NEW e, NEW npg, NEW pgx, NEW pgy,
           CanMove(kind, pg, root, t, n, f, P, j, l, r, g, e, npg, pgx, pgy)
    PROVE  \E nt : /\ Holds(kind, npg, root, nt, None, g) /\ SameTop(t, nt, root)
                   /\ nt.nodes = t.nodes /\ nt.level = t.level /\ nt.first[P] = t.first[P]
<1>00. /\ Holds(kind, pg, root, t, n, f)
       /\ AreSiblings(pg, t, P, j, l, r) /\ n \in {l, r} /\ Hands(t, n, f, P, g)
       /\ IsJoin(pg[l].items, pg[r].items, e) /\ ShareOut(npg, l, r, pg[l].leaf, e)
       /\ PairWritten(pg, t, P, l, r, npg, pgx, pgy)
       /\ Sized(kind, npg, l) /\ Sized(kind, npg, r)
  BY DEF CanMove
<1>0. /\ Tree(pg, root, t) /\ NoneChildless(pg, t)
      /\ \A p \in t.nodes : NodeOK(pg, t, p) /\ Size(pg, p) \in Nat /\ pg[p].id = p
      /\ \A p \in t.nodes \ {n} : Sized(kind, pg, p) /\ (~pg[p].leaf => Kept(pg, t, p, f))
      /\ \A p \in t.nodes : t.level[p] \in Nat
  <2>1. \A p \in t.nodes : t.level[p] \in Nat
    BY <1>00 DEF Holds, Tree, NodeOK
  <2>2. \A p \in t.nodes \ {n} : Sized(kind, pg, p) /\ (~pg[p].leaf => Kept(pg, t, p, f))
    BY <1>00 DEF Holds
  <2> QED BY <1>00, <2>1, <2>2, HoldsFacts
<1>1. /\ t.nodes \subseteq DOMAIN npg
      /\ \A p \in t.nodes \ {l, r, P} : npg[p] = pg[p]
      /\ npg[P].id = P /\ npg[P].leaf = pg[P].leaf /\ npg[P].items = pg[P].items /\ IsRebuilt(pgy, npg[P])
      /\ npg[l].id = l /\ npg[r].id = r
      /\ ~pg[l].leaf => IsRebuilt(pgx, npg[l]) /\ IsRebuilt(pgx, npg[r])
      /\ Sees(pgx, pg, t, {l, r}) /\ Sees(pgy, npg, t, {P})
  BY <1>00 DEF PairWritten
<1>2. /\ P \in t.nodes /\ ~pg[P].leaf /\ l \in t.nodes /\ r \in t.nodes /\ l # r /\ P \notin {l, r}
      /\ t.level[l] = t.level[P] - 1 /\ t.level[r] = t.level[P] - 1
      /\ t.parent[l] = P /\ t.parent[r] = P /\ pg[l].leaf = pg[r].leaf /\ pg[l].leaf \in BOOLEAN
      /\ t.level[P] \in Nat /\ t.level[l] \in Nat
  <2>1. SiblingShape(pg, t, P, l, r)
    BY <1>00, <1>0, SiblingFacts
  <2>2. P \in t.nodes /\ ~pg[P].leaf
    BY <1>00 DEF AreSiblings
  <2> QED BY <2>1, <2>2 DEF SiblingShape
<1>3. npg[l].leaf = pg[l].leaf /\ npg[r].leaf = pg[l].leaf
  BY <1>00 DEF ShareOut
<1>4. SameItems(pg, npg, t.nodes \ {l, r})
  BY <1>1 DEF SameItems
<1>5. ~pg[l].leaf => Size(pg, l) >= 1 /\ Size(npg, l) >= 1
  <2> SUFFICES ASSUME ~pg[l].leaf PROVE Size(pg, l) >= 1 /\ Size(npg, l) >= 1
    OBVIOUS
  <2>1. Size(pg, l) >= 1
    BY <1>0, <1>2 DEF NoneChildless
  <2>2. Len(npg[l].items) \in Nat
    BY DEF ShareOut, IsJoin
  <2>3. 1 <= Size(npg, l) - 1 /\ Size(npg, l) \in Nat
    BY <1>00, <1>3, <2>2 DEF Sized, Count, Size
  <2> QED BY <2>1, <2>3
<1>6. PICK nt : Tree(npg, root, nt) /\ IsLike(t, nt, l, r)
  BY <1>00, <1>0, <1>1, <1>4, <1>5, MoveItems
<1>7. /\ nt.nodes = t.nodes /\ nt.level = t.level
      /\ \A p \in t.nodes \ {l, r} : nt.under[p] = t.under[p]
      /\ \A p \in t.nodes \ {r} : nt.first[p] = t.first[p]
  BY <1>6 DEF IsLike
<1>8. root \in t.nodes /\ root \notin {l, r} /\ None \notin t.nodes
  <2>1. root \in t.nodes /\ t.parent[root] = None /\ None \notin t.nodes
    BY <1>0 DEF Tree
  <2> QED BY <1>2, <2>1
<1> DEFINE X == {l, r, P}
<1>9. \A p \in nt.nodes : npg[p].id = p
  BY <1>0, <1>1, <1>7
<1>10. \A p \in nt.nodes \ {None} : Sized(kind, npg, p)
  <2> SUFFICES ASSUME NEW p \in t.nodes PROVE Sized(kind, npg, p)
    BY <1>7
  <2>1. CASE p \in {l, r}
    BY <1>00, <2>1
  <2>2. CASE p \notin {l, r}
    <3>1. Sized(kind, pg, p) /\ npg[p].leaf = pg[p].leaf /\ npg[p].items = pg[p].items
      BY <1>00, <1>0, <1>1, <2>2
    <3> QED BY <3>1 DEF Sized, Count, Size
  <2> QED BY <2>1, <2>2
<1>11. ASSUME NEW p \in nt.nodes \ X
       PROVE  /\ p \in t.nodes \ {n} /\ npg[p] = pg[p]
              /\ ~pg[p].leaf => /\ SameBelowPage(pg, t, nt, p)
                                /\ \A i \in 2..Size(pg, p) : t.first[pg[p].items[i]] = f => f = g
  <2>1. p \in t.nodes \ {n} /\ npg[p] = pg[p] /\ p # P
    BY <1>00, <1>1, <1>7
  <2>2. ASSUME ~pg[p].leaf, NEW i \in 1..Size(pg, p)
        PROVE  nt.under[pg[p].items[i]] = t.under[pg[p].items[i]] /\ nt.first[pg[p].items[i]] = t.first[pg[p].items[i]]
    <3>1. InternalShape(pg, t, p)
      BY <1>0, <2>1, <2>2, InternalFacts
    <3>2. pg[p].items[i] \in t.nodes /\ t.parent[pg[p].items[i]] = p
      BY <3>1 DEF InternalShape
    <3>3. pg[p].items[i] \notin {l, r}
      BY <1>2, <2>1, <3>2
    <3> QED BY <1>7, <3>2, <3>3
  <2>3. ASSUME ~pg[p].leaf, NEW i \in 2..Size(pg, p), t.first[pg[p].items[i]] = f PROVE f = g
    <3>1. CASE f = None /\ g = None
      BY <3>1
    <3>2. CASE f = t.first[n] /\ g = t.first[P]
      <4>1. \E jn \in 1..Size(pg, P) : pg[P].items[jn] = n
        <5>1. j \in 1..Size(pg, P) /\ j + 1 \in 1..Size(pg, P) /\ l = pg[P].items[j] /\ r = pg[P].items[j + 1]
          <6>1. Size(pg, P) \in Nat
            BY <1>0, <1>2
          <6>2. j \in 1..(Size(pg, P) - 1) /\ l = pg[P].items[j] /\ r = pg[P].items[j + 1]
            BY <1>00 DEF AreSiblings
          <6> QED BY <6>1, <6>2
        <5> QED BY <1>00, <5>1
      <4>2. PICK jn \in 1..Size(pg, P) : pg[P].items[jn] = n
        BY <4>1
      <4>3. t.first[n] = t.first[P]
        BY <1>0, <1>2, <2>1, <2>3, <3>2, <4>2, ExcuseUp
      <4> QED BY <3>2, <4>3
    <3> QED BY <1>00, <3>1, <3>2 DEF Hands
  <2> QED BY <2>1, <2>2, <2>3 DEF SameBelowPage
<1>12. ASSUME NEW p \in (nt.nodes \cap X) \ {None}, ~npg[p].leaf
       PROVE  \E ph : IsRebuilt(ph, npg[p]) /\ Agrees(npg, nt, ph, nt.level[p] - 1)
  <2>1. CASE p = P
    <3>1. Agrees(npg, nt, pgy, nt.level[P] - 1)
      <4>1. \A q \in t.nodes : t.level[q] <= t.level[P] - 1 => q # P
        BY <1>2
      <4> QED BY <1>1, <1>7, <4>1 DEF Agrees, Sees
    <3> QED BY <1>1, <2>1, <3>1
  <2>2. CASE p \in {l, r}
    <3>1. IsRebuilt(pgx, npg[p])
      BY <1>1, <1>3, <1>12, <2>2
    <3>2. Agrees(npg, nt, pgx, nt.level[p] - 1)
      <4>1. \A q \in t.nodes : t.level[q] <= t.level[p] - 1 => q \notin {l, r, P}
        BY <1>2, <2>2
      <4>2. \A q \in t.nodes : t.level[q] <= t.level[p] - 1 => pgx[q] = npg[q]
        BY <1>1, <4>1 DEF Sees
      <4> QED BY <1>1, <1>7, <4>2 DEF Agrees, Sees
    <3> QED BY <3>1, <3>2
  <2> QED BY <2>1, <2>2
<1>13. Resettled(kind, pg, t, n, f, npg, root, nt, X, None, g)
  <2>1. None \notin nt.nodes
    BY <1>7, <1>8
  <2> HIDE DEF X
  <2> QED BY <1>6, <1>9, <1>10, <1>11, <1>12, <2>1 DEF Resettled
<1>14. Holds(kind, npg, root, nt, None, g)
  BY <1>00, <1>13, ResettledHolds
<1>15. SameTop(t, nt, root) /\ nt.first[P] = t.first[P]
  BY <1>2, <1>7, <1>8 DEF SameTop
<1> QED BY <1>7, <1>14, <1>15

\* One of two siblings takes what both hold, and the other leaves the tree.
PairMerged(pg, t, P, j, l, r, npg, pgx) ==
    /\ t.nodes \ {r} \subseteq DOMAIN npg
    /\ \A p \in t.nodes \ {l, r, P} : npg[p] = pg[p]
    /\ npg[P].id = P /\ npg[P].leaf = pg[P].leaf /\ npg[P].items = RemoveAt(pg[P].items, j + 1)
    /\ npg[l].id = l /\ npg[l].leaf = pg[l].leaf /\ ItemsOK(pg[l].leaf, npg[l].items)
    /\ ~pg[l].leaf => IsRebuilt(pgx, npg[l])
    /\ Sees(pgx, pg, t, {l, r})

\* Siblings l and r, one of which is the node n, become one.
CanJoin(kind, pg, root, t, n, f, P, j, l, r, g, npg, pgx) ==
    /\ Holds(kind, pg, root, t, n, f)
    /\ AreSiblings(pg, t, P, j, l, r) /\ n \in {l, r} /\ Hands(t, n, f, P, g)
    /\ IsJoin(pg[l].items, pg[r].items, npg[l].items)
    /\ PairMerged(pg, t, P, j, l, r, npg, pgx)
    /\ Sized(kind, npg, l)

\* The merge of fix_*_underflow: the parent is then the node of the call.
LEMMA PairJoined ==
    ASSUME KeysAssumption, NEW kind, NEW pg, NEW root, NEW t, NEW n, NEW f,
           NEW P, NEW j, NEW l, NEW r, NEW g, NEW npg, NEW pgx,
           CanJoin(kind, pg, root, t, n, f, P, j, l, r, g, npg, pgx)
    PROVE  \E nt : /\ Holds(kind, npg, root, nt, P, g) /\ SameTop(t, nt, root)
                   /\ nt.nodes = t.nodes \ {r} /\ nt.level = t.level /\ nt.first[P] = t.first[P]
<1>00. /\ Holds(kind, pg, root, t, n, f)
       /\ AreSiblings(pg, t, P, j, l, r) /\ n \in {l, r} /\ Hands(t, n, f, P, g)
       /\ IsJoin(pg[l].items, pg[r].items, npg[l].items)
       /\ PairMerged(pg, t, P, j, l, r, npg, pgx)
       /\ Sized(kind, npg, l)
  BY DEF CanJoin
<1>0. /\ Tree(pg, root, t) /\ NoneChildless(pg, t)
      /\ \A p \in t.nodes : NodeOK(pg, t, p) /\ Size(pg, p) \in Nat /\ pg[p].id = p
      /\ \A p \in t.nodes \ {n} : Sized(kind, pg, p) /\ (~pg[p].leaf => Kept(pg, t, p, f))
      /\ \A p \in t.nodes : t.level[p] \in Nat
      /\ \A p \in t.nodes \ {n} : ~pg[p].leaf => Size(pg, p) >= 2
  <2>1. \A p \in t.nodes : t.level[p] \in Nat
    BY <1>00 DEF Holds, Tree, NodeOK
  <2>2. \A p \in t.nodes \ {n} : Sized(kind, pg, p) /\ (~pg[p].leaf => Kept(pg, t, p, f))
    BY <1>00 DEF Holds
  <2> QED BY <1>00, <2>1, <2>2, HoldsFacts
<1>j. PICK a, b, c : /\ a = Len(pg[l].items) /\ b = Len(pg[r].items) /\ c = Len(npg[l].items)
                     /\ a \in Nat /\ b \in Nat /\ c = a + b
                     /\ \A i \in 1..a : pg[l].items[i] = npg[l].items[i]
                     /\ \A i \in 1..b : pg[r].items[i] = npg[l].items[a + i]
  BY <1>00, Zenon DEF IsJoin
<1>k. a \in Nat /\ b \in Nat /\ c = a + b
  BY <1>j, Zenon
<1>l. c \in Nat /\ c >= a
  BY <1>k
<1>1. /\ t.nodes \ {r} \subseteq DOMAIN npg
      /\ \A p \in t.nodes \ {l, r, P} : npg[p] = pg[p]
      /\ npg[P].id = P /\ npg[P].leaf = pg[P].leaf /\ npg[P].items = RemoveAt(pg[P].items, j + 1)
      /\ npg[l].id = l /\ npg[l].leaf = pg[l].leaf /\ ItemsOK(pg[l].leaf, npg[l].items)
      /\ ~pg[l].leaf => IsRebuilt(pgx, npg[l])
      /\ Sees(pgx, pg, t, {l, r})
  BY <1>00 DEF PairMerged
<1>2. /\ P \in t.nodes /\ ~pg[P].leaf /\ l \in t.nodes /\ r \in t.nodes /\ l # r /\ P \notin {l, r}
      /\ t.level[l] = t.level[P] - 1 /\ t.level[r] = t.level[P] - 1
      /\ t.parent[l] = P /\ t.parent[r] = P /\ pg[l].leaf = pg[r].leaf /\ pg[l].leaf \in BOOLEAN
      /\ t.level[P] \in Nat /\ t.level[l] \in Nat
      /\ j \in 1..(Size(pg, P) - 1) /\ l = pg[P].items[j] /\ r = pg[P].items[j + 1]
  <2>1. SiblingShape(pg, t, P, l, r)
    BY <1>00, <1>0, SiblingFacts
  <2>2. P \in t.nodes /\ ~pg[P].leaf /\ j \in 1..(Size(pg, P) - 1) /\ l = pg[P].items[j] /\ r = pg[P].items[j + 1]
    BY <1>00 DEF AreSiblings
  <2> QED BY <2>1, <2>2 DEF SiblingShape
<1>3. root \in t.nodes /\ root \notin {l, r} /\ None \notin t.nodes /\ t.nodes \subseteq DOMAIN pg
  <2>1. root \in t.nodes /\ t.parent[root] = None /\ None \notin t.nodes /\ t.nodes \subseteq DOMAIN pg
    BY <1>0 DEF Tree
  <2> QED BY <1>2, <2>1
<1>4. PICK mid : /\ t.nodes \subseteq DOMAIN mid
                 /\ mid[l] = npg[l] /\ mid[r].leaf = pg[r].leaf /\ mid[r].items = <<>>
                 /\ \A p \in t.nodes \ {l, r} : mid[p] = pg[p]
  <2> DEFINE empty == [leaf |-> pg[r].leaf, items |-> <<>>]
             m2 == [p \in DOMAIN pg |-> IF p = l THEN npg[l] ELSE IF p = r THEN empty ELSE pg[p]]
  <2>1. empty.leaf = pg[r].leaf /\ empty.items = <<>>
    OBVIOUS
  <2> HIDE DEF empty
  <2>2. /\ t.nodes \subseteq DOMAIN m2
        /\ m2[l] = npg[l] /\ m2[r] = empty
        /\ \A p \in t.nodes \ {l, r} : m2[p] = pg[p]
    BY <1>2, <1>3
  <2> HIDE DEF m2
  <2> QED BY <2>1, <2>2
<1>5. IsJoin(mid[l].items, mid[r].items, npg[l].items) /\ Len(npg[l].items) \in Nat
  <2>1. c \in Nat
    BY <1>l
  <2>2. PICK z : z = <<>>
    OBVIOUS
  <2>3. Len(z) = 0
    BY <2>2
  <2>4. mid[r].items = z /\ mid[l].items = npg[l].items
    BY <1>4, <2>2
  <2>5. IsJoin(npg[l].items, z, npg[l].items)
    <3>1. c = Len(npg[l].items)
      BY <1>j, Zenon
    <3>2. c = c + 0 /\ 0 \in Nat /\ \A i \in 1..0 : FALSE
      BY <2>1
    <3> QED BY <2>1, <2>3, <3>1, <3>2 DEF IsJoin
  <2> QED BY <1>j, <2>1, <2>4, <2>5
<1>6. ShareOut(mid, l, r, pg[l].leaf, npg[l].items)
  <2>1. ItemsOK(pg[l].leaf, <<>>)
    BY DEF ItemsOK
  <2> QED BY <1>1, <1>2, <1>4, <1>5, <2>1 DEF ShareOut
<1>7. SameItems(pg, mid, t.nodes \ {l, r})
  BY <1>4 DEF SameItems
<1>8. ~pg[l].leaf => Size(pg, l) >= 1 /\ Size(mid, l) >= 1
  <2> SUFFICES ASSUME ~pg[l].leaf PROVE Size(pg, l) >= 1 /\ Size(mid, l) >= 1
    OBVIOUS
  <2>1. Size(pg, l) >= 1
    BY <1>0, <1>2 DEF NoneChildless
  <2>2. a >= 1 /\ c >= 1
    <3>1. a = Size(pg, l)
      BY <1>j, Zenon DEF Size
    <3> QED BY <1>k, <1>l, <2>1, <3>1
  <2> QED BY <1>4, <1>j, <2>1, <2>2 DEF Size
<1>9. PICK s : Tree(mid, root, s) /\ IsLike(t, s, l, r)
  BY <1>00, <1>0, <1>4, <1>6, <1>7, <1>8, MoveItems
<1>10. /\ s.nodes = t.nodes /\ s.level = t.level
       /\ \A p \in t.nodes \ {l, r} : s.under[p] = t.under[p]
       /\ \A p \in t.nodes \ {r} : s.first[p] = t.first[p]
  BY <1>9 DEF IsLike
<1>11. PICK nt : Tree(npg, root, nt) /\ IsShrunk(s, nt, r)
  <2>1. P \in s.nodes /\ ~mid[P].leaf /\ Size(mid, P) = Size(pg, P) /\ mid[P] = pg[P]
    BY <1>2, <1>4, <1>10 DEF Size
  <2>2. j + 1 \in 2..Size(mid, P) /\ r = mid[P].items[j + 1]
    BY <1>0, <1>2, <2>1
  <2>3. Size(mid, r) = 0
    BY <1>4 DEF Size
  <2>4. SameItems(mid, npg, s.nodes \ {P, r})
    BY <1>1, <1>4, <1>10 DEF SameItems
  <2>5. npg[P].leaf = mid[P].leaf /\ npg[P].items = RemoveAt(mid[P].items, j + 1)
    BY <1>1, <2>1
  <2> QED BY <1>1, <1>9, <1>10, <2>1, <2>2, <2>3, <2>4, <2>5, DropEmptyChild
<1>12. /\ nt.nodes = t.nodes \ {r} /\ nt.level = t.level
       /\ \A p \in t.nodes \ {l, r} : nt.under[p] = t.under[p]
       /\ \A p \in t.nodes \ {r} : nt.first[p] = t.first[p]
  BY <1>10, <1>11 DEF IsShrunk
<1> DEFINE X == {l, P}
<1>13. \A p \in nt.nodes : npg[p].id = p
  BY <1>0, <1>1, <1>12
<1>14. \A p \in nt.nodes \ {P} : Sized(kind, npg, p)
  <2> SUFFICES ASSUME NEW p \in t.nodes, p # P, p # r PROVE Sized(kind, npg, p)
    BY <1>12
  <2>1. CASE p = l
    BY <1>00, <2>1
  <2>2. CASE p # l
    <3>1. Sized(kind, pg, p) /\ npg[p] = pg[p]
      BY <1>00, <1>0, <1>1, <2>2
    <3> QED BY <3>1 DEF Sized, Count, Size
  <2> QED BY <2>1, <2>2
<1>15. ~npg[P].leaf /\ Size(npg, P) >= 1
  <2>1. pg[P].items \in Seq(Nat)
    BY <1>0, <1>2 DEF NodeOK
  <2>2. j + 1 \in 1..Len(pg[P].items)
    BY <1>0, <1>2 DEF Size
  <2>3. Len(RemoveAt(pg[P].items, j + 1)) = Len(pg[P].items) - 1
    BY <2>1, <2>2, RemoveAtIsRemoval DEF IsRemoval
  <2>4. Size(pg, P) >= 2
    BY <1>0, <1>2
  <2> QED BY <1>0, <1>1, <1>2, <2>3, <2>4 DEF Size
<1>16. ASSUME NEW p \in nt.nodes \ X
       PROVE  /\ p \in t.nodes \ {n} /\ npg[p] = pg[p]
              /\ ~pg[p].leaf => /\ SameBelowPage(pg, t, nt, p)
                                /\ \A i \in 2..Size(pg, p) : t.first[pg[p].items[i]] = f => f = g
  <2>1. p \in t.nodes \ {n} /\ npg[p] = pg[p] /\ p # P
    BY <1>00, <1>1, <1>12
  <2>2. ASSUME ~pg[p].leaf, NEW i \in 1..Size(pg, p)
        PROVE  nt.under[pg[p].items[i]] = t.under[pg[p].items[i]] /\ nt.first[pg[p].items[i]] = t.first[pg[p].items[i]]
    <3>1. InternalShape(pg, t, p)
      BY <1>0, <2>1, <2>2, InternalFacts
    <3>2. pg[p].items[i] \in t.nodes /\ t.parent[pg[p].items[i]] = p
      BY <3>1 DEF InternalShape
    <3>3. pg[p].items[i] \notin {l, r}
      BY <1>2, <2>1, <3>2
    <3> QED BY <1>12, <3>2, <3>3
  <2>3. ASSUME ~pg[p].leaf, NEW i \in 2..Size(pg, p), t.first[pg[p].items[i]] = f PROVE f = g
    <3>1. CASE f = None /\ g = None
      BY <3>1
    <3>2. CASE f = t.first[n] /\ g = t.first[P]
      <4>1. \E jn \in 1..Size(pg, P) : pg[P].items[jn] = n
        <5>1. j \in 1..Size(pg, P) /\ j + 1 \in 1..Size(pg, P) /\ l = pg[P].items[j] /\ r = pg[P].items[j + 1]
          BY <1>0, <1>2
        <5> QED BY <1>00, <5>1
      <4>2. PICK jn \in 1..Size(pg, P) : pg[P].items[jn] = n
        BY <4>1
      <4>3. t.first[n] = t.first[P]
        BY <1>0, <1>2, <2>1, <2>3, <3>2, <4>2, ExcuseUp
      <4> QED BY <3>2, <4>3
    <3> QED BY <1>00, <3>1, <3>2 DEF Hands
  <2> QED BY <2>1, <2>2, <2>3 DEF SameBelowPage
<1>17. ASSUME NEW p \in (nt.nodes \cap X) \ {P}, ~npg[p].leaf
       PROVE  \E ph : IsRebuilt(ph, npg[p]) /\ Agrees(npg, nt, ph, nt.level[p] - 1)
  <2>1. p = l
    OBVIOUS
  <2>2. IsRebuilt(pgx, npg[l])
    BY <1>1, <1>17, <2>1
  <2>3. Agrees(npg, nt, pgx, nt.level[l] - 1)
    <3>1. \A q \in nt.nodes : t.level[q] <= t.level[l] - 1 => q \in t.nodes \ {l, r, P}
      BY <1>2, <1>12
    <3>2. \A q \in nt.nodes : t.level[q] <= t.level[l] - 1 => q \in DOMAIN pgx /\ pgx[q] = npg[q] /\ t.level[q] <= Len(pgx)
      BY <1>1, <3>1 DEF Sees
    <3> QED BY <1>1, <1>12, <3>2 DEF Agrees, Sees
  <2> QED BY <2>1, <2>2, <2>3
<1>18. Resettled(kind, pg, t, n, f, npg, root, nt, X, P, g)
  <2> HIDE DEF X
  <2> QED BY <1>11, <1>13, <1>14, <1>15, <1>16, <1>17 DEF Resettled
<1>19. Holds(kind, npg, root, nt, P, g)
  BY <1>00, <1>18, ResettledHolds
<1>20. SameTop(t, nt, root) /\ nt.first[P] = t.first[P]
  BY <1>2, <1>3, <1>12 DEF SameTop
<1> QED BY <1>12, <1>19, <1>20

\* s is e from position a + 1 to position b.
IsPart(s, e, a, b) ==
    /\ a \in Nat /\ b \in Nat /\ a <= b /\ Len(s) = b - a
    /\ \A i \in 1..(b - a) : s[i] = e[a + i]

\* SubSeq takes such a part.
LEMMA PartExists ==
    ASSUME NEW S, NEW e \in Seq(S), NEW a \in Nat, NEW b \in Nat, a <= b, b <= Len(e)
    PROVE  SubSeq(e, a + 1, b) \in Seq(S) /\ IsPart(SubSeq(e, a + 1, b), e, a, b)
<1>0. Len(e) \in Nat /\ a + 1 \in 1..(Len(e) + 1) /\ b \in 0..Len(e)
  BY LenProperties
<1>1. /\ SubSeq(e, a + 1, b) \in Seq(S)
      /\ Len(SubSeq(e, a + 1, b)) = IF a + 1 <= b THEN b - (a + 1) + 1 ELSE 0
      /\ \A i \in 1..(b - (a + 1) + 1) : SubSeq(e, a + 1, b)[i] = e[a + 1 + i - 1]
  BY <1>0, PartOfSeq
<1> DEFINE s == SubSeq(e, a + 1, b)
<1> HIDE DEF s
<1>2. Len(s) = b - a
  BY <1>1 DEF s
<1>3. ASSUME NEW i \in 1..(b - a) PROVE s[i] = e[a + i]
  <2>1. a + 1 + i - 1 = a + i /\ i \in 1..(b - (a + 1) + 1)
    OBVIOUS
  <2> QED BY <1>1, <2>1 DEF s
<1> QED BY <1>1, <1>2, <1>3 DEF IsPart, s

\* Two parts, one after the other, are a part.
LEMMA PartJoin ==
    ASSUME NEW e, NEW a, NEW b, NEW c, NEW s, NEW u, NEW w,
           IsPart(s, e, a, b), IsPart(u, e, b, c), IsPart(w, e, a, c)
    PROVE  IsJoin(s, u, w)
<1>1. /\ a \in Nat /\ b \in Nat /\ c \in Nat /\ a <= b /\ b <= c
      /\ Len(s) = b - a /\ Len(u) = c - b /\ Len(w) = c - a
      /\ \A i \in 1..(b - a) : s[i] = e[a + i]
      /\ \A i \in 1..(c - b) : u[i] = e[b + i]
      /\ \A i \in 1..(c - a) : w[i] = e[a + i]
  BY DEF IsPart
<1>2. PICK x, y, z : x = b - a /\ y = c - b /\ z = c - a
  OBVIOUS
<1>3. x \in Nat /\ y \in Nat /\ z = x + y
  BY <1>1, <1>2
<1>4. ASSUME NEW i \in 1..x PROVE s[i] = w[i]
  <2>1. i \in 1..z
    BY <1>3
  <2> QED BY <1>1, <1>2, <2>1
<1>5. ASSUME NEW i \in 1..y PROVE u[i] = w[x + i]
  <2>1. x + i \in 1..z /\ a + (x + i) = b + i
    BY <1>1, <1>2, <1>3
  <2>2. u[i] = e[b + i] /\ w[x + i] = e[a + (x + i)]
    BY <1>1, <1>2, <2>1
  <2> QED BY <2>1, <2>2
<1> QED BY <1>1, <1>2, <1>3, <1>4, <1>5 DEF IsJoin

\* Both sides of a joined sequence are parts of it.
LEMMA PartsOfJoin ==
    ASSUME NEW s, NEW u, NEW e, IsJoin(s, u, e)
    PROVE  \E a, c : a = Len(s) /\ c = Len(e) /\ IsPart(s, e, 0, a) /\ IsPart(u, e, a, c) /\ IsPart(e, e, 0, c)
<1>1. PICK a, b, c : /\ a = Len(s) /\ b = Len(u) /\ c = Len(e) /\ a \in Nat /\ b \in Nat /\ c = a + b
                     /\ \A i \in 1..a : s[i] = e[i]
                     /\ \A i \in 1..b : u[i] = e[a + i]
  BY Zenon DEF IsJoin
<1>2. a \in Nat /\ b \in Nat /\ c = a + b
  BY <1>1, Zenon
<1>3. c \in Nat /\ a <= c /\ c - a = b /\ a - 0 = a /\ c - 0 = c /\ 0 <= a /\ 0 <= c
  BY <1>2
<1>4. \A i \in Nat : 0 + i = i
  OBVIOUS
<1>5. IsPart(s, e, 0, a)
  BY <1>1, <1>2, <1>3, <1>4 DEF IsPart
<1>6. IsPart(u, e, a, c)
  BY <1>1, <1>2, <1>3 DEF IsPart
<1>7. IsPart(e, e, 0, c)
  BY <1>1, <1>2, <1>3, <1>4 DEF IsPart
<1> QED BY <1>1, <1>5, <1>6, <1>7

\* Two siblings give to a new page between them.
PairSplit(pg, t, P, j, l, m, r, npg, pgx, pgy) ==
    /\ m \in Nat /\ m \notin t.nodes /\ t.nodes \cup {m} \subseteq DOMAIN npg
    /\ \A p \in t.nodes \ {l, r, P} : npg[p] = pg[p]
    /\ npg[P].id = P /\ npg[P].leaf = pg[P].leaf /\ npg[P].items = InsertAt(pg[P].items, j + 1, m)
    /\ IsRebuilt(pgy, npg[P])
    /\ \A p \in {l, m, r} : /\ npg[p].id = p /\ npg[p].leaf = pg[l].leaf /\ ItemsOK(pg[l].leaf, npg[p].items)
                            /\ ~pg[l].leaf => IsRebuilt(pgx, npg[p])
    /\ Sees(pgx, pg, t, {l, r})
    /\ Len(pgy) \in Nat /\ \A p \in t.nodes : t.level[p] <= Len(pgy)
    /\ \A p \in (t.nodes \cup {m}) \ {P} : p \in DOMAIN pgy /\ pgy[p] = npg[p]

\* They share out the entries of e, each getting some.
ThreeParts(npg, l, m, r, e, x, y, z) ==
    /\ x >= 1 /\ x < y /\ y < z
    /\ IsPart(npg[l].items, e, 0, x) /\ IsPart(npg[m].items, e, x, y) /\ IsPart(npg[r].items, e, y, z)
    /\ z = Len(e)

\* What two siblings hold is in three pages.
InThree(pg, t, P, j, l, m, r, npg, pgx, pgy) ==
    \E S, e, x, y, z :
        /\ e \in Seq(S) /\ IsJoin(pg[l].items, pg[r].items, e)
        /\ ~pg[l].leaf => S = Nat
        /\ pg[l].leaf => S = {Item(k) : k \in Keys}
        /\ PairSplit(pg, t, P, j, l, m, r, npg, pgx, pgy)
        /\ ThreeParts(npg, l, m, r, e, x, y, z) /\ Size(pg, l) >= 2

\* nt is t with one more page m between l and r.
IsSplit(t, nt, l, m, r) ==
    /\ nt.nodes = t.nodes \cup {m} /\ nt.level[m] = t.level[l]
    /\ \A p \in t.nodes : nt.level[p] = t.level[p]
    /\ \A p \in t.nodes \ {l, r} : nt.under[p] = t.under[p]
    /\ \A p \in t.nodes \ {r} : nt.first[p] = t.first[p]

\* The tree part of it.
LEMMA TreeOfThree ==
    ASSUME CapacityAssumption, NEW pg, NEW root, NEW t, Tree(pg, root, t), NoneChildless(pg, t),
           NEW P, NEW j, NEW l, NEW r, AreSiblings(pg, t, P, j, l, r),
           NEW m, NEW npg, NEW pgx, NEW pgy, InThree(pg, t, P, j, l, m, r, npg, pgx, pgy)
    PROVE  \E nt : Tree(npg, root, nt) /\ IsSplit(t, nt, l, m, r)
<1>a. PICK S, e, x, y, z :
        /\ e \in Seq(S) /\ IsJoin(pg[l].items, pg[r].items, e)
        /\ ~pg[l].leaf => S = Nat
        /\ pg[l].leaf => S = {Item(k) : k \in Keys}
        /\ PairSplit(pg, t, P, j, l, m, r, npg, pgx, pgy)
        /\ ThreeParts(npg, l, m, r, e, x, y, z) /\ Size(pg, l) >= 2
  BY Zenon DEF InThree
<1>b. e \in Seq(S) /\ IsJoin(pg[l].items, pg[r].items, e)
  BY <1>a, Zenon
<1>c. (~pg[l].leaf => S = Nat) /\ (pg[l].leaf => S = {Item(k) : k \in Keys}) /\ Size(pg, l) >= 2
  BY <1>a, Zenon
<1>d. PairSplit(pg, t, P, j, l, m, r, npg, pgx, pgy) /\ ThreeParts(npg, l, m, r, e, x, y, z)
  BY <1>a, Zenon
<1> DEFINE leaf == pg[l].leaf
<1>0. /\ root \in t.nodes /\ t.parent[root] = None /\ None \notin t.nodes /\ t.nodes \subseteq DOMAIN pg
      /\ \A p \in t.nodes : NodeOK(pg, t, p)
  BY DEF Tree
<1>1. /\ m \in Nat /\ m \notin t.nodes /\ t.nodes \cup {m} \subseteq DOMAIN npg
      /\ \A p \in t.nodes \ {l, r, P} : npg[p] = pg[p]
      /\ npg[P].leaf = pg[P].leaf /\ npg[P].items = InsertAt(pg[P].items, j + 1, m)
      /\ \A p \in {l, m, r} : npg[p].leaf = leaf /\ ItemsOK(leaf, npg[p].items)
  BY <1>b, <1>c, <1>d DEF PairSplit
<1>2. /\ P \in t.nodes /\ ~pg[P].leaf /\ l \in t.nodes /\ r \in t.nodes /\ l # r /\ P \notin {l, r}
      /\ t.level[l] = t.level[P] - 1 /\ t.level[r] = t.level[P] - 1
      /\ pg[l].leaf = pg[r].leaf /\ pg[l].leaf \in BOOLEAN /\ t.level[P] \in Nat
      /\ j \in 1..(Size(pg, P) - 1) /\ l = pg[P].items[j] /\ r = pg[P].items[j + 1]
  <2>1. SiblingShape(pg, t, P, l, r)
    BY <1>0, SiblingFacts
  <2>2. P \in t.nodes /\ ~pg[P].leaf /\ j \in 1..(Size(pg, P) - 1) /\ l = pg[P].items[j] /\ r = pg[P].items[j + 1]
    BY DEF AreSiblings
  <2> QED BY <2>1, <2>2 DEF SiblingShape
<1>3. /\ x \in Nat /\ y \in Nat /\ z \in Nat /\ x >= 1 /\ x < y /\ y < z /\ z = Len(e)
      /\ IsPart(npg[l].items, e, 0, x) /\ IsPart(npg[m].items, e, x, y) /\ IsPart(npg[r].items, e, y, z)
  BY <1>b, <1>c, <1>d DEF ThreeParts, IsPart
<1>4. PICK a, c : a = Len(pg[l].items) /\ c = Len(e) /\ IsPart(pg[l].items, e, 0, a) /\ IsPart(pg[r].items, e, a, c)
  BY <1>b, <1>c, <1>d, PartsOfJoin
<1>5. c = z /\ a \in Nat /\ a >= 2 /\ a <= z
  <2>1. a \in Nat /\ a <= c
    BY <1>4 DEF IsPart
  <2> QED BY <1>b, <1>c, <1>d, <1>3, <1>4, <2>1 DEF Size
<1> HIDE DEF leaf
<1>6. \A s \in Seq(S) : ItemsOK(leaf, s)
  BY <1>b, <1>c, <1>d DEF ItemsOK, leaf
<1> DEFINE Cut(u, v) == SubSeq(e, u + 1, v)
<1>7. \A u, v \in Nat : u <= v /\ v <= z => Cut(u, v) \in Seq(S) /\ IsPart(Cut(u, v), e, u, v)
  BY <1>b, <1>c, <1>d, <1>3, PartExists
<1> HIDE DEF Cut
<1>8. /\ \A u, v \in Nat : u <= v /\ v <= z => ItemsOK(leaf, Cut(u, v)) /\ IsPart(Cut(u, v), e, u, v) /\ Len(Cut(u, v)) = v - u
  BY <1>6, <1>7 DEF IsPart
<1>80. /\ ItemsOK(leaf, Cut(0, 1)) /\ IsPart(Cut(0, 1), e, 0, 1) /\ Len(Cut(0, 1)) = 1
       /\ ItemsOK(leaf, Cut(1, a)) /\ IsPart(Cut(1, a), e, 1, a) /\ Len(Cut(1, a)) = a - 1
       /\ IsPart(Cut(1, z), e, 1, z)
       /\ ItemsOK(leaf, Cut(1, y)) /\ IsPart(Cut(1, y), e, 1, y) /\ Len(Cut(1, y)) = y - 1
       /\ ItemsOK(leaf, Cut(y, z)) /\ IsPart(Cut(y, z), e, y, z)
       /\ IsPart(Cut(0, y), e, 0, y)
  <2>1. PICK o, i : o = 0 /\ i = 1
    OBVIOUS
  <2>2. /\ o \in Nat /\ i \in Nat /\ o <= i /\ i <= a /\ a <= z /\ i <= z /\ i <= y /\ y <= z /\ o <= y /\ i - o = 1 /\ z <= z
    BY <1>3, <1>5, <2>1
  <2>3. ItemsOK(leaf, Cut(o, i)) /\ IsPart(Cut(o, i), e, o, i) /\ Len(Cut(o, i)) = i - o
    BY <1>8, <2>2
  <2>4. ItemsOK(leaf, Cut(i, a)) /\ IsPart(Cut(i, a), e, i, a) /\ Len(Cut(i, a)) = a - i
    BY <1>5, <1>8, <2>2
  <2>5. IsPart(Cut(i, z), e, i, z)
    BY <1>3, <1>8, <2>2
  <2>6. ItemsOK(leaf, Cut(i, y)) /\ IsPart(Cut(i, y), e, i, y) /\ Len(Cut(i, y)) = y - i
    BY <1>3, <1>8, <2>2
  <2>7. ItemsOK(leaf, Cut(y, z)) /\ IsPart(Cut(y, z), e, y, z)
    BY <1>3, <1>8, <2>2
  <2>8. IsPart(Cut(o, y), e, o, y)
    BY <1>3, <1>8, <2>2
  <2> QED BY <2>1, <2>2, <2>3, <2>4, <2>5, <2>6, <2>7, <2>8
<1> DEFINE Node2(it) == [leaf |-> leaf, items |-> it]
           At(A, B, C, p) == IF p = l THEN Node2(A) ELSE IF p = m THEN Node2(B) ELSE IF p = r THEN Node2(C) ELSE npg[p]
           File(A, B, C) == [p \in DOMAIN npg |-> At(A, B, C, p)]
           Shows(f, A, B, C) == /\ f[l].leaf = leaf /\ f[l].items = A
                                /\ f[m].leaf = leaf /\ f[m].items = B
                                /\ f[r].leaf = leaf /\ f[r].items = C
                                /\ \A p \in t.nodes \ {l, r} : f[p] = npg[p]
                                /\ t.nodes \cup {m} \subseteq DOMAIN f
<1>9. \A A, B, C : Shows(File(A, B, C), A, B, C)
  <2>1. \A it : Node2(it).leaf = leaf /\ Node2(it).items = it
    OBVIOUS
  <2> HIDE DEF Node2
  <2>2. l \in DOMAIN npg /\ m \in DOMAIN npg /\ r \in DOMAIN npg /\ l # m /\ m # r /\ l # r
    BY <1>1, <1>2
  <2> SUFFICES ASSUME NEW A, NEW B, NEW C PROVE Shows(File(A, B, C), A, B, C)
    OBVIOUS
  <2>3. DOMAIN File(A, B, C) = DOMAIN npg /\ \A p \in DOMAIN npg : File(A, B, C)[p] = At(A, B, C, p)
    OBVIOUS
  <2> HIDE DEF File
  <2>4. \A p \in t.nodes \ {l, r} : p # m
    BY <1>1
  <2> QED BY <1>1, <2>1, <2>2, <2>3, <2>4
<1> HIDE DEF Node2, At, Shows
<1>100. \A A, B, C : \E f : Shows(f, A, B, C)
  BY <1>9, Zenon
<1> HIDE DEF File
<1>10. PICK f1 : Shows(f1, pg[l].items, <<>>, pg[r].items)
  BY <1>100, Zenon
<1>11. PICK f2 : Shows(f2, Cut(0, 1), Cut(1, a), pg[r].items)
  BY <1>100, Zenon
<1>12. PICK f3 : Shows(f3, Cut(0, 1), Cut(1, y), Cut(y, z))
  BY <1>100, Zenon
<1>13. PICK t1 : Tree(f1, root, t1) /\ IsGrown(t, t1, m, l)
  <2>0. Size(pg, P) \in Nat
    BY <1>0, <1>2, SizeIsNat
  <2>1. j \in 1..Size(pg, P)
    BY <1>2, <2>0
  <2>2. SameItems(pg, f1, t.nodes \ {P})
    <3> SUFFICES ASSUME NEW p \in t.nodes, p # P PROVE f1[p].leaf = pg[p].leaf /\ f1[p].items = pg[p].items
      BY DEF SameItems
    <3>1. CASE p = l
      BY <1>10, <3>1 DEF Shows, leaf
    <3>2. CASE p = r
      BY <1>2, <1>10, <3>2 DEF Shows, leaf
    <3>3. CASE p \notin {l, r}
      BY <1>1, <1>10, <3>3 DEF Shows
    <3> QED BY <3>1, <3>2, <3>3
  <2>3. f1[P].leaf = pg[P].leaf /\ f1[P].items = InsertAt(pg[P].items, j + 1, m)
    BY <1>1, <1>2, <1>10 DEF Shows
  <2>4. f1[m].leaf = pg[l].leaf /\ f1[m].items = <<>> /\ t.nodes \cup {m} \subseteq DOMAIN f1
    BY <1>10 DEF Shows, leaf
  <2> QED BY <1>1, <1>2, <2>1, <2>2, <2>3, <2>4, AddEmptyChild
<1>14. /\ t1.nodes = t.nodes \cup {m} /\ t1.level[m] = t.level[l]
       /\ \A p \in t.nodes : t1.level[p] = t.level[p] /\ t1.under[p] = t.under[p] /\ t1.first[p] = t.first[p]
  BY <1>13 DEF IsGrown, SaysTheSame
<1>15. \A f : (\A p \in t.nodes \ {l, r} : f[p] = npg[p]) =>
           /\ P \in t1.nodes /\ ~f[P].leaf /\ j \in 1..(Size(f, P) - 1) /\ j + 1 \in 1..(Size(f, P) - 1)
           /\ f[P].items[j] = l /\ f[P].items[j + 1] = m /\ f[P].items[j + 1 + 1] = r
  <2> SUFFICES ASSUME NEW f, \A p \in t.nodes \ {l, r} : f[p] = npg[p]
               PROVE  /\ P \in t1.nodes /\ ~f[P].leaf /\ j \in 1..(Size(f, P) - 1) /\ j + 1 \in 1..(Size(f, P) - 1)
                      /\ f[P].items[j] = l /\ f[P].items[j + 1] = m /\ f[P].items[j + 1 + 1] = r
    OBVIOUS
  <2>1. f[P] = npg[P]
    BY <1>2
  <2>2. pg[P].items \in Seq(Nat) /\ Size(pg, P) \in Nat
    BY <1>0, <1>2, SizeIsNat DEF NodeOK
  <2> DEFINE n == npg[P].items
  <2>3. IsInsertion(pg[P].items, j + 1, m, n)
    <3>1. j + 1 \in 1..(Len(pg[P].items) + 1)
      <4>1. PICK size \in Nat : size = Size(pg, P)
        BY <2>2
      <4>2. j \in 1..(size - 1)
        BY <1>2, <4>1
      <4>3. j + 1 \in 1..(size + 1)
        BY <4>2
      <4>. QED
        BY <4>1, <4>3 DEF Size
    <3>2. IsInsertion(pg[P].items, j + 1, m, InsertAt(pg[P].items, j + 1, m))
      BY <1>1, <2>2, <3>1, InsertAtIsInsertion
    <3> QED BY <1>1, <3>2
  <2>4. Size(f, P) = Len(n) /\ f[P].items = n
    BY <2>1 DEF Size
  <2> HIDE DEF n
  <2>5. Len(n) = Size(pg, P) + 1 /\ \A i \in 1..Len(n) : n[i] = IF i < j + 1 THEN pg[P].items[i] ELSE IF i = j + 1 THEN m ELSE pg[P].items[i - 1]
    BY <2>3 DEF IsInsertion, Size
  <2>6. j \in 1..Len(n) /\ j + 1 \in 1..Len(n) /\ j + 1 + 1 \in 1..Len(n)
        /\ j < j + 1 /\ ~(j + 1 < j + 1) /\ ~(j + 1 + 1 < j + 1) /\ j + 1 + 1 # j + 1 /\ j + 1 + 1 - 1 = j + 1
        /\ j \in 1..(Len(n) - 1) /\ j + 1 \in 1..(Len(n) - 1)
    <3>1. PICK s : s = Size(pg, P) /\ s \in Nat /\ j \in 1..(s - 1) /\ Len(n) = s + 1
      BY <1>2, <2>2, <2>5
    <3>2. j \in Nat /\ j >= 1 /\ j <= s - 1 /\ s \in Nat
      BY <3>1
    <3>3. /\ j \in 1..(s + 1) /\ j + 1 \in 1..(s + 1) /\ j + 1 + 1 \in 1..(s + 1)
          /\ j \in 1..(s + 1 - 1) /\ j + 1 \in 1..(s + 1 - 1)
      BY <3>2
    <3>4. j < j + 1 /\ ~(j + 1 < j + 1) /\ ~(j + 1 + 1 < j + 1) /\ j + 1 + 1 # j + 1 /\ j + 1 + 1 - 1 = j + 1
      BY <3>2
    <3>5. Len(n) = s + 1
      BY <3>1
    <3>6. /\ j \in 1..Len(n) /\ j + 1 \in 1..Len(n) /\ j + 1 + 1 \in 1..Len(n)
          /\ j \in 1..(Len(n) - 1) /\ j + 1 \in 1..(Len(n) - 1)
      BY <3>2, <3>5
    <3> QED BY <3>4, <3>6, Zenon
  <2>7. n[j] = l /\ n[j + 1] = m /\ n[j + 1 + 1] = r
    BY <1>2, <2>5, <2>6
  <2>8. ~f[P].leaf /\ P \in t1.nodes
    BY <1>1, <1>2, <1>14, <2>1
  <2> QED BY <2>4, <2>6, <2>7, <2>8
<1>16. PICK t2 : Tree(f2, root, t2) /\ IsLike(t1, t2, l, m)
  <2>1. AreSiblings(f1, t1, P, j, l, m)
    BY <1>10, <1>15 DEF Shows, AreSiblings
  <2>2. PICK w : w = <<>>
    OBVIOUS
  <2>3. IsPart(w, e, a, a)
    <3>1. Len(w) = 0 /\ a - a = 0 /\ \A i \in 1..0 : FALSE
      BY <1>5, <2>2
    <3> QED BY <1>5, <3>1 DEF IsPart
  <2>4. IsJoin(pg[l].items, w, pg[l].items)
    BY <1>4, <2>3, PartJoin
  <2>5. IsJoin(f1[l].items, f1[m].items, pg[l].items)
    BY <1>10, <2>2, <2>4 DEF Shows
  <2>6. ItemsOK(leaf, Cut(0, 1)) /\ IsPart(Cut(0, 1), e, 0, 1) /\ ItemsOK(leaf, Cut(1, a)) /\ IsPart(Cut(1, a), e, 1, a)
    BY <1>80
  <2>7. IsJoin(f2[l].items, f2[m].items, pg[l].items)
    BY <1>4, <1>11, <2>6, PartJoin DEF Shows
  <2>8. ShareOut(f2, l, m, f1[l].leaf, pg[l].items)
    BY <1>10, <1>11, <2>6, <2>7 DEF Shows, ShareOut
  <2>9. SameItems(f1, f2, t1.nodes \ {l, m})
    <3> SUFFICES ASSUME NEW p \in t.nodes, p # l PROVE f2[p].leaf = f1[p].leaf /\ f2[p].items = f1[p].items
      BY <1>14 DEF SameItems
    <3>1. CASE p = r
      BY <1>10, <1>11, <3>1 DEF Shows
    <3>2. CASE p # r
      BY <1>10, <1>11, <3>2 DEF Shows
    <3> QED BY <3>1, <3>2
  <2>10. Size(f1, l) >= 1 /\ Size(f2, l) >= 1
    <3>2. Size(f1, l) = a /\ Size(f2, l) = 1
      BY <1>4, <1>10, <1>11, <1>80 DEF Shows, Size
    <3> QED BY <1>5, <3>2
  <2>11. t1.nodes \subseteq DOMAIN f2
    BY <1>11, <1>14 DEF Shows
  <2> QED BY <1>13, <2>1, <2>5, <2>8, <2>9, <2>10, <2>11, MoveItems
<1>17. /\ t2.nodes = t1.nodes /\ t2.level = t1.level
       /\ \A p \in t1.nodes \ {l, m} : t2.under[p] = t1.under[p]
       /\ \A p \in t1.nodes \ {m} : t2.first[p] = t1.first[p]
  BY <1>16 DEF IsLike
<1>18. PICK t3 : Tree(f3, root, t3) /\ IsLike(t2, t3, m, r)
  <2>1. AreSiblings(f2, t2, P, j + 1, m, r)
    BY <1>11, <1>15, <1>17 DEF Shows, AreSiblings
  <2>2. IsPart(Cut(1, a), e, 1, a) /\ IsPart(Cut(1, z), e, 1, z) /\ IsPart(Cut(1, y), e, 1, y) /\ IsPart(Cut(y, z), e, y, z)
        /\ ItemsOK(leaf, Cut(1, y)) /\ ItemsOK(leaf, Cut(y, z))
        /\ Len(Cut(1, a)) = a - 1 /\ Len(Cut(1, y)) = y - 1
    BY <1>80
  <2>3. IsPart(pg[r].items, e, a, z)
    BY <1>4, <1>5
  <2>4. IsJoin(f2[m].items, f2[r].items, Cut(1, z))
    BY <1>11, <2>2, <2>3, PartJoin DEF Shows
  <2>5. IsJoin(f3[m].items, f3[r].items, Cut(1, z))
    BY <1>12, <2>2, PartJoin DEF Shows
  <2>6. ShareOut(f3, m, r, f2[m].leaf, Cut(1, z))
    BY <1>11, <1>12, <2>2, <2>5 DEF Shows, ShareOut
  <2>7. SameItems(f2, f3, t2.nodes \ {m, r})
    <3> SUFFICES ASSUME NEW p \in t.nodes, p # r PROVE f3[p].leaf = f2[p].leaf /\ f3[p].items = f2[p].items
      BY <1>14, <1>17 DEF SameItems
    <3>1. CASE p = l
      BY <1>11, <1>12, <3>1 DEF Shows
    <3>2. CASE p # l
      BY <1>11, <1>12, <3>2 DEF Shows
    <3> QED BY <3>1, <3>2
  <2>8. Size(f2, m) >= 1 /\ Size(f3, m) >= 1
    <3>1. Size(f2, m) = a - 1 /\ Size(f3, m) = y - 1
      BY <1>11, <1>12, <2>2 DEF Shows, Size
    <3> QED BY <1>3, <1>5, <3>1
  <2>9. t2.nodes \subseteq DOMAIN f3
    BY <1>12, <1>14, <1>17 DEF Shows
  <2> QED BY <1>16, <2>1, <2>4, <2>6, <2>7, <2>8, <2>9, MoveItems
<1>19. /\ t3.nodes = t2.nodes /\ t3.level = t2.level
       /\ \A p \in t2.nodes \ {m, r} : t3.under[p] = t2.under[p]
       /\ \A p \in t2.nodes \ {r} : t3.first[p] = t2.first[p]
  BY <1>18 DEF IsLike
<1>20. PICK nt : Tree(npg, root, nt) /\ IsLike(t3, nt, l, m)
  <2>1. AreSiblings(f3, t3, P, j, l, m)
    BY <1>12, <1>15, <1>17, <1>19 DEF Shows, AreSiblings
  <2>2. IsPart(Cut(0, 1), e, 0, 1) /\ IsPart(Cut(1, y), e, 1, y) /\ IsPart(Cut(0, y), e, 0, y) /\ Len(Cut(0, 1)) = 1
    BY <1>80
  <2>3. IsJoin(f3[l].items, f3[m].items, Cut(0, y))
    BY <1>12, <2>2, PartJoin DEF Shows
  <2>4. IsJoin(npg[l].items, npg[m].items, Cut(0, y))
    BY <1>3, <2>2, PartJoin
  <2>5. ShareOut(npg, l, m, f3[l].leaf, Cut(0, y))
    BY <1>1, <1>12, <2>4 DEF Shows, ShareOut
  <2>6. SameItems(f3, npg, t3.nodes \ {l, m})
    <3> SUFFICES ASSUME NEW p \in t.nodes, p # l PROVE npg[p].leaf = f3[p].leaf /\ npg[p].items = f3[p].items
      BY <1>14, <1>17, <1>19 DEF SameItems
    <3>1. CASE p = r
      <4>1. IsPart(Cut(y, z), e, y, z) /\ IsPart(npg[r].items, e, y, z)
        BY <1>3, <1>80
      <4>2. Cut(y, z) \in Seq(S) /\ npg[r].items \in Seq(S)
        <5>1. ItemsOK(leaf, npg[r].items)
          BY <1>1
        <5>2. npg[r].items \in Seq(S)
          BY <1>b, <1>c, <1>d, <1>2, <5>1 DEF ItemsOK, leaf
        <5> QED BY <1>3, <1>7, <5>2
      <4>3. Len(Cut(y, z)) = Len(npg[r].items) /\ \A i \in 1..Len(Cut(y, z)) : Cut(y, z)[i] = npg[r].items[i]
        BY <4>1 DEF IsPart
      <4>4. Cut(y, z) = npg[r].items
        BY <4>2, <4>3, SeqEqual
      <4> QED BY <1>1, <1>12, <3>1, <4>4 DEF Shows
    <3>2. CASE p # r
      BY <1>12, <3>2 DEF Shows
    <3> QED BY <3>1, <3>2
  <2>7. Size(f3, l) >= 1 /\ Size(npg, l) >= 1
    <3>1. Size(f3, l) = 1
      BY <1>12, <2>2 DEF Shows, Size
    <3>2. Size(npg, l) = x - 0
      BY <1>3 DEF Size, IsPart
    <3> QED BY <1>3, <3>1, <3>2
  <2>8. t3.nodes \subseteq DOMAIN npg
    BY <1>1, <1>14, <1>17, <1>19
  <2> QED BY <1>18, <2>1, <2>3, <2>5, <2>6, <2>7, <2>8, MoveItems
<1>21. /\ nt.nodes = t3.nodes /\ nt.level = t3.level
       /\ \A p \in t3.nodes \ {l, m} : nt.under[p] = t3.under[p]
       /\ \A p \in t3.nodes \ {m} : nt.first[p] = t3.first[p]
  BY <1>20 DEF IsLike
<1>22. m \notin t.nodes
  BY <1>1
<1>23. nt.nodes = t.nodes \cup {m} /\ nt.level[m] = t.level[l] /\ \A p \in t.nodes : nt.level[p] = t.level[p]
  BY <1>14, <1>17, <1>19, <1>21
<1>24. \A p \in t.nodes \ {l, r} : nt.under[p] = t.under[p]
  BY <1>14, <1>17, <1>19, <1>21, <1>22
<1>25. \A p \in t.nodes \ {r} : nt.first[p] = t.first[p]
  BY <1>14, <1>17, <1>19, <1>21, <1>22
<1> QED BY <1>20, <1>23, <1>24, <1>25 DEF IsSplit

\* Siblings l and r, one of which is the node n, and a new page m between them
\* share out what the two hold: page q is their parent when it has too many
\* children now.
CanSplit(kind, pg, root, t, n, P, j, l, r, m, npg, pgx, pgy, q) ==
    /\ Holds(kind, pg, root, t, n, None)
    /\ AreSiblings(pg, t, P, j, l, r) /\ n \in {l, r}
    /\ InThree(pg, t, P, j, l, m, r, npg, pgx, pgy)
    /\ \A p \in {l, m, r} : Sized(kind, npg, p)
    /\ q \in {None, P} /\ (q = None => Sized(kind, npg, P))

\* split_leaf_pair and split_internal_pair: the tree has one more page, and the
\* parent is the node of the call if it is too large.
LEMMA PairIsThree ==
    ASSUME KeysAssumption, CapacityAssumption, NEW kind, NEW pg, NEW root, NEW t, NEW n,
           NEW P, NEW j, NEW l, NEW r, NEW m, NEW npg, NEW pgx, NEW pgy, NEW q,
           CanSplit(kind, pg, root, t, n, P, j, l, r, m, npg, pgx, pgy, q)
    PROVE  \E nt : /\ Holds(kind, npg, root, nt, q, None) /\ SameTop(t, nt, root)
                   /\ nt.nodes = t.nodes \cup {m} /\ \A p \in t.nodes : nt.level[p] = t.level[p]
<1>00. /\ Holds(kind, pg, root, t, n, None)
       /\ AreSiblings(pg, t, P, j, l, r) /\ n \in {l, r}
       /\ InThree(pg, t, P, j, l, m, r, npg, pgx, pgy)
       /\ \A p \in {l, m, r} : Sized(kind, npg, p)
       /\ q \in {None, P} /\ (q = None => Sized(kind, npg, P))
  BY DEF CanSplit
<1>0. /\ Tree(pg, root, t) /\ NoneChildless(pg, t)
      /\ \A p \in t.nodes : NodeOK(pg, t, p) /\ Size(pg, p) \in Nat /\ pg[p].id = p
      /\ \A p \in t.nodes \ {n} : Sized(kind, pg, p) /\ (~pg[p].leaf => Kept(pg, t, p, None))
      /\ \A p \in t.nodes : t.level[p] \in Nat
  <2>1. \A p \in t.nodes : t.level[p] \in Nat
    BY <1>00 DEF Holds, Tree, NodeOK
  <2>2. \A p \in t.nodes \ {n} : Sized(kind, pg, p) /\ (~pg[p].leaf => Kept(pg, t, p, None))
    BY <1>00 DEF Holds
  <2> QED BY <1>00, <2>1, <2>2, HoldsFacts
<1>1. /\ m \in Nat /\ m \notin t.nodes /\ t.nodes \cup {m} \subseteq DOMAIN npg
      /\ \A p \in t.nodes \ {l, r, P} : npg[p] = pg[p]
      /\ npg[P].id = P /\ npg[P].leaf = pg[P].leaf /\ npg[P].items = InsertAt(pg[P].items, j + 1, m)
      /\ IsRebuilt(pgy, npg[P])
      /\ \A p \in {l, m, r} : npg[p].id = p /\ npg[p].leaf = pg[l].leaf /\ (~pg[l].leaf => IsRebuilt(pgx, npg[p]))
      /\ Sees(pgx, pg, t, {l, r})
      /\ Len(pgy) \in Nat /\ \A p \in t.nodes : t.level[p] <= Len(pgy)
      /\ \A p \in (t.nodes \cup {m}) \ {P} : p \in DOMAIN pgy /\ pgy[p] = npg[p]
  <2>1. PairSplit(pg, t, P, j, l, m, r, npg, pgx, pgy)
    BY <1>00, Zenon DEF InThree
  <2> QED BY <2>1 DEF PairSplit
<1>2. /\ P \in t.nodes /\ ~pg[P].leaf /\ l \in t.nodes /\ r \in t.nodes /\ l # r /\ P \notin {l, r}
      /\ t.level[l] = t.level[P] - 1 /\ t.level[r] = t.level[P] - 1
      /\ t.parent[l] = P /\ t.parent[r] = P /\ pg[l].leaf = pg[r].leaf /\ pg[l].leaf \in BOOLEAN
      /\ t.level[P] \in Nat /\ t.level[l] \in Nat
  <2>1. SiblingShape(pg, t, P, l, r)
    BY <1>00, <1>0, SiblingFacts
  <2>2. P \in t.nodes /\ ~pg[P].leaf
    BY <1>00 DEF AreSiblings
  <2> QED BY <2>1, <2>2 DEF SiblingShape
<1>6. PICK nt : /\ Tree(npg, root, nt)
                /\ nt.nodes = t.nodes \cup {m} /\ nt.level[m] = t.level[l]
                /\ \A p \in t.nodes : nt.level[p] = t.level[p]
                /\ \A p \in t.nodes \ {l, r} : nt.under[p] = t.under[p]
                /\ \A p \in t.nodes \ {r} : nt.first[p] = t.first[p]
  <2>1. \E nt : Tree(npg, root, nt) /\ IsSplit(t, nt, l, m, r)
    BY <1>00, <1>0, TreeOfThree
  <2> QED BY <2>1 DEF IsSplit
<1>8. root \in t.nodes /\ root \notin {l, r} /\ None \notin t.nodes
  <2>1. root \in t.nodes /\ t.parent[root] = None /\ None \notin t.nodes
    BY <1>0 DEF Tree
  <2> QED BY <1>2, <2>1
<1> DEFINE X == {l, m, r, P}
<1>9. \A p \in nt.nodes : npg[p].id = p
  BY <1>0, <1>1, <1>6
<1>90. P = None => FALSE
  BY <1>2, <1>8
<1>10. \A p \in nt.nodes \ {q} : Sized(kind, npg, p)
  <2> SUFFICES ASSUME NEW p \in t.nodes \cup {m}, p # q PROVE Sized(kind, npg, p)
    BY <1>6
  <2>1. CASE p \in {l, m, r}
    BY <1>00, <2>1
  <2>2. CASE p = P
    BY <1>00, <2>2
  <2>3. CASE p \notin {l, m, r, P}
    <3>1. Sized(kind, pg, p) /\ npg[p].leaf = pg[p].leaf /\ npg[p].items = pg[p].items
      BY <1>00, <1>0, <1>1, <2>3
    <3> QED BY <3>1 DEF Sized, Count, Size
  <2> QED BY <2>1, <2>2, <2>3
<1>100. q \in nt.nodes => ~npg[q].leaf /\ Size(npg, q) >= 1
  <2> SUFFICES ASSUME q = P PROVE ~npg[q].leaf /\ Size(npg, q) >= 1
    <3>1. m # None
      BY <1>1 DEF CapacityAssumption
    <3> QED BY <1>00, <1>6, <1>8, <3>1
  <2>1. pg[P].items \in Seq(Nat) /\ j + 1 \in 1..(Len(pg[P].items) + 1) /\ Len(pg[P].items) \in Nat
    <3>1. pg[P].items \in Seq(Nat) /\ Size(pg, P) \in Nat
      BY <1>0, <1>2 DEF NodeOK
    <3>2. j \in 1..(Size(pg, P) - 1)
      BY <1>00 DEF AreSiblings
    <3> QED BY <3>1, <3>2 DEF Size
  <2>2. IsInsertion(pg[P].items, j + 1, m, InsertAt(pg[P].items, j + 1, m))
    BY <1>1, <2>1, InsertAtIsInsertion
  <2>3. Len(npg[P].items) = Len(pg[P].items) + 1
    BY <1>1, <2>2 DEF IsInsertion
  <2> QED BY <1>1, <1>2, <2>1, <2>3 DEF Size
<1>11. ASSUME NEW p \in nt.nodes \ X
       PROVE  /\ p \in t.nodes \ {n} /\ npg[p] = pg[p]
              /\ ~pg[p].leaf => /\ SameBelowPage(pg, t, nt, p)
                                /\ \A i \in 2..Size(pg, p) : t.first[pg[p].items[i]] = None => None = None
  <2>1. p \in t.nodes \ {n} /\ npg[p] = pg[p] /\ p # P
    BY <1>00, <1>1, <1>6
  <2>2. ASSUME ~pg[p].leaf, NEW i \in 1..Size(pg, p)
        PROVE  nt.under[pg[p].items[i]] = t.under[pg[p].items[i]] /\ nt.first[pg[p].items[i]] = t.first[pg[p].items[i]]
    <3>1. InternalShape(pg, t, p)
      BY <1>0, <2>1, <2>2, InternalFacts
    <3>2. pg[p].items[i] \in t.nodes /\ t.parent[pg[p].items[i]] = p
      BY <3>1 DEF InternalShape
    <3>3. pg[p].items[i] \notin {l, r}
      BY <1>2, <2>1, <3>2
    <3> QED BY <1>6, <3>2, <3>3
  <2> QED BY <2>1, <2>2 DEF SameBelowPage
<1>12. ASSUME NEW p \in (nt.nodes \cap X) \ {q}, ~npg[p].leaf
       PROVE  \E ph : IsRebuilt(ph, npg[p]) /\ Agrees(npg, nt, ph, nt.level[p] - 1)
  <2>1. CASE p = P
    <3>1. Agrees(npg, nt, pgy, nt.level[P] - 1)
      <4>1. \A u \in nt.nodes : nt.level[u] <= nt.level[P] - 1 => u # P
        BY <1>2, <1>6
      <4>2. \A u \in nt.nodes : u # P => u \in DOMAIN pgy /\ pgy[u] = npg[u]
        BY <1>1, <1>6
      <4>3. \A u \in nt.nodes : nt.level[u] <= Len(pgy)
        BY <1>1, <1>2, <1>6
      <4> QED BY <1>1, <4>1, <4>2, <4>3 DEF Agrees
    <3> QED BY <1>1, <2>1, <3>1
  <2>2. CASE p \in {l, m, r}
    <3>0. p # P /\ nt.level[p] = t.level[l]
      BY <1>1, <1>2, <1>6, <2>2
    <3>1. IsRebuilt(pgx, npg[p])
      BY <1>1, <1>12, <2>2
    <3>2. Agrees(npg, nt, pgx, nt.level[p] - 1)
      <4>1. \A u \in nt.nodes : nt.level[u] <= nt.level[p] - 1 => u \in t.nodes /\ u \notin {l, r, P}
        <5> SUFFICES ASSUME NEW u \in nt.nodes, nt.level[u] <= t.level[l] - 1 PROVE u \in t.nodes /\ u \notin {l, r, P}
          BY <3>0
        <5>1. u # m /\ u \in t.nodes
          BY <1>2, <1>6
        <5>2. t.level[u] <= t.level[l] - 1
          BY <1>6, <5>1
        <5> QED BY <1>2, <5>1, <5>2
      <4>2. \A u \in t.nodes \ {l, r, P} : u \in DOMAIN pgx /\ pgx[u] = npg[u] /\ nt.level[u] <= Len(pgx)
        BY <1>1, <1>6 DEF Sees
      <4>3. Len(pgx) \in Nat
        BY <1>1 DEF Sees
      <4> QED BY <4>1, <4>2, <4>3 DEF Agrees
    <3> QED BY <3>1, <3>2
  <2> QED BY <1>12, <2>1, <2>2
<1> HIDE DEF X
<1>13. Resettled(kind, pg, t, n, None, npg, root, nt, X, q, None)
  BY <1>6, <1>9, <1>10, <1>100, <1>11, <1>12 DEF Resettled
<1>14. Holds(kind, npg, root, nt, q, None)
  BY <1>00, <1>13, ResettledHolds
<1>15. SameTop(t, nt, root)
  BY <1>6, <1>8 DEF SameTop
<1> QED BY <1>6, <1>14, <1>15

\* What the root n held is in two pages, n and r, under a new root q.
RootSplit(pg, t, n, r, q, npg, pgx, pgy) ==
    /\ r \in Nat /\ q \in Nat /\ r \notin t.nodes /\ q \notin t.nodes /\ r # q
    /\ t.nodes \cup {r, q} \subseteq DOMAIN npg
    /\ \A p \in t.nodes \ {n} : npg[p] = pg[p]
    /\ \A p \in {n, r} : /\ npg[p].id = p /\ npg[p].leaf = pg[n].leaf /\ ItemsOK(pg[n].leaf, npg[p].items)
                         /\ ~pg[n].leaf => IsRebuilt(pgx, npg[p])
    /\ IsJoin(npg[n].items, npg[r].items, pg[n].items)
    /\ npg[q].id = q /\ npg[q].leaf = FALSE /\ npg[q].items = <<n, r>> /\ IsRebuilt(pgy, npg[q])
    /\ Sees(pgx, pg, t, {n})
    /\ Len(pgy) \in Nat /\ \A p \in t.nodes : t.level[p] <= Len(pgy)
    /\ \A p \in t.nodes \cup {r} : p \in DOMAIN pgy /\ pgy[p] = npg[p]

\* nt is t with a new page r beside the root n, under a new root q.
IsTopped(t, nt, n, r, q) ==
    /\ nt.nodes = t.nodes \cup {r, q}
    /\ nt.level[r] = t.level[n] /\ nt.level[q] = t.level[n] + 1
    /\ nt.under[q] = t.under[n] /\ nt.first[q] = t.first[n]
    /\ \A p \in t.nodes : nt.level[p] = t.level[p] /\ nt.first[p] = t.first[p]
    /\ \A p \in t.nodes \ {n} : nt.under[p] = t.under[p]

\* The tree with a new root.
LEMMA TreeOfRoot ==
    ASSUME CapacityAssumption, NEW pg, NEW n \in Nat, NEW t, Tree(pg, n, t), Size(pg, n) >= 1,
           NEW r, NEW q, NEW npg, NEW pgx, NEW pgy, RootSplit(pg, t, n, r, q, npg, pgx, pgy),
           Size(npg, n) >= 1
    PROVE  \E nt : Tree(npg, q, nt) /\ IsTopped(t, nt, n, r, q)
<1>0. /\ n \in t.nodes /\ t.parent[n] = None /\ None \notin t.nodes /\ t.nodes \subseteq DOMAIN pg
      /\ \A p \in t.nodes : NodeOK(pg, t, p)
  BY DEF Tree
<1>1. /\ r \in Nat /\ q \in Nat /\ r \notin t.nodes /\ q \notin t.nodes /\ r # q
      /\ t.nodes \cup {r, q} \subseteq DOMAIN npg
      /\ \A p \in t.nodes \ {n} : npg[p] = pg[p]
      /\ npg[n].leaf = pg[n].leaf /\ ItemsOK(pg[n].leaf, npg[n].items)
      /\ npg[r].leaf = pg[n].leaf /\ ItemsOK(pg[n].leaf, npg[r].items)
      /\ IsJoin(npg[n].items, npg[r].items, pg[n].items)
      /\ npg[q].leaf = FALSE /\ npg[q].items = <<n, r>>
  BY DEF RootSplit
<1> DEFINE Node1(leaf, it) == [leaf |-> leaf, items |-> it]
           At(A, B, p) == IF p = q THEN Node1(FALSE, A) ELSE IF p = r THEN Node1(pg[n].leaf, B) ELSE pg[p]
           File(A, B) == [p \in t.nodes \cup {r, q} |-> At(A, B, p)]
           Shows(f, A, B) == /\ f[q].leaf = FALSE /\ f[q].items = A
                             /\ f[r].leaf = pg[n].leaf /\ f[r].items = B
                             /\ \A p \in t.nodes : f[p] = pg[p]
                             /\ DOMAIN f = t.nodes \cup {r, q}
<1>2. \A A, B : Shows(File(A, B), A, B)
  <2>1. \A leaf, it : Node1(leaf, it).leaf = leaf /\ Node1(leaf, it).items = it
    OBVIOUS
  <2> HIDE DEF Node1
  <2> SUFFICES ASSUME NEW A, NEW B PROVE Shows(File(A, B), A, B)
    OBVIOUS
  <2>2. DOMAIN File(A, B) = t.nodes \cup {r, q} /\ \A p \in t.nodes \cup {r, q} : File(A, B)[p] = At(A, B, p)
    OBVIOUS
  <2> HIDE DEF File
  <2>3. \A p \in t.nodes : p # r /\ p # q
    BY <1>1
  <2>4. /\ At(A, B, q) = Node1(FALSE, A) /\ At(A, B, r) = Node1(pg[n].leaf, B)
        /\ \A p \in t.nodes : At(A, B, p) = pg[p]
    BY <1>1, <2>3
  <2> HIDE DEF At
  <2>5. /\ File(A, B)[q] = Node1(FALSE, A) /\ File(A, B)[r] = Node1(pg[n].leaf, B)
        /\ \A p \in t.nodes : File(A, B)[p] = pg[p]
    BY <2>2, <2>4
  <2>6. /\ File(A, B)[q].leaf = FALSE /\ File(A, B)[q].items = A
        /\ File(A, B)[r].leaf = pg[n].leaf /\ File(A, B)[r].items = B
    <3>1. Node1(FALSE, A).leaf = FALSE /\ Node1(FALSE, A).items = A
      BY <2>1, Zenon
    <3>2. Node1(pg[n].leaf, B).leaf = pg[n].leaf /\ Node1(pg[n].leaf, B).items = B
      BY <2>1, Zenon
    <3> HIDE DEF Node1, File
    <3> QED BY <2>5, <3>1, <3>2, Zenon
  <2> QED BY <2>2, <2>5, <2>6, Zenon
<1> HIDE DEF Node1, At, Shows
<1>3. \A A, B : \E f : Shows(f, A, B)
  BY <1>2, Zenon
<1> HIDE DEF File
<1>4. PICK f1 : Shows(f1, <<n>>, <<>>)
  BY <1>3, Zenon
<1>5. PICK f2 : Shows(f2, <<n, r>>, <<>>)
  BY <1>3, Zenon
<1>6. PICK t1 : Tree(f1, q, t1) /\ IsRaised(t, t1, n, q)
  <2>1. SameItems(pg, f1, t.nodes)
    BY <1>4 DEF Shows, SameItems
  <2>2. t.nodes \cup {q} \subseteq DOMAIN f1
    BY <1>4 DEF Shows
  <2> QED BY <1>1, <1>4, <2>1, <2>2, RootAdded DEF Shows
<1>7. /\ t1.nodes = t.nodes \cup {q} /\ t1.level[q] = t.level[n] + 1
      /\ t1.under[q] = t.under[n] /\ t1.first[q] = t.first[n]
      /\ \A p \in t.nodes : t1.level[p] = t.level[p] /\ t1.under[p] = t.under[p] /\ t1.first[p] = t.first[p]
  BY <1>6 DEF IsRaised, SaysTheSame
<1>8. InsertAt(<<n>>, 2, r) = <<n, r>>
  <2>1. <<n>> \in Seq(Nat) /\ Len(<<n>>) = 1 /\ <<n>>[1] = n
    OBVIOUS
  <2>2. PICK s : s = <<n>>
    OBVIOUS
  <2>3. InsertAt(s, 2, r) \in Seq(Nat) /\ IsInsertion(s, 2, r, InsertAt(s, 2, r))
    <3>1. 2 \in 1..(Len(s) + 1) /\ s \in Seq(Nat)
      BY <2>1, <2>2
    <3> QED BY <1>1, <3>1, InsertAtIsInsertion
  <2>4. PICK u : u = InsertAt(s, 2, r)
    OBVIOUS
  <2>5. Len(u) = 2 /\ u[1] = n /\ u[2] = r
    <3>0. Len(s) = 1 /\ s[1] = n
      BY <2>1, <2>2
    <3>1. Len(u) = Len(s) + 1 /\ \A m \in 1..Len(u) : u[m] = IF m < 2 THEN s[m] ELSE IF m = 2 THEN r ELSE s[m - 1]
      BY <2>3, <2>4 DEF IsInsertion
    <3>2. Len(u) = 2 /\ 1 \in 1..Len(u) /\ 2 \in 1..Len(u) /\ 1 < 2 /\ ~(2 < 2)
      BY <3>0, <3>1
    <3> QED BY <3>0, <3>1, <3>2
  <2>6. u \in Seq(Nat) /\ <<n, r>> \in Seq(Nat) /\ Len(<<n, r>>) = 2 /\ <<n, r>>[1] = n /\ <<n, r>>[2] = r
    BY <1>1, <2>3, <2>4
  <2>7. PICK w : w = <<n, r>>
    OBVIOUS
  <2>8. Len(u) = Len(w) /\ \A i \in 1..Len(u) : u[i] = w[i]
    <3>1. \A i \in 1..2 : i = 1 \/ i = 2
      OBVIOUS
    <3> QED BY <2>5, <2>6, <2>7, <3>1
  <2>9. u = w
    BY <2>6, <2>7, <2>8, SeqEqual
  <2> QED BY <2>2, <2>4, <2>7, <2>9
<1>9. PICK t2 : Tree(f2, q, t2) /\ IsGrown(t1, t2, r, n)
  <2>1. q \in t1.nodes /\ ~f1[q].leaf /\ 1 \in 1..Size(f1, q) /\ n = f1[q].items[1]
    BY <1>4, <1>7 DEF Shows, Size
  <2>2. SameItems(f1, f2, t1.nodes \ {q})
    BY <1>4, <1>5, <1>7 DEF Shows, SameItems
  <2>3. f2[q].leaf = f1[q].leaf /\ f2[q].items = InsertAt(f1[q].items, 1 + 1, r)
    <3>1. 1 + 1 = 2
      OBVIOUS
    <3>2. f1[q].items = <<n>> /\ f2[q].items = <<n, r>> /\ f1[q].leaf = FALSE /\ f2[q].leaf = FALSE
      BY <1>4, <1>5, Zenon DEF Shows
    <3> QED BY <1>8, <3>1, <3>2, Zenon
  <2>4. f2[r].leaf = f1[n].leaf /\ f2[r].items = <<>>
    BY <1>0, <1>4, <1>5 DEF Shows
  <2>5. r \in Nat /\ r \notin t1.nodes /\ t1.nodes \cup {r} \subseteq DOMAIN f2
    BY <1>1, <1>5, <1>7 DEF Shows
  <2> QED BY <1>6, <2>1, <2>2, <2>3, <2>4, <2>5, AddEmptyChild
<1>10. /\ t2.nodes = t.nodes \cup {r, q} /\ t2.level[q] = t.level[n] + 1 /\ t2.level[r] = t.level[n]
       /\ t2.under[q] = t.under[n] /\ t2.first[q] = t.first[n]
       /\ \A p \in t.nodes : t2.level[p] = t.level[p] /\ t2.under[p] = t.under[p] /\ t2.first[p] = t.first[p]
  BY <1>0, <1>7, <1>9 DEF IsGrown, SaysTheSame
<1>11. PICK nt : Tree(npg, q, nt) /\ IsLike(t2, nt, n, r)
  <2>1. AreSiblings(f2, t2, q, 1, n, r)
    <3>1. f2[q].items[1] = n /\ f2[q].items[1 + 1] = r /\ Size(f2, q) = 2
      BY <1>5 DEF Shows, Size
    <3> QED BY <1>5, <1>10, <3>1 DEF Shows, AreSiblings
  <2>2. IsJoin(f2[n].items, f2[r].items, pg[n].items)
    <3>1. f2[n].items = pg[n].items /\ f2[r].items = <<>>
      BY <1>0, <1>5 DEF Shows
    <3>2. Len(pg[n].items) \in Nat
      BY <1>0, SizeIsNat DEF Size
    <3>3. PICK w : w = <<>>
      OBVIOUS
    <3>4. Len(w) = 0
      BY <3>3
    <3>5. IsJoin(pg[n].items, w, pg[n].items)
      <4>1. Len(w) \in Nat /\ Len(pg[n].items) = Len(pg[n].items) + Len(w) /\ \A i \in 1..Len(w) : FALSE
        BY <3>2, <3>4
      <4> QED BY <3>2, <4>1 DEF IsJoin
    <3> QED BY <3>1, <3>3, <3>5
  <2>3. ShareOut(npg, n, r, f2[n].leaf, pg[n].items)
    BY <1>0, <1>1, <1>5 DEF Shows, ShareOut
  <2>4. SameItems(f2, npg, t2.nodes \ {n, r})
    <3> SUFFICES ASSUME NEW p \in t.nodes \cup {q}, p # n PROVE npg[p].leaf = f2[p].leaf /\ npg[p].items = f2[p].items
      BY <1>10 DEF SameItems
    <3>1. CASE p = q
      BY <1>1, <1>5, <3>1 DEF Shows
    <3>2. CASE p # q
      BY <1>1, <1>5, <3>2 DEF Shows
    <3> QED BY <3>1, <3>2
  <2>5. Size(f2, n) >= 1
    BY <1>0, <1>5 DEF Shows, Size
  <2>6. t2.nodes \subseteq DOMAIN npg
    BY <1>1, <1>10
  <2> QED BY <1>9, <2>1, <2>2, <2>3, <2>4, <2>5, <2>6, MoveItems
<1>12. /\ nt.nodes = t2.nodes /\ nt.level = t2.level
       /\ \A p \in t2.nodes \ {n, r} : nt.under[p] = t2.under[p]
       /\ \A p \in t2.nodes \ {r} : nt.first[p] = t2.first[p]
  BY <1>11 DEF IsLike
<1>13. IsTopped(t, nt, n, r, q)
  <2>1. q \in t2.nodes \ {n, r} /\ \A p \in t.nodes : p # r
    BY <1>0, <1>1, <1>10
  <2> QED BY <1>10, <1>12, <2>1 DEF IsTopped
<1> QED BY <1>11, <1>13

\* The root n is split, and a new root is put above the two halves.
LEMMA RootIsTwo ==
    ASSUME KeysAssumption, CapacityAssumption, NEW kind, NEW pg, NEW n \in Nat, NEW t,
           Holds(kind, pg, n, t, n, None),
           NEW r, NEW q, NEW npg, NEW pgx, NEW pgy, RootSplit(pg, t, n, r, q, npg, pgx, pgy),
           \A p \in {n, r, q} : Sized(kind, npg, p), Size(pg, n) >= 1, Size(npg, n) >= 1
    PROVE  \E nt : Holds(kind, npg, q, nt, None, None) /\ IsTopped(t, nt, n, r, q)
<1>0. /\ Tree(pg, n, t) /\ NoneChildless(pg, t)
      /\ \A p \in t.nodes : NodeOK(pg, t, p) /\ Size(pg, p) \in Nat /\ pg[p].id = p
      /\ \A p \in t.nodes \ {n} : Sized(kind, pg, p) /\ (~pg[p].leaf => Kept(pg, t, p, None))
      /\ \A p \in t.nodes : t.level[p] \in Nat
  <2>1. \A p \in t.nodes : t.level[p] \in Nat
    BY DEF Holds, Tree, NodeOK
  <2>2. \A p \in t.nodes \ {n} : Sized(kind, pg, p) /\ (~pg[p].leaf => Kept(pg, t, p, None))
    BY DEF Holds
  <2> QED BY <2>1, <2>2, HoldsFacts
<1>1. /\ r \in Nat /\ q \in Nat /\ r \notin t.nodes /\ q \notin t.nodes /\ r # q
      /\ t.nodes \cup {r, q} \subseteq DOMAIN npg
      /\ \A p \in t.nodes \ {n} : npg[p] = pg[p]
      /\ \A p \in {n, r} : npg[p].id = p /\ npg[p].leaf = pg[n].leaf /\ (~pg[n].leaf => IsRebuilt(pgx, npg[p]))
      /\ npg[q].id = q /\ npg[q].leaf = FALSE /\ IsRebuilt(pgy, npg[q])
      /\ Sees(pgx, pg, t, {n})
      /\ Len(pgy) \in Nat /\ \A p \in t.nodes : t.level[p] <= Len(pgy)
      /\ \A p \in t.nodes \cup {r} : p \in DOMAIN pgy /\ pgy[p] = npg[p]
  BY DEF RootSplit
<1>2. n \in t.nodes /\ t.parent[n] = None /\ None \notin t.nodes
  BY <1>0 DEF Tree
<1>3. PICK nt : Tree(npg, q, nt) /\ IsTopped(t, nt, n, r, q)
  BY <1>0, TreeOfRoot
<1>4. /\ nt.nodes = t.nodes \cup {r, q}
      /\ nt.level[r] = t.level[n] /\ nt.level[q] = t.level[n] + 1
      /\ \A p \in t.nodes : nt.level[p] = t.level[p] /\ nt.first[p] = t.first[p]
      /\ \A p \in t.nodes \ {n} : nt.under[p] = t.under[p]
  BY <1>3 DEF IsTopped
<1>40. q # n /\ r # n /\ \A p \in t.nodes : p # r /\ p # q
  BY <1>1, <1>2
<1> DEFINE X == {n, r, q}
<1>5. \A p \in nt.nodes : npg[p].id = p
  <2>1. npg[n].id = n /\ npg[r].id = r /\ npg[q].id = q
    BY <1>1
  <2>2. \A p \in t.nodes \ {n} : npg[p].id = p
    BY <1>0, <1>1
  <2>3. nt.nodes = t.nodes \cup {r, q}
    BY <1>4
  <2> QED BY <2>1, <2>2, <2>3
<1>6. None \notin nt.nodes
  BY <1>1, <1>2, <1>4 DEF CapacityAssumption
<1>7. \A p \in nt.nodes \ {None} : Sized(kind, npg, p)
  <2> SUFFICES ASSUME NEW p \in t.nodes \ {n} PROVE Sized(kind, npg, p)
    BY <1>4
  <2>1. Sized(kind, pg, p) /\ npg[p].leaf = pg[p].leaf /\ npg[p].items = pg[p].items
    BY <1>0, <1>1
  <2> QED BY <2>1 DEF Sized, Count, Size
<1>8. ASSUME NEW p \in nt.nodes \ X
      PROVE  /\ p \in t.nodes \ {n} /\ npg[p] = pg[p]
             /\ ~pg[p].leaf => /\ SameBelowPage(pg, t, nt, p)
                               /\ \A i \in 2..Size(pg, p) : t.first[pg[p].items[i]] = None => None = None
  <2>1. p \in t.nodes \ {n} /\ npg[p] = pg[p]
    BY <1>1, <1>4
  <2>2. ASSUME ~pg[p].leaf, NEW i \in 1..Size(pg, p)
        PROVE  nt.under[pg[p].items[i]] = t.under[pg[p].items[i]] /\ nt.first[pg[p].items[i]] = t.first[pg[p].items[i]]
    <3>1. InternalShape(pg, t, p)
      BY <1>0, <2>1, <2>2, InternalFacts
    <3>2. pg[p].items[i] \in t.nodes /\ t.parent[pg[p].items[i]] = p
      BY <3>1 DEF InternalShape
    <3>3. pg[p].items[i] # n
      BY <1>2, <2>1, <3>2
    <3> QED BY <1>4, <3>2, <3>3
  <2> QED BY <2>1, <2>2 DEF SameBelowPage
<1>9. ASSUME NEW p \in (nt.nodes \cap X) \ {None}, ~npg[p].leaf
      PROVE  \E ph : IsRebuilt(ph, npg[p]) /\ Agrees(npg, nt, ph, nt.level[p] - 1)
  <2>1. CASE p = q
    <3>1. Agrees(npg, nt, pgy, nt.level[q] - 1)
      <4>1. \A u \in nt.nodes : nt.level[u] <= nt.level[q] - 1 => u # q
        BY <1>0, <1>2, <1>4
      <4>2. \A u \in nt.nodes : u # q => u \in DOMAIN pgy /\ pgy[u] = npg[u] /\ nt.level[u] <= Len(pgy)
        BY <1>1, <1>2, <1>4
      <4> QED BY <1>1, <4>1, <4>2 DEF Agrees
    <3> QED BY <1>1, <2>1, <3>1
  <2>2. CASE p \in {n, r}
    <3>0. nt.level[p] = t.level[n]
      BY <1>2, <1>4, <2>2
    <3>1. IsRebuilt(pgx, npg[p])
      BY <1>1, <1>9, <2>2
    <3>2. Agrees(npg, nt, pgx, nt.level[p] - 1)
      <4>1. \A u \in nt.nodes : nt.level[u] <= nt.level[p] - 1 => u \in t.nodes /\ u # n
        BY <1>0, <1>2, <1>4, <3>0
      <4>2. \A u \in t.nodes \ {n} : u \in DOMAIN pgx /\ pgx[u] = npg[u] /\ nt.level[u] <= Len(pgx)
        BY <1>1, <1>4 DEF Sees
      <4>3. Len(pgx) \in Nat
        BY <1>1 DEF Sees
      <4> QED BY <4>1, <4>2, <4>3 DEF Agrees
    <3> QED BY <3>1, <3>2
  <2> QED BY <1>9, <2>1, <2>2
<1> HIDE DEF X
<1>10. Resettled(kind, pg, t, n, None, npg, q, nt, X, None, None)
  BY <1>3, <1>5, <1>6, <1>7, <1>8, <1>9 DEF Resettled
<1>11. Holds(kind, npg, q, nt, None, None)
  BY <1>10, ResettledHolds
<1> QED BY <1>3, <1>11

\* The only child of the root takes its place.
IsOnlyChild(pg, n, c) == ~pg[n].leaf /\ Size(pg, n) = 1 /\ c = pg[n].items[1]

TakesOver(t, n, c) ==
    /\ c \in t.nodes /\ c # n /\ t.level[c] = t.level[n] - 1
    /\ t.under[c] = t.under[n] /\ t.first[c] = t.first[n]

\* promote_single_child_root: what is left is a tree, exact to its last separator.
LEMMA RootIsDropped ==
    ASSUME KeysAssumption, CapacityAssumption, NEW kind, NEW pg, NEW n, NEW t,
           Holds(kind, pg, n, t, n, t.first[n]), NEW c, IsOnlyChild(pg, n, c)
    PROVE  TakesOver(t, n, c) /\ \E nt : Holds(kind, pg, c, nt, None, None) /\ IsShrunk(t, nt, n)
<1>a. ~pg[n].leaf /\ Size(pg, n) = 1 /\ c = pg[n].items[1]
  BY DEF IsOnlyChild
<1>0. /\ Tree(pg, n, t) /\ NoneChildless(pg, t)
      /\ \A p \in t.nodes : NodeOK(pg, t, p) /\ Size(pg, p) \in Nat /\ pg[p].id = p
      /\ \A p \in t.nodes \ {n} : Sized(kind, pg, p) /\ (~pg[p].leaf => Kept(pg, t, p, t.first[n]))
      /\ \A p \in t.nodes : t.level[p] \in Nat
  <2>1. \A p \in t.nodes : t.level[p] \in Nat
    BY DEF Holds, Tree, NodeOK
  <2>2. \A p \in t.nodes \ {n} : Sized(kind, pg, p) /\ (~pg[p].leaf => Kept(pg, t, p, t.first[n]))
    BY DEF Holds
  <2> QED BY <2>1, <2>2, HoldsFacts
<1>1. PICK nt : /\ Tree(pg, c, nt) /\ IsShrunk(t, nt, n)
                /\ c # n /\ t.level[c] = t.level[n] - 1
                /\ t.under[c] = t.under[n] /\ t.first[c] = t.first[n]
  BY <1>0, <1>a, DropRoot
<1>2. n \in t.nodes /\ None \notin t.nodes
  BY <1>0 DEF Tree
<1>3. c \in t.nodes
  <2>1. c \in nt.nodes
    BY <1>1 DEF Tree
  <2> QED BY <1>1, <2>1 DEF IsShrunk
<1>4. /\ nt.nodes = t.nodes \ {n}
      /\ nt.level = t.level /\ nt.under = t.under /\ nt.first = t.first
  BY <1>1 DEF IsShrunk
<1>5. ASSUME NEW p \in nt.nodes \ {}
      PROVE  /\ p \in t.nodes \ {n} /\ pg[p] = pg[p]
             /\ ~pg[p].leaf => /\ SameBelowPage(pg, t, nt, p)
                               /\ \A i \in 2..Size(pg, p) : t.first[pg[p].items[i]] = t.first[n] => t.first[n] = None
  <2>1. p \in t.nodes \ {n}
    BY <1>4
  <2>2. ASSUME ~pg[p].leaf, NEW i \in 2..Size(pg, p), t.first[pg[p].items[i]] = t.first[n] PROVE FALSE
    <3>1. InternalShape(pg, t, p) /\ i \in 1..Size(pg, p)
      BY <1>0, <2>1, <2>2, InternalFacts
    <3>2. pg[p].items[i] \in t.nodes /\ t.parent[pg[p].items[i]] = p
      BY <3>1 DEF InternalShape
    <3>a. t.parent[n] = None
      BY <1>0 DEF Tree
    <3>3. t.level[n] >= t.level[pg[p].items[i]]
      <4>1. ~(t.level[n] < t.level[pg[p].items[i]])
        BY <1>0, <1>2, <2>2, <3>2, <3>a, FirstBelow
      <4> QED BY <1>0, <1>2, <3>2, <4>1
    <3>4. n = pg[p].items[i]
      BY <1>0, <1>2, <2>1, <2>2, <3>3, NotAbove
    <3> QED BY <1>2, <2>1, <3>2, <3>4, <3>a
  <2> QED BY <1>4, <2>1, <2>2 DEF SameBelowPage
<1>6. None \notin nt.nodes /\ \A p \in nt.nodes : pg[p].id = p /\ Sized(kind, pg, p)
  BY <1>0, <1>2, <1>4
<1>7. PICK X : X = {}
  OBVIOUS
<1>8. Resettled(kind, pg, t, n, t.first[n], pg, c, nt, X, None, None)
  BY <1>1, <1>5, <1>6, <1>7 DEF Resettled
<1>9. Holds(kind, pg, c, nt, None, None)
  BY <1>8, ResettledHolds
<1> QED BY <1>1, <1>3, <1>9 DEF TakesOver

\* The items of a leaf, one by one.
LEMMA LeafItems ==
    ASSUME KeysAssumption, NEW items, NEW S, LeafHolds(items, S), S \subseteq Keys
    PROVE  /\ Len(items) \in Nat
           /\ \A i \in 1..Len(items) : items[i] = Item(items[i].key) /\ items[i].key \in S /\ items[i].key \in Int
           /\ \A k \in S : \E i \in 1..Len(items) : items[i].key = k
           /\ \A i, j \in 1..Len(items) : i < j => items[i].key < items[j].key
<1>1. items \in Seq({Item(k) : k \in Keys})
  BY DEF LeafHolds
<1>2. Len(items) \in Nat /\ \A i \in 1..Len(items) : items[i] \in {Item(k) : k \in Keys}
  BY <1>1, LenProperties, ElementOfSeq
<1>3. ASSUME NEW i \in 1..Len(items) PROVE items[i] = Item(items[i].key)
  <2>1. PICK k \in Keys : items[i] = Item(k)
    BY <1>2
  <2>2. Item(k).key = k
    BY DEF Item
  <2> QED BY <2>1, <2>2
<1>4. \A i \in 1..Len(items) : items[i].key \in S
  BY DEF LeafHolds
<1>5. \A i \in 1..Len(items) : items[i].key \in Int
  BY <1>4 DEF KeysAssumption
<1>6. \A k \in S : \E i \in 1..Len(items) : items[i].key = k
  BY DEF LeafHolds
<1>7. \A i, j \in 1..Len(items) : i < j => items[i].key < items[j].key
  BY DEF LeafHolds
<1> QED BY <1>2, <1>3, <1>4, <1>5, <1>6, <1>7

\* insert into the items of a leaf.
LEMMA ItemsWith ==
    ASSUME KeysAssumption, NEW items, NEW S, LeafHolds(items, S), S \subseteq Keys, NEW k \in Keys, k \notin S,
           NEW out, out = InsertAt(items, LowerBound(items, k), Item(k))
    PROVE  LeafHolds(out, S \cup {k}) /\ Len(out) = Len(items) + 1
<1>0. /\ Len(items) \in Nat
      /\ \A i \in 1..Len(items) : items[i] = Item(items[i].key) /\ items[i].key \in S /\ items[i].key \in Int
      /\ \A x \in S : \E i \in 1..Len(items) : items[i].key = x
      /\ \A i, j \in 1..Len(items) : i < j => items[i].key < items[j].key
  BY LeafItems
<1>1. k \in Int /\ Item(k).key = k
  BY DEF KeysAssumption, Item
<1> DEFINE b == LowerBound(items, k)
<1>2. /\ b \in 1..(Len(items) + 1)
      /\ \A j \in 1..(b - 1) : items[j].key < k
      /\ b <= Len(items) => k <= items[b].key
  BY <1>0, <1>1, LowerBoundProperties
<1>3. out \in Seq({Item(x) : x \in Keys}) /\ IsInsertion(items, b, Item(k), out)
  <2>1. items \in Seq({Item(x) : x \in Keys}) /\ Item(k) \in {Item(x) : x \in Keys}
    BY DEF LeafHolds
  <2> HIDE DEF b
  <2>2. InsertAt(items, b, Item(k)) \in Seq({Item(x) : x \in Keys}) /\ IsInsertion(items, b, Item(k), InsertAt(items, b, Item(k)))
    BY <1>2, <2>1, InsertAtIsInsertion
  <2> QED BY <2>2 DEF b
<1> HIDE DEF b
<1>4. PICK z : z = Len(items) /\ z \in Nat
  BY <1>0
<1>5. Len(out) = z + 1 /\ b \in 1..(z + 1)
      /\ \A m \in 1..(z + 1) : out[m] = IF m < b THEN items[m] ELSE IF m = b THEN Item(k) ELSE items[m - 1]
  BY <1>2, <1>3, <1>4 DEF IsInsertion
<1>6. /\ \A i \in 1..(b - 1) : i \in 1..z /\ items[i].key < k
      /\ \A i \in b..z : i \in 1..z /\ k < items[i].key
  <2>1. \A i \in 1..(b - 1) : i \in 1..z /\ items[i].key < k
    BY <1>2, <1>4, <1>5
  <2>2. ASSUME NEW i \in b..z PROVE i \in 1..z /\ k < items[i].key
    <3>1. i \in 1..z /\ b \in 1..z
      BY <1>4, <1>5
    <3>2. k <= items[b].key /\ items[b].key # k /\ items[b].key \in Int
      BY <1>0, <1>2, <1>4, <3>1
    <3>3. items[i].key \in Int /\ (i = b \/ items[b].key < items[i].key)
      BY <1>0, <1>4, <3>1
    <3> QED BY <1>1, <3>1, <3>2, <3>3
  <2> QED BY <2>1, <2>2
<1> DEFINE key(m) == out[m].key
<1>7. /\ \A m \in 1..(b - 1) : m \in 1..z /\ key(m) = items[m].key
      /\ key(b) = k
      /\ \A m \in (b + 1)..(z + 1) : m - 1 \in 1..z /\ m - 1 \in b..z /\ key(m) = items[m - 1].key
  <2>1. \A m \in 1..(b - 1) : m \in 1..z /\ m \in 1..(z + 1) /\ m < b
    BY <1>4, <1>5
  <2>2. b \in 1..(z + 1) /\ ~(b < b)
    BY <1>4, <1>5
  <2>3. \A m \in (b + 1)..(z + 1) : m \in 1..(z + 1) /\ ~(m < b) /\ m # b /\ m - 1 \in 1..z /\ m - 1 \in b..z
    BY <1>4, <1>5
  <2>4. \A m \in 1..(b - 1) : out[m] = items[m]
    BY <1>5, <2>1
  <2>5. out[b] = Item(k)
    BY <1>5, <2>2
  <2>6. \A m \in (b + 1)..(z + 1) : out[m] = items[m - 1]
    BY <1>5, <2>3
  <2> QED BY <1>1, <2>1, <2>3, <2>4, <2>5, <2>6
<1> HIDE DEF key
<1>8. \A m \in 1..(z + 1) : m \in 1..(b - 1) \/ m = b \/ m \in (b + 1)..(z + 1)
  BY <1>4, <1>5
<1>9. ASSUME NEW x PROVE x \in S \cup {k} <=> \E i \in 1..(z + 1) : key(i) = x
  <2>1. ASSUME x \in S PROVE \E i \in 1..(z + 1) : key(i) = x
    <3>1. PICK i \in 1..z : items[i].key = x
      BY <1>0, <1>4, <2>1
    <3>2. CASE i < b
      <4>1. i \in 1..(b - 1) /\ i \in 1..(z + 1)
        BY <1>4, <1>5, <3>2
      <4> QED BY <1>7, <3>1, <4>1
    <3>3. CASE ~(i < b)
      <4>1. i + 1 \in (b + 1)..(z + 1) /\ i + 1 \in 1..(z + 1) /\ i + 1 - 1 = i
        BY <1>4, <1>5, <3>3
      <4> QED BY <1>7, <3>1, <4>1
    <3> QED BY <3>2, <3>3
  <2>2. ASSUME x = k PROVE \E i \in 1..(z + 1) : key(i) = x
    BY <1>5, <1>7, <2>2
  <2>3. ASSUME NEW i \in 1..(z + 1) PROVE key(i) \in S \cup {k}
    <3>1. \A m \in 1..z : items[m].key \in S
      BY <1>0, <1>4
    <3>2. CASE i \in 1..(b - 1)
      BY <1>7, <3>1, <3>2
    <3>3. CASE i = b
      BY <1>7, <3>3
    <3>4. CASE i \in (b + 1)..(z + 1)
      <4>1. i - 1 \in 1..z /\ key(i) = items[i - 1].key
        BY <1>7, <3>4
      <4> QED BY <3>1, <4>1
    <3> QED BY <1>8, <3>2, <3>3, <3>4
  <2> QED BY <2>1, <2>2, <2>3
<1>10. ASSUME NEW i \in 1..(z + 1), NEW j \in 1..(z + 1), i < j PROVE key(i) < key(j)
  <2>0. i \in Nat /\ j \in Nat /\ b \in Nat /\ k \in Int
    BY <1>1, <1>5
  <2>1. CASE i \in 1..(b - 1) /\ j \in 1..(b - 1)
    BY <1>0, <1>4, <1>7, <1>10, <2>1
  <2>2. CASE i \in 1..(b - 1) /\ j = b
    BY <1>6, <1>7, <2>2
  <2>3. CASE i \in 1..(b - 1) /\ j \in (b + 1)..(z + 1)
    <3>1. key(i) = items[i].key /\ i \in 1..z /\ key(j) = items[j - 1].key /\ j - 1 \in 1..z
      BY <1>7, <2>3
    <3>2. i < j - 1
      BY <2>0, <2>3
    <3> QED BY <1>0, <1>4, <3>1, <3>2
  <2>4. CASE i = b /\ j \in (b + 1)..(z + 1)
    BY <1>6, <1>7, <2>4
  <2>5. CASE i \in (b + 1)..(z + 1) /\ j \in (b + 1)..(z + 1)
    <3>1. key(i) = items[i - 1].key /\ i - 1 \in 1..z /\ key(j) = items[j - 1].key /\ j - 1 \in 1..z
      BY <1>7, <2>5
    <3>2. i - 1 < j - 1
      BY <1>10, <2>0
    <3> QED BY <1>0, <1>4, <3>1, <3>2
  <2> QED BY <1>8, <1>10, <2>0, <2>1, <2>2, <2>3, <2>4, <2>5
<1>11. LeafHolds(out, S \cup {k})
  BY <1>3, <1>5, <1>9, <1>10 DEF LeafHolds, key
<1> QED BY <1>4, <1>5, <1>11

\* erase from the items of a leaf.
LEMMA ItemsWithout ==
    ASSUME KeysAssumption, NEW items, NEW S, LeafHolds(items, S), S \subseteq Keys, NEW k \in S,
           NEW out, out = RemoveAt(items, LowerBound(items, k))
    PROVE  LeafHolds(out, S \ {k}) /\ Len(out) = Len(items) - 1
<1>0. /\ Len(items) \in Nat
      /\ \A i \in 1..Len(items) : items[i] = Item(items[i].key) /\ items[i].key \in S /\ items[i].key \in Int
      /\ \A x \in S : \E i \in 1..Len(items) : items[i].key = x
      /\ \A i, j \in 1..Len(items) : i < j => items[i].key < items[j].key
  BY LeafItems
<1>1. k \in Int
  BY DEF KeysAssumption
<1> DEFINE b == LowerBound(items, k)
<1>2. /\ b \in 1..(Len(items) + 1)
      /\ \A j \in 1..(b - 1) : items[j].key < k
      /\ b <= Len(items) => k <= items[b].key
  BY <1>0, <1>1, LowerBoundProperties
<1> HIDE DEF b
<1>4. PICK z : z = Len(items) /\ z \in Nat
  BY <1>0
<1>5. b \in 1..z /\ items[b].key = k
  <2>1. PICK i \in 1..z : items[i].key = k
    BY <1>0, <1>4
  <2>2. ~(i \in 1..(b - 1))
    BY <1>1, <1>2, <2>1
  <2>3. b <= i /\ b \in 1..z
    BY <1>2, <1>4, <2>2
  <2>4. k <= items[b].key
    BY <1>2, <1>4, <2>3
  <2>5. b = i \/ items[b].key < items[i].key
    BY <1>0, <1>4, <2>3
  <2>6. items[b].key \in Int
    BY <1>0, <1>4, <2>3
  <2> QED BY <1>1, <2>1, <2>3, <2>4, <2>5, <2>6
<1>3. out \in Seq({Item(x) : x \in Keys}) /\ IsRemoval(items, b, out)
  <2>1. items \in Seq({Item(x) : x \in Keys})
    BY DEF LeafHolds
  <2>2. RemoveAt(items, b) \in Seq({Item(x) : x \in Keys}) /\ IsRemoval(items, b, RemoveAt(items, b))
    BY <1>4, <1>5, <2>1, RemoveAtIsRemoval
  <2> QED BY <2>2 DEF b
<1>6. Len(out) = z - 1 /\ \A m \in 1..(z - 1) : out[m] = IF m < b THEN items[m] ELSE items[m + 1]
  BY <1>3, <1>4 DEF IsRemoval
<1> DEFINE key(m) == out[m].key
           at(m) == IF m < b THEN m ELSE m + 1
<1>7. \A m \in 1..(z - 1) : at(m) \in 1..z /\ at(m) # b /\ key(m) = items[at(m)].key
  <2> SUFFICES ASSUME NEW m \in 1..(z - 1) PROVE at(m) \in 1..z /\ at(m) # b /\ key(m) = items[at(m)].key
    OBVIOUS
  <2>1. CASE m < b
    BY <1>4, <1>5, <1>6, <2>1
  <2>2. CASE ~(m < b)
    BY <1>4, <1>5, <1>6, <2>2
  <2> QED BY <2>1, <2>2
<1>8. \A i, j \in 1..(z - 1) : i < j => at(i) < at(j)
  BY <1>4, <1>5
<1>9. \A i \in 1..z : i # b => \E m \in 1..(z - 1) : at(m) = i
  <2> SUFFICES ASSUME NEW i \in 1..z, i # b PROVE \E m \in 1..(z - 1) : at(m) = i
    OBVIOUS
  <2>1. CASE i < b
    <3>1. i \in 1..(z - 1) /\ at(i) = i
      BY <1>4, <1>5, <2>1
    <3> QED BY <3>1
  <2>2. CASE ~(i < b)
    <3>1. i - 1 \in 1..(z - 1) /\ at(i - 1) = i
      BY <1>4, <1>5, <2>2
    <3> QED BY <3>1
  <2> QED BY <2>1, <2>2
<1> HIDE DEF key, at
<1>10. \A i \in 1..z : items[i].key = k => i = b
  <2> SUFFICES ASSUME NEW i \in 1..z, items[i].key = k, i # b PROVE FALSE
    OBVIOUS
  <2>1. i < b \/ b < i
    BY <1>5
  <2>2. items[i].key < items[b].key \/ items[b].key < items[i].key
    BY <1>0, <1>4, <1>5, <2>1
  <2> QED BY <1>1, <1>5, <2>2
<1>11. ASSUME NEW x PROVE x \in S \ {k} <=> \E m \in 1..(z - 1) : key(m) = x
  <2>1. ASSUME x \in S \ {k} PROVE \E m \in 1..(z - 1) : key(m) = x
    <3>1. PICK i \in 1..z : items[i].key = x
      BY <1>0, <1>4, <2>1
    <3>2. i # b
      BY <1>5, <2>1, <3>1
    <3> QED BY <1>7, <1>9, <3>1, <3>2
  <2>2. ASSUME NEW m \in 1..(z - 1) PROVE key(m) \in S \ {k}
    BY <1>0, <1>4, <1>7, <1>10
  <2> QED BY <2>1, <2>2
<1>12. ASSUME NEW i \in 1..(z - 1), NEW j \in 1..(z - 1), i < j PROVE key(i) < key(j)
  <2>1. at(i) < at(j) /\ at(i) \in 1..z /\ at(j) \in 1..z
    BY <1>7, <1>8, <1>12
  <2> QED BY <1>0, <1>4, <1>7, <2>1
<1>13. LeafHolds(out, S \ {k})
  BY <1>3, <1>6, <1>11, <1>12 DEF LeafHolds, key
<1> QED BY <1>4, <1>6, <1>13

\* Of the pages of the tree, a leaf has been written.
LeafRewritten(pg, npg, t, leaf) ==
    /\ t.nodes \subseteq DOMAIN npg
    /\ \A p \in t.nodes \ {leaf} : npg[p] = pg[p]
    /\ npg[leaf].id = leaf /\ npg[leaf].leaf = TRUE

\* What find_leaf reads, and what a leaf of the tree holds.
LEMMA WayFacts ==
    ASSUME NEW pg, NEW t, NEW root, NEW k, NEW d, PathShape(pg, t, root, k, d), Tree(pg, root, t)
    PROVE  /\ Last(d) \in t.nodes /\ pg[Last(d)].leaf
           /\ LeafHolds(pg[Last(d)].items, t.under[Last(d)])
           /\ t.under[Last(d)] \subseteq Keys /\ t.first[Last(d)] = Last(d)
           /\ k \in t.under[Last(d)] <=> k \in t.under[root]
<1>1. Last(d) \in t.nodes /\ pg[Last(d)].leaf /\ (k \in t.under[Last(d)] <=> k \in t.under[root])
  BY DEF PathShape
<1>2. LeafShape(pg, t, Last(d))
  <2>1. NodeOK(pg, t, Last(d))
    BY <1>1 DEF Tree
  <2> QED BY <1>1, <2>1, LeafFacts
<1>3. LeafHolds(pg[Last(d)].items, t.under[Last(d)])
  BY <1>2 DEF LeafShape, LeafHolds, Size
<1> QED BY <1>1, <1>2, <1>3 DEF LeafShape

\* The way passes through the first leaf of each page below which k is the least key.
LEMMA LeastOnWay ==
    ASSUME KeysAssumption, NEW pg, NEW root, NEW t, Tree(pg, root, t), NoneChildless(pg, t),
           \A p \in t.nodes : t.under[p] # {},
           NEW k \in Keys, NEW d, PathShape(pg, t, root, k, d)
    PROVE  \A q \in t.nodes :
               q \in Passed(t, root, d) /\ k \in t.under[q] /\ (\A x \in t.under[q] : k <= x) =>
                   t.first[q] = Last(d) /\ t.under[Last(d)] \subseteq t.under[q]
<1> DEFINE Good(q) == q \in Passed(t, root, d) /\ k \in t.under[q] /\ (\A x \in t.under[q] : k <= x) =>
                          t.first[q] = Last(d) /\ t.under[Last(d)] \subseteq t.under[q]
           S == {q \in t.nodes : Good(q)}
<1>0. \A q \in t.nodes : NodeOK(pg, t, q)
  BY DEF Tree
<1>00. \A x \in Keys : x \in Int
  BY DEF KeysAssumption
<1>1. \A q \in t.nodes : pg[q].leaf => q \in S
  <2> SUFFICES ASSUME NEW q \in t.nodes, pg[q].leaf, q \in Passed(t, root, d)
               PROVE  t.first[q] = Last(d) /\ t.under[Last(d)] \subseteq t.under[q]
    OBVIOUS
  <2>1. q = Last(d)
    BY DEF PathShape
  <2>2. t.first[q] = q
    BY <1>0 DEF NodeOK
  <2> QED BY <2>1, <2>2
<1>2. \A q \in t.nodes : ~pg[q].leaf /\ (\A i \in 1..Size(pg, q) : pg[q].items[i] \in S) => q \in S
  <2> SUFFICES ASSUME NEW q \in t.nodes, ~pg[q].leaf, \A i \in 1..Size(pg, q) : pg[q].items[i] \in S,
                      q \in Passed(t, root, d), k \in t.under[q], \A x \in t.under[q] : k <= x
               PROVE  t.first[q] = Last(d) /\ t.under[Last(d)] \subseteq t.under[q]
    OBVIOUS
  <2> DEFINE c == ChildIndex(pg[q], k)
  <2>1. IsWayTo(pg, t, q, k, c)
    BY DEF PathShape
  <2>2. InternalShape(pg, t, q)
    BY <1>0, InternalFacts
  <2>3. c \in 1..Size(pg, q) /\ k \in t.under[pg[q].items[c]]
        /\ \A i \in 1..Size(pg, q) : i < c => \A x \in t.under[pg[q].items[i]] : x < k
    BY <2>1 DEF IsWayTo
  <2>4. pg[q].items[c] \in Passed(t, root, d)
    BY <2>3 DEF PathShape
  <2> HIDE DEF c
  <2>5. /\ Size(pg, q) \in Nat /\ Size(pg, q) >= 1 /\ 1 \in 1..Size(pg, q)
        /\ pg[q].items[1] \in t.nodes /\ t.under[pg[q].items[1]] \subseteq t.under[q]
        /\ t.first[q] = t.first[pg[q].items[1]]
    <3>1. Size(pg, q) \in Nat /\ Size(pg, q) >= 1
      BY <2>2 DEF InternalShape, NoneChildless
    <3>2. 1 \in 1..Size(pg, q)
      BY <3>1
    <3> QED BY <2>2, <3>1, <3>2 DEF InternalShape
  <2>6. c = 1
    <3> SUFFICES ASSUME c # 1 PROVE FALSE
      OBVIOUS
    <3>1. 1 < c
      BY <2>3, <2>5
    <3>2. PICK x : x \in t.under[pg[q].items[1]]
      BY <2>5
    <3>3. x < k /\ k <= x
      BY <2>3, <2>5, <3>1, <3>2
    <3>4. x \in Int /\ k \in Int
      <4>1. t.under[q] \subseteq Keys
        BY <2>2 DEF InternalShape
      <4> QED BY <1>00, <2>5, <3>2, <4>1
    <3> QED BY <3>3, <3>4
  <2>7. Good(pg[q].items[1])
    BY <2>5
  <2>8. t.first[pg[q].items[1]] = Last(d) /\ t.under[Last(d)] \subseteq t.under[pg[q].items[1]]
    BY <2>3, <2>4, <2>5, <2>6, <2>7
  <2> QED BY <2>5, <2>8
<1> HIDE DEF S
<1>3. \A q \in t.nodes : q \in S
  BY <1>1, <1>2, LevelInduction
<1> QED BY <1>3 DEF S

\* A leaf has been changed by a key; g as in Kept.
LEMMA ChangedHolds ==
    ASSUME NEW kind, NEW pg, NEW root, NEW t, Holds(kind, pg, root, t, None, None),
           NEW k, NEW d, NEW new, NEW nt, NEW npg, Tree(npg, root, nt), IsChanged(t, nt, root, d, k, new),
           NEW leaf \in t.nodes, LeafRewritten(pg, npg, t, leaf), NEW g,
           \A q \in t.nodes : ~pg[q].leaf => Kept(npg, nt, q, g),
           NEW m, m \in {None, leaf}, m = None => Sized(kind, npg, leaf), pg[leaf].leaf
    PROVE  Holds(kind, npg, root, nt, m, g)
<1>0. /\ \A p \in t.nodes : pg[p].id = p
      /\ \A p \in t.nodes \ {None} : Sized(kind, pg, p)
      /\ None \notin t.nodes
  BY DEF Holds, Tree
<1>1. /\ nt.nodes = t.nodes
      /\ \A p \in t.nodes \ {leaf} : npg[p] = pg[p]
      /\ npg[leaf].id = leaf /\ npg[leaf].leaf = TRUE
  BY DEF IsChanged, LeafRewritten
<1>2. \A p \in nt.nodes : npg[p].id = p
  BY <1>0, <1>1
<1>3. \A p \in nt.nodes \ {m} : Sized(kind, npg, p) /\ (~npg[p].leaf => Kept(npg, nt, p, g))
  <2> SUFFICES ASSUME NEW p \in t.nodes, p # m PROVE Sized(kind, npg, p) /\ (~npg[p].leaf => Kept(npg, nt, p, g))
    BY <1>1
  <2>1. CASE p = leaf
    BY <1>1, <2>1
  <2>2. CASE p # leaf
    <3>1. Sized(kind, pg, p) /\ npg[p] = pg[p]
      BY <1>0, <1>1, <2>2
    <3>2. Sized(kind, npg, p)
      BY <3>1 DEF Sized, Count, Size
    <3> QED BY <3>1, <3>2
  <2> QED BY <2>1, <2>2
<1>4. m \in nt.nodes /\ ~npg[m].leaf => Size(npg, m) >= 1
  BY <1>0, <1>1
<1> QED BY <1>2, <1>3, <1>4 DEF Holds

\* insert, into the leaf where find_leaf ends: page m, when it has too many keys now.
LEMMA KeyAdded ==
    ASSUME KeysAssumption, CapacityAssumption, NEW kind, NEW pg, NEW root, NEW t, Holds(kind, pg, root, t, None, None),
           NEW k \in Keys, NEW d, PathShape(pg, t, root, k, d), k \notin t.under[root],
           NEW npg, LeafRewritten(pg, npg, t, Last(d)),
           npg[Last(d)].items = InsertAt(pg[Last(d)].items, LowerBound(pg[Last(d)].items, k), Item(k)),
           NEW m, m \in {None, Last(d)}, m = None => Sized(kind, npg, Last(d))
    PROVE  \E nt : Holds(kind, npg, root, nt, m, None) /\ IsChanged(t, nt, root, d, k, {k})
<1>0. /\ Tree(pg, root, t) /\ NoneChildless(pg, t)
      /\ \A p \in t.nodes : NodeOK(pg, t, p)
      /\ \A p \in t.nodes \ {None} : ~pg[p].leaf => Kept(pg, t, p, None)
      /\ \A p \in t.nodes : p # None
  <2>1. None \notin t.nodes
    BY DEF Holds, Tree
  <2> QED BY <2>1, HoldsFacts
<1>1. /\ Last(d) \in t.nodes /\ pg[Last(d)].leaf
      /\ LeafHolds(pg[Last(d)].items, t.under[Last(d)])
      /\ t.under[Last(d)] \subseteq Keys /\ k \notin t.under[Last(d)]
  BY <1>0, WayFacts
<1>2. LeafHolds(npg[Last(d)].items, t.under[Last(d)] \cup {k})
  BY <1>1, ItemsWith
<1>3. (t.under[Last(d)] \ {k}) \cup {k} = t.under[Last(d)] \cup {k}
  OBVIOUS
<1>4. PICK nt : Tree(npg, root, nt) /\ IsChanged(t, nt, root, d, k, {k})
  <2>1. SameItems(pg, npg, t.nodes \ {Last(d)})
    BY DEF LeafRewritten, SameItems
  <2>2. t.nodes \subseteq DOMAIN npg /\ npg[Last(d)].leaf = TRUE
    BY DEF LeafRewritten
  <2>3. LeafHolds(npg[Last(d)].items, (t.under[Last(d)] \ {k}) \cup {k})
    BY <1>2, <1>3
  <2>4. PICK new : new = {k}
    OBVIOUS
  <2>5. \E nt : Tree(npg, root, nt) /\ IsChanged(t, nt, root, d, k, new)
    BY <1>0, <2>1, <2>2, <2>3, <2>4, ChangeKey
  <2> QED BY <2>4, <2>5
<1>5. ASSUME NEW q \in t.nodes, ~pg[q].leaf PROVE Kept(npg, nt, q, None)
  <2>1. npg[q] = pg[q]
    BY <1>1, <1>5 DEF LeafRewritten
  <2>2. Kept(pg, t, q, None) /\ InternalShape(pg, t, q)
    BY <1>0, <1>5, InternalFacts
  <2>3. PICK z : z = Size(pg, q) /\ z \in Nat
    BY <2>2 DEF InternalShape
  <2>4. /\ pg[q].keys \in Seq(Keys) /\ Len(pg[q].keys) = z - 1
        /\ \A i \in 1..(z - 1) :
               /\ \A x \in t.under[pg[q].items[i]] : x < pg[q].keys[i]
               /\ \A x \in t.under[pg[q].items[i + 1]] : pg[q].keys[i] <= x
               /\ pg[q].keys[i] \in t.under[pg[q].items[i + 1]] \/ t.first[pg[q].items[i + 1]] = None
    BY <2>2, <2>3 DEF Kept, Keyed
  <2>5. /\ nt.first = t.first
        /\ \A p \in t.nodes : /\ p \in Passed(t, root, d) => nt.under[p] = (t.under[p] \ {k}) \cup {k}
                              /\ p \notin Passed(t, root, d) => nt.under[p] = t.under[p]
    BY <1>4 DEF IsChanged
  <2>6. \A i \in 1..z : pg[q].items[i] \in t.nodes
    BY <2>2, <2>3 DEF InternalShape
  <2>7. \A i \in 1..z : pg[q].items[i] \in Passed(t, root, d) => i = ChildIndex(pg[q], k)
    BY <1>5, <2>3 DEF PathShape
  <2>8. pg[q].keys \in Seq(Int) /\ k \in Int
    <3>1. pg[q].keys \in Seq(Keys)
      BY <2>4
    <3>2. k \in Int
      BY DEF KeysAssumption
    <3> QED BY <3>1, <3>2, SeqMonotonic DEF KeysAssumption
  <2> DEFINE c == ChildIndex(pg[q], k)
  <2>9. /\ \A j \in 1..(c - 1) : pg[q].keys[j] <= k
        /\ c <= z - 1 => k < pg[q].keys[c]
        /\ c \in 1..(z - 1 + 1)
    BY <2>4, <2>8, ChildIndexProperties
  <2> HIDE DEF c
  <2>10. ASSUME NEW i \in 1..(z - 1)
         PROVE  /\ \A x \in nt.under[pg[q].items[i]] : x < pg[q].keys[i]
                /\ \A x \in nt.under[pg[q].items[i + 1]] : pg[q].keys[i] <= x
                /\ pg[q].keys[i] \in nt.under[pg[q].items[i + 1]] \/ nt.first[pg[q].items[i + 1]] = None
    <3>1. i \in 1..z /\ i + 1 \in 1..z
      BY <2>3
    <3>2. ASSUME NEW x \in nt.under[pg[q].items[i]] PROVE x < pg[q].keys[i]
      <4>1. x \in t.under[pg[q].items[i]] \/ (x = k /\ i = c)
        BY <2>5, <2>6, <2>7, <3>1, <3>2 DEF c
      <4> QED BY <2>4, <2>9, <4>1
    <3>3. ASSUME NEW x \in nt.under[pg[q].items[i + 1]] PROVE pg[q].keys[i] <= x
      <4>1. x \in t.under[pg[q].items[i + 1]] \/ (x = k /\ i + 1 = c)
        BY <2>5, <2>6, <2>7, <3>1, <3>3 DEF c
      <4>2. CASE x = k /\ i + 1 = c
        <5>1. i \in 1..(c - 1)
          BY <4>2
        <5> QED BY <2>9, <4>2, <5>1
      <4> QED BY <2>4, <4>1, <4>2
    <3>4. \A x \in t.under[pg[q].items[i + 1]] : x \in nt.under[pg[q].items[i + 1]]
      BY <2>5, <2>6, <3>1
    <3> QED BY <2>4, <2>5, <3>2, <3>3, <3>4
  <2> QED BY <2>1, <2>3, <2>4, <2>10 DEF Kept, Keyed, Size
<1>6. Holds(kind, npg, root, nt, m, None)
  BY <1>1, <1>4, <1>5, ChangedHolds
<1> QED BY <1>4, <1>6

\* The leaf at the end of way d has lost key k; m and g as in KeyRemoved.
LosesKey(kind, pg, npg, d, k, m, g) ==
    /\ npg[Last(d)].items = RemoveAt(pg[Last(d)].items, LowerBound(pg[Last(d)].items, k))
    /\ m \in {None, Last(d)} /\ (m = None => Sized(kind, npg, Last(d)))
    /\ g \in {None, Last(d)} /\ (pg[Last(d)].items[1].key = k => g = Last(d))

\* erase, from the leaf where find_leaf ends: page m, when it may have too few keys now.
LEMMA KeyRemoved ==
    ASSUME KeysAssumption, CapacityAssumption, NEW kind, NEW pg, NEW root, NEW t, Holds(kind, pg, root, t, None, None),
           NEW k \in Keys, NEW d, PathShape(pg, t, root, k, d), k \in t.under[root],
           NEW npg, LeafRewritten(pg, npg, t, Last(d)), NEW m, NEW g, LosesKey(kind, pg, npg, d, k, m, g)
    PROVE  \E nt : Holds(kind, npg, root, nt, m, g) /\ IsChanged(t, nt, root, d, k, {})
<1>l. /\ npg[Last(d)].items = RemoveAt(pg[Last(d)].items, LowerBound(pg[Last(d)].items, k))
      /\ m \in {None, Last(d)} /\ (m = None => Sized(kind, npg, Last(d)))
      /\ g \in {None, Last(d)} /\ (pg[Last(d)].items[1].key = k => g = Last(d))
  BY DEF LosesKey
<1>0. /\ Tree(pg, root, t) /\ NoneChildless(pg, t)
      /\ \A p \in t.nodes : NodeOK(pg, t, p) /\ t.under[p] # {}
      /\ \A p \in t.nodes \ {None} : ~pg[p].leaf => Kept(pg, t, p, None)
      /\ \A p \in t.nodes : p # None
  <2>1. None \notin t.nodes
    BY DEF Holds, Tree
  <2> QED BY <2>1, HoldsFacts, UnderNotEmpty
<1>01. \A q \in t.nodes :
           q \in Passed(t, root, d) /\ k \in t.under[q] /\ (\A x \in t.under[q] : k <= x) =>
               t.first[q] = Last(d) /\ t.under[Last(d)] \subseteq t.under[q]
  <2>1. \A p \in t.nodes : t.under[p] # {}
    BY <1>0
  <2>2. Tree(pg, root, t) /\ NoneChildless(pg, t)
    BY <1>0
  <2> QED BY <2>1, <2>2, LeastOnWay
<1>1. /\ Last(d) \in t.nodes /\ pg[Last(d)].leaf
      /\ LeafHolds(pg[Last(d)].items, t.under[Last(d)])
      /\ t.under[Last(d)] \subseteq Keys /\ k \in t.under[Last(d)]
  BY <1>0, WayFacts
<1>2. LeafHolds(npg[Last(d)].items, t.under[Last(d)] \ {k})
  BY <1>l, <1>1, ItemsWithout
<1>3. (t.under[Last(d)] \ {k}) \cup {} = t.under[Last(d)] \ {k}
  OBVIOUS
<1>4. PICK nt : Tree(npg, root, nt) /\ IsChanged(t, nt, root, d, k, {})
  <2>1. SameItems(pg, npg, t.nodes \ {Last(d)})
    BY DEF LeafRewritten, SameItems
  <2>2. t.nodes \subseteq DOMAIN npg /\ npg[Last(d)].leaf = TRUE
    BY DEF LeafRewritten
  <2>3. LeafHolds(npg[Last(d)].items, (t.under[Last(d)] \ {k}) \cup {})
    BY <1>2, <1>3
  <2>4. PICK new : new = {}
    OBVIOUS
  <2>5. \E nt : Tree(npg, root, nt) /\ IsChanged(t, nt, root, d, k, new)
    BY <1>0, <2>1, <2>2, <2>3, <2>4, ChangeKey
  <2> QED BY <2>4, <2>5
<1>5. ASSUME NEW q \in t.nodes, ~pg[q].leaf PROVE Kept(npg, nt, q, g)
  <2>1. npg[q] = pg[q]
    BY <1>1, <1>5 DEF LeafRewritten
  <2>2. Kept(pg, t, q, None) /\ InternalShape(pg, t, q)
    BY <1>0, <1>5, InternalFacts
  <2>3. PICK z : z = Size(pg, q) /\ z \in Nat
    BY <2>2 DEF InternalShape
  <2>4. /\ pg[q].keys \in Seq(Keys) /\ Len(pg[q].keys) = z - 1
        /\ \A i \in 1..(z - 1) :
               /\ \A x \in t.under[pg[q].items[i]] : x < pg[q].keys[i]
               /\ \A x \in t.under[pg[q].items[i + 1]] : pg[q].keys[i] <= x
               /\ pg[q].keys[i] \in t.under[pg[q].items[i + 1]] \/ t.first[pg[q].items[i + 1]] = None
    BY <2>2, <2>3 DEF Kept, Keyed
  <2>5. /\ nt.first = t.first
        /\ \A p \in t.nodes : /\ p \in Passed(t, root, d) => nt.under[p] = t.under[p] \ {k}
                              /\ p \notin Passed(t, root, d) => nt.under[p] = t.under[p]
    BY <1>4 DEF IsChanged
  <2>6. \A i \in 1..z : pg[q].items[i] \in t.nodes
    BY <2>2, <2>3 DEF InternalShape
  <2>10. ASSUME NEW i \in 1..(z - 1)
         PROVE  /\ \A x \in nt.under[pg[q].items[i]] : x < pg[q].keys[i]
                /\ \A x \in nt.under[pg[q].items[i + 1]] : pg[q].keys[i] <= x
                /\ pg[q].keys[i] \in nt.under[pg[q].items[i + 1]] \/ nt.first[pg[q].items[i + 1]] = g
    <3>1. i \in 1..z /\ i + 1 \in 1..z
      BY <2>3
    <3>2. \A p \in t.nodes : nt.under[p] \subseteq t.under[p]
      BY <2>5
    <3>3. t.first[pg[q].items[i + 1]] # None
      BY <1>0, <2>6, <3>1, FirstIsLeaf
    <3>4. ASSUME pg[q].keys[i] \notin nt.under[pg[q].items[i + 1]] PROVE nt.first[pg[q].items[i + 1]] = g
      <4>1. PICK c : c = pg[q].items[i + 1] /\ c \in t.nodes
        BY <2>6, <3>1
      <4>2. pg[q].keys[i] \in t.under[c] /\ pg[q].keys[i] = k /\ c \in Passed(t, root, d)
        BY <2>4, <2>5, <3>3, <3>4, <4>1
      <4>3. \A x \in t.under[c] : k <= x
        BY <2>4, <4>1, <4>2
      <4>4. t.first[c] = Last(d) /\ t.under[Last(d)] \subseteq t.under[c]
        <5>1. c \in t.nodes /\ c \in Passed(t, root, d) /\ k \in t.under[c]
          BY <4>1, <4>2
        <5> QED BY <1>01, <4>3, <5>1
      <4>5. pg[Last(d)].items[1].key = k
        <5>1. NodeOK(pg, t, Last(d)) /\ t.under[Last(d)] # {}
          BY <1>0, <1>1
        <5>2. pg[Last(d)].items[1].key \in t.under[Last(d)] /\ pg[Last(d)].items[1].key <= k
          BY <1>1, <5>1, LeafMin
        <5>3. k <= pg[Last(d)].items[1].key
          BY <4>3, <4>4, <5>2
        <5>4. pg[Last(d)].items[1].key \in Int /\ k \in Int
          BY <1>1, <5>2 DEF KeysAssumption
        <5> QED BY <5>2, <5>3, <5>4
      <4> QED BY <1>l, <2>5, <4>1, <4>4, <4>5
    <3>5. \A x \in nt.under[pg[q].items[i]] : x < pg[q].keys[i]
      BY <2>4, <2>6, <3>1, <3>2
    <3>6. \A x \in nt.under[pg[q].items[i + 1]] : pg[q].keys[i] <= x
      BY <2>4, <2>6, <3>1, <3>2
    <3> QED BY <3>4, <3>5, <3>6
  <2> QED BY <2>1, <2>3, <2>4, <2>10 DEF Kept, Keyed, Size
<1>6. Holds(kind, npg, root, nt, m, g)
  BY <1>l, <1>1, <1>4, <1>5, ChangedHolds
<1> QED BY <1>4, <1>6

\* Of the pages of the tree, an internal node has been written, with its
\* separators computed anew.
NodeRewritten(pg, t, n, npg, pgx) ==
    /\ t.nodes \subseteq DOMAIN npg
    /\ \A p \in t.nodes \ {n} : npg[p] = pg[p]
    /\ npg[n].id = n /\ npg[n].leaf = pg[n].leaf /\ npg[n].items = pg[n].items
    /\ IsRebuilt(pgx, npg[n]) /\ Sees(pgx, pg, t, {n})

\* Page n is m when it may have too few children.
LEMMA NodeIsRebuilt ==
    ASSUME KeysAssumption, NEW kind, NEW pg, NEW root, NEW t, NEW n \in t.nodes, NEW f,
           Holds(kind, pg, root, t, n, f), ~pg[n].leaf,
           NEW npg, NEW pgx, NodeRewritten(pg, t, n, npg, pgx),
           NEW m, m \in {None, n}, m = None => Sized(kind, npg, n)
    PROVE  Holds(kind, npg, root, t, m, f)
<1>0. /\ Tree(pg, root, t) /\ NoneChildless(pg, t)
      /\ \A p \in t.nodes : NodeOK(pg, t, p) /\ Size(pg, p) \in Nat /\ pg[p].id = p
      /\ \A p \in t.nodes \ {n} : Sized(kind, pg, p)
      /\ \A p \in t.nodes : t.level[p] \in Nat
      /\ None \notin t.nodes
  <2>1. \A p \in t.nodes : t.level[p] \in Nat
    BY DEF Holds, Tree, NodeOK
  <2>2. None \notin t.nodes /\ \A p \in t.nodes \ {n} : Sized(kind, pg, p)
    BY DEF Holds, Tree
  <2> QED BY <2>1, <2>2, HoldsFacts
<1>1. /\ t.nodes \subseteq DOMAIN npg
      /\ \A p \in t.nodes \ {n} : npg[p] = pg[p]
      /\ npg[n].id = n /\ npg[n].leaf = pg[n].leaf /\ npg[n].items = pg[n].items
      /\ IsRebuilt(pgx, npg[n]) /\ Sees(pgx, pg, t, {n})
  BY DEF NodeRewritten
<1>2. SameItems(pg, npg, t.nodes)
  BY <1>1 DEF SameItems
<1>3. Tree(npg, root, t)
  BY <1>0, <1>1, <1>2, SameItemsSameTree
<1>4. \A p \in t.nodes : npg[p].id = p
  BY <1>0, <1>1
<1>5. \A p \in t.nodes \ {m} : Sized(kind, npg, p)
  <2> SUFFICES ASSUME NEW p \in t.nodes, p # m PROVE Sized(kind, npg, p)
    OBVIOUS
  <2>1. CASE p = n
    BY <2>1
  <2>2. CASE p # n
    <3>1. Sized(kind, pg, p) /\ npg[p] = pg[p]
      BY <1>0, <1>1, <2>2
    <3> QED BY <3>1 DEF Sized, Count, Size
  <2> QED BY <2>1, <2>2
<1>6. m \in t.nodes => ~npg[m].leaf /\ Size(npg, m) >= 1
  BY <1>0, <1>1 DEF NoneChildless, Size
<1>7. PICK X : X = {n}
  OBVIOUS
<1>8. ASSUME NEW p \in t.nodes \ X
      PROVE  /\ p \in t.nodes \ {n} /\ npg[p] = pg[p]
             /\ ~pg[p].leaf => /\ SameBelowPage(pg, t, t, p)
                               /\ \A i \in 2..Size(pg, p) : t.first[pg[p].items[i]] = f => f = f
  BY <1>1, <1>7 DEF SameBelowPage
<1>9. ASSUME NEW p \in (t.nodes \cap X) \ {m}, ~npg[p].leaf
      PROVE  \E ph : IsRebuilt(ph, npg[p]) /\ Agrees(npg, t, ph, t.level[p] - 1)
  <2>1. p = n
    BY <1>7
  <2>2. Agrees(npg, t, pgx, t.level[n] - 1)
    <3>1. \A u \in t.nodes : t.level[u] <= t.level[n] - 1 => u # n
      BY <1>0
    <3>2. \A u \in t.nodes \ {n} : u \in DOMAIN pgx /\ pgx[u] = npg[u] /\ t.level[u] <= Len(pgx)
      BY <1>1 DEF Sees
    <3>3. Len(pgx) \in Nat
      BY <1>1 DEF Sees
    <3> QED BY <3>1, <3>2, <3>3 DEF Agrees
  <2> QED BY <1>1, <2>1, <2>2
<1>10. Resettled(kind, pg, t, n, f, npg, root, t, X, m, f)
  BY <1>3, <1>4, <1>5, <1>6, <1>8, <1>9 DEF Resettled
<1> QED BY <1>10, ResettledHolds

\* The file is high enough for the loops that go down.
InFile(pg, t) == Len(pg) \in Nat /\ \A p \in t.nodes : t.level[p] <= Len(pg)

\* propagate_subtree_min_change for the way to page p makes the tree exact.
LEMMA PropagatedHolds ==
    ASSUME KeysAssumption, CapacityAssumption, NEW kind, NEW pg, NEW root, NEW t, NEW path, NEW p,
           Holds(kind, pg, root, t, None, t.first[p]), IsFile(pg), InFile(pg, t),
           IsRoute(pg, t, path, root, p), NEW out, out = Written(pg, Propagated(pg, path))
    PROVE  /\ Holds(kind, out, root, t, None, None) /\ DOMAIN out = DOMAIN pg
           /\ Rewrites(t, Propagated(pg, path))
<1>0. /\ Tree(pg, root, t) /\ NoneChildless(pg, t)
      /\ \A q \in t.nodes : pg[q].id = q
      /\ \A q \in t.nodes : Sized(kind, pg, q) /\ (~pg[q].leaf => Kept(pg, t, q, t.first[p]))
      /\ \A q \in t.nodes : t.under[q] # {} /\ Size(pg, q) >= 1
      /\ None \notin t.nodes /\ t.nodes \subseteq DOMAIN pg
  <2>1. None \notin t.nodes /\ t.nodes \subseteq DOMAIN pg
    BY DEF Holds, Tree
  <2>2. \A q \in t.nodes : Sized(kind, pg, q) /\ (~pg[q].leaf => Kept(pg, t, q, t.first[p]))
    BY <2>1 DEF Holds
  <2>3. \A q \in t.nodes : t.under[q] # {}
    BY <2>1, UnderNotEmpty
  <2>4. /\ Tree(pg, root, t) /\ NoneChildless(pg, t)
        /\ \A q \in t.nodes : pg[q].id = q /\ Size(pg, q) \in Nat
        /\ \A q \in t.nodes \ {None} : /\ pg[q].leaf => Size(pg, q) >= 1
                                       /\ ~pg[q].leaf => Size(pg, q) >= 2
    BY HoldsFacts
  <2>5. \A q \in t.nodes : Size(pg, q) >= 1
    BY <2>1, <2>4
  <2> QED BY <2>1, <2>2, <2>3, <2>4, <2>5
<1>1. PICK h : h = Len(pg) /\ h \in Nat /\ \A q \in t.nodes : t.level[q] <= h
  BY DEF InFile
<1>2. Readable(pg, t, pg, h)
  BY <1>0, <1>1 DEF Readable
<1>3. PropagatedOK(pg, t, path)
  BY <1>0, <1>1, <1>2, PropagatedExact
<1>4. /\ Rewrites(t, Propagated(pg, path)) /\ SameButKeys(pg, out)
      /\ \A q \in t.nodes : ~pg[q].leaf => Kept(out, t, q, None)
  BY <1>3 DEF PropagatedOK
<1>5. /\ DOMAIN out = DOMAIN pg
      /\ \A q \in t.nodes : /\ out[q].id = pg[q].id /\ out[q].leaf = pg[q].leaf /\ out[q].items = pg[q].items
  BY <1>0, <1>4 DEF SameButKeys
<1>6. SameItems(pg, out, t.nodes)
  BY <1>5 DEF SameItems
<1>7. Tree(out, root, t)
  BY <1>0, <1>5, <1>6, SameItemsSameTree
<1>8. \A q \in t.nodes : Sized(kind, out, q)
  <2> SUFFICES ASSUME NEW q \in t.nodes PROVE Sized(kind, out, q)
    OBVIOUS
  <2>1. Sized(kind, pg, q) /\ out[q].leaf = pg[q].leaf /\ out[q].items = pg[q].items
    BY <1>0, <1>5
  <2> QED BY <2>1 DEF Sized, Count, Size
<1>9. Holds(kind, out, root, t, None, None)
  BY <1>0, <1>4, <1>5, <1>7, <1>8 DEF Holds
<1> QED BY <1>4, <1>5, <1>9

-----------------------------------------------------------------------------
(* The way from the root to the page of the call.                           *)

\* The pages of a route but the last are above it.
LEMMA RouteAbove ==
    ASSUME NEW pg, NEW root, NEW t, Tree(pg, root, t), NEW path, NEW p, IsRoute(pg, t, path, root, p)
    PROVE  \A i \in 1..(Len(path) - 1) : t.level[path[i]] > t.level[p]
<1>0. /\ Len(path) \in Nat /\ Len(path) >= 1 /\ path[Len(path)] = p
      /\ \A i \in 1..Len(path) : path[i] \in t.nodes
  BY RouteFacts
<1>1. \A q \in t.nodes : NodeOK(pg, t, q) /\ t.level[q] \in Nat
  BY DEF Tree, NodeOK
<1>2. ASSUME NEW i \in 2..Len(path) PROVE t.level[path[i]] = t.level[path[i - 1]] - 1
  <2>1. ~pg[path[i - 1]].leaf /\ \E j \in 1..Size(pg, path[i - 1]) : pg[path[i - 1]].items[j] = path[i]
    BY DEF IsRoute
  <2>2. i - 1 \in 1..Len(path)
    BY <1>0
  <2>3. InternalShape(pg, t, path[i - 1])
    BY <1>0, <1>1, <2>1, <2>2, InternalFacts
  <2> QED BY <2>1, <2>3 DEF InternalShape
<1> DEFINE n == Len(path)
           S == {k \in Nat : k < n => t.level[path[n - k]] = t.level[p] + k}
<1> HIDE DEF n
<1>3. n \in Nat /\ n >= 1 /\ path[n] = p /\ (\A i \in 1..n : path[i] \in t.nodes)
      /\ \A i \in 2..n : t.level[path[i]] = t.level[path[i - 1]] - 1
  BY <1>0, <1>2 DEF n
<1>4. Nat \subseteq S
  <2>1. 0 \in S
    <3>1. n - 0 = n /\ t.level[p] + 0 = t.level[p]
      BY <1>1, <1>3
    <3> QED BY <1>3, <3>1
  <2>2. ASSUME NEW k \in Nat, k \in S PROVE k + 1 \in S
    <3> SUFFICES ASSUME k + 1 < n PROVE t.level[path[n - (k + 1)]] = t.level[p] + (k + 1)
      OBVIOUS
    <3>1. n - k \in 2..n /\ n - k \in 1..n /\ n - k - 1 = n - (k + 1) /\ n - (k + 1) \in 1..n
      BY <1>3
    <3>2. t.level[path[n - k]] = t.level[path[n - (k + 1)]] - 1
      BY <1>3, <3>1
    <3>3. t.level[path[n - k]] = t.level[p] + k
      <4>1. k < n
        BY <1>3
      <4> QED BY <2>2, <4>1
    <3>4. t.level[path[n - (k + 1)]] \in Nat /\ t.level[p] \in Nat
      BY <1>1, <1>3, <3>1
    <3> QED BY <3>2, <3>3, <3>4
  <2> HIDE DEF S
  <2> QED BY <2>1, <2>2, SetInduction
<1>5. ASSUME NEW i \in 1..(n - 1) PROVE t.level[path[i]] > t.level[p]
  <2>1. n - i \in Nat /\ n - i < n /\ n - (n - i) = i /\ n - i >= 1 /\ n \in 1..n
    BY <1>3
  <2>2. n - i \in S
    BY <1>4, <2>1
  <2>3. t.level[path[n - (n - i)]] = t.level[p] + (n - i)
    BY <2>1, <2>2
  <2>4. t.level[p] \in Nat
    BY <1>1, <1>3, <2>1
  <2> QED BY <2>1, <2>3, <2>4
<1> QED BY <1>5 DEF n

\* A route is one in another tree that has the same pages above.
LEMMA RouteMoves ==
    ASSUME NEW pg, NEW root, NEW t, Tree(pg, root, t), NEW path, NEW p, IsRoute(pg, t, path, root, p),
           NEW npg, NEW nt, p \in nt.nodes,
           \A q \in t.nodes : t.level[q] > t.level[p] =>
               q \in nt.nodes /\ npg[q].leaf = pg[q].leaf /\ npg[q].items = pg[q].items
    PROVE  IsRoute(npg, nt, path, root, p)
<1>0. /\ Len(path) \in Nat /\ Len(path) >= 1 /\ path[Len(path)] = p /\ path[1] = root /\ Last(path) = p
      /\ \A i \in 1..Len(path) : path[i] \in t.nodes
      /\ path \in Seq(t.nodes)
  <2>1. path \in Seq(t.nodes) /\ Last(path) = p
    BY DEF IsRoute
  <2> QED BY <2>1, RouteFacts
<1>1. \A i \in 1..(Len(path) - 1) : t.level[path[i]] > t.level[p]
  BY RouteAbove
<1>2. \A i \in 1..Len(path) : path[i] \in nt.nodes
  <2> SUFFICES ASSUME NEW i \in 1..Len(path) PROVE path[i] \in nt.nodes
    OBVIOUS
  <2>1. i = Len(path) \/ i \in 1..(Len(path) - 1)
    BY <1>0
  <2> QED BY <1>0, <1>1, <2>1
<1>3. path \in Seq(nt.nodes)
  <2>1. path \in [1..Len(path) -> t.nodes] /\ Len(path) \in Nat
    BY <1>0, LenProperties
  <2>2. path \in [1..Len(path) -> nt.nodes]
    BY <1>2, <2>1
  <2> QED BY <2>1, <2>2, SeqDef
<1>4. ASSUME NEW i \in 2..Len(path)
      PROVE  /\ ~npg[path[i - 1]].leaf
             /\ \E j \in 1..Size(npg, path[i - 1]) : npg[path[i - 1]].items[j] = path[i]
  <2>1. ~pg[path[i - 1]].leaf /\ \E j \in 1..Size(pg, path[i - 1]) : pg[path[i - 1]].items[j] = path[i]
    BY DEF IsRoute
  <2>2. i - 1 \in 1..(Len(path) - 1) /\ i - 1 \in 1..Len(path)
    BY <1>0
  <2>3. npg[path[i - 1]].leaf = pg[path[i - 1]].leaf /\ npg[path[i - 1]].items = pg[path[i - 1]].items
    BY <1>0, <1>1, <2>2
  <2> QED BY <2>1, <2>3 DEF Size
<1> QED BY <1>0, <1>3, <1>4 DEF IsRoute

\* The parent of the page of the call.
IsParent(pg, t, path, root, P, j, p) ==
    /\ P = Last(Front(path)) /\ P \in t.nodes /\ ~pg[P].leaf
    /\ j \in 1..Size(pg, P) /\ pg[P].items[j] = p
    /\ t.parent[p] = P /\ t.level[p] = t.level[P] - 1 /\ P # p
    /\ IsRoute(pg, t, Front(path), root, P) /\ Len(Front(path)) = Len(path) - 1

\* The last page but one of the route is the parent of the last.
LEMMA RouteParent ==
    ASSUME NEW pg, NEW root, NEW t, Tree(pg, root, t), NEW path, NEW p, IsRoute(pg, t, path, root, p),
           Len(path) # 1
    PROVE  /\ \E P, j : IsParent(pg, t, path, root, P, j, p)
           /\ p # root
<1>0. /\ Len(path) \in Nat /\ Len(path) >= 1 /\ path[Len(path)] = p /\ path[1] = root /\ Last(path) = p
      /\ \A i \in 1..Len(path) : path[i] \in t.nodes
      /\ path \in Seq(t.nodes)
  <2>1. path \in Seq(t.nodes) /\ Last(path) = p
    BY DEF IsRoute
  <2> QED BY <2>1, RouteFacts
<1>a. PICK n : n = Len(path)
  OBVIOUS
<1>1. n = Len(path) /\ n \in Nat /\ n >= 2
  BY <1>0, <1>a
<1>2. n \in 2..Len(path) /\ n - 1 \in 1..n /\ n - 1 >= 1
  BY <1>1
<1>3. /\ Front(path) \in Seq(t.nodes) /\ Len(Front(path)) = n - 1
      /\ \A i \in 1..(n - 1) : Front(path)[i] = path[i]
  <2>1. Front(path) = SubSeq(path, 1, Len(path) - 1)
    BY DEF Front
  <2>2. 1 \in 1..(Len(path) + 1) /\ Len(path) - 1 \in 0..Len(path)
    BY <1>0
  <2>3. /\ SubSeq(path, 1, Len(path) - 1) \in Seq(t.nodes)
        /\ Len(SubSeq(path, 1, Len(path) - 1)) = IF 1 <= Len(path) - 1 THEN Len(path) - 1 - 1 + 1 ELSE 0
        /\ \A i \in 1..(Len(path) - 1 - 1 + 1) : SubSeq(path, 1, Len(path) - 1)[i] = path[1 + i - 1]
    BY <1>0, <2>2, PartOfSeq
  <2>4. 1 <= n - 1 /\ n - 1 - 1 + 1 = n - 1 /\ \A i \in 1..(n - 1) : 1 + i - 1 = i
    BY <1>1
  <2> QED BY <1>1, <2>1, <2>3, <2>4
<1>4. PICK P : P = path[n - 1]
  OBVIOUS
<1>5. P = Last(Front(path)) /\ P \in t.nodes
  BY <1>0, <1>1, <1>2, <1>3, <1>4 DEF Last
<1>6. ~pg[P].leaf /\ \E j \in 1..Size(pg, P) : pg[P].items[j] = p
  BY <1>0, <1>1, <1>2, <1>4 DEF IsRoute
<1>7. PICK j \in 1..Size(pg, P) : pg[P].items[j] = p
  BY <1>6
<1>8. InternalShape(pg, t, P)
  <2>1. NodeOK(pg, t, P)
    BY <1>5 DEF Tree
  <2> QED BY <1>6, <2>1, InternalFacts
<1>9. t.parent[p] = P /\ t.level[p] = t.level[P] - 1 /\ t.level[P] \in Nat
  BY <1>7, <1>8 DEF InternalShape
<1>10. IsRoute(pg, t, Front(path), root, P)
  <2>1. Front(path)[1] = root /\ Len(Front(path)) >= 1 /\ Last(Front(path)) = P
    <3>1. 1 \in 1..(n - 1)
      BY <1>1
    <3> QED BY <1>0, <1>2, <1>3, <1>5, <3>1
  <2>2. ASSUME NEW i \in 2..Len(Front(path))
        PROVE  /\ ~pg[Front(path)[i - 1]].leaf
               /\ \E m \in 1..Size(pg, Front(path)[i - 1]) : pg[Front(path)[i - 1]].items[m] = Front(path)[i]
    <3>1. i \in 1..(n - 1) /\ i - 1 \in 1..(n - 1) /\ i \in 2..Len(path)
      BY <1>1, <1>3
    <3>2. Front(path)[i] = path[i] /\ Front(path)[i - 1] = path[i - 1]
      BY <1>3, <3>1
    <3>3. ~pg[path[i - 1]].leaf /\ \E m \in 1..Size(pg, path[i - 1]) : pg[path[i - 1]].items[m] = path[i]
      BY <3>1 DEF IsRoute
    <3> QED BY <3>2, <3>3
  <2> QED BY <1>3, <2>1, <2>2 DEF IsRoute
<1>11. p # root
  <2>1. t.parent[root] = None /\ None \notin t.nodes
    BY DEF Tree
  <2> QED BY <1>5, <1>9, <2>1
<1>12. P # p
  BY <1>9
<1>13. Len(Front(path)) = Len(path) - 1
  BY <1>1, <1>3
<1>14. IsParent(pg, t, path, root, P, j, p)
  BY <1>5, <1>6, <1>7, <1>9, <1>10, <1>12, <1>13 DEF IsParent
<1> QED BY <1>11, <1>14

\* A route to the root itself has nothing else.
LEMMA RouteRoot ==
    ASSUME NEW pg, NEW root, NEW t, NEW path, NEW p, IsRoute(pg, t, path, root, p), Len(path) = 1
    PROVE  p = root
BY RouteFacts

-----------------------------------------------------------------------------
(* What a list of writes leaves in the file.                                *)

\* One write to page p.
IsPut(pg, p, node, out) ==
    /\ DOMAIN out = DOMAIN pg \cup {p} /\ out[p] = node
    /\ \A q \in DOMAIN pg : q # p => out[q] = pg[q]

\* One write.
LEMMA PutOne ==
    ASSUME NEW pg, NEW p, NEW node
    PROVE  IsPut(pg, p, node, Written(pg, <<<<p, node>>>>))
<1>1. PICK ws : ws = <<<<p, node>>>>
  OBVIOUS
<1>2. Len(ws) = 1 /\ DOMAIN ws = 1..1 /\ ws[1] = <<p, node>> /\ ws[1][1] = p /\ ws[1][2] = node
  BY <1>1
<1>3. PICK out : out = Written(pg, ws)
  OBVIOUS
<1>4. IsWritten(pg, ws, out)
  BY <1>2, <1>3, WrittenPages
<1>5. Targets(ws) = {p}
  <2>1. \A i \in 1..1 : i = 1
    OBVIOUS
  <2> QED BY <1>2, <2>1 DEF Targets
<1>6. out[p] = node
  <2>1. PICK i \in 1..Len(ws) : ws[i][1] = p /\ out[p] = ws[i][2]
    BY <1>4, <1>5 DEF IsWritten
  <2>2. i = 1
    BY <1>2, <2>1
  <2> QED BY <1>2, <2>1, <2>2
<1>7. DOMAIN out = DOMAIN pg \cup {p} /\ \A q \in DOMAIN pg : q # p => out[q] = pg[q]
  BY <1>4, <1>5 DEF IsWritten
<1> QED BY <1>1, <1>3, <1>6, <1>7 DEF IsPut

\* One write after the others.
LEMMA PutNext ==
    ASSUME NEW pg, NEW S, NEW ws \in Seq(S), NEW p, NEW node, <<p, node>> \in S
    PROVE  IsPut(Written(pg, ws), p, node, Written(pg, ws \o <<<<p, node>>>>))
<1>1. PICK u : u = <<<<p, node>>>>
  OBVIOUS
<1>2. u \in Seq(S)
  BY <1>1
<1>3. Written(pg, ws \o u) = Written(Written(pg, ws), u)
  BY <1>2, WrittenConcat
<1>4. IsPut(Written(pg, ws), p, node, Written(Written(pg, ws), u))
  BY <1>1, PutOne
<1> QED BY <1>1, <1>3, <1>4

\* Two lists of one write each.
LEMMA OneAndOne ==
    ASSUME NEW a, NEW b
    PROVE  <<a>> \o <<b>> = <<a, b>>
<1>1. PICK S, u, w, z : S = {a, b} /\ u = <<a>> /\ w = <<b>> /\ z = <<a, b>>
  OBVIOUS
<1>2. /\ u \in Seq(S) /\ w \in Seq(S) /\ z \in Seq(S) /\ Len(u) = 1 /\ Len(w) = 1 /\ Len(z) = 2
      /\ u[1] = a /\ w[1] = b /\ z[1] = a /\ z[2] = b
  BY <1>1
<1>3. /\ u \o w \in Seq(S) /\ Len(u \o w) = Len(u) + Len(w)
      /\ \A i \in 1..(Len(u) + Len(w)) : (u \o w)[i] = IF i <= Len(u) THEN u[i] ELSE w[i - Len(u)]
  BY <1>2, ConcatProperties
<1>4. Len(u \o w) = 2 /\ \A i \in 1..2 : (u \o w)[i] = IF i <= 1 THEN u[i] ELSE w[i - 1]
  BY <1>2, <1>3
<1>5. \A i \in 1..2 : (i = 1 /\ i <= 1) \/ (i = 2 /\ ~(i <= 1) /\ i - 1 = 1)
  OBVIOUS
<1>6. \A i \in 1..2 : (u \o w)[i] = z[i]
  BY <1>2, <1>4, <1>5
<1>7. u \o w = z
  BY <1>2, <1>3, <1>4, <1>6, SeqEqual
<1> QED BY <1>1, <1>7

\* A write after two others.
LEMMA TwoAndOne ==
    ASSUME NEW a, NEW b, NEW c
    PROVE  <<a, b>> \o <<c>> = <<a, b, c>>
<1>1. PICK S, u, w, z : S = {a, b, c} /\ u = <<a, b>> /\ w = <<c>> /\ z = <<a, b, c>>
  OBVIOUS
<1>2. /\ u \in Seq(S) /\ w \in Seq(S) /\ z \in Seq(S) /\ Len(u) = 2 /\ Len(w) = 1 /\ Len(z) = 3
      /\ u[1] = a /\ u[2] = b /\ w[1] = c /\ z[1] = a /\ z[2] = b /\ z[3] = c
  BY <1>1
<1>3. /\ u \o w \in Seq(S) /\ Len(u \o w) = Len(u) + Len(w)
      /\ \A i \in 1..(Len(u) + Len(w)) : (u \o w)[i] = IF i <= Len(u) THEN u[i] ELSE w[i - Len(u)]
  BY <1>2, ConcatProperties
<1>4. Len(u \o w) = 3 /\ \A i \in 1..3 : (u \o w)[i] = IF i <= 2 THEN u[i] ELSE w[i - 2]
  BY <1>2, <1>3
<1>5. \A i \in 1..3 : (i = 1 /\ i <= 2) \/ (i = 2 /\ i <= 2) \/ (i = 3 /\ ~(i <= 2) /\ i - 2 = 1)
  OBVIOUS
<1>6. \A i \in 1..3 : (u \o w)[i] = z[i]
  BY <1>2, <1>4, <1>5
<1>7. u \o w = z
  BY <1>2, <1>3, <1>4, <1>6, SeqEqual
<1> QED BY <1>1, <1>7

\* Two writes, and three.
LEMMA PutTwo ==
    ASSUME NEW pg, NEW p, NEW node, NEW q, NEW other
    PROVE  \E out : /\ IsPut(pg, p, node, out)
                    /\ IsPut(out, q, other, Written(pg, <<<<p, node>>, <<q, other>>>>))
<1>1. PICK S : S = {<<p, node>>, <<q, other>>}
  OBVIOUS
<1>2. <<<<p, node>>>> \in Seq(S) /\ <<q, other>> \in S
  BY <1>1
<1>3. <<<<p, node>>>> \o <<<<q, other>>>> = <<<<p, node>>, <<q, other>>>>
  BY OneAndOne
<1>4. IsPut(pg, p, node, Written(pg, <<<<p, node>>>>))
  BY PutOne
<1>5. IsPut(Written(pg, <<<<p, node>>>>), q, other, Written(pg, <<<<p, node>>, <<q, other>>>>))
  BY <1>2, <1>3, PutNext
<1> QED BY <1>4, <1>5

\* Three writes, one after the other.
LEMMA PutThree ==
    ASSUME NEW pg, NEW p, NEW node, NEW q, NEW other, NEW r, NEW third
    PROVE  \E o1, o2 : /\ IsPut(pg, p, node, o1) /\ IsPut(o1, q, other, o2)
                       /\ IsPut(o2, r, third, Written(pg, <<<<p, node>>, <<q, other>>, <<r, third>>>>))
<1>1. PICK S : S = {<<p, node>>, <<q, other>>, <<r, third>>}
  OBVIOUS
<1>2. <<<<p, node>>, <<q, other>>>> \in Seq(S) /\ <<r, third>> \in S
  BY <1>1
<1>3. <<<<p, node>>, <<q, other>>>> \o <<<<r, third>>>> = <<<<p, node>>, <<q, other>>, <<r, third>>>>
  BY TwoAndOne
<1>4. PICK o1 : IsPut(pg, p, node, o1) /\ IsPut(o1, q, other, Written(pg, <<<<p, node>>, <<q, other>>>>))
  BY PutTwo
<1>5. IsPut(Written(pg, <<<<p, node>>, <<q, other>>>>), r, third, Written(pg, <<<<p, node>>, <<q, other>>, <<r, third>>>>))
  BY <1>2, <1>3, PutNext
<1> QED BY <1>4, <1>5

\* Writes to pages that are there already.
Overwrites(pg, ws) ==
    /\ ws \in Seq(AnyWrite)
    /\ \A i \in 1..Len(ws) : ws[i][1] \in DOMAIN pg /\ ws[i][2].id \in {ws[i][1], None}

\* Writes to pages of the file leave a file.
LEMMA OverwritesAreOrderly ==
    ASSUME NEW pg, IsFile(pg), NEW ws, Overwrites(pg, ws)
    PROVE  Orderly(Len(pg), ws)
<1>1. DOMAIN pg = 1..Len(pg) /\ Len(pg) \in Nat
  BY FileFacts
<1>2. ws \in Seq(AnyWrite) /\ \A i \in 1..Len(ws) : ws[i][1] \in 1..Len(pg) /\ ws[i][2].id \in {ws[i][1], None}
  BY <1>1 DEF Overwrites
<1>3. Len(ws) \in Nat
  BY <1>2, LenProperties
<1>4. Grows(Len(pg), ws, 0)
  <2>1. 0 \in 0..Len(ws) /\ \A i \in 1..0 : FALSE
    BY <1>3
  <2>2. \A i \in 1..Len(ws) : ws[i][1] <= Len(pg) + 0
    BY <1>1, <1>2
  <2> QED BY <2>1, <2>2 DEF Grows
<1>5. 0 \in Nat
  OBVIOUS
<1> QED BY <1>2, <1>4, <1>5 DEF Orderly

\* Two lists of such writes are one.
LEMMA OverwritesJoin ==
    ASSUME NEW pg, NEW s, NEW u, Overwrites(pg, s), Overwrites(pg, u)
    PROVE  Overwrites(pg, s \o u)
<1>1. s \in Seq(AnyWrite) /\ u \in Seq(AnyWrite) /\ Len(s) \in Nat /\ Len(u) \in Nat
  BY LenProperties DEF Overwrites
<1>2. /\ s \o u \in Seq(AnyWrite) /\ Len(s \o u) = Len(s) + Len(u)
      /\ \A i \in 1..(Len(s) + Len(u)) : (s \o u)[i] = IF i <= Len(s) THEN s[i] ELSE u[i - Len(s)]
  BY <1>1, ConcatProperties
<1>3. ASSUME NEW i \in 1..(Len(s) + Len(u))
      PROVE  (s \o u)[i][1] \in DOMAIN pg /\ (s \o u)[i][2].id \in {(s \o u)[i][1], None}
  <2>1. CASE i <= Len(s)
    <3>1. i \in 1..Len(s) /\ (s \o u)[i] = s[i]
      BY <1>1, <1>2, <2>1
    <3> QED BY <3>1 DEF Overwrites
  <2>2. CASE ~(i <= Len(s))
    <3>1. i - Len(s) \in 1..Len(u) /\ (s \o u)[i] = u[i - Len(s)]
      BY <1>1, <1>2, <2>2
    <3> QED BY <3>1 DEF Overwrites
  <2> QED BY <2>1, <2>2
<1> QED BY <1>2, <1>3 DEF Overwrites

\* One write to a page that is there.
LEMMA OverwriteOne ==
    ASSUME NEW pg, IsFile(pg), NEW p \in DOMAIN pg, NEW node \in AnyNode, node.id \in {p, None}
    PROVE  Overwrites(pg, <<<<p, node>>>>)
<1>1. p \in Nat \ {0}
  <2>1. DOMAIN pg = 1..Len(pg) /\ Len(pg) \in Nat
    BY FileFacts
  <2> QED BY <2>1
<1>2. PICK N : N = AnyNode
  OBVIOUS
<1>3. <<p, node>> \in (Nat \ {0}) \X N
  BY <1>1, <1>2
<1>4. <<p, node>> \in AnyWrite
  BY <1>2, <1>3 DEF AnyWrite
<1>5. PICK w : w = <<p, node>>
  OBVIOUS
<1>6. w \in AnyWrite /\ w[1] = p /\ w[2] = node
  BY <1>4, <1>5
<1>7. <<w>> \in Seq(AnyWrite) /\ Len(<<w>>) = 1 /\ <<w>>[1] = w
  BY <1>6
<1>8. \A i \in 1..1 : i = 1
  OBVIOUS
<1>9. \A i \in 1..Len(<<w>>) : <<w>>[i][1] \in DOMAIN pg /\ <<w>>[i][2].id \in {<<w>>[i][1], None}
  BY <1>6, <1>7, <1>8
<1> QED BY <1>5, <1>7, <1>9 DEF Overwrites

\* Keys that move are keys.
LEMMA ShiftedKeys ==
    ASSUME IsFile(pages), NEW ws \in Seq(AnyWrite)
    PROVE  Shifted(ws) \subseteq Keys
<1>1. ASSUME NEW w \in ToSet(ws), w[2].leaf, NEW it \in ToSet(w[2].items) PROVE it.key \in Keys
  <2>1. PICK i \in 1..Len(ws) : w = ws[i]
    BY LenProperties DEF ToSet
  <2>2. w[2] \in AnyNode
    BY <2>1, WriteFacts
  <2>3. IsNode(w[2])
    BY <2>2, AnyNodeIsNode
  <2>4. DOMAIN w[2].items = 1..Len(w[2].items) /\ \A m \in 1..Len(w[2].items) : w[2].items[m].key \in Keys
    BY <1>1, <2>3, NodeFields
  <2>5. PICK m \in DOMAIN w[2].items : it = w[2].items[m]
    BY DEF ToSet
  <2> QED BY <2>4, <2>5
<1>2. \A q : KeysUnder(q) \subseteq Keys
  BY DEF KeysUnder
<1> QED BY <1>1, <1>2 DEF Shifted

=============================================================================
