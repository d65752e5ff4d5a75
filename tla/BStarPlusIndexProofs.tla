----------------------- MODULE BStarPlusIndexProofs -----------------------
(***************************************************************************)
(* What holds of BStarPlusIndex for all keys and capacities, after any mix *)
(* of insert and erase, with a kill between any two page writes.           *)
(*                                                                         *)
(* The invariant (IInv) says that there is a tree in the sense of          *)
(* BStarPlusTree: the one in the file when no call is in progress, and the *)
(* one of the file and the node in memory when a helper is still to run.   *)
(* Each helper then has a lemma: the node it begins with, the change of the*)
(* tree that it makes, the pages that it writes.                           *)
(*                                                                         *)
(* A second invariant (FInv) is of the file alone and holds after a kill as*)
(* well: each node in it has nodes for children.  It rests on the order of *)
(* the page writes (Sound).                                                *)
(***************************************************************************)
EXTENDS BStarPlusTree

-----------------------------------------------------------------------------
(* The invariant.                                                           *)

MetaType(D) == [root : D \cup {None}, first : D \cup {None}, height : Nat, size : Nat, kind : KeyKinds]

Typed ==
    /\ IsFile(pages)
    /\ meta \in MetaType(DOMAIN pages) /\ file \in MetaType(DOMAIN pages)
    /\ held \subseteq Keys /\ IsFiniteSet(held)
    /\ moved \subseteq Keys /\ busy \in Keys \cup {None}

\* A call in progress.
IsCall(D, c) ==
    \E fn \in {"split", "underflow", "child_removed"}, node \in AnyNode, path \in Seq(D) : c = Call(fn, node, path)

\* What the metadata say of the tree.
Tells(m, hd, t) ==
    /\ m.root \in t.nodes
    /\ t.level[m.root] = m.height /\ t.under[m.root] = hd /\ t.first[m.root] = m.first
    /\ m.size = Cardinality(hd)

\* Between calls the file holds the tree of the keys held.
Rests(pg, m, hd) ==
    IF m.root = None \/ m.height = 0
    THEN hd = {} /\ m = NoTree(m.kind)
    ELSE \E t : Holds(m.kind, pg, m.root, t, None, None) /\ InFile(pg, t) /\ Tells(m, hd, t)

\* The pages, with the node of the call as it is in memory.
With(pg, node) == [pg EXCEPT ![node.id] = node]

LeastOf(kind, leaf) == (2 * MaxOf(kind, leaf) + 2) \div 3

\* Which node each helper is called for; f as in Kept.
Due(fn, kind, pg, t, n, path, f) ==
    \/ fn = "split" /\ f = None /\ Count(pg, n) = MaxOf(kind, pg[n].leaf) + 1
    \/ /\ fn = "underflow" /\ f = t.first[n] /\ Count(pg, n) < LeastOf(kind, pg[n].leaf) /\ Len(path) # 1
    \/ /\ fn = "child_removed" /\ f = t.first[n] /\ ~pg[n].leaf /\ Count(pg, n) <= MaxOf(kind, pg[n].leaf)

\* During a call the file and the node in memory hold such a tree but for the
\* size of that node and the separator before its subtree.
WorksOn(pg, m, hd, c, t, f) ==
    /\ Holds(m.kind, pg, m.root, t, c.node.id, f) /\ InFile(pg, t) /\ Tells(m, hd, t)
    /\ IsRoute(pg, t, c.path, m.root, c.node.id)
    /\ Due(c.fn, m.kind, pg, t, c.node.id, c.path, f)

Works(pg, m, hd, c) == \E t, f : WorksOn(With(pg, c.node), m, hd, c, t, f)

CallOK(pg, m, hd, c) ==
    \/ c = Killed
    \/ c = Idle /\ Rests(pg, m, hd)
    \/ IsCall(DOMAIN pg, c) /\ c.node.id \in DOMAIN pg /\ Works(pg, m, hd, c)

IInv == Typed /\ CallOK(pages, meta, held, call)

\* What a step by Do must leave.
Leaves(writes, m, hd, c) ==
    /\ Orderly(Len(pages), writes)
    /\ m \in MetaType(DOMAIN Written(pages, writes))
    /\ CallOK(Written(pages, writes), m, hd, c)

\* The metadata are as good for a longer file.
LEMMA MetaTypeGrows ==
    ASSUME NEW D, NEW E, D \subseteq E, NEW m \in MetaType(D)
    PROVE  m \in MetaType(E)
BY DEF MetaType

\* A step by Do keeps the invariant, whether it is completed or a kill cuts it short.
LEMMA DoKeeps ==
    ASSUME Typed, NEW k \in Keys \cup {None}, NEW low, NEW high, NEW m, NEW c, Do(k, low, high, m, c),
           low \in Seq(AnyWrite), NEW hd, hd = held', hd \subseteq Keys, IsFiniteSet(hd),
           Leaves(low \o high, m, hd, c)
    PROVE  IInv'
<1> DEFINE ws == low \o high
           out == Written(pages, ws)
<1>1. IsFile(pages) /\ Orderly(Len(pages), ws) /\ m \in MetaType(DOMAIN out) /\ CallOK(out, m, hd, c)
  BY DEF Typed, Leaves
<1>2. IsFile(out) /\ DOMAIN pages \subseteq DOMAIN out
  BY <1>1, OrderlyFile
<1>3. Shifted(low) \subseteq Keys /\ moved \subseteq Keys
  BY <1>1, ShiftedKeys DEF Typed
<1>4. file \in MetaType(DOMAIN pages)
  BY DEF Typed
<1>5. Len(pages) \in Nat
  BY <1>1, FileFacts
<1> HIDE DEF ws, out
<1>6. CASE pages' = out /\ IF c = Idle THEN Return(m) ELSE Continue(k, m, c, moved \cup Shifted(low))
  <2>1. meta' = m /\ call' = c /\ (file' = m \/ file' = file) /\ busy' \in Keys \cup {None} /\ moved' \subseteq Keys
    BY <1>3, <1>6 DEF Return, Continue
  <2>2. IsFile(pages') /\ meta' \in MetaType(DOMAIN pages') /\ file' \in MetaType(DOMAIN pages')
    BY <1>1, <1>2, <1>4, <1>6, <2>1, MetaTypeGrows
  <2>3. Typed'
    BY <2>1, <2>2 DEF Typed
  <2>4. CallOK(pages', meta', held', call')
    BY <1>1, <1>6, <2>1
  <2>5. CallOK(pages, meta, held, call)'
    BY <2>4
  <2> QED BY <2>3, <2>5 DEF IInv
<1>7. CASE /\ \E n \in 1..Len(ws) : pages' = Written(pages, SubSeq(ws, 1, n))
           /\ Reopen(k, moved \cup Shifted(low))
  <2>1. PICK n \in 1..Len(ws) : pages' = Written(pages, SubSeq(ws, 1, n))
    BY <1>7
  <2>2. Orderly(Len(pages), SubSeq(ws, 1, n))
    BY <1>1, <1>5, OrderlyPart
  <2>3. PICK pn : pn = Written(pages, SubSeq(ws, 1, n))
    OBVIOUS
  <2>4. IsFile(pn) /\ DOMAIN pages \subseteq DOMAIN pn
    BY <1>1, <2>2, <2>3, OrderlyFile
  <2>5. meta' = file /\ file' = file /\ call' = Killed /\ busy' \in Keys \cup {None} /\ moved' \subseteq Keys
    BY <1>3, <1>7 DEF Reopen
  <2>6. IsFile(pages') /\ meta' \in MetaType(DOMAIN pages') /\ file' \in MetaType(DOMAIN pages')
    BY <1>4, <2>1, <2>3, <2>4, <2>5, MetaTypeGrows
  <2>7. Typed'
    BY <2>5, <2>6 DEF Typed
  <2>8. CallOK(pages, meta, held, call)'
    BY <2>5 DEF CallOK
  <2> QED BY <2>7, <2>8 DEF IInv
<1> QED BY <1>6, <1>7 DEF Do, ws, out

\* A file with one page changed in memory.
LEMMA WithFacts ==
    ASSUME NEW pg, IsFile(pg), NEW node \in AnyNode, node.id \in DOMAIN pg, NEW out, out = With(pg, node)
    PROVE  /\ IsFile(out) /\ DOMAIN out = DOMAIN pg /\ Len(out) = Len(pg)
           /\ out[node.id] = node /\ \A p \in DOMAIN pg \ {node.id} : out[p] = pg[p]
<1>1. pg \in Seq(AnyNode) /\ DOMAIN pg = 1..Len(pg) /\ Len(pg) \in Nat
  BY FileFacts DEF IsFile
<1>2. PICK i : i = node.id /\ i \in 1..Len(pg)
  BY <1>1
<1>3. out = [pg EXCEPT ![i] = node]
  BY <1>2 DEF With
<1>4. /\ out \in Seq(AnyNode) /\ Len(out) = Len(pg)
      /\ \A j \in 1..Len(pg) : out[j] = IF j = i THEN node ELSE pg[j]
  BY <1>1, <1>2, <1>3, ExceptSeq
<1>5. DOMAIN out = 1..Len(pg)
  BY <1>1, <1>3
<1>6. \A p \in DOMAIN out : out[p].id \in {p, None}
  BY <1>1, <1>2, <1>4, <1>5 DEF IsFile
<1> QED BY <1>1, <1>2, <1>4, <1>5, <1>6 DEF IsFile

-----------------------------------------------------------------------------
(* Nodes that the helpers make.                                             *)

\* A node with these fields, its separators apart.
IsMade(node, id, leaf, items, next) ==
    /\ node = [id |-> id, leaf |-> leaf, items |-> items, keys |-> node.keys, next |-> next]
    /\ node.id = id /\ node.leaf = leaf /\ node.items = items /\ node.next = next

\* What the helpers make is a node.
LEMMA MadeIsNode ==
    ASSUME NEW node, NEW id \in Nat \cup {None}, NEW leaf \in BOOLEAN, NEW items, NEW next \in Nat \cup {None},
           IsMade(node, id, leaf, items, next), ItemsOK(leaf, items), node.keys \in Seq(Keys)
    PROVE  node \in AnyNode /\ IsNode(node)
<1>1. node = [id |-> id, leaf |-> leaf, items |-> items, keys |-> node.keys, next |-> next]
  BY DEF IsMade
<1>2. IsNode([id |-> id, leaf |-> leaf, items |-> items, keys |-> node.keys, next |-> next])
  BY NodeIsNode DEF ItemsOK
<1>3. IsNode(node)
  BY <1>1, <1>2
<1> QED BY <1>3, AnyNodeIsNode

\* A node is made of its fields.
LEMMA NodeIsMade ==
    ASSUME NEW X, IsNode(X)
    PROVE  /\ IsMade(X, X.id, X.leaf, X.items, X.next) /\ X.leaf \in BOOLEAN /\ X.keys \in Seq(Keys)
           /\ X.id \in Nat \cup {None} /\ X.next \in Nat \cup {None} /\ ItemsOK(X.leaf, X.items)
<1>1. /\ X = [id |-> X.id, leaf |-> X.leaf, items |-> X.items, keys |-> X.keys, next |-> X.next]
      /\ X.leaf \in BOOLEAN
      /\ X.id \in Nat \cup {None} /\ X.next \in Nat \cup {None}
      /\ X.keys \in Seq(Keys)
      /\ X.leaf => X.items \in Seq({Item(k) : k \in Keys})
      /\ ~X.leaf => X.items \in Seq(Nat)
  BY NodeFields
<1> QED BY <1>1 DEF IsMade, ItemsOK

\* rebuild_internal_keys.
LEMMA RebuiltMade ==
    ASSUME NEW X, NEW id, NEW leaf, NEW old, NEW next, IsMade(X, id, leaf, old, next), NEW pg, NEW items,
           NEW out, out = Rebuilt(pg, X, items)
    PROVE  IsMade(out, id, leaf, items, next) /\ IsRebuilt(pg, out)
<1>1. X = [id |-> id, leaf |-> leaf, items |-> old, keys |-> X.keys, next |-> next]
  BY DEF IsMade
<1> DEFINE ks == [i \in 1..(Len(items) - 1) |-> SubtreeMin(pg, items[i + 1])]
<1>2. out = [X EXCEPT !.items = items, !.keys = ks]
  BY DEF Rebuilt
<1>3. PICK xk : xk = X.keys
  OBVIOUS
<1> HIDE DEF ks
<1>4. PICK Y : Y = [id |-> id, leaf |-> leaf, items |-> old, keys |-> xk, next |-> next]
  OBVIOUS
<1>5. out = [Y EXCEPT !.items = items, !.keys = ks]
  BY <1>1, <1>2, <1>3, <1>4
<1>6. out = [id |-> id, leaf |-> leaf, items |-> items, keys |-> ks, next |-> next]
  BY <1>4, <1>5
<1>7. out.items = items /\ out.keys = ks /\ out.id = id /\ out.leaf = leaf /\ out.next = next
  BY <1>6
<1>8. IsMade(out, id, leaf, items, next)
  BY <1>6, <1>7 DEF IsMade
<1> QED BY <1>7, <1>8 DEF IsRebuilt, ks

\* A node with other items, its separators computed anew if it has any.
LEMMA HoldingMade ==
    ASSUME NEW X, NEW id, NEW leaf, NEW old, NEW next, IsMade(X, id, leaf, old, next), NEW pg, NEW items,
           NEW out, out = Holding(pg, X, items)
    PROVE  /\ IsMade(out, id, leaf, items, next)
           /\ leaf => out.keys = X.keys
           /\ ~leaf => IsRebuilt(pg, out)
<1>1. X = [id |-> id, leaf |-> leaf, items |-> old, keys |-> X.keys, next |-> next] /\ X.leaf = leaf
  BY DEF IsMade
<1>2. CASE leaf
  <2>1. out = [X EXCEPT !.items = items]
    BY <1>1, <1>2 DEF Holding
  <2>2. PICK xk : xk = X.keys
    OBVIOUS
  <2>3. PICK Y : Y = [id |-> id, leaf |-> leaf, items |-> old, keys |-> xk, next |-> next]
    OBVIOUS
  <2>4. out = [Y EXCEPT !.items = items]
    BY <1>1, <2>1, <2>2, <2>3
  <2>5. out = [id |-> id, leaf |-> leaf, items |-> items, keys |-> xk, next |-> next]
    BY <2>3, <2>4
  <2>6. out.items = items /\ out.keys = xk /\ out.id = id /\ out.leaf = leaf /\ out.next = next
    BY <2>5
  <2>7. IsMade(out, id, leaf, items, next)
    BY <2>5, <2>6 DEF IsMade
  <2> QED BY <1>2, <2>2, <2>6, <2>7
<1>3. CASE ~leaf
  <2>1. out = Rebuilt(pg, X, items)
    BY <1>1, <1>3 DEF Holding
  <2>2. IsMade(out, id, leaf, items, next) /\ IsRebuilt(pg, out)
    BY <2>1, RebuiltMade
  <2> QED BY <1>3, <2>2
<1> QED BY <1>2, <1>3

\* A node with other items.
LEMMA ItemsChanged ==
    ASSUME NEW X, NEW id, NEW leaf, NEW old, NEW next, IsMade(X, id, leaf, old, next), NEW items,
           NEW out, out = [X EXCEPT !.items = items]
    PROVE  IsMade(out, id, leaf, items, next) /\ out.keys = X.keys
<1>1. X = [id |-> id, leaf |-> leaf, items |-> old, keys |-> X.keys, next |-> next]
  BY DEF IsMade
<1>2. PICK xk : xk = X.keys
  OBVIOUS
<1>3. PICK Y : Y = [id |-> id, leaf |-> leaf, items |-> old, keys |-> xk, next |-> next]
  OBVIOUS
<1>4. out = [Y EXCEPT !.items = items]
  BY <1>1, <1>2, <1>3
<1>5. out = [id |-> id, leaf |-> leaf, items |-> items, keys |-> xk, next |-> next]
  BY <1>3, <1>4
<1>6. out.items = items /\ out.keys = xk /\ out.id = id /\ out.leaf = leaf /\ out.next = next
  BY <1>5
<1> QED BY <1>2, <1>5, <1>6 DEF IsMade

\* A node with another link.
LEMMA NextChanged ==
    ASSUME NEW X, NEW id, NEW leaf, NEW items, NEW next, IsMade(X, id, leaf, items, next), NEW new,
           NEW out, out = [X EXCEPT !.next = new]
    PROVE  IsMade(out, id, leaf, items, new) /\ out.keys = X.keys
<1>1. X = [id |-> id, leaf |-> leaf, items |-> items, keys |-> X.keys, next |-> next]
  BY DEF IsMade
<1>2. PICK xk : xk = X.keys
  OBVIOUS
<1>3. PICK Y : Y = [id |-> id, leaf |-> leaf, items |-> items, keys |-> xk, next |-> next]
  OBVIOUS
<1>4. out = [Y EXCEPT !.next = new]
  BY <1>1, <1>2, <1>3
<1>5. out = [id |-> id, leaf |-> leaf, items |-> items, keys |-> xk, next |-> new]
  BY <1>3, <1>4
<1>6. out.items = items /\ out.keys = xk /\ out.id = id /\ out.leaf = leaf /\ out.next = new
  BY <1>5
<1> QED BY <1>2, <1>5, <1>6 DEF IsMade

\* A node with another number.
LEMMA IdChanged ==
    ASSUME NEW X, NEW id, NEW leaf, NEW items, NEW next, IsMade(X, id, leaf, items, next), NEW new,
           NEW out, out = [X EXCEPT !.id = new]
    PROVE  IsMade(out, new, leaf, items, next) /\ out.keys = X.keys
<1>1. X = [id |-> id, leaf |-> leaf, items |-> items, keys |-> X.keys, next |-> next]
  BY DEF IsMade
<1>2. PICK xk : xk = X.keys
  OBVIOUS
<1>3. PICK Y : Y = [id |-> id, leaf |-> leaf, items |-> items, keys |-> xk, next |-> next]
  OBVIOUS
<1>4. out = [Y EXCEPT !.id = new]
  BY <1>1, <1>2, <1>3
<1>5. out = [id |-> new, leaf |-> leaf, items |-> items, keys |-> xk, next |-> next]
  BY <1>3, <1>4
<1>6. out.items = items /\ out.keys = xk /\ out.id = new /\ out.leaf = leaf /\ out.next = next
  BY <1>5
<1> QED BY <1>2, <1>5, <1>6 DEF IsMade

\* A file is as long as its last page number says.
LEMMA WrittenLen ==
    ASSUME NEW pg, NEW ws, NEW n \in Nat, DOMAIN Written(pg, ws) = 1..n
    PROVE  Len(Written(pg, ws)) = n
<1>1. PICK out : out = Written(pg, ws)
  OBVIOUS
<1>2. DOMAIN out = 1..n
  BY <1>1
<1>3. out = [p \in DOMAIN out |-> out[p]]
  BY <1>1 DEF Written
<1>4. PICK S : S = {out[p] : p \in 1..n}
  OBVIOUS
<1>5. out \in [1..n -> S]
  BY <1>2, <1>3, <1>4
<1>6. out \in Seq(S)
  BY <1>5, SeqDef
<1>7. Len(out) \in Nat /\ DOMAIN out = 1..Len(out)
  BY <1>6, LenProperties
<1>8. Len(out) = n
  BY <1>2, <1>7
<1> QED BY <1>1, <1>8

-----------------------------------------------------------------------------
(* A helper that is to run.                                                 *)

\* mem is the file with the node of the call, page n, as it is in memory.
Mid(mem, n, t, f) ==
    /\ Typed
    /\ n = call.node.id /\ n \in DOMAIN pages /\ mem[n] = call.node
    /\ \A p \in DOMAIN pages \ {n} : mem[p] = pages[p]
    /\ IsFile(mem) /\ DOMAIN mem = DOMAIN pages /\ Len(mem) = Len(pages)
    /\ Holds(meta.kind, mem, meta.root, t, n, f) /\ InFile(mem, t) /\ Tells(meta, held, t)
    /\ IsRoute(mem, t, call.path, meta.root, n)
    /\ Due(call.fn, meta.kind, mem, t, n, call.path, f)

\* When a helper is to run there is such a tree.
LEMMA CallFacts ==
    ASSUME IInv, call.fn \in {"split", "underflow", "child_removed"}
    PROVE  \E mem, n, t, f : Mid(mem, n, t, f)
<1>1. Typed /\ CallOK(pages, meta, held, call) /\ IsFile(pages)
  BY DEF IInv, Typed
<1>2. call # Killed /\ call # Idle
  BY DEF Killed, Idle
<1>3. call.node \in AnyNode /\ call.node.id \in DOMAIN pages /\ Works(pages, meta, held, call)
  BY <1>1, <1>2 DEF CallOK, IsCall, Call
<1>4. PICK mem : mem = With(pages, call.node)
  OBVIOUS
<1>5. /\ IsFile(mem) /\ DOMAIN mem = DOMAIN pages /\ Len(mem) = Len(pages)
      /\ mem[call.node.id] = call.node /\ \A p \in DOMAIN pages \ {call.node.id} : mem[p] = pages[p]
  BY <1>1, <1>3, <1>4, WithFacts
<1>6. PICK t, f : WorksOn(mem, meta, held, call, t, f)
  BY <1>3, <1>4 DEF Works
<1>7. Mid(mem, call.node.id, t, f)
  BY <1>1, <1>3, <1>5, <1>6 DEF Mid, WorksOn
<1>. QED
  BY <1>7

\* A tree that is exact is so with any exception.
LEMMA HoldsAny ==
    ASSUME NEW kind, NEW pg, NEW root, NEW t, Holds(kind, pg, root, t, None, None), NEW g
    PROVE  Holds(kind, pg, root, t, None, g)
<1>1. Tree(pg, root, t) /\ NoneChildless(pg, t) /\ \A p \in t.nodes : NodeOK(pg, t, p)
  BY HoldsFacts
<1>2. None \notin t.nodes
  BY <1>1 DEF Tree
<1>3. ASSUME NEW p \in t.nodes, ~pg[p].leaf  PROVE Kept(pg, t, p, g)
  <2>1. Kept(pg, t, p, None) /\ InternalShape(pg, t, p)
    BY <1>1, <1>2, <1>3, InternalFacts DEF Holds
  <2>2. \A q \in t.nodes : t.first[q] # None
    BY <1>1, <1>2, FirstIsLeaf
  <2>3. \A i \in 1..(Size(pg, p) - 1) : i + 1 \in 1..Size(pg, p)
    BY <2>1 DEF InternalShape
  <2>4. \A i \in 1..(Size(pg, p) - 1) : t.first[pg[p].items[i + 1]] # None
    BY <2>1, <2>2, <2>3 DEF InternalShape
  <2>. QED
    BY <2>1, <2>4 DEF Kept
<1>. QED
  BY <1>2, <1>3 DEF Holds

\* The siblings left and right are a pair that the helper of page n may write.
IsPair(mem, t, n, P, j, left, right) ==
    /\ AreSiblings(mem, t, P, j, left.id, right.id)
    /\ left = mem[left.id] /\ right = mem[right.id]
    /\ n \in {left.id, right.id}

\* The node of a call that is not the root has a parent, and a sibling to work with.
LEMMA CallPair ==
    ASSUME NEW mem, NEW n, NEW t, NEW f, Mid(mem, n, t, f), ~IsRoot
    PROVE  \E P : /\ \E j : IsParent(mem, t, call.path, meta.root, P, j, n)
                  /\ P = Last(ParentPath) /\ Parent = mem[P] /\ n # meta.root
                  /\ HasLeft \/ HasRight
                  /\ HasRight => \E j : IsPair(mem, t, n, P, j, call.node, RightSibling)
                  /\ HasLeft => \E j : IsPair(mem, t, n, P, j, LeftSibling, call.node)
<1>1. /\ Holds(meta.kind, mem, meta.root, t, n, f) /\ IsRoute(mem, t, call.path, meta.root, n)
      /\ n = call.node.id /\ mem[n] = call.node /\ DOMAIN mem = DOMAIN pages
      /\ \A p \in DOMAIN pages \ {n} : mem[p] = pages[p]
  BY DEF Mid
<1>2. /\ Tree(mem, meta.root, t)
      /\ \A p \in t.nodes : NodeOK(mem, t, p) /\ Size(mem, p) \in Nat /\ mem[p].id = p
      /\ \A p \in t.nodes \ {n} : ~mem[p].leaf => Size(mem, p) >= 2
  BY <1>1, HoldsFacts
<1>3. Len(call.path) # 1
  BY DEF IsRoot
<1>4. PICK P, j : IsParent(mem, t, call.path, meta.root, P, j, n)
  BY <1>1, <1>2, <1>3, RouteParent
<1>5. n # meta.root
  BY <1>1, <1>2, <1>3, RouteParent
<1>6. /\ P = Last(ParentPath) /\ P \in t.nodes /\ ~mem[P].leaf /\ P # n
      /\ j \in 1..Size(mem, P) /\ mem[P].items[j] = n
  BY <1>4 DEF IsParent, ParentPath
<1>7. t.nodes \subseteq DOMAIN pages
  BY <1>1, <1>2 DEF Tree
<1>8. Parent = mem[P]
  BY <1>1, <1>6, <1>7 DEF Parent
<1>9. InternalShape(mem, t, P)
  BY <1>2, <1>6, InternalFacts
<1>10. Index(mem[P], mem[P].items[j]) = j
  BY <1>6, <1>9, IndexFacts
<1>11. Position = j
  BY <1>1, <1>6, <1>8, <1>10 DEF Position
<1>12. Size(mem, P) \in Nat /\ Size(mem, P) >= 2 /\ Size(mem, P) = Len(mem[P].items)
  BY <1>2, <1>6 DEF Size
<1>13. HasLeft \/ HasRight
  BY <1>6, <1>8, <1>11, <1>12 DEF HasLeft, HasRight
<1>14. /\ \A i \in 1..Size(mem, P) : mem[P].items[i] \in t.nodes
       /\ \A i, m \in 1..Size(mem, P) : mem[P].items[i] = mem[P].items[m] => i = m
  BY <1>9 DEF InternalShape
<1>15. HasRight => IsPair(mem, t, n, P, j, call.node, RightSibling)
  <2>. SUFFICES ASSUME HasRight PROVE IsPair(mem, t, n, P, j, call.node, RightSibling)
    OBVIOUS
  <2>1. j + 1 \in 1..Size(mem, P) /\ j \in 1..(Size(mem, P) - 1) /\ j + 1 # j
    BY <1>6, <1>8, <1>11, <1>12 DEF HasRight
  <2>2. PICK r : r = mem[P].items[j + 1]
    OBVIOUS
  <2>3. r \in t.nodes /\ r # n
    BY <1>6, <1>14, <2>1, <2>2
  <2>4. RightSibling = pages[r]
    BY <1>8, <1>11, <2>2 DEF RightSibling
  <2>5. RightSibling = mem[r] /\ mem[r].id = r
    BY <1>1, <1>2, <1>7, <2>3, <2>4
  <2>. QED
    BY <1>1, <1>6, <2>1, <2>2, <2>5 DEF IsPair, AreSiblings
<1>16. HasLeft => IsPair(mem, t, n, P, j - 1, LeftSibling, call.node)
  <2>. SUFFICES ASSUME HasLeft PROVE IsPair(mem, t, n, P, j - 1, LeftSibling, call.node)
    OBVIOUS
  <2>1. j - 1 \in 1..Size(mem, P) /\ j - 1 \in 1..(Size(mem, P) - 1) /\ j - 1 # j /\ (j - 1) + 1 = j
    BY <1>6, <1>11, <1>12 DEF HasLeft
  <2>2. PICK l : l = mem[P].items[j - 1]
    OBVIOUS
  <2>3. l \in t.nodes /\ l # n
    BY <1>6, <1>14, <2>1, <2>2
  <2>4. LeftSibling = pages[l]
    BY <1>8, <1>11, <2>2 DEF LeftSibling
  <2>5. LeftSibling = mem[l] /\ mem[l].id = l
    BY <1>1, <1>2, <1>7, <2>3, <2>4
  <2>. QED
    BY <1>1, <1>6, <2>1, <2>2, <2>5 DEF IsPair, AreSiblings
<1>. QED
  BY <1>4, <1>5, <1>6, <1>8, <1>13, <1>15, <1>16

-----------------------------------------------------------------------------
(* What two siblings hold is shared out between them in another way.        *)

\* The number of keys of a node is one that a page may have.
Proper(node) == 1 <= KeyCount(node) /\ KeyCount(node) <= MaxKeys(node)

\* Nodes a and b are to be written for left and right.
PairNew(left, right, a, b) ==
    /\ IsMade(a, left.id, left.leaf, a.items, left.next) /\ IsMade(b, right.id, left.leaf, b.items, right.next)
    /\ ItemsOK(left.leaf, a.items) /\ ItemsOK(left.leaf, b.items)
    /\ \E e : IsJoin(left.items, right.items, e) /\ IsJoin(a.items, b.items, e)
    /\ left.leaf => a.keys = left.keys /\ b.keys = right.keys
    /\ ~left.leaf => IsRebuilt(pages, a) /\ IsRebuilt(pages, b)
    /\ Proper(a) /\ Proper(b)

\* Append is a list of one write more.
LEMMA AppendToTwo ==
    ASSUME NEW x, NEW y, NEW z, NEW low, low = <<x, y>>
    PROVE  Append(low, z) = low \o <<z>>
<1>1. PICK S : S = {x, y, z}
  OBVIOUS
<1>2. low \in Seq(S) /\ z \in S
  BY <1>1
<1>. QED
  BY <1>2, AppendIsConcat

\* The three pages that are written.
IsTriple(P, l, r, a, b, pn, o2, out) ==
    /\ DOMAIN o2 = DOMAIN pages /\ DOMAIN out = DOMAIN pages /\ Len(o2) = Len(pages)
    /\ o2[l] = a /\ o2[r] = b /\ \A q \in DOMAIN pages \ {l, r} : o2[q] = pages[q]
    /\ out[l] = a /\ out[r] = b /\ out[P] = pn /\ \A q \in DOMAIN pages \ {l, r, P} : out[q] = pages[q]

ToWrite(P, l, r, a, b, pn, low) ==
    /\ P \in DOMAIN pages /\ l \in DOMAIN pages /\ r \in DOMAIN pages /\ l # r /\ P # l /\ P # r
    /\ a.id = l /\ b.id = r /\ pn.id = P /\ low = <<Write(a), Write(b)>>

\* Two siblings and their parent are written.
LEMMA TripleWritten ==
    ASSUME IsFile(pages), NEW P, NEW l, NEW r, NEW a, NEW b, NEW pn, NEW low, ToWrite(P, l, r, a, b, pn, low)
    PROVE  IsTriple(P, l, r, a, b, pn, Written(pages, low), Written(pages, Append(low, Write(pn))))
<1>0. /\ P \in DOMAIN pages /\ l \in DOMAIN pages /\ r \in DOMAIN pages /\ l # r /\ P # l /\ P # r
      /\ a.id = l /\ b.id = r /\ pn.id = P /\ low = <<Write(a), Write(b)>>
  BY DEF ToWrite
<1>1. Write(a) = <<l, a>> /\ Write(b) = <<r, b>> /\ Write(pn) = <<P, pn>>
  BY <1>0 DEF Write
<1>2. low \o <<Write(pn)>> = <<Write(a), Write(b), Write(pn)>>
  BY <1>0, TwoAndOne
<1>3. Append(low, Write(pn)) = <<Write(a), Write(b), Write(pn)>>
  BY <1>0, <1>2, AppendToTwo
<1>4. PICK o2 : o2 = Written(pages, low)
  OBVIOUS
<1>5. PICK out : out = Written(pages, <<Write(a), Write(b), Write(pn)>>)
  OBVIOUS
<1>6. low = <<<<l, a>>, <<r, b>>>>
  BY <1>0, <1>1
<1>7. PICK x : IsPut(pages, l, a, x) /\ IsPut(x, r, b, o2)
  BY <1>4, <1>6, PutTwo
<1>8. PICK y, z : IsPut(pages, l, a, y) /\ IsPut(y, r, b, z) /\ IsPut(z, P, pn, out)
  BY <1>1, <1>5, PutThree
<1>9. DOMAIN x = DOMAIN pages /\ DOMAIN o2 = DOMAIN pages
  BY <1>0, <1>7 DEF IsPut
<1>10. o2[l] = a /\ o2[r] = b /\ \A q \in DOMAIN pages \ {l, r} : o2[q] = pages[q]
  BY <1>0, <1>7, <1>9 DEF IsPut
<1>11. DOMAIN y = DOMAIN pages /\ DOMAIN z = DOMAIN pages /\ DOMAIN out = DOMAIN pages
  BY <1>0, <1>8 DEF IsPut
<1>12. z[l] = a /\ z[r] = b /\ \A q \in DOMAIN pages \ {l, r} : z[q] = pages[q]
  BY <1>0, <1>8, <1>11 DEF IsPut
<1>13. out[P] = pn /\ \A q \in DOMAIN pages : q # P => out[q] = z[q]
  BY <1>8, <1>11 DEF IsPut
<1>14. out[l] = a /\ out[r] = b /\ \A q \in DOMAIN pages \ {l, r, P} : out[q] = pages[q]
  BY <1>0, <1>12, <1>13
<1>15. DOMAIN o2 = 1..Len(pages) /\ Len(pages) \in Nat
  BY <1>9, FileFacts
<1>16. Len(o2) = Len(pages)
  BY <1>4, <1>15, WrittenLen
<1>17. IsTriple(P, l, r, a, b, pn, o2, out)
  BY <1>9, <1>10, <1>11, <1>13, <1>14, <1>16 DEF IsTriple
<1>. QED
  BY <1>3, <1>4, <1>5, <1>17

\* Proper says of a node what Sized says of a page.
LEMMA ProperIsSized ==
    ASSUME NEW pg, NEW p
    PROVE  Sized(meta.kind, pg, p) <=> Proper(pg[p])
BY DEF Sized, Proper, Count, Size, KeyCount, MaxKeys, MaxOf

\* The tree after the three writes.
PairDone(t, nt, P, out, g) ==
    /\ Holds(meta.kind, out, meta.root, nt, None, g) /\ SameTop(t, nt, meta.root)
    /\ nt.nodes = t.nodes /\ nt.level = t.level /\ nt.first[P] = t.first[P]

\* The tree after that.
LEMMA TripleHolds ==
    ASSUME KeysAssumption, NEW mem, NEW n, NEW t, NEW f, Mid(mem, n, t, f),
           NEW P, NEW j, NEW left, NEW right, IsPair(mem, t, n, P, j, left, right), P # n, Parent = mem[P],
           NEW g, Hands(t, n, f, P, g),
           NEW a, NEW b, PairNew(left, right, a, b),
           NEW o2, NEW pn, pn = Rebuilt(o2, Parent, Parent.items),
           NEW out, IsTriple(P, left.id, right.id, a, b, pn, o2, out)
    PROVE  \E nt : PairDone(t, nt, P, out, g)
<1>1. /\ Holds(meta.kind, mem, meta.root, t, n, f) /\ InFile(mem, t) /\ Len(mem) = Len(pages)
      /\ IsFile(mem) /\ DOMAIN mem = DOMAIN pages /\ \A q \in DOMAIN pages \ {n} : mem[q] = pages[q]
  BY DEF Mid
<1>2. PICK l, r : l = left.id /\ r = right.id
  OBVIOUS
<1>3. /\ AreSiblings(mem, t, P, j, l, r) /\ left = mem[l] /\ right = mem[r] /\ n \in {l, r}
  BY <1>2 DEF IsPair
<1>4. /\ Tree(mem, meta.root, t) /\ t.nodes \subseteq DOMAIN pages
      /\ \A p \in t.nodes : NodeOK(mem, t, p) /\ mem[p].id = p
  BY <1>1, HoldsFacts DEF Tree
<1>5. SiblingShape(mem, t, P, l, r)
  BY <1>3, <1>4, SiblingFacts
<1>6. l \in t.nodes /\ r \in t.nodes /\ l # r /\ P \notin {l, r} /\ P \in t.nodes
  BY <1>3, <1>5 DEF SiblingShape, AreSiblings
<1>7. /\ out[l] = a /\ out[r] = b /\ out[P] = pn /\ DOMAIN out = DOMAIN pages /\ DOMAIN o2 = DOMAIN pages
      /\ Len(o2) = Len(pages) /\ o2[l] = a /\ o2[r] = b
      /\ \A q \in DOMAIN pages \ {l, r} : o2[q] = pages[q]
      /\ \A q \in DOMAIN pages \ {l, r, P} : out[q] = pages[q]
  BY <1>2 DEF IsTriple
<1>8. /\ a.id = l /\ b.id = r /\ a.leaf = mem[l].leaf /\ b.leaf = mem[l].leaf
      /\ ItemsOK(mem[l].leaf, a.items) /\ ItemsOK(mem[l].leaf, b.items)
      /\ ~mem[l].leaf => IsRebuilt(pages, a) /\ IsRebuilt(pages, b)
      /\ Proper(a) /\ Proper(b)
  BY <1>2, <1>3 DEF PairNew, IsMade
<1>9. PICK e : IsJoin(mem[l].items, mem[r].items, e) /\ IsJoin(a.items, b.items, e)
  BY <1>3 DEF PairNew
<1>10. ShareOut(out, l, r, mem[l].leaf, e)
  BY <1>7, <1>8, <1>9 DEF ShareOut
<1>11. IsNode(mem[P]) /\ mem[P].id = P
  BY <1>1, <1>4, <1>6, FileFacts
<1>12. IsMade(mem[P], P, mem[P].leaf, mem[P].items, mem[P].next)
  BY <1>11, NodeIsMade
<1>13. IsMade(pn, P, mem[P].leaf, mem[P].items, mem[P].next) /\ IsRebuilt(o2, pn)
  BY <1>12, RebuiltMade
<1>14. pn.id = P /\ pn.leaf = mem[P].leaf /\ pn.items = mem[P].items /\ IsRebuilt(o2, pn)
  BY <1>13 DEF IsMade
<1>15. Sees(pages, mem, t, {l, r})
  BY <1>1, <1>3, <1>4 DEF Sees, InFile
<1>16. Sees(o2, out, t, {P})
  BY <1>1, <1>4, <1>6, <1>7 DEF Sees, InFile
<1>17. \A p \in t.nodes \ {l, r, P} : out[p] = mem[p]
  BY <1>1, <1>3, <1>4, <1>7
<1>18. PairWritten(mem, t, P, l, r, out, pages, o2)
  BY <1>4, <1>7, <1>8, <1>14, <1>15, <1>16, <1>17 DEF PairWritten
<1>19. Sized(meta.kind, out, l) /\ Sized(meta.kind, out, r)
  BY <1>7, <1>8, ProperIsSized
<1>20. \E nt : /\ Holds(meta.kind, out, meta.root, nt, None, g) /\ SameTop(t, nt, meta.root)
               /\ nt.nodes = t.nodes /\ nt.level = t.level /\ nt.first[P] = t.first[P]
  <2>1. Holds(meta.kind, mem, meta.root, t, n, f) /\ AreSiblings(mem, t, P, j, l, r) /\ n \in {l, r}
    BY <1>1, <1>3
  <2>2. IsJoin(mem[l].items, mem[r].items, e) /\ ShareOut(out, l, r, mem[l].leaf, e)
    BY <1>9, <1>10
  <2>3. CanMove(meta.kind, mem, meta.root, t, n, f, P, j, l, r, g, e, out, pages, o2)
    BY <2>1, <2>2, <1>18, <1>19 DEF CanMove
  <2>. QED
    BY <2>3, PairMoved
<1>. QED
  BY <1>20 DEF PairDone

-----------------------------------------------------------------------------
(* The file after a kill.                                                   *)

\* The pages that are nodes, each under its own number.
Good(pg) == {p \in DOMAIN pg : pg[p].id = p}

Below(node, G) == ~node.leaf => \A c \in 1..Len(node.items) : node.items[c] \in G

\* A node in the file has nodes for children.
Closed(pg) == \A p \in Good(pg) : Below(pg[p], Good(pg))

Rooted(pg, m) == m.root = None \/ m.root \in Good(pg)

\* The page of the call is a node, and so are those above it and below it.
Placed(pg, c) ==
    \/ c = Idle \/ c = Killed
    \/ /\ c.node.id \in Good(pg) /\ Below(c.node, Good(pg))
       /\ \A i \in 1..Len(c.path) : c.path[i] \in Good(pg)

\* The invariant of the file, call or no call, kill or no kill.
FInv == Closed(pages) /\ Rooted(pages, meta) /\ Rooted(pages, file) /\ Placed(pages, call)

\* The pages that are nodes before write i.
IsNodeBefore(G, ws, i, q) == q \in G \/ \E j \in 1..(i - 1) : ws[j][1] = q /\ ws[j][2].id = q

\* Every write makes a node whose children are nodes already, or a page of
\* zeros where there was no node.
Sound(G, ws) ==
    \A i \in 1..Len(ws) :
        /\ ws[i][2].id = ws[i][1] \/ ~IsNodeBefore(G, ws, i, ws[i][1])
        /\ ws[i][2].id = ws[i][1] /\ ~ws[i][2].leaf =>
               \A c \in 1..Len(ws[i][2].items) : IsNodeBefore(G, ws, i, ws[i][2].items[c])

\* What such a list of writes leaves in the file.
LEMMA SoundWritten ==
    ASSUME NEW pg, NEW ws, Len(ws) \in Nat, DOMAIN ws = 1..Len(ws), NEW G, G = Good(pg), Sound(G, ws),
           NEW out, out = Written(pg, ws)
    PROVE  /\ \A q : q \in Good(out) <=> IsNodeBefore(G, ws, Len(ws) + 1, q)
           /\ Closed(pg) => Closed(out)
<1>1. IsWritten(pg, ws, out)
  BY WrittenPages
<1>2. ASSUME NEW i \in 1..Len(ws) PROVE i - 1 \in Nat /\ i - 1 <= Len(ws) /\ Len(ws) + 1 - 1 = Len(ws)
  OBVIOUS
<1>3. \A q : IsNodeBefore(G, ws, Len(ws) + 1, q) <=> q \in G \/ \E j \in 1..Len(ws) : ws[j][1] = q /\ ws[j][2].id = q
  BY <1>2 DEF IsNodeBefore
<1>4. ASSUME NEW q \in Good(out) PROVE IsNodeBefore(G, ws, Len(ws) + 1, q)
  <2>1. q \in DOMAIN out /\ out[q].id = q
    BY <1>4 DEF Good
  <2>2. CASE q \in Targets(ws)
    <3>1. PICK i \in 1..Len(ws) : ws[i][1] = q /\ out[q] = ws[i][2]
      BY <1>1, <2>2 DEF IsWritten
    <3> QED BY <1>3, <2>1, <3>1
  <2>3. CASE q \notin Targets(ws)
    <3>1. q \in DOMAIN pg /\ out[q] = pg[q]
      BY <1>1, <2>1, <2>3 DEF IsWritten
    <3> QED BY <1>3, <2>1, <3>1 DEF Good
  <2> QED BY <2>2, <2>3
<1>5. ASSUME NEW q, IsNodeBefore(G, ws, Len(ws) + 1, q) PROVE q \in Good(out)
  <2>1. q \in DOMAIN out
    <3>1. CASE q \in G
      BY <1>1, <3>1 DEF IsWritten, Good
    <3>2. CASE \E j \in 1..Len(ws) : ws[j][1] = q
      BY <1>1, <3>2 DEF IsWritten, Targets
    <3> QED BY <1>3, <1>5, <3>1, <3>2
  <2>2. CASE q \in Targets(ws)
    <3>1. PICK i \in 1..Len(ws) : /\ ws[i][1] = q /\ out[q] = ws[i][2]
                                  /\ \A j \in 1..Len(ws) : ws[j][1] = q => j <= i
      BY <1>1, <2>2 DEF IsWritten
    <3>2. CASE ws[i][2].id = q
      BY <2>1, <3>1, <3>2 DEF Good
    <3>3. CASE ws[i][2].id # q
      <4>1. ~IsNodeBefore(G, ws, i, q)
        BY <3>1, <3>3 DEF Sound
      <4>2. q \notin G /\ \A j \in 1..(i - 1) : ~(ws[j][1] = q /\ ws[j][2].id = q)
        BY <4>1 DEF IsNodeBefore
      <4>3. PICK j \in 1..Len(ws) : ws[j][1] = q /\ ws[j][2].id = q
        BY <1>3, <1>5, <4>2
      <4>4. j <= i /\ j # i
        BY <3>1, <3>3, <4>3
      <4>5. j \in 1..(i - 1)
        BY <4>4
      <4> QED BY <4>2, <4>3, <4>5
    <3> QED BY <3>2, <3>3
  <2>3. CASE q \notin Targets(ws)
    <3>1. q \in G
      BY <1>3, <1>5, <2>3 DEF Targets
    <3>2. out[q] = pg[q] /\ pg[q].id = q
      BY <1>1, <2>3, <3>1 DEF IsWritten, Good
    <3> QED BY <2>1, <3>2 DEF Good
  <2> QED BY <2>2, <2>3
<1>6. ASSUME Closed(pg), NEW q \in Good(out) PROVE Below(out[q], Good(out))
  <2> SUFFICES ASSUME ~out[q].leaf, NEW c \in 1..Len(out[q].items) PROVE out[q].items[c] \in Good(out)
    BY DEF Below
  <2>1. q \in DOMAIN out /\ out[q].id = q
    BY <1>6 DEF Good
  <2>2. CASE q \in Targets(ws)
    <3>1. PICK i \in 1..Len(ws) : ws[i][1] = q /\ out[q] = ws[i][2]
      BY <1>1, <2>2 DEF IsWritten
    <3>2. IsNodeBefore(G, ws, i, out[q].items[c])
      BY <2>1, <3>1 DEF Sound
    <3>3. \A j \in 1..(i - 1) : j \in 1..Len(ws)
      BY <1>2
    <3>4. IsNodeBefore(G, ws, Len(ws) + 1, out[q].items[c])
      BY <1>3, <3>2, <3>3 DEF IsNodeBefore
    <3> QED BY <1>5, <3>4
  <2>3. CASE q \notin Targets(ws)
    <3>1. q \in DOMAIN pg /\ out[q] = pg[q]
      BY <1>1, <2>1, <2>3 DEF IsWritten
    <3>2. q \in G
      BY <2>1, <3>1 DEF Good
    <3>3. out[q].items[c] \in G
      BY <1>6, <3>1, <3>2 DEF Closed, Below
    <3> QED BY <1>3, <1>5, <3>3
  <2> QED BY <2>2, <2>3
<1> QED BY <1>4, <1>5, <1>6 DEF Closed

\* A kill keeps the first writes of such a list.
LEMMA SoundPart ==
    ASSUME NEW ws \in Seq(AnyWrite), NEW G, Sound(G, ws), NEW m \in 1..Len(ws), NEW s, s = SubSeq(ws, 1, m)
    PROVE  Sound(G, s) /\ s \in Seq(AnyWrite) /\ Len(s) = m
<1>1. Len(ws) \in Nat
  BY WriteFacts
<1>2. s \in Seq(AnyWrite) /\ Len(s) = m /\ \A i \in 1..m : s[i] = ws[i]
  <2>1. 1 \in 1..(Len(ws) + 1) /\ m \in 0..Len(ws) /\ 1 <= m /\ (m - 1) + 1 = m
    BY <1>1
  <2>2. /\ s \in Seq(AnyWrite) /\ Len(s) = (IF 1 <= m THEN m - 1 + 1 ELSE 0)
        /\ \A i \in 1..(m - 1 + 1) : s[i] = ws[1 + i - 1]
    BY <1>1, <2>1, PartOfSeq
  <2>3. ASSUME NEW i \in 1..m PROVE 1 + i - 1 = i
    OBVIOUS
  <2> QED BY <2>1, <2>2, <2>3
<1>3. ASSUME NEW i \in 1..m, NEW q PROVE IsNodeBefore(G, s, i, q) <=> IsNodeBefore(G, ws, i, q)
  <2>1. \A j \in 1..(i - 1) : j \in 1..m
    OBVIOUS
  <2>2. \A j \in 1..(i - 1) : s[j] = ws[j]
    BY <1>2, <2>1
  <2> QED BY <2>2 DEF IsNodeBefore
<1>4. ASSUME NEW i \in 1..m
      PROVE  /\ s[i][2].id = s[i][1] \/ ~IsNodeBefore(G, s, i, s[i][1])
             /\ s[i][2].id = s[i][1] /\ ~s[i][2].leaf =>
                    \A c \in 1..Len(s[i][2].items) : IsNodeBefore(G, s, i, s[i][2].items[c])
  <2>1. i \in 1..Len(ws) /\ s[i] = ws[i]
    BY <1>1, <1>2
  <2> QED BY <1>3, <2>1 DEF Sound
<1> QED BY <1>2, <1>4 DEF Sound

\* Writes of nodes whose children were nodes before.
LEMMA SoundNodes ==
    ASSUME NEW ws, NEW G, \A i \in 1..Len(ws) : ws[i][2].id = ws[i][1] /\ Below(ws[i][2], G)
    PROVE  Sound(G, ws)
BY DEF Sound, Below, IsNodeBefore

\* One list after another.
LEMMA SoundThen ==
    ASSUME NEW pg, NEW a \in Seq(AnyWrite), NEW b \in Seq(AnyWrite), Sound(Good(pg), a),
           Sound(Good(Written(pg, a)), b)
    PROVE  Sound(Good(pg), a \o b)
<1> DEFINE G == Good(pg)
           H == Good(Written(pg, a))
           ws == a \o b
<1>1. /\ Len(a) \in Nat /\ DOMAIN a = 1..Len(a) /\ Len(b) \in Nat /\ DOMAIN b = 1..Len(b)
  BY WriteFacts
<1>2. /\ Len(ws) = Len(a) + Len(b)
      /\ \A i \in 1..Len(a) : ws[i] = a[i]
      /\ \A i \in 1..Len(b) : ws[Len(a) + i] = b[i]
  BY JoinConcat DEF IsJoin
<1>3. \A q : q \in H <=> IsNodeBefore(G, a, Len(a) + 1, q)
  BY <1>1, SoundWritten
<1> HIDE DEF G, H, ws
<1>4. ASSUME NEW i \in 1..Len(a), NEW q PROVE IsNodeBefore(G, ws, i, q) <=> IsNodeBefore(G, a, i, q)
  <2>1. \A j \in 1..(i - 1) : j \in 1..Len(a)
    BY <1>1
  <2>2. \A j \in 1..(i - 1) : ws[j] = a[j]
    BY <1>2, <2>1
  <2> QED BY <2>2 DEF IsNodeBefore
<1>5. ASSUME NEW k \in 1..Len(b), NEW i, i = Len(a) + k, NEW q
      PROVE  IsNodeBefore(G, ws, i, q) <=> IsNodeBefore(H, b, k, q)
  <2>1. ASSUME IsNodeBefore(G, ws, i, q) PROVE IsNodeBefore(H, b, k, q)
    <3>1. CASE q \in G
      BY <1>3, <3>1 DEF IsNodeBefore
    <3>2. ASSUME NEW j \in 1..(i - 1), ws[j][1] = q, ws[j][2].id = q PROVE IsNodeBefore(H, b, k, q)
      <4>1. CASE j <= Len(a)
        <5>1. j \in 1..Len(a) /\ j \in 1..(Len(a) + 1 - 1)
          BY <1>1, <4>1
        <5> QED BY <1>2, <1>3, <3>2, <5>1 DEF IsNodeBefore
      <4>2. CASE j > Len(a)
        <5>1. j - Len(a) \in 1..(k - 1) /\ j - Len(a) \in 1..Len(b) /\ Len(a) + (j - Len(a)) = j
          BY <1>1, <1>5, <4>2
        <5>2. b[j - Len(a)] = ws[j]
          BY <1>2, <5>1
        <5> QED BY <3>2, <5>1, <5>2 DEF IsNodeBefore
      <4> QED BY <1>1, <4>1, <4>2
    <3> QED BY <2>1, <3>1, <3>2 DEF IsNodeBefore
  <2>2. ASSUME IsNodeBefore(H, b, k, q) PROVE IsNodeBefore(G, ws, i, q)
    <3>1. ASSUME q \in H PROVE IsNodeBefore(G, ws, i, q)
      <4>1. IsNodeBefore(G, a, Len(a) + 1, q)
        BY <1>3, <3>1
      <4>2. \A j \in 1..(Len(a) + 1 - 1) : j \in 1..(i - 1) /\ j \in 1..Len(a)
        BY <1>1, <1>5
      <4> QED BY <1>2, <4>1, <4>2 DEF IsNodeBefore
    <3>2. ASSUME NEW j \in 1..(k - 1), b[j][1] = q, b[j][2].id = q PROVE IsNodeBefore(G, ws, i, q)
      <4>1. Len(a) + j \in 1..(i - 1) /\ j \in 1..Len(b)
        BY <1>1, <1>5
      <4>2. ws[Len(a) + j] = b[j]
        BY <1>2, <4>1
      <4> QED BY <3>2, <4>1, <4>2 DEF IsNodeBefore
    <3> QED BY <2>2, <3>1, <3>2 DEF IsNodeBefore
  <2> QED BY <2>1, <2>2
<1>6. ASSUME NEW i \in 1..Len(ws)
      PROVE  /\ ws[i][2].id = ws[i][1] \/ ~IsNodeBefore(G, ws, i, ws[i][1])
             /\ ws[i][2].id = ws[i][1] /\ ~ws[i][2].leaf =>
                    \A c \in 1..Len(ws[i][2].items) : IsNodeBefore(G, ws, i, ws[i][2].items[c])
  <2>1. CASE i <= Len(a)
    <3>1. i \in 1..Len(a) /\ ws[i] = a[i]
      BY <1>1, <1>2, <1>6, <2>1
    <3>2. Sound(G, a)
      BY DEF G
    <3> QED BY <1>4, <3>1, <3>2 DEF Sound
  <2>2. CASE i > Len(a)
    <3>1. PICK k \in 1..Len(b) : i = Len(a) + k
      <4>1. i - Len(a) \in 1..Len(b) /\ i = Len(a) + (i - Len(a))
        BY <1>1, <1>2, <1>6, <2>2
      <4> QED BY <4>1
    <3>2. ws[i] = b[k]
      BY <1>2, <3>1
    <3>3. Sound(H, b)
      BY DEF H
    <3> QED BY <1>5, <3>1, <3>2, <3>3 DEF Sound
  <2> QED BY <1>1, <1>2, <2>1, <2>2
<1>7. Sound(G, ws)
  BY <1>6 DEF Sound
<1> QED BY <1>7 DEF G, ws

\* What a list of writes adds to the nodes of the file.
LEMMA GoodGrows ==
    ASSUME NEW pg, NEW ws \in Seq(AnyWrite), Sound(Good(pg), ws), NEW out, out = Written(pg, ws)
    PROVE  /\ Good(pg) \subseteq Good(out) /\ (Closed(pg) => Closed(out))
           /\ \A i \in 1..Len(ws) : ws[i][2].id = ws[i][1] => ws[i][1] \in Good(out)
<1>1. Len(ws) \in Nat /\ DOMAIN ws = 1..Len(ws)
  BY WriteFacts
<1>2. /\ \A q : q \in Good(out) <=> IsNodeBefore(Good(pg), ws, Len(ws) + 1, q)
      /\ Closed(pg) => Closed(out)
  BY <1>1, SoundWritten
<1>3. \A i \in 1..Len(ws) : i \in 1..(Len(ws) + 1 - 1)
  BY <1>1
<1>. QED
  BY <1>2, <1>3 DEF IsNodeBefore

\* A helper that writes such a list keeps the invariant of the file, killed or not.
LEMMA DoSound ==
    ASSUME FInv, NEW k, NEW low, NEW high, NEW m, NEW c, Do(k, low, high, m, c),
           NEW ws, ws = low \o high, ws \in Seq(AnyWrite), Sound(Good(pages), ws),
           Rooted(Written(pages, ws), m), Placed(Written(pages, ws), c)
    PROVE  FInv'
<1>1. PICK out : out = Written(pages, ws)
  OBVIOUS
<1>2. Closed(pages) /\ Rooted(pages, file)
  BY DEF FInv
<1>3. Closed(out) /\ Good(pages) \subseteq Good(out)
  BY <1>1, <1>2, GoodGrows
<1>4. CASE pages' = out /\ IF c = Idle THEN Return(m) ELSE Continue(k, m, c, moved \cup Shifted(low))
  <2>1. meta' = m /\ call' = c /\ (file' = m \/ file' = file)
    BY <1>4 DEF Return, Continue
  <2>2. Rooted(pages', meta') /\ Rooted(pages', file')
    BY <1>1, <1>2, <1>3, <1>4, <2>1 DEF Rooted
  <2>3. Closed(pages') /\ Placed(pages', call')
    BY <1>1, <1>3, <1>4, <2>1
  <2>. QED
    BY <2>2, <2>3 DEF FInv, Closed, Rooted, Placed, Good, Below
<1>5. CASE /\ \E n \in 1..Len(ws) : pages' = Written(pages, SubSeq(ws, 1, n))
           /\ Reopen(k, moved \cup Shifted(low))
  <2>1. PICK n \in 1..Len(ws) : pages' = Written(pages, SubSeq(ws, 1, n))
    BY <1>5
  <2>2. PICK s : s = SubSeq(ws, 1, n)
    OBVIOUS
  <2>3. Sound(Good(pages), s) /\ s \in Seq(AnyWrite)
    BY <2>2, SoundPart
  <2>a. PICK pn : pn = Written(pages, s)
    OBVIOUS
  <2>b. Closed(pn) /\ Good(pages) \subseteq Good(pn)
    BY <1>2, <2>3, <2>a, GoodGrows
  <2>4. Closed(pages') /\ Good(pages) \subseteq Good(pages')
    BY <2>1, <2>2, <2>a, <2>b
  <2>5. meta' = file /\ file' = file /\ call' = Killed
    BY <1>5 DEF Reopen
  <2>6. Rooted(pages', meta') /\ Rooted(pages', file') /\ Placed(pages', call')
    BY <1>2, <2>4, <2>5 DEF Rooted, Placed
  <2>. QED
    BY <2>4, <2>6 DEF FInv, Closed, Rooted, Placed, Good, Below
<1>. QED
  BY <1>1, <1>4, <1>5 DEF Do

\* A node written alone.
LEMMA OneSound ==
    ASSUME NEW G, NEW node, Below(node, G)
    PROVE  Sound(G, <<Write(node)>>)
<1>1. PICK ws : ws = <<Write(node)>>
  OBVIOUS
<1>2. Len(ws) = 1 /\ ws[1] = <<node.id, node>>
  BY <1>1 DEF Write
<1>3. ASSUME NEW i \in 1..Len(ws) PROVE ws[i] = <<node.id, node>>
  BY <1>2
<1>4. \A i \in 1..Len(ws) : ws[i][2].id = ws[i][1] /\ Below(ws[i][2], G)
  BY <1>3
<1>5. Sound(G, ws)
  BY <1>4, SoundNodes
<1>. QED
  BY <1>1, <1>5

\* Nothing written.
LEMMA NoneSound ==
    ASSUME NEW G
    PROVE  Sound(G, <<>>)
<1>1. PICK ws : ws = <<>>
  OBVIOUS
<1>2. Len(ws) = 0
  BY <1>1
<1>3. Sound(G, ws)
  BY <1>2, SoundNodes
<1>. QED
  BY <1>1, <1>3

\* Pages of zeros where there was no node.
LEMMA BlanksSound ==
    ASSUME CapacityAssumption, NEW G, NEW ws, Len(ws) \in Nat,
           \A i \in 1..Len(ws) : ws[i][2] = Blank /\ ws[i][1] \in Nat /\ ws[i][1] \notin G
    PROVE  Sound(G, ws)
<1>1. Blank.id = None
  BY DEF Blank, Leaf
<1>2. None \notin Nat
  BY DEF CapacityAssumption
<1>. SUFFICES ASSUME NEW i \in 1..Len(ws) PROVE ws[i][2].id # ws[i][1] /\ ~IsNodeBefore(G, ws, i, ws[i][1])
  BY DEF Sound
<1>3. ws[i][2].id # ws[i][1] /\ ws[i][1] \in Nat /\ ws[i][1] \notin G
  BY <1>1, <1>2
<1>4. ASSUME NEW j \in 1..(i - 1) PROVE ws[j][2].id = None
  <2>1. j \in 1..Len(ws)
    OBVIOUS
  <2>. QED
    BY <1>1, <2>1
<1>. QED
  BY <1>2, <1>3, <1>4 DEF IsNodeBefore

\* What is joined is part of the whole.
LEMMA JoinParts ==
    ASSUME NEW u, NEW w, NEW e, IsJoin(u, w, e)
    PROVE  /\ \A i \in 1..Len(u) : \E c \in 1..Len(e) : u[i] = e[c]
           /\ \A i \in 1..Len(w) : \E c \in 1..Len(e) : w[i] = e[c]
<1>1. /\ Len(u) \in Nat /\ Len(w) \in Nat /\ Len(e) = Len(u) + Len(w)
      /\ \A i \in 1..Len(u) : u[i] = e[i]
      /\ \A i \in 1..Len(w) : w[i] = e[Len(u) + i]
  BY DEF IsJoin
<1>2. ASSUME NEW i \in 1..Len(u) PROVE \E c \in 1..Len(e) : u[i] = e[c]
  <2>1. i \in 1..Len(e)
    BY <1>1
  <2>. QED
    BY <1>1, <2>1
<1>3. ASSUME NEW i \in 1..Len(w) PROVE \E c \in 1..Len(e) : w[i] = e[c]
  <2>1. Len(u) + i \in 1..Len(e)
    BY <1>1
  <2>. QED
    BY <1>1, <2>1
<1>. QED
  BY <1>2, <1>3

\* Each page written is one of the tree that then is in the file.
Fills(pg, t, ws) == \A i \in 1..Len(ws) : ws[i][1] \in t.nodes /\ pg[ws[i][1]] = ws[i][2]

\* The children of a page of a tree are pages of it.
LEMMA BelowInTree ==
    ASSUME NEW pg, NEW t, NEW p, NodeOK(pg, t, p)
    PROVE  Below(pg[p], t.nodes)
BY DEF NodeOK, Below, Size

\* Writes of pages as they are in a tree whose pages are all nodes.
LEMMA FillsSound ==
    ASSUME NEW pg, NEW t, \A p \in t.nodes : NodeOK(pg, t, p) /\ pg[p].id = p,
           NEW ws, Fills(pg, t, ws), NEW G, t.nodes \subseteq G
    PROVE  Sound(G, ws)
<1>1. ASSUME NEW i \in 1..Len(ws) PROVE ws[i][2].id = ws[i][1] /\ Below(ws[i][2], G)
  <2>1. PICK p \in t.nodes : p = ws[i][1] /\ pg[p] = ws[i][2]
    BY DEF Fills
  <2>2. Below(pg[p], t.nodes) /\ pg[p].id = p
    BY BelowInTree
  <2>. QED
    BY <2>1, <2>2 DEF Below
<1>. QED
  BY <1>1, SoundNodes

\* propagate_subtree_min_change writes a node as it is but for a separator.
LEMMA PropagatedSound ==
    ASSUME KeysAssumption, CapacityAssumption, NEW kind, NEW pg, NEW root, NEW t, NEW path, NEW p,
           Holds(kind, pg, root, t, None, t.first[p]), IsFile(pg), InFile(pg, t),
           IsRoute(pg, t, path, root, p), NEW G, t.nodes \subseteq G, NEW ws, ws = Propagated(pg, path)
    PROVE  Sound(G, ws)
<1>1. PICK out : out = Written(pg, ws)
  OBVIOUS
<1>2. Holds(kind, out, root, t, None, None) /\ Rewrites(t, ws)
  BY <1>1, PropagatedHolds
<1>3. \A q \in t.nodes : NodeOK(out, t, q) /\ out[q].id = q
  BY <1>2, HoldsFacts
<1>4. ws = <<>> \/ \E w : ws = <<w>>
  BY DEF Propagated
<1>5. Fills(out, t, ws)
  <2>. SUFFICES ASSUME NEW i \in 1..Len(ws) PROVE ws[i][1] \in t.nodes /\ out[ws[i][1]] = ws[i][2]
    BY DEF Fills
  <2>1. PICK w : ws = <<w>>
    BY <1>4
  <2>2. i = 1 /\ ws[1] = w /\ Len(ws) = 1 /\ DOMAIN ws = 1..Len(ws)
    BY <2>1
  <2>3. ASSUME NEW j \in 1..Len(ws), Len(ws) \in Nat, DOMAIN ws = 1..Len(ws), \A m \in 1..Len(ws) : ~(j < m)
        PROVE  Written(pg, ws)[ws[j][1]] = ws[j][2]
    BY <2>3, WrittenLast
  <2>4. out[ws[i][1]] = ws[i][2]
    BY <1>1, <2>2, <2>3
  <2>. QED
    BY <1>2, <2>2, <2>4 DEF Rewrites
<1>. QED
  BY <1>3, <1>5, FillsSound

\* The pages of the tree are nodes in the file, during a call ...
LEMMA TreeGood ==
    ASSUME FInv, NEW mem, NEW n, NEW t, NEW f, Mid(mem, n, t, f)
    PROVE  /\ t.nodes \subseteq Good(pages)
           /\ \A p \in t.nodes : Below(mem[p], Good(pages))
<1>1. /\ Holds(meta.kind, mem, meta.root, t, n, f) /\ n = call.node.id /\ DOMAIN mem = DOMAIN pages
      /\ \A p \in DOMAIN pages \ {n} : mem[p] = pages[p]
      /\ Due(call.fn, meta.kind, mem, t, n, call.path, f)
  BY DEF Mid
<1>2. /\ \A p \in t.nodes : NodeOK(mem, t, p) /\ mem[p].id = p
      /\ t.nodes \subseteq DOMAIN pages
  BY <1>1, HoldsFacts DEF Tree
<1>3. call # Idle /\ call # Killed
  BY <1>1 DEF Due, Idle, Killed
<1>4. n \in Good(pages)
  BY <1>1, <1>3 DEF FInv, Placed
<1>5. t.nodes \subseteq Good(pages)
  BY <1>1, <1>2, <1>4 DEF Good
<1>6. \A p \in t.nodes : Below(mem[p], t.nodes)
  BY <1>2, BelowInTree
<1>. QED
  BY <1>5, <1>6 DEF Below

\* ... and between calls.
LEMMA RestGood ==
    ASSUME NEW kind, NEW pg, NEW root, NEW t, NEW n, NEW f, Holds(kind, pg, root, t, n, f)
    PROVE  t.nodes \subseteq Good(pg) /\ \A p \in t.nodes : Below(pg[p], t.nodes)
<1>1. /\ \A p \in t.nodes : NodeOK(pg, t, p) /\ pg[p].id = p
      /\ t.nodes \subseteq DOMAIN pg
  BY HoldsFacts DEF Tree
<1>. QED
  BY <1>1, BelowInTree DEF Good

\* Where a call or a return leaves the tree, the pages of the tree are nodes.
LEMMA LeftSound ==
    ASSUME NEW pg, IsFile(pg), NEW m, NEW hd, NEW c, CallOK(pg, m, hd, c), c # Killed,
           c # Idle => c.node.id \in Good(pg)
    PROVE  Rooted(pg, m) /\ Placed(pg, c)
<1>1. CASE c = Idle /\ Rests(pg, m, hd)
  <2>1. CASE m.root = None
    BY <1>1, <2>1 DEF Rooted, Placed
  <2>2. CASE m.root # None /\ m.height = 0
    <3>1. m = NoTree(m.kind)
      BY <1>1, <2>2 DEF Rests
    <3>. QED
      BY <2>2, <3>1 DEF NoTree
  <2>3. ASSUME NEW t, Holds(m.kind, pg, m.root, t, None, None) PROVE m.root \in Good(pg)
    <3>1. m.root \in t.nodes
      BY <2>3, HoldsFacts DEF Tree
    <3>2. t.nodes \subseteq Good(pg)
      BY <2>3, RestGood
    <3>. QED
      BY <3>1, <3>2
  <2>. QED
    BY <1>1, <2>1, <2>2, <2>3 DEF Rests, Rooted, Placed
<1>2. CASE IsCall(DOMAIN pg, c) /\ c.node.id \in DOMAIN pg /\ Works(pg, m, hd, c)
  <2>1. PICK fn \in {"split", "underflow", "child_removed"}, node \in AnyNode, path \in Seq(DOMAIN pg) :
            c = Call(fn, node, path)
    BY <1>2 DEF IsCall
  <2>2. c.node = node /\ c.path = path /\ c.fn = fn
    BY <2>1 DEF Call
  <2>3. PICK id : id = node.id
    OBVIOUS
  <2>4. id \in Good(pg)
    <3>1. c # Idle
      BY <2>2 DEF Idle
    <3>. QED
      BY <2>2, <2>3, <3>1
  <2>5. PICK w : w = With(pg, node)
    OBVIOUS
  <2>6. PICK t, f : WorksOn(w, m, hd, c, t, f)
    BY <1>2, <2>2, <2>5 DEF Works
  <2>7. Holds(m.kind, w, m.root, t, id, f) /\ IsRoute(w, t, path, m.root, id)
    BY <2>2, <2>3, <2>6 DEF WorksOn
  <2>8. DOMAIN w = DOMAIN pg /\ w[id] = node /\ \A p \in DOMAIN pg \ {id} : w[p] = pg[p]
    BY <1>2, <2>2, <2>3, <2>5, WithFacts
  <2>9. m.root \in t.nodes /\ t.nodes \subseteq DOMAIN w /\ \A p \in t.nodes : NodeOK(w, t, p) /\ w[p].id = p
    BY <2>7, HoldsFacts DEF Tree
  <2>10. t.nodes \subseteq Good(pg)
    BY <2>4, <2>8, <2>9 DEF Good
  <2>11. id \in t.nodes /\ \A i \in 1..Len(path) : path[i] \in t.nodes
    BY <2>7, RouteFacts
  <2>12. Below(node, Good(pg))
    <3>1. Below(w[id], t.nodes)
      BY <2>9, <2>11, BelowInTree
    <3>. QED
      BY <2>8, <2>10, <3>1 DEF Below
  <2>. QED
    BY <2>2, <2>3, <2>4, <2>9, <2>10, <2>11, <2>12 DEF Rooted, Placed
<1>. QED
  BY <1>1, <1>2 DEF CallOK

\* What a step keeps: the invariant, and that of the file.
Keeps == IInv' /\ (FInv => FInv')

\* A step by Do that keeps the one keeps the other, if what it writes is sound.
LEMMA DoKeepsBoth ==
    ASSUME Typed, NEW k \in Keys \cup {None}, NEW low, NEW high, NEW m, NEW c, Do(k, low, high, m, c),
           low \in Seq(AnyWrite), NEW hd, hd = held', hd \subseteq Keys, IsFiniteSet(hd),
           Leaves(low \o high, m, hd, c), c # Killed,
           FInv => Sound(Good(pages), low \o high),
           FInv /\ c # Idle => c.node.id \in Good(pages) \/ c.node.id \in Good(Written(pages, low \o high))
    PROVE  Keeps
<1>1. IInv'
  BY DoKeeps
<1>2. ASSUME FInv PROVE FInv'
  <2>1. PICK ws, out : ws = low \o high /\ out = Written(pages, ws)
    OBVIOUS
  <2>2. Orderly(Len(pages), ws) /\ CallOK(out, m, hd, c) /\ IsFile(pages)
    BY <2>1 DEF Leaves, Typed
  <2>3. ws \in Seq(AnyWrite) /\ IsFile(out)
    BY <2>1, <2>2, OrderlyFile DEF Orderly
  <2>4. Sound(Good(pages), ws)
    BY <1>2, <2>1
  <2>5. Good(pages) \subseteq Good(out)
    BY <2>1, <2>3, <2>4, GoodGrows
  <2>6. c # Idle => c.node.id \in Good(out)
    BY <1>2, <2>1, <2>5
  <2>7. Rooted(out, m) /\ Placed(out, c)
    BY <2>2, <2>3, <2>6, LeftSound
  <2>. QED
    BY <1>2, <2>1, <2>3, <2>4, <2>7, DoSound
<1>. QED
  BY <1>1, <1>2 DEF Keeps

\* Everything that is known when two siblings are to be written.
PairDue(mem, n, t, f, P, j, left, right, g, a, b) ==
    /\ Mid(mem, n, t, f)
    /\ \E i : IsParent(mem, t, call.path, meta.root, P, i, n)
    /\ Parent = mem[P] /\ IsPair(mem, t, n, P, j, left, right) /\ Hands(t, n, f, P, g)
    /\ PairNew(left, right, a, b)

\* Everything that is known when they and their parent are.
PairOut(t, P, g, low, parent, out, nt) ==
    /\ PairDone(t, nt, P, out, g) /\ InFile(out, nt) /\ Tells(meta, held, nt)
    /\ Overwrites(pages, low) /\ Overwrites(pages, low \o <<parent>>)
    /\ low \o <<parent>> = Append(low, parent)
    /\ IsFile(out) /\ DOMAIN out = DOMAIN pages /\ Fills(out, nt, low \o <<parent>>)

\* The same of ParentOver, with the way to the parent, from which
\* propagate_subtree_min_change goes up.
LEMMA PairIsOut ==
    ASSUME KeysAssumption, NEW mem, NEW n, NEW t, NEW f, NEW P, NEW j, NEW left, NEW right, NEW g, NEW a, NEW b,
           PairDue(mem, n, t, f, P, j, left, right, g, a, b),
           NEW low, low = <<Write(a), Write(b)>>,
           NEW out, out = Written(pages, Append(low, ParentOver(low)))
    PROVE  \E nt : PairOut(t, P, g, low, ParentOver(low), out, nt) /\ IsRoute(out, nt, ParentPath, meta.root, P)
<1>1. /\ Mid(mem, n, t, f) /\ Parent = mem[P] /\ IsPair(mem, t, n, P, j, left, right) /\ Hands(t, n, f, P, g)
      /\ PairNew(left, right, a, b)
  BY DEF PairDue
<1>2. PICK i : IsParent(mem, t, call.path, meta.root, P, i, n)
  BY DEF PairDue
<1>3. /\ Holds(meta.kind, mem, meta.root, t, n, f) /\ InFile(mem, t) /\ Len(mem) = Len(pages) /\ Typed
      /\ IsFile(mem) /\ DOMAIN mem = DOMAIN pages /\ \A q \in DOMAIN pages \ {n} : mem[q] = pages[q]
      /\ Tells(meta, held, t)
  BY <1>1 DEF Mid
<1>4. IsFile(pages) /\ DOMAIN pages = 1..Len(pages) /\ Len(pages) \in Nat
  BY <1>3, FileFacts DEF Typed
<1>5. PICK l, r : l = left.id /\ r = right.id
  OBVIOUS
<1>6. /\ AreSiblings(mem, t, P, j, l, r) /\ left = mem[l] /\ right = mem[r] /\ n \in {l, r}
  BY <1>1, <1>5 DEF IsPair
<1>7. /\ Tree(mem, meta.root, t) /\ t.nodes \subseteq DOMAIN pages
      /\ \A p \in t.nodes : NodeOK(mem, t, p) /\ mem[p].id = p
  BY <1>3, HoldsFacts DEF Tree
<1>8. SiblingShape(mem, t, P, l, r)
  BY <1>6, <1>7, SiblingFacts
<1>9. l \in t.nodes /\ r \in t.nodes /\ l # r /\ P \notin {l, r} /\ P \in t.nodes /\ ~mem[P].leaf
  BY <1>6, <1>8 DEF SiblingShape, AreSiblings
<1>10. \A p \in t.nodes : IsNode(mem[p]) /\ IsMade(mem[p], p, mem[p].leaf, mem[p].items, mem[p].next)
                          /\ mem[p].next \in Nat \cup {None} /\ mem[p].leaf \in BOOLEAN
                          /\ ItemsOK(mem[p].leaf, mem[p].items) /\ mem[p].keys \in Seq(Keys)
  <2>1. \A p \in t.nodes : IsNode(mem[p]) /\ mem[p].id = p
    BY <1>3, <1>7, FileFacts
  <2>. QED
    BY <2>1, NodeIsMade
<1>11. /\ IsMade(a, l, mem[l].leaf, a.items, mem[l].next) /\ IsMade(b, r, mem[l].leaf, b.items, mem[r].next)
       /\ ItemsOK(mem[l].leaf, a.items) /\ ItemsOK(mem[l].leaf, b.items)
       /\ mem[l].leaf => a.keys = mem[l].keys /\ b.keys = mem[r].keys
  BY <1>1, <1>5, <1>6 DEF PairNew
<1>12. a.id = l /\ b.id = r /\ a.leaf = mem[l].leaf /\ b.leaf = mem[l].leaf
  BY <1>11 DEF IsMade
<1>13. PICK o2, pn : o2 = Written(pages, low) /\ pn = Rebuilt(o2, Parent, Parent.items)
  OBVIOUS
<1>14. ParentOver(low) = Write(pn)
  BY <1>13 DEF ParentOver
<1>15. IsMade(pn, P, mem[P].leaf, mem[P].items, mem[P].next)
  BY <1>1, <1>9, <1>10, <1>13, RebuiltMade
<1>16. pn.id = P /\ pn.leaf = mem[P].leaf /\ pn.items = mem[P].items
  BY <1>15 DEF IsMade
<1>17. P \in DOMAIN pages /\ l \in DOMAIN pages /\ r \in DOMAIN pages /\ P # l /\ P # r
  BY <1>7, <1>9
<1>175. ToWrite(P, l, r, a, b, pn, low)
  BY <1>9, <1>12, <1>16, <1>17 DEF ToWrite
<1>18. IsTriple(P, l, r, a, b, pn, o2, out)
  <2>1. IsTriple(P, l, r, a, b, pn, Written(pages, low), Written(pages, Append(low, Write(pn))))
    BY <1>4, <1>175, TripleWritten
  <2>. QED
    BY <2>1, <1>13, <1>14
<1>185. low \o <<Write(pn)>> = Append(low, Write(pn))
  BY AppendToTwo
<1>19. P # n
  BY <1>2 DEF IsParent
<1>20. PICK nt : PairDone(t, nt, P, out, g)
  BY <1>1, <1>5, <1>13, <1>18, <1>19, TripleHolds
<1>21. /\ Holds(meta.kind, out, meta.root, nt, None, g) /\ SameTop(t, nt, meta.root)
       /\ nt.nodes = t.nodes /\ nt.level = t.level /\ nt.first[P] = t.first[P]
  BY <1>20 DEF PairDone
<1>22. Tree(out, meta.root, nt) /\ None \notin nt.nodes
  BY <1>21, HoldsFacts DEF Tree
<1>23. \A p \in nt.nodes : ~out[p].leaf => Kept(out, nt, p, g)
  BY <1>21, <1>22 DEF Holds
<1>24. /\ out[l] = a /\ out[r] = b /\ out[P] = pn /\ DOMAIN out = DOMAIN pages
       /\ \A q \in DOMAIN pages \ {l, r, P} : out[q] = pages[q]
  BY <1>18 DEF IsTriple
<1>25. \A p \in nt.nodes : ~out[p].leaf => out[p].keys \in Seq(Keys)
  BY <1>23 DEF Kept, Keyed
<1>26. a.keys \in Seq(Keys) /\ b.keys \in Seq(Keys) /\ pn.keys \in Seq(Keys)
  BY <1>9, <1>10, <1>11, <1>12, <1>16, <1>21, <1>24, <1>25, SMTT(30)
<1>27. l \in Nat /\ r \in Nat /\ P \in Nat /\ l >= 1 /\ r >= 1 /\ P >= 1
  BY <1>4, <1>17
<1>275. \A p \in t.nodes : mem[p].leaf \in BOOLEAN /\ mem[p].next \in Nat \cup {None} /\ ItemsOK(mem[p].leaf, mem[p].items)
  BY <1>10
<1>28. a \in AnyNode
  <2>1. mem[l].leaf \in BOOLEAN /\ mem[l].next \in Nat \cup {None} /\ l \in Nat \cup {None}
    BY <1>9, <1>275, <1>27
  <2>2. IsMade(a, l, mem[l].leaf, a.items, mem[l].next) /\ ItemsOK(mem[l].leaf, a.items) /\ a.keys \in Seq(Keys)
    BY <1>11, <1>26
  <2>. QED
    BY <2>1, <2>2, MadeIsNode
<1>29. b \in AnyNode
  <2>1. mem[l].leaf \in BOOLEAN /\ mem[r].next \in Nat \cup {None} /\ r \in Nat \cup {None}
    BY <1>9, <1>275, <1>27
  <2>2. IsMade(b, r, mem[l].leaf, b.items, mem[r].next) /\ ItemsOK(mem[l].leaf, b.items) /\ b.keys \in Seq(Keys)
    BY <1>11, <1>26
  <2>. QED
    BY <2>1, <2>2, MadeIsNode
<1>30. pn \in AnyNode
  <2>1. mem[P].leaf \in BOOLEAN /\ mem[P].next \in Nat \cup {None} /\ P \in Nat \cup {None}
    BY <1>9, <1>275, <1>27
  <2>2. IsMade(pn, P, mem[P].leaf, mem[P].items, mem[P].next) /\ ItemsOK(mem[P].leaf, mem[P].items) /\ pn.keys \in Seq(Keys)
    BY <1>9, <1>15, <1>26, <1>275
  <2>. QED
    BY <2>1, <2>2, MadeIsNode
<1>31. Overwrites(pages, <<Write(a)>>) /\ Overwrites(pages, <<Write(b)>>) /\ Overwrites(pages, <<Write(pn)>>)
  BY <1>4, <1>12, <1>16, <1>17, <1>28, <1>29, <1>30, OverwriteOne DEF Write
<1>32. low = <<Write(a)>> \o <<Write(b)>>
  BY OneAndOne
<1>33. Overwrites(pages, low)
  BY <1>31, <1>32, OverwritesJoin
<1>34. Overwrites(pages, low \o <<Write(pn)>>)
  BY <1>31, <1>33, OverwritesJoin
<1>35. Orderly(Len(pages), low \o <<Write(pn)>>)
  BY <1>4, <1>34, OverwritesAreOrderly
<1>36. IsFile(out)
  BY <1>4, <1>14, <1>185, <1>35, OrderlyFile
<1>37. InFile(out, nt)
  <2>1. DOMAIN out = 1..Len(pages)
    BY <1>4, <1>24
  <2>2. Len(out) = Len(pages)
    BY <1>4, <2>1, WrittenLen
  <2>. QED
    BY <1>3, <1>21, <2>2 DEF InFile
<1>38. Tells(meta, held, nt)
  BY <1>3, <1>21 DEF Tells, SameTop
<1>39. IsRoute(out, nt, ParentPath, meta.root, P)
  <2>1. IsRoute(mem, t, ParentPath, meta.root, P)
    BY <1>2 DEF IsParent, ParentPath
  <2>2. t.level[l] = t.level[P] - 1 /\ t.level[r] = t.level[P] - 1 /\ t.level[P] \in Nat
    BY <1>8 DEF SiblingShape
  <2>3. \A q \in t.nodes \ {l, r, P} : out[q] = mem[q]
    BY <1>3, <1>6, <1>7, <1>24
  <2>4. \A q \in t.nodes : t.level[q] > t.level[P] => q \in nt.nodes /\ out[q].leaf = mem[q].leaf /\ out[q].items = mem[q].items
    BY <1>21, <2>2, <2>3
  <2>5. P \in nt.nodes
    BY <1>9, <1>21
  <2>. QED
    BY <1>7, <2>1, <2>4, <2>5, RouteMoves
<1>395. Fills(out, nt, low \o <<Write(pn)>>)
  <2>1. PICK ws : ws = low \o <<Write(pn)>>
    OBVIOUS
  <2>2. ws = <<<<l, a>>, <<r, b>>, <<P, pn>>>>
    BY <2>1, <1>12, <1>16, TwoAndOne DEF Write
  <2>3. l \in nt.nodes /\ r \in nt.nodes /\ P \in nt.nodes
    BY <1>9, <1>21
  <2>4. Len(ws) = 3 /\ ws[1] = <<l, a>> /\ ws[2] = <<r, b>> /\ ws[3] = <<P, pn>>
    BY <2>2
  <2>5. Fills(out, nt, ws)
    BY <2>3, <2>4, <1>24 DEF Fills
  <2>. QED
    BY <2>1, <2>5
<1>40. PairOut(t, P, g, low, Write(pn), out, nt)
  BY <1>185, <1>395, <1>20, <1>24, <1>33, <1>34, <1>36, <1>37, <1>38 DEF PairOut
<1>. QED
  BY <1>14, <1>39, <1>40

\* A tree that is whole is one at rest.
LEMMA RestsIf ==
    ASSUME NEW pg, NEW m, NEW hd, NEW t, Holds(m.kind, pg, m.root, t, None, None), InFile(pg, t), Tells(m, hd, t)
    PROVE  Rests(pg, m, hd)
<1>1. Tree(pg, m.root, t) /\ \A p \in t.nodes : NodeOK(pg, t, p)
  BY HoldsFacts
<1>2. m.root \in t.nodes /\ None \notin t.nodes /\ t.level[m.root] = m.height
  BY <1>1 DEF Tree, Tells
<1>3. t.level[m.root] \in Nat \ {0}
  BY <1>1, <1>2 DEF NodeOK
<1>. QED
  BY <1>2, <1>3 DEF Rests

\* A helper after which insert or erase returns.
LEMMA FinishKeeps ==
    ASSUME Typed, NEW low, NEW high, Finish(low, high), low \in Seq(AnyWrite), Orderly(Len(pages), low \o high),
           Rests(Written(pages, low \o high), meta, held), FInv => Sound(Good(pages), low \o high)
    PROVE  Keeps
<1>1. IsFile(pages) /\ meta \in MetaType(DOMAIN pages) /\ held \subseteq Keys /\ IsFiniteSet(held)
      /\ busy \in Keys \cup {None}
  BY DEF Typed
<1>2. Do(busy, low, high, meta, Idle) /\ held = held'
  BY DEF Finish
<1>3. DOMAIN pages \subseteq DOMAIN Written(pages, low \o high)
  BY <1>1, OrderlyFile
<1>4. meta \in MetaType(DOMAIN Written(pages, low \o high))
  BY <1>1, <1>3, MetaTypeGrows
<1>5. CallOK(Written(pages, low \o high), meta, held, Idle)
  BY DEF CallOK
<1>6. Leaves(low \o high, meta, held, Idle)
  BY <1>4, <1>5 DEF Leaves
<1>7. PICK c : c = Idle
  OBVIOUS
<1>8. c # Killed
  BY <1>7 DEF Idle, Killed
<1>. QED
  BY <1>1, <1>2, <1>6, <1>7, <1>8, DoKeepsBoth

\* The writes of a pair and its parent, in this order.
LEMMA PairOutSound ==
    ASSUME NEW t, NEW P, NEW g, NEW low, NEW parent, NEW out, NEW nt,
           PairOut(t, P, g, low, parent, out, nt), t.nodes \subseteq Good(pages)
    PROVE  Sound(Good(pages), low \o <<parent>>)
<1>1. Holds(meta.kind, out, meta.root, nt, None, g) /\ nt.nodes = t.nodes /\ Fills(out, nt, low \o <<parent>>)
  BY DEF PairOut, PairDone
<1>2. \A p \in nt.nodes : NodeOK(out, nt, p) /\ out[p].id = p
  BY <1>1, HoldsFacts
<1>. QED
  BY <1>1, <1>2, FillsSound

\* Nothing is left to do above the parent.
LEMMA PairFinishes ==
    ASSUME Typed, NEW t, NEW P, NEW low, NEW parent, NEW out, NEW nt,
           PairOut(t, P, None, low, parent, out, nt), out = Written(pages, Append(low, parent)),
           Finish(low, <<parent>>), FInv => t.nodes \subseteq Good(pages)
    PROVE  Keeps
<1>1. /\ PairDone(t, nt, P, out, None) /\ InFile(out, nt) /\ Tells(meta, held, nt)
      /\ Overwrites(pages, low) /\ Overwrites(pages, low \o <<parent>>)
      /\ low \o <<parent>> = Append(low, parent)
  BY DEF PairOut
<1>2. Rests(out, meta, held)
  BY <1>1, RestsIf DEF PairDone
<1>3. Orderly(Len(pages), low \o <<parent>>) /\ low \in Seq(AnyWrite)
  BY <1>1, OverwritesAreOrderly DEF Typed, Overwrites
<1>4. Rests(Written(pages, low \o <<parent>>), meta, held)
  BY <1>1, <1>2
<1>5. FInv => Sound(Good(pages), low \o <<parent>>)
  BY PairOutSound
<1>. QED
  BY <1>3, <1>4, <1>5, FinishKeeps

\* What propagate_subtree_min_change writes is a page of the file.
LEMMA RewritesOverwrite ==
    ASSUME NEW pg, NEW t, NEW ws, Rewrites(t, ws), t.nodes \subseteq DOMAIN pg
    PROVE  Overwrites(pg, ws)
BY DEF Rewrites, Overwrites

\* Writes to pages of a file are writes to pages of a longer one.
LEMMA OverwritesGrow ==
    ASSUME NEW pg, NEW out, NEW ws, Overwrites(pg, ws), DOMAIN pg \subseteq DOMAIN out
    PROVE  Overwrites(out, ws)
BY DEF Overwrites

\* The separators above the parent are put right.
LEMMA PairFinishesUp ==
    ASSUME KeysAssumption, CapacityAssumption, Typed, NEW t, NEW P, NEW g, NEW low, NEW out, NEW nt,
           PairOut(t, P, g, low, ParentOver(low), out, nt), g = None \/ g = t.first[P],
           out = Written(pages, Append(low, ParentOver(low))),
           IsRoute(out, nt, ParentPath, meta.root, P), Finish(low, ParentAndAbove(low)),
           FInv => t.nodes \subseteq Good(pages)
    PROVE  Keeps
<1>1. PICK parent, pr : parent = ParentOver(low) /\ pr = Propagated(out, ParentPath)
  OBVIOUS
<1>2. /\ PairDone(t, nt, P, out, g) /\ InFile(out, nt) /\ Tells(meta, held, nt)
      /\ Overwrites(pages, low) /\ Overwrites(pages, low \o <<parent>>)
      /\ low \o <<parent>> = Append(low, parent) /\ IsFile(out) /\ DOMAIN out = DOMAIN pages
  BY <1>1 DEF PairOut
<1>3. Holds(meta.kind, out, meta.root, nt, None, g) /\ nt.first[P] = t.first[P]
  BY <1>2 DEF PairDone
<1>4. Holds(meta.kind, out, meta.root, nt, None, nt.first[P])
  <2>1. CASE g = None
    BY <1>3, <2>1, HoldsAny
  <2>2. CASE g = t.first[P]
    BY <1>3, <2>2
  <2>. QED
    BY <2>1, <2>2
<1>5. PICK new : new = Written(out, pr)
  OBVIOUS
<1>6. Holds(meta.kind, new, meta.root, nt, None, None) /\ DOMAIN new = DOMAIN out /\ Rewrites(nt, pr)
  <2>1. IsFile(out) /\ InFile(out, nt)
    BY <1>2
  <2>2. pr = Propagated(out, ParentPath)
    BY <1>1
  <2>. QED
    BY <2>1, <2>2, <1>4, <1>5, PropagatedHolds
<1>7. nt.nodes \subseteq DOMAIN pages
  BY <1>2, <1>3, HoldsFacts DEF Tree
<1>8. Overwrites(pages, pr)
  BY <1>6, <1>7, RewritesOverwrite
<1>9. ParentAndAbove(low) = <<parent>> \o pr
  BY <1>1 DEF ParentAndAbove
<1>10. low \in Seq(AnyWrite) /\ low \o <<parent>> \in Seq(AnyWrite) /\ pr \in Seq(AnyWrite)
  BY <1>2, <1>8 DEF Overwrites
<1>11. low \o (<<parent>> \o pr) = (low \o <<parent>>) \o pr
  <2>1. parent \in AnyWrite
    <3>1. Len(low) \in Nat /\ Len(low \o <<parent>>) = Len(low) + 1 /\ (low \o <<parent>>)[Len(low) + 1] = parent
      BY <1>10
    <3>. QED
      BY <3>1, <1>10
  <2>2. <<parent>> \in Seq(AnyWrite)
    BY <2>1
  <2>. QED
    BY <1>10, <2>2, ConcatAssociative
<1>12. Written(pages, low \o ParentAndAbove(low)) = new
  <2>0. PICK s : s = low \o <<parent>>
    OBVIOUS
  <2>1. s \in Seq(AnyWrite)
    BY <2>0, <1>10
  <2>2. Written(pages, s \o pr) = Written(Written(pages, s), pr)
    BY <2>1, <1>10, WrittenConcat
  <2>3. Written(pages, s) = out
    BY <2>0, <1>1, <1>2
  <2>4. low \o ParentAndAbove(low) = s \o pr
    BY <2>0, <1>9, <1>11
  <2>. QED
    BY <2>2, <2>3, <2>4, <1>5
<1>13. Overwrites(pages, low \o ParentAndAbove(low))
  BY <1>2, <1>8, <1>9, <1>11, OverwritesJoin
<1>14. Orderly(Len(pages), low \o ParentAndAbove(low))
  BY <1>13, OverwritesAreOrderly DEF Typed
<1>15. InFile(new, nt)
  <2>1. DOMAIN new = 1..Len(out) /\ Len(out) \in Nat
    BY <1>2, <1>6, FileFacts
  <2>2. Len(new) = Len(out)
    BY <2>1, <1>5, WrittenLen
  <2>. QED
    BY <1>2, <2>2 DEF InFile
<1>16. Rests(new, meta, held)
  BY <1>2, <1>6, <1>15, RestsIf
<1>17. ASSUME FInv PROVE Sound(Good(pages), low \o ParentAndAbove(low))
  <2>1. PICK s : s = low \o <<parent>>
    OBVIOUS
  <2>2. low \o ParentAndAbove(low) = s \o pr /\ s \in Seq(AnyWrite)
    BY <2>1, <1>9, <1>10, <1>11
  <2>3. Sound(Good(pages), s) /\ out = Written(pages, s)
    BY <2>1, <1>1, <1>2, <1>17, PairOutSound
  <2>4. nt.nodes \subseteq Good(out)
    BY <1>3, RestGood
  <2>5. Sound(Good(Written(pages, s)), pr)
    BY <2>3, <2>4, <1>1, <1>2, <1>4, PropagatedSound
  <2>. QED
    BY <2>2, <2>3, <2>5, <1>10, SoundThen
<1>. QED
  BY <1>10, <1>12, <1>14, <1>16, <1>17, FinishKeeps

-----------------------------------------------------------------------------
(* The pair that a helper writes.                                           *)

\* The capacities are at least two.
LEMMA MaxFacts ==
    ASSUME CapacityAssumption, Typed, NEW node, node.leaf \in BOOLEAN
    PROVE  /\ MaxKeys(node) \in Nat /\ MaxKeys(node) >= 2
           /\ MaxKeys(node) = MaxOf(meta.kind, node.leaf)
           /\ MinKeys(node) = LeastOf(meta.kind, node.leaf)
<1>1. meta.kind \in KeyKinds
  BY DEF Typed, MetaType
<1>2. MaxLeaf[meta.kind] \in Nat \ 0..1 /\ MaxInternal[meta.kind] \in Nat \ 0..1
  BY <1>1 DEF CapacityAssumption
<1>3. MaxKeys(node) = MaxOf(meta.kind, node.leaf)
  BY DEF MaxKeys, MaxOf
<1>4. MaxKeys(node) \in Nat /\ MaxKeys(node) >= 2
  BY <1>2 DEF MaxKeys
<1>. QED
  BY <1>3, <1>4 DEF MinKeys, LeastOf

\* The nodes of the pair are of one kind, and hold entries of S.
IsDuo(left, right, S) ==
    /\ left.leaf \in BOOLEAN /\ right.leaf = left.leaf
    /\ IsMade(left, left.id, left.leaf, left.items, left.next)
    /\ IsMade(right, right.id, left.leaf, right.items, right.next)
    /\ left.items \in Seq(S) /\ right.items \in Seq(S)
    /\ Len(left.items) \in Nat /\ Len(right.items) \in Nat
    /\ \A s \in Seq(S) : ItemsOK(left.leaf, s)

\* The items of a node are of one kind.
LEMMA KindOfItems ==
    ASSUME NEW leaf \in BOOLEAN
    PROVE  \E S : \A s : ItemsOK(leaf, s) <=> s \in Seq(S)
<1>1. CASE leaf
  BY <1>1 DEF ItemsOK
<1>2. CASE ~leaf
  BY <1>2 DEF ItemsOK
<1>. QED
  BY <1>1, <1>2

\* A pair of siblings are two nodes of one kind.
LEMMA PairIsDuo ==
    ASSUME NEW mem, NEW n, NEW t, NEW f, Mid(mem, n, t, f),
           NEW P, NEW j, NEW left, NEW right, IsPair(mem, t, n, P, j, left, right)
    PROVE  /\ \E S : IsDuo(left, right, S)
           /\ left.id = n => left = call.node /\ Proper(right)
           /\ right.id = n => right = call.node /\ Proper(left)
<1>1. PICK l, r : l = left.id /\ r = right.id
  OBVIOUS
<1>2. AreSiblings(mem, t, P, j, l, r) /\ left = mem[l] /\ right = mem[r] /\ n \in {l, r}
  BY <1>1 DEF IsPair
<1>3. Holds(meta.kind, mem, meta.root, t, n, f) /\ IsFile(mem) /\ mem[n] = call.node
  BY DEF Mid
<1>4. Tree(mem, meta.root, t) /\ t.nodes \subseteq DOMAIN mem /\ \A p \in t.nodes : NodeOK(mem, t, p)
  BY <1>3, HoldsFacts DEF Tree
<1>5. SiblingShape(mem, t, P, l, r)
  BY <1>2, <1>4, SiblingFacts
<1>6. l \in t.nodes /\ r \in t.nodes /\ l # r /\ mem[l].leaf = mem[r].leaf /\ mem[l].leaf \in BOOLEAN
  BY <1>5 DEF SiblingShape
<1>7. IsNode(left) /\ IsNode(right)
  BY <1>2, <1>3, <1>4, <1>6, FileFacts
<1>8. /\ IsMade(left, left.id, left.leaf, left.items, left.next) /\ ItemsOK(left.leaf, left.items)
      /\ IsMade(right, right.id, right.leaf, right.items, right.next) /\ ItemsOK(right.leaf, right.items)
  BY <1>7, NodeIsMade
<1>9. left.leaf \in BOOLEAN /\ right.leaf = left.leaf
  BY <1>2, <1>6
<1>10. PICK S : \A s : ItemsOK(left.leaf, s) <=> s \in Seq(S)
  BY <1>9, KindOfItems
<1>11. left.items \in Seq(S) /\ right.items \in Seq(S)
  BY <1>8, <1>9, <1>10
<1>12. Len(left.items) \in Nat /\ Len(right.items) \in Nat
  BY <1>11
<1>13. IsDuo(left, right, S)
  BY <1>8, <1>9, <1>10, <1>11, <1>12 DEF IsDuo
<1>14. left.id = n => left = call.node /\ Proper(right)
  <2>1. \A p \in t.nodes \ {n} : Sized(meta.kind, mem, p)
    BY <1>3 DEF Holds
  <2>. QED
    BY <2>1, <1>1, <1>2, <1>3, <1>6, ProperIsSized
<1>15. right.id = n => right = call.node /\ Proper(left)
  <2>1. \A p \in t.nodes \ {n} : Sized(meta.kind, mem, p)
    BY <1>3 DEF Holds
  <2>. QED
    BY <2>1, <1>1, <1>2, <1>3, <1>6, ProperIsSized
<1>. QED
  BY <1>13, <1>14, <1>15

\* What the helper leaves to the parent.
LEMMA HandsOver ==
    ASSUME NEW mem, NEW n, NEW t, NEW f, Mid(mem, n, t, f), NEW P
    PROVE  /\ call.fn = "split" => f = None /\ Hands(t, n, f, P, None)
           /\ call.fn = "underflow" => f = t.first[n] /\ Hands(t, n, f, P, t.first[P])
BY DEF Mid, Due, Hands

\* The node of the call has one key too many, or too few.
LEMMA CallSize ==
    ASSUME CapacityAssumption, NEW mem, NEW n, NEW t, NEW f, Mid(mem, n, t, f)
    PROVE  /\ call.node.leaf \in BOOLEAN /\ Len(call.node.items) \in Nat
           /\ call.fn = "split" => KeyCount(call.node) = MaxKeys(call.node) + 1
           /\ call.fn = "underflow" => KeyCount(call.node) < MinKeys(call.node) /\ ~IsRoot
           /\ ~call.node.leaf => Len(call.node.items) >= 1
           /\ call.fn = "child_removed" => ~call.node.leaf /\ KeyCount(call.node) <= MaxKeys(call.node)
<1>1. /\ Typed /\ mem[n] = call.node /\ Due(call.fn, meta.kind, mem, t, n, call.path, f)
      /\ Holds(meta.kind, mem, meta.root, t, n, f) /\ IsFile(mem) /\ n \in DOMAIN mem
      /\ IsRoute(mem, t, call.path, meta.root, n)
  BY DEF Mid
<1>2. IsNode(call.node)
  BY <1>1, FileFacts
<1>3. call.node.leaf \in BOOLEAN /\ Len(call.node.items) \in Nat
  BY <1>2, NodeFields
<1>4. Count(mem, n) = KeyCount(call.node)
  BY <1>1 DEF Count, KeyCount, Size
<1>5. n \in t.nodes
  BY <1>1, RouteFacts
<1>6. ~call.node.leaf => Len(call.node.items) >= 1
  BY <1>1, <1>5 DEF Holds, Size
<1>7. MaxKeys(call.node) = MaxOf(meta.kind, mem[n].leaf) /\ MinKeys(call.node) = LeastOf(meta.kind, mem[n].leaf)
  BY <1>1, <1>3, MaxFacts
<1>. QED
  BY <1>1, <1>3, <1>4, <1>6, <1>7 DEF Due, IsRoot

\* A helper that writes a pair, then their parent and, where the pair may have got
\* another least key, the separator above, leaves a tree.
LEMMA PairKeeps ==
    ASSUME KeysAssumption, CapacityAssumption,
           NEW mem, NEW n, NEW t, NEW f, NEW P, NEW j, NEW left, NEW right, NEW g, NEW a, NEW b,
           PairDue(mem, n, t, f, P, j, left, right, g, a, b),
           NEW low, low = <<Write(a), Write(b)>>,
           \/ g = None /\ Finish(low, <<ParentOver(low)>>)
           \/ (g = None \/ g = t.first[P]) /\ Finish(low, ParentAndAbove(low))
    PROVE  Keeps
<1>1. Typed
  BY DEF PairDue, Mid
<1>6. FInv => t.nodes \subseteq Good(pages)
  BY TreeGood DEF PairDue
<1>2. PICK out : out = Written(pages, Append(low, ParentOver(low)))
  OBVIOUS
<1>3. PICK nt : PairOut(t, P, g, low, ParentOver(low), out, nt) /\ IsRoute(out, nt, ParentPath, meta.root, P)
  BY <1>2, PairIsOut
<1>4. CASE g = None /\ Finish(low, <<ParentOver(low)>>)
  <2>1. PICK parent : parent = ParentOver(low)
    OBVIOUS
  <2>2. PairOut(t, P, None, low, parent, out, nt) /\ out = Written(pages, Append(low, parent))
        /\ Finish(low, <<parent>>)
    BY <1>2, <1>3, <1>4, <2>1
  <2>. QED
    BY <1>1, <1>6, <2>2, PairFinishes
<1>5. CASE (g = None \/ g = t.first[P]) /\ Finish(low, ParentAndAbove(low))
  BY <1>1, <1>2, <1>3, <1>5, <1>6, PairFinishesUp
<1>. QED
  BY <1>4, <1>5

\* The new nodes, from those that there were.
LEMMA PairNewIf ==
    ASSUME NEW left, NEW right, NEW S, IsDuo(left, right, S), NEW a, NEW b,
           IsMade(a, left.id, left.leaf, a.items, left.next), IsMade(b, right.id, left.leaf, b.items, right.next),
           a.items \in Seq(S), b.items \in Seq(S),
           left.leaf => a.keys = left.keys /\ b.keys = right.keys,
           ~left.leaf => IsRebuilt(pages, a) /\ IsRebuilt(pages, b),
           NEW e, IsJoin(left.items, right.items, e), IsJoin(a.items, b.items, e),
           Proper(a), Proper(b)
    PROVE  PairNew(left, right, a, b)
BY DEF PairNew, IsDuo

\* What is known of a pair before the helper of a call writes it.
PairCall(mem, n, t, f, P, j, left, right, S) ==
    /\ Mid(mem, n, t, f) /\ Typed
    /\ \E i : IsParent(mem, t, call.path, meta.root, P, i, n)
    /\ P = Last(ParentPath) /\ Parent = mem[P]
    /\ IsPair(mem, t, n, P, j, left, right) /\ IsDuo(left, right, S)
    /\ (left = call.node /\ Proper(right)) \/ (right = call.node /\ Proper(left))

\* The node of the call with the sibling to its right.
LEMMA RightCall ==
    ASSUME IInv, call.fn \in {"split", "underflow", "child_removed"}, ~IsRoot, HasRight
    PROVE  \E mem, n, t, f, P, j, S :
               PairCall(mem, n, t, f, P, j, call.node, RightSibling, S) /\ Proper(RightSibling)
<1>1. PICK mem, n, t, f : Mid(mem, n, t, f)
  BY CallFacts
<1>2. PICK P : /\ \E i : IsParent(mem, t, call.path, meta.root, P, i, n)
               /\ P = Last(ParentPath) /\ Parent = mem[P]
               /\ \E j : IsPair(mem, t, n, P, j, call.node, RightSibling)
  BY <1>1, CallPair
<1>3. PICK j : IsPair(mem, t, n, P, j, call.node, RightSibling)
  BY <1>2
<1>4. n = call.node.id /\ Typed
  BY <1>1 DEF Mid
<1>5. Proper(RightSibling) /\ \E S : IsDuo(call.node, RightSibling, S)
  BY <1>1, <1>3, <1>4, PairIsDuo
<1>6. PICK S : IsDuo(call.node, RightSibling, S)
  BY <1>5
<1>7. PairCall(mem, n, t, f, P, j, call.node, RightSibling, S)
  BY <1>1, <1>2, <1>3, <1>4, <1>5, <1>6 DEF PairCall
<1>. QED
  BY <1>5, <1>7

\* The node of the call with the sibling to its left.
LEMMA LeftCall ==
    ASSUME IInv, call.fn \in {"split", "underflow", "child_removed"}, ~IsRoot, HasLeft
    PROVE  \E mem, n, t, f, P, j, S :
               PairCall(mem, n, t, f, P, j, LeftSibling, call.node, S) /\ Proper(LeftSibling)
<1>1. PICK mem, n, t, f : Mid(mem, n, t, f)
  BY CallFacts
<1>2. PICK P : /\ \E i : IsParent(mem, t, call.path, meta.root, P, i, n)
               /\ P = Last(ParentPath) /\ Parent = mem[P]
               /\ \E j : IsPair(mem, t, n, P, j, LeftSibling, call.node)
  BY <1>1, CallPair
<1>3. PICK j : IsPair(mem, t, n, P, j, LeftSibling, call.node)
  BY <1>2
<1>4. n = call.node.id /\ Typed
  BY <1>1 DEF Mid
<1>5. Proper(LeftSibling) /\ \E S : IsDuo(LeftSibling, call.node, S)
  BY <1>1, <1>3, <1>4, PairIsDuo
<1>6. PICK S : IsDuo(LeftSibling, call.node, S)
  BY <1>5
<1>7. PairCall(mem, n, t, f, P, j, LeftSibling, call.node, S)
  BY <1>1, <1>2, <1>3, <1>4, <1>5, <1>6 DEF PairCall
<1>. QED
  BY <1>5, <1>7

\* split: the parent alone is written, or what is above it too.
LEMMA PairSplitKeeps ==
    ASSUME KeysAssumption, CapacityAssumption, call.fn = "split",
           NEW mem, NEW n, NEW t, NEW f, NEW P, NEW j, NEW left, NEW right, NEW S,
           PairCall(mem, n, t, f, P, j, left, right, S),
           NEW a, NEW b, PairNew(left, right, a, b), NEW low, low = <<Write(a), Write(b)>>,
           Finish(low, <<ParentOver(low)>>) \/ Finish(low, ParentAndAbove(low))
    PROVE  Keeps
<1>1. Mid(mem, n, t, f)
  BY DEF PairCall
<1>2. Hands(t, n, f, P, None)
  BY <1>1, HandsOver
<1>3. PairDue(mem, n, t, f, P, j, left, right, None, a, b)
  BY <1>1, <1>2 DEF PairDue, PairCall
<1>. QED
  BY <1>3, PairKeeps

\* underflow.
LEMMA PairUnderflowKeeps ==
    ASSUME KeysAssumption, CapacityAssumption, call.fn = "underflow",
           NEW mem, NEW n, NEW t, NEW f, NEW P, NEW j, NEW left, NEW right, NEW S,
           PairCall(mem, n, t, f, P, j, left, right, S),
           NEW a, NEW b, PairNew(left, right, a, b), NEW low, low = <<Write(a), Write(b)>>,
           Finish(low, ParentAndAbove(low))
    PROVE  Keeps
<1>1. Mid(mem, n, t, f)
  BY DEF PairCall
<1>2. Hands(t, n, f, P, t.first[P])
  BY <1>1, HandsOver
<1>3. PairDue(mem, n, t, f, P, j, left, right, t.first[P], a, b)
  BY <1>1, <1>2 DEF PairDue, PairCall
<1>. QED
  BY <1>3, PairKeeps

\* try_give_to_right_leaf keeps the invariant.
LEMMA GiveToRightKeeps ==
    ASSUME KeysAssumption, CapacityAssumption, IInv, GiveToRightLeaf
    PROVE  Keeps
<1>1. PICK X, Y : X = call.node /\ Y = RightSibling
  OBVIOUS
<1>2. /\ call.fn = "split" /\ X.leaf /\ ~IsRoot /\ HasRight /\ Len(Y.items) < MaxKeys(Y)
      /\ LET low == <<Write([X EXCEPT !.items = Front(X.items)]),
                      Write([Y EXCEPT !.items = <<Last(X.items)>> \o Y.items])>>
         IN Finish(low, <<ParentOver(low)>>)
  BY <1>1 DEF GiveToRightLeaf, CanGiveRight
<1>a. PICK u, w : u = Front(X.items) /\ w = <<Last(X.items)>> \o Y.items
  OBVIOUS
<1>3. PICK a, b : a = [X EXCEPT !.items = u] /\ b = [Y EXCEPT !.items = w]
  OBVIOUS
<1>4. PICK low : low = <<Write(a), Write(b)>>
  OBVIOUS
<1>5. Finish(low, <<ParentOver(low)>>)
  BY <1>2, <1>a, <1>3, <1>4
<1>6. PICK mem, n, t, f, P, j, S : PairCall(mem, n, t, f, P, j, X, Y, S) /\ Proper(Y)
  BY <1>1, <1>2, RightCall
<1>7. IsDuo(X, Y, S) /\ Mid(mem, n, t, f) /\ Typed
  BY <1>6 DEF PairCall
<1>8. /\ X.leaf \in BOOLEAN /\ Y.leaf = X.leaf /\ X.items \in Seq(S) /\ Y.items \in Seq(S)
      /\ IsMade(X, X.id, X.leaf, X.items, X.next) /\ IsMade(Y, Y.id, X.leaf, Y.items, Y.next)
      /\ Len(X.items) \in Nat /\ Len(Y.items) \in Nat
  BY <1>7 DEF IsDuo
<1>9. KeyCount(X) = MaxKeys(X) + 1 /\ MaxKeys(X) \in Nat /\ MaxKeys(X) >= 2
  <2>1. KeyCount(call.node) = MaxKeys(call.node) + 1
    BY <1>2, <1>7, CallSize
  <2>2. MaxKeys(X) \in Nat /\ MaxKeys(X) >= 2
    BY <1>7, <1>8, MaxFacts
  <2>. QED
    BY <1>1, <2>1, <2>2
<1>10. Len(X.items) = MaxKeys(X) + 1 /\ Len(Y.items) < MaxKeys(X)
  BY <1>2, <1>8, <1>9 DEF KeyCount, MaxKeys
<1>11. /\ u \in Seq(S) /\ w \in Seq(S)
       /\ Len(u) = Len(X.items) - 1 /\ Len(w) = Len(Y.items) + 1
       /\ IsJoin(u, w, X.items \o Y.items)
  <2>1. Len(X.items) >= 1
    BY <1>9, <1>10
  <2>. QED
    BY <1>a, <1>8, <2>1, JoinGive, ZenonT(60)
<1>12. IsJoin(X.items, Y.items, X.items \o Y.items)
  BY <1>8, JoinConcat
<1>13. IsMade(a, X.id, X.leaf, u, X.next) /\ a.keys = X.keys
  BY <1>3, <1>8, ItemsChanged
<1>14. IsMade(b, Y.id, X.leaf, w, Y.next) /\ b.keys = Y.keys
  BY <1>3, <1>8, ItemsChanged
<1>15. a.items = u /\ b.items = w /\ a.leaf = X.leaf /\ b.leaf = X.leaf
  BY <1>13, <1>14 DEF IsMade
<1>16. Proper(a) /\ Proper(b)
  <2>1. KeyCount(a) = Len(X.items) - 1 /\ KeyCount(b) = Len(Y.items) + 1
    BY <1>2, <1>11, <1>15 DEF KeyCount
  <2>2. MaxKeys(a) = MaxKeys(X) /\ MaxKeys(b) = MaxKeys(X)
    BY <1>15 DEF MaxKeys
  <2>. QED
    BY <2>1, <2>2, <1>8, <1>9, <1>10 DEF Proper
<1>17. PairNew(X, Y, a, b)
  BY <1>2, <1>7, <1>11, <1>12, <1>13, <1>14, <1>15, <1>16, PairNewIf
<1>. QED
  BY <1>2, <1>4, <1>5, <1>6, <1>17, PairSplitKeeps

\* try_give_to_left_leaf keeps the invariant.
LEMMA GiveToLeftKeeps ==
    ASSUME KeysAssumption, CapacityAssumption, IInv, GiveToLeftLeaf
    PROVE  Keeps
<1>1. PICK X, Y : X = LeftSibling /\ Y = call.node
  OBVIOUS
<1>2. /\ call.fn = "split" /\ Y.leaf /\ ~IsRoot /\ HasLeft /\ Len(X.items) < MaxKeys(X)
      /\ LET low == <<Write([X EXCEPT !.items = Append(X.items, Head(Y.items))]),
                      Write([Y EXCEPT !.items = Tail(Y.items)])>>
         IN Finish(low, <<ParentOver(low)>>)
  BY <1>1 DEF GiveToLeftLeaf, CanGiveLeft
<1>a. PICK u, w : u = Append(X.items, Head(Y.items)) /\ w = Tail(Y.items)
  OBVIOUS
<1>3. PICK a, b : a = [X EXCEPT !.items = u] /\ b = [Y EXCEPT !.items = w]
  OBVIOUS
<1>4. PICK low : low = <<Write(a), Write(b)>>
  OBVIOUS
<1>5. Finish(low, <<ParentOver(low)>>)
  BY <1>2, <1>a, <1>3, <1>4
<1>6. PICK mem, n, t, f, P, j, S : PairCall(mem, n, t, f, P, j, X, Y, S) /\ Proper(X)
  BY <1>1, <1>2, LeftCall
<1>7. IsDuo(X, Y, S) /\ Mid(mem, n, t, f) /\ Typed
  BY <1>6 DEF PairCall
<1>8. /\ X.leaf \in BOOLEAN /\ Y.leaf = X.leaf /\ X.items \in Seq(S) /\ Y.items \in Seq(S)
      /\ IsMade(X, X.id, X.leaf, X.items, X.next) /\ IsMade(Y, Y.id, X.leaf, Y.items, Y.next)
      /\ Len(X.items) \in Nat /\ Len(Y.items) \in Nat
  BY <1>7 DEF IsDuo
<1>9. KeyCount(Y) = MaxKeys(Y) + 1 /\ MaxKeys(Y) \in Nat /\ MaxKeys(Y) >= 2
  <2>1. KeyCount(call.node) = MaxKeys(call.node) + 1
    BY <1>2, <1>7, CallSize
  <2>2. MaxKeys(Y) \in Nat /\ MaxKeys(Y) >= 2
    BY <1>7, <1>8, MaxFacts
  <2>. QED
    BY <1>1, <2>1, <2>2
<1>10. Len(Y.items) = MaxKeys(Y) + 1 /\ Len(X.items) < MaxKeys(Y)
  BY <1>2, <1>8, <1>9 DEF KeyCount, MaxKeys
<1>11. /\ u \in Seq(S) /\ w \in Seq(S)
       /\ Len(u) = Len(X.items) + 1 /\ Len(w) = Len(Y.items) - 1
       /\ IsJoin(u, w, X.items \o Y.items)
  <2>1. Len(Y.items) >= 1
    BY <1>9, <1>10
  <2>. QED
    BY <1>a, <1>8, <2>1, JoinTake
<1>12. IsJoin(X.items, Y.items, X.items \o Y.items)
  BY <1>8, JoinConcat
<1>13. IsMade(a, X.id, X.leaf, u, X.next) /\ a.keys = X.keys
  BY <1>3, <1>8, ItemsChanged
<1>14. IsMade(b, Y.id, X.leaf, w, Y.next) /\ b.keys = Y.keys
  BY <1>3, <1>8, ItemsChanged
<1>15. a.items = u /\ b.items = w /\ a.leaf = X.leaf /\ b.leaf = X.leaf
  BY <1>13, <1>14 DEF IsMade
<1>16. Proper(a) /\ Proper(b)
  <2>1. KeyCount(a) = Len(X.items) + 1 /\ KeyCount(b) = Len(Y.items) - 1
    BY <1>2, <1>8, <1>11, <1>15 DEF KeyCount
  <2>2. MaxKeys(a) = MaxKeys(Y) /\ MaxKeys(b) = MaxKeys(Y)
    BY <1>8, <1>15 DEF MaxKeys
  <2>. QED
    BY <2>1, <2>2, <1>8, <1>9, <1>10 DEF Proper
<1>17. PairNew(X, Y, a, b)
  BY <1>2, <1>7, <1>8, <1>11, <1>12, <1>13, <1>14, <1>15, <1>16, PairNewIf
<1>. QED
  BY <1>2, <1>4, <1>5, <1>6, <1>17, PairSplitKeeps

\* min_leaf_key_count and min_internal_key_count are at least two, and at most the
\* capacity.
LEMMA MinFacts ==
    ASSUME CapacityAssumption, Typed, NEW node, node.leaf \in BOOLEAN
    PROVE  MinKeys(node) \in Nat /\ 2 <= MinKeys(node) /\ MinKeys(node) <= MaxKeys(node)
<1>1. MaxKeys(node) \in Nat /\ MaxKeys(node) >= 2
  BY MaxFacts
<1>2. MinKeys(node) = (2 * MaxKeys(node) + 2) \div 3
  BY DEF MinKeys
<1>3. PICK m \in Nat : m = MaxKeys(node) /\ m >= 2
  BY <1>1
<1>4. (2 * m + 2) \div 3 \in Nat /\ 2 <= (2 * m + 2) \div 3 /\ (2 * m + 2) \div 3 <= m
  BY <1>3
<1>. QED
  BY <1>2, <1>3, <1>4

\* How many keys the entries stand for.
Amount(leaf, items) == IF leaf THEN Len(items) ELSE Len(items) - 1

IsFit(node, items) == 1 <= Amount(node.leaf, items) /\ Amount(node.leaf, items) <= MaxKeys(node)

\* The two nodes get u and w, parts of what they had together.
LEMMA PairHolding ==
    ASSUME NEW X, NEW Y, NEW S, IsDuo(X, Y, S), NEW u \in Seq(S), NEW w \in Seq(S),
           IsJoin(u, w, X.items \o Y.items), IsFit(X, u), IsFit(X, w),
           NEW a, NEW b, a = Holding(pages, X, u), b = Holding(pages, Y, w)
    PROVE  PairNew(X, Y, a, b)
<1>1. /\ X.leaf \in BOOLEAN /\ Y.leaf = X.leaf /\ X.items \in Seq(S) /\ Y.items \in Seq(S)
      /\ IsMade(X, X.id, X.leaf, X.items, X.next) /\ IsMade(Y, Y.id, X.leaf, Y.items, Y.next)
  BY DEF IsDuo
<1>2. IsMade(a, X.id, X.leaf, u, X.next) /\ (X.leaf => a.keys = X.keys) /\ (~X.leaf => IsRebuilt(pages, a))
  BY <1>1, HoldingMade
<1>3. IsMade(b, Y.id, X.leaf, w, Y.next) /\ (X.leaf => b.keys = Y.keys) /\ (~X.leaf => IsRebuilt(pages, b))
  BY <1>1, HoldingMade
<1>4. a.items = u /\ b.items = w /\ a.leaf = X.leaf /\ b.leaf = X.leaf
  BY <1>2, <1>3 DEF IsMade
<1>5. Proper(a) /\ Proper(b)
  BY <1>4 DEF Proper, KeyCount, MaxKeys, IsFit, Amount
<1>6. PICK e : e = X.items \o Y.items
  OBVIOUS
<1>7. IsJoin(X.items, Y.items, e) /\ IsJoin(a.items, b.items, e)
  BY <1>1, <1>4, <1>6, JoinConcat
<1>. QED
  BY <1>2, <1>3, <1>4, <1>5, <1>7, PairNewIf

\* Borrowing from the left sibling keeps the invariant.
LEMMA BorrowLeftKeeps ==
    ASSUME KeysAssumption, CapacityAssumption, IInv, BorrowFromLeft
    PROVE  Keeps
<1>1. PICK X, Y : X = LeftSibling /\ Y = call.node
  OBVIOUS
<1>2. /\ call.fn = "underflow" /\ HasLeft /\ KeyCount(X) > MinKeys(X)
      /\ LET low == <<Write(Holding(pages, X, Front(X.items))),
                      Write(Holding(pages, Y, <<Last(X.items)>> \o Y.items))>>
         IN Finish(low, ParentAndAbove(low))
  BY <1>1 DEF BorrowFromLeft, CanBorrowLeft
<1>3. PICK u, w : u = Front(X.items) /\ w = <<Last(X.items)>> \o Y.items
  OBVIOUS
<1>4. PICK a, b : a = Holding(pages, X, u) /\ b = Holding(pages, Y, w)
  OBVIOUS
<1>5. PICK low : low = <<Write(a), Write(b)>>
  OBVIOUS
<1>6. Finish(low, ParentAndAbove(low))
  BY <1>2, <1>3, <1>4, <1>5
<1>7. ~IsRoot
  <2>1. PICK mem, n, t, f : Mid(mem, n, t, f)
    BY <1>2, CallFacts
  <2>. QED
    BY <1>2, <2>1, CallSize
<1>8. PICK mem, n, t, f, P, j, S : PairCall(mem, n, t, f, P, j, X, Y, S) /\ Proper(X)
  BY <1>1, <1>2, <1>7, LeftCall
<1>9. IsDuo(X, Y, S) /\ Mid(mem, n, t, f) /\ Typed
  BY <1>8 DEF PairCall
<1>10. /\ X.leaf \in BOOLEAN /\ Y.leaf = X.leaf /\ X.items \in Seq(S) /\ Y.items \in Seq(S)
       /\ Len(X.items) \in Nat /\ Len(Y.items) \in Nat
  BY <1>9 DEF IsDuo
<1>11. KeyCount(Y) < MinKeys(Y) /\ (~Y.leaf => Len(Y.items) >= 1)
  BY <1>1, <1>2, <1>9, CallSize
<1>12. MinKeys(X) \in Nat /\ 2 <= MinKeys(X) /\ MinKeys(X) <= MaxKeys(X) /\ MaxKeys(X) \in Nat
  BY <1>9, <1>10, MinFacts, MaxFacts
<1>13. MinKeys(Y) = MinKeys(X)
  BY <1>10 DEF MinKeys, MaxKeys
<1>14. Len(X.items) >= 1
  BY <1>2, <1>10, <1>12 DEF KeyCount
<1>15. u \in Seq(S) /\ w \in Seq(S) /\ Len(u) = Len(X.items) - 1 /\ Len(w) = Len(Y.items) + 1
       /\ IsJoin(u, w, X.items \o Y.items)
  BY <1>3, <1>10, <1>14, JoinGive, ZenonT(60)
<1>16. Amount(X.leaf, u) = KeyCount(X) - 1 /\ Amount(X.leaf, w) = KeyCount(Y) + 1
  BY <1>10, <1>15 DEF Amount, KeyCount
<1>17. KeyCount(X) \in Int /\ KeyCount(Y) \in Int /\ KeyCount(Y) >= 0 /\ KeyCount(X) <= MaxKeys(X)
  BY <1>8, <1>10, <1>11 DEF KeyCount, Proper
<1>18. IsFit(X, u) /\ IsFit(X, w)
  BY <1>2, <1>11, <1>12, <1>13, <1>16, <1>17 DEF IsFit
<1>19. PairNew(X, Y, a, b)
  BY <1>4, <1>9, <1>15, <1>18, PairHolding
<1>. QED
  BY <1>2, <1>5, <1>6, <1>8, <1>19, PairUnderflowKeeps

\* Borrowing from the right sibling keeps the invariant.
LEMMA BorrowRightKeeps ==
    ASSUME KeysAssumption, CapacityAssumption, IInv, BorrowFromRight
    PROVE  Keeps
<1>1. PICK X, Y : X = call.node /\ Y = RightSibling
  OBVIOUS
<1>2. /\ call.fn = "underflow" /\ HasRight /\ KeyCount(Y) > MinKeys(Y)
      /\ LET low == <<Write(Holding(pages, X, Append(X.items, Head(Y.items)))),
                      Write(Holding(pages, Y, Tail(Y.items)))>>
         IN Finish(low, ParentAndAbove(low))
  BY <1>1 DEF BorrowFromRight, CanBorrowRight
<1>3. PICK u, w : u = Append(X.items, Head(Y.items)) /\ w = Tail(Y.items)
  OBVIOUS
<1>4. PICK a, b : a = Holding(pages, X, u) /\ b = Holding(pages, Y, w)
  OBVIOUS
<1>5. PICK low : low = <<Write(a), Write(b)>>
  OBVIOUS
<1>6. Finish(low, ParentAndAbove(low))
  BY <1>2, <1>3, <1>4, <1>5
<1>7. ~IsRoot
  <2>1. PICK mem, n, t, f : Mid(mem, n, t, f)
    BY <1>2, CallFacts
  <2>. QED
    BY <1>2, <2>1, CallSize
<1>8. PICK mem, n, t, f, P, j, S : PairCall(mem, n, t, f, P, j, X, Y, S) /\ Proper(Y)
  BY <1>1, <1>2, <1>7, RightCall
<1>9. IsDuo(X, Y, S) /\ Mid(mem, n, t, f) /\ Typed
  BY <1>8 DEF PairCall
<1>10. /\ X.leaf \in BOOLEAN /\ Y.leaf = X.leaf /\ X.items \in Seq(S) /\ Y.items \in Seq(S)
       /\ Len(X.items) \in Nat /\ Len(Y.items) \in Nat
  BY <1>9 DEF IsDuo
<1>11. KeyCount(X) < MinKeys(X) /\ (~X.leaf => Len(X.items) >= 1)
  BY <1>1, <1>2, <1>9, CallSize
<1>12. MinKeys(X) \in Nat /\ 2 <= MinKeys(X) /\ MinKeys(X) <= MaxKeys(X) /\ MaxKeys(X) \in Nat
  BY <1>9, <1>10, MinFacts, MaxFacts
<1>13. MinKeys(Y) = MinKeys(X) /\ MaxKeys(Y) = MaxKeys(X)
  BY <1>10 DEF MinKeys, MaxKeys
<1>14. Len(Y.items) >= 1
  BY <1>2, <1>10, <1>12, <1>13 DEF KeyCount
<1>15. u \in Seq(S) /\ w \in Seq(S) /\ Len(u) = Len(X.items) + 1 /\ Len(w) = Len(Y.items) - 1
       /\ IsJoin(u, w, X.items \o Y.items)
  BY <1>3, <1>10, <1>14, JoinTake
<1>16. Amount(X.leaf, u) = KeyCount(X) + 1 /\ Amount(X.leaf, w) = KeyCount(Y) - 1
  BY <1>10, <1>15 DEF Amount, KeyCount
<1>17. KeyCount(X) \in Int /\ KeyCount(Y) \in Int /\ KeyCount(X) >= 0 /\ KeyCount(Y) <= MaxKeys(Y)
  BY <1>8, <1>10, <1>11 DEF KeyCount, Proper
<1>18. IsFit(X, u) /\ IsFit(X, w)
  BY <1>2, <1>11, <1>12, <1>13, <1>16, <1>17 DEF IsFit
<1>19. PairNew(X, Y, a, b)
  BY <1>4, <1>9, <1>15, <1>18, PairHolding
<1>. QED
  BY <1>2, <1>5, <1>6, <1>8, <1>19, PairUnderflowKeeps

\* redistribute_leaf_pair, redistribute_internal_pair.
CanHalve(X, Y, z) ==
    /\ z = Len(X.items) + Len(Y.items)
    /\ X.leaf => 2 <= z /\ z <= 2 * MaxKeys(X)
    /\ ~X.leaf => 4 <= z /\ z <= 2 * MaxKeys(X) + 2

\* redistribute_leaf_pair and redistribute_internal_pair give each node a number
\* of keys that it may have.
LEMMA HalvesNew ==
    ASSUME CapacityAssumption, Typed, NEW X, NEW Y, NEW S, IsDuo(X, Y, S), NEW z, CanHalve(X, Y, z),
           Redistribute(X, Y)
    PROVE  \E a, b, low : PairNew(X, Y, a, b) /\ low = <<Write(a), Write(b)>> /\ Finish(low, ParentAndAbove(low))
<1>1. PICK e : e = X.items \o Y.items
  OBVIOUS
<1>2. PICK h : h = (Len(e) + 1) \div 2
  OBVIOUS
<1>3. PICK u, w : u = SubSeq(e, 1, h) /\ w = SubSeq(e, h + 1, Len(e))
  OBVIOUS
<1>4. PICK a, b : a = Holding(pages, X, u) /\ b = Holding(pages, Y, w)
  OBVIOUS
<1>5. PICK low : low = <<Write(a), Write(b)>>
  OBVIOUS
<1>6. Finish(low, ParentAndAbove(low))
  BY <1>1, <1>2, <1>3, <1>4, <1>5 DEF Redistribute
<1>7. /\ X.leaf \in BOOLEAN /\ X.items \in Seq(S) /\ Y.items \in Seq(S)
      /\ Len(X.items) \in Nat /\ Len(Y.items) \in Nat
  BY DEF IsDuo
<1>8. e \in Seq(S) /\ IsJoin(X.items, Y.items, e)
  BY <1>1, <1>7, JoinConcat
<1>9. Len(e) = z /\ z \in Nat
  <2>1. Len(e) = Len(X.items) + Len(Y.items)
    BY <1>8 DEF IsJoin
  <2>2. z = Len(X.items) + Len(Y.items)
    BY DEF CanHalve
  <2>3. PICK x, y : x = Len(X.items) /\ y = Len(Y.items)
    OBVIOUS
  <2>4. x \in Nat /\ y \in Nat /\ z = x + y
    BY <2>2, <2>3, <1>7
  <2>5. z \in Nat
    BY <2>4
  <2>. QED
    BY <2>1, <2>2, <2>5
<1>10. MaxKeys(X) \in Nat
  BY <1>7, MaxFacts
<1>11. z >= 2
  <2>1. CASE X.leaf
    BY <2>1, <1>9 DEF CanHalve
  <2>2. CASE ~X.leaf
    <3>1. 4 <= z
      BY <2>2 DEF CanHalve
    <3>. QED
      BY <3>1, <1>9
  <2>. QED
    BY <2>1, <2>2
<1>12. h = (z + 1) \div 2
  BY <1>2, <1>9
<1>13. h \in Nat /\ h <= z /\ 2 * h >= z /\ 2 * h <= z + 1
  BY <1>9, <1>11, <1>12
<1>14. h \in 0..Len(e)
  BY <1>9, <1>13
<1>15. /\ u \in Seq(S) /\ w \in Seq(S) /\ Len(u) = h /\ Len(w) = Len(e) - h
       /\ IsJoin(u, w, e)
  BY <1>3, <1>8, <1>14, JoinCut
<1>16. Len(w) = z - h
  BY <1>9, <1>15
<1>17. IsFit(X, u) /\ IsFit(X, w)
  <2>1. CASE X.leaf
    <3>1. z <= 2 * MaxKeys(X)
      BY <2>1 DEF CanHalve
    <3>2. 1 <= h /\ h <= MaxKeys(X) /\ 1 <= z - h /\ z - h <= MaxKeys(X)
      BY <3>1, <1>9, <1>10, <1>11, <1>13
    <3>. QED
      BY <2>1, <3>2, <1>15, <1>16 DEF IsFit, Amount
  <2>2. CASE ~X.leaf
    <3>1. 4 <= z /\ z <= 2 * MaxKeys(X) + 2
      BY <2>2 DEF CanHalve
    <3>2. 1 <= h - 1 /\ h - 1 <= MaxKeys(X) /\ 1 <= z - h - 1 /\ z - h - 1 <= MaxKeys(X)
      BY <3>1, <1>9, <1>10, <1>13
    <3>. QED
      BY <2>2, <3>2, <1>15, <1>16 DEF IsFit, Amount
  <2>. QED
    BY <2>1, <2>2
<1>18. IsJoin(u, w, X.items \o Y.items)
  BY <1>1, <1>15
<1>19. PairNew(X, Y, a, b)
  BY <1>4, <1>15, <1>17, <1>18, PairHolding
<1>. QED
  BY <1>5, <1>6, <1>19

\* try_redistribute_internal_with_right, ..._with_left.
LEMMA ShareKeeps ==
    ASSUME KeysAssumption, CapacityAssumption, call.fn = "split", ~call.node.leaf,
           NEW mem, NEW n, NEW t, NEW f, NEW P, NEW j, NEW X, NEW Y, NEW S,
           PairCall(mem, n, t, f, P, j, X, Y, S), CanShare(X, Y), Redistribute(X, Y)
    PROVE  Keeps
<1>1. /\ IsDuo(X, Y, S) /\ Mid(mem, n, t, f) /\ Typed
      /\ (X = call.node /\ Proper(Y)) \/ (Y = call.node /\ Proper(X))
  BY DEF PairCall
<1>2. /\ X.leaf \in BOOLEAN /\ Y.leaf = X.leaf /\ Len(X.items) \in Nat /\ Len(Y.items) \in Nat
  BY <1>1 DEF IsDuo
<1>3. KeyCount(call.node) = MaxKeys(call.node) + 1
  BY <1>1, CallSize
<1>4. MaxKeys(X) \in Nat /\ MaxKeys(X) >= 2
  BY <1>1, <1>2, MaxFacts
<1>5. ~X.leaf /\ MaxKeys(Y) = MaxKeys(X) /\ MaxKeys(call.node) = MaxKeys(X)
  BY <1>1, <1>2 DEF MaxKeys
<1>6. PICK z : z = Len(X.items) + Len(Y.items)
  OBVIOUS
<1>65. PICK x \in Nat, y \in Nat, m \in Nat : x = Len(X.items) /\ y = Len(Y.items) /\ m = MaxKeys(X)
  BY <1>2, <1>4
<1>66. z = x + y
  BY <1>6, <1>65
<1>7. z <= 2 * MaxKeys(X) + 2
  <2>1. x + y <= 2 * (m + 1)
    BY <1>65 DEF CanShare
  <2>2. z <= 2 * m + 2
    BY <2>1, <1>66
  <2>. QED
    BY <2>2, <1>65
<1>8. 4 <= z
  <2>1. CASE X = call.node /\ Proper(Y)
    <3>1. KeyCount(X) = Len(X.items) - 1 /\ KeyCount(Y) = Len(Y.items) - 1
      BY <1>2, <1>5 DEF KeyCount
    <3>2. KeyCount(X) = MaxKeys(X) + 1 /\ 1 <= KeyCount(Y)
      BY <2>1, <1>3 DEF Proper
    <3>3. x - 1 = m + 1 /\ 1 <= y - 1 /\ m >= 2
      BY <3>1, <3>2, <1>4, <1>65
    <3>. QED
      BY <3>3, <1>66
  <2>2. CASE Y = call.node /\ Proper(X)
    <3>1. KeyCount(X) = Len(X.items) - 1 /\ KeyCount(Y) = Len(Y.items) - 1
      BY <1>2, <1>5 DEF KeyCount
    <3>2. KeyCount(Y) = MaxKeys(X) + 1 /\ 1 <= KeyCount(X)
      BY <2>2, <1>3, <1>5 DEF Proper
    <3>3. y - 1 = m + 1 /\ 1 <= x - 1 /\ m >= 2
      BY <3>1, <3>2, <1>4, <1>65
    <3>. QED
      BY <3>3, <1>66
  <2>. QED
    BY <1>1, <2>1, <2>2
<1>9. PICK a, b, low : PairNew(X, Y, a, b) /\ low = <<Write(a), Write(b)>> /\ Finish(low, ParentAndAbove(low))
  <2>1. CanHalve(X, Y, z)
    BY <1>5, <1>6, <1>7, <1>8 DEF CanHalve
  <2>. QED
    BY <1>1, <2>1, HalvesNew
<1>. QED
  BY <1>9, PairSplitKeeps

\* try_redistribute_internal_with_right and ..._with_left keep the invariant.
LEMMA ShareWithSiblingKeeps ==
    ASSUME KeysAssumption, CapacityAssumption, IInv, ShareWithSibling
    PROVE  Keeps
<1>1. call.fn = "split" /\ ~call.node.leaf /\ ~IsRoot
  BY DEF ShareWithSibling
<1>2. CASE HasRight /\ CanShare(call.node, RightSibling) /\ Redistribute(call.node, RightSibling)
  <2>1. PICK mem, n, t, f, P, j, S : PairCall(mem, n, t, f, P, j, call.node, RightSibling, S)
    BY <1>1, <1>2, RightCall
  <2>. QED
    BY <1>1, <1>2, <2>1, ShareKeeps
<1>3. CASE HasLeft /\ CanShare(LeftSibling, call.node) /\ Redistribute(LeftSibling, call.node)
  <2>1. PICK mem, n, t, f, P, j, S : PairCall(mem, n, t, f, P, j, LeftSibling, call.node, S)
    BY <1>1, <1>3, LeftCall
  <2>. QED
    BY <1>1, <1>3, <2>1, ShareKeeps
<1>. QED
  BY <1>2, <1>3 DEF ShareWithSibling

\* The pair of an underflow.
LEMMA UnderflowPair ==
    ASSUME CapacityAssumption, IInv, call.fn = "underflow"
    PROVE  \E mem, n, t, f, P, j, S :
               PairCall(mem, n, t, f, P, j, PairOnUnderflow[1], PairOnUnderflow[2], S)
<1>1. PICK mem, n, t, f : Mid(mem, n, t, f)
  BY CallFacts
<1>2. ~IsRoot
  BY <1>1, CallSize
<1>3. HasLeft \/ HasRight
  BY <1>1, <1>2, CallPair
<1>4. CASE HasLeft
  <2>1. PairOnUnderflow[1] = LeftSibling /\ PairOnUnderflow[2] = call.node
    BY <1>4 DEF PairOnUnderflow
  <2>2. \E m, x, y, z, P, j, S : PairCall(m, x, y, z, P, j, LeftSibling, call.node, S)
    BY <1>2, <1>4, LeftCall
  <2>. QED
    BY <2>1, <2>2
<1>5. CASE ~HasLeft
  <2>1. PairOnUnderflow[1] = call.node /\ PairOnUnderflow[2] = RightSibling
    BY <1>5 DEF PairOnUnderflow
  <2>2. \E m, x, y, z, P, j, S : PairCall(m, x, y, z, P, j, call.node, RightSibling, S)
    BY <1>2, <1>3, <1>5, RightCall
  <2>. QED
    BY <2>1, <2>2
<1>. QED
  BY <1>4, <1>5

\* What the two nodes of an underflow hold together.
Together(X, Y, z) == z = Len(X.items) + Len(Y.items)

\* What two siblings hold when one has too few keys and the other none to give.
LEMMA UnderflowSizes ==
    ASSUME CapacityAssumption, call.fn = "underflow",
           NEW mem, NEW n, NEW t, NEW f, NEW P, NEW j, NEW X, NEW Y, NEW S,
           PairCall(mem, n, t, f, P, j, X, Y, S), NEW z, Together(X, Y, z)
    PROVE  /\ z \in Nat /\ X.leaf \in BOOLEAN /\ MaxKeys(X) \in Nat /\ MaxKeys(X) >= 2
           /\ X.leaf => 1 <= z /\ z <= 2 * MaxKeys(X)
           /\ ~X.leaf => 3 <= z /\ z <= 2 * MaxKeys(X) + 1
<1>1. /\ IsDuo(X, Y, S) /\ Mid(mem, n, t, f) /\ Typed
      /\ (X = call.node /\ Proper(Y)) \/ (Y = call.node /\ Proper(X))
  BY DEF PairCall
<1>2. /\ X.leaf \in BOOLEAN /\ Y.leaf = X.leaf /\ Len(X.items) \in Nat /\ Len(Y.items) \in Nat
  BY <1>1 DEF IsDuo
<1>3. KeyCount(call.node) < MinKeys(call.node) /\ (~call.node.leaf => Len(call.node.items) >= 1)
  BY <1>1, CallSize
<1>4. /\ MaxKeys(X) \in Nat /\ MaxKeys(X) >= 2
      /\ MinKeys(X) \in Nat /\ 2 <= MinKeys(X) /\ MinKeys(X) <= MaxKeys(X)
  BY <1>1, <1>2, MaxFacts, MinFacts
<1>5. /\ MaxKeys(Y) = MaxKeys(X) /\ MinKeys(call.node) = MinKeys(X) /\ call.node.leaf = X.leaf
  BY <1>1, <1>2 DEF MaxKeys, MinKeys
<1>55. PICK x \in Nat, y \in Nat, m \in Nat, h \in Nat :
           x = Len(X.items) /\ y = Len(Y.items) /\ m = MaxKeys(X) /\ h = MinKeys(X)
  BY <1>2, <1>4
<1>56. z = x + y /\ h <= m /\ m >= 2
  BY <1>4, <1>55 DEF Together
<1>57. z \in Nat
  BY <1>56
<1>6. CASE X = call.node /\ Proper(Y)
  <2>1. KeyCount(X) < MinKeys(X) /\ 1 <= KeyCount(Y) /\ KeyCount(Y) <= MaxKeys(X)
        /\ (~X.leaf => Len(X.items) >= 1)
    BY <1>6, <1>3, <1>5 DEF Proper
  <2>2. CASE X.leaf
    <3>1. KeyCount(X) = Len(X.items) /\ KeyCount(Y) = Len(Y.items)
      BY <2>2, <1>2 DEF KeyCount
    <3>2. x < h /\ 1 <= y /\ y <= m
      BY <2>1, <3>1, <1>55
    <3>3. 1 <= z /\ z <= 2 * m
      BY <3>2, <1>56
    <3>. QED
      BY <2>2, <3>3, <1>2, <1>4, <1>55, <1>57
  <2>3. CASE ~X.leaf
    <3>1. KeyCount(X) = Len(X.items) - 1 /\ KeyCount(Y) = Len(Y.items) - 1
      BY <2>3, <1>2 DEF KeyCount
    <3>2. x - 1 < h /\ 1 <= y - 1 /\ y - 1 <= m /\ 1 <= x
      BY <2>1, <2>3, <3>1, <1>55
    <3>3. 3 <= z /\ z <= 2 * m + 1
      BY <3>2, <1>56
    <3>. QED
      BY <2>3, <3>3, <1>2, <1>4, <1>55, <1>57
  <2>. QED
    BY <2>2, <2>3
<1>7. CASE Y = call.node /\ Proper(X)
  <2>1. KeyCount(Y) < MinKeys(X) /\ 1 <= KeyCount(X) /\ KeyCount(X) <= MaxKeys(X)
        /\ (~X.leaf => Len(Y.items) >= 1)
    BY <1>7, <1>3, <1>5 DEF Proper
  <2>2. CASE X.leaf
    <3>1. KeyCount(X) = Len(X.items) /\ KeyCount(Y) = Len(Y.items)
      BY <2>2, <1>2 DEF KeyCount
    <3>2. y < h /\ 1 <= x /\ x <= m
      BY <2>1, <3>1, <1>55
    <3>3. 1 <= z /\ z <= 2 * m
      BY <3>2, <1>56
    <3>. QED
      BY <2>2, <3>3, <1>2, <1>4, <1>55, <1>57
  <2>3. CASE ~X.leaf
    <3>1. KeyCount(X) = Len(X.items) - 1 /\ KeyCount(Y) = Len(Y.items) - 1
      BY <2>3, <1>2 DEF KeyCount
    <3>2. y - 1 < h /\ 1 <= x - 1 /\ x - 1 <= m /\ 1 <= y
      BY <2>1, <2>3, <3>1, <1>55
    <3>3. 3 <= z /\ z <= 2 * m + 1
      BY <3>2, <1>56
    <3>. QED
      BY <2>3, <3>3, <1>2, <1>4, <1>55, <1>57
  <2>. QED
    BY <2>2, <2>3
<1>. QED
  BY <1>1, <1>6, <1>7

\* The node of both.
LEMMA MergedFacts ==
    ASSUME NEW X, NEW Y, NEW S, IsDuo(X, Y, S), X = PairOnUnderflow[1], Y = PairOnUnderflow[2]
    PROVE  /\ IsMade(Merged, X.id, X.leaf, X.items \o Y.items, Y.next)
           /\ X.leaf => Merged.keys = X.keys
           /\ ~X.leaf => IsRebuilt(pages, Merged)
           /\ X.items \o Y.items \in Seq(S) /\ IsJoin(X.items, Y.items, X.items \o Y.items)
           /\ KeyCount(Merged) = Amount(X.leaf, X.items \o Y.items)
           /\ Len(X.items \o Y.items) = Len(X.items) + Len(Y.items)
           /\ MaxKeys(Merged) = MaxKeys(X)
<1>1. PICK Z, e : Z = [X EXCEPT !.next = Y.next] /\ e = X.items \o Y.items
  OBVIOUS
<1>2. Merged = Holding(pages, Z, e)
  BY <1>1 DEF Merged
<1>3. /\ IsMade(X, X.id, X.leaf, X.items, X.next) /\ X.items \in Seq(S) /\ Y.items \in Seq(S)
  BY DEF IsDuo
<1>4. IsMade(Z, X.id, X.leaf, X.items, Y.next) /\ Z.keys = X.keys
  BY <1>1, <1>3, NextChanged
<1>5. /\ IsMade(Merged, X.id, X.leaf, e, Y.next)
      /\ X.leaf => Merged.keys = Z.keys
      /\ ~X.leaf => IsRebuilt(pages, Merged)
  BY <1>2, <1>4, HoldingMade
<1>6. e \in Seq(S) /\ IsJoin(X.items, Y.items, e)
  BY <1>1, <1>3, JoinConcat
<1>7. Merged.items = e /\ Merged.leaf = X.leaf
  BY <1>5 DEF IsMade
<1>8. KeyCount(Merged) = Amount(X.leaf, e) /\ MaxKeys(Merged) = MaxKeys(X)
  BY <1>7 DEF KeyCount, Amount, MaxKeys
<1>9. Len(e) = Len(X.items) + Len(Y.items)
  BY <1>6 DEF IsJoin
<1>. QED
  BY <1>1, <1>4, <1>5, <1>6, <1>8, <1>9

\* Redistributing on an underflow keeps the invariant.
LEMMA ShareOnUnderflowKeeps ==
    ASSUME KeysAssumption, CapacityAssumption, IInv, ShareOnUnderflow
    PROVE  Keeps
<1>1. PICK X, Y : X = PairOnUnderflow[1] /\ Y = PairOnUnderflow[2]
  OBVIOUS
<1>2. call.fn = "underflow" /\ ~Fits(Merged) /\ Redistribute(X, Y)
  BY <1>1 DEF ShareOnUnderflow
<1>3. PICK mem, n, t, f, P, j, S : PairCall(mem, n, t, f, P, j, X, Y, S)
  BY <1>1, <1>2, UnderflowPair
<1>4. IsDuo(X, Y, S) /\ Typed
  BY <1>3 DEF PairCall
<1>5. PICK z : z = Len(X.items) + Len(Y.items)
  OBVIOUS
<1>6. /\ z \in Nat /\ X.leaf \in BOOLEAN /\ MaxKeys(X) \in Nat /\ MaxKeys(X) >= 2
      /\ X.leaf => 1 <= z /\ z <= 2 * MaxKeys(X)
      /\ ~X.leaf => 3 <= z /\ z <= 2 * MaxKeys(X) + 1
  <2>1. Together(X, Y, z)
    BY <1>5 DEF Together
  <2>. QED
    BY <1>2, <1>3, <2>1, UnderflowSizes
<1>7. KeyCount(Merged) = Amount(X.leaf, X.items \o Y.items) /\ Len(X.items \o Y.items) = z
      /\ MaxKeys(Merged) = MaxKeys(X)
  BY <1>1, <1>4, <1>5, MergedFacts
<1>8. ~(Amount(X.leaf, X.items \o Y.items) <= MaxKeys(X))
  BY <1>2, <1>7 DEF Fits
<1>9. X.leaf => z > MaxKeys(X)
  BY <1>6, <1>7, <1>8 DEF Amount
<1>10. ~X.leaf => z - 1 > MaxKeys(X)
  BY <1>6, <1>7, <1>8 DEF Amount
<1>11. /\ X.leaf => 2 <= z /\ z <= 2 * MaxKeys(X)
       /\ ~X.leaf => 4 <= z /\ z <= 2 * MaxKeys(X) + 2
  BY <1>6, <1>9, <1>10
<1>12. PICK a, b, low : PairNew(X, Y, a, b) /\ low = <<Write(a), Write(b)>> /\ Finish(low, ParentAndAbove(low))
  <2>1. CanHalve(X, Y, z)
    BY <1>5, <1>11 DEF CanHalve
  <2>. QED
    BY <1>2, <1>4, <2>1, HalvesNew
<1>. QED
  BY <1>2, <1>3, <1>12, PairUnderflowKeeps

-----------------------------------------------------------------------------
(* Two siblings become one.                                                 *)

\* The first leaf of the whole tree is not that of a later sibling, nor is it
\* that sibling.
LEMMA FirstStays ==
    ASSUME NEW mem, NEW n, NEW t, NEW f, Mid(mem, n, t, f), ~IsRoot,
           NEW P, NEW j, NEW l, NEW r, AreSiblings(mem, t, P, j, l, r), n \in {l, r}
    PROVE  meta.first # r
<1>1. /\ Holds(meta.kind, mem, meta.root, t, n, f) /\ Tells(meta, held, t)
      /\ IsRoute(mem, t, call.path, meta.root, n)
  BY DEF Mid
<1>2. /\ Tree(mem, meta.root, t) /\ NoneChildless(mem, t) /\ \A p \in t.nodes : NodeOK(mem, t, p)
      /\ Size(mem, P) \in Nat
  BY <1>1, HoldsFacts DEF AreSiblings
<1>3. SiblingShape(mem, t, P, l, r)
  BY <1>2, SiblingFacts
<1>4. /\ P \in t.nodes /\ ~mem[P].leaf /\ j \in 1..(Size(mem, P) - 1) /\ r = mem[P].items[j + 1]
  BY DEF AreSiblings
<1>5. r \in t.nodes /\ t.level[r] = t.level[P] - 1 /\ t.level[l] = t.level[P] - 1 /\ t.parent[r] = P
      /\ t.level[l] \in Nat \ {0} /\ t.level[P] \in Nat
  BY <1>3 DEF SiblingShape
<1>6. j + 1 \in 2..Size(mem, P)
  BY <1>2, <1>4
<1>7. Len(call.path) \in Nat /\ Len(call.path) >= 1 /\ call.path[1] = meta.root
  BY <1>1, RouteFacts
<1>8. 1 \in 1..(Len(call.path) - 1)
  <2>1. Len(call.path) # 1
    BY DEF IsRoot
  <2>2. PICK m : m = Len(call.path)
    OBVIOUS
  <2>3. m \in Nat /\ m >= 1 /\ m # 1
    BY <1>7, <2>1, <2>2
  <2>4. 1 \in 1..(m - 1)
    BY <2>3
  <2>. QED
    BY <2>2, <2>4
<1>9. t.level[meta.root] > t.level[n]
  BY <1>1, <1>2, <1>7, <1>8, RouteAbove
<1>10. meta.root \in t.nodes /\ t.parent[meta.root] = None /\ None \notin t.nodes
  BY <1>2 DEF Tree
<1>11. t.level[meta.root] \in Nat
  BY <1>2, <1>10 DEF NodeOK
<1>12. t.level[n] = t.level[r]
  BY <1>5
<1>13. t.level[meta.root] >= t.level[mem[P].items[j + 1]]
  BY <1>4, <1>5, <1>9, <1>11, <1>12
<1>14. meta.root # r
  BY <1>4, <1>5, <1>10
<1>15. t.first[meta.root] # t.first[r]
  BY <1>2, <1>4, <1>6, <1>10, <1>13, <1>14, NotAbove
<1>16. t.first[meta.root] = meta.first
  BY <1>1 DEF Tells
<1>. SUFFICES ASSUME meta.first = r PROVE FALSE
  OBVIOUS
<1>17. t.level[r] = 1
  BY <1>2, <1>10, <1>16, FirstIsLeaf
<1>18. t.first[r] = r
  BY <1>2, <1>5, <1>17 DEF NodeOK
<1>. QED
  BY <1>15, <1>16, <1>18

\* Two pages of a file are written, the second in memory only.
LEMMA WriteOneWith ==
    ASSUME IsFile(pages), NEW l \in DOMAIN pages, NEW P \in DOMAIN pages, l # P,
           NEW a \in AnyNode, a.id = l, NEW pn \in AnyNode, pn.id = P,
           NEW out, out = Written(pages, <<Write(a)>>), NEW npg, npg = With(out, pn)
    PROVE  /\ Overwrites(pages, <<Write(a)>>) /\ Orderly(Len(pages), <<Write(a)>>)
           /\ IsFile(out) /\ DOMAIN out = DOMAIN pages /\ Len(out) = Len(pages)
           /\ IsFile(npg) /\ DOMAIN npg = DOMAIN pages /\ Len(npg) = Len(pages)
           /\ npg[l] = a /\ npg[P] = pn /\ \A q \in DOMAIN pages \ {l, P} : npg[q] = pages[q]
<1>1. Write(a) = <<l, a>>
  BY DEF Write
<1>2. Overwrites(pages, <<Write(a)>>)
  BY <1>1, OverwriteOne
<1>3. Orderly(Len(pages), <<Write(a)>>)
  BY <1>2, OverwritesAreOrderly
<1>4. IsPut(pages, l, a, out)
  BY <1>1, PutOne
<1>5. DOMAIN out = DOMAIN pages /\ out[l] = a /\ \A q \in DOMAIN pages \ {l} : out[q] = pages[q]
  BY <1>4 DEF IsPut
<1>6. IsFile(out)
  BY <1>3, OrderlyFile
<1>7. Len(out) = Len(pages)
  <2>1. DOMAIN out = 1..Len(pages) /\ Len(pages) \in Nat
    BY <1>5, FileFacts
  <2>. QED
    BY <2>1, WrittenLen
<1>8. /\ IsFile(npg) /\ DOMAIN npg = DOMAIN out /\ Len(npg) = Len(out)
      /\ npg[P] = pn /\ \A q \in DOMAIN out \ {P} : npg[q] = out[q]
  <2>1. pn.id \in DOMAIN out
    BY <1>5
  <2>. QED
    BY <1>6, <2>1, WithFacts
<1>. QED
  BY <1>2, <1>3, <1>5, <1>6, <1>7, <1>8

\* The pages after the merge, with the parent as it is in memory.
IsMerged(mem, P, j, X, npg) ==
    /\ DOMAIN npg = DOMAIN pages /\ npg[X.id] = Merged
    /\ npg[P].id = P /\ npg[P].leaf = mem[P].leaf /\ npg[P].items = RemoveAt(mem[P].items, j + 1)
    /\ \A q \in DOMAIN pages \ {X.id, P} : npg[q] = pages[q]

\* The tree after the merge, with the parent in memory.
LEMMA MergedHolds ==
    ASSUME KeysAssumption, CapacityAssumption, call.fn = "underflow",
           NEW mem, NEW n, NEW t, NEW f, NEW P, NEW j, NEW X, NEW Y, NEW S,
           PairCall(mem, n, t, f, P, j, X, Y, S), X = PairOnUnderflow[1], Y = PairOnUnderflow[2], Fits(Merged),
           NEW npg, IsMerged(mem, P, j, X, npg)
    PROVE  \E nt : /\ Holds(meta.kind, npg, meta.root, nt, P, t.first[P]) /\ SameTop(t, nt, meta.root)
                   /\ nt.nodes = t.nodes \ {Y.id} /\ nt.level = t.level /\ nt.first[P] = t.first[P]
<1>0. /\ DOMAIN npg = DOMAIN pages /\ npg[X.id] = Merged
      /\ npg[P].id = P /\ npg[P].leaf = mem[P].leaf /\ npg[P].items = RemoveAt(mem[P].items, j + 1)
      /\ \A q \in DOMAIN pages \ {X.id, P} : npg[q] = pages[q]
  BY DEF IsMerged
<1>1. /\ IsDuo(X, Y, S) /\ Mid(mem, n, t, f) /\ Typed /\ IsPair(mem, t, n, P, j, X, Y)
  BY DEF PairCall
<1>2. PICK l, r : l = X.id /\ r = Y.id
  OBVIOUS
<1>3. AreSiblings(mem, t, P, j, l, r) /\ X = mem[l] /\ Y = mem[r] /\ n \in {l, r}
  BY <1>1, <1>2 DEF IsPair
<1>4. /\ Holds(meta.kind, mem, meta.root, t, n, f) /\ InFile(mem, t) /\ DOMAIN mem = DOMAIN pages
      /\ \A q \in DOMAIN pages \ {n} : mem[q] = pages[q] /\ Len(mem) = Len(pages)
      /\ Len(mem) = Len(pages)
  BY <1>1 DEF Mid
<1>5. Tree(mem, meta.root, t) /\ t.nodes \subseteq DOMAIN pages /\ \A p \in t.nodes : NodeOK(mem, t, p)
  BY <1>4, HoldsFacts DEF Tree
<1>6. SiblingShape(mem, t, P, l, r)
  BY <1>3, <1>5, SiblingFacts
<1>7. l \in t.nodes /\ r \in t.nodes /\ l # r /\ P \notin {l, r} /\ P \in t.nodes
  BY <1>3, <1>6 DEF SiblingShape, AreSiblings
<1>8. PICK e : e = X.items \o Y.items
  OBVIOUS
<1>9. /\ IsMade(Merged, X.id, X.leaf, e, Y.next)
      /\ ~X.leaf => IsRebuilt(pages, Merged)
      /\ e \in Seq(S) /\ IsJoin(X.items, Y.items, e)
      /\ KeyCount(Merged) = Amount(X.leaf, e) /\ Len(e) = Len(X.items) + Len(Y.items)
      /\ MaxKeys(Merged) = MaxKeys(X)
  BY <1>1, <1>8, MergedFacts
<1>10. Merged.id = l /\ Merged.leaf = mem[l].leaf /\ Merged.items = e
  BY <1>2, <1>3, <1>9 DEF IsMade
<1>11. ItemsOK(X.leaf, e)
  BY <1>1, <1>9 DEF IsDuo
<1>12. Sees(pages, mem, t, {l, r})
  BY <1>3, <1>4, <1>5 DEF Sees, InFile
<1>13. \A p \in t.nodes \ {l, r, P} : npg[p] = mem[p]
  BY <1>0, <1>2, <1>3, <1>4, <1>5
<1>14. PairMerged(mem, t, P, j, l, r, npg, pages)
  BY <1>0, <1>2, <1>3, <1>5, <1>9, <1>10, <1>11, <1>12, <1>13 DEF PairMerged
<1>15. Proper(Merged)
  <2>1. Together(X, Y, Len(e))
    BY <1>9 DEF Together
  <2>2. /\ Len(e) \in Nat /\ X.leaf \in BOOLEAN
        /\ X.leaf => 1 <= Len(e)
        /\ ~X.leaf => 3 <= Len(e)
    BY <2>1, UnderflowSizes
  <2>3. 1 <= Amount(X.leaf, e)
    BY <2>2 DEF Amount
  <2>. QED
    BY <2>3, <1>9 DEF Proper, Fits
<1>16. Sized(meta.kind, npg, l)
  BY <1>0, <1>2, <1>15, ProperIsSized
<1>17. IsJoin(mem[l].items, mem[r].items, npg[l].items)
  BY <1>0, <1>2, <1>3, <1>9, <1>10
<1>18. Hands(t, n, f, P, t.first[P])
  BY <1>1, HandsOver
<1>19. CanJoin(meta.kind, mem, meta.root, t, n, f, P, j, l, r, t.first[P], npg, pages)
  BY <1>3, <1>4, <1>14, <1>16, <1>17, <1>18 DEF CanJoin
<1>. QED
  BY <1>2, <1>19, PairJoined

\* What a child_removed call of the parent then works on.
LEMMA MergeSiblingsKeeps ==
    ASSUME KeysAssumption, CapacityAssumption, IInv, MergeSiblings
    PROVE  Keeps
<1>1. PICK X, Y : X = PairOnUnderflow[1] /\ Y = PairOnUnderflow[2]
  OBVIOUS
<1>2. PICK r, l : r = Y.id /\ l = X.id
  OBVIOUS
<1>3. PICK m : m = [meta EXCEPT !.first = IF meta.first = r THEN Merged.id ELSE meta.first]
  OBVIOUS
<1>4. /\ call.fn = "underflow" /\ Fits(Merged) /\ held' = held
      /\ Do(busy, <<>>, <<Write(Merged)>>, m, WithoutChild(r))
  BY <1>1, <1>2, <1>3 DEF MergeSiblings
<1>5. PICK mem, n, t, f, P, j, S : PairCall(mem, n, t, f, P, j, X, Y, S)
  BY <1>1, <1>4, UnderflowPair
<1>6. /\ IsDuo(X, Y, S) /\ Mid(mem, n, t, f) /\ Typed /\ IsPair(mem, t, n, P, j, X, Y)
      /\ Parent = mem[P]
  BY <1>5 DEF PairCall
<1>7. PICK i : IsParent(mem, t, call.path, meta.root, P, i, n)
  BY <1>5 DEF PairCall
<1>8. AreSiblings(mem, t, P, j, l, r) /\ X = mem[l] /\ Y = mem[r] /\ n \in {l, r}
  BY <1>2, <1>6 DEF IsPair
<1>9. /\ Holds(meta.kind, mem, meta.root, t, n, f) /\ InFile(mem, t) /\ DOMAIN mem = DOMAIN pages
      /\ \A q \in DOMAIN pages \ {n} : mem[q] = pages[q]
      /\ Len(mem) = Len(pages) /\ IsFile(mem) /\ Tells(meta, held, t)
  BY <1>6 DEF Mid
<1>10. /\ Tree(mem, meta.root, t) /\ t.nodes \subseteq DOMAIN pages
       /\ \A p \in t.nodes : NodeOK(mem, t, p) /\ mem[p].id = p
  BY <1>9, HoldsFacts DEF Tree
<1>11. SiblingShape(mem, t, P, l, r)
  BY <1>8, <1>10, SiblingFacts
<1>12. l \in t.nodes /\ r \in t.nodes /\ l # r /\ P \notin {l, r} /\ P \in t.nodes /\ ~mem[P].leaf
       /\ j \in 1..(Size(mem, P) - 1) /\ r = mem[P].items[j + 1]
  BY <1>8, <1>11 DEF SiblingShape, AreSiblings
<1>13. IsFile(pages) /\ busy \in Keys \cup {None} /\ held \subseteq Keys /\ IsFiniteSet(held)
       /\ meta \in MetaType(DOMAIN pages)
  BY <1>6 DEF Typed
<1>14. ~IsRoot
  BY <1>4, <1>6, CallSize
<1>15. meta.first # r
  BY <1>6, <1>8, <1>14, FirstStays
<1>16. m = meta
  BY <1>3, <1>13, <1>15 DEF MetaType
<1>17. InternalShape(mem, t, P)
  BY <1>10, <1>12, InternalFacts
<1>18. Size(mem, P) \in Nat /\ mem[P].items \in Seq(Nat) /\ j + 1 \in 1..Size(mem, P) /\ Size(mem, P) = Len(mem[P].items)
  BY <1>12, <1>17 DEF InternalShape, Size
<1>19. Index(mem[P], r) = j + 1
  BY <1>12, <1>17, <1>18, IndexFacts
<1>20. PICK items : items = RemoveAt(mem[P].items, j + 1)
  OBVIOUS
<1>21. items \in Seq(Nat) /\ Len(items) = Size(mem, P) - 1
  BY <1>18, <1>20, RemoveAtIsRemoval DEF IsRemoval
<1>22. PICK pn : pn = [mem[P] EXCEPT !.items = items]
  OBVIOUS
<1>23. WithoutChild(r) = Call("child_removed", pn, ParentPath)
  BY <1>6, <1>19, <1>20, <1>22 DEF WithoutChild
<1>24. IsNode(mem[P])
  BY <1>9, <1>10, <1>12, FileFacts
<1>25. /\ IsMade(mem[P], P, mem[P].leaf, mem[P].items, mem[P].next) /\ mem[P].keys \in Seq(Keys)
       /\ mem[P].leaf \in BOOLEAN /\ mem[P].next \in Nat \cup {None} /\ mem[P].id \in Nat \cup {None}
  BY <1>10, <1>12, <1>24, NodeIsMade
<1>26. IsMade(pn, P, mem[P].leaf, items, mem[P].next) /\ pn.keys = mem[P].keys
  BY <1>22, <1>25, ItemsChanged
<1>27. pn.id = P /\ pn.leaf = mem[P].leaf /\ pn.items = items
  BY <1>26 DEF IsMade
<1>28. P \in Nat /\ l \in Nat
  BY <1>10, <1>12, <1>13, FileFacts
<1>29. pn \in AnyNode
  <2>1. ItemsOK(mem[P].leaf, items)
    BY <1>12, <1>21 DEF ItemsOK
  <2>. QED
    BY <1>25, <1>26, <1>28, <2>1, MadeIsNode
<1>30. PICK e : e = X.items \o Y.items
  OBVIOUS
<1>31. /\ IsMade(Merged, l, X.leaf, e, Y.next) /\ (X.leaf => Merged.keys = X.keys) /\ e \in Seq(S)
  BY <1>1, <1>2, <1>6, <1>30, MergedFacts
<1>32. Merged.id = l /\ Merged.leaf = X.leaf
  BY <1>31 DEF IsMade
\* The node of the parent is as it will be read back.
<1>33. PICK npg : /\ DOMAIN npg = DOMAIN pages /\ npg[l] = Merged /\ npg[P] = pn
                  /\ \A q \in DOMAIN pages \ {l, P} : npg[q] = pages[q]
  <2>1. PICK npg : npg = [q \in DOMAIN pages |-> IF q = l THEN Merged ELSE IF q = P THEN pn ELSE pages[q]]
    OBVIOUS
  <2>. QED
    BY <2>1, <1>10, <1>12
<1>34. PICK nt : /\ Holds(meta.kind, npg, meta.root, nt, P, t.first[P]) /\ SameTop(t, nt, meta.root)
                 /\ nt.nodes = t.nodes \ {r} /\ nt.level = t.level /\ nt.first[P] = t.first[P]
  <2>1. IsMerged(mem, P, j, X, npg)
    BY <1>2, <1>20, <1>27, <1>33 DEF IsMerged
  <2>2. PairCall(mem, n, t, f, P, j, X, Y, S) /\ X = PairOnUnderflow[1] /\ Y = PairOnUnderflow[2]
    BY <1>1, <1>5
  <2>3. call.fn = "underflow" /\ Fits(Merged)
    BY <1>4
  <2>4. \E x : /\ Holds(meta.kind, npg, meta.root, x, P, t.first[P]) /\ SameTop(t, x, meta.root)
               /\ x.nodes = t.nodes \ {Y.id} /\ x.level = t.level /\ x.first[P] = t.first[P]
    BY <2>1, <2>2, <2>3, MergedHolds
  <2>. QED
    BY <2>4, <1>2
<1>35. Merged.keys \in Seq(Keys)
  <2>1. CASE X.leaf
    <3>1. IsNode(X)
      BY <1>8, <1>9, <1>10, <1>12, FileFacts
    <3>. QED
      BY <2>1, <3>1, <1>31, NodeFields
  <2>2. CASE ~X.leaf
    <3>1. l \in nt.nodes \ {P} /\ ~npg[l].leaf
      BY <2>2, <1>12, <1>32, <1>33, <1>34
    <3>2. Kept(npg, nt, l, t.first[P])
      BY <3>1, <1>34 DEF Holds
    <3>. QED
      BY <3>2, <1>33 DEF Kept, Keyed
  <2>. QED
    BY <2>1, <2>2
<1>36. Merged \in AnyNode
  <2>1. IsNode(X) /\ IsNode(Y)
    BY <1>8, <1>9, <1>10, <1>12, FileFacts
  <2>2. X.leaf \in BOOLEAN /\ Y.next \in Nat \cup {None}
    BY <2>1, NodeFields
  <2>3. ItemsOK(X.leaf, e)
    BY <1>6, <1>31 DEF IsDuo
  <2>. QED
    BY <2>2, <2>3, <1>28, <1>31, <1>35, MadeIsNode
<1>37. PICK out : out = Written(pages, <<Write(Merged)>>)
  OBVIOUS
<1>38. PICK w : w = With(out, pn)
  OBVIOUS
<1>39. l \in DOMAIN pages /\ P \in DOMAIN pages /\ l # P
  BY <1>10, <1>12
<1>40. /\ Orderly(Len(pages), <<Write(Merged)>>)
       /\ IsFile(out) /\ DOMAIN out = DOMAIN pages /\ Len(out) = Len(pages)
       /\ IsFile(w) /\ DOMAIN w = DOMAIN pages /\ Len(w) = Len(pages)
       /\ w[l] = Merged /\ w[P] = pn /\ \A q \in DOMAIN pages \ {l, P} : w[q] = pages[q]
  BY <1>13, <1>27, <1>29, <1>32, <1>36, <1>37, <1>38, <1>39, WriteOneWith
<1>. HIDE <1>33, <1>34
<1>41. PICK wt : /\ Holds(meta.kind, w, meta.root, wt, P, t.first[P]) /\ SameTop(t, wt, meta.root)
                 /\ wt.nodes = t.nodes \ {r} /\ wt.level = t.level /\ wt.first[P] = t.first[P]
  <2>1. IsMerged(mem, P, j, X, w)
    BY <1>2, <1>20, <1>27, <1>40 DEF IsMerged
  <2>2. PairCall(mem, n, t, f, P, j, X, Y, S) /\ X = PairOnUnderflow[1] /\ Y = PairOnUnderflow[2]
    BY <1>1, <1>5
  <2>3. call.fn = "underflow" /\ Fits(Merged)
    BY <1>4
  <2>4. \E x : /\ Holds(meta.kind, w, meta.root, x, P, t.first[P]) /\ SameTop(t, x, meta.root)
               /\ x.nodes = t.nodes \ {Y.id} /\ x.level = t.level /\ x.first[P] = t.first[P]
    BY <2>1, <2>2, <2>3, MergedHolds
  <2>. QED
    BY <2>4, <1>2
<1>42. InFile(w, wt)
  BY <1>9, <1>40, <1>41 DEF InFile
<1>43. Tells(meta, held, wt)
  <2>1. meta.root \in wt.nodes
    BY <1>41, HoldsFacts DEF Tree
  <2>. QED
    BY <2>1, <1>9, <1>41 DEF Tells, SameTop
<1>44. IsRoute(w, wt, ParentPath, meta.root, P)
  <2>1. IsRoute(mem, t, ParentPath, meta.root, P)
    BY <1>7 DEF IsParent, ParentPath
  <2>2. t.level[l] = t.level[P] - 1 /\ t.level[r] = t.level[P] - 1 /\ t.level[P] \in Nat
    BY <1>11 DEF SiblingShape
  <2>3. \A q \in t.nodes \ {l, r, P} : w[q] = mem[q]
    BY <1>8, <1>9, <1>10, <1>40
  <2>4. \A q \in t.nodes : t.level[q] > t.level[P] => q \in wt.nodes /\ w[q].leaf = mem[q].leaf /\ w[q].items = mem[q].items
    BY <1>41, <2>2, <2>3
  <2>5. P \in wt.nodes
    BY <1>12, <1>41
  <2>. QED
    BY <1>10, <2>1, <2>4, <2>5, RouteMoves
<1>45. Due("child_removed", meta.kind, w, wt, P, ParentPath, t.first[P])
  <2>1. P # n
    BY <1>7 DEF IsParent
  <2>2. Sized(meta.kind, mem, P)
    BY <2>1, <1>9, <1>12 DEF Holds
  <2>3. Count(mem, P) <= MaxOf(meta.kind, FALSE) /\ Count(mem, P) = Size(mem, P) - 1
    BY <2>2, <1>12, <1>25 DEF Sized, Count, MaxOf
  <2>4. Count(w, P) = Size(mem, P) - 2
    <3>1. Size(w, P) = Size(mem, P) - 1
      BY <1>21, <1>27, <1>40 DEF Size
    <3>2. ~w[P].leaf
      BY <1>12, <1>27, <1>40
    <3>. QED
      BY <3>1, <3>2, <1>18 DEF Count
  <2>5. MaxOf(meta.kind, FALSE) \in Nat
    BY <1>6, <1>13 DEF MaxOf, MetaType, CapacityAssumption
  <2>6. Count(w, P) <= MaxOf(meta.kind, FALSE)
    <3>1. PICK z \in Nat, h \in Nat : z = Size(mem, P) /\ h = MaxOf(meta.kind, FALSE)
      BY <2>5, <1>18
    <3>2. PICK y : y = Count(w, P)
      OBVIOUS
    <3>3. z - 1 <= h /\ y = z - 2
      BY <3>1, <3>2, <2>3, <2>4
    <3>4. y <= h
      BY <3>3
    <3>. QED
      BY <3>1, <3>2, <3>4
  <2>7. ~w[P].leaf
    BY <1>12, <1>27, <1>40
  <2>. QED
    BY <2>6, <2>7, <1>41 DEF Due, MaxOf
<1>46. PICK c : c = WithoutChild(r)
  OBVIOUS
<1>47. c.fn = "child_removed" /\ c.node = pn /\ c.path = ParentPath
  BY <1>23, <1>46 DEF Call
<1>48. WorksOn(With(out, c.node), meta, held, c, wt, t.first[P])
  BY <1>27, <1>38, <1>41, <1>42, <1>43, <1>44, <1>45, <1>47 DEF WorksOn
<1>49. IsCall(DOMAIN out, c)
  <2>1. ParentPath \in Seq(wt.nodes)
    BY <1>44 DEF IsRoute
  <2>2. wt.nodes \subseteq DOMAIN out
    BY <1>10, <1>40, <1>41
  <2>3. ParentPath \in Seq(DOMAIN out)
    BY <2>1, <2>2
  <2>. QED
    BY <1>23, <1>29, <1>46, <2>3 DEF IsCall
<1>50. CallOK(out, meta, held, c)
  BY <1>27, <1>39, <1>40, <1>47, <1>48, <1>49 DEF CallOK, Works
<1>51. PICK high : high = <<Write(Merged)>>
  OBVIOUS
<1>52. <<>> \o high = high /\ <<>> \in Seq(AnyWrite)
  <2>1. high \in Seq(AnyWrite)
    BY <1>40, <1>51 DEF Orderly
  <2>. QED
    BY <2>1, ConcatEmptySeq
<1>53. Leaves(<<>> \o high, meta, held, c)
  <2>1. Leaves(high, meta, held, c)
    BY <1>13, <1>37, <1>40, <1>50, <1>51 DEF Leaves
  <2>. QED
    BY <2>1, <1>52
<1>54. Do(busy, <<>>, high, meta, c)
  BY <1>4, <1>16, <1>46, <1>51
<1>55. c # Killed /\ c # Idle /\ c.node.id = P
  BY <1>27, <1>47 DEF Killed, Idle
<1>56. ASSUME FInv PROVE Sound(Good(pages), <<>> \o high) /\ P \in Good(pages)
  <2>1. t.nodes \subseteq Good(pages)
    BY <1>6, <1>56, TreeGood
  <2>2. NodeOK(w, wt, l)
    BY <1>12, <1>41, HoldsFacts
  <2>3. Below(Merged, Good(pages))
    BY <2>1, <2>2, <1>40, <1>41, BelowInTree DEF Below
  <2>4. high = <<Write(Merged)>> /\ Write(Merged) = <<l, Merged>> /\ Len(high) = 1
    BY <1>32, <1>51 DEF Write
  <2>5. \A x \in 1..Len(high) : high[x][2].id = high[x][1] /\ Below(high[x][2], Good(pages))
    <3>. SUFFICES ASSUME NEW x \in 1..Len(high) PROVE high[x] = <<l, Merged>>
      BY <2>3, <1>32
    <3>. QED
      BY <2>4
  <2>6. Sound(Good(pages), high)
    BY <2>5, SoundNodes
  <2>. QED
    BY <2>1, <2>6, <1>12, <1>52
<1>. QED
  BY <1>4, <1>6, <1>13, <1>52, <1>53, <1>54, <1>55, <1>56, DoKeepsBoth

-----------------------------------------------------------------------------
(* A node becomes two, or two become three.                                 *)

\* What rebuild_internal_keys computes are keys.
LEMMA RebuiltTyped ==
    ASSUME KeysAssumption, NEW kind, NEW pg, NEW root, NEW t, NEW p, NEW g, Holds(kind, pg, root, t, p, g),
           p \in t.nodes, ~pg[p].leaf, NEW pgx, IsRebuilt(pgx, pg[p]), Agrees(pg, t, pgx, t.level[p] - 1)
    PROVE  pg[p].keys \in Seq(Keys)
<1>1. /\ Tree(pg, root, t) /\ NoneChildless(pg, t)
      /\ \A q \in t.nodes : NodeOK(pg, t, q) /\ Size(pg, q) \in Nat
      /\ \A q \in t.nodes \ {p} : /\ pg[q].leaf => Size(pg, q) >= 1
                                  /\ ~pg[q].leaf => Size(pg, q) >= 2
  BY HoldsFacts
<1>2. t.level[p] \in Nat /\ \A q \in t.nodes : t.level[q] \in Nat
  BY <1>1 DEF NodeOK
<1>3. \A q \in t.nodes : t.level[q] <= t.level[p] - 1 => q # p
  BY <1>2
<1>4. \A q \in t.nodes : q # p => t.under[q] # {}
  BY UnderNotEmpty
<1>5. \A q \in t.nodes \ {p} : Size(pg, q) >= 1
  BY <1>1
<1>6. Readable(pg, t, pgx, t.level[p] - 1)
  BY <1>3, <1>4, <1>5 DEF Readable, Agrees
<1>7. Size(pg, p) >= 1
  BY DEF Holds
<1>8. Kept(pg, t, p, g)
  BY <1>1, <1>6, <1>7, RebuiltExact
<1>. QED
  BY <1>8 DEF Kept, Keyed

\* A page of zeros reads as an empty leaf with no number.
LEMMA BlankIsNode == Blank \in AnyNode /\ Blank.id = None
<1>1. <<>> \in Seq({Item(k) : k \in Keys}) /\ <<>> \in Seq(Keys)
  OBVIOUS
<1>2. Blank = [id |-> None, leaf |-> TRUE, items |-> <<>>, keys |-> <<>>, next |-> None]
  BY DEF Blank, Leaf
<1>3. IsNode(Blank)
  BY <1>1, <1>2, NodeIsNode
<1>. QED
  BY <1>2, <1>3, AnyNodeIsNode

\* New pages at the end of a file of n pages.
IsFresh(n, k, fresh) ==
    /\ fresh \in Seq(AnyWrite) /\ Len(fresh) = k /\ k \in Nat /\ n \in Nat
    /\ \A i \in 1..k : fresh[i] = Fresh(n + i)

\* allocate_page for each new page, then writes to them and to others.
LEMMA FreshOrderly ==
    ASSUME NEW n, NEW k, NEW fresh, IsFresh(n, k, fresh), NEW ws \in Seq(AnyWrite),
           \A i \in 1..Len(ws) : ws[i][1] <= n + k /\ ws[i][2].id \in {ws[i][1], None}
    PROVE  Orderly(n, fresh \o ws)
<1>1. fresh \in Seq(AnyWrite) /\ Len(fresh) = k /\ k \in Nat /\ n \in Nat
      /\ \A i \in 1..k : fresh[i] = Fresh(n + i)
  BY DEF IsFresh
<1>2. PICK all : all = fresh \o ws
  OBVIOUS
<1>3. /\ all \in Seq(AnyWrite) /\ Len(all) = k + Len(ws)
      /\ \A i \in 1..(k + Len(ws)) : all[i] = IF i <= k THEN fresh[i] ELSE ws[i - k]
  BY <1>1, <1>2, ConcatProperties
<1>4. Len(ws) \in Nat
  OBVIOUS
<1>5. \A i \in 1..k : all[i][1] = n + i /\ all[i][2].id = None
  <2>1. \A i \in 1..k : all[i] = <<n + i, Blank>>
    BY <1>1, <1>3, <1>4 DEF Fresh
  <2>. QED
    BY <2>1, BlankIsNode
<1>6. \A i \in 1..(k + Len(ws)) : ~(i <= k) => i - k \in 1..Len(ws)
  BY <1>1, <1>4
<1>7. \A i \in 1..(k + Len(ws)) : ~(i <= k) => all[i][1] <= n + k /\ all[i][2].id \in {all[i][1], None}
  BY <1>3, <1>6
<1>8. \A i \in 1..Len(all) : all[i][2].id \in {all[i][1], None}
  <2>. SUFFICES ASSUME NEW i \in 1..Len(all) PROVE all[i][2].id \in {all[i][1], None}
    OBVIOUS
  <2>1. CASE i <= k
    <3>1. i \in 1..k
      BY <2>1, <1>1, <1>3, <1>4
    <3>. QED
      BY <3>1, <1>5
  <2>2. CASE ~(i <= k)
    BY <2>2, <1>3, <1>7
  <2>. QED
    BY <2>1, <2>2
<1>9. \A i \in 1..Len(all) : all[i][1] <= n + k
  <2>. SUFFICES ASSUME NEW i \in 1..Len(all) PROVE all[i][1] <= n + k
    OBVIOUS
  <2>1. CASE i <= k
    <3>1. i \in 1..k
      BY <2>1, <1>1, <1>3, <1>4
    <3>2. all[i][1] = n + i
      BY <3>1, <1>5
    <3>. QED
      BY <3>1, <3>2, <1>1
  <2>2. CASE ~(i <= k)
    BY <2>2, <1>3, <1>7
  <2>. QED
    BY <2>1, <2>2
<1>10. Grows(n, all, k)
  <2>1. k \in 0..Len(all)
    BY <1>1, <1>3, <1>4
  <2>. QED
    BY <2>1, <1>5, <1>9 DEF Grows
<1>. QED
  BY <1>1, <1>2, <1>3, <1>8, <1>10 DEF Orderly

\* three_way_counts, of 2 * m + 1 items, or 2 * m + 3 children.
LEMMA ThirdsOfLeaves ==
    ASSUME NEW m \in Nat, m >= 2, NEW n, n = 2 * m + 1, NEW x, x = FirstOfThree(n), NEW s, s = SecondOfThree(n)
    PROVE  /\ x \in Nat /\ 1 <= x /\ x <= m
           /\ s \in Nat /\ 1 <= s /\ s <= m
           /\ 1 <= n - (x + s) /\ n - (x + s) <= m
<1>1. x = (2 * m + 3) \div 3
  BY DEF FirstOfThree
<1>2. x \in Nat /\ 3 * x <= 2 * m + 3 /\ 3 * x >= 2 * m + 1
  BY <1>1
<1>3. s = (2 * m + 1 - x + 1) \div 2
  BY <1>1 DEF SecondOfThree, FirstOfThree
<1>4. s \in Nat /\ 2 * s <= 2 * m + 2 - x /\ 2 * s >= 2 * m + 1 - x
  BY <1>2, <1>3
<1>. QED
  BY <1>2, <1>4

\* three_way_counts of two full internal nodes and one child more: each of the
\* three gets at least two children, and no more than fit.
LEMMA ThirdsOfNodes ==
    ASSUME NEW m \in Nat, m >= 2, NEW n, n = 2 * m + 3, NEW x, x = FirstOfThree(n), NEW s, s = SecondOfThree(n)
    PROVE  /\ x \in Nat /\ 2 <= x /\ x <= m + 1
           /\ s \in Nat /\ 2 <= s /\ s <= m + 1
           /\ 2 <= n - (x + s) /\ n - (x + s) <= m + 1
<1>1. x = (2 * m + 5) \div 3
  BY DEF FirstOfThree
<1>2. x \in Nat /\ 3 * x <= 2 * m + 5 /\ 3 * x >= 2 * m + 3
  BY <1>1
<1>3. s = (2 * m + 3 - x + 1) \div 2
  BY <1>1 DEF SecondOfThree, FirstOfThree
<1>4. s \in Nat /\ 2 * s <= 2 * m + 4 - x /\ 2 * s >= 2 * m + 3 - x
  BY <1>2, <1>3
<1>. QED
  BY <1>2, <1>4

-----------------------------------------------------------------------------
(* Two full nodes become three.                                             *)

\* There are as many entries as make split_leaf_pair or split_internal_pair necessary.
IsTight(X, Y, h) ==
    /\ h = MaxKeys(X)
    /\ X.leaf => Len(X.items) + Len(Y.items) = 2 * h + 1
    /\ ~X.leaf => Len(X.items) + Len(Y.items) = 2 * h + 3

\* Nodes A, M and B share out e.
IsTrio(X, Y, m, A, M, B, S, e) ==
    /\ A.items \in Seq(S) /\ M.items \in Seq(S) /\ B.items \in Seq(S)
    /\ IsMade(A, X.id, X.leaf, A.items, A.next) /\ A.next \in Nat \cup {None}
    /\ IsMade(M, m, X.leaf, M.items, M.next) /\ M.next \in Nat \cup {None}
    /\ IsMade(B, Y.id, X.leaf, B.items, Y.next)
    /\ X.leaf => A.keys = X.keys /\ M.keys = X.keys /\ B.keys = Y.keys
    /\ ~X.leaf => IsRebuilt(pages, A) /\ IsRebuilt(pages, M) /\ IsRebuilt(pages, B)
    /\ Proper(A) /\ Proper(M) /\ Proper(B)
    /\ \E x, y, z : /\ x >= 1 /\ x < y /\ y < z /\ z = Len(e)
                    /\ IsPart(A.items, e, 0, x) /\ IsPart(M.items, e, x, y) /\ IsPart(B.items, e, y, z)

\* The numbers that three_way_counts gives.
LEMMA TightThirds ==
    ASSUME NEW h \in Nat, h >= 2, NEW leaf \in BOOLEAN, NEW n,
           leaf => n = 2 * h + 1, ~leaf => n = 2 * h + 3,
           NEW x, x = FirstOfThree(n), NEW y, y = x + SecondOfThree(n), NEW d, d = IF leaf THEN 0 ELSE 1
    PROVE  /\ n \in Nat /\ x \in Nat /\ y \in Nat /\ x >= 1 /\ x < y /\ y < n
           /\ 1 <= x - d /\ x - d <= h
           /\ 1 <= (y - x) - d /\ (y - x) - d <= h
           /\ 1 <= (n - y) - d /\ (n - y) - d <= h
<1>1. PICK s : s = SecondOfThree(n)
  OBVIOUS
<1>2. CASE leaf
  <2>1. /\ x \in Nat /\ 1 <= x /\ x <= h
        /\ s \in Nat /\ 1 <= s /\ s <= h
        /\ 1 <= n - (x + s) /\ n - (x + s) <= h
    BY <1>1, <1>2, ThirdsOfLeaves
  <2>2. y = x + s /\ d = 0 /\ n = 2 * h + 1
    BY <1>1, <1>2
  <2>. QED
    BY <2>1, <2>2
<1>3. CASE ~leaf
  <2>1. /\ x \in Nat /\ 2 <= x /\ x <= h + 1
        /\ s \in Nat /\ 2 <= s /\ s <= h + 1
        /\ 2 <= n - (x + s) /\ n - (x + s) <= h + 1
    BY <1>1, <1>3, ThirdsOfNodes
  <2>2. y = x + s /\ d = 1 /\ n = 2 * h + 3
    BY <1>1, <1>3
  <2>. QED
    BY <2>1, <2>2
<1>. QED
  BY <1>2, <1>3

\* They are what Thirds writes.
AreThirds(X, Y, m, A, M, B, S, e) ==
    /\ e \in Seq(S) /\ IsJoin(X.items, Y.items, e)
    /\ IsTrio(X, Y, m, A, M, B, S, e)
    /\ Thirds(X, Y, m) = <<Write(A), Write(M), Write(B)>>

\* The three nodes of split_leaf_pair and split_internal_pair.
LEMMA ThirdsMade ==
    ASSUME CapacityAssumption, Typed, NEW X, NEW Y, NEW S, IsDuo(X, Y, S), NEW h, IsTight(X, Y, h),
           NEW m \in Nat, Y.id \in Nat
    PROVE  \E A, M, B, e : AreThirds(X, Y, m, A, M, B, S, e)
<1>1. PICK e : e = X.items \o Y.items
  OBVIOUS
<1>2. PICK x, y : x = FirstOfThree(Len(e)) /\ y = x + SecondOfThree(Len(e))
  OBVIOUS
<1>3. PICK u, v, w : /\ u = SubSeq(e, 1, x) /\ v = SubSeq(e, x + 1, y)
                     /\ w = SubSeq(e, y + 1, Len(e))
  OBVIOUS
<1>4. PICK mm, rr : mm = (IF X.leaf THEN m ELSE None) /\ rr = (IF X.leaf THEN Y.id ELSE None)
  OBVIOUS
<1>5. PICK L0 : L0 = [X EXCEPT !.next = mm]
  OBVIOUS
<1>6. PICK M0 : M0 = [X EXCEPT !.id = m, !.next = rr]
  OBVIOUS
<1>7. PICK A, M, B : A = Holding(pages, L0, u) /\ M = Holding(pages, M0, v) /\ B = Holding(pages, Y, w)
  OBVIOUS
<1>8. Thirds(X, Y, m) = <<Write(A), Write(M), Write(B)>>
  BY <1>1, <1>2, <1>3, <1>4, <1>5, <1>6, <1>7 DEF Thirds
<1>9. /\ X.leaf \in BOOLEAN /\ Y.leaf = X.leaf /\ X.items \in Seq(S) /\ Y.items \in Seq(S)
      /\ Len(X.items) \in Nat /\ Len(Y.items) \in Nat
      /\ IsMade(X, X.id, X.leaf, X.items, X.next) /\ IsMade(Y, Y.id, X.leaf, Y.items, Y.next)
  BY DEF IsDuo
<1>10. e \in Seq(S) /\ IsJoin(X.items, Y.items, e)
  BY <1>1, <1>9, JoinConcat
<1>11. h \in Nat /\ h >= 2 /\ MaxKeys(X) = h
  <2>1. MaxKeys(X) \in Nat /\ MaxKeys(X) >= 2
    BY <1>9, MaxFacts
  <2>. QED
    BY <2>1 DEF IsTight
<1>12. PICK n : n = Len(e)
  OBVIOUS
<1>13. (X.leaf => n = 2 * h + 1) /\ (~X.leaf => n = 2 * h + 3)
  BY <1>10, <1>12 DEF IsTight, IsJoin
<1>14. PICK d : d = IF X.leaf THEN 0 ELSE 1
  OBVIOUS
<1>15. /\ n \in Nat /\ x \in Nat /\ y \in Nat /\ x >= 1 /\ x < y /\ y < n
       /\ 1 <= x - d /\ x - d <= h
       /\ 1 <= (y - x) - d /\ (y - x) - d <= h
       /\ 1 <= (n - y) - d /\ (n - y) - d <= h
  <2>1. x = FirstOfThree(n) /\ y = x + SecondOfThree(n)
    BY <1>2, <1>12
  <2>. QED
    BY <1>9, <1>11, <1>13, <1>14, <2>1, TightThirds, SMTT(30)
<1>16. u \in Seq(S) /\ IsPart(u, e, 0, x)
  <2>1. 0 \in Nat /\ 0 <= x /\ x <= Len(e)
    BY <1>12, <1>15
  <2>2. u = SubSeq(e, 0 + 1, x)
    BY <1>3
  <2>. QED
    BY <1>10, <1>15, <2>1, <2>2, PartExists
<1>17. v \in Seq(S) /\ IsPart(v, e, x, y)
  <2>1. x <= y /\ y <= Len(e)
    BY <1>12, <1>15
  <2>. QED
    BY <1>3, <1>10, <1>15, <2>1, PartExists
<1>18. w \in Seq(S) /\ IsPart(w, e, y, n)
  <2>1. y <= n /\ n <= Len(e) /\ w = SubSeq(e, y + 1, n)
    BY <1>3, <1>12, <1>15
  <2>. QED
    BY <1>10, <1>15, <2>1, PartExists
<1>19. IsMade(L0, X.id, X.leaf, X.items, mm) /\ L0.keys = X.keys
  BY <1>5, <1>9, NextChanged
<1>20. IsMade(M0, m, X.leaf, X.items, rr) /\ M0.keys = X.keys
  <2>1. PICK M1 : M1 = [X EXCEPT !.id = m]
    OBVIOUS
  <2>2. IsMade(M1, m, X.leaf, X.items, X.next) /\ M1.keys = X.keys
    BY <1>9, <2>1, IdChanged
  <2>3. M0 = [M1 EXCEPT !.next = rr]
    BY <1>6, <2>1
  <2>4. IsMade(M0, m, X.leaf, X.items, rr) /\ M0.keys = M1.keys
    BY <2>2, <2>3, NextChanged
  <2>. QED
    BY <2>2, <2>4
<1>21. IsMade(A, X.id, X.leaf, u, mm) /\ (X.leaf => A.keys = X.keys) /\ (~X.leaf => IsRebuilt(pages, A))
  <2>1. /\ IsMade(A, X.id, X.leaf, u, mm)
        /\ X.leaf => A.keys = L0.keys
        /\ ~X.leaf => IsRebuilt(pages, A)
    BY <1>7, <1>19, HoldingMade
  <2>. QED
    BY <2>1, <1>19
<1>22. IsMade(M, m, X.leaf, v, rr) /\ (X.leaf => M.keys = X.keys) /\ (~X.leaf => IsRebuilt(pages, M))
  <2>1. /\ IsMade(M, m, X.leaf, v, rr)
        /\ X.leaf => M.keys = M0.keys
        /\ ~X.leaf => IsRebuilt(pages, M)
    BY <1>7, <1>20, HoldingMade
  <2>. QED
    BY <2>1, <1>20
<1>23. IsMade(B, Y.id, X.leaf, w, Y.next) /\ (X.leaf => B.keys = Y.keys) /\ (~X.leaf => IsRebuilt(pages, B))
  BY <1>7, <1>9, HoldingMade
<1>24. A.items = u /\ M.items = v /\ B.items = w /\ A.next = mm /\ M.next = rr
       /\ A.leaf = X.leaf /\ M.leaf = X.leaf /\ B.leaf = X.leaf
  BY <1>21, <1>22, <1>23 DEF IsMade
<1>25. mm \in Nat \cup {None} /\ rr \in Nat \cup {None}
  BY <1>4
<1>26. MaxKeys(A) = h /\ MaxKeys(M) = h /\ MaxKeys(B) = h
  BY <1>11, <1>24 DEF MaxKeys
<1>27. Len(u) = x /\ Len(v) = y - x /\ Len(w) = n - y
  BY <1>15, <1>16, <1>17, <1>18 DEF IsPart
<1>28. Proper(A) /\ Proper(M) /\ Proper(B)
  <2>1. KeyCount(A) = x - d /\ KeyCount(M) = (y - x) - d /\ KeyCount(B) = (n - y) - d
    <3>1. CASE X.leaf
      <4>1. KeyCount(A) = x /\ KeyCount(M) = y - x /\ KeyCount(B) = n - y /\ d = 0
        BY <3>1, <1>14, <1>24, <1>27 DEF KeyCount
      <4>. QED
        BY <4>1, <1>15
    <3>2. CASE ~X.leaf
      <4>1. KeyCount(A) = x - 1 /\ KeyCount(M) = (y - x) - 1 /\ KeyCount(B) = (n - y) - 1 /\ d = 1
        BY <3>2, <1>14, <1>24, <1>27 DEF KeyCount
      <4>. QED
        BY <4>1
    <3>. QED
      BY <3>1, <3>2
  <2>. QED
    BY <2>1, <1>15, <1>26 DEF Proper
<1>29. IsTrio(X, Y, m, A, M, B, S, e)
  BY <1>12, <1>15, <1>16, <1>17, <1>18, <1>21, <1>22, <1>23, <1>24, <1>25, <1>28 DEF IsTrio
<1>. QED
  BY <1>8, <1>10, <1>29 DEF AreThirds

\* The pages when the three nodes are written, and page m is new ...
IsTripled(l, r, m, A, M, B, out) ==
    /\ DOMAIN out = DOMAIN pages \cup {m} /\ Len(out) = m
    /\ out[l] = A /\ out[m] = M /\ out[r] = B
    /\ \A q \in DOMAIN pages \ {l, r} : out[q] = pages[q]

\* ... and when the parent P has its new child.
IsAdopted(mem, P, j, m, out, npg) ==
    /\ DOMAIN npg = DOMAIN out
    /\ npg[P].id = P /\ npg[P].leaf = mem[P].leaf /\ npg[P].items = InsertAt(mem[P].items, j + 1, m)
    /\ IsRebuilt(out, npg[P])
    /\ \A q \in DOMAIN out \ {P} : npg[q] = out[q]

\* Nodes X and Y are to become A, M and B.
TrioDue(mem, n, t, f, P, j, X, Y, S, m, A, M, B, e) ==
    /\ call.fn = "split" /\ m = Len(pages) + 1
    /\ PairCall(mem, n, t, f, P, j, X, Y, S)
    /\ e \in Seq(S) /\ IsJoin(X.items, Y.items, e) /\ IsTrio(X, Y, m, A, M, B, S, e)
    /\ IsTight(X, Y, MaxKeys(X))

\* The pages at hand.
LEMMA TrioPages ==
    ASSUME NEW mem, NEW n, NEW t, NEW f, NEW P, NEW j, NEW X, NEW Y, NEW S, NEW m, NEW A, NEW M, NEW B, NEW e,
           TrioDue(mem, n, t, f, P, j, X, Y, S, m, A, M, B, e), NEW l, NEW r, l = X.id, r = Y.id
    PROVE  /\ Typed /\ IsFile(pages)
           /\ Holds(meta.kind, mem, meta.root, t, n, None) /\ InFile(mem, t) /\ Tells(meta, held, t)
           /\ Tree(mem, meta.root, t)
           /\ AreSiblings(mem, t, P, j, l, r) /\ X = mem[l] /\ Y = mem[r] /\ n \in {l, r}
           /\ SiblingShape(mem, t, P, l, r)
           /\ l \in t.nodes /\ r \in t.nodes /\ P \in t.nodes /\ l # r /\ P # l /\ P # r
           /\ t.nodes \subseteq DOMAIN pages /\ DOMAIN mem = DOMAIN pages /\ Len(mem) = Len(pages)
           /\ \A q \in DOMAIN pages \ {l, r} : mem[q] = pages[q]
           /\ m \in Nat /\ m \notin DOMAIN pages /\ m = Len(pages) + 1 /\ Len(pages) \in Nat
           /\ DOMAIN pages = 1..Len(pages)
           /\ \A q \in t.nodes : NodeOK(mem, t, q) /\ mem[q].id = q
           /\ ~mem[P].leaf /\ j \in 1..Size(mem, P) /\ mem[P].items[j] = l
           /\ mem[P] = pages[P] /\ Parent = mem[P] /\ IsNode(mem[P]) /\ IsNode(X) /\ IsNode(Y)
<1>1. /\ IsDuo(X, Y, S) /\ Mid(mem, n, t, f) /\ Typed /\ IsPair(mem, t, n, P, j, X, Y) /\ Parent = mem[P]
      /\ call.fn = "split" /\ m = Len(pages) + 1
  BY DEF PairCall, TrioDue
<1>2. /\ Holds(meta.kind, mem, meta.root, t, n, f) /\ InFile(mem, t) /\ DOMAIN mem = DOMAIN pages
      /\ \A q \in DOMAIN pages \ {n} : mem[q] = pages[q]
      /\ Len(mem) = Len(pages) /\ IsFile(mem) /\ Tells(meta, held, t)
  BY <1>1 DEF Mid
<1>3. f = None
  BY <1>1, HandsOver
<1>4. AreSiblings(mem, t, P, j, l, r) /\ X = mem[l] /\ Y = mem[r] /\ n \in {l, r}
  BY <1>1 DEF IsPair
<1>5. /\ Tree(mem, meta.root, t) /\ t.nodes \subseteq DOMAIN pages
      /\ \A q \in t.nodes : NodeOK(mem, t, q) /\ mem[q].id = q
  BY <1>2, HoldsFacts DEF Tree
<1>6. SiblingShape(mem, t, P, l, r)
  BY <1>4, <1>5, SiblingFacts
<1>7. /\ l \in t.nodes /\ r \in t.nodes /\ P \in t.nodes /\ l # r /\ P # l /\ P # r
      /\ ~mem[P].leaf /\ j \in 1..(Size(mem, P) - 1) /\ mem[P].items[j] = l
  BY <1>4, <1>6 DEF SiblingShape, AreSiblings
<1>8. IsFile(pages)
  BY <1>1 DEF Typed
<1>9. Len(pages) \in Nat /\ DOMAIN pages = 1..Len(pages)
  BY <1>8, FileFacts
<1>10. m \in Nat /\ m \notin DOMAIN pages
  BY <1>1, <1>9
<1>11. Size(mem, P) \in Nat
  BY <1>5, <1>7, SizeIsNat
<1>12. j \in 1..Size(mem, P)
  BY <1>7, <1>11
<1>13. IsNode(mem[P]) /\ IsNode(X) /\ IsNode(Y)
  BY <1>2, <1>4, <1>5, <1>7, FileFacts
<1>14. mem[P] = pages[P] /\ \A q \in DOMAIN pages \ {l, r} : mem[q] = pages[q]
  BY <1>2, <1>4, <1>5, <1>7
<1>. QED
  BY <1>1, <1>2, <1>3, <1>4, <1>5, <1>6, <1>7, <1>8, <1>9, <1>10, <1>12, <1>13, <1>14

\* The tree after split_leaf_pair or split_internal_pair.
LEMMA TrioHolds ==
    ASSUME KeysAssumption, CapacityAssumption,
           NEW mem, NEW n, NEW t, NEW f, NEW P, NEW j, NEW X, NEW Y, NEW S, NEW m, NEW A, NEW M, NEW B, NEW e,
           TrioDue(mem, n, t, f, P, j, X, Y, S, m, A, M, B, e),
           NEW out, IsTripled(X.id, Y.id, m, A, M, B, out), NEW npg, IsAdopted(mem, P, j, m, out, npg),
           NEW q, q \in {None, P}, q = None => Sized(meta.kind, npg, P)
    PROVE  \E nt : /\ Holds(meta.kind, npg, meta.root, nt, q, None) /\ SameTop(t, nt, meta.root)
                   /\ nt.nodes = t.nodes \cup {m} /\ \A p \in t.nodes : nt.level[p] = t.level[p]
<1>1. PICK l, r : l = X.id /\ r = Y.id
  OBVIOUS
<1>2. /\ Typed /\ IsFile(pages)
      /\ Holds(meta.kind, mem, meta.root, t, n, None) /\ InFile(mem, t)
      /\ AreSiblings(mem, t, P, j, l, r) /\ X = mem[l] /\ Y = mem[r] /\ n \in {l, r}
      /\ l \in t.nodes /\ r \in t.nodes /\ P \in t.nodes /\ l # r /\ P # l /\ P # r
      /\ t.nodes \subseteq DOMAIN pages /\ DOMAIN mem = DOMAIN pages /\ Len(mem) = Len(pages)
      /\ \A p \in DOMAIN pages \ {l, r} : mem[p] = pages[p]
      /\ m \in Nat /\ m \notin DOMAIN pages /\ m = Len(pages) + 1 /\ Len(pages) \in Nat
  BY <1>1, TrioPages
<1>3. /\ DOMAIN out = DOMAIN pages \cup {m} /\ Len(out) = m
      /\ out[l] = A /\ out[m] = M /\ out[r] = B
      /\ \A p \in DOMAIN pages \ {l, r} : out[p] = pages[p]
  BY <1>1 DEF IsTripled
<1>4. /\ DOMAIN npg = DOMAIN out
      /\ npg[P].id = P /\ npg[P].leaf = mem[P].leaf /\ npg[P].items = InsertAt(mem[P].items, j + 1, m)
      /\ IsRebuilt(out, npg[P])
      /\ \A p \in DOMAIN out \ {P} : npg[p] = out[p]
  BY DEF IsAdopted
<1>5. e \in Seq(S) /\ IsJoin(X.items, Y.items, e) /\ IsTrio(X, Y, m, A, M, B, S, e)
      /\ PairCall(mem, n, t, f, P, j, X, Y, S) /\ call.fn = "split"
  BY DEF TrioDue
<1>6. IsDuo(X, Y, S) /\ Mid(mem, n, t, f)
  BY <1>5 DEF PairCall
<1>7. /\ A.items \in Seq(S) /\ M.items \in Seq(S) /\ B.items \in Seq(S)
      /\ IsMade(A, l, X.leaf, A.items, A.next)
      /\ IsMade(M, m, X.leaf, M.items, M.next)
      /\ IsMade(B, r, X.leaf, B.items, Y.next)
      /\ ~X.leaf => IsRebuilt(pages, A) /\ IsRebuilt(pages, M) /\ IsRebuilt(pages, B)
      /\ Proper(A) /\ Proper(M) /\ Proper(B)
  BY <1>1, <1>5 DEF IsTrio
<1>8. PICK x, y, z : /\ x >= 1 /\ x < y /\ y < z /\ z = Len(e)
                     /\ IsPart(A.items, e, 0, x) /\ IsPart(M.items, e, x, y) /\ IsPart(B.items, e, y, z)
  BY <1>5 DEF IsTrio
<1>9. A.id = l /\ A.leaf = X.leaf /\ M.id = m /\ M.leaf = X.leaf /\ B.id = r /\ B.leaf = X.leaf
  BY <1>7 DEF IsMade
<1>10. ItemsOK(X.leaf, A.items) /\ ItemsOK(X.leaf, M.items) /\ ItemsOK(X.leaf, B.items)
  BY <1>6, <1>7 DEF IsDuo
<1>11. npg[l] = A /\ npg[m] = M /\ npg[r] = B
  BY <1>2, <1>3, <1>4
<1>12. \A p \in t.nodes \ {l, r, P} : npg[p] = mem[p]
  BY <1>2, <1>3, <1>4
<1>13. Sees(pages, mem, t, {l, r})
  BY <1>2 DEF Sees, InFile
<1>14. \A p \in t.nodes : t.level[p] <= Len(out)
  <2>1. \A p \in t.nodes : t.level[p] <= Len(pages) /\ t.level[p] \in Nat
    BY <1>2, HoldsFacts, ZenonT(30) DEF InFile, NodeOK
  <2>. QED
    BY <2>1, <1>2, <1>3
<1>15. \A p \in (t.nodes \cup {m}) \ {P} : p \in DOMAIN out /\ out[p] = npg[p]
  BY <1>2, <1>3, <1>4
<1>16. PairSplit(mem, t, P, j, l, m, r, npg, pages, out)
  <2>1. m \notin t.nodes /\ t.nodes \cup {m} \subseteq DOMAIN npg
    BY <1>2, <1>3, <1>4
  <2>2. \A p \in {l, m, r} : /\ npg[p].id = p /\ npg[p].leaf = mem[l].leaf /\ ItemsOK(mem[l].leaf, npg[p].items)
                             /\ ~mem[l].leaf => IsRebuilt(pages, npg[p])
    BY <1>2, <1>7, <1>9, <1>10, <1>11
  <2>3. Len(out) \in Nat /\ m \in Nat
    BY <1>2, <1>3
  <2>4. npg[P].id = P /\ npg[P].leaf = mem[P].leaf /\ npg[P].items = InsertAt(mem[P].items, j + 1, m) /\ IsRebuilt(out, npg[P])
    BY <1>4
  <2>. QED
    BY <1>12, <1>13, <1>14, <1>15, <2>1, <2>2, <2>3, <2>4 DEF PairSplit
<1>17. ThreeParts(npg, l, m, r, e, x, y, z)
  BY <1>8, <1>11 DEF ThreeParts
<1>18. Size(mem, l) >= 2
  <2>1. (X = call.node /\ Proper(Y)) \/ (Y = call.node /\ Proper(X))
    BY <1>5 DEF PairCall
  <2>2. KeyCount(call.node) = MaxKeys(call.node) + 1
    BY <1>5, <1>6, CallSize
  <2>3. X.leaf \in BOOLEAN /\ Y.leaf = X.leaf /\ Len(X.items) \in Nat /\ Len(Y.items) \in Nat
    BY <1>6 DEF IsDuo
  <2>4. MaxKeys(X) \in Nat /\ MaxKeys(X) >= 2 /\ MaxKeys(Y) = MaxKeys(X)
    BY <1>2, <2>3, MaxFacts DEF MaxKeys
  <2>5. PICK a \in Nat, b \in Nat, h \in Nat : a = Len(X.items) /\ b = Len(Y.items) /\ h = MaxKeys(X)
    BY <2>3, <2>4
  <2>6. IsTight(X, Y, h) /\ h >= 2
    BY <2>4, <2>5 DEF TrioDue
  <2>7. (X.leaf => a + b = 2 * h + 1) /\ (~X.leaf => a + b = 2 * h + 3)
    BY <2>5, <2>6 DEF IsTight
  <2>8. /\ X.leaf => KeyCount(X) = a /\ KeyCount(Y) = b
        /\ ~X.leaf => KeyCount(X) = a - 1 /\ KeyCount(Y) = b - 1
    BY <2>3, <2>5 DEF KeyCount
  <2>9. a >= 2
    <3>1. CASE X = call.node
      <4>1. KeyCount(X) = h + 1
        BY <3>1, <2>2, <2>5
      <4>. QED
        BY <4>1, <2>3, <2>6, <2>8
    <3>2. CASE Y = call.node
      <4>1. KeyCount(Y) = h + 1
        BY <3>2, <2>2, <2>4, <2>5
      <4>2. CASE X.leaf
        BY <4>1, <4>2, <2>6, <2>7, <2>8
      <4>3. CASE ~X.leaf
        BY <4>1, <4>3, <2>6, <2>7, <2>8
      <4>. QED
        BY <4>2, <4>3
    <3>. QED
      BY <2>1, <3>1, <3>2
  <2>. QED
    BY <1>2, <2>5, <2>9 DEF Size
<1>19. InThree(mem, t, P, j, l, m, r, npg, pages, out)
  <2>1. e \in Seq(S) /\ IsJoin(mem[l].items, mem[r].items, e)
    BY <1>2, <1>5
  <2>2. \A s \in Seq(S) : ItemsOK(mem[l].leaf, s)
    BY <1>2, <1>6 DEF IsDuo
  <2>3. \E S1 : /\ e \in Seq(S1)
                /\ ~mem[l].leaf => S1 = Nat
                /\ mem[l].leaf => S1 = {Item(k) : k \in Keys}
    <3>1. ItemsOK(mem[l].leaf, e)
      BY <2>1, <2>2
    <3>2. CASE mem[l].leaf
      BY <3>1, <3>2 DEF ItemsOK
    <3>3. CASE ~mem[l].leaf
      BY <3>1, <3>3 DEF ItemsOK
    <3>. QED
      BY <3>2, <3>3
  <2>4. PICK S1 : /\ e \in Seq(S1)
                  /\ ~mem[l].leaf => S1 = Nat
                  /\ mem[l].leaf => S1 = {Item(k) : k \in Keys}
    BY <2>3
  <2>. QED
    BY <2>1, <2>4, <1>16, <1>17, <1>18 DEF InThree
<1>20. \A p \in {l, m, r} : Sized(meta.kind, npg, p)
  BY <1>7, <1>11, ProperIsSized
<1>21. CanSplit(meta.kind, mem, meta.root, t, n, P, j, l, r, m, npg, pages, out, q)
  BY <1>2, <1>19, <1>20 DEF CanSplit
<1>. QED
  BY <1>21, PairIsThree

\* The new page, and the three nodes, are written.
TrioWrites(m, A, M, B) == <<Fresh(m)>> \o <<Write(A), Write(M), Write(B)>>

\* The three pages are written.
LEMMA TrioWritten ==
    ASSUME NEW mem, NEW n, NEW t, NEW f, NEW P, NEW j, NEW X, NEW Y, NEW S, NEW m, NEW A, NEW M, NEW B, NEW e,
           TrioDue(mem, n, t, f, P, j, X, Y, S, m, A, M, B, e),
           NEW out, out = Written(pages, TrioWrites(m, A, M, B))
    PROVE  IsTripled(X.id, Y.id, m, A, M, B, out)
<1>1. PICK l, r : l = X.id /\ r = Y.id
  OBVIOUS
<1>2. /\ l \in t.nodes /\ r \in t.nodes /\ l # r /\ t.nodes \subseteq DOMAIN pages
      /\ m \in Nat /\ m \notin DOMAIN pages /\ m = Len(pages) + 1 /\ Len(pages) \in Nat
      /\ DOMAIN pages = 1..Len(pages)
  BY <1>1, TrioPages
<1>3. IsTrio(X, Y, m, A, M, B, S, e)
  BY DEF TrioDue
<1>4. A.id = l /\ M.id = m /\ B.id = r
  BY <1>1, <1>3 DEF IsTrio, IsMade
<1>5. PICK one, ws : one = <<Fresh(m)>> /\ ws = <<Write(A), Write(M), Write(B)>>
  OBVIOUS
<1>6. PICK W : W = {Fresh(m), Write(A), Write(M), Write(B)}
  OBVIOUS
<1>7. one \in Seq(W) /\ ws \in Seq(W)
  BY <1>5, <1>6
<1>8. PICK pg1 : pg1 = Written(pages, one)
  OBVIOUS
<1>9. out = Written(pg1, ws)
  <2>1. out = Written(pages, one \o ws)
    BY <1>5 DEF TrioWrites
  <2>. QED
    BY <2>1, <1>7, <1>8, WrittenConcat
<1>10. IsPut(pages, m, Blank, pg1)
  BY <1>5, <1>8, PutOne DEF Fresh
<1>11. ws = <<<<l, A>>, <<m, M>>, <<r, B>>>>
  BY <1>4, <1>5 DEF Write
<1>12. PICK o1, o2 : IsPut(pg1, l, A, o1) /\ IsPut(o1, m, M, o2) /\ IsPut(o2, r, B, out)
  BY <1>9, <1>11, PutThree
<1>13. /\ DOMAIN pg1 = DOMAIN pages \cup {m} /\ \A q \in DOMAIN pages : q # m => pg1[q] = pages[q]
       /\ DOMAIN o1 = DOMAIN pg1 \cup {l} /\ o1[l] = A /\ \A q \in DOMAIN pg1 : q # l => o1[q] = pg1[q]
       /\ DOMAIN o2 = DOMAIN o1 \cup {m} /\ o2[m] = M /\ \A q \in DOMAIN o1 : q # m => o2[q] = o1[q]
       /\ DOMAIN out = DOMAIN o2 \cup {r} /\ out[r] = B /\ \A q \in DOMAIN o2 : q # r => out[q] = o2[q]
  BY <1>10, <1>12 DEF IsPut
<1>14. l \in DOMAIN pages /\ r \in DOMAIN pages /\ l # m /\ r # m
  BY <1>2
<1>15. DOMAIN out = DOMAIN pages \cup {m} /\ out[l] = A /\ out[m] = M /\ out[r] = B
  <2>1. DOMAIN o1 = DOMAIN pages \cup {m}
    BY <1>13, <1>14
  <2>2. DOMAIN o2 = DOMAIN pages \cup {m}
    BY <1>13, <2>1
  <2>3. DOMAIN out = DOMAIN pages \cup {m}
    BY <1>13, <1>14, <2>2
  <2>4. out[m] = o2[m]
    BY <1>13, <1>14, <2>2
  <2>5. out[l] = o2[l]
    BY <1>2, <1>13, <1>14, <2>2
  <2>6. o2[l] = o1[l]
    BY <1>13, <1>14, <2>1
  <2>. QED
    BY <1>13, <2>3, <2>4, <2>5, <2>6
<1>16. \A q \in DOMAIN pages \ {l, r} : out[q] = pages[q]
  BY <1>2, <1>13, <1>14
<1>17. DOMAIN out = 1..m
  <2>1. PICK k \in Nat : k = Len(pages)
    BY <1>2
  <2>2. (1..k) \cup {m} = 1..m
    BY <1>2, <2>1
  <2>. QED
    BY <1>2, <1>15, <2>1, <2>2
<1>18. Len(out) = m
  BY <1>2, <1>9, <1>17, WrittenLen
<1>. QED
  BY <1>1, <1>15, <1>16, <1>18 DEF IsTripled

\* The parent, with its new child.
TrioParent(out, X, m) == Rebuilt(out, Parent, InsertAt(Parent.items, Index(Parent, X.id) + 1, m))

\* The parent, with the new child.
LEMMA TrioParentFacts ==
    ASSUME NEW mem, NEW n, NEW t, NEW f, NEW P, NEW j, NEW X, NEW Y, NEW S, NEW m, NEW A, NEW M, NEW B, NEW e,
           TrioDue(mem, n, t, f, P, j, X, Y, S, m, A, M, B, e), NEW out, NEW pn, pn = TrioParent(out, X, m)
    PROVE  /\ IsMade(pn, P, mem[P].leaf, pn.items, mem[P].next) /\ IsRebuilt(out, pn)
           /\ pn.id = P /\ pn.leaf = mem[P].leaf /\ pn.items = InsertAt(mem[P].items, j + 1, m)
           /\ pn.items \in Seq(Nat) /\ Len(pn.items) = Size(mem, P) + 1 /\ Size(mem, P) \in Nat
           /\ j + 1 \in 1..Len(pn.items) /\ pn.items[j + 1] = m
           /\ ~pn.leaf /\ mem[P].leaf \in BOOLEAN /\ mem[P].next \in Nat \cup {None} /\ P \in Nat
<1>1. PICK l : l = X.id
  OBVIOUS
<1>2. /\ P \in t.nodes /\ t.nodes \subseteq DOMAIN pages
      /\ ~mem[P].leaf /\ j \in 1..Size(mem, P) /\ mem[P].items[j] = l
      /\ Parent = mem[P] /\ IsNode(mem[P]) /\ mem[P].id = P
      /\ NodeOK(mem, t, P) /\ m \in Nat /\ IsFile(pages)
  BY <1>1, TrioPages
<1>3. InternalShape(mem, t, P)
  BY <1>2, InternalFacts
<1>4. Index(mem[P], l) = j
  BY <1>2, <1>3, IndexFacts
<1>5. mem[P].items \in Seq(Nat) /\ Size(mem, P) \in Nat /\ Size(mem, P) = Len(mem[P].items)
  BY <1>3 DEF InternalShape, Size
<1>6. j + 1 \in 1..(Len(mem[P].items) + 1)
  BY <1>2, <1>5
<1>7. PICK items : items = InsertAt(mem[P].items, j + 1, m)
  OBVIOUS
<1>8. items \in Seq(Nat) /\ IsInsertion(mem[P].items, j + 1, m, items)
  BY <1>2, <1>5, <1>6, <1>7, InsertAtIsInsertion
<1>9. Len(items) = Size(mem, P) + 1 /\ j + 1 \in 1..Len(items) /\ items[j + 1] = m
  <2>1. Len(items) = Size(mem, P) + 1
    BY <1>5, <1>8 DEF IsInsertion
  <2>2. j + 1 \in 1..Len(items)
    BY <2>1, <1>5, <1>6
  <2>3. \A i \in 1..Len(items) : i = j + 1 => items[i] = m
    <3>1. \A i \in 1..Len(items) : items[i] = IF i < j + 1 THEN mem[P].items[i] ELSE IF i = j + 1 THEN m ELSE mem[P].items[i - 1]
      BY <1>8 DEF IsInsertion
    <3>. QED
      BY <3>1, <1>2, <2>2
  <2>. QED
    BY <2>1, <2>2, <2>3
<1>10. pn = Rebuilt(out, mem[P], items)
  BY <1>1, <1>2, <1>4, <1>7 DEF TrioParent
<1>11. /\ IsMade(mem[P], P, mem[P].leaf, mem[P].items, mem[P].next)
       /\ mem[P].leaf \in BOOLEAN /\ mem[P].next \in Nat \cup {None}
  BY <1>2, NodeIsMade
<1>12. IsMade(pn, P, mem[P].leaf, items, mem[P].next) /\ IsRebuilt(out, pn)
  BY <1>10, <1>11, RebuiltMade
<1>13. pn.id = P /\ pn.leaf = mem[P].leaf /\ pn.items = items
  BY <1>12 DEF IsMade
<1>14. P \in Nat
  BY <1>2, FileFacts
<1>. QED
  BY <1>2, <1>5, <1>7, <1>8, <1>9, <1>11, <1>12, <1>13, <1>14

\* nt is the tree with page m and node pn of the parent.
TrioTree(t, m, P, pn, npg, nt, q) ==
    /\ npg[P] = pn /\ Holds(meta.kind, npg, meta.root, nt, q, None)
    /\ SameTop(t, nt, meta.root)
    /\ nt.nodes = t.nodes \cup {m} /\ \A p \in t.nodes : nt.level[p] = t.level[p]

\* No level is above the length of the file.
LEMMA TrioLevels ==
    ASSUME NEW mem, NEW n, NEW t, NEW f, NEW P, NEW j, NEW X, NEW Y, NEW S, NEW m, NEW A, NEW M, NEW B, NEW e,
           TrioDue(mem, n, t, f, P, j, X, Y, S, m, A, M, B, e), NEW out, NEW pn, pn = TrioParent(out, X, m),
           NEW npg, NEW nt, NEW q, TrioTree(t, m, P, pn, npg, nt, q)
    PROVE  /\ \A p \in nt.nodes : nt.level[p] \in Nat /\ nt.level[p] <= Len(pages)
           /\ nt.level[m] = t.level[P] - 1
<1>0. /\ npg[P] = pn /\ Holds(meta.kind, npg, meta.root, nt, q, None)
      /\ nt.nodes = t.nodes \cup {m} /\ \A p \in t.nodes : nt.level[p] = t.level[p]
  BY DEF TrioTree
<1>1. /\ P \in t.nodes /\ ~mem[P].leaf /\ InFile(mem, t) /\ Len(mem) = Len(pages) /\ Len(pages) \in Nat
      /\ \A p \in t.nodes : NodeOK(mem, t, p)
  BY TrioPages
<1>2. /\ pn.leaf = mem[P].leaf /\ j + 1 \in 1..Len(pn.items) /\ pn.items[j + 1] = m
  BY TrioParentFacts
<1>3. \A p \in nt.nodes : NodeOK(npg, nt, p)
  BY <1>0, HoldsFacts
<1>4. InternalShape(npg, nt, P)
  BY <1>0, <1>1, <1>2, <1>3, InternalFacts
<1>5. j + 1 \in 1..Size(npg, P) /\ npg[P].items[j + 1] = m
  BY <1>0, <1>2 DEF Size
<1>6. nt.level[m] = nt.level[P] - 1
  BY <1>4, <1>5 DEF InternalShape
<1>7. \A p \in t.nodes : t.level[p] <= Len(pages) /\ t.level[p] \in Nat
  BY <1>1 DEF InFile, NodeOK
<1>8. \A p \in nt.nodes : nt.level[p] \in Nat
  BY <1>3 DEF NodeOK
<1>9. nt.level[m] <= Len(pages)
  BY <1>0, <1>1, <1>6, <1>7
<1>. QED
  BY <1>0, <1>1, <1>6, <1>7, <1>8, <1>9

\* The four nodes are such as the pages hold.
LEMMA TrioTyped ==
    ASSUME KeysAssumption, CapacityAssumption,
           NEW mem, NEW n, NEW t, NEW f, NEW P, NEW j, NEW X, NEW Y, NEW S, NEW m, NEW A, NEW M, NEW B, NEW e,
           TrioDue(mem, n, t, f, P, j, X, Y, S, m, A, M, B, e),
           NEW out, IsTripled(X.id, Y.id, m, A, M, B, out), NEW pn, pn = TrioParent(out, X, m)
    PROVE  A \in AnyNode /\ M \in AnyNode /\ B \in AnyNode /\ pn \in AnyNode
<1>1. PICK l, r : l = X.id /\ r = Y.id
  OBVIOUS
<1>2. /\ l \in t.nodes /\ r \in t.nodes /\ P \in t.nodes /\ l # r /\ P # l /\ P # r
      /\ t.nodes \subseteq DOMAIN pages /\ X = mem[l] /\ Y = mem[r]
      /\ m \in Nat /\ m \notin DOMAIN pages /\ m = Len(pages) + 1 /\ Len(pages) \in Nat
      /\ IsFile(pages) /\ IsNode(X) /\ IsNode(Y)
      /\ SiblingShape(mem, t, P, l, r)
      /\ \A q \in t.nodes : NodeOK(mem, t, q)
  BY <1>1, TrioPages
<1>3. /\ DOMAIN out = DOMAIN pages \cup {m} /\ Len(out) = m
      /\ out[l] = A /\ out[m] = M /\ out[r] = B
      /\ \A p \in DOMAIN pages \ {l, r} : out[p] = pages[p]
  BY <1>1 DEF IsTripled
<1>4. /\ IsMade(pn, P, mem[P].leaf, pn.items, mem[P].next) /\ IsRebuilt(out, pn)
      /\ pn.id = P /\ pn.leaf = mem[P].leaf /\ pn.items = InsertAt(mem[P].items, j + 1, m)
      /\ pn.items \in Seq(Nat)
      /\ ~pn.leaf /\ mem[P].leaf \in BOOLEAN /\ mem[P].next \in Nat \cup {None} /\ P \in Nat
  BY TrioParentFacts
<1>5. PICK npg : npg = [p \in DOMAIN out |-> IF p = P THEN pn ELSE out[p]]
  OBVIOUS
<1>6. DOMAIN npg = DOMAIN out /\ npg[P] = pn /\ \A p \in DOMAIN out \ {P} : npg[p] = out[p]
  BY <1>2, <1>3, <1>5
<1>7. IsAdopted(mem, P, j, m, out, npg)
  BY <1>4, <1>6 DEF IsAdopted
<1>8. P # None
  BY <1>4 DEF CapacityAssumption
<1>9. PICK nt : /\ Holds(meta.kind, npg, meta.root, nt, P, None) /\ SameTop(t, nt, meta.root)
                /\ nt.nodes = t.nodes \cup {m} /\ \A p \in t.nodes : nt.level[p] = t.level[p]
  BY <1>7, <1>8, TrioHolds, SMTT(30)
<1>10. /\ \A p \in nt.nodes : nt.level[p] \in Nat /\ nt.level[p] <= Len(pages)
       /\ nt.level[m] = t.level[P] - 1
  <2>1. TrioTree(t, m, P, pn, npg, nt, P)
    BY <1>6, <1>9 DEF TrioTree
  <2>. HIDE <1>6, <1>9
  <2>. QED
    BY <2>1, TrioLevels
<1>11. npg[l] = A /\ npg[m] = M /\ npg[r] = B
  BY <1>2, <1>3, <1>6
<1>12. pn.keys \in Seq(Keys)
  <2>1. Agrees(npg, nt, out, nt.level[P] - 1)
    <3>1. \A p \in nt.nodes : nt.level[p] <= nt.level[P] - 1 => p # P
      BY <1>2, <1>9, <1>10
    <3>2. \A p \in nt.nodes : p \in DOMAIN out /\ nt.level[p] <= Len(out)
      BY <1>2, <1>3, <1>9, <1>10
    <3>3. \A p \in nt.nodes : p # P => out[p] = npg[p]
      BY <1>6, <3>2
    <3>. QED
      BY <1>2, <1>3, <3>1, <3>2, <3>3 DEF Agrees
  <2>2. P \in nt.nodes /\ ~npg[P].leaf
    BY <1>2, <1>4, <1>6, <1>9
  <2>3. IsRebuilt(out, npg[P])
    BY <1>4, <1>6
  <2>4. npg[P].keys \in Seq(Keys)
    BY <1>9, <2>1, <2>2, <2>3, RebuiltTyped
  <2>. QED
    BY <2>4, <1>6
<1>13. /\ A.items \in Seq(S) /\ M.items \in Seq(S) /\ B.items \in Seq(S)
       /\ IsMade(A, l, X.leaf, A.items, A.next) /\ A.next \in Nat \cup {None}
       /\ IsMade(M, m, X.leaf, M.items, M.next) /\ M.next \in Nat \cup {None}
       /\ IsMade(B, r, X.leaf, B.items, Y.next)
       /\ X.leaf => A.keys = X.keys /\ M.keys = X.keys /\ B.keys = Y.keys
  BY <1>1 DEF TrioDue, IsTrio
<1>14. A.leaf = X.leaf /\ M.leaf = X.leaf /\ B.leaf = X.leaf
  BY <1>13 DEF IsMade
<1>15. A.keys \in Seq(Keys) /\ M.keys \in Seq(Keys) /\ B.keys \in Seq(Keys)
  <2>1. CASE X.leaf
    BY <2>1, <1>2, <1>13, NodeFields
  <2>2. CASE ~X.leaf
    <3>1. \A p \in {l, m, r} : p \in nt.nodes \ {P} /\ ~npg[p].leaf
      BY <2>2, <1>2, <1>9, <1>11, <1>14
    <3>2. \A p \in {l, m, r} : Kept(npg, nt, p, None)
      BY <3>1, <1>9 DEF Holds
    <3>3. \A p \in {l, m, r} : npg[p].keys \in Seq(Keys)
      BY <3>2 DEF Kept, Keyed
    <3>. QED
      BY <3>3, <1>11
  <2>. QED
    BY <2>1, <2>2
<1>16. X.leaf \in BOOLEAN /\ Y.next \in Nat \cup {None} /\ l \in Nat /\ r \in Nat
  <2>1. X.leaf \in BOOLEAN /\ Y.next \in Nat \cup {None}
    BY <1>2, NodeFields
  <2>2. l \in Nat /\ r \in Nat
    BY <1>2, FileFacts
  <2>. QED
    BY <2>1, <2>2
<1>17. \A s \in Seq(S) : ItemsOK(X.leaf, s)
  BY DEF TrioDue, PairCall, IsDuo
<1>18. A \in AnyNode
  BY <1>13, <1>15, <1>16, <1>17, MadeIsNode
<1>19. M \in AnyNode
  BY <1>2, <1>13, <1>15, <1>16, <1>17, MadeIsNode, ZenonT(60)
<1>20. B \in AnyNode
  BY <1>13, <1>15, <1>16, <1>17, MadeIsNode
<1>21. pn \in AnyNode
  <2>1. ItemsOK(mem[P].leaf, pn.items)
    BY <1>4 DEF ItemsOK
  <2>. QED
    BY <2>1, <1>4, <1>12, MadeIsNode
<1>. QED
  BY <1>18, <1>19, <1>20, <1>21

\* What the pages and the list of writes are then.
TrioOut(m, A, M, B, out, pn, high) ==
    /\ IsFile(out) /\ DOMAIN out = DOMAIN pages \cup {m} /\ Len(out) = m
    /\ TrioWrites(m, A, M, B) \in Seq(AnyWrite)
    /\ high \in {<<>>, <<Write(pn)>>}
    /\ Orderly(Len(pages), TrioWrites(m, A, M, B) \o high)

\* The file after all the writes.
LEMMA TrioIsOut ==
    ASSUME KeysAssumption, CapacityAssumption,
           NEW mem, NEW n, NEW t, NEW f, NEW P, NEW j, NEW X, NEW Y, NEW S, NEW m, NEW A, NEW M, NEW B, NEW e,
           TrioDue(mem, n, t, f, P, j, X, Y, S, m, A, M, B, e),
           NEW out, out = Written(pages, TrioWrites(m, A, M, B)), NEW pn, pn = TrioParent(out, X, m),
           NEW high, high \in {<<>>, <<Write(pn)>>}
    PROVE  TrioOut(m, A, M, B, out, pn, high)
<1>1. IsTripled(X.id, Y.id, m, A, M, B, out)
  BY TrioWritten
<1>2. A \in AnyNode /\ M \in AnyNode /\ B \in AnyNode /\ pn \in AnyNode
  BY <1>1, TrioTyped
<1>3. PICK l, r : l = X.id /\ r = Y.id
  OBVIOUS
<1>4. /\ l \in t.nodes /\ r \in t.nodes /\ P \in t.nodes
      /\ t.nodes \subseteq DOMAIN pages
      /\ m \in Nat /\ m \notin DOMAIN pages /\ m = Len(pages) + 1 /\ Len(pages) \in Nat
      /\ IsFile(pages) /\ DOMAIN pages = 1..Len(pages)
  BY <1>3, TrioPages
<1>5. A.id = l /\ M.id = m /\ B.id = r
  BY <1>3 DEF TrioDue, IsTrio, IsMade
<1>6. pn.id = P
  BY TrioParentFacts
<1>7. PICK ws, one : ws = <<Write(A), Write(M), Write(B)>> /\ one = <<Fresh(m)>>
  OBVIOUS
<1>8. Write(A) = <<l, A>> /\ Write(M) = <<m, M>> /\ Write(B) = <<r, B>> /\ Write(pn) = <<P, pn>>
  BY <1>5, <1>6 DEF Write
<1>9. l \in Nat \ {0} /\ r \in Nat \ {0} /\ P \in Nat \ {0} /\ m \in Nat \ {0} /\ l <= m /\ r <= m /\ P <= m
  BY <1>4
<1>10. Write(A) \in AnyWrite /\ Write(M) \in AnyWrite /\ Write(B) \in AnyWrite /\ Write(pn) \in AnyWrite
  BY <1>2, <1>8, <1>9 DEF AnyWrite
<1>11. Fresh(m) \in AnyWrite
  BY <1>9, BlankIsNode DEF Fresh, AnyWrite
<1>12. ws \in Seq(AnyWrite) /\ one \in Seq(AnyWrite) /\ Len(one) = 1 /\ Len(ws) = 3 /\ one[1] = Fresh(m)
       /\ ws[1] = <<l, A>> /\ ws[2] = <<m, M>> /\ ws[3] = <<r, B>>
  BY <1>7, <1>8, <1>10, <1>11
<1>13. IsFresh(Len(pages), 1, one)
  BY <1>4, <1>12 DEF IsFresh
<1>14. high \in Seq(AnyWrite) /\ (high = <<>> \/ high = <<<<P, pn>>>>)
  <2>1. high = <<>> \/ high = <<<<P, pn>>>>
    BY <1>8
  <2>2. <<P, pn>> \in AnyWrite
    BY <1>8, <1>10
  <2>3. <<<<P, pn>>>> \in Seq(AnyWrite) /\ <<>> \in Seq(AnyWrite)
    BY <2>2
  <2>. QED
    BY <2>1, <2>3
<1>15. PICK all : all = ws \o high
  OBVIOUS
<1>16. all \in Seq(AnyWrite) /\ \A i \in 1..Len(all) : all[i] \in {<<l, A>>, <<m, M>>, <<r, B>>, <<P, pn>>}
  <2>1. CASE high = <<>>
    <3>1. all = ws
      BY <2>1, <1>12, <1>15, ConcatEmptySeq
    <3>2. \A i \in 1..3 : ws[i] \in {<<l, A>>, <<m, M>>, <<r, B>>, <<P, pn>>}
      <4>1. \A i \in 1..3 : i = 1 \/ i = 2 \/ i = 3
        OBVIOUS
      <4>. QED
        BY <4>1, <1>12
    <3>. QED
      BY <3>1, <3>2, <1>12
  <2>2. CASE high = <<<<P, pn>>>>
    <3>1. Len(high) = 1 /\ high[1] = <<P, pn>>
      BY <2>2
    <3>2. /\ all \in Seq(AnyWrite) /\ Len(all) = Len(ws) + Len(high)
          /\ \A i \in 1..(Len(ws) + Len(high)) : all[i] = IF i <= Len(ws) THEN ws[i] ELSE high[i - Len(ws)]
      <4>1. ws \in Seq(AnyWrite) /\ high \in Seq(AnyWrite)
        BY <1>12, <1>14
      <4>. HIDE <2>2
      <4>. QED
        BY <4>1, <1>15, ConcatProperties
    <3>3. Len(all) = 4 /\ all[1] = ws[1] /\ all[2] = ws[2] /\ all[3] = ws[3] /\ all[4] = high[1]
      <4>1. Len(ws) = 3 /\ Len(high) = 1
        BY <3>1, <1>12
      <4>. HIDE <2>2
      <4>. QED
        BY <3>2, <4>1
    <3>4. \A i \in 1..4 : i = 1 \/ i = 2 \/ i = 3 \/ i = 4
      OBVIOUS
    <3>5. \A i \in 1..4 : all[i] \in {<<l, A>>, <<m, M>>, <<r, B>>, <<P, pn>>}
      BY <3>1, <3>3, <3>4, <1>12
    <3>. QED
      BY <3>2, <3>3, <3>5
  <2>. QED
    BY <1>14, <2>1, <2>2
<1>17. \A w \in {<<l, A>>, <<m, M>>, <<r, B>>, <<P, pn>>} : w[1] <= Len(pages) + 1 /\ w[2].id \in {w[1], None}
  BY <1>4, <1>5, <1>6, <1>9
<1>18. Orderly(Len(pages), one \o all)
  <2>1. \A i \in 1..Len(all) : all[i][1] <= Len(pages) + 1 /\ all[i][2].id \in {all[i][1], None}
    BY <1>16, <1>17
  <2>. QED
    BY <1>13, <1>16, <2>1, FreshOrderly
<1>19. one \o all = TrioWrites(m, A, M, B) \o high
  <2>1. (one \o ws) \o high = one \o (ws \o high)
    BY <1>12, <1>14, ConcatAssociative, SMTT(30)
  <2>. QED
    BY <2>1, <1>7, <1>15 DEF TrioWrites
<1>20. TrioWrites(m, A, M, B) \in Seq(AnyWrite)
  <2>1. one \o ws \in Seq(AnyWrite)
    BY <1>12, ConcatProperties
  <2>. QED
    BY <2>1, <1>7 DEF TrioWrites
<1>21. IsFile(out)
  <2>1. \A i \in 1..Len(ws) : ws[i][1] <= Len(pages) + 1 /\ ws[i][2].id \in {ws[i][1], None}
    <3>1. \A i \in 1..3 : i = 1 \/ i = 2 \/ i = 3
      OBVIOUS
    <3>. QED
      BY <3>1, <1>12, <1>17
  <2>2. Orderly(Len(pages), one \o ws)
    BY <1>12, <1>13, <2>1, FreshOrderly
  <2>3. out = Written(pages, one \o ws)
    BY <1>7 DEF TrioWrites
  <2>. QED
    BY <1>4, <2>2, <2>3, OrderlyFile
<1>22. DOMAIN out = DOMAIN pages \cup {m} /\ Len(out) = m
  BY <1>1 DEF IsTripled
<1>. QED
  BY <1>18, <1>19, <1>20, <1>21, <1>22 DEF TrioOut

\* The parent's page is written, the file having m pages.
IsPutLast(out, P, pn, npg, m) == IsPut(out, P, pn, npg) /\ Len(npg) = m

\* Once npg holds the three nodes and the parent.
LEMMA TrioDone ==
    ASSUME KeysAssumption, CapacityAssumption,
           NEW mem, NEW n, NEW t, NEW f, NEW P, NEW j, NEW X, NEW Y, NEW S, NEW m, NEW A, NEW M, NEW B, NEW e,
           TrioDue(mem, n, t, f, P, j, X, Y, S, m, A, M, B, e),
           NEW out, IsTripled(X.id, Y.id, m, A, M, B, out), NEW pn, pn = TrioParent(out, X, m),
           NEW npg, IsPutLast(out, P, pn, npg, m),
           NEW q, q \in {None, P}, q = None => Proper(pn)
    PROVE  \E nt : TrioTree(t, m, P, pn, npg, nt, q) /\ InFile(npg, nt) /\ Tells(meta, held, nt)
<1>1. /\ P \in t.nodes /\ t.nodes \subseteq DOMAIN pages
      /\ Holds(meta.kind, mem, meta.root, t, n, None) /\ Tells(meta, held, t)
      /\ m \in Nat /\ m = Len(pages) + 1 /\ Len(pages) \in Nat
  BY TrioPages
<1>3. DOMAIN out = DOMAIN pages \cup {m}
  BY DEF IsTripled
<1>4. DOMAIN npg = DOMAIN out /\ npg[P] = pn /\ \A p \in DOMAIN out \ {P} : npg[p] = out[p]
  BY <1>1, <1>3 DEF IsPutLast, IsPut
<1>5. /\ IsRebuilt(out, pn) /\ pn.id = P /\ pn.leaf = mem[P].leaf /\ pn.items = InsertAt(mem[P].items, j + 1, m)
  BY TrioParentFacts
<1>6. IsAdopted(mem, P, j, m, out, npg)
  BY <1>4, <1>5 DEF IsAdopted
<1>7. q = None => Sized(meta.kind, npg, P)
  BY <1>4, ProperIsSized
<1>8. PICK nt : /\ Holds(meta.kind, npg, meta.root, nt, q, None) /\ SameTop(t, nt, meta.root)
                /\ nt.nodes = t.nodes \cup {m} /\ \A p \in t.nodes : nt.level[p] = t.level[p]
  BY <1>6, <1>7, TrioHolds, SMTT(30)
<1>9. TrioTree(t, m, P, pn, npg, nt, q)
  BY <1>4, <1>8 DEF TrioTree
<1>10. \A p \in nt.nodes : nt.level[p] \in Nat /\ nt.level[p] <= Len(pages)
  BY <1>9, TrioLevels
<1>11. InFile(npg, nt)
  BY <1>1, <1>10 DEF InFile, IsPutLast
<1>12. Tells(meta, held, nt)
  <2>1. meta.root \in nt.nodes
    BY <1>8, HoldsFacts DEF Tree
  <2>. QED
    BY <2>1, <1>1, <1>8 DEF Tells, SameTop
<1>. QED
  BY <1>9, <1>11, <1>12

\* The writes are of nodes, and npg is out but for the page of the parent.
AreWritable(m, A, M, B, P, out, pn, npg) ==
    /\ TrioWrites(m, A, M, B) \in Seq(AnyWrite) /\ out = Written(pages, TrioWrites(m, A, M, B))
    /\ pn \in AnyNode /\ P \in Nat \ {0} /\ \A p \in DOMAIN out \ {P} : npg[p] = out[p]

\* A page of zeros after the last page, then the three nodes, then their parent.
LEMMA TrioSound ==
    ASSUME NEW mem, NEW n, NEW t, NEW f, NEW P, NEW j, NEW X, NEW Y, NEW S, NEW m, NEW A, NEW M, NEW B, NEW e,
           TrioDue(mem, n, t, f, P, j, X, Y, S, m, A, M, B, e), NEW out, IsTripled(X.id, Y.id, m, A, M, B, out),
           NEW pn, pn = TrioParent(out, X, m), NEW npg, AreWritable(m, A, M, B, P, out, pn, npg),
           NEW nt, NEW q, TrioTree(t, m, P, pn, npg, nt, q), FInv
    PROVE  /\ P \in Good(pages) /\ Sound(Good(pages), TrioWrites(m, A, M, B))
           /\ Sound(Good(pages), TrioWrites(m, A, M, B) \o <<Write(pn)>>)
<1>0. /\ TrioWrites(m, A, M, B) \in Seq(AnyWrite) /\ out = Written(pages, TrioWrites(m, A, M, B))
      /\ pn \in AnyNode /\ P \in Nat \ {0} /\ \A p \in DOMAIN out \ {P} : npg[p] = out[p]
  BY DEF AreWritable
<1>1. PICK G, l, r : G = Good(pages) /\ l = X.id /\ r = Y.id
  OBVIOUS
<1>2. /\ l \in t.nodes /\ r \in t.nodes /\ P \in t.nodes /\ l # r /\ P # l /\ P # r
      /\ t.nodes \subseteq DOMAIN pages /\ m \notin DOMAIN pages
      /\ SiblingShape(mem, t, P, l, r)
  BY <1>1, TrioPages
<1>3. t.nodes \subseteq G
  <2>1. Mid(mem, n, t, f)
    BY DEF TrioDue, PairCall
  <2>. QED
    BY <1>1, <2>1, TreeGood
<1>4. m \notin G
  BY <1>1, <1>2 DEF Good
<1>5. /\ npg[P] = pn /\ Holds(meta.kind, npg, meta.root, nt, q, None)
      /\ nt.nodes = t.nodes \cup {m} /\ \A p \in t.nodes : nt.level[p] = t.level[p]
  BY DEF TrioTree
<1>6. nt.level[m] = t.level[P] - 1 /\ nt.level[l] = t.level[P] - 1 /\ nt.level[r] = t.level[P] - 1
  BY <1>2, <1>5, TrioLevels DEF SiblingShape
<1>7. \A p \in nt.nodes : NodeOK(npg, nt, p) /\ npg[p].id = p
  BY <1>5, HoldsFacts
<1>8. npg[l] = A /\ npg[m] = M /\ npg[r] = B /\ m \in DOMAIN out /\ out[m] = M
  BY <1>0, <1>1, <1>2 DEF IsTripled
<1>9. ASSUME NEW p \in {l, m, r} PROVE npg[p].id = p /\ Below(npg[p], G)
  <2>1. p \in nt.nodes /\ nt.level[p] = nt.level[m] /\ nt.level[m] \in Nat
    <3>1. p \in nt.nodes /\ m \in nt.nodes
      BY <1>2, <1>5, <1>9
    <3>2. nt.level[m] \in Nat
      BY <3>1, <1>7 DEF NodeOK
    <3>3. nt.level[l] = nt.level[m] /\ nt.level[r] = nt.level[m]
      BY <1>6
    <3>4. p = l \/ p = m \/ p = r
      BY <1>9
    <3>. QED
      BY <3>1, <3>2, <3>3, <3>4
  <2>2. SUFFICES ASSUME ~npg[p].leaf, NEW i \in 1..Size(npg, p) PROVE npg[p].items[i] \in t.nodes
    BY <1>3, <1>7, <2>1 DEF Below, Size
  <2>3. npg[p].items[i] \in nt.nodes /\ nt.level[npg[p].items[i]] = nt.level[p] - 1
    BY <1>7, <2>1, <2>2 DEF NodeOK
  <2>4. npg[p].items[i] # m
    BY <2>1, <2>3
  <2>. QED
    BY <1>5, <2>3, <2>4
<1>10. PICK a, b : a = <<Fresh(m)>> /\ b = <<Write(A), Write(M), Write(B)>>
  OBVIOUS
<1>11. TrioWrites(m, A, M, B) = a \o b
  BY <1>10 DEF TrioWrites
<1>12. Len(a) = 1 /\ a[1] = <<m, Blank>> /\ Len(b) = 3 /\ b[1] = <<l, A>> /\ b[2] = <<m, M>> /\ b[3] = <<r, B>>
  <2>1. A.id = l /\ M.id = m /\ B.id = r
    BY <1>8, <1>9
  <2>. QED
    BY <1>10, <2>1 DEF Write, Fresh
<1>13. a \in Seq(AnyWrite) /\ b \in Seq(AnyWrite)
  <2>1. PICK s : s = TrioWrites(m, A, M, B)
    OBVIOUS
  <2>2. Len(s) = 4 /\ s[1] = a[1] /\ s[2] = b[1] /\ s[3] = b[2] /\ s[4] = b[3]
    BY <2>1, <1>10 DEF TrioWrites
  <2>3. s[1] \in AnyWrite /\ s[2] \in AnyWrite /\ s[3] \in AnyWrite /\ s[4] \in AnyWrite
    <3>1. \A i \in 1..4 : s[i] \in AnyWrite
      BY <1>0, <2>1, <2>2, ElementOfSeq
    <3>. QED
      BY <3>1
  <2>. QED
    BY <1>10, <2>2, <2>3
<1>14. Sound(G, a)
  <2>. SUFFICES ASSUME NEW i \in 1..Len(a)
                PROVE  /\ a[i][2].id # a[i][1] /\ ~IsNodeBefore(G, a, i, a[i][1])
    BY DEF Sound
  <2>1. i = 1 /\ a[i] = <<m, Blank>>
    BY <1>12
  <2>2. Blank.id # m
    <3>1. None \notin nt.nodes
      BY <1>5, HoldsFacts DEF Tree
    <3>2. m \in nt.nodes
      BY <1>5
    <3>3. Blank.id = None
      BY DEF Blank, Leaf
    <3>. QED
      BY <3>1, <3>2, <3>3
  <2>3. ~IsNodeBefore(G, a, i, m)
    BY <1>4, <2>1 DEF IsNodeBefore
  <2>. QED
    BY <2>1, <2>2, <2>3
<1>15. PICK h : h = Written(pages, a)
  OBVIOUS
<1>16. G \subseteq Good(h)
  BY <1>1, <1>13, <1>14, <1>15, GoodGrows
<1>17. Sound(Good(h), b)
  <2>1. \A i \in 1..Len(b) : b[i][2].id = b[i][1] /\ Below(b[i][2], Good(h))
    <3>1. Below(A, Good(h)) /\ Below(M, Good(h)) /\ Below(B, Good(h)) /\ A.id = l /\ M.id = m /\ B.id = r
      BY <1>8, <1>9, <1>16 DEF Below
    <3>2. ASSUME NEW i \in 1..Len(b) PROVE b[i] \in {<<l, A>>, <<m, M>>, <<r, B>>}
      <4>1. i \in {1, 2, 3}
        BY <1>12
      <4>. QED
        BY <4>1, <1>12
    <3>. QED
      BY <3>1, <3>2
  <2>. QED
    BY <2>1, SoundNodes
<1>18. Sound(G, a \o b)
  BY <1>1, <1>13, <1>14, <1>15, <1>17, SoundThen
<1>19. G \subseteq Good(out) /\ m \in Good(out)
  <2>1. G \subseteq Good(out)
    <3>1. PICK ws : ws = TrioWrites(m, A, M, B)
      OBVIOUS
    <3>2. ws \in Seq(AnyWrite) /\ Sound(Good(pages), ws) /\ out = Written(pages, ws)
      BY <1>0, <3>1, <1>1, <1>11, <1>18
    <3>. QED
      BY <3>2, <1>1, GoodGrows
  <2>2. out[m].id = m
    BY <1>8, <1>9
  <2>. QED
    BY <1>8, <2>1, <2>2 DEF Good
<1>20. pn.id = P /\ Below(pn, Good(out))
  <2>1. P \in nt.nodes
    BY <1>2, <1>5
  <2>2. Below(pn, nt.nodes)
    <3>1. NodeOK(npg, nt, P)
      BY <1>7, <2>1
    <3>2. npg[P] = pn
      BY <1>5
    <3>. QED
      BY <3>1, <3>2, BelowInTree
  <2>. QED
    BY <1>3, <1>5, <1>7, <1>19, <2>1, <2>2 DEF Below
<1>21. PICK high : high = <<Write(pn)>>
  OBVIOUS
<1>22. high \in Seq(AnyWrite) /\ Sound(Good(out), high)
  <2>1. Len(high) = 1 /\ high[1] = <<P, pn>>
    BY <1>20, <1>21 DEF Write
  <2>2. <<P, pn>> \in AnyWrite
    BY <1>0 DEF AnyWrite
  <2>3. \A i \in 1..Len(high) : high[i][2].id = high[i][1] /\ Below(high[i][2], Good(out))
    <3>. SUFFICES ASSUME NEW i \in 1..Len(high) PROVE high[i] = <<P, pn>>
      BY <1>20
    <3>. QED
      BY <2>1
  <2>. QED
    BY <1>20, <1>21, <2>2, <2>3, SoundNodes DEF Write
<1>23. Sound(G, TrioWrites(m, A, M, B) \o high)
  BY <1>0, <1>1, <1>11, <1>18, <1>22, SoundThen
<1>. QED
  BY <1>1, <1>2, <1>3, <1>11, <1>18, <1>21, <1>23

\* The parent has room.
LEMMA TrioFits ==
    ASSUME KeysAssumption, CapacityAssumption,
           NEW mem, NEW n, NEW t, NEW f, NEW P, NEW j, NEW X, NEW Y, NEW S, NEW m, NEW A, NEW M, NEW B, NEW e,
           TrioDue(mem, n, t, f, P, j, X, Y, S, m, A, M, B, e),
           NEW out, out = Written(pages, TrioWrites(m, A, M, B)), NEW pn, pn = TrioParent(out, X, m),
           Fits(pn), Finish(TrioWrites(m, A, M, B), <<Write(pn)>>)
    PROVE  Keeps
<1>1. PICK low, high : low = TrioWrites(m, A, M, B) /\ high = <<Write(pn)>>
  OBVIOUS
<1>2. TrioOut(m, A, M, B, out, pn, high)
  BY <1>1, TrioIsOut
<1>3. /\ IsFile(out) /\ DOMAIN out = DOMAIN pages \cup {m} /\ Len(out) = m
      /\ low \in Seq(AnyWrite) /\ Orderly(Len(pages), low \o high)
  BY <1>1, <1>2 DEF TrioOut
<1>4. /\ Typed /\ P \in t.nodes /\ t.nodes \subseteq DOMAIN pages /\ m \in Nat
      /\ Holds(meta.kind, mem, meta.root, t, n, None) /\ ~mem[P].leaf
  BY TrioPages
<1>5. /\ pn.id = P /\ ~pn.leaf /\ Len(pn.items) = Size(mem, P) + 1 /\ Size(mem, P) \in Nat
      /\ j + 1 \in 1..Len(pn.items) /\ P \in Nat
  BY TrioParentFacts
<1>6. PICK npg : npg = Written(pages, low \o high)
  OBVIOUS
<1>7. IsFile(npg)
  <2>1. IsFile(pages)
    BY <1>4 DEF Typed
  <2>. QED
    BY <2>1, <1>3, <1>6, OrderlyFile
<1>8. IsPut(out, P, pn, npg)
  <2>1. PICK W : W = AnyWrite \cup {<<P, pn>>}
    OBVIOUS
  <2>2. low \in Seq(W) /\ <<P, pn>> \in W
    BY <2>1, <1>3
  <2>3. high = <<<<P, pn>>>>
    BY <1>1, <1>5 DEF Write
  <2>4. npg = Written(pages, low \o <<<<P, pn>>>>) /\ out = Written(pages, low)
    BY <1>1, <1>6, <2>3
  <2>5. IsPut(Written(pages, low), P, pn, Written(pages, low \o <<<<P, pn>>>>))
    BY <2>2, PutNext
  <2>. QED
    BY <2>4, <2>5
<1>9. Len(npg) = m
  <2>1. DOMAIN npg = DOMAIN out
    BY <1>3, <1>4, <1>8 DEF IsPut
  <2>2. DOMAIN npg = 1..Len(npg) /\ DOMAIN out = 1..Len(out) /\ Len(npg) \in Nat
    BY <1>3, <1>7, FileFacts
  <2>3. \A a, b \in Nat : 1..a = 1..b => a = b
    <3>. SUFFICES ASSUME NEW a \in Nat, NEW b \in Nat, 1..a = 1..b PROVE a = b
      OBVIOUS
    <3>1. a \in 1..a \/ a = 0
      OBVIOUS
    <3>2. b \in 1..b \/ b = 0
      OBVIOUS
    <3>. QED
      BY <3>1, <3>2
  <2>. QED
    BY <2>1, <2>2, <2>3, <1>3, <1>4
<1>10. Proper(pn)
  <2>1. Len(pn.items) \in Nat /\ KeyCount(pn) = Len(pn.items) - 1
    BY <1>5 DEF KeyCount
  <2>2. Size(mem, P) >= 1
    <3>1. P \in t.nodes /\ ~mem[P].leaf
      BY <1>4
    <3>2. \A p \in t.nodes \ {n} : ~mem[p].leaf => Size(mem, p) >= 2
      BY <1>4, HoldsFacts
    <3>3. n \in t.nodes /\ ~mem[n].leaf => Size(mem, n) >= 1
      BY <1>4 DEF Holds
    <3>4. CASE P = n
      BY <3>1, <3>3, <3>4
    <3>5. CASE P # n
      <4>1. Size(mem, P) >= 2
        BY <3>1, <3>2, <3>5
      <4>. QED
        BY <4>1, <1>5
    <3>. QED
      BY <3>4, <3>5
  <2>3. PICK z \in Nat : z = Size(mem, P)
    BY <1>5
  <2>4. Len(pn.items) = z + 1 /\ z >= 1
    BY <2>2, <2>3, <1>5
  <2>5. 1 <= KeyCount(pn)
    BY <2>1, <2>4
  <2>. QED
    BY <2>5 DEF Proper, Fits
<1>106. IsTripled(X.id, Y.id, m, A, M, B, out)
  BY TrioWritten
<1>11. PICK nt : TrioTree(t, m, P, pn, npg, nt, None) /\ InFile(npg, nt) /\ Tells(meta, held, nt)
  <2>1. IsPutLast(out, P, pn, npg, m)
    BY <1>8, <1>9 DEF IsPutLast
  <2>. HIDE <1>1, <1>6
  <2>. QED
    BY <2>1, <1>10, <1>106, TrioDone
<1>12. Rests(npg, meta, held)
  <2>1. Holds(meta.kind, npg, meta.root, nt, None, None)
    BY <1>11 DEF TrioTree
  <2>. QED
    BY <2>1, <1>11, RestsIf
<1>13. Finish(low, high) /\ Rests(Written(pages, low \o high), meta, held)
  BY <1>1, <1>6, <1>12
<1>14. FInv => Sound(Good(pages), low \o high)
  <2>1. PICK q : q = None
    OBVIOUS
  <2>2. TrioTree(t, m, P, pn, npg, nt, q)
    BY <2>1, <1>11
  <2>3. \A p \in DOMAIN out \ {P} : npg[p] = out[p]
    BY <1>8 DEF IsPut
  <2>4. pn \in AnyNode /\ P \in Nat \ {0} /\ TrioWrites(m, A, M, B) \in Seq(AnyWrite)
    <3>1. pn \in AnyNode
      BY <1>106, TrioTyped
    <3>2. P \in Nat \ {0}
      BY <1>4, FileFacts DEF Typed
    <3>. QED
      BY <3>1, <3>2, <1>1, <1>3
  <2>6. AreWritable(m, A, M, B, P, out, pn, npg)
    BY <2>3, <2>4 DEF AreWritable
  <2>. HIDE <1>1, <1>6
  <2>5. FInv => Sound(Good(pages), TrioWrites(m, A, M, B) \o <<Write(pn)>>)
    BY <2>2, <2>6, <1>106, TrioSound
  <2>. QED
    BY <2>5, <1>1
<1>. QED
  BY <1>3, <1>4, <1>13, <1>14, FinishKeeps

\* The parent has too many children now.
LEMMA TrioGoesOn ==
    ASSUME KeysAssumption, CapacityAssumption,
           NEW mem, NEW n, NEW t, NEW f, NEW P, NEW j, NEW X, NEW Y, NEW S, NEW m, NEW A, NEW M, NEW B, NEW e,
           TrioDue(mem, n, t, f, P, j, X, Y, S, m, A, M, B, e),
           NEW out, out = Written(pages, TrioWrites(m, A, M, B)), NEW pn, pn = TrioParent(out, X, m),
           ~Fits(pn), Do(busy, TrioWrites(m, A, M, B), <<>>, meta, Call("split", pn, ParentPath)), held' = held
    PROVE  Keeps
<1>1. PICK low, high : low = TrioWrites(m, A, M, B) /\ high = <<>>
  OBVIOUS
<1>2. TrioOut(m, A, M, B, out, pn, high)
  BY <1>1, TrioIsOut
<1>3. /\ IsFile(out) /\ DOMAIN out = DOMAIN pages \cup {m} /\ Len(out) = m
      /\ low \in Seq(AnyWrite) /\ Orderly(Len(pages), low \o high)
  BY <1>1, <1>2 DEF TrioOut
<1>4. /\ Typed /\ P \in t.nodes /\ t.nodes \subseteq DOMAIN pages /\ m \in Nat
      /\ Holds(meta.kind, mem, meta.root, t, n, None) /\ ~mem[P].leaf /\ Tree(mem, meta.root, t)
      /\ \A p \in DOMAIN pages \ {X.id, Y.id} : mem[p] = pages[p]
      /\ SiblingShape(mem, t, P, X.id, Y.id) /\ n \in {X.id, Y.id} /\ P # X.id /\ P # Y.id
      /\ m \notin DOMAIN pages
  BY TrioPages
<1>5. /\ pn.id = P /\ ~pn.leaf /\ Len(pn.items) = Size(mem, P) + 1 /\ Size(mem, P) \in Nat
      /\ P \in Nat
  BY TrioParentFacts
<1>6. IsTripled(X.id, Y.id, m, A, M, B, out)
  BY TrioWritten
<1>7. pn \in AnyNode
  BY <1>6, TrioTyped
<1>8. PICK npg : npg = With(out, pn)
  OBVIOUS
<1>9. P \in DOMAIN out
  BY <1>3, <1>4
<1>10. /\ IsFile(npg) /\ DOMAIN npg = DOMAIN out /\ Len(npg) = Len(out)
       /\ npg[P] = pn /\ \A p \in DOMAIN out \ {P} : npg[p] = out[p]
  BY <1>3, <1>5, <1>7, <1>8, <1>9, WithFacts
<1>11. IsPut(out, P, pn, npg)
  BY <1>9, <1>10 DEF IsPut
<1>12. P # None
  BY <1>5 DEF CapacityAssumption
<1>13. PICK nt : TrioTree(t, m, P, pn, npg, nt, P) /\ InFile(npg, nt) /\ Tells(meta, held, nt)
  <2>1. IsPutLast(out, P, pn, npg, m)
    BY <1>3, <1>10, <1>11 DEF IsPutLast
  <2>. HIDE <1>1, <1>8
  <2>. QED
    BY <1>6, <1>12, <2>1, TrioDone
<1>14. /\ Holds(meta.kind, npg, meta.root, nt, P, None) /\ nt.nodes = t.nodes \cup {m}
  BY <1>13 DEF TrioTree
<1>15. IsRoute(npg, nt, ParentPath, meta.root, P)
  <2>1. IsRoute(mem, t, ParentPath, meta.root, P)
    <3>1. PICK i : IsParent(mem, t, call.path, meta.root, P, i, n)
      BY DEF TrioDue, PairCall
    <3>. QED
      BY <3>1 DEF IsParent, ParentPath
  <2>2. t.level[X.id] = t.level[P] - 1 /\ t.level[Y.id] = t.level[P] - 1 /\ t.level[P] \in Nat
    BY <1>4 DEF SiblingShape
  <2>3. \A q \in t.nodes \ {X.id, Y.id, P} : npg[q] = mem[q]
    <3>1. \A q \in DOMAIN pages \ {X.id, Y.id} : out[q] = pages[q]
      BY <1>6 DEF IsTripled
    <3>. QED
      BY <3>1, <1>3, <1>4, <1>10
  <2>4. \A q \in t.nodes : t.level[q] > t.level[P] => q \notin {X.id, Y.id, P}
    BY <2>2
  <2>5. \A q \in t.nodes : t.level[q] > t.level[P] =>
            q \in nt.nodes /\ npg[q].leaf = mem[q].leaf /\ npg[q].items = mem[q].items
    BY <1>14, <2>3, <2>4
  <2>6. P \in nt.nodes
    BY <1>4, <1>14
  <2>. QED
    BY <1>4, <2>1, <2>5, <2>6, RouteMoves
<1>16. Due("split", meta.kind, npg, nt, P, ParentPath, None)
  <2>1. P # n
    BY <1>4
  <2>2. Sized(meta.kind, mem, P)
    BY <2>1, <1>4 DEF Holds
  <2>3. Count(mem, P) <= MaxOf(meta.kind, FALSE) /\ Count(mem, P) = Size(mem, P) - 1
    BY <2>2, <1>4 DEF Sized, Count, MaxOf
  <2>4. Size(npg, P) = Size(mem, P) + 1 /\ npg[P].leaf = FALSE
    <3>1. pn.leaf = FALSE
      BY <1>5, <1>7, AnyNodeIsNode, NodeFields
    <3>. QED
      BY <3>1, <1>5, <1>10 DEF Size
  <2>5. Count(npg, P) = Size(mem, P)
    BY <2>4, <1>5 DEF Count
  <2>6. MaxOf(meta.kind, FALSE) \in Nat
    BY <1>4 DEF MaxOf, MetaType, CapacityAssumption, Typed
  <2>7. KeyCount(pn) = Size(mem, P) /\ MaxKeys(pn) = MaxOf(meta.kind, FALSE)
    BY <1>5 DEF KeyCount, MaxKeys, MaxOf
  <2>8. ~(Size(mem, P) <= MaxOf(meta.kind, FALSE))
    BY <2>7 DEF Fits
  <2>9. PICK z \in Nat, h \in Nat : z = Size(mem, P) /\ h = MaxOf(meta.kind, FALSE)
    BY <2>6, <1>5
  <2>10. z = h + 1
    <3>1. z - 1 <= h /\ ~(z <= h)
      BY <2>3, <2>8, <2>9
    <3>. QED
      BY <3>1
  <2>11. Count(npg, P) = MaxOf(meta.kind, npg[P].leaf) + 1
    BY <2>4, <2>5, <2>9, <2>10
  <2>. QED
    BY <2>11 DEF Due
<1>17. PICK c : c = Call("split", pn, ParentPath)
  OBVIOUS
<1>18. c.fn = "split" /\ c.node = pn /\ c.path = ParentPath
  BY <1>17 DEF Call
<1>19. WorksOn(With(out, c.node), meta, held, c, nt, None)
  BY <1>5, <1>8, <1>13, <1>14, <1>15, <1>16, <1>18 DEF WorksOn
<1>20. IsCall(DOMAIN out, c)
  <2>1. ParentPath \in Seq(nt.nodes)
    BY <1>15 DEF IsRoute
  <2>2. nt.nodes \subseteq DOMAIN out
    BY <1>3, <1>4, <1>14
  <2>3. ParentPath \in Seq(DOMAIN out)
    BY <2>1, <2>2
  <2>. QED
    BY <1>7, <1>17, <2>3 DEF IsCall
<1>21. CallOK(out, meta, held, c)
  BY <1>5, <1>9, <1>18, <1>19, <1>20 DEF CallOK, Works
<1>22. low \o high = low
  BY <1>1, <1>3, ConcatEmptySeq
<1>23. Leaves(low \o high, meta, held, c)
  <2>1. meta \in MetaType(DOMAIN pages)
    BY <1>4 DEF Typed
  <2>2. meta \in MetaType(DOMAIN out)
    BY <2>1, <1>3, MetaTypeGrows
  <2>3. Written(pages, low \o high) = out
    BY <1>1, <1>22
  <2>. QED
    BY <2>2, <2>3, <1>3, <1>21 DEF Leaves
<1>24. Do(busy, low, high, meta, c)
  BY <1>1, <1>17
<1>25. busy \in Keys \cup {None} /\ held \subseteq Keys /\ IsFiniteSet(held)
  BY <1>4 DEF Typed
<1>26. ASSUME FInv PROVE P \in Good(pages) /\ Sound(Good(pages), low \o high)
  <2>1. PICK q : q = P
    OBVIOUS
  <2>2. TrioTree(t, m, P, pn, npg, nt, q)
    BY <2>1, <1>13
  <2>3. \A p \in DOMAIN out \ {P} : npg[p] = out[p]
    BY <1>10
  <2>4. P \in Nat \ {0} /\ TrioWrites(m, A, M, B) \in Seq(AnyWrite)
    <3>1. P \in Nat \ {0}
      BY <1>4, FileFacts DEF Typed
    <3>. QED
      BY <3>1, <1>1, <1>3
  <2>6. AreWritable(m, A, M, B, P, out, pn, npg)
    BY <2>3, <2>4, <1>7 DEF AreWritable
  <2>. HIDE <1>1, <1>8
  <2>5. P \in Good(pages) /\ Sound(Good(pages), TrioWrites(m, A, M, B))
    BY <2>2, <2>6, <1>6, <1>26, TrioSound
  <2>. QED
    BY <2>5, <1>1, <1>22
<1>27. c # Killed /\ c.node.id = P
  BY <1>5, <1>18 DEF Killed
<1>. QED
  BY <1>3, <1>4, <1>23, <1>24, <1>25, <1>26, <1>27, DoKeepsBoth

\* A sibling of a full node that can take nothing is full too.
LEMMA PairIsTight ==
    ASSUME CapacityAssumption, call.fn = "split",
           NEW mem, NEW n, NEW t, NEW f, NEW P, NEW j, NEW X, NEW Y, NEW S,
           PairCall(mem, n, t, f, P, j, X, Y, S),
           NEW sib, (X = call.node /\ Y = sib) \/ (Y = call.node /\ X = sib), Proper(sib),
           call.node.leaf => ~(Len(sib.items) < MaxKeys(sib)), ~call.node.leaf => ~CanShare(X, Y)
    PROVE  IsTight(X, Y, MaxKeys(X))
<1>1. IsDuo(X, Y, S) /\ Mid(mem, n, t, f) /\ Typed
  BY DEF PairCall
<1>2. X.leaf \in BOOLEAN /\ Y.leaf = X.leaf /\ Len(X.items) \in Nat /\ Len(Y.items) \in Nat
  BY <1>1 DEF IsDuo
<1>3. KeyCount(call.node) = MaxKeys(call.node) + 1
  BY <1>1, CallSize
<1>4. MaxKeys(X) \in Nat /\ MaxKeys(Y) = MaxKeys(X) /\ MaxKeys(sib) = MaxKeys(X) /\ MaxKeys(call.node) = MaxKeys(X)
      /\ call.node.leaf = X.leaf /\ sib.leaf = X.leaf
  BY <1>1, <1>2, MaxFacts DEF MaxKeys
<1>5. PICK a \in Nat, b \in Nat, h \in Nat : a = Len(call.node.items) /\ b = Len(sib.items) /\ h = MaxKeys(X)
  BY <1>2, <1>4
<1>6. Len(X.items) + Len(Y.items) = a + b
  <2>1. PICK x \in Nat, y \in Nat : x = Len(X.items) /\ y = Len(Y.items)
    BY <1>2
  <2>2. (x = a /\ y = b) \/ (y = a /\ x = b)
    BY <2>1, <1>5
  <2>3. x + y = a + b
    BY <2>2
  <2>. QED
    BY <2>1, <2>3
<1>7. CASE X.leaf
  <2>1. KeyCount(call.node) = a /\ KeyCount(sib) = b
    BY <1>4, <1>5, <1>7 DEF KeyCount
  <2>2. a = h + 1 /\ b <= h /\ ~(b < h)
    BY <1>3, <1>4, <1>5, <1>7, <2>1 DEF Proper
  <2>3. a + b = 2 * h + 1
    BY <2>2
  <2>. QED
    BY <1>5, <1>6, <1>7, <2>3 DEF IsTight
<1>8. CASE ~X.leaf
  <2>1. KeyCount(call.node) = a - 1 /\ KeyCount(sib) = b - 1
    BY <1>4, <1>5, <1>8 DEF KeyCount
  <2>2. a - 1 = h + 1 /\ b - 1 <= h
    BY <1>3, <1>4, <1>5, <2>1 DEF Proper
  <2>3. ~(a + b <= 2 * (h + 1))
    BY <1>4, <1>5, <1>6, <1>8 DEF CanShare
  <2>4. a + b = 2 * h + 3
    BY <2>2, <2>3
  <2>. QED
    BY <1>5, <1>6, <1>8, <2>4 DEF IsTight
<1>. QED
  BY <1>2, <1>7, <1>8

\* The pair of a split that no sibling can help with.
LEMMA SplitPairOf ==
    ASSUME CapacityAssumption, IInv, call.fn = "split", ~IsRoot, NoSiblingHelps
    PROVE  \E mem, n, t, f, P, j, S :
               /\ PairCall(mem, n, t, f, P, j, PairOnSplit[1], PairOnSplit[2], S)
               /\ IsTight(PairOnSplit[1], PairOnSplit[2], MaxKeys(PairOnSplit[1]))
<1>1. CASE HasRight
  <2>1. PICK X, Y : X = call.node /\ Y = RightSibling
    OBVIOUS
  <2>2. PICK mem, n, t, f, P, j, S : PairCall(mem, n, t, f, P, j, X, Y, S) /\ Proper(Y)
    BY <1>1, <2>1, RightCall
  <2>3. (call.node.leaf => ~(Len(Y.items) < MaxKeys(Y))) /\ (~call.node.leaf => ~CanShare(X, Y))
    BY <1>1, <2>1 DEF NoSiblingHelps, CanGiveRight
  <2>4. IsTight(X, Y, MaxKeys(X))
    <3>1. (X = call.node /\ Y = Y) \/ (Y = call.node /\ X = Y)
      BY <2>1
    <3>. QED
      BY <2>2, <2>3, <3>1, PairIsTight
  <2>5. PairOnSplit[1] = X /\ PairOnSplit[2] = Y
    BY <1>1, <2>1 DEF PairOnSplit
  <2>. QED
    BY <2>2, <2>4, <2>5
<1>2. CASE ~HasRight
  <2>0. HasLeft
    <3>1. PICK mem, n, t, f : Mid(mem, n, t, f)
      BY CallFacts
    <3>2. HasLeft \/ HasRight
      BY <3>1, CallPair
    <3>. QED
      BY <1>2, <3>2
  <2>1. PICK X, Y : X = LeftSibling /\ Y = call.node
    OBVIOUS
  <2>2. PICK mem, n, t, f, P, j, S : PairCall(mem, n, t, f, P, j, X, Y, S) /\ Proper(X)
    BY <2>0, <2>1, LeftCall
  <2>3. (call.node.leaf => ~(Len(X.items) < MaxKeys(X))) /\ (~call.node.leaf => ~CanShare(X, Y))
    BY <2>0, <2>1 DEF NoSiblingHelps, CanGiveLeft
  <2>4. IsTight(X, Y, MaxKeys(X))
    <3>1. (X = call.node /\ Y = X) \/ (Y = call.node /\ X = X)
      BY <2>1
    <3>. QED
      BY <2>2, <2>3, <3>1, PairIsTight
  <2>5. PairOnSplit[1] = X /\ PairOnSplit[2] = Y
    BY <1>2, <2>1 DEF PairOnSplit
  <2>. QED
    BY <2>2, <2>4, <2>5
<1>. QED
  BY <1>1, <1>2

\* split_leaf_pair and split_internal_pair keep the invariant, whether the parent
\* fits or is the next to be split.
LEMMA SplitPairKeeps ==
    ASSUME KeysAssumption, CapacityAssumption, IInv, SplitPair
    PROVE  Keeps
<1>1. PICK X, Y : X = PairOnSplit[1] /\ Y = PairOnSplit[2]
  OBVIOUS
<1>2. PICK m : m = Len(pages) + 1
  OBVIOUS
<1>3. call.fn = "split" /\ ~IsRoot /\ NoSiblingHelps /\ held' = held
  BY DEF SplitPair
<1>4. PICK mem, n, t, f, P, j, S : PairCall(mem, n, t, f, P, j, X, Y, S) /\ IsTight(X, Y, MaxKeys(X))
  BY <1>1, <1>3, SplitPairOf
<1>5. IsDuo(X, Y, S) /\ Typed /\ Mid(mem, n, t, f) /\ IsPair(mem, t, n, P, j, X, Y)
  BY <1>4 DEF PairCall
<1>6. IsFile(pages)
  BY <1>5 DEF Typed
<1>7. Len(pages) \in Nat
  BY <1>6, FileFacts
<1>8. m \in Nat
  BY <1>2, <1>7
<1>9. Y.id \in Nat
  <2>1. /\ Holds(meta.kind, mem, meta.root, t, n, f) /\ DOMAIN mem = DOMAIN pages
        /\ AreSiblings(mem, t, P, j, X.id, Y.id)
    BY <1>5 DEF Mid, IsPair
  <2>2. Tree(mem, meta.root, t) /\ \A q \in t.nodes : NodeOK(mem, t, q)
    BY <2>1, HoldsFacts
  <2>3. Y.id \in t.nodes
    BY <2>1, <2>2, SiblingFacts DEF SiblingShape
  <2>4. Y.id \in DOMAIN pages
    BY <2>1, <2>2, <2>3 DEF Tree
  <2>. QED
    BY <2>4, <1>6, FileFacts
<1>10. PICK A, M, B, e : AreThirds(X, Y, m, A, M, B, S, e)
  <2>1. Typed /\ IsDuo(X, Y, S) /\ m \in Nat /\ Y.id \in Nat
    BY <1>5, <1>8, <1>9
  <2>2. PICK h : h = MaxKeys(X)
    OBVIOUS
  <2>3. IsTight(X, Y, h)
    BY <1>4, <2>2
  <2>. QED
    BY <2>1, <2>3, ThirdsMade
<1>11. TrioDue(mem, n, t, f, P, j, X, Y, S, m, A, M, B, e)
  BY <1>2, <1>3, <1>4, <1>10 DEF TrioDue, AreThirds
<1>12. PICK low : low = TrioWrites(m, A, M, B)
  OBVIOUS
<1>13. low = <<Fresh(m)>> \o Thirds(X, Y, m)
  BY <1>10, <1>12 DEF TrioWrites, AreThirds
<1>14. PICK out : out = Written(pages, low)
  OBVIOUS
<1>15. PICK pn : pn = TrioParent(out, X, m)
  OBVIOUS
<1>16. IF Fits(pn)
       THEN Do(busy, low, <<Write(pn)>>, meta, Idle)
       ELSE Do(busy, low, <<>>, meta, Call("split", pn, ParentPath))
  BY <1>1, <1>2, <1>13, <1>14, <1>15 DEF SplitPair, TrioParent
<1>17. CASE Fits(pn)
  <2>1. Finish(TrioWrites(m, A, M, B), <<Write(pn)>>)
    BY <1>3, <1>12, <1>16, <1>17 DEF Finish
  <2>2. out = Written(pages, TrioWrites(m, A, M, B))
    BY <1>12, <1>14
  <2>. QED
    BY <1>11, <1>15, <1>17, <2>1, <2>2, TrioFits
<1>18. CASE ~Fits(pn)
  <2>1. Do(busy, TrioWrites(m, A, M, B), <<>>, meta, Call("split", pn, ParentPath))
    BY <1>12, <1>16, <1>18
  <2>2. out = Written(pages, TrioWrites(m, A, M, B))
    BY <1>12, <1>14
  <2>. QED
    BY <1>3, <1>11, <1>15, <1>18, <2>1, <2>2, TrioGoesOn
<1>. QED
  BY <1>17, <1>18

-----------------------------------------------------------------------------
(* A full root becomes two nodes under a new root.                          *)

\* Two lists of two writes each.
LEMMA TwoAndTwo ==
    ASSUME NEW a, NEW b, NEW c, NEW d
    PROVE  <<a, b>> \o <<c, d>> = <<a, b, c, d>>
<1>1. PICK S, u, w, z : S = {a, b, c, d} /\ u = <<a, b>> /\ w = <<c, d>> /\ z = <<a, b, c, d>>
  OBVIOUS
<1>2. /\ u \in Seq(S) /\ w \in Seq(S) /\ z \in Seq(S) /\ Len(u) = 2 /\ Len(w) = 2 /\ Len(z) = 4
      /\ u[1] = a /\ u[2] = b /\ w[1] = c /\ w[2] = d /\ z[1] = a /\ z[2] = b /\ z[3] = c /\ z[4] = d
  BY <1>1
<1>3. /\ u \o w \in Seq(S) /\ Len(u \o w) = Len(u) + Len(w)
      /\ \A i \in 1..(Len(u) + Len(w)) : (u \o w)[i] = IF i <= Len(u) THEN u[i] ELSE w[i - Len(u)]
  BY <1>2, ConcatProperties
<1>4. Len(u \o w) = 4 /\ \A i \in 1..4 : (u \o w)[i] = IF i <= 2 THEN u[i] ELSE w[i - 2]
  BY <1>2, <1>3
<1>5. \A i \in 1..4 : \/ i = 1 /\ i <= 2
                      \/ i = 2 /\ i <= 2
                      \/ i = 3 /\ ~(i <= 2) /\ i - 2 = 1
                      \/ i = 4 /\ ~(i <= 2) /\ i - 2 = 2
  OBVIOUS
<1>6. \A i \in 1..4 : (u \o w)[i] = z[i]
  BY <1>2, <1>4, <1>5
<1>7. u \o w = z
  BY <1>2, <1>3, <1>4, <1>6, SeqEqual
<1> QED BY <1>1, <1>7

\* Nodes A and B share out what the root n holds.
RootDue(mem, n, t, r, A, B) ==
    /\ call.fn = "split" /\ Mid(mem, n, t, None) /\ meta.root = n /\ r = Len(pages) + 1
    /\ IsMade(A, n, call.node.leaf, A.items, A.next) /\ A.next \in Nat \cup {None}
    /\ IsMade(B, r, call.node.leaf, B.items, B.next) /\ B.next \in Nat \cup {None}
    /\ ItemsOK(call.node.leaf, A.items) /\ ItemsOK(call.node.leaf, B.items)
    /\ IsJoin(A.items, B.items, call.node.items)
    /\ call.node.leaf => A.keys = call.node.keys /\ B.keys = call.node.keys
    /\ ~call.node.leaf => IsRebuilt(pages, A) /\ IsRebuilt(pages, B)
    /\ Proper(A) /\ Proper(B)

RootWrites(r, A, B) == <<Fresh(r), Fresh(r + 1), Write(A), Write(B)>>

\* The new root.
NewRoot(out, n, r) == Internal(r + 1, <<n, r>>, <<SubtreeMin(out, r)>>)

\* Half of an odd or even number of items.
LEMMA HalfOf ==
    ASSUME NEW h \in Nat, h >= 2, NEW leaf \in BOOLEAN, NEW z, leaf => z = h + 1, ~leaf => z - 1 = h + 1, z \in Nat,
           NEW x, x = z \div 2, NEW d, d = IF leaf THEN 0 ELSE 1
    PROVE  /\ x \in Nat /\ x <= z
           /\ 1 <= x - d /\ x - d <= h /\ 1 <= (z - x) - d /\ (z - x) - d <= h
<1>1. x \in Nat /\ 2 * x <= z /\ 2 * x >= z - 1
  OBVIOUS
<1>. QED
  BY <1>1

\* The writes of split_leaf or split_internal of the root, and insert_into_parent.
LEMMA RootHalves ==
    ASSUME CapacityAssumption, IInv, IsRoot, SplitRoot
    PROVE  \E mem, n, t, r, A, B, low :
               /\ RootDue(mem, n, t, r, A, B) /\ low = RootWrites(r, A, B)
               /\ Do(busy, low, <<Write(NewRoot(Written(pages, low), n, r))>>,
                     [meta EXCEPT !.root = r + 1, !.height = @ + 1], Idle)
               /\ held' = held
<1>1. call.fn = "split"
  BY DEF SplitRoot
<1>2. PICK mem, n, t, f : Mid(mem, n, t, f)
  BY <1>1, CallFacts
<1>3. f = None
  BY <1>1, <1>2, HandsOver
<1>4. PICK node : node = call.node
  OBVIOUS
<1>5. PICK x, r : x = Len(node.items) \div 2 /\ r = Len(pages) + 1
  OBVIOUS
<1>6. PICK u, w : u = SubSeq(node.items, 1, x) /\ w = SubSeq(node.items, x + 1, Len(node.items))
  OBVIOUS
<1>7. PICK L, R : L = (IF node.leaf THEN [node EXCEPT !.next = r] ELSE node) /\ R = [node EXCEPT !.id = r]
  OBVIOUS
<1>8. PICK A, B : A = Holding(pages, L, u) /\ B = Holding(pages, R, w)
  OBVIOUS
<1>9. n = node.id /\ n \in DOMAIN pages /\ IsFile(pages) /\ Typed
  BY <1>2, <1>4 DEF Mid, Typed
<1>10. PICK low : low = RootWrites(r, A, B)
  OBVIOUS
<1>11. /\ Do(busy, low, <<Write(NewRoot(Written(pages, low), n, r))>>,
             [meta EXCEPT !.root = r + 1, !.height = @ + 1], Idle)
       /\ held' = held
  BY <1>4, <1>5, <1>6, <1>7, <1>8, <1>9, <1>10 DEF SplitRoot, RootWrites, NewRoot
<1>12. meta.root = n
  <2>1. IsRoute(mem, t, call.path, meta.root, n)
    BY <1>2 DEF Mid
  <2>2. Len(call.path) = 1
    BY DEF IsRoot
  <2>. QED
    BY <2>1, <2>2, RouteRoot
<1>13. IsNode(node)
  <2>1. IsFile(mem) /\ n \in DOMAIN mem /\ mem[n] = node
    BY <1>2, <1>4 DEF Mid
  <2>. QED
    BY <2>1, FileFacts
<1>14. /\ IsMade(node, node.id, node.leaf, node.items, node.next) /\ node.leaf \in BOOLEAN
       /\ node.next \in Nat \cup {None} /\ ItemsOK(node.leaf, node.items)
  BY <1>13, NodeIsMade
<1>15. Len(pages) \in Nat
  BY <1>9, FileFacts
<1>16. r \in Nat
  BY <1>5, <1>15
<1>17. KeyCount(node) = MaxKeys(node) + 1 /\ Len(node.items) \in Nat
  BY <1>1, <1>2, <1>4, CallSize
<1>18. MaxKeys(node) \in Nat /\ MaxKeys(node) >= 2
  BY <1>9, <1>14, MaxFacts
<1>19. PICK h \in Nat, z \in Nat : h = MaxKeys(node) /\ z = Len(node.items)
  BY <1>17, <1>18
<1>20. h >= 2 /\ (node.leaf => z = h + 1) /\ (~node.leaf => z - 1 = h + 1)
  BY <1>17, <1>18, <1>19 DEF KeyCount
<1>21. PICK d : d = IF node.leaf THEN 0 ELSE 1
  OBVIOUS
<1>22. x = z \div 2
  BY <1>5, <1>19
<1>23. /\ x \in Nat /\ x <= z
       /\ 1 <= x - d /\ x - d <= h /\ 1 <= (z - x) - d /\ (z - x) - d <= h
  BY <1>14, <1>20, <1>21, <1>22, HalfOf
<1>24. PICK S : \A s : ItemsOK(node.leaf, s) <=> s \in Seq(S)
  BY <1>14, KindOfItems
<1>25. /\ u \in Seq(S) /\ w \in Seq(S) /\ Len(u) = x /\ Len(w) = z - x
       /\ IsJoin(u, w, node.items)
  <2>1. node.items \in Seq(S)
    BY <1>14, <1>24
  <2>2. x \in 0..Len(node.items)
    BY <1>19, <1>23
  <2>. QED
    BY <1>6, <1>19, <2>1, <2>2, JoinCut
<1>26. PICK nl : nl = IF node.leaf THEN r ELSE node.next
  OBVIOUS
<1>27. IsMade(L, n, node.leaf, node.items, nl) /\ L.keys = node.keys
  <2>1. CASE node.leaf
    <3>1. L = [node EXCEPT !.next = r] /\ nl = r
      BY <1>7, <1>26, <2>1
    <3>. QED
      BY <3>1, <1>9, <1>14, NextChanged
  <2>2. CASE ~node.leaf
    BY <2>2, <1>7, <1>9, <1>14, <1>26
  <2>. QED
    BY <2>1, <2>2
<1>28. IsMade(R, r, node.leaf, node.items, node.next) /\ R.keys = node.keys
  BY <1>7, <1>14, IdChanged
<1>29. /\ IsMade(A, n, node.leaf, u, nl)
       /\ node.leaf => A.keys = L.keys
       /\ ~node.leaf => IsRebuilt(pages, A)
  BY <1>8, <1>27, HoldingMade
<1>30. /\ IsMade(B, r, node.leaf, w, node.next)
       /\ node.leaf => B.keys = R.keys
       /\ ~node.leaf => IsRebuilt(pages, B)
  BY <1>8, <1>28, HoldingMade
<1>31. /\ A.items = u /\ A.next = nl /\ A.leaf = node.leaf
       /\ B.items = w /\ B.next = node.next /\ B.leaf = node.leaf
  BY <1>29, <1>30 DEF IsMade
<1>32. Proper(A) /\ Proper(B)
  <2>1. MaxKeys(A) = h /\ MaxKeys(B) = h
    BY <1>19, <1>31 DEF MaxKeys
  <2>2. CASE node.leaf
    <3>1. KeyCount(A) = x /\ KeyCount(B) = z - x /\ d = 0
      BY <2>2, <1>21, <1>25, <1>31 DEF KeyCount
    <3>. QED
      BY <2>1, <3>1, <1>23 DEF Proper
  <2>3. CASE ~node.leaf
    <3>1. KeyCount(A) = x - 1 /\ KeyCount(B) = (z - x) - 1 /\ d = 1
      BY <2>3, <1>21, <1>25, <1>31 DEF KeyCount
    <3>. QED
      BY <2>1, <3>1, <1>23 DEF Proper
  <2>. QED
    BY <2>2, <2>3
<1>33. RootDue(mem, n, t, r, A, B)
  <2>1. nl \in Nat \cup {None}
    BY <1>14, <1>16, <1>26
  <2>2. ItemsOK(node.leaf, u) /\ ItemsOK(node.leaf, w)
    BY <1>24, <1>25
  <2>3. Mid(mem, n, t, None)
    BY <1>2, <1>3
  <2>4. IsMade(A, n, node.leaf, A.items, A.next) /\ IsMade(B, r, node.leaf, B.items, B.next)
    BY <1>29, <1>30, <1>31
  <2>5. A.next \in Nat \cup {None} /\ B.next \in Nat \cup {None}
    BY <2>1, <1>14, <1>31
  <2>6. (node.leaf => A.keys = node.keys /\ B.keys = node.keys) /\ (~node.leaf => IsRebuilt(pages, A) /\ IsRebuilt(pages, B))
    BY <1>27, <1>28, <1>29, <1>30
  <2>. QED
    BY <2>2, <2>3, <2>4, <2>5, <2>6, <1>1, <1>4, <1>5, <1>12, <1>25, <1>31, <1>32 DEF RootDue
<1>. QED
  BY <1>10, <1>11, <1>33

\* The pages at hand.
LEMMA RootPages ==
    ASSUME NEW mem, NEW n, NEW t, NEW r, NEW A, NEW B, RootDue(mem, n, t, r, A, B)
    PROVE  /\ Typed /\ IsFile(pages) /\ Len(pages) \in Nat /\ DOMAIN pages = 1..Len(pages)
           /\ n \in t.nodes /\ t.nodes \subseteq DOMAIN pages /\ n \in Nat /\ n \in DOMAIN pages
           /\ Holds(meta.kind, mem, n, t, n, None) /\ InFile(mem, t) /\ Tells(meta, held, t)
           /\ DOMAIN mem = DOMAIN pages /\ Len(mem) = Len(pages) /\ mem[n] = call.node
           /\ \A p \in DOMAIN pages \ {n} : mem[p] = pages[p]
           /\ r \in Nat /\ r = Len(pages) + 1 /\ r \notin DOMAIN pages /\ r + 1 \notin DOMAIN pages
           /\ A.id = n /\ B.id = r /\ A.leaf = call.node.leaf /\ B.leaf = call.node.leaf
           /\ IsNode(call.node) /\ Size(mem, n) >= 1
<1>1. /\ Mid(mem, n, t, None) /\ meta.root = n /\ r = Len(pages) + 1 /\ call.fn = "split"
      /\ IsMade(A, n, call.node.leaf, A.items, A.next)
      /\ IsMade(B, r, call.node.leaf, B.items, B.next)
      /\ IsJoin(A.items, B.items, call.node.items) /\ Proper(A)
  BY DEF RootDue
<1>2. /\ Typed /\ Holds(meta.kind, mem, n, t, n, None) /\ InFile(mem, t) /\ Tells(meta, held, t)
      /\ DOMAIN mem = DOMAIN pages /\ Len(mem) = Len(pages) /\ mem[n] = call.node
      /\ \A p \in DOMAIN pages \ {n} : mem[p] = pages[p]
      /\ IsFile(mem) /\ n \in DOMAIN pages
  BY <1>1 DEF Mid
<1>3. IsFile(pages)
  BY <1>2 DEF Typed
<1>4. Len(pages) \in Nat /\ DOMAIN pages = 1..Len(pages)
  BY <1>3, FileFacts
<1>5. n \in t.nodes /\ t.nodes \subseteq DOMAIN pages
  BY <1>2, HoldsFacts DEF Tree
<1>6. n \in Nat /\ r \in Nat /\ r \notin DOMAIN pages /\ r + 1 \notin DOMAIN pages
  BY <1>1, <1>2, <1>4
<1>7. IsNode(call.node)
  BY <1>2, FileFacts
<1>8. A.id = n /\ B.id = r /\ A.leaf = call.node.leaf /\ B.leaf = call.node.leaf
  BY <1>1 DEF IsMade
<1>9. Size(mem, n) >= 1
  <2>1. Len(A.items) \in Nat /\ Len(B.items) \in Nat /\ Len(call.node.items) = Len(A.items) + Len(B.items)
    BY <1>1 DEF IsJoin
  <2>2. Len(A.items) >= 1
    <3>1. 1 <= KeyCount(A)
      BY <1>1 DEF Proper
    <3>2. KeyCount(A) = Len(A.items) \/ KeyCount(A) = Len(A.items) - 1
      BY DEF KeyCount
    <3>. QED
      BY <3>1, <3>2, <2>1
  <2>3. PICK a \in Nat, b \in Nat : a = Len(A.items) /\ b = Len(B.items)
    BY <2>1
  <2>4. a + b >= 1
    <3>1. a >= 1
      BY <2>2, <2>3
    <3>. QED
      BY <3>1
  <2>. QED
    BY <1>2, <2>1, <2>3, <2>4 DEF Size
<1>. QED
  BY <1>1, <1>2, <1>3, <1>4, <1>5, <1>6, <1>7, <1>8, <1>9

\* The pages when the two nodes are written, the last two pages being new ...
IsHalved(n, r, A, B, out) ==
    /\ DOMAIN out = DOMAIN pages \cup {r, r + 1} /\ Len(out) = r + 1
    /\ out[n] = A /\ out[r] = B
    /\ \A q \in DOMAIN pages \ {n} : out[q] = pages[q]

\* The two halves are written.
LEMMA RootWritten ==
    ASSUME NEW mem, NEW n, NEW t, NEW r, NEW A, NEW B, RootDue(mem, n, t, r, A, B),
           NEW out, out = Written(pages, RootWrites(r, A, B))
    PROVE  IsHalved(n, r, A, B, out)
<1>1. /\ Len(pages) \in Nat /\ DOMAIN pages = 1..Len(pages)
      /\ n \in DOMAIN pages /\ r \in Nat /\ r = Len(pages) + 1 /\ r \notin DOMAIN pages /\ r + 1 \notin DOMAIN pages
      /\ A.id = n /\ B.id = r
  BY RootPages
<1>2. PICK two, ws : two = <<Fresh(r), Fresh(r + 1)>> /\ ws = <<Write(A), Write(B)>>
  OBVIOUS
<1>3. PICK W : W = {Fresh(r), Fresh(r + 1), Write(A), Write(B)}
  OBVIOUS
<1>4. two \in Seq(W) /\ ws \in Seq(W)
  BY <1>2, <1>3
<1>5. RootWrites(r, A, B) = two \o ws
  BY <1>2, TwoAndTwo DEF RootWrites
<1>6. PICK pg2 : pg2 = Written(pages, two)
  OBVIOUS
<1>7. out = Written(pg2, ws)
  <2>1. out = Written(pages, two \o ws)
    BY <1>5
  <2>. QED
    BY <2>1, <1>4, <1>6, WrittenConcat
<1>8. two = <<<<r, Blank>>, <<r + 1, Blank>>>> /\ ws = <<<<n, A>>, <<r, B>>>>
  BY <1>1, <1>2 DEF Fresh, Write
<1>9. PICK pg1 : IsPut(pages, r, Blank, pg1) /\ IsPut(pg1, r + 1, Blank, pg2)
  BY <1>6, <1>8, PutTwo
<1>10. PICK o1 : IsPut(pg2, n, A, o1) /\ IsPut(o1, r, B, out)
  BY <1>7, <1>8, PutTwo
<1>11. PICK q : q = r + 1
  OBVIOUS
<1>12. /\ DOMAIN pg1 = DOMAIN pages \cup {r} /\ \A p \in DOMAIN pages : p # r => pg1[p] = pages[p]
       /\ DOMAIN pg2 = DOMAIN pg1 \cup {q} /\ \A p \in DOMAIN pg1 : p # q => pg2[p] = pg1[p]
       /\ DOMAIN o1 = DOMAIN pg2 \cup {n} /\ o1[n] = A /\ \A p \in DOMAIN pg2 : p # n => o1[p] = pg2[p]
       /\ DOMAIN out = DOMAIN o1 \cup {r} /\ out[r] = B /\ \A p \in DOMAIN o1 : p # r => out[p] = o1[p]
  BY <1>9, <1>10, <1>11 DEF IsPut
<1>13. n # r /\ r \notin DOMAIN pages /\ q \notin DOMAIN pages /\ n \in DOMAIN pages
  BY <1>1, <1>11
<1>14. DOMAIN pg2 = DOMAIN pages \cup {r, q}
  BY <1>12
<1>15. DOMAIN o1 = DOMAIN pages \cup {r, q}
  BY <1>12, <1>13, <1>14
<1>16. DOMAIN out = DOMAIN pages \cup {r, q}
  BY <1>12, <1>15
<1>17. out[n] = A
  BY <1>12, <1>13, <1>15
<1>18. \A p \in DOMAIN pages \ {n} : out[p] = pages[p]
  <2>. SUFFICES ASSUME NEW p \in DOMAIN pages \ {n} PROVE out[p] = pages[p]
    OBVIOUS
  <2>1. p # r /\ p # q /\ p # n
    BY <1>13
  <2>2. pg1[p] = pages[p] /\ p \in DOMAIN pg1
    BY <2>1, <1>12
  <2>3. pg2[p] = pg1[p] /\ p \in DOMAIN pg2
    BY <2>1, <2>2, <1>12
  <2>4. o1[p] = pg2[p] /\ p \in DOMAIN o1
    BY <2>1, <2>3, <1>12
  <2>. QED
    BY <2>1, <2>2, <2>3, <2>4, <1>12
<1>19. DOMAIN out = 1..q
  <2>1. PICK k \in Nat : k = Len(pages)
    BY <1>1
  <2>2. (1..k) \cup {r, q} = 1..q
    BY <1>1, <1>11, <2>1
  <2>. QED
    BY <1>1, <1>16, <2>1, <2>2
<1>20. Len(out) = q
  <2>1. q \in Nat
    BY <1>1, <1>11
  <2>. QED
    BY <2>1, <1>7, <1>19, WrittenLen
<1>. QED
  BY <1>11, <1>12, <1>16, <1>17, <1>18, <1>20 DEF IsHalved

\* ... and the new root is written.
IsCrowned(n, r, out, npg) ==
    /\ DOMAIN npg = DOMAIN out /\ Len(npg) = r + 1 /\ npg[r + 1] = NewRoot(out, n, r)
    /\ \A q \in DOMAIN out \ {r + 1} : npg[q] = out[q]

IsNewRoot(out, n, r, root) ==
    /\ IsMade(root, r + 1, FALSE, <<n, r>>, None) /\ IsRebuilt(out, root)
    /\ root.id = r + 1 /\ root.leaf = FALSE /\ root.items = <<n, r>> /\ Len(root.items) = 2

\* The new root.
LEMMA NewRootFacts ==
    ASSUME NEW out, NEW n, NEW r
    PROVE  IsNewRoot(out, n, r, NewRoot(out, n, r))
<1>0. PICK root : root = NewRoot(out, n, r)
  OBVIOUS
<1>1. PICK x : x = SubtreeMin(out, r)
  OBVIOUS
<1>2. root = [id |-> r + 1, leaf |-> FALSE, items |-> <<n, r>>, keys |-> <<x>>, next |-> None]
  BY <1>0, <1>1 DEF NewRoot, Internal
<1>3. IsMade(root, r + 1, FALSE, <<n, r>>, None) /\ root.keys = <<x>> /\ root.items = <<n, r>>
  BY <1>2 DEF IsMade
<1>4. root.items[2] = r /\ Len(root.items) = 2
  BY <1>3
<1>5. <<x>> = [i \in 1..1 |-> x]
  OBVIOUS
<1>6. [i \in 1..1 |-> x] = [i \in 1..(Len(root.items) - 1) |-> SubtreeMin(out, root.items[i + 1])]
  <2>1. 1..1 = 1..(Len(root.items) - 1)
    BY <1>4
  <2>2. \A i \in 1..1 : SubtreeMin(out, root.items[i + 1]) = x
    <3>1. \A i \in 1..1 : i + 1 = 2
      OBVIOUS
    <3>. QED
      BY <3>1, <1>1, <1>4
  <2>. QED
    BY <2>1, <2>2
<1>7. IsRebuilt(out, root)
  BY <1>3, <1>5, <1>6 DEF IsRebuilt
<1>8. root.id = r + 1 /\ root.leaf = FALSE
  BY <1>2
<1>. QED
  BY <1>0, <1>3, <1>4, <1>7, <1>8 DEF IsNewRoot

\* The tree after the split of the root.
LEMMA RootHolds ==
    ASSUME KeysAssumption, CapacityAssumption,
           NEW mem, NEW n, NEW t, NEW r, NEW A, NEW B, RootDue(mem, n, t, r, A, B),
           NEW out, IsHalved(n, r, A, B, out), NEW npg, IsCrowned(n, r, out, npg)
    PROVE  \E nt : Holds(meta.kind, npg, r + 1, nt, None, None) /\ IsTopped(t, nt, n, r, r + 1)
<1>1. /\ Typed /\ Len(pages) \in Nat /\ DOMAIN pages = 1..Len(pages)
      /\ n \in t.nodes /\ t.nodes \subseteq DOMAIN pages /\ n \in Nat /\ n \in DOMAIN pages
      /\ Holds(meta.kind, mem, n, t, n, None) /\ InFile(mem, t)
      /\ DOMAIN mem = DOMAIN pages /\ Len(mem) = Len(pages) /\ mem[n] = call.node
      /\ \A p \in DOMAIN pages \ {n} : mem[p] = pages[p]
      /\ r \in Nat /\ r = Len(pages) + 1 /\ r \notin DOMAIN pages /\ r + 1 \notin DOMAIN pages
      /\ A.id = n /\ B.id = r /\ A.leaf = call.node.leaf /\ B.leaf = call.node.leaf
      /\ Size(mem, n) >= 1
  BY RootPages
<1>2. /\ ItemsOK(call.node.leaf, A.items) /\ ItemsOK(call.node.leaf, B.items)
      /\ IsJoin(A.items, B.items, call.node.items)
      /\ ~call.node.leaf => IsRebuilt(pages, A) /\ IsRebuilt(pages, B)
      /\ Proper(A) /\ Proper(B)
  BY DEF RootDue
<1>3. PICK q : q = r + 1
  OBVIOUS
<1>4. /\ DOMAIN out = DOMAIN pages \cup {r, q} /\ Len(out) = q
      /\ out[n] = A /\ out[r] = B
      /\ \A p \in DOMAIN pages \ {n} : out[p] = pages[p]
  BY <1>3 DEF IsHalved
<1>5. /\ DOMAIN npg = DOMAIN out /\ Len(npg) = q /\ npg[q] = NewRoot(out, n, r)
      /\ \A p \in DOMAIN out \ {q} : npg[p] = out[p]
  BY <1>3 DEF IsCrowned
<1>6. npg[q].id = q /\ npg[q].leaf = FALSE /\ npg[q].items = <<n, r>> /\ IsRebuilt(out, npg[q]) /\ Len(npg[q].items) = 2
  <2>1. PICK root : root = NewRoot(out, n, r)
    OBVIOUS
  <2>2. IsNewRoot(out, n, r, root)
    BY <2>1, NewRootFacts
  <2>3. root.id = r + 1 /\ root.leaf = FALSE /\ root.items = <<n, r>> /\ IsRebuilt(out, root) /\ Len(root.items) = 2
    <3>. HIDE <2>1
    <3>. QED
      BY <2>2 DEF IsNewRoot
  <2>4. npg[q] = root
    BY <2>1, <1>5
  <2>. QED
    BY <2>3, <2>4, <1>3
<1>7. q \in Nat /\ r # q /\ r \notin t.nodes /\ q \notin t.nodes /\ n # r /\ n # q
  BY <1>1, <1>3
<1>8. npg[n] = A /\ npg[r] = B
  BY <1>1, <1>4, <1>5, <1>7
<1>9. \A p \in t.nodes \ {n} : npg[p] = mem[p]
  BY <1>1, <1>4, <1>5, <1>7
<1>10. Sees(pages, mem, t, {n})
  BY <1>1 DEF Sees, InFile
<1>11. \A p \in t.nodes : t.level[p] <= Len(out)
  <2>1. \A p \in t.nodes : t.level[p] <= Len(pages) /\ t.level[p] \in Nat
    BY <1>1, HoldsFacts DEF InFile, NodeOK
  <2>2. q = Len(pages) + 2
    BY <1>1, <1>3
  <2>. QED
    BY <2>1, <2>2, <1>1, <1>4
<1>12. \A p \in t.nodes \cup {r} : p \in DOMAIN out /\ out[p] = npg[p]
  BY <1>1, <1>4, <1>5, <1>7
<1>13. RootSplit(mem, t, n, r, q, npg, pages, out)
  <2>1. \A p \in {n, r} : /\ npg[p].id = p /\ npg[p].leaf = mem[n].leaf /\ ItemsOK(mem[n].leaf, npg[p].items)
                          /\ ~mem[n].leaf => IsRebuilt(pages, npg[p])
    BY <1>1, <1>2, <1>8
  <2>2. IsJoin(npg[n].items, npg[r].items, mem[n].items)
    BY <1>1, <1>2, <1>8
  <2>3. t.nodes \cup {r, q} \subseteq DOMAIN npg
    BY <1>1, <1>4, <1>5
  <2>4. Len(out) \in Nat
    BY <1>4, <1>7
  <2>5. npg[q].id = q /\ npg[q].leaf = FALSE /\ npg[q].items = <<n, r>> /\ IsRebuilt(out, npg[q])
    BY <1>6
  <2>6. r \in Nat /\ q \in Nat /\ r \notin t.nodes /\ q \notin t.nodes /\ r # q
    BY <1>1, <1>7
  <2>. QED
    BY <2>1, <2>2, <2>3, <2>4, <2>5, <2>6, <1>9, <1>10, <1>11, <1>12 DEF RootSplit
<1>14. \A p \in {n, r, q} : Sized(meta.kind, npg, p)
  <2>1. Sized(meta.kind, npg, n) /\ Sized(meta.kind, npg, r)
    BY <1>2, <1>8, ProperIsSized
  <2>2. Count(npg, q) = 1
    BY <1>6 DEF Count, Size
  <2>3. MaxOf(meta.kind, FALSE) >= 2 /\ MaxOf(meta.kind, FALSE) \in Nat
    BY <1>1, SMTT(30) DEF MaxOf, MetaType, CapacityAssumption, Typed
  <2>4. Sized(meta.kind, npg, q)
    <3>1. 1 <= Count(npg, q) /\ Count(npg, q) <= MaxOf(meta.kind, FALSE)
      <4>1. PICK c, h \in Nat : c = Count(npg, q) /\ h = MaxOf(meta.kind, FALSE)
        BY <2>2, <2>3
      <4>2. c = 1 /\ h >= 2
        BY <4>1, <2>2, <2>3
      <4>3. 1 <= c /\ c <= h
        BY <4>2
      <4>. QED
        BY <4>1, <4>3
    <3>. QED
      BY <3>1, <1>6 DEF Sized
  <2>. QED
    BY <2>1, <2>4
<1>15. Size(npg, n) >= 1
  <2>1. 1 <= KeyCount(A) /\ Len(A.items) \in Nat
    BY <1>2 DEF Proper, IsJoin
  <2>2. KeyCount(A) = Len(A.items) \/ KeyCount(A) = Len(A.items) - 1
    BY DEF KeyCount
  <2>3. Len(A.items) >= 1
    BY <2>1, <2>2
  <2>. QED
    BY <2>3, <1>8 DEF Size
<1>16. \E nt : Holds(meta.kind, npg, q, nt, None, None) /\ IsTopped(t, nt, n, r, q)
  <2>. HIDE <1>3
  <2>. QED
    BY <1>1, <1>13, <1>14, <1>15, RootIsTwo
<1>. QED
  BY <1>3, <1>16

\* The new root is written.
LEMMA RootCrowned ==
    ASSUME NEW mem, NEW n, NEW t, NEW r, NEW A, NEW B, RootDue(mem, n, t, r, A, B),
           NEW low, low = RootWrites(r, A, B), NEW out, out = Written(pages, low),
           NEW npg, npg = Written(pages, low \o <<Write(NewRoot(out, n, r))>>)
    PROVE  IsHalved(n, r, A, B, out) /\ IsCrowned(n, r, out, npg)
<1>1. PICK q, root : q = r + 1 /\ root = NewRoot(out, n, r)
  OBVIOUS
<1>2. IsHalved(n, r, A, B, out)
  <2>1. out = Written(pages, RootWrites(r, A, B))
    OBVIOUS
  <2>. QED
    BY <2>1, RootWritten
<1>3. root.id = q
  <2>1. IsNewRoot(out, n, r, root)
    BY <1>1, NewRootFacts
  <2>. HIDE <1>1
  <2>2. root.id = r + 1
    BY <2>1 DEF IsNewRoot
  <2>. QED
    BY <1>1, <2>2
<1>4. Len(pages) \in Nat /\ DOMAIN pages = 1..Len(pages) /\ r \in Nat /\ r = Len(pages) + 1
  BY RootPages
<1>5. DOMAIN out = 1..q
  <2>1. PICK k \in Nat : k = Len(pages)
    BY <1>4
  <2>2. (1..k) \cup {r, q} = 1..q
    BY <1>1, <1>4, <2>1
  <2>. QED
    BY <1>1, <1>2, <1>4, <2>1, <2>2 DEF IsHalved
<1>6. IsPut(out, q, root, npg)
  <2>1. PICK W : W = {Fresh(r), Fresh(q), Write(A), Write(B), <<q, root>>}
    OBVIOUS
  <2>2. low \in Seq(W)
    BY <1>1, <2>1 DEF RootWrites
  <2>3. Write(root) = <<q, root>>
    BY <1>3 DEF Write
  <2>4. npg = Written(pages, low \o <<<<q, root>>>>)
    BY <1>1, <2>3
  <2>5. IsPut(Written(pages, low), q, root, Written(pages, low \o <<<<q, root>>>>))
    BY <2>1, <2>2, PutNext
  <2>. QED
    BY <2>4, <2>5
<1>7. q \in Nat /\ q \in DOMAIN out
  BY <1>1, <1>4, <1>5
<1>8. /\ DOMAIN npg = DOMAIN out /\ npg[q] = root
      /\ \A p \in DOMAIN out \ {q} : npg[p] = out[p]
  BY <1>6, <1>7 DEF IsPut
<1>9. Len(npg) = q
  <2>1. PICK ws : ws = low \o <<Write(root)>>
    OBVIOUS
  <2>2. npg = Written(pages, ws)
    BY <1>1, <2>1
  <2>3. DOMAIN Written(pages, ws) = 1..q
    BY <1>5, <1>8, <2>2
  <2>. QED
    BY <1>7, <2>2, <2>3, WrittenLen
<1>10. IsCrowned(n, r, out, npg)
  BY <1>1, <1>8, <1>9 DEF IsCrowned
<1>. QED
  BY <1>2, <1>10

\* The three nodes are such as the pages hold.
LEMMA RootTyped ==
    ASSUME KeysAssumption, CapacityAssumption,
           NEW mem, NEW n, NEW t, NEW r, NEW A, NEW B, RootDue(mem, n, t, r, A, B),
           NEW out, IsHalved(n, r, A, B, out), NEW npg, IsCrowned(n, r, out, npg),
           NEW nt, Holds(meta.kind, npg, r + 1, nt, None, None), IsTopped(t, nt, n, r, r + 1)
    PROVE  A \in AnyNode /\ B \in AnyNode /\ NewRoot(out, n, r) \in AnyNode
<1>1. /\ n \in t.nodes /\ n \in Nat /\ r \in Nat /\ n \in DOMAIN pages
      /\ r \notin DOMAIN pages /\ r + 1 \notin DOMAIN pages
      /\ IsNode(call.node) /\ DOMAIN pages \subseteq Nat
      /\ A.leaf = call.node.leaf /\ B.leaf = call.node.leaf
  <2>1. IsFile(pages)
    BY RootPages
  <2>. QED
    BY <2>1, RootPages, FileFacts
<1>2. /\ IsMade(A, n, call.node.leaf, A.items, A.next) /\ A.next \in Nat \cup {None}
      /\ IsMade(B, r, call.node.leaf, B.items, B.next) /\ B.next \in Nat \cup {None}
      /\ ItemsOK(call.node.leaf, A.items) /\ ItemsOK(call.node.leaf, B.items)
      /\ call.node.leaf => A.keys = call.node.keys /\ B.keys = call.node.keys
  BY DEF RootDue
<1>3. PICK q, root : q = r + 1 /\ root = NewRoot(out, n, r)
  OBVIOUS
<1>4. DOMAIN out = DOMAIN pages \cup {r, q} /\ out[n] = A /\ out[r] = B
  BY <1>3 DEF IsHalved
<1>5. npg[q] = root /\ \A p \in DOMAIN out \ {q} : npg[p] = out[p]
  BY <1>3 DEF IsCrowned
<1>6. q \in Nat /\ r # q /\ n # q
  BY <1>1, <1>3
<1>7. npg[n] = A /\ npg[r] = B /\ npg[q] = root
  BY <1>1, <1>4, <1>5, <1>6
<1>8. IsMade(root, q, FALSE, <<n, r>>, None) /\ root.leaf = FALSE
  <2>1. IsNewRoot(out, n, r, root)
    BY <1>3, NewRootFacts
  <2>2. IsMade(root, r + 1, FALSE, <<n, r>>, None) /\ root.leaf = FALSE
    <3>. HIDE <1>3
    <3>. QED
      BY <2>1 DEF IsNewRoot
  <2>. QED
    BY <1>3, <2>2
<1>9. n \in nt.nodes /\ r \in nt.nodes /\ q \in nt.nodes
  BY <1>1, <1>3 DEF IsTopped
<1>10. \A p \in nt.nodes : ~npg[p].leaf => npg[p].keys \in Seq(Keys)
  <2>1. None \notin nt.nodes
    BY HoldsFacts DEF Tree
  <2>2. \A p \in nt.nodes : ~npg[p].leaf => Kept(npg, nt, p, None)
    BY <2>1 DEF Holds
  <2>. QED
    BY <2>2 DEF Kept, Keyed
<1>11. A.keys \in Seq(Keys) /\ B.keys \in Seq(Keys)
  <2>1. CASE call.node.leaf
    BY <2>1, <1>1, <1>2, NodeFields
  <2>2. CASE ~call.node.leaf
    BY <2>2, <1>1, <1>7, <1>9, <1>10
  <2>. QED
    BY <2>1, <2>2
<1>12. call.node.leaf \in BOOLEAN
  BY <1>1, NodeFields
<1>13. A \in AnyNode
  BY <1>1, <1>2, <1>11, <1>12, MadeIsNode
<1>14. B \in AnyNode
  BY <1>1, <1>2, <1>11, <1>12, MadeIsNode
<1>15. root \in AnyNode
  <2>1. PICK items : items = <<n, r>>
    OBVIOUS
  <2>2. items \in Seq(Nat)
    BY <1>1, <2>1
  <2>3. ItemsOK(FALSE, items)
    BY <2>2 DEF ItemsOK
  <2>4. root.keys \in Seq(Keys)
    BY <1>7, <1>8, <1>9, <1>10
  <2>5. IsMade(root, q, FALSE, items, None)
    BY <1>8, <2>1
  <2>. HIDE <2>1
  <2>. QED
    BY <1>6, <2>3, <2>4, <2>5, MadeIsNode
<1>. QED
  BY <1>3, <1>13, <1>14, <1>15

\* Two new pages, then four writes.
LEMMA RootOrderly ==
    ASSUME NEW mem, NEW n, NEW t, NEW r, NEW A, NEW B, RootDue(mem, n, t, r, A, B),
           A \in AnyNode, B \in AnyNode, NEW root \in AnyNode, root.id = r + 1
    PROVE  /\ RootWrites(r, A, B) \in Seq(AnyWrite)
           /\ Orderly(Len(pages), RootWrites(r, A, B) \o <<Write(root)>>)
<1>1. PICK q : q = r + 1
  OBVIOUS
<1>2. /\ Len(pages) \in Nat /\ DOMAIN pages = 1..Len(pages) /\ n \in DOMAIN pages
      /\ r \in Nat /\ r = Len(pages) + 1 /\ A.id = n /\ B.id = r
  BY RootPages
<1>3. Write(A) = <<n, A>> /\ Write(B) = <<r, B>> /\ Write(root) = <<q, root>>
  BY <1>1, <1>2 DEF Write
<1>4. n \in Nat \ {0} /\ r \in Nat \ {0} /\ q \in Nat \ {0} /\ n <= q /\ r <= q /\ q = Len(pages) + 2
  BY <1>1, <1>2
<1>5. Write(A) \in AnyWrite /\ Write(B) \in AnyWrite /\ Write(root) \in AnyWrite
  BY <1>3, <1>4 DEF AnyWrite
<1>6. Fresh(r) \in AnyWrite /\ Fresh(q) \in AnyWrite
  BY <1>4, BlankIsNode DEF Fresh, AnyWrite
<1>7. PICK two, ws, one, all : /\ two = <<Fresh(r), Fresh(q)>> /\ ws = <<Write(A), Write(B)>>
                               /\ one = <<Write(root)>> /\ all = <<Write(A), Write(B), Write(root)>>
  OBVIOUS
<1>8. two \in Seq(AnyWrite) /\ ws \in Seq(AnyWrite) /\ one \in Seq(AnyWrite) /\ all \in Seq(AnyWrite)
  BY <1>5, <1>6, <1>7
<1>9. IsFresh(Len(pages), 2, two)
  <2>1. Len(two) = 2 /\ two[1] = Fresh(r) /\ two[2] = Fresh(q)
    BY <1>7
  <2>2. \A i \in 1..2 : i = 1 \/ i = 2
    OBVIOUS
  <2>3. r = Len(pages) + 1 /\ q = Len(pages) + 2
    BY <1>2, <1>4
  <2>4. \A i \in 1..2 : two[i] = Fresh(Len(pages) + i)
    BY <2>1, <2>2, <2>3
  <2>. QED
    BY <1>2, <1>8, <2>1, <2>4 DEF IsFresh
<1>10. \A i \in 1..Len(all) : all[i][1] <= Len(pages) + 2 /\ all[i][2].id \in {all[i][1], None}
  <2>1. Len(all) = 3 /\ all[1] = <<n, A>> /\ all[2] = <<r, B>> /\ all[3] = <<q, root>>
    BY <1>3, <1>7
  <2>2. \A i \in 1..3 : i = 1 \/ i = 2 \/ i = 3
    OBVIOUS
  <2>3. \A w \in {<<n, A>>, <<r, B>>, <<q, root>>} : w[1] <= q /\ w[2].id = w[1]
    BY <1>1, <1>2, <1>4
  <2>. QED
    BY <2>1, <2>2, <2>3, <1>4
<1>11. Orderly(Len(pages), two \o all)
  BY <1>8, <1>9, <1>10, FreshOrderly
<1>12. RootWrites(r, A, B) = two \o ws
  BY <1>1, <1>7, TwoAndTwo DEF RootWrites
<1>13. RootWrites(r, A, B) \o one = two \o all
  <2>1. ws \o one = all
    BY <1>7, TwoAndOne
  <2>2. (two \o ws) \o one = two \o (ws \o one)
    BY <1>8, ConcatAssociative, SMTT(30)
  <2>. QED
    BY <2>1, <2>2, <1>12
<1>14. RootWrites(r, A, B) \in Seq(AnyWrite)
  <2>1. two \o ws \in Seq(AnyWrite)
    BY <1>8, ConcatProperties
  <2>. QED
    BY <2>1, <1>12
<1>. QED
  BY <1>7, <1>11, <1>13, <1>14

\* The metadata of the higher tree, of r + 1 pages.
IsHigher(m, r, npg) == m = [meta EXCEPT !.root = r + 1, !.height = @ + 1] /\ Len(npg) = r + 1

\* The metadata tell the truth of the tree with a new root.
LEMMA RootTells ==
    ASSUME CapacityAssumption, NEW mem, NEW n, NEW t, NEW r, NEW A, NEW B, RootDue(mem, n, t, r, A, B),
           NEW npg, NEW nt, Holds(meta.kind, npg, r + 1, nt, None, None), IsTopped(t, nt, n, r, r + 1),
           NEW m, IsHigher(m, r, npg)
    PROVE  /\ Rests(npg, m, held)
           /\ \A D : DOMAIN pages \cup {r + 1} \subseteq D => m \in MetaType(D)
<1>0. m = [meta EXCEPT !.root = r + 1, !.height = @ + 1] /\ Len(npg) = r + 1
  BY DEF IsHigher
<1>1. PICK q : q = r + 1
  OBVIOUS
<1>2. /\ Typed /\ n \in t.nodes /\ n \in DOMAIN pages /\ t.nodes \subseteq DOMAIN pages
      /\ Holds(meta.kind, mem, n, t, n, None) /\ InFile(mem, t) /\ Tells(meta, held, t)
      /\ Len(mem) = Len(pages) /\ r \in Nat /\ r = Len(pages) + 1 /\ Len(pages) \in Nat
  BY RootPages
<1>3. meta.root = n
  BY DEF RootDue
<1>4. meta \in MetaType(DOMAIN pages)
  BY <1>2 DEF Typed
<1>5. m \in [root : {q}, first : DOMAIN pages \cup {None}, height : Nat, size : Nat, kind : KeyKinds]
  <2>1. PICK h : h = meta.height + 1
    OBVIOUS
  <2>2. h \in Nat /\ meta \in [root : DOMAIN pages \cup {None}, first : DOMAIN pages \cup {None}, height : Nat, size : Nat, kind : KeyKinds]
    BY <2>1, <1>4 DEF MetaType
  <2>3. m = [meta EXCEPT !.root = q, !.height = h]
    BY <2>1, <1>0, <1>1
  <2>. HIDE <2>1, <1>0, <1>1
  <2>. QED
    BY <2>2, <2>3
<1>6. m.root = q /\ m.height = meta.height + 1 /\ m.size = meta.size /\ m.first = meta.first /\ m.kind = meta.kind
  BY <1>0, <1>1, <1>4 DEF MetaType
<1>7. q \in nt.nodes /\ q \in Nat
  BY <1>1, <1>2 DEF IsTopped
<1>8. Tells(m, held, nt)
  <2>1. /\ t.level[n] = meta.height /\ t.under[n] = held /\ t.first[n] = meta.first /\ meta.size = Cardinality(held)
    BY <1>2, <1>3 DEF Tells
  <2>2. nt.level[q] = t.level[n] + 1 /\ nt.under[q] = t.under[n] /\ nt.first[q] = t.first[n]
    BY <1>1 DEF IsTopped
  <2>. QED
    BY <2>1, <2>2, <1>6, <1>7 DEF Tells
<1>9. InFile(npg, nt)
  <2>1. \A p \in t.nodes : t.level[p] \in Nat /\ t.level[p] <= Len(pages)
    BY <1>2, HoldsFacts DEF InFile, NodeOK
  <2>2. PICK lv, h \in Nat : lv \in Nat /\ lv = t.level[n] /\ h = Len(pages) /\ lv <= h
    BY <1>2, <2>1
  <2>3. nt.nodes = t.nodes \cup {r, q} /\ nt.level[r] = lv /\ nt.level[q] = lv + 1
        /\ \A p \in t.nodes : nt.level[p] = t.level[p]
    BY <1>1, <2>2 DEF IsTopped
  <2>4. Len(npg) = h + 2
    BY <1>0, <1>2, <2>2
  <2>5. \A p \in nt.nodes : nt.level[p] <= h + 2
    BY <2>1, <2>2, <2>3
  <2>. QED
    BY <2>2, <2>4, <2>5 DEF InFile
<1>10. Rests(npg, m, held)
  <2>1. Holds(m.kind, npg, m.root, nt, None, None)
    BY <1>1, <1>6
  <2>. QED
    BY <2>1, <1>8, <1>9, RestsIf
<1>11. \A D : DOMAIN pages \cup {q} \subseteq D => m \in MetaType(D)
  BY <1>5 DEF MetaType
<1>. QED
  BY <1>1, <1>10, <1>11

\* Two pages of zeros after the last page, then the halves, then the new root.
LEMMA RootSound ==
    ASSUME CapacityAssumption, NEW mem, NEW n, NEW t, NEW r, NEW A, NEW B, RootDue(mem, n, t, r, A, B),
           A \in AnyNode, B \in AnyNode, NEW out, out = Written(pages, RootWrites(r, A, B)),
           NEW root \in AnyNode, IsNewRoot(out, n, r, root), FInv
    PROVE  Sound(Good(pages), RootWrites(r, A, B) \o <<Write(root)>>)
<1>1. PICK G, q : G = Good(pages) /\ q = r + 1
  OBVIOUS
<1>2. /\ n \in t.nodes /\ n \in DOMAIN pages /\ r \in Nat /\ A.id = n /\ B.id = r
      /\ r \notin DOMAIN pages /\ q \notin DOMAIN pages /\ q \in Nat
      /\ A.leaf = call.node.leaf /\ B.leaf = call.node.leaf /\ IsFile(pages)
  BY <1>1, RootPages
<1>3. r \notin G /\ q \notin G
  BY <1>1, <1>2 DEF Good
<1>4. Below(call.node, G)
  <2>1. call # Idle /\ call # Killed
    BY DEF RootDue, Idle, Killed
  <2>. QED
    BY <1>1, <2>1 DEF FInv, Placed
<1>5. Below(A, G) /\ Below(B, G)
  <2>1. IsJoin(A.items, B.items, call.node.items)
    BY DEF RootDue
  <2>2. \A i \in 1..Len(A.items) : \E c \in 1..Len(call.node.items) : A.items[i] = call.node.items[c]
    BY <2>1, JoinParts
  <2>3. \A i \in 1..Len(B.items) : \E c \in 1..Len(call.node.items) : B.items[i] = call.node.items[c]
    BY <2>1, JoinParts
  <2>. QED
    BY <1>2, <1>4, <2>2, <2>3 DEF Below
<1>6. PICK a, b, c : a = <<Fresh(r), Fresh(q)>> /\ b = <<Write(A), Write(B)>> /\ c = <<Write(root)>>
  OBVIOUS
<1>7. RootWrites(r, A, B) = a \o b
  BY <1>1, <1>6, TwoAndTwo DEF RootWrites
<1>8. root.id = q /\ root.leaf = FALSE /\ root.items = <<n, r>> /\ Len(root.items) = 2
  BY <1>1 DEF IsNewRoot
<1>9. /\ Write(A) = <<n, A>> /\ Write(B) = <<r, B>> /\ Write(root) = <<q, root>>
      /\ Fresh(r) = <<r, Blank>> /\ Fresh(q) = <<q, Blank>>
  BY <1>2, <1>8 DEF Write, Fresh
<1>10. a \in Seq(AnyWrite) /\ b \in Seq(AnyWrite) /\ c \in Seq(AnyWrite)
  <2>1. n \in Nat \ {0} /\ r \in Nat \ {0} /\ q \in Nat \ {0}
    <3>1. n \in Nat \ {0}
      BY <1>2, FileFacts
    <3>2. r = Len(pages) + 1 /\ Len(pages) \in Nat
      BY RootPages
    <3>. QED
      BY <1>1, <3>1, <3>2
  <2>2. Fresh(r) \in AnyWrite /\ Fresh(q) \in AnyWrite
    BY <2>1, <1>9, BlankIsNode DEF AnyWrite
  <2>3. Write(A) \in AnyWrite /\ Write(B) \in AnyWrite /\ Write(root) \in AnyWrite
    BY <2>1, <1>9 DEF AnyWrite
  <2>. QED
    BY <1>6, <2>2, <2>3
<1>11. Sound(G, a)
  <2>1. Len(a) = 2 /\ a[1] = <<r, Blank>> /\ a[2] = <<q, Blank>>
    BY <1>6, <1>9
  <2>2. ASSUME NEW i \in 1..Len(a) PROVE a[i][2] = Blank /\ a[i][1] \in Nat /\ a[i][1] \notin G
    <3>1. i = 1 \/ i = 2
      BY <2>1
    <3>2. a[i] \in {<<r, Blank>>, <<q, Blank>>}
      BY <2>1, <3>1
    <3>. QED
      BY <1>2, <1>3, <3>2
  <2>. QED
    BY <1>10, <2>2, BlanksSound, WriteFacts
<1>12. PICK h : h = Written(pages, a)
  OBVIOUS
<1>13. G \subseteq Good(h)
  BY <1>1, <1>10, <1>11, <1>12, GoodGrows
<1>14. Sound(Good(h), b)
  <2>1. Len(b) = 2 /\ b[1] = <<n, A>> /\ b[2] = <<r, B>>
    BY <1>6, <1>9
  <2>2. ASSUME NEW i \in 1..Len(b) PROVE b[i][2].id = b[i][1] /\ Below(b[i][2], Good(h))
    <3>1. i = 1 \/ i = 2
      BY <2>1
    <3>2. b[i] \in {<<n, A>>, <<r, B>>}
      BY <2>1, <3>1
    <3>3. Below(A, Good(h)) /\ Below(B, Good(h))
      BY <1>5, <1>13 DEF Below
    <3>. QED
      BY <1>2, <3>2, <3>3
  <2>. QED
    BY <2>2, SoundNodes
<1>15. Sound(G, a \o b)
  BY <1>1, <1>10, <1>12, <1>11, <1>14, SoundThen
<1>16. n \in Good(out) /\ r \in Good(out)
  <2>1. IsHalved(n, r, A, B, out)
    BY RootWritten
  <2>. QED
    BY <1>2, <2>1 DEF IsHalved, Good
<1>17. Sound(Good(out), c)
  <2>1. Len(c) = 1 /\ c[1] = <<q, root>>
    BY <1>6, <1>9
  <2>2. ASSUME NEW i \in 1..Len(c) PROVE c[i] = <<q, root>>
    BY <2>1
  <2>3. Below(root, Good(out))
    <3>1. ASSUME NEW i \in 1..Len(root.items) PROVE root.items[i] \in {n, r}
      BY <1>8
    <3>. QED
      BY <1>16, <3>1 DEF Below
  <2>. QED
    BY <1>8, <2>2, <2>3, SoundNodes
<1>18. PICK ws : ws = RootWrites(r, A, B)
  OBVIOUS
<1>19. ws \in Seq(AnyWrite) /\ Sound(Good(pages), ws) /\ out = Written(pages, ws)
  BY <1>1, <1>7, <1>10, <1>15, <1>18, ConcatProperties
<1>. QED
  BY <1>6, <1>10, <1>17, <1>18, <1>19, SoundThen

\* The split of the root keeps the invariant.
LEMMA SplitRootKeeps ==
    ASSUME KeysAssumption, CapacityAssumption, IInv, SplitRoot
    PROVE  Keeps
<1>0. IsRoot
  BY DEF SplitRoot
<1>1. PICK mem, n, t, r, A, B, low :
        /\ RootDue(mem, n, t, r, A, B) /\ low = RootWrites(r, A, B)
        /\ Do(busy, low, <<Write(NewRoot(Written(pages, low), n, r))>>,
              [meta EXCEPT !.root = r + 1, !.height = @ + 1], Idle)
        /\ held' = held
  BY <1>0, RootHalves
<1>2. PICK out : out = Written(pages, low)
  OBVIOUS
<1>3. PICK root : root = NewRoot(out, n, r)
  OBVIOUS
<1>4. PICK m : m = [meta EXCEPT !.root = r + 1, !.height = @ + 1]
  OBVIOUS
<1>5. PICK high : high = <<Write(root)>>
  OBVIOUS
<1>6. PICK npg : npg = Written(pages, low \o <<Write(NewRoot(out, n, r))>>)
  OBVIOUS
<1>7. npg = Written(pages, low \o high) /\ Do(busy, low, high, m, Idle)
  BY <1>1, <1>2, <1>3, <1>4, <1>5, <1>6
<1>8. IsHalved(n, r, A, B, out) /\ IsCrowned(n, r, out, npg)
  BY <1>1, <1>2, <1>6, RootCrowned
<1>9. PICK nt : Holds(meta.kind, npg, r + 1, nt, None, None) /\ IsTopped(t, nt, n, r, r + 1)
  BY <1>1, <1>8, RootHolds
<1>10. A \in AnyNode /\ B \in AnyNode /\ root \in AnyNode
  <2>1. A \in AnyNode /\ B \in AnyNode /\ NewRoot(out, n, r) \in AnyNode
    BY <1>1, <1>8, <1>9, RootTyped
  <2>. QED
    BY <2>1, <1>3
<1>11. root.id = r + 1
  <2>1. IsNewRoot(out, n, r, root)
    BY <1>3, NewRootFacts
  <2>. HIDE <1>3
  <2>. QED
    BY <2>1 DEF IsNewRoot
<1>12. low \in Seq(AnyWrite) /\ Orderly(Len(pages), low \o high)
  <2>1. RootWrites(r, A, B) \in Seq(AnyWrite) /\ Orderly(Len(pages), RootWrites(r, A, B) \o <<Write(root)>>)
    BY <1>1, <1>10, <1>11, RootOrderly
  <2>. QED
    BY <2>1, <1>1, <1>5
<1>13. DOMAIN npg = DOMAIN pages \cup {r, r + 1} /\ Len(npg) = r + 1
  BY <1>8 DEF IsHalved, IsCrowned
<1>14. Rests(npg, m, held) /\ m \in MetaType(DOMAIN npg)
  <2>0. IsHigher(m, r, npg)
    BY <1>4, <1>13 DEF IsHigher
  <2>1. /\ Rests(npg, m, held)
        /\ \A D : DOMAIN pages \cup {r + 1} \subseteq D => m \in MetaType(D)
    <3>. HIDE <1>4
    <3>. QED
      BY <2>0, <1>1, <1>9, RootTells
  <2>. QED
    BY <2>1, <1>13
<1>15. Leaves(low \o high, m, held, Idle)
  BY <1>7, <1>12, <1>14 DEF Leaves, CallOK
<1>16. Typed /\ busy \in Keys \cup {None} /\ held \subseteq Keys /\ IsFiniteSet(held)
  <2>1. Typed
    BY <1>1, RootPages
  <2>. QED
    BY <2>1 DEF Typed
<1>17. FInv => Sound(Good(pages), low \o high)
  <2>1. out = Written(pages, RootWrites(r, A, B))
    BY <1>1, <1>2
  <2>2. IsNewRoot(out, n, r, root)
    BY <1>3, NewRootFacts
  <2>3. low = RootWrites(r, A, B) /\ RootDue(mem, n, t, r, A, B)
    BY <1>1
  <2>. HIDE <1>2, <1>3
  <2>4. FInv => Sound(Good(pages), RootWrites(r, A, B) \o <<Write(root)>>)
    BY <1>10, <2>1, <2>2, <2>3, RootSound
  <2>. QED
    BY <2>3, <2>4, <1>5
<1>18. PICK c : c = Idle
  OBVIOUS
<1>19. c # Killed
  BY <1>18 DEF Idle, Killed
<1>. QED
  BY <1>1, <1>7, <1>12, <1>15, <1>16, <1>17, <1>18, <1>19, DoKeepsBoth

-----------------------------------------------------------------------------
(* Helpers that move nothing between pages.                                 *)

\* No write changes nothing.
LEMMA WrittenNone ==
    ASSUME NEW pg, IsFile(pg)
    PROVE  Written(pg, <<>>) = pg
<1>1. PICK ws, out : ws = <<>> /\ out = Written(pg, ws)
  OBVIOUS
<1>2. Len(ws) = 0 /\ DOMAIN ws = {}
  BY <1>1
<1>3. IsWritten(pg, ws, out)
  <2>1. Len(ws) \in Nat /\ DOMAIN ws = 1..Len(ws)
    BY <1>2
  <2>2. out = Written(pg, ws)
    BY <1>1
  <2>. HIDE <1>1, <1>2
  <2>. QED
    BY <2>1, <2>2, WrittenPages
<1>4. Targets(ws) = {}
  BY <1>2 DEF Targets
<1>5. DOMAIN out = DOMAIN pg /\ out = [p \in DOMAIN out |-> out[p]] /\ \A p \in DOMAIN pg : out[p] = pg[p]
  BY <1>3, <1>4 DEF IsWritten
<1>6. pg = [p \in DOMAIN pg |-> pg[p]]
  BY FileFacts
<1>7. out = pg
  BY <1>5, <1>6
<1>. QED
  BY <1>1, <1>7

\* No write before a list of writes.
LEMMA NoneBefore ==
    ASSUME NEW S, NEW ws \in Seq(S)
    PROVE  <<>> \o ws = ws /\ <<>> \in Seq(S)
BY ConcatEmptySeq

\* insert and erase return, having written pages that were there.
LEMMA ReturnKeeps ==
    ASSUME Typed, NEW k \in Keys \cup {None}, NEW ws, NEW m, Do(k, <<>>, ws, m, Idle),
           Overwrites(pages, ws), m \in MetaType(DOMAIN pages),
           NEW hd, hd = held', hd \subseteq Keys, IsFiniteSet(hd), Rests(Written(pages, ws), m, hd),
           FInv => Sound(Good(pages), ws)
    PROVE  Keeps
<1>1. IsFile(pages)
  BY DEF Typed
<1>2. ws \in Seq(AnyWrite)
  BY DEF Overwrites
<1>3. PICK low : low = <<>>
  OBVIOUS
<1>4. low \o ws = ws /\ low \in Seq(AnyWrite)
  BY <1>2, <1>3, NoneBefore
<1>5. Orderly(Len(pages), low \o ws)
  BY <1>1, <1>4, OverwritesAreOrderly
<1>6. m \in MetaType(DOMAIN Written(pages, low \o ws))
  <2>1. PICK out : out = Written(pages, low \o ws)
    OBVIOUS
  <2>2. DOMAIN pages \subseteq DOMAIN out
    BY <1>1, <1>5, <2>1, OrderlyFile
  <2>. QED
    BY <2>1, <2>2, MetaTypeGrows
<1>7. Leaves(low \o ws, m, hd, Idle)
  BY <1>4, <1>5, <1>6 DEF Leaves, CallOK
<1>8. Do(k, low, ws, m, Idle)
  BY <1>3
<1>9. PICK c : c = Idle
  OBVIOUS
<1>10. c # Killed
  BY <1>9 DEF Idle, Killed
<1>. QED
  BY <1>4, <1>7, <1>8, <1>9, <1>10, DoKeepsBoth

\* Nothing is written, and a call is to run.
LEMMA GoOnKeeps ==
    ASSUME Typed, NEW k \in Keys \cup {None}, NEW fn \in {"split", "underflow", "child_removed"},
           NEW node \in AnyNode, node.id \in DOMAIN pages, NEW path, NEW m, Do(k, <<>>, <<>>, m, Call(fn, node, path)),
           m \in MetaType(DOMAIN pages), NEW hd, hd = held', hd \subseteq Keys, IsFiniteSet(hd),
           NEW t, NEW f, WorksOn(With(pages, node), m, hd, Call(fn, node, path), t, f), FInv => node.id \in Good(pages)
    PROVE  Keeps
<1>1. IsFile(pages)
  BY DEF Typed
<1>2. PICK low, c : low = <<>> /\ c = Call(fn, node, path)
  OBVIOUS
<1>3. low \in Seq(AnyWrite) /\ low \o low = low
  BY <1>2, NoneBefore
<1>4. Written(pages, low \o low) = pages
  BY <1>1, <1>2, <1>3, WrittenNone
<1>5. c.fn = fn /\ c.node = node /\ c.path = path
  BY <1>2 DEF Call
<1>6. DOMAIN With(pages, node) = DOMAIN pages
  BY <1>1, WithFacts
<1>7. path \in Seq(DOMAIN pages)
  <2>1. WorksOn(With(pages, node), m, hd, c, t, f)
    BY <1>2
  <2>2. path \in Seq(t.nodes) /\ Holds(m.kind, With(pages, node), m.root, t, c.node.id, f)
    BY <2>1, <1>5 DEF WorksOn, IsRoute
  <2>3. t.nodes \subseteq DOMAIN With(pages, node)
    BY <2>2, HoldsFacts DEF Tree
  <2>. QED
    BY <2>2, <2>3, <1>6
<1>8. IsCall(DOMAIN pages, c)
  BY <1>2, <1>7 DEF IsCall
<1>9. Works(pages, m, hd, c)
  <2>1. WorksOn(With(pages, c.node), m, hd, c, t, f)
    BY <1>2, <1>5
  <2>. QED
    BY <2>1 DEF Works
<1>10. CallOK(pages, m, hd, c)
  BY <1>5, <1>8, <1>9 DEF CallOK
<1>11. Orderly(Len(pages), low \o low)
  <2>1. Overwrites(pages, low)
    <3>1. Len(low) = 0
      BY <1>2
    <3>. QED
      BY <1>3, <3>1 DEF Overwrites
  <2>. QED
    BY <1>1, <1>3, <2>1, OverwritesAreOrderly
<1>12. Leaves(low \o low, m, hd, c)
  BY <1>4, <1>10, <1>11 DEF Leaves
<1>13. Do(k, low, low, m, c)
  BY <1>2
<1>14. Sound(Good(pages), low \o low)
  <2>1. Len(low) = 0
    BY <1>2
  <2>2. Sound(Good(pages), low)
    BY <2>1, SoundNodes
  <2>. QED
    BY <2>2, <1>3
<1>15. c # Killed
  BY <1>5 DEF Killed
<1>. QED
  BY <1>3, <1>5, <1>12, <1>13, <1>14, <1>15, DoKeepsBoth

-----------------------------------------------------------------------------
(* The tree between calls.                                                  *)

Resting(t) ==
    /\ Typed /\ ~IsEmpty
    /\ Holds(meta.kind, pages, meta.root, t, None, None) /\ InFile(pages, t) /\ Tells(meta, held, t)
    /\ Searchable(pages, meta.root, t)

\* Between calls the file holds the tree that the metadata tell of.
LEMMA RestFacts ==
    ASSUME IInv, call = Idle
    PROVE  /\ Typed /\ Rests(pages, meta, held)
           /\ ~IsEmpty => \E t : Resting(t)
<1>1. Typed
  BY DEF IInv
<1>2. Rests(pages, meta, held)
  <2>1. call # Killed
    BY DEF Idle, Killed
  <2>2. ~IsCall(DOMAIN pages, call)
    <3>. SUFFICES ASSUME IsCall(DOMAIN pages, call) PROVE FALSE
      OBVIOUS
    <3>1. PICK fn \in {"split", "underflow", "child_removed"}, node \in AnyNode, path \in Seq(DOMAIN pages) :
              call = Call(fn, node, path)
      BY DEF IsCall
    <3>2. call.fn = fn
      BY <3>1 DEF Call
    <3>3. call.fn = "idle"
      BY DEF Idle
    <3>. QED
      BY <3>2, <3>3
  <2>. QED
    BY <2>1, <2>2 DEF IInv, CallOK
<1>3. ASSUME ~IsEmpty PROVE \E t : Resting(t)
  <2>1. PICK t : Holds(meta.kind, pages, meta.root, t, None, None) /\ InFile(pages, t) /\ Tells(meta, held, t)
    BY <1>2, <1>3 DEF Rests, IsEmpty
  <2>2. /\ Tree(pages, meta.root, t) /\ None \notin t.nodes
        /\ \A p \in t.nodes : Size(pages, p) \in Nat
        /\ \A p \in t.nodes \ {None} : /\ pages[p].leaf => Size(pages, p) >= 1
                                       /\ ~pages[p].leaf => Size(pages, p) >= 2 /\ Kept(pages, t, p, None)
    BY <2>1, HoldsFacts DEF Tree
  <2>3. \A p \in t.nodes : Size(pages, p) >= 1
    <3>. SUFFICES ASSUME NEW p \in t.nodes PROVE Size(pages, p) >= 1
      OBVIOUS
    <3>1. Size(pages, p) \in Nat /\ (Size(pages, p) >= 1 \/ Size(pages, p) >= 2)
      BY <2>2
    <3>. QED
      BY <3>1
  <2>4. \A p \in t.nodes : ~pages[p].leaf => Keyed(pages, t, p)
    BY <2>2 DEF Kept
  <2>5. \A p \in t.nodes : t.under[p] # {}
    BY <2>1, <2>2, UnderNotEmpty
  <2>6. Len(pages) \in Nat /\ t.level[meta.root] <= Len(pages)
    BY <2>1, <2>2 DEF InFile, Tree
  <2>7. Searchable(pages, meta.root, t)
    BY <2>2, <2>3, <2>4, <2>5, <2>6 DEF Searchable
  <2>. QED
    BY <1>1, <1>3, <2>1, <2>7 DEF Resting
<1>. QED
  BY <1>1, <1>2, <1>3

\* What find_leaf has read.
IsWay(t, k, d) ==
    /\ PathShape(pages, t, meta.root, k, d) /\ IsRoute(pages, t, d, meta.root, Last(d))
    /\ Last(d) \in t.nodes /\ pages[Last(d)].leaf /\ pages[Last(d)].id = Last(d)
    /\ Last(d) \in DOMAIN pages /\ IsNode(pages[Last(d)])

\* find_leaf, between calls.
LEMMA WayOfKey ==
    ASSUME KeysAssumption, NEW t, Resting(t), NEW k \in Keys, NEW d, d = Path(k)
    PROVE  IsWay(t, k, d)
<1>1. /\ Holds(meta.kind, pages, meta.root, t, None, None) /\ Searchable(pages, meta.root, t) /\ IsFile(pages)
  BY DEF Resting, Typed
<1>2. IsPath(pages, meta.root, t, k, d)
  <2>1. d = Descent(pages, TowardKey(pages, k), meta.root)
    BY DEF Path
  <2>. QED
    BY <1>1, <2>1, PathProperties
<1>3. Tree(pages, meta.root, t) /\ \A p \in t.nodes : pages[p].id = p
  BY <1>1, HoldsFacts
<1>4. PathShape(pages, t, meta.root, k, d)
  BY <1>2, <1>3, PathFacts
<1>5. Last(d) \in t.nodes /\ pages[Last(d)].leaf
  BY <1>2 DEF IsPath
<1>6. Last(d) \in DOMAIN pages
  BY <1>3, <1>5 DEF Tree
<1>7. IsNode(pages[Last(d)])
  BY <1>1, <1>6, FileFacts
<1>8. IsRoute(pages, t, d, meta.root, Last(d))
  <2>1. d \in Seq(t.nodes) /\ Len(d) = t.level[meta.root] /\ d[1] = meta.root
    BY <1>2 DEF IsPath, IsDescent
  <2>2. t.level[meta.root] \in Nat \ {0}
    BY <1>4 DEF PathShape
  <2>3. PICK z \in Nat : z = t.level[meta.root] /\ z >= 1
    BY <2>2
  <2>4. \A i \in 1..(z - 1) : /\ ~pages[d[i]].leaf
                              /\ \E j \in 1..Size(pages, d[i]) : pages[d[i]].items[j] = d[i + 1]
    BY <1>2, <2>3 DEF IsPath, IsWayTo
  <2>5. \A i \in 2..z : i - 1 \in 1..(z - 1) /\ (i - 1) + 1 = i
    BY <2>3
  <2>6. \A i \in 2..z : /\ ~pages[d[i - 1]].leaf
                        /\ \E j \in 1..Size(pages, d[i - 1]) : pages[d[i - 1]].items[j] = d[i]
    <3>. SUFFICES ASSUME NEW i \in 2..z
                  PROVE  /\ ~pages[d[i - 1]].leaf
                         /\ \E j \in 1..Size(pages, d[i - 1]) : pages[d[i - 1]].items[j] = d[i]
      OBVIOUS
    <3>1. PICK h : h = i - 1
      OBVIOUS
    <3>2. h \in 1..(z - 1) /\ h + 1 = i
      BY <2>5, <3>1
    <3>3. ~pages[d[h]].leaf /\ \E j \in 1..Size(pages, d[h]) : pages[d[h]].items[j] = d[h + 1]
      BY <2>4, <3>2
    <3>. QED
      BY <3>1, <3>2, <3>3
  <2>. QED
    BY <2>1, <2>3, <2>6 DEF IsRoute
<1>. QED
  BY <1>3, <1>4, <1>5, <1>6, <1>7, <1>8 DEF IsWay

-----------------------------------------------------------------------------
(* A key is put into the leaf where it belongs, or taken out of it.         *)

\* The new leaf and the file with it.
IsNewLeaf(d, leaf, npg) ==
    /\ leaf \in AnyNode /\ leaf.id = Last(d) /\ leaf.leaf = TRUE
    /\ IsPut(pages, Last(d), leaf, npg) /\ Len(npg) = Len(pages)

\* What the metadata say with the keys hd.
Resized(m, hd) ==
    /\ m.root = meta.root /\ m.first = meta.first /\ m.height = meta.height /\ m.kind = meta.kind
    /\ m.size = Cardinality(hd) /\ m \in MetaType(DOMAIN pages)

\* The tree with the keys hd.
IsRekeyed(t, m, hd, npg, nt, q, g) ==
    /\ Holds(meta.kind, npg, meta.root, nt, q, g) /\ InFile(npg, nt) /\ Tells(m, hd, nt)
    /\ nt.nodes = t.nodes /\ nt.level = t.level /\ nt.first = t.first

\* The metadata tell the truth of the tree with the leaf changed.
LEMMA ChangedTells ==
    ASSUME NEW t, Resting(t), NEW k, NEW d, IsWay(t, k, d), NEW new, NEW nt, IsChanged(t, nt, meta.root, d, k, new),
           NEW m, NEW hd, hd = (held \ {k}) \cup new, Resized(m, hd), NEW leaf, NEW npg, IsNewLeaf(d, leaf, npg)
    PROVE  InFile(npg, nt) /\ Tells(m, hd, nt)
<1>1. Tells(meta, held, t) /\ InFile(pages, t)
  BY DEF Resting
<1>2. meta.root \in Passed(t, meta.root, d)
  BY DEF IsWay, PathShape
<1>3. nt.nodes = t.nodes /\ nt.level = t.level /\ nt.first = t.first
      /\ \A q \in t.nodes : nt.under[q] = IF q \in Passed(t, meta.root, d) THEN (t.under[q] \ {k}) \cup new ELSE t.under[q]
  BY DEF IsChanged
<1>4. nt.under[meta.root] = hd
  BY <1>1, <1>2, <1>3 DEF Tells
<1>5. Tells(m, hd, nt)
  BY <1>1, <1>3, <1>4 DEF Tells, Resized
<1>6. InFile(npg, nt)
  BY <1>1, <1>3 DEF InFile, IsNewLeaf
<1>. QED
  BY <1>5, <1>6

\* The leaf that find_leaf has read.
LEMMA OldLeaf ==
    ASSUME KeysAssumption, NEW t, Resting(t), NEW k \in Keys, NEW d, IsWay(t, k, d)
    PROVE  /\ LeafHolds(pages[Last(d)].items, t.under[Last(d)]) /\ t.under[Last(d)] \subseteq Keys
           /\ k \in t.under[Last(d)] <=> k \in held
           /\ IsMade(pages[Last(d)], Last(d), TRUE, pages[Last(d)].items, pages[Last(d)].next)
           /\ pages[Last(d)].keys \in Seq(Keys) /\ pages[Last(d)].next \in Nat \cup {None}
           /\ Last(d) \in Nat /\ Last(d) \in DOMAIN pages /\ Last(d) \in t.nodes
           /\ Len(pages[Last(d)].items) \in Nat /\ t.first[Last(d)] = Last(d)
<1>1. Holds(meta.kind, pages, meta.root, t, None, None) /\ IsFile(pages) /\ Tells(meta, held, t)
  BY DEF Resting, Typed
<1>2. Tree(pages, meta.root, t)
  BY <1>1 DEF Holds
<1>3. PathShape(pages, t, meta.root, k, d)
  BY DEF IsWay
<1>4. /\ LeafHolds(pages[Last(d)].items, t.under[Last(d)]) /\ t.under[Last(d)] \subseteq Keys
      /\ k \in t.under[Last(d)] <=> k \in t.under[meta.root]
      /\ t.first[Last(d)] = Last(d)
  BY <1>2, <1>3, WayFacts
<1>5. t.under[meta.root] = held
  BY <1>1 DEF Tells
<1>6. /\ IsNode(pages[Last(d)]) /\ pages[Last(d)].id = Last(d) /\ pages[Last(d)].leaf
      /\ Last(d) \in DOMAIN pages /\ Last(d) \in t.nodes
  BY DEF IsWay
<1>7. PICK old : old = pages[Last(d)]
  OBVIOUS
<1>8. /\ IsMade(old, old.id, old.leaf, old.items, old.next) /\ old.keys \in Seq(Keys) /\ old.next \in Nat \cup {None}
      /\ old.leaf \in BOOLEAN
  BY <1>6, <1>7, NodeIsMade
<1>9. old.leaf = TRUE
  BY <1>6, <1>7, <1>8
<1>10. Len(old.items) \in Nat
  BY <1>6, <1>7, NodeFields
<1>11. Last(d) \in Nat
  BY <1>1, <1>6, FileFacts
<1>. QED
  BY <1>4, <1>5, <1>6, <1>7, <1>8, <1>9, <1>10, <1>11

\* insert into it ...
LEMMA LeafWith ==
    ASSUME KeysAssumption, NEW t, Resting(t), NEW k \in Keys, NEW d, IsWay(t, k, d), k \notin held,
           NEW leaf, leaf = WithItem(pages[Last(d)], k)
    PROVE  /\ leaf \in AnyNode /\ leaf.id = Last(d) /\ leaf.leaf = TRUE
           /\ leaf.items = InsertAt(pages[Last(d)].items, LowerBound(pages[Last(d)].items, k), Item(k))
           /\ Len(leaf.items) = Len(pages[Last(d)].items) + 1
<1>1. PICK old : old = pages[Last(d)]
  OBVIOUS
<1>2. /\ LeafHolds(old.items, t.under[Last(d)]) /\ t.under[Last(d)] \subseteq Keys
      /\ k \notin t.under[Last(d)]
      /\ IsMade(old, Last(d), TRUE, old.items, old.next) /\ old.keys \in Seq(Keys) /\ old.next \in Nat \cup {None}
      /\ Last(d) \in Nat
  BY <1>1, OldLeaf
<1>3. PICK items : items = InsertAt(old.items, LowerBound(old.items, k), Item(k))
  OBVIOUS
<1>4. LeafHolds(items, t.under[Last(d)] \cup {k}) /\ Len(items) = Len(old.items) + 1
  BY <1>2, <1>3, ItemsWith, ZenonT(60)
<1>5. leaf = [old EXCEPT !.items = items]
  BY <1>1, <1>3 DEF WithItem
<1>6. IsMade(leaf, Last(d), TRUE, items, old.next) /\ leaf.keys = old.keys
  <2>1. PICK p, yes, was, next : p = Last(d) /\ yes = TRUE /\ was = old.items /\ next = old.next
    OBVIOUS
  <2>2. IsMade(old, p, yes, was, next)
    BY <1>2, <2>1
  <2>3. IsMade(leaf, p, yes, items, next) /\ leaf.keys = old.keys
    <3>. HIDE <1>1, <1>3, <2>1
    <3>. QED
      BY <1>5, <2>2, ItemsChanged
  <2>. QED
    BY <2>1, <2>3
<1>7. ItemsOK(TRUE, items)
  BY <1>4 DEF ItemsOK, LeafHolds
<1>8. leaf \in AnyNode
  BY <1>2, <1>6, <1>7, MadeIsNode
<1>9. leaf.id = Last(d) /\ leaf.leaf = TRUE /\ leaf.items = items
  BY <1>6 DEF IsMade
<1>. QED
  BY <1>1, <1>3, <1>4, <1>8, <1>9

\* ... and erase from it.
LEMMA LeafWithout ==
    ASSUME KeysAssumption, NEW t, Resting(t), NEW k \in Keys, NEW d, IsWay(t, k, d), k \in held,
           NEW leaf, leaf = WithoutItem(pages[Last(d)], k)
    PROVE  /\ leaf \in AnyNode /\ leaf.id = Last(d) /\ leaf.leaf = TRUE
           /\ leaf.items = RemoveAt(pages[Last(d)].items, LowerBound(pages[Last(d)].items, k))
           /\ Len(leaf.items) = Len(pages[Last(d)].items) - 1
<1>1. PICK old : old = pages[Last(d)]
  OBVIOUS
<1>2. /\ LeafHolds(old.items, t.under[Last(d)]) /\ t.under[Last(d)] \subseteq Keys
      /\ k \in t.under[Last(d)]
      /\ IsMade(old, Last(d), TRUE, old.items, old.next) /\ old.keys \in Seq(Keys) /\ old.next \in Nat \cup {None}
      /\ Last(d) \in Nat
  BY <1>1, OldLeaf
<1>3. PICK items : items = RemoveAt(old.items, LowerBound(old.items, k))
  OBVIOUS
<1>4. LeafHolds(items, t.under[Last(d)] \ {k}) /\ Len(items) = Len(old.items) - 1
  <2>1. PICK S, was : S = t.under[Last(d)] /\ was = old.items
    OBVIOUS
  <2>2. LeafHolds(was, S) /\ S \subseteq Keys /\ k \in S /\ items = RemoveAt(was, LowerBound(was, k))
    BY <1>2, <1>3, <2>1
  <2>3. LeafHolds(items, S \ {k}) /\ Len(items) = Len(was) - 1
    <3>. HIDE <1>1, <1>3, <2>1
    <3>. QED
      BY <2>2, ItemsWithout
  <2>. QED
    BY <2>1, <2>3
<1>5. leaf = [old EXCEPT !.items = items]
  BY <1>1, <1>3 DEF WithoutItem
<1>6. IsMade(leaf, Last(d), TRUE, items, old.next) /\ leaf.keys = old.keys
  <2>1. PICK p, yes, was, next : p = Last(d) /\ yes = TRUE /\ was = old.items /\ next = old.next
    OBVIOUS
  <2>2. IsMade(old, p, yes, was, next)
    BY <1>2, <2>1
  <2>3. IsMade(leaf, p, yes, items, next) /\ leaf.keys = old.keys
    <3>. HIDE <1>1, <1>3, <2>1
    <3>. QED
      BY <1>5, <2>2, ItemsChanged
  <2>. QED
    BY <2>1, <2>3
<1>7. ItemsOK(TRUE, items)
  BY <1>4 DEF ItemsOK, LeafHolds
<1>8. leaf \in AnyNode
  BY <1>2, <1>6, <1>7, MadeIsNode
<1>9. leaf.id = Last(d) /\ leaf.leaf = TRUE /\ leaf.items = items
  BY <1>6 DEF IsMade
<1>. QED
  BY <1>1, <1>3, <1>4, <1>8, <1>9

\* The file with the new leaf.
LEMMA NewLeafPut ==
    ASSUME KeysAssumption, NEW t, Resting(t), NEW k \in Keys, NEW d, IsWay(t, k, d),
           NEW leaf \in AnyNode, leaf.id = Last(d), leaf.leaf = TRUE
    PROVE  /\ IsNewLeaf(d, leaf, Written(pages, <<Write(leaf)>>))
           /\ IsNewLeaf(d, leaf, With(pages, leaf))
           /\ Overwrites(pages, <<Write(leaf)>>)
           /\ IsFile(Written(pages, <<Write(leaf)>>))
<1>1. IsFile(pages)
  BY DEF Resting, Typed
<1>2. Last(d) \in DOMAIN pages
  BY OldLeaf
<1>3. PICK p : p = Last(d)
  OBVIOUS
<1>4. p \in DOMAIN pages /\ leaf.id = p
  BY <1>2, <1>3
<1>5. Write(leaf) = <<p, leaf>>
  BY <1>4 DEF Write
<1>6. PICK ws : ws = <<<<p, leaf>>>>
  OBVIOUS
<1>7. Overwrites(pages, ws)
  BY <1>1, <1>4, <1>6, OverwriteOne
<1>8. PICK npg : npg = Written(pages, ws)
  OBVIOUS
<1>9. IsPut(pages, p, leaf, npg)
  BY <1>6, <1>8, PutOne
<1>10. IsFile(npg) /\ Len(npg) \in Nat
  <2>1. Orderly(Len(pages), ws)
    BY <1>1, <1>7, OverwritesAreOrderly
  <2>. QED
    BY <1>1, <1>8, <2>1, OrderlyFile
<1>11. Len(npg) = Len(pages)
  <2>1. DOMAIN npg = DOMAIN pages
    BY <1>4, <1>9 DEF IsPut
  <2>2. Len(pages) \in Nat /\ DOMAIN pages = 1..Len(pages)
    BY <1>1, FileFacts
  <2>3. PICK z \in Nat : z = Len(pages)
    BY <2>2
  <2>4. DOMAIN Written(pages, ws) = 1..z
    BY <1>8, <2>1, <2>2, <2>3
  <2>. QED
    BY <1>8, <2>3, <2>4, WrittenLen
<1>12. PICK w : w = With(pages, leaf)
  OBVIOUS
<1>13. DOMAIN w = DOMAIN pages /\ Len(w) = Len(pages) /\ w[leaf.id] = leaf /\ \A q \in DOMAIN pages \ {leaf.id} : w[q] = pages[q]
  BY <1>1, <1>4, <1>12, WithFacts
<1>14. IsPut(pages, p, leaf, w)
  BY <1>4, <1>13 DEF IsPut
<1>. QED
  BY <1>3, <1>5, <1>6, <1>7, <1>8, <1>9, <1>10, <1>11, <1>12, <1>13, <1>14 DEF IsNewLeaf

\* The pages of the tree then.
LEMMA NewLeafRewritten ==
    ASSUME KeysAssumption, NEW t, Resting(t), NEW k \in Keys, NEW d, IsWay(t, k, d),
           NEW leaf, NEW npg, IsNewLeaf(d, leaf, npg)
    PROVE  LeafRewritten(pages, npg, t, Last(d)) /\ npg[Last(d)] = leaf
<1>1. t.nodes \subseteq DOMAIN pages
  BY DEF Resting, Holds, Tree
<1>2. DOMAIN npg = DOMAIN pages \cup {Last(d)} /\ npg[Last(d)] = leaf /\ \A q \in DOMAIN pages : q # Last(d) => npg[q] = pages[q]
  BY DEF IsNewLeaf, IsPut
<1>3. leaf.id = Last(d) /\ leaf.leaf = TRUE
  BY DEF IsNewLeaf
<1>. QED
  BY <1>1, <1>2, <1>3 DEF LeafRewritten

\* find tells whether the tree has the key.
LEMMA FindHeld ==
    ASSUME KeysAssumption, NEW t, Resting(t), NEW k \in Keys
    PROVE  Find(k) = IF k \in held THEN {Record[k]} ELSE {}
<1>1. ~IsEmpty /\ Searchable(pages, meta.root, t) /\ t.under[meta.root] = held
  BY DEF Resting, Tells
<1>2. Find(k) = IF k \in t.under[meta.root] THEN {Record[k]} ELSE {}
  BY <1>1, FindProperties
<1>. QED
  BY <1>1, <1>2

\* The metadata with one key more, or fewer.
LEMMA MoreKeys ==
    ASSUME NEW t, Resting(t), NEW k \in Keys, k \notin held
    PROVE  Resized([meta EXCEPT !.size = @ + 1], held \cup {k}) /\ IsFiniteSet(held \cup {k})
<1>1. meta \in MetaType(DOMAIN pages) /\ IsFiniteSet(held) /\ meta.size = Cardinality(held)
  BY DEF Resting, Typed, Tells
<1>2. IsFiniteSet(held \cup {k}) /\ Cardinality(held \cup {k}) = Cardinality(held) + 1
  BY <1>1, FS_AddElement
<1>3. PICK z : z = meta.size + 1
  OBVIOUS
<1>4. z \in Nat /\ z = Cardinality(held \cup {k})
  BY <1>1, <1>2, <1>3 DEF MetaType
<1>5. PICK m : m = [meta EXCEPT !.size = z]
  OBVIOUS
<1>6. /\ m.root = meta.root /\ m.first = meta.first /\ m.height = meta.height /\ m.kind = meta.kind
      /\ m.size = z /\ m \in MetaType(DOMAIN pages)
  BY <1>1, <1>4, <1>5 DEF MetaType
<1>7. m = [meta EXCEPT !.size = @ + 1]
  BY <1>3, <1>5
<1>8. Resized(m, held \cup {k})
  BY <1>4, <1>6 DEF Resized
<1>. QED
  BY <1>2, <1>7, <1>8

\* ... or fewer.
LEMMA FewerKeys ==
    ASSUME NEW t, Resting(t), NEW k \in held
    PROVE  Resized([meta EXCEPT !.size = @ - 1], held \ {k}) /\ IsFiniteSet(held \ {k})
<1>1. meta \in MetaType(DOMAIN pages) /\ IsFiniteSet(held) /\ meta.size = Cardinality(held)
  BY DEF Resting, Typed, Tells
<1>2. IsFiniteSet(held \ {k}) /\ Cardinality(held \ {k}) = Cardinality(held) - 1
  BY <1>1, FS_RemoveElement
<1>3. PICK z : z = meta.size - 1
  OBVIOUS
<1>4. z \in Nat /\ z = Cardinality(held \ {k})
  <2>1. Cardinality(held \ {k}) \in Nat
    BY <1>2, FS_CardinalityType
  <2>. QED
    BY <2>1, <1>1, <1>2, <1>3
<1>5. PICK m : m = [meta EXCEPT !.size = z]
  OBVIOUS
<1>6. /\ m.root = meta.root /\ m.first = meta.first /\ m.height = meta.height /\ m.kind = meta.kind
      /\ m.size = z /\ m \in MetaType(DOMAIN pages)
  BY <1>1, <1>4, <1>5 DEF MetaType
<1>7. m = [meta EXCEPT !.size = @ - 1]
  BY <1>3, <1>5
<1>8. Resized(m, held \ {k})
  BY <1>4, <1>6 DEF Resized
<1>. QED
  BY <1>2, <1>7, <1>8

\* The tree with a key more.
LEMMA AddedHolds ==
    ASSUME KeysAssumption, CapacityAssumption, NEW t, Resting(t), NEW k \in Keys, NEW d, IsWay(t, k, d), k \notin held,
           NEW leaf, leaf = WithItem(pages[Last(d)], k), NEW npg, IsNewLeaf(d, leaf, npg),
           NEW m, Resized(m, held \cup {k}), NEW q, q \in {None, Last(d)}, q = None => Proper(leaf)
    PROVE  \E nt : IsRekeyed(t, m, held \cup {k}, npg, nt, q, None)
<1>1. Holds(meta.kind, pages, meta.root, t, None, None) /\ t.under[meta.root] = held
  BY DEF Resting, Tells
<1>2. PathShape(pages, t, meta.root, k, d)
  BY DEF IsWay
<1>3. LeafRewritten(pages, npg, t, Last(d)) /\ npg[Last(d)] = leaf
  BY NewLeafRewritten
<1>4. leaf.items = InsertAt(pages[Last(d)].items, LowerBound(pages[Last(d)].items, k), Item(k))
  BY LeafWith
<1>5. npg[Last(d)].items = InsertAt(pages[Last(d)].items, LowerBound(pages[Last(d)].items, k), Item(k))
  BY <1>3, <1>4
<1>6. q = None => Sized(meta.kind, npg, Last(d))
  BY <1>3, ProperIsSized
<1>7. PICK nt : Holds(meta.kind, npg, meta.root, nt, q, None) /\ IsChanged(t, nt, meta.root, d, k, {k})
  BY <1>1, <1>2, <1>3, <1>5, <1>6, KeyAdded, SMTT(30)
<1>8. held \cup {k} = (held \ {k}) \cup {k}
  OBVIOUS
<1>9. InFile(npg, nt) /\ Tells(m, held \cup {k}, nt)
  <2>1. PICK hd, new : hd = held \cup {k} /\ new = {k}
    OBVIOUS
  <2>2. hd = (held \ {k}) \cup new /\ IsChanged(t, nt, meta.root, d, k, new) /\ Resized(m, hd)
    BY <1>7, <1>8, <2>1
  <2>3. InFile(npg, nt) /\ Tells(m, hd, nt)
    <3>. HIDE <2>1
    <3>. QED
      BY <2>2, ChangedTells
  <2>. QED
    BY <2>1, <2>3
<1>10. nt.nodes = t.nodes /\ nt.level = t.level /\ nt.first = t.first
  BY <1>7 DEF IsChanged
<1>. QED
  BY <1>7, <1>9, <1>10 DEF IsRekeyed

\* The way to the leaf is one in the new tree.
LEMMA SameWay ==
    ASSUME NEW t, Resting(t), NEW k, NEW d, IsWay(t, k, d), NEW leaf, NEW npg, IsNewLeaf(d, leaf, npg),
           NEW m, NEW hd, NEW nt, NEW q, NEW g, IsRekeyed(t, m, hd, npg, nt, q, g)
    PROVE  IsRoute(npg, nt, d, meta.root, Last(d)) /\ Last(d) \in nt.nodes
<1>1. Holds(meta.kind, pages, meta.root, t, None, None)
  BY DEF Resting
<1>2. Tree(pages, meta.root, t) /\ t.nodes \subseteq DOMAIN pages /\ \A p \in t.nodes : t.level[p] \in Nat
  <2>1. Tree(pages, meta.root, t) /\ \A p \in t.nodes : NodeOK(pages, t, p)
    BY <1>1, HoldsFacts
  <2>2. \A p \in t.nodes : t.level[p] \in Nat
    BY <2>1 DEF NodeOK
  <2>. QED
    BY <2>1, <2>2 DEF Tree
<1>3. IsRoute(pages, t, d, meta.root, Last(d)) /\ Last(d) \in t.nodes
  BY DEF IsWay
<1>4. nt.nodes = t.nodes
  BY DEF IsRekeyed
<1>5. \A p \in DOMAIN pages : p # Last(d) => npg[p] = pages[p]
  BY DEF IsNewLeaf, IsPut
<1>6. \A p \in t.nodes : t.level[p] > t.level[Last(d)] =>
          p \in nt.nodes /\ npg[p].leaf = pages[p].leaf /\ npg[p].items = pages[p].items
  <2>1. \A p \in t.nodes : t.level[p] > t.level[Last(d)] => p # Last(d)
    BY <1>2, <1>3
  <2>. QED
    BY <2>1, <1>2, <1>4, <1>5
<1>7. Last(d) \in nt.nodes
  BY <1>3, <1>4
<1>. QED
  BY <1>2, <1>3, <1>6, <1>7, RouteMoves

\* The leaf of a tree at rest has a proper number of keys.
LEMMA OldLeafSize ==
    ASSUME CapacityAssumption, NEW t, Resting(t), NEW k, NEW d, IsWay(t, k, d)
    PROVE  /\ Count(pages, Last(d)) = Len(pages[Last(d)].items)
           /\ 1 <= Len(pages[Last(d)].items) /\ Len(pages[Last(d)].items) <= MaxOf(meta.kind, TRUE)
           /\ MaxOf(meta.kind, TRUE) \in Nat /\ MaxOf(meta.kind, TRUE) >= 2
<1>1. Holds(meta.kind, pages, meta.root, t, None, None)
  BY DEF Resting
<1>2. Last(d) \in t.nodes /\ pages[Last(d)].leaf
  BY DEF IsWay
<1>3. Last(d) \in t.nodes \ {None}
  BY <1>1, <1>2 DEF Holds, Tree
<1>4. Sized(meta.kind, pages, Last(d))
  BY <1>1, <1>3 DEF Holds
<1>5. Count(pages, Last(d)) = Len(pages[Last(d)].items)
  BY <1>2 DEF Count, Size
<1>6. MaxOf(meta.kind, pages[Last(d)].leaf) = MaxOf(meta.kind, TRUE)
  BY <1>2 DEF MaxOf
<1>7. MaxOf(meta.kind, TRUE) \in Nat /\ MaxOf(meta.kind, TRUE) >= 2
  <2>1. meta.kind \in KeyKinds
    BY DEF Resting, Typed, MetaType
  <2>. QED
    BY <2>1 DEF MaxOf, CapacityAssumption
<1>. QED
  BY <1>4, <1>5, <1>6, <1>7 DEF Sized

\* The leaf has room.
LEMMA InsertFits ==
    ASSUME KeysAssumption, CapacityAssumption, NEW t, Resting(t), NEW k \in Keys, NEW d, IsWay(t, k, d), k \notin held,
           NEW leaf, leaf = WithItem(pages[Last(d)], k), Fits(leaf),
           NEW m, Resized(m, held \cup {k}), Do(k, <<>>, <<Write(leaf)>>, m, Idle), held' = held \cup {k}
    PROVE  Keeps
<1>1. Typed /\ held \subseteq Keys /\ IsFiniteSet(held \cup {k})
  <2>1. Typed
    BY DEF Resting
  <2>2. IsFiniteSet(held \cup {k})
    BY MoreKeys
  <2>. QED
    BY <2>1, <2>2 DEF Typed
<1>2. leaf \in AnyNode /\ leaf.id = Last(d) /\ leaf.leaf = TRUE /\ Len(leaf.items) = Len(pages[Last(d)].items) + 1
  BY LeafWith, ZenonT(60)
<1>3. Len(pages[Last(d)].items) \in Nat
  BY OldLeaf
<1>4. PICK ws : ws = <<Write(leaf)>>
  OBVIOUS
<1>5. PICK npg : npg = Written(pages, <<Write(leaf)>>)
  OBVIOUS
<1>6. IsNewLeaf(d, leaf, npg) /\ Overwrites(pages, ws)
  BY <1>2, <1>4, <1>5, NewLeafPut
<1>7. Proper(leaf)
  <2>1. KeyCount(leaf) = Len(leaf.items)
    BY <1>2 DEF KeyCount
  <2>2. PICK z \in Nat : z = Len(pages[Last(d)].items)
    BY <1>3
  <2>3. KeyCount(leaf) = z + 1
    BY <1>2, <2>1, <2>2
  <2>4. 1 <= z + 1
    OBVIOUS
  <2>. QED
    BY <2>3, <2>4 DEF Proper, Fits
<1>8. PICK hd : hd = held \cup {k}
  OBVIOUS
<1>9. PICK nt : IsRekeyed(t, m, held \cup {k}, npg, nt, None, None)
  BY <1>6, <1>7, AddedHolds
<1>10. Rests(npg, m, hd)
  <2>1. IsRekeyed(t, m, hd, npg, nt, None, None)
    BY <1>8, <1>9
  <2>2. /\ Holds(meta.kind, npg, meta.root, nt, None, None) /\ InFile(npg, nt) /\ Tells(m, hd, nt)
    BY <2>1 DEF IsRekeyed
  <2>3. m.kind = meta.kind /\ m.root = meta.root
    BY DEF Resized
  <2>4. Holds(m.kind, npg, m.root, nt, None, None)
    BY <2>2, <2>3
  <2>. QED
    BY <2>2, <2>4, RestsIf
<1>11. /\ Rests(Written(pages, ws), m, hd) /\ Do(k, <<>>, ws, m, Idle) /\ hd = held' /\ hd \subseteq Keys
       /\ IsFiniteSet(hd) /\ m \in MetaType(DOMAIN pages)
  BY <1>1, <1>4, <1>5, <1>8, <1>10 DEF Resized
<1>12. Sound(Good(pages), ws)
  <2>1. Below(leaf, Good(pages))
    BY <1>2 DEF Below
  <2>. QED
    BY <2>1, <1>4, OneSound
<1>. QED
  BY <1>1, <1>6, <1>11, <1>12, ReturnKeeps

\* The leaf has too many keys now.
LEMMA InsertSplits ==
    ASSUME KeysAssumption, CapacityAssumption, NEW t, Resting(t), NEW k \in Keys, NEW d, IsWay(t, k, d), k \notin held,
           NEW leaf, leaf = WithItem(pages[Last(d)], k), ~Fits(leaf),
           NEW m, Resized(m, held \cup {k}), Do(k, <<>>, <<>>, m, Call("split", leaf, d)), held' = held \cup {k}
    PROVE  Keeps
<1>1. Typed /\ held \subseteq Keys /\ IsFiniteSet(held \cup {k})
  <2>1. Typed
    BY DEF Resting
  <2>2. IsFiniteSet(held \cup {k})
    BY MoreKeys
  <2>. QED
    BY <2>1, <2>2 DEF Typed
<1>2. leaf \in AnyNode /\ leaf.id = Last(d) /\ leaf.leaf = TRUE /\ Len(leaf.items) = Len(pages[Last(d)].items) + 1
  BY LeafWith, ZenonT(60)
<1>3. Last(d) \in DOMAIN pages /\ Last(d) \in Nat
  BY OldLeaf
<1>4. PICK npg : npg = With(pages, leaf)
  OBVIOUS
<1>5. IsNewLeaf(d, leaf, npg)
  BY <1>2, <1>4, NewLeafPut
<1>6. PICK hd : hd = held \cup {k}
  OBVIOUS
<1>7. Last(d) # None
  BY <1>3 DEF CapacityAssumption
<1>8. PICK nt : IsRekeyed(t, m, hd, npg, nt, Last(d), None)
  <2>1. \E nt : IsRekeyed(t, m, held \cup {k}, npg, nt, Last(d), None)
    BY <1>5, <1>7, AddedHolds
  <2>. QED
    BY <1>6, <2>1
<1>9. IsRoute(npg, nt, d, meta.root, Last(d))
  BY <1>5, <1>8, SameWay
<1>10. Due("split", meta.kind, npg, nt, Last(d), d, None)
  <2>1. /\ Len(pages[Last(d)].items) <= MaxOf(meta.kind, TRUE) /\ 1 <= Len(pages[Last(d)].items)
        /\ MaxOf(meta.kind, TRUE) \in Nat
    BY OldLeafSize
  <2>2. Len(pages[Last(d)].items) \in Nat
    BY OldLeaf
  <2>3. PICK z \in Nat, h \in Nat : z = Len(pages[Last(d)].items) /\ h = MaxOf(meta.kind, TRUE)
    BY <2>1, <2>2
  <2>4. KeyCount(leaf) = z + 1 /\ MaxKeys(leaf) = h
    BY <1>2, <2>3 DEF KeyCount, MaxKeys, MaxOf
  <2>5. z <= h /\ ~(z + 1 <= h)
    BY <2>1, <2>3, <2>4 DEF Fits
  <2>6. z + 1 = h + 1
    BY <2>5
  <2>7. npg[Last(d)] = leaf
    BY <1>5 DEF IsNewLeaf, IsPut
  <2>8. Count(npg, Last(d)) = z + 1
    BY <1>2, <2>3, <2>7 DEF Count, Size
  <2>9. MaxOf(meta.kind, npg[Last(d)].leaf) = h
    BY <1>2, <2>3, <2>7
  <2>. QED
    BY <2>6, <2>8, <2>9 DEF Due
<1>11. PICK c : c = Call("split", leaf, d)
  OBVIOUS
<1>12. c.fn = "split" /\ c.node = leaf /\ c.path = d
  BY <1>11 DEF Call
<1>13. m.kind = meta.kind /\ m.root = meta.root /\ m \in MetaType(DOMAIN pages)
  BY DEF Resized
<1>14. Holds(meta.kind, npg, meta.root, nt, Last(d), None) /\ InFile(npg, nt) /\ Tells(m, hd, nt)
  BY <1>8 DEF IsRekeyed
<1>15. WorksOn(With(pages, leaf), m, hd, c, nt, None)
  BY <1>2, <1>4, <1>9, <1>10, <1>12, <1>13, <1>14 DEF WorksOn
<1>16. PICK fn : fn = "split"
  OBVIOUS
<1>17. /\ fn \in {"split", "underflow", "child_removed"} /\ c = Call(fn, leaf, d)
       /\ leaf.id \in DOMAIN pages /\ hd = held' /\ hd \subseteq Keys /\ IsFiniteSet(hd)
       /\ Do(k, <<>>, <<>>, m, Call(fn, leaf, d)) /\ WorksOn(With(pages, leaf), m, hd, Call(fn, leaf, d), nt, None)
  BY <1>1, <1>2, <1>3, <1>6, <1>11, <1>15, <1>16
<1>18. leaf.id \in Good(pages)
  BY <1>2, <1>3 DEF IsWay, Good
<1>. QED
  <2>. HIDE <1>4, <1>6, <1>11, <1>16
  <2>. QED
    BY <1>1, <1>2, <1>13, <1>17, <1>18, GoOnKeeps

\* insert keeps the invariant, up to the first split.
LEMMA InsertKeeps ==
    ASSUME KeysAssumption, CapacityAssumption, IInv, NEW k \in Keys, Insert(k)
    PROVE  Keeps
<1>1. call = Idle /\ ~IsEmpty /\ Find(k) = {} /\ held' = held \cup {k}
  BY DEF Insert
<1>2. PICK t : Resting(t)
  BY <1>1, RestFacts
<1>3. k \notin held
  <2>1. Find(k) = IF k \in held THEN {Record[k]} ELSE {}
    BY <1>2, FindHeld
  <2>. QED
    BY <2>1, <1>1
<1>4. PICK d : d = Path(k)
  OBVIOUS
<1>5. IsWay(t, k, d)
  BY <1>2, <1>4, WayOfKey
<1>6. PICK leaf, m : leaf = WithItem(pages[Last(d)], k) /\ m = [meta EXCEPT !.size = @ + 1]
  OBVIOUS
<1>7. Resized(m, held \cup {k})
  BY <1>2, <1>3, <1>6, MoreKeys
<1>8. \/ Fits(leaf) /\ Do(k, <<>>, <<Write(leaf)>>, m, Idle)
      \/ ~Fits(leaf) /\ Do(k, <<>>, <<>>, m, Call("split", leaf, d))
  BY <1>4, <1>6 DEF Insert
<1>9. CASE Fits(leaf) /\ Do(k, <<>>, <<Write(leaf)>>, m, Idle)
  BY <1>1, <1>2, <1>3, <1>5, <1>6, <1>7, <1>9, InsertFits
<1>10. CASE ~Fits(leaf) /\ Do(k, <<>>, <<>>, m, Call("split", leaf, d))
  BY <1>1, <1>2, <1>3, <1>5, <1>6, <1>7, <1>10, InsertSplits
<1>. QED
  BY <1>8, <1>9, <1>10

-----------------------------------------------------------------------------
(* The first key and the last one.                                          *)

IsFirst(leaf, p, k) == leaf = Leaf(p, <<Item(k)>>, None)

\* The leaf that insert makes for the first key.
LEMMA FirstLeaf ==
    ASSUME KeysAssumption, NEW p \in Nat, NEW k \in Keys, NEW leaf, IsFirst(leaf, p, k)
    PROVE  /\ leaf \in AnyNode /\ leaf.id = p /\ leaf.leaf = TRUE /\ Len(leaf.items) = 1
           /\ LeafHolds(leaf.items, {k})
<1>1. PICK it, items : it = Item(k) /\ items = <<it>>
  OBVIOUS
<1>10. PICK ks : ks = <<>>
  OBVIOUS
<1>11. leaf = [id |-> p, leaf |-> TRUE, items |-> items, keys |-> ks, next |-> None]
  BY <1>1, <1>10 DEF Leaf, IsFirst
<1>2. leaf.id = p /\ leaf.leaf = TRUE /\ leaf.items = items /\ leaf.keys = ks /\ leaf.next = None
  BY <1>11
<1>3. items \in Seq({Item(x) : x \in Keys}) /\ Len(items) = 1 /\ items[1] = it
  BY <1>1
<1>4. it.key = k
  BY <1>1 DEF Item
<1>5. LeafHolds(items, {k})
  <2>1. \A i \in 1..1 : i = 1
    OBVIOUS
  <2>2. \A x : x \in {k} <=> \E i \in 1..1 : items[i].key = x
    BY <2>1, <1>3, <1>4
  <2>3. \A i, j \in 1..1 : i < j => items[i].key < items[j].key
    BY <2>1
  <2>. QED
    BY <2>2, <2>3, <1>3 DEF LeafHolds
<1>6. leaf \in AnyNode
  <2>1. IsMade(leaf, p, TRUE, items, None)
    BY <1>2, <1>11 DEF IsMade
  <2>2. ItemsOK(TRUE, items)
    BY <1>3 DEF ItemsOK
  <2>3. leaf.keys \in Seq(Keys)
    BY <1>2, <1>10
  <2>. HIDE <1>1, <1>2, <1>10, <1>11
  <2>. QED
    BY <2>1, <2>2, <2>3, MadeIsNode
<1>. QED
  BY <1>2, <1>3, <1>5, <1>6

\* The file with the first leaf.
LEMMA FirstWritten ==
    ASSUME KeysAssumption, IsFile(pages), NEW p, p = Len(pages) + 1, NEW k \in Keys,
           NEW leaf, IsFirst(leaf, p, k),
           NEW ws, ws = <<Fresh(p), Write(leaf)>>, NEW npg, npg = Written(pages, ws)
    PROVE  /\ Orderly(Len(pages), ws) /\ ws \in Seq(AnyWrite)
           /\ DOMAIN npg = DOMAIN pages \cup {p} /\ Len(npg) = p /\ npg[p] = leaf /\ p \in Nat
<1>1. Len(pages) \in Nat /\ DOMAIN pages = 1..Len(pages)
  BY FileFacts
<1>2. p \in Nat /\ p \in Nat \ {0}
  BY <1>1
<1>3. leaf \in AnyNode /\ leaf.id = p
  BY <1>2, FirstLeaf
<1>4. Write(leaf) = <<p, leaf>> /\ Fresh(p) = <<p, Blank>>
  BY <1>3 DEF Write, Fresh
<1>5. Write(leaf) \in AnyWrite /\ Fresh(p) \in AnyWrite
  BY <1>2, <1>3, <1>4, BlankIsNode DEF AnyWrite
<1>6. PICK one, two : one = <<Fresh(p)>> /\ two = <<Write(leaf)>>
  OBVIOUS
<1>7. one \in Seq(AnyWrite) /\ two \in Seq(AnyWrite) /\ Len(one) = 1 /\ Len(two) = 1 /\ one[1] = Fresh(p) /\ two[1] = <<p, leaf>>
  BY <1>4, <1>5, <1>6
<1>8. ws = one \o two
  BY <1>6, OneAndOne
<1>9. IsFresh(Len(pages), 1, one)
  BY <1>1, <1>7 DEF IsFresh
<1>10. \A i \in 1..Len(two) : two[i][1] <= Len(pages) + 1 /\ two[i][2].id \in {two[i][1], None}
  <2>1. \A i \in 1..1 : i = 1
    OBVIOUS
  <2>2. p <= Len(pages) + 1
    BY <1>1
  <2>. QED
    BY <2>1, <2>2, <1>3, <1>7
<1>11. Orderly(Len(pages), one \o two)
  BY <1>7, <1>9, <1>10, FreshOrderly
<1>12. ws \in Seq(AnyWrite)
  BY <1>5
<1>13. PICK out : IsPut(pages, p, Blank, out) /\ IsPut(out, p, leaf, npg)
  <2>1. ws = <<<<p, Blank>>, <<p, leaf>>>>
    BY <1>4
  <2>2. npg = Written(pages, <<<<p, Blank>>, <<p, leaf>>>>)
    BY <2>1
  <2>. QED
    BY <2>2, PutTwo
<1>14. DOMAIN npg = DOMAIN pages \cup {p} /\ npg[p] = leaf
  BY <1>13 DEF IsPut
<1>15. Len(npg) = p
  <2>1. PICK z \in Nat : z = Len(pages)
    BY <1>1
  <2>2. (1..z) \cup {z + 1} = 1..(z + 1)
    OBVIOUS
  <2>3. DOMAIN Written(pages, ws) = 1..p
    BY <1>1, <1>14, <2>1, <2>2
  <2>. QED
    BY <1>2, <2>3, WrittenLen
<1>. QED
  BY <1>2, <1>8, <1>11, <1>12, <1>14, <1>15

IsFiled(p, leaf, npg) == p \in Nat /\ p >= 1 /\ p \in DOMAIN npg /\ npg[p] = leaf /\ Len(npg) = p

\* The tree of that leaf.
LEMMA FirstHolds ==
    ASSUME KeysAssumption, CapacityAssumption, NEW p, NEW k \in Keys,
           NEW leaf, IsFirst(leaf, p, k), NEW npg, IsFiled(p, leaf, npg),
           NEW kind \in KeyKinds
    PROVE  \E t : Holds(kind, npg, p, t, None, None) /\ InFile(npg, t) /\ IsTreeOf(npg, p, {k}, t)
<1>0. p \in Nat /\ p >= 1 /\ p \in DOMAIN npg /\ npg[p] = leaf /\ Len(npg) = p
  BY DEF IsFiled
<1>1. leaf.id = p /\ leaf.leaf = TRUE /\ Len(leaf.items) = 1 /\ LeafHolds(leaf.items, {k})
  BY <1>0, FirstLeaf
<1>2. npg[p].leaf = TRUE /\ LeafHolds(npg[p].items, {k})
  BY <1>0, <1>1
<1>30. PICK S : S = {k}
  OBVIOUS
<1>31. IsLeafOf(npg, p, S)
  BY <1>0, <1>2, <1>30 DEF IsLeafOf
<1>32. PICK t : IsTreeOf(npg, p, S, t)
  BY <1>31, OneLeaf
<1>33. IsTreeOf(npg, p, {k}, t)
  BY <1>30, <1>32
<1>3. Tree(npg, p, t) /\ t.nodes = {p} /\ t.level[p] = 1
  BY <1>32 DEF IsTreeOf
<1>4. Sized(kind, npg, p)
  <2>1. Count(npg, p) = 1
    BY <1>0, <1>1 DEF Count, Size
  <2>2. PICK h : h = MaxOf(kind, TRUE)
    OBVIOUS
  <2>3. h \in Nat \ 0..1
    BY <2>2 DEF MaxOf, CapacityAssumption
  <2>4. 1 <= 1 /\ 1 <= h
    BY <2>3
  <2>5. MaxOf(kind, npg[p].leaf) = h
    BY <2>2, <1>2
  <2>. HIDE <2>2
  <2>. QED
    BY <2>1, <2>4, <2>5 DEF Sized
<1>5. Holds(kind, npg, p, t, None, None)
  <2>1. None \notin t.nodes
    BY <1>3 DEF Tree
  <2>2. npg[p].id = p /\ npg[p].leaf
    BY <1>0, <1>1, <1>2
  <2>. QED
    BY <2>1, <2>2, <1>3, <1>4 DEF Holds
<1>6. InFile(npg, t)
  BY <1>0, <1>3 DEF InFile
<1>. QED
  BY <1>33, <1>5, <1>6

\* insert of the first key keeps the invariant.
LEMMA InsertFirstKeeps ==
    ASSUME KeysAssumption, CapacityAssumption, IInv, NEW k \in Keys, InsertFirst(k)
    PROVE  Keeps
<1>1. PICK p : p = Len(pages) + 1
  OBVIOUS
<1>2. PICK leaf : IsFirst(leaf, p, k)
  BY DEF IsFirst
<1>3. PICK m : m = [meta EXCEPT !.root = p, !.first = p, !.height = 1, !.size = 1]
  OBVIOUS
<1>4. PICK ws : ws = <<Fresh(p), Write(leaf)>>
  OBVIOUS
<1>5. call = Idle /\ IsEmpty /\ Do(k, <<>>, ws, m, Idle) /\ held' = held \cup {k}
  BY <1>1, <1>2, <1>3, <1>4 DEF InsertFirst, IsFirst
<1>6. Typed /\ held = {}
  BY <1>5, RestFacts DEF Rests, IsEmpty
<1>7. IsFile(pages) /\ meta \in MetaType(DOMAIN pages)
  BY <1>6 DEF Typed
<1>8. PICK npg : npg = Written(pages, ws)
  OBVIOUS
<1>9. /\ Orderly(Len(pages), ws) /\ ws \in Seq(AnyWrite)
      /\ DOMAIN npg = DOMAIN pages \cup {p} /\ Len(npg) = p /\ npg[p] = leaf /\ p \in Nat
  BY <1>1, <1>2, <1>4, <1>7, <1>8, FirstWritten
<1>10. p >= 1
  <2>1. Len(pages) \in Nat
    BY <1>7, FileFacts
  <2>. QED
    BY <2>1, <1>1
<1>11. meta.kind \in KeyKinds
  BY <1>7 DEF MetaType
<1>12. PICK t : Holds(meta.kind, npg, p, t, None, None) /\ InFile(npg, t) /\ IsTreeOf(npg, p, {k}, t)
  <2>. HIDE <1>1, <1>4, <1>8
  <2>1. IsFiled(p, leaf, npg)
    BY <1>9, <1>10 DEF IsFiled
  <2>. QED
    BY <2>1, <1>2, <1>11, FirstHolds
<1>13. /\ m.root = p /\ m.first = p /\ m.height = 1 /\ m.size = 1 /\ m.kind = meta.kind
       /\ m \in MetaType(DOMAIN npg)
  BY <1>3, <1>7, <1>9 DEF MetaType
<1>14. PICK hd : hd = {k}
  OBVIOUS
<1>15. IsFiniteSet(hd) /\ Cardinality(hd) = 1 /\ hd \subseteq Keys /\ hd = held'
  BY <1>5, <1>6, <1>14, FS_Singleton
<1>16. Rests(npg, m, hd)
  <2>1. Holds(m.kind, npg, m.root, t, None, None)
    BY <1>12, <1>13
  <2>2. Tells(m, hd, t)
    BY <1>12, <1>13, <1>14, <1>15 DEF Tells, IsTreeOf
  <2>. QED
    BY <2>1, <2>2, <1>12, RestsIf
<1>17. PICK low : low = <<>>
  OBVIOUS
<1>18. low \o ws = ws /\ low \in Seq(AnyWrite)
  BY <1>9, <1>17, NoneBefore
<1>19. Leaves(low \o ws, m, hd, Idle)
  BY <1>8, <1>9, <1>13, <1>16, <1>18 DEF Leaves, CallOK
<1>20. Do(k, low, ws, m, Idle)
  BY <1>5, <1>17
<1>21. Sound(Good(pages), low \o ws)
  <2>1. leaf.id = p /\ leaf.leaf = TRUE
    BY <1>2 DEF IsFirst, Leaf
  <2>2. Len(ws) = 2 /\ ws[1] = <<p, Blank>> /\ ws[2] = <<p, leaf>>
    BY <2>1, <1>4 DEF Fresh, Write
  <2>3. p \notin Good(pages)
    <3>1. DOMAIN pages = 1..Len(pages) /\ Len(pages) \in Nat
      BY <1>7, FileFacts
    <3>. QED
      BY <3>1, <1>1 DEF Good
  <2>4. ~IsNodeBefore(Good(pages), ws, 1, p)
    BY <2>3 DEF IsNodeBefore
  <2>5. Blank.leaf = TRUE
    BY DEF Blank, Leaf
  <2>6. ASSUME NEW i \in 1..Len(ws)
        PROVE  /\ ws[i][2].id = ws[i][1] \/ ~IsNodeBefore(Good(pages), ws, i, ws[i][1])
               /\ ws[i][2].leaf = TRUE
    <3>1. CASE i = 1
      BY <3>1, <2>2, <2>4, <2>5
    <3>2. CASE i = 2
      BY <3>2, <2>1, <2>2
    <3>3. i = 1 \/ i = 2
      BY <2>2
    <3>. QED
      BY <3>1, <3>2, <3>3
  <2>7. Sound(Good(pages), ws)
    BY <2>6 DEF Sound
  <2>. QED
    BY <2>7, <1>18
<1>22. PICK c : c = Idle
  OBVIOUS
<1>23. c # Killed
  BY <1>22 DEF Idle, Killed
<1>. QED
  <2>1. busy \in Keys \cup {None} /\ k \in Keys \cup {None}
    BY <1>6 DEF Typed
  <2>2. Leaves(low \o ws, m, hd, c) /\ Do(k, low, ws, m, c)
    BY <1>19, <1>20, <1>22
  <2>. HIDE <1>1, <1>2, <1>3, <1>4, <1>8, <1>14, <1>17
  <2>. QED
    BY <2>1, <2>2, <1>6, <1>15, <1>18, <1>21, <1>22, <1>23, DoKeepsBoth

\* erase of the last key keeps the invariant: the tree is empty.
LEMMA EraseLastKeeps ==
    ASSUME KeysAssumption, CapacityAssumption, IInv, NEW k \in Keys, EraseLast(k)
    PROVE  Keeps
<1>1. call = Idle /\ Find(k) # {} /\ meta.size = 1 /\ held' = held \ {k}
  BY DEF EraseLast
<1>2. ~IsEmpty
  BY <1>1 DEF Find
<1>3. PICK t : Resting(t)
  BY <1>1, <1>2, RestFacts
<1>4. k \in held
  <2>1. Find(k) = IF k \in held THEN {Record[k]} ELSE {}
    BY <1>3, FindHeld
  <2>. QED
    BY <2>1, <1>1
<1>5. PICK d : d = Path(k)
  OBVIOUS
<1>6. IsWay(t, k, d)
  BY <1>3, <1>5, WayOfKey
<1>7. PICK leaf, ws : leaf = WithoutItem(pages[Last(d)], k) /\ ws = <<Write(leaf)>>
  OBVIOUS
<1>8. PICK m : m = NoTree(meta.kind)
  OBVIOUS
<1>9. Do(k, <<>>, ws, m, Idle)
  BY <1>5, <1>7, <1>8 DEF EraseLast, LeafOf
<1>10. Typed /\ meta \in MetaType(DOMAIN pages) /\ IsFiniteSet(held) /\ meta.size = Cardinality(held)
  BY <1>3 DEF Resting, Typed, Tells
<1>11. PICK hd : hd = held \ {k}
  OBVIOUS
<1>12. hd = {}
  <2>1. IsFiniteSet(hd) /\ Cardinality(hd) = Cardinality(held) - 1
    BY <1>4, <1>10, <1>11, FS_RemoveElement
  <2>2. Cardinality(hd) = 0
    BY <2>1, <1>1, <1>10
  <2>. QED
    BY <2>1, <2>2, FS_EmptySet
<1>13. leaf \in AnyNode /\ leaf.id = Last(d) /\ leaf.leaf = TRUE
  BY <1>3, <1>4, <1>6, <1>7, LeafWithout
<1>14. Overwrites(pages, ws)
  BY <1>3, <1>6, <1>7, <1>13, NewLeafPut
<1>15. m.root = None /\ m.kind = meta.kind /\ m \in MetaType(DOMAIN pages)
  BY <1>8, <1>10 DEF NoTree, MetaType
<1>16. Rests(Written(pages, ws), m, hd)
  BY <1>8, <1>12, <1>15 DEF Rests
<1>17. hd = held' /\ hd \subseteq Keys /\ IsFiniteSet(hd)
  BY <1>1, <1>11, <1>12, FS_EmptySet
<1>18. Sound(Good(pages), ws)
  <2>1. Below(leaf, Good(pages))
    BY <1>13 DEF Below
  <2>. QED
    BY <2>1, <1>7, OneSound
<1>. QED
  <2>. HIDE <1>5, <1>7, <1>8, <1>11
  <2>. QED
    BY <1>9, <1>10, <1>14, <1>15, <1>16, <1>17, <1>18, ReturnKeeps

\* The tree with a key fewer.
LEMMA RemovedHolds ==
    ASSUME KeysAssumption, CapacityAssumption, NEW t, Resting(t), NEW k \in Keys, NEW d, IsWay(t, k, d), k \in held,
           NEW leaf, leaf = WithoutItem(pages[Last(d)], k), NEW npg, IsNewLeaf(d, leaf, npg),
           NEW m, Resized(m, held \ {k}), NEW q, q \in {None, Last(d)}, q = None => Proper(leaf),
           NEW g, g \in {None, Last(d)}, pages[Last(d)].items[1].key = k => g = Last(d)
    PROVE  \E nt : IsRekeyed(t, m, held \ {k}, npg, nt, q, g)
<1>1. Holds(meta.kind, pages, meta.root, t, None, None) /\ t.under[meta.root] = held
  BY DEF Resting, Tells
<1>2. PathShape(pages, t, meta.root, k, d)
  BY DEF IsWay
<1>3. LeafRewritten(pages, npg, t, Last(d)) /\ npg[Last(d)] = leaf
  BY NewLeafRewritten
<1>4. leaf.items = RemoveAt(pages[Last(d)].items, LowerBound(pages[Last(d)].items, k))
  BY LeafWithout
<1>5. npg[Last(d)].items = RemoveAt(pages[Last(d)].items, LowerBound(pages[Last(d)].items, k))
  BY <1>3, <1>4
<1>6. q = None => Sized(meta.kind, npg, Last(d))
  BY <1>3, ProperIsSized
<1>7. PICK nt : Holds(meta.kind, npg, meta.root, nt, q, g) /\ IsChanged(t, nt, meta.root, d, k, {})
  <2>1. LosesKey(meta.kind, pages, npg, d, k, q, g)
    BY <1>5, <1>6 DEF LosesKey
  <2>2. k \in t.under[meta.root]
    BY <1>1
  <2>. QED
    BY <1>1, <1>2, <1>3, <2>1, <2>2, KeyRemoved
<1>8. held \ {k} = (held \ {k}) \cup {}
  OBVIOUS
<1>9. InFile(npg, nt) /\ Tells(m, held \ {k}, nt)
  <2>1. PICK hd, new : hd = held \ {k} /\ new = {}
    OBVIOUS
  <2>2. hd = (held \ {k}) \cup new /\ IsChanged(t, nt, meta.root, d, k, new) /\ Resized(m, hd)
    BY <1>7, <1>8, <2>1
  <2>3. InFile(npg, nt) /\ Tells(m, hd, nt)
    <3>. HIDE <2>1
    <3>. QED
      BY <2>2, ChangedTells
  <2>. QED
    BY <2>1, <2>3
<1>10. nt.nodes = t.nodes /\ nt.level = t.level /\ nt.first = t.first
  BY <1>7 DEF IsChanged
<1>. QED
  BY <1>7, <1>9, <1>10 DEF IsRekeyed

\* A root that is a leaf keeps a key.
LEMMA RootLeafKeeps ==
    ASSUME KeysAssumption, NEW t, Resting(t), NEW k \in Keys, NEW d, IsWay(t, k, d), k \in held,
           meta.size # 1, Len(d) = 1
    PROVE  Len(pages[Last(d)].items) >= 2
<1>1. IsRoute(pages, t, d, meta.root, Last(d))
  BY DEF IsWay
<1>2. Last(d) = meta.root
  BY <1>1, RouteRoot
<1>3. PICK items : items = pages[Last(d)].items
  OBVIOUS
<1>4. LeafHolds(items, held) /\ Len(items) \in Nat
  <2>1. t.under[Last(d)] = held
    BY <1>2 DEF Resting, Tells
  <2>2. LeafHolds(items, t.under[Last(d)]) /\ Len(items) \in Nat
    BY <1>3, OldLeaf
  <2>. QED
    BY <2>1, <2>2
<1>5. \A x : x \in held <=> \E i \in 1..Len(items) : items[i].key = x
  BY <1>4 DEF LeafHolds
<1>6. Len(items) # 0
  <2>. SUFFICES ASSUME Len(items) = 0 PROVE FALSE
    OBVIOUS
  <2>1. \E i \in 1..0 : TRUE
    BY <1>5
  <2>. QED
    BY <2>1
<1>7. Len(items) # 1
  <2>. SUFFICES ASSUME Len(items) = 1 PROVE FALSE
    OBVIOUS
  <2>1. PICK a : a = items[1].key
    OBVIOUS
  <2>2. \A i \in 1..1 : i = 1
    OBVIOUS
  <2>3. \A x : x \in held <=> x = a
    BY <1>5, <2>1, <2>2
  <2>4. held = {a}
    BY <2>3
  <2>5. Cardinality(held) = 1
    BY <2>4, FS_Singleton
  <2>. QED
    BY <2>5 DEF Resting, Tells
<1>. QED
  <2>1. PICK z \in Nat : z = Len(items)
    BY <1>4
  <2>2. z # 0 /\ z # 1
    BY <2>1, <1>6, <1>7
  <2>3. z >= 2
    BY <2>2
  <2>. QED
    BY <2>1, <2>3, <1>3

\* A leaf that is left as it is after erase has a proper number of keys.
LEMMA LeftProper ==
    ASSUME KeysAssumption, CapacityAssumption, NEW t, Resting(t), NEW k \in Keys, NEW d, IsWay(t, k, d), k \in held,
           NEW leaf, leaf = WithoutItem(pages[Last(d)], k), meta.size # 1
    PROVE  /\ Len(d) = 1 \/ KeyCount(leaf) >= MinKeys(leaf) => Proper(leaf)
           /\ ~(Len(d) = 1 \/ KeyCount(leaf) >= MinKeys(leaf)) =>
                  Len(d) # 1 /\ Len(leaf.items) < LeastOf(meta.kind, TRUE)
<1>1. leaf.leaf = TRUE /\ Len(leaf.items) = Len(pages[Last(d)].items) - 1
  BY LeafWithout, ZenonT(30)
<1>2. /\ 1 <= Len(pages[Last(d)].items) /\ Len(pages[Last(d)].items) <= MaxOf(meta.kind, TRUE)
      /\ MaxOf(meta.kind, TRUE) \in Nat /\ MaxOf(meta.kind, TRUE) >= 2
  BY OldLeafSize
<1>3. Len(pages[Last(d)].items) \in Nat
  BY OldLeaf
<1>4. PICK z \in Nat, h \in Nat : z = Len(pages[Last(d)].items) /\ h = MaxOf(meta.kind, TRUE)
  BY <1>2, <1>3
<1>5. 1 <= z /\ z <= h /\ h >= 2
  BY <1>2, <1>4
<1>6. KeyCount(leaf) = z - 1 /\ Len(leaf.items) = z - 1
  BY <1>1, <1>4 DEF KeyCount
<1>7. MaxKeys(leaf) = h /\ MinKeys(leaf) = (2 * h + 2) \div 3 /\ LeastOf(meta.kind, TRUE) = (2 * h + 2) \div 3
  BY <1>1, <1>4 DEF MaxKeys, MinKeys, LeastOf, MaxOf
<1>8. PICK w : w = (2 * h + 2) \div 3
  OBVIOUS
<1>9. w \in Nat /\ w >= 2
  BY <1>5, <1>8
<1>10. Len(d) = 1 => z >= 2
  BY <1>4, RootLeafKeeps
<1>11. Len(d) = 1 \/ KeyCount(leaf) >= MinKeys(leaf) => Proper(leaf)
  <2>. SUFFICES ASSUME Len(d) = 1 \/ KeyCount(leaf) >= MinKeys(leaf) PROVE Proper(leaf)
    OBVIOUS
  <2>1. z >= 2 \/ z - 1 >= w
    BY <1>6, <1>7, <1>8, <1>10
  <2>2. 1 <= z - 1 /\ z - 1 <= h
    BY <2>1, <1>5, <1>9
  <2>. QED
    BY <2>2, <1>6, <1>7 DEF Proper
<1>12. ~(Len(d) = 1 \/ KeyCount(leaf) >= MinKeys(leaf)) => Len(d) # 1 /\ Len(leaf.items) < LeastOf(meta.kind, TRUE)
  <2>. SUFFICES ASSUME ~(Len(d) = 1 \/ KeyCount(leaf) >= MinKeys(leaf))
                PROVE  Len(d) # 1 /\ Len(leaf.items) < LeastOf(meta.kind, TRUE)
    OBVIOUS
  <2>1. ~(z - 1 >= w)
    BY <1>6, <1>7, <1>8
  <2>2. z - 1 < w
    BY <2>1, <1>9
  <2>. QED
    BY <2>2, <1>6, <1>7, <1>8
<1>. QED
  BY <1>11, <1>12

\* After propagate_subtree_min_change for the way to page p.
LEMMA RestsAbove ==
    ASSUME KeysAssumption, CapacityAssumption, NEW m, NEW hd, NEW npg, NEW nt, NEW path, NEW p,
           Holds(m.kind, npg, m.root, nt, None, nt.first[p]), IsFile(npg), InFile(npg, nt), Tells(m, hd, nt),
           IsRoute(npg, nt, path, m.root, p), NEW above, above = Propagated(npg, path)
    PROVE  Overwrites(npg, above) /\ Rests(Written(npg, above), m, hd)
<1>1. PICK out : out = Written(npg, Propagated(npg, path))
  OBVIOUS
<1>2. /\ Holds(m.kind, out, m.root, nt, None, None) /\ DOMAIN out = DOMAIN npg
      /\ Rewrites(nt, Propagated(npg, path))
  BY <1>1, PropagatedHolds
<1>3. nt.nodes \subseteq DOMAIN npg
  <2>1. Tree(npg, m.root, nt)
    BY HoldsFacts
  <2>. QED
    BY <2>1 DEF Tree
<1>4. Overwrites(npg, above)
  BY <1>2, <1>3, RewritesOverwrite
<1>5. out = Written(npg, above)
  BY <1>1
<1>6. PICK z \in Nat : z = Len(npg) /\ DOMAIN npg = 1..z
  BY FileFacts
<1>7. Len(out) = z
  <2>1. DOMAIN Written(npg, above) = 1..z
    BY <1>2, <1>5, <1>6
  <2>2. Len(Written(npg, above)) = z
    BY <2>1, WrittenLen
  <2>. QED
    BY <2>2, <1>5
<1>8. InFile(out, nt)
  BY <1>6, <1>7 DEF InFile
<1>9. Rests(out, m, hd)
  BY <1>2, <1>8, RestsIf
<1>. QED
  BY <1>4, <1>5, <1>9

\* The leaf has keys enough, and is not the first of any page, or its least key is as before.
LEMMA EraseReturns ==
    ASSUME KeysAssumption, CapacityAssumption, NEW t, Resting(t), NEW k \in Keys, NEW d, IsWay(t, k, d), k \in held,
           NEW leaf, leaf = WithoutItem(pages[Last(d)], k), Proper(leaf), NEW m, Resized(m, held \ {k}),
           NEW above, above = IF pages[Last(d)].items[1].key = k
                              THEN Propagated(Written(pages, <<Write(leaf)>>), d) ELSE <<>>,
           Do(k, <<>>, <<Write(leaf)>> \o above, m, Idle), held' = held \ {k}
    PROVE  Keeps
<1>1. Typed /\ held \subseteq Keys /\ IsFiniteSet(held \ {k})
  <2>1. Typed
    BY DEF Resting
  <2>2. IsFiniteSet(held \ {k})
    BY FewerKeys
  <2>. QED
    BY <2>1, <2>2 DEF Typed
<1>2. leaf \in AnyNode /\ leaf.id = Last(d) /\ leaf.leaf = TRUE
  BY LeafWithout
<1>3. PICK one : one = <<Write(leaf)>>
  OBVIOUS
<1>4. PICK npg : npg = Written(pages, <<Write(leaf)>>)
  OBVIOUS
<1>5. IsNewLeaf(d, leaf, npg) /\ Overwrites(pages, one) /\ IsFile(npg)
  BY <1>2, <1>3, <1>4, NewLeafPut
<1>6. PICK hd : hd = held \ {k}
  OBVIOUS
<1>7. m.kind = meta.kind /\ m.root = meta.root /\ m \in MetaType(DOMAIN pages)
  BY DEF Resized
<1>8. t.first[Last(d)] = Last(d)
  BY OldLeaf
<1>9. Overwrites(npg, above) /\ Rests(Written(npg, above), m, hd) /\ Sound(Good(npg), above)
  <2>1. CASE pages[Last(d)].items[1].key = k
    <3>1. PICK g : g = Last(d)
      OBVIOUS
    <3>2. \E nt : IsRekeyed(t, m, held \ {k}, npg, nt, None, g)
      BY <1>5, <3>1, RemovedHolds
    <3>3. PICK nt : IsRekeyed(t, m, hd, npg, nt, None, g)
      BY <1>6, <3>2
    <3>4. IsRoute(npg, nt, d, meta.root, Last(d))
      BY <1>5, <3>3, SameWay
    <3>5. Holds(meta.kind, npg, meta.root, nt, None, g) /\ InFile(npg, nt) /\ Tells(m, hd, nt) /\ nt.first = t.first
      BY <3>3 DEF IsRekeyed
    <3>6. PICK p : p = Last(d)
      OBVIOUS
    <3>7. Holds(m.kind, npg, m.root, nt, None, nt.first[p]) /\ IsRoute(npg, nt, d, m.root, p)
      BY <1>7, <1>8, <3>1, <3>4, <3>5, <3>6
    <3>8. above = Propagated(npg, d)
      BY <1>4, <2>1
    <3>9. nt.nodes \subseteq Good(npg)
      BY <3>5, RestGood
    <3>. HIDE <1>3, <1>4, <1>6, <3>1, <3>6
    <3>10. Sound(Good(npg), above)
      BY <1>5, <3>5, <3>7, <3>8, <3>9, PropagatedSound
    <3>. QED
      BY <1>5, <3>5, <3>7, <3>8, <3>10, RestsAbove
  <2>2. CASE pages[Last(d)].items[1].key # k
    <3>1. above = <<>>
      BY <2>2
    <3>2. \E nt : IsRekeyed(t, m, held \ {k}, npg, nt, None, None)
      BY <1>5, <2>2, RemovedHolds
    <3>3. PICK nt : IsRekeyed(t, m, hd, npg, nt, None, None)
      BY <1>6, <3>2
    <3>4. Holds(m.kind, npg, m.root, nt, None, None) /\ InFile(npg, nt) /\ Tells(m, hd, nt)
      BY <1>7, <3>3 DEF IsRekeyed
    <3>5. Rests(npg, m, hd)
      BY <3>4, RestsIf
    <3>6. Written(npg, above) = npg
      BY <1>5, <3>1, WrittenNone
    <3>7. Overwrites(npg, above)
      <4>1. PICK e : e = <<>>
        OBVIOUS
      <4>2. e \in Seq(AnyWrite) /\ Len(e) = 0
        BY <4>1
      <4>3. Overwrites(npg, e)
        BY <4>2 DEF Overwrites
      <4>. QED
        BY <3>1, <4>1, <4>3
    <3>8. Sound(Good(npg), above)
      BY <3>1, NoneSound
    <3>. QED
      BY <3>5, <3>6, <3>7, <3>8
  <2>. QED
    BY <2>1, <2>2
<1>10. Overwrites(pages, above)
  <2>1. DOMAIN npg = DOMAIN pages
    <3>1. Last(d) \in DOMAIN pages
      BY OldLeaf
    <3>. QED
      BY <1>5, <3>1 DEF IsNewLeaf, IsPut
  <2>2. DOMAIN npg \subseteq DOMAIN pages
    BY <2>1
  <2>. HIDE <1>3, <1>4, <1>6
  <2>. QED
    BY <1>9, <2>2, OverwritesGrow
<1>11. PICK ws : ws = <<Write(leaf)>> \o above
  OBVIOUS
<1>12. Overwrites(pages, ws)
  <2>1. Overwrites(pages, one \o above)
    BY <1>5, <1>10, OverwritesJoin
  <2>. QED
    BY <2>1, <1>3, <1>11
<1>13. Written(pages, ws) = Written(npg, above)
  <2>1. one \in Seq(AnyWrite) /\ above \in Seq(AnyWrite)
    BY <1>5, <1>10 DEF Overwrites
  <2>2. PICK rest : rest = above
    OBVIOUS
  <2>3. Written(pages, one \o rest) = Written(Written(pages, one), rest)
    <3>1. one \in Seq(AnyWrite) /\ rest \in Seq(AnyWrite)
      BY <2>1, <2>2
    <3>. HIDE <1>3, <1>4, <1>6, <1>11, <2>2
    <3>. QED
      BY <3>1, WrittenConcat
  <2>4. Written(pages, one \o above) = Written(Written(pages, one), above)
    BY <2>2, <2>3
  <2>. QED
    BY <2>4, <1>3, <1>4, <1>11
<1>14. Rests(Written(pages, ws), m, hd)
  BY <1>9, <1>13
<1>15. Do(k, <<>>, ws, m, Idle) /\ hd = held' /\ hd \subseteq Keys /\ IsFiniteSet(hd)
  BY <1>1, <1>6, <1>11
<1>16. Sound(Good(pages), ws)
  <2>1. Below(leaf, Good(pages))
    BY <1>2 DEF Below
  <2>2. Sound(Good(pages), one)
    BY <2>1, <1>3, OneSound
  <2>3. one \in Seq(AnyWrite) /\ above \in Seq(AnyWrite) /\ npg = Written(pages, one)
    BY <1>3, <1>4, <1>5, <1>10 DEF Overwrites
  <2>4. PICK rest : rest = above
    OBVIOUS
  <2>5. Sound(Good(Written(pages, one)), rest) /\ rest \in Seq(AnyWrite)
    BY <2>3, <2>4, <1>9
  <2>6. Sound(Good(pages), one \o rest)
    <3>. HIDE <1>3, <1>4, <1>6, <1>11, <2>4
    <3>. QED
      BY <2>2, <2>3, <2>5, SoundThen
  <2>. QED
    BY <2>4, <2>6, <1>3, <1>11
<1>. QED
  <2>. HIDE <1>3, <1>4, <1>6, <1>11
  <2>. QED
    BY <1>1, <1>7, <1>12, <1>14, <1>15, <1>16, ReturnKeeps

\* The leaf has too few keys now.
IsShort(d, leaf) == Len(d) # 1 /\ Len(leaf.items) < LeastOf(meta.kind, TRUE)

\* erase goes on to fix_leaf_underflow.
LEMMA EraseUnderflows ==
    ASSUME KeysAssumption, CapacityAssumption, NEW t, Resting(t), NEW k \in Keys, NEW d, IsWay(t, k, d), k \in held,
           NEW leaf, leaf = WithoutItem(pages[Last(d)], k),
           IsShort(d, leaf), NEW m, Resized(m, held \ {k}),
           Do(k, <<>>, <<>>, m, Call("underflow", leaf, d)), held' = held \ {k}
    PROVE  Keeps
<1>1. Typed /\ held \subseteq Keys /\ IsFiniteSet(held \ {k})
  <2>1. Typed
    BY DEF Resting
  <2>2. IsFiniteSet(held \ {k})
    BY FewerKeys
  <2>. QED
    BY <2>1, <2>2 DEF Typed
<1>2. leaf \in AnyNode /\ leaf.id = Last(d) /\ leaf.leaf = TRUE
  BY LeafWithout
<1>3. Last(d) \in DOMAIN pages /\ Last(d) \in Nat /\ t.first[Last(d)] = Last(d)
  BY OldLeaf
<1>4. PICK npg : npg = With(pages, leaf)
  OBVIOUS
<1>5. IsNewLeaf(d, leaf, npg)
  BY <1>2, <1>4, NewLeafPut
<1>6. PICK hd, n : hd = held \ {k} /\ n = Last(d)
  OBVIOUS
<1>7. Last(d) # None
  BY <1>3 DEF CapacityAssumption
<1>8. PICK nt : IsRekeyed(t, m, hd, npg, nt, n, n)
  <2>1. \E nt : IsRekeyed(t, m, held \ {k}, npg, nt, n, n)
    BY <1>5, <1>6, <1>7, RemovedHolds
  <2>. QED
    BY <1>6, <2>1
<1>9. IsRoute(npg, nt, d, meta.root, n)
  <2>1. IsRoute(npg, nt, d, meta.root, Last(d))
    BY <1>5, <1>8, SameWay
  <2>. QED
    BY <2>1, <1>6
<1>10. nt.first[n] = n
  BY <1>3, <1>6, <1>8 DEF IsRekeyed
<1>11. Due("underflow", meta.kind, npg, nt, n, d, n)
  <2>1. npg[n] = leaf
    BY <1>5, <1>6 DEF IsNewLeaf, IsPut
  <2>2. Count(npg, n) = Len(leaf.items)
    BY <1>2, <2>1 DEF Count, Size
  <2>3. LeastOf(meta.kind, npg[n].leaf) = LeastOf(meta.kind, TRUE)
    BY <1>2, <2>1
  <2>4. Count(npg, n) < LeastOf(meta.kind, npg[n].leaf)
    BY <2>2, <2>3 DEF IsShort
  <2>. QED
    BY <2>4, <1>10 DEF Due, IsShort
<1>12. PICK fn, c : fn = "underflow" /\ c = Call(fn, leaf, d)
  OBVIOUS
<1>13. c.fn = fn /\ c.node = leaf /\ c.path = d /\ c.node.id = n
  BY <1>2, <1>6, <1>12 DEF Call
<1>14. m.kind = meta.kind /\ m.root = meta.root /\ m \in MetaType(DOMAIN pages)
  BY DEF Resized
<1>15. Holds(meta.kind, npg, meta.root, nt, n, n) /\ InFile(npg, nt) /\ Tells(m, hd, nt)
  BY <1>8 DEF IsRekeyed
<1>16. Due(c.fn, m.kind, npg, nt, c.node.id, c.path, n)
  BY <1>11, <1>12, <1>13, <1>14
<1>17. WorksOn(npg, m, hd, c, nt, n)
  BY <1>9, <1>13, <1>14, <1>15, <1>16 DEF WorksOn
<1>18. /\ fn \in {"split", "underflow", "child_removed"}
       /\ leaf.id \in DOMAIN pages /\ hd = held' /\ hd \subseteq Keys /\ IsFiniteSet(hd)
       /\ Do(k, <<>>, <<>>, m, Call(fn, leaf, d)) /\ WorksOn(With(pages, leaf), m, hd, Call(fn, leaf, d), nt, n)
  BY <1>1, <1>2, <1>3, <1>4, <1>6, <1>12, <1>17
<1>19. leaf.id \in Good(pages)
  BY <1>2, <1>3 DEF IsWay, Good
<1>. QED
  <2>. HIDE <1>4, <1>6, <1>12
  <2>. QED
    BY <1>1, <1>2, <1>14, <1>18, <1>19, GoOnKeeps

\* erase keeps the invariant, up to the first underflow.
LEMMA EraseKeeps ==
    ASSUME KeysAssumption, CapacityAssumption, IInv, NEW k \in Keys, Erase(k)
    PROVE  Keeps
<1>1. call = Idle /\ Find(k) # {} /\ meta.size # 1 /\ held' = held \ {k}
  BY DEF Erase
<1>2. ~IsEmpty
  BY <1>1 DEF Find
<1>3. PICK t : Resting(t)
  BY <1>1, <1>2, RestFacts
<1>4. k \in held
  <2>1. Find(k) = IF k \in held THEN {Record[k]} ELSE {}
    BY <1>3, FindHeld
  <2>. QED
    BY <2>1, <1>1
<1>5. PICK d : d = Path(k)
  OBVIOUS
<1>6. IsWay(t, k, d)
  BY <1>3, <1>5, WayOfKey
<1>7. PICK leaf, m : leaf = WithoutItem(pages[Last(d)], k) /\ m = [meta EXCEPT !.size = @ - 1]
  OBVIOUS
<1>8. PICK above : above = IF pages[Last(d)].items[1].key = k
                           THEN Propagated(Written(pages, <<Write(leaf)>>), d) ELSE <<>>
  OBVIOUS
<1>9. Resized(m, held \ {k})
  BY <1>3, <1>4, <1>7, FewerKeys
<1>10. \/ (Len(d) = 1 \/ KeyCount(leaf) >= MinKeys(leaf)) /\ Do(k, <<>>, <<Write(leaf)>> \o above, m, Idle)
       \/ ~(Len(d) = 1 \/ KeyCount(leaf) >= MinKeys(leaf)) /\ Do(k, <<>>, <<>>, m, Call("underflow", leaf, d))
  BY <1>5, <1>7, <1>8 DEF Erase
<1>11. /\ Len(d) = 1 \/ KeyCount(leaf) >= MinKeys(leaf) => Proper(leaf)
       /\ ~(Len(d) = 1 \/ KeyCount(leaf) >= MinKeys(leaf)) =>
              Len(d) # 1 /\ Len(leaf.items) < LeastOf(meta.kind, TRUE)
  BY <1>1, <1>3, <1>4, <1>6, <1>7, LeftProper
<1>12. CASE (Len(d) = 1 \/ KeyCount(leaf) >= MinKeys(leaf)) /\ Do(k, <<>>, <<Write(leaf)>> \o above, m, Idle)
  <2>1. Proper(leaf)
    BY <1>11, <1>12
  <2>. QED
    BY <2>1, <1>1, <1>3, <1>4, <1>6, <1>7, <1>8, <1>9, <1>12, EraseReturns
<1>13. CASE ~(Len(d) = 1 \/ KeyCount(leaf) >= MinKeys(leaf)) /\ Do(k, <<>>, <<>>, m, Call("underflow", leaf, d))
  <2>1. IsShort(d, leaf)
    BY <1>11, <1>13 DEF IsShort
  <2>. QED
    BY <2>1, <1>1, <1>3, <1>4, <1>6, <1>7, <1>9, <1>13, EraseUnderflows
<1>. QED
  BY <1>10, <1>12, <1>13

-----------------------------------------------------------------------------
(* A node has lost a child.                                                 *)

\* Its separators are computed anew.
IsReckoned(node) == call.fn = "child_removed" /\ node = Rebuilt(pages, call.node, call.node.items)

\* Page n, in memory, waits unless it is written.
MayWait(q, n, node) == q \in {None, n} /\ (q = None => Proper(node))

\* The tree is as it was, but for what node n waits for.
IsKeptBy(node, n, t, f, npg, q) ==
    /\ Holds(meta.kind, npg, meta.root, t, q, f) /\ f = t.first[n]
    /\ IsRoute(npg, t, call.path, meta.root, n)
    /\ node \in AnyNode /\ node.id = n /\ node.leaf = FALSE /\ node.items = call.node.items

\* The tree with that node written, or in memory.
LEMMA ChildNode ==
    ASSUME KeysAssumption, CapacityAssumption, NEW mem, NEW n, NEW t, NEW f, Mid(mem, n, t, f),
           NEW node, IsReckoned(node), NEW npg, IsPut(pages, n, node, npg), NEW q, MayWait(q, n, node)
    PROVE  IsKeptBy(node, n, t, f, npg, q)
<1>1. /\ Typed /\ n = call.node.id /\ n \in DOMAIN pages /\ mem[n] = call.node
      /\ \A p \in DOMAIN pages \ {n} : mem[p] = pages[p]
      /\ IsFile(mem) /\ DOMAIN mem = DOMAIN pages /\ Len(mem) = Len(pages)
      /\ Holds(meta.kind, mem, meta.root, t, n, f) /\ InFile(mem, t)
      /\ IsRoute(mem, t, call.path, meta.root, n)
      /\ Due(call.fn, meta.kind, mem, t, n, call.path, f)
  BY DEF Mid
<1>2. f = t.first[n] /\ ~mem[n].leaf
  BY <1>1 DEF Due, IsReckoned
<1>3. Tree(mem, meta.root, t) /\ \A p \in t.nodes : NodeOK(mem, t, p)
  BY <1>1, HoldsFacts
<1>4. t.nodes \subseteq DOMAIN pages /\ \A p \in t.nodes : t.level[p] \in Nat
  BY <1>1, <1>3 DEF Tree, NodeOK
<1>5. n \in t.nodes
  BY <1>1, RouteFacts
<1>6. IsNode(call.node)
  BY <1>1, FileFacts
<1>7. PICK old : old = call.node
  OBVIOUS
<1>8. /\ IsMade(old, old.id, old.leaf, old.items, old.next) /\ old.leaf \in BOOLEAN
      /\ old.id \in Nat \cup {None} /\ old.next \in Nat \cup {None} /\ ItemsOK(old.leaf, old.items)
  BY <1>6, <1>7, NodeIsMade
<1>9. PICK items : items = old.items
  OBVIOUS
<1>10. node = Rebuilt(pages, old, items)
  BY <1>7, <1>9 DEF IsReckoned
<1>11. IsMade(node, old.id, old.leaf, items, old.next) /\ IsRebuilt(pages, node)
  BY <1>8, <1>10, RebuiltMade
<1>12. old.leaf = FALSE
  BY <1>1, <1>2, <1>7, <1>8
<1>13. node.id = n /\ node.leaf = old.leaf /\ node.items = old.items
  BY <1>1, <1>7, <1>9, <1>11 DEF IsMade
<1>14. DOMAIN npg = DOMAIN pages /\ npg[n] = node /\ \A p \in DOMAIN pages \ {n} : npg[p] = pages[p]
  BY <1>1 DEF IsPut
<1>15. \A p \in t.nodes \ {n} : npg[p] = mem[p]
  BY <1>1, <1>4, <1>14
<1>16. Sees(pages, mem, t, {n})
  <2>1. IsFile(pages)
    BY <1>1 DEF Typed
  <2>2. Len(pages) \in Nat
    BY <2>1, FileFacts
  <2>. QED
    BY <2>2, <1>1, <1>4 DEF Sees, InFile
<1>17. NodeRewritten(mem, t, n, npg, pages)
  BY <1>1, <1>4, <1>7, <1>11, <1>13, <1>14, <1>15, <1>16 DEF NodeRewritten
<1>18. q \in {None, n} /\ (q = None => Sized(meta.kind, npg, n))
  <2>1. q \in {None, n} /\ (q = None => Proper(node))
    BY DEF MayWait
  <2>. QED
    BY <2>1, <1>14, ProperIsSized
<1>19. Holds(meta.kind, npg, meta.root, t, q, f)
  BY <1>1, <1>2, <1>5, <1>17, <1>18, NodeIsRebuilt
<1>20. IsRoute(npg, t, call.path, meta.root, n)
  <2>1. \A p \in t.nodes : t.level[p] > t.level[n] => p # n
    BY <1>4, <1>5
  <2>2. PICK nt, path, root : nt = t /\ path = call.path /\ root = meta.root
    OBVIOUS
  <2>3. \A p \in t.nodes : t.level[p] > t.level[n] =>
            p \in nt.nodes /\ npg[p].leaf = mem[p].leaf /\ npg[p].items = mem[p].items
    BY <2>1, <2>2, <1>15
  <2>4. Tree(mem, root, t) /\ IsRoute(mem, t, path, root, n) /\ n \in nt.nodes
    BY <2>2, <1>1, <1>3, <1>5
  <2>5. IsRoute(npg, nt, path, root, n)
    <3>. HIDE <1>7, <1>9, <2>2
    <3>. QED
      BY <2>3, <2>4, RouteMoves
  <2>. QED
    BY <2>2, <2>5
<1>21. node.keys \in Seq(Keys)
  <2>1. n # None
    BY <1>3, <1>5 DEF Tree
  <2>2. Holds(meta.kind, npg, meta.root, t, n, f)
    BY <1>1, <1>2, <1>5, <1>17, <2>1, NodeIsRebuilt
  <2>3. ~npg[n].leaf /\ IsRebuilt(pages, npg[n])
    BY <1>11, <1>12, <1>13, <1>14
  <2>4. Agrees(npg, t, pages, t.level[n] - 1)
    <3>1. \A p \in t.nodes : t.level[p] <= t.level[n] - 1 => p # n
      BY <1>4, <1>5
    <3>2. Len(pages) \in Nat /\ \A p \in t.nodes : t.level[p] <= Len(pages)
      BY <1>16 DEF Sees
    <3>3. \A p \in t.nodes \ {n} : pages[p] = npg[p]
      BY <1>4, <1>14
    <3>. QED
      BY <3>1, <3>2, <3>3, <1>4 DEF Agrees
  <2>5. npg[n].keys \in Seq(Keys)
    BY <2>2, <2>3, <2>4, <1>5, RebuiltTyped
  <2>. QED
    BY <2>5, <1>14
<1>22. node \in AnyNode
  BY <1>8, <1>9, <1>11, <1>21, MadeIsNode
<1>. QED
  BY <1>2, <1>7, <1>12, <1>13, <1>19, <1>20, <1>22 DEF IsKeptBy

\* The node is written, and the separator above it put right.
LEMMA ChildFinishes ==
    ASSUME KeysAssumption, CapacityAssumption, NEW mem, NEW n, NEW t, NEW f, Mid(mem, n, t, f),
           NEW node, IsReckoned(node), Proper(node),
           Finish(<<>>, <<Write(node)>> \o Propagated(Written(pages, <<Write(node)>>), call.path))
    PROVE  Keeps
<1>1. /\ Typed /\ n \in DOMAIN pages /\ Tells(meta, held, t) /\ IsFile(pages) /\ InFile(mem, t)
      /\ Len(mem) = Len(pages) /\ n = call.node.id
  BY DEF Mid, Typed
<1>2. PICK put : put = With(pages, node)
  OBVIOUS
<1>3. node.id = n
  <2>1. node.id = call.node.id
    BY DEF Rebuilt, IsReckoned
  <2>. QED
    BY <1>1, <2>1
<1>4. Write(node) = <<n, node>>
  BY <1>3 DEF Write
<1>5. PICK one : one = <<<<n, node>>>>
  OBVIOUS
<1>6. PICK npg : npg = Written(pages, one)
  OBVIOUS
<1>7. IsPut(pages, n, node, npg)
  BY <1>5, <1>6, PutOne
<1>8. /\ Holds(meta.kind, npg, meta.root, t, None, f) /\ f = t.first[n]
      /\ IsRoute(npg, t, call.path, meta.root, n) /\ node \in AnyNode
  <2>1. \E q : q = None
    OBVIOUS
  <2>2. PICK q : q = None
    BY <2>1
  <2>3. MayWait(q, n, node)
    BY <2>2 DEF MayWait
  <2>4. IsKeptBy(node, n, t, f, npg, q)
    <3>1. IsPut(pages, n, node, npg) /\ IsReckoned(node) /\ Mid(mem, n, t, f)
      BY <1>7
    <3>. HIDE <1>2, <1>5, <1>6, <2>2
    <3>. QED
      BY <3>1, <2>3, ChildNode
  <2>. QED
    BY <2>2, <2>4 DEF IsKeptBy
<1>9. Overwrites(pages, one)
  BY <1>1, <1>3, <1>5, <1>8, OverwriteOne
<1>10. IsFile(npg)
  <2>1. Orderly(Len(pages), one)
    BY <1>1, <1>9, OverwritesAreOrderly
  <2>. QED
    BY <2>1, <1>1, <1>6, OrderlyFile
<1>11. DOMAIN npg = DOMAIN pages
  BY <1>1, <1>7 DEF IsPut
<1>12. InFile(npg, t)
  <2>1. PICK z \in Nat : z = Len(pages) /\ DOMAIN pages = 1..z
    BY <1>1, FileFacts
  <2>2. DOMAIN Written(pages, one) = 1..z
    BY <2>1, <1>6, <1>11
  <2>3. Len(npg) = z
    BY <2>2, <1>6, WrittenLen
  <2>. QED
    BY <2>1, <2>3, <1>1 DEF InFile
<1>13. PICK above : above = Propagated(npg, call.path)
  OBVIOUS
<1>14. Overwrites(npg, above) /\ Rests(Written(npg, above), meta, held)
  <2>1. Holds(meta.kind, npg, meta.root, t, None, t.first[n])
    BY <1>8
  <2>. HIDE <1>2, <1>5, <1>6
  <2>. QED
    BY <2>1, <1>1, <1>8, <1>10, <1>12, <1>13, RestsAbove
<1>15. Overwrites(pages, above)
  BY <1>11, <1>14, OverwritesGrow
<1>16. PICK ws : ws = one \o above
  OBVIOUS
<1>17. Overwrites(pages, ws)
  BY <1>9, <1>15, <1>16, OverwritesJoin
<1>18. Written(pages, ws) = Written(npg, above)
  <2>1. one \in Seq(AnyWrite) /\ above \in Seq(AnyWrite)
    BY <1>9, <1>15 DEF Overwrites
  <2>2. Written(pages, one \o above) = Written(Written(pages, one), above)
    <3>. HIDE <1>2, <1>5, <1>6, <1>13, <1>16
    <3>. QED
      BY <2>1, WrittenConcat
  <2>. QED
    BY <2>2, <1>6, <1>16
<1>19. PICK low : low = <<>>
  OBVIOUS
<1>20. low \o ws = ws /\ low \in Seq(AnyWrite)
  <2>1. ws \in Seq(AnyWrite)
    BY <1>17 DEF Overwrites
  <2>. QED
    BY <2>1, <1>19, NoneBefore
<1>21. Finish(low, ws)
  BY <1>4, <1>5, <1>6, <1>13, <1>16, <1>19
<1>22. Orderly(Len(pages), low \o ws)
  BY <1>1, <1>17, <1>20, OverwritesAreOrderly
<1>23. Rests(Written(pages, low \o ws), meta, held)
  BY <1>14, <1>18, <1>20
<1>24. ASSUME FInv PROVE Sound(Good(pages), low \o ws)
  <2>1. t.nodes \subseteq Good(pages)
    BY <1>24, TreeGood
  <2>2. n \in t.nodes /\ NodeOK(npg, t, n) /\ npg[n] = node
    BY <1>1, <1>7, <1>8, HoldsFacts, RouteFacts DEF IsPut
  <2>3. Below(node, Good(pages))
    BY <2>1, <2>2, BelowInTree DEF Below
  <2>4. Sound(Good(pages), one)
    BY <2>3, <1>4, <1>5, OneSound
  <2>5. t.nodes \subseteq Good(npg)
    BY <1>8, RestGood
  <2>6. Sound(Good(npg), above)
    <3>1. Holds(meta.kind, npg, meta.root, t, None, t.first[n])
      BY <1>8
    <3>. HIDE <1>2, <1>5, <1>6
    <3>. QED
      BY <3>1, <2>5, <1>8, <1>10, <1>12, <1>13, PropagatedSound
  <2>7. one \in Seq(AnyWrite) /\ above \in Seq(AnyWrite)
    BY <1>9, <1>15 DEF Overwrites
  <2>8. Sound(Good(Written(pages, one)), above)
    BY <2>6, <1>6
  <2>9. Sound(Good(pages), one \o above)
    <3>. HIDE <1>2, <1>5, <1>6, <1>13, <1>16, <1>19
    <3>. QED
      BY <2>4, <2>7, <2>8, SoundThen
  <2>. QED
    BY <2>9, <1>16, <1>20
<1>. QED
  <2>. HIDE <1>2, <1>5, <1>6, <1>13, <1>16, <1>19
  <2>. QED
    BY <1>1, <1>20, <1>21, <1>22, <1>23, <1>24, FinishKeeps

\* The node has keys enough, or waits to be given some.
LEMMA ChildSizes ==
    ASSUME KeysAssumption, CapacityAssumption, NEW mem, NEW n, NEW t, NEW f, Mid(mem, n, t, f),
           NEW node, IsReckoned(node)
    PROVE  /\ node \in AnyNode /\ node.id = n /\ node.leaf = FALSE
           /\ IsKeptBy(node, n, t, f, With(pages, node), n)
           /\ KeyCount(node) < MinKeys(node) => Len(node.items) - 1 < LeastOf(meta.kind, FALSE)
           /\ ~(IsRoot /\ Len(node.items) = 1) /\ ~(~IsRoot /\ KeyCount(node) < MinKeys(node)) => Proper(node)
<1>1. /\ Typed /\ n \in DOMAIN pages /\ n = call.node.id /\ IsFile(pages)
  BY DEF Mid, Typed
<1>2. node.id = n
  BY <1>1 DEF Rebuilt, IsReckoned
<1>3. IsPut(pages, n, node, With(pages, node))
  <2>1. pages = [p \in DOMAIN pages |-> pages[p]]
    BY <1>1, FileFacts
  <2>2. With(pages, node) = [pages EXCEPT ![n] = node]
    BY <1>2 DEF With
  <2>. QED
    BY <1>1, <2>1, <2>2, ZenonT(60) DEF IsPut
<1>4. MayWait(n, n, node)
  <2>1. n # None
    <3>1. n \in Nat
      BY <1>1, FileFacts
    <3>. QED
      BY <3>1 DEF CapacityAssumption
  <2>. QED
    BY <2>1 DEF MayWait
<1>5. IsKeptBy(node, n, t, f, With(pages, node), n)
  BY <1>3, <1>4, ChildNode
<1>6. node \in AnyNode /\ node.leaf = FALSE /\ node.items = call.node.items
  BY <1>5 DEF IsKeptBy
<1>7. /\ call.node.leaf = FALSE /\ Len(call.node.items) \in Nat /\ Len(call.node.items) >= 1
      /\ KeyCount(call.node) <= MaxKeys(call.node)
  <2>1. /\ call.node.leaf \in BOOLEAN /\ Len(call.node.items) \in Nat
        /\ ~call.node.leaf => Len(call.node.items) >= 1
        /\ call.fn = "child_removed" => ~call.node.leaf /\ KeyCount(call.node) <= MaxKeys(call.node)
    BY CallSize
  <2>. QED
    BY <2>1 DEF IsReckoned
<1>8. PICK z \in Nat : z = Len(node.items) /\ z >= 1
  BY <1>6, <1>7
<1>9. KeyCount(node) = z - 1 /\ KeyCount(node) <= MaxKeys(node)
  BY <1>6, <1>7, <1>8 DEF KeyCount, MaxKeys
<1>10. PICK a \in Nat : a = MaxKeys(node) /\ a >= 2 /\ MinKeys(node) = LeastOf(meta.kind, FALSE)
  <2>1. node.leaf \in BOOLEAN
    BY <1>6
  <2>2. /\ MaxKeys(node) \in Nat /\ MaxKeys(node) >= 2 /\ MinKeys(node) = LeastOf(meta.kind, node.leaf)
    BY <1>1, <2>1, MaxFacts
  <2>3. MinKeys(node) = LeastOf(meta.kind, FALSE)
    BY <1>6, <2>2
  <2>. QED
    BY <2>2, <2>3
<1>11. MinKeys(node) = (2 * a + 2) \div 3
  BY <1>10 DEF MinKeys
<1>12. (2 * a + 2) \div 3 >= 2
  BY <1>10
<1>13. KeyCount(node) < MinKeys(node) => Len(node.items) - 1 < LeastOf(meta.kind, FALSE)
  BY <1>8, <1>9, <1>10
<1>14. ~(IsRoot /\ Len(node.items) = 1) /\ ~(~IsRoot /\ KeyCount(node) < MinKeys(node)) => Proper(node)
  <2>1. PICK x, y : x = KeyCount(node) /\ y = MinKeys(node) /\ x = z - 1 /\ y = (2 * a + 2) \div 3 /\ y >= 2
    BY <1>9, <1>11, <1>12
  <2>2. ~(IsRoot /\ z = 1) /\ ~(~IsRoot /\ x < y) => 1 <= x
    <3>1. z \in Nat /\ z >= 1 /\ x = z - 1 /\ x \in Int
      BY <1>8, <2>1
    <3>2. y \in Int /\ y >= 2
      BY <2>1
    <3>. QED
      BY <3>1, <3>2
  <2>3. KeyCount(node) <= MaxKeys(node)
    BY <1>9
  <2>. QED
    BY <1>8, <2>1, <2>2, <2>3 DEF Proper
<1>. QED
  BY <1>2, <1>5, <1>6, <1>13, <1>14

\* The node has too few.
LEMMA ChildUnderflows ==
    ASSUME KeysAssumption, CapacityAssumption, NEW mem, NEW n, NEW t, NEW f, Mid(mem, n, t, f),
           NEW node, IsReckoned(node), ~IsRoot, KeyCount(node) < MinKeys(node),
           Do(busy, <<>>, <<>>, meta, Call("underflow", node, call.path)), held' = held
    PROVE  Keeps
<1>1. /\ Typed /\ n \in DOMAIN pages /\ IsFile(pages) /\ held \subseteq Keys /\ IsFiniteSet(held)
      /\ busy \in Keys \cup {None} /\ meta \in MetaType(DOMAIN pages)
      /\ Tells(meta, held, t) /\ InFile(mem, t) /\ Len(mem) = Len(pages)
  BY DEF Mid, Typed
<1>2. /\ node \in AnyNode /\ node.id = n /\ node.leaf = FALSE
      /\ IsKeptBy(node, n, t, f, With(pages, node), n)
      /\ Len(node.items) - 1 < LeastOf(meta.kind, FALSE)
  BY ChildSizes
<1>3. PICK npg : npg = With(pages, node)
  OBVIOUS
<1>4. Len(npg) = Len(pages) /\ npg[n] = node
  BY <1>1, <1>2, <1>3, WithFacts
<1>5. /\ Holds(meta.kind, npg, meta.root, t, n, f) /\ f = t.first[n]
      /\ IsRoute(npg, t, call.path, meta.root, n)
  BY <1>2, <1>3 DEF IsKeptBy
<1>6. InFile(npg, t)
  BY <1>1, <1>4 DEF InFile
<1>7. Due("underflow", meta.kind, npg, t, n, call.path, f)
  BY <1>2, <1>4, <1>5 DEF Due, Count, Size, IsRoot
<1>8. PICK fn, c, path : fn = "underflow" /\ c = Call(fn, node, path) /\ path = call.path
  OBVIOUS
<1>9. c.fn = fn /\ c.node = node /\ c.path = path /\ c.node.id = n
  BY <1>2, <1>8 DEF Call
<1>10. WorksOn(npg, meta, held, c, t, f)
  BY <1>1, <1>5, <1>6, <1>7, <1>8, <1>9 DEF WorksOn
<1>11. PICK hd, m : hd = held /\ m = meta
  OBVIOUS
<1>12. /\ fn \in {"split", "underflow", "child_removed"}
       /\ node.id \in DOMAIN pages /\ hd = held' /\ hd \subseteq Keys /\ IsFiniteSet(hd)
       /\ m \in MetaType(DOMAIN pages)
       /\ Do(busy, <<>>, <<>>, m, Call(fn, node, path)) /\ WorksOn(With(pages, node), m, hd, Call(fn, node, path), t, f)
  BY <1>1, <1>2, <1>3, <1>8, <1>10, <1>11
<1>13. FInv => node.id \in Good(pages)
  <2>1. n \in t.nodes
    BY <1>5, RouteFacts
  <2>. QED
    BY <2>1, <1>2, TreeGood
<1>. QED
  <2>. HIDE <1>3, <1>8, <1>11
  <2>. QED
    BY <1>1, <1>2, <1>12, <1>13, GoOnKeeps

\* handle_internal_after_child_removed keeps the invariant.
LEMMA ChildRemovedKeeps ==
    ASSUME KeysAssumption, CapacityAssumption, IInv, ChildRemoved
    PROVE  Keeps
<1>1. PICK node : node = Rebuilt(pages, call.node, call.node.items)
  OBVIOUS
<1>2. /\ call.fn = "child_removed" /\ ~(IsRoot /\ Len(node.items) = 1)
      /\ \/ /\ ~IsRoot /\ KeyCount(node) < MinKeys(node) /\ held' = held
            /\ Do(busy, <<>>, <<>>, meta, Call("underflow", node, call.path))
         \/ /\ ~(~IsRoot /\ KeyCount(node) < MinKeys(node))
            /\ Finish(<<>>, <<Write(node)>> \o Propagated(Written(pages, <<Write(node)>>), call.path))
  BY <1>1 DEF ChildRemoved
<1>3. IsReckoned(node)
  BY <1>1, <1>2 DEF IsReckoned
<1>4. PICK mem, n, t, f : Mid(mem, n, t, f)
  BY <1>2, CallFacts
<1>. HIDE <1>1
<1>5. ~(IsRoot /\ Len(node.items) = 1) /\ ~(~IsRoot /\ KeyCount(node) < MinKeys(node)) => Proper(node)
  BY <1>3, <1>4, ChildSizes
<1>6. CASE /\ ~IsRoot /\ KeyCount(node) < MinKeys(node) /\ held' = held
           /\ Do(busy, <<>>, <<>>, meta, Call("underflow", node, call.path))
  BY <1>3, <1>4, <1>6, ChildUnderflows
<1>7. CASE /\ ~(~IsRoot /\ KeyCount(node) < MinKeys(node))
           /\ Finish(<<>>, <<Write(node)>> \o Propagated(Written(pages, <<Write(node)>>), call.path))
  <2>1. Proper(node)
    BY <1>2, <1>5, <1>7
  <2>. QED
    BY <1>3, <1>4, <1>7, <2>1, ChildFinishes
<1>. QED
  BY <1>2, <1>6, <1>7

-----------------------------------------------------------------------------
(* The root has one child left.                                             *)

\* A tree is the same in another file that has the same pages for it.
LEMMA HoldsElsewhere ==
    ASSUME NEW kind, NEW pg, NEW root, NEW t, NEW n, NEW f, Holds(kind, pg, root, t, n, f),
           NEW pgx, t.nodes \subseteq DOMAIN pgx, \A p \in t.nodes : pgx[p] = pg[p]
    PROVE  Holds(kind, pgx, root, t, n, f)
<1>1. Tree(pg, root, t) /\ \A p \in t.nodes : NodeOK(pg, t, p) /\ pg[p].id = p
  BY HoldsFacts
<1>2. ASSUME NEW p \in t.nodes PROVE NodeOK(pgx, t, p)
  <2>1. NodeOK(pg, t, p) /\ pgx[p] = pg[p]
    BY <1>1, <1>2
  <2>2. Size(pgx, p) = Size(pg, p) /\ \A i : Part(pgx, t, p, i) = Part(pg, t, p, i)
    BY <2>1 DEF Size, Part
  <2>. QED
    BY <2>1, <2>2 DEF NodeOK
<1>3. Tree(pgx, root, t)
  BY <1>1, <1>2 DEF Tree
<1>4. ASSUME NEW p \in t.nodes \ {n}
      PROVE  Sized(kind, pgx, p) /\ (~pgx[p].leaf => Kept(pgx, t, p, f))
  <2>1. Sized(kind, pg, p) /\ (~pg[p].leaf => Kept(pg, t, p, f)) /\ pgx[p] = pg[p]
    BY <1>4 DEF Holds
  <2>. QED
    BY <2>1 DEF Sized, Count, Size, Kept, Keyed
<1>5. n \in t.nodes /\ ~pgx[n].leaf => Size(pgx, n) >= 1
  BY DEF Holds, Size
<1>. QED
  BY <1>1, <1>3, <1>4, <1>5 DEF Holds

\* The metadata after promote_single_child_root.
IsPromoted(m, t, c) ==
    m = [meta EXCEPT !.root = c, !.height = @ - 1, !.first = t.first[c]]

\* The metadata tell the truth of what is left of the tree.
LEMMA PromotedTells ==
    ASSUME NEW mem, NEW n, NEW t, NEW f, Mid(mem, n, t, f), n = meta.root,
           NEW c, c \in t.nodes, t.level[c] = t.level[n] - 1, t.under[c] = t.under[n], t.first[c] = t.first[n],
           c # n, t.level[c] \in Nat, NEW nt, IsShrunk(t, nt, n), NEW m, IsPromoted(m, nt, c)
    PROVE  m.kind = meta.kind /\ m.root = c /\ m \in MetaType(DOMAIN pages) /\ Tells(m, held, nt)
<1>1. /\ Typed /\ Tells(meta, held, t) /\ meta \in MetaType(DOMAIN pages) /\ DOMAIN mem = DOMAIN pages
      /\ Holds(meta.kind, mem, meta.root, t, n, f)
  BY DEF Mid, Typed
<1>2. c \in DOMAIN pages
  <2>1. Tree(mem, meta.root, t)
    BY <1>1, HoldsFacts
  <2>. QED
    BY <1>1, <2>1 DEF Tree
<1>3. nt.nodes = t.nodes \ {n} /\ nt.level = t.level /\ nt.under = t.under /\ nt.first = t.first
  BY DEF IsShrunk
<1>4. /\ m.root = c /\ m.height = meta.height - 1 /\ m.first = t.first[c] /\ m.kind = meta.kind
      /\ m.size = meta.size
      /\ m = [root |-> c, first |-> t.first[c], height |-> meta.height - 1, size |-> meta.size, kind |-> meta.kind]
  BY <1>1, <1>3 DEF IsPromoted, MetaType
<1>5. /\ t.level[n] = meta.height /\ t.under[n] = held /\ t.first[n] = meta.first
      /\ meta.size = Cardinality(held)
  BY <1>1 DEF Tells
<1>6. /\ meta.first \in DOMAIN pages \cup {None} /\ meta.size \in Nat /\ meta.kind \in KeyKinds
  BY <1>1 DEF MetaType
<1>7. m \in MetaType(DOMAIN pages)
  BY <1>2, <1>4, <1>5, <1>6 DEF MetaType
<1>8. Tells(m, held, nt)
  BY <1>3, <1>4, <1>5 DEF Tells
<1>. QED
  BY <1>4, <1>7, <1>8

\* promote_single_child_root keeps the invariant.
LEMMA PromoteChildKeeps ==
    ASSUME KeysAssumption, CapacityAssumption, IInv, PromoteChild
    PROVE  Keeps
<1>1. PICK c, g : c = call.node.items[1] /\ g = LeftmostLeaf(call.node.items[1])
  OBVIOUS
<1>2. PICK m : m = [meta EXCEPT !.root = c, !.height = @ - 1, !.first = g]
  OBVIOUS
<1>3. /\ call.fn = "child_removed" /\ IsRoot /\ Len(call.node.items) = 1
      /\ Do(busy, <<>>, <<>>, m, Idle) /\ held' = held
  BY <1>1, <1>2 DEF PromoteChild
<1>4. PICK mem, n, t, f : Mid(mem, n, t, f)
  BY <1>3, CallFacts
<1>5. /\ Typed /\ n \in DOMAIN pages /\ mem[n] = call.node /\ IsFile(pages) /\ InFile(mem, t)
      /\ \A p \in DOMAIN pages \ {n} : mem[p] = pages[p]
      /\ DOMAIN mem = DOMAIN pages /\ Len(mem) = Len(pages)
      /\ Holds(meta.kind, mem, meta.root, t, n, f) /\ IsRoute(mem, t, call.path, meta.root, n)
      /\ Due(call.fn, meta.kind, mem, t, n, call.path, f)
      /\ held \subseteq Keys /\ IsFiniteSet(held) /\ busy \in Keys \cup {None}
  BY <1>4 DEF Mid, Typed
<1>6. f = t.first[n] /\ ~mem[n].leaf /\ Size(mem, n) = 1 /\ c = mem[n].items[1]
  BY <1>1, <1>3, <1>5 DEF Due, Size
<1>7. n = meta.root
  BY <1>3, <1>5, RouteFacts DEF IsRoot
<1>8. Tree(mem, meta.root, t) /\ \A p \in t.nodes : NodeOK(mem, t, p)
  BY <1>5, HoldsFacts
<1>. HIDE <1>1, <1>2
<1>9. /\ \E nt : Holds(meta.kind, mem, c, nt, None, None) /\ IsShrunk(t, nt, n)
      /\ c \in t.nodes /\ c # n /\ t.level[c] = t.level[n] - 1
      /\ t.under[c] = t.under[n] /\ t.first[c] = t.first[n]
  <2>1. Holds(meta.kind, mem, n, t, n, t.first[n])
    BY <1>5, <1>6, <1>7
  <2>2. IsOnlyChild(mem, n, c)
    BY <1>6 DEF IsOnlyChild
  <2>3. PICK kind : kind = meta.kind
    OBVIOUS
  <2>4. TakesOver(t, n, c) /\ \E nt : Holds(kind, mem, c, nt, None, None) /\ IsShrunk(t, nt, n)
    <3>1. Holds(kind, mem, n, t, n, t.first[n])
      BY <2>1, <2>3
    <3>. HIDE <2>3
    <3>. QED
      BY <2>2, <3>1, RootIsDropped
  <2>. QED
    BY <2>3, <2>4 DEF TakesOver
<1>10. PICK nt : Holds(meta.kind, mem, c, nt, None, None) /\ IsShrunk(t, nt, n)
  BY <1>9
<1>11. nt.nodes = t.nodes \ {n} /\ nt.level = t.level /\ nt.under = t.under /\ nt.first = t.first
  BY <1>10 DEF IsShrunk
<1>12. nt.nodes \subseteq DOMAIN pages /\ \A p \in nt.nodes : pages[p] = mem[p]
  BY <1>5, <1>8, <1>11 DEF Tree
<1>13. Holds(meta.kind, pages, c, nt, None, None)
  BY <1>10, <1>12, HoldsElsewhere
<1>14. InFile(pages, nt)
  BY <1>5, <1>11 DEF InFile
<1>15. g = nt.first[c]
  <2>1. /\ Tree(pages, c, nt) /\ c \in nt.nodes /\ None \notin nt.nodes
        /\ \A p \in nt.nodes : Size(pages, p) \in Nat /\ NodeOK(pages, nt, p)
        /\ \A p \in nt.nodes \ {None} : (pages[p].leaf => Size(pages, p) >= 1) /\ (~pages[p].leaf => Size(pages, p) >= 2)
    BY <1>13, HoldsFacts DEF Tree
  <2>2. \A p \in nt.nodes : nt.under[p] # {}
    BY <1>13, <2>1, UnderNotEmpty
  <2>3. \A p \in nt.nodes : Size(pages, p) >= 1
    <3>. SUFFICES ASSUME NEW p \in nt.nodes PROVE Size(pages, p) >= 1
      OBVIOUS
    <3>1. Size(pages, p) \in Nat /\ (Size(pages, p) >= 1 \/ Size(pages, p) >= 2)
      BY <2>1
    <3>. QED
      BY <3>1
  <2>4. Readable(pages, nt, pages, nt.level[c])
    BY <1>12, <1>14, <2>2, <2>3 DEF Readable, InFile
  <2>5. nt.level[c] \in Nat /\ nt.level[c] <= nt.level[c]
    <3>1. NodeOK(pages, nt, c)
      BY <2>1
    <3>2. nt.level[c] \in Nat
      BY <3>1 DEF NodeOK
    <3>. QED
      BY <3>2
  <2>6. PICK h : h = nt.level[c]
    OBVIOUS
  <2>7. Last(Descent(pages, TowardFirst(pages), c)) = nt.first[c]
    <3>1. Readable(pages, nt, pages, h) /\ h \in Nat /\ nt.level[c] <= h
      BY <2>4, <2>5, <2>6
    <3>. HIDE <2>6
    <3>. QED
      BY <2>1, <3>1, SubtreeMinFacts
  <2>. QED
    BY <1>1, <2>7 DEF LeftmostLeaf
<1>16. m.kind = meta.kind /\ m.root = c /\ m \in MetaType(DOMAIN pages) /\ Tells(m, held, nt)
  <2>1. IsPromoted(m, nt, c)
    BY <1>2, <1>15 DEF IsPromoted
  <2>2. t.level[c] \in Nat
    BY <1>8, <1>9 DEF NodeOK
  <2>. QED
    BY <1>4, <1>7, <1>9, <1>10, <2>1, <2>2, PromotedTells
<1>17. Rests(pages, m, held)
  BY <1>13, <1>14, <1>16, RestsIf
<1>18. PICK ws, hd : ws = <<>> /\ hd = held
  OBVIOUS
<1>19. /\ Do(busy, <<>>, ws, m, Idle) /\ Overwrites(pages, ws) /\ Rests(Written(pages, ws), m, hd)
       /\ hd = held' /\ hd \subseteq Keys /\ IsFiniteSet(hd)
  <2>1. Written(pages, ws) = pages
    BY <1>5, <1>18, WrittenNone
  <2>2. Overwrites(pages, ws)
    <3>1. ws \in Seq(AnyWrite) /\ Len(ws) = 0
      BY <1>18
    <3>. QED
      BY <3>1 DEF Overwrites
  <2>. QED
    BY <1>3, <1>5, <1>17, <1>18, <2>1, <2>2
<1>20. Sound(Good(pages), ws)
  BY <1>18, NoneSound
<1>. QED
  <2>. HIDE <1>18
  <2>. QED
    BY <1>5, <1>16, <1>19, <1>20, ReturnKeeps

-----------------------------------------------------------------------------
(* The invariant holds in every state.                                      *)

\* An index file with no tree in it.
LEMMA InitEstablishes ==
    ASSUME Init
    PROVE  IInv /\ FInv
<1>1. pages = <<>> /\ file = meta /\ call = Idle /\ held = {} /\ busy = None /\ moved = {}
  BY DEF Init
<1>2. PICK kind \in KeyKinds : meta = NoTree(kind)
  BY DEF Init
<1>3. pages \in Seq(AnyNode) /\ DOMAIN pages = {}
  BY <1>1
<1>4. IsFile(pages)
  BY <1>3 DEF IsFile
<1>5. meta \in MetaType(DOMAIN pages) /\ meta.root = None /\ meta.kind = kind
  BY <1>2 DEF MetaType, NoTree
<1>6. IsFiniteSet(held)
  BY <1>1, FS_EmptySet
<1>7. Typed
  BY <1>1, <1>4, <1>5, <1>6 DEF Typed
<1>8. Rests(pages, meta, held)
  BY <1>1, <1>2, <1>5 DEF Rests
<1>9. FInv
  <2>1. Good(pages) = {}
    BY <1>3 DEF Good
  <2>. QED
    BY <2>1, <1>1, <1>5 DEF FInv, Closed, Rooted, Placed
<1>. QED
  BY <1>1, <1>7, <1>8, <1>9 DEF IInv, CallOK

\* What changes nothing keeps the invariant.
LEMMA StutterKeeps ==
    ASSUME IInv, UNCHANGED vars
    PROVE  Keeps
<1>1. IInv'
  BY DEF IInv, vars, Typed, CallOK, Rests, Works, WorksOn, Due, IsCall
<1>2. FInv => FInv'
  BY DEF FInv, vars, Closed, Good, Below, Rooted, Placed
<1>. QED
  BY <1>1, <1>2 DEF Keeps

\* Each step keeps the invariant.
LEMMA StepKeeps ==
    ASSUME KeysAssumption, CapacityAssumption, IInv, [Next]_vars
    PROVE  Keeps
<1>1. ASSUME NEW k \in Keys, InsertFirst(k) PROVE Keeps
  BY <1>1, InsertFirstKeeps
<1>2. ASSUME NEW k \in Keys, Insert(k) PROVE Keeps
  BY <1>2, InsertKeeps
<1>3. ASSUME NEW k \in Keys, EraseLast(k) PROVE Keeps
  BY <1>3, EraseLastKeeps
<1>4. ASSUME NEW k \in Keys, Erase(k) PROVE Keeps
  BY <1>4, EraseKeeps
<1>5. CASE GiveToRightLeaf
  BY <1>5, GiveToRightKeeps
<1>6. CASE GiveToLeftLeaf
  BY <1>6, GiveToLeftKeeps
<1>7. CASE ShareWithSibling
  BY <1>7, ShareWithSiblingKeeps
<1>8. CASE SplitPair
  BY <1>8, SplitPairKeeps
<1>9. CASE SplitRoot
  BY <1>9, SplitRootKeeps
<1>10. CASE BorrowFromLeft
  BY <1>10, BorrowLeftKeeps
<1>11. CASE BorrowFromRight
  BY <1>11, BorrowRightKeeps
<1>12. CASE MergeSiblings
  BY <1>12, MergeSiblingsKeeps
<1>13. CASE ShareOnUnderflow
  BY <1>13, ShareOnUnderflowKeeps
<1>14. CASE ChildRemoved
  BY <1>14, ChildRemovedKeeps
<1>15. CASE PromoteChild
  BY <1>15, PromoteChildKeeps
<1>16. CASE FindAfterKill
  BY <1>16, StutterKeeps DEF FindAfterKill
<1>17. CASE UNCHANGED vars
  BY <1>17, StutterKeeps
<1>. QED
  BY <1>1, <1>2, <1>3, <1>4, <1>5, <1>6, <1>7, <1>8, <1>9, <1>10, <1>11, <1>12, <1>13, <1>14, <1>15,
     <1>16, <1>17 DEF Next, Helpers

-----------------------------------------------------------------------------
(* What follows from it.                                                    *)

\* The invariant says what each variable is.
LEMMA IsTyped ==
    ASSUME IInv
    PROVE  TypeOK
<1>1. Typed /\ CallOK(pages, meta, held, call)
  BY DEF IInv
<1>2. /\ DOMAIN pages = 1..Len(pages)
      /\ \A p \in DOMAIN pages : IsNode(pages[p]) /\ pages[p].id \in {p, None}
  BY <1>1, FileFacts DEF Typed
<1>3. {meta, file} \subseteq [root : DOMAIN pages \cup {None}, first : DOMAIN pages \cup {None},
                            height : Nat, size : Nat, kind : KeyKinds]
  BY <1>1 DEF Typed, MetaType
<1>4. \/ call \in {Idle, Killed}
      \/ /\ call = Call(call.fn, call.node, call.path)
         /\ call.fn \in {"split", "underflow", "child_removed"}
         /\ IsNode(call.node) /\ call.path \in Seq(DOMAIN pages)
  <2>1. CASE IsCall(DOMAIN pages, call)
    <3>1. PICK fn \in {"split", "underflow", "child_removed"}, node \in AnyNode, path \in Seq(DOMAIN pages) :
              call = Call(fn, node, path)
      BY <2>1 DEF IsCall
    <3>2. call.fn = fn /\ call.node = node /\ call.path = path
      BY <3>1 DEF Call
    <3>3. IsNode(node)
      BY AnyNodeIsNode
    <3>. QED
      BY <3>1, <3>2, <3>3
  <2>. QED
    BY <1>1, <2>1 DEF CallOK
<1>5. held \subseteq Keys /\ moved \subseteq Keys /\ busy \in Keys \cup {None}
  BY <1>1 DEF Typed
<1>. QED
  BY <1>2, <1>3, <1>4, <1>5 DEF TypeOK

\* The invariant says that find is exact.
LEMMA FindsExactly ==
    ASSUME KeysAssumption, IInv
    PROVE  FindIsExact
<1>. SUFFICES ASSUME call = Idle, NEW k \in Keys
              PROVE  Find(k) = IF k \in held THEN {Record[k]} ELSE {}
  BY DEF FindIsExact
<1>1. Rests(pages, meta, held) /\ (~IsEmpty => \E t : Resting(t))
  BY RestFacts
<1>2. CASE IsEmpty
  <2>1. held = {}
    BY <1>1, <1>2 DEF Rests, IsEmpty
  <2>. QED
    BY <1>2, <2>1 DEF Find
<1>3. CASE ~IsEmpty
  <2>1. PICK t : Resting(t)
    BY <1>1, <1>3
  <2>. QED
    BY <2>1, FindHeld
<1>. QED
  BY <1>2, <1>3

-----------------------------------------------------------------------------
(* The levels of the tree, as the properties reach them.                    *)

\* Level 0 is the root; each level after it is the children of the one before.
LEMMA Levels ==
    /\ Level(0) = {meta.root}
    /\ \A n \in Nat : Level(n) \subseteq DOMAIN pages => Level(n + 1) = UNION {Children(p) : p \in Level(n)}
<1>1. PICK step : step = [S \in SUBSET DOMAIN pages |-> UNION {Children(p) : p \in S}]
  OBVIOUS
<1>2. \A n : Level(n) = Loop(step, {meta.root})[n]
  BY <1>1 DEF Level
<1>3. \A S : S \subseteq DOMAIN pages => step[S] = UNION {Children(p) : p \in S}
  BY <1>1
<1>4. /\ Loop(step, {meta.root})[0] = {meta.root}
      /\ \A n \in Nat : Loop(step, {meta.root})[n + 1] = step[Loop(step, {meta.root})[n]]
  <2>. HIDE <1>1
  <2>. QED
    BY LoopProperties
<1>5. ASSUME NEW n \in Nat, Level(n) \subseteq DOMAIN pages
      PROVE  Level(n + 1) = UNION {Children(p) : p \in Level(n)}
  <2>1. Level(n + 1) = step[Level(n)]
    BY <1>2, <1>4
  <2>. QED
    BY <1>3, <1>5, <2>1
<1>. QED
  BY <1>2, <1>4, <1>5

IsLevel(t, n, S) ==
    /\ S \subseteq t.nodes /\ \A p \in S : t.level[p] = meta.height - n
    /\ \E p \in S : t.first[p] = meta.first

\* One step down.
LEMMA NextLevel ==
    ASSUME NEW t, Resting(t), NEW n \in Nat, n + 1 < meta.height, NEW S, IsLevel(t, n, S)
    PROVE  IsLevel(t, n + 1, UNION {Children(p) : p \in S})
<1>1. /\ \A p \in t.nodes : NodeOK(pages, t, p) /\ Size(pages, p) >= 1
      /\ meta.height \in Nat
  BY DEF Resting, Searchable, Tree, Typed, MetaType
<1>2. PICK h \in Nat : h = meta.height /\ n + 1 < h
  BY <1>1
<1>3. \A p \in S : p \in t.nodes /\ t.level[p] = h - n
  BY <1>2 DEF IsLevel
<1>4. ASSUME NEW p \in S
      PROVE  /\ ~pages[p].leaf /\ InternalShape(pages, t, p)
             /\ \A c \in Children(p) : \E i \in 1..Size(pages, p) : c = pages[p].items[i]
             /\ \A i \in 1..Size(pages, p) : pages[p].items[i] \in Children(p)
  <2>1. NodeOK(pages, t, p) /\ t.level[p] = h - n /\ h - n # 1
    BY <1>1, <1>2, <1>3, <1>4
  <2>2. ~pages[p].leaf
    BY <2>1 DEF NodeOK
  <2>3. InternalShape(pages, t, p)
    BY <2>1, <2>2, InternalFacts
  <2>4. DOMAIN pages[p].items = 1..Size(pages, p)
    BY <2>3 DEF InternalShape
  <2>5. Children(p) = {pages[p].items[i] : i \in DOMAIN pages[p].items}
    BY <2>2 DEF Children, ToSet
  <2>. QED
    BY <2>2, <2>3, <2>4, <2>5
<1>5. PICK T : T = UNION {Children(p) : p \in S}
  OBVIOUS
<1>6. ASSUME NEW c \in T PROVE c \in t.nodes /\ t.level[c] = meta.height - (n + 1)
  <2>1. PICK p \in S : c \in Children(p)
    BY <1>5, <1>6
  <2>2. PICK i \in 1..Size(pages, p) : c = pages[p].items[i]
    BY <1>4, <2>1
  <2>3. c \in t.nodes /\ t.level[c] = t.level[p] - 1
    BY <1>4, <2>2 DEF InternalShape
  <2>4. t.level[p] = h - n
    BY <1>3
  <2>. QED
    BY <1>2, <2>3, <2>4
<1>7. \E c \in T : t.first[c] = meta.first
  <2>1. PICK p \in S : t.first[p] = meta.first
    BY DEF IsLevel
  <2>2. Size(pages, p) \in Nat /\ Size(pages, p) >= 1 /\ t.first[p] = t.first[pages[p].items[1]]
    BY <1>1, <1>3, <1>4 DEF InternalShape
  <2>3. 1 \in 1..Size(pages, p)
    BY <2>2
  <2>4. pages[p].items[1] \in Children(p)
    BY <1>4, <2>3
  <2>. QED
    BY <1>5, <2>1, <2>2, <2>4
<1>8. IsLevel(t, n + 1, T)
  BY <1>6, <1>7 DEF IsLevel
<1>. QED
  BY <1>5, <1>8

\* Each level is made of pages of the tree that are as far from the leaves, one
\* of them on the way to the first leaf.
LEMMA LevelPages ==
    ASSUME NEW t, Resting(t)
    PROVE  \A n \in 0..(meta.height - 1) : IsLevel(t, n, Level(n))
<1>1. /\ meta.height \in Nat /\ t.nodes \subseteq DOMAIN pages
      /\ meta.root \in t.nodes /\ t.level[meta.root] = meta.height /\ t.first[meta.root] = meta.first
  BY DEF Resting, Searchable, Tree, Typed, MetaType, Tells
<1>2. PICK h \in Nat : h = meta.height
  BY <1>1
<1> DEFINE S == {n \in Nat : n < h => IsLevel(t, n, Level(n))}
<1>3. 0 \in S
  <2>1. IsLevel(t, 0, {meta.root})
    BY <1>1, <1>2 DEF IsLevel
  <2>2. Level(0) = {meta.root}
    BY Levels
  <2>. QED
    BY <2>1, <2>2
<1>4. ASSUME NEW n \in Nat, n \in S PROVE n + 1 \in S
  <2>. SUFFICES ASSUME n + 1 < h PROVE IsLevel(t, n + 1, Level(n + 1))
    OBVIOUS
  <2>1. IsLevel(t, n, Level(n))
    BY <1>4
  <2>2. Level(n) \subseteq DOMAIN pages
    BY <1>1, <2>1 DEF IsLevel
  <2>3. Level(n + 1) = UNION {Children(p) : p \in Level(n)}
    BY <2>2, Levels
  <2>4. n + 1 < meta.height
    BY <1>2
  <2>5. IsLevel(t, n + 1, UNION {Children(p) : p \in Level(n)})
    BY <2>1, <2>4, NextLevel
  <2>. QED
    BY <2>3, <2>5
<1>5. Nat \subseteq S
  <2>. HIDE DEF S
  <2>. QED
    BY <1>3, <1>4, SetInduction
<1>. QED
  BY <1>2, <1>5

\* A page of the tree.
LEMMA NodesOfTree ==
    ASSUME NEW t, Resting(t)
    PROVE  Nodes \subseteq t.nodes
BY LevelPages DEF IsLevel, Nodes

\* Whatever a kill has left.
LEMMA LevelsGood ==
    ASSUME IInv, FInv, meta.root # None
    PROVE  \A n \in Nat : Level(n) \subseteq Good(pages)
<1>1. Good(pages) \subseteq DOMAIN pages /\ meta.root \in Good(pages)
  BY DEF FInv, Rooted, Good
<1>2. ASSUME NEW p \in Good(pages) PROVE Children(p) \subseteq Good(pages)
  <2>. SUFFICES ASSUME ~pages[p].leaf PROVE Children(p) \subseteq Good(pages)
    BY DEF Children
  <2>1. IsNode(pages[p])
    BY <1>1, <1>2, FileFacts DEF IInv, Typed
  <2>2. DOMAIN pages[p].items = 1..Len(pages[p].items)
    BY <2>1, NodeFields
  <2>3. \A i \in 1..Len(pages[p].items) : pages[p].items[i] \in Good(pages)
    BY <1>2 DEF FInv, Closed, Below
  <2>. QED
    BY <2>2, <2>3 DEF Children, ToSet
<1> DEFINE S == {n \in Nat : Level(n) \subseteq Good(pages)}
<1>3. 0 \in S
  BY <1>1, Levels
<1>4. ASSUME NEW n \in Nat, n \in S PROVE n + 1 \in S
  <2>1. Level(n) \subseteq Good(pages)
    BY <1>4
  <2>2. Level(n + 1) = UNION {Children(p) : p \in Level(n)}
    BY <1>1, <2>1, Levels
  <2>3. Level(n + 1) \subseteq Good(pages)
    BY <1>2, <2>1, <2>2
  <2>. QED
    BY <2>3
<1>5. Nat \subseteq S
  <2>. HIDE DEF S
  <2>. QED
    BY <1>3, <1>4, SetInduction
<1>. QED
  BY <1>5

-----------------------------------------------------------------------------
(* The properties.                                                          *)

\* The invariant of the file says that find is led to nodes only.
LEMMA ReadsNodes ==
    ASSUME IInv, FInv
    PROVE  FindReadsOnlyNodes
<1>. SUFFICES ASSUME ~IsEmpty, NEW p \in Nodes PROVE pages[p].id = p
  BY DEF FindReadsOnlyNodes
<1>1. meta.height \in Nat /\ meta.root # None
  BY DEF IInv, Typed, MetaType, IsEmpty
<1>2. PICK n \in Nat : p \in Level(n)
  BY <1>1 DEF Nodes
<1>3. p \in Good(pages)
  BY <1>1, <1>2, LevelsGood
<1>. QED
  BY <1>3 DEF Good

\* The invariant says that the tree is balanced.
LEMMA IsBalanced ==
    ASSUME KeysAssumption, CapacityAssumption, IInv
    PROVE  Balanced
<1>. SUFFICES ASSUME AtRest
              PROVE  /\ \A n \in 0..(meta.height - 1) : \A p \in Level(n) : pages[p].leaf <=> n = meta.height - 1
                     /\ \A p \in Nodes : Fits(pages[p]) /\ KeyCount(pages[p]) >= 1
  BY DEF Balanced
<1>1. PICK t : Resting(t)
  BY RestFacts DEF AtRest
<1>2. /\ Holds(meta.kind, pages, meta.root, t, None, None) /\ meta.height \in Nat
  BY <1>1 DEF Resting, Typed, MetaType
<1>3. Tree(pages, meta.root, t) /\ None \notin t.nodes /\ \A p \in t.nodes : NodeOK(pages, t, p)
  BY <1>2, HoldsFacts DEF Tree
<1>4. ASSUME NEW n \in 0..(meta.height - 1), NEW p \in Level(n)
      PROVE  pages[p].leaf <=> n = meta.height - 1
  <2>1. p \in t.nodes /\ t.level[p] = meta.height - n
    BY <1>1, <1>4, LevelPages DEF IsLevel
  <2>2. NodeOK(pages, t, p)
    BY <1>3, <2>1
  <2>3. pages[p].leaf <=> t.level[p] = 1
    BY <2>2 DEF NodeOK
  <2>. QED
    BY <1>2, <2>1, <2>3
<1>5. ASSUME NEW p \in Nodes PROVE Fits(pages[p]) /\ KeyCount(pages[p]) >= 1
  <2>1. p \in t.nodes \ {None}
    BY <1>1, <1>3, NodesOfTree
  <2>2. Sized(meta.kind, pages, p)
    BY <1>2, <2>1 DEF Holds
  <2>3. Proper(pages[p])
    BY <2>2, ProperIsSized
  <2>4. KeyCount(pages[p]) \in Int
    <3>1. Size(pages, p) \in Nat
      BY <1>2, <2>1, HoldsFacts
    <3>. QED
      BY <3>1 DEF KeyCount, Size
  <2>. QED
    BY <2>3, <2>4 DEF Proper, Fits
<1>. QED
  BY <1>4, <1>5

\* subtree_min_key can be asked for any page.
LEMMA RestReadable ==
    ASSUME NEW t, Resting(t), NEW p \in t.nodes
    PROVE  Readable(pages, t, pages, t.level[p]) /\ t.level[p] \in Nat
<1>1. /\ Tree(pages, meta.root, t) /\ \A q \in t.nodes : t.under[q] # {} /\ Size(pages, q) >= 1
      /\ InFile(pages, t)
  BY DEF Resting, Searchable
<1>2. t.nodes \subseteq DOMAIN pages /\ NodeOK(pages, t, p)
  BY <1>1 DEF Tree
<1>3. t.level[p] \in Nat
  BY <1>2 DEF NodeOK
<1>. QED
  BY <1>1, <1>2, <1>3 DEF Readable, InFile

\* The invariant says that the separators are exact.
LEMMA AreExact ==
    ASSUME KeysAssumption, CapacityAssumption, IInv
    PROVE  SeparatorsExact
<1>. SUFFICES ASSUME AtRest, NEW p \in Nodes, ~pages[p].leaf
              PROVE  pages[p] = Rebuilt(pages, pages[p], pages[p].items)
  BY DEF SeparatorsExact
<1>1. PICK t : Resting(t)
  BY RestFacts DEF AtRest
<1>2. Holds(meta.kind, pages, meta.root, t, None, None) /\ IsFile(pages)
  BY <1>1 DEF Resting, Typed
<1>3. Tree(pages, meta.root, t) /\ NoneChildless(pages, t) /\ None \notin t.nodes /\ t.nodes \subseteq DOMAIN pages
  BY <1>2, HoldsFacts DEF Tree
<1>4. p \in t.nodes /\ p \in t.nodes \ {None}
  BY <1>1, <1>3, NodesOfTree
<1>5. Kept(pages, t, p, None) /\ NodeOK(pages, t, p)
  BY <1>2, <1>4, HoldsFacts
<1>6. InternalShape(pages, t, p)
  BY <1>5, InternalFacts
<1>7. PICK z \in Nat : z = Size(pages, p)
  BY <1>6 DEF InternalShape
<1>8. /\ pages[p].keys \in Seq(Keys) /\ Len(pages[p].keys) = z - 1
      /\ \A i \in 1..(z - 1) : /\ \A x \in t.under[pages[p].items[i + 1]] : pages[p].keys[i] <= x
                               /\ pages[p].keys[i] \in t.under[pages[p].items[i + 1]]
                                      \/ t.first[pages[p].items[i + 1]] = None
  BY <1>5, <1>7 DEF Kept, Keyed
<1>9. ASSUME NEW i \in 1..(z - 1) PROVE pages[p].keys[i] = SubtreeMin(pages, pages[p].items[i + 1])
  <2>1. i + 1 \in 1..z
    BY <1>7
  <2>2. PICK c : c = pages[p].items[i + 1]
    OBVIOUS
  <2>3. c \in t.nodes /\ t.under[c] \subseteq Keys
    <3>1. c \in t.nodes
      BY <1>6, <1>7, <2>1, <2>2 DEF InternalShape
    <3>2. NodeOK(pages, t, c)
      BY <1>3, <3>1 DEF Tree
    <3>. QED
      BY <3>1, <3>2 DEF NodeOK
  <2>4. t.first[c] # None
    BY <1>3, <2>3, FirstIsLeaf
  <2>5. pages[p].keys[i] \in t.under[c] /\ \A x \in t.under[c] : pages[p].keys[i] <= x
    BY <1>8, <2>2, <2>4
  <2>6. SubtreeMin(pages, c) \in t.under[c] /\ \A x \in t.under[c] : SubtreeMin(pages, c) <= x
    <3>1. PICK h : h = t.level[c]
      OBVIOUS
    <3>2. Readable(pages, t, pages, h) /\ h \in Nat /\ t.level[c] <= h
      BY <1>1, <2>3, <3>1, RestReadable
    <3>. HIDE <2>2, <3>1
    <3>. QED
      BY <1>3, <2>3, <3>2, SubtreeMinFacts
  <2>7. PICK x, y : x = pages[p].keys[i] /\ y = SubtreeMin(pages, c)
    OBVIOUS
  <2>8. x \in Int /\ y \in Int /\ x <= y /\ y <= x
    BY <2>3, <2>5, <2>6, <2>7 DEF KeysAssumption
  <2>9. x = y
    BY <2>8
  <2>. QED
    BY <2>2, <2>7, <2>9
<1>10. pages[p].keys = [i \in 1..(z - 1) |-> SubtreeMin(pages, pages[p].items[i + 1])]
  <2>1. pages[p].keys = [i \in 1..(z - 1) |-> pages[p].keys[i]]
    BY <1>7, <1>8, LenProperties
  <2>. QED
    BY <1>9, <2>1
<1>11. IsNode(pages[p])
  BY <1>2, <1>3, <1>4, FileFacts
<1>12. PICK node : node = pages[p]
  OBVIOUS
<1>13. node = [id |-> node.id, leaf |-> node.leaf, items |-> node.items, keys |-> node.keys, next |-> node.next]
  BY <1>11, <1>12, NodeFields
<1>14. [i \in 1..(Len(node.items) - 1) |-> SubtreeMin(pages, node.items[i + 1])] = node.keys
  BY <1>7, <1>10, <1>12 DEF Size
<1>15. Rebuilt(pages, node, node.items) = [node EXCEPT !.items = node.items, !.keys = node.keys]
  BY <1>14 DEF Rebuilt
<1>16. [node EXCEPT !.items = node.items, !.keys = node.keys] = node
  BY <1>13
<1>. QED
  BY <1>12, <1>15, <1>16

\* The invariant says that the metadata tell the truth.
LEMMA MetadataTell ==
    ASSUME KeysAssumption, CapacityAssumption, IInv
    PROVE  MetadataAgrees
<1>. SUFFICES ASSUME AtRest
              PROVE  /\ meta.size = Cardinality(held) /\ meta.first \in LeafLevel
                     /\ \A k \in held : pages[meta.first].items[1].key <= k
  BY DEF MetadataAgrees
<1>1. PICK t : Resting(t)
  BY RestFacts DEF AtRest
<1>2. /\ meta.size = Cardinality(held) /\ t.under[meta.root] = held /\ t.first[meta.root] = meta.first
      /\ t.level[meta.root] = meta.height /\ meta.root \in t.nodes
      /\ Tree(pages, meta.root, t) /\ meta.height \in Nat /\ meta.height # 0
  BY <1>1 DEF Resting, Tells, Searchable, Typed, MetaType, IsEmpty
<1>3. meta.first \in LeafLevel
  <2>1. PICK n \in Nat : n = meta.height - 1 /\ n \in 0..(meta.height - 1)
    BY <1>2
  <2>2. IsLevel(t, n, Level(n))
    BY <1>1, <2>1, LevelPages
  <2>3. PICK p \in Level(n) : p \in t.nodes /\ t.level[p] = meta.height - n /\ t.first[p] = meta.first
    BY <2>2 DEF IsLevel
  <2>4. t.level[p] = 1
    BY <1>2, <2>1, <2>3
  <2>5. NodeOK(pages, t, p)
    BY <1>2, <2>3 DEF Tree
  <2>6. t.first[p] = p
    BY <2>4, <2>5 DEF NodeOK
  <2>. QED
    BY <2>1, <2>3, <2>6 DEF LeafLevel
<1>4. /\ \A x \in t.under[meta.root] : SubtreeMin(pages, meta.root) <= x
      /\ Last(Descent(pages, TowardFirst(pages), meta.root)) = t.first[meta.root]
  <2>1. PICK h, c : h = t.level[meta.root] /\ c = meta.root
    OBVIOUS
  <2>2. Readable(pages, t, pages, h) /\ h \in Nat /\ t.level[c] <= h /\ Tree(pages, c, t) /\ c \in t.nodes
    BY <1>1, <1>2, <2>1, RestReadable
  <2>3. /\ \A x \in t.under[c] : SubtreeMin(pages, c) <= x
        /\ Last(Descent(pages, TowardFirst(pages), c)) = t.first[c]
    <3>. HIDE <2>1
    <3>. QED
      BY <2>2, SubtreeMinFacts
  <2>. QED
    BY <2>1, <2>3
<1>5. SubtreeMin(pages, meta.root) = pages[meta.first].items[1].key
  BY <1>2, <1>4 DEF SubtreeMin
<1>. QED
  BY <1>2, <1>3, <1>4, <1>5

-----------------------------------------------------------------------------

\* The invariant of the tree holds in every state: each page write, return and kill
\* of insert, erase and the helpers keeps it (bstarplus_tree_index.cpp).
THEOREM BStarPlusInvariant == Spec => []IInv
<1>1. Init => IInv
  BY InitEstablishes
<1>2. IInv /\ [Next]_vars => IInv'
  BY KeysAssumption, CapacityAssumption, StepKeeps DEF Keeps
<1>. QED
  BY <1>1, <1>2, PTL DEF Spec

\* The pages, the metadata and the helper that is to run have their types in
\* every state: insert, erase and a kill leave nodes and pages of zeros only.
THEOREM BStarPlusTypeOK == Spec => []TypeOK
BY BStarPlusInvariant, IsTyped, PTL

\* find returns the row id of every key that was inserted and not erased, and
\* nothing for any other key, whatever the keys, the capacities of the nodes and
\* the order of the calls (insert, erase and find of index.h).
THEOREM BStarPlusFindIsExact == Spec => []FindIsExact
<1>1. IInv => FindIsExact
  BY KeysAssumption, FindsExactly
<1>. QED
  BY <1>1, BStarPlusInvariant, PTL

\* Whenever insert or erase has returned, every leaf is height_ - 1 steps below the
\* root, no node has more keys than fit, and none is empty.
THEOREM BStarPlusBalanced == Spec => []Balanced
<1>1. IInv => Balanced
  BY KeysAssumption, CapacityAssumption, IsBalanced
<1>. QED
  BY <1>1, BStarPlusInvariant, PTL

\* Whenever insert or erase has returned, every separator is the least key of the
\* subtree to its right (rebuild_internal_keys, propagate_subtree_min_change).
THEOREM BStarPlusSeparatorsExact == Spec => []SeparatorsExact
<1>1. IInv => SeparatorsExact
  BY KeysAssumption, CapacityAssumption, AreExact
<1>. QED
  BY <1>1, BStarPlusInvariant, PTL

\* Whenever insert or erase has returned, the metadata count the keys and name the
\* leaf that has the least of them (write_metadata).
THEOREM BStarPlusMetadataAgrees == Spec => []MetadataAgrees
<1>1. IInv => MetadataAgrees
  BY KeysAssumption, CapacityAssumption, MetadataTell
<1>. QED
  BY <1>1, BStarPlusInvariant, PTL

\* Whatever page writes a kill cuts off, the children of each node in the file and
\* the root that the metadata page names are nodes in the file: split_leaf_pair,
\* split_internal_pair, split_leaf and split_internal write the new nodes before
\* the parent that names them, and allocate_page only puts zeros in new pages.
THEOREM BStarPlusFileInvariant == Spec => [](IInv /\ FInv)
<1>1. Init => IInv /\ FInv
  BY InitEstablishes
<1>2. IInv /\ FInv /\ [Next]_vars => (IInv /\ FInv)'
  BY KeysAssumption, CapacityAssumption, StepKeeps DEF Keeps
<1>. QED
  BY <1>1, <1>2, PTL DEF Spec

\* When a kill has cut off the page writes of insert or erase, at any of them, and
\* the file is opened again, find_leaf is led to no page of zeros, for which
\* deserialize_node would throw: for all keys and capacities.
THEOREM BStarPlusFindReadsOnlyNodes == Spec => []FindReadsOnlyNodes
BY BStarPlusFileInvariant, ReadsNodes, PTL

=============================================================================
