------------------------------- MODULE RankTree -------------------------------
(***************************************************************************)
(* AVLTree: search trees balanced by height, on nodes that are not theirs. *)
(* A heap h is a function from nodes to records; a tree is its root.  The  *)
(* windows of a generator share one heap, and Delete gives back a node for *)
(* Insert to put in another tree: not always the node that held the key.   *)
(* What changes a tree returns the heap, the root, as top, and a node.     *)
(***************************************************************************)
EXTENDS Integers, Sequences, SequencesExt

Null == -1
Leaf(key, info) == [key |-> key, info |-> info, left |-> Null, right |-> Null, height |-> 1]
Other(side) == IF side = "left" THEN "right" ELSE "left"

Height(h, x) == IF x = Null THEN 0 ELSE h[x].height
Balance(h, x) == Height(h, h[x].left) - Height(h, h[x].right)
UpdateHeight(h, x) ==
  [h EXCEPT ![x].height = 1 + Height(h, IF Balance(h, x) > 0 THEN h[x].left ELSE h[x].right)]

(* x, the child of f on a side, takes its place: RRotate on the left one,  *)
(* LRotate on the right one.                                               *)
Rotate(h, x, f, side) ==
  UpdateHeight([UpdateHeight([h EXCEPT ![f][side] = h[x][Other(side)]], f)
                  EXCEPT ![x][Other(side)] = f], x)

RotateOnce(h, point, side, child) ==                                    \* mutant
  [h |-> Rotate(h, child, point, side), top |-> child, node |-> point]
(* The subtree of point leans to a side: one rotation brings its child up, *)
(* or two its grandchild when the child leans to the other side.           *)
Straighten(h, point, side, child) ==
  LET inner == h[child][Other(side)]
      twice == Height(h, inner) > Height(h, h[child][side])
      top   == IF twice THEN inner ELSE child
  IN  [h    |-> Rotate(IF twice THEN Rotate(h, inner, child, Other(side)) ELSE h, top, point, side),
       top  |-> top, node |-> point]

LocalRebalance(h, point) ==
  LET side == IF Balance(h, point) > 1 THEN "left" ELSE "right"
  IN  IF Balance(h, point) \in -1 .. 1
      THEN [h |-> UpdateHeight(h, point), top |-> point, node |-> point]
      ELSE Straighten(h, point, side, h[point][side])

(* The nodes of path, from the root, are rebalanced from the last one up:  *)
(* each one takes the top of the subtree below it for its child first.     *)
Link(below, f) ==
  IF below.node = Null THEN below.h
  ELSE [below.h EXCEPT ![f][IF below.h[f].left = below.node THEN "left" ELSE "right"] = below.top]
Relink(below, f) == LocalRebalance(Link(below, f), f)
GlobalRebalance(h, path) ==
  LET up[n \in 0 .. Len(path)] ==    \* the last n nodes
        IF n = 0 THEN [h |-> h, top |-> Null, node |-> Null]
        ELSE Relink(up[n - 1], path[Len(path) - n + 1])
  IN  up[Len(path)]

-------------------------------------------------------------------------------
(* The nodes from the root to where key is or would be; a key as large as  *)
(* a node's goes left when it is to be inserted.                           *)
PathTo(h, root, key, inserting) ==
  LET down[n \in DOMAIN h \union {Null}] ==
        IF n = Null THEN <<>>
        ELSE IF h[n].key = key /\ ~ inserting THEN <<n>>
        ELSE <<n>> \o down[IF key <= h[n].key THEN h[n].left ELSE h[n].right]
  IN  down[root]
(* The nodes from x down along right children. *)
RightSpine(h, x) ==
  LET down[n \in DOMAIN h \union {Null}] == IF n = Null THEN <<>> ELSE <<n>> \o down[h[n].right]
  IN  down[x]

Hang(h, n, path) ==
  GlobalRebalance([h EXCEPT ![Last(path)][IF h[n].key <= h[Last(path)].key
                                          THEN "left" ELSE "right"] = n], path)
Insert(h, root, n) ==
  IF root = Null THEN [h |-> h, top |-> n, node |-> n]
  ELSE Hang(h, n, PathTo(h, root, h[n].key, TRUE))

(* chain: each node takes the key and info of the one after, the last one, *)
(* which leaves the tree, those of the first.  up is the path to it.       *)
Unchain(h, chain, up) ==
  LET After(i) == IF i = Len(chain) THEN 1 ELSE i + 1
      From(n) == chain[After(CHOOSE i \in DOMAIN chain : chain[i] = n)]
      shifted == [n \in DOMAIN h |->
                    IF n \in ToSet(chain)
                    THEN [h[n] EXCEPT !.key = h[From(n)].key, !.info = h[From(n)].info] ELSE h[n]]
      Cut(g, f) == [g EXCEPT ![f][IF g[f].left = Last(chain) THEN "left" ELSE "right"] = Null]
  IN  IF up = <<>> THEN [h |-> h, top |-> Null, node |-> Last(chain)]
      ELSE [GlobalRebalance(Cut(shifted, Last(up)), up) EXCEPT !.node = Last(chain)]

(* A leaf leaves; a node without a left child is overwritten by its right  *)
(* one; another one by its predecessor, y, and y by its left child if any. *)
TakeOut(h, path, x, spine) ==
  LET y == Last(spine) IN
  CASE h[x].height = 1 -> Unchain(h, <<x>>, Front(path))
    [] h[x].height > 1 /\ spine = <<>> -> Unchain(h, <<x, h[x].right>>, path)
    [] h[x].height > 1 /\ spine # <<>> /\ h[y].left = Null ->
         Unchain(h, <<x, y>>, path \o Front(spine))
    [] h[x].height > 1 /\ spine # <<>> /\ h[y].left # Null ->
         Unchain(h, <<x, y, h[y].left>>, path \o spine)
(* Delete of a key the tree has. *)
Delete(h, root, key) ==
  LET path == PathTo(h, root, key, FALSE)
  IN  TakeOut(h, path, Last(path), RightSpine(h, h[Last(path)].left))

(* Search: the nodes before and after key, Null where there is none. *)
Search(h, root, key) ==
  LET path == PathTo(h, root, key, FALSE)
      before == {i \in DOMAIN path : h[path[i]].key <= key}
      after  == {i \in DOMAIN path : h[path[i]].key >= key}
      Lowest(is) == IF is = {} THEN Null ELSE path[CHOOSE i \in is : \A j \in is : j <= i]
  IN  [prev |-> Lowest(before), next |-> Lowest(after)]

-------------------------------------------------------------------------------
(* What a tree is: in order, balanced, its heights right. *)
Nodes(h, root) ==
  LET under[x \in DOMAIN h \union {Null}] ==
        IF x = Null THEN {} ELSE {x} \union under[h[x].left] \union under[h[x].right]
  IN  under[root]
IsAVL(h, root) ==
  \A x \in Nodes(h, root) :
    /\ \A y \in Nodes(h, h[x].left) : h[y].key < h[x].key
    /\ \A y \in Nodes(h, h[x].right) : h[y].key > h[x].key
    /\ Balance(h, x) \in {-1, 0, 1} /\ UpdateHeight(h, x) = h
===============================================================================
