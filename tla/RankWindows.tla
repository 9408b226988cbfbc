----------------------------- MODULE RankWindows -----------------------------
(***************************************************************************)
(* fsg_gen: a window of positions for each class of distances, kept by     *)
(* rank.  At each position the one before enters the first window, and the *)
(* position each window drops enters the next.  The smallest classes are   *)
(* trees that share a pool of nodes, the others bitmaps.  The two          *)
(* positions whose ranks are next to that of the current one have the      *)
(* longest match of the class; how long it is is carried from a position   *)
(* to the next, one symbol shorter, and only extended.                     *)
(***************************************************************************)
EXTENDS EdgeMesh, RankTree, RankBitmap, Suffixes

CONSTANTS
  Texts,        \* the texts
  TreeShare     \* C: a class below this share of the text has a tree

ASSUME WindowTextsAssumption == \A t \in Texts : t \in Seq(ToSet(Symbols)) /\ t # <<>>
ASSUME TreeShareAssumption ==
  TreeShare \in Nat \ {0} /\ \A t \in Texts : Len(t) \div TreeShare <= Last(Dst)
(* Texts for which a bitmap, if there is one, stays in its memory. *)
ASSUME BitmapAssumption ==
  \A t \in Texts : (\E k \in DOMAIN Dst : Dst[k] >= Len(t) \div TreeShare) => FillsWhatItHas(Len(t) + 1)

VARIABLES
  text,
  isa, sa,      \* the rank of each position, the position of each rank
  pool,         \* the nodes of the trees
  released,     \* the node the last tree gave back, Null before
  t, ps,        \* roots of the trees, and bitmaps, one for each class
  llmatch, rlmatch,     \* for each class, how long the two matches are
  text_pos, level, mesh,
  edges,        \* the edges given at the last position
  pc

windows == <<pool, released, t, ps>>
vars == <<text, isa, sa, windows, llmatch, rlmatch, text_pos, level, mesh, edges, pc>>

L == Len(text)
treenum == Cardinality({k \in DOMAIN Dst : Dst[k] < L \div TreeShare})
PoolSize == IF L > Dst[treenum] THEN Dst[treenum] + 1 ELSE L

Init ==
  /\ text \in Texts
  /\ isa = Ranks(text)
  /\ sa = [r \in 0 .. (L - 1) |-> CHOOSE i \in 0 .. (L - 1) : isa[i] = r]
  /\ pool = IF treenum = 0 THEN <<>> ELSE [n \in 0 .. (PoolSize - 1) |-> Leaf(0, 0)]
  /\ released = Null
  /\ t = [k \in 1 .. treenum |-> Null]
  /\ ps = [k \in (treenum + 1) .. Len(Dst) |-> EmptyBitmap(L + 1)]
  /\ llmatch = [k \in DOMAIN Dst |-> 0] /\ rlmatch = llmatch
  /\ text_pos = 0 /\ level = 1 /\ mesh = Reset /\ edges = <<>> /\ pc = "pre"

-------------------------------------------------------------------------------
(* update_btrees *)

(* The position that leaves the window of class k, negative if none does.  *)
Leaving(k) == text_pos - Dst[k] - 1
FirstOf(S, whole) == IF S = {} THEN whole ELSE Min(S)

NewNode == IF released = Null THEN text_pos - 1 ELSE released

(* A turn of the loop over the trees: w.node enters, another node leaves. *)
Drop(in, k) == IF Leaving(k) < 0 THEN in ELSE Delete(in.h, in.top, isa[Leaving(k)])
Turned(roots, out, k) == [h |-> out.h, t |-> [roots EXCEPT ![k] = out.top], node |-> out.node]
TreeTurn(w, k) == Turned(w.t, Drop(Insert(w.h, w.t[k], w.node), k), k)

(* The trees up to the first that drops no position. *)
Trees ==
  LET whole == FirstOf({k \in 1 .. treenum : Leaving(k) < 0}, treenum)
      fresh == [pool EXCEPT ![NewNode] = Leaf(isa[text_pos - 1], text_pos - 1)]
      after[k \in 0 .. whole] ==
        IF k = 0 THEN [h |-> fresh, t |-> t, node |-> NewNode] ELSE TreeTurn(after[k - 1], k)
  IN  after[whole]

Entering(k) == IF k = 1 THEN text_pos - 1 ELSE Leaving(k - 1)
KeepsLeavers(k) == BitSet(ps[k], isa[Entering(k)])                      \* mutant
BitmapTurn(k) ==
  LET set == BitSet(ps[k], isa[Entering(k)])
  IN  IF Leaving(k) >= 0 THEN BitRemove(set, isa[Leaving(k)]) ELSE set

UpdateTrees ==
  IF treenum = 0 THEN UNCHANGED <<pool, t, released>>
  ELSE \E w \in {Trees} :
         /\ pool' = w.h /\ t' = w.t
         /\ released' = IF Leaving(treenum) >= 0 THEN w.node ELSE released

UpdateBitmaps ==
  ps' = [k \in DOMAIN ps |-> IF Entering(k) >= 0 THEN BitmapTurn(k) ELSE ps[k]]

PreGen ==
  /\ pc = "pre" /\ text_pos < L
  /\ IF text_pos = 0 THEN UNCHANGED windows ELSE UpdateTrees /\ UpdateBitmaps
  /\ mesh' = Reset /\ level' = 1 /\ pc' = "match"
  /\ UNCHANGED <<text, isa, sa, llmatch, rlmatch, text_pos, edges>>

-------------------------------------------------------------------------------
(* find_match: the positions in window k of the ranks around the current.  *)
Neighbours(k) ==
  LET nodes == Search(pool, t[k], isa[text_pos])
      ranks == BitSearch(ps[k], isa[text_pos])
      Info(n) == IF n = Null THEN -1 ELSE pool[n].info
      Pos(r)  == IF r < 0 THEN -1 ELSE sa[r]
  IN  IF k <= treenum THEN [pred |-> Info(nodes.prev), succ |-> Info(nodes.next)]
                      ELSE [pred |-> Pos(ranks.prev), succ |-> Pos(ranks.next)]

(* lcp::update_match *)
Extend(pos, n) == IF pos < 0 THEN 0 ELSE n + CommonPrefix(text, pos + n, text_pos + n)
MatchOfPred(near, l, r) ==                                              \* mutant
  IF l > 0 THEN [d |-> text_pos - near.pred, ell |-> l]
           ELSE [d |-> text_pos - near.succ, ell |-> r]
MatchOf(near, l, r) ==
  IF l >= r THEN [d |-> text_pos - near.pred, ell |-> l]
            ELSE [d |-> text_pos - near.succ, ell |-> r]

MoreLevels == ~ mesh.stopped /\ level <= Levels(text_pos)

Use(match) == mesh' = Level(mesh, match) /\ level' = level + 1

(* max_match, with the turn of generate_edges around it. *)
NoNeighbour ==
  /\ pc = "match" /\ MoreLevels
  /\ Neighbours(level) = [pred |-> -1, succ |-> -1]
  /\ Use(NoMatch)
  /\ UNCHANGED <<text, isa, sa, windows, llmatch, rlmatch, text_pos, edges, pc>>

LongestMatch ==
  /\ pc = "match" /\ MoreLevels
  /\ Neighbours(level) # [pred |-> -1, succ |-> -1]
  /\ LET near == Neighbours(level) IN
     /\ llmatch' = [llmatch EXCEPT ![level] = Extend(near.pred, @)]
     /\ rlmatch' = [rlmatch EXCEPT ![level] = Extend(near.succ, @)]
     /\ Use(MatchOf(near, llmatch'[level], rlmatch'[level]))
  /\ UNCHANGED <<text, isa, sa, windows, text_pos, edges, pc>>

Shorter(n) == IF n > 0 THEN n - 1 ELSE 0
(* lcp::next_char; the classes not asked for are carried too. *)
PostGen ==
  /\ pc = "match" /\ ~ MoreLevels
  /\ llmatch' = [k \in DOMAIN Dst |-> Shorter(llmatch[k])]
  /\ rlmatch' = [k \in DOMAIN Dst |-> Shorter(rlmatch[k])]
  /\ text_pos' = text_pos + 1 /\ edges' = mesh.edges /\ pc' = "pre"
  /\ UNCHANGED <<text, isa, sa, windows, level, mesh>>

Terminated == text_pos = L
Next ==
  \/ PreGen \/ NoNeighbour \/ LongestMatch \/ PostGen
  \/ Terminated /\ UNCHANGED vars
Spec == Init /\ [][Next]_vars

-------------------------------------------------------------------------------
(* Properties.                                                             *)

(* The positions at a distance of class k before the current one.          *)
Within(k) == {p \in 0 .. (text_pos - 1) : text_pos - p \in ClassOf(k)}
NodesOf(k) == Nodes(pool, t[k])

(* Each window has exactly the positions of its class, although they go    *)
(* down the windows one at a time and a tree gives the next one the node   *)
(* of a position it may have moved to another.                             *)
WindowsHold ==
  pc = "match" =>
    /\ \A k \in 1 .. treenum :
         {<<pool[n].key, pool[n].info>> : n \in NodesOf(k)} = {<<isa[p], p>> : p \in Within(k)}
    /\ \A k \in DOMAIN ps : Elements(ps[k]) = {isa[p] : p \in Within(k)}

(* Trees are balanced and in order, no node is in two of them, and the one *)
(* given back by the last is in none; the summaries of bitmaps are right   *)
(* although Set and Remove stop before the top.                            *)
StructuresRight ==
  /\ \A k \in 1 .. treenum : IsAVL(pool, t[k]) /\ released \notin NodesOf(k)
  /\ \A j, k \in 1 .. treenum : j < k => NodesOf(j) \intersect NodesOf(k) = {}
  /\ \A k \in DOMAIN ps : SummariesRight(ps[k])

(* The edges of each position are those a generator promises. *)
Generator == INSTANCE EdgeGenerator WITH Offers <- Offers
KeepsPromise == Generator!Spec
===============================================================================
