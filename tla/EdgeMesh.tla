------------------------------- MODULE EdgeMesh -------------------------------
(***************************************************************************)
(* fsg_protocol and mesh_cost: from the longest match at each class of     *)
(* distances, the edges worth relaxing at one position.  A distance of a   *)
(* class costs the same as any other of it, and so does a length; an edge  *)
(* is worth relaxing when none as cheap is longer.  Dst and Lens are the   *)
(* upper ends of the classes of a cost model.                              *)
(***************************************************************************)
EXTENDS CostModels

CONSTANTS
  Dst,          \* cost_model::get_dst(), the farthest distance of each class
  Lens          \* cost_model::get_len(), the longest length of each class

ASSUME ClassesAssumption == IsClasses(Dst) /\ IsClasses(Lens)

-------------------------------------------------------------------------------
(* id_map: the class of distances and the class of lengths in one number. *)
Wrap(len_idx, d_idx) == WrapId(Len(Lens), len_idx, d_idx)
GetId(d, ell) == Wrap(LowerBound(Lens, ell), LowerBound(Dst, d))

-------------------------------------------------------------------------------
(* Text and matches.  max_match is what any generator promises: for a      *)
(* class, the longest match at a distance of it, whichever distance.       *)

(* How many symbols from position i repeat those d before, up to the end.  *)
MatchLen(text, i, d) ==
  LET L == Len(text)
      Repeats(n) == \A j \in 1 .. n : text[i + j] = text[i + j - d]
  IN  CHOOSE n \in 0 .. (L - i) : Repeats(n) /\ (n = L - i \/ ~ Repeats(n + 1))

ClassOf(k) == ((IF k = 1 THEN 0 ELSE Dst[k - 1]) + 1) .. Dst[k]

LevelsReached(i) == LowerBound(Dst, i)                                  \* mutant
(* levels: the classes with some distance that stays inside the text. *)
Levels(i) == IF i > Last(Dst) THEN Len(Dst) ELSE 1 + LowerBound(Dst, i)

NoMatch == [d |-> 0, ell |-> 0]
MaxMatchAny(text, i, k) ==                                              \* mutant
  LET all == {[d |-> d, ell |-> MatchLen(text, i, d)] : d \in ClassOf(k) \cap 1 .. i}
      some == {m \in all : m.ell > 0}
  IN  IF some = {} THEN {NoMatch} ELSE some
(* max_match of level k, from 1. *)
MaxMatch(text, i, k) ==
  LET all == {[d |-> d, ell |-> MatchLen(text, i, d)] : d \in ClassOf(k) \cap 1 .. i}
      best == {m \in all : m.ell > 0 /\ \A n \in all : n.ell <= m.ell}
  IN  IF best = {} THEN {NoMatch} ELSE best

(* Every copy that may start at i, with its classes. *)
IsCopy(text, i, e) ==
  /\ e.d \in 1 .. i /\ e.d <= Last(Dst)
  /\ e.ell \in 1 .. MatchLen(text, i, e.d) /\ e.ell <= Last(Lens)
Copies(text, i) ==
  {[d |-> e.d, ell |-> e.ell, cost_id |-> GetId(e.d, e.ell)] :
     e \in {c \in [d : 1 .. i, ell : 1 .. (Len(text) - i)] : IsCopy(text, i, c)}}

-------------------------------------------------------------------------------
(* mesh_cost.  dst_idx and len_idx are indices from 0, cur and prev are    *)
(* cur_len and prev_len, id is cost_id; maxlen, edges and stopped are      *)
(* locals of generate_edges: maxlen, maxedges[0 .. p-1] and its break.     *)
Reset == [dst_idx |-> 0, len_idx |-> 0, cur |-> 0, prev |-> 0, id |-> 0,
          maxlen |-> 0, edges |-> <<>>, stopped |-> FALSE]

SetLen(m, ell) == [m EXCEPT !.cur = IF ell <= Last(Lens) THEN ell ELSE Last(Lens)]

(* while (mc.up(..)): an edge for each class of lengths that ends on the   *)
(* way from the length reached before to the current one, and one more for *)
(* the current length when it ends no class.                               *)
Climb(m, d) ==
  LET done  == {k \in (m.len_idx + 1) .. Len(Lens) : Lens[k] <= m.cur}
      n     == Cardinality(done)
      ends  == [k \in 1 .. n |-> Lens[m.len_idx + k]] \o
               (IF m.cur \in {Lens[k] : k \in done} THEN <<>> ELSE <<m.cur>>)
  IN  IF m.prev >= m.cur THEN m
      ELSE [m EXCEPT !.len_idx = @ + n, !.id = @ + n, !.prev = m.cur,
                     !.edges = @ \o [k \in DOMAIN ends |->
                                       [d |-> d, ell |-> ends[k], cost_id |-> m.id + k - 1]]]

Right(m) ==
  LET dst_idx == m.dst_idx + 1
      done    == m.len_idx < Len(Lens) /\ m.cur = Lens[m.len_idx + 1]
      len_idx == IF done THEN m.len_idx + 1 ELSE m.len_idx
  IN  IF dst_idx >= Len(Dst) THEN [m EXCEPT !.dst_idx = dst_idx]
      ELSE [m EXCEPT !.dst_idx = dst_idx, !.len_idx = len_idx, !.id = Wrap(len_idx, dst_idx)]

LevelStopsEarly(m, match) ==                                            \* mutant
  LET climbed == IF match.ell > m.maxlen
                 THEN Climb(SetLen([m EXCEPT !.maxlen = match.ell], match.ell), match.d)
                 ELSE m
  IN  IF match.ell >= Lens[1] THEN [climbed EXCEPT !.stopped = TRUE] ELSE Right(climbed)
(* One turn of the loop of generate_edges: a level whose match is longer   *)
(* than those of the levels before it adds edges; one as long as the last  *)
(* class of lengths ends the loop.                                         *)
Level(m, match) ==
  LET climbed == IF match.ell > m.maxlen
                 THEN Climb(SetLen([m EXCEPT !.maxlen = match.ell], match.ell), match.d)
                 ELSE m
  IN  IF match.ell >= Last(Lens) THEN [climbed EXCEPT !.stopped = TRUE] ELSE Right(climbed)

(* max_levels: the size of maxedges. *)
MaxLevels == Len(Dst) + Len(Lens) + 2

(* What a generator offers at i: copies of the text, each longer than the  *)
(* one before and with the id of its classes, that fit in maxedges; and    *)
(* for each copy the position allows one at least as long, in classes no   *)
(* higher.                                                                 *)
Offers(text, i, edges) ==
  /\ Len(edges) <= MaxLevels
  /\ \A k \in DOMAIN edges :
       /\ IsCopy(text, i, edges[k]) /\ edges[k].cost_id = GetId(edges[k].d, edges[k].ell)
       /\ k > 1 => edges[k - 1].ell < edges[k].ell
  /\ \A c \in Copies(text, i) : \E k \in DOMAIN edges :
       /\ edges[k].ell >= c.ell
       /\ LowerBound(Dst, edges[k].d) <= LowerBound(Dst, c.d)
       /\ LowerBound(Lens, edges[k].ell) <= LowerBound(Lens, c.ell)
===============================================================================
