----------------------------- MODULE OptimalSubseq -----------------------------
(***************************************************************************)
(* optimal_subseq: which of the ends of the classes of distances blocks    *)
(* are kept for.  A class between two of the chosen ends is served by the  *)
(* blocks of the one that contains it.  Ends increase and the last is the  *)
(* length of the text; d is the sequence of ends with 0 before it.         *)
(***************************************************************************)
EXTENDS Integers, Sequences, FiniteSets, FiniteSetsExt, SequencesExt

LOCAL WithZero(dst) == [k \in 0 .. Len(dst) |-> IF k = 0 THEN 0 ELSE dst[k]]

(* What blocks for the distances from d[i] to d[j] take, and the buffers   *)
(* of the classes in there.                                                *)
edge_cost(d, i, j) == (IF i = 0 THEN 0 ELSE d[j] - d[i]) + (j - i) * (d[j] - d[i])

(* The step from j to i may follow that from k to j if it ends the chain,  *)
(* doubles the first one, or is a multiple of it.  The start counts as a   *)
(* step of size one, which nothing of size one may follow.                 *)
MayFollow(d, i, j, k) ==
  LET size == d[i] - d[j]
      before == IF j = 0 THEN 1 ELSE d[j] - d[k]
  IN  \/ i + 1 = Cardinality(DOMAIN d)
      \/ d[i] = 2 * d[j] /\ k = 0
      \/ size % before = 0 /\ size > before

(* The cheapest, and of those as cheap the smallest step: the map of steps *)
(* into a position is in the order of their sizes.                         *)
Cheapest(steps, S) == Max({j \in S : \A l \in S : steps[j].cost <= steps[l].cost})

(* opt: for each end i and each j a chain may step from to i, what the     *)
(* cheapest such chain costs and where it stepped to j from.               *)
Table(d) ==
  LET opt[i \in DOMAIN d] ==
        IF i = 0 THEN [j \in {0} |-> [cost |-> 0, pred |-> 0]]
        ELSE LET Before(j) == {k \in DOMAIN opt[j] : MayFollow(d, i, j, k)}
             IN  [j \in {n \in 0 .. (i - 1) : Before(n) # {}} |->
                   LET k == Cheapest(opt[j], Before(j))
                   IN  [cost |-> edge_cost(d, j, i) + opt[j][k].cost, pred |-> k]]
  IN  opt

get_seq(dst) ==
  LET d == WithZero(dst)
      opt == Table(d)
      Back[step \in (DOMAIN d) \X (DOMAIN d)] ==
        LET i == step[1]  j == step[2] IN
        IF i = 0 THEN <<>> ELSE Append(Back[<<j, opt[i][j].pred>>], d[i])
      last == opt[Len(dst)]
  IN  Back[<<Len(dst), Cheapest(last, DOMAIN last)>>]

-------------------------------------------------------------------------------
(* Which chosen end contains a class, where its blocks start, their size.  *)
get_father(dst, sol) ==
  [i \in DOMAIN dst |-> CHOOSE k \in DOMAIN dst :
                          dst[k] = Min({x \in ToSet(sol) : x >= dst[i]})]
get_opt_father(dst, sol) ==
  LET father == get_father(dst, sol) IN
  [i \in DOMAIN dst |-> 1 + Cardinality({k \in 1 .. (i - 1) : father[k] = k})]

get_thresholds(dst, sol, opt_father) ==
  LET from == WithZero(sol) IN [i \in DOMAIN dst |-> from[opt_father[i] - 1]]
get_costs(dst, sol, opt_father) ==
  LET from == WithZero(sol) IN
  [i \in DOMAIN dst |-> from[opt_father[i]] - from[opt_father[i] - 1]]
===============================================================================
