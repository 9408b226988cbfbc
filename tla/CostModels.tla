------------------------------ MODULE CostModels ------------------------------
(***************************************************************************)
(* cost_model: what a phrase costs, by the class of its distance and that  *)
(* of its length, and the models made of two others.  A copy carries the   *)
(* id of its two classes, which finds its cost in the cost map.            *)
(***************************************************************************)
EXTENDS Integers, Sequences, FiniteSets, SequencesExt

Pow2[n \in Nat] == IF n = 0 THEN 1 ELSE 2 * Pow2[n - 1]    \* 1 << n

(* bits: how many binary digits u takes. *)
Bits(u) == CHOOSE b \in 0 .. u : u < Pow2[b] /\ \A c \in 0 .. (b - 1) : Pow2[c] <= u

(* std::lower_bound: the index, from 0, of the first element not below x. *)
LowerBound(v, x) == Cardinality({k \in DOMAIN v : v[k] < x})

(* id_map of a model with that many classes of lengths. *)
Width(lens) == Pow2[Bits(lens - 1)]
WrapId(lens, len_idx, d_idx) == d_idx * Width(lens) + len_idx

(* The upper ends of classes. *)
Increasing(v) == \A k \in 2 .. Len(v) : v[k - 1] < v[k]
IsClasses(v) == v \in Seq(Nat \ {0}) /\ v # <<>> /\ Increasing(v)

-------------------------------------------------------------------------------
(* A model: the upper ends of its classes, what they cost, and literals.   *)
CostModel(dst, len, copy, lit_fixed, lit_var, per_char) ==
  [dst |-> dst, len |-> len, copy |-> copy,
   lit_fixed |-> lit_fixed, lit_var |-> lit_var, per_char |-> per_char]

(* The matrix of a class_info of distances and one of lengths. *)
SumMatrix(dst, len) ==
  [i \in DOMAIN dst.win |-> [j \in DOMAIN len.win |-> dst.costs[i] + len.costs[j]]]

(* build_cost_map: ids between the classes of a row cost nothing. *)
CostMap(m) ==
  LET lens == Len(m.len)  width == Width(lens)
  IN  [id \in 0 .. WrapId(lens, lens - 1, Len(m.dst) - 1) |->
        IF id % width < lens THEN m.copy[(id \div width) + 1][(id % width) + 1] ELSE 0]

(* The asserts of get_idx. *)
InClasses(m, d, ell) == d <= Last(m.dst) /\ ell <= Last(m.len)
GetIdOf(m, d, ell) == WrapId(Len(m.len), LowerBound(m.len, ell), LowerBound(m.dst, d))
GetCost(m, d, ell) == m.copy[LowerBound(m.dst, d) + 1][LowerBound(m.len, ell) + 1]
LitCost(m, ell) == m.lit_fixed + ell * m.lit_var

(* id: two models have the same one when their cost maps are the same. *)
Id(m) == CostMap(m)

-------------------------------------------------------------------------------
(* fuse: the classes of both models, at the cost of one plus lambda times  *)
(* that of the other.                                                      *)
FuseEnds(v1, v2) ==
  LET ends == ToSet(v1) \union ToSet(v2)
  IN  [k \in 1 .. Cardinality(ends) |->
        CHOOSE x \in ends : Cardinality({y \in ends : y < x}) = k - 1]

FuseByStart(c1, c2, lambda) ==                                          \* mutant
  LET dst == FuseEnds(c1.dst, c2.dst)
      len == FuseEnds(c1.len, c2.len)
      Start(v, k) == IF k = 1 THEN 1 ELSE v[k - 1]
      At(c, i, j) == GetCost(c, Start(dst, i), Start(len, j))
      lit_fix == LitCost(c1, 0) + lambda * LitCost(c2, 0)
  IN  CostModel(dst, len,
        [i \in DOMAIN dst |-> [j \in DOMAIN len |-> At(c1, i, j) + lambda * At(c2, i, j)]],
        lit_fix, LitCost(c1, 1) + lambda * LitCost(c2, 1) - lit_fix,
        c1.per_char + lambda * c2.per_char)
FuseUnweighted(c1, c2, lambda) ==                                       \* mutant
  LET dst == FuseEnds(c1.dst, c2.dst)
      len == FuseEnds(c1.len, c2.len)
      At(c, i, j) == GetCost(c, dst[i], len[j])
      lit_fix == LitCost(c1, 0) + lambda * LitCost(c2, 0)
  IN  CostModel(dst, len,
        [i \in DOMAIN dst |-> [j \in DOMAIN len |-> At(c1, i, j) + At(c2, i, j)]],
        lit_fix, LitCost(c1, 1) + lambda * LitCost(c2, 1) - lit_fix,
        c1.per_char + lambda * c2.per_char)
Fuse(c1, c2, lambda) ==
  LET dst == FuseEnds(c1.dst, c2.dst)
      len == FuseEnds(c1.len, c2.len)
      At(c, i, j) == GetCost(c, dst[i], len[j])
      lit_fix == LitCost(c1, 0) + lambda * LitCost(c2, 0)
  IN  CostModel(dst, len,
        [i \in DOMAIN dst |-> [j \in DOMAIN len |-> At(c1, i, j) + lambda * At(c2, i, j)]],
        lit_fix, LitCost(c1, 1) + lambda * LitCost(c2, 1) - lit_fix,
        c1.per_char + lambda * c2.per_char)

(* cm_factory: both models on the classes of the two, and their mixtures. *)
cm_factory(cost, weight) == [cost |-> Fuse(cost, weight, 0), weight |-> Fuse(weight, cost, 0)]
Mixture(factory, lambda) == Fuse(factory.cost, factory.weight, lambda)
===============================================================================
