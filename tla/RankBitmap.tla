------------------------------ MODULE RankBitmap ------------------------------
(***************************************************************************)
(* PSStruct: a set of numbers as a tree of words, for the numbers before   *)
(* and after one.  A bit of level 0 is a number, one of a level above says *)
(* that a word of the level below is not empty; from level 1 up each word  *)
(* keeps the least and the greatest number under it, so that Set and       *)
(* Remove may stop before the top.  A word is the set of its bits.         *)
(***************************************************************************)
EXTENDS Integers, FiniteSets, FiniteSetsExt

CONSTANT WordBits     \* 32 in the code
ASSUME WordBitsAssumption == WordBits \in Nat /\ WordBits > 1

(* A bit of level j is for this many numbers. *)
Span[j \in Nat] == IF j = 0 THEN 1 ELSE WordBits * Span[j - 1]
WordOf(e, j) == e \div Span[j + 1]
BitOf(e, j) == (e \div Span[j]) % WordBits

(* Log32: how many levels numbers up to range take. *)
Levels32(range) == CHOOSE j \in 0 .. range :
  /\ range <= Span[j]
  /\ \A i \in 0 .. (j - 1) : range > Span[i]

(* SetRange.  The words it allocates are those of range + 1 numbers, on    *)
(* the levels of range; it fills the levels of range + 1, one of them past *)
(* the end of its arrays when range is a power of WordBits.                *)
FillsWhatItHas(range) == Levels32(range + 1) = Levels32(range)
EmptyBitmap(range) ==
  LET levels == 0 .. (Levels32(range) - 1)
      Words(j) == 0 .. WordOf(range, j)
  IN  [bm  |-> [j \in levels |-> [k \in Words(j) |-> {}]],
       min |-> [j \in levels |-> [k \in Words(j) |-> range]],
       max |-> [j \in levels |-> [k \in Words(j) |-> 0]]]

Top(ps) == Cardinality(DOMAIN ps.bm) - 1
Word(ps, e, j) == ps.bm[j][WordOf(e, j)]

Highest(ps, e) ==
  LET Within(j) == /\ Word(ps, e, j) # {}
                   /\ ps.min[j][WordOf(e, j)] <= e /\ e <= ps.max[j][WordOf(e, j)]
  IN  Min({j \in 1 .. Top(ps) : Within(j)} \union {Top(ps)})
BitSet(ps, e) ==
  LET reach == Highest(ps, e)
      New(j) == Word(ps, e, j) = {}
      Put(f, j, yes) == IF j \in 1 .. reach /\ yes THEN [f EXCEPT ![WordOf(e, j)] = e] ELSE f
  IN  [bm  |-> [j \in DOMAIN ps.bm |->
                  IF j <= reach THEN [ps.bm[j] EXCEPT ![WordOf(e, j)] = @ \union {BitOf(e, j)}]
                                ELSE ps.bm[j]],
       min |-> [j \in DOMAIN ps.min |-> Put(ps.min[j], j, New(j) \/ e < ps.min[j][WordOf(e, j)])],
       max |-> [j \in DOMAIN ps.max |-> Put(ps.max[j], j, New(j) \/ e > ps.max[j][WordOf(e, j)])]]

(* findMin, findMax: the least and greatest number under word k of level j. *)
FindMin(ps, k, j) == IF j = 0 THEN Min(ps.bm[0][k]) + k * WordBits ELSE ps.min[j][k]
FindMax(ps, k, j) == IF j = 0 THEN Max(ps.bm[0][k]) + k * WordBits ELSE ps.max[j][k]
(* ... and those of word k found again from its bits. *)
LeastUnder(ps, k, j) ==
  IF j = 0 THEN FindMin(ps, k, 0) ELSE FindMin(ps, k * WordBits + Min(ps.bm[j][k]), j - 1)
GreatestUnder(ps, k, j) ==
  IF j = 0 THEN FindMax(ps, k, 0) ELSE FindMax(ps, k * WordBits + Max(ps.bm[j][k]), j - 1)

(* Remove: the bit goes from each word up to the first one not left empty, *)
(* whose new end replaces the number up to the first word it is no end of. *)
BitRemove(ps, e) ==
  LET kept == {j \in DOMAIN ps.bm : Word(ps, e, j) # {BitOf(e, j)}}
      low  == IF kept = {} THEN Top(ps) ELSE Min(kept)
      cut  == [ps EXCEPT !.bm = [j \in DOMAIN ps.bm |->
                 IF j <= low THEN [ps.bm[j] EXCEPT ![WordOf(e, j)] = @ \ {BitOf(e, j)}] ELSE ps.bm[j]]]
      k    == WordOf(e, low)
      isMin == \A i \in cut.bm[low][k] : i > BitOf(e, low)
      isMax == \A i \in cut.bm[low][k] : i < BitOf(e, low)
      val  == IF isMin THEN LeastUnder(cut, k, low) ELSE GreatestUnder(cut, k, low)
      EndOf(j) == e \in {ps.min[j][WordOf(e, j)], ps.max[j][WordOf(e, j)]}
      reach == Max({j \in low .. Top(ps) : \A i \in (low + 1) .. j : EndOf(i)})
      Put(f, j, yes) == IF j \in low .. reach /\ yes THEN [f EXCEPT ![WordOf(e, j)] = val] ELSE f
  IN  IF kept = {} \/ (~ isMin /\ ~ isMax) THEN cut
      ELSE [cut EXCEPT
        !.min = [j \in DOMAIN @ |-> Put(@[j], j, IF j = low THEN low > 0 /\ isMin
                                                 ELSE @[j][WordOf(e, j)] = e)],
        !.max = [j \in DOMAIN @ |-> Put(@[j], j, IF j = low THEN low > 0 /\ ~ isMin
                                                 ELSE @[j][WordOf(e, j)] = e
                                                      /\ ps.min[j][WordOf(e, j)] # e)]]

(* Search: from the word of e up, the first with a bit on that side. *)
BitSearch(ps, e) ==
  LET Below(j) == {i \in Word(ps, e, j) : i < BitOf(e, j)}
      Above(j) == {i \in Word(ps, e, j) : i > BitOf(e, j)}
      First(Side(_)) == Min({j \in DOMAIN ps.bm : Side(j) # {}})
      At(j, i) == WordOf(e, j) * WordBits + i
      Found(j, i, Find(_, _, _)) == IF j = 0 THEN At(0, i) ELSE Find(ps, At(j, i), j - 1)
      None(Side(_)) == \A j \in DOMAIN ps.bm : Side(j) = {}
  IN  [prev |-> IF None(Below) THEN -1 ELSE Found(First(Below), Max(Below(First(Below))), FindMax),
       next |-> IF None(Above) THEN -1 ELSE Found(First(Above), Min(Above(First(Above))), FindMin)]

-------------------------------------------------------------------------------
(* The numbers in a bitmap, and what its upper levels say of them. *)
Elements(ps) == UNION {{k * WordBits + i : i \in ps.bm[0][k]} : k \in DOMAIN ps.bm[0]}
SummariesRight(ps) ==
  \A j \in 1 .. Top(ps) : \A k \in DOMAIN ps.bm[j] :
    LET under == {e \in Elements(ps) : WordOf(e, j) = k} IN
    /\ ps.bm[j][k] = {BitOf(e, j) : e \in under}
    /\ under # {} => ps.min[j][k] = Min(under) /\ ps.max[j][k] = Max(under)
===============================================================================
