---------------------------- MODULE CalibrationProofs ----------------------------
(***************************************************************************)
(* What Calibration promises of every machine, encoder, measure and        *)
(* multiplier that meets its assumptions: fused models price each phrase   *)
(* as the sum of their parts, a target gives back the model put in it, and *)
(* classes reduced keep their times.  EdgeMeshProofs is here for its       *)
(* lemmas on vectors of classes; its own classes play no part.             *)
(***************************************************************************)
EXTENDS Calibration, EdgeMeshProofs

-------------------------------------------------------------------------------
(* Fused classes.                                                          *)

(* How many members of S are below x: the greater, the more.               *)
Rank(S, x) == Cardinality({y \in S : y < x})

LEMMA RanksGrow ==
  ASSUME NEW S, S \subseteq Nat, IsFiniteSet(S)
  PROVE  /\ \A x \in S : Rank(S, x) \in 0 .. (Cardinality(S) - 1)
         /\ \A x, y \in S : x < y => Rank(S, x) < Rank(S, y)
<1>1. ASSUME NEW x \in S PROVE Rank(S, x) \in 0 .. (Cardinality(S) - 1)
  <2> DEFINE T == {y \in S : y < x}
  <2>1. T \in SUBSET S /\ x \in S /\ x \notin T
    OBVIOUS
  <2> HIDE DEF T
  <2>2. IsFiniteSet(T) /\ Cardinality(T) < Cardinality(S)
    <3>1. IsFiniteSet(T) /\ Cardinality(T) <= Cardinality(S) /\ (Cardinality(S) = Cardinality(T) => S = T)
      BY <2>1, FS_Subset
    <3> QED
      BY <2>1, <3>1, FS_CardinalityType
  <2>3. Cardinality(T) \in Nat /\ Cardinality(S) \in Nat
    BY <2>2, FS_CardinalityType
  <2> QED
    BY <2>2, <2>3 DEF Rank, T
<1>2. ASSUME NEW x \in S, NEW y \in S, x < y PROVE Rank(S, x) < Rank(S, y)
  <2> DEFINE T == {z \in S : z < x}
             U == {z \in S : z < y}
  <2>1. x \in U /\ x \notin T /\ U \in SUBSET S /\ x \in Nat /\ y \in Nat
    BY <1>2
  <2>a. ASSUME NEW z \in T PROVE z \in U
    <3>1. z \in Nat /\ z < x
      OBVIOUS
    <3> QED
      BY <1>2, <2>1, <3>1
  <2>b. T \in SUBSET U
    BY <2>a
  <2> HIDE DEF T, U
  <2>2. IsFiniteSet(U)
    BY <2>1, FS_Subset
  <2>3. IsFiniteSet(T) /\ Cardinality(T) <= Cardinality(U) /\ (Cardinality(U) = Cardinality(T) => U = T)
    BY <2>b, <2>2, FS_Subset
  <2>4. Cardinality(T) \in Nat /\ Cardinality(U) \in Nat
    BY <2>2, <2>3, FS_CardinalityType
  <2>5. Cardinality(T) < Cardinality(U)
    BY <2>1, <2>3, <2>4
  <2> QED
    BY <2>5 DEF Rank, T, U
<1> QED
  BY <1>1, <1>2

(* Every rank below the size of S is that of one member.                   *)
LEMMA RanksAreAll ==
  ASSUME NEW S, S \subseteq Nat, IsFiniteSet(S), NEW n \in 0 .. (Cardinality(S) - 1)
  PROVE  \E x \in S : Rank(S, x) = n
<1> DEFINE R == 0 .. (Cardinality(S) - 1)
           f == [x \in S |-> Rank(S, x)]
<1>1. Cardinality(S) \in Nat
  BY FS_CardinalityType
<1>2. /\ \A x \in S : Rank(S, x) \in R
      /\ \A x, y \in S : x < y => Rank(S, x) < Rank(S, y)
  BY RanksGrow
<1>3. f \in [S -> R]
  BY <1>2
<1>4. ASSUME NEW x \in S, NEW y \in S, f[x] = f[y] PROVE x = y
  <2>1. Rank(S, x) = Rank(S, y) /\ Rank(S, x) \in Int /\ x \in Nat /\ y \in Nat
    BY <1>2, <1>4
  <2>2. ~ (x < y) /\ ~ (y < x)
    BY <1>2, <2>1
  <2> QED
    BY <2>1, <2>2
<1> HIDE DEF f
<1>5. f \in Injection(S, R)
  BY <1>3, <1>4 DEF Injection, IsInjective
<1>6. IsFiniteSet(R) /\ Cardinality(R) = Cardinality(S)
  <2> DEFINE N == Cardinality(S)
             last == N - 1
  <2>1. 0 \in Int /\ last \in Int /\ N \in Nat /\ last = N - 1
    BY <1>1
  <2> HIDE DEF last, N
  <2>2. IsFiniteSet(0 .. last) /\ Cardinality(0 .. last) = IF 0 > last THEN 0 ELSE last - 0 + 1
    BY <2>1, FS_Interval, Zenon
  <2>3. Cardinality(0 .. last) = N
    BY <2>1, <2>2
  <2> QED
    BY <2>2, <2>3 DEF last, N
<1>7. f \in Surjection(S, R)
  BY <1>5, <1>6, FS_Injection
<1>8. PICK x \in S : f[x] = n
  BY <1>7 DEF Surjection
<1> QED
  BY <1>8 DEF f

LEMMA FiniteRange ==
  ASSUME NEW v, Len(v) \in Nat, DOMAIN v = 1 .. Len(v)
  PROVE  IsFiniteSet(ToSet(v))
<1> DEFINE D == DOMAIN v
           R == ToSet(v)
           f == [k \in D |-> v[k]]
<1>1. IsFiniteSet(D)
  BY FS_Interval
<1>2. f \in [D -> R] /\ \A x \in R : \E k \in D : f[k] = x
  BY DEF ToSet
<1> HIDE DEF D, R, f
<1>3. f \in Surjection(D, R)
  BY <1>2 DEF Surjection
<1> QED
  BY <1>1, <1>3, FS_Surjection DEF R

(* A vector of the members of S by rank has them all, in order.            *)
ByRank(S, N, v) == v \in [1 .. N -> Nat \ {0}] /\ \A k \in 1 .. N : v[k] \in S /\ Rank(S, v[k]) = k - 1
LEMMA ByRankIsClasses ==
  ASSUME NEW S, S \subseteq Nat, IsFiniteSet(S), NEW N \in Nat \ {0}, N = Cardinality(S),
         NEW v, ByRank(S, N, v)
  PROVE  IsClasses(v) /\ ToSet(v) = S
<1>1. v \in [1 .. N -> Nat \ {0}] /\ DOMAIN v = 1 .. N
  BY DEF ByRank
<1>2. v \in Seq(Nat \ {0}) /\ Len(v) = N
  BY <1>1
<1>3. \A k \in 1 .. N : v[k] \in S /\ Rank(S, v[k]) = k - 1
  BY DEF ByRank
<1>6. /\ \A x \in S : Rank(S, x) \in 0 .. (N - 1)
      /\ \A x, y \in S : x < y => Rank(S, x) < Rank(S, y)
  BY RanksGrow
<1>7. ASSUME NEW k \in 2 .. N PROVE v[k - 1] < v[k]
  <2>1. k - 1 \in 1 .. N /\ k \in 1 .. N
    OBVIOUS
  <2> DEFINE a == v[k - 1]
             c == v[k]
  <2>2. a \in S /\ Rank(S, a) = (k - 1) - 1
    BY <2>1, <1>3
  <2>3. c \in S /\ Rank(S, c) = k - 1
    BY <2>1, <1>3
  <2> HIDE DEF a, c
  <2>4. ~ (c < a) /\ a # c /\ a \in Nat /\ c \in Nat
    BY <2>2, <2>3, <1>6
  <2>5. a < c
    BY <2>4
  <2> QED
    BY <2>5 DEF a, c
<1>8. IsClasses(v)
  <2>1. v # <<>>
    BY <1>2
  <2> QED
    BY <1>2, <1>7, <2>1 DEF IsClasses, Increasing
<1>9. ASSUME NEW x \in S PROVE \E k \in 1 .. N : v[k] = x
  <2> DEFINE k == Rank(S, x) + 1
  <2>1. k \in 1 .. N /\ k - 1 = Rank(S, x)
    BY <1>6
  <2> HIDE DEF k
  <2>2. v[k] \in S /\ Rank(S, v[k]) = Rank(S, x)
    BY <2>1, <1>3
  <2> DEFINE y == v[k]
  <2>3. y \in S /\ Rank(S, y) = Rank(S, x)
    BY <2>2
  <2> HIDE DEF y
  <2>4. ~ (x < y) /\ ~ (y < x) /\ x \in Nat /\ y \in Nat
    BY <1>6, <2>3
  <2>5. y = x
    BY <2>4
  <2> QED
    BY <2>1, <2>5 DEF y
<1>10. ToSet(v) = S
  <2>1. ToSet(v) = {v[k] : k \in 1 .. N}
    BY <1>1 DEF ToSet
  <2>2. ASSUME NEW x \in ToSet(v) PROVE x \in S
    <3>1. PICK k \in 1 .. N : x = v[k]
      BY <2>1
    <3> QED
      BY <1>3, <3>1, Zenon
  <2>3. ASSUME NEW x \in S PROVE x \in ToSet(v)
    <3>1. PICK k \in 1 .. N : v[k] = x
      BY <1>9, Zenon
    <3> QED
      BY <2>1, <3>1, Zenon
  <2> QED
    BY <2>2, <2>3
<1> QED
  BY <1>8, <1>10

(* fuse keeps the ends of both vectors, sorted, each once.                 *)
SortedOf(S) == [k \in 1 .. Cardinality(S) |-> CHOOSE x \in S : Rank(S, x) = k - 1]
LEMMA SortedIs ==
  ASSUME NEW S, S \subseteq Nat \ {0}, IsFiniteSet(S), S # {}
  PROVE  IsClasses(SortedOf(S)) /\ ToSet(SortedOf(S)) = S
<1> DEFINE N == Cardinality(S)
           v == SortedOf(S)
<1>1. N \in Nat \ {0} /\ S \subseteq Nat
  BY FS_CardinalityType, FS_EmptySet
<1>2. ASSUME NEW k \in 1 .. N PROVE v[k] \in S /\ Rank(S, v[k]) = k - 1
  <2>1. v[k] = CHOOSE x \in S : Rank(S, x) = k - 1
    BY DEF SortedOf
  <2>2. k - 1 \in 0 .. (Cardinality(S) - 1)
    BY <1>1
  <2>3. \E x \in S : Rank(S, x) = k - 1
    BY <1>1, <2>2, RanksAreAll
  <2> QED
    BY <2>1, <2>3
<1>3. v = [k \in 1 .. N |-> v[k]]
  BY DEF SortedOf
<1> HIDE DEF v
<1>4. v \in [1 .. N -> Nat \ {0}]
  <2> HIDE DEF N
  <2> QED
    BY <1>2, <1>3
<1>5. ByRank(S, N, v)
  BY <1>2, <1>4 DEF ByRank
<1> HIDE DEF N
<1>6. IsClasses(v) /\ ToSet(v) = S
  <2>1. N = Cardinality(S)
    BY DEF N
  <2> QED
    BY <1>1, <1>5, <2>1, ByRankIsClasses
<1> QED
  BY <1>6 DEF v

LEMMA FuseEndsIs ==
  ASSUME NEW v1, NEW v2, IsClasses(v1), IsClasses(v2)
  PROVE  /\ IsClasses(FuseEnds(v1, v2))
         /\ ToSet(FuseEnds(v1, v2)) = ToSet(v1) \union ToSet(v2)
<1> DEFINE S == ToSet(v1) \union ToSet(v2)
           v == FuseEnds(v1, v2)
<1>1. /\ v1 \in Seq(Nat \ {0}) /\ Len(v1) \in Nat \ {0} /\ DOMAIN v1 = 1 .. Len(v1)
      /\ \A k \in 1 .. Len(v1) : v1[k] \in Nat \ {0}
  BY ClassesIncrease
<1>2. /\ v2 \in Seq(Nat \ {0}) /\ Len(v2) \in Nat \ {0} /\ DOMAIN v2 = 1 .. Len(v2)
      /\ \A k \in 1 .. Len(v2) : v2[k] \in Nat \ {0}
  BY ClassesIncrease
<1>3. IsFiniteSet(S)
  <2>1. IsFiniteSet(ToSet(v1))
    BY <1>1, FiniteRange
  <2>2. IsFiniteSet(ToSet(v2))
    BY <1>2, FiniteRange
  <2> QED
    BY <2>1, <2>2, FS_Union
<1>4. S \subseteq Nat \ {0} /\ S # {}
  <2>1. ASSUME NEW x \in ToSet(v1) PROVE x \in Nat \ {0}
    BY <1>1 DEF ToSet
  <2>2. ASSUME NEW x \in ToSet(v2) PROVE x \in Nat \ {0}
    BY <1>2 DEF ToSet
  <2>3. v1[1] \in ToSet(v1)
    BY <1>1 DEF ToSet
  <2> QED
    BY <2>1, <2>2, <2>3
<1>5. v = SortedOf(S)
  BY DEF FuseEnds, SortedOf, Rank
<1> HIDE DEF S, v
<1>6. IsClasses(v) /\ ToSet(v) = S
  BY <1>3, <1>4, <1>5, SortedIs
<1> QED
  BY <1>6 DEF S, v

(* A vector ends with its greatest member.                                 *)
LEMMA LastIs ==
  ASSUME NEW v, IsClasses(v)
  PROVE  /\ Last(v) \in ToSet(v) /\ Last(v) \in Nat \ {0} /\ Last(v) = v[Len(v)]
         /\ \A x \in ToSet(v) : x \in Nat \ {0} /\ x <= Last(v)
<1>1. /\ Len(v) \in Nat \ {0} /\ DOMAIN v = 1 .. Len(v)
      /\ \A k \in 1 .. Len(v) : v[k] \in Nat \ {0} /\ v[k] <= v[Len(v)]
  BY ClassesIncrease
<1>2. Len(v) \in 1 .. Len(v)
  BY <1>1
<1> QED
  BY <1>1, <1>2 DEF Last, ToSet

(* The farther of the two last ends is the last of the fused.              *)
LEMMA FusedLast ==
  ASSUME NEW v1, NEW v2, IsClasses(v1), IsClasses(v2), Last(v2) <= Last(v1)
  PROVE  Last(FuseEnds(v1, v2)) = Last(v1)
<1> DEFINE v == FuseEnds(v1, v2)
           a == Last(v1)
           b == Last(v)
<1>1. IsClasses(v) /\ ToSet(v) = ToSet(v1) \union ToSet(v2)
  BY FuseEndsIs
<1> HIDE DEF v
<1>2. a \in ToSet(v) /\ b \in ToSet(v1) \union ToSet(v2) /\ a \in Nat /\ b \in Nat
  BY <1>1, LastIs
<1>3. a <= b
  BY <1>1, <1>2, LastIs
<1>4. b <= a
  <2>1. CASE b \in ToSet(v1)
    BY <2>1, LastIs
  <2>2. CASE b \in ToSet(v2)
    <3>1. b <= Last(v2) /\ Last(v2) \in Nat
      BY <2>2, LastIs
    <3> QED
      BY <1>2, <3>1
  <2> QED
    BY <1>2, <2>1, <2>2
<1>5. b = a
  BY <1>2, <1>3, <1>4
<1> QED
  BY <1>5 DEF v

(* The class of v with x in it has the end of the class of w with x in it, *)
(* when every end of v is one of w.                                        *)
LEMMA SameClassOfEnd ==
  ASSUME NEW v, NEW w, IsClasses(v), IsClasses(w), ToSet(v) \subseteq ToSet(w),
         NEW x \in Nat, x <= Last(w)
  PROVE  /\ LowerBound(w, x) + 1 \in 1 .. Len(w) /\ w[LowerBound(w, x) + 1] \in Nat \ {0}
         /\ LowerBound(v, w[LowerBound(w, x) + 1]) = LowerBound(v, x)
<1> DEFINE b == LowerBound(w, x)
           e == w[b + 1]
<1>1. /\ Len(w) \in Nat \ {0} /\ DOMAIN w = 1 .. Len(w)
      /\ \A k \in 1 .. Len(w) : w[k] \in Nat \ {0}
      /\ \A k, n \in 1 .. Len(w) : k < n => w[k] < w[n]
  BY ClassesIncrease
<1>2. /\ DOMAIN v = 1 .. Len(v) /\ \A k \in 1 .. Len(v) : v[k] \in Nat \ {0}
  BY ClassesIncrease
<1>3. b \in 0 .. (Len(w) - 1) /\ \A k \in 1 .. Len(w) : w[k] < x <=> k <= b
  <2>1. /\ LowerBound(w, x) \in 0 .. Len(w) /\ LowerBound(w, x) < Len(w)
        /\ \A k \in 1 .. Len(w) : w[k] < x <=> k <= LowerBound(w, x)
    BY LowerBoundIs
  <2> HIDE DEF b
  <2>2. b \in 0 .. Len(w) /\ b < Len(w)
    BY <2>1 DEF b
  <2> QED
    BY <1>1, <2>1, <2>2 DEF b
<1> HIDE DEF b
<1>4. b + 1 \in 1 .. Len(w) /\ e \in Nat \ {0} /\ x <= e
  BY <1>1, <1>3
<1>5. ASSUME NEW k \in 1 .. Len(v) PROVE v[k] < e <=> v[k] < x
  <2> DEFINE y == v[k]
  <2>1. y \in Nat /\ y \in ToSet(w)
    BY <1>2 DEF ToSet
  <2>2. PICK n \in 1 .. Len(w) : y = w[n]
    BY <1>1, <2>1 DEF ToSet
  <2> HIDE DEF y
  <2>3. y < e => n <= b
    <3>1. SUFFICES ASSUME y < e, ~ (n <= b) PROVE FALSE
      OBVIOUS
    <3>2. n = b + 1 \/ b + 1 < n
      BY <1>3, <3>1
    <3>3. e <= w[n]
      BY <1>1, <1>4, <3>2
    <3> HIDE DEF e
    <3> QED
      BY <1>4, <2>1, <2>2, <3>1, <3>3
  <2>4. n <= b => y < x
    BY <1>3, <2>2
  <2> HIDE DEF e
  <2>5. y < e <=> y < x
    BY <1>4, <2>1, <2>3, <2>4
  <2> QED
    BY <2>5 DEF y
<1>6. LowerBound(v, e) = LowerBound(v, x)
  <2> HIDE DEF e
  <2>1. {k \in DOMAIN v : v[k] < e} = {k \in DOMAIN v : v[k] < x}
    BY <1>2, <1>5
  <2> QED
    BY <2>1 DEF LowerBound
<1> QED
  BY <1>4, <1>6 DEF b, e

-------------------------------------------------------------------------------
(* Fused models.                                                           *)

(* What a matrix holds.                                                    *)
LEMMA InMatrix ==
  ASSUME NEW S, NEW m, NEW rows \in Nat, NEW columns \in Nat, IsMatrix(m, rows, columns, S)
  PROVE  /\ m \in Seq(Seq(S)) /\ Len(m) = rows /\ DOMAIN m = 1 .. rows
         /\ \A i \in 1 .. rows : m[i] \in Seq(S) /\ Len(m[i]) = columns /\ DOMAIN m[i] = 1 .. columns
         /\ \A i \in 1 .. rows, j \in 1 .. columns : m[i][j] \in S
<1>1. m \in Seq(Seq(S)) /\ Len(m) = rows /\ DOMAIN m = 1 .. rows
  BY LenProperties DEF IsMatrix
<1>2. ASSUME NEW i \in 1 .. rows
      PROVE /\ m[i] \in Seq(S) /\ Len(m[i]) = columns /\ DOMAIN m[i] = 1 .. columns
            /\ \A j \in 1 .. columns : m[i][j] \in S
  <2>1. m[i] \in Seq(S) /\ Len(m[i]) = columns
    BY <1>1, ElementOfSeq DEF IsMatrix
  <2> DEFINE r == m[i]
  <2> HIDE DEF r
  <2>2. r \in Seq(S) /\ Len(r) = columns
    BY <2>1 DEF r
  <2>3. DOMAIN r = 1 .. columns /\ \A j \in 1 .. columns : r[j] \in S
    BY <2>2, LenProperties, ElementOfSeq
  <2> QED
    BY <2>1, <2>3 DEF r
<1> QED
  BY <1>1, <1>2

(* A function of two classes is a matrix.                                  *)
LEMMA ToMatrix ==
  ASSUME NEW S, NEW rows \in Nat, NEW columns \in Nat, NEW f,
         \A i \in 1 .. rows, j \in 1 .. columns : f[i][j] \in S
  PROVE  IsMatrix([i \in 1 .. rows |-> [j \in 1 .. columns |-> f[i][j]]], rows, columns, S)
<1> DEFINE Row_(i) == [j \in 1 .. columns |-> f[i][j]]
           m == [i \in 1 .. rows |-> Row_(i)]
<1>1. ASSUME NEW i \in 1 .. rows PROVE Row_(i) \in Seq(S) /\ Len(Row_(i)) = columns
  <2>1. Row_(i) \in [1 .. columns -> S]
    OBVIOUS
  <2> DEFINE r == Row_(i)
  <2>2. DOMAIN r = 1 .. columns /\ r \in [1 .. columns -> S]
    BY <2>1
  <2> HIDE DEF r
  <2>3. r \in Seq(S) /\ Len(r) = columns
    BY <2>2
  <2> QED
    BY <2>3 DEF r
<1>2. DOMAIN m = 1 .. rows /\ m \in [1 .. rows -> Seq(S)]
  BY <1>1
<1>3. \A i \in 1 .. rows : Len(m[i]) = columns
  BY <1>1
<1> HIDE DEF m
<1>4. m \in Seq(Seq(S)) /\ Len(m) = rows
  BY <1>2
<1>5. IsMatrix(m, rows, columns, S)
  BY <1>2, <1>3, <1>4 DEF IsMatrix
<1> QED
  BY <1>5 DEF m

(* Where a model is asked.                                                 *)
LEMMA ModelAnswers ==
  ASSUME NEW m, IsModel(m), NEW d \in Nat, NEW ell \in Nat, InClasses(m, d, ell)
  PROVE  /\ LowerBound(m.dst, d) + 1 \in 1 .. Len(m.dst)
         /\ LowerBound(m.len, ell) + 1 \in 1 .. Len(m.len)
         /\ GetCost(m, d, ell) \in Int
<1>1. LowerBound(m.dst, d) + 1 \in 1 .. Len(m.dst) /\ Len(m.dst) \in Nat
  BY SameClassOfEnd, ClassesIncrease DEF IsModel, InClasses
<1>2. LowerBound(m.len, ell) + 1 \in 1 .. Len(m.len) /\ Len(m.len) \in Nat
  BY SameClassOfEnd, ClassesIncrease DEF IsModel, InClasses
<1>3. m.copy[LowerBound(m.dst, d) + 1][LowerBound(m.len, ell) + 1] \in Int
  <2>1. IsMatrix(m.copy, Len(m.dst), Len(m.len), Int)
    BY DEF IsModel
  <2>2. \A i \in 1 .. Len(m.dst), j \in 1 .. Len(m.len) : m.copy[i][j] \in Int
    BY <1>1, <1>2, <2>1, InMatrix
  <2> QED
    BY <1>1, <1>2, <2>2, Zenon
<1> QED
  BY <1>1, <1>2, <1>3 DEF GetCost

(* Two models that reach as far; and what a fused one is to them.          *)
SameReach(c1, c2) == Last(c1.dst) = Last(c2.dst) /\ Last(c1.len) = Last(c2.len)
PricesAsBoth(m, c1, c2, l, d, ell) == GetCost(m, d, ell) = GetCost(c1, d, ell) + l * GetCost(c2, d, ell)
LiteralsAsBoth(m, c1, c2, l) ==
  m.lit_fixed = c1.lit_fixed + l * c2.lit_fixed /\ m.lit_var = c1.lit_var + l * c2.lit_var
IsFused(m, c1, c2, l) ==
  /\ IsModel(m) /\ SameReach(m, c1) /\ LiteralsAsBoth(m, c1, c2, l)
  /\ \A d \in 1 .. Last(c1.dst), ell \in 1 .. Last(c1.len) : PricesAsBoth(m, c1, c2, l, d, ell)

FusedCell(c1, c2, l, dst, len, i, j) == GetCost(c1, dst[i], len[j]) + l * GetCost(c2, dst[i], len[j])
FusedCopy(c1, c2, l, dst, len) ==
  [i \in 1 .. Len(dst) |-> [j \in 1 .. Len(len) |-> FusedCell(c1, c2, l, dst, len, i, j)]]

(* The ends of the first model's classes are not farther than its last.    *)
LEMMA FusedIsModel ==
  ASSUME NEW c1, NEW c2, IsModel(c1), IsModel(c2), SameReach(c1, c2), NEW l \in Nat
  PROVE  /\ IsModel(Fuse(c1, c2, l)) /\ SameReach(Fuse(c1, c2, l), c1)
         /\ LiteralsAsBoth(Fuse(c1, c2, l), c1, c2, l)
         /\ Fuse(c1, c2, l).dst = FuseEnds(c1.dst, c2.dst)
         /\ Fuse(c1, c2, l).len = FuseEnds(c1.len, c2.len)
         /\ Fuse(c1, c2, l).copy =
              FusedCopy(c1, c2, l, FuseEnds(c1.dst, c2.dst), FuseEnds(c1.len, c2.len))
<1> DEFINE dst == FuseEnds(c1.dst, c2.dst)
           len == FuseEnds(c1.len, c2.len)
           copy == FusedCopy(c1, c2, l, dst, len)
           m == Fuse(c1, c2, l)
<1>1. /\ IsClasses(c1.dst) /\ IsClasses(c2.dst) /\ IsClasses(c1.len) /\ IsClasses(c2.len)
      /\ c1.lit_fixed \in Int /\ c2.lit_fixed \in Int /\ c1.lit_var \in Int /\ c2.lit_var \in Int
      /\ c1.per_char \in Int /\ c2.per_char \in Int
  BY DEF IsModel
<1>2. /\ Last(c1.dst) = Last(c2.dst) /\ Last(c1.len) = Last(c2.len)
      /\ Last(c1.dst) \in Nat /\ Last(c1.len) \in Nat
  BY <1>1, LastIs DEF SameReach
<1>3. IsClasses(dst) /\ IsClasses(len) /\ Last(dst) = Last(c1.dst) /\ Last(len) = Last(c1.len)
  BY <1>1, <1>2, FuseEndsIs, FusedLast
<1>4. /\ Len(dst) \in Nat /\ Len(len) \in Nat
      /\ DOMAIN dst = 1 .. Len(dst) /\ DOMAIN len = 1 .. Len(len)
      /\ \A i \in 1 .. Len(dst) : dst[i] \in Nat /\ dst[i] <= Last(c1.dst)
      /\ \A j \in 1 .. Len(len) : len[j] \in Nat /\ len[j] <= Last(c1.len)
  BY <1>3, ClassesIncrease DEF Last
<1>5. m = CostModel(dst, len, copy, (c1.lit_fixed + 0 * c1.lit_var) + l * (c2.lit_fixed + 0 * c2.lit_var),
            (c1.lit_fixed + 1 * c1.lit_var) + (l * (c2.lit_fixed + 1 * c2.lit_var)
               - ((c1.lit_fixed + 0 * c1.lit_var) + l * (c2.lit_fixed + 0 * c2.lit_var))),
            c1.per_char + l * c2.per_char)
  <2>1. [i \in DOMAIN dst |-> [j \in DOMAIN len |-> FusedCell(c1, c2, l, dst, len, i, j)]] = copy
    <3> HIDE DEF dst, len
    <3> QED
      BY <1>4, Zenon DEF FusedCopy
  <2>2. m = CostModel(dst, len,
              [i \in DOMAIN dst |-> [j \in DOMAIN len |-> FusedCell(c1, c2, l, dst, len, i, j)]],
              (c1.lit_fixed + 0 * c1.lit_var) + l * (c2.lit_fixed + 0 * c2.lit_var),
              (c1.lit_fixed + 1 * c1.lit_var) + (l * (c2.lit_fixed + 1 * c2.lit_var)
                 - ((c1.lit_fixed + 0 * c1.lit_var) + l * (c2.lit_fixed + 0 * c2.lit_var))),
              c1.per_char + l * c2.per_char)
    BY Zenon DEF Fuse, LitCost, FusedCell
  <2> HIDE DEF dst, len, copy, m
  <2> QED
    BY <2>1, <2>2
<1> HIDE DEF dst, len, m
<1>6. ASSUME NEW i \in 1 .. Len(dst), NEW j \in 1 .. Len(len)
      PROVE FusedCell(c1, c2, l, dst, len, i, j) \in Int
  <2> DEFINE d == dst[i]
             ell == len[j]
  <2>1. d \in Nat /\ ell \in Nat /\ InClasses(c1, d, ell) /\ InClasses(c2, d, ell)
    BY <1>2, <1>4 DEF InClasses
  <2> HIDE DEF d, ell
  <2>2. GetCost(c1, d, ell) \in Int /\ GetCost(c2, d, ell) \in Int
    BY <2>1, ModelAnswers
  <2>3. GetCost(c1, d, ell) + l * GetCost(c2, d, ell) \in Int
    BY <2>2
  <2> QED
    BY <2>3 DEF FusedCell, d, ell
<1>7. IsMatrix(copy, Len(dst), Len(len), Int)
  <2> DEFINE f == [i \in 1 .. Len(dst) |-> [j \in 1 .. Len(len) |-> FusedCell(c1, c2, l, dst, len, i, j)]]
  <2>1. \A i \in 1 .. Len(dst), j \in 1 .. Len(len) : f[i][j] \in Int
    BY <1>6
  <2>2. copy = [i \in 1 .. Len(dst) |-> [j \in 1 .. Len(len) |-> f[i][j]]]
    BY DEF FusedCopy
  <2> HIDE DEF f, copy
  <2>3. IsMatrix([i \in 1 .. Len(dst) |-> [j \in 1 .. Len(len) |-> f[i][j]]], Len(dst), Len(len), Int)
    BY <1>4, <2>1, ToMatrix
  <2> QED
    BY <2>2, <2>3
<1> HIDE DEF copy
<1>8. /\ m.dst = dst /\ m.len = len /\ m.copy = copy
      /\ m.lit_fixed = (c1.lit_fixed + 0 * c1.lit_var) + l * (c2.lit_fixed + 0 * c2.lit_var)
      /\ m.lit_var = (c1.lit_fixed + 1 * c1.lit_var) + (l * (c2.lit_fixed + 1 * c2.lit_var)
               - ((c1.lit_fixed + 0 * c1.lit_var) + l * (c2.lit_fixed + 0 * c2.lit_var)))
      /\ m.per_char = c1.per_char + l * c2.per_char
  BY <1>5 DEF CostModel
<1>9. /\ m.lit_fixed = c1.lit_fixed + l * c2.lit_fixed /\ m.lit_var = c1.lit_var + l * c2.lit_var
      /\ m.lit_fixed \in Int /\ m.lit_var \in Int /\ m.per_char \in Int
  <2> DEFINE f1 == c1.lit_fixed
             f2 == c2.lit_fixed
             v1 == c1.lit_var
             v2 == c2.lit_var
             p1 == c1.per_char
             p2 == c2.per_char
             x == l * f2
             y == l * v2
             z == l * p2
  <2>1. f1 \in Int /\ f2 \in Int /\ v1 \in Int /\ v2 \in Int /\ p1 \in Int /\ p2 \in Int
    BY <1>1
  <2>2. /\ m.lit_fixed = (f1 + 0 * v1) + l * (f2 + 0 * v2)
        /\ m.lit_var = (f1 + 1 * v1) + (l * (f2 + 1 * v2) - ((f1 + 0 * v1) + l * (f2 + 0 * v2)))
        /\ m.per_char = p1 + l * p2
    BY <1>8
  <2> HIDE DEF f1, f2, v1, v2, p1, p2
  <2>3. /\ 0 * v1 = 0 /\ 0 * v2 = 0 /\ 1 * v1 = v1 /\ 1 * v2 = v2
        /\ f1 + 0 = f1 /\ f2 + 0 = f2
    BY <2>1
  <2>4. l * (f2 + v2) = l * f2 + l * v2
    BY <2>1
  <2>5. l * f2 \in Int /\ l * v2 \in Int /\ l * p2 \in Int
    BY <2>1
  <2>6. /\ m.lit_fixed = f1 + l * f2 /\ m.per_char = p1 + l * p2
        /\ m.lit_var = (f1 + v1) + ((l * f2 + l * v2) - (f1 + l * f2))
    BY <2>2, <2>3, <2>4
  <2>7. x \in Int /\ y \in Int /\ z \in Int /\ m.lit_fixed = f1 + x /\ m.per_char = p1 + z
        /\ m.lit_var = (f1 + v1) + ((x + y) - (f1 + x))
    BY <2>5, <2>6
  <2> HIDE DEF x, y, z
  <2>8. /\ m.lit_var = v1 + y /\ m.lit_fixed = f1 + x
        /\ m.lit_fixed \in Int /\ m.lit_var \in Int /\ m.per_char \in Int
    BY <2>1, <2>7
  <2> QED
    BY <2>8 DEF x, y, f1, f2, v1, v2
<1>10. IsModel(m)
  BY <1>3, <1>7, <1>8, <1>9 DEF IsModel
<1>11. SameReach(m, c1) /\ LiteralsAsBoth(m, c1, c2, l)
  BY <1>3, <1>8, <1>9 DEF SameReach, LiteralsAsBoth
<1> QED
  BY <1>8, <1>10, <1>11 DEF m, dst, len, copy

LEMMA FuseIs ==
  ASSUME NEW c1, NEW c2, IsModel(c1), IsModel(c2), SameReach(c1, c2), NEW l \in Nat
  PROVE  IsFused(Fuse(c1, c2, l), c1, c2, l)
<1> DEFINE dst == FuseEnds(c1.dst, c2.dst)
           len == FuseEnds(c1.len, c2.len)
           m == Fuse(c1, c2, l)
<1>1. /\ IsModel(m) /\ SameReach(m, c1) /\ LiteralsAsBoth(m, c1, c2, l)
      /\ m.dst = dst /\ m.len = len /\ m.copy = FusedCopy(c1, c2, l, dst, len)
  BY FusedIsModel
<1> HIDE DEF m
<1>2. /\ IsClasses(c1.dst) /\ IsClasses(c2.dst) /\ IsClasses(c1.len) /\ IsClasses(c2.len)
      /\ Last(c1.dst) \in Nat /\ Last(c1.len) \in Nat
  BY LastIs DEF IsModel
<1>3. /\ ToSet(dst) = ToSet(c1.dst) \union ToSet(c2.dst) /\ IsClasses(dst)
      /\ ToSet(len) = ToSet(c1.len) \union ToSet(c2.len) /\ IsClasses(len)
  BY <1>2, FuseEndsIs
<1>4. Last(dst) = Last(c1.dst) /\ Last(len) = Last(c1.len)
  BY <1>1 DEF SameReach
<1> HIDE DEF dst, len
<1>5. ASSUME NEW d \in 1 .. Last(c1.dst), NEW ell \in 1 .. Last(c1.len)
      PROVE PricesAsBoth(m, c1, c2, l, d, ell)
  <2>1. d \in Nat /\ ell \in Nat /\ d <= Last(dst) /\ ell <= Last(len)
    BY <1>2, <1>4
  <2> DEFINE i == LowerBound(dst, d) + 1
             j == LowerBound(len, ell) + 1
  <2>2. /\ i \in 1 .. Len(dst)
        /\ LowerBound(c1.dst, dst[i]) = LowerBound(c1.dst, d)
        /\ LowerBound(c2.dst, dst[i]) = LowerBound(c2.dst, d)
    <3> DEFINE v1 == c1.dst
               v2 == c2.dst
    <3>1. /\ IsClasses(v1) /\ ToSet(v1) \subseteq ToSet(dst)
          /\ IsClasses(v2) /\ ToSet(v2) \subseteq ToSet(dst)
      BY <1>2, <1>3
    <3> HIDE DEF v1, v2
    <3>2. i \in 1 .. Len(dst) /\ LowerBound(v1, dst[i]) = LowerBound(v1, d)
      BY <1>3, <2>1, <3>1, SameClassOfEnd
    <3>3. LowerBound(v2, dst[i]) = LowerBound(v2, d)
      BY <1>3, <2>1, <3>1, SameClassOfEnd
    <3> QED
      BY <3>2, <3>3 DEF v1, v2
  <2>3. /\ j \in 1 .. Len(len)
        /\ LowerBound(c1.len, len[j]) = LowerBound(c1.len, ell)
        /\ LowerBound(c2.len, len[j]) = LowerBound(c2.len, ell)
    <3> DEFINE v1 == c1.len
               v2 == c2.len
    <3>1. /\ IsClasses(v1) /\ ToSet(v1) \subseteq ToSet(len)
          /\ IsClasses(v2) /\ ToSet(v2) \subseteq ToSet(len)
      BY <1>2, <1>3
    <3> HIDE DEF v1, v2
    <3>2. j \in 1 .. Len(len) /\ LowerBound(v1, len[j]) = LowerBound(v1, ell)
      BY <1>3, <2>1, <3>1, SameClassOfEnd
    <3>3. LowerBound(v2, len[j]) = LowerBound(v2, ell)
      BY <1>3, <2>1, <3>1, SameClassOfEnd
    <3> QED
      BY <3>2, <3>3 DEF v1, v2
  <2>4. GetCost(m, d, ell) = FusedCopy(c1, c2, l, dst, len)[i][j]
    BY <1>1, Zenon DEF GetCost
  <2> HIDE DEF i, j
  <2>5. GetCost(m, d, ell) = FusedCell(c1, c2, l, dst, len, i, j)
    BY <2>2, <2>3, <2>4 DEF FusedCopy
  <2>6. GetCost(c1, dst[i], len[j]) = GetCost(c1, d, ell) /\ GetCost(c2, dst[i], len[j]) = GetCost(c2, d, ell)
    BY <2>2, <2>3 DEF GetCost
  <2> QED
    BY <2>5, <2>6 DEF PricesAsBoth, FusedCell
<1>6. IsFused(m, c1, c2, l)
  BY <1>1, <1>5 DEF IsFused
<1> QED
  BY <1>6 DEF m

(* Quotient and rest.                                                      *)
LEMMA QuotientIs ==
  ASSUME NEW w \in Nat \ {0}, NEW q \in Nat, NEW r \in 0 .. (w - 1)
  PROVE  (q * w + r) \div w = q /\ (q * w + r) % w = r
<1> DEFINE s == q * w + r
           x == s \div w
           z == s % w
           qw == q * w
           xw == w * x
<1>1. qw \in Nat /\ s = qw + r /\ s \in Nat /\ r < w
  OBVIOUS
<1>2. x \in Int /\ z \in Int /\ 0 <= z /\ z < w /\ s = xw + z
  <2> HIDE DEF s
  <2> QED
    BY <1>1
<1>3. xw \in Int
  BY <1>2
<1>4. ~ (x < q)
  <2>1. SUFFICES ASSUME x + 1 <= q PROVE FALSE
    BY <1>2
  <2>2. (x + 1) * w <= q * w
    <3>1. \E k \in Nat : q = (x + 1) + k
      <4>1. q - (x + 1) \in Nat /\ q = (x + 1) + (q - (x + 1))
        BY <1>2, <2>1
      <4> QED
        BY <4>1
    <3>2. PICK k \in Nat : q = (x + 1) + k
      BY <3>1
    <3> HIDE DEF x
    <3>3. q * w = (x + 1) * w + k * w /\ k * w \in Nat /\ (x + 1) * w \in Int
      BY <1>2, <3>2
    <3> QED
      BY <3>3
  <2>3. (x + 1) * w = xw + w
    <3> HIDE DEF x
    <3> QED
      BY <1>2
  <2> HIDE DEF x, z, xw, qw, s
  <2>4. xw + w <= qw
    BY <2>2, <2>3 DEF qw
  <2> QED
    BY <1>1, <1>2, <1>3, <2>4
<1>5. ~ (q < x)
  <2>1. SUFFICES ASSUME q + 1 <= x PROVE FALSE
    BY <1>2
  <2>2. (q + 1) * w <= x * w
    <3>1. \E k \in Nat : x = (q + 1) + k
      <4>1. x - (q + 1) \in Nat /\ x = (q + 1) + (x - (q + 1))
        BY <1>2, <2>1
      <4> QED
        BY <4>1
    <3>2. PICK k \in Nat : x = (q + 1) + k
      BY <3>1
    <3> HIDE DEF x
    <3>3. x * w = (q + 1) * w + k * w /\ k * w \in Nat /\ (q + 1) * w \in Int
      BY <1>2, <3>2
    <3> QED
      BY <3>3
  <2>3. (q + 1) * w = qw + w /\ x * w = xw
    <3> HIDE DEF x
    <3> QED
      BY <1>2
  <2> HIDE DEF x, z, xw, qw, s
  <2>4. qw + w <= xw
    BY <2>2, <2>3
  <2> QED
    BY <1>1, <1>2, <1>3, <2>4
<1>6. x = q
  <2> HIDE DEF x
  <2> QED
    BY <1>2, <1>4, <1>5
<1>7. z = r
  <2>1. xw = qw
    <3> HIDE DEF x
    <3> QED
      BY <1>6
  <2> HIDE DEF x, z, xw, qw, s
  <2> QED
    BY <1>1, <1>2, <1>3, <2>1
<1> QED
  BY <1>6, <1>7

(* The cost map finds what a phrase costs by the id of its classes.        *)
LEMMA MapFinds ==
  ASSUME NEW m, IsModel(m), NEW d \in Nat, NEW ell \in Nat, InClasses(m, d, ell)
  PROVE  CostMap(m)[GetIdOf(m, d, ell)] = GetCost(m, d, ell)
<1> DEFINE lens == Len(m.len)
           rows == Len(m.dst)
           w == Width(lens)
           i == LowerBound(m.dst, d)
           j == LowerBound(m.len, ell)
           id == i * w + j
           top == (rows - 1) * w + (lens - 1)
<1>1. lens \in Nat \ {0} /\ rows \in Nat \ {0} /\ IsClasses(m.dst) /\ IsClasses(m.len)
  BY ClassesIncrease DEF IsModel
<1>2. w \in Nat \ {0} /\ lens <= w
  BY <1>1, WidthSuffices
<1>3. i \in 0 .. (rows - 1) /\ j \in 0 .. (lens - 1)
  <2>1. i + 1 \in 1 .. rows /\ j + 1 \in 1 .. lens /\ i \in 0 .. rows /\ j \in 0 .. lens
    BY <1>1, ModelAnswers, LowerBoundIs
  <2> HIDE DEF i, j, rows, lens
  <2> QED
    BY <1>1, <2>1
<1>4. GetIdOf(m, d, ell) = id
  BY DEF GetIdOf, WrapId
<1>5. GetCost(m, d, ell) = m.copy[i + 1][j + 1]
  BY DEF GetCost
<1>6. CostMap(m) = [n \in 0 .. top |-> IF n % w < lens THEN m.copy[(n \div w) + 1][(n % w) + 1] ELSE 0]
  BY DEF CostMap, WrapId
<1> HIDE DEF lens, rows, w, i, j
<1>7. id \div w = i /\ id % w = j
  <2>1. j \in 0 .. (w - 1) /\ i \in Nat
    BY <1>1, <1>2, <1>3
  <2> QED
    BY <1>2, <2>1, QuotientIs
<1>8. id \in 0 .. top
  <2> DEFINE k == (rows - 1) - i
             kw == k * w
             iw == i * w
  <2>1. k \in Nat /\ rows - 1 = i + k /\ i \in Nat /\ w \in Nat
    BY <1>1, <1>2, <1>3
  <2> HIDE DEF k
  <2>2. (rows - 1) * w = i * w + k * w
    BY <1>2, <2>1
  <2>3. kw \in Nat /\ iw \in Nat
    BY <2>1
  <2>4. id = iw + j /\ top = (iw + kw) + (lens - 1)
    BY <2>2
  <2> HIDE DEF kw, iw, id, top
  <2> QED
    BY <1>1, <1>3, <2>3, <2>4
<1> HIDE DEF id, top
<1>9. CostMap(m)[id] = IF id % w < lens THEN m.copy[(id \div w) + 1][(id % w) + 1] ELSE 0
  BY <1>6, <1>8
<1>10. j < lens
  BY <1>1, <1>3
<1> QED
  BY <1>4, <1>5, <1>7, <1>9, <1>10
-------------------------------------------------------------------------------
(* Reduced classes.                                                        *)

LEMMA LeastIs ==
  ASSUME NEW T, T \subseteq Nat, T # {}
  PROVE  Min(T) \in T /\ Min(T) \in Nat /\ \A n \in T : Min(T) <= n
<1>1. \E m \in T : \A n \in T : m <= n
  BY SmallestOf
<1> QED
  BY <1>1 DEF Min

(* Close without the greatest and the least.                               *)
LEMMA CloseIs ==
  ASSUME NEW x \in Nat, NEW y \in Nat
  PROVE  /\ Close(x, y) <=> 10 * x <= 11 * y /\ 10 * y <= 11 * x
         /\ Close(x, x)
<1>1. ASSUME NEW a \in Nat, NEW b \in Nat, a <= b
      PROVE Max({a, b}) = b /\ Min({a, b}) = a
  <2>1. b \in {a, b} /\ \A y_1 \in {a, b} : b >= y_1
    BY <1>1
  <2>2. \A z \in {a, b} : (\A y_1 \in {a, b} : z >= y_1) => z = b
    BY <1>1
  <2>3. a \in {a, b} /\ \A y_1 \in {a, b} : a <= y_1
    BY <1>1
  <2>4. \A z \in {a, b} : (\A y_1 \in {a, b} : z <= y_1) => z = a
    BY <1>1
  <2> QED
    BY <2>1, <2>2, <2>3, <2>4 DEF Max, Min
<1>2. CASE x <= y
  <2>1. Max({x, y}) = y /\ Min({x, y}) = x
    BY <1>1, <1>2
  <2>2. Close(x, y) <=> 10 * y <= 11 * x
    BY <2>1 DEF Close
  <2>3. Max({x, x}) = x /\ Min({x, x}) = x
    BY <1>1
  <2>4. Close(x, x) <=> 10 * x <= 11 * x
    BY <2>3 DEF Close
  <2> QED
    BY <1>2, <2>2, <2>4
<1>3. CASE y <= x
  <2>1. Max({y, x}) = x /\ Min({y, x}) = y /\ {y, x} = {x, y}
    BY <1>1, <1>3
  <2>2. Close(x, y) <=> 10 * x <= 11 * y
    BY <2>1 DEF Close
  <2>3. Max({x, x}) = x /\ Min({x, x}) = x
    BY <1>1
  <2>4. Close(x, x) <=> 10 * x <= 11 * x
    BY <2>3 DEF Close
  <2> QED
    BY <1>3, <2>2, <2>4
<1> QED
  BY <1>2, <1>3

(* What find_equal finds: a row like the next one, and past those like it. *)
RowsClose(x, y) == \A col \in DOMAIN x : Close(x[col], y[col])
Found(cm, a, e) ==
  /\ a \in 1 .. (Len(cm) - 1) /\ e \in (a + 2) .. (Len(cm) + 1)
  /\ \A k \in 1 .. (a - 1) : ~ RowsClose(cm[k], cm[k + 1])
  /\ \A k \in (a + 1) .. (e - 1) : RowsClose(cm[a], cm[k])
  /\ e <= Len(cm) => ~ RowsClose(cm[a], cm[e])
LEMMA FindEqual ==
  ASSUME NEW cm, Len(cm) \in Nat
  PROVE  \/ find_equal(cm) = <<0, 0>>
         \/ \E a, e \in Nat : find_equal(cm) = <<a, e>> /\ Found(cm, a, e)
<1> DEFINE alike == {r \in 1 .. (Len(cm) - 1) : row_equal(cm, r, r + 1)}
           a == Min(alike)
           unlike == {r \in (a + 1) .. Len(cm) : ~ row_equal(cm, a, r)}
           ends == unlike \union {Len(cm) + 1}
           e == Min(ends)
<1>0. find_equal(cm) = IF alike = {} THEN <<0, 0>> ELSE <<a, e>>
  BY DEF find_equal
<1>1. CASE alike = {}
  BY <1>0, <1>1
<1>2. CASE alike # {}
  <2>1. alike \subseteq Nat
    OBVIOUS
  <2>2. a \in alike /\ a \in Nat /\ \A k \in alike : a <= k
    <3> HIDE DEF alike
    <3> QED
      BY <1>2, <2>1, LeastIs
  <2>3. a \in 1 .. (Len(cm) - 1) /\ row_equal(cm, a, a + 1)
    BY <2>2
  <2>4. ASSUME NEW k \in 1 .. (a - 1) PROVE ~ row_equal(cm, k, k + 1)
    <3>1. ~ (a <= k) /\ k \in 1 .. (Len(cm) - 1)
      <4> HIDE DEF a
      <4> QED
        BY <2>3
    <3>2. k \notin alike
      BY <2>2, <3>1
    <3> QED
      BY <3>1, <3>2
  <2> HIDE DEF alike, a
  <2>5. ends \subseteq Nat /\ ends # {}
    BY <2>2
  <2>6. e \in ends /\ e \in Nat /\ \A k \in ends : e <= k
    <3> HIDE DEF ends
    <3> QED
      BY <2>5, LeastIs
  <2> HIDE DEF e
  <2>7. e \in (a + 1) .. (Len(cm) + 1) /\ (e <= Len(cm) => ~ row_equal(cm, a, e))
    BY <2>2, <2>3, <2>6
  <2>8. e # a + 1
    BY <2>3, <2>7
  <2>9. ASSUME NEW k \in (a + 1) .. (e - 1) PROVE row_equal(cm, a, k)
    <3>1. ~ (e <= k) /\ k \in (a + 1) .. Len(cm)
      BY <2>2, <2>7
    <3>2. k \notin unlike
      BY <2>6, <3>1
    <3> QED
      BY <3>1, <3>2
  <2>10. e \in (a + 2) .. (Len(cm) + 1)
    BY <2>2, <2>7, <2>8
  <2>11. Found(cm, a, e)
    BY <2>3, <2>4, <2>7, <2>9, <2>10 DEF Found, row_equal, RowsClose
  <2>12. find_equal(cm) = <<a, e>>
    BY <1>0, <1>2
  <2> QED
    BY <2>2, <2>6, <2>11, <2>12
<1> QED
  BY <1>1, <1>2

(* A sequence without its elements between two.                            *)
Spliced(s, a, e) == SubSeq(s, 1, a) \o SubSeq(s, e, Len(s))
LEMMA SplicedIs ==
  ASSUME NEW S, NEW s \in Seq(S), NEW a \in 0 .. Len(s), NEW e \in (a + 1) .. (Len(s) + 1)
  PROVE  /\ Spliced(s, a, e) \in Seq(S) /\ Len(Spliced(s, a, e)) = Len(s) - (e - 1 - a)
         /\ \A k \in 1 .. a : Spliced(s, a, e)[k] = s[k]
         /\ \A k \in (a + 1) .. (Len(s) - (e - 1 - a)) : Spliced(s, a, e)[k] = s[k + (e - 1 - a)]
<1> DEFINE n == Len(s)
           x == SubSeq(s, 1, a)
           y == SubSeq(s, e, n)
           t == x \o y
<1>1. n \in Nat /\ \A k \in 1 .. n : s[k] \in S
  BY LenProperties, ElementOfSeq
<1> HIDE DEF n
<1>2. a \in Nat /\ e \in Nat /\ a <= n /\ a < e /\ e <= n + 1
  BY <1>1 DEF n
<1>3. /\ x \in Seq(S) /\ Len(x) = (IF 1 <= a THEN (a - 1) + 1 ELSE 0)
      /\ \A i \in 1 .. ((a - 1) + 1) : x[i] = s[(1 + i) - 1]
  <2>1. \A i \in 1 .. a : s[i] \in S
    BY <1>1, <1>2
  <2> QED
    BY <1>2, <2>1, SubSeqProperties
<1>4. /\ y \in Seq(S) /\ Len(y) = (IF e <= n THEN (n - e) + 1 ELSE 0)
      /\ \A i \in 1 .. ((n - e) + 1) : y[i] = s[(e + i) - 1]
  <2>1. \A i \in e .. n : s[i] \in S
    BY <1>1, <1>2
  <2> QED
    BY <1>1, <1>2, <2>1, SubSeqProperties
<1> HIDE DEF x, y
<1>5. Len(x) = a /\ \A i \in 1 .. a : x[i] = s[i]
  BY <1>2, <1>3
<1>6. Len(y) = n + 1 - e
  BY <1>1, <1>2, <1>4
<1>7. /\ t \in Seq(S) /\ Len(t) = Len(x) + Len(y)
      /\ \A i \in 1 .. Len(x) + Len(y) : t[i] = IF i <= Len(x) THEN x[i] ELSE y[i - Len(x)]
  BY <1>3, <1>4, ConcatProperties
<1> HIDE DEF t
<1>8. Len(t) = n - (e - 1 - a)
  BY <1>1, <1>2, <1>5, <1>6, <1>7
<1>9. ASSUME NEW k \in 1 .. a PROVE t[k] = s[k]
  <2>1. k \in 1 .. Len(x) + Len(y) /\ k <= Len(x)
    BY <1>1, <1>2, <1>5, <1>6
  <2> QED
    BY <1>5, <1>7, <2>1
<1>10. ASSUME NEW k \in (a + 1) .. (n - (e - 1 - a)) PROVE t[k] = s[k + (e - 1 - a)]
  <2> DEFINE i == k - a
  <2>1. k \in 1 .. Len(x) + Len(y) /\ ~ (k <= Len(x)) /\ i \in 1 .. ((n - e) + 1) /\ k - Len(x) = i
    BY <1>1, <1>2, <1>5, <1>6
  <2>2. (e + i) - 1 = k + (e - 1 - a)
    BY <1>2
  <2> HIDE DEF i
  <2>3. t[k] = y[i]
    BY <1>7, <2>1
  <2> QED
    BY <1>4, <2>1, <2>2, <2>3
<1> QED
  BY <1>7, <1>8, <1>9, <1>10 DEF Spliced, t, x, y, n

(* What m is to m0 while it is reduced: row k of m is the first of those   *)
(* of m0 from past g[k - 1] to g[k], all close to it, and has the label of *)
(* the last; rows past the f-th stand for one each, and none up to it is   *)
(* like the next one.                                                      *)
Positive == Nat \ {0}
Tables == [cm : Seq(Seq(Positive)), labels : Seq(Positive)]
GroupsRows(m0, m, g) ==
  /\ g \in [0 .. Len(m.cm) -> 0 .. Len(m0.cm)] /\ g[0] = 0 /\ g[Len(m.cm)] = Len(m0.cm)
  /\ \A k \in 1 .. Len(m.cm) : g[k - 1] < g[k] /\ m.labels[k] = m0.labels[g[k]]
  /\ \A k \in 1 .. Len(m.cm) : m.cm[k] = m0.cm[g[k - 1] + 1]
  /\ \A k \in 1 .. Len(m.cm) : \A r \in (g[k - 1] + 1) .. g[k] : RowsClose(m.cm[k], m0.cm[r])
SinglesPast(m, g, f) ==
  /\ f \in Nat
  /\ \A k \in 1 .. Len(m.cm) : k > f => g[k] = g[k - 1] + 1
  /\ \A k \in 1 .. (Len(m.cm) - 1) : k <= f => ~ RowsClose(m.cm[k], m.cm[k + 1])
Grouped(m0, m) ==
  /\ m \in Tables /\ Len(m.labels) = Len(m.cm)
  /\ \E g, f : GroupsRows(m0, m, g) /\ SinglesPast(m, g, f)

(* A table, before it is reduced.                                          *)
IsTable(m) == m \in Tables /\ Len(m.labels) = Len(m.cm) /\ Len(m.cm) \in Nat \ {0}
LEMMA RowsAlike ==
  ASSUME NEW x \in Seq(Positive)
  PROVE  RowsClose(x, x)
<1>1. \A col \in DOMAIN x : x[col] \in Nat
  BY LenProperties, ElementOfSeq DEF Positive
<1> QED
  BY <1>1, CloseIs DEF RowsClose

LEMMA StartsGrouped ==
  ASSUME NEW m, IsTable(m)
  PROVE  Grouped(m, m)
<1> DEFINE n == Len(m.cm)
           g == [k \in 0 .. n |-> k]
<1>1. n \in Nat /\ m \in Tables /\ Len(m.labels) = n /\ m.cm \in Seq(Seq(Positive))
  BY DEF IsTable, Tables
<1>2. \A k \in 1 .. n : RowsClose(m.cm[k], m.cm[k])
  <2>1. \A k \in 1 .. n : m.cm[k] \in Seq(Positive)
    BY <1>1, ElementOfSeq
  <2> QED
    BY <2>1, RowsAlike
<1>3. GroupsRows(m, m, g)
  <2>1. g \in [0 .. n -> 0 .. n] /\ g[0] = 0 /\ g[n] = n
    BY <1>1
  <2>2. ASSUME NEW k \in 1 .. n
        PROVE /\ g[k] = k /\ g[k - 1] = k - 1 /\ (k - 1) + 1 = k
              /\ \A r \in ((k - 1) + 1) .. k : r = k
    BY <1>1
  <2> HIDE DEF g, n
  <2>3. \A k \in 1 .. n : g[k - 1] < g[k] /\ m.labels[k] = m.labels[g[k]]
    BY <2>2
  <2>4. \A k \in 1 .. n : m.cm[k] = m.cm[g[k - 1] + 1]
    BY <2>2
  <2>5. \A k \in 1 .. n : \A r \in (g[k - 1] + 1) .. g[k] : RowsClose(m.cm[k], m.cm[r])
    BY <1>2, <2>2
  <2> QED
    BY <2>1, <2>3, <2>4, <2>5 DEF GroupsRows, n
<1>4. SinglesPast(m, g, 0)
  <2>1. \A k \in 1 .. n : g[k] = g[k - 1] + 1
    BY <1>1
  <2> HIDE DEF g
  <2> QED
    BY <1>1, <2>1 DEF SinglesPast
<1> HIDE DEF g
<1> QED
  BY <1>1, <1>3, <1>4 DEF Grouped

(* A turn of the loop keeps it so: as the first row found is past those    *)
(* unlike the next one, all it joins stood for themselves.                 *)
LEMMA CollapseKeeps ==
  ASSUME NEW m0, IsTable(m0), NEW m, Grouped(m0, m), NEW a \in Nat, NEW e \in Nat, Found(m.cm, a, e)
  PROVE  Grouped(m0, collapse(m, a, e))
<1> DEFINE n == Len(m.cm)
           shift == e - 1 - a
           cm == Spliced(m.cm, a, e)
           labels == Spliced(m.labels, a - 1, e - 1)
           n2 == n - shift
           c == collapse(m, a, e)
<1>1. PICK g, f : GroupsRows(m0, m, g) /\ SinglesPast(m, g, f)
  BY DEF Grouped
<1>2. /\ n \in Nat /\ m.cm \in Seq(Seq(Positive)) /\ m.labels \in Seq(Positive) /\ Len(m.labels) = n
      /\ Len(m0.cm) \in Nat
  BY DEF Grouped, Tables, IsTable
<1>3. /\ a \in 1 .. (n - 1) /\ e \in (a + 2) .. (n + 1)
      /\ \A k \in 1 .. (a - 1) : ~ RowsClose(m.cm[k], m.cm[k + 1])
      /\ \A k \in (a + 1) .. (e - 1) : RowsClose(m.cm[a], m.cm[k])
      /\ e <= n => ~ RowsClose(m.cm[a], m.cm[e])
  BY DEF Found
<1>4. c = [cm |-> cm, labels |-> labels]
  <2>1. (a - 1) + 1 = a
    BY <1>2, <1>3
  <2> QED
    BY DEF collapse, Spliced
<1> HIDE DEF n
<1>5. /\ n \in Nat /\ a \in 1 .. (n - 1) /\ e \in (a + 2) .. (n + 1)
      /\ shift \in 1 .. n /\ n2 \in a .. n /\ n2 = n - shift /\ e - 1 = a + shift
  <2>1. n \in Nat /\ a \in 1 .. (n - 1) /\ e \in (a + 2) .. (n + 1)
    BY <1>2, <1>3
  <2> QED
    BY <2>1
<1>6. /\ cm \in Seq(Seq(Positive)) /\ Len(cm) = n2
      /\ \A k \in 1 .. a : cm[k] = m.cm[k]
      /\ \A k \in (a + 1) .. n2 : cm[k] = m.cm[k + shift]
  <2>1. a \in 0 .. n /\ e \in (a + 1) .. (n + 1)
    BY <1>2, <1>3
  <2> QED
    BY <1>2, <2>1, SplicedIs DEF n
<1>7. /\ labels \in Seq(Positive) /\ Len(labels) = n2
      /\ \A k \in 1 .. (a - 1) : labels[k] = m.labels[k]
      /\ \A k \in a .. n2 : labels[k] = m.labels[k + shift]
  <2> DEFINE b == a - 1
             h == e - 1
  <2>1. b \in 0 .. n /\ h \in (b + 1) .. (n + 1) /\ h - 1 - b = shift /\ b + 1 = a
    BY <1>2, <1>3
  <2> DEFINE s == m.labels
             t == Spliced(s, b, h)
  <2> HIDE DEF b, h, shift, s
  <2>a. s \in Seq(Positive) /\ Len(s) = n
    BY <1>2 DEF s
  <2>2. /\ t \in Seq(Positive) /\ Len(t) = Len(s) - (h - 1 - b)
        /\ \A k \in 1 .. b : t[k] = s[k]
        /\ \A k \in (b + 1) .. (Len(s) - (h - 1 - b)) : t[k] = s[k + (h - 1 - b)]
    BY <2>1, <2>a, SplicedIs
  <2> HIDE DEF t
  <2>3. /\ t \in Seq(Positive) /\ Len(t) = n - shift
        /\ \A k \in 1 .. b : t[k] = s[k]
        /\ \A k \in (b + 1) .. (n - shift) : t[k] = s[k + shift]
    BY <2>1, <2>a, <2>2
  <2> QED
    BY <2>1, <2>3 DEF b, h, s, t
<1> HIDE DEF cm, labels, shift, n2
<1> DEFINE g2 == [k \in 0 .. n2 |-> IF k < a THEN g[k] ELSE g[k + shift]]
<1>8. /\ g \in [0 .. n -> 0 .. Len(m0.cm)] /\ g[0] = 0 /\ g[n] = Len(m0.cm)
      /\ \A k \in 1 .. n : g[k - 1] < g[k] /\ m.labels[k] = m0.labels[g[k]]
      /\ \A k \in 1 .. n : m.cm[k] = m0.cm[g[k - 1] + 1]
      /\ \A k \in 1 .. n : \A r \in (g[k - 1] + 1) .. g[k] : RowsClose(m.cm[k], m0.cm[r])
  BY <1>1 DEF GroupsRows, n
<1>9. /\ f \in Nat
      /\ \A k \in 1 .. n : k > f => g[k] = g[k - 1] + 1
      /\ \A k \in 1 .. (n - 1) : k <= f => ~ RowsClose(m.cm[k], m.cm[k + 1])
  BY <1>1 DEF SinglesPast, n
<1>10. f < a
  <2>1. a + 1 \in (a + 1) .. (e - 1)
    BY <1>2, <1>3
  <2>2. RowsClose(m.cm[a], m.cm[a + 1])
    BY <1>3, <2>1
  <2>3. ~ (a <= f)
    BY <1>3, <1>9, <2>2
  <2> QED
    BY <1>9, <2>3
<1>11. g2 \in [0 .. n2 -> 0 .. Len(m0.cm)] /\ g2[0] = 0 /\ g2[n2] = Len(m0.cm)
  <2>1. \A k \in 0 .. n2 : k \in 0 .. n /\ (k < a \/ k + shift \in 0 .. n)
    BY <1>5
  <2>2. g2 \in [0 .. n2 -> 0 .. Len(m0.cm)]
    BY <1>8, <2>1
  <2>3. 0 < a /\ 0 \in 0 .. n2 /\ n2 \in 0 .. n2 /\ ~ (n2 < a) /\ n2 + shift = n
    BY <1>5
  <2> QED
    BY <1>8, <2>2, <2>3
<1>12. ASSUME NEW k \in 1 .. (a - 1)
       PROVE /\ g2[k - 1] = g[k - 1] /\ g2[k] = g[k] /\ k \in 1 .. n
             /\ cm[k] = m.cm[k] /\ labels[k] = m.labels[k]
  <2>1. k - 1 \in 0 .. n2 /\ k \in 0 .. n2 /\ k - 1 < a /\ k < a /\ k \in 1 .. n /\ k \in 1 .. a
    BY <1>5
  <2> QED
    BY <1>6, <1>7, <2>1
<1>13. ASSUME NEW k \in (a + 1) .. n2
       PROVE /\ g2[k - 1] = g[(k + shift) - 1] /\ g2[k] = g[k + shift] /\ k + shift \in 1 .. n
             /\ k + shift > f
             /\ cm[k] = m.cm[k + shift] /\ labels[k] = m.labels[k + shift]
  <2>1. /\ k - 1 \in 0 .. n2 /\ k \in 0 .. n2 /\ ~ (k - 1 < a) /\ ~ (k < a) /\ k + shift \in 1 .. n
        /\ k \in a .. n2 /\ (k - 1) + shift = (k + shift) - 1 /\ k + shift > f
    <3>1. f \in Nat /\ f < a
      BY <1>9, <1>10
    <3> QED
      BY <1>5, <3>1
  <2> QED
    BY <1>6, <1>7, <2>1
<1>14. /\ g2[a - 1] = g[a - 1] /\ g2[a] = g[e - 1]
       /\ cm[a] = m.cm[a] /\ labels[a] = m.labels[e - 1]
  <2>1. /\ a - 1 \in 0 .. n2 /\ a - 1 < a /\ a \in 0 .. n2 /\ ~ (a < a) /\ a + shift = e - 1
        /\ a \in 1 .. a /\ a \in a .. n2
    BY <1>5
  <2> QED
    BY <1>6, <1>7, <2>1
<1> HIDE DEF g2
(* Those joined stand for the rows from the first's to the last's.         *)
<1>15. \A j \in 0 .. shift : g[a + j] = g[a] + j
  <2> DEFINE T == {j \in Nat : j <= shift => g[a + j] = g[a] + j}
  <2>1. 0 \in T
    <3>1. a + 0 = a /\ a \in 0 .. n
      BY <1>5
    <3>a. g[a] \in Nat
      BY <1>8, <3>1
    <3>2. g[a] + 0 = g[a]
      BY <3>a
    <3> QED
      BY <3>1, <3>2
  <2>2. ASSUME NEW j \in Nat, j \in T PROVE (j + 1) \in T
    <3>1. SUFFICES ASSUME j + 1 <= shift PROVE g[a + (j + 1)] = g[a] + (j + 1)
      OBVIOUS
    <3> DEFINE k == a + (j + 1)
    <3>2. k \in 1 .. n /\ k > f /\ k - 1 = a + j /\ j <= shift /\ a \in 0 .. n
      <4>1. f \in Nat /\ f < a
        BY <1>9, <1>10
      <4> QED
        BY <1>5, <3>1, <4>1
    <3>a. g[a] \in Nat
      BY <1>8, <3>2
    <3> HIDE DEF k
    <3>3. g[k] = g[k - 1] + 1
      BY <1>9, <3>2
    <3>4. g[a + j] = g[a] + j
      BY <2>2, <3>2
    <3>5. g[k] = (g[a] + j) + 1
      BY <3>2, <3>3, <3>4
    <3>6. (g[a] + j) + 1 = g[a] + (j + 1)
      BY <3>a
    <3> QED
      BY <3>5, <3>6 DEF k
  <2> HIDE DEF T
  <2>3. Nat \subseteq T
    BY <2>1, <2>2, InductionOn
  <2> QED
    BY <1>5, <2>3 DEF T
<1>16. g[a] = g[a - 1] + 1 /\ g[e - 1] = g[a - 1] + 1 + shift /\ g[a - 1] \in Nat
  <2>1. a \in 1 .. n /\ a > f /\ shift \in 0 .. shift /\ a + shift = e - 1 /\ a - 1 \in 0 .. n
    <3>1. f \in Nat /\ f < a
      BY <1>9, <1>10
    <3> QED
      BY <1>5, <3>1
  <2>2. g[a] = g[a - 1] + 1 /\ g[a - 1] \in Nat /\ g[a + shift] = g[a] + shift
    BY <1>8, <1>9, <1>15, <2>1
  <2> QED
    BY <2>1, <2>2
<1>17. ASSUME NEW r \in (g[a - 1] + 1) .. g[e - 1] PROVE RowsClose(m.cm[a], m0.cm[r])
  <2> DEFINE j == r - g[a]
             k == a + j
  <2>1. j \in 0 .. shift /\ k \in 1 .. n /\ k \in a .. (e - 1) /\ r = g[a] + j
    <3> DEFINE x == g[a - 1]
               y == g[a]
               z == g[e - 1]
    <3>1. y = x + 1 /\ z = x + 1 + shift /\ x \in Nat /\ r \in (x + 1) .. z
      BY <1>16
    <3> HIDE DEF x, y, z
    <3>2. r - y \in 0 .. shift /\ r = y + (r - y)
      BY <1>5, <3>1
    <3>3. j \in 0 .. shift /\ r = y + j
      BY <3>2 DEF y
    <3> HIDE DEF j
    <3>4. k \in 1 .. n /\ k \in a .. (e - 1)
      BY <1>5, <3>3
    <3> QED
      BY <3>3, <3>4 DEF y
  <2>2. g[k] = r
    BY <1>15, <2>1
  <2> HIDE DEF j, k
  <2>3. k > f
    BY <1>9, <1>10, <2>1
  <2>4. m.cm[k] = m0.cm[r]
    <3>1. g[k] = g[k - 1] + 1
      BY <1>9, <2>1, <2>3
    <3> QED
      BY <1>8, <2>1, <2>2, <3>1
  <2>5. CASE k = a
    <3>1. r = g[a] /\ a \in 1 .. n
      BY <2>1, <2>2, <2>5
    <3>2. m.cm[a] \in Seq(Positive)
      BY <1>2, <3>1, ElementOfSeq DEF n
    <3> QED
      BY <2>4, <2>5, <3>2, RowsAlike
  <2>6. CASE k # a
    <3>1. k \in (a + 1) .. (e - 1)
      BY <1>2, <1>3, <2>1, <2>6
    <3> QED
      BY <1>3, <2>4, <3>1
  <2> QED
    BY <2>5, <2>6
<1>18. ASSUME NEW k \in 1 .. n2
       PROVE /\ g2[k - 1] < g2[k] /\ labels[k] = m0.labels[g2[k]]
             /\ cm[k] = m0.cm[g2[k - 1] + 1]
             /\ \A r \in (g2[k - 1] + 1) .. g2[k] : RowsClose(cm[k], m0.cm[r])
  <2>1. CASE k < a
    <3>1. k \in 1 .. (a - 1)
      BY <1>5, <2>1
    <3> QED
      BY <1>8, <1>12, <3>1
  <2>2. CASE k = a
    <3>1. /\ g[a - 1] < g[e - 1] /\ m.labels[e - 1] = m0.labels[g[e - 1]]
          /\ m.cm[a] = m0.cm[g[a - 1] + 1]
      <4>1. e - 1 \in 1 .. n /\ a \in 1 .. n
        BY <1>2, <1>3
      <4>2. g[a - 1] < g[e - 1]
        BY <1>5, <1>16
      <4> QED
        BY <1>8, <4>1, <4>2
    <3> QED
      BY <1>14, <1>17, <2>2, <3>1
  <2>3. CASE k > a
    <3>1. k \in (a + 1) .. n2
      BY <1>5, <2>3
    <3> DEFINE j == k + shift
    <3>2. /\ g2[k - 1] = g[j - 1] /\ g2[k] = g[j] /\ j \in 1 .. n
          /\ cm[k] = m.cm[j] /\ labels[k] = m.labels[j]
      BY <1>13, <3>1
    <3> HIDE DEF j
    <3> QED
      BY <1>8, <3>2
  <2> QED
    BY <1>5, <2>1, <2>2, <2>3
<1>19. ASSUME NEW k \in 1 .. n2, k > a PROVE g2[k] = g2[k - 1] + 1
  <2> DEFINE j == k + shift
  <2>1. k \in (a + 1) .. n2
    BY <1>5, <1>19
  <2>2. g2[k - 1] = g[j - 1] /\ g2[k] = g[j] /\ j \in 1 .. n /\ j > f
    BY <1>13, <2>1
  <2> HIDE DEF j
  <2> QED
    BY <1>9, <2>2
<1>20. ASSUME NEW k \in 1 .. (n2 - 1), k <= a PROVE ~ RowsClose(cm[k], cm[k + 1])
  <2>1. CASE k < a
    <3>1. k \in 1 .. (a - 1) /\ k \in 1 .. a /\ k + 1 \in 1 .. a
      BY <1>5, <2>1
    <3> QED
      BY <1>3, <1>6, <3>1
  <2>2. CASE k = a
    <3>1. a \in 1 .. a /\ a + 1 \in (a + 1) .. n2 /\ (a + 1) + shift = e /\ e <= n
      BY <1>5, <2>2
    <3>2. cm[a] = m.cm[a] /\ cm[a + 1] = m.cm[e]
      BY <1>6, <3>1
    <3> QED
      BY <1>3, <2>2, <3>1, <3>2
  <2> QED
    BY <1>3, <1>20, <2>1, <2>2
<1>21. c.cm = cm /\ c.labels = labels /\ c \in Tables /\ Len(c.cm) = n2 /\ Len(c.labels) = n2
  BY <1>4, <1>6, <1>7 DEF Tables
<1> HIDE DEF c
<1>22. GroupsRows(m0, c, g2)
  BY <1>11, <1>18, <1>21 DEF GroupsRows
<1>23. SinglesPast(c, g2, a)
  BY <1>19, <1>20, <1>21 DEF SinglesPast
<1>24. Grouped(m0, c)
  BY <1>21, <1>22, <1>23 DEF Grouped
<1> QED
  BY <1>24 DEF c

LEMMA ReduceOnceKeeps ==
  ASSUME NEW m0, IsTable(m0), NEW m, Grouped(m0, m)
  PROVE  Grouped(m0, ReduceOnce(m))
<1> DEFINE found == find_equal(m.cm)
<1>1. Len(m.cm) \in Nat
  BY DEF Grouped, Tables
<1>2. CASE found = <<0, 0>>
  <2>1. found[2] <= found[1] + 1
    BY <1>2
  <2> QED
    BY <2>1 DEF ReduceOnce
<1>3. CASE found # <<0, 0>>
  <2>1. PICK a \in Nat, e \in Nat : found = <<a, e>> /\ Found(m.cm, a, e)
    BY <1>1, <1>3, FindEqual
  <2>2. ~ (found[2] <= found[1] + 1)
    <3>1. e \in (a + 2) .. (Len(m.cm) + 1)
      BY <2>1 DEF Found
    <3>2. ~ (e <= a + 1)
      BY <1>1, <3>1
    <3> QED
      BY <2>1, <3>2
  <2>3. ReduceOnce(m) = collapse(m, a, e)
    BY <2>1, <2>2 DEF ReduceOnce
  <2> QED
    BY <2>1, <2>3, CollapseKeeps
<1> QED
  BY <1>2, <1>3

LEMMA ReduceMatrixKeeps ==
  ASSUME NEW m, IsTable(m)
  PROVE  Grouped(m, reduce_matrix(m))
<1> DEFINE S == {x \in Tables : Grouped(m, x)}
           Step == [x \in S |-> ReduceOnce(x)]
           Def(h) == [n \in Nat |-> IF n = 0 THEN m ELSE ReduceOnce(h[n - 1])]
           after == CHOOSE h : h = Def(h)
<1>1. m \in S
  BY StartsGrouped DEF IsTable
<1>2. Step \in [S -> S]
  <2>1. \A x \in S : ReduceOnce(x) \in S
    <3>1. ASSUME NEW x, Grouped(m, x) PROVE ReduceOnce(x) \in Tables /\ Grouped(m, ReduceOnce(x))
      <4>1. Grouped(m, ReduceOnce(x))
        BY <3>1, ReduceOnceKeeps
      <4> QED
        BY <4>1 DEF Grouped
    <3> QED
      BY <3>1
  <2> QED
    BY <2>1
<1>3. PICK g : Iterates(g, S, m, Step)
  <2> HIDE DEF S, Step
  <2> QED
    BY <1>1, <1>2, RecursionOn
<1>4. g \in [Nat -> S] /\ g[0] = m /\ \A n \in Nat : g[n + 1] = Step[g[n]]
  BY <1>3 DEF Iterates
<1>5. \A n \in Nat : g[n + 1] = ReduceOnce(g[n])
  <2>1. \A x \in S : Step[x] = ReduceOnce(x)
    OBVIOUS
  <2> HIDE DEF S, Step
  <2> QED
    BY <1>4, <2>1
<1> HIDE DEF S, Step
<1>6. g = Def(g)
  <2>1. ASSUME NEW n \in Nat PROVE g[n] = IF n = 0 THEN m ELSE ReduceOnce(g[n - 1])
    <3>1. CASE n = 0
      BY <3>1, <1>4
    <3>2. CASE n # 0
      <4>1. n - 1 \in Nat /\ (n - 1) + 1 = n
        BY <3>2
      <4> QED
        BY <4>1, <3>2, <1>5
    <3> QED
      BY <3>1, <3>2
  <2>2. g = [n \in Nat |-> g[n]]
    BY <1>4
  <2> QED
    BY <2>1, <2>2, Zenon
<1>7. after = Def(after)
  <2> HIDE DEF Def
  <2> QED
    BY <1>6, Zenon
<1>8. reduce_matrix(m) = after[Len(m.cm)]
  BY DEF reduce_matrix
<1> HIDE DEF after
<1>9. \A n \in Nat : after[n] = IF n = 0 THEN m ELSE ReduceOnce(after[n - 1])
  BY <1>7
<1> HIDE DEF Def
<1> DEFINE Fine == {n \in Nat : Grouped(m, after[n])}
<1>10. 0 \in Fine
  BY <1>9, StartsGrouped
<1>11. ASSUME NEW n \in Nat, n \in Fine PROVE (n + 1) \in Fine
  <2>1. after[n + 1] = ReduceOnce(after[n])
    <3>1. n + 1 \in Nat /\ n + 1 # 0 /\ (n + 1) - 1 = n
      OBVIOUS
    <3> QED
      BY <1>9, <3>1
  <2>2. Grouped(m, after[n])
    BY <1>11
  <2>3. Grouped(m, ReduceOnce(after[n]))
    BY <2>2, ReduceOnceKeeps
  <2> QED
    BY <2>1, <2>3
<1> HIDE DEF Fine
<1>12. Nat \subseteq Fine
  BY <1>10, <1>11, InductionOn
<1>13. Len(m.cm) \in Nat
  BY DEF IsTable
<1> QED
  BY <1>8, <1>12, <1>13 DEF Fine

(* What a reduced table is to the one it comes from: its classes are fewer *)
(* but reach as far, and the row of a number is close to what it was.      *)
ReducedFrom(m0, m) ==
  /\ IsTable(m) /\ IsClasses(m.labels) /\ Last(m.labels) = Last(m0.labels)
  /\ \A k \in 1 .. Len(m.cm) : \E r \in 1 .. Len(m0.cm) : m.cm[k] = m0.cm[r]
  /\ \A x \in 1 .. Last(m0.labels) :
       /\ IndexOf(m.labels, x) \in 1 .. Len(m.cm) /\ IndexOf(m0.labels, x) \in 1 .. Len(m0.cm)
       /\ RowsClose(m.cm[IndexOf(m.labels, x)], m0.cm[IndexOf(m0.labels, x)])
LEMMA GroupedReduces ==
  ASSUME NEW m0, IsTable(m0), IsClasses(m0.labels), NEW m, Grouped(m0, m)
  PROVE  ReducedFrom(m0, m)
<1> DEFINE n == Len(m.cm)
           N == Len(m0.cm)
<1>1. /\ n \in Nat /\ m.labels \in Seq(Positive) /\ Len(m.labels) = n
      /\ N \in Nat \ {0} /\ Len(m0.labels) = N /\ m \in Tables
  BY DEF Grouped, Tables, IsTable
<1>2. PICK g : GroupsRows(m0, m, g)
  BY DEF Grouped
<1>3. /\ g \in [0 .. n -> 0 .. N] /\ g[0] = 0 /\ g[n] = N
      /\ \A k \in 1 .. n : g[k - 1] < g[k] /\ m.labels[k] = m0.labels[g[k]]
      /\ \A k \in 1 .. n : m.cm[k] = m0.cm[g[k - 1] + 1]
      /\ \A k \in 1 .. n : \A r \in (g[k - 1] + 1) .. g[k] : RowsClose(m.cm[k], m0.cm[r])
  BY <1>2 DEF GroupsRows
<1>4. /\ \A k \in 1 .. N : m0.labels[k] \in Nat \ {0}
      /\ \A j, k \in 1 .. N : j < k => m0.labels[j] < m0.labels[k]
  BY <1>1, ClassesIncrease
<1> HIDE DEF n, N
<1>5. n # 0
  BY <1>1, <1>3
<1>6. ASSUME NEW k \in 1 .. n PROVE k - 1 \in 0 .. n /\ g[k - 1] \in 0 .. (N - 1) /\ g[k] \in 1 .. N
  <2>1. k - 1 \in 0 .. n /\ k \in 0 .. n
    BY <1>1
  <2>2. g[k - 1] \in 0 .. N /\ g[k] \in 0 .. N /\ g[k - 1] < g[k]
    BY <1>3, <2>1
  <2> QED
    BY <1>1, <2>1, <2>2
<1>7. IsClasses(m.labels)
  <2>1. ASSUME NEW k \in 2 .. n PROVE m.labels[k - 1] < m.labels[k]
    <3>1. k \in 1 .. n /\ k - 1 \in 1 .. n
      BY <1>1
    <3>2. g[k - 1] \in 1 .. N /\ g[k] \in 1 .. N /\ g[k - 1] < g[k]
      BY <1>3, <1>6, <3>1
    <3>3. m.labels[k - 1] = m0.labels[g[k - 1]] /\ m.labels[k] = m0.labels[g[k]]
      BY <1>3, <3>1
    <3> QED
      BY <1>4, <3>2, <3>3
  <2>2. m.labels # <<>>
    BY <1>1, <1>5
  <2> QED
    BY <1>1, <2>1, <2>2 DEF IsClasses, Increasing, Positive
<1>8. Last(m.labels) = Last(m0.labels)
  <2>1. n \in 1 .. n
    BY <1>1, <1>5
  <2> QED
    BY <1>1, <1>3, <2>1 DEF Last
<1>9. ASSUME NEW k \in 1 .. n PROVE \E r \in 1 .. N : m.cm[k] = m0.cm[r]
  <2> DEFINE y == g[k - 1]
             r == y + 1
  <2>a. y \in 0 .. (N - 1)
    BY <1>6
  <2>b. N \in Nat
    BY <1>1
  <2>1. r \in 1 .. N
    <3> HIDE DEF y
    <3> QED
      BY <2>a, <2>b
  <2> QED
    BY <1>3, <2>1
<1>10. ASSUME NEW x \in 1 .. Last(m0.labels)
       PROVE /\ IndexOf(m.labels, x) \in 1 .. n /\ IndexOf(m0.labels, x) \in 1 .. N
             /\ RowsClose(m.cm[IndexOf(m.labels, x)], m0.cm[IndexOf(m0.labels, x)])
  <2> DEFINE a == LowerBound(m.labels, x)
             b == LowerBound(m0.labels, x)
             k == a + 1
             r == b + 1
  <2>1. x \in Nat /\ x <= Last(m0.labels) /\ x <= Last(m.labels)
    BY <1>8, LastIs
  <2>2. /\ a \in 0 .. n /\ a < n
        /\ \A q \in 1 .. n : m.labels[q] < x <=> q <= a
    BY <1>1, <1>7, <2>1, LowerBoundIs
  <2>3. /\ b \in 0 .. N /\ b < N
        /\ \A q \in 1 .. N : m0.labels[q] < x <=> q <= b
    BY <1>1, <2>1, LowerBoundIs
  <2>4. IndexOf(m.labels, x) = k /\ IndexOf(m0.labels, x) = r
    BY DEF IndexOf
  <2> HIDE DEF a, b
  <2>5. k \in 1 .. n /\ r \in 1 .. N /\ ~ (k <= a) /\ r = b + 1 /\ k = a + 1
    BY <1>1, <2>2, <2>3
  <2>6. r <= g[k]
    <3>1. ~ (m0.labels[g[k]] < x)
      BY <1>3, <2>2, <2>5
    <3>2. ~ (g[k] <= b) /\ g[k] \in 1 .. N
      BY <1>6, <2>3, <2>5, <3>1
    <3> QED
      BY <1>1, <2>3, <2>5, <3>2
  <2>7. g[k - 1] + 1 <= r
    <3>1. CASE k = 1
      BY <1>3, <2>3, <3>1
    <3>2. CASE k # 1
      <4>1. k - 1 \in 1 .. n /\ k - 1 <= a
        BY <1>1, <2>2, <2>5, <3>2
      <4>2. m.labels[k - 1] < x /\ m.labels[k - 1] = m0.labels[g[k - 1]]
        BY <1>3, <2>2, <4>1
      <4>3. g[k - 1] \in 1 .. N
        BY <1>6, <4>1
      <4>4. g[k - 1] <= b
        BY <2>3, <4>2, <4>3
      <4> QED
        BY <1>1, <2>3, <2>5, <4>3, <4>4
    <3> QED
      BY <3>1, <3>2
  <2>8. r \in (g[k - 1] + 1) .. g[k]
    BY <1>6, <2>5, <2>6, <2>7
  <2>9. RowsClose(m.cm[k], m0.cm[r])
    BY <1>3, <2>5, <2>8
  <2> HIDE DEF k, r
  <2> QED
    BY <2>4, <2>5, <2>9
<1>11. IsTable(m)
  BY <1>1, <1>5 DEF IsTable, n
<1> QED
  BY <1>7, <1>8, <1>9, <1>10, <1>11 DEF ReducedFrom, n, N

(* A table of times: a matrix of as many rows and columns as classes.      *)
TimesTable(tm) ==
  /\ IsClasses(tm.dsts) /\ IsClasses(tm.lens)
  /\ IsMatrix(tm.cm, Len(tm.dsts), Len(tm.lens), Positive)
SameEnds(t, u) == Last(t.dsts) = Last(u.dsts) /\ Last(t.lens) = Last(u.lens)

LEMMA CellIs ==
  ASSUME NEW cm, NEW rows \in Nat, NEW columns \in Nat, IsMatrix(cm, rows, columns, Positive),
         NEW i \in 1 .. rows, NEW j \in 1 .. columns
  PROVE  j \in DOMAIN cm[i] /\ cm[i][j] \in Positive /\ cm[i][j] \in Nat
<1>1. /\ DOMAIN cm = 1 .. rows
      /\ \A r \in 1 .. rows : cm[r] \in Seq(Positive) /\ Len(cm[r]) = columns /\ DOMAIN cm[r] = 1 .. columns
      /\ \A r \in 1 .. rows, k \in 1 .. columns : cm[r][k] \in Positive
  BY InMatrix, Zenon
<1> QED
  BY <1>1 DEF Positive

LEMMA TransposedIs ==
  ASSUME NEW cm, NEW rows \in Nat \ {0}, NEW columns \in Nat, IsMatrix(cm, rows, columns, Positive)
  PROVE  /\ IsMatrix(Transposed(cm), columns, rows, Positive)
         /\ \A i \in 1 .. rows, j \in 1 .. columns : Transposed(cm)[j][i] = cm[i][j]
<1>1. /\ DOMAIN cm = 1 .. rows /\ 1 \in 1 .. rows
      /\ \A i \in 1 .. rows : DOMAIN cm[i] = 1 .. columns
      /\ \A i \in 1 .. rows, j \in 1 .. columns : cm[i][j] \in Positive
  <2>1. rows \in Nat /\ 1 \in 1 .. rows
    OBVIOUS
  <2>2. /\ cm \in Seq(Seq(Positive)) /\ Len(cm) = rows /\ DOMAIN cm = 1 .. rows
        /\ \A i \in 1 .. rows : cm[i] \in Seq(Positive) /\ Len(cm[i]) = columns /\ DOMAIN cm[i] = 1 .. columns
        /\ \A i \in 1 .. rows, j \in 1 .. columns : cm[i][j] \in Positive
    BY <2>1, InMatrix, Zenon
  <2> QED
    BY <2>1, <2>2
<1> DEFINE f == [j \in 1 .. columns |-> [i \in 1 .. rows |-> cm[i][j]]]
<1>2. Transposed(cm) = f
  BY <1>1 DEF Transposed
<1>3. \A j \in 1 .. columns, i \in 1 .. rows : f[j][i] = cm[i][j]
  OBVIOUS
<1>4. f = [j \in 1 .. columns |-> [i \in 1 .. rows |-> f[j][i]]]
  OBVIOUS
<1> HIDE DEF f
<1>5. IsMatrix([j \in 1 .. columns |-> [i \in 1 .. rows |-> f[j][i]]], columns, rows, Positive)
  <2>1. \A j \in 1 .. columns, i \in 1 .. rows : f[j][i] \in Positive
    BY <1>1, <1>3
  <2> QED
    BY <2>1, ToMatrix
<1>6. IsMatrix(f, columns, rows, Positive)
  BY <1>4, <1>5
<1> QED
  BY <1>2, <1>3, <1>6

(* Reducing the rows of a matrix leaves one.                               *)
LEMMA ReduceRows ==
  ASSUME NEW cm, NEW labels, IsClasses(labels), NEW columns \in Nat,
         IsMatrix(cm, Len(labels), columns, Positive)
  PROVE  /\ ReducedFrom([cm |-> cm, labels |-> labels], reduce_matrix([cm |-> cm, labels |-> labels]))
         /\ IsMatrix(reduce_matrix([cm |-> cm, labels |-> labels]).cm,
              Len(reduce_matrix([cm |-> cm, labels |-> labels]).labels), columns, Positive)
<1> DEFINE m0 == [cm |-> cm, labels |-> labels]
           m == reduce_matrix(m0)
<1>1. Len(labels) \in Nat \ {0} /\ labels \in Seq(Positive)
  BY ClassesIncrease DEF Positive
<1>2. cm \in Seq(Seq(Positive)) /\ Len(cm) = Len(labels) /\ \A r \in 1 .. Len(labels) : Len(cm[r]) = columns
  BY <1>1, InMatrix
<1>3. IsTable(m0) /\ IsClasses(m0.labels) /\ m0.cm = cm
  BY <1>1, <1>2 DEF IsTable, Tables
<1> HIDE DEF m0
<1>4. Grouped(m0, m)
  BY <1>3, ReduceMatrixKeeps
<1> HIDE DEF m
<1>5. ReducedFrom(m0, m)
  BY <1>3, <1>4, GroupedReduces
<1>6. m.cm \in Seq(Seq(Positive)) /\ Len(m.cm) = Len(m.labels) /\ DOMAIN m.cm = 1 .. Len(m.cm)
  BY <1>5, LenProperties DEF ReducedFrom, IsTable, Tables
<1>7. \A k \in 1 .. Len(m.cm) : \E r \in 1 .. Len(labels) : m.cm[k] = cm[r]
  BY <1>2, <1>3, <1>5 DEF ReducedFrom
<1>8. IsMatrix(m.cm, Len(m.labels), columns, Positive)
  BY <1>2, <1>6, <1>7 DEF IsMatrix
<1> QED
  BY <1>5, <1>8 DEF m, m0

(* reduce_tm: a table with fewer classes that reach as far, each time      *)
(* within a tenth of one within a tenth of what it was.                    *)
NearTo(t, u, d, ell) ==
  /\ TimeOf(t, d, ell) \in Nat /\ TimeOf(u, d, ell) \in Nat
  /\ 100 * TimeOf(t, d, ell) <= 121 * TimeOf(u, d, ell)
  /\ 100 * TimeOf(u, d, ell) <= 121 * TimeOf(t, d, ell)
LEMMA ReduceTimesIs ==
  ASSUME NEW u, TimesTable(u)
  PROVE  /\ TimesTable(reduce_tm(u)) /\ SameEnds(reduce_tm(u), u)
         /\ \A d \in 1 .. Last(u.dsts), ell \in 1 .. Last(u.lens) : NearTo(reduce_tm(u), u, d, ell)
<1> DEFINE m0 == [cm |-> u.cm, labels |-> u.dsts]
           rows == reduce_matrix(m0)
           turned == Transposed(rows.cm)
           c0 == [cm |-> turned, labels |-> u.lens]
           columns == reduce_matrix(c0)
           t == reduce_tm(u)
<1>1. /\ IsClasses(u.dsts) /\ IsClasses(u.lens)
      /\ Len(u.dsts) \in Nat \ {0} /\ Len(u.lens) \in Nat \ {0}
      /\ IsMatrix(u.cm, Len(u.dsts), Len(u.lens), Positive)
  BY ClassesIncrease DEF TimesTable
<1>2. ReducedFrom(m0, rows) /\ IsMatrix(rows.cm, Len(rows.labels), Len(u.lens), Positive)
  BY <1>1, ReduceRows
<1>3. t = [cm |-> Transposed(columns.cm), dsts |-> rows.labels, lens |-> columns.labels]
  BY DEF reduce_tm
<1>4. m0.cm = u.cm /\ m0.labels = u.dsts
  OBVIOUS
<1> HIDE DEF m0, rows
<1>5. IsClasses(rows.labels) /\ Len(rows.labels) \in Nat \ {0} /\ Last(rows.labels) = Last(u.dsts)
  BY <1>2, <1>4, ClassesIncrease DEF ReducedFrom
<1>6. /\ IsMatrix(turned, Len(u.lens), Len(rows.labels), Positive)
      /\ \A i \in 1 .. Len(rows.labels), j \in 1 .. Len(u.lens) : turned[j][i] = rows.cm[i][j]
  BY <1>1, <1>2, <1>5, TransposedIs
<1> HIDE DEF turned
<1>7. ReducedFrom(c0, columns) /\ IsMatrix(columns.cm, Len(columns.labels), Len(rows.labels), Positive)
  BY <1>1, <1>5, <1>6, ReduceRows
<1>8. c0.cm = turned /\ c0.labels = u.lens
  OBVIOUS
<1> HIDE DEF c0, columns
<1>9. IsClasses(columns.labels) /\ Len(columns.labels) \in Nat \ {0} /\ Last(columns.labels) = Last(u.lens)
  BY <1>7, <1>8, ClassesIncrease DEF ReducedFrom
<1>10. /\ IsMatrix(t.cm, Len(rows.labels), Len(columns.labels), Positive)
       /\ \A i \in 1 .. Len(columns.labels), j \in 1 .. Len(rows.labels) : t.cm[j][i] = columns.cm[i][j]
       /\ t.dsts = rows.labels /\ t.lens = columns.labels
  BY <1>3, <1>5, <1>7, <1>9, TransposedIs
<1> HIDE DEF t
<1>11. TimesTable(t) /\ SameEnds(t, u)
  BY <1>5, <1>9, <1>10 DEF TimesTable, SameEnds
<1>12. ASSUME NEW d \in 1 .. Last(u.dsts), NEW ell \in 1 .. Last(u.lens)
       PROVE NearTo(t, u, d, ell)
  <2> DEFINE i == IndexOf(rows.labels, d)
             j == IndexOf(columns.labels, ell)
             r == IndexOf(u.dsts, d)
             s == IndexOf(u.lens, ell)
             x == columns.cm[j][i]
             y == rows.cm[i][s]
             z == u.cm[r][s]
  <2>1. /\ i \in 1 .. Len(rows.labels) /\ r \in 1 .. Len(u.dsts)
        /\ RowsClose(rows.cm[i], u.cm[r])
    BY <1>1, <1>2, <1>4, InMatrix DEF ReducedFrom, IsTable, IsMatrix
  <2>2. /\ j \in 1 .. Len(columns.labels) /\ s \in 1 .. Len(u.lens)
        /\ RowsClose(columns.cm[j], turned[s])
    BY <1>1, <1>6, <1>7, <1>8 DEF ReducedFrom, IsTable, IsMatrix
  <2>3. TimeOf(t, d, ell) = t.cm[i][j] /\ TimeOf(u, d, ell) = z
    BY <1>10 DEF TimeOf
  <2> HIDE DEF i, j, r, s
  <2>4. TimeOf(t, d, ell) = x
    BY <1>10, <2>1, <2>2, <2>3
  <2>a. s \in DOMAIN rows.cm[i] /\ y \in Nat
    BY <1>1, <1>2, <1>5, <2>1, <2>2, CellIs
  <2>b. z \in Nat
    BY <1>1, <2>1, <2>2, CellIs
  <2>5. s \in DOMAIN rows.cm[i] /\ y \in Nat /\ z \in Nat
    BY <2>a, <2>b
  <2>6. i \in DOMAIN columns.cm[j] /\ x \in Nat
    BY <1>5, <1>7, <1>9, <2>1, <2>2, CellIs
  <2>7. Close(y, z)
    BY <2>1, <2>5 DEF RowsClose
  <2>8. Close(x, y)
    <3>1. Close(columns.cm[j][i], turned[s][i])
      BY <2>2, <2>6 DEF RowsClose
    <3>2. turned[s][i] = y
      BY <1>6, <2>1, <2>2
    <3> QED
      BY <3>1, <3>2
  <2> HIDE DEF x, y, z
  <2>9. 10 * x <= 11 * y /\ 10 * y <= 11 * x /\ 10 * y <= 11 * z /\ 10 * z <= 11 * y
    BY <2>5, <2>6, <2>7, <2>8, CloseIs
  <2>10. 100 * x <= 121 * z /\ 100 * z <= 121 * x
    BY <2>5, <2>6, <2>9
  <2> QED
    BY <2>3, <2>4, <2>5, <2>6, <2>10 DEF NearTo
<1> QED
  BY <1>11, <1>12 DEF t
-------------------------------------------------------------------------------
(* The model calibrator prints.                                            *)

(* Sums over finite sets, as the folds of the library define them.         *)
AnyOf(s) == CHOOSE x \in s : TRUE
SumFrom(g, f, s) == IF s = {} THEN 0 ELSE f[AnyOf(s)] + g[s \ {AnyOf(s)}]
Sums(g, f, S) == \A s \in SUBSET S : g[s] = SumFrom(g, f, s)

LEMMA OneLess ==
  ASSUME NEW S, IsFiniteSet(S), NEW s \in SUBSET S, s # {}
  PROVE  /\ AnyOf(s) \in S /\ s \ {AnyOf(s)} \in SUBSET S
         /\ Cardinality(s) \in Nat \ {0} /\ Cardinality(s \ {AnyOf(s)}) = Cardinality(s) - 1
<1>1. \E x \in s : TRUE
  OBVIOUS
<1>2. AnyOf(s) \in s
  BY <1>1 DEF AnyOf
<1>3. IsFiniteSet(s)
  BY FS_Subset
<1>4. Cardinality(s) \in Nat /\ Cardinality(s) # 0
  BY <1>3, FS_CardinalityType, FS_EmptySet
<1>5. Cardinality(s \ {AnyOf(s)}) = Cardinality(s) - 1
  BY <1>2, <1>3, FS_RemoveElement
<1> QED
  BY <1>2, <1>4, <1>5

LEMMA NoneLeft ==
  ASSUME NEW S, IsFiniteSet(S), NEW s \in SUBSET S, Cardinality(s) <= 0
  PROVE  s = {}
<1>1. SUFFICES ASSUME s # {} PROVE FALSE
  OBVIOUS
<1>2. Cardinality(s) \in Nat \ {0}
  BY <1>1, OneLess
<1> QED
  BY <1>2

LEMMA SumExists ==
  ASSUME NEW S, IsFiniteSet(S), NEW f \in [S -> Int]
  PROVE  \E g \in [SUBSET S -> Int] : Sums(g, f, S)
<1> DEFINE SumsUpTo(g, n) == \A s \in SUBSET S : Cardinality(s) <= n => g[s] = SumFrom(g, f, s)
           T == {n \in Nat : \E g \in [SUBSET S -> Int] : SumsUpTo(g, n)}
<1>1. \A s \in SUBSET S : Cardinality(s) \in Nat
  BY FS_Subset, FS_CardinalityType
<1>2. 0 \in T
  <2> DEFINE g == [s \in SUBSET S |-> 0]
  <2>1. g \in [SUBSET S -> Int]
    OBVIOUS
  <2>2. ASSUME NEW s \in SUBSET S, Cardinality(s) <= 0 PROVE g[s] = SumFrom(g, f, s)
    <3>1. s = {}
      BY <2>2, NoneLeft
    <3> QED
      BY <3>1 DEF SumFrom
  <2> HIDE DEF g
  <2> QED
    BY <2>1, <2>2
<1>3. ASSUME NEW n \in Nat, n \in T PROVE (n + 1) \in T
  <2>1. PICK g \in [SUBSET S -> Int] : SumsUpTo(g, n)
    BY <1>3
  <2> DEFINE g2 == [s \in SUBSET S |-> IF Cardinality(s) <= n THEN g[s] ELSE SumFrom(g, f, s)]
  <2>2. ASSUME NEW s \in SUBSET S PROVE SumFrom(g, f, s) \in Int
    <3>1. CASE s = {}
      BY <3>1 DEF SumFrom
    <3>2. CASE s # {}
      <4> DEFINE x == AnyOf(s)
                 t == s \ {x}
      <4>1. x \in S /\ t \in SUBSET S
        BY <3>2, OneLess
      <4>2. SumFrom(g, f, s) = f[x] + g[t]
        BY <3>2 DEF SumFrom
      <4> HIDE DEF x, t, SumsUpTo, T, g2
      <4>3. f[x] \in Int /\ g[t] \in Int
        BY <4>1
      <4> QED
        BY <4>2, <4>3
    <3> QED
      BY <3>1, <3>2
  <2>3. g2 \in [SUBSET S -> Int]
    BY <2>2
  <2>4. ASSUME NEW s \in SUBSET S, Cardinality(s) <= n + 1
        PROVE g2[s] = SumFrom(g2, f, s)
    <3>1. CASE s = {}
      <4>1. Cardinality(s) = 0
        BY <3>1, FS_EmptySet
      <4>2. g2[s] = g[s] /\ g[s] = SumFrom(g, f, s)
        BY <2>1, <4>1
      <4> QED
        BY <3>1, <4>2 DEF SumFrom
    <3>2. CASE s # {}
      <4> DEFINE t == s \ {AnyOf(s)}
      <4>1. t \in SUBSET S /\ Cardinality(s) \in Nat /\ Cardinality(t) = Cardinality(s) - 1
        BY <3>2, OneLess
      <4>2. Cardinality(t) <= n
        BY <2>4, <4>1
      <4>3. g2[t] = g[t]
        BY <4>1, <4>2
      <4>4. SumFrom(g2, f, s) = SumFrom(g, f, s)
        BY <4>3 DEF SumFrom
      <4>5. g2[s] = SumFrom(g, f, s)
        BY <2>1
      <4> QED
        BY <4>4, <4>5
    <3> QED
      BY <3>1, <3>2
  <2> HIDE DEF g2
  <2>5. SumsUpTo(g2, n + 1)
    BY <2>4
  <2> QED
    BY <2>3, <2>5
<1> HIDE DEF T
<1>4. Nat \subseteq T
  BY <1>2, <1>3, InductionOn
<1>5. Cardinality(S) \in T
  BY <1>1, <1>4
<1>6. PICK g \in [SUBSET S -> Int] : SumsUpTo(g, Cardinality(S))
  BY <1>5 DEF T
<1>7. \A s \in SUBSET S : Cardinality(s) <= Cardinality(S)
  BY FS_Subset
<1> QED
  BY <1>6, <1>7 DEF Sums

LEMMA SumIsInt ==
  ASSUME NEW S, IsFiniteSet(S), NEW f \in [S -> Int], NEW g, Sums(g, f, S)
  PROVE  g[S] \in Int
<1> DEFINE T == {n \in Nat : \A s \in SUBSET S : Cardinality(s) <= n => g[s] \in Int}
<1>1. 0 \in T
  <2>1. ASSUME NEW s \in SUBSET S, Cardinality(s) <= 0 PROVE g[s] \in Int
    <3>1. s = {}
      BY <2>1, NoneLeft
    <3>2. g[s] = SumFrom(g, f, s)
      BY DEF Sums
    <3> QED
      BY <3>1, <3>2 DEF SumFrom
  <2> QED
    BY <2>1
<1>2. ASSUME NEW n \in Nat, n \in T PROVE (n + 1) \in T
  <2>1. ASSUME NEW s \in SUBSET S, Cardinality(s) <= n + 1 PROVE g[s] \in Int
    <3>1. g[s] = SumFrom(g, f, s)
      BY DEF Sums
    <3>2. CASE s = {}
      BY <3>1, <3>2 DEF SumFrom
    <3>3. CASE s # {}
      <4> DEFINE t == s \ {AnyOf(s)}
      <4>1. /\ t \in SUBSET S /\ Cardinality(s) \in Nat /\ Cardinality(t) = Cardinality(s) - 1
            /\ AnyOf(s) \in S
        BY <3>3, OneLess
      <4>2. Cardinality(t) <= n
        BY <2>1, <4>1
      <4>3. g[t] \in Int /\ f[AnyOf(s)] \in Int
        BY <1>2, <4>1, <4>2
      <4> QED
        BY <3>1, <3>3, <4>3 DEF SumFrom
    <3> QED
      BY <3>2, <3>3
  <2> QED
    BY <2>1
<1> HIDE DEF T
<1>3. Nat \subseteq T
  BY <1>1, <1>2, InductionOn
<1>4. Cardinality(S) \in Nat
  BY FS_CardinalityType
<1> QED
  BY <1>3, <1>4 DEF T

(* The windows a distance misses take a number together; so do the phrases *)
(* in a class.                                                             *)
MissedBy(v, d) == {k \in DOMAIN v : (k = 1 \/ v[k - 1].dist < d) /\ d <= v[k].dist}
LatenciesOf(v, S) == [k \in S |-> v[k].latency]
LEMMA MissesSum ==
  ASSUME NEW v, NEW n \in Nat, DOMAIN v = 1 .. n, \A k \in 1 .. n : v[k].latency \in Nat, NEW d
  PROVE  /\ IsFiniteSet(MissedBy(v, d))
         /\ LatenciesOf(v, MissedBy(v, d)) \in [MissedBy(v, d) -> Int]
         /\ \E g : /\ Sums(g, LatenciesOf(v, MissedBy(v, d)), MissedBy(v, d))
                  /\ Misses(v, d) = g[MissedBy(v, d)]
<1> DEFINE S == MissedBy(v, d)
           f == LatenciesOf(v, S)
           Def(h) == [s \in SUBSET S |->
                        IF s = {} THEN 0
                        ELSE v[CHOOSE x \in s : TRUE].latency + h[s \ {CHOOSE x \in s : TRUE}]]
           iter == CHOOSE h : h = Def(h)
<1>1. Misses(v, d) = iter[S]
  BY DEF Misses, MapThenSumSet, MapThenFoldSet, MissedBy
<1>2. S \subseteq 1 .. n /\ IsFiniteSet(1 .. n)
  BY FS_Interval DEF MissedBy
<1>3. IsFiniteSet(S) /\ f \in [S -> Int]
  BY <1>2, FS_Subset DEF LatenciesOf
<1>4. \A s \in SUBSET S : s # {} => AnyOf(s) \in S
  BY <1>3, OneLess
<1>5. \A h : Def(h) = [s \in SUBSET S |-> SumFrom(h, f, s)]
  <2> HIDE DEF S
  <2> QED
    BY <1>4 DEF SumFrom, AnyOf, LatenciesOf
<1> HIDE DEF S, f
<1>6. PICK g \in [SUBSET S -> Int] : Sums(g, f, S)
  BY <1>3, SumExists
<1>7. g = Def(g)
  <2>1. g = [s \in SUBSET S |-> SumFrom(g, f, s)]
    BY <1>6 DEF Sums
  <2> QED
    BY <1>5, <2>1, Zenon
<1> HIDE DEF Def
<1>8. iter = Def(iter)
  BY <1>7, Zenon
<1> HIDE DEF iter
<1>9. iter = [s \in SUBSET S |-> SumFrom(iter, f, s)]
  BY <1>5, <1>8, Zenon
<1> DEFINE sum(s) == SumFrom(iter, f, s)
<1>10. ASSUME NEW s \in SUBSET S PROVE iter[s] = SumFrom(iter, f, s)
  <2>1. iter = [t \in SUBSET S |-> sum(t)]
    BY <1>9
  <2> HIDE DEF sum
  <2>2. iter[s] = sum(s)
    BY <2>1
  <2> QED
    BY <2>2 DEF sum
<1>11. Sums(iter, f, S)
  BY <1>10 DEF Sums
<1> QED
  BY <1>1, <1>3, <1>11 DEF S, f

LEMMA MissesAreInts ==
  ASSUME NEW v, NEW n \in Nat, DOMAIN v = 1 .. n, \A k \in 1 .. n : v[k].latency \in Nat, NEW d
  PROVE  Misses(v, d) \in Int
BY MissesSum, SumIsInt

DecodeIn(tm, dst, len, i, j) ==
  MapThenSumSet(LAMBDA c : tm.cm[c[1]][c[2]],
    {c \in (DOMAIN tm.dsts) \X (DOMAIN tm.lens) :
       i \in Spans(dst, tm.dsts, c[1]) /\ j \in Spans(len, tm.lens, c[2])})
CellsIn(tm, dst, len, i, j) ==
  {c \in (DOMAIN tm.dsts) \X (DOMAIN tm.lens) :
     i \in Spans(dst, tm.dsts, c[1]) /\ j \in Spans(len, tm.lens, c[2])}
TimesIn(tm, S) == [c \in S |-> tm.cm[c[1]][c[2]]]
LEMMA DecodeSum ==
  ASSUME NEW tm, TimesTable(tm), NEW dst, NEW len, NEW i, NEW j
  PROVE  /\ IsFiniteSet(CellsIn(tm, dst, len, i, j))
         /\ TimesIn(tm, CellsIn(tm, dst, len, i, j)) \in [CellsIn(tm, dst, len, i, j) -> Int]
         /\ \E g : /\ Sums(g, TimesIn(tm, CellsIn(tm, dst, len, i, j)), CellsIn(tm, dst, len, i, j))
                  /\ DecodeIn(tm, dst, len, i, j) = g[CellsIn(tm, dst, len, i, j)]
<1> DEFINE all == (DOMAIN tm.dsts) \X (DOMAIN tm.lens)
           S == CellsIn(tm, dst, len, i, j)
           f == TimesIn(tm, S)
           Def(h) == [s \in SUBSET S |->
                        IF s = {} THEN 0
                        ELSE tm.cm[(CHOOSE x \in s : TRUE)[1]][(CHOOSE x \in s : TRUE)[2]]
                               + h[s \ {CHOOSE x \in s : TRUE}]]
           iter == CHOOSE h : h = Def(h)
<1>1. DecodeIn(tm, dst, len, i, j) = iter[S]
  BY DEF DecodeIn, MapThenSumSet, MapThenFoldSet, CellsIn
<1>2. IsFiniteSet(all)
  <2>1. /\ DOMAIN tm.dsts = 1 .. Len(tm.dsts) /\ Len(tm.dsts) \in Nat
        /\ DOMAIN tm.lens = 1 .. Len(tm.lens) /\ Len(tm.lens) \in Nat
    BY ClassesIncrease DEF TimesTable
  <2>2. IsFiniteSet(DOMAIN tm.dsts) /\ IsFiniteSet(DOMAIN tm.lens)
    BY <2>1, FS_Interval
  <2> QED
    BY <2>2, FS_Product
<1>3. IsFiniteSet(S) /\ f \in [S -> Int]
  <2>1. S \subseteq all
    BY DEF CellsIn
  <2>2. \A c \in all : tm.cm[c[1]][c[2]] \in Int
    <3>1. /\ DOMAIN tm.dsts = 1 .. Len(tm.dsts) /\ Len(tm.dsts) \in Nat
          /\ DOMAIN tm.lens = 1 .. Len(tm.lens) /\ Len(tm.lens) \in Nat
          /\ IsMatrix(tm.cm, Len(tm.dsts), Len(tm.lens), Positive)
      BY ClassesIncrease DEF TimesTable
    <3>2. ASSUME NEW a \in 1 .. Len(tm.dsts), NEW b \in 1 .. Len(tm.lens)
          PROVE tm.cm[a][b] \in Nat
      BY <3>1, CellIs
    <3> QED
      BY <3>1, <3>2
  <2>3. \A c \in S : tm.cm[c[1]][c[2]] \in Int
    BY <2>1, <2>2
  <2> HIDE DEF S
  <2>4. f \in [S -> Int]
    BY <2>3 DEF TimesIn
  <2> QED
    BY <1>2, <2>1, <2>4, FS_Subset
<1>4. \A s \in SUBSET S : s # {} => AnyOf(s) \in S
  BY <1>3, OneLess
<1>5. \A h : Def(h) = [s \in SUBSET S |-> SumFrom(h, f, s)]
  <2> HIDE DEF S
  <2> QED
    BY <1>4 DEF SumFrom, AnyOf, TimesIn
<1> HIDE DEF S, f
<1>6. PICK g \in [SUBSET S -> Int] : Sums(g, f, S)
  BY <1>3, SumExists
<1>7. g = Def(g)
  <2>1. g = [s \in SUBSET S |-> SumFrom(g, f, s)]
    BY <1>6 DEF Sums
  <2> QED
    BY <1>5, <2>1, Zenon
<1> HIDE DEF Def
<1>8. iter = Def(iter)
  BY <1>7, Zenon
<1> HIDE DEF iter
<1>9. iter = [s \in SUBSET S |-> SumFrom(iter, f, s)]
  BY <1>5, <1>8, Zenon
<1> DEFINE sum(s) == SumFrom(iter, f, s)
<1>10. ASSUME NEW s \in SUBSET S PROVE iter[s] = SumFrom(iter, f, s)
  <2>1. iter = [t \in SUBSET S |-> sum(t)]
    BY <1>9
  <2> HIDE DEF sum
  <2>2. iter[s] = sum(s)
    BY <2>1
  <2> QED
    BY <2>2 DEF sum
<1>11. Sums(iter, f, S)
  BY <1>10 DEF Sums
<1> QED
  BY <1>1, <1>3, <1>11 DEF S, f

LEMMA DecodeIsInt ==
  ASSUME NEW tm, TimesTable(tm), NEW dst, NEW len, NEW i, NEW j
  PROVE  DecodeIn(tm, dst, len, i, j) \in Int
BY DecodeSum, SumIsInt

LEMMA SumOfOne ==
  ASSUME NEW x, NEW f \in [{x} -> Int], NEW g, Sums(g, f, {x})
  PROVE  g[{x}] = f[x]
<1>1. AnyOf({x}) = x /\ {x} \ {x} = {}
  BY DEF AnyOf
<1>2. g[{}] = SumFrom(g, f, {}) /\ g[{x}] = SumFrom(g, f, {x})
  BY DEF Sums
<1>3. g[{}] = 0
  BY <1>2 DEF SumFrom
<1>4. g[{x}] = f[x] + g[{}]
  BY <1>1, <1>2 DEF SumFrom
<1>5. f[x] \in Int
  OBVIOUS
<1> QED
  BY <1>3, <1>4, <1>5

(* The windows of a machine reach as far as an encoder; pruned, they end   *)
(* with its distances.                                                     *)
Reaches(latencies, dst_max) ==
  /\ IsClasses(Ends(latencies)) /\ dst_max \in Nat \ {0} /\ dst_max <= Last(Ends(latencies))
  /\ \A k \in DOMAIN latencies : latencies[k].latency \in Nat
ArePruned(v, dst_max) ==
  /\ IsClasses(Ends(v)) /\ Last(Ends(v)) = dst_max
  /\ DOMAIN v = 1 .. Len(Ends(v)) /\ \A k \in DOMAIN v : v[k].latency \in Nat
(* v is w, cut short in its last window.                                   *)
CutFrom(v, w) ==
  \A k \in DOMAIN v : /\ k \in DOMAIN w /\ v[k].latency = w[k].latency
                      /\ w[k].dist \in Nat /\ v[k].dist <= w[k].dist
                      /\ k < Len(Ends(v)) => v[k].dist = w[k].dist
LEMMA PruneIs ==
  ASSUME NEW found, NEW dst_max, Reaches(InBytes(found), dst_max), Len(found) \in Nat,
         DOMAIN found = 1 .. Len(found)
  PROVE  /\ ArePruned(Prune(InBytes(found), dst_max), dst_max)
         /\ CutFrom(Prune(InBytes(found), dst_max), InBytes(found))
<1> DEFINE n == Len(found)
           w == InBytes(found)
           ends == Ends(w)
           b == LowerBound(ends, dst_max)
           ptr == 1 + b
           cut == SubSeq(w, 1, ptr)
           v == Prune(w, dst_max)
<1>1. /\ n \in Nat /\ DOMAIN w = 1 .. n /\ DOMAIN ends = 1 .. n
      /\ \A k \in 1 .. n : ends[k] = w[k].dist
  BY DEF InBytes, Ends
<1>2. \A k \in 1 .. n : w[k].latency \in Nat
  BY <1>1 DEF Reaches
<1>a. \A k \in 1 .. n : w[k] = [dist |-> w[k].dist, latency |-> w[k].latency]
  BY DEF InBytes, Window
<1> HIDE DEF w
<1>3. /\ IsClasses(ends) /\ dst_max \in Nat \ {0} /\ dst_max <= Last(ends)
      /\ Len(ends) \in Nat \ {0} /\ DOMAIN ends = 1 .. Len(ends)
      /\ \A k \in 1 .. Len(ends) : ends[k] \in Nat \ {0}
      /\ \A j, k \in 1 .. Len(ends) : j < k => ends[j] < ends[k]
  BY ClassesIncrease DEF Reaches, w
<1>4. Len(ends) = n
  <2> DEFINE q == Len(ends)
  <2>1. q \in Nat \ {0} /\ n \in Nat /\ 1 .. q = 1 .. n
    BY <1>1, <1>3
  <2> HIDE DEF q, n
  <2>2. q \in 1 .. n
    BY <2>1
  <2>3. n \in 1 .. q
    BY <2>1, <2>2
  <2>4. q = n
    BY <2>1, <2>2, <2>3
  <2> QED
    BY <2>4 DEF q
<1>5. b \in 0 .. (n - 1) /\ \A k \in 1 .. n : ends[k] < dst_max <=> k <= b
  <2>1. /\ b \in 0 .. Len(ends) /\ b < Len(ends)
        /\ \A k \in 1 .. Len(ends) : ends[k] < dst_max <=> k <= b
    BY <1>3, LowerBoundIs
  <2> HIDE DEF b, ends
  <2> QED
    BY <1>1, <1>4, <2>1
<1> HIDE DEF b, n, ends
<1>6. ptr \in 1 .. n
  BY <1>1, <1>5
<1>7. DOMAIN cut = 1 .. ptr /\ \A k \in 1 .. ptr : cut[k] = w[k]
  <2> DEFINE S == {w[k] : k \in 1 .. n}
  <2>1. \A k \in 1 .. ptr : w[k] \in S
    BY <1>1, <1>6
  <2>2. 1 \in Int /\ ptr \in Int
    BY <1>1, <1>6
  <2> HIDE DEF S, ptr
  <2>3. /\ cut \in Seq(S) /\ Len(cut) = (IF 1 <= ptr THEN ptr - 1 + 1 ELSE 0)
        /\ \A k \in 1 .. (ptr - 1 + 1) : cut[k] = w[1 + k - 1]
    BY <2>1, <2>2, SubSeqProperties
  <2> HIDE DEF cut
  <2>4. Len(cut) = ptr
    BY <1>1, <1>6, <2>3
  <2>5. \A k \in 1 .. ptr : cut[k] = w[k]
    BY <1>1, <1>6, <2>3
  <2> QED
    BY <2>3, <2>4, <2>5, LenProperties
<1>8. v = [cut EXCEPT ![ptr].dist = dst_max]
  BY DEF Prune, ends, b
<1> HIDE DEF cut, v, ptr
<1>9. /\ DOMAIN v = 1 .. ptr
      /\ \A k \in 1 .. ptr : k # ptr => v[k] = w[k]
      /\ v[ptr] = [w[ptr] EXCEPT !.dist = dst_max]
  <2>1. ptr \in 1 .. ptr
    BY <1>1, <1>6
  <2> QED
    BY <1>7, <1>8, <2>1
<1>10. v[ptr].dist = dst_max /\ v[ptr].latency = w[ptr].latency
  BY <1>a, <1>6, <1>9
<1>11. \A k \in DOMAIN v : v[k].latency \in Nat
  <2>1. ASSUME NEW k \in 1 .. ptr PROVE v[k].latency = w[k].latency /\ k \in 1 .. n
    <3>1. k \in 1 .. n
      BY <1>1, <1>6
    <3>2. CASE k = ptr
      BY <1>10, <3>1, <3>2
    <3>3. CASE k # ptr
      BY <1>9, <3>1, <3>3
    <3> QED
      BY <3>2, <3>3
  <2>2. \A k \in 1 .. ptr : v[k].latency \in Nat
    BY <1>2, <2>1
  <2> QED
    BY <1>9, <2>2
<1> DEFINE e == Ends(v)
<1>12. DOMAIN e = 1 .. ptr /\ \A k \in 1 .. ptr : e[k] = IF k = ptr THEN dst_max ELSE ends[k]
  <2>1. DOMAIN e = 1 .. ptr /\ \A k \in 1 .. ptr : e[k] = v[k].dist
    BY <1>9 DEF Ends
  <2> HIDE DEF e
  <2>2. \A k \in 1 .. ptr : k # ptr => v[k].dist = ends[k]
    BY <1>1, <1>6, <1>9
  <2> QED
    BY <1>10, <2>1, <2>2
<1>13. e = [k \in 1 .. ptr |-> e[k]]
  BY <1>9 DEF Ends
<1> HIDE DEF e
<1>14. ASSUME NEW k \in 1 .. ptr PROVE e[k] \in Nat \ {0} /\ k \in 1 .. n
  <2>1. k \in 1 .. n
    BY <1>1, <1>6
  <2> QED
    BY <1>3, <1>4, <1>12, <2>1
<1>15. e \in Seq(Nat \ {0}) /\ Len(e) = ptr /\ ptr \in Nat \ {0}
  <2>1. ptr \in Nat \ {0}
    BY <1>1, <1>6
  <2>2. e \in [1 .. ptr -> Nat \ {0}]
    BY <1>13, <1>14
  <2>3. DOMAIN e = 1 .. ptr
    BY <1>12
  <2> QED
    BY <2>1, <2>2, <2>3
<1>16. ASSUME NEW k \in 2 .. ptr PROVE e[k - 1] < e[k]
  <2>1. k - 1 \in 1 .. ptr /\ k \in 1 .. ptr /\ k - 1 # ptr /\ k - 1 < k
    BY <1>15
  <2>2. e[k - 1] = ends[k - 1] /\ k - 1 \in 1 .. n /\ k \in 1 .. n
    BY <1>12, <1>14, <2>1
  <2>3. CASE k = ptr
    <3>1. k - 1 <= b
      BY <1>5, <1>6, <2>3 DEF ptr
    <3>2. ends[k - 1] < dst_max
      BY <1>5, <2>2, <3>1
    <3> QED
      BY <1>12, <2>1, <2>2, <2>3, <3>2
  <2>4. CASE k # ptr
    BY <1>3, <1>4, <1>12, <2>1, <2>2, <2>4
  <2> QED
    BY <2>3, <2>4
<1>17. IsClasses(e)
  <2>1. e # <<>>
    BY <1>15
  <2> QED
    BY <1>15, <1>16, <2>1 DEF IsClasses, Increasing
<1>18. Last(e) = dst_max
  <2>1. ptr \in 1 .. ptr
    BY <1>15
  <2> QED
    BY <1>12, <1>15, <2>1 DEF Last
<1>19. ArePruned(v, dst_max)
  BY <1>9, <1>11, <1>15, <1>17, <1>18 DEF ArePruned, e
<1>20. ASSUME NEW k \in 1 .. ptr
       PROVE  /\ k \in DOMAIN w /\ v[k].latency = w[k].latency
              /\ w[k].dist \in Nat /\ v[k].dist <= w[k].dist
              /\ k < ptr => v[k].dist = w[k].dist
  <2>1. k \in 1 .. n /\ w[k].dist = ends[k] /\ ends[k] \in Nat
    BY <1>1, <1>3, <1>4, <1>14
  <2>2. CASE k = ptr
    <3>1. ~ (ends[ptr] < dst_max)
      BY <1>3, <1>5, <1>6 DEF ptr
    <3> QED
      BY <1>1, <1>3, <1>10, <2>1, <2>2, <3>1
  <2>3. CASE k # ptr
    BY <1>1, <1>9, <2>1, <2>3
  <2> QED
    BY <2>2, <2>3
<1>21. CutFrom(v, w)
  BY <1>9, <1>15, <1>20 DEF CutFrom, e
<1> QED
  BY <1>19, <1>21 DEF v, w

(* get_cm makes a model of the encoder's reach.                            *)
LineEnds == LineLengths(12)
LEMMA LinesAre ==
  /\ IsClasses(LineEnds) /\ Last(LineEnds) = 24
  /\ \A x \in Nat : Lines(12, x) \in Int
<1>1. LineEnds = [i \in 1 .. 3 |-> 8 * i]
  BY DEF LineEnds, LineLengths
<1>2. LineEnds \in [1 .. 3 -> Nat \ {0}] /\ DOMAIN LineEnds = 1 .. 3
  BY <1>1
<1>3. LineEnds \in Seq(Nat \ {0}) /\ Len(LineEnds) = 3
  <2> DEFINE v == LineEnds
             n == 3
  <2>1. v \in [1 .. n -> Nat \ {0}] /\ DOMAIN v = 1 .. n /\ n \in Nat
    BY <1>2
  <2> HIDE DEF v, n
  <2>2. v \in Seq(Nat \ {0}) /\ Len(v) = n
    BY <2>1
  <2> QED
    BY <2>2 DEF v, n
<1>4. \A k \in 2 .. 3 : LineEnds[k - 1] < LineEnds[k]
  BY <1>1
<1>5. IsClasses(LineEnds)
  <2>1. LineEnds # <<>>
    BY <1>3
  <2> QED
    BY <1>3, <1>4, <2>1 DEF IsClasses, Increasing
<1>6. Last(LineEnds) = 24
  BY <1>1, <1>3 DEF Last
<1>7. ASSUME NEW x \in Nat PROVE Lines(12, x) \in Int
  <2> DEFINE T == {8 * 12, cache_line + x}
  <2>1. T \subseteq Nat /\ T # {}
    BY DEF cache_line
  <2> HIDE DEF T
  <2>2. Min(T) \in Nat
    BY <2>1, LeastIs
  <2>3. Lines(12, x) = Min(T)
    BY DEF Lines, T
  <2> QED
    BY <2>2, <2>3
<1> QED
  BY <1>5, <1>6, <1>7

ModelCell(tm, windows_, dst, len, bmp, i, j) ==
  64 * (bmp + DecodeIn(tm, dst, len, i, j)) + Lines(12, len[j]) * Misses(windows_, dst[i])
AsModel(m) == CostModel(m.dst, m.len, m.copy, m.lit_fixed, m.lit_var, m.per_char)
ModelInput(found, u, lit, bmp, penalty) ==
  /\ TimesTable(u) /\ Reaches(InBytes(found), Last(u.dsts)) /\ Last(LineEnds) <= Last(u.lens)
  /\ Len(found) \in Nat /\ DOMAIN found = 1 .. Len(found)
  /\ lit.fix \in Int /\ lit.var \in Int /\ bmp \in Int /\ penalty \in Int
ModelOutput(m, u) ==
  IsModel(m) /\ Last(m.dst) = Last(u.dsts) /\ Last(m.len) = Last(u.lens) /\ AsModel(m) = m
LEMMA ModelIs ==
  ASSUME NEW found, NEW u, NEW lit, NEW bmp, NEW penalty,
         ModelInput(found, u, lit, bmp, penalty)
  PROVE  ModelOutput(get_cm(found, lit.var, u, lit, bmp, penalty, 12), u)
<1>0. /\ TimesTable(u) /\ Reaches(InBytes(found), Last(u.dsts)) /\ Last(LineEnds) <= Last(u.lens)
      /\ Len(found) \in Nat /\ DOMAIN found = 1 .. Len(found)
      /\ lit.fix \in Int /\ lit.var \in Int /\ bmp \in Int /\ penalty \in Int
  BY DEF ModelInput
<1> DEFINE m == get_cm(found, lit.var, u, lit, bmp, penalty, 12)
           w == Prune(InBytes(found), Last(u.dsts))
           dst == FuseEnds(u.dsts, Ends(w))
           len == FuseEnds(u.lens, LineEnds)
           copy == [i \in DOMAIN dst |-> [j \in DOMAIN len |-> ModelCell(u, w, dst, len, bmp, i, j)]]
<1>1. m = CostModel(dst, len, copy, 64 * (lit.fix + penalty + bmp), 64 * (lit.var - lit.var), 64 * lit.var)
  BY Zenon DEF get_cm, LineEnds, ModelCell, DecodeIn
<1>2. ArePruned(w, Last(u.dsts))
  BY <1>0, PruneIs
<1> HIDE DEF w
<1>3. /\ IsClasses(u.dsts) /\ IsClasses(Ends(w)) /\ Last(Ends(w)) = Last(u.dsts) /\ Last(u.dsts) \in Nat
      /\ IsClasses(u.lens) /\ IsClasses(LineEnds) /\ Last(u.lens) \in Nat
  BY <1>0, <1>2, LastIs, LinesAre DEF ArePruned, TimesTable
<1>4. IsClasses(dst) /\ Last(dst) = Last(u.dsts)
  <2>1. Last(Ends(w)) <= Last(u.dsts)
    BY <1>3
  <2> QED
    BY <1>3, <2>1, FuseEndsIs, FusedLast
<1>5. IsClasses(len) /\ Last(len) = Last(u.lens)
  BY <1>0, <1>3, FuseEndsIs, FusedLast
<1> HIDE DEF dst, len, copy, m
<1>6. /\ Len(dst) \in Nat /\ DOMAIN dst = 1 .. Len(dst)
      /\ Len(len) \in Nat /\ DOMAIN len = 1 .. Len(len)
      /\ \A j \in 1 .. Len(len) : len[j] \in Nat
  BY <1>4, <1>5, ClassesIncrease
<1>7. ASSUME NEW i, NEW j \in 1 .. Len(len) PROVE ModelCell(u, w, dst, len, bmp, i, j) \in Int
  <2> DEFINE a == DecodeIn(u, dst, len, i, j)
             b == Lines(12, len[j])
             c == Misses(w, dst[i])
  <2>1. a \in Int
    BY <1>0, DecodeIsInt
  <2>2. b \in Int
    BY <1>6, LinesAre
  <2>3. c \in Int
    <3>1. Len(Ends(w)) \in Nat /\ DOMAIN w = 1 .. Len(Ends(w)) /\ \A k \in 1 .. Len(Ends(w)) : w[k].latency \in Nat
      BY <1>2, <1>3, ClassesIncrease DEF ArePruned
    <3> QED
      BY <3>1, MissesAreInts
  <2>4. ModelCell(u, w, dst, len, bmp, i, j) = 64 * (bmp + a) + b * c
    BY DEF ModelCell
  <2> HIDE DEF a, b, c
  <2> QED
    BY <1>0, <2>1, <2>2, <2>3, <2>4
<1>8. IsMatrix(copy, Len(dst), Len(len), Int)
  <2> DEFINE f == [i \in 1 .. Len(dst) |-> [j \in 1 .. Len(len) |-> ModelCell(u, w, dst, len, bmp, i, j)]]
  <2>1. \A i \in 1 .. Len(dst), j \in 1 .. Len(len) : f[i][j] \in Int
    BY <1>7
  <2>2. copy = f /\ f = [i \in 1 .. Len(dst) |-> [j \in 1 .. Len(len) |-> f[i][j]]]
    BY <1>6 DEF copy
  <2> HIDE DEF f
  <2>3. IsMatrix([i \in 1 .. Len(dst) |-> [j \in 1 .. Len(len) |-> f[i][j]]], Len(dst), Len(len), Int)
    BY <1>6, <2>1, ToMatrix
  <2> QED
    BY <2>2, <2>3
<1>9. /\ m.dst = dst /\ m.len = len /\ m.copy = copy
      /\ m.lit_fixed \in Int /\ m.lit_var \in Int /\ m.per_char \in Int
  BY <1>0, <1>1 DEF CostModel
<1>10. IsModel(m)
  BY <1>4, <1>5, <1>8, <1>9 DEF IsModel
<1>11. AsModel(m) = m
  BY <1>1 DEF AsModel, CostModel
<1> QED
  BY <1>4, <1>5, <1>9, <1>10, <1>11 DEF m, ModelOutput

(* What texts take is a number, whatever runs they are made of.            *)
Totals(g, N, d) == g \in [0 .. N -> Int] /\ g[0] = 0 /\ \A k \in 1 .. N : g[k] = g[k - 1] + d[k]
LEMMA TotalExists ==
  ASSUME NEW N \in Nat, NEW d \in [1 .. N -> Int]
  PROVE  \E g : Totals(g, N, d)
<1> DEFINE Upto(g, n) == g \in [0 .. N -> Int] /\ g[0] = 0 /\ \A k \in 1 .. N : k <= n => g[k] = g[k - 1] + d[k]
           T == {n \in Nat : \E g : Upto(g, n)}
<1>1. 0 \in T
  <2> DEFINE g == [k \in 0 .. N |-> 0]
  <2>1. g \in [0 .. N -> Int] /\ g[0] = 0
    OBVIOUS
  <2>2. \A k \in 1 .. N : ~ (k <= 0)
    OBVIOUS
  <2> HIDE DEF g
  <2>3. Upto(g, 0)
    BY <2>1, <2>2
  <2> QED
    BY <2>3
<1>2. ASSUME NEW n \in Nat, n \in T PROVE (n + 1) \in T
  <2>1. PICK g : Upto(g, n)
    BY <1>2
  <2>2. CASE n + 1 \in 1 .. N
    <3> DEFINE x == g[n] + d[n + 1]
               g2 == [g EXCEPT ![n + 1] = x]
    <3>1. n \in 0 .. N /\ n + 1 \in 0 .. N /\ 0 \in 0 .. N /\ n + 1 # 0
      BY <2>2
    <3>2. x \in Int
      BY <2>1, <2>2, <3>1
    <3>3. g2 \in [0 .. N -> Int] /\ g2[0] = 0 /\ g2[n + 1] = x
      BY <2>1, <3>1, <3>2
    <3>4. ASSUME NEW k \in 1 .. N, k <= n + 1 PROVE g2[k] = g2[k - 1] + d[k]
      <4>1. k - 1 \in 0 .. N /\ k - 1 # n + 1 /\ k \in 0 .. N
        BY <3>4
      <4>2. g2[k - 1] = g[k - 1]
        BY <2>1, <4>1
      <4>3. CASE k = n + 1
        <5>1. k - 1 = n
          BY <4>3
        <5> QED
          BY <3>3, <4>2, <4>3, <5>1
      <4>4. CASE k # n + 1
        <5>1. k <= n
          BY <3>4, <4>4
        <5>2. g2[k] = g[k]
          BY <2>1, <4>1, <4>4
        <5> QED
          BY <2>1, <4>2, <5>1, <5>2
      <4> QED
        BY <4>3, <4>4
    <3> HIDE DEF g2
    <3>5. Upto(g2, n + 1)
      BY <3>3, <3>4
    <3> QED
      BY <3>5
  <2>3. CASE n + 1 \notin 1 .. N
    <3>1. \A k \in 1 .. N : k <= n + 1 => k <= n
      BY <2>3
    <3>2. Upto(g, n + 1)
      BY <2>1, <3>1
    <3> QED
      BY <3>2
  <2> QED
    BY <2>2, <2>3
<1> HIDE DEF T
<1>3. N \in T
  BY <1>1, <1>2, InductionOn
<1>4. PICK g : Upto(g, N)
  BY <1>3 DEF T
<1>5. Totals(g, N, d)
  <2>1. \A k \in 1 .. N : k <= N
    OBVIOUS
  <2> QED
    BY <1>4, <2>1 DEF Totals
<1> QED
  BY <1>5

Accrues(time, runs, N, fix, var) ==
  \A n \in 0 .. N : time[n] = IF n = 0 THEN 0 ELSE time[n - 1] + fix + runs[n] * var
LEMMA DecodeTimeSteps ==
  ASSUME NEW runs, NEW N \in Nat, Len(runs) = N, \A k \in 1 .. N : runs[k] \in Int,
         NEW fix \in Int, NEW var \in Int
  PROVE  \E time : DecodeTime(runs, fix, var) = time[N] /\ Accrues(time, runs, N, fix, var)
<1> DEFINE d == [k \in 1 .. N |-> fix + runs[k] * var]
           Def(h) == [n \in 0 .. Len(runs) |-> IF n = 0 THEN 0 ELSE h[n - 1] + fix + runs[n] * var]
           time == CHOOSE h : h = Def(h)
<1>1. DecodeTime(runs, fix, var) = time[N]
  BY DEF DecodeTime
<1>2. d \in [1 .. N -> Int]
  <2>1. ASSUME NEW k \in 1 .. N PROVE fix + runs[k] * var \in Int
    <3> DEFINE r == runs[k]
    <3>1. r \in Int
      OBVIOUS
    <3> HIDE DEF r
    <3>2. fix + r * var \in Int
      BY <3>1
    <3> QED
      BY <3>2 DEF r
  <2> QED
    BY <2>1
<1>3. \A k \in 1 .. N : d[k] = fix + runs[k] * var
  OBVIOUS
<1> HIDE DEF d
<1>4. PICK g : Totals(g, N, d)
  BY <1>2, TotalExists
<1>5. ASSUME NEW h, h \in [0 .. N -> Int], NEW n \in 1 .. N
      PROVE h[n - 1] + fix + runs[n] * var = h[n - 1] + d[n]
  <2> DEFINE x == h[n - 1]
             y == runs[n] * var
  <2>1. x \in Int /\ y \in Int /\ d[n] = fix + y
    <3>1. n - 1 \in 0 .. N
      OBVIOUS
    <3>2. runs[n] \in Int
      OBVIOUS
    <3>3. x \in Int
      BY <1>5, <3>1
    <3> DEFINE r == runs[n]
    <3>4. r \in Int
      BY <3>2
    <3> HIDE DEF r
    <3>5. r * var \in Int
      BY <3>4
    <3> QED
      BY <1>3, <3>3, <3>5 DEF r
  <2> HIDE DEF x, y
  <2>2. x + fix + y = x + d[n]
    BY <2>1
  <2> QED
    BY <2>2 DEF x, y
<1>6. g = Def(g)
  <2>1. g \in [0 .. N -> Int] /\ g[0] = 0 /\ \A k \in 1 .. N : g[k] = g[k - 1] + d[k]
    BY <1>4 DEF Totals
  <2>2. ASSUME NEW n \in 0 .. N
        PROVE g[n] = IF n = 0 THEN 0 ELSE g[n - 1] + fix + runs[n] * var
    <3>1. CASE n = 0
      BY <2>1, <3>1
    <3>2. CASE n # 0
      <4>1. n \in 1 .. N
        BY <3>2
      <4>2. g[n - 1] + fix + runs[n] * var = g[n - 1] + d[n]
        BY <1>5, <2>1, <4>1
      <4> QED
        BY <2>1, <3>2, <4>1, <4>2
    <3> QED
      BY <3>1, <3>2
  <2>3. g = [n \in 0 .. N |-> g[n]]
    BY <2>1
  <2>4. g = [n \in 0 .. N |-> IF n = 0 THEN 0 ELSE g[n - 1] + fix + runs[n] * var]
    BY <2>2, <2>3, Zenon
  <2> QED
    BY <2>4
<1>7. time = Def(time)
  <2> HIDE DEF Def
  <2> QED
    BY <1>6, Zenon
<1> HIDE DEF time
<1>8. \A n \in 0 .. N : time[n] = IF n = 0 THEN 0 ELSE time[n - 1] + fix + runs[n] * var
  BY <1>7
<1> QED
  BY <1>1, <1>8 DEF Accrues

LEMMA DecodeTimeIsInt ==
  ASSUME NEW runs, NEW N \in Nat, Len(runs) = N, \A k \in 1 .. N : runs[k] \in Int,
         NEW fix \in Int, NEW var \in Int
  PROVE  DecodeTime(runs, fix, var) \in Int
<1>1. PICK time : DecodeTime(runs, fix, var) = time[N] /\ Accrues(time, runs, N, fix, var)
  BY DecodeTimeSteps
<1>2. \A n \in 0 .. N : time[n] = IF n = 0 THEN 0 ELSE time[n - 1] + fix + runs[n] * var
  BY <1>1 DEF Accrues
<1> DEFINE T == {n \in Nat : n <= N => time[n] \in Int}
<1>3. 0 \in T
  BY <1>2
<1>4. ASSUME NEW n \in Nat, n \in T PROVE (n + 1) \in T
  <2>1. SUFFICES ASSUME n + 1 <= N PROVE time[n + 1] \in Int
    OBVIOUS
  <2> DEFINE k == n + 1
             y == runs[k] * var
             x == time[n]
  <2>2. k \in 0 .. N /\ k # 0 /\ k - 1 = n /\ k \in 1 .. N
    BY <2>1
  <2>3. x \in Int
    BY <1>4, <2>1
  <2> HIDE DEF k, x
  <2>4. time[k] = x + fix + y
    BY <1>2, <2>2 DEF x
  <2>5. y \in Int
    <3> DEFINE r == runs[k]
    <3>1. r \in Int
      BY <2>2
    <3> HIDE DEF r
    <3>2. r * var \in Int
      BY <3>1
    <3> QED
      BY <3>2 DEF r
  <2> HIDE DEF y
  <2> QED
    BY <2>3, <2>4, <2>5 DEF k
<1> HIDE DEF T
<1>5. Nat \subseteq T
  BY <1>3, <1>4, InductionOn
<1>6. time[N] \in Int
  BY <1>5 DEF T
<1> QED
  BY <1>1, <1>6

(* What get_cm takes for literals are numbers.                             *)
LEMMA QuotientIsInt ==
  ASSUME NEW a \in Int, NEW b \in Nat \ {0}
  PROVE  a \div b \in Int
OBVIOUS

LEMMA TimeIsInt ==
  ASSUME NEW lit_len \in Nat \ {0}, NEW text_len \in Nat, NEW fix \in Int, NEW var \in Int
  PROVE  DecodeTime(UniformRuns(lit_len, text_len), fix, var) \in Int
<1> DEFINE N == (text_len + lit_len - 1) \div lit_len
           Run(k) == Min({lit_len, text_len - (k - 1) * lit_len})
           runs == [k \in 1 .. N |-> Run(k)]
<1>1. N \in Nat
  <2> DEFINE a == text_len + lit_len - 1
  <2>1. a \in Nat
    OBVIOUS
  <2> HIDE DEF a
  <2>2. a \div lit_len \in Nat
    BY <2>1
  <2> QED
    BY <2>2 DEF a
<1>2. UniformRuns(lit_len, text_len) = runs
  BY DEF UniformRuns
<1> HIDE DEF N
<1>3. Len(runs) = N
  BY <1>1
<1>4. ASSUME NEW k \in 1 .. N PROVE Run(k) \in Int
  <2> DEFINE y == text_len - (k - 1) * lit_len
  <2>1. y \in Int
    OBVIOUS
  <2> HIDE DEF y
  <2>2. Min({lit_len, y}) \in Int
    <3>1. CASE lit_len <= y
      <4>1. \E z \in {lit_len, y} : \A u \in {lit_len, y} : z <= u
        BY <2>1, <3>1
      <4> QED
        BY <2>1, <4>1 DEF Min
    <3>2. CASE ~ (lit_len <= y)
      <4>1. \E z \in {lit_len, y} : \A u \in {lit_len, y} : z <= u
        BY <2>1, <3>2
      <4> QED
        BY <2>1, <4>1 DEF Min
    <3> QED
      BY <3>1, <3>2
  <2> QED
    BY <2>2 DEF y
<1>5. \A k \in 1 .. N : runs[k] \in Int
  BY <1>4
<1> HIDE DEF runs
<1>6. DecodeTime(runs, fix, var) \in Int
  BY <1>1, <1>3, <1>5, DecodeTimeIsInt
<1> QED
  BY <1>2, <1>6

LEMMA LiteralsAreInts ==
  ASSUME NEW longest \in Nat \ {0}, NEW gig \in Nat, longest <= gig, NEW fix \in Int, NEW var \in Int
  PROVE  /\ literal_decode_time(longest, gig, fix, var).fix \in Int
         /\ literal_decode_time(longest, gig, fix, var).var \in Int
<1> DEFINE l_2 == gig \div longest
           l_1 == min_lit * l_2
           Time(lit_len) == DecodeTime(UniformRuns(lit_len, gig), fix, var)
           q == gig \div l_1
           fix_cost == (Time(q) - Time(longest)) \div (l_1 - l_2)
           lit == literal_decode_time(longest, gig, fix, var)
<1>1. lit = IF longest <= min_lit
            THEN [fix |-> (longest * Time(longest)) \div gig, var |-> 0]
            ELSE [fix |-> fix_cost, var |-> (Time(q) - l_1 * fix_cost) \div gig]
  BY DEF literal_decode_time
<1>2. gig \in Nat \ {0}
  OBVIOUS
<1>3. Time(longest) \in Int
  BY <1>2, TimeIsInt
<1>4. CASE longest <= min_lit
  <2> DEFINE t == Time(longest)
             p == longest * t
  <2>1. p \in Int
    <3> HIDE DEF t
    <3>1. t \in Int
      BY <1>3 DEF t
    <3> QED
      BY <3>1
  <2>2. lit = [fix |-> p \div gig, var |-> 0]
    BY <1>1, <1>4
  <2> HIDE DEF p, lit
  <2>3. p \div gig \in Int
    BY <1>2, <2>1, QuotientIsInt
  <2>4. lit.fix \in Int /\ lit.var \in Int
    BY <2>2, <2>3
  <2> QED
    BY <2>4 DEF lit
<1>5. CASE ~ (longest <= min_lit)
  <2>1. longest > 4
    BY <1>5 DEF min_lit
  <2>2. l_2 \in Nat /\ l_2 * longest <= gig /\ gig < (l_2 + 1) * longest
    <3> DEFINE r == gig % longest
    <3>1. l_2 \in Int /\ r \in 0 .. (longest - 1) /\ gig = longest * l_2 + r
      BY <1>2
    <3>2. l_2 \in Nat
      BY <1>2
    <3> HIDE DEF l_2, r
    <3> DEFINE x == longest * l_2
    <3>3. x \in Nat /\ l_2 * longest = x /\ (l_2 + 1) * longest = x + longest
      BY <3>2
    <3> HIDE DEF x
    <3>4. gig = x + r
      BY <3>1 DEF x
    <3>5. x <= gig /\ gig < x + longest
      BY <3>1, <3>3, <3>4
    <3> QED
      BY <3>2, <3>3, <3>5
  <2>3. l_1 = 4 * l_2
    BY DEF min_lit
  <2> HIDE DEF l_2, l_1
  <2>4. l_2 # 0
    <3>1. SUFFICES ASSUME l_2 = 0 PROVE FALSE
      OBVIOUS
    <3>2. (l_2 + 1) * longest = longest
      BY <3>1
    <3> QED
      BY <1>2, <2>2, <3>2
  <2>5. l_1 <= gig
    <3> DEFINE k == longest - 4
               x == l_2 * k
    <3>1. k \in Nat /\ longest = 4 + k
      BY <2>1
    <3> HIDE DEF k
    <3>2. l_2 * longest = l_1 + x
      BY <2>2, <2>3, <3>1
    <3>3. x \in Nat
      BY <2>2, <3>1
    <3> HIDE DEF x
    <3> QED
      BY <2>2, <2>3, <3>2, <3>3
  <2>6. l_1 \in Nat \ {0} /\ l_1 - l_2 \in Nat \ {0}
    BY <2>2, <2>3, <2>4
  <2>7. q \in Nat \ {0}
    <3> DEFINE r == gig % l_1
    <3>1. q \in Int /\ r \in 0 .. (l_1 - 1) /\ gig = l_1 * q + r
      BY <2>6
    <3>2. q \in Nat
      BY <2>6
    <3> HIDE DEF q, r
    <3>3. q # 0
      <4>1. SUFFICES ASSUME q = 0 PROVE FALSE
        OBVIOUS
      <4>2. l_1 * q = 0
        BY <2>6, <4>1
      <4> QED
        BY <2>5, <2>6, <3>1, <4>2
    <3> QED
      BY <3>2, <3>3
  <2> HIDE DEF q
  <2>8. Time(q) \in Int
    BY <2>7, TimeIsInt
  <2> DEFINE t == Time(q)
             u == Time(longest)
             gap == l_1 - l_2
  <2>9. fix_cost = (t - u) \div gap
    OBVIOUS
  <2>10. t \in Int /\ u \in Int /\ gap \in Nat \ {0}
    BY <1>3, <2>6, <2>8
  <2>11. lit = [fix |-> fix_cost, var |-> (t - l_1 * fix_cost) \div gig]
    BY <1>1, <1>5
  <2> HIDE DEF fix_cost, t, u, gap, lit
  <2>12. fix_cost \in Int
    <3> DEFINE a == t - u
    <3>1. a \in Int
      BY <2>10
    <3> HIDE DEF a
    <3>2. a \div gap \in Int
      BY <2>10, <3>1, QuotientIsInt
    <3> QED
      BY <2>9, <3>2 DEF a
  <2>13. (t - l_1 * fix_cost) \div gig \in Int
    <3> DEFINE a == t - l_1 * fix_cost
    <3>1. a \in Int
      BY <2>6, <2>10, <2>12
    <3> HIDE DEF a
    <3>2. a \div gig \in Int
      BY <1>2, <3>1, QuotientIsInt
    <3> QED
      BY <3>2 DEF a
  <2>14. lit.fix \in Int /\ lit.var \in Int
    BY <2>11, <2>12, <2>13
  <2> QED
    BY <2>14 DEF lit
<1> QED
  BY <1>4, <1>5

(* Runs that all have one length.                                          *)
EachTakes(runs, N, L, fix, var) == DecodeTime(runs, fix, var) = N * (fix + L * var)
LEMMA EqualRunsTake ==
  ASSUME NEW runs, NEW N \in Nat, NEW L \in Nat, Len(runs) = N, \A k \in 1 .. N : runs[k] = L,
         NEW fix \in Nat, NEW var \in Nat
  PROVE  EachTakes(runs, N, L, fix, var)
<1>1. PICK time : DecodeTime(runs, fix, var) = time[N] /\ Accrues(time, runs, N, fix, var)
  BY DecodeTimeSteps
<1>0. \A n \in 0 .. N : time[n] = IF n = 0 THEN 0 ELSE time[n - 1] + fix + runs[n] * var
  BY <1>1 DEF Accrues
<1> DEFINE y == L * var
           c == fix + y
           T == {n \in Nat : n <= N => time[n] = n * c}
<1>2. y \in Nat
  OBVIOUS
<1> HIDE DEF y
<1>3. c \in Nat
  BY <1>2
<1>4. 0 \in T
  <2>1. time[0] = 0
    BY <1>0
  <2> HIDE DEF c
  <2> QED
    BY <1>3, <2>1
<1>5. ASSUME NEW n \in Nat, n \in T PROVE (n + 1) \in T
  <2>1. SUFFICES ASSUME n + 1 <= N PROVE time[n + 1] = (n + 1) * c
    OBVIOUS
  <2>2. time[n] = n * c
    BY <1>5, <2>1
  <2> DEFINE k == n + 1
             x == n * c
  <2>3. k \in 0 .. N /\ k # 0 /\ k - 1 = n /\ k \in 1 .. N
    BY <2>1
  <2> HIDE DEF k
  <2>4. time[k] = time[n] + fix + runs[k] * var
    BY <1>0, <2>3
  <2>5. runs[k] * var = y
    BY <2>3 DEF y
  <2>6. time[k] = x + fix + y
    BY <2>2, <2>4, <2>5
  <2>7. x \in Nat
    <3> HIDE DEF c
    <3> QED
      BY <1>3
  <2>8. x + fix + y = x + c
    <3> HIDE DEF x
    <3> QED
      BY <1>2, <2>7
  <2>9. x + c = k * c
    <3> HIDE DEF c
    <3> QED
      BY <1>3 DEF k
  <2> HIDE DEF x, c
  <2> QED
    BY <2>6, <2>8, <2>9 DEF k
<1> HIDE DEF T
<1>6. N \in T
  BY <1>4, <1>5, InductionOn
<1>7. time[N] = N * c
  BY <1>6 DEF T
<1> QED
  BY <1>1, <1>7 DEF c, y, EachTakes

LEMMA WholeRunsTake ==
  ASSUME NEW L \in Nat \ {0}, NEW c \in Nat, NEW text \in Nat, text = c * L,
         NEW fix \in Nat, NEW var \in Nat
  PROVE  EachTakes(UniformRuns(L, text), c, L, fix, var)
<1> DEFINE N == (text + L - 1) \div L
           Run(k) == Min({L, text - (k - 1) * L})
           runs == [k \in 1 .. N |-> Run(k)]
<1>1. N = c
  <2> DEFINE r == L - 1
  <2>1. r \in 0 .. (L - 1) /\ text + L - 1 = c * L + r
    <3> DEFINE x == c * L
    <3>1. x \in Nat /\ text = x
      OBVIOUS
    <3> HIDE DEF x
    <3>2. text + L - 1 = x + (L - 1)
      BY <3>1
    <3> QED
      BY <3>2 DEF x
  <2> HIDE DEF r
  <2>2. (c * L + r) \div L = c
    BY <2>1, QuotientIs
  <2> QED
    BY <2>1, <2>2
<1>2. UniformRuns(L, text) = runs
  BY DEF UniformRuns
<1> HIDE DEF N
<1>3. Len(runs) = c
  BY <1>1
<1>4. ASSUME NEW k \in 1 .. c PROVE Run(k) = L
  <2> DEFINE rest == c - k
             x == rest * L
             y == text - (k - 1) * L
  <2>1. rest \in Nat /\ c = rest + k
    OBVIOUS
  <2>2. y = x + L /\ x \in Nat
    <3> HIDE DEF rest
    <3>1. c * L = rest * L + k * L /\ rest * L \in Nat /\ k * L \in Nat
      BY <2>1
    <3>2. (k - 1) * L = k * L - L
      OBVIOUS
    <3> DEFINE z == k * L
    <3>3. text = x + z /\ (k - 1) * L = z - L /\ x \in Nat /\ z \in Nat
      BY <3>1, <3>2
    <3> HIDE DEF x, z
    <3>4. text - (k - 1) * L = x + L
      BY <3>3
    <3> QED
      BY <3>3, <3>4
  <2> HIDE DEF x, y
  <2>3. L <= y /\ {L, y} \subseteq Nat
    BY <2>2
  <2>4. Min({L, y}) = L
    <3>1. Min({L, y}) \in {L, y} /\ \A n \in {L, y} : Min({L, y}) <= n
      BY <2>3, LeastIs
    <3> QED
      BY <2>3, <3>1
  <2> QED
    BY <2>4 DEF y
<1>5. \A k \in 1 .. c : runs[k] = L
  BY <1>1, <1>4
<1> HIDE DEF runs
<1>6. EachTakes(runs, c, L, fix, var)
  BY <1>3, <1>5, EqualRunsTake
<1> QED
  BY <1>2, <1>6 DEF EachTakes

LEMMA Cancels ==
  ASSUME NEW a \in Nat, NEW b \in Nat \ {0}
  PROVE  (a * b) \div b = a
<1>1. 0 \in 0 .. (b - 1)
  OBVIOUS
<1>2. (a * b + 0) \div b = a
  BY <1>1, QuotientIs
<1>3. a * b + 0 = a * b
  OBVIOUS
<1> QED
  BY <1>2, <1>3

LEMMA Divisible ==
  ASSUME NEW a \in Nat, NEW b \in Nat \ {0}, a % b = 0
  PROVE  a \div b \in Nat /\ a = b * (a \div b)
<1> DEFINE q == a \div b
           r == a % b
<1>1. q \in Int /\ r \in 0 .. (b - 1) /\ a = b * q + r
  OBVIOUS
<1>2. q \in Nat
  OBVIOUS
<1> HIDE DEF q, r
<1> DEFINE x == b * q
<1>3. x \in Int /\ a = x + r
  BY <1>1
<1> HIDE DEF x
<1>4. r = 0
  BY DEF r
<1>5. a = x
  BY <1>1, <1>3, <1>4
<1> QED
  BY <1>2, <1>5 DEF x, q

(* The estimates of runs that divide the text are exact where they matter. *)
LEMMA LiteralsExact ==
  ASSUME NEW ell \in Nat \ {0}, ell <= OneGig, Divides(ell), NEW fix \in Nat, NEW var \in Nat
  PROVE  LET lit == literal_decode_time(ell, OneGig, fix, var) IN
         /\ lit.fix \in Nat /\ lit.var \in Nat
         /\ lit.fix + ell * lit.var = fix + ell * var
<1> DEFINE gig == OneGig
           c == gig \div ell
           Time(lit_len) == DecodeTime(UniformRuns(lit_len, gig), fix, var)
           l_1 == min_lit * c
           q == gig \div l_1
           fix_cost == (Time(q) - Time(ell)) \div (l_1 - c)
           lit == literal_decode_time(ell, gig, fix, var)
           y == ell * var
<1>0. gig \in Nat \ {0} /\ gig % ell = 0 /\ (ell > 4 => ell % 4 = 0) /\ y \in Nat
  <2>1. gig \in Nat
    BY NumbersAssumption
  <2>2. gig # 0
    BY <2>1
  <2> HIDE DEF gig, y
  <2>3. gig % ell = 0 /\ (ell > 4 => ell % 4 = 0)
    BY DEF Divides, min_lit, gig
  <2> QED
    BY <2>1, <2>2, <2>3 DEF y
<1>1. lit = IF ell <= 4
            THEN [fix |-> (ell * Time(ell)) \div gig, var |-> 0]
            ELSE [fix |-> fix_cost, var |-> (Time(q) - l_1 * fix_cost) \div gig]
  BY DEF literal_decode_time, min_lit
<1> HIDE DEF gig, lit
<1>2. c \in Nat \ {0} /\ gig = c * ell
  <2>1. c \in Nat /\ gig = ell * c
    BY <1>0, Divisible
  <2> HIDE DEF c
  <2>2. ell * c = c * ell
    BY <2>1
  <2>3. c # 0
    BY <1>0, <2>1
  <2> QED
    BY <2>1, <2>2, <2>3
<1>3. Time(ell) = c * (fix + y)
  <2>1. ell \in Nat \ {0} /\ gig \in Nat /\ c \in Nat
    BY <1>0, <1>2
  <2> HIDE DEF c
  <2>2. EachTakes(UniformRuns(ell, gig), c, ell, fix, var)
    BY <1>2, <2>1, WholeRunsTake
  <2> QED
    BY <2>2 DEF EachTakes, y
<1> HIDE DEF c, y
<1>4. CASE ell <= 4
  <2> DEFINE a == fix + y
  <2>1. a \in Nat
    BY <1>0
  <2>2. ell * Time(ell) = a * gig
    <3> HIDE DEF a
    <3>1. ell * (c * a) = a * (c * ell)
      BY <1>2, <2>1
    <3> QED
      BY <1>2, <1>3, <3>1 DEF a
  <2> HIDE DEF a
  <2>3. (a * gig) \div gig = a
    BY <1>0, <2>1, Cancels
  <2>4. lit = [fix |-> a, var |-> 0]
    BY <1>1, <1>4, <2>2, <2>3
  <2>5. lit.fix = a /\ lit.var = 0
    BY <2>4
  <2>6. lit.fix + ell * lit.var = a
    BY <2>1, <2>5
  <2> QED
    BY <2>1, <2>5, <2>6 DEF a, y, lit, gig
<1>5. CASE ~ (ell <= 4)
  <2> DEFINE p == ell \div 4
             z == p * var
  <2>1. p \in Nat \ {0} /\ ell = 4 * p
    BY <1>0, <1>5
  <2> HIDE DEF p
  <2>2. l_1 = 4 * c /\ l_1 \in Nat \ {0} /\ l_1 - c = 3 * c /\ 3 * c \in Nat \ {0}
    BY <1>2 DEF min_lit
  <2>3. gig = l_1 * p /\ gig = p * l_1
    <3>1. c * ell = 4 * c * p
      BY <1>2, <2>1
    <3>2. l_1 * p = 4 * c * p /\ l_1 * p = p * l_1
      BY <1>2, <2>1, <2>2
    <3> HIDE DEF l_1
    <3> QED
      BY <1>2, <3>1, <3>2
  <2> HIDE DEF l_1
  <2>4. q = p
    <3>1. (p * l_1) \div l_1 = p
      BY <2>1, <2>2, Cancels
    <3> QED
      BY <2>3, <3>1
  <2>5. z \in Nat /\ y = 4 * z
    <3>1. z \in Nat
      BY <2>1
    <3>2. ell * var = 4 * (p * var)
      BY <2>1
    <3> QED
      BY <3>1, <3>2 DEF y
  <2>6. Time(q) = l_1 * (fix + z)
    <3>1. l_1 \in Nat /\ gig \in Nat
      BY <1>0, <2>2
    <3>2. EachTakes(UniformRuns(p, gig), l_1, p, fix, var)
      BY <2>1, <2>3, <3>1, WholeRunsTake
    <3> QED
      BY <2>4, <3>2 DEF EachTakes
  <2> HIDE DEF q, z
  <2> DEFINE cf == c * fix
             cz == c * z
             t == Time(q)
             u == Time(ell)
  <2>7. /\ cf \in Nat /\ cz \in Nat /\ t = 4 * cf + 4 * cz /\ u = cf + 4 * cz
        /\ fix * (3 * c) = 3 * cf /\ l_1 * fix = 4 * cf
    <3>1. cf \in Nat /\ cz \in Nat
      BY <1>2, <2>5
    <3>2. (4 * c) * (fix + z) = 4 * (c * fix) + 4 * (c * z)
      BY <1>2, <2>5
    <3>3. c * (fix + 4 * z) = c * fix + 4 * (c * z)
      BY <1>2, <2>5
    <3>4. fix * (3 * c) = 3 * (c * fix) /\ (4 * c) * fix = 4 * (c * fix)
      BY <1>2
    <3>5. t = (4 * c) * (fix + z) /\ u = c * (fix + 4 * z)
      BY <1>3, <2>2, <2>5, <2>6
    <3> HIDE DEF t, u
    <3> QED
      BY <2>2, <3>1, <3>2, <3>3, <3>4, <3>5
  <2>8. fix_cost = (t - u) \div (l_1 - c)
    OBVIOUS
  <2>9. lit = [fix |-> fix_cost, var |-> (t - l_1 * fix_cost) \div gig]
    BY <1>1, <1>5
  <2> HIDE DEF t, u, fix_cost
  <2>10. t - u = fix * (3 * c)
    <3> HIDE DEF cf, cz
    <3>1. t - u = 3 * cf
      BY <2>7
    <3> QED
      BY <2>7, <3>1
  <2>11. fix_cost = fix
    <3>1. (fix * (3 * c)) \div (3 * c) = fix
      BY <2>2, Cancels
    <3> QED
      BY <2>2, <2>8, <2>10, <3>1
  <2>12. t - l_1 * fix_cost = var * gig
    <3>1. 4 * cz = var * gig
      <4>1. 4 * (c * (p * var)) = var * (c * (4 * p))
        BY <1>2, <2>1
      <4> QED
        BY <1>2, <2>1, <4>1 DEF z
    <3> HIDE DEF cf, cz
    <3>2. t - 4 * cf = 4 * cz
      BY <2>7
    <3> QED
      BY <2>7, <2>11, <3>1, <3>2
  <2>13. (var * gig) \div gig = var
    BY <1>0, Cancels
  <2>14. lit = [fix |-> fix, var |-> var]
    BY <2>9, <2>11, <2>12, <2>13
  <2>15. lit.fix = fix /\ lit.var = var
    BY <2>14
  <2> QED
    BY <2>15 DEF lit, gig
<1> QED
  BY <1>4, <1>5

-------------------------------------------------------------------------------
(* Targets.                                                                *)

(* The rows of a model: its classes, its matrix, three numbers.            *)
IsSerialized(rows, m, n) ==
  /\ rows \in Seq(Seq(Int)) /\ Len(rows) = 5 + n
  /\ rows[1] = m.dst /\ rows[2] = m.len
  /\ \A i \in 1 .. n : rows[2 + i] = m.copy[i]
  /\ rows[2 + n + 1] = <<LitCost(m, 0)>>
  /\ rows[2 + n + 2] = <<m.per_char + LitCost(m, 1) - LitCost(m, 0)>>
  /\ rows[2 + n + 3] = <<m.per_char>>
LEMMA SerializedIs ==
  ASSUME NEW m, IsModel(m)
  PROVE  IsSerialized(wm_serialize(m), m, Len(m.dst))
<1> DEFINE n == Len(m.dst)
           x == LitCost(m, 0)
           y == m.per_char + LitCost(m, 1) - LitCost(m, 0)
           z == m.per_char
           first == <<m.dst, m.len>>
           last == <<<<x>>, <<y>>, <<z>>>>
           most == first \o m.copy
           all == most \o last
<1>1. /\ n \in Nat /\ m.dst \in Seq(Int) /\ m.len \in Seq(Int)
      /\ m.copy \in Seq(Seq(Int)) /\ Len(m.copy) = n
  <2>1. /\ IsClasses(m.dst) /\ IsClasses(m.len)
        /\ IsMatrix(m.copy, Len(m.dst), Len(m.len), Int)
    BY DEF IsModel
  <2> DEFINE v == m.dst
             w == m.len
             c == m.copy
  <2>2. v \in Seq(Nat \ {0}) /\ \A k \in 1 .. Len(v) : v[k] \in Nat \ {0}
    BY <2>1, ClassesIncrease
  <2>3. w \in Seq(Nat \ {0}) /\ \A k \in 1 .. Len(w) : w[k] \in Nat \ {0}
    BY <2>1, ClassesIncrease
  <2>4. IsMatrix(c, Len(v), Len(w), Int) /\ Len(v) \in Nat
    BY <2>1, <2>2, LenProperties
  <2> HIDE DEF v, w, c
  <2>5. \A k \in 1 .. Len(v) : v[k] \in Int
    BY <2>2
  <2>6. v \in Seq(Int)
    BY <2>2, <2>5, Narrowed
  <2>7. \A k \in 1 .. Len(w) : w[k] \in Int
    BY <2>3
  <2>8. w \in Seq(Int)
    BY <2>3, <2>7, Narrowed
  <2>9. c \in Seq(Seq(Int)) /\ Len(c) = Len(v)
    BY <2>4 DEF IsMatrix
  <2> QED
    BY <2>4, <2>6, <2>8, <2>9 DEF v, w, c
<1>2. x \in Int /\ y \in Int /\ z \in Int
  <2>1. m.lit_fixed \in Int /\ m.lit_var \in Int /\ m.per_char \in Int
    BY DEF IsModel
  <2> DEFINE f == m.lit_fixed
             v == m.lit_var
             p == m.per_char
  <2>2. x = f + 0 * v /\ y = p + (f + 1 * v) - (f + 0 * v) /\ z = p
    BY DEF LitCost
  <2>3. f \in Int /\ v \in Int /\ p \in Int
    BY <2>1
  <2> HIDE DEF f, v, p, x, y, z
  <2>4. 0 * v = 0 /\ 1 * v = v
    BY <2>3
  <2> QED
    BY <2>2, <2>3, <2>4
<1>3. wm_serialize(m) = all
  BY DEF wm_serialize
<1> HIDE DEF x, y, z
<1>4. first \in Seq(Seq(Int)) /\ Len(first) = 2 /\ first[1] = m.dst /\ first[2] = m.len
  BY <1>1
<1>5. /\ last \in Seq(Seq(Int)) /\ Len(last) = 3
      /\ last[1] = <<x>> /\ last[2] = <<y>> /\ last[3] = <<z>>
  BY <1>2
<1> DEFINE c == m.copy
<1>6. c \in Seq(Seq(Int)) /\ Len(c) = n
  BY <1>1
<1> HIDE DEF n, first, last, c
<1>7. /\ most \in Seq(Seq(Int)) /\ Len(most) = Len(first) + Len(c)
      /\ \A q \in 1 .. Len(first) : most[q] = first[q]
      /\ \A q \in 1 .. Len(c) : most[Len(first) + q] = c[q]
  <2>1. most = first \o c
    BY DEF c
  <2> DEFINE S == Seq(Int)
  <2>2. first \in Seq(S) /\ c \in Seq(S)
    BY <1>4, <1>6
  <2> HIDE DEF most, S
  <2>3. /\ first \o c \in Seq(S) /\ Len(first \o c) = Len(first) + Len(c)
        /\ \A q \in 1 .. Len(first) : (first \o c)[q] = first[q]
        /\ \A q \in 1 .. Len(c) : (first \o c)[Len(first) + q] = c[q]
    BY <2>2, Joined
  <2> QED
    BY <2>1, <2>3 DEF S
<1> HIDE DEF most
<1>8. /\ all \in Seq(Seq(Int)) /\ Len(all) = Len(most) + Len(last)
      /\ \A q \in 1 .. Len(most) : all[q] = most[q]
      /\ \A q \in 1 .. Len(last) : all[Len(most) + q] = last[q]
  <2> DEFINE S == Seq(Int)
  <2>1. most \in Seq(S) /\ last \in Seq(S)
    BY <1>5, <1>7
  <2> HIDE DEF S
  <2>2. /\ most \o last \in Seq(S) /\ Len(most \o last) = Len(most) + Len(last)
        /\ \A q \in 1 .. Len(most) : (most \o last)[q] = most[q]
        /\ \A q \in 1 .. Len(last) : (most \o last)[Len(most) + q] = last[q]
    BY <2>1, Joined
  <2> QED
    BY <2>2 DEF S
<1> HIDE DEF all
<1>9. Len(most) = 2 + n /\ Len(all) = 5 + n
  BY <1>1, <1>4, <1>5, <1>6, <1>7, <1>8
<1>10. all[1] = m.dst /\ all[2] = m.len
  <2>1. 1 \in 1 .. Len(first) /\ 2 \in 1 .. Len(first) /\ 1 \in 1 .. Len(most) /\ 2 \in 1 .. Len(most)
    BY <1>1, <1>4, <1>9
  <2>2. all[1] = first[1] /\ all[2] = first[2]
    BY <1>7, <1>8, <2>1
  <2> QED
    BY <1>4, <2>2
<1>11. ASSUME NEW i \in 1 .. n PROVE all[2 + i] = c[i]
  <2>1. i \in 1 .. Len(c) /\ 2 + i \in 1 .. Len(most) /\ Len(first) + i = 2 + i
    BY <1>1, <1>4, <1>6, <1>9
  <2>2. most[2 + i] = c[i]
    BY <1>7, <2>1
  <2> QED
    BY <1>8, <2>1, <2>2
<1>12. all[2 + n + 1] = <<x>> /\ all[2 + n + 2] = <<y>> /\ all[2 + n + 3] = <<z>>
  <2>1. 1 \in 1 .. Len(last) /\ 2 \in 1 .. Len(last) /\ 3 \in 1 .. Len(last)
    BY <1>5
  <2>2. all[Len(most) + 1] = last[1] /\ all[Len(most) + 2] = last[2] /\ all[Len(most) + 3] = last[3]
    BY <1>8, <2>1
  <2> QED
    BY <1>5, <1>9, <2>2
<1>13. IsSerialized(all, m, n)
  BY <1>8, <1>9, <1>10, <1>11, <1>12 DEF IsSerialized, c, x, y, z
<1> QED
  BY <1>3, <1>13 DEF n

(* What is read from the rows of a model is that model.                    *)
LEMMA ReadsBack ==
  ASSUME NEW m, IsModel(m)
  PROVE  wm_unserialize(wm_serialize(m)) =
           CostModel(m.dst, m.len, m.copy, m.lit_fixed, m.lit_var, m.per_char)
<1> DEFINE rows == wm_serialize(m)
           n == Len(m.dst)
           copy == SubSeq(rows, 3, 2 + n)
           c == m.copy
<1>1. IsSerialized(rows, m, n)
  BY SerializedIs
<1>2. n \in Nat /\ c \in Seq(Seq(Int)) /\ Len(c) = n /\ DOMAIN c = 1 .. n
      /\ \A i \in 1 .. n : Len(c[i]) = Len(m.len)
  <2>1. n \in Nat /\ Len(m.len) \in Nat /\ IsMatrix(c, n, Len(m.len), Int)
    BY ClassesIncrease DEF IsModel
  <2> HIDE DEF n, c
  <2> QED
    BY <2>1, InMatrix
<1> HIDE DEF rows, n, c
<1>3. /\ rows[1] = m.dst /\ rows[2] = m.len /\ \A i \in 1 .. n : rows[2 + i] = c[i]
      /\ Head(rows[2 + n + 1]) = LitCost(m, 0)
      /\ Head(rows[2 + n + 2]) = m.per_char + LitCost(m, 1) - LitCost(m, 0)
      /\ Head(rows[2 + n + 3]) = m.per_char
  BY <1>1 DEF IsSerialized, c
<1>4. /\ copy \in Seq(Seq(Int)) /\ Len(copy) = n
      /\ \A i \in 1 .. n : copy[i] = c[i]
  <2> DEFINE a == 3
             b == 2 + n
             S == Seq(Int)
  <2>1. a \in Int /\ b \in Int /\ b - a + 1 = n
    BY <1>2
  <2>2. \A i \in a .. b : rows[i] \in S
    <3>1. Len(rows) = 5 + n /\ rows \in Seq(S)
      BY <1>1 DEF IsSerialized
    <3>2. \A i \in a .. b : i \in 1 .. Len(rows)
      BY <1>2, <3>1
    <3> HIDE DEF S, a, b
    <3> QED
      BY <3>1, <3>2, ElementOfSeq
  <2>3. copy = SubSeq(rows, a, b)
    OBVIOUS
  <2> HIDE DEF S, copy
  <2>4. /\ copy \in Seq(S) /\ Len(copy) = (IF a <= b THEN b - a + 1 ELSE 0)
        /\ \A i \in 1 .. (b - a + 1) : copy[i] = rows[a + i - 1]
    <3> HIDE DEF a, b
    <3> QED
      BY <2>1, <2>2, <2>3, SubSeqProperties
  <2>5. Len(copy) = n
    BY <1>2, <2>4
  <2>6. ASSUME NEW i \in 1 .. n PROVE copy[i] = c[i]
    <3>1. i \in 1 .. (b - a + 1) /\ a + i - 1 = 2 + i
      BY <1>2
    <3> HIDE DEF a, b
    <3> QED
      BY <1>3, <2>4, <3>1
  <2> QED
    BY <2>4, <2>5, <2>6 DEF S
<1>5. copy = c
  <2> HIDE DEF copy
  <2>1. DOMAIN copy = 1 .. n /\ copy = [i \in 1 .. n |-> copy[i]]
    BY <1>4, LenProperties
  <2>2. c = [i \in 1 .. n |-> c[i]]
    BY <1>2
  <2> QED
    BY <1>4, <2>1, <2>2
<1>6. /\ Head(rows[2 + n + 1]) = m.lit_fixed
      /\ Head(rows[2 + n + 2]) - Head(rows[2 + n + 3]) = m.lit_var
      /\ Head(rows[2 + n + 3]) = m.per_char
  <2>1. m.lit_fixed \in Int /\ m.lit_var \in Int /\ m.per_char \in Int
    BY DEF IsModel
  <2>2. LitCost(m, 0) = m.lit_fixed /\ LitCost(m, 1) = m.lit_fixed + m.lit_var
    <3>1. 0 * m.lit_var = 0 /\ 1 * m.lit_var = m.lit_var /\ m.lit_fixed + 0 = m.lit_fixed
      BY <2>1
    <3> QED
      BY <3>1 DEF LitCost
  <2> QED
    BY <1>3, <2>1, <2>2
<1>7. ~ \E i \in DOMAIN copy : Len(copy[i]) # Len(rows[2])
  <2> HIDE DEF copy
  <2> QED
    BY <1>2, <1>3, <1>5
<1>8. n = Len(rows[1])
  BY <1>3 DEF n
<1>9. wm_unserialize(rows) =
        CostModel(rows[1], rows[2], copy, Head(rows[2 + n + 1]),
                  Head(rows[2 + n + 2]) - Head(rows[2 + n + 3]), Head(rows[2 + n + 3]))
  <2> DEFINE k == Len(rows[1])
  <2>1. ~ \E i \in DOMAIN SubSeq(rows, 3, 2 + k) : Len(SubSeq(rows, 3, 2 + k)[i]) # Len(rows[2])
    BY <1>7, <1>8
  <2>2. wm_unserialize(rows) =
          CostModel(rows[1], rows[2], SubSeq(rows, 3, 2 + k), Head(rows[2 + k + 1]),
                    Head(rows[2 + k + 2]) - Head(rows[2 + k + 3]), Head(rows[2 + k + 3]))
    BY <2>1 DEF wm_unserialize
  <2> HIDE DEF k
  <2> QED
    BY <1>8, <2>2 DEF k
<1> HIDE DEF copy
<1> QED
  BY <1>3, <1>5, <1>6, <1>9 DEF rows, c

(* A file where a section of rows stands between others.                   *)
Holds(file, before, name, rows, after) ==
  /\ Len(file) = Len(before) + 1 + Len(rows) + Len(after)
  /\ \A q \in 1 .. Len(before) : file[q] = before[q]
  /\ file[Len(before) + 1] = Title(name)
  /\ \A k \in 1 .. Len(rows) : file[Len(before) + 1 + k] = Row(rows[k])
  /\ \A q \in 1 .. Len(after) : file[Len(before) + 1 + Len(rows) + q] = after[q]
LEMMA SectionHolds ==
  ASSUME NEW before \in Seq(Line), NEW after \in Seq(Line), NEW name, NEW rows \in Seq(Seq(Int))
  PROVE  Holds(before \o Section(name, rows) \o after, before, name, rows, after)
<1> DEFINE S == Line \union {Title(name)} \union {Row(x) : x \in Seq(Int)}
           title == <<Title(name)>>
           body == [k \in DOMAIN rows |-> Row(rows[k])]
           section == title \o body
           most == before \o section
           file == most \o after
           R == Len(rows)
           B == Len(before)
           A == Len(after)
<1>1. /\ R \in Nat /\ DOMAIN rows = 1 .. R /\ \A k \in 1 .. R : rows[k] \in Seq(Int)
      /\ B \in Nat /\ A \in Nat
      /\ \A q \in 1 .. B : before[q] \in Line
      /\ \A q \in 1 .. A : after[q] \in Line
  BY LenProperties, ElementOfSeq
<1>2. section = Section(name, rows)
  BY DEF Section
<1> HIDE DEF R, B, A
<1>3. title \in Seq(S) /\ Len(title) = 1 /\ title[1] = Title(name)
  <2>1. Title(name) \in S
    OBVIOUS
  <2> HIDE DEF S
  <2> QED
    BY <2>1
<1>4. body \in Seq(S) /\ Len(body) = R /\ \A k \in 1 .. R : body[k] = Row(rows[k])
  <2>1. \A k \in 1 .. R : body[k] = Row(rows[k]) /\ Row(rows[k]) \in S
    BY <1>1
  <2>2. DOMAIN body = 1 .. R /\ body = [k \in 1 .. R |-> body[k]]
    BY <1>1
  <2> HIDE DEF body, S
  <2>3. body \in [1 .. R -> S]
    BY <2>1, <2>2
  <2> QED
    BY <1>1, <2>1, <2>2, <2>3
<1>5. before \in Seq(S) /\ after \in Seq(S)
  <2>1. \A q \in 1 .. Len(before) : before[q] \in S
    BY <1>1 DEF B
  <2>2. \A q \in 1 .. Len(after) : after[q] \in S
    BY <1>1 DEF A
  <2> DEFINE L == Line
  <2>3. before \in Seq(L) /\ after \in Seq(L)
    OBVIOUS
  <2> HIDE DEF S, L
  <2>4. before \in Seq(S)
    BY <2>1, <2>3, Narrowed
  <2>5. after \in Seq(S)
    BY <2>2, <2>3, Narrowed
  <2> QED
    BY <2>4, <2>5
<1> HIDE DEF S, title, body
<1>6. /\ section \in Seq(S) /\ Len(section) = Len(title) + Len(body)
      /\ \A q \in 1 .. Len(title) : section[q] = title[q]
      /\ \A q \in 1 .. Len(body) : section[Len(title) + q] = body[q]
  <2>1. title \in Seq(S) /\ body \in Seq(S)
    BY <1>3, <1>4
  <2>2. /\ title \o body \in Seq(S) /\ Len(title \o body) = Len(title) + Len(body)
        /\ \A q \in 1 .. Len(title) : (title \o body)[q] = title[q]
        /\ \A q \in 1 .. Len(body) : (title \o body)[Len(title) + q] = body[q]
    BY <2>1, Joined
  <2> QED
    BY <2>2
<1>7. /\ Len(section) = 1 + R /\ section[1] = Title(name)
      /\ \A k \in 1 .. R : section[1 + k] = Row(rows[k])
  <2>1. Len(title) = 1 /\ Len(body) = R /\ 1 \in 1 .. Len(title)
    BY <1>3, <1>4
  <2> QED
    BY <1>3, <1>4, <1>6, <2>1
<1> HIDE DEF section
<1>8. /\ most \in Seq(S) /\ Len(most) = Len(before) + Len(section)
      /\ \A q \in 1 .. Len(before) : most[q] = before[q]
      /\ \A q \in 1 .. Len(section) : most[Len(before) + q] = section[q]
  <2>1. before \in Seq(S) /\ section \in Seq(S)
    BY <1>5, <1>6
  <2>2. /\ before \o section \in Seq(S) /\ Len(before \o section) = Len(before) + Len(section)
        /\ \A q \in 1 .. Len(before) : (before \o section)[q] = before[q]
        /\ \A q \in 1 .. Len(section) : (before \o section)[Len(before) + q] = section[q]
    BY <2>1, Joined
  <2> QED
    BY <2>2
<1> HIDE DEF most
<1>9. /\ file \in Seq(S) /\ Len(file) = Len(most) + Len(after)
      /\ \A q \in 1 .. Len(most) : file[q] = most[q]
      /\ \A q \in 1 .. Len(after) : file[Len(most) + q] = after[q]
  <2>1. most \in Seq(S) /\ after \in Seq(S)
    BY <1>5, <1>8
  <2>2. /\ most \o after \in Seq(S) /\ Len(most \o after) = Len(most) + Len(after)
        /\ \A q \in 1 .. Len(most) : (most \o after)[q] = most[q]
        /\ \A q \in 1 .. Len(after) : (most \o after)[Len(most) + q] = after[q]
    BY <2>1, Joined
  <2> QED
    BY <2>2
<1> HIDE DEF file
<1>10. Len(most) = B + (1 + R) /\ Len(file) = B + 1 + R + A
  BY <1>1, <1>7, <1>8, <1>9 DEF B, A
<1>11. ASSUME NEW q \in 1 .. B PROVE file[q] = before[q]
  <2>1. q \in 1 .. Len(most)
    BY <1>1, <1>10
  <2> QED
    BY <1>8, <1>9, <2>1 DEF B
<1>12. ASSUME NEW k \in 1 .. (1 + R) PROVE file[B + k] = section[k]
  <2>1. B + k \in 1 .. Len(most) /\ k \in 1 .. Len(section)
    BY <1>1, <1>7, <1>10
  <2> QED
    BY <1>8, <1>9, <2>1 DEF B
<1>13. file[B + 1] = Title(name)
  <2>1. 1 \in 1 .. (1 + R)
    BY <1>1
  <2> QED
    BY <1>7, <1>12, <2>1
<1>14. ASSUME NEW k \in 1 .. R PROVE file[B + 1 + k] = Row(rows[k])
  <2>1. 1 + k \in 1 .. (1 + R) /\ B + (1 + k) = B + 1 + k
    BY <1>1
  <2> QED
    BY <1>7, <1>12, <2>1
<1>15. ASSUME NEW q \in 1 .. A PROVE file[B + 1 + R + q] = after[q]
  <2>1. Len(most) + q = B + 1 + R + q
    BY <1>1, <1>10
  <2> QED
    BY <1>9, <2>1 DEF A
<1>16. Holds(file, before, name, rows, after)
  BY <1>10, <1>11, <1>13, <1>14, <1>15 DEF Holds, B, R, A
<1> QED
  BY <1>2, <1>16 DEF file, most

LEMMA RowIs == ASSUME NEW x PROVE Row(x).title = "" /\ Row(x).row = x
  BY DEF Row
(* read_field finds the section of that name, whatever is around it.       *)
Apart(before, after, name) ==
  /\ before \in Seq(Line) /\ after \in Seq(Line) /\ name # ""
  /\ after # <<>> => IsTitle(Head(after))
  /\ \A q \in DOMAIN before : before[q].title # name
LEMMA FieldIs ==
  ASSUME NEW before, NEW after, NEW name, Apart(before, after, name), NEW rows \in Seq(Seq(Int))
  PROVE  read_field(before \o Section(name, rows) \o after, name) = rows
<1> DEFINE file == before \o Section(name, rows) \o after
           R == Len(rows)
           B == Len(before)
           A == Len(after)
           N == Len(file)
           I == {i \in 1 .. N : file[i].title = name}
           start == IF I # {} THEN Min(I) ELSE 0
           J == {i \in (start + 1) .. N : IsTitle(file[i])}
           next == IF J # {} THEN Min(J) ELSE 0
           lines == SubSeq(file, start + 1, IF next = 0 THEN N ELSE next - 1)
<1>1. Holds(file, before, name, rows, after)
  BY SectionHolds DEF Apart
<1>2. read_field(file, name) = IF start = 0 THEN <<>> ELSE [k \in DOMAIN lines |-> lines[k].row]
  BY DEF read_field, SelectInSeq, SelectInSubSeq
<1>3. /\ R \in Nat /\ B \in Nat /\ A \in Nat /\ DOMAIN before = 1 .. B
      /\ rows = [k \in 1 .. R |-> rows[k]]
      /\ \A k \in 1 .. R : rows[k] \in Seq(Int)
      /\ A # 0 => (1 \in 1 .. A /\ Head(after) = after[1] /\ after # <<>>)
  <2> DEFINE L == Line
             T == Seq(Int)
  <2>1. before \in Seq(L) /\ after \in Seq(L) /\ rows \in Seq(T)
    BY DEF Apart
  <2> HIDE DEF L, T
  <2>2. B \in Nat /\ DOMAIN before = 1 .. B
    BY <2>1, LenProperties
  <2>3. A \in Nat
    BY <2>1, LenProperties
  <2>4. R \in Nat /\ rows \in [1 .. R -> T]
    BY <2>1, LenProperties
  <2>5. rows = [k \in 1 .. R |-> rows[k]] /\ \A k \in 1 .. R : rows[k] \in T
    BY <2>4
  <2>6. Len(<<>>) = 0
    BY EmptySeq
  <2>7. A # 0 => (1 \in 1 .. A /\ Head(after) = after[1] /\ after # <<>>)
    <3>1. A # 0 => after # <<>>
      BY <2>6
    <3>2. A # 0 => 1 \in 1 .. A
      BY <2>3
    <3>3. after # <<>> => Head(after) = after[1]
      BY <2>1
    <3> QED
      BY <3>1, <3>2, <3>3
  <2> QED
    BY <2>2, <2>3, <2>4, <2>5, <2>7 DEF T
<1> HIDE DEF file, R, B, A, N
<1>4. /\ N = B + 1 + R + A /\ N \in Nat
      /\ \A q \in 1 .. B : file[q] = before[q]
      /\ file[B + 1] = Title(name)
      /\ \A k \in 1 .. R : file[B + 1 + k] = Row(rows[k])
      /\ \A q \in 1 .. A : file[B + 1 + R + q] = after[q]
  <2>1. /\ N = B + 1 + R + A
        /\ \A q \in 1 .. B : file[q] = before[q]
        /\ file[B + 1] = Title(name)
        /\ \A k \in 1 .. R : file[B + 1 + k] = Row(rows[k])
        /\ \A q \in 1 .. A : file[B + 1 + R + q] = after[q]
    BY <1>1 DEF Holds, N, R, B, A
  <2> QED
    BY <1>3, <2>1
<1>5. start = B + 1
  <2>1. B + 1 \in I
    BY <1>3, <1>4 DEF Title
  <2>2. ASSUME NEW i \in I PROVE B + 1 <= i
    <3>1. i \notin 1 .. B
      BY <1>3, <1>4 DEF Apart
    <3> QED
      BY <1>3, <3>1
  <2>3. I \subseteq Nat /\ I # {}
    BY <2>1
  <2> HIDE DEF I
  <2>4. Min(I) \in I /\ Min(I) \in Nat /\ Min(I) <= B + 1
    BY <2>1, <2>3, LeastIs
  <2>5. B + 1 <= Min(I)
    BY <2>2, <2>4
  <2> QED
    BY <1>3, <2>3, <2>4, <2>5
<1> HIDE DEF I, start
<1> DEFINE end == IF next = 0 THEN N ELSE next - 1
<1>6. ASSUME NEW i \in J PROVE i \in Nat /\ B + 2 + R <= i /\ i <= N
  <2>1. i \in (B + 2) .. N
    BY <1>3, <1>5
  <2>2. ~ (i <= B + 1 + R)
    <3>1. SUFFICES ASSUME i <= B + 1 + R PROVE FALSE
      OBVIOUS
    <3> DEFINE k == i - (B + 1)
    <3>2. k \in 1 .. R /\ B + 1 + k = i
      BY <1>3, <2>1, <3>1
    <3> HIDE DEF k
    <3>3. file[i] = Row(rows[k])
      BY <1>4, <3>2
    <3>4. file[i].title = ""
      BY <3>3, RowIs, Zenon
    <3>5. ~ IsTitle(file[i])
      BY <3>4 DEF IsTitle
    <3>6. IsTitle(file[i])
      OBVIOUS
    <3> QED
      BY <3>5, <3>6
  <2> QED
    BY <1>3, <2>1, <2>2
<1>7. end = B + 1 + R
  <2>1. CASE A = 0
    <3>1. J = {}
      BY <1>3, <1>4, <1>6, <2>1
    <3> QED
      BY <1>3, <1>4, <2>1, <3>1
  <2>2. CASE A # 0
    <3> DEFINE p == B + 2 + R
    <3>1. p \in (B + 2) .. N /\ p \in (start + 1) .. N /\ B + 1 + R + 1 = p /\ p \in Nat
      BY <1>3, <1>4, <1>5, <2>2
    <3>2. IsTitle(file[p])
      <4>1. file[p] = after[1]
        BY <1>3, <1>4, <2>2, <3>1
      <4> QED
        BY <1>3, <2>2, <4>1 DEF Apart
    <3>3. p \in J
      BY <3>1, <3>2
    <3>4. J \subseteq Nat /\ J # {}
      BY <1>6, <3>3
    <3>5. \A i \in J : p <= i
      BY <1>6
    <3> HIDE DEF J, p
    <3>6. Min(J) \in J /\ Min(J) \in Nat /\ Min(J) <= p
      BY <3>3, <3>4, LeastIs
    <3>7. Min(J) = p
      BY <3>1, <3>5, <3>6
    <3>8. next = p /\ p # 0 /\ p - 1 = B + 1 + R
      BY <1>3, <3>4, <3>7 DEF p
    <3> HIDE DEF next
    <3> QED
      BY <3>8
  <2> QED
    BY <2>1, <2>2
<1> HIDE DEF J, next, end
<1>8. lines = SubSeq(file, start + 1, end)
  BY DEF end
<1>9. DOMAIN lines = 1 .. R /\ \A k \in 1 .. R : lines[k] = Row(rows[k])
  <2> DEFINE S == {Row(x) : x \in Seq(Int)}
             a == start + 1
  <2>1. a \in Int /\ end \in Int /\ end - a + 1 = R
    BY <1>3, <1>5, <1>7
  <2>2. \A i \in a .. end : file[i] \in S
    <3>1. ASSUME NEW i \in a .. end PROVE file[i] \in S
      <4> DEFINE k == i - (B + 1)
      <4>1. R \in Nat /\ B \in Nat /\ i \in (B + 2) .. (B + 1 + R)
        BY <1>3, <1>5, <1>7
      <4>2. k \in 1 .. R /\ B + 1 + k = i
        BY <4>1
      <4> HIDE DEF k
      <4>3. file[i] = Row(rows[k]) /\ rows[k] \in Seq(Int)
        BY <1>3, <1>4, <4>2
      <4> QED
        BY <4>3
    <3> QED
      BY <3>1
  <2> HIDE DEF S, a
  <2>3. /\ SubSeq(file, a, end) \in Seq(S)
        /\ Len(SubSeq(file, a, end)) = (IF a <= end THEN end - a + 1 ELSE 0)
        /\ \A i \in 1 .. (end - a + 1) : SubSeq(file, a, end)[i] = file[a + i - 1]
    BY <2>1, <2>2, SubSeqProperties
  <2>4. lines = SubSeq(file, a, end)
    BY <1>8 DEF a
  <2> HIDE DEF lines
  <2>5. lines \in Seq(S) /\ Len(lines) = R
    BY <1>3, <2>1, <2>3, <2>4
  <2>6. ASSUME NEW k \in 1 .. R PROVE lines[k] = Row(rows[k])
    <3>1. k \in 1 .. (end - a + 1) /\ a + k - 1 = B + 1 + k
      BY <1>3, <1>5, <2>1 DEF a
    <3> QED
      BY <1>4, <2>3, <2>4, <3>1
  <2> QED
    BY <2>5, <2>6, LenProperties
<1> HIDE DEF lines
<1>10. start # 0
  BY <1>3, <1>5
<1>11. \A k \in 1 .. R : lines[k].row = rows[k]
  BY <1>9, RowIs, Zenon
<1>12. [k \in DOMAIN lines |-> lines[k].row] = rows
  <2>1. DOMAIN lines = 1 .. R /\ rows = [k \in 1 .. R |-> rows[k]]
    BY <1>3, <1>9
  <2>2. [k \in 1 .. R |-> lines[k].row] = [k \in 1 .. R |-> rows[k]]
    BY <1>11
  <2> QED
    BY <2>1, <2>2
<1>13. read_field(file, name) = rows
  BY <1>2, <1>10, <1>12
<1> QED
  BY <1>13 DEF file

(* A target gives back the model put in it.                                *)
LEMMA TargetGivesBack ==
  ASSUME NEW m, IsModel(m), NEW before, NEW after, NEW name, Apart(before, after, name)
  PROVE  get_wm(before \o Section(name, wm_serialize(m)) \o after, name) = AsModel(m)
<1> DEFINE rows == wm_serialize(m)
           file == before \o Section(name, rows) \o after
           n == Len(m.dst)
<1>1. rows \in Seq(Seq(Int)) /\ Len(rows) = 5 + n /\ n \in Nat
  BY SerializedIs, ClassesIncrease DEF IsSerialized, IsModel
<1>2. wm_unserialize(rows) = AsModel(m)
  BY ReadsBack DEF AsModel
<1> HIDE DEF rows, n
<1>3. rows # <<>>
  BY <1>1
<1>4. read_field(file, name) = rows
  BY <1>1, FieldIs
<1> HIDE DEF file
<1>5. get_wm(file, name) = wm_unserialize(rows)
  BY <1>3, <1>4 DEF get_wm
<1> QED
  BY <1>2, <1>5 DEF file, rows
-------------------------------------------------------------------------------
(* What is asked of models: no distance or length past the last class.     *)
LEMMA PointsReach ==
  ASSUME NEW v, IsClasses(v)
  PROVE  Points(v) \subseteq 1 .. Last(v)
<1>1. /\ Len(v) \in Nat \ {0} /\ \A x \in ToSet(v) : x \in Nat \ {0} /\ x <= Last(v)
      /\ Last(v) \in Nat \ {0} /\ Last(v) = v[Len(v)]
  BY ClassesIncrease, LastIs
<1>2. ASSUME NEW k \in 1 .. (Len(v) - 1) PROVE v[k] + 1 \in 1 .. Last(v)
  <2>1. k \in 1 .. Len(v) /\ k + 1 \in 1 .. Len(v) /\ k < k + 1
    BY <1>1
  <2>2. /\ v[k] \in Nat \ {0} /\ v[k + 1] \in Nat \ {0} /\ v[k] < v[k + 1]
        /\ v[k + 1] <= v[Len(v)]
    BY <2>1, ClassesIncrease
  <2> QED
    BY <1>1, <2>2
<1>3. ToSet(v) \subseteq 1 .. Last(v) /\ 1 \in 1 .. Last(v)
  BY <1>1
<1> QED
  BY <1>2, <1>3 DEF Points

(* What is near in one direction and in the other is close.                *)
LEMMA NearIsClose ==
  ASSUME NEW x \in Nat, NEW y \in Nat, 100 * x <= 121 * y, 100 * y <= 121 * x
  PROVE  100 * Max({x, y}) <= 121 * Min({x, y})
<1>1. ASSUME NEW a \in Nat, NEW b \in Nat, a <= b
      PROVE  Max({a, b}) = b /\ Min({a, b}) = a
  <2>1. b \in {a, b} /\ \A y_1 \in {a, b} : b >= y_1
    BY <1>1
  <2>2. a \in {a, b} /\ \A y_1 \in {a, b} : a <= y_1
    BY <1>1
  <2>3. \A z \in {a, b} : (\A y_1 \in {a, b} : z >= y_1) => z = b
    BY <1>1
  <2>4. \A z \in {a, b} : (\A y_1 \in {a, b} : z <= y_1) => z = a
    BY <1>1
  <2> QED
    BY <2>1, <2>2, <2>3, <2>4 DEF Max, Min
<1>2. CASE x <= y
  <2>1. Max({x, y}) = y /\ Min({x, y}) = x
    BY <1>1, <1>2
  <2> QED
    BY <2>1
<1>3. CASE y <= x
  <2>1. Max({y, x}) = x /\ Min({y, x}) = y
    BY <1>1, <1>3
  <2>2. {x, y} = {y, x}
    OBVIOUS
  <2> QED
    BY <2>1, <2>2
<1> QED
  BY <1>2, <1>3

(* A cost at which phrases and literals are those of another model.        *)
SameCosts(m, c) ==
  /\ IsModel(m) /\ SameReach(m, c)
  /\ m.lit_fixed = c.lit_fixed /\ m.lit_var = c.lit_var
  /\ \A d \in 1 .. Last(c.dst), ell \in 1 .. Last(c.len) : GetCost(m, d, ell) = GetCost(c, d, ell)
LEMMA FuseOfOneIs ==
  ASSUME NEW c1, NEW c2, IsModel(c1), IsModel(c2), SameReach(c1, c2)
  PROVE  SameCosts(Fuse(c1, c2, 0), c1)
<1> DEFINE z == 0
           m == Fuse(c1, c2, z)
<1>1. z \in Nat
  OBVIOUS
<1>2. \A x \in Int : z * x = 0
  OBVIOUS
<1> HIDE DEF z
<1>3. IsFused(m, c1, c2, z)
  BY <1>1, FuseIs
<1>4. c1.lit_fixed \in Int /\ c1.lit_var \in Int /\ c2.lit_fixed \in Int /\ c2.lit_var \in Int
  BY DEF IsModel
<1>5. m.lit_fixed = c1.lit_fixed /\ m.lit_var = c1.lit_var
  <2>1. /\ m.lit_fixed = c1.lit_fixed + z * c2.lit_fixed
        /\ m.lit_var = c1.lit_var + z * c2.lit_var
    BY <1>3 DEF IsFused, LiteralsAsBoth
  <2>2. z * c2.lit_fixed = 0 /\ z * c2.lit_var = 0
    BY <1>2, <1>4
  <2> QED
    BY <1>4, <2>1, <2>2
<1>6. ASSUME NEW d \in 1 .. Last(c1.dst), NEW ell \in 1 .. Last(c1.len)
      PROVE  GetCost(m, d, ell) = GetCost(c1, d, ell)
  <2>1. d \in Nat /\ ell \in Nat /\ InClasses(c1, d, ell) /\ InClasses(c2, d, ell)
    BY LastIs DEF IsModel, InClasses, SameReach
  <2>2. GetCost(c1, d, ell) \in Int
    BY <2>1, ModelAnswers
  <2>3. GetCost(c2, d, ell) \in Int
    BY <2>1, ModelAnswers
  <2>4. GetCost(m, d, ell) = GetCost(c1, d, ell) + z * GetCost(c2, d, ell)
    BY <1>3 DEF IsFused, PricesAsBoth
  <2>5. z * GetCost(c2, d, ell) = 0
    BY <1>2, <2>3
  <2> QED
    BY <2>2, <2>4, <2>5
<1>7. SameCosts(m, c1)
  BY <1>3, <1>5, <1>6 DEF SameCosts, IsFused
<1> QED
  BY <1>7 DEF m, z

LEMMA SameThrough ==
  ASSUME NEW m, NEW c1, NEW c2, SameCosts(m, c1), SameCosts(c1, c2)
  PROVE  SameCosts(m, c2)
<1>1. /\ IsModel(m) /\ SameReach(m, c2) /\ SameReach(c1, c2)
      /\ m.lit_fixed = c2.lit_fixed /\ m.lit_var = c2.lit_var
  BY DEF SameCosts, SameReach
<1>2. ASSUME NEW d \in 1 .. Last(c2.dst), NEW ell \in 1 .. Last(c2.len)
      PROVE  GetCost(m, d, ell) = GetCost(c2, d, ell)
  <2>1. d \in 1 .. Last(c1.dst) /\ ell \in 1 .. Last(c1.len)
    BY <1>1 DEF SameReach
  <2>2. GetCost(m, d, ell) = GetCost(c1, d, ell)
    BY <2>1 DEF SameCosts
  <2>3. GetCost(c1, d, ell) = GetCost(c2, d, ell)
    BY DEF SameCosts
  <2> QED
    BY <2>2, <2>3
<1> QED
  BY <1>1, <1>2 DEF SameCosts

(* The models a session works with, for a cost c and a weight w.           *)
SessionFactory(c, w) == cm_factory(fuse_cm(c, w), fuse_cm(w, c))
LEMMA FactoryIs ==
  ASSUME NEW c, NEW w, IsModel(c), IsModel(w), SameReach(c, w)
  PROVE  SameCosts(SessionFactory(c, w).cost, c) /\ SameCosts(SessionFactory(c, w).weight, w)
<1> DEFINE a == fuse_cm(c, w)
           b == fuse_cm(w, c)
           f == Fuse(a, b, 0)
           g == Fuse(b, a, 0)
<1>1. SameReach(w, c)
  BY DEF SameReach
<1>2. a = Fuse(c, w, 0) /\ b = Fuse(w, c, 0)
  BY DEF fuse_cm, cm_factory
<1>3. SameCosts(a, c)
  BY <1>2, FuseOfOneIs
<1>4. SameCosts(b, w)
  BY <1>1, <1>2, FuseOfOneIs
<1> HIDE DEF a, b
<1>5. IsModel(a) /\ IsModel(b) /\ SameReach(a, b) /\ SameReach(b, a)
  BY <1>3, <1>4 DEF SameCosts, SameReach
<1>6. SameCosts(f, a)
  BY <1>5, FuseOfOneIs
<1>7. SameCosts(g, b)
  BY <1>5, FuseOfOneIs
<1>8. SessionFactory(c, w).cost = f /\ SessionFactory(c, w).weight = g
  BY DEF SessionFactory, cm_factory, a, b
<1> HIDE DEF f, g
<1>9. SameCosts(f, c)
  BY <1>3, <1>6, SameThrough
<1>10. SameCosts(g, w)
  BY <1>4, <1>7, SameThrough
<1> QED
  BY <1>8, <1>9, <1>10

(* A mixture of what is priced as c and what is priced as w.               *)
MixesCopies(factory_, c, w, l, mixed, d, ell) ==
  /\ InClasses(c, d, ell) /\ InClasses(w, d, ell)
  /\ GetCost(factory_.cost, d, ell) = GetCost(c, d, ell)
  /\ GetCost(factory_.weight, d, ell) = GetCost(w, d, ell)
  /\ CostMap(mixed)[GetIdOf(mixed, d, ell)] = GetCost(c, d, ell) + l * GetCost(w, d, ell)
LEMMA MixtureIs ==
  ASSUME NEW factory_, NEW c, NEW w, NEW l \in Nat, IsModel(c), IsModel(w), SameReach(c, w),
         SameCosts(factory_.cost, c), SameCosts(factory_.weight, w)
  PROVE  /\ \A d \in Points(Mixture(factory_, l).dst), ell \in Points(Mixture(factory_, l).len) :
              MixesCopies(factory_, c, w, l, Mixture(factory_, l), d, ell)
         /\ \A n \in RunLengths :
              LitCost(Mixture(factory_, l), n) = LitCost(c, n) + l * LitCost(w, n)
<1> DEFINE f == factory_.cost
           g == factory_.weight
           m == Fuse(f, g, l)
<1>1. IsModel(f) /\ IsModel(g) /\ SameReach(f, g) /\ SameReach(f, c) /\ SameReach(g, w)
  BY DEF SameCosts, SameReach
<1>2. Mixture(factory_, l) = m
  BY DEF Mixture
<1> HIDE DEF f, g
<1>3. IsFused(m, f, g, l)
  BY <1>1, FuseIs
<1> HIDE DEF m
<1>4. /\ IsModel(m) /\ IsClasses(m.dst) /\ IsClasses(m.len)
      /\ Last(m.dst) = Last(c.dst) /\ Last(m.len) = Last(c.len)
      /\ Last(w.dst) = Last(c.dst) /\ Last(w.len) = Last(c.len)
      /\ Last(f.dst) = Last(c.dst) /\ Last(f.len) = Last(c.len)
  BY <1>1, <1>3 DEF IsFused, IsModel, SameReach
<1>5. ASSUME NEW d \in 1 .. Last(c.dst), NEW ell \in 1 .. Last(c.len)
      PROVE  MixesCopies(factory_, c, w, l, m, d, ell)
  <2>1. /\ d \in Nat /\ ell \in Nat
        /\ InClasses(c, d, ell) /\ InClasses(w, d, ell) /\ InClasses(m, d, ell)
    <3>1. Last(c.dst) \in Nat /\ Last(c.len) \in Nat
      BY LastIs DEF IsModel
    <3> QED
      BY <1>4, <3>1 DEF InClasses
  <2>2. GetCost(f, d, ell) = GetCost(c, d, ell)
    BY DEF SameCosts, f
  <2>3. GetCost(g, d, ell) = GetCost(w, d, ell)
    BY <1>4 DEF SameCosts, g
  <2>4. GetCost(m, d, ell) = GetCost(f, d, ell) + l * GetCost(g, d, ell)
    BY <1>3, <1>4 DEF IsFused, PricesAsBoth
  <2>5. CostMap(m)[GetIdOf(m, d, ell)] = GetCost(m, d, ell)
    BY <1>4, <2>1, MapFinds
  <2> QED
    BY <2>1, <2>2, <2>3, <2>4, <2>5 DEF MixesCopies, f, g
<1>6. Points(m.dst) \subseteq 1 .. Last(c.dst) /\ Points(m.len) \subseteq 1 .. Last(c.len)
  BY <1>4, PointsReach
<1>7. ASSUME NEW n \in RunLengths PROVE LitCost(m, n) = LitCost(c, n) + l * LitCost(w, n)
  <2> DEFINE x1 == c.lit_fixed
             y1 == c.lit_var
             x2 == w.lit_fixed
             y2 == w.lit_var
             lx == l * x2
             ly == l * y2
  <2>1. x1 \in Int /\ y1 \in Int /\ x2 \in Int /\ y2 \in Int
    BY DEF IsModel
  <2>2. m.lit_fixed = x1 + lx /\ m.lit_var = y1 + ly
    BY <1>3 DEF IsFused, LiteralsAsBoth, SameCosts, f, g
  <2>3. LitCost(c, n) = x1 + n * y1 /\ LitCost(w, n) = x2 + n * y2
    BY DEF LitCost
  <2>4. LitCost(m, n) = (x1 + lx) + n * (y1 + ly)
    BY <2>2 DEF LitCost
  <2>5. n \in 0 .. 3
    BY DEF RunLengths
  <2> HIDE DEF x1, y1, x2, y2
  <2>6. /\ lx \in Int /\ ly \in Int
        /\ l * (x2 + 0 * y2) = lx /\ l * (x2 + 1 * y2) = lx + ly
        /\ l * (x2 + 2 * y2) = lx + 2 * ly /\ l * (x2 + 3 * y2) = lx + 3 * ly
    BY <2>1
  <2> HIDE DEF lx, ly
  <2>7. CASE n = 0
    BY <2>1, <2>3, <2>4, <2>6, <2>7
  <2>8. CASE n = 1
    BY <2>1, <2>3, <2>4, <2>6, <2>8
  <2>9. CASE n = 2
    BY <2>1, <2>3, <2>4, <2>6, <2>9
  <2>10. CASE n = 3
    BY <2>1, <2>3, <2>4, <2>6, <2>10
  <2> QED
    BY <2>5, <2>7, <2>8, <2>9, <2>10
<1> QED
  BY <1>2, <1>5, <1>6, <1>7
-------------------------------------------------------------------------------
(* What the model charges a copy.                                          *)

(* The class of a number, from 1.                                          *)
LEMMA IndexIs ==
  ASSUME NEW v, IsClasses(v), NEW x \in Nat, x <= Last(v)
  PROVE  /\ IndexOf(v, x) \in 1 .. Len(v) /\ v[IndexOf(v, x)] \in Nat \ {0} /\ x <= v[IndexOf(v, x)]
         /\ \A k \in 1 .. Len(v) : v[k] < x <=> k < IndexOf(v, x)
<1> DEFINE b == LowerBound(v, x)
<1>1. b \in 0 .. Len(v) /\ b < Len(v) /\ \A k \in 1 .. Len(v) : v[k] < x <=> k <= b
  BY LowerBoundIs
<1>2. /\ Len(v) \in Nat \ {0} /\ \A k \in 1 .. Len(v) : v[k] \in Nat \ {0}
  BY ClassesIncrease
<1>3. IndexOf(v, x) = b + 1
  BY DEF IndexOf
<1> HIDE DEF b
<1>4. b + 1 \in 1 .. Len(v)
  BY <1>1, <1>2
<1>5. ~ (v[b + 1] < x)
  BY <1>1, <1>4
<1>6. \A k \in 1 .. Len(v) : v[k] < x <=> k < b + 1
  BY <1>1
<1> QED
  BY <1>2, <1>3, <1>4, <1>5, <1>6

(* The place of a member.                                                  *)
LEMMA IndexOfMember ==
  ASSUME NEW v, IsClasses(v), NEW x \in ToSet(v)
  PROVE  /\ x \in Nat \ {0} /\ x <= Last(v)
         /\ IndexOf(v, x) \in 1 .. Len(v) /\ v[IndexOf(v, x)] = x
<1>1. x \in Nat \ {0} /\ x <= Last(v)
  BY LastIs
<1>2. /\ DOMAIN v = 1 .. Len(v) /\ Len(v) \in Nat /\ \A k, n \in 1 .. Len(v) : k < n => v[k] < v[n]
  BY ClassesIncrease
<1>3. PICK n \in 1 .. Len(v) : x = v[n]
  BY <1>2 DEF ToSet
<1> DEFINE p == IndexOf(v, x)
<1>4. p \in 1 .. Len(v) /\ v[p] \in Nat \ {0} /\ x <= v[p] /\ \A k \in 1 .. Len(v) : v[k] < x <=> k < p
  BY <1>1, IndexIs
<1> HIDE DEF p
<1>5. ~ (n < p)
  BY <1>1, <1>3, <1>4
<1>6. ~ (p < n)
  BY <1>1, <1>2, <1>3, <1>4
<1>7. p = n
  BY <1>4, <1>5, <1>6
<1> QED
  BY <1>1, <1>3, <1>4, <1>7 DEF p

(* A class is spanned by the one of its numbers, and by that of the number *)
(* after its end.                                                          *)
LEMMA SpanIs ==
  ASSUME NEW ends, NEW labels, IsClasses(ends), IsClasses(labels), ToSet(labels) \subseteq ToSet(ends),
         Last(labels) = Last(ends), NEW x \in Nat, x <= Last(ends),
         NEW k \in 1 .. Len(labels)
  PROVE  IndexOf(ends, x) \in Spans(ends, labels, k) <=> k \in ChargedFor(labels, ends, x)
<1> DEFINE i == IndexOf(ends, x)
           e == ends[i]
           b == IndexOf(labels, x)
           next == Min({e + 1, Last(ends)})
           past == IndexOf(labels, next)
           Place(c) == IndexOf(ends, labels[c])
<1>1. i \in 1 .. Len(ends) /\ e \in Nat \ {0}
  BY IndexIs
<1>2. b \in 1 .. Len(labels) /\ \A c \in 1 .. Len(labels) : labels[c] < e <=> c < b
  <2>1. LowerBound(labels, ends[LowerBound(ends, x) + 1]) = LowerBound(labels, x)
    BY SameClassOfEnd
  <2>2. IndexOf(labels, e) = b
    BY <2>1 DEF IndexOf
  <2>3. e \in ToSet(ends)
    BY <1>1, ClassesIncrease DEF ToSet
  <2>4. e \in Nat /\ e <= Last(labels)
    BY <1>1, <2>3, LastIs
  <2> HIDE DEF e
  <2>5. /\ IndexOf(labels, e) \in 1 .. Len(labels)
        /\ \A c \in 1 .. Len(labels) : labels[c] < e <=> c < IndexOf(labels, e)
    BY <2>4, IndexIs
  <2> QED
    BY <2>2, <2>5
<1>3. /\ DOMAIN labels = 1 .. Len(labels) /\ Len(labels) \in Nat \ {0}
      /\ \A c \in 1 .. Len(labels) : labels[c] \in Nat \ {0}
  BY ClassesIncrease
<1>4. /\ Len(ends) \in Nat /\ \A p, q \in 1 .. Len(ends) : p < q => ends[p] < ends[q]
      /\ \A p \in 1 .. Len(ends) : ends[p] \in Nat
  BY ClassesIncrease
<1>5. ASSUME NEW c \in 1 .. Len(labels)
      PROVE  Place(c) \in 1 .. Len(ends) /\ ends[Place(c)] = labels[c]
  <2>1. labels[c] \in ToSet(ends)
    BY <1>3 DEF ToSet
  <2> QED
    BY <2>1, IndexOfMember
<1>6. /\ past \in 1 .. Len(labels)
      /\ \A c \in 1 .. (Len(labels) - 1) : labels[c] <= e <=> c < past
      /\ b <= past /\ past <= b + 1
  <2> DEFINE n == Len(labels)
             top == Last(ends)
  <2>1. /\ n \in Nat \ {0} /\ top = labels[n] /\ top \in Nat
        /\ \A c, o \in 1 .. n : c < o => labels[c] < labels[o]
        /\ \A c \in 1 .. n : labels[c] \in Nat
    BY <1>3, ClassesIncrease, LastIs DEF Last
  <2>2. next \in {e + 1, top} /\ next <= e + 1 /\ next <= top
    <3> HIDE DEF e
    <3>1. {e + 1, top} \subseteq Nat
      BY <1>1, <2>1
    <3> QED
      BY <3>1, LeastIs
  <2>3. next \in Nat /\ next <= Last(labels)
    BY <1>1, <2>1, <2>2
  <2>4. past \in 1 .. n /\ \A c \in 1 .. n : labels[c] < next <=> c < past
    BY <2>3, IndexIs
  <2> HIDE DEF next, past, e, b, i, n, top
  <2>5. ASSUME NEW c \in 1 .. (n - 1) PROVE labels[c] <= e <=> c < past
    <3>1. c \in 1 .. n /\ labels[c] < top /\ labels[c] \in Nat
      BY <2>1
    <3>2. labels[c] <= e <=> labels[c] < next
      BY <1>1, <2>1, <2>2, <2>3, <3>1
    <3> QED
      BY <2>4, <3>1, <3>2
  <2>6. b \in 1 .. n /\ \A c \in 1 .. n : labels[c] < e <=> c < b
    BY <1>2 DEF n
  <2>7. b <= past
    <3>1. SUFFICES ASSUME past < b PROVE FALSE
      BY <2>4, <2>6
    <3>2. past \in 1 .. (n - 1) /\ labels[past] < e /\ labels[past] \in Nat
      BY <2>1, <2>4, <2>6, <3>1
    <3>3. labels[past] <= e
      BY <1>1, <3>2
    <3>4. past < past
      BY <2>5, <3>2, <3>3
    <3> QED
      BY <2>4, <3>4
  <2>8. past <= b + 1
    <3>1. SUFFICES ASSUME b + 1 < past PROVE FALSE
      BY <2>4, <2>6
    <3>2. b + 1 \in 1 .. (n - 1)
      BY <2>1, <2>4, <2>6, <3>1
    <3>3. labels[b + 1] <= e
      BY <2>5, <3>1, <3>2
    <3>4. labels[b] < labels[b + 1] /\ labels[b] \in Nat /\ labels[b + 1] \in Nat
      BY <2>1, <2>6, <3>2
    <3>5. labels[b] < e
      BY <1>1, <3>3, <3>4
    <3>6. b < b
      BY <2>6, <3>5
    <3> QED
      BY <2>6, <3>6
  <2> QED
    BY <2>4, <2>5, <2>7, <2>8 DEF n
<1> HIDE DEF next, past, i, b
<1>7. ASSUME NEW c \in 1 .. Len(labels)
      PROVE  (i <= Place(c) <=> e <= labels[c]) /\ (Place(c) <= i <=> labels[c] <= e)
  <2> DEFINE p == Place(c)
             y == labels[c]
  <2>1. p \in 1 .. Len(ends) /\ ends[p] = y /\ y \in Nat
    BY <1>3, <1>5
  <2>2. p < i => y < e
    BY <1>1, <1>4, <2>1
  <2>3. i < p => e < y
    BY <1>1, <1>4, <2>1
  <2>4. i = p => e = y
    BY <2>1
  <2> HIDE DEF p, y, e
  <2>5. (i <= p <=> e <= y) /\ (p <= i <=> y <= e)
    BY <1>1, <2>1, <2>2, <2>3, <2>4
  <2> QED
    BY <2>5 DEF p, y
<1>8. i <= Place(k) <=> b <= k
  <2>1. i <= Place(k) <=> ~ (labels[k] < e)
    <3> HIDE DEF Place, e
    <3> QED
      BY <1>1, <1>3, <1>7
  <2> HIDE DEF e
  <2> QED
    BY <1>2, <2>1
<1>9. ChargedFor(labels, ends, x) = {b, past}
  BY DEF ChargedFor, b, past, next, i
<1>10. CASE k = 1
  <2>1. Spans(ends, labels, k) = 1 .. Place(k)
    BY <1>10 DEF Spans
  <2>2. i \in 1 .. Place(k) <=> i <= Place(k)
    BY <1>1, <1>5 DEF i
  <2> HIDE DEF Place
  <2>3. b <= k <=> k \in {b, past}
    BY <1>2, <1>6, <1>10
  <2> QED
    BY <1>8, <1>9, <2>1, <2>2, <2>3 DEF i
<1>11. CASE k # 1
  <2> DEFINE c == k - 1
  <2>1. c \in 1 .. Len(labels) /\ c \in 1 .. (Len(labels) - 1) /\ k = c + 1
    BY <1>3, <1>11
  <2>2. Spans(ends, labels, k) = Place(c) .. Place(k)
    BY <1>11 DEF Spans
  <2> HIDE DEF c
  <2>3. Place(c) <= i <=> labels[c] <= e
    BY <1>7, <2>1
  <2>4. Place(c) <= i <=> c < past
    BY <1>6, <2>1, <2>3
  <2>5. i \in Place(c) .. Place(k) <=> Place(c) <= i /\ i <= Place(k)
    BY <1>1, <1>5, <2>1 DEF i
  <2> HIDE DEF Place
  <2>6. c < past /\ b <= k <=> k \in {b, past}
    BY <1>2, <1>6, <2>1
  <2> QED
    BY <1>8, <1>9, <2>2, <2>4, <2>5, <2>6 DEF i
<1> QED
  BY <1>10, <1>11

(* One window is missed, the one that holds the distance.                  *)
LEMMA MissesIs ==
  ASSUME NEW v, IsClasses(Ends(v)), DOMAIN v = 1 .. Len(Ends(v)), \A k \in DOMAIN v : v[k].latency \in Nat,
         NEW d \in Nat, d <= Last(Ends(v))
  PROVE  Misses(v, d) = v[IndexOf(Ends(v), d)].latency
<1> DEFINE n == Len(Ends(v))
           b == IndexOf(Ends(v), d)
           S == MissedBy(v, d)
           f == LatenciesOf(v, S)
<1>1. /\ n \in Nat \ {0} /\ DOMAIN v = 1 .. n
      /\ \A k \in 1 .. n : v[k].dist = Ends(v)[k] /\ Ends(v)[k] \in Nat
  BY ClassesIncrease DEF Ends
<1>2. b \in 1 .. n /\ \A k \in 1 .. n : Ends(v)[k] < d <=> k < b
  BY IndexIs
<1>3. ASSUME NEW k \in 1 .. n PROVE k \in S <=> k = b
  <2>1. d <= v[k].dist <=> b <= k
    <3>1. v[k].dist \in Nat /\ (v[k].dist < d <=> k < b)
      BY <1>1, <1>2
    <3> DEFINE y == v[k].dist
    <3> HIDE DEF b
    <3>2. y \in Nat /\ (y < d <=> k < b)
      BY <3>1
    <3> HIDE DEF y
    <3>3. d <= y <=> b <= k
      BY <1>2, <3>2
    <3> QED
      BY <3>3 DEF y
  <2>2. CASE k = 1
    <3>1. k \in S <=> d <= v[k].dist
      BY <1>1, <2>2 DEF MissedBy
    <3> HIDE DEF b, S
    <3> QED
      BY <1>2, <2>1, <2>2, <3>1
  <2>3. CASE k # 1
    <3>1. k - 1 \in 1 .. n
      BY <1>1, <2>3
    <3>2. v[k - 1].dist < d <=> k - 1 < b
      BY <1>1, <1>2, <3>1
    <3>3. k \in S <=> v[k - 1].dist < d /\ d <= v[k].dist
      BY <1>1, <2>3 DEF MissedBy
    <3> HIDE DEF b, S
    <3> QED
      BY <1>2, <2>1, <3>2, <3>3
  <2> QED
    BY <2>2, <2>3
<1>4. S \subseteq 1 .. n
  BY <1>1 DEF MissedBy
<1>5. S = {b}
  <2> HIDE DEF S, b
  <2> QED
    BY <1>2, <1>3, <1>4
<1>6. /\ f \in [S -> Int] /\ \E g : Sums(g, f, S) /\ Misses(v, d) = g[S]
  BY <1>1, MissesSum
<1>7. PICK g : Sums(g, f, S) /\ Misses(v, d) = g[S]
  BY <1>6
<1>8. f[b] = v[b].latency
  BY <1>5 DEF LatenciesOf
<1> HIDE DEF f, S, b
<1>9. g[S] = f[b]
  BY <1>5, <1>6, <1>7, SumOfOne
<1> QED
  BY <1>7, <1>8, <1>9 DEF b

(* That window is the one of the machine's too.                            *)
LEMMA WindowIs ==
  ASSUME NEW v, NEW w, NEW x, ArePruned(v, x), CutFrom(v, w), NEW n \in Nat, DOMAIN w = 1 .. n,
         NEW d \in Nat, d <= x
  PROVE  LET k == Min({c \in DOMAIN w : d <= w[c].dist}) IN
         /\ k = IndexOf(Ends(v), d) /\ k \in DOMAIN w /\ v[k].latency = w[k].latency
<1> DEFINE b == IndexOf(Ends(v), d)
           T == {c \in DOMAIN w : d <= w[c].dist}
           N == Len(Ends(v))
<1>1. /\ IsClasses(Ends(v)) /\ DOMAIN v = 1 .. N /\ Last(Ends(v)) = x
      /\ N \in Nat \ {0} /\ \A k \in 1 .. N : Ends(v)[k] = v[k].dist /\ Ends(v)[k] \in Nat
  BY ClassesIncrease DEF ArePruned, Ends
<1>2. b \in 1 .. N /\ d <= Ends(v)[b] /\ \A k \in 1 .. N : Ends(v)[k] < d <=> k < b
  BY <1>1, IndexIs
<1>3. \A k \in 1 .. N : /\ k \in 1 .. n /\ v[k].latency = w[k].latency
                        /\ w[k].dist \in Nat /\ v[k].dist <= w[k].dist
                        /\ k < N => v[k].dist = w[k].dist
  BY <1>1 DEF CutFrom
<1>4. b \in T
  <2>1. d <= v[b].dist /\ v[b].dist <= w[b].dist /\ v[b].dist \in Nat /\ w[b].dist \in Nat
    BY <1>1, <1>2, <1>3
  <2>2. b \in 1 .. n /\ d <= w[b].dist
    BY <1>2, <1>3, <2>1
  <2> QED
    BY <2>2
<1>5. ASSUME NEW c \in T PROVE b <= c
  <2>1. SUFFICES ASSUME c < b PROVE FALSE
    BY <1>2
  <2>2. c \in 1 .. n /\ d <= w[c].dist
    OBVIOUS
  <2> HIDE DEF b, N
  <2>3. c \in 1 .. N /\ c < N
    BY <1>1, <1>2, <2>1, <2>2
  <2>4. Ends(v)[c] < d /\ Ends(v)[c] = w[c].dist /\ w[c].dist \in Nat
    BY <1>1, <1>2, <1>3, <2>1, <2>3
  <2> QED
    BY <2>2, <2>4
<1> HIDE DEF b, T
<1>6. T \subseteq Nat
  BY DEF T
<1>7. Min(T) = b
  <2>1. Min(T) \in T /\ \A c \in T : Min(T) <= c
    BY <1>4, <1>6, LeastIs
  <2>2. Min(T) <= b /\ b <= Min(T) /\ Min(T) \in Nat /\ b \in Nat
    BY <1>4, <1>5, <1>6, <2>1
  <2> QED
    BY <2>2
<1>8. b \in 1 .. n /\ v[b].latency = w[b].latency
  BY <1>2, <1>3
<1> QED
  BY <1>7, <1>8 DEF b, T

LEMMA ChargedAre ==
  ASSUME NEW ends, NEW labels, IsClasses(ends), IsClasses(labels), Last(labels) = Last(ends),
         NEW x \in Nat, x <= Last(ends)
  PROVE  ChargedFor(labels, ends, x) \subseteq 1 .. Len(labels)
<1> DEFINE e == ends[IndexOf(ends, x)]
           top == Last(ends)
           next == Min({e + 1, top})
<1>1. e \in Nat /\ top \in Nat
  BY IndexIs, LastIs
<1> HIDE DEF e, top
<1>2. {e + 1, top} \subseteq Nat
  BY <1>1
<1>3. next \in Nat /\ next <= top
  BY <1>2, LeastIs
<1>4. ASSUME NEW y \in {x, next} PROVE IndexOf(labels, y) \in 1 .. Len(labels)
  BY <1>3, IndexIs DEF top
<1> QED
  BY <1>4 DEF ChargedFor, next, e, top

(* The classes of phrases charged are those of both labels.                *)
LEMMA DecodeIs ==
  ASSUME NEW u, TimesTable(u), NEW dst, NEW len, IsClasses(dst), IsClasses(len),
         ToSet(u.dsts) \subseteq ToSet(dst), ToSet(u.lens) \subseteq ToSet(len),
         Last(u.dsts) = Last(dst), Last(u.lens) = Last(len),
         NEW d \in Nat, d <= Last(dst), NEW ell \in Nat, ell <= Last(len)
  PROVE  DecodeIn(u, dst, len, IndexOf(dst, d), IndexOf(len, ell))
           = PhrasesTake(u, ChargedFor(u.dsts, dst, d) \X ChargedFor(u.lens, len, ell))
<1> DEFINE i == IndexOf(dst, d)
           j == IndexOf(len, ell)
           A == ChargedFor(u.dsts, dst, d)
           B == ChargedFor(u.lens, len, ell)
           S == CellsIn(u, dst, len, i, j)
<1>1. /\ IsClasses(u.dsts) /\ IsClasses(u.lens)
      /\ DOMAIN u.dsts = 1 .. Len(u.dsts) /\ DOMAIN u.lens = 1 .. Len(u.lens)
  BY ClassesIncrease DEF TimesTable
<1>2. A \subseteq 1 .. Len(u.dsts) /\ B \subseteq 1 .. Len(u.lens)
  BY <1>1, ChargedAre
<1>3. \A k \in 1 .. Len(u.dsts) : i \in Spans(dst, u.dsts, k) <=> k \in A
  BY <1>1, SpanIs
<1>4. \A k \in 1 .. Len(u.lens) : j \in Spans(len, u.lens, k) <=> k \in B
  BY <1>1, SpanIs
<1>5. S = {c \in (1 .. Len(u.dsts)) \X (1 .. Len(u.lens)) :
             i \in Spans(dst, u.dsts, c[1]) /\ j \in Spans(len, u.lens, c[2])}
  BY <1>1 DEF CellsIn
<1>6. DecodeIn(u, dst, len, i, j) = PhrasesTake(u, S)
  BY DEF DecodeIn, CellsIn, PhrasesTake
<1> HIDE DEF A, B, S, i, j
<1>7. S = A \X B
  <2>1. ASSUME NEW c \in S PROVE c \in A \X B
    <3>1. /\ c[1] \in 1 .. Len(u.dsts) /\ c[2] \in 1 .. Len(u.lens) /\ c = <<c[1], c[2]>>
          /\ i \in Spans(dst, u.dsts, c[1]) /\ j \in Spans(len, u.lens, c[2])
      BY <1>5
    <3>2. c[1] \in A /\ c[2] \in B
      BY <1>3, <1>4, <3>1
    <3> QED
      BY <3>1, <3>2
  <2>2. ASSUME NEW p \in A, NEW q \in B PROVE <<p, q>> \in S
    BY <1>2, <1>3, <1>4, <1>5
  <2> QED
    BY <2>1, <2>2
<1> QED
  BY <1>6, <1>7 DEF A, B, i, j

(* A copy of the model costs what it takes.                                *)
TakesIn(found, u, bmp, m, d, ell) ==
  LET bytes == InBytes(found)
      k == Min({n \in DOMAIN bytes : d <= bytes[n].dist})
      decode == PhrasesTake(u, ChargedFor(u.dsts, m.dst, d) \X ChargedFor(u.lens, m.len, ell))
  IN  64 * (bmp + decode) + Lines(12, m.len[IndexOf(m.len, ell)]) * found[k].latency
LEMMA CopyPriced ==
  ASSUME NEW found, NEW u, NEW lit, NEW bmp, NEW penalty, ModelInput(found, u, lit, bmp, penalty),
         NEW m, m = get_cm(found, lit.var, u, lit, bmp, penalty, 12),
         NEW d \in Points(m.dst), NEW ell \in Points(m.len)
  PROVE  GetCost(m, d, ell) = TakesIn(found, u, bmp, m, d, ell)
<1>0. /\ TimesTable(u) /\ Reaches(InBytes(found), Last(u.dsts)) /\ Last(LineEnds) <= Last(u.lens)
      /\ Len(found) \in Nat /\ DOMAIN found = 1 .. Len(found)
  BY DEF ModelInput
<1> DEFINE bytes == InBytes(found)
           w == Prune(bytes, Last(u.dsts))
           dst == FuseEnds(u.dsts, Ends(w))
           len == FuseEnds(u.lens, LineEnds)
           i == IndexOf(dst, d)
           j == IndexOf(len, ell)
           e == dst[i]
           k == IndexOf(Ends(w), d)
           decode == PhrasesTake(u, ChargedFor(u.dsts, dst, d) \X ChargedFor(u.lens, len, ell))
<1>1. /\ m.dst = dst /\ m.len = len
      /\ m.copy = [p \in DOMAIN dst |-> [q \in DOMAIN len |-> ModelCell(u, w, dst, len, bmp, p, q)]]
  <2>1. m = CostModel(dst, len,
              [p \in DOMAIN dst |-> [q \in DOMAIN len |-> ModelCell(u, w, dst, len, bmp, p, q)]],
              64 * (lit.fix + penalty + bmp), 64 * (lit.var - lit.var), 64 * lit.var)
    BY Zenon DEF get_cm, LineEnds, ModelCell, DecodeIn
  <2> HIDE DEF dst, len, w
  <2> QED
    BY <2>1 DEF CostModel
<1>2. ArePruned(w, Last(u.dsts)) /\ CutFrom(w, bytes)
  BY <1>0, PruneIs
<1>3. DOMAIN bytes = 1 .. Len(found) /\ \A c \in 1 .. Len(found) : bytes[c].latency = found[c].latency
  <2>1. ASSUME NEW c \in 1 .. Len(found) PROVE bytes[c].latency = found[c].latency
    <3>1. c \in DOMAIN found
      BY <1>0
    <3> QED
      BY <3>1 DEF InBytes, Window
  <2>2. DOMAIN bytes = DOMAIN found
    BY DEF InBytes
  <2> QED
    BY <1>0, <2>1, <2>2
<1> HIDE DEF bytes, w
<1>4. /\ IsClasses(u.dsts) /\ IsClasses(Ends(w)) /\ Last(Ends(w)) = Last(u.dsts) /\ Last(u.dsts) \in Nat
      /\ IsClasses(u.lens) /\ IsClasses(LineEnds) /\ Last(u.lens) \in Nat
      /\ DOMAIN w = 1 .. Len(Ends(w)) /\ \A c \in DOMAIN w : w[c].latency \in Nat
  BY <1>0, <1>2, LastIs, LinesAre DEF ArePruned, TimesTable
<1>5. /\ IsClasses(dst) /\ Last(dst) = Last(u.dsts)
      /\ ToSet(u.dsts) \subseteq ToSet(dst) /\ ToSet(Ends(w)) \subseteq ToSet(dst)
  <2>1. Last(Ends(w)) <= Last(u.dsts)
    BY <1>4
  <2> QED
    BY <1>4, <2>1, FuseEndsIs, FusedLast
<1>6. IsClasses(len) /\ Last(len) = Last(u.lens) /\ ToSet(u.lens) \subseteq ToSet(len)
  BY <1>0, <1>4, FuseEndsIs, FusedLast
<1> HIDE DEF dst, len
<1>7. d \in Nat /\ d <= Last(dst) /\ ell \in Nat /\ ell <= Last(len)
  <2>1. d \in 1 .. Last(dst) /\ ell \in 1 .. Last(len)
    BY <1>1, <1>5, <1>6, PointsReach
  <2>2. Last(dst) \in Nat /\ Last(len) \in Nat
    BY <1>4, <1>5, <1>6
  <2> QED
    BY <2>1, <2>2
<1>8. i \in 1 .. Len(dst) /\ e \in Nat \ {0} /\ d <= e /\ j \in 1 .. Len(len)
  BY <1>5, <1>6, <1>7, IndexIs
<1>9. GetCost(m, d, ell) = ModelCell(u, w, dst, len, bmp, i, j)
  <2>1. DOMAIN dst = 1 .. Len(dst) /\ DOMAIN len = 1 .. Len(len)
    BY <1>5, <1>6, ClassesIncrease
  <2>2. GetCost(m, d, ell) = m.copy[i][j]
    BY <1>1 DEF GetCost, IndexOf
  <2> HIDE DEF i, j
  <2> QED
    BY <1>1, <1>8, <2>1, <2>2
<1>10. DecodeIn(u, dst, len, i, j) = decode
  BY <1>0, <1>1, <1>4, <1>5, <1>6, <1>7, DecodeIs
<1> HIDE DEF decode
<1>11. Misses(w, e) = w[k].latency
  <2>1. e \in ToSet(dst)
    BY <1>5, <1>8, ClassesIncrease DEF ToSet
  <2>2. e <= Last(Ends(w))
    BY <1>4, <1>5, <2>1, LastIs
  <2>3. LowerBound(Ends(w), dst[LowerBound(dst, d) + 1]) = LowerBound(Ends(w), d)
    BY <1>4, <1>5, <1>7, SameClassOfEnd
  <2>4. IndexOf(Ends(w), e) = k
    BY <2>3 DEF IndexOf
  <2> HIDE DEF e, k
  <2>5. Misses(w, e) = w[IndexOf(Ends(w), e)].latency
    BY <1>4, <1>8, <2>2, MissesIs
  <2> QED
    BY <2>4, <2>5
<1> DEFINE n == Min({c \in DOMAIN bytes : d <= bytes[c].dist})
<1>12. n = k /\ n \in 1 .. Len(found) /\ w[n].latency = found[n].latency
  <2>1. DOMAIN bytes = 1 .. Len(found)
    BY <1>3
  <2>2. d \in Nat /\ d <= Last(u.dsts) /\ Len(found) \in Nat
    BY <1>0, <1>5, <1>7
  <2>3. n = k /\ n \in DOMAIN bytes /\ w[n].latency = bytes[n].latency
    BY <1>2, <2>1, <2>2, WindowIs
  <2> HIDE DEF n
  <2> QED
    BY <1>3, <2>1, <2>3
<1>13. TakesIn(found, u, bmp, m, d, ell) = 64 * (bmp + decode) + Lines(12, len[j]) * found[n].latency
  BY <1>1 DEF TakesIn, bytes, decode
<1>14. ModelCell(u, w, dst, len, bmp, i, j) = 64 * (bmp + decode) + Lines(12, len[j]) * w[k].latency
  <2> HIDE DEF i, j, k
  <2> QED
    BY <1>10, <1>11 DEF ModelCell, e
<1> HIDE DEF n, k, j
<1> QED
  BY <1>9, <1>12, <1>13, <1>14 DEF j
-------------------------------------------------------------------------------
(* The inductive invariant: what each stage has found, while a later one   *)
(* reads it.                                                               *)
SetupIs == \E s \in Setups : machine = s.machine /\ encoder = s.encoder
WindowsAre ==
  /\ windows \in Seq([dist : Nat, latency : Nat])
  /\ Reaches(InBytes(windows), Last(encoder.cm.dst))
MeasuresAre ==
  TimesTable(measured) /\ measured.dsts = encoder.cm.dst /\ measured.lens = encoder.cm.len
TimesAre ==
  /\ TimesTable(phrase_times)
  /\ Last(phrase_times.dsts) = Last(encoder.cm.dst) /\ Last(phrase_times.lens) = Last(encoder.cm.len)
LiteralIs == literal.fix \in Int /\ literal.var \in Int
OverheadsAre == overheads.bmp \in Int /\ overheads.penalty \in Int
TimeModelIs == IsModel(time_cm) /\ SameReach(time_cm, encoder.cm) /\ AsModel(time_cm) = time_cm
TargetIs ==
  \E other \in Others :
    target = other.before \o Section(encoder.name, wm_serialize(time_cm)) \o other.after
SessionIs == bound \in {"TIME", "SPACE"} /\ factory = SessionFactory(Cost, Weight)

IInv ==
  /\ SetupIs
  /\ pc \in {"phrases", "reduce", "literals", "overheads", "build"} => WindowsAre
  /\ pc \in {"reduce", "literals"} => MeasuresAre
  /\ ReducedIsClose
  /\ pc \in {"literals", "overheads", "build"} => TimesAre
  /\ pc \in {"overheads", "build"} => LiteralIs
  /\ pc = "build" => OverheadsAre
  /\ pc \in {"print", "read", "fuse", "done"} => TimeModelIs
  /\ pc = "read" => TargetIs
  /\ pc \in {"fuse", "done"} => weight = time_cm
  /\ pc = "done" => SessionIs

(* An encoder and its machine, as the assumptions have them.               *)
SetupFacts(e, m) ==
  /\ IsModel(e.cm) /\ Last(LineEnds) <= Last(e.cm.len) /\ e.name # ""
  /\ e.literal_len \in Nat \ {0} /\ e.literal_len <= OneGig
  /\ m.fix \in Nat /\ m.var \in Nat /\ m.bmp \in Nat /\ m.penalty \in Nat
LEMMA SetupHas ==
  ASSUME SetupIs
  PROVE  SetupFacts(encoder, machine)
<1>1. PICK s \in Setups : machine = s.machine /\ encoder = s.encoder
  BY DEF SetupIs
<1>2. SetupFacts(s.encoder, s.machine)
  <2>1. /\ IsModel(s.encoder.cm) /\ Last(LineLengths(12)) <= Last(s.encoder.cm.len)
        /\ s.encoder.name # "" /\ s.encoder.literal_len \in 1 .. OneGig
        /\ {s.machine.fix, s.machine.var, s.machine.bmp, s.machine.penalty} \subseteq Nat
    BY SetupsAssumption
  <2>2. s.encoder.literal_len \in Nat \ {0} /\ s.encoder.literal_len <= OneGig
    <3> DEFINE ell == s.encoder.literal_len
    <3>1. ell \in 1 .. OneGig /\ OneGig \in Nat
      BY <2>1, NumbersAssumption
    <3> HIDE DEF ell
    <3>2. ell \in Nat \ {0} /\ ell <= OneGig
      BY <3>1
    <3> QED
      BY <3>2 DEF ell
  <2> QED
    BY <2>1, <2>2 DEF SetupFacts, LineEnds
<1> QED
  BY <1>1, <1>2

(* What a matrix of measures makes of the encoder's classes.               *)
LEMMA MeasuresFit ==
  ASSUME SetupIs, NEW cm \in Matrices
  PROVE  TimesTable([cm |-> cm, dsts |-> encoder.cm.dst, lens |-> encoder.cm.len])
<1>1. PICK s \in Setups : encoder = s.encoder
  BY DEF SetupIs
<1>2. IsMatrix(cm, Len(encoder.cm.dst), Len(encoder.cm.len), Positive)
  BY <1>1, MatricesAssumption DEF Positive
<1>3. IsClasses(encoder.cm.dst) /\ IsClasses(encoder.cm.len)
  BY SetupHas DEF SetupFacts, IsModel
<1> QED
  BY <1>2, <1>3 DEF TimesTable

LEMMA WindowsFit ==
  ASSUME SetupIs, NEW p \in ProbesOf(machine)
  PROVE  /\ memory_access_times(p) \in Seq([dist : Nat, latency : Nat])
         /\ Reaches(InBytes(memory_access_times(p)), Last(encoder.cm.dst))
<1> DEFINE found == memory_access_times(p)
           ends == Ends(InBytes(found))
           L == [dist : Nat, latency : Nat]
<1>1. PICK s \in Setups : machine = s.machine /\ encoder = s.encoder
  BY DEF SetupIs
<1>2. /\ IsClasses(ends) /\ Last(encoder.cm.dst) <= Last(ends) /\ found \in Seq(L)
  BY <1>1, MemoryAssumption
<1>3. Last(encoder.cm.dst) \in Nat \ {0}
  BY SetupHas, LastIs DEF SetupFacts, IsModel
<1>4. \A k \in DOMAIN InBytes(found) : InBytes(found)[k].latency \in Nat
  <2>1. DOMAIN InBytes(found) = DOMAIN found
    BY DEF InBytes
  <2>2. ASSUME NEW k \in DOMAIN found PROVE InBytes(found)[k].latency \in Nat
    <3>1. InBytes(found)[k].latency = found[k].latency
      BY DEF InBytes, Window
    <3>2. found[k] \in L
      <4> HIDE DEF found, L
      <4> QED
        BY <1>2, LenProperties
    <3> QED
      BY <3>1, <3>2
  <2> QED
    BY <2>1, <2>2
<1> QED
  BY <1>2, <1>3, <1>4 DEF Reaches

LEMMA MeasureMemoryKeeps ==
  ASSUME IInv, MeasureMemory
  PROVE  IInv'
<1> DEFINE found == memory_access_times(probes')
<1>1. SetupIs
  BY DEF IInv
<1>2. /\ pc' = "phrases" /\ windows' = found /\ probes' \in ProbesOf(machine)
      /\ machine' = machine /\ encoder' = encoder
  BY DEF MeasureMemory, setup
<1>3. found \in Seq([dist : Nat, latency : Nat]) /\ Reaches(InBytes(found), Last(encoder.cm.dst))
  BY <1>1, <1>2, WindowsFit
<1> HIDE DEF found
<1>4. SetupIs'
  BY <1>1, <1>2 DEF SetupIs
<1>5. WindowsAre'
  BY <1>2, <1>3 DEF WindowsAre
<1>6. ReducedIsClose'
  BY <1>2 DEF ReducedIsClose
<1> QED
  BY <1>2, <1>4, <1>5, <1>6 DEF IInv

LEMMA TimePhrasesKeeps ==
  ASSUME IInv, TimePhrases
  PROVE  IInv'
<1>1. SetupIs /\ WindowsAre
  BY DEF IInv, TimePhrases
<1>2. pc' = "reduce" /\ windows' = windows /\ machine' = machine /\ encoder' = encoder
  BY DEF TimePhrases, setup
<1>3. PICK cm \in Matrices :
        measured' = [cm |-> cm, dsts |-> encoder.cm.dst, lens |-> encoder.cm.len]
  BY DEF TimePhrases
<1>4. TimesTable(measured') /\ measured'.dsts = encoder.cm.dst /\ measured'.lens = encoder.cm.len
  BY <1>1, <1>3, MeasuresFit
<1>5. MeasuresAre'
  BY <1>2, <1>4 DEF MeasuresAre
<1>6. SetupIs' /\ WindowsAre'
  BY <1>1, <1>2 DEF SetupIs, WindowsAre
<1>7. ReducedIsClose'
  BY <1>2 DEF ReducedIsClose
<1> QED
  BY <1>2, <1>5, <1>6, <1>7 DEF IInv

LEMMA ReduceTimesKeeps ==
  ASSUME IInv, ReduceTimes
  PROVE  IInv'
<1> DEFINE t == reduce_tm(measured)
<1>1. SetupIs /\ WindowsAre /\ MeasuresAre
  BY DEF IInv, ReduceTimes
<1>2. /\ pc' = "literals" /\ phrase_times' = t /\ measured' = measured
      /\ windows' = windows /\ machine' = machine /\ encoder' = encoder
  BY DEF ReduceTimes, setup, memory
<1>3. /\ TimesTable(t) /\ SameEnds(t, measured)
      /\ \A d \in 1 .. Last(measured.dsts), ell \in 1 .. Last(measured.lens) :
           NearTo(t, measured, d, ell)
  BY <1>1, ReduceTimesIs DEF MeasuresAre
<1> HIDE DEF t
<1>4. TimesAre'
  BY <1>1, <1>2, <1>3 DEF TimesAre, MeasuresAre, SameEnds
<1>5. ASSUME NEW d \in Points(measured.dsts), NEW ell \in Points(measured.lens)
      PROVE  100 * Max({TimeOf(t, d, ell), TimeOf(measured, d, ell)}) <=
               121 * Min({TimeOf(t, d, ell), TimeOf(measured, d, ell)})
  <2>1. IsClasses(measured.dsts) /\ IsClasses(measured.lens)
    BY <1>1 DEF MeasuresAre, TimesTable
  <2>2. d \in 1 .. Last(measured.dsts) /\ ell \in 1 .. Last(measured.lens)
    BY <2>1, PointsReach
  <2>3. NearTo(t, measured, d, ell)
    BY <1>3, <2>2
  <2> DEFINE x == TimeOf(t, d, ell)
             y == TimeOf(measured, d, ell)
  <2>4. x \in Nat /\ y \in Nat /\ 100 * x <= 121 * y /\ 100 * y <= 121 * x
    BY <2>3 DEF NearTo
  <2> HIDE DEF x, y
  <2>5. 100 * Max({x, y}) <= 121 * Min({x, y})
    BY <2>4, NearIsClose
  <2> QED
    BY <2>5 DEF x, y
<1>6. ReducedIsClose'
  BY <1>2, <1>5 DEF ReducedIsClose
<1>7. SetupIs' /\ WindowsAre' /\ MeasuresAre'
  BY <1>1, <1>2 DEF SetupIs, WindowsAre, MeasuresAre
<1> QED
  BY <1>2, <1>4, <1>6, <1>7 DEF IInv

LEMMA TimeLiteralsKeeps ==
  ASSUME IInv, TimeLiterals
  PROVE  IInv'
<1> DEFINE lit == literal_decode_time(encoder.literal_len, OneGig, machine.fix, machine.var)
<1>1. SetupIs /\ WindowsAre /\ TimesAre
  BY DEF IInv, TimeLiterals
<1>2. /\ pc' = "overheads" /\ literal' = lit /\ phrase_times' = phrase_times
      /\ windows' = windows /\ machine' = machine /\ encoder' = encoder
  BY DEF TimeLiterals, setup, memory
<1>3. lit.fix \in Int /\ lit.var \in Int
  <2> DEFINE ell == encoder.literal_len
             fix == machine.fix
             var == machine.var
  <2>1. /\ ell \in Nat \ {0} /\ OneGig \in Nat /\ ell <= OneGig /\ fix \in Int /\ var \in Int
    <3>1. SetupFacts(encoder, machine)
      BY <1>1, SetupHas
    <3>2. ell \in Nat \ {0} /\ ell <= OneGig /\ fix \in Nat /\ var \in Nat
      BY <3>1 DEF SetupFacts
    <3> HIDE DEF ell, fix, var
    <3> QED
      BY <3>2, NumbersAssumption
  <2> HIDE DEF ell, fix, var
  <2>2. /\ literal_decode_time(ell, OneGig, fix, var).fix \in Int
        /\ literal_decode_time(ell, OneGig, fix, var).var \in Int
    BY <2>1, LiteralsAreInts
  <2> QED
    BY <2>2 DEF ell, fix, var
<1> HIDE DEF lit
<1>4. LiteralIs'
  BY <1>2, <1>3 DEF LiteralIs
<1>5. SetupIs' /\ WindowsAre' /\ TimesAre'
  BY <1>1, <1>2 DEF SetupIs, WindowsAre, TimesAre
<1>6. ReducedIsClose'
  BY <1>2 DEF ReducedIsClose
<1> QED
  BY <1>2, <1>4, <1>5, <1>6 DEF IInv

LEMMA PerPhraseIsInt ==
  ASSUME NEW spent \in Int, NEW expected \in Int, NEW n \in Nat \ {0}
  PROVE  PerPhrase(spent, expected, n) \in Int
<1> DEFINE above == spent - expected
<1>1. above \in Int
  OBVIOUS
<1> HIDE DEF above
<1>2. above \div n \in Int
  BY <1>1, QuotientIsInt
<1>3. PerPhrase(spent, expected, n) = IF spent < expected THEN 0 ELSE above \div n
  BY DEF PerPhrase, above
<1> QED
  BY <1>2, <1>3

LEMMA TimeOverheadsKeeps ==
  ASSUME IInv, TimeOverheads
  PROVE  IInv'
<1> DEFINE copies == 10
           expected == copies * literal.var
           entering == expected + copies * machine.bmp
           mixing == expected + copies * machine.penalty
           o == [bmp |-> PerPhrase(entering, expected, copies),
                 penalty |-> PerPhrase(mixing, expected, copies)]
<1>1. SetupIs /\ WindowsAre /\ TimesAre /\ LiteralIs
  BY DEF IInv, TimeOverheads
<1>2. /\ pc' = "build" /\ overheads' = o /\ literal' = literal /\ phrase_times' = phrase_times
      /\ windows' = windows /\ machine' = machine /\ encoder' = encoder
  BY DEF TimeOverheads, setup, memory, phrases
<1>3. o.bmp \in Int /\ o.penalty \in Int
  <2>1. copies \in Nat \ {0} /\ expected \in Int /\ entering \in Int /\ mixing \in Int
    <3>1. SetupFacts(encoder, machine)
      BY <1>1, SetupHas
    <3>2. machine.bmp \in Nat /\ machine.penalty \in Nat /\ literal.var \in Int
      BY <1>1, <3>1 DEF SetupFacts, LiteralIs
    <3> QED
      BY <3>2
  <2> HIDE DEF copies, expected, entering, mixing
  <2>2. PerPhrase(entering, expected, copies) \in Int
    BY <2>1, PerPhraseIsInt
  <2>3. PerPhrase(mixing, expected, copies) \in Int
    BY <2>1, PerPhraseIsInt
  <2> QED
    BY <2>2, <2>3
<1> HIDE DEF o
<1>4. OverheadsAre'
  BY <1>2, <1>3 DEF OverheadsAre
<1>5. SetupIs' /\ WindowsAre' /\ TimesAre' /\ LiteralIs'
  BY <1>1, <1>2 DEF SetupIs, WindowsAre, TimesAre, LiteralIs
<1>6. ReducedIsClose'
  BY <1>2 DEF ReducedIsClose
<1> QED
  BY <1>2, <1>4, <1>5, <1>6 DEF IInv

LEMMA BuildsFrom ==
  ASSUME IInv, BuildModel
  PROVE  ModelInput(windows, phrase_times, literal, overheads.bmp, overheads.penalty)
<1> DEFINE bmp == overheads.bmp
           penalty == overheads.penalty
<1>1. SetupIs /\ WindowsAre /\ TimesAre /\ LiteralIs /\ OverheadsAre
  BY DEF IInv, BuildModel
<1>2. /\ bmp \in Int /\ penalty \in Int /\ literal.fix \in Int /\ literal.var \in Int
      /\ TimesTable(phrase_times)
  BY <1>1 DEF LiteralIs, OverheadsAre, TimesAre
<1>3. Reaches(InBytes(windows), Last(phrase_times.dsts))
  BY <1>1 DEF WindowsAre, TimesAre
<1>4. Len(windows) \in Nat /\ DOMAIN windows = 1 .. Len(windows)
  <2> DEFINE L == [dist : Nat, latency : Nat]
  <2>1. windows \in Seq(L)
    BY <1>1 DEF WindowsAre
  <2> HIDE DEF L
  <2> QED
    BY <2>1, LenProperties
<1>5. SetupFacts(encoder, machine)
  BY <1>1, SetupHas
<1>6. Last(LineEnds) <= Last(phrase_times.lens)
  BY <1>1, <1>5 DEF TimesAre, SetupFacts
<1> HIDE DEF bmp, penalty
<1>7. ModelInput(windows, phrase_times, literal, bmp, penalty)
  BY <1>2, <1>3, <1>4, <1>6 DEF ModelInput
<1> QED
  BY <1>7 DEF bmp, penalty

LEMMA BuildModelKeeps ==
  ASSUME IInv, BuildModel
  PROVE  IInv'
<1> DEFINE bmp == overheads.bmp
           penalty == overheads.penalty
           m == get_cm(windows, literal.var, phrase_times, literal, bmp, penalty, 12)
<1>1. SetupIs /\ TimesAre
  BY DEF IInv, BuildModel
<1>2. /\ pc' = "print" /\ time_cm' = m /\ machine' = machine /\ encoder' = encoder
  BY DEF BuildModel, setup
<1>3. ModelOutput(m, phrase_times)
  <2>1. ModelInput(windows, phrase_times, literal, bmp, penalty)
    BY BuildsFrom
  <2> HIDE DEF bmp, penalty
  <2> QED
    BY <2>1, ModelIs
<1> HIDE DEF m
<1>4. TimeModelIs'
  BY <1>1, <1>2, <1>3 DEF ModelOutput, TimeModelIs, TimesAre, SameReach
<1>5. SetupIs'
  BY <1>1, <1>2 DEF SetupIs
<1>6. ReducedIsClose'
  BY <1>2 DEF ReducedIsClose
<1> QED
  BY <1>2, <1>4, <1>5, <1>6 DEF IInv

LEMMA PrintModelKeeps ==
  ASSUME IInv, PrintModel
  PROVE  IInv'
<1>1. SetupIs /\ TimeModelIs
  BY DEF IInv, PrintModel
<1>2. pc' = "read" /\ time_cm' = time_cm /\ machine' = machine /\ encoder' = encoder
  BY DEF PrintModel, setup
<1>3. PICK other \in Others :
        target' = other.before \o Section(encoder.name, wm_serialize(time_cm)) \o other.after
  BY DEF PrintModel
<1>4. TargetIs'
  BY <1>2, <1>3 DEF TargetIs
<1>5. SetupIs' /\ TimeModelIs'
  BY <1>1, <1>2 DEF SetupIs, TimeModelIs
<1>6. ReducedIsClose'
  BY <1>2 DEF ReducedIsClose
<1> QED
  BY <1>2, <1>4, <1>5, <1>6 DEF IInv

LEMMA ReadModelKeeps ==
  ASSUME IInv, ReadModel
  PROVE  IInv'
<1> DEFINE name == encoder.name
<1>1. SetupIs /\ TimeModelIs /\ TargetIs
  BY DEF IInv, ReadModel
<1>2. /\ pc' = "fuse" /\ weight' = get_wm(target, name)
      /\ time_cm' = time_cm /\ machine' = machine /\ encoder' = encoder
  BY DEF ReadModel, setup
<1>3. PICK other \in Others :
        target = other.before \o Section(name, wm_serialize(time_cm)) \o other.after
  BY <1>1 DEF TargetIs
<1> DEFINE before == other.before
           after == other.after
<1>4. Apart(before, after, name)
  <2>1. PICK s \in Setups : encoder = s.encoder
    BY <1>1 DEF SetupIs
  <2>2. SetupFacts(encoder, machine)
    BY <1>1, SetupHas
  <2>3. name # ""
    BY <2>2 DEF SetupFacts
  <2>4. /\ before \in Seq(Line) /\ after \in Seq(Line)
        /\ after # <<>> => IsTitle(Head(after))
        /\ \A k \in DOMAIN before : before[k].title # name
    BY <2>1, OthersAssumption
  <2> QED
    BY <2>3, <2>4 DEF Apart
<1>5. IsModel(time_cm) /\ AsModel(time_cm) = time_cm
  BY <1>1 DEF TimeModelIs
<1>6. target = before \o Section(name, wm_serialize(time_cm)) \o after
  BY <1>3
<1> HIDE DEF before, after, name
<1>7. get_wm(before \o Section(name, wm_serialize(time_cm)) \o after, name) = AsModel(time_cm)
  BY <1>4, <1>5, TargetGivesBack
<1>8. weight' = time_cm'
  BY <1>2, <1>5, <1>6, <1>7
<1>9. SetupIs' /\ TimeModelIs'
  BY <1>1, <1>2 DEF SetupIs, TimeModelIs
<1>10. ReducedIsClose'
  BY <1>2 DEF ReducedIsClose
<1> QED
  BY <1>2, <1>8, <1>9, <1>10 DEF IInv

LEMMA FuseModelsKeeps ==
  ASSUME IInv, FuseModels
  PROVE  IInv'
<1>1. SetupIs /\ TimeModelIs /\ weight = time_cm
  BY DEF IInv, FuseModels
<1>2. /\ pc' = "done" /\ weight' = weight
      /\ time_cm' = time_cm /\ machine' = machine /\ encoder' = encoder
  BY DEF FuseModels, setup
<1>3. \/ /\ bound' = "TIME"
         /\ factory' = SessionFactory(encoder.cm, weight)
      \/ /\ bound' = "SPACE"
         /\ factory' = SessionFactory(weight, encoder.cm)
  BY DEF FuseModels, SessionFactory
<1>4. SessionIs'
  <2>1. CASE bound' = "TIME" /\ factory' = SessionFactory(encoder.cm, weight)
    BY <1>2, <2>1 DEF SessionIs, Cost, Weight
  <2>2. CASE bound' = "SPACE" /\ factory' = SessionFactory(weight, encoder.cm)
    BY <1>2, <2>2 DEF SessionIs, Cost, Weight
  <2> QED
    BY <1>3, <2>1, <2>2
<1>5. SetupIs' /\ TimeModelIs' /\ weight' = time_cm'
  BY <1>1, <1>2 DEF SetupIs, TimeModelIs
<1>6. ReducedIsClose'
  BY <1>2 DEF ReducedIsClose
<1> QED
  BY <1>2, <1>4, <1>5, <1>6 DEF IInv

LEMMA StartsCalibrated ==
  ASSUME Init
  PROVE  IInv
<1>1. PICK s \in Setups : machine = s.machine /\ encoder = s.encoder
  BY DEF Init
<1>2. SetupIs
  BY <1>1 DEF SetupIs
<1>3. pc = "probe"
  BY DEF Init
<1> QED
  BY <1>2, <1>3 DEF IInv, ReducedIsClose

LEMMA StaysCalibrated ==
  ASSUME IInv, [Next]_vars
  PROVE  IInv'
<1>1. CASE MeasureMemory
  BY <1>1, MeasureMemoryKeeps
<1>2. CASE TimePhrases
  BY <1>2, TimePhrasesKeeps
<1>3. CASE ReduceTimes
  BY <1>3, ReduceTimesKeeps
<1>4. CASE TimeLiterals
  BY <1>4, TimeLiteralsKeeps
<1>5. CASE TimeOverheads
  BY <1>5, TimeOverheadsKeeps
<1>6. CASE BuildModel
  BY <1>6, BuildModelKeeps
<1>7. CASE PrintModel
  BY <1>7, PrintModelKeeps
<1>8. CASE ReadModel
  BY <1>8, ReadModelKeeps
<1>9. CASE FuseModels
  BY <1>9, FuseModelsKeeps
<1>10. CASE vars' = vars
  <2>1. /\ pc' = pc /\ machine' = machine /\ encoder' = encoder /\ windows' = windows
        /\ measured' = measured /\ phrase_times' = phrase_times /\ literal' = literal
        /\ overheads' = overheads /\ time_cm' = time_cm /\ target' = target
        /\ weight' = weight /\ bound' = bound /\ factory' = factory
    BY <1>10 DEF vars, setup, memory, phrases, literals, session
  <2>2. /\ SetupIs => SetupIs'
        /\ WindowsAre => WindowsAre'
        /\ MeasuresAre => MeasuresAre'
        /\ TimesAre => TimesAre'
    BY <2>1 DEF SetupIs, WindowsAre, MeasuresAre, TimesAre
  <2>3. /\ LiteralIs => LiteralIs'
        /\ OverheadsAre => OverheadsAre'
        /\ TimeModelIs => TimeModelIs'
        /\ TargetIs => TargetIs'
    BY <2>1 DEF LiteralIs, OverheadsAre, TimeModelIs, TargetIs
  <2>4. SessionIs => SessionIs'
    BY <2>1 DEF SessionIs, Cost, Weight
  <2>5. ReducedIsClose => ReducedIsClose'
    BY <2>1 DEF ReducedIsClose
  <2> QED
    BY <2>1, <2>2, <2>3, <2>4, <2>5 DEF IInv
<1> QED
  BY <1>1, <1>2, <1>3, <1>4, <1>5, <1>6, <1>7, <1>8, <1>9, <1>10 DEF Next, Terminated

(* Each stage leaves the next what it needs: windows that grow past the    *)
(* encoder's distances, times of its phrases, a model of whole numbers on  *)
(* its classes.  All the theorems below need it.                           *)
THEOREM CalibrationInductive == Spec => []IInv
<1>1. Init => IInv
  BY StartsCalibrated
<1>2. IInv /\ [Next]_vars => IInv'
  BY StaysCalibrated
<1> QED
  BY <1>1, <1>2, PTL DEF Spec

(* For every matrix of times, the two passes of reduce_tm leave each       *)
(* distance and length a time within two tenths of the measured one.       *)
THEOREM ReducedTimesAreClose == Spec => []ReducedIsClose
<1>1. IInv => ReducedIsClose
  BY DEF IInv
<1> QED
  BY <1>1, CalibrationInductive, PTL

(* For every encoder, and whatever sections surround its own, get_wm reads *)
(* the model that calibrator printed.                                      *)
THEOREM TargetsReadBack == Spec => []ReadsBackTheModel
<1>1. IInv => ReadsBackTheModel
  BY DEF IInv, ReadsBackTheModel
<1> QED
  BY <1>1, CalibrationInductive, PTL

LEMMA PricedAsBoth ==
  ASSUME IInv
  PROVE  FusedPrices
<1>1. SUFFICES ASSUME pc = "done", NEW lambda \in Lambdas
      PROVE  LET mixed == Mixture(factory, lambda)  map == CostMap(mixed) IN
             /\ \A d \in Points(mixed.dst), ell \in Points(mixed.len) :
                  LET cost == GetCost(Cost, d, ell)  weighs == GetCost(Weight, d, ell) IN
                  /\ InClasses(encoder.cm, d, ell) /\ InClasses(weight, d, ell)
                  /\ GetCost(factory.cost, d, ell) = cost
                  /\ GetCost(factory.weight, d, ell) = weighs
                  /\ map[GetIdOf(mixed, d, ell)] = cost + lambda * weighs
             /\ \A ell \in RunLengths :
                  LitCost(mixed, ell) = LitCost(Cost, ell) + lambda * LitCost(Weight, ell)
  BY DEF FusedPrices
<1>2. SetupIs /\ TimeModelIs /\ weight = time_cm /\ SessionIs
  BY <1>1 DEF IInv
<1>3. IsModel(encoder.cm) /\ IsModel(weight) /\ SameReach(weight, encoder.cm)
  BY <1>2, SetupHas DEF SetupFacts, TimeModelIs
<1> DEFINE c == Cost
           w == Weight
           f == factory
<1>4. IsModel(c) /\ IsModel(w) /\ SameReach(c, w)
  BY <1>3 DEF Cost, Weight, SameReach
<1>5. f = SessionFactory(c, w)
  BY <1>2 DEF SessionIs
<1>6. \A d, ell : InClasses(c, d, ell) /\ InClasses(w, d, ell) =>
        InClasses(encoder.cm, d, ell) /\ InClasses(weight, d, ell)
  BY DEF Cost, Weight
<1>7. lambda \in Nat
  BY NumbersAssumption
<1> HIDE DEF c, w, f
<1>8. SameCosts(f.cost, c) /\ SameCosts(f.weight, w)
  BY <1>4, <1>5, FactoryIs
<1> DEFINE m == Mixture(f, lambda)
<1>9. /\ \A d \in Points(m.dst), ell \in Points(m.len) : MixesCopies(f, c, w, lambda, m, d, ell)
      /\ \A n \in RunLengths : LitCost(m, n) = LitCost(c, n) + lambda * LitCost(w, n)
  BY <1>4, <1>7, <1>8, MixtureIs
<1> HIDE DEF m
<1>10. ASSUME NEW d \in Points(m.dst), NEW ell \in Points(m.len)
       PROVE  /\ InClasses(encoder.cm, d, ell) /\ InClasses(weight, d, ell)
              /\ GetCost(f.cost, d, ell) = GetCost(c, d, ell)
              /\ GetCost(f.weight, d, ell) = GetCost(w, d, ell)
              /\ CostMap(m)[GetIdOf(m, d, ell)] = GetCost(c, d, ell) + lambda * GetCost(w, d, ell)
  BY <1>6, <1>9 DEF MixesCopies
<1> QED
  BY <1>9, <1>10 DEF c, w, f, m

(* For every pair of models that reach as far and every multiplier, fusing *)
(* neither asks one past its last class nor changes a price: a mixture     *)
(* costs what its parts do, for the copies of every class and for literals.*)
THEOREM FusedPricesHold == Spec => []FusedPrices
<1>1. IInv => FusedPrices
  BY PricedAsBoth
<1> QED
  BY <1>1, CalibrationInductive, PTL

(* The model is priced as it is built, and nothing changes before it is    *)
(* printed.                                                                *)
LEMMA CopiesStayPriced ==
  ASSUME IInv, CopiesAddUp, [Next]_vars
  PROVE  CopiesAddUp'
<1>1. CASE BuildModel
  <2> DEFINE bmp == overheads.bmp
             penalty == overheads.penalty
             m == get_cm(windows, literal.var, phrase_times, literal, bmp, penalty, 12)
  <2>1. /\ time_cm' = m /\ windows' = windows /\ phrase_times' = phrase_times
        /\ overheads' = overheads
    BY <1>1 DEF BuildModel, memory, phrases, literals
  <2>2. ModelInput(windows, phrase_times, literal, bmp, penalty)
    BY <1>1, BuildsFrom
  <2> HIDE DEF penalty
  <2>3. ASSUME NEW d \in Points(time_cm'.dst), NEW ell \in Points(time_cm'.len)
        PROVE  GetCost(time_cm', d, ell) = TakesIn(windows, phrase_times, bmp, time_cm', d, ell)
    <3> HIDE DEF bmp
    <3> QED
      BY <2>1, <2>2, <2>3, CopyPriced
  <2> HIDE DEF m
  <2>4. \A d, ell : CopyTime(d, ell)' = TakesIn(windows, phrase_times, bmp, time_cm', d, ell)
    BY <2>1 DEF CopyTime, TakesIn
  <2> QED
    BY <2>1, <2>3, <2>4 DEF CopiesAddUp
<1>2. CASE vars' = vars
  <2>1. /\ pc' = pc /\ windows' = windows /\ phrase_times' = phrase_times
        /\ overheads' = overheads /\ time_cm' = time_cm
    BY <1>2 DEF vars, memory, phrases, literals
  <2> QED
    BY <2>1 DEF CopiesAddUp, CopyTime
<1>3. CASE pc' # "print"
  BY <1>3 DEF CopiesAddUp
<1>4. BuildModel \/ vars' = vars \/ pc' # "print"
  BY DEF Next, MeasureMemory, TimePhrases, ReduceTimes, TimeLiterals, TimeOverheads,
         PrintModel, ReadModel, FuseModels, Terminated
<1> QED
  BY <1>1, <1>2, <1>3, <1>4

(* What the stages before the last find of literals and overheads.         *)
LiteralExact ==
  LET ell == encoder.literal_len IN
  /\ literal.fix \in Nat /\ literal.var \in Nat
  /\ literal.fix + ell * literal.var = machine.fix + ell * machine.var
OverheadsExact == overheads.bmp = machine.bmp /\ overheads.penalty = machine.penalty
RunsInv ==
  /\ pc \in {"overheads", "build"} /\ Divides(encoder.literal_len) => LiteralExact
  /\ pc = "build" => OverheadsExact
  /\ RunsAddUp

LEMMA TimeLiteralsIsExact ==
  ASSUME IInv, TimeLiterals, Divides(encoder.literal_len)
  PROVE  LiteralExact'
<1> DEFINE ell == encoder.literal_len
           fix == machine.fix
           var == machine.var
<1>1. SetupIs
  BY DEF IInv
<1>2. literal' = literal_decode_time(ell, OneGig, fix, var) /\ machine' = machine /\ encoder' = encoder
  BY DEF TimeLiterals, setup
<1>3. ell \in Nat \ {0} /\ ell <= OneGig /\ fix \in Nat /\ var \in Nat /\ Divides(ell)
  BY <1>1, SetupHas DEF SetupFacts
<1> HIDE DEF ell, fix, var
<1>4. /\ literal'.fix \in Nat /\ literal'.var \in Nat
      /\ literal'.fix + ell * literal'.var = fix + ell * var
  BY <1>2, <1>3, LiteralsExact
<1> QED
  BY <1>2, <1>4 DEF LiteralExact, ell, fix, var

LEMMA PerPhraseIs ==
  ASSUME NEW expected \in Int, NEW x \in Nat, NEW spent, spent = expected + 10 * x
  PROVE  PerPhrase(spent, expected, 10) = x
<1> DEFINE above == spent - expected
<1>1. ~ (spent < expected) /\ above = x * 10
  OBVIOUS
<1> HIDE DEF above
<1>2. (x * 10) \div 10 = x
  BY Cancels
<1>3. PerPhrase(spent, expected, 10) = above \div 10
  BY <1>1 DEF PerPhrase, above
<1> QED
  BY <1>1, <1>2, <1>3

LEMMA TimeOverheadsIsExact ==
  ASSUME IInv, TimeOverheads
  PROVE  OverheadsExact'
<1> DEFINE copies == 10
           expected == copies * literal.var
           entering == expected + copies * machine.bmp
           mixing == expected + copies * machine.penalty
<1>1. SetupIs /\ LiteralIs
  BY DEF IInv, TimeOverheads
<1>2. /\ overheads' = [bmp |-> PerPhrase(entering, expected, copies),
                       penalty |-> PerPhrase(mixing, expected, copies)]
      /\ machine' = machine
  BY DEF TimeOverheads, setup
<1>3. machine.bmp \in Nat /\ machine.penalty \in Nat /\ expected \in Int
  <2>1. machine.bmp \in Nat /\ machine.penalty \in Nat
    BY <1>1, SetupHas DEF SetupFacts
  <2> DEFINE w == literal.var
  <2>2. w \in Int
    BY <1>1 DEF LiteralIs
  <2> HIDE DEF w
  <2>3. copies * w \in Int
    BY <2>2
  <2> QED
    BY <2>1, <2>3 DEF w
<1> HIDE DEF expected
<1>4. PerPhrase(entering, expected, 10) = machine.bmp
  BY <1>3, PerPhraseIs
<1>5. PerPhrase(mixing, expected, 10) = machine.penalty
  BY <1>3, PerPhraseIs
<1> HIDE DEF entering, mixing
<1> QED
  BY <1>2, <1>4, <1>5 DEF OverheadsExact

ChargesLiterals(m, lit, bmp, penalty) ==
  /\ m.lit_fixed = 64 * (lit.fix + penalty + bmp)
  /\ m.lit_var = 64 * (lit.var - lit.var) /\ m.per_char = 64 * lit.var
LEMMA LiteralsOfModel ==
  ASSUME NEW found, NEW u, NEW lit, NEW bmp, NEW penalty
  PROVE  ChargesLiterals(get_cm(found, lit.var, u, lit, bmp, penalty, 12), lit, bmp, penalty)
BY DEF get_cm, CostModel, ChargesLiterals

LEMMA BuildModelPricesRuns ==
  ASSUME IInv, RunsInv, BuildModel
  PROVE  RunsAddUp'
<1> DEFINE ell == encoder.literal_len
<1>1. SetupIs
  BY DEF IInv
<1>2. /\ pc = "build" /\ machine' = machine /\ encoder' = encoder
      /\ time_cm' = get_cm(windows, literal.var, phrase_times, literal,
                           overheads.bmp, overheads.penalty, 12)
  BY DEF BuildModel, setup
<1>3. SUFFICES ASSUME Divides(ell)
      PROVE  LitCost(time_cm', ell) + ell * time_cm'.per_char
               = 64 * (machine.fix + ell * machine.var + machine.bmp + machine.penalty)
  BY <1>2 DEF RunsAddUp
<1>4. /\ literal.fix \in Nat /\ literal.var \in Nat
      /\ literal.fix + ell * literal.var = machine.fix + ell * machine.var
      /\ overheads.bmp = machine.bmp /\ overheads.penalty = machine.penalty
  BY <1>2, <1>3 DEF RunsInv, LiteralExact, OverheadsExact
<1>5. /\ ell \in Nat /\ machine.fix \in Nat /\ machine.var \in Nat
      /\ machine.bmp \in Nat /\ machine.penalty \in Nat
  BY <1>1, SetupHas DEF SetupFacts
<1>6. /\ time_cm'.lit_fixed = 64 * (literal.fix + overheads.penalty + overheads.bmp)
      /\ time_cm'.lit_var = 64 * (literal.var - literal.var)
      /\ time_cm'.per_char = 64 * literal.var
  <2> DEFINE lit == literal
             m == get_cm(windows, lit.var, phrase_times, lit, overheads.bmp, overheads.penalty, 12)
  <2>1. ChargesLiterals(m, lit, overheads.bmp, overheads.penalty)
    <3> HIDE DEF lit
    <3> QED
      BY LiteralsOfModel
  <2> HIDE DEF m
  <2>2. time_cm' = m
    BY <1>2 DEF m
  <2> QED
    BY <2>1, <2>2 DEF ChargesLiterals
<1> DEFINE x == ell * literal.var
           y == ell * machine.var
<1>7. /\ LitCost(time_cm', ell) = 64 * (literal.fix + machine.penalty + machine.bmp)
      /\ ell * time_cm'.per_char = 64 * x
  <2> DEFINE f == literal.fix
             w == literal.var
  <2> HIDE DEF ell, f, w
  <2>1. ell * (64 * (w - w)) = 0 /\ ell * (64 * w) = 64 * (ell * w)
    BY <1>4, <1>5 DEF w
  <2>2. time_cm'.lit_var = 64 * (w - w) /\ time_cm'.per_char = 64 * w
    BY <1>6 DEF w
  <2>3. LitCost(time_cm', ell) = time_cm'.lit_fixed + 0
    BY <2>1, <2>2 DEF LitCost
  <2>4. time_cm'.lit_fixed = 64 * (f + machine.penalty + machine.bmp) /\ time_cm'.lit_fixed \in Nat
    BY <1>4, <1>5, <1>6 DEF f
  <2> QED
    BY <2>1, <2>2, <2>3, <2>4 DEF f, w
<1>8. x \in Nat /\ y \in Nat /\ literal.fix + x = machine.fix + y
  BY <1>4, <1>5
<1> HIDE DEF x
<1> HIDE DEF y, ell
<1>9. LitCost(time_cm', ell) + ell * time_cm'.per_char
        = 64 * (machine.fix + y + machine.bmp + machine.penalty)
  BY <1>4, <1>5, <1>7, <1>8
<1> QED
  BY <1>9 DEF y

LEMMA RunsStayPriced ==
  ASSUME IInv, RunsInv, [Next]_vars
  PROVE  RunsInv'
<1>1. CASE TimeLiterals
  <2>1. pc' = "overheads" /\ encoder' = encoder
    BY <1>1 DEF TimeLiterals, setup
  <2>2. Divides(encoder.literal_len)' <=> Divides(encoder.literal_len)
    BY <2>1 DEF Divides
  <2> QED
    BY <1>1, <2>1, <2>2, TimeLiteralsIsExact DEF RunsInv, RunsAddUp
<1>2. CASE TimeOverheads
  <2>1. /\ pc = "overheads" /\ pc' = "build" /\ encoder' = encoder /\ machine' = machine
        /\ literal' = literal
    BY <1>2 DEF TimeOverheads, setup
  <2>2. Divides(encoder.literal_len)' <=> Divides(encoder.literal_len)
    BY <2>1 DEF Divides
  <2>3. LiteralExact' <=> LiteralExact
    BY <2>1 DEF LiteralExact
  <2> QED
    BY <1>2, <2>1, <2>2, <2>3, TimeOverheadsIsExact DEF RunsInv, RunsAddUp
<1>3. CASE BuildModel
  <2>1. pc' = "print"
    BY <1>3 DEF BuildModel
  <2> QED
    BY <1>3, <2>1, BuildModelPricesRuns DEF RunsInv
<1>4. CASE vars' = vars
  <2>1. /\ pc' = pc /\ encoder' = encoder /\ machine' = machine /\ literal' = literal
        /\ overheads' = overheads /\ time_cm' = time_cm
    BY <1>4 DEF vars, setup, literals
  <2>2. /\ Divides(encoder.literal_len)' <=> Divides(encoder.literal_len)
        /\ LiteralExact' <=> LiteralExact
        /\ OverheadsExact' <=> OverheadsExact
    BY <2>1 DEF Divides, LiteralExact, OverheadsExact
  <2>3. RunsAddUp' <=> RunsAddUp
    BY <2>1, <2>2 DEF RunsAddUp
  <2> QED
    BY <2>1, <2>2, <2>3 DEF RunsInv
<1>5. CASE pc' \notin {"overheads", "build", "print"}
  BY <1>5 DEF RunsInv, RunsAddUp
<1>6. \/ TimeLiterals \/ TimeOverheads \/ BuildModel
      \/ vars' = vars \/ pc' \notin {"overheads", "build", "print"}
  BY DEF Next, MeasureMemory, TimePhrases, ReduceTimes, PrintModel, ReadModel, FuseModels, Terminated
<1> QED
  BY <1>1, <1>2, <1>3, <1>4, <1>5, <1>6

(* For every machine and encoder, the model charges a copy what entering   *)
(* it, missing the one cache that holds its distance, and decoding it take,*)
(* in every class that ends no class of phrases: fusing the classes of     *)
(* phrases, windows and lines changes no price.  And it charges the longest*)
(* run, where runs divide the text, what it takes.  RunsInv keeps the      *)
(* estimates exact while later stages read them.                           *)
THEOREM TimesAlwaysAddUp == Spec => []TimesAddUp
<1>1. Init => CopiesAddUp /\ RunsInv
  BY DEF Init, CopiesAddUp, RunsInv, RunsAddUp
<1>2. IInv /\ CopiesAddUp /\ RunsInv /\ [Next]_vars => CopiesAddUp' /\ RunsInv'
  BY CopiesStayPriced, RunsStayPriced
<1>3. CopiesAddUp /\ RunsInv => TimesAddUp
  BY DEF RunsInv, TimesAddUp
<1> QED
  BY <1>1, <1>2, <1>3, CalibrationInductive, PTL DEF Spec

===============================================================================
