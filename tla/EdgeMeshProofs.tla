---------------------------- MODULE EdgeMeshProofs ----------------------------
(***************************************************************************)
(* What the edges of EdgeMesh are, for all classes and every text: the     *)
(* mesh, after any number of levels, holds copies that none of those seen  *)
(* improves on.  With it what generators rest on, the windows of classes   *)
(* and the order of suffixes, and induction and recursion, for all proofs. *)
(***************************************************************************)
EXTENDS EdgeMesh, Suffixes, FiniteSets, TLAPS, WellFoundedInduction, FiniteSetTheorems, SequenceTheorems
-------------------------------------------------------------------------------
(* Induction and recursion on the naturals, stated of sets and functions   *)
(* so that the provers can use them: the library's theorems take operators.*)

(* A set of naturals that is not empty has a least element. *)
LEMMA SmallestOf ==
  ASSUME NEW T, T \subseteq Nat, T # {}
  PROVE  \E m \in T : \A n \in T : m <= n
<1>1. IsWellFoundedOn(OpToRel(<, Nat), Nat)
  BY NatLessThanWellFounded, Zenon
<1>2. PICK m \in T : \A n \in T : ~ (<<n, m>> \in OpToRel(<, Nat))
  BY <1>1, WFMin, Zenon
<1>3. \A n \in T : ~ (n < m)
  BY <1>2 DEF OpToRel
<1> QED
  BY <1>3

(* And, when bounded, a greatest one. *)
LEMMA LargestOf ==
  ASSUME NEW T, T \subseteq Nat, T # {}, NEW b \in Nat, \A n \in T : n <= b
  PROVE  \E m \in T : \A n \in T : n <= m
<1> DEFINE U == {u \in Nat : b - u \in T}
<1>1. U # {}
  <2>1. PICK n \in T : n <= b
    OBVIOUS
  <2>2. b - n \in U
    BY <2>1
  <2> QED
    BY <2>2
<1>2. PICK m \in U : \A u \in U : m <= u
  BY <1>1, SmallestOf
<1>3. ASSUME NEW n \in T PROVE n <= b - m
  <2>1. b - n \in U
    OBVIOUS
  <2> QED
    BY <1>2, <2>1
<1> QED
  BY <1>2, <1>3

(* The size of a run of naturals that starts after a. *)
LEMMA SizeOfRun ==
  ASSUME NEW a \in Nat, NEW N \in Nat, NEW S, S \subseteq (a + 1) .. N,
         \A k \in S : \A n \in (a + 1) .. k : n \in S
  PROVE  Cardinality(S) \in Nat /\ S = (a + 1) .. (a + Cardinality(S))
<1>1. CASE S = {}
  BY <1>1, FS_EmptySet
<1>2. CASE S # {}
  <2>0. S \subseteq Nat /\ \A n \in S : n <= N
    OBVIOUS
  <2>1. PICK m \in S : \A n \in S : n <= m
    BY <1>2, <2>0, LargestOf
  <2>a. m \in (a + 1) .. N /\ m \in Nat /\ a + 1 <= m
    BY <2>1
  <2>b. \A n \in (a + 1) .. m : n \in S
    BY <2>1
  <2>c. \A n \in S : n \in (a + 1) .. N /\ n <= m
    BY <2>1
  <2>d. \A n \in S : n \in (a + 1) .. m
    BY <2>c, <2>a
  <2>2. S = (a + 1) .. m /\ m \in Nat /\ a + 1 <= m
    BY <2>a, <2>b, <2>d
  <2>3. Cardinality((a + 1) .. m) = m - a
    BY <2>2, FS_Interval
  <2> QED
    BY <2>2, <2>3
<1> QED
  BY <1>1, <1>2

(* A set that contains 0 and the successors of its naturals has them all.  *)
LEMMA InductionOn ==
  ASSUME NEW T, 0 \in T, \A n \in Nat : n \in T => (n + 1) \in T
  PROVE  Nat \subseteq T
<1> DEFINE U == {n \in Nat : n \notin T}
<1> SUFFICES ASSUME U # {} PROVE FALSE
  OBVIOUS
<1>1. PICK m \in U : \A n \in U : m <= n
  BY SmallestOf
<1>2. m - 1 \in Nat /\ m - 1 \in T
  BY <1>1
<1> QED
  BY <1>2

(* A function can be defined from its value at 0 and from the value it has *)
(* at each natural to the next.                                            *)
Iterates(f, S, s0, step) ==
  f \in [Nat -> S] /\ f[0] = s0 /\ \A n \in Nat : f[n + 1] = step[f[n]]
LEMMA RecursionOn ==
  ASSUME NEW S, NEW s0 \in S, NEW step \in [S -> S]
  PROVE  \E f : Iterates(f, S, s0, step)
<1> DEFINE Upto(n, f) == /\ f \in [0 .. n -> S] /\ f[0] = s0
                         /\ \A m \in 0 .. (n - 1) : f[m + 1] = step[f[m]]
           Defined == {n \in Nat : \E f : Upto(n, f)}
           g == [n \in Nat |-> CHOOSE f : Upto(n, f)]
           h == [n \in Nat |-> g[n][n]]
<1>1. Nat \subseteq Defined
  <2>1. Upto(0, [m \in 0 .. 0 |-> s0])
    OBVIOUS
  <2>2. ASSUME NEW n \in Nat, NEW f, Upto(n, f)
        PROVE  Upto(n + 1, [m \in 0 .. (n + 1) |-> IF m = n + 1 THEN step[f[n]] ELSE f[m]])
    BY <2>2
  <2>3. 0 \in Defined
    BY <2>1
  <2>4. ASSUME NEW n \in Nat, n \in Defined PROVE (n + 1) \in Defined
    <3>1. PICK f : Upto(n, f)
      BY <2>4
    <3>2. \E e : Upto(n + 1, e)
      <4> HIDE DEF Upto
      <4> QED
        BY <3>1, <2>2
    <3> QED
      BY <3>2
  <2> HIDE DEF Defined
  <2> QED
    BY <2>3, <2>4, InductionOn
<1>2. ASSUME NEW n \in Nat PROVE Upto(n, g[n])
  BY <1>1
<1>3. ASSUME NEW a \in Nat, NEW b \in Nat, NEW e, NEW f, Upto(a, e), Upto(b, f)
      PROVE  \A m \in Nat : m <= a /\ m <= b => e[m] = f[m]
  <2> DEFINE Same == {m \in Nat : m <= a /\ m <= b => e[m] = f[m]}
  <2>1. 0 \in Same
    BY <1>3
  <2>2. ASSUME NEW m \in Nat, m \in Same PROVE (m + 1) \in Same
    <3> SUFFICES ASSUME m + 1 <= a, m + 1 <= b PROVE e[m + 1] = f[m + 1]
      OBVIOUS
    <3>1. m \in 0 .. (a - 1) /\ m \in 0 .. (b - 1) /\ e[m] = f[m]
      BY <2>2
    <3> QED
      BY <3>1, <1>3
  <2> HIDE DEF Same
  <2>3. Nat \subseteq Same
    BY <2>1, <2>2, InductionOn
  <2> QED
    BY <2>3 DEF Same
<1> HIDE DEF g
<1>4. h \in [Nat -> S] /\ h[0] = s0
  BY <1>2
<1>5. ASSUME NEW n \in Nat PROVE h[n + 1] = step[h[n]]
  <2>1. Upto(n, g[n]) /\ Upto(n + 1, g[n + 1])
    BY <1>2
  <2>2. g[n + 1][n] = g[n][n]
    <3> HIDE DEF Upto
    <3> QED
      BY <2>1, <1>3
  <2>3. g[n + 1][n + 1] = step[g[n + 1][n]]
    <3>1. n \in 0 .. ((n + 1) - 1)
      OBVIOUS
    <3> QED
      BY <2>1, <3>1
  <2> QED
    BY <2>2, <2>3
<1> HIDE DEF h
<1> QED
  BY <1>4, <1>5 DEF Iterates

(* And from all the values before.  step gives the value at n from n and a *)
(* function that agrees with the one defined below n.                      *)
CourseOf(f, N, S, step) ==
  f \in [0 .. N -> S] /\ \A n \in 0 .. N : f[n] = step[<<n, f>>]
LooksBack(N, S, step) ==
  \A n \in 0 .. N : \A f, g \in [0 .. N -> S] :
    (\A m \in 0 .. N : m < n => f[m] = g[m]) => step[<<n, f>>] = step[<<n, g>>]
UpTo(n, f, N, S, step) ==
  f \in [0 .. N -> S] /\ \A m \in 0 .. N : m < n => f[m] = step[<<m, f>>]
LEMMA CourseOn ==
  ASSUME NEW N \in Nat, NEW S, NEW s0 \in S,
         NEW step \in [(0 .. N) \X [0 .. N -> S] -> S], LooksBack(N, S, step)
  PROVE  \E f : CourseOf(f, N, S, step)
<1> DEFINE Upto(n, f) == UpTo(n, f, N, S, step)
           Defined == {n \in Nat : n <= N + 1 => \E f : Upto(n, f)}
<1>1. 0 \in Defined
  <2>1. Upto(0, [m \in 0 .. N |-> s0])
    BY DEF UpTo
  <2> QED
    BY <2>1
<1>2. ASSUME NEW n \in Nat, n \in Defined PROVE (n + 1) \in Defined
  <2>0. CASE ~ (n + 1 <= N + 1)
    BY <2>0
  <2>a. CASE n + 1 <= N + 1
    <3>1. PICK f : Upto(n, f)
      BY <1>2, <2>a
    <3> DEFINE e == [f EXCEPT ![n] = step[<<n, f>>]]
    <3>2. n \in 0 .. N /\ f \in [0 .. N -> S] /\ <<n, f>> \in (0 .. N) \X [0 .. N -> S]
      BY <2>a, <3>1 DEF UpTo
    <3>3. step[<<n, f>>] \in S
      BY <3>2
    <3>4. e \in [0 .. N -> S] /\ e[n] = step[<<n, f>>] /\ \A m \in 0 .. N : m # n => e[m] = f[m]
      BY <3>2, <3>3
    <3> HIDE DEF e
    <3>5. ASSUME NEW m \in 0 .. N, m < n + 1 PROVE e[m] = step[<<m, e>>]
      <4>1. \A k \in 0 .. N : k < m => e[k] = f[k]
        BY <3>4, <3>5
      <4>2. step[<<m, e>>] = step[<<m, f>>]
        BY <4>1, <3>2, <3>4 DEF LooksBack
      <4>3. CASE m = n
        BY <4>2, <4>3, <3>4
      <4>4. CASE m # n
        <5>1. m < n /\ e[m] = f[m]
          BY <4>4, <3>4, <3>5
        <5>2. f[m] = step[<<m, f>>]
          BY <5>1, <3>1 DEF UpTo
        <5> QED
          BY <4>2, <5>1, <5>2
      <4> QED
        BY <4>3, <4>4
    <3>6. Upto(n + 1, e)
      BY <3>4, <3>5 DEF UpTo
    <3> QED
      BY <3>6
  <2> QED
    BY <2>0, <2>a
<1> HIDE DEF Defined
<1>3. (N + 1) \in Defined
  BY <1>1, <1>2, InductionOn
<1>4. PICK f : Upto(N + 1, f)
  BY <1>3 DEF Defined
<1>5. CourseOf(f, N, S, step)
  BY <1>4 DEF CourseOf, UpTo
<1> QED
  BY <1>5

-------------------------------------------------------------------------------
(* Recursion on a rank.                                                    *)

(* step looks only at what f is where the rank is smaller.                 *)
LooksBelow(X, S, rank, step) ==
  \A x \in X : \A f, g \in [X -> S] :
    (\A y \in X : rank[y] < rank[x] => f[y] = g[y]) => step[<<x, f>>] = step[<<x, g>>]
DescentOf(f, X, S, step) == f \in [X -> S] /\ \A x \in X : f[x] = step[<<x, f>>]

LEMMA DescentOn ==
  ASSUME NEW X, NEW S, NEW s0 \in S, NEW rank \in [X -> Nat],
         NEW step \in [X \X [X -> S] -> S], LooksBelow(X, S, rank, step)
  PROVE  \E f : DescentOf(f, X, S, step)
<1> DEFINE V == [X -> S]
           v0 == [x \in X |-> s0]
           turn == [f \in V |-> [x \in X |-> step[<<x, f>>]]]
<1>1. v0 \in V /\ turn \in [V -> V]
  OBVIOUS
<1>2. PICK F : Iterates(F, V, v0, turn)
  <2> HIDE DEF V, v0, turn
  <2> QED
    BY <1>1, RecursionOn
<1>3. F \in [Nat -> V] /\ \A n \in Nat : \A x \in X : F[n + 1][x] = step[<<x, F[n]>>]
  <2>1. F \in [Nat -> V] /\ \A n \in Nat : F[n + 1] = turn[F[n]]
    <3> HIDE DEF V, turn, v0
    <3> QED
      BY <1>2 DEF Iterates
  <2>2. \A e \in V : turn[e] = [x \in X |-> step[<<x, e>>]]
    OBVIOUS
  <2> HIDE DEF V, turn
  <2>3. \A n \in Nat : F[n + 1] = [x \in X |-> step[<<x, F[n]>>]]
    BY <2>1, <2>2
  <2>4. ASSUME NEW n \in Nat, NEW x \in X PROVE F[n + 1][x] = step[<<x, F[n]>>]
    <3> DEFINE e == F[n]
               g == F[n + 1]
    <3>1. g = [y \in X |-> step[<<y, e>>]]
      BY <2>3
    <3> HIDE DEF e, g
    <3>2. g[x] = step[<<x, e>>]
      BY <3>1
    <3> QED
      BY <3>2 DEF e, g
  <2> QED
    BY <2>1, <2>4
<1> DEFINE Fixed == {n \in Nat : \A x \in X : rank[x] < n => F[n + 1][x] = F[n][x]}
<1>4. 0 \in Fixed
  OBVIOUS
<1>5. ASSUME NEW n \in Nat, n \in Fixed PROVE (n + 1) \in Fixed
  <2> SUFFICES ASSUME NEW x \in X, rank[x] < n + 1 PROVE F[(n + 1) + 1][x] = F[n + 1][x]
    OBVIOUS
  <2>1. \A y \in X : rank[y] < rank[x] => F[n + 1][y] = F[n][y]
    BY <1>5
  <2>2. F[n] \in [X -> S] /\ F[n + 1] \in [X -> S] /\ n + 1 \in Nat
    BY <1>3
  <2>3. step[<<x, F[n + 1]>>] = step[<<x, F[n]>>]
    BY <2>1, <2>2 DEF LooksBelow
  <2> QED
    BY <1>3, <2>2, <2>3
<1> HIDE DEF Fixed
<1>6. \A n \in Nat : \A x \in X : rank[x] < n => F[n + 1][x] = F[n][x]
  <2>1. Nat \subseteq Fixed
    BY <1>4, <1>5, InductionOn
  <2> QED
    BY <2>1 DEF Fixed
<1> DEFINE f == [x \in X |-> F[rank[x] + 1][x]]
           Agree == {n \in Nat : \A x \in X : rank[x] < n => F[n][x] = f[x]}
<1>7. 0 \in Agree
  OBVIOUS
<1>8. ASSUME NEW n \in Nat, n \in Agree PROVE (n + 1) \in Agree
  <2> SUFFICES ASSUME NEW x \in X, rank[x] < n + 1 PROVE F[n + 1][x] = f[x]
    OBVIOUS
  <2>1. CASE rank[x] = n
    BY <2>1
  <2>2. CASE rank[x] < n
    BY <2>2, <1>6, <1>8
  <2>3. rank[x] = n \/ rank[x] < n
    <3>1. rank[x] \in Nat
      OBVIOUS
    <3> QED
      BY <3>1
  <2> HIDE DEF f
  <2> QED
    BY <2>1, <2>2, <2>3
<1>9. f \in [X -> S]
  BY <1>3
<1> HIDE DEF Agree
<1>10. Nat \subseteq Agree
  BY <1>7, <1>8, InductionOn
<1>11. ASSUME NEW x \in X PROVE f[x] = step[<<x, f>>]
  <2>1. f[x] = step[<<x, F[rank[x]]>>] /\ F[rank[x]] \in [X -> S]
    BY <1>3
  <2>2. \A y \in X : rank[y] < rank[x] => F[rank[x]][y] = f[y]
    BY <1>10 DEF Agree
  <2> HIDE DEF f
  <2>3. step[<<x, F[rank[x]]>>] = step[<<x, f>>]
    BY <1>9, <2>1, <2>2 DEF LooksBelow
  <2> QED
    BY <2>1, <2>3
<1> HIDE DEF f
<1>12. DescentOf(f, X, S, step)
  BY <1>9, <1>11 DEF DescentOf
<1> QED
  BY <1>12

(* Steps from s0 that stay in the sets P. *)
Carries(N, P, step) == \A n \in 1 .. N : \A v \in P[n - 1] : step[<<n, v>>] \in P[n]
StepsFrom(f, N, s0, step) == f[0] = s0 /\ \A n \in 1 .. N : f[n] = step[<<n, f[n - 1]>>]
LEMMA StepsStay ==
  ASSUME NEW N \in Nat, NEW P, NEW s0 \in P[0], NEW step, Carries(N, P, step),
         NEW f, StepsFrom(f, N, s0, step)
  PROVE  \A n \in 0 .. N : f[n] \in P[n]
<1> DEFINE Good == {n \in Nat : n <= N => f[n] \in P[n]}
<1>1. 0 \in Good
  BY DEF StepsFrom
<1>2. ASSUME NEW n \in Nat, n \in Good PROVE (n + 1) \in Good
  <2> SUFFICES ASSUME n + 1 <= N PROVE f[n + 1] \in P[n + 1]
    OBVIOUS
  <2>1. n + 1 \in 1 .. N /\ (n + 1) - 1 = n /\ f[n] \in P[n]
    BY <1>2
  <2> QED
    BY <2>1 DEF StepsFrom, Carries
<1> HIDE DEF Good
<1>3. Nat \subseteq Good
  BY <1>1, <1>2, InductionOn
<1> QED
  BY <1>3 DEF Good

LEMMA StepsOn ==
  ASSUME NEW N \in Nat, NEW P, NEW s0 \in P[0], NEW step, Carries(N, P, step)
  PROVE  \E f : f = [n \in 0 .. N |-> IF n = 0 THEN s0 ELSE step[<<n, f[n - 1]>>]]
<1> DEFINE S == UNION {P[n] : n \in 0 .. N}
           X == 0 .. N
           rank == [n \in X |-> n]
           Value(n, f) == step[<<n, f[n - 1]>>]
           turn == [w \in X \X [X -> S] |->
                      IF w[1] = 0 \/ Value(w[1], w[2]) \notin S THEN s0 ELSE Value(w[1], w[2])]
<1>1. s0 \in S /\ rank \in [X -> Nat]
  OBVIOUS
<1>t. \A n \in X : \A f \in [X -> S] :
        turn[<<n, f>>] = IF n = 0 \/ Value(n, f) \notin S THEN s0 ELSE Value(n, f)
  OBVIOUS
<1>u. turn \in [X \X [X -> S] -> S]
  <2> HIDE DEF S, X, Value
  <2> QED
    BY <1>1
<1>2. LooksBelow(X, S, rank, turn)
  <2> SUFFICES ASSUME NEW n \in X, NEW f \in [X -> S], NEW g \in [X -> S],
                      \A y \in X : rank[y] < rank[n] => f[y] = g[y]
               PROVE  turn[<<n, f>>] = turn[<<n, g>>]
    BY DEF LooksBelow
  <2>1. n # 0 => f[n - 1] = g[n - 1]
    <3> HIDE DEF S
    <3> QED
      OBVIOUS
  <2>2. n # 0 => Value(n, f) = Value(n, g)
    BY <2>1
  <2> HIDE DEF S, X, Value, turn
  <2> QED
    BY <2>2, <1>t
<1>3. PICK f : DescentOf(f, X, S, turn)
  <2> HIDE DEF S, X, rank, turn
  <2> QED
    BY <1>1, <1>u, <1>2, DescentOn
<1>4. f \in [X -> S] /\ f[0] = s0
  <2> HIDE DEF S, Value, turn
  <2>1. f \in [X -> S] /\ 0 \in X /\ f[0] = turn[<<0, f>>]
    BY <1>3 DEF DescentOf
  <2> QED
    BY <2>1, <1>t
<1>5. ASSUME NEW n \in 1 .. N, step[<<n, f[n - 1]>>] \in S PROVE f[n] = step[<<n, f[n - 1]>>]
  <2>1. f \in [X -> S] /\ n \in X /\ f[n] = turn[<<n, f>>] /\ n # 0
    <3> HIDE DEF S, turn
    <3> QED
      BY <1>3 DEF DescentOf
  <2>2. turn[<<n, f>>] = Value(n, f)
    <3> HIDE DEF S, X, turn
    <3> QED
      BY <1>5, <2>1, <1>t
  <2> HIDE DEF turn, S
  <2> QED
    BY <2>1, <2>2
<1> HIDE DEF turn, S
<1> DEFINE Good == {n \in Nat : n <= N => f[n] \in P[n]}
<1>6. 0 \in Good
  BY <1>4
<1>7. ASSUME NEW n \in Nat, n \in Good PROVE (n + 1) \in Good
  <2> SUFFICES ASSUME n + 1 <= N PROVE f[n + 1] \in P[n + 1]
    OBVIOUS
  <2>1. n + 1 \in 1 .. N /\ (n + 1) - 1 = n /\ f[n] \in P[n]
    BY <1>7
  <2>2. step[<<n + 1, f[n]>>] \in P[n + 1]
    BY <2>1 DEF Carries
  <2>3. step[<<n + 1, f[(n + 1) - 1]>>] \in S
    BY <2>1, <2>2 DEF S
  <2>4. f[n + 1] = step[<<n + 1, f[(n + 1) - 1]>>]
    BY <1>5, <2>1, <2>3
  <2> QED
    BY <2>1, <2>2, <2>4
<1> HIDE DEF Good, S
<1>8. Nat \subseteq Good
  BY <1>6, <1>7, InductionOn
<1>9. ASSUME NEW n \in 1 .. N PROVE f[n] = step[<<n, f[n - 1]>>]
  <2>1. n - 1 \in Nat /\ n - 1 <= N /\ n - 1 \in Good
    BY <1>8
  <2>2. f[n - 1] \in P[n - 1]
    BY <2>1 DEF Good
  <2>3. step[<<n, f[n - 1]>>] \in P[n]
    BY <2>2 DEF Carries
  <2> QED
    BY <1>5, <2>3 DEF S
<1>10. f = [n \in 0 .. N |-> IF n = 0 THEN s0 ELSE step[<<n, f[n - 1]>>]]
  BY <1>4, <1>9
<1> QED
  BY <1>10

-------------------------------------------------------------------------------
(* The least and the greatest of a set.                                    *)
IsLeast(x, S) == x \in S /\ \A y \in S : x <= y
IsGreatest(x, S) == x \in S /\ \A y \in S : y <= x

LEMMA MinIsLeast ==
  ASSUME NEW S, S \subseteq Nat, S # {}
  PROVE  IsLeast(Min(S), S)
<1>1. \E m \in S : \A n \in S : m <= n
  BY SmallestOf
<1> QED
  BY <1>1 DEF Min, IsLeast

LEMMA MaxIsGreatest ==
  ASSUME NEW S, S \subseteq Nat, S # {}, NEW b \in Nat, \A n \in S : n <= b
  PROVE  IsGreatest(Max(S), S)
<1>1. PICK m \in S : \A n \in S : n <= m
  BY LargestOf
<1>2. \A n \in S : m >= n
  BY <1>1
<1>3. Max(S) \in S /\ \A n \in S : Max(S) >= n
  BY <1>2 DEF Max
<1> QED
  BY <1>3 DEF IsGreatest

LEMMA LeastOne ==
  ASSUME NEW S, S \subseteq Nat, NEW x, IsLeast(x, S)
  PROVE  x = Min(S)
<1>1. S # {} /\ x \in S /\ \A y \in S : x <= y
  BY DEF IsLeast
<1>2. IsLeast(Min(S), S)
  BY <1>1, MinIsLeast
<1>3. Min(S) \in S /\ Min(S) <= x /\ x <= Min(S) /\ x \in Nat /\ Min(S) \in Nat
  BY <1>1, <1>2 DEF IsLeast
<1> QED
  BY <1>3

LEMMA GreatestOne ==
  ASSUME NEW S, S \subseteq Nat, NEW x, IsGreatest(x, S)
  PROVE  x = Max(S)
<1>1. S # {} /\ x \in S /\ x \in Nat /\ \A y \in S : y <= x
  BY DEF IsGreatest
<1>2. IsGreatest(Max(S), S)
  BY <1>1, MaxIsGreatest
<1>3. Max(S) \in S /\ Max(S) <= x /\ x <= Max(S) /\ x \in Nat /\ Max(S) \in Nat
  BY <1>1, <1>2 DEF IsGreatest
<1> QED
  BY <1>3

-------------------------------------------------------------------------------
(* Powers of two double, and outgrow their exponents. *)
LEMMA Powers ==
  /\ Pow2[0] = 1
  /\ \A n \in Nat : Pow2[n] \in Nat /\ Pow2[n + 1] = 2 * Pow2[n] /\ n < Pow2[n]
<1> DEFINE Def(g) == [n \in Nat |-> IF n = 0 THEN 1 ELSE 2 * g[n - 1]]
           twice == [x \in Nat |-> 2 * x]
<1>1. PICK g : Iterates(g, Nat, 1, twice)
  <2>1. twice \in [Nat -> Nat]
    OBVIOUS
  <2> HIDE DEF twice
  <2> QED
    BY <2>1, RecursionOn
<1>2. g \in [Nat -> Nat] /\ g[0] = 1 /\ \A n \in Nat : g[n + 1] = 2 * g[n]
  BY <1>1 DEF Iterates
<1>3. g = Def(g)
  <2>1. ASSUME NEW n \in Nat PROVE g[n] = IF n = 0 THEN 1 ELSE 2 * g[n - 1]
    <3>1. CASE n = 0
      BY <3>1, <1>2
    <3>2. CASE n # 0
      <4>1. n - 1 \in Nat /\ (n - 1) + 1 = n
        BY <3>2
      <4> QED
        BY <4>1, <3>2, <1>2
    <3> QED
      BY <3>1, <3>2
  <2> QED
    BY <2>1, <1>2
<1>4. Pow2 = CHOOSE f : f = Def(f)
  BY DEF Pow2
<1>5. Pow2 = Def(Pow2)
  <2> HIDE DEF Def
  <2> QED
    BY <1>3, <1>4, Zenon
<1>6. \A n \in Nat : Pow2[n] = IF n = 0 THEN 1 ELSE 2 * Pow2[n - 1]
  BY <1>5 DEF Def
<1> HIDE DEF Def
<1>7. Pow2[0] = 1
  BY <1>6
<1>8. ASSUME NEW n \in Nat PROVE Pow2[n + 1] = 2 * Pow2[n]
  <2>1. n + 1 \in Nat /\ n + 1 # 0 /\ (n + 1) - 1 = n
    OBVIOUS
  <2> QED
    BY <2>1, <1>6
<1> DEFINE Fine == {n \in Nat : Pow2[n] \in Nat /\ n < Pow2[n]}
<1>9. 0 \in Fine
  BY <1>7
<1>10. ASSUME NEW n \in Nat, n \in Fine PROVE (n + 1) \in Fine
  BY <1>8, <1>10
<1> HIDE DEF Fine
<1>11. Nat \subseteq Fine
  BY <1>9, <1>10, InductionOn
<1> QED
  BY <1>7, <1>8, <1>11 DEF Fine

(* A row of ids is wide enough for the classes of lengths. *)
LEMMA WidthSuffices ==
  ASSUME NEW n \in Nat \ {0}
  PROVE  Width(n) \in Nat \ {0} /\ n <= Width(n)
<1> DEFINE u == n - 1
           Enough == {b \in Nat : u < Pow2[b]}
<1>1. u \in Nat
  OBVIOUS
<1> HIDE DEF u
<1>2. u \in Enough
  BY <1>1, Powers
<1>3. PICK b \in Enough : \A c \in Enough : b <= c
  BY <1>2, SmallestOf
<1>4. b \in 0 .. u /\ u < Pow2[b] /\ \A c \in 0 .. (b - 1) : Pow2[c] <= u
  <2>1. b \in 0 .. u
    BY <1>1, <1>2, <1>3
  <2>2. ASSUME NEW c \in 0 .. (b - 1) PROVE Pow2[c] <= u
    <3>1. c \in Nat /\ c \notin Enough
      BY <1>3
    <3> QED
      BY <3>1, <1>1, Powers
  <2> QED
    BY <2>1, <2>2, <1>3
<1>5. Bits(u) \in 0 .. u /\ u < Pow2[Bits(u)]
  BY <1>4 DEF Bits
<1>6. Pow2[Bits(u)] \in Nat
  BY <1>1, <1>5, Powers
<1> QED
  BY <1>1, <1>5, <1>6 DEF Width, u

-------------------------------------------------------------------------------
(* Searching a vector of classes.                                          *)
LEMMA ClassesIncrease ==
  ASSUME NEW v, IsClasses(v)
  PROVE  /\ v \in Seq(Nat \ {0}) /\ Len(v) \in Nat \ {0} /\ DOMAIN v = 1 .. Len(v)
         /\ \A k \in 1 .. Len(v) : v[k] \in Nat \ {0} /\ v[k] <= v[Len(v)]
         /\ \A k, n \in 1 .. Len(v) : k < n => v[k] < v[n]
<1>1. /\ v \in Seq(Nat \ {0}) /\ v # <<>> /\ Len(v) \in Nat \ {0} /\ DOMAIN v = 1 .. Len(v)
      /\ \A k \in 1 .. Len(v) : v[k] \in Nat \ {0}
      /\ \A k \in 2 .. Len(v) : v[k - 1] < v[k]
  BY EmptySeq, LenProperties, ElementOfSeq DEF IsClasses, Increasing
<1> DEFINE Sorted == {n \in Nat : n <= Len(v) => \A k \in 1 .. Len(v) : k < n => v[k] < v[n]}
<1>2. 0 \in Sorted
  OBVIOUS
<1>3. ASSUME NEW n \in Nat, n \in Sorted PROVE (n + 1) \in Sorted
  <2> SUFFICES ASSUME n + 1 <= Len(v), NEW k \in 1 .. Len(v), k < n + 1 PROVE v[k] < v[n + 1]
    OBVIOUS
  <2>1. n + 1 \in 2 .. Len(v) /\ n \in 1 .. Len(v) /\ (n + 1) - 1 = n
    BY <1>1
  <2>2. v[n] < v[n + 1] /\ v[n] \in Nat /\ v[k] \in Nat /\ v[n + 1] \in Nat
    BY <2>1, <1>1
  <2>3. k = n \/ v[k] < v[n]
    BY <1>3, <2>1
  <2> QED
    BY <2>2, <2>3
<1> HIDE DEF Sorted
<1>4. Nat \subseteq Sorted
  BY <1>2, <1>3, InductionOn
<1>5. \A k, n \in 1 .. Len(v) : k < n => v[k] < v[n]
  BY <1>4 DEF Sorted
<1>6. ASSUME NEW k \in 1 .. Len(v) PROVE v[k] <= v[Len(v)]
  <2> DEFINE N == Len(v)
  <2>1. N \in 1 .. Len(v) /\ k <= N /\ k \in Int /\ N \in Int
    BY <1>1
  <2> HIDE DEF N
  <2>2. v[k] \in Nat /\ v[N] \in Nat
    BY <2>1, <1>1
  <2>3. k < N => v[k] < v[N]
    BY <2>1, <1>5
  <2>4. v[k] <= v[N]
    BY <2>1, <2>2, <2>3
  <2> QED
    BY <2>4 DEF N
<1> QED
  BY <1>1, <1>5, <1>6

(* lower_bound counts the classes that end before x: the first ones.       *)
LEMMA LowerBoundIs ==
  ASSUME NEW v, IsClasses(v), NEW x \in Nat
  PROVE  /\ LowerBound(v, x) \in 0 .. Len(v)
         /\ \A k \in 1 .. Len(v) : v[k] < x <=> k <= LowerBound(v, x)
         /\ x <= Last(v) => LowerBound(v, x) < Len(v)
<1> DEFINE S == {k \in DOMAIN v : v[k] < x}
<1>1. /\ Len(v) \in Nat \ {0} /\ DOMAIN v = 1 .. Len(v)
      /\ \A k \in 1 .. Len(v) : v[k] \in Nat
      /\ \A k, n \in 1 .. Len(v) : k < n => v[k] < v[n]
  BY ClassesIncrease
<1>2. S \subseteq (0 + 1) .. Len(v)
  BY <1>1
<1>3. ASSUME NEW k \in S, NEW n \in (0 + 1) .. k PROVE n \in S
  <2>1. n \in 1 .. Len(v) /\ k \in 1 .. Len(v) /\ v[k] < x
    BY <1>1
  <2>2. n = k \/ v[n] < v[k]
    BY <2>1, <1>1
  <2> QED
    BY <2>1, <2>2, <1>1
<1>4. Cardinality(S) \in Nat /\ S = (0 + 1) .. (0 + Cardinality(S))
  <2> HIDE DEF S
  <2> QED
    BY <1>1, <1>2, <1>3, SizeOfRun
<1>5. LowerBound(v, x) = Cardinality(S)
  BY DEF LowerBound
<1>6. \A k \in 1 .. Len(v) : v[k] < x <=> k \in S
  BY <1>1
<1> HIDE DEF S
<1>7. LowerBound(v, x) \in 0 .. Len(v)
  <2>1. CASE Cardinality(S) = 0
    BY <2>1, <1>1, <1>5
  <2>2. CASE Cardinality(S) # 0
    <3>1. Cardinality(S) \in S
      BY <2>2, <1>4
    <3> QED
      BY <3>1, <1>1, <1>2, <1>4, <1>5
  <2> QED
    BY <2>1, <2>2
<1>8. \A k \in 1 .. Len(v) : v[k] < x <=> k <= LowerBound(v, x)
  BY <1>1, <1>4, <1>5, <1>6
<1>9. ASSUME x <= Last(v) PROVE LowerBound(v, x) < Len(v)
  <2>1. Len(v) \in 1 .. Len(v) /\ v[Len(v)] \in Nat /\ ~ (v[Len(v)] < x)
    BY <1>1, <1>9 DEF Last
  <2> QED
    BY <2>1, <1>1, <1>7, <1>8
<1> QED
  BY <1>7, <1>8, <1>9

(* The class an x is found in is the one whose end is the first not below. *)
LEMMA ClassFound ==
  ASSUME NEW v, IsClasses(v), NEW x \in Nat, NEW n \in 1 .. Len(v),
         x <= v[n], n > 1 => v[n - 1] < x
  PROVE  LowerBound(v, x) = n - 1
<1>1. /\ Len(v) \in Nat \ {0} /\ v[n] \in Nat /\ LowerBound(v, x) \in 0 .. Len(v)
      /\ \A k \in 1 .. Len(v) : v[k] < x <=> k <= LowerBound(v, x)
  BY ClassesIncrease, LowerBoundIs
<1>2. ~ (n <= LowerBound(v, x))
  BY <1>1
<1>3. n > 1 => n - 1 <= LowerBound(v, x)
  BY <1>1
<1> QED
  BY <1>1, <1>2, <1>3

LEMMA ClassesGrow ==
  ASSUME NEW v, IsClasses(v), NEW x \in Nat, NEW y \in Nat, x <= y
  PROVE  LowerBound(v, x) <= LowerBound(v, y)
<1> DEFINE a == LowerBound(v, x)
<1>1. /\ Len(v) \in Nat /\ a \in 0 .. Len(v) /\ LowerBound(v, y) \in 0 .. Len(v)
      /\ \A k \in 1 .. Len(v) : v[k] \in Nat
      /\ \A k \in 1 .. Len(v) : v[k] < x <=> k <= a
      /\ \A k \in 1 .. Len(v) : v[k] < y <=> k <= LowerBound(v, y)
  BY ClassesIncrease, LowerBoundIs
<1> HIDE DEF a
<1>2. CASE a = 0
  BY <1>1, <1>2 DEF a
<1>3. CASE a # 0
  <2>1. a \in 1 .. Len(v) /\ v[a] < x
    BY <1>1, <1>3
  <2>2. v[a] < y
    BY <2>1, <1>1
  <2> QED
    BY <2>1, <2>2, <1>1 DEF a
<1> QED
  BY <1>2, <1>3

(* The classes that end by x are those that end before x + 1.              *)
LEMMA EndedBy ==
  ASSUME NEW v, IsClasses(v), NEW x \in Nat
  PROVE  /\ LowerBound(v, x + 1) \in 0 .. Len(v)
         /\ \A k \in 1 .. Len(v) : v[k] <= x <=> k <= LowerBound(v, x + 1)
<1>1. /\ x + 1 \in Nat
      /\ \A k \in 1 .. Len(v) : v[k] \in Nat
  BY ClassesIncrease
<1>2. /\ LowerBound(v, x + 1) \in 0 .. Len(v)
      /\ \A k \in 1 .. Len(v) : v[k] < x + 1 <=> k <= LowerBound(v, x + 1)
  BY <1>1, LowerBoundIs
<1>3. \A k \in 1 .. Len(v) : v[k] <= x <=> v[k] < x + 1
  BY <1>1
<1> QED
  BY <1>2, <1>3

(* Ids of a row follow each other.                                         *)
LEMMA WrapIs ==
  ASSUME NEW a \in Nat, NEW b \in Nat
  PROVE  Wrap(a, b) = b * Width(Len(Lens)) + a /\ Wrap(a, b) \in Nat
<1>1. Len(Lens) \in Nat \ {0}
  BY ClassesAssumption, ClassesIncrease
<1>2. Width(Len(Lens)) \in Nat
  BY <1>1, WidthSuffices
<1>3. b * Width(Len(Lens)) \in Nat
  BY <1>2
<1> QED
  BY <1>3 DEF Wrap, WrapId

-------------------------------------------------------------------------------
(* Windows.  Win(k, x) has the positions at a distance of class k before   *)
(* x; on the way to x the last one comes in, and one drops out.            *)
Win(k, x) == {p \in 0 .. (x - 1) : x - p \in ClassOf(k)}
Floor(k) == IF k = 1 THEN 0 ELSE Dst[k - 1]
Comes(k, x) == (x - 1) - Floor(k)
Goes(k, x) == (x - 1) - Dst[k]

LEMMA Classes1 ==
  /\ Len(Dst) \in Nat \ {0} /\ DOMAIN Dst = 1 .. Len(Dst)
  /\ \A k \in 1 .. Len(Dst) : Dst[k] \in Nat \ {0} /\ Floor(k) \in Nat /\ Floor(k) < Dst[k]
  /\ \A j, k \in 1 .. Len(Dst) : j < k => Dst[j] < Dst[k]
<1>1. /\ Len(Dst) \in Nat \ {0} /\ DOMAIN Dst = 1 .. Len(Dst)
      /\ \A k \in 1 .. Len(Dst) : Dst[k] \in Nat \ {0}
      /\ \A j, k \in 1 .. Len(Dst) : j < k => Dst[j] < Dst[k]
  BY ClassesAssumption, ClassesIncrease
<1>2. ASSUME NEW k \in 1 .. Len(Dst) PROVE Floor(k) \in Nat /\ Floor(k) < Dst[k]
  <2>1. CASE k = 1
    BY <1>1, <2>1 DEF Floor
  <2>2. CASE k # 1
    <3>1. k - 1 \in 1 .. Len(Dst) /\ k - 1 < k
      BY <1>1, <2>2
    <3> QED
      BY <1>1, <2>2, <3>1 DEF Floor
  <2> QED
    BY <2>1, <2>2
<1> QED
  BY <1>1, <1>2

LEMMA WinIs ==
  ASSUME NEW x \in Nat, NEW k \in 1 .. Len(Dst)
  PROVE  /\ Win(k, x) \subseteq 0 .. (x - 1)
         /\ \A p \in Nat : p \in Win(k, x) <=> p + Floor(k) < x /\ x <= p + Dst[k]
<1> DEFINE lo == Floor(k)
           hi == Dst[k]
<1>1. lo \in Nat /\ hi \in Nat
  BY Classes1
<1>2. ClassOf(k) = (lo + 1) .. hi
  BY DEF ClassOf, Floor
<1> HIDE DEF lo, hi
<1>3. ASSUME NEW p \in Nat PROVE p \in Win(k, x) <=> p + lo < x /\ x <= p + hi
  <2>1. p \in Win(k, x) <=> p \in 0 .. (x - 1) /\ x - p \in (lo + 1) .. hi
    BY <1>2 DEF Win
  <2>2. (p \in 0 .. (x - 1) /\ x - p \in (lo + 1) .. hi) <=> (p + lo < x /\ x <= p + hi)
    BY <1>1
  <2> QED
    BY <2>1, <2>2
<1> QED
  BY <1>3 DEF Win, lo, hi

NoneComes(k, x) == Goes(k, x) < 0 /\ Win(k, x) = Win(k, x - 1)
OnlyComes(k, x) ==
  /\ Comes(k, x) \in 0 .. (x - 1) /\ Comes(k, x) \notin Win(k, x - 1)
  /\ Win(k, x) = Win(k, x - 1) \union {Comes(k, x)}
OneGoes(k, x) ==
  /\ Comes(k, x) \in 0 .. (x - 1) /\ Comes(k, x) \notin Win(k, x - 1) /\ Goes(k, x) \in Win(k, x - 1)
  /\ Win(k, x) = (Win(k, x - 1) \union {Comes(k, x)}) \ {Goes(k, x)}
LEMMA WinMoves ==
  ASSUME NEW x \in Nat, x > 0, NEW k \in 1 .. Len(Dst)
  PROVE  /\ Comes(k, x) < 0 => NoneComes(k, x)
         /\ Comes(k, x) >= 0 /\ Goes(k, x) < 0 => OnlyComes(k, x)
         /\ Goes(k, x) >= 0 => Comes(k, x) >= 0 /\ OneGoes(k, x)
<1> DEFINE lo == Floor(k)
           hi == Dst[k]
           y == x - 1
           c == Comes(k, x)
           g == Goes(k, x)
           A == Win(k, x)
           B == Win(k, y)
<1>1. lo \in Nat /\ hi \in Nat /\ lo < hi /\ y \in Nat /\ x = y + 1
  BY Classes1
<1>2. A \subseteq Nat /\ \A p \in Nat : p \in A <=> p + lo < x /\ x <= p + hi
  BY WinIs
<1>3. B \subseteq Nat /\ \A p \in Nat : p \in B <=> p + lo < y /\ y <= p + hi
  <2> HIDE DEF y
  <2> QED
    BY <1>1, WinIs
<1>4. c \in Int /\ g \in Int /\ c + lo = y /\ g + hi = y
  BY <1>1 DEF Comes, Goes
<1> HIDE DEF lo, hi, y, c, g, A, B
<1>s. A \subseteq Nat /\ B \subseteq Nat
  BY <1>2, <1>3
<1>5. ASSUME c < 0 PROVE g < 0 /\ A = B
  <2>1. ASSUME NEW p \in Nat PROVE p \in A <=> p \in B
    BY <1>1, <1>2, <1>3, <1>4, <1>5
  <2>2. A = B
    BY <1>s, <2>1
  <2> QED
    BY <1>1, <1>4, <1>5, <2>2
<1>6. ASSUME c >= 0 PROVE c \in 0 .. y /\ c \notin B
  BY <1>1, <1>3, <1>4, <1>6
<1>7. ASSUME c >= 0, g < 0 PROVE A = B \union {c}
  <2>1. ASSUME NEW p \in Nat PROVE p \in A <=> p \in B \/ p = c
    BY <1>1, <1>2, <1>3, <1>4, <1>7
  <2>2. c \in Nat
    BY <1>4, <1>7
  <2> QED
    BY <1>s, <2>1, <2>2
<1>8. ASSUME g >= 0 PROVE c >= 0 /\ g \in B /\ A = (B \union {c}) \ {g}
  <2>1. c >= 0 /\ g \in B
    BY <1>1, <1>3, <1>4, <1>8
  <2>2. ASSUME NEW p \in Nat PROVE p \in A <=> (p \in B \/ p = c) /\ p # g
    BY <1>1, <1>2, <1>3, <1>4, <1>8
  <2>3. c \in Nat
    BY <1>4, <2>1
  <2>4. A = (B \union {c}) \ {g}
    BY <1>s, <2>2, <2>3
  <2> QED
    BY <2>1, <2>4
<1> QED
  BY <1>5, <1>6, <1>7, <1>8 DEF NoneComes, OnlyComes, OneGoes, A, B, c, g, y

-------------------------------------------------------------------------------
(* Matches.                                                                *)
Same(text, i, d, n) == \A j \in 1 .. n : text[i + j] = text[i + j - d]

LEMMA MatchLenIs ==
  ASSUME NEW text, Len(text) \in Nat, NEW i \in 0 .. Len(text), NEW d
  PROVE  /\ MatchLen(text, i, d) \in 0 .. (Len(text) - i)
         /\ \A n \in 0 .. (Len(text) - i) : Same(text, i, d, n) <=> n <= MatchLen(text, i, d)
<1> DEFINE left == Len(text) - i
           ell == MatchLen(text, i, d)
           U == {n \in 0 .. left : Same(text, i, d, n)}
<1>1. left \in Nat
  OBVIOUS
<1>2. ell = CHOOSE n \in 0 .. left : Same(text, i, d, n) /\ (n = left \/ ~ Same(text, i, d, n + 1))
  BY DEF MatchLen, Same
<1>3. \A m, n \in 0 .. left : m <= n /\ Same(text, i, d, n) => Same(text, i, d, m)
  BY <1>1 DEF Same
<1> HIDE DEF left, ell
<1>4. Same(text, i, d, 0)
  BY DEF Same
<1>5. U \subseteq Nat /\ U # {} /\ \A n \in U : n <= left
  BY <1>1, <1>4
<1>6. PICK m \in U : \A n \in U : n <= m
  BY <1>1, <1>5, LargestOf
<1>7. m \in 0 .. left /\ Same(text, i, d, m) /\ (m = left \/ ~ Same(text, i, d, m + 1))
  BY <1>1, <1>6
<1>8. ell \in 0 .. left /\ Same(text, i, d, ell) /\ (ell = left \/ ~ Same(text, i, d, ell + 1))
  BY <1>2, <1>7
<1>9. ASSUME NEW n \in 0 .. left PROVE Same(text, i, d, n) <=> n <= ell
  <2>1. CASE n <= ell
    BY <2>1, <1>3, <1>8
  <2>2. CASE ~ (n <= ell)
    <3>1. ell + 1 \in 0 .. left /\ ell + 1 <= n /\ ell # left
      BY <2>2, <1>1, <1>8
    <3> QED
      BY <2>2, <3>1, <1>3, <1>8
  <2> QED
    BY <2>1, <2>2
<1> QED
  BY <1>8, <1>9 DEF left, ell

(* A distance of class k is found in it.                                   *)
LEMMA DistanceOfClass ==
  ASSUME NEW k \in 1 .. Len(Dst), NEW d \in ClassOf(k)
  PROVE  d \in Nat \ {0} /\ LowerBound(Dst, d) = k - 1 /\ d <= Last(Dst)
<1>1. /\ Len(Dst) \in Nat \ {0}
      /\ \A n \in 1 .. Len(Dst) : Dst[n] \in Nat \ {0} /\ Dst[n] <= Dst[Len(Dst)]
  BY ClassesAssumption, ClassesIncrease
<1>2. d \in Nat \ {0} /\ d <= Dst[k] /\ (k > 1 => Dst[k - 1] < d)
  <2>1. CASE k = 1
    BY <1>1, <2>1 DEF ClassOf
  <2>2. CASE k # 1
    <3>1. k - 1 \in 1 .. Len(Dst)
      BY <2>2
    <3>2. Dst[k - 1] \in Nat /\ Dst[k] \in Nat
      BY <3>1, <1>1
    <3>3. d \in (Dst[k - 1] + 1) .. Dst[k]
      BY <2>2 DEF ClassOf
    <3> QED
      BY <3>2, <3>3
  <2> QED
    BY <2>1, <2>2
<1>3. LowerBound(Dst, d) = k - 1
  BY <1>2, ClassesAssumption, ClassFound
<1>4. Dst[k] \in Nat /\ Dst[Len(Dst)] \in Nat /\ Dst[k] <= Dst[Len(Dst)]
  <2>1. Len(Dst) \in 1 .. Len(Dst)
    BY <1>1
  <2> QED
    BY <2>1, <1>1
<1>5. d <= Last(Dst)
  BY <1>2, <1>4 DEF Last
<1> QED
  BY <1>2, <1>3, <1>5

(* A generator's answer for a class is a longest match in it.              *)
LEMMA MaxMatchIs ==
  ASSUME NEW text, Len(text) \in Nat, NEW i \in 0 .. Len(text), NEW k \in 1 .. Len(Dst),
         NEW match \in MaxMatch(text, i, k)
  PROVE  /\ match.ell \in 0 .. (Len(text) - i)
         /\ match.ell > 0 => /\ match.d \in ClassOf(k) \cap 1 .. i
                             /\ match.ell = MatchLen(text, i, match.d)
         /\ \A d \in ClassOf(k) \cap 1 .. i : MatchLen(text, i, d) <= match.ell
<1> DEFINE near == ClassOf(k) \cap 1 .. i
           all == {[d |-> d, ell |-> MatchLen(text, i, d)] : d \in near}
           best == {m \in all : m.ell > 0 /\ \A n \in all : n.ell <= m.ell}
           lens == {n \in Nat : \E d \in near : n = MatchLen(text, i, d)}
           left == Len(text) - i
<1>1. left \in Nat /\ \A d \in near : MatchLen(text, i, d) \in 0 .. left
  BY MatchLenIs
<1>2. match \in IF best = {} THEN {NoMatch} ELSE best
  BY DEF MaxMatch
<1>3. CASE best # {}
  <2>1. match \in best
    BY <1>2, <1>3
  <2>2. PICK d \in near : match = [d |-> d, ell |-> MatchLen(text, i, d)]
    BY <2>1
  <2>3. match.ell > 0 /\ \A n \in all : n.ell <= match.ell
    BY <2>1
  <2>4. ASSUME NEW n \in near PROVE MatchLen(text, i, n) <= match.ell
    <3> DEFINE other == [d |-> n, ell |-> MatchLen(text, i, n)]
    <3>1. other \in all /\ other.ell = MatchLen(text, i, n)
      OBVIOUS
    <3> QED
      BY <3>1, <2>3
  <2>5. match.d = d /\ match.ell = MatchLen(text, i, d)
    BY <2>2
  <2> HIDE DEF near, left
  <2> QED
    BY <1>1, <2>3, <2>4, <2>5 DEF near, left
<1>4. CASE best = {}
  <2>1. match.ell = 0
    BY <1>2, <1>4 DEF NoMatch
  <2>2. ASSUME NEW d \in near PROVE MatchLen(text, i, d) <= 0
    <3>1. SUFFICES ASSUME MatchLen(text, i, d) > 0 PROVE FALSE
      BY <1>1
    <3>2. lens \subseteq Nat /\ lens # {} /\ \A n \in lens : n <= left
      BY <1>1
    <3> HIDE DEF lens
    <3>3. PICK m \in lens : \A n \in lens : n <= m
      BY <1>1, <3>2, LargestOf
    <3>4. PICK c \in near : m = MatchLen(text, i, c)
      BY <3>3 DEF lens
    <3>5. \A n \in near : MatchLen(text, i, n) <= m
      BY <1>1, <3>3 DEF lens
    <3>6. MatchLen(text, i, c) > 0
      BY <1>1, <3>1, <3>4, <3>5
    <3>7. [d |-> c, ell |-> m] \in best
      BY <3>4, <3>5, <3>6
    <3> QED
      BY <3>7, <1>4
  <2> HIDE DEF near, left
  <2>3. \A d \in near : MatchLen(text, i, d) <= match.ell
    BY <2>1, <2>2
  <2> QED
    BY <1>1, <2>1, <2>3 DEF near, left
<1> QED
  BY <1>3, <1>4

(* A sequence is one of the elements it has.                               *)
LEMMA Narrowed ==
  ASSUME NEW S, NEW T, NEW s \in Seq(S), \A k \in 1 .. Len(s) : s[k] \in T
  PROVE  s \in Seq(T)
<1>1. Len(s) \in Nat /\ s \in [1 .. Len(s) -> S]
  BY LenProperties
<1>2. s \in [1 .. Len(s) -> T]
  BY <1>1
<1> QED
  BY <1>1, <1>2

(* Where each element of a concatenation comes from.                       *)
LEMMA Joined ==
  ASSUME NEW S, NEW s \in Seq(S), NEW t \in Seq(S)
  PROVE  /\ s \o t \in Seq(S) /\ Len(s \o t) = Len(s) + Len(t)
         /\ \A q \in 1 .. Len(s) : (s \o t)[q] = s[q]
         /\ \A q \in 1 .. Len(t) : (s \o t)[Len(s) + q] = t[q]
<1> DEFINE u == s \o t
<1>1. /\ u \in Seq(S) /\ Len(u) = Len(s) + Len(t)
      /\ \A q \in 1 .. Len(s) + Len(t) : u[q] = IF q <= Len(s) THEN s[q] ELSE t[q - Len(s)]
  BY ConcatProperties
<1>2. Len(s) \in Nat /\ Len(t) \in Nat
  BY LenProperties
<1> HIDE DEF u
<1>3. ASSUME NEW q \in 1 .. Len(s) PROVE u[q] = s[q]
  <2>1. q \in 1 .. Len(s) + Len(t) /\ q <= Len(s)
    BY <1>2
  <2> QED
    BY <2>1, <1>1
<1>4. ASSUME NEW q \in 1 .. Len(t) PROVE u[Len(s) + q] = t[q]
  <2> DEFINE r == Len(s) + q
  <2>1. r \in 1 .. Len(s) + Len(t) /\ ~ (r <= Len(s)) /\ r - Len(s) = q
    BY <1>2
  <2> HIDE DEF r
  <2>2. u[r] = t[q]
    BY <2>1, <1>1
  <2> QED
    BY <2>2 DEF r
<1> QED
  BY <1>1, <1>3, <1>4 DEF u

-------------------------------------------------------------------------------
(* The order of suffixes.                                                  *)
Words == Seq(ToSet(Symbols))
AgreeFor(u, i, j, n) == \A m \in 1 .. n : u[i + m] = u[j + m]
Longer(i, j) == IF i > j THEN i ELSE j
CommonRight(u, i, j, c) ==
  /\ c \in 0 .. (Len(u) - Longer(i, j))
  /\ \A n \in 0 .. (Len(u) - Longer(i, j)) : AgreeFor(u, i, j, n) <=> n <= c
LEMMA CommonIs ==
  ASSUME NEW u, Len(u) \in Nat, NEW i \in 0 .. Len(u), NEW j \in 0 .. Len(u)
  PROVE  CommonRight(u, i, j, CommonPrefix(u, i, j))
<1> DEFINE last == Longer(i, j)
           room == Len(u) - last
           S == {0} \union {n \in 1 .. room : AgreeFor(u, i, j, n)}
           c == Max(S)
<1>1. room \in Nat /\ S \subseteq Nat /\ S # {} /\ S \subseteq 0 .. room /\ \A n \in S : n <= room
  BY DEF Longer
<1>2. CommonPrefix(u, i, j) = c
  BY DEF CommonPrefix, AgreeFor, Longer
<1>3. c \in S /\ \A n \in S : n <= c
  <2> HIDE DEF S, room
  <2>1. IsGreatest(Max(S), S)
    BY <1>1, MaxIsGreatest
  <2> QED
    BY <2>1 DEF IsGreatest
<1> HIDE DEF c
<1>4. AgreeFor(u, i, j, c)
  BY <1>3 DEF AgreeFor
<1>5. ASSUME NEW n \in 0 .. room PROVE AgreeFor(u, i, j, n) <=> n <= c
  <2>1. ASSUME AgreeFor(u, i, j, n) PROVE n <= c
    BY <1>1, <1>3, <1>5, <2>1
  <2>2. ASSUME n <= c PROVE AgreeFor(u, i, j, n)
    <3>1. c \in Nat /\ n \in Nat
      BY <1>1, <1>3
    <3> QED
      BY <1>4, <2>2, <3>1 DEF AgreeFor
  <2> QED
    BY <2>1, <2>2
<1> QED
  BY <1>1, <1>2, <1>3, <1>5 DEF CommonRight

(* Where two suffixes part. *)
PartAt(u, i, j, n) ==
  /\ n \in Nat /\ i + n <= Len(u) /\ j + n < Len(u) /\ AgreeFor(u, i, j, n)
  /\ i + n = Len(u) \/ Order(u[i + n + 1]) < Order(u[j + n + 1])
Suffixed(u) == 0 .. (Len(u) - 1)

LEMMA Orders ==
  ASSUME NEW u \in Words
  PROVE  /\ Len(u) \in Nat
         /\ \A k \in 1 .. Len(u) : Order(u[k]) \in Int
         /\ \A k, n \in 1 .. Len(u) : Order(u[k]) = Order(u[n]) => u[k] = u[n]
<1>1. Len(u) \in Nat /\ \A k \in 1 .. Len(u) : u[k] \in ToSet(Symbols)
  BY DEF Words
<1>2. ASSUME NEW s \in ToSet(Symbols) PROVE Order(s) \in DOMAIN Symbols /\ Symbols[Order(s)] = s
  BY DEF ToSet, Order
<1>3. DOMAIN Symbols \subseteq Int
  BY DEF Symbols
<1>4. ASSUME NEW k \in 1 .. Len(u) PROVE Order(u[k]) \in Int
  BY <1>1, <1>2, <1>3
<1>5. ASSUME NEW k \in 1 .. Len(u), NEW n \in 1 .. Len(u), Order(u[k]) = Order(u[n]) PROVE u[k] = u[n]
  <2>1. Symbols[Order(u[k])] = u[k] /\ Symbols[Order(u[n])] = u[n]
    BY <1>1, <1>2
  <2> QED
    BY <1>5, <2>1
<1> QED
  BY <1>1, <1>4, <1>5

LEMMA BeforeIs ==
  ASSUME NEW u \in Words, NEW i \in Suffixed(u), NEW j \in Suffixed(u)
  PROVE  /\ Before(u, i, j) => PartAt(u, i, j, CommonPrefix(u, i, j))
         /\ \A n \in Nat : PartAt(u, i, j, n) => Before(u, i, j) /\ CommonPrefix(u, i, j) = n
<1> DEFINE c == CommonPrefix(u, i, j)
           N == Len(u)
           room == N - Longer(i, j)
<1>0. N \in Nat /\ i \in 0 .. N /\ j \in 0 .. N /\ i < N /\ j < N
  BY Orders DEF Suffixed
<1>1. c \in 0 .. room /\ \A n \in 0 .. room : AgreeFor(u, i, j, n) <=> n <= c
  <2>1. CommonRight(u, i, j, c)
    BY <1>0, CommonIs
  <2> QED
    BY <2>1 DEF CommonRight
<1>2. room \in Nat /\ \A n \in Nat : n <= room <=> i + n <= N /\ j + n <= N
  BY <1>0 DEF Longer
<1>3. Before(u, i, j) <=> j + c < N /\ (i + c = N \/ Order(u[i + c + 1]) < Order(u[j + c + 1]))
  BY DEF Before
<1> HIDE DEF c, room, N
<1>4. c \in Nat /\ i + c <= N /\ j + c <= N /\ AgreeFor(u, i, j, c)
  BY <1>1, <1>2
<1>5. ASSUME Before(u, i, j) PROVE PartAt(u, i, j, c)
  BY <1>3, <1>4, <1>5 DEF PartAt, N
<1>6. ASSUME NEW n \in Nat, PartAt(u, i, j, n) PROVE Before(u, i, j) /\ c = n
  <2>1. /\ i + n <= N /\ j + n < N /\ AgreeFor(u, i, j, n)
        /\ i + n = N \/ Order(u[i + n + 1]) < Order(u[j + n + 1])
    BY <1>6 DEF PartAt, N
  <2>2. n <= c
    BY <1>0, <1>1, <1>2, <2>1
  <2>3. ASSUME n < c PROVE FALSE
    <3>1. i + n < N /\ n + 1 \in Nat /\ n + 1 <= c
      BY <1>0, <1>4, <2>3
    <3>2. AgreeFor(u, i, j, n + 1)
      BY <1>1, <1>2, <1>4, <3>1
    <3>3. u[i + (n + 1)] = u[j + (n + 1)]
      BY <3>1, <3>2 DEF AgreeFor
    <3>4. i + (n + 1) = i + n + 1 /\ j + (n + 1) = j + n + 1
      BY <1>0
    <3>5. Order(u[i + n + 1]) \in Int
      BY <1>0, <3>1, Orders DEF N
    <3> QED
      BY <1>0, <2>1, <3>1, <3>3, <3>4, <3>5
  <2>4. c = n
    BY <1>4, <2>2, <2>3
  <2> QED
    BY <1>3, <2>1, <2>4
<1> QED
  BY <1>5, <1>6 DEF c

LEMMA PartsOnce ==
  ASSUME NEW u \in Words, NEW i \in Suffixed(u), NEW j \in Suffixed(u), NEW n \in Nat, PartAt(u, i, j, n)
  PROVE  Before(u, i, j)
BY BeforeIs

LEMMA BeforeParts ==
  ASSUME NEW u \in Words, NEW i \in Suffixed(u), NEW j \in Suffixed(u), Before(u, i, j)
  PROVE  \E n \in Nat : PartAt(u, i, j, n) /\ n = CommonPrefix(u, i, j)
<1>1. PartAt(u, i, j, CommonPrefix(u, i, j))
  BY BeforeIs
<1>2. CommonPrefix(u, i, j) \in Nat
  BY <1>1 DEF PartAt
<1> QED
  BY <1>1, <1>2

LEMMA AlikeTurned ==
  ASSUME NEW u, NEW i, NEW j, NEW n
  PROVE  AgreeFor(u, i, j, n) <=> AgreeFor(u, j, i, n)
BY DEF AgreeFor

LEMMA AlikeLess ==
  ASSUME NEW u, NEW i, NEW j, NEW n \in Nat, NEW m \in Nat, m <= n, AgreeFor(u, i, j, n)
  PROVE  AgreeFor(u, i, j, m)
BY DEF AgreeFor

LEMMA AlikeOn ==
  ASSUME NEW u, NEW i, NEW j, NEW k, NEW n \in Nat, AgreeFor(u, i, j, n), AgreeFor(u, j, k, n)
  PROVE  AgreeFor(u, i, k, n)
BY DEF AgreeFor

LEMMA BeforeNotAfter ==
  ASSUME NEW u \in Words, NEW i \in Suffixed(u), NEW j \in Suffixed(u), Before(u, i, j)
  PROVE  ~ Before(u, j, i)
<1> SUFFICES ASSUME Before(u, j, i) PROVE FALSE
  OBVIOUS
<1>1. PICK n \in Nat : PartAt(u, i, j, n) /\ n = CommonPrefix(u, i, j)
  BY BeforeParts
<1>2. PICK m \in Nat : PartAt(u, j, i, m) /\ m = CommonPrefix(u, j, i)
  BY BeforeParts
<1>3. Len(u) \in Nat /\ \A k \in 1 .. Len(u) : Order(u[k]) \in Int
  BY Orders
<1>4. i \in Nat /\ j \in Nat /\ i < Len(u) /\ j < Len(u)
  BY <1>3 DEF Suffixed
<1>5. /\ i + n <= Len(u) /\ j + n < Len(u) /\ AgreeFor(u, i, j, n)
      /\ i + n = Len(u) \/ Order(u[i + n + 1]) < Order(u[j + n + 1])
      /\ j + m <= Len(u) /\ i + m < Len(u) /\ AgreeFor(u, j, i, m)
      /\ j + m = Len(u) \/ Order(u[j + m + 1]) < Order(u[i + m + 1])
  BY <1>1, <1>2 DEF PartAt
<1>6. CASE n = m
  <2>1. i + n + 1 \in 1 .. Len(u) /\ j + n + 1 \in 1 .. Len(u)
    BY <1>3, <1>4, <1>5, <1>6
  <2> QED
    BY <1>3, <1>5, <1>6, <2>1
<1>7. CASE n < m
  <2>1. n + 1 \in 1 .. m /\ i + (n + 1) = i + n + 1 /\ j + (n + 1) = j + n + 1
    BY <1>4, <1>7
  <2>2. u[j + (n + 1)] = u[i + (n + 1)]
    BY <1>5, <2>1 DEF AgreeFor
  <2>3. i + n + 1 \in 1 .. Len(u) /\ j + n + 1 \in 1 .. Len(u)
    BY <1>3, <1>4, <1>5, <1>7
  <2>4. i + n # Len(u)
    BY <1>3, <1>4, <1>5, <1>7
  <2> QED
    BY <1>3, <1>5, <2>1, <2>2, <2>3, <2>4
<1>8. CASE m < n
  <2>1. m + 1 \in 1 .. n /\ i + (m + 1) = i + m + 1 /\ j + (m + 1) = j + m + 1
    BY <1>4, <1>8
  <2>2. u[i + (m + 1)] = u[j + (m + 1)]
    BY <1>5, <2>1 DEF AgreeFor
  <2>3. i + m + 1 \in 1 .. Len(u) /\ j + m + 1 \in 1 .. Len(u)
    BY <1>3, <1>4, <1>5, <1>8
  <2>4. j + m # Len(u)
    BY <1>3, <1>4, <1>5, <1>8
  <2> QED
    BY <1>3, <1>5, <2>1, <2>2, <2>3, <2>4
<1> QED
  BY <1>6, <1>7, <1>8

LEMMA BeforeOrAfter ==
  ASSUME NEW u \in Words, NEW i \in Suffixed(u), NEW j \in Suffixed(u), i # j
  PROVE  Before(u, i, j) \/ Before(u, j, i)
<1> DEFINE c == CommonPrefix(u, i, j)
           N == Len(u)
<1>0. N \in Nat /\ i \in 0 .. N /\ j \in 0 .. N /\ i < N /\ j < N
  BY Orders DEF Suffixed
<1>1. c \in 0 .. (N - Longer(i, j)) /\ \A n \in 0 .. (N - Longer(i, j)) : AgreeFor(u, i, j, n) <=> n <= c
  <2>1. CommonRight(u, i, j, c)
    BY <1>0, CommonIs
  <2> QED
    BY <2>1 DEF CommonRight
<1> HIDE DEF c, N
<1>2. c \in Nat /\ i + c <= N /\ j + c <= N /\ AgreeFor(u, i, j, c) /\ AgreeFor(u, j, i, c)
  BY <1>0, <1>1, AlikeTurned DEF Longer
<1>3. CASE i + c = N
  <2>1. PartAt(u, i, j, c)
    BY <1>0, <1>2, <1>3 DEF PartAt, N
  <2> QED
    BY <1>2, <2>1, PartsOnce
<1>4. CASE j + c = N
  <2>1. PartAt(u, j, i, c)
    BY <1>0, <1>2, <1>4 DEF PartAt, N
  <2> QED
    BY <1>2, <2>1, PartsOnce
<1>5. CASE i + c # N /\ j + c # N
  <2>1. c + 1 \in 0 .. (N - Longer(i, j)) /\ c + 1 \in Nat /\ i + (c + 1) = i + c + 1 /\ j + (c + 1) = j + c + 1
    BY <1>0, <1>1, <1>2, <1>5 DEF Longer
  <2>2. ~ AgreeFor(u, i, j, c + 1)
    BY <1>1, <1>2, <2>1
  <2>3. u[i + (c + 1)] # u[j + (c + 1)]
    <3>1. \A m \in 1 .. (c + 1) : m = c + 1 \/ m \in 1 .. c
      BY <1>2
    <3> QED
      BY <1>2, <2>2, <3>1 DEF AgreeFor
  <2> DEFINE p == i + c + 1
             q == j + c + 1
  <2>4. p \in 1 .. N /\ q \in 1 .. N /\ u[p] # u[q]
    BY <1>0, <1>2, <1>5, <2>1, <2>3
  <2>5. Order(u[p]) \in Int /\ Order(u[q]) \in Int /\ Order(u[p]) # Order(u[q])
    BY <2>4, Orders DEF N
  <2>6. CASE Order(u[p]) < Order(u[q])
    <3>1. PartAt(u, i, j, c)
      BY <1>0, <1>2, <1>5, <2>6 DEF PartAt, N
    <3> QED
      BY <1>2, <3>1, PartsOnce
  <2>7. CASE Order(u[q]) < Order(u[p])
    <3>1. PartAt(u, j, i, c)
      BY <1>0, <1>2, <1>5, <2>7 DEF PartAt, N
    <3> QED
      BY <1>2, <3>1, PartsOnce
  <2> QED
    BY <2>5, <2>6, <2>7
<1> QED
  BY <1>3, <1>4, <1>5

LEMMA BeforeOn ==
  ASSUME NEW u \in Words, NEW i \in Suffixed(u), NEW j \in Suffixed(u), NEW k \in Suffixed(u),
         Before(u, i, j), Before(u, j, k)
  PROVE  Before(u, i, k)
<1> DEFINE N == Len(u)
<1>1. PICK n \in Nat : PartAt(u, i, j, n) /\ n = CommonPrefix(u, i, j)
  BY BeforeParts
<1>2. PICK m \in Nat : PartAt(u, j, k, m) /\ m = CommonPrefix(u, j, k)
  BY BeforeParts
<1>3. N \in Nat /\ \A q \in 1 .. N : Order(u[q]) \in Int
  BY Orders
<1>4. i \in Nat /\ j \in Nat /\ k \in Nat /\ i < N /\ j < N /\ k < N
  BY <1>3 DEF Suffixed
<1>5. /\ i + n <= N /\ j + n < N /\ AgreeFor(u, i, j, n)
      /\ i + n = N \/ Order(u[i + n + 1]) < Order(u[j + n + 1])
      /\ j + m <= N /\ k + m < N /\ AgreeFor(u, j, k, m)
      /\ j + m = N \/ Order(u[j + m + 1]) < Order(u[k + m + 1])
  BY <1>1, <1>2 DEF PartAt
<1> HIDE DEF N
<1>6. CASE n < m
  <2>1. AgreeFor(u, j, k, n)
    BY <1>5, <1>6, AlikeLess
  <2>2. AgreeFor(u, i, k, n)
    BY <1>5, <2>1, AlikeOn
  <2>3. n + 1 \in 1 .. m /\ j + (n + 1) = j + n + 1 /\ k + (n + 1) = k + n + 1 /\ k + n < N
    BY <1>4, <1>5, <1>6, <1>3
  <2>4. u[j + (n + 1)] = u[k + (n + 1)]
    BY <1>5, <2>3 DEF AgreeFor
  <2>5. PartAt(u, i, k, n)
    BY <1>5, <2>2, <2>3, <2>4 DEF PartAt, N
  <2> QED
    BY <2>5, PartsOnce
<1>7. CASE m < n
  <2>1. AgreeFor(u, i, j, m)
    BY <1>5, <1>7, AlikeLess
  <2>2. AgreeFor(u, i, k, m)
    BY <1>5, <2>1, AlikeOn
  <2>3. m + 1 \in 1 .. n /\ j + (m + 1) = j + m + 1 /\ i + (m + 1) = i + m + 1 /\ i + m <= N /\ j + m # N
    BY <1>3, <1>4, <1>5, <1>7
  <2>4. u[i + (m + 1)] = u[j + (m + 1)]
    BY <1>5, <2>3 DEF AgreeFor
  <2>5. PartAt(u, i, k, m)
    BY <1>5, <2>2, <2>3, <2>4 DEF PartAt, N
  <2> QED
    BY <2>5, PartsOnce
<1>8. CASE m = n
  <2>1. AgreeFor(u, i, k, n)
    BY <1>5, <1>8, AlikeOn
  <2>2. j + n + 1 \in 1 .. N /\ k + n + 1 \in 1 .. N /\ (i + n # N => i + n + 1 \in 1 .. N) /\ j + m # N
    BY <1>3, <1>4, <1>5, <1>8
  <2>3. i + n = N \/ Order(u[i + n + 1]) < Order(u[k + n + 1])
    BY <1>3, <1>5, <1>8, <2>2
  <2>4. PartAt(u, i, k, n)
    BY <1>5, <1>8, <2>1, <2>3 DEF PartAt, N
  <2> QED
    BY <2>4, PartsOnce
<1> QED
  BY <1>6, <1>7, <1>8

(* The nearer of two suffixes on a side has at least as much in common.    *)
LEMMA NearerBelow ==
  ASSUME NEW u \in Words, NEW i \in Suffixed(u), NEW j \in Suffixed(u), NEW k \in Suffixed(u),
         Before(u, i, j), Before(u, j, k)
  PROVE  CommonPrefix(u, i, k) <= CommonPrefix(u, j, k)
<1> DEFINE N == Len(u)
           c == CommonPrefix(u, i, k)
<1>1. PICK m \in Nat : PartAt(u, j, k, m) /\ m = CommonPrefix(u, j, k)
  BY BeforeParts
<1>2. N \in Nat /\ i \in Nat /\ j \in Nat /\ k \in Nat /\ i < N /\ j < N /\ k < N
  BY Orders DEF Suffixed
<1>3. /\ j + m <= N /\ k + m < N /\ AgreeFor(u, j, k, m)
      /\ j + m = N \/ Order(u[j + m + 1]) < Order(u[k + m + 1])
  BY <1>1 DEF PartAt
<1>4. c \in Nat /\ i + c <= N /\ k + c <= N /\ AgreeFor(u, i, k, c)
  <2>1. CommonRight(u, i, k, c)
    BY <1>2, CommonIs
  <2>2. c \in 0 .. (N - Longer(i, k)) /\ AgreeFor(u, i, k, c)
    BY <2>1, <1>2 DEF CommonRight
  <2> HIDE DEF c, N
  <2> QED
    BY <1>2, <2>2 DEF Longer
<1> HIDE DEF N, c
<1>5. ASSUME c > m PROVE FALSE
  <2>1. AgreeFor(u, k, i, c)
    BY <1>4, AlikeTurned
  <2>2. AgreeFor(u, k, i, m)
    BY <1>4, <1>5, <2>1, AlikeLess
  <2>3. AgreeFor(u, j, i, m)
    BY <1>3, <2>2, AlikeOn
  <2>4. m + 1 \in 1 .. c /\ i + (m + 1) = i + m + 1 /\ k + (m + 1) = k + m + 1 /\ i + m < N
    BY <1>2, <1>4, <1>5
  <2>5. u[i + (m + 1)] = u[k + (m + 1)]
    BY <1>4, <2>4 DEF AgreeFor
  <2>6. PartAt(u, j, i, m)
    BY <1>3, <2>3, <2>4, <2>5 DEF PartAt, N
  <2>7. Before(u, j, i)
    BY <2>6, PartsOnce
  <2> QED
    BY <2>7, BeforeNotAfter
<1> QED
  BY <1>1, <1>4, <1>5 DEF c

LEMMA NearerAbove ==
  ASSUME NEW u \in Words, NEW i \in Suffixed(u), NEW j \in Suffixed(u), NEW k \in Suffixed(u),
         Before(u, k, j), Before(u, j, i)
  PROVE  CommonPrefix(u, i, k) <= CommonPrefix(u, j, k)
<1> DEFINE N == Len(u)
           c == CommonPrefix(u, i, k)
           d == CommonPrefix(u, j, k)
<1>1. PICK m \in Nat : PartAt(u, k, j, m) /\ m = CommonPrefix(u, k, j)
  BY BeforeParts
<1>2. N \in Nat /\ i \in Nat /\ j \in Nat /\ k \in Nat /\ i < N /\ j < N /\ k < N
  BY Orders DEF Suffixed
<1>3. /\ k + m <= N /\ j + m < N /\ AgreeFor(u, k, j, m)
      /\ k + m = N \/ Order(u[k + m + 1]) < Order(u[j + m + 1])
  BY <1>1 DEF PartAt
<1>4. c \in Nat /\ i + c <= N /\ k + c <= N /\ AgreeFor(u, i, k, c)
  <2>1. CommonRight(u, i, k, c)
    BY <1>2, CommonIs
  <2>2. c \in 0 .. (N - Longer(i, k)) /\ AgreeFor(u, i, k, c)
    BY <2>1, <1>2 DEF CommonRight
  <2> HIDE DEF c, N
  <2> QED
    BY <1>2, <2>2 DEF Longer
<1>d. d \in Nat /\ m <= d
  <2>1. CommonRight(u, j, k, d)
    BY <1>2, CommonIs
  <2>2. d \in 0 .. (N - Longer(j, k)) /\ \A n \in 0 .. (N - Longer(j, k)) : AgreeFor(u, j, k, n) <=> n <= d
    BY <2>1 DEF CommonRight
  <2>3. AgreeFor(u, j, k, m)
    BY <1>3, AlikeTurned
  <2> HIDE DEF d, N
  <2>4. m \in 0 .. (N - Longer(j, k))
    BY <1>2, <1>3 DEF Longer
  <2> QED
    BY <2>2, <2>3, <2>4
<1> HIDE DEF N, c, d
<1>5. ASSUME c > m PROVE FALSE
  <2>1. AgreeFor(u, i, k, m)
    BY <1>4, <1>5, AlikeLess
  <2>3. AgreeFor(u, i, j, m)
    BY <1>3, <2>1, AlikeOn
  <2>4. m + 1 \in 1 .. c /\ i + (m + 1) = i + m + 1 /\ k + (m + 1) = k + m + 1 /\ i + m < N /\ k + m # N
    BY <1>2, <1>4, <1>5
  <2>5. u[i + (m + 1)] = u[k + (m + 1)]
    BY <1>4, <2>4 DEF AgreeFor
  <2>o. Order(u[i + m + 1]) < Order(u[j + m + 1])
    BY <1>3, <2>4, <2>5
  <2>n. m \in Nat /\ i + m <= N /\ j + m < N
    BY <1>3, <2>4, <1>2
  <2>6. PartAt(u, i, j, m)
    BY <2>3, <2>n, <2>o DEF PartAt, N
  <2>7. Before(u, i, j)
    BY <2>6, PartsOnce
  <2> QED
    BY <2>7, BeforeNotAfter
<1> QED
  BY <1>4, <1>5, <1>d DEF c, d

LEMMA CommonTurned ==
  ASSUME NEW u, Len(u) \in Nat, NEW i \in 0 .. Len(u), NEW j \in 0 .. Len(u)
  PROVE  CommonPrefix(u, i, j) = CommonPrefix(u, j, i)
<1> DEFINE c == CommonPrefix(u, i, j)
           d == CommonPrefix(u, j, i)
           room == Len(u) - Longer(i, j)
           mirror == Len(u) - Longer(j, i)
<1>1. room = mirror
  BY DEF Longer
<1>2. c \in 0 .. room /\ \A n \in 0 .. room : AgreeFor(u, i, j, n) <=> n <= c
  <2>1. CommonRight(u, i, j, c)
    BY CommonIs
  <2> HIDE DEF c
  <2> QED
    BY <2>1 DEF CommonRight
<1>3. d \in 0 .. mirror /\ \A n \in 0 .. mirror : AgreeFor(u, j, i, n) <=> n <= d
  <2>1. CommonRight(u, j, i, d)
    BY CommonIs
  <2> HIDE DEF d
  <2> QED
    BY <2>1 DEF CommonRight
<1> HIDE DEF c, d, room, mirror
<1>4. AgreeFor(u, i, j, c) /\ AgreeFor(u, j, i, d)
  BY <1>2, <1>3
<1>5. AgreeFor(u, j, i, c) /\ AgreeFor(u, i, j, d)
  BY <1>4, AlikeTurned
<1>6. c <= d /\ d <= c
  BY <1>1, <1>2, <1>3, <1>5
<1> QED
  BY <1>2, <1>3, <1>6 DEF c, d

(* Suffixes that start alike are one symbol later as they are.             *)
LEMMA OneLater ==
  ASSUME NEW u \in Words, NEW i \in Suffixed(u), NEW j \in Suffixed(u), i # j,
         i + 1 \in Suffixed(u), j + 1 \in Suffixed(u), CommonPrefix(u, i, j) > 0
  PROVE  /\ CommonPrefix(u, i + 1, j + 1) = CommonPrefix(u, i, j) - 1
         /\ Before(u, i, j) => Before(u, i + 1, j + 1)
         /\ Before(u, j, i) => Before(u, j + 1, i + 1)
<1> DEFINE N == Len(u)
           c == CommonPrefix(u, i, j)
           p == i + 1
           q == j + 1
           b == c - 1
<1>2. N \in Nat /\ i \in Nat /\ j \in Nat /\ i < N /\ j < N /\ p \in Nat /\ q \in Nat
  BY Orders DEF Suffixed
<1>3. ASSUME NEW x \in Suffixed(u), NEW y \in Suffixed(u), x \in Nat, y \in Nat, NEW m \in Nat,
             PartAt(u, x, y, m), m > 0
      PROVE  PartAt(u, x + 1, y + 1, m - 1)
  <2> DEFINE n == m - 1
  <2>1. n \in Nat /\ m = n + 1
    BY <1>3
  <2> HIDE DEF n
  <2>2. /\ x + m <= N /\ y + m < N /\ AgreeFor(u, x, y, m)
        /\ x + m = N \/ Order(u[x + m + 1]) < Order(u[y + m + 1])
    BY <1>3 DEF PartAt
  <2>3. ASSUME NEW k \in 1 .. n PROVE u[(x + 1) + k] = u[(y + 1) + k]
    <3>1. k + 1 \in 1 .. m /\ x + (k + 1) = (x + 1) + k /\ y + (k + 1) = (y + 1) + k
      BY <1>3, <2>1
    <3>2. u[x + (k + 1)] = u[y + (k + 1)]
      BY <2>2, <3>1 DEF AgreeFor
    <3> QED
      BY <3>1, <3>2
  <2>4. (x + 1) + n = x + m /\ (y + 1) + n = y + m /\ (x + 1) + n + 1 = x + m + 1 /\ (y + 1) + n + 1 = y + m + 1
    BY <1>3, <2>1
  <2>5. PartAt(u, x + 1, y + 1, n)
    BY <2>1, <2>2, <2>3, <2>4 DEF PartAt, AgreeFor, N
  <2> QED
    BY <2>5 DEF n
<1>4. CommonPrefix(u, i, j) = CommonPrefix(u, j, i)
  <2>1. i \in 0 .. Len(u) /\ j \in 0 .. Len(u) /\ Len(u) \in Nat
    BY <1>2
  <2> QED
    BY <2>1, CommonTurned
<1>s. CommonPrefix(u, p, q) = CommonPrefix(u, q, p)
  <2>1. p \in 0 .. Len(u) /\ q \in 0 .. Len(u) /\ Len(u) \in Nat
    BY <1>2 DEF Suffixed
  <2> HIDE DEF p, q
  <2> QED
    BY <2>1, CommonTurned
<1>5. CASE Before(u, i, j)
  <2>1. PICK m \in Nat : PartAt(u, i, j, m) /\ m = c
    BY <1>5, BeforeParts
  <2>2. PartAt(u, i + 1, j + 1, m - 1)
    BY <1>2, <1>3, <2>1
  <2>3. m - 1 \in Nat /\ m - 1 = b
    BY <2>1
  <2> HIDE DEF p, q, b, c
  <2>4. PartAt(u, p, q, b) /\ b \in Nat /\ p \in Suffixed(u) /\ q \in Suffixed(u)
    BY <2>2, <2>3 DEF p, q
  <2>5. Before(u, p, q) /\ CommonPrefix(u, p, q) = b
    BY <2>4, BeforeIs
  <2>6. ~ Before(u, j, i)
    BY <1>5, BeforeNotAfter
  <2> QED
    BY <2>5, <2>6 DEF p, q, b, c
<1>6. CASE Before(u, j, i)
  <2>1. PICK m \in Nat : PartAt(u, j, i, m) /\ m = c
    BY <1>4, <1>6, BeforeParts
  <2>2. PartAt(u, j + 1, i + 1, m - 1)
    BY <1>2, <1>3, <2>1
  <2>3. m - 1 \in Nat /\ m - 1 = b
    BY <2>1
  <2> HIDE DEF p, q, b, c
  <2>4. PartAt(u, q, p, b) /\ b \in Nat /\ p \in Suffixed(u) /\ q \in Suffixed(u)
    BY <2>2, <2>3 DEF p, q
  <2>5. Before(u, q, p) /\ CommonPrefix(u, q, p) = b
    BY <2>4, BeforeIs
  <2>6. ~ Before(u, i, j)
    BY <1>6, BeforeNotAfter
  <2> QED
    BY <1>s, <2>5, <2>6 DEF p, q, b, c
<1> QED
  BY <1>5, <1>6, BeforeOrAfter

RanksRight(u, f) ==
  /\ f \in [Suffixed(u) -> Suffixed(u)]
  /\ \A i, j \in Suffixed(u) : /\ f[i] = f[j] => i = j
                               /\ f[i] < f[j] <=> Before(u, i, j)
LEMMA RanksAre ==
  ASSUME NEW u \in Words
  PROVE  RanksRight(u, Ranks(u))
<1> DEFINE X == Suffixed(u)
           f == Ranks(u)
           Below(i) == {j \in X : Before(u, j, i)}
<1>0. Len(u) \in Nat /\ IsFiniteSet(X) /\ X = 0 .. (Len(u) - 1)
  BY Orders, FS_Interval DEF Suffixed
<1>1. f = [i \in X |-> Cardinality(Below(i))]
  BY DEF Ranks, Suffixed
<1>2. ASSUME NEW i \in X PROVE IsFiniteSet(Below(i)) /\ Cardinality(Below(i)) \in X
  <2>1. Below(i) \subseteq X \ {i}
    <3>1. ~ Before(u, i, i)
      <4>1. ASSUME Before(u, i, i) PROVE FALSE
        <5>1. ~ Before(u, i, i)
          BY <4>1, BeforeNotAfter
        <5> QED
          BY <4>1, <5>1
      <4> QED
        BY <4>1
    <3> QED
      BY <3>1
  <2>2. IsFiniteSet(X \ {i}) /\ Cardinality(X \ {i}) = Cardinality(X) - 1 /\ Cardinality(X) \in Nat
    BY <1>0, FS_RemoveElement, FS_CardinalityType
  <2>3. Cardinality(X) = Len(u)
    <3> DEFINE a == 0
               b == Len(u) - 1
    <3>1. a \in Int /\ b \in Int /\ ~ (a > b) /\ b - a + 1 = Len(u)
      BY <1>0
    <3> HIDE DEF a, b
    <3>2. Cardinality(a .. b) = b - a + 1
      BY <3>1, FS_Interval
    <3> QED
      BY <1>0, <3>1, <3>2 DEF a, b
  <2> DEFINE Y == X \ {i}
             Z == Below(i)
  <2>4. Z \subseteq Y /\ IsFiniteSet(Y)
    BY <2>1, <2>2
  <2> HIDE DEF Y, Z
  <2>5. IsFiniteSet(Z) /\ Cardinality(Z) <= Cardinality(Y)
    BY <2>4, FS_Subset
  <2>6. Cardinality(Z) \in Nat
    BY <2>5, FS_CardinalityType
  <2>7. Cardinality(Z) \in 0 .. (Len(u) - 1)
    BY <1>0, <2>2, <2>3, <2>5, <2>6 DEF Y
  <2> QED
    BY <1>0, <2>5, <2>7 DEF Z
<1>3. ASSUME NEW i \in X, NEW j \in X, Before(u, i, j) PROVE Cardinality(Below(i)) < Cardinality(Below(j))
  <2> DEFINE A == Below(i)
             B == Below(j)
  <2>1. A \subseteq B /\ A # B
    <3>1. \A k \in A : k \in B
      BY <1>3, BeforeOn
    <3>2. i \in B /\ i \notin A
      <4>1. ASSUME Before(u, i, i) PROVE FALSE
        <5>1. ~ Before(u, i, i)
          BY <4>1, BeforeNotAfter
        <5> QED
          BY <4>1, <5>1
      <4> QED
        BY <1>3, <4>1
    <3> QED
      BY <3>1, <3>2
  <2>2. IsFiniteSet(A) /\ IsFiniteSet(B) /\ Cardinality(A) \in Nat /\ Cardinality(B) \in Nat
    BY <1>2, FS_CardinalityType
  <2> HIDE DEF A, B
  <2>3. Cardinality(A) <= Cardinality(B) /\ (Cardinality(A) = Cardinality(B) => A = B)
    BY <2>1, <2>2, FS_Subset
  <2> QED
    BY <2>1, <2>2, <2>3 DEF A, B
<1> HIDE DEF f, Below
<1>4. \A i \in X : f[i] = Cardinality(Below(i)) /\ f[i] \in X /\ f[i] \in Int
  BY <1>0, <1>1, <1>2
<1>5. ASSUME NEW i \in X, NEW j \in X, Before(u, i, j) PROVE f[i] < f[j]
  BY <1>3, <1>4, <1>5
<1>6. ASSUME NEW i \in X, NEW j \in X, i # j PROVE f[i] # f[j] /\ (f[i] < f[j] => Before(u, i, j))
  <2>1. Before(u, i, j) \/ Before(u, j, i)
    BY <1>6, BeforeOrAfter
  <2>2. Before(u, j, i) => f[j] < f[i]
    BY <1>5
  <2> QED
    BY <1>4, <1>5, <2>1, <2>2
<1>7. \A i \in X : ~ (f[i] < f[i])
  BY <1>4
<1>8. f \in [X -> X]
  BY <1>1, <1>2
<1> QED
  BY <1>5, <1>6, <1>7, <1>8 DEF RanksRight, f

(* What a match is by distance, it is by position.                         *)
LEMMA MatchIs ==
  ASSUME NEW u \in Words, NEW x \in Suffixed(u), NEW p \in Suffixed(u), p < x
  PROVE  MatchLen(u, x, x - p) = CommonPrefix(u, p, x)
<1> DEFINE N == Len(u)
           d == x - p
           room == N - x
           m == MatchLen(u, x, d)
           c == CommonPrefix(u, p, x)
<1>0. N \in Nat /\ x \in 0 .. N /\ p \in 0 .. N /\ x < N /\ p \in Nat /\ x \in Nat
  BY Orders DEF Suffixed
<1>1. m \in 0 .. room /\ \A n \in 0 .. room : Same(u, x, d, n) <=> n <= m
  <2> HIDE DEF d
  <2> QED
    BY <1>0, MatchLenIs
<1>2. c \in 0 .. room /\ \A n \in 0 .. room : AgreeFor(u, p, x, n) <=> n <= c
  <2>1. CommonRight(u, p, x, c)
    BY <1>0, CommonIs
  <2>2. Longer(p, x) = x
    BY <1>0 DEF Longer
  <2> HIDE DEF c
  <2> QED
    BY <2>1, <2>2 DEF CommonRight
<1>3. ASSUME NEW n \in 0 .. room PROVE Same(u, x, d, n) <=> AgreeFor(u, p, x, n)
  <2>1. \A j \in 1 .. n : (x + j) - d = p + j
    BY <1>0
  <2>2. \A j \in 1 .. n : x + j - d = p + j
    BY <1>0
  <2> QED
    BY <2>1, <2>2 DEF Same, AgreeFor
<1> HIDE DEF m, c, d, room
<1>4. m <= c /\ c <= m
  BY <1>1, <1>2, <1>3
<1> QED
  BY <1>1, <1>2, <1>4 DEF m, c, d

(* A match known in part is found whole from there on.                     *)
LEMMA Extends ==
  ASSUME NEW u \in Words, NEW x \in Suffixed(u), NEW p \in Suffixed(u), p < x,
         NEW n \in Nat, n <= CommonPrefix(u, p, x)
  PROVE  n + CommonPrefix(u, p + n, x + n) = CommonPrefix(u, p, x)
<1> DEFINE N == Len(u)
           c == CommonPrefix(u, p, x)
           y == x + n
           q == p + n
           e == CommonPrefix(u, q, y)
<1>0. N \in Nat /\ x \in 0 .. N /\ p \in 0 .. N /\ x < N /\ p \in Nat /\ x \in Nat
  BY Orders DEF Suffixed
<1>1. c \in 0 .. (N - x) /\ \A k \in 0 .. (N - x) : AgreeFor(u, p, x, k) <=> k <= c
  <2>1. CommonRight(u, p, x, c)
    BY <1>0, CommonIs
  <2>2. Longer(p, x) = x
    BY <1>0 DEF Longer
  <2> HIDE DEF c
  <2> QED
    BY <2>1, <2>2 DEF CommonRight
<1>2. y \in 0 .. N /\ q \in 0 .. N /\ Longer(q, y) = y /\ n <= c
  <2>1. y \in 0 .. N /\ q \in 0 .. N /\ n <= c
    <3> HIDE DEF c, N
    <3> QED
      BY <1>0, <1>1 DEF c
  <2> QED
    BY <2>1, <1>0 DEF Longer
<1>3. e \in 0 .. (N - y) /\ \A k \in 0 .. (N - y) : AgreeFor(u, q, y, k) <=> k <= e
  <2> HIDE DEF q, y
  <2>1. CommonRight(u, q, y, e)
    BY <1>0, <1>2, CommonIs
  <2> HIDE DEF e
  <2> QED
    BY <1>2, <2>1 DEF CommonRight
<1> HIDE DEF c, e, N
<1>4. AgreeFor(u, p, x, n) /\ AgreeFor(u, p, x, c) /\ AgreeFor(u, q, y, e)
  BY <1>0, <1>1, <1>2, <1>3
<1>5. AgreeFor(u, p, x, n + e)
  <2>1. ASSUME NEW k \in 1 .. (n + e) PROVE u[p + k] = u[x + k]
    <3>1. CASE k <= n
      BY <1>4, <3>1 DEF AgreeFor
    <3>2. CASE k > n
      <4>1. k - n \in 1 .. e /\ q + (k - n) = p + k /\ y + (k - n) = x + k
        BY <1>0, <1>3, <3>2
      <4> HIDE DEF q, y
      <4> QED
        BY <1>4, <4>1 DEF AgreeFor
    <3> QED
      BY <1>3, <3>1, <3>2
  <2> QED
    BY <2>1 DEF AgreeFor
<1>6. n + e <= c
  <2>1. n + e \in 0 .. (N - x)
    BY <1>0, <1>3
  <2> QED
    BY <1>1, <1>5, <2>1
<1>7. AgreeFor(u, q, y, c - n)
  <2>1. ASSUME NEW k \in 1 .. (c - n) PROVE u[q + k] = u[y + k]
    <3>1. n + k \in 1 .. c /\ q + k = p + (n + k) /\ y + k = x + (n + k)
      BY <1>0, <1>1, <1>2
    <3> QED
      BY <1>4, <3>1 DEF AgreeFor
  <2> QED
    BY <2>1 DEF AgreeFor
<1>8. c - n <= e
  <2>1. c - n \in 0 .. (N - y)
    BY <1>0, <1>1, <1>2
  <2> HIDE DEF q, y
  <2> QED
    BY <1>3, <1>7, <2>1
<1>9. n + e = c
  BY <1>1, <1>3, <1>6, <1>8
<1> QED
  BY <1>9 DEF c, e

(* The same by rank.                                                       *)
LEMMA RankedNearer ==
  ASSUME NEW u \in Words, NEW f, RanksRight(u, f),
         NEW q \in Suffixed(u), NEW p \in Suffixed(u), NEW x \in Suffixed(u)
  PROVE  /\ f[q] <= f[p] /\ f[p] < f[x] => CommonPrefix(u, q, x) <= CommonPrefix(u, p, x)
         /\ f[x] < f[p] /\ f[p] <= f[q] => CommonPrefix(u, q, x) <= CommonPrefix(u, p, x)
<1>1. /\ f[q] \in Int /\ f[p] \in Int /\ f[x] \in Int
      /\ f[q] = f[p] => q = p
      /\ f[q] < f[p] => Before(u, q, p)
      /\ f[p] < f[q] => Before(u, p, q)
      /\ f[p] < f[x] => Before(u, p, x)
      /\ f[x] < f[p] => Before(u, x, p)
  <2>1. f[q] \in Suffixed(u) /\ f[p] \in Suffixed(u) /\ f[x] \in Suffixed(u)
    BY DEF RanksRight
  <2>2. f[q] \in Int /\ f[p] \in Int /\ f[x] \in Int
    BY <2>1, Orders DEF Suffixed
  <2>3. /\ f[q] = f[p] => q = p
        /\ f[q] < f[p] => Before(u, q, p)
        /\ f[p] < f[q] => Before(u, p, q)
        /\ f[p] < f[x] => Before(u, p, x)
        /\ f[x] < f[p] => Before(u, x, p)
    BY DEF RanksRight
  <2> QED
    BY <2>2, <2>3
<1>0. CommonPrefix(u, p, x) \in Int
  <2> DEFINE c == CommonPrefix(u, p, x)
  <2>0. Len(u) \in Nat /\ p \in 0 .. Len(u) /\ x \in 0 .. Len(u)
    BY Orders DEF Suffixed
  <2>1. CommonRight(u, p, x, c)
    BY <2>0, CommonIs
  <2> HIDE DEF c
  <2>2. c \in Int
    BY <2>1 DEF CommonRight
  <2> QED
    BY <2>2 DEF c
<1>2. ASSUME f[q] <= f[p], f[p] < f[x] PROVE CommonPrefix(u, q, x) <= CommonPrefix(u, p, x)
  <2>1. CASE f[q] = f[p]
    BY <1>0, <1>1, <2>1
  <2>2. CASE f[q] < f[p]
    BY <1>1, <1>2, <2>2, NearerBelow
  <2> QED
    BY <1>1, <1>2, <2>1, <2>2
<1>3. ASSUME f[x] < f[p], f[p] <= f[q] PROVE CommonPrefix(u, q, x) <= CommonPrefix(u, p, x)
  <2>1. CASE f[q] = f[p]
    BY <1>0, <1>1, <2>1
  <2>2. CASE f[p] < f[q]
    BY <1>1, <1>3, <2>2, NearerAbove
  <2> QED
    BY <1>1, <1>3, <2>1, <2>2
<1> QED
  BY <1>2, <1>3

LEMMA RankedLater ==
  ASSUME NEW u \in Words, NEW f, RanksRight(u, f), NEW p \in Suffixed(u), NEW x \in Suffixed(u), p # x,
         p + 1 \in Suffixed(u), x + 1 \in Suffixed(u), CommonPrefix(u, p, x) > 0
  PROVE  /\ CommonPrefix(u, p + 1, x + 1) = CommonPrefix(u, p, x) - 1
         /\ f[p] < f[x] => f[p + 1] < f[x + 1]
         /\ f[x] < f[p] => f[x + 1] < f[p + 1]
<1>1. /\ CommonPrefix(u, p + 1, x + 1) = CommonPrefix(u, p, x) - 1
      /\ Before(u, p, x) => Before(u, p + 1, x + 1)
      /\ Before(u, x, p) => Before(u, x + 1, p + 1)
  BY OneLater
<1> DEFINE q == p + 1
           y == x + 1
<1> HIDE DEF q, y
<1>2. q \in Suffixed(u) /\ y \in Suffixed(u)
  BY DEF q, y
<1>3. /\ f[q] < f[y] <=> Before(u, q, y)
      /\ f[y] < f[q] <=> Before(u, y, q)
      /\ f[p] < f[x] <=> Before(u, p, x)
      /\ f[x] < f[p] <=> Before(u, x, p)
  BY <1>2 DEF RanksRight
<1> QED
  BY <1>1, <1>3 DEF q, y

-------------------------------------------------------------------------------
(* Climbing.                                                               *)
MeshEdge == [d : Nat, ell : Nat, cost_id : Nat]
MeshType == [dst_idx : Nat, len_idx : Nat, cur : Nat, prev : Nat, id : Nat,
             maxlen : Nat, edges : Seq(MeshEdge), stopped : BOOLEAN]

(* The lengths from just past prev up to cur, one for each class on the    *)
(* way: each is the longest of its class that cur reaches.                 *)
EndsOf(ends, a, prev, cur) ==
  /\ ends \in Seq((prev + 1) .. cur) /\ Len(ends) > 0 /\ ends[Len(ends)] = cur
  /\ Len(ends) <= (LowerBound(Lens, cur + 1) - a) + 1
  /\ \A q \in 1 .. Len(ends) : LowerBound(Lens, ends[q]) = a + q - 1
  /\ \A ell \in (prev + 1) .. cur :
       \E q \in 1 .. Len(ends) : ell <= ends[q] /\ LowerBound(Lens, ends[q]) = LowerBound(Lens, ell)

Climbed(m, d, c) ==
  \E ends :
    /\ EndsOf(ends, m.len_idx, m.prev, m.cur)
    /\ c = [m EXCEPT !.len_idx = LowerBound(Lens, m.cur + 1),
                     !.id = m.id + (LowerBound(Lens, m.cur + 1) - m.len_idx), !.prev = m.cur,
                     !.edges = m.edges \o [k \in 1 .. Len(ends) |->
                                             [d |-> d, ell |-> ends[k], cost_id |-> m.id + k - 1]]]

LEMMA ClimbIs ==
  ASSUME NEW m \in MeshType, NEW d, m.prev < m.cur, m.cur <= Last(Lens),
         m.len_idx = LowerBound(Lens, m.prev + 1)
  PROVE  Climbed(m, d, Climb(m, d))
<1> DEFINE N == Len(Lens)
           a == m.len_idx
           x == m.cur
           p == m.prev
           b == LowerBound(Lens, x + 1)
           done == {k \in (a + 1) .. N : Lens[k] <= x}
           n == Cardinality(done)
           top == IF x \in {Lens[k] : k \in done} THEN <<>> ELSE <<x>>
           ends == [k \in 1 .. n |-> Lens[a + k]] \o top
<1>1. /\ N \in Nat \ {0} /\ x \in Nat /\ p \in Nat /\ p < x /\ a \in Nat
      /\ \A k \in 1 .. N : Lens[k] \in Nat \ {0}
      /\ \A k, q \in 1 .. N : k < q => Lens[k] < Lens[q]
  BY ClassesAssumption, ClassesIncrease DEF MeshType
<1>2. /\ a \in 0 .. N /\ \A k \in 1 .. N : Lens[k] <= p <=> k <= a
      /\ b \in 0 .. N /\ \A k \in 1 .. N : Lens[k] <= x <=> k <= b
  BY <1>1, ClassesAssumption, EndedBy
<1>3. x <= Lens[N]
  BY DEF Last
<1>4. Climb(m, d) = [m EXCEPT !.len_idx = @ + n, !.id = @ + n, !.prev = m.cur,
                              !.edges = @ \o [k \in DOMAIN ends |->
                                                [d |-> d, ell |-> ends[k], cost_id |-> m.id + k - 1]]]
  <2>1. ~ (m.prev >= m.cur)
    BY <1>1
  <2> QED
    BY <2>1 DEF Climb
<1>a. b = LowerBound(Lens, m.cur + 1) /\ a = m.len_idx /\ x = m.cur /\ p = m.prev
  OBVIOUS
<1> HIDE DEF a, x, p, b, N
<1>5. a <= b
  <2>1. CASE a = 0
    BY <2>1, <1>2
  <2>2. CASE a # 0
    <3>1. a \in 1 .. N /\ Lens[a] <= p
      BY <2>2, <1>2
    <3> QED
      BY <3>1, <1>1, <1>2
  <2> QED
    BY <2>1, <2>2
<1>6. done = (a + 1) .. b
  BY <1>1, <1>2
<1>7. n = b - a
  <2>1. a + 1 \in Int /\ b \in Int /\ a \in Int
    BY <1>1, <1>2
  <2>2. n = IF a + 1 > b THEN 0 ELSE b - (a + 1) + 1
    BY <2>1, <1>6, FS_Interval
  <2> HIDE DEF n
  <2> QED
    BY <2>1, <2>2, <1>5
<1>8. x \in {Lens[k] : k \in done} <=> (b > a /\ Lens[b] = x)
  <2>1. ASSUME NEW k \in done, Lens[k] = x PROVE b > a /\ Lens[b] = x
    <3>1. k \in 1 .. N /\ b \in 1 .. N /\ k <= b /\ b > a
      BY <1>2, <1>6
    <3>2. Lens[b] <= x /\ (k < b => Lens[k] < Lens[b])
      BY <3>1, <1>1, <1>2
    <3> QED
      BY <3>1, <3>2, <2>1, <1>1
  <2>2. ASSUME b > a PROVE b \in done
    BY <2>2, <1>2, <1>6
  <2> QED
    BY <2>1, <2>2
<1> HIDE DEF done, n
<1>9. /\ top = (IF b > a /\ Lens[b] = x THEN <<>> ELSE <<x>>)
      /\ ends = [k \in 1 .. (b - a) |-> Lens[a + k]] \o top
  BY <1>7, <1>8
<1> HIDE DEF top, ends
<1> DEFINE size == IF b > a /\ Lens[b] = x THEN b - a ELSE b - a + 1
<1>10. /\ ends \in Seq(Nat) /\ Len(ends) = size /\ size \in Nat
       /\ \A q \in 1 .. size : ends[q] = IF q <= b - a THEN Lens[a + q] ELSE x
  <2> DEFINE full == [k \in 1 .. (b - a) |-> Lens[a + k]]
  <2>1. b - a \in Nat /\ a \in Int /\ b \in Int
    BY <1>2, <1>5, <1>1
  <2>2. full \in Seq(Nat) /\ Len(full) = b - a
    <3>1. \A k \in 1 .. (b - a) : a + k \in 1 .. N
      BY <2>1, <1>1, <1>2
    <3> QED
      BY <2>1, <3>1, <1>1
  <2>3. \A k \in 1 .. (b - a) : full[k] = Lens[a + k]
    OBVIOUS
  <2> HIDE DEF full
  <2>4. CASE b > a /\ Lens[b] = x
    <3>1. ends = full
      BY <2>2, <2>4, <1>9, ConcatEmptySeq DEF full
    <3> QED
      BY <2>1, <2>2, <2>3, <2>4, <3>1
  <2>5. CASE ~ (b > a /\ Lens[b] = x)
    <3>1. top = <<x>> /\ ends = full \o <<x>>
      BY <2>5, <1>9 DEF full
    <3>2. <<x>> \in Seq(Nat) /\ Len(<<x>>) = 1 /\ <<x>>[1] = x
      BY <1>1
    <3>3. /\ ends \in Seq(Nat) /\ Len(ends) = b - a + 1
          /\ \A q \in 1 .. (b - a + 1) : ends[q] = IF q <= b - a THEN full[q] ELSE x
      BY <2>1, <2>2, <3>1, <3>2
    <3> QED
      BY <2>1, <2>3, <2>5, <3>3
  <2> QED
    BY <2>4, <2>5
<1> DEFINE at(q) == IF q <= b - a THEN Lens[a + q] ELSE x
<1>11. ASSUME NEW q \in 1 .. (b - a)
       PROVE  Lens[a + q] \in (p + 1) .. x /\ LowerBound(Lens, Lens[a + q]) = a + q - 1
  <2> DEFINE k == a + q
  <2>1. k \in 1 .. N /\ k > a /\ k <= b /\ a \in Int /\ b \in Int
    BY <1>1, <1>2
  <2> HIDE DEF k
  <2>2. Lens[k] \in Nat /\ p < Lens[k] /\ Lens[k] <= x
    BY <2>1, <1>1, <1>2
  <2>3. k > 1 => Lens[k - 1] < Lens[k]
    <3>1. SUFFICES ASSUME k > 1 PROVE Lens[k - 1] < Lens[k]
      OBVIOUS
    <3>2. k - 1 \in 1 .. N /\ k - 1 < k
      BY <2>1, <3>1, <1>1
    <3> QED
      BY <2>1, <3>2, <1>1
  <2>4. LowerBound(Lens, Lens[k]) = k - 1
    <3> DEFINE y == Lens[k]
    <3>1. y \in Nat /\ y <= Lens[k] /\ (k > 1 => Lens[k - 1] < y)
      BY <2>2, <2>3
    <3> HIDE DEF y
    <3>2. LowerBound(Lens, y) = k - 1
      BY <2>1, <3>1, ClassesAssumption, ClassFound DEF N
    <3> QED
      BY <3>2 DEF y
  <2> QED
    BY <2>1, <2>2, <2>4, <1>1 DEF k
<1>12. LowerBound(Lens, x) = IF b > a /\ Lens[b] = x THEN b - 1 ELSE b
  <2>1. CASE b > a /\ Lens[b] = x
    <3> DEFINE q == b - a
    <3>1. q \in 1 .. (b - a) /\ a + q = b /\ a + q - 1 = b - 1
      BY <2>1, <1>1, <1>2
    <3> HIDE DEF q
    <3>2. LowerBound(Lens, Lens[a + q]) = a + q - 1
      BY <3>1, <1>11
    <3>3. LowerBound(Lens, Lens[b]) = b - 1
      BY <3>1, <3>2
    <3>4. LowerBound(Lens, x) = b - 1
      BY <2>1, <3>3
    <3> QED
      BY <2>1, <3>4
  <2>2. CASE ~ (b > a /\ Lens[b] = x)
    <3>1. N \in 1 .. N /\ Lens[N] \in Nat
      BY <1>1
    <3>2. b # 0 => Lens[b] < x
      <4>1. SUFFICES ASSUME b # 0 PROVE Lens[b] < x
        OBVIOUS
      <4>2. b \in 1 .. N /\ Lens[b] \in Nat /\ Lens[b] <= x
        BY <4>1, <1>1, <1>2
      <4>3. CASE b > a
        BY <4>2, <4>3, <2>2, <1>1
      <4>4. CASE b = a
        BY <4>2, <4>4, <1>1, <1>2
      <4> QED
        BY <4>3, <4>4, <1>1, <1>2, <1>5
    <3>3. b + 1 \in 1 .. N
      <4>1. b # N
        BY <3>1, <3>2, <1>1, <1>3
      <4> QED
        BY <4>1, <1>1, <1>2
    <3>4. x <= Lens[b + 1]
      BY <3>3, <1>1, <1>2
    <3>5. b + 1 > 1 => Lens[(b + 1) - 1] < x
      BY <3>2, <1>1, <1>2
    <3>6. LowerBound(Lens, x) = (b + 1) - 1
      <4> DEFINE k == b + 1
      <4>1. k \in 1 .. N /\ x <= Lens[k] /\ (k > 1 => Lens[k - 1] < x)
        BY <3>3, <3>4, <3>5
      <4> HIDE DEF k
      <4>2. LowerBound(Lens, x) = k - 1
        BY <4>1, <1>1, ClassesAssumption, ClassFound DEF N
      <4> QED
        BY <4>2 DEF k
    <3> QED
      BY <2>2, <3>6, <1>1, <1>2
  <2> QED
    BY <2>1, <2>2
<1>13. ASSUME NEW q \in 1 .. size
       PROVE  ends[q] \in (p + 1) .. x /\ LowerBound(Lens, ends[q]) = a + q - 1
  <2>1. CASE q <= b - a
    <3>1. q \in 1 .. (b - a) /\ ends[q] = Lens[a + q]
      BY <2>1, <1>10
    <3> QED
      BY <3>1, <1>11
  <2>2. CASE ~ (q <= b - a)
    <3>1. ~ (b > a /\ Lens[b] = x) /\ q = b - a + 1 /\ ends[q] = x
      BY <2>2, <1>1, <1>2, <1>10
    <3> QED
      BY <3>1, <1>1, <1>2, <1>12
  <2> QED
    BY <2>1, <2>2
<1>14. size \in 1 .. (b - a + 1) /\ ends[size] = x
  BY <1>1, <1>2, <1>5, <1>10
<1>15. ASSUME NEW ell \in (p + 1) .. x
       PROVE  \E q \in 1 .. size : ell <= ends[q] /\ LowerBound(Lens, ends[q]) = LowerBound(Lens, ell)
  <2> DEFINE g == LowerBound(Lens, ell)
             q == g - a + 1
  <2>1. ell \in Nat /\ p < ell /\ ell <= x
    BY <1>1
  <2>2. g \in 0 .. N /\ \A k \in 1 .. N : Lens[k] < ell <=> k <= g
    BY <2>1, ClassesAssumption, LowerBoundIs DEF N
  <2>3. g <= LowerBound(Lens, x)
    BY <2>1, <1>1, ClassesAssumption, ClassesGrow
  <2> HIDE DEF g
  <2>4. a <= g
    <3>1. CASE a = 0
      BY <3>1, <2>2
    <3>2. CASE a # 0
      <4>1. a \in 1 .. N /\ Lens[a] <= p /\ Lens[a] \in Nat
        BY <3>2, <1>1, <1>2
      <4>2. Lens[a] < ell
        BY <4>1, <2>1, <1>1
      <4> QED
        BY <4>1, <4>2, <2>2
    <3> QED
      BY <3>1, <3>2
  <2>5. q \in 1 .. size
    BY <2>2, <2>3, <2>4, <1>1, <1>2, <1>12
  <2>6. LowerBound(Lens, ends[q]) = g
    <3>1. a + q - 1 = g
      BY <2>2, <1>1
    <3> QED
      BY <2>5, <3>1, <1>13
  <2>7. ell <= ends[q]
    <3>1. ends[q] \in Nat
      BY <2>5, <1>13, <1>1
    <3>2. SUFFICES ASSUME ends[q] < ell PROVE FALSE
      BY <3>1, <2>1
    <3>3. CASE g = N
      <4>1. N \in 1 .. N /\ Lens[N] \in Nat /\ Lens[N] < ell
        BY <3>3, <2>2, <1>1
      <4> QED
        BY <4>1, <2>1, <1>1, <1>3
    <3>4. CASE g # N
      <4>1. g + 1 \in 1 .. N /\ ~ (Lens[g + 1] < ell) /\ Lens[g + 1] \in Nat
        BY <3>4, <2>2, <1>1
      <4>2. ends[q] = Lens[a + q] \/ ends[q] = x
        BY <2>5, <1>10
      <4>3. a + q = g + 1
        BY <2>2, <1>1
      <4> QED
        BY <3>2, <4>1, <4>2, <4>3, <2>1, <1>1
    <3> QED
      BY <3>3, <3>4
  <2> HIDE DEF q
  <2> QED
    BY <2>5, <2>6, <2>7 DEF g
<1>16. EndsOf(ends, a, p, x)
  <2>1. ends \in Seq((p + 1) .. x)
    <3> HIDE DEF size
    <3>1. \A q \in 1 .. Len(ends) : ends[q] \in (p + 1) .. x
      BY <1>10, <1>13
    <3> QED
      BY <3>1, <1>10, Narrowed
  <2>2. Len(ends) > 0 /\ ends[Len(ends)] = x /\ Len(ends) <= (b - a) + 1
    BY <1>10, <1>14, <1>1, <1>2
  <2> HIDE DEF size
  <2> QED
    BY <2>1, <2>2, <1>10, <1>13, <1>15 DEF EndsOf, b
<1>17. /\ DOMAIN ends = 1 .. Len(ends) /\ m.len_idx + n = b /\ m.id + n = m.id + (b - m.len_idx)
  <2>1. DOMAIN ends = 1 .. Len(ends)
    BY <1>10, LenProperties
  <2>2. m.id \in Nat /\ m.len_idx \in Nat /\ b \in Nat
    BY <1>2 DEF MeshType
  <2>3. n = b - m.len_idx
    BY <1>7, <1>a
  <2> QED
    BY <2>1, <2>2, <2>3
<1>18. Climb(m, d) = [m EXCEPT !.len_idx = b, !.id = m.id + (b - m.len_idx), !.prev = m.cur,
                               !.edges = m.edges \o [k \in 1 .. Len(ends) |->
                                           [d |-> d, ell |-> ends[k], cost_id |-> m.id + k - 1]]]
  BY <1>4, <1>17 DEF n, done, top, ends, N, a, x, b
<1> QED
  BY <1>16, <1>18, <1>a DEF Climbed

-------------------------------------------------------------------------------
(* The mesh after the first n levels at position i.                        *)
Capped(x) == IF x <= Last(Lens) THEN x ELSE Last(Lens)

(* Any length up to x is no longer than an edge of its class of lengths,   *)
(* at a distance of the first k classes.                                   *)
Covers(es, k, x) ==
  \A ell \in 1 .. x : \E q \in 1 .. Len(es) :
    /\ ell <= es[q].ell /\ LowerBound(Lens, es[q].ell) = LowerBound(Lens, ell)
    /\ LowerBound(Dst, es[q].d) < k
CoversClass(es, text, i, k) ==
  \A d \in ClassOf(k) \cap 1 .. i : Covers(es, k, Capped(MatchLen(text, i, d)))
GoodEdge(text, i, e) == IsCopy(text, i, e) /\ e.cost_id = GetId(e.d, e.ell)
Rising(es) == \A q \in 2 .. Len(es) : es[q - 1].ell < es[q].ell
EdgesOK(text, i, n, es, cur) ==
  /\ Len(es) <= n + LowerBound(Lens, cur + 1)
  /\ \A q \in 1 .. Len(es) : GoodEdge(text, i, es[q]) /\ es[q].ell <= cur
  /\ Rising(es)
  /\ Covers(es, n, cur)
  /\ \A k \in 1 .. n : CoversClass(es, text, i, k)
Standing(m) == /\ m.cur = Capped(m.maxlen) /\ m.prev = m.cur
               /\ m.len_idx = LowerBound(Lens, m.cur + 1)
MeshOK(text, i, n, m) ==
  /\ m \in MeshType
  /\ Standing(m)
  /\ m.stopped <=> m.maxlen >= Last(Lens)
  /\ ~ m.stopped => m.dst_idx = n /\ (n < Len(Dst) => m.id = Wrap(m.len_idx, n))
  /\ EdgesOK(text, i, n, m.edges, m.cur)

LEMMA LastLen == Last(Lens) \in Nat \ {0} /\ Len(Lens) \in Nat \ {0} /\ Last(Lens) = Lens[Len(Lens)]
<1>1. Len(Lens) \in Nat \ {0} /\ \A k \in 1 .. Len(Lens) : Lens[k] \in Nat \ {0}
  BY ClassesAssumption, ClassesIncrease
<1>2. Len(Lens) \in 1 .. Len(Lens)
  BY <1>1
<1> QED
  BY <1>1, <1>2 DEF Last

LEMMA MeshStart ==
  ASSUME NEW text, NEW i
  PROVE  MeshOK(text, i, 0, Reset)
<1>1. Reset \in MeshType
  BY DEF Reset, MeshType
<1>2. LowerBound(Lens, 0 + 1) = 0
  <2>1. LowerBound(Lens, 0 + 1) \in 0 .. Len(Lens)
        /\ \A k \in 1 .. Len(Lens) : Lens[k] <= 0 <=> k <= LowerBound(Lens, 0 + 1)
    BY ClassesAssumption, EndedBy
  <2>2. 1 \in 1 .. Len(Lens) /\ Lens[1] \in Nat \ {0}
    BY LastLen, ClassesAssumption, ClassesIncrease
  <2>3. ~ (1 <= LowerBound(Lens, 0 + 1))
    BY <2>1, <2>2
  <2> QED
    BY <2>1, <2>3, LastLen
<1>3. Wrap(0, 0) = 0
  <2>1. Width(Len(Lens)) \in Nat
    BY LastLen, WidthSuffices
  <2> QED
    BY <2>1, WrapIs
<1>4. Capped(0) = 0 /\ ~ (0 >= Last(Lens))
  BY LastLen DEF Capped
<1>5. Standing(Reset)
  BY <1>2, <1>4 DEF Standing, Reset
<1>6. EdgesOK(text, i, 0, <<>>, 0)
  BY <1>2 DEF EdgesOK, Rising, Covers
<1>7. /\ Reset.stopped = FALSE /\ Reset.maxlen = 0 /\ Reset.dst_idx = 0 /\ Reset.id = 0
      /\ Reset.len_idx = 0 /\ Reset.edges = <<>> /\ Reset.cur = 0
  BY DEF Reset
<1> QED
  BY <1>1, <1>3, <1>4, <1>5, <1>6, <1>7 DEF MeshOK

LEMMA RightIs ==
  ASSUME NEW m \in MeshType, m.len_idx = LowerBound(Lens, m.cur + 1)
  PROVE  Right(m) = IF m.dst_idx + 1 >= Len(Dst) THEN [m EXCEPT !.dst_idx = m.dst_idx + 1]
                    ELSE [m EXCEPT !.dst_idx = m.dst_idx + 1, !.id = Wrap(m.len_idx, m.dst_idx + 1)]
<1>1. m.cur \in Nat
  BY DEF MeshType
<1>2. m.len_idx \in 0 .. Len(Lens) /\ \A k \in 1 .. Len(Lens) : Lens[k] <= m.cur <=> k <= m.len_idx
  BY <1>1, ClassesAssumption, EndedBy
<1>3. ~ (m.len_idx < Len(Lens) /\ m.cur = Lens[m.len_idx + 1])
  <2>1. SUFFICES ASSUME m.len_idx < Len(Lens), m.cur = Lens[m.len_idx + 1] PROVE FALSE
    OBVIOUS
  <2>2. m.len_idx + 1 \in 1 .. Len(Lens)
    BY <1>2, <2>1, LastLen
  <2>3. Lens[m.len_idx + 1] <= m.cur
    BY <1>1, <2>1
  <2> QED
    BY <1>2, <2>2, <2>3
<1>4. [m EXCEPT !.dst_idx = m.dst_idx + 1, !.len_idx = m.len_idx, !.id = Wrap(m.len_idx, m.dst_idx + 1)]
      = [m EXCEPT !.dst_idx = m.dst_idx + 1, !.id = Wrap(m.len_idx, m.dst_idx + 1)]
  BY DEF MeshType
<1> QED
  BY <1>3, <1>4 DEF Right

(* Edges found before go on covering when others are put behind them.      *)
LEMMA CoversStay ==
  ASSUME NEW es, NEW more, NEW k \in Int, NEW n \in Int, k <= n, NEW x,
         Len(es) \in Nat, Len(es) <= Len(more), Len(more) \in Nat,
         \A q \in 1 .. Len(es) : more[q] = es[q] /\ LowerBound(Dst, es[q].d) \in Int,
         Covers(es, k, x)
  PROVE  Covers(more, n, x)
<1> SUFFICES ASSUME NEW ell \in 1 .. x
             PROVE  \E q \in 1 .. Len(more) :
                      /\ ell <= more[q].ell /\ LowerBound(Lens, more[q].ell) = LowerBound(Lens, ell)
                      /\ LowerBound(Dst, more[q].d) < n
  BY DEF Covers
<1>1. PICK q \in 1 .. Len(es) : /\ ell <= es[q].ell /\ LowerBound(Lens, es[q].ell) = LowerBound(Lens, ell)
                               /\ LowerBound(Dst, es[q].d) < k
  BY DEF Covers
<1>2. q \in 1 .. Len(more) /\ more[q] = es[q] /\ LowerBound(Dst, es[q].d) < n
  BY <1>1
<1> QED
  BY <1>1, <1>2

LEMMA CoversLess ==
  ASSUME NEW es, NEW k, NEW x \in Nat, NEW y \in Nat, y <= x, Covers(es, k, x)
  PROVE  Covers(es, k, y)
<1>1. \A ell \in 1 .. y : ell \in 1 .. x
  OBVIOUS
<1> QED
  BY <1>1 DEF Covers

(* A copy has classes, and so has each edge.                               *)
LEMMA CopyClasses ==
  ASSUME NEW text, Len(text) \in Nat, NEW i \in 0 .. Len(text), NEW e, IsCopy(text, i, e)
  PROVE  /\ e.d \in Nat \ {0} /\ e.d <= i /\ e.ell \in Nat \ {0} /\ i + e.ell <= Len(text)
         /\ LowerBound(Dst, e.d) \in 0 .. (Len(Dst) - 1)
         /\ LowerBound(Lens, e.ell) \in 0 .. (Len(Lens) - 1)
<1>1. MatchLen(text, i, e.d) \in 0 .. (Len(text) - i)
  BY MatchLenIs
<1>2. e.d \in 1 .. i /\ e.d <= Last(Dst) /\ e.ell \in 1 .. MatchLen(text, i, e.d) /\ e.ell <= Last(Lens)
  BY DEF IsCopy
<1>3. e.d \in Nat \ {0} /\ e.d <= i /\ e.ell \in Nat \ {0} /\ i + e.ell <= Len(text)
  BY <1>1, <1>2
<1>4. Len(Dst) \in Nat /\ Len(Lens) \in Nat
  BY ClassesAssumption, ClassesIncrease
<1>5. LowerBound(Dst, e.d) \in 0 .. Len(Dst) /\ LowerBound(Dst, e.d) < Len(Dst)
  BY <1>2, <1>3, ClassesAssumption, LowerBoundIs
<1>6. LowerBound(Lens, e.ell) \in 0 .. Len(Lens) /\ LowerBound(Lens, e.ell) < Len(Lens)
  BY <1>2, <1>3, ClassesAssumption, LowerBoundIs
<1> QED
  BY <1>3, <1>4, <1>5, <1>6

(* What a level's match is: the longest one at a distance of the class     *)
(* that stays inside the text, or of length 0 when there is none.          *)
LongestOf(text, i, k, match) ==
  /\ match.ell \in Nat
  /\ \A d \in ClassOf(k) \cap 1 .. i : MatchLen(text, i, d) <= match.ell
  /\ match.ell > 0 => match.d \in ClassOf(k) \cap 1 .. i /\ match.ell = MatchLen(text, i, match.d)

(* A level that climbs puts in edges for the lengths it adds.              *)
LEMMA ClimbedEdges ==
  ASSUME NEW text, Len(text) \in Nat, NEW i \in 0 .. Len(text), NEW n \in 0 .. (Len(Dst) - 1),
         NEW m \in MeshType, NEW match, NEW c,
         LongestOf(text, i, n + 1, match), match.ell > 0, m.prev < m.cur, m.cur = Capped(match.ell), m.len_idx = LowerBound(Lens, m.prev + 1),
         m.id = Wrap(m.len_idx, n), EdgesOK(text, i, n, m.edges, m.prev),
         Climbed(m, match.d, c)
  PROVE  /\ c \in MeshType /\ c.prev = m.cur /\ c.len_idx = LowerBound(Lens, m.cur + 1)
         /\ c.cur = m.cur /\ c.dst_idx = m.dst_idx /\ c.maxlen = m.maxlen /\ c.stopped = m.stopped
         /\ EdgesOK(text, i, n + 1, c.edges, m.cur)
<1> DEFINE es == m.edges
           d == match.d
           x == m.cur
           p == m.prev
           a == m.len_idx
           b == LowerBound(Lens, x + 1)
<1>1. PICK ends : /\ EndsOf(ends, a, p, x)
                  /\ c = [m EXCEPT !.len_idx = b, !.id = m.id + (b - a), !.prev = x,
                              !.edges = es \o [k \in 1 .. Len(ends) |->
                                           [d |-> d, ell |-> ends[k], cost_id |-> m.id + k - 1]]]
  BY DEF Climbed
<1> DEFINE new == [k \in 1 .. Len(ends) |-> [d |-> d, ell |-> ends[k], cost_id |-> m.id + k - 1]]
           more == es \o new
           S == Len(es)
           N == Len(ends)
<1>2. /\ x \in Nat /\ p \in Nat /\ p < x /\ a \in Nat /\ m.id \in Nat /\ es \in Seq(MeshEdge)
      /\ S \in Nat
  BY LenProperties DEF MeshType
<1>3. /\ ends \in Seq((p + 1) .. x) /\ N \in Nat /\ N > 0 /\ ends[N] = x
      /\ N <= (b - a) + 1
      /\ \A q \in 1 .. N : LowerBound(Lens, ends[q]) = a + q - 1
      /\ \A ell \in (p + 1) .. x :
           \E q \in 1 .. N : ell <= ends[q] /\ LowerBound(Lens, ends[q]) = LowerBound(Lens, ell)
  BY <1>1, LenProperties DEF EndsOf
<1>4. \A q \in 1 .. N : ends[q] \in (p + 1) .. x
  BY <1>3, ElementOfSeq
<1>a. /\ match.d \in ClassOf(n + 1) \cap 1 .. i /\ match.ell = MatchLen(text, i, match.d)
      /\ \A g \in ClassOf(n + 1) \cap 1 .. i : MatchLen(text, i, g) <= match.ell
  BY DEF LongestOf
<1>b. \A q \in 1 .. N : ends[q] \in Nat /\ p < ends[q] /\ ends[q] <= x
  BY <1>2, <1>4, SMTT(30)
<1>5. d \in Nat \ {0} /\ d \in 1 .. i /\ LowerBound(Dst, d) = n /\ d <= Last(Dst)
  <2>1. n + 1 \in 1 .. Len(Dst) /\ d \in ClassOf(n + 1) /\ Len(Dst) \in Nat
    BY <1>a, ClassesAssumption, ClassesIncrease
  <2>2. d \in Nat \ {0} /\ LowerBound(Dst, d) = (n + 1) - 1 /\ d <= Last(Dst)
    BY <2>1, DistanceOfClass
  <2> QED
    BY <2>2, <1>a
<1>6. b \in 0 .. Len(Lens) /\ a \in 0 .. Len(Lens) /\ a <= b
  <2>1. p + 1 \in Nat /\ x + 1 \in Nat /\ p + 1 <= x + 1
    BY <1>2, SMTT(30)
  <2>2. a = LowerBound(Lens, p + 1)
    OBVIOUS
  <2> QED
    BY <2>1, <2>2, ClassesAssumption, ClassesGrow, LowerBoundIs
<1>7. x <= match.ell /\ x <= Last(Lens) /\ match.ell \in 0 .. (Len(text) - i)
  BY <1>a, MatchLenIs, LastLen DEF Capped
<1> HIDE DEF es, d, x, p, a, b, S, N
<1>8. new \in Seq(MeshEdge) /\ Len(new) = N /\ \A q \in 1 .. N : new[q] = [d |-> d, ell |-> ends[q], cost_id |-> m.id + q - 1]
  <2>1. \A q \in 1 .. N : [d |-> d, ell |-> ends[q], cost_id |-> m.id + q - 1] \in MeshEdge
    <3>1. ASSUME NEW q \in 1 .. N PROVE m.id + q - 1 \in Nat
      BY <1>2
    <3>2. d \in Nat
      BY <1>5
    <3> QED
      BY <3>1, <3>2, <1>b DEF MeshEdge
  <2>2. new = [k \in 1 .. N |-> [d |-> d, ell |-> ends[k], cost_id |-> m.id + k - 1]]
    BY DEF N
  <2> HIDE DEF new
  <2> QED
    BY <2>1, <2>2, <1>3
<1> HIDE DEF new
<1>9. /\ more \in Seq(MeshEdge) /\ Len(more) = S + N
      /\ \A q \in 1 .. S : more[q] = es[q]
      /\ \A q \in 1 .. N : more[S + q] = new[q]
  <2>1. /\ es \o new \in Seq(MeshEdge) /\ Len(es \o new) = Len(es) + Len(new)
        /\ \A q \in 1 .. Len(es) : (es \o new)[q] = es[q]
        /\ \A q \in 1 .. Len(new) : (es \o new)[Len(es) + q] = new[q]
    BY <1>2, <1>8, Joined
  <2> QED
    BY <2>1, <1>8 DEF S
<1> HIDE DEF more
<1>10. /\ c \in MeshType /\ c.prev = x /\ c.len_idx = b /\ c.edges = more
       /\ c.cur = m.cur /\ c.dst_idx = m.dst_idx /\ c.maxlen = m.maxlen /\ c.stopped = m.stopped
  <2> DEFINE id == m.id + (b - a)
  <2>1. c = [m EXCEPT !.len_idx = b, !.id = id, !.prev = x, !.edges = more]
    BY <1>1 DEF more, new
  <2>2. id \in Nat /\ b \in Nat /\ x \in Nat
    BY <1>2, <1>6
  <2>3. more \in Seq(MeshEdge)
    BY <1>9
  <2> HIDE DEF id
  <2> QED
    BY <2>1, <2>2, <2>3 DEF MeshType
<1>11. EdgesOK(text, i, n, es, p)
  BY DEF es, p
<1>12. ASSUME NEW q \in 1 .. N
       PROVE  /\ GoodEdge(text, i, new[q]) /\ new[q].ell <= x /\ p < new[q].ell
              /\ LowerBound(Dst, new[q].d) = n /\ new[q].ell = ends[q]
  <2>1. new[q].d = d /\ new[q].ell = ends[q] /\ new[q].cost_id = m.id + q - 1
    BY <1>8
  <2>2. ends[q] \in Nat /\ p < ends[q] /\ ends[q] <= x
    BY <1>b
  <2>3. IsCopy(text, i, new[q])
    <3>1. MatchLen(text, i, d) = match.ell
      BY <1>a DEF d
    <3>2. ends[q] \in 1 .. MatchLen(text, i, d) /\ ends[q] <= Last(Lens)
      <4>1. match.ell \in Nat /\ Last(Lens) \in Nat /\ x <= match.ell /\ x <= Last(Lens)
        BY <1>7, LastLen
      <4> DEFINE y == ends[q]
                 g == match.ell
      <4>2. y \in Nat /\ p < y /\ y <= x
        BY <2>2
      <4>3. g \in Nat /\ x <= g
        BY <4>1
      <4> HIDE DEF y, g
      <4>4. y \in 1 .. g /\ y <= Last(Lens)
        BY <4>1, <4>2, <4>3, <1>2
      <4> QED
        BY <4>4, <3>1 DEF y, g
    <3> QED
      BY <2>1, <3>2, <1>5 DEF IsCopy
  <2>4. GetId(d, ends[q]) = m.id + q - 1
    <3>1. GetId(d, ends[q]) = Wrap(a + q - 1, n)
      BY <1>3, <1>5 DEF GetId
    <3>2. a + q - 1 \in Nat /\ n \in Nat /\ m.id = Wrap(a, n)
      BY <1>2 DEF a
    <3>3. Wrap(a + q - 1, n) = n * Width(Len(Lens)) + (a + q - 1) /\ Wrap(a, n) = n * Width(Len(Lens)) + a
      BY <3>2, <1>2, WrapIs
    <3>4. n * Width(Len(Lens)) \in Nat
      <4>1. Width(Len(Lens)) \in Nat
        BY LastLen, WidthSuffices
      <4> QED
        BY <3>2, <4>1
    <3> DEFINE w == n * Width(Len(Lens))
    <3>5. w \in Nat /\ m.id = w + a /\ GetId(d, ends[q]) = w + (a + q - 1)
      BY <3>1, <3>2, <3>3, <3>4
    <3> HIDE DEF w
    <3> QED
      BY <3>5, <1>2
  <2> QED
    BY <2>1, <2>2, <2>3, <2>4, <1>5 DEF GoodEdge
<1>13. ASSUME NEW q \in 1 .. Len(more), ~ (q <= S)
       PROVE  q - S \in 1 .. N /\ more[q] = new[q - S]
  <2> DEFINE r == q - S
  <2>1. r \in 1 .. N /\ S + r = q
    BY <1>2, <1>3, <1>9, <1>13
  <2> HIDE DEF r
  <2>2. more[S + r] = new[r]
    BY <2>1, <1>9
  <2> QED
    BY <2>1, <2>2 DEF r
<1>14. ASSUME NEW q \in 1 .. Len(more)
       PROVE  GoodEdge(text, i, more[q]) /\ more[q].ell <= x
  <2>1. CASE q <= S
    <3>1. q \in 1 .. S /\ more[q] = es[q]
      BY <2>1, <1>2, <1>9
    <3>2. GoodEdge(text, i, es[q]) /\ es[q].ell <= p /\ es[q] \in MeshEdge
      BY <3>1, <1>2, <1>11 DEF EdgesOK, S
    <3>3. es[q].ell \in Nat
      BY <3>2 DEF MeshEdge
    <3>4. es[q].ell <= x
      BY <3>2, <3>3, <1>2
    <3> QED
      BY <3>1, <3>2, <3>4
  <2>2. CASE ~ (q <= S)
    BY <2>2, <1>12, <1>13
  <2> QED
    BY <2>1, <2>2
<1>15. Rising(more)
  <2> SUFFICES ASSUME NEW q \in 2 .. Len(more) PROVE more[q - 1].ell < more[q].ell
    BY DEF Rising
  <2> DEFINE o == q - 1
  <2>1. q \in 1 .. Len(more) /\ o \in 1 .. Len(more) /\ o < q /\ o = q - 1 /\ o \in Int /\ q \in Int
    BY <1>2, <1>3, <1>9
  <2> HIDE DEF o
  <2>2. CASE q <= S
    <3>1. q \in 2 .. S /\ o \in 1 .. S
      BY <2>1, <2>2, <1>2
    <3>2. es[q - 1].ell < es[q].ell
      BY <3>1, <1>11 DEF EdgesOK, Rising, S
    <3> QED
      BY <2>1, <3>1, <3>2, <1>9
  <2>3. CASE o <= S /\ ~ (q <= S)
    <3>1. o \in 1 .. S /\ more[o] = es[o] /\ es[o] \in MeshEdge
      BY <2>1, <2>3, <1>2, <1>9 DEF S
    <3>2. es[o].ell <= p /\ es[o].ell \in Nat
      BY <3>1, <1>11 DEF EdgesOK, S, MeshEdge
    <3>3. q - S \in 1 .. N /\ more[q] = new[q - S]
      BY <2>1, <2>3, <1>13
    <3>4. p < new[q - S].ell /\ new[q - S].ell = ends[q - S] /\ ends[q - S] \in Nat
      BY <3>3, <1>12, <1>b
    <3>5. es[o].ell < new[q - S].ell
      <4> DEFINE v == new[q - S].ell
                 w == es[o].ell
      <4>1. p < v /\ v \in Nat /\ w <= p /\ w \in Nat
        BY <3>2, <3>4
      <4> HIDE DEF v, w
      <4>2. w < v
        BY <4>1, <1>2
      <4> QED
        BY <4>2 DEF v, w
    <3> QED
      BY <2>1, <3>1, <3>3, <3>5
  <2>4. CASE ~ (o <= S)
    <3> DEFINE u == o - S
               v == q - S
    <3>1. u \in 1 .. N /\ more[o] = new[u]
      BY <2>1, <2>4, <1>13
    <3>2. ~ (q <= S)
      BY <2>1, <2>4, <1>2
    <3>3. v \in 1 .. N /\ more[q] = new[v]
      BY <2>1, <3>2, <1>13
    <3>4. u \in Int /\ v \in Int /\ v = u + 1
      BY <2>1, <1>2
    <3> HIDE DEF u, v
    <3>5. /\ new[u].ell = ends[u] /\ new[v].ell = ends[v] /\ ends[u] \in Nat /\ ends[v] \in Nat
      BY <3>1, <3>3, <1>12, <1>b
    <3>6. LowerBound(Lens, ends[u]) = a + u - 1 /\ LowerBound(Lens, ends[v]) = a + v - 1
      BY <3>1, <3>3, <1>3
    <3>7. SUFFICES ASSUME ends[v] <= ends[u] PROVE FALSE
      BY <2>1, <3>1, <3>3, <3>5
    <3>8. LowerBound(Lens, ends[v]) <= LowerBound(Lens, ends[u])
      BY <3>5, <3>7, ClassesAssumption, ClassesGrow
    <3> QED
      BY <3>4, <3>6, <3>8, <1>2
  <2> QED
    BY <2>1, <2>2, <2>3, <2>4, <1>2
<1>16. Covers(more, n + 1, x)
  <2>1. Covers(es, n, p)
    BY <1>11 DEF EdgesOK
  <2>2. ASSUME NEW q \in 1 .. S PROVE LowerBound(Dst, es[q].d) \in Int
    <3>1. IsCopy(text, i, es[q])
      BY <1>11 DEF EdgesOK, GoodEdge, S
    <3> QED
      BY <3>1, CopyClasses
  <2>3. Covers(more, n + 1, p)
    <3> DEFINE k == n + 1
    <3>1. k \in Int /\ n \in Int /\ n <= k
      OBVIOUS
    <3>2. Len(es) \in Nat /\ Len(more) \in Nat /\ Len(es) <= Len(more)
      BY <1>2, <1>3, <1>9 DEF S
    <3>3. \A q \in 1 .. Len(es) : more[q] = es[q] /\ LowerBound(Dst, es[q].d) \in Int
      BY <1>9, <2>2 DEF S
    <3> HIDE DEF k
    <3>4. Covers(more, k, p)
      BY <3>1, <3>2, <3>3, <2>1, CoversStay
    <3> QED
      BY <3>4 DEF k
  <2> SUFFICES ASSUME NEW ell \in 1 .. x
               PROVE  \E q \in 1 .. Len(more) :
                        /\ ell <= more[q].ell /\ LowerBound(Lens, more[q].ell) = LowerBound(Lens, ell)
                        /\ LowerBound(Dst, more[q].d) < n + 1
    BY DEF Covers
  <2>4. CASE ell <= p
    <3>1. ell \in 1 .. p
      BY <2>4, <1>2
    <3> QED
      BY <3>1, <2>3 DEF Covers
  <2>5. CASE ~ (ell <= p)
    <3>1. ell \in (p + 1) .. x
      BY <2>5, <1>2
    <3>2. PICK r \in 1 .. N : ell <= ends[r] /\ LowerBound(Lens, ends[r]) = LowerBound(Lens, ell)
      BY <3>1, <1>3
    <3> DEFINE q == S + r
    <3>3. q \in 1 .. Len(more) /\ more[q] = new[r]
      BY <1>2, <1>3, <1>9
    <3> HIDE DEF q
    <3>4. new[r].ell = ends[r] /\ LowerBound(Dst, new[r].d) = n
      BY <1>12
    <3>5. n < n + 1
      OBVIOUS
    <3> QED
      BY <3>2, <3>3, <3>4, <3>5
  <2> QED
    BY <2>4, <2>5
<1>17. ASSUME NEW k \in 1 .. (n + 1) PROVE CoversClass(more, text, i, k)
  <2> SUFFICES ASSUME NEW g \in ClassOf(k) \cap 1 .. i
               PROVE  Covers(more, k, Capped(MatchLen(text, i, g)))
    BY DEF CoversClass
  <2> DEFINE y == Capped(MatchLen(text, i, g))
  <2>1. MatchLen(text, i, g) \in Nat /\ y \in Nat
    <3>1. MatchLen(text, i, g) \in 0 .. (Len(text) - i)
      BY MatchLenIs
    <3> QED
      BY <3>1, LastLen DEF Capped
  <2>2. CASE k = n + 1
    <3>1. MatchLen(text, i, g) <= match.ell
      BY <2>2, <1>a
    <3>2. y <= x
      BY <3>1, <2>1, <1>7, LastLen DEF Capped, x
    <3> HIDE DEF y
    <3>3. Covers(more, n + 1, y)
      <4> DEFINE h == n + 1
      <4> HIDE DEF h
      <4>1. Covers(more, h, x)
        BY <1>16 DEF h
      <4>2. Covers(more, h, y)
        BY <4>1, <3>2, <2>1, <1>2, CoversLess
      <4> QED
        BY <4>2 DEF h
    <3> QED
      BY <2>2, <3>3 DEF y
  <2>3. CASE k \in 1 .. n
    <3>1. Covers(es, k, y)
      BY <2>3, <1>11 DEF EdgesOK, CoversClass
    <3>2. \A q \in 1 .. Len(es) : more[q] = es[q] /\ LowerBound(Dst, es[q].d) \in Int
      <4>1. ASSUME NEW q \in 1 .. S PROVE LowerBound(Dst, es[q].d) \in Int
        <5>1. IsCopy(text, i, es[q])
          BY <1>11 DEF EdgesOK, GoodEdge, S
        <5> QED
          BY <5>1, CopyClasses
      <4> QED
        BY <4>1, <1>9 DEF S
    <3>3. Len(es) \in Nat /\ Len(more) \in Nat /\ Len(es) <= Len(more) /\ k \in Int /\ k <= k
      <4>1. k \in Int /\ k <= k
        BY <2>3
      <4>2. S \in Nat /\ N \in Nat /\ Len(more) = S + N
        BY <1>2, <1>3, <1>9
      <4> QED
        BY <4>1, <4>2 DEF S
    <3> HIDE DEF y
    <3>4. Covers(more, k, y)
      BY <3>1, <3>2, <3>3, CoversStay
    <3> QED
      BY <3>4 DEF y
  <2> QED
    BY <2>2, <2>3
<1>18. Len(more) <= (n + 1) + b
  <2>1. S <= n + a
    BY <1>11 DEF EdgesOK, S, a, p
  <2> QED
    BY <2>1, <1>2, <1>3, <1>6, <1>9
<1> QED
  BY <1>10, <1>14, <1>15, <1>16, <1>17, <1>18 DEF EdgesOK, b, x

(* A level that finds nothing longer than those before it needs no edge.   *)
LEMMA LevelCovered ==
  ASSUME NEW text, Len(text) \in Nat, NEW i \in 0 .. Len(text), NEW n \in 0 .. (Len(Dst) - 1),
         NEW es \in Seq(MeshEdge), NEW cur \in Nat, NEW maxlen \in Nat, cur = Capped(maxlen),
         \A d \in ClassOf(n + 1) \cap 1 .. i : MatchLen(text, i, d) <= maxlen,
         EdgesOK(text, i, n, es, cur)
  PROVE  EdgesOK(text, i, n + 1, es, cur)
<1> DEFINE h == n + 1
<1>1. h \in Nat /\ n \in Nat /\ n <= h /\ h = n + 1 /\ n < h
  OBVIOUS
<1>2. Len(es) \in Nat /\ LowerBound(Lens, cur + 1) \in Nat
  <2>1. cur + 1 \in Nat
    OBVIOUS
  <2> QED
    BY <2>1, LenProperties, ClassesAssumption, LowerBoundIs
<1>3. ASSUME NEW q \in 1 .. Len(es) PROVE LowerBound(Dst, es[q].d) \in Int
  <2>1. IsCopy(text, i, es[q])
    BY DEF EdgesOK, GoodEdge
  <2> QED
    BY <2>1, CopyClasses
<1> HIDE DEF h
<1>4. Covers(es, h, cur)
  <2>1. Covers(es, n, cur)
    BY DEF EdgesOK
  <2> QED
    BY <1>1, <1>2, <1>3, <2>1, CoversStay
<1>5. ASSUME NEW k \in 1 .. h PROVE CoversClass(es, text, i, k)
  <2>1. CASE k = h
    <3> SUFFICES ASSUME NEW g \in ClassOf(k) \cap 1 .. i
                 PROVE  Covers(es, k, Capped(MatchLen(text, i, g)))
      BY DEF CoversClass
    <3> DEFINE y == Capped(MatchLen(text, i, g))
    <3>1. MatchLen(text, i, g) \in Nat /\ MatchLen(text, i, g) <= maxlen
      <4>1. MatchLen(text, i, g) \in 0 .. (Len(text) - i)
        BY MatchLenIs
      <4> QED
        BY <4>1, <2>1, <1>1
    <3>2. y \in Nat /\ y <= cur
      BY <3>1, LastLen DEF Capped
    <3> HIDE DEF y
    <3>3. Covers(es, h, y)
      BY <1>4, <3>2, CoversLess
    <3> QED
      BY <3>3, <2>1 DEF y
  <2>2. CASE k \in 1 .. n
    BY <2>2 DEF EdgesOK
  <2> QED
    BY <2>1, <2>2, <1>1
<1>6. Len(es) <= h + LowerBound(Lens, cur + 1)
  <2>1. Len(es) <= n + LowerBound(Lens, cur + 1)
    BY DEF EdgesOK
  <2> QED
    BY <2>1, <1>1, <1>2
<1>7. EdgesOK(text, i, h, es, cur)
  BY <1>4, <1>5, <1>6 DEF EdgesOK
<1> QED
  BY <1>7 DEF h

(* One turn of the loop of generate_edges, up to where it breaks or moves  *)
(* on to the next class.                                                   *)
Climbing(m, match) ==
  IF match.ell > m.maxlen
  THEN Climb(SetLen([m EXCEPT !.maxlen = match.ell], match.ell), match.d)
  ELSE m
AfterClimb(text, i, n, match, c) ==
  /\ c \in MeshType /\ Standing(c) /\ c.dst_idx = n /\ c.stopped = FALSE
  /\ c.maxlen >= Last(Lens) <=> match.ell >= Last(Lens)
  /\ EdgesOK(text, i, n + 1, c.edges, c.cur)
LEMMA LevelClimbs ==
  ASSUME NEW text, Len(text) \in Nat, NEW i \in 0 .. Len(text), NEW n \in 0 .. (Len(Dst) - 1),
         NEW m, MeshOK(text, i, n, m), ~ m.stopped, NEW match, LongestOf(text, i, n + 1, match)
  PROVE  AfterClimb(text, i, n, match, Climbing(m, match))
<1> DEFINE c == Climbing(m, match)
<1> SUFFICES /\ c \in MeshType /\ Standing(c) /\ c.dst_idx = n /\ c.stopped = FALSE
             /\ c.maxlen >= Last(Lens) <=> match.ell >= Last(Lens)
             /\ EdgesOK(text, i, n + 1, c.edges, c.cur)
  BY DEF AfterClimb
<1>0. c = IF match.ell > m.maxlen
          THEN Climb(SetLen([m EXCEPT !.maxlen = match.ell], match.ell), match.d)
          ELSE m
  BY DEF Climbing
<1> HIDE DEF c
<1>1. /\ m \in MeshType /\ m.cur = Capped(m.maxlen) /\ m.prev = m.cur
      /\ m.len_idx = LowerBound(Lens, m.cur + 1) /\ m.dst_idx = n /\ m.id = Wrap(m.len_idx, n)
      /\ ~ (m.maxlen >= Last(Lens)) /\ EdgesOK(text, i, n, m.edges, m.cur) /\ m.stopped = FALSE
  BY DEF MeshOK, Standing, MeshType
<1>2. /\ m.maxlen \in Nat /\ m.cur \in Nat /\ m.edges \in Seq(MeshEdge) /\ Last(Lens) \in Nat
      /\ match.ell \in Nat
  BY <1>1, LastLen DEF MeshType, LongestOf
<1>3. CASE ~ (match.ell > m.maxlen)
  <2>1. c = m
    BY <1>0, <1>3
  <2>2. \A d \in ClassOf(n + 1) \cap 1 .. i : MatchLen(text, i, d) <= m.maxlen
    <3>1. ASSUME NEW d \in ClassOf(n + 1) \cap 1 .. i PROVE MatchLen(text, i, d) <= m.maxlen
      <4>1. MatchLen(text, i, d) \in 0 .. (Len(text) - i)
        BY MatchLenIs
      <4>2. MatchLen(text, i, d) <= match.ell
        BY DEF LongestOf
      <4> QED
        BY <4>1, <4>2, <1>2, <1>3
    <3> QED
      BY <3>1
  <2>3. EdgesOK(text, i, n + 1, m.edges, m.cur)
    <3> DEFINE es == m.edges
               cur == m.cur
               maxlen == m.maxlen
    <3>1. /\ es \in Seq(MeshEdge) /\ cur \in Nat /\ maxlen \in Nat /\ cur = Capped(maxlen)
          /\ \A d \in ClassOf(n + 1) \cap 1 .. i : MatchLen(text, i, d) <= maxlen
          /\ EdgesOK(text, i, n, es, cur)
      BY <1>1, <1>2, <2>2
    <3> HIDE DEF es, cur, maxlen
    <3>2. EdgesOK(text, i, n + 1, es, cur)
      BY <3>1, LevelCovered
    <3> QED
      BY <3>2 DEF es, cur
  <2>4. ~ (match.ell >= Last(Lens))
    BY <1>1, <1>2, <1>3
  <2> QED
    BY <2>1, <2>3, <2>4, <1>1 DEF Standing
<1>4. CASE match.ell > m.maxlen
  <2> DEFINE s == SetLen([m EXCEPT !.maxlen = match.ell], match.ell)
  <2>1. /\ s = [m EXCEPT !.maxlen = match.ell, !.cur = Capped(match.ell)]
        /\ Capped(match.ell) \in Nat
    BY <1>1, <1>2 DEF SetLen, MeshType, Capped
  <2> HIDE DEF s
  <2>2. /\ s \in MeshType /\ s.cur = Capped(match.ell) /\ s.maxlen = match.ell /\ s.prev = m.prev
        /\ s.len_idx = m.len_idx /\ s.dst_idx = m.dst_idx /\ s.id = m.id /\ s.edges = m.edges
        /\ s.stopped = FALSE
    BY <2>1, <1>1, <1>2 DEF MeshType
  <2>3. s.prev < s.cur /\ s.cur <= Last(Lens)
    BY <2>2, <1>1, <1>2, <1>4 DEF Capped
  <2>4. c = Climb(s, match.d)
    BY <1>0, <1>4 DEF s
  <2>5. s.len_idx = LowerBound(Lens, s.prev + 1)
    BY <2>2, <1>1
  <2>6. Climbed(s, match.d, c)
    BY <2>2, <2>3, <2>4, <2>5, ClimbIs
  <2>7. match.ell > 0
    BY <1>2, <1>4
  <2>8. s.cur = Capped(match.ell) /\ s.id = Wrap(s.len_idx, n) /\ EdgesOK(text, i, n, s.edges, s.prev)
    BY <2>2, <1>1
  <2>9. /\ c \in MeshType /\ c.prev = s.cur /\ c.len_idx = LowerBound(Lens, s.cur + 1)
        /\ c.cur = s.cur /\ c.dst_idx = s.dst_idx /\ c.maxlen = s.maxlen /\ c.stopped = s.stopped
        /\ EdgesOK(text, i, n + 1, c.edges, s.cur)
    BY <2>2, <2>3, <2>5, <2>6, <2>7, <2>8, ClimbedEdges
  <2> QED
    BY <2>2, <2>8, <2>9, <1>1 DEF Standing
<1> QED
  BY <1>3, <1>4

LEMMA MeshStep ==
  ASSUME NEW text, Len(text) \in Nat, NEW i \in 0 .. Len(text), NEW n \in 0 .. (Len(Dst) - 1),
         NEW m, MeshOK(text, i, n, m), ~ m.stopped, NEW match \in MaxMatch(text, i, n + 1)
  PROVE  MeshOK(text, i, n + 1, Level(m, match))
<1> DEFINE c == Climbing(m, match)
           h == n + 1
<1>1. Level(m, match) = IF match.ell >= Last(Lens) THEN [c EXCEPT !.stopped = TRUE] ELSE Right(c)
  BY DEF Level, Climbing
<1>2. LongestOf(text, i, h, match)
  <2>1. h \in 1 .. Len(Dst)
    BY ClassesAssumption, ClassesIncrease
  <2> HIDE DEF h
  <2>2. /\ match.ell \in 0 .. (Len(text) - i)
        /\ match.ell > 0 => /\ match.d \in ClassOf(h) \cap 1 .. i
                             /\ match.ell = MatchLen(text, i, match.d)
        /\ \A d \in ClassOf(h) \cap 1 .. i : MatchLen(text, i, d) <= match.ell
    <3>1. match \in MaxMatch(text, i, h)
      BY DEF h
    <3> QED
      BY <2>1, <3>1, MaxMatchIs
  <2> QED
    BY <2>2 DEF LongestOf
<1>4. /\ c \in MeshType /\ Standing(c) /\ c.dst_idx = n /\ c.stopped = FALSE
      /\ c.maxlen >= Last(Lens) <=> match.ell >= Last(Lens)
      /\ EdgesOK(text, i, h, c.edges, c.cur)
  <2>1. LongestOf(text, i, n + 1, match)
    BY <1>2
  <2>2. AfterClimb(text, i, n, match, Climbing(m, match))
    BY <2>1, LevelClimbs
  <2> QED
    BY <2>2 DEF AfterClimb
<1> HIDE DEF c
<1>5. CASE match.ell >= Last(Lens)
  <2> DEFINE r == [c EXCEPT !.stopped = TRUE]
  <2>1. /\ r \in MeshType /\ r.stopped = TRUE /\ r.cur = c.cur /\ r.prev = c.prev
        /\ r.len_idx = c.len_idx /\ r.maxlen = c.maxlen /\ r.edges = c.edges
    BY <1>4 DEF MeshType
  <2> HIDE DEF r, h
  <2>2. MeshOK(text, i, h, r)
    BY <1>4, <1>5, <2>1 DEF MeshOK, Standing
  <2> QED
    BY <1>1, <1>5, <2>2 DEF r, h
<1>6. CASE ~ (match.ell >= Last(Lens))
  <2> DEFINE r == Right(c)
  <2>1. c.len_idx = LowerBound(Lens, c.cur + 1)
    BY <1>4 DEF Standing
  <2>2. r = IF c.dst_idx + 1 >= Len(Dst) THEN [c EXCEPT !.dst_idx = c.dst_idx + 1]
            ELSE [c EXCEPT !.dst_idx = c.dst_idx + 1, !.id = Wrap(c.len_idx, c.dst_idx + 1)]
    BY <1>4, <2>1, RightIs
  <2> HIDE DEF r
  <2>3. h \in Nat /\ c.dst_idx + 1 = h /\ c.len_idx \in Nat /\ Wrap(c.len_idx, h) \in Nat /\ Len(Dst) \in Nat
    <3>1. c.len_idx \in Nat /\ h \in Nat
      BY <1>4 DEF MeshType
    <3> QED
      BY <1>4, <3>1, WrapIs, ClassesAssumption, ClassesIncrease
  <2> HIDE DEF h
  <2>4. r = IF h >= Len(Dst) THEN [c EXCEPT !.dst_idx = h]
            ELSE [c EXCEPT !.dst_idx = h, !.id = Wrap(c.len_idx, h)]
    BY <2>2, <2>3
  <2>5. /\ r \in MeshType /\ r.stopped = FALSE /\ r.cur = c.cur /\ r.prev = c.prev
        /\ r.len_idx = c.len_idx /\ r.maxlen = c.maxlen /\ r.edges = c.edges /\ r.dst_idx = h
        /\ (h < Len(Dst) => r.id = Wrap(r.len_idx, h))
    <3>1. CASE h >= Len(Dst)
      <4>1. r = [c EXCEPT !.dst_idx = h] /\ ~ (h < Len(Dst))
        BY <2>3, <2>4, <3>1
      <4> QED
        BY <1>4, <2>3, <4>1 DEF MeshType
    <3>2. CASE ~ (h >= Len(Dst))
      <4>1. r = [c EXCEPT !.dst_idx = h, !.id = Wrap(c.len_idx, h)]
        BY <2>4, <3>2
      <4> QED
        BY <1>4, <2>3, <4>1 DEF MeshType
    <3> QED
      BY <3>1, <3>2
  <2>6. MeshOK(text, i, h, r)
    BY <1>4, <1>6, <2>5 DEF MeshOK, Standing
  <2> QED
    BY <1>1, <1>6, <2>6 DEF r, h
<1> QED
  BY <1>5, <1>6

LEMMA LevelsAre ==
  ASSUME NEW i \in Nat
  PROVE  Levels(i) \in 1 .. Len(Dst)
<1>1. Len(Dst) \in Nat \ {0} /\ Last(Dst) \in Nat
  <2>1. Len(Dst) \in Nat \ {0} /\ \A k \in 1 .. Len(Dst) : Dst[k] \in Nat
    BY ClassesAssumption, ClassesIncrease
  <2>2. Len(Dst) \in 1 .. Len(Dst)
    BY <2>1
  <2> QED
    BY <2>1, <2>2 DEF Last
<1>2. LowerBound(Dst, i) \in 0 .. Len(Dst) /\ (i <= Last(Dst) => LowerBound(Dst, i) < Len(Dst))
  BY ClassesAssumption, LowerBoundIs
<1> QED
  BY <1>1, <1>2 DEF Levels

(* When the levels are over, the edges are all that the position needs.    *)
LEMMA MeshOffers ==
  ASSUME NEW text, Len(text) \in Nat, NEW i \in 0 .. Len(text), NEW n \in 0 .. Levels(i),
         NEW m, MeshOK(text, i, n, m), m.stopped \/ n = Levels(i)
  PROVE  Offers(text, i, m.edges)
<1> DEFINE es == m.edges
<1>1. /\ m \in MeshType /\ m.cur = Capped(m.maxlen) /\ (m.stopped <=> m.maxlen >= Last(Lens))
      /\ EdgesOK(text, i, n, es, m.cur)
  BY DEF MeshOK, Standing
<1>2. /\ es \in Seq(MeshEdge) /\ Len(es) \in Nat /\ DOMAIN es = 1 .. Len(es)
      /\ m.maxlen \in Nat /\ m.cur \in Nat
  BY <1>1, LenProperties DEF MeshType
<1>3. /\ Levels(i) \in 1 .. Len(Dst) /\ Len(Dst) \in Nat /\ Len(Lens) \in Nat /\ n \in Nat
  BY LevelsAre, LastLen, ClassesAssumption, ClassesIncrease
<1> HIDE DEF es
<1>4. Len(es) <= MaxLevels
  <2>1. m.cur + 1 \in Nat
    BY <1>2
  <2>2. LowerBound(Lens, m.cur + 1) \in 0 .. Len(Lens)
    BY <2>1, ClassesAssumption, LowerBoundIs
  <2>3. Len(es) <= n + LowerBound(Lens, m.cur + 1)
    BY <1>1 DEF EdgesOK
  <2> QED
    BY <2>2, <2>3, <1>2, <1>3 DEF MaxLevels
<1>5. ASSUME NEW k \in DOMAIN es
      PROVE  /\ IsCopy(text, i, es[k]) /\ es[k].cost_id = GetId(es[k].d, es[k].ell)
             /\ k > 1 => es[k - 1].ell < es[k].ell
  <2>1. k \in 1 .. Len(es) /\ (k > 1 => k \in 2 .. Len(es))
    BY <1>2
  <2> QED
    BY <2>1, <1>1 DEF EdgesOK, GoodEdge, Rising
<1>6. ASSUME NEW c \in Copies(text, i)
      PROVE  \E k \in DOMAIN es :
               /\ es[k].ell >= c.ell
               /\ LowerBound(Dst, es[k].d) <= LowerBound(Dst, c.d)
               /\ LowerBound(Lens, es[k].ell) <= LowerBound(Lens, c.ell)
  <2>1. IsCopy(text, i, c)
    <3>1. PICK e \in [d : 1 .. i, ell : 1 .. (Len(text) - i)] :
            IsCopy(text, i, e) /\ c = [d |-> e.d, ell |-> e.ell, cost_id |-> GetId(e.d, e.ell)]
      BY DEF Copies
    <3>2. c.d = e.d /\ c.ell = e.ell
      BY <3>1
    <3> QED
      BY <3>1, <3>2 DEF IsCopy
  <2> DEFINE g == LowerBound(Dst, c.d) + 1
  <2>2. /\ c.d \in Nat \ {0} /\ c.d <= i /\ c.ell \in Nat \ {0} /\ c.ell <= Last(Lens)
        /\ c.d \in 1 .. i /\ c.d <= Last(Dst) /\ c.ell <= MatchLen(text, i, c.d)
        /\ MatchLen(text, i, c.d) \in Nat
        /\ LowerBound(Dst, c.d) \in 0 .. (Len(Dst) - 1)
        /\ LowerBound(Lens, c.ell) \in 0 .. (Len(Lens) - 1)
    <3>1. MatchLen(text, i, c.d) \in 0 .. (Len(text) - i)
      BY MatchLenIs
    <3>2. MatchLen(text, i, c.d) \in Nat
      BY <3>1
    <3> QED
      BY <2>1, <3>2, CopyClasses DEF IsCopy
  <2>3. g \in 1 .. Len(Dst) /\ g - 1 = LowerBound(Dst, c.d)
    <3>1. LowerBound(Dst, c.d) \in 0 .. (Len(Dst) - 1) /\ Len(Dst) \in Nat
      BY <2>2, <1>3
    <3> QED
      BY <3>1
  <2>4. c.d \in ClassOf(g)
    <3>1. /\ \A k \in 1 .. Len(Dst) : Dst[k] \in Nat
          /\ \A k \in 1 .. Len(Dst) : Dst[k] < c.d <=> k <= LowerBound(Dst, c.d)
      BY <2>2, ClassesAssumption, ClassesIncrease, LowerBoundIs
    <3> HIDE DEF g
    <3>2. Dst[g] \in Nat /\ ~ (Dst[g] < c.d)
      BY <2>2, <2>3, <3>1, <1>3
    <3>3. CASE g = 1
      BY <2>2, <3>2, <3>3 DEF ClassOf
    <3>4. CASE g # 1
      <4> DEFINE b == g - 1
      <4>1. b \in 1 .. Len(Dst) /\ b = LowerBound(Dst, c.d) /\ b <= b
        BY <2>3, <3>4, <1>3
      <4> HIDE DEF b
      <4>2. Dst[b] \in Nat /\ Dst[b] < c.d
        BY <4>1, <3>1
      <4>3. c.d \in (Dst[b] + 1) .. Dst[g]
        BY <4>2, <3>2, <2>2
      <4> QED
        BY <4>3, <3>4 DEF ClassOf, b
    <3> QED
      BY <3>3, <3>4
  <2>5. CASE g <= n
    <3>1. CoversClass(es, text, i, g)
      <4> HIDE DEF g
      <4>1. g \in 1 .. n
        BY <2>3, <2>5, <1>3
      <4> QED
        BY <4>1, <1>1 DEF EdgesOK
    <3>2. c.ell \in 1 .. Capped(MatchLen(text, i, c.d))
      BY <2>2, LastLen DEF Capped
    <3>3. PICK q \in 1 .. Len(es) :
            /\ c.ell <= es[q].ell /\ LowerBound(Lens, es[q].ell) = LowerBound(Lens, c.ell)
            /\ LowerBound(Dst, es[q].d) < g
      <4> HIDE DEF g
      <4>1. Covers(es, g, Capped(MatchLen(text, i, c.d)))
        BY <3>1, <2>2, <2>4 DEF CoversClass
      <4> QED
        BY <4>1, <3>2 DEF Covers
    <3>4. IsCopy(text, i, es[q])
      BY <3>3, <1>2, <1>5
    <3>5. es[q].ell \in Nat /\ LowerBound(Dst, es[q].d) \in Nat
      BY <3>4, CopyClasses
    <3>6. es[q].ell >= c.ell
      BY <3>3, <3>5, <2>2
    <3>7. LowerBound(Dst, es[q].d) <= LowerBound(Dst, c.d)
      BY <3>3, <3>5, <2>2, <2>3
    <3>8. LowerBound(Lens, es[q].ell) <= LowerBound(Lens, c.ell)
      BY <3>3, <2>2
    <3> QED
      BY <3>6, <3>7, <3>8, <1>2
  <2>6. CASE ~ (g <= n)
    <3>1. m.stopped
      <4>1. SUFFICES ASSUME n = Levels(i) PROVE FALSE
        OBVIOUS
      <4>2. LowerBound(Dst, c.d) <= LowerBound(Dst, i)
        BY <2>2, ClassesAssumption, ClassesGrow
      <4>3. LowerBound(Dst, i) \in 0 .. Len(Dst)
        BY ClassesAssumption, LowerBoundIs
      <4> QED
        BY <4>1, <4>2, <4>3, <2>2, <2>3, <2>6, <1>3 DEF Levels
    <3>2. c.ell \in 1 .. m.cur
      <4>1. m.cur = Last(Lens)
        BY <3>1, <1>1, <1>2, LastLen DEF Capped
      <4> QED
        BY <4>1, <2>2
    <3>3. PICK q \in 1 .. Len(es) :
            /\ c.ell <= es[q].ell /\ LowerBound(Lens, es[q].ell) = LowerBound(Lens, c.ell)
            /\ LowerBound(Dst, es[q].d) < n
      <4>1. Covers(es, n, m.cur)
        BY <1>1 DEF EdgesOK
      <4> QED
        BY <4>1, <3>2 DEF Covers
    <3>4. IsCopy(text, i, es[q])
      BY <3>3, <1>2, <1>5
    <3>5. es[q].ell \in Nat /\ LowerBound(Dst, es[q].d) \in Nat
      BY <3>4, CopyClasses
    <3>6. es[q].ell >= c.ell
      BY <3>3, <3>5, <2>2
    <3>7. LowerBound(Dst, es[q].d) <= LowerBound(Dst, c.d)
      BY <3>3, <3>5, <2>2, <2>6, <1>3
    <3>8. LowerBound(Lens, es[q].ell) <= LowerBound(Lens, c.ell)
      BY <3>3, <2>2
    <3> QED
      BY <3>6, <3>7, <3>8, <1>2
  <2> QED
    BY <2>5, <2>6
<1> QED
  BY <1>4, <1>5, <1>6 DEF Offers, es
===============================================================================
