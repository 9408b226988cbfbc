--------------------------- MODULE IntegratorProofs ---------------------------
(***************************************************************************)
(* Proofs about GraphCache and Integrator, for every text, classes of      *)
(* distances and lengths, largest value in unary and number of parsings.   *)
(***************************************************************************)
EXTENDS Integrator, EdgeMeshProofs

(* The length of the match of class k at position p: whichever match a     *)
(* generator finds, its length is this one.                                *)
LengthAt(t, p, k) == (CHOOSE match \in MaxMatch(t, p, k) : TRUE).ell
MatchAt(t, p, k) == [d |-> Representative(k), ell |-> LengthAt(t, p, k)]

(* The mesh of cached_fsg_gen after each level at position p, and how many *)
(* levels generate_edges asks for there: up to the last, or the first that *)
(* stops it.                                                               *)
ReadMesh(t, p) ==
  LET after[n \in 0 .. Len(Dst)] == IF n = 0 THEN Reset ELSE Level(after[n - 1], MatchAt(t, p, n))
  IN  after
Asked(t, p) == {k \in 1 .. Levels(p) : \A n \in 0 .. (k - 1) : ~ ReadMesh(t, p)[n].stopped}
Depth(t, p) == Cardinality(Asked(t, p))
ReadEdges(t, p) == ReadMesh(t, p)[Depth(t, p)].edges

(* A mesh of generate_edges and the one read back: the distances of edges  *)
(* differ, not their classes, and what is read is no farther.              *)
AlikeEdges(es1, es2) ==
  /\ es2 \in Seq(MeshEdge) /\ Len(es2) = Len(es1)
  /\ \A q \in 1 .. Len(es1) : /\ es2[q].ell = es1[q].ell /\ es2[q].cost_id = es1[q].cost_id
                              /\ es2[q].d <= es1[q].d
                              /\ LowerBound(Dst, es2[q].d) = LowerBound(Dst, es1[q].d)
Alike(m1, m2) == m2 = [m1 EXCEPT !.edges = m2.edges] /\ AlikeEdges(m1.edges, m2.edges)

(* The code of level k for position p, and how many it has before p.       *)
BaseAt(t, p, k) ==
  IF p > 0 /\ k <= Depth(t, p - 1) /\ LengthAt(t, p - 1, k) > 0 THEN LengthAt(t, p - 1, k) - 1 ELSE 0
CodeAt(t, p, k) == Encode(LengthAt(t, p, k) - BaseAt(t, p, k))
CodeWord == [escaped : BOOLEAN, n : Int]
CodesBefore(t, k, p) == Cardinality({q \in 0 .. (p - 1) : k <= Depth(t, q)})

(* A stream of level k written up to position p; one to be read from p on. *)
Written(t, k, p, codes) ==
  /\ codes \in Seq(CodeWord) /\ Len(codes) = CodesBefore(t, k, p)
  /\ \A q \in 0 .. (p - 1) : k <= Depth(t, q) => codes[CodesBefore(t, k, q) + 1] = CodeAt(t, q, k)
Unread(t, k, p, codes) ==
  /\ codes \in Seq(CodeWord)
  /\ Len(codes) = CodesBefore(t, k, Len(t)) - CodesBefore(t, k, p)
  /\ \A q \in p .. (Len(t) - 1) :
       k <= Depth(t, q) =>
         codes[CodesBefore(t, k, q) - CodesBefore(t, k, p) + 1] = CodeAt(t, q, k)

(* Where level k is when n levels of position p have been asked for.       *)
PlaceOf(k, p, n) == IF k <= n THEN p + 1 ELSE p

(* prev_len and prev_pos of level k, then.                                 *)
Recalls(t, k, p, n, last) ==
  /\ last \in [len : Nat, pos : Int]
  /\ k <= n => last.len = LengthAt(t, p, k) /\ last.pos = p
  /\ k > n => /\ last.pos < p
              /\ p > 0 => (last.pos = p - 1 <=> k <= Depth(t, p - 1))
              /\ p > 0 /\ k <= Depth(t, p - 1) => last.len = LengthAt(t, p - 1, k)

-------------------------------------------------------------------------------
(* The parts of the inductive invariant.                                   *)
Replaying == {"caching", "levels", "cached"}
Phases    == Replaying \union {"generate", "generating", "fix", "done"}
Meshing   == {"caching", "cached", "generating", "fix"}

InputPart(t, ph, p) ==
  /\ t \in CacheTexts /\ ph \in Phases /\ p \in 0 .. Len(t)
  /\ ph \in {"cached", "generating", "fix"} => p < Len(t)

(* The mesh is what the levels asked for so far give.                      *)
MeshPart(t, ph, p, nl, lev, m) ==
  /\ ph \in Meshing => /\ nl = Levels(p) /\ lev \in 0 .. Depth(t, p)
                       /\ IF ph = "cached" THEN m = ReadMesh(t, p)[lev]
                          ELSE MeshOK(t, p, lev, m) /\ Alike(m, ReadMesh(t, p)[lev])
  /\ ph = "levels" /\ p > 0 => m.edges = ReadEdges(t, p - 1)
  /\ ph = "fix" => lev = Depth(t, p)
  /\ ph = "caching" /\ p = Len(t) => lev = 0

(* A level with n levels of position p asked for: its stream holds what is *)
(* written, then what is not read yet.                                     *)
LevelPart(t, writing, p, n, k, code, last) ==
  /\ Recalls(t, k, p, n, last)
  /\ IF writing THEN Written(t, k, PlaceOf(k, p, n), code) ELSE Unread(t, k, PlaceOf(k, p, n), code)
LevelsOf(t) == 1 + LowerBound(Dst, Len(t))
EachLevel(t, writing, p, n, codes, last) ==
  /\ codes = [k \in 1 .. LevelsOf(t) |-> codes[k]] /\ last = [k \in 1 .. LevelsOf(t) |-> last[k]]
  /\ \A k \in 1 .. LevelsOf(t) : LevelPart(t, writing, p, n, k, codes[k], last[k])
StreamPart(t, ph, p, lev, codes, last) ==
  ph \in Replaying => EachLevel(t, ph = "caching", p, IF ph = "levels" THEN 0 ELSE lev, codes, last)

IndexBefore(p) == IF p = 0 THEN 0 ELSE Levels(p - 1) - 1
CountPart(ph, p, cur) ==
  /\ ph = "levels" => cur = IndexBefore(p)
  /\ ph = "cached" => cur = Levels(p) - 1

ReadOf(t) == {ReadEdges(t, p) : p \in 0 .. Len(t)}
PricesOf(t) == {Priced(es) : es \in ReadOf(t)}
GraphPart(t, ph, p, gr, es) ==
  /\ gr \in Seq(PricesOf(t)) /\ es \in Seq(ReadOf(t))
  /\ Len(gr) = IF ph = "caching" THEN p ELSE Len(t)
  /\ Len(es) = IF ph = "caching" THEN 0 ELSE IF ph \in Replaying THEN p ELSE Len(t)
  /\ \A n \in 1 .. Len(gr) : gr[n] = Priced(ReadEdges(t, n - 1))
  /\ \A n \in 1 .. Len(es) : es[n] = ReadEdges(t, n - 1)

(* No parsing is behind, and the lowest is where one waits.                *)
FixPart(t, ph, p, low, nx, sol) ==
  /\ nx \in [Sols -> 0 .. Len(t)] /\ low \in 0 .. Len(t) /\ sol \in 1 .. (Parsings + 1)
  /\ \A n \in Sols : low <= nx[n]
  /\ ph \in Replaying => low = 0
  /\ ph \in {"generate", "generating"} => p <= low
  /\ ph \in {"generating", "fix"} => low < Len(t)
  /\ ph = "fix" => low = p /\ \A n \in Sols : n < sol => p < nx[n]
  /\ ph = "done" => low = Len(t)

(* The edges of this position are the first of the vector.                 *)
VectorPart(ph, m, es) ==
  ph \in {"generating", "fix"} => \A k \in 1 .. MaxLevels : k <= Len(m.edges) => es[k] = m.edges[k]

IInv ==
  /\ InputPart(text, pc, i)
  /\ MeshPart(text, pc, i, nlevels, level, mesh)
  /\ StreamPart(text, pc, i, level, streams, prev)
  /\ CountPart(pc, i, cur_dst_idx)
  /\ GraphPart(text, pc, i, graph, cached)
  /\ FixPart(text, pc, i, lowest_pos, next, s)
  /\ VectorPart(pc, mesh, maxedges)
-------------------------------------------------------------------------------
(* Matches and meshes.                                                     *)

LEMMA LengthIs ==
  ASSUME NEW t, Len(t) \in Nat, NEW p \in 0 .. Len(t), NEW k \in 1 .. Len(Dst)
  PROVE  /\ LengthAt(t, p, k) \in 0 .. (Len(t) - p)
         /\ \A match \in MaxMatch(t, p, k) : match.ell = LengthAt(t, p, k)
<1> DEFINE c == CHOOSE match \in MaxMatch(t, p, k) : TRUE
<1>1. \E match : match \in MaxMatch(t, p, k)
  BY Zenon DEF MaxMatch
<1>2. c \in MaxMatch(t, p, k)
  BY <1>1
<1>3. LengthAt(t, p, k) = c.ell
  BY DEF LengthAt
<1> HIDE DEF c
<1>4. ASSUME NEW m1 \in MaxMatch(t, p, k), NEW m2 \in MaxMatch(t, p, k) PROVE m1.ell <= m2.ell
  <2>1. /\ m1.ell \in 0 .. (Len(t) - p) /\ m2.ell \in 0 .. (Len(t) - p)
        /\ m1.ell > 0 => m1.d \in ClassOf(k) \cap 1 .. p /\ m1.ell = MatchLen(t, p, m1.d)
        /\ \A d \in ClassOf(k) \cap 1 .. p : MatchLen(t, p, d) <= m2.ell
    BY MaxMatchIs
  <2> QED
    BY <2>1
<1>5. ASSUME NEW m1 \in MaxMatch(t, p, k) PROVE m1.ell \in 0 .. (Len(t) - p)
  BY MaxMatchIs
<1> QED
  BY <1>2, <1>3, <1>4, <1>5

(* The first distance of a class stands for it, and is in it.              *)
LEMMA RepresentativeIs ==
  ASSUME NEW k \in 1 .. Len(Dst)
  PROVE  /\ Representative(k) \in Nat \ {0} /\ Representative(k) \in ClassOf(k)
         /\ \A d \in ClassOf(k) : d \in Nat /\ Representative(k) <= d
<1>1. /\ \A n \in 1 .. Len(Dst) : Dst[n] \in Nat \ {0}
      /\ \A n, m \in 1 .. Len(Dst) : n < m => Dst[n] < Dst[m]
  BY ClassesIncrease, ClassesAssumption
<1>2. CASE k = 1
  BY <1>1, <1>2 DEF Representative, ClassOf
<1>3. CASE k # 1
  <2>1. k - 1 \in 1 .. Len(Dst) /\ k - 1 < k
    BY <1>3
  <2>2. Dst[k - 1] \in Nat /\ Dst[k] \in Nat /\ Dst[k - 1] < Dst[k]
    BY <1>1, <2>1
  <2> QED
    BY <1>3, <2>2 DEF Representative, ClassOf
<1> QED
  BY <1>2, <1>3

(* A recursion over the levels, and such a function exists.                *)
LEMMA ReadMeshIs ==
  ASSUME NEW t, NEW p
  PROVE  /\ ReadMesh(t, p)[0] = Reset
         /\ \A n \in 1 .. Len(Dst) :
              ReadMesh(t, p)[n] = Level(ReadMesh(t, p)[n - 1], MatchAt(t, p, n))
<1> DEFINE N == Len(Dst)
           Turn(g, n) == IF n = 0 THEN Reset ELSE Level(g[n - 1], MatchAt(t, p, n))
           Upto(g, n) == g = [m \in 0 .. n |-> Turn(g, m)]
           T == {n \in Nat : \E g : Upto(g, n)}
           f == CHOOSE g : Upto(g, N)
<1>1. N \in Nat
  BY ClassesIncrease, ClassesAssumption
<1>2. 0 \in T
  <2>1. \E g : Upto(g, 0)
    <3> WITNESS [m \in 0 .. 0 |-> Reset]
    <3> QED
      OBVIOUS
  <2> QED
    BY <2>1
<1>3. ASSUME NEW n \in Nat, n \in T PROVE (n + 1) \in T
  <2>1. PICK g : Upto(g, n)
    BY <1>3
  <2> DEFINE h == [m \in 0 .. (n + 1) |-> IF m <= n THEN g[m] ELSE Level(g[n], MatchAt(t, p, n + 1))]
  <2>2. ASSUME NEW m \in 0 .. (n + 1) PROVE h[m] = Turn(h, m)
    <3>1. CASE m <= n
      <4>1. g[m] = Turn(g, m) /\ h[m] = g[m]
        BY <2>1, <3>1
      <4>2. m # 0 => h[m - 1] = g[m - 1]
        BY <3>1
      <4> HIDE DEF h
      <4> QED
        BY <4>1, <4>2
    <3>2. CASE ~ m <= n
      <4>1. m = n + 1 /\ m # 0 /\ m - 1 = n /\ n \in 0 .. (n + 1) /\ n <= n
        BY <3>2
      <4>2. h[m] = Level(g[n], MatchAt(t, p, n + 1)) /\ h[m - 1] = g[n]
        BY <4>1
      <4> HIDE DEF h
      <4> QED
        BY <4>1, <4>2
    <3> QED
      BY <3>1, <3>2
  <2>3. Upto(h, n + 1)
    <3>1. h = [m \in 0 .. (n + 1) |-> h[m]]
      OBVIOUS
    <3> HIDE DEF h
    <3> QED
      BY <2>2, <3>1
  <2> HIDE DEF h, Upto
  <2>4. n + 1 \in Nat
    OBVIOUS
  <2> QED
    BY <2>3, <2>4
<1> HIDE DEF T
<1>4. N \in T
  BY <1>1, <1>2, <1>3, InductionOn
<1>5. \E g : Upto(g, N)
  BY <1>4 DEF T
<1>6. Upto(f, N)
  <2> HIDE DEF Upto
  <2> QED
    BY <1>5
<1>7. f = ReadMesh(t, p)
  BY DEF ReadMesh
<1> HIDE DEF f
<1>8. \A n \in 0 .. N : f[n] = Turn(f, n)
  BY <1>6
<1>9. 0 \in 0 .. N /\ \A n \in 1 .. N : n \in 0 .. N /\ n # 0
  BY <1>1
<1> QED
  BY <1>7, <1>8, <1>9

LEMMA DepthIs ==
  ASSUME NEW t, NEW p \in Nat
  PROVE  /\ Depth(t, p) \in 0 .. Levels(p) /\ Levels(p) \in 1 .. Len(Dst)
         /\ Depth(t, p) \in Nat /\ Depth(t, p) <= Len(Dst)
         /\ Asked(t, p) = 1 .. Depth(t, p)
<1> DEFINE A == Asked(t, p)
           N == Levels(p)
<1>1. N \in 1 .. Len(Dst) /\ Len(Dst) \in Nat
  BY LevelsAre, ClassesIncrease, ClassesAssumption
<1>2. A \subseteq 1 .. N
  BY DEF Asked
<1>3. ASSUME NEW k \in A, NEW n \in 1 .. k PROVE n \in A
  BY <1>1, <1>3 DEF Asked
<1> HIDE DEF A, N
<1>4. N \in Nat /\ A \subseteq (0 + 1) .. N /\ \A k \in A : \A n \in (0 + 1) .. k : n \in A
  BY <1>1, <1>2, <1>3
<1>5. Cardinality(A) \in Nat /\ A = (0 + 1) .. (0 + Cardinality(A))
  BY <1>4, SizeOfRun
<1> DEFINE c == Cardinality(A)
<1> HIDE DEF c
<1>6. c \in Nat /\ A = 1 .. c
  BY <1>5 DEF c
<1>7. c <= N
  <2>1. CASE c = 0
    BY <1>4, <2>1
  <2>2. CASE c # 0
    <3>1. c \in A
      BY <1>6, <2>2
    <3> QED
      BY <1>2, <3>1
  <2> QED
    BY <2>1, <2>2
<1>8. Depth(t, p) = c
  BY DEF Depth, A, c
<1> QED
  BY <1>1, <1>6, <1>7, <1>8 DEF A, N

(* generate_edges asks for one more level while there is one and the last  *)
(* has not stopped it.                                                     *)
LEMMA AsksMore ==
  ASSUME NEW t, NEW p \in Nat, NEW n \in 0 .. Depth(t, p)
  PROVE  n < Levels(p) /\ ~ ReadMesh(t, p)[n].stopped <=> n < Depth(t, p)
<1>1. /\ Depth(t, p) \in 0 .. Levels(p) /\ Levels(p) \in Nat /\ Depth(t, p) \in Nat
      /\ Asked(t, p) = 1 .. Depth(t, p) /\ n \in Nat
  <2>1. Levels(p) \in 1 .. Len(Dst) /\ Depth(t, p) \in 0 .. Levels(p)
    BY DepthIs
  <2> QED
    BY <2>1, DepthIs
<1>2. ASSUME n < Depth(t, p) PROVE n < Levels(p) /\ ~ ReadMesh(t, p)[n].stopped
  <2>1. n + 1 \in Asked(t, p) /\ n \in 0 .. ((n + 1) - 1)
    BY <1>1, <1>2
  <2> QED
    BY <1>1, <1>2, <2>1 DEF Asked
<1>3. ASSUME n < Levels(p), ~ ReadMesh(t, p)[n].stopped PROVE n < Depth(t, p)
  <2>1. \A m \in 0 .. (n - 1) : ~ ReadMesh(t, p)[m].stopped
    <3>1. CASE n = 0
      BY <3>1
    <3>2. CASE n # 0
      <4>1. n \in Asked(t, p)
        BY <1>1, <3>2
      <4> QED
        BY <4>1 DEF Asked
    <3> QED
      BY <3>1, <3>2
  <2>2. n + 1 \in 1 .. Levels(p) /\ \A m \in 0 .. ((n + 1) - 1) : m \in 0 .. (n - 1) \/ m = n
    BY <1>1, <1>3
  <2>3. n + 1 \in Asked(t, p)
    BY <1>3, <2>1, <2>2 DEF Asked
  <2> QED
    BY <1>1, <2>3
<1> QED
  BY <1>2, <1>3
-------------------------------------------------------------------------------
(* What is read is alike.                                                  *)

LEMMA EndsAre ==
  ASSUME NEW a \in Nat, NEW low \in Nat, NEW high \in Nat, NEW ends, EndsOf(ends, a, low, high)
  PROVE  /\ Len(ends) \in Nat /\ Len(ends) > 0 /\ LowerBound(Lens, high) = a + Len(ends) - 1
         /\ \A q \in 1 .. Len(ends) : /\ ends[q] \in (low + 1) .. high /\ ends[q] \in Nat
                                       /\ LowerBound(Lens, ends[q]) = a + q - 1
<1> DEFINE X == (low + 1) .. high
<1>1. ends \in Seq(X) /\ Len(ends) > 0 /\ ends[Len(ends)] = high
  BY DEF EndsOf
<1>2. \A x \in X : x \in Nat
  OBVIOUS
<1>3. \A q \in 1 .. Len(ends) : LowerBound(Lens, ends[q]) = a + q - 1
  BY DEF EndsOf
<1> HIDE DEF X
<1>4. Len(ends) \in Nat /\ \A q \in 1 .. Len(ends) : ends[q] \in X
  BY <1>1
<1>5. Len(ends) \in 1 .. Len(ends)
  BY <1>1, <1>4
<1>6. LowerBound(Lens, high) = a + Len(ends) - 1
  BY <1>1, <1>3, <1>5
<1> QED
  BY <1>1, <1>2, <1>3, <1>4, <1>6 DEF X

LEMMA EndsUnique ==
  ASSUME NEW a \in Nat, NEW low \in Nat, NEW high \in Nat, NEW e1, NEW e2,
         EndsOf(e1, a, low, high), EndsOf(e2, a, low, high)
  PROVE  Len(e1) = Len(e2) /\ Len(e1) \in Nat /\ \A q \in 1 .. Len(e1) : e1[q] = e2[q]
<1>1. ASSUME NEW x, NEW y, EndsOf(x, a, low, high), EndsOf(y, a, low, high),
             NEW q \in 1 .. Len(x), q \in 1 .. Len(y)
      PROVE  x[q] <= y[q]
  <2>0. /\ Len(x) \in Nat
        /\ \A p \in 1 .. Len(x) : x[p] \in (low + 1) .. high /\ LowerBound(Lens, x[p]) = a + p - 1
    BY <1>1, EndsAre, SMTT(30)
  <2>a. Len(x) \in Nat /\ x[q] \in (low + 1) .. high /\ LowerBound(Lens, x[q]) = a + q - 1
    BY <1>1, <2>0
  <2>b. Len(y) \in Nat
    BY <1>1, EndsAre
  <2>1. Len(x) \in Nat /\ Len(y) \in Nat /\ x[q] \in (low + 1) .. high /\ LowerBound(Lens, x[q]) = a + q - 1
    BY <2>a, <2>b
  <2>2. PICK p \in 1 .. Len(y) : x[q] <= y[p] /\ LowerBound(Lens, y[p]) = LowerBound(Lens, x[q])
    BY <1>1, <2>1 DEF EndsOf
  <2>3. LowerBound(Lens, y[p]) = a + p - 1
    BY <1>1, EndsAre
  <2>4. p = q
    BY <2>1, <2>2, <2>3
  <2> QED
    BY <2>2, <2>4
<1>2. /\ Len(e1) \in Nat /\ Len(e2) \in Nat /\ Len(e1) > 0 /\ Len(e2) > 0
      /\ LowerBound(Lens, high) = a + Len(e1) - 1 /\ LowerBound(Lens, high) = a + Len(e2) - 1
  BY EndsAre
<1>3. Len(e1) = Len(e2)
  BY <1>2
<1>4. ASSUME NEW q \in 1 .. Len(e1) PROVE e1[q] = e2[q]
  <2>1. q \in 1 .. Len(e2) /\ e1[q] \in (low + 1) .. high /\ e2[q] \in (low + 1) .. high
    BY <1>3, EndsAre
  <2>2. e1[q] <= e2[q] /\ e2[q] <= e1[q]
    BY <1>1, <2>1
  <2> QED
    BY <2>1, <2>2
<1> QED
  BY <1>2, <1>3, <1>4

LEMMA AlikeType ==
  ASSUME NEW m1 \in MeshType, NEW m2, Alike(m1, m2)
  PROVE  /\ m2 \in MeshType /\ m2.dst_idx = m1.dst_idx /\ m2.len_idx = m1.len_idx
         /\ m2.cur = m1.cur /\ m2.prev = m1.prev /\ m2.id = m1.id /\ m2.maxlen = m1.maxlen
         /\ m2.stopped = m1.stopped
<1> DEFINE es == m2.edges
<1>1. m2 = [m1 EXCEPT !.edges = es] /\ es \in Seq(MeshEdge)
  BY DEF Alike, AlikeEdges
<1> HIDE DEF es
<1> QED
  BY <1>1 DEF MeshType

(* Setting fields alike keeps meshes alike.                                *)
LEMMA AlikeMakes ==
  ASSUME NEW m1 \in MeshType, NEW m2 \in MeshType, m2.dst_idx = m1.dst_idx, m2.len_idx = m1.len_idx,
         m2.cur = m1.cur, m2.prev = m1.prev, m2.id = m1.id, m2.maxlen = m1.maxlen,
         m2.stopped = m1.stopped, AlikeEdges(m1.edges, m2.edges)
  PROVE  Alike(m1, m2)
BY DEF Alike, MeshType

LEMMA ClimbAlike ==
  ASSUME NEW m1 \in MeshType, NEW m2, Alike(m1, m2), m1.prev < m1.cur, m1.cur <= Last(Lens),
         m1.len_idx = LowerBound(Lens, m1.prev + 1),
         NEW d1 \in Nat, NEW d2 \in Nat, d2 <= d1, LowerBound(Dst, d2) = LowerBound(Dst, d1)
  PROVE  Alike(Climb(m1, d1), Climb(m2, d2)) /\ Climb(m1, d1) \in MeshType
<1> DEFINE c1 == Climb(m1, d1)
           c2 == Climb(m2, d2)
           a == m1.len_idx
           low == m1.prev
           high == m1.cur
           id == m1.id
           top == LowerBound(Lens, m1.cur + 1)
<1>1. /\ m2 \in MeshType /\ m2.len_idx = a /\ m2.prev = low /\ m2.cur = high /\ m2.id = id
      /\ m2.dst_idx = m1.dst_idx /\ m2.maxlen = m1.maxlen /\ m2.stopped = m1.stopped
  BY AlikeType
<1>2. Climbed(m1, d1, c1)
  BY ClimbIs
<1>3. Climbed(m2, d2, c2)
  <2>1. m2.prev < m2.cur /\ m2.cur <= Last(Lens) /\ m2.len_idx = LowerBound(Lens, m2.prev + 1)
    BY <1>1
  <2> QED
    BY <1>1, <2>1, ClimbIs
<1> DEFINE New(d, ends) == [k \in 1 .. Len(ends) |-> [d |-> d, ell |-> ends[k], cost_id |-> id + k - 1]]
<1>4. PICK e1 : /\ EndsOf(e1, a, low, high)
                /\ c1 = [m1 EXCEPT !.len_idx = top, !.id = id + (top - a), !.prev = high,
                                   !.edges = m1.edges \o New(d1, e1)]
  BY <1>2, Zenon DEF Climbed
<1>5. PICK e2 : /\ EndsOf(e2, a, low, high)
                /\ c2 = [m2 EXCEPT !.len_idx = top, !.id = id + (top - a), !.prev = high,
                                   !.edges = m2.edges \o New(d2, e2)]
  <2>1. PICK e2 : /\ EndsOf(e2, m2.len_idx, m2.prev, m2.cur)
                  /\ c2 = [m2 EXCEPT !.len_idx = LowerBound(Lens, m2.cur + 1),
                                     !.id = m2.id + (LowerBound(Lens, m2.cur + 1) - m2.len_idx), !.prev = m2.cur,
                                     !.edges = m2.edges \o [k \in 1 .. Len(e2) |->
                                       [d |-> d2, ell |-> e2[k], cost_id |-> m2.id + k - 1]]]
    BY <1>3, Zenon DEF Climbed
  <2>2. m2.len_idx = a /\ m2.prev = low /\ m2.cur = high /\ m2.id = id /\ LowerBound(Lens, m2.cur + 1) = top
    BY <1>1
  <2> HIDE DEF a, low, high, id, top, c2
  <2>3. EndsOf(e2, a, low, high)
    BY <2>1, <2>2
  <2>4. c2 = [m2 EXCEPT !.len_idx = top, !.id = id + (top - a), !.prev = high,
                        !.edges = m2.edges \o New(d2, e2)]
    BY <2>1, <2>2
  <2> QED
    BY <2>3, <2>4
<1>6. /\ a \in Nat /\ low \in Nat /\ high \in Nat /\ id \in Nat
      /\ m1.edges \in Seq(MeshEdge) /\ m2.edges \in Seq(MeshEdge)
  BY <1>1 DEF MeshType
<1>7. top \in Nat /\ a <= top /\ top - a \in Nat
  <2>1. low + 1 \in Nat /\ high + 1 \in Nat /\ low + 1 <= high + 1
    BY <1>6
  <2> DEFINE x == low + 1
             y == high + 1
  <2>2. x \in Nat /\ y \in Nat /\ x <= y
    BY <2>1
  <2> HIDE DEF x, y
  <2>3. LowerBound(Lens, x) <= LowerBound(Lens, y)
    BY <2>2, ClassesGrow, ClassesAssumption
  <2>4. LowerBound(Lens, x) \in 0 .. Len(Lens) /\ LowerBound(Lens, y) \in 0 .. Len(Lens)
    BY <2>2, LowerBoundIs, ClassesAssumption
  <2>5. a = LowerBound(Lens, x) /\ top = LowerBound(Lens, y)
    BY DEF x, y
  <2> HIDE DEF a, top
  <2> QED
    BY <2>3, <2>4, <2>5
<1> HIDE DEF a, low, high, id, top, c1, c2
<1>8. Len(e1) = Len(e2) /\ Len(e1) \in Nat /\ \A q \in 1 .. Len(e1) : e1[q] = e2[q] /\ e1[q] \in Nat
  <2>1. Len(e1) = Len(e2) /\ Len(e1) \in Nat /\ \A q \in 1 .. Len(e1) : e1[q] = e2[q]
    BY <1>4, <1>5, <1>6, EndsUnique
  <2>2. ASSUME NEW q \in 1 .. Len(e1) PROVE e1[q] \in Nat
    BY <1>4, <1>6, EndsAre
  <2> QED
    BY <2>1, <2>2
<1> DEFINE n1 == New(d1, e1)
           n2 == New(d2, e2)
<1>9. /\ n1 \in Seq(MeshEdge) /\ n2 \in Seq(MeshEdge) /\ Len(n1) = Len(e1) /\ Len(n2) = Len(e1)
      /\ \A q \in 1 .. Len(e1) : n1[q] = [d |-> d1, ell |-> e1[q], cost_id |-> id + q - 1]
      /\ \A q \in 1 .. Len(e1) : n2[q] = [d |-> d2, ell |-> e1[q], cost_id |-> id + q - 1]
  <2>1. \A q \in 1 .. Len(e1) : id + q - 1 \in Nat
    BY <1>6, <1>8
  <2>2. /\ \A q \in 1 .. Len(e1) : [d |-> d1, ell |-> e1[q], cost_id |-> id + q - 1] \in MeshEdge
        /\ \A q \in 1 .. Len(e1) : [d |-> d2, ell |-> e1[q], cost_id |-> id + q - 1] \in MeshEdge
    BY <1>8, <2>1 DEF MeshEdge
  <2>3. n1 = [q \in 1 .. Len(e1) |-> [d |-> d1, ell |-> e1[q], cost_id |-> id + q - 1]]
    OBVIOUS
  <2>4. n2 = [q \in 1 .. Len(e1) |-> [d |-> d2, ell |-> e1[q], cost_id |-> id + q - 1]]
    BY <1>8
  <2> HIDE DEF n1, n2
  <2> QED
    BY <1>8, <2>2, <2>3, <2>4
<1>10. /\ c1 = [m1 EXCEPT !.len_idx = top, !.id = id + (top - a), !.prev = high, !.edges = m1.edges \o n1]
       /\ c2 = [m2 EXCEPT !.len_idx = top, !.id = id + (top - a), !.prev = high, !.edges = m2.edges \o n2]
  BY <1>4, <1>5
<1> HIDE DEF n1, n2
<1> DEFINE s1 == m1.edges
           s2 == m2.edges
           t1 == s1 \o n1
           t2 == s2 \o n2
<1>s. s1 \in Seq(MeshEdge) /\ s2 \in Seq(MeshEdge) /\ n1 \in Seq(MeshEdge) /\ n2 \in Seq(MeshEdge)
  BY <1>6, <1>9
<1>13. AlikeEdges(s1, s2)
  BY DEF Alike
<1> HIDE DEF s1, s2
<1>11. /\ t1 \in Seq(MeshEdge) /\ Len(t1) = Len(s1) + Len(n1)
       /\ \A q \in 1 .. Len(s1) : t1[q] = s1[q]
       /\ \A q \in 1 .. Len(n1) : t1[Len(s1) + q] = n1[q]
  <2>1. /\ s1 \o n1 \in Seq(MeshEdge) /\ Len(s1 \o n1) = Len(s1) + Len(n1)
        /\ \A q \in 1 .. Len(s1) : (s1 \o n1)[q] = s1[q]
        /\ \A q \in 1 .. Len(n1) : (s1 \o n1)[Len(s1) + q] = n1[q]
    BY <1>s, Joined
  <2> QED
    BY <2>1
<1>12. /\ t2 \in Seq(MeshEdge) /\ Len(t2) = Len(s2) + Len(n2)
       /\ \A q \in 1 .. Len(s2) : t2[q] = s2[q]
       /\ \A q \in 1 .. Len(n2) : t2[Len(s2) + q] = n2[q]
  <2>1. /\ s2 \o n2 \in Seq(MeshEdge) /\ Len(s2 \o n2) = Len(s2) + Len(n2)
        /\ \A q \in 1 .. Len(s2) : (s2 \o n2)[q] = s2[q]
        /\ \A q \in 1 .. Len(n2) : (s2 \o n2)[Len(s2) + q] = n2[q]
    BY <1>s, Joined
  <2> QED
    BY <2>1
<1>14. Len(s1) \in Nat /\ Len(s2) = Len(s1) /\ Len(n1) = Len(n2) /\ Len(n1) \in Nat
  BY <1>s, <1>8, <1>9, <1>13 DEF AlikeEdges
<1> HIDE DEF t1, t2
<1>15. ASSUME NEW q \in 1 .. Len(t1)
       PROVE  /\ t2[q].ell = t1[q].ell /\ t2[q].cost_id = t1[q].cost_id /\ t2[q].d <= t1[q].d
              /\ LowerBound(Dst, t2[q].d) = LowerBound(Dst, t1[q].d)
  <2>1. CASE q \in 1 .. Len(s1)
    <3>1. t1[q] = s1[q] /\ t2[q] = s2[q]
      BY <1>11, <1>12, <1>14, <2>1
    <3> QED
      BY <1>13, <2>1, <3>1 DEF AlikeEdges
  <2>2. CASE q \notin 1 .. Len(s1)
    <3> DEFINE p == q - Len(s1)
    <3>1. p \in 1 .. Len(n1) /\ q = Len(s1) + p
      BY <1>11, <1>14, <2>2
    <3> HIDE DEF p
    <3>2. t1[q] = n1[p] /\ t2[q] = n2[p] /\ p \in 1 .. Len(e1)
      BY <1>9, <1>11, <1>12, <1>14, <3>1
    <3>3. /\ t1[q] = [d |-> d1, ell |-> e1[p], cost_id |-> id + p - 1]
          /\ t2[q] = [d |-> d2, ell |-> e1[p], cost_id |-> id + p - 1]
      BY <1>9, <3>2
    <3> QED
      BY <3>3
  <2> QED
    BY <2>1, <2>2
<1>16. AlikeEdges(t1, t2)
  BY <1>11, <1>12, <1>14, <1>15 DEF AlikeEdges
<1>17. /\ c1 = [m1 EXCEPT !.len_idx = top, !.id = id + (top - a), !.prev = high, !.edges = t1]
       /\ c2 = [m2 EXCEPT !.len_idx = top, !.id = id + (top - a), !.prev = high, !.edges = t2]
  BY <1>10 DEF s1, s2, t1, t2
<1> DEFINE newid == id + (top - a)
<1>18. newid \in Nat
  BY <1>6, <1>7
<1> HIDE DEF newid
<1>19. /\ c1 = [m1 EXCEPT !.len_idx = top, !.id = newid, !.prev = high, !.edges = t1]
       /\ c2 = [m2 EXCEPT !.len_idx = top, !.id = newid, !.prev = high, !.edges = t2]
  BY <1>17 DEF newid
<1>20. c1 \in MeshType /\ c2 \in MeshType /\ c1.edges = t1 /\ c2.edges = t2
  BY <1>1, <1>6, <1>7, <1>11, <1>12, <1>18, <1>19 DEF MeshType
<1>21. /\ c2.dst_idx = c1.dst_idx /\ c2.len_idx = c1.len_idx /\ c2.cur = c1.cur /\ c2.prev = c1.prev
       /\ c2.id = c1.id /\ c2.maxlen = c1.maxlen /\ c2.stopped = c1.stopped
  <2>1. m1.cur = high /\ m2.cur = high
    BY <1>1 DEF high
  <2> QED
    BY <1>1, <1>19, <2>1 DEF MeshType
<1>22. Alike(c1, c2)
  BY <1>16, <1>20, <1>21, AlikeMakes
<1> QED
  BY <1>20, <1>22 DEF c1, c2

LEMMA AlikeStart == Alike(Reset, Reset)
<1>1. Reset.edges = <<>> /\ Reset = [Reset EXCEPT !.edges = Reset.edges]
  BY DEF Reset
<1>2. AlikeEdges(<<>>, <<>>)
  BY DEF AlikeEdges
<1> QED
  BY <1>1, <1>2 DEF Alike

(* One level further, with a match and with what stands for it.            *)
LEMMA LevelAlike ==
  ASSUME NEW t, Len(t) \in Nat, NEW p \in 0 .. Len(t), NEW n \in 0 .. (Len(Dst) - 1),
         NEW m1, MeshOK(t, p, n, m1), ~ m1.stopped, NEW m2, Alike(m1, m2),
         NEW match \in MaxMatch(t, p, n + 1)
  PROVE  Alike(Level(m1, match), Level(m2, MatchAt(t, p, n + 1)))
<1> DEFINE k == n + 1
           read == MatchAt(t, p, k)
<1>1. k \in 1 .. Len(Dst) /\ Len(Dst) \in Nat
  BY ClassesAssumption, ClassesIncrease
<1>2. match \in MaxMatch(t, p, k)
  OBVIOUS
<1> HIDE DEF k
<1>3. /\ match.ell \in 0 .. (Len(t) - p) /\ match.ell = LengthAt(t, p, k)
      /\ match.ell > 0 => match.d \in ClassOf(k)
  BY <1>1, <1>2, MaxMatchIs, LengthIs
<1>4. read.ell = match.ell /\ read.d = Representative(k) /\ match.ell \in Nat
  BY <1>3 DEF MatchAt
<1>5. match.ell > 0 => /\ match.d \in Nat /\ read.d \in Nat /\ read.d <= match.d
                       /\ LowerBound(Dst, read.d) = LowerBound(Dst, match.d)
  <2>1. Representative(k) \in ClassOf(k) /\ \A d \in ClassOf(k) : d \in Nat /\ Representative(k) <= d
    BY <1>1, RepresentativeIs
  <2>2. \A d \in ClassOf(k) : LowerBound(Dst, d) = k - 1
    BY <1>1, DistanceOfClass
  <2> QED
    BY <1>3, <1>4, <2>1, <2>2
<1> HIDE DEF read
<1>6. /\ m1 \in MeshType /\ m1.cur = Capped(m1.maxlen) /\ m1.prev = m1.cur
      /\ m1.len_idx = LowerBound(Lens, m1.cur + 1) /\ ~ (m1.maxlen >= Last(Lens))
  BY DEF MeshOK, Standing
<1>7. /\ m1.maxlen \in Nat /\ m1.cur \in Nat /\ Last(Lens) \in Nat
  BY <1>6, LastLen DEF MeshType
<1>8. /\ m2 \in MeshType /\ m2.dst_idx = m1.dst_idx /\ m2.len_idx = m1.len_idx
      /\ m2.cur = m1.cur /\ m2.prev = m1.prev /\ m2.id = m1.id /\ m2.maxlen = m1.maxlen
      /\ m2.stopped = m1.stopped
  BY <1>6, AlikeType
<1> DEFINE c1 == Climbing(m1, match)
           c2 == Climbing(m2, read)
<1>9. c1 \in MeshType /\ Alike(c1, c2) /\ c1.len_idx = LowerBound(Lens, c1.cur + 1)
  <2>1. AfterClimb(t, p, n, match, c1)
    <3>1. LongestOf(t, p, n + 1, match)
      <4>1. \A d \in ClassOf(k) \cap 1 .. p : MatchLen(t, p, d) <= match.ell
        BY <1>1, <1>2, MaxMatchIs
      <4>2. match.ell > 0 => match.d \in ClassOf(k) \cap 1 .. p /\ match.ell = MatchLen(t, p, match.d)
        BY <1>1, <1>2, MaxMatchIs
      <4> QED
        BY <1>4, <4>1, <4>2 DEF LongestOf, k
    <3> QED
      BY <3>1, LevelClimbs
  <2>2. c1 \in MeshType /\ c1.len_idx = LowerBound(Lens, c1.cur + 1)
    BY <2>1 DEF AfterClimb, Standing
  <2>3. CASE ~ (match.ell > m1.maxlen)
    <3>1. c1 = m1 /\ c2 = m2
      BY <1>4, <1>8, <2>3 DEF Climbing
    <3> QED
      BY <2>2, <3>1
  <2>4. CASE match.ell > m1.maxlen
    <3> DEFINE s1 == SetLen([m1 EXCEPT !.maxlen = match.ell], match.ell)
               s2 == SetLen([m2 EXCEPT !.maxlen = match.ell], match.ell)
               cur == Capped(match.ell)
    <3>1. /\ s1 = [m1 EXCEPT !.maxlen = match.ell, !.cur = cur]
          /\ s2 = [m2 EXCEPT !.maxlen = match.ell, !.cur = cur]
          /\ cur \in Nat /\ cur <= Last(Lens) /\ m1.prev < cur
      BY <1>4, <1>6, <1>7, <1>8, <2>4, SMTT(30) DEF SetLen, MeshType, Capped
    <3>2. c1 = Climb(s1, match.d) /\ c2 = Climb(s2, read.d)
      BY <1>4, <1>8, <2>4 DEF Climbing
    <3> HIDE DEF s1, s2, cur, c1, c2
    <3>3. s1 \in MeshType /\ s2 \in MeshType
      BY <1>4, <1>6, <1>8, <3>1 DEF MeshType
    <3>4. /\ s1.prev = m1.prev /\ s1.cur = cur /\ s1.len_idx = m1.len_idx
          /\ s2.dst_idx = s1.dst_idx /\ s2.len_idx = s1.len_idx /\ s2.cur = s1.cur
          /\ s2.prev = s1.prev /\ s2.id = s1.id /\ s2.maxlen = s1.maxlen /\ s2.stopped = s1.stopped
          /\ s1.edges = m1.edges /\ s2.edges = m2.edges
      BY <1>4, <1>6, <1>8, <3>1 DEF MeshType
    <3>5. Alike(s1, s2)
      <4>1. AlikeEdges(s1.edges, s2.edges)
        BY <3>4 DEF Alike
      <4> QED
        BY <3>3, <3>4, <4>1, AlikeMakes
    <3>6. s1.prev < s1.cur /\ s1.cur <= Last(Lens) /\ s1.len_idx = LowerBound(Lens, s1.prev + 1)
      BY <1>6, <3>1, <3>4
    <3>7. match.ell > 0
      BY <1>4, <1>7, <2>4
    <3> DEFINE d1 == match.d
               d2 == read.d
    <3>8. d1 \in Nat /\ d2 \in Nat /\ d2 <= d1 /\ LowerBound(Dst, d2) = LowerBound(Dst, d1)
      BY <1>5, <3>7
    <3> HIDE DEF d1, d2
    <3>9. Alike(Climb(s1, d1), Climb(s2, d2))
      BY <3>3, <3>5, <3>6, <3>8, ClimbAlike
    <3> QED
      BY <2>2, <3>2, <3>9 DEF d1, d2, c1, c2
  <2> QED
    BY <2>3, <2>4
<1>10. /\ Level(m1, match) = IF match.ell >= Last(Lens) THEN [c1 EXCEPT !.stopped = TRUE] ELSE Right(c1)
       /\ Level(m2, read) = IF match.ell >= Last(Lens) THEN [c2 EXCEPT !.stopped = TRUE] ELSE Right(c2)
  BY <1>4 DEF Level, Climbing
<1> HIDE DEF c1, c2
<1>11. /\ c2 \in MeshType /\ c2.dst_idx = c1.dst_idx /\ c2.len_idx = c1.len_idx
       /\ c2.cur = c1.cur /\ c2.prev = c1.prev /\ c2.id = c1.id /\ c2.maxlen = c1.maxlen
       /\ c2.stopped = c1.stopped
  BY <1>9, AlikeType
<1>12. AlikeEdges(c1.edges, c2.edges)
  BY <1>9 DEF Alike
<1>13. ASSUME NEW r1 \in MeshType, NEW r2 \in MeshType, NEW idx \in Nat, NEW id \in Nat, NEW st \in BOOLEAN,
              r1 = [c1 EXCEPT !.dst_idx = idx, !.id = id, !.stopped = st],
              r2 = [c2 EXCEPT !.dst_idx = idx, !.id = id, !.stopped = st]
       PROVE  Alike(r1, r2)
  <2>1. /\ r2.dst_idx = r1.dst_idx /\ r2.len_idx = r1.len_idx
        /\ r2.cur = r1.cur /\ r2.prev = r1.prev /\ r2.id = r1.id /\ r2.maxlen = r1.maxlen
        /\ r2.stopped = r1.stopped /\ r1.edges = c1.edges /\ r2.edges = c2.edges
    BY <1>9, <1>11, <1>13 DEF MeshType
  <2> QED
    BY <1>12, <2>1, AlikeMakes
<1>14. CASE match.ell >= Last(Lens)
  <2> DEFINE r1 == [c1 EXCEPT !.stopped = TRUE]
             r2 == [c2 EXCEPT !.stopped = TRUE]
  <2>1. /\ r1 \in MeshType /\ r2 \in MeshType /\ c1.dst_idx \in Nat /\ c1.id \in Nat
        /\ r1 = [c1 EXCEPT !.dst_idx = c1.dst_idx, !.id = c1.id, !.stopped = TRUE]
        /\ r2 = [c2 EXCEPT !.dst_idx = c1.dst_idx, !.id = c1.id, !.stopped = TRUE]
    BY <1>9, <1>11 DEF MeshType
  <2> HIDE DEF r1, r2
  <2> DEFINE idx == c1.dst_idx
             id == c1.id
             st == TRUE
  <2>2. /\ idx \in Nat /\ id \in Nat /\ st \in BOOLEAN
        /\ r1 = [c1 EXCEPT !.dst_idx = idx, !.id = id, !.stopped = st]
        /\ r2 = [c2 EXCEPT !.dst_idx = idx, !.id = id, !.stopped = st]
    BY <2>1
  <2> HIDE DEF idx, id, st
  <2>a. r1 \in MeshType /\ r2 \in MeshType
    BY <2>1
  <2>3. Alike(r1, r2)
    BY <1>13, <2>2, <2>a
  <2> QED
    BY <1>10, <1>14, <2>3 DEF r1, r2, read, k
<1>15. CASE ~ (match.ell >= Last(Lens))
  <2> DEFINE r1 == Right(c1)
             r2 == Right(c2)
             idx == c1.dst_idx + 1
             id == IF idx >= Len(Dst) THEN c1.id ELSE Wrap(c1.len_idx, idx)
             st == c1.stopped
  <2>1. idx \in Nat /\ id \in Nat /\ st \in BOOLEAN
    <3>1. idx \in Nat /\ st \in BOOLEAN /\ c1.len_idx \in Nat /\ c1.id \in Nat
      BY <1>9 DEF MeshType
    <3> HIDE DEF idx
    <3> QED
      BY <3>1, WrapIs
  <2>2. r1 = IF c1.dst_idx + 1 >= Len(Dst) THEN [c1 EXCEPT !.dst_idx = c1.dst_idx + 1]
             ELSE [c1 EXCEPT !.dst_idx = c1.dst_idx + 1, !.id = Wrap(c1.len_idx, c1.dst_idx + 1)]
    BY <1>9, RightIs
  <2>3. r2 = IF c2.dst_idx + 1 >= Len(Dst) THEN [c2 EXCEPT !.dst_idx = c2.dst_idx + 1]
             ELSE [c2 EXCEPT !.dst_idx = c2.dst_idx + 1, !.id = Wrap(c2.len_idx, c2.dst_idx + 1)]
    BY <1>9, <1>11, RightIs
  <2>4. r1 = [c1 EXCEPT !.dst_idx = idx, !.id = id, !.stopped = st]
    BY <1>9, <2>2 DEF MeshType
  <2>5. r2 = [c2 EXCEPT !.dst_idx = idx, !.id = id, !.stopped = st]
    BY <1>9, <1>11, <2>3 DEF MeshType
  <2> HIDE DEF r1, r2, idx, id, st
  <2>6. r1 \in MeshType /\ r2 \in MeshType
    BY <1>9, <1>11, <2>1, <2>4, <2>5 DEF MeshType
  <2>7. Alike(r1, r2)
    BY <1>13, <2>1, <2>4, <2>5, <2>6
  <2> QED
    BY <1>10, <1>15, <2>7 DEF r1, r2, read, k
<1> QED
  BY <1>14, <1>15

LEMMA MeshBegins ==
  ASSUME NEW t, NEW p \in Nat
  PROVE  /\ MeshOK(t, p, 0, Reset) /\ Alike(Reset, ReadMesh(t, p)[0]) /\ 0 \in 0 .. Depth(t, p)
BY MeshStart, AlikeStart, ReadMeshIs, DepthIs

(* The level asked for next keeps both.                                    *)
LEMMA MeshAdvances ==
  ASSUME NEW t, Len(t) \in Nat, NEW p \in 0 .. Len(t), NEW n \in Nat, n < Depth(t, p), NEW m,
         MeshOK(t, p, n, m), Alike(m, ReadMesh(t, p)[n]), NEW match \in MaxMatch(t, p, n + 1)
  PROVE  /\ MeshOK(t, p, n + 1, Level(m, match))
         /\ Alike(Level(m, match), ReadMesh(t, p)[n + 1])
         /\ n + 1 \in 0 .. Depth(t, p)
<1>1. /\ Depth(t, p) \in Nat /\ Depth(t, p) <= Len(Dst) /\ Len(Dst) \in Nat /\ p \in Nat
  BY DepthIs, ClassesAssumption, ClassesIncrease
<1>2. n \in 0 .. Depth(t, p) /\ n \in 0 .. (Len(Dst) - 1) /\ n + 1 \in 0 .. Depth(t, p)
      /\ n + 1 \in 1 .. Len(Dst) /\ (n + 1) - 1 = n
  BY <1>1
<1>3. ~ ReadMesh(t, p)[n].stopped
  BY <1>1, <1>2, AsksMore
<1>4. ~ m.stopped
  <2> DEFINE m2 == ReadMesh(t, p)[n]
  <2>1. m \in MeshType /\ Alike(m, m2)
    BY DEF MeshOK
  <2> HIDE DEF m2
  <2>2. m2.stopped = m.stopped
    BY <2>1, AlikeType
  <2> QED
    BY <1>3, <2>2 DEF m2
<1>5. MeshOK(t, p, n + 1, Level(m, match))
  BY <1>2, <1>4, MeshStep
<1>6. Alike(Level(m, match), Level(ReadMesh(t, p)[n], MatchAt(t, p, n + 1)))
  BY <1>2, <1>4, LevelAlike
<1> DEFINE k == n + 1
<1>7. k \in 1 .. Len(Dst) /\ k - 1 = n
  BY <1>2
<1> HIDE DEF k
<1>8. ReadMesh(t, p)[k] = Level(ReadMesh(t, p)[k - 1], MatchAt(t, p, k))
  BY <1>7, ReadMeshIs
<1>9. ReadMesh(t, p)[k] = Level(ReadMesh(t, p)[n], MatchAt(t, p, k))
  BY <1>7, <1>8
<1> QED
  BY <1>2, <1>5, <1>6, <1>9 DEF k

(* Some generator's mesh is alike to each one read.                        *)
LEMMA ReadIsMade ==
  ASSUME NEW t, Len(t) \in Nat, NEW p \in 0 .. Len(t), NEW n \in 0 .. Depth(t, p)
  PROVE  \E m : MeshOK(t, p, n, m) /\ Alike(m, ReadMesh(t, p)[n])
<1> DEFINE Made(k) == \E m : MeshOK(t, p, k, m) /\ Alike(m, ReadMesh(t, p)[k])
           T == {k \in Nat : k <= Depth(t, p) => Made(k)}
<1>1. 0 \in T
  BY MeshBegins
<1>2. ASSUME NEW k \in Nat, k \in T PROVE (k + 1) \in T
  <2>1. ASSUME k + 1 <= Depth(t, p) PROVE Made(k + 1)
    <3>1. k < Depth(t, p) /\ k <= Depth(t, p) /\ Depth(t, p) <= Len(Dst) /\ Len(Dst) \in Nat
      BY <2>1, DepthIs, ClassesAssumption, ClassesIncrease
    <3>2. PICK m : MeshOK(t, p, k, m) /\ Alike(m, ReadMesh(t, p)[k])
      BY <1>2, <3>1
    <3>3. \E match : match \in MaxMatch(t, p, k + 1)
      BY Zenon DEF MaxMatch
    <3>4. PICK match \in MaxMatch(t, p, k + 1) : TRUE
      BY <3>3
    <3>5. MeshOK(t, p, k + 1, Level(m, match)) /\ Alike(Level(m, match), ReadMesh(t, p)[k + 1])
      BY <3>1, <3>2, MeshAdvances
    <3> QED
      BY <3>5
  <2> HIDE DEF Made
  <2> QED
    BY <2>1
<1> HIDE DEF T, Made
<1>3. n \in T
  BY <1>1, <1>2, DepthIs, InductionOn
<1>4. n <= Depth(t, p)
  BY DepthIs
<1>5. Made(n)
  BY <1>3, <1>4 DEF T
<1> QED
  BY <1>5 DEF Made

(* The edges a parse is given at a position and those read there.          *)
SameCopies(t, p, es1, es2) ==
  /\ Len(es1) \in Nat /\ Len(es2) = Len(es1) /\ Len(es1) <= MaxLevels
  /\ DOMAIN es1 = 1 .. Len(es1) /\ DOMAIN es2 = 1 .. Len(es1) /\ es2 \in Seq(MeshEdge)
  /\ \A q \in 1 .. Len(es1) :
       /\ GoodEdge(t, p, es1[q]) /\ es2[q].ell = es1[q].ell /\ es2[q].cost_id = es1[q].cost_id
       /\ es2[q].d \in Nat /\ es2[q].d <= p /\ es2[q].cost_id = GetId(es2[q].d, es2[q].ell)
       /\ es2[q].ell \in Nat \ {0} /\ p + es2[q].ell <= Len(t)
  /\ \A q, r \in 1 .. Len(es1) : es1[q].ell = es1[r].ell => q = r

LEMMA RisingApart ==
  ASSUME NEW es \in Seq(MeshEdge), Rising(es)
  PROVE  \A q, r \in 1 .. Len(es) : es[q].ell = es[r].ell => q = r
<1> DEFINE N == Len(es)
           T == {n \in Nat : \A q \in 1 .. N : q + n + 1 <= N => es[q].ell < es[q + n + 1].ell}
<1>1. N \in Nat /\ \A q \in 1 .. N : es[q].ell \in Nat
  <2>1. N \in Nat /\ \A q \in 1 .. N : es[q] \in MeshEdge
    OBVIOUS
  <2> QED
    BY <2>1 DEF MeshEdge
<1>2. \A q \in 2 .. N : es[q - 1].ell < es[q].ell
  BY DEF Rising
<1>3. ASSUME NEW q \in 1 .. N, q + 1 <= N PROVE es[q].ell < es[q + 1].ell
  <2>1. q + 1 \in 2 .. N /\ (q + 1) - 1 = q
    BY <1>1, <1>3
  <2> DEFINE r == q + 1
  <2> HIDE DEF r
  <2>2. r \in 2 .. N /\ r - 1 = q
    BY <2>1 DEF r
  <2>3. es[r - 1].ell < es[r].ell
    BY <1>2, <2>2
  <2> QED
    BY <2>2, <2>3 DEF r
<1> HIDE DEF N
<1>4. 0 \in T
  <2>1. \A q \in 1 .. N : q + 0 + 1 = q + 1
    BY <1>1
  <2> QED
    BY <1>3, <2>1
<1>5. ASSUME NEW n \in Nat, n \in T PROVE (n + 1) \in T
  <2>1. ASSUME NEW q \in 1 .. N, q + (n + 1) + 1 <= N PROVE es[q].ell < es[q + (n + 1) + 1].ell
    <3> DEFINE r == q + n + 1
               u == r + 1
    <3>1. r \in 1 .. N /\ r + 1 <= N /\ q + (n + 1) + 1 = u /\ u \in 1 .. N
      BY <1>1, <2>1
    <3>2. es[q].ell < es[r].ell
      BY <1>5, <3>1
    <3> HIDE DEF r
    <3>3. es[r].ell < es[u].ell
      BY <1>3, <3>1
    <3> HIDE DEF u
    <3>4. es[q].ell \in Nat /\ es[r].ell \in Nat /\ es[u].ell \in Nat
      BY <1>1, <3>1
    <3>5. es[q].ell < es[u].ell
      BY <3>2, <3>3, <3>4
    <3> QED
      BY <3>1, <3>5
  <2> QED
    BY <2>1
<1> HIDE DEF T
<1>6. Nat \subseteq T
  BY <1>4, <1>5, InductionOn
<1>7. ASSUME NEW q \in 1 .. N, NEW r \in 1 .. N, q < r PROVE es[q].ell < es[r].ell
  <2> DEFINE n == r - q - 1
  <2>1. n \in Nat /\ q + n + 1 = r
    BY <1>1, <1>7
  <2> HIDE DEF n
  <2>2. n \in T
    BY <1>6, <2>1
  <2> QED
    BY <2>1, <2>2 DEF T
<1>8. ASSUME NEW q \in 1 .. N, NEW r \in 1 .. N, es[q].ell = es[r].ell PROVE q = r
  <2>1. ~ (q < r) /\ ~ (r < q)
    BY <1>1, <1>7, <1>8
  <2> QED
    BY <1>1, <2>1
<1> QED
  BY <1>8 DEF N

LEMMA AlikeCopies ==
  ASSUME NEW t, Len(t) \in Nat, NEW p \in 0 .. Len(t), NEW n \in 0 .. Depth(t, p), NEW m1, NEW m2,
         MeshOK(t, p, n, m1), Alike(m1, m2)
  PROVE  SameCopies(t, p, m1.edges, m2.edges)
<1> DEFINE es1 == m1.edges
           es2 == m2.edges
<1>1. es1 \in Seq(MeshEdge) /\ m1.cur \in Nat /\ EdgesOK(t, p, n, es1, m1.cur)
  BY DEF MeshOK, MeshType
<1>2. AlikeEdges(es1, es2)
  BY DEF Alike
<1> DEFINE cur == m1.cur
<1>3. cur \in Nat /\ EdgesOK(t, p, n, es1, cur)
  BY <1>1
<1> HIDE DEF es1, es2, cur
<1>4. Len(es1) \in Nat /\ Len(es2) = Len(es1) /\ es2 \in Seq(MeshEdge)
  BY <1>1, <1>2 DEF AlikeEdges
<1>5. Len(es1) <= MaxLevels
  <2>1. LowerBound(Lens, cur + 1) \in 0 .. Len(Lens) /\ Len(Lens) \in Nat /\ Len(Dst) \in Nat
    BY <1>3, EndedBy, ClassesAssumption, ClassesIncrease
  <2>2. Len(es1) <= n + LowerBound(Lens, cur + 1)
    BY <1>3 DEF EdgesOK
  <2>3. n \in Nat /\ n <= Len(Dst)
    BY <2>1, DepthIs
  <2> QED
    BY <1>4, <2>1, <2>2, <2>3 DEF MaxLevels
<1>6. ASSUME NEW q \in 1 .. Len(es1)
      PROVE  /\ GoodEdge(t, p, es1[q]) /\ es2[q].ell = es1[q].ell /\ es2[q].cost_id = es1[q].cost_id
             /\ es2[q].d \in Nat /\ es2[q].d <= p /\ es2[q].cost_id = GetId(es2[q].d, es2[q].ell)
             /\ es2[q].ell \in Nat \ {0} /\ p + es2[q].ell <= Len(t)
  <2>1. GoodEdge(t, p, es1[q])
    BY <1>3 DEF EdgesOK
  <2>2. /\ es2[q].ell = es1[q].ell /\ es2[q].cost_id = es1[q].cost_id /\ es2[q].d <= es1[q].d
        /\ LowerBound(Dst, es2[q].d) = LowerBound(Dst, es1[q].d)
    BY <1>2 DEF AlikeEdges
  <2>3. es2[q] \in MeshEdge
    BY <1>4
  <2> DEFINE e == es1[q]
  <2>4. IsCopy(t, p, e) /\ e.cost_id = GetId(e.d, e.ell)
    BY <2>1 DEF GoodEdge
  <2> HIDE DEF e
  <2>5. e.d \in Nat \ {0} /\ e.d <= p /\ e.ell \in Nat \ {0} /\ p + e.ell <= Len(t)
    BY <2>4, CopyClasses
  <2>6. GetId(es2[q].d, es2[q].ell) = GetId(e.d, e.ell)
    BY <2>2 DEF GetId, e
  <2>7. es2[q].d \in Nat
    BY <2>3 DEF MeshEdge
  <2> QED
    BY <2>1, <2>2, <2>4, <2>5, <2>6, <2>7 DEF e
<1>7. \A q, r \in 1 .. Len(es1) : es1[q].ell = es1[r].ell => q = r
  <2>1. Rising(es1)
    BY <1>3 DEF EdgesOK
  <2> QED
    BY <1>1, <2>1, RisingApart
<1>8. DOMAIN es1 = 1 .. Len(es1) /\ DOMAIN es2 = 1 .. Len(es1)
  BY <1>1, <1>4
<1>9. SameCopies(t, p, es1, es2)
  BY <1>4, <1>5, <1>6, <1>7, <1>8 DEF SameCopies
<1> QED
  BY <1>9 DEF es1, es2

LEMMA SamePrices ==
  ASSUME NEW t, NEW p, NEW es1, NEW es2, SameCopies(t, p, es1, es2)
  PROVE  Priced(es1) = Priced(es2)
BY DEF SameCopies, Priced

(* What is read at a position, for short: copies of it by their classes.   *)
LEMMA ReadEdgesAre ==
  ASSUME NEW t, Len(t) \in Nat, NEW p \in 0 .. Len(t)
  PROVE  \E es : SameCopies(t, p, es, ReadEdges(t, p))
<1> DEFINE n == Depth(t, p)
<1>1. n \in 0 .. Depth(t, p)
  BY DepthIs
<1> HIDE DEF n
<1>2. PICK m : MeshOK(t, p, n, m) /\ Alike(m, ReadMesh(t, p)[n])
  BY <1>1, ReadIsMade
<1>3. SameCopies(t, p, m.edges, ReadMesh(t, p)[n].edges)
  BY <1>1, <1>2, AlikeCopies
<1> QED
  BY <1>3 DEF ReadEdges, n
-------------------------------------------------------------------------------
(* Codes and streams.                                                      *)

LEMMA CodesAreFinite ==
  ASSUME NEW t, NEW k, NEW p \in Nat
  PROVE  /\ IsFiniteSet({q \in 0 .. (p - 1) : k <= Depth(t, q)})
         /\ CodesBefore(t, k, p) \in Nat
<1> DEFINE S == {q \in 0 .. (p - 1) : k <= Depth(t, q)}
<1>1. IsFiniteSet(0 .. (p - 1)) /\ S \subseteq 0 .. (p - 1) /\ CodesBefore(t, k, p) = Cardinality(S)
  BY FS_Interval DEF CodesBefore
<1> HIDE DEF S
<1>2. IsFiniteSet(S)
  BY <1>1, FS_Subset
<1> QED
  BY <1>1, <1>2, FS_CardinalityType DEF S

LEMMA CountingBegins ==
  ASSUME NEW t, NEW k
  PROVE  CodesBefore(t, k, 0) = 0
<1> DEFINE S == {q \in 0 .. (0 - 1) : k <= Depth(t, q)}
<1>1. S = {} /\ CodesBefore(t, k, 0) = Cardinality(S)
  BY DEF CodesBefore
<1> HIDE DEF S
<1> QED
  BY <1>1, FS_EmptySet

LEMMA Counting ==
  ASSUME NEW t, NEW k, NEW p \in Nat
  PROVE  /\ CodesBefore(t, k, p) \in Nat
         /\ k <= Depth(t, p) => CodesBefore(t, k, p + 1) = CodesBefore(t, k, p) + 1
         /\ ~ (k <= Depth(t, p)) => CodesBefore(t, k, p + 1) = CodesBefore(t, k, p)
<1> DEFINE S == {q \in 0 .. (p - 1) : k <= Depth(t, q)}
           R == {q \in 0 .. ((p + 1) - 1) : k <= Depth(t, q)}
<1>1. IsFiniteSet(S) /\ Cardinality(S) \in Nat /\ CodesBefore(t, k, p) = Cardinality(S)
      /\ CodesBefore(t, k, p + 1) = Cardinality(R)
  BY CodesAreFinite DEF CodesBefore
<1>2. k <= Depth(t, p) => R = S \union {p} /\ p \notin S
  OBVIOUS
<1>3. ~ (k <= Depth(t, p)) => R = S
  OBVIOUS
<1> HIDE DEF S, R
<1> QED
  BY <1>1, <1>2, <1>3, FS_AddElement

LEMMA CountingGrows ==
  ASSUME NEW t, NEW k, NEW p \in Nat, NEW q \in Nat, p <= q
  PROVE  CodesBefore(t, k, p) <= CodesBefore(t, k, q)
<1> DEFINE c(x) == CodesBefore(t, k, x)
           T == {n \in Nat : c(p) <= c(p + n)}
<1>1. ASSUME NEW x \in Nat PROVE c(x) \in Nat /\ c(x + 1) \in Nat /\ c(x) <= c(x + 1)
  <2>1. x + 1 \in Nat
    OBVIOUS
  <2> DEFINE y == x + 1
  <2> HIDE DEF y
  <2>2. CodesBefore(t, k, y) \in Nat
    BY <2>1, Counting DEF y
  <2> QED
    BY <2>2, Counting DEF y
<1> HIDE DEF c
<1>2. 0 \in T
  <2>1. p + 0 = p
    OBVIOUS
  <2> QED
    BY <1>1, <2>1
<1>3. ASSUME NEW n \in Nat, n \in T PROVE (n + 1) \in T
  <2> DEFINE x == p + n
  <2>1. x \in Nat /\ p + (n + 1) = x + 1 /\ c(p) <= c(x)
    BY <1>3
  <2> HIDE DEF x
  <2>2. c(p) <= c(x + 1)
    BY <1>1, <2>1
  <2> QED
    BY <2>1, <2>2
<1>4. q - p \in Nat /\ p + (q - p) = q
  OBVIOUS
<1> DEFINE n == q - p
<1>5. n \in T
  <2> HIDE DEF T, n
  <2>1. n \in Nat
    BY <1>4 DEF n
  <2> QED
    BY <1>2, <1>3, <2>1, InductionOn
<1>6. c(p) <= c(p + n)
  BY <1>5
<1> QED
  BY <1>4, <1>6 DEF c

LEMMA CodeIs ==
  ASSUME NEW v \in Int
  PROVE  Decode(Encode(v)) = v /\ Encode(v) \in CodeWord
BY MaxUnaryAssumption DEF Encode, Decode, CodeWord

LEMMA BaseIs ==
  ASSUME NEW t, Len(t) \in Nat, NEW p \in 0 .. Len(t), NEW k \in 1 .. Len(Dst)
  PROVE  BaseAt(t, p, k) \in Nat /\ LengthAt(t, p, k) \in Nat
<1>1. LengthAt(t, p, k) \in Nat
  BY LengthIs
<1>2. CASE p = 0
  BY <1>1, <1>2 DEF BaseAt
<1>3. CASE p # 0
  <2> DEFINE q == p - 1
  <2>1. q \in 0 .. Len(t)
    BY <1>3
  <2> HIDE DEF q
  <2>2. LengthAt(t, q, k) \in Nat
    BY <2>1, LengthIs
  <2>3. LengthAt(t, p - 1, k) \in Nat
    BY <2>2 DEF q
  <2> QED
    BY <1>1, <2>3 DEF BaseAt
<1> QED
  BY <1>2, <1>3

LEMMA StreamStarts ==
  ASSUME NEW t, NEW k
  PROVE  Written(t, k, 0, <<>>)
BY CountingBegins DEF Written

LEMMA StreamWritten ==
  ASSUME NEW t, Len(t) \in Nat, NEW k \in 1 .. Len(Dst), NEW p \in Nat, p <= Len(t), k <= Depth(t, p),
         NEW codes, Written(t, k, p, codes)
  PROVE  Written(t, k, p + 1, Append(codes, CodeAt(t, p, k)))
<1> DEFINE new == Append(codes, CodeAt(t, p, k))
           c(x) == CodesBefore(t, k, x)
<1>1. CodeAt(t, p, k) \in CodeWord
  <2>1. LengthAt(t, p, k) - BaseAt(t, p, k) \in Int
    BY BaseIs
  <2> DEFINE v == LengthAt(t, p, k) - BaseAt(t, p, k)
  <2> HIDE DEF v
  <2>2. v \in Int
    BY <2>1 DEF v
  <2>3. Encode(v) \in CodeWord
    BY <2>2, CodeIs
  <2> QED
    BY <2>3 DEF CodeAt, v
<1>2. codes \in Seq(CodeWord) /\ Len(codes) = c(p) /\ c(p) \in Nat /\ c(p + 1) = c(p) + 1
  BY Counting DEF Written
<1>3. /\ new \in Seq(CodeWord) /\ Len(new) = c(p) + 1 /\ new[c(p) + 1] = CodeAt(t, p, k)
      /\ \A n \in 1 .. c(p) : new[n] = codes[n]
  BY <1>1, <1>2
<1> HIDE DEF new
<1>4. ASSUME NEW q \in 0 .. ((p + 1) - 1), k <= Depth(t, q) PROVE new[c(q) + 1] = CodeAt(t, q, k)
  <2>1. CASE q = p
    BY <1>3, <2>1
  <2>2. CASE q # p
    <3>1. q \in 0 .. (p - 1) /\ q \in Nat /\ q + 1 \in Nat /\ q + 1 <= p
      BY <2>2
    <3>2. codes[c(q) + 1] = CodeAt(t, q, k)
      BY <1>4, <3>1 DEF Written
    <3>3. c(q) \in Nat /\ c(q + 1) = c(q) + 1
      BY <1>4, <3>1, Counting
    <3> DEFINE r == q + 1
    <3>4. r \in Nat /\ r <= p
      BY <3>1
    <3> HIDE DEF r
    <3>5. CodesBefore(t, k, r) <= CodesBefore(t, k, p)
      BY <3>4, CountingGrows
    <3>6. c(q) + 1 \in 1 .. c(p)
      BY <1>2, <3>3, <3>5 DEF r
    <3> QED
      BY <1>3, <3>2, <3>6
  <2> QED
    BY <2>1, <2>2
<1> QED
  BY <1>2, <1>3, <1>4 DEF Written, new

LEMMA StreamLeft ==
  ASSUME NEW t, NEW k, NEW p \in Nat, ~ (k <= Depth(t, p)), NEW codes, Written(t, k, p, codes)
  PROVE  Written(t, k, p + 1, codes)
<1>1. CodesBefore(t, k, p + 1) = CodesBefore(t, k, p)
  BY Counting
<1>2. ASSUME NEW q \in 0 .. ((p + 1) - 1), k <= Depth(t, q) PROVE q \in 0 .. (p - 1)
  <2>1. q # p
    BY <1>2
  <2> QED
    BY <2>1
<1> QED
  BY <1>1, <1>2 DEF Written

(* All that is written is to be read.                                      *)
LEMMA StreamRewound ==
  ASSUME NEW t, Len(t) \in Nat, NEW k, NEW codes, Written(t, k, Len(t), codes)
  PROVE  Unread(t, k, 0, codes)
<1> DEFINE c(x) == CodesBefore(t, k, x)
<1>1. c(0) = 0 /\ c(Len(t)) \in Nat
  BY Counting, CountingBegins
<1>2. codes \in Seq(CodeWord) /\ Len(codes) = c(Len(t)) - c(0)
  BY <1>1 DEF Written
<1>3. ASSUME NEW q \in 0 .. (Len(t) - 1), k <= Depth(t, q)
      PROVE  codes[c(q) - c(0) + 1] = CodeAt(t, q, k)
  <2>1. c(q) \in Nat
    BY Counting
  <2>2. codes[c(q) + 1] = CodeAt(t, q, k)
    BY <1>3 DEF Written
  <2>3. c(q) - c(0) + 1 = c(q) + 1
    BY <1>1, <2>1
  <2> QED
    BY <2>2, <2>3
<1> QED
  BY <1>2, <1>3 DEF Unread

LEMMA StreamRead ==
  ASSUME NEW t, Len(t) \in Nat, NEW k, NEW p \in Nat, p < Len(t), k <= Depth(t, p),
         NEW codes, Unread(t, k, p, codes)
  PROVE  /\ codes # <<>> /\ Head(codes) = CodeAt(t, p, k)
         /\ Unread(t, k, p + 1, Tail(codes))
<1> DEFINE c(x) == CodesBefore(t, k, x)
           N == Len(t)
<1>1. c(p) \in Nat /\ c(p + 1) = c(p) + 1 /\ c(N) \in Nat
  BY Counting
<1>2. c(p) + 1 <= c(N)
  <2> DEFINE r == p + 1
  <2>1. r \in Nat /\ r <= Len(t)
    OBVIOUS
  <2> HIDE DEF r
  <2>2. CodesBefore(t, k, r) <= CodesBefore(t, k, Len(t))
    BY <2>1, CountingGrows
  <2> QED
    BY <1>1, <2>2 DEF r
<1>3. codes \in Seq(CodeWord) /\ Len(codes) = c(N) - c(p)
  BY DEF Unread
<1>4. \A q \in p .. (N - 1) : k <= Depth(t, q) => codes[c(q) - c(p) + 1] = CodeAt(t, q, k)
  BY DEF Unread
<1>5. codes[1] = CodeAt(t, p, k)
  <2>1. p \in p .. (N - 1) /\ c(p) - c(p) + 1 = 1
    BY <1>1
  <2>2. codes[c(p) - c(p) + 1] = CodeAt(t, p, k)
    BY <1>4, <2>1
  <2> QED
    BY <2>1, <2>2
<1> HIDE DEF c, N
<1>6. Len(codes) \in Nat \ {0}
  BY <1>1, <1>2, <1>3
<1>7. codes # <<>> /\ Head(codes) = codes[1]
  BY <1>3, <1>6
<1> DEFINE rest == Tail(codes)
<1>8. /\ rest \in Seq(CodeWord) /\ Len(rest) = Len(codes) - 1
      /\ \A n \in 1 .. (Len(codes) - 1) : rest[n] = codes[n + 1]
  BY <1>3, <1>6, <1>7
<1> HIDE DEF rest
<1>9. Len(rest) = c(N) - c(p + 1)
  BY <1>1, <1>3, <1>8
<1>10. ASSUME NEW q \in (p + 1) .. (N - 1), k <= Depth(t, q)
       PROVE  rest[c(q) - c(p + 1) + 1] = CodeAt(t, q, k)
  <2>0. N \in Nat
    BY DEF N
  <2>1. q \in Nat /\ q + 1 \in Nat /\ p + 1 \in Nat /\ p + 1 <= q /\ q + 1 <= N /\ q \in p .. (N - 1)
    BY <2>0
  <2>2. c(q) \in Nat /\ c(q + 1) = c(q) + 1
    BY <1>10, <2>1, Counting DEF c
  <2>3. c(p + 1) <= c(q)
    <3> DEFINE r == p + 1
    <3> HIDE DEF r
    <3>1. r \in Nat /\ r <= q
      BY <2>1 DEF r
    <3>2. CodesBefore(t, k, r) <= CodesBefore(t, k, q)
      BY <2>1, <3>1, CountingGrows
    <3> QED
      BY <3>2 DEF r, c
  <2>4. c(q + 1) <= c(N)
    <3> DEFINE r == q + 1
    <3> HIDE DEF r
    <3>1. r \in Nat /\ r <= N
      BY <2>1 DEF r
    <3>2. CodesBefore(t, k, r) <= CodesBefore(t, k, N)
      BY <2>0, <3>1, CountingGrows
    <3> QED
      BY <3>2 DEF r, c
  <2> DEFINE n == c(q) - c(p + 1) + 1
  <2>5. n \in 1 .. (Len(codes) - 1) /\ n + 1 = c(q) - c(p) + 1
    <3> DEFINE x == c(p)
               y == c(q)
               z == c(N)
               w == c(p + 1)
    <3>1. x \in Nat /\ y \in Nat /\ z \in Nat /\ w = x + 1 /\ w <= y /\ y + 1 <= z /\ Len(codes) = z - x
      BY <1>1, <1>3, <2>2, <2>3, <2>4
    <3>2. n = y - w + 1
      OBVIOUS
    <3> HIDE DEF n, x, y, z, w
    <3>3. n \in 1 .. (Len(codes) - 1) /\ n + 1 = y - x + 1
      BY <3>1, <3>2
    <3> QED
      BY <3>3 DEF x, y
  <2> HIDE DEF n
  <2>6. codes[n + 1] = CodeAt(t, q, k)
    BY <1>4, <1>10, <2>1, <2>5
  <2> QED
    BY <1>8, <2>5, <2>6 DEF n
<1> QED
  BY <1>5, <1>7, <1>8, <1>9, <1>10 DEF Unread, rest, c, N

LEMMA StreamPassed ==
  ASSUME NEW t, Len(t) \in Nat, NEW k, NEW p \in Nat, ~ (k <= Depth(t, p)),
         NEW codes, Unread(t, k, p, codes)
  PROVE  Unread(t, k, p + 1, codes)
<1>1. CodesBefore(t, k, p + 1) = CodesBefore(t, k, p)
  BY Counting
<1>2. \A q \in (p + 1) .. (Len(t) - 1) : q \in p .. (Len(t) - 1)
  OBVIOUS
<1> QED
  BY <1>1, <1>2 DEF Unread

LEMMA StreamOver ==
  ASSUME NEW t, Len(t) \in Nat, NEW k, NEW codes, Unread(t, k, Len(t), codes)
  PROVE  codes = <<>>
<1>1. CodesBefore(t, k, Len(t)) \in Nat
  BY Counting
<1>2. codes \in Seq(CodeWord) /\ Len(codes) = CodesBefore(t, k, Len(t)) - CodesBefore(t, k, Len(t))
  BY DEF Unread
<1>3. Len(codes) = 0
  BY <1>1, <1>2
<1> QED
  BY <1>2, <1>3
-------------------------------------------------------------------------------
(* What a level remembers, and how many there are.                         *)

LEMMA RecallsStart ==
  ASSUME NEW t, NEW k \in Nat \ {0}
  PROVE  Recalls(t, k, 0, 0, [len |-> 1, pos |-> -1])
BY DEF Recalls

LEMMA RecallsOther ==
  ASSUME NEW t, NEW k \in Nat, NEW p, NEW n \in Nat, k # n + 1, NEW last, Recalls(t, k, p, n, last)
  PROVE  Recalls(t, k, p, n + 1, last)
<1>1. (k <= n + 1 <=> k <= n) /\ (k > n + 1 <=> k > n)
  OBVIOUS
<1> QED
  BY <1>1 DEF Recalls

LEMMA RecallsNow ==
  ASSUME NEW t, NEW k \in Nat, NEW p \in Nat, LengthAt(t, p, k) \in Nat
  PROVE  Recalls(t, k, p, k, [len |-> LengthAt(t, p, k), pos |-> p])
BY DEF Recalls

LEMMA RecallsNext ==
  ASSUME NEW t, NEW k \in Nat \ {0}, NEW p \in Nat, Depth(t, p) \in Nat, NEW last,
         Recalls(t, k, p, Depth(t, p), last)
  PROVE  Recalls(t, k, p + 1, 0, last)
<1> DEFINE r == p + 1
           n == Depth(t, p)
<1>1. r > 0 /\ r - 1 = p /\ r \in Nat
  OBVIOUS
<1>2. /\ last \in [len : Nat, pos : Int]
      /\ k <= n => last.len = LengthAt(t, p, k) /\ last.pos = p
      /\ k > n => last.pos < p
  BY DEF Recalls
<1>3. last.pos \in Int /\ n \in Nat
  BY <1>2
<1> HIDE DEF r, n
<1>4. /\ last.pos < r /\ (last.pos = p <=> k <= n) /\ (k <= n => last.len = LengthAt(t, p, k))
  BY <1>1, <1>2, <1>3
<1>5. Recalls(t, k, r, 0, last)
  <2>1. last.pos = r - 1 <=> k <= Depth(t, r - 1)
    BY <1>1, <1>4 DEF n
  <2>2. k <= Depth(t, r - 1) => last.len = LengthAt(t, r - 1, k)
    BY <1>1, <1>4 DEF n
  <2>3. k > 0 /\ ~ (k <= 0)
    OBVIOUS
  <2> QED
    BY <1>2, <1>4, <2>1, <2>2, <2>3 DEF Recalls
<1> QED
  BY <1>5 DEF r

LEMMA BaseRecalled ==
  ASSUME NEW t, NEW k \in Nat, NEW p \in Nat, NEW n \in Nat, n < k, NEW last, Recalls(t, k, p, n, last)
  PROVE  BaseAt(t, p, k) = IF p > 0 /\ last.pos = p - 1 THEN (IF last.len > 0 THEN last.len - 1 ELSE 0) ELSE 0
<1>1. k > n
  OBVIOUS
<1>2. /\ p > 0 => (last.pos = p - 1 <=> k <= Depth(t, p - 1))
      /\ p > 0 /\ k <= Depth(t, p - 1) => last.len = LengthAt(t, p - 1, k)
  BY <1>1 DEF Recalls
<1> QED
  BY <1>2, Zenon DEF BaseAt

(* Levels counts the classes that end before the position, but the last.   *)
LEMMA LevelsCount ==
  ASSUME NEW p \in Nat
  PROVE  /\ Levels(p) - 1 \in 0 .. (Len(Dst) - 1) /\ Len(Dst) \in Nat \ {0}
         /\ \A k \in 1 .. (Len(Dst) - 1) : Dst[k] < p <=> k <= Levels(p) - 1
<1> DEFINE N == Len(Dst)
           lb == LowerBound(Dst, p)
<1>1. /\ N \in Nat \ {0} /\ Last(Dst) = Dst[N]
      /\ \A k \in 1 .. N : Dst[k] \in Nat \ {0} /\ Dst[k] <= Dst[N]
  BY ClassesIncrease, ClassesAssumption DEF Last
<1>2. /\ lb \in 0 .. N /\ \A k \in 1 .. N : Dst[k] < p <=> k <= lb
      /\ p <= Last(Dst) => lb < N
  BY LowerBoundIs, ClassesAssumption
<1>3. Levels(p) = IF p > Last(Dst) THEN N ELSE 1 + lb
  BY DEF Levels
<1> DEFINE last == Dst[N]
<1>4. last \in Nat
  BY <1>1
<1> HIDE DEF N, lb, last
<1>5. CASE p > last
  <2>1. Levels(p) - 1 = N - 1
    BY <1>1, <1>3, <1>5 DEF last
  <2>2. ASSUME NEW k \in 1 .. (N - 1) PROVE Dst[k] < p <=> k <= N - 1
    <3>1. k \in 1 .. N /\ k <= N - 1
      BY <1>1
    <3>2. Dst[k] \in Nat /\ Dst[k] <= last
      BY <1>1, <3>1 DEF last
    <3> QED
      BY <1>4, <1>5, <3>1, <3>2
  <2> QED
    BY <1>1, <2>1, <2>2 DEF N
<1>6. CASE ~ (p > last)
  <2>1. Levels(p) - 1 = lb /\ lb < N
    <3>1. p <= last
      BY <1>4, <1>6
    <3> QED
      BY <1>1, <1>2, <1>3, <1>6, <3>1 DEF last
  <2>2. \A k \in 1 .. (N - 1) : k \in 1 .. N
    BY <1>1
  <2> QED
    BY <1>1, <1>2, <2>1, <2>2 DEF N
<1> QED
  BY <1>5, <1>6

LEMMA LevelsFit ==
  ASSUME NEW t, Len(t) \in Nat, NEW p \in 0 .. Len(t)
  PROVE  Levels(p) <= 1 + LowerBound(Dst, Len(t))
<1>1. p \in Nat /\ p <= Len(t)
  OBVIOUS
<1>2. LowerBound(Dst, p) <= LowerBound(Dst, Len(t))
  BY <1>1, ClassesGrow, ClassesAssumption
<1>3. /\ LowerBound(Dst, p) \in 0 .. Len(Dst) /\ LowerBound(Dst, Len(t)) \in 0 .. Len(Dst)
      /\ \A k \in 1 .. Len(Dst) : Dst[k] < p <=> k <= LowerBound(Dst, p)
  BY <1>1, LowerBoundIs, ClassesAssumption
<1>4. /\ Len(Dst) \in Nat \ {0} /\ Last(Dst) = Dst[Len(Dst)] /\ Dst[Len(Dst)] \in Nat
  BY ClassesIncrease, ClassesAssumption DEF Last
<1>5. CASE p > Last(Dst)
  <2>1. Levels(p) = Len(Dst)
    BY <1>5 DEF Levels
  <2> DEFINE N == Len(Dst)
  <2>2. N \in 1 .. Len(Dst) /\ Dst[N] < p
    BY <1>1, <1>4, <1>5
  <2>3. N <= LowerBound(Dst, p)
    BY <1>3, <2>2
  <2> QED
    BY <1>2, <1>3, <1>4, <2>1, <2>3
<1>6. CASE ~ (p > Last(Dst))
  <2>1. Levels(p) = 1 + LowerBound(Dst, p)
    BY <1>6 DEF Levels
  <2> QED
    BY <1>2, <1>3, <2>1
<1> QED
  BY <1>5, <1>6

(* The index cached_fsg_gen moves forward follows the levels.              *)
LEMMA LevelsCounted ==
  ASSUME NEW p \in Nat, NEW cur, cur = IndexBefore(p)
  PROVE  Levels(p) - 1 = IF cur < Len(Dst) - 1 /\ Dst[cur + 1] < p THEN cur + 1 ELSE cur
<1> DEFINE N == Len(Dst)
           now == Levels(p) - 1
<1>1. /\ N \in Nat \ {0} /\ \A k \in 1 .. N : Dst[k] \in Nat \ {0}
      /\ \A k, n \in 1 .. N : k < n => Dst[k] < Dst[n]
  BY ClassesIncrease, ClassesAssumption
<1>2. now \in 0 .. (N - 1) /\ \A k \in 1 .. (N - 1) : Dst[k] < p <=> k <= now
  BY LevelsCount
<1>3. cur \in 0 .. (N - 1) /\ \A k \in 1 .. (N - 1) : Dst[k] < p - 1 <=> k <= cur
  <2>0. cur = IF p = 0 THEN 0 ELSE Levels(p - 1) - 1
    BY DEF IndexBefore
  <2>1. CASE p = 0
    <3>1. \A k \in 1 .. (N - 1) : k \in 1 .. N
      BY <1>1
    <3>2. \A k \in 1 .. (N - 1) : ~ (Dst[k] < p - 1) /\ ~ (k <= 0)
      BY <1>1, <2>1, <3>1
    <3> QED
      BY <1>1, <2>0, <2>1, <3>2
  <2>2. CASE p # 0
    <3> DEFINE q == p - 1
    <3>1. q \in Nat
      BY <2>2
    <3> HIDE DEF q
    <3>2. Levels(q) - 1 \in 0 .. (N - 1) /\ \A k \in 1 .. (N - 1) : Dst[k] < q <=> k <= Levels(q) - 1
      BY <3>1, LevelsCount
    <3> QED
      BY <2>0, <2>2, <3>2 DEF q
  <2> QED
    BY <2>1, <2>2
<1> HIDE DEF N, now
<1>4. cur <= now
  <2>1. CASE cur = 0
    BY <1>1, <1>2, <2>1
  <2>2. CASE cur # 0
    <3>0. cur \in 0 .. (N - 1) /\ N \in Nat
      BY <1>1, <1>3
    <3>1. cur \in 1 .. (N - 1) /\ cur \in 1 .. N
      BY <2>2, <3>0
    <3>2. Dst[cur] < p - 1 /\ Dst[cur] \in Nat
      BY <1>1, <1>3, <3>1
    <3>3. Dst[cur] < p
      BY <3>2
    <3> QED
      BY <1>2, <3>1, <3>3
  <2> QED
    BY <2>1, <2>2
<1>5. CASE cur < N - 1 /\ Dst[cur + 1] < p
  <2> DEFINE k == cur + 1
             n == cur + 2
  <2>1. k \in 1 .. (N - 1) /\ k \in 1 .. N /\ k < n /\ Dst[k] < p /\ cur \in Nat /\ ~ (k <= cur) /\ n = k + 1
    BY <1>1, <1>3, <1>5
  <2> HIDE DEF k, n
  <2>2. k <= now
    BY <1>2, <2>1
  <2>3. ~ (n <= now)
    <3> SUFFICES ASSUME n <= now PROVE FALSE
      OBVIOUS
    <3>1. n \in 1 .. (N - 1) /\ n \in 1 .. N
      BY <1>1, <1>2, <2>1
    <3>2. Dst[n] < p /\ Dst[k] < Dst[n] /\ Dst[n] \in Nat /\ Dst[k] \in Nat
      BY <1>1, <1>2, <2>1, <3>1
    <3>3. Dst[k] < p - 1
      BY <3>2
    <3> QED
      BY <1>3, <2>1, <3>3
  <2>4. now = k
    BY <1>1, <1>2, <2>1, <2>2, <2>3
  <2> QED
    BY <1>5, <2>4 DEF now, k, N
<1>6. CASE ~ (cur < N - 1 /\ Dst[cur + 1] < p)
  <2>1. ~ (cur + 1 <= now)
    <3> SUFFICES ASSUME cur + 1 <= now PROVE FALSE
      OBVIOUS
    <3> DEFINE k == cur + 1
    <3>1. k \in 1 .. (N - 1) /\ k <= now /\ cur < N - 1
      BY <1>1, <1>2, <1>3
    <3> HIDE DEF k
    <3>2. Dst[k] < p
      BY <1>2, <3>1
    <3> QED
      BY <1>6, <3>1, <3>2 DEF k
  <2>2. now = cur
    BY <1>1, <1>2, <1>3, <1>4, <2>1
  <2> QED
    BY <1>6, <2>2 DEF now, N
<1> QED
  BY <1>5, <1>6
-------------------------------------------------------------------------------
(* The streams, a level or a position further.                             *)

LEMMA Updated ==
  ASSUME NEW S, NEW f, f = [k \in S |-> f[k]], NEW a \in S, NEW v, NEW g, g = [f EXCEPT ![a] = v]
  PROVE  g = [k \in S |-> g[k]] /\ g[a] = v /\ \A k \in S : k # a => g[k] = f[k]
OBVIOUS

LEMMA LevelWrites ==
  ASSUME NEW t, Len(t) \in Nat, NEW p \in Nat, p <= Len(t), NEW n \in Nat, n < Depth(t, p),
         NEW k, k = n + 1, NEW code, NEW last, LevelPart(t, TRUE, p, n, k, code, last)
  PROVE  LevelPart(t, TRUE, p, k, k, Append(code, CodeAt(t, p, k)), [len |-> LengthAt(t, p, k), pos |-> p])
<1>1. k \in 1 .. Len(Dst) /\ k <= Depth(t, p) /\ k \in Nat /\ p \in 0 .. Len(t)
  BY DepthIs, ClassesAssumption, ClassesIncrease
<1>2. PlaceOf(k, p, n) = p /\ PlaceOf(k, p, k) = p + 1
  BY DEF PlaceOf
<1>3. Written(t, k, p, code)
  BY <1>2 DEF LevelPart
<1> HIDE DEF LevelPart
<1>4. Written(t, k, p + 1, Append(code, CodeAt(t, p, k)))
  BY <1>1, <1>3, StreamWritten
<1>5. LengthAt(t, p, k) \in Nat
  BY <1>1, LengthIs
<1>6. Recalls(t, k, p, k, [len |-> LengthAt(t, p, k), pos |-> p])
  BY <1>1, <1>5, RecallsNow
<1> QED
  BY <1>2, <1>4, <1>6 DEF LevelPart

LEMMA LevelReads ==
  ASSUME NEW t, Len(t) \in Nat, NEW p \in Nat, p < Len(t), NEW n \in Nat, n < Depth(t, p),
         NEW k, k = n + 1, NEW code, NEW last, LevelPart(t, FALSE, p, n, k, code, last)
  PROVE  /\ code # <<>> /\ Head(code) = CodeAt(t, p, k)
         /\ LevelPart(t, FALSE, p, k, k, Tail(code), [len |-> LengthAt(t, p, k), pos |-> p])
<1>1. k \in 1 .. Len(Dst) /\ k <= Depth(t, p) /\ k \in Nat /\ p \in 0 .. Len(t)
  BY DepthIs, ClassesAssumption, ClassesIncrease
<1>2. PlaceOf(k, p, n) = p /\ PlaceOf(k, p, k) = p + 1
  BY DEF PlaceOf
<1>3. Unread(t, k, p, code)
  BY <1>2 DEF LevelPart
<1>4. code # <<>> /\ Head(code) = CodeAt(t, p, k) /\ Unread(t, k, p + 1, Tail(code))
  BY <1>1, <1>3, StreamRead
<1>5. LengthAt(t, p, k) \in Nat
  BY <1>1, LengthIs
<1>6. Recalls(t, k, p, k, [len |-> LengthAt(t, p, k), pos |-> p])
  BY <1>1, <1>5, RecallsNow
<1> QED
  BY <1>2, <1>4, <1>6 DEF LevelPart

LEMMA LevelStays ==
  ASSUME NEW t, NEW writing, NEW p \in Nat, NEW n \in Nat, NEW k \in Nat, k # n + 1,
         NEW code, NEW last, LevelPart(t, writing, p, n, k, code, last)
  PROVE  LevelPart(t, writing, p, n + 1, k, code, last)
<1>1. PlaceOf(k, p, n + 1) = PlaceOf(k, p, n)
  BY DEF PlaceOf
<1>2. Recalls(t, k, p, n + 1, last)
  BY RecallsOther DEF LevelPart
<1> QED
  BY <1>1, <1>2 DEF LevelPart

LEMMA LevelPasses ==
  ASSUME NEW t, Len(t) \in Nat, NEW writing, NEW p \in Nat, p < Len(t), NEW k \in Nat \ {0},
         NEW code, NEW last, LevelPart(t, writing, p, Depth(t, p), k, code, last)
  PROVE  LevelPart(t, writing, p + 1, 0, k, code, last)
<1>1. Depth(t, p) \in Nat
  BY DepthIs
<1>2. Recalls(t, k, p + 1, 0, last)
  BY <1>1, RecallsNext DEF LevelPart
<1>3. PlaceOf(k, p + 1, 0) = p + 1
  BY DEF PlaceOf
<1>4. CASE k <= Depth(t, p)
  <2>1. PlaceOf(k, p, Depth(t, p)) = p + 1
    BY <1>4 DEF PlaceOf
  <2> QED
    BY <1>2, <1>3, <2>1 DEF LevelPart
<1>5. CASE ~ (k <= Depth(t, p))
  <2>1. PlaceOf(k, p, Depth(t, p)) = p
    BY <1>5 DEF PlaceOf
  <2>2. writing => Written(t, k, p + 1, code)
    BY <1>5, <2>1, StreamLeft DEF LevelPart
  <2>3. ~ writing => Unread(t, k, p + 1, code)
    BY <1>5, <2>1, StreamPassed DEF LevelPart
  <2> QED
    BY <1>2, <1>3, <2>2, <2>3 DEF LevelPart
<1> QED
  BY <1>4, <1>5

LEMMA LevelStarts ==
  ASSUME NEW t, NEW k \in Nat \ {0}
  PROVE  LevelPart(t, TRUE, 0, 0, k, <<>>, [len |-> 1, pos |-> -1])
<1>1. PlaceOf(k, 0, 0) = 0
  BY DEF PlaceOf
<1> QED
  BY <1>1, StreamStarts, RecallsStart DEF LevelPart

LEMMA LevelRewinds ==
  ASSUME NEW t, Len(t) \in Nat, NEW k \in Nat \ {0}, NEW code, NEW last,
         LevelPart(t, TRUE, Len(t), 0, k, code, last)
  PROVE  LevelPart(t, FALSE, 0, 0, k, code, [len |-> 1, pos |-> -1])
<1>1. PlaceOf(k, 0, 0) = 0 /\ PlaceOf(k, Len(t), 0) = Len(t)
  BY DEF PlaceOf
<1>2. Written(t, k, Len(t), code)
  BY <1>1 DEF LevelPart
<1>3. Unread(t, k, 0, code)
  BY <1>2, StreamRewound
<1> QED
  BY <1>1, <1>3, RecallsStart DEF LevelPart

LEMMA LevelsOfIs ==
  ASSUME NEW t, Len(t) \in Nat
  PROVE  /\ LevelsOf(t) \in Nat \ {0}
         /\ \A p \in 0 .. Len(t) : Depth(t, p) \in Nat /\ Depth(t, p) <= LevelsOf(t)
<1>1. LowerBound(Dst, Len(t)) \in 0 .. Len(Dst) /\ Len(Dst) \in Nat
  BY LowerBoundIs, ClassesAssumption, ClassesIncrease
<1>2. ASSUME NEW p \in 0 .. Len(t) PROVE Depth(t, p) \in Nat /\ Depth(t, p) <= LevelsOf(t)
  <2>1. Depth(t, p) \in 0 .. Levels(p) /\ Levels(p) \in 1 .. Len(Dst)
    BY DepthIs
  <2>2. Levels(p) <= 1 + LowerBound(Dst, Len(t))
    BY LevelsFit
  <2> QED
    BY <1>1, <2>1, <2>2 DEF LevelsOf
<1> QED
  BY <1>1, <1>2 DEF LevelsOf

(* All the levels, then.                                                   *)
OneWritten(t, p, k, codes, last, codes2, last2) ==
  /\ codes2 = [codes EXCEPT ![k] = Append(codes[k], CodeAt(t, p, k))]
  /\ last2 = [last EXCEPT ![k] = [len |-> LengthAt(t, p, k), pos |-> p]]
OneRead(t, p, k, codes, last, codes2, last2) ==
  /\ codes2 = [codes EXCEPT ![k] = Tail(codes[k])]
  /\ last2 = [last EXCEPT ![k] = [len |-> LengthAt(t, p, k), pos |-> p]]

LEMMA EachWrites ==
  ASSUME NEW t, Len(t) \in Nat, NEW p \in Nat, p <= Len(t), NEW n \in Nat, n < Depth(t, p),
         NEW k, k = n + 1, NEW codes, NEW last, EachLevel(t, TRUE, p, n, codes, last),
         NEW codes2, NEW last2, OneWritten(t, p, k, codes, last, codes2, last2)
  PROVE  EachLevel(t, TRUE, p, k, codes2, last2)
<1> DEFINE N == 1 .. LevelsOf(t)
<1>1. k \in N /\ \A m \in N : m \in Nat
  BY LevelsOfIs
<1>2. /\ codes = [m \in N |-> codes[m]] /\ last = [m \in N |-> last[m]]
      /\ \A m \in N : LevelPart(t, TRUE, p, n, m, codes[m], last[m])
  BY DEF EachLevel
<1> HIDE DEF N
<1> DEFINE v == Append(codes[k], CodeAt(t, p, k))
           w == [len |-> LengthAt(t, p, k), pos |-> p]
<1>3. codes2 = [codes EXCEPT ![k] = v] /\ last2 = [last EXCEPT ![k] = w]
  BY DEF OneWritten
<1>4. LevelPart(t, TRUE, p, k, k, v, w)
  BY <1>1, <1>2, LevelWrites
<1> HIDE DEF v, w
<1>5. codes2 = [m \in N |-> codes2[m]] /\ codes2[k] = v /\ \A m \in N : m # k => codes2[m] = codes[m]
  BY <1>1, <1>2, <1>3, Updated
<1>6. last2 = [m \in N |-> last2[m]] /\ last2[k] = w /\ \A m \in N : m # k => last2[m] = last[m]
  BY <1>1, <1>2, <1>3, Updated
<1>7. ASSUME NEW m \in N PROVE LevelPart(t, TRUE, p, k, m, codes2[m], last2[m])
  <2>1. CASE m = k
    BY <1>4, <1>5, <1>6, <2>1
  <2>2. CASE m # k
    <3>1. m \in Nat /\ m # n + 1 /\ LevelPart(t, TRUE, p, n, m, codes2[m], last2[m])
      BY <1>1, <1>2, <1>5, <1>6, <2>2
    <3>2. LevelPart(t, TRUE, p, n + 1, m, codes2[m], last2[m])
      BY <3>1, LevelStays
    <3> QED
      BY <3>2
  <2> QED
    BY <2>1, <2>2
<1> QED
  BY <1>5, <1>6, <1>7 DEF EachLevel, N

LEMMA EachReads ==
  ASSUME NEW t, Len(t) \in Nat, NEW p \in Nat, p < Len(t), NEW n \in Nat, n < Depth(t, p),
         NEW k, k = n + 1, NEW codes, NEW last, EachLevel(t, FALSE, p, n, codes, last),
         NEW codes2, NEW last2, OneRead(t, p, k, codes, last, codes2, last2)
  PROVE  EachLevel(t, FALSE, p, k, codes2, last2)
<1> DEFINE N == 1 .. LevelsOf(t)
<1>1. k \in N /\ p <= Len(t) /\ p \in 0 .. Len(t) /\ \A m \in N : m \in Nat
  BY LevelsOfIs
<1>2. /\ codes = [m \in N |-> codes[m]] /\ last = [m \in N |-> last[m]]
      /\ \A m \in N : LevelPart(t, FALSE, p, n, m, codes[m], last[m])
  BY DEF EachLevel
<1> HIDE DEF N
<1> DEFINE v == Tail(codes[k])
           w == [len |-> LengthAt(t, p, k), pos |-> p]
<1>3. codes2 = [codes EXCEPT ![k] = v] /\ last2 = [last EXCEPT ![k] = w]
  BY DEF OneRead
<1>4. LevelPart(t, FALSE, p, k, k, v, w)
  BY <1>1, <1>2, LevelReads
<1> HIDE DEF v, w
<1>5. codes2 = [m \in N |-> codes2[m]] /\ codes2[k] = v /\ \A m \in N : m # k => codes2[m] = codes[m]
  BY <1>1, <1>2, <1>3, Updated
<1>6. last2 = [m \in N |-> last2[m]] /\ last2[k] = w /\ \A m \in N : m # k => last2[m] = last[m]
  BY <1>1, <1>2, <1>3, Updated
<1>7. ASSUME NEW m \in N PROVE LevelPart(t, FALSE, p, k, m, codes2[m], last2[m])
  <2>1. CASE m = k
    BY <1>4, <1>5, <1>6, <2>1
  <2>2. CASE m # k
    <3>1. m \in Nat /\ m # n + 1 /\ LevelPart(t, FALSE, p, n, m, codes2[m], last2[m])
      BY <1>1, <1>2, <1>5, <1>6, <2>2
    <3>2. LevelPart(t, FALSE, p, n + 1, m, codes2[m], last2[m])
      BY <3>1, LevelStays
    <3> QED
      BY <3>2
  <2> QED
    BY <2>1, <2>2
<1> QED
  BY <1>5, <1>6, <1>7 DEF EachLevel, N

LEMMA EachPasses ==
  ASSUME NEW t, Len(t) \in Nat, NEW writing, NEW p \in Nat, p < Len(t), NEW codes, NEW last,
         EachLevel(t, writing, p, Depth(t, p), codes, last)
  PROVE  EachLevel(t, writing, p + 1, 0, codes, last)
<1>1. ASSUME NEW k \in 1 .. LevelsOf(t) PROVE LevelPart(t, writing, p + 1, 0, k, codes[k], last[k])
  <2>1. LevelPart(t, writing, p, Depth(t, p), k, codes[k], last[k])
    BY DEF EachLevel
  <2>2. k \in Nat \ {0}
    BY LevelsOfIs
  <2> QED
    BY <2>1, <2>2, LevelPasses
<1> QED
  BY <1>1 DEF EachLevel
-------------------------------------------------------------------------------
(* The steps of the two parses.                                            *)

LEMMA Here ==
  ASSUME IInv
  PROVE  /\ text \in CacheTexts /\ Len(text) \in Nat \ {0} /\ L = Len(text) /\ NLevels = LevelsOf(text)
         /\ i \in 0 .. Len(text) /\ i \in Nat /\ pc \in Phases
         /\ Depth(text, i) \in Nat /\ Depth(text, i) <= LevelsOf(text) /\ Depth(text, i) <= Len(Dst)
<1>1. text \in CacheTexts /\ i \in 0 .. Len(text) /\ pc \in Phases
  BY DEF IInv, InputPart
<1>2. Len(text) \in Nat \ {0}
  BY <1>1, CacheTextsAssumption
<1>3. i \in Nat
  BY <1>1, <1>2
<1>4. Depth(text, i) \in Nat /\ Depth(text, i) <= LevelsOf(text)
  BY <1>1, <1>2, LevelsOfIs
<1>5. Depth(text, i) <= Len(Dst)
  BY <1>3, DepthIs
<1> QED
  BY <1>1, <1>2, <1>3, <1>4, <1>5 DEF L, NLevels, LevelsOf

(* Whether there are more levels, seen from the text.                      *)
LEMMA MoreAre ==
  ASSUME NEW t, NEW ph \in Meshing, NEW p \in Nat, NEW nl, NEW lev, NEW m, MeshPart(t, ph, p, nl, lev, m)
  PROVE  /\ nl = Levels(p) /\ lev \in 0 .. Depth(t, p) /\ lev \in Nat
         /\ ~ m.stopped /\ lev < nl <=> lev < Depth(t, p)
<1>1. nl = Levels(p) /\ lev \in 0 .. Depth(t, p)
  BY DEF MeshPart
<1>2. m.stopped = ReadMesh(t, p)[lev].stopped
  <2>1. CASE ph = "cached"
    BY <2>1 DEF MeshPart
  <2>2. CASE ph # "cached"
    <3> DEFINE m2 == ReadMesh(t, p)[lev]
    <3>1. MeshOK(t, p, lev, m) /\ Alike(m, m2)
      BY <2>2 DEF MeshPart
    <3>2. m \in MeshType
      BY <3>1 DEF MeshOK
    <3> HIDE DEF m2
    <3>3. m2.stopped = m.stopped
      BY <3>1, <3>2, AlikeType
    <3> QED
      BY <3>3 DEF m2
  <2> QED
    BY <2>1, <2>2
<1>3. lev \in Nat
  BY <1>1, DepthIs
<1> QED
  BY <1>1, <1>2, <1>3, AsksMore

LEMMA FixStays ==
  ASSUME NEW t, NEW ph \in Replaying, NEW p, NEW low, NEW nx, NEW sol, FixPart(t, ph, p, low, nx, sol),
         NEW ph2 \in Replaying, NEW p2
  PROVE  FixPart(t, ph2, p2, low, nx, sol)
BY DEF FixPart, Replaying

LEMMA SeqGrows ==
  ASSUME NEW S, NEW f \in Seq(S), NEW v \in S
  PROVE  /\ Append(f, v) \in Seq(S) /\ Len(Append(f, v)) = Len(f) + 1 /\ Len(f) \in Nat
         /\ Append(f, v)[Len(f) + 1] = v /\ \A n \in 1 .. Len(f) : Append(f, v)[n] = f[n]
OBVIOUS

LEMMA InReadOf ==
  ASSUME NEW t, NEW p \in 0 .. Len(t)
  PROVE  ReadEdges(t, p) \in ReadOf(t) /\ Priced(ReadEdges(t, p)) \in PricesOf(t)
<1>1. ReadEdges(t, p) \in ReadOf(t)
  BY DEF ReadOf
<1> QED
  BY <1>1 DEF PricesOf

(* One more position in the graph, and in what the second parse was given. *)
LEMMA GraphGrows ==
  ASSUME NEW t, Len(t) \in Nat, NEW p \in Nat, p < Len(t), NEW gr, NEW es,
         GraphPart(t, "caching", p, gr, es), NEW v, v = Priced(ReadEdges(t, p))
  PROVE  GraphPart(t, "caching", p + 1, Append(gr, v), es)
<1> DEFINE S == PricesOf(t)
           new == Append(gr, v)
<1>1. p \in 0 .. Len(t)
  OBVIOUS
<1>2. v \in S
  BY <1>1, InReadOf
<1>3. gr \in Seq(S) /\ Len(gr) = p /\ es \in Seq(ReadOf(t)) /\ Len(es) = 0
      /\ \A n \in 1 .. Len(gr) : gr[n] = Priced(ReadEdges(t, n - 1))
  BY DEF GraphPart, Replaying
<1> HIDE DEF S
<1>4. /\ new \in Seq(S) /\ Len(new) = p + 1 /\ new[p + 1] = v
      /\ \A n \in 1 .. p : new[n] = gr[n]
  BY <1>2, <1>3, SeqGrows
<1> HIDE DEF new
<1>5. ASSUME NEW n \in 1 .. Len(new) PROVE new[n] = Priced(ReadEdges(t, n - 1))
  <2>1. CASE n = p + 1
    <3>1. n - 1 = p
      BY <2>1
    <3> QED
      BY <1>4, <2>1, <3>1
  <2>2. CASE n # p + 1
    <3>1. n \in 1 .. p /\ n \in 1 .. Len(gr)
      BY <1>3, <1>4, <2>2
    <3> QED
      BY <1>3, <1>4, <3>1
  <2> QED
    BY <2>1, <2>2
<1>6. \A n \in 1 .. Len(es) : FALSE
  BY <1>3
<1>7. GraphPart(t, "caching", p + 1, new, es)
  BY <1>3, <1>4, <1>5, <1>6 DEF GraphPart, S, Replaying
<1> QED
  BY <1>7 DEF new

LEMMA ReadGrows ==
  ASSUME NEW t, Len(t) \in Nat, NEW p \in Nat, p < Len(t), NEW gr, NEW es,
         GraphPart(t, "cached", p, gr, es), NEW v, v = ReadEdges(t, p)
  PROVE  GraphPart(t, "levels", p + 1, gr, Append(es, v))
<1> DEFINE S == ReadOf(t)
           new == Append(es, v)
<1>1. p \in 0 .. Len(t)
  OBVIOUS
<1>2. v \in S
  BY <1>1, InReadOf
<1>3. /\ es \in Seq(S) /\ Len(es) = p /\ gr \in Seq(PricesOf(t)) /\ Len(gr) = Len(t)
      /\ \A n \in 1 .. Len(es) : es[n] = ReadEdges(t, n - 1)
      /\ \A n \in 1 .. Len(gr) : gr[n] = Priced(ReadEdges(t, n - 1))
  BY DEF GraphPart, Replaying
<1> HIDE DEF S
<1>4. /\ new \in Seq(S) /\ Len(new) = p + 1 /\ new[p + 1] = v
      /\ \A n \in 1 .. p : new[n] = es[n]
  BY <1>2, <1>3, SeqGrows
<1> HIDE DEF new
<1>5. ASSUME NEW n \in 1 .. Len(new) PROVE new[n] = ReadEdges(t, n - 1)
  <2>1. CASE n = p + 1
    <3>1. n - 1 = p
      BY <2>1
    <3> QED
      BY <1>4, <2>1, <3>1
  <2>2. CASE n # p + 1
    <3>1. n \in 1 .. p /\ n \in 1 .. Len(es)
      BY <1>3, <1>4, <2>2
    <3> QED
      BY <1>3, <1>4, <3>1
  <2> QED
    BY <2>1, <2>2
<1>6. GraphPart(t, "levels", p + 1, gr, new)
  BY <1>3, <1>4, <1>5 DEF GraphPart, S, Replaying
<1> QED
  BY <1>6 DEF new

(* What Base gives is what the codes were written from.                    *)
LEMMA BaseHere ==
  ASSUME IInv, pc \in {"caching", "cached"}, level \in Nat, level < Depth(text, i)
  PROVE  /\ EachLevel(text, pc = "caching", i, level, streams, prev)
         /\ level + 1 \in 1 .. NLevels /\ level + 1 \in 1 .. Len(Dst)
         /\ Base(level + 1) = BaseAt(text, i, level + 1)
<1> DEFINE k == level + 1
           last == prev[k]
<1>1. EachLevel(text, pc = "caching", i, level, streams, prev)
  BY DEF IInv, StreamPart, Replaying
<1>a. /\ i \in Nat /\ Len(text) \in Nat /\ NLevels = LevelsOf(text)
      /\ Depth(text, i) \in Nat /\ Depth(text, i) <= LevelsOf(text) /\ Depth(text, i) <= Len(Dst)
  BY Here
<1>b. LevelsOf(text) \in Nat /\ Len(Dst) \in Nat
  BY <1>a, LevelsOfIs, ClassesAssumption, ClassesIncrease
<1>2. k \in 1 .. LevelsOf(text) /\ k \in 1 .. Len(Dst) /\ k \in Nat /\ level < k /\ i \in Nat
      /\ NLevels = LevelsOf(text)
  BY <1>a, <1>b
<1>3. Recalls(text, k, i, level, prev[k])
  BY <1>1, <1>2 DEF EachLevel, LevelPart
<1>4. Recalls(text, k, i, level, last)
  BY <1>3
<1>5. Base(k) = IF i > 0 /\ last.pos = i - 1 THEN (IF last.len > 0 THEN last.len - 1 ELSE 0) ELSE 0
  BY DEF Base, Follows, Inherited
<1> HIDE DEF k, last
<1>6. BaseAt(text, i, k) = IF i > 0 /\ last.pos = i - 1 THEN (IF last.len > 0 THEN last.len - 1 ELSE 0) ELSE 0
  BY <1>2, <1>4, BaseRecalled
<1>7. Base(k) = BaseAt(text, i, k)
  BY <1>5, <1>6
<1> QED
  BY <1>1, <1>2, <1>7 DEF k

LEMMA InitHolds ==
  ASSUME InitSession
  PROVE  IInv
<1> DEFINE n == Len(text)
<1>1. /\ text \in CacheTexts /\ pc = "caching" /\ i = 0 /\ streams = NoStreams /\ prev = NoPrev
      /\ nlevels = Levels(0) /\ level = 0 /\ mesh = Reset /\ graph = <<>> /\ cached = <<>>
      /\ lowest_pos = 0 /\ s = 1 /\ next = [k \in Sols |-> 0]
  BY DEF InitSession, Init
<1>2. Len(text) \in Nat \ {0} /\ Parsings \in Nat \ {0}
  BY <1>1, CacheTextsAssumption, ParsingsAssumption
<1>3. InputPart(text, pc, i)
  BY <1>1, <1>2 DEF InputPart, Phases, Replaying
<1>4. MeshPart(text, pc, i, nlevels, level, mesh)
  <2>1. MeshOK(text, 0, 0, Reset) /\ Alike(Reset, ReadMesh(text, 0)[0]) /\ 0 \in 0 .. Depth(text, 0)
    BY MeshBegins
  <2> QED
    BY <1>1, <1>2, <2>1 DEF MeshPart, Meshing
<1>5. StreamPart(text, pc, i, level, streams, prev)
  <2> DEFINE N == 1 .. LevelsOf(text)
  <2>1. streams = [k \in N |-> <<>>] /\ prev = [k \in N |-> [len |-> 1, pos |-> -1]]
    BY <1>1 DEF NoStreams, NoPrev, NLevels, LevelsOf, L
  <2>2. ASSUME NEW k \in N PROVE LevelPart(text, TRUE, 0, 0, k, streams[k], prev[k])
    <3>1. k \in Nat \ {0}
      BY <1>2, LevelsOfIs
    <3>2. LevelPart(text, TRUE, 0, 0, k, <<>>, [len |-> 1, pos |-> -1])
      BY <3>1, LevelStarts
    <3> QED
      BY <2>1, <3>2
  <2>3. streams = [k \in N |-> streams[k]] /\ prev = [k \in N |-> prev[k]]
    BY <2>1
  <2>4. EachLevel(text, TRUE, 0, 0, streams, prev)
    BY <2>2, <2>3 DEF EachLevel
  <2>5. (pc = "caching") = TRUE
    BY <1>1
  <2> QED
    BY <1>1, <2>4, <2>5 DEF StreamPart
<1>6. CountPart(pc, i, cur_dst_idx)
  BY <1>1 DEF CountPart
<1>7. GraphPart(text, pc, i, graph, cached)
  BY <1>1 DEF GraphPart
<1>8. FixPart(text, pc, i, lowest_pos, next, s)
  <2>1. next \in [Sols -> 0 .. n] /\ 0 \in 0 .. n /\ s \in 1 .. (Parsings + 1)
    BY <1>1, <1>2
  <2>2. \A k \in Sols : next[k] = 0
    BY <1>1
  <2>3. /\ pc \notin {"generate", "generating"} /\ pc \notin {"generating", "fix"}
        /\ pc # "fix" /\ pc # "done"
    BY <1>1
  <2> QED
    BY <1>1, <2>1, <2>2, <2>3 DEF FixPart
<1>9. VectorPart(pc, mesh, maxedges)
  BY <1>1 DEF VectorPart
<1> QED
  BY <1>3, <1>4, <1>5, <1>6, <1>7, <1>8, <1>9 DEF IInv

LEMMA WriteLengthKeeps ==
  ASSUME IInv, WriteLength, UNCHANGED integrating
  PROVE  IInv'
<1> DEFINE k == level + 1
<1>1. /\ pc = "caching" /\ i < L /\ ~ mesh.stopped /\ level < nlevels
      /\ level' = k /\ pc' = pc /\ text' = text /\ i' = i /\ cur_dst_idx' = cur_dst_idx
      /\ nlevels' = nlevels /\ graph' = graph /\ cached' = cached
      /\ lowest_pos' = lowest_pos /\ next' = next /\ s' = s /\ maxedges' = maxedges
  BY DEF WriteLength, MoreLevels, integrating
<1>2. PICK match \in MaxMatch(text, i, level + 1) :
        /\ streams' = [streams EXCEPT ![level + 1] = Append(@, Encode(match.ell - Base(level + 1)))]
        /\ prev' = [prev EXCEPT ![level + 1] = [len |-> match.ell, pos |-> i]]
        /\ mesh' = Level(mesh, match)
  BY DEF WriteLength, Remember
<1>3. /\ Len(text) \in Nat /\ i \in 0 .. Len(text) /\ i \in Nat /\ i < Len(text) /\ pc \in Meshing
  BY <1>1, Here DEF Meshing
<1>4. MeshPart(text, pc, i, nlevels, level, mesh)
  BY DEF IInv
<1>5. level \in Nat /\ level < Depth(text, i)
  BY <1>1, <1>3, <1>4, MoreAre
<1>6. /\ EachLevel(text, TRUE, i, level, streams, prev)
      /\ k \in 1 .. Len(Dst) /\ Base(k) = BaseAt(text, i, k)
  <2>1. pc \in {"caching", "cached"} /\ (pc = "caching") = TRUE
    BY <1>1
  <2>2. EachLevel(text, pc = "caching", i, level, streams, prev)
    BY <1>5, <2>1, BaseHere
  <2> QED
    BY <1>5, <2>1, <2>2, BaseHere
<1>7. match.ell = LengthAt(text, i, k)
  BY <1>3, <1>6, LengthIs
<1>8. Encode(match.ell - Base(k)) = CodeAt(text, i, k)
  BY <1>6, <1>7 DEF CodeAt
<1>9. InputPart(text, pc, i)'
  BY <1>1 DEF IInv, InputPart
<1>10. MeshPart(text, pc, i, nlevels, level, mesh)'
  <2>1. MeshOK(text, i, level, mesh) /\ Alike(mesh, ReadMesh(text, i)[level]) /\ nlevels = Levels(i)
    BY <1>1, <1>3, <1>4 DEF MeshPart
  <2>2. /\ MeshOK(text, i, level + 1, Level(mesh, match))
        /\ Alike(Level(mesh, match), ReadMesh(text, i)[level + 1])
        /\ level + 1 \in 0 .. Depth(text, i)
    BY <1>3, <1>5, <2>1, MeshAdvances
  <2>3. MeshOK(text, i, k, mesh') /\ Alike(mesh', ReadMesh(text, i)[k]) /\ k \in 0 .. Depth(text, i)
    BY <1>2, <2>2
  <2>4. pc = "caching" /\ i # Len(text)
    BY <1>1, <1>3
  <2> HIDE DEF k
  <2> QED
    BY <1>1, <2>1, <2>3, <2>4 DEF MeshPart
<1>11. StreamPart(text, pc, i, level, streams, prev)'
  <2> DEFINE new == streams'
             last == prev'
  <2>1. new = [streams EXCEPT ![k] = Append(streams[k], CodeAt(text, i, k))]
    BY <1>2, <1>8
  <2>2. last = [prev EXCEPT ![k] = [len |-> LengthAt(text, i, k), pos |-> i]]
    BY <1>2, <1>7
  <2>a. OneWritten(text, i, k, streams, prev, new, last)
    BY <2>1, <2>2 DEF OneWritten
  <2>3. k = level + 1 /\ i <= Len(text)
    BY <1>3
  <2> HIDE DEF k, new, last
  <2>4. EachLevel(text, TRUE, i, k, new, last)
    BY <1>3, <1>5, <1>6, <2>3, <2>a, EachWrites
  <2>5. pc = "caching" /\ pc # "levels" /\ (pc = "caching") = TRUE
    BY <1>1
  <2> QED
    BY <1>1, <2>4, <2>5 DEF StreamPart, new, last
<1>12. CountPart(pc, i, cur_dst_idx)'
  BY <1>1 DEF CountPart
<1>13. GraphPart(text, pc, i, graph, cached)'
  BY <1>1 DEF IInv
<1>14. FixPart(text, pc, i, lowest_pos, next, s)'
  BY <1>1 DEF IInv
<1>15. VectorPart(pc, mesh, maxedges)'
  BY <1>1 DEF VectorPart
<1> QED
  BY <1>9, <1>10, <1>11, <1>12, <1>13, <1>14, <1>15 DEF IInv

LEMMA EndOfCachedKeeps ==
  ASSUME IInv, EndOfCached, UNCHANGED integrating
  PROVE  IInv'
<1> DEFINE q == i + 1
<1>1. /\ pc = "caching" /\ i < L /\ ~ (~ mesh.stopped /\ level < nlevels)
      /\ graph' = Append(graph, Priced(mesh.edges))
      /\ i' = q /\ nlevels' = Levels(q) /\ level' = 0 /\ mesh' = Reset
      /\ text' = text /\ pc' = pc /\ streams' = streams /\ prev' = prev /\ cur_dst_idx' = cur_dst_idx
      /\ cached' = cached
      /\ lowest_pos' = lowest_pos /\ next' = next /\ s' = s /\ maxedges' = maxedges
  BY DEF EndOfCached, MoreLevels, integrating
<1>2. /\ Len(text) \in Nat /\ i \in 0 .. Len(text) /\ i \in Nat /\ i < Len(text) /\ pc \in Meshing
      /\ q \in 0 .. Len(text) /\ q \in Nat /\ text \in CacheTexts
  BY <1>1, Here DEF Meshing
<1>3. MeshPart(text, pc, i, nlevels, level, mesh)
  BY DEF IInv
<1>4. level = Depth(text, i)
  <2>1. level \in Nat /\ level \in 0 .. Depth(text, i) /\ ~ (level < Depth(text, i))
    BY <1>1, <1>2, <1>3, MoreAre
  <2>2. Depth(text, i) \in Nat
    BY Here
  <2> QED
    BY <2>1, <2>2
<1>5. InputPart(text, pc, i)'
  BY <1>1, <1>2 DEF InputPart, Phases, Replaying
<1>6. MeshPart(text, pc, i, nlevels, level, mesh)'
  <2>1. MeshOK(text, q, 0, Reset) /\ Alike(Reset, ReadMesh(text, q)[0]) /\ 0 \in 0 .. Depth(text, q)
    BY <1>2, MeshBegins
  <2> HIDE DEF q
  <2> QED
    BY <1>1, <2>1 DEF MeshPart
<1>7. StreamPart(text, pc, i, level, streams, prev)'
  <2>1. EachLevel(text, pc = "caching", i, level, streams, prev)
    BY <1>1 DEF IInv, StreamPart, Replaying
  <2>2. EachLevel(text, pc = "caching", q, 0, streams, prev)
    BY <1>2, <1>4, <2>1, EachPasses
  <2> HIDE DEF q
  <2> QED
    BY <1>1, <2>2 DEF StreamPart
<1>8. CountPart(pc, i, cur_dst_idx)'
  BY <1>1 DEF CountPart
<1>9. GraphPart(text, pc, i, graph, cached)'
  <2>1. Priced(mesh.edges) = Priced(ReadEdges(text, i))
    <3>1. MeshOK(text, i, level, mesh) /\ Alike(mesh, ReadMesh(text, i)[level]) /\ level \in 0 .. Depth(text, i)
      BY <1>1, <1>2, <1>3 DEF MeshPart
    <3>2. SameCopies(text, i, mesh.edges, ReadMesh(text, i)[level].edges)
      BY <1>2, <3>1, AlikeCopies
    <3>3. SameCopies(text, i, mesh.edges, ReadEdges(text, i))
      BY <1>4, <3>2 DEF ReadEdges
    <3> QED
      BY <3>3, SamePrices
  <2> DEFINE v == Priced(mesh.edges)
  <2>2. GraphPart(text, "caching", i, graph, cached)
    BY <1>1 DEF IInv
  <2>3. v = Priced(ReadEdges(text, i))
    BY <2>1
  <2> HIDE DEF v
  <2>4. GraphPart(text, "caching", q, Append(graph, v), cached)
    BY <1>2, <2>2, <2>3, GraphGrows
  <2> HIDE DEF q
  <2> QED
    BY <1>1, <2>4 DEF v
<1>10. FixPart(text, pc, i, lowest_pos, next, s)'
  <2>1. FixPart(text, pc, i, lowest_pos, next, s) /\ pc \in Replaying
    BY <1>1 DEF IInv, Replaying
  <2>2. FixPart(text, pc, q, lowest_pos, next, s)
    BY <2>1, FixStays
  <2> HIDE DEF q
  <2> QED
    BY <1>1, <2>2
<1>11. VectorPart(pc, mesh, maxedges)'
  BY <1>1 DEF VectorPart
<1> QED
  BY <1>5, <1>6, <1>7, <1>8, <1>9, <1>10, <1>11 DEF IInv

LEMMA RewindKeeps ==
  ASSUME IInv, Rewind, UNCHANGED integrating
  PROVE  IInv'
<1>1. /\ pc = "caching" /\ i = L /\ pc' = "levels" /\ i' = 0 /\ prev' = NoPrev /\ cur_dst_idx' = 0
      /\ text' = text /\ streams' = streams /\ nlevels' = nlevels /\ level' = level /\ mesh' = mesh
      /\ graph' = graph /\ cached' = cached
      /\ lowest_pos' = lowest_pos /\ next' = next /\ s' = s /\ maxedges' = maxedges
  BY DEF Rewind, integrating, edges
<1>2. /\ Len(text) \in Nat /\ i = Len(text) /\ text \in CacheTexts /\ 0 \in 0 .. Len(text)
  BY <1>1, Here
<1>3. InputPart(text, pc, i)'
  BY <1>1, <1>2 DEF InputPart, Phases, Replaying
<1>4. MeshPart(text, pc, i, nlevels, level, mesh)'
  BY <1>1 DEF MeshPart, Meshing
<1>5. StreamPart(text, pc, i, level, streams, prev)'
  <2> DEFINE N == 1 .. LevelsOf(text)
             last == prev'
  <2>1. level = 0
    BY <1>1, <1>2 DEF IInv, MeshPart
  <2>2. (pc = "caching") = TRUE /\ (pc' = "caching") = FALSE /\ pc \in Replaying /\ pc # "levels"
    BY <1>1 DEF Replaying
  <2>3. EachLevel(text, TRUE, Len(text), 0, streams, prev)
    BY <1>2, <2>1, <2>2 DEF IInv, StreamPart
  <2>4. last = [k \in N |-> [len |-> 1, pos |-> -1]]
    BY <1>1 DEF NoPrev, NLevels, LevelsOf, L
  <2>5. ASSUME NEW k \in N PROVE LevelPart(text, FALSE, 0, 0, k, streams[k], last[k])
    <3>1. k \in Nat \ {0}
      BY <1>2, LevelsOfIs
    <3>2. LevelPart(text, TRUE, Len(text), 0, k, streams[k], prev[k])
      BY <2>3 DEF EachLevel
    <3>3. LevelPart(text, FALSE, 0, 0, k, streams[k], [len |-> 1, pos |-> -1])
      BY <1>2, <3>1, <3>2, LevelRewinds
    <3> QED
      BY <2>4, <3>3
  <2>6. last = [k \in N |-> last[k]] /\ streams = [k \in N |-> streams[k]]
    BY <2>3, <2>4 DEF EachLevel
  <2> HIDE DEF last
  <2>7. EachLevel(text, FALSE, 0, 0, streams, last)
    BY <2>5, <2>6 DEF EachLevel
  <2> QED
    BY <1>1, <2>2, <2>7 DEF StreamPart, last
<1>6. CountPart(pc, i, cur_dst_idx)'
  BY <1>1 DEF CountPart, IndexBefore
<1>7. GraphPart(text, pc, i, graph, cached)'
  <2>1. GraphPart(text, "caching", Len(text), graph, cached)
    BY <1>1, <1>2 DEF IInv
  <2>2. GraphPart(text, "levels", 0, graph, cached)
    BY <2>1 DEF GraphPart, Replaying
  <2> QED
    BY <1>1, <2>2
<1>8. FixPart(text, pc, i, lowest_pos, next, s)'
  <2>1. FixPart(text, pc, i, lowest_pos, next, s) /\ pc \in Replaying /\ "levels" \in Replaying
    BY <1>1 DEF IInv, Replaying
  <2>2. FixPart(text, "levels", 0, lowest_pos, next, s)
    BY <2>1, FixStays
  <2> QED
    BY <1>1, <2>2
<1>9. VectorPart(pc, mesh, maxedges)'
  BY <1>1 DEF VectorPart
<1> QED
  BY <1>3, <1>4, <1>5, <1>6, <1>7, <1>8, <1>9 DEF IInv

LEMMA CountLevelsKeeps ==
  ASSUME IInv, CountLevels, UNCHANGED integrating
  PROVE  IInv'
<1> DEFINE cur == IF cur_dst_idx < Len(Dst) - 1 /\ Dst[cur_dst_idx + 1] < i
                  THEN cur_dst_idx + 1 ELSE cur_dst_idx
<1>1. /\ pc = "levels" /\ i < L
      /\ cur_dst_idx' = cur /\ nlevels' = 1 + cur /\ level' = 0 /\ mesh' = Reset
      /\ pc' = "cached" /\ text' = text /\ i' = i /\ streams' = streams /\ prev' = prev
      /\ graph' = graph /\ cached' = cached
      /\ lowest_pos' = lowest_pos /\ next' = next /\ s' = s /\ maxedges' = maxedges
  BY DEF CountLevels, integrating
<1>2. /\ Len(text) \in Nat /\ i \in 0 .. Len(text) /\ i \in Nat /\ i < Len(text) /\ text \in CacheTexts
  BY <1>1, Here
<1>3. cur = Levels(i) - 1
  <2>1. cur_dst_idx = IndexBefore(i)
    BY <1>1 DEF IInv, CountPart
  <2> DEFINE c == cur_dst_idx
  <2>2. c = IndexBefore(i) /\ cur = IF c < Len(Dst) - 1 /\ Dst[c + 1] < i THEN c + 1 ELSE c
    BY <2>1
  <2> HIDE DEF c, cur
  <2>3. Levels(i) - 1 = IF c < Len(Dst) - 1 /\ Dst[c + 1] < i THEN c + 1 ELSE c
    BY <1>2, <2>2, LevelsCounted
  <2> QED
    BY <2>2, <2>3
<1> HIDE DEF cur
<1>4. 1 + cur = Levels(i)
  <2>1. Levels(i) \in 1 .. Len(Dst) /\ Len(Dst) \in Nat
    BY <1>2, LevelsAre, ClassesAssumption, ClassesIncrease
  <2> DEFINE x == Levels(i)
  <2>2. x \in Int /\ cur = x - 1
    BY <1>3, <2>1
  <2> HIDE DEF x
  <2>3. 1 + cur = x
    BY <2>2
  <2> QED
    BY <2>3 DEF x
<1>5. InputPart(text, pc, i)'
  BY <1>1, <1>2 DEF InputPart, Phases, Replaying
<1>6. MeshPart(text, pc, i, nlevels, level, mesh)'
  <2>1. ReadMesh(text, i)[0] = Reset /\ 0 \in 0 .. Depth(text, i)
    BY <1>2, MeshBegins, ReadMeshIs
  <2> QED
    BY <1>1, <1>4, <2>1 DEF MeshPart
<1>7. StreamPart(text, pc, i, level, streams, prev)'
  <2>1. (pc = "caching") = FALSE /\ (pc' = "caching") = FALSE /\ pc \in Replaying
    BY <1>1 DEF Replaying
  <2>2. EachLevel(text, FALSE, i, 0, streams, prev)
    BY <1>1, <2>1 DEF IInv, StreamPart
  <2> QED
    BY <1>1, <2>1, <2>2 DEF StreamPart
<1>8. CountPart(pc, i, cur_dst_idx)'
  BY <1>1, <1>3 DEF CountPart
<1>9. GraphPart(text, pc, i, graph, cached)'
  <2>1. GraphPart(text, "levels", i, graph, cached)
    BY <1>1 DEF IInv
  <2>2. GraphPart(text, "cached", i, graph, cached)
    BY <2>1 DEF GraphPart, Replaying
  <2> QED
    BY <1>1, <2>2
<1>10. FixPart(text, pc, i, lowest_pos, next, s)'
  <2>1. FixPart(text, pc, i, lowest_pos, next, s) /\ pc \in Replaying /\ "cached" \in Replaying
    BY <1>1 DEF IInv, Replaying
  <2>2. FixPart(text, "cached", i, lowest_pos, next, s)
    BY <2>1, FixStays
  <2> QED
    BY <1>1, <2>2
<1>11. VectorPart(pc, mesh, maxedges)'
  BY <1>1 DEF VectorPart
<1> QED
  BY <1>5, <1>6, <1>7, <1>8, <1>9, <1>10, <1>11 DEF IInv

(* The length a level has to read at a position is there, and it is the    *)
(* one written there.                                                      *)
LEMMA LengthRead ==
  ASSUME IInv, pc = "cached", MoreLevels
  PROVE  LET k == level + 1 IN
         /\ level \in Nat /\ level < Depth(text, i) /\ k \in 1 .. LevelsOf(text)
         /\ EachLevel(text, FALSE, i, level, streams, prev)
         /\ streams[k] # <<>>
         /\ Decode(Head(streams[k])) + Base(k) = LengthAt(text, i, k)
<1> DEFINE k == level + 1
<1>1. /\ Len(text) \in Nat /\ i \in 0 .. Len(text) /\ i \in Nat /\ i < Len(text) /\ pc \in Meshing
  <2>1. i < Len(text)
    BY DEF IInv, InputPart
  <2> QED
    BY <2>1, Here DEF Meshing
<1>2. MeshPart(text, pc, i, nlevels, level, mesh)
  BY DEF IInv
<1>3. level \in Nat /\ level < Depth(text, i)
  BY <1>1, <1>2, MoreAre DEF MoreLevels
<1>4. /\ EachLevel(text, FALSE, i, level, streams, prev)
      /\ k \in 1 .. LevelsOf(text) /\ k \in 1 .. Len(Dst) /\ Base(k) = BaseAt(text, i, k)
  <2>1. pc \in {"caching", "cached"} /\ (pc = "caching") = FALSE
    OBVIOUS
  <2>2. EachLevel(text, pc = "caching", i, level, streams, prev)
    BY <1>3, <2>1, BaseHere
  <2> QED
    BY <1>3, <2>1, <2>2, BaseHere, Here
<1>5. LevelPart(text, FALSE, i, level, k, streams[k], prev[k])
  BY <1>4 DEF EachLevel
<1>6. k = level + 1
  OBVIOUS
<1> HIDE DEF k
<1>7. streams[k] # <<>> /\ Head(streams[k]) = CodeAt(text, i, k)
  <2> DEFINE code == streams[k]
             last == prev[k]
  <2>1. LevelPart(text, FALSE, i, level, k, code, last)
    BY <1>5
  <2> HIDE DEF code, last
  <2>2. Len(text) \in Nat /\ i \in Nat /\ i < Len(text) /\ level \in Nat /\ level < Depth(text, i)
    BY <1>1, <1>3
  <2>3. code # <<>> /\ Head(code) = CodeAt(text, i, k)
    BY <1>6, <2>1, <2>2, LevelReads
  <2> QED
    BY <2>3 DEF code
<1>8. Decode(Head(streams[k])) + Base(k) = LengthAt(text, i, k)
  <2> DEFINE len == LengthAt(text, i, k)
             base == BaseAt(text, i, k)
             v == len - base
  <2>1. len \in Nat /\ base \in Nat
    BY <1>1, <1>4, BaseIs
  <2>2. CodeAt(text, i, k) = Encode(v)
    BY DEF CodeAt
  <2> HIDE DEF len, base
  <2>3. v \in Int
    BY <2>1
  <2> HIDE DEF v
  <2>4. Decode(Encode(v)) = v
    BY <2>3, CodeIs
  <2>5. v + base = len
    BY <2>1 DEF v
  <2> QED
    BY <1>4, <1>7, <2>2, <2>4, <2>5 DEF len, base
<1> QED
  BY <1>3, <1>4, <1>7, <1>8 DEF k

LEMMA ReadLengthKeeps ==
  ASSUME IInv, ReadLength, UNCHANGED integrating
  PROVE  IInv'
<1> DEFINE k == level + 1
           len == LengthAt(text, i, k)
<1>1. /\ pc = "cached" /\ MoreLevels
      /\ level' = k /\ pc' = pc /\ text' = text /\ i' = i /\ cur_dst_idx' = cur_dst_idx
      /\ nlevels' = nlevels /\ graph' = graph /\ cached' = cached
      /\ lowest_pos' = lowest_pos /\ next' = next /\ s' = s /\ maxedges' = maxedges
  BY DEF ReadLength, integrating
<1>2. /\ level \in Nat /\ level < Depth(text, i) /\ k \in 1 .. LevelsOf(text)
      /\ EachLevel(text, FALSE, i, level, streams, prev)
      /\ Decode(Head(streams[k])) + Base(k) = len
  BY <1>1, LengthRead
<1>3. /\ streams' = [streams EXCEPT ![k] = Tail(streams[k])]
      /\ prev' = [prev EXCEPT ![k] = [len |-> len, pos |-> i]]
      /\ mesh' = Level(mesh, [d |-> Representative(k), ell |-> len])
  BY <1>2 DEF ReadLength, Remember
<1>4. /\ Len(text) \in Nat /\ i \in 0 .. Len(text) /\ i \in Nat /\ i < Len(text)
      /\ Depth(text, i) \in Nat /\ Depth(text, i) <= Len(Dst)
  <2>1. i < Len(text)
    BY <1>1 DEF IInv, InputPart
  <2> QED
    BY <2>1, Here
<1>5. InputPart(text, pc, i)'
  BY <1>1 DEF IInv, InputPart
<1>6. MeshPart(text, pc, i, nlevels, level, mesh)'
  <2>1. mesh = ReadMesh(text, i)[level] /\ nlevels = Levels(i)
    BY <1>1 DEF IInv, MeshPart, Meshing
  <2>2. k \in 1 .. Len(Dst) /\ k - 1 = level /\ k \in 0 .. Depth(text, i)
    BY <1>2, <1>4, ClassesAssumption, ClassesIncrease
  <2>3. mesh' = Level(mesh, MatchAt(text, i, k))
    BY <1>3 DEF MatchAt
  <2> HIDE DEF k
  <2>4. ReadMesh(text, i)[k] = Level(ReadMesh(text, i)[k - 1], MatchAt(text, i, k))
    BY <2>2, ReadMeshIs
  <2>5. mesh' = ReadMesh(text, i)[k]
    BY <2>1, <2>2, <2>3, <2>4
  <2> QED
    BY <1>1, <2>1, <2>2, <2>5 DEF MeshPart
<1>7. StreamPart(text, pc, i, level, streams, prev)'
  <2> DEFINE new == streams'
             last == prev'
  <2>1. OneRead(text, i, k, streams, prev, new, last)
    BY <1>3 DEF OneRead
  <2>2. k = level + 1
    OBVIOUS
  <2> HIDE DEF k, new, last
  <2>3. EachLevel(text, FALSE, i, k, new, last)
    BY <1>2, <1>4, <2>1, <2>2, EachReads
  <2>4. pc = "cached" /\ pc # "levels" /\ (pc = "caching") = FALSE
    BY <1>1
  <2> QED
    BY <1>1, <2>3, <2>4 DEF StreamPart, new, last
<1>8. CountPart(pc, i, cur_dst_idx)'
  BY <1>1 DEF IInv
<1>9. GraphPart(text, pc, i, graph, cached)'
  BY <1>1 DEF IInv
<1>10. FixPart(text, pc, i, lowest_pos, next, s)'
  BY <1>1 DEF IInv
<1>11. VectorPart(pc, mesh, maxedges)'
  BY <1>1 DEF VectorPart
<1> QED
  BY <1>5, <1>6, <1>7, <1>8, <1>9, <1>10, <1>11 DEF IInv

LEMMA EndOfReadKeeps ==
  ASSUME IInv, EndOfRead, UNCHANGED integrating
  PROVE  IInv'
<1> DEFINE q == i + 1
<1>1. /\ pc = "cached" /\ ~ (~ mesh.stopped /\ level < nlevels)
      /\ cached' = Append(cached, mesh.edges) /\ i' = q /\ pc' = "levels"
      /\ text' = text /\ streams' = streams /\ prev' = prev /\ cur_dst_idx' = cur_dst_idx
      /\ nlevels' = nlevels /\ level' = level /\ mesh' = mesh /\ graph' = graph
      /\ lowest_pos' = lowest_pos /\ next' = next /\ s' = s /\ maxedges' = maxedges
  BY DEF EndOfRead, MoreLevels, integrating, edges
<1>2. /\ Len(text) \in Nat /\ i \in 0 .. Len(text) /\ i \in Nat /\ i < Len(text) /\ pc \in Meshing
      /\ q \in 0 .. Len(text) /\ q \in Nat /\ text \in CacheTexts /\ q > 0 /\ q - 1 = i
  <2>1. i < Len(text)
    BY <1>1 DEF IInv, InputPart
  <2> QED
    BY <1>1, <2>1, Here DEF Meshing
<1>3. MeshPart(text, pc, i, nlevels, level, mesh)
  BY DEF IInv
<1>4. level = Depth(text, i)
  <2>1. level \in Nat /\ level \in 0 .. Depth(text, i) /\ ~ (level < Depth(text, i))
    BY <1>1, <1>2, <1>3, MoreAre
  <2>2. Depth(text, i) \in Nat
    BY Here
  <2> QED
    BY <2>1, <2>2
<1>5. mesh.edges = ReadEdges(text, i)
  BY <1>1, <1>2, <1>3, <1>4 DEF MeshPart, ReadEdges
<1> HIDE DEF q
<1>6. InputPart(text, pc, i)'
  BY <1>1, <1>2 DEF InputPart, Phases, Replaying
<1>7. MeshPart(text, pc, i, nlevels, level, mesh)'
  BY <1>1, <1>2, <1>5 DEF MeshPart, Meshing
<1>8. StreamPart(text, pc, i, level, streams, prev)'
  <2>1. (pc = "caching") = FALSE /\ (pc' = "caching") = FALSE /\ pc # "levels" /\ pc \in Replaying
    BY <1>1 DEF Replaying
  <2>2. EachLevel(text, FALSE, i, Depth(text, i), streams, prev)
    BY <1>4, <2>1 DEF IInv, StreamPart
  <2>3. EachLevel(text, FALSE, q, 0, streams, prev)
    BY <1>2, <2>2, EachPasses DEF q
  <2> QED
    BY <1>1, <2>1, <2>3 DEF StreamPart
<1>9. CountPart(pc, i, cur_dst_idx)'
  <2>1. cur_dst_idx = Levels(i) - 1
    BY <1>1 DEF IInv, CountPart
  <2>2. IndexBefore(q) = Levels(i) - 1
    BY <1>2 DEF IndexBefore
  <2> QED
    BY <1>1, <2>1, <2>2 DEF CountPart
<1>10. GraphPart(text, pc, i, graph, cached)'
  <2> DEFINE v == mesh.edges
  <2>1. GraphPart(text, "cached", i, graph, cached)
    BY <1>1 DEF IInv
  <2>2. v = ReadEdges(text, i)
    BY <1>5
  <2> HIDE DEF v
  <2>3. GraphPart(text, "levels", q, graph, Append(cached, v))
    BY <1>2, <2>1, <2>2, ReadGrows DEF q
  <2> QED
    BY <1>1, <2>3 DEF v
<1>11. FixPart(text, pc, i, lowest_pos, next, s)'
  <2>1. FixPart(text, pc, i, lowest_pos, next, s) /\ pc \in Replaying /\ "levels" \in Replaying
    BY <1>1 DEF IInv, Replaying
  <2>2. FixPart(text, "levels", q, lowest_pos, next, s)
    BY <2>1, FixStays
  <2> QED
    BY <1>1, <2>2
<1>12. VectorPart(pc, mesh, maxedges)'
  BY <1>1 DEF VectorPart
<1> QED
  BY <1>6, <1>7, <1>8, <1>9, <1>10, <1>11, <1>12 DEF IInv
-------------------------------------------------------------------------------
(* The steps of the integration: streams and graph are left alone.         *)

LEMMA GraphStays ==
  ASSUME NEW t, NEW ph, NEW p, NEW gr, NEW es, GraphPart(t, ph, p, gr, es),
         ph \notin Replaying \/ (ph = "levels" /\ p = Len(t)), NEW ph2, ph2 \notin Replaying, NEW p2
  PROVE  GraphPart(t, ph2, p2, gr, es)
<1>1. Len(gr) = Len(t) /\ Len(es) = Len(t) /\ "caching" \in Replaying /\ "levels" # "caching"
  BY DEF GraphPart, Replaying
<1>2. ph2 # "caching"
  BY <1>1
<1> QED
  BY <1>1, <1>2 DEF GraphPart

(* What an integration step that moves to another phase and position keeps *)
(* once the mesh, next and the vector are seen to.                         *)
LEMMA StepKeeps ==
  ASSUME IInv, pc \notin Replaying \/ (pc = "levels" /\ i = L),
         text' = text, graph' = graph, cached' = cached,
         pc' \in {"generate", "generating", "fix", "done"},
         i' \in 0 .. Len(text), pc' \in {"generating", "fix"} => i' < Len(text),
         MeshPart(text, pc, i, nlevels, level, mesh)', FixPart(text, pc, i, lowest_pos, next, s)',
         VectorPart(pc, mesh, maxedges)'
  PROVE  IInv'
<1>1. pc' \notin Replaying /\ pc' # "cached" /\ pc' # "levels"
  BY DEF Replaying
<1>2. InputPart(text, pc, i)'
  BY <1>1 DEF IInv, InputPart, Phases
<1>3. StreamPart(text, pc, i, level, streams, prev)'
  BY <1>1 DEF StreamPart
<1>4. CountPart(pc, i, cur_dst_idx)'
  BY <1>1 DEF CountPart
<1>5. GraphPart(text, pc, i, graph, cached)'
  <2> DEFINE ph2 == pc'
             p2 == i'
  <2>1. ph2 \notin Replaying
    BY <1>1
  <2> HIDE DEF ph2, p2
  <2>2. GraphPart(text, pc, i, graph, cached) /\ (pc \notin Replaying \/ (pc = "levels" /\ i = Len(text)))
    BY DEF IInv, L
  <2>3. GraphPart(text, ph2, p2, graph, cached)
    BY <2>1, <2>2, GraphStays
  <2> QED
    BY <2>3 DEF ph2, p2
<1> QED
  BY <1>2, <1>3, <1>4, <1>5 DEF IInv

LEMMA StartIntegrationKeeps ==
  ASSUME IInv, StartIntegration
  PROVE  IInv'
<1>1. /\ pc = "levels" /\ i = L /\ i' = 0 /\ pc' = "generate" /\ text' = text
      /\ graph' = graph /\ cached' = cached
      /\ lowest_pos' = lowest_pos /\ next' = next /\ s' = s
  BY DEF StartIntegration, caching, integrating
<1>2. Len(text) \in Nat /\ 0 \in 0 .. Len(text)
  BY Here
<1>3. MeshPart(text, pc, i, nlevels, level, mesh)'
  BY <1>1 DEF MeshPart, Meshing
<1>4. FixPart(text, pc, i, lowest_pos, next, s)'
  <2>1. FixPart(text, "levels", i, lowest_pos, next, s) /\ "levels" \in Replaying
    BY <1>1 DEF IInv, Replaying
  <2>2. lowest_pos = 0
    BY <2>1 DEF FixPart
  <2>3. FixPart(text, "generate", 0, lowest_pos, next, s)
    BY <2>1, <2>2 DEF FixPart, Replaying
  <2> QED
    BY <1>1, <2>3
<1>5. VectorPart(pc, mesh, maxedges)'
  BY <1>1 DEF VectorPart
<1> QED
  BY <1>1, <1>2, <1>3, <1>4, <1>5, StepKeeps

LEMMA StartEdgesKeeps ==
  ASSUME IInv, StartEdges
  PROVE  IInv'
<1>1. /\ pc = "generate" /\ lowest_pos < L /\ nlevels' = Levels(i) /\ level' = 0 /\ mesh' = Reset
      /\ pc' = "generating" /\ text' = text /\ i' = i /\ graph' = graph /\ cached' = cached
      /\ lowest_pos' = lowest_pos /\ next' = next /\ s' = s
  BY DEF StartEdges, caching, integrating
<1>2. Len(text) \in Nat /\ i \in 0 .. Len(text) /\ i \in Nat /\ L = Len(text)
  BY Here
<1>3. FixPart(text, "generate", i, lowest_pos, next, s)
  BY <1>1 DEF IInv
<1>4. i <= lowest_pos /\ lowest_pos \in 0 .. Len(text)
  BY <1>3 DEF FixPart
<1>5. MeshPart(text, pc, i, nlevels, level, mesh)'
  <2>1. MeshOK(text, i, 0, Reset) /\ Alike(Reset, ReadMesh(text, i)[0]) /\ 0 \in 0 .. Depth(text, i)
    BY <1>2, MeshBegins
  <2> QED
    BY <1>1, <2>1 DEF MeshPart
<1>6. FixPart(text, pc, i, lowest_pos, next, s)'
  <2>1. lowest_pos < Len(text)
    BY <1>1, <1>2
  <2>2. FixPart(text, "generating", i, lowest_pos, next, s)
    BY <1>3, <2>1 DEF FixPart, Replaying
  <2> QED
    BY <1>1, <2>2
<1>7. VectorPart(pc, mesh, maxedges)'
  <2>1. Len(Reset.edges) = 0
    BY DEF Reset
  <2> DEFINE vector == maxedges'
  <2> HIDE DEF vector
  <2>2. VectorPart("generating", Reset, vector)
    <3>1. MaxLevels \in Int
      BY ClassesAssumption, ClassesIncrease DEF MaxLevels
    <3>2. \A k \in 1 .. MaxLevels : ~ (k <= Len(Reset.edges))
      BY <2>1, <3>1
    <3> QED
      BY <3>2 DEF VectorPart
  <2> QED
    BY <1>1, <2>2 DEF vector
<1>8. i < Len(text) /\ pc \notin Replaying
  BY <1>1, <1>2, <1>4 DEF Replaying
<1> QED
  BY <1>1, <1>2, <1>5, <1>6, <1>7, <1>8, StepKeeps

LEMMA NextLevelKeeps ==
  ASSUME IInv, NextLevel
  PROVE  IInv'
<1> DEFINE k == level + 1
<1>1. /\ pc = "generating" /\ ~ mesh.stopped /\ level < nlevels
      /\ \E match \in MaxMatch(text, i, k) : mesh' = Level(mesh, match)
      /\ level' = k /\ nlevels' = nlevels
      /\ maxedges' = [n \in 1 .. MaxLevels |-> IF n <= Len(mesh'.edges) THEN mesh'.edges[n] ELSE maxedges[n]]
      /\ pc' = pc /\ text' = text /\ i' = i /\ graph' = graph /\ cached' = cached
      /\ lowest_pos' = lowest_pos /\ next' = next /\ s' = s
  BY DEF NextLevel, caching, MoreLevels
<1>2. /\ Len(text) \in Nat /\ i \in 0 .. Len(text) /\ i \in Nat /\ i < Len(text)
      /\ pc \in Meshing /\ pc \notin Replaying
  <2>1. i < Len(text)
    BY <1>1 DEF IInv, InputPart
  <2> QED
    BY <1>1, <2>1, Here DEF Meshing, Replaying
<1>3. MeshPart(text, pc, i, nlevels, level, mesh)
  BY DEF IInv
<1>4. level \in Nat /\ level < Depth(text, i)
  BY <1>1, <1>2, <1>3, MoreAre
<1>5. MeshPart(text, pc, i, nlevels, level, mesh)'
  <2>1. MeshOK(text, i, level, mesh) /\ Alike(mesh, ReadMesh(text, i)[level]) /\ nlevels = Levels(i)
    BY <1>1, <1>2, <1>3 DEF MeshPart
  <2>2. PICK match \in MaxMatch(text, i, level + 1) : mesh' = Level(mesh, match)
    BY <1>1
  <2>3. /\ MeshOK(text, i, level + 1, Level(mesh, match))
        /\ Alike(Level(mesh, match), ReadMesh(text, i)[level + 1])
        /\ level + 1 \in 0 .. Depth(text, i)
    BY <1>2, <1>4, <2>1, MeshAdvances
  <2>4. MeshOK(text, i, k, mesh') /\ Alike(mesh', ReadMesh(text, i)[k]) /\ k \in 0 .. Depth(text, i)
    BY <2>2, <2>3
  <2> HIDE DEF k
  <2> QED
    BY <1>1, <2>1, <2>4 DEF MeshPart
<1>6. FixPart(text, pc, i, lowest_pos, next, s)'
  BY <1>1 DEF IInv
<1>7. VectorPart(pc, mesh, maxedges)'
  <2> DEFINE m == mesh'
             vector == maxedges'
  <2>1. vector = [n \in 1 .. MaxLevels |-> IF n <= Len(m.edges) THEN m.edges[n] ELSE maxedges[n]]
    BY <1>1
  <2> HIDE DEF m, vector
  <2>2. VectorPart(pc, m, vector)
    BY <2>1 DEF VectorPart
  <2> QED
    BY <1>1, <2>2 DEF m, vector
<1> QED
  BY <1>1, <1>2, <1>5, <1>6, <1>7, StepKeeps

LEMMA SkipPositionKeeps ==
  ASSUME IInv, SkipPosition
  PROVE  IInv'
<1> DEFINE q == i + 1
<1>1. /\ pc = "generating" /\ i < lowest_pos /\ i' = q /\ pc' = "generate" /\ text' = text
      /\ graph' = graph /\ cached' = cached
      /\ lowest_pos' = lowest_pos /\ next' = next /\ s' = s
  BY DEF SkipPosition, caching, integrating
<1>2. Len(text) \in Nat /\ i \in Nat
  BY Here
<1>3. FixPart(text, "generating", i, lowest_pos, next, s)
  BY <1>1 DEF IInv
<1>4. lowest_pos \in 0 .. Len(text)
  BY <1>3 DEF FixPart
<1>5. q <= lowest_pos /\ q \in 0 .. Len(text)
  BY <1>1, <1>2, <1>4
<1> HIDE DEF q
<1>6. MeshPart(text, pc, i, nlevels, level, mesh)'
  BY <1>1 DEF MeshPart, Meshing
<1>7. FixPart(text, pc, i, lowest_pos, next, s)'
  <2>1. FixPart(text, "generate", q, lowest_pos, next, s)
    BY <1>3, <1>5 DEF FixPart, Replaying
  <2> QED
    BY <1>1, <2>1
<1>8. VectorPart(pc, mesh, maxedges)'
  BY <1>1 DEF VectorPart
<1>9. pc \notin Replaying
  BY <1>1 DEF Replaying
<1> QED
  BY <1>1, <1>5, <1>6, <1>7, <1>8, <1>9, StepKeeps

LEMMA StartFixingKeeps ==
  ASSUME IInv, StartFixing
  PROVE  IInv'
<1>1. /\ pc = "generating" /\ ~ (~ mesh.stopped /\ level < nlevels) /\ i >= lowest_pos
      /\ s' = 1 /\ pc' = "fix" /\ text' = text /\ i' = i
      /\ graph' = graph /\ cached' = cached /\ nlevels' = nlevels /\ level' = level /\ mesh' = mesh
      /\ lowest_pos' = lowest_pos /\ next' = next /\ maxedges' = maxedges
  BY DEF StartFixing, caching, MoreLevels, edges
<1>2. Len(text) \in Nat /\ i \in Nat /\ i \in 0 .. Len(text) /\ i < Len(text) /\ pc \in Meshing
  <2>1. i < Len(text)
    BY <1>1 DEF IInv, InputPart
  <2> QED
    BY <1>1, <2>1, Here DEF Meshing
<1>3. FixPart(text, "generating", i, lowest_pos, next, s)
  BY <1>1 DEF IInv
<1>4. lowest_pos \in 0 .. Len(text) /\ i <= lowest_pos
  BY <1>3 DEF FixPart
<1>5. lowest_pos = i
  BY <1>1, <1>2, <1>4
<1>6. MeshPart(text, pc, i, nlevels, level, mesh)'
  <2>1. MeshPart(text, pc, i, nlevels, level, mesh)
    BY DEF IInv
  <2>2. level \in Nat /\ level \in 0 .. Depth(text, i) /\ ~ (level < Depth(text, i))
    BY <1>1, <1>2, <2>1, MoreAre
  <2>3. Depth(text, i) \in Nat
    BY Here
  <2>4. level = Depth(text, i)
    BY <2>2, <2>3
  <2> QED
    BY <1>1, <1>2, <2>1, <2>2, <2>4 DEF MeshPart
<1>7. FixPart(text, pc, i, lowest_pos, next, s)'
  <2>1. 1 \in 1 .. (Parsings + 1) /\ \A n \in Sols : ~ (n < 1)
    BY ParsingsAssumption DEF Sols
  <2> DEFINE one == 1
  <2>2. one \in 1 .. (Parsings + 1) /\ \A n \in Sols : ~ (n < one)
    BY <2>1
  <2> HIDE DEF one
  <2>3. FixPart(text, "fix", i, lowest_pos, next, one)
    BY <1>3, <1>5, <2>2 DEF FixPart, Replaying
  <2> QED
    BY <1>1, <2>3 DEF one
<1>8. VectorPart(pc, mesh, maxedges)'
  BY <1>1 DEF VectorPart, IInv
<1>9. pc \notin Replaying
  BY <1>1 DEF Replaying
<1> QED
  BY <1>1, <1>2, <1>6, <1>7, <1>8, <1>9, StepKeeps

LEMMA PassByKeeps ==
  ASSUME IInv, PassBy
  PROVE  IInv'
<1> DEFINE sol == s + 1
<1>1. /\ pc = "fix" /\ s \in Sols /\ next[s] # i /\ s' = sol /\ pc' = pc /\ text' = text /\ i' = i
      /\ graph' = graph /\ cached' = cached /\ nlevels' = nlevels /\ level' = level /\ mesh' = mesh
      /\ lowest_pos' = lowest_pos /\ next' = next /\ maxedges' = maxedges
  BY DEF PassBy, caching, edges
<1>2. Len(text) \in Nat /\ i \in Nat /\ i \in 0 .. Len(text) /\ i < Len(text)
  <2>1. i < Len(text)
    BY <1>1 DEF IInv, InputPart
  <2> QED
    BY <2>1, Here
<1>3. FixPart(text, "fix", i, lowest_pos, next, s)
  BY <1>1 DEF IInv
<1>4. s \in 1 .. Parsings /\ Parsings \in Nat /\ sol \in 1 .. (Parsings + 1)
  BY <1>1, ParsingsAssumption DEF Sols
<1>5. ASSUME NEW n \in Sols, n < sol PROVE i < next[n]
  <2>1. /\ n \in 1 .. Parsings /\ next[n] \in 0 .. Len(text) /\ lowest_pos = i /\ lowest_pos <= next[n]
        /\ n < s => i < next[n]
    BY <1>3 DEF FixPart, Sols
  <2>2. CASE n = s
    BY <1>1, <1>2, <2>1, <2>2
  <2>3. CASE n # s
    BY <1>4, <1>5, <2>1, <2>3
  <2> QED
    BY <2>2, <2>3
<1> HIDE DEF sol
<1>6. FixPart(text, pc, i, lowest_pos, next, s)'
  <2>1. FixPart(text, "fix", i, lowest_pos, next, sol)
    BY <1>3, <1>4, <1>5 DEF FixPart, Replaying
  <2> QED
    BY <1>1, <2>1
<1>7. MeshPart(text, pc, i, nlevels, level, mesh)' /\ VectorPart(pc, mesh, maxedges)'
  BY <1>1 DEF IInv
<1>8. pc \notin Replaying
  BY <1>1 DEF Replaying
<1> QED
  BY <1>1, <1>2, <1>6, <1>7, <1>8, StepKeeps

Moved(nx, nx2, sol, to) == nx2 = [nx EXCEPT ![sol] = to]
LEMMA FixMoves ==
  ASSUME NEW t, Len(t) \in Nat, NEW p \in Nat, NEW low, NEW nx, NEW sol \in Sols, NEW ell \in Nat \ {0},
         FixPart(t, "fix", p, low, nx, sol), p + ell <= Len(t), NEW nx2, Moved(nx, nx2, sol, p + ell)
  PROVE  FixPart(t, "fix", p, low, nx2, sol + 1)
<1> DEFINE to == p + ell
           more == sol + 1
<1>1. to \in 0 .. Len(t) /\ p < to /\ nx2 = [nx EXCEPT ![sol] = to]
  BY DEF Moved
<1>2. /\ nx \in [Sols -> 0 .. Len(t)] /\ low \in 0 .. Len(t) /\ low < Len(t) /\ low = p
      /\ \A n \in Sols : low <= nx[n] /\ (n < sol => p < nx[n])
  BY DEF FixPart
<1> HIDE DEF to
<1>3. nx2 \in [Sols -> 0 .. Len(t)] /\ nx2[sol] = to /\ \A n \in Sols : n # sol => nx2[n] = nx[n]
  BY <1>1, <1>2
<1>4. sol \in 1 .. Parsings /\ Parsings \in Nat /\ more \in 1 .. (Parsings + 1)
  BY ParsingsAssumption DEF Sols
<1>5. ASSUME NEW n \in Sols PROVE low <= nx2[n] /\ (n < more => p < nx2[n])
  <2>1. CASE n = sol
    BY <1>1, <1>2, <1>3, <2>1
  <2>2. CASE n # sol
    <3>1. n \in 1 .. Parsings
      BY DEF Sols
    <3>2. nx2[n] = nx[n] /\ (n < more => n < sol)
      BY <1>3, <1>4, <2>2, <3>1
    <3> QED
      BY <1>2, <3>2
  <2> QED
    BY <2>1, <2>2
<1> HIDE DEF more
<1>6. FixPart(t, "fix", p, low, nx2, more)
  BY <1>2, <1>3, <1>4, <1>5 DEF FixPart, Replaying
<1> QED
  BY <1>6 DEF more

LEMMA PushKeeps ==
  ASSUME IInv, pc = "fix", s \in Sols, next[s] = i, NEW phrase, NEW e, Push(phrase, e),
         phrase.ell \in Nat \ {0}, i + phrase.ell <= Len(text)
  PROVE  IInv'
<1>1. /\ next' = [next EXCEPT ![s] = next[s] + phrase.ell]
      /\ s' = s + 1 /\ pc' = pc /\ text' = text /\ i' = i
      /\ graph' = graph /\ cached' = cached /\ nlevels' = nlevels /\ level' = level /\ mesh' = mesh
      /\ lowest_pos' = lowest_pos /\ maxedges' = maxedges
  BY DEF Push, caching, edges
<1>2. Len(text) \in Nat /\ i \in Nat /\ i \in 0 .. Len(text) /\ i < Len(text)
  <2>1. i < Len(text)
    BY DEF IInv, InputPart
  <2> QED
    BY <2>1, Here
<1>3. FixPart(text, pc, i, lowest_pos, next, s)'
  <2> DEFINE nx2 == next'
             ell == phrase.ell
  <2>1. Moved(next, nx2, s, i + ell)
    BY <1>1 DEF Moved
  <2>2. FixPart(text, "fix", i, lowest_pos, next, s) /\ ell \in Nat \ {0} /\ i + ell <= Len(text)
    BY DEF IInv
  <2> HIDE DEF nx2, ell
  <2>3. FixPart(text, "fix", i, lowest_pos, nx2, s + 1)
    BY <1>2, <2>1, <2>2, FixMoves
  <2> QED
    BY <1>1, <2>3 DEF nx2
<1>4. MeshPart(text, pc, i, nlevels, level, mesh)' /\ VectorPart(pc, mesh, maxedges)'
  BY <1>1 DEF IInv
<1>5. pc \notin Replaying
  BY DEF Replaying
<1> QED
  BY <1>1, <1>2, <1>3, <1>4, <1>5, StepKeeps

(* What the cached graph has at the position fixed is what generating it   *)
(* again gives, by lengths and costs.                                      *)
LEMMA CachedHere ==
  ASSUME IInv, pc = "fix"
  PROVE  /\ CachedEdges(i) = {ReadEdges(text, i)[k] : k \in DOMAIN ReadEdges(text, i)}
         /\ SameCopies(text, i, mesh.edges, ReadEdges(text, i))
<1>1. Len(text) \in Nat /\ i \in Nat /\ i \in 0 .. Len(text) /\ i < Len(text)
  <2>1. i < Len(text)
    BY DEF IInv, InputPart
  <2> QED
    BY <2>1, Here
<1>2. cached[i + 1] = ReadEdges(text, i)
  <2>1. GraphPart(text, pc, i, graph, cached) /\ pc \notin Replaying /\ pc # "caching"
    BY DEF IInv, Replaying
  <2>2. Len(cached) = Len(text) /\ \A n \in 1 .. Len(cached) : cached[n] = ReadEdges(text, n - 1)
    BY <2>1 DEF GraphPart
  <2> DEFINE k == i + 1
  <2>3. k \in 1 .. Len(cached) /\ k - 1 = i
    BY <1>1, <2>2
  <2> HIDE DEF k
  <2>4. cached[k] = ReadEdges(text, k - 1)
    BY <2>2, <2>3
  <2> QED
    BY <2>3, <2>4 DEF k
<1>3. MeshOK(text, i, level, mesh) /\ Alike(mesh, ReadMesh(text, i)[level]) /\ level = Depth(text, i)
      /\ level \in 0 .. Depth(text, i)
  BY DEF IInv, MeshPart, Meshing
<1>4. SameCopies(text, i, mesh.edges, ReadMesh(text, i)[level].edges)
  BY <1>1, <1>3, AlikeCopies
<1>5. ReadEdges(text, i) = ReadMesh(text, i)[level].edges
  BY <1>3 DEF ReadEdges
<1> QED
  BY <1>2, <1>4, <1>5 DEF CachedEdges, ToSet

LEMMA PushLiteralKeeps ==
  ASSUME IInv, PushLiteral
  PROVE  IInv'
<1>1. PICK ell \in 1 .. LongestRun : i + ell <= L /\ Push([d |-> 0, ell |-> ell], [d |-> 0, ell |-> ell])
  BY DEF PushLiteral
<1>2. pc = "fix" /\ s \in Sols /\ next[s] = i
  BY DEF PushLiteral
<1> DEFINE phrase == [d |-> 0, ell |-> ell]
<1>3. phrase.ell \in Nat \ {0} /\ i + phrase.ell <= Len(text) /\ Push(phrase, phrase)
  BY <1>1, Here, ParsingsAssumption
<1> HIDE DEF phrase
<1> QED
  BY <1>2, <1>3, PushKeeps

LEMMA PushCopyKeeps ==
  ASSUME IInv, PushCopy
  PROVE  IInv'
<1>1. PICK e \in CachedEdges(i) : Push([d |-> e.d, ell |-> e.ell], [d |-> Found(e.ell).d, ell |-> e.ell])
  BY DEF PushCopy
<1>2. pc = "fix" /\ s \in Sols /\ next[s] = i
  BY DEF PushCopy
<1>3. e.ell \in Nat \ {0} /\ i + e.ell <= Len(text)
  <2>1. /\ CachedEdges(i) = {ReadEdges(text, i)[k] : k \in DOMAIN ReadEdges(text, i)}
        /\ SameCopies(text, i, mesh.edges, ReadEdges(text, i))
    BY <1>2, CachedHere
  <2> DEFINE es == ReadEdges(text, i)
  <2>2. PICK k \in DOMAIN es : e = es[k]
    BY <1>1, <2>1
  <2>3. k \in 1 .. Len(mesh.edges)
    BY <2>1, <2>2 DEF SameCopies
  <2> QED
    BY <2>1, <2>2, <2>3 DEF SameCopies
<1> DEFINE phrase == [d |-> e.d, ell |-> e.ell]
           out == [d |-> Found(e.ell).d, ell |-> e.ell]
<1>4. phrase.ell \in Nat \ {0} /\ i + phrase.ell <= Len(text) /\ Push(phrase, out)
  BY <1>1, <1>3
<1> HIDE DEF phrase, out
<1> QED
  BY <1>2, <1>4, PushKeeps

LEMMA EndRoundKeeps ==
  ASSUME IInv, EndRound
  PROVE  IInv'
<1> DEFINE q == i + 1
           R == {next[n] : n \in Sols}
<1>1. /\ pc = "fix" /\ s \notin Sols /\ lowest_pos' = CHOOSE p \in Range(next) : \A n \in Sols : p <= next[n]
      /\ i' = q /\ pc' = "generate" /\ text' = text
      /\ graph' = graph /\ cached' = cached /\ next' = next /\ s' = s
  BY DEF EndRound, caching
<1>2. Len(text) \in Nat /\ i \in Nat /\ i < Len(text)
  <2>1. i < Len(text)
    BY <1>1 DEF IInv, InputPart
  <2> QED
    BY <2>1, Here
<1>3. FixPart(text, "fix", i, lowest_pos, next, s)
  BY <1>1 DEF IInv
<1>4. next \in [Sols -> 0 .. Len(text)] /\ s \in 1 .. (Parsings + 1)
      /\ \A n \in Sols : n < s => i < next[n]
  BY <1>3 DEF FixPart
<1>5. s = Parsings + 1 /\ Parsings \in Nat \ {0}
  BY <1>1, <1>4, ParsingsAssumption DEF Sols
<1>6. \A n \in Sols : i < next[n] /\ next[n] \in Nat /\ next[n] <= Len(text)
  BY <1>2, <1>4, <1>5 DEF Sols
<1>7. Range(next) = R
  BY <1>4 DEF Range
<1>8. \E p \in R : \A n \in Sols : p <= next[n]
  <2>1. R \subseteq Nat /\ R # {}
    BY <1>5, <1>6 DEF Sols
  <2>2. \A n \in Sols : next[n] \in R
    OBVIOUS
  <2> HIDE DEF R
  <2>3. PICK m \in R : \A n \in R : m <= n
    BY <2>1, SmallestOf
  <2> QED
    BY <2>2, <2>3
<1> DEFINE low == lowest_pos'
<1>9. low \in R /\ \A n \in Sols : low <= next[n]
  <2> HIDE DEF R
  <2>1. low = CHOOSE p \in R : \A n \in Sols : p <= next[n]
    BY <1>1, <1>7
  <2> HIDE DEF low
  <2> QED
    BY <1>8, <2>1
<1> HIDE DEF low
<1>10. low \in 0 .. Len(text) /\ q <= low /\ q \in 0 .. Len(text)
  <2>1. PICK n \in Sols : low = next[n]
    BY <1>9
  <2>2. i < low /\ low \in Nat /\ low <= Len(text)
    BY <1>6, <2>1
  <2> QED
    BY <1>2, <2>2
<1> HIDE DEF q, R
<1>11. FixPart(text, pc, i, lowest_pos, next, s)'
  <2>1. FixPart(text, "generate", q, low, next, s)
    BY <1>4, <1>9, <1>10 DEF FixPart, Replaying
  <2> QED
    BY <1>1, <2>1 DEF low
<1>12. MeshPart(text, pc, i, nlevels, level, mesh)' /\ VectorPart(pc, mesh, maxedges)'
  BY <1>1 DEF MeshPart, Meshing, VectorPart
<1>13. pc \notin Replaying
  BY <1>1 DEF Replaying
<1> QED
  BY <1>1, <1>10, <1>11, <1>12, <1>13, StepKeeps

LEMMA FinishKeeps ==
  ASSUME IInv, Finish
  PROVE  IInv'
<1>1. /\ pc = "generate" /\ lowest_pos >= L /\ pc' = "done" /\ text' = text /\ i' = i
      /\ graph' = graph /\ cached' = cached /\ lowest_pos' = lowest_pos /\ next' = next /\ s' = s
  BY DEF Finish, caching, integrating
<1>2. Len(text) \in Nat /\ i \in 0 .. Len(text) /\ L = Len(text)
  BY Here
<1>3. FixPart(text, pc, i, lowest_pos, next, s)'
  <2>1. FixPart(text, "generate", i, lowest_pos, next, s)
    BY <1>1 DEF IInv
  <2>2. lowest_pos = Len(text)
    BY <1>1, <1>2, <2>1 DEF FixPart
  <2>3. FixPart(text, "done", i, lowest_pos, next, s)
    BY <2>1, <2>2 DEF FixPart, Replaying
  <2> QED
    BY <1>1, <2>3
<1>4. MeshPart(text, pc, i, nlevels, level, mesh)' /\ VectorPart(pc, mesh, maxedges)'
  BY <1>1 DEF MeshPart, Meshing, VectorPart
<1>5. pc \notin Replaying
  BY <1>1 DEF Replaying
<1> QED
  BY <1>1, <1>2, <1>3, <1>4, <1>5, StepKeeps
-------------------------------------------------------------------------------
(* The theorems.                                                           *)

LEMMA StutterKeeps ==
  ASSUME IInv, UNCHANGED vars
  PROVE  IInv'
BY DEF IInv, vars, caching, edges, integrating

(* Every state of a session is one of the invariant: through both parses   *)
(* of the text, the streams hold the codes written and not read yet, the   *)
(* mesh read stands for the one generated, and no parsing is behind.       *)
THEOREM SessionInductive == Spec => []IInv
<1>1. IInv /\ [Next]_vars => IInv'
  <2>1. IInv /\ CacheStep => IInv'
    BY WriteLengthKeeps, EndOfCachedKeeps, RewindKeeps, CountLevelsKeeps, ReadLengthKeeps, EndOfReadKeeps
    DEF CacheStep, CacheNext
  <2> QED
    BY <2>1, StartIntegrationKeeps, StartEdgesKeeps, NextLevelKeeps, SkipPositionKeeps, StartFixingKeeps,
       PassByKeeps, PushLiteralKeeps, PushCopyKeeps, EndRoundKeeps, FinishKeeps, StutterKeeps
    DEF Next, Terminated
<1> QED
  BY <1>1, InitHolds, PTL DEF Spec

(* cached_fsg_gen never asks a stream for a code that is not there, and    *)
(* the length it decodes is the one caching_fsg_gen was given there.       *)
ReadsWhatWasWritten ==
  pc = "cached" /\ MoreLevels =>
    /\ streams[level + 1] # <<>>
    /\ Decode(Head(streams[level + 1])) + Base(level + 1) = LengthAt(text, i, level + 1)
THEOREM AlwaysReadsWhatWasWritten == Spec => []ReadsWhatWasWritten
<1>1. IInv => ReadsWhatWasWritten
  BY LengthRead DEF ReadsWhatWasWritten
<1> QED
  BY <1>1, SessionInductive, PTL

(* A parse on the cached streams is given, at each position, edges of the  *)
(* lengths and costs the first one was given, whatever matches its         *)
(* generator found, and leaves no stream with anything to read.            *)
THEOREM AlwaysSameGraph == Spec => []SameGraph
<1>1. IInv => SameGraph
  <2> SUFFICES ASSUME IInv, pc = "levels"
               PROVE  /\ i > 0 => /\ Priced(mesh.edges) = graph[i]
                                  /\ \A k \in DOMAIN mesh.edges :
                                       /\ mesh.edges[k].d <= i - 1
                                       /\ mesh.edges[k].cost_id = GetId(mesh.edges[k].d, mesh.edges[k].ell)
                      /\ i = L => \A k \in DOMAIN streams : streams[k] = <<>>
    BY DEF SameGraph
  <2>1. Len(text) \in Nat /\ i \in 0 .. Len(text) /\ i \in Nat /\ L = Len(text)
    BY Here
  <2>2. ASSUME i > 0
        PROVE  /\ Priced(mesh.edges) = graph[i]
               /\ \A k \in DOMAIN mesh.edges :
                    /\ mesh.edges[k].d <= i - 1
                    /\ mesh.edges[k].cost_id = GetId(mesh.edges[k].d, mesh.edges[k].ell)
    <3> DEFINE p == i - 1
               es == ReadEdges(text, p)
    <3>1. mesh.edges = es
      BY <2>2 DEF IInv, MeshPart
    <3>2. Len(graph) = Len(text) /\ \A n \in 1 .. Len(graph) : graph[n] = Priced(ReadEdges(text, n - 1))
      BY DEF IInv, GraphPart
    <3>3. i \in 1 .. Len(graph) /\ p \in 0 .. Len(text)
      BY <2>1, <2>2, <3>2
    <3>4. graph[i] = Priced(es)
      BY <3>2, <3>3
    <3> HIDE DEF p
    <3>5. PICK es1 : SameCopies(text, p, es1, es)
      BY <2>1, <3>3, ReadEdgesAre
    <3> HIDE DEF es
    <3>6. \A k \in DOMAIN es : es[k].d <= p /\ es[k].cost_id = GetId(es[k].d, es[k].ell)
      BY <3>5 DEF SameCopies
    <3> QED
      BY <3>1, <3>4, <3>6 DEF p
  <2>3. ASSUME i = L, NEW k \in DOMAIN streams PROVE streams[k] = <<>>
    <3>1. EachLevel(text, FALSE, i, 0, streams, prev)
      <4>1. (pc = "caching") = FALSE /\ pc \in Replaying
        BY DEF Replaying
      <4> QED
        BY <4>1 DEF IInv, StreamPart
    <3>2. k \in 1 .. LevelsOf(text) /\ LevelPart(text, FALSE, i, 0, k, streams[k], prev[k])
      BY <3>1 DEF EachLevel
    <3>3. k \in Nat \ {0}
      BY <2>1, <3>2, LevelsOfIs
    <3>4. PlaceOf(k, i, 0) = Len(text)
      BY <2>1, <2>3, <3>3 DEF PlaceOf
    <3>5. Unread(text, k, Len(text), streams[k])
      BY <3>2, <3>4 DEF LevelPart
    <3> QED
      BY <2>1, <3>5, StreamOver
  <2> QED
    BY <2>2, <2>3
<1> QED
  BY <1>1, SessionInductive, PTL

(* integrate never throws "a fixable edge found no match": generating a    *)
(* position again gives an edge as long as each copy the cached graph has. *)
THEOREM AlwaysFindsAnEdge == Spec => []NeverThrows
<1>1. IInv => NeverThrows
  <2> SUFFICES ASSUME IInv, pc = "fix", NEW e \in CachedEdges(i)
               PROVE  \E k \in DOMAIN mesh.edges : mesh.edges[k].ell = e.ell
    BY DEF NeverThrows
  <2> DEFINE es == ReadEdges(text, i)
  <2>1. CachedEdges(i) = {es[k] : k \in DOMAIN es} /\ SameCopies(text, i, mesh.edges, es)
    BY CachedHere
  <2>2. PICK k \in DOMAIN es : e = es[k]
    BY <2>1
  <2> HIDE DEF es
  <2>3. k \in DOMAIN mesh.edges /\ mesh.edges[k].ell = es[k].ell
    BY <2>1, <2>2 DEF SameCopies
  <2> QED
    BY <2>2, <2>3
<1> QED
  BY <1>1, SessionInductive, PTL

(* What integrate generates never gets past the next phrase of a parsing,  *)
(* and all parsings are whole when it returns.                             *)
THEOREM NoneIsMissed == Spec => []NoPhraseMissed
<1>1. IInv => NoPhraseMissed
  <2> SUFFICES ASSUME IInv PROVE NoPhraseMissed
    OBVIOUS
  <2>1. Len(text) \in Nat /\ i \in Nat /\ L = Len(text)
    BY Here
  <2>2. /\ next \in [Sols -> 0 .. Len(text)] /\ lowest_pos \in 0 .. Len(text)
        /\ \A n \in Sols : lowest_pos <= next[n]
        /\ pc \in {"generate", "generating"} => i <= lowest_pos
        /\ pc = "fix" => lowest_pos = i /\ \A n \in Sols : n < s => i < next[n]
        /\ pc = "done" => lowest_pos = Len(text)
    BY DEF IInv, FixPart
  <2>3. \A n \in Sols : next[n] \in Nat /\ next[n] <= Len(text)
    BY <2>1, <2>2
  <2>4. ASSUME pc \in {"generate", "generating"}, NEW n \in Sols PROVE i <= next[n]
    BY <2>1, <2>2, <2>3, <2>4
  <2>5. ASSUME pc = "fix", NEW n \in Sols PROVE IF n < s THEN i < next[n] ELSE i <= next[n]
    BY <2>2, <2>5, Zenon
  <2>6. ASSUME pc = "done", NEW n \in Sols PROVE next[n] = L
    <3>1. Len(text) <= next[n] /\ next[n] <= Len(text) /\ next[n] \in Nat
      BY <2>2, <2>3, <2>6
    <3> QED
      BY <2>1, <3>1
  <2> QED
    BY <2>4, <2>5, <2>6 DEF NoPhraseMissed
<1> QED
  BY <1>1, SessionInductive, PTL

(* The edge found for a copy is the one generated for it: at its length,   *)
(* the vector has no edge of an earlier position before it.                *)
LEMMA FoundIs ==
  ASSUME IInv, pc = "fix", NEW e \in CachedEdges(i)
  PROVE  /\ GoodEdge(text, i, Found(e.ell)) /\ Found(e.ell).ell = e.ell
         /\ GetId(Found(e.ell).d, e.ell) = GetId(e.d, e.ell)
<1> DEFINE es == ReadEdges(text, i)
           mine == mesh.edges
           ell == e.ell
           S == Equal(ell)
           first == CHOOSE k \in S : \A n \in S : k <= n
<1>1. CachedEdges(i) = {es[k] : k \in DOMAIN es} /\ SameCopies(text, i, mine, es)
  BY CachedHere
<1>2. PICK q \in DOMAIN es : e = es[q]
  BY <1>1
<1> HIDE DEF es
<1>3. /\ q \in 1 .. Len(mine) /\ Len(mine) \in Nat /\ Len(mine) <= MaxLevels /\ mine[q].ell = ell
      /\ mine[q].cost_id = e.cost_id /\ e.cost_id = GetId(e.d, e.ell)
      /\ GoodEdge(text, i, mine[q])
  BY <1>1, <1>2 DEF SameCopies
<1>4. MaxLevels \in Nat
  BY ClassesAssumption, ClassesIncrease DEF MaxLevels
<1>5. \A k \in 1 .. MaxLevels : k <= Len(mine) => maxedges[k] = mine[k]
  BY DEF IInv, VectorPart
<1>6. S = {k \in 1 .. MaxLevels : maxedges[k].ell = ell}
  BY DEF Equal
<1>7. Found(ell) = maxedges[first]
  BY DEF Found
<1> HIDE DEF S, mine, ell
<1>8. q \in S /\ S \subseteq Nat
  <2>1. q \in 1 .. MaxLevels /\ q <= Len(mine)
    BY <1>3, <1>4
  <2> QED
    BY <1>3, <1>4, <1>5, <1>6, <2>1
<1>9. \E k \in S : \A n \in S : k <= n
  BY <1>8, SmallestOf
<1>10. first \in S /\ \A n \in S : first <= n
  BY <1>9
<1> HIDE DEF first
<1>11. first \in 1 .. MaxLevels /\ first <= q /\ maxedges[first].ell = ell
  BY <1>6, <1>8, <1>10
<1>12. first \in 1 .. Len(mine) /\ maxedges[first] = mine[first]
  BY <1>3, <1>4, <1>5, <1>11
<1>13. first = q
  <2>1. \A a, b \in 1 .. Len(mine) : mine[a].ell = mine[b].ell => a = b
    BY <1>1 DEF SameCopies
  <2>2. mine[first].ell = mine[q].ell
    BY <1>3, <1>11, <1>12
  <2> QED
    BY <1>3, <1>12, <2>1, <2>2
<1>14. Found(ell) = mine[q]
  BY <1>7, <1>12, <1>13
<1> DEFINE f == mine[q]
<1>15. f.cost_id = GetId(f.d, f.ell)
  BY <1>3 DEF GoodEdge
<1> QED
  BY <1>3, <1>14, <1>15 DEF ell

(* Each copy integrate pushes repeats the text for the whole phrase, at a  *)
(* distance that costs what the one of the cached graph does, although the *)
(* vector looked in holds edges of positions before.                       *)
THEOREM AlwaysCopiesTheText == Spec => FixedCopiesTheText
<1> DEFINE Copies2 ==
      fixed' # fixed /\ fixed'.in.d > 0 =>
        LET copy == fixed'.out IN
        /\ copy.d \in 1 .. i
        /\ copy.ell <= MatchLen(text, i, copy.d)
        /\ GetId(copy.d, copy.ell) = GetId(fixed'.in.d, fixed'.in.ell)
<1>1. IInv /\ [Next]_vars => [Copies2]_vars
  <2> SUFFICES ASSUME IInv, Next PROVE Copies2
    OBVIOUS
  <2>1. CASE PushCopy
    <3>1. PICK e \in CachedEdges(i) :
            Push([d |-> e.d, ell |-> e.ell], [d |-> Found(e.ell).d, ell |-> e.ell])
      BY <2>1 DEF PushCopy
    <3>2. fixed' = [in |-> [d |-> e.d, ell |-> e.ell], out |-> [d |-> Found(e.ell).d, ell |-> e.ell]]
      BY <3>1 DEF Push
    <3>3. pc = "fix"
      BY <2>1 DEF PushCopy
    <3> DEFINE f == Found(e.ell)
    <3>4. GoodEdge(text, i, f) /\ f.ell = e.ell /\ GetId(f.d, e.ell) = GetId(e.d, e.ell)
      BY <3>1, <3>3, FoundIs
    <3>5. f.d \in 1 .. i /\ f.ell \in 1 .. MatchLen(text, i, f.d)
      BY <3>4 DEF GoodEdge, IsCopy
    <3>6. MatchLen(text, i, f.d) \in Nat
      <4>1. Len(text) \in Nat /\ i \in 0 .. Len(text)
        BY Here
      <4> DEFINE m == MatchLen(text, i, f.d)
      <4>2. m \in 0 .. (Len(text) - i)
        BY <4>1, MatchLenIs
      <4> HIDE DEF m
      <4> QED
        BY <4>1, <4>2 DEF m
    <3> DEFINE copy == fixed'.out
               old == fixed'.in
    <3>7. copy.d = f.d /\ copy.ell = e.ell /\ old.d = e.d /\ old.ell = e.ell
      BY <3>2
    <3> HIDE DEF f, copy, old
    <3>8. /\ copy.d \in 1 .. i
          /\ copy.ell <= MatchLen(text, i, copy.d)
          /\ GetId(copy.d, copy.ell) = GetId(old.d, old.ell)
      BY <3>4, <3>5, <3>6, <3>7
    <3> QED
      BY <3>8 DEF copy, old
  <2>2. CASE PushLiteral
    <3>1. PICK ell \in 1 .. LongestRun : Push([d |-> 0, ell |-> ell], [d |-> 0, ell |-> ell])
      BY <2>2 DEF PushLiteral
    <3>2. fixed'.in.d = 0
      BY <3>1 DEF Push
    <3> QED
      BY <3>2
  <2>3. CASE ~ PushCopy /\ ~ PushLiteral
    <3>1. fixed' = fixed
      BY <2>3 DEF Next, CacheStep, StartIntegration, StartEdges, NextLevel, SkipPosition, StartFixing,
                  PassBy, EndRound, Finish, Terminated, vars, integrating
    <3> QED
      BY <3>1
  <2> QED
    BY <2>1, <2>2, <2>3
<1> QED
  BY <1>1, SessionInductive, PTL DEF Spec, FixedCopiesTheText

===============================================================================
