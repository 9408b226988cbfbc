-------------------------- MODULE RankWindowsProofs ---------------------------
(***************************************************************************)
(* Proofs about RankWindows, for every text, classes of distances and of   *)
(* lengths, share of the trees and width of a word: trees and bitmaps hold *)
(* the windows, and the edges are those a generator promises.              *)
(***************************************************************************)
EXTENDS RankWindows, EdgeMeshProofs, FiniteSetTheorems, SequenceTheorems
-------------------------------------------------------------------------------

Sides == {"left", "right"}
NodeRecs(N) ==
  [key : Int, info : Int, left : N \union {Null}, right : N \union {Null}, height : Nat]
Heaps(N) == [N -> NodeRecs(N)]
Larger(m, n) == IF m > n THEN m ELSE n

Under(D, x) == IF x = Null THEN {} ELSE D[x]
(* Keys that belong on a side of a node of that key. *)
OnSide(h, s, A, key) ==
  \A y \in A : IF s = "left" THEN h[y].key < key ELSE h[y].key > key
Even(h, x) ==
  /\ Balance(h, x) \in {-1, 0, 1}
  /\ h[x].height = 1 + Larger(Height(h, h[x].left), Height(h, h[x].right))
NodeRight(h, D, x) ==
  LET A == Under(D, h[x].left)  B == Under(D, h[x].right) IN
  /\ D[x] = {x} \union A \union B /\ x \notin A \union B /\ A \intersect B = {}
  /\ OnSide(h, "left", A, h[x].key) /\ OnSide(h, "right", B, h[x].key)
  /\ Even(h, x)
Descends(h, S, D, r) ==
  /\ D \in [S -> SUBSET S] /\ r \in S \union {Null} /\ Under(D, r) = S
  /\ \A x \in S : h[x].left \in S \union {Null} /\ h[x].right \in S \union {Null} /\ NodeRight(h, D, x)
  /\ \A x \in S : \A y \in D[x] : D[y] \subseteq D[x]
(* The nodes of S are a balanced search tree with root r. *)
AVL(h, S, r) == \E D : Descends(h, S, D, r)

Parts(h, f, s, A, B) ==
  /\ f \notin A \union B /\ A \intersect B = {}
  /\ AVL(h, A, h[f][s]) /\ AVL(h, B, h[f][Other(s)])
  /\ OnSide(h, s, A, h[f].key) /\ OnSide(h, Other(s), B, h[f].key)

Nodal(N) == N \subseteq Nat

LEMMA NullIsNone == ASSUME NEW N, Nodal(N) PROVE Null \notin N
  BY DEF Nodal, Null

LEMMA Childs ==
  ASSUME NEW N, NEW h \in Heaps(N), NEW x \in N
  PROVE  /\ h[x] \in NodeRecs(N) /\ DOMAIN h = N
         /\ h[x].left \in N \union {Null} /\ h[x].right \in N \union {Null}
         /\ h[x].height \in Nat /\ h[x].key \in Int /\ h[x].info \in Int
         /\ \A s \in Sides : h[x][s] \in N \union {Null} /\ Other(s) \in Sides /\ Other(Other(s)) = s /\ Other(s) # s
  BY DEF Heaps, NodeRecs, Sides, Other

LEMMA HeightIs ==
  ASSUME NEW N, Nodal(N), NEW h \in Heaps(N), NEW x \in N \union {Null}
  PROVE  Height(h, x) \in Nat
  BY Childs DEF Height

(* A tree depends on its nodes only. *)
LEMMA EmptyTree ==
  ASSUME NEW h, NEW S
  PROVE  AVL(h, S, Null) <=> S = {}
<1>1. ASSUME AVL(h, S, Null) PROVE S = {}
  BY <1>1 DEF AVL, Descends, Under
<1>2. ASSUME S = {} PROVE AVL(h, S, Null)
  <2>1. Descends(h, S, [x \in S |-> {}], Null)
    BY <1>2 DEF Descends, Under
  <2> QED
    BY <2>1 DEF AVL
<1> QED
  BY <1>1, <1>2

LEMMA RootIs ==
  ASSUME NEW h, NEW S, NEW r, AVL(h, S, r), Null \notin S
  PROVE  r \in S \union {Null} /\ (r = Null <=> S = {})
<1>1. PICK D : Descends(h, S, D, r)
  BY DEF AVL
<1>2. r # Null => r \in D[r]
  BY <1>1 DEF Descends, NodeRight
<1> QED
  BY <1>1, <1>2 DEF Descends, Under

LEMMA Frame ==
  ASSUME NEW N, Nodal(N), NEW h \in Heaps(N), NEW g \in Heaps(N), NEW S, S \subseteq N, NEW r,
         AVL(h, S, r), \A x \in S : g[x] = h[x]
  PROVE  AVL(g, S, r)
<1>1. PICK D : Descends(h, S, D, r)
  BY DEF AVL
<1>2. ASSUME NEW x \in S PROVE NodeRight(g, D, x)
  <2>1. /\ g[x] = h[x] /\ h[x].left \in S \union {Null} /\ h[x].right \in S \union {Null}
        /\ NodeRight(h, D, x) /\ D \in [S -> SUBSET S]
    BY <1>1 DEF Descends
  <2>2. Height(g, g[x].left) = Height(h, h[x].left) /\ Height(g, g[x].right) = Height(h, h[x].right)
    BY <2>1 DEF Height
  <2>3. Under(D, g[x].left) \subseteq S /\ Under(D, g[x].right) \subseteq S
    BY <2>1 DEF Under
  <2>4. Even(g, x)
    BY <2>1, <2>2 DEF Even, Balance, NodeRight
  <2>5. \A y \in S : g[y].key = h[y].key
    OBVIOUS
  <2>6. /\ OnSide(g, "left", Under(D, g[x].left), g[x].key)
        /\ OnSide(g, "right", Under(D, g[x].right), g[x].key)
    BY <2>1, <2>3, <2>5 DEF NodeRight, OnSide
  <2> QED
    BY <2>1, <2>4, <2>6 DEF NodeRight
<1>3. Descends(g, S, D, r)
  BY <1>1, <1>2 DEF Descends
<1> QED
  BY <1>3 DEF AVL

(* A tree is a node with a tree on each side. *)
Divided(h, S, r, s) == \E A, B : S = {r} \union A \union B /\ Parts(h, r, s, A, B)
LEMMA Split ==
  ASSUME NEW N, Nodal(N), NEW h \in Heaps(N), NEW S, S \subseteq N, NEW r, AVL(h, S, r), r # Null
  PROVE  r \in S /\ Even(h, r) /\ Divided(h, S, r, "left")
<1>1. PICK D : Descends(h, S, D, r)
  BY DEF AVL
<1> DEFINE a == h[r].left
           b == h[r].right
           A == Under(D, a)
           B == Under(D, b)
<1>2. /\ r \in S /\ Even(h, r) /\ S = {r} \union A \union B
      /\ r \notin A \union B /\ A \intersect B = {}
      /\ OnSide(h, "left", A, h[r].key) /\ OnSide(h, "right", B, h[r].key)
  BY <1>1 DEF Descends, NodeRight, Under
<1>3. ASSUME NEW x \in S \union {Null}, Null \notin S PROVE AVL(h, Under(D, x), x)
  <2>1. CASE x = Null
    BY <2>1, EmptyTree DEF Under
  <2>2. CASE x # Null
    <3> DEFINE U == D[x]
               E == [y \in U |-> D[y]]
    <3>1. x \in S /\ U \subseteq S /\ x \in U /\ \A y \in U : D[y] \subseteq U
      BY <1>1, <2>2 DEF Descends, NodeRight
    <3>2. E \in [U -> SUBSET U] /\ Under(E, x) = U /\ \A y \in U : E[y] = D[y]
      BY <3>1, <2>2 DEF Under
    <3>3. ASSUME NEW y \in U
          PROVE  /\ h[y].left \in U \union {Null} /\ h[y].right \in U \union {Null}
                 /\ NodeRight(h, E, y)
      <4>1. /\ NodeRight(h, D, y) /\ h[y].left \in S \union {Null} /\ h[y].right \in S \union {Null}
            /\ D[y] \subseteq U
        BY <3>1, <1>1 DEF Descends
      <4>2. \A z \in S : z \in D[z]
        BY <1>1 DEF Descends, NodeRight
      <4>3. h[y].left # Null => h[y].left \in D[y]
        BY <4>1, <4>2 DEF NodeRight, Under
      <4>4. h[y].right # Null => h[y].right \in D[y]
        BY <4>1, <4>2 DEF NodeRight, Under
      <4>5. /\ h[y].left \in U \union {Null} /\ h[y].right \in U \union {Null}
            /\ Under(E, h[y].left) = Under(D, h[y].left) /\ Under(E, h[y].right) = Under(D, h[y].right)
            /\ E[y] = D[y]
        BY <4>1, <4>3, <4>4, <3>2 DEF Under
      <4> QED
        BY <4>1, <4>5 DEF NodeRight
    <3> HIDE DEF E, U
    <3>4. \A y \in U : \A z \in E[y] : E[z] \subseteq E[y]
      <4>1. \A y \in U : \A z \in D[y] : D[z] \subseteq D[y] /\ z \in U
        BY <3>1, <1>1 DEF Descends
      <4> QED
        BY <4>1, <3>2
    <3>5. Descends(h, U, E, x)
      BY <3>1, <3>2, <3>3, <3>4 DEF Descends
    <3>6. AVL(h, U, x)
      BY <3>5 DEF AVL
    <3> QED
      BY <2>2, <3>6 DEF U, Under
  <2> QED
    BY <2>1, <2>2
<1>4. AVL(h, A, a) /\ AVL(h, B, b)
  <2>1. a \in S \union {Null} /\ b \in S \union {Null} /\ Null \notin S
    BY <1>1, <1>2, NullIsNone DEF Descends
  <2> HIDE DEF a, b
  <2> QED
    BY <1>3, <2>1
<1>5. Parts(h, r, "left", A, B)
  BY <1>2, <1>4 DEF Parts, Other
<1> HIDE DEF A, B
<1>6. Divided(h, S, r, "left")
  BY <1>2, <1>5 DEF Divided
<1> QED
  BY <1>2, <1>6

LEMMA Join ==
  ASSUME NEW N, Nodal(N), NEW h \in Heaps(N), NEW f \in N, NEW A, A \subseteq N, NEW B, B \subseteq N,
         Parts(h, f, "left", A, B), Even(h, f)
  PROVE  AVL(h, {f} \union A \union B, f)
<1> DEFINE a == h[f].left
           b == h[f].right
           S == {f} \union A \union B
<1>0. /\ f \notin A \union B /\ A \intersect B = {} /\ AVL(h, A, a) /\ AVL(h, B, b)
      /\ OnSide(h, "left", A, h[f].key) /\ OnSide(h, "right", B, h[f].key)
  BY DEF Parts, Other
<1>1. PICK P : Descends(h, A, P, a)
  BY <1>0 DEF AVL
<1>2. PICK Q : Descends(h, B, Q, b)
  BY <1>0 DEF AVL
<1> DEFINE D == [x \in S |-> IF x \in A THEN P[x] ELSE IF x \in B THEN Q[x] ELSE S]
<1>n. Null \notin N
  BY NullIsNone
<1>3. D \in [S -> SUBSET S]
  BY <1>1, <1>2 DEF Descends
<1>4. /\ \A x \in A : D[x] = P[x]
      /\ \A x \in B : D[x] = Q[x]
      /\ D[f] = S
  BY <1>0
<1> HIDE DEF D
<1>5. /\ \A x \in A \union {Null} : Under(D, x) = Under(P, x)
      /\ \A x \in B \union {Null} : Under(D, x) = Under(Q, x)
  BY <1>4 DEF Under
<1>6. ASSUME NEW x \in A
      PROVE  h[x].left \in S \union {Null} /\ h[x].right \in S \union {Null} /\ NodeRight(h, D, x)
  <2>1. h[x].left \in A \union {Null} /\ h[x].right \in A \union {Null} /\ NodeRight(h, P, x)
    BY <1>1 DEF Descends
  <2>2. /\ Under(D, h[x].left) = Under(P, h[x].left) /\ Under(D, h[x].right) = Under(P, h[x].right)
        /\ D[x] = P[x]
    BY <2>1, <1>4, <1>5
  <2> QED
    BY <2>1, <2>2 DEF NodeRight
<1>7. ASSUME NEW x \in B
      PROVE  h[x].left \in S \union {Null} /\ h[x].right \in S \union {Null} /\ NodeRight(h, D, x)
  <2>1. h[x].left \in B \union {Null} /\ h[x].right \in B \union {Null} /\ NodeRight(h, Q, x)
    BY <1>2 DEF Descends
  <2>2. /\ Under(D, h[x].left) = Under(Q, h[x].left) /\ Under(D, h[x].right) = Under(Q, h[x].right)
        /\ D[x] = Q[x]
    BY <2>1, <1>4, <1>5
  <2> QED
    BY <2>1, <2>2 DEF NodeRight
<1>8. a \in S \union {Null} /\ b \in S \union {Null} /\ NodeRight(h, D, f)
  <2>1. a \in A \union {Null} /\ b \in B \union {Null} /\ Under(P, a) = A /\ Under(Q, b) = B
    BY <1>1, <1>2 DEF Descends
  <2>2. Under(D, a) = A /\ Under(D, b) = B
    BY <2>1, <1>5
  <2>3. NodeRight(h, D, f)
    BY <2>2, <1>0, <1>4 DEF NodeRight
  <2> QED
    BY <2>1, <2>3
<1>9. ASSUME NEW x \in S, NEW y \in D[x] PROVE D[y] \subseteq D[x]
  <2>1. CASE x \in A
    <3>1. D[x] = P[x] /\ P[x] \subseteq A /\ P[y] \subseteq P[x]
      BY <2>1, <1>1, <1>4, <1>9 DEF Descends
    <3> QED
      BY <3>1, <1>4, <1>9
  <2>2. CASE x \in B
    <3>1. D[x] = Q[x] /\ Q[x] \subseteq B /\ Q[y] \subseteq Q[x]
      BY <2>2, <1>2, <1>4, <1>9 DEF Descends
    <3> QED
      BY <3>1, <1>4, <1>9
  <2>3. CASE x = f
    BY <2>3, <1>3, <1>4, <1>9
  <2> QED
    BY <2>1, <2>2, <2>3
<1>10. Descends(h, S, D, f)
  <2>1. Under(D, f) = S
    BY <1>4, <1>n DEF Under
  <2> QED
    BY <1>3, <1>6, <1>7, <1>8, <1>9, <2>1 DEF Descends
<1> QED
  BY <1>10 DEF AVL

LEMMA OtherSide ==
  ASSUME NEW h, NEW f, NEW s \in Sides, NEW A, NEW B, Parts(h, f, s, A, B)
  PROVE  Parts(h, f, Other(s), B, A)
<1>1. Other(Other(s)) = s
  BY DEF Other, Sides
<1> QED
  BY <1>1 DEF Parts

EvenAt(h, f, s) ==
  LET m == Height(h, h[f][s])  n == Height(h, h[f][Other(s)]) IN
  m <= n + 1 /\ n <= m + 1 /\ h[f].height = 1 + Larger(m, n)

LEMMA EvenSides ==
  ASSUME NEW N, Nodal(N), NEW h \in Heaps(N), NEW f \in N, NEW s \in Sides
  PROVE  EvenAt(h, f, s) <=> Even(h, f)
<1>1. Height(h, h[f].left) \in Nat /\ Height(h, h[f].right) \in Nat
  BY Childs, HeightIs
<1>2. CASE s = "left"
  <2>1. h[f][s] = h[f].left /\ h[f][Other(s)] = h[f].right
    BY <1>2 DEF Other
  <2> QED
    BY <1>1, <2>1 DEF EvenAt, Even, Balance, Larger
<1>3. CASE s = "right"
  <2>1. h[f][s] = h[f].right /\ h[f][Other(s)] = h[f].left
    BY <1>3 DEF Other
  <2> QED
    BY <1>1, <2>1 DEF EvenAt, Even, Balance, Larger
<1> QED
  BY <1>2, <1>3 DEF Sides

LEMMA JoinAt ==
  ASSUME NEW N, Nodal(N), NEW h \in Heaps(N), NEW f \in N, NEW s \in Sides,
         NEW A, A \subseteq N, NEW B, B \subseteq N, Parts(h, f, s, A, B), EvenAt(h, f, s)
  PROVE  AVL(h, {f} \union A \union B, f)
<1>1. Even(h, f)
  BY EvenSides
<1>2. CASE s = "left"
  BY <1>1, <1>2, Join
<1>3. CASE s = "right"
  <2>1. Parts(h, f, "left", B, A)
    BY <1>3, OtherSide DEF Other
  <2>2. AVL(h, {f} \union B \union A, f)
    BY <1>1, <2>1, Join
  <2>3. {f} \union B \union A = {f} \union A \union B
    OBVIOUS
  <2> QED
    BY <2>2, <2>3
<1> QED
  BY <1>2, <1>3 DEF Sides

LEMMA SplitAt ==
  ASSUME NEW N, Nodal(N), NEW h \in Heaps(N), NEW S, S \subseteq N, NEW r, AVL(h, S, r), r # Null,
         NEW s \in Sides
  PROVE  r \in S /\ EvenAt(h, r, s) /\ Divided(h, S, r, s)
<1>1. r \in S /\ Even(h, r) /\ Divided(h, S, r, "left")
  BY Split
<1>2. PICK A, B : S = {r} \union A \union B /\ Parts(h, r, "left", A, B)
  BY <1>1 DEF Divided
<1>3. EvenAt(h, r, s)
  BY <1>1, EvenSides
<1>4. CASE s = "left"
  BY <1>1, <1>3, <1>4
<1>5. CASE s = "right"
  <2>1. Parts(h, r, s, B, A)
    BY <1>2, <1>5, OtherSide DEF Other, Sides
  <2>2. S = {r} \union B \union A
    BY <1>2
  <2>3. Divided(h, S, r, s)
    BY <2>1, <2>2 DEF Divided
  <2> QED
    BY <1>1, <1>3, <2>3
<1> QED
  BY <1>4, <1>5 DEF Sides

-------------------------------------------------------------------------------
(* Rotations.                                                              *)
SameBut(h, g, S) == \A z \in DOMAIN h : z \notin S => g[z] = h[z]
SameData(h, g) == \A z \in DOMAIN h : g[z].key = h[z].key /\ g[z].info = h[z].info

SameSides(h, g, x) == \A s \in Sides : g[x][s] = h[x][s]
SetChild(h, x, s, c) == [h EXCEPT ![x][s] = c]

Reckoned(h, g, x) ==
  /\ SameBut(h, g, {x}) /\ SameData(h, g) /\ SameSides(h, g, x)
  /\ g[x].height = 1 + Larger(Height(h, h[x].left), Height(h, h[x].right))
LEMMA Updated ==
  ASSUME NEW N, Nodal(N), NEW h \in Heaps(N), NEW x \in N
  PROVE  UpdateHeight(h, x) \in Heaps(N) /\ Reckoned(h, UpdateHeight(h, x), x)
<1> DEFINE m == Height(h, h[x].left)
           n == Height(h, h[x].right)
           v == 1 + Height(h, IF Balance(h, x) > 0 THEN h[x].left ELSE h[x].right)
           g == UpdateHeight(h, x)
<1>1. m \in Nat /\ n \in Nat
  BY Childs, HeightIs
<1>2. v = 1 + Larger(m, n) /\ v \in Nat
  BY <1>1 DEF Balance, Larger
<1>3. g = [h EXCEPT ![x].height = v]
  BY DEF UpdateHeight
<1> HIDE DEF v, g
<1>4. /\ g \in Heaps(N) /\ DOMAIN h = N
      /\ g[x].left = h[x].left /\ g[x].right = h[x].right /\ g[x].height = v
      /\ g[x].key = h[x].key /\ g[x].info = h[x].info
      /\ \A z \in N : z # x => g[z] = h[z]
  BY <1>2, <1>3 DEF Heaps, NodeRecs
<1>5. SameSides(h, g, x)
  BY <1>4 DEF Sides, SameSides
<1>6. SameBut(h, g, {x}) /\ SameData(h, g)
  BY <1>4 DEF SameBut, SameData
<1>7. Reckoned(h, g, x)
  BY <1>2, <1>4, <1>5, <1>6 DEF Reckoned
<1> QED
  BY <1>4, <1>7 DEF g

Hooked(h, g, x, s, c) ==
  /\ SameBut(h, g, {x}) /\ SameData(h, g)
  /\ g[x][s] = c /\ g[x][Other(s)] = h[x][Other(s)] /\ g[x].height = h[x].height
LEMMA Hung ==
  ASSUME NEW N, Nodal(N), NEW h \in Heaps(N), NEW x \in N, NEW s \in Sides, NEW c \in N \union {Null}
  PROVE  SetChild(h, x, s, c) \in Heaps(N) /\ Hooked(h, SetChild(h, x, s, c), x, s, c)
<1> DEFINE g == SetChild(h, x, s, c)
<1>1. CASE s = "left"
  <2>1. /\ g \in Heaps(N) /\ DOMAIN h = N
        /\ g[x].left = c /\ g[x].right = h[x].right /\ g[x].height = h[x].height
        /\ g[x].key = h[x].key /\ g[x].info = h[x].info
        /\ \A z \in N : z # x => g[z] = h[z]
    BY <1>1 DEF Heaps, NodeRecs, SetChild
  <2> HIDE DEF g
  <2>2. SameBut(h, g, {x}) /\ SameData(h, g) /\ g[x][s] = c /\ g[x][Other(s)] = h[x][Other(s)]
    BY <1>1, <2>1 DEF SameBut, SameData, Other
  <2> QED
    BY <2>1, <2>2 DEF g, Hooked
<1>2. CASE s = "right"
  <2>1. /\ g \in Heaps(N) /\ DOMAIN h = N
        /\ g[x].right = c /\ g[x].left = h[x].left /\ g[x].height = h[x].height
        /\ g[x].key = h[x].key /\ g[x].info = h[x].info
        /\ \A z \in N : z # x => g[z] = h[z]
    BY <1>2 DEF Heaps, NodeRecs, SetChild
  <2> HIDE DEF g
  <2>2. SameBut(h, g, {x}) /\ SameData(h, g) /\ g[x][s] = c /\ g[x][Other(s)] = h[x][Other(s)]
    BY <1>2, <2>1 DEF SameBut, SameData, Other
  <2> QED
    BY <2>1, <2>2 DEF g, Hooked
<1> QED
  BY <1>1, <1>2 DEF Sides

LEMMA UpdatedAt ==
  ASSUME NEW N, Nodal(N), NEW h \in Heaps(N), NEW x \in N, NEW s \in Sides
  PROVE  UpdateHeight(h, x)[x].height = 1 + Larger(Height(h, h[x][s]), Height(h, h[x][Other(s)]))
<1>1. Height(h, h[x].left) \in Nat /\ Height(h, h[x].right) \in Nat
  BY Childs, HeightIs
<1>2. UpdateHeight(h, x)[x].height = 1 + Larger(Height(h, h[x].left), Height(h, h[x].right))
  BY Updated DEF Reckoned
<1>3. CASE s = "left"
  <2>1. h[x][s] = h[x].left /\ h[x][Other(s)] = h[x].right
    BY <1>3 DEF Other
  <2> QED
    BY <1>2, <2>1
<1>4. CASE s = "right"
  <2>1. h[x][s] = h[x].right /\ h[x][Other(s)] = h[x].left
    BY <1>4 DEF Other
  <2>2. Larger(Height(h, h[x].left), Height(h, h[x].right)) = Larger(Height(h, h[x].right), Height(h, h[x].left))
    BY <1>1 DEF Larger
  <2> QED
    BY <1>2, <2>1, <2>2
<1> QED
  BY <1>3, <1>4 DEF Sides

Rotated(h, g, x, f, s) ==
  /\ SameBut(h, g, {x, f}) /\ SameData(h, g)
  /\ g[f][s] = h[x][Other(s)] /\ g[f][Other(s)] = h[f][Other(s)]
  /\ g[f].height = 1 + Larger(Height(h, h[x][Other(s)]), Height(h, h[f][Other(s)]))
  /\ g[x][Other(s)] = f /\ g[x][s] = h[x][s]
  /\ g[x].height = 1 + Larger(Height(h, h[x][s]), g[f].height)

LEMMA RotateIs ==
  ASSUME NEW N, Nodal(N), NEW h \in Heaps(N), NEW x \in N, NEW f \in N, x # f, NEW s \in Sides,
         \A c \in {h[x][s], h[x][Other(s)], h[f][Other(s)]} : c # x /\ c # f
  PROVE  Rotate(h, x, f, s) \in Heaps(N) /\ Rotated(h, Rotate(h, x, f, s), x, f, s)
<1> DEFINE o == Other(s)
           inner == h[x][o]
           outer == h[x][s]
           b == h[f][o]
           h1 == SetChild(h, f, s, inner)
           h2 == UpdateHeight(h1, f)
           h3 == SetChild(h2, x, o, f)
           h4 == UpdateHeight(h3, x)
<1>0. /\ o \in Sides /\ Other(o) = s /\ o # s /\ DOMAIN h = N /\ Null \notin N
      /\ inner \in N \union {Null} /\ outer \in N \union {Null} /\ b \in N \union {Null}
      /\ inner # x /\ inner # f /\ outer # x /\ outer # f /\ b # x /\ b # f
  BY Childs, NullIsNone
<1>r. Rotate(h, x, f, s) = h4
  BY DEF Rotate, SetChild
<1> HIDE DEF inner, outer, b
<1>1. /\ h1 \in Heaps(N) /\ SameBut(h, h1, {f}) /\ SameData(h, h1)
      /\ h1[f][s] = inner /\ h1[f][o] = b
  <2>1. inner \in N \union {Null}
    BY <1>0
  <2>2. h1 \in Heaps(N) /\ Hooked(h, h1, f, s, inner)
    BY <2>1, Hung
  <2> QED
    BY <2>2 DEF b, Hooked
<1> HIDE DEF h1
<1>2. /\ h2 \in Heaps(N) /\ SameBut(h1, h2, {f}) /\ SameData(h1, h2)
      /\ h2[f][s] = inner /\ h2[f][o] = b
      /\ h2[f].height = 1 + Larger(Height(h1, inner), Height(h1, b))
  <2>0. h2 \in Heaps(N) /\ Reckoned(h1, h2, f)
    BY <1>1, Updated
  <2>1. h2[f].height = 1 + Larger(Height(h1, h1[f][s]), Height(h1, h1[f][Other(s)]))
    BY <1>1, UpdatedAt
  <2> QED
    BY <1>0, <1>1, <2>0, <2>1 DEF Reckoned, SameSides
<1> HIDE DEF h2
<1>3. h3 \in Heaps(N) /\ SameBut(h2, h3, {x}) /\ SameData(h2, h3) /\ h3[x][o] = f /\ h3[x][s] = h2[x][s]
  <2>1. f \in N \union {Null} /\ o \in Sides /\ Other(o) = s /\ h2 \in Heaps(N)
    BY <1>0, <1>2
  <2> HIDE DEF o
  <2>2. h3 \in Heaps(N) /\ Hooked(h2, h3, x, o, f)
    BY <2>1, Hung
  <2> QED
    BY <2>1, <2>2 DEF Hooked
<1> HIDE DEF h3
<1>4. /\ h4 \in Heaps(N) /\ SameBut(h3, h4, {x}) /\ SameData(h3, h4)
      /\ h4[x][o] = f /\ h4[x][s] = h2[x][s]
      /\ h4[x].height = 1 + Larger(Height(h3, h2[x][s]), Height(h3, f))
  <2>1. h4[x].height = 1 + Larger(Height(h3, h3[x][s]), Height(h3, h3[x][Other(s)]))
    BY <1>3, UpdatedAt
  <2>2. h4 \in Heaps(N) /\ Reckoned(h3, h4, x)
    BY <1>3, Updated
  <2> QED
    BY <1>0, <1>3, <2>1, <2>2 DEF Reckoned, SameSides
<1> HIDE DEF h4, o
<1>5. /\ DOMAIN h1 = N /\ DOMAIN h2 = N /\ DOMAIN h3 = N
      /\ \A z \in N : z # f => h1[z] = h[z] /\ h2[z] = h1[z]
      /\ \A z \in N : z # x => h3[z] = h2[z] /\ h4[z] = h3[z]
  BY <1>0, <1>1, <1>2, <1>3, <1>4 DEF SameBut, Heaps
<1>6. /\ h2[x] = h[x] /\ h4[f] = h2[f] /\ h3[f] = h2[f] /\ h2[x][s] = outer
      /\ \A z \in N : z \notin {x, f} => h4[z] = h[z]
  BY <1>5 DEF outer
<1>7. SameBut(h, h4, {x, f})
  BY <1>0, <1>6 DEF SameBut
<1>8. SameData(h, h4)
  BY <1>0, <1>1, <1>2, <1>3, <1>4, <1>5 DEF SameData
<1>9. Height(h1, inner) = Height(h, inner) /\ Height(h1, b) = Height(h, b) /\ Height(h3, outer) = Height(h, outer)
  BY <1>0, <1>5 DEF Height
<1>10. Height(h3, f) = h4[f].height
  BY <1>0, <1>6 DEF Height
<1>11. h4[f].height = 1 + Larger(Height(h, inner), Height(h, b))
  BY <1>2, <1>6, <1>9
<1>12. h4[x].height = 1 + Larger(Height(h, outer), h4[f].height)
  BY <1>4, <1>6, <1>9, <1>10
<1>13. h4[f][s] = inner /\ h4[f][o] = b /\ h4[x][o] = f /\ h4[x][s] = outer
  BY <1>2, <1>4, <1>6
<1>14. Rotated(h, h4, x, f, s)
  BY <1>7, <1>8, <1>11, <1>12, <1>13 DEF Rotated, inner, outer, b, o
<1> QED
  BY <1>4, <1>14, <1>r

(* g, with the top that is given, has in S a tree of the nodes of h. *)
Settled(h, g, S, top) == AVL(g, S, top) /\ SameBut(h, g, S) /\ SameData(h, g)
Lopsided(h, f, s, A, B) ==
  Parts(h, f, s, A, B) /\ Height(h, h[f][s]) = Height(h, h[f][Other(s)]) + 2

LEMMA SidesKept ==
  ASSUME NEW N, NEW h \in Heaps(N), NEW g \in Heaps(N), SameData(h, g), NEW s \in Sides,
         NEW A, A \subseteq N, NEW x \in N, OnSide(h, s, A, h[x].key)
  PROVE  OnSide(g, s, A, g[x].key)
  BY Childs DEF SameData, OnSide

LEMMA SideUnion ==
  ASSUME NEW h, NEW s, NEW A, NEW B, NEW k
  PROVE  /\ OnSide(h, s, A \union B, k) <=> OnSide(h, s, A, k) /\ OnSide(h, s, B, k)
         /\ \A x : OnSide(h, s, {x} \union A \union B, k)
                     <=> OnSide(h, s, {x}, k) /\ OnSide(h, s, A, k) /\ OnSide(h, s, B, k)
  BY DEF OnSide

LEMMA SideTurns ==
  ASSUME NEW N, NEW h \in Heaps(N), NEW s \in Sides, NEW x \in N, NEW f \in N, OnSide(h, s, {x}, h[f].key)
  PROVE  /\ OnSide(h, Other(s), {f}, h[x].key)
         /\ \A B \in SUBSET N : OnSide(h, Other(s), B, h[f].key) => OnSide(h, Other(s), B, h[x].key)
<1>1. h[x].key \in Int /\ h[f].key \in Int /\ \A y \in N : h[y].key \in Int
  BY Childs
<1>2. CASE s = "left"
  BY <1>1, <1>2 DEF OnSide, Other
<1>3. CASE s = "right"
  BY <1>1, <1>3 DEF OnSide, Other
<1> QED
  BY <1>2, <1>3 DEF Sides

LEMMA SingleRotation ==
  ASSUME NEW N, Nodal(N), NEW h \in Heaps(N), NEW f \in N, NEW s \in Sides,
         NEW A, A \subseteq N, NEW B, B \subseteq N, Lopsided(h, f, s, A, B),
         NEW x \in N, x = h[f][s],
         Height(h, h[x][Other(s)]) <= Height(h, h[x][s])
  PROVE  /\ Rotate(h, x, f, s) \in Heaps(N)
         /\ Settled(h, Rotate(h, x, f, s), {f} \union A \union B, x)
         /\ Rotate(h, x, f, s)[x].height \in {h[x].height, h[x].height + 1}
<1> DEFINE o == Other(s)
           g == Rotate(h, x, f, s)
           inner == h[x][o]
           outer == h[x][s]
           b == h[f][o]
<1>0. o \in Sides /\ Other(o) = s /\ Null \notin N /\ DOMAIN h = N
  BY Childs, NullIsNone
<1>1. /\ f \notin A \union B /\ A \intersect B = {} /\ AVL(h, A, x) /\ AVL(h, B, b)
      /\ OnSide(h, s, A, h[f].key) /\ OnSide(h, o, B, h[f].key)
      /\ Height(h, x) = Height(h, b) + 2
  BY DEF Lopsided, Parts
<1>2. x \in A /\ EvenAt(h, x, s) /\ Divided(h, A, x, s)
  BY <1>0, <1>1, SplitAt
<1>3. PICK O, I : A = {x} \union O \union I /\ Parts(h, x, s, O, I)
  BY <1>2 DEF Divided
<1>4. /\ x \notin O \union I /\ O \intersect I = {} /\ AVL(h, O, outer) /\ AVL(h, I, inner)
      /\ OnSide(h, s, O, h[x].key) /\ OnSide(h, o, I, h[x].key)
      /\ O \subseteq N /\ I \subseteq N
  BY <1>3 DEF Parts
<1>5. outer \in O \union {Null} /\ inner \in I \union {Null} /\ b \in B \union {Null}
  BY <1>0, <1>1, <1>4, RootIs
<1>6. g \in Heaps(N) /\ Rotated(h, g, x, f, s)
  <2>1. x # f /\ \A c \in {h[x][s], h[x][Other(s)], h[f][Other(s)]} : c # x /\ c # f
    BY <1>0, <1>1, <1>2, <1>3, <1>4, <1>5
  <2> HIDE DEF o, g, inner, outer, b
  <2> QED
    BY <2>1, RotateIs DEF g
<1> HIDE DEF g, inner, outer, b
<1>7. /\ SameBut(h, g, {x, f}) /\ SameData(h, g)
      /\ g[f][s] = inner /\ g[f][o] = b /\ g[x][o] = f /\ g[x][s] = outer
      /\ g[f].height = 1 + Larger(Height(h, inner), Height(h, b))
      /\ g[x].height = 1 + Larger(Height(h, outer), g[f].height)
  BY <1>6 DEF Rotated, inner, outer, b
<1>8. /\ \A z \in O \union I \union B : g[z] = h[z]
      /\ Height(g, outer) = Height(h, outer) /\ Height(g, inner) = Height(h, inner)
      /\ Height(g, b) = Height(h, b) /\ Height(g, f) = g[f].height
  <2>1. \A z \in O \union I \union B : g[z] = h[z]
    BY <1>0, <1>1, <1>2, <1>3, <1>4, <1>7 DEF SameBut
  <2> QED
    BY <1>0, <1>5, <2>1 DEF Height
<1>9. AVL(g, O, outer) /\ AVL(g, I, inner) /\ AVL(g, B, b)
  BY <1>1, <1>4, <1>6, <1>8, Frame
<1>10. /\ OnSide(h, s, {x}, h[f].key) /\ OnSide(h, s, I, h[f].key)
       /\ OnSide(h, o, {f}, h[x].key) /\ OnSide(h, o, B, h[x].key)
  <2>1. OnSide(h, s, {x}, h[f].key) /\ OnSide(h, s, I, h[f].key)
    BY <1>1, <1>3, SideUnion
  <2> QED
    BY <1>1, <2>1, SideTurns
<1>11. /\ OnSide(g, s, I, g[f].key) /\ OnSide(g, o, B, g[f].key)
       /\ OnSide(g, s, O, g[x].key) /\ OnSide(g, o, {f} \union I \union B, g[x].key)
  <2>1. OnSide(h, o, {f} \union I \union B, h[x].key)
    BY <1>4, <1>10, SideUnion
  <2>2. {f} \union I \union B \subseteq N
    BY <1>4
  <2> HIDE DEF o
  <2>3. OnSide(g, s, I, g[f].key)
    BY <1>4, <1>6, <1>7, <1>10, SidesKept
  <2>4. OnSide(g, o, B, g[f].key)
    BY <1>0, <1>1, <1>6, <1>7, SidesKept
  <2>5. OnSide(g, s, O, g[x].key)
    BY <1>4, <1>6, <1>7, SidesKept
  <2>6. OnSide(g, o, {f} \union I \union B, g[x].key)
    BY <1>0, <1>6, <1>7, <2>1, <2>2, SidesKept
  <2> QED
    BY <2>3, <2>4, <2>5, <2>6
<1>h. /\ Height(h, outer) \in Nat /\ Height(h, inner) \in Nat /\ Height(h, b) \in Nat
      /\ h[x].height = Height(h, b) + 2 /\ Height(h, inner) <= Height(h, outer)
      /\ Height(h, outer) <= Height(h, inner) + 1
      /\ h[x].height = 1 + Larger(Height(h, outer), Height(h, inner))
  <2>1. outer \in N \union {Null} /\ inner \in N \union {Null} /\ b \in N \union {Null}
    BY <1>4, <1>5
  <2>2. Height(h, x) = h[x].height
    BY <1>0 DEF Height
  <2> QED
    BY <1>1, <1>2, <2>1, <2>2, HeightIs DEF EvenAt, inner, outer
<1>12. /\ Height(h, outer) = Height(h, b) + 1
       /\ Height(h, inner) \in {Height(h, b), Height(h, b) + 1}
  BY <1>h DEF Larger
<1>13. /\ EvenAt(g, f, s) /\ EvenAt(g, x, s) /\ g[x].height \in {h[x].height, h[x].height + 1}
  <2> DEFINE p == Height(h, b)
             q == Height(h, inner)
             hf == g[f].height
             hx == g[x].height
  <2>1. p \in Nat /\ q \in {p, p + 1} /\ hf = 1 + Larger(q, p) /\ hx = 1 + Larger(p + 1, hf)
    BY <1>h, <1>7, <1>12
  <2>2. /\ Height(g, g[f][s]) = q /\ Height(g, g[f][Other(s)]) = p
        /\ Height(g, g[x][s]) = p + 1 /\ Height(g, g[x][Other(s)]) = hf
    BY <1>7, <1>8, <1>12
  <2> HIDE DEF p, q, hf, hx
  <2>3. hf \in {p + 1, p + 2} /\ hx \in {p + 2, p + 3}
    BY <2>1 DEF Larger
  <2>4. EvenAt(g, f, s)
    BY <2>1, <2>2 DEF EvenAt, hf, Larger
  <2>5. EvenAt(g, x, s)
    BY <2>1, <2>2, <2>3 DEF EvenAt, hx
  <2>6. h[x].height = p + 2
    BY <1>h DEF p
  <2> QED
    BY <2>3, <2>4, <2>5, <2>6, <2>1 DEF hx
<1>14. AVL(g, {f} \union I \union B, f)
  <2>1. Parts(g, f, s, I, B)
    BY <1>1, <1>3, <1>7, <1>9, <1>11 DEF Parts
  <2> QED
    BY <1>4, <1>6, <1>13, <2>1, JoinAt
<1>15. AVL(g, {x} \union O \union ({f} \union I \union B), x)
  <2>1. Parts(g, x, s, O, {f} \union I \union B)
    BY <1>1, <1>2, <1>3, <1>4, <1>7, <1>9, <1>11, <1>14 DEF Parts
  <2>2. {f} \union I \union B \subseteq N
    BY <1>4
  <2> QED
    BY <1>4, <1>6, <1>13, <2>1, <2>2, JoinAt
<1>16. {x} \union O \union ({f} \union I \union B) = {f} \union A \union B
  BY <1>3
<1>17. SameBut(h, g, {f} \union A \union B)
  BY <1>2, <1>7 DEF SameBut
<1>18. Settled(h, g, {f} \union A \union B, x)
  BY <1>7, <1>15, <1>16, <1>17 DEF Settled
<1> QED
  BY <1>6, <1>13, <1>18 DEF g

(* x is the child of f on a side, and y that of x on the other one. *)
Elbow(h, f, s, x, y) ==
  x = h[f][s] /\ y = h[x][Other(s)] /\ Height(h, y) > Height(h, h[x][s])
Twice(h, f, s, x, y) == Rotate(Rotate(h, y, x, Other(s)), y, f, s)
Brought(N, h, g, S, x, y) == g \in Heaps(N) /\ Settled(h, g, S, y) /\ g[y].height = h[x].height
LEMMA DoubleRotation ==
  ASSUME NEW N, Nodal(N), NEW h \in Heaps(N), NEW f \in N, NEW s \in Sides,
         NEW A, A \subseteq N, NEW B, B \subseteq N, Lopsided(h, f, s, A, B),
         NEW x \in N, NEW y \in N, Elbow(h, f, s, x, y)
  PROVE  Brought(N, h, Twice(h, f, s, x, y), {f} \union A \union B, x, y)
<1> DEFINE o == Other(s)
           e == Rotate(h, y, x, o)
           g == Rotate(e, y, f, s)
           outer == h[x][s]
           b == h[f][o]
           i == h[y][s]
           j == h[y][o]
<1>0. o \in Sides /\ Other(o) = s /\ Null \notin N /\ DOMAIN h = N
  BY Childs, NullIsNone
<1>1. /\ f \notin A \union B /\ A \intersect B = {} /\ AVL(h, A, x) /\ AVL(h, B, b)
      /\ OnSide(h, s, A, h[f].key) /\ OnSide(h, o, B, h[f].key)
      /\ Height(h, x) = Height(h, b) + 2
  BY DEF Lopsided, Parts, Elbow
<1>2. x \in A /\ EvenAt(h, x, s) /\ Divided(h, A, x, s)
  BY <1>0, <1>1, SplitAt
<1>3. PICK O, C : A = {x} \union O \union C /\ Parts(h, x, s, O, C)
  BY <1>2 DEF Divided
<1>4. /\ x \notin O \union C /\ O \intersect C = {} /\ AVL(h, O, outer) /\ AVL(h, C, y)
      /\ OnSide(h, s, O, h[x].key) /\ OnSide(h, o, C, h[x].key)
      /\ O \subseteq N /\ C \subseteq N
  BY <1>3 DEF Parts, Elbow
<1>5. y \in C /\ EvenAt(h, y, s) /\ Divided(h, C, y, s)
  BY <1>0, <1>4, SplitAt
<1>6. PICK I, J : C = {y} \union I \union J /\ Parts(h, y, s, I, J)
  BY <1>5 DEF Divided
<1>7. /\ y \notin I \union J /\ I \intersect J = {} /\ AVL(h, I, i) /\ AVL(h, J, j)
      /\ OnSide(h, s, I, h[y].key) /\ OnSide(h, o, J, h[y].key)
      /\ I \subseteq N /\ J \subseteq N
  BY <1>4, <1>6 DEF Parts
<1>8. outer \in O \union {Null} /\ b \in B \union {Null} /\ i \in I \union {Null} /\ j \in J \union {Null}
  BY <1>0, <1>1, <1>4, <1>7, RootIs
<1>9. /\ x # f /\ y # f /\ x # y
      /\ \A c \in {outer, b, i, j} : c # x /\ c # y /\ c # f
  <2> HIDE DEF o, e, g, outer, b, i, j
  <2> QED
    BY <1>0, <1>1, <1>2, <1>3, <1>4, <1>5, <1>6, <1>7, <1>8
<1>10. e \in Heaps(N) /\ Rotated(h, e, y, x, o)
  <2>1. y # x /\ \A c \in {h[y][o], h[y][Other(o)], h[x][Other(o)]} : c # y /\ c # x
    BY <1>0, <1>9
  <2> HIDE DEF o, e, outer, b, i, j
  <2> QED
    BY <1>0, <2>1, RotateIs DEF e
<1>g. g = Rotate(e, y, f, s)
  OBVIOUS
<1> HIDE DEF e, g, outer, b, i, j
<1>11. /\ SameBut(h, e, {y, x}) /\ SameData(h, e)
       /\ e[x][o] = i /\ e[x][s] = outer
       /\ e[x].height = 1 + Larger(Height(h, i), Height(h, outer))
       /\ e[y][s] = x /\ e[y][o] = j
  BY <1>0, <1>10 DEF Rotated, outer, i, j
<1>12. e[f] = h[f] /\ e[f][o] = b /\ DOMAIN e = N
  BY <1>0, <1>9, <1>10, <1>11 DEF SameBut, b, Heaps
<1>13. g \in Heaps(N) /\ Rotated(e, g, y, f, s)
  <2>1. y # f /\ \A c \in {e[y][s], e[y][Other(s)], e[f][Other(s)]} : c # y /\ c # f
    BY <1>9, <1>11, <1>12
  <2> HIDE DEF o
  <2> QED
    BY <1>10, <1>g, <2>1, RotateIs
<1>14. /\ SameBut(e, g, {y, f}) /\ SameData(e, g)
       /\ g[f][s] = j /\ g[f][o] = b
       /\ g[f].height = 1 + Larger(Height(e, j), Height(e, b))
       /\ g[y][o] = f /\ g[y][s] = x
       /\ g[y].height = 1 + Larger(Height(e, x), g[f].height)
  BY <1>11, <1>12, <1>13 DEF Rotated
<1>15. /\ g[x] = e[x] /\ \A z \in N : z \notin {x, y, f} => g[z] = h[z] /\ e[z] = h[z]
  BY <1>0, <1>9, <1>11, <1>12, <1>14 DEF SameBut
<1>16. SameBut(h, g, {f} \union A \union B) /\ SameData(h, g)
  <2>1. x \in A /\ y \in A
    BY <1>2, <1>3, <1>5
  <2>2. SameBut(h, g, {f} \union A \union B)
    BY <1>0, <1>15, <2>1 DEF SameBut
  <2>3. SameData(h, g)
    BY <1>0, <1>11, <1>12, <1>14 DEF SameData
  <2> QED
    BY <2>2, <2>3
<1>17. /\ \A z \in O \union I \union J \union B : g[z] = h[z]
       /\ Height(g, outer) = Height(h, outer) /\ Height(g, i) = Height(h, i)
       /\ Height(g, j) = Height(h, j) /\ Height(g, b) = Height(h, b)
       /\ Height(e, j) = Height(h, j) /\ Height(e, b) = Height(h, b)
       /\ Height(e, x) = g[x].height /\ Height(g, x) = g[x].height /\ Height(g, f) = g[f].height
  <2>1. \A z \in O \union I \union J \union B : z \notin {x, y, f} /\ z \in N
    BY <1>1, <1>3, <1>4, <1>5, <1>6, <1>7
  <2>2. \A z \in O \union I \union J \union B : g[z] = h[z] /\ e[z] = h[z]
    BY <1>15, <2>1
  <2> QED
    BY <1>0, <1>8, <1>15, <2>2 DEF Height
<1>18. AVL(g, O, outer) /\ AVL(g, I, i) /\ AVL(g, J, j) /\ AVL(g, B, b)
  BY <1>1, <1>4, <1>7, <1>13, <1>17, Frame
<1>19. /\ OnSide(h, s, O, h[x].key) /\ OnSide(h, o, I, h[x].key)
       /\ OnSide(h, s, J, h[f].key) /\ OnSide(h, o, B, h[f].key)
       /\ OnSide(h, s, {x} \union O \union I, h[y].key)
       /\ OnSide(h, o, {f} \union J \union B, h[y].key)
  <2>1. /\ OnSide(h, s, {x}, h[f].key) /\ OnSide(h, s, C, h[f].key)
        /\ OnSide(h, o, {y}, h[x].key) /\ OnSide(h, o, I, h[x].key)
    <3>1. OnSide(h, s, {x} \union O \union C, h[f].key) /\ OnSide(h, o, {y} \union I \union J, h[x].key)
      BY <1>1, <1>3, <1>4, <1>6
    <3>2. OnSide(h, s, {x}, h[f].key) /\ OnSide(h, s, C, h[f].key)
      BY <3>1, SideUnion
    <3>3. OnSide(h, o, {y}, h[x].key) /\ OnSide(h, o, I, h[x].key)
      BY <3>1, SideUnion
    <3> QED
      BY <3>2, <3>3
  <2>2. OnSide(h, s, {y}, h[f].key) /\ OnSide(h, s, J, h[f].key)
    <3>1. OnSide(h, s, {y} \union I \union J, h[f].key)
      BY <2>1, <1>6
    <3> QED
      BY <3>1, SideUnion
  <2>3. OnSide(h, o, {f}, h[y].key) /\ OnSide(h, o, B, h[y].key)
    BY <1>1, <2>2, SideTurns
  <2>4. OnSide(h, s, {x}, h[y].key) /\ OnSide(h, s, O, h[y].key)
    <3> HIDE DEF o
    <3> QED
      BY <1>0, <1>4, <2>1, SideTurns
  <2> QED
    BY <1>1, <1>4, <1>7, <2>1, <2>2, <2>3, <2>4, SideUnion
<1>20. /\ OnSide(g, s, O, g[x].key) /\ OnSide(g, o, I, g[x].key)
       /\ OnSide(g, s, J, g[f].key) /\ OnSide(g, o, B, g[f].key)
       /\ OnSide(g, s, {x} \union O \union I, g[y].key)
       /\ OnSide(g, o, {f} \union J \union B, g[y].key)
  <2>1. {x} \union O \union I \subseteq N /\ {f} \union J \union B \subseteq N
    BY <1>4, <1>7
  <2> HIDE DEF o
  <2>2. OnSide(g, s, O, g[x].key)
    BY <1>4, <1>13, <1>16, <1>19, SidesKept
  <2>3. OnSide(g, o, I, g[x].key)
    BY <1>0, <1>7, <1>13, <1>16, <1>19, SidesKept
  <2>4. OnSide(g, s, J, g[f].key)
    BY <1>7, <1>13, <1>16, <1>19, SidesKept
  <2>5. OnSide(g, o, B, g[f].key)
    BY <1>0, <1>13, <1>16, <1>19, SidesKept
  <2>6. OnSide(g, s, {x} \union O \union I, g[y].key)
    BY <2>1, <1>13, <1>16, <1>19, SidesKept
  <2>7. OnSide(g, o, {f} \union J \union B, g[y].key)
    BY <1>0, <2>1, <1>13, <1>16, <1>19, SidesKept
  <2> QED
    BY <2>2, <2>3, <2>4, <2>5, <2>6, <2>7
<1>h. /\ Height(h, outer) \in Nat /\ Height(h, i) \in Nat /\ Height(h, j) \in Nat /\ Height(h, b) \in Nat
      /\ h[x].height = Height(h, b) + 2 /\ h[y].height > Height(h, outer)
      /\ h[y].height <= Height(h, outer) + 1
      /\ h[x].height = 1 + Larger(Height(h, outer), h[y].height)
      /\ Height(h, i) <= Height(h, j) + 1 /\ Height(h, j) <= Height(h, i) + 1
      /\ h[y].height = 1 + Larger(Height(h, i), Height(h, j)) /\ h[y].height \in Nat
  <2>1. outer \in N \union {Null} /\ i \in N \union {Null} /\ j \in N \union {Null} /\ b \in N \union {Null}
    BY <1>4, <1>7, <1>8
  <2>2. Height(h, x) = h[x].height /\ Height(h, y) = h[y].height
    BY <1>0 DEF Height
  <2>3. h[y].height \in Nat
    BY Childs
  <2>4. /\ Height(h, outer) <= Height(h, y) + 1 /\ Height(h, y) <= Height(h, outer) + 1
        /\ h[x].height = 1 + Larger(Height(h, outer), Height(h, y))
    BY <1>2 DEF EvenAt, outer, Elbow
  <2>5. /\ Height(h, i) <= Height(h, j) + 1 /\ Height(h, j) <= Height(h, i) + 1
        /\ h[y].height = 1 + Larger(Height(h, i), Height(h, j))
    BY <1>5 DEF EvenAt, i, j
  <2>6. Height(h, y) > Height(h, outer)
    BY DEF outer, Elbow
  <2>7. Height(h, outer) \in Nat /\ Height(h, i) \in Nat /\ Height(h, j) \in Nat /\ Height(h, b) \in Nat
    BY <2>1, HeightIs
  <2> QED
    BY <1>1, <2>2, <2>3, <2>4, <2>5, <2>6, <2>7
<1>21. EvenAt(g, x, s) /\ EvenAt(g, f, s) /\ EvenAt(g, y, s) /\ g[y].height = h[x].height
  <2> DEFINE p == Height(h, b)
             q == Height(h, outer)
             m == Height(h, i)
             n == Height(h, j)
             hy == h[y].height
  <2>1. /\ p \in Nat /\ q \in Nat /\ m \in Nat /\ n \in Nat /\ hy \in Nat
        /\ h[x].height = p + 2 /\ h[x].height = 1 + Larger(q, hy) /\ hy > q /\ hy <= q + 1
        /\ m <= n + 1 /\ n <= m + 1 /\ hy = 1 + Larger(m, n)
    BY <1>h
  <2>2. /\ g[x].height = 1 + Larger(m, q) /\ g[f].height = 1 + Larger(n, p)
        /\ g[y].height = 1 + Larger(g[x].height, g[f].height)
    BY <1>11, <1>14, <1>15, <1>17
  <2>3. /\ Height(g, g[x][s]) = q /\ Height(g, g[x][Other(s)]) = m
        /\ Height(g, g[f][s]) = n /\ Height(g, g[f][Other(s)]) = p
        /\ Height(g, g[y][s]) = g[x].height /\ Height(g, g[y][Other(s)]) = g[f].height
    BY <1>11, <1>14, <1>15, <1>17
  <2> HIDE DEF p, q, m, n, hy
  <2>4. q = p /\ hy = p + 1 /\ m <= p /\ n <= p /\ p <= m + 1 /\ p <= n + 1
    BY <2>1 DEF Larger
  <2>5. g[x].height = p + 1 /\ g[f].height = p + 1
    BY <2>1, <2>2, <2>4 DEF Larger
  <2>6. g[y].height = p + 2
    BY <2>1, <2>2, <2>5 DEF Larger
  <2>7. EvenAt(g, x, s)
    BY <2>1, <2>3, <2>4, <2>5 DEF EvenAt, Larger
  <2>8. EvenAt(g, f, s)
    BY <2>1, <2>3, <2>4, <2>5 DEF EvenAt, Larger
  <2>9. EvenAt(g, y, s)
    BY <2>1, <2>3, <2>5, <2>6 DEF EvenAt, Larger
  <2> QED
    BY <2>1, <2>6, <2>7, <2>8, <2>9
<1>22. AVL(g, {x} \union O \union I, x)
  <2>1. Parts(g, x, s, O, I)
    BY <1>4, <1>6, <1>11, <1>15, <1>18, <1>20 DEF Parts
  <2> QED
    BY <1>4, <1>7, <1>13, <1>21, <2>1, JoinAt
<1>23. AVL(g, {f} \union J \union B, f)
  <2>1. f \notin J \union B /\ J \intersect B = {}
    BY <1>1, <1>3, <1>6
  <2>2. Parts(g, f, s, J, B)
    BY <1>14, <1>18, <1>20, <2>1 DEF Parts
  <2> QED
    BY <1>7, <1>13, <1>21, <2>2, JoinAt
<1>24. AVL(g, {y} \union ({x} \union O \union I) \union ({f} \union J \union B), y)
  <2> DEFINE P == {x} \union O \union I
             Q == {f} \union J \union B
  <2>1. P \subseteq N /\ Q \subseteq N /\ y \notin P \union Q
    BY <1>1, <1>3, <1>4, <1>5, <1>6, <1>7
  <2>2. P \intersect Q = {}
    BY <1>1, <1>3, <1>4, <1>6, <1>7
  <2>3. AVL(g, P, g[y][s]) /\ AVL(g, Q, g[y][o]) /\ OnSide(g, s, P, g[y].key) /\ OnSide(g, o, Q, g[y].key)
    BY <1>14, <1>20, <1>22, <1>23
  <2> HIDE DEF P, Q
  <2>4. Parts(g, y, s, P, Q)
    BY <2>1, <2>2, <2>3 DEF Parts
  <2>5. AVL(g, {y} \union P \union Q, y)
    BY <1>13, <1>21, <2>1, <2>4, JoinAt
  <2> QED
    BY <2>5 DEF P, Q
<1>25. {y} \union ({x} \union O \union I) \union ({f} \union J \union B) = {f} \union A \union B
  BY <1>3, <1>6
<1>26. Settled(h, g, {f} \union A \union B, y)
  BY <1>16, <1>24, <1>25 DEF Settled
<1> QED
  BY <1>13, <1>21, <1>26 DEF g, e, Twice, Brought

(* r, from a heap h and a node f whose heights below are m and n. *)
Mended(N, h, r, f, S, m, n) ==
  /\ r.node = f /\ r.top \in S /\ r.h \in Heaps(N) /\ Settled(h, r.h, S, r.top)
  /\ IF m <= n + 1 /\ n <= m + 1 THEN r.h[r.top].height = 1 + Larger(m, n)
     ELSE r.h[r.top].height \in {Larger(m, n), Larger(m, n) + 1}

LEMMA Straightened ==
  ASSUME NEW N, Nodal(N), NEW h \in Heaps(N), NEW f \in N, NEW s \in Sides,
         NEW A, A \subseteq N, NEW B, B \subseteq N, Lopsided(h, f, s, A, B), NEW n \in Nat,
         Height(h, h[f][Other(s)]) = n
  PROVE  Mended(N, h, Straighten(h, f, s, h[f][s]), f, {f} \union A \union B, n + 2, n)
<1> DEFINE x == h[f][s]
           y == h[x][Other(s)]
           r == Straighten(h, f, s, x)
           S == {f} \union A \union B
<1>1. Null \notin N /\ Height(h, x) = n + 2 /\ AVL(h, A, x)
  BY NullIsNone DEF Lopsided, Parts
<1>2. x \in N /\ x \in A /\ h[x].height = n + 2 /\ Height(h, h[x][s]) \in Nat /\ y \in N \union {Null}
  <2>1. x # Null
    BY <1>1 DEF Height
  <2>2. x \in A
    BY <1>1, <2>1, RootIs
  <2> HIDE DEF x
  <2>3. x \in N /\ h[x].height = n + 2
    BY <1>1, <2>1, <2>2 DEF Height
  <2>4. h[x][s] \in N \union {Null} /\ h[x][Other(s)] \in N \union {Null}
    BY <2>3, Childs
  <2> QED
    BY <2>2, <2>3, <2>4, HeightIs
<1>3. CASE ~ (Height(h, y) > Height(h, h[x][s]))
  <2>1. r = [h |-> Rotate(h, x, f, s), top |-> x, node |-> f]
    BY <1>3 DEF Straighten
  <2>2. Height(h, y) \in Nat
    BY <1>2, HeightIs
  <2>3. /\ Rotate(h, x, f, s) \in Heaps(N) /\ Settled(h, Rotate(h, x, f, s), S, x)
        /\ Rotate(h, x, f, s)[x].height \in {n + 2, n + 3}
    <3>1. x = h[f][s] /\ Height(h, h[x][Other(s)]) <= Height(h, h[x][s])
      BY <1>2, <1>3, <2>2
    <3> HIDE DEF x, S, y
    <3>2. /\ Rotate(h, x, f, s) \in Heaps(N) /\ Settled(h, Rotate(h, x, f, s), {f} \union A \union B, x)
          /\ Rotate(h, x, f, s)[x].height \in {h[x].height, h[x].height + 1}
      BY <1>2, <3>1, SingleRotation
    <3> QED
      BY <1>2, <3>2 DEF S
  <2>4. Larger(n + 2, n) = n + 2 /\ ~ (n + 2 <= n + 1)
    BY DEF Larger
  <2> HIDE DEF x, S, r
  <2>5. r.h = Rotate(h, x, f, s) /\ r.top = x /\ r.node = f /\ x \in S
    BY <1>2, <2>1 DEF S
  <2> HIDE DEF y
  <2>6. Mended(N, h, r, f, S, n + 2, n)
    BY <2>3, <2>4, <2>5 DEF Mended
  <2> QED
    BY <2>6 DEF r, S, x
<1>4. CASE Height(h, y) > Height(h, h[x][s])
  <2> DEFINE g == Twice(h, f, s, x, y)
  <2>1. r = [h |-> g, top |-> y, node |-> f]
    BY <1>4 DEF Straighten, Twice
  <2>2. y \in N
    BY <1>2, <1>4 DEF Height
  <2>3. Elbow(h, f, s, x, y)
    BY <1>4 DEF Elbow
  <2>4. y \in A
    <3>1. \A z \in A : h[z][Other(s)] \in A \union {Null}
      <4>1. PICK D : Descends(h, A, D, x)
        BY <1>1 DEF AVL
      <4> QED
        BY <4>1 DEF Descends, Other, Sides
    <3> QED
      BY <1>1, <1>2, <2>2, <3>1
  <2> HIDE DEF x, y
  <2>5. Brought(N, h, g, {f} \union A \union B, x, y)
    BY <1>2, <2>2, <2>3, DoubleRotation
  <2> HIDE DEF g, r
  <2>6. r.h = g /\ r.top = y /\ r.node = f /\ y \in S
    BY <2>1, <2>4
  <2>7. Larger(n + 2, n) = n + 2 /\ ~ (n + 2 <= n + 1)
    BY DEF Larger
  <2> HIDE DEF S
  <2>8. Mended(N, h, r, f, S, n + 2, n)
    BY <1>2, <2>5, <2>6, <2>7 DEF Mended, S, Brought
  <2> QED
    BY <2>8 DEF r, S, x
<1> QED
  BY <1>3, <1>4

LEMMA Rebalanced ==
  ASSUME NEW N, Nodal(N), NEW h \in Heaps(N), NEW f \in N,
         NEW A, A \subseteq N, NEW B, B \subseteq N, Parts(h, f, "left", A, B),
         NEW m, m = Height(h, h[f].left), NEW n, n = Height(h, h[f].right),
         m <= n + 2, n <= m + 2
  PROVE  Mended(N, h, LocalRebalance(h, f), f, {f} \union A \union B, m, n)
<1> DEFINE r == LocalRebalance(h, f)
           S == {f} \union A \union B
<1>0. m \in Nat /\ n \in Nat /\ Balance(h, f) = m - n
  BY Childs, HeightIs DEF Balance
<1>1. CASE m <= n + 1 /\ n <= m + 1
  <2> DEFINE g == UpdateHeight(h, f)
  <2>1. Balance(h, f) \in -1 .. 1
    BY <1>0, <1>1
  <2>2. r = [h |-> g, top |-> f, node |-> f]
    BY <2>1 DEF LocalRebalance
  <2>3. g \in Heaps(N) /\ Reckoned(h, g, f)
    BY Updated
  <2> HIDE DEF g, r
  <2>4. /\ SameBut(h, g, {f}) /\ SameData(h, g) /\ g[f].left = h[f].left /\ g[f].right = h[f].right
        /\ g[f].height = 1 + Larger(m, n) /\ DOMAIN h = N /\ g[f].key = h[f].key
    BY <2>3, Childs DEF Reckoned, SameSides, Sides, SameData
  <2>5. /\ f \notin A \union B /\ A \intersect B = {} /\ AVL(h, A, h[f].left) /\ AVL(h, B, h[f].right)
        /\ OnSide(h, "left", A, h[f].key) /\ OnSide(h, "right", B, h[f].key)
    BY DEF Parts, Other
  <2>6. \A z \in N : z # f => g[z] = h[z]
    BY <2>4 DEF SameBut
  <2>7. AVL(g, A, h[f].left) /\ AVL(g, B, h[f].right)
    BY <2>3, <2>5, <2>6, Frame
  <2>8. OnSide(g, "left", A, g[f].key) /\ OnSide(g, "right", B, g[f].key)
    BY <2>4, <2>5, <2>6 DEF OnSide
  <2>9. Parts(g, f, "left", A, B)
    BY <2>4, <2>5, <2>7, <2>8 DEF Parts, Other
  <2>10. Height(g, g[f].left) = m /\ Height(g, g[f].right) = n
    <3>1. h[f].left \in A \union {Null} /\ h[f].right \in B \union {Null}
      BY <2>5, RootIs, NullIsNone
    <3> QED
      BY <2>4, <2>5, <2>6, <3>1 DEF Height
  <2>11. Even(g, f)
    BY <1>0, <1>1, <2>4, <2>10 DEF Even, Balance
  <2>12. AVL(g, S, f)
    BY <2>3, <2>9, <2>11, Join
  <2>13. Settled(h, g, S, f)
    BY <2>4, <2>12 DEF Settled, SameBut
  <2> HIDE DEF S
  <2>14. r.h = g /\ r.top = f /\ r.node = f /\ f \in S
    BY <2>2 DEF S
  <2>15. Mended(N, h, r, f, S, m, n)
    BY <1>1, <2>3, <2>4, <2>13, <2>14 DEF Mended
  <2> QED
    BY <2>15 DEF r, S
<1>2. CASE m = n + 2
  <2>1. r = Straighten(h, f, "left", h[f]["left"])
    <3>1. ~ (Balance(h, f) \in -1 .. 1) /\ Balance(h, f) > 1
      BY <1>0, <1>2
    <3> QED
      BY <3>1 DEF LocalRebalance
  <2>2. "left" \in Sides /\ Other("left") = "right"
    BY DEF Sides, Other
  <2>3. Height(h, h[f]["left"]) = n + 2 /\ Height(h, h[f][Other("left")]) = n
    BY <1>2, <2>2
  <2>4. Lopsided(h, f, "left", A, B)
    BY <2>3 DEF Lopsided
  <2>5. Mended(N, h, Straighten(h, f, "left", h[f]["left"]), f, {f} \union A \union B, n + 2, n)
    BY <1>0, <2>2, <2>3, <2>4, Straightened
  <2> QED
    BY <1>2, <2>1, <2>5
<1>3. CASE n = m + 2
  <2>1. r = Straighten(h, f, "right", h[f]["right"])
    <3>1. ~ (Balance(h, f) \in -1 .. 1) /\ ~ (Balance(h, f) > 1)
      BY <1>0, <1>3
    <3> QED
      BY <3>1 DEF LocalRebalance
  <2>2. "right" \in Sides /\ Other("right") = "left" /\ "left" \in Sides
    BY DEF Sides, Other
  <2>3. Height(h, h[f]["right"]) = m + 2 /\ Height(h, h[f][Other("right")]) = m
    BY <1>3, <2>2
  <2>4. Lopsided(h, f, "right", B, A)
    <3>1. Parts(h, f, Other("left"), B, A)
      BY <2>2, OtherSide
    <3>2. Other("left") = "right"
      BY DEF Other
    <3> QED
      BY <2>3, <3>1, <3>2 DEF Lopsided
  <2>5. Mended(N, h, Straighten(h, f, "right", h[f]["right"]), f, {f} \union B \union A, m + 2, m)
    BY <1>0, <2>2, <2>3, <2>4, Straightened
  <2>6. {f} \union B \union A = S
    OBVIOUS
  <2>7. Mended(N, h, r, f, S, n, m)
    BY <1>3, <2>1, <2>5, <2>6
  <2> HIDE DEF r, S
  <2>8. Mended(N, h, r, f, S, m, n)
    BY <1>0, <1>3, <2>7 DEF Mended, Larger
  <2> QED
    BY <2>8 DEF r, S
<1> QED
  BY <1>0, <1>1, <1>2, <1>3
-------------------------------------------------------------------------------
(* The nodes of a path are rebalanced from the last one up.                *)
Values(N) == [h : Heaps(N), top : N \union {Null}, node : N \union {Null}]
Near(m, n) == m <= n + 1 /\ n <= m + 1
Grown(m, n) == IF Near(m, n) THEN {1 + Larger(m, n)} ELSE {Larger(m, n), Larger(m, n) + 1}

(* f has c below it on a side, the top of what will be a tree of U, and a  *)
(* tree on the other side; its height is still that of before.             *)
Above(h, f, c, U, V) == \E s \in Sides : \E B :
  /\ V = {f} \union U \union B /\ f \notin U \union B /\ U \intersect B = {}
  /\ h[f][s] = c /\ AVL(h, B, h[f][Other(s)])
  /\ OnSide(h, s, U, h[f].key) /\ OnSide(h, Other(s), B, h[f].key)
  /\ EvenAt(h, f, s)
(* f has a tree on each side, one of which has changed. *)
Changed(h, f, m, n) ==
  /\ m = Height(h, h[f].left) /\ n = Height(h, h[f].right) /\ m <= n + 2 /\ n <= m + 2
  /\ \A k \in Grown(m, n) : Near(k, h[f].height)
Bottom(h, f, V) ==
  /\ \E m, n : Changed(h, f, m, n)
  /\ \E A, B : V = {f} \union A \union B /\ Parts(h, f, "left", A, B)
Raised(N, h, v, f, V) ==
  /\ v \in Values(N) /\ v.node = f /\ v.top \in V /\ Settled(h, v.h, V, v.top)
  /\ Near(v.h[v.top].height, h[f].height)

LEMMA ResultIs ==
  ASSUME NEW h, NEW f
  PROVE  LET r == LocalRebalance(h, f) IN r = [h |-> r.h, top |-> r.top, node |-> r.node]
<1>1. ASSUME NEW s, NEW c
      PROVE  LET r == Straighten(h, f, s, c) IN r = [h |-> r.h, top |-> r.top, node |-> r.node]
  BY DEF Straighten
<1> QED
  BY <1>1 DEF LocalRebalance

LEMMA LowestRaised ==
  ASSUME NEW N, Nodal(N), NEW h \in Heaps(N), NEW f \in N, NEW V, V \subseteq N, Bottom(h, f, V)
  PROVE  Raised(N, h, LocalRebalance(h, f), f, V)
<1> DEFINE r == LocalRebalance(h, f)
<1>1. PICK m, n : Changed(h, f, m, n)
  BY DEF Bottom
<1>2. PICK A, B : V = {f} \union A \union B /\ Parts(h, f, "left", A, B)
  BY DEF Bottom
<1>3. /\ m = Height(h, h[f].left) /\ n = Height(h, h[f].right) /\ m <= n + 2 /\ n <= m + 2
      /\ \A k \in Grown(m, n) : Near(k, h[f].height)
  BY <1>1 DEF Changed
<1>4. A \subseteq N /\ B \subseteq N
  BY <1>2
<1>5. Mended(N, h, LocalRebalance(h, f), f, {f} \union A \union B, m, n)
  BY <1>2, <1>3, <1>4, Rebalanced
<1>6. r = [h |-> r.h, top |-> r.top, node |-> r.node]
  BY ResultIs
<1> HIDE DEF r
<1>7. Mended(N, h, r, f, V, m, n)
  BY <1>2, <1>5 DEF r
<1>8. r.h[r.top].height \in Grown(m, n)
  BY <1>7 DEF Mended, Grown, Near
<1>9. r \in Values(N)
  BY <1>6, <1>7 DEF Mended, Values
<1>10. Raised(N, h, r, f, V)
  BY <1>3, <1>7, <1>8, <1>9 DEF Mended, Raised
<1> QED
  BY <1>10 DEF r

(* The heights of one side have changed by at most one. *)
LEMMA NearGrows ==
  ASSUME NEW m \in Nat, NEW old \in Nat, NEW n \in Nat, NEW H, Near(m, old), Near(old, n),
         H = 1 + Larger(old, n)
  PROVE  m <= n + 2 /\ n <= m + 2 /\ \A k \in Grown(m, n) : Near(k, H)
  BY DEF Near, Grown, Larger

LEMMA GrownEitherWay ==
  ASSUME NEW m \in Nat, NEW n \in Nat
  PROVE  Grown(m, n) = Grown(n, m)
  BY DEF Near, Grown, Larger

LEMMA RelinkRaises ==
  ASSUME NEW N, Nodal(N), NEW h \in Heaps(N), NEW c \in N, NEW f \in N, NEW v,
         NEW U, U \subseteq N, NEW V, V \subseteq N, c \in U,
         Raised(N, h, v, c, U), Above(h, f, c, U, V)
  PROVE  Raised(N, h, Relink(v, f), f, V)
<1> DEFINE e == v.h
           top == v.top
<1>1. /\ e \in Heaps(N) /\ top \in U /\ top \in N /\ v.node = c
      /\ AVL(e, U, top) /\ SameBut(h, e, U) /\ SameData(h, e) /\ Near(e[top].height, h[c].height)
      /\ Null \notin N /\ DOMAIN h = N /\ DOMAIN e = N
  BY NullIsNone DEF Raised, Settled, Values, Heaps
<1>2. PICK s \in Sides : \E B :
        /\ V = {f} \union U \union B /\ f \notin U \union B /\ U \intersect B = {}
        /\ h[f][s] = c /\ AVL(h, B, h[f][Other(s)])
        /\ OnSide(h, s, U, h[f].key) /\ OnSide(h, Other(s), B, h[f].key)
        /\ EvenAt(h, f, s)
  BY DEF Above
<1>3. PICK B :
        /\ V = {f} \union U \union B /\ f \notin U \union B /\ U \intersect B = {}
        /\ h[f][s] = c /\ AVL(h, B, h[f][Other(s)])
        /\ OnSide(h, s, U, h[f].key) /\ OnSide(h, Other(s), B, h[f].key)
        /\ EvenAt(h, f, s)
  BY <1>2
<1> DEFINE b == h[f][Other(s)]
           g == SetChild(e, f, s, top)
<1>4. B \subseteq N /\ b \in B \union {Null} /\ b # c
  <2>1. b \in B \union {Null}
    BY <1>1, <1>3, RootIs
  <2> QED
    BY <1>1, <1>3, <2>1
<1>5. e[f] = h[f] /\ \A z \in B : e[z] = h[z]
  BY <1>1, <1>3 DEF SameBut
<1>6. Link(v, f) = g
  <2>1. v.node # Null /\ (IF e[f].left = c THEN "left" ELSE "right") = s
    <3>1. e[f][s] = c /\ e[f][Other(s)] # c
      BY <1>3, <1>4, <1>5
    <3> QED
      BY <1>1, <3>1 DEF Sides, Other
  <2> QED
    BY <1>1, <2>1 DEF Link, SetChild
<1> HIDE DEF e, top, g, b
<1>7. g \in Heaps(N) /\ Hooked(e, g, f, s, top)
  BY <1>1, Hung DEF g
<1>8. /\ SameBut(e, g, {f}) /\ SameData(e, g) /\ g[f][s] = top /\ g[f][Other(s)] = b
  BY <1>5, <1>7 DEF Hooked, b
<1>9. /\ \A z \in U : g[z] = e[z]
      /\ \A z \in B : g[z] = h[z]
      /\ SameData(h, g) /\ DOMAIN g = N
  <2>1. \A z \in N : z # f => g[z] = e[z]
    BY <1>1, <1>8 DEF SameBut
  <2>2. SameData(h, g)
    BY <1>1, <1>8 DEF SameData
  <2> QED
    BY <1>3, <1>4, <1>5, <1>7, <2>1, <2>2 DEF Heaps
<1>10. Parts(g, f, s, U, B)
  <2>1. AVL(g, U, g[f][s])
    <3>1. AVL(g, U, top)
      BY <1>1, <1>7, <1>9, Frame
    <3> QED
      BY <3>1, <1>8
  <2>2. AVL(g, B, g[f][Other(s)])
    <3>1. AVL(h, B, b)
      BY <1>3 DEF b
    <3>2. AVL(g, B, b)
      BY <1>4, <1>7, <1>9, <3>1, Frame
    <3> QED
      BY <3>2, <1>8
  <2>3. OnSide(g, s, U, g[f].key)
    BY <1>3, <1>7, <1>9, SidesKept
  <2>4. Other(s) \in Sides
    BY DEF Other, Sides
  <2>5. OnSide(g, Other(s), B, g[f].key)
    <3> DEFINE o == Other(s)
    <3>1. o \in Sides /\ OnSide(h, o, B, h[f].key)
      BY <2>4, <1>3
    <3> HIDE DEF o
    <3>2. OnSide(g, o, B, g[f].key)
      BY <1>4, <1>7, <1>9, <3>1, SidesKept
    <3> QED
      BY <3>2 DEF o
  <2> QED
    BY <1>3, <2>1, <2>2, <2>3, <2>5 DEF Parts
<1> DEFINE m == Height(g, g[f][s])
           n == Height(g, g[f][Other(s)])
           H == h[f].height
<1>11. /\ m \in Nat /\ n \in Nat /\ m <= n + 2 /\ n <= m + 2
       /\ \A k \in Grown(m, n) : Near(k, H)
  <2> DEFINE old == Height(h, c)
  <2>1. m = e[top].height /\ m \in Nat
    <3>1. m = g[top].height /\ g[top] = e[top]
      BY <1>1, <1>8, <1>9 DEF Height
    <3>2. e[top].height \in Nat
      BY <1>1, Childs
    <3> QED
      BY <3>1, <3>2
  <2>2. n = Height(h, b) /\ n \in Nat
    <3>1. n = Height(g, b)
      BY <1>8
    <3>2. Height(g, b) = Height(h, b)
      BY <1>4, <1>9 DEF Height
    <3>3. b \in N \union {Null}
      BY <1>4
    <3>4. Height(h, b) \in Nat
      BY <3>3, HeightIs
    <3> QED
      BY <3>1, <3>2, <3>4
  <2>3. old = h[c].height /\ old \in Nat
    BY <1>1, Childs DEF Height
  <2>4. Near(m, old)
    BY <1>1, <2>1, <2>3
  <2>5. Near(old, n) /\ H = 1 + Larger(old, n)
    BY <1>3, <2>2 DEF EvenAt, Near, b
  <2> HIDE DEF m, n, H, old
  <2> QED
    BY <2>1, <2>2, <2>3, <2>4, <2>5, NearGrows
<1>12. g[f].height = H
  BY <1>5, <1>7 DEF Hooked
<1>13. V \subseteq N /\ U \subseteq N /\ {f} \union U \union B = {f} \union B \union U
  OBVIOUS
<1>14. Bottom(g, f, V)
  <2>1. CASE s = "left"
    <3>1. g[f][s] = g[f].left /\ g[f][Other(s)] = g[f].right
      BY <2>1 DEF Other
    <3>2. m = Height(g, g[f].left) /\ n = Height(g, g[f].right)
      BY <3>1
    <3>3. \E A, C : V = {f} \union A \union C /\ Parts(g, f, "left", A, C)
      BY <1>3, <1>10, <2>1
    <3> HIDE DEF m, n
    <3>4. Changed(g, f, m, n)
      BY <1>11, <1>12, <3>2 DEF Changed
    <3> QED
      BY <3>3, <3>4 DEF Bottom
  <2>2. CASE s = "right"
    <3>1. g[f][s] = g[f].right /\ g[f][Other(s)] = g[f].left
      BY <2>2 DEF Other
    <3>2. m = Height(g, g[f].right) /\ n = Height(g, g[f].left)
      BY <3>1
    <3>3. \E A, C : V = {f} \union A \union C /\ Parts(g, f, "left", A, C)
      <4>1. Parts(g, f, Other(s), B, U)
        BY <1>10, OtherSide
      <4> QED
        BY <1>3, <1>13, <4>1, <2>2 DEF Other
    <3> HIDE DEF m, n
    <3>4. Grown(n, m) = Grown(m, n)
      BY <1>11, GrownEitherWay
    <3>5. Changed(g, f, n, m)
      BY <1>11, <1>12, <3>2, <3>4 DEF Changed
    <3> QED
      BY <3>3, <3>5 DEF Bottom
  <2> QED
    BY <2>1, <2>2 DEF Sides
<1> DEFINE r == LocalRebalance(g, f)
<1>15. Raised(N, g, r, f, V)
  BY <1>7, <1>14, LowestRaised
<1> HIDE DEF r, m, n, H
<1>16. Settled(h, r.h, V, r.top)
  <2>1. AVL(r.h, V, r.top) /\ SameBut(g, r.h, V) /\ SameData(g, r.h)
    BY <1>15 DEF Raised, Settled
  <2>2. \A z \in N : z \notin V => r.h[z] = h[z]
    BY <1>1, <1>3, <1>8, <1>9, <2>1 DEF SameBut
  <2>3. SameData(h, r.h)
    BY <1>1, <1>9, <2>1 DEF SameData
  <2> QED
    BY <1>1, <2>1, <2>2, <2>3 DEF Settled, SameBut
<1>17. Raised(N, h, r, f, V)
  BY <1>12, <1>15, <1>16 DEF Raised, H
<1> QED
  BY <1>6, <1>17 DEF r, Relink

ChainOf(N, h, path, T) ==
  /\ path \in Seq(N) /\ path # <<>> /\ T \in [1 .. Len(path) -> SUBSET N]
  /\ \A i \in 1 .. (Len(path) - 1) :
       path[i + 1] \in T[i + 1] /\ Above(h, path[i], path[i + 1], T[i + 1], T[i])
  /\ Bottom(h, path[Len(path)], T[Len(path)])

LEMMA GlobalRaises ==
  ASSUME NEW N, Nodal(N), NEW h \in Heaps(N), NEW path, NEW T, ChainOf(N, h, path, T)
  PROVE  Raised(N, h, GlobalRebalance(h, path), path[1], T[1])
<1> DEFINE M == Len(path)
           at(n) == M - n + 1
           s0 == [h |-> h, top |-> Null, node |-> Null]
           P == [n \in 0 .. M |-> IF n = 0 THEN {s0}
                                  ELSE {v \in Values(N) : Raised(N, h, v, path[at(n)], T[at(n)])}]
           step == [w \in (1 .. M) \X Values(N) |-> Relink(w[2], path[at(w[1])])]
           Def(up) == [n \in 0 .. M |-> IF n = 0 THEN s0 ELSE Relink(up[n - 1], path[at(n)])]
           up == CHOOSE u : u = Def(u)
<1>1. M \in Nat /\ M # 0 /\ path \in Seq(N) /\ \A i \in 1 .. M : path[i] \in N /\ T[i] \subseteq N
  BY DEF ChainOf
<1>2. s0 \in Values(N) /\ P[0] = {s0}
  BY DEF Values
<1>3. \A n \in 1 .. M : P[n] = {v \in Values(N) : Raised(N, h, v, path[at(n)], T[at(n)])}
  OBVIOUS
<1>4. \A n \in 1 .. M : \A v \in Values(N) : step[<<n, v>>] = Relink(v, path[at(n)])
  OBVIOUS
<1>5. GlobalRebalance(h, path) = up[M]
  BY DEF GlobalRebalance
<1>6. Relink(s0, path[at(1)]) = LocalRebalance(h, path[at(1)])
  BY DEF Relink, Link
<1> HIDE DEF P, step
<1>7. ASSUME NEW n \in 1 .. M, NEW v \in P[n - 1]
      PROVE  v \in Values(N) /\ Relink(v, path[at(n)]) \in P[n]
  <2>1. CASE n = 1
    <3>1. v = s0 /\ path[at(1)] \in N /\ at(1) = M /\ T[M] \subseteq N /\ Bottom(h, path[M], T[M])
      BY <1>1, <1>2, <2>1 DEF ChainOf
    <3> HIDE DEF M, s0
    <3>2. Raised(N, h, LocalRebalance(h, path[M]), path[M], T[M])
      BY <3>1, LowestRaised
    <3>3. LocalRebalance(h, path[M]) \in Values(N)
      BY <3>2 DEF Raised
    <3> QED
      BY <1>2, <1>3, <1>6, <2>1, <3>1, <3>2, <3>3
  <2>2. CASE n # 1
    <3> DEFINE i == at(n)
               j == at(n - 1)
               c == path[j]
               f == path[i]
               U == T[j]
               V == T[i]
    <3>1. n - 1 \in 1 .. M /\ i \in 1 .. (M - 1) /\ i \in 1 .. M /\ j = i + 1 /\ j \in 1 .. M
      BY <1>1, <2>2
    <3>2. v \in Values(N) /\ Raised(N, h, v, c, U)
      <4> HIDE DEF M, c, U
      <4> QED
        BY <1>3, <3>1 DEF c, U
    <3>3. c \in U /\ Above(h, f, c, U, V)
      BY <3>1 DEF ChainOf
    <3>4. c \in N /\ f \in N /\ U \subseteq N /\ V \subseteq N
      <4> HIDE DEF M, i, j
      <4> QED
        BY <1>1, <3>1
    <3> HIDE DEF c, f, U, V
    <3>5. Raised(N, h, Relink(v, f), f, V)
      BY <3>2, <3>3, <3>4, RelinkRaises
    <3>6. Relink(v, f) \in Values(N)
      BY <3>5 DEF Raised
    <3> QED
      BY <1>3, <3>2, <3>5, <3>6 DEF f, V
  <2> QED
    BY <2>1, <2>2
<1>8. Carries(M, P, step)
  BY <1>4, <1>7 DEF Carries
<1>9. PICK u : u = [n \in 0 .. M |-> IF n = 0 THEN s0 ELSE step[<<n, u[n - 1]>>]]
  <2>1. s0 \in P[0]
    BY <1>2
  <2> HIDE DEF M, s0, P
  <2> QED
    BY <1>1, <1>8, <2>1, StepsOn
<1>10. StepsFrom(u, M, s0, step)
  BY <1>1, <1>9 DEF StepsFrom
<1>11. \A n \in 0 .. M : u[n] \in P[n]
  <2>1. s0 \in P[0]
    BY <1>2
  <2> HIDE DEF M, s0, P
  <2> QED
    BY <1>1, <1>8, <1>10, <2>1, StepsStay
<1>12. u = Def(u)
  <2>1. ASSUME NEW n \in 1 .. M PROVE step[<<n, u[n - 1]>>] = Relink(u[n - 1], path[at(n)])
    <3>1. u[n - 1] \in P[n - 1]
      BY <1>1, <1>11
    <3>2. u[n - 1] \in Values(N)
      BY <1>7, <3>1
    <3> QED
      BY <1>4, <3>2
  <2>2. \A n \in 0 .. M : n = 0 \/ n \in 1 .. M
    BY <1>1
  <2> DEFINE old(n) == IF n = 0 THEN s0 ELSE step[<<n, u[n - 1]>>]
             new(n) == IF n = 0 THEN s0 ELSE Relink(u[n - 1], path[at(n)])
  <2>3. \A n \in 0 .. M : old(n) = new(n)
    BY <2>1, <2>2
  <2>4. u = [n \in 0 .. M |-> old(n)]
    BY <1>9
  <2> HIDE DEF old, new
  <2>5. u = [n \in 0 .. M |-> new(n)]
    BY <2>3, <2>4
  <2> QED
    BY <2>5 DEF new
<1>13. up = Def(up)
  <2> HIDE DEF Def
  <2> QED
    BY <1>12, Zenon
<1> HIDE DEF up
<1> DEFINE Good == {n \in Nat : n <= M => up[n] \in P[n]}
<1>15. 0 \in Good
  BY <1>2, <1>13
<1>16. ASSUME NEW n \in Nat, n \in Good PROVE (n + 1) \in Good
  <2> SUFFICES ASSUME n + 1 <= M PROVE up[n + 1] \in P[n + 1]
    OBVIOUS
  <2>1. n + 1 \in 1 .. M /\ (n + 1) - 1 = n /\ up[n] \in P[n]
    BY <1>1, <1>16
  <2>2. up[n + 1] = Relink(up[n], path[at(n + 1)])
    BY <1>13, <2>1
  <2> HIDE DEF at
  <2> QED
    BY <1>7, <2>1, <2>2
<1> HIDE DEF Good
<1>17. Nat \subseteq Good
  BY <1>15, <1>16, InductionOn
<1>18. up[M] \in P[M]
  BY <1>1, <1>17 DEF Good
<1>19. at(M) = 1 /\ M \in 1 .. M
  BY <1>1
<1> QED
  BY <1>3, <1>5, <1>18, <1>19
-------------------------------------------------------------------------------
(* Paths down a tree.                                                      *)

(* Every node is higher than its children. *)
Grounded(h) == \A x \in DOMAIN h : \A s \in Sides : h[x][s] # Null => h[h[x][s]].height < h[x].height
(* A choice, at each node, of where to go down. *)
Falls(N, h, c) ==
  c \in [N -> N \union {Null}] /\ \A x \in N : c[x] # Null => h[c[x]].height < h[x].height
TrailDef(f, N, c) == f = [n \in N \union {Null} |-> IF n = Null THEN <<>> ELSE <<n>> \o f[c[n]]]
Trail(N, q, n, c) ==
  /\ q \in Seq(N) /\ (n = Null => q = <<>>)
  /\ n # Null => /\ q # <<>> /\ q[1] = n /\ c[q[Len(q)]] = Null
                 /\ \A i \in 1 .. (Len(q) - 1) : q[i + 1] = c[q[i]]

LEMMA TrailOn ==
  ASSUME NEW N, Nodal(N), NEW h \in Heaps(N), NEW c, Falls(N, h, c)
  PROVE  \E f : TrailDef(f, N, c)
<1> DEFINE X == N \union {Null}
           S == Seq(N)
           rank == [x \in X |-> IF x = Null THEN 0 ELSE 1 + h[x].height]
           Value(x, f) == IF x = Null THEN <<>> ELSE <<x>> \o f[c[x]]
           step == [w \in X \X [X -> S] |-> Value(w[1], w[2])]
<1>1. /\ c \in [N -> X] /\ Null \in X /\ Null \notin N /\ \A x \in N : h[x].height \in Nat
      /\ \A x \in N : c[x] # Null => h[c[x]].height < h[x].height
  BY Childs, NullIsNone DEF Falls
<1>2. rank \in [X -> Nat]
  BY <1>1
<1>3. \A x \in X, f \in [X -> S] : Value(x, f) \in S
  <2>1. \A x \in N, f \in [X -> S] : <<x>> \o f[c[x]] \in S
    BY <1>1
  <2> QED
    BY <1>1, <2>1
<1>s. /\ \A x \in X, f \in [X -> S] : step[<<x, f>>] = Value(x, f)
      /\ step \in [X \X [X -> S] -> S]
  <2> HIDE DEF Value, X, S
  <2> QED
    BY <1>3
<1>4. LooksBelow(X, S, rank, step)
  <2>1. ASSUME NEW x \in N, c[x] # Null PROVE rank[c[x]] < rank[x]
    BY <1>1, <2>1
  <2>2. ASSUME NEW x \in N, c[x] = Null PROVE rank[c[x]] < rank[x]
    BY <1>1, <2>2
  <2>3. \A x \in N : c[x] \in X /\ rank[c[x]] < rank[x]
    BY <1>1, <2>1, <2>2
  <2> SUFFICES ASSUME NEW x \in X, NEW f \in [X -> S], NEW g \in [X -> S],
                      \A y \in X : rank[y] < rank[x] => f[y] = g[y]
               PROVE  step[<<x, f>>] = step[<<x, g>>]
    BY DEF LooksBelow
  <2>4. Value(x, f) = Value(x, g)
    <3> HIDE DEF rank, S
    <3> QED
      BY <2>3
  <2> HIDE DEF X, S, step, Value
  <2> QED
    BY <1>s, <2>4
<1>5. PICK f : DescentOf(f, X, S, step)
  <2>1. <<>> \in S
    OBVIOUS
  <2> HIDE DEF X, S, rank, step
  <2> QED
    BY <1>2, <1>s, <1>4, <2>1, DescentOn
<1>6. f = [n \in X |-> Value(n, f)]
  <2> HIDE DEF rank, step, S, X, Value
  <2> QED
    BY <1>s, <1>5 DEF DescentOf
<1>7. TrailDef(f, N, c)
  BY <1>6 DEF TrailDef
<1> QED
  BY <1>7

LEMMA TrailIs ==
  ASSUME NEW N, Nodal(N), NEW h \in Heaps(N), NEW c, Falls(N, h, c), NEW f, TrailDef(f, N, c)
  PROVE  \A n \in N \union {Null} : Trail(N, f[n], n, c)
<1>1. /\ c \in [N -> N \union {Null}] /\ Null \notin N /\ \A x \in N : h[x].height \in Nat
      /\ \A x \in N : c[x] # Null => h[c[x]].height < h[x].height
  BY Childs, NullIsNone DEF Falls
<1>2. f[Null] = <<>> /\ \A x \in N : f[x] = <<x>> \o f[c[x]]
  BY <1>1 DEF TrailDef
<1>3. Trail(N, f[Null], Null, c)
  BY <1>2 DEF Trail
<1> DEFINE Good == {k \in Nat : \A n \in N : h[n].height < k => Trail(N, f[n], n, c)}
<1>4. 0 \in Good
  BY <1>1
<1>5. ASSUME NEW k \in Nat, k \in Good PROVE (k + 1) \in Good
  <2> SUFFICES ASSUME NEW n \in N, h[n].height < k + 1 PROVE Trail(N, f[n], n, c)
    OBVIOUS
  <2> DEFINE q == f[c[n]]
  <2>1. Trail(N, q, c[n], c) /\ q \in Seq(N)
    <3>1. CASE c[n] = Null
      BY <1>3, <3>1 DEF Trail
    <3>2. CASE c[n] # Null
      <4>1. c[n] \in N /\ h[c[n]].height < k
        BY <1>1, <3>2
      <4>2. Trail(N, q, c[n], c)
        BY <1>5, <4>1
      <4> QED
        BY <4>2 DEF Trail
    <3> QED
      BY <3>1, <3>2
  <2>2. f[n] = <<n>> \o q
    BY <1>2
  <2> HIDE DEF q
  <2> DEFINE p == <<n>> \o q
  <2>3. /\ p \in Seq(N) /\ p # <<>> /\ p[1] = n /\ Len(p) = 1 + Len(q) /\ Len(q) \in Nat
        /\ \A i \in 1 .. Len(q) : p[i + 1] = q[i]
    BY <2>1
  <2> HIDE DEF p
  <2>4. CASE c[n] = Null
    <3>1. q = <<>> /\ Len(q) = 0
      BY <2>1, <2>4 DEF Trail
    <3>2. p[Len(p)] = n
      BY <2>3, <3>1
    <3>3. \A i \in 1 .. (Len(p) - 1) : p[i + 1] = c[p[i]]
      BY <2>3, <3>1
    <3>4. Trail(N, p, n, c)
      BY <2>3, <2>4, <1>1, <3>2, <3>3 DEF Trail
    <3> QED
      BY <2>2, <3>4 DEF p
  <2>5. CASE c[n] # Null
    <3>1. /\ q # <<>> /\ q[1] = c[n] /\ c[q[Len(q)]] = Null
          /\ \A i \in 1 .. (Len(q) - 1) : q[i + 1] = c[q[i]]
      BY <2>1, <2>5 DEF Trail
    <3>2. Len(q) >= 1 /\ p[Len(p)] = q[Len(q)]
      BY <2>1, <2>3, <3>1
    <3>3. ASSUME NEW i \in 1 .. (Len(p) - 1) PROVE p[i + 1] = c[p[i]]
      <4>1. CASE i = 1
        BY <2>3, <3>1, <3>2, <4>1
      <4>2. CASE i # 1
        <5>1. i - 1 \in 1 .. (Len(q) - 1) /\ i \in 1 .. Len(q) /\ i - 1 \in 1 .. Len(q) /\ (i - 1) + 1 = i
          BY <2>3, <4>2
        <5>2. p[i + 1] = q[i] /\ p[i] = q[i - 1] /\ q[i] = c[q[i - 1]]
          BY <2>3, <3>1, <5>1
        <5> QED
          BY <5>2
      <4> QED
        BY <4>1, <4>2
    <3>4. Trail(N, p, n, c)
      BY <2>3, <1>1, <3>1, <3>2, <3>3 DEF Trail
    <3> QED
      BY <2>2, <3>4 DEF p
  <2> QED
    BY <2>4, <2>5
<1> HIDE DEF Good
<1>6. Nat \subseteq Good
  BY <1>4, <1>5, InductionOn
<1>7. ASSUME NEW n \in N PROVE Trail(N, f[n], n, c)
  <2>1. h[n].height + 1 \in Good /\ h[n].height < h[n].height + 1
    BY <1>1, <1>6
  <2> QED
    BY <2>1 DEF Good
<1> QED
  BY <1>3, <1>7

Chosen(h, key, inserting) ==
  [n \in DOMAIN h |-> IF h[n].key = key /\ ~ inserting THEN Null
                      ELSE IF key <= h[n].key THEN h[n].left ELSE h[n].right]
Rightward(h) == [n \in DOMAIN h |-> h[n].right]

LEMMA ChoicesFall ==
  ASSUME NEW N, NEW h \in Heaps(N), Grounded(h), NEW key, NEW inserting
  PROVE  Falls(N, h, Chosen(h, key, inserting)) /\ Falls(N, h, Rightward(h))
<1>1. /\ DOMAIN h = N
      /\ \A x \in N : h[x].left \in N \union {Null} /\ h[x].right \in N \union {Null}
      /\ \A x \in N : h[x].left # Null => h[h[x].left].height < h[x].height
      /\ \A x \in N : h[x].right # Null => h[h[x].right].height < h[x].height
  <2>1. \A x \in N : h[x].left = h[x]["left"] /\ h[x].right = h[x]["right"]
    OBVIOUS
  <2>2. DOMAIN h = N
    BY DEF Heaps
  <2>3. ASSUME NEW x \in N, NEW s \in Sides PROVE h[x][s] # Null => h[h[x][s]].height < h[x].height
    BY <2>2 DEF Grounded
  <2>4. "left" \in Sides /\ "right" \in Sides
    BY DEF Sides
  <2>5. ASSUME NEW x \in N
        PROVE  /\ h[x].left # Null => h[h[x].left].height < h[x].height
               /\ h[x].right # Null => h[h[x].right].height < h[x].height
               /\ h[x].left \in N \union {Null} /\ h[x].right \in N \union {Null}
    <3>1. h[x]["left"] # Null => h[h[x]["left"]].height < h[x].height
      BY <2>3, <2>4
    <3>2. h[x]["right"] # Null => h[h[x]["right"]].height < h[x].height
      BY <2>3, <2>4
    <3> QED
      BY <3>1, <3>2, Childs
  <2> QED
    BY <2>2, <2>5
<1> QED
  BY <1>1 DEF Falls, Chosen, Rightward

LEMMA PathToIs ==
  ASSUME NEW N, Nodal(N), NEW h \in Heaps(N), Grounded(h), NEW key, NEW inserting \in BOOLEAN,
         NEW r \in N \union {Null}
  PROVE  Trail(N, PathTo(h, r, key, inserting), r, Chosen(h, key, inserting))
<1> DEFINE c == Chosen(h, key, inserting)
           Def(down) == [n \in DOMAIN h \union {Null} |->
             IF n = Null THEN <<>>
             ELSE IF h[n].key = key /\ ~ inserting THEN <<n>>
             ELSE <<n>> \o down[IF key <= h[n].key THEN h[n].left ELSE h[n].right]]
           down == CHOOSE d : d = Def(d)
<1>1. Falls(N, h, c) /\ DOMAIN h = N /\ Null \notin N
  BY ChoicesFall, NullIsNone, Childs DEF Heaps
<1>2. PathTo(h, r, key, inserting) = down[r]
  BY DEF PathTo
<1>3. \A f : f[Null] = <<>> => \A n \in N : Def(f)[n] = <<n>> \o f[c[n]]
  <2>1. \A n : <<n>> \o <<>> = <<n>>
    OBVIOUS
  <2> QED
    BY <1>1, <2>1 DEF Chosen
<1>4. \A f : Def(f)[Null] = <<>> /\ DOMAIN Def(f) = N \union {Null} /\ Def(f) = [n \in N \union {Null} |-> Def(f)[n]]
  BY <1>1
<1>5. ASSUME NEW f, TrailDef(f, N, c) PROVE f = Def(f)
  <2>1. f[Null] = <<>> /\ \A n \in N : f[n] = <<n>> \o f[c[n]]
    BY <1>1, <1>5 DEF TrailDef
  <2>2. f = [n \in N \union {Null} |-> f[n]]
    BY <1>5 DEF TrailDef
  <2>3. \A n \in N \union {Null} : f[n] = Def(f)[n]
    <3> HIDE DEF Def, c
    <3> QED
      BY <1>3, <1>4, <2>1
  <2> HIDE DEF Def
  <2> QED
    BY <1>4, <2>2, <2>3
<1>6. ASSUME NEW f, f = Def(f) PROVE TrailDef(f, N, c)
  <2> HIDE DEF Def, c
  <2>1. f[Null] = <<>> /\ \A n \in N : f[n] = <<n>> \o f[c[n]]
    BY <1>3, <1>4, <1>6
  <2>2. f = [n \in N \union {Null} |-> f[n]]
    BY <1>4, <1>6
  <2>3. \A n \in N \union {Null} : f[n] = IF n = Null THEN <<>> ELSE <<n>> \o f[c[n]]
    BY <1>1, <2>1
  <2> QED
    BY <2>2, <2>3 DEF TrailDef
<1> HIDE DEF Def, c
<1>7. \E f : f = Def(f)
  BY <1>1, <1>5, TrailOn
<1>8. down = Def(down)
  BY <1>7, Zenon
<1> HIDE DEF down
<1>9. TrailDef(down, N, c)
  BY <1>6, <1>8
<1>10. Trail(N, down[r], r, c)
  BY <1>1, <1>9, TrailIs
<1> QED
  BY <1>2, <1>10 DEF c

LEMMA SpineIs ==
  ASSUME NEW N, Nodal(N), NEW h \in Heaps(N), Grounded(h), NEW r \in N \union {Null}
  PROVE  Trail(N, RightSpine(h, r), r, Rightward(h))
<1> DEFINE c == Rightward(h)
           Def(down) == [n \in DOMAIN h \union {Null} |-> IF n = Null THEN <<>> ELSE <<n>> \o down[h[n].right]]
           down == CHOOSE d : d = Def(d)
<1>1. Falls(N, h, c) /\ DOMAIN h = N /\ Null \notin N
  BY ChoicesFall, NullIsNone, Childs DEF Heaps
<1>2. RightSpine(h, r) = down[r]
  BY DEF RightSpine
<1>3. \A f : TrailDef(f, N, c) <=> f = Def(f)
  BY <1>1 DEF TrailDef, Rightward
<1> HIDE DEF Def, c
<1>4. \E f : f = Def(f)
  BY <1>1, <1>3, TrailOn
<1>5. down = Def(down)
  BY <1>4, Zenon
<1> HIDE DEF down
<1>6. TrailDef(down, N, c)
  BY <1>3, <1>5
<1>7. Trail(N, down[r], r, c)
  BY <1>1, <1>6, TrailIs
<1> QED
  BY <1>2, <1>7 DEF c
-------------------------------------------------------------------------------
(* The nodes of a tree, and what IsAVL says of it.                         *)
NodesDef(f, N, h) ==
  f = [x \in N \union {Null} |->
         IF x = Null THEN {} ELSE {x} \union f[h[x].left] \union f[h[x].right]]

LEMMA NodesOn ==
  ASSUME NEW N, Nodal(N), NEW h \in Heaps(N), Grounded(h)
  PROVE  \E f : NodesDef(f, N, h)
<1> DEFINE X == N \union {Null}
           S == SUBSET N
           rank == [x \in X |-> IF x = Null THEN 0 ELSE 1 + h[x].height]
           Value(x, f) == IF x = Null THEN {} ELSE {x} \union f[h[x].left] \union f[h[x].right]
           step == [w \in X \X [X -> S] |-> Value(w[1], w[2])]
<1>1. /\ Null \in X /\ Null \notin N /\ \A x \in N : h[x].height \in Nat
      /\ \A x \in N : h[x].left \in X /\ h[x].right \in X
  BY Childs, NullIsNone
<1>2. rank \in [X -> Nat]
  BY <1>1
<1>3. \A x \in X, f \in [X -> S] : Value(x, f) \in S
  <2>1. \A x \in N, f \in [X -> S] : f[h[x].left] \in S /\ f[h[x].right] \in S
    BY <1>1
  <2>2. \A x \in N, f \in [X -> S] : {x} \union f[h[x].left] \union f[h[x].right] \in S
    BY <2>1
  <2> QED
    BY <1>1, <2>2
<1>s. /\ \A x \in X, f \in [X -> S] : step[<<x, f>>] = Value(x, f)
      /\ step \in [X \X [X -> S] -> S]
  <2> HIDE DEF Value, X, S
  <2> QED
    BY <1>3
<1>4. LooksBelow(X, S, rank, step)
  <2>0. Falls(N, h, Rightward(h)) /\ Falls(N, h, Chosen(h, 0, TRUE)) /\ DOMAIN h = N
    BY ChoicesFall DEF Heaps
  <2>1. ASSUME NEW x \in N PROVE \A s \in Sides : h[x][s] \in X /\ rank[h[x][s]] < rank[x]
    <3>1. ASSUME NEW s \in Sides PROVE h[x][s] \in X /\ rank[h[x][s]] < rank[x]
      <4>1. h[x][s] \in X
        BY Childs
      <4>2. h[x][s] # Null => h[h[x][s]].height < h[x].height
        BY <2>0 DEF Grounded
      <4> QED
        BY <1>1, <4>1, <4>2
    <3> QED
      BY <3>1
  <2>2. \A x \in N : /\ rank[h[x].left] < rank[x] /\ rank[h[x].right] < rank[x]
                     /\ h[x].left \in X /\ h[x].right \in X
    <3>1. ASSUME NEW x \in N
          PROVE  /\ rank[h[x].left] < rank[x] /\ rank[h[x].right] < rank[x]
                 /\ h[x].left \in X /\ h[x].right \in X
      <4>1. "left" \in Sides /\ "right" \in Sides
        BY DEF Sides
      <4>2. rank[h[x]["left"]] < rank[x] /\ rank[h[x]["right"]] < rank[x]
        BY <2>1, <4>1
      <4> QED
        BY <1>1, <4>2
    <3> QED
      BY <3>1
  <2> SUFFICES ASSUME NEW x \in X, NEW f \in [X -> S], NEW g \in [X -> S],
                      \A y \in X : rank[y] < rank[x] => f[y] = g[y]
               PROVE  step[<<x, f>>] = step[<<x, g>>]
    BY DEF LooksBelow
  <2>3. Value(x, f) = Value(x, g)
    <3> HIDE DEF rank, S
    <3> QED
      BY <2>2
  <2> HIDE DEF X, S, step, Value
  <2> QED
    BY <1>s, <2>3
<1>5. PICK f : DescentOf(f, X, S, step)
  <2>1. {} \in S
    OBVIOUS
  <2> HIDE DEF X, S, rank, step
  <2> QED
    BY <1>2, <1>s, <1>4, <2>1, DescentOn
<1>6. f = [n \in X |-> Value(n, f)]
  <2> HIDE DEF rank, step, S, X, Value
  <2> QED
    BY <1>s, <1>5 DEF DescentOf
<1>7. NodesDef(f, N, h)
  BY <1>6 DEF NodesDef
<1> QED
  BY <1>7

LEMMA NodesAre ==
  ASSUME NEW N, Nodal(N), NEW h \in Heaps(N), Grounded(h), NEW S, S \subseteq N, NEW r,
         NEW D, Descends(h, S, D, r)
  PROVE  \A x \in S \union {Null} : Nodes(h, x) = Under(D, x)
<1> DEFINE Def(f) == [x \in DOMAIN h \union {Null} |->
                        IF x = Null THEN {} ELSE {x} \union f[h[x].left] \union f[h[x].right]]
           f == CHOOSE u : u = Def(u)
<1>1. DOMAIN h = N /\ Null \notin N
  BY NullIsNone DEF Heaps
<1>2. \A u : NodesDef(u, N, h) <=> u = Def(u)
  BY <1>1 DEF NodesDef
<1>3. \A x : Nodes(h, x) = f[x]
  BY DEF Nodes
<1> HIDE DEF Def
<1>4. \E u : u = Def(u)
  BY <1>2, NodesOn
<1>5. f = Def(f)
  BY <1>4, Zenon
<1> HIDE DEF f
<1>6. NodesDef(f, N, h)
  BY <1>2, <1>5
<1>7. f[Null] = {} /\ \A x \in N : f[x] = {x} \union f[h[x].left] \union f[h[x].right]
  BY <1>1, <1>6 DEF NodesDef
<1> DEFINE Good == {k \in Nat : \A x \in S : h[x].height < k => f[x] = D[x]}
<1>8. \A x \in S : h[x].height \in Nat
  BY Childs
<1>9. 0 \in Good
  BY <1>8
<1>10. ASSUME NEW k \in Nat, k \in Good PROVE (k + 1) \in Good
  <2> SUFFICES ASSUME NEW x \in S, h[x].height < k + 1 PROVE f[x] = D[x]
    OBVIOUS
  <2>1. /\ h[x].left \in S \union {Null} /\ h[x].right \in S \union {Null}
        /\ D[x] = {x} \union Under(D, h[x].left) \union Under(D, h[x].right)
    BY DEF Descends, NodeRight
  <2>2. ASSUME NEW s \in Sides, h[x][s] \in S \union {Null} PROVE f[h[x][s]] = Under(D, h[x][s])
    <3>1. h[x][s] # Null => h[h[x][s]].height < h[x].height
      BY <1>1 DEF Grounded
    <3>2. CASE h[x][s] = Null
      BY <1>7, <3>2 DEF Under
    <3>3. CASE h[x][s] # Null
      <4>1. h[x][s] \in S /\ h[h[x][s]].height < k
        BY <1>8, <2>2, <3>1, <3>3
      <4> QED
        BY <1>10, <3>3, <4>1 DEF Under
    <3> QED
      BY <3>2, <3>3
  <2>3. f[h[x].left] = Under(D, h[x].left) /\ f[h[x].right] = Under(D, h[x].right)
    <3>1. "left" \in Sides /\ "right" \in Sides
      BY DEF Sides
    <3>2. f[h[x]["left"]] = Under(D, h[x]["left"])
      BY <2>1, <2>2, <3>1
    <3>3. f[h[x]["right"]] = Under(D, h[x]["right"])
      BY <2>1, <2>2, <3>1
    <3> QED
      BY <3>2, <3>3
  <2> QED
    BY <1>7, <2>1, <2>3
<1> HIDE DEF Good
<1>11. Nat \subseteq Good
  BY <1>9, <1>10, InductionOn
<1>12. ASSUME NEW x \in S PROVE f[x] = D[x]
  <2>1. h[x].height + 1 \in Good /\ h[x].height < h[x].height + 1
    BY <1>8, <1>11
  <2> QED
    BY <2>1 DEF Good
<1> QED
  BY <1>1, <1>3, <1>7, <1>12 DEF Under

LEMMA NodesOfTree ==
  ASSUME NEW N, Nodal(N), NEW h \in Heaps(N), Grounded(h), NEW S, S \subseteq N, NEW r, AVL(h, S, r)
  PROVE  Nodes(h, r) = S /\ IsAVL(h, r)
<1>1. PICK D : Descends(h, S, D, r)
  BY DEF AVL
<1>2. \A x \in S \union {Null} : Nodes(h, x) = Under(D, x)
  BY <1>1, NodesAre
<1>3. Nodes(h, r) = S
  BY <1>1, <1>2 DEF Descends
<1>4. ASSUME NEW x \in S
      PROVE  /\ \A y \in Nodes(h, h[x].left) : h[y].key < h[x].key
             /\ \A y \in Nodes(h, h[x].right) : h[y].key > h[x].key
             /\ Balance(h, x) \in {-1, 0, 1} /\ UpdateHeight(h, x) = h
  <2>1. /\ h[x].left \in S \union {Null} /\ h[x].right \in S \union {Null} /\ Even(h, x)
        /\ OnSide(h, "left", Under(D, h[x].left), h[x].key)
        /\ OnSide(h, "right", Under(D, h[x].right), h[x].key)
    BY <1>1 DEF Descends, NodeRight
  <2>2. UpdateHeight(h, x) = h
    <3>1. UpdateHeight(h, x)[x].height = h[x].height /\ UpdateHeight(h, x) \in Heaps(N)
      BY <2>1, Updated DEF Reckoned, Even
    <3>2. SameBut(h, UpdateHeight(h, x), {x}) /\ SameData(h, UpdateHeight(h, x)) /\ SameSides(h, UpdateHeight(h, x), x)
      BY Updated DEF Reckoned
    <3> DEFINE g == UpdateHeight(h, x)
    <3> HIDE DEF g
    <3>3. g \in Heaps(N) /\ g[x].height = h[x].height /\ SameBut(h, g, {x}) /\ SameData(h, g) /\ SameSides(h, g, x)
      BY <3>1, <3>2 DEF g
    <3>4. g[x].left = h[x].left /\ g[x].right = h[x].right
      <4>1. "left" \in Sides /\ "right" \in Sides
        BY DEF Sides
      <4>2. g[x]["left"] = h[x]["left"] /\ g[x]["right"] = h[x]["right"]
        BY <3>3, <4>1 DEF SameSides
      <4> QED
        BY <4>2
    <3>5. g[x] = h[x]
      BY <3>3, <3>4 DEF SameData, Heaps, NodeRecs
    <3>6. \A z \in N : g[z] = h[z]
      BY <3>3, <3>5 DEF SameBut, Heaps
    <3>7. g = h
      BY <3>3, <3>6 DEF Heaps
    <3> QED
      BY <3>7 DEF g
  <2> QED
    BY <1>2, <2>1, <2>2 DEF OnSide, Even
<1>5. IsAVL(h, r)
  BY <1>3, <1>4 DEF IsAVL
<1> QED
  BY <1>3, <1>5
-------------------------------------------------------------------------------
(* A node enters a tree.                                                   *)
LEMMA Subtree ==
  ASSUME NEW N, Nodal(N), NEW h \in Heaps(N), NEW S, S \subseteq N, NEW r,
         NEW D, Descends(h, S, D, r), NEW x \in S \union {Null}
  PROVE  AVL(h, Under(D, x), x)
<1>1. CASE x = Null
  BY <1>1, EmptyTree DEF Under
<1>2. CASE x # Null
  <2> DEFINE U == D[x]
             E == [y \in U |-> D[y]]
  <2>n. Null \notin N
    BY NullIsNone
  <2>1. x \in S /\ U \subseteq S /\ x \in U /\ \A y \in U : D[y] \subseteq U
    BY <1>2 DEF Descends, NodeRight
  <2>2. E \in [U -> SUBSET U] /\ Under(E, x) = U /\ \A y \in U : E[y] = D[y]
    BY <2>1, <1>2 DEF Under
  <2>3. ASSUME NEW y \in U
        PROVE  /\ h[y].left \in U \union {Null} /\ h[y].right \in U \union {Null}
               /\ NodeRight(h, E, y)
    <3>1. /\ NodeRight(h, D, y) /\ h[y].left \in S \union {Null} /\ h[y].right \in S \union {Null}
          /\ D[y] \subseteq U
      BY <2>1 DEF Descends
    <3>2. \A z \in S : z \in D[z]
      BY DEF Descends, NodeRight
    <3>3. h[y].left # Null => h[y].left \in D[y]
      BY <3>1, <3>2 DEF NodeRight, Under
    <3>4. h[y].right # Null => h[y].right \in D[y]
      BY <3>1, <3>2 DEF NodeRight, Under
    <3>5. /\ h[y].left \in U \union {Null} /\ h[y].right \in U \union {Null}
          /\ Under(E, h[y].left) = Under(D, h[y].left) /\ Under(E, h[y].right) = Under(D, h[y].right)
          /\ E[y] = D[y]
      BY <3>1, <3>3, <3>4, <2>2 DEF Under
    <3> QED
      BY <3>1, <3>5 DEF NodeRight
  <2> HIDE DEF E, U
  <2>4. \A y \in U : \A z \in E[y] : E[z] \subseteq E[y]
    <3>1. \A y \in U : \A z \in D[y] : D[z] \subseteq D[y] /\ z \in U
      BY <2>1 DEF Descends
    <3> QED
      BY <3>1, <2>2
  <2>5. Descends(h, U, E, x)
    BY <2>1, <2>2, <2>3, <2>4 DEF Descends
  <2>6. AVL(h, U, x)
    BY <2>5 DEF AVL
  <2> QED
    BY <1>2, <2>6 DEF U, Under
<1> QED
  BY <1>1, <1>2

(* What is on the two sides of a node of a tree. *)
Beside(h, D, f, s, A, B) ==
  /\ A = Under(D, h[f][s]) /\ B = Under(D, h[f][Other(s)]) /\ D[f] = {f} \union A \union B
  /\ Parts(h, f, s, A, B) /\ EvenAt(h, f, s)
  /\ \A x \in A : D[x] \subseteq A
LEMMA SidesOf ==
  ASSUME NEW N, Nodal(N), NEW h \in Heaps(N), NEW S, S \subseteq N, NEW r,
         NEW D, Descends(h, S, D, r), NEW f \in S, NEW s \in Sides
  PROVE  /\ Beside(h, D, f, s, Under(D, h[f][s]), Under(D, h[f][Other(s)]))
         /\ h[f][s] \in S \union {Null} /\ D[f] \subseteq S /\ f \in D[f]
         /\ h[f][s] # Null => h[f][s] \in D[f]
<1> DEFINE A == Under(D, h[f].left)
           B == Under(D, h[f].right)
<1>1. /\ h[f].left \in S \union {Null} /\ h[f].right \in S \union {Null} /\ NodeRight(h, D, f)
      /\ D[f] \subseteq S
  BY DEF Descends
<1>2. /\ D[f] = {f} \union A \union B /\ f \notin A \union B /\ A \intersect B = {}
      /\ OnSide(h, "left", A, h[f].key) /\ OnSide(h, "right", B, h[f].key) /\ Even(h, f)
  BY <1>1 DEF NodeRight
<1>3. AVL(h, A, h[f].left) /\ AVL(h, B, h[f].right)
  <2> DEFINE a == h[f].left
             b == h[f].right
  <2>1. a \in S \union {Null} /\ b \in S \union {Null}
    BY <1>1
  <2> HIDE DEF a, b
  <2>2. AVL(h, Under(D, a), a) /\ AVL(h, Under(D, b), b)
    BY <2>1, Subtree
  <2> QED
    BY <2>2 DEF a, b
<1>4. EvenAt(h, f, s)
  BY <1>2, EvenSides
<1>5. \A x \in S \union {Null} : \A y \in Under(D, x) : D[y] \subseteq Under(D, x)
  BY DEF Under, Descends
<1>6. \A x \in S : x \in D[x]
  BY DEF Descends, NodeRight
<1>7. CASE s = "left"
  <2>1. h[f][s] = h[f].left /\ h[f][Other(s)] = h[f].right
    BY <1>7 DEF Other
  <2>2. Beside(h, D, f, s, A, B)
    BY <1>1, <1>2, <1>3, <1>4, <1>5, <1>7, <2>1 DEF Beside, Parts, Other
  <2>3. h[f][s] # Null => h[f][s] \in D[f]
    BY <1>1, <1>2, <1>6, <2>1 DEF Under
  <2> QED
    BY <1>1, <1>6, <2>1, <2>2, <2>3
<1>8. CASE s = "right"
  <2>1. h[f][s] = h[f].right /\ h[f][Other(s)] = h[f].left
    BY <1>8 DEF Other
  <2>2. Beside(h, D, f, s, B, A)
    BY <1>1, <1>2, <1>3, <1>4, <1>5, <1>8, <2>1 DEF Beside, Parts, Other
  <2>3. h[f][s] # Null => h[f][s] \in D[f]
    BY <1>1, <1>2, <1>6, <2>1 DEF Under
  <2> QED
    BY <1>1, <1>6, <2>1, <2>2, <2>3
<1> QED
  BY <1>7, <1>8 DEF Sides

Child(h, S, D, f, s) ==
  /\ h[f][s] \in S \union {Null} /\ D[f] \subseteq S /\ f \in D[f]
  /\ h[f][s] # Null => h[f][s] \in D[f]
LEMMA ChildIn ==
  ASSUME NEW N, Nodal(N), NEW h \in Heaps(N), NEW S, S \subseteq N, NEW r,
         NEW D, Descends(h, S, D, r), NEW f \in S, NEW s \in Sides
  PROVE  Child(h, S, D, f, s)
<1>1. h[f][s] \in S \union {Null} /\ D[f] \subseteq S /\ f \in D[f] /\ (h[f][s] # Null => h[f][s] \in D[f])
  BY SidesOf
<1> QED
  BY <1>1 DEF Child

(* A way down a tree. *)
Route(h, S, q) ==
  /\ q \in Seq(S) /\ q # <<>>
  /\ \A i \in 1 .. (Len(q) - 1) : \E s \in Sides : q[i + 1] = h[q[i]][s]
LEMMA RouteDown ==
  ASSUME NEW N, Nodal(N), NEW h \in Heaps(N), NEW S, S \subseteq N, NEW r,
         NEW D, Descends(h, S, D, r), NEW q, Route(h, S, q)
  PROVE  /\ \A i \in 1 .. Len(q) : q[i] \in S
         /\ \A i \in 1 .. Len(q) : \A j \in i .. Len(q) : q[j] \in D[q[i]]
<1>1. Len(q) \in Nat /\ \A i \in 1 .. Len(q) : q[i] \in S
  BY DEF Route
<1>2. \A x \in S : x \in D[x] /\ \A y \in D[x] : D[y] \subseteq D[x]
  BY DEF Descends, NodeRight
<1> DEFINE Good == {j \in Nat : j <= Len(q) => \A i \in 1 .. j : q[j] \in D[q[i]]}
<1>3. 0 \in Good
  OBVIOUS
<1>4. ASSUME NEW j \in Nat, j \in Good PROVE (j + 1) \in Good
  <2> SUFFICES ASSUME j + 1 <= Len(q), NEW i \in 1 .. (j + 1) PROVE q[j + 1] \in D[q[i]]
    OBVIOUS
  <2>1. CASE i = j + 1
    BY <1>1, <1>2, <2>1
  <2>2. CASE i # j + 1
    <3>1. j \in 1 .. (Len(q) - 1) /\ i \in 1 .. j /\ q[j] \in S /\ q[i] \in S /\ j \in 1 .. Len(q) /\ j + 1 \in 1 .. Len(q)
      BY <1>1, <2>2
    <3>2. q[j] \in D[q[i]]
      BY <1>1, <1>4, <3>1
    <3>3. PICK s \in Sides : q[j + 1] = h[q[j]][s]
      BY <3>1 DEF Route
    <3>4. q[j + 1] # Null
      BY <1>1, <3>1, NullIsNone
    <3> DEFINE x == q[j]
    <3>x. x \in S
      BY <3>1
    <3>a. h[x][s] # Null => h[x][s] \in D[x]
      <4> HIDE DEF x
      <4> QED
        BY <3>x, SidesOf
    <3>5. q[j + 1] \in D[q[j]]
      BY <3>3, <3>4, <3>a
    <3> QED
      BY <1>2, <3>1, <3>2, <3>5
  <2> QED
    BY <2>1, <2>2
<1> HIDE DEF Good
<1>5. Nat \subseteq Good
  BY <1>3, <1>4, InductionOn
<1>6. ASSUME NEW i \in 1 .. Len(q), NEW j \in i .. Len(q) PROVE q[j] \in D[q[i]]
  <2>1. j \in Nat /\ j \in Good /\ j <= Len(q) /\ i \in 1 .. j
    BY <1>1, <1>5
  <2> QED
    BY <2>1 DEF Good
<1> QED
  BY <1>1, <1>6

SameHeights(h, g) == \A z \in DOMAIN h : g[z].height = h[z].height
LEMMA BottomAt ==
  ASSUME NEW N, Nodal(N), NEW g \in Heaps(N), NEW f \in N, NEW s \in Sides, NEW A, NEW B,
         A \subseteq N, B \subseteq N, Parts(g, f, s, A, B), NEW m \in Nat, NEW n \in Nat,
         m = Height(g, g[f][s]), n = Height(g, g[f][Other(s)]), m <= n + 2, n <= m + 2,
         \A k \in Grown(m, n) : Near(k, g[f].height)
  PROVE  Bottom(g, f, {f} \union A \union B)
<1> DEFINE V == {f} \union A \union B
<1>1. V = {f} \union B \union A
  OBVIOUS
<1>2. CASE s = "left"
  <2>1. m = Height(g, g[f].left) /\ n = Height(g, g[f].right)
    BY <1>2 DEF Other
  <2>2. \E X, Y : V = {f} \union X \union Y /\ Parts(g, f, "left", X, Y)
    BY <1>2
  <2>3. Changed(g, f, m, n)
    BY <2>1 DEF Changed
  <2> HIDE DEF V
  <2>4. Bottom(g, f, V)
    BY <2>2, <2>3 DEF Bottom
  <2> QED
    BY <2>4 DEF V
<1>3. CASE s = "right"
  <2>1. m = Height(g, g[f].right) /\ n = Height(g, g[f].left)
    BY <1>3 DEF Other
  <2>2. Parts(g, f, "left", B, A)
    <3>1. Parts(g, f, Other(s), B, A)
      BY OtherSide
    <3> QED
      BY <1>3, <3>1 DEF Other
  <2>3. \E X, Y : V = {f} \union X \union Y /\ Parts(g, f, "left", X, Y)
    BY <1>1, <2>2
  <2>4. Grown(n, m) = Grown(m, n)
    BY GrownEitherWay
  <2>5. Changed(g, f, n, m)
    BY <2>1, <2>4 DEF Changed
  <2> HIDE DEF V
  <2>6. Bottom(g, f, V)
    BY <2>3, <2>5 DEF Bottom
  <2> QED
    BY <2>6 DEF V
<1> QED
  BY <1>2, <1>3 DEF Sides

(* Above is kept by changes below. *)
KeptAbove(h, g, D, f, s, U, V, B) ==
  /\ SameHeights(h, g) /\ SameSides(h, g, f) /\ f \notin U
  /\ B = Under(D, h[f][Other(s)]) /\ U \intersect B = {} /\ V = {f} \union U \union B
  /\ \A z \in B : g[z] = h[z]
  /\ h[f][s] # Null /\ OnSide(g, s, U, g[f].key) /\ OnSide(g, Other(s), B, g[f].key)
LEMMA StaysAbove ==
  ASSUME NEW N, Nodal(N), NEW h \in Heaps(N), NEW g \in Heaps(N),
         NEW S, S \subseteq N, NEW r, NEW D, Descends(h, S, D, r), NEW f \in S, NEW s \in Sides,
         NEW U, NEW V, NEW B, KeptAbove(h, g, D, f, s, U, V, B)
  PROVE  Above(g, f, h[f][s], U, V)
<1>0. /\ SameHeights(h, g) /\ SameSides(h, g, f) /\ f \notin U
      /\ B = Under(D, h[f][Other(s)]) /\ U \intersect B = {} /\ V = {f} \union U \union B
      /\ \A z \in B : g[z] = h[z]
      /\ h[f][s] # Null /\ OnSide(g, s, U, g[f].key) /\ OnSide(g, Other(s), B, g[f].key)
  BY DEF KeptAbove
<1> DEFINE A == Under(D, h[f][s])
<1>1. Beside(h, D, f, s, A, B)
  BY <1>0, SidesOf
<1>2. Parts(h, f, s, A, B) /\ EvenAt(h, f, s) /\ B \subseteq N /\ f \in N
  <2>1. D[f] = {f} \union A \union B /\ D[f] \subseteq S
    BY <1>1 DEF Beside, Descends
  <2> QED
    BY <1>1, <2>1 DEF Beside
<1> HIDE DEF A
<1>3. g[f][s] = h[f][s] /\ g[f][Other(s)] = h[f][Other(s)] /\ Other(s) \in Sides
  BY <1>0 DEF SameSides, Sides, Other
<1>4. AVL(g, B, g[f][Other(s)])
  <2> DEFINE b == h[f][Other(s)]
  <2>1. AVL(h, B, b)
    BY <1>2 DEF Parts
  <2> HIDE DEF b
  <2>2. AVL(g, B, b)
    BY <1>0, <1>2, <2>1, Frame
  <2> QED
    BY <1>3, <2>2 DEF b
<1>5. EvenAt(g, f, s)
  <2>1. \A z \in N \union {Null} : Height(g, z) = Height(h, z)
    BY <1>0 DEF SameHeights, Height, Heaps
  <2>2. h[f][s] \in N \union {Null} /\ h[f][Other(s)] \in N \union {Null}
    BY <1>2, Childs
  <2>3. Height(g, g[f][s]) = Height(h, h[f][s]) /\ Height(g, g[f][Other(s)]) = Height(h, h[f][Other(s)])
    BY <1>3, <2>1, <2>2
  <2>4. g[f].height = h[f].height
    BY <1>0, <1>2 DEF SameHeights, Heaps
  <2> QED
    BY <1>2, <2>3, <2>4 DEF EvenAt
<1>6. f \notin B
  BY <1>2 DEF Parts
<1> QED
  BY <1>0, <1>3, <1>4, <1>5, <1>6 DEF Above

FreeLeaf(h, n) == h[n].left = Null /\ h[n].right = Null /\ h[n].height = 1
Toward(h, key, x) == IF key <= h[x].key THEN "left" ELSE "right"
(* The way to where key is to be. *)
WayIn(h, S, key, q) ==
  /\ Route(h, S, q) /\ \A i \in 1 .. (Len(q) - 1) : q[i + 1] = h[q[i]][Toward(h, key, q[i])]
  /\ h[q[Len(q)]][Toward(h, key, q[Len(q)])] = Null

LEMMA LeafIsTree ==
  ASSUME NEW N, Nodal(N), NEW h \in Heaps(N), NEW n \in N, FreeLeaf(h, n)
  PROVE  AVL(h, {n}, n)
<1>1. Parts(h, n, "left", {}, {})
  <2>1. AVL(h, {}, Null)
    BY EmptyTree
  <2> QED
    BY <2>1 DEF Parts, FreeLeaf, Other, OnSide
<1>2. Even(h, n)
  BY DEF FreeLeaf, Even, Balance, Height, Larger
<1>3. AVL(h, {n} \union {} \union {}, n)
  BY <1>1, <1>2, Join
<1> QED
  BY <1>3

LEMMA HungChain ==
  ASSUME NEW N, Nodal(N), NEW h \in Heaps(N), NEW S, S \subseteq N, NEW r,
         NEW D, Descends(h, S, D, r), NEW n \in N, n \notin S, FreeLeaf(h, n),
         \A y \in S : h[y].key # h[n].key, NEW q, WayIn(h, S, h[n].key, q)
  PROVE  LET last == q[Len(q)] IN
         ChainOf(N, SetChild(h, last, Toward(h, h[n].key, last), n), q,
                 [i \in 1 .. Len(q) |-> D[q[i]] \union {n}])
<1> DEFINE key == h[n].key
           M == Len(q)
           last == q[M]
           e == Toward(h, key, last)
           g == SetChild(h, last, e, n)
           T == [i \in 1 .. M |-> D[q[i]] \union {n}]
<1>1. /\ q \in Seq(S) /\ q # <<>> /\ M \in Nat /\ M >= 1 /\ q \in Seq(N) /\ Null \notin N /\ DOMAIN h = N
      /\ \A i \in 1 .. M : q[i] \in S
      /\ \A i \in 1 .. M : \A j \in i .. M : q[j] \in D[q[i]]
      /\ \A i \in 1 .. (M - 1) : q[i + 1] = h[q[i]][Toward(h, key, q[i])]
      /\ h[last][e] = Null /\ key \in Int
  <2>1. q \in Seq(S) /\ q # <<>>
    BY DEF WayIn, Route
  <2>2. /\ \A i \in 1 .. M : q[i] \in S
        /\ \A i \in 1 .. M : \A j \in i .. M : q[j] \in D[q[i]]
    <3>1. Route(h, S, q)
      BY DEF WayIn
    <3> QED
      BY <3>1, RouteDown
  <2>3. key \in Int
    BY Childs
  <2>4. q \in Seq(N)
    BY <2>1
  <2> QED
    BY <2>1, <2>2, <2>3, <2>4, NullIsNone DEF WayIn, Heaps
<1>2. last \in S /\ last \in N /\ e \in Sides /\ last # n
  BY <1>1 DEF Toward, Sides
<1>3. g \in Heaps(N) /\ Hooked(h, g, last, e, n)
  <2>1. n \in N \union {Null}
    OBVIOUS
  <2> HIDE DEF last, e
  <2> QED
    BY <1>2, <2>1, Hung
<1> HIDE DEF g
<1>4. /\ \A z \in N : z # last => g[z] = h[z]
      /\ SameData(h, g) /\ SameHeights(h, g)
      /\ g[last][e] = n /\ g[last][Other(e)] = h[last][Other(e)]
  BY <1>1, <1>2, <1>3 DEF Hooked, SameBut, SameHeights
<1>5. T \in [1 .. M -> SUBSET N] /\ \A i \in 1 .. M : T[i] = D[q[i]] \union {n}
  <2>1. \A i \in 1 .. M : D[q[i]] \subseteq S
    BY <1>1 DEF Descends
  <2> QED
    BY <2>1
<1> HIDE DEF T
<1>6. ASSUME NEW i \in 1 .. (M - 1)
      PROVE  q[i + 1] \in T[i + 1] /\ Above(g, q[i], q[i + 1], T[i + 1], T[i])
  <2> DEFINE f == q[i]
             s == Toward(h, key, f)
             c == h[f][s]
             A == Under(D, h[f][s])
             B == Under(D, h[f][Other(s)])
             U == D[c] \union {n}
             V == D[f] \union {n}
  <2>1. /\ f \in S /\ q[i + 1] = c /\ c \in S /\ c # Null /\ s \in Sides /\ last \in D[c]
        /\ T[i] = V /\ T[i + 1] = U
    <3>1. i \in 1 .. M /\ i + 1 \in 1 .. M /\ M \in (i + 1) .. M
      BY <1>1
    <3>2. f \in S /\ q[i + 1] = c /\ c \in S
      BY <1>1, <3>1
    <3>3. last \in D[q[i + 1]]
      BY <1>1, <3>1
    <3>4. c # Null
      BY <1>1, <3>2
    <3> QED
      BY <1>1, <1>5, <3>1, <3>2, <3>3, <3>4 DEF Toward, Sides
  <2> HIDE DEF f, s, c, M
  <2>2. Beside(h, D, f, s, A, B) /\ D[f] \subseteq S /\ A = D[c]
    <3>0. f \in S /\ s \in Sides
      BY <2>1
    <3>1. Beside(h, D, f, s, A, B) /\ D[f] \subseteq S
      BY <1>1, <3>0, SidesOf
    <3>2. A = D[c]
      BY <2>1 DEF c, Under
    <3> QED
      BY <3>1, <3>2
  <2>3. /\ D[f] = {f} \union D[c] \union B /\ f \notin D[c] \union B /\ D[c] \intersect B = {}
        /\ OnSide(h, s, D[c], h[f].key) /\ OnSide(h, Other(s), B, h[f].key)
        /\ U \subseteq N /\ B \subseteq S /\ f # n /\ f # last /\ n \notin B /\ last \notin B
    <3>1. D[f] = {f} \union D[c] \union B /\ Parts(h, f, s, D[c], B)
      BY <2>2 DEF Beside
    <3> HIDE DEF A, B, last
    <3>2. f \notin D[c] \union B /\ D[c] \intersect B = {}
      BY <3>1 DEF Parts
    <3>3. OnSide(h, s, D[c], h[f].key) /\ OnSide(h, Other(s), B, h[f].key)
      BY <3>1 DEF Parts
    <3> QED
      BY <2>1, <2>2, <3>1, <3>2, <3>3
  <2>4. OnSide(g, s, U, g[f].key) /\ OnSide(g, Other(s), B, g[f].key)
    <3>1. OnSide(h, s, {n}, h[f].key)
      <4>1. h[f].key \in Int /\ h[f].key # key
        BY <2>1, Childs
      <4> QED
        BY <1>1, <4>1 DEF OnSide, Toward, s
    <3>2. OnSide(h, s, U, h[f].key)
      BY <2>3, <3>1, SideUnion
    <3>3. f \in N /\ B \subseteq N /\ Other(s) \in Sides
      BY <2>1, <2>3 DEF Other, Sides
    <3> HIDE DEF U, B
    <3>4. OnSide(g, s, U, g[f].key)
      BY <1>3, <1>4, <2>1, <2>3, <3>2, <3>3, SidesKept
    <3> DEFINE o == Other(s)
    <3>5. o \in Sides /\ OnSide(h, o, B, h[f].key)
      BY <2>3, <3>3
    <3> HIDE DEF o
    <3>6. OnSide(g, o, B, g[f].key)
      BY <1>3, <1>4, <3>3, <3>5, SidesKept
    <3> QED
      BY <3>4, <3>6 DEF o
  <2>5. Above(g, f, h[f][s], U, V)
    <3>1. SameSides(h, g, f) /\ \A z \in B : g[z] = h[z]
      BY <1>4, <2>1, <2>3 DEF SameSides
    <3>2. f \notin U /\ U \intersect B = {} /\ V = {f} \union U \union B /\ h[f][s] # Null /\ U \subseteq N
      BY <2>1, <2>3 DEF c
    <3>3. B = Under(D, h[f][Other(s)])
      OBVIOUS
    <3> HIDE DEF U, V, B
    <3>4. KeptAbove(h, g, D, f, s, U, V, B)
      BY <1>4, <2>4, <3>1, <3>2, <3>3 DEF KeptAbove
    <3> QED
      BY <1>3, <2>1, <3>4, StaysAbove
  <2>6. c \in U
    <3>1. \A x \in S : x \in D[x]
      BY DEF Descends, NodeRight
    <3> QED
      BY <2>1, <3>1
  <2> QED
    BY <2>1, <2>5, <2>6 DEF c, f
<1>7. Bottom(g, last, T[M])
  <2> DEFINE A == {n}
             b == h[last][Other(e)]
             B == Under(D, b)
             k == Height(h, b)
  <2> HIDE DEF last, e
  <2>1. Beside(h, D, last, e, Under(D, h[last][e]), B) /\ D[last] \subseteq S
    BY <1>2, SidesOf
  <2>2. /\ D[last] = {last} \union B /\ last \notin B /\ Parts(h, last, e, {}, B) /\ EvenAt(h, last, e)
        /\ B \subseteq N /\ n \notin B
    <3>1. Under(D, h[last][e]) = {}
      BY <1>1 DEF Under
    <3>2. D[last] = {last} \union B /\ Parts(h, last, e, {}, B) /\ EvenAt(h, last, e)
      BY <2>1, <3>1 DEF Beside
    <3>3. last \notin B
      BY <3>2 DEF Parts
    <3> HIDE DEF B
    <3> QED
      BY <2>1, <3>2, <3>3
  <2>3. k \in Nat /\ k <= 1 /\ h[last].height = 1 + Larger(0, k) /\ b \in N \union {Null}
    <3>1. b \in N \union {Null}
      BY <1>2, Childs
    <3>2. k \in Nat
      BY <3>1, HeightIs
    <3> QED
      BY <1>1, <2>2, <3>1, <3>2 DEF EvenAt, Height
  <2>4. Height(g, g[last][e]) = 1 /\ Height(g, g[last][Other(e)]) = k /\ g[last].height = h[last].height
    <3>1. Height(g, n) = 1
      BY <1>1, <1>2, <1>4 DEF Height, FreeLeaf
    <3>2. Height(g, b) = Height(h, b)
      BY <1>1, <1>4, <2>3 DEF Height, SameHeights
    <3> QED
      BY <1>1, <1>2, <1>4, <3>1, <3>2 DEF SameHeights
  <2>5. Parts(g, last, e, A, B)
    <3>1. AVL(g, {n}, g[last][e])
      <4>1. FreeLeaf(g, n)
        BY <1>2, <1>4 DEF FreeLeaf
      <4> QED
        BY <1>3, <1>4, <4>1, LeafIsTree
    <3>2. AVL(h, B, b)
      BY <2>2 DEF Parts
    <3>3. \A z \in B : g[z] = h[z]
      BY <1>4, <2>2
    <3> HIDE DEF b, B
    <3>4. AVL(g, B, b)
      BY <1>3, <2>2, <3>2, <3>3, Frame
    <3>5. OnSide(h, e, {n}, h[last].key)
      <4>1. h[last].key \in Int /\ h[last].key # key
        BY <1>2, Childs
      <4> QED
        BY <1>1, <4>1 DEF OnSide, Toward, e
    <3>6. OnSide(g, e, {n}, g[last].key)
      <4>1. {n} \subseteq N
        OBVIOUS
      <4> QED
        BY <1>2, <1>3, <1>4, <3>5, <4>1, SidesKept
    <3>7. OnSide(g, Other(e), B, g[last].key)
      <4> DEFINE o == Other(e)
      <4>1. o \in Sides /\ OnSide(h, o, B, h[last].key)
        BY <1>2, <2>2 DEF Parts, Other, Sides
      <4> HIDE DEF o
      <4>2. OnSide(g, o, B, g[last].key)
        BY <1>2, <1>3, <1>4, <2>2, <4>1, SidesKept
      <4> QED
        BY <4>2 DEF o
    <3>8. last \notin A \union B /\ A \intersect B = {}
      BY <1>2, <2>2
    <3> QED
      BY <1>4, <3>1, <3>4, <3>6, <3>7, <3>8 DEF Parts, b
  <2>6. \A m \in Grown(1, k) : Near(m, g[last].height)
    BY <2>3, <2>4 DEF Grown, Near, Larger
  <2>7. T[M] = {last} \union A \union B
    <3>1. M \in 1 .. M
      BY <1>1
    <3>2. T[M] = D[last] \union {n}
      BY <1>5, <3>1 DEF last
    <3> HIDE DEF B
    <3> QED
      BY <2>2, <3>2
  <2>8. Bottom(g, last, {last} \union A \union B)
    <3>1. 1 <= k + 2 /\ k <= 1 + 2 /\ 1 \in Nat /\ A \subseteq N
      BY <2>3
    <3> DEFINE m == 1
    <3>2. m \in Nat /\ m = Height(g, g[last][e]) /\ k = Height(g, g[last][Other(e)])
      BY <2>4
    <3>3. m <= k + 2 /\ k <= m + 2 /\ \A l \in Grown(m, k) : Near(l, g[last].height)
      BY <2>6, <3>1
    <3> HIDE DEF m, k, A, B, b
    <3> QED
      BY <1>2, <1>3, <2>2, <2>3, <2>5, <3>1, <3>2, <3>3, BottomAt
  <2> QED
    BY <2>7, <2>8
<1>8. ChainOf(N, g, q, T)
  BY <1>1, <1>5, <1>6, <1>7 DEF ChainOf
<1> QED
  BY <1>8 DEF g, T

LEMMA TrailStays ==
  ASSUME NEW N, Nodal(N), NEW S, S \subseteq N, NEW c, \A y \in S : c[y] \in S \union {Null},
         NEW x \in S, NEW q, Trail(N, q, x, c)
  PROVE  /\ q \in Seq(S) /\ q # <<>> /\ q[1] = x /\ c[q[Len(q)]] = Null
         /\ \A i \in 1 .. (Len(q) - 1) : q[i + 1] = c[q[i]]
         /\ Len(q) \in Nat /\ Len(q) >= 1
<1>1. /\ q \in Seq(N) /\ q # <<>> /\ q[1] = x /\ c[q[Len(q)]] = Null /\ Null \notin N
      /\ \A i \in 1 .. (Len(q) - 1) : q[i + 1] = c[q[i]]
  BY NullIsNone DEF Trail
<1>2. Len(q) \in Nat /\ Len(q) >= 1 /\ \A i \in 1 .. Len(q) : q[i] \in N
  BY <1>1
<1> DEFINE Good == {j \in Nat : j + 1 <= Len(q) => q[j + 1] \in S}
<1>3. 0 \in Good
  BY <1>1
<1>4. ASSUME NEW j \in Nat, j \in Good PROVE (j + 1) \in Good
  <2> SUFFICES ASSUME (j + 1) + 1 <= Len(q) PROVE q[(j + 1) + 1] \in S
    OBVIOUS
  <2>1. j + 1 \in 1 .. (Len(q) - 1) /\ (j + 1) + 1 \in 1 .. Len(q) /\ q[j + 1] \in S
    BY <1>2, <1>4
  <2>2. q[(j + 1) + 1] = c[q[j + 1]] /\ q[(j + 1) + 1] \in N
    BY <1>1, <1>2, <2>1
  <2> QED
    BY <1>1, <2>1, <2>2
<1> HIDE DEF Good
<1>5. Nat \subseteq Good
  BY <1>3, <1>4, InductionOn
<1>6. \A i \in 1 .. Len(q) : q[i] \in S
  <2>1. ASSUME NEW i \in 1 .. Len(q) PROVE q[i] \in S
    <3>1. i - 1 \in Good /\ (i - 1) + 1 = i /\ i <= Len(q)
      BY <1>2, <1>5
    <3> QED
      BY <3>1 DEF Good
  <2> QED
    BY <2>1
<1>7. q \in Seq(S)
  BY <1>1, <1>2, <1>6
<1> QED
  BY <1>1, <1>2, <1>7

GoesIn(h, S, key, r) ==
  WayIn(h, S, key, PathTo(h, r, key, TRUE)) /\ PathTo(h, r, key, TRUE)[1] = r
LEMMA WayToPlace ==
  ASSUME NEW N, Nodal(N), NEW h \in Heaps(N), Grounded(h), NEW S, S \subseteq N, NEW r, r # Null,
         NEW D, Descends(h, S, D, r), NEW key
  PROVE  GoesIn(h, S, key, r)
<1> DEFINE c == Chosen(h, key, TRUE)
           q == PathTo(h, r, key, TRUE)
<1>1. r \in S /\ r \in N \union {Null} /\ DOMAIN h = N /\ TRUE \in BOOLEAN
  BY DEF Descends, Heaps
<1>2. Trail(N, q, r, c)
  BY <1>1, PathToIs
<1>3. \A y \in S : c[y] = h[y][Toward(h, key, y)]
  BY <1>1 DEF Chosen, Toward
<1>4. \A y \in S : c[y] \in S \union {Null}
  BY <1>1 DEF Descends, Chosen
<1> HIDE DEF c, q
<1>5. /\ q \in Seq(S) /\ q # <<>> /\ q[1] = r /\ c[q[Len(q)]] = Null
      /\ \A i \in 1 .. (Len(q) - 1) : q[i + 1] = c[q[i]]
      /\ Len(q) \in Nat /\ Len(q) >= 1
  BY <1>1, <1>2, <1>4, TrailStays
<1>6. \A i \in 1 .. Len(q) : q[i] \in S
  BY <1>5
<1>7. ASSUME NEW i \in 1 .. (Len(q) - 1) PROVE q[i + 1] = h[q[i]][Toward(h, key, q[i])]
  <2>1. i \in 1 .. Len(q) /\ q[i] \in S
    BY <1>5, <1>6
  <2> QED
    BY <1>3, <1>5, <2>1
<1>8. h[q[Len(q)]][Toward(h, key, q[Len(q)])] = Null
  <2>1. q[Len(q)] \in S
    BY <1>5, <1>6
  <2> QED
    BY <1>3, <1>5, <2>1
<1>9. \A x : Toward(h, key, x) \in Sides
  BY DEF Toward, Sides
<1>10. WayIn(h, S, key, q)
  BY <1>5, <1>7, <1>8, <1>9 DEF WayIn, Route
<1> QED
  BY <1>5, <1>10 DEF q, GoesIn

(* out has in S what a tree of h became. *)
Became(N, h, out, S) ==
  /\ out \in Values(N) /\ out.top \in S \union {Null} /\ Settled(h, out.h, S, out.top)

LEMMA Inserted ==
  ASSUME NEW N, Nodal(N), NEW h \in Heaps(N), Grounded(h), NEW S, S \subseteq N, NEW r, AVL(h, S, r),
         NEW n \in N, n \notin S, FreeLeaf(h, n), \A y \in S : h[y].key # h[n].key
  PROVE  Became(N, h, Insert(h, r, n), S \union {n})
<1> DEFINE out == Insert(h, r, n)
           key == h[n].key
<1>1. CASE r = Null
  <2>1. S = {} /\ out = [h |-> h, top |-> n, node |-> n]
    BY <1>1, EmptyTree DEF Insert
  <2>2. AVL(h, {n}, n)
    BY LeafIsTree
  <2>3. SameBut(h, h, {n}) /\ SameData(h, h)
    BY DEF SameBut, SameData
  <2>4. S \union {n} = {n}
    BY <2>1
  <2>5. out \in Values(N) /\ out.h = h /\ out.top = n
    BY <2>1 DEF Values
  <2> HIDE DEF out
  <2>6. Became(N, h, out, {n})
    BY <2>2, <2>3, <2>5 DEF Became, Settled
  <2> QED
    BY <2>4, <2>6 DEF out
<1>2. CASE r # Null
  <2> DEFINE q == PathTo(h, r, key, TRUE)
             last == q[Len(q)]
             s == Toward(h, key, last)
             g == SetChild(h, last, s, n)
  <2>1. PICK D : Descends(h, S, D, r)
    BY DEF AVL
  <2>2. WayIn(h, S, key, q) /\ q[1] = r
    <3> HIDE DEF key
    <3>1. GoesIn(h, S, key, r)
      BY <1>2, <2>1, WayToPlace
    <3> QED
      BY <3>1 DEF GoesIn
  <2>3. out = GlobalRebalance(g, q)
    BY <1>2 DEF Insert, Hang, SetChild, Toward, Last
  <2> DEFINE T == [i \in 1 .. Len(q) |-> D[q[i]] \union {n}]
  <2> HIDE DEF q
  <2>4. ChainOf(N, g, q, T)
    BY <2>1, <2>2, HungChain
  <2>5. q \in Seq(S) /\ q # <<>> /\ Len(q) \in Nat /\ Len(q) >= 1 /\ last \in S
    BY <2>2 DEF WayIn, Route
  <2>6. T[1] = S \union {n}
    <3>1. D[r] = S
      BY <1>2, <2>1 DEF Descends, Under
    <3> QED
      BY <2>2, <2>5, <3>1
  <2>7. g \in Heaps(N) /\ SameBut(h, g, {last}) /\ SameData(h, g)
    <3>1. s \in Sides /\ n \in N \union {Null} /\ last \in N
      BY <2>5 DEF Toward, Sides
    <3>2. g \in Heaps(N) /\ Hooked(h, g, last, s, n)
      <4> HIDE DEF last, s
      <4> QED
        BY <3>1, Hung
    <3> QED
      BY <3>2 DEF Hooked
  <2> HIDE DEF g, T
  <2>8. Raised(N, g, GlobalRebalance(g, q), q[1], T[1])
    BY <2>4, <2>7, GlobalRaises
  <2> HIDE DEF out, last
  <2>9. Raised(N, g, out, r, S \union {n})
    BY <2>2, <2>3, <2>6, <2>8
  <2>10. /\ out \in Values(N) /\ out.top \in S \union {n} /\ AVL(out.h, S \union {n}, out.top)
         /\ SameBut(g, out.h, S \union {n}) /\ SameData(g, out.h)
    BY <2>9 DEF Raised, Settled
  <2>11. SameBut(h, out.h, S \union {n}) /\ SameData(h, out.h)
    BY <2>5, <2>7, <2>10 DEF SameBut, SameData, Heaps
  <2>12. Became(N, h, out, S \union {n})
    BY <2>10, <2>11 DEF Became, Settled
  <2> QED
    BY <2>12 DEF out
<1> QED
  BY <1>1, <1>2
-------------------------------------------------------------------------------
(* A node leaves a tree.                                                   *)

(* f takes the key of one on its left, greater than the others there.      *)
Lowered(h, g, D, f, z) ==
  \E y \in Under(D, h[f].left) :
    g[f].key = h[y].key /\ \A w \in Under(D, h[f].left) : w # z => g[w].key < h[y].key
Fits(h, g, D, f, z, s) ==
  g[f].key = h[f].key \/ (s = "left" /\ Lowered(h, g, D, f, z)) \/ Under(D, h[f][Other(s)]) = {}
(* g is h without z, a leaf below the last node of up. *)
CutOff(N, h, S, D, up, e, z, g) ==
  LET f == up[Len(up)] IN
  /\ Route(h, S, up) /\ e \in Sides /\ z = h[f][e] /\ z \in N /\ FreeLeaf(h, z)
  /\ g \in Heaps(N) /\ SameHeights(h, g) /\ g[f][e] = Null /\ g[f][Other(e)] = h[f][Other(e)]
  /\ \A w \in S : w # f => SameSides(h, g, w)
  /\ \A w \in S : w # z => \E v \in D[w] : g[w].key = h[v].key
  /\ \A w \in S : w # z /\ (\A i \in 1 .. Len(up) : w # up[i]) => g[w] = h[w]
  /\ Fits(h, g, D, f, z, e)
  /\ \A i \in 1 .. (Len(up) - 1) :
       \/ g[up[i]].key = h[up[i]].key
       \/ up[i + 1] = h[up[i]].left /\ Lowered(h, g, D, up[i], z)

CutAlong(S, D, up, z) ==
  /\ up \in Seq(S) /\ Len(up) \in Nat /\ Len(up) >= 1
  /\ \A i \in 1 .. Len(up) : up[i] \in S
  /\ \A i \in 1 .. Len(up) : \A j \in i .. Len(up) : up[j] \in D[up[i]]
  /\ z \in S /\ D[z] = {z} /\ z # up[Len(up)] /\ z \in D[up[Len(up)]]
  /\ \A i \in 1 .. Len(up) : z \in D[up[i]]
LEMMA CutRoute ==
  ASSUME NEW N, Nodal(N), NEW h \in Heaps(N), NEW S, S \subseteq N, NEW r,
         NEW D, Descends(h, S, D, r), NEW up, NEW e, NEW z, NEW g, CutOff(N, h, S, D, up, e, z, g)
  PROVE  CutAlong(S, D, up, z)
<1>1. /\ up \in Seq(S) /\ Len(up) \in Nat /\ Len(up) >= 1 /\ Null \notin N
      /\ Route(h, S, up) /\ e \in Sides /\ z = h[up[Len(up)]][e] /\ z \in N /\ FreeLeaf(h, z)
  BY NullIsNone DEF CutOff, Route
<1>2. /\ \A i \in 1 .. Len(up) : up[i] \in S
      /\ \A i \in 1 .. Len(up) : \A j \in i .. Len(up) : up[j] \in D[up[i]]
  BY <1>1, RouteDown
<1> DEFINE f == up[Len(up)]
<1>3. f \in S /\ h[f][e] = z /\ z # Null
  BY <1>1, <1>2
<1> HIDE DEF f
<1>4. h[f][e] \in S /\ h[f][e] \in D[f] /\ f \notin Under(D, h[f][e])
  <2>1. Beside(h, D, f, e, Under(D, h[f][e]), Under(D, h[f][Other(e)]))
    BY <1>1, <1>3, SidesOf
  <2>2. f \notin Under(D, h[f][e])
    BY <2>1 DEF Beside, Parts
  <2>3. Child(h, S, D, f, e)
    BY <1>1, <1>3, ChildIn
  <2> QED
    BY <1>3, <2>2, <2>3 DEF Child
<1>5. z \in S /\ z \in D[f]
  BY <1>3, <1>4
<1>6. D[z] = {z} /\ z # f
  <2>1. NodeRight(h, D, z)
    BY <1>5 DEF Descends
  <2>2. D[z] = {z}
    BY <1>1, <2>1 DEF NodeRight, FreeLeaf, Under
  <2>3. Under(D, h[f][e]) = D[z]
    BY <1>3 DEF Under
  <2> QED
    BY <1>4, <2>2, <2>3
<1>7. ASSUME NEW i \in 1 .. Len(up) PROVE z \in D[up[i]]
  <2>1. f \in D[up[i]] /\ up[i] \in S
    <3>1. Len(up) \in i .. Len(up)
      BY <1>1
    <3> QED
      BY <1>2, <3>1 DEF f
  <2> QED
    BY <1>5, <2>1 DEF Descends
<1> QED
  BY <1>1, <1>2, <1>5, <1>6, <1>7 DEF f, CutAlong

(* The nodes beside a way are not on it. *)
Fork(h, D, up, e, i, s, B) ==
  /\ IF i = Len(up) THEN s = e ELSE up[i + 1] = h[up[i]][s]
  /\ B = Under(D, h[up[i]][Other(s)])
Untouched(h, g, up, z, B) ==
  z \notin B /\ (\A j \in 1 .. Len(up) : up[j] \notin B) /\ (\A w \in B : g[w] = h[w])
LEMMA BesideRoute ==
  ASSUME NEW N, Nodal(N), NEW h \in Heaps(N), NEW S, S \subseteq N, NEW r,
         NEW D, Descends(h, S, D, r), NEW up, NEW e, NEW z, NEW g, CutOff(N, h, S, D, up, e, z, g),
         NEW i \in 1 .. Len(up), NEW s \in Sides, NEW B, Fork(h, D, up, e, i, s, B)
  PROVE  Untouched(h, g, up, z, B)
<1>0. /\ IF i = Len(up) THEN s = e ELSE up[i + 1] = h[up[i]][s]
      /\ B = Under(D, h[up[i]][Other(s)])
  BY DEF Fork
<1> DEFINE f == up[i]
           A == Under(D, h[f][s])
<1>1. /\ up \in Seq(S) /\ Len(up) \in Nat /\ Len(up) >= 1 /\ \A j \in 1 .. Len(up) : up[j] \in S
      /\ \A a \in 1 .. Len(up) : \A b \in a .. Len(up) : up[b] \in D[up[a]]
      /\ z \in S /\ D[z] = {z} /\ z # up[Len(up)] /\ z \in D[up[Len(up)]]
      /\ \A a \in 1 .. Len(up) : z \in D[up[a]]
  <2>1. CutAlong(S, D, up, z)
    BY CutRoute
  <2> QED
    BY <2>1 DEF CutAlong
<1>2. f \in S
  BY <1>1
<1>3. Beside(h, D, f, s, A, B) /\ D[f] \subseteq S
  <2> HIDE DEF f
  <2>1. Beside(h, D, f, s, Under(D, h[f][s]), Under(D, h[f][Other(s)])) /\ D[f] \subseteq S
    BY <1>2, SidesOf
  <2> QED
    BY <1>0, <2>1 DEF f
<1>4. D[f] = {f} \union A \union B /\ f \notin A \union B /\ A \intersect B = {}
  <2> HIDE DEF f, A
  <2> QED
    BY <1>3 DEF Beside, Parts
<1>5. \A x \in B : D[x] \subseteq B
  <2>1. h[f][Other(s)] \in S \union {Null}
    <3> DEFINE o == Other(s)
    <3>1. o \in Sides
      BY DEF Other, Sides
    <3> HIDE DEF o, f
    <3>2. Child(h, S, D, f, o)
      BY <1>2, <3>1, ChildIn
    <3> QED
      BY <3>2 DEF Child, o
  <2> QED
    BY <1>0, <2>1 DEF Under, Descends
<1> HIDE DEF A
<1>6. z \in A /\ \A j \in 1 .. Len(up) : j > i => up[j] \in A
  <2>1. CASE i = Len(up)
    <3>1. s = e /\ z = h[f][s] /\ z # Null
      <4>1. z = h[up[Len(up)]][e] /\ z \in N
        BY DEF CutOff
      <4> QED
        BY <1>0, <2>1, <4>1, NullIsNone
    <3>2. z \in A
      BY <1>1, <3>1 DEF A, Under
    <3> QED
      BY <1>1, <2>1, <3>2
  <2>2. CASE i # Len(up)
    <3>1. i + 1 \in 1 .. Len(up) /\ up[i + 1] = h[f][s] /\ up[i + 1] \in S
      BY <1>0, <1>1, <2>2
    <3>2. A = D[up[i + 1]]
      BY <3>1, NullIsNone DEF A, Under
    <3>3. ASSUME NEW j \in 1 .. Len(up), j > i PROVE up[j] \in A
      <4>1. j \in (i + 1) .. Len(up)
        BY <1>1, <3>3
      <4> QED
        BY <1>1, <3>1, <3>2, <4>1
    <3>4. z \in A
      BY <1>1, <3>1, <3>2
    <3> QED
      BY <3>3, <3>4
  <2> QED
    BY <2>1, <2>2
<1>7. ASSUME NEW j \in 1 .. Len(up) PROVE up[j] \notin B
  <2>1. CASE j > i
    BY <1>4, <1>6, <2>1
  <2>2. CASE ~ (j > i)
    <3>1. i \in j .. Len(up)
      BY <1>1, <2>2
    <3>2. f \in D[up[j]]
      BY <1>1, <3>1
    <3> HIDE DEF f
    <3> QED
      BY <1>4, <1>5, <3>2
  <2> QED
    BY <2>1, <2>2
<1>8. z \notin B
  BY <1>4, <1>6
<1>9. B \subseteq S
  BY <1>3, <1>4
<1>10. ASSUME NEW w \in B PROVE g[w] = h[w]
  <2>1. w \in S /\ w # z /\ \A j \in 1 .. Len(up) : w # up[j]
    BY <1>7, <1>8, <1>9
  <2> QED
    BY <2>1 DEF CutOff
<1> QED
  BY <1>7, <1>8, <1>10 DEF Untouched

(* The keys of the nodes under one, without z, are keys that were there. *)
LEMMA KeysUnder ==
  ASSUME NEW N, Nodal(N), NEW h \in Heaps(N), NEW S, S \subseteq N, NEW r,
         NEW D, Descends(h, S, D, r), NEW up, NEW e, NEW z, NEW g, CutOff(N, h, S, D, up, e, z, g),
         NEW c \in S, NEW s \in Sides, NEW k, OnSide(h, s, D[c], k)
  PROVE  OnSide(g, s, D[c] \ {z}, k)
<1>1. ASSUME NEW w \in D[c] \ {z} PROVE \E v \in D[c] : g[w].key = h[v].key
  <2>1. w \in S /\ w # z /\ D[w] \subseteq D[c]
    BY DEF Descends
  <2>2. \E v \in D[w] : g[w].key = h[v].key
    BY <2>1 DEF CutOff
  <2> QED
    BY <2>1, <2>2
<1> QED
  BY <1>1 DEF OnSide

(* What is beside f is still on its side. *)
LEMMA KeyFits ==
  ASSUME NEW N, Nodal(N), NEW h \in Heaps(N), NEW S, S \subseteq N, NEW r,
         NEW D, Descends(h, S, D, r), NEW g \in Heaps(N), NEW f \in S, NEW z, NEW s \in Sides,
         Fits(h, g, D, f, z, s),
         NEW B, B = Under(D, h[f][Other(s)]), \A w \in B : g[w] = h[w]
  PROVE  OnSide(g, Other(s), B, g[f].key)
<1>1. Beside(h, D, f, s, Under(D, h[f][s]), B) /\ Child(h, S, D, f, s)
  BY SidesOf, ChildIn
<1>2. OnSide(h, Other(s), B, h[f].key) /\ B \subseteq N /\ OnSide(h, s, Under(D, h[f][s]), h[f].key)
  <2>1. D[f] = {f} \union Under(D, h[f][s]) \union B /\ Parts(h, f, s, Under(D, h[f][s]), B) /\ D[f] \subseteq S
    BY <1>1 DEF Beside, Child
  <2>2. OnSide(h, Other(s), B, h[f].key) /\ OnSide(h, s, Under(D, h[f][s]), h[f].key)
    BY <2>1 DEF Parts
  <2> QED
    BY <2>1, <2>2
<1>3. CASE g[f].key = h[f].key
  BY <1>2, <1>3 DEF OnSide
<1>4. CASE B = {}
  BY <1>4 DEF OnSide
<1>5. CASE s = "left" /\ Lowered(h, g, D, f, z)
  <2>1. PICK y \in Under(D, h[f].left) : g[f].key = h[y].key
    BY <1>5 DEF Lowered
  <2>2. h[y].key < h[f].key
    BY <1>2, <1>5, <2>1 DEF OnSide
  <2>3. \A w \in B : h[w].key > h[f].key /\ h[w].key \in Int
    BY <1>2, <1>5, Childs DEF OnSide, Other
  <2>4. h[f].key \in Int /\ g[f].key \in Int
    BY Childs
  <2>5. \A w \in B : g[w].key > g[f].key
    BY <2>1, <2>2, <2>3, <2>4
  <2> QED
    BY <1>5, <2>5 DEF OnSide, Other
<1> QED
  BY <1>3, <1>4, <1>5 DEF Fits

LEMMA CutChain ==
  ASSUME NEW N, Nodal(N), NEW h \in Heaps(N), NEW S, S \subseteq N, NEW r,
         NEW D, Descends(h, S, D, r), NEW up, NEW e, NEW z, NEW g, CutOff(N, h, S, D, up, e, z, g)
  PROVE  ChainOf(N, g, up, [i \in 1 .. Len(up) |-> D[up[i]] \ {z}])
<1> DEFINE M == Len(up)
           last == up[M]
           T == [i \in 1 .. M |-> D[up[i]] \ {z}]
<1>1. /\ up \in Seq(S) /\ M \in Nat /\ M >= 1 /\ \A j \in 1 .. M : up[j] \in S
      /\ \A a \in 1 .. M : \A b \in a .. M : up[b] \in D[up[a]]
      /\ z \in S /\ D[z] = {z} /\ z # last /\ z \in D[last]
      /\ \A a \in 1 .. M : z \in D[up[a]]
  <2>1. CutAlong(S, D, up, z)
    BY CutRoute
  <2> QED
    BY <2>1 DEF CutAlong
<1>2. /\ Route(h, S, up) /\ e \in Sides /\ z = h[last][e] /\ FreeLeaf(h, z)
      /\ g \in Heaps(N) /\ SameHeights(h, g) /\ g[last][e] = Null /\ g[last][Other(e)] = h[last][Other(e)]
      /\ \A w \in S : w # last => SameSides(h, g, w)
      /\ Fits(h, g, D, last, z, e)
      /\ \A i \in 1 .. (M - 1) :
           \/ g[up[i]].key = h[up[i]].key
           \/ up[i + 1] = h[up[i]].left /\ Lowered(h, g, D, up[i], z)
  BY DEF CutOff
<1>3. T \in [1 .. M -> SUBSET N] /\ \A i \in 1 .. M : T[i] = D[up[i]] \ {z}
  <2>1. \A i \in 1 .. M : D[up[i]] \subseteq S
    BY <1>1 DEF Descends
  <2> QED
    BY <2>1
<1> HIDE DEF T
<1>4. DOMAIN h = N /\ Null \notin N /\ \A x \in S : x \in D[x]
  BY NullIsNone DEF Heaps, Descends, NodeRight
<1>5. ASSUME NEW i \in 1 .. (M - 1)
      PROVE  up[i + 1] \in T[i + 1] /\ Above(g, up[i], up[i + 1], T[i + 1], T[i])
  <2>0. i \in 1 .. M /\ i + 1 \in 1 .. M /\ i # M /\ M \in (i + 1) .. M
    BY <1>1
  <2> DEFINE f == up[i]
             c == up[i + 1]
             U == D[c] \ {z}
             V == D[f] \ {z}
  <2>1. /\ f \in S /\ c \in S /\ c # Null /\ T[i] = V /\ T[i + 1] = U /\ last \in D[c] /\ z \in D[c]
    BY <1>1, <1>3, <1>4, <2>0
  <2>2. PICK s \in Sides : /\ c = h[f][s]
                           /\ g[f].key = h[f].key \/ (c = h[f].left /\ Lowered(h, g, D, f, z))
    <3>1. \E s \in Sides : c = h[f][s]
      BY <1>2 DEF Route
    <3> QED
      BY <1>2, <3>1
  <2> DEFINE B == Under(D, h[f][Other(s)])
  <2>3. z \notin B /\ \A w \in B : g[w] = h[w]
    <3>1. Fork(h, D, up, e, i, s, B)
      BY <2>0, <2>2 DEF Fork
    <3>2. i \in 1 .. Len(up)
      BY <2>0
    <3> HIDE DEF M, B
    <3>3. Untouched(h, g, up, z, B)
      BY <3>1, <3>2, BesideRoute
    <3> QED
      BY <3>3 DEF Untouched
  <2>4. Beside(h, D, f, s, D[c], B) /\ D[f] \subseteq S
    <3> HIDE DEF f, c
    <3>0. f \in S
      BY <2>1
    <3>1. /\ Beside(h, D, f, s, Under(D, h[f][s]), Under(D, h[f][Other(s)]))
          /\ D[f] \subseteq S
      BY <3>0, SidesOf
    <3>2. Under(D, h[f][s]) = D[c]
      BY <2>1, <2>2 DEF Under
    <3> QED
      BY <3>1, <3>2
  <2> DEFINE C == B
  <2>c. C = Under(D, h[f][Other(s)])
    OBVIOUS
  <2> HIDE DEF f, c, B
  <2>5. /\ D[f] = {f} \union D[c] \union B /\ f \notin D[c] \union B /\ D[c] \intersect B = {}
        /\ OnSide(h, s, D[c], h[f].key) /\ f # last /\ f # z
    <3>1. D[f] = {f} \union D[c] \union B /\ Parts(h, f, s, D[c], B)
      BY <2>4 DEF Beside
    <3>2. f \notin D[c] \union B /\ D[c] \intersect B = {} /\ OnSide(h, s, D[c], h[f].key)
      BY <3>1 DEF Parts
    <3> HIDE DEF last
    <3> QED
      BY <2>1, <3>1, <3>2
  <2>6. OnSide(g, s, U, g[f].key)
    <3>1. CASE g[f].key = h[f].key
      <4> DEFINE k == h[f].key
      <4>1. OnSide(h, s, D[c], k)
        BY <2>5
      <4> HIDE DEF k
      <4>2. OnSide(g, s, D[c] \ {z}, k)
        BY <2>1, <4>1, KeysUnder
      <4> QED
        BY <3>1, <4>2 DEF k
    <3>2. CASE g[f].key # h[f].key
      <4>1. c = h[f].left /\ Lowered(h, g, D, f, z)
        BY <2>2, <3>2
      <4>2. Under(D, h[f].left) = D[c]
        BY <2>1, <4>1 DEF Under
      <4>3. \A w \in U : g[w].key < g[f].key
        BY <4>1, <4>2 DEF Lowered
      <4>4. s = "left"
        <5>1. CASE s = "right"
          <6>1. h[f][Other(s)] = c
            BY <4>1, <5>1 DEF Other
          <6>2. B = D[c]
            BY <2>1, <6>1 DEF B, Under
          <6> QED
            BY <1>4, <2>1, <2>5, <6>2
        <5> QED
          BY <5>1 DEF Sides
      <4> QED
        BY <4>3, <4>4 DEF OnSide
    <3> QED
      BY <3>1, <3>2
  <2>7. OnSide(g, Other(s), B, g[f].key)
    <3>1. Fits(h, g, D, f, z, s)
      <4>1. CASE g[f].key = h[f].key
        BY <4>1 DEF Fits
      <4>2. CASE g[f].key # h[f].key
        <5>1. c = h[f].left /\ Lowered(h, g, D, f, z)
          BY <2>2, <4>2
        <5>2. s = "left"
          <6>1. CASE s = "right"
            <7>1. h[f][Other(s)] = c
              BY <5>1, <6>1 DEF Other
            <7>2. B = D[c]
              BY <2>1, <7>1 DEF B, Under
            <7> QED
              BY <1>4, <2>1, <2>5, <7>2
          <6> QED
            BY <6>1 DEF Sides
        <5> QED
          BY <5>1, <5>2 DEF Fits
      <4> QED
        BY <4>1, <4>2
    <3>2. B = Under(D, h[f][Other(s)])
      BY DEF B
    <3> QED
      BY <1>2, <2>1, <2>3, <3>1, <3>2, KeyFits
  <2>8. Above(g, f, h[f][s], U, V)
    <3>1. B = Under(D, h[f][Other(s)]) /\ SameSides(h, g, f) /\ h[f][s] # Null
      BY <1>2, <2>1, <2>2, <2>5 DEF B
    <3>2. U \subseteq N /\ f \notin U /\ U \intersect B = {} /\ V = {f} \union U \union B
      BY <2>3, <2>4, <2>5
    <3> HIDE DEF U, V
    <3> QED
      <4>1. KeptAbove(h, g, D, f, s, U, V, B)
        BY <1>2, <2>3, <2>6, <2>7, <3>1, <3>2 DEF KeptAbove
      <4> QED
        BY <1>2, <2>1, <4>1, StaysAbove
  <2>9. c \in U
    <3>1. z # c
      <4>1. CASE z = c
        <5>1. last \in {z}
          BY <1>1, <2>1, <4>1
        <5> QED
          BY <1>1, <5>1
      <4> QED
        BY <4>1
    <3> QED
      BY <1>4, <2>1, <3>1
  <2> QED
    BY <2>1, <2>2, <2>8, <2>9 DEF c, f
<1>6. Bottom(g, last, T[M])
  <2>0. M \in 1 .. M /\ last \in S /\ last \in N /\ T[M] = D[last] \ {z}
    BY <1>1, <1>3
  <2> DEFINE b == h[last][Other(e)]
             B == Under(D, b)
             k == Height(h, b)
  <2>1. z \notin B /\ \A w \in B : g[w] = h[w]
    <3> DEFINE i == Len(up)
    <3>1. i \in 1 .. Len(up) /\ Fork(h, D, up, e, i, e, B)
      BY <2>0 DEF Fork
    <3> HIDE DEF i, B
    <3>2. Untouched(h, g, up, z, B)
      BY <1>2, <3>1, BesideRoute
    <3> QED
      BY <3>2 DEF Untouched
  <2>2. Beside(h, D, last, e, {z}, B) /\ D[last] \subseteq S
    <3> HIDE DEF last
    <3>1. Beside(h, D, last, e, Under(D, h[last][e]), B) /\ D[last] \subseteq S
      BY <1>2, <2>0, SidesOf
    <3>2. Under(D, h[last][e]) = {z}
      BY <1>1, <1>2, <1>4 DEF Under
    <3> QED
      BY <3>1, <3>2
  <2>3. OnSide(g, Other(e), B, g[last].key)
    <3> DEFINE C == B
    <3>1. C = Under(D, h[last][Other(e)]) /\ \A w \in C : g[w] = h[w]
      BY <2>1
    <3> HIDE DEF C, last
    <3>2. OnSide(g, Other(e), C, g[last].key)
      BY <1>2, <2>0, <3>1, KeyFits
    <3> QED
      BY <3>2 DEF C
  <2>4. /\ D[last] = {last} \union {z} \union B /\ last \notin B /\ AVL(h, B, b) /\ EvenAt(h, last, e)
        /\ B \subseteq N
    <3>1. D[last] = {last} \union {z} \union B /\ Parts(h, last, e, {z}, B) /\ EvenAt(h, last, e)
      BY <2>2 DEF Beside
    <3>2. last \notin B /\ AVL(h, B, b)
      BY <3>1 DEF Parts
    <3> HIDE DEF B, last
    <3> QED
      BY <2>2, <3>1, <3>2
  <2> HIDE DEF last
  <2>5. k \in Nat /\ k <= 2 /\ h[last].height = 1 + Larger(1, k) /\ b \in N \union {Null}
    <3>1. b \in N \union {Null}
      BY <1>2, <2>0, Childs DEF Sides, Other
    <3>2. k \in Nat
      BY <3>1, HeightIs
    <3>3. Height(h, z) = 1
      BY <1>1, <1>2, <1>4 DEF Height, FreeLeaf
    <3> QED
      BY <1>2, <2>4, <3>1, <3>2, <3>3 DEF EvenAt
  <2>6. Height(g, g[last][e]) = 0 /\ Height(g, g[last][Other(e)]) = k /\ g[last].height = h[last].height
    <3>1. Height(g, b) = Height(h, b)
      BY <1>2, <1>4, <2>5 DEF Height, SameHeights
    <3>2. g[last].height = h[last].height
      BY <1>2, <1>4, <2>0 DEF SameHeights
    <3> QED
      BY <1>2, <3>1, <3>2 DEF Height
  <2>7. Parts(g, last, e, {}, B)
    <3>1. AVL(g, {}, g[last][e])
      BY <1>2, EmptyTree
    <3> HIDE DEF b, B
    <3>2. AVL(g, B, b)
      BY <1>2, <2>1, <2>4, Frame
    <3> QED
      BY <1>2, <2>3, <2>4, <3>1, <3>2 DEF Parts, OnSide, b
  <2>8. T[M] = {last} \union {} \union B
    <3> HIDE DEF B
    <3> QED
      BY <1>1, <2>0, <2>1, <2>4
  <2>9. Bottom(g, last, {last} \union {} \union B)
    <3> DEFINE m == 0
               E == {}
    <3>1. /\ m \in Nat /\ m = Height(g, g[last][e]) /\ k = Height(g, g[last][Other(e)])
          /\ m <= k + 2 /\ k <= m + 2
      BY <2>5, <2>6
    <3>2. \A l \in Grown(m, k) : Near(l, g[last].height)
      BY <2>5, <2>6 DEF Grown, Near, Larger
    <3>3. E \subseteq N /\ Parts(g, last, e, E, B)
      BY <2>7
    <3> HIDE DEF m, k, B, b, E
    <3>4. Bottom(g, last, {last} \union E \union B)
      BY <1>2, <2>0, <2>4, <2>5, <3>1, <3>2, <3>3, BottomAt
    <3> QED
      BY <3>4 DEF E
  <2> QED
    BY <2>8, <2>9
<1>7. ChainOf(N, g, up, T)
  <2>1. up \in Seq(N) /\ up # <<>>
    BY <1>1
  <2> QED
    BY <2>1, <1>3, <1>5, <1>6 DEF ChainOf
<1> QED
  BY <1>7 DEF T

(* Nodes of a tree: which are leaves, and what is below another one. *)
LeafRight(h, x) ==
  /\ h[x].height >= 1
  /\ h[x].height = 1 <=> h[x].left = Null /\ h[x].right = Null
  /\ \A s \in Sides : h[x][Other(s)] = Null /\ h[x][s] # Null => FreeLeaf(h, h[x][s])
LEMMA LeavesAre ==
  ASSUME NEW N, Nodal(N), NEW h \in Heaps(N), NEW S, S \subseteq N, NEW r,
         NEW D, Descends(h, S, D, r), NEW x \in S
  PROVE  LeafRight(h, x)
<1>1. ASSUME NEW y \in S
      PROVE  /\ h[y].height >= 1 /\ h[y].left \in S \union {Null} /\ h[y].right \in S \union {Null}
             /\ h[y].height = 1 + Larger(Height(h, h[y].left), Height(h, h[y].right))
             /\ Height(h, h[y].left) \in Nat /\ Height(h, h[y].right) \in Nat
             /\ Balance(h, y) \in {-1, 0, 1}
  <2>1. h[y].left \in N \union {Null} /\ h[y].right \in N \union {Null}
    BY Childs
  <2>2. Height(h, h[y].left) \in Nat /\ Height(h, h[y].right) \in Nat
    BY <2>1, HeightIs
  <2>3. /\ h[y].left \in S \union {Null} /\ h[y].right \in S \union {Null} /\ Balance(h, y) \in {-1, 0, 1}
        /\ h[y].height = 1 + Larger(Height(h, h[y].left), Height(h, h[y].right))
    BY DEF Descends, NodeRight, Even
  <2> QED
    BY <2>2, <2>3 DEF Larger
<1>2. ASSUME NEW y \in S \union {Null}
      PROVE  /\ y = Null => Height(h, y) = 0
             /\ y # Null => Height(h, y) = h[y].height /\ Height(h, y) >= 1
  BY <1>1 DEF Height
<1>3. ASSUME NEW y \in S PROVE h[y].height = 1 <=> h[y].left = Null /\ h[y].right = Null
  <2>1. /\ h[y].left = Null => Height(h, h[y].left) = 0
        /\ h[y].left # Null => Height(h, h[y].left) >= 1
    BY <1>1, <1>2
  <2>2. /\ h[y].right = Null => Height(h, h[y].right) = 0
        /\ h[y].right # Null => Height(h, h[y].right) >= 1
    BY <1>1, <1>2
  <2> QED
    BY <1>1, <2>1, <2>2 DEF Larger
<1>4. ASSUME NEW s \in Sides, h[x][Other(s)] = Null, h[x][s] # Null PROVE FreeLeaf(h, h[x][s])
  <2>1. EvenAt(h, x, s)
    BY EvenSides DEF Descends, NodeRight
  <2>2. h[x][s] \in S
    BY <1>1, <1>4 DEF Sides
  <2> DEFINE c == h[x][s]
  <2>3. Height(h, c) <= 1
    <3>1. Height(h, h[x][Other(s)]) = 0
      BY <1>4, <1>2
    <3> QED
      BY <2>1, <3>1 DEF EvenAt
  <2> HIDE DEF c
  <2>4. c \in S /\ c # Null
    BY <1>4, <2>2 DEF c
  <2>5. h[c].height = 1
    BY <1>1, <1>2, <2>3, <2>4 DEF Height, Larger
  <2>6. FreeLeaf(h, c)
    BY <1>3, <2>4, <2>5 DEF FreeLeaf
  <2> QED
    BY <2>6 DEF c
<1> QED
  BY <1>1, <1>3, <1>4 DEF LeafRight

(* The nodes of a way are different. *)
LEMMA WayDiffers ==
  ASSUME NEW N, Nodal(N), NEW h \in Heaps(N), NEW S, S \subseteq N, NEW r,
         NEW D, Descends(h, S, D, r), NEW q, Route(h, S, q)
  PROVE  \A i \in 1 .. Len(q) : \A j \in (i + 1) .. Len(q) : q[j] # q[i]
<1>1. /\ \A i \in 1 .. Len(q) : q[i] \in S
      /\ \A i \in 1 .. Len(q) : \A j \in i .. Len(q) : q[j] \in D[q[i]]
  BY RouteDown
<1>2. ASSUME NEW i \in 1 .. Len(q), NEW j \in (i + 1) .. Len(q) PROVE q[j] # q[i]
  <2>0. Len(q) \in Nat /\ i \in 1 .. (Len(q) - 1) /\ i + 1 \in 1 .. Len(q) /\ j \in (i + 1) .. Len(q)
    BY DEF Route
  <2>1. PICK s \in Sides : q[i + 1] = h[q[i]][s]
    BY <2>0 DEF Route
  <2>2. q[i] \in S /\ q[i + 1] \in S /\ q[j] \in D[q[i + 1]]
    BY <1>1, <2>0
  <2> DEFINE f == q[i]
             A == Under(D, h[f][s])
             B == Under(D, h[f][Other(s)])
  <2> HIDE DEF f
  <2>3. f \in S
    BY <2>2 DEF f
  <2>4. Beside(h, D, f, s, A, B)
    BY <2>3, SidesOf
  <2>5. f \notin A
    BY <2>4 DEF Beside, Parts
  <2>6. A = D[q[i + 1]]
    BY <2>1, <2>2, NullIsNone DEF f, Under
  <2> QED
    BY <2>2, <2>5, <2>6 DEF f
<1> QED
  BY <1>2

(* Down to the node that has a key. *)
Holds(h, D, f, x, key) == x \in D[f] /\ h[x].key = key
LEMMA Onward ==
  ASSUME NEW N, Nodal(N), NEW h \in Heaps(N), NEW S, S \subseteq N, NEW r,
         NEW D, Descends(h, S, D, r), NEW f \in S, NEW x, NEW key, Holds(h, D, f, x, key)
  PROVE  IF h[f].key = key THEN x = f
         ELSE LET c == h[f][Toward(h, key, f)] IN c \in S /\ Holds(h, D, c, x, key)
<1> DEFINE A == Under(D, h[f].left)
           B == Under(D, h[f].right)
<1>1. NodeRight(h, D, f) /\ h[f].left \in S \union {Null} /\ h[f].right \in S \union {Null} /\ D \in [S -> SUBSET S]
  BY DEF Descends
<1>2. /\ D[f] = {f} \union A \union B /\ A \subseteq S /\ B \subseteq S
      /\ (\A y \in A : h[y].key < h[f].key) /\ (\A y \in B : h[y].key > h[f].key)
  BY <1>1 DEF NodeRight, OnSide, Under
<1>3. h[f].key \in Int /\ \A y \in S : h[y].key \in Int
  BY Childs
<1>4. /\ A # {} => h[f].left \in S /\ A = D[h[f].left]
      /\ B # {} => h[f].right \in S /\ B = D[h[f].right]
  BY <1>1 DEF Under
<1> HIDE DEF A, B
<1>5. x \in D[f] /\ h[x].key = key
  BY DEF Holds
<1>6. CASE x = f
  BY <1>5, <1>6
<1>7. CASE x \in A
  <2>1. h[x].key < h[f].key /\ key < h[f].key /\ key \in Int
    BY <1>2, <1>3, <1>5, <1>7
  <2>2. key # h[f].key /\ Toward(h, key, f) = "left"
    BY <1>3, <2>1 DEF Toward
  <2>3. h[f].left \in S /\ x \in D[h[f].left]
    BY <1>4, <1>7
  <2> QED
    BY <1>5, <2>2, <2>3 DEF Holds
<1>8. CASE x \in B
  <2>1. h[x].key > h[f].key /\ key > h[f].key /\ key \in Int
    BY <1>2, <1>3, <1>5, <1>8
  <2>2. key # h[f].key /\ Toward(h, key, f) = "right"
    BY <1>3, <2>1 DEF Toward
  <2>3. h[f].right \in S /\ x \in D[h[f].right]
    BY <1>4, <1>8
  <2> QED
    BY <1>5, <2>2, <2>3 DEF Holds
<1> QED
  BY <1>2, <1>5, <1>6, <1>7, <1>8

(* The way to a key that the tree has. *)
WayTo(h, S, D, key, q, x) ==
  /\ Route(h, S, q) /\ q[Len(q)] = x
  /\ \A i \in 1 .. (Len(q) - 1) : h[q[i]].key # key
  /\ \A i \in 1 .. Len(q) : x \in D[q[i]]
Finds(h, S, D, key, r, x) ==
  WayTo(h, S, D, key, PathTo(h, r, key, FALSE), x) /\ PathTo(h, r, key, FALSE)[1] = r
LEMMA WayToKey ==
  ASSUME NEW N, Nodal(N), NEW h \in Heaps(N), Grounded(h), NEW S, S \subseteq N, NEW r,
         NEW D, Descends(h, S, D, r), NEW x \in S, NEW key, key = h[x].key
  PROVE  Finds(h, S, D, key, r, x)
<1> DEFINE c == Chosen(h, key, FALSE)
           q == PathTo(h, r, key, FALSE)
<1>1. /\ r \in S /\ r # Null /\ r \in N \union {Null} /\ DOMAIN h = N /\ FALSE \in BOOLEAN
      /\ D[r] = S /\ Null \notin N
  BY NullIsNone DEF Descends, Heaps, Under
<1>2. Trail(N, q, r, c)
  BY <1>1, PathToIs
<1>3. /\ \A y \in S : h[y].key # key => c[y] = h[y][Toward(h, key, y)]
      /\ \A y \in S : h[y].key = key => c[y] = Null
  BY <1>1 DEF Chosen, Toward
<1>4. \A y \in S : c[y] \in S \union {Null}
  BY <1>1 DEF Descends, Chosen
<1> HIDE DEF c, q
<1>5. /\ q \in Seq(S) /\ q # <<>> /\ q[1] = r /\ c[q[Len(q)]] = Null
      /\ \A i \in 1 .. (Len(q) - 1) : q[i + 1] = c[q[i]]
      /\ Len(q) \in Nat /\ Len(q) >= 1
  <2>1. r \in S
    BY <1>1
  <2> QED
    BY <2>1, <1>2, <1>4, TrailStays
<1>6. \A i \in 1 .. Len(q) : q[i] \in S
  BY <1>5
<1>7. ASSUME NEW i \in 1 .. (Len(q) - 1)
      PROVE  h[q[i]].key # key /\ q[i + 1] = h[q[i]][Toward(h, key, q[i])] /\ q[i + 1] # Null
  <2>1. i \in 1 .. Len(q) /\ q[i] \in S /\ i + 1 \in 1 .. Len(q) /\ q[i + 1] \in S
    BY <1>5, <1>6
  <2>2. q[i + 1] = c[q[i]] /\ q[i + 1] # Null
    BY <1>1, <1>5, <2>1
  <2> QED
    BY <1>3, <2>1, <2>2
<1> DEFINE Good == {j \in Nat : j + 1 <= Len(q) => Holds(h, D, q[j + 1], x, key)}
<1>8. 0 \in Good
  BY <1>1, <1>5 DEF Holds
<1>9. ASSUME NEW j \in Nat, j \in Good PROVE (j + 1) \in Good
  <2> SUFFICES ASSUME (j + 1) + 1 <= Len(q) PROVE Holds(h, D, q[(j + 1) + 1], x, key)
    OBVIOUS
  <2>1. j + 1 \in 1 .. (Len(q) - 1) /\ j + 1 \in 1 .. Len(q) /\ Holds(h, D, q[j + 1], x, key)
    BY <1>5, <1>9
  <2> DEFINE f == q[j + 1]
  <2>2. /\ f \in S /\ Holds(h, D, f, x, key) /\ h[f].key # key
        /\ q[(j + 1) + 1] = h[f][Toward(h, key, f)]
    BY <1>6, <1>7, <2>1
  <2> HIDE DEF f
  <2>3. Holds(h, D, h[f][Toward(h, key, f)], x, key)
    BY <2>2, Onward
  <2> QED
    BY <2>2, <2>3
<1> HIDE DEF Good
<1>10. Nat \subseteq Good
  BY <1>8, <1>9, InductionOn
<1>11. ASSUME NEW i \in 1 .. Len(q) PROVE Holds(h, D, q[i], x, key)
  <2>1. i - 1 \in Good /\ (i - 1) + 1 = i /\ i <= Len(q)
    BY <1>5, <1>10
  <2> QED
    BY <2>1 DEF Good
<1>12. q[Len(q)] = x
  <2> DEFINE f == q[Len(q)]
  <2>1. f \in S /\ Holds(h, D, f, x, key) /\ c[f] = Null
    BY <1>5, <1>6, <1>11
  <2> HIDE DEF f
  <2>2. h[f].key = key
    <3>1. h[f].key # key => h[f][Toward(h, key, f)] \in S
      BY <2>1, Onward
    <3> QED
      BY <1>1, <1>3, <2>1, <3>1
  <2>3. x = f
    BY <2>1, <2>2, Onward
  <2> QED
    BY <2>3 DEF f
<1>13. \A y : Toward(h, key, y) \in Sides
  BY DEF Toward, Sides
<1>14. Route(h, S, q)
  BY <1>5, <1>7, <1>13 DEF Route
<1>15. WayTo(h, S, D, key, q, x)
  BY <1>7, <1>11, <1>12, <1>14 DEF WayTo, Holds
<1> QED
  BY <1>5, <1>15 DEF q, Finds

(* Every other node has another key. *)
LEMMA KeysDiffer ==
  ASSUME NEW N, Nodal(N), NEW h \in Heaps(N), Grounded(h), NEW S, S \subseteq N, NEW r,
         NEW D, Descends(h, S, D, r), NEW x \in S, NEW y \in S, h[x].key = h[y].key
  PROVE  x = y
<1> DEFINE key == h[x].key
<1>1. key = h[x].key /\ key = h[y].key
  OBVIOUS
<1> HIDE DEF key
<1>2. Finds(h, S, D, key, r, x)
  BY <1>1, WayToKey
<1>3. Finds(h, S, D, key, r, y)
  BY <1>1, WayToKey
<1> QED
  BY <1>2, <1>3 DEF Finds, WayTo

(* Down the right children from c: the node there with the greatest key.   *)
Greatest(h, D, c, y) == y \in D[c] /\ \A w \in D[c] : w # y => h[w].key < h[y].key
SpineRight(h, S, D, c, q) ==
  /\ Route(h, S, q) /\ q[1] = c /\ h[q[Len(q)]].right = Null
  /\ \A i \in 1 .. (Len(q) - 1) : q[i + 1] = h[q[i]].right
  /\ Greatest(h, D, c, q[Len(q)])
LEMMA SpineDown ==
  ASSUME NEW N, Nodal(N), NEW h \in Heaps(N), Grounded(h), NEW S, S \subseteq N, NEW r,
         NEW D, Descends(h, S, D, r), NEW c \in S
  PROVE  SpineRight(h, S, D, c, RightSpine(h, c))
<1> DEFINE going == Rightward(h)
           q == RightSpine(h, c)
<1>1. c \in N \union {Null} /\ DOMAIN h = N /\ Null \notin N
  BY NullIsNone DEF Heaps
<1>2. Trail(N, q, c, going)
  BY <1>1, SpineIs
<1>3. \A y \in S : going[y] = h[y].right
  BY <1>1 DEF Rightward
<1>4. \A y \in S : going[y] \in S \union {Null}
  BY <1>3 DEF Descends
<1> HIDE DEF going, q
<1>5. /\ q \in Seq(S) /\ q # <<>> /\ q[1] = c /\ going[q[Len(q)]] = Null
      /\ \A i \in 1 .. (Len(q) - 1) : q[i + 1] = going[q[i]]
      /\ Len(q) \in Nat /\ Len(q) >= 1
  BY <1>2, <1>4, TrailStays
<1>6. \A i \in 1 .. Len(q) : q[i] \in S
  BY <1>5
<1>7. /\ h[q[Len(q)]].right = Null
      /\ \A i \in 1 .. (Len(q) - 1) : q[i + 1] = h[q[i]].right /\ q[i + 1] # Null /\ q[i + 1] \in S
  <2>1. ASSUME NEW i \in 1 .. (Len(q) - 1)
        PROVE  q[i + 1] = h[q[i]].right /\ q[i + 1] # Null /\ q[i + 1] \in S
    <3>1. i \in 1 .. Len(q) /\ q[i] \in S /\ i + 1 \in 1 .. Len(q) /\ q[i + 1] \in S
      BY <1>5, <1>6
    <3> QED
      BY <1>1, <1>3, <1>5, <3>1
  <2>2. h[q[Len(q)]].right = Null
    <3>1. q[Len(q)] \in S
      BY <1>5, <1>6
    <3> QED
      BY <1>3, <1>5, <3>1
  <2> QED
    BY <2>1, <2>2
<1> DEFINE Beyond(u) == \A w \in D[c] : w \in D[u] \/ \A v \in D[u] : h[w].key < h[v].key
           Good == {j \in Nat : j + 1 <= Len(q) => q[j + 1] \in D[c] /\ Beyond(q[j + 1])}
<1>k. \A y \in S : h[y].key \in Int
  BY Childs
<1>m. D \in [S -> SUBSET S] /\ \A y \in S : y \in D[y] /\ \A z \in D[y] : D[z] \subseteq D[y]
  BY DEF Descends, NodeRight
<1>8. 0 \in Good
  BY <1>5, <1>m
<1>9. ASSUME NEW j \in Nat, j \in Good PROVE (j + 1) \in Good
  <2> SUFFICES ASSUME (j + 1) + 1 <= Len(q) PROVE q[(j + 1) + 1] \in D[c] /\ Beyond(q[(j + 1) + 1])
    OBVIOUS
  <2> DEFINE f == q[j + 1]
             g == q[(j + 1) + 1]
  <2>1. j + 1 \in 1 .. (Len(q) - 1) /\ j + 1 \in 1 .. Len(q) /\ f \in D[c] /\ Beyond(f)
    BY <1>5, <1>9
  <2>2. f \in S /\ g = h[f].right /\ g # Null /\ g \in S
    BY <1>6, <1>7, <2>1
  <2> HIDE DEF f, g, Good
  <2> DEFINE A == Under(D, h[f].left)
  <2>3. /\ D[f] = {f} \union A \union D[g] /\ A \subseteq S
        /\ \A w \in A : h[w].key < h[f].key
        /\ \A w \in D[g] : h[w].key > h[f].key
    <3>1. NodeRight(h, D, f) /\ h[f].left \in S \union {Null}
      BY <2>2 DEF Descends
    <3>2. A \subseteq S /\ Under(D, h[f].right) = D[g]
      BY <3>1, <2>2, <1>m DEF Under
    <3> QED
      BY <3>1, <3>2 DEF NodeRight, OnSide
  <2> HIDE DEF A
  <2>4. D[g] \subseteq S /\ D[c] \subseteq S /\ D[f] \subseteq D[c] /\ g \in D[g] /\ D[g] \subseteq D[f]
    BY <1>m, <2>1, <2>2, <2>3
  <2>5. ASSUME NEW w \in D[c], w \notin D[g], NEW v \in D[g] PROVE h[w].key < h[v].key
    <3>1. v \in D[f] /\ v \in S /\ w \in S /\ f \in S /\ h[f].key < h[v].key
      BY <2>2, <2>3, <2>4
    <3>k. h[v].key \in Int /\ h[w].key \in Int /\ h[f].key \in Int
      BY <1>k, <3>1
    <3>2. CASE w \notin D[f]
      BY <2>1, <3>1, <3>2
    <3>3. CASE w = f
      BY <3>1, <3>3
    <3>4. CASE w \in A
      <4>1. h[w].key < h[f].key
        BY <2>3, <3>4
      <4> QED
        BY <3>1, <3>k, <4>1
    <3> QED
      BY <2>3, <2>5, <3>2, <3>3, <3>4
  <2>6. g \in D[c] /\ Beyond(g)
    BY <2>4, <2>5
  <2> QED
    BY <2>6 DEF g
<1> HIDE DEF Good
<1>10. Nat \subseteq Good
  BY <1>8, <1>9, InductionOn
<1>11. q[Len(q)] \in D[c] /\ Beyond(q[Len(q)])
  <2>1. Len(q) - 1 \in Good /\ (Len(q) - 1) + 1 = Len(q) /\ Len(q) <= Len(q)
    BY <1>5, <1>10
  <2> QED
    BY <2>1 DEF Good
<1>12. Greatest(h, D, c, q[Len(q)])
  <2> DEFINE y == q[Len(q)]
  <2>1. y \in S /\ h[y].right = Null /\ y \in D[c] /\ Beyond(y)
    BY <1>5, <1>6, <1>7, <1>11
  <2> HIDE DEF y
  <2> DEFINE A == Under(D, h[y].left)
  <2>2. D[y] = {y} \union A /\ \A w \in A : h[w].key < h[y].key
    <3>1. NodeRight(h, D, y)
      BY <2>1 DEF Descends
    <3>2. Under(D, h[y].right) = {}
      BY <2>1 DEF Under
    <3> QED
      BY <3>1, <3>2 DEF NodeRight, OnSide
  <2>3. \A w \in D[c] : w # y => h[w].key < h[y].key
    BY <2>1, <2>2
  <2>4. Greatest(h, D, c, y)
    BY <2>1, <2>3 DEF Greatest
  <2> QED
    BY <2>4 DEF y
<1>13. Route(h, S, q)
  <2>1. \A i \in 1 .. (Len(q) - 1) : q[i + 1] = h[q[i]]["right"]
    BY <1>7
  <2> QED
    BY <1>5, <2>1 DEF Route, Sides
<1> QED
  BY <1>5, <1>7, <1>12, <1>13 DEF q, SpineRight

(* What Unchain does: chain[i] takes what the next one of the chain holds. *)
AfterIn(chain, i) == IF i = Len(chain) THEN 1 ELSE i + 1
PlaceIn(chain, n) == CHOOSE i \in DOMAIN chain : chain[i] = n
ShiftOf(h, chain) ==
  [n \in DOMAIN h |->
     IF n \in ToSet(chain)
     THEN [h[n] EXCEPT !.key = h[chain[AfterIn(chain, PlaceIn(chain, n))]].key,
                       !.info = h[chain[AfterIn(chain, PlaceIn(chain, n))]].info]
     ELSE h[n]]
CutAt(h, f, z) == [h EXCEPT ![f][IF h[f].left = z THEN "left" ELSE "right"] = Null]
LEMMA UnchainIs ==
  ASSUME NEW h, NEW chain, NEW up
  PROVE  Unchain(h, chain, up) =
           IF up = <<>> THEN [h |-> h, top |-> Null, node |-> Last(chain)]
           ELSE [GlobalRebalance(CutAt(ShiftOf(h, chain), Last(up), Last(chain)), up)
                   EXCEPT !.node = Last(chain)]
  BY DEF Unchain, ShiftOf, CutAt, AfterIn, PlaceIn

ChainIn(S, chain) ==
  /\ chain \in Seq(S) /\ chain # <<>>
  /\ \A i, j \in 1 .. Len(chain) : chain[i] = chain[j] => i = j
Shifts(N, h, chain, p) ==
  /\ p \in Heaps(N) /\ SameHeights(h, p)
  /\ \A n \in N : SameSides(h, p, n) /\ ((\A i \in 1 .. Len(chain) : n # chain[i]) => p[n] = h[n])
  /\ \A i \in 1 .. Len(chain) : /\ p[chain[i]].key = h[chain[AfterIn(chain, i)]].key
                                /\ p[chain[i]].info = h[chain[AfterIn(chain, i)]].info
LEMMA ShiftIs ==
  ASSUME NEW N, Nodal(N), NEW h \in Heaps(N), NEW chain, ChainIn(N, chain)
  PROVE  Shifts(N, h, chain, ShiftOf(h, chain))
<1> DEFINE p == ShiftOf(h, chain)
           nx(n) == chain[AfterIn(chain, PlaceIn(chain, n))]
<1>1. /\ chain \in Seq(N) /\ Len(chain) \in Nat /\ Len(chain) >= 1 /\ DOMAIN chain = 1 .. Len(chain)
      /\ \A i \in 1 .. Len(chain) : chain[i] \in N /\ AfterIn(chain, i) \in 1 .. Len(chain)
      /\ \A i, j \in 1 .. Len(chain) : chain[i] = chain[j] => i = j
  <2>1. chain \in Seq(N) /\ chain # <<>> /\ \A i, j \in 1 .. Len(chain) : chain[i] = chain[j] => i = j
    BY DEF ChainIn
  <2>2. Len(chain) \in Nat /\ Len(chain) >= 1 /\ DOMAIN chain = 1 .. Len(chain) /\ \A i \in 1 .. Len(chain) : chain[i] \in N
    BY <2>1
  <2>3. ASSUME NEW i \in 1 .. Len(chain) PROVE AfterIn(chain, i) \in 1 .. Len(chain)
    <3> DEFINE n == Len(chain)
    <3>1. n \in Nat /\ n >= 1 /\ i \in 1 .. n /\ AfterIn(chain, i) = IF i = n THEN 1 ELSE i + 1
      BY <2>2 DEF AfterIn
    <3> HIDE DEF n
    <3>2. AfterIn(chain, i) \in 1 .. n
      BY <3>1
    <3> QED
      BY <3>2 DEF n
  <2> QED
    BY <2>1, <2>2, <2>3
<1>2. \A n \in N : n \in ToSet(chain) <=> \E i \in 1 .. Len(chain) : chain[i] = n
  BY <1>1 DEF ToSet
<1>3. \A i \in 1 .. Len(chain) : PlaceIn(chain, chain[i]) = i /\ nx(chain[i]) = chain[AfterIn(chain, i)]
  BY <1>1 DEF PlaceIn
<1>4. \A n \in N : n \in ToSet(chain) => nx(n) \in N
  BY <1>1, <1>2, <1>3
<1>5. DOMAIN h = N /\ \A n \in N : h[n] \in NodeRecs(N) /\ h[n].key \in Int /\ h[n].info \in Int
  BY Childs DEF Heaps
<1>6. p = [n \in N |-> IF n \in ToSet(chain) THEN [h[n] EXCEPT !.key = h[nx(n)].key, !.info = h[nx(n)].info] ELSE h[n]]
  BY <1>5 DEF ShiftOf
<1> HIDE DEF p, nx
<1>7. ASSUME NEW n \in N, n \notin ToSet(chain)
      PROVE  p[n] = h[n] /\ p[n] \in NodeRecs(N)
  BY <1>5, <1>6, <1>7
<1>8. ASSUME NEW n \in N, n \in ToSet(chain)
      PROVE  /\ p[n] \in NodeRecs(N) /\ p[n].left = h[n].left /\ p[n].right = h[n].right
             /\ p[n].height = h[n].height /\ p[n].key = h[nx(n)].key /\ p[n].info = h[nx(n)].info
  <2>1. p[n] = [h[n] EXCEPT !.key = h[nx(n)].key, !.info = h[nx(n)].info]
    BY <1>6, <1>8
  <2>2. nx(n) \in N
    BY <1>4, <1>8
  <2>3. h[nx(n)].key \in Int /\ h[nx(n)].info \in Int /\ h[n] \in NodeRecs(N)
    BY <1>5, <2>2
  <2> DEFINE a == h[nx(n)].key
             b == h[nx(n)].info
  <2> HIDE DEF a, b
  <2> QED
    BY <2>1, <2>3 DEF NodeRecs, a, b
<1>9. p \in Heaps(N)
  BY <1>6, <1>7, <1>8 DEF Heaps
<1>10. \A n \in N : p[n].left = h[n].left /\ p[n].right = h[n].right /\ p[n].height = h[n].height
  BY <1>7, <1>8
<1>11. SameHeights(h, p) /\ \A n \in N : SameSides(h, p, n)
  BY <1>5, <1>10 DEF SameHeights, SameSides, Sides
<1>12. ASSUME NEW i \in 1 .. Len(chain)
       PROVE  p[chain[i]].key = h[chain[AfterIn(chain, i)]].key /\ p[chain[i]].info = h[chain[AfterIn(chain, i)]].info
  <2> DEFINE w == chain[i]
  <2>1. w \in N /\ w \in ToSet(chain)
    BY <1>1, <1>2
  <2>2. nx(w) = chain[AfterIn(chain, i)]
    BY <1>3
  <2> HIDE DEF w
  <2>3. p[w].key = h[nx(w)].key /\ p[w].info = h[nx(w)].info
    BY <1>8, <2>1
  <2> QED
    BY <2>2, <2>3 DEF w
<1>13. Shifts(N, h, chain, p)
  BY <1>2, <1>7, <1>9, <1>11, <1>12 DEF Shifts
<1> QED
  BY <1>13 DEF p

(* The last one of the chain is cut off below f. *)
CutShort(N, h, p, f, e, z, g) ==
  /\ g \in Heaps(N) /\ SameHeights(h, g) /\ e \in Sides /\ z = h[f][e]
  /\ g[f][e] = Null /\ g[f][Other(e)] = h[f][Other(e)]
  /\ \A n \in N : n # f => SameSides(h, g, n) /\ g[n] = p[n]
  /\ SameData(p, g)
LEMMA CutIs ==
  ASSUME NEW N, Nodal(N), NEW h \in Heaps(N), NEW chain, NEW p, Shifts(N, h, chain, p),
         NEW f \in N, NEW z \in {h[f].left, h[f].right}
  PROVE  CutShort(N, h, p, f, IF h[f].left = z THEN "left" ELSE "right", z, CutAt(p, f, z))
<1> DEFINE e == IF h[f].left = z THEN "left" ELSE "right"
           g == CutAt(p, f, z)
<1>1. /\ p \in Heaps(N) /\ SameHeights(h, p) /\ \A n \in N : SameSides(h, p, n)
  BY DEF Shifts
<1>2. e \in Sides /\ z = h[f][e] /\ Other(e) \in Sides /\ p[f].left = h[f].left
  BY <1>1 DEF Sides, Other, SameSides
<1>3. g = SetChild(p, f, e, Null)
  BY <1>2 DEF CutAt, SetChild
<1> HIDE DEF e
<1> DEFINE c == Null
<1>c. c \in N \union {Null}
  OBVIOUS
<1> HIDE DEF c
<1>4. SetChild(p, f, e, c) \in Heaps(N) /\ Hooked(p, SetChild(p, f, e, c), f, e, c)
  BY <1>1, <1>2, <1>c, Hung
<1>5. g \in Heaps(N) /\ Hooked(p, g, f, e, Null) /\ DOMAIN h = N /\ DOMAIN p = N
  BY <1>1, <1>3, <1>4 DEF c, Heaps
<1> HIDE DEF g
<1>6. /\ g[f][e] = Null /\ g[f][Other(e)] = h[f][Other(e)] /\ SameData(p, g)
      /\ \A n \in N : n # f => g[n] = p[n]
  BY <1>1, <1>2, <1>5 DEF Hooked, SameBut, SameSides
<1>7. SameHeights(h, g)
  <2>1. \A n \in N : g[n].height = h[n].height
    BY <1>1, <1>5, <1>6 DEF Hooked, SameHeights
  <2> QED
    BY <1>5, <2>1 DEF SameHeights
<1>8. \A n \in N : n # f => SameSides(h, g, n)
  BY <1>1, <1>6 DEF SameSides
<1>9. CutShort(N, h, p, f, e, z, g)
  BY <1>2, <1>5, <1>6, <1>7, <1>8 DEF CutShort
<1> QED
  BY <1>9 DEF e, g

(* The keys and infos of the nodes of a set. *)
Data(h, A) == {<<h[y].key, h[y].info>> : y \in A}
LEMMA DataLeaves ==
  ASSUME NEW N, Nodal(N), NEW h \in Heaps(N), NEW S, S \subseteq N, NEW chain, ChainIn(S, chain),
         NEW p, Shifts(N, h, chain, p), NEW g, SameData(p, g)
  PROVE  /\ Data(g, S \ {chain[Len(chain)]}) = Data(h, S \ {chain[1]})
         /\ g[chain[Len(chain)]].key = h[chain[1]].key /\ g[chain[Len(chain)]].info = h[chain[1]].info
<1> DEFINE m == Len(chain)
           x == chain[1]
           z == chain[m]
           At(i) == <<h[chain[i]].key, h[chain[i]].info>>
<1>1. /\ m \in Nat /\ m >= 1 /\ \A i \in 1 .. m : chain[i] \in S
      /\ \A i, j \in 1 .. m : chain[i] = chain[j] => i = j
  <2>1. chain \in Seq(S) /\ chain # <<>> /\ \A i, j \in 1 .. Len(chain) : chain[i] = chain[j] => i = j
    BY DEF ChainIn
  <2> QED
    BY <2>1
<1>2. /\ p \in Heaps(N) /\ DOMAIN p = N
      /\ \A n \in N : (\A i \in 1 .. m : n # chain[i]) => p[n] = h[n]
      /\ \A i \in 1 .. m : /\ p[chain[i]].key = h[chain[AfterIn(chain, i)]].key
                           /\ p[chain[i]].info = h[chain[AfterIn(chain, i)]].info
  BY DEF Shifts, Heaps
<1>3. \A n \in N : g[n].key = p[n].key /\ g[n].info = p[n].info
  BY <1>2 DEF SameData
<1>4. AfterIn(chain, m) = 1 /\ \A i \in 1 .. m : i # m => AfterIn(chain, i) = i + 1
  BY DEF AfterIn
<1>5. ASSUME NEW i \in 1 .. m PROVE g[chain[i]].key = h[chain[AfterIn(chain, i)]].key /\ g[chain[i]].info = h[chain[AfterIn(chain, i)]].info
  BY <1>1, <1>2, <1>3
<1>6. ASSUME NEW n \in S, \A i \in 1 .. m : n # chain[i] PROVE g[n].key = h[n].key /\ g[n].info = h[n].info
  BY <1>2, <1>3, <1>6
<1> HIDE DEF m
<1>7. ASSUME NEW w \in S \ {z} PROVE <<g[w].key, g[w].info>> \in Data(h, S \ {x})
  <2>1. CASE \A i \in 1 .. m : w # chain[i]
    <3>1. w \in S \ {x}
      BY <1>1, <2>1
    <3> QED
      BY <1>6, <2>1, <3>1 DEF Data
  <2>2. ASSUME NEW i \in 1 .. m, w = chain[i] PROVE <<g[w].key, g[w].info>> \in Data(h, S \ {x})
    <3>1. i # m /\ i + 1 \in 1 .. m /\ 1 \in 1 .. m /\ i + 1 # 1
      BY <1>1, <2>2
    <3>2. chain[i + 1] \in S \ {x}
      BY <1>1, <3>1
    <3>3. g[w].key = h[chain[i + 1]].key /\ g[w].info = h[chain[i + 1]].info
      BY <1>4, <1>5, <2>2, <3>1
    <3> QED
      BY <3>2, <3>3 DEF Data
  <2> QED
    BY <2>1, <2>2
<1>8. ASSUME NEW v \in S \ {x} PROVE <<h[v].key, h[v].info>> \in Data(g, S \ {z})
  <2>1. CASE \A i \in 1 .. m : v # chain[i]
    <3>1. v \in S \ {z}
      BY <1>1, <2>1
    <3> QED
      BY <1>6, <2>1, <3>1 DEF Data
  <2>2. ASSUME NEW i \in 1 .. m, v = chain[i] PROVE <<h[v].key, h[v].info>> \in Data(g, S \ {z})
    <3>0. i # 1
      BY <2>2
    <3> DEFINE j == i - 1
    <3>1. j \in 1 .. m /\ j # m /\ j + 1 = i /\ m \in 1 .. m
      BY <1>1, <3>0
    <3> HIDE DEF j
    <3>2. chain[j] \in S \ {z}
      BY <1>1, <3>1
    <3>3. g[chain[j]].key = h[v].key /\ g[chain[j]].info = h[v].info
      BY <1>4, <1>5, <2>2, <3>1
    <3> QED
      BY <3>2, <3>3 DEF Data
  <2> QED
    BY <2>1, <2>2
<1>9. Data(g, S \ {z}) = Data(h, S \ {x})
  BY <1>7, <1>8 DEF Data
<1>10. g[z].key = h[x].key /\ g[z].info = h[x].info
  <2>1. m \in 1 .. m
    BY <1>1
  <2> QED
    BY <1>4, <1>5, <2>1
<1> QED
  BY <1>9, <1>10 DEF m

Removed(N, h, out, S, x) ==
  /\ out \in Values(N) /\ out.node \in S /\ out.top \in (S \ {out.node}) \union {Null}
  /\ AVL(out.h, S \ {out.node}, out.top) /\ SameBut(h, out.h, S) /\ FreeLeaf(out.h, out.node)
  /\ Data(out.h, S \ {out.node}) = Data(h, S \ {x})
  /\ out.h[out.node].key = h[x].key /\ out.h[out.node].info = h[x].info

(* chain and up are those of a node that leaves. *)
Unhooks(N, h, S, D, r, chain, up) ==
  /\ ChainIn(S, chain) /\ up # <<>> /\ up[1] = r
  /\ \E e : CutOff(N, h, S, D, up, e, chain[Len(chain)],
                   CutAt(ShiftOf(h, chain), up[Len(up)], chain[Len(chain)]))
LEMMA UnchainRemoves ==
  ASSUME NEW N, Nodal(N), NEW h \in Heaps(N), NEW S, S \subseteq N, NEW r,
         NEW D, Descends(h, S, D, r), NEW chain, NEW up, Unhooks(N, h, S, D, r, chain, up)
  PROVE  Removed(N, h, Unchain(h, chain, up), S, chain[1])
<1> DEFINE x == chain[1]
           z == chain[Len(chain)]
           f == up[Len(up)]
           p == ShiftOf(h, chain)
           g == CutAt(p, f, z)
           v == GlobalRebalance(g, up)
           out == Unchain(h, chain, up)
           T == [i \in 1 .. Len(up) |-> D[up[i]] \ {z}]
<1>0. ChainIn(S, chain) /\ up # <<>> /\ up[1] = r /\ \E e : CutOff(N, h, S, D, up, e, z, g)
  BY DEF Unhooks
<1>1. PICK e : CutOff(N, h, S, D, up, e, z, g)
  BY <1>0
<1>2. out = [v EXCEPT !.node = z]
  BY <1>0, UnchainIs DEF Last
<1>3. chain \in Seq(S) /\ chain # <<>> /\ Len(chain) \in Nat /\ Len(chain) >= 1 /\ x \in S /\ z \in S
  BY <1>0 DEF ChainIn
<1>4. ChainIn(N, chain)
  <2>1. chain \in Seq(N)
    BY <1>3
  <2> QED
    BY <1>0, <2>1 DEF ChainIn
<1>5. Shifts(N, h, chain, p)
  BY <1>4, ShiftIs
<1> HIDE DEF p, z, f
<1>6. /\ up \in Seq(S) /\ Len(up) \in Nat /\ Len(up) >= 1 /\ f = up[Len(up)] /\ f \in S
      /\ z = h[f][e] /\ e \in Sides /\ FreeLeaf(h, z) /\ g \in Heaps(N)
      /\ SameHeights(h, g) /\ \A w \in S : w # f => SameSides(h, g, w)
  BY <1>1 DEF CutOff, Route, f
<1>7. CutAlong(S, D, up, z)
  BY <1>1, CutRoute
<1>8. z # f
  BY <1>7 DEF CutAlong, f
<1>9. z \in {h[f].left, h[f].right} /\ f \in N
  BY <1>6 DEF Sides
<1>10. CutShort(N, h, p, f, IF h[f].left = z THEN "left" ELSE "right", z, g)
  BY <1>5, <1>9, CutIs
<1>11. SameData(p, g) /\ \A n \in N : n # f => g[n] = p[n]
  BY <1>10 DEF CutShort
<1> HIDE DEF g
<1>12. /\ Data(g, S \ {z}) = Data(h, S \ {x}) /\ g[z].key = h[x].key /\ g[z].info = h[x].info
  <2>1. SameData(p, g)
    BY <1>11
  <2> QED
    BY <1>0, <1>5, <2>1, DataLeaves DEF z
<1> HIDE DEF v, T
<1>13. ChainOf(N, g, up, T)
  BY <1>1, CutChain DEF T
<1>14. Raised(N, g, v, up[1], T[1])
  BY <1>6, <1>13, GlobalRaises DEF v
<1>15. T[1] = S \ {z}
  <2>1. r # Null /\ D[r] = S
    <3>1. r \in S
      BY <1>0, <1>6
    <3> QED
      BY <3>1, NullIsNone DEF Descends, Under
  <2> QED
    BY <1>0, <1>6, <2>1 DEF T
<1>16. /\ v \in Values(N) /\ v.top \in S \ {z} /\ AVL(v.h, S \ {z}, v.top)
       /\ SameBut(g, v.h, S \ {z}) /\ SameData(g, v.h)
  BY <1>14, <1>15 DEF Raised, Settled
<1>17. out.h = v.h /\ out.top = v.top /\ out.node = z /\ out \in Values(N)
  <2>1. z \in N \union {Null}
    BY <1>3 DEF z
  <2> QED
    BY <1>2, <1>16, <2>1 DEF Values
<1> HIDE DEF out
<1>18. DOMAIN h = N /\ DOMAIN g = N /\ DOMAIN p = N /\ DOMAIN v.h = N
  BY <1>5, <1>6, <1>16 DEF Heaps, Shifts, Values
<1>19. SameBut(h, v.h, S)
  <2>1. ASSUME NEW n \in N, n \notin S PROVE v.h[n] = h[n]
    <3>1. \A i \in 1 .. Len(chain) : n # chain[i]
      BY <1>3, <2>1
    <3>2. p[n] = h[n]
      BY <1>5, <3>1 DEF Shifts
    <3>3. n # f /\ g[n] = p[n]
      BY <1>6, <1>11, <2>1
    <3>4. v.h[n] = g[n]
      BY <1>16, <1>18, <2>1 DEF SameBut
    <3> QED
      BY <3>2, <3>3, <3>4
  <2> QED
    BY <1>18, <2>1 DEF SameBut
<1>20. v.h[z] = g[z] /\ FreeLeaf(g, z)
  <2>1. z \in N /\ z \in S
    BY <1>3 DEF z
  <2>2. v.h[z] = g[z]
    BY <1>16, <1>18, <2>1 DEF SameBut
  <2>3. SameSides(h, g, z) /\ g[z].height = h[z].height
    BY <1>6, <1>8, <1>18, <2>1 DEF SameHeights
  <2>4. g[z].left = h[z].left /\ g[z].right = h[z].right
    BY <2>3 DEF SameSides, Sides
  <2> QED
    BY <1>6, <2>2, <2>3, <2>4 DEF FreeLeaf
<1>21. Data(v.h, S \ {z}) = Data(g, S \ {z})
  <2>1. \A n \in S \ {z} : v.h[n].key = g[n].key /\ v.h[n].info = g[n].info
    BY <1>16, <1>18 DEF SameData
  <2> QED
    BY <2>1 DEF Data
<1>22. Removed(N, h, out, S, x)
  <2>1. FreeLeaf(v.h, z) /\ v.h[z].key = h[x].key /\ v.h[z].info = h[x].info
    BY <1>12, <1>20 DEF FreeLeaf
  <2>2. z \in S
    BY <1>3 DEF z
  <2> QED
    BY <1>12, <1>16, <1>17, <1>19, <1>21, <2>1, <2>2 DEF Removed
<1> QED
  BY <1>22 DEF out

(* Ways cut short, and joined. *)
Shortened(q, p) == Len(p) = Len(q) - 1 /\ \A i \in 1 .. (Len(q) - 1) : p[i] = q[i]
LEMMA FrontIs ==
  ASSUME NEW S, NEW q \in Seq(S), q # <<>>
  PROVE  Front(q) \in Seq(S) /\ Shortened(q, Front(q))
<1>1. Len(q) \in Nat /\ Len(q) >= 1
  OBVIOUS
<1>2. Front(q) = SubSeq(q, 1, Len(q) - 1)
  BY <1>1 DEF Front
<1>3. /\ SubSeq(q, 1, Len(q) - 1) \in Seq(S) /\ Len(SubSeq(q, 1, Len(q) - 1)) = Len(q) - 1
      /\ \A i \in 1 .. (Len(q) - 1) : SubSeq(q, 1, Len(q) - 1)[i] = q[i]
  <2> DEFINE n == Len(q) - 1
             p == SubSeq(q, 1, n)
  <2>1. n \in Nat /\ n <= Len(q) /\ 1 \in Int /\ n \in Int
    BY <1>1
  <2> HIDE DEF n
  <2>2. p = [i \in 1 .. n |-> q[i]]
    BY <2>1 DEF SubSeq
  <2>3. \A i \in 1 .. n : q[i] \in S
    BY <1>1, <2>1
  <2> HIDE DEF p
  <2>4. p \in Seq(S) /\ Len(p) = n /\ \A i \in 1 .. n : p[i] = q[i]
    BY <2>1, <2>2, <2>3
  <2> QED
    BY <2>4 DEF n, p
<1> QED
  BY <1>2, <1>3 DEF Shortened

LEMMA WayFront ==
  ASSUME NEW h, NEW S, NEW q, Route(h, S, q), Len(q) > 1
  PROVE  Route(h, S, Front(q)) /\ Shortened(q, Front(q))
<1> DEFINE p == Front(q)
<1>1. /\ q \in Seq(S) /\ q # <<>> /\ Len(q) \in Nat
      /\ \A i \in 1 .. (Len(q) - 1) : \E s \in Sides : q[i + 1] = h[q[i]][s]
  BY DEF Route
<1>2. p \in Seq(S) /\ Shortened(q, p)
  BY <1>1, FrontIs
<1> HIDE DEF p
<1>3. p # <<>> /\ Len(p) \in Nat /\ Len(p) = Len(q) - 1
  BY <1>1, <1>2 DEF Shortened
<1>4. ASSUME NEW i \in 1 .. (Len(p) - 1) PROVE \E s \in Sides : p[i + 1] = h[p[i]][s]
  <2>1. i \in 1 .. (Len(q) - 1) /\ i + 1 \in 1 .. (Len(q) - 1)
    BY <1>1, <1>3
  <2>2. p[i] = q[i] /\ p[i + 1] = q[i + 1]
    BY <1>2, <2>1 DEF Shortened
  <2> QED
    BY <1>1, <2>1, <2>2
<1>5. Route(h, S, p)
  BY <1>2, <1>3, <1>4 DEF Route
<1> QED
  BY <1>2, <1>5 DEF p

WaysJoined(q, p, u) ==
  /\ Len(u) = Len(q) + Len(p) /\ Len(q) \in Nat /\ Len(p) \in Nat /\ Len(q) >= 1 /\ Len(p) >= 1
  /\ \A i \in 1 .. Len(q) : u[i] = q[i]
  /\ \A i \in 1 .. Len(p) : u[Len(q) + i] = p[i]
LEMMA WaysJoin ==
  ASSUME NEW h, NEW S, NEW q, NEW p, Route(h, S, q), Route(h, S, p),
         NEW s \in Sides, p[1] = h[q[Len(q)]][s]
  PROVE  Route(h, S, q \o p) /\ WaysJoined(q, p, q \o p)
<1> DEFINE u == q \o p
           m == Len(q)
           n == Len(p)
<1>1. /\ q \in Seq(S) /\ q # <<>> /\ p \in Seq(S) /\ p # <<>>
      /\ \A i \in 1 .. (m - 1) : \E e \in Sides : q[i + 1] = h[q[i]][e]
      /\ \A i \in 1 .. (n - 1) : \E e \in Sides : p[i + 1] = h[p[i]][e]
  BY DEF Route
<1>2. m \in Nat /\ n \in Nat /\ m >= 1 /\ n >= 1
  BY <1>1
<1>3. /\ u \in Seq(S) /\ Len(u) = m + n
      /\ \A i \in 1 .. (m + n) : u[i] = IF i <= m THEN q[i] ELSE p[i - m]
  BY <1>1
<1> HIDE DEF u, m, n
<1>4. \A i \in 1 .. m : u[i] = q[i]
  BY <1>2, <1>3
<1>5. ASSUME NEW i \in 1 .. n PROVE u[m + i] = p[i]
  <2>1. m + i \in 1 .. (m + n) /\ ~ (m + i <= m) /\ (m + i) - m = i
    BY <1>2
  <2> QED
    BY <1>3, <2>1
<1>6. ASSUME NEW i \in 1 .. (m + n - 1) PROVE \E e \in Sides : u[i + 1] = h[u[i]][e]
  <2>1. CASE i < m
    <3>1. i \in 1 .. (m - 1) /\ i \in 1 .. m /\ i + 1 \in 1 .. m
      BY <1>2, <2>1
    <3> QED
      BY <1>1, <1>4, <3>1
  <2>2. CASE i = m
    <3>1. u[i] = q[m] /\ u[i + 1] = p[1]
      BY <1>2, <1>4, <1>5, <2>2
    <3> QED
      BY <3>1 DEF m
  <2>3. CASE i > m
    <3> DEFINE j == i - m
    <3>1. j \in 1 .. (n - 1) /\ j \in 1 .. n /\ j + 1 \in 1 .. n /\ m + j = i /\ m + (j + 1) = i + 1
      BY <1>2, <2>3
    <3> HIDE DEF j
    <3>2. u[i] = p[j] /\ u[i + 1] = p[j + 1]
      BY <1>5, <3>1
    <3> QED
      BY <1>1, <3>1, <3>2
  <2> QED
    BY <1>2, <2>1, <2>2, <2>3
<1>7. Route(h, S, u)
  <2>1. u # <<>> /\ Len(u) - 1 = m + n - 1 /\ u \in Seq(S)
    BY <1>2, <1>3
  <2> HIDE DEF Sides
  <2>2. \A i \in 1 .. (Len(u) - 1) : \E e \in Sides : u[i + 1] = h[u[i]][e]
    BY <1>6, <2>1
  <2> QED
    BY <2>1, <2>2 DEF Route
<1>8. WaysJoined(q, p, u)
  BY <1>2, <1>3, <1>4, <1>5 DEF WaysJoined, m, n
<1> QED
  BY <1>7, <1>8 DEF u

(* The nodes of a chain are on a way, each below the one before, and the   *)
(* last one is a leaf below the way's last.                                *)
Handed(h, S, D, chain, up) ==
  LET n == Len(chain)  f == up[Len(up)] IN
  /\ ChainIn(S, chain) /\ Route(h, S, up)
  /\ chain[n] \in {h[f].left, h[f].right} /\ FreeLeaf(h, chain[n])
  /\ \A i \in 1 .. (n - 1) : chain[i + 1] \in D[chain[i]] /\ \E j \in 1 .. Len(up) : chain[i] = up[j]
KeysMove(h, S, chain, g) ==
  /\ \A w \in S : (\A i \in 1 .. Len(chain) : w # chain[i]) => g[w].key = h[w].key
  /\ \A i \in 1 .. (Len(chain) - 1) : g[chain[i]].key = h[chain[i + 1]].key
WithoutLast(h, chain, up) == CutAt(ShiftOf(h, chain), up[Len(up)], chain[Len(chain)])
EndOf(h, chain, up) == IF h[up[Len(up)]].left = chain[Len(chain)] THEN "left" ELSE "right"
(* What is left to show of what Unchain does. *)
InPlace(h, D, up, e, z, g) ==
  /\ Fits(h, g, D, up[Len(up)], z, e)
  /\ \A i \in 1 .. (Len(up) - 1) :
       \/ g[up[i]].key = h[up[i]].key
       \/ up[i + 1] = h[up[i]].left /\ Lowered(h, g, D, up[i], z)
LEMMA CutStarts ==
  ASSUME NEW N, Nodal(N), NEW h \in Heaps(N), NEW S, S \subseteq N, NEW r,
         NEW D, Descends(h, S, D, r), NEW chain, NEW up, Handed(h, S, D, chain, up)
  PROVE  LET g == WithoutLast(h, chain, up)  e == EndOf(h, chain, up)  z == chain[Len(chain)] IN
         /\ KeysMove(h, S, chain, g) /\ e \in Sides /\ z = h[up[Len(up)]][e]
         /\ InPlace(h, D, up, e, z, g) => CutOff(N, h, S, D, up, e, z, g)
<1> DEFINE m == Len(chain)
           z == chain[m]
           f == up[Len(up)]
           p == ShiftOf(h, chain)
           g == CutAt(p, f, z)
           e == IF h[f].left = z THEN "left" ELSE "right"
<1>0. /\ ChainIn(S, chain) /\ Route(h, S, up) /\ z \in {h[f].left, h[f].right} /\ FreeLeaf(h, z)
      /\ \A i \in 1 .. (m - 1) : chain[i + 1] \in D[chain[i]] /\ \E j \in 1 .. Len(up) : chain[i] = up[j]
  BY DEF Handed
<1>1. /\ chain \in Seq(S) /\ m \in Nat /\ m >= 1 /\ \A i \in 1 .. m : chain[i] \in S
      /\ \A i, j \in 1 .. m : chain[i] = chain[j] => i = j
  <2>1. chain \in Seq(S) /\ chain # <<>> /\ \A i, j \in 1 .. Len(chain) : chain[i] = chain[j] => i = j
    BY <1>0 DEF ChainIn
  <2> QED
    BY <2>1
<1>2. ChainIn(N, chain)
  <2>1. chain \in Seq(N)
    BY <1>1
  <2> QED
    BY <1>0, <2>1 DEF ChainIn
<1>3. Shifts(N, h, chain, p)
  BY <1>2, ShiftIs
<1> HIDE DEF p, z, f
<1>4. f \in S /\ f \in N /\ z \in S /\ z \in N
  <2>1. m \in 1 .. m
    BY <1>1
  <2>2. up \in Seq(S) /\ up # <<>>
    BY <1>0 DEF Route
  <2>3. up[Len(up)] \in S
    BY <2>2
  <2> QED
    BY <1>1, <2>1, <2>3 DEF z, f
<1>5. CutShort(N, h, p, f, e, z, g)
  BY <1>0, <1>3, <1>4, CutIs
<1> HIDE DEF g, e
<1>6. /\ g \in Heaps(N) /\ SameHeights(h, g) /\ e \in Sides /\ z = h[f][e]
      /\ g[f][e] = Null /\ g[f][Other(e)] = h[f][Other(e)]
      /\ \A n \in N : n # f => SameSides(h, g, n) /\ g[n] = p[n]
      /\ SameData(p, g)
  BY <1>5 DEF CutShort
<1>7. /\ DOMAIN p = N /\ \A n \in N : (\A i \in 1 .. m : n # chain[i]) => p[n] = h[n]
      /\ \A i \in 1 .. m : p[chain[i]].key = h[chain[AfterIn(chain, i)]].key
  BY <1>3 DEF Shifts, Heaps
<1>8. \A n \in N : g[n].key = p[n].key
  BY <1>6, <1>7 DEF SameData
<1>9. ASSUME NEW i \in 1 .. (m - 1) PROVE g[chain[i]].key = h[chain[i + 1]].key /\ i \in 1 .. m
  <2>1. i \in 1 .. m /\ i # m
    BY <1>1
  <2>2. AfterIn(chain, i) = i + 1
    BY <2>1 DEF AfterIn
  <2> QED
    BY <1>1, <1>7, <1>8, <2>1, <2>2
<1>10. KeysMove(h, S, chain, g)
  <2>1. \A w \in S : (\A i \in 1 .. m : w # chain[i]) => g[w].key = h[w].key
    BY <1>7, <1>8
  <2> QED
    BY <1>9, <2>1 DEF KeysMove
<1>11. ASSUME NEW w \in S, w # z PROVE \E v \in D[w] : g[w].key = h[v].key
  <2>1. CASE \A i \in 1 .. m : w # chain[i]
    <3>1. w \in D[w]
      BY DEF Descends, NodeRight
    <3>2. g[w].key = h[w].key
      BY <1>7, <1>8, <2>1
    <3> QED
      BY <3>1, <3>2
  <2>2. ASSUME NEW i \in 1 .. m, w = chain[i] PROVE \E v \in D[w] : g[w].key = h[v].key
    <3>1. i # m
      BY <1>11, <2>2 DEF z
    <3>2. i \in 1 .. (m - 1)
      BY <1>1, <3>1
    <3> QED
      BY <1>0, <1>9, <2>2, <3>2
  <2> QED
    BY <2>1, <2>2
<1>12. ASSUME NEW w \in S, w # z, \A i \in 1 .. Len(up) : w # up[i] PROVE g[w] = h[w]
  <2>1. ASSUME NEW i \in 1 .. m PROVE w # chain[i]
    <3>1. CASE i = m
      BY <1>12, <3>1 DEF z
    <3>2. CASE i # m
      <4>1. i \in 1 .. (m - 1)
        BY <1>1, <3>2
      <4> QED
        BY <1>0, <1>12, <4>1
    <3> QED
      BY <3>1, <3>2
  <2>2. w # f
    <3>1. Len(up) \in 1 .. Len(up)
      <4>1. up \in Seq(S) /\ up # <<>>
        BY <1>0 DEF Route
      <4> QED
        BY <4>1
    <3> QED
      BY <1>12, <3>1 DEF f
  <2> QED
    BY <1>6, <1>7, <2>1, <2>2
<1>13. ASSUME InPlace(h, D, up, e, z, g) PROVE CutOff(N, h, S, D, up, e, z, g)
  <2>1. Fits(h, g, D, f, z, e)
    BY <1>13 DEF InPlace, f
  <2>2. \A i \in 1 .. (Len(up) - 1) :
          \/ g[up[i]].key = h[up[i]].key
          \/ up[i + 1] = h[up[i]].left /\ Lowered(h, g, D, up[i], z)
    BY <1>13 DEF InPlace
  <2>3. \A w \in S : w # f => SameSides(h, g, w)
    BY <1>6
  <2> QED
    BY <1>0, <1>4, <1>6, <1>11, <1>12, <2>1, <2>2, <2>3 DEF CutOff, f
<1> QED
  BY <1>6, <1>10, <1>13 DEF WithoutLast, EndOf, g, e, p, z, f

LEMMA ShortChains ==
  ASSUME NEW S, NEW x \in S, NEW y \in S, NEW z \in S, x # y, y # z, x # z
  PROVE  /\ ChainIn(S, <<x>>) /\ Len(<<x>>) = 1 /\ <<x>>[1] = x
         /\ ChainIn(S, <<x, y>>) /\ Len(<<x, y>>) = 2 /\ <<x, y>>[1] = x /\ <<x, y>>[2] = y
         /\ ChainIn(S, <<x, y, z>>) /\ Len(<<x, y, z>>) = 3
         /\ <<x, y, z>>[1] = x /\ <<x, y, z>>[2] = y /\ <<x, y, z>>[3] = z
<1>1. ChainIn(S, <<x>>) /\ Len(<<x>>) = 1 /\ <<x>>[1] = x
  BY DEF ChainIn
<1>2. ChainIn(S, <<x, y>>) /\ Len(<<x, y>>) = 2 /\ <<x, y>>[1] = x /\ <<x, y>>[2] = y
  BY DEF ChainIn
<1>3. ChainIn(S, <<x, y, z>>)
  <2> DEFINE c == <<x, y, z>>
  <2>1. c \in Seq(S) /\ Len(c) = 3 /\ c # <<>> /\ c[1] = x /\ c[2] = y /\ c[3] = z
    OBVIOUS
  <2> HIDE DEF c
  <2>2. \A i, j \in 1 .. 3 : c[i] = c[j] => i = j
    <3>1. \A i \in 1 .. 3 : i = 1 \/ i = 2 \/ i = 3
      OBVIOUS
    <3> QED
      BY <2>1, <3>1
  <2>3. ChainIn(S, c)
    BY <2>1, <2>2 DEF ChainIn
  <2> QED
    BY <2>3 DEF c
<1>4. Len(<<x, y, z>>) = 3 /\ <<x, y, z>>[1] = x /\ <<x, y, z>>[2] = y /\ <<x, y, z>>[3] = z
  OBVIOUS
<1> QED
  BY <1>1, <1>2, <1>3, <1>4

LEMMA Unhooked ==
  ASSUME NEW N, Nodal(N), NEW h \in Heaps(N), NEW S, S \subseteq N, NEW r,
         NEW D, Descends(h, S, D, r), NEW chain, NEW up, Handed(h, S, D, chain, up), up[1] = r,
         KeysMove(h, S, chain, WithoutLast(h, chain, up)) =>
           InPlace(h, D, up, EndOf(h, chain, up), chain[Len(chain)], WithoutLast(h, chain, up))
  PROVE  Removed(N, h, Unchain(h, chain, up), S, chain[1])
<1> DEFINE g == WithoutLast(h, chain, up)
           e == EndOf(h, chain, up)
           z == chain[Len(chain)]
<1>1. KeysMove(h, S, chain, g) /\ (InPlace(h, D, up, e, z, g) => CutOff(N, h, S, D, up, e, z, g))
  BY CutStarts
<1>2. CutOff(N, h, S, D, up, e, z, g)
  BY <1>1
<1> HIDE DEF e
<1>3. \E d : CutOff(N, h, S, D, up, d, z, g)
  BY <1>2
<1>4. ChainIn(S, chain) /\ up # <<>>
  BY DEF Handed, Route
<1>5. Unhooks(N, h, S, D, r, chain, up)
  BY <1>3, <1>4 DEF Unhooks, WithoutLast
<1> QED
  BY <1>5, UnchainRemoves

(* A leaf leaves. *)
Found(h, S, D, r, q, x) == WayTo(h, S, D, h[x].key, q, x) /\ q[1] = r
LEMMA LeafLeaves ==
  ASSUME NEW N, Nodal(N), NEW h \in Heaps(N), NEW S, S \subseteq N, NEW r,
         NEW D, Descends(h, S, D, r), NEW q, NEW x, Found(h, S, D, r, q, x), h[x].height = 1
  PROVE  Removed(N, h, Unchain(h, <<x>>, Front(q)), S, x)
<1>0. /\ Route(h, S, q) /\ q[Len(q)] = x /\ q[1] = r /\ q \in Seq(S) /\ q # <<>>
      /\ Len(q) \in Nat /\ Len(q) >= 1 /\ \A i \in 1 .. Len(q) : q[i] \in S
  <2>1. Route(h, S, q) /\ q[Len(q)] = x /\ q[1] = r
    BY DEF Found, WayTo
  <2>2. q \in Seq(S) /\ q # <<>>
    BY <2>1 DEF Route
  <2> QED
    BY <2>1, <2>2
<1>1. x \in S /\ FreeLeaf(h, x)
  <2>1. x \in S
    BY <1>0
  <2>2. LeafRight(h, x)
    BY <2>1, LeavesAre
  <2> QED
    BY <2>1, <2>2 DEF LeafRight, FreeLeaf
<1>c. ChainIn(S, <<x>>) /\ Len(<<x>>) = 1 /\ <<x>>[1] = x
  BY <1>1 DEF ChainIn
<1> DEFINE chain == <<x>>
           up == Front(q)
           out == Unchain(h, chain, up)
<1> HIDE DEF chain
<1>d. ChainIn(S, chain) /\ Len(chain) = 1 /\ chain[1] = x
  BY <1>c DEF chain
<1>2. CASE Len(q) = 1
  <2>1. up = <<>>
    <3>1. up \in Seq(S) /\ Shortened(q, up)
      BY <1>0, FrontIs
    <3> QED
      BY <1>2, <3>1 DEF Shortened
  <2>2. out = [h |-> h, top |-> Null, node |-> x]
    BY <2>1, <1>d, UnchainIs DEF Last
  <2>3. S = {x}
    <3>1. x = r /\ r # Null /\ Under(D, r) = S
      BY <1>0, <1>1, <1>2, NullIsNone DEF Descends
    <3>2. D[x] = {x} \union Under(D, h[x].left) \union Under(D, h[x].right)
      BY <1>1 DEF Descends, NodeRight
    <3> QED
      BY <1>1, <3>1, <3>2 DEF Under, FreeLeaf
  <2>4. out \in Values(N) /\ out.h = h /\ out.top = Null /\ out.node = x
    BY <1>1, <2>2 DEF Values
  <2> HIDE DEF out
  <2>5. AVL(h, S \ {x}, Null)
    BY <2>3, EmptyTree
  <2>6. Data(h, S \ {x}) = Data(h, S \ {x}) /\ SameBut(h, h, S)
    BY DEF SameBut
  <2> QED
    BY <1>1, <2>4, <2>5, <2>6 DEF Removed, out, chain
<1>3. CASE Len(q) > 1
  <2>1. Route(h, S, up) /\ Shortened(q, up)
    BY <1>0, <1>3, WayFront
  <2> HIDE DEF up
  <2>2. /\ Len(up) = Len(q) - 1 /\ Len(up) \in Nat /\ Len(up) >= 1
        /\ \A i \in 1 .. Len(up) : up[i] = q[i] /\ i \in 1 .. (Len(q) - 1) /\ i \in 1 .. Len(q)
    BY <1>0, <1>3, <2>1 DEF Shortened
  <2>3. up[1] = r
    BY <1>0, <2>2
  <2> DEFINE f == up[Len(up)]
  <2>4. x \in {h[f].left, h[f].right}
    <3>1. Len(q) - 1 \in 1 .. (Len(q) - 1) /\ (Len(q) - 1) + 1 = Len(q)
      BY <1>0, <1>3
    <3>2. PICK s \in Sides : q[Len(q)] = h[q[Len(q) - 1]][s]
      BY <1>0, <3>1 DEF Route
    <3>3. f = q[Len(q) - 1]
      BY <2>2
    <3> QED
      BY <1>0, <3>2, <3>3 DEF Sides
  <2>5. Handed(h, S, D, chain, up)
    BY <1>1, <1>d, <2>1, <2>4 DEF Handed
  <2>6. ASSUME NEW i \in 1 .. Len(up) PROVE up[i] # x /\ up[i] \in S
    <3>1. i \in 1 .. Len(q) /\ Len(q) \in (i + 1) .. Len(q) /\ up[i] = q[i]
      BY <1>0, <2>2
    <3>2. q[Len(q)] # q[i]
      BY <1>0, <3>1, WayDiffers
    <3> QED
      BY <1>0, <3>1, <3>2
  <2> DEFINE g == WithoutLast(h, chain, up)
             e == EndOf(h, chain, up)
  <2> HIDE DEF g, e
  <2>7. ASSUME KeysMove(h, S, chain, g) PROVE InPlace(h, D, up, e, x, g)
    <3>1. \A i \in 1 .. Len(up) : g[up[i]].key = h[up[i]].key
      BY <1>d, <2>6, <2>7 DEF KeysMove
    <3>2. Len(up) \in 1 .. Len(up) /\ \A i \in 1 .. (Len(up) - 1) : i \in 1 .. Len(up)
      BY <2>2
    <3> QED
      BY <3>1, <3>2 DEF InPlace, Fits
  <2>8. KeysMove(h, S, chain, g) => InPlace(h, D, up, e, chain[Len(chain)], g)
    BY <1>d, <2>7
  <2>9. Removed(N, h, out, S, chain[1])
    BY <2>3, <2>5, <2>8, Unhooked DEF g, e
  <2> QED
    BY <1>d, <2>9 DEF chain, up
<1> QED
  BY <1>0, <1>2, <1>3

(* A node without a left child takes what its right one holds. *)
WayFound(h, S, r, q, x) ==
  /\ Route(h, S, q) /\ q[Len(q)] = x /\ q[1] = r /\ x \in S
  /\ Len(q) \in Nat /\ Len(q) >= 1
  /\ \A i \in 1 .. Len(q) : q[i] \in S /\ (i # Len(q) => q[i] # x)
LEMMA FoundIs ==
  ASSUME NEW N, Nodal(N), NEW h \in Heaps(N), NEW S, S \subseteq N, NEW r,
         NEW D, Descends(h, S, D, r), NEW q, NEW x, Found(h, S, D, r, q, x)
  PROVE  WayFound(h, S, r, q, x)
<1>1. Route(h, S, q) /\ q[Len(q)] = x /\ q[1] = r
  BY DEF Found, WayTo
<1>2. q \in Seq(S) /\ q # <<>>
  BY <1>1 DEF Route
<1>3. Len(q) \in Nat /\ Len(q) >= 1 /\ \A i \in 1 .. Len(q) : q[i] \in S
  BY <1>2
<1>4. ASSUME NEW i \in 1 .. Len(q), i # Len(q) PROVE q[i] # x
  <2>1. Len(q) \in (i + 1) .. Len(q)
    BY <1>3, <1>4
  <2>2. q[Len(q)] # q[i]
    BY <1>1, <2>1, WayDiffers
  <2> QED
    BY <1>1, <2>2
<1> QED
  BY <1>1, <1>3, <1>4 DEF WayFound

LEMMA RightTakesOver ==
  ASSUME NEW N, Nodal(N), NEW h \in Heaps(N), NEW S, S \subseteq N, NEW r,
         NEW D, Descends(h, S, D, r), NEW q, NEW x, Found(h, S, D, r, q, x), h[x].height > 1,
         h[x].left = Null
  PROVE  Removed(N, h, Unchain(h, <<x, h[x].right>>, q), S, x)
<1> DEFINE z == h[x].right
           chain == <<x, z>>
<1>1. /\ Route(h, S, q) /\ q[Len(q)] = x /\ q[1] = r /\ x \in S
      /\ Len(q) \in Nat /\ Len(q) >= 1
      /\ \A i \in 1 .. Len(q) : q[i] \in S /\ (i # Len(q) => q[i] # x)
  <2>1. WayFound(h, S, r, q, x)
    BY FoundIs
  <2> QED
    BY <2>1 DEF WayFound
<1>2. z # Null /\ FreeLeaf(h, z)
  <2>1. LeafRight(h, x)
    BY <1>1, LeavesAre
  <2>2. h[x].height # 1
    BY <1>1, Childs
  <2>3. z # Null
    BY <2>1, <2>2 DEF LeafRight
  <2>4. "right" \in Sides /\ h[x][Other("right")] = Null /\ h[x]["right"] # Null
    BY <2>3 DEF Sides, Other
  <2>5. FreeLeaf(h, h[x]["right"])
    BY <2>1, <2>4 DEF LeafRight
  <2> QED
    BY <2>3, <2>5
<1>3. /\ D[x] = {x} \union {z} \union D[z] /\ x # z /\ z \in S
  <2> DEFINE s == "right"
  <2>1. s \in Sides
    BY DEF Sides
  <2> HIDE DEF s
  <2>2. Child(h, S, D, x, s)
    BY <1>1, <2>1, ChildIn
  <2>3. z \in S
    BY <1>2, <2>2 DEF Child, s
  <2>4. /\ NodeRight(h, D, x) /\ NodeRight(h, D, z)
    BY <1>1, <2>3 DEF Descends
  <2>5. Under(D, z) = D[z] /\ Under(D, h[x].left) = {}
    BY <1>2 DEF Under
  <2>6. z \in D[z]
    BY <2>4 DEF NodeRight
  <2> QED
    BY <2>3, <2>4, <2>5, <2>6 DEF NodeRight
<1> HIDE DEF z
<1>4. ChainIn(S, chain) /\ Len(chain) = 2 /\ chain[1] = x /\ chain[2] = z
  BY <1>1, <1>3 DEF ChainIn
<1> HIDE DEF chain
<1>5. Handed(h, S, D, chain, q)
  <2>1. z \in {h[x].left, h[x].right}
    BY DEF z
  <2>2. ASSUME NEW i \in 1 .. (2 - 1)
        PROVE  chain[i + 1] \in D[chain[i]] /\ \E j \in 1 .. Len(q) : chain[i] = q[j]
    <3>1. i = 1 /\ Len(q) \in 1 .. Len(q) /\ i + 1 = 2
      BY <1>1, <2>2
    <3> QED
      BY <1>1, <1>3, <1>4, <3>1
  <2> QED
    BY <1>1, <1>2, <1>4, <2>1, <2>2 DEF Handed
<1> DEFINE g == WithoutLast(h, chain, q)
           e == EndOf(h, chain, q)
<1>6. Under(D, h[x][Other(e)]) = {}
  <2>1. e = "right"
    BY <1>1, <1>2, <1>4 DEF EndOf
  <2> QED
    BY <2>1 DEF Other, Under
<1> HIDE DEF g, e
<1>7. ASSUME KeysMove(h, S, chain, g) PROVE InPlace(h, D, q, e, z, g)
  <2>1. Fits(h, g, D, q[Len(q)], z, e)
    BY <1>1, <1>6 DEF Fits
  <2>2. ASSUME NEW i \in 1 .. (Len(q) - 1) PROVE g[q[i]].key = h[q[i]].key
    <3>1. i \in 1 .. Len(q) /\ i # Len(q)
      BY <1>1
    <3>2. q[i] \in S /\ q[i] # x
      BY <1>1, <3>1
    <3>3. q[i] # z
      <4>1. /\ \A j \in i .. Len(q) : q[j] \in D[q[i]]
        BY <1>1, <3>1, RouteDown
      <4>2. x \in D[q[i]]
        <5>1. Len(q) \in i .. Len(q)
          BY <1>1
        <5> QED
          BY <1>1, <4>1, <5>1
      <4>3. D[z] = {z}
        <5>1. NodeRight(h, D, z)
          BY <1>3 DEF Descends
        <5> QED
          BY <1>2, <5>1 DEF NodeRight, FreeLeaf, Under
      <4> QED
        BY <1>3, <4>2, <4>3
    <3>4. \A j \in 1 .. 2 : q[i] # chain[j]
      <4>1. \A j \in 1 .. 2 : j = 1 \/ j = 2
        OBVIOUS
      <4> QED
        BY <1>4, <3>2, <3>3, <4>1
    <3> QED
      BY <1>4, <1>7, <3>2, <3>4 DEF KeysMove
  <2> QED
    BY <2>1, <2>2 DEF InPlace
<1>8. KeysMove(h, S, chain, g) => InPlace(h, D, q, e, chain[Len(chain)], g)
  BY <1>4, <1>7
<1>9. Removed(N, h, Unchain(h, chain, q), S, chain[1])
  <2>1. q[1] = r
    BY <1>1
  <2> QED
    BY <1>5, <1>8, <2>1, Unhooked DEF g, e
<1> QED
  BY <1>4, <1>9 DEF chain, z

(* A node with a left child takes what its predecessor, y, holds. *)
Spined(N, h, S, D, r, q, x, l, p, y) ==
  /\ WayFound(h, S, r, q, x) /\ l = h[x].left /\ l # Null
  /\ SpineRight(h, S, D, l, p) /\ p[Len(p)] = y
Predecessor(h, S, D, x, y) ==
  /\ x \in S /\ y \in S /\ h[y].right = Null /\ y \in Under(D, h[x].left) /\ y \in D[x] /\ x # y
  /\ x \notin Under(D, h[x].left) /\ Under(D, h[x].left) \subseteq S
  /\ \A w \in Under(D, h[x].left) : w # y => h[w].key < h[y].key
LEMMA PredecessorIs ==
  ASSUME NEW N, Nodal(N), NEW h \in Heaps(N), NEW S, S \subseteq N, NEW r,
         NEW D, Descends(h, S, D, r), NEW q, NEW x, NEW l, NEW p, NEW y,
         Spined(N, h, S, D, r, q, x, l, p, y)
  PROVE  Predecessor(h, S, D, x, y)
<1>1. /\ x \in S /\ l = h[x].left /\ l # Null /\ Route(h, S, p) /\ h[y].right = Null /\ Greatest(h, D, l, y)
      /\ p[Len(p)] = y
  BY DEF Spined, SpineRight, WayFound
<1>2. /\ NodeRight(h, D, x) /\ h[x].left \in S \union {Null} /\ D \in [S -> SUBSET S]
  BY <1>1 DEF Descends
<1>3. Under(D, h[x].left) = D[l] /\ l \in S
  BY <1>1, <1>2 DEF Under
<1>4. y \in S
  <2>1. p \in Seq(S) /\ p # <<>>
    BY <1>1 DEF Route
  <2> QED
    BY <1>1, <2>1
<1>5. /\ x \notin D[l] /\ D[l] \subseteq D[x] /\ D[l] \subseteq S
  BY <1>2, <1>3 DEF NodeRight
<1>6. /\ y \in D[l] /\ \A w \in D[l] : w # y => h[w].key < h[y].key
  BY <1>1 DEF Greatest
<1> QED
  BY <1>1, <1>3, <1>4, <1>5, <1>6 DEF Predecessor

(* x, which takes the key of y, is in place. *)
LEMMA TakesOver ==
  ASSUME NEW N, Nodal(N), NEW h \in Heaps(N), NEW S, S \subseteq N, NEW r,
         NEW D, Descends(h, S, D, r), NEW x, NEW y, Predecessor(h, S, D, x, y), NEW g, NEW z,
         g[x].key = h[y].key, \A w \in S : w # x /\ w # y /\ w # z => g[w].key = h[w].key,
         y # z => g[y].key = h[z].key /\ z \in Under(D, h[x].left)
  PROVE  Lowered(h, g, D, x, z)
<1> DEFINE A == Under(D, h[x].left)
<1>1. ASSUME NEW w \in A, w # z PROVE g[w].key < h[y].key
  <2>1. CASE w = y
    <3>1. g[w].key = h[z].key /\ z \in A /\ z # y
      BY <1>1, <2>1
    <3> QED
      BY <3>1 DEF Predecessor
  <2>2. CASE w # y
    <3>1. w # x /\ w \in S
      BY <2>2 DEF Predecessor
    <3> QED
      BY <1>1, <2>2, <3>1 DEF Predecessor
  <2> QED
    BY <2>1, <2>2
<1> QED
  BY <1>1 DEF Lowered, Predecessor

LEMMA FrontJoins ==
  ASSUME NEW S, NEW q \in Seq(S), NEW p \in Seq(S), p # <<>>
  PROVE  q \o Front(p) = Front(q \o p)
<1> DEFINE a == Front(p)
           w == q \o p
           b == Front(w)
           u == q \o a
           m == Len(q)
           n == Len(p)
<1>1. m \in Nat /\ n \in Nat /\ n >= 1
  OBVIOUS
<1>2. a \in Seq(S) /\ Len(a) = n - 1 /\ \A i \in 1 .. (n - 1) : a[i] = p[i]
  <2>1. a \in Seq(S) /\ Shortened(p, a)
    BY FrontIs
  <2> QED
    BY <2>1 DEF Shortened
<1>3. w \in Seq(S) /\ Len(w) = m + n /\ \A i \in 1 .. (m + n) : w[i] = IF i <= m THEN q[i] ELSE p[i - m]
  BY ConcatProperties
<1>4. w # <<>>
  BY <1>1, <1>3
<1> HIDE DEF w, a
<1>5. b \in Seq(S) /\ Len(b) = (m + n) - 1 /\ \A i \in 1 .. ((m + n) - 1) : b[i] = w[i]
  <2>1. b \in Seq(S) /\ Shortened(w, b)
    BY <1>3, <1>4, FrontIs
  <2> QED
    BY <1>3, <2>1 DEF Shortened
<1>6. u \in Seq(S) /\ Len(u) = m + Len(a) /\ \A i \in 1 .. (m + Len(a)) : u[i] = IF i <= m THEN q[i] ELSE a[i - m]
  BY <1>2, ConcatProperties
<1> HIDE DEF b, u, m, n
<1>7. Len(u) = Len(b) /\ Len(b) = (m + n) - 1 /\ m + Len(a) = (m + n) - 1
  BY <1>1, <1>2, <1>5, <1>6
<1>8. ASSUME NEW i \in 1 .. Len(u) PROVE u[i] = b[i]
  <2>1. i \in 1 .. (m + Len(a)) /\ i \in 1 .. (m + n) /\ i \in 1 .. ((m + n) - 1)
    BY <1>1, <1>7
  <2>2. b[i] = IF i <= m THEN q[i] ELSE p[i - m]
    BY <1>3, <1>5, <2>1
  <2>3. u[i] = IF i <= m THEN q[i] ELSE a[i - m]
    BY <1>6, <2>1
  <2>4. ~ (i <= m) => i - m \in 1 .. (n - 1)
    BY <1>1, <2>1
  <2> QED
    BY <1>2, <2>2, <2>3, <2>4
<1>9. u = b
  BY <1>5, <1>6, <1>7, <1>8, SeqEqual
<1> QED
  BY <1>9 DEF u, b, a, w

(* The way through x down to y. *)
Through(h, S, D, r, w, m, x, y) ==
  /\ Route(h, S, w) /\ w[1] = r /\ m \in 1 .. (Len(w) - 1) /\ w[m] = x /\ w[m + 1] = h[x].left
  /\ w[Len(w)] = y /\ Len(w) \in Nat /\ Len(w) > 1
  /\ \A i \in 1 .. Len(w) : w[i] \in S /\ (i # m => w[i] # x) /\ (i # Len(w) => w[i] # y)
LEMMA WayThrough ==
  ASSUME NEW N, Nodal(N), NEW h \in Heaps(N), NEW S, S \subseteq N, NEW r,
         NEW D, Descends(h, S, D, r), NEW q, NEW x, NEW l, NEW p, NEW y,
         Spined(N, h, S, D, r, q, x, l, p, y)
  PROVE  Through(h, S, D, r, q \o p, Len(q), x, y)
<1> DEFINE w == q \o p
           m == Len(q)
           k == Len(w)
<1>1. /\ Route(h, S, q) /\ q[m] = x /\ q[1] = r /\ m \in Nat /\ m >= 1 /\ x \in S
      /\ l = h[x].left /\ Route(h, S, p) /\ p[1] = l /\ p[Len(p)] = y
  BY DEF Spined, SpineRight, WayFound
<1>2. Route(h, S, w) /\ WaysJoined(q, p, w)
  <2> DEFINE s == "left"
  <2>1. s \in Sides /\ p[1] = h[q[Len(q)]][s]
    BY <1>1 DEF Sides
  <2> HIDE DEF s
  <2> QED
    BY <1>1, <2>1, WaysJoin
<1> HIDE DEF w
<1>3. /\ k = m + Len(p) /\ Len(p) \in Nat /\ Len(p) >= 1
      /\ (\A i \in 1 .. m : w[i] = q[i]) /\ (\A i \in 1 .. Len(p) : w[m + i] = p[i])
  BY <1>2 DEF WaysJoined
<1>4. w[1] = r /\ w[m] = x /\ w[m + 1] = h[x].left /\ w[k] = y /\ k \in Nat /\ k > 1 /\ m \in 1 .. (k - 1)
  BY <1>1, <1>3
<1> HIDE DEF m
<1>5. \A i \in 1 .. k : w[i] \in S
  BY <1>2 DEF Route
<1>6. \A i \in 1 .. k : \A j \in (i + 1) .. k : w[j] # w[i]
  BY <1>2, WayDiffers
<1>7. ASSUME NEW i \in 1 .. k, NEW j \in 1 .. k, i # j PROVE w[i] # w[j]
  <2>1. i \in Int /\ j \in Int
    OBVIOUS
  <2>2. CASE i < j
    <3>1. j \in (i + 1) .. k
      BY <1>4, <2>2
    <3> QED
      BY <1>6, <3>1
  <2>3. CASE j < i
    <3>1. i \in (j + 1) .. k
      BY <1>4, <2>3
    <3> QED
      BY <1>6, <3>1
  <2> QED
    BY <1>7, <2>1, <2>2, <2>3
<1>8. m \in 1 .. k /\ k \in 1 .. k
  BY <1>4
<1>9. \A i \in 1 .. k : (i # m => w[i] # x) /\ (i # k => w[i] # y)
  BY <1>4, <1>7, <1>8
<1> QED
  BY <1>2, <1>4, <1>5, <1>9 DEF Through, m, w

LEMMA PredecessorLeaves ==
  ASSUME NEW N, Nodal(N), NEW h \in Heaps(N), NEW S, S \subseteq N, NEW r,
         NEW D, Descends(h, S, D, r), NEW w, NEW m, NEW x, NEW y,
         Through(h, S, D, r, w, m, x, y), Predecessor(h, S, D, x, y), h[y].left = Null
  PROVE  Removed(N, h, Unchain(h, <<x, y>>, Front(w)), S, x)
<1> DEFINE chain == <<x, y>>
           up == Front(w)
           k == Len(w)
<1>1. /\ Route(h, S, w) /\ w[1] = r /\ m \in 1 .. (k - 1) /\ w[m] = x /\ w[m + 1] = h[x].left
      /\ w[k] = y /\ k \in Nat /\ k > 1
      /\ \A i \in 1 .. k : w[i] \in S /\ (i # m => w[i] # x) /\ (i # k => w[i] # y)
  BY DEF Through
<1>2. /\ x \in S /\ y \in S /\ h[y].right = Null /\ y \in D[x] /\ x # y
  BY DEF Predecessor
<1>3. FreeLeaf(h, y)
  <2>1. LeafRight(h, y)
    BY <1>2, LeavesAre
  <2> QED
    BY <1>2, <2>1 DEF LeafRight, FreeLeaf
<1>4. ChainIn(S, chain) /\ Len(chain) = 2 /\ chain[1] = x /\ chain[2] = y
  BY <1>2 DEF ChainIn
<1> HIDE DEF chain
<1>5. Route(h, S, up) /\ Shortened(w, up)
  BY <1>1, WayFront
<1> HIDE DEF up
<1>6. /\ Len(up) = k - 1 /\ Len(up) \in Nat /\ Len(up) >= 1
      /\ \A i \in 1 .. (k - 1) : up[i] = w[i]
  BY <1>1, <1>5 DEF Shortened
<1> HIDE DEF k
<1>7. up[1] = r /\ up[m] = x /\ m \in 1 .. Len(up) /\ \A i \in 1 .. Len(up) : up[i] = w[i] /\ i \in 1 .. k /\ i # k
  BY <1>1, <1>6
<1> DEFINE f == up[Len(up)]
<1>8. y \in {h[f].left, h[f].right}
  <2>1. k - 1 \in 1 .. (k - 1) /\ (k - 1) + 1 = k
    BY <1>1
  <2>2. PICK s \in Sides : w[k] = h[w[k - 1]][s]
    BY <1>1, <2>1 DEF Route, k
  <2>3. f = w[k - 1]
    BY <1>6, <2>1
  <2> QED
    BY <1>1, <2>2, <2>3 DEF Sides
<1>9. Handed(h, S, D, chain, up)
  <2>1. ASSUME NEW i \in 1 .. (2 - 1)
        PROVE  chain[i + 1] \in D[chain[i]] /\ \E j \in 1 .. Len(up) : chain[i] = up[j]
    <3>1. i = 1 /\ i + 1 = 2
      BY <2>1
    <3> QED
      BY <1>2, <1>4, <1>7, <3>1
  <2> QED
    BY <1>3, <1>4, <1>5, <1>8, <2>1 DEF Handed
<1> DEFINE g == WithoutLast(h, chain, up)
           e == EndOf(h, chain, up)
<1>10. f = x => e = "left"
  <2>1. ASSUME f = x PROVE h[f].left = y
    <3>1. Len(up) = m
      BY <1>1, <1>6, <1>7, <2>1
    <3>2. w[m + 1] = y
      BY <1>1, <1>6, <3>1
    <3> QED
      BY <1>1, <2>1, <3>2
  <2> QED
    BY <1>4, <2>1 DEF EndOf
<1> HIDE DEF g, e
<1>11. ASSUME KeysMove(h, S, chain, g) PROVE InPlace(h, D, up, e, y, g)
  <2>1. g[x].key = h[y].key
    <3>1. 1 \in 1 .. (Len(chain) - 1) /\ 1 + 1 = 2
      BY <1>4
    <3>2. g[chain[1]].key = h[chain[1 + 1]].key
      BY <1>11, <3>1 DEF KeysMove
    <3> QED
      BY <1>4, <3>1, <3>2
  <2>2. \A v \in S : v # x /\ v # y => g[v].key = h[v].key
    <3>1. \A j \in 1 .. 2 : j = 1 \/ j = 2
      OBVIOUS
    <3> QED
      BY <1>4, <1>11, <3>1 DEF KeysMove
  <2>3. Lowered(h, g, D, x, y)
    <3> DEFINE z == y
    <3>1. /\ g[x].key = h[y].key
          /\ \A v \in S : v # x /\ v # y /\ v # z => g[v].key = h[v].key
          /\ y # z => g[y].key = h[z].key /\ z \in Under(D, h[x].left)
      BY <2>1, <2>2
    <3> HIDE DEF z
    <3>2. Lowered(h, g, D, x, z)
      BY <3>1, TakesOver
    <3> QED
      BY <3>2 DEF z
  <2>4. ASSUME NEW i \in 1 .. Len(up), up[i] # x PROVE g[up[i]].key = h[up[i]].key
    BY <1>1, <1>7, <2>2, <2>4
  <2>5. Fits(h, g, D, up[Len(up)], y, e)
    <3>1. CASE f = x
      BY <1>10, <2>3, <3>1 DEF Fits
    <3>2. CASE f # x
      <4>1. Len(up) \in 1 .. Len(up)
        BY <1>6
      <4> QED
        BY <2>4, <3>2, <4>1 DEF Fits
    <3> QED
      BY <3>1, <3>2
  <2>6. ASSUME NEW i \in 1 .. (Len(up) - 1)
        PROVE  \/ g[up[i]].key = h[up[i]].key
               \/ up[i + 1] = h[up[i]].left /\ Lowered(h, g, D, up[i], y)
    <3>0. i \in 1 .. Len(up) /\ i + 1 \in 1 .. Len(up)
      BY <1>6
    <3>1. CASE up[i] = x
      <4>1. i = m
        BY <1>1, <1>7, <3>0, <3>1
      <4>2. up[i + 1] = w[m + 1]
        BY <1>7, <3>0, <4>1
      <4> QED
        BY <1>1, <2>3, <3>1, <4>2
    <3>2. CASE up[i] # x
      BY <2>4, <3>0, <3>2
    <3> QED
      BY <3>1, <3>2
  <2> QED
    BY <2>5, <2>6 DEF InPlace
<1>12. KeysMove(h, S, chain, g) => InPlace(h, D, up, e, chain[Len(chain)], g)
  BY <1>4, <1>11
<1>13. Removed(N, h, Unchain(h, chain, up), S, chain[1])
  <2>1. up[1] = r
    BY <1>7
  <2> QED
    BY <1>9, <1>12, <2>1, Unhooked DEF g, e
<1> QED
  BY <1>4, <1>13 DEF chain, up

LEMMA PredecessorHands ==
  ASSUME NEW N, Nodal(N), NEW h \in Heaps(N), NEW S, S \subseteq N, NEW r,
         NEW D, Descends(h, S, D, r), NEW w, NEW m, NEW x, NEW y,
         Through(h, S, D, r, w, m, x, y), Predecessor(h, S, D, x, y), h[y].left # Null
  PROVE  Removed(N, h, Unchain(h, <<x, y, h[y].left>>, w), S, x)
<1> DEFINE z == h[y].left
           chain == <<x, y, z>>
           k == Len(w)
<1>1. /\ Route(h, S, w) /\ w[1] = r /\ m \in 1 .. (k - 1) /\ w[m] = x /\ w[m + 1] = h[x].left
      /\ w[k] = y /\ k \in Nat /\ k > 1
      /\ \A i \in 1 .. k : w[i] \in S /\ (i # m => w[i] # x) /\ (i # k => w[i] # y)
  BY DEF Through
<1>2. /\ x \in S /\ y \in S /\ h[y].right = Null /\ y \in D[x] /\ x # y
      /\ y \in Under(D, h[x].left) /\ x \notin Under(D, h[x].left)
  BY DEF Predecessor
<1>3. z # Null /\ FreeLeaf(h, z)
  <2>1. LeafRight(h, y)
    BY <1>2, LeavesAre
  <2>2. "left" \in Sides /\ h[y][Other("left")] = Null /\ h[y]["left"] # Null
    BY <1>2 DEF Sides, Other
  <2>3. FreeLeaf(h, h[y]["left"])
    BY <2>1, <2>2 DEF LeafRight
  <2> QED
    BY <2>3
<1>z. z \in S /\ z \in D[y] /\ z # y /\ D[z] = {z}
  <2>1. z \in S
    BY <1>2, <1>3 DEF Descends
  <2>2. NodeRight(h, D, y) /\ NodeRight(h, D, z)
    BY <1>2, <2>1 DEF Descends
  <2>3. D[z] = {z}
    BY <1>3, <2>2 DEF NodeRight, FreeLeaf, Under
  <2>4. Under(D, z) = D[z]
    BY <1>3 DEF Under
  <2>5. z \in D[y] /\ y # z
    BY <2>2, <2>3, <2>4 DEF NodeRight
  <2> QED
    BY <2>1, <2>3, <2>5
<1>b. z \in Under(D, h[x].left) /\ z # x
  <2>1. /\ h[x].left \in S \union {Null} /\ \A v \in S : \A u \in D[v] : D[u] \subseteq D[v]
    BY <1>2 DEF Descends
  <2>2. Under(D, h[x].left) = D[h[x].left] /\ h[x].left \in S
    BY <1>2, <2>1 DEF Under
  <2>3. D[y] \subseteq D[h[x].left]
    BY <1>2, <2>1, <2>2
  <2> QED
    BY <1>2, <1>z, <2>2, <2>3
<1> HIDE DEF z
<1>4. ChainIn(S, chain) /\ Len(chain) = 3 /\ chain[1] = x /\ chain[2] = y /\ chain[3] = z
  BY <1>2, <1>z, <1>b, ShortChains
<1> HIDE DEF chain, k
<1>n. ASSUME NEW i \in 1 .. k PROVE w[i] # z
  <2>1. \A a \in 1 .. Len(w) : \A b \in a .. Len(w) : w[b] \in D[w[a]]
    BY <1>1, RouteDown
  <2>2. k \in i .. k
    BY <1>1
  <2>3. y \in D[w[i]]
    BY <1>1, <2>1, <2>2 DEF k
  <2> QED
    BY <1>z, <2>3
<1>9. Handed(h, S, D, chain, w)
  <2>1. ASSUME NEW i \in 1 .. (3 - 1)
        PROVE  chain[i + 1] \in D[chain[i]] /\ \E j \in 1 .. k : chain[i] = w[j]
    <3>1. i = 1 \/ i = 2
      OBVIOUS
    <3>2. m \in 1 .. k /\ k \in 1 .. k
      BY <1>1
    <3>3. CASE i = 1
      <4>1. chain[i] = w[m] /\ i + 1 = 2
        BY <1>1, <1>4, <3>3
      <4> QED
        BY <1>2, <1>4, <3>2, <3>3, <4>1
    <3>4. CASE i = 2
      <4>1. chain[i] = w[k] /\ i + 1 = 3
        BY <1>1, <1>4, <3>4
      <4> QED
        BY <1>z, <1>4, <3>2, <3>4, <4>1
    <3> QED
      BY <3>1, <3>3, <3>4
  <2>2. z \in {h[w[k]].left, h[w[k]].right}
    BY <1>1 DEF z
  <2> QED
    BY <1>1, <1>3, <1>4, <2>1, <2>2 DEF Handed, k
<1> DEFINE g == WithoutLast(h, chain, w)
           e == EndOf(h, chain, w)
<1>10. Under(D, h[y][Other(e)]) = {}
  <2>1. e = "left"
    BY <1>1, <1>4 DEF EndOf, k, z
  <2> QED
    BY <1>2, <2>1 DEF Other, Under
<1> HIDE DEF g, e
<1>11. ASSUME KeysMove(h, S, chain, g) PROVE InPlace(h, D, w, e, z, g)
  <2>1. g[x].key = h[y].key /\ g[y].key = h[z].key
    <3>1. 1 \in 1 .. (Len(chain) - 1) /\ 1 + 1 = 2 /\ 2 \in 1 .. (Len(chain) - 1) /\ 2 + 1 = 3
      BY <1>4
    <3>2. g[chain[1]].key = h[chain[1 + 1]].key /\ g[chain[2]].key = h[chain[2 + 1]].key
      BY <1>11, <3>1 DEF KeysMove
    <3> QED
      BY <1>4, <3>1, <3>2
  <2>2. \A v \in S : v # x /\ v # y /\ v # z => g[v].key = h[v].key
    <3>1. \A j \in 1 .. 3 : j = 1 \/ j = 2 \/ j = 3
      OBVIOUS
    <3> QED
      BY <1>4, <1>11, <3>1 DEF KeysMove
  <2>3. Lowered(h, g, D, x, z)
    <3>1. y # z => g[y].key = h[z].key /\ z \in Under(D, h[x].left)
      BY <1>b, <2>1
    <3> QED
      BY <2>1, <2>2, <3>1, TakesOver
  <2>5. Fits(h, g, D, w[Len(w)], z, e)
    BY <1>1, <1>10 DEF Fits, k
  <2>6. ASSUME NEW i \in 1 .. (k - 1)
        PROVE  \/ g[w[i]].key = h[w[i]].key
               \/ w[i + 1] = h[w[i]].left /\ Lowered(h, g, D, w[i], z)
    <3>0. i \in 1 .. k /\ i + 1 \in 1 .. k /\ i # k /\ w[i] \in S
      BY <1>1
    <3>1. CASE w[i] = x
      <4>1. i = m
        BY <1>1, <3>0, <3>1
      <4> QED
        BY <1>1, <2>3, <3>1, <4>1
    <3>2. CASE w[i] # x
      BY <1>1, <1>n, <2>2, <3>0, <3>2
    <3> QED
      BY <3>1, <3>2
  <2> QED
    BY <2>5, <2>6 DEF InPlace, k
<1>12. KeysMove(h, S, chain, g) => InPlace(h, D, w, e, chain[Len(chain)], g)
  BY <1>4, <1>11
<1>13. Removed(N, h, Unchain(h, chain, w), S, chain[1])
  <2>1. w[1] = r
    BY <1>1
  <2> QED
    BY <1>9, <1>12, <2>1, Unhooked DEF g, e
<1> QED
  BY <1>4, <1>13 DEF chain, z

(* Delete takes out the node that has the key. *)
LEMMA Deleted ==
  ASSUME NEW N, Nodal(N), NEW h \in Heaps(N), Grounded(h), NEW S, S \subseteq N, NEW r, AVL(h, S, r),
         NEW x \in S, NEW key, key = h[x].key
  PROVE  Removed(N, h, Delete(h, r, key), S, x)
<1>1. PICK D : Descends(h, S, D, r)
  BY DEF AVL
<1> DEFINE q == PathTo(h, r, key, FALSE)
           l == h[x].left
           p == RightSpine(h, l)
           y == p[Len(p)]
           w == q \o p
<1>2. Finds(h, S, D, key, r, x)
  BY <1>1, WayToKey
<1>3. Found(h, S, D, r, q, x) /\ q[Len(q)] = x
  BY <1>2 DEF Finds, Found, WayTo
<1> HIDE DEF q
<1>4. WayFound(h, S, r, q, x)
  BY <1>1, <1>3, FoundIs
<1>5. Delete(h, r, key) = TakeOut(h, q, x, p)
  BY <1>3 DEF Delete, Last, q
<1>6. h[x].height \in Nat /\ h[x].height >= 1
  <2>1. LeafRight(h, x)
    BY <1>1, LeavesAre
  <2>2. h[x].height \in Nat
    BY Childs
  <2> QED
    BY <2>1, <2>2 DEF LeafRight
<1>7. CASE h[x].height = 1
  <2>1. TakeOut(h, q, x, p) = Unchain(h, <<x>>, Front(q))
    BY <1>7 DEF TakeOut
  <2>2. Removed(N, h, Unchain(h, <<x>>, Front(q)), S, x)
    BY <1>1, <1>3, <1>7, LeafLeaves
  <2> QED
    BY <1>5, <2>1, <2>2
<1>8. CASE h[x].height > 1 /\ l = Null
  <2>1. p = <<>>
    <3>1. l \in N \union {Null}
      BY <1>8
    <3> HIDE DEF l
    <3>2. Trail(N, p, l, Rightward(h))
      BY <3>1, SpineIs
    <3> QED
      BY <1>8, <3>2 DEF Trail
  <2>2. TakeOut(h, q, x, p) = Unchain(h, <<x, h[x].right>>, q)
    BY <1>6, <1>8, <2>1 DEF TakeOut
  <2>3. Removed(N, h, Unchain(h, <<x, h[x].right>>, q), S, x)
    BY <1>1, <1>3, <1>8, RightTakesOver
  <2> QED
    BY <1>5, <2>2, <2>3
<1>9. CASE h[x].height > 1 /\ l # Null
  <2>1. l \in S
    BY <1>1, <1>9 DEF Descends
  <2> HIDE DEF l
  <2>2. SpineRight(h, S, D, l, p)
    BY <1>1, <2>1, SpineDown
  <2> HIDE DEF p
  <2>3. p \in Seq(S) /\ p # <<>>
    BY <2>2 DEF SpineRight, Route
  <2>4. Spined(N, h, S, D, r, q, x, l, p, y)
    BY <1>4, <1>9, <2>2 DEF Spined, l
  <2>5. Predecessor(h, S, D, x, y)
    BY <1>1, <2>4, PredecessorIs
  <2>6. Through(h, S, D, r, q \o p, Len(q), x, y)
    BY <1>1, <2>4, WayThrough
  <2>7. Last(p) = y
    BY DEF Last
  <2> HIDE DEF y
  <2>8. CASE h[y].left = Null
    <3>1. TakeOut(h, q, x, p) = Unchain(h, <<x, y>>, q \o Front(p))
      BY <1>6, <1>9, <2>3, <2>7, <2>8 DEF TakeOut
    <3>2. q \o Front(p) = Front(q \o p)
      <4>1. q \in Seq(S)
        BY <1>4 DEF WayFound, Route
      <4> QED
        BY <2>3, <4>1, FrontJoins
    <3>3. Removed(N, h, Unchain(h, <<x, y>>, Front(q \o p)), S, x)
      BY <1>1, <2>5, <2>6, <2>8, PredecessorLeaves
    <3> QED
      BY <1>5, <3>1, <3>2, <3>3
  <2>9. CASE h[y].left # Null
    <3>1. TakeOut(h, q, x, p) = Unchain(h, <<x, y, h[y].left>>, q \o p)
      BY <1>6, <1>9, <2>3, <2>7, <2>9 DEF TakeOut
    <3>2. Removed(N, h, Unchain(h, <<x, y, h[y].left>>, q \o p), S, x)
      BY <1>1, <2>5, <2>6, <2>9, PredecessorHands
    <3> QED
      BY <1>5, <3>1, <3>2
  <2> QED
    BY <2>8, <2>9
<1> QED
  BY <1>6, <1>7, <1>8, <1>9
-------------------------------------------------------------------------------
(* Search finds the nodes whose keys are next to one.                      *)
Reached(h, q, j, key, v) ==
  /\ h[v].key <= key => \E i \in 1 .. j : h[q[i]].key <= key /\ h[v].key <= h[q[i]].key
  /\ h[v].key >= key => \E i \in 1 .. j : h[q[i]].key >= key /\ h[v].key >= h[q[i]].key
SearchWay(h, S, D, r, key, q) ==
  /\ q \in Seq(S) /\ q # <<>> /\ q[1] = r /\ Len(q) \in Nat /\ Len(q) >= 1
  /\ \A i \in 1 .. Len(q) : q[i] \in S
  /\ \A i \in 1 .. (Len(q) - 1) : h[q[i]].key # key /\ q[i + 1] = h[q[i]][Toward(h, key, q[i])]
  /\ h[q[Len(q)]].key = key \/ h[q[Len(q)]][Toward(h, key, q[Len(q)])] = Null
LEMMA SearchDown ==
  ASSUME NEW N, Nodal(N), NEW h \in Heaps(N), Grounded(h), NEW S, S \subseteq N, NEW r, r # Null,
         NEW D, Descends(h, S, D, r), NEW key
  PROVE  SearchWay(h, S, D, r, key, PathTo(h, r, key, FALSE))
<1> DEFINE c == Chosen(h, key, FALSE)
           q == PathTo(h, r, key, FALSE)
<1>1. /\ r \in S /\ r # Null /\ r \in N \union {Null} /\ DOMAIN h = N /\ FALSE \in BOOLEAN
      /\ Null \notin N
  BY NullIsNone DEF Descends, Heaps
<1>2. Trail(N, q, r, c)
  BY <1>1, PathToIs
<1>3. /\ \A y \in S : h[y].key # key => c[y] = h[y][Toward(h, key, y)]
      /\ \A y \in S : h[y].key = key => c[y] = Null
  BY <1>1 DEF Chosen, Toward
<1>4. \A y \in S : c[y] \in S \union {Null}
  BY <1>1 DEF Descends, Chosen
<1> HIDE DEF c, q
<1>5. /\ q \in Seq(S) /\ q # <<>> /\ q[1] = r /\ c[q[Len(q)]] = Null
      /\ \A i \in 1 .. (Len(q) - 1) : q[i + 1] = c[q[i]]
      /\ Len(q) \in Nat /\ Len(q) >= 1
  <2>1. r \in S
    BY <1>1
  <2> QED
    BY <2>1, <1>2, <1>4, TrailStays
<1>6. \A i \in 1 .. Len(q) : q[i] \in S
  BY <1>5
<1>7. ASSUME NEW i \in 1 .. (Len(q) - 1)
      PROVE  h[q[i]].key # key /\ q[i + 1] = h[q[i]][Toward(h, key, q[i])]
  <2>1. i \in 1 .. Len(q) /\ q[i] \in S /\ i + 1 \in 1 .. Len(q) /\ q[i + 1] \in S
    BY <1>5, <1>6
  <2>2. q[i + 1] = c[q[i]] /\ q[i + 1] # Null
    BY <1>1, <1>5, <2>1
  <2> QED
    BY <1>3, <2>1, <2>2
<1>8. h[q[Len(q)]].key = key \/ h[q[Len(q)]][Toward(h, key, q[Len(q)])] = Null
  <2>1. q[Len(q)] \in S
    BY <1>5, <1>6
  <2> QED
    BY <1>3, <1>5, <2>1
<1>9. SearchWay(h, S, D, r, key, q)
  BY <1>5, <1>6, <1>7, <1>8 DEF SearchWay
<1> QED
  BY <1>9 DEF q

(* What one step of a search leaves aside. *)
LEMMA SearchStep ==
  ASSUME NEW N, Nodal(N), NEW h \in Heaps(N), NEW S, S \subseteq N, NEW r,
         NEW D, Descends(h, S, D, r), NEW f \in S, NEW key \in Int, NEW v \in D[f]
  PROVE  \/ h[f].key # key /\ h[f][Toward(h, key, f)] \in S /\ v \in D[h[f][Toward(h, key, f)]]
         \/ /\ h[v].key <= key => h[f].key <= key /\ h[v].key <= h[f].key
            /\ h[v].key >= key => h[f].key >= key /\ h[v].key >= h[f].key
<1> DEFINE A == Under(D, h[f].left)
           B == Under(D, h[f].right)
<1>1. NodeRight(h, D, f) /\ h[f].left \in S \union {Null} /\ h[f].right \in S \union {Null} /\ D \in [S -> SUBSET S]
  BY DEF Descends
<1>2. /\ D[f] = {f} \union A \union B /\ A \subseteq S /\ B \subseteq S
      /\ (\A y \in A : h[y].key < h[f].key) /\ (\A y \in B : h[y].key > h[f].key)
  BY <1>1 DEF NodeRight, OnSide, Under
<1>3. h[f].key \in Int /\ \A y \in S : h[y].key \in Int
  BY Childs
<1>4. /\ A # {} => h[f].left \in S /\ A = D[h[f].left]
      /\ B # {} => h[f].right \in S /\ B = D[h[f].right]
  BY <1>1 DEF Under
<1> HIDE DEF A, B
<1>5. v \in S /\ h[v].key \in Int
  BY <1>2, <1>3
<1>6. CASE v = f
  BY <1>5, <1>6
<1>7. CASE v \in A
  <2>1. h[v].key < h[f].key
    BY <1>2, <1>7
  <2>2. CASE key < h[f].key
    <3>1. key # h[f].key /\ Toward(h, key, f) = "left"
      BY <1>3, <2>2 DEF Toward
    <3> QED
      BY <1>4, <1>7, <3>1
  <2>3. CASE key >= h[f].key
    BY <1>3, <1>5, <2>1, <2>3
  <2> QED
    BY <1>3, <2>2, <2>3
<1>8. CASE v \in B
  <2>1. h[v].key > h[f].key
    BY <1>2, <1>8
  <2>2. CASE key > h[f].key
    <3>1. key # h[f].key /\ Toward(h, key, f) = "right"
      BY <1>3, <2>2 DEF Toward
    <3> QED
      BY <1>4, <1>8, <3>1
  <2>3. CASE key <= h[f].key
    BY <1>3, <1>5, <2>1, <2>3
  <2> QED
    BY <1>3, <2>2, <2>3
<1> QED
  BY <1>2, <1>6, <1>7, <1>8

LEMMA SearchReaches ==
  ASSUME NEW N, Nodal(N), NEW h \in Heaps(N), NEW S, S \subseteq N, NEW r,
         NEW D, Descends(h, S, D, r), NEW key \in Int, NEW q, SearchWay(h, S, D, r, key, q)
  PROVE  \A v \in S : Reached(h, q, Len(q), key, v)
<1> DEFINE n == Len(q)
<1>1. /\ q[1] = r /\ n \in Nat /\ n >= 1
      /\ \A i \in 1 .. n : q[i] \in S
      /\ \A i \in 1 .. (n - 1) : h[q[i]].key # key /\ q[i + 1] = h[q[i]][Toward(h, key, q[i])]
      /\ h[q[n]].key = key \/ h[q[n]][Toward(h, key, q[n])] = Null
  BY DEF SearchWay
<1>s. Null \notin S /\ D[r] = S
  <2>1. r \in S /\ Null \notin S
    BY <1>1, NullIsNone
  <2> QED
    BY <2>1 DEF Descends, Under
<1> HIDE DEF n
<1> DEFINE Known(j) == \A v \in S : v \in D[q[j]] \/ Reached(h, q, j, key, v)
           Good == {j \in Nat : j + 1 <= n => Known(j + 1)}
<1>2. 0 \in Good
  BY <1>1, <1>s
<1>3. ASSUME NEW j \in 1 .. n, NEW v \in D[q[j]],
             ~ (h[q[j]].key # key /\ h[q[j]][Toward(h, key, q[j])] \in S /\ v \in D[h[q[j]][Toward(h, key, q[j])]])
      PROVE  Reached(h, q, j, key, v)
  <2> DEFINE f == q[j]
  <2>1. f \in S /\ v \in D[f]
    BY <1>1
  <2>2. ~ (h[f].key # key /\ h[f][Toward(h, key, f)] \in S /\ v \in D[h[f][Toward(h, key, f)]])
    BY <1>3
  <2> HIDE DEF f
  <2>3. /\ h[v].key <= key => h[f].key <= key /\ h[v].key <= h[f].key
        /\ h[v].key >= key => h[f].key >= key /\ h[v].key >= h[f].key
    BY <2>1, <2>2, SearchStep
  <2>4. j \in 1 .. j
    BY <1>1
  <2> QED
    BY <2>3, <2>4 DEF Reached, f
<1>4. ASSUME NEW j \in 1 .. n, NEW k \in 1 .. n, j <= k, NEW v, Reached(h, q, j, key, v)
      PROVE  Reached(h, q, k, key, v)
  <2>1. \A i \in 1 .. j : i \in 1 .. k
    BY <1>1, <1>4
  <2> QED
    BY <1>4, <2>1 DEF Reached
<1>5. ASSUME NEW j \in Nat, j \in Good PROVE (j + 1) \in Good
  <2> SUFFICES ASSUME (j + 1) + 1 <= n, NEW v \in S, v \notin D[q[(j + 1) + 1]]
               PROVE  Reached(h, q, (j + 1) + 1, key, v)
    OBVIOUS
  <2> DEFINE k == j + 1
  <2>1. k \in 1 .. n /\ k \in 1 .. (n - 1) /\ k + 1 \in 1 .. n /\ k <= k + 1 /\ Known(k)
    BY <1>1, <1>5
  <2> HIDE DEF k, Good
  <2>2. Reached(h, q, k, key, v)
    <3>1. CASE v \in D[q[k]]
      <4>1. v \notin D[h[q[k]][Toward(h, key, q[k])]]
        BY <1>1, <2>1 DEF k
      <4> QED
        BY <1>3, <2>1, <3>1, <4>1
    <3>2. CASE v \notin D[q[k]]
      BY <2>1, <3>2
    <3> QED
      BY <3>1, <3>2
  <2>3. Reached(h, q, k + 1, key, v)
    BY <1>4, <2>1, <2>2
  <2> QED
    BY <2>3 DEF k
<1> HIDE DEF Good
<1>6. Nat \subseteq Good
  BY <1>2, <1>5, InductionOn
<1>7. Known(n)
  <2>1. n - 1 \in Good /\ (n - 1) + 1 = n /\ n <= n
    BY <1>1, <1>6
  <2> QED
    BY <2>1 DEF Good
<1>8. ASSUME NEW v \in S PROVE Reached(h, q, n, key, v)
  <2>1. CASE v \in D[q[n]]
    <3>1. n \in 1 .. n
      BY <1>1
    <3> QED
      BY <1>1, <1>3, <1>s, <2>1, <3>1
  <2>2. CASE v \notin D[q[n]]
    BY <1>7, <2>2
  <2> QED
    BY <2>1, <2>2
<1> QED
  BY <1>8 DEF n

LEMMA SearchNarrows ==
  ASSUME NEW N, Nodal(N), NEW h \in Heaps(N), NEW S, S \subseteq N, NEW r,
         NEW D, Descends(h, S, D, r), NEW key \in Int, NEW q, SearchWay(h, S, D, r, key, q),
         NEW i \in 1 .. Len(q), NEW j \in 1 .. Len(q), i < j
  PROVE  /\ h[q[i]].key <= key => h[q[j]].key > h[q[i]].key
         /\ h[q[i]].key >= key => h[q[j]].key < h[q[i]].key
<1>1. /\ q \in Seq(S) /\ q # <<>> /\ Len(q) \in Nat
      /\ \A k \in 1 .. Len(q) : q[k] \in S
      /\ \A k \in 1 .. (Len(q) - 1) : h[q[k]].key # key /\ q[k + 1] = h[q[k]][Toward(h, key, q[k])]
  BY DEF SearchWay
<1>2. Route(h, S, q)
  <2>1. \A x : Toward(h, key, x) \in Sides
    BY DEF Toward, Sides
  <2> QED
    BY <1>1, <2>1 DEF Route
<1>3. i \in 1 .. (Len(q) - 1) /\ i + 1 \in 1 .. Len(q) /\ j \in (i + 1) .. Len(q)
  BY <1>1
<1>4. q[j] \in D[q[i + 1]]
  <2>1. \A a \in 1 .. Len(q) : \A b \in a .. Len(q) : q[b] \in D[q[a]]
    BY <1>2, RouteDown
  <2> QED
    BY <1>3, <2>1
<1> DEFINE f == q[i]
           v == q[j]
<1>5. /\ f \in S /\ v \in S /\ h[f].key # key /\ h[f][Toward(h, key, f)] \in S
      /\ v \in D[h[f][Toward(h, key, f)]]
  BY <1>1, <1>3, <1>4
<1> HIDE DEF f, v
<1>6. h[f].key \in Int /\ h[v].key \in Int /\ NodeRight(h, D, f) /\ Null \notin S
  BY <1>5, Childs, NullIsNone DEF Descends
<1>7. CASE key < h[f].key
  <2>1. Toward(h, key, f) = "left"
    BY <1>6, <1>7 DEF Toward
  <2>2. v \in Under(D, h[f].left)
    BY <1>5, <1>6, <2>1 DEF Under
  <2>3. h[v].key < h[f].key
    BY <1>6, <2>2 DEF NodeRight, OnSide
  <2> QED
    BY <1>6, <1>7, <2>3 DEF f, v
<1>8. CASE key > h[f].key
  <2>1. Toward(h, key, f) = "right"
    BY <1>6, <1>8 DEF Toward
  <2>2. v \in Under(D, h[f].right)
    BY <1>5, <1>6, <2>1 DEF Under
  <2>3. h[v].key > h[f].key
    BY <1>6, <2>2 DEF NodeRight, OnSide
  <2> QED
    BY <1>6, <1>8, <2>3 DEF f, v
<1> QED
  BY <1>5, <1>6, <1>7, <1>8

NextBefore(h, S, key, n) ==
  IF n = Null THEN \A v \in S : h[v].key > key
  ELSE n \in S /\ h[n].key <= key /\ \A v \in S : h[v].key <= key => h[v].key <= h[n].key
NextAfter(h, S, key, n) ==
  IF n = Null THEN \A v \in S : h[v].key < key
  ELSE n \in S /\ h[n].key >= key /\ \A v \in S : h[v].key >= key => h[v].key >= h[n].key
LowestOf(is, path) == IF is = {} THEN Null ELSE path[CHOOSE i \in is : \A j \in is : j <= i]
LEMMA LowestIs ==
  ASSUME NEW n \in Nat, NEW is, is \subseteq 1 .. n, NEW path, is # {}
  PROVE  \E i \in is : LowestOf(is, path) = path[i] /\ \A j \in is : j <= i
<1>1. is \subseteq Nat /\ \A i \in is : i <= n
  OBVIOUS
<1>2. \E i \in is : \A j \in is : j <= i
  BY <1>1, LargestOf
<1> DEFINE m == CHOOSE i \in is : \A j \in is : j <= i
<1>3. m \in is /\ \A j \in is : j <= m
  BY <1>2
<1>4. LowestOf(is, path) = path[m]
  BY DEF LowestOf
<1> QED
  BY <1>3, <1>4

Searched(h, S, key, near) == NextBefore(h, S, key, near.prev) /\ NextAfter(h, S, key, near.next)
LEMMA SearchIs ==
  ASSUME NEW N, Nodal(N), NEW h \in Heaps(N), Grounded(h), NEW S, S \subseteq N, NEW r, AVL(h, S, r),
         NEW key \in Int
  PROVE  Searched(h, S, key, Search(h, r, key))
<1> DEFINE q == PathTo(h, r, key, FALSE)
           before == {i \in DOMAIN q : h[q[i]].key <= key}
           after == {i \in DOMAIN q : h[q[i]].key >= key}
           near == Search(h, r, key)
<1>1. near.prev = LowestOf(before, q) /\ near.next = LowestOf(after, q)
  BY DEF Search, LowestOf
<1>2. PICK D : Descends(h, S, D, r)
  BY DEF AVL
<1> HIDE DEF near
<1>3. CASE r = Null
  <2>1. S = {}
    BY <1>3, EmptyTree
  <2>2. q = <<>>
    <3>1. r \in N \union {Null} /\ FALSE \in BOOLEAN
      BY <1>3
    <3>2. Trail(N, q, r, Chosen(h, key, FALSE))
      BY <3>1, PathToIs
    <3> QED
      BY <1>3, <3>2 DEF Trail
  <2> HIDE DEF q
  <2>3. before = {} /\ after = {}
    <3>1. \A i : i \notin DOMAIN q
      <4>1. Len(q) = 0 /\ q \in Seq(Int)
        BY <2>2
      <4>2. DOMAIN q = 1 .. 0
        BY <4>1
      <4> QED
        BY <4>2
    <3> QED
      BY <3>1
  <2>4. near.prev = Null /\ near.next = Null
    BY <1>1, <2>3 DEF LowestOf
  <2> QED
    BY <2>1, <2>4 DEF Searched, NextBefore, NextAfter, near
<1>4. CASE r # Null
  <2>1. SearchWay(h, S, D, r, key, q)
    BY <1>2, <1>4, SearchDown
  <2> HIDE DEF q
  <2>2. /\ Len(q) \in Nat /\ DOMAIN q = 1 .. Len(q) /\ \A i \in 1 .. Len(q) : q[i] \in S
    BY <2>1 DEF SearchWay
  <2> DEFINE n == Len(q)
  <2>3. /\ before \subseteq 1 .. n /\ after \subseteq 1 .. n
        /\ \A i \in 1 .. n : (i \in before <=> h[q[i]].key <= key) /\ (i \in after <=> h[q[i]].key >= key)
    BY <2>2
  <2>4. \A v \in S : Reached(h, q, n, key, v)
    BY <1>2, <2>1, SearchReaches
  <2>5. ASSUME NEW i \in 1 .. n, NEW j \in 1 .. n, i < j
        PROVE  /\ h[q[i]].key <= key => h[q[j]].key > h[q[i]].key
               /\ h[q[i]].key >= key => h[q[j]].key < h[q[i]].key
    BY <1>2, <2>1, <2>5, SearchNarrows
  <2>k. Null \notin S /\ \A v \in S : h[v].key \in Int
    BY NullIsNone, Childs
  <2>n. n \in Nat
    BY <2>2
  <2> HIDE DEF n, before, after
  <2>6. NextBefore(h, S, key, near.prev)
    <3>1. CASE before = {}
      <4>1. near.prev = Null
        BY <1>1, <3>1 DEF LowestOf
      <4>2. ASSUME NEW v \in S PROVE h[v].key > key
        <5>1. ~ (h[v].key <= key)
          BY <2>3, <2>4, <3>1 DEF Reached
        <5> QED
          BY <2>k, <5>1
      <4> QED
        BY <4>1, <4>2 DEF NextBefore
    <3>2. CASE before # {}
      <4>1. PICK m \in before : near.prev = q[m] /\ \A j \in before : j <= m
        BY <1>1, <2>3, <2>n, <3>2, LowestIs
      <4>2. m \in 1 .. n /\ q[m] \in S /\ h[q[m]].key <= key
        BY <2>2, <2>3, <4>1 DEF n
      <4>3. ASSUME NEW v \in S, h[v].key <= key PROVE h[v].key <= h[q[m]].key
        <5>1. PICK i \in 1 .. n : h[q[i]].key <= key /\ h[v].key <= h[q[i]].key
          BY <2>4, <4>3 DEF Reached
        <5>2. i <= m /\ q[i] \in S
          BY <2>2, <2>3, <4>1, <5>1 DEF n
        <5>3. CASE i = m
          BY <5>1, <5>3
        <5>4. CASE i < m
          <6>1. h[q[m]].key > h[q[i]].key
            BY <2>5, <4>2, <5>1, <5>4
          <6>2. h[v].key \in Int /\ h[q[i]].key \in Int /\ h[q[m]].key \in Int
            BY <2>k, <4>2, <5>2
          <6> QED
            BY <5>1, <6>1, <6>2
        <5> QED
          BY <4>2, <5>2, <5>3, <5>4
      <4>4. near.prev # Null /\ near.prev = q[m]
        BY <2>k, <4>1, <4>2
      <4> QED
        BY <4>2, <4>3, <4>4 DEF NextBefore
    <3> QED
      BY <3>1, <3>2
  <2>7. NextAfter(h, S, key, near.next)
    <3>1. CASE after = {}
      <4>1. near.next = Null
        BY <1>1, <3>1 DEF LowestOf
      <4>2. ASSUME NEW v \in S PROVE h[v].key < key
        <5>1. ~ (h[v].key >= key)
          BY <2>3, <2>4, <3>1 DEF Reached
        <5> QED
          BY <2>k, <5>1
      <4> QED
        BY <4>1, <4>2 DEF NextAfter
    <3>2. CASE after # {}
      <4>1. PICK m \in after : near.next = q[m] /\ \A j \in after : j <= m
        BY <1>1, <2>3, <2>n, <3>2, LowestIs
      <4>2. m \in 1 .. n /\ q[m] \in S /\ h[q[m]].key >= key
        BY <2>2, <2>3, <4>1 DEF n
      <4>3. ASSUME NEW v \in S, h[v].key >= key PROVE h[v].key >= h[q[m]].key
        <5>1. PICK i \in 1 .. n : h[q[i]].key >= key /\ h[v].key >= h[q[i]].key
          BY <2>4, <4>3 DEF Reached
        <5>2. i <= m /\ q[i] \in S
          BY <2>2, <2>3, <4>1, <5>1 DEF n
        <5>3. CASE i = m
          BY <5>1, <5>3
        <5>4. CASE i < m
          <6>1. h[q[m]].key < h[q[i]].key
            BY <2>5, <4>2, <5>1, <5>4
          <6>2. h[v].key \in Int /\ h[q[i]].key \in Int /\ h[q[m]].key \in Int
            BY <2>k, <4>2, <5>2
          <6> QED
            BY <5>1, <6>1, <6>2
        <5> QED
          BY <4>2, <5>2, <5>3, <5>4
      <4>4. near.next # Null /\ near.next = q[m]
        BY <2>k, <4>1, <4>2
      <4> QED
        BY <4>2, <4>3, <4>4 DEF NextAfter
    <3> QED
      BY <3>1, <3>2
  <2> QED
    BY <2>6, <2>7 DEF Searched, near
<1> QED
  BY <1>3, <1>4
-------------------------------------------------------------------------------
(* Trees that share their nodes: tree k is S[k] under r[k], and what is in *)
(* none of them is a leaf on its own.                                      *)
Apart(S, K) == \A j, k \in K : j # k => S[j] \intersect S[k] = {}
Planted(N, K, h, S, r) ==
  \A k \in K : S[k] \subseteq N /\ r[k] \in S[k] \union {Null} /\ AVL(h, S[k], r[k])
Loose(N, K, h, S) == \A z \in N : FreeLeaf(h, z) \/ \E k \in K : z \in S[k]
Forest(N, K, h, S, r) ==
  /\ Nodal(N) /\ h \in Heaps(N) /\ S \in [K -> SUBSET N] /\ r \in [K -> N \union {Null}]
  /\ Planted(N, K, h, S, r) /\ Apart(S, K) /\ Loose(N, K, h, S)

(* In a tree a node is higher than its children.                           *)
LEMMA TreeGrounded ==
  ASSUME NEW N, Nodal(N), NEW h \in Heaps(N), NEW S, S \subseteq N, NEW r, AVL(h, S, r),
         NEW x \in S, NEW s \in Sides, h[x][s] # Null
  PROVE  h[x][s] \in S /\ h[h[x][s]].height < h[x].height
<1>1. PICK D : Descends(h, S, D, r)
  BY DEF AVL
<1>2. /\ h[x].left \in S \union {Null} /\ h[x].right \in S \union {Null}
      /\ h[x].height = 1 + Larger(Height(h, h[x].left), Height(h, h[x].right))
  BY <1>1 DEF Descends, NodeRight, Even
<1>3. Height(h, h[x].left) \in Nat /\ Height(h, h[x].right) \in Nat
  <2>1. h[x].left \in N \union {Null} /\ h[x].right \in N \union {Null}
    BY <1>2
  <2> QED
    BY <2>1, HeightIs
<1>4. CASE s = "left"
  BY <1>2, <1>3, <1>4 DEF Height, Larger
<1>5. CASE s = "right"
  BY <1>2, <1>3, <1>5 DEF Height, Larger
<1> QED
  BY <1>4, <1>5 DEF Sides

LEMMA ForestGrounded ==
  ASSUME NEW N, NEW K, NEW h, NEW S, NEW r, Forest(N, K, h, S, r)
  PROVE  Grounded(h)
<1>1. Nodal(N) /\ h \in Heaps(N) /\ DOMAIN h = N
  BY DEF Forest, Heaps
<1> SUFFICES ASSUME NEW x \in N, NEW s \in Sides, h[x][s] # Null
             PROVE  h[h[x][s]].height < h[x].height
  BY <1>1 DEF Grounded
<1>2. ~ FreeLeaf(h, x)
  BY DEF FreeLeaf, Sides
<1>3. PICK k \in K : x \in S[k]
  BY <1>2 DEF Forest, Loose
<1>4. S[k] \subseteq N /\ AVL(h, S[k], r[k])
  BY DEF Forest, Planted
<1> QED
  BY <1>1, <1>3, <1>4, TreeGrounded

(* A tree changes: its nodes become A and its root top.                    *)
Replanted(N, K, h, S, r, k, g, A, top) ==
  Forest(N, K, g, [S EXCEPT ![k] = A], [r EXCEPT ![k] = top])
LEMMA OneTree ==
  ASSUME NEW N, NEW K, NEW h, NEW S, NEW r, Forest(N, K, h, S, r), NEW k \in K,
         NEW g \in Heaps(N), NEW A, A \subseteq N, NEW top \in A \union {Null}, AVL(g, A, top),
         NEW B, SameBut(h, g, B), \A j \in K : j # k => A \intersect S[j] = {} /\ B \intersect S[j] = {},
         \A z \in B \union S[k] : z \in A \/ FreeLeaf(g, z)
  PROVE  Replanted(N, K, h, S, r, k, g, A, top)
<1> DEFINE U == [S EXCEPT ![k] = A]
           q == [r EXCEPT ![k] = top]
<1>1. /\ Nodal(N) /\ h \in Heaps(N) /\ S \in [K -> SUBSET N] /\ r \in [K -> N \union {Null}]
      /\ Planted(N, K, h, S, r) /\ Apart(S, K) /\ Loose(N, K, h, S)
  BY DEF Forest
<1>2. U \in [K -> SUBSET N] /\ q \in [K -> N \union {Null}]
  BY <1>1
<1>3. U[k] = A /\ q[k] = top /\ \A j \in K : j # k => U[j] = S[j] /\ q[j] = r[j]
  BY <1>1
<1> HIDE DEF U, q
<1>4. \A j \in K : j # k => \A z \in S[j] : g[z] = h[z]
  <2>1. DOMAIN h = N /\ \A j \in K : S[j] \subseteq N
    BY <1>1 DEF Heaps
  <2> QED
    BY <2>1 DEF SameBut
<1>5. ASSUME NEW j \in K PROVE U[j] \subseteq N /\ q[j] \in U[j] \union {Null} /\ AVL(g, U[j], q[j])
  <2>1. CASE j = k
    BY <1>3, <2>1
  <2>2. CASE j # k
    <3>1. S[j] \subseteq N /\ r[j] \in S[j] \union {Null} /\ AVL(h, S[j], r[j])
      BY <1>1 DEF Planted
    <3>2. \A z \in S[j] : g[z] = h[z]
      BY <1>4, <2>2
    <3> DEFINE V == S[j]
               p == r[j]
    <3>3. V \subseteq N /\ AVL(h, V, p) /\ \A z \in V : g[z] = h[z]
      BY <3>1, <3>2
    <3> HIDE DEF V, p
    <3>4. AVL(g, V, p)
      BY <1>1, <3>3, Frame
    <3> QED
      BY <1>3, <2>2, <3>1, <3>4 DEF V, p
  <2> QED
    BY <2>1, <2>2
<1>6. Planted(N, K, g, U, q)
  BY <1>5 DEF Planted
<1>7. Apart(U, K)
  BY <1>1, <1>3 DEF Apart
<1>8. ASSUME NEW z \in N PROVE FreeLeaf(g, z) \/ \E j \in K : z \in U[j]
  <2>1. CASE z \in B \union S[k]
    BY <1>3, <2>1
  <2>2. CASE z \notin B \union S[k]
    <3>1. g[z] = h[z]
      BY <1>1, <2>2 DEF SameBut, Heaps
    <3>2. CASE FreeLeaf(h, z)
      BY <3>1, <3>2 DEF FreeLeaf
    <3>3. CASE \E j \in K : z \in S[j]
      BY <1>3, <2>2, <3>3
    <3> QED
      BY <1>1, <3>2, <3>3 DEF Loose
  <2> QED
    BY <2>1, <2>2
<1>9. Loose(N, K, g, U)
  BY <1>8 DEF Loose
<1> QED
  BY <1>1, <1>2, <1>6, <1>7, <1>9 DEF Forest, Replanted, U, q

(* A node goes into a tree.                                                *)
Enters(N, K, h, S, r, k, n, out) ==
  /\ out \in Values(N) /\ SameData(h, out.h)
  /\ Replanted(N, K, h, S, r, k, out.h, S[k] \union {n}, out.top)
LEMMA TreeGrows ==
  ASSUME NEW N, NEW K, NEW h, NEW S, NEW r, Forest(N, K, h, S, r), NEW k \in K,
         NEW n \in N, \A j \in K : n \notin S[j], \A y \in S[k] : h[y].key # h[n].key
  PROVE  Enters(N, K, h, S, r, k, n, Insert(h, r[k], n))
<1> DEFINE V == S[k]
           p == r[k]
           out == Insert(h, p, n)
           A == V \union {n}
<1>1. /\ Nodal(N) /\ h \in Heaps(N) /\ V \subseteq N /\ AVL(h, V, p) /\ Grounded(h)
      /\ Apart(S, K) /\ Loose(N, K, h, S)
  BY ForestGrounded DEF Forest, Planted
<1>2. FreeLeaf(h, n)
  BY <1>1 DEF Loose
<1>3. Became(N, h, out, A)
  <2>1. n \notin V /\ \A y \in V : h[y].key # h[n].key
    OBVIOUS
  <2> HIDE DEF V, p
  <2> QED
    BY <1>1, <1>2, <2>1, Inserted
<1> HIDE DEF out
<1>4. /\ out \in Values(N) /\ out.h \in Heaps(N) /\ out.top \in A \union {Null} /\ AVL(out.h, A, out.top)
      /\ SameBut(h, out.h, A) /\ SameData(h, out.h) /\ A \subseteq N
  BY <1>1, <1>3 DEF Became, Settled, Values
<1>5. \A j \in K : j # k => A \intersect S[j] = {}
  BY <1>1 DEF Apart
<1>6. \A z \in A \union S[k] : z \in A
  OBVIOUS
<1> DEFINE g == out.h
           top == out.top
<1> HIDE DEF A, g, top
<1>7. g \in Heaps(N) /\ top \in A \union {Null} /\ AVL(g, A, top) /\ SameBut(h, g, A) /\ A \subseteq N
  BY <1>4 DEF g, top
<1>8. Replanted(N, K, h, S, r, k, g, A, top)
  BY <1>5, <1>6, <1>7, OneTree
<1> QED
  BY <1>4, <1>8 DEF Enters, out, g, top, A

(* A position leaves a tree, and a node with it.                           *)
Leaves(N, K, h, S, r, k, x, out) ==
  /\ out \in Values(N) /\ out.node \in S[k]
  /\ Replanted(N, K, h, S, r, k, out.h, S[k] \ {out.node}, out.top)
  /\ Data(out.h, S[k] \ {out.node}) = Data(h, S[k] \ {x}) /\ SameBut(h, out.h, S[k])
  /\ out.h[out.node].key = h[x].key /\ out.h[out.node].info = h[x].info
LEMMA TreeShrinks ==
  ASSUME NEW N, NEW K, NEW h, NEW S, NEW r, Forest(N, K, h, S, r), NEW k \in K, NEW x \in S[k]
  PROVE  Leaves(N, K, h, S, r, k, x, Delete(h, r[k], h[x].key))
<1> DEFINE key == h[x].key
           V == S[k]
           p == r[k]
           out == Delete(h, p, key)
           A == V \ {out.node}
<1>1. /\ Nodal(N) /\ h \in Heaps(N) /\ V \subseteq N /\ AVL(h, V, p) /\ Grounded(h)
      /\ Apart(S, K) /\ x \in V /\ key = h[x].key
  BY ForestGrounded DEF Forest, Planted
<1>2. Removed(N, h, out, V, x)
  <2> HIDE DEF V, p, key
  <2> QED
    BY <1>1, Deleted
<1> HIDE DEF out
<1>3. /\ out \in Values(N) /\ out.h \in Heaps(N) /\ out.node \in V /\ out.top \in A \union {Null}
      /\ AVL(out.h, A, out.top) /\ SameBut(h, out.h, V) /\ FreeLeaf(out.h, out.node) /\ A \subseteq N
  BY <1>1, <1>2 DEF Removed, Values
<1>4. /\ \A j \in K : j # k => A \intersect S[j] = {} /\ V \intersect S[j] = {}
      /\ \A z \in V \union S[k] : z \in A \/ FreeLeaf(out.h, z)
  BY <1>1, <1>3 DEF Apart
<1> DEFINE g == out.h
           top == out.top
<1> HIDE DEF A, g, top
<1>5. g \in Heaps(N) /\ top \in A \union {Null} /\ AVL(g, A, top) /\ SameBut(h, g, V) /\ A \subseteq N
  BY <1>3 DEF g, top
<1>6. /\ \A j \in K : j # k => A \intersect S[j] = {} /\ V \intersect S[j] = {}
      /\ \A z \in V \union S[k] : z \in A \/ FreeLeaf(g, z)
  BY <1>4 DEF g
<1> HIDE DEF V
<1>7. Replanted(N, K, h, S, r, k, g, A, top)
  BY <1>5, <1>6, OneTree
<1> QED
  BY <1>2, <1>3, <1>7 DEF Leaves, Removed, out, key, V, p, g, top, A

(* What trees hold: for each position of a set, its rank and itself.       *)
Pairs(f, W) == {<<f[p], p>> : p \in W}
Holding(K, h, S, f, V) == \A k \in K : Data(h, S[k]) = Pairs(f, V[k])
LEMMA PairsWith ==
  ASSUME NEW f, NEW W, NEW c
  PROVE  Pairs(f, W \union {c}) = Pairs(f, W) \union {<<f[c], c>>}
  BY DEF Pairs
LEMMA PairsWithout ==
  ASSUME NEW f, NEW W, NEW c
  PROVE  Pairs(f, W \ {c}) = Pairs(f, W) \ {<<f[c], c>>}
  BY DEF Pairs
LEMMA DataAlike ==
  ASSUME NEW h, NEW g, NEW A, \A y \in A : g[y].key = h[y].key /\ g[y].info = h[y].info
  PROVE  Data(g, A) = Data(h, A)
  BY DEF Data
LEMMA DataWith ==
  ASSUME NEW h, NEW A, NEW n
  PROVE  Data(h, A \union {n}) = Data(h, A) \union {<<h[n].key, h[n].info>>}
  BY DEF Data
LEMMA DataWithout ==
  ASSUME NEW N, NEW K, NEW h, NEW S, NEW r, Forest(N, K, h, S, r), NEW k \in K, NEW x \in S[k]
  PROVE  Data(h, S[k] \ {x}) = Data(h, S[k]) \ {<<h[x].key, h[x].info>>}
<1> DEFINE A == S[k]
<1>1. Nodal(N) /\ h \in Heaps(N) /\ A \subseteq N /\ AVL(h, A, r[k]) /\ Grounded(h)
  BY ForestGrounded DEF Forest, Planted
<1>2. PICK D : Descends(h, A, D, r[k])
  BY <1>1 DEF AVL
<1> HIDE DEF A
<1>3. ASSUME NEW y \in A, h[y].key = h[x].key PROVE y = x
  <2> DEFINE p == r[k]
  <2>1. x \in A /\ Descends(h, A, D, p)
    BY <1>2 DEF A
  <2> HIDE DEF p
  <2> QED
    BY <1>1, <1>3, <2>1, KeysDiffer
<1>4. Data(h, A \ {x}) = Data(h, A) \ {<<h[x].key, h[x].info>>}
  BY <1>3 DEF Data
<1> QED
  BY <1>4 DEF A

TakenIn(N, K, h, S, r, f, V, k, n, c, in) ==
  /\ in \in Values(N)
  /\ Replanted(N, K, h, S, r, k, in.h, S[k] \union {n}, in.top)
  /\ Holding(K, in.h, [S EXCEPT ![k] = S[k] \union {n}], f, [V EXCEPT ![k] = V[k] \union {c}])
LEMMA TurnIn ==
  ASSUME NEW N, NEW K, NEW h, NEW S, NEW r, Forest(N, K, h, S, r),
         NEW f, NEW V, K = DOMAIN V, Holding(K, h, S, f, V), NEW k \in K,
         NEW n \in N, \A j \in K : n \notin S[j], NEW c, h[n].key = f[c], h[n].info = c,
         \A p \in V[k] : f[p] # f[c]
  PROVE  TakenIn(N, K, h, S, r, f, V, k, n, c, Insert(h, r[k], n))
<1> DEFINE in == Insert(h, r[k], n)
           g == in.h
           A == S[k] \union {n}
           W == V[k] \union {c}
           U == [S EXCEPT ![k] = A]
           X == [V EXCEPT ![k] = W]
<1>1. ASSUME NEW y \in S[k] PROVE h[y].key # h[n].key
  <2>1. <<h[y].key, h[y].info>> \in Data(h, S[k])
    BY DEF Data
  <2>2. <<h[y].key, h[y].info>> \in Pairs(f, V[k])
    BY <2>1 DEF Holding
  <2>3. PICK p \in V[k] : <<h[y].key, h[y].info>> = <<f[p], p>>
    BY <2>2 DEF Pairs
  <2>4. h[y].key = f[p]
    BY <2>3
  <2> QED
    BY <2>4
<1>2. Enters(N, K, h, S, r, k, n, in)
  BY <1>1, TreeGrows
<1> HIDE DEF in
<1>3. /\ in \in Values(N) /\ SameData(h, g) /\ Replanted(N, K, h, S, r, k, g, A, in.top)
      /\ S \in [K -> SUBSET N] /\ DOMAIN h = N
  BY <1>2 DEF Enters, Forest, Heaps
<1>4. /\ U[k] = A /\ X[k] = W /\ \A j \in K : j # k => U[j] = S[j] /\ X[j] = V[j]
      /\ \A j \in K : S[j] \subseteq N
  BY <1>3
<1> HIDE DEF g, A, W, U, X
<1>5. ASSUME NEW B, B \subseteq N PROVE Data(g, B) = Data(h, B)
  <2>1. \A y \in B : g[y].key = h[y].key /\ g[y].info = h[y].info
    BY <1>3, <1>5 DEF SameData
  <2> QED
    BY <2>1, DataAlike
<1>6. Data(g, A) = Pairs(f, W)
  <2>1. A \subseteq N
    BY <1>4 DEF A
  <2>2. Data(g, A) = Data(h, A)
    BY <1>5, <2>1
  <2>3. Data(h, A) = Data(h, S[k]) \union {<<h[n].key, h[n].info>>}
    BY DataWith DEF A
  <2>4. Pairs(f, W) = Pairs(f, V[k]) \union {<<f[c], c>>}
    BY PairsWith DEF W
  <2> QED
    BY <2>2, <2>3, <2>4 DEF Holding
<1>7. ASSUME NEW j \in K PROVE Data(g, U[j]) = Pairs(f, X[j])
  <2>1. CASE j = k
    BY <1>4, <1>6, <2>1
  <2>2. CASE j # k
    <3>1. Data(g, S[j]) = Data(h, S[j])
      BY <1>4, <1>5
    <3> QED
      BY <1>4, <2>2, <3>1 DEF Holding
  <2> QED
    BY <2>1, <2>2
<1>8. Holding(K, g, U, f, X)
  BY <1>7 DEF Holding
<1> QED
  BY <1>3, <1>8 DEF TakenIn, in, g, A, W, U, X

TakenOut(N, K, h, S, r, f, V, k, l, out) ==
  /\ out \in Values(N) /\ out.node \in S[k]
  /\ Replanted(N, K, h, S, r, k, out.h, S[k] \ {out.node}, out.top)
  /\ Holding(K, out.h, [S EXCEPT ![k] = S[k] \ {out.node}], f, [V EXCEPT ![k] = V[k] \ {l}])
  /\ out.h[out.node].key = f[l] /\ out.h[out.node].info = l
LEMMA TurnOut ==
  ASSUME NEW N, NEW K, NEW h, NEW S, NEW r, Forest(N, K, h, S, r),
         NEW f, NEW V, K = DOMAIN V, Holding(K, h, S, f, V), NEW k \in K, NEW l \in V[k]
  PROVE  TakenOut(N, K, h, S, r, f, V, k, l, Delete(h, r[k], f[l]))
<1> DEFINE out == Delete(h, r[k], f[l])
           g == out.h
           A == S[k] \ {out.node}
           W == V[k] \ {l}
           U == [S EXCEPT ![k] = A]
           X == [V EXCEPT ![k] = W]
<1>1. PICK x \in S[k] : h[x].key = f[l] /\ h[x].info = l
  <2>1. <<f[l], l>> \in Data(h, S[k])
    BY DEF Holding, Pairs
  <2>2. PICK x \in S[k] : <<f[l], l>> = <<h[x].key, h[x].info>>
    BY <2>1 DEF Data
  <2> QED
    BY <2>2
<1>2. Leaves(N, K, h, S, r, k, x, out)
  BY <1>1, TreeShrinks
<1> HIDE DEF out
<1>3. /\ out \in Values(N) /\ out.node \in S[k] /\ Replanted(N, K, h, S, r, k, g, A, out.top)
      /\ Data(g, A) = Data(h, S[k] \ {x}) /\ SameBut(h, g, S[k])
      /\ g[out.node].key = f[l] /\ g[out.node].info = l
      /\ S \in [K -> SUBSET N] /\ DOMAIN h = N /\ Apart(S, K)
  BY <1>1, <1>2 DEF Leaves, Forest, Heaps
<1>4. /\ U[k] = A /\ X[k] = W /\ \A j \in K : j # k => U[j] = S[j] /\ X[j] = V[j]
      /\ \A j \in K : S[j] \subseteq N
  BY <1>3
<1> HIDE DEF g, A, W, U, X
<1>5. Data(g, A) = Pairs(f, W)
  <2>1. Data(h, S[k] \ {x}) = Data(h, S[k]) \ {<<h[x].key, h[x].info>>}
    BY DataWithout
  <2>2. Pairs(f, W) = Pairs(f, V[k]) \ {<<f[l], l>>}
    BY PairsWithout DEF W
  <2> QED
    BY <1>1, <1>3, <2>1, <2>2 DEF Holding
<1>6. ASSUME NEW j \in K PROVE Data(g, U[j]) = Pairs(f, X[j])
  <2>1. CASE j = k
    BY <1>4, <1>5, <2>1
  <2>2. CASE j # k
    <3>1. \A y \in S[j] : y \in N /\ y \notin S[k]
      BY <1>3, <1>4, <2>2 DEF Apart
    <3>2. \A y \in S[j] : g[y] = h[y]
      BY <1>3, <3>1 DEF SameBut
    <3>3. \A y \in S[j] : g[y].key = h[y].key /\ g[y].info = h[y].info
      BY <3>2
    <3>4. Data(g, S[j]) = Data(h, S[j])
      BY <3>3, DataAlike
    <3> QED
      BY <1>4, <2>2, <3>4 DEF Holding
  <2> QED
    BY <2>1, <2>2
<1>7. Holding(K, g, U, f, X)
  BY <1>6 DEF Holding
<1> QED
  BY <1>3, <1>7 DEF TakenOut, out, g, A, W, U, X

(* A node that is in no tree is made anew.                                 *)
Renewed(N, K, h, S, r, f, V, g) == Forest(N, K, g, S, r) /\ Holding(K, g, S, f, V)
LEMMA FreshLeaf ==
  ASSUME NEW N, NEW K, NEW h, NEW S, NEW r, Forest(N, K, h, S, r),
         NEW f, NEW V, Holding(K, h, S, f, V),
         NEW n \in N, \A j \in K : n \notin S[j], NEW key \in Int, NEW info \in Int
  PROVE  Renewed(N, K, h, S, r, f, V, [h EXCEPT ![n] = Leaf(key, info)])
<1> DEFINE g == [h EXCEPT ![n] = Leaf(key, info)]
<1>1. /\ Nodal(N) /\ h \in Heaps(N) /\ S \in [K -> SUBSET N] /\ r \in [K -> N \union {Null}]
      /\ Planted(N, K, h, S, r) /\ Apart(S, K) /\ Loose(N, K, h, S)
  BY DEF Forest
<1>2. g \in Heaps(N) /\ FreeLeaf(g, n) /\ \A z \in N : z # n => g[z] = h[z]
  BY <1>1 DEF Heaps, NodeRecs, Leaf, FreeLeaf
<1> HIDE DEF g
<1>3. ASSUME NEW k \in K PROVE AVL(g, S[k], r[k]) /\ Data(g, S[k]) = Data(h, S[k])
  <2> DEFINE A == S[k]
             p == r[k]
  <2>1. A \subseteq N /\ AVL(h, A, p) /\ n \notin A
    BY <1>1 DEF Planted
  <2> HIDE DEF A, p
  <2>2. \A z \in A : g[z] = h[z]
    BY <1>2, <2>1
  <2>3. AVL(g, A, p)
    BY <1>1, <1>2, <2>1, <2>2, Frame
  <2>4. \A y \in A : g[y].key = h[y].key /\ g[y].info = h[y].info
    BY <2>2
  <2>5. Data(g, A) = Data(h, A)
    BY <2>4, DataAlike
  <2> QED
    BY <2>3, <2>5 DEF A, p
<1>4. Planted(N, K, g, S, r)
  BY <1>1, <1>3 DEF Planted
<1>5. Loose(N, K, g, S)
  <2> SUFFICES ASSUME NEW z \in N PROVE FreeLeaf(g, z) \/ \E k \in K : z \in S[k]
    BY DEF Loose
  <2>1. CASE z = n
    BY <1>2, <2>1
  <2>2. CASE z # n
    BY <1>1, <1>2, <2>2 DEF Loose, FreeLeaf
  <2> QED
    BY <2>1, <2>2
<1>6. Holding(K, g, S, f, V)
  BY <1>3 DEF Holding
<1> QED
  BY <1>1, <1>2, <1>4, <1>5, <1>6 DEF Forest, Renewed, g
-------------------------------------------------------------------------------
(* Words and bits.                                                         *)
LEMMA Spans ==
  /\ Span[0] = 1
  /\ \A n \in Nat : Span[n] \in Nat /\ Span[n + 1] = WordBits * Span[n] /\ n < Span[n]
<1> DEFINE Def(g) == [n \in Nat |-> IF n = 0 THEN 1 ELSE WordBits * g[n - 1]]
           times == [x \in Nat |-> WordBits * x]
<1>w. WordBits \in Nat /\ WordBits > 1
  BY WordBitsAssumption
<1>1. PICK g : Iterates(g, Nat, 1, times)
  <2>1. times \in [Nat -> Nat]
    BY <1>w
  <2> HIDE DEF times
  <2> QED
    BY <2>1, RecursionOn
<1>2. g \in [Nat -> Nat] /\ g[0] = 1 /\ \A n \in Nat : g[n + 1] = WordBits * g[n]
  BY <1>1 DEF Iterates
<1>3. g = Def(g)
  <2>1. ASSUME NEW n \in Nat PROVE g[n] = IF n = 0 THEN 1 ELSE WordBits * g[n - 1]
    <3>1. CASE n = 0
      BY <3>1, <1>2
    <3>2. CASE n # 0
      <4>1. n - 1 \in Nat /\ (n - 1) + 1 = n
        BY <3>2
      <4> QED
        BY <4>1, <3>2, <1>2
    <3> QED
      BY <3>1, <3>2
  <2> QED
    BY <2>1, <1>2
<1>4. Span = CHOOSE f : f = Def(f)
  BY DEF Span
<1>5. Span = Def(Span)
  <2> HIDE DEF Def
  <2> QED
    BY <1>3, <1>4, Zenon
<1>6. \A n \in Nat : Span[n] = IF n = 0 THEN 1 ELSE WordBits * Span[n - 1]
  BY <1>5 DEF Def
<1> HIDE DEF Def
<1>7. Span[0] = 1
  BY <1>6
<1>8. ASSUME NEW n \in Nat PROVE Span[n + 1] = WordBits * Span[n]
  <2>1. n + 1 \in Nat /\ n + 1 # 0 /\ (n + 1) - 1 = n
    OBVIOUS
  <2> QED
    BY <2>1, <1>6
<1> DEFINE Fine == {n \in Nat : Span[n] \in Nat /\ n < Span[n]}
<1>9. 0 \in Fine
  BY <1>7
<1>10. ASSUME NEW n \in Nat, n \in Fine PROVE (n + 1) \in Fine
  <2> DEFINE s == Span[n]
  <2>1. s \in Nat /\ n < s /\ Span[n + 1] = WordBits * s
    BY <1>8, <1>10
  <2> HIDE DEF s
  <2>2. WordBits * s \in Nat /\ WordBits * s >= 2 * s
    BY <1>w, <2>1
  <2> QED
    BY <2>1, <2>2
<1> HIDE DEF Fine
<1>11. Nat \subseteq Fine
  BY <1>9, <1>10, InductionOn
<1> QED
  BY <1>7, <1>8, <1>11 DEF Fine

(* x without its last j digits. *)
Cut(x, j) == x \div Span[j]
CutRight(x, j) ==
  /\ Cut(x, j) \in Nat /\ Cut(x, j + 1) \in Nat /\ BitOf(x, j) \in 0 .. (WordBits - 1)
  /\ Cut(x, j) = WordBits * Cut(x, j + 1) + BitOf(x, j) /\ WordOf(x, j) = Cut(x, j + 1)
LEMMA CutIsRight ==
  ASSUME NEW x \in Nat, NEW j \in Nat
  PROVE  CutRight(x, j)
<1> DEFINE w == WordBits
           d == Span[j]
           a == x \div d
           r == x % d
           b == a \div w
           c == a % w
<1>1. w \in Nat /\ w > 1 /\ d \in Nat /\ d > 0 /\ Span[j + 1] = w * d
  BY WordBitsAssumption, Spans
<1> HIDE DEF w, d
<1>2. a \in Nat /\ r \in 0 .. (d - 1) /\ x = d * a + r
  BY <1>1
<1> HIDE DEF a, r
<1>3. b \in Nat /\ c \in 0 .. (w - 1) /\ a = w * b + c
  BY <1>1, <1>2
<1> HIDE DEF b, c
<1>4. x \div (w * d) = b
  <2> DEFINE s == d * c + r
             e == w * d
  <2>1. c + 1 <= w
    BY <1>1, <1>3
  <2>2. d * (c + 1) <= d * w
    BY <1>1, <1>3, <2>1
  <2>3. d * (c + 1) = d * c + d /\ d * c \in Nat
    BY <1>1, <1>3
  <2>4. s \in Nat /\ e \in Nat /\ s < e
    BY <1>1, <1>2, <2>2, <2>3
  <2>5. x = e * b + s
    BY <1>1, <1>2, <1>3
  <2> HIDE DEF s, e
  <2>6. x \div e = b
    BY <1>3, <2>4, <2>5
  <2> QED
    BY <2>6 DEF e
<1>5. Cut(x, j) = a /\ Cut(x, j + 1) = b /\ BitOf(x, j) = c /\ WordOf(x, j) = b
  BY <1>1, <1>4 DEF Cut, BitOf, WordOf, a, b, c, d, w
<1> QED
  BY <1>2, <1>3, <1>5 DEF CutRight, w

LEMMA CutWhole ==
  ASSUME NEW x \in Nat
  PROVE  Cut(x, 0) = x
<1>1. Span[0] = 1
  BY Spans
<1> QED
  BY <1>1 DEF Cut

LEMMA CutGrows ==
  ASSUME NEW x \in Nat, NEW y \in Nat, x <= y
  PROVE  \A j \in Nat : Cut(x, j) <= Cut(y, j)
<1> DEFINE Good == {j \in Nat : Cut(x, j) <= Cut(y, j)}
<1>1. 0 \in Good
  BY CutWhole
<1>2. ASSUME NEW j \in Nat, j \in Good PROVE (j + 1) \in Good
  <2> DEFINE w == WordBits
             a == Cut(x, j + 1)
             b == Cut(y, j + 1)
             c == BitOf(x, j)
             d == BitOf(y, j)
  <2>1. CutRight(x, j) /\ CutRight(y, j)
    BY CutIsRight
  <2>2. /\ a \in Nat /\ b \in Nat /\ c \in 0 .. (w - 1) /\ d \in 0 .. (w - 1) /\ w \in Nat
        /\ w * a + c <= w * b + d
    BY <1>2, <2>1, WordBitsAssumption DEF CutRight
  <2> HIDE DEF w, a, b, c, d
  <2>3. ASSUME a > b PROVE FALSE
    <3>1. b + 1 <= a
      BY <2>2, <2>3
    <3>2. w * (b + 1) <= w * a
      BY <2>2, <3>1
    <3>3. w * (b + 1) = w * b + w /\ w * b \in Nat /\ w * a \in Nat
      BY <2>2
    <3> QED
      BY <2>2, <3>2, <3>3
  <2> QED
    BY <2>2, <2>3 DEF a, b
<1> HIDE DEF Good
<1>3. Nat \subseteq Good
  BY <1>1, <1>2, InductionOn
<1> QED
  BY <1>3 DEF Good

LEMMA CutSame ==
  ASSUME NEW x \in Nat, NEW y \in Nat, NEW j \in Nat, Cut(x, j) = Cut(y, j)
  PROVE  \A k \in Nat : k >= j => Cut(x, k) = Cut(y, k)
<1> DEFINE Good == {i \in Nat : Cut(x, j + i) = Cut(y, j + i)}
<1>1. 0 \in Good
  OBVIOUS
<1>2. ASSUME NEW i \in Nat, i \in Good PROVE (i + 1) \in Good
  <2> DEFINE k == j + i
             w == WordBits
             a == Cut(x, k + 1)
             b == Cut(y, k + 1)
             c == BitOf(x, k)
             d == BitOf(y, k)
  <2>0. k \in Nat /\ Cut(x, k) = Cut(y, k) /\ j + (i + 1) = k + 1
    BY <1>2
  <2> HIDE DEF k
  <2>1. CutRight(x, k) /\ CutRight(y, k)
    BY <2>0, CutIsRight
  <2>2. /\ a \in Nat /\ b \in Nat /\ c \in 0 .. (w - 1) /\ d \in 0 .. (w - 1) /\ w \in Nat /\ w > 1
        /\ w * a + c = w * b + d
    BY <2>0, <2>1, WordBitsAssumption DEF CutRight
  <2> HIDE DEF w, a, b, c, d
  <2> DEFINE n == w * a + c
  <2>3. n \div w = a
    BY <2>2
  <2>4. n = w * b + d
    BY <2>2
  <2> HIDE DEF n
  <2>5. n \div w = b
    BY <2>2, <2>4
  <2>6. Cut(x, k + 1) = Cut(y, k + 1)
    BY <2>3, <2>5 DEF a, b
  <2> QED
    BY <2>0, <2>6
<1> HIDE DEF Good
<1>3. Nat \subseteq Good
  BY <1>1, <1>2, InductionOn
<1>4. ASSUME NEW k \in Nat, k >= j PROVE Cut(x, k) = Cut(y, k)
  <2>1. k - j \in Good /\ j + (k - j) = k
    BY <1>3, <1>4
  <2> QED
    BY <2>1 DEF Good
<1> QED
  BY <1>4

(* Two numbers of a word differ in their bits as they do. *)
LEMMA BitsTell ==
  ASSUME NEW x \in Nat, NEW y \in Nat, NEW j \in Nat, WordOf(x, j) = WordOf(y, j)
  PROVE  /\ BitOf(x, j) < BitOf(y, j) => x < y
         /\ BitOf(x, j) = BitOf(y, j) <=> Cut(x, j) = Cut(y, j)
         /\ x < y => BitOf(x, j) <= BitOf(y, j)
<1> DEFINE w == WordBits
           a == Cut(x, j)
           b == Cut(y, j)
           e == w * Cut(x, j + 1)
<1>1. CutRight(x, j) /\ CutRight(y, j)
  BY CutIsRight
<1>2. /\ a \in Nat /\ b \in Nat /\ a = e + BitOf(x, j) /\ b = e + BitOf(y, j)
      /\ BitOf(x, j) \in Nat /\ BitOf(y, j) \in Nat /\ e \in Nat
  <2> DEFINE c == Cut(x, j + 1)
             p == BitOf(x, j)
             q == BitOf(y, j)
  <2>1. w \in Nat
    BY WordBitsAssumption
  <2>2. /\ a \in Nat /\ b \in Nat /\ c \in Nat /\ p \in 0 .. (w - 1) /\ q \in 0 .. (w - 1)
        /\ a = w * c + p /\ b = w * c + q
    BY <1>1 DEF CutRight
  <2> HIDE DEF w, a, b, c, p, q
  <2>3. w * c \in Nat
    BY <2>1, <2>2
  <2>4. p \in Nat /\ q \in Nat
    BY <2>1, <2>2
  <2> QED
    BY <2>2, <2>3, <2>4 DEF c, p, q
<1>3. (x <= y => a <= b) /\ (y <= x => b <= a)
  BY CutGrows
<1> HIDE DEF a, b, e
<1> QED
  BY <1>2, <1>3 DEF a, b

-------------------------------------------------------------------------------
(* What a bitmap stands for.                                               *)
(* The numbers under a word, and what the word has to say of them.         *)
At(E, c, j) == {y \in E : Cut(y, j) = c}
BitsAt(map, E, j, k) == map.bm[j][k] = {BitOf(y, j) : y \in At(E, k, j + 1)}
EndsAt(map, E, j, k) ==
  At(E, k, j + 1) # {} => /\ IsLeast(map.min[j][k], At(E, k, j + 1))
                          /\ IsGreatest(map.max[j][k], At(E, k, j + 1))
WordRight(map, E, j, k) == BitsAt(map, E, j, k) /\ (j > 0 => EndsAt(map, E, j, k))
Shaped(map, R) ==
  LET levels == 0 .. (Levels32(R) - 1)
      words(j) == 0 .. WordOf(R, j)
  IN  /\ map = [bm |-> map.bm, min |-> map.min, max |-> map.max]
      /\ map.bm = [j \in levels |-> map.bm[j]] /\ map.min = [j \in levels |-> map.min[j]]
      /\ map.max = [j \in levels |-> map.max[j]]
      /\ \A j \in levels : /\ map.bm[j] = [k \in words(j) |-> map.bm[j][k]]
                           /\ map.min[j] = [k \in words(j) |-> map.min[j][k]]
                           /\ map.max[j] = [k \in words(j) |-> map.max[j][k]]
StandsFor(map, R, E) ==
  /\ E \subseteq 0 .. (R - 1) /\ Shaped(map, R)
  /\ \A j \in 0 .. (Levels32(R) - 1) : \A k \in 0 .. WordOf(R, j) : WordRight(map, E, j, k)

LEMMA LevelsAreEnough ==
  ASSUME NEW R \in Nat, R > 1
  PROVE  Levels32(R) \in Nat \ {0} /\ R <= Span[Levels32(R)]
<1> DEFINE T == {j \in Nat : R <= Span[j]}
<1>1. R \in T
  BY Spans
<1>2. PICK m \in T : \A n \in T : m <= n
  BY <1>1, SmallestOf
<1>3. m \in 0 .. R
  BY <1>1, <1>2
<1>4. \A i \in 0 .. (m - 1) : R > Span[i]
  <2> TAKE i \in 0 .. (m - 1)
  <2>1. i \in Nat /\ Span[i] \in Nat /\ i \notin T
    BY <1>2, Spans
  <2> QED
    BY <2>1
<1>5. /\ Levels32(R) \in 0 .. R /\ R <= Span[Levels32(R)]
  BY <1>2, <1>3, <1>4 DEF Levels32
<1>6. Levels32(R) # 0
  BY <1>5, Spans
<1> QED
  BY <1>5, <1>6

(* The words of a number are those allocated, and the top word is one.     *)
LEMMA InRange ==
  ASSUME NEW R \in Nat, R > 1, NEW e \in 0 .. (R - 1)
  PROVE  /\ e \in Nat /\ \A j \in Nat : WordOf(e, j) \in 0 .. WordOf(R, j)
         /\ Cut(e, Levels32(R)) = 0
<1>1. e \in Nat /\ e <= R
  OBVIOUS
<1>2. ASSUME NEW j \in Nat PROVE WordOf(e, j) \in 0 .. WordOf(R, j)
  <2>1. CutRight(e, j) /\ CutRight(R, j)
    BY <1>1, CutIsRight
  <2>2. j + 1 \in Nat /\ Cut(e, j + 1) <= Cut(R, j + 1)
    BY <1>1, CutGrows
  <2> QED
    BY <2>1, <2>2 DEF CutRight
<1>3. Cut(e, Levels32(R)) = 0
  <2> DEFINE s == Span[Levels32(R)]
  <2>1. Levels32(R) \in Nat /\ R <= s
    BY LevelsAreEnough
  <2>2. s \in Nat
    BY <2>1, Spans
  <2> HIDE DEF s
  <2>3. e \div s = 0
    BY <2>1, <2>2
  <2> QED
    BY <2>3 DEF Cut, s
<1> QED
  BY <1>1, <1>2, <1>3

LEMMA Empties ==
  ASSUME NEW R \in Nat
  PROVE  StandsFor(EmptyBitmap(R), R, {})
<1> DEFINE map == EmptyBitmap(R)
<1>1. Shaped(map, R)
  BY DEF Shaped, EmptyBitmap
<1>2. ASSUME NEW j \in 0 .. (Levels32(R) - 1), NEW k \in 0 .. WordOf(R, j)
      PROVE  WordRight(map, {}, j, k)
  <2>1. map.bm[j][k] = {} /\ At({}, k, j + 1) = {}
    BY DEF EmptyBitmap, At
  <2> QED
    BY <2>1 DEF WordRight, BitsAt, EndsAt
<1> QED
  BY <1>1, <1>2 DEF StandsFor

LEMMA ShapeIs ==
  ASSUME NEW R \in Nat, R > 1, NEW map, Shaped(map, R)
  PROVE  /\ DOMAIN map.bm = 0 .. (Levels32(R) - 1) /\ DOMAIN map.min = 0 .. (Levels32(R) - 1)
         /\ DOMAIN map.max = 0 .. (Levels32(R) - 1) /\ Top(map) = Levels32(R) - 1
         /\ \A j \in 0 .. (Levels32(R) - 1) :
              /\ DOMAIN map.bm[j] = 0 .. WordOf(R, j) /\ DOMAIN map.min[j] = 0 .. WordOf(R, j)
              /\ DOMAIN map.max[j] = 0 .. WordOf(R, j)
<1> DEFINE n == Levels32(R)
<1>1. n \in Nat \ {0}
  BY LevelsAreEnough
<1> HIDE DEF n
<1>2. Cardinality(0 .. (n - 1)) = n
  <2> DEFINE a == 0
             b == n - 1
  <2>1. a \in Int /\ b \in Int /\ ~ (a > b) /\ b - a + 1 = n
    BY <1>1
  <2> HIDE DEF a, b
  <2>2. Cardinality(a .. b) = b - a + 1
    BY <2>1, FS_Interval
  <2> QED
    BY <2>1, <2>2 DEF a, b
<1>3. DOMAIN map.bm = 0 .. (n - 1) /\ DOMAIN map.min = 0 .. (n - 1) /\ DOMAIN map.max = 0 .. (n - 1)
  BY DEF Shaped, n
<1>4. ASSUME NEW j \in 0 .. (n - 1)
      PROVE  /\ DOMAIN map.bm[j] = 0 .. WordOf(R, j) /\ DOMAIN map.min[j] = 0 .. WordOf(R, j)
             /\ DOMAIN map.max[j] = 0 .. WordOf(R, j)
  BY <1>4 DEF Shaped, n
<1> QED
  BY <1>1, <1>2, <1>3, <1>4 DEF Top, n

Enclosed(E, e, j) == \E x, y \in E : x <= e /\ e <= y /\ Cut(x, j) = Cut(e, j) /\ Cut(y, j) = Cut(e, j)
LEMMA HighestIs ==
  ASSUME NEW R \in Nat, R > 1, NEW E, NEW map, StandsFor(map, R, E), NEW e \in 0 .. (R - 1)
  PROVE  /\ Highest(map, e) \in 0 .. (Levels32(R) - 1)
         /\ Highest(map, e) < Levels32(R) - 1 => Enclosed(E, e, Highest(map, e) + 1)
<1> DEFINE top == Levels32(R) - 1
           Encloses(j) == /\ Word(map, e, j) # {}
                        /\ map.min[j][WordOf(e, j)] <= e /\ e <= map.max[j][WordOf(e, j)]
           S == {j \in 1 .. top : Encloses(j)} \union {top}
<1>0. top \in Nat
  BY LevelsAreEnough
<1>1. Top(map) = top
  BY ShapeIs DEF StandsFor
<1>2. Highest(map, e) = Min(S)
  BY <1>1 DEF Highest
<1>3. S \subseteq 0 .. top /\ S # {} /\ \A j \in S : j # top => j \in 1 .. top /\ Encloses(j)
  BY <1>0
<1>4. \A j \in 0 .. top : WordOf(e, j) \in 0 .. WordOf(R, j) /\ WordOf(e, j) = Cut(e, j + 1)
  BY InRange DEF WordOf, Cut
<1>5. ASSUME NEW j \in 1 .. top, Encloses(j) PROVE Enclosed(E, e, j + 1)
  <2> DEFINE k == WordOf(e, j)
  <2>1. j \in 0 .. top /\ j > 0 /\ k \in 0 .. WordOf(R, j) /\ k = Cut(e, j + 1)
    BY <1>0, <1>4
  <2>2. WordRight(map, E, j, k)
    BY <2>1 DEF StandsFor
  <2>3. At(E, k, j + 1) # {}
    BY <1>5, <2>2 DEF WordRight, BitsAt, Word
  <2>4. map.min[j][k] \in At(E, k, j + 1) /\ map.max[j][k] \in At(E, k, j + 1)
    BY <2>1, <2>2, <2>3 DEF WordRight, EndsAt, IsLeast, IsGreatest
  <2>5. map.min[j][k] <= e /\ e <= map.max[j][k]
    BY <1>5
  <2> HIDE DEF k
  <2> QED
    BY <2>1, <2>4, <2>5 DEF At, Enclosed
<1> HIDE DEF top, Encloses, S
<1>6. S \subseteq Nat
  BY <1>0, <1>3
<1>7. IsLeast(Min(S), S)
  BY <1>6, <1>3, MinIsLeast
<1>8. Min(S) \in S
  BY <1>7 DEF IsLeast
<1> HIDE DEF Enclosed
<1>9. Min(S) \in 0 .. top /\ (Min(S) # top => Enclosed(E, e, Min(S) + 1))
  BY <1>3, <1>5, <1>8
<1> QED
  BY <1>0, <1>2, <1>9 DEF top

SetAt(map, out, e, j, k, reach) ==
  LET here == k = WordOf(e, j)
      new == map.bm[j][k] = {} IN
  /\ out.bm[j][k] = IF here /\ j <= reach THEN map.bm[j][k] \union {BitOf(e, j)} ELSE map.bm[j][k]
  /\ out.min[j][k] = IF here /\ j <= reach /\ j > 0 /\ (new \/ e < map.min[j][k]) THEN e ELSE map.min[j][k]
  /\ out.max[j][k] = IF here /\ j <= reach /\ j > 0 /\ (new \/ e > map.max[j][k]) THEN e ELSE map.max[j][k]
LEMMA SetIs ==
  ASSUME NEW R \in Nat, R > 1, NEW E, NEW map, StandsFor(map, R, E), NEW e \in 0 .. (R - 1)
  PROVE  /\ Shaped(BitSet(map, e), R)
         /\ \A j \in 0 .. (Levels32(R) - 1) : \A k \in 0 .. WordOf(R, j) :
              SetAt(map, BitSet(map, e), e, j, k, Highest(map, e))
<1> DEFINE levels == 0 .. (Levels32(R) - 1)
           words(j) == 0 .. WordOf(R, j)
           reach == Highest(map, e)
           out == BitSet(map, e)
           New(j) == Word(map, e, j) = {}
           Put(f, j, yes) == IF j \in 1 .. reach /\ yes THEN [f EXCEPT ![WordOf(e, j)] = e] ELSE f
<1>1. /\ DOMAIN map.bm = levels /\ DOMAIN map.min = levels /\ DOMAIN map.max = levels
      /\ \A j \in levels : /\ DOMAIN map.bm[j] = words(j) /\ DOMAIN map.min[j] = words(j)
                           /\ DOMAIN map.max[j] = words(j)
                           /\ map.bm[j] = [k \in words(j) |-> map.bm[j][k]]
                           /\ map.min[j] = [k \in words(j) |-> map.min[j][k]]
                           /\ map.max[j] = [k \in words(j) |-> map.max[j][k]]
  <2>1. Shaped(map, R)
    BY DEF StandsFor
  <2>2. \A j \in levels : /\ map.bm[j] = [k \in words(j) |-> map.bm[j][k]]
                          /\ map.min[j] = [k \in words(j) |-> map.min[j][k]]
                          /\ map.max[j] = [k \in words(j) |-> map.max[j][k]]
    BY <2>1 DEF Shaped
  <2> HIDE DEF levels, words
  <2> QED
    BY <2>1, <2>2, ShapeIs DEF levels, words
<1>2. out = [bm  |-> [j \in levels |->
                  IF j <= reach THEN [map.bm[j] EXCEPT ![WordOf(e, j)] = @ \union {BitOf(e, j)}]
                                ELSE map.bm[j]],
       min |-> [j \in levels |-> Put(map.min[j], j, New(j) \/ e < map.min[j][WordOf(e, j)])],
       max |-> [j \in levels |-> Put(map.max[j], j, New(j) \/ e > map.max[j][WordOf(e, j)])]]
  BY <1>1 DEF BitSet
<1>3. reach \in levels
  BY HighestIs
<1>4. \A j \in levels : WordOf(e, j) \in words(j) /\ j \in Nat
  BY InRange
<1> HIDE DEF levels, words, reach, out
<1>5. ASSUME NEW j \in levels
      PROVE  /\ out.bm[j] = IF j <= reach THEN [map.bm[j] EXCEPT ![WordOf(e, j)] = @ \union {BitOf(e, j)}]
                            ELSE map.bm[j]
             /\ out.min[j] = Put(map.min[j], j, New(j) \/ e < map.min[j][WordOf(e, j)])
             /\ out.max[j] = Put(map.max[j], j, New(j) \/ e > map.max[j][WordOf(e, j)])
  BY <1>2
<1>6. ASSUME NEW j \in levels, NEW k \in words(j)
      PROVE  SetAt(map, out, e, j, k, reach)
  <2>1. j \in Nat /\ reach \in Nat
    BY <1>3, <1>4 DEF levels
  <2>2. j \in 1 .. reach <=> j <= reach /\ j > 0
    BY <2>1
  <2> HIDE DEF New
  <2>3. out.bm[j][k] = IF k = WordOf(e, j) /\ j <= reach THEN map.bm[j][k] \union {BitOf(e, j)} ELSE map.bm[j][k]
    BY <1>1, <1>4, <1>5
  <2>4. /\ out.min[j][k] = IF k = WordOf(e, j) /\ j \in 1 .. reach /\ (New(j) \/ e < map.min[j][WordOf(e, j)]) THEN e ELSE map.min[j][k]
        /\ out.max[j][k] = IF k = WordOf(e, j) /\ j \in 1 .. reach /\ (New(j) \/ e > map.max[j][WordOf(e, j)]) THEN e ELSE map.max[j][k]
    BY <1>1, <1>4, <1>5
  <2>5. k = WordOf(e, j) => (New(j) <=> map.bm[j][k] = {})
    BY DEF New, Word
  <2> QED
    BY <2>2, <2>3, <2>4, <2>5 DEF SetAt
<1>7. Shaped(out, R)
  <2>1. ASSUME NEW j \in levels
        PROVE  /\ out.bm[j] = [k \in words(j) |-> out.bm[j][k]]
               /\ out.min[j] = [k \in words(j) |-> out.min[j][k]]
               /\ out.max[j] = [k \in words(j) |-> out.max[j][k]]
    <3> HIDE DEF New
    <3> QED
      BY <1>1, <1>5
  <2>2. /\ out = [bm |-> out.bm, min |-> out.min, max |-> out.max]
        /\ out.bm = [j \in levels |-> out.bm[j]] /\ out.min = [j \in levels |-> out.min[j]]
        /\ out.max = [j \in levels |-> out.max[j]]
    BY <1>2
  <2> QED
    BY <2>1, <2>2 DEF Shaped, levels, words
<1> QED
  BY <1>6, <1>7 DEF levels, words, out, reach

(* Set stops where the words above have the number's bit, between the     *)
(* numbers they keep.                                                      *)
LEMMA EnclosedAbove ==
  ASSUME NEW E, E \subseteq Nat, NEW e \in Nat, NEW i \in Nat, NEW j \in Nat, i <= j, Enclosed(E, e, i)
  PROVE  Enclosed(E, e, j)
<1>1. PICK x \in E, y \in E : x <= e /\ e <= y /\ Cut(x, i) = Cut(e, i) /\ Cut(y, i) = Cut(e, i)
  BY DEF Enclosed
<1>2. x \in Nat /\ y \in Nat
  OBVIOUS
<1>3. Cut(x, j) = Cut(e, j)
  BY <1>1, <1>2, CutSame
<1>4. Cut(y, j) = Cut(e, j)
  BY <1>1, <1>2, CutSame
<1> QED
  BY <1>1, <1>3, <1>4 DEF Enclosed

LEMMA BitOfSame ==
  ASSUME NEW x \in Nat, NEW y \in Nat, NEW j \in Nat, Cut(x, j) = Cut(y, j)
  PROVE  BitOf(x, j) = BitOf(y, j)
BY DEF BitOf, Cut

LEMMA SetWord ==
  ASSUME NEW R \in Nat, R > 1, NEW E, NEW map, StandsFor(map, R, E), NEW e \in 0 .. (R - 1),
         NEW j \in 0 .. (Levels32(R) - 1), NEW k \in 0 .. WordOf(R, j)
  PROVE  WordRight(BitSet(map, e), E \union {e}, j, k)
<1> DEFINE out == BitSet(map, e)
           reach == Highest(map, e)
           U == At(E, k, j + 1)
           V == At(E \union {e}, k, j + 1)
<1>1. SetAt(map, out, e, j, k, reach)
  BY SetIs
<1>2. WordRight(map, E, j, k)
  BY DEF StandsFor
<1>3. E \subseteq Nat /\ e \in Nat /\ j \in Nat /\ WordOf(e, j) = Cut(e, j + 1) /\ j + 1 \in Nat
  BY InRange DEF StandsFor, WordOf, Cut
<1>4. V = IF k = Cut(e, j + 1) THEN U \union {e} ELSE U
  BY DEF At
<1>5. U \subseteq Nat /\ U \subseteq E
  BY <1>3 DEF At
<1>6. reach \in Nat /\ reach \in 0 .. (Levels32(R) - 1) /\ (reach < j => Enclosed(E, e, j))
  <2>1. reach \in 0 .. (Levels32(R) - 1) /\ (reach < Levels32(R) - 1 => Enclosed(E, e, reach + 1))
    BY HighestIs
  <2> HIDE DEF reach
  <2>2. reach \in Nat
    BY <2>1
  <2>3. ASSUME reach < j PROVE Enclosed(E, e, j)
    <3>1. Levels32(R) \in Nat
      BY LevelsAreEnough
    <3> DEFINE i == reach + 1
    <3>2. i \in Nat /\ i <= j /\ Enclosed(E, e, i)
      BY <2>1, <2>2, <2>3, <3>1
    <3> HIDE DEF i
    <3> QED
      BY <1>3, <3>2, EnclosedAbove
  <2> QED
    BY <2>1, <2>2, <2>3
<1> HIDE DEF out, reach
<1> SUFFICES WordRight(out, E \union {e}, j, k)
  BY DEF out
<1>7. CASE k # Cut(e, j + 1)
  <2>1. out.bm[j][k] = map.bm[j][k] /\ out.min[j][k] = map.min[j][k] /\ out.max[j][k] = map.max[j][k] /\ V = U
    BY <1>1, <1>3, <1>4, <1>7 DEF SetAt
  <2> QED
    BY <1>2, <2>1 DEF WordRight, BitsAt, EndsAt
<1>8. CASE k = Cut(e, j + 1) /\ j <= reach
  <2>1. V = U \union {e} /\ out.bm[j][k] = map.bm[j][k] \union {BitOf(e, j)}
    BY <1>1, <1>3, <1>4, <1>8 DEF SetAt
  <2>2. map.bm[j][k] = {BitOf(y, j) : y \in U}
    BY <1>2 DEF WordRight, BitsAt
  <2>3. BitsAt(out, E \union {e}, j, k)
    BY <2>1, <2>2 DEF BitsAt
  <2>4. ASSUME j > 0 PROVE EndsAt(out, E \union {e}, j, k)
    <3>1. /\ out.min[j][k] = IF U = {} \/ e < map.min[j][k] THEN e ELSE map.min[j][k]
          /\ out.max[j][k] = IF U = {} \/ e > map.max[j][k] THEN e ELSE map.max[j][k]
      <4>1. map.bm[j][k] = {} <=> U = {}
        BY <2>2
      <4> HIDE DEF U
      <4> QED
        BY <1>1, <1>3, <1>8, <2>4, <4>1 DEF SetAt
    <3>2. U # {} => IsLeast(map.min[j][k], U) /\ IsGreatest(map.max[j][k], U)
      BY <1>2, <2>4 DEF WordRight, EndsAt
    <3> HIDE DEF U, V
    <3>3. IsLeast(out.min[j][k], V) /\ IsGreatest(out.max[j][k], V)
      <4>1. CASE U = {}
        BY <1>3, <2>1, <3>1, <4>1 DEF IsLeast, IsGreatest
      <4>2. CASE U # {}
        <5> DEFINE a == map.min[j][k]
                   b == map.max[j][k]
                   c == out.min[j][k]
                   d == out.max[j][k]
        <5>1. /\ a \in U /\ \A y \in U : a <= y
              /\ b \in U /\ \A y \in U : y <= b
          BY <3>2, <4>2 DEF IsLeast, IsGreatest
        <5>2. c = (IF e < a THEN e ELSE a) /\ d = (IF e > b THEN e ELSE b)
          BY <3>1, <4>2
        <5> HIDE DEF a, b, c, d
        <5>3. a \in Nat /\ b \in Nat
          BY <1>5, <5>1
        <5>4. c \in V /\ d \in V
          BY <2>1, <5>1, <5>2
        <5>5. \A y \in V : c <= y
          BY <1>3, <1>5, <2>1, <5>1, <5>2, <5>3
        <5>6. \A y \in V : y <= d
          BY <1>3, <1>5, <2>1, <5>1, <5>2, <5>3
        <5> QED
          BY <5>4, <5>5, <5>6 DEF IsLeast, IsGreatest, c, d
      <4> QED
        BY <4>1, <4>2
    <3> QED
      BY <3>3 DEF EndsAt, V
  <2> QED
    BY <2>3, <2>4 DEF WordRight
<1>9. CASE k = Cut(e, j + 1) /\ ~ (j <= reach)
  <2>1. /\ V = U \union {e} /\ out.bm[j][k] = map.bm[j][k]
        /\ out.min[j][k] = map.min[j][k] /\ out.max[j][k] = map.max[j][k]
    BY <1>1, <1>3, <1>4, <1>9 DEF SetAt
  <2>2. Enclosed(E, e, j) /\ j > 0
    BY <1>3, <1>6, <1>9
  <2>3. PICK x \in E, y \in E : x <= e /\ e <= y /\ Cut(x, j) = Cut(e, j) /\ Cut(y, j) = Cut(e, j)
    BY <2>2 DEF Enclosed
  <2>4. x \in Nat /\ y \in Nat
    BY <1>3
  <2>5. x \in U /\ y \in U
    <3>1. Cut(x, j + 1) = Cut(e, j + 1)
      BY <1>3, <2>3, <2>4, CutSame
    <3>2. Cut(y, j + 1) = Cut(e, j + 1)
      BY <1>3, <2>3, <2>4, CutSame
    <3> QED
      BY <1>9, <3>1, <3>2 DEF At
  <2>6. BitOf(x, j) = BitOf(e, j)
    BY <1>3, <2>3, <2>4, BitOfSame
  <2>7. BitsAt(out, E \union {e}, j, k)
    <3>1. map.bm[j][k] = {BitOf(z, j) : z \in U}
      BY <1>2 DEF WordRight, BitsAt
    <3>2. {BitOf(z, j) : z \in U} = {BitOf(z, j) : z \in V}
      BY <2>1, <2>5, <2>6
    <3> QED
      BY <2>1, <3>1, <3>2 DEF BitsAt
  <2>8. IsLeast(map.min[j][k], U) /\ IsGreatest(map.max[j][k], U)
    BY <1>2, <2>2, <2>5 DEF WordRight, EndsAt
  <2> HIDE DEF U, V
  <2>9. IsLeast(map.min[j][k], V) /\ IsGreatest(map.max[j][k], V)
    <3> DEFINE a == map.min[j][k]
               b == map.max[j][k]
    <3>1. a \in U /\ b \in U /\ a <= x /\ y <= b /\ (\A z \in U : a <= z) /\ (\A z \in U : z <= b)
      BY <2>5, <2>8 DEF IsLeast, IsGreatest
    <3> HIDE DEF a, b
    <3>2. a \in Nat /\ b \in Nat /\ a <= e /\ e <= b
      BY <1>3, <1>5, <2>3, <2>4, <3>1
    <3>3. a \in V /\ b \in V /\ (\A z \in V : a <= z) /\ (\A z \in V : z <= b)
      BY <2>1, <3>1, <3>2
    <3> QED
      BY <3>3 DEF IsLeast, IsGreatest, a, b
  <2> QED
    BY <2>1, <2>7, <2>9 DEF WordRight, EndsAt, V
<1> QED
  BY <1>7, <1>8, <1>9

LEMMA Sets ==
  ASSUME NEW R \in Nat, R > 1, NEW E, NEW map, StandsFor(map, R, E), NEW e \in 0 .. (R - 1)
  PROVE  StandsFor(BitSet(map, e), R, E \union {e})
<1>1. Shaped(BitSet(map, e), R)
  BY SetIs
<1>2. \A j \in 0 .. (Levels32(R) - 1) : \A k \in 0 .. WordOf(R, j) : WordRight(BitSet(map, e), E \union {e}, j, k)
  BY SetWord
<1>3. E \union {e} \subseteq 0 .. (R - 1)
  BY DEF StandsFor
<1> QED
  BY <1>1, <1>2, <1>3 DEF StandsFor

(* A word and the words of its bits.                                       *)
WordUnder(k, b) == k * WordBits + b
BitsIn(E, k, j) == {BitOf(y, j) : y \in At(E, k, j + 1)}
Having(E, k, j, b) == {y \in At(E, k, j + 1) : BitOf(y, j) = b}
LEMMA ChildIs ==
  ASSUME NEW E, E \subseteq Nat, NEW j \in Nat, NEW k \in Nat, NEW b \in 0 .. (WordBits - 1)
  PROVE  At(E, WordUnder(k, b), j) = Having(E, k, j, b)
<1> DEFINE w == WordBits
           n == WordUnder(k, b)
<1>1. w \in Nat /\ w > 1 /\ n = w * k + b
  BY WordBitsAssumption DEF WordUnder
<1>2. ASSUME NEW y \in E
      PROVE  Cut(y, j) = n <=> Cut(y, j + 1) = k /\ BitOf(y, j) = b
  <2> DEFINE c == Cut(y, j)
             d == Cut(y, j + 1)
             p == BitOf(y, j)
  <2>1. c = w * d + p /\ d \in Nat /\ p \in 0 .. (w - 1)
    BY CutIsRight DEF CutRight
  <2> HIDE DEF c, d, p, n, w
  <2>2. b \in 0 .. (w - 1)
    BY DEF w
  <2>3. ASSUME c = n PROVE d = k /\ p = b
    <3>1. c \div w = d /\ c % w = p
      BY <1>1, <2>1
    <3>2. n \div w = k /\ n % w = b
      BY <1>1, <2>2
    <3> QED
      BY <2>3, <3>1, <3>2
  <2>4. ASSUME d = k, p = b PROVE c = n
    BY <1>1, <2>1, <2>4
  <2> QED
    BY <2>3, <2>4 DEF c, d, p
<1> QED
  BY <1>2 DEF At, Having, n

LEMMA BitsAre ==
  ASSUME NEW E, E \subseteq Nat, NEW j \in Nat, NEW k \in Nat
  PROVE  /\ BitsIn(E, k, j) \subseteq 0 .. (WordBits - 1) /\ BitsIn(E, k, j) \subseteq Nat
         /\ BitsIn(E, k, j) = {} <=> At(E, k, j + 1) = {}
         /\ \A b \in BitsIn(E, k, j) : At(E, WordUnder(k, b), j) # {}
<1>1. ASSUME NEW y \in At(E, k, j + 1) PROVE BitOf(y, j) \in 0 .. (WordBits - 1)
  <2>1. y \in Nat
    BY DEF At
  <2> QED
    BY <2>1, CutIsRight DEF CutRight
<1>2. ASSUME NEW b \in BitsIn(E, k, j) PROVE At(E, WordUnder(k, b), j) # {}
  <2>1. PICK y \in At(E, k, j + 1) : BitOf(y, j) = b
    BY DEF BitsIn
  <2>2. b \in 0 .. (WordBits - 1)
    BY <1>1, <2>1
  <2>3. At(E, WordUnder(k, b), j) = Having(E, k, j, b)
    BY <2>2, ChildIs
  <2> QED
    BY <2>1, <2>3 DEF Having
<1>3. BitsIn(E, k, j) \subseteq 0 .. (WordBits - 1)
  BY <1>1 DEF BitsIn
<1>4. 0 .. (WordBits - 1) \subseteq Nat
  OBVIOUS
<1>5. BitsIn(E, k, j) = {} <=> At(E, k, j + 1) = {}
  BY DEF BitsIn
<1> QED
  BY <1>2, <1>3, <1>4, <1>5

LEMMA FirstChild ==
  ASSUME NEW E, E \subseteq Nat, NEW j \in Nat, NEW k \in Nat,
         NEW b, IsLeast(b, BitsIn(E, k, j)), NEW m, IsLeast(m, At(E, WordUnder(k, b), j))
  PROVE  IsLeast(m, At(E, k, j + 1))
<1>1. b \in BitsIn(E, k, j) /\ b \in 0 .. (WordBits - 1) /\ \A c \in BitsIn(E, k, j) : b <= c
  BY BitsAre DEF IsLeast
<1>2. At(E, WordUnder(k, b), j) = {y \in At(E, k, j + 1) : BitOf(y, j) = b}
  <2>1. At(E, WordUnder(k, b), j) = Having(E, k, j, b)
    BY <1>1, ChildIs
  <2> QED
    BY <2>1 DEF Having
<1>3. m \in At(E, k, j + 1) /\ BitOf(m, j) = b /\ \A y \in At(E, WordUnder(k, b), j) : m <= y
  BY <1>2 DEF IsLeast
<1>4. ASSUME NEW y \in At(E, k, j + 1) PROVE m <= y
  <2>1. y \in Nat /\ m \in Nat /\ WordOf(y, j) = WordOf(m, j)
    BY <1>3 DEF At, WordOf, Cut
  <2>2. BitOf(y, j) \in BitsIn(E, k, j)
    BY DEF BitsIn
  <2>3. b <= BitOf(y, j) /\ BitOf(y, j) \in Nat /\ b \in Nat
    BY <1>1, <2>2, BitsAre
  <2>4. CASE BitOf(y, j) = b
    BY <1>2, <1>3, <2>4
  <2>5. CASE BitOf(y, j) # b
    <3>1. BitOf(m, j) < BitOf(y, j)
      BY <1>3, <2>3, <2>5
    <3>2. m < y
      BY <2>1, <3>1, BitsTell
    <3> QED
      BY <2>1, <3>2
  <2> QED
    BY <2>4, <2>5
<1> QED
  BY <1>3, <1>4 DEF IsLeast

LEMMA LastChild ==
  ASSUME NEW E, E \subseteq Nat, NEW j \in Nat, NEW k \in Nat,
         NEW b, IsGreatest(b, BitsIn(E, k, j)), NEW m, IsGreatest(m, At(E, WordUnder(k, b), j))
  PROVE  IsGreatest(m, At(E, k, j + 1))
<1>1. b \in BitsIn(E, k, j) /\ b \in 0 .. (WordBits - 1) /\ \A c \in BitsIn(E, k, j) : c <= b
  BY BitsAre DEF IsGreatest
<1>2. At(E, WordUnder(k, b), j) = {y \in At(E, k, j + 1) : BitOf(y, j) = b}
  <2>1. At(E, WordUnder(k, b), j) = Having(E, k, j, b)
    BY <1>1, ChildIs
  <2> QED
    BY <2>1 DEF Having
<1>3. m \in At(E, k, j + 1) /\ BitOf(m, j) = b /\ \A y \in At(E, WordUnder(k, b), j) : y <= m
  BY <1>2 DEF IsGreatest
<1>4. ASSUME NEW y \in At(E, k, j + 1) PROVE y <= m
  <2>1. y \in Nat /\ m \in Nat /\ WordOf(y, j) = WordOf(m, j)
    BY <1>3 DEF At, WordOf, Cut
  <2>2. BitOf(y, j) \in BitsIn(E, k, j)
    BY DEF BitsIn
  <2>3. BitOf(y, j) <= b /\ BitOf(y, j) \in Nat /\ b \in Nat
    BY <1>1, <2>2, BitsAre
  <2>4. CASE BitOf(y, j) = b
    BY <1>2, <1>3, <2>4
  <2>5. CASE BitOf(y, j) # b
    <3>1. BitOf(y, j) < BitOf(m, j)
      BY <1>3, <2>3, <2>5
    <3>2. y < m
      BY <2>1, <3>1, BitsTell
    <3> QED
      BY <2>1, <3>2
  <2> QED
    BY <2>4, <2>5
<1> QED
  BY <1>3, <1>4 DEF IsGreatest

BottomUnder(map, E, j, k) == IsLeast(FindMin(map, k, j), At(E, k, j + 1))
TopUnder(map, E, j, k) == IsGreatest(FindMax(map, k, j), At(E, k, j + 1))
LEMMA FindIs ==
  ASSUME NEW E, E \subseteq Nat, NEW map, NEW j \in Nat, NEW k \in Nat,
         WordRight(map, E, j, k), At(E, k, j + 1) # {}
  PROVE  BottomUnder(map, E, j, k) /\ TopUnder(map, E, j, k)
<1>1. CASE j # 0
  <2>1. j > 0
    BY <1>1
  <2> QED
    BY <1>1, <2>1 DEF BottomUnder, TopUnder, FindMin, FindMax, WordRight, EndsAt
<1>2. CASE j = 0
  <2> DEFINE B == BitsIn(E, k, j)
             w == WordBits
  <2>1. map.bm[j][k] = B
    BY DEF WordRight, BitsAt, BitsIn
  <2>2. B \subseteq Nat /\ B # {} /\ B \subseteq 0 .. (w - 1) /\ \A b \in B : At(E, WordUnder(k, b), j) # {}
    BY BitsAre
  <2>3. w \in Nat /\ w > 1
    BY WordBitsAssumption
  <2>w. w - 1 \in Nat /\ \A b \in B : b <= w - 1
    BY <2>2, <2>3
  <2> HIDE DEF B, w
  <2>4. IsLeast(Min(B), B)
    BY <2>2, MinIsLeast
  <2>5. IsGreatest(Max(B), B)
    <3> DEFINE c == w - 1
    <3>1. c \in Nat /\ \A b \in B : b <= c
      BY <2>w
    <3> HIDE DEF c
    <3> QED
      BY <2>2, <3>1, MaxIsGreatest
  <2> DEFINE p == Min(B)
             q == Max(B)
  <2>6. p \in B /\ q \in B
    BY <2>4, <2>5 DEF IsLeast, IsGreatest
  <2> HIDE DEF p, q
  <2>7. ASSUME NEW b \in B PROVE At(E, WordUnder(k, b), j) = {WordUnder(k, b)}
    <3>1. \A y \in E : y \in Nat /\ Cut(y, j) = y
      BY <1>2, CutWhole
    <3>2. At(E, WordUnder(k, b), j) \subseteq {WordUnder(k, b)}
      BY <3>1 DEF At
    <3> QED
      BY <2>2, <3>2
  <2>8. IsLeast(WordUnder(k, p), At(E, WordUnder(k, p), j))
    <3> DEFINE c == WordUnder(k, p)
    <3>1. At(E, c, j) = {c}
      BY <2>6, <2>7
    <3>2. c \in Nat
      BY <3>1 DEF At
    <3> HIDE DEF c
    <3>3. IsLeast(c, At(E, c, j))
      BY <3>1, <3>2 DEF IsLeast
    <3> QED
      BY <3>3 DEF c
  <2>9. IsGreatest(WordUnder(k, q), At(E, WordUnder(k, q), j))
    <3> DEFINE c == WordUnder(k, q)
    <3>1. At(E, c, j) = {c}
      BY <2>6, <2>7
    <3>2. c \in Nat
      BY <3>1 DEF At
    <3> HIDE DEF c
    <3>3. IsGreatest(c, At(E, c, j))
      BY <3>1, <3>2 DEF IsGreatest
    <3> QED
      BY <3>3 DEF c
  <2>10. IsLeast(WordUnder(k, p), At(E, k, j + 1))
    <3> DEFINE m == WordUnder(k, p)
    <3>1. IsLeast(p, BitsIn(E, k, j)) /\ IsLeast(m, At(E, WordUnder(k, p), j))
      BY <2>4, <2>8 DEF p, B
    <3> HIDE DEF m
    <3>2. IsLeast(m, At(E, k, j + 1))
      BY <3>1, FirstChild
    <3> QED
      BY <3>2 DEF m
  <2>11. IsGreatest(WordUnder(k, q), At(E, k, j + 1))
    <3> DEFINE m == WordUnder(k, q)
    <3>1. IsGreatest(q, BitsIn(E, k, j)) /\ IsGreatest(m, At(E, WordUnder(k, q), j))
      BY <2>5, <2>9 DEF q, B
    <3> HIDE DEF m
    <3>2. IsGreatest(m, At(E, k, j + 1))
      BY <3>1, LastChild
    <3> QED
      BY <3>2 DEF m
  <2>12. FindMin(map, k, j) = WordUnder(k, p) /\ FindMax(map, k, j) = WordUnder(k, q)
    <3>1. FindMin(map, k, j) = p + k * w /\ FindMax(map, k, j) = q + k * w
      BY <1>2, <2>1 DEF FindMin, FindMax, p, q, w
    <3>2. p \in Nat /\ q \in Nat /\ k * w \in Nat
      BY <2>2, <2>3, <2>6
    <3> QED
      BY <3>1, <3>2 DEF WordUnder, w
  <2> QED
    BY <2>10, <2>11, <2>12 DEF BottomUnder, TopUnder
<1> QED
  BY <1>1, <1>2

(* Two numbers of a word part at some level, in their order.               *)
Parts2(x, y, j) == Cut(x, j + 1) = Cut(y, j + 1) /\ BitOf(x, j) < BitOf(y, j)
LEMMA PartSomewhere ==
  ASSUME NEW x \in Nat, NEW y \in Nat, x < y, NEW n \in Nat, Cut(x, n) = Cut(y, n)
  PROVE  \E j \in 0 .. (n - 1) : Parts2(x, y, j)
<1> DEFINE S == {i \in Nat : Cut(x, i) = Cut(y, i)}
<1>1. n \in S
  OBVIOUS
<1>2. PICK m \in S : \A i \in S : m <= i
  BY <1>1, SmallestOf
<1>3. m # 0
  BY <1>2, CutWhole
<1> DEFINE j == m - 1
<1>4. j \in Nat /\ j \in 0 .. (n - 1) /\ m = j + 1 /\ j \notin S
  BY <1>1, <1>2, <1>3
<1>5. Cut(x, j + 1) = Cut(y, j + 1)
  BY <1>2, <1>4
<1> HIDE DEF j
<1>6. Cut(x, j) # Cut(y, j)
  BY <1>4
<1>7. WordOf(x, j) = WordOf(y, j)
  BY <1>5 DEF WordOf, Cut
<1>8. BitOf(x, j) <= BitOf(y, j) /\ BitOf(x, j) # BitOf(y, j)
  BY <1>4, <1>6, <1>7, BitsTell
<1>9. BitOf(x, j) \in Int /\ BitOf(y, j) \in Int
  <2>1. CutRight(x, j) /\ CutRight(y, j)
    BY <1>4, CutIsRight
  <2> QED
    BY <2>1 DEF CutRight
<1>10. BitOf(x, j) < BitOf(y, j)
  BY <1>8, <1>9
<1> QED
  BY <1>4, <1>5, <1>10 DEF Parts2

PrevIn(E, e, p) == IF p = -1 THEN \A y \in E : ~ (y < e) ELSE p \in E /\ p < e /\ \A y \in E : y < e => y <= p
NextIn(E, e, p) == IF p = -1 THEN \A y \in E : ~ (y > e) ELSE p \in E /\ p > e /\ \A y \in E : y > e => y >= p
LowBits(E, e, j) == {i \in BitsIn(E, WordOf(e, j), j) : i < BitOf(e, j)}
HighBits(E, e, j) == {i \in BitsIn(E, WordOf(e, j), j) : i > BitOf(e, j)}

LEMMA PartsBelow ==
  ASSUME NEW E, E \subseteq Nat, NEW e \in Nat, NEW y \in E, NEW j \in Nat, Parts2(y, e, j)
  PROVE  BitOf(y, j) \in LowBits(E, e, j) /\ y \in At(E, WordUnder(WordOf(e, j), BitOf(y, j)), j)
<1>1. Cut(y, j + 1) = WordOf(e, j) /\ BitOf(y, j) < BitOf(e, j)
  BY DEF Parts2, WordOf, Cut
<1>2. y \in At(E, WordOf(e, j), j + 1)
  BY <1>1 DEF At
<1>3. BitOf(y, j) \in BitsIn(E, WordOf(e, j), j)
  BY <1>2 DEF BitsIn
<1> DEFINE b == BitOf(y, j)
           k == WordOf(e, j)
<1>4. b \in 0 .. (WordBits - 1) /\ k \in Nat
  <2>1. CutRight(y, j) /\ CutRight(e, j)
    BY CutIsRight
  <2> QED
    BY <2>1 DEF CutRight
<1>5. y \in Having(E, k, j, b)
  BY <1>2 DEF Having
<1> HIDE DEF b, k
<1>6. At(E, WordUnder(k, b), j) = Having(E, k, j, b)
  BY <1>4, ChildIs
<1> QED
  BY <1>1, <1>3, <1>5, <1>6 DEF LowBits, b, k

LEMMA PartsAbove ==
  ASSUME NEW E, E \subseteq Nat, NEW e \in Nat, NEW y \in E, NEW j \in Nat, Parts2(e, y, j)
  PROVE  BitOf(y, j) \in HighBits(E, e, j) /\ y \in At(E, WordUnder(WordOf(e, j), BitOf(y, j)), j)
<1>1. Cut(y, j + 1) = WordOf(e, j) /\ BitOf(y, j) > BitOf(e, j)
  <2>1. CutRight(y, j) /\ CutRight(e, j)
    BY CutIsRight
  <2> QED
    BY <2>1 DEF Parts2, CutRight
<1>2. y \in At(E, WordOf(e, j), j + 1)
  BY <1>1 DEF At
<1>3. BitOf(y, j) \in BitsIn(E, WordOf(e, j), j)
  BY <1>2 DEF BitsIn
<1> DEFINE b == BitOf(y, j)
           k == WordOf(e, j)
<1>4. b \in 0 .. (WordBits - 1) /\ k \in Nat
  <2>1. CutRight(y, j) /\ CutRight(e, j)
    BY CutIsRight
  <2> QED
    BY <2>1 DEF CutRight
<1>5. y \in Having(E, k, j, b)
  BY <1>2 DEF Having
<1> HIDE DEF b, k
<1>6. At(E, WordUnder(k, b), j) = Having(E, k, j, b)
  BY <1>4, ChildIs
<1> QED
  BY <1>1, <1>3, <1>5, <1>6 DEF HighBits, b, k

(* Those of a word with a smaller bit than a number's are below it, and    *)
(* above those that part from it further up.                               *)
Placed(E, e, j, b, m) ==
  /\ m \in E /\ m \in Nat /\ Cut(m, j + 1) = Cut(e, j + 1) /\ BitOf(m, j) = b
  /\ b < BitOf(e, j) => m < e
  /\ b > BitOf(e, j) => m > e
LEMMA ChildPlace ==
  ASSUME NEW E, E \subseteq Nat, NEW e \in Nat, NEW j \in Nat, NEW b \in BitsIn(E, WordOf(e, j), j),
         NEW m \in At(E, WordUnder(WordOf(e, j), b), j)
  PROVE  Placed(E, e, j, b, m)
<1> DEFINE k == WordOf(e, j)
<1>1. k \in Nat /\ k = Cut(e, j + 1)
  BY CutIsRight DEF CutRight
<1>2. b \in 0 .. (WordBits - 1)
  <2>1. BitsIn(E, k, j) \subseteq 0 .. (WordBits - 1)
    <3> HIDE DEF k
    <3> QED
      BY <1>1, BitsAre
  <2> QED
    BY <2>1
<1> HIDE DEF k
<1>3. At(E, WordUnder(k, b), j) = Having(E, k, j, b)
  BY <1>1, <1>2, ChildIs
<1>4. m \in E /\ m \in Nat /\ Cut(m, j + 1) = k /\ BitOf(m, j) = b
  BY <1>3 DEF Having, At, k
<1>5. WordOf(m, j) = WordOf(e, j)
  BY <1>1, <1>4 DEF WordOf, Cut
<1>6. b < BitOf(e, j) => m < e
  BY <1>4, <1>5, BitsTell
<1>7. b > BitOf(e, j) => m > e
  <2>1. b > BitOf(e, j) => BitOf(e, j) < BitOf(m, j)
    <3>1. CutRight(e, j)
      BY CutIsRight
    <3> QED
      BY <1>2, <1>4, <3>1 DEF CutRight
  <2>2. BitOf(e, j) < BitOf(m, j) => e < m
    BY <1>4, <1>5, BitsTell
  <2> QED
    BY <1>4, <2>1, <2>2
<1> QED
  BY <1>1, <1>4, <1>6, <1>7 DEF Placed

Nearer(E, e, m) == m \in E /\ m < e /\ \A y \in E : y < e => y <= m
Further(E, e, m) == m \in E /\ m > e /\ \A y \in E : y > e => y >= m
LEMMA NearestBelow ==
  ASSUME NEW E, E \subseteq Nat, NEW e \in Nat, NEW n \in Nat, \A y \in E : Cut(y, n) = Cut(e, n),
         NEW j \in Nat, \A i \in 0 .. (j - 1) : LowBits(E, e, i) = {},
         NEW b, IsGreatest(b, LowBits(E, e, j)),
         NEW m, IsGreatest(m, At(E, WordUnder(WordOf(e, j), b), j))
  PROVE  Nearer(E, e, m)
<1>1. b \in BitsIn(E, WordOf(e, j), j) /\ b < BitOf(e, j) /\ \A c \in LowBits(E, e, j) : c <= b
  BY DEF IsGreatest, LowBits
<1>2. m \in At(E, WordUnder(WordOf(e, j), b), j) /\ \A y \in At(E, WordUnder(WordOf(e, j), b), j) : y <= m
  BY DEF IsGreatest
<1>3. m \in E /\ m \in Nat /\ Cut(m, j + 1) = Cut(e, j + 1) /\ BitOf(m, j) = b /\ m < e
  <2>1. Placed(E, e, j, b, m)
    BY <1>1, <1>2, ChildPlace
  <2> QED
    BY <1>1, <2>1 DEF Placed
<1>4. ASSUME NEW y \in E, y < e PROVE y <= m
  <2>1. y \in Nat /\ Cut(y, n) = Cut(e, n)
    OBVIOUS
  <2>2. PICK i \in 0 .. (n - 1) : Parts2(y, e, i)
    BY <1>4, <2>1, PartSomewhere
  <2>3. i \in Nat
    OBVIOUS
  <2>4. BitOf(y, i) \in LowBits(E, e, i) /\ y \in At(E, WordUnder(WordOf(e, i), BitOf(y, i)), i)
    BY <2>2, <2>3, PartsBelow
  <2>5. i >= j
    BY <2>3, <2>4
  <2>6. Cut(y, i + 1) = Cut(e, i + 1) /\ BitOf(y, i) < BitOf(e, i)
    BY <2>2 DEF Parts2
  <2>7. CASE i = j
    <3>1. BitOf(y, j) <= b
      BY <1>1, <2>4, <2>7
    <3>2. CASE BitOf(y, j) = b
      BY <1>2, <2>4, <2>7, <3>2
    <3>3. CASE BitOf(y, j) # b
      <4>1. WordOf(y, j) = WordOf(m, j)
        BY <1>3, <2>6, <2>7 DEF WordOf, Cut
      <4>2. BitOf(y, j) < BitOf(m, j)
        <5>1. CutRight(y, j) /\ CutRight(m, j)
          BY <1>3, <2>1, CutIsRight
        <5> QED
          BY <1>3, <3>1, <3>3, <5>1 DEF CutRight
      <4>3. y < m
        BY <1>3, <2>1, <4>1, <4>2, BitsTell
      <4> QED
        BY <1>3, <2>1, <4>3
    <3> QED
      BY <3>2, <3>3
  <2>8. CASE i # j
    <3>1. j + 1 \in Nat /\ i >= j + 1
      BY <2>3, <2>5, <2>8
    <3> DEFINE q == j + 1
    <3>2. q \in Nat /\ i >= q /\ Cut(m, q) = Cut(e, q)
      BY <1>3, <3>1
    <3> HIDE DEF q
    <3>3. Cut(m, i) = Cut(e, i)
      BY <1>3, <2>3, <3>2, CutSame
    <3>4. BitOf(m, i) = BitOf(e, i)
      BY <3>3 DEF BitOf, Cut
    <3>5. Cut(m, i + 1) = Cut(e, i + 1)
      BY <1>3, <2>3, <3>3, CutSame
    <3>6. WordOf(y, i) = WordOf(m, i)
      BY <2>6, <3>5 DEF WordOf, Cut
    <3>7. y < m
      BY <1>3, <2>1, <2>3, <2>6, <3>4, <3>6, BitsTell
    <3> QED
      BY <1>3, <2>1, <3>7
  <2> QED
    BY <2>7, <2>8
<1> QED
  BY <1>3, <1>4 DEF Nearer

LEMMA NearestAbove ==
  ASSUME NEW E, E \subseteq Nat, NEW e \in Nat, NEW n \in Nat, \A y \in E : Cut(y, n) = Cut(e, n),
         NEW j \in Nat, \A i \in 0 .. (j - 1) : HighBits(E, e, i) = {},
         NEW b, IsLeast(b, HighBits(E, e, j)),
         NEW m, IsLeast(m, At(E, WordUnder(WordOf(e, j), b), j))
  PROVE  Further(E, e, m)
<1>1. b \in BitsIn(E, WordOf(e, j), j) /\ b > BitOf(e, j) /\ \A c \in HighBits(E, e, j) : c >= b
  BY DEF IsLeast, HighBits
<1>2. m \in At(E, WordUnder(WordOf(e, j), b), j) /\ \A y \in At(E, WordUnder(WordOf(e, j), b), j) : y >= m
  BY DEF IsLeast
<1>3. m \in E /\ m \in Nat /\ Cut(m, j + 1) = Cut(e, j + 1) /\ BitOf(m, j) = b /\ m > e
  <2>1. Placed(E, e, j, b, m)
    BY <1>1, <1>2, ChildPlace
  <2> QED
    BY <1>1, <2>1 DEF Placed
<1>4. ASSUME NEW y \in E, y > e PROVE y >= m
  <2>1. y \in Nat /\ Cut(y, n) = Cut(e, n)
    OBVIOUS
  <2>2. PICK i \in 0 .. (n - 1) : Parts2(e, y, i)
    BY <1>4, <2>1, PartSomewhere
  <2>3. i \in Nat
    OBVIOUS
  <2>4. BitOf(y, i) \in HighBits(E, e, i) /\ y \in At(E, WordUnder(WordOf(e, i), BitOf(y, i)), i)
    BY <2>2, <2>3, PartsAbove
  <2>5. i >= j
    BY <2>3, <2>4
  <2>6. Cut(y, i + 1) = Cut(e, i + 1) /\ BitOf(e, i) < BitOf(y, i)
    BY <2>2 DEF Parts2
  <2>7. CASE i = j
    <3>1. BitOf(y, j) >= b
      BY <1>1, <2>4, <2>7
    <3>2. CASE BitOf(y, j) = b
      BY <1>2, <2>4, <2>7, <3>2
    <3>3. CASE BitOf(y, j) # b
      <4>1. WordOf(y, j) = WordOf(m, j)
        BY <1>3, <2>6, <2>7 DEF WordOf, Cut
      <4>2. BitOf(m, j) < BitOf(y, j)
        <5>1. CutRight(y, j) /\ CutRight(m, j)
          BY <1>3, <2>1, CutIsRight
        <5> QED
          BY <1>3, <3>1, <3>3, <5>1 DEF CutRight
      <4>3. m < y
        BY <1>3, <2>1, <4>1, <4>2, BitsTell
      <4> QED
        BY <1>3, <2>1, <4>3
    <3> QED
      BY <3>2, <3>3
  <2>8. CASE i # j
    <3>1. j + 1 \in Nat /\ i >= j + 1
      BY <2>3, <2>5, <2>8
    <3> DEFINE q == j + 1
    <3>2. q \in Nat /\ i >= q /\ Cut(m, q) = Cut(e, q)
      BY <1>3, <3>1
    <3> HIDE DEF q
    <3>3. Cut(m, i) = Cut(e, i)
      BY <1>3, <2>3, <3>2, CutSame
    <3>4. BitOf(m, i) = BitOf(e, i)
      BY <3>3 DEF BitOf, Cut
    <3>5. Cut(m, i + 1) = Cut(e, i + 1)
      BY <1>3, <2>3, <3>3, CutSame
    <3>6. WordOf(y, i) = WordOf(m, i)
      BY <2>6, <3>5 DEF WordOf, Cut
    <3>7. m < y
      BY <1>3, <2>1, <2>3, <2>6, <3>4, <3>6, BitsTell
    <3> QED
      BY <1>3, <2>1, <3>7
  <2> QED
    BY <2>7, <2>8
<1> QED
  BY <1>3, <1>4 DEF Further

(* The words of a number's levels. *)
LEMMA WordIs ==
  ASSUME NEW R \in Nat, R > 1, NEW E, NEW map, StandsFor(map, R, E), NEW e \in 0 .. (R - 1),
         NEW j \in 0 .. (Levels32(R) - 1)
  PROVE  Word(map, e, j) = BitsIn(E, WordOf(e, j), j)
<1>1. j \in Nat /\ WordOf(e, j) \in 0 .. WordOf(R, j)
  BY InRange
<1>2. WordRight(map, E, j, WordOf(e, j))
  BY <1>1 DEF StandsFor
<1> QED
  BY <1>2 DEF WordRight, BitsAt, Word, BitsIn

LEMMA UnderIs ==
  ASSUME NEW R \in Nat, R > 1, NEW E, NEW map, StandsFor(map, R, E),
         NEW j \in 0 .. (Levels32(R) - 1), NEW k \in Nat, At(E, k, j + 1) # {}
  PROVE  BottomUnder(map, E, j, k) /\ TopUnder(map, E, j, k)
<1>1. E \subseteq 0 .. (R - 1) /\ E \subseteq Nat /\ j \in Nat
  BY DEF StandsFor
<1>2. PICK y \in E : Cut(y, j + 1) = k
  BY DEF At
<1>3. y \in 0 .. (R - 1)
  BY <1>1
<1>4. WordOf(y, j) \in 0 .. WordOf(R, j) /\ WordOf(y, j) = k
  BY <1>1, <1>2, <1>3, InRange DEF WordOf, Cut
<1>5. WordRight(map, E, j, k)
  BY <1>4 DEF StandsFor
<1> QED
  BY <1>1, <1>5, FindIs

LEMMA BitSearchIs ==
  ASSUME NEW R \in Nat, R > 1, NEW E, NEW map, StandsFor(map, R, E), NEW e \in 0 .. (R - 1)
  PROVE  PrevIn(E, e, BitSearch(map, e).prev) /\ NextIn(E, e, BitSearch(map, e).next)
<1> DEFINE n == Levels32(R)
           levels == 0 .. (n - 1)
           Below(j) == {i \in Word(map, e, j) : i < BitOf(e, j)}
           Higher(j) == {i \in Word(map, e, j) : i > BitOf(e, j)}
           D == {j \in levels : Below(j) # {}}
           F == {j \in levels : Higher(j) # {}}
           W(j, i) == WordOf(e, j) * WordBits + i
           p == Min(D)
           q == Min(F)
           x == Max(Below(p))
           y == Min(Higher(q))
           out == BitSearch(map, e)
<1>0. E \subseteq 0 .. (R - 1) /\ E \subseteq Nat /\ e \in Nat /\ n \in Nat \ {0} /\ DOMAIN map.bm = levels
  <2>1. Shaped(map, R)
    BY DEF StandsFor
  <2>2. DOMAIN map.bm = levels
    BY <2>1, ShapeIs
  <2>3. n \in Nat \ {0}
    BY LevelsAreEnough
  <2> QED
    BY <2>2, <2>3 DEF StandsFor
<1>1. /\ out.prev = IF \A j \in levels : Below(j) = {} THEN -1
                    ELSE IF p = 0 THEN W(0, x) ELSE FindMax(map, W(p, x), p - 1)
      /\ out.next = IF \A j \in levels : Higher(j) = {} THEN -1
                    ELSE IF q = 0 THEN W(0, y) ELSE FindMin(map, W(q, y), q - 1)
  BY <1>0 DEF BitSearch
<1>2. ASSUME NEW j \in levels PROVE Below(j) = LowBits(E, e, j) /\ Higher(j) = HighBits(E, e, j)
  <2>1. Word(map, e, j) = BitsIn(E, WordOf(e, j), j)
    BY WordIs
  <2> QED
    BY <2>1 DEF LowBits, HighBits
<1>3. \A z \in E : Cut(z, n) = Cut(e, n)
  <2>1. Cut(e, n) = 0
    BY InRange
  <2>2. \A z \in E : Cut(z, n) = 0
    BY <1>0, InRange
  <2> QED
    BY <2>1, <2>2
<1>4. \A j, i : W(j, i) = WordUnder(WordOf(e, j), i)
  BY DEF WordUnder
<1> HIDE DEF Below, Higher, W, out, x, y
<1>5. \A j \in levels : j \in Nat /\ WordOf(e, j) \in Nat /\ j + 1 \in Nat
  <2> TAKE j \in levels
  <2>1. j \in Nat
    BY <1>0
  <2>2. CutRight(e, j)
    BY <1>0, <2>1, CutIsRight
  <2> QED
    BY <2>1, <2>2 DEF CutRight
<1>6. ASSUME \A j \in levels : LowBits(E, e, j) = {} PROVE \A z \in E : ~ (z < e)
  <2>1. ASSUME NEW z \in E, z < e PROVE FALSE
    <3>1. z \in Nat /\ Cut(z, n) = Cut(e, n) /\ n \in Nat
      BY <1>0, <1>3
    <3>a. \A j \in 0 .. (n - 1) : LowBits(E, e, j) = {}
      BY <1>6
    <3> HIDE DEF n
    <3>2. PICK j \in 0 .. (n - 1) : Parts2(z, e, j)
      BY <1>0, <3>1, <2>1, PartSomewhere
    <3>3. j \in Nat
      BY <3>1
    <3>4. BitOf(z, j) \in LowBits(E, e, j)
      BY <1>0, <3>2, <3>3, PartsBelow
    <3> QED
      BY <3>4, <3>a
  <2> QED
    BY <2>1
<1>7. ASSUME \A j \in levels : HighBits(E, e, j) = {} PROVE \A z \in E : ~ (z > e)
  <2>1. ASSUME NEW z \in E, z > e PROVE FALSE
    <3>1. z \in Nat /\ Cut(z, n) = Cut(e, n) /\ n \in Nat /\ e < z
      BY <1>0, <1>3, <2>1
    <3>a. \A j \in 0 .. (n - 1) : HighBits(E, e, j) = {}
      BY <1>7
    <3> HIDE DEF n
    <3>2. PICK j \in 0 .. (n - 1) : Parts2(e, z, j)
      BY <1>0, <3>1, PartSomewhere
    <3>3. j \in Nat
      BY <3>1
    <3>4. BitOf(z, j) \in HighBits(E, e, j)
      BY <1>0, <3>2, <3>3, PartsAbove
    <3> QED
      BY <3>4, <3>a
  <2> QED
    BY <2>1
<1>8. PrevIn(E, e, out.prev)
  <2>1. CASE \A j \in levels : Below(j) = {}
    BY <1>1, <1>2, <1>6, <2>1 DEF PrevIn
  <2>2. CASE \E j \in levels : Below(j) # {}
    <3> DEFINE k == WordOf(e, p)
    <3>1. D \subseteq Nat /\ D # {}
      BY <1>5, <2>2
    <3>2. p \in levels /\ Below(p) # {} /\ \A j \in D : p <= j
      <4>1. IsLeast(p, D)
        <5> HIDE DEF D
        <5> QED
          BY <3>1, MinIsLeast
      <4> QED
        BY <4>1 DEF IsLeast
    <3>3. out.prev = IF p = 0 THEN W(0, x) ELSE FindMax(map, W(p, x), p - 1)
      BY <1>1, <2>2
    <3>4. p \in Nat /\ k \in Nat /\ Below(p) = LowBits(E, e, p)
      BY <1>2, <1>5, <3>2
    <3>5. \A i \in 0 .. (p - 1) : LowBits(E, e, i) = {}
      <4> TAKE i \in 0 .. (p - 1)
      <4>1. i \in levels /\ ~ (p <= i)
        BY <1>0, <3>2, <3>4
      <4>2. Below(i) = {}
        BY <3>2, <4>1
      <4> QED
        BY <1>2, <4>1, <4>2
    <3> HIDE DEF D, p, k
    <3>6. LowBits(E, e, p) \subseteq 0 .. (WordBits - 1) /\ LowBits(E, e, p) \subseteq BitsIn(E, k, p)
      <4>1. BitsIn(E, k, p) \subseteq 0 .. (WordBits - 1)
        BY <1>0, <3>4, BitsAre
      <4> QED
        BY <4>1 DEF LowBits, k
    <3>7. IsGreatest(x, LowBits(E, e, p))
      <4> DEFINE S == LowBits(E, e, p)
                 c == WordBits - 1
      <4>1. c \in Nat /\ S \subseteq Nat /\ S # {} /\ \A i \in S : i <= c
        BY <3>2, <3>4, <3>6, WordBitsAssumption
      <4> HIDE DEF S, c
      <4>2. IsGreatest(Max(S), S)
        BY <4>1, MaxIsGreatest
      <4> QED
        BY <3>4, <4>2 DEF S, x
    <3>8. x \in BitsIn(E, k, p)
      BY <3>6, <3>7 DEF IsGreatest
    <3> DEFINE c == WordUnder(k, x)
    <3>9. At(E, c, p) # {}
      BY <1>0, <3>4, <3>8, BitsAre
    <3>10. c \in Nat
      <4>1. x \in Nat /\ WordBits \in Nat
        BY <3>6, <3>7, WordBitsAssumption DEF IsGreatest
      <4>2. k * WordBits \in Nat
        BY <3>4, <4>1
      <4> QED
        BY <4>1, <4>2 DEF WordUnder
    <3> HIDE DEF c
    <3>11. IsGreatest(out.prev, At(E, c, p))
      <4>1. CASE p = 0
        <5>1. out.prev = c
          BY <1>4, <3>3, <4>1 DEF c, k
        <5>2. At(E, c, p) \subseteq {c}
          BY <1>0, <4>1, CutWhole DEF At
        <5> QED
          BY <3>9, <3>10, <5>1, <5>2 DEF IsGreatest
      <4>2. CASE p # 0
        <5> DEFINE j == p - 1
        <5>1. j \in 0 .. (Levels32(R) - 1) /\ j + 1 = p
          BY <1>0, <3>2, <3>4, <4>2
        <5> HIDE DEF j
        <5>2. At(E, c, j + 1) # {}
          BY <3>9, <5>1
        <5>3. TopUnder(map, E, j, c)
          BY <3>10, <5>1, <5>2, UnderIs
        <5>4. out.prev = FindMax(map, c, j)
          BY <1>4, <3>3, <4>2 DEF c, j, k
        <5> QED
          BY <5>1, <5>3, <5>4 DEF TopUnder
      <4> QED
        BY <4>1, <4>2
    <3> DEFINE m == out.prev
    <3>12. IsGreatest(m, At(E, WordUnder(WordOf(e, p), x), p))
      BY <3>11 DEF c, k
    <3> HIDE DEF m, n
    <3>13. m \in E /\ m < e /\ \A z \in E : z < e => z <= m
      <4>1. n \in Nat
        BY <1>0
      <4>2. Nearer(E, e, m)
        BY <1>0, <1>3, <3>4, <3>5, <3>7, <3>12, <4>1, NearestBelow
      <4> QED
        BY <4>2 DEF Nearer
    <3>14. m # -1
      BY <1>0, <3>13
    <3> QED
      BY <3>13, <3>14 DEF PrevIn, m
  <2> QED
    BY <2>1, <2>2
<1>9. NextIn(E, e, out.next)
  <2>1. CASE \A j \in levels : Higher(j) = {}
    BY <1>1, <1>2, <1>7, <2>1 DEF NextIn
  <2>2. CASE \E j \in levels : Higher(j) # {}
    <3> DEFINE k == WordOf(e, q)
    <3>1. F \subseteq Nat /\ F # {}
      BY <1>5, <2>2
    <3>2. q \in levels /\ Higher(q) # {} /\ \A j \in F : q <= j
      <4>1. IsLeast(q, F)
        <5> HIDE DEF F
        <5> QED
          BY <3>1, MinIsLeast
      <4> QED
        BY <4>1 DEF IsLeast
    <3>3. out.next = IF q = 0 THEN W(0, y) ELSE FindMin(map, W(q, y), q - 1)
      BY <1>1, <2>2
    <3>4. q \in Nat /\ k \in Nat /\ Higher(q) = HighBits(E, e, q)
      BY <1>2, <1>5, <3>2
    <3>5. \A i \in 0 .. (q - 1) : HighBits(E, e, i) = {}
      <4> TAKE i \in 0 .. (q - 1)
      <4>1. i \in levels /\ ~ (q <= i)
        BY <1>0, <3>2, <3>4
      <4>2. Higher(i) = {}
        BY <3>2, <4>1
      <4> QED
        BY <1>2, <4>1, <4>2
    <3> HIDE DEF F, q, k
    <3>6. HighBits(E, e, q) \subseteq 0 .. (WordBits - 1) /\ HighBits(E, e, q) \subseteq BitsIn(E, k, q)
      <4>1. BitsIn(E, k, q) \subseteq 0 .. (WordBits - 1)
        BY <1>0, <3>4, BitsAre
      <4> QED
        BY <4>1 DEF HighBits, k
    <3>7. IsLeast(y, HighBits(E, e, q))
      <4> DEFINE S == HighBits(E, e, q)
                 c == WordBits - 1
      <4>1. c \in Nat /\ S \subseteq Nat /\ S # {} /\ \A i \in S : i <= c
        BY <3>2, <3>4, <3>6, WordBitsAssumption
      <4> HIDE DEF S, c
      <4>2. IsLeast(Min(S), S)
        BY <4>1, MinIsLeast
      <4> QED
        BY <3>4, <4>2 DEF S, y
    <3>8. y \in BitsIn(E, k, q)
      BY <3>6, <3>7 DEF IsLeast
    <3> DEFINE c == WordUnder(k, y)
    <3>9. At(E, c, q) # {}
      BY <1>0, <3>4, <3>8, BitsAre
    <3>10. c \in Nat
      <4>1. y \in Nat /\ WordBits \in Nat
        BY <3>6, <3>7, WordBitsAssumption DEF IsLeast
      <4>2. k * WordBits \in Nat
        BY <3>4, <4>1
      <4> QED
        BY <4>1, <4>2 DEF WordUnder
    <3> HIDE DEF c
    <3>11. IsLeast(out.next, At(E, c, q))
      <4>1. CASE q = 0
        <5>1. out.next = c
          BY <1>4, <3>3, <4>1 DEF c, k
        <5>2. At(E, c, q) \subseteq {c}
          BY <1>0, <4>1, CutWhole DEF At
        <5> QED
          BY <3>9, <3>10, <5>1, <5>2 DEF IsLeast
      <4>2. CASE q # 0
        <5> DEFINE j == q - 1
        <5>1. j \in 0 .. (Levels32(R) - 1) /\ j + 1 = q
          BY <1>0, <3>2, <3>4, <4>2
        <5> HIDE DEF j
        <5>2. At(E, c, j + 1) # {}
          BY <3>9, <5>1
        <5>3. BottomUnder(map, E, j, c)
          BY <3>10, <5>1, <5>2, UnderIs
        <5>4. out.next = FindMin(map, c, j)
          BY <1>4, <3>3, <4>2 DEF c, j, k
        <5> QED
          BY <5>1, <5>3, <5>4 DEF BottomUnder
      <4> QED
        BY <4>1, <4>2
    <3> DEFINE m == out.next
    <3>12. IsLeast(m, At(E, WordUnder(WordOf(e, q), y), q))
      BY <3>11 DEF c, k
    <3> HIDE DEF m, n
    <3>13. m \in E /\ m > e /\ \A z \in E : z > e => z >= m
      <4>1. n \in Nat
        BY <1>0
      <4>2. Further(E, e, m)
        BY <1>0, <1>3, <3>4, <3>5, <3>7, <3>12, <4>1, NearestAbove
      <4> QED
        BY <4>2 DEF Further
    <3>14. m # -1
      BY <1>0, <3>13
    <3> QED
      BY <3>13, <3>14 DEF NextIn, m
  <2> QED
    BY <2>1, <2>2
<1>10. out = BitSearch(map, e)
  BY DEF out
<1> QED
  BY <1>8, <1>9, <1>10

-------------------------------------------------------------------------------
(* Remove.  Its parts by name, for a bitmap that stands for E and a number *)
(* of E.                                                                   *)
Kept(map, e) == {j \in DOMAIN map.bm : Word(map, e, j) # {BitOf(e, j)}}
LowOf(map, e) == IF Kept(map, e) = {} THEN Top(map) ELSE Min(Kept(map, e))
CutOf(map, e) ==
  [map EXCEPT !.bm = [j \in DOMAIN map.bm |->
     IF j <= LowOf(map, e) THEN [map.bm[j] EXCEPT ![WordOf(e, j)] = @ \ {BitOf(e, j)}] ELSE map.bm[j]]]
LowBitsLeft(map, e) == CutOf(map, e).bm[LowOf(map, e)][WordOf(e, LowOf(map, e))]
WasMin(map, e) == \A i \in LowBitsLeft(map, e) : i > BitOf(e, LowOf(map, e))
WasMax(map, e) == \A i \in LowBitsLeft(map, e) : i < BitOf(e, LowOf(map, e))
NewEnd(map, e) ==
  IF WasMin(map, e) THEN LeastUnder(CutOf(map, e), WordOf(e, LowOf(map, e)), LowOf(map, e))
                   ELSE GreatestUnder(CutOf(map, e), WordOf(e, LowOf(map, e)), LowOf(map, e))
IsEnd(map, e, j) == e \in {map.min[j][WordOf(e, j)], map.max[j][WordOf(e, j)]}
ReachOf(map, e) ==
  Max({j \in LowOf(map, e) .. Top(map) : \A i \in (LowOf(map, e) + 1) .. j : IsEnd(map, e, i)})
Quiet(map, e) == Kept(map, e) = {} \/ (~ WasMin(map, e) /\ ~ WasMax(map, e))
PutEnd(map, e, f, j, yes) ==
  IF j \in LowOf(map, e) .. ReachOf(map, e) /\ yes THEN [f EXCEPT ![WordOf(e, j)] = NewEnd(map, e)] ELSE f
MinMoves(map, e, j) == IF j = LowOf(map, e) THEN LowOf(map, e) > 0 /\ WasMin(map, e)
                      ELSE map.min[j][WordOf(e, j)] = e
MaxMoves(map, e, j) == IF j = LowOf(map, e) THEN LowOf(map, e) > 0 /\ ~ WasMin(map, e)
                      ELSE map.max[j][WordOf(e, j)] = e /\ map.min[j][WordOf(e, j)] # e

Removal(map, e) ==
  IF Quiet(map, e) THEN CutOf(map, e)
  ELSE [CutOf(map, e) EXCEPT
          !.min = [j \in DOMAIN map.min |-> PutEnd(map, e, map.min[j], j, MinMoves(map, e, j))],
          !.max = [j \in DOMAIN map.max |-> PutEnd(map, e, map.max[j], j, MaxMoves(map, e, j))]]

LEMMA RemoveIs ==
  ASSUME NEW map, NEW e, map = [bm |-> map.bm, min |-> map.min, max |-> map.max]
  PROVE  BitRemove(map, e) = Removal(map, e)
<1> DEFINE cut == CutOf(map, e)
<1>1. cut.min = map.min /\ cut.max = map.max
  BY DEF CutOf
<1>2. BitRemove(map, e) =
           IF Quiet(map, e) THEN cut
           ELSE [cut EXCEPT
                   !.min = [j \in DOMAIN cut.min |-> PutEnd(map, e, cut.min[j], j, IF j = LowOf(map, e) THEN LowOf(map, e) > 0 /\ WasMin(map, e)
                      ELSE cut.min[j][WordOf(e, j)] = e)],
                   !.max = [j \in DOMAIN cut.max |-> PutEnd(map, e, cut.max[j], j, IF j = LowOf(map, e) THEN LowOf(map, e) > 0 /\ ~ WasMin(map, e)
                      ELSE cut.max[j][WordOf(e, j)] = e /\ map.min[j][WordOf(e, j)] # e)]]
  BY Zenon DEF BitRemove, Quiet, CutOf, PutEnd, WasMin, WasMax, LowBitsLeft, NewEnd, ReachOf, IsEnd, LowOf, Kept
<1> HIDE DEF cut
<1>3. [j \in DOMAIN cut.min |-> PutEnd(map, e, cut.min[j], j, IF j = LowOf(map, e) THEN LowOf(map, e) > 0 /\ WasMin(map, e)
                      ELSE cut.min[j][WordOf(e, j)] = e)]
      = [j \in DOMAIN map.min |-> PutEnd(map, e, map.min[j], j, MinMoves(map, e, j))]
  BY <1>1, Zenon DEF MinMoves
<1>4. [j \in DOMAIN cut.max |-> PutEnd(map, e, cut.max[j], j, IF j = LowOf(map, e) THEN LowOf(map, e) > 0 /\ ~ WasMin(map, e)
                      ELSE cut.max[j][WordOf(e, j)] = e /\ map.min[j][WordOf(e, j)] # e)]
      = [j \in DOMAIN map.max |-> PutEnd(map, e, map.max[j], j, MaxMoves(map, e, j))]
  BY <1>1, Zenon DEF MaxMoves
<1> QED
  BY <1>2, <1>3, <1>4, Zenon DEF cut, Removal

RemovedAt(map, out, e, j, k) ==
  LET here == k = WordOf(e, j)
      moves == ~ Quiet(map, e) /\ here /\ j \in LowOf(map, e) .. ReachOf(map, e) IN
  /\ out.bm[j][k] = IF here /\ j <= LowOf(map, e) THEN map.bm[j][k] \ {BitOf(e, j)} ELSE map.bm[j][k]
  /\ out.min[j][k] = IF moves /\ MinMoves(map, e, j) THEN NewEnd(map, e) ELSE map.min[j][k]
  /\ out.max[j][k] = IF moves /\ MaxMoves(map, e, j) THEN NewEnd(map, e) ELSE map.max[j][k]
LEMMA RemovesAt ==
  ASSUME NEW R \in Nat, R > 1, NEW map, Shaped(map, R), NEW e \in 0 .. (R - 1)
  PROVE  /\ Shaped(BitRemove(map, e), R)
         /\ \A j \in 0 .. (Levels32(R) - 1) : \A k \in 0 .. WordOf(R, j) : RemovedAt(map, BitRemove(map, e), e, j, k)
<1> DEFINE levels == 0 .. (Levels32(R) - 1)
           words(j) == 0 .. WordOf(R, j)
           out == BitRemove(map, e)
           low == LowOf(map, e)
           moves(j) == j \in low .. ReachOf(map, e)
           val == NewEnd(map, e)
           quiet == Quiet(map, e)
           a(j) == MinMoves(map, e, j)
           b(j) == MaxMoves(map, e, j)
<1>1. /\ map = [bm |-> map.bm, min |-> map.min, max |-> map.max]
      /\ DOMAIN map.bm = levels /\ DOMAIN map.min = levels /\ DOMAIN map.max = levels
      /\ \A j \in levels : /\ DOMAIN map.bm[j] = words(j) /\ DOMAIN map.min[j] = words(j)
                           /\ DOMAIN map.max[j] = words(j)
                           /\ map.bm[j] = [k \in words(j) |-> map.bm[j][k]]
                           /\ map.min[j] = [k \in words(j) |-> map.min[j][k]]
                           /\ map.max[j] = [k \in words(j) |-> map.max[j][k]]
  <2>1. map = [bm |-> map.bm, min |-> map.min, max |-> map.max]
    BY DEF Shaped
  <2>2. \A j \in levels : /\ map.bm[j] = [k \in words(j) |-> map.bm[j][k]]
                          /\ map.min[j] = [k \in words(j) |-> map.min[j][k]]
                          /\ map.max[j] = [k \in words(j) |-> map.max[j][k]]
    BY DEF Shaped
  <2> HIDE DEF levels, words
  <2> QED
    BY <2>1, <2>2, ShapeIs DEF levels, words
<1>2. \A j \in levels : WordOf(e, j) \in words(j) /\ j \in Nat
  BY InRange
<1> HIDE DEF levels, words
<1>3. ASSUME NEW j \in levels, NEW f, NEW yes \in BOOLEAN, DOMAIN f = words(j)
      PROVE  /\ DOMAIN PutEnd(map, e, f, j, yes) = words(j)
             /\ \A k \in words(j) : PutEnd(map, e, f, j, yes)[k] = IF moves(j) /\ yes /\ k = WordOf(e, j) THEN val ELSE f[k]
  <2> HIDE DEF val, moves
  <2>1. PutEnd(map, e, f, j, yes) = IF moves(j) /\ yes THEN [f EXCEPT ![WordOf(e, j)] = val] ELSE f
    BY DEF PutEnd, moves, val
  <2> QED
    BY <1>2, <1>3, <2>1
<1> DEFINE cut == CutOf(map, e)
<1>4. /\ cut = [bm |-> cut.bm, min |-> cut.min, max |-> cut.max] /\ cut.min = map.min /\ cut.max = map.max
      /\ cut.bm = [j \in levels |-> IF j <= low THEN [map.bm[j] EXCEPT ![WordOf(e, j)] = @ \ {BitOf(e, j)}]
                                    ELSE map.bm[j]]
  <2> DEFINE f == [j \in DOMAIN map.bm |-> IF j <= low THEN [map.bm[j] EXCEPT ![WordOf(e, j)] = @ \ {BitOf(e, j)}]
                                    ELSE map.bm[j]]
  <2>1. cut = [map EXCEPT !.bm = f]
    BY DEF CutOf
  <2>2. f = [j \in levels |-> IF j <= low THEN [map.bm[j] EXCEPT ![WordOf(e, j)] = @ \ {BitOf(e, j)}]
                                    ELSE map.bm[j]]
    BY <1>1
  <2> HIDE DEF f, cut
  <2>3. cut = [bm |-> f, min |-> map.min, max |-> map.max]
    BY <1>1, <2>1
  <2> QED
    BY <2>2, <2>3
<1>5. out = IF quiet THEN cut ELSE
           [cut EXCEPT !.min = [j \in DOMAIN map.min |-> PutEnd(map, e, map.min[j], j, a(j))],
                       !.max = [j \in DOMAIN map.max |-> PutEnd(map, e, map.max[j], j, b(j))]]
  <2>1. out = Removal(map, e)
    BY <1>1, RemoveIs
  <2> QED
    BY <2>1, Zenon DEF Removal
<1>b. \A j : a(j) \in BOOLEAN /\ b(j) \in BOOLEAN /\ quiet \in BOOLEAN
  BY DEF MinMoves, MaxMoves, WasMin, Quiet
<1> HIDE DEF cut, low, quiet, a, b, out, moves, val
<1>6. /\ out = [bm |-> out.bm, min |-> out.min, max |-> out.max] /\ out.bm = cut.bm
      /\ out.min = IF quiet THEN map.min ELSE [j \in levels |-> PutEnd(map, e, map.min[j], j, a(j))]
      /\ out.max = IF quiet THEN map.max ELSE [j \in levels |-> PutEnd(map, e, map.max[j], j, b(j))]
  BY <1>1, <1>4, <1>5, <1>b
<1>7. ASSUME NEW j \in levels
      PROVE  /\ DOMAIN out.bm[j] = words(j) /\ DOMAIN out.min[j] = words(j) /\ DOMAIN out.max[j] = words(j)
             /\ \A k \in words(j) :
                  /\ out.bm[j][k] = IF k = WordOf(e, j) /\ j <= low THEN map.bm[j][k] \ {BitOf(e, j)} ELSE map.bm[j][k]
                  /\ out.min[j][k] = IF ~ quiet /\ k = WordOf(e, j) /\ moves(j) /\ a(j) THEN val ELSE map.min[j][k]
                  /\ out.max[j][k] = IF ~ quiet /\ k = WordOf(e, j) /\ moves(j) /\ b(j) THEN val ELSE map.max[j][k]
  <2>1. out.bm[j] = IF j <= low THEN [map.bm[j] EXCEPT ![WordOf(e, j)] = @ \ {BitOf(e, j)}] ELSE map.bm[j]
    BY <1>4, <1>6
  <2> DEFINE f == map.min[j]
             g == map.max[j]
  <2>2. /\ out.min[j] = IF quiet THEN f ELSE PutEnd(map, e, f, j, a(j))
        /\ out.max[j] = IF quiet THEN g ELSE PutEnd(map, e, g, j, b(j))
    BY <1>6
  <2>3. DOMAIN f = words(j) /\ DOMAIN g = words(j)
    BY <1>1
  <2> HIDE DEF f, g
  <2> DEFINE p == PutEnd(map, e, f, j, a(j))
             q == PutEnd(map, e, g, j, b(j))
  <2>4. /\ DOMAIN p = words(j)
        /\ \A k \in words(j) : p[k] = IF moves(j) /\ a(j) /\ k = WordOf(e, j) THEN val ELSE f[k]
    BY <1>3, <1>b, <2>3
  <2>5. /\ DOMAIN q = words(j)
        /\ \A k \in words(j) : q[k] = IF moves(j) /\ b(j) /\ k = WordOf(e, j) THEN val ELSE g[k]
    BY <1>3, <1>b, <2>3
  <2> HIDE DEF p, q
  <2>6. /\ DOMAIN out.min[j] = words(j)
        /\ \A k \in words(j) : out.min[j][k] = IF ~ quiet /\ k = WordOf(e, j) /\ moves(j) /\ a(j) THEN val ELSE f[k]
    BY <1>b, <2>2, <2>3, <2>4 DEF p
  <2>7. /\ DOMAIN out.max[j] = words(j)
        /\ \A k \in words(j) : out.max[j][k] = IF ~ quiet /\ k = WordOf(e, j) /\ moves(j) /\ b(j) THEN val ELSE g[k]
    BY <1>b, <2>2, <2>3, <2>5 DEF q
  <2>8. DOMAIN out.bm[j] = words(j)
    BY <1>1, <2>1
  <2>9. \A k \in words(j) : out.bm[j][k] = IF k = WordOf(e, j) /\ j <= low THEN map.bm[j][k] \ {BitOf(e, j)} ELSE map.bm[j][k]
    BY <1>1, <1>2, <2>1
  <2> QED
    BY <2>6, <2>7, <2>8, <2>9 DEF f, g
<1>8. ASSUME NEW j \in levels, NEW k \in words(j)
      PROVE  RemovedAt(map, out, e, j, k)
  <2>1. /\ out.bm[j][k] = IF k = WordOf(e, j) /\ j <= low THEN map.bm[j][k] \ {BitOf(e, j)} ELSE map.bm[j][k]
        /\ out.min[j][k] = IF ~ quiet /\ k = WordOf(e, j) /\ moves(j) /\ a(j) THEN val ELSE map.min[j][k]
        /\ out.max[j][k] = IF ~ quiet /\ k = WordOf(e, j) /\ moves(j) /\ b(j) THEN val ELSE map.max[j][k]
    BY <1>7
  <2> QED
    BY <2>1, Zenon DEF RemovedAt, low, quiet, moves, a, b, val
<1>9. Shaped(out, R)
  <2>1. /\ out.bm = [j \in levels |-> out.bm[j]] /\ out.min = [j \in levels |-> out.min[j]]
        /\ out.max = [j \in levels |-> out.max[j]]
    <3>1. out.bm = [j \in levels |-> out.bm[j]]
      BY <1>4, <1>6
    <3>2. DOMAIN out.min = levels /\ DOMAIN out.max = levels
      BY <1>1, <1>6, <1>b
    <3>3. map.min = [j \in levels |-> map.min[j]] /\ map.max = [j \in levels |-> map.max[j]]
      BY DEF Shaped, levels
    <3>4. out.min = [j \in levels |-> out.min[j]]
      BY <1>6, <3>3
    <3>5. out.max = [j \in levels |-> out.max[j]]
      BY <1>6, <3>3
    <3> QED
      BY <3>1, <3>4, <3>5
  <2>2. ASSUME NEW j \in levels
        PROVE  /\ out.bm[j] = [k \in words(j) |-> out.bm[j][k]]
               /\ out.min[j] = [k \in words(j) |-> out.min[j][k]]
               /\ out.max[j] = [k \in words(j) |-> out.max[j][k]]
    <3>0. out.bm[j] = IF j <= low THEN [map.bm[j] EXCEPT ![WordOf(e, j)] = @ \ {BitOf(e, j)}] ELSE map.bm[j]
      BY <1>4, <1>6
    <3>1. out.bm[j] = [k \in words(j) |-> out.bm[j][k]]
      BY <1>1, <3>0
    <3>2. /\ out.min[j] = IF quiet THEN map.min[j] ELSE PutEnd(map, e, map.min[j], j, a(j))
          /\ out.max[j] = IF quiet THEN map.max[j] ELSE PutEnd(map, e, map.max[j], j, b(j))
      BY <1>6
    <3>3. out.min[j] = [k \in words(j) |-> out.min[j][k]]
      BY <1>1, <3>2 DEF PutEnd
    <3>4. out.max[j] = [k \in words(j) |-> out.max[j][k]]
      BY <1>1, <3>2 DEF PutEnd
    <3> QED
      BY <3>1, <3>3, <3>4
  <2> QED
    BY <1>6, <2>1, <2>2 DEF Shaped, levels, words
<1> QED
  BY <1>8, <1>9 DEF levels, words, out

CutWord(map, e, j, k) ==
  CutOf(map, e).bm[j][k] = IF k = WordOf(e, j) /\ j <= LowOf(map, e) THEN map.bm[j][k] \ {BitOf(e, j)} ELSE map.bm[j][k]
LEMMA CutsAt ==
  ASSUME NEW R \in Nat, R > 1, NEW map, Shaped(map, R), NEW e \in 0 .. (R - 1)
  PROVE  /\ CutOf(map, e).min = map.min /\ CutOf(map, e).max = map.max
         /\ \A j \in 0 .. (Levels32(R) - 1) : \A k \in 0 .. WordOf(R, j) : CutWord(map, e, j, k)
<1> DEFINE levels == 0 .. (Levels32(R) - 1)
           low == LowOf(map, e)
           cut == CutOf(map, e)
           f == [j \in DOMAIN map.bm |-> IF j <= low THEN [map.bm[j] EXCEPT ![WordOf(e, j)] = @ \ {BitOf(e, j)}]
                                    ELSE map.bm[j]]
<1>1. cut = [map EXCEPT !.bm = f]
  BY DEF CutOf
<1>2. map = [bm |-> map.bm, min |-> map.min, max |-> map.max]
  BY DEF Shaped
<1>3. DOMAIN map.bm = levels /\ \A j \in levels : DOMAIN map.bm[j] = 0 .. WordOf(R, j)
  BY ShapeIs
<1>4. f = [j \in levels |-> IF j <= low THEN [map.bm[j] EXCEPT ![WordOf(e, j)] = @ \ {BitOf(e, j)}]
                                    ELSE map.bm[j]]
  BY <1>3
<1> HIDE DEF f, cut, low, levels
<1>5. cut.bm = f /\ cut.min = map.min /\ cut.max = map.max
  BY <1>1, <1>2
<1>6. ASSUME NEW j \in levels, NEW k \in 0 .. WordOf(R, j) PROVE CutWord(map, e, j, k)
  <2>1. f[j] = IF j <= low THEN [map.bm[j] EXCEPT ![WordOf(e, j)] = @ \ {BitOf(e, j)}] ELSE map.bm[j]
    BY <1>4
  <2>2. f[j][k] = IF k = WordOf(e, j) /\ j <= low THEN map.bm[j][k] \ {BitOf(e, j)} ELSE map.bm[j][k]
    BY <1>3, <2>1
  <2> QED
    BY <1>5, <2>2 DEF CutWord, cut, low
<1> QED
  BY <1>5, <1>6 DEF cut, levels

LEMMA Alone ==
  ASSUME NEW E, E \subseteq Nat, NEW e \in E, NEW j \in Nat,
         \A i \in 0 .. (j - 1) : BitsIn(E, WordOf(e, i), i) = {BitOf(e, i)}
  PROVE  At(E, Cut(e, j), j) = {e}
<1> DEFINE Good == {i \in Nat : i <= j => \A y \in E : Cut(y, i) = Cut(e, i) => y = e}
<1>1. 0 \in Good
  BY CutWhole
<1>2. ASSUME NEW i \in Nat, i \in Good PROVE (i + 1) \in Good
  <2> SUFFICES ASSUME i + 1 <= j, NEW y \in E, Cut(y, i + 1) = Cut(e, i + 1) PROVE y = e
    OBVIOUS
  <2>1. i \in 0 .. (j - 1) /\ i <= j /\ y \in Nat /\ e \in Nat
    OBVIOUS
  <2>2. y \in At(E, WordOf(e, i), i + 1)
    BY DEF At, WordOf, Cut
  <2>3. BitOf(y, i) \in BitsIn(E, WordOf(e, i), i)
    BY <2>2 DEF BitsIn
  <2>4. BitOf(y, i) = BitOf(e, i) /\ WordOf(y, i) = WordOf(e, i)
    BY <2>1, <2>3 DEF WordOf, Cut
  <2>5. Cut(y, i) = Cut(e, i)
    BY <2>1, <2>4, BitsTell
  <2> QED
    BY <1>2, <2>1, <2>5
<1> HIDE DEF Good
<1>3. Nat \subseteq Good
  BY <1>1, <1>2, InductionOn
<1>4. \A y \in E : Cut(y, j) = Cut(e, j) => y = e
  BY <1>3 DEF Good
<1> QED
  BY <1>4 DEF At

Single(E, e, i) == BitsIn(E, WordOf(e, i), i) = {BitOf(e, i)}
LowRight(map, R, E, e) ==
  /\ LowOf(map, e) \in 0 .. (Levels32(R) - 1) /\ \A i \in 0 .. (LowOf(map, e) - 1) : Single(E, e, i)
  /\ Kept(map, e) = {} => LowOf(map, e) = Levels32(R) - 1 /\ Single(E, e, LowOf(map, e))
  /\ Kept(map, e) # {} => ~ Single(E, e, LowOf(map, e))
LEMMA LowIs ==
  ASSUME NEW R \in Nat, R > 1, NEW E, NEW map, StandsFor(map, R, E), NEW e \in E
  PROVE  LowRight(map, R, E, e)
<1> DEFINE levels == 0 .. (Levels32(R) - 1)
           K == Kept(map, e)
           low == LowOf(map, e)
<1>1. DOMAIN map.bm = levels /\ Top(map) = Levels32(R) - 1
  BY ShapeIs DEF StandsFor
<1>2. e \in 0 .. (R - 1) /\ Levels32(R) \in Nat \ {0}
  BY LevelsAreEnough DEF StandsFor
<1>3. ASSUME NEW j \in levels PROVE j \notin K <=> Single(E, e, j)
  <2>1. Word(map, e, j) = BitsIn(E, WordOf(e, j), j)
    BY <1>2, WordIs
  <2> QED
    BY <1>1, <2>1 DEF Kept, Single
<1>4. K \subseteq levels
  BY <1>1 DEF Kept
<1>5. low = IF K = {} THEN Levels32(R) - 1 ELSE Min(K)
  BY <1>1 DEF LowOf
<1>6. CASE K = {}
  <2>1. low = Levels32(R) - 1 /\ low \in levels /\ \A i \in levels : Single(E, e, i)
    BY <1>2, <1>3, <1>5, <1>6
  <2>2. \A i \in 0 .. (low - 1) : i \in levels
    BY <1>2, <2>1
  <2> HIDE DEF low, K
  <2>3. low = Levels32(R) - 1 /\ low \in 0 .. (Levels32(R) - 1) /\ Single(E, e, low) /\ \A i \in 0 .. (low - 1) : Single(E, e, i)
    BY <2>1, <2>2
  <2> QED
    BY <1>6, <2>3 DEF LowRight, low, K
<1>7. CASE K # {}
  <2>1. IsLeast(Min(K), K)
    <3>1. K \subseteq Nat
      BY <1>2, <1>4
    <3> HIDE DEF K
    <3> QED
      BY <1>7, <3>1, MinIsLeast
  <2>2. low \in K /\ \A i \in K : low <= i
    BY <1>5, <1>7, <2>1 DEF IsLeast
  <2>3. low \in levels /\ ~ Single(E, e, low)
    BY <1>3, <1>4, <2>2
  <2>4. ASSUME NEW i \in 0 .. (low - 1) PROVE Single(E, e, i)
    <3> HIDE DEF low, K
    <3>1. i \in levels /\ ~ (low <= i)
      BY <1>2, <2>3
    <3> QED
      BY <1>3, <2>2, <3>1
  <2> QED
    BY <1>7, <2>3, <2>4 DEF LowRight
<1> QED
  BY <1>6, <1>7

(* The rest of a number's word at a level. *)
Rest(E, e, j) == At(E \ {e}, Cut(e, j + 1), j + 1)
LeftRight(map, E, e) ==
  LET low == LowOf(map, e) IN
  /\ LowBitsLeft(map, e) = BitsIn(E \ {e}, WordOf(e, low), low) /\ BitOf(e, low) \notin LowBitsLeft(map, e)
  /\ Rest(E, e, low) # {}
  /\ WasMin(map, e) <=> \A x \in Rest(E, e, low) : x > e
  /\ WasMax(map, e) <=> \A x \in Rest(E, e, low) : x < e
LEMMA LeftIs ==
  ASSUME NEW R \in Nat, R > 1, NEW E, NEW map, StandsFor(map, R, E), NEW e \in E, Kept(map, e) # {}
  PROVE  LeftRight(map, E, e)
<1> DEFINE low == LowOf(map, e)
           k == WordOf(e, low)
           F == E \ {e}
           X == Rest(E, e, low)
           b == BitOf(e, low)
           B == LowBitsLeft(map, e)
<1>1. E \subseteq 0 .. (R - 1) /\ E \subseteq Nat /\ e \in 0 .. (R - 1) /\ e \in Nat /\ Shaped(map, R)
  BY DEF StandsFor
<1>2. low \in 0 .. (Levels32(R) - 1) /\ low \in Nat /\ (\A i \in 0 .. (low - 1) : Single(E, e, i)) /\ ~ Single(E, e, low)
  BY LowIs DEF LowRight
<1>3. k \in 0 .. WordOf(R, low) /\ k = Cut(e, low + 1)
  BY <1>1, <1>2, InRange DEF WordOf, Cut
<1>4. At(E, Cut(e, low), low) = {e}
  BY <1>1, <1>2, Alone DEF Single
<1>5. map.bm[low][k] = BitsIn(E, k, low)
  <2>1. WordRight(map, E, low, k)
    BY <1>2, <1>3 DEF StandsFor
  <2> QED
    BY <2>1 DEF WordRight, BitsAt, BitsIn
<1>6. B = BitsIn(E, k, low) \ {b}
  <2>1. CutWord(map, e, low, k)
    BY <1>1, <1>2, <1>3, CutsAt
  <2> QED
    BY <1>2, <1>5, <2>1 DEF CutWord, LowBitsLeft
<1> HIDE DEF low
<1>7. X = At(E, k, low + 1) \ {e}
  BY <1>3 DEF Rest, At
<1>8. ASSUME NEW x \in X
      PROVE  /\ x \in E /\ x \in Nat /\ WordOf(x, low) = WordOf(e, low) /\ BitOf(x, low) # b
             /\ BitOf(x, low) \in Nat /\ b \in Nat
  <2>1. x \in E /\ x # e /\ x \in Nat /\ Cut(x, low + 1) = Cut(e, low + 1)
    BY <1>1, <1>3, <1>7 DEF At
  <2>2. WordOf(x, low) = WordOf(e, low)
    BY <2>1 DEF WordOf, Cut
  <2>3. Cut(x, low) # Cut(e, low)
    BY <1>4, <2>1 DEF At
  <2>4. BitOf(x, low) # b
    BY <1>1, <1>2, <2>1, <2>2, <2>3, BitsTell
  <2>5. BitOf(x, low) \in Nat /\ b \in Nat
    <3>1. CutRight(x, low) /\ CutRight(e, low)
      BY <1>1, <1>2, <2>1, CutIsRight
    <3> QED
      BY <3>1, WordBitsAssumption DEF CutRight
  <2> QED
    BY <2>1, <2>2, <2>4, <2>5
<1>9. B = {BitOf(x, low) : x \in X}
  <2>1. ASSUME NEW i \in B PROVE \E x \in X : BitOf(x, low) = i
    <3>1. PICK x \in At(E, k, low + 1) : i = BitOf(x, low)
      BY <1>6 DEF BitsIn
    <3>2. x # e
      BY <1>6, <3>1
    <3> QED
      BY <1>7, <3>1, <3>2
  <2>2. ASSUME NEW x \in X PROVE BitOf(x, low) \in B
    BY <1>6, <1>7, <1>8 DEF BitsIn
  <2> QED
    BY <2>1, <2>2
<1>10. X # {}
  <2>1. e \in At(E, k, low + 1)
    BY <1>3 DEF At
  <2>2. b \in BitsIn(E, k, low)
    BY <2>1 DEF BitsIn
  <2>3. B # {}
    BY <1>2, <1>6, <2>2 DEF Single
  <2> QED
    BY <1>9, <2>3
<1>11. ASSUME NEW x \in X PROVE (BitOf(x, low) > b <=> x > e) /\ (BitOf(x, low) < b <=> x < e)
  <2> DEFINE c == BitOf(x, low)
  <2>1. x \in Nat /\ c \in Nat /\ b \in Nat /\ c # b /\ x # e
    BY <1>1, <1>7, <1>8
  <2>2. (c < b => x < e) /\ (b < c => e < x)
    BY <1>1, <1>2, <1>8, BitsTell
  <2> HIDE DEF c, b
  <2>3. (c > b <=> x > e) /\ (c < b <=> x < e)
    BY <1>1, <2>1, <2>2
  <2> QED
    BY <2>3 DEF c, b
<1>12. WasMin(map, e) <=> \A x \in X : x > e
  <2>1. WasMin(map, e) <=> \A i \in B : i > b
    BY DEF WasMin, low
  <2> HIDE DEF B, X, b
  <2> QED
    BY <1>9, <1>11, <2>1
<1>13. WasMax(map, e) <=> \A x \in X : x < e
  <2>1. WasMax(map, e) <=> \A i \in B : i < b
    BY DEF WasMax, low
  <2> HIDE DEF B, X, b
  <2> QED
    BY <1>9, <1>11, <2>1
<1>14. B = BitsIn(F, k, low) /\ b \notin B
  <2>1. X = At(F, k, low + 1)
    BY <1>3 DEF Rest
  <2> QED
    BY <1>6, <1>9, <2>1 DEF BitsIn
<1> QED
  BY <1>10, <1>12, <1>13, <1>14 DEF LeftRight, low

(* The word of a bit that is left, below the lowest word left.             *)
LEMMA BelowLow ==
  ASSUME NEW R \in Nat, R > 1, NEW E, NEW map, StandsFor(map, R, E), NEW e \in E,
         NEW j \in Nat, j + 1 = LowOf(map, e), LowOf(map, e) < Levels32(R),
         NEW c \in Nat, c # Cut(e, j + 1), At(E \ {e}, c, j + 1) # {}
  PROVE  WordRight(CutOf(map, e), E \ {e}, j, c)
<1> DEFINE F == E \ {e}
<1>1. E \subseteq 0 .. (R - 1) /\ E \subseteq Nat /\ e \in 0 .. (R - 1) /\ Shaped(map, R)
  BY DEF StandsFor
<1>2. PICK y \in F : Cut(y, j + 1) = c
  BY DEF At
<1>3. y \in 0 .. (R - 1)
  BY <1>1
<1>4. c \in 0 .. WordOf(R, j) /\ j \in 0 .. (Levels32(R) - 1)
  <2>1. WordOf(y, j) \in 0 .. WordOf(R, j) /\ WordOf(y, j) = c
    BY <1>2, <1>3, InRange DEF WordOf, Cut
  <2>2. Levels32(R) \in Nat
    BY LevelsAreEnough
  <2> QED
    BY <2>1, <2>2
<1>5. At(F, c, j + 1) = At(E, c, j + 1)
  BY DEF At
<1>6. WordRight(map, E, j, c)
  BY <1>4 DEF StandsFor
<1>7. /\ CutOf(map, e).bm[j][c] = map.bm[j][c] /\ CutOf(map, e).min = map.min /\ CutOf(map, e).max = map.max
  <2>1. CutWord(map, e, j, c) /\ CutOf(map, e).min = map.min /\ CutOf(map, e).max = map.max
    BY <1>1, <1>4, CutsAt
  <2>2. c # WordOf(e, j)
    BY DEF WordOf, Cut
  <2> QED
    BY <2>1, <2>2 DEF CutWord
<1> QED
  BY <1>5, <1>6, <1>7 DEF WordRight, BitsAt, EndsAt

NewEndRight(map, E, e) ==
  /\ WasMin(map, e) => IsLeast(NewEnd(map, e), Rest(E, e, LowOf(map, e)))
  /\ ~ WasMin(map, e) => IsGreatest(NewEnd(map, e), Rest(E, e, LowOf(map, e)))
LEMMA NewEndIs ==
  ASSUME NEW R \in Nat, R > 1, NEW E, NEW map, StandsFor(map, R, E), NEW e \in E, Kept(map, e) # {}
  PROVE  NewEndRight(map, E, e)
<1> DEFINE low == LowOf(map, e)
           k == WordOf(e, low)
           F == E \ {e}
           cut == CutOf(map, e)
           B == BitsIn(F, k, low)
<1>1. E \subseteq 0 .. (R - 1) /\ E \subseteq Nat /\ e \in 0 .. (R - 1) /\ e \in Nat /\ F \subseteq Nat
  BY DEF StandsFor
<1>2. low \in 0 .. (Levels32(R) - 1) /\ low \in Nat /\ low < Levels32(R) /\ Levels32(R) \in Nat
  <2>1. Levels32(R) \in Nat
    BY LevelsAreEnough
  <2>2. low \in 0 .. (Levels32(R) - 1)
    BY LowIs DEF LowRight
  <2> QED
    BY <2>1, <2>2
<1>3. LowBitsLeft(map, e) = B /\ BitOf(e, low) \notin B /\ Rest(E, e, low) # {}
  BY LeftIs DEF LeftRight
<1>4. cut.bm[low][k] = B
  BY <1>3 DEF LowBitsLeft
<1> HIDE DEF low
<1>5. k = Cut(e, low + 1) /\ k \in Nat
  BY <1>1, <1>2, CutIsRight DEF CutRight
<1>6. Rest(E, e, low) = At(F, k, low + 1)
  BY <1>5 DEF Rest
<1> HIDE DEF k, F, cut, B
<1>7. B \subseteq Nat /\ B # {} /\ B \subseteq 0 .. (WordBits - 1)
  <2>1. BitsIn(F, k, low) \subseteq 0 .. (WordBits - 1) /\ BitsIn(F, k, low) \subseteq Nat
    BY <1>1, <1>2, <1>5, BitsAre
  <2>2. BitsIn(F, k, low) = {} <=> At(F, k, low + 1) = {}
    BY <1>1, <1>2, <1>5, BitsAre
  <2> QED
    BY <1>3, <1>6, <2>1, <2>2 DEF B
<1> DEFINE p == Min(B)
           q == Max(B)
           top == WordBits - 1
<1>8. IsLeast(p, B) /\ IsGreatest(q, B)
  <2>1. top \in Nat /\ \A i \in B : i <= top
    BY <1>7, WordBitsAssumption
  <2> HIDE DEF top
  <2>2. IsLeast(Min(B), B)
    BY <1>7, MinIsLeast
  <2>3. IsGreatest(Max(B), B)
    BY <1>7, <2>1, MaxIsGreatest
  <2> QED
    BY <2>2, <2>3
<1>9. p \in B /\ q \in B
  BY <1>8 DEF IsLeast, IsGreatest
<1> HIDE DEF p, q
<1>10. CASE low = 0
  <2>1. WordRight(cut, F, low, k)
    BY <1>4, <1>10 DEF WordRight, BitsAt, B, BitsIn
  <2>2. At(F, k, low + 1) # {}
    BY <1>3, <1>6
  <2>3. BottomUnder(cut, F, low, k) /\ TopUnder(cut, F, low, k)
    BY <1>1, <1>2, <1>5, <2>1, <2>2, FindIs
  <2>4. LeastUnder(cut, k, low) = FindMin(cut, k, low) /\ GreatestUnder(cut, k, low) = FindMax(cut, k, low)
    BY <1>10 DEF LeastUnder, GreatestUnder
  <2>5. NewEnd(map, e) = IF WasMin(map, e) THEN FindMin(cut, k, low) ELSE FindMax(cut, k, low)
    BY <2>4 DEF NewEnd, low, cut, k
  <2>6. WasMin(map, e) => IsLeast(NewEnd(map, e), Rest(E, e, low))
    BY <1>6, <2>3, <2>5 DEF BottomUnder
  <2>7. ~ WasMin(map, e) => IsGreatest(NewEnd(map, e), Rest(E, e, low))
    BY <1>6, <2>3, <2>5 DEF TopUnder
  <2> QED
    BY <2>6, <2>7 DEF NewEndRight, low
<1>11. CASE low # 0
  <2> DEFINE j == low - 1
  <2>1. j \in Nat /\ j + 1 = low /\ j + 1 = LowOf(map, e) /\ LowOf(map, e) < Levels32(R)
    BY <1>2, <1>11 DEF low
  <2> HIDE DEF j
  <2>2. ASSUME NEW i \in B
        PROVE  /\ BottomUnder(cut, F, j, WordUnder(k, i)) /\ TopUnder(cut, F, j, WordUnder(k, i))
    <3> DEFINE c == WordUnder(k, i)
    <3>1. At(F, c, low) # {}
      BY <1>1, <1>2, <1>5, BitsAre DEF B
    <3>2. c \in Nat
      <4>1. i \in Nat /\ WordBits \in Nat
        BY <1>7, WordBitsAssumption
      <4>2. k * WordBits \in Nat
        BY <1>5, <4>1
      <4> QED
        BY <4>1, <4>2 DEF WordUnder
    <3>3. c # Cut(e, low)
      <4>1. i \in 0 .. (WordBits - 1)
        BY <1>7
      <4>2. At(E, c, low) = Having(E, k, low, i)
        BY <1>1, <1>2, <1>5, <4>1, ChildIs
      <4>3. i # BitOf(e, low)
        BY <1>3
      <4> QED
        BY <4>2, <4>3 DEF Having, At
    <3> HIDE DEF c
    <3>4. WordRight(CutOf(map, e), E \ {e}, j, c)
      <4>1. At(E \ {e}, c, j + 1) # {} /\ c # Cut(e, j + 1)
        BY <2>1, <3>1, <3>3 DEF F
      <4> QED
        BY <2>1, <3>2, <4>1, BelowLow
    <3>5. WordRight(cut, F, j, c) /\ At(F, c, j + 1) # {}
      BY <2>1, <3>1, <3>4 DEF F, cut
    <3>6. BottomUnder(cut, F, j, c) /\ TopUnder(cut, F, j, c)
      BY <1>1, <2>1, <3>2, <3>5, FindIs
    <3> QED
      BY <3>6 DEF c
  <2>3. /\ LeastUnder(cut, k, low) = FindMin(cut, WordUnder(k, p), j)
        /\ GreatestUnder(cut, k, low) = FindMax(cut, WordUnder(k, q), j)
    BY <1>4, <1>11 DEF LeastUnder, GreatestUnder, WordUnder, j, p, q
  <2>4. NewEnd(map, e) = IF WasMin(map, e) THEN FindMin(cut, WordUnder(k, p), j) ELSE FindMax(cut, WordUnder(k, q), j)
    BY <2>3 DEF NewEnd, low, cut, k
  <2> DEFINE m == FindMin(cut, WordUnder(k, p), j)
             n == FindMax(cut, WordUnder(k, q), j)
  <2>5. IsLeast(m, At(F, WordUnder(k, p), low))
    BY <1>9, <2>1, <2>2 DEF BottomUnder
  <2>6. IsGreatest(n, At(F, WordUnder(k, q), low))
    BY <1>9, <2>1, <2>2 DEF TopUnder
  <2> HIDE DEF m, n
  <2>a. IsLeast(p, BitsIn(F, k, low)) /\ IsGreatest(q, BitsIn(F, k, low))
    BY <1>8 DEF B
  <2>7. IsLeast(m, At(F, k, low + 1))
    BY <1>1, <1>2, <1>5, <2>a, <2>5, FirstChild
  <2>8. IsGreatest(n, At(F, k, low + 1))
    BY <1>1, <1>2, <1>5, <2>a, <2>6, LastChild
  <2> QED
    BY <1>6, <2>4, <2>7, <2>8 DEF NewEndRight, low, m, n
<1> QED
  BY <1>10, <1>11

EndRight(map, E, e, j) ==
  LET U == At(E, Cut(e, j + 1), j + 1)
      a == map.min[j][WordOf(e, j)]
      b == map.max[j][WordOf(e, j)] IN
  IsLeast(a, U) /\ IsGreatest(b, U) /\ (a = e <=> IsLeast(e, U)) /\ (b = e <=> IsGreatest(e, U))
LEMMA EndIs ==
  ASSUME NEW R \in Nat, R > 1, NEW E, NEW map, StandsFor(map, R, E), NEW e \in E,
         NEW j \in 1 .. (Levels32(R) - 1)
  PROVE  EndRight(map, E, e, j)
<1> DEFINE k == WordOf(e, j)
           U == At(E, Cut(e, j + 1), j + 1)
           a == map.min[j][k]
           b == map.max[j][k]
<1>1. E \subseteq 0 .. (R - 1) /\ E \subseteq Nat /\ e \in 0 .. (R - 1) /\ Levels32(R) \in Nat
  BY LevelsAreEnough DEF StandsFor
<1>2. j \in 0 .. (Levels32(R) - 1) /\ j > 0 /\ j \in Nat
  BY <1>1
<1>3. k \in 0 .. WordOf(R, j) /\ k = Cut(e, j + 1)
  BY <1>1, <1>2, InRange DEF WordOf, Cut
<1>4. WordRight(map, E, j, k)
  BY <1>2, <1>3 DEF StandsFor
<1>5. e \in U
  BY DEF At
<1>6. IsLeast(a, U) /\ IsGreatest(b, U)
  BY <1>2, <1>3, <1>4, <1>5 DEF WordRight, EndsAt
<1> HIDE DEF a, b, k
<1>7. U \subseteq Nat
  BY <1>1 DEF At
<1> HIDE DEF U
<1>8. IsLeast(e, U) => e = a
  BY <1>6, <1>7 DEF IsLeast
<1>9. IsGreatest(e, U) => e = b
  BY <1>6, <1>7 DEF IsGreatest
<1> QED
  BY <1>6, <1>8, <1>9 DEF EndRight, a, b, k, U

LEMMA ReachIs ==
  ASSUME NEW R \in Nat, R > 1, NEW E, NEW map, StandsFor(map, R, E), NEW e \in E,
         NEW j \in 0 .. (Levels32(R) - 1), j >= LowOf(map, e),
         j > LowOf(map, e) => IsEnd(map, e, j)
  PROVE  j \in LowOf(map, e) .. ReachOf(map, e)
<1> DEFINE low == LowOf(map, e)
           top == Levels32(R) - 1
           S == {i \in low .. top : \A m \in (low + 1) .. i : IsEnd(map, e, m)}
<1>1. E \subseteq Nat /\ Top(map) = top /\ top \in Nat /\ e \in Nat
  BY LevelsAreEnough, ShapeIs DEF StandsFor
<1>2. low \in 0 .. top /\ low \in Nat
  BY <1>1, LowIs DEF LowRight
<1>3. ReachOf(map, e) = Max(S)
  BY <1>1 DEF ReachOf
<1> HIDE DEF low, top
<1>4. ASSUME NEW m \in (low + 1) .. j PROVE IsEnd(map, e, m)
  <2>1. j > low /\ m \in Nat /\ j \in Nat /\ j \in 1 .. (Levels32(R) - 1) /\ m \in 1 .. (Levels32(R) - 1) /\ m <= j
    BY <1>1, <1>2 DEF top
  <2>2. IsEnd(map, e, j)
    BY <2>1 DEF low
  <2>3. EndRight(map, E, e, j)
    BY <2>1, EndIs
  <2>4. EndRight(map, E, e, m)
    BY <2>1, EndIs
  <2> DEFINE U == At(E, Cut(e, j + 1), j + 1)
             V == At(E, Cut(e, m + 1), m + 1)
  <2>5. IsLeast(e, U) \/ IsGreatest(e, U)
    BY <2>2, <2>3 DEF EndRight, IsEnd
  <2>6. V \subseteq U
    <3>1. ASSUME NEW x \in V PROVE x \in U
      <4> DEFINE p == m + 1
                 q == j + 1
      <4>1. p \in Nat /\ q \in Nat /\ q >= p /\ x \in E /\ x \in Nat /\ Cut(x, p) = Cut(e, p)
        BY <1>1, <2>1 DEF At
      <4> HIDE DEF p, q
      <4>2. Cut(x, q) = Cut(e, q)
        BY <1>1, <4>1, CutSame
      <4> QED
        BY <4>1, <4>2 DEF At, q
    <3> QED
      BY <3>1
  <2>7. e \in V
    BY DEF At
  <2> HIDE DEF U, V
  <2>8. IsLeast(e, V) \/ IsGreatest(e, V)
    BY <2>5, <2>6, <2>7 DEF IsLeast, IsGreatest
  <2> QED
    BY <2>4, <2>8 DEF EndRight, IsEnd, V
<1>5. j \in S
  <2>1. j \in low .. top
    BY <1>1, <1>2 DEF low, top
  <2> QED
    BY <1>4, <2>1
<1>6. S \subseteq Nat /\ \A i \in S : i <= top
  BY <1>1, <1>2
<1> HIDE DEF S
<1>7. IsGreatest(Max(S), S)
  BY <1>1, <1>5, <1>6, MaxIsGreatest
<1>8. Max(S) \in Nat /\ j <= Max(S)
  BY <1>5, <1>6, <1>7 DEF IsGreatest
<1> QED
  BY <1>2, <1>3, <1>8 DEF low

(* A word whose numbers are those left of the lowest word and others.      *)
EndsStay(X, U, e) ==
  /\ X \subseteq U \ {e}
  /\ \A x \in X : \A y \in U \ {e} : y > e /\ IsLeast(x, X) => x <= y
  /\ \A x \in X : \A y \in U \ {e} : y < e /\ IsGreatest(x, X) => y <= x
LEMMA LeastStays ==
  ASSUME NEW E, E \subseteq Nat, NEW e \in E, NEW low \in Nat, NEW j \in Nat, low <= j,
         NEW X, X = Rest(E, e, low), NEW U, U = At(E, Cut(e, j + 1), j + 1)
  PROVE  EndsStay(X, U, e)
<1>1. ASSUME NEW x \in X PROVE x \in U \ {e}
  <2> DEFINE p == low + 1
             q == j + 1
  <2>1. p \in Nat /\ q \in Nat /\ q >= p /\ x \in E /\ x # e /\ x \in Nat /\ e \in Nat /\ Cut(x, p) = Cut(e, p)
    BY DEF Rest, At
  <2> HIDE DEF p, q
  <2>2. Cut(x, q) = Cut(e, q)
    BY <2>1, CutSame
  <2> QED
    BY <2>1, <2>2 DEF At, q
<1> DEFINE p == low + 1
<1>p. p \in Nat
  OBVIOUS
<1>2. ASSUME NEW x \in X, NEW y \in U \ {e}
      PROVE  /\ x \in Nat /\ y \in Nat /\ e \in Nat /\ Cut(x, p) = Cut(e, p)
             /\ Cut(y, p) = Cut(e, p) => y \in X
             /\ Cut(x, p) \in Nat /\ Cut(y, p) \in Nat
  <2>1. x \in Nat /\ y \in Nat /\ e \in Nat /\ Cut(x, p) = Cut(e, p)
    BY DEF Rest, At
  <2>2. Cut(y, p) = Cut(e, p) => y \in X
    BY DEF Rest, At
  <2> HIDE DEF p
  <2>3. CutRight(x, p) /\ CutRight(y, p)
    BY <1>p, <2>1, CutIsRight
  <2> QED
    BY <2>1, <2>2, <2>3 DEF CutRight
<1> HIDE DEF p
<1>3. ASSUME NEW x \in X, NEW y \in U \ {e}, y > e, IsLeast(x, X) PROVE x <= y
  <2>1. CASE Cut(y, p) = Cut(e, p)
    BY <1>2, <1>3, <2>1 DEF IsLeast
  <2>2. CASE Cut(y, p) # Cut(e, p)
    <3>1. x \in Nat /\ y \in Nat /\ e \in Nat /\ Cut(x, p) = Cut(e, p) /\ Cut(x, p) \in Nat /\ Cut(y, p) \in Nat
      BY <1>2
    <3>2. e <= y
      BY <1>3, <3>1
    <3>3. Cut(e, p) <= Cut(y, p)
      BY <1>p, <3>1, <3>2, CutGrows
    <3>4. ASSUME y <= x PROVE FALSE
      <4>1. Cut(y, p) <= Cut(x, p)
        BY <1>p, <3>1, <3>4, CutGrows
      <4> QED
        BY <2>2, <3>1, <3>3, <4>1
    <3> QED
      BY <3>1, <3>4
  <2> QED
    BY <2>1, <2>2
<1>4. ASSUME NEW x \in X, NEW y \in U \ {e}, y < e, IsGreatest(x, X) PROVE y <= x
  <2>1. CASE Cut(y, p) = Cut(e, p)
    BY <1>2, <1>4, <2>1 DEF IsGreatest
  <2>2. CASE Cut(y, p) # Cut(e, p)
    <3>1. x \in Nat /\ y \in Nat /\ e \in Nat /\ Cut(x, p) = Cut(e, p) /\ Cut(x, p) \in Nat /\ Cut(y, p) \in Nat
      BY <1>2
    <3>2. y <= e
      BY <1>4, <3>1
    <3>3. Cut(y, p) <= Cut(e, p)
      BY <1>p, <3>1, <3>2, CutGrows
    <3>4. ASSUME x <= y PROVE FALSE
      <4>1. Cut(x, p) <= Cut(y, p)
        BY <1>p, <3>1, <3>4, CutGrows
      <4> QED
        BY <2>2, <3>1, <3>3, <4>1
    <3> QED
      BY <3>1, <3>4
  <2> QED
    BY <2>1, <2>2
<1> QED
  BY <1>1, <1>3, <1>4 DEF EndsStay

RemovedEnds(out, E, e, j) ==
  LET V == At(E, Cut(e, j + 1), j + 1) \ {e} IN
  V # {} /\ IsLeast(out.min[j][WordOf(e, j)], V) /\ IsGreatest(out.max[j][WordOf(e, j)], V)
LEMMA RemoveEnds ==
  ASSUME NEW R \in Nat, R > 1, NEW E, NEW map, StandsFor(map, R, E), NEW e \in E, Kept(map, e) # {},
         NEW j \in 1 .. (Levels32(R) - 1), j >= LowOf(map, e)
  PROVE  RemovedEnds(BitRemove(map, e), E, e, j)
<1> DEFINE out == BitRemove(map, e)
           low == LowOf(map, e)
           k == WordOf(e, j)
           U == At(E, Cut(e, j + 1), j + 1)
           V == U \ {e}
           X == Rest(E, e, low)
           a == map.min[j][k]
           b == map.max[j][k]
           val == NewEnd(map, e)
           moves == j \in low .. ReachOf(map, e)
<1>1. E \subseteq 0 .. (R - 1) /\ E \subseteq Nat /\ e \in 0 .. (R - 1) /\ e \in Nat /\ Shaped(map, R) /\ Levels32(R) \in Nat
  BY LevelsAreEnough DEF StandsFor
<1>2. j \in 0 .. (Levels32(R) - 1) /\ j > 0 /\ j \in Nat /\ low \in Nat /\ low <= j
  <2>1. low \in 0 .. (Levels32(R) - 1)
    BY LowIs DEF LowRight
  <2> QED
    BY <1>1, <2>1
<1>3. IsLeast(a, U) /\ IsGreatest(b, U) /\ (a = e <=> IsLeast(e, U)) /\ (b = e <=> IsGreatest(e, U))
  <2>1. EndRight(map, E, e, j)
    BY EndIs
  <2> QED
    BY <2>1 DEF EndRight
<1>4. /\ out.min[j][k] = IF ~ Quiet(map, e) /\ moves /\ MinMoves(map, e, j) THEN val ELSE a
      /\ out.max[j][k] = IF ~ Quiet(map, e) /\ moves /\ MaxMoves(map, e, j) THEN val ELSE b
  <2>1. k \in 0 .. WordOf(R, j)
    BY <1>1, <1>2, InRange
  <2>2. RemovedAt(map, out, e, j, k)
    BY <1>1, <1>2, <2>1, RemovesAt
  <2> QED
    BY <2>2 DEF RemovedAt
<1>5. /\ X # {} /\ (WasMin(map, e) <=> \A x \in X : x > e) /\ (WasMax(map, e) <=> \A x \in X : x < e)
  BY LeftIs DEF LeftRight
<1>6. (WasMin(map, e) => IsLeast(val, X)) /\ (~ WasMin(map, e) => IsGreatest(val, X))
  BY NewEndIs DEF NewEndRight
<1>7. (j > low => (IsEnd(map, e, j) <=> a = e \/ b = e)) /\ (j > low /\ IsEnd(map, e, j) => moves) /\ (j = low => moves)
  <2>1. IsEnd(map, e, j) <=> a = e \/ b = e
    BY DEF IsEnd
  <2>2. ASSUME j > low => IsEnd(map, e, j) PROVE moves
    <3>1. j >= LowOf(map, e)
      BY <1>2
    <3> QED
      BY <1>2, <2>2, <3>1, ReachIs
  <2> QED
    BY <1>2, <2>1, <2>2
<1>8. EndsStay(X, U, e)
  <2> HIDE DEF U
  <2>1. X = Rest(E, e, low) /\ U = At(E, Cut(e, j + 1), j + 1)
    BY DEF U
  <2> HIDE DEF X, low
  <2> QED
    BY <1>1, <1>2, <2>1, LeastStays
<1>9. j = low => V = X
  BY DEF Rest, At
<1>10. /\ MinMoves(map, e, j) <=> IF j = low THEN low > 0 /\ WasMin(map, e) ELSE a = e
       /\ MaxMoves(map, e, j) <=> IF j = low THEN low > 0 /\ ~ WasMin(map, e) ELSE b = e /\ a # e
  BY DEF MinMoves, MaxMoves
<1>11. Quiet(map, e) <=> ~ WasMin(map, e) /\ ~ WasMax(map, e)
  BY DEF Quiet
<1>12. U \subseteq Nat /\ e \in U
  BY <1>1 DEF At
<1>13. X \subseteq V /\ X \subseteq Nat /\ e \notin X
  BY <1>8, <1>12 DEF EndsStay
<1> DEFINE p == WasMin(map, e)
           q == WasMax(map, e)
           quiet == Quiet(map, e)
           mm == MinMoves(map, e, j)
           mx == MaxMoves(map, e, j)
           c == out.min[j][k]
           d == out.max[j][k]
<1>14. a # e => IsLeast(a, V)
  BY <1>3 DEF IsLeast
<1>15. b # e => IsGreatest(b, V)
  BY <1>3 DEF IsGreatest
<1> HIDE DEF p, q, quiet, mm, mx, moves, val, a, b, c, d, X, U, out, k, low
<1> SUFFICES RemovedEnds(out, E, e, j)
  BY DEF out
<1>16. (\E x \in X : x > e) => b # e
  BY <1>3, <1>12, <1>13 DEF IsGreatest
<1>17. (\E x \in X : x < e) => a # e
  BY <1>3, <1>12, <1>13 DEF IsLeast
<1>18. CASE quiet
  <2>1. ~ p /\ ~ q /\ c = a /\ d = b
    BY <1>4, <1>11, <1>18 DEF quiet, p, q, c, d, mm, mx
  <2>2. (\E x \in X : x < e) /\ (\E x \in X : x > e)
    <3>1. PICK x \in X, y \in X : ~ (x > e) /\ ~ (y < e)
      BY <1>5, <2>1 DEF p, q
    <3> QED
      BY <1>1, <1>13, <3>1
  <2> QED
    BY <1>5, <1>13, <1>14, <1>15, <1>16, <1>17, <2>1, <2>2 DEF RemovedEnds, U, c, d, k
<1>19. CASE ~ quiet /\ p
  <2>1. (\A x \in X : x > e) /\ b # e /\ IsLeast(val, X)
    BY <1>5, <1>6, <1>16, <1>19 DEF p
  <2>2. j = low => a = e
    <3>1. ASSUME j = low PROVE IsLeast(e, U)
      <4>1. \A y \in U : y = e \/ y > e
        BY <1>9, <2>1, <3>1
      <4> QED
        BY <1>1, <1>12, <4>1 DEF IsLeast
    <3> QED
      BY <1>3, <3>1
  <2>3. mm <=> a = e
    BY <1>2, <1>10, <1>19, <2>2 DEF mm, p
  <2>4. ~ mx
    BY <1>10, <1>19, <2>1 DEF mx, p
  <2>5. d = b
    BY <1>4, <2>4 DEF d, mx
  <2>6. IsLeast(c, V)
    <3>1. CASE a = e
      <4>1. moves
        BY <1>2, <1>7, <3>1
      <4>2. c = val
        BY <1>4, <1>19, <2>3, <3>1, <4>1 DEF c, mm, quiet
      <4>3. \A y \in V : y > e
        BY <1>1, <1>3, <1>12, <3>1 DEF IsLeast
      <4>4. val \in X /\ \A y \in V : val <= y
        BY <1>8, <2>1, <4>3 DEF EndsStay, IsLeast
      <4> QED
        BY <1>13, <4>2, <4>4 DEF IsLeast
    <3>2. CASE a # e
      <4>1. c = a
        BY <1>4, <2>3, <3>2 DEF c, mm
      <4> QED
        BY <1>14, <3>2, <4>1
    <3> QED
      BY <3>1, <3>2
  <2> QED
    BY <1>5, <1>13, <1>15, <2>1, <2>5, <2>6 DEF RemovedEnds, U, c, d, k
<1>20. CASE ~ quiet /\ ~ p
  <2>1. (\A x \in X : x < e) /\ a # e /\ IsGreatest(val, X)
    BY <1>5, <1>6, <1>11, <1>17, <1>20 DEF p, quiet
  <2>2. j = low => b = e
    <3>1. ASSUME j = low PROVE IsGreatest(e, U)
      <4>1. \A y \in U : y = e \/ y < e
        BY <1>9, <2>1, <3>1
      <4> QED
        BY <1>1, <1>12, <4>1 DEF IsGreatest
    <3> QED
      BY <1>3, <3>1
  <2>3. mx <=> b = e
    BY <1>2, <1>10, <1>20, <2>1, <2>2 DEF mx, p
  <2>4. ~ mm
    BY <1>10, <1>20, <2>1 DEF mm, p
  <2>5. c = a
    BY <1>4, <2>4 DEF c, mm
  <2>6. IsGreatest(d, V)
    <3>1. CASE b = e
      <4>1. moves
        BY <1>2, <1>7, <3>1
      <4>2. d = val
        BY <1>4, <1>20, <2>3, <3>1, <4>1 DEF d, mx, quiet
      <4>3. \A y \in V : y < e
        BY <1>1, <1>3, <1>12, <3>1 DEF IsGreatest
      <4>4. val \in X /\ \A y \in V : y <= val
        BY <1>8, <2>1, <4>3 DEF EndsStay, IsGreatest
      <4> QED
        BY <1>13, <4>2, <4>4 DEF IsGreatest
    <3>2. CASE b # e
      <4>1. d = b
        BY <1>4, <2>3, <3>2 DEF d, mx
      <4> QED
        BY <1>15, <3>2, <4>1
    <3> QED
      BY <3>1, <3>2
  <2> QED
    BY <1>5, <1>13, <1>14, <2>1, <2>5, <2>6 DEF RemovedEnds, U, c, d, k
<1> QED
  BY <1>18, <1>19, <1>20

(* Remove leaves a bitmap that stands for the others.                      *)
LEMMA RemoveWord ==
  ASSUME NEW R \in Nat, R > 1, NEW E, NEW map, StandsFor(map, R, E), NEW e \in E,
         NEW j \in 0 .. (Levels32(R) - 1), NEW k \in 0 .. WordOf(R, j)
  PROVE  WordRight(BitRemove(map, e), E \ {e}, j, k)
<1> DEFINE out == BitRemove(map, e)
           low == LowOf(map, e)
           U == At(E, k, j + 1)
           V == At(E \ {e}, k, j + 1)
<1>1. E \subseteq 0 .. (R - 1) /\ E \subseteq Nat /\ e \in 0 .. (R - 1) /\ e \in Nat /\ Shaped(map, R) /\ j \in Nat
  BY DEF StandsFor
<1>2. RemovedAt(map, out, e, j, k)
  BY <1>1, RemovesAt
<1>3. WordRight(map, E, j, k)
  BY DEF StandsFor
<1>4. V = (IF k = Cut(e, j + 1) THEN U \ {e} ELSE U) /\ WordOf(e, j) = Cut(e, j + 1)
  BY DEF At, WordOf, Cut
<1>5. /\ low \in 0 .. (Levels32(R) - 1) /\ low \in Nat /\ (\A i \in 0 .. (low - 1) : Single(E, e, i))
      /\ (Kept(map, e) = {} => low = Levels32(R) - 1 /\ Single(E, e, low))
      /\ (Kept(map, e) # {} => ~ Single(E, e, low))
  BY LowIs DEF LowRight
<1>6. map.bm[j][k] = {BitOf(y, j) : y \in U}
  BY <1>3 DEF WordRight, BitsAt
<1> HIDE DEF out, low
<1> SUFFICES WordRight(out, E \ {e}, j, k)
  BY DEF out
<1>7. CASE k # Cut(e, j + 1)
  <2>1. out.bm[j][k] = map.bm[j][k] /\ out.min[j][k] = map.min[j][k] /\ out.max[j][k] = map.max[j][k] /\ V = U
    BY <1>2, <1>4, <1>7 DEF RemovedAt
  <2> QED
    BY <1>3, <2>1 DEF WordRight, BitsAt, EndsAt
<1>8. CASE k = Cut(e, j + 1) /\ (j < low \/ (j = low /\ Kept(map, e) = {}))
  <2> DEFINE m == j + 1
  <2>1. \A i \in 0 .. (m - 1) : BitsIn(E, WordOf(e, i), i) = {BitOf(e, i)}
    <3>1. ASSUME NEW i \in 0 .. (m - 1) PROVE Single(E, e, i)
      BY <1>1, <1>5, <1>8
    <3> QED
      BY <3>1 DEF Single
  <2>2. At(E, Cut(e, m), m) = {e}
    <3>1. m \in Nat
      BY <1>1
    <3> HIDE DEF m
    <3> QED
      BY <1>1, <2>1, <3>1, Alone
  <2>3. U = {e} /\ V = {}
    BY <1>4, <1>8, <2>2
  <2>4. out.bm[j][k] = {}
    <3>1. j <= low
      BY <1>1, <1>5, <1>8
    <3>2. out.bm[j][k] = map.bm[j][k] \ {BitOf(e, j)}
      BY <1>2, <1>4, <1>8, <3>1 DEF RemovedAt, low
    <3> QED
      BY <1>6, <2>3, <3>2
  <2> QED
    BY <2>3, <2>4 DEF WordRight, BitsAt, EndsAt
<1>9. CASE k = Cut(e, j + 1) /\ j >= low /\ Kept(map, e) # {}
  <2> DEFINE X == Rest(E, e, low)
  <2>1. X # {} /\ LowBitsLeft(map, e) = BitsIn(E \ {e}, WordOf(e, low), low) /\ BitOf(e, low) \notin LowBitsLeft(map, e)
    <3>1. Kept(map, e) # {}
      BY <1>9
    <3>2. LeftRight(map, E, e)
      BY <3>1, LeftIs
    <3> QED
      BY <3>2 DEF LeftRight, low
  <2>2. BitsAt(out, E \ {e}, j, k)
    <3>1. CASE j = low
      <4>1. V = X
        BY <1>9, <3>1 DEF Rest
      <4>2. LowBitsLeft(map, e) = {BitOf(y, j) : y \in V}
        BY <1>4, <1>9, <2>1, <3>1 DEF BitsIn
      <4>3. out.bm[j][k] = map.bm[j][k] \ {BitOf(e, j)}
        BY <1>2, <1>4, <1>5, <1>9, <3>1 DEF RemovedAt, low
      <4>4. {BitOf(y, j) : y \in V} = {BitOf(y, j) : y \in U} \ {BitOf(e, j)}
        <5>1. \A y \in V : BitOf(y, j) # BitOf(e, j)
          BY <2>1, <3>1, <4>2
        <5>2. V = U \ {e}
          BY <1>4, <1>9
        <5> QED
          BY <5>1, <5>2
      <4> QED
        BY <1>6, <4>3, <4>4 DEF BitsAt
    <3>2. CASE j # low
      <4>1. j > low
        BY <1>1, <1>5, <1>9, <3>2
      <4>2. out.bm[j][k] = map.bm[j][k]
        BY <1>1, <1>2, <1>5, <4>1 DEF RemovedAt, low
      <4>3. PICK x \in X : TRUE
        BY <2>1
      <4> DEFINE p == low + 1
      <4>4. p \in Nat /\ p <= j /\ x \in E /\ x # e /\ x \in Nat /\ Cut(x, p) = Cut(e, p)
        BY <1>1, <1>5, <4>1, <4>3 DEF Rest, At
      <4> HIDE DEF p
      <4>5. Cut(x, j) = Cut(e, j)
        BY <1>1, <4>4, CutSame
      <4>6. BitOf(x, j) = BitOf(e, j)
        BY <1>1, <4>4, <4>5, BitOfSame
      <4>7. x \in V
        <5>1. Cut(x, j + 1) = Cut(e, j + 1)
          BY <1>1, <4>4, <4>5, CutSame
        <5> QED
          BY <1>9, <4>4, <5>1 DEF At
      <4>8. {BitOf(y, j) : y \in V} = {BitOf(y, j) : y \in U}
        <5>1. V = U \ {e}
          BY <1>4, <1>9
        <5> HIDE DEF U, V
        <5> QED
          BY <4>6, <4>7, <5>1
      <4> QED
        BY <1>6, <4>2, <4>8 DEF BitsAt
    <3> QED
      BY <3>1, <3>2
  <2>3. ASSUME j > 0 PROVE EndsAt(out, E \ {e}, j, k)
    <3>1. j \in 1 .. (Levels32(R) - 1) /\ j >= LowOf(map, e)
      BY <1>1, <1>9, <2>3 DEF low
    <3>2. RemovedEnds(BitRemove(map, e), E, e, j)
      BY <1>9, <3>1, RemoveEnds
    <3>3. V = At(E, Cut(e, j + 1), j + 1) \ {e}
      BY <1>4, <1>9
    <3> QED
      BY <1>4, <1>9, <3>2, <3>3 DEF RemovedEnds, EndsAt, out
  <2> QED
    BY <2>2, <2>3 DEF WordRight
<1> QED
  BY <1>1, <1>5, <1>7, <1>8, <1>9

LEMMA Removes ==
  ASSUME NEW R \in Nat, R > 1, NEW E, NEW map, StandsFor(map, R, E), NEW e \in E
  PROVE  StandsFor(BitRemove(map, e), R, E \ {e})
<1>1. e \in 0 .. (R - 1) /\ Shaped(map, R) /\ E \ {e} \subseteq 0 .. (R - 1)
  BY DEF StandsFor
<1>2. Shaped(BitRemove(map, e), R)
  BY <1>1, RemovesAt
<1>3. \A j \in 0 .. (Levels32(R) - 1) : \A k \in 0 .. WordOf(R, j) : WordRight(BitRemove(map, e), E \ {e}, j, k)
  BY RemoveWord
<1> QED
  BY <1>1, <1>2, <1>3 DEF StandsFor

(* What the run says of a bitmap that stands for a set.                    *)
LEMMA StandsRight ==
  ASSUME NEW R \in Nat, R > 1, NEW E, NEW map, StandsFor(map, R, E)
  PROVE  Elements(map) = E /\ SummariesRight(map)
<1> DEFINE levels == 0 .. (Levels32(R) - 1)
           W(k, i) == k * WordBits + i
<1>1. /\ E \subseteq 0 .. (R - 1) /\ E \subseteq Nat /\ Top(map) = Levels32(R) - 1 /\ Levels32(R) \in Nat \ {0}
      /\ \A j \in levels : DOMAIN map.bm[j] = 0 .. WordOf(R, j)
  BY LevelsAreEnough, ShapeIs DEF StandsFor
<1>2. \A y \in E : y \in Nat /\ \A j \in Nat : WordOf(y, j) \in 0 .. WordOf(R, j)
  BY <1>1, InRange
<1>3. 0 \in levels /\ \A k \in 0 .. WordOf(R, 0) : map.bm[0][k] = {BitOf(y, 0) : y \in At(E, k, 0 + 1)}
  <2>1. 0 \in levels
    BY <1>1
  <2>2. \A k \in 0 .. WordOf(R, 0) : WordRight(map, E, 0, k)
    BY <2>1 DEF StandsFor
  <2> QED
    BY <2>1, <2>2 DEF WordRight, BitsAt
<1>4. \A y \in E : y = W(WordOf(y, 0), BitOf(y, 0)) /\ y \in At(E, WordOf(y, 0), 0 + 1)
  <2> TAKE y \in E
  <2> DEFINE z == 0
             a == Cut(y, z)
             k == WordOf(y, z)
             b == BitOf(y, z)
             w == WordBits
  <2>0. z \in Nat /\ y \in Nat
    BY <1>2
  <2>1. a = y
    BY <2>0, CutWhole
  <2> HIDE DEF z
  <2>2. CutRight(y, z)
    BY <2>0, CutIsRight
  <2>3. a = w * k + b /\ k \in Nat /\ w \in Nat
    BY <2>2, WordBitsAssumption DEF CutRight
  <2>4. y \in At(E, k, z + 1)
    BY DEF At, WordOf, Cut
  <2> HIDE DEF a, k, b, w
  <2>5. y = k * w + b
    BY <2>1, <2>3
  <2> QED
    BY <2>4, <2>5 DEF z, k, b, w
<1>5. Elements(map) = E
  <2>1. Elements(map) = UNION {{W(k, i) : i \in map.bm[0][k]} : k \in 0 .. WordOf(R, 0)}
    BY <1>1, <1>3 DEF Elements
  <2> HIDE DEF W
  <2>2. ASSUME NEW x \in Elements(map) PROVE x \in E
    <3>1. PICK k \in 0 .. WordOf(R, 0) : \E i \in map.bm[0][k] : x = W(k, i)
      BY <2>1
    <3>2. PICK y \in At(E, k, 0 + 1) : x = W(k, BitOf(y, 0))
      BY <1>3, <3>1
    <3>3. y \in E /\ k = WordOf(y, 0)
      BY <3>2 DEF At, Cut, WordOf
    <3> QED
      BY <1>4, <3>2, <3>3
  <2>3. ASSUME NEW y \in E PROVE y \in Elements(map)
    <3> DEFINE k == WordOf(y, 0)
               b == BitOf(y, 0)
    <3>1. k \in 0 .. WordOf(R, 0) /\ y = W(k, b) /\ y \in At(E, k, 0 + 1)
      BY <1>2, <1>4
    <3>2. b \in map.bm[0][k]
      BY <1>3, <3>1
    <3> HIDE DEF k, b
    <3> QED
      BY <2>1, <3>1, <3>2
  <2> QED
    BY <2>2, <2>3
<1>6. SummariesRight(map)
  <2> SUFFICES ASSUME NEW j \in 1 .. Top(map), NEW k \in DOMAIN map.bm[j]
               PROVE  LET under == {e \in Elements(map) : WordOf(e, j) = k} IN
                      /\ map.bm[j][k] = {BitOf(e, j) : e \in under}
                      /\ under # {} => map.min[j][k] = Min(under) /\ map.max[j][k] = Max(under)
    BY DEF SummariesRight
  <2>1. j \in levels /\ j > 0 /\ k \in 0 .. WordOf(R, j)
    <3>1. j \in 1 .. (Levels32(R) - 1)
      BY <1>1
    <3>2. j \in levels /\ j > 0
      BY <1>1, <3>1
    <3> HIDE DEF levels
    <3> QED
      BY <1>1, <3>2
  <2>2. WordRight(map, E, j, k)
    BY <2>1 DEF StandsFor
  <2> DEFINE under == {e \in Elements(map) : WordOf(e, j) = k}
  <2>3. under = At(E, k, j + 1) /\ under \subseteq Nat
    BY <1>1, <1>5 DEF At, Cut, WordOf
  <2>4. map.bm[j][k] = {BitOf(e, j) : e \in under}
    BY <2>2, <2>3 DEF WordRight, BitsAt
  <2>5. under # {} => IsLeast(map.min[j][k], under) /\ IsGreatest(map.max[j][k], under)
    BY <2>1, <2>2, <2>3 DEF WordRight, EndsAt
  <2> HIDE DEF under
  <2>6. under # {} => map.min[j][k] = Min(under)
    BY <2>3, <2>5, LeastOne
  <2>7. under # {} => map.max[j][k] = Max(under)
    BY <2>3, <2>5, GreatestOne
  <2> QED
    BY <2>4, <2>6, <2>7 DEF under
<1> QED
  BY <1>5, <1>6
-------------------------------------------------------------------------------
(* What the code calls the windows' two ends.                              *)
LEMMA EnteringIs ==
  ASSUME text_pos \in Nat, NEW k \in 1 .. Len(Dst)
  PROVE  Entering(k) = Comes(k, text_pos) /\ Leaving(k) = Goes(k, text_pos)
<1>1. /\ Dst[k] \in Nat /\ k \in Int /\ (k # 1 => k - 1 \in 1 .. Len(Dst))
  BY Classes1
<1>2. k # 1 => Dst[k - 1] \in Nat
  BY <1>1, Classes1
<1>3. Leaving(k) = Goes(k, text_pos)
  BY <1>1 DEF Leaving, Goes
<1>4. Entering(k) = Comes(k, text_pos)
  <2>1. CASE k = 1
    BY <2>1 DEF Entering, Comes, Floor
  <2>2. CASE k # 1
    <3> DEFINE b == Dst[k - 1]
    <3>1. Entering(k) = text_pos - b - 1 /\ Comes(k, text_pos) = (text_pos - 1) - b
      BY <2>2 DEF Entering, Comes, Floor, Leaving
    <3>2. b \in Nat
      BY <1>2, <2>2
    <3> HIDE DEF b
    <3> QED
      BY <3>1, <3>2
  <2> QED
    BY <2>1, <2>2
<1> QED
  BY <1>3, <1>4
-------------------------------------------------------------------------------
(* Texts, their ranks, and how many classes have trees.                    *)
Ranking == text \in Texts /\ isa = Ranks(text)
LEMMA TextIs ==
  ASSUME Ranking
  PROVE  /\ L \in Nat \ {0} /\ text \in Words /\ RanksRight(text, isa) /\ Suffixed(text) = 0 .. (L - 1)
         /\ isa \in [0 .. (L - 1) -> 0 .. (L - 1)]
         /\ \A i, j \in 0 .. (L - 1) : isa[i] = isa[j] => i = j
<1>1. text \in Words /\ text # <<>>
  BY WindowTextsAssumption DEF Ranking, Words
<1>2. L \in Nat \ {0}
  BY <1>1, EmptySeq, LenProperties DEF Words, L
<1>3. RanksRight(text, isa)
  BY <1>1, RanksAre DEF Ranking
<1>4. Suffixed(text) = 0 .. (L - 1)
  BY DEF Suffixed, L
<1> QED
  BY <1>1, <1>2, <1>3, <1>4 DEF RanksRight

LEMMA ShareIs ==
  ASSUME NEW m \in Nat, NEW c \in Nat, c > 0
  PROVE  m \div c \in Nat /\ m \div c <= m
<1> DEFINE q == m \div c
<1>1. q \in Int /\ c * q <= m /\ m < c * (q + 1)
  OBVIOUS
<1> HIDE DEF q
<1>2. q >= 0
  <2>1. ASSUME q + 1 <= 0 PROVE FALSE
    <3>1. c * (q + 1) <= 0
      BY <1>1, <2>1
    <3> QED
      BY <1>1, <3>1
  <2> QED
    BY <1>1, <2>1
<1>3. q <= c * q
  BY <1>1, <1>2
<1> QED
  BY <1>1, <1>2, <1>3 DEF q

LEMMA TreenumIs ==
  ASSUME Ranking
  PROVE  /\ treenum \in 0 .. (Len(Dst) - 1)
         /\ treenum > 0 => treenum \in 1 .. Len(Dst) /\ Dst[treenum] < L /\ PoolSize = Dst[treenum] + 1
<1> DEFINE m == L \div TreeShare
<1>1. m \in Nat /\ m <= L /\ m <= Last(Dst)
  <2>1. TreeShare \in Nat /\ TreeShare > 0 /\ L \in Nat
    BY TextIs, TreeShareAssumption
  <2>2. m \in Nat /\ m <= L
    BY <2>1, ShareIs
  <2> QED
    BY <2>2, TreeShareAssumption DEF Ranking, L
<1>2. treenum = LowerBound(Dst, m)
  BY DEF treenum, LowerBound
<1> HIDE DEF m
<1>3. /\ treenum \in 0 .. Len(Dst) /\ treenum < Len(Dst)
      /\ \A k \in 1 .. Len(Dst) : Dst[k] < m <=> k <= treenum
  BY <1>1, <1>2, ClassesAssumption, LowerBoundIs
<1>4. treenum \in 0 .. (Len(Dst) - 1)
  BY <1>3, Classes1
<1>5. ASSUME treenum > 0 PROVE treenum \in 1 .. Len(Dst) /\ Dst[treenum] < L /\ L > Dst[treenum]
  <2>1. treenum \in 1 .. Len(Dst)
    BY <1>4, <1>5, Classes1
  <2>2. Dst[treenum] < m /\ Dst[treenum] \in Nat
    BY <1>3, <2>1, Classes1
  <2>3. L \in Nat
    BY TextIs
  <2> DEFINE d == Dst[treenum]
  <2> HIDE DEF d
  <2>4. d < L /\ L > d
    BY <1>1, <2>2, <2>3 DEF d
  <2> QED
    BY <2>1, <2>4 DEF d
<1> QED
  BY <1>4, <1>5 DEF PoolSize

(* Bitmaps.                                                                *)
Ranked(f, W) == {f[p] : p \in W}
OneToOne(f, D) == \A i, j \in D : f[i] = f[j] => i = j
WithoutOne(f, W, l) == f[l] \in Ranked(f, W) /\ Ranked(f, W) \ {f[l]} = Ranked(f, W \ {l})
LEMMA RankedWithout ==
  ASSUME NEW D, NEW f, OneToOne(f, D), NEW W, W \subseteq D, NEW l \in W
  PROVE  WithoutOne(f, W, l)
  BY DEF Ranked, OneToOne, WithoutOne
LEMMA RankedWith ==
  ASSUME NEW f, NEW W, NEW e
  PROVE  Ranked(f, W \union {e}) = Ranked(f, W) \union {f[e]}
  BY DEF Ranked

HasBitmap == (treenum + 1) .. Len(Dst)
BitmapsFor(maps, x) ==
  /\ maps = [k \in HasBitmap |-> maps[k]]
  /\ \A k \in HasBitmap : StandsFor(maps[k], L + 1, Ranked(isa, Win(k, x)))
LEMMA BitmapsStart ==
  ASSUME Ranking
  PROVE  BitmapsFor([k \in HasBitmap |-> EmptyBitmap(L + 1)], 0)
<1> DEFINE R == L + 1
<1>1. R \in Nat
  BY TextIs
<1>2. \A k : Ranked(isa, Win(k, 0)) = {}
  BY DEF Ranked, Win
<1> HIDE DEF R
<1>3. StandsFor(EmptyBitmap(R), R, {})
  BY <1>1, Empties
<1> QED
  BY <1>2, <1>3 DEF BitmapsFor, R

LEMMA BitmapTurned ==
  ASSUME Ranking, text_pos \in 1 .. L, NEW k \in HasBitmap,
         StandsFor(ps[k], L + 1, Ranked(isa, Win(k, text_pos - 1)))
  PROVE  StandsFor(IF Entering(k) >= 0 THEN BitmapTurn(k) ELSE ps[k], L + 1, Ranked(isa, Win(k, text_pos)))
<1> DEFINE R == L + 1
           x == text_pos
           B == Win(k, x - 1)
           A == Win(k, x)
           c == Comes(k, x)
           g == Goes(k, x)
           map == ps[k]
           set == BitSet(map, isa[c])
<1>1. /\ L \in Nat /\ x \in Nat /\ x > 0 /\ k \in 1 .. Len(Dst) /\ x - 1 \in Nat
      /\ isa \in [0 .. (L - 1) -> 0 .. (L - 1)]
      /\ \A i, j \in 0 .. (L - 1) : isa[i] = isa[j] => i = j
  BY TextIs, TreenumIs DEF HasBitmap
<1>2. Entering(k) = c /\ Leaving(k) = g
  BY <1>1, EnteringIs
<1>3. /\ c < 0 => NoneComes(k, x)
      /\ c >= 0 /\ g < 0 => OnlyComes(k, x)
      /\ g >= 0 => c >= 0 /\ OneGoes(k, x)
  BY <1>1, WinMoves
<1>4. B \subseteq 0 .. (L - 1) /\ c \in Int /\ g \in Int
  <2>1. B \subseteq 0 .. ((x - 1) - 1)
    BY <1>1, WinIs
  <2>2. 0 .. ((x - 1) - 1) \subseteq 0 .. (L - 1)
    BY <1>1
  <2>3. Floor(k) \in Int /\ Dst[k] \in Int
    BY <1>1, Classes1
  <2>4. c \in Int /\ g \in Int
    <3>1. x \in Int /\ c = (x - 1) - Floor(k) /\ g = (x - 1) - Dst[k]
      BY <1>1 DEF Comes, Goes
    <3> HIDE DEF x, c, g
    <3> QED
      BY <2>3, <3>1
  <2> HIDE DEF B
  <2> QED
    BY <2>1, <2>2, <2>4
<1>5. R \in Nat /\ R > 1 /\ StandsFor(map, R, Ranked(isa, B))
  BY TextIs
<1> HIDE DEF R, A, B, c, g, map
<1>6. ASSUME c \in 0 .. (x - 1) PROVE StandsFor(set, R, Ranked(isa, B \union {c}))
  <2> DEFINE E == Ranked(isa, B)
             e == isa[c]
  <2>1. e \in 0 .. (R - 1)
    BY <1>1, <1>6 DEF R
  <2> HIDE DEF E, e
  <2>2. StandsFor(BitSet(map, e), R, E \union {e})
    BY <1>5, <2>1, Sets DEF E
  <2> QED
    BY <2>2, RankedWith DEF E, e
<1>7. CASE c < 0
  <2>1. A = B /\ ~ (c >= 0)
    BY <1>3, <1>4, <1>7 DEF NoneComes, A, B, c
  <2> QED
    BY <1>2, <1>5, <2>1 DEF R, A, map
<1>8. CASE c >= 0 /\ g < 0
  <2>1. c \in 0 .. (x - 1) /\ A = B \union {c} /\ ~ (g >= 0)
    BY <1>3, <1>4, <1>8 DEF OnlyComes, A, B, c
  <2>2. BitmapTurn(k) = set
    BY <1>2, <2>1 DEF BitmapTurn, map
  <2> QED
    BY <1>2, <1>6, <1>8, <2>1, <2>2 DEF R, A
<1>9. CASE g >= 0
  <2>1. c \in 0 .. (x - 1) /\ A = (B \union {c}) \ {g} /\ g \in B /\ c >= 0
    BY <1>3, <1>9 DEF OneGoes, A, B, c, g
  <2>2. BitmapTurn(k) = BitRemove(set, isa[g])
    BY <1>2, <1>9 DEF BitmapTurn, map
  <2> DEFINE W == B \union {c}
             E == Ranked(isa, W)
             e == isa[g]
             D == 0 .. (L - 1)
  <2>0. c \in 0 .. (L - 1)
    BY <1>1, <2>1
  <2>3. W \subseteq D /\ g \in W /\ OneToOne(isa, D)
    <3>1. OneToOne(isa, D)
      BY <1>1 DEF OneToOne
    <3> HIDE DEF D
    <3> QED
      BY <1>4, <2>0, <2>1, <3>1 DEF D
  <2>4. StandsFor(set, R, E)
    BY <1>6, <2>1
  <2> HIDE DEF W, D, set
  <2>5. e \in E /\ E \ {e} = Ranked(isa, W \ {g})
    <3>1. WithoutOne(isa, W, g)
      BY <2>3, RankedWithout
    <3> QED
      BY <3>1 DEF WithoutOne
  <2> HIDE DEF E, e
  <2>6. StandsFor(BitRemove(set, e), R, E \ {e})
    BY <1>5, <2>4, <2>5, Removes
  <2> QED
    BY <1>2, <2>1, <2>2, <2>5, <2>6 DEF R, A, W, e
<1> QED
  BY <1>4, <1>7, <1>8, <1>9

LEMMA BitmapsMove ==
  ASSUME Ranking, text_pos \in 1 .. L, BitmapsFor(ps, text_pos - 1), UpdateBitmaps
  PROVE  BitmapsFor(ps', text_pos)
<1>1. DOMAIN ps = HasBitmap
  BY DEF BitmapsFor
<1>2. ps' = [k \in HasBitmap |-> IF Entering(k) >= 0 THEN BitmapTurn(k) ELSE ps[k]]
  BY <1>1 DEF UpdateBitmaps
<1>3. ASSUME NEW k \in HasBitmap
      PROVE  StandsFor(IF Entering(k) >= 0 THEN BitmapTurn(k) ELSE ps[k], L + 1, Ranked(isa, Win(k, text_pos)))
  <2>1. StandsFor(ps[k], L + 1, Ranked(isa, Win(k, text_pos - 1)))
    BY DEF BitmapsFor
  <2> QED
    BY <2>1, BitmapTurned
<1> DEFINE turned(k) == IF Entering(k) >= 0 THEN BitmapTurn(k) ELSE ps[k]
<1>4. ps' = [k \in HasBitmap |-> turned(k)] /\ \A k \in HasBitmap : StandsFor(turned(k), L + 1, Ranked(isa, Win(k, text_pos)))
  BY <1>2, <1>3
<1> HIDE DEF turned
<1>5. \A k \in HasBitmap : ps'[k] = turned(k)
  BY <1>4
<1> QED
  BY <1>4, <1>5 DEF BitmapsFor
-------------------------------------------------------------------------------
(* Trees.  After m turns of the loop the first m trees have the windows of *)
(* x, the others those of the position before, and the node in hand is for *)
(* the position that goes down from window m.                              *)
HasTree == 1 .. treenum
Pool == 0 .. Dst[treenum]
WinsAt(m, x) == [k \in HasTree |-> Win(k, IF k <= m THEN x ELSE x - 1)]
HandOf(m, x) == (x - 1) - (IF m = 0 THEN 0 ELSE Dst[m])
Carried(h, n, S, f, p, Q) ==
  n \in Q /\ (\A k \in HasTree : n \notin S[k]) /\ h[n].key = f[p] /\ h[n].info = p
TurnsHold(w, S, m, x, Q) ==
  /\ Forest(Pool, HasTree, w.h, S, w.t) /\ Holding(HasTree, w.h, S, isa, WinsAt(m, x))
  /\ \A k \in HasTree : S[k] \subseteq Q
  /\ HandOf(m, x) >= 0 => Carried(w.h, w.node, S, isa, HandOf(m, x), Q)
Turning == [h : Heaps(Pool), t : [HasTree -> Pool \union {Null}], node : Pool \union {Null}]
TurnsRight(w, m, x, Q) == w \in Turning /\ \E S : TurnsHold(w, S, m, x, Q)

LEMMA HandIs ==
  ASSUME Ranking, NEW x \in Nat, NEW m \in HasTree
  PROVE  /\ HandOf(m - 1, x) = Comes(m, x) /\ HandOf(m, x) = Goes(m, x)
         /\ m \in 1 .. Len(Dst) /\ m \in Nat /\ Comes(m, x) \in Int /\ Goes(m, x) \in Int
<1>1. m \in 1 .. Len(Dst) /\ m \in Nat /\ m # 0
  BY TreenumIs, Classes1 DEF HasTree
<1>2. Floor(m) \in Nat /\ Dst[m] \in Nat
  BY <1>1, Classes1
<1>3. HandOf(m, x) = Goes(m, x)
  BY <1>1 DEF HandOf, Goes
<1>4. HandOf(m - 1, x) = Comes(m, x)
  <2>1. m - 1 = 0 <=> m = 1
    BY <1>1
  <2> QED
    BY <2>1 DEF HandOf, Comes, Floor
<1>5. Comes(m, x) \in Int /\ Goes(m, x) \in Int
  BY <1>2 DEF Comes, Goes
<1> QED
  BY <1>1, <1>3, <1>4, <1>5

(* One turn moves the window of its tree, and that only.                   *)
LEMMA WinsMove ==
  ASSUME Ranking, NEW x \in Nat, NEW m \in HasTree, NEW A, A = Win(m, x)
  PROVE  [WinsAt(m - 1, x) EXCEPT ![m] = A] = WinsAt(m, x)
<1>1. m \in Nat /\ m <= m /\ \A k \in HasTree : k \in Nat /\ (k # m => (k <= m - 1 <=> k <= m))
  BY TreenumIs DEF HasTree
<1> DEFINE was(k) == Win(k, IF k <= m - 1 THEN x ELSE x - 1)
           is(k) == Win(k, IF k <= m THEN x ELSE x - 1)
<1>2. is(m) = A /\ \A k \in HasTree : k # m => was(k) = is(k)
  BY <1>1
<1>3. WinsAt(m - 1, x) = [k \in HasTree |-> was(k)] /\ WinsAt(m, x) = [k \in HasTree |-> is(k)]
  BY DEF WinsAt
<1> HIDE DEF was, is
<1> QED
  BY <1>2, <1>3

LEMMA OneTurn ==
  ASSUME Ranking, text_pos \in 1 .. L, NEW m \in HasTree, NEW Q, Q \subseteq Pool,
         NEW w, TurnsRight(w, m - 1, text_pos, Q), Comes(m, text_pos) >= 0
  PROVE  TurnsRight(TreeTurn(w, m), m, text_pos, Q)
<1> DEFINE x == text_pos
           c == Comes(m, x)
           g == Goes(m, x)
           h == w.h
           r == w.t
           n == w.node
           V == WinsAt(m - 1, x)
           in == Insert(h, r[m], n)
           B == Win(m, x - 1)
           A == Win(m, x)
           X == WinsAt(m, x)
<1>1. /\ x \in Nat /\ x > 0 /\ HandOf(m - 1, x) = c /\ HandOf(m, x) = g /\ m \in Nat
      /\ m \in 1 .. Len(Dst) /\ c \in Int /\ g \in Int /\ L \in Nat /\ x <= L
  BY TextIs, HandIs
<1>2. PICK S : TurnsHold(w, S, m - 1, x, Q)
  BY DEF TurnsRight
<1>3. /\ Forest(Pool, HasTree, h, S, r) /\ Holding(HasTree, h, S, isa, V)
      /\ \A k \in HasTree : S[k] \subseteq Q /\ n \notin S[k]
      /\ n \in Q /\ n \in Pool /\ h[n].key = isa[c] /\ h[n].info = c
  BY <1>1, <1>2 DEF TurnsHold, Carried
<1>4. /\ g < 0 => OnlyComes(m, x)
      /\ g >= 0 => OneGoes(m, x)
  BY <1>1, WinMoves
<1>5. DOMAIN V = HasTree /\ V[m] = B
  <2>1. ~ (m <= m - 1)
    BY <1>1
  <2> QED
    BY <2>1 DEF WinsAt
<1>6. B \subseteq 0 .. (x - 2)
  <2> DEFINE y == x - 1
  <2>1. y \in Nat /\ y - 1 = x - 2
    BY <1>1
  <2> HIDE DEF y
  <2>2. Win(m, y) \subseteq 0 .. (y - 1)
    BY <1>1, <2>1, WinIs
  <2> QED
    BY <2>1, <2>2 DEF y
<1>w. WinsAt(m, x) = [V EXCEPT ![m] = A]
  BY <1>1, WinsMove
<1>t. /\ TreeTurn(w, m) = Turned(r, Drop(in, m), m)
      /\ Leaving(m) = g
  BY <1>1, EnteringIs DEF TreeTurn
<1> HIDE DEF x, c, g, h, r, n, V, in, A, B, X
<1>7. c \in 0 .. (x - 1) /\ c \notin B
  BY <1>1, <1>4 DEF OnlyComes, OneGoes, c, B
<1>8. \A p \in V[m] : isa[p] # isa[c]
  <2>1. isa \in [0 .. (L - 1) -> 0 .. (L - 1)] /\ \A i, j \in 0 .. (L - 1) : isa[i] = isa[j] => i = j
    BY TextIs
  <2>2. c \in 0 .. (L - 1) /\ \A p \in B : p \in 0 .. (L - 1) /\ p # c
    BY <1>1, <1>6, <1>7
  <2> QED
    BY <1>5, <2>1, <2>2
<1>9. TakenIn(Pool, HasTree, h, S, r, isa, V, m, n, c, in)
  BY <1>3, <1>5, <1>8, TurnIn DEF in
<1> DEFINE U == [S EXCEPT ![m] = S[m] \union {n}]
           q == [r EXCEPT ![m] = in.top]
           Y == [V EXCEPT ![m] = V[m] \union {c}]
<1>10. /\ in \in Values(Pool) /\ Forest(Pool, HasTree, in.h, U, q) /\ Holding(HasTree, in.h, U, isa, Y)
       /\ S \in [HasTree -> SUBSET Pool] /\ r \in [HasTree -> Pool \union {Null}]
  BY <1>3, <1>9 DEF TakenIn, Replanted, Forest
<1>11. U[m] = S[m] \union {n} /\ q[m] = in.top /\ Y[m] = B \union {c} /\ DOMAIN Y = HasTree
       /\ U \in [HasTree -> SUBSET Pool] /\ q \in [HasTree -> Pool \union {Null}]
       /\ \A k \in HasTree : U[k] \subseteq Q
  <2>1. U[m] = S[m] \union {n} /\ q[m] = in.top /\ Y[m] = B \union {c} /\ DOMAIN Y = HasTree
    BY <1>5, <1>10
  <2>2. U \in [HasTree -> SUBSET Pool] /\ q \in [HasTree -> Pool \union {Null}]
    BY <1>10 DEF Forest
  <2>3. \A k \in HasTree : U[k] \subseteq Q
    BY <1>3, <1>10
  <2> QED
    BY <2>1, <2>2, <2>3
<1>12. CASE g < 0
  <2> DEFINE v == Turned(r, in, m)
  <2>1. TreeTurn(w, m) = v /\ A = B \union {c}
    BY <1>4, <1>12, <1>t DEF Drop, OnlyComes, A, B, c
  <2>2. v.h = in.h /\ v.t = q /\ v.node = in.node /\ v \in Turning
    BY <1>10, <1>11 DEF Turned, Turning, Values
  <2>3. Y = WinsAt(m, x)
    BY <1>5, <1>w, <2>1
  <2> HIDE DEF v, U, q, Y
  <2>4. TurnsHold(v, U, m, x, Q)
    BY <1>1, <1>10, <1>11, <1>12, <2>2, <2>3 DEF TurnsHold
  <2> QED
    BY <2>1, <2>2, <2>4 DEF TurnsRight, x
<1>13. CASE g >= 0
  <2> DEFINE out == Delete(in.h, q[m], isa[g])
  <2>1. A = (B \union {c}) \ {g} /\ g \in B
    BY <1>4, <1>13 DEF OneGoes, A, B, c, g
  <2>2. g \in Y[m]
    BY <1>11, <2>1
  <2> HIDE DEF U, q, Y
  <2> DEFINE e == in.h
  <2>3. Forest(Pool, HasTree, e, U, q) /\ Holding(HasTree, e, U, isa, Y) /\ HasTree = DOMAIN Y
    BY <1>10, <1>11
  <2> HIDE DEF e
  <2>4. TakenOut(Pool, HasTree, e, U, q, isa, Y, m, g, Delete(e, q[m], isa[g]))
    BY <2>2, <2>3, TurnOut
  <2>5. TakenOut(Pool, HasTree, e, U, q, isa, Y, m, g, out)
    BY <2>4 DEF e
  <2>6. TreeTurn(w, m) = Turned(r, out, m)
    <3>1. ~ (Leaving(m) < 0) /\ Leaving(m) = g
      BY <1>1, <1>13, <1>t
    <3>2. q[m] = in.top
      BY <1>11
    <3>3. Drop(in, m) = out
      BY <3>1, <3>2 DEF Drop
    <3> HIDE DEF out
    <3> QED
      BY <1>t, <3>3
  <2> HIDE DEF out
  <2> DEFINE v == Turned(r, out, m)
             T2 == [U EXCEPT ![m] = U[m] \ {out.node}]
             q2 == [q EXCEPT ![m] = out.top]
             Y2 == [Y EXCEPT ![m] = Y[m] \ {g}]
  <2>7. /\ out \in Values(Pool) /\ out.node \in U[m] /\ Forest(Pool, HasTree, out.h, T2, q2)
        /\ Holding(HasTree, out.h, T2, isa, Y2) /\ out.h[out.node].key = isa[g] /\ out.h[out.node].info = g
    BY <2>5 DEF TakenOut, Replanted
  <2>8. q2 = [r EXCEPT ![m] = out.top] /\ q2 \in [HasTree -> Pool \union {Null}]
    <3>1. q2 \in [HasTree -> Pool \union {Null}]
      BY <2>7 DEF Forest
    <3>2. q2 = [r EXCEPT ![m] = out.top]
      BY <1>10 DEF q
    <3> QED
      BY <3>1, <3>2
  <2>9. v.h = out.h /\ v.t = q2 /\ v.node = out.node /\ v \in Turning
    <3> HIDE DEF q2
    <3>1. v = [h |-> out.h, t |-> q2, node |-> out.node]
      BY <2>8 DEF Turned
    <3> HIDE DEF v
    <3> QED
      BY <2>7, <2>8, <3>1 DEF Turning, Values
  <2>10. Y2 = WinsAt(m, x)
    <3>1. Y[m] \ {g} = A
      BY <1>11, <2>1
    <3>2. Y2 = [V EXCEPT ![m] = A]
      BY <1>5, <3>1 DEF Y
    <3> QED
      BY <1>w, <3>2
  <2>11. /\ \A k \in HasTree : T2[k] \subseteq Q /\ out.node \notin T2[k]
         /\ out.node \in Q
    <3>1. Apart(U, HasTree) /\ U \in [HasTree -> SUBSET Pool]
      BY <2>3, <1>11 DEF Forest
    <3>2. \A k \in HasTree : T2[k] = IF k = m THEN U[m] \ {out.node} ELSE U[k]
      BY <3>1
    <3>3. \A k \in HasTree : k # m => out.node \notin U[k]
      BY <2>7, <3>1 DEF Apart
    <3> HIDE DEF T2
    <3>4. ASSUME NEW k \in HasTree PROVE T2[k] \subseteq Q /\ out.node \notin T2[k]
      BY <1>11, <3>2, <3>3
    <3> QED
      BY <1>11, <2>7, <3>4
  <2> HIDE DEF v, T2, q2, Y2
  <2>12. Carried(v.h, v.node, T2, isa, g, Q)
    BY <2>7, <2>9, <2>11 DEF Carried
  <2>13. TurnsHold(v, T2, m, x, Q)
    BY <1>1, <2>7, <2>9, <2>10, <2>11, <2>12 DEF TurnsHold
  <2> QED
    BY <2>6, <2>9, <2>13 DEF TurnsRight, x, v
<1> QED
  BY <1>1, <1>12, <1>13

(* The loop ends at the first tree that drops nothing, or after the last.  *)
Whole == FirstOf({k \in 1 .. treenum : Leaving(k) < 0}, treenum)
LEMMA WholeIs ==
  ASSUME Ranking, treenum > 0, text_pos \in Nat
  PROVE  /\ Whole \in HasTree
         /\ \A k \in HasTree : k < Whole => Goes(k, text_pos) >= 0
         /\ Whole = treenum \/ Goes(Whole, text_pos) < 0
<1> DEFINE S == {k \in 1 .. treenum : Leaving(k) < 0}
<1>1. /\ treenum \in Nat /\ HasTree = 1 .. treenum /\ S \subseteq Nat
      /\ \A k \in HasTree : Leaving(k) = Goes(k, text_pos) /\ Goes(k, text_pos) \in Int
  <2>1. treenum \in Nat /\ HasTree = 1 .. treenum /\ S \subseteq Nat
    BY TreenumIs DEF HasTree
  <2>2. ASSUME NEW k \in HasTree PROVE Leaving(k) = Goes(k, text_pos) /\ Goes(k, text_pos) \in Int
    <3>1. k \in 1 .. Len(Dst) /\ Goes(k, text_pos) \in Int
      BY HandIs
    <3> QED
      BY <3>1, EnteringIs
  <2> QED
    BY <2>1, <2>2
<1>2. CASE S = {}
  <2>1. Whole = treenum /\ treenum \in HasTree
    BY <1>1, <1>2 DEF Whole, FirstOf
  <2>2. \A k \in HasTree : ~ (Leaving(k) < 0)
    BY <1>1, <1>2
  <2> QED
    BY <1>1, <2>1, <2>2
<1>3. CASE S # {}
  <2>1. Whole = Min(S)
    BY <1>3 DEF Whole, FirstOf
  <2> HIDE DEF S
  <2>2. IsLeast(Min(S), S)
    BY <1>1, <1>3, MinIsLeast
  <2>3. Whole \in S /\ \A k \in S : Whole <= k
    BY <2>1, <2>2 DEF IsLeast
  <2>4. Whole \in HasTree /\ Leaving(Whole) < 0 /\ Whole \in Nat
    BY <1>1, <2>3 DEF S
  <2>5. ASSUME NEW k \in HasTree, k < Whole PROVE ~ (Leaving(k) < 0)
    <3>1. k \notin S
      BY <1>1, <2>3, <2>4, <2>5
    <3> QED
      BY <1>1, <3>1 DEF S
  <2> QED
    BY <1>1, <2>4, <2>5
<1> QED
  BY <1>2, <1>3

(* The windows below one that keeps all its positions are empty.           *)
LEMMA RestWaits ==
  ASSUME Ranking, NEW x \in Nat, x > 0, NEW m \in HasTree, m = treenum \/ Goes(m, x) < 0
  PROVE  WinsAt(m, x) = WinsAt(treenum, x)
<1>1. treenum \in Nat /\ treenum <= Len(Dst) /\ m \in Nat /\ m <= treenum /\ Len(Dst) \in Nat
  BY TreenumIs, Classes1 DEF HasTree
<1>2. ASSUME NEW k \in HasTree, m < k PROVE Win(k, x) = Win(k, x - 1)
  <2> DEFINE j == k - 1
  <2>1. k \in 1 .. Len(Dst) /\ j \in HasTree /\ j \in 1 .. Len(Dst) /\ m \in 1 .. Len(Dst) /\ k <= treenum /\ k # 1 /\ m <= j /\ Goes(m, x) < 0
    BY <1>1, <1>2 DEF HasTree
  <2>2. Floor(k) = Dst[j]
    BY <2>1 DEF Floor
  <2> HIDE DEF j
  <2>3. Dst[m] \in Nat /\ Dst[j] \in Nat /\ Dst[m] <= Dst[j]
    BY <2>1, Classes1
  <2>4. Comes(k, x) < 0
    BY <2>1, <2>2, <2>3 DEF Comes, Goes
  <2>5. NoneComes(k, x)
    BY <2>1, <2>4, WinMoves
  <2> QED
    BY <2>5 DEF NoneComes
<1>3. ASSUME NEW k \in HasTree
      PROVE  Win(k, IF k <= m THEN x ELSE x - 1) = Win(k, IF k <= treenum THEN x ELSE x - 1)
  <2>1. k \in Nat /\ k <= treenum
    BY <1>1 DEF HasTree
  <2> QED
    BY <1>1, <1>2, <2>1
<1> QED
  BY <1>3 DEF WinsAt

Begun == [h |-> [pool EXCEPT ![NewNode] = Leaf(isa[text_pos - 1], text_pos - 1)], t |-> t, node |-> NewNode]
LEMMA TreesTurned ==
  ASSUME Ranking, treenum > 0, text_pos \in 1 .. L, NEW Q, Q \subseteq Pool, TurnsRight(Begun, 0, text_pos, Q)
  PROVE  TurnsRight(Trees, treenum, text_pos, Q)
<1> DEFINE x == text_pos
           M == Whole
           s0 == Begun
           P == [n \in 0 .. M |-> {v \in Turning : TurnsRight(v, n, x, Q)}]
           step == [z \in (1 .. M) \X Turning |-> TreeTurn(z[2], z[1])]
           Def(u) == [n \in 0 .. M |-> IF n = 0 THEN s0 ELSE TreeTurn(u[n - 1], n)]
           after == CHOOSE u : u = Def(u)
<1>1. /\ M \in HasTree /\ M \in Nat /\ M # 0 /\ x \in Nat /\ x > 0 /\ \A n \in 1 .. M : n \in HasTree
      /\ \A k \in HasTree : k < M => Goes(k, x) >= 0
      /\ M = treenum \/ Goes(M, x) < 0
  <2>1. x \in Nat /\ x > 0 /\ treenum \in Nat
    BY TextIs, TreenumIs
  <2>2. /\ M \in HasTree /\ \A k \in HasTree : k < M => Goes(k, x) >= 0
        /\ M = treenum \/ Goes(M, x) < 0
    BY <2>1, WholeIs
  <2> HIDE DEF M
  <2>3. M \in Nat /\ M # 0 /\ \A n \in 1 .. M : n \in HasTree
    BY <2>1, <2>2 DEF HasTree
  <2> QED
    BY <2>1, <2>2, <2>3
<1>2. Trees = after[M]
  BY DEF Trees, Begun, Whole
<1> HIDE DEF M, s0, x
<1>3. ASSUME NEW n \in 1 .. M, n > 1 \/ n = 1 PROVE Comes(n, x) >= 0 /\ n - 1 \in 0 .. M
  <2>1. n \in HasTree /\ n \in Nat /\ n - 1 \in 0 .. M
    BY <1>1
  <2>2. CASE n = 1
    <3>1. Comes(1, x) = (x - 1) - 0
      BY DEF Comes, Floor
    <3> QED
      BY <1>1, <2>1, <2>2, <3>1
  <2>3. CASE n > 1
    <3> DEFINE j == n - 1
    <3>1. j \in HasTree /\ j < M
      BY <1>1, <2>3
    <3>2. Goes(j, x) >= 0
      BY <1>1, <3>1
    <3>3. Comes(n, x) = Goes(j, x)
      <4>1. n # 1
        BY <2>3
      <4> QED
        BY <4>1 DEF Comes, Goes, Floor
    <3> QED
      BY <2>1, <3>2, <3>3
  <2> QED
    BY <1>3, <2>1, <2>2, <2>3
<1>4. ASSUME NEW n \in 1 .. M, NEW v, TurnsRight(v, n - 1, x, Q) PROVE TurnsRight(TreeTurn(v, n), n, x, Q)
  <2>1. n > 1 \/ n = 1
    OBVIOUS
  <2>2. Comes(n, x) >= 0 /\ n \in HasTree
    BY <1>1, <1>3, <2>1
  <2> QED
    BY <1>4, <2>2, OneTurn DEF x
<1>5. \A n \in 0 .. M : \A v : v \in P[n] <=> TurnsRight(v, n, x, Q)
  BY DEF TurnsRight
<1>6. \A n \in 1 .. M : \A v \in Turning : step[<<n, v>>] = TreeTurn(v, n)
  OBVIOUS
<1>7. s0 \in P[0]
  <2>1. TurnsRight(s0, 0, x, Q) /\ 0 \in 0 .. M
    BY <1>1 DEF s0, x
  <2> HIDE DEF P
  <2> QED
    BY <1>5, <2>1
<1> HIDE DEF P, step
<1>8. ASSUME NEW n \in 1 .. M, NEW v \in P[n - 1] PROVE v \in Turning /\ TreeTurn(v, n) \in P[n]
  <2>1. n - 1 \in 0 .. M /\ n \in 0 .. M
    BY <1>1
  <2>2. TurnsRight(v, n - 1, x, Q)
    BY <1>5, <2>1
  <2>3. TurnsRight(TreeTurn(v, n), n, x, Q)
    BY <1>4, <2>2
  <2> QED
    BY <1>5, <2>1, <2>2, <2>3 DEF TurnsRight
<1>9. Carries(M, P, step)
  BY <1>6, <1>8 DEF Carries
<1>10. PICK u : u = [n \in 0 .. M |-> IF n = 0 THEN s0 ELSE step[<<n, u[n - 1]>>]]
  <2> HIDE DEF M, s0
  <2> QED
    BY <1>1, <1>7, <1>9, StepsOn
<1>11. StepsFrom(u, M, s0, step)
  BY <1>1, <1>10 DEF StepsFrom
<1>12. \A n \in 0 .. M : u[n] \in P[n]
  BY <1>1, <1>7, <1>9, <1>11, StepsStay
<1>13. u = Def(u)
  <2>1. ASSUME NEW n \in 1 .. M PROVE step[<<n, u[n - 1]>>] = TreeTurn(u[n - 1], n)
    <3>1. u[n - 1] \in P[n - 1]
      BY <1>1, <1>12
    <3>2. u[n - 1] \in Turning
      BY <1>8, <3>1
    <3> QED
      BY <1>6, <3>2
  <2>2. \A n \in 0 .. M : n = 0 \/ n \in 1 .. M
    BY <1>1
  <2> DEFINE old(n) == IF n = 0 THEN s0 ELSE step[<<n, u[n - 1]>>]
             new(n) == IF n = 0 THEN s0 ELSE TreeTurn(u[n - 1], n)
  <2>3. \A n \in 0 .. M : old(n) = new(n)
    BY <2>1, <2>2
  <2>4. u = [n \in 0 .. M |-> old(n)]
    BY <1>10
  <2> HIDE DEF old, new
  <2>5. u = [n \in 0 .. M |-> new(n)]
    BY <2>3, <2>4
  <2> QED
    BY <2>5 DEF new
<1>14. after = Def(after)
  <2> HIDE DEF Def
  <2> QED
    BY <1>13, Zenon
<1> HIDE DEF after
<1>15. after[0] = s0 /\ \A n \in 1 .. M : after[n] = TreeTurn(after[n - 1], n)
  BY <1>1, <1>14
<1> HIDE DEF Def
<1> DEFINE Good == {n \in Nat : n <= M => after[n] \in P[n]}
<1>16. 0 \in Good
  BY <1>7, <1>15
<1>17. ASSUME NEW n \in Nat, n \in Good PROVE (n + 1) \in Good
  <2> SUFFICES ASSUME n + 1 <= M PROVE after[n + 1] \in P[n + 1]
    OBVIOUS
  <2>1. n + 1 \in 1 .. M /\ (n + 1) - 1 = n /\ after[n] \in P[n]
    BY <1>1, <1>17
  <2>2. after[n + 1] = TreeTurn(after[n], n + 1)
    BY <1>15, <2>1
  <2> QED
    BY <1>8, <2>1, <2>2
<1> HIDE DEF Good
<1>18. Nat \subseteq Good
  BY <1>16, <1>17, InductionOn
<1>19. TurnsRight(Trees, M, x, Q)
  <2>1. after[M] \in P[M] /\ M \in 0 .. M
    BY <1>1, <1>18 DEF Good
  <2> QED
    BY <1>2, <1>5, <2>1
<1>20. WinsAt(M, x) = WinsAt(treenum, x)
  BY <1>1, RestWaits
<1>21. M # treenum => HandOf(treenum, x) < 0
  <2>1. treenum \in HasTree /\ treenum \in 1 .. Len(Dst) /\ M \in 1 .. Len(Dst) /\ (M # treenum => M < treenum)
    BY <1>1, TreenumIs, Classes1 DEF HasTree
  <2>2. HandOf(treenum, x) = Goes(treenum, x)
    BY <1>1, <2>1, HandIs
  <2>3. ASSUME M # treenum PROVE Goes(treenum, x) < 0
    <3>1. Dst[M] < Dst[treenum] /\ Dst[M] \in Nat /\ Dst[treenum] \in Nat /\ Goes(M, x) < 0
      BY <1>1, <2>1, <2>3, Classes1
    <3> QED
      BY <1>1, <3>1 DEF Goes
  <2> QED
    BY <2>2, <2>3
<1>22. HandOf(treenum, x) \in Int
  <2>1. treenum \in HasTree
    BY <1>1, TreenumIs DEF HasTree
  <2> QED
    BY <1>1, <2>1, HandIs
<1>23. PICK S : TurnsHold(Trees, S, M, x, Q)
  BY <1>19 DEF TurnsRight
<1>24. TurnsHold(Trees, S, treenum, x, Q)
  BY <1>20, <1>21, <1>22, <1>23 DEF TurnsHold
<1> QED
  BY <1>19, <1>24 DEF TurnsRight, x

(* The trees at x: once the last one has dropped a position, the node it   *)
(* gave back is in none; before, nodes are taken in the order of positions.*)
TreesHold(h, roots, rel, S, x) ==
  /\ Forest(Pool, HasTree, h, S, roots) /\ Holding(HasTree, h, S, isa, WinsAt(treenum, x))
  /\ x <= Dst[treenum] => rel = Null /\ \A k \in HasTree : S[k] \subseteq 0 .. (x - 1)
  /\ x > Dst[treenum] => rel \in Pool /\ \A k \in HasTree : rel \notin S[k]
TreesFor(h, roots, rel, x) == treenum > 0 => \E S : TreesHold(h, roots, rel, S, x)

LEMMA TreesStart ==
  ASSUME Ranking, pool = IF treenum = 0 THEN <<>> ELSE [n \in 0 .. (PoolSize - 1) |-> Leaf(0, 0)],
         t = [k \in 1 .. treenum |-> Null], released = Null
  PROVE  TreesFor(pool, t, released, 0)
<1> SUFFICES ASSUME treenum > 0 PROVE \E S : TreesHold(pool, t, released, S, 0)
  BY DEF TreesFor
<1> DEFINE S == [k \in HasTree |-> {}]
<1>1. treenum \in 1 .. Len(Dst) /\ Dst[treenum] \in Nat /\ treenum # 0 /\ PoolSize = Dst[treenum] + 1
  BY TreenumIs, Classes1
<1>2. pool = [n \in Pool |-> Leaf(0, 0)]
  <2> DEFINE d == Dst[treenum]
  <2>1. 0 .. (PoolSize - 1) = Pool
    <3>1. (d + 1) - 1 = d
      BY <1>1
    <3> QED
      BY <1>1, <3>1 DEF Pool
  <2> QED
    BY <1>1, <2>1
<1>3. Nodal(Pool) /\ pool \in Heaps(Pool) /\ \A z \in Pool : FreeLeaf(pool, z)
  <2>1. Leaf(0, 0) \in NodeRecs(Pool)
    BY DEF NodeRecs, Leaf
  <2>2. Nodal(Pool)
    BY <1>1 DEF Nodal, Pool
  <2> DEFINE l == Leaf(0, 0)
  <2>3. l.left = Null /\ l.right = Null /\ l.height = 1 /\ l \in NodeRecs(Pool)
    BY <2>1 DEF Leaf
  <2>4. pool = [n \in Pool |-> l]
    BY <1>2
  <2> HIDE DEF l
  <2>5. \A z \in Pool : pool[z] = l
    BY <2>4
  <2>6. pool \in Heaps(Pool)
    BY <2>3, <2>4 DEF Heaps
  <2> QED
    BY <2>2, <2>3, <2>5, <2>6 DEF FreeLeaf
<1>4. S \in [HasTree -> SUBSET Pool] /\ t \in [HasTree -> Pool \union {Null}]
  BY DEF HasTree
<1>5. Planted(Pool, HasTree, pool, S, t)
  <2>1. AVL(pool, {}, Null)
    BY EmptyTree
  <2> QED
    BY <2>1 DEF Planted, HasTree
<1>6. Apart(S, HasTree) /\ Loose(Pool, HasTree, pool, S)
  BY <1>3 DEF Apart, Loose
<1>7. Holding(HasTree, pool, S, isa, WinsAt(treenum, 0))
  <2>1. ASSUME NEW k \in HasTree PROVE WinsAt(treenum, 0)[k] = {}
    <3>1. k <= treenum
      BY <1>1, Classes1 DEF HasTree
    <3>2. WinsAt(treenum, 0)[k] = Win(k, 0)
      BY <3>1 DEF WinsAt
    <3> QED
      BY <3>2 DEF Win
  <2> QED
    BY <2>1 DEF Holding, Data, Pairs
<1>8. TreesHold(pool, t, released, S, 0)
  <2>1. Forest(Pool, HasTree, pool, S, t)
    BY <1>3, <1>4, <1>5, <1>6 DEF Forest
  <2>2. ~ (0 > Dst[treenum])
    BY <1>1
  <2> QED
    BY <1>7, <2>1, <2>2 DEF TreesHold
<1> QED
  BY <1>8

LEMMA TreesBegin ==
  ASSUME Ranking, treenum > 0, text_pos \in 1 .. L,
         NEW S, TreesHold(pool, t, released, S, text_pos - 1),
         NEW Q, Q \subseteq Pool, \A k \in HasTree : S[k] \subseteq Q,
         NewNode \in Q, \A k \in HasTree : NewNode \notin S[k]
  PROVE  TurnsRight(Begun, 0, text_pos, Q)
<1> DEFINE x == text_pos
           n == NewNode
           V == WinsAt(treenum, x - 1)
           key == isa[x - 1]
           info == x - 1
           g == [pool EXCEPT ![n] = Leaf(key, info)]
<1>1. x \in Nat /\ x > 0 /\ key \in Int /\ info \in Int /\ info >= 0
  <2>1. x - 1 \in 0 .. (L - 1)
    BY TextIs
  <2> QED
    BY <2>1, TextIs
<1>2. Forest(Pool, HasTree, pool, S, t) /\ Holding(HasTree, pool, S, isa, V) /\ n \in Pool
  BY DEF TreesHold
<1> HIDE DEF n, V, key, info, x
<1>3. Renewed(Pool, HasTree, pool, S, t, isa, V, [pool EXCEPT ![n] = Leaf(key, info)])
  <2>1. \A j \in HasTree : n \notin S[j]
    BY DEF n
  <2> QED
    BY <1>1, <1>2, <2>1, FreshLeaf
<1>4. Begun.h = g /\ Begun.t = t /\ Begun.node = n /\ Begun = [h |-> g, t |-> t, node |-> n]
  BY DEF Begun, n, key, info, x
<1>5. Forest(Pool, HasTree, g, S, t) /\ Holding(HasTree, g, S, isa, V)
  BY <1>3 DEF Renewed
<1>6. V = WinsAt(0, x)
  <2>1. \A k \in HasTree : k \in Nat /\ k <= treenum /\ ~ (k <= 0)
    BY TreenumIs DEF HasTree
  <2>2. \A k \in HasTree : Win(k, IF k <= treenum THEN x - 1 ELSE (x - 1) - 1) = Win(k, IF k <= 0 THEN x ELSE x - 1)
    BY <2>1
  <2> QED
    BY <2>2 DEF WinsAt, V, x
<1>7. HandOf(0, x) = x - 1 /\ info = x - 1 /\ key = isa[x - 1]
  BY <1>1 DEF HandOf, info, key
<1>8. g[n].key = key /\ g[n].info = info /\ g \in Heaps(Pool) /\ t \in [HasTree -> Pool \union {Null}]
  <2>1. DOMAIN pool = Pool
    BY <1>2 DEF Forest, Heaps
  <2> QED
    BY <1>2, <1>5, <2>1 DEF Forest, Leaf
<1> HIDE DEF g
<1>9. Carried(g, n, S, isa, HandOf(0, x), Q)
  BY <1>7, <1>8 DEF Carried, n
<1>10. TurnsHold(Begun, S, 0, x, Q)
  BY <1>4, <1>5, <1>6, <1>9 DEF TurnsHold
<1>11. Begun \in Turning
  BY <1>2, <1>4, <1>8 DEF Turning
<1> QED
  BY <1>10, <1>11 DEF TurnsRight, x

LEMMA TreesMove ==
  ASSUME Ranking, text_pos \in 1 .. L, TreesFor(pool, t, released, text_pos - 1), UpdateTrees
  PROVE  TreesFor(pool', t', released', text_pos)
<1> SUFFICES ASSUME treenum > 0 PROVE \E S : TreesHold(pool', t', released', S, text_pos)
  BY DEF TreesFor
<1> DEFINE x == text_pos
           d == Dst[treenum]
           Q == IF x - 1 <= d THEN 0 .. (x - 1) ELSE Pool
<1>1. /\ x \in Nat /\ x > 0 /\ d \in Nat /\ treenum \in HasTree /\ treenum # 0 /\ treenum \in 1 .. Len(Dst)
  BY TextIs, TreenumIs, Classes1 DEF HasTree
<1>2. PICK S : TreesHold(pool, t, released, S, x - 1)
  BY DEF TreesFor
<1>3. /\ Q \subseteq Pool /\ NewNode \in Q
      /\ \A k \in HasTree : S[k] \subseteq Q /\ NewNode \notin S[k]
  <2>1. S \in [HasTree -> SUBSET Pool] /\ -1 \notin Pool
    BY <1>1, <1>2 DEF TreesHold, Forest, Pool
  <2>2. CASE x - 1 <= d
    <3>1. released = Null /\ \A k \in HasTree : S[k] \subseteq 0 .. (x - 1 - 1)
      BY <1>2, <2>2 DEF TreesHold
    <3>2. NewNode = x - 1 /\ Q = 0 .. (x - 1)
      BY <2>2, <3>1 DEF NewNode
    <3>3. x - 1 \in 0 .. (x - 1) /\ x - 1 \notin 0 .. (x - 1 - 1) /\ 0 .. (x - 1 - 1) \subseteq 0 .. (x - 1) /\ 0 .. (x - 1) \subseteq Pool
      BY <1>1, <2>2 DEF Pool
    <3> QED
      BY <3>1, <3>2, <3>3
  <2>3. CASE ~ (x - 1 <= d)
    <3>1. released \in Pool /\ \A k \in HasTree : released \notin S[k]
      <4>1. x - 1 > d
        BY <1>1, <2>3
      <4> QED
        BY <1>2, <4>1 DEF TreesHold
    <3>2. released # Null
      BY <2>1, <3>1 DEF Null
    <3> QED
      BY <2>1, <2>3, <3>1, <3>2 DEF NewNode
  <2> QED
    BY <2>2, <2>3
<1> HIDE DEF Q
<1>4. TurnsRight(Begun, 0, text_pos, Q)
  BY <1>2, <1>3, TreesBegin
<1>5. TurnsRight(Trees, treenum, text_pos, Q)
  BY <1>3, <1>4, TreesTurned
<1>6. /\ pool' = Trees.h /\ t' = Trees.t
      /\ released' = IF Leaving(treenum) >= 0 THEN Trees.node ELSE released
  BY <1>1 DEF UpdateTrees
<1>7. PICK Z : TurnsHold(Trees, Z, treenum, x, Q)
  BY <1>5 DEF TurnsRight
<1>8. Leaving(treenum) = HandOf(treenum, x) /\ HandOf(treenum, x) = (x - 1) - d
  BY <1>1, EnteringIs, HandIs DEF HandOf
<1>9. Forest(Pool, HasTree, pool', Z, t') /\ Holding(HasTree, pool', Z, isa, WinsAt(treenum, x))
  BY <1>6, <1>7 DEF TurnsHold
<1>10. ASSUME x <= d PROVE released' = Null /\ \A k \in HasTree : Z[k] \subseteq 0 .. (x - 1)
  <2>1. x - 1 <= d /\ ~ ((x - 1) - d >= 0)
    BY <1>1, <1>10
  <2>2. released = Null /\ Q = 0 .. (x - 1)
    BY <1>2, <2>1 DEF TreesHold, Q
  <2>3. \A k \in HasTree : Z[k] \subseteq Q
    BY <1>7 DEF TurnsHold
  <2> QED
    BY <1>6, <1>8, <2>1, <2>2, <2>3
<1>11. ASSUME x > d PROVE released' \in Pool /\ \A k \in HasTree : released' \notin Z[k]
  <2>1. (x - 1) - d >= 0
    BY <1>1, <1>11
  <2>2. Carried(Trees.h, Trees.node, Z, isa, HandOf(treenum, x), Q)
    BY <1>7, <1>8, <2>1 DEF TurnsHold
  <2> QED
    BY <1>3, <1>6, <1>8, <2>1, <2>2 DEF Carried
<1>12. TreesHold(pool', t', released', Z, x)
  BY <1>9, <1>10, <1>11 DEF TreesHold
<1> QED
  BY <1>12
-------------------------------------------------------------------------------
(* What windows say.                                                       *)
TreesTell(x) ==
  /\ \A k \in 1 .. treenum :
       /\ IsAVL(pool, t[k]) /\ released \notin NodesOf(k)
       /\ {<<pool[n].key, pool[n].info>> : n \in NodesOf(k)} = {<<isa[p], p>> : p \in Win(k, x)}
  /\ \A j, k \in 1 .. treenum : j < k => NodesOf(j) \intersect NodesOf(k) = {}
LEMMA TreesAre ==
  ASSUME Ranking, NEW x \in Nat, TreesFor(pool, t, released, x)
  PROVE  TreesTell(x)
<1> SUFFICES ASSUME treenum > 0 PROVE TreesTell(x)
  <2>1. treenum \in Nat
    BY TreenumIs
  <2>2. CASE ~ (treenum > 0)
    <3>1. 1 .. treenum = {}
      BY <2>1, <2>2
    <3> QED
      BY <3>1 DEF TreesTell
  <2> QED
    BY <2>2
<1>1. PICK S : TreesHold(pool, t, released, S, x)
  BY DEF TreesFor
<1>2. /\ Forest(Pool, HasTree, pool, S, t) /\ Holding(HasTree, pool, S, isa, WinsAt(treenum, x))
      /\ Dst[treenum] \in Nat /\ Nodal(Pool) /\ pool \in Heaps(Pool) /\ Apart(S, HasTree)
      /\ Planted(Pool, HasTree, pool, S, t)
  BY <1>1, TreenumIs, Classes1 DEF TreesHold, Forest
<1>3. Grounded(pool)
  BY <1>2, ForestGrounded
<1>4. ASSUME NEW k \in HasTree
      PROVE  /\ NodesOf(k) = S[k] /\ IsAVL(pool, t[k]) /\ released \notin S[k]
             /\ Data(pool, S[k]) = Pairs(isa, Win(k, x))
  <2> DEFINE A == S[k]
             r == t[k]
  <2>1. A \subseteq Pool /\ AVL(pool, A, r)
    BY <1>2 DEF Planted
  <2> HIDE DEF A, r
  <2>2. Nodes(pool, r) = A /\ IsAVL(pool, r)
    BY <1>2, <1>3, <2>1, NodesOfTree
  <2>3. released \notin A
    <3>1. Null \notin Pool
      BY <1>2, NullIsNone
    <3>2. CASE x <= Dst[treenum]
      BY <1>1, <2>1, <3>1, <3>2 DEF TreesHold
    <3>3. CASE x > Dst[treenum]
      BY <1>1, <3>3 DEF TreesHold, A
    <3> QED
      BY <1>2, <3>2, <3>3
  <2>4. WinsAt(treenum, x)[k] = Win(k, x)
    <3>1. k <= treenum
      BY TreenumIs DEF HasTree
    <3> QED
      BY <3>1 DEF WinsAt
  <2> QED
    BY <1>2, <2>2, <2>3, <2>4 DEF A, r, NodesOf, Holding
<1>5. \A j, k \in HasTree : j < k => NodesOf(j) \intersect NodesOf(k) = {}
  <2> SUFFICES ASSUME NEW j \in HasTree, NEW k \in HasTree, j < k PROVE NodesOf(j) \intersect NodesOf(k) = {}
    OBVIOUS
  <2>1. j # k
    BY TreenumIs DEF HasTree
  <2> QED
    BY <1>2, <1>4, <2>1 DEF Apart
<1> QED
  BY <1>4, <1>5 DEF TreesTell, HasTree, Data, Pairs

BitmapsTell(x) ==
  \A k \in DOMAIN ps : Elements(ps[k]) = {isa[p] : p \in Win(k, x)} /\ SummariesRight(ps[k])
LEMMA BitmapsAre ==
  ASSUME Ranking, NEW x, BitmapsFor(ps, x)
  PROVE  BitmapsTell(x)
<1> DEFINE R == L + 1
<1>1. DOMAIN ps = HasBitmap
  BY DEF BitmapsFor
<1>2. ASSUME NEW k \in HasBitmap PROVE Elements(ps[k]) = {isa[p] : p \in Win(k, x)} /\ SummariesRight(ps[k])
  <2> DEFINE map == ps[k]
             E == Ranked(isa, Win(k, x))
  <2>1. R \in Nat /\ R > 1 /\ StandsFor(map, R, E)
    BY TextIs DEF BitmapsFor
  <2> HIDE DEF R, map, E
  <2>2. Elements(map) = E /\ SummariesRight(map)
    BY <2>1, StandsRight
  <2> QED
    BY <2>2 DEF map, E, Ranked
<1> QED
  BY <1>1, <1>2 DEF BitmapsTell

(* The nearest ranks in a window.                                          *)
Beneath(W, f, x, p) ==
  IF p = -1 THEN \A q \in W : ~ (f[q] < f[x])
  ELSE p \in W /\ f[p] < f[x] /\ \A q \in W : f[q] < f[x] => f[q] <= f[p]
Atop(W, f, x, p) ==
  IF p = -1 THEN \A q \in W : ~ (f[q] > f[x])
  ELSE p \in W /\ f[p] > f[x] /\ \A q \in W : f[q] > f[x] => f[q] >= f[p]
Positions == sa = [r \in 0 .. (L - 1) |-> CHOOSE i \in 0 .. (L - 1) : isa[i] = r]
LEMMA PositionIs ==
  ASSUME Ranking, Positions, NEW p \in 0 .. (L - 1)
  PROVE  sa[isa[p]] = p
<1>1. isa[p] \in 0 .. (L - 1) /\ \A i \in 0 .. (L - 1) : isa[i] = isa[p] => i = p
  BY TextIs
<1>2. sa[isa[p]] = CHOOSE i \in 0 .. (L - 1) : isa[i] = isa[p]
  BY <1>1 DEF Positions
<1> QED
  BY <1>1, <1>2

LEMMA WinRanks ==
  ASSUME Ranking, NEW x \in 0 .. (L - 1), NEW k \in 1 .. Len(Dst)
  PROVE  /\ Win(k, x) \subseteq 0 .. (L - 1) /\ x \notin Win(k, x)
         /\ \A p \in Win(k, x) : p \in Nat /\ p < x /\ isa[p] \in 0 .. (L - 1) /\ isa[p] # isa[x]
         /\ isa[x] \in 0 .. (L - 1) /\ isa[x] \in Int
<1>1. /\ isa \in [0 .. (L - 1) -> 0 .. (L - 1)] /\ L \in Nat /\ x \in Nat
      /\ \A i, j \in 0 .. (L - 1) : isa[i] = isa[j] => i = j
  BY TextIs
<1>2. \A p \in Win(k, x) : p \in 0 .. (x - 1)
  BY <1>1, WinIs
<1>3. \A p \in Win(k, x) : p \in 0 .. (L - 1) /\ p # x /\ p < x /\ p \in Nat
  <2>1. L \in Nat /\ x \in Nat /\ x <= L - 1
    BY <1>1
  <2>2. \A p \in 0 .. (x - 1) : p \in 0 .. (L - 1) /\ p # x /\ p < x /\ p \in Nat
    BY <2>1
  <2> QED
    BY <1>2, <2>2
<1> QED
  BY <1>1, <1>3

NearBy(near, k, x) == Beneath(Win(k, x), isa, x, near.pred) /\ Atop(Win(k, x), isa, x, near.succ)
LEMMA TreeNeighbours ==
  ASSUME Ranking, text_pos \in 0 .. (L - 1), TreesFor(pool, t, released, text_pos), NEW k \in HasTree
  PROVE  NearBy(Neighbours(k), k, text_pos)
<1> DEFINE x == text_pos
           W == Win(k, x)
           key == isa[x]
           near == Search(pool, t[k], key)
           r == t[k]
<1>1. k \in 1 .. Len(Dst) /\ k <= treenum /\ treenum > 0 /\ x \in Nat
  BY TextIs, TreenumIs, Classes1 DEF HasTree
<1>2. PICK S : TreesHold(pool, t, released, S, x)
  BY <1>1 DEF TreesFor
<1> DEFINE A == S[k]
<1>3. /\ Forest(Pool, HasTree, pool, S, t) /\ Nodal(Pool) /\ pool \in Heaps(Pool)
      /\ A \subseteq Pool /\ AVL(pool, A, r) /\ Grounded(pool) /\ Null \notin Pool
  BY <1>2, ForestGrounded, NullIsNone DEF TreesHold, Forest, Planted
<1>4. Data(pool, A) = Pairs(isa, W)
  <2>1. WinsAt(treenum, x)[k] = W
    BY <1>1 DEF WinsAt
  <2> QED
    BY <1>2, <2>1 DEF TreesHold, Holding
<1>5. /\ \A p \in W : p \in Nat /\ isa[p] \in Int /\ isa[p] # key
      /\ key \in Int
  BY <1>1, WinRanks
<1>6. Neighbours(k) = [pred |-> IF near.prev = Null THEN -1 ELSE pool[near.prev].info,
                       succ |-> IF near.next = Null THEN -1 ELSE pool[near.next].info]
  BY <1>1 DEF Neighbours
<1> HIDE DEF A, r, W
<1>7. Searched(pool, A, key, near)
  <2> HIDE DEF key
  <2> QED
    BY <1>3, <1>5, SearchIs DEF r
<1> HIDE DEF near, key, x
<1>8. /\ \A v \in A : pool[v].info \in W /\ pool[v].key = isa[pool[v].info]
      /\ \A p \in W : \E v \in A : pool[v].key = isa[p]
  <2>1. ASSUME NEW v \in A PROVE pool[v].info \in W /\ pool[v].key = isa[pool[v].info]
    <3>1. PICK p \in W : <<pool[v].key, pool[v].info>> = <<isa[p], p>>
      BY <1>4 DEF Data, Pairs
    <3> QED
      BY <3>1
  <2>2. ASSUME NEW p \in W PROVE \E v \in A : pool[v].key = isa[p]
    <3>1. PICK v \in A : <<isa[p], p>> = <<pool[v].key, pool[v].info>>
      BY <1>4 DEF Data, Pairs
    <3> QED
      BY <3>1
  <2> QED
    BY <2>1, <2>2
<1> DEFINE p == Neighbours(k).pred
           s == Neighbours(k).succ
<1>9. Beneath(W, isa, x, p)
  <2> DEFINE n == near.prev
  <2>1. NextBefore(pool, A, key, n) /\ p = IF n = Null THEN -1 ELSE pool[n].info
    BY <1>6, <1>7 DEF Searched
  <2> HIDE DEF n, p
  <2>2. CASE n = Null
    <3>1. \A v \in A : pool[v].key > key
      BY <2>1, <2>2 DEF NextBefore
    <3>2. \A q \in W : ~ (isa[q] < key)
      BY <1>5, <1>8, <3>1
    <3> QED
      BY <2>1, <2>2, <3>2 DEF Beneath, key
  <2>3. CASE n # Null
    <3>1. n \in A /\ pool[n].key <= key /\ \A v \in A : pool[v].key <= key => pool[v].key <= pool[n].key
      BY <2>1, <2>3 DEF NextBefore
    <3>2. p \in W /\ isa[p] = pool[n].key
      BY <1>8, <2>1, <2>3, <3>1
    <3>3. isa[p] < key /\ p # -1
      BY <1>5, <3>1, <3>2
    <3>4. ASSUME NEW q \in W, isa[q] < key PROVE isa[q] <= isa[p]
      <4>1. PICK v \in A : pool[v].key = isa[q]
        BY <1>8
      <4>2. isa[q] <= key
        BY <1>5, <3>4
      <4> QED
        BY <3>1, <3>2, <4>1, <4>2
    <3> QED
      BY <3>2, <3>3, <3>4 DEF Beneath, key
  <2> QED
    BY <2>2, <2>3
<1>10. Atop(W, isa, x, s)
  <2> DEFINE n == near.next
  <2>1. NextAfter(pool, A, key, n) /\ s = IF n = Null THEN -1 ELSE pool[n].info
    BY <1>6, <1>7 DEF Searched
  <2> HIDE DEF n, s
  <2>2. CASE n = Null
    <3>1. \A v \in A : pool[v].key < key
      BY <2>1, <2>2 DEF NextAfter
    <3>2. \A q \in W : ~ (isa[q] > key)
      BY <1>5, <1>8, <3>1
    <3> QED
      BY <2>1, <2>2, <3>2 DEF Atop, key
  <2>3. CASE n # Null
    <3>1. n \in A /\ pool[n].key >= key /\ \A v \in A : pool[v].key >= key => pool[v].key >= pool[n].key
      BY <2>1, <2>3 DEF NextAfter
    <3>2. s \in W /\ isa[s] = pool[n].key
      BY <1>8, <2>1, <2>3, <3>1
    <3>3. isa[s] > key /\ s # -1
      BY <1>5, <3>1, <3>2
    <3>4. ASSUME NEW q \in W, isa[q] > key PROVE isa[q] >= isa[s]
      <4>1. PICK v \in A : pool[v].key = isa[q]
        BY <1>8
      <4>2. isa[q] >= key
        BY <1>5, <3>4
      <4> QED
        BY <3>1, <3>2, <4>1, <4>2
    <3> QED
      BY <3>2, <3>3, <3>4 DEF Atop, key
  <2> QED
    BY <2>2, <2>3
<1> QED
  BY <1>9, <1>10 DEF NearBy, W, x

LEMMA BitmapNeighbours ==
  ASSUME Ranking, Positions, text_pos \in 0 .. (L - 1), BitmapsFor(ps, text_pos), NEW k \in HasBitmap
  PROVE  NearBy(Neighbours(k), k, text_pos)
<1> DEFINE x == text_pos
           W == Win(k, x)
           E == Ranked(isa, W)
           e == isa[x]
           map == ps[k]
           R == L + 1
           near == BitSearch(map, e)
<1>1. k \in 1 .. Len(Dst) /\ ~ (k <= treenum) /\ L \in Nat
  BY TextIs, TreenumIs, Classes1 DEF HasBitmap
<1>2. /\ \A p \in W : p \in Nat /\ isa[p] \in 0 .. (L - 1) /\ sa[isa[p]] = p
      /\ e \in 0 .. (L - 1)
  BY <1>1, WinRanks, PositionIs
<1>3. R \in Nat /\ R > 1 /\ StandsFor(map, R, E) /\ e \in 0 .. (R - 1)
  BY <1>1, <1>2, TextIs DEF BitmapsFor
<1>4. Neighbours(k) = [pred |-> IF near.prev < 0 THEN -1 ELSE sa[near.prev],
                       succ |-> IF near.next < 0 THEN -1 ELSE sa[near.next]]
  BY <1>1 DEF Neighbours
<1> HIDE DEF R, map, E, e
<1>5. PrevIn(E, e, BitSearch(map, e).prev) /\ NextIn(E, e, BitSearch(map, e).next)
  BY <1>3, BitSearchIs
<1> HIDE DEF near, W
<1> DEFINE a == near.prev
           b == near.next
           p == Neighbours(k).pred
           s == Neighbours(k).succ
<1>6. /\ PrevIn(E, e, a) /\ NextIn(E, e, b)
      /\ p = IF a < 0 THEN -1 ELSE sa[a]
      /\ s = IF b < 0 THEN -1 ELSE sa[b]
  BY <1>4, <1>5 DEF near
<1> HIDE DEF a, b, p, s, x
<1>7. Beneath(W, isa, x, p)
  <2>1. CASE a = -1
    <3>1. p = -1 /\ \A y \in E : ~ (y < e)
      BY <1>6, <2>1 DEF PrevIn
    <3> QED
      BY <3>1 DEF Beneath, E, Ranked, e
  <2>2. CASE a # -1
    <3>1. a \in E /\ a < e /\ \A y \in E : y < e => y <= a
      BY <1>6, <2>2 DEF PrevIn
    <3>2. PICK q \in W : a = isa[q]
      BY <3>1 DEF E, Ranked
    <3>3. p = q /\ p # -1
      BY <1>2, <1>6, <3>2
    <3>4. \A y \in W : isa[y] < e => isa[y] <= a
      BY <3>1 DEF E, Ranked
    <3> QED
      BY <3>1, <3>2, <3>3, <3>4 DEF Beneath, e
  <2> QED
    BY <2>1, <2>2
<1>8. Atop(W, isa, x, s)
  <2>1. CASE b = -1
    <3>1. s = -1 /\ \A y \in E : ~ (y > e)
      BY <1>6, <2>1 DEF NextIn
    <3> QED
      BY <3>1 DEF Atop, E, Ranked, e
  <2>2. CASE b # -1
    <3>1. b \in E /\ b > e /\ \A y \in E : y > e => y >= b
      BY <1>6, <2>2 DEF NextIn
    <3>2. PICK q \in W : b = isa[q]
      BY <3>1 DEF E, Ranked
    <3>3. s = q /\ s # -1
      BY <1>2, <1>6, <3>2
    <3>4. \A y \in W : isa[y] > e => isa[y] >= b
      BY <3>1 DEF E, Ranked
    <3> QED
      BY <3>1, <3>2, <3>3, <3>4 DEF Atop, e
  <2> QED
    BY <2>1, <2>2
<1> QED
  BY <1>7, <1>8 DEF NearBy, W, x, p, s
-------------------------------------------------------------------------------
(* Matches.  A length carried for a class is that of the start of a match, *)
(* on the same side, of a position in its window.                          *)
StartsBelow(n, k, x) == n = 0 \/ \E q \in Win(k, x) : isa[q] < isa[x] /\ n <= CommonPrefix(text, q, x)
StartsAbove(n, k, x) == n = 0 \/ \E q \in Win(k, x) : isa[q] > isa[x] /\ n <= CommonPrefix(text, q, x)
MatchesFor(ll, rl, x) ==
  /\ ll \in [1 .. Len(Dst) -> Nat] /\ rl \in [1 .. Len(Dst) -> Nat]
  /\ x < L => \A k \in 1 .. Len(Dst) : StartsBelow(ll[k], k, x) /\ StartsAbove(rl[k], k, x)

LEMMA CommonSize ==
  ASSUME Ranking, NEW p \in 0 .. (L - 1), NEW q \in 0 .. (L - 1)
  PROVE  CommonPrefix(text, p, q) \in Nat
<1> DEFINE c == CommonPrefix(text, p, q)
<1>0. Len(text) \in Nat /\ p \in 0 .. Len(text) /\ q \in 0 .. Len(text)
  BY TextIs DEF L
<1>1. CommonRight(text, p, q, c)
  BY <1>0, CommonIs
<1> HIDE DEF c
<1>2. c \in Nat
  BY <1>1 DEF CommonRight
<1> QED
  BY <1>2 DEF c

Longest(e, k, x, p) ==
  /\ e \in Nat /\ (p = -1 => e = 0)
  /\ p # -1 => p \in Win(k, x) /\ e = CommonPrefix(text, p, x)
LEMMA ExtendIs ==
  ASSUME Ranking, text_pos \in 0 .. (L - 1), NEW k \in 1 .. Len(Dst), NEW n \in Nat,
         NEW p, p # -1 => p \in Win(k, text_pos) /\ n <= CommonPrefix(text, p, text_pos)
  PROVE  Longest(Extend(p, n), k, text_pos, p)
<1> DEFINE x == text_pos
<1>1. CASE p = -1
  <2>1. Extend(p, n) = 0
    BY <1>1 DEF Extend
  <2> QED
    BY <1>1, <2>1 DEF Longest
<1>2. CASE p # -1
  <2>1. /\ p \in 0 .. (L - 1) /\ p < x /\ p \in Nat /\ x \in 0 .. (L - 1)
    BY <1>2, WinRanks
  <2>2. text \in Words /\ p \in Suffixed(text) /\ x \in Suffixed(text)
    BY <2>1, TextIs
  <2> HIDE DEF x
  <2>3. n + CommonPrefix(text, p + n, x + n) = CommonPrefix(text, p, x)
    BY <1>2, <2>1, <2>2, Extends DEF x
  <2>4. Extend(p, n) = n + CommonPrefix(text, p + n, x + n)
    BY <2>1 DEF Extend, x
  <2>5. CommonPrefix(text, p, x) \in Nat
    BY <2>1, CommonSize
  <2> QED
    BY <1>2, <2>3, <2>4, <2>5 DEF Longest, x
<1> QED
  BY <1>1, <1>2

NoneLongerBelow(e, k, x) == \A q \in Win(k, x) : isa[q] < isa[x] => CommonPrefix(text, q, x) <= e
NoneLongerAbove(e, k, x) == \A q \in Win(k, x) : isa[q] > isa[x] => CommonPrefix(text, q, x) <= e
LEMMA LongestBelow ==
  ASSUME Ranking, text_pos \in 0 .. (L - 1), NEW k \in 1 .. Len(Dst), NEW n \in Nat,
         NEW p, Beneath(Win(k, text_pos), isa, text_pos, p), StartsBelow(n, k, text_pos)
  PROVE  /\ Longest(Extend(p, n), k, text_pos, p) /\ StartsBelow(Extend(p, n), k, text_pos)
         /\ NoneLongerBelow(Extend(p, n), k, text_pos)
<1> DEFINE x == text_pos
           W == Win(k, x)
           e == Extend(p, n)
<1>1. /\ W \subseteq 0 .. (L - 1) /\ x \in 0 .. (L - 1) /\ text \in Words /\ RanksRight(text, isa)
      /\ Suffixed(text) = 0 .. (L - 1)
  BY WinRanks, TextIs
<1>2. ASSUME NEW q \in W, isa[q] < isa[x]
      PROVE  p # -1 /\ CommonPrefix(text, q, x) <= CommonPrefix(text, p, x)
  <2>1. p # -1 /\ p \in W /\ isa[p] < isa[x] /\ isa[q] <= isa[p]
    BY <1>2 DEF Beneath
  <2>2. q \in Suffixed(text) /\ p \in Suffixed(text) /\ x \in Suffixed(text)
    BY <1>1, <2>1
  <2> HIDE DEF x, W
  <2>3. CommonPrefix(text, q, x) <= CommonPrefix(text, p, x)
    BY <1>1, <2>1, <2>2, RankedNearer
  <2> QED
    BY <2>1, <2>3
<1>3. p # -1 => p \in W /\ isa[p] < isa[x] /\ p \in 0 .. (L - 1)
  BY <1>1 DEF Beneath
<1>4. ASSUME p # -1 PROVE n <= CommonPrefix(text, p, x) /\ CommonPrefix(text, p, x) \in Nat
  <2>1. CommonPrefix(text, p, x) \in Nat
    BY <1>1, <1>3, <1>4, CommonSize
  <2>2. CASE n = 0
    BY <2>1, <2>2
  <2>3. CASE n # 0
    <3>1. PICK q \in W : isa[q] < isa[x] /\ n <= CommonPrefix(text, q, x)
      BY <2>3 DEF StartsBelow
    <3>2. CommonPrefix(text, q, x) <= CommonPrefix(text, p, x) /\ CommonPrefix(text, q, x) \in Nat
      BY <1>1, <1>2, <3>1, CommonSize
    <3> QED
      BY <2>1, <3>1, <3>2
  <2> QED
    BY <2>1, <2>2, <2>3
<1>5. Longest(e, k, x, p)
  BY <1>3, <1>4, ExtendIs
<1> HIDE DEF e, x, W
<1>6. CASE p = -1
  <2>1. e = 0
    BY <1>5, <1>6 DEF Longest
  <2>2. \A q \in W : ~ (isa[q] < isa[x])
    BY <1>2, <1>6
  <2> QED
    BY <1>5, <2>1, <2>2 DEF StartsBelow, NoneLongerBelow, e, x, W
<1>7. CASE p # -1
  <2>1. e = CommonPrefix(text, p, x) /\ e <= CommonPrefix(text, p, x)
    BY <1>4, <1>5, <1>7 DEF Longest
  <2>2. StartsBelow(e, k, x)
    BY <1>3, <1>7, <2>1 DEF StartsBelow, W
  <2>3. NoneLongerBelow(e, k, x)
    BY <1>2, <2>1 DEF NoneLongerBelow, W
  <2> QED
    BY <1>5, <2>2, <2>3 DEF e, x
<1> QED
  BY <1>6, <1>7

LEMMA LongestAbove ==
  ASSUME Ranking, text_pos \in 0 .. (L - 1), NEW k \in 1 .. Len(Dst), NEW n \in Nat,
         NEW p, Atop(Win(k, text_pos), isa, text_pos, p), StartsAbove(n, k, text_pos)
  PROVE  /\ Longest(Extend(p, n), k, text_pos, p) /\ StartsAbove(Extend(p, n), k, text_pos)
         /\ NoneLongerAbove(Extend(p, n), k, text_pos)
<1> DEFINE x == text_pos
           W == Win(k, x)
           e == Extend(p, n)
<1>1. /\ W \subseteq 0 .. (L - 1) /\ x \in 0 .. (L - 1) /\ text \in Words /\ RanksRight(text, isa)
      /\ Suffixed(text) = 0 .. (L - 1)
      /\ isa \in [0 .. (L - 1) -> 0 .. (L - 1)]
  BY WinRanks, TextIs
<1>2. ASSUME NEW q \in W, isa[q] > isa[x]
      PROVE  p # -1 /\ CommonPrefix(text, q, x) <= CommonPrefix(text, p, x)
  <2>0. p # -1 /\ p \in W /\ isa[p] > isa[x] /\ isa[q] >= isa[p]
    BY <1>2 DEF Atop
  <2>i. isa[p] \in Int /\ isa[q] \in Int /\ isa[x] \in Int
    <3>1. isa[p] \in 0 .. (L - 1) /\ isa[q] \in 0 .. (L - 1) /\ isa[x] \in 0 .. (L - 1)
      BY <1>1, <2>0
    <3> QED
      BY <3>1
  <2>1. isa[x] < isa[p] /\ isa[p] <= isa[q]
    BY <2>0, <2>i
  <2>2. q \in Suffixed(text) /\ p \in Suffixed(text) /\ x \in Suffixed(text)
    BY <1>1, <2>0
  <2> HIDE DEF x, W
  <2>3. CommonPrefix(text, q, x) <= CommonPrefix(text, p, x)
    BY <1>1, <2>1, <2>2, RankedNearer
  <2> QED
    BY <2>0, <2>3
<1>3. p # -1 => p \in W /\ isa[p] > isa[x] /\ p \in 0 .. (L - 1)
  BY <1>1 DEF Atop
<1>4. ASSUME p # -1 PROVE n <= CommonPrefix(text, p, x) /\ CommonPrefix(text, p, x) \in Nat
  <2>1. CommonPrefix(text, p, x) \in Nat
    BY <1>1, <1>3, <1>4, CommonSize
  <2>2. CASE n = 0
    BY <2>1, <2>2
  <2>3. CASE n # 0
    <3>1. PICK q \in W : isa[q] > isa[x] /\ n <= CommonPrefix(text, q, x)
      BY <2>3 DEF StartsAbove
    <3>2. CommonPrefix(text, q, x) <= CommonPrefix(text, p, x) /\ CommonPrefix(text, q, x) \in Nat
      BY <1>1, <1>2, <3>1, CommonSize
    <3> QED
      BY <2>1, <3>1, <3>2
  <2> QED
    BY <2>1, <2>2, <2>3
<1>5. Longest(e, k, x, p)
  BY <1>3, <1>4, ExtendIs
<1> HIDE DEF e, x, W
<1>6. CASE p = -1
  <2>1. e = 0
    BY <1>5, <1>6 DEF Longest
  <2>2. \A q \in W : ~ (isa[q] > isa[x])
    BY <1>2, <1>6
  <2> QED
    BY <1>5, <2>1, <2>2 DEF StartsAbove, NoneLongerAbove, e, x, W
<1>7. CASE p # -1
  <2>1. e = CommonPrefix(text, p, x) /\ e <= CommonPrefix(text, p, x)
    BY <1>4, <1>5, <1>7 DEF Longest
  <2>2. StartsAbove(e, k, x)
    BY <1>3, <1>7, <2>1 DEF StartsAbove, W
  <2>3. NoneLongerAbove(e, k, x)
    BY <1>2, <2>1 DEF NoneLongerAbove, W
  <2> QED
    BY <1>5, <2>2, <2>3 DEF e, x
<1> QED
  BY <1>6, <1>7

(* All that a class offers at x, by distance.                              *)
Offered(k, x) == {[d |-> d, ell |-> MatchLen(text, x, d)] : d \in ClassOf(k) \cap 1 .. x}
LEMMA OfferedIs ==
  ASSUME Ranking, NEW x \in 0 .. (L - 1), NEW k \in 1 .. Len(Dst)
  PROVE  Offered(k, x) = {[d |-> x - p, ell |-> CommonPrefix(text, p, x)] : p \in Win(k, x)}
<1> DEFINE D == ClassOf(k) \cap 1 .. x
           m(d) == [d |-> d, ell |-> MatchLen(text, x, d)]
           c(p) == [d |-> x - p, ell |-> CommonPrefix(text, p, x)]
<1>1. /\ L \in Nat /\ x \in Nat /\ text \in Words /\ Suffixed(text) = 0 .. (L - 1) /\ Win(k, x) \subseteq 0 .. (L - 1)
  BY TextIs, WinRanks
<1>2. ASSUME NEW p \in Win(k, x) PROVE x - p \in D /\ c(p) = m(x - p)
  <2>1. p \in 0 .. (x - 1) /\ x - p \in ClassOf(k) /\ p \in 0 .. (L - 1)
    BY <1>1 DEF Win
  <2>2. x - p \in 1 .. x /\ p < x
    BY <1>1, <2>1
  <2>3. MatchLen(text, x, x - p) = CommonPrefix(text, p, x)
    BY <1>1, <2>1, <2>2, MatchIs
  <2> QED
    BY <2>1, <2>2, <2>3
<1>3. ASSUME NEW d \in D PROVE x - d \in Win(k, x) /\ x - (x - d) = d
  <2>1. d \in 1 .. x /\ d \in ClassOf(k)
    OBVIOUS
  <2>2. x - d \in 0 .. (x - 1) /\ x - (x - d) = d
    BY <1>1, <2>1
  <2> QED
    BY <2>1, <2>2 DEF Win
<1>4. Offered(k, x) = {m(d) : d \in D}
  BY DEF Offered
<1> HIDE DEF m, c, D
<1>5. {m(d) : d \in D} = {c(p) : p \in Win(k, x)}
  <2>1. ASSUME NEW d \in D PROVE m(d) \in {c(p) : p \in Win(k, x)}
    <3> DEFINE p == x - d
    <3>1. p \in Win(k, x) /\ x - p = d
      BY <1>3
    <3> HIDE DEF p
    <3>2. c(p) = m(d)
      BY <1>2, <3>1
    <3> QED
      BY <3>1, <3>2
  <2>2. ASSUME NEW p \in Win(k, x) PROVE c(p) \in {m(d) : d \in D}
    BY <1>2
  <2> QED
    BY <2>1, <2>2
<1> QED
  BY <1>4, <1>5 DEF c

LEMMA NothingOffered ==
  ASSUME NEW k, NEW x, \A m \in Offered(k, x) : ~ (m.ell > 0)
  PROVE  NoMatch \in MaxMatch(text, x, k)
<1> DEFINE all == Offered(k, x)
           best == {m \in all : m.ell > 0 /\ \A n \in all : n.ell <= m.ell}
<1>1. MaxMatch(text, x, k) = IF best = {} THEN {NoMatch} ELSE best
  BY DEF MaxMatch, Offered
<1>2. best = {}
  OBVIOUS
<1> HIDE DEF best
<1> QED
  BY <1>1, <1>2

LEMMA BestOffered ==
  ASSUME NEW k, NEW x, NEW m \in Offered(k, x), m.ell > 0, \A n \in Offered(k, x) : n.ell <= m.ell
  PROVE  m \in MaxMatch(text, x, k)
<1> DEFINE all == Offered(k, x)
           best == {e \in all : e.ell > 0 /\ \A n \in all : n.ell <= e.ell}
<1>1. MaxMatch(text, x, k) = IF best = {} THEN {NoMatch} ELSE best
  BY DEF MaxMatch, Offered
<1>2. m \in best
  OBVIOUS
<1> HIDE DEF best
<1> QED
  BY <1>1, <1>2

(* The longer of the two matches is a longest one of the class.            *)
Answers(match, k, x) ==
  \/ match.ell = 0 /\ NoMatch \in MaxMatch(text, x, k)
  \/ match \in MaxMatch(text, x, k)
LEMMA MatchFound ==
  ASSUME Ranking, text_pos \in 0 .. (L - 1), NEW k \in 1 .. Len(Dst),
         NEW near, NEW l, NEW r, Longest(l, k, text_pos, near.pred), Longest(r, k, text_pos, near.succ),
         NoneLongerBelow(l, k, text_pos), NoneLongerAbove(r, k, text_pos)
  PROVE  Answers(MatchOf(near, l, r), k, text_pos)
<1> DEFINE x == text_pos
           match == MatchOf(near, l, r)
           p == IF l >= r THEN near.pred ELSE near.succ
           e == IF l >= r THEN l ELSE r
<1>1. l \in Nat /\ r \in Nat /\ l <= e /\ r <= e /\ e \in Nat
  BY DEF Longest
<1>2. match = [d |-> x - p, ell |-> e] /\ Longest(e, k, x, p)
  BY DEF MatchOf
<1> HIDE DEF match, p, e
<1>3. Offered(k, x) = {[d |-> x - q, ell |-> CommonPrefix(text, q, x)] : q \in Win(k, x)}
  BY OfferedIs
<1>4. ASSUME NEW q \in Win(k, x) PROVE CommonPrefix(text, q, x) <= e
  <2>1. /\ isa[q] \in 0 .. (L - 1) /\ isa[q] # isa[x] /\ isa[x] \in 0 .. (L - 1) /\ q \in 0 .. (L - 1) /\ L \in Nat
    BY WinRanks, TextIs
  <2>2. isa[q] < isa[x] \/ isa[q] > isa[x]
    BY <2>1
  <2>3. CommonPrefix(text, q, x) \in Nat
    BY <2>1, CommonSize
  <2>4. CommonPrefix(text, q, x) <= l \/ CommonPrefix(text, q, x) <= r
    BY <2>2 DEF NoneLongerBelow, NoneLongerAbove
  <2> QED
    BY <1>1, <2>3, <2>4
<1>5. \A n \in Offered(k, x) : n.ell <= e
  BY <1>3, <1>4
<1>6. match.ell = e
  BY <1>2
<1>7. CASE e = 0
  <2>1. \A q \in Win(k, x) : ~ (CommonPrefix(text, q, x) > 0)
    <3>1. \A q \in Win(k, x) : CommonPrefix(text, q, x) \in Nat /\ CommonPrefix(text, q, x) <= 0
      BY <1>4, <1>7, WinRanks, CommonSize
    <3> QED
      BY <3>1
  <2>2. \A n \in Offered(k, x) : ~ (n.ell > 0)
    BY <1>3, <2>1
  <2>3. NoMatch \in MaxMatch(text, x, k)
    <3> HIDE DEF x
    <3> QED
      BY <2>2, NothingOffered
  <2> QED
    BY <1>6, <1>7, <2>3 DEF Answers, match
<1>8. CASE e # 0
  <2>1. p \in Win(k, x) /\ e = CommonPrefix(text, p, x) /\ e > 0
    BY <1>1, <1>2, <1>8 DEF Longest
  <2>2. match \in Offered(k, x)
    BY <1>2, <1>3, <2>1
  <2>3. match \in MaxMatch(text, x, k)
    <3> HIDE DEF x
    <3> QED
      BY <1>5, <1>6, <2>1, <2>2, BestOffered
  <2> QED
    BY <2>3 DEF Answers, match
<1> QED
  BY <1>7, <1>8

(* A match of no symbol is no match to the mesh.                           *)
LEMMA LevelOfNone ==
  ASSUME NEW m, m.maxlen \in Nat, NEW match, match.ell = 0
  PROVE  Level(m, match) = Level(m, NoMatch)
<1>1. Last(Lens) \in Nat \ {0}
  BY LastLen
<1>2. ~ (0 > m.maxlen) /\ ~ (0 >= Last(Lens))
  BY <1>1
<1>3. NoMatch.ell = 0
  BY DEF NoMatch
<1> QED
  BY <1>2, <1>3 DEF Level

(* One symbol later the matches carried are one symbol shorter.            *)
LEMMA MatchesLater ==
  ASSUME Ranking, text_pos \in 0 .. (L - 1), MatchesFor(llmatch, rlmatch, text_pos),
         NEW ll, ll = [k \in DOMAIN Dst |-> Shorter(llmatch[k])],
         NEW rl, rl = [k \in DOMAIN Dst |-> Shorter(rlmatch[k])]
  PROVE  MatchesFor(ll, rl, text_pos + 1)
<1> DEFINE x == text_pos
           y == x + 1
<1>1. /\ DOMAIN Dst = 1 .. Len(Dst) /\ L \in Nat /\ text \in Words /\ RanksRight(text, isa)
      /\ Suffixed(text) = 0 .. (L - 1) /\ isa \in [0 .. (L - 1) -> 0 .. (L - 1)] /\ x \in Nat
  BY TextIs, Classes1
<1>2. /\ llmatch \in [1 .. Len(Dst) -> Nat] /\ rlmatch \in [1 .. Len(Dst) -> Nat]
      /\ \A k \in 1 .. Len(Dst) : StartsBelow(llmatch[k], k, x) /\ StartsAbove(rlmatch[k], k, x)
  BY <1>1 DEF MatchesFor
<1>3. ll \in [1 .. Len(Dst) -> Nat] /\ rl \in [1 .. Len(Dst) -> Nat]
  <2>1. \A n \in Nat : Shorter(n) \in Nat
    BY DEF Shorter
  <2>2. \A k \in 1 .. Len(Dst) : Shorter(llmatch[k]) \in Nat /\ Shorter(rlmatch[k]) \in Nat
    BY <1>2, <2>1
  <2> QED
    BY <1>1, <2>2
<1>4. ASSUME y < L, NEW k \in 1 .. Len(Dst), NEW q \in Win(k, x), CommonPrefix(text, q, x) > 0
      PROVE  /\ q + 1 \in Win(k, y) /\ CommonPrefix(text, q + 1, y) = CommonPrefix(text, q, x) - 1
             /\ isa[q] < isa[x] => isa[q + 1] < isa[y]
             /\ isa[q] > isa[x] => isa[q + 1] > isa[y]
  <2> DEFINE s == q + 1
  <2>1. q \in 0 .. (x - 1) /\ x - q \in ClassOf(k) /\ q \in 0 .. (L - 1)
    BY <1>1, WinRanks DEF Win
  <2>2. s \in 0 .. (y - 1) /\ y - s = x - q /\ s \in 0 .. (L - 1) /\ y \in 0 .. (L - 1) /\ q # x
    BY <1>1, <1>4, <2>1
  <2>3. s \in Win(k, y)
    BY <2>1, <2>2 DEF Win
  <2>4. /\ q + 1 \in Suffixed(text) /\ x + 1 \in Suffixed(text) /\ q \in Suffixed(text) /\ x \in Suffixed(text)
    BY <1>1, <2>1, <2>2
  <2>5. /\ CommonPrefix(text, q + 1, x + 1) = CommonPrefix(text, q, x) - 1
        /\ isa[q] < isa[x] => isa[q + 1] < isa[x + 1]
        /\ isa[x] < isa[q] => isa[x + 1] < isa[q + 1]
    <3> HIDE DEF x
    <3> QED
      BY <1>1, <1>4, <2>2, <2>4, RankedLater
  <2>6. isa[q] \in Int /\ isa[x] \in Int /\ isa[s] \in Int /\ isa[y] \in Int
    <3>1. isa[q] \in 0 .. (L - 1) /\ isa[x] \in 0 .. (L - 1) /\ isa[s] \in 0 .. (L - 1) /\ isa[y] \in 0 .. (L - 1)
      BY <1>1, <2>1, <2>2
    <3> QED
      BY <3>1
  <2> QED
    BY <2>3, <2>5, <2>6
<1> HIDE DEF x, y
<1>5. ASSUME y < L, NEW k \in 1 .. Len(Dst) PROVE StartsBelow(ll[k], k, y)
  <2> DEFINE n == llmatch[k]
  <2>1. n \in Nat /\ ll[k] = Shorter(n) /\ StartsBelow(n, k, x)
    BY <1>1, <1>2
  <2> HIDE DEF n
  <2>2. CASE n = 0
    BY <2>1, <2>2 DEF Shorter, StartsBelow
  <2>3. CASE n # 0
    <3>1. ll[k] = n - 1
      BY <2>1, <2>3 DEF Shorter
    <3>2. PICK q \in Win(k, x) : isa[q] < isa[x] /\ n <= CommonPrefix(text, q, x)
      BY <2>1, <2>3 DEF StartsBelow
    <3>3. CommonPrefix(text, q, x) \in Nat /\ CommonPrefix(text, q, x) > 0
      <4>1. CommonPrefix(text, q, x) \in Nat
        BY WinRanks, CommonSize DEF x
      <4> QED
        BY <2>1, <2>3, <3>2, <4>1
    <3>4. /\ q + 1 \in Win(k, y) /\ CommonPrefix(text, q + 1, y) = CommonPrefix(text, q, x) - 1
          /\ isa[q + 1] < isa[y]
      BY <1>4, <1>5, <3>2, <3>3
    <3>5. n - 1 <= CommonPrefix(text, q + 1, y)
      BY <2>1, <3>2, <3>3, <3>4
    <3> QED
      BY <3>1, <3>4, <3>5 DEF StartsBelow
  <2> QED
    BY <2>2, <2>3
<1>6. ASSUME y < L, NEW k \in 1 .. Len(Dst) PROVE StartsAbove(rl[k], k, y)
  <2> DEFINE n == rlmatch[k]
  <2>1. n \in Nat /\ rl[k] = Shorter(n) /\ StartsAbove(n, k, x)
    BY <1>1, <1>2
  <2> HIDE DEF n
  <2>2. CASE n = 0
    BY <2>1, <2>2 DEF Shorter, StartsAbove
  <2>3. CASE n # 0
    <3>1. rl[k] = n - 1
      BY <2>1, <2>3 DEF Shorter
    <3>2. PICK q \in Win(k, x) : isa[q] > isa[x] /\ n <= CommonPrefix(text, q, x)
      BY <2>1, <2>3 DEF StartsAbove
    <3>3. CommonPrefix(text, q, x) \in Nat /\ CommonPrefix(text, q, x) > 0
      <4>1. CommonPrefix(text, q, x) \in Nat
        BY WinRanks, CommonSize DEF x
      <4> QED
        BY <2>1, <2>3, <3>2, <4>1
    <3>4. /\ q + 1 \in Win(k, y) /\ CommonPrefix(text, q + 1, y) = CommonPrefix(text, q, x) - 1
          /\ isa[q + 1] > isa[y]
      BY <1>4, <1>6, <3>2, <3>3
    <3>5. n - 1 <= CommonPrefix(text, q + 1, y)
      BY <2>1, <3>2, <3>3, <3>4
    <3> QED
      BY <3>1, <3>4, <3>5 DEF StartsAbove
  <2> QED
    BY <2>2, <2>3
<1>7. MatchesFor(ll, rl, y)
  BY <1>3, <1>5, <1>6 DEF MatchesFor
<1> QED
  BY <1>7 DEF y, x
-------------------------------------------------------------------------------
(* Steps of a position.  The windows are those of the position in hand, or *)
(* between positions those of the one before.                              *)
Now == IF pc = "match" THEN text_pos ELSE IF text_pos = 0 THEN 0 ELSE text_pos - 1

Counting ==
  /\ text_pos \in 0 .. L /\ level \in Nat /\ pc \in {"pre", "match"}
  /\ pc = "match" => text_pos < L
MeshFor ==
  pc = "match" => level \in 1 .. (Levels(text_pos) + 1) /\ MeshOK(text, text_pos, level - 1, mesh)

WindowsInv ==
  /\ Ranking /\ Positions /\ Counting
  /\ TreesFor(pool, t, released, Now) /\ BitmapsFor(ps, Now)
  /\ MatchesFor(llmatch, rlmatch, text_pos) /\ MeshFor

(* Whichever structure a class has, the neighbours are the ranks next to   *)
(* that of the current position.                                           *)
LEMMA NeighboursAre ==
  ASSUME Ranking, Positions, text_pos \in 0 .. (L - 1), NEW k \in 1 .. Len(Dst),
         TreesFor(pool, t, released, text_pos), BitmapsFor(ps, text_pos)
  PROVE  NearBy(Neighbours(k), k, text_pos)
<1>1. k \in HasTree \/ k \in HasBitmap
  <2>1. treenum \in Nat /\ k \in Nat /\ Len(Dst) \in Nat
    BY TreenumIs, Classes1
  <2> QED
    BY <2>1 DEF HasTree, HasBitmap
<1> QED
  BY <1>1, TreeNeighbours, BitmapNeighbours

(* A position without neighbours has an empty window.                      *)
LEMMA NoneOffered ==
  ASSUME Ranking, text_pos \in 0 .. (L - 1), NEW k \in 1 .. Len(Dst),
         NearBy([pred |-> -1, succ |-> -1], k, text_pos)
  PROVE  NoMatch \in MaxMatch(text, text_pos, k)
<1> DEFINE x == text_pos
           W == Win(k, x)
<1>1. Beneath(W, isa, x, -1) /\ Atop(W, isa, x, -1)
  BY DEF NearBy
<1>2. \A p \in W : ~ (isa[p] < isa[x]) /\ ~ (isa[p] > isa[x])
  BY <1>1 DEF Beneath, Atop
<1>3. ASSUME NEW p \in W PROVE FALSE
  <2>1. isa[p] \in 0 .. (L - 1) /\ isa[p] # isa[x] /\ isa[x] \in Int /\ L \in Nat
    BY WinRanks, TextIs
  <2> QED
    BY <1>2, <2>1
<1>4. W = {}
  BY <1>3
<1>5. Offered(k, x) = {[d |-> x - p, ell |-> CommonPrefix(text, p, x)] : p \in W}
  BY OfferedIs
<1>6. \A m \in Offered(k, x) : ~ (m.ell > 0)
  BY <1>4, <1>5
<1> HIDE DEF x, W
<1>7. NoMatch \in MaxMatch(text, x, k)
  BY <1>6, NothingOffered
<1> QED
  BY <1>7 DEF x

(* The next level is one of the position, and its match goes to the mesh.  *)
LEMMA MeshMoves ==
  ASSUME Ranking, Counting, MeshFor, pc = "match", MoreLevels
  PROVE  /\ level \in 1 .. Levels(text_pos) /\ level \in 1 .. Len(Dst) /\ mesh.maxlen \in Nat
         /\ \A match : Answers(match, level, text_pos) =>
              MeshOK(text, text_pos, (level + 1) - 1, Level(mesh, match))
<1> DEFINE x == text_pos
           n == level - 1
           k == n + 1
<1>1. /\ L \in Nat /\ x \in 0 .. L /\ x \in Nat /\ Levels(x) \in 1 .. Len(Dst) /\ Len(Dst) \in Nat
  BY TextIs, LevelsAre, Classes1 DEF Counting
<1>2. level \in 1 .. Levels(x) /\ ~ mesh.stopped /\ MeshOK(text, x, n, mesh)
  BY <1>1 DEF MeshFor, MoreLevels, Counting
<1>3. level \in 1 .. Len(Dst) /\ n \in 0 .. (Len(Dst) - 1) /\ k = level /\ (level + 1) - 1 = k
  BY <1>1, <1>2
<1>4. mesh.maxlen \in Nat
  BY <1>2 DEF MeshOK, MeshType
<1>5. ASSUME NEW match, Answers(match, level, x) PROVE MeshOK(text, x, k, Level(mesh, match))
  <2>1. x \in 0 .. Len(text) /\ Len(text) \in Nat
    BY <1>1 DEF L
  <2> HIDE DEF x, n
  <2>2. ASSUME NEW q \in MaxMatch(text, x, n + 1) PROVE MeshOK(text, x, n + 1, Level(mesh, q))
    BY <1>2, <1>3, <2>1, <2>2, MeshStep
  <2>3. CASE match \in MaxMatch(text, x, n + 1)
    BY <2>2, <2>3
  <2>4. CASE match.ell = 0 /\ NoMatch \in MaxMatch(text, x, n + 1)
    <3>1. Level(mesh, match) = Level(mesh, NoMatch)
      BY <1>4, <2>4, LevelOfNone
    <3> QED
      BY <2>2, <2>4, <3>1
  <2> QED
    BY <1>3, <1>5, <2>3, <2>4 DEF Answers
<1> QED
  BY <1>2, <1>3, <1>4, <1>5 DEF x

(* The two matches extended: the longer one is a longest match of the      *)
(* class, and both are still below and above.                              *)
LEMMA MatchesExtended ==
  ASSUME Ranking, text_pos \in 0 .. (L - 1), NEW k \in 1 .. Len(Dst),
         NEW near, NearBy(near, k, text_pos), MatchesFor(llmatch, rlmatch, text_pos),
         NEW l, l = Extend(near.pred, llmatch[k]), NEW r, r = Extend(near.succ, rlmatch[k])
  PROVE  /\ Answers(MatchOf(near, l, r), k, text_pos)
         /\ MatchesFor([llmatch EXCEPT ![k] = l], [rlmatch EXCEPT ![k] = r], text_pos)
<1> DEFINE x == text_pos
           n == llmatch[k]
           m == rlmatch[k]
           p == near.pred
           s == near.succ
<1>1. /\ Beneath(Win(k, text_pos), isa, text_pos, p) /\ Atop(Win(k, text_pos), isa, text_pos, s)
  BY DEF NearBy
<1>2. /\ L \in Nat /\ text_pos < L
      /\ llmatch \in [1 .. Len(Dst) -> Nat] /\ rlmatch \in [1 .. Len(Dst) -> Nat]
      /\ \A j \in 1 .. Len(Dst) : StartsBelow(llmatch[j], j, text_pos) /\ StartsAbove(rlmatch[j], j, text_pos)
  BY TextIs DEF MatchesFor
<1>3. n \in Nat /\ m \in Nat /\ StartsBelow(n, k, text_pos) /\ StartsAbove(m, k, text_pos)
  BY <1>2
<1> HIDE DEF n, m, p, s
<1>4. Longest(l, k, text_pos, p) /\ StartsBelow(l, k, text_pos) /\ NoneLongerBelow(l, k, text_pos)
  <2>1. /\ Longest(Extend(p, n), k, text_pos, p) /\ StartsBelow(Extend(p, n), k, text_pos)
        /\ NoneLongerBelow(Extend(p, n), k, text_pos)
    BY <1>1, <1>3, LongestBelow
  <2> QED
    BY <2>1 DEF p, n
<1>5. Longest(r, k, text_pos, s) /\ StartsAbove(r, k, text_pos) /\ NoneLongerAbove(r, k, text_pos)
  <2>1. /\ Longest(Extend(s, m), k, text_pos, s) /\ StartsAbove(Extend(s, m), k, text_pos)
        /\ NoneLongerAbove(Extend(s, m), k, text_pos)
    BY <1>1, <1>3, LongestAbove
  <2> QED
    BY <2>1 DEF s, m
<1>6. Answers(MatchOf(near, l, r), k, text_pos)
  BY <1>4, <1>5, MatchFound DEF p, s
<1>7. l \in Nat /\ r \in Nat
  BY <1>4, <1>5 DEF Longest
<1> DEFINE ll == [llmatch EXCEPT ![k] = l]
           rl == [rlmatch EXCEPT ![k] = r]
<1>8. ll \in [1 .. Len(Dst) -> Nat] /\ rl \in [1 .. Len(Dst) -> Nat]
  BY <1>2, <1>7
<1>9. \A j \in 1 .. Len(Dst) : StartsBelow(ll[j], j, text_pos) /\ StartsAbove(rl[j], j, text_pos)
  BY <1>2, <1>4, <1>5
<1>10. MatchesFor(ll, rl, text_pos)
  <2> HIDE DEF ll, rl
  <2> QED
    BY <1>8, <1>9 DEF MatchesFor
<1> QED
  BY <1>6, <1>10

-------------------------------------------------------------------------------
(* The invariant.                                                          *)

LEMMA InitWindows == Init => WindowsInv
<1> SUFFICES ASSUME Init PROVE WindowsInv
  OBVIOUS
<1>1. Ranking /\ Positions
  BY DEF Init, Ranking, Positions
<1>2. L \in Nat \ {0} /\ DOMAIN Dst = 1 .. Len(Dst) /\ Now = 0 /\ text_pos = 0
  BY <1>1, TextIs, Classes1 DEF Init, Now
<1>3. Counting /\ MeshFor
  BY <1>2 DEF Init, Counting, MeshFor
<1>4. TreesFor(pool, t, released, Now)
  <2>1. TreesFor(pool, t, released, 0)
    BY <1>1, TreesStart DEF Init
  <2> QED
    BY <1>2, <2>1
<1>5. BitmapsFor(ps, Now)
  <2>1. BitmapsFor([k \in HasBitmap |-> EmptyBitmap(L + 1)], 0)
    BY <1>1, BitmapsStart
  <2>2. ps = [k \in HasBitmap |-> EmptyBitmap(L + 1)]
    BY DEF Init, HasBitmap
  <2> QED
    BY <1>2, <2>1, <2>2
<1>6. MatchesFor(llmatch, rlmatch, text_pos)
  <2>1. llmatch = [k \in 1 .. Len(Dst) |-> 0] /\ rlmatch = llmatch
    BY <1>2 DEF Init
  <2> QED
    BY <2>1 DEF MatchesFor, StartsBelow, StartsAbove
<1> QED
  BY <1>1, <1>3, <1>4, <1>5, <1>6 DEF WindowsInv

(* The parts of the invariant that a step keeps as they are: the text, its *)
(* ranks, and what the windows have when neither they nor the position in  *)
(* hand change.                                                            *)
LEMMA SameText ==
  ASSUME Ranking, Positions, UNCHANGED <<text, isa, sa>>
  PROVE  Ranking' /\ Positions'
BY DEF Ranking, Positions, L

LEMMA TreesKept ==
  ASSUME UNCHANGED <<text, isa>>, TreesFor(pool', t', released', Now')
  PROVE  TreesFor(pool, t, released, Now)'
BY DEF TreesFor, TreesHold, HasTree, Pool, WinsAt, treenum, L

LEMMA BitmapsKept ==
  ASSUME UNCHANGED <<text, isa>>, BitmapsFor(ps', Now')
  PROVE  BitmapsFor(ps, Now)'
BY DEF BitmapsFor, HasBitmap, treenum, L

LEMMA MatchesKept ==
  ASSUME UNCHANGED <<text, isa>>, MatchesFor(llmatch', rlmatch', text_pos')
  PROVE  MatchesFor(llmatch, rlmatch, text_pos)'
BY DEF MatchesFor, StartsBelow, StartsAbove, L

(* PreGen brings the windows to the position, and starts its mesh.         *)
LEMMA PreGenKeeps == WindowsInv /\ PreGen => WindowsInv'
<1> SUFFICES ASSUME WindowsInv, PreGen PROVE WindowsInv'
  OBVIOUS
<1>1. /\ Ranking /\ Positions /\ Counting /\ TreesFor(pool, t, released, Now) /\ BitmapsFor(ps, Now)
      /\ MatchesFor(llmatch, rlmatch, text_pos)
  BY DEF WindowsInv
<1>2. /\ pc = "pre" /\ text_pos < L /\ mesh' = Reset /\ level' = 1 /\ pc' = "match"
      /\ text' = text /\ isa' = isa /\ sa' = sa /\ llmatch' = llmatch /\ rlmatch' = rlmatch
      /\ text_pos' = text_pos
      /\ IF text_pos = 0 THEN UNCHANGED windows ELSE UpdateTrees /\ UpdateBitmaps
  BY DEF PreGen
<1>3. L \in Nat \ {0} /\ text_pos \in 0 .. (L - 1) /\ text_pos \in Nat /\ L' = L /\ L = Len(text)
  <2>1. L \in Nat \ {0}
    BY <1>1, TextIs
  <2> QED
    BY <1>1, <1>2, <2>1 DEF Counting, L
<1>4. Now' = text_pos /\ Now = IF text_pos = 0 THEN 0 ELSE text_pos - 1
  BY <1>2 DEF Now
<1>5. Ranking' /\ Positions'
  BY <1>1, <1>2, SameText
<1>6. Counting'
  BY <1>2, <1>3 DEF Counting
<1>7. TreesFor(pool', t', released', text_pos) /\ BitmapsFor(ps', text_pos)
  <2>1. CASE text_pos = 0
    <3>1. pool' = pool /\ t' = t /\ released' = released /\ ps' = ps
      BY <1>2, <2>1 DEF windows
    <3> QED
      BY <1>1, <1>4, <2>1, <3>1
  <2>2. CASE text_pos # 0
    <3>1. text_pos \in 1 .. L /\ UpdateTrees /\ UpdateBitmaps
      BY <1>2, <1>3, <2>2
    <3>2. TreesFor(pool, t, released, text_pos - 1) /\ BitmapsFor(ps, text_pos - 1)
      BY <1>1, <1>4, <2>2
    <3>3. TreesFor(pool', t', released', text_pos)
      BY <1>1, <3>1, <3>2, TreesMove
    <3>4. BitmapsFor(ps', text_pos)
      BY <1>1, <3>1, <3>2, BitmapsMove
    <3> QED
      BY <3>3, <3>4
  <2> QED
    BY <2>1, <2>2
<1>8. TreesFor(pool, t, released, Now)'
  BY <1>2, <1>4, <1>7, TreesKept
<1>9. BitmapsFor(ps, Now)'
  BY <1>2, <1>4, <1>7, BitmapsKept
<1>10. MatchesFor(llmatch, rlmatch, text_pos)'
  BY <1>1, <1>2, MatchesKept
<1>11. MeshFor'
  <2>1. Levels(text_pos) \in Nat
    <3>1. Levels(text_pos) \in 1 .. Len(Dst)
      BY <1>3, LevelsAre
    <3> QED
      BY <3>1
  <2>2. MeshOK(text, text_pos, 0, Reset)
    BY MeshStart
  <2>3. level' - 1 = 0 /\ level' \in 1 .. (Levels(text_pos) + 1)
    BY <1>2, <2>1
  <2>4. MeshOK(text', text_pos', level' - 1, mesh') /\ level' \in 1 .. (Levels(text_pos') + 1)
    BY <1>2, <2>2, <2>3
  <2> QED
    BY <2>4 DEF MeshFor
<1> QED
  BY <1>5, <1>6, <1>8, <1>9, <1>10, <1>11 DEF WindowsInv

(* A turn of the loop over the classes gives the mesh an answer, and moves *)
(* nothing but the lengths of its two matches.                             *)
LEMMA LevelKeeps ==
  ASSUME WindowsInv, pc = "match", MoreLevels, NEW match, Answers(match, level, text_pos), Use(match),
         MatchesFor(llmatch', rlmatch', text_pos), UNCHANGED <<text, isa, sa, windows, text_pos, edges, pc>>
  PROVE  WindowsInv'
<1>1. /\ Ranking /\ Positions /\ Counting /\ TreesFor(pool, t, released, Now) /\ BitmapsFor(ps, Now)
      /\ MeshFor
  BY DEF WindowsInv
<1>2. /\ mesh' = Level(mesh, match) /\ level' = level + 1
      /\ text' = text /\ isa' = isa /\ sa' = sa /\ text_pos' = text_pos /\ pc' = pc
      /\ pool' = pool /\ t' = t /\ released' = released /\ ps' = ps /\ Now' = Now
  BY DEF Use, windows, Now
<1>3. /\ level \in 1 .. Levels(text_pos)
      /\ MeshOK(text, text_pos, (level + 1) - 1, Level(mesh, match))
  BY <1>1, MeshMoves
<1>4. Ranking' /\ Positions'
  BY <1>1, <1>2, SameText
<1>5. Counting'
  <2>1. level' \in Nat /\ L' = L
    BY <1>1, <1>2 DEF Counting, L
  <2> QED
    BY <1>1, <1>2, <2>1 DEF Counting
<1>6. TreesFor(pool, t, released, Now)'
  BY <1>1, <1>2, TreesKept
<1>7. BitmapsFor(ps, Now)'
  BY <1>1, <1>2, BitmapsKept
<1>8. MatchesFor(llmatch, rlmatch, text_pos)'
  BY <1>2, MatchesKept
<1>9. MeshFor'
  <2>1. Levels(text_pos) \in Nat
    <3>1. text_pos \in Nat
      BY <1>1 DEF Counting
    <3> QED
      BY <3>1, LevelsAre
  <2>2. level' \in 1 .. (Levels(text_pos') + 1)
    BY <1>2, <1>3, <2>1
  <2>3. MeshOK(text', text_pos', level' - 1, mesh')
    BY <1>2, <1>3
  <2> QED
    BY <2>2, <2>3 DEF MeshFor
<1> QED
  BY <1>4, <1>5, <1>6, <1>7, <1>8, <1>9 DEF WindowsInv

(* What a turn of the loop knows.                                          *)
LEMMA AtLevel ==
  ASSUME WindowsInv, pc = "match", MoreLevels
  PROVE  /\ Ranking /\ text_pos \in 0 .. (L - 1) /\ level \in 1 .. Len(Dst)
         /\ NearBy(Neighbours(level), level, text_pos) /\ MatchesFor(llmatch, rlmatch, text_pos)
<1>1. /\ Ranking /\ Positions /\ Counting /\ TreesFor(pool, t, released, Now) /\ BitmapsFor(ps, Now)
      /\ MeshFor /\ MatchesFor(llmatch, rlmatch, text_pos) /\ Now = text_pos
  BY DEF WindowsInv, Now
<1>2. text_pos \in 0 .. (L - 1)
  <2>1. L \in Nat
    BY <1>1, TextIs
  <2> QED
    BY <1>1, <2>1 DEF Counting
<1>3. level \in 1 .. Len(Dst)
  BY <1>1, MeshMoves
<1>4. TreesFor(pool, t, released, text_pos) /\ BitmapsFor(ps, text_pos)
  BY <1>1
<1>5. NearBy(Neighbours(level), level, text_pos)
  BY <1>1, <1>2, <1>3, <1>4, NeighboursAre
<1> QED
  BY <1>1, <1>2, <1>3, <1>5

LEMMA NoNeighbourKeeps == WindowsInv /\ NoNeighbour => WindowsInv'
<1> SUFFICES ASSUME WindowsInv, NoNeighbour PROVE WindowsInv'
  OBVIOUS
<1>1. /\ pc = "match" /\ MoreLevels /\ Neighbours(level) = [pred |-> -1, succ |-> -1] /\ Use(NoMatch)
      /\ UNCHANGED <<text, isa, sa, windows, text_pos, edges, pc>>
      /\ llmatch' = llmatch /\ rlmatch' = rlmatch
  BY DEF NoNeighbour
<1>2. /\ Ranking /\ text_pos \in 0 .. (L - 1) /\ level \in 1 .. Len(Dst)
      /\ NearBy([pred |-> -1, succ |-> -1], level, text_pos) /\ MatchesFor(llmatch', rlmatch', text_pos)
  BY <1>1, AtLevel
<1>3. NoMatch \in MaxMatch(text, text_pos, level)
  BY <1>2, NoneOffered
<1>4. Answers(NoMatch, level, text_pos)
  BY <1>3 DEF Answers
<1> QED
  BY <1>1, <1>2, <1>4, LevelKeeps

LEMMA LongestMatchKeeps == WindowsInv /\ LongestMatch => WindowsInv'
<1> SUFFICES ASSUME WindowsInv, LongestMatch PROVE WindowsInv'
  OBVIOUS
<1> DEFINE near == Neighbours(level)
           l == Extend(near.pred, llmatch[level])
           r == Extend(near.succ, rlmatch[level])
           match == MatchOf(near, l, r)
<1>1. pc = "match" /\ MoreLevels /\ UNCHANGED <<text, isa, sa, windows, text_pos, edges, pc>>
  BY DEF LongestMatch
<1>2. /\ Ranking /\ text_pos \in 0 .. (L - 1) /\ level \in 1 .. Len(Dst)
      /\ NearBy(near, level, text_pos) /\ MatchesFor(llmatch, rlmatch, text_pos)
  BY <1>1, AtLevel
<1>3. level \in DOMAIN llmatch /\ level \in DOMAIN rlmatch
  BY <1>2 DEF MatchesFor
<1>4. /\ llmatch' = [llmatch EXCEPT ![level] = l] /\ rlmatch' = [rlmatch EXCEPT ![level] = r]
      /\ Use(MatchOf(near, llmatch'[level], rlmatch'[level]))
  BY DEF LongestMatch
<1> HIDE DEF l, r
<1>5. llmatch'[level] = l /\ rlmatch'[level] = r
  BY <1>3, <1>4
<1>6. Use(match)
  BY <1>4, <1>5
<1> HIDE DEF near
<1>7. /\ Answers(MatchOf(near, l, r), level, text_pos)
      /\ MatchesFor([llmatch EXCEPT ![level] = l], [rlmatch EXCEPT ![level] = r], text_pos)
  BY <1>2, MatchesExtended DEF l, r
<1> HIDE DEF match
<1>8. Answers(match, level, text_pos) /\ MatchesFor(llmatch', rlmatch', text_pos)
  BY <1>4, <1>7 DEF match
<1> QED
  BY <1>1, <1>6, <1>8, LevelKeeps

(* PostGen leaves the windows, shortens the matches and moves on.          *)
LEMMA PostGenKeeps == WindowsInv /\ PostGen => WindowsInv'
<1> SUFFICES ASSUME WindowsInv, PostGen PROVE WindowsInv'
  OBVIOUS
<1>1. /\ Ranking /\ Positions /\ Counting /\ TreesFor(pool, t, released, Now) /\ BitmapsFor(ps, Now)
      /\ MatchesFor(llmatch, rlmatch, text_pos)
  BY DEF WindowsInv
<1>2. /\ pc = "match" /\ text_pos' = text_pos + 1 /\ pc' = "pre"
      /\ llmatch' = [k \in DOMAIN Dst |-> Shorter(llmatch[k])]
      /\ rlmatch' = [k \in DOMAIN Dst |-> Shorter(rlmatch[k])]
      /\ text' = text /\ isa' = isa /\ sa' = sa /\ level' = level
      /\ pool' = pool /\ t' = t /\ released' = released /\ ps' = ps
  BY DEF PostGen, windows
<1>3. L \in Nat /\ text_pos \in 0 .. (L - 1) /\ text_pos \in Nat /\ L' = L /\ level \in Nat
  <2>1. L \in Nat
    BY <1>1, TextIs
  <2> QED
    BY <1>1, <1>2, <2>1 DEF Counting, L
<1>4. Now' = Now
  <2>1. Now = text_pos /\ Now' = IF text_pos + 1 = 0 THEN 0 ELSE (text_pos + 1) - 1
    BY <1>2 DEF Now
  <2> QED
    BY <1>3, <2>1
<1>5. Ranking' /\ Positions'
  BY <1>1, <1>2, SameText
<1>6. Counting'
  BY <1>2, <1>3 DEF Counting
<1>7. TreesFor(pool, t, released, Now)'
  BY <1>1, <1>2, <1>4, TreesKept
<1>8. BitmapsFor(ps, Now)'
  BY <1>1, <1>2, <1>4, BitmapsKept
<1>9. MatchesFor(llmatch, rlmatch, text_pos)'
  <2>1. MatchesFor(llmatch', rlmatch', text_pos + 1)
    BY <1>1, <1>2, <1>3, MatchesLater
  <2> QED
    BY <1>2, <2>1, MatchesKept
<1>10. MeshFor'
  BY <1>2 DEF MeshFor
<1> QED
  BY <1>5, <1>6, <1>7, <1>8, <1>9, <1>10 DEF WindowsInv

LEMMA NextWindows == WindowsInv /\ [Next]_vars => WindowsInv'
<1> SUFFICES ASSUME WindowsInv, [Next]_vars PROVE WindowsInv'
  OBVIOUS
<1>1. CASE PreGen
  BY <1>1, PreGenKeeps
<1>2. CASE NoNeighbour
  BY <1>2, NoNeighbourKeeps
<1>3. CASE LongestMatch
  BY <1>3, LongestMatchKeeps
<1>4. CASE PostGen
  BY <1>4, PostGenKeeps
<1>5. CASE UNCHANGED vars
  <2>1. /\ Ranking /\ Positions /\ Counting /\ TreesFor(pool, t, released, Now) /\ BitmapsFor(ps, Now)
        /\ MatchesFor(llmatch, rlmatch, text_pos) /\ MeshFor
    BY DEF WindowsInv
  <2>2. /\ text' = text /\ isa' = isa /\ sa' = sa /\ level' = level /\ text_pos' = text_pos
        /\ pool' = pool /\ t' = t /\ released' = released /\ ps' = ps /\ mesh' = mesh /\ pc' = pc
        /\ llmatch' = llmatch /\ rlmatch' = rlmatch /\ Now' = Now
    BY <1>5 DEF vars, windows, Now
  <2>3. Ranking' /\ Positions'
    BY <2>1, <2>2, SameText
  <2>4. Counting' /\ MeshFor'
    BY <2>1, <2>2 DEF Counting, MeshFor, L
  <2>5. TreesFor(pool, t, released, Now)'
    BY <2>1, <2>2, TreesKept
  <2>6. BitmapsFor(ps, Now)'
    BY <2>1, <2>2, BitmapsKept
  <2>7. MatchesFor(llmatch, rlmatch, text_pos)'
    BY <2>1, <2>2, MatchesKept
  <2> QED
    BY <2>3, <2>4, <2>5, <2>6, <2>7 DEF WindowsInv
<1> QED
  BY <1>1, <1>2, <1>3, <1>4, <1>5 DEF Next

(* The invariant is inductive.                                             *)
THEOREM WindowsInductive == Spec => []WindowsInv
<1> QED
  BY InitWindows, NextWindows, PTL DEF Spec

(* Trees are balanced and in order, they share no node and not the spare   *)
(* one, and the summaries of bitmaps are right, for any text and classes.  *)
THEOREM StructuresKept == Spec => []StructuresRight
<1>1. ASSUME WindowsInv PROVE StructuresRight
  <2>1. /\ Ranking /\ TreesFor(pool, t, released, Now) /\ BitmapsFor(ps, Now) /\ Now \in Nat
    <3>1. text_pos \in Nat
      BY <1>1 DEF WindowsInv, Counting
    <3>2. Now \in Nat
      BY <3>1 DEF Now
    <3> QED
      BY <1>1, <3>2 DEF WindowsInv
  <2>2. TreesTell(Now)
    BY <2>1, TreesAre
  <2>3. BitmapsTell(Now)
    BY <2>1, BitmapsAre
  <2> QED
    BY <2>2, <2>3 DEF TreesTell, BitmapsTell, StructuresRight
<1> QED
  BY <1>1, WindowsInductive, PTL

(* The window of each class has the positions of the class, and no other,  *)
(* whenever it is searched.                                                *)
THEOREM WindowsComplete == Spec => []WindowsHold
<1>1. ASSUME WindowsInv PROVE WindowsHold
  <2> SUFFICES ASSUME pc = "match"
               PROVE  /\ \A k \in 1 .. treenum :
                           {<<pool[n].key, pool[n].info>> : n \in NodesOf(k)}
                             = {<<isa[p], p>> : p \in Within(k)}
                      /\ \A k \in DOMAIN ps : Elements(ps[k]) = {isa[p] : p \in Within(k)}
    BY DEF WindowsHold
  <2>1. Ranking /\ TreesFor(pool, t, released, text_pos) /\ BitmapsFor(ps, text_pos) /\ text_pos \in Nat
    BY <1>1 DEF WindowsInv, Counting, Now
  <2>2. TreesTell(text_pos)
    BY <2>1, TreesAre
  <2>3. BitmapsTell(text_pos)
    BY <2>1, BitmapsAre
  <2>4. \A k : Within(k) = Win(k, text_pos)
    BY DEF Within, Win
  <2> QED
    BY <2>2, <2>3, <2>4 DEF TreesTell, BitmapsTell
<1> QED
  BY <1>1, WindowsInductive, PTL

(* Each step of the windows is one of the promise, or none to it.          *)
LEMMA NextPromises ==
  WindowsInv /\ [Next]_vars => [Generator!GenNext]_(Generator!vars)
<1> SUFFICES ASSUME WindowsInv, [Next]_vars
             PROVE  Generator!GenNext \/ UNCHANGED <<text, text_pos, edges>>
  BY DEF Generator!vars
<1>1. CASE PreGen
  BY <1>1 DEF PreGen
<1>2. CASE NoNeighbour
  BY <1>2 DEF NoNeighbour
<1>3. CASE LongestMatch
  BY <1>3 DEF LongestMatch
<1>4. CASE PostGen
  <2>1. /\ pc = "match" /\ ~ MoreLevels /\ text_pos' = text_pos + 1 /\ edges' = mesh.edges /\ text' = text
    BY <1>4 DEF PostGen
  <2>2. Ranking /\ Counting /\ MeshFor
    BY DEF WindowsInv
  <2>3. L \in Nat /\ L = Len(text) /\ text_pos < L /\ text_pos \in 0 .. L /\ text_pos \in Nat
    <3>1. L \in Nat
      BY <2>2, TextIs
    <3> QED
      BY <2>1, <2>2, <3>1 DEF Counting, L
  <2> DEFINE n == level - 1
             v == Levels(text_pos)
  <2>4. v \in Nat
    <3>1. Levels(text_pos) \in 1 .. Len(Dst)
      BY <2>3, LevelsAre
    <3> QED
      BY <3>1
  <2>5. level \in 1 .. (v + 1) /\ MeshOK(text, text_pos, n, mesh) /\ (mesh.stopped \/ ~ (level <= v))
    BY <2>1, <2>2 DEF MeshFor, MoreLevels
  <2>6. n \in 0 .. v /\ (mesh.stopped \/ n = v)
    BY <2>4, <2>5
  <2>7. Len(text) \in Nat /\ text_pos \in 0 .. Len(text)
    BY <2>3
  <2> HIDE DEF n
  <2>8. Offers(text, text_pos, mesh.edges)
    BY <2>5, <2>6, <2>7, MeshOffers
  <2> QED
    BY <2>1, <2>3, <2>8 DEF Generator!GenNext
<1>5. CASE UNCHANGED vars
  BY <1>5 DEF vars
<1> QED
  BY <1>1, <1>2, <1>3, <1>4, <1>5 DEF Next

(* The windows implement what the parser expects of a generator: at each   *)
(* position, edges that no copy of the graph improves on.                  *)
THEOREM PromiseKept == Spec => KeepsPromise
<1>1. Init => Generator!Init
  BY DEF Init, Generator!Init
<1> QED
  BY <1>1, WindowsInductive, NextPromises, PTL DEF Spec, KeepsPromise, Generator!Spec
===============================================================================
