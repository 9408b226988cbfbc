-------------------------- MODULE ParsingStreamProofs --------------------------
(***************************************************************************)
(* Proofs about ParsingStream, for every text, parsing, word size and      *)
(* wrong count.                                                            *)
(***************************************************************************)
EXTENDS ParsingStream, FiniteSets, TLAPS, WellFoundedInduction, FiniteSetTheorems, SequenceTheorems
-------------------------------------------------------------------------------
(* Induction and recursion on the naturals, stated of sets and functions   *)
(* so that the provers can use them: the library's theorems take operators.*)

(* A set of naturals that is not empty has a least element. *)
LEMMA SmallestOf ==
  ASSUME NEW T, T \subseteq Nat, T # {}
  PROVE  \E m \in T : \A n \in T : m <= n
<1>1. IsWellFoundedOn(OpToRel(<, Nat), Nat)
  BY NatLessThanWellFounded, Zenon
<1>2. PICK m \in T : \A n \in T : ~ (<<n, m>> \in OpToRel(<, Nat))
  BY <1>1, WFMin, Zenon
<1>3. \A n \in T : ~ (n < m)
  BY <1>2 DEF OpToRel
<1> QED
  BY <1>3

(* A set that contains 0 and the successors of its naturals has them all.  *)
LEMMA InductionOn ==
  ASSUME NEW T, 0 \in T, \A n \in Nat : n \in T => (n + 1) \in T
  PROVE  Nat \subseteq T
<1> DEFINE U == {n \in Nat : n \notin T}
<1> SUFFICES ASSUME U # {} PROVE FALSE
  OBVIOUS
<1>1. PICK m \in U : \A n \in U : m <= n
  BY SmallestOf
<1>2. m - 1 \in Nat /\ m - 1 \in T
  BY <1>1
<1> QED
  BY <1>2

(* A function can be defined from its value at 0 and from the value it has *)
(* at each natural to the next.                                            *)
Iterates(f, S, s0, step) ==
  f \in [Nat -> S] /\ f[0] = s0 /\ \A n \in Nat : f[n + 1] = step[f[n]]
LEMMA RecursionOn ==
  ASSUME NEW S, NEW s0 \in S, NEW step \in [S -> S]
  PROVE  \E f : Iterates(f, S, s0, step)
<1> DEFINE Upto(n, f) == /\ f \in [0 .. n -> S] /\ f[0] = s0
                         /\ \A m \in 0 .. (n - 1) : f[m + 1] = step[f[m]]
           Defined == {n \in Nat : \E f : Upto(n, f)}
           g == [n \in Nat |-> CHOOSE f : Upto(n, f)]
           h == [n \in Nat |-> g[n][n]]
<1>1. Nat \subseteq Defined
  <2>1. Upto(0, [m \in 0 .. 0 |-> s0])
    OBVIOUS
  <2>2. ASSUME NEW n \in Nat, NEW f, Upto(n, f)
        PROVE  Upto(n + 1, [m \in 0 .. (n + 1) |-> IF m = n + 1 THEN step[f[n]] ELSE f[m]])
    BY <2>2
  <2>3. 0 \in Defined
    BY <2>1
  <2>4. ASSUME NEW n \in Nat, n \in Defined PROVE (n + 1) \in Defined
    <3>1. PICK f : Upto(n, f)
      BY <2>4
    <3>2. \E e : Upto(n + 1, e)
      <4> HIDE DEF Upto
      <4> QED
        BY <3>1, <2>2
    <3> QED
      BY <3>2
  <2> HIDE DEF Defined
  <2> QED
    BY <2>3, <2>4, InductionOn
<1>2. ASSUME NEW n \in Nat PROVE Upto(n, g[n])
  BY <1>1
<1>3. ASSUME NEW a \in Nat, NEW b \in Nat, NEW e, NEW f, Upto(a, e), Upto(b, f)
      PROVE  \A m \in Nat : m <= a /\ m <= b => e[m] = f[m]
  <2> DEFINE Same == {m \in Nat : m <= a /\ m <= b => e[m] = f[m]}
  <2>1. 0 \in Same
    BY <1>3
  <2>2. ASSUME NEW m \in Nat, m \in Same PROVE (m + 1) \in Same
    <3> SUFFICES ASSUME m + 1 <= a, m + 1 <= b PROVE e[m + 1] = f[m + 1]
      OBVIOUS
    <3>1. m \in 0 .. (a - 1) /\ m \in 0 .. (b - 1) /\ e[m] = f[m]
      BY <2>2
    <3> QED
      BY <3>1, <1>3
  <2> HIDE DEF Same
  <2>3. Nat \subseteq Same
    BY <2>1, <2>2, InductionOn
  <2> QED
    BY <2>3 DEF Same
<1> HIDE DEF g
<1>4. h \in [Nat -> S] /\ h[0] = s0
  BY <1>2
<1>5. ASSUME NEW n \in Nat PROVE h[n + 1] = step[h[n]]
  <2>1. Upto(n, g[n]) /\ Upto(n + 1, g[n + 1])
    BY <1>2
  <2>2. g[n + 1][n] = g[n][n]
    <3> HIDE DEF Upto
    <3> QED
      BY <2>1, <1>3
  <2>3. g[n + 1][n + 1] = step[g[n + 1][n]]
    <3>1. n \in 0 .. ((n + 1) - 1)
      OBVIOUS
    <3> QED
      BY <2>1, <3>1
  <2> QED
    BY <2>2, <2>3
<1> HIDE DEF h
<1> QED
  BY <1>4, <1>5 DEF Iterates

-------------------------------------------------------------------------------
Code == [d : Nat, ell : Nat, data : Seq(Symbols), next : Nat]

(* Where the phrase k of a parsing starts, from 0; the end after the last. *)
Place(t, p) ==
  LET start[k \in Nat] ==
        IF k = 0 THEN 0
        ELSE IF start[k - 1] < Len(t) THEN start[k - 1] + p[start[k - 1]].ell ELSE Len(t)
  IN  start

RunAt(t, p, k)  == Place(t, p)[k] < Len(t) /\ p[Place(t, p)[k]].d = 0
CopyAt(t, p, k) == Place(t, p)[k] < Len(t) /\ p[Place(t, p)[k]].d > 0
RunsBefore(t, p, k) == Cardinality({m \in 0 .. (k - 1) : RunAt(t, p, m)})

(* c is a right count for a reader that has read k phrases: so many copies *)
(* and a run follow, or one copy less and the end of the text.             *)
Counts(t, p, k, c) ==
  \/ RunAt(t, p, k + c) /\ \A m \in 0 .. (c - 1) : CopyAt(t, p, k + m)
  \/ /\ c > 0 /\ Place(t, p)[k + c - 1] = Len(t)
     /\ \A m \in 0 .. (c - 2) : CopyAt(t, p, k + m)

(* The code of the phrase k, up to the count of a run, which is right. *)
Encodes(t, p, k, code) ==
  LET n == Place(t, p)[k]
  IN  IF p[n].d = 0
        THEN code = Run(SubSeq(t, n + 1, n + p[n].ell), code.next) /\ Counts(t, p, k + 1, code.next)
        ELSE code = Copy(p[n])

-------------------------------------------------------------------------------
(* The parts of the inductive invariant.                                   *)
InputOK == text \in Seq(Symbols) /\ IsParsing(text, sol)

TypeOK ==
  /\ pc \in {"write", "count", "glue", "fix", "decode", "spread", "done"}
  /\ i \in 0 .. L /\ j \in 0 .. L /\ count \in Nat
  /\ stream \in Seq(Code) /\ glued \in Seq(Code) /\ fixed \in Seq(Code)
  /\ lits \in Seq(Nat) /\ lit \in Nat
  /\ at \in Nat \ {0} /\ text_pos \in 0 .. L /\ next_literal \in Nat
  /\ mem \in [Cells -> Symbols \union {Free, "junk"}] /\ output \in 0 .. L
  /\ op \in Int /\ src \in Int /\ len \in Int

(* Every phrase before the writer is encoded, and it looks ahead from the run it is at. *)
WriterOK ==
  /\ Place(text, sol)[Len(stream)] = i
  /\ \A k \in 0 .. (Len(stream) - 1) :
       Place(text, sol)[k] < L /\ Encodes(text, sol, k, stream[k + 1])
  /\ pc = "count" => /\ RunAt(text, sol, Len(stream))
                     /\ Place(text, sol)[Len(stream) + 1 + count] = j
                     /\ \A m \in 0 .. (count - 1) : CopyAt(text, sol, Len(stream) + 1 + m)
  /\ pc \notin {"write", "count"} => i = L

(* A reader knows its place in the text, and the count it holds is right.  *)
ReaderOK ==
  /\ pc \in {"glue", "fix", "decode", "spread"} =>
       at - 1 <= Len(stream) /\ Counts(text, sol, at - 1, next_literal)
  /\ pc \in {"glue", "fix"} => Place(text, sol)[at - 1] = text_pos
  /\ pc \in {"decode", "spread"} => Place(text, sol)[at - 1] = output

(* What the client has glued, with the true counts in order. *)
ClientOK ==
  /\ pc \in {"write", "count"} => glued = <<>> /\ lits = <<>>
  /\ pc = "glue" => Len(glued) = at - 1
  /\ pc \in {"fix", "decode", "spread", "done"} => Len(glued) = Len(stream)
  /\ \A k \in 1 .. Len(glued) :
       glued[k] = IF IsRun(stream[k]) THEN Run(stream[k].data, WrongCount) ELSE stream[k]
  /\ Len(lits) = RunsBefore(text, sol, Len(glued))
  /\ \A k \in 0 .. (Len(glued) - 1) :
       RunAt(text, sol, k) => LET r == RunsBefore(text, sol, k) + 1
                              IN  r <= Len(lits) /\ lits[r] = stream[k + 1].next

FixerOK ==
  /\ pc \in {"write", "count", "glue"} => fixed = <<>> /\ lit = 0
  /\ pc = "fix" => /\ Len(fixed) = at - 1 /\ lit = RunsBefore(text, sol, at - 1)
                   /\ \A k \in 1 .. (at - 1) : fixed[k] = stream[k]
  /\ pc \in {"decode", "spread", "done"} => fixed = stream

(* In a copy the distance of the words moved is a period of what the copy  *)
(* must give, and everything before op is the text.                        *)
CopierOK ==
  LET e == sol[output]
  IN  pc = "spread" =>
        /\ CopyAt(text, sol, at - 1) /\ next_literal > 0
        /\ op + len = output + e.ell
        /\ op - src >= 1 /\ src >= output - e.d
        /\ \A p \in 0 .. (output + e.ell - 1) :
             /\ p >= output - e.d + (op - src) => text[p + 1] = text[p + 1 - (op - src)]
             /\ p < op => mem[p] = text[p + 1]

IInv == InputOK /\ TypeOK /\ WriterOK /\ ReaderOK /\ ClientOK /\ FixerOK /\ CopierOK /\ DecodedPrefix
-------------------------------------------------------------------------------
(* Facts about parsings.                                                   *)

(* The places of the phrases are what their definition says: it is a       *)
(* recursion, and such a function exists.                                  *)
LEMMA PlaceStep ==
  ASSUME NEW t, Len(t) \in Nat, NEW p, IsParsing(t, p)
  PROVE  /\ Place(t, p)[0] = 0
         /\ \A k \in Nat :
              /\ Place(t, p)[k] \in DOMAIN p \union {Len(t)}
              /\ Place(t, p)[k] \in 0 .. Len(t)
              /\ Place(t, p)[k + 1] = IF Place(t, p)[k] < Len(t)
                                       THEN Place(t, p)[k] + p[Place(t, p)[k]].ell ELSE Len(t)
<1> DEFINE S == DOMAIN p \union {Len(t)}
           step == [n \in S |-> IF n < Len(t) THEN n + p[n].ell ELSE Len(t)]
           f == Place(t, p)
           Def(g) == [k \in Nat |-> IF k = 0 THEN 0
                                    ELSE IF g[k - 1] < Len(t) THEN g[k - 1] + p[g[k - 1]].ell ELSE Len(t)]
<1>1. 0 \in S /\ step \in [S -> S] /\ \A n \in S : n \in 0 .. Len(t)
  <2>1. 0 \in S /\ \A n \in S : n \in 0 .. Len(t)
    <3>1. 0 \in DOMAIN p /\ \A n \in DOMAIN p : n \in 0 .. (Len(t) - 1)
      BY Zenon DEF IsParsing
    <3> QED
      BY <3>1
  <2>2. ASSUME NEW n \in S PROVE IF n < Len(t) THEN n + p[n].ell \in S ELSE Len(t) \in S
    <3>1. CASE n < Len(t)
      BY <3>1 DEF IsParsing
    <3> QED
      BY <3>1
  <2> HIDE DEF S
  <2> QED
    BY <2>1, <2>2
<1>2. PICK g : Iterates(g, S, 0, step)
  <2>1. 0 \in S /\ step \in [S -> S]
    BY <1>1
  <2> HIDE DEF S, step
  <2> QED
    BY <2>1, RecursionOn
<1>3. ASSUME NEW k \in Nat PROVE g[k] = Def(g)[k]
  <2>1. CASE k = 0
    BY <1>2, <2>1 DEF Iterates
  <2>2. CASE k # 0
    <3>1. k - 1 \in Nat /\ k = (k - 1) + 1
      BY <2>2
    <3>2. g[k] = step[g[k - 1]] /\ g[k - 1] \in S
      BY <3>1, <1>2 DEF Iterates
    <3> QED
      BY <3>2, <2>2
  <2> QED
    BY <2>1, <2>2
<1>4. g = Def(g)
  BY <1>2, <1>3 DEF Iterates
<1>5. f = CHOOSE h : h = Def(h)
  BY DEF Place
<1>6. f = Def(f)
  <2> HIDE DEF Def, f
  <2> QED
    BY <1>4, <1>5, Zenon
<1>7. f[0] = 0
  BY <1>6
<1>8. ASSUME NEW k \in Nat
      PROVE  f[k + 1] = IF f[k] < Len(t) THEN f[k] + p[f[k]].ell ELSE Len(t)
  <2>1. f[k + 1] = Def(f)[k + 1]
    BY <1>6
  <2> HIDE DEF f
  <2> QED
    BY <2>1
<1> HIDE DEF f
<1>9. \A k \in Nat : f[k] \in S
  <2> DEFINE T == {k \in Nat : f[k] \in S}
  <2>1. 0 \in T
    BY <1>7, <1>1
  <2>2. ASSUME NEW k \in Nat, k \in T PROVE (k + 1) \in T
    <3>1. f[k] \in S
      BY <2>2
    <3>2. \A n \in DOMAIN p : n + p[n].ell \in S
      BY DEF IsParsing
    <3>3. f[k] < Len(t) => f[k] \in DOMAIN p
      BY <3>1
    <3>4. f[k + 1] \in S
      BY <1>8, <3>2, <3>3
    <3> QED
      BY <3>4
  <2> HIDE DEF T
  <2>3. Nat \subseteq T
    BY <2>1, <2>2, InductionOn
  <2> QED
    BY <2>3 DEF T
<1>10. \A k \in Nat : f[k] \in 0 .. Len(t)
  BY <1>9, <1>1
<1> QED
  BY <1>7, <1>8, <1>9, <1>10 DEF f

(* A phrase is a run or a copy and ends in the text. *)
LEMMA PhraseAt ==
  ASSUME NEW t, Len(t) \in Nat, NEW p, IsParsing(t, p), NEW k \in Nat, Place(t, p)[k] < Len(t)
  PROVE  LET n == Place(t, p)[k]
         IN  /\ n \in 0 .. (Len(t) - 1)
             /\ p[n] \in [d : Nat, ell : Nat \ {0}]
             /\ n + p[n].ell \in 0 .. Len(t) /\ Place(t, p)[k + 1] = n + p[n].ell
             /\ p[n].d > 0 => Copies(t, n, p[n])
             /\ RunAt(t, p, k) <=> p[n].d = 0
             /\ CopyAt(t, p, k) <=> p[n].d > 0
             /\ CopyAt(t, p, k) <=> p[n].d # 0
<1> DEFINE n == Place(t, p)[k]
<1>1. n \in DOMAIN p /\ Place(t, p)[k + 1] = n + p[n].ell /\ n + p[n].ell \in 0 .. Len(t)
  BY PlaceStep
<1>2. n \in 0 .. (Len(t) - 1) /\ p[n] \in [d : Nat, ell : Nat \ {0}] /\ (p[n].d > 0 => Copies(t, n, p[n]))
  BY <1>1 DEF IsParsing
<1>3. p[n].d \in Nat
  BY <1>2
<1> QED
  BY <1>1, <1>2, <1>3 DEF RunAt, CopyAt

(* Symbols n + 1 to n + ell of a text. *)
LEMMA SubText ==
  ASSUME NEW S, NEW s \in Seq(S), NEW n \in Nat, NEW ell \in Nat, n + ell <= Len(s)
  PROVE  /\ SubSeq(s, n + 1, n + ell) \in Seq(S) /\ Len(SubSeq(s, n + 1, n + ell)) = ell
         /\ \A q \in 1 .. ell : SubSeq(s, n + 1, n + ell)[q] = s[n + q]
<1> DEFINE sub == SubSeq(s, n + 1, n + ell)
<1>1. \A m \in (n + 1) .. (n + ell) : s[m] \in S
  OBVIOUS
<1>2. /\ sub \in Seq(S) /\ Len(sub) = IF n + 1 <= n + ell THEN (n + ell) - (n + 1) + 1 ELSE 0
      /\ \A q \in 1 .. ((n + ell) - (n + 1) + 1) : sub[q] = s[(n + 1) + q - 1]
  BY <1>1, SubSeqProperties
<1> HIDE DEF sub
<1>3. Len(sub) = ell
  BY <1>2
<1>4. ASSUME NEW q \in 1 .. ell PROVE sub[q] = s[n + q]
  <2>1. q \in 1 .. ((n + ell) - (n + 1) + 1) /\ (n + 1) + q - 1 = n + q
    OBVIOUS
  <2> QED
    BY <1>2, <2>1
<1> QED
  BY <1>2, <1>3, <1>4 DEF sub

(* The first phrase is a run: nothing stands before it. *)
LEMMA FirstIsARun ==
  ASSUME NEW t, Len(t) \in Nat, NEW p, IsParsing(t, p)
  PROVE  RunAt(t, p, 0) /\ Counts(t, p, 0, 0)
<1>1. Place(t, p)[0] = 0 /\ 0 < Len(t)
  BY PlaceStep DEF IsParsing
<1>2. ~ Copies(t, 0, p[0])
  BY DEF Copies
<1>3. RunAt(t, p, 0)
  BY <1>1, <1>2, PhraseAt
<1> QED
  BY <1>3 DEF Counts

(* What a right count tells a reader. *)
LEMMA CountsTell ==
  ASSUME NEW t, Len(t) \in Nat, NEW p, IsParsing(t, p), NEW k \in Nat, NEW c \in Nat,
         Counts(t, p, k, c)
  PROVE  /\ c = 0 => RunAt(t, p, k)
         /\ Place(t, p)[k] >= Len(t) => c > 0
         /\ c > 0 /\ Place(t, p)[k] < Len(t) => CopyAt(t, p, k) /\ Counts(t, p, k + 1, c - 1)
<1>1. c = 0 => RunAt(t, p, k)
  BY DEF Counts
<1>2. ASSUME Place(t, p)[k] >= Len(t) PROVE c > 0
  <2>1. ~ RunAt(t, p, k)
    <3>1. Place(t, p)[k] \in 0 .. Len(t)
      BY PlaceStep
    <3> QED
      BY <3>1, <1>2 DEF RunAt
  <2> QED
    BY <1>1, <2>1
<1>3. ASSUME c > 0, Place(t, p)[k] < Len(t) PROVE CopyAt(t, p, k) /\ Counts(t, p, k + 1, c - 1)
  <2>1. CASE RunAt(t, p, k + c) /\ \A m \in 0 .. (c - 1) : CopyAt(t, p, k + m)
    <3>1. CopyAt(t, p, k)
      <4>1. 0 \in 0 .. (c - 1) /\ k + 0 = k
        BY <1>3
      <4> QED
        BY <4>1, <2>1
    <3>2. (k + 1) + (c - 1) = k + c
      OBVIOUS
    <3>3. ASSUME NEW m \in 0 .. ((c - 1) - 1) PROVE CopyAt(t, p, (k + 1) + m)
      <4>1. m + 1 \in 0 .. (c - 1) /\ (k + 1) + m = k + (m + 1)
        BY <1>3
      <4> QED
        BY <4>1, <2>1
    <3> QED
      BY <2>1, <3>1, <3>2, <3>3 DEF Counts
  <2>2. CASE Place(t, p)[k + c - 1] = Len(t) /\ \A m \in 0 .. (c - 2) : CopyAt(t, p, k + m)
    <3>1. c - 1 > 0
      <4> SUFFICES ASSUME c = 1 PROVE FALSE
        BY <1>3
      <4>1. k + c - 1 = k
        OBVIOUS
      <4> QED
        BY <4>1, <2>2, <1>3
    <3>2. CopyAt(t, p, k)
      BY <2>2, <3>1
    <3>3. (k + 1) + (c - 1) - 1 = k + c - 1
      OBVIOUS
    <3>4. ASSUME NEW m \in 0 .. ((c - 1) - 2) PROVE CopyAt(t, p, (k + 1) + m)
      <4>1. m + 1 \in 0 .. (c - 2) /\ (k + 1) + m = k + (m + 1)
        OBVIOUS
      <4> QED
        BY <4>1, <2>2
    <3> QED
      BY <2>2, <3>1, <3>2, <3>3, <3>4 DEF Counts
  <2> QED
    BY <2>1, <2>2 DEF Counts
<1> QED
  BY <1>1, <1>2, <1>3

(* One more run before the phrase after a run. *)
LEMMA RunsStep ==
  ASSUME NEW t, NEW p
  PROVE  /\ RunsBefore(t, p, 0) = 0
         /\ \A k \in Nat :
              /\ RunsBefore(t, p, k) \in Nat
              /\ RunAt(t, p, k) => RunsBefore(t, p, k + 1) = RunsBefore(t, p, k) + 1
              /\ ~ RunAt(t, p, k) => RunsBefore(t, p, k + 1) = RunsBefore(t, p, k)
<1> DEFINE R(k) == {m \in 0 .. (k - 1) : RunAt(t, p, m)}
<1>1. R(0) = {}
  OBVIOUS
<1>2. ASSUME NEW k \in Nat PROVE IsFiniteSet(R(k)) /\ Cardinality(R(k)) \in Nat
  <2>1. IsFiniteSet(0 .. (k - 1)) /\ R(k) \subseteq 0 .. (k - 1)
    BY FS_Interval
  <2>2. IsFiniteSet(R(k))
    BY <2>1, FS_Subset
  <2> QED
    BY <2>2, FS_CardinalityType
<1>3. ASSUME NEW k \in Nat
      PROVE  R(k + 1) = (IF RunAt(t, p, k) THEN R(k) \union {k} ELSE R(k)) /\ k \notin R(k)
  <2>1. \A m : m \in 0 .. ((k + 1) - 1) <=> m \in 0 .. (k - 1) \/ m = k
    OBVIOUS
  <2> QED
    BY <2>1
<1>4. \A k : RunsBefore(t, p, k) = Cardinality(R(k))
  BY DEF RunsBefore
<1> HIDE DEF R
<1>5. ASSUME NEW k \in Nat, RunAt(t, p, k) PROVE Cardinality(R(k + 1)) = Cardinality(R(k)) + 1
  <2>1. Cardinality(R(k) \union {k}) = Cardinality(R(k)) + 1
    BY <1>2, <1>3, FS_AddElement
  <2> QED
    BY <2>1, <1>3, <1>5
<1>6. Cardinality({}) = 0
  BY FS_EmptySet
<1>7. RunsBefore(t, p, 0) = 0
  BY <1>1, <1>4, <1>6
<1>8. ASSUME NEW k \in Nat
      PROVE  /\ RunsBefore(t, p, k) \in Nat
             /\ RunAt(t, p, k) => RunsBefore(t, p, k + 1) = RunsBefore(t, p, k) + 1
             /\ ~ RunAt(t, p, k) => RunsBefore(t, p, k + 1) = RunsBefore(t, p, k)
  <2>1. RunsBefore(t, p, k) = Cardinality(R(k)) /\ RunsBefore(t, p, k + 1) = Cardinality(R(k + 1))
    BY <1>4
  <2>2. ~ RunAt(t, p, k) => R(k + 1) = R(k)
    BY <1>3
  <2> QED
    BY <2>1, <2>2, <1>2, <1>5
<1> QED
  BY <1>7, <1>8
(* A stream of right codes, with the right code of the next phrase after it. *)
LEMMA AppendEncodes ==
  ASSUME NEW t, NEW p, NEW s \in Seq(Code), NEW code \in Code,
         \A k \in 0 .. (Len(s) - 1) : Place(t, p)[k] < Len(t) /\ Encodes(t, p, k, s[k + 1]),
         Place(t, p)[Len(s)] < Len(t), Encodes(t, p, Len(s), code)
  PROVE  /\ Append(s, code) \in Seq(Code) /\ Len(Append(s, code)) = Len(s) + 1
         /\ \A k \in 0 .. (Len(Append(s, code)) - 1) :
              Place(t, p)[k] < Len(t) /\ Encodes(t, p, k, Append(s, code)[k + 1])
<1> DEFINE u == Append(s, code)
<1>1. /\ u \in Seq(Code) /\ Len(u) = Len(s) + 1 /\ u[Len(s) + 1] = code
      /\ \A n \in 1 .. Len(s) : u[n] = s[n]
  OBVIOUS
<1> HIDE DEF u
<1>2. ASSUME NEW k \in 0 .. (Len(u) - 1)
      PROVE  Place(t, p)[k] < Len(t) /\ Encodes(t, p, k, u[k + 1])
  <2>1. CASE k = Len(s)
    BY <2>1, <1>1
  <2>2. CASE k # Len(s)
    <3>1. k \in 0 .. (Len(s) - 1) /\ k + 1 \in 1 .. Len(s)
      BY <2>2, <1>1
    <3> QED
      BY <3>1, <1>1
  <2> QED
    BY <2>1, <2>2
<1> QED
  BY <1>1, <1>2 DEF u

(* What the code of a phrase says of it. *)
LEMMA CodeAt ==
  ASSUME IInv, NEW k \in 0 .. (Len(stream) - 1)
  PROVE  LET n == Place(text, sol)[k]
             code == stream[k + 1]
         IN  /\ k \in Nat /\ code \in Code
             /\ n \in 0 .. (L - 1) /\ code.ell = sol[n].ell
             /\ Place(text, sol)[k + 1] = n + code.ell /\ n + code.ell \in 0 .. L
             /\ IsRun(code) <=> RunAt(text, sol, k)
             /\ ~ IsRun(code) <=> CopyAt(text, sol, k)
             /\ IsRun(code) => /\ code = Run(SubSeq(text, n + 1, n + code.ell), code.next)
                               /\ code = Run(code.data, code.next)
                               /\ Counts(text, sol, k + 1, code.next)
             /\ ~ IsRun(code) => code = Copy(sol[n]) /\ code = Copy(code)
<1> DEFINE n == Place(text, sol)[k]
           code == stream[k + 1]
<1>1. /\ Len(text) \in Nat /\ L = Len(text) /\ IsParsing(text, sol) /\ text \in Seq(Symbols)
      /\ k \in Nat /\ k + 1 \in 1 .. Len(stream) /\ code \in Code
  BY DEF IInv, InputOK, TypeOK, L
<1>2. n < Len(text) /\ Encodes(text, sol, k, code)
  BY <1>1 DEF IInv, WriterOK
<1>3. /\ n \in 0 .. (L - 1) /\ sol[n] \in [d : Nat, ell : Nat \ {0}]
      /\ Place(text, sol)[k + 1] = n + sol[n].ell /\ n + sol[n].ell \in 0 .. L
      /\ RunAt(text, sol, k) <=> sol[n].d = 0
      /\ CopyAt(text, sol, k) <=> sol[n].d # 0
  BY <1>1, <1>2, PhraseAt
<1>4. CASE sol[n].d = 0
  <2> DEFINE data == SubSeq(text, n + 1, n + sol[n].ell)
  <2>1. code = Run(data, code.next) /\ Counts(text, sol, k + 1, code.next)
    BY <1>2, <1>4 DEF Encodes
  <2>2. Len(data) = sol[n].ell
    <3> DEFINE ell == sol[n].ell
    <3>1. n \in Nat /\ ell \in Nat /\ n + ell <= Len(text) /\ text \in Seq(Symbols)
      BY <1>1, <1>3
    <3> HIDE DEF n, code, ell
    <3>2. Len(SubSeq(text, n + 1, n + ell)) = ell
      BY <3>1, SubText
    <3> QED
      BY <3>2 DEF ell
  <2> HIDE DEF data
  <2>3. code.ell = sol[n].ell /\ code.data = data /\ code.d = 0
    <3>1. code = [d |-> 0, ell |-> Len(data), data |-> data, next |-> code.next]
      BY <2>1 DEF Run
    <3> HIDE DEF code
    <3> QED
      BY <3>1, <2>2
  <2> QED
    BY <1>1, <1>3, <1>4, <2>1, <2>3 DEF IsRun, data
<1>5. CASE sol[n].d # 0
  <2>1. code = Copy(sol[n])
    BY <1>2, <1>5 DEF Encodes
  <2>2. code.ell = sol[n].ell /\ code.d = sol[n].d /\ code = Copy(code)
    BY <2>1 DEF Copy
  <2> QED
    BY <1>1, <1>3, <1>5, <2>1, <2>2 DEF IsRun
<1> QED
  BY <1>4, <1>5

(* A reader that is not at the end of the text has a code to read. *)
LEMMA ReaderAt ==
  ASSUME IInv, pc \in {"glue", "fix", "decode", "spread"}, Place(text, sol)[at - 1] < L
  PROVE  at - 1 \in 0 .. (Len(stream) - 1)
<1>1. Place(text, sol)[Len(stream)] = L /\ L \in Nat
  BY DEF IInv, WriterOK, InputOK, L
<1> QED
  BY <1>1 DEF IInv, ReaderOK, TypeOK

-------------------------------------------------------------------------------
(* The invariant holds at first and every action keeps it.                 *)

LEMMA InitKeeps == Init => IInv
<1> SUFFICES ASSUME Init PROVE IInv
  OBVIOUS
<1>1. InputOK
  BY ParsingsAssumption DEF Init, InputOK
<1>2. L \in Nat
  BY <1>1 DEF InputOK, L
<1>3. TypeOK
  BY <1>2 DEF Init, TypeOK, Code
<1>4. Place(text, sol)[0] = 0 /\ RunsBefore(text, sol, 0) = 0
  BY <1>1, <1>2, PlaceStep, RunsStep DEF InputOK, L
<1>5. WriterOK
  BY <1>4 DEF Init, WriterOK
<1>6. ReaderOK /\ FixerOK /\ CopierOK /\ DecodedPrefix
  BY DEF Init, ReaderOK, FixerOK, CopierOK, DecodedPrefix
<1>7. ClientOK
  BY <1>4 DEF Init, ClientOK
<1> QED
  BY <1>1, <1>3, <1>5, <1>6, <1>7 DEF IInv

LEMMA CountFromKeeps == IInv /\ CountFrom => IInv'
<1> SUFFICES ASSUME IInv, CountFrom PROVE IInv'
  OBVIOUS
<1> USE DEF IInv, CountFrom, decoding, reading, copying
<1>1. InputOK /\ InputOK' /\ L \in Nat /\ L' = L
  BY DEF InputOK, L
<1> DEFINE k == Len(stream)
<1>2. k \in Nat /\ Place(text, sol)[k] = i
  BY DEF TypeOK, WriterOK
<1>3. /\ RunAt(text, sol, k) /\ Place(text, sol)[k + 1] = j'
      /\ j' \in 0 .. L
  BY <1>1, <1>2, PhraseAt DEF InputOK, L
<1>4. TypeOK'
  BY <1>1, <1>3 DEF TypeOK, Cells
<1>5. WriterOK'
  BY <1>1, <1>2, <1>3 DEF WriterOK
<1>6. ReaderOK' /\ FixerOK' /\ CopierOK' /\ DecodedPrefix'
  BY DEF ReaderOK, FixerOK, CopierOK, DecodedPrefix
<1>7. ClientOK'
  BY <1>1 DEF ClientOK
<1> QED
  BY <1>1, <1>4, <1>5, <1>6, <1>7

LEMMA CountCopyKeeps == IInv /\ CountCopy => IInv'
<1> SUFFICES ASSUME IInv, CountCopy PROVE IInv'
  OBVIOUS
<1> USE DEF IInv, CountCopy, decoding, reading, copying
<1>1. InputOK /\ InputOK' /\ L \in Nat /\ L' = L
  BY DEF InputOK, L
<1> DEFINE k == Len(stream) + 1 + count
<1>2. k \in Nat /\ Place(text, sol)[k] = j
  BY DEF TypeOK, WriterOK
<1>3. /\ CopyAt(text, sol, k) /\ Place(text, sol)[k + 1] = j'
      /\ j' \in 0 .. L
  BY <1>1, <1>2, PhraseAt DEF InputOK, L
<1>4. TypeOK'
  BY <1>1, <1>3 DEF TypeOK, Cells
<1>5. WriterOK'
  <2>1. \A m \in 0 .. (count' - 1) : CopyAt(text, sol, Len(stream) + 1 + m)
    <3>1. count \in Nat /\ count' = count + 1
      BY DEF TypeOK
    <3>2. \A m \in 0 .. (count - 1) : CopyAt(text, sol, Len(stream) + 1 + m)
      BY DEF WriterOK
    <3>3. \A m \in 0 .. (count' - 1) : m \in 0 .. (count - 1) \/ m = count
      BY <3>1
    <3> QED
      BY <1>3, <3>2, <3>3
  <2>2. k + 1 = Len(stream) + 1 + count'
    BY DEF TypeOK
  <2> QED
    BY <1>1, <1>3, <2>1, <2>2 DEF WriterOK
<1>6. ReaderOK' /\ FixerOK' /\ CopierOK' /\ DecodedPrefix'
  BY DEF ReaderOK, FixerOK, CopierOK, DecodedPrefix
<1>7. ClientOK'
  BY <1>1 DEF ClientOK
<1> QED
  BY <1>1, <1>4, <1>5, <1>6, <1>7

LEMMA WriteRunKeeps == IInv /\ WriteRun => IInv'
<1> SUFFICES ASSUME IInv, WriteRun PROVE IInv'
  OBVIOUS
<1> USE DEF IInv, WriteRun, decoding, reading, copying
<1>1. InputOK /\ InputOK' /\ L \in Nat /\ L' = L
  BY DEF InputOK, L
<1> DEFINE k == Len(stream)
           next == IF j >= L THEN count + 1 ELSE count
           code == Run(SubSeq(text, i + 1, i + sol[i].ell), next)
<1>2. /\ k \in Nat /\ Place(text, sol)[k] = i /\ RunAt(text, sol, k)
      /\ k + 1 + count \in Nat /\ Place(text, sol)[k + 1 + count] = j
      /\ count \in Nat /\ next \in Nat
  <2>1. k \in Nat /\ count \in Nat
    BY DEF TypeOK
  <2>2. Place(text, sol)[k] = i /\ RunAt(text, sol, k) /\ Place(text, sol)[k + 1 + count] = j
    BY DEF WriterOK
  <2> QED
    BY <2>1, <2>2
<1>3. /\ sol[i].ell \in Nat /\ sol[i].d = 0 /\ i < L
      /\ i + sol[i].ell \in 0 .. L /\ Place(text, sol)[k + 1] = i + sol[i].ell
  BY <1>1, <1>2, PhraseAt DEF InputOK, L, RunAt
<1>4. Counts(text, sol, k + 1, next)
  <2>1. \A m \in 0 .. (count - 1) : CopyAt(text, sol, (k + 1) + m)
    BY DEF WriterOK
  <2>2. CASE j >= L
    <3>1. j = Len(text)
      BY <2>2, <1>1 DEF TypeOK, L
    <3>2. next > 0 /\ (k + 1) + next - 1 = k + 1 + count /\ next - 2 = count - 1
      BY <2>2, <1>2
    <3>3. \A m \in 0 .. (next - 2) : CopyAt(text, sol, (k + 1) + m)
      BY <2>1, <3>2
    <3> QED
      BY <3>1, <3>2, <3>3, <1>2 DEF Counts
  <2>3. CASE ~ j >= L
    <3>1. sol[j].d = 0 /\ next = count /\ j < Len(text)
      BY <2>3, <1>1 DEF TypeOK, L
    <3>2. RunAt(text, sol, (k + 1) + next)
      BY <3>1, <1>2 DEF RunAt
    <3> HIDE DEF k, next
    <3> QED
      BY <2>1, <3>1, <3>2 DEF Counts
  <2> QED
    BY <2>2, <2>3
<1>5. code \in Code /\ code = Run(SubSeq(text, i + 1, i + sol[i].ell), code.next) /\ code.next = next
  <2> DEFINE literals == SubSeq(text, i + 1, i + sol[i].ell)
  <2>1. literals \in Seq(Symbols) /\ Len(literals) \in Nat
    <3>1. text \in Seq(Symbols) /\ i \in Nat /\ sol[i].ell \in Nat /\ i + sol[i].ell <= Len(text)
      BY <1>1, <1>3 DEF InputOK, TypeOK, L
    <3>2. literals \in Seq(Symbols) /\ Len(literals) = sol[i].ell
      BY <3>1, SubText
    <3> QED
      BY <3>1, <3>2
  <2>2. code.next = next
    BY DEF Run
  <2>3. code \in Code
    <3>1. code = [d |-> 0, ell |-> Len(literals), data |-> literals, next |-> next]
      BY DEF Run
    <3> HIDE DEF literals, next, code
    <3> QED
      BY <3>1, <2>1, <1>2 DEF Code
  <2> QED
    BY <2>2, <2>3
<1>6. Encodes(text, sol, k, code)
  BY <1>2, <1>3, <1>4, <1>5 DEF Encodes
<1>7. stream' = Append(stream, code)
  OBVIOUS
<1> HIDE DEF code
<1>8. /\ stream' \in Seq(Code) /\ Len(stream') = k + 1
      /\ \A n \in 0 .. (Len(stream') - 1) :
           Place(text, sol)[n] < L /\ Encodes(text, sol, n, stream'[n + 1])
  <2>1. /\ stream \in Seq(Code) /\ i < Len(text)
        /\ \A n \in 0 .. (k - 1) : Place(text, sol)[n] < Len(text) /\ Encodes(text, sol, n, stream[n + 1])
    BY <1>3 DEF TypeOK, WriterOK, L
  <2> QED
    BY <1>2, <1>5, <1>6, <1>7, <2>1, AppendEncodes DEF L
<1>9. TypeOK' /\ WriterOK'
  <2>1. TypeOK'
    BY <1>1, <1>3, <1>8 DEF TypeOK, Cells
  <2>2. Place(text, sol)[Len(stream')] = i'
    BY <1>3, <1>8
  <2> QED
    BY <1>1, <1>8, <2>1, <2>2 DEF WriterOK
<1>10. ReaderOK' /\ FixerOK' /\ CopierOK' /\ DecodedPrefix'
  BY DEF ReaderOK, FixerOK, CopierOK, DecodedPrefix
<1>11. ClientOK'
  BY <1>1 DEF ClientOK
<1> QED
  BY <1>1, <1>9, <1>10, <1>11

LEMMA WriteCopyKeeps == IInv /\ WriteCopy => IInv'
<1> SUFFICES ASSUME IInv, WriteCopy PROVE IInv'
  OBVIOUS
<1> USE DEF IInv, WriteCopy, decoding, reading, copying
<1>1. InputOK /\ InputOK' /\ L \in Nat /\ L' = L
  BY DEF InputOK, L
<1> DEFINE k == Len(stream)
           code == Copy(sol[i])
<1>2. /\ k \in Nat /\ Place(text, sol)[k] = i /\ i < Len(text)
      /\ \A n \in 0 .. (k - 1) : Place(text, sol)[n] < Len(text) /\ Encodes(text, sol, n, stream[n + 1])
  BY DEF TypeOK, WriterOK, L
<1>3. /\ sol[i] \in [d : Nat, ell : Nat \ {0}] /\ i + sol[i].ell \in 0 .. L
      /\ Place(text, sol)[k + 1] = i + sol[i].ell
  BY <1>1, <1>2, PhraseAt DEF InputOK, L
<1>4. code \in Code /\ Encodes(text, sol, k, code)
  BY <1>2, <1>3 DEF Encodes, Code, Copy
<1>5. stream' = Append(stream, code)
  OBVIOUS
<1> HIDE DEF code
<1>6. /\ stream' \in Seq(Code) /\ Len(stream') = k + 1
      /\ \A n \in 0 .. (Len(stream') - 1) :
           Place(text, sol)[n] < L /\ Encodes(text, sol, n, stream'[n + 1])
  <2>1. stream \in Seq(Code)
    BY DEF TypeOK
  <2> QED
    BY <1>2, <1>4, <1>5, <2>1, AppendEncodes DEF L
<1>7. TypeOK'
  BY <1>1, <1>3, <1>6 DEF TypeOK, Cells
<1>8. Place(text, sol)[Len(stream')] = i'
  BY <1>3, <1>6
<1>9. WriterOK'
  BY <1>1, <1>6, <1>8 DEF WriterOK
<1>10. ReaderOK' /\ FixerOK' /\ CopierOK' /\ DecodedPrefix'
  BY DEF ReaderOK, FixerOK, CopierOK, DecodedPrefix
<1>11. ClientOK'
  BY <1>1 DEF ClientOK
<1> QED
  BY <1>1, <1>7, <1>9, <1>10, <1>11

LEMMA WrittenKeeps == IInv /\ Written => IInv'
<1> SUFFICES ASSUME IInv, Written PROVE IInv'
  OBVIOUS
<1> USE DEF IInv, Written, NewReader, writing, decoding, copying
<1>1. InputOK /\ InputOK' /\ L \in Nat /\ L' = L /\ Len(stream) \in Nat
  BY DEF InputOK, L, TypeOK
<1>2. Place(text, sol)[0] = 0 /\ Counts(text, sol, 0, 0)
  BY <1>1, PlaceStep, FirstIsARun DEF InputOK, L
<1>3. TypeOK'
  BY <1>1 DEF TypeOK, Cells
<1>4. WriterOK'
  BY <1>1 DEF WriterOK, TypeOK
<1>5. ReaderOK'
  BY <1>1, <1>2 DEF ReaderOK
<1>6. FixerOK' /\ CopierOK' /\ DecodedPrefix'
  BY DEF FixerOK, CopierOK, DecodedPrefix
<1>7. ClientOK'
  BY <1>1 DEF ClientOK
<1> QED
  BY <1>1, <1>3, <1>4, <1>5, <1>6, <1>7

(* Reading a code moves the reader to the next phrase with a right count.  *)
LEMMA ReadKeeps ==
  ASSUME IInv, pc \in {"glue", "fix"}, pc' = pc, NEW codes, NEW next,
         ReadCopy(codes) \/ ReadRun(codes, next),
         ~ ReaderEnd => /\ codes[at].d = stream[at].d /\ codes[at].ell = stream[at].ell
                        /\ IsRun(codes[at]) => next = stream[at].next,
         UNCHANGED <<text, sol, writing>>
  PROVE  /\ WriterOK' /\ ReaderOK'
         /\ at' = at + 1 /\ text_pos' \in 0 .. L /\ next_literal' \in Nat
         /\ at - 1 \in 0 .. (Len(stream) - 1)
         /\ IsRun(codes[at]) <=> IsRun(stream[at])
<1> USE DEF IInv, writing
<1>1. InputOK /\ L \in Nat /\ L' = L /\ at' = at + 1 /\ text_pos < L
  BY DEF InputOK, L, ReadCopy, ReadRun, ReaderEnd, TypeOK
<1> DEFINE k == at - 1
<1>2. k \in 0 .. (Len(stream) - 1) /\ k + 1 = at /\ Place(text, sol)[k] = text_pos
  BY <1>1, ReaderAt DEF ReaderOK, TypeOK
<1>3. /\ Counts(text, sol, k, next_literal) /\ next_literal \in Nat
      /\ codes[at].d = stream[at].d /\ codes[at].ell = stream[at].ell
      /\ IsRun(codes[at]) => next = stream[at].next
  <2>1. Counts(text, sol, k, next_literal)
    BY DEF ReaderOK
  <2>2. next_literal \in Nat /\ ~ ReaderEnd
    BY <1>1 DEF TypeOK, ReaderEnd
  <2> QED
    BY <2>1, <2>2
<1>4. /\ Place(text, sol)[at] = text_pos + stream[at].ell /\ text_pos + stream[at].ell \in 0 .. L
      /\ IsRun(stream[at]) => Counts(text, sol, at, stream[at].next)
      /\ stream[at].next \in Nat
  BY <1>2, CodeAt DEF Code
<1>5. IsRun(codes[at]) <=> IsRun(stream[at])
  BY <1>3 DEF IsRun
<1>6. Counts(text, sol, at, next_literal') /\ next_literal' \in Nat
  <2>1. CASE ReadCopy(codes)
    <3>1. next_literal > 0 /\ next_literal' = next_literal - 1
      BY <2>1 DEF ReadCopy
    <3> QED
      BY <1>1, <1>2, <1>3, <3>1, CountsTell DEF InputOK, L
  <2>2. CASE ReadRun(codes, next)
    <3>1. IsRun(codes[at]) /\ next_literal' = next
      BY <2>2 DEF ReadRun
    <3> QED
      BY <1>3, <1>4, <1>5, <3>1
  <2> QED
    BY <2>1, <2>2
<1>7. text_pos' = text_pos + stream[at].ell
  BY <1>3 DEF ReadCopy, ReadRun
<1>8. WriterOK'
  BY <1>1 DEF WriterOK
<1>9. ReaderOK'
  BY <1>1, <1>2, <1>4, <1>6, <1>7 DEF ReaderOK, TypeOK
<1> QED
  BY <1>1, <1>2, <1>4, <1>5, <1>6, <1>7, <1>8, <1>9

LEMMA GlueCopyKeeps == IInv /\ GlueCopy => IInv'
<1> SUFFICES ASSUME IInv, GlueCopy PROVE IInv'
  OBVIOUS
<1> USE DEF IInv, GlueCopy
<1>1. InputOK' /\ L' = L
  BY DEF InputOK, L
<1>2. /\ WriterOK' /\ ReaderOK' /\ at' = at + 1 /\ text_pos' \in 0 .. L /\ next_literal' \in Nat
      /\ at - 1 \in 0 .. (Len(stream) - 1)
  BY ReadKeeps DEF InputOK
<1>3. ~ IsRun(stream[at]) /\ at \in Nat \ {0} /\ at = (at - 1) + 1
  BY DEF ReadCopy, TypeOK
<1>4. stream[at] \in Code /\ stream[at] = Copy(stream[at]) /\ ~ RunAt(text, sol, at - 1)
  BY <1>2, <1>3, CodeAt
<1>5. /\ glued' \in Seq(Code) /\ Len(glued') = Len(glued) + 1 /\ glued'[Len(glued) + 1] = stream[at]
      /\ \A k \in 1 .. Len(glued) : glued'[k] = glued[k]
      /\ Len(glued) = at - 1
  <2>1. glued \in Seq(Code) /\ glued' = Append(glued, stream[at]) /\ Len(glued) = at - 1
    BY <1>4 DEF TypeOK, ClientOK
  <2> QED
    BY <2>1, <1>4
<1>6. TypeOK'
  <2>1. glued' \in Seq(Code) /\ at' \in Nat \ {0} /\ Cells' = Cells
    BY <1>1, <1>2, <1>3, <1>5 DEF Cells
  <2> QED
    BY <1>1, <1>2, <2>1 DEF TypeOK, writing, decoding, copying
<1>7. ClientOK'
  <2>1. RunsBefore(text, sol, at) = RunsBefore(text, sol, at - 1)
    <3>1. at - 1 \in Nat
      BY <1>3
    <3>2. RunsBefore(text, sol, (at - 1) + 1) = RunsBefore(text, sol, at - 1)
      BY <3>1, <1>4, RunsStep
    <3> QED
      BY <3>2, <1>3
  <2>2. ASSUME NEW k \in 1 .. Len(glued')
        PROVE  glued'[k] = IF IsRun(stream[k]) THEN Run(stream[k].data, WrongCount) ELSE stream[k]
    BY <1>3, <1>5 DEF ClientOK
  <2>3. ASSUME NEW k \in 0 .. (Len(glued') - 1), RunAt(text, sol, k)
        PROVE  k \in 0 .. (Len(glued) - 1)
    BY <1>3, <1>4, <1>5, <2>3
  <2> QED
    BY <1>1, <1>2, <1>3, <1>5, <2>1, <2>2, <2>3 DEF ClientOK, writing
<1>8. FixerOK' /\ CopierOK' /\ DecodedPrefix'
  BY DEF FixerOK, CopierOK, DecodedPrefix
<1> QED
  BY <1>1, <1>2, <1>6, <1>7, <1>8

LEMMA GlueRunKeeps == IInv /\ GlueRun => IInv'
<1> SUFFICES ASSUME IInv, GlueRun PROVE IInv'
  OBVIOUS
<1> USE DEF IInv, GlueRun
<1>1. InputOK' /\ L' = L
  BY DEF InputOK, L
<1>2. /\ WriterOK' /\ ReaderOK' /\ at' = at + 1 /\ text_pos' \in 0 .. L /\ next_literal' \in Nat
      /\ at - 1 \in 0 .. (Len(stream) - 1)
  BY ReadKeeps DEF InputOK
<1>3. IsRun(stream[at]) /\ at \in Nat \ {0} /\ at = (at - 1) + 1
  BY DEF ReadRun, TypeOK
<1> DEFINE code == Run(stream[at].data, WrongCount)
<1>4. /\ stream[at] \in Code /\ code \in Code /\ RunAt(text, sol, at - 1)
      /\ stream[at].next \in Nat
  <2>1. stream[at] \in Code /\ RunAt(text, sol, at - 1) /\ stream[at] = Run(stream[at].data, stream[at].next)
    BY <1>2, <1>3, CodeAt
  <2>2. stream[at].data \in Seq(Symbols) /\ stream[at].next \in Nat
    BY <2>1 DEF Code
  <2>3. Len(stream[at].data) \in Nat
    BY <2>2
  <2> QED
    BY <2>1, <2>2, <2>3, WordAssumption DEF Run, Code
<1> HIDE DEF code
<1>5. /\ glued' \in Seq(Code) /\ Len(glued') = Len(glued) + 1 /\ glued'[Len(glued) + 1] = code
      /\ \A k \in 1 .. Len(glued) : glued'[k] = glued[k]
      /\ Len(glued) = at - 1
  <2>1. glued \in Seq(Code) /\ glued' = Append(glued, code) /\ Len(glued) = at - 1
    BY <1>4 DEF TypeOK, ClientOK, code
  <2> QED
    BY <2>1, <1>4
<1>6. /\ lits' \in Seq(Nat) /\ Len(lits') = Len(lits) + 1 /\ lits'[Len(lits) + 1] = stream[at].next
      /\ \A k \in 1 .. Len(lits) : lits'[k] = lits[k]
      /\ Len(lits) = RunsBefore(text, sol, at - 1)
  <2>1. lits \in Seq(Nat) /\ lits' = Append(lits, stream[at].next)
    BY DEF TypeOK
  <2> QED
    BY <2>1, <1>4, <1>5 DEF ClientOK
<1>7. TypeOK'
  <2>1. glued' \in Seq(Code) /\ lits' \in Seq(Nat) /\ at' \in Nat \ {0}
    BY <1>2, <1>3, <1>5, <1>6
  <2> QED
    BY <1>1, <1>2, <2>1 DEF TypeOK, Cells, writing, decoding, copying
<1>8. ClientOK'
  <2>1. RunsBefore(text, sol, at) = RunsBefore(text, sol, at - 1) + 1
    <3>1. at - 1 \in Nat
      BY <1>3
    <3>2. RunsBefore(text, sol, (at - 1) + 1) = RunsBefore(text, sol, at - 1) + 1
      BY <3>1, <1>4, RunsStep
    <3> QED
      BY <3>2, <1>3
  <2>2. ASSUME NEW k \in 1 .. Len(glued')
        PROVE  glued'[k] = IF IsRun(stream[k]) THEN Run(stream[k].data, WrongCount) ELSE stream[k]
    BY <1>3, <1>5 DEF ClientOK, code
  <2>3. ASSUME NEW k \in 0 .. (Len(glued') - 1), RunAt(text, sol, k)
        PROVE  RunsBefore(text, sol, k) + 1 <= Len(lits') /\ lits'[RunsBefore(text, sol, k) + 1] = stream[k + 1].next
    <3>1. CASE k = at - 1
      BY <3>1, <1>3, <1>6
    <3>2. CASE k # at - 1
      <4>1. k \in 0 .. (Len(glued) - 1) /\ k \in Nat
        BY <3>2, <1>3, <1>5
      <4>3. RunsBefore(text, sol, k) \in Nat
        BY <4>1, RunsStep
      <4>2. RunsBefore(text, sol, k) + 1 <= Len(lits) /\ lits[RunsBefore(text, sol, k) + 1] = stream[k + 1].next
        BY <4>1, <2>3 DEF ClientOK
      <4> QED
        <5>1. Len(lits) \in Nat
          BY DEF TypeOK
        <5>2. RunsBefore(text, sol, k) + 1 \in 1 .. Len(lits)
          BY <4>2, <4>3, <5>1
        <5> QED
          BY <4>2, <5>1, <5>2, <1>6
    <3> QED
      BY <3>1, <3>2
  <2>4. Len(lits') = RunsBefore(text, sol, Len(glued'))
    BY <1>3, <1>5, <1>6, <2>1
  <2>5. Len(glued') = at' - 1
    BY <1>2, <1>3, <1>5
  <2> QED
    BY <2>2, <2>3, <2>4, <2>5 DEF ClientOK, writing
<1>9. FixerOK' /\ CopierOK' /\ DecodedPrefix'
  BY DEF FixerOK, CopierOK, DecodedPrefix
<1> QED
  BY <1>1, <1>2, <1>7, <1>8, <1>9

LEMMA GluedKeeps == IInv /\ Glued => IInv'
<1> SUFFICES ASSUME IInv, Glued PROVE IInv'
  OBVIOUS
<1> USE DEF IInv, Glued, NewReader, writing, decoding, copying
<1>1. InputOK /\ InputOK' /\ L \in Nat /\ L' = L /\ Len(stream) \in Nat
  BY DEF InputOK, L, TypeOK
<1>2. Place(text, sol)[0] = 0 /\ Counts(text, sol, 0, 0) /\ RunsBefore(text, sol, 0) = 0
  BY <1>1, PlaceStep, FirstIsARun, RunsStep DEF InputOK, L
<1>3. at - 1 = Len(stream)
  <2>1. at - 1 <= Len(stream) /\ ~ Place(text, sol)[at - 1] < L
    BY <1>1 DEF ReaderOK, ReaderEnd, TypeOK
  <2>2. at - 1 \in 0 .. (Len(stream) - 1) => Place(text, sol)[at - 1] < L
    BY DEF WriterOK
  <2> QED
    BY <1>1, <2>1, <2>2 DEF TypeOK
<1>4. TypeOK'
  BY <1>1 DEF TypeOK, Cells
<1>5. WriterOK'
  BY <1>1 DEF WriterOK, TypeOK
<1>6. ReaderOK'
  BY <1>1, <1>2 DEF ReaderOK
<1>7. FixerOK' /\ CopierOK' /\ DecodedPrefix'
  BY <1>2, EmptySeq DEF FixerOK, CopierOK, DecodedPrefix
<1>8. ClientOK'
  BY <1>1, <1>3 DEF ClientOK
<1> QED
  BY <1>1, <1>4, <1>5, <1>6, <1>7, <1>8

(* What is glued is of the same kind and length as what was written. *)
LEMMA GluedAt ==
  ASSUME IInv, pc = "fix", ~ ReaderEnd
  PROVE  /\ at - 1 \in 0 .. (Len(stream) - 1) /\ at \in Nat /\ at = (at - 1) + 1
         /\ glued[at].d = stream[at].d /\ glued[at].ell = stream[at].ell
         /\ ~ IsRun(stream[at]) => glued[at] = stream[at]
         /\ IsRun(stream[at]) => glued[at].data = stream[at].data
<1>1. at \in Nat /\ at = (at - 1) + 1 /\ at - 1 \in 0 .. (Len(stream) - 1)
  <2>1. Place(text, sol)[at - 1] < L
    BY DEF IInv, ReaderOK, ReaderEnd, TypeOK, InputOK, L
  <2> QED
    BY <2>1, ReaderAt DEF IInv, TypeOK
<1>2. at \in 1 .. Len(glued)
  BY <1>1 DEF IInv, ClientOK
<1>3. glued[at] = IF IsRun(stream[at]) THEN Run(stream[at].data, WrongCount) ELSE stream[at]
  BY <1>2 DEF IInv, ClientOK
<1>4. CASE IsRun(stream[at])
  <2>1. stream[at] = Run(stream[at].data, stream[at].next)
    BY <1>1, <1>4, CodeAt
  <2>2. stream[at].d = 0 /\ stream[at].ell = Len(stream[at].data)
    BY <2>1 DEF Run
  <2>3. glued[at].d = 0 /\ glued[at].ell = Len(stream[at].data) /\ glued[at].data = stream[at].data
    BY <1>3, <1>4 DEF Run
  <2> QED
    BY <1>1, <1>4, <2>2, <2>3
<1>5. CASE ~ IsRun(stream[at])
  BY <1>1, <1>3, <1>5
<1> QED
  BY <1>4, <1>5

(* fix_parsing writes each code as write_parsing did. *)
LEMMA FixKeeps ==
  ASSUME IInv, pc = "fix", pc' = pc, WriterOK', ReaderOK', at' = at + 1,
         at - 1 \in 0 .. (Len(stream) - 1),
         fixed' = Append(fixed, stream[at]), lit' = RunsBefore(text, sol, at),
         text_pos' \in 0 .. L, next_literal' \in Nat,
         UNCHANGED <<text, sol, writing, glued, lits, decoding>>
  PROVE  IInv'
<1> USE DEF IInv
<1>1. InputOK' /\ L' = L
  BY DEF InputOK, L
<1>2. at \in Nat \ {0} /\ at = (at - 1) + 1 /\ stream[at] \in Code /\ at \in 1 .. Len(stream)
  BY CodeAt DEF TypeOK
<1>3. /\ fixed' \in Seq(Code) /\ Len(fixed') = at /\ fixed'[at] = stream[at]
      /\ \A k \in 1 .. (at - 1) : fixed'[k] = fixed[k]
  <2>1. fixed \in Seq(Code) /\ Len(fixed) = at - 1
    BY DEF TypeOK, FixerOK
  <2> QED
    BY <1>2, <2>1
<1>4. lit' \in Nat
  BY <1>2, RunsStep
<1>5. TypeOK'
  <2>1. fixed' \in Seq(Code) /\ at' \in Nat \ {0} /\ Cells' = Cells
    BY <1>1, <1>2, <1>3 DEF Cells
  <2> QED
    BY <1>1, <1>4, <2>1 DEF TypeOK, writing, decoding, copying
<1>6. ClientOK'
  BY DEF ClientOK, writing
<1>7. FixerOK'
  BY <1>2, <1>3 DEF FixerOK, writing
<1>8. CopierOK' /\ DecodedPrefix'
  BY DEF CopierOK, DecodedPrefix
<1> QED
  BY <1>1, <1>5, <1>6, <1>7, <1>8

LEMMA FixCopyKeeps == IInv /\ FixCopy => IInv'
<1> SUFFICES ASSUME IInv, FixCopy PROVE IInv'
  OBVIOUS
<1> USE DEF FixCopy
<1>1. ~ ReaderEnd /\ ~ IsRun(glued[at])
  BY DEF ReadCopy
<1>2. /\ at - 1 \in 0 .. (Len(stream) - 1) /\ at \in Nat /\ at = (at - 1) + 1
      /\ glued[at].d = stream[at].d /\ glued[at].ell = stream[at].ell
      /\ ~ IsRun(stream[at]) => glued[at] = stream[at]
  BY <1>1, GluedAt
<1>3. ~ IsRun(stream[at]) /\ glued[at] = stream[at]
  BY <1>1, <1>2 DEF IsRun
<1>4. /\ WriterOK' /\ ReaderOK' /\ at' = at + 1 /\ text_pos' \in 0 .. L /\ next_literal' \in Nat
  BY <1>1, <1>2, ReadKeeps
<1>5. stream[at] = Copy(stream[at]) /\ ~ RunAt(text, sol, at - 1)
  BY <1>2, <1>3, CodeAt
<1>6. fixed' = Append(fixed, stream[at])
  BY <1>3, <1>5
<1>7. lit' = RunsBefore(text, sol, at)
  <2>1. RunsBefore(text, sol, (at - 1) + 1) = RunsBefore(text, sol, at - 1)
    <3>1. at - 1 \in Nat
      BY <1>2
    <3> QED
      BY <3>1, <1>5, RunsStep
  <2> QED
    BY <1>2, <2>1 DEF IInv, FixerOK
<1> QED
  BY <1>2, <1>4, <1>6, <1>7, FixKeeps

LEMMA FixRunKeeps == IInv /\ FixRun => IInv'
<1> SUFFICES ASSUME IInv, FixRun PROVE IInv'
  OBVIOUS
<1> USE DEF FixRun
<1>1. ~ ReaderEnd /\ IsRun(glued[at])
  BY DEF ReadRun
<1>2. /\ at - 1 \in 0 .. (Len(stream) - 1) /\ at \in Nat /\ at = (at - 1) + 1
      /\ glued[at].d = stream[at].d /\ glued[at].ell = stream[at].ell
      /\ IsRun(stream[at]) => glued[at].data = stream[at].data
  BY <1>1, GluedAt
<1>3. IsRun(stream[at]) /\ glued[at].data = stream[at].data
  BY <1>1, <1>2 DEF IsRun
<1>4. stream[at] = Run(stream[at].data, stream[at].next) /\ RunAt(text, sol, at - 1)
  BY <1>2, <1>3, CodeAt
<1>5. lits[lit + 1] = stream[at].next
  BY <1>2, <1>4 DEF IInv, ClientOK, FixerOK
<1>6. /\ WriterOK' /\ ReaderOK' /\ at' = at + 1 /\ text_pos' \in 0 .. L /\ next_literal' \in Nat
  BY <1>1, <1>2, <1>5, ReadKeeps
<1>7. fixed' = Append(fixed, stream[at])
  BY <1>3, <1>4, <1>5
<1>8. lit' = RunsBefore(text, sol, at)
  <2>1. RunsBefore(text, sol, (at - 1) + 1) = RunsBefore(text, sol, at - 1) + 1
    <3>1. at - 1 \in Nat
      BY <1>2
    <3> QED
      BY <3>1, <1>4, RunsStep
  <2> QED
    BY <1>2, <2>1 DEF IInv, FixerOK
<1> QED
  BY <1>2, <1>6, <1>7, <1>8, FixKeeps

(* fix_parsing gives back the stream. *)
LEMMA FixedIsStream ==
  ASSUME IInv, pc = "fix", ReaderEnd
  PROVE  fixed = stream /\ at - 1 = Len(stream) /\ lit = Len(lits)
<1>1. at - 1 = Len(stream)
  <2>1. at - 1 \in Nat /\ at - 1 <= Len(stream) /\ ~ Place(text, sol)[at - 1] < L /\ Len(stream) \in Nat
    BY DEF IInv, ReaderOK, ReaderEnd, TypeOK, InputOK, L
  <2>2. at - 1 \in 0 .. (Len(stream) - 1) => Place(text, sol)[at - 1] < L
    BY DEF IInv, WriterOK
  <2> QED
    BY <2>1, <2>2
<1>2. /\ fixed \in Seq(Code) /\ stream \in Seq(Code) /\ Len(fixed) = Len(stream)
      /\ \A k \in 1 .. Len(stream) : fixed[k] = stream[k]
  BY <1>1 DEF IInv, FixerOK, TypeOK
<1>3. fixed = stream
  BY <1>2, SeqEqual
<1> QED
  BY <1>1, <1>3 DEF IInv, FixerOK, ClientOK

(* The literals of a run are those of the text. *)
LEMMA RunData ==
  ASSUME IInv, NEW k \in 0 .. (Len(stream) - 1), IsRun(stream[k + 1])
  PROVE  LET n == Place(text, sol)[k]
             data == stream[k + 1].data
         IN  /\ data \in Seq(Symbols) /\ Len(data) = stream[k + 1].ell
             /\ \A q \in 1 .. Len(data) : data[q] = text[n + q]
<1>1. PICK n \in Int, code \in Code : /\ n = Place(text, sol)[k] /\ code = stream[k + 1]
                                     /\ n \in 0 .. (L - 1) /\ code.ell \in Nat /\ n + code.ell \in 0 .. L
                                     /\ code = Run(SubSeq(text, n + 1, n + code.ell), code.next)
  <2>1. /\ stream[k + 1] \in Code /\ Place(text, sol)[k] \in 0 .. (L - 1)
        /\ Place(text, sol)[k] + stream[k + 1].ell \in 0 .. L
        /\ stream[k + 1] = Run(SubSeq(text, Place(text, sol)[k] + 1, Place(text, sol)[k] + stream[k + 1].ell),
                               stream[k + 1].next)
    BY CodeAt
  <2>2. stream[k + 1].ell \in Nat /\ Place(text, sol)[k] \in Int
    BY <2>1 DEF Code
  <2> QED
    BY <2>1, <2>2
<1>2. text \in Seq(Symbols) /\ L = Len(text)
  BY DEF IInv, InputOK, L
<1> DEFINE sub == SubSeq(text, n + 1, n + code.ell)
<1>3. sub \in Seq(Symbols) /\ Len(sub) = code.ell /\ \A q \in 1 .. code.ell : sub[q] = text[n + q]
  <2>1. n \in Nat /\ code.ell \in Nat /\ n + code.ell <= Len(text)
    BY <1>1, <1>2
  <2> QED
    BY <1>2, <2>1, SubText
<1>4. code.data = sub
  <2>1. code = [d |-> 0, ell |-> Len(sub), data |-> sub, next |-> code.next]
    BY <1>1 DEF Run
  <2> HIDE DEF sub
  <2> QED
    BY <2>1
<1> HIDE DEF sub
<1> QED
  BY <1>1, <1>3, <1>4

(* A run stored after the text it follows extends the text; what the words *)
(* overwrite after it does not matter.                                     *)
LEMMA StoreRunText ==
  ASSUME IInv, NEW n \in 0 .. L, NEW data \in Seq(Symbols), n + Len(data) \in 0 .. L,
         \A q \in 1 .. Len(data) : data[q] = text[n + q],
         \A p \in 0 .. (n - 1) : mem[p] = text[p + 1]
  PROVE  /\ StoreRun(mem, n, data) \in [Cells -> Symbols \union {Free, "junk"}]
         /\ \A p \in 0 .. (n + Len(data) - 1) : StoreRun(mem, n, data)[p] = text[p + 1]
<1>1. L \in Nat /\ Word \in Nat \ {0} /\ mem \in [Cells -> Symbols \union {Free, "junk"}]
  BY WordAssumption DEF IInv, InputOK, TypeOK, L
<1>2. PICK ell \in Nat : ell = Len(data)
  OBVIOUS
<1> DEFINE m == StoreRun(mem, n, data)
           Stored(p) == p \in n .. (n + ell - 1)
<1>3. m = [p \in Cells |-> IF Stored(p) THEN data[p - n + 1]
                          ELSE IF p \in n .. (n + Rounded(ell) - 1) THEN "junk" ELSE mem[p]]
  BY <1>2 DEF StoreRun
<1> HIDE DEF m
<1>4. ASSUME NEW p \in Cells, Stored(p)
      PROVE  m[p] = data[p - n + 1] /\ p - n + 1 \in 1 .. ell /\ m[p] \in Symbols /\ m[p] = text[p + 1]
  <2>1. m[p] = data[p - n + 1]
    BY <1>3, <1>4
  <2>2. PICK q \in 1 .. ell : q = p - n + 1 /\ n + q = p + 1
    BY <1>4
  <2> QED
    BY <1>2, <2>1, <2>2
<1>5. ASSUME NEW p \in Cells, p < n PROVE m[p] = mem[p] /\ m[p] = text[p + 1]
  <2>1. p \in 0 .. (n - 1) /\ ~ (p \in n .. (n + ell - 1)) /\ ~ (p \in n .. (n + Rounded(ell) - 1))
    BY <1>1, <1>5 DEF Cells
  <2> QED
    BY <1>3, <2>1
<1>6. m \in [Cells -> Symbols \union {Free, "junk"}]
  <2> SUFFICES ASSUME NEW p \in Cells PROVE m[p] \in Symbols \union {Free, "junk"}
    BY <1>3
  <2> QED
    BY <1>1, <1>3, <1>4
<1>7. ASSUME NEW p \in 0 .. (n + ell - 1) PROVE m[p] = text[p + 1]
  <2>1. p \in Cells /\ (p < n \/ Stored(p))
    BY <1>1, <1>2 DEF Cells
  <2> HIDE DEF Stored
  <2> QED
    BY <2>1, <1>4, <1>5
<1> QED
  BY <1>2, <1>6, <1>7 DEF m

LEMMA RunDecoded ==
  ASSUME IInv, NEW k \in 0 .. (Len(stream) - 1), IsRun(stream[k + 1]),
         \A p \in 0 .. (Place(text, sol)[k] - 1) : mem[p] = text[p + 1],
         mem' = StoreRun(mem, Place(text, sol)[k], stream[k + 1].data)
  PROVE  /\ mem' \in [Cells -> Symbols \union {Free, "junk"}]
         /\ \A p \in 0 .. (Place(text, sol)[k + 1] - 1) : mem'[p] = text[p + 1]
<1> DEFINE n == Place(text, sol)[k]
           data == stream[k + 1].data
<1>1. /\ n \in 0 .. (L - 1) /\ n + stream[k + 1].ell \in 0 .. L
      /\ Place(text, sol)[k + 1] = n + stream[k + 1].ell
  BY CodeAt
<1>2. /\ data \in Seq(Symbols) /\ Len(data) = stream[k + 1].ell
      /\ \A q \in 1 .. Len(data) : data[q] = text[n + q]
  BY RunData
<1>3. /\ mem' = StoreRun(mem, n, data)
      /\ \A p \in 0 .. (n - 1) : mem[p] = text[p + 1]
  OBVIOUS
<1> HIDE DEF n, data
<1>4. n \in 0 .. L
  BY <1>1 DEF IInv, InputOK, L
<1>5. n + Len(data) \in 0 .. L
  BY <1>1, <1>2
<1>6. /\ StoreRun(mem, n, data) \in [Cells -> Symbols \union {Free, "junk"}]
      /\ \A p \in 0 .. (n + Len(data) - 1) : StoreRun(mem, n, data)[p] = text[p + 1]
  BY <1>2, <1>3, <1>4, <1>5, StoreRunText
<1> QED
  BY <1>1, <1>2, <1>3, <1>6

LEMMA DecodeFirstKeeps == IInv /\ DecodeFirst => IInv'
<1> SUFFICES ASSUME IInv, DecodeFirst PROVE IInv'
  OBVIOUS
<1> USE DEF IInv, DecodeFirst
<1>1. InputOK /\ InputOK' /\ L \in Nat /\ L' = L
  BY DEF InputOK, L
<1>2. fixed = stream /\ at - 1 = Len(stream)
  BY FixedIsStream
<1>3. Place(text, sol)[0] = 0 /\ 0 \in 0 .. (Len(stream) - 1)
  <2>1. Place(text, sol)[0] = 0 /\ 0 < L
    BY <1>1, PlaceStep, FirstIsARun DEF InputOK, RunAt, L
  <2>2. Place(text, sol)[Len(stream)] = L
    BY DEF WriterOK
  <2>3. Len(stream) \in Nat /\ Len(stream) # 0
    BY <1>1, <2>1, <2>2 DEF TypeOK
  <2> QED
    BY <2>1, <2>3
<1>4. /\ stream[1] \in Code /\ stream[1].ell \in 0 .. L /\ Place(text, sol)[1] = stream[1].ell
      /\ Counts(text, sol, 1, stream[1].next) /\ stream[1].next \in Nat
  <2>1. /\ stream[0 + 1] \in Code /\ 0 + stream[0 + 1].ell \in 0 .. L
        /\ Place(text, sol)[0 + 1] = 0 + stream[0 + 1].ell
        /\ Counts(text, sol, 0 + 1, stream[0 + 1].next)
    BY <1>2, <1>3, CodeAt
  <2> QED
    BY <2>1 DEF Code
<1>5. mem' = StoreRun(mem, Place(text, sol)[0], stream[0 + 1].data) /\ IsRun(stream[0 + 1])
  BY <1>2, <1>3
<1>6. /\ mem' \in [Cells -> Symbols \union {Free, "junk"}]
      /\ \A p \in 0 .. (output' - 1) : mem'[p] = text[p + 1]
  <2>1. output' = Place(text, sol)[0 + 1]
    BY <1>2, <1>4
  <2>2. \A p \in 0 .. (Place(text, sol)[0] - 1) : mem[p] = text[p + 1]
    BY <1>3
  <2> QED
    BY <1>3, <1>5, <2>1, <2>2, RunDecoded
<1>7. TypeOK'
  BY <1>1, <1>2, <1>4, <1>6 DEF TypeOK, Cells, writing, copying
<1>8. WriterOK'
  BY <1>1 DEF WriterOK, writing
<1>9. ReaderOK'
  BY <1>2, <1>3, <1>4 DEF ReaderOK, TypeOK, writing
<1>10. ClientOK' /\ FixerOK' /\ CopierOK'
  BY <1>2 DEF ClientOK, FixerOK, CopierOK, writing
<1>11. DecodedPrefix'
  BY <1>6 DEF DecodedPrefix
<1> QED
  BY <1>1, <1>7, <1>8, <1>9, <1>10, <1>11

LEMMA DecodeRunKeeps == IInv /\ DecodeRun => IInv'
<1> SUFFICES ASSUME IInv, DecodeRun PROVE IInv'
  OBVIOUS
<1> USE DEF IInv, DecodeRun
<1>1. InputOK /\ InputOK' /\ L \in Nat /\ L' = L
  BY DEF InputOK, L
<1>2. fixed = stream /\ Place(text, sol)[at - 1] = output /\ output \in 0 .. L /\ at = (at - 1) + 1 /\ at \in Nat
  BY DEF FixerOK, ReaderOK, TypeOK
<1>3. at - 1 \in 0 .. (Len(stream) - 1)
  BY <1>2, ReaderAt
<1>4. IsRun(stream[at])
  BY <1>2
<1>5. /\ stream[at] \in Code /\ output + stream[at].ell \in 0 .. L
      /\ Place(text, sol)[at] = output + stream[at].ell
      /\ Counts(text, sol, at, stream[at].next) /\ stream[at].next \in Nat
  BY <1>2, <1>3, <1>4, CodeAt DEF Code
<1>6. mem' = StoreRun(mem, Place(text, sol)[at - 1], stream[(at - 1) + 1].data) /\ IsRun(stream[(at - 1) + 1])
  BY <1>2, <1>4
<1>7. /\ mem' \in [Cells -> Symbols \union {Free, "junk"}]
      /\ \A p \in 0 .. (output' - 1) : mem'[p] = text[p + 1]
  <2>1. output' = Place(text, sol)[(at - 1) + 1]
    BY <1>2, <1>5
  <2>2. \A p \in 0 .. (Place(text, sol)[at - 1] - 1) : mem[p] = text[p + 1]
    BY <1>2 DEF DecodedPrefix
  <2> QED
    BY <1>3, <1>6, <2>1, <2>2, RunDecoded
<1>8. TypeOK'
  BY <1>1, <1>2, <1>5, <1>7 DEF TypeOK, Cells, writing, copying
<1>9. WriterOK'
  BY <1>1 DEF WriterOK, writing
<1>10. ReaderOK'
  BY <1>2, <1>3, <1>5 DEF ReaderOK, TypeOK, writing
<1>11. ClientOK' /\ FixerOK' /\ CopierOK'
  BY <1>2 DEF ClientOK, FixerOK, CopierOK, writing
<1>12. DecodedPrefix'
  BY <1>7 DEF DecodedPrefix
<1> QED
  BY <1>1, <1>8, <1>9, <1>10, <1>11, <1>12

LEMMA FinishKeeps == IInv /\ Finish => IInv'
<1> SUFFICES ASSUME IInv, Finish PROVE IInv'
  OBVIOUS
<1> USE DEF IInv, Finish
<1>1. InputOK /\ InputOK' /\ L \in Nat /\ L' = L /\ output = L
  BY DEF InputOK, L, TypeOK
<1>2. TypeOK' /\ WriterOK' /\ ReaderOK' /\ ClientOK' /\ FixerOK' /\ CopierOK'
  BY <1>1 DEF TypeOK, Cells, WriterOK, ReaderOK, ClientOK, FixerOK, CopierOK, writing, copying
<1>3. DecodedPrefix'
  BY <1>1 DEF DecodedPrefix
<1> QED
  BY <1>1, <1>2, <1>3

(* The copy a decoder is at gives symbols that stand before in the text. *)
LEMMA CopyOf ==
  ASSUME IInv, pc \in {"decode", "spread"}, output < L, next_literal > 0
  PROVE  /\ at \in Nat \ {0} /\ at - 1 \in 0 .. (Len(stream) - 1) /\ output \in 0 .. L
         /\ fixed = stream /\ CopyAt(text, sol, at - 1)
         /\ fixed[at].d = sol[output].d /\ fixed[at].ell = sol[output].ell
         /\ sol[output].d \in 1 .. output /\ sol[output].ell \in Nat \ {0}
         /\ output + sol[output].ell \in 0 .. L
         /\ Place(text, sol)[at] = output + sol[output].ell
         /\ Counts(text, sol, at, next_literal - 1)
         /\ \A k \in 1 .. sol[output].ell : text[output + k] = text[output + k - sol[output].d]
<1>1. /\ Len(text) \in Nat /\ L = Len(text) /\ IsParsing(text, sol)
      /\ fixed = stream /\ Place(text, sol)[at - 1] = output /\ output \in 0 .. L
      /\ at - 1 \in Nat /\ at = (at - 1) + 1 /\ at \in Nat \ {0}
      /\ next_literal \in Nat /\ Counts(text, sol, at - 1, next_literal)
  BY DEF IInv, InputOK, FixerOK, ReaderOK, TypeOK, L
<1>2. at - 1 \in 0 .. (Len(stream) - 1)
  BY <1>1, ReaderAt
<1>3. CopyAt(text, sol, at - 1) /\ Counts(text, sol, at, next_literal - 1)
  BY <1>1, CountsTell
<1>4. /\ sol[output] \in [d : Nat, ell : Nat \ {0}]
      /\ output + sol[output].ell \in 0 .. L /\ Place(text, sol)[at] = output + sol[output].ell
      /\ sol[output].d > 0 /\ Copies(text, output, sol[output])
  <2>1. /\ sol[output] \in [d : Nat, ell : Nat \ {0}]
        /\ output + sol[output].ell \in 0 .. Len(text)
        /\ Place(text, sol)[(at - 1) + 1] = output + sol[output].ell
        /\ sol[output].d > 0 => Copies(text, output, sol[output])
        /\ CopyAt(text, sol, at - 1) <=> sol[output].d > 0
    BY <1>1, PhraseAt
  <2> QED
    BY <1>1, <1>3, <2>1
<1>5. stream[at] = Copy(sol[output])
  <2>1. ~ IsRun(stream[(at - 1) + 1]) => stream[(at - 1) + 1] = Copy(sol[output])
    BY <1>1, <1>2, CodeAt
  <2>2. ~ IsRun(stream[(at - 1) + 1])
    BY <1>2, <1>3, CodeAt
  <2> QED
    BY <1>1, <2>1, <2>2
<1>6. stream[at].d = sol[output].d /\ stream[at].ell = sol[output].ell
  BY <1>5 DEF Copy
<1> QED
  BY <1>1, <1>2, <1>3, <1>4, <1>6 DEF Copies

LEMMA DecodeCopyKeeps == IInv /\ DecodeCopy => IInv'
<1> SUFFICES ASSUME IInv, DecodeCopy PROVE IInv'
  OBVIOUS
<1> USE DEF IInv, DecodeCopy
<1>1. InputOK /\ InputOK' /\ L \in Nat /\ L' = L
  BY DEF InputOK, L
<1> DEFINE d == sol[output].d
           ell == sol[output].ell
<1>2. /\ fixed = stream /\ CopyAt(text, sol, at - 1) /\ output \in 0 .. L
      /\ fixed[at].d = d /\ fixed[at].ell = ell
      /\ d \in 1 .. output /\ ell \in Nat \ {0} /\ output + ell \in 0 .. L
      /\ \A k \in 1 .. ell : text[output + k] = text[output + k - d]
  BY CopyOf
<1> HIDE DEF d, ell
<1>3. op' = output /\ src' = output - d /\ len' = ell
  BY <1>2
<1>4. TypeOK'
  <2>1. op' \in Int /\ src' \in Int /\ len' \in Int /\ Cells' = Cells
    BY <1>1, <1>2, <1>3 DEF Cells
  <2> QED
    BY <1>1, <2>1 DEF TypeOK, writing
<1>5. CopierOK'
  <2>1. ASSUME NEW p \in 0 .. (output + ell - 1), p >= output
        PROVE  text[p + 1] = text[p + 1 - d]
    <3>1. PICK k \in 1 .. ell : output + k = p + 1
      <4>1. p + 1 - output \in 1 .. ell
        BY <1>2, <2>1
      <4> QED
        BY <4>1, <1>2
    <3> QED
      BY <3>1, <1>2
  <2>2. \A p \in 0 .. (output - 1) : mem[p] = text[p + 1]
    BY DEF DecodedPrefix
  <2>3. op' - src' = d /\ op' + len' = output + ell /\ output - d + d = output
    BY <1>2, <1>3
  <2>4. /\ next_literal' > 0 /\ output' = output /\ sol' = sol /\ text' = text /\ at' = at /\ mem' = mem
    OBVIOUS
  <2>5. ASSUME NEW p \in 0 .. (output + ell - 1)
        PROVE  /\ p >= output - d + (op' - src') => text[p + 1] = text[p + 1 - (op' - src')]
               /\ p < op' => mem[p] = text[p + 1]
    BY <1>2, <1>3, <2>1, <2>2, <2>3
  <2> HIDE DEF DecodeCopy
  <2> QED
    BY <1>2, <1>3, <2>3, <2>4, <2>5 DEF CopierOK, d, ell
<1>6. WriterOK' /\ ReaderOK' /\ ClientOK' /\ FixerOK' /\ DecodedPrefix'
  BY <1>1 DEF WriterOK, ReaderOK, ClientOK, FixerOK, DecodedPrefix, writing
<1> QED
  BY <1>1, <1>4, <1>5, <1>6

(* What a copy knows in its loops. *)
InLoop(d, ell, D) ==
  /\ d = sol[output].d /\ ell = sol[output].ell /\ D = op - src
  /\ d <= output /\ output \in Nat /\ output + ell <= L
  /\ op \in Int /\ src \in Int /\ len \in Int /\ src >= output - d /\ src = op - D /\ src >= 0
  /\ op + len = output + ell
  /\ \A p \in 0 .. (output + ell - 1) :
       /\ p >= output - d + D => text[p + 1] = text[p + 1 - D]
       /\ p < op => mem[p] = text[p + 1]
LEMMA CopyLoop ==
  ASSUME IInv, pc = "spread"
  PROVE  \E d, ell, D \in Nat \ {0} : InLoop(d, ell, D)
<1>1. output < L
  <2>1. CopyAt(text, sol, at - 1) /\ Place(text, sol)[at - 1] = output
    BY DEF IInv, CopierOK, ReaderOK
  <2> QED
    BY <2>1 DEF CopyAt, L
<1>2. next_literal > 0
  BY DEF IInv, CopierOK
<1>3. /\ output \in 0 .. L /\ sol[output].d \in 1 .. output /\ sol[output].ell \in Nat \ {0}
      /\ output + sol[output].ell \in 0 .. L /\ L \in Nat
  BY <1>1, <1>2, CopyOf DEF IInv, InputOK, L
<1>4. op \in Int /\ src \in Int /\ len \in Int
  BY DEF IInv, TypeOK
<1>5. /\ op + len = output + sol[output].ell
      /\ op - src >= 1 /\ src >= output - sol[output].d
      /\ \A p \in 0 .. (output + sol[output].ell - 1) :
           /\ p >= output - sol[output].d + (op - src) => text[p + 1] = text[p + 1 - (op - src)]
           /\ p < op => mem[p] = text[p + 1]
  BY DEF IInv, CopierOK
<1>6. op - src \in Nat \ {0} /\ src = op - (op - src) /\ sol[output].d \in Nat \ {0}
      /\ sol[output].d <= output /\ output \in Nat /\ output + sol[output].ell <= L
  BY <1>3, <1>4, <1>5
<1>7. InLoop(sol[output].d, sol[output].ell, op - src)
  BY <1>3, <1>4, <1>5, <1>6 DEF InLoop
<1> QED
  BY <1>3, <1>6, <1>7

(* A word stored op - src after where it is read: what is before op stays, *)
(* and what it stores from before op is the text, by the period.           *)
LEMMA WordStored ==
  ASSUME IInv, pc = "spread", mem' = StoreWord(mem, op, src)
  PROVE  /\ mem' \in [Cells -> Symbols \union {Free, "junk"}]
         /\ \A p \in 0 .. (output + sol[output].ell - 1) :
              p < op + (op - src) /\ p < op + Word => mem'[p] = text[p + 1]
<1>1. PICK d, ell, D \in Nat \ {0} : InLoop(d, ell, D)
  BY CopyLoop
<1> USE DEF InLoop
<1>2. L \in Nat /\ Word \in Nat \ {0} /\ mem \in [Cells -> Symbols \union {Free, "junk"}]
  BY WordAssumption DEF IInv, InputOK, TypeOK, L
<1>3. mem' = [p \in Cells |-> IF p \in op .. (op + Word - 1) THEN mem[src + p - op] ELSE mem[p]]
  BY DEF StoreWord
<1>4. ASSUME NEW p \in Cells, p \in op .. (op + Word - 1)
      PROVE  mem'[p] = mem[p - D] /\ p - D \in Cells
  <2>1. op \in Int /\ src \in Int /\ src = op - D /\ src >= 0
    BY <1>1
  <2>2. src + p - op = p - D /\ p - D \in Cells
    <3> HIDE DEF InLoop
    <3> QED
      BY <1>2, <1>4, <2>1 DEF Cells
  <2> QED
    BY <1>3, <1>4, <2>2
<1>5. mem' \in [Cells -> Symbols \union {Free, "junk"}]
  BY <1>2, <1>3, <1>4
<1>6. ASSUME NEW p \in 0 .. (output + ell - 1), p < op + D, p < op + Word PROVE mem'[p] = text[p + 1]
  <2>1. p \in Cells
    <3>1. output \in Nat /\ output + ell <= L
      BY <1>1
    <3> QED
      BY <1>2, <3>1 DEF Cells
  <2>2. CASE p < op
    <3>1. ~ (p \in op .. (op + Word - 1))
      BY <1>1, <2>2
    <3> QED
      BY <1>1, <1>3, <2>1, <2>2, <3>1
  <2>3. CASE p >= op
    <3>1. p \in op .. (op + Word - 1)
      BY <1>1, <1>2, <1>6, <2>3
    <3>2. mem'[p] = mem[p - D]
      BY <1>4, <2>1, <3>1
    <3>3. /\ p - D \in 0 .. (output + ell - 1) /\ p - D < op /\ p >= output - d + D
          /\ (p - D) + 1 = p + 1 - D
      BY <1>1, <1>6, <2>3
    <3>4. mem[p - D] = text[(p - D) + 1] /\ text[p + 1] = text[p + 1 - D]
      BY <1>1, <3>3
    <3> QED
      BY <3>2, <3>3, <3>4
  <2> QED
    BY <1>1, <2>2, <2>3
<1> QED
  BY <1>1, <1>5, <1>6

LEMMA SpreadKeeps == IInv /\ Spread => IInv'
<1> SUFFICES ASSUME IInv, Spread PROVE IInv'
  OBVIOUS
<1>1. PICK d, ell, D \in Nat \ {0} : InLoop(d, ell, D)
  BY CopyLoop DEF Spread
<1> USE DEF InLoop
<1>2. /\ mem' \in [Cells -> Symbols \union {Free, "junk"}]
      /\ \A p \in 0 .. (output + ell - 1) : p < op + D /\ p < op + Word => mem'[p] = text[p + 1]
  BY <1>1, WordStored DEF Spread
<1>3. InputOK /\ InputOK' /\ L \in Nat /\ L' = L /\ Word \in Nat
  BY WordAssumption DEF IInv, InputOK, L, Spread
<1>4. /\ op' = op + D /\ src' = src /\ len' = len - D /\ D < Word /\ op' - src' = 2 * D
  BY <1>1 DEF Spread
<1>5. TypeOK'
  BY <1>1, <1>2, <1>3, <1>4 DEF IInv, TypeOK, Cells, Spread, writing
<1>6. CopierOK'
  <2>1. ASSUME NEW p \in 0 .. (output + ell - 1), p >= output - d + 2 * D
        PROVE  text[p + 1] = text[p + 1 - 2 * D]
    <3>1. /\ p - D \in 0 .. (output + ell - 1) /\ p >= output - d + D /\ p - D >= output - d + D
          /\ (p - D) + 1 = p + 1 - D /\ (p - D) + 1 - D = p + 1 - 2 * D
      BY <1>1, <2>1
    <3>2. text[p + 1] = text[p + 1 - D] /\ text[(p - D) + 1] = text[(p - D) + 1 - D]
      BY <1>1, <3>1
    <3> QED
      BY <3>1, <3>2
  <2>2. ASSUME NEW p \in 0 .. (output + ell - 1), p < op' PROVE mem'[p] = text[p + 1]
    BY <1>1, <1>2, <1>3, <1>4, <2>2
  <2>3. op' + len' = output + ell /\ src' >= output - d /\ op' - src' >= 1
    BY <1>1, <1>4
  <2>4. /\ UNCHANGED <<text, sol, at, next_literal, output>>
        /\ CopyAt(text, sol, at - 1) /\ next_literal > 0
    BY DEF IInv, CopierOK, Spread
  <2> QED
    BY <1>1, <1>4, <2>1, <2>2, <2>3, <2>4 DEF CopierOK
<1>7. WriterOK' /\ ReaderOK' /\ ClientOK' /\ FixerOK' /\ DecodedPrefix'
  BY <1>3 DEF IInv, WriterOK, ReaderOK, ClientOK, FixerOK, DecodedPrefix, Spread, writing
<1> QED
  BY <1>3, <1>5, <1>6, <1>7 DEF IInv

LEMMA MoveWordKeeps == IInv /\ MoveWord => IInv'
<1> SUFFICES ASSUME IInv, MoveWord PROVE IInv'
  OBVIOUS
<1>1. PICK d, ell, D \in Nat \ {0} : InLoop(d, ell, D)
  BY CopyLoop DEF MoveWord
<1> USE DEF InLoop
<1>2. /\ mem' \in [Cells -> Symbols \union {Free, "junk"}]
      /\ \A p \in 0 .. (output + ell - 1) : p < op + D /\ p < op + Word => mem'[p] = text[p + 1]
  BY <1>1, WordStored DEF MoveWord
<1>3. InputOK /\ InputOK' /\ L \in Nat /\ L' = L /\ Word \in Nat
  BY WordAssumption DEF IInv, InputOK, L, MoveWord
<1>4. /\ op' = op + Word /\ src' = src + Word /\ len' = len - Word /\ D >= Word /\ op' - src' = D
  BY <1>1, <1>3 DEF MoveWord
<1>5. TypeOK'
  BY <1>1, <1>2, <1>3, <1>4 DEF IInv, TypeOK, Cells, MoveWord, writing
<1>6. CopierOK'
  <2>1. ASSUME NEW p \in 0 .. (output + ell - 1), p < op' PROVE mem'[p] = text[p + 1]
    <3>1. output \in Nat /\ op \in Int
      BY <1>1
    <3>2. p < op + D /\ p < op + Word
      <4> HIDE DEF InLoop
      <4> QED
        BY <1>3, <1>4, <2>1, <3>1
    <3> QED
      BY <1>2, <3>2
  <2>2. op' + len' = output + ell /\ src' >= output - d /\ op' - src' >= 1
    BY <1>1, <1>3, <1>4
  <2>3. /\ UNCHANGED <<text, sol, at, next_literal, output>>
        /\ CopyAt(text, sol, at - 1) /\ next_literal > 0
    BY DEF IInv, CopierOK, MoveWord
  <2> QED
    BY <1>1, <1>4, <2>1, <2>2, <2>3 DEF CopierOK
<1>7. WriterOK' /\ ReaderOK' /\ ClientOK' /\ FixerOK' /\ DecodedPrefix'
  BY <1>3 DEF IInv, WriterOK, ReaderOK, ClientOK, FixerOK, DecodedPrefix, MoveWord, writing
<1> QED
  BY <1>3, <1>5, <1>6, <1>7 DEF IInv

LEMMA CopyDoneKeeps == IInv /\ CopyDone => IInv'
<1> SUFFICES ASSUME IInv, CopyDone PROVE IInv'
  OBVIOUS
<1> USE DEF CopyDone
<1>1. PICK d, ell, D \in Nat \ {0} : InLoop(d, ell, D)
  BY CopyLoop
<1> USE DEF InLoop
<1>2. InputOK /\ InputOK' /\ L \in Nat /\ L' = L
  BY DEF IInv, InputOK, L
<1>3. output < L /\ next_literal > 0
  BY <1>1, <1>2 DEF IInv, CopierOK
<1>4. /\ at \in Nat \ {0} /\ at - 1 \in 0 .. (Len(stream) - 1)
      /\ fixed = stream /\ output' = output + ell /\ at' = at + 1
      /\ Place(text, sol)[at] = output + ell /\ output + ell \in 0 .. L
      /\ Counts(text, sol, at, next_literal')
  BY <1>1, <1>3, CopyOf
<1>5. TypeOK'
  <2>1. next_literal' \in Nat
    BY <1>3 DEF IInv, TypeOK
  <2>2. at' \in Nat \ {0} /\ output' \in 0 .. L /\ Cells' = Cells
    <3>1. at' = at + 1 /\ at \in Nat /\ output' = output + ell /\ output + ell \in 0 .. L
      BY <1>4
    <3> QED
      BY <1>2, <3>1 DEF Cells
  <2> HIDE DEF InLoop
  <2> QED
    BY <1>2, <2>1, <2>2 DEF IInv, TypeOK, writing, copying
<1>6. ReaderOK'
  <2>1. at' - 1 = at /\ at <= Len(stream)
    BY <1>4 DEF IInv, TypeOK
  <2> QED
    BY <1>4, <2>1 DEF ReaderOK, writing
<1>7. WriterOK' /\ ClientOK' /\ FixerOK' /\ CopierOK'
  BY <1>2 DEF IInv, WriterOK, ClientOK, FixerOK, CopierOK, writing
<1>8. DecodedPrefix'
  <2>1. op >= output + ell
    BY <1>1
  <2>2. \A p \in 0 .. (output + ell - 1) : mem[p] = text[p + 1]
    BY <1>1, <2>1
  <2>3. mem' = mem /\ text' = text /\ pc' = "decode" /\ output' = output + ell /\ output \in Nat
    BY <1>1, <1>4
  <2> HIDE DEF CopyDone, InLoop
  <2>4. \A p \in 0 .. (output' - 1) : mem'[p] = text'[p + 1]
    BY <2>2, <2>3
  <2> QED
    BY <2>3, <2>4 DEF DecodedPrefix
<1> QED
  BY <1>2, <1>5, <1>6, <1>7, <1>8 DEF IInv

LEMMA StutterKeeps == IInv /\ UNCHANGED vars => IInv'
<1> SUFFICES ASSUME IInv, UNCHANGED vars PROVE IInv'
  OBVIOUS
<1> USE DEF IInv, vars, writing, reading, decoding, copying
<1>1. InputOK' /\ TypeOK' /\ WriterOK' /\ ReaderOK' /\ ClientOK'
  BY DEF InputOK, TypeOK, Cells, L, WriterOK, ReaderOK, ClientOK
<1>2. FixerOK' /\ CopierOK' /\ DecodedPrefix'
  BY DEF FixerOK, CopierOK, DecodedPrefix, L
<1> QED
  BY <1>1, <1>2

(* The inductive invariant: what each actor knows of its place in the text *)
(* and of the counts it holds.                                             *)
THEOREM Inductive == Spec => []IInv
<1>1. IInv /\ [Next]_vars => IInv'
  BY CountFromKeeps, CountCopyKeeps, WriteRunKeeps, WriteCopyKeeps, WrittenKeeps, GlueCopyKeeps,
     GlueRunKeeps, GluedKeeps, FixCopyKeeps, FixRunKeeps, DecodeFirstKeeps, DecodeRunKeeps,
     DecodeCopyKeeps, SpreadKeeps, MoveWordKeeps, CopyDoneKeeps, FinishKeeps, StutterKeeps
  DEF Next, Write, Fix, Decode, Terminated
<1> QED
  BY InitKeeps, <1>1, PTL DEF Spec

-------------------------------------------------------------------------------
(* The properties.                                                         *)

(* A reader that holds a right count takes a code for a run exactly where  *)
(* one was written: phrase_reader::next and decompress::run never misparse *)
(* a stream write_parsing wrote.                                           *)
THEOREM KindsAlwaysAgree == Spec => []KindsAgree
<1>1. IInv => KindsAgree
  <2> SUFFICES ASSUME IInv PROVE KindsAgree
    OBVIOUS
  <2>1. /\ Len(text) \in Nat /\ L = Len(text) /\ IsParsing(text, sol)
        /\ at - 1 \in Nat /\ at = (at - 1) + 1 /\ next_literal \in Nat
    BY DEF IInv, InputOK, TypeOK, L
  <2>2. ASSUME pc \in {"glue", "fix", "decode"}
        PROVE  IF Place(text, sol)[at - 1] >= L THEN next_literal > 0
               ELSE IsRun(stream[at]) <=> next_literal = 0
    <3>1. Counts(text, sol, at - 1, next_literal) /\ Place(text, sol)[at - 1] \in 0 .. L
      BY <2>1, <2>2, PlaceStep DEF IInv, ReaderOK
    <3>2. CASE Place(text, sol)[at - 1] >= L
      BY <2>1, <3>1, <3>2, CountsTell
    <3>3. CASE Place(text, sol)[at - 1] < L
      <4>1. at - 1 \in 0 .. (Len(stream) - 1)
        BY <2>2, <3>3, ReaderAt
      <4>2. /\ IsRun(stream[at]) <=> RunAt(text, sol, at - 1)
            /\ ~ IsRun(stream[at]) <=> CopyAt(text, sol, at - 1)
        <5>1. /\ IsRun(stream[(at - 1) + 1]) <=> RunAt(text, sol, at - 1)
              /\ ~ IsRun(stream[(at - 1) + 1]) <=> CopyAt(text, sol, at - 1)
          BY <4>1, CodeAt
        <5> QED
          BY <2>1, <5>1
      <4>3. next_literal = 0 => RunAt(text, sol, at - 1)
        BY <2>1, <3>1, CountsTell
      <4>4. next_literal > 0 => CopyAt(text, sol, at - 1)
        BY <2>1, <3>1, <3>3, CountsTell
      <4> QED
        BY <2>1, <3>1, <3>3, <4>2, <4>3, <4>4
    <3> QED
      BY <2>1, <3>1, <3>2, <3>3
  <2>3. CASE pc = "glue"
    BY <2>2, <2>3 DEF KindsAgree, ReaderEnd, IInv, ReaderOK
  <2>4. CASE pc = "fix"
    <3>1. text_pos = Place(text, sol)[at - 1]
      BY <2>4 DEF IInv, ReaderOK
    <3>2. CASE ReaderEnd
      <4>1. fixed = stream
        BY <2>4, <3>2, FixedIsStream
      <4>2. Place(text, sol)[0] = 0 /\ RunAt(text, sol, 0) /\ 0 \in 0 .. (Len(stream) - 1)
        <5>1. Place(text, sol)[0] = 0 /\ RunAt(text, sol, 0)
          BY <2>1, PlaceStep, FirstIsARun
        <5>2. Place(text, sol)[Len(stream)] = L /\ Len(stream) \in Nat
          BY <2>4 DEF IInv, WriterOK, TypeOK
        <5> QED
          BY <2>1, <5>1, <5>2 DEF RunAt
      <4>3. IsRun(stream[0 + 1])
        BY <4>2, CodeAt
      <4> QED
        BY <2>2, <2>4, <3>1, <3>2, <4>1, <4>3 DEF KindsAgree, ReaderEnd
    <3>3. CASE ~ ReaderEnd
      <4>1. IsRun(glued[at]) <=> IsRun(stream[at])
        BY <2>4, <3>3, GluedAt DEF IsRun
      <4> QED
        BY <2>2, <2>4, <3>1, <3>3, <4>1 DEF KindsAgree, ReaderEnd
    <3> QED
      BY <3>2, <3>3
  <2>5. CASE pc = "decode"
    BY <2>2, <2>5 DEF KindsAgree, IInv, ReaderOK, FixerOK
  <2> QED
    BY <2>3, <2>4, <2>5 DEF KindsAgree
<1> QED
  BY <1>1, Inductive, PTL

(* proper_nexts::run gives back what write_parsing wrote, to the last      *)
(* count, for any wrong count, and uses every count it is given.           *)
THEOREM FixAlwaysRestores == Spec => []FixRestoresTheParsing
<1>1. IInv => FixRestoresTheParsing
  BY FixedIsStream DEF FixRestoresTheParsing
<1> QED
  BY <1>1, Inductive, PTL

(* decompress::run gives back the text, whatever words copy_fast moves.    *)
THEOREM TextComesBack == Spec => []DecodedPrefix
<1>1. IInv => DecodedPrefix
  BY DEF IInv
<1> QED
  BY <1>1, Inductive, PTL
===============================================================================
