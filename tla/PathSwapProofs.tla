---------------------------- MODULE PathSwapProofs ----------------------------
(***************************************************************************)
(* Proofs about PathSwap, for every text length, cost models, parsings,    *)
(* recorded totals and bound.                                              *)
(***************************************************************************)
EXTENDS PathSwap, FiniteSets, TLAPS, WellFoundedInduction, FiniteSetTheorems
-------------------------------------------------------------------------------
(* Induction and recursion on the naturals, stated of sets and functions   *)
(* so that the provers can use them: the library's theorems take operators.*)

(* A set of naturals that is not empty has a least element. *)
LEMMA SmallestOf ==
  ASSUME NEW T, T \subseteq Nat, T # {}
  PROVE  \E m \in T : \A n \in T : m <= n
<1>1. IsWellFoundedOn(OpToRel(<, Nat), Nat)
  BY NatLessThanWellFounded, Zenon
<1>2. PICK m \in T : \A n \in T : ~ (<<n, m>> \in OpToRel(<, Nat))
  BY <1>1, WFMin, Zenon
<1>3. \A n \in T : ~ (n < m)
  BY <1>2 DEF OpToRel
<1> QED
  BY <1>3

(* A set that contains 0 and the successors of its naturals has them all.  *)
LEMMA InductionOn ==
  ASSUME NEW T, 0 \in T, \A n \in Nat : n \in T => (n + 1) \in T
  PROVE  Nat \subseteq T
<1> DEFINE U == {n \in Nat : n \notin T}
<1> SUFFICES ASSUME U # {} PROVE FALSE
  OBVIOUS
<1>1. PICK m \in U : \A n \in U : m <= n
  BY SmallestOf
<1>2. m - 1 \in Nat /\ m - 1 \in T
  BY <1>1
<1> QED
  BY <1>2

(* A function on 0 .. N can be defined from its value at N backwards, from *)
(* each natural to some below it.                                          *)
Unfolds(f, N, S, final, next, step) ==
  /\ f \in [0 .. N -> S] /\ f[N] = final
  /\ \A i \in 0 .. (N - 1) : f[i] = step[<<i, f[next[i]]>>]
LEMMA UnfoldingOn ==
  ASSUME NEW N \in Nat, NEW S, NEW final \in S,
         NEW next \in [0 .. (N - 1) -> 0 .. N], \A i \in 0 .. (N - 1) : i < next[i],
         NEW step \in [(0 .. (N - 1)) \X S -> S]
  PROVE  \E f : Unfolds(f, N, S, final, next, step)
<1> DEFINE From(n, f) == /\ f \in [0 .. N -> S] /\ f[N] = final
                         /\ \A i \in 0 .. (N - 1) : N - n <= i => f[i] = step[<<i, f[next[i]]>>]
           Defined == {n \in Nat : n <= N => \E f : From(n, f)}
<1>1. 0 \in Defined
  <2>1. From(0, [i \in 0 .. N |-> final])
    OBVIOUS
  <2> QED
    BY <2>1
<1>2. ASSUME NEW n \in Nat, n \in Defined PROVE (n + 1) \in Defined
  <2> SUFFICES ASSUME n + 1 <= N PROVE \E f : From(n + 1, f)
    OBVIOUS
  <2>1. PICK f : From(n, f)
    BY <1>2
  <2> DEFINE at == N - n - 1
             value == step[<<at, f[next[at]]>>]
             e == [f EXCEPT ![at] = value]
  <2>2. at \in 0 .. (N - 1) /\ next[at] \in 0 .. N /\ f \in [0 .. N -> S] /\ f[N] = final
    BY <2>1
  <2>3. value \in S
    <3>1. <<at, f[next[at]]>> \in (0 .. (N - 1)) \X S
      BY <2>2
    <3> QED
      BY <3>1
  <2> HIDE DEF value
  <2>4. e \in [0 .. N -> S] /\ e[N] = final /\ e[at] = value
      /\ \A i \in 0 .. N : i # at => e[i] = f[i]
    BY <2>2, <2>3
  <2>5. ASSUME NEW i \in 0 .. (N - 1), at <= i PROVE e[i] = step[<<i, e[next[i]]>>]
    <3>1. next[i] \in 0 .. N /\ next[i] # at
      BY <2>5
    <3>2. e[next[i]] = f[next[i]]
      BY <3>1, <2>4
    <3>3. CASE i = at
      <4>1. value = step[<<at, f[next[at]]>>]
        BY DEF value
      <4>2. e[i] = value /\ f[next[at]] = e[next[i]]
        BY <3>2, <3>3, <2>4
      <4> QED
        BY <3>3, <4>1, <4>2
    <3>4. CASE i # at
      <4>1. N - n <= i /\ e[i] = f[i]
        BY <2>5, <3>4, <2>4
      <4>2. f[i] = step[<<i, f[next[i]]>>]
        BY <2>1, <4>1
      <4> QED
        BY <3>2, <4>1, <4>2
    <3> QED
      BY <3>3, <3>4
  <2> HIDE DEF e
  <2>6. From(n + 1, e)
    BY <2>4, <2>5
  <2> HIDE DEF From
  <2> QED
    BY <2>6
<1> HIDE DEF Defined
<1>3. N \in Defined
  BY <1>1, <1>2, InductionOn
<1>4. PICK f : From(N, f)
  BY <1>3 DEF Defined
<1>5. Unfolds(f, N, S, final, next, step)
  BY <1>4 DEF Unfolds
<1> QED
  BY <1>5

-------------------------------------------------------------------------------
(* Where a side's last phrase starts. *)
Start(s) == heads[s] - incoming[s].ell

Walking == pc \in {"evaluate", "turn", "advance"}
Moving  == pc \in {"turn", "advance"}
Pending == {queue[i] : i \in DOMAIN queue}

OnPhrases   == \A s \in Side : heads[s] \in DOMAIN input.base[s] \union {L}
HeadsGrow   == \A s \in Side : old_heads[s] <= heads[s]
StartsBehind == \A s \in Side : Start(s) <= heads[Other(s)]
QueueFilled == Walking => queue # <<>>
RoundOpen   == /\ pc = "evaluate" => heads[0] < L /\ heads[1] < L
               /\ Moving => old_heads[0] < L /\ old_heads[1] < L
PendingBehind ==
  /\ pc = "evaluate" => \A s \in Pending : heads[s] <= heads[Other(s)]
  /\ Moving => \A s \in Pending : heads[s] <= old_heads[Other(s)]
WriterIdle  == Reading => pos = 0
WriterOnPhrase == pc \in {"prefix", "skip", "suffix"} =>
                    cur \in Side /\ pos \in DOMAIN input.base[cur] \union {L}

(* A side still to move is not ahead of where the other side was when the  *)
(* round started; a side's last phrase never starts after the other's head. *)
IInv ==
  /\ TypeOK
  /\ OnPhrases /\ HeadsGrow /\ StartsBehind
  /\ QueueFilled /\ RoundOpen /\ PendingBehind
  /\ WriterIdle /\ WriterOnPhrase

(* The phrase read at a position of a parsing is a phrase, and ends where  *)
(* another one starts or at the end of the text.                           *)
LEMMA NextPhrase ==
  ASSUME NEW p, IsParsing(p), NEW i \in DOMAIN p
  PROVE  /\ p[i] \in Phrase
         /\ i \in 0 .. (L - 1)
         /\ i + p[i].ell \in DOMAIN p \union {L}
         /\ i + p[i].ell \in 0 .. L
<1>1. p[i] \in Phrase /\ i \in 0 .. (L - 1) /\ i + p[i].ell \in DOMAIN p \union {L}
  BY DEF IsParsing
<1>2. \A j \in DOMAIN p : j \in 0 .. (L - 1)
  BY DEF IsParsing
<1>3. i + p[i].ell \in 0 .. L
  BY <1>1, <1>2, LengthAssumption
<1> QED
  BY <1>1, <1>3

LEMMA EdgeCWType ==
  ASSUME NEW e \in Phrase
  PROVE  EdgeCW(e.d, e.ell) \in CW
<1>1. e.d \in 0 .. MaxDst /\ e.ell \in 1 .. MaxLen /\ e.ell # 0
  BY LengthAssumption DEF Phrase
<1>2. CostCM[e.d][e.ell] \in Nat /\ WeightCM[e.d][e.ell] \in Nat
  BY <1>1, CostAssumption
<1> QED
  BY <1>1, <1>2 DEF EdgeCW, CW

LEMMA InitIInv == Init => IInv
<1> SUFFICES ASSUME Init PROVE IInv
  OBVIOUS
<1> USE LengthAssumption DEF Init
<1>1. IsInput(input)
  BY InputsAssumption
<1>2. EdgeCW(0, 0) \in CW
  BY DEF EdgeCW, CW
<1>3. TypeOK
  <2>1. tail \in [Side -> CW] /\ head \in [Side -> CW]
    BY <1>1, <1>2 DEF IsInput
  <2>2. best \in [cost : Int, sol : Side \union {None}, point : 0 .. L]
    BY DEF None
  <2>3. cur \in Side \union {None} /\ last \in Phrase \union {Nothing}
    BY DEF Side
  <2> QED
    BY <1>1, <2>1, <2>2, <2>3 DEF TypeOK
<1>4. \A s \in Side : 0 \in DOMAIN input.base[s]
  BY <1>1 DEF IsInput, IsParsing
<1>5. \A s \in Side : Start(s) = 0 /\ heads[Other(s)] = 0
  BY DEF Start, Nothing, Side, Other
<1> QED
  BY <1>3, <1>4, <1>5 DEF IInv, Walking, Moving, OnPhrases, HeadsGrow, StartsBehind,
                          QueueFilled, RoundOpen, PendingBehind, WriterIdle, WriterOnPhrase

LEMMA ToProcessBehind ==
  ASSUME heads \in [Side -> 0 .. L]
  PROVE  /\ ToProcess \in {<<0>>, <<1>>, <<0, 1>>} /\ ToProcess # <<>>
         /\ \A i \in DOMAIN ToProcess : /\ ToProcess[i] \in Side
                                       /\ heads[ToProcess[i]] <= heads[Other(ToProcess[i])]
<1>1. heads[0] \in Int /\ heads[1] \in Int
  BY LengthAssumption DEF Side
<1>2. CASE heads[0] = heads[1]
  BY <1>1, <1>2 DEF ToProcess, Other, Side
<1>3. CASE heads[0] < heads[1]
  BY <1>1, <1>3 DEF ToProcess, Other, Side
<1>4. CASE heads[0] > heads[1]
  BY <1>1, <1>4 DEF ToProcess, Other, Side
<1> QED
  BY <1>1, <1>2, <1>3, <1>4

LEMMA QueueTail ==
  ASSUME NEW q \in {<<>>, <<0>>, <<1>>, <<0, 1>>}, q # <<>>
  PROVE  /\ Head(q) \in Side
         /\ Head(q) \in {q[i] : i \in DOMAIN q}
         /\ \/ Tail(q) = <<>>
            \/ q = <<0, 1>> /\ Head(q) = 0 /\ Tail(q) = <<1>>
         /\ {Tail(q)[i] : i \in DOMAIN Tail(q)} \subseteq {q[i] : i \in DOMAIN q}
<1>1. CASE q = <<0>>
  BY <1>1 DEF Side
<1>2. CASE q = <<1>>
  BY <1>2 DEF Side
<1>3. CASE q = <<0, 1>>
  BY <1>3 DEF Side
<1> QED
  BY <1>1, <1>2, <1>3

(* Reading a phrase keeps what a side has read and what is left in balance. *)
LEMMA MoveCW ==
  ASSUME NEW h \in CW, NEW t \in CW, NEW e \in CW
  PROVE  /\ Plus(h, e) \in CW
         /\ Minus(t, e) \in CW
         /\ Plus(Plus(h, e), Minus(t, e)) = Plus(h, t)
BY DEF CW, Plus, Minus

(* The phrase a step of a side reads: the side still stands inside the text *)
(* and on a phrase of its parsing.                                         *)
LEMMA PhraseRead ==
  ASSUME IInv, Advance,
         NEW s, s = Head(queue),
         NEW e, e = input.base[s][heads[s]]
  PROVE  /\ s \in Side /\ s \in Pending /\ queue # <<>>
         /\ heads[s] <= old_heads[Other(s)] /\ old_heads[Other(s)] < L
         /\ e \in Phrase
         /\ heads[s] + e.ell \in DOMAIN input.base[s] \union {L}
         /\ heads[s] + e.ell \in 0 .. L
<1> USE LengthAssumption
<1>1. /\ heads \in [Side -> 0 .. L] /\ old_heads \in [Side -> 0 .. L]
      /\ queue \in {<<>>, <<0>>, <<1>>, <<0, 1>>}
  BY DEF IInv, TypeOK
<1>2. s \in Side /\ s \in Pending /\ queue # <<>>
  BY <1>1, QueueTail DEF Advance, IInv, QueueFilled, Walking, Pending
<1>3. heads[s] <= old_heads[Other(s)] /\ old_heads[Other(s)] < L
  BY <1>2 DEF IInv, Advance, PendingBehind, RoundOpen, Moving, Side, Other
<1>4. heads[s] \in DOMAIN input.base[s]
  BY <1>1, <1>2, <1>3 DEF IInv, OnPhrases, Side, Other
<1>5. IsParsing(input.base[s])
  BY <1>2 DEF IInv, TypeOK, IsInput
<1> QED
  BY <1>2, <1>3, <1>4, <1>5, NextPhrase

(* A cost and a weight add up to a cost and a weight. *)
LEMMA PlusType ==
  ASSUME NEW x \in CW, NEW y \in CW
  PROVE  Plus(x, y) \in CW
BY DEF CW, Plus

(* The swap evaluated is priced with a phrase the cost matrices cover. *)
LEMMA CandidateType ==
  ASSUME IInv, Evaluate, NEW s, s = Head(queue)
  PROVE  s \in Side /\ Candidate(s) \in CW
<1> USE LengthAssumption
<1> DEFINE o == Other(s)
           gap == heads[o] - heads[s]
<1>0. /\ heads \in [Side -> 0 .. L] /\ queue \in {<<>>, <<0>>, <<1>>, <<0, 1>>}
      /\ incoming \in [Side -> Phrase \union {Nothing}]
      /\ head \in [Side -> CW] /\ tail \in [Side -> CW]
  BY DEF IInv, TypeOK
<1>1. s \in Side /\ o \in Side /\ s \in Pending
  BY <1>0, QueueTail DEF IInv, Evaluate, QueueFilled, Walking, Pending, Side, Other
<1>2. heads[s] <= heads[o] /\ heads[s] \in 0 .. L /\ heads[o] \in 0 .. L
  BY <1>0, <1>1 DEF IInv, Evaluate, PendingBehind
<1>3. heads[o] - incoming[o].ell <= heads[s]
  BY <1>1 DEF IInv, StartsBehind, Start, Side, Other
<1>4. EdgeCW(incoming[o].d, gap) \in CW
  <2>1. CASE gap = 0
    BY <2>1 DEF EdgeCW, CW
  <2>2. CASE gap # 0
    <3>1. incoming[o] \in Phrase /\ gap \in 1 .. MaxLen
      BY <2>2, <1>0, <1>1, <1>2, <1>3 DEF Phrase, Nothing
    <3>2. [d |-> incoming[o].d, ell |-> gap] \in Phrase
      BY <3>1 DEF Phrase
    <3> QED
      BY <3>2, EdgeCWType
  <2> QED
    BY <2>1, <2>2
<1> HIDE DEF o, gap
<1>5. head[s] \in CW /\ tail[o] \in CW
  BY <1>0, <1>1
<1>6. Plus(EdgeCW(incoming[o].d, gap), tail[o]) \in CW
  BY <1>4, <1>5, PlusType
<1>7. Plus(head[s], Plus(EdgeCW(incoming[o].d, gap), tail[o])) \in CW
  BY <1>5, <1>6, PlusType
<1> QED
  BY <1>1, <1>7 DEF Candidate, o, gap

LEMMA NextIInv == IInv /\ [Next]_vars => IInv'
<1> SUFFICES ASSUME IInv, [Next]_vars PROVE IInv'
  OBVIOUS
<1> USE LengthAssumption
<1>a. /\ heads \in [Side -> 0 .. L] /\ old_heads \in [Side -> 0 .. L]
      /\ incoming \in [Side -> Phrase \union {Nothing}]
      /\ queue \in {<<>>, <<0>>, <<1>>, <<0, 1>>}
  BY DEF IInv, TypeOK
<1>b. head \in [Side -> CW] /\ tail \in [Side -> CW]
  BY DEF IInv, TypeOK
<1>c. best.sol \in Side \union {None} /\ best.point \in 0 .. L
  BY DEF IInv, TypeOK
<1>d. \A s \in Side : IsParsing(input.base[s])
  BY DEF IInv, TypeOK, IsInput
<1>e. OnPhrases /\ HeadsGrow /\ StartsBehind /\ QueueFilled /\ RoundOpen
      /\ PendingBehind /\ WriterIdle /\ WriterOnPhrase
  BY DEF IInv
<1>f. ToProcess \in {<<0>>, <<1>>, <<0, 1>>} /\ ToProcess # <<>>
  BY <1>a, ToProcessBehind
<1>1. CASE NextRound
  <2>1. queue' \in {<<0>>, <<1>>, <<0, 1>>} /\ queue' # <<>>
    BY <1>f, <1>1 DEF NextRound
  <2>2. TypeOK'
    BY <1>1, <2>1 DEF IInv, TypeOK, NextRound, generating
  <2>3. OnPhrases' /\ HeadsGrow' /\ StartsBehind'
    BY <1>e, <1>1 DEF NextRound, OnPhrases, HeadsGrow, StartsBehind, Start
  <2>4. QueueFilled' /\ RoundOpen' /\ WriterIdle' /\ WriterOnPhrase'
    BY <1>e, <1>1, <2>1 DEF NextRound, QueueFilled, RoundOpen, WriterIdle,
                            WriterOnPhrase, Moving, Reading, generating
  <2>5. PendingBehind'
    BY <1>a, <1>1, ToProcessBehind DEF NextRound, PendingBehind, Moving, Pending
  <2> QED
    BY <2>2, <2>3, <2>4, <2>5 DEF IInv
<1>2. CASE EndRounds
  <2>1. TypeOK'
    BY <1>c, <1>2 DEF IInv, TypeOK, EndRounds, reading
  <2>2. OnPhrases' /\ HeadsGrow' /\ StartsBehind'
    BY <1>e, <1>2 DEF EndRounds, reading, OnPhrases, HeadsGrow, StartsBehind, Start
  <2>3. pos' = 0 /\ (pc' = "failed" \/ (pc' = "prefix" /\ cur' \in Side))
    <3>1. pos' = 0
      BY <1>e, <1>2 DEF EndRounds, WriterIdle, Reading
    <3>2. CASE best.sol = None
      BY <3>1, <3>2, <1>2 DEF EndRounds
    <3>3. CASE best.sol # None
      BY <3>1, <3>3, <1>c, <1>2 DEF EndRounds
    <3> QED
      BY <3>2, <3>3
  <2>4. QueueFilled' /\ RoundOpen' /\ PendingBehind' /\ WriterIdle' /\ WriterOnPhrase'
    <3>1. \A s \in Side : 0 \in DOMAIN input'.base[s]
      BY <1>d, <1>2 DEF EndRounds, IsParsing
    <3> QED
      BY <2>3, <3>1 DEF QueueFilled, RoundOpen, PendingBehind, WriterIdle, WriterOnPhrase,
                        Reading, Moving, Walking
  <2> QED
    BY <2>1, <2>2, <2>4 DEF IInv
<1>3. CASE Evaluate
  <2>0. Head(queue) \in Side /\ (Tail(queue) = <<>> \/ Tail(queue) = <<1>>)
    BY <1>a, <1>e, <1>3, QueueTail DEF Evaluate, QueueFilled, Walking
  <2>1. best' \in [cost : Int, sol : Side \union {None}, point : 0 .. L]
    <3> DEFINE s == Head(queue)
    <3>5. s \in Side /\ Candidate(s) \in CW
      BY <1>3, CandidateType
    <3>1. heads[s] \in 0 .. L
      BY <3>5, <1>a
    <3>6. Candidate(s).cost \in Int
      BY <3>5 DEF CW
    <3>7. best \in [cost : Int, sol : Side \union {None}, point : 0 .. L]
      BY DEF IInv, TypeOK
    <3>8. \/ best' = best
          \/ best' = [cost |-> Candidate(s).cost, sol |-> s, point |-> heads[s]]
      BY <1>3 DEF Evaluate
    <3> HIDE DEF s
    <3> QED
      BY <3>1, <3>5, <3>6, <3>7, <3>8
  <2>2. queue' \in {<<0>>, <<1>>, <<0, 1>>} /\ queue' # <<>>
    BY <2>0, <1>f, <1>3 DEF Evaluate
  <2>3. TypeOK'
    BY <1>3, <2>1, <2>2 DEF IInv, TypeOK, Evaluate, generating
  <2>4. OnPhrases' /\ HeadsGrow' /\ StartsBehind'
    BY <1>a, <1>e, <1>3 DEF Evaluate, OnPhrases, HeadsGrow, StartsBehind, Start
  <2>5. QueueFilled' /\ RoundOpen' /\ WriterIdle' /\ WriterOnPhrase'
    BY <1>e, <1>3, <2>2 DEF Evaluate, QueueFilled, RoundOpen, WriterIdle, WriterOnPhrase,
                            Moving, Reading, generating
  <2>6. PendingBehind'
    <3>1. CASE Tail(queue) = <<>>
      BY <3>1, <1>a, <1>3, ToProcessBehind DEF Evaluate, PendingBehind, Moving, Pending
    <3>2. CASE Tail(queue) # <<>>
      <4>1. pc' = "evaluate" /\ heads' = heads /\ Pending' \subseteq Pending
        BY <3>2, <1>a, <1>e, <1>3, QueueTail DEF Evaluate, QueueFilled, Walking, Pending
      <4> QED
        BY <4>1, <1>e, <1>3 DEF Evaluate, PendingBehind, Moving
    <3> QED
      BY <3>1, <3>2
  <2> QED
    BY <2>3, <2>4, <2>5, <2>6 DEF IInv
<1>4. CASE StartTurn
  <2>1. other_kind' \in BOOLEAN
    BY <1>4 DEF StartTurn, IsRegular
  <2>2. TypeOK'
    BY <1>4, <2>1 DEF IInv, TypeOK, StartTurn, generating
  <2>3. OnPhrases' /\ HeadsGrow' /\ StartsBehind'
    BY <1>e, <1>4 DEF StartTurn, OnPhrases, HeadsGrow, StartsBehind, Start
  <2>4. QueueFilled' /\ RoundOpen' /\ PendingBehind' /\ WriterIdle' /\ WriterOnPhrase'
    BY <1>e, <1>4 DEF StartTurn, QueueFilled, RoundOpen, PendingBehind, WriterIdle,
                      WriterOnPhrase, Moving, Walking, Pending, Reading, generating
  <2> QED
    BY <2>2, <2>3, <2>4 DEF IInv
<1>5. CASE Advance
  <2> DEFINE s == Head(queue)
             e == input.base[s][heads[s]]
             read == heads[s] + e.ell
  <2>0. s \in Side /\ s \in Pending /\ queue # <<>>
    BY <1>5, PhraseRead
  <2>1. heads[s] <= old_heads[Other(s)] /\ old_heads[Other(s)] < L
    BY <1>5, PhraseRead
  <2>3. e \in Phrase /\ read \in DOMAIN input.base[s] \union {L} /\ read \in 0 .. L
    BY <1>5, PhraseRead
  <2>4. e.ell >= 1 /\ e.ell \in Int
    BY <2>3 DEF Phrase
  <2>5. heads' = [heads EXCEPT ![s] = read] /\ incoming' = [incoming EXCEPT ![s] = e]
    BY <1>5 DEF Advance
  <2>6. heads' \in [Side -> 0 .. L] /\ incoming' \in [Side -> Phrase \union {Nothing}]
    BY <2>0, <2>3, <2>5, <1>a
  <2>7. head' \in [Side -> CW] /\ tail' \in [Side -> CW]
    <3>1. EdgeCW(e.d, e.ell) \in CW
      BY <2>3, EdgeCWType
    <3>2. head[s] \in CW /\ tail[s] \in CW
      BY <2>0, <1>b
    <3>4. /\ head' = [head EXCEPT ![s] = Plus(head[s], EdgeCW(e.d, e.ell))]
          /\ tail' = [tail EXCEPT ![s] = Minus(tail[s], EdgeCW(e.d, e.ell))]
      BY <1>5 DEF Advance
    <3> HIDE DEF s, e
    <3>3. Plus(head[s], EdgeCW(e.d, e.ell)) \in CW /\ Minus(tail[s], EdgeCW(e.d, e.ell)) \in CW
      BY <3>1, <3>2, MoveCW
    <3>5. head \in [Side -> CW] /\ tail \in [Side -> CW] /\ s \in Side
      BY <1>b, <2>0 DEF s
    <3>6. head' \in [Side -> CW]
      BY <3>3, <3>4, <3>5
    <3>7. tail' \in [Side -> CW]
      BY <3>3, <3>4, <3>5
    <3> QED
      BY <3>6, <3>7
  <2>8. queue' \in {<<>>, <<0>>, <<1>>, <<0, 1>>}
    BY <1>a, <2>0, <1>5, QueueTail DEF Advance
  <2>9. TypeOK'
    BY <1>5, <2>6, <2>7, <2>8 DEF IInv, TypeOK, Advance, generating
  <2>10. OnPhrases'
    BY <2>0, <2>3, <2>5, <1>a, <1>e, <1>5 DEF OnPhrases, Advance
  <2>11. HeadsGrow'
    <3> SUFFICES ASSUME NEW t \in Side PROVE old_heads[t] <= heads'[t]
      BY <1>5 DEF HeadsGrow, Advance
    <3>1. heads[t] \in Int /\ old_heads[t] \in Int /\ old_heads[t] <= heads[t]
      BY <1>a, <1>e DEF HeadsGrow
    <3>2. heads'[t] = heads[t] \/ (t = s /\ heads'[t] = heads[t] + e.ell)
      BY <2>5, <1>a, <2>0
    <3> HIDE DEF s, e
    <3> QED
      BY <3>1, <3>2, <2>4
  <2>12. StartsBehind'
    <3> SUFFICES ASSUME NEW t \in Side PROVE (Start(t) <= heads[Other(t)])'
      BY DEF StartsBehind
    <3>1. old_heads[Other(s)] <= heads[Other(s)] /\ Other(s) \in Side /\ Other(s) # s
      BY <2>0, <1>e DEF HeadsGrow, Side, Other
    <3>2. heads'[s] = read /\ heads'[Other(s)] = heads[Other(s)]
      BY <2>0, <3>1, <2>5, <1>a
    <3>3. incoming'[s] = e /\ incoming'[Other(s)] = incoming[Other(s)]
      BY <2>0, <3>1, <2>5, <1>a
    <3>4. /\ heads[s] \in Int /\ heads[Other(s)] \in Int
          /\ old_heads[Other(s)] \in Int
      BY <2>0, <3>1, <1>a
    <3>5. CASE t = s
      <4>1. Start(t)' = heads[s]
        BY <3>2, <3>3, <3>4, <3>5, <2>4 DEF Start
      <4>2. heads'[Other(t)] = heads[Other(s)]
        BY <3>2, <3>5
      <4> HIDE DEF s, e
      <4> QED
        BY <4>1, <4>2, <3>1, <3>4, <2>1
    <3>6. CASE t = Other(s)
      <4>1. Start(t)' = Start(t)
        BY <3>2, <3>3, <3>6 DEF Start
      <4>2. Other(t) = s
        BY <2>0, <3>6 DEF Side, Other
      <4>3. Start(t) <= heads[s] /\ Start(t) \in Int
        <5>1. Start(t) <= heads[s]
          BY <4>2, <1>e DEF StartsBehind
        <5>2. heads[t] \in Int /\ incoming[t].ell \in Int
          BY <1>a, <3>4 DEF Phrase, Nothing
        <5> QED
          BY <5>1, <5>2 DEF Start
      <4> HIDE DEF s, e
      <4> QED
        BY <4>1, <4>2, <4>3, <3>2, <3>4, <2>4
    <3> QED
      BY <2>0, <3>5, <3>6 DEF Side, Other
  <2>13. QueueFilled' /\ RoundOpen' /\ WriterIdle' /\ WriterOnPhrase'
    BY <1>e, <2>0, <1>5 DEF Advance, QueueFilled, RoundOpen, WriterIdle, WriterOnPhrase,
                     Moving, Walking, Reading, generating
  <2>14. PendingBehind'
    <3>1. pc' # "evaluate" /\ old_heads' = old_heads
      BY <1>5 DEF Advance
    <3>2. CASE GoesOn(s, read)
      <4>1. queue' = queue /\ read <= old_heads[Other(s)]
        BY <3>2, <1>5 DEF Advance, GoesOn
      <4>2. \A t \in Pending : t \in Side
        BY <1>a DEF Pending, Side
      <4>3. \A t \in Pending : heads[t] <= old_heads[Other(t)]
        BY <1>e, <1>5 DEF PendingBehind, Advance, Moving
      <4>4. \A t \in Side : heads'[t] = IF t = s THEN read ELSE heads[t]
        BY <2>5, <1>a
      <4> HIDE DEF s, e
      <4>5. \A t \in Pending : heads'[t] <= old_heads[Other(t)]
        BY <4>1, <4>2, <4>3, <4>4
      <4> QED
        BY <3>1, <4>1, <4>5 DEF PendingBehind, Pending
    <3>3. CASE ~GoesOn(s, read)
      <4>1. queue' = Tail(queue)
        BY <3>3, <1>5 DEF Advance
      <4>2. Tail(queue) = <<>> \/ (s = 0 /\ Tail(queue) = <<1>> /\ queue = <<0, 1>>)
        BY <1>a, <2>0, QueueTail
      <4>3. CASE Tail(queue) = <<>>
        BY <4>1, <4>3, <3>1 DEF PendingBehind, Pending
      <4>4. CASE s = 0 /\ Tail(queue) = <<1>> /\ queue = <<0, 1>>
        <5>1. Pending' = {1} /\ 1 \in Pending
          BY <4>1, <4>4 DEF Pending
        <5>2. heads'[1] = heads[1]
          BY <4>4, <2>5, <1>a DEF Side
        <5> QED
          BY <5>1, <5>2, <3>1, <1>e, <1>5 DEF PendingBehind, Advance, Moving
      <4> QED
        BY <4>2, <4>3, <4>4
    <3> QED
      BY <3>2, <3>3
  <2> QED
    BY <2>9, <2>10, <2>11, <2>12, <2>13, <2>14 DEF IInv
<1>6. ASSUME CopyPrefix \/ SkipPhrase \/ CopySuffix PROVE IInv'
  <2>1. pc \in {"prefix", "skip", "suffix"} /\ pos < L /\ pos \in 0 .. L
    BY <1>6, <1>c DEF CopyPrefix, SkipPhrase, CopySuffix, IInv, TypeOK
  <2>2. cur \in Side /\ pos \in DOMAIN input.base[cur]
    BY <2>1, <1>e DEF WriterOnPhrase
  <2> DEFINE e == input.base[cur][pos]
  <2>3. e \in Phrase /\ pos + e.ell \in DOMAIN input.base[cur] \union {L}
        /\ pos + e.ell \in 0 .. L
    BY <2>2, <1>d, NextPhrase
  <2>4. pos' = pos + e.ell /\ last' = e
    BY <1>6 DEF CopyPrefix, SkipPhrase, CopySuffix
  <2>5. DOMAIN out' = DOMAIN out
    BY <1>6 DEF CopyPrefix, SkipPhrase, CopySuffix, Copy
  <2>6. UNCHANGED <<input, pc, reading, cur>>
    BY <1>6 DEF CopyPrefix, SkipPhrase, CopySuffix
  <2> HIDE DEF e
  <2>7. TypeOK'
    BY <2>3, <2>4, <2>5, <2>6 DEF IInv, TypeOK, reading
  <2>8. WriterIdle' /\ WriterOnPhrase'
    BY <2>1, <2>2, <2>3, <2>4, <2>6 DEF WriterIdle, WriterOnPhrase, Reading
  <2> QED
    BY <1>e, <2>6, <2>7, <2>8 DEF IInv, reading, OnPhrases, HeadsGrow, StartsBehind, Start,
       QueueFilled, RoundOpen, PendingBehind, Moving, Walking, Pending
<1>7. ASSUME SwitchSide \/ PutBridge \/ Finish PROVE IInv'
  <2>1. UNCHANGED <<input, reading>> /\ DOMAIN out' = DOMAIN out /\ last' = last
    BY <1>7 DEF SwitchSide, PutBridge, Finish
  <2>2. pc \in {"prefix", "skip", "suffix"} /\ pc' \in {"skip", "suffix", "done"}
    BY <1>7 DEF SwitchSide, PutBridge, Finish
  <2>3. cur \in Side /\ pos \in DOMAIN input.base[cur] \union {L}
    BY <2>2, <1>e DEF WriterOnPhrase
  <2>4. \A s \in Side : 0 \in DOMAIN input.base[s]
    BY <1>d DEF IsParsing
  <2>5. cur' \in Side /\ pos' \in DOMAIN input.base[cur'] \union {L} /\ pos' \in 0 .. L
    BY <2>3, <2>4, <1>7 DEF SwitchSide, PutBridge, Finish, Side, Other, IInv, TypeOK
  <2>6. TypeOK'
    BY <2>1, <2>2, <2>5 DEF IInv, TypeOK, reading
  <2>7. WriterIdle' /\ WriterOnPhrase'
    BY <2>1, <2>2, <2>5 DEF WriterIdle, WriterOnPhrase, Reading
  <2>8. OnPhrases' /\ HeadsGrow' /\ StartsBehind'
    BY <1>e, <2>1 DEF reading, OnPhrases, HeadsGrow, StartsBehind, Start
  <2>9. QueueFilled' /\ RoundOpen' /\ PendingBehind'
    BY <2>2 DEF QueueFilled, RoundOpen, PendingBehind, Moving, Walking
  <2> QED
    BY <2>6, <2>7, <2>8, <2>9 DEF IInv
<1>8. CASE Terminated \/ UNCHANGED vars
  <2>1. UNCHANGED vars
    BY <1>8 DEF Terminated
  <2>2. TypeOK'
    BY <2>1 DEF IInv, TypeOK, vars, reading, generating
  <2>3. OnPhrases' /\ HeadsGrow' /\ StartsBehind'
    BY <1>e, <2>1 DEF vars, reading, generating, OnPhrases, HeadsGrow, StartsBehind, Start
  <2>4. QueueFilled' /\ RoundOpen' /\ PendingBehind'
    BY <1>e, <2>1 DEF vars, reading, generating, QueueFilled, RoundOpen, PendingBehind,
                      Moving, Walking, Pending
  <2>5. WriterIdle' /\ WriterOnPhrase'
    BY <1>e, <2>1 DEF vars, reading, generating, WriterIdle, WriterOnPhrase, Reading
  <2> QED
    BY <2>2, <2>3, <2>4, <2>5 DEF IInv
<1> QED
  BY <1>1, <1>2, <1>3, <1>4, <1>5, <1>6, <1>7, <1>8 DEF Next

LEMMA SpecIInv == Spec => []IInv
BY InitIInv, NextIInv, PTL DEF Spec

(* Every variable keeps its type, whatever the parsings: edge_costweight   *)
(* is only asked for phrases the cost matrices cover, generate only reads  *)
(* and writes positions of the text, and the costs compared are numbers.   *)
THEOREM TypeCorrect == Spec => []TypeOK
<1>1. IInv => TypeOK
  BY DEF IInv
<1> QED
  BY <1>1, SpecIInv, PTL

(* The two readers of swap_points never read past the end of a parsing nor *)
(* between two phrases of it.                                              *)
THEOREM ReadersStayOnPhrases == Spec => []ReadersOnPhrases
<1>1. IInv => ReadersOnPhrases
  <2> SUFFICES ASSUME IInv PROVE ReadersOnPhrases
    OBVIOUS
  <2>1. \A s \in Side : heads[s] \in DOMAIN input.base[s] \union {L}
    BY DEF IInv, OnPhrases
  <2>2. ASSUME pc = "advance" PROVE heads[Head(queue)] < L
    <3>1. queue \in {<<>>, <<0>>, <<1>>, <<0, 1>>} /\ queue # <<>>
      BY <2>2 DEF IInv, TypeOK, QueueFilled, Walking
    <3>2. Head(queue) \in Side /\ Head(queue) \in Pending
      BY <3>1, QueueTail DEF Pending
    <3>3. heads[Head(queue)] <= old_heads[Other(Head(queue))]
          /\ old_heads[Other(Head(queue))] < L
      BY <2>2, <3>2 DEF IInv, PendingBehind, RoundOpen, Moving, Side, Other
    <3>4. heads[Head(queue)] \in Int /\ old_heads[Other(Head(queue))] \in Int
      BY <3>2, LengthAssumption DEF IInv, TypeOK, Side, Other
    <3> QED
      BY <3>3, <3>4, LengthAssumption
  <2> QED
    BY <2>1, <2>2 DEF ReadersOnPhrases
<1> QED
  BY <1>1, SpecIInv, PTL

(* The bridge a swap is evaluated with is always the end of a phrase of    *)
(* the other parsing: it never starts before that phrase does.             *)
THEOREM BridgesAreInside == Spec => []BridgeInside
<1>1. IInv => BridgeInside
  <2> SUFFICES ASSUME IInv, NEW s \in Side
               PROVE heads[Other(s)] - incoming[Other(s)].ell <= heads[s]
    BY DEF BridgeInside
  <2>1. Other(s) \in Side /\ Other(Other(s)) = s
    BY DEF Side, Other
  <2> QED
    BY <2>1 DEF IInv, StartsBehind, Start
<1> QED
  BY <1>1, SpecIInv, PTL

(* What a side has read and what is left always make up the cost and the   *)
(* weight it is recorded with, so a swap is priced as prefix plus suffix.  *)
THEOREM HeadTailBalance == Spec => []HeadTailAccounting
<1>1. Init => HeadTailAccounting
  <2> SUFFICES ASSUME Init, NEW s \in Side PROVE Plus(head[s], tail[s]) = input.total[s]
    BY DEF HeadTailAccounting
  <2>1. head[s] = [cost |-> 0, weight |-> 0] /\ tail[s] = input.total[s]
    BY DEF Init, EdgeCW
  <2>2. input.total[s] \in CW
    BY InputsAssumption DEF Init, IsInput
  <2> QED
    BY <2>1, <2>2 DEF Plus, CW
<1>2. IInv /\ HeadTailAccounting /\ [Next]_vars => HeadTailAccounting'
  <2> SUFFICES ASSUME IInv, HeadTailAccounting, [Next]_vars PROVE HeadTailAccounting'
    OBVIOUS
  <2>1. CASE Advance
    <3> DEFINE s == Head(queue)
               e == input.base[s][heads[s]]
               cw == EdgeCW(e.d, e.ell)
    <3>1. s \in Side /\ e \in Phrase
      BY <2>1, PhraseRead
    <3>2. cw \in CW /\ head \in [Side -> CW] /\ tail \in [Side -> CW]
      BY <3>1, EdgeCWType DEF IInv, TypeOK
    <3>3. /\ head' = [head EXCEPT ![s] = Plus(head[s], cw)]
          /\ tail' = [tail EXCEPT ![s] = Minus(tail[s], cw)]
          /\ input' = input
      BY <2>1 DEF Advance
    <3> HIDE DEF s, e, cw
    <3>4. head[s] \in CW /\ tail[s] \in CW
      BY <3>1, <3>2
    <3>5. Plus(Plus(head[s], cw), Minus(tail[s], cw)) = Plus(head[s], tail[s])
      BY <3>2, <3>4, MoveCW
    <3>6. ASSUME NEW t \in Side PROVE Plus(head'[t], tail'[t]) = Plus(head[t], tail[t])
      <4>1. CASE t = s
        BY <4>1, <3>1, <3>2, <3>3, <3>5
      <4>2. CASE t # s
        BY <4>2, <3>1, <3>2, <3>3
      <4> QED
        BY <4>1, <4>2
    <3> QED
      BY <3>3, <3>6 DEF HeadTailAccounting
  <2>2. CASE ~Advance
    <3>1. UNCHANGED <<input, head, tail>>
      BY <2>2 DEF Next, vars, reading, NextRound, EndRounds, Evaluate, StartTurn, CopyPrefix,
         SwitchSide, SkipPhrase, PutBridge, CopySuffix, Finish, Terminated
    <3> QED
      BY <3>1 DEF HeadTailAccounting
  <2> QED
    BY <2>1, <2>2
<1> QED
  BY <1>1, <1>2, SpecIInv, PTL DEF Spec
(* Nothing has been read; and the recorded total of s, when within budget, *)
(* is already matched.                                                     *)
Fresh == heads = [s \in Side |-> 0] /\ head = [s \in Side |-> EdgeCW(0, 0)]
         /\ tail = input.total
Covered(s) == input.total[s].weight <= Budget =>
                best.sol # None /\ best.cost <= input.total[s].cost

(* The first round swaps at 0: each side in turn stands for all the other. *)
CoverInv ==
  \/ pc = "round" /\ Fresh
  \/ pc = "evaluate" /\ Fresh /\ queue = <<0, 1>>
  \/ pc = "evaluate" /\ Fresh /\ queue = <<1>> /\ Covered(1)
  \/ Covered(0) /\ Covered(1)

(* Evaluating a swap never loses what is covered, and a swap at 0 covers   *)
(* the side it goes on with.                                               *)
LEMMA EvaluateCovers ==
  ASSUME IInv, Evaluate
  PROVE  /\ \A t \in Side : Covered(t) => Covered(t)'
         /\ \A t \in Side : Fresh /\ t = Other(Head(queue)) => Covered(t)'
<1> DEFINE s == Head(queue)
           c == Candidate(s)
<1>1. s \in Side /\ c \in CW
  BY CandidateType
<1>2. c.cost \in Int /\ c.weight \in Int
  BY <1>1 DEF CW
<1>3. best.cost \in Int
  BY DEF IInv, TypeOK
<1>4. Budget' = Budget /\ input' = input
  BY DEF Evaluate, Budget
<1>5. best' = IF c.weight <= Budget /\ (best.sol = None \/ c.cost < best.cost)
              THEN [cost |-> c.cost, sol |-> s, point |-> heads[s]] ELSE best
  BY DEF Evaluate, WithinBudget
<1>6. s # None
  BY <1>1 DEF Side, None
<1>7. \A t \in Side : input.total[t] \in CW
  BY DEF IInv, TypeOK, IsInput
<1>8. \A t \in Side : input.total[t].cost \in Int
  BY <1>7 DEF CW
<1>9. ASSUME NEW t \in Side, Covered(t) PROVE Covered(t)'
  <2> SUFFICES ASSUME input.total[t].weight <= Budget
               PROVE  best'.sol # None /\ best'.cost <= input.total[t].cost
    BY <1>4 DEF Covered
  <2>1. best.sol # None /\ best.cost <= input.total[t].cost
    BY <1>9 DEF Covered
  <2> HIDE DEF c, s
  <2>2. CASE best' = best
    BY <2>1, <2>2
  <2>3. CASE best' # best
    BY <2>1, <2>3, <1>2, <1>3, <1>5, <1>6, <1>8
  <2> QED
    BY <2>2, <2>3
<1>10. ASSUME Fresh, NEW o \in Side, o = Other(s) PROVE Covered(o)'
  <2>2. EdgeCW(incoming[o].d, heads[o] - heads[s]) = [cost |-> 0, weight |-> 0]
    BY <1>1, <1>10 DEF Fresh, EdgeCW
  <2>3. head[s] = [cost |-> 0, weight |-> 0] /\ tail[o] = input.total[o]
    BY <1>1, <1>10 DEF Fresh, EdgeCW
  <2>4. c = input.total[o]
    BY <1>10, <2>2, <2>3, <1>7 DEF Candidate, Plus, CW
  <2> HIDE DEF c, s
  <2> SUFFICES ASSUME c.weight <= Budget PROVE best'.sol # None /\ best'.cost <= c.cost
    BY <1>4, <2>4 DEF Covered
  <2> QED
    BY <1>2, <1>3, <1>5, <1>6
<1> QED
  BY <1>9, <1>10

LEMMA NextCoverInv == IInv /\ CoverInv /\ [Next]_vars => CoverInv'
<1> SUFFICES ASSUME IInv, CoverInv, [Next]_vars PROVE CoverInv'
  OBVIOUS
<1> USE LengthAssumption
<1>1. CASE Evaluate
  <2>1. \A t \in Side : /\ Covered(t) => Covered(t)'
                        /\ Fresh /\ t = Other(Head(queue)) => Covered(t)'
    BY <1>1, EvaluateCovers
  <2>2. Fresh => Fresh'
    BY <1>1 DEF Evaluate, Fresh
  <2>3. CASE Fresh /\ queue = <<0, 1>>
    <3>1. Covered(1)'
      BY <2>1, <2>3 DEF Other, Side
    <3>2. queue' = <<1>> /\ pc' = "evaluate"
      BY <1>1, <2>3 DEF Evaluate
    <3> QED
      BY <2>2, <2>3, <3>1, <3>2 DEF CoverInv
  <2>4. CASE Fresh /\ queue = <<1>> /\ Covered(1)
    <3>1. Covered(0)'
      BY <2>1, <2>4 DEF Other, Side
    <3> QED
      BY <2>1, <2>4, <3>1 DEF CoverInv, Side
  <2>5. CASE Covered(0) /\ Covered(1)
    BY <2>1, <2>5 DEF CoverInv, Side
  <2> QED
    BY <1>1, <2>3, <2>4, <2>5 DEF CoverInv, Evaluate
<1>2. CASE ~Evaluate /\ Covered(0) /\ Covered(1)
  <2>1. input' = input /\ best' = best
    BY <1>2 DEF Next, vars, reading, NextRound, EndRounds, StartTurn, Advance, CopyPrefix,
       SwitchSide, SkipPhrase, PutBridge, CopySuffix, Finish, Terminated
  <2> QED
    BY <1>2, <2>1 DEF CoverInv, Covered, Budget
<1>3. CASE ~Evaluate /\ pc = "round" /\ Fresh
  <2>1. heads[0] = 0 /\ heads[1] = 0
    BY <1>3 DEF Fresh, Side
  <2>2. CASE NextRound
    <3>1. ToProcess = <<0, 1>>
      BY <2>1 DEF ToProcess
    <3> QED
      BY <2>2, <3>1, <1>3 DEF NextRound, CoverInv, Fresh
  <2>3. CASE UNCHANGED vars
    BY <2>3, <1>3 DEF vars, reading, CoverInv, Fresh
  <2> QED
    BY <2>1, <2>2, <2>3, <1>3 DEF Next, EndRounds, StartTurn, Advance, CopyPrefix,
       SwitchSide, SkipPhrase, PutBridge, CopySuffix, Finish, Terminated
<1>4. CASE ~Evaluate /\ pc = "evaluate" /\ ~(Covered(0) /\ Covered(1))
  <2>1. UNCHANGED vars
    BY <1>4 DEF Next, NextRound, EndRounds, StartTurn, Advance, CopyPrefix,
       SwitchSide, SkipPhrase, PutBridge, CopySuffix, Finish, Terminated
  <2> QED
    BY <1>4, <2>1 DEF vars, reading, CoverInv, Fresh, Covered, Budget
<1> QED
  BY <1>1, <1>2, <1>3, <1>4 DEF CoverInv

(* When a base is within the budget a swap is found, and never costs more  *)
(* than that base: swap_points cannot throw "No swap-point found" and the  *)
(* result is at least as good as keeping the base.                         *)
THEOREM SwapNoWorse == Spec => []NoWorseThanABase
<1>1. Init => CoverInv
  BY DEF Init, CoverInv, Fresh
<1>2. CoverInv => NoWorseThanABase
  <2>1. Fresh => heads[0] = 0
    BY DEF Fresh, Side
  <2>2. Covered(0) /\ Covered(1) => NoWorseThanABase
    BY DEF Covered, NoWorseThanABase, Side
  <2> QED
    BY <2>1, <2>2 DEF CoverInv, NoWorseThanABase
<1> QED
  BY <1>1, <1>2, NextCoverInv, SpecIInv, PTL DEF Spec

-------------------------------------------------------------------------------
(* What a parsing costs, from each position on.                            *)
IsWalk(p) ==
  \A i \in DOMAIN p : i \in 0 .. (L - 1) /\ p[i] \in Phrase /\ i + p[i].ell \in 0 .. L
PhraseCW(p, i) == EdgeCW(p[i].d, p[i].ell)

LEMMA RestStep ==
  ASSUME NEW p, IsWalk(p)
  PROVE  /\ \A i \in 0 .. L : Rest(p)[i] \in CW
         /\ \A i \in 0 .. L : i \notin DOMAIN p => Rest(p)[i] = EdgeCW(0, 0)
         /\ \A i \in DOMAIN p : Rest(p)[i] = Plus(PhraseCW(p, i), Rest(p)[i + p[i].ell])
<1> USE LengthAssumption
<1> DEFINE Def(g) == [i \in 0 .. L |-> IF i \in DOMAIN p THEN Plus(PhraseCW(p, i), g[i + p[i].ell])
                                       ELSE EdgeCW(0, 0)]
           zero == EdgeCW(0, 0)
           next == [i \in 0 .. (L - 1) |-> IF i \in DOMAIN p THEN i + p[i].ell ELSE L]
           step == [x \in (0 .. (L - 1)) \X CW |->
                      IF x[1] \in DOMAIN p THEN Plus(PhraseCW(p, x[1]), x[2]) ELSE zero]
<1>1. zero \in CW
  BY DEF EdgeCW, CW
<1>2. ASSUME NEW i \in DOMAIN p
      PROVE  i \in 0 .. (L - 1) /\ i + p[i].ell \in 0 .. L /\ i < i + p[i].ell /\ PhraseCW(p, i) \in CW
  <2>1. i \in 0 .. (L - 1) /\ p[i] \in Phrase /\ i + p[i].ell \in 0 .. L
    BY DEF IsWalk
  <2>2. PhraseCW(p, i) \in CW
    BY <2>1, EdgeCWType DEF PhraseCW
  <2> QED
    BY <2>1, <2>2 DEF Phrase
<1>3. next \in [0 .. (L - 1) -> 0 .. L] /\ \A i \in 0 .. (L - 1) : i < next[i]
  BY <1>2
<1>4. step \in [(0 .. (L - 1)) \X CW -> CW]
  <2> SUFFICES ASSUME NEW i \in 0 .. (L - 1), NEW c \in CW
               PROVE  (IF i \in DOMAIN p THEN Plus(PhraseCW(p, i), c) ELSE zero) \in CW
    OBVIOUS
  <2> HIDE DEF zero
  <2> QED
    BY <1>1, <1>2, PlusType
<1>5. PICK f : Unfolds(f, L, CW, zero, next, step)
  <2> HIDE DEF next, step, zero
  <2> QED
    BY <1>1, <1>3, <1>4, UnfoldingOn
<1>6. f \in [0 .. L -> CW] /\ f[L] = zero
  BY <1>5 DEF Unfolds
<1>7. ASSUME NEW i \in 0 .. (L - 1)
      PROVE  f[i] = IF i \in DOMAIN p THEN Plus(PhraseCW(p, i), f[i + p[i].ell]) ELSE zero
  <2>1. f[i] = step[<<i, f[next[i]]>>]
    <3> HIDE DEF next, step, zero
    <3> QED
      BY <1>5 DEF Unfolds
  <2>2. next[i] \in 0 .. L
    BY <1>3
  <2>3. f[next[i]] \in CW
    <3> HIDE DEF next
    <3> QED
      BY <2>2, <1>6
  <2>4. ASSUME NEW c \in CW
        PROVE  step[<<i, c>>] = IF i \in DOMAIN p THEN Plus(PhraseCW(p, i), c) ELSE zero
    <3> HIDE DEF zero
    <3> QED
      OBVIOUS
  <2>5. step[<<i, f[next[i]]>>] = IF i \in DOMAIN p THEN Plus(PhraseCW(p, i), f[next[i]]) ELSE zero
    <3> HIDE DEF step, next, zero
    <3> QED
      BY <2>3, <2>4
  <2> HIDE DEF step, zero
  <2> QED
    BY <2>1, <2>5
<1>8. f = Def(f)
  <2> SUFFICES ASSUME NEW i \in 0 .. L
               PROVE  f[i] = IF i \in DOMAIN p THEN Plus(PhraseCW(p, i), f[i + p[i].ell]) ELSE zero
    BY <1>6
  <2>1. CASE i = L
    <3>1. i \notin DOMAIN p
      BY <2>1, <1>2
    <3> QED
      BY <2>1, <3>1, <1>6
  <2>2. CASE i # L
    BY <2>2, <1>7
  <2> QED
    BY <2>1, <2>2
<1>9. Rest(p) = CHOOSE g : g = Def(g)
  BY DEF Rest, PhraseCW
<1>10. Rest(p) = Def(Rest(p))
  <2> HIDE DEF Def
  <2> QED
    BY <1>8, <1>9, Zenon
<1> HIDE DEF Def
<1> DEFINE g == Rest(p)
<1>11. ASSUME NEW i \in 0 .. L
       PROVE  g[i] = IF i \in DOMAIN p THEN Plus(PhraseCW(p, i), g[i + p[i].ell]) ELSE zero
  BY <1>10 DEF Def
<1> HIDE DEF g, zero
<1> DEFINE Typed == {n \in Nat : \A i \in 0 .. L : L - n <= i => g[i] \in CW}
<1>12. 0 \in Typed
  <2>1. L \notin DOMAIN p
    BY <1>2
  <2> QED
    BY <2>1, <1>1, <1>11
<1>13. ASSUME NEW n \in Nat, n \in Typed PROVE (n + 1) \in Typed
  <2> SUFFICES ASSUME NEW i \in 0 .. L, L - (n + 1) <= i PROVE g[i] \in CW
    OBVIOUS
  <2>1. CASE i \in DOMAIN p
    <3>1. i + p[i].ell \in 0 .. L /\ L - n <= i + p[i].ell /\ PhraseCW(p, i) \in CW
      BY <2>1, <1>2
    <3>2. g[i + p[i].ell] \in CW
      BY <3>1, <1>13
    <3> QED
      BY <2>1, <3>1, <3>2, <1>11, PlusType
  <2> QED
    BY <2>1, <1>1, <1>11
<1> HIDE DEF Typed
<1>14. L \in Typed
  BY <1>12, <1>13, InductionOn
<1>15. \A i \in 0 .. L : g[i] \in CW
  BY <1>14 DEF Typed
<1> QED
  BY <1>2, <1>11, <1>15 DEF g, zero

LEMMA ParsingWalks ==
  ASSUME NEW p, IsParsing(p)
  PROVE  /\ IsWalk(p) /\ 0 \in DOMAIN p
         /\ \A i \in DOMAIN p : /\ i \in 0 .. (L - 1) /\ p[i] \in Phrase /\ i < i + p[i].ell
                                /\ i + p[i].ell \in 0 .. L /\ i + p[i].ell \in DOMAIN p \union {L}
                                /\ PhraseCW(p, i) \in CW
         /\ \A i, k \in DOMAIN p : i < k => i + p[i].ell <= k
<1>1. 0 \in DOMAIN p /\ \A i, k \in DOMAIN p : i < k => i + p[i].ell <= k
  BY DEF IsParsing
<1>2. ASSUME NEW i \in DOMAIN p
      PROVE  /\ i \in 0 .. (L - 1) /\ p[i] \in Phrase /\ i < i + p[i].ell
             /\ i + p[i].ell \in 0 .. L /\ i + p[i].ell \in DOMAIN p \union {L}
             /\ PhraseCW(p, i) \in CW
  <2>1. p[i] \in Phrase /\ i \in 0 .. (L - 1) /\ i + p[i].ell \in DOMAIN p \union {L}
        /\ i + p[i].ell \in 0 .. L
    BY NextPhrase
  <2>2. PhraseCW(p, i) \in CW
    BY <2>1, EdgeCWType DEF PhraseCW
  <2> QED
    BY <2>1, <2>2 DEF Phrase
<1> QED
  BY <1>1, <1>2 DEF IsWalk

(* Each position of the text is in a phrase, and in no other.              *)
Holds(p, i, h) == i \in DOMAIN p /\ i <= h /\ h < i + p[i].ell
Over(p, h) == CHOOSE i : Holds(p, i, h)

LEMMA OverHolds ==
  ASSUME NEW p, IsParsing(p), NEW h \in 0 .. (L - 1)
  PROVE  /\ Holds(p, Over(p, h), h)
         /\ \A i : Holds(p, i, h) => i = Over(p, h)
<1> USE LengthAssumption
<1>1. /\ \A i \in DOMAIN p : /\ i \in 0 .. (L - 1) /\ i < i + p[i].ell
                             /\ i + p[i].ell \in 0 .. L /\ i + p[i].ell \in DOMAIN p \union {L}
      /\ \A i, k \in DOMAIN p : i < k => i + p[i].ell <= k
      /\ 0 \in DOMAIN p
  BY ParsingWalks
<1> DEFINE Held == {n \in Nat : n < L => \E i : Holds(p, i, n)}
<1>2. 0 \in Held
  <2>1. Holds(p, 0, 0)
    BY <1>1 DEF Holds
  <2> QED
    BY <2>1
<1>3. ASSUME NEW n \in Nat, n \in Held PROVE (n + 1) \in Held
  <2> SUFFICES ASSUME n + 1 < L PROVE \E i : Holds(p, i, n + 1)
    OBVIOUS
  <2>1. PICK i : Holds(p, i, n)
    BY <1>3
  <2>2. i \in DOMAIN p /\ i <= n /\ n < i + p[i].ell
    BY <2>1 DEF Holds
  <2>3. CASE n + 1 < i + p[i].ell
    <3>1. Holds(p, i, n + 1)
      BY <2>2, <2>3, <1>1 DEF Holds
    <3> QED
      BY <3>1
  <2>4. CASE ~ (n + 1 < i + p[i].ell)
    <3>1. i \in Int /\ i + p[i].ell \in Int /\ i + p[i].ell = n + 1
      BY <2>2, <2>4, <1>1
    <3>2. (n + 1) \in DOMAIN p
      BY <2>2, <3>1, <1>1
    <3>3. Holds(p, n + 1, n + 1)
      BY <3>2, <1>1 DEF Holds
    <3> QED
      BY <3>3
  <2> QED
    BY <2>3, <2>4
<1> HIDE DEF Held
<1>4. h \in Held
  BY <1>2, <1>3, InductionOn
<1>5. \E i : Holds(p, i, h)
  BY <1>4 DEF Held
<1>6. Holds(p, Over(p, h), h)
  BY <1>5, Zenon DEF Over
<1>7. ASSUME NEW i, NEW k, Holds(p, i, h), Holds(p, k, h) PROVE i = k
  BY <1>7, <1>1 DEF Holds
<1> QED
  BY <1>6, <1>7

(* Where a phrase starts, it is the phrase over the position; every other  *)
(* end of a phrase is before or after.                                     *)
LEMMA OverStart ==
  ASSUME NEW p, IsParsing(p), NEW h \in DOMAIN p
  PROVE  Over(p, h) = h
<1>1. h \in 0 .. (L - 1) /\ Holds(p, h, h)
  BY ParsingWalks DEF Holds
<1> QED
  BY <1>1, OverHolds

(* A position where a phrase starts, or the end of the text, is where one ends. *)
LEMMA PhraseBefore ==
  ASSUME NEW p, IsParsing(p), NEW k \in DOMAIN p \union {L}, k > 0
  PROVE  \E i \in DOMAIN p : i < k /\ i + p[i].ell = k
<1> USE LengthAssumption
<1>1. /\ \A i \in DOMAIN p : i \in 0 .. (L - 1) /\ i + p[i].ell \in 0 .. L
      /\ \A i, j \in DOMAIN p : i < j => i + p[i].ell <= j
  BY ParsingWalks
<1>2. k - 1 \in 0 .. (L - 1) /\ k \in 1 .. L
  BY <1>1
<1>3. PICK i : Holds(p, i, k - 1)
  BY <1>2, OverHolds
<1>4. i \in DOMAIN p /\ i <= k - 1 /\ k - 1 < i + p[i].ell
  BY <1>3 DEF Holds
<1>5. i \in Int /\ i + p[i].ell \in 0 .. L /\ i < k
  BY <1>1, <1>2, <1>4
<1>6. i + p[i].ell <= k
  BY <1>1, <1>4, <1>5
<1> QED
  BY <1>2, <1>4, <1>5, <1>6

(* A parsing up to where one of its phrases starts, the end of the phrase  *)
(* of another that is over that position, and the other after that.        *)
Resumes(b, h) == Over(b, h) + b[Over(b, h)].ell
Spliced(a, b, h, i) == IF i < h THEN a[i]
                       ELSE IF i = h THEN [d |-> b[Over(b, h)].d, ell |-> Resumes(b, h) - h]
                       ELSE b[i]
Splice(a, b, h) == [i \in {i \in DOMAIN a : i < h} \union {h} \union {i \in DOMAIN b : h < i}
                    |-> Spliced(a, b, h, i)]
LEMMA SpliceParses ==
  ASSUME NEW a, NEW b, IsParsing(a), IsParsing(b), NEW h \in DOMAIN a
  PROVE  /\ IsParsing(Splice(a, b, h))
         /\ h \in 0 .. (L - 1) /\ Resumes(b, h) \in DOMAIN b \union {L} /\ h < Resumes(b, h)
         /\ Splice(a, b, h)[h] = [d |-> b[Over(b, h)].d, ell |-> Resumes(b, h) - h]
         /\ Resumes(b, h) \in 0 .. L
         /\ \A i \in DOMAIN Splice(a, b, h) : i > h => Resumes(b, h) <= i
<1> USE LengthAssumption
<1> DEFINE p == Splice(a, b, h)
           o == Over(b, h)
           end == o + b[o].ell
<1>1. /\ h \in 0 .. (L - 1)
      /\ \A i \in DOMAIN a : /\ i \in 0 .. (L - 1) /\ a[i] \in Phrase /\ i < i + a[i].ell
                             /\ i + a[i].ell \in 0 .. L /\ i + a[i].ell \in DOMAIN a \union {L}
      /\ \A i, k \in DOMAIN a : i < k => i + a[i].ell <= k
      /\ 0 \in DOMAIN a
  BY ParsingWalks
<1>2. /\ \A i \in DOMAIN b : /\ i \in 0 .. (L - 1) /\ b[i] \in Phrase /\ i < i + b[i].ell
                             /\ i + b[i].ell \in 0 .. L /\ i + b[i].ell \in DOMAIN b \union {L}
      /\ \A i, k \in DOMAIN b : i < k => i + b[i].ell <= k
  BY ParsingWalks
<1>3. Holds(b, o, h)
  BY <1>1, OverHolds
<1>4. o \in DOMAIN b /\ o <= h /\ h < end /\ end \in 0 .. L /\ end \in DOMAIN b \union {L}
  BY <1>2, <1>3 DEF Holds
<1>5. DOMAIN p = {i \in DOMAIN a : i < h} \union {h} \union {i \in DOMAIN b : h < i}
  BY DEF Splice
<1>6. /\ \A i \in DOMAIN p : i < h => p[i] = a[i]
      /\ p[h] = [d |-> b[o].d, ell |-> end - h]
      /\ \A i \in DOMAIN p : i > h => p[i] = b[i]
  <2>1. ASSUME NEW i \in DOMAIN p
        PROVE  p[i] = IF i < h THEN a[i] ELSE IF i = h THEN [d |-> b[o].d, ell |-> end - h] ELSE b[i]
    <3>1. p[i] = Spliced(a, b, h, i)
      BY DEF Splice
    <3> QED
      BY <3>1 DEF Spliced, Resumes
  <2>2. \A i \in DOMAIN p : i \in Int
    BY <1>1, <1>2, <1>5
  <2> HIDE DEF p, o, end
  <2> QED
    BY <1>1, <1>5, <2>1, <2>2
<1>7. \A i \in DOMAIN p : i \in 0 .. (L - 1)
  BY <1>1, <1>2, <1>5
<1>8. 0 \in DOMAIN p
  BY <1>1, <1>5
<1>9. p[h] \in Phrase /\ h + p[h].ell = end
  <2>1. b[o] \in Phrase /\ end - h \in 1 .. MaxLen /\ h \in Int /\ end \in Int
    BY <1>1, <1>2, <1>4 DEF Phrase
  <2> HIDE DEF p, o, end
  <2> QED
    BY <2>1, <1>6 DEF Phrase
<1>10. \A i \in DOMAIN b : h < i => end <= i
  <2>1. SUFFICES ASSUME NEW i \in DOMAIN b, h < i PROVE end <= i
    OBVIOUS
  <2>2. o \in Int /\ h \in Int /\ i \in Int
    BY <1>1, <1>2, <1>4
  <2>3. o < i
    BY <1>4, <2>1, <2>2
  <2> QED
    BY <1>2, <1>4, <2>3
<1> HIDE DEF p, o, end
<1>11. ASSUME NEW i \in DOMAIN p
       PROVE  /\ p[i] \in Phrase
              /\ i + p[i].ell \in DOMAIN p \union {L}
              /\ \A k \in DOMAIN p : i < k => i + p[i].ell <= k
  <2>1. CASE i < h
    <3>1. i \in DOMAIN a /\ p[i] = a[i] /\ i + a[i].ell <= h /\ i + a[i].ell \in DOMAIN a \union {L}
      BY <2>1, <1>1, <1>2, <1>5, <1>6
    <3>2. i + a[i].ell \in DOMAIN p
      BY <3>1, <1>1, <1>5
    <3>3. ASSUME NEW k \in DOMAIN p, i < k PROVE i + a[i].ell <= k
      <4>1. CASE k < h
        BY <3>1, <3>3, <4>1, <1>1, <1>2, <1>5
      <4>2. CASE ~ k < h
        BY <3>1, <4>2, <1>1, <1>7
      <4> QED
        BY <4>1, <4>2
    <3> QED
      BY <3>1, <3>2, <3>3, <1>1
  <2>2. CASE i = h
    <3>1. end \in DOMAIN p \union {L}
      BY <1>4, <1>5
    <3>2. \A k \in DOMAIN p : h < k => end <= k
      BY <1>1, <1>5, <1>10
    <3> QED
      BY <2>2, <3>1, <3>2, <1>9
  <2>3. CASE i > h
    <3>1. i \in DOMAIN b /\ p[i] = b[i]
      BY <2>3, <1>1, <1>5, <1>6
    <3>2. i + b[i].ell \in DOMAIN p \union {L}
      BY <2>3, <3>1, <1>1, <1>2, <1>5
    <3>3. ASSUME NEW k \in DOMAIN p, i < k PROVE i + b[i].ell <= k
      <4>1. k \in DOMAIN b
        BY <2>3, <3>3, <1>1, <1>5, <1>7
      <4> QED
        BY <3>1, <3>3, <4>1, <1>2
    <3> QED
      BY <3>1, <3>2, <3>3, <1>2
  <2> QED
    BY <2>1, <2>2, <2>3, <1>1, <1>7
<1>12. IsParsing(p)
  BY <1>7, <1>8, <1>11 DEF IsParsing
<1>13. \A i \in DOMAIN p : i > h => end <= i
  BY <1>1, <1>5, <1>10
<1> QED
  BY <1>1, <1>4, <1>6, <1>12, <1>13 DEF p, o, end, Resumes

LEMMA PlusMore ==
  ASSUME NEW e \in CW, NEW w \in CW, NEW x \in CW, NEW y \in CW, NEW z \in CW,
         Plus(x, y) = Plus(z, w)
  PROVE  Plus(Plus(e, x), y) = Plus(Plus(e, z), w)
BY DEF Plus, CW

(* What it costs is what the first parsing costs up to there, the bridge,  *)
(* and what the other costs after it.                                      *)
Bridge(b, h) == EdgeCW(b[Over(b, h)].d, Resumes(b, h) - h)

LEMMA SpliceCosts ==
  ASSUME NEW a, NEW b, IsParsing(a), IsParsing(b), NEW h \in DOMAIN a
  PROVE  /\ Plus(Rest(Splice(a, b, h))[0], Rest(a)[h])
               = Plus(Rest(a)[0], Plus(Bridge(b, h), Rest(b)[Resumes(b, h)]))
         /\ Bridge(b, h) \in CW
<1> USE LengthAssumption
<1> DEFINE p == Splice(a, b, h)
           end == Resumes(b, h)
<1>0. /\ h \in 0 .. (L - 1)
      /\ IsParsing(p) /\ end \in DOMAIN b \union {L} /\ end \in 0 .. L /\ h < end
      /\ p[h] = [d |-> b[Over(b, h)].d, ell |-> end - h]
      /\ \A i \in DOMAIN p : h < i => end <= i
  <2>1. h \in 0 .. (L - 1)
    BY ParsingWalks
  <2> QED
    BY <2>1, SpliceParses
<1>1. /\ h \in 0 .. (L - 1) /\ IsParsing(p) /\ end \in DOMAIN b \union {L} /\ end \in 0 .. L /\ h < end
      /\ p[h] = [d |-> b[Over(b, h)].d, ell |-> end - h]
      /\ \A i \in DOMAIN p : h < i => end <= i
      /\ DOMAIN p = {i \in DOMAIN a : i < h} \union {h} \union {i \in DOMAIN b : h < i}
      /\ h \in DOMAIN p
  <2>1. DOMAIN p = {i \in DOMAIN a : i < h} \union {h} \union {i \in DOMAIN b : h < i}
    BY DEF Splice
  <2> QED
    BY <1>0, <2>1
<1>2. /\ \A i \in DOMAIN a : /\ i \in 0 .. (L - 1) /\ i < i + a[i].ell /\ i + a[i].ell \in 0 .. L
                             /\ i + a[i].ell \in DOMAIN a \union {L} /\ PhraseCW(a, i) \in CW
      /\ \A i, k \in DOMAIN a : i < k => i + a[i].ell <= k
      /\ 0 \in DOMAIN a
  BY ParsingWalks
<1>3. \A i \in DOMAIN b : /\ i \in 0 .. (L - 1) /\ i < i + b[i].ell /\ i + b[i].ell \in 0 .. L
                          /\ i + b[i].ell \in DOMAIN b \union {L} /\ PhraseCW(b, i) \in CW
  BY ParsingWalks
<1>4. \A i \in DOMAIN p : PhraseCW(p, i) \in CW /\ i \in 0 .. (L - 1)
  BY <1>1, ParsingWalks
<1>5. /\ \A i \in 0 .. L : Rest(a)[i] \in CW
      /\ \A i \in DOMAIN a : Rest(a)[i] = Plus(PhraseCW(a, i), Rest(a)[i + a[i].ell])
  BY ParsingWalks, RestStep
<1>6. /\ Rest(b)[L] = EdgeCW(0, 0)
      /\ \A i \in DOMAIN b : Rest(b)[i] = Plus(PhraseCW(b, i), Rest(b)[i + b[i].ell])
  <2>1. L \notin DOMAIN b /\ L \in 0 .. L
    BY <1>3
  <2> QED
    BY <2>1, ParsingWalks, RestStep
<1>7. /\ \A i \in 0 .. L : Rest(p)[i] \in CW
      /\ Rest(p)[L] = EdgeCW(0, 0)
      /\ \A i \in DOMAIN p : Rest(p)[i] = Plus(PhraseCW(p, i), Rest(p)[i + p[i].ell])
  <2>1. L \notin DOMAIN p /\ L \in 0 .. L
    BY <1>4
  <2>2. IsWalk(p)
    BY <1>1, ParsingWalks
  <2> HIDE DEF p
  <2> QED
    BY <2>1, <2>2, RestStep
<1>8. /\ \A i \in DOMAIN a : i < h => i \in DOMAIN p /\ p[i] = a[i]
      /\ \A i \in DOMAIN b : h < i => i \in DOMAIN p /\ p[i] = b[i]
  <2>1. \A i \in DOMAIN p : p[i] = Spliced(a, b, h, i)
    BY DEF Splice
  <2>2. (\A i \in DOMAIN a : i \in Int) /\ (\A i \in DOMAIN b : i \in Int) /\ h \in Int
    BY <1>1, <1>2, <1>3
  <2> HIDE DEF p
  <2> QED
    BY <1>1, <2>1, <2>2 DEF Spliced
<1> HIDE DEF p, end
<1>9. \A i \in DOMAIN b \union {L} : h < i => Rest(p)[i] = Rest(b)[i]
  <2> DEFINE Same == {n \in Nat : \A i \in DOMAIN b \union {L} : h < i /\ L - n <= i => Rest(p)[i] = Rest(b)[i]}
  <2>1. 0 \in Same
    BY <1>3, <1>6, <1>7
  <2>2. ASSUME NEW n \in Nat, n \in Same PROVE (n + 1) \in Same
    <3> SUFFICES ASSUME NEW i \in DOMAIN b \union {L}, h < i, L - (n + 1) <= i
                 PROVE  Rest(p)[i] = Rest(b)[i]
      OBVIOUS
    <3>1. CASE i = L
      BY <3>1, <1>6, <1>7
    <3>2. CASE i \in DOMAIN b
      <4>1. i \in DOMAIN p /\ p[i] = b[i]
        BY <3>2, <1>8
      <4>2. h < i + b[i].ell /\ L - n <= i + b[i].ell /\ i + b[i].ell \in DOMAIN b \union {L}
        BY <3>2, <1>1, <1>3
      <4>3. Rest(p)[i + b[i].ell] = Rest(b)[i + b[i].ell]
        BY <4>2, <2>2
      <4> QED
        BY <3>2, <4>1, <4>3, <1>6, <1>7 DEF PhraseCW
    <3> QED
      BY <3>1, <3>2
  <2> HIDE DEF Same
  <2>3. L \in Same
    BY <2>1, <2>2, InductionOn
  <2> QED
    BY <2>3, <1>3 DEF Same
<1>10. Rest(p)[h] = Plus(Bridge(b, h), Rest(b)[end]) /\ Bridge(b, h) \in CW
  <2>1. h + p[h].ell = end /\ PhraseCW(p, h) = Bridge(b, h)
    BY <1>1 DEF PhraseCW, Bridge, end
  <2>2. Rest(p)[end] = Rest(b)[end]
    BY <1>1, <1>9
  <2> QED
    BY <2>1, <2>2, <1>1, <1>4, <1>7
<1>11. Plus(Rest(p)[0], Rest(a)[h]) = Plus(Rest(a)[0], Rest(p)[h])
  <2> DEFINE Same == {n \in Nat : \A i \in DOMAIN a : i <= h /\ h - n <= i =>
                                    Plus(Rest(p)[i], Rest(a)[h]) = Plus(Rest(a)[i], Rest(p)[h])}
  <2>0. h \in 0 .. L /\ Rest(a)[h] \in CW /\ Rest(p)[h] \in CW
    BY <1>1, <1>5, <1>7
  <2>1. 0 \in Same
    <3>1. Plus(Rest(p)[h], Rest(a)[h]) = Plus(Rest(a)[h], Rest(p)[h])
      BY <2>0 DEF Plus, CW
    <3> QED
      BY <3>1, <1>1, <1>2
  <2>2. ASSUME NEW n \in Nat, n \in Same PROVE (n + 1) \in Same
    <3> SUFFICES ASSUME NEW i \in DOMAIN a, i < h, h - (n + 1) <= i
                 PROVE  Plus(Rest(p)[i], Rest(a)[h]) = Plus(Rest(a)[i], Rest(p)[h])
      BY <2>2, <1>1, <1>2
    <3> DEFINE j == i + a[i].ell
    <3>1. j \in DOMAIN a /\ j <= h /\ h - n <= j /\ j \in 0 .. L
      BY <1>1, <1>2
    <3>2. Plus(Rest(p)[j], Rest(a)[h]) = Plus(Rest(a)[j], Rest(p)[h])
      BY <3>1, <2>2
    <3>3. Rest(p)[i] = Plus(PhraseCW(a, i), Rest(p)[j]) /\ Rest(a)[i] = Plus(PhraseCW(a, i), Rest(a)[j])
      BY <1>5, <1>7, <1>8 DEF PhraseCW
    <3>4. PhraseCW(a, i) \in CW /\ Rest(p)[j] \in CW /\ Rest(a)[j] \in CW
      BY <3>1, <1>2, <1>5, <1>7
    <3> HIDE DEF j
    <3> QED
      BY <2>0, <3>2, <3>3, <3>4, PlusMore
  <2> HIDE DEF Same
  <2>3. h \in Same
    BY <1>1, <2>1, <2>2, InductionOn
  <2> QED
    BY <2>3, <1>1, <1>2 DEF Same
<1> QED
  BY <1>10, <1>11 DEF p, end

(* A buffer that holds a parsing has no other path from 0. *)
LEMMA PathIsTheParsing ==
  ASSUME NEW p, IsParsing(p), \A i \in DOMAIN p : out[i] = p[i]
  PROVE  PathStarts = DOMAIN p \union {L}
<1> USE LengthAssumption
<1> DEFINE step(g, i) == IF i = 0 THEN {0}
                         ELSE IF i - 1 \in g[i - 1] THEN g[i - 1] \union {i - 1 + out[i - 1].ell}
                         ELSE g[i - 1]
           Def(g) == [i \in 0 .. L |-> step(g, i)]
           reached(i) == {0} \union {k + p[k].ell : k \in {k \in DOMAIN p : k < i}}
           w == [i \in 0 .. L |-> reached(i)]
<1>1. /\ \A i \in DOMAIN p : i \in 0 .. (L - 1) /\ i < i + p[i].ell
                             /\ i + p[i].ell \in 0 .. L /\ i + p[i].ell \in DOMAIN p \union {L}
      /\ 0 \in DOMAIN p
  BY ParsingWalks
<1>2. ASSUME NEW k \in DOMAIN p \union {L}, k > 0 PROVE \E i \in DOMAIN p : i < k /\ i + p[i].ell = k
  BY <1>2, PhraseBefore
<1>3. ASSUME NEW i \in 1 .. L
      PROVE  reached(i) = IF i - 1 \in reached(i - 1) THEN reached(i - 1) \union {i - 1 + out[i - 1].ell}
                          ELSE reached(i - 1)
  <2>1. i - 1 \in reached(i - 1) <=> i - 1 \in DOMAIN p
    <3>1. ASSUME i - 1 \in DOMAIN p PROVE i - 1 \in reached(i - 1)
      BY <3>1, <1>1, <1>2
    <3>2. ASSUME i - 1 \in reached(i - 1) PROVE i - 1 \in DOMAIN p
      BY <3>2, <1>1
    <3> QED
      BY <3>1, <3>2
  <2>2. \A k \in DOMAIN p : k < i <=> (k < i - 1 \/ k = i - 1)
    BY <1>1
  <2>3. i - 1 \in DOMAIN p => out[i - 1].ell = p[i - 1].ell
    OBVIOUS
  <2>4. CASE i - 1 \in DOMAIN p
    <3>1. reached(i) = reached(i - 1) \union {i - 1 + p[i - 1].ell}
      BY <2>2, <2>4
    <3> QED
      BY <2>1, <2>3, <2>4, <3>1
  <2>5. CASE i - 1 \notin DOMAIN p
    <3>1. reached(i) = reached(i - 1)
      BY <2>2, <2>5
    <3> QED
      BY <2>1, <2>5, <3>1
  <2> QED
    BY <2>4, <2>5
<1>4. reached(0) = {0}
  BY <1>1
<1> HIDE DEF reached
<1>5. w = Def(w)
  <2> SUFFICES ASSUME NEW i \in 0 .. L PROVE reached(i) = step(w, i)
    BY Zenon
  <2>1. CASE i = 0
    BY <2>1, <1>4
  <2>2. CASE i # 0
    <3>1. i \in 1 .. L /\ w[i - 1] = reached(i - 1)
      BY <2>2
    <3> QED
      BY <2>2, <3>1, <1>3
  <2> QED
    BY <2>1, <2>2
<1>6. PathStarts = (CHOOSE g : g = Def(g))[L]
  BY DEF PathStarts
<1> DEFINE f == CHOOSE g : g = Def(g)
<1>7. f = Def(f)
  <2> HIDE DEF Def, w
  <2> QED
    BY <1>5, Zenon
<1> HIDE DEF f
<1> HIDE DEF step
<1>8. ASSUME NEW i \in 0 .. L PROVE f[i] = step(f, i)
  BY <1>7, Zenon
<1> HIDE DEF Def
<1> DEFINE Same == {n \in Nat : n <= L => f[n] = reached(n)}
<1>9. 0 \in Same
  <2>1. 0 \in 0 .. L
    OBVIOUS
  <2>2. f[0] = {0}
    BY <2>1, <1>8 DEF step
  <2> QED
    BY <2>2, <1>4
<1>10. ASSUME NEW n \in Nat, n \in Same PROVE (n + 1) \in Same
  <2> SUFFICES ASSUME n + 1 <= L PROVE f[n + 1] = reached(n + 1)
    OBVIOUS
  <2>1. n + 1 \in 1 .. L /\ n + 1 \in 0 .. L /\ n + 1 > 0 /\ (n + 1) - 1 = n /\ f[n] = reached(n)
    BY <1>10
  <2>2. f[n + 1] = IF n \in f[n] THEN f[n] \union {n + out[n].ell} ELSE f[n]
    <3>1. f[n + 1] = step(f, n + 1) /\ n + 1 # 0
      BY <2>1, <1>8
    <3> QED
      BY <2>1, <3>1 DEF step
  <2>3. reached(n + 1) = IF n \in reached(n) THEN reached(n) \union {n + out[n].ell} ELSE reached(n)
    BY <2>1, <1>3
  <2> QED
    BY <2>1, <2>2, <2>3
<1> HIDE DEF Same
<1>11. L \in Same
  BY <1>9, <1>10, InductionOn
<1>12. PathStarts = reached(L)
  BY <1>6, <1>11 DEF Same, f
<1>13. reached(L) = DOMAIN p \union {L}
  <2>1. \A k \in reached(L) : k \in DOMAIN p \union {L}
    BY <1>1 DEF reached
  <2>2. ASSUME NEW k \in DOMAIN p \union {L} PROVE k \in reached(L)
    <3>1. CASE k = 0
      BY <3>1 DEF reached
    <3>2. CASE k # 0
      <4>1. k > 0
        BY <3>2, <1>1
      <4> QED
        BY <4>1, <1>1, <1>2 DEF reached
    <3> QED
      BY <3>1, <3>2
  <2> QED
    BY <2>1, <2>2
<1> QED
  BY <1>12, <1>13

-------------------------------------------------------------------------------
(* What swap_points says of a swap is what its path costs and weighs, were *)
(* the rest of the other side what is recorded of it.                      *)
Worth(in, s, h) ==
  LET a == in.base[s]
      b == in.base[Other(s)]
  IN  Minus(Plus(Rest(a)[0], Plus(Plus(Bridge(b, h), Rest(b)[Resumes(b, h)]), in.total[Other(s)])),
            Plus(Rest(a)[h], Rest(b)[0]))

HeadsAreSums == \A s \in Side : Plus(head[s], Rest(input.base[s])[heads[s]]) = Rest(input.base[s])[0]
LastPhrases ==
  \A s \in Side : heads[s] > 0 => Start(s) \in DOMAIN input.base[s] /\ input.base[s][Start(s)] = incoming[s]
BestPriced(b) ==
  b.sol # None => /\ b.sol \in Side /\ b.point \in DOMAIN input.base[b.sol]
                  /\ b.cost = Worth(input, b.sol, b.point).cost
                  /\ Worth(input, b.sol, b.point).weight <= Budget
SwapInv == HeadTailAccounting /\ HeadsAreSums /\ LastPhrases /\ BestPriced(best)

LEMMA CandidateWorth ==
  ASSUME IInv, SwapInv, Evaluate, NEW s, s = Head(queue)
  PROVE  /\ s \in Side /\ heads[s] \in DOMAIN input.base[s]
         /\ Candidate(s) = Worth(input, s, heads[s])
<1> USE LengthAssumption
<1> DEFINE o == Other(s)
           h == heads[s]
           a == input.base[s]
           b == input.base[o]
           edge == EdgeCW(incoming[o].d, heads[o] - h)
<1>0. /\ heads \in [Side -> 0 .. L] /\ queue \in {<<>>, <<0>>, <<1>>, <<0, 1>>}
      /\ head \in [Side -> CW] /\ tail \in [Side -> CW]
      /\ incoming \in [Side -> Phrase \union {Nothing}]
      /\ input.total \in [Side -> CW] /\ \A t \in Side : IsParsing(input.base[t])
  BY DEF IInv, TypeOK, IsInput
<1>1. s \in Side /\ o \in Side /\ s \in Pending
  BY <1>0, QueueTail DEF IInv, Evaluate, QueueFilled, Walking, Pending, Side, Other
<1>2. h <= heads[o] /\ h \in 0 .. L /\ heads[o] \in 0 .. L /\ h < L
  BY <1>0, <1>1 DEF IInv, Evaluate, PendingBehind, RoundOpen, Side
<1>3. heads[o] - incoming[o].ell <= h
  BY <1>1 DEF IInv, StartsBehind, Start, Side, Other
<1>4. h \in DOMAIN a /\ heads[o] \in DOMAIN b \union {L}
  BY <1>1, <1>2 DEF IInv, OnPhrases
<1>5. IsParsing(a) /\ IsParsing(b)
  BY <1>0, <1>1
<1>6. /\ \A i \in 0 .. L : Rest(a)[i] \in CW /\ Rest(b)[i] \in CW
      /\ \A i \in DOMAIN b : Rest(b)[i] = Plus(PhraseCW(b, i), Rest(b)[i + b[i].ell])
  BY <1>5, ParsingWalks, RestStep
<1>7. Bridge(b, h) \in CW /\ Resumes(b, h) \in 0 .. L
  BY <1>4, <1>5, SpliceCosts, SpliceParses
<1>8. edge \in CW /\ Plus(edge, Rest(b)[heads[o]]) = Plus(Bridge(b, h), Rest(b)[Resumes(b, h)])
  <2>1. CASE heads[o] = h
    <3>1. h \in DOMAIN b /\ Over(b, h) = h
      BY <2>1, <1>2, <1>4, <1>5, OverStart
    <3>2. b[h] \in Phrase /\ h + b[h].ell \in 0 .. L
      BY <3>1, <1>5, ParsingWalks
    <3>3. (h + b[h].ell) - h = b[h].ell
      BY <3>2, <1>2 DEF Phrase
    <3>4. Bridge(b, h) = PhraseCW(b, h) /\ Resumes(b, h) = h + b[h].ell
      BY <3>1, <3>3 DEF Bridge, Resumes, PhraseCW
    <3>5. Rest(b)[h] = Plus(Bridge(b, h), Rest(b)[Resumes(b, h)])
      BY <3>1, <3>4, <1>6
    <3>6. edge = [cost |-> 0, weight |-> 0]
      BY <2>1, <1>2 DEF EdgeCW
    <3>7. Rest(b)[h] \in CW
      BY <1>2, <1>6
    <3>8. edge \in CW /\ Plus(edge, Rest(b)[h]) = Rest(b)[h]
      BY <3>6, <3>7 DEF Plus, CW
    <3> QED
      BY <2>1, <3>5, <3>8
  <2>2. CASE heads[o] # h
    <3>1. Start(o) \in DOMAIN b /\ b[Start(o)] = incoming[o]
      BY <2>2, <1>1, <1>2 DEF SwapInv, LastPhrases
    <3>2. incoming[o] \in Phrase
      BY <3>1, <1>5, ParsingWalks
    <3>3. Start(o) <= h /\ Start(o) + incoming[o].ell = heads[o]
      BY <1>2, <1>3, <3>2 DEF Start, Phrase
    <3>4. Holds(b, Start(o), h)
      BY <2>2, <3>1, <3>3, <1>2 DEF Holds
    <3>5. Over(b, h) = Start(o)
      BY <3>4, <1>2, <1>5, OverHolds
    <3>6. Resumes(b, h) = heads[o] /\ Bridge(b, h) = edge
      BY <3>1, <3>3, <3>5 DEF Resumes, Bridge
    <3> QED
      BY <3>6, <1>7
  <2> QED
    BY <2>1, <2>2
<1>9. /\ Plus(head[s], Rest(a)[h]) = Rest(a)[0]
      /\ Plus(head[o], tail[o]) = input.total[o]
      /\ Plus(head[o], Rest(b)[heads[o]]) = Rest(b)[0]
  BY <1>1 DEF SwapInv, HeadTailAccounting, HeadsAreSums
<1>10. /\ head[s] \in CW /\ head[o] \in CW /\ tail[o] \in CW /\ input.total[o] \in CW
       /\ Rest(a)[h] \in CW /\ Rest(a)[0] \in CW /\ Rest(b)[0] \in CW
       /\ Rest(b)[heads[o]] \in CW /\ Rest(b)[Resumes(b, h)] \in CW
  <2>1. head[s] \in CW /\ head[o] \in CW /\ tail[o] \in CW /\ input.total[o] \in CW
    BY <1>0, <1>1
  <2>2. 0 \in 0 .. L
    OBVIOUS
  <2> QED
    BY <2>1, <2>2, <1>2, <1>6, <1>7
<1> HIDE DEF o, h, a, b, edge
<1>11. Plus(head[s], Plus(edge, tail[o]))
         = Minus(Plus(Rest(a)[0], Plus(Plus(Bridge(b, h), Rest(b)[Resumes(b, h)]), input.total[o])),
                 Plus(Rest(a)[h], Rest(b)[0]))
  <2> DEFINE hd == head[s]
             oh == head[o]
             tl == tail[o]
             total == input.total[o]
             ah == Rest(a)[h]
             a0 == Rest(a)[0]
             b0 == Rest(b)[0]
             bo == Rest(b)[heads[o]]
             br == Rest(b)[Resumes(b, h)]
             bridge == Bridge(b, h)
  <2>1. /\ hd \in CW /\ oh \in CW /\ tl \in CW /\ total \in CW /\ ah \in CW /\ a0 \in CW
        /\ b0 \in CW /\ bo \in CW /\ br \in CW /\ bridge \in CW /\ edge \in CW
        /\ Plus(hd, ah) = a0 /\ Plus(oh, tl) = total /\ Plus(oh, bo) = b0
        /\ Plus(edge, bo) = Plus(bridge, br)
    BY <1>7, <1>8, <1>9, <1>10
  <2> HIDE DEF hd, oh, tl, total, ah, a0, b0, bo, br, bridge
  <2>2. Plus(hd, Plus(edge, tl)) = Minus(Plus(a0, Plus(Plus(bridge, br), total)), Plus(ah, b0))
    BY <2>1 DEF CW, Plus, Minus
  <2> QED
    BY <2>2 DEF hd, oh, tl, total, ah, a0, b0, bo, br, bridge
<1> QED
  BY <1>1, <1>4, <1>11 DEF o, h, a, b, edge, Candidate, Worth

LEMMA SwapInvHolds ==
  /\ Init => SwapInv
  /\ IInv /\ SwapInv /\ [Next]_vars => SwapInv'
<1> USE LengthAssumption
<1>1. ASSUME Init PROVE SwapInv
  <2>1. IsInput(input)
    BY <1>1, InputsAssumption DEF Init
  <2>2. ASSUME NEW s \in Side
        PROVE  /\ Plus(head[s], tail[s]) = input.total[s]
               /\ Plus(head[s], Rest(input.base[s])[heads[s]]) = Rest(input.base[s])[0]
               /\ heads[s] = 0
    <3>1. head[s] = [cost |-> 0, weight |-> 0] /\ tail[s] = input.total[s] /\ heads[s] = 0
      BY <1>1 DEF Init, EdgeCW
    <3>2. input.total[s] \in CW /\ Rest(input.base[s])[0] \in CW
      <4>1. input.total[s] \in CW /\ IsWalk(input.base[s]) /\ 0 \in 0 .. L
        BY <2>1, ParsingWalks DEF IsInput
      <4> QED
        BY <4>1, RestStep
    <3> QED
      BY <3>1, <3>2 DEF Plus, CW
  <2>3. best.sol = None
    BY <1>1 DEF Init
  <2> QED
    BY <2>2, <2>3 DEF SwapInv, HeadTailAccounting, HeadsAreSums, LastPhrases, BestPriced
<1>2. ASSUME IInv, SwapInv, Advance PROVE SwapInv'
  <2> DEFINE s == Head(queue)
             e == input.base[s][heads[s]]
             cw == EdgeCW(e.d, e.ell)
             p == input.base[s]
  <2>1. /\ s \in Side /\ e \in Phrase /\ heads[s] <= old_heads[Other(s)] /\ old_heads[Other(s)] < L
    BY <1>2, PhraseRead
  <2>2. /\ cw \in CW /\ head \in [Side -> CW] /\ tail \in [Side -> CW] /\ heads \in [Side -> 0 .. L]
        /\ old_heads \in [Side -> 0 .. L] /\ incoming \in [Side -> Phrase \union {Nothing}]
        /\ IsParsing(p)
    BY <1>2, <2>1, EdgeCWType DEF IInv, TypeOK, IsInput
  <2>3. /\ head' = [head EXCEPT ![s] = Plus(head[s], cw)]
        /\ tail' = [tail EXCEPT ![s] = Minus(tail[s], cw)]
        /\ heads' = [heads EXCEPT ![s] = heads[s] + e.ell]
        /\ incoming' = [incoming EXCEPT ![s] = e]
        /\ input' = input /\ best' = best
    BY <1>2 DEF Advance
  <2>4. heads[s] \in DOMAIN p
    BY <1>2, <2>1, <2>2 DEF IInv, OnPhrases, Side, Other
  <2>5. Rest(p)[heads[s]] = Plus(cw, Rest(p)[heads[s] + e.ell]) /\ heads[s] + e.ell \in 0 .. L
        /\ Rest(p)[heads[s] + e.ell] \in CW
    <3>1. heads[s] + e.ell \in 0 .. L /\ IsWalk(p)
      BY <2>2, <2>4, ParsingWalks
    <3> QED
      BY <3>1, <2>4, RestStep DEF PhraseCW
  <2> HIDE DEF s, e, cw, p
  <2>6. head[s] \in CW /\ tail[s] \in CW /\ heads[s] \in 0 .. L /\ e.ell \in Nat \ {0}
    BY <2>1, <2>2 DEF Phrase
  <2>7. HeadTailAccounting'
    <3>1. Plus(Plus(head[s], cw), Minus(tail[s], cw)) = Plus(head[s], tail[s])
      BY <2>2, <2>6, MoveCW
    <3>2. ASSUME NEW t \in Side PROVE Plus(head'[t], tail'[t]) = Plus(head[t], tail[t])
      <4>1. CASE t = s
        BY <4>1, <2>1, <2>2, <2>3, <3>1
      <4>2. CASE t # s
        BY <4>2, <2>1, <2>2, <2>3
      <4> QED
        BY <4>1, <4>2
    <3> QED
      BY <1>2, <2>3, <3>2 DEF SwapInv, HeadTailAccounting
  <2>8. HeadsAreSums'
    <3>1. Plus(Plus(head[s], cw), Rest(p)[heads[s] + e.ell]) = Plus(head[s], Rest(p)[heads[s]])
      BY <2>2, <2>5, <2>6 DEF Plus, CW
    <3>2. ASSUME NEW t \in Side
          PROVE  Plus(head'[t], Rest(input.base[t])[heads'[t]]) = Plus(head[t], Rest(input.base[t])[heads[t]])
      <4>1. CASE t = s
        <5>1. head'[t] = Plus(head[s], cw) /\ heads'[t] = heads[s] + e.ell /\ input.base[t] = p
          BY <4>1, <2>1, <2>2, <2>3 DEF p
        <5> QED
          BY <4>1, <5>1, <3>1
      <4>2. CASE t # s
        BY <4>2, <2>1, <2>2, <2>3
      <4> QED
        BY <4>1, <4>2
    <3> QED
      BY <1>2, <2>3, <3>2 DEF SwapInv, HeadsAreSums
  <2>9. LastPhrases'
    <3> SUFFICES ASSUME NEW t \in Side, heads'[t] > 0
                 PROVE  Start(t)' \in DOMAIN input.base[t] /\ input.base[t][Start(t)'] = incoming'[t]
      BY <2>3 DEF LastPhrases
    <3>1. CASE t = s
      <4>1. Start(t)' = heads[s] /\ incoming'[t] = e
        BY <3>1, <2>1, <2>2, <2>3, <2>6 DEF Start
      <4> QED
        BY <3>1, <4>1, <2>4 DEF e, p
    <3>2. CASE t # s
      <4>1. Start(t)' = Start(t) /\ heads'[t] = heads[t] /\ incoming'[t] = incoming[t]
        BY <3>2, <2>1, <2>2, <2>3 DEF Start
      <4> QED
        BY <4>1, <1>2 DEF SwapInv, LastPhrases
    <3> QED
      BY <3>1, <3>2
  <2>10. BestPriced(best)'
    BY <1>2, <2>3 DEF SwapInv, BestPriced, Budget
  <2> QED
    BY <2>7, <2>8, <2>9, <2>10 DEF SwapInv
<1>3. ASSUME IInv, SwapInv, Evaluate PROVE SwapInv'
  <2> DEFINE s == Head(queue)
  <2>1. /\ s \in Side /\ heads[s] \in DOMAIN input.base[s]
        /\ Candidate(s) = Worth(input, s, heads[s])
    BY <1>3, CandidateWorth
  <2>2. UNCHANGED <<input, heads, head, tail, incoming>>
    BY <1>3 DEF Evaluate
  <2>3. \/ best' = best
        \/ /\ Candidate(s).weight <= Budget
           /\ best' = [cost |-> Candidate(s).cost, sol |-> s, point |-> heads[s]]
    BY <1>3 DEF Evaluate, WithinBudget
  <2>4. Budget' = Budget
    BY <2>2 DEF Budget
  <2> HIDE DEF s
  <2>5. BestPriced(best)'
    <3>1. BestPriced(best')
      BY <1>3, <2>1, <2>3 DEF BestPriced, SwapInv
    <3> QED
      BY <2>2, <2>4, <3>1 DEF BestPriced
  <2> QED
    BY <1>3, <2>2, <2>5 DEF SwapInv, HeadTailAccounting, HeadsAreSums, LastPhrases, Start
<1>4. ASSUME SwapInv, [Next]_vars, ~ Advance, ~ Evaluate PROVE SwapInv'
  <2>1. UNCHANGED <<input, heads, head, tail, incoming, best>>
    BY <1>4 DEF Next, vars, reading, NextRound, EndRounds, StartTurn, CopyPrefix,
       SwitchSide, SkipPhrase, PutBridge, CopySuffix, Finish, Terminated
  <2> QED
    BY <1>4, <2>1 DEF SwapInv, HeadTailAccounting, HeadsAreSums, LastPhrases, Start, BestPriced, Budget
<1> QED
  BY <1>1, <1>2, <1>3, <1>4

-------------------------------------------------------------------------------
(* generate copies one side up to the swap point, reads the other past it, *)
(* puts the bridge and copies the rest.                                    *)
Path(in, b) == Splice(in.base[b.sol], in.base[Other(b.sol)], b.point)
Agrees(o, p, n) == \A i \in DOMAIN p : i < n => o[i] = p[i]

PrefixOK == pc = "prefix" => /\ cur = best.sol /\ pos <= best.point
                             /\ Agrees(out, input.base[best.sol], pos)
SkipOK ==
  pc = "skip" => /\ cur = Other(best.sol) /\ Agrees(out, input.base[best.sol], best.point)
                 /\ pos > 0 => /\ pos - last.ell \in DOMAIN input.base[cur]
                               /\ pos - last.ell < best.point
                               /\ last = input.base[cur][pos - last.ell]
SuffixOK == pc = "suffix" => /\ cur = Other(best.sol) /\ best.point <= pos
                             /\ Agrees(out, Path(input, best), pos)
DoneOK == pc = "done" => Agrees(out, Path(input, best), L)
SwapFound == pc \in {"prefix", "skip", "suffix", "done"} => best.sol # None
GenInv == SwapFound /\ PrefixOK /\ SkipOK /\ SuffixOK /\ DoneOK

LEMMA SplicePhrases ==
  ASSUME NEW a, NEW b, IsParsing(a), IsParsing(b), NEW h \in DOMAIN a
  PROVE  /\ \A i \in DOMAIN Splice(a, b, h) : /\ i \in 0 .. (L - 1)
                                              /\ i < h => i \in DOMAIN a /\ Splice(a, b, h)[i] = a[i]
                                              /\ h < i => i \in DOMAIN b
         /\ \A i \in DOMAIN b : h <= i => i \in DOMAIN Splice(a, b, h) /\ Splice(a, b, h)[i] = b[i]
<1> DEFINE p == Splice(a, b, h)
<1>1. /\ \A i \in DOMAIN p : p[i] = Spliced(a, b, h, i)
      /\ DOMAIN p = {i \in DOMAIN a : i < h} \union {h} \union {i \in DOMAIN b : h < i}
  BY DEF Splice
<1>a. \A i \in DOMAIN a : i \in 0 .. (L - 1)
  BY ParsingWalks
<1>b. \A i \in DOMAIN b : i \in 0 .. (L - 1) /\ b[i] \in Phrase
  BY ParsingWalks
<1>2. /\ \A i \in DOMAIN a : i \in Int
      /\ \A i \in DOMAIN b : i \in Int /\ b[i] \in Phrase
      /\ h \in Int
  BY <1>a, <1>b
<1>3. \A i \in DOMAIN p : i \in 0 .. (L - 1)
  BY SpliceParses, ParsingWalks
<1> HIDE DEF p
<1>4. ASSUME NEW i \in DOMAIN p
      PROVE  (i < h => i \in DOMAIN a /\ p[i] = a[i]) /\ (h < i => i \in DOMAIN b)
  <2>1. i \in Int
    BY <1>1, <1>2
  <2> QED
    BY <2>1, <1>1, <1>2 DEF Spliced
<1>5. ASSUME NEW i \in DOMAIN b, h <= i PROVE i \in DOMAIN p /\ p[i] = b[i]
  <2>1. CASE h < i
    BY <2>1, <1>1, <1>2 DEF Spliced
  <2>2. CASE i = h
    <3>1. Over(b, h) = h
      BY <2>2, OverStart
    <3>2. (h + b[h].ell) - h = b[h].ell /\ b[h] = [d |-> b[h].d, ell |-> b[h].ell]
      BY <2>2, <1>2 DEF Phrase
    <3>3. h \in DOMAIN p /\ p[h] = [d |-> b[h].d, ell |-> (h + b[h].ell) - h]
      <4>1. h \in DOMAIN p /\ p[h] = Spliced(a, b, h, h)
        BY <1>1
      <4>2. ~ (h < h)
        BY <1>2
      <4>3. Spliced(a, b, h, h) = [d |-> b[Over(b, h)].d, ell |-> Resumes(b, h) - h]
        BY <4>2 DEF Spliced
      <4> QED
        BY <4>1, <4>3, <3>1 DEF Resumes
    <3> QED
      BY <2>2, <3>2, <3>3
  <2> QED
    BY <2>1, <2>2, <1>5, <1>2
<1> QED
  BY <1>3, <1>4, <1>5 DEF p

LEMMA GenInvHolds ==
  /\ Init => GenInv
  /\ IInv /\ SwapInv /\ GenInv /\ [Next]_vars => GenInv'
<1> USE LengthAssumption
<1>1. ASSUME Init PROVE GenInv
  BY <1>1 DEF Init, GenInv, SwapFound, PrefixOK, SkipOK, SuffixOK, DoneOK
<1>2. ASSUME IInv, SwapInv, GenInv, [Next]_vars PROVE GenInv'
  <2> DEFINE a == input.base[best.sol]
             b == input.base[Other(best.sol)]
             h == best.point
             p == Path(input, best)
  <2>1. CASE ~ (EndRounds \/ CopyPrefix \/ SwitchSide \/ SkipPhrase \/ PutBridge \/ CopySuffix \/ Finish)
    <3>1. \/ UNCHANGED vars
          \/ pc' \in {"round", "evaluate", "turn", "advance"}
      BY <1>2, <2>1 DEF Next, NextRound, Evaluate, StartTurn, Advance, Terminated
    <3> QED
      BY <1>2, <3>1 DEF vars, reading, generating, GenInv, SwapFound, PrefixOK, SkipOK, SuffixOK, DoneOK
  <2>2. CASE EndRounds
    <3>0. pos = 0
      BY <1>2, <2>2 DEF IInv, WriterIdle, Reading, EndRounds
    <3>1. CASE best.sol = None
      BY <2>2, <3>1 DEF EndRounds, GenInv, SwapFound, PrefixOK, SkipOK, SuffixOK, DoneOK
    <3>2. CASE best.sol # None
      <4>1. /\ pc' = "prefix" /\ cur' = best'.sol /\ best'.sol # None /\ pos' = 0
            /\ input' = input /\ best' = best /\ out' = out
        BY <2>2, <3>0, <3>2 DEF EndRounds, reading
      <4>2. IsParsing(a) /\ h \in DOMAIN a
        BY <1>2, <3>2 DEF SwapInv, BestPriced, IInv, TypeOK, IsInput
      <4>3. 0 <= h /\ \A i \in DOMAIN a : ~ (i < 0)
        BY <4>2, ParsingWalks
      <4> QED
        BY <4>1, <4>3 DEF GenInv, SwapFound, PrefixOK, SkipOK, SuffixOK, DoneOK, Agrees
    <3> QED
      BY <3>1, <3>2
  <2>3. ASSUME pc \in {"prefix", "skip", "suffix"}, input' = input, best' = best PROVE GenInv'
    <3>1. /\ best.sol \in Side /\ Other(best.sol) \in Side /\ Other(Other(best.sol)) = best.sol
          /\ best.sol # None
      BY <1>2, <2>3 DEF GenInv, SwapFound, SwapInv, BestPriced, Side, Other
    <3>2. IsParsing(a) /\ IsParsing(b) /\ h \in DOMAIN a
      BY <1>2, <3>1 DEF SwapInv, BestPriced, IInv, TypeOK, IsInput
    <3>3. /\ \A i \in DOMAIN a : i \in 0 .. (L - 1) /\ i + a[i].ell \in 0 .. L
          /\ \A i, k \in DOMAIN a : i < k => i + a[i].ell <= k
      BY <3>2, ParsingWalks
    <3>4. /\ \A i \in DOMAIN b : i \in 0 .. (L - 1) /\ i + b[i].ell \in 0 .. L /\ b[i] \in Phrase
          /\ \A i, k \in DOMAIN b : i < k => i + b[i].ell <= k
      BY <3>2, ParsingWalks
    <3>5. /\ \A i \in DOMAIN p : /\ i \in 0 .. (L - 1)
                                 /\ i < h => i \in DOMAIN a /\ p[i] = a[i]
                                 /\ h < i => i \in DOMAIN b
          /\ \A i \in DOMAIN b : h <= i => i \in DOMAIN p /\ p[i] = b[i]
      BY <3>2, SplicePhrases DEF Path
    <3>6. /\ p[h] = [d |-> b[Over(b, h)].d, ell |-> Resumes(b, h) - h]
          /\ \A i \in DOMAIN p : h < i => Resumes(b, h) <= i
      BY <3>2, SpliceParses DEF Path
    <3>7. h \in 0 .. (L - 1) /\ pos \in 0 .. L /\ DOMAIN out = 0 .. L
      BY <1>2, <3>2, <3>3 DEF IInv, TypeOK
    <3>8. cur \in Side /\ pos \in DOMAIN input.base[cur] \union {L}
      BY <1>2, <2>3 DEF IInv, WriterOnPhrase
    <3>9. Path(input, best)' = p /\ SwapFound'
      BY <2>3, <3>1 DEF SwapFound, Path
    <3> HIDE DEF p
    <3>10. CASE CopyPrefix
      <4>1. cur = best.sol /\ pos < h /\ pos \in DOMAIN a /\ Agrees(out, a, pos)
        BY <1>2, <3>7, <3>8, <3>10 DEF CopyPrefix, GenInv, PrefixOK
      <4>2. out' = [out EXCEPT ![pos] = a[pos]] /\ pos' = pos + a[pos].ell /\ cur' = cur /\ pc' = "prefix"
        BY <3>10, <4>1 DEF CopyPrefix, Copy
      <4>3. pos' <= h
        BY <4>1, <4>2, <3>2, <3>3
      <4>4. ASSUME NEW i \in DOMAIN a, i < pos' PROVE out'[i] = a[i]
        <5>1. i <= pos /\ i \in 0 .. L
          BY <4>1, <4>2, <4>4, <3>3
        <5> QED
          BY <4>1, <4>2, <5>1, <3>7 DEF Agrees
      <4>5. PrefixOK'
        BY <2>3, <4>1, <4>2, <4>3, <4>4 DEF PrefixOK, Agrees
      <4> QED
        BY <3>9, <4>2, <4>5 DEF GenInv, SkipOK, SuffixOK, DoneOK
    <3>11. CASE SwitchSide
      <4>1. cur = best.sol /\ pos >= h /\ pos <= h /\ Agrees(out, a, pos)
        BY <1>2, <3>11 DEF SwitchSide, GenInv, PrefixOK
      <4>2. out' = out /\ pos' = 0 /\ cur' = Other(cur) /\ pc' = "skip" /\ pos = h
        BY <3>7, <3>11, <4>1 DEF SwitchSide
      <4>3. SkipOK'
        BY <2>3, <4>1, <4>2 DEF SkipOK
      <4> QED
        BY <3>9, <4>2, <4>3 DEF GenInv, PrefixOK, SuffixOK, DoneOK
    <3>12. CASE SkipPhrase
      <4>1. cur = Other(best.sol) /\ pos < h /\ pos \in DOMAIN b /\ Agrees(out, a, h)
        BY <1>2, <3>7, <3>8, <3>12 DEF SkipPhrase, GenInv, SkipOK
      <4>2. out' = out /\ pos' = pos + b[pos].ell /\ last' = b[pos] /\ cur' = cur /\ pc' = "skip"
        BY <3>12, <4>1 DEF SkipPhrase, reading
      <4>3. pos' - last'.ell = pos
        BY <4>1, <4>2, <3>4 DEF Phrase
      <4>4. SkipOK'
        BY <2>3, <4>1, <4>2, <4>3 DEF SkipOK
      <4> QED
        BY <3>9, <4>2, <4>4 DEF GenInv, PrefixOK, SuffixOK, DoneOK
    <3>13. CASE PutBridge
      <4>1. cur = Other(best.sol) /\ h <= pos /\ Agrees(out, a, h)
        BY <1>2, <3>7, <3>13 DEF PutBridge, GenInv, SkipOK
      <4>2. /\ out' = [out EXCEPT ![h] = [d |-> last.d, ell |-> pos - h]]
            /\ pos' = pos /\ cur' = cur /\ pc' = "suffix"
        BY <3>13 DEF PutBridge
      <4>3. ASSUME NEW i \in DOMAIN p, i < pos PROVE out'[i] = p[i]
        <5>1. CASE i < h
          BY <3>5, <3>7, <4>1, <4>2, <5>1 DEF Agrees
        <5>2. CASE i >= h
          <6>1. h < pos /\ pos > 0
            BY <3>5, <3>7, <4>3, <5>2
          <6> DEFINE st == pos - last.ell
          <6>2. st \in DOMAIN b /\ st < h /\ last = b[st]
            BY <1>2, <3>13, <4>1, <6>1 DEF PutBridge, GenInv, SkipOK
          <6>3. st + b[st].ell = pos /\ st \in 0 .. L
            BY <3>4, <3>7, <6>2 DEF Phrase
          <6> HIDE DEF st
          <6>4. Holds(b, st, h)
            BY <3>7, <6>1, <6>2, <6>3 DEF Holds
          <6>5. Over(b, h) = st
            BY <3>2, <3>7, <6>4, OverHolds
          <6>6. Resumes(b, h) = pos /\ p[h] = [d |-> last.d, ell |-> pos - h]
            BY <3>6, <6>2, <6>3, <6>5 DEF Resumes
          <6>7. i = h
            BY <3>5, <3>6, <3>7, <4>3, <5>2, <6>6
          <6> QED
            BY <3>7, <4>2, <6>6, <6>7
        <5> QED
          BY <3>5, <3>7, <5>1, <5>2
      <4>4. SuffixOK'
        <5>1. Agrees(out', p, pos')
          BY <4>2, <4>3 DEF Agrees
        <5> QED
          BY <2>3, <3>9, <4>1, <4>2, <5>1 DEF SuffixOK
      <4> QED
        BY <3>9, <4>2, <4>4 DEF GenInv, PrefixOK, SkipOK, DoneOK
    <3>14. CASE CopySuffix
      <4>1. cur = Other(best.sol) /\ h <= pos /\ pos \in DOMAIN b /\ Agrees(out, p, pos)
        BY <1>2, <3>7, <3>8, <3>14 DEF CopySuffix, GenInv, SuffixOK, p
      <4>2. out' = [out EXCEPT ![pos] = b[pos]] /\ pos' = pos + b[pos].ell /\ cur' = cur /\ pc' = "suffix"
        BY <3>14, <4>1 DEF CopySuffix, Copy
      <4>3. h <= pos'
        BY <3>4, <3>7, <4>1, <4>2 DEF Phrase
      <4>4. ASSUME NEW i \in DOMAIN p, i < pos' PROVE out'[i] = p[i]
        <5>1. i \in 0 .. (L - 1)
          BY <3>5
        <5>2. CASE i < pos
          BY <3>7, <4>1, <4>2, <5>1, <5>2 DEF Agrees
        <5>3. CASE i = pos
          BY <3>5, <3>7, <4>1, <4>2, <5>3
        <5>4. CASE i > pos
          <6>1. i \in DOMAIN b
            BY <3>5, <3>7, <4>1, <5>1, <5>4
          <6> QED
            BY <3>4, <4>1, <4>2, <4>4, <5>4, <6>1
        <5> QED
          BY <3>7, <5>1, <5>2, <5>3, <5>4
      <4>5. SuffixOK'
        <5>1. Agrees(out', p, pos')
          BY <4>4 DEF Agrees
        <5> QED
          BY <2>3, <3>9, <4>1, <4>2, <4>3, <5>1 DEF SuffixOK
      <4> QED
        BY <3>9, <4>2, <4>5 DEF GenInv, PrefixOK, SkipOK, DoneOK
    <3>15. CASE Finish
      <4>1. pos >= L /\ Agrees(out, p, pos) /\ out' = [out EXCEPT ![L] = last] /\ pc' = "done"
        BY <1>2, <3>15 DEF Finish, GenInv, SuffixOK, p
      <4>2. Agrees(out', p, L)
        BY <3>5, <3>7, <4>1 DEF Agrees
      <4> QED
        BY <3>9, <4>1, <4>2 DEF GenInv, PrefixOK, SkipOK, SuffixOK, DoneOK
    <3>16. CASE UNCHANGED vars
      BY <1>2, <3>16 DEF vars, reading, generating, GenInv, SwapFound, PrefixOK, SkipOK, SuffixOK, DoneOK
    <3> QED
      BY <1>2, <2>3, <3>10, <3>11, <3>12, <3>13, <3>14, <3>15, <3>16
      DEF Next, NextRound, EndRounds, Evaluate, StartTurn, Advance, Terminated
  <2> QED
    BY <1>2, <2>1, <2>2, <2>3
    DEF CopyPrefix, SwitchSide, SkipPhrase, PutBridge, CopySuffix, Finish, reading
<1> QED
  BY <1>1, <1>2

LEMMA SpecPath == Spec => [](IInv /\ SwapInv /\ GenInv)
BY SpecIInv, SwapInvHolds, GenInvHolds, PTL DEF Spec

(* The bases and the swap of a path that is done.                          *)
LEMMA DonePath ==
  ASSUME IInv, SwapInv, GenInv, pc = "done"
  PROVE  /\ best.sol \in Side /\ Other(best.sol) \in Side
         /\ IsParsing(input.base[best.sol]) /\ IsParsing(input.base[Other(best.sol)])
         /\ best.point \in DOMAIN input.base[best.sol]
         /\ IsParsing(Path(input, best)) /\ L \notin DOMAIN Path(input, best)
         /\ \A i \in DOMAIN Path(input, best) : out[i] = Path(input, best)[i]
         /\ PathStarts = DOMAIN Path(input, best) \union {L}
<1> USE LengthAssumption
<1>1. best.sol \in Side /\ Other(best.sol) \in Side /\ best.point \in DOMAIN input.base[best.sol]
  BY DEF GenInv, SwapFound, SwapInv, BestPriced, Side, Other
<1>2. IsParsing(input.base[best.sol]) /\ IsParsing(input.base[Other(best.sol)])
  BY <1>1 DEF IInv, TypeOK, IsInput
<1> DEFINE p == Path(input, best)
<1>3. IsParsing(p)
  BY <1>1, <1>2, SpliceParses DEF Path
<1>4. Agrees(out, p, L)
  BY DEF GenInv, DoneOK
<1> HIDE DEF p
<1>5. \A i \in DOMAIN p : i \in 0 .. (L - 1)
  BY <1>3, ParsingWalks
<1>6. L \notin DOMAIN p /\ \A i \in DOMAIN p : out[i] = p[i]
  BY <1>4, <1>5 DEF Agrees
<1>7. PathStarts = DOMAIN p \union {L}
  BY <1>3, <1>6, PathIsTheParsing
<1> QED
  BY <1>1, <1>2, <1>3, <1>6, <1>7 DEF p

(* What generate writes is a parsing of the text, and each of its phrases  *)
(* is one of a base, or the end of one: it decodes as the bases do.        *)
THEOREM AlwaysGeneratesAParsing == Spec => []GeneratesAParsing
<1>1. IInv /\ SwapInv /\ GenInv => GeneratesAParsing
  <2> SUFFICES ASSUME IInv, SwapInv, GenInv, pc = "done"
               PROVE  /\ L \in PathStarts
                      /\ \A i \in PathStarts \ {L} : /\ out[i].ell >= 1
                                                     /\ \E s \in Side : IsPartOf(input.base[s], i, out[i])
    BY DEF GeneratesAParsing
  <2> DEFINE a == input.base[best.sol]
             b == input.base[Other(best.sol)]
             h == best.point
             p == Path(input, best)
  <2>1. /\ best.sol \in Side /\ Other(best.sol) \in Side /\ IsParsing(a) /\ IsParsing(b) /\ h \in DOMAIN a
        /\ IsParsing(p) /\ L \notin DOMAIN p /\ PathStarts = DOMAIN p \union {L}
        /\ \A i \in DOMAIN p : out[i] = p[i]
    BY DonePath
  <2>2. /\ \A i \in DOMAIN p : /\ i < h => i \in DOMAIN a /\ p[i] = a[i]
                               /\ h < i => i \in DOMAIN b
        /\ \A i \in DOMAIN b : h <= i => i \in DOMAIN p /\ p[i] = b[i]
    BY <2>1, SplicePhrases DEF Path
  <2>3. p[h] = [d |-> b[Over(b, h)].d, ell |-> Resumes(b, h) - h]
    BY <2>1, SpliceParses DEF Path
  <2>4. ASSUME NEW i \in DOMAIN p PROVE out[i].ell >= 1 /\ \E s \in Side : IsPartOf(input.base[s], i, out[i])
    <3>1. p[i] \in Phrase /\ out[i] = p[i] /\ i \in 0 .. (L - 1) /\ h \in 0 .. (L - 1)
      BY <2>1, ParsingWalks
    <3>2. out[i].ell >= 1
      BY <3>1 DEF Phrase
    <3>3. CASE i < h
      <4>1. IsPartOf(a, i, out[i])
        BY <2>2, <3>1, <3>3 DEF IsPartOf
      <4> QED
        BY <2>1, <3>2, <4>1
    <3>4. CASE i = h
      <4>1. Holds(b, Over(b, h), h)
        BY <2>1, <3>1, OverHolds
      <4>2. Over(b, h) \in DOMAIN b /\ Over(b, h) <= h
        BY <4>1 DEF Holds
      <4>3. Resumes(b, h) \in 0 .. L
        BY <2>1, SpliceParses
      <4>4. out[i].d = b[Over(b, h)].d /\ i + out[i].ell = Resumes(b, h)
        BY <2>3, <3>1, <3>4, <4>3
      <4>5. IsPartOf(b, i, out[i])
        BY <3>4, <4>2, <4>4 DEF IsPartOf, Resumes
      <4> QED
        BY <2>1, <3>2, <4>5
    <3>5. CASE i > h
      <4>1. IsPartOf(b, i, out[i])
        BY <2>2, <3>1, <3>5 DEF IsPartOf
      <4> QED
        BY <2>1, <3>2, <4>1
    <3> QED
      BY <3>1, <3>3, <3>4, <3>5
  <2> QED
    BY <2>1, <2>4
<1> QED
  BY <1>1, SpecPath, PTL

(* The path written costs no more than swap_points found, and weighs no    *)
(* more than the budget, provided that the bases are no worse than they    *)
(* were recorded.                                                          *)
THEOREM AlwaysDeliversTheBest == Spec => []DeliversTheBest
<1>1. IInv /\ SwapInv /\ GenInv => DeliversTheBest
  <2> SUFFICES ASSUME IInv, SwapInv, GenInv, pc = "done"
               PROVE  PathCW.cost <= best.cost /\ PathCW.weight <= Budget
    BY DEF DeliversTheBest
  <2> USE LengthAssumption
  <2> DEFINE a == input.base[best.sol]
             b == input.base[Other(best.sol)]
             h == best.point
             p == Path(input, best)
             total == input.total[Other(best.sol)]
             bridge == Bridge(b, h)
             rest == Rest(b)[Resumes(b, h)]
  <2>1. /\ best.sol \in Side /\ Other(best.sol) \in Side /\ IsParsing(a) /\ IsParsing(b) /\ h \in DOMAIN a
        /\ IsParsing(p) /\ L \notin DOMAIN p /\ PathStarts = DOMAIN p \union {L}
        /\ \A i \in DOMAIN p : out[i] = p[i]
    BY DonePath
  <2>2. PathCW = Rest(p)[0]
    <3>1. p = [i \in DOMAIN p |-> p[i]]
      BY DEF Path, Splice
    <3> HIDE DEF p
    <3>2. [i \in DOMAIN p |-> out[i]] = p
      BY <2>1, <3>1
    <3>3. PathStarts \ {L} = DOMAIN p
      BY <2>1
    <3> QED
      BY <3>2, <3>3 DEF PathCW
  <2>3. Plus(Rest(p)[0], Rest(a)[h]) = Plus(Rest(a)[0], Plus(bridge, rest)) /\ bridge \in CW
    BY <2>1, SpliceCosts DEF Path
  <2>4. /\ Rest(p)[0] \in CW /\ Rest(a)[h] \in CW /\ Rest(a)[0] \in CW /\ Rest(b)[0] \in CW /\ rest \in CW
    <3>1. h \in 0 .. L /\ 0 \in 0 .. L
      BY <2>1, ParsingWalks
    <3>2. Resumes(b, h) \in 0 .. L
      BY <2>1, SpliceParses
    <3> HIDE DEF p
    <3> QED
      BY <2>1, <3>1, <3>2, ParsingWalks, RestStep
  <2>5. total \in CW /\ AtMost(Rest(b)[0], total)
    BY <2>1 DEF IInv, TypeOK, IsInput
  <2>6. /\ best.cost = Worth(input, best.sol, h).cost
        /\ Worth(input, best.sol, h).weight <= Budget
    BY <2>1 DEF SwapInv, BestPriced, Side, None
  <2>7. Worth(input, best.sol, h) = Minus(Plus(Rest(a)[0], Plus(Plus(bridge, rest), total)),
                                          Plus(Rest(a)[h], Rest(b)[0]))
    BY DEF Worth
  <2> DEFINE w == Worth(input, best.sol, h)
             p0 == Rest(p)[0]
             a0 == Rest(a)[0]
             ah == Rest(a)[h]
             b0 == Rest(b)[0]
  <2>8. /\ Plus(p0, ah) = Plus(a0, Plus(bridge, rest)) /\ bridge \in CW /\ p0 \in CW /\ ah \in CW
        /\ a0 \in CW /\ b0 \in CW /\ rest \in CW /\ total \in CW /\ AtMost(b0, total)
        /\ w = Minus(Plus(a0, Plus(Plus(bridge, rest), total)), Plus(ah, b0))
    BY <2>3, <2>4, <2>5, <2>7
  <2>9. Budget \in Int
    <3>1. input.W \in Int /\ input.padded \in BOOLEAN
      BY DEF IInv, TypeOK, IsInput
    <3>2. WeightCM[MaxDst][MaxLen] \in Nat /\ WeightCM[0][1] \in Nat
      <4>1. MaxDst \in 0 .. MaxDst /\ 0 \in 0 .. MaxDst /\ MaxLen \in 1 .. MaxLen /\ 1 \in 1 .. MaxLen
        OBVIOUS
      <4> QED
        BY <4>1, CostAssumption
    <3>3. MaxPhraseWeight \in Int
      BY <3>2 DEF MaxPhraseWeight
    <3> QED
      BY <3>1, <3>3 DEF Budget
  <2> HIDE DEF w, p0, a0, ah, b0, bridge, rest, total
  <2>10. AtMost(p0, w) /\ w \in CW /\ p0 \in CW
    BY <2>8 DEF AtMost, CW, Plus, Minus
  <2>11. p0.cost <= w.cost /\ p0.weight <= w.weight /\ w.weight \in Int /\ p0.weight \in Int
    BY <2>10 DEF AtMost, CW
  <2>12. PathCW = p0 /\ best.cost = w.cost /\ w.weight <= Budget
    BY <2>2, <2>6 DEF p0, w
  <2> QED
    BY <2>9, <2>11, <2>12
<1> QED
  BY <1>1, SpecPath, PTL
===============================================================================
