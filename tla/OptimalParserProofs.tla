-------------------------- MODULE OptimalParserProofs --------------------------
(***************************************************************************)
(* Proofs about OptimalParser, for every classes of distances and lengths  *)
(* and every job: text, cost and weight model, window and buckets.         *)
(***************************************************************************)
EXTENDS OptimalParser, EdgeMeshProofs

Phases == {"visit", "levels", "literal", "relax", "flip", "done"}
Pair == [cost : Nat, weight : Nat]
Element == [position : Nat, cost : Pair]

-------------------------------------------------------------------------------
(* Costs.                                                                  *)
LEMMA LessIs ==
  ASSUME NEW x \in Pair, NEW y \in Pair
  PROVE  Less(x, y) <=> x.cost < y.cost \/ (x.cost = y.cost /\ x.weight < y.weight)
BY DEF Pair, Less, Unreached

LEMMA LessOrder ==
  ASSUME NEW x \in Pair, NEW y \in Pair, NEW z \in Pair
  PROVE  /\ ~ Less(x, x)
         /\ Less(x, y) => ~ Less(y, x)
         /\ Less(x, y) /\ Less(y, z) => Less(x, z)
         /\ ~ Less(y, x) /\ Less(y, z) => Less(x, z)
         /\ Less(x, y) /\ ~ Less(z, y) => Less(x, z)
         /\ ~ Less(y, x) /\ ~ Less(z, y) => ~ Less(z, x)
BY LessIs DEF Pair

LEMMA LessPlus ==
  ASSUME NEW x \in Pair, NEW y \in Pair, NEW z \in Pair
  PROVE  /\ Plus(x, z) \in Pair
         /\ Less(Plus(x, z), Plus(y, z)) <=> Less(x, y)
<1>1. Plus(x, z) \in Pair /\ Plus(y, z) \in Pair
  BY DEF Pair, Plus
<1>2. Less(x, y) <=> x.cost < y.cost \/ (x.cost = y.cost /\ x.weight < y.weight)
  BY LessIs
<1>3. Less(Plus(x, z), Plus(y, z)) <=>
        \/ Plus(x, z).cost < Plus(y, z).cost
        \/ Plus(x, z).cost = Plus(y, z).cost /\ Plus(x, z).weight < Plus(y, z).weight
  BY <1>1, LessIs
<1> QED
  BY <1>1, <1>2, <1>3 DEF Plus, Pair

-------------------------------------------------------------------------------
(* The window.  What a run that starts at p would cost to the end of the   *)
(* text: the runs to any position compare as these do.                     *)
RunCost(jb, n) == [cost   |-> jb.cost.lit_fixed + n * jb.cost.lit_var,
                   weight |-> jb.weight.lit_fixed + n * jb.weight.lit_var]
At(jb, cost, p) == Plus(cost[p], RunCost(jb, Len(jb.text) - p))

(* The elements of the window before position n: no position still in it   *)
(* is cheaper than all the elements at or after it.                        *)
InWindow(jb, cost, seq, n) ==
  \A q \in 1 .. Len(seq) : /\ seq[q].position \in 0 .. (n - 1) /\ n <= seq[q].position + jb.window
                           /\ seq[q].cost = At(jb, cost, seq[q].position)
Mounting(seq) ==
  \A q, r \in 1 .. Len(seq) : q < r => /\ seq[q].position < seq[r].position
                                       /\ Less(seq[q].cost, seq[r].cost)
Represented(jb, cost, seq, n) ==
  \A p \in 0 .. (n - 1) : n <= p + jb.window =>
    \E q \in 1 .. Len(seq) : p <= seq[q].position /\ ~ Less(At(jb, cost, p), seq[q].cost)
WindowOK(jb, cost, seq, n) ==
  /\ seq \in Seq(Element)
  /\ InWindow(jb, cost, seq, n) /\ Mounting(seq) /\ Represented(jb, cost, seq, n)

LEMMA JobIs ==
  ASSUME NEW jb \in Jobs
  PROVE  /\ jb.text \in Seq(ToSet(jb.text)) /\ Len(jb.text) \in Nat \ {0} /\ DOMAIN jb.text = 1 .. Len(jb.text)
         /\ jb.window \in Nat \ {0} /\ jb.bucket \in Nat \ {0}
         /\ jb.cost \in Model /\ jb.weight \in Model /\ jb.rightmost \in BOOLEAN
<1>1. IsJob(jb)
  BY JobsAssumption
<1>2. /\ jb.text \in Seq(ToSet(jb.text)) /\ jb.text # <<>>
      /\ jb.window \in Nat \ {0} /\ jb.bucket \in Nat \ {0}
      /\ jb.cost \in Model /\ jb.weight \in Model /\ jb.rightmost \in BOOLEAN
  BY <1>1 DEF IsJob
<1>3. Len(jb.text) \in Nat \ {0} /\ DOMAIN jb.text = 1 .. Len(jb.text)
  BY <1>2, EmptySeq, LenProperties
<1> QED
  BY <1>2, <1>3

LEMMA RunCostIs ==
  ASSUME NEW jb \in Jobs, NEW n \in Nat
  PROVE  RunCost(jb, n) \in Pair
<1>1. /\ jb.cost.lit_fixed \in Nat /\ jb.cost.lit_var \in Nat
      /\ jb.weight.lit_fixed \in Nat /\ jb.weight.lit_var \in Nat
  BY JobIs DEF Model
<1>2. n * jb.cost.lit_var \in Nat /\ n * jb.weight.lit_var \in Nat
  BY <1>1
<1> QED
  BY <1>1, <1>2 DEF RunCost, Pair

LEMMA PlainIs ==
  ASSUME NEW n \in Nat
  PROVE  Value(Plain(n)) = RunCost(job, n)
BY DEF Value, Plain, EdgeCost, IsRegular, RunCost

(* Positions that increase are at least as far apart as their places.      *)
LEMMA Spread ==
  ASSUME NEW seq \in Seq(Element), Mounting(seq), NEW q \in 1 .. Len(seq)
  PROVE  seq[1].position + q - 1 <= seq[q].position
<1> DEFINE Apart == {n \in Nat : n + 1 <= Len(seq) => seq[1].position + n <= seq[n + 1].position}
<1>1. Len(seq) \in Nat /\ \A r \in 1 .. Len(seq) : seq[r].position \in Nat
  <2>1. Len(seq) \in Nat /\ \A r \in 1 .. Len(seq) : seq[r] \in Element
    BY ElementOfSeq, LenProperties
  <2> QED
    BY <2>1 DEF Element
<1>2. 0 \in Apart
  BY <1>1
<1>3. ASSUME NEW n \in Nat, n \in Apart PROVE (n + 1) \in Apart
  <2> SUFFICES ASSUME (n + 1) + 1 <= Len(seq) PROVE seq[1].position + (n + 1) <= seq[(n + 1) + 1].position
    OBVIOUS
  <2> DEFINE u == n + 1
             v == (n + 1) + 1
  <2>1. u \in 1 .. Len(seq) /\ v \in 1 .. Len(seq) /\ u < v /\ 1 \in 1 .. Len(seq) /\ u = n + 1
    <3> DEFINE len == Len(seq)
    <3>1. len \in Nat /\ v <= len /\ u = n + 1 /\ v = n + 2
      BY <1>1
    <3> HIDE DEF len, u, v
    <3> QED
      BY <3>1 DEF len
  <2>2. seq[1].position + n <= seq[u].position
    BY <1>3, <2>1
  <2> HIDE DEF u, v
  <2>3. seq[u].position < seq[v].position
    BY <2>1 DEF Mounting
  <2>4. seq[1].position \in Nat /\ seq[u].position \in Nat /\ seq[v].position \in Nat
    BY <2>1, <1>1
  <2>5. seq[1].position + u <= seq[v].position
    <3> DEFINE x == seq[1].position
               y == seq[u].position
               z == seq[v].position
    <3>1. x \in Nat /\ y \in Nat /\ z \in Nat /\ x + n <= y /\ y < z
      BY <2>2, <2>3, <2>4
    <3> HIDE DEF x, y, z
    <3>2. x + u <= z
      BY <2>1, <3>1
    <3> QED
      BY <3>2 DEF x, z
  <2> QED
    BY <2>5 DEF u, v
<1> HIDE DEF Apart
<1>4. Nat \subseteq Apart
  BY <1>2, <1>3, InductionOn
<1>5. q - 1 \in Apart /\ (q - 1) + 1 = q
  BY <1>1, <1>4
<1>6. seq[1].position + (q - 1) <= seq[q].position
  <2> DEFINE n == q - 1
  <2>1. n \in Apart /\ n + 1 = q /\ q <= Len(seq)
    BY <1>5, <1>1
  <2> HIDE DEF n
  <2>2. seq[1].position + n <= seq[q].position
    BY <2>1 DEF Apart
  <2> QED
    BY <2>2 DEF n
<1>7. seq[1].position \in Nat
  BY <1>1
<1> QED
  BY <1>6, <1>7

(* The elements that the new one leaves in place: those cheaper than it.   *)
Kept(seq, value, n) ==
  /\ n \in 0 .. Len(seq)
  /\ \A q \in (n + 1) .. Len(seq) : NoDearer(value, seq[q])
  /\ n = 0 \/ ~ NoDearer(value, seq[n])

LEMMA KeptExists ==
  ASSUME NEW seq \in Seq(Element), NEW value
  PROVE  \E n : Kept(seq, value, n)
<1> DEFINE T == {k \in 0 .. Len(seq) : \A q \in (k + 1) .. Len(seq) : NoDearer(value, seq[q])}
<1>1. Len(seq) \in Nat
  BY LenProperties
<1>2. Len(seq) \in T /\ T \subseteq Nat
  BY <1>1
<1>3. PICK n \in T : \A k \in T : n <= k
  BY <1>2, SmallestOf
<1>4. n \in 0 .. Len(seq) /\ \A q \in (n + 1) .. Len(seq) : NoDearer(value, seq[q])
  BY <1>3
<1>5. ASSUME n # 0, NoDearer(value, seq[n]) PROVE FALSE
  <2> DEFINE k == n - 1
  <2>1. k \in 0 .. Len(seq) /\ k + 1 = n /\ ~ (n <= k)
    BY <1>1, <1>4, <1>5
  <2> HIDE DEF k
  <2>2. k \notin T
    BY <2>1, <1>3
  <2>3. ASSUME NEW q \in (k + 1) .. Len(seq) PROVE NoDearer(value, seq[q])
    <3>1. CASE q = n
      BY <3>1, <1>5
    <3>2. CASE q # n
      <4>1. q \in (n + 1) .. Len(seq)
        BY <3>2, <2>1, <1>1, <1>4
      <4> QED
        BY <4>1, <1>4
    <3> QED
      BY <3>1, <3>2
  <2> QED
    BY <2>1, <2>2, <2>3
<1> QED
  BY <1>4, <1>5 DEF Kept

LEMMA WindowMoves ==
  ASSUME job \in Jobs, i \in 0 .. (L - 1), \A p \in 0 .. i : p_cost[p] \in Pair,
         NEW seq, WindowOK(job, p_cost, seq, i)
  PROVE  WindowOK(job, p_cost, Update(seq, At(job, p_cost, i)), i + 1)
<1> DEFINE w == job.window
           V(p) == At(job, p_cost, p)
           value == At(job, p_cost, i)
           k == CHOOSE n \in 0 .. Len(seq) :
                  /\ \A q \in (n + 1) .. Len(seq) : NoDearer(value, seq[q])
                  /\ n = 0 \/ ~ NoDearer(value, seq[n])
           kept == SubSeq(seq, 1, k)
           new == [position |-> i, cost |-> value]
           room == IF k = w THEN Tail(kept) ELSE kept
           all == Append(room, new)
           out == IF i - w >= Head(all).position THEN Tail(all) ELSE all
<1>1. w \in Nat \ {0} /\ L \in Nat /\ i \in Nat /\ i < L
  BY JobIs DEF L
<1>2. /\ seq \in Seq(Element) /\ Len(seq) \in Nat
      /\ \A q \in 1 .. Len(seq) : seq[q] \in Element
      /\ InWindow(job, p_cost, seq, i) /\ Mounting(seq) /\ Represented(job, p_cost, seq, i)
  BY LenProperties, ElementOfSeq DEF WindowOK
<1>3. ASSUME NEW p \in 0 .. i PROVE At(job, p_cost, p) \in Pair
  <2>1. L - p \in Nat /\ p_cost[p] \in Pair
    BY <1>1
  <2>2. RunCost(job, L - p) \in Pair
    BY <2>1, RunCostIs
  <2> QED
    BY <2>1, <2>2, LessPlus DEF At, L
<1>4. value \in Pair /\ new \in Element /\ new.position = i /\ new.cost = value
  BY <1>1, <1>3 DEF Element
<1>5. Update(seq, value) = out
  BY DEF Update
<1> HIDE DEF value, new
<1>6. Kept(seq, value, k)
  BY <1>2, KeptExists DEF Kept
<1> HIDE DEF k
<1>7. /\ k \in 0 .. Len(seq) /\ \A q \in (k + 1) .. Len(seq) : ~ Less(seq[q].cost, value)
      /\ k = 0 \/ Less(seq[k].cost, value)
  BY <1>6 DEF Kept, NoDearer
<1>8. ASSUME NEW q \in 1 .. k PROVE Less(seq[q].cost, value)
  <2>1. k \in 1 .. Len(seq) /\ q \in 1 .. Len(seq) /\ Less(seq[k].cost, value)
    BY <1>2, <1>7
  <2>2. seq[q].cost \in Pair /\ seq[k].cost \in Pair
    BY <2>1, <1>2 DEF Element
  <2>3. CASE q = k
    BY <2>1, <2>3
  <2>4. CASE q # k
    <3>1. Less(seq[q].cost, seq[k].cost)
      BY <2>1, <2>4, <1>2 DEF Mounting
    <3> QED
      BY <2>1, <2>2, <3>1, <1>4, LessOrder
  <2> QED
    BY <2>3, <2>4
<1> DEFINE full == Append(kept, new)
<1>9. /\ kept \in Seq(Element) /\ Len(kept) = k /\ \A q \in 1 .. k : kept[q] = seq[q]
      /\ k \in Nat
  <2>1. \A q \in 1 .. k : seq[q] \in Element
    BY <1>2, <1>7
  <2>2. 1 \in Int /\ k \in Int
    BY <1>2, <1>7
  <2>3. /\ SubSeq(seq, 1, k) \in Seq(Element)
        /\ Len(SubSeq(seq, 1, k)) = IF 1 <= k THEN k - 1 + 1 ELSE 0
        /\ \A q \in 1 .. k - 1 + 1 : SubSeq(seq, 1, k)[q] = seq[1 + q - 1]
    BY <2>1, <2>2, SubSeqProperties
  <2>4. k - 1 + 1 = k /\ \A q \in 1 .. k : 1 + q - 1 = q
    BY <2>2
  <2>5. (IF 1 <= k THEN k - 1 + 1 ELSE 0) = k /\ k \in Nat
    BY <1>2, <1>7
  <2> QED
    BY <2>3, <2>4, <2>5
<1> HIDE DEF kept
<1>10. /\ full \in Seq(Element) /\ Len(full) = k + 1 /\ full[k + 1] = new
       /\ \A q \in 1 .. k : full[q] = seq[q]
  BY <1>4, <1>9, AppendProperties
<1>11. /\ Tail(full) \in Seq(Element) /\ Len(Tail(full)) = k
       /\ \A q \in 1 .. k : Tail(full)[q] = full[q + 1]
       /\ Head(full) = full[1]
  <2>1. full # <<>> /\ full \in Seq(Element)
    BY <1>4, <1>9, AppendProperties
  <2> HIDE DEF full
  <2>2. /\ Tail(full) \in Seq(Element) /\ Len(Tail(full)) = Len(full) - 1
        /\ \A q \in 1 .. Len(Tail(full)) : Tail(full)[q] = full[q + 1]
    BY <2>1, HeadTailProperties
  <2> QED
    BY <2>1, <2>2, <1>9, <1>10
<1>12. k > 0 => Append(Tail(kept), new) = Tail(full)
  <2>1. k > 0 => kept # <<>>
    BY <1>9
  <2> QED
    BY <2>1, <1>9, HeadTailAppend
<1> HIDE DEF full
<1>13. ASSUME NEW q \in 1 .. (k + 1)
       PROVE  /\ full[q] \in Element /\ full[q].position \in 0 .. i /\ i <= full[q].position + w
              /\ full[q].cost = At(job, p_cost, full[q].position)
              /\ q <= k => Less(full[q].cost, value) /\ full[q].position < i
  <2>1. CASE q = k + 1
    BY <2>1, <1>1, <1>4, <1>9, <1>10 DEF value
  <2>2. CASE q # k + 1
    <3>1. q \in 1 .. k /\ q \in 1 .. Len(seq) /\ full[q] = seq[q]
      BY <2>2, <1>2, <1>7, <1>9, <1>10
    <3>2. seq[q] \in Element /\ seq[q].position \in 0 .. (i - 1) /\ i <= seq[q].position + w
          /\ seq[q].cost = At(job, p_cost, seq[q].position)
      BY <3>1, <1>2 DEF InWindow
    <3>3. seq[q].position \in 0 .. i /\ seq[q].position < i
      BY <3>2, <1>1
    <3> QED
      BY <3>1, <3>2, <3>3, <1>8
  <2> QED
    BY <2>1, <2>2
<1>14. Mounting(full)
  <2> SUFFICES ASSUME NEW q \in 1 .. (k + 1), NEW r \in 1 .. (k + 1), q < r
               PROVE  full[q].position < full[r].position /\ Less(full[q].cost, full[r].cost)
    BY <1>10 DEF Mounting
  <2>1. q \in 1 .. k
    BY <1>9
  <2>2. CASE r = k + 1
    BY <2>1, <2>2, <1>4, <1>10, <1>13
  <2>3. CASE r # k + 1
    <3>1. /\ q \in 1 .. Len(seq) /\ r \in 1 .. Len(seq) /\ r \in 1 .. k
      BY <2>1, <2>3, <1>2, <1>7, <1>9
    <3> QED
      BY <2>1, <3>1, <1>2, <1>10 DEF Mounting
  <2> QED
    BY <2>2, <2>3
<1>15. ASSUME NEW p \in 0 .. i, i + 1 <= p + w
       PROVE  \E q \in 1 .. (k + 1) : p <= full[q].position /\ ~ Less(At(job, p_cost, p), full[q].cost)
  <2>1. k + 1 \in 1 .. (k + 1) /\ full[k + 1].position = i /\ full[k + 1].cost = value /\ p <= i
    BY <1>1, <1>4, <1>9, <1>10
  <2>2. CASE p = i
    <3>1. ~ Less(value, value)
      BY <1>4, LessOrder
    <3> QED
      BY <2>1, <2>2, <3>1 DEF value
  <2>3. CASE p # i
    <3>1. p \in 0 .. (i - 1) /\ i <= p + w
      BY <2>3, <1>1, <1>15
    <3>2. PICK q \in 1 .. Len(seq) : p <= seq[q].position /\ ~ Less(At(job, p_cost, p), seq[q].cost)
      BY <3>1, <1>2 DEF Represented
    <3>3. CASE q <= k
      <4>1. q \in 1 .. k /\ q \in 1 .. (k + 1)
        BY <3>3, <1>2, <1>9
      <4> QED
        BY <3>2, <4>1, <1>10
    <3>4. CASE ~ (q <= k)
      <4>1. q \in (k + 1) .. Len(seq) /\ seq[q].cost \in Pair
        BY <3>4, <1>2, <1>9 DEF Element
      <4>2. ~ Less(seq[q].cost, value)
        BY <4>1, <1>7
      <4>3. ~ Less(At(job, p_cost, p), value)
        BY <3>2, <4>1, <4>2, <1>3, <1>4, LessOrder
      <4> QED
        BY <2>1, <4>3
    <3> QED
      BY <3>3, <3>4
  <2> QED
    BY <2>2, <2>3
(* Dropping the oldest element, if it is out of the window by now. *)
<1>16. ASSUME NEW e \in {0, 1}, NEW u \in Seq(Element), Len(u) = k + 1 - e,
              \A q \in 1 .. Len(u) : u[q] = full[q + e],
              e = 1 => k > 0 /\ full[1].position + w <= i,
              e = 0 => full[1].position + w > i
       PROVE  WindowOK(job, p_cost, u, i + 1)
  <2>1. Len(u) \in Nat /\ e \in Int
    BY LenProperties
  <2>2. ASSUME NEW q \in 1 .. Len(u)
        PROVE  /\ q + e \in 1 .. (k + 1) /\ u[q] = full[q + e] /\ u[q].position \in 0 .. i
               /\ i + 1 <= u[q].position + w /\ u[q].cost = At(job, p_cost, u[q].position)
    <3> DEFINE r == q + e
    <3>1. r \in 1 .. (k + 1) /\ u[q] = full[r] /\ r \in Int
      BY <1>9, <1>16
    <3>2. 1 \in 1 .. (k + 1)
      BY <1>9
    <3>3. full[1].position \in Nat /\ i <= full[1].position + w
      BY <3>2, <1>1, <1>13
    <3>4. full[r].position \in Nat /\ full[r].position \in 0 .. i
      BY <3>1, <1>1, <1>13
    <3>5. r > 1 => full[1].position < full[r].position
      BY <3>1, <3>2, <1>10, <1>14 DEF Mounting
    <3>6. i + 1 <= full[r].position + w
      <4>1. CASE e = 1
        <5>1. r > 1
          BY <4>1
        <5> HIDE DEF r
        <5> QED
          BY <3>3, <3>4, <3>5, <5>1, <1>1
      <4>2. CASE e = 0
        <5>1. r = 1 \/ r > 1
          BY <3>1
        <5> HIDE DEF r
        <5>2. full[1].position + w > i
          BY <4>2, <1>16
        <5> QED
          BY <3>3, <3>4, <3>5, <5>1, <5>2, <1>1
      <4> QED
        BY <4>1, <4>2
    <3> HIDE DEF r
    <3>7. full[r].cost = At(job, p_cost, full[r].position)
      BY <3>1, <1>13
    <3>8. /\ r \in 1 .. (k + 1) /\ u[q] = full[r] /\ u[q].position \in 0 .. i
          /\ i + 1 <= u[q].position + w /\ u[q].cost = At(job, p_cost, u[q].position)
      BY <3>1, <3>4, <3>6, <3>7
    <3> QED
      BY <3>8 DEF r
  <2>3. InWindow(job, p_cost, u, i + 1)
    <3>1. (i + 1) - 1 = i
      BY <1>1
    <3> QED
      BY <2>2, <3>1 DEF InWindow
  <2>4. Mounting(u)
    <3> SUFFICES ASSUME NEW q \in 1 .. Len(u), NEW r \in 1 .. Len(u), q < r
                 PROVE  u[q].position < u[r].position /\ Less(u[q].cost, u[r].cost)
      BY DEF Mounting
    <3> DEFINE a == q + e
               b == r + e
    <3>1. a \in 1 .. (k + 1) /\ b \in 1 .. (k + 1) /\ u[q] = full[a] /\ u[r] = full[b]
      BY <2>2
    <3>2. a < b
      BY <2>1
    <3> HIDE DEF a, b
    <3>3. full[a].position < full[b].position /\ Less(full[a].cost, full[b].cost)
      BY <3>1, <3>2, <1>10, <1>14 DEF Mounting
    <3> QED
      BY <3>1, <3>3
  <2>5. Represented(job, p_cost, u, i + 1)
    <3> SUFFICES ASSUME NEW p \in 0 .. i, i + 1 <= p + w
                 PROVE  \E q \in 1 .. Len(u) : p <= u[q].position /\ ~ Less(At(job, p_cost, p), u[q].cost)
      <4>1. (i + 1) - 1 = i
        BY <1>1
      <4> QED
        BY <4>1 DEF Represented
    <3>1. PICK q \in 1 .. (k + 1) : p <= full[q].position /\ ~ Less(At(job, p_cost, p), full[q].cost)
      BY <1>15
    <3> DEFINE r == q - e
    <3>2. r \in 1 .. Len(u)
      <4>1. CASE e = 0
        BY <4>1, <1>9, <1>16
      <4>2. CASE e = 1
        <5>1. q # 1
          <6>1. SUFFICES ASSUME q = 1 PROVE FALSE
            OBVIOUS
          <6>2. full[1].position + w <= i /\ p <= full[1].position
            BY <3>1, <4>2, <6>1, <1>16
          <6>3. full[1].position \in Nat
            BY <6>1, <1>13, <1>1
          <6> QED
            BY <6>2, <6>3, <1>1
        <5> QED
          BY <4>2, <5>1, <1>9, <1>16
      <4> QED
        BY <4>1, <4>2
    <3>3. r + e = q
      BY <2>1, <1>9
    <3> HIDE DEF r
    <3>4. u[r] = full[q]
      BY <3>2, <3>3, <2>2
    <3> QED
      BY <3>1, <3>2, <3>4
  <2> QED
    BY <2>3, <2>4, <2>5 DEF WindowOK
<1>17. 1 \in 1 .. (k + 1) /\ full[1].position \in Nat /\ i <= full[1].position + w
  <2>1. 1 \in 1 .. (k + 1)
    BY <1>9
  <2> QED
    BY <2>1, <1>1, <1>13
<1>18. CASE k = w
  <2>1. k > 0 /\ room = Tail(kept) /\ all = Tail(full)
    BY <1>1, <1>12, <1>18
  <2>2. full[1].position + w <= i
    <3>1. k + 1 \in 1 .. (k + 1)
      BY <1>9
    <3>2. full[1].position + (k + 1) - 1 <= full[k + 1].position
      BY <3>1, <1>10, <1>14, Spread
    <3>3. full[k + 1].position = i
      BY <1>4, <1>10
    <3> QED
      BY <3>2, <3>3, <1>1, <1>9, <1>17, <1>18
  <2>3. WindowOK(job, p_cost, Tail(full), i + 1)
    <3> DEFINE u == Tail(full)
    <3>1. u \in Seq(Element) /\ Len(u) = k + 1 - 1 /\ \A q \in 1 .. Len(u) : u[q] = full[q + 1]
      BY <1>9, <1>11
    <3> HIDE DEF u
    <3>2. WindowOK(job, p_cost, u, i + 1)
      BY <2>1, <2>2, <3>1, <1>16
    <3> QED
      BY <3>2 DEF u
  <2>4. ~ (i - w >= Head(all).position)
    <3>1. Tail(full) # <<>> /\ Head(Tail(full)) = Tail(full)[1]
      BY <2>1, <1>9, <1>11
    <3>2. 1 \in 1 .. Len(Tail(full))
      BY <2>1, <1>9, <1>11
    <3>3. Tail(full)[1].position \in Nat /\ i + 1 <= Tail(full)[1].position + w
      <4> DEFINE u == Tail(full)
      <4>1. InWindow(job, p_cost, u, i + 1) /\ 1 \in 1 .. Len(u)
        BY <2>3, <3>2 DEF WindowOK
      <4> HIDE DEF u
      <4>2. u[1].position \in 0 .. ((i + 1) - 1) /\ i + 1 <= u[1].position + w
        BY <4>1 DEF InWindow
      <4>3. u[1].position \in Nat
        BY <4>2, <1>1
      <4> QED
        BY <4>2, <4>3 DEF u
    <3> HIDE DEF all
    <3> QED
      BY <2>1, <3>1, <3>3, <1>1
  <2>5. out = Tail(full)
    BY <2>1, <2>4
  <2> HIDE DEF out
  <2> QED
    BY <2>3, <2>5, <1>5 DEF value
<1>19. CASE k # w
  <2>1. all = full /\ Head(full) = full[1]
    BY <1>11, <1>19 DEF full
  <2>2. CASE i - w >= full[1].position
    <3>1. out = Tail(full)
      BY <2>1, <2>2
    <3>2. full[1].position + w <= i
      BY <2>2, <1>1, <1>17
    <3>3. k > 0
      <4>1. SUFFICES ASSUME k = 0 PROVE FALSE
        BY <1>9
      <4>2. full[1].position = i
        BY <4>1, <1>4, <1>10
      <4> QED
        BY <4>2, <3>2, <1>1
    <3> HIDE DEF out
    <3> DEFINE u == Tail(full)
    <3>4. u \in Seq(Element) /\ Len(u) = k + 1 - 1 /\ \A q \in 1 .. Len(u) : u[q] = full[q + 1]
      BY <1>9, <1>11
    <3> HIDE DEF u
    <3>5. WindowOK(job, p_cost, u, i + 1)
      BY <3>2, <3>3, <3>4, <1>16
    <3> QED
      BY <3>1, <3>5, <1>5 DEF u, value
  <2>3. CASE ~ (i - w >= full[1].position)
    <3>1. out = full
      BY <2>1, <2>3
    <3>2. full[1].position + w > i
      BY <2>3, <1>1, <1>17
    <3> HIDE DEF out
    <3>3. Len(full) = k + 1 - 0 /\ \A q \in 1 .. Len(full) : q + 0 = q
      BY <1>9, <1>10
    <3>4. WindowOK(job, p_cost, full, i + 1)
      BY <3>2, <3>3, <1>10, <1>16
    <3> QED
      BY <3>1, <3>4, <1>5 DEF value
  <2> QED
    BY <2>2, <2>3
<1> QED
  BY <1>18, <1>19

(* Runs to n compare as those to the end of the text do. *)
Ending(jb, cost, n, m) == Plus(cost[n - m], RunCost(jb, m))
Picks(jb, cost, seq, n, picked) ==
  /\ seq # <<>> /\ picked = n - seq[1].position
  /\ picked \in 1 .. jb.window /\ picked <= n
  /\ \A m \in 1 .. n : m <= jb.window =>
       /\ Ending(jb, cost, n, m) \in Pair
       /\ ~ Less(Ending(jb, cost, n, m), Ending(jb, cost, n, picked))
       /\ m < picked => Less(Ending(jb, cost, n, picked), Ending(jb, cost, n, m))

LEMMA EndingIs ==
  ASSUME NEW jb \in Jobs, NEW cost, NEW n \in 1 .. Len(jb.text), NEW m \in 1 .. n, cost[n - m] \in Pair
  PROVE  /\ Ending(jb, cost, n, m) \in Pair
         /\ At(jb, cost, n - m) = Plus(Ending(jb, cost, n, m),
              [cost |-> (Len(jb.text) - n) * jb.cost.lit_var, weight |-> (Len(jb.text) - n) * jb.weight.lit_var])
<1> DEFINE N == Len(jb.text)
           rest == N - n
           c == jb.cost.lit_var
           v == jb.weight.lit_var
<1>1. N \in Nat /\ n \in Nat /\ m \in Nat /\ rest \in Nat /\ N - (n - m) = rest + m
  BY JobIs
<1>2. /\ c \in Nat /\ v \in Nat /\ jb.cost.lit_fixed \in Nat /\ jb.weight.lit_fixed \in Nat
  BY JobIs DEF Model
<1>3. Ending(jb, cost, n, m) \in Pair
  <2>1. RunCost(jb, m) \in Pair
    BY <1>1, RunCostIs
  <2> QED
    BY <2>1, LessPlus DEF Ending
<1> HIDE DEF rest, c, v
<1>4. (rest + m) * c = rest * c + m * c /\ (rest + m) * v = rest * v + m * v
  BY <1>1, <1>2
<1>5. m * c \in Nat /\ m * v \in Nat /\ rest * c \in Nat /\ rest * v \in Nat
  BY <1>1, <1>2
<1>6. RunCost(jb, rest + m) = [cost |-> jb.cost.lit_fixed + (rest * c + m * c), weight |-> jb.weight.lit_fixed + (rest * v + m * v)]
  BY <1>4 DEF RunCost, c, v
<1>7. RunCost(jb, m) = [cost |-> jb.cost.lit_fixed + m * c, weight |-> jb.weight.lit_fixed + m * v]
  BY DEF RunCost, c, v
<1> DEFINE mc == m * c
           mv == m * v
           rc == rest * c
           rv == rest * v
           from == cost[n - m]
<1>8. from.cost \in Nat /\ from.weight \in Nat /\ mc \in Nat /\ mv \in Nat /\ rc \in Nat /\ rv \in Nat
  BY <1>5 DEF Pair
<1>9. At(jb, cost, n - m) = Plus(from, RunCost(jb, rest + m))
  BY <1>1 DEF At
<1>10. /\ RunCost(jb, rest + m) = [cost |-> jb.cost.lit_fixed + (rc + mc), weight |-> jb.weight.lit_fixed + (rv + mv)]
       /\ RunCost(jb, m) = [cost |-> jb.cost.lit_fixed + mc, weight |-> jb.weight.lit_fixed + mv]
       /\ Ending(jb, cost, n, m) = Plus(from, RunCost(jb, m))
  BY <1>6, <1>7 DEF Ending
<1> HIDE DEF mc, mv, rc, rv, from
<1>11. At(jb, cost, n - m) = Plus(Ending(jb, cost, n, m), [cost |-> rc, weight |-> rv])
  <2> DEFINE fc == jb.cost.lit_fixed
             fw == jb.weight.lit_fixed
             gc == from.cost
             gw == from.weight
  <2>1. At(jb, cost, n - m) = [cost |-> gc + (fc + (rc + mc)), weight |-> gw + (fw + (rv + mv))]
    BY <1>9, <1>10 DEF Plus
  <2>2. Plus(Ending(jb, cost, n, m), [cost |-> rc, weight |-> rv])
          = [cost |-> (gc + (fc + mc)) + rc, weight |-> (gw + (fw + mv)) + rv]
    BY <1>10 DEF Plus
  <2>3. fc \in Nat /\ fw \in Nat /\ gc \in Nat /\ gw \in Nat
    BY <1>2, <1>8
  <2> HIDE DEF fc, fw, gc, gw
  <2>4. gc + (fc + (rc + mc)) = (gc + (fc + mc)) + rc /\ gw + (fw + (rv + mv)) = (gw + (fw + mv)) + rv
    BY <2>3, <1>8
  <2> QED
    BY <2>1, <2>2, <2>4
<1> QED
  BY <1>3, <1>11 DEF rc, rv, rest, c, v

LEMMA WindowPicks ==
  ASSUME NEW jb \in Jobs, NEW cost, NEW n \in 1 .. Len(jb.text), \A p \in 0 .. (n - 1) : cost[p] \in Pair,
         NEW seq, WindowOK(jb, cost, seq, n)
  PROVE  Picks(jb, cost, seq, n, n - seq[1].position)
<1> DEFINE w == jb.window
           picked == n - seq[1].position
           tail == [cost |-> (Len(jb.text) - n) * jb.cost.lit_var, weight |-> (Len(jb.text) - n) * jb.weight.lit_var]
<1>1. /\ w \in Nat \ {0} /\ Len(jb.text) \in Nat /\ n \in Nat /\ n - 1 \in 0 .. (n - 1) /\ n <= (n - 1) + w
  BY JobIs
<1>2. /\ seq \in Seq(Element) /\ Len(seq) \in Nat
      /\ \A q \in 1 .. Len(seq) : seq[q] \in Element
      /\ InWindow(jb, cost, seq, n) /\ Mounting(seq) /\ Represented(jb, cost, seq, n)
  BY LenProperties, ElementOfSeq DEF WindowOK
<1>3. 1 \in 1 .. Len(seq) /\ seq # <<>>
  <2>1. PICK q \in 1 .. Len(seq) : n - 1 <= seq[q].position
    <3> DEFINE p == n - 1
    <3>1. p \in 0 .. (n - 1) /\ n <= p + jb.window
      BY <1>1
    <3> HIDE DEF p
    <3>2. \E q \in 1 .. Len(seq) : p <= seq[q].position
      BY <3>1, <1>2 DEF Represented
    <3> QED
      BY <3>2 DEF p
  <2>2. Len(seq) # 0
    BY <2>1
  <2>3. 1 \in 1 .. Len(seq)
    BY <2>2, <1>2
  <2> QED
    BY <2>2, <2>3
<1>4. seq[1].position \in 0 .. (n - 1) /\ n <= seq[1].position + w /\ seq[1].cost = At(jb, cost, seq[1].position)
  BY <1>2, <1>3 DEF InWindow
<1>5. picked \in 1 .. w /\ picked <= n /\ picked \in 1 .. n /\ n - picked = seq[1].position
  BY <1>1, <1>4
<1>6. tail \in Pair
  <2> DEFINE r == Len(jb.text) - n
             c == jb.cost.lit_var
             v == jb.weight.lit_var
  <2>1. c \in Nat /\ v \in Nat
    BY JobIs DEF Model
  <2>2. r \in Nat
    BY <1>1
  <2> HIDE DEF r, c, v
  <2>3. r * c \in Nat /\ r * v \in Nat
    BY <2>1, <2>2
  <2>4. tail = [cost |-> r * c, weight |-> r * v]
    BY DEF r, c, v
  <2> HIDE DEF tail
  <2> QED
    BY <2>3, <2>4 DEF Pair
<1> HIDE DEF tail
<1>7. ASSUME NEW m \in 1 .. n
      PROVE  /\ Ending(jb, cost, n, m) \in Pair
             /\ At(jb, cost, n - m) = Plus(Ending(jb, cost, n, m), tail) /\ At(jb, cost, n - m) \in Pair
  <2>1. n - m \in 0 .. (n - 1)
    BY <1>1
  <2>2. cost[n - m] \in Pair
    BY <2>1
  <2>3. Ending(jb, cost, n, m) \in Pair /\ At(jb, cost, n - m) = Plus(Ending(jb, cost, n, m), tail)
    BY <2>2, EndingIs DEF tail
  <2> QED
    BY <2>3, <1>6, LessPlus
<1>8. At(jb, cost, n - picked) = seq[1].cost /\ seq[1].cost \in Pair
  BY <1>2, <1>3, <1>4, <1>5 DEF Element
<1> HIDE DEF picked
<1>9. ASSUME NEW m \in 1 .. n, m <= w
      PROVE  /\ ~ Less(At(jb, cost, n - m), seq[1].cost)
             /\ m < picked => Less(seq[1].cost, At(jb, cost, n - m))
  <2> DEFINE p == n - m
             here == At(jb, cost, n - m)
  <2>1. p \in 0 .. (n - 1) /\ n <= p + w /\ here = At(jb, cost, p)
    BY <1>1, <1>9
  <2>2. here \in Pair
    BY <1>7
  <2> HIDE DEF here
  <2>3. PICK q \in 1 .. Len(seq) : p <= seq[q].position /\ ~ Less(here, seq[q].cost)
    <3> HIDE DEF p
    <3> QED
      BY <2>1, <1>2 DEF Represented
  <2>4. seq[q].cost \in Pair /\ seq[q].position \in Nat /\ (1 < q => Less(seq[1].cost, seq[q].cost))
    BY <1>2, <1>3 DEF Element, Mounting
  <2>5. ~ Less(here, seq[1].cost)
    <3>1. CASE q = 1
      BY <2>3, <3>1
    <3>2. CASE 1 < q
      BY <2>2, <2>3, <2>4, <3>2, <1>8, LessOrder
    <3> QED
      BY <3>1, <3>2
  <2>6. ASSUME m < picked PROVE Less(seq[1].cost, here)
    <3>1. seq[1].position < p
      BY <2>6, <1>1, <1>4 DEF picked
    <3>2. 1 < q
      <4>1. q # 1
        BY <3>1, <2>3, <2>4, <1>4, <1>1
      <4> QED
        BY <4>1, <1>2
    <3>3. Less(seq[1].cost, seq[q].cost)
      BY <2>4, <3>2
    <3> HIDE DEF p
    <3> QED
      BY <2>2, <2>3, <2>4, <3>3, <1>8, LessOrder
  <2> QED
    BY <2>5, <2>6 DEF here
<1>10. ASSUME NEW m \in 1 .. n, m <= w
       PROVE  /\ ~ Less(Ending(jb, cost, n, m), Ending(jb, cost, n, picked))
              /\ m < picked => Less(Ending(jb, cost, n, picked), Ending(jb, cost, n, m))
  <2>1. /\ ~ Less(At(jb, cost, n - m), At(jb, cost, n - picked))
        /\ m < picked => Less(At(jb, cost, n - picked), At(jb, cost, n - m))
    BY <1>8, <1>9, <1>10
  <2>2. /\ Ending(jb, cost, n, m) \in Pair /\ Ending(jb, cost, n, picked) \in Pair
        /\ At(jb, cost, n - m) = Plus(Ending(jb, cost, n, m), tail)
        /\ At(jb, cost, n - picked) = Plus(Ending(jb, cost, n, picked), tail)
    BY <1>5, <1>7
  <2> QED
    BY <2>1, <2>2, <1>6, LessPlus
<1> QED
  BY <1>3, <1>5, <1>7, <1>10 DEF Picks, picked

-------------------------------------------------------------------------------
(* Buckets.                                                                *)
LEMMA NextMultiple ==
  ASSUME NEW b \in Nat \ {0}, NEW s \in Nat, s % b = 0
  PROVE  (s + b) % b = 0
<1> DEFINE q == s \div b
           r == (s + b) \div b
           z == (s + b) % b
<1>1. q \in Nat /\ s = b * q
  OBVIOUS
<1>2. r \in Nat /\ z \in 0 .. (b - 1) /\ s + b = b * r + z
  OBVIOUS
<1> HIDE DEF q, r, z
<1>3. b * q + b = b * (q + 1)
  BY <1>1
<1>4. b * (q + 1) = b * r + z
  BY <1>1, <1>2, <1>3
<1>5. z = 0
  <2>1. CASE r <= q
    <3>1. PICK e \in Nat : q = r + e
      BY <1>1, <1>2, <2>1
    <3>2. b * (r + e + 1) = b * r + b * e + b
      BY <1>1, <1>2
    <3>3. b * e \in Nat /\ b * r \in Nat
      BY <3>1, <1>2
    <3> QED
      BY <3>1, <3>2, <3>3, <1>2, <1>4
  <2>2. CASE r > q
    <3>1. PICK e \in Nat : r = q + 1 + e
      <4>1. r - (q + 1) \in Nat /\ r = q + 1 + (r - (q + 1))
        BY <1>1, <1>2, <2>2
      <4> QED
        BY <4>1
    <3>2. b * (q + 1 + e) = b * (q + 1) + b * e
      BY <1>1, <1>2
    <3>3. b * e \in Nat /\ b * (q + 1) \in Nat
      BY <3>1, <1>1
    <3> QED
      BY <3>1, <3>2, <3>3, <1>2, <1>4
  <2> QED
    BY <2>1, <2>2, <1>1, <1>2
<1> QED
  BY <1>5 DEF z

LEMMA InMultiple ==
  ASSUME NEW b \in Nat \ {0}, NEW s \in Nat, s % b = 0, NEW n \in Nat, s <= n, n < s + b
  PROVE  n - (n % b) = s
<1> DEFINE k == n - s
<1>1. k \in 0 .. (b - 1) /\ n = s + k
  OBVIOUS
<1> HIDE DEF k
<1>2. (s + k) % b = k
  BY <1>1
<1> QED
  BY <1>1, <1>2

LEMMA MinIs ==
  ASSUME NEW x \in Int, NEW y \in Int
  PROVE  Min({x, y}) = IF x <= y THEN x ELSE y
<1> DEFINE S == {x, y}
           m == IF x <= y THEN x ELSE y
<1>1. m \in S /\ \A z \in S : m <= z
  OBVIOUS
<1>2. \A u \in S : (\A z \in S : u <= z) => u = m
  OBVIOUS
<1> HIDE DEF S, m
<1>3. Min(S) = CHOOSE u \in S : \A z \in S : u <= z
  BY DEF Min
<1>4. Min(S) = m
  BY <1>1, <1>2, <1>3
<1> QED
  BY <1>4 DEF S, m

EndOf(jb, start) == Min({start + jb.bucket, Len(jb.text)})
BucketOf(jb, start) == SubSeq(jb.text, start + 1, EndOf(jb, start))

LEMMA BucketIs ==
  ASSUME NEW jb \in Jobs, NEW start \in 0 .. Len(jb.text)
  PROVE  /\ EndOf(jb, start) \in start .. Len(jb.text) /\ EndOf(jb, start) <= start + jb.bucket
         /\ EndOf(jb, start) < Len(jb.text) => EndOf(jb, start) = start + jb.bucket
         /\ start < Len(jb.text) => start < EndOf(jb, start)
         /\ Len(BucketOf(jb, start)) = EndOf(jb, start) - start
         /\ Len(BucketOf(jb, start)) \in Nat
<1> DEFINE N == Len(jb.text)
           e == EndOf(jb, start)
           a == start + 1
<1>1. /\ N \in Nat /\ jb.bucket \in Nat \ {0} /\ start \in Nat
      /\ jb.text \in Seq(ToSet(jb.text))
  BY JobIs
<1>2. e = IF start + jb.bucket <= N THEN start + jb.bucket ELSE N
  BY <1>1, MinIs DEF EndOf
<1> HIDE DEF e
<1>3. /\ e \in start .. N /\ e <= start + jb.bucket
      /\ (e < N => e = start + jb.bucket) /\ (start < N => start < e)
  BY <1>1, <1>2
<1>4. \A k \in a .. e : jb.text[k] \in ToSet(jb.text)
  BY <1>1, <1>3, ElementOfSeq
<1>5. Len(SubSeq(jb.text, a, e)) = IF a <= e THEN e - a + 1 ELSE 0
  <2>1. a \in Int /\ e \in Int
    BY <1>1, <1>3
  <2> HIDE DEF a
  <2> QED
    BY <2>1, <1>4, SubSeqProperties
<1>6. Len(BucketOf(jb, start)) = e - start
  BY <1>1, <1>3, <1>5 DEF BucketOf, e
<1> QED
  BY <1>1, <1>3, <1>6 DEF e

-------------------------------------------------------------------------------
(* The greedy parsing.                                                     *)
LEMMA MaxIs ==
  ASSUME NEW S, S \subseteq Int, NEW m \in S, \A y \in S : y <= m
  PROVE  Max(S) = m
<1>1. m \in Int /\ \A u \in S : u \in Int
  OBVIOUS
<1>2. \A u \in S : (\A y \in S : u >= y) => u = m
  BY <1>1
<1>3. \A y \in S : m >= y
  BY <1>1
<1>4. Max(S) = CHOOSE u \in S : \A y \in S : u >= y
  BY DEF Max
<1> QED
  BY <1>2, <1>3, <1>4

LongestIn(text, n) == Max({0} \union {e.ell : e \in Copies(text, n)})
NearestIn(text, n) ==
  LET all == {e \in Copies(text, n) : e.ell = LongestIn(text, n)}
  IN  {e \in all : \A c \in all : e.cost_id <= c.cost_id}
LongestEdge(es) ==
  es[CHOOSE k \in DOMAIN es : \A n \in DOMAIN es :
       es[n].ell <= es[k].ell /\ (n < k => es[n].ell < es[k].ell)]

LEMMA CopiesAre ==
  ASSUME NEW text, Len(text) \in Nat, NEW n \in 0 .. Len(text), NEW e
  PROVE  /\ e \in Copies(text, n) => IsCopy(text, n, e) /\ e.cost_id = GetId(e.d, e.ell)
         /\ e \in MeshEdge /\ GoodEdge(text, n, e) => e \in Copies(text, n)
<1>1. ASSUME e \in Copies(text, n) PROVE IsCopy(text, n, e) /\ e.cost_id = GetId(e.d, e.ell)
  <2>1. PICK c \in [d : 1 .. n, ell : 1 .. (Len(text) - n)] :
          IsCopy(text, n, c) /\ e = [d |-> c.d, ell |-> c.ell, cost_id |-> GetId(c.d, c.ell)]
    BY <1>1 DEF Copies
  <2>2. e.d = c.d /\ e.ell = c.ell /\ e.cost_id = GetId(c.d, c.ell)
    BY <2>1
  <2> QED
    BY <2>1, <2>2 DEF IsCopy
<1>2. ASSUME e \in MeshEdge, GoodEdge(text, n, e) PROVE e \in Copies(text, n)
  <2> DEFINE c == [d |-> e.d, ell |-> e.ell]
  <2>1. IsCopy(text, n, e) /\ e.cost_id = GetId(e.d, e.ell)
    BY <1>2 DEF GoodEdge
  <2>2. e.d \in 1 .. n /\ e.ell \in 1 .. (Len(text) - n)
    <3>1. e.d \in Nat \ {0} /\ e.d <= n /\ e.ell \in Nat \ {0} /\ n + e.ell <= Len(text)
      BY <2>1, CopyClasses
    <3> QED
      BY <3>1
  <2>3. c \in [d : 1 .. n, ell : 1 .. (Len(text) - n)] /\ c.d = e.d /\ c.ell = e.ell
    BY <2>2
  <2>4. IsCopy(text, n, c)
    BY <2>1, <2>3 DEF IsCopy
  <2>5. e = [d |-> c.d, ell |-> c.ell, cost_id |-> GetId(c.d, c.ell)]
    BY <1>2, <2>1, <2>3 DEF MeshEdge
  <2> HIDE DEF c
  <2> QED
    BY <2>3, <2>4, <2>5 DEF Copies
<1> QED
  BY <1>1, <1>2

(* The last of the edges offered is the longest of all copies, and the     *)
(* nearest of those as long.                                               *)
LastEdge(text, n, es) ==
  IF es = <<>> THEN LongestIn(text, n) = 0
  ELSE /\ LongestEdge(es) \in NearestIn(text, n)
       /\ LongestEdge(es).ell = LongestIn(text, n)
       /\ LongestIn(text, n) \in 1 .. (Len(text) - n)
       /\ \E k \in 1 .. Len(es) : LongestEdge(es) = es[k]

LEMMA LastIsLongest ==
  ASSUME NEW text, Len(text) \in Nat, NEW n \in 0 .. Len(text),
         NEW es \in Seq(MeshEdge), Offers(text, n, es)
  PROVE  LastEdge(text, n, es)
<1> DEFINE N == Len(es)
           Ells == {e.ell : e \in Copies(text, n)}
           S == {0} \union Ells
<1>1. N \in Nat /\ DOMAIN es = 1 .. N /\ \A k \in 1 .. N : es[k] \in MeshEdge
  BY LenProperties, ElementOfSeq
<1>2. ASSUME NEW k \in 1 .. N
      PROVE  /\ IsCopy(text, n, es[k]) /\ es[k].cost_id = GetId(es[k].d, es[k].ell)
             /\ k > 1 => es[k - 1].ell < es[k].ell
  BY <1>1 DEF Offers
<1>3. ASSUME NEW c \in Copies(text, n)
      PROVE  /\ c.ell \in Nat \ {0} /\ IsCopy(text, n, c) /\ c.cost_id = GetId(c.d, c.ell)
             /\ \E k \in 1 .. N : /\ es[k].ell >= c.ell
                                  /\ LowerBound(Dst, es[k].d) <= LowerBound(Dst, c.d)
                                  /\ LowerBound(Lens, es[k].ell) <= LowerBound(Lens, c.ell)
  <2>1. IsCopy(text, n, c) /\ c.cost_id = GetId(c.d, c.ell)
    BY CopiesAre
  <2>2. c.ell \in Nat \ {0}
    BY <2>1, CopyClasses
  <2> QED
    BY <2>1, <2>2, <1>1 DEF Offers
<1>4. S \subseteq Int
  BY <1>3
<1>5. CASE es = <<>>
  <2>1. N = 0
    BY <1>5
  <2>2. Copies(text, n) = {}
    BY <1>3, <2>1
  <2>3. S = {0}
    BY <2>2
  <2> HIDE DEF S
  <2>a. S \subseteq Int /\ 0 \in S /\ \A y \in S : y <= 0
    BY <2>3
  <2>4. Max(S) = 0
    BY <2>a, MaxIs
  <2> QED
    BY <2>4, <1>5 DEF LastEdge, LongestIn, S
<1>6. CASE es # <<>>
  <2> DEFINE c == es[N]
  <2>1. N \in 1 .. N
    BY <1>1, <1>6, EmptySeq
  <2>2. ASSUME NEW k \in 1 .. N PROVE es[k].ell <= c.ell /\ (k # N => es[k].ell < c.ell) /\ es[k].ell \in Nat
    <3> DEFINE Sorted == {m \in Nat : m <= N => \A q \in 1 .. N : q < m => es[q].ell < es[m].ell}
    <3>1. 0 \in Sorted
      OBVIOUS
    <3>a. \A q \in 1 .. N : es[q].ell \in Nat
      BY <1>1 DEF MeshEdge
    <3>2. ASSUME NEW m \in Nat, m \in Sorted PROVE (m + 1) \in Sorted
      <4> SUFFICES ASSUME m + 1 <= N, NEW q \in 1 .. N, q < m + 1 PROVE es[q].ell < es[m + 1].ell
        OBVIOUS
      <4> DEFINE u == m + 1
      <4>1. u \in 1 .. N /\ u > 1 /\ m \in 1 .. N /\ u - 1 = m
        BY <1>1
      <4> HIDE DEF u
      <4>2. es[u - 1].ell < es[u].ell
        BY <4>1, <1>2
      <4>3. es[m].ell < es[u].ell
        BY <4>1, <4>2
      <4>4. es[q].ell \in Nat /\ es[m].ell \in Nat /\ es[u].ell \in Nat
        BY <3>a, <4>1
      <4>5. q = m \/ es[q].ell < es[m].ell
        BY <3>2, <4>1
      <4>6. es[q].ell < es[u].ell
        BY <4>3, <4>4, <4>5
      <4> QED
        BY <4>6 DEF u
    <3> HIDE DEF Sorted
    <3>3. Nat \subseteq Sorted
      BY <3>1, <3>2, InductionOn
    <3>4. N \in Sorted
      BY <3>3, <1>1
    <3>5. k < N => es[k].ell < c.ell
      BY <3>4, <1>1 DEF Sorted
    <3>6. es[k].ell \in Nat /\ c.ell \in Nat
      BY <3>a, <2>1
    <3> QED
      BY <3>5, <3>6, <1>1
  <2>3. LongestEdge(es) = c
    <3> DEFINE P(k) == \A m \in DOMAIN es : es[m].ell <= es[k].ell /\ (m < k => es[m].ell < es[k].ell)
    <3>1. N \in DOMAIN es /\ P(N)
      <4>1. ASSUME NEW m \in 1 .. N
            PROVE  es[m].ell <= es[N].ell /\ (m < N => es[m].ell < es[N].ell)
        <5>1. es[m].ell <= c.ell /\ (m # N => es[m].ell < c.ell)
          BY <2>2
        <5>2. m < N => m # N
          <6>1. m \in Int
            BY <1>1
          <6>2. ~ (m < m)
            BY <6>1
          <6> QED
            BY <6>2
        <5> QED
          BY <5>1, <5>2
      <4> QED
        BY <4>1, <1>1, <2>1
    <3>2. ASSUME NEW k \in DOMAIN es, P(k) PROVE k = N
      <4>1. es[N].ell <= es[k].ell /\ k \in 1 .. N
        BY <1>1, <2>1, <3>2
      <4>2. k # N => es[k].ell < es[N].ell
        BY <4>1, <2>2
      <4>3. es[k].ell \in Nat /\ es[N].ell \in Nat
        BY <4>1, <2>1, <2>2
      <4> QED
        BY <4>1, <4>2, <4>3
    <3> HIDE DEF P
    <3>3. (CHOOSE k \in DOMAIN es : P(k)) = N
      BY <3>1, <3>2
    <3> QED
      BY <3>3 DEF LongestEdge, P
  <2>4. IsCopy(text, n, c) /\ c.cost_id = GetId(c.d, c.ell) /\ c \in MeshEdge
    BY <1>1, <1>2, <2>1
  <2>5. c \in Copies(text, n)
    BY <2>4, CopiesAre DEF GoodEdge
  <2>6. /\ c.ell \in Nat \ {0} /\ n + c.ell <= Len(text)
        /\ LowerBound(Dst, c.d) \in Nat /\ LowerBound(Lens, c.ell) \in Nat
    BY <2>4, CopyClasses
  <2>7. ASSUME NEW e \in Copies(text, n) PROVE e.ell <= c.ell
    <3>1. PICK k \in 1 .. N : es[k].ell >= e.ell
      BY <1>3
    <3> QED
      BY <3>1, <1>3, <2>2, <2>6
  <2>8. c.ell \in S /\ \A y \in S : y <= c.ell
    BY <2>5, <2>6, <2>7
  <2>9. LongestIn(text, n) = c.ell
    <3> HIDE DEF S
    <3>1. Max(S) = c.ell
      BY <1>4, <2>8, MaxIs
    <3> QED
      BY <3>1 DEF LongestIn, S
  <2>10. ASSUME NEW e \in Copies(text, n), e.ell = c.ell PROVE c.cost_id <= e.cost_id
    <3>1. PICK k \in 1 .. N : es[k].ell >= e.ell /\ LowerBound(Dst, es[k].d) <= LowerBound(Dst, e.d)
      BY <1>3
    <3>2. k = N
      BY <3>1, <2>2, <2>6, <2>10
    <3>3. LowerBound(Dst, c.d) <= LowerBound(Dst, e.d)
      BY <3>1, <3>2
    <3> DEFINE a == LowerBound(Lens, c.ell)
               x == LowerBound(Dst, c.d)
               y == LowerBound(Dst, e.d)
               w == Width(Len(Lens))
    <3>4. IsCopy(text, n, e) /\ e.cost_id = GetId(e.d, e.ell)
      BY CopiesAre
    <3>5. y \in Nat /\ x \in Nat /\ a \in Nat /\ w \in Nat
      BY <3>4, <2>6, CopyClasses, LastLen, WidthSuffices
    <3>6. c.cost_id = Wrap(a, x) /\ e.cost_id = Wrap(a, y)
      BY <3>4, <2>4, <2>10 DEF GetId
    <3> HIDE DEF a, x, y, w
    <3>7. c.cost_id = x * w + a /\ e.cost_id = y * w + a
      BY <3>5, <3>6, WrapIs DEF w
    <3>8. x <= y
      BY <3>3 DEF x, y
    <3>9. x * w <= y * w /\ x * w \in Nat /\ y * w \in Nat
      <4>1. PICK z \in Nat : y = x + z
        <5>1. y - x \in Nat /\ y = x + (y - x)
          BY <3>5, <3>8
        <5> QED
          BY <5>1
      <4>2. (x + z) * w = x * w + z * w
        BY <3>5
      <4>3. z * w \in Nat /\ x * w \in Nat
        BY <3>5
      <4> QED
        BY <4>1, <4>2, <4>3
    <3> QED
      BY <3>5, <3>7, <3>9
  <2> HIDE DEF c
  <2>11. c \in NearestIn(text, n)
    BY <2>5, <2>9, <2>10 DEF NearestIn
  <2>12. c.ell \in 1 .. (Len(text) - n)
    BY <2>6
  <2> QED
    BY <1>6, <2>1, <2>3, <2>9, <2>11, <2>12 DEF LastEdge, c
<1> QED
  BY <1>5, <1>6

StartBy(jb, n) == n - (n % jb.bucket)
LongestBy(jb, n) == LongestIn(BucketOf(jb, StartBy(jb, n)), n - StartBy(jb, n))
Step(jb, n) == Max({1, LongestBy(jb, n)})
ReachedBy(jb) ==
  LET f[n \in 0 .. (Len(jb.text) - 1)] ==
        \/ n = StartBy(jb, n)
        \/ \E m \in StartBy(jb, n) .. (n - 1) : f[m] /\ n = m + Step(jb, m)
  IN  {n \in 0 .. (Len(jb.text) - 1) : f[n]}

(* A position is reached from the one before it in the greedy parsing.     *)
LEMMA ReachedIs ==
  ASSUME NEW jb \in Jobs, NEW n \in 0 .. (Len(jb.text) - 1)
  PROVE  /\ n \in ReachedBy(jb) <=>
              \/ n = StartBy(jb, n)
              \/ \E m \in StartBy(jb, n) .. (n - 1) : m \in ReachedBy(jb) /\ n = m + Step(jb, m)
         /\ StartBy(jb, n) \in 0 .. n
<1> DEFINE N == Len(jb.text) - 1
           body(g, k) == \/ k = StartBy(jb, k)
                         \/ \E m \in StartBy(jb, k) .. (k - 1) : g[m] /\ k = m + Step(jb, m)
           Def(g) == [k \in 0 .. N |-> body(g, k)]
           step == [v \in (0 .. N) \X [0 .. N -> BOOLEAN] |-> body(v[2], v[1])]
           f == CHOOSE g : g = Def(g)
<1>1. N \in Nat /\ jb.bucket \in Nat \ {0}
  BY JobIs
<1>2. ASSUME NEW k \in 0 .. N PROVE StartBy(jb, k) \in 0 .. k
  <2>1. k % jb.bucket \in 0 .. (jb.bucket - 1) /\ k - (k % jb.bucket) \in Nat
    BY <1>1
  <2> QED
    BY <2>1, <1>1 DEF StartBy
<1> HIDE DEF N
<1>3. ASSUME NEW g, NEW k \in 0 .. N PROVE body(g, k) \in BOOLEAN
  OBVIOUS
<1>4. step \in [(0 .. N) \X [0 .. N -> BOOLEAN] -> BOOLEAN]
  BY <1>3
<1>5. ASSUME NEW k \in 0 .. N, NEW g \in [0 .. N -> BOOLEAN] PROVE step[<<k, g>>] = body(g, k)
  <2> HIDE DEF body
  <2>1. <<k, g>> \in (0 .. N) \X [0 .. N -> BOOLEAN]
    OBVIOUS
  <2> QED
    BY <2>1
<1> HIDE DEF step
<1>6. ASSUME NEW k \in 0 .. N, NEW g \in [0 .. N -> BOOLEAN], NEW h \in [0 .. N -> BOOLEAN],
             \A m \in 0 .. N : m < k => g[m] = h[m]
      PROVE  step[<<k, g>>] = step[<<k, h>>]
  <2>1. \A m \in StartBy(jb, k) .. (k - 1) : m \in 0 .. N /\ m < k
    BY <1>1, <1>2
  <2>2. \A m \in StartBy(jb, k) .. (k - 1) : g[m] = h[m]
    BY <2>1, <1>6
  <2>3. body(g, k) = body(h, k)
    BY <2>2
  <2> HIDE DEF body
  <2> QED
    BY <2>3, <1>5
<1>a. LooksBack(N, BOOLEAN, step)
  <2> HIDE DEF body
  <2> QED
    BY <1>6, Zenon DEF LooksBack
<1>7. PICK g : CourseOf(g, N, BOOLEAN, step)
  BY <1>1, <1>4, <1>a, CourseOn
<1>8. g \in [0 .. N -> BOOLEAN] /\ \A k \in 0 .. N : g[k] = body(g, k)
  BY <1>5, <1>7 DEF CourseOf
<1>9. g = Def(g)
  <2> HIDE DEF body
  <2> QED
    BY <1>8
<1>10. f = Def(f)
  <2> HIDE DEF Def
  <2> QED
    BY <1>9, Zenon
<1>11. \A k \in 0 .. N : f[k] = body(f, k)
  <2> HIDE DEF body, f
  <2> QED
    BY <1>10
<1>12. ReachedBy(jb) = {k \in 0 .. N : f[k]}
  BY DEF ReachedBy, N
<1> HIDE DEF f
<1>13. n \in ReachedBy(jb) <=> body(f, n)
  <2>1. n \in 0 .. N
    BY DEF N
  <2> HIDE DEF body
  <2> QED
    BY <2>1, <1>11, <1>12
<1>14. \A m \in StartBy(jb, n) .. (n - 1) : m \in 0 .. N
  BY <1>1, <1>2 DEF N
<1>15. \A m \in StartBy(jb, n) .. (n - 1) : f[m] <=> m \in ReachedBy(jb)
  BY <1>12, <1>14
<1> QED
  BY <1>2, <1>13, <1>15 DEF N

(* A greedy phrase does not go past the end of its bucket.                 *)
LEMMA StepIs ==
  ASSUME NEW jb \in Jobs, NEW n \in 0 .. (Len(jb.text) - 1)
  PROVE  /\ LongestBy(jb, n) \in Nat
         /\ Step(jb, n) = IF LongestBy(jb, n) = 0 THEN 1 ELSE LongestBy(jb, n)
         /\ Step(jb, n) \in Nat \ {0}
         /\ n + Step(jb, n) <= EndOf(jb, StartBy(jb, n))
<1> DEFINE s == StartBy(jb, n)
           text == BucketOf(jb, s)
           k == n - s
           T == {0} \union {e.ell : e \in Copies(text, k)}
           longest == LongestBy(jb, n)
           r == n % jb.bucket
<1>1. Len(jb.text) \in Nat /\ jb.bucket \in Nat \ {0} /\ n \in Nat /\ n < Len(jb.text)
  BY JobIs
<1>2. s \in 0 .. n /\ s \in 0 .. Len(jb.text)
  BY <1>1, ReachedIs
<1>3. n < s + jb.bucket
  <2>1. r \in 0 .. (jb.bucket - 1)
    BY <1>1
  <2>2. s = n - r
    BY DEF StartBy
  <2> HIDE DEF r, s
  <2> QED
    BY <1>1, <2>1, <2>2
<1>4. /\ EndOf(jb, s) \in Nat /\ Len(text) = EndOf(jb, s) - s /\ Len(text) \in Nat
      /\ n < EndOf(jb, s)
  <2> HIDE DEF s
  <2>1. /\ EndOf(jb, s) \in s .. Len(jb.text)
        /\ EndOf(jb, s) < Len(jb.text) => EndOf(jb, s) = s + jb.bucket
        /\ Len(BucketOf(jb, s)) = EndOf(jb, s) - s
    BY <1>2, BucketIs
  <2> QED
    BY <2>1, <1>1, <1>2, <1>3
<1> HIDE DEF s
<1>5. k \in 0 .. Len(text) /\ Len(text) - k = EndOf(jb, s) - n
  BY <1>1, <1>2, <1>4
<1> HIDE DEF k, text
<1>6. ASSUME NEW e \in Copies(text, k) PROVE e.ell \in Nat \ {0} /\ e.ell <= Len(text) - k
  <2>1. IsCopy(text, k, e)
    BY <1>4, <1>5, CopiesAre
  <2>2. e.ell \in Nat \ {0} /\ k + e.ell <= Len(text)
    BY <2>1, <1>4, <1>5, CopyClasses
  <2> QED
    BY <2>2, <1>4, <1>5
<1>7. T \subseteq Nat /\ T # {} /\ Len(text) - k \in Nat /\ \A x \in T : x <= Len(text) - k
  BY <1>4, <1>5, <1>6
<1> DEFINE b == Len(text) - k
<1> HIDE DEF T
<1>8. PICK m \in T : \A x \in T : x <= m
  <2> HIDE DEF b
  <2> QED
    BY <1>7, LargestOf DEF b
<1>9. Max(T) = m /\ m \in Nat /\ m <= Len(text) - k
  <2>1. T \subseteq Int
    BY <1>7
  <2>2. Max(T) = m
    BY <2>1, <1>8, MaxIs
  <2> QED
    BY <2>2, <1>7
<1>10. longest = Max(T)
  BY DEF LongestBy, LongestIn, T, text, k, s
<1> HIDE DEF longest
<1>11. longest \in Nat /\ longest <= EndOf(jb, s) - n
  BY <1>5, <1>9, <1>10
<1>12. Max({1, longest}) = IF longest = 0 THEN 1 ELSE longest
  <2> DEFINE M == {1, longest}
             x == IF longest = 0 THEN 1 ELSE longest
  <2>1. M \subseteq Int /\ x \in M /\ \A y \in M : y <= x
    BY <1>11
  <2> HIDE DEF M, x
  <2>2. Max(M) = x
    BY <2>1, MaxIs
  <2> QED
    BY <2>2 DEF M, x
<1>13. Step(jb, n) = IF longest = 0 THEN 1 ELSE longest
  BY <1>12 DEF Step, longest
<1> QED
  BY <1>1, <1>4, <1>11, <1>13 DEF longest, s

(* From n on, the next position reached is r.  The positions reached       *)
(* before n go on inside what is behind, or at r.                          *)
Awaits(jb, start, n, r) ==
  /\ r \in n .. EndOf(jb, start)
  /\ r < EndOf(jb, start) => r \in ReachedBy(jb)
  /\ \A m \in start .. (n - 1) : m \in ReachedBy(jb) => m + Step(jb, m) < n \/ m + Step(jb, m) = r

LEMMA AwaitsFirst ==
  ASSUME NEW jb \in Jobs, NEW start \in 0 .. (Len(jb.text) - 1), start % jb.bucket = 0
  PROVE  Awaits(jb, start, start, start)
<1>1. Len(jb.text) \in Nat /\ jb.bucket \in Nat \ {0} /\ start \in 0 .. Len(jb.text)
  BY JobIs
<1>2. start \in start .. EndOf(jb, start)
  BY <1>1, BucketIs
<1>3. start \in ReachedBy(jb)
  <2>1. start = StartBy(jb, start)
    BY <1>1, InMultiple DEF StartBy
  <2> QED
    BY <2>1, ReachedIs
<1> QED
  BY <1>1, <1>2, <1>3 DEF Awaits

(* Inside a bucket, a position is reached when it is the one awaited.      *)
LEMMA AwaitsReached ==
  ASSUME NEW jb \in Jobs, NEW start \in 0 .. Len(jb.text), start % jb.bucket = 0,
         NEW n \in start .. (EndOf(jb, start) - 1), NEW r, Awaits(jb, start, n, r),
         n > start \/ r = start
  PROVE  /\ n \in 0 .. (Len(jb.text) - 1) /\ StartBy(jb, n) = start
         /\ n \in ReachedBy(jb) <=> n = r
<1>1. /\ Len(jb.text) \in Nat /\ jb.bucket \in Nat \ {0} /\ start \in Nat
      /\ EndOf(jb, start) \in start .. Len(jb.text) /\ EndOf(jb, start) <= start + jb.bucket
  BY JobIs, BucketIs
<1>2. n \in 0 .. (Len(jb.text) - 1) /\ n \in Nat /\ start <= n /\ n < start + jb.bucket
  BY <1>1
<1>3. StartBy(jb, n) = start
  BY <1>1, <1>2, InMultiple DEF StartBy
<1>4. n = r => n \in ReachedBy(jb)
  BY <1>1 DEF Awaits
<1>5. ASSUME n # r, n \in ReachedBy(jb) PROVE FALSE
  <2>1. n # start
    <3>1. SUFFICES ASSUME n = start PROVE FALSE
      OBVIOUS
    <3>2. ~ (n > start)
      BY <3>1, <1>1
    <3> QED
      BY <3>1, <3>2, <1>5
  <2>2. PICK m \in start .. (n - 1) : m \in ReachedBy(jb) /\ n = m + Step(jb, m)
    BY <2>1, <1>2, <1>3, <1>5, ReachedIs
  <2>3. n < n \/ n = r
    BY <2>2 DEF Awaits
  <2> QED
    BY <2>3, <1>2, <1>5
<1> QED
  BY <1>2, <1>3, <1>4, <1>5

(* Past a position that is not reached, the same one is awaited.           *)
LEMMA AwaitsOn ==
  ASSUME NEW jb \in Jobs, NEW start \in 0 .. Len(jb.text), start % jb.bucket = 0,
         NEW n \in start .. (EndOf(jb, start) - 1), NEW r, Awaits(jb, start, n, r),
         n > start \/ r = start, n # r
  PROVE  Awaits(jb, start, n + 1, r)
<1>1. n \notin ReachedBy(jb)
  BY AwaitsReached
<1>2. EndOf(jb, start) \in Nat /\ start \in Nat
  BY BucketIs, JobIs
<1>3. r \in (n + 1) .. EndOf(jb, start)
  BY <1>2 DEF Awaits
<1>4. ASSUME NEW m \in start .. ((n + 1) - 1), m \in ReachedBy(jb)
      PROVE  m + Step(jb, m) < n + 1 \/ m + Step(jb, m) = r
  <2>1. m # n /\ m \in start .. (n - 1)
    BY <1>1, <1>2, <1>4
  <2>2. m + Step(jb, m) < n \/ m + Step(jb, m) = r
    BY <2>1, <1>4 DEF Awaits
  <2>3. m + Step(jb, m) < n => m + Step(jb, m) < n + 1
    <3>1. m \in 0 .. (Len(jb.text) - 1)
      BY <1>2, <2>1, BucketIs, JobIs
    <3>2. Step(jb, m) \in Nat
      BY <3>1, StepIs
    <3> QED
      BY <3>1, <3>2, <1>2
  <2> QED
    BY <2>2, <2>3
<1> QED
  BY <1>3, <1>4 DEF Awaits

(* Past a position that is reached, the end of its phrase is awaited.      *)
LEMMA AwaitsNext ==
  ASSUME NEW jb \in Jobs, NEW start \in 0 .. Len(jb.text), start % jb.bucket = 0,
         NEW n \in start .. (EndOf(jb, start) - 1), Awaits(jb, start, n, n)
  PROVE  Awaits(jb, start, n + 1, n + Step(jb, n))
<1> DEFINE r == n + Step(jb, n)
           e == EndOf(jb, start)
<1>1. /\ Len(jb.text) \in Nat /\ jb.bucket \in Nat \ {0} /\ start \in Nat
      /\ e \in start .. Len(jb.text) /\ e <= start + jb.bucket
  BY JobIs, BucketIs
<1>2. n \in 0 .. (Len(jb.text) - 1) /\ n \in Nat /\ start <= n /\ n < start + jb.bucket
  BY <1>1
<1>3. StartBy(jb, n) = start
  BY <1>1, <1>2, InMultiple DEF StartBy
<1>4. n \in ReachedBy(jb)
  BY <1>1, <1>2 DEF Awaits
<1>5. r \in (n + 1) .. e
  <2>1. Step(jb, n) \in Nat \ {0} /\ n + Step(jb, n) <= EndOf(jb, StartBy(jb, n))
    BY <1>2, StepIs
  <2> QED
    BY <2>1, <1>1, <1>2, <1>3
<1>6. r < e => r \in ReachedBy(jb)
  <2> SUFFICES ASSUME r < e PROVE r \in ReachedBy(jb)
    OBVIOUS
  <2>0. r = n + Step(jb, n)
    OBVIOUS
  <2> HIDE DEF r, e
  <2>1. r \in Nat /\ start <= r /\ r < start + jb.bucket /\ r \in 0 .. (Len(jb.text) - 1)
    BY <1>1, <1>2, <1>5
  <2>2. StartBy(jb, r) = start
    BY <2>1, <1>1, InMultiple DEF StartBy
  <2>3. n \in StartBy(jb, r) .. (r - 1)
    BY <2>1, <2>2, <1>2, <1>5, <1>1
  <2> QED
    BY <2>0, <2>1, <2>3, <1>4, ReachedIs
<1>7. ASSUME NEW m \in start .. ((n + 1) - 1), m \in ReachedBy(jb)
      PROVE  m + Step(jb, m) < n + 1 \/ m + Step(jb, m) = r
  <2>1. CASE m = n
    BY <2>1
  <2>2. CASE m # n
    <3>1. m \in start .. (n - 1)
      BY <2>2, <1>1, <1>2
    <3>2. m + Step(jb, m) < n \/ m + Step(jb, m) = n
      BY <3>1, <1>7 DEF Awaits
    <3>3. m \in 0 .. (Len(jb.text) - 1)
      BY <3>1, <1>1, <1>2
    <3>4. Step(jb, m) \in Nat
      BY <3>3, StepIs
    <3> HIDE DEF r
    <3> QED
      BY <3>2, <3>3, <3>4, <1>2
  <2> QED
    BY <2>1, <2>2
<1> HIDE DEF r
<1>8. Awaits(jb, start, n + 1, r)
  BY <1>5, <1>6, <1>7 DEF Awaits
<1> QED
  BY <1>8 DEF r

-------------------------------------------------------------------------------
(* The invariant.  A position is reached by the time parse is at it, the   *)
(* window and penalty are those of that position (of the next one, when    *)
(* the literal run is in), and the edges are those of the bucket.          *)
Working == {"levels", "literal", "relax"}
Seeking == {"visit"} \union Working

Types ==
  /\ job \in Jobs /\ pc \in Phases /\ i \in 0 .. L
  /\ p_cost \in [0 .. L -> Pair \union {Unreached}] /\ parsing \in [0 .. L -> Edge]
  /\ plain \in Edge /\ copy \in Edge /\ max_edges \in Seq(MeshEdge)
  /\ bucket_start \in 0 .. L /\ next \in Nat /\ j \in Nat \ {0} /\ level \in Nat
  /\ cur_idx \in Int /\ cur_idx <= L

CostPart(n, cost) == \A m \in 0 .. n : cost[m] \in Pair

BucketPart(jb, start, n, ph) ==
  /\ start <= n /\ n <= EndOf(jb, start) /\ start % jb.bucket = 0
  /\ ph \in Working => n < EndOf(jb, start)

AheadOf(ph, n) == IF ph = "relax" THEN n + 1 ELSE n
WindowPart(jb, cost, seq, fine, run, ph, n) ==
  ph \in Seeking =>
    /\ fine = RunCost(jb, Len(jb.text) - AheadOf(ph, n))
    /\ WindowOK(jb, cost, seq, AheadOf(ph, n))
    /\ ph = "relax" \/ (ph = "visit" /\ n > 0) => run = Plain(AheadOf(ph, n) - seq[1].position)

MeshPart(jb, start, n, ph, lev, m) ==
  ph = "levels" => /\ lev \in 0 .. Levels(n - start)
                   /\ MeshOK(BucketOf(jb, start), n - start, lev, m)

GivenAt(jb, start, n, es) ==
  IF jb.rightmost
  THEN IF n \in ReachedBy(jb) /\ LongestBy(jb, n) > 0
       THEN Len(es) = 1 /\ es[1] \in NearestIn(BucketOf(jb, start), n - start)
       ELSE es = <<>>
  ELSE Offers(BucketOf(jb, start), n - start, es)
GivenPart(jb, start, n, ph, es) ==
  ph \in {"literal", "relax"} =>
    /\ \A k \in 1 .. Len(es) : GoodEdge(BucketOf(jb, start), n - start, es[k])
    /\ GivenAt(jb, start, n, es)

GreedyPart(jb, start, n, ph, nx) ==
  jb.rightmost =>
    /\ ph \in {"visit", "levels"} => /\ Awaits(jb, start, n, n + Max({0, nx - 1}))
                                     /\ n > start \/ n + Max({0, nx - 1}) = start
    /\ ph \in {"literal", "relax"} => Awaits(jb, start, n + 1, n + Max({1, nx}))

IInv ==
  /\ Types
  /\ CostPart(i, p_cost)
  /\ BucketPart(job, bucket_start, i, pc)
  /\ WindowPart(job, p_cost, increasing_seq, penalty, plain, pc, i)
  /\ MeshPart(job, bucket_start, i, pc, level, mesh)
  /\ GivenPart(job, bucket_start, i, pc, max_edges)
  /\ GreedyPart(job, bucket_start, i, pc, next)

LEMMA TypesAre ==
  ASSUME Types
  PROVE  /\ L = Len(job.text) /\ L \in Nat \ {0} /\ i \in Nat /\ i <= L
         /\ \A n \in 0 .. L : p_cost[n] \in Pair \union {Unreached} /\ parsing[n] \in Edge
         /\ bucket_start \in 0 .. Len(job.text)
         /\ Len(max_edges) \in Nat /\ \A k \in 1 .. Len(max_edges) : max_edges[k] \in MeshEdge
<1>1. L = Len(job.text) /\ L \in Nat \ {0}
  BY JobIs DEF Types, L
<1>2. Len(max_edges) \in Nat /\ \A k \in 1 .. Len(max_edges) : max_edges[k] \in MeshEdge
  BY LenProperties, ElementOfSeq DEF Types
<1>3. \A n \in 0 .. L : p_cost[n] \in Pair \union {Unreached}
  <2>1. p_cost \in [0 .. L -> Pair \union {Unreached}]
    BY DEF Types
  <2> QED
    BY <2>1
<1>4. \A n \in 0 .. L : parsing[n] \in Edge
  <2>1. parsing \in [0 .. L -> Edge]
    BY DEF Types
  <2> QED
    BY <2>1
<1>5. i \in 0 .. L /\ bucket_start \in 0 .. L
  BY DEF Types
<1>6. i \in Nat /\ i <= L /\ bucket_start \in 0 .. Len(job.text)
  BY <1>1, <1>5
<1> QED
  BY <1>1, <1>2, <1>3, <1>4, <1>6

(* Where the text of the generator ends, and where it is in it.            *)
LEMMA BucketSpans ==
  ASSUME Types, BucketPart(job, bucket_start, i, pc)
  PROVE  /\ Bucket = BucketOf(job, bucket_start) /\ Len(Bucket) = EndOf(job, bucket_start) - bucket_start
         /\ Len(Bucket) \in Nat /\ text_pos = i - bucket_start /\ text_pos \in 0 .. Len(Bucket)
         /\ EndOf(job, bucket_start) \in Nat /\ EndOf(job, bucket_start) <= L
         /\ pc \in Working => i < L /\ text_pos < Len(Bucket)
         /\ bucket_start + text_pos = i
<1> DEFINE e == EndOf(job, bucket_start)
<1>1. Bucket = BucketOf(job, bucket_start)
  BY DEF Bucket, BucketOf, EndOf, L
<1>2. /\ e \in bucket_start .. Len(job.text) /\ Len(BucketOf(job, bucket_start)) = e - bucket_start
      /\ job \in Jobs /\ L = Len(job.text) /\ L \in Nat /\ i \in Nat /\ bucket_start \in Nat
  BY TypesAre, BucketIs DEF Types
<1>3. bucket_start <= i /\ i <= e /\ (pc \in Working => i < e)
  BY DEF BucketPart
<1> HIDE DEF e
<1> QED
  BY <1>1, <1>2, <1>3 DEF text_pos, e

LEMMA InitHolds ==
  ASSUME Init
  PROVE  IInv
<1>1. job \in Jobs /\ pc = "visit" /\ i = 0 /\ L = Len(job.text) /\ L \in Nat \ {0}
  BY JobIs DEF Init, L
<1>2. /\ p_cost = [n \in 0 .. L |-> IF n = 0 THEN Zero ELSE Unreached]
      /\ Zero \in Pair /\ p_cost[0] = Zero
  BY <1>1 DEF Init, Zero, Pair
<1>3. Types
  <2>1. p_cost \in [0 .. L -> Pair \union {Unreached}]
    BY <1>2
  <2>2. parsing \in [0 .. L -> Edge] /\ copy \in Edge
    BY <1>1 DEF Init, Invalid, Huge, Edge
  <2>3. plain \in Edge
    BY DEF Init, Plain, Edge
  <2>4. max_edges \in Seq(MeshEdge) /\ next = 1 /\ j = 1 /\ level = 0 /\ cur_idx = 0 /\ bucket_start = 0
    BY DEF Init
  <2> QED
    BY <1>1, <2>1, <2>2, <2>3, <2>4 DEF Types, Phases
<1>4. CostPart(i, p_cost)
  BY <1>1, <1>2 DEF CostPart
<1>5. BucketPart(job, bucket_start, i, pc)
  <2>1. /\ EndOf(job, 0) \in 0 .. Len(job.text) /\ job.bucket \in Nat \ {0} /\ bucket_start = 0
    BY <1>1, BucketIs, JobIs DEF Init
  <2>2. 0 % job.bucket = 0
    BY <2>1
  <2> QED
    BY <1>1, <2>1, <2>2 DEF BucketPart, Working
<1>6. WindowPart(job, p_cost, increasing_seq, penalty, plain, pc, i)
  <2>1. AheadOf(pc, i) = 0 /\ Len(job.text) - 0 = L
    BY <1>1 DEF AheadOf
  <2>2. penalty = RunCost(job, L)
    BY <1>1, PlainIs DEF Init
  <2>3. WindowOK(job, p_cost, <<>>, 0)
    BY DEF WindowOK, InWindow, Mounting, Represented
  <2>4. increasing_seq = <<>>
    BY DEF Init
  <2> QED
    BY <1>1, <2>1, <2>2, <2>3, <2>4 DEF WindowPart
<1>7. MeshPart(job, bucket_start, i, pc, level, mesh) /\ GivenPart(job, bucket_start, i, pc, max_edges)
  BY <1>1 DEF MeshPart, GivenPart
<1>8. GreedyPart(job, bucket_start, i, pc, next)
  <2>1. 0 % job.bucket = 0 /\ 0 \in 0 .. (Len(job.text) - 1)
    BY <1>1, JobIs
  <2>2. Awaits(job, 0, 0, 0)
    BY <1>1, <2>1, AwaitsFirst
  <2>3. Max({0, next - 1}) = 0
    <3>1. next - 1 = 0
      BY DEF Init
    <3>2. {0, next - 1} = {0}
      BY <3>1
    <3> QED
      BY <3>2, MaxIs
  <2>4. i + Max({0, next - 1}) = 0 /\ bucket_start = 0
    BY <1>1, <2>3 DEF Init
  <2> QED
    BY <1>1, <2>2, <2>4 DEF GreedyPart
<1> QED
  BY <1>3, <1>4, <1>5, <1>6, <1>7, <1>8 DEF IInv

LEMMA NextBucketKeeps ==
  ASSUME IInv, NextBucket
  PROVE  IInv'
<1>1. /\ UNCHANGED <<job, pc, i, p_cost, parsing, mesh, level, max_edges, j>>
      /\ UNCHANGED <<increasing_seq, penalty, plain, cur_idx, copy>>
      /\ pc = "visit" /\ i < L /\ text_pos = Len(Bucket) /\ bucket_start' = i /\ next' = 1
  BY DEF NextBucket, literals, flipping
<1>2. Types /\ CostPart(i, p_cost) /\ BucketPart(job, bucket_start, i, pc)
  BY DEF IInv
<1>3. L' = L /\ L = Len(job.text) /\ L \in Nat /\ i \in Nat /\ job \in Jobs /\ bucket_start \in 0 .. Len(job.text)
  BY <1>1, <1>2, TypesAre DEF L, Types
<1>4. Types'
  BY <1>1, <1>2, <1>3 DEF Types
<1>5. i % job.bucket = 0
  <2>1. /\ text_pos = i - bucket_start /\ Len(Bucket) = EndOf(job, bucket_start) - bucket_start
        /\ EndOf(job, bucket_start) \in Nat
    BY <1>2, BucketSpans
  <2>2. i = EndOf(job, bucket_start)
    <3>1. i - bucket_start = EndOf(job, bucket_start) - bucket_start
      BY <1>1, <2>1
    <3>2. bucket_start \in Nat
      BY <1>3
    <3> QED
      BY <3>1, <3>2, <1>3, <2>1
  <2>3. i = bucket_start + job.bucket
    BY <1>1, <1>3, <2>2, BucketIs
  <2>4. bucket_start \in Nat /\ bucket_start % job.bucket = 0 /\ job.bucket \in Nat \ {0}
    BY <1>2, <1>3, JobIs DEF BucketPart
  <2> QED
    BY <2>3, <2>4, NextMultiple
<1>6. i \in 0 .. Len(job.text) /\ i \in 0 .. (Len(job.text) - 1)
  BY <1>1, <1>3
<1>7. BucketPart(job, i, i, pc)
  <2>1. i <= EndOf(job, i) /\ i <= i
    BY <1>3, <1>6, BucketIs
  <2> QED
    BY <1>1, <1>5, <2>1 DEF BucketPart, Working
<1>8. GreedyPart(job, i, i, pc, 1)
  <2>1. Awaits(job, i, i, i)
    BY <1>3, <1>5, <1>6, AwaitsFirst
  <2>2. Max({0, 1 - 1}) = 0
    <3>1. {0, 1 - 1} = {0}
      OBVIOUS
    <3> QED
      BY <3>1, MaxIs
  <2>3. i + Max({0, 1 - 1}) = i
    BY <2>2, <1>3
  <2> QED
    BY <1>1, <2>1, <2>3 DEF GreedyPart
<1>9. WindowPart(job, p_cost, increasing_seq, penalty, plain, pc, i)
  BY DEF IInv
<1>10. MeshPart(job, i, i, pc, level, mesh) /\ GivenPart(job, i, i, pc, max_edges)
  BY <1>1 DEF MeshPart, GivenPart
<1> QED
  BY <1>1, <1>2, <1>4, <1>7, <1>8, <1>9, <1>10 DEF IInv

LEMMA StartEdgesKeeps ==
  ASSUME IInv, StartEdges
  PROVE  IInv'
<1>1. /\ UNCHANGED <<job, i, p_cost, parsing, bucket_start, next, max_edges, j>>
      /\ UNCHANGED <<increasing_seq, penalty, plain, cur_idx, copy>>
      /\ pc = "visit" /\ i < L /\ text_pos < Len(Bucket) /\ pc' = "levels" /\ mesh' = Reset /\ level' = 0
  BY DEF StartEdges, literals, flipping
<1>2. /\ Types /\ CostPart(i, p_cost) /\ BucketPart(job, bucket_start, i, pc)
      /\ WindowPart(job, p_cost, increasing_seq, penalty, plain, pc, i)
      /\ GreedyPart(job, bucket_start, i, pc, next)
  BY DEF IInv
<1>3. L' = L
  BY <1>1 DEF L
<1>4. Types'
  BY <1>1, <1>2, <1>3 DEF Types, Phases
<1>5. BucketPart(job, bucket_start, i, "levels")
  <2>1. i \in Nat /\ bucket_start \in Nat
    BY <1>2, TypesAre
  <2>2. i < EndOf(job, bucket_start)
    BY <1>1, <1>2, <2>1, BucketSpans
  <2> QED
    BY <1>2, <2>2 DEF BucketPart
<1>6. WindowPart(job, p_cost, increasing_seq, penalty, plain, "levels", i)
  <2>1. AheadOf(pc, i) = i /\ AheadOf("levels", i) = i
    BY <1>1 DEF AheadOf
  <2> QED
    BY <1>1, <1>2, <2>1 DEF WindowPart, Seeking, Working
<1>7. MeshPart(job, bucket_start, i, "levels", 0, Reset)
  <2>1. Levels(i - bucket_start) \in Nat
    <3>1. i - bucket_start \in Nat
      BY <1>2, BucketSpans
    <3> QED
      BY <3>1, LevelsAre
  <2> QED
    BY <2>1, MeshStart DEF MeshPart
<1>8. GivenPart(job, bucket_start, i, "levels", max_edges)
  BY DEF GivenPart
<1>9. GreedyPart(job, bucket_start, i, "levels", next)
  BY <1>1, <1>2 DEF GreedyPart
<1> QED
  BY <1>1, <1>2, <1>4, <1>5, <1>6, <1>7, <1>8, <1>9 DEF IInv

LEMMA NextLevelKeeps ==
  ASSUME IInv, NextLevel
  PROVE  IInv'
<1>1. /\ UNCHANGED <<job, pc, i, p_cost, parsing, bucket_start, next, max_edges, j>>
      /\ UNCHANGED <<increasing_seq, penalty, plain, cur_idx, copy>>
      /\ pc = "levels" /\ MoreLevels /\ level' = level + 1
      /\ \E match \in MaxMatch(Bucket, text_pos, level + 1) : mesh' = Level(mesh, match)
  BY DEF NextLevel, literals, flipping
<1>2. /\ Types /\ CostPart(i, p_cost) /\ BucketPart(job, bucket_start, i, pc)
      /\ WindowPart(job, p_cost, increasing_seq, penalty, plain, pc, i)
      /\ MeshPart(job, bucket_start, i, pc, level, mesh)
      /\ GivenPart(job, bucket_start, i, pc, max_edges)
      /\ GreedyPart(job, bucket_start, i, pc, next)
  BY DEF IInv
<1>3. L' = L
  BY <1>1 DEF L
<1>4. Types'
  BY <1>1, <1>2, <1>3 DEF Types
<1>5. MeshPart(job, bucket_start, i, "levels", level + 1, mesh')
  <2>1. /\ Bucket = BucketOf(job, bucket_start) /\ text_pos = i - bucket_start
        /\ Len(Bucket) \in Nat /\ text_pos \in 0 .. Len(Bucket)
    BY <1>2, BucketSpans
  <2>2. level \in 0 .. Levels(text_pos) /\ MeshOK(Bucket, text_pos, level, mesh)
    BY <1>1, <1>2, <2>1 DEF MeshPart
  <2>3. Levels(text_pos) \in 1 .. Len(Dst) /\ Len(Dst) \in Nat
    BY <2>1, LevelsAre, ClassesAssumption, ClassesIncrease
  <2>4. ~ mesh.stopped /\ level < Levels(text_pos)
    BY <1>1 DEF MoreLevels
  <2>5. level \in 0 .. (Len(Dst) - 1) /\ level + 1 \in 0 .. Levels(text_pos)
    BY <2>2, <2>3, <2>4
  <2>6. PICK match \in MaxMatch(Bucket, text_pos, level + 1) : mesh' = Level(mesh, match)
    BY <1>1
  <2>7. MeshOK(Bucket, text_pos, level + 1, Level(mesh, match))
    BY <2>1, <2>2, <2>4, <2>5, MeshStep
  <2> QED
    BY <2>1, <2>5, <2>6, <2>7 DEF MeshPart
<1> QED
  BY <1>1, <1>2, <1>4, <1>5 DEF IInv

LEMMA MaxTwo ==
  ASSUME NEW x \in Int, NEW y \in Int
  PROVE  Max({x, y}) = IF x <= y THEN y ELSE x
<1> DEFINE S == {x, y}
           m == IF x <= y THEN y ELSE x
<1>1. S \subseteq Int /\ m \in S /\ \A z \in S : z <= m
  OBVIOUS
<1> HIDE DEF S, m
<1>2. Max(S) = m
  BY <1>1, MaxIs
<1> QED
  BY <1>2 DEF S, m

(* What generate_edges leaves when it stops.                               *)
LEMMA MeshGives ==
  ASSUME Types, BucketPart(job, bucket_start, i, pc), MeshPart(job, bucket_start, i, pc, level, mesh),
         pc = "levels", ~ MoreLevels
  PROVE  /\ mesh.edges \in Seq(MeshEdge)
         /\ Offers(BucketOf(job, bucket_start), i - bucket_start, mesh.edges)
         /\ \A k \in 1 .. Len(mesh.edges) :
              GoodEdge(BucketOf(job, bucket_start), i - bucket_start, mesh.edges[k])
<1>1. /\ Bucket = BucketOf(job, bucket_start) /\ text_pos = i - bucket_start
      /\ Len(Bucket) \in Nat /\ text_pos \in 0 .. Len(Bucket)
  BY BucketSpans
<1>2. level \in 0 .. Levels(text_pos) /\ MeshOK(Bucket, text_pos, level, mesh)
  BY <1>1 DEF MeshPart
<1>3. Levels(text_pos) \in Nat
  BY <1>1, LevelsAre, ClassesAssumption, ClassesIncrease
<1>4. mesh.stopped \/ level = Levels(text_pos)
  BY <1>2, <1>3 DEF MoreLevels
<1>5. mesh.edges \in Seq(MeshEdge)
  BY <1>2 DEF MeshOK, MeshType
<1>6. Offers(Bucket, text_pos, mesh.edges)
  BY <1>1, <1>2, <1>4, MeshOffers
<1>7. DOMAIN mesh.edges = 1 .. Len(mesh.edges)
  BY <1>5, LenProperties
<1>8. \A k \in 1 .. Len(mesh.edges) : GoodEdge(Bucket, text_pos, mesh.edges[k])
  BY <1>6, <1>7 DEF Offers, GoodEdge
<1> QED
  BY <1>1, <1>5, <1>6, <1>8

LEMMA GiveEdgesKeeps ==
  ASSUME IInv, GiveEdges
  PROVE  IInv'
<1>1. /\ UNCHANGED <<job, i, p_cost, parsing, mesh, level, bucket_start, next, j>>
      /\ UNCHANGED <<increasing_seq, penalty, plain, cur_idx, copy>>
      /\ pc = "levels" /\ ~ MoreLevels /\ ~ job.rightmost /\ max_edges' = mesh.edges /\ pc' = "literal"
  BY DEF GiveEdges, literals, flipping
<1>2. /\ Types /\ CostPart(i, p_cost) /\ BucketPart(job, bucket_start, i, pc)
      /\ WindowPart(job, p_cost, increasing_seq, penalty, plain, pc, i)
      /\ MeshPart(job, bucket_start, i, pc, level, mesh)
  BY DEF IInv
<1>3. L' = L
  BY <1>1 DEF L
<1>4. /\ mesh.edges \in Seq(MeshEdge)
      /\ Offers(BucketOf(job, bucket_start), i - bucket_start, mesh.edges)
      /\ \A k \in 1 .. Len(mesh.edges) :
           GoodEdge(BucketOf(job, bucket_start), i - bucket_start, mesh.edges[k])
  BY <1>1, <1>2, MeshGives
<1>5. Types'
  BY <1>1, <1>2, <1>3, <1>4 DEF Types, Phases
<1>6. BucketPart(job, bucket_start, i, "literal")
  BY <1>1, <1>2 DEF BucketPart, Working
<1>7. WindowPart(job, p_cost, increasing_seq, penalty, plain, "literal", i)
  <2>1. AheadOf(pc, i) = i /\ AheadOf("literal", i) = i
    BY <1>1 DEF AheadOf
  <2> QED
    BY <1>1, <1>2, <2>1 DEF WindowPart, Seeking, Working
<1>8. MeshPart(job, bucket_start, i, "literal", level, mesh)
  BY DEF MeshPart
<1>9. GivenPart(job, bucket_start, i, "literal", mesh.edges)
  BY <1>1, <1>4 DEF GivenPart, GivenAt
<1>10. GreedyPart(job, bucket_start, i, "literal", next)
  BY <1>1 DEF GreedyPart
<1> QED
  BY <1>1, <1>2, <1>5, <1>6, <1>7, <1>8, <1>9, <1>10 DEF IInv

(* What rm_protocol gives, and what it awaits after it.                    *)
LEMMA RightmostGives ==
  ASSUME IInv, GiveRightmost
  PROVE  /\ next' \in Nat /\ max_edges' \in Seq(MeshEdge)
         /\ GivenPart(job, bucket_start, i, "literal", max_edges')
         /\ GreedyPart(job, bucket_start, i, "literal", next')
<1> DEFINE start == bucket_start
           text == BucketOf(job, bucket_start)
           at == i - bucket_start
           es == mesh.edges
           top == LongestEdge(es)
           r == i + Max({0, next - 1})
<1>1. /\ pc = "levels" /\ ~ MoreLevels /\ job.rightmost
      /\ next' = IF next > 1 \/ es = <<>> THEN Max({0, next - 1}) ELSE Candidate.ell
      /\ max_edges' = IF next > 1 \/ es = <<>> THEN <<>> ELSE <<Candidate>>
  BY DEF GiveRightmost
<1>2. /\ Types /\ BucketPart(job, bucket_start, i, pc)
      /\ MeshPart(job, bucket_start, i, pc, level, mesh)
      /\ GreedyPart(job, bucket_start, i, pc, next)
  BY DEF IInv
<1>3. /\ mesh.edges \in Seq(MeshEdge)
      /\ Offers(BucketOf(job, bucket_start), i - bucket_start, mesh.edges)
      /\ \A k \in 1 .. Len(mesh.edges) :
           GoodEdge(BucketOf(job, bucket_start), i - bucket_start, mesh.edges[k])
  BY <1>1, <1>2, MeshGives
<1>4. Candidate = top
  BY DEF Candidate, LongestEdge
<1>5. /\ job \in Jobs /\ start \in 0 .. Len(job.text) /\ start % job.bucket = 0 /\ next \in Nat
      /\ i \in Nat /\ i \in start .. (EndOf(job, start) - 1)
      /\ Len(text) \in Nat /\ at \in 0 .. Len(text)
  <2>1. job \in Jobs /\ start \in 0 .. Len(job.text) /\ start % job.bucket = 0 /\ next \in Nat /\ i \in Nat
    BY <1>2, TypesAre DEF Types, BucketPart
  <2>2. start <= i /\ i < EndOf(job, start)
    BY <1>1, <1>2 DEF BucketPart, Working
  <2>3. EndOf(job, start) \in Nat /\ start \in Nat
    BY <1>2, <2>1, BucketSpans
  <2>4. Len(text) \in Nat /\ at \in 0 .. Len(text)
    BY <1>2, BucketSpans
  <2> QED
    BY <2>1, <2>2, <2>3, <2>4
<1>6. Awaits(job, start, i, r) /\ (i > start \/ r = start)
  BY <1>1, <1>2 DEF GreedyPart
<1>7. /\ i \in 0 .. (Len(job.text) - 1) /\ StartBy(job, i) = start
      /\ i \in ReachedBy(job) <=> i = r
  BY <1>5, <1>6, AwaitsReached
<1>8. LongestBy(job, i) = LongestIn(text, at)
  BY <1>7 DEF LongestBy
<1>9. LastEdge(text, at, es)
  BY <1>3, <1>5, LastIsLongest
<1>10. /\ LongestBy(job, i) \in Nat /\ Step(job, i) \in Nat
       /\ Step(job, i) = IF LongestBy(job, i) = 0 THEN 1 ELSE LongestBy(job, i)
  BY <1>5, <1>7, StepIs
<1> HIDE DEF start, text, at, es, top
<1>11. Max({0, next - 1}) = IF next > 1 THEN next - 1 ELSE 0
  <2>1. Max({0, next - 1}) = IF 0 <= next - 1 THEN next - 1 ELSE 0
    BY <1>5, MaxTwo
  <2> QED
    BY <2>1, <1>5
<1>12. \A n \in Nat : Max({1, n}) = IF n = 0 THEN 1 ELSE n
  <2> TAKE n \in Nat
  <2>1. Max({1, n}) = IF 1 <= n THEN n ELSE 1
    BY MaxTwo
  <2> QED
    BY <2>1
<1>13. <<>> \in Seq(MeshEdge) /\ Len(<<>>) = 0
  OBVIOUS
<1>14. CASE next > 1
  <2>1. r = i + (next - 1) /\ next' = next - 1 /\ max_edges' = <<>>
    BY <1>1, <1>11, <1>14
  <2> HIDE DEF r
  <2>2. r # i /\ next' \in Nat /\ next' # 0 /\ r = i + next'
    BY <1>5, <1>14, <2>1
  <2>3. i \notin ReachedBy(job)
    BY <1>7, <2>2
  <2>4. Awaits(job, start, i + 1, r)
    BY <1>5, <1>6, <2>2, AwaitsOn
  <2>5. Max({1, next'}) = next'
    BY <1>12, <2>2
  <2>6. GreedyPart(job, bucket_start, i, "literal", next')
    BY <2>2, <2>4, <2>5 DEF GreedyPart, start
  <2>7. GivenPart(job, bucket_start, i, "literal", <<>>)
    BY <1>1, <1>13, <2>3 DEF GivenPart, GivenAt
  <2> QED
    BY <1>13, <2>1, <2>2, <2>6, <2>7
<1>15. CASE ~ (next > 1)
  <2>1. r = i
    BY <1>5, <1>11, <1>15
  <2>2. i \in ReachedBy(job)
    BY <1>7, <2>1
  <2>3. Awaits(job, start, i + 1, i + Step(job, i))
    BY <1>5, <1>6, <2>1, AwaitsNext
  <2>4. CASE es = <<>>
    <3>1. next' = 0 /\ max_edges' = <<>>
      BY <1>1, <1>11, <1>15, <2>4
    <3>2. LongestBy(job, i) = 0
      BY <1>8, <1>9, <2>4 DEF LastEdge
    <3>3. Step(job, i) = 1 /\ Max({1, 0}) = 1
      BY <1>10, <1>12, <3>2
    <3>4. GreedyPart(job, bucket_start, i, "literal", 0)
      BY <2>3, <3>3 DEF GreedyPart, start
    <3>5. GivenPart(job, bucket_start, i, "literal", <<>>)
      BY <1>1, <1>13, <3>2 DEF GivenPart, GivenAt
    <3> QED
      BY <1>13, <3>1, <3>4, <3>5
  <2>5. CASE es # <<>>
    <3>1. next' = top.ell /\ max_edges' = <<top>>
      BY <1>1, <1>4, <1>15, <2>5
    <3>2. /\ top \in NearestIn(text, at) /\ top.ell = LongestBy(job, i)
          /\ LongestBy(job, i) > 0 /\ \E k \in 1 .. Len(es) : top = es[k]
      <4>1. /\ top \in NearestIn(text, at) /\ top.ell = LongestIn(text, at)
            /\ LongestIn(text, at) \in 1 .. (Len(text) - at)
            /\ \E k \in 1 .. Len(es) : top = es[k]
        BY <1>9, <2>5 DEF LastEdge, top
      <4> QED
        BY <4>1, <1>8, <1>10
    <3>3. PICK k \in 1 .. Len(es) : top = es[k]
      BY <3>2
    <3>4. top \in MeshEdge /\ GoodEdge(text, at, top)
      BY <1>3, <3>3, ElementOfSeq DEF es, text, at
    <3>5. <<top>> \in Seq(MeshEdge) /\ Len(<<top>>) = 1 /\ <<top>>[1] = top
      BY <3>4
    <3>6. Step(job, i) = top.ell /\ top.ell \in Nat /\ Max({1, top.ell}) = top.ell
      BY <1>10, <1>12, <3>2
    <3>7. GreedyPart(job, bucket_start, i, "literal", top.ell)
      BY <2>3, <3>6 DEF GreedyPart, start
    <3>8. GivenPart(job, bucket_start, i, "literal", <<top>>)
      <4>1. \A q \in 1 .. Len(<<top>>) : GoodEdge(text, at, <<top>>[q])
        BY <3>4, <3>5
      <4>2. GivenAt(job, bucket_start, i, <<top>>)
        BY <1>1, <2>2, <3>2, <3>5 DEF GivenAt, text, at
      <4> QED
        BY <4>1, <4>2 DEF GivenPart, text, at
    <3> QED
      BY <3>1, <3>5, <3>6, <3>7, <3>8
  <2> QED
    BY <2>4, <2>5
<1> QED
  BY <1>14, <1>15

LEMMA GiveRightmostKeeps ==
  ASSUME IInv, GiveRightmost
  PROVE  IInv'
<1>1. /\ UNCHANGED <<job, i, p_cost, parsing, mesh, level, bucket_start, j>>
      /\ UNCHANGED <<increasing_seq, penalty, plain, cur_idx, copy>>
      /\ pc = "levels" /\ pc' = "literal"
  BY DEF GiveRightmost, literals, flipping
<1>2. /\ Types /\ CostPart(i, p_cost) /\ BucketPart(job, bucket_start, i, pc)
      /\ WindowPart(job, p_cost, increasing_seq, penalty, plain, pc, i)
  BY DEF IInv
<1>3. L' = L
  BY <1>1 DEF L
<1>4. /\ next' \in Nat /\ max_edges' \in Seq(MeshEdge)
      /\ GivenPart(job, bucket_start, i, "literal", max_edges')
      /\ GreedyPart(job, bucket_start, i, "literal", next')
  BY RightmostGives
<1>5. Types'
  BY <1>1, <1>2, <1>3, <1>4 DEF Types, Phases
<1>6. BucketPart(job, bucket_start, i, "literal")
  BY <1>1, <1>2 DEF BucketPart, Working
<1>7. WindowPart(job, p_cost, increasing_seq, penalty, plain, "literal", i)
  <2>1. AheadOf(pc, i) = i /\ AheadOf("literal", i) = i
    BY <1>1 DEF AheadOf
  <2> QED
    BY <1>1, <1>2, <2>1 DEF WindowPart, Seeking, Working
<1>8. MeshPart(job, bucket_start, i, "literal", level, mesh)
  BY DEF MeshPart
<1> QED
  BY <1>1, <1>2, <1>4, <1>5, <1>6, <1>7, <1>8 DEF IInv

(* A literal more costs the variable cost of a literal more.               *)
LEMMA PenaltyFalls ==
  ASSUME job \in Jobs, NEW n \in Nat
  PROVE  Minus(RunCost(job, n + 1), Delta) = RunCost(job, n)
<1> DEFINE c == job.cost.lit_var
           v == job.weight.lit_var
           fc == job.cost.lit_fixed
           fw == job.weight.lit_fixed
           nc == n * c
           nv == n * v
<1>1. c \in Nat /\ v \in Nat /\ fc \in Nat /\ fw \in Nat
  BY JobIs DEF Model
<1>2. Delta = Minus(RunCost(job, 1), RunCost(job, 0))
  BY PlainIs DEF Delta
<1>3. RunCost(job, 1) = [cost |-> fc + 1 * c, weight |-> fw + 1 * v]
  BY DEF RunCost
<1>4. RunCost(job, 0) = [cost |-> fc + 0 * c, weight |-> fw + 0 * v]
  BY DEF RunCost
<1>5. RunCost(job, n) = [cost |-> fc + n * c, weight |-> fw + n * v]
  BY DEF RunCost
<1>6. RunCost(job, n + 1) = [cost |-> fc + (n + 1) * c, weight |-> fw + (n + 1) * v]
  BY DEF RunCost
<1> HIDE DEF c, v, fc, fw
<1>7. 1 * c = c /\ 0 * c = 0 /\ 1 * v = v /\ 0 * v = 0
  BY <1>1
<1>8. (n + 1) * c = nc + c /\ (n + 1) * v = nv + v /\ nc \in Nat /\ nv \in Nat
  BY <1>1
<1>9. Delta = [cost |-> c, weight |-> v]
  <2>1. Delta = [cost |-> (fc + c) - (fc + 0), weight |-> (fw + v) - (fw + 0)]
    BY <1>2, <1>3, <1>4, <1>7 DEF Minus
  <2>2. (fc + c) - (fc + 0) = c /\ (fw + v) - (fw + 0) = v
    BY <1>1
  <2> QED
    BY <2>1, <2>2
<1> HIDE DEF nc, nv
<1>10. RunCost(job, n + 1) = [cost |-> fc + (nc + c), weight |-> fw + (nv + v)]
  BY <1>6, <1>8
<1>11. RunCost(job, n) = [cost |-> fc + nc, weight |-> fw + nv]
  BY <1>5 DEF nc, nv
<1>12. Minus(RunCost(job, n + 1), Delta) = [cost |-> (fc + (nc + c)) - c, weight |-> (fw + (nv + v)) - v]
  BY <1>9, <1>10 DEF Minus
<1>13. (fc + (nc + c)) - c = fc + nc /\ (fw + (nv + v)) - v = fw + nv
  BY <1>1, <1>8
<1> QED
  BY <1>11, <1>12, <1>13

LEMMA InsertLiteralKeeps ==
  ASSUME IInv, InsertLiteral
  PROVE  IInv'
<1> DEFINE seq == Update(increasing_seq, Plus(p_cost[i], penalty))
           ahead == i + 1
<1>1. /\ UNCHANGED <<job, i, p_cost, parsing, mesh, level, bucket_start, next, max_edges>>
      /\ UNCHANGED <<cur_idx, copy>>
      /\ pc = "literal" /\ pc' = "relax" /\ j' = 1
      /\ increasing_seq' = seq /\ plain' = LiteralEdge(seq) /\ penalty' = Minus(penalty, Delta)
  BY DEF InsertLiteral, edges, flipping
<1>2. /\ Types /\ CostPart(i, p_cost) /\ BucketPart(job, bucket_start, i, pc)
      /\ WindowPart(job, p_cost, increasing_seq, penalty, plain, pc, i)
      /\ GivenPart(job, bucket_start, i, pc, max_edges)
      /\ GreedyPart(job, bucket_start, i, pc, next)
  BY DEF IInv
<1>3. /\ L' = L /\ L = Len(job.text) /\ L \in Nat /\ i \in Nat /\ i < L /\ job \in Jobs
      /\ ahead \in 1 .. Len(job.text) /\ \A p \in 0 .. i : p_cost[p] \in Pair
  <2>1. L' = L /\ L = Len(job.text) /\ L \in Nat /\ i \in Nat /\ job \in Jobs
    BY <1>1, <1>2, TypesAre DEF L, Types
  <2>2. i < L
    BY <1>1, <1>2, BucketSpans DEF Working
  <2> QED
    BY <1>2, <2>1, <2>2 DEF CostPart
<1>4. penalty = RunCost(job, L - i) /\ WindowOK(job, p_cost, increasing_seq, i)
  <2>1. AheadOf(pc, i) = i
    BY <1>1 DEF AheadOf
  <2> QED
    BY <1>1, <1>2, <1>3, <2>1 DEF WindowPart, Seeking, Working
<1>5. WindowOK(job, p_cost, seq, ahead)
  <2>1. Plus(p_cost[i], penalty) = At(job, p_cost, i)
    BY <1>3, <1>4 DEF At
  <2>2. i \in 0 .. (L - 1)
    BY <1>3
  <2>3. WindowOK(job, p_cost, Update(increasing_seq, At(job, p_cost, i)), i + 1)
    BY <1>3, <1>4, <2>2, WindowMoves
  <2> QED
    BY <2>1, <2>3
<1> HIDE DEF seq
<1>6. Picks(job, p_cost, seq, ahead, ahead - seq[1].position)
  <2>1. \A p \in 0 .. (ahead - 1) : p_cost[p] \in Pair
    BY <1>3
  <2> HIDE DEF ahead
  <2> QED
    BY <1>3, <1>5, <2>1, WindowPicks
<1>7. plain' = Plain(ahead - seq[1].position)
  <2>1. seq \in Seq(Element) /\ seq # <<>>
    BY <1>5, <1>6 DEF WindowOK, Picks
  <2>2. Head(seq) = seq[1]
    BY <2>1
  <2>3. plain' = Plain(i + (1 - Head(seq).position))
    BY <1>1 DEF LiteralEdge
  <2>4. seq[1].position \in Nat
    <3>1. Len(seq) \in Nat \ {0}
      BY <2>1, EmptySeq
    <3>2. 1 \in 1 .. Len(seq)
      BY <3>1
    <3>3. seq[1] \in Element
      BY <2>1, <3>2, ElementOfSeq
    <3> QED
      BY <3>3 DEF Element
  <2>5. i + (1 - seq[1].position) = ahead - seq[1].position
    BY <1>3, <2>4
  <2> HIDE DEF ahead
  <2> QED
    BY <2>2, <2>3, <2>5
<1>8. plain' \in Edge
  <2>1. ahead - seq[1].position \in Nat
    BY <1>3, <1>6, JobIs DEF Picks
  <2> QED
    BY <1>7, <2>1 DEF Plain, Edge
<1>9. penalty' = RunCost(job, Len(job.text) - ahead)
  <2>1. L - ahead \in Nat /\ (L - ahead) + 1 = L - i
    BY <1>3
  <2> DEFINE n == L - ahead
  <2> HIDE DEF n
  <2>2. n \in Nat /\ RunCost(job, n + 1) = penalty
    BY <1>4, <2>1 DEF n
  <2>3. Minus(RunCost(job, n + 1), Delta) = RunCost(job, n)
    BY <1>3, <2>2, PenaltyFalls
  <2> QED
    BY <1>1, <1>3, <2>2, <2>3 DEF n
<1>10. Types'
  BY <1>1, <1>2, <1>3, <1>8 DEF Types, Phases
<1>11. BucketPart(job, bucket_start, i, "relax")
  BY <1>1, <1>2 DEF BucketPart, Working
<1>12. WindowPart(job, p_cost, seq, penalty', plain', "relax", i)
  <2>1. AheadOf("relax", i) = ahead
    BY DEF AheadOf
  <2> QED
    BY <1>5, <1>7, <1>9, <2>1 DEF WindowPart
<1>13. MeshPart(job, bucket_start, i, "relax", level, mesh)
  BY DEF MeshPart
<1>14. GivenPart(job, bucket_start, i, "relax", max_edges) /\ GreedyPart(job, bucket_start, i, "relax", next)
  BY <1>1, <1>2 DEF GivenPart, GreedyPart
<1> QED
  BY <1>1, <1>2, <1>10, <1>11, <1>12, <1>13, <1>14 DEF IInv

(* What an edge costs, of those a position is given.                       *)
LEMMA CopyCostIs ==
  ASSUME NEW model \in Model, NEW x \in 0 .. (Len(Dst) - 1), NEW a \in 0 .. (Len(Lens) - 1)
  PROVE  /\ CopyCost(model, Wrap(a, x)) = model.copy[x + 1][a + 1]
         /\ CopyCost(model, Wrap(a, x)) \in Nat
<1> DEFINE w == Width(Len(Lens))
           id == Wrap(a, x)
<1>1. Len(Lens) \in Nat \ {0} /\ Len(Dst) \in Nat
  BY LastLen, ClassesAssumption, ClassesIncrease
<1>2. w \in Nat \ {0} /\ Len(Lens) <= w
  BY <1>1, WidthSuffices
<1>3. a \in Nat /\ x \in Nat /\ a < w
  BY <1>1, <1>2
<1>4. id = x * w + a /\ id \in Nat
  BY <1>3, WrapIs
<1> HIDE DEF w, id
<1>5. id \div w = x /\ id % w = a
  <2> DEFINE q == id \div w
             r == id % w
  <2>1. q \in Nat /\ r \in 0 .. (w - 1) /\ id = w * q + r
    BY <1>2, <1>4
  <2>2. id = w * x + a
    BY <1>2, <1>3, <1>4
  <2> HIDE DEF q, r
  <2>3. q = x
    <3>1. ASSUME q < x PROVE FALSE
      <4>1. x - q - 1 \in Nat /\ x = q + 1 + (x - q - 1)
        BY <1>3, <2>1, <3>1
      <4>2. PICK e \in Nat : x = q + 1 + e
        BY <4>1
      <4>3. w * (q + 1 + e) = w * q + w + w * e
        BY <1>2, <2>1
      <4>4. w * e \in Nat /\ w * q \in Nat
        BY <1>2, <2>1
      <4> QED
        BY <1>2, <1>3, <2>1, <2>2, <4>2, <4>3, <4>4
    <3>2. ASSUME x < q PROVE FALSE
      <4>1. q - x - 1 \in Nat /\ q = x + 1 + (q - x - 1)
        BY <1>3, <2>1, <3>2
      <4>2. PICK e \in Nat : q = x + 1 + e
        BY <4>1
      <4>3. w * (x + 1 + e) = w * x + w + w * e
        BY <1>2, <1>3
      <4>4. w * e \in Nat /\ w * x \in Nat
        BY <1>2, <1>3
      <4> QED
        BY <1>2, <1>3, <2>1, <2>2, <4>2, <4>3, <4>4
    <3> QED
      BY <3>1, <3>2, <1>3, <2>1
  <2>4. r = a
    <3>1. w * x \in Nat
      BY <1>2, <1>3
    <3> QED
      BY <3>1, <1>3, <2>1, <2>2, <2>3
  <2> QED
    BY <2>3, <2>4 DEF q, r
<1>6. CopyCost(model, id) = model.copy[x + 1][a + 1]
  BY <1>5 DEF CopyCost, w
<1>7. x + 1 \in 1 .. Len(Dst) /\ a + 1 \in 1 .. Len(Lens)
  BY <1>1
<1>8. model.copy \in [1 .. Len(Dst) -> [1 .. Len(Lens) -> Nat]]
  BY DEF Model
<1>9. model.copy[x + 1] \in [1 .. Len(Lens) -> Nat]
  BY <1>7, <1>8
<1> QED
  BY <1>6, <1>7, <1>9 DEF id

ValueBy(jb, e) == [cost |-> EdgeCost(jb.cost, e), weight |-> EdgeCost(jb.weight, e)]
LEMMA CopyValue ==
  ASSUME NEW jb \in Jobs, NEW text, Len(text) \in Nat, NEW n \in 0 .. Len(text), NEW e, GoodEdge(text, n, e)
  PROVE  /\ ValueBy(jb, e) \in Pair /\ e.ell \in Nat \ {0} /\ n + e.ell <= Len(text)
         /\ ValueBy(jb, e) = [cost   |-> jb.cost.copy[LowerBound(Dst, e.d) + 1][LowerBound(Lens, e.ell) + 1],
                        weight |-> jb.weight.copy[LowerBound(Dst, e.d) + 1][LowerBound(Lens, e.ell) + 1]]
<1> DEFINE x == LowerBound(Dst, e.d)
           a == LowerBound(Lens, e.ell)
<1>1. /\ e.d \in Nat \ {0} /\ e.ell \in Nat \ {0} /\ n + e.ell <= Len(text)
      /\ x \in 0 .. (Len(Dst) - 1) /\ a \in 0 .. (Len(Lens) - 1)
  BY CopyClasses DEF GoodEdge
<1>2. e.cost_id = Wrap(a, x) /\ e.d > 0
  BY <1>1 DEF GoodEdge, GetId
<1> HIDE DEF x, a
<1>3. jb.cost \in Model /\ jb.weight \in Model
  BY JobIs
<1>4. /\ CopyCost(jb.cost, Wrap(a, x)) = jb.cost.copy[x + 1][a + 1]
      /\ CopyCost(jb.cost, Wrap(a, x)) \in Nat
  BY <1>1, <1>3, CopyCostIs
<1>5. /\ CopyCost(jb.weight, Wrap(a, x)) = jb.weight.copy[x + 1][a + 1]
      /\ CopyCost(jb.weight, Wrap(a, x)) \in Nat
  BY <1>1, <1>3, CopyCostIs
<1>6. ValueBy(jb, e) = [cost |-> CopyCost(jb.cost, Wrap(a, x)), weight |-> CopyCost(jb.weight, Wrap(a, x))]
  BY <1>2 DEF ValueBy, EdgeCost, IsRegular
<1> QED
  BY <1>1, <1>4, <1>5, <1>6 DEF Pair, x, a

(* Relaxing an edge reaches the position it leads to, no worse than before *)
(* nor than by that edge, and leaves the others.                           *)
LEMMA RelaxIs ==
  ASSUME Types, NEW from \in 0 .. L, p_cost[from] \in Pair, NEW e \in Edge, Value(e) \in Pair,
         from + e.ell \in 0 .. L, Relax(from, e)
  PROVE  /\ p_cost' \in [0 .. L -> Pair \union {Unreached}] /\ parsing' \in [0 .. L -> Edge]
         /\ p_cost'[from + e.ell] \in Pair
         /\ \A n \in 0 .. L : n # from + e.ell => p_cost'[n] = p_cost[n] /\ parsing'[n] = parsing[n]
         /\ IF Less(Plus(p_cost[from], Value(e)), p_cost[from + e.ell])
            THEN p_cost'[from + e.ell] = Plus(p_cost[from], Value(e)) /\ parsing'[from + e.ell] = e
            ELSE /\ p_cost[from + e.ell] \in Pair
                 /\ p_cost'[from + e.ell] = p_cost[from + e.ell] /\ parsing'[from + e.ell] = parsing[from + e.ell]
<1> DEFINE new == Plus(p_cost[from], Value(e))
           to == from + e.ell
<1>1. new \in Pair
  BY LessPlus
<1>2. /\ p_cost \in [0 .. L -> Pair \union {Unreached}] /\ parsing \in [0 .. L -> Edge]
  BY DEF Types
<1>3. IF Less(new, p_cost[to])
      THEN p_cost' = [p_cost EXCEPT ![to] = new] /\ parsing' = [parsing EXCEPT ![to] = e]
      ELSE p_cost' = p_cost /\ parsing' = parsing
  BY DEF Relax
<1>4. to \in 0 .. L
  OBVIOUS
<1>5. ~ Less(new, p_cost[to]) => p_cost[to] \in Pair
  <2>1. p_cost[to] \in Pair \union {Unreached}
    BY <1>2, <1>4
  <2>2. p_cost[to] = Unreached => Less(new, p_cost[to])
    BY DEF Less
  <2> QED
    BY <2>1, <2>2
<1> HIDE DEF new, to
<1>6. CASE Less(new, p_cost[to])
  <2>1. p_cost' = [p_cost EXCEPT ![to] = new] /\ parsing' = [parsing EXCEPT ![to] = e]
    BY <1>3, <1>6
  <2>2. /\ p_cost' \in [0 .. L -> Pair \union {Unreached}]
        /\ p_cost'[to] = new /\ \A n \in 0 .. L : n # to => p_cost'[n] = p_cost[n]
    BY <2>1, <1>1, <1>2, <1>4
  <2>3. /\ parsing' \in [0 .. L -> Edge]
        /\ parsing'[to] = e /\ \A n \in 0 .. L : n # to => parsing'[n] = parsing[n]
    BY <2>1, <1>2, <1>4
  <2> QED
    BY <2>2, <2>3, <1>1, <1>6 DEF new, to
<1>7. CASE ~ Less(new, p_cost[to])
  BY <1>2, <1>3, <1>5, <1>7 DEF new, to
<1> QED
  BY <1>6, <1>7

LEMMA WindowKept ==
  ASSUME NEW jb, NEW n \in Nat, NEW c1, NEW c2, \A p \in 0 .. (n - 1) : c1[p] = c2[p],
         NEW seq, WindowOK(jb, c1, seq, n)
  PROVE  WindowOK(jb, c2, seq, n)
<1>1. \A p \in 0 .. (n - 1) : At(jb, c1, p) = At(jb, c2, p)
  BY DEF At
<1>2. InWindow(jb, c2, seq, n)
  BY <1>1 DEF WindowOK, InWindow
<1>3. Represented(jb, c2, seq, n)
  BY <1>1 DEF WindowOK, Represented
<1> QED
  BY <1>2, <1>3 DEF WindowOK

LEMMA RelaxCopyKeeps ==
  ASSUME IInv, RelaxCopy
  PROVE  /\ IInv'
         /\ max_edges[j] \in Edge /\ Value(max_edges[j]) \in Pair
         /\ max_edges[j].ell \in Nat \ {0} /\ i + max_edges[j].ell \in 0 .. L
<1> DEFINE e == max_edges[j]
           to == i + e.ell
<1>1. /\ UNCHANGED <<job, pc, i, mesh, level, bucket_start, next, max_edges>>
      /\ UNCHANGED <<increasing_seq, penalty, plain, cur_idx, copy>>
      /\ pc = "relax" /\ j <= Len(max_edges) /\ j' = j + 1 /\ Relax(i, e)
  BY DEF RelaxCopy, literals, edges, flipping
<1>2. /\ Types /\ CostPart(i, p_cost) /\ BucketPart(job, bucket_start, i, pc)
      /\ WindowPart(job, p_cost, increasing_seq, penalty, plain, pc, i)
      /\ MeshPart(job, bucket_start, i, pc, level, mesh)
      /\ GivenPart(job, bucket_start, i, pc, max_edges)
      /\ GreedyPart(job, bucket_start, i, pc, next)
  BY DEF IInv
<1>3. L' = L /\ L \in Nat /\ i \in Nat /\ i <= L /\ job \in Jobs
  BY <1>1, <1>2, TypesAre DEF L, Types
<1>4. j \in 1 .. Len(max_edges) /\ e \in Edge
  <2>1. j \in 1 .. Len(max_edges)
    BY <1>1, <1>2, TypesAre DEF Types
  <2>2. e \in MeshEdge
    BY <1>2, <2>1, TypesAre
  <2> QED
    BY <2>1, <2>2 DEF MeshEdge, Edge
<1>5. Value(e) \in Pair /\ e.ell \in Nat \ {0} /\ to \in 0 .. L
  <2> DEFINE text == BucketOf(job, bucket_start)
             n == i - bucket_start
  <2>1. GoodEdge(text, n, e)
    BY <1>1, <1>2, <1>4 DEF GivenPart
  <2>2. /\ Bucket = text /\ Len(Bucket) = EndOf(job, bucket_start) - bucket_start
        /\ text_pos = n /\ Len(Bucket) \in Nat /\ text_pos \in 0 .. Len(Bucket)
        /\ EndOf(job, bucket_start) \in Nat /\ EndOf(job, bucket_start) <= L
        /\ bucket_start \in Nat
    BY <1>2, BucketSpans, TypesAre
  <2>3. Len(text) \in Nat /\ n \in 0 .. Len(text) /\ Len(text) <= L - bucket_start /\ i = n + bucket_start
    <3>1. Len(text) = EndOf(job, bucket_start) - bucket_start
      BY <2>2
    <3> QED
      BY <2>2, <3>1, <1>3
  <2> HIDE DEF text, n
  <2>4. Value(e) \in Pair /\ e.ell \in Nat \ {0} /\ n + e.ell <= Len(text)
    <3>1. Value(e) = ValueBy(job, e)
      BY DEF Value, ValueBy
    <3> QED
      BY <1>3, <2>1, <2>3, <3>1, CopyValue
  <2> DEFINE ell == e.ell
  <2>5. ell \in Nat \ {0} /\ n + ell <= Len(text)
    BY <2>4
  <2> HIDE DEF ell
  <2>6. i + ell \in 0 .. L
    BY <1>3, <2>2, <2>3, <2>5
  <2> QED
    BY <2>4, <2>6 DEF ell
<1> HIDE DEF e
<1>6. p_cost[i] \in Pair /\ i \in 0 .. L
  BY <1>2, <1>3 DEF CostPart
<1>7. /\ p_cost' \in [0 .. L -> Pair \union {Unreached}] /\ parsing' \in [0 .. L -> Edge]
      /\ p_cost'[to] \in Pair
      /\ \A n \in 0 .. L : n # to => p_cost'[n] = p_cost[n]
  BY <1>1, <1>2, <1>4, <1>5, <1>6, RelaxIs
<1>8. \A n \in 0 .. i : p_cost'[n] = p_cost[n]
  <2>1. \A n \in 0 .. i : n \in 0 .. L /\ n # to
    BY <1>3, <1>5
  <2> QED
    BY <2>1, <1>7
<1>9. Types'
  BY <1>1, <1>2, <1>3, <1>7 DEF Types
<1>10. CostPart(i, p_cost')
  BY <1>2, <1>8 DEF CostPart
<1>11. WindowPart(job, p_cost', increasing_seq, penalty, plain, pc, i)
  <2>1. AheadOf(pc, i) = i + 1
    BY <1>1 DEF AheadOf
  <2>2. /\ WindowOK(job, p_cost, increasing_seq, i + 1)
        /\ penalty = RunCost(job, Len(job.text) - (i + 1)) /\ plain = Plain((i + 1) - increasing_seq[1].position)
    BY <1>1, <1>2, <2>1 DEF WindowPart, Seeking, Working
  <2>3. WindowOK(job, p_cost', increasing_seq, i + 1)
    <3> DEFINE m == i + 1
               c2 == p_cost'
    <3>1. m \in Nat /\ \A p \in 0 .. (m - 1) : p_cost[p] = c2[p]
      BY <1>3, <1>8
    <3>2. WindowOK(job, p_cost, increasing_seq, m)
      BY <2>2
    <3> HIDE DEF m, c2
    <3>3. WindowOK(job, c2, increasing_seq, m)
      BY <3>1, <3>2, WindowKept
    <3> QED
      BY <3>3 DEF m, c2
  <2> QED
    BY <2>1, <2>2, <2>3 DEF WindowPart
<1>12. IInv'
  BY <1>1, <1>2, <1>9, <1>10, <1>11 DEF IInv
<1> QED
  BY <1>4, <1>5, <1>12 DEF e

(* The run the window picks for the next position.                         *)
LEMMA RunPicked ==
  ASSUME IInv, pc = "relax"
  PROVE  /\ i \in Nat /\ i < L /\ L \in Nat /\ i + 1 \in 1 .. Len(job.text)
         /\ plain.ell \in 1 .. (i + 1) /\ plain = Plain(plain.ell)
         /\ Picks(job, p_cost, increasing_seq, i + 1, plain.ell)
         /\ Value(plain) = RunCost(job, plain.ell) /\ Value(plain) \in Pair
         /\ i - (plain.ell - 1) \in 0 .. i /\ i - (plain.ell - 1) = (i + 1) - plain.ell
         /\ (i - (plain.ell - 1)) + plain.ell = i + 1
         /\ p_cost[i - (plain.ell - 1)] \in Pair
         /\ WindowOK(job, p_cost, increasing_seq, i + 1)
         /\ penalty = RunCost(job, Len(job.text) - (i + 1))
<1> DEFINE ahead == i + 1
           ell == ahead - increasing_seq[1].position
<1>1. /\ Types /\ CostPart(i, p_cost) /\ BucketPart(job, bucket_start, i, pc)
      /\ WindowPart(job, p_cost, increasing_seq, penalty, plain, pc, i)
  BY DEF IInv
<1>2. i \in Nat /\ i < L /\ L \in Nat /\ L = Len(job.text) /\ job \in Jobs
  BY <1>1, BucketSpans, TypesAre DEF Working, Types
<1>3. AheadOf(pc, i) = ahead
  BY DEF AheadOf
<1>4. /\ WindowOK(job, p_cost, increasing_seq, ahead) /\ plain = Plain(ell)
      /\ penalty = RunCost(job, Len(job.text) - ahead)
  BY <1>1, <1>3 DEF WindowPart, Seeking, Working
<1>5. ahead \in 1 .. Len(job.text) /\ \A p \in 0 .. (ahead - 1) : p_cost[p] \in Pair
  BY <1>1, <1>2 DEF CostPart
<1> HIDE DEF ahead
<1>6. Picks(job, p_cost, increasing_seq, ahead, ell)
  BY <1>2, <1>4, <1>5, WindowPicks
<1>7. ell \in 1 .. ahead
  BY <1>6, <1>5, <1>2 DEF Picks
<1> HIDE DEF ell
<1>8. plain.ell = ell
  BY <1>4 DEF Plain
<1>9. Value(plain) = RunCost(job, ell) /\ Value(plain) \in Pair
  BY <1>2, <1>4, <1>7, <1>5, PlainIs, RunCostIs
<1>10. /\ i - (ell - 1) \in 0 .. i /\ i - (ell - 1) = ahead - ell
       /\ (i - (ell - 1)) + ell = ahead
  BY <1>2, <1>7 DEF ahead
<1>11. p_cost[i - (ell - 1)] \in Pair
  BY <1>1, <1>10 DEF CostPart
<1> QED
  BY <1>2, <1>4, <1>5, <1>6, <1>7, <1>8, <1>9, <1>10, <1>11 DEF ahead

LEMMA RelaxRunKeeps ==
  ASSUME IInv, RelaxRun
  PROVE  IInv'
<1> DEFINE from == i - (plain.ell - 1)
           ahead == i + 1
<1>1. /\ UNCHANGED <<job, j, mesh, level, bucket_start, next, max_edges>>
      /\ UNCHANGED <<increasing_seq, penalty, plain, cur_idx, copy>>
      /\ pc = "relax" /\ i' = ahead /\ pc' = "visit" /\ Relax(from, plain)
  BY DEF RelaxRun, literals, edges, flipping
<1>2. /\ Types /\ CostPart(i, p_cost) /\ BucketPart(job, bucket_start, i, pc)
      /\ WindowPart(job, p_cost, increasing_seq, penalty, plain, pc, i)
      /\ GreedyPart(job, bucket_start, i, pc, next)
  BY DEF IInv
<1>3. L' = L /\ job \in Jobs /\ L = Len(job.text)
  BY <1>1, <1>2, TypesAre DEF L, Types
<1>4. /\ i \in Nat /\ i < L /\ L \in Nat /\ plain.ell \in 1 .. ahead
      /\ plain = Plain(plain.ell) /\ Picks(job, p_cost, increasing_seq, ahead, plain.ell)
      /\ Value(plain) \in Pair /\ from \in 0 .. i /\ from + plain.ell = ahead
      /\ p_cost[from] \in Pair /\ WindowOK(job, p_cost, increasing_seq, ahead)
      /\ penalty = RunCost(job, Len(job.text) - ahead)
  BY <1>1, RunPicked
<1>5. ahead \in 0 .. L /\ from \in 0 .. L /\ plain \in Edge /\ ahead \in Nat /\ ahead > 0
  <2>1. plain \in Edge
    BY <1>2 DEF Types
  <2>2. ahead \in 0 .. L /\ from \in 0 .. L /\ ahead > 0
    BY <1>4
  <2> QED
    BY <2>1, <2>2
<1> HIDE DEF from
<1>6. /\ p_cost' \in [0 .. L -> Pair \union {Unreached}] /\ parsing' \in [0 .. L -> Edge]
      /\ p_cost'[ahead] \in Pair
      /\ \A n \in 0 .. L : n # ahead => p_cost'[n] = p_cost[n]
  <2>1. from + plain.ell \in 0 .. L
    BY <1>4, <1>5
  <2>2. /\ p_cost' \in [0 .. L -> Pair \union {Unreached}] /\ parsing' \in [0 .. L -> Edge]
        /\ p_cost'[from + plain.ell] \in Pair
        /\ \A n \in 0 .. L : n # from + plain.ell => p_cost'[n] = p_cost[n]
    BY <1>1, <1>2, <1>4, <1>5, <2>1, RelaxIs
  <2> QED
    BY <1>4, <2>2
<1>7. \A n \in 0 .. i : p_cost'[n] = p_cost[n]
  <2>1. \A n \in 0 .. i : n \in 0 .. L /\ n # ahead
    BY <1>4
  <2> QED
    BY <2>1, <1>6
<1>8. Types'
  BY <1>1, <1>2, <1>3, <1>5, <1>6 DEF Types, Phases
<1>9. CostPart(ahead, p_cost')
  <2>1. ASSUME NEW n \in 0 .. ahead PROVE p_cost'[n] \in Pair
    <3>1. n = ahead \/ n \in 0 .. i
      BY <1>4
    <3> HIDE DEF ahead
    <3> QED
      BY <3>1, <1>2, <1>6, <1>7 DEF CostPart
  <2> QED
    BY <2>1 DEF CostPart
<1>10. BucketPart(job, bucket_start, ahead, "visit")
  <2>1. /\ bucket_start <= i /\ i < EndOf(job, bucket_start) /\ bucket_start % job.bucket = 0
    BY <1>1, <1>2 DEF BucketPart, Working
  <2>2. EndOf(job, bucket_start) \in Nat /\ bucket_start \in Nat
    BY <1>2, BucketSpans, TypesAre
  <2>3. bucket_start <= ahead /\ ahead <= EndOf(job, bucket_start)
    BY <1>4, <2>1, <2>2
  <2> QED
    BY <2>1, <2>3 DEF BucketPart, Working
<1>11. WindowPart(job, p_cost', increasing_seq, penalty, plain, "visit", ahead)
  <2>1. AheadOf("visit", ahead) = ahead
    BY DEF AheadOf
  <2>2. plain = Plain(ahead - increasing_seq[1].position)
    <3>1. plain.ell = ahead - increasing_seq[1].position
      BY <1>4 DEF Picks
    <3> HIDE DEF ahead
    <3> QED
      BY <1>4, <3>1
  <2>3. WindowOK(job, p_cost', increasing_seq, ahead)
    <3> DEFINE c2 == p_cost'
    <3>1. \A p \in 0 .. (ahead - 1) : p_cost[p] = c2[p]
      BY <1>4, <1>7
    <3> HIDE DEF ahead, c2
    <3>2. WindowOK(job, c2, increasing_seq, ahead)
      BY <1>4, <1>5, <3>1, WindowKept
    <3> QED
      BY <3>2 DEF c2
  <2> QED
    BY <1>4, <2>1, <2>2, <2>3 DEF WindowPart
<1>12. MeshPart(job, bucket_start, ahead, "visit", level, mesh) /\ GivenPart(job, bucket_start, ahead, "visit", max_edges)
  BY DEF MeshPart, GivenPart
<1>13. GreedyPart(job, bucket_start, ahead, "visit", next)
  <2> SUFFICES ASSUME job.rightmost PROVE GreedyPart(job, bucket_start, ahead, "visit", next)
    BY DEF GreedyPart
  <2>1. Awaits(job, bucket_start, ahead, i + Max({1, next}))
    BY <1>1, <1>2 DEF GreedyPart
  <2>2. next \in Nat /\ bucket_start <= i /\ bucket_start \in Nat
    BY <1>1, <1>2, TypesAre DEF Types, BucketPart
  <2>3. Max({1, next}) = IF 1 <= next THEN next ELSE 1
    BY <2>2, MaxTwo
  <2>4. Max({0, next - 1}) = IF 0 <= next - 1 THEN next - 1 ELSE 0
    BY <2>2, MaxTwo
  <2>5. i + Max({1, next}) = ahead + Max({0, next - 1})
    BY <2>2, <2>3, <2>4, <1>4
  <2>6. ahead > bucket_start
    BY <2>2, <1>4
  <2> HIDE DEF ahead
  <2> QED
    BY <2>1, <2>5, <2>6 DEF GreedyPart
<1> HIDE DEF ahead
<1> QED
  BY <1>1, <1>2, <1>8, <1>9, <1>10, <1>11, <1>12, <1>13 DEF IInv

LEMMA FlipKeeps ==
  ASSUME IInv, StartFlip \/ FlipEdge \/ Finish
  PROVE  IInv'
<1>1. /\ UNCHANGED <<job, i, p_cost, mesh, level, bucket_start, next, max_edges, j>>
      /\ UNCHANGED <<increasing_seq, penalty, plain>>
  BY DEF StartFlip, FlipEdge, Finish, literals, edges, flipping
<1>2. pc' \in {"flip", "done"}
  BY DEF StartFlip, FlipEdge, Finish
<1>3. Types /\ CostPart(i, p_cost) /\ BucketPart(job, bucket_start, i, pc)
  BY DEF IInv
<1>4. L' = L /\ L \in Nat
  BY <1>1, <1>3, TypesAre DEF L
<1>5. parsing' \in [0 .. L -> Edge] /\ copy' \in Edge /\ cur_idx' \in Int /\ cur_idx' <= L
  <2>1. parsing \in [0 .. L -> Edge] /\ copy \in Edge /\ cur_idx \in Int /\ cur_idx <= L
    BY <1>3 DEF Types
  <2>2. CASE StartFlip
    BY <2>1, <2>2, <1>4 DEF StartFlip
  <2>3. CASE FlipEdge
    <3>1. /\ parsing' = [parsing EXCEPT ![cur_idx] = copy] /\ copy' = parsing[cur_idx]
          /\ cur_idx' = cur_idx - parsing[cur_idx].ell /\ cur_idx >= 0
      BY <2>3 DEF FlipEdge
    <3>2. cur_idx \in 0 .. L
      BY <3>1, <2>1
    <3>3. parsing[cur_idx] \in Edge
      BY <3>2, <2>1
    <3>4. parsing[cur_idx].ell \in Nat
      BY <3>3 DEF Edge
    <3>5. parsing' \in [0 .. L -> Edge]
      BY <3>1, <2>1
    <3> QED
      BY <3>1, <3>3, <3>4, <3>5, <2>1, <1>4
  <2>4. CASE Finish
    BY <2>1, <2>4 DEF Finish, flipping
  <2> QED
    BY <2>2, <2>3, <2>4
<1>6. Types'
  BY <1>1, <1>2, <1>3, <1>4, <1>5 DEF Types, Phases
<1>7. BucketPart(job, bucket_start, i, pc')
  BY <1>2, <1>3 DEF BucketPart, Working
<1>8. /\ WindowPart(job, p_cost, increasing_seq, penalty, plain, pc', i)
      /\ MeshPart(job, bucket_start, i, pc', level, mesh)
      /\ GivenPart(job, bucket_start, i, pc', max_edges)
      /\ GreedyPart(job, bucket_start, i, pc', next)
  BY <1>2 DEF WindowPart, MeshPart, GivenPart, GreedyPart, Seeking, Working
<1> QED
  BY <1>1, <1>3, <1>6, <1>7, <1>8 DEF IInv

LEMMA StutterKeeps ==
  ASSUME IInv, UNCHANGED vars
  PROVE  IInv'
<1>1. UNCHANGED <<job, pc, i, p_cost, parsing, mesh, level, bucket_start, next, max_edges, j>>
  BY DEF vars, edges
<1>2. UNCHANGED <<increasing_seq, penalty, plain, cur_idx, copy>>
  BY DEF vars, literals, flipping
<1>3. L' = L
  BY <1>1 DEF L
<1>4. Types'
  BY <1>1, <1>2, <1>3 DEF Types, IInv
<1> QED
  BY <1>1, <1>2, <1>4 DEF IInv

(* The invariant is inductive.                                             *)
LEMMA StepKeeps ==
  ASSUME IInv, [Next]_vars
  PROVE  IInv'
<1>1. CASE NextBucket
  BY <1>1, NextBucketKeeps
<1>2. CASE StartEdges
  BY <1>2, StartEdgesKeeps
<1>3. CASE NextLevel
  BY <1>3, NextLevelKeeps
<1>4. CASE GiveEdges
  BY <1>4, GiveEdgesKeeps
<1>5. CASE GiveRightmost
  BY <1>5, GiveRightmostKeeps
<1>6. CASE InsertLiteral
  BY <1>6, InsertLiteralKeeps
<1>7. CASE RelaxCopy
  BY <1>7, RelaxCopyKeeps
<1>8. CASE RelaxRun
  BY <1>8, RelaxRunKeeps
<1>9. CASE StartFlip \/ FlipEdge \/ Finish
  BY <1>9, FlipKeeps
<1>10. CASE UNCHANGED vars
  BY <1>10, StutterKeeps
<1>11. CASE Terminated
  BY <1>11, <1>10 DEF Terminated
<1> QED
  BY <1>1, <1>2, <1>3, <1>4, <1>5, <1>6, <1>7, <1>8, <1>9, <1>10, <1>11 DEF Next

(* Every state of parse is well typed; the positions behind it have been   *)
(* reached; the window, the mesh, the bucket and the edges given are what  *)
(* the position calls for.                                                 *)
THEOREM ParserInductive == Spec => []IInv
<1>1. Init => IInv
  BY InitHolds
<1>2. IInv /\ [Next]_vars => IInv'
  BY StepKeeps
<1> QED
  BY <1>1, <1>2, PTL DEF Spec

LEMMA PicksTheMinimum ==
  ASSUME IInv
  PROVE  WindowMinimum
<1> SUFFICES ASSUME pc = "visit", i > 0 PROVE WindowMinimum
  BY DEF WindowMinimum
<1> DEFINE picked == plain.ell
<1>1. /\ Types /\ CostPart(i, p_cost)
      /\ WindowPart(job, p_cost, increasing_seq, penalty, plain, pc, i)
  BY DEF IInv
<1>2. i \in Nat /\ i \in 1 .. Len(job.text) /\ job \in Jobs
  <2>1. i \in Nat /\ i <= L /\ L = Len(job.text) /\ L \in Nat /\ job \in Jobs
    BY <1>1, TypesAre DEF Types
  <2> QED
    BY <2>1
<1>3. WindowOK(job, p_cost, increasing_seq, i) /\ picked = i - increasing_seq[1].position
  <2>1. AheadOf(pc, i) = i
    BY DEF AheadOf
  <2>2. /\ WindowOK(job, p_cost, increasing_seq, i) /\ plain = Plain(i - increasing_seq[1].position)
    BY <1>1, <2>1 DEF WindowPart, Seeking
  <2> QED
    BY <2>2 DEF Plain
<1>4. \A p \in 0 .. (i - 1) : p_cost[p] \in Pair
  BY <1>1, <1>2 DEF CostPart
<1>5. Picks(job, p_cost, increasing_seq, i, picked)
  BY <1>2, <1>3, <1>4, WindowPicks
<1>6. picked \in 1 .. job.window /\ picked <= i /\ picked \in Nat
  BY <1>5, <1>2, JobIs DEF Picks
<1>7. \A n \in Nat : Plus(p_cost[i - n], Value(Plain(n))) = Ending(job, p_cost, i, n)
  BY PlainIs DEF Ending
<1> HIDE DEF picked
<1>8. \A n \in 1 .. i : n <= job.window =>
        /\ ~ Less(Plus(p_cost[i - n], Value(Plain(n))), Plus(p_cost[i - picked], Value(Plain(picked))))
        /\ n < picked => Less(Plus(p_cost[i - picked], Value(Plain(picked))), Plus(p_cost[i - n], Value(Plain(n))))
  <2> TAKE n \in 1 .. i
  <2>1. n \in Nat
    BY <1>2
  <2>2. n <= job.window =>
          /\ ~ Less(Ending(job, p_cost, i, n), Ending(job, p_cost, i, picked))
          /\ n < picked => Less(Ending(job, p_cost, i, picked), Ending(job, p_cost, i, n))
    BY <1>5 DEF Picks
  <2> QED
    BY <2>1, <2>2, <1>6, <1>7
<1> QED
  BY <1>6, <1>8, Zenon DEF WindowMinimum, picked

(* The literal run relaxed is always the cheapest that the window allows,  *)
(* for every text, window and models.                                      *)
THEOREM WindowAlwaysMinimum == Spec => []WindowMinimum
<1>1. IInv => WindowMinimum
  BY PicksTheMinimum
<1> QED
  BY <1>1, ParserInductive, PTL

LEMMA GivesDominate ==
  ASSUME IInv
  PROVE  EdgesDominate
<1> SUFFICES ASSUME pc = "literal" PROVE EdgesDominate
  BY DEF EdgesDominate
<1>1. /\ Types /\ BucketPart(job, bucket_start, i, pc)
      /\ GivenPart(job, bucket_start, i, pc, max_edges)
  BY DEF IInv
<1>2. Bucket = BucketOf(job, bucket_start) /\ text_pos = i - bucket_start
  BY <1>1, BucketSpans
<1>3. GivenAt(job, bucket_start, i, max_edges)
  BY <1>1 DEF GivenPart
<1>4. StartBy(job, i) = bucket_start
  <2>1. /\ job \in Jobs /\ bucket_start \in 0 .. Len(job.text) /\ i \in Nat
        /\ bucket_start % job.bucket = 0 /\ bucket_start <= i /\ i < EndOf(job, bucket_start)
    BY <1>1, TypesAre DEF Types, BucketPart, Working
  <2>2. /\ bucket_start \in Nat /\ job.bucket \in Nat \ {0} /\ Len(job.text) \in Nat
        /\ EndOf(job, bucket_start) \in bucket_start .. Len(job.text)
        /\ EndOf(job, bucket_start) <= bucket_start + job.bucket
    BY <2>1, JobIs, BucketIs
  <2>3. i < bucket_start + job.bucket
    BY <2>1, <2>2
  <2> QED
    BY <2>1, <2>2, <2>3, InMultiple DEF StartBy
<1>5. /\ StartOf(i) = StartBy(job, i)
      /\ \A n : StartOf(n) = StartBy(job, n)
  BY DEF StartOf, StartBy
<1>6. \A n : CopiesOf(n) = Copies(BucketOf(job, StartBy(job, n)), n - StartBy(job, n))
  BY DEF CopiesOf, StartOf, StartBy, BucketOf, EndOf, L
<1>7. \A n : Longest(n) = LongestBy(job, n)
  BY <1>6 DEF Longest, LongestBy, LongestIn
<1>8. Nearest(i) = NearestIn(BucketOf(job, bucket_start), i - bucket_start)
  BY <1>4, <1>6, <1>7 DEF Nearest, NearestIn, LongestBy
<1>9. Reached = ReachedBy(job)
  BY DEF Reached, ReachedBy, L, StartOf, StartBy, Longest, Step, LongestBy, LongestIn,
         CopiesOf, BucketOf, EndOf
<1>10. CASE job.rightmost
  BY <1>3, <1>7, <1>8, <1>9, <1>10 DEF GivenAt, EdgesDominate
<1>11. CASE ~ job.rightmost
  BY <1>2, <1>3, <1>11 DEF GivenAt, EdgesDominate
<1> QED
  BY <1>10, <1>11

(* The edges given always are copies, in order, that make every other copy *)
(* useless; under rm_protocol, those of the greedy parsing: for every text *)
(* and classes of distances and lengths.                                   *)
THEOREM EdgesAlwaysDominate == Spec => []EdgesDominate
<1>1. IInv => EdgesDominate
  BY GivesDominate
<1> QED
  BY <1>1, ParserInductive, PTL

-------------------------------------------------------------------------------
(* The whole graph: the edges out of a position, what they cost, and what  *)
(* the best path from a position to the end does.                          *)
CopiesBy(jb, n) == Copies(BucketOf(jb, StartBy(jb, n)), n - StartBy(jb, n))
NearestBy(jb, n) == NearestIn(BucketOf(jb, StartBy(jb, n)), n - StartBy(jb, n))
GivenBy(jb, n) ==
  IF ~ jb.rightmost THEN CopiesBy(jb, n) ELSE IF n \in ReachedBy(jb) THEN NearestBy(jb, n) ELSE {}
RunsBy(jb, n) == {Plain(ell) : ell \in {k \in 1 .. (Len(jb.text) - n) : k <= jb.window}}
EdgesBy(jb, n) == GivenBy(jb, n) \union RunsBy(jb, n)
BestBy(jb) ==
  LET f[n \in 0 .. Len(jb.text)] ==
        IF n = 0 THEN Zero
        ELSE Least({Plus(ValueBy(jb, e), f[n - e.ell]) : e \in EdgesBy(jb, Len(jb.text) - n)})
  IN  f
Rest(jb, n) == BestBy(jb)[Len(jb.text) - n]
AtMost(x, y) == ~ Less(y, x)
MonotoneJob(jb) == Monotone(jb.cost) /\ Monotone(jb.weight)

(* The cost of the parsing followed from position 0.                       *)
IsPhrase(jb, n, e) ==
  \/ IsCopy(jb.text, n, e)
  \/ e.d = 0 /\ e.ell \in 1 .. (Len(jb.text) - n) /\ e.ell <= jb.window
FollowedBy(jb, P) ==
  LET f[n \in 0 .. Len(jb.text)] ==
        IF n = 0 THEN Zero
        ELSE LET e == P[Len(jb.text) - n] IN
             IF IsPhrase(jb, Len(jb.text) - n, e) THEN Plus(ValueBy(jb, e), f[n - e.ell])
             ELSE Unreached
  IN  f

(* The last edge of the best path found to n, for a path found by i.       *)
TreeEdge(jb, cost, n, at, e) ==
  /\ e.ell \in 1 .. n /\ n - e.ell <= at
  /\ ValueBy(jb, e) \in Pair /\ cost[n - e.ell] \in Pair
  /\ cost[n] = Plus(cost[n - e.ell], ValueBy(jb, e))
  /\ e \in EdgesBy(jb, n - e.ell)
InvalidBy(jb) == [d |-> Len(jb.text) + 1, ell |-> Len(jb.text) + 1, cost_id |-> Len(jb.text) + 1]
Tree(jb, cost, P, top, at) ==
  /\ cost[0] = Zero /\ P[0] = InvalidBy(jb)
  /\ \A n \in 1 .. top : cost[n] \in Pair => TreeEdge(jb, cost, n, at, P[n])

(* No path found promises less than the optimum.                           *)
Above(jb, cost) ==
  \A n \in 0 .. Len(jb.text) :
    cost[n] \in Pair => AtMost(Rest(jb, 0), Plus(cost[n], Rest(jb, n)))

(* And some promises as much: one that has come to n or farther, or one    *)
(* that goes on by a literal run past n.                                   *)
Promise(jb, cost, n) ==
  \E m \in n .. Len(jb.text) :
    cost[m] \in Pair /\ AtMost(Plus(cost[m], Rest(jb, m)), Rest(jb, 0))
RunPromise(jb, cost, n) ==
  \E m \in 0 .. (n - 1), q \in (n + 1) .. Len(jb.text) :
    /\ q - m <= jb.window
    /\ AtMost(Plus(cost[m], Plus(RunCost(jb, q - m), Rest(jb, q))), Rest(jb, 0))
Cut(jb, cost, n) == MonotoneJob(jb) => Promise(jb, cost, n) \/ RunPromise(jb, cost, n)

(* The first k edges given at n are relaxed.                               *)
Relaxed(jb, cost, n, es, k) ==
  \A q \in 1 .. k : /\ cost[n + es[q].ell] \in Pair
                     /\ AtMost(cost[n + es[q].ell], Plus(cost[n], ValueBy(jb, es[q])))

(* flip: behind cur_idx edges are last ones of paths from the start, past  *)
(* it first ones of paths to the end, and copy starts at it.               *)
Priced(jb, P) == \A n \in 0 .. Len(jb.text) : IsPhrase(jb, n, P[n]) => ValueBy(jb, P[n]) \in Pair
FlipAt(jb, cost, P, n, e) ==
  IF n < 0 THEN FollowedBy(jb, P)[Len(jb.text)] = cost[Len(jb.text)]
  ELSE /\ Tree(jb, cost, P, n, Len(jb.text))
       /\ n < Len(jb.text) =>
            /\ IsPhrase(jb, n, e) /\ ValueBy(jb, e) \in Pair /\ e.ell \in 1 .. (Len(jb.text) - n)
            /\ FollowedBy(jb, P)[Len(jb.text) - n - e.ell] \in Pair
            /\ Plus(cost[n], Plus(ValueBy(jb, e), FollowedBy(jb, P)[Len(jb.text) - n - e.ell]))
                 = cost[Len(jb.text)]

LEMMA LeastIs ==
  ASSUME NEW S, S \subseteq Pair, S # {}
  PROVE  Least(S) \in S /\ \A y \in S : AtMost(Least(S), y)
<1> DEFINE Costs == {x.cost : x \in S}
<1>1. Costs \subseteq Nat /\ Costs # {}
  BY DEF Pair
<1> HIDE DEF Costs
<1>2. PICK c \in Costs : \A n \in Costs : c <= n
  BY <1>1, SmallestOf
<1> DEFINE Cheap == {x \in S : x.cost = c}
           Weights == {x.weight : x \in Cheap}
<1>3. Weights \subseteq Nat /\ Weights # {}
  <2>1. PICK x \in S : x.cost = c
    BY <1>2 DEF Costs
  <2>2. x.weight \in Weights
    BY <2>1
  <2>3. Weights \subseteq Nat
    BY DEF Pair
  <2> QED
    BY <2>2, <2>3
<1> HIDE DEF Weights
<1>4. PICK w \in Weights : \A n \in Weights : w <= n
  BY <1>3, SmallestOf
<1>5. PICK x \in S : x.cost = c /\ x.weight = w
  BY <1>4 DEF Weights
<1>6. \A y \in S : ~ Less(y, x)
  <2> TAKE y \in S
  <2>1. /\ y \in Pair /\ x \in Pair
    OBVIOUS
  <2>2. c <= y.cost /\ (y.cost = c => w <= y.weight)
    BY <1>2, <1>4 DEF Costs, Weights
  <2>3. Less(y, x) <=> y.cost < x.cost \/ (y.cost = x.cost /\ y.weight < x.weight)
    BY <2>1, LessIs
  <2>4. y.cost \in Nat /\ y.weight \in Nat /\ x.cost \in Nat /\ x.weight \in Nat
    BY <2>1 DEF Pair
  <2> QED
    BY <1>5, <2>2, <2>3, <2>4
<1>7. Least(S) = CHOOSE z \in S : \A y \in S : ~ Less(y, z)
  BY DEF Least
<1>8. Least(S) \in S /\ \A y \in S : ~ Less(y, Least(S))
  BY <1>6, <1>7
<1> QED
  BY <1>8 DEF AtMost

(* A copy of the bucket is one of the text.                                *)
LEMMA CopyOfBucket ==
  ASSUME NEW jb \in Jobs, NEW start \in 0 .. Len(jb.text),
         NEW n \in start .. EndOf(jb, start), NEW e, IsCopy(BucketOf(jb, start), n - start, e)
  PROVE  IsCopy(jb.text, n, e)
<1> DEFINE text == jb.text
           part == BucketOf(jb, start)
           at == n - start
           last == EndOf(jb, start)
           d == e.d
           ell == e.ell
<1>1. /\ start \in Nat /\ Len(text) \in Nat /\ last \in start .. Len(text)
      /\ Len(part) = last - start /\ Len(part) \in Nat /\ text \in Seq(ToSet(text))
  BY BucketIs, JobIs
<1>2. n \in Nat /\ at \in 0 .. Len(part) /\ n \in 0 .. Len(text)
  BY <1>1
<1>3. /\ d \in 1 .. at /\ d <= Last(Dst) /\ ell \in 1 .. MatchLen(part, at, d) /\ ell <= Last(Lens)
  BY DEF IsCopy
<1>4. /\ MatchLen(part, at, d) \in 0 .. (Len(part) - at)
      /\ \A m \in 0 .. (Len(part) - at) : Same(part, at, d, m) <=> m <= MatchLen(part, at, d)
  BY <1>1, <1>2, MatchLenIs
<1>5. /\ MatchLen(text, n, d) \in 0 .. (Len(text) - n)
      /\ \A m \in 0 .. (Len(text) - n) : Same(text, n, d, m) <=> m <= MatchLen(text, n, d)
  BY <1>1, <1>2, MatchLenIs
<1>6. \A k \in 1 .. (last - start) : part[k] = text[start + k]
  <2> DEFINE a == start + 1
  <2>1. a \in Int /\ last \in Int /\ \A k \in a .. last : text[k] \in ToSet(text)
    BY <1>1, ElementOfSeq
  <2>2. last - a + 1 = last - start /\ \A k \in 1 .. (last - start) : a + k - 1 = start + k
    BY <1>1
  <2> HIDE DEF a, last
  <2>3. \A k \in 1 .. (last - a + 1) : SubSeq(text, a, last)[k] = text[a + k - 1]
    BY <2>1, SubSeqProperties
  <2>4. part = SubSeq(text, a, last)
    BY DEF BucketOf, a, last
  <2> HIDE DEF part
  <2>5. ASSUME NEW k \in 1 .. (last - start) PROVE part[k] = text[start + k]
    <3>1. k \in 1 .. (last - a + 1) /\ a + k - 1 = start + k
      BY <2>2
    <3>2. SubSeq(text, a, last)[k] = text[a + k - 1]
      BY <2>3, <3>1
    <3> QED
      BY <2>4, <3>1, <3>2
  <2> QED
    BY <2>5
<1> HIDE DEF text, part, last, d, ell
<1>7. /\ ell \in Nat \ {0} /\ ell \in 0 .. (Len(part) - at) /\ Same(part, at, d, ell)
      /\ at = n - start /\ d \in Nat \ {0} /\ d <= at
  BY <1>2, <1>3, <1>4
<1>8. ell \in 0 .. (Len(text) - n) /\ at + ell <= last - start
  BY <1>1, <1>2, <1>7
<1>9. Same(text, n, d, ell)
  <2>1. ASSUME NEW k \in 1 .. ell PROVE text[n + k] = text[n + k - d]
    <3>1. at + k \in 1 .. (last - start) /\ at + k - d \in 1 .. (last - start)
      BY <1>1, <1>2, <1>7, <1>8
    <3>2. start + (at + k) = n + k /\ start + (at + k - d) = n + k - d
      BY <1>1, <1>2, <1>7
    <3>3. part[at + k] = part[at + k - d]
      BY <1>7 DEF Same
    <3>4. part[at + k] = text[start + (at + k)] /\ part[at + k - d] = text[start + (at + k - d)]
      BY <1>6, <3>1
    <3> QED
      BY <3>2, <3>3, <3>4
  <2> QED
    BY <2>1 DEF Same
<1>10. ell <= MatchLen(text, n, d)
  BY <1>5, <1>8, <1>9
<1>11. d \in 1 .. n /\ ell \in 1 .. MatchLen(text, n, d)
  BY <1>1, <1>2, <1>5, <1>7, <1>10
<1> QED
  BY <1>3, <1>11 DEF IsCopy, d, ell, text

LEMMA DivMod ==
  ASSUME NEW n \in Nat, NEW b \in Nat \ {0}
  PROVE  n \div b \in Nat /\ n = b * (n \div b) + (n % b)
OBVIOUS

(* Where the bucket of a position is.                                      *)
LEMMA AtBucket ==
  ASSUME NEW jb \in Jobs, NEW n \in 0 .. (Len(jb.text) - 1)
  PROVE  /\ Len(jb.text) \in Nat /\ n \in Nat
         /\ StartBy(jb, n) \in 0 .. Len(jb.text) /\ StartBy(jb, n) \in Nat
         /\ n \in StartBy(jb, n) .. EndOf(jb, StartBy(jb, n))
         /\ n < EndOf(jb, StartBy(jb, n)) /\ EndOf(jb, StartBy(jb, n)) \in Nat
         /\ EndOf(jb, StartBy(jb, n)) <= Len(jb.text)
         /\ EndOf(jb, StartBy(jb, n)) <= StartBy(jb, n) + jb.bucket
         /\ Len(BucketOf(jb, StartBy(jb, n))) = EndOf(jb, StartBy(jb, n)) - StartBy(jb, n)
         /\ Len(BucketOf(jb, StartBy(jb, n))) \in Nat
         /\ n - StartBy(jb, n) \in 0 .. Len(BucketOf(jb, StartBy(jb, n)))
         /\ StartBy(jb, n) % jb.bucket = 0
<1> DEFINE s == StartBy(jb, n)
           N == Len(jb.text)
           last == EndOf(jb, s)
           part == Len(BucketOf(jb, s))
           r == n % jb.bucket
<1>1. N \in Nat /\ jb.bucket \in Nat \ {0} /\ n \in Nat /\ n < N
  BY JobIs
<1>2. s \in 0 .. n /\ s = n - r
  BY ReachedIs DEF StartBy
<1>3. r \in 0 .. (jb.bucket - 1)
  BY <1>1
<1>4. s % jb.bucket = 0
  <2> DEFINE q == n \div jb.bucket
             b == jb.bucket
  <2>1. q \in Nat /\ n = b * q + r
    <3>1. n \in Nat /\ b \in Nat \ {0}
      BY <1>1
    <3> HIDE DEF b
    <3>2. n \div b \in Nat /\ n = b * (n \div b) + (n % b)
      BY <3>1, DivMod
    <3> QED
      BY <3>2 DEF b
  <2> HIDE DEF q, b, r
  <2>2. b \in Nat \ {0} /\ r \in Nat
    BY <1>1, <1>3 DEF b
  <2>3. s = b * q
    <3>1. b * q \in Nat
      BY <2>1, <2>2
    <3> QED
      BY <3>1, <1>2, <2>1, <2>2
  <2> DEFINE Multiples == {m \in Nat : (b * m) % b = 0}
  <2>4. 0 \in Multiples
    BY <2>2
  <2>5. ASSUME NEW m \in Nat, m \in Multiples PROVE (m + 1) \in Multiples
    <3>1. b * (m + 1) = b * m + b /\ b * m \in Nat
      BY <2>2
    <3>2. (b * m + b) % b = 0
      BY <2>2, <2>5, <3>1, NextMultiple
    <3> QED
      BY <3>1, <3>2
  <2> HIDE DEF Multiples
  <2>6. Nat \subseteq Multiples
    BY <2>4, <2>5, InductionOn
  <2>7. (b * q) % b = 0
    BY <2>1, <2>6 DEF Multiples
  <2> QED
    BY <2>3, <2>7 DEF b
<1> HIDE DEF s, r
<1>5. s \in 0 .. N
  BY <1>1, <1>2
<1>6. /\ last \in s .. N /\ last <= s + jb.bucket /\ (last < N => last = s + jb.bucket)
      /\ part = last - s /\ part \in Nat
  BY <1>5, BucketIs
<1> HIDE DEF last, part
<1>7. n < last
  BY <1>1, <1>2, <1>3, <1>6
<1> HIDE DEF N
<1>8. n \in s .. last /\ n - s \in 0 .. part /\ s \in Nat /\ last \in Nat /\ last <= N
  BY <1>1, <1>2, <1>6, <1>7
<1> QED
  BY <1>1, <1>4, <1>5, <1>6, <1>7, <1>8 DEF s, last, part, N

(* Every edge leads ahead, inside the text, and costs something.           *)
LEMMA EdgesAre ==
  ASSUME NEW jb \in Jobs, NEW n \in 0 .. (Len(jb.text) - 1), NEW e \in EdgesBy(jb, n)
  PROVE  /\ e.ell \in 1 .. (Len(jb.text) - n) /\ ValueBy(jb, e) \in Pair
         /\ IsPhrase(jb, n, e) /\ e \in Edge
<1> DEFINE s == StartBy(jb, n)
           part == BucketOf(jb, s)
           at == n - s
<1>1. /\ Len(jb.text) \in Nat /\ n \in Nat /\ s \in Nat /\ s \in 0 .. Len(jb.text)
      /\ n \in s .. EndOf(jb, s) /\ Len(part) \in Nat /\ at \in 0 .. Len(part)
      /\ Len(part) = EndOf(jb, s) - s /\ EndOf(jb, s) \in Nat /\ EndOf(jb, s) <= Len(jb.text)
  BY AtBucket
<1>2. CASE e \in RunsBy(jb, n)
  <2>1. PICK ell \in {k \in 1 .. (Len(jb.text) - n) : k <= jb.window} : e = Plain(ell)
    BY <1>2 DEF RunsBy
  <2>2. e.d = 0 /\ e.ell = ell /\ ell \in 1 .. (Len(jb.text) - n) /\ ell \in Nat /\ ell <= jb.window
    BY <2>1, <1>1 DEF Plain
  <2>3. ValueBy(jb, e) = RunCost(jb, ell)
    BY <2>1, <2>2 DEF ValueBy, Plain, EdgeCost, IsRegular, RunCost
  <2>4. RunCost(jb, ell) \in Pair
    BY <2>2, RunCostIs
  <2>5. e \in Edge
    BY <2>1, <2>2 DEF Plain, Edge
  <2> QED
    BY <2>2, <2>3, <2>4, <2>5 DEF IsPhrase
<1>3. CASE e \in GivenBy(jb, n)
  <2>1. e \in Copies(part, at)
    BY <1>3 DEF GivenBy, CopiesBy, NearestBy, NearestIn
  <2> HIDE DEF part, at
  <2>2. IsCopy(part, at, e) /\ GoodEdge(part, at, e)
    BY <1>1, <2>1, CopiesAre DEF GoodEdge
  <2>3. ValueBy(jb, e) \in Pair /\ e.ell \in Nat \ {0} /\ at + e.ell <= Len(part)
    BY <1>1, <2>2, CopyValue
  <2>4. e.ell \in 1 .. (Len(jb.text) - n)
    <3> DEFINE ell == e.ell
    <3>1. ell \in Nat \ {0} /\ at + ell <= Len(part) /\ at = n - s
      BY <2>3 DEF at
    <3> HIDE DEF ell, s
    <3>2. ell \in 1 .. (Len(jb.text) - n)
      BY <1>1, <3>1
    <3> QED
      BY <3>2 DEF ell
  <2>5. IsCopy(jb.text, n, e)
    <3> HIDE DEF s
    <3>1. IsCopy(BucketOf(jb, s), n - s, e)
      BY <2>2 DEF part, at
    <3> QED
      BY <1>1, <3>1, CopyOfBucket
  <2>6. e \in Edge
    <3>1. PICK c \in [d : 1 .. at, ell : 1 .. (Len(part) - at)] :
            IsCopy(part, at, c) /\ e = [d |-> c.d, ell |-> c.ell, cost_id |-> GetId(c.d, c.ell)]
      BY <2>1 DEF Copies
    <3>2. /\ c.d \in Nat /\ c.ell \in Nat
          /\ LowerBound(Dst, c.d) \in 0 .. (Len(Dst) - 1) /\ LowerBound(Lens, c.ell) \in 0 .. (Len(Lens) - 1)
      BY <1>1, <3>1, CopyClasses
    <3>3. GetId(c.d, c.ell) \in Nat
      <4>1. LowerBound(Dst, c.d) \in Nat /\ LowerBound(Lens, c.ell) \in Nat
        BY <3>2, LastLen, ClassesAssumption, ClassesIncrease
      <4> QED
        BY <4>1, WrapIs DEF GetId
    <3> QED
      BY <3>1, <3>2, <3>3 DEF Edge
  <2> QED
    BY <2>3, <2>4, <2>5, <2>6 DEF IsPhrase
<1> QED
  BY <1>2, <1>3 DEF EdgesBy

(* The best path from a position is the best of its edges, each followed   *)
(* by the best path from where it leads.                                   *)
LEMMA RestIs ==
  ASSUME NEW jb \in Jobs
  PROVE  /\ Rest(jb, Len(jb.text)) = Zero
         /\ \A n \in 0 .. Len(jb.text) : Rest(jb, n) \in Pair
         /\ \A n \in 0 .. (Len(jb.text) - 1) :
              /\ \A e \in EdgesBy(jb, n) : AtMost(Rest(jb, n), Plus(ValueBy(jb, e), Rest(jb, n + e.ell)))
              /\ \E e \in EdgesBy(jb, n) : Rest(jb, n) = Plus(ValueBy(jb, e), Rest(jb, n + e.ell))
<1> DEFINE N == Len(jb.text)
           All(g, k) == {Plus(ValueBy(jb, e), g[k - e.ell]) : e \in EdgesBy(jb, N - k)}
           body(g, k) == IF k = 0 THEN Zero ELSE Least(All(g, k))
           Def(g) == [k \in 0 .. N |-> body(g, k)]
           step == [v \in (0 .. N) \X [0 .. N -> Pair] |-> body(v[2], v[1])]
           f == BestBy(jb)
<1>1. N \in Nat /\ jb.window \in Nat \ {0} /\ Zero \in Pair
  BY JobIs DEF Zero, Pair
<1> HIDE DEF N
<1>2. ASSUME NEW k \in 1 .. N, NEW e \in EdgesBy(jb, N - k)
      PROVE  e.ell \in 1 .. k /\ k - e.ell \in 0 .. N /\ k - e.ell < k /\ ValueBy(jb, e) \in Pair
  <2>1. N - k \in 0 .. (Len(jb.text) - 1) /\ Len(jb.text) - (N - k) = k
    BY <1>1 DEF N
  <2>2. e.ell \in 1 .. k /\ ValueBy(jb, e) \in Pair
    BY <2>1, EdgesAre
  <2> QED
    BY <2>2, <1>1
<1>3. ASSUME NEW k \in 1 .. N, NEW g \in [0 .. N -> Pair]
      PROVE  All(g, k) \subseteq Pair /\ All(g, k) # {}
  <2>1. ASSUME NEW e \in EdgesBy(jb, N - k) PROVE Plus(ValueBy(jb, e), g[k - e.ell]) \in Pair
    <3>1. ValueBy(jb, e) \in Pair /\ g[k - e.ell] \in Pair
      BY <1>2
    <3> QED
      BY <3>1, LessPlus
  <2>2. Plain(1) \in EdgesBy(jb, N - k)
    <3>1. 1 \in {q \in 1 .. (Len(jb.text) - (N - k)) : q <= jb.window}
      BY <1>1 DEF N
    <3> QED
      BY <3>1 DEF EdgesBy, RunsBy
  <2> QED
    BY <2>1, <2>2
<1>4. ASSUME NEW k \in 0 .. N, NEW g \in [0 .. N -> Pair] PROVE body(g, k) \in Pair
  <2>1. CASE k = 0
    BY <2>1, <1>1
  <2>2. CASE k # 0
    <3>1. k \in 1 .. N
      BY <2>2
    <3>2. All(g, k) \subseteq Pair /\ All(g, k) # {}
      BY <3>1, <1>3
    <3> HIDE DEF All
    <3>3. Least(All(g, k)) \in Pair
      BY <3>2, LeastIs
    <3> QED
      BY <3>3, <2>2
  <2> QED
    BY <2>1, <2>2
<1>5. step \in [(0 .. N) \X [0 .. N -> Pair] -> Pair]
  <2> HIDE DEF body
  <2> QED
    BY <1>4
<1>6. ASSUME NEW k \in 0 .. N, NEW g \in [0 .. N -> Pair] PROVE step[<<k, g>>] = body(g, k)
  <2> HIDE DEF body
  <2>1. <<k, g>> \in (0 .. N) \X [0 .. N -> Pair]
    OBVIOUS
  <2> QED
    BY <2>1
<1> HIDE DEF step
<1>7. ASSUME NEW k \in 0 .. N, NEW g \in [0 .. N -> Pair], NEW h \in [0 .. N -> Pair],
             \A m \in 0 .. N : m < k => g[m] = h[m]
      PROVE  step[<<k, g>>] = step[<<k, h>>]
  <2>1. CASE k = 0
    <3>1. body(g, k) = body(h, k)
      BY <2>1
    <3> HIDE DEF body
    <3> QED
      BY <3>1, <1>6
  <2>2. CASE k # 0
    <3>1. k \in 1 .. N
      BY <2>2
    <3>2. \A e \in EdgesBy(jb, N - k) : g[k - e.ell] = h[k - e.ell]
      BY <3>1, <1>2, <1>7
    <3>3. All(g, k) = All(h, k)
      BY <3>2
    <3> HIDE DEF All
    <3>4. body(g, k) = body(h, k)
      BY <3>3
    <3> HIDE DEF body
    <3> QED
      BY <3>4, <1>6
  <2> QED
    BY <2>1, <2>2
<1>8. LooksBack(N, Pair, step)
  BY <1>7, Zenon DEF LooksBack
<1>9. PICK g : CourseOf(g, N, Pair, step)
  BY <1>1, <1>5, <1>8, CourseOn
<1>10. g \in [0 .. N -> Pair] /\ \A k \in 0 .. N : g[k] = body(g, k)
  <2> HIDE DEF body
  <2> QED
    BY <1>6, <1>9 DEF CourseOf
<1>11. g = Def(g)
  <2> HIDE DEF body
  <2> QED
    BY <1>10
<1>12. f = CHOOSE h : h = Def(h)
  BY DEF BestBy, N
<1> HIDE DEF f
<1>13. f = Def(f)
  <2> HIDE DEF Def
  <2> QED
    BY <1>11, <1>12, Zenon
<1>14. \A k \in 0 .. N : f[k] = body(f, k)
  <2> HIDE DEF body
  <2> QED
    BY <1>13
<1>0. f[0] = Zero
  <2>1. body(f, 0) = Zero
    OBVIOUS
  <2>2. 0 \in 0 .. N
    BY <1>1
  <2> HIDE DEF body
  <2> QED
    BY <2>1, <2>2, <1>14
<1>15. f \in [0 .. N -> Pair]
  <2> DEFINE Typed == {n \in Nat : \A k \in 0 .. N : k <= n => f[k] \in Pair}
  <2>0. f[0] = Zero
    BY <1>0
  <2>1. 0 \in Typed
    <3>1. \A k \in 0 .. N : k <= 0 => k = 0
      OBVIOUS
    <3> QED
      BY <3>1, <2>0, <1>1
  <2>2. ASSUME NEW n \in Nat, n \in Typed PROVE (n + 1) \in Typed
    <3> DEFINE u == n + 1
               h == [m \in 0 .. N |-> IF m <= n THEN f[m] ELSE Zero]
    <3>1. h \in [0 .. N -> Pair]
      BY <2>2, <1>1
    <3>2. \A m \in 0 .. N : m < u => h[m] = f[m]
      OBVIOUS
    <3>3. u \in 0 .. N => f[u] \in Pair
      <4> SUFFICES ASSUME u \in 0 .. N PROVE f[u] \in Pair
        OBVIOUS
      <4>1. u \in 1 .. N /\ u # 0
        OBVIOUS
      <4> HIDE DEF h, u
      <4>2. \A e \in EdgesBy(jb, N - u) : f[u - e.ell] = h[u - e.ell]
        BY <4>1, <3>2, <1>2
      <4>3. All(f, u) = All(h, u)
        BY <4>2
      <4>4. body(h, u) \in Pair
        BY <3>1, <1>4
      <4> HIDE DEF All
      <4>5. body(f, u) = body(h, u)
        BY <4>3
      <4> HIDE DEF body
      <4> QED
        BY <4>4, <4>5, <1>14
    <3>4. \A k \in 0 .. N : k <= u => k <= n \/ k = u
      OBVIOUS
    <3> HIDE DEF u
    <3>5. \A k \in 0 .. N : k <= u => f[k] \in Pair
      BY <3>3, <3>4, <2>2
    <3>6. u \in Nat
      BY DEF u
    <3> QED
      BY <3>5, <3>6 DEF u
  <2> HIDE DEF Typed
  <2>3. N \in Typed
    BY <2>1, <2>2, <1>1, InductionOn
  <2>4. \A k \in 0 .. N : f[k] \in Pair
    BY <2>3, <1>1 DEF Typed
  <2>5. f = [k \in 0 .. N |-> f[k]]
    <3> HIDE DEF body
    <3>1. DOMAIN f = 0 .. N
      BY <1>13
    <3> QED
      BY <1>13
  <2> QED
    BY <2>4, <2>5
<1>16. /\ f[0] = Zero
       /\ \A k \in 1 .. N : /\ \A e \in EdgesBy(jb, N - k) : AtMost(f[k], Plus(ValueBy(jb, e), f[k - e.ell]))
                            /\ \E e \in EdgesBy(jb, N - k) : f[k] = Plus(ValueBy(jb, e), f[k - e.ell])
  <2>1. f[0] = Zero
    BY <1>0
  <2>2. ASSUME NEW k \in 1 .. N
        PROVE  /\ \A e \in EdgesBy(jb, N - k) : AtMost(f[k], Plus(ValueBy(jb, e), f[k - e.ell]))
               /\ \E e \in EdgesBy(jb, N - k) : f[k] = Plus(ValueBy(jb, e), f[k - e.ell])
    <3>1. f[k] = Least(All(f, k))
      <4>1. k \in 0 .. N /\ k # 0
        OBVIOUS
      <4>2. f[k] = body(f, k)
        <5> HIDE DEF body
        <5> QED
          BY <4>1, <1>14
      <4> HIDE DEF All
      <4> QED
        BY <4>1, <4>2
    <3>2. All(f, k) \subseteq Pair /\ All(f, k) # {}
      BY <1>3, <1>15
    <3>3. Least(All(f, k)) \in All(f, k) /\ \A y \in All(f, k) : AtMost(Least(All(f, k)), y)
      <4> HIDE DEF All
      <4> QED
        BY <3>2, LeastIs
    <3>4. f[k] \in All(f, k) /\ \A y \in All(f, k) : AtMost(f[k], y)
      <4> HIDE DEF All
      <4> QED
        BY <3>1, <3>3
    <3> QED
      BY <3>4
  <2> QED
    BY <2>1, <2>2
<1>17. \A n \in 0 .. N : Rest(jb, n) = f[N - n] /\ N - n \in 0 .. N
  BY <1>1 DEF Rest, f, N
<1>18. Rest(jb, N) = Zero /\ \A n \in 0 .. N : Rest(jb, n) \in Pair
  <2>1. Rest(jb, N) = f[N - N] /\ N - N = 0
    BY <1>1, <1>17
  <2> QED
    BY <2>1, <1>15, <1>16, <1>17
<1>19. ASSUME NEW n \in 0 .. (N - 1)
       PROVE  /\ \A e \in EdgesBy(jb, n) : AtMost(Rest(jb, n), Plus(ValueBy(jb, e), Rest(jb, n + e.ell)))
              /\ \E e \in EdgesBy(jb, n) : Rest(jb, n) = Plus(ValueBy(jb, e), Rest(jb, n + e.ell))
  <2> DEFINE k == N - n
  <2>1. k \in 1 .. N /\ N - k = n /\ n \in 0 .. N
    BY <1>1
  <2>2. ASSUME NEW e \in EdgesBy(jb, n) PROVE Rest(jb, n + e.ell) = f[k - e.ell]
    <3>1. e.ell \in 1 .. k
      BY <2>1, <1>2
    <3>2. n + e.ell \in 0 .. N /\ N - (n + e.ell) = k - e.ell
      BY <3>1, <1>1
    <3> QED
      BY <3>2, <1>17
  <2>3. Rest(jb, n) = f[k]
    BY <2>1, <1>17
  <2> HIDE DEF k
  <2>4. /\ \A e \in EdgesBy(jb, n) : AtMost(f[k], Plus(ValueBy(jb, e), f[k - e.ell]))
        /\ \E e \in EdgesBy(jb, n) : f[k] = Plus(ValueBy(jb, e), f[k - e.ell])
    BY <2>1, <1>16
  <2> QED
    BY <2>2, <2>3, <2>4
<1> QED
  BY <1>18, <1>19 DEF N

LEMMA AtMostIs ==
  ASSUME NEW x \in Pair, NEW y \in Pair
  PROVE  AtMost(x, y) <=> x.cost < y.cost \/ (x.cost = y.cost /\ x.weight <= y.weight)
<1>1. Less(y, x) <=> y.cost < x.cost \/ (y.cost = x.cost /\ y.weight < x.weight)
  BY LessIs
<1>2. x.cost \in Nat /\ y.cost \in Nat /\ x.weight \in Nat /\ y.weight \in Nat
  BY DEF Pair
<1> QED
  BY <1>1, <1>2 DEF AtMost

LEMMA AtMostOrder ==
  ASSUME NEW x \in Pair, NEW y \in Pair, NEW z \in Pair
  PROVE  /\ AtMost(x, x)
         /\ AtMost(x, y) /\ AtMost(y, z) => AtMost(x, z)
         /\ AtMost(x, y) /\ AtMost(y, x) => x = y
<1>1. x.cost \in Nat /\ y.cost \in Nat /\ x.weight \in Nat /\ y.weight \in Nat /\ z.cost \in Nat /\ z.weight \in Nat
  BY DEF Pair
<1>2. AtMost(x, x) /\ (AtMost(x, y) /\ AtMost(y, z) => AtMost(x, z))
  BY <1>1, AtMostIs
<1>3. AtMost(x, y) /\ AtMost(y, x) => x.cost = y.cost /\ x.weight = y.weight
  BY <1>1, AtMostIs
<1>4. x.cost = y.cost /\ x.weight = y.weight => x = y
  BY DEF Pair
<1> QED
  BY <1>2, <1>3, <1>4

LEMMA AtMostPlus ==
  ASSUME NEW x \in Pair, NEW y \in Pair, NEW z \in Pair
  PROVE  /\ Plus(x, z) \in Pair /\ Plus(z, x) \in Pair
         /\ AtMost(x, Plus(z, x))
         /\ AtMost(x, y) => AtMost(Plus(x, z), Plus(y, z)) /\ AtMost(Plus(z, x), Plus(z, y))
         /\ Plus(x, Plus(y, z)) = Plus(Plus(x, y), z)
         /\ Plus(x, Zero) = x
<1>1. x.cost \in Nat /\ y.cost \in Nat /\ x.weight \in Nat /\ y.weight \in Nat /\ z.cost \in Nat /\ z.weight \in Nat
  BY DEF Pair
<1>2. /\ Plus(x, z) \in Pair /\ Plus(z, x) \in Pair /\ Plus(y, z) \in Pair /\ Plus(z, y) \in Pair
  BY <1>1 DEF Plus, Pair
<1>3. /\ Plus(x, z).cost = x.cost + z.cost /\ Plus(x, z).weight = x.weight + z.weight
      /\ Plus(y, z).cost = y.cost + z.cost /\ Plus(y, z).weight = y.weight + z.weight
      /\ Plus(z, x).cost = z.cost + x.cost /\ Plus(z, x).weight = z.weight + x.weight
      /\ Plus(z, y).cost = z.cost + y.cost /\ Plus(z, y).weight = z.weight + y.weight
  BY DEF Plus
<1>4. AtMost(x, Plus(z, x))
  BY <1>1, <1>2, <1>3, AtMostIs
<1>5. AtMost(x, y) => AtMost(Plus(x, z), Plus(y, z)) /\ AtMost(Plus(z, x), Plus(z, y))
  BY <1>1, <1>2, <1>3, AtMostIs
<1>6. Plus(x, Plus(y, z)) = Plus(Plus(x, y), z)
  <2>1. /\ Plus(x, Plus(y, z)) = [cost |-> x.cost + (y.cost + z.cost), weight |-> x.weight + (y.weight + z.weight)]
        /\ Plus(Plus(x, y), z) = [cost |-> (x.cost + y.cost) + z.cost, weight |-> (x.weight + y.weight) + z.weight]
    BY DEF Plus
  <2>2. /\ x.cost + (y.cost + z.cost) = (x.cost + y.cost) + z.cost
        /\ x.weight + (y.weight + z.weight) = (x.weight + y.weight) + z.weight
    BY <1>1
  <2> QED
    BY <2>1, <2>2
<1>7. Plus(x, Zero) = x
  <2>1. Plus(x, Zero) = [cost |-> x.cost + 0, weight |-> x.weight + 0]
    BY DEF Plus, Zero
  <2>2. x.cost + 0 = x.cost /\ x.weight + 0 = x.weight
    BY <1>1
  <2>3. x = [cost |-> x.cost, weight |-> x.weight]
    BY DEF Pair
  <2> QED
    BY <2>1, <2>2, <2>3
<1> QED
  BY <1>2, <1>4, <1>5, <1>6, <1>7

LEMMA PlusIs ==
  ASSUME NEW x \in Pair, NEW y \in Pair, NEW z \in Pair
  PROVE  Plus(Plus(x, y), z) = Plus(x, Plus(y, z)) /\ Plus(Plus(x, y), z) \in Pair
<1>1. Plus(x, y) \in Pair
  BY AtMostPlus
<1> QED
  BY <1>1, AtMostPlus

(* A copy in classes no higher never costs more, in a monotone model.      *)
LEMMA Cheaper ==
  ASSUME NEW jb \in Jobs, MonotoneJob(jb),
         NEW text, Len(text) \in Nat, NEW n \in 0 .. Len(text), NEW e, GoodEdge(text, n, e),
         NEW text2, Len(text2) \in Nat, NEW n2 \in 0 .. Len(text2), NEW e2, GoodEdge(text2, n2, e2),
         LowerBound(Dst, e2.d) <= LowerBound(Dst, e.d), LowerBound(Lens, e2.ell) <= LowerBound(Lens, e.ell)
  PROVE  AtMost(ValueBy(jb, e2), ValueBy(jb, e))
<1> DEFINE x == LowerBound(Dst, e.d) + 1
           a == LowerBound(Lens, e.ell) + 1
           x2 == LowerBound(Dst, e2.d) + 1
           a2 == LowerBound(Lens, e2.ell) + 1
<1>1. /\ LowerBound(Dst, e.d) \in 0 .. (Len(Dst) - 1) /\ LowerBound(Lens, e.ell) \in 0 .. (Len(Lens) - 1)
  BY CopyClasses DEF GoodEdge
<1>2. /\ LowerBound(Dst, e2.d) \in 0 .. (Len(Dst) - 1) /\ LowerBound(Lens, e2.ell) \in 0 .. (Len(Lens) - 1)
  BY CopyClasses DEF GoodEdge
<1>3. /\ Len(Dst) \in Nat /\ DOMAIN Dst = 1 .. Len(Dst) /\ Len(Lens) \in Nat /\ DOMAIN Lens = 1 .. Len(Lens)
  BY ClassesAssumption, ClassesIncrease
<1>4. /\ x \in DOMAIN Dst /\ a \in DOMAIN Lens /\ x2 \in DOMAIN Dst /\ a2 \in DOMAIN Lens
      /\ x2 <= x /\ a2 <= a
  <2> DEFINE dx == LowerBound(Dst, e.d)
             da == LowerBound(Lens, e.ell)
             dx2 == LowerBound(Dst, e2.d)
             da2 == LowerBound(Lens, e2.ell)
             D == Len(Dst)
             E == Len(Lens)
  <2>1. /\ dx \in 0 .. (D - 1) /\ da \in 0 .. (E - 1) /\ dx2 \in 0 .. (D - 1) /\ da2 \in 0 .. (E - 1)
        /\ dx2 <= dx /\ da2 <= da /\ D \in Nat /\ E \in Nat
    BY <1>1, <1>2, <1>3
  <2> HIDE DEF dx, da, dx2, da2, D, E
  <2>2. /\ dx + 1 \in 1 .. D /\ da + 1 \in 1 .. E /\ dx2 + 1 \in 1 .. D /\ da2 + 1 \in 1 .. E
        /\ dx2 + 1 <= dx + 1 /\ da2 + 1 <= da + 1
    BY <2>1
  <2> QED
    BY <2>2, <1>3 DEF dx, da, dx2, da2, D, E
<1>5. /\ ValueBy(jb, e) \in Pair
      /\ ValueBy(jb, e) = [cost |-> jb.cost.copy[x][a], weight |-> jb.weight.copy[x][a]]
  BY CopyValue
<1>6. /\ ValueBy(jb, e2) \in Pair
      /\ ValueBy(jb, e2) = [cost |-> jb.cost.copy[x2][a2], weight |-> jb.weight.copy[x2][a2]]
  BY CopyValue
<1> HIDE DEF x, a, x2, a2
<1>7. jb.cost.copy[x2][a2] <= jb.cost.copy[x][a] /\ jb.weight.copy[x2][a2] <= jb.weight.copy[x][a]
  BY <1>4 DEF MonotoneJob, Monotone
<1> DEFINE v == ValueBy(jb, e)
           v2 == ValueBy(jb, e2)
<1>8. v2.cost <= v.cost /\ v2.weight <= v.weight
  BY <1>5, <1>6, <1>7
<1>9. v \in Pair /\ v2 \in Pair
  BY <1>5, <1>6
<1> HIDE DEF v, v2
<1>10. v.cost \in Nat /\ v.weight \in Nat /\ v2.cost \in Nat /\ v2.weight \in Nat
  BY <1>9 DEF Pair
<1>11. AtMost(v2, v)
  BY <1>8, <1>9, <1>10, AtMostIs
<1> QED
  BY <1>11 DEF v, v2

(* A copy without its first symbol.                                        *)
Shortened(e) == [d |-> e.d, ell |-> e.ell - 1, cost_id |-> GetId(e.d, e.ell - 1)]
LEMMA ShortenedIs ==
  ASSUME NEW text, Len(text) \in Nat, NEW n \in 0 .. Len(text), NEW e, GoodEdge(text, n, e), e.ell > 1
  PROVE  /\ n + 1 \in 0 .. Len(text) /\ GoodEdge(text, n + 1, Shortened(e)) /\ Shortened(e) \in MeshEdge
         /\ Shortened(e).ell = e.ell - 1
         /\ LowerBound(Dst, Shortened(e).d) <= LowerBound(Dst, e.d)
         /\ LowerBound(Lens, Shortened(e).ell) <= LowerBound(Lens, e.ell)
<1> DEFINE d == e.d
           ell == e.ell
           m == n + 1
           k == ell - 1
           s == Shortened(e)
<1>1. /\ d \in Nat \ {0} /\ d <= n /\ ell \in Nat \ {0} /\ n + ell <= Len(text)
      /\ LowerBound(Dst, d) \in 0 .. (Len(Dst) - 1)
  BY CopyClasses DEF GoodEdge
<1>2. /\ ell <= MatchLen(text, n, d) /\ d <= Last(Dst) /\ ell <= Last(Lens)
      /\ MatchLen(text, n, d) \in 0 .. (Len(text) - n)
  <2>1. IsCopy(text, n, e)
    BY DEF GoodEdge
  <2>2. MatchLen(text, n, d) \in 0 .. (Len(text) - n)
    BY MatchLenIs
  <2> QED
    BY <2>1, <2>2 DEF IsCopy
<1>3. Same(text, n, d, ell)
  <2>1. ell \in 0 .. (Len(text) - n)
    BY <1>1
  <2> HIDE DEF ell, d
  <2> QED
    BY <2>1, <1>2, MatchLenIs
<1>4. s.d = d /\ s.ell = k /\ s.cost_id = GetId(d, k)
  BY DEF Shortened
<1>5. ell > 1
  OBVIOUS
<1> HIDE DEF d, ell, s
<1>6. /\ m \in 0 .. Len(text) /\ m \in Nat /\ k \in Nat \ {0} /\ k \in 0 .. (Len(text) - m) /\ k <= ell
  BY <1>1, <1>5
<1>7. Same(text, m, d, k)
  <2>1. ASSUME NEW q \in 1 .. k PROVE text[m + q] = text[m + q - d]
    <3> DEFINE r == q + 1
    <3>1. r \in 1 .. ell /\ n + r = m + q /\ n + r - d = m + q - d
      BY <1>1, <1>6
    <3> HIDE DEF r
    <3>2. text[n + r] = text[n + r - d]
      BY <3>1, <1>3 DEF Same
    <3> QED
      BY <3>1, <3>2
  <2> HIDE DEF m, k
  <2> QED
    BY <2>1 DEF Same
<1>8. k <= MatchLen(text, m, d) /\ MatchLen(text, m, d) \in Nat
  <2> HIDE DEF m, k
  <2>1. MatchLen(text, m, d) \in 0 .. (Len(text) - m)
        /\ \A x \in 0 .. (Len(text) - m) : Same(text, m, d, x) <=> x <= MatchLen(text, m, d)
    BY <1>6, MatchLenIs
  <2> QED
    BY <2>1, <1>6, <1>7
<1>9. Last(Lens) \in Nat /\ k <= Last(Lens)
  BY <1>1, <1>2, <1>6, LastLen
<1>10. IsCopy(text, m, s)
  <2>1. d \in 1 .. m /\ k \in 1 .. MatchLen(text, m, d)
    BY <1>1, <1>6, <1>8
  <2> QED
    BY <2>1, <1>2, <1>4, <1>9 DEF IsCopy
<1> DEFINE x == LowerBound(Dst, d)
           a == LowerBound(Lens, k)
<1>11. /\ x \in Nat /\ a \in Nat
  <2>1. LowerBound(Lens, k) \in 0 .. Len(Lens) /\ Len(Lens) \in Nat /\ Len(Dst) \in Nat
    BY <1>6, LastLen, ClassesAssumption, LowerBoundIs, ClassesIncrease
  <2> QED
    BY <2>1, <1>1
<1>12. GetId(d, k) \in Nat
  <2> HIDE DEF x, a
  <2>1. Wrap(a, x) \in Nat
    BY <1>11, WrapIs
  <2> QED
    BY <2>1 DEF GetId, x, a
<1>13. s \in MeshEdge
  <2>1. s = [d |-> d, ell |-> k, cost_id |-> GetId(d, k)]
    BY DEF s, Shortened, d, ell
  <2> HIDE DEF k
  <2> QED
    BY <2>1, <1>1, <1>6, <1>12 DEF MeshEdge
<1>14. LowerBound(Lens, k) <= LowerBound(Lens, ell)
  BY <1>1, <1>6, ClassesAssumption, ClassesGrow
<1>15. x <= x
  BY <1>11
<1> QED
  BY <1>4, <1>6, <1>10, <1>13, <1>14, <1>15 DEF GoodEdge, s, d, ell

(* What a run costs grows with it.                                         *)
LEMMA RunsGrow ==
  ASSUME NEW jb \in Jobs, NEW n \in Nat, NEW m \in Nat, n <= m
  PROVE  AtMost(RunCost(jb, n), RunCost(jb, m))
<1> DEFINE c == jb.cost.lit_var
           v == jb.weight.lit_var
           fc == jb.cost.lit_fixed
           fw == jb.weight.lit_fixed
<1>1. c \in Nat /\ v \in Nat /\ fc \in Nat /\ fw \in Nat
  BY JobIs DEF Model
<1>2. /\ RunCost(jb, n) = [cost |-> fc + n * c, weight |-> fw + n * v]
      /\ RunCost(jb, m) = [cost |-> fc + m * c, weight |-> fw + m * v]
      /\ RunCost(jb, n) \in Pair /\ RunCost(jb, m) \in Pair
  BY RunCostIs DEF RunCost
<1> HIDE DEF c, v, fc, fw
<1>3. PICK z \in Nat : m = n + z
  <2>1. m - n \in Nat /\ m = n + (m - n)
    OBVIOUS
  <2> QED
    BY <2>1
<1>4. (n + z) * c = n * c + z * c /\ (n + z) * v = n * v + z * v
  BY <1>1
<1>5. n * c \in Nat /\ z * c \in Nat /\ n * v \in Nat /\ z * v \in Nat
  BY <1>1
<1> DEFINE nc == n * c
           mc == m * c
           nv == n * v
           mv == m * v
<1>6. nc \in Nat /\ mc \in Nat /\ nv \in Nat /\ mv \in Nat /\ nc <= mc /\ nv <= mv
  BY <1>3, <1>4, <1>5
<1>7. /\ RunCost(jb, n) = [cost |-> fc + nc, weight |-> fw + nv]
      /\ RunCost(jb, m) = [cost |-> fc + mc, weight |-> fw + mv]
  BY <1>2
<1> HIDE DEF nc, mc, nv, mv
<1>8. /\ RunCost(jb, n).cost <= RunCost(jb, m).cost /\ RunCost(jb, n).weight <= RunCost(jb, m).weight
  BY <1>1, <1>6, <1>7
<1>9. /\ RunCost(jb, n).cost \in Nat /\ RunCost(jb, m).cost \in Nat
      /\ RunCost(jb, n).weight \in Nat /\ RunCost(jb, m).weight \in Nat
  BY <1>2 DEF Pair
<1> QED
  BY <1>2, <1>8, <1>9, AtMostIs

(* Without rm_protocol, the end is never farther from a later position.    *)
LEMMA RestFalls ==
  ASSUME NEW jb \in Jobs, ~ jb.rightmost, MonotoneJob(jb), NEW n \in 0 .. (Len(jb.text) - 1)
  PROVE  AtMost(Rest(jb, n + 1), Rest(jb, n))
<1> DEFINE N == Len(jb.text)
           s == StartBy(jb, n)
           part == BucketOf(jb, s)
           at == n - s
           u == n + 1
<1>1. /\ N \in Nat /\ n \in Nat /\ u \in 0 .. N /\ u \in Nat
  BY JobIs
<1>2. PICK e \in EdgesBy(jb, n) : Rest(jb, n) = Plus(ValueBy(jb, e), Rest(jb, n + e.ell))
  BY RestIs
<1> DEFINE ell == e.ell
           k == ell - 1
           to == n + ell
<1>3. ell \in 1 .. (N - n) /\ ell \in Nat \ {0} /\ ValueBy(jb, e) \in Pair
  <2>1. ell \in 1 .. (N - n) /\ ValueBy(jb, e) \in Pair
    BY EdgesAre
  <2> QED
    BY <2>1, <1>1
<1> HIDE DEF ell, N
<1>4. /\ to \in 0 .. Len(jb.text) /\ Rest(jb, to) \in Pair /\ Rest(jb, u) \in Pair /\ Rest(jb, n) \in Pair
      /\ Rest(jb, n) = Plus(ValueBy(jb, e), Rest(jb, to))
  <2>1. to \in 0 .. Len(jb.text) /\ u \in 0 .. Len(jb.text)
    BY <1>1, <1>3 DEF N
  <2>2. Rest(jb, n) = Plus(ValueBy(jb, e), Rest(jb, to))
    BY <1>2 DEF ell
  <2> HIDE DEF to, u
  <2> QED
    BY <2>1, <2>2, RestIs
<1>5. CASE ell = 1
  <2>1. to = u
    BY <1>5
  <2> HIDE DEF to, u
  <2>2. AtMost(Rest(jb, u), Plus(ValueBy(jb, e), Rest(jb, u)))
    BY <1>3, <1>4, AtMostPlus
  <2> QED
    BY <1>4, <2>1, <2>2 DEF u
<1>6. ASSUME ell > 1, NEW e2 \in EdgesBy(jb, u), e2.ell = k, AtMost(ValueBy(jb, e2), ValueBy(jb, e))
      PROVE  AtMost(Rest(jb, u), Rest(jb, n))
  <2>1. u \in 0 .. (Len(jb.text) - 1) /\ u + k = to
    BY <1>1, <1>3, <1>6 DEF N
  <2>2. u + e2.ell = to
    BY <1>6, <2>1
  <2> HIDE DEF u, k, to
  <2>3. AtMost(Rest(jb, u), Plus(ValueBy(jb, e2), Rest(jb, to)))
    BY <1>6, <2>1, <2>2, RestIs
  <2>4. ValueBy(jb, e2) \in Pair
    BY <2>1, <1>6, EdgesAre
  <2>5. /\ Plus(ValueBy(jb, e2), Rest(jb, to)) \in Pair
        /\ AtMost(Plus(ValueBy(jb, e2), Rest(jb, to)), Plus(ValueBy(jb, e), Rest(jb, to)))
    BY <1>3, <1>4, <1>6, <2>4, AtMostPlus
  <2> QED
    BY <1>4, <2>3, <2>5, AtMostOrder
<1>7. CASE ell > 1 /\ e \in RunsBy(jb, n)
  <2>1. PICK r \in {q \in 1 .. (Len(jb.text) - n) : q <= jb.window} : e = Plain(r)
    BY <1>7 DEF RunsBy
  <2>2. ell = r /\ ell <= jb.window /\ jb.window \in Nat
    BY <2>1, JobIs DEF Plain, ell
  <2>3. k \in 1 .. (Len(jb.text) - u) /\ k <= jb.window /\ k \in Nat /\ k <= ell
    BY <1>1, <1>3, <1>7, <2>2 DEF N
  <2> HIDE DEF k, u
  <2>4. Plain(k) \in EdgesBy(jb, u) /\ Plain(k).ell = k
    BY <2>3 DEF EdgesBy, RunsBy, Plain
  <2>5. \A q \in Nat : ValueBy(jb, Plain(q)) = RunCost(jb, q)
    BY DEF ValueBy, Plain, EdgeCost, IsRegular, RunCost
  <2>6. AtMost(ValueBy(jb, Plain(k)), ValueBy(jb, e))
    BY <1>3, <2>1, <2>2, <2>3, <2>5, RunsGrow
  <2>7. AtMost(Rest(jb, u), Rest(jb, n))
    BY <1>6, <1>7, <2>4, <2>6
  <2> QED
    BY <2>7 DEF u
<1>8. CASE ell > 1 /\ e \in GivenBy(jb, n)
  <2>1. /\ s \in Nat /\ s \in 0 .. Len(jb.text) /\ n \in s .. EndOf(jb, s) /\ Len(part) \in Nat
        /\ at \in 0 .. Len(part) /\ Len(part) = EndOf(jb, s) - s /\ EndOf(jb, s) \in Nat
        /\ EndOf(jb, s) <= Len(jb.text) /\ EndOf(jb, s) <= s + jb.bucket /\ s % jb.bucket = 0
        /\ jb.bucket \in Nat \ {0}
    BY AtBucket, JobIs
  <2>2. e \in Copies(part, at)
    BY <1>8 DEF GivenBy, CopiesBy
  <2> HIDE DEF part, s
  <2> DEFINE e2 == Shortened(e)
             w == at + 1
  <2>3. GoodEdge(part, at, e)
    BY <2>1, <2>2, CopiesAre DEF GoodEdge
  <2>4. /\ w \in 0 .. Len(part) /\ GoodEdge(part, w, e2) /\ e2 \in MeshEdge /\ e2.ell = k
        /\ LowerBound(Dst, e2.d) <= LowerBound(Dst, e.d)
        /\ LowerBound(Lens, e2.ell) <= LowerBound(Lens, e.ell)
    <3> HIDE DEF at
    <3>1. e.ell > 1
      BY <1>8 DEF ell
    <3> QED
      BY <2>1, <2>3, <3>1, ShortenedIs DEF ell
  <2> HIDE DEF e2
  <2>5. AtMost(ValueBy(jb, e2), ValueBy(jb, e))
    <3> HIDE DEF at, w
    <3> QED
      BY <2>1, <2>3, <2>4, Cheaper
  <2>6. e2 \in Copies(part, w)
    <3> HIDE DEF w
    <3> QED
      BY <2>1, <2>4, CopiesAre
  <2>7. u < EndOf(jb, s)
    <3>1. at + ell <= Len(part)
      <4> HIDE DEF at
      <4>1. at + e.ell <= Len(part)
        BY <2>1, <2>3, CopyClasses DEF GoodEdge
      <4> QED
        BY <4>1 DEF ell
    <3> QED
      BY <3>1, <2>1, <1>1, <1>3, <1>8
  <2>8. StartBy(jb, u) = s
    <3>1. s <= u /\ u < s + jb.bucket
      BY <1>1, <2>1, <2>7
    <3> HIDE DEF u
    <3> QED
      BY <1>1, <2>1, <3>1, InMultiple DEF StartBy
  <2>9. u - s = w
    BY <1>1, <2>1
  <2> HIDE DEF u, w
  <2>10. e2 \in EdgesBy(jb, u)
    BY <2>6, <2>8, <2>9 DEF EdgesBy, GivenBy, CopiesBy, part
  <2>11. AtMost(Rest(jb, u), Rest(jb, n))
    BY <1>6, <1>8, <2>4, <2>5, <2>10
  <2> QED
    BY <2>11 DEF u
<1>9. ell = 1 \/ ell > 1
  BY <1>3
<1> QED
  BY <1>5, <1>7, <1>8, <1>9 DEF EdgesBy

LEMMA RestFallsTo ==
  ASSUME NEW jb \in Jobs, ~ jb.rightmost, MonotoneJob(jb),
         NEW n \in 0 .. Len(jb.text), NEW m \in 0 .. Len(jb.text), n <= m
  PROVE  AtMost(Rest(jb, m), Rest(jb, n))
<1> DEFINE N == Len(jb.text)
           Below == {k \in Nat : n + k <= N => AtMost(Rest(jb, n + k), Rest(jb, n))}
<1>1. N \in Nat /\ n \in Nat /\ m \in Nat /\ m <= N /\ n <= N
  BY JobIs
<1>2. \A q \in 0 .. N : Rest(jb, q) \in Pair
  BY RestIs
<1>3. 0 \in Below
  <2>1. n + 0 = n /\ Rest(jb, n) \in Pair
    BY <1>1, <1>2
  <2>2. AtMost(Rest(jb, n), Rest(jb, n))
    BY <2>1, AtMostOrder
  <2> QED
    BY <2>1, <2>2
<1>4. ASSUME NEW k \in Nat, k \in Below PROVE (k + 1) \in Below
  <2> SUFFICES ASSUME n + (k + 1) <= N PROVE AtMost(Rest(jb, n + (k + 1)), Rest(jb, n))
    OBVIOUS
  <2> DEFINE q == n + k
             u == q + 1
  <2>1. q \in 0 .. (N - 1) /\ q \in 0 .. N /\ u \in 0 .. N /\ n + (k + 1) = u /\ q <= N
    BY <1>1
  <2>2. AtMost(Rest(jb, q), Rest(jb, n))
    BY <1>4, <2>1
  <2> HIDE DEF q
  <2>3. AtMost(Rest(jb, u), Rest(jb, q))
    BY <2>1, RestFalls
  <2> HIDE DEF u
  <2>4. AtMost(Rest(jb, u), Rest(jb, n))
    BY <1>1, <1>2, <2>1, <2>2, <2>3, AtMostOrder
  <2> QED
    BY <2>1, <2>4
<1> HIDE DEF Below
<1>5. Nat \subseteq Below
  BY <1>3, <1>4, InductionOn
<1>6. m - n \in Nat /\ n + (m - n) = m
  BY <1>1
<1> DEFINE z == m - n
<1> HIDE DEF z
<1>7. z \in Below /\ n + z = m
  BY <1>5, <1>6 DEF z
<1> QED
  BY <1>1, <1>7 DEF Below

(* A phrase stays inside the text.                                         *)
LEMMA PhraseIs ==
  ASSUME NEW jb \in Jobs, NEW n \in 0 .. Len(jb.text), NEW e, IsPhrase(jb, n, e)
  PROVE  /\ e.ell \in 1 .. (Len(jb.text) - n) /\ n < Len(jb.text)
         /\ n + e.ell \in 0 .. Len(jb.text) /\ (Len(jb.text) - n) - e.ell \in 0 .. Len(jb.text)
         /\ (Len(jb.text) - n) - e.ell < Len(jb.text) - n
<1> DEFINE ell == e.ell
           N == Len(jb.text)
<1>1. N \in Nat
  BY JobIs
<1>2. ell \in 1 .. (N - n)
  <2>1. CASE IsCopy(jb.text, n, e)
    <3>1. ell \in Nat \ {0} /\ n + ell <= N
      BY <2>1, <1>1, CopyClasses
    <3> HIDE DEF ell, N
    <3>2. n \in Nat
      BY <1>1 DEF N
    <3> QED
      BY <3>1, <3>2, <1>1
  <2>2. CASE ~ IsCopy(jb.text, n, e)
    BY <2>2 DEF IsPhrase
  <2> QED
    BY <2>1, <2>2
<1> HIDE DEF ell, N
<1>3. n \in 0 .. N
  BY DEF N
<1>4. n < N /\ n + ell \in 0 .. N /\ (N - n) - ell \in 0 .. N /\ (N - n) - ell < N - n
  BY <1>1, <1>2, <1>3
<1> QED
  BY <1>2, <1>4 DEF ell, N

(* The cost of a parsing, from the end back.                               *)
Whole == [cost : Int, weight : Int]
LEMMA FollowedIs ==
  ASSUME NEW jb \in Jobs, NEW P, Priced(jb, P)
  PROVE  /\ FollowedBy(jb, P)[0] = Zero
         /\ \A n \in 0 .. (Len(jb.text) - 1) :
              FollowedBy(jb, P)[Len(jb.text) - n] =
                IF IsPhrase(jb, n, P[n])
                THEN Plus(ValueBy(jb, P[n]), FollowedBy(jb, P)[(Len(jb.text) - n) - P[n].ell])
                ELSE Unreached
<1> DEFINE N == Len(jb.text)
           next_of(g, k) == IF IsPhrase(jb, N - k, P[N - k])
                            THEN Plus(ValueBy(jb, P[N - k]), g[k - P[N - k].ell])
                            ELSE Unreached
           body(g, k) == IF k = 0 THEN Zero ELSE next_of(g, k)
           Def(g) == [k \in 0 .. N |-> body(g, k)]
           step == [v \in (0 .. N) \X [0 .. N -> Whole] |-> body(v[2], v[1])]
           f == FollowedBy(jb, P)
<1>1. N \in Nat /\ Zero \in Whole /\ Unreached \in Whole /\ Pair \subseteq Whole
  BY JobIs DEF Zero, Unreached, Pair, Whole
<1>2. \A x, y \in Whole : Plus(x, y) \in Whole
  BY DEF Plus, Whole
<1>3. ASSUME NEW k \in 1 .. N, IsPhrase(jb, N - k, P[N - k])
      PROVE  /\ k - P[N - k].ell \in 0 .. N /\ k - P[N - k].ell < k
             /\ ValueBy(jb, P[N - k]) \in Whole
  <2> DEFINE n == N - k
  <2>1. n \in 0 .. Len(jb.text) /\ N - n = k
    BY <1>1
  <2> HIDE DEF n
  <2>2. IsPhrase(jb, n, P[n])
    BY <1>3 DEF n
  <2>3. (N - n) - P[n].ell \in 0 .. N /\ (N - n) - P[n].ell < N - n
    BY <2>1, <2>2, PhraseIs
  <2>4. ValueBy(jb, P[n]) \in Whole
    BY <1>1, <2>1, <2>2 DEF Priced
  <2> HIDE DEF N
  <2> QED
    BY <2>1, <2>3, <2>4 DEF n
<1> HIDE DEF N
<1>4. ASSUME NEW k \in 0 .. N, NEW g \in [0 .. N -> Whole] PROVE body(g, k) \in Whole
  <2>1. CASE k = 0
    BY <2>1, <1>1
  <2>2. CASE k # 0 /\ IsPhrase(jb, N - k, P[N - k])
    <3>1. k \in 1 .. N
      BY <2>2
    <3>2. k - P[N - k].ell \in 0 .. N /\ ValueBy(jb, P[N - k]) \in Whole
      BY <3>1, <2>2, <1>3
    <3>3. Plus(ValueBy(jb, P[N - k]), g[k - P[N - k].ell]) \in Whole
      BY <3>2, <1>2
    <3> QED
      BY <3>3, <2>2
  <2>3. CASE k # 0 /\ ~ IsPhrase(jb, N - k, P[N - k])
    BY <2>3, <1>1
  <2> QED
    BY <2>1, <2>2, <2>3
<1>5. step \in [(0 .. N) \X [0 .. N -> Whole] -> Whole]
  <2> HIDE DEF body
  <2> QED
    BY <1>4
<1>6. ASSUME NEW k \in 0 .. N, NEW g \in [0 .. N -> Whole] PROVE step[<<k, g>>] = body(g, k)
  <2> HIDE DEF body
  <2>1. <<k, g>> \in (0 .. N) \X [0 .. N -> Whole]
    OBVIOUS
  <2> QED
    BY <2>1
<1> HIDE DEF step
<1>7. ASSUME NEW k \in 0 .. N, NEW g \in [0 .. N -> Whole], NEW h \in [0 .. N -> Whole],
             \A m \in 0 .. N : m < k => g[m] = h[m]
      PROVE  step[<<k, g>>] = step[<<k, h>>]
  <2>1. body(g, k) = body(h, k)
    <3>1. CASE k = 0
      BY <3>1
    <3>2. CASE k # 0 /\ IsPhrase(jb, N - k, P[N - k])
      <4>1. k \in 1 .. N
        BY <3>2
      <4>2. g[k - P[N - k].ell] = h[k - P[N - k].ell]
        BY <3>2, <4>1, <1>3, <1>7
      <4> QED
        BY <4>2
    <3>3. CASE k # 0 /\ ~ IsPhrase(jb, N - k, P[N - k])
      BY <3>3
    <3> QED
      BY <3>1, <3>2, <3>3
  <2> HIDE DEF body
  <2> QED
    BY <2>1, <1>6
<1>8. LooksBack(N, Whole, step)
  BY <1>7, Zenon DEF LooksBack
<1>9. PICK g : CourseOf(g, N, Whole, step)
  BY <1>1, <1>5, <1>8, CourseOn
<1>10. g \in [0 .. N -> Whole] /\ \A k \in 0 .. N : g[k] = body(g, k)
  <2> HIDE DEF body
  <2> QED
    BY <1>6, <1>9 DEF CourseOf
<1>11. g = Def(g)
  <2> HIDE DEF body
  <2> QED
    BY <1>10
<1>12. f = CHOOSE h : h = Def(h)
  BY DEF FollowedBy, N
<1> HIDE DEF f
<1>13. f = Def(f)
  <2> HIDE DEF Def
  <2> QED
    BY <1>11, <1>12, Zenon
<1>14. \A k \in 0 .. N : f[k] = body(f, k)
  <2> HIDE DEF body
  <2> QED
    BY <1>13
<1>15. f[0] = Zero
  <2>1. body(f, 0) = Zero
    OBVIOUS
  <2>2. 0 \in 0 .. N
    BY <1>1
  <2> HIDE DEF body
  <2> QED
    BY <2>1, <2>2, <1>14
<1>16. ASSUME NEW n \in 0 .. (N - 1)
       PROVE  f[N - n] = IF IsPhrase(jb, n, P[n]) THEN Plus(ValueBy(jb, P[n]), f[(N - n) - P[n].ell])
                         ELSE Unreached
  <2> DEFINE k == N - n
  <2>1. k \in 0 .. N /\ k # 0 /\ N - k = n
    BY <1>1
  <2> HIDE DEF k
  <2>2. f[k] = body(f, k)
    <3> HIDE DEF body
    <3> QED
      BY <2>1, <1>14
  <2>3. body(f, k) = next_of(f, k)
    <3> HIDE DEF next_of
    <3> QED
      BY <2>1
  <2>4. next_of(f, k) = IF IsPhrase(jb, n, P[n]) THEN Plus(ValueBy(jb, P[n]), f[k - P[n].ell]) ELSE Unreached
    BY <2>1
  <2> HIDE DEF body, next_of
  <2> QED
    BY <2>2, <2>3, <2>4 DEF k
<1> QED
  BY <1>15, <1>16 DEF f, N

(* What follows a position depends on the edges from it on only.           *)
SameFrom(f, g, m, top) == \A n \in m .. top : g[n] = f[n]
LEMMA FollowedAgree ==
  ASSUME NEW jb \in Jobs, NEW P, Priced(jb, P), NEW P2, Priced(jb, P2),
         NEW m \in 0 .. Len(jb.text), SameFrom(P, P2, m, Len(jb.text))
  PROVE  SameFrom(FollowedBy(jb, P), FollowedBy(jb, P2), 0, Len(jb.text) - m)
<1> DEFINE N == Len(jb.text)
           f == FollowedBy(jb, P)
           g == FollowedBy(jb, P2)
           Agree == {n \in Nat : \A k \in 0 .. (N - m) : k <= n => g[k] = f[k]}
<1>1. N \in Nat /\ m \in Nat /\ m <= N
  BY JobIs
<1>2. f[0] = Zero /\ g[0] = Zero
  BY FollowedIs
<1>3. 0 \in Agree
  <2>1. \A k \in 0 .. (N - m) : k <= 0 => k = 0
    BY <1>1
  <2> QED
    BY <2>1, <1>2
<1>4. ASSUME NEW n \in Nat, n \in Agree PROVE (n + 1) \in Agree
  <2> DEFINE u == n + 1
             q == N - u
  <2>1. u \in Nat /\ \A k \in 0 .. (N - m) : k <= u => k <= n \/ k = u
    OBVIOUS
  <2>2. u \in 0 .. (N - m) => g[u] = f[u]
    <3> SUFFICES ASSUME u \in 0 .. (N - m) PROVE g[u] = f[u]
      OBVIOUS
    <3>1. q \in 0 .. (N - 1) /\ q \in 0 .. N /\ q \in m .. N /\ N - q = u /\ u <= N - m /\ u = n + 1
      <4>1. u \in Nat \ {0} /\ u <= N - m /\ u = n + 1
        BY <1>1
      <4> HIDE DEF N, u
      <4> QED
        BY <1>1, <4>1
    <3> HIDE DEF q, f, g
    <3>2. P2[q] = P[q]
      BY <3>1 DEF N, SameFrom
    <3>3. f[N - q] = IF IsPhrase(jb, q, P[q]) THEN Plus(ValueBy(jb, P[q]), f[(N - q) - P[q].ell]) ELSE Unreached
      BY <3>1, FollowedIs DEF f, N
    <3>4. g[N - q] = IF IsPhrase(jb, q, P2[q]) THEN Plus(ValueBy(jb, P2[q]), g[(N - q) - P2[q].ell]) ELSE Unreached
      BY <3>1, FollowedIs DEF g, N
    <3>5. CASE IsPhrase(jb, q, P[q])
      <4> DEFINE z == (N - q) - P[q].ell
      <4>1. z \in 0 .. N /\ z < N - q
        BY <3>1, <3>5, PhraseIs DEF N
      <4> HIDE DEF z
      <4>2. z \in 0 .. (N - m) /\ z <= n
        BY <4>1, <3>1, <1>1
      <4>3. g[z] = f[z]
        BY <4>2, <1>4 DEF Agree
      <4> QED
        BY <4>3, <3>1, <3>2, <3>3, <3>4, <3>5 DEF z
    <3>6. CASE ~ IsPhrase(jb, q, P[q])
      BY <3>1, <3>2, <3>3, <3>4, <3>6
    <3> QED
      BY <3>5, <3>6
  <2> HIDE DEF u, f, g
  <2> DEFINE T == Agree
  <2>3. \A k \in 0 .. (N - m) : k <= u => g[k] = f[k]
    BY <2>1, <2>2, <1>4
  <2> QED
    BY <2>1, <2>3 DEF u
<1> HIDE DEF Agree, f, g
<1>5. Nat \subseteq Agree
  BY <1>3, <1>4, InductionOn
<1>6. N - m \in Nat
  BY <1>1
<1>7. \A k \in 0 .. (N - m) : g[k] = f[k]
  <2>1. N - m \in Agree
    BY <1>5, <1>6
  <2> QED
    BY <2>1, <1>6 DEF Agree
<1> QED
  BY <1>7 DEF f, g, N, SameFrom

-------------------------------------------------------------------------------
(* What relaxing an edge of the graph does to the costs found.             *)
Costs(jb) == [0 .. Len(jb.text) -> Pair \union {Unreached}]
Relaxes(jb, cost, P, cost2, P2, from, to, e) ==
  /\ from \in 0 .. (Len(jb.text) - 1) /\ e \in EdgesBy(jb, from) /\ to = from + e.ell
  /\ cost \in Costs(jb) /\ cost2 \in Costs(jb) /\ cost[from] \in Pair
  /\ \A n \in 0 .. Len(jb.text) : n # to => cost2[n] = cost[n] /\ P2[n] = P[n]
  /\ \/ cost2[to] = Plus(cost[from], ValueBy(jb, e)) /\ P2[to] = e
        /\ Less(cost2[to], cost[to])
     \/ cost2[to] = cost[to] /\ P2[to] = P[to] /\ cost[to] \in Pair
        /\ ~ Less(Plus(cost[from], ValueBy(jb, e)), cost[to])

LEMMA RelaxesIs ==
  ASSUME NEW jb \in Jobs, NEW cost, NEW P, NEW cost2, NEW P2, NEW from, NEW to, NEW e,
         Relaxes(jb, cost, P, cost2, P2, from, to, e)
  PROVE  /\ from \in 0 .. Len(jb.text) /\ to \in 1 .. Len(jb.text) /\ to \in 0 .. Len(jb.text) /\ from < to
         /\ e.ell \in 1 .. to /\ to - e.ell = from
         /\ ValueBy(jb, e) \in Pair /\ Plus(cost[from], ValueBy(jb, e)) \in Pair
         /\ cost2[to] \in Pair /\ AtMost(cost2[to], Plus(cost[from], ValueBy(jb, e)))
         /\ \A n \in 0 .. Len(jb.text) : cost[n] \in Pair => cost2[n] \in Pair /\ AtMost(cost2[n], cost[n])
         /\ \A n \in 0 .. Len(jb.text) : n < to => cost2[n] = cost[n] /\ P2[n] = P[n]
<1> DEFINE N == Len(jb.text)
           ell == e.ell
           value == ValueBy(jb, e)
           new == Plus(cost[from], value)
<1>1. /\ N \in Nat /\ from \in 0 .. (N - 1) /\ ell \in 1 .. (N - from) /\ value \in Pair /\ to = from + ell
  BY JobIs, EdgesAre DEF Relaxes
<1>2. /\ cost[from] \in Pair /\ \A n \in 0 .. N : n # to => cost2[n] = cost[n] /\ P2[n] = P[n]
      /\ \/ cost2[to] = new /\ Less(cost2[to], cost[to])
         \/ cost2[to] = cost[to] /\ cost[to] \in Pair /\ ~ Less(new, cost[to])
  BY DEF Relaxes
<1> HIDE DEF N, ell, value
<1>3. new \in Pair
  BY <1>1, <1>2, LessPlus
<1>4. /\ from \in 0 .. N /\ to \in 1 .. N /\ to \in 0 .. N /\ from < to /\ ell \in 1 .. to /\ to - ell = from
  BY <1>1
<1> HIDE DEF new
<1>5. cost2[to] \in Pair /\ AtMost(cost2[to], new)
  BY <1>2, <1>3, LessOrder DEF AtMost
<1>6. cost[to] \in Pair => AtMost(cost2[to], cost[to])
  BY <1>2, <1>3, LessOrder DEF AtMost
<1>7. ASSUME NEW n \in 0 .. N, cost[n] \in Pair PROVE cost2[n] \in Pair /\ AtMost(cost2[n], cost[n])
  <2>1. CASE n = to
    BY <2>1, <1>5, <1>6, <1>7
  <2>2. CASE n # to
    BY <2>2, <1>2, <1>7, AtMostOrder
  <2> QED
    BY <2>1, <2>2
<1>8. \A n \in 0 .. N : n < to => n # to
  BY <1>1
<1> QED
  BY <1>1, <1>2, <1>3, <1>4, <1>5, <1>7, <1>8 DEF N, ell, value, new

LEMMA TreeKept ==
  ASSUME NEW jb \in Jobs, NEW cost, NEW P, NEW cost2, NEW P2, NEW from, NEW to, NEW e, NEW at \in Nat,
         Relaxes(jb, cost, P, cost2, P2, from, to, e), from <= at, at < to,
         Tree(jb, cost, P, Len(jb.text), at)
  PROVE  Tree(jb, cost2, P2, Len(jb.text), at)
<1> DEFINE N == Len(jb.text)
           value == ValueBy(jb, e)
<1>1. /\ N \in Nat /\ from \in 0 .. N /\ to \in 1 .. N /\ from < to /\ e.ell \in 1 .. to /\ to - e.ell = from
      /\ value \in Pair /\ \A n \in 0 .. N : n < to => cost2[n] = cost[n] /\ P2[n] = P[n]
  BY RelaxesIs, JobIs
<1>2. /\ cost[from] \in Pair /\ \A n \in 0 .. N : n # to => cost2[n] = cost[n] /\ P2[n] = P[n]
      /\ \/ cost2[to] = Plus(cost[from], value) /\ P2[to] = e
         \/ cost2[to] = cost[to] /\ P2[to] = P[to]
      /\ e \in EdgesBy(jb, from)
  BY DEF Relaxes
<1>3. /\ cost[0] = Zero /\ P[0] = InvalidBy(jb)
      /\ \A n \in 1 .. N : cost[n] \in Pair => TreeEdge(jb, cost, n, at, P[n])
  BY DEF Tree
<1> HIDE DEF N, value
<1>4. cost2[0] = Zero /\ P2[0] = InvalidBy(jb)
  <2>1. 0 \in 0 .. N /\ 0 < to
    BY <1>1
  <2> QED
    BY <2>1, <1>1, <1>3
<1>5. ASSUME NEW n \in 1 .. N, NEW e2, TreeEdge(jb, cost, n, at, e2), cost2[n] = cost[n]
      PROVE  TreeEdge(jb, cost2, n, at, e2)
  <2> DEFINE m == n - e2.ell
  <2>1. e2.ell \in 1 .. n /\ m <= at
    BY <1>5 DEF TreeEdge
  <2>2. m \in 0 .. N /\ m < to
    BY <2>1, <1>1
  <2>3. cost2[m] = cost[m]
    <3> HIDE DEF m
    <3> QED
      BY <2>2, <1>1
  <2> QED
    BY <2>3, <1>5 DEF TreeEdge
<1>6. TreeEdge(jb, cost2, to, at, e) \/ (cost2[to] = cost[to] /\ P2[to] = P[to])
  <2> SUFFICES ASSUME cost2[to] = Plus(cost[from], value) PROVE TreeEdge(jb, cost2, to, at, e)
    BY <1>2
  <2>1. cost2[from] = cost[from]
    BY <1>1
  <2> QED
    BY <2>1, <1>1, <1>2 DEF TreeEdge, value
<1>7. ASSUME NEW n \in 1 .. N, cost2[n] \in Pair PROVE TreeEdge(jb, cost2, n, at, P2[n])
  <2>1. n \in 0 .. N
    BY <1>1
  <2>2. CASE n # to
    <3>1. cost2[n] = cost[n] /\ P2[n] = P[n]
      BY <2>1, <2>2, <1>2
    <3> QED
      BY <3>1, <1>3, <1>5, <1>7
  <2>3. CASE n = to
    <3>1. CASE cost2[to] = cost[to] /\ P2[to] = P[to]
      BY <3>1, <2>3, <1>3, <1>5, <1>7
    <3>2. CASE cost2[to] = Plus(cost[from], value) /\ P2[to] = e
      <4>1. cost2[from] = cost[from]
        BY <1>1
      <4> QED
        BY <4>1, <3>2, <2>3, <1>1, <1>2 DEF TreeEdge, value
    <3> QED
      BY <3>1, <3>2, <1>2
  <2> QED
    BY <2>2, <2>3
<1> QED
  BY <1>4, <1>7 DEF Tree, N

LEMMA TreeGrows ==
  ASSUME NEW jb \in Jobs, NEW cost, NEW P, NEW at \in Nat, NEW at2 \in Nat, at <= at2,
         NEW top \in Nat, NEW top2 \in 0 .. top, Tree(jb, cost, P, top, at)
  PROVE  Tree(jb, cost, P, top2, at2)
<1>1. /\ cost[0] = Zero /\ P[0] = InvalidBy(jb)
      /\ \A n \in 1 .. top : cost[n] \in Pair => TreeEdge(jb, cost, n, at, P[n])
  BY DEF Tree
<1>2. ASSUME NEW n \in 1 .. top2, cost[n] \in Pair PROVE TreeEdge(jb, cost, n, at2, P[n])
  <2>1. n \in 1 .. top
    OBVIOUS
  <2>2. TreeEdge(jb, cost, n, at, P[n])
    BY <2>1, <1>1, <1>2
  <2> DEFINE m == n - P[n].ell
  <2>3. P[n].ell \in 1 .. n /\ m <= at
    BY <2>2 DEF TreeEdge
  <2>4. m <= at2
    BY <2>3
  <2> QED
    BY <2>2, <2>4 DEF TreeEdge
<1> QED
  BY <1>1, <1>2 DEF Tree

LEMMA AboveKept ==
  ASSUME NEW jb \in Jobs, NEW cost, NEW P, NEW cost2, NEW P2, NEW from, NEW to, NEW e,
         Relaxes(jb, cost, P, cost2, P2, from, to, e), Above(jb, cost)
  PROVE  Above(jb, cost2)
<1> DEFINE N == Len(jb.text)
           value == ValueBy(jb, e)
           best == Rest(jb, 0)
<1>1. /\ N \in Nat /\ from \in 0 .. N /\ to \in 0 .. N /\ value \in Pair
  BY RelaxesIs, JobIs
<1>2. /\ cost[from] \in Pair /\ from \in 0 .. (N - 1) /\ e \in EdgesBy(jb, from) /\ to = from + e.ell
      /\ \A n \in 0 .. N : n # to => cost2[n] = cost[n]
      /\ cost2[to] = Plus(cost[from], value) \/ cost2[to] = cost[to]
  BY DEF Relaxes
<1>3. best \in Pair /\ Rest(jb, from) \in Pair /\ Rest(jb, to) \in Pair
  <2>1. 0 \in 0 .. N
    BY <1>1
  <2> QED
    BY <1>1, <2>1, RestIs
<1>4. AtMost(Rest(jb, from), Plus(value, Rest(jb, to)))
  BY <1>2, RestIs
<1>5. \A n \in 0 .. N : cost[n] \in Pair => AtMost(best, Plus(cost[n], Rest(jb, n)))
  BY DEF Above
<1> HIDE DEF N, best, value
<1>6. AtMost(best, Plus(Plus(cost[from], value), Rest(jb, to)))
  <2>1. AtMost(best, Plus(cost[from], Rest(jb, from)))
    BY <1>1, <1>2, <1>5
  <2>2. Plus(value, Rest(jb, to)) \in Pair
    BY <1>1, <1>3, AtMostPlus
  <2>3. /\ Plus(cost[from], Rest(jb, from)) \in Pair /\ Plus(cost[from], Plus(value, Rest(jb, to))) \in Pair
        /\ AtMost(Plus(cost[from], Rest(jb, from)), Plus(cost[from], Plus(value, Rest(jb, to))))
    BY <1>2, <1>3, <1>4, <2>2, AtMostPlus
  <2>4. Plus(cost[from], Plus(value, Rest(jb, to))) = Plus(Plus(cost[from], value), Rest(jb, to))
    BY <1>1, <1>2, <1>3, PlusIs
  <2>5. AtMost(best, Plus(cost[from], Plus(value, Rest(jb, to))))
    BY <1>3, <2>1, <2>3, AtMostOrder
  <2> QED
    BY <2>4, <2>5
<1>7. ASSUME NEW n \in 0 .. N, cost2[n] \in Pair PROVE AtMost(best, Plus(cost2[n], Rest(jb, n)))
  <2>1. CASE n = to /\ cost2[to] = Plus(cost[from], value)
    BY <2>1, <1>6
  <2>2. CASE cost2[n] = cost[n]
    BY <2>2, <1>5, <1>7
  <2> QED
    BY <2>1, <2>2, <1>2
<1> QED
  BY <1>7 DEF Above, N, best

(* A path that promises as much as another, cheaper now.                   *)
LEMMA CheaperPath ==
  ASSUME NEW jb \in Jobs, NEW x \in Pair, NEW y \in Pair, AtMost(x, y), NEW rest \in Pair, NEW best \in Pair,
         AtMost(Plus(y, rest), best)
  PROVE  AtMost(Plus(x, rest), best)
<1>1. Plus(x, rest) \in Pair /\ Plus(y, rest) \in Pair /\ AtMost(Plus(x, rest), Plus(y, rest))
  BY AtMostPlus
<1> QED
  BY <1>1, AtMostOrder

LEMMA CutKept ==
  ASSUME NEW jb \in Jobs, NEW cost, NEW P, NEW cost2, NEW P2, NEW from, NEW to, NEW e,
         Relaxes(jb, cost, P, cost2, P2, from, to, e), NEW n \in 0 .. Len(jb.text), n <= to,
         Cut(jb, cost, n)
  PROVE  Cut(jb, cost2, n)
<1> SUFFICES ASSUME MonotoneJob(jb) PROVE Promise(jb, cost2, n) \/ RunPromise(jb, cost2, n)
  BY DEF Cut
<1> DEFINE N == Len(jb.text)
           best == Rest(jb, 0)
<1>1. /\ N \in Nat /\ to \in 0 .. N
      /\ \A m \in 0 .. N : cost[m] \in Pair => cost2[m] \in Pair /\ AtMost(cost2[m], cost[m])
      /\ \A m \in 0 .. N : m < to => cost2[m] = cost[m]
  BY RelaxesIs, JobIs
<1>2. best \in Pair /\ \A m \in 0 .. N : Rest(jb, m) \in Pair
  <2>1. 0 \in 0 .. N
    BY <1>1
  <2> QED
    BY <2>1, RestIs
<1> HIDE DEF N, best
<1>3. CASE Promise(jb, cost, n)
  <2>1. PICK m \in n .. N : cost[m] \in Pair /\ AtMost(Plus(cost[m], Rest(jb, m)), best)
    BY <1>3 DEF Promise, N, best
  <2>2. m \in 0 .. N
    BY <1>1 DEF N
  <2>3. cost2[m] \in Pair /\ AtMost(cost2[m], cost[m]) /\ Rest(jb, m) \in Pair
    BY <1>1, <1>2, <2>1, <2>2
  <2>4. AtMost(Plus(cost2[m], Rest(jb, m)), best)
    BY <1>2, <2>1, <2>3, CheaperPath
  <2> QED
    BY <2>1, <2>3, <2>4 DEF Promise, N, best
<1>4. CASE ~ Promise(jb, cost, n)
  <2>1. RunPromise(jb, cost, n)
    BY <1>4 DEF Cut
  <2>2. PICK m \in 0 .. (n - 1), q \in (n + 1) .. N :
          q - m <= jb.window /\ AtMost(Plus(cost[m], Plus(RunCost(jb, q - m), Rest(jb, q))), best)
    BY <2>1 DEF RunPromise, N, best
  <2>3. m \in 0 .. N /\ m < to
    BY <1>1 DEF N
  <2>4. cost2[m] = cost[m]
    BY <1>1, <2>3
  <2> QED
    BY <2>2, <2>4 DEF RunPromise, N, best
<1> QED
  BY <1>3, <1>4

LEMMA RelaxedKept ==
  ASSUME NEW jb \in Jobs, NEW cost, NEW P, NEW cost2, NEW P2, NEW from, NEW to, NEW e,
         Relaxes(jb, cost, P, cost2, P2, from, to, e),
         NEW es, NEW k \in Nat, e = es[k + 1], Relaxed(jb, cost, from, es, k),
         \A q \in 1 .. k : from + es[q].ell \in 0 .. Len(jb.text) /\ ValueBy(jb, es[q]) \in Pair
  PROVE  Relaxed(jb, cost2, from, es, k + 1)
<1> DEFINE N == Len(jb.text)
           u == k + 1
<1>1. /\ N \in Nat /\ from \in 0 .. N /\ from < to
      /\ cost2[to] \in Pair /\ AtMost(cost2[to], Plus(cost[from], ValueBy(jb, e)))
      /\ \A n \in 0 .. N : cost[n] \in Pair => cost2[n] \in Pair /\ AtMost(cost2[n], cost[n])
      /\ \A n \in 0 .. N : n < to => cost2[n] = cost[n]
  BY RelaxesIs, JobIs
<1>2. cost2[from] = cost[from] /\ to = from + e.ell /\ cost[from] \in Pair
  BY <1>1 DEF Relaxes
<1>3. u \in Nat /\ \A q \in 1 .. u : q \in 1 .. k \/ q = u
  OBVIOUS
<1>4. e = es[u]
  OBVIOUS
<1> HIDE DEF N, u
<1>5. ASSUME NEW q \in 1 .. u
      PROVE  /\ cost2[from + es[q].ell] \in Pair
             /\ AtMost(cost2[from + es[q].ell], Plus(cost2[from], ValueBy(jb, es[q])))
  <2>1. CASE q = u
    <3>1. from + es[q].ell = to
      BY <2>1, <1>2, <1>4
    <3>2. cost2[from + es[q].ell] = cost2[to]
      BY <3>1
    <3> QED
      BY <3>2, <2>1, <1>1, <1>2, <1>4
  <2>2. CASE q \in 1 .. k
    <3> DEFINE m == from + es[q].ell
    <3>1. /\ cost[m] \in Pair /\ AtMost(cost[m], Plus(cost[from], ValueBy(jb, es[q])))
          /\ m \in 0 .. N /\ ValueBy(jb, es[q]) \in Pair
      BY <2>2 DEF Relaxed, N
    <3> HIDE DEF m
    <3>2. cost2[m] \in Pair /\ AtMost(cost2[m], cost[m])
      BY <1>1, <3>1
    <3>3. Plus(cost[from], ValueBy(jb, es[q])) \in Pair
      BY <1>2, <3>1, AtMostPlus
    <3>4. AtMost(cost2[m], Plus(cost[from], ValueBy(jb, es[q])))
      BY <3>1, <3>2, <3>3, AtMostOrder
    <3> QED
      BY <1>2, <3>2, <3>4 DEF m
  <2> QED
    BY <2>1, <2>2, <1>3
<1> QED
  BY <1>5 DEF Relaxed, u

(* What the edges given at n leave out is not needed: one of them does as  *)
(* well as any copy of the graph.                                          *)
LEMMA GivenCover ==
  ASSUME NEW jb \in Jobs, MonotoneJob(jb), NEW n \in 0 .. (Len(jb.text) - 1),
         NEW es \in Seq(MeshEdge), GivenAt(jb, StartBy(jb, n), n, es),
         \A k \in 1 .. Len(es) : GoodEdge(BucketOf(jb, StartBy(jb, n)), n - StartBy(jb, n), es[k]),
         NEW e \in GivenBy(jb, n)
  PROVE  \E k \in 1 .. Len(es) : /\ AtMost(ValueBy(jb, es[k]), ValueBy(jb, e))
                                 /\ AtMost(Rest(jb, n + es[k].ell), Rest(jb, n + e.ell))
<1> DEFINE s == StartBy(jb, n)
           part == BucketOf(jb, s)
           at == n - s
<1>1. /\ Len(jb.text) \in Nat /\ n \in Nat /\ Len(part) \in Nat /\ at \in 0 .. Len(part)
      /\ Len(part) = EndOf(jb, s) - s /\ EndOf(jb, s) \in Nat /\ EndOf(jb, s) <= Len(jb.text) /\ s \in Nat
  BY AtBucket
<1>2. Len(es) \in Nat /\ DOMAIN es = 1 .. Len(es)
  BY LenProperties
<1>3. \A k \in 1 .. Len(es) : GoodEdge(part, at, es[k])
  OBVIOUS
<1>4. e \in EdgesBy(jb, n)
  BY DEF EdgesBy
<1>5. e.ell \in 1 .. (Len(jb.text) - n) /\ ValueBy(jb, e) \in Pair
  BY <1>4, EdgesAre
<1>6. n + e.ell \in 0 .. Len(jb.text)
  <2> DEFINE x == e.ell
             N == Len(jb.text)
  <2>1. x \in 1 .. (N - n) /\ N \in Nat
    BY <1>1, <1>5
  <2> HIDE DEF x, N
  <2>2. n + x \in 0 .. N
    BY <1>1, <2>1
  <2> QED
    BY <2>2 DEF x, N
<1>7. CASE jb.rightmost
  <2>1. n \in ReachedBy(jb) /\ e \in NearestIn(part, at)
    BY <1>7 DEF GivenBy, NearestBy
  <2>2. /\ e \in Copies(part, at) /\ e.ell = LongestIn(part, at)
        /\ \A c \in Copies(part, at) : c.ell = LongestIn(part, at) => e.cost_id <= c.cost_id
    <3> HIDE DEF part, at
    <3> QED
      BY <2>1 DEF NearestIn
  <2>3. LongestBy(jb, n) > 0
    <3>1. e.ell > 0
      BY <1>1, <1>5
    <3> QED
      BY <3>1, <2>2 DEF LongestBy
  <2>4. Len(es) = 1 /\ es[1] \in NearestIn(part, at)
    BY <1>7, <2>1, <2>3 DEF GivenAt
  <2>5. 1 \in 1 .. Len(es)
    BY <2>4
  <2> DEFINE g == es[1]
  <2>6. GoodEdge(part, at, g) /\ g \in MeshEdge
    BY <2>5, <1>3, ElementOfSeq
  <2>7. /\ g \in Copies(part, at) /\ g.ell = LongestIn(part, at)
        /\ \A c \in Copies(part, at) : c.ell = LongestIn(part, at) => g.cost_id <= c.cost_id
    <3> HIDE DEF part, at, g
    <3>1. g \in NearestIn(part, at)
      BY <2>4 DEF g
    <3> QED
      BY <3>1 DEF NearestIn
  <2> HIDE DEF part, at, g
  <2>8. g.cost_id <= e.cost_id /\ e.cost_id <= g.cost_id
    BY <2>2, <2>7
  <2>9. e \in Edge /\ g.cost_id \in Nat /\ e.cost_id \in Nat
    <3>1. e \in Edge
      BY <1>4, EdgesAre
    <3> QED
      BY <3>1, <2>6 DEF Edge, MeshEdge
  <2>10. g.cost_id = e.cost_id /\ g.ell = e.ell
    BY <2>2, <2>7, <2>8, <2>9
  <2>11. IsRegular(g) /\ IsRegular(e)
    <3>1. IsCopy(part, at, e) /\ IsCopy(part, at, g)
      BY <2>2, <2>6, <1>1, CopiesAre DEF GoodEdge
    <3>2. e.d \in Nat \ {0} /\ g.d \in Nat \ {0}
      BY <3>1, <1>1, CopyClasses
    <3> QED
      BY <3>2 DEF IsRegular
  <2>12. ValueBy(jb, g) = ValueBy(jb, e)
    BY <2>10, <2>11 DEF ValueBy, EdgeCost
  <2>13. AtMost(ValueBy(jb, g), ValueBy(jb, e))
    BY <2>12, <1>5, AtMostOrder
  <2>14. AtMost(Rest(jb, n + g.ell), Rest(jb, n + e.ell))
    BY <2>10, <1>6, RestIs, AtMostOrder
  <2> QED
    BY <2>5, <2>13, <2>14 DEF g
<1>8. CASE ~ jb.rightmost
  <2>1. e \in Copies(part, at)
    BY <1>8 DEF GivenBy, CopiesBy
  <2>2. Offers(part, at, es)
    BY <1>8 DEF GivenAt
  <2> HIDE DEF part, at
  <2>3. PICK k \in 1 .. Len(es) : /\ es[k].ell >= e.ell
                                  /\ LowerBound(Dst, es[k].d) <= LowerBound(Dst, e.d)
                                  /\ LowerBound(Lens, es[k].ell) <= LowerBound(Lens, e.ell)
    BY <1>2, <2>1, <2>2 DEF Offers
  <2> DEFINE g == es[k]
  <2>4. GoodEdge(part, at, g)
    BY <1>3 DEF part, at
  <2>5. GoodEdge(part, at, e)
    BY <1>1, <2>1, CopiesAre DEF GoodEdge
  <2> HIDE DEF g
  <2>6. AtMost(ValueBy(jb, g), ValueBy(jb, e))
    BY <1>1, <2>3, <2>4, <2>5, Cheaper DEF g
  <2> DEFINE x == e.ell
             y == g.ell
             N == Len(jb.text)
  <2>7. x \in 1 .. (N - n) /\ x <= y /\ N \in Nat
    BY <1>1, <1>5, <2>3 DEF g
  <2>8. y \in Nat \ {0} /\ at + y <= Len(part)
    BY <1>1, <2>4, CopyClasses DEF GoodEdge
  <2>9. at + s = n
    BY <1>1 DEF at
  <2> HIDE DEF x, y, s, N
  <2>10. y <= N - n
    <3> DEFINE last == EndOf(jb, s)
    <3>1. Len(part) = last - s /\ last \in Nat /\ last <= N /\ s \in Nat /\ at \in Nat
      BY <1>1 DEF part, N
    <3> HIDE DEF last
    <3> QED
      BY <3>1, <2>7, <2>8, <2>9, <1>1
  <2>11. n + x \in 0 .. N /\ n + y \in 0 .. N /\ n + x <= n + y
    BY <2>7, <2>8, <2>10, <1>1
  <2> DEFINE a == n + x
             b == n + y
  <2>12. a \in 0 .. N /\ b \in 0 .. N /\ a <= b
    BY <2>11
  <2> HIDE DEF a, b
  <2>13. AtMost(Rest(jb, b), Rest(jb, a))
    BY <1>8, <2>12, RestFallsTo DEF N
  <2> QED
    BY <2>6, <2>13 DEF a, b, x, y, g
<1> QED
  BY <1>7, <1>8

LEMMA RunsCost ==
  ASSUME NEW jb \in Jobs, NEW n \in Nat
  PROVE  ValueBy(jb, Plain(n)) = RunCost(jb, n) /\ RunCost(jb, n) \in Pair
<1>1. ValueBy(jb, Plain(n)) = RunCost(jb, n)
  BY DEF ValueBy, Plain, EdgeCost, IsRegular, RunCost
<1> QED
  BY <1>1, RunCostIs

LEMMA NextOne ==
  ASSUME NEW n \in Nat
  PROVE  (n + 1) - 1 = n /\ 1 \in 1 .. (n + 1)
OBVIOUS

(* Once the edges given at n and the run the window picks are relaxed, the *)
(* promise holds one position further.                                     *)
LEMMA CutMoves ==
  ASSUME NEW jb \in Jobs, NEW cost, NEW P, NEW cost2, NEW P2, NEW n \in 0 .. (Len(jb.text) - 1),
         NEW es \in Seq(MeshEdge), GivenAt(jb, StartBy(jb, n), n, es),
         \A k \in 1 .. Len(es) : GoodEdge(BucketOf(jb, StartBy(jb, n)), n - StartBy(jb, n), es[k]),
         \A k \in 1 .. Len(es) : n + es[k].ell \in 0 .. Len(jb.text) /\ es[k].ell \in Nat \ {0},
         CostPart(n, cost), Relaxed(jb, cost, n, es, Len(es)), Cut(jb, cost, n),
         NEW seq, NEW picked, Picks(jb, cost, seq, n + 1, picked),
         Relaxes(jb, cost, P, cost2, P2, (n + 1) - picked, n + 1, Plain(picked))
  PROVE  Cut(jb, cost2, n + 1)
<1> SUFFICES ASSUME MonotoneJob(jb) PROVE Promise(jb, cost2, n + 1) \/ RunPromise(jb, cost2, n + 1)
  BY DEF Cut
<1> DEFINE N == Len(jb.text)
           best == Rest(jb, 0)
           u == n + 1
<1>1. /\ N \in Nat /\ n \in Nat /\ u \in 0 .. N /\ u \in Nat /\ jb.window \in Nat \ {0}
      /\ n \in 0 .. N /\ n < u /\ n <= N
  BY JobIs
<1>2. /\ cost2[u] \in Pair /\ AtMost(cost2[u], Plus(cost[u - picked], ValueBy(jb, Plain(picked))))
      /\ \A m \in 0 .. N : cost[m] \in Pair => cost2[m] \in Pair /\ AtMost(cost2[m], cost[m])
      /\ \A m \in 0 .. N : m < u => cost2[m] = cost[m]
  BY RelaxesIs
<1>3. best \in Pair /\ \A m \in 0 .. N : Rest(jb, m) \in Pair
  <2>1. 0 \in 0 .. N
    BY <1>1
  <2> QED
    BY <2>1, RestIs
<1>4. /\ picked \in 1 .. u /\ picked <= jb.window /\ picked \in Nat
      /\ \A m \in 1 .. u : m <= jb.window =>
           Ending(jb, cost, u, m) \in Pair /\ AtMost(Ending(jb, cost, u, picked), Ending(jb, cost, u, m))
  <2>1. /\ picked \in 1 .. jb.window /\ picked <= u
        /\ \A m \in 1 .. u : m <= jb.window =>
             Ending(jb, cost, u, m) \in Pair /\ ~ Less(Ending(jb, cost, u, m), Ending(jb, cost, u, picked))
    BY DEF Picks
  <2> HIDE DEF u
  <2>2. picked \in 1 .. u /\ picked <= jb.window /\ picked \in Nat
    BY <1>1, <2>1
  <2> QED
    BY <2>1, <2>2 DEF AtMost
<1> HIDE DEF N, best, u
<1>5. ASSUME NEW m \in 1 .. u, m <= jb.window
      PROVE  Ending(jb, cost, u, m) \in Pair /\ AtMost(cost2[u], Ending(jb, cost, u, m))
  <2>1. Plus(cost[u - picked], ValueBy(jb, Plain(picked))) = Ending(jb, cost, u, picked)
    BY <1>4, RunsCost DEF Ending
  <2> QED
    BY <2>1, <1>2, <1>4, <1>5, AtMostOrder
<1>6. ASSUME NEW m \in 1 .. u, m <= jb.window, AtMost(Plus(Ending(jb, cost, u, m), Rest(jb, u)), best)
      PROVE  Promise(jb, cost2, u)
  <2>1. Rest(jb, u) \in Pair
    BY <1>1, <1>3
  <2>2. AtMost(Plus(cost2[u], Rest(jb, u)), best)
    BY <1>2, <1>3, <1>5, <1>6, <2>1, CheaperPath
  <2>3. u \in u .. N
    BY <1>1
  <2> QED
    BY <1>2, <2>2, <2>3 DEF Promise, N, best
<1>7. ASSUME NEW m \in u .. N, cost[m] \in Pair, AtMost(Plus(cost[m], Rest(jb, m)), best)
      PROVE  Promise(jb, cost2, u)
  <2>1. m \in 0 .. N
    BY <1>1
  <2>2. cost2[m] \in Pair /\ AtMost(cost2[m], cost[m]) /\ Rest(jb, m) \in Pair
    BY <1>2, <1>3, <1>7, <2>1
  <2>3. AtMost(Plus(cost2[m], Rest(jb, m)), best)
    BY <1>3, <1>7, <2>2, CheaperPath
  <2> QED
    BY <2>2, <2>3 DEF Promise, N, best
<1>8. ASSUME cost[n] \in Pair, AtMost(Plus(cost[n], Rest(jb, n)), best)
      PROVE  Promise(jb, cost2, u) \/ RunPromise(jb, cost2, u)
  <2>1. PICK e \in EdgesBy(jb, n) : Rest(jb, n) = Plus(ValueBy(jb, e), Rest(jb, n + e.ell))
    BY RestIs
  <2> DEFINE ell == e.ell
             value == ValueBy(jb, e)
             to == n + ell
  <2>2. value \in Pair /\ ell \in 1 .. (Len(jb.text) - n)
    BY EdgesAre
  <2>3. ell \in Nat \ {0} /\ to \in 0 .. N /\ ell <= N - n
    <3> HIDE DEF ell
    <3>1. ell \in 1 .. (N - n)
      BY <2>2 DEF N
    <3> QED
      BY <1>1, <3>1
  <2> HIDE DEF ell, value, to
  <2>4. Rest(jb, to) \in Pair
    BY <1>3, <2>3
  <2>5. Rest(jb, n) = Plus(value, Rest(jb, to))
    BY <2>1 DEF value, to, ell
  <2>6. AtMost(Plus(Plus(cost[n], value), Rest(jb, to)), best) /\ Plus(cost[n], value) \in Pair
    <3>1. Plus(Plus(cost[n], value), Rest(jb, to)) = Plus(cost[n], Plus(value, Rest(jb, to)))
      BY <1>8, <2>2, <2>4, PlusIs DEF value
    <3>2. Plus(cost[n], value) \in Pair
      BY <1>8, <2>2, AtMostPlus DEF value
    <3> QED
      BY <1>8, <2>5, <3>1, <3>2
  <2>7. CASE e \in RunsBy(jb, n)
    <3>1. PICK r \in {q \in 1 .. (Len(jb.text) - n) : q <= jb.window} : e = Plain(r)
      BY <2>7 DEF RunsBy
    <3>2. e = Plain(ell) /\ ell <= jb.window
      BY <3>1 DEF Plain, ell
    <3>3. value = RunCost(jb, ell)
      BY <3>2, <2>3, RunsCost DEF value
    <3>4. CASE ell = 1
      <4> DEFINE w == jb.window
      <4>1. 1 \in 1 .. u /\ 1 <= w /\ u - 1 = n
        <5>1. w \in Nat \ {0}
          BY <1>1
        <5> HIDE DEF w
        <5>2. 1 <= w
          BY <5>1
        <5>3. u - 1 = n /\ 1 \in 1 .. u
          <6>1. n \in Nat
            BY <1>1
          <6> QED
            BY <6>1, NextOne DEF u
        <5> QED
          BY <5>2, <5>3
      <4>2. Ending(jb, cost, u, 1) = Plus(cost[n], value)
        BY <3>3, <3>4, <4>1 DEF Ending
      <4>3. to = u
        BY <3>4 DEF to, u
      <4>4. AtMost(Plus(Ending(jb, cost, u, 1), Rest(jb, u)), best)
        BY <4>2, <4>3, <2>6
      <4> QED
        BY <4>1, <4>4, <1>6
    <3>5. CASE ell # 1
      <4>1. n \in 0 .. (u - 1) /\ to \in (u + 1) .. N /\ to - n = ell
        BY <1>1, <2>3, <3>5 DEF u, to
      <4>2. cost2[n] = cost[n]
        BY <1>1, <1>2
      <4>3. AtMost(Plus(cost2[n], Plus(RunCost(jb, to - n), Rest(jb, to))), best)
        BY <4>1, <4>2, <3>3, <2>5, <1>8
      <4>4. to - n <= jb.window
        BY <4>1, <3>2
      <4>5. RunPromise(jb, cost2, u)
        BY <4>1, <4>3, <4>4 DEF RunPromise, N, best
      <4> QED
        BY <4>5
    <3> QED
      BY <3>4, <3>5
  <2>8. CASE e \in GivenBy(jb, n)
    <3>1. PICK k \in 1 .. Len(es) : /\ AtMost(ValueBy(jb, es[k]), ValueBy(jb, e))
                                    /\ AtMost(Rest(jb, n + es[k].ell), Rest(jb, n + e.ell))
      BY <2>8, GivenCover
    <3> DEFINE m == n + es[k].ell
               v == ValueBy(jb, es[k])
    <3>2. /\ cost[m] \in Pair /\ AtMost(cost[m], Plus(cost[n], v))
      BY DEF Relaxed
    <3>3. m \in u .. N /\ m \in 0 .. N
      <4> DEFINE x == es[k].ell
      <4>1. n + x \in 0 .. Len(jb.text) /\ x \in Nat \ {0}
        OBVIOUS
      <4> HIDE DEF x
      <4>2. n + x \in u .. N /\ n + x \in 0 .. N
        BY <4>1, <1>1 DEF u, N
      <4> QED
        BY <4>2 DEF x
    <3>4. v \in Pair
      <4> DEFINE text == BucketOf(jb, StartBy(jb, n))
                 w == n - StartBy(jb, n)
      <4>1. GoodEdge(text, w, es[k]) /\ Len(text) \in Nat /\ w \in 0 .. Len(text)
        BY AtBucket
      <4> HIDE DEF text, w
      <4> QED
        BY <4>1, CopyValue
    <3> HIDE DEF m, v
    <3>5. AtMost(v, value) /\ AtMost(Rest(jb, m), Rest(jb, to)) /\ Rest(jb, m) \in Pair
      BY <3>1, <3>3, <1>3 DEF m, v, to, ell, value
    <3>6. value \in Pair
      BY <2>2 DEF value
    <3>7. Plus(cost[n], v) \in Pair /\ AtMost(Plus(cost[n], v), Plus(cost[n], value))
      BY <1>8, <3>4, <3>5, <3>6, AtMostPlus
    <3>8. AtMost(cost[m], Plus(cost[n], value))
      BY <2>6, <3>2, <3>7, AtMostOrder DEF m, v
    <3>9. AtMost(Plus(cost[m], Rest(jb, to)), best)
      BY <1>3, <2>4, <2>6, <3>2, <3>8, CheaperPath DEF m
    <3>10. cost[m] \in Pair
      BY <3>2 DEF m
    <3>11. /\ Plus(cost[m], Rest(jb, m)) \in Pair /\ Plus(cost[m], Rest(jb, to)) \in Pair
           /\ AtMost(Plus(cost[m], Rest(jb, m)), Plus(cost[m], Rest(jb, to)))
      BY <2>4, <3>5, <3>10, AtMostPlus
    <3>12. AtMost(Plus(cost[m], Rest(jb, m)), best)
      BY <1>3, <3>9, <3>11, AtMostOrder
    <3> QED
      BY <3>3, <3>10, <3>12, <1>7
  <2> QED
    BY <2>7, <2>8 DEF EdgesBy
<1>9. CASE Promise(jb, cost, n)
  <2>1. PICK m \in n .. N : cost[m] \in Pair /\ AtMost(Plus(cost[m], Rest(jb, m)), best)
    BY <1>9 DEF Promise, N, best
  <2>2. m = n \/ m \in u .. N
    BY <1>1 DEF u
  <2> QED
    BY <2>1, <2>2, <1>7, <1>8 DEF u
<1>10. CASE ~ Promise(jb, cost, n)
  <2>1. RunPromise(jb, cost, n)
    BY <1>10 DEF Cut
  <2>2. PICK m \in 0 .. (n - 1), q \in (n + 1) .. N :
          q - m <= jb.window /\ AtMost(Plus(cost[m], Plus(RunCost(jb, q - m), Rest(jb, q))), best)
    BY <2>1 DEF RunPromise, N, best
  <2>3. cost2[m] = cost[m] /\ m \in 0 .. n /\ cost[m] \in Pair
    <3>1. m \in 0 .. N /\ m < u /\ m \in 0 .. n
      BY <1>1
    <3> QED
      BY <3>1, <1>2 DEF CostPart
  <2>4. CASE q > u
    <3>1. m \in 0 .. (u - 1) /\ q \in (u + 1) .. N
      BY <1>1, <2>4 DEF u
    <3>2. RunPromise(jb, cost2, u)
      BY <3>1, <2>2, <2>3 DEF RunPromise, N, best
    <3> QED
      BY <3>2 DEF u
  <2>5. CASE q = u
    <3> DEFINE r == u - m
    <3>1. r \in 1 .. u /\ r <= jb.window /\ u - r = m /\ r \in Nat
      <4>1. m \in 0 .. n /\ n \in Nat /\ u = n + 1
        BY <1>1, <2>3 DEF u
      <4>2. r \in 1 .. u /\ u - r = m /\ r \in Nat
        BY <4>1
      <4> QED
        BY <4>2, <2>2, <2>5
    <3>2. q - m = r
      BY <2>5
    <3> HIDE DEF r
    <3>3. Ending(jb, cost, u, r) = Plus(cost[m], RunCost(jb, r))
      BY <3>1 DEF Ending
    <3>4. RunCost(jb, r) \in Pair /\ Rest(jb, u) \in Pair
      BY <3>1, <1>1, <1>3, RunsCost
    <3>5. Plus(Plus(cost[m], RunCost(jb, r)), Rest(jb, u)) = Plus(cost[m], Plus(RunCost(jb, r), Rest(jb, u)))
      BY <2>3, <3>4, PlusIs
    <3>6. AtMost(Plus(Ending(jb, cost, u, r), Rest(jb, u)), best)
      BY <2>2, <2>5, <3>2, <3>3, <3>5
    <3>7. Promise(jb, cost2, u)
      BY <3>1, <3>6, <1>6
    <3> QED
      BY <3>7 DEF u
  <2>6. q > u \/ q = u
    BY <1>1 DEF u
  <2> QED
    BY <2>4, <2>5, <2>6
<1> QED
  BY <1>9, <1>10

(* At the end of the text the best path found is the best of all.          *)
LEMMA CutEnds ==
  ASSUME NEW jb \in Jobs, NEW cost, CostPart(Len(jb.text), cost),
         Above(jb, cost), Cut(jb, cost, Len(jb.text)), MonotoneJob(jb)
  PROVE  cost[Len(jb.text)] = Rest(jb, 0)
<1> DEFINE N == Len(jb.text)
           last == cost[N]
           best == Rest(jb, 0)
<1>1. N \in Nat /\ N \in 0 .. N /\ 0 \in 0 .. N
  BY JobIs
<1>2. Rest(jb, N) = Zero /\ best \in Pair
  <2>1. best \in Pair
    BY <1>1, RestIs
  <2> QED
    BY <2>1, RestIs
<1>3. last \in Pair
  BY <1>1 DEF CostPart
<1>4. Plus(last, Rest(jb, N)) = last
  BY <1>2, <1>3, AtMostPlus
<1>5. AtMost(best, last)
  BY <1>1, <1>3, <1>4 DEF Above
<1>6. AtMost(last, best)
  <2>1. \A q \in (N + 1) .. N : FALSE
    BY <1>1
  <2>2. Promise(jb, cost, N)
    BY <2>1 DEF Cut, RunPromise
  <2>3. PICK m \in N .. N : AtMost(Plus(cost[m], Rest(jb, m)), best)
    BY <2>2 DEF Promise
  <2>4. m = N
    BY <1>1
  <2> QED
    BY <2>3, <2>4, <1>4
<1> HIDE DEF last, best
<1>7. last = best
  BY <1>2, <1>3, <1>5, <1>6, AtMostOrder
<1> QED
  BY <1>7 DEF last, best, N

(* Once every position is reached, flip may start.                         *)
LEMMA FlipBegins ==
  ASSUME NEW jb \in Jobs, NEW cost, NEW P, NEW e, CostPart(Len(jb.text), cost),
         Tree(jb, cost, P, Len(jb.text), Len(jb.text))
  PROVE  Priced(jb, P) /\ FlipAt(jb, cost, P, Len(jb.text), e)
<1> DEFINE N == Len(jb.text)
<1>1. N \in Nat
  BY JobIs
<1>2. ASSUME NEW n \in 0 .. N, IsPhrase(jb, n, P[n]) PROVE ValueBy(jb, P[n]) \in Pair
  <2>1. CASE n = 0
    <3>1. P[0].d = N + 1
      BY DEF Tree, InvalidBy
    <3>2. IsPhrase(jb, 0, P[0])
      BY <1>2, <2>1
    <3>3. P[0].d \in 1 .. 0 \/ P[0].d = 0
      BY <3>2 DEF IsPhrase, IsCopy
    <3> HIDE DEF N
    <3> QED
      BY <3>1, <3>3, <1>1
  <2>2. CASE n # 0
    <3>1. n \in 1 .. N
      BY <2>2
    <3>2. cost[n] \in Pair
      BY DEF CostPart
    <3>3. TreeEdge(jb, cost, n, N, P[n])
      BY <3>1, <3>2 DEF Tree
    <3> QED
      BY <3>3 DEF TreeEdge
  <2> QED
    BY <2>1, <2>2
<1>3. ~ N < 0 /\ ~ N < N
  BY <1>1
<1>4. FlipAt(jb, cost, P, N, e)
  BY <1>3 DEF FlipAt
<1> QED
  BY <1>2, <1>4 DEF Priced

(* An edge turned round: the parsing followed from where it ended, plus    *)
(* the path from the start to it, still costs what parse reports.          *)
LEMMA FlipMoves ==
  ASSUME NEW jb \in Jobs, NEW cost, CostPart(Len(jb.text), cost),
         NEW P \in [0 .. Len(jb.text) -> Edge], NEW P2, NEW c \in 0 .. Len(jb.text), NEW e,
         P2 = [P EXCEPT ![c] = e], Priced(jb, P), FlipAt(jb, cost, P, c, e)
  PROVE  Priced(jb, P2) /\ FlipAt(jb, cost, P2, c - P[c].ell, P[c])
<1> DEFINE N == Len(jb.text)
           f == FollowedBy(jb, P)
           g == FollowedBy(jb, P2)
<1>1. N \in Nat \ {0} /\ c \in Nat /\ c <= N /\ \A n \in 0 .. N : cost[n] \in Pair
  BY JobIs DEF CostPart
<1>2. P2[c] = e /\ \A n \in 0 .. N : n # c => P2[n] = P[n]
  OBVIOUS
<1>3. /\ Tree(jb, cost, P, c, N)
      /\ c < N => /\ IsPhrase(jb, c, e) /\ ValueBy(jb, e) \in Pair /\ e.ell \in 1 .. (N - c)
                  /\ f[N - c - e.ell] \in Pair
                  /\ Plus(cost[c], Plus(ValueBy(jb, e), f[N - c - e.ell])) = cost[N]
  <2>1. ~ c < 0
    BY <1>1
  <2> HIDE DEF f
  <2> QED
    BY <2>1 DEF FlipAt, f
<1> HIDE DEF N, f, g
<1>4. Priced(jb, P2)
  <2>1. ASSUME NEW n \in 0 .. N, IsPhrase(jb, n, P2[n]) PROVE ValueBy(jb, P2[n]) \in Pair
    <3>1. CASE n # c
      BY <3>1, <2>1, <1>2 DEF Priced, N
    <3>2. CASE n = c
      <4>1. n < N
        BY <2>1, PhraseIs DEF N
      <4> QED
        BY <4>1, <3>2, <1>2, <1>3
    <3> QED
      BY <3>1, <3>2
  <2> QED
    BY <2>1 DEF Priced, N
<1> DEFINE after == g[N - c]
<1>5. after \in Pair /\ Plus(cost[c], after) = cost[N]
  <2>1. CASE c = N
    <3>1. N - c = 0
      BY <2>1, <1>1
    <3>2. after = Zero
      BY <3>1, <1>4, FollowedIs DEF g
    <3>3. cost[c] \in Pair
      BY <1>1
    <3>4. Plus(cost[c], Zero) = cost[c]
      BY <3>3, AtMostPlus
    <3> HIDE DEF after
    <3> QED
      BY <2>1, <3>2, <3>4 DEF Zero, Pair
  <2>2. CASE c # N
    <3>1. c < N /\ c \in 0 .. (N - 1)
      BY <2>2, <1>1
    <3> DEFINE m == c + e.ell
               k == N - c - e.ell
               value == ValueBy(jb, e)
    <3>2. /\ m \in 0 .. N /\ k = N - m /\ k \in 0 .. (N - m) /\ c < m
      <4> DEFINE x == e.ell
      <4>1. x \in 1 .. (N - c)
        BY <1>3, <3>1
      <4> HIDE DEF x
      <4>2. c + x \in 0 .. N /\ N - c - x = N - (c + x) /\ c < c + x /\ N - c - x \in 0 .. (N - (c + x))
        BY <4>1, <1>1
      <4> QED
        BY <4>2 DEF x
    <3>3. value \in Pair /\ f[k] \in Pair /\ Plus(cost[c], Plus(value, f[k])) = cost[N]
      BY <1>3, <3>1
    <3>4. (N - c) - e.ell = k
      OBVIOUS
    <3> HIDE DEF m, k
    <3>5. \A n \in m .. N : P2[n] = P[n]
      <4>1. \A n \in m .. N : n \in 0 .. N /\ n # c
        BY <3>2, <1>1
      <4> QED
        BY <4>1, <1>2
    <3>6. g[k] = f[k]
      <4>1. m \in 0 .. Len(jb.text) /\ SameFrom(P, P2, m, Len(jb.text))
        BY <3>2, <3>5 DEF N, SameFrom
      <4>2. SameFrom(FollowedBy(jb, P), FollowedBy(jb, P2), 0, Len(jb.text) - m)
        BY <1>4, <4>1, FollowedAgree
      <4> QED
        BY <3>2, <4>2, Zenon DEF f, g, N, SameFrom
    <3>7. IsPhrase(jb, c, P2[c])
      BY <1>2, <1>3, <3>1
    <3>8. g[N - c] = Plus(ValueBy(jb, P2[c]), g[(N - c) - P2[c].ell])
      BY <1>4, <3>1, <3>7, FollowedIs DEF g, N
    <3>9. after = Plus(value, f[k])
      BY <1>2, <3>4, <3>6, <3>8
    <3> HIDE DEF after, value
    <3> QED
      BY <3>3, <3>9, AtMostPlus
  <2> QED
    BY <2>1, <2>2
<1>6. CASE c = 0
  <2>1. P[c].ell = N + 1 /\ cost[c] = Zero
    BY <1>3, <1>6 DEF Tree, InvalidBy, N
  <2>2. c - P[c].ell < 0
    BY <1>1, <1>6, <2>1
  <2>3. Plus(Zero, after) = after
    <3> HIDE DEF after
    <3>1. /\ after.cost \in Nat /\ after.weight \in Nat
          /\ after = [cost |-> after.cost, weight |-> after.weight]
      BY <1>5 DEF Pair
    <3>2. 0 + after.cost = after.cost /\ 0 + after.weight = after.weight
      BY <3>1
    <3> QED
      BY <3>1, <3>2 DEF Plus, Zero
  <2>4. g[N] = cost[N]
    <3>1. N - c = N
      BY <1>1, <1>6
    <3> QED
      BY <1>5, <2>1, <2>3, <3>1
  <2>5. FlipAt(jb, cost, P2, c - P[c].ell, P[c])
    BY <2>2, <2>4 DEF FlipAt, g, N
  <2> QED
    BY <2>5, <1>4
<1>7. CASE c # 0
  <2> DEFINE d == P[c]
             m == c - d.ell
             value == ValueBy(jb, d)
  <2>1. c \in 1 .. c /\ c \in 0 .. N /\ cost[c] \in Pair
    BY <1>1, <1>7
  <2>2. TreeEdge(jb, cost, c, N, d)
    BY <1>3, <2>1 DEF Tree
  <2>3. /\ d.ell \in 1 .. c /\ value \in Pair /\ cost[m] \in Pair
        /\ cost[c] = Plus(cost[m], value) /\ d \in EdgesBy(jb, m)
    BY <2>2 DEF TreeEdge
  <2>4. /\ m \in 0 .. (N - 1) /\ m \in 0 .. c /\ m # c /\ m \in Nat /\ ~ m < 0
        /\ N - m - d.ell = N - c /\ d.ell \in 1 .. (N - m)
    <3> DEFINE x == d.ell
    <3>1. x \in 1 .. c
      BY <2>3
    <3> HIDE DEF x
    <3>2. /\ c - x \in 0 .. (N - 1) /\ c - x \in 0 .. c /\ c - x # c /\ c - x \in Nat /\ ~ c - x < 0
          /\ N - (c - x) - x = N - c /\ x \in 1 .. (N - (c - x))
      BY <3>1, <1>1
    <3> QED
      BY <3>2 DEF x
  <2> HIDE DEF m, d
  <2>5. IsPhrase(jb, m, d)
    BY <2>3, <2>4, EdgesAre DEF N
  <2>6. Plus(cost[m], Plus(value, after)) = cost[N]
    <3>1. Plus(Plus(cost[m], value), after) = Plus(cost[m], Plus(value, after))
      BY <1>5, <2>3, PlusIs
    <3> QED
      BY <3>1, <2>3, <1>5
  <2>7. Tree(jb, cost, P2, m, N)
    <3>1. Tree(jb, cost, P, m, N)
      BY <1>1, <1>3, <2>4, TreeGrows
    <3>2. \A n \in 0 .. m : P2[n] = P[n]
      <4>1. \A n \in 0 .. m : n \in 0 .. N /\ n # c
        BY <2>4, <1>1
      <4> QED
        BY <4>1, <1>2
    <3>3. P2[0] = P[0]
      BY <3>2, <2>4
    <3>4. ASSUME NEW n \in 1 .. m, cost[n] \in Pair PROVE TreeEdge(jb, cost, n, N, P2[n])
      <4>1. n \in 0 .. m
        OBVIOUS
      <4>2. P2[n] = P[n]
        BY <4>1, <3>2
      <4>3. TreeEdge(jb, cost, n, N, P[n])
        BY <3>1, <3>4 DEF Tree
      <4> QED
        BY <4>2, <4>3
    <3> QED
      BY <3>1, <3>3, <3>4 DEF Tree
  <2> HIDE DEF value
  <2>8. FlipAt(jb, cost, P2, m, d)
    <3>1. /\ g[N - m - d.ell] \in Pair
          /\ Plus(cost[m], Plus(value, g[N - m - d.ell])) = cost[N]
      BY <1>5, <2>4, <2>6
    <3> QED
      BY <2>3, <2>4, <2>5, <2>7, <3>1 DEF FlipAt, g, N, value
  <2> QED
    BY <2>8, <1>4 DEF m, d
<1> QED
  BY <1>6, <1>7

(* The second invariant, of the costs and edges found: it rests on the     *)
(* first one, which says what edges are given and what run is picked.      *)
SeekPart(jb, ph, n, cost, P, es, k) ==
  ph \in Seeking =>
    /\ Tree(jb, cost, P, Len(jb.text), n) /\ Above(jb, cost) /\ Cut(jb, cost, n)
    /\ ph = "relax" => Relaxed(jb, cost, n, es, k - 1)
FlipPart(jb, ph, n, cost, P, cur, e) ==
  ph \in {"flip", "done"} =>
    /\ n = Len(jb.text) /\ Priced(jb, P) /\ FlipAt(jb, cost, P, cur, e)
    /\ MonotoneJob(jb) => cost[Len(jb.text)] = Rest(jb, 0)
    /\ ph = "done" => cur < 0
IOpt ==
  /\ SeekPart(job, pc, i, p_cost, parsing, max_edges, j)
  /\ FlipPart(job, pc, i, p_cost, parsing, cur_idx, copy)

LEMMA OptInit ==
  ASSUME Init
  PROVE  IOpt
<1> DEFINE N == Len(job.text)
<1>1. /\ job \in Jobs /\ pc = "visit" /\ i = 0 /\ L = N
      /\ p_cost = [n \in 0 .. L |-> IF n = 0 THEN Zero ELSE Unreached]
      /\ parsing = [n \in 0 .. L |-> Invalid]
  BY DEF Init, L
<1>2. N \in Nat
  BY <1>1, JobIs
<1>3. /\ p_cost[0] = Zero /\ parsing[0] = InvalidBy(job)
      /\ \A n \in 0 .. N : p_cost[n] \in Pair => n = 0
  <2>1. Unreached \notin Pair
    BY DEF Unreached, Pair
  <2>2. Invalid = InvalidBy(job)
    BY DEF Invalid, InvalidBy, Huge, L
  <2> QED
    BY <1>1, <1>2, <2>1, <2>2
<1>4. Zero \in Pair /\ Rest(job, 0) \in Pair /\ 0 \in 0 .. N
  <2>1. 0 \in 0 .. N
    BY <1>2
  <2>2. Rest(job, 0) \in Pair
    BY <1>1, <2>1, RestIs
  <2> QED
    BY <2>1, <2>2 DEF Zero, Pair
<1>5. /\ Plus(Zero, Rest(job, 0)) = Rest(job, 0) /\ AtMost(Rest(job, 0), Rest(job, 0))
  <2> DEFINE x == Rest(job, 0)
  <2>1. x \in Pair
    BY <1>4
  <2> HIDE DEF x
  <2>2. x = [cost |-> x.cost, weight |-> x.weight] /\ x.cost \in Nat /\ x.weight \in Nat
    BY <2>1 DEF Pair
  <2>3. 0 + x.cost = x.cost /\ 0 + x.weight = x.weight
    BY <2>2
  <2>4. Plus(Zero, x) = x /\ AtMost(x, x)
    BY <2>1, <2>2, <2>3, AtMostOrder DEF Plus, Zero
  <2> QED
    BY <2>4 DEF x
<1> HIDE DEF N
<1>6. Tree(job, p_cost, parsing, Len(job.text), 0)
  <2>1. \A n \in 1 .. N : ~ p_cost[n] \in Pair
    <3>1. \A n \in 1 .. N : n \in 0 .. N /\ n # 0
      BY <1>2
    <3> QED
      BY <3>1, <1>3
  <2> QED
    BY <2>1, <1>3 DEF Tree, N
<1>7. Above(job, p_cost)
  BY <1>3, <1>5 DEF Above, N
<1>8. Promise(job, p_cost, 0)
  BY <1>3, <1>4, <1>5 DEF Promise, N
<1> QED
  BY <1>1, <1>6, <1>7, <1>8 DEF IOpt, SeekPart, FlipPart, Seeking, Cut

(* Steps that neither relax nor flip.                                      *)
LEMMA OptIdle ==
  ASSUME IOpt, NextBucket \/ StartEdges \/ NextLevel \/ GiveEdges \/ GiveRightmost \/ InsertLiteral
  PROVE  IOpt'
<1>1. UNCHANGED <<job, i, p_cost, parsing>> /\ pc \in Seeking
  BY DEF NextBucket, StartEdges, NextLevel, GiveEdges, GiveRightmost, InsertLiteral, Seeking, Working
<1>2. pc' \in Seeking /\ pc' \notin {"flip", "done"} /\ (pc' = "relax" => j' = 1)
  <2>1. CASE NextBucket
    BY <2>1 DEF NextBucket, Seeking, Working
  <2>2. CASE StartEdges
    BY <2>2 DEF StartEdges, Seeking, Working
  <2>3. CASE NextLevel
    BY <2>3 DEF NextLevel, Seeking, Working
  <2>4. CASE GiveEdges
    BY <2>4 DEF GiveEdges, Seeking, Working
  <2>5. CASE GiveRightmost
    BY <2>5 DEF GiveRightmost, Seeking, Working
  <2>6. CASE InsertLiteral
    BY <2>6 DEF InsertLiteral, Seeking, Working
  <2> QED
    BY <2>1, <2>2, <2>3, <2>4, <2>5, <2>6
<1>3. \A es : Relaxed(job, p_cost, i, es, 1 - 1)
  <2>1. \A q \in 1 .. (1 - 1) : FALSE
    OBVIOUS
  <2> QED
    BY <2>1 DEF Relaxed
<1>4. Tree(job, p_cost, parsing, Len(job.text), i) /\ Above(job, p_cost) /\ Cut(job, p_cost, i)
  BY <1>1 DEF IOpt, SeekPart
<1>5. SeekPart(job, pc', i, p_cost, parsing, max_edges', j')
  BY <1>2, <1>3, <1>4 DEF SeekPart
<1>6. FlipPart(job, pc', i, p_cost, parsing, cur_idx', copy')
  BY <1>2 DEF FlipPart
<1> QED
  BY <1>1, <1>5, <1>6 DEF IOpt

(* The bucket being generated is the one of the position.                  *)
LEMMA BucketOfHere ==
  ASSUME IInv, pc \in Working
  PROVE  StartBy(job, i) = bucket_start /\ job \in Jobs /\ i \in 0 .. (Len(job.text) - 1)
<1>1. Types /\ BucketPart(job, bucket_start, i, pc)
  BY DEF IInv
<1>2. /\ job \in Jobs /\ bucket_start \in 0 .. Len(job.text) /\ i \in Nat
      /\ bucket_start % job.bucket = 0 /\ bucket_start <= i /\ i < EndOf(job, bucket_start)
  BY <1>1, TypesAre DEF Types, BucketPart
<1>3. /\ bucket_start \in Nat /\ job.bucket \in Nat \ {0} /\ Len(job.text) \in Nat
      /\ EndOf(job, bucket_start) \in bucket_start .. Len(job.text)
      /\ EndOf(job, bucket_start) <= bucket_start + job.bucket
  BY <1>2, JobIs, BucketIs
<1>4. i < bucket_start + job.bucket /\ i \in 0 .. (Len(job.text) - 1)
  BY <1>2, <1>3
<1> QED
  BY <1>2, <1>3, <1>4, InMultiple DEF StartBy

(* Every edge given is an edge of the graph.                               *)
LEMMA GivenEdges ==
  ASSUME IInv, pc = "relax", NEW k \in 1 .. Len(max_edges)
  PROVE  /\ max_edges[k] \in EdgesBy(job, i) /\ ValueBy(job, max_edges[k]) \in Pair
         /\ max_edges[k].ell \in Nat \ {0} /\ i + max_edges[k].ell \in 0 .. Len(job.text)
<1> DEFINE e == max_edges[k]
           part == BucketOf(job, bucket_start)
           at == i - bucket_start
<1>1. /\ Types /\ GivenPart(job, bucket_start, i, pc, max_edges)
  BY DEF IInv
<1>2. StartBy(job, i) = bucket_start /\ job \in Jobs /\ i \in 0 .. (Len(job.text) - 1)
  BY BucketOfHere DEF Working
<1>3. Len(part) \in Nat /\ at \in 0 .. Len(part)
  BY <1>2, AtBucket
<1>4. GoodEdge(part, at, e) /\ GivenAt(job, bucket_start, i, max_edges) /\ e \in MeshEdge
  BY <1>1, TypesAre DEF GivenPart
<1>5. e \in EdgesBy(job, i)
  <2>1. CASE ~ job.rightmost
    <3> HIDE DEF part, at, e
    <3>1. e \in Copies(part, at)
      BY <1>3, <1>4, CopiesAre
    <3>2. e \in CopiesBy(job, i)
      BY <1>2, <3>1 DEF CopiesBy, part, at
    <3> QED
      BY <2>1, <3>2 DEF EdgesBy, GivenBy
  <2>2. CASE job.rightmost
    <3>1. max_edges # <<>>
      <4>1. max_edges = <<>> => Len(max_edges) = 0
        OBVIOUS
      <4> QED
        BY <4>1
    <3>2. i \in ReachedBy(job) /\ Len(max_edges) = 1 /\ max_edges[1] \in NearestIn(part, at)
      BY <2>2, <3>1, <1>4 DEF GivenAt
    <3>3. k = 1
      BY <3>2
    <3>4. e \in NearestBy(job, i)
      BY <1>2, <3>2, <3>3 DEF NearestBy
    <3> QED
      BY <2>2, <3>2, <3>4 DEF EdgesBy, GivenBy
  <2> QED
    BY <2>1, <2>2
<1> HIDE DEF e
<1>6. e.ell \in 1 .. (Len(job.text) - i) /\ ValueBy(job, e) \in Pair
  BY <1>2, <1>5, EdgesAre
<1>7. e.ell \in Nat \ {0} /\ i + e.ell \in 0 .. Len(job.text)
  <2> DEFINE x == e.ell
             N == Len(job.text)
  <2>1. x \in 1 .. (N - i) /\ i \in 0 .. (N - 1) /\ N \in Nat
    BY <1>2, <1>6, JobIs
  <2> HIDE DEF x, N
  <2>2. x \in Nat \ {0} /\ i + x \in 0 .. N
    BY <2>1
  <2> QED
    BY <2>2 DEF x, N
<1> QED
  BY <1>5, <1>6, <1>7 DEF e

(* edge_relax, on an edge of the graph.                                    *)
LEMMA RelaxRelaxes ==
  ASSUME Types, Types', job' = job, NEW from \in 0 .. (Len(job.text) - 1), NEW e \in EdgesBy(job, from),
         p_cost[from] \in Pair, Relax(from, e)
  PROVE  Relaxes(job, p_cost, parsing, p_cost', parsing', from, from + e.ell, e)
<1> DEFINE N == Len(job.text)
           x == e.ell
           to == from + x
<1>1. L = N /\ L' = N /\ N \in Nat /\ job \in Jobs
  BY TypesAre DEF L, Types
<1>2. x \in 1 .. (N - from) /\ Value(e) = ValueBy(job, e) /\ Value(e) \in Pair /\ e \in Edge
  <2>1. Value(e) = ValueBy(job, e)
    BY DEF Value, ValueBy
  <2> QED
    BY <1>1, <2>1, EdgesAre
<1> HIDE DEF x
<1>3. to \in 0 .. N /\ from \in 0 .. N
  BY <1>1, <1>2
<1>4. /\ \A n \in 0 .. L : n # to => p_cost'[n] = p_cost[n] /\ parsing'[n] = parsing[n]
      /\ IF Less(Plus(p_cost[from], Value(e)), p_cost[to])
         THEN p_cost'[to] = Plus(p_cost[from], Value(e)) /\ parsing'[to] = e
         ELSE /\ p_cost[to] \in Pair
              /\ p_cost'[to] = p_cost[to] /\ parsing'[to] = parsing[to]
  BY <1>1, <1>2, <1>3, RelaxIs DEF x
<1>5. p_cost \in Costs(job) /\ p_cost' \in Costs(job)
  BY <1>1 DEF Types, Costs
<1> HIDE DEF to
<1>6. \/ p_cost'[to] = Plus(p_cost[from], ValueBy(job, e)) /\ parsing'[to] = e
           /\ Less(p_cost'[to], p_cost[to])
      \/ p_cost'[to] = p_cost[to] /\ parsing'[to] = parsing[to] /\ p_cost[to] \in Pair
           /\ ~ Less(Plus(p_cost[from], ValueBy(job, e)), p_cost[to])
  BY <1>2, <1>4
<1> QED
  BY <1>1, <1>4, <1>5, <1>6 DEF Relaxes, to, x, N

LEMMA OptRelaxCopy ==
  ASSUME IInv, IOpt, RelaxCopy
  PROVE  IOpt'
<1> DEFINE e == max_edges[j]
           to == i + e.ell
           cost2 == p_cost'
           P2 == parsing'
           k == j - 1
<1>1. /\ UNCHANGED <<job, pc, i, max_edges, cur_idx, copy>>
      /\ pc = "relax" /\ j <= Len(max_edges) /\ j' = j + 1 /\ Relax(i, e)
  BY DEF RelaxCopy, edges, flipping
<1>2. IInv' /\ Types /\ Types' /\ CostPart(i, p_cost)
  BY RelaxCopyKeeps DEF IInv
<1>3. job \in Jobs /\ i \in 0 .. (Len(job.text) - 1) /\ Len(job.text) \in Nat /\ i \in Nat
  <2>1. job \in Jobs /\ i \in 0 .. (Len(job.text) - 1)
    BY <1>1, BucketOfHere DEF Working
  <2> QED
    BY <2>1, JobIs
<1>4. j \in 1 .. Len(max_edges) /\ j \in Nat \ {0} /\ k \in Nat /\ k + 1 = j /\ j' - 1 = j
      /\ Len(max_edges) \in Nat /\ \A q \in 1 .. k : q \in 1 .. Len(max_edges)
  <2>1. j \in Nat \ {0} /\ Len(max_edges) \in Nat
    BY <1>2, TypesAre DEF Types
  <2> QED
    BY <2>1, <1>1
<1>5. \A q \in 1 .. Len(max_edges) :
        /\ max_edges[q] \in EdgesBy(job, i) /\ ValueBy(job, max_edges[q]) \in Pair
        /\ max_edges[q].ell \in Nat \ {0} /\ i + max_edges[q].ell \in 0 .. Len(job.text)
  BY <1>1, GivenEdges
<1>6. p_cost[i] \in Pair
  BY <1>2, <1>3 DEF CostPart
<1>7. /\ Tree(job, p_cost, parsing, Len(job.text), i) /\ Above(job, p_cost) /\ Cut(job, p_cost, i)
      /\ Relaxed(job, p_cost, i, max_edges, k)
  BY <1>1 DEF IOpt, SeekPart, Seeking, Working
<1> HIDE DEF e, k
<1>8. e \in EdgesBy(job, i)
  BY <1>4, <1>5 DEF e
<1>9. Relaxes(job, p_cost, parsing, cost2, P2, i, to, e)
  BY <1>1, <1>2, <1>3, <1>6, <1>8, RelaxRelaxes
<1> HIDE DEF to, cost2, P2
<1>10. i < to /\ i <= to /\ i <= i /\ i \in 0 .. Len(job.text)
  <2>1. i < to
    BY <1>3, <1>9, RelaxesIs
  <2>2. to \in 1 .. Len(job.text)
    BY <1>3, <1>9, RelaxesIs
  <2> QED
    BY <2>1, <2>2, <1>3
<1>11. Tree(job, cost2, P2, Len(job.text), i)
  BY <1>3, <1>7, <1>9, <1>10, TreeKept
<1>12. Above(job, cost2)
  BY <1>3, <1>7, <1>9, AboveKept
<1>13. Cut(job, cost2, i)
  BY <1>3, <1>7, <1>9, <1>10, CutKept
<1>14. Relaxed(job, cost2, i, max_edges, k + 1)
  <2>1. \A q \in 1 .. k : i + max_edges[q].ell \in 0 .. Len(job.text) /\ ValueBy(job, max_edges[q]) \in Pair
    BY <1>4, <1>5 DEF k
  <2>2. e = max_edges[k + 1] /\ k \in Nat
    BY <1>4 DEF e, k
  <2> QED
    BY <1>3, <1>7, <1>9, <2>1, <2>2, RelaxedKept
<1>15. k + 1 = j' - 1
  BY <1>4 DEF k
<1>16. SeekPart(job, pc, i, cost2, P2, max_edges, j')
  BY <1>11, <1>12, <1>13, <1>14, <1>15 DEF SeekPart
<1>17. FlipPart(job, pc, i, cost2, P2, cur_idx, copy)
  BY <1>1 DEF FlipPart
<1> QED
  BY <1>1, <1>16, <1>17 DEF IOpt, cost2, P2

LEMMA OptRelaxRun ==
  ASSUME IInv, IOpt, RelaxRun
  PROVE  IOpt'
<1> DEFINE ell == plain.ell
           from == i - (ell - 1)
           u == i + 1
           cost2 == p_cost'
           P2 == parsing'
           N == Len(job.text)
<1>1. /\ UNCHANGED <<job, j, max_edges, cur_idx, copy>>
      /\ pc = "relax" /\ j > Len(max_edges) /\ i' = u /\ pc' = "visit" /\ Relax(from, plain)
  BY DEF RelaxRun, edges, flipping
<1>2. IInv' /\ Types /\ Types' /\ CostPart(i, p_cost) /\ GivenPart(job, bucket_start, i, pc, max_edges)
  BY RelaxRunKeeps DEF IInv
<1>3. job \in Jobs /\ i \in 0 .. (N - 1) /\ N \in Nat /\ i \in Nat /\ StartBy(job, i) = bucket_start
  <2>1. job \in Jobs /\ i \in 0 .. (N - 1) /\ StartBy(job, i) = bucket_start
    BY <1>1, BucketOfHere DEF Working
  <2> QED
    BY <2>1, JobIs
<1>4. /\ ell \in 1 .. u /\ plain = Plain(ell) /\ Picks(job, p_cost, increasing_seq, u, ell)
      /\ from \in 0 .. i /\ from = u - ell /\ from + ell = u /\ p_cost[from] \in Pair
  BY <1>1, RunPicked
<1>5. ell <= job.window /\ ell \in 1 .. (N - from) /\ from \in 0 .. (N - 1) /\ from <= i
  <2>1. ell \in 1 .. job.window /\ job.window \in Nat
    BY <1>3, <1>4, JobIs DEF Picks
  <2> HIDE DEF ell, from, N
  <2>2. ell <= job.window
    BY <2>1
  <2>3. ell \in 1 .. (N - from) /\ from \in 0 .. (N - 1) /\ from <= i
    BY <1>3, <1>4
  <2> QED
    BY <2>2, <2>3
<1>6. plain \in EdgesBy(job, from)
  <2> HIDE DEF ell, from
  <2>1. Plain(ell) \in RunsBy(job, from)
    BY <1>5 DEF RunsBy
  <2> QED
    BY <2>1, <1>4 DEF EdgesBy
<1>7. /\ Tree(job, p_cost, parsing, N, i) /\ Above(job, p_cost) /\ Cut(job, p_cost, i)
      /\ Relaxed(job, p_cost, i, max_edges, j - 1)
  BY <1>1 DEF IOpt, SeekPart, Seeking, Working
<1>8. Relaxes(job, p_cost, parsing, cost2, P2, from, from + plain.ell, plain)
  <2> HIDE DEF from
  <2> QED
    BY <1>1, <1>2, <1>3, <1>4, <1>5, <1>6, RelaxRelaxes
<1>9. Relaxes(job, p_cost, parsing, cost2, P2, from, u, plain)
  <2> HIDE DEF cost2, P2, from, u
  <2> QED
    BY <1>4, <1>8 DEF ell
<1>10. /\ max_edges \in Seq(MeshEdge) /\ GivenAt(job, StartBy(job, i), i, max_edges)
       /\ \A k \in 1 .. Len(max_edges) :
            GoodEdge(BucketOf(job, StartBy(job, i)), i - StartBy(job, i), max_edges[k])
       /\ \A k \in 1 .. Len(max_edges) : i + max_edges[k].ell \in 0 .. N /\ max_edges[k].ell \in Nat \ {0}
  <2>1. GivenAt(job, bucket_start, i, max_edges)
        /\ \A k \in 1 .. Len(max_edges) : GoodEdge(BucketOf(job, bucket_start), i - bucket_start, max_edges[k])
    BY <1>1, <1>2 DEF GivenPart
  <2>2. \A k \in 1 .. Len(max_edges) : i + max_edges[k].ell \in 0 .. N /\ max_edges[k].ell \in Nat \ {0}
    BY <1>1, GivenEdges
  <2>3. max_edges \in Seq(MeshEdge)
    BY <1>2 DEF Types
  <2> QED
    BY <1>3, <2>1, <2>2, <2>3
<1>11. Relaxed(job, p_cost, i, max_edges, Len(max_edges))
  <2>1. j \in Nat /\ Len(max_edges) \in Nat
    BY <1>2, TypesAre DEF Types
  <2>2. \A q \in 1 .. Len(max_edges) : q \in 1 .. (j - 1)
    BY <2>1, <1>1
  <2> QED
    BY <2>2, <1>7 DEF Relaxed
<1> HIDE DEF from, cost2, P2, ell
<1>12. u \in Nat /\ i < u /\ from <= i /\ i <= u /\ u \in 0 .. N
  BY <1>3, <1>5
<1>13. Tree(job, cost2, P2, N, u)
  <2>1. Tree(job, cost2, P2, N, i)
    BY <1>3, <1>7, <1>9, <1>12, TreeKept
  <2>2. N \in 0 .. N
    BY <1>3
  <2> HIDE DEF u, N
  <2> QED
    BY <1>3, <1>12, <2>1, <2>2, TreeGrows
<1>14. Above(job, cost2)
  BY <1>3, <1>7, <1>9, AboveKept
<1>15. Cut(job, cost2, u)
  <2>1. Relaxes(job, p_cost, parsing, cost2, P2, (i + 1) - ell, i + 1, Plain(ell))
    BY <1>4, <1>9
  <2>2. Picks(job, p_cost, increasing_seq, i + 1, ell)
    BY <1>4
  <2>3. i \in 0 .. (Len(job.text) - 1)
    BY <1>3
  <2>4. \A k \in 1 .. Len(max_edges) : i + max_edges[k].ell \in 0 .. Len(job.text) /\ max_edges[k].ell \in Nat \ {0}
    BY <1>10
  <2>5. Cut(job, cost2, i + 1)
    BY <1>2, <1>3, <1>7, <1>10, <1>11, <2>1, <2>2, <2>3, <2>4, CutMoves
  <2> QED
    BY <2>5
<1>16. SeekPart(job, "visit", u, cost2, P2, max_edges, j)
  BY <1>13, <1>14, <1>15 DEF SeekPart
<1>17. FlipPart(job, "visit", u, cost2, P2, cur_idx, copy)
  BY DEF FlipPart
<1> HIDE DEF u
<1> QED
  BY <1>1, <1>16, <1>17 DEF IOpt, cost2, P2

LEMMA OptFlip ==
  ASSUME IInv, IOpt, StartFlip \/ FlipEdge \/ Finish
  PROVE  IOpt'
<1> DEFINE N == Len(job.text)
<1>1. /\ UNCHANGED <<job, i, p_cost>> /\ pc' \in {"flip", "done"}
  BY DEF StartFlip, FlipEdge, Finish
<1>2. Types /\ CostPart(i, p_cost) /\ job \in Jobs /\ L = N /\ N \in Nat
  BY TypesAre DEF IInv, Types
<1>3. SeekPart(job, pc', i, p_cost, parsing', max_edges', j')
  BY <1>1 DEF SeekPart, Seeking, Working
<1>4. FlipPart(job, pc', i, p_cost, parsing', cur_idx', copy')
  <2>1. CASE StartFlip
    <3>1. pc = "visit" /\ i = N /\ pc' = "flip" /\ cur_idx' = N /\ UNCHANGED <<parsing, copy>>
      BY <2>1, <1>2 DEF StartFlip
    <3>2. Tree(job, p_cost, parsing, N, N) /\ Above(job, p_cost) /\ Cut(job, p_cost, N) /\ CostPart(N, p_cost)
      BY <3>1, <1>2 DEF IOpt, SeekPart, Seeking, Working
    <3>3. Priced(job, parsing) /\ FlipAt(job, p_cost, parsing, N, copy)
      BY <1>2, <3>2, FlipBegins
    <3>4. MonotoneJob(job) => p_cost[N] = Rest(job, 0)
      BY <1>2, <3>2, CutEnds
    <3> QED
      BY <3>1, <3>3, <3>4 DEF FlipPart
  <2>2. CASE FlipEdge
    <3>1. /\ pc = "flip" /\ pc' = "flip" /\ cur_idx >= 0
          /\ parsing' = [parsing EXCEPT ![cur_idx] = copy] /\ copy' = parsing[cur_idx]
          /\ cur_idx' = cur_idx - parsing[cur_idx].ell
      BY <2>2 DEF FlipEdge
    <3>2. /\ i = N /\ Priced(job, parsing) /\ FlipAt(job, p_cost, parsing, cur_idx, copy)
          /\ MonotoneJob(job) => p_cost[N] = Rest(job, 0)
      BY <3>1 DEF IOpt, FlipPart
    <3>3. cur_idx \in 0 .. N /\ parsing \in [0 .. N -> Edge] /\ CostPart(N, p_cost)
      <4>1. cur_idx \in Int /\ cur_idx <= N
        BY <1>2 DEF Types
      <4> QED
        BY <4>1, <3>1, <3>2, <1>2 DEF Types
    <3> DEFINE P2 == parsing'
    <3>4. P2 = [parsing EXCEPT ![cur_idx] = copy]
      BY <3>1
    <3> HIDE DEF P2
    <3>5. Priced(job, P2) /\ FlipAt(job, p_cost, P2, cur_idx - parsing[cur_idx].ell, parsing[cur_idx])
      BY <1>2, <3>2, <3>3, <3>4, FlipMoves
    <3> QED
      BY <3>1, <3>2, <3>5 DEF FlipPart, P2
  <2>3. CASE Finish
    <3>1. pc = "flip" /\ cur_idx < 0 /\ UNCHANGED <<parsing, cur_idx, copy>>
      BY <2>3 DEF Finish, flipping
    <3> QED
      BY <3>1 DEF IOpt, FlipPart
  <2> QED
    BY <2>1, <2>2, <2>3
<1> QED
  BY <1>1, <1>3, <1>4 DEF IOpt

LEMMA OptKeeps ==
  ASSUME IInv, IOpt, [Next]_vars
  PROVE  IOpt'
<1>1. CASE NextBucket \/ StartEdges \/ NextLevel \/ GiveEdges \/ GiveRightmost \/ InsertLiteral
  BY <1>1, OptIdle
<1>2. CASE RelaxCopy
  BY <1>2, OptRelaxCopy
<1>3. CASE RelaxRun
  BY <1>3, OptRelaxRun
<1>4. CASE StartFlip \/ FlipEdge \/ Finish
  BY <1>4, OptFlip
<1>5. CASE UNCHANGED vars
  BY <1>5 DEF vars, edges, flipping, IOpt
<1>6. CASE Terminated
  BY <1>5, <1>6 DEF Terminated
<1> QED
  BY <1>1, <1>2, <1>3, <1>4, <1>5, <1>6 DEF Next

LEMMA EndsOptimal ==
  ASSUME IInv, IOpt
  PROVE  EndIsOptimal
<1> SUFFICES ASSUME pc = "done" PROVE EndIsOptimal
  BY DEF EndIsOptimal
<1>1. /\ FlipAt(job, p_cost, parsing, cur_idx, copy) /\ cur_idx < 0
      /\ MonotoneJob(job) => p_cost[Len(job.text)] = Rest(job, 0)
  BY DEF IOpt, FlipPart
<1>2. L = Len(job.text) /\ L \in Nat /\ L - 0 = L
  <2>1. L = Len(job.text) /\ L \in Nat
    BY TypesAre DEF IInv
  <2> QED
    BY <2>1
<1>3. FollowedBy(job, parsing)[L] = p_cost[L]
  BY <1>1, <1>2 DEF FlipAt
<1>4. Flipped = FollowedBy(job, parsing)[L]
  BY DEF Flipped, FollowedBy, L, IsPhrase, IsRun, ValueBy, Value
<1>5. Rest(job, 0) = BestBy(job)[L]
  BY <1>2 DEF Rest
<1>6. Optimum = BestBy(job)[L]
  BY DEF Optimum, BestBy, L, ValueBy, Value, EdgesBy, GivenBy, RunsBy, Given, Runs,
         CopiesOf, StartOf, CopiesBy, StartBy, BucketOf, EndOf, Nearest, NearestBy, NearestIn,
         Longest, LongestIn, Reached, ReachedBy, Step, LongestBy
<1> QED
  BY <1>1, <1>2, <1>3, <1>4, <1>5, <1>6 DEF EndIsOptimal, MonotoneJob

(* Whenever parse ends, the parsing it leaves is one of the text, costs    *)
(* what parse reports, and costs what the best of all parsings does: for   *)
(* every text, models, window and buckets, although the edges given and    *)
(* the runs the window picks are all that is ever relaxed.                 *)
THEOREM AlwaysOptimal == Spec => []EndIsOptimal
<1>1. Init => IOpt
  BY OptInit
<1>2. IInv /\ IOpt /\ [Next]_vars => IOpt'
  BY OptKeeps
<1>3. IInv /\ IOpt => EndIsOptimal
  BY EndsOptimal
<1> QED
  BY <1>1, <1>2, <1>3, ParserInductive, PTL DEF Spec

===============================================================================
