--------------------------- MODULE BicriteriaProofs ---------------------------
(***************************************************************************)
(* Proofs about Bicriteria, for every file, list of bounds, capacity of    *)
(* the compressed cache, relative gap and weight of a phrase.              *)
(***************************************************************************)
EXTENDS Bicriteria, Integers, FiniteSets, TLAPS, WellFoundedInduction, FiniteSetTheorems, SequenceTheorems
-------------------------------------------------------------------------------
(* A set of naturals that is not empty has a least element. *)
LEMMA SmallestOf ==
  ASSUME NEW T, T \subseteq Nat, T # {}
  PROVE  \E m \in T : \A n \in T : m <= n
<1>1. IsWellFoundedOn(OpToRel(<, Nat), Nat)
  BY NatLessThanWellFounded, Zenon
<1>2. PICK m \in T : \A n \in T : ~ (<<n, m>> \in OpToRel(<, Nat))
  BY <1>1, WFMin, Zenon
<1>3. \A n \in T : ~ (n < m)
  BY <1>2 DEF OpToRel
<1> QED
  BY <1>3

-------------------------------------------------------------------------------
(* Cost and weight of a parsing under a bound of a given type. *)
CostBy(ty, p)   == IF ty = "TIME" THEN p.space ELSE p.time
WeightBy(ty, p) == IF ty = "TIME" THEN p.time ELSE p.space

Stage == {"next", "done", "cost", "weight", "bound", "decide", "refused",
          "seed", "solve", "integrate", "swap"}
Outcome == [bound : Bound, how : {"cost", "weight", "swap"}, sol : Parsing, W : Int]

(* The generation infos run asks for: two models for the ends of the       *)
(* trade-off, or one combination of space and time.                        *)
PairGen(g) == g = Gen(PureSpace, PureTime) \/ g = Gen(PureTime, PureSpace)
MixGen(g) ==
  \E l \in Multiplier : \/ g = Gen([space |-> One, time |-> l], NoModel)
                        \/ g = Gen([space |-> l, time |-> One], NoModel)

(* A solution of the file f for such a generation info. *)
Made(f, si) ==
  /\ PairGen(si.gen) \/ MixGen(si.gen)
  /\ si.sol \in Cheapest(si.gen.cm_1, f)

InputsOK(f, pl, td, k, w, out) ==
  /\ f \subseteq Parsing
  /\ pl.SPACE \in Cheapest(PureSpace, f) /\ pl.TIME \in Cheapest(PureTime, f)
  /\ td \in Seq(Bound) /\ (k \notin {"next", "done"} => td # <<>>)
  /\ k \in Stage /\ w \in Int /\ out \in Seq(Outcome)

(* Every solution cached is one, no two answer to the same generation      *)
(* info, and a compressed parsing is kept only for a solution.             *)
CachesOK(f, wm, sc, cc) ==
  /\ \A si \in sc : Made(f, si)
  /\ \A si, sj \in sc : SameGen(si.gen, sj.gen) => si = sj
  /\ cc \in Seq(sc)
  /\ sc # {} => wm

HasCost   == {"weight", "bound", "decide", "seed", "solve", "integrate", "swap"}
HasWeight == HasCost \ {"weight"}
HasBound  == HasWeight \ {"bound"}
HasBasis  == HasBound \ {"decide"}

CheapestOK(f, ty, k, sc, co) ==
  k \in HasCost => co \in sc /\ \A q \in f : CostBy(ty, co.sol) <= CostBy(ty, q)
LightestOK(f, ty, k, sc, wo) ==
  k \in HasWeight => wo \in sc /\ \A q \in f : WeightBy(ty, wo.sol) <= WeightBy(ty, q)
BoundOK(b, ty, k, w, co, wo) ==
  k \in HasBound => w = GetFixed(b, WeightBy(ty, co.sol), WeightBy(ty, wo.sol))

(* The basis holds two solutions of the caches, on the two sides of W. *)
BasisOK(ty, k, w, sc, wo, bs) ==
  k \in HasBasis => /\ bs = [left |-> bs.left, right |-> bs.right]
                    /\ WeightBy(ty, wo.sol) < w
                    /\ bs.left \in sc /\ w < WeightBy(ty, bs.left.sol)
                    /\ bs.right \in sc /\ WeightBy(ty, bs.right.sol) <= w

NotWorse(si, p) == p.space <= si.sol.space /\ p.time <= si.sol.time
BasesOK(k, bs, bb) ==
  k = "swap" => NotWorse(bs.left, bb[1]) /\ NotWorse(bs.right, bb[2])

InputsPart == InputsOK(file, plain, todo, pc, W, outputs)
CachesPart == CachesOK(file, warm, sol_cache, comp_cache)
OptimaPart ==
  /\ CheapestOK(file, type, pc, sol_cache, cost_opt)
  /\ LightestOK(file, type, pc, sol_cache, weight_opt)
  /\ BoundOK(Head(todo), type, pc, W, cost_opt, weight_opt)
BasisPart ==
  /\ BasisOK(type, pc, W, sol_cache, weight_opt, basis)
  /\ seed \subseteq sol_cache
  /\ BasesOK(pc, basis, bases)

IInv == InputsPart /\ CachesPart /\ OptimaPart /\ BasisPart

-------------------------------------------------------------------------------
(* Products of naturals. *)
LEMMA ProductType == ASSUME NEW a \in Nat, NEW b \in Nat PROVE a * b \in Nat
OBVIOUS

LEMMA ProductMonotone ==
  ASSUME NEW k \in Nat, NEW a \in Int, NEW b \in Int, a <= b
  PROVE  k * a <= k * b
<1>1. PICK d \in Nat : b = a + d
  <2>1. b - a \in Nat /\ b = a + (b - a)
    OBVIOUS
  <2> QED
    BY <2>1
<1>2. k * d \in Nat
  OBVIOUS
<1>3. k * b = k * a + k * d
  BY <1>1
<1> QED
  BY <1>2, <1>3

LEMMA ProductStrict ==
  ASSUME NEW k \in Nat \ {0}, NEW a \in Int, NEW b \in Int, a < b
  PROVE  k * a < k * b
<1>1. a + 1 <= b /\ a + 1 \in Int
  OBVIOUS
<1>2. k * (a + 1) <= k * b
  BY <1>1, ProductMonotone
<1>3. k * (a + 1) = k * a + k
  OBVIOUS
<1> QED
  BY <1>2, <1>3

(* What a parsing costs under each model run uses. *)
LEMMA PriceOf ==
  ASSUME NEW p \in Parsing, NEW l \in Multiplier
  PROVE  /\ p.space \in Nat \ {0} /\ p.time \in Nat \ {0}
         /\ l.num \in Nat /\ l.den \in Nat \ {0}
         /\ Price(PureSpace, p) = p.space
         /\ Price(PureTime, p) = p.time
         /\ Price([space |-> One, time |-> l], p) = l.den * p.space + l.num * p.time
         /\ Price([space |-> l, time |-> One], p) = l.num * p.space + l.den * p.time
<1>1. p.space \in Nat \ {0} /\ p.time \in Nat \ {0}
  BY DEF Parsing
<1>2. l.num \in Nat /\ l.den \in Nat \ {0}
  BY DEF Multiplier
<1>3. Price(PureSpace, p) = p.space /\ Price(PureTime, p) = p.time
  BY <1>1 DEF Price, PureSpace, PureTime, One, Zero
<1>4. Price([space |-> One, time |-> l], p) = 1 * l.den * p.space + l.num * 1 * p.time
  BY DEF Price, One
<1>5. Price([space |-> l, time |-> One], p) = l.num * 1 * p.space + 1 * l.den * p.time
  BY DEF Price, One
<1> QED
  BY <1>1, <1>2, <1>3, <1>4, <1>5

(* The cheapest parsings under the pure models are the least ones.         *)
LEMMA CheapestPure ==
  ASSUME NEW f, f \subseteq Parsing, NEW p
  PROVE  /\ p \in Cheapest(PureSpace, f) => p \in f /\ \A q \in f : p.space <= q.space
         /\ p \in Cheapest(PureTime, f) => p \in f /\ \A q \in f : p.time <= q.time
<1>1. \A q \in f : Price(PureSpace, q) = q.space /\ Price(PureTime, q) = q.time
  <2>1. One \in Multiplier
    BY DEF One, Multiplier
  <2> QED
    BY <2>1, PriceOf
<1> QED
  BY <1>1 DEF Cheapest

(* No parsing is smaller and faster at once than a solution.               *)
LEMMA MadeIsEfficient ==
  ASSUME NEW f, f \subseteq Parsing, NEW si, Made(f, si), NEW p \in f
  PROVE  /\ si.sol \in f
         /\ ~ (p.space < si.sol.space /\ p.time < si.sol.time)
<1> DEFINE s == si.sol
           m == si.gen.cm_1
<1>1. s \in f /\ Price(m, s) <= Price(m, p)
  BY DEF Made, Cheapest
<1>2. s \in Parsing /\ p \in Parsing
  BY <1>1
<1>3. ASSUME m = PureSpace \/ m = PureTime
      PROVE  ~ (p.space < s.space /\ p.time < s.time)
  <2>1. One \in Multiplier
    BY DEF One, Multiplier
  <2>2. p.space \in Nat /\ p.time \in Nat /\ s.space \in Nat /\ s.time \in Nat
    BY <1>2 DEF Parsing
  <2>3. s.space <= p.space \/ s.time <= p.time
    <3>1. CASE m = PureSpace
      BY <1>1, <1>2, <2>1, <3>1, PriceOf
    <3>2. CASE m = PureTime
      BY <1>1, <1>2, <2>1, <3>2, PriceOf
    <3> QED
      BY <1>3, <3>1, <3>2
  <2> QED
    BY <1>1, <2>2, <2>3
<1>4. ASSUME NEW l \in Multiplier,
             m = [space |-> One, time |-> l] \/ m = [space |-> l, time |-> One]
      PROVE  ~ (p.space < s.space /\ p.time < s.time)
  <2> DEFINE a == l.num
             b == l.den
             x == p.space
             y == p.time
             u == s.space
             v == s.time
  <2>1. /\ a \in Nat /\ b \in Nat \ {0} /\ x \in Nat /\ y \in Nat /\ u \in Nat /\ v \in Nat
        /\ Price([space |-> One, time |-> l], p) = b * x + a * y
        /\ Price([space |-> One, time |-> l], s) = b * u + a * v
        /\ Price([space |-> l, time |-> One], p) = a * x + b * y
        /\ Price([space |-> l, time |-> One], s) = a * u + b * v
    BY <1>2, PriceOf
  <2>2. b * u + a * v <= b * x + a * y \/ a * u + b * v <= a * x + b * y
    BY <1>1, <1>4, <2>1
  <2>3. SUFFICES ASSUME x < u, y < v PROVE FALSE
    OBVIOUS
  <2> HIDE DEF a, b, x, y, u, v
  <2>4. b * x < b * u /\ a * y <= a * v /\ a * x <= a * u /\ b * y < b * v
    BY <2>1, <2>3, ProductMonotone, ProductStrict
  <2>5. /\ b * x \in Nat /\ b * u \in Nat /\ a * y \in Nat /\ a * v \in Nat
        /\ a * x \in Nat /\ a * u \in Nat /\ b * y \in Nat /\ b * v \in Nat
    BY <2>1, ProductType
  <2> QED
    BY <2>2, <2>4, <2>5
<1>5. m = PureSpace \/ m = PureTime \/ \E l \in Multiplier :
        m = [space |-> One, time |-> l] \/ m = [space |-> l, time |-> One]
  <2>1. CASE PairGen(si.gen)
    BY <2>1 DEF PairGen, Gen
  <2>2. CASE MixGen(si.gen)
    BY <2>2 DEF MixGen, Gen
  <2> QED
    BY <2>1, <2>2 DEF Made
<1> HIDE DEF s, m
<1>6. ~ (p.space < s.space /\ p.time < s.time)
  <2>1. CASE \E l \in Multiplier :
               m = [space |-> One, time |-> l] \/ m = [space |-> l, time |-> One]
    BY <2>1, <1>4, Zenon
  <2> QED
    BY <1>3, <1>5, <2>1
<1> QED
  BY <1>1, <1>6 DEF s

(* A generation info run asks for. *)
LEMMA GenForms ==
  ASSUME NEW g, PairGen(g) \/ MixGen(g)
  PROVE  g.cm_1 \in Model /\ g.cm_2 \in Model /\ SameGen(g, g)
<1>1. One \in Multiplier /\ Zero \in Multiplier
  BY DEF One, Zero, Multiplier
<1>2. g.cm_1 \in Model /\ g.cm_2 \in Model
  BY <1>1 DEF PairGen, MixGen, Gen, Model, NoModel, PureSpace, PureTime
<1> QED
  BY <1>2 DEF SameGen, SameModel, SameRational

LEMMA SameGenSymmetric ==
  ASSUME NEW g, NEW h, g.cm_1 \in Model, g.cm_2 \in Model, h.cm_1 \in Model, h.cm_2 \in Model,
         SameGen(g, h)
  PROVE  SameGen(h, g)
<1>1. ASSUME NEW x \in Multiplier, NEW y \in Multiplier, SameRational(x, y)
      PROVE  SameRational(y, x)
  BY <1>1 DEF SameRational, Multiplier
<1>2. \A m \in {g.cm_1, g.cm_2, h.cm_1, h.cm_2} : m.space \in Multiplier /\ m.time \in Multiplier
  BY DEF Model
<1> QED
  BY <1>1, <1>2 DEF SameGen, SameModel

(* The two infos with two models are found by no other info run asks for.  *)
LEMMA PairIsItself ==
  ASSUME NEW g, PairGen(g) \/ MixGen(g), NEW h, PairGen(h), SameGen(g, h)
  PROVE  g = h
<1>1. ~ SameRational(Zero, One) /\ ~ SameRational(One, Zero)
  BY DEF SameRational, Zero, One
<1>2. SameModel(g.cm_2, h.cm_2)
  BY DEF SameGen
<1>3. h.cm_2 = PureSpace \/ h.cm_2 = PureTime
  BY DEF PairGen, Gen
<1>4. ~ SameModel(NoModel, PureSpace) /\ ~ SameModel(NoModel, PureTime)
      /\ ~ SameModel(PureSpace, PureTime) /\ ~ SameModel(PureTime, PureSpace)
  BY <1>1 DEF SameModel, NoModel, PureSpace, PureTime
<1>5. ~ MixGen(g)
  BY <1>2, <1>3, <1>4 DEF MixGen, Gen
<1> QED
  BY <1>2, <1>4, <1>5 DEF PairGen, Gen

(* A single-model parse is one of the cheapest. *)
LEMMA SingleParseCheapest ==
  ASSUME InputsPart, NEW m \in Model
  PROVE  SingleParse(m) \subseteq Cheapest(m, file)
<1>1. file \subseteq Parsing /\ plain.SPACE \in file /\ plain.TIME \in file
  BY DEF InputsPart, InputsOK, Cheapest
<1>2. m.space.num \in Nat /\ m.space.den \in Nat /\ m.time.num \in Nat /\ m.time.den \in Nat
  BY DEF Model, Multiplier
<1> DEFINE a == m.space.num * m.time.den
           b == m.time.num * m.space.den
<1>3. a \in Nat /\ b \in Nat /\ (m.time.num = 0 => b = 0) /\ (m.space.num = 0 => a = 0)
  BY <1>2, ProductType
<1>4. \A p \in file : /\ Price(m, p) = a * p.space + b * p.time
                      /\ p.space \in Nat /\ p.time \in Nat
  BY <1>1 DEF Price, Parsing
<1> HIDE DEF a, b
<1>5. CASE m.time.num = 0
  <2> DEFINE s == plain.SPACE
  <2>1. ASSUME NEW q \in file PROVE Price(m, s) <= Price(m, q)
    <3>1. s.space <= q.space
      BY <1>1, CheapestPure DEF InputsPart, InputsOK
    <3>2. a * s.space <= a * q.space /\ a * s.space \in Nat /\ a * q.space \in Nat
      BY <1>1, <1>3, <1>4, <3>1, ProductMonotone, ProductType
    <3>3. b * s.time = 0 /\ b * q.time = 0
      BY <1>1, <1>3, <1>4, <1>5
    <3> QED
      BY <1>1, <1>4, <3>2, <3>3
  <2> QED
    BY <1>1, <1>5, <2>1 DEF SingleParse, Cheapest
<1>6. CASE m.time.num # 0 /\ m.space.num = 0
  <2> DEFINE s == plain.TIME
  <2>1. ASSUME NEW q \in file PROVE Price(m, s) <= Price(m, q)
    <3>1. s.time <= q.time
      BY <1>1, CheapestPure DEF InputsPart, InputsOK
    <3>2. b * s.time <= b * q.time /\ b * s.time \in Nat /\ b * q.time \in Nat
      BY <1>1, <1>3, <1>4, <3>1, ProductMonotone, ProductType
    <3>3. a * s.space = 0 /\ a * q.space = 0
      BY <1>1, <1>3, <1>4, <1>6
    <3> QED
      BY <1>1, <1>4, <3>2, <3>3
  <2> QED
    BY <1>1, <1>6, <2>1 DEF SingleParse, Cheapest
<1>7. CASE m.time.num # 0 /\ m.space.num # 0
  BY <1>7 DEF SingleParse
<1> QED
  BY <1>5, <1>6, <1>7

(* What optimal returns is a solution, and one of the cache when there is  *)
(* one for its generation info.                                            *)
LEMMA OptimalIsMade ==
  ASSUME InputsPart, CachesPart, NEW g, PairGen(g) \/ MixGen(g), NEW si \in Optimal(g)
  PROVE  /\ Made(file, si) /\ SameGen(si.gen, g)
         /\ Recorded(si.gen) # {} => si \in sol_cache
<1>1. CASE Recorded(g) # {}
  BY <1>1 DEF Optimal, Recorded, CachesPart, CachesOK
<1>2. CASE Recorded(g) = {}
  <2>1. PICK p \in Fast(g) : si = [gen |-> g, sol |-> p]
    BY <1>2 DEF Optimal
  <2>2. si.gen = g /\ si.sol = p
    BY <2>1
  <2>3. g.cm_1 \in Model /\ SameGen(g, g)
    BY GenForms
  <2>4. SingleParse(g.cm_1) \subseteq Cheapest(g.cm_1, file)
    BY <2>3, SingleParseCheapest
  <2>5. DualParse(g.cm_1, g.cm_2) \subseteq Cheapest(g.cm_1, file)
    BY DEF DualParse, Cheapest
  <2>6. p \in Cheapest(g.cm_1, file)
    BY <2>4, <2>5 DEF Fast
  <2> QED
    BY <1>2, <2>2, <2>3, <2>6 DEF Made
<1> QED
  BY <1>1, <1>2

(* The compressed cache drops entries and appends the new one. *)
LEMMA AddKeeps ==
  ASSUME NEW S, NEW list \in Seq(S), NEW T, S \subseteq T, NEW e \in T,
         NEW same \in SUBSET DOMAIN list
  PROVE  Add(list, e, same) \in Seq(T)
<1> DEFINE n == Len(list)
<1>1. n \in Nat /\ DOMAIN list = 1 .. n /\ list \in Seq(T) /\ \A i \in 1 .. n : list[i] \in T
  BY LenProperties, ElementOfSeq, SeqMonotonic
<1>2. ASSUME NEW i \in 1 .. n PROVE Erase(list, i) \in Seq(T)
  <2> DEFINE before == i - 1
             after == i + 1
  <2>1. i \in Nat /\ before \in Int /\ after \in Int /\ n \in Int
        /\ (\A j \in 1 .. before : list[j] \in T) /\ \A j \in after .. n : list[j] \in T
    BY <1>1
  <2>2. SubSeq(list, 1, before) \in Seq(T) /\ SubSeq(list, after, n) \in Seq(T)
    <3> HIDE DEF before, after, n
    <3> QED
      BY <2>1, SubSeqProperties
  <2> QED
    BY <2>2, ConcatProperties DEF Erase
<1>3. MakeRoom(list, same) \in Seq(T)
  <2>1. CASE n < Capacity
    BY <1>1, <2>1 DEF MakeRoom
  <2>2. CASE ~ (n < Capacity) /\ same = {}
    <3>1. 1 \in 1 .. n
      BY <1>1, <2>2, CapacityAssumption
    <3> QED
      BY <1>2, <2>2, <3>1 DEF MakeRoom
  <2>3. CASE ~ (n < Capacity) /\ same # {}
    <3> DEFINE first == CHOOSE i \in same : \A j \in same : i <= j
    <3>1. same \subseteq Nat /\ same \subseteq 1 .. n
      BY <1>1
    <3>2. \E i \in same : \A j \in same : i <= j
      BY <2>3, <3>1, SmallestOf
    <3>3. first \in 1 .. n
      BY <3>1, <3>2
    <3> HIDE DEF first
    <3>4. Erase(list, first) \in Seq(T)
      BY <1>2, <3>3
    <3> QED
      BY <2>3, <3>4 DEF MakeRoom, first
  <2> QED
    BY <2>1, <2>2, <2>3
<1> QED
  BY <1>3, AppendProperties DEF Add

(* Storing what optimal returned keeps the caches in order.                *)
LEMMA StoreKeeps ==
  ASSUME CachesPart, NEW si, Made(file, si), Recorded(si.gen) # {} => si \in sol_cache,
         NEW same \in SUBSET DOMAIN comp_cache, Store(si, same)
  PROVE  /\ CachesOK(file, warm', sol_cache', comp_cache')
         /\ si \in sol_cache' /\ sol_cache \subseteq sol_cache'
<1>1. CASE Recorded(si.gen) # {}
  BY <1>1 DEF Store, caches, CachesPart
<1>2. CASE Recorded(si.gen) = {}
  <2>1. /\ warm' = TRUE /\ sol_cache' = sol_cache \union {si}
        /\ comp_cache' = Add(comp_cache, si, same)
    BY <1>2 DEF Store
  <2>2. \A sj \in sol_cache' : Made(file, sj)
    BY <2>1 DEF CachesPart, CachesOK
  <2>3. comp_cache' \in Seq(sol_cache')
    BY <2>1, AddKeeps DEF CachesPart, CachesOK
  <2>4. ASSUME NEW sj \in sol_cache
        PROVE  ~ SameGen(sj.gen, si.gen) /\ ~ SameGen(si.gen, sj.gen)
    <3>1. ~ SameGen(sj.gen, si.gen)
      BY <1>2 DEF Recorded
    <3>2. Made(file, sj)
      BY DEF CachesPart, CachesOK
    <3>3. /\ si.gen.cm_1 \in Model /\ si.gen.cm_2 \in Model
          /\ sj.gen.cm_1 \in Model /\ sj.gen.cm_2 \in Model
      BY <3>2, GenForms DEF Made
    <3> QED
      BY <3>1, <3>3, SameGenSymmetric
  <2>5. \A sk, sj \in sol_cache' : SameGen(sk.gen, sj.gen) => sk = sj
    BY <2>1, <2>4 DEF CachesPart, CachesOK
  <2> QED
    BY <2>1, <2>2, <2>3, <2>5 DEF CachesOK
<1> QED
  BY <1>1, <1>2
-------------------------------------------------------------------------------
(* The ends of the trade-off, the bound and the basis.                     *)

LEMMA MeasuresAre ==
  ASSUME NEW p
  PROVE  Cost(p) = CostBy(type, p) /\ Weight(p) = WeightBy(type, p)
BY DEF Cost, Weight, CostBy, WeightBy

LEMMA MeasureTypes ==
  ASSUME NEW ty, NEW p \in Parsing
  PROVE  CostBy(ty, p) \in Nat \ {0} /\ WeightBy(ty, p) \in Nat \ {0}
BY DEF Parsing, CostBy, WeightBy

(* What a solution found for the ends of the trade-off is.                 *)
LEMMA EndsFound ==
  ASSUME InputsPart, NEW si, Made(file, si)
  PROVE  /\ SameGen(si.gen, Gen(CostModel, WeightModel)) =>
              \A q \in file : CostBy(type, si.sol) <= CostBy(type, q)
         /\ SameGen(si.gen, Gen(WeightModel, CostModel)) =>
              \A q \in file : WeightBy(type, si.sol) <= WeightBy(type, q)
<1>0. file \subseteq Parsing
  BY DEF InputsPart, InputsOK
<1>1. PairGen(Gen(CostModel, WeightModel)) /\ PairGen(Gen(WeightModel, CostModel))
  BY DEF PairGen, CostModel, WeightModel
<1>2. ASSUME NEW m, NEW n, PairGen(Gen(m, n)), SameGen(si.gen, Gen(m, n))
      PROVE  si.sol \in Cheapest(m, file)
  <2>1. si.gen = Gen(m, n)
    BY <1>2, PairIsItself DEF Made
  <2> QED
    BY <2>1 DEF Made, Gen
<1>3. ASSUME SameGen(si.gen, Gen(CostModel, WeightModel)), NEW q \in file
      PROVE  CostBy(type, si.sol) <= CostBy(type, q)
  <2>1. si.sol \in Cheapest(CostModel, file)
    BY <1>1, <1>2, <1>3
  <2> QED
    BY <1>0, <2>1, CheapestPure DEF CostModel, CostBy
<1>4. ASSUME SameGen(si.gen, Gen(WeightModel, CostModel)), NEW q \in file
      PROVE  WeightBy(type, si.sol) <= WeightBy(type, q)
  <2>1. si.sol \in Cheapest(WeightModel, file)
    BY <1>1, <1>2, <1>4
  <2> QED
    BY <1>0, <2>1, CheapestPure DEF WeightModel, WeightBy
<1> QED
  BY <1>3, <1>4

(* The parsings written by the two early returns. *)
LEMMA EndsReturned ==
  ASSUME InputsPart
  PROVE  /\ \A p \in SingleParse(CostModel) :
              p \in file /\ \A q \in file : CostBy(type, p) <= CostBy(type, q)
         /\ \A p \in SingleParse(WeightModel) :
              p \in file /\ \A q \in file : WeightBy(type, p) <= WeightBy(type, q)
<1>0. file \subseteq Parsing
  BY DEF InputsPart, InputsOK
<1>1. PureSpace \in Model /\ PureTime \in Model
  BY DEF PureSpace, PureTime, Model, One, Zero, Multiplier
<1>2. SingleParse(CostModel) \subseteq Cheapest(CostModel, file)
      /\ SingleParse(WeightModel) \subseteq Cheapest(WeightModel, file)
  BY <1>1, SingleParseCheapest DEF CostModel, WeightModel
<1>3. ASSUME NEW p \in SingleParse(CostModel)
      PROVE  p \in file /\ \A q \in file : CostBy(type, p) <= CostBy(type, q)
  <2>1. p \in Cheapest(CostModel, file)
    BY <1>2
  <2> QED
    BY <1>0, <2>1, CheapestPure DEF CostModel, CostBy
<1>4. ASSUME NEW p \in SingleParse(WeightModel)
      PROVE  p \in file /\ \A q \in file : WeightBy(type, p) <= WeightBy(type, q)
  <2>1. p \in Cheapest(WeightModel, file)
    BY <1>2
  <2> QED
    BY <1>0, <2>1, CheapestPure DEF WeightModel, WeightBy
<1> QED
  BY <1>3, <1>4

LEMMA GetFixedType ==
  ASSUME NEW b \in Bound, NEW max \in Int, NEW min \in Int
  PROVE  GetFixed(b, max, min) \in Int
<1>1. b.level.num \in Nat /\ b.level.den \in Nat \ {0}
  BY DEF Bound, Multiplier
<1> DEFINE x == b.level.num * (max - min)
<1>2. x \in Int
  BY <1>1
<1> HIDE DEF x
<1>3. x \div b.level.den \in Int
  BY <1>1, <1>2
<1> QED
  BY <1>1, <1>3 DEF GetFixed, x

(* Offering a solution to the basis leaves one on each side of W.          *)
LEMMA UpdateKeeps ==
  ASSUME NEW b, NEW si, NEW S, b.left \in S, b.right \in S, si \in S, W \in Int,
         b = [left |-> b.left, right |-> b.right], WeightBy(type, si.sol) \in Int,
         W < WeightBy(type, b.left.sol), WeightBy(type, b.right.sol) <= W
  PROVE  /\ Update(b, si).left \in S /\ Update(b, si).right \in S
         /\ Update(b, si) = [left |-> Update(b, si).left, right |-> Update(b, si).right]
         /\ W < WeightBy(type, Update(b, si).left.sol)
         /\ WeightBy(type, Update(b, si).right.sol) <= W
<1> DEFINE withRight == [b EXCEPT !.right = si]
           withLeft == [b EXCEPT !.left = si]
<1>1. /\ withRight = [left |-> b.left, right |-> si] /\ withLeft = [left |-> si, right |-> b.right]
  OBVIOUS
<1>2. Feasible(DualLine(si)) <=> WeightBy(type, si.sol) <= W
  BY MeasuresAre DEF Feasible, DualLine, LineOf
<1>3. Update(b, si) = b \/ (Feasible(DualLine(si)) /\ Update(b, si) = withRight)
                        \/ (~ Feasible(DualLine(si)) /\ Update(b, si) = withLeft)
  BY DEF Update, Lower
<1> HIDE DEF withRight, withLeft
<1>4. CASE Update(b, si) = b
  BY <1>4
<1>5. CASE Feasible(DualLine(si)) /\ Update(b, si) = withRight
  BY <1>1, <1>2, <1>5
<1>6. CASE ~ Feasible(DualLine(si)) /\ Update(b, si) = withLeft
  BY <1>1, <1>2, <1>6
<1> QED
  BY <1>3, <1>4, <1>5, <1>6

(* What writable_parsings returns for a solution of the caches.            *)
LEMMA WritableNotWorse ==
  ASSUME InputsPart, CachesPart, NEW si \in sol_cache, NEW p \in Writable(si)
  PROVE  NotWorse(si, p)
<1>0. file \subseteq Parsing /\ Made(file, si) /\ si.sol \in file
  BY DEF InputsPart, InputsOK, CachesPart, CachesOK, Made, Cheapest
<1>1. NotWorse(si, si.sol)
  BY <1>0 DEF NotWorse, Parsing
<1>2. CASE Kept(si) # {}
  <2>1. PICK i \in DOMAIN comp_cache : SameGen(comp_cache[i].gen, si.gen) /\ p = comp_cache[i].sol
    BY <1>2 DEF Writable, Kept
  <2>2. comp_cache[i] \in sol_cache
    BY LenProperties, ElementOfSeq DEF CachesPart, CachesOK
  <2>3. comp_cache[i] = si
    BY <2>1, <2>2 DEF CachesPart, CachesOK
  <2> QED
    BY <1>1, <2>1, <2>3
<1>3. CASE Kept(si) = {} /\ si.gen.cm_2 = NoModel
  BY <1>1, <1>3 DEF Writable, Regenerated
<1>4. CASE Kept(si) = {} /\ si.gen.cm_2 # NoModel
  <2>1. warm
    BY DEF CachesPart, CachesOK
  <2>2. p \in Cheapest(si.gen.cm_2, Cheapest(si.gen.cm_1, file))
    BY <1>4, <2>1 DEF Writable, Regenerated, Fast, DualParse
  <2>3. PairGen(si.gen)
    <3>1. MixGen(si.gen) => si.gen.cm_2 = NoModel
      BY DEF MixGen, Gen
    <3> QED
      BY <1>0, <1>4, <3>1 DEF Made
  <2>4. \/ si.gen.cm_1 = PureSpace /\ si.gen.cm_2 = PureTime
        \/ si.gen.cm_1 = PureTime /\ si.gen.cm_2 = PureSpace
    BY <2>3 DEF PairGen, Gen
  <2>5. si.sol \in Cheapest(si.gen.cm_1, file) /\ Cheapest(si.gen.cm_1, file) \subseteq Parsing
    BY <1>0 DEF Made, Cheapest
  <2>6. p \in Cheapest(si.gen.cm_1, file)
    BY <2>2 DEF Cheapest
  <2>7. CASE si.gen.cm_1 = PureSpace /\ si.gen.cm_2 = PureTime
    <3>1. p.space <= si.sol.space
      BY <1>0, <2>6, <2>7, CheapestPure
    <3>2. p.time <= si.sol.time
      BY <2>2, <2>5, <2>7, CheapestPure
    <3> QED
      BY <3>1, <3>2 DEF NotWorse
  <2>8. CASE si.gen.cm_1 = PureTime /\ si.gen.cm_2 = PureSpace
    <3>1. p.time <= si.sol.time
      BY <1>0, <2>6, <2>8, CheapestPure
    <3>2. p.space <= si.sol.space
      BY <2>2, <2>5, <2>8, CheapestPure
    <3> QED
      BY <3>1, <3>2 DEF NotWorse
  <2> QED
    BY <2>4, <2>7, <2>8
<1> QED
  BY <1>2, <1>3, <1>4

(* A basis with a solution on each side of W has a multiplier.             *)
LEMMA LambdaType ==
  ASSUME NEW b, b.left.sol \in Parsing, b.right.sol \in Parsing, W \in Int,
         W < WeightBy(type, b.left.sol), WeightBy(type, b.right.sol) <= W
  PROVE  Lambda(b) \in Multiplier
<1> DEFINE lw == Weight(b.left.sol) - W
           rw == Weight(b.right.sol) - W
           lc == Cost(b.left.sol)
           rc == Cost(b.right.sol)
<1>1. lw \in Int /\ rw \in Int /\ lc \in Int /\ rc \in Int /\ rw < lw
  <2>1. /\ Weight(b.left.sol) \in Int /\ Weight(b.right.sol) \in Int
        /\ Cost(b.left.sol) \in Int /\ Cost(b.right.sol) \in Int
    BY MeasureTypes, MeasuresAre
  <2>2. W < Weight(b.left.sol) /\ Weight(b.right.sol) <= W
    BY MeasuresAre
  <2> QED
    BY <2>1, <2>2
<1>2. Lambda(b) = IF rc - lc < 0 THEN [num |-> 0, den |-> 1]
                                 ELSE [num |-> rc - lc, den |-> lw - rw]
  <2>1. ~ (rw > lw)
    BY <1>1
  <2> HIDE DEF lw, rw, lc, rc
  <2>2. IntersectLambda([cost |-> lc, weight |-> lw], [cost |-> rc, weight |-> rw]) =
          IF rc - lc < 0 THEN [num |-> 0, den |-> 1] ELSE [num |-> rc - lc, den |-> lw - rw]
    BY <2>1 DEF IntersectLambda, MeetNum, MeetDen
  <2> QED
    BY <2>2 DEF Lambda, DualLine, LineOf, lw, rw, lc, rc
<1> HIDE DEF lw, rw, lc, rc
<1>3. lw - rw \in Nat \ {0} /\ rc - lc \in Int
  BY <1>1
<1> QED
  BY <1>2, <1>3 DEF Multiplier

(* What optimal returns for a multiplier of the dual is a solution.        *)
LEMMA MixFound ==
  ASSUME InputsPart, CachesPart, NEW l \in Multiplier,
         NEW si \in Optimal(Gen(LambdaModel(l), NoModel))
  PROVE  /\ Made(file, si) /\ SameGen(si.gen, Gen(LambdaModel(l), NoModel))
         /\ Recorded(si.gen) # {} => si \in sol_cache
<1>1. MixGen(Gen(LambdaModel(l), NoModel))
  BY DEF MixGen, LambdaModel
<1> QED
  BY <1>1, OptimalIsMade


(* The solutions of the caches are parsings of the file. *)
LEMMA CachedAreParsings ==
  ASSUME InputsPart, CachesPart, NEW si \in sol_cache
  PROVE  si.sol \in file /\ si.sol \in Parsing
BY DEF InputsPart, InputsOK, CachesPart, CachesOK, Made, Cheapest

-------------------------------------------------------------------------------
(* The invariant is inductive. *)

LEMMA InitIInv == Init => IInv
<1> SUFFICES ASSUME Init PROVE IInv
  OBVIOUS
<1>1. PICK c \in Commands : file = c.file /\ todo = c.bounds
  BY DEF Init
<1>2. pc = "next" /\ W = 0 /\ sol_cache = {} /\ comp_cache = <<>> /\ seed = {} /\ outputs = <<>>
  BY DEF Init
<1>3. /\ plain.SPACE \in Cheapest(PureSpace, file)
      /\ plain.TIME \in Cheapest(PureTime, file)
  BY DEF Init
<1>4. InputsPart
  BY <1>1, <1>2, <1>3, CommandsAssumption DEF InputsPart, InputsOK, Stage
<1>5. CachesPart
  BY <1>2 DEF CachesPart, CachesOK
<1>6. OptimaPart
  BY <1>2 DEF OptimaPart, CheapestOK, LightestOK, BoundOK, HasCost, HasWeight, HasBound
<1>7. BasisPart
  BY <1>2 DEF BasisPart, BasisOK, BasesOK, HasCost, HasWeight, HasBound, HasBasis
<1> QED
  BY <1>4, <1>5, <1>6, <1>7 DEF IInv

LEMMA StutterIInv == IInv /\ UNCHANGED vars => IInv'
BY DEF IInv, InputsPart, CachesPart, OptimaPart, BasisPart, vars, request, caches, optima, type

LEMMA NextBoundIInv == IInv /\ NextBound => IInv'
<1> SUFFICES ASSUME IInv, NextBound PROVE IInv'
  OBVIOUS
<1>1. /\ pc = "next" /\ pc' = IF todo = <<>> THEN "done" ELSE "cost"
      /\ UNCHANGED <<file, plain, todo, W, warm, sol_cache, comp_cache, seed, outputs>>
  BY DEF NextBound, request, caches
<1>2. InputsPart'
  BY <1>1 DEF IInv, InputsPart, InputsOK, Stage
<1>3. CachesPart'
  BY <1>1 DEF IInv, CachesPart
<1>4. OptimaPart'
  BY <1>1 DEF OptimaPart, CheapestOK, LightestOK, BoundOK, HasCost, HasWeight, HasBound
<1>5. BasisPart'
  BY <1>1 DEF IInv, BasisPart, BasisOK, BasesOK, HasCost, HasWeight, HasBound, HasBasis
<1> QED
  BY <1>2, <1>3, <1>4, <1>5 DEF IInv

LEMMA GetCostOptimalIInv == IInv /\ GetCostOptimal => IInv'
<1> SUFFICES ASSUME IInv, GetCostOptimal PROVE IInv'
  OBVIOUS
<1>1. /\ pc = "cost" /\ pc' = "weight" /\ type' = type
      /\ UNCHANGED <<file, plain, todo, W, seed, outputs>>
  BY DEF GetCostOptimal, request, type
<1>2. PICK si \in Optimal(Gen(CostModel, WeightModel)) : cost_opt' = si /\ Store(si, Everywhere)
  BY DEF GetCostOptimal
<1>3. InputsPart /\ CachesPart
  BY DEF IInv
<1>4. /\ Made(file, si) /\ (Recorded(si.gen) # {} => si \in sol_cache)
      /\ SameGen(si.gen, Gen(CostModel, WeightModel))
  <2>1. PairGen(Gen(CostModel, WeightModel))
    BY DEF PairGen, CostModel, WeightModel
  <2> QED
    BY <1>3, <2>1, OptimalIsMade
<1>5. /\ CachesOK(file, warm', sol_cache', comp_cache')
      /\ si \in sol_cache' /\ sol_cache \subseteq sol_cache'
  BY <1>2, <1>3, <1>4, StoreKeeps DEF Everywhere
<1>6. InputsPart'
  BY <1>1, <1>3 DEF InputsPart, InputsOK, Stage
<1>7. CachesPart'
  BY <1>1, <1>5 DEF CachesPart
<1>8. OptimaPart'
  <2>1. \A q \in file : CostBy(type, si.sol) <= CostBy(type, q)
    BY <1>3, <1>4, EndsFound
  <2>2. CheapestOK(file, type, pc, sol_cache, cost_opt)'
    BY <1>1, <1>2, <1>5, <2>1 DEF CheapestOK
  <2> QED
    BY <1>1, <2>2 DEF OptimaPart, LightestOK, BoundOK, HasCost, HasWeight, HasBound
<1>9. BasisPart'
  BY <1>1, <1>5 DEF IInv, BasisPart, BasisOK, BasesOK, HasCost, HasWeight, HasBound, HasBasis
<1> QED
  BY <1>6, <1>7, <1>8, <1>9 DEF IInv

LEMMA GetWeightOptimalIInv == IInv /\ GetWeightOptimal => IInv'
<1> SUFFICES ASSUME IInv, GetWeightOptimal PROVE IInv'
  OBVIOUS
<1>1. /\ pc = "weight" /\ pc' = "bound" /\ type' = type
      /\ UNCHANGED <<file, plain, todo, W, cost_opt, seed, outputs>>
  BY DEF GetWeightOptimal, request, type
<1>2. PICK si \in Optimal(Gen(WeightModel, CostModel)) : weight_opt' = si /\ Store(si, Everywhere)
  BY DEF GetWeightOptimal
<1>3. InputsPart /\ CachesPart
  BY DEF IInv
<1>4. /\ Made(file, si) /\ (Recorded(si.gen) # {} => si \in sol_cache)
      /\ SameGen(si.gen, Gen(WeightModel, CostModel))
  <2>1. PairGen(Gen(WeightModel, CostModel))
    BY DEF PairGen, CostModel, WeightModel
  <2> QED
    BY <1>3, <2>1, OptimalIsMade
<1>5. /\ CachesOK(file, warm', sol_cache', comp_cache')
      /\ si \in sol_cache' /\ sol_cache \subseteq sol_cache'
  BY <1>2, <1>3, <1>4, StoreKeeps DEF Everywhere
<1>6. InputsPart'
  BY <1>1, <1>3 DEF InputsPart, InputsOK, Stage
<1>7. CachesPart'
  BY <1>1, <1>5 DEF CachesPart
<1>8. OptimaPart'
  <2>1. \A q \in file : WeightBy(type, si.sol) <= WeightBy(type, q)
    BY <1>3, <1>4, EndsFound
  <2>2. LightestOK(file, type, pc, sol_cache, weight_opt)'
    BY <1>1, <1>2, <1>5, <2>1 DEF LightestOK
  <2>3. CheapestOK(file, type, pc, sol_cache, cost_opt)'
    BY <1>1, <1>5 DEF IInv, OptimaPart, CheapestOK, HasCost
  <2> QED
    BY <1>1, <2>2, <2>3 DEF OptimaPart, BoundOK, HasCost, HasWeight, HasBound
<1>9. BasisPart'
  BY <1>1, <1>5 DEF IInv, BasisPart, BasisOK, BasesOK, HasCost, HasWeight, HasBound, HasBasis
<1> QED
  BY <1>6, <1>7, <1>8, <1>9 DEF IInv

LEMMA SetBoundIInv == IInv /\ SetBound => IInv'
<1> SUFFICES ASSUME IInv, SetBound PROVE IInv'
  OBVIOUS
<1>1. /\ pc = "bound" /\ pc' = "decide" /\ type' = type
      /\ W' = GetFixed(Head(todo), Weight(cost_opt.sol), Weight(weight_opt.sol))
      /\ UNCHANGED <<file, plain, todo, warm, sol_cache, comp_cache, cost_opt, weight_opt,
                     basis, seed, bases, outputs>>
  BY DEF SetBound, request, caches, optima, type
<1>2. InputsPart /\ CachesPart /\ OptimaPart
  BY DEF IInv
<1>3. cost_opt \in sol_cache /\ weight_opt \in sol_cache
  BY <1>1, <1>2 DEF OptimaPart, CheapestOK, LightestOK, HasCost, HasWeight
<1>4. W' \in Int
  <2>1. Weight(cost_opt.sol) \in Int /\ Weight(weight_opt.sol) \in Int
    BY <1>2, <1>3, CachedAreParsings, MeasureTypes, MeasuresAre
  <2>2. Head(todo) \in Bound
    BY <1>1, <1>2, HeadTailProperties DEF InputsPart, InputsOK
  <2> QED
    BY <1>1, <2>1, <2>2, GetFixedType
<1>5. InputsPart'
  BY <1>1, <1>2, <1>4 DEF InputsPart, InputsOK, Stage
<1>6. CachesPart'
  BY <1>1, <1>2 DEF CachesPart
<1>7. OptimaPart'
  <2>1. CheapestOK(file, type, pc, sol_cache, cost_opt)'
        /\ LightestOK(file, type, pc, sol_cache, weight_opt)'
    BY <1>1, <1>2 DEF OptimaPart, CheapestOK, LightestOK, HasCost, HasWeight
  <2>2. BoundOK(Head(todo), type, pc, W, cost_opt, weight_opt)'
    BY <1>1, MeasuresAre DEF BoundOK
  <2> QED
    BY <2>1, <2>2 DEF OptimaPart
<1>8. BasisPart'
  BY <1>1 DEF IInv, BasisPart, BasisOK, BasesOK, HasCost, HasWeight, HasBound, HasBasis
<1> QED
  BY <1>5, <1>6, <1>7, <1>8 DEF IInv

(* The end of run, however it is reached. *)
LEMMA ReturnIInv ==
  ASSUME IInv, pc \notin {"next", "done"}, NEW how \in {"cost", "weight", "swap"}, NEW p \in file, Return(how, p)
  PROVE  IInv'
<1>1. /\ outputs' = Append(outputs, [bound |-> Head(todo), how |-> how, sol |-> p, W |-> W])
      /\ todo' = Tail(todo) /\ pc' = "next" /\ W' = 0
      /\ UNCHANGED <<file, plain, warm, sol_cache, comp_cache, seed>>
  BY DEF Return, caches
<1>2. InputsPart /\ CachesPart
  BY DEF IInv
<1>3. Head(todo) \in Bound /\ Tail(todo) \in Seq(Bound)
  BY <1>2, HeadTailProperties DEF InputsPart, InputsOK
<1>4. outputs' \in Seq(Outcome)
  <2> DEFINE o == [bound |-> Head(todo), how |-> how, sol |-> p, W |-> W]
  <2>1. o \in Outcome
    BY <1>2, <1>3 DEF InputsPart, InputsOK, Outcome
  <2> HIDE DEF o
  <2>2. Append(outputs, o) \in Seq(Outcome)
    BY <1>2, <2>1, AppendProperties DEF InputsPart, InputsOK
  <2> QED
    BY <1>1, <2>2 DEF o
<1>5. InputsPart'
  BY <1>1, <1>2, <1>3, <1>4 DEF InputsPart, InputsOK, Stage
<1>6. CachesPart'
  BY <1>1, <1>2 DEF CachesPart
<1>7. OptimaPart'
  BY <1>1 DEF OptimaPart, CheapestOK, LightestOK, BoundOK, HasCost, HasWeight, HasBound
<1>8. BasisPart'
  BY <1>1 DEF IInv, BasisPart, BasisOK, BasesOK, HasCost, HasWeight, HasBound, HasBasis
<1> QED
  BY <1>5, <1>6, <1>7, <1>8 DEF IInv

LEMMA EarlyReturnIInv == IInv /\ (ReturnCostOptimal \/ ReturnWeightOptimal) => IInv'
<1>1. ASSUME IInv, ReturnCostOptimal PROVE IInv'
  <2>1. pc = "decide"
    BY <1>1 DEF ReturnCostOptimal
  <2>2. PICK p \in SingleParse(CostModel) : Return("cost", p)
    BY <1>1 DEF ReturnCostOptimal
  <2>3. p \in file
    BY <1>1, EndsReturned DEF IInv
  <2> QED
    BY <1>1, <2>1, <2>2, <2>3, ReturnIInv
<1>2. ASSUME IInv, ReturnWeightOptimal PROVE IInv'
  <2>1. pc = "decide"
    BY <1>2 DEF ReturnWeightOptimal
  <2>2. PICK p \in SingleParse(WeightModel) : Return("weight", p)
    BY <1>2 DEF ReturnWeightOptimal
  <2>3. p \in file
    BY <1>2, EndsReturned DEF IInv
  <2> QED
    BY <1>2, <2>1, <2>2, <2>3, ReturnIInv
<1> QED
  BY <1>1, <1>2

LEMMA SwapIInv == IInv /\ Swap => IInv'
<1> SUFFICES ASSUME IInv, Swap PROVE IInv'
  OBVIOUS
<1>1. pc = "swap" /\ \E p \in file : Return("swap", p)
  BY DEF Swap
<1> QED
  BY <1>1, ReturnIInv

LEMMA RefuseIInv == IInv /\ Refuse => IInv'
<1> SUFFICES ASSUME IInv, Refuse PROVE IInv'
  OBVIOUS
<1>1. /\ pc = "decide" /\ pc' = "refused"
      /\ UNCHANGED <<file, plain, todo, W, warm, sol_cache, comp_cache, seed, outputs>>
  BY DEF Refuse, request, caches
<1>2. InputsPart'
  BY <1>1 DEF IInv, InputsPart, InputsOK, Stage
<1>3. CachesPart'
  BY <1>1 DEF IInv, CachesPart
<1>4. OptimaPart'
  BY <1>1 DEF OptimaPart, CheapestOK, LightestOK, BoundOK, HasCost, HasWeight, HasBound
<1>5. BasisPart'
  BY <1>1 DEF IInv, BasisPart, BasisOK, BasesOK, HasCost, HasWeight, HasBound, HasBasis
<1> QED
  BY <1>2, <1>3, <1>4, <1>5 DEF IInv

(* What a step inside one request leaves alone. *)
Onward ==
  UNCHANGED <<file, plain, todo, W, warm, sol_cache, comp_cache, cost_opt, weight_opt, outputs>>

LEMMA OnwardKeeps ==
  ASSUME IInv, Onward, pc \in HasBound, pc' \in HasBound
  PROVE  InputsPart' /\ CachesPart' /\ OptimaPart' /\ type' = type
<1>1. pc \notin {"next", "done"} /\ pc' \notin {"next", "done"} /\ pc' \in Stage
  BY DEF HasBound, HasWeight, HasCost, Stage
<1>2. InputsPart'
  BY <1>1 DEF IInv, InputsPart, InputsOK, Onward
<1>3. CachesPart'
  BY DEF IInv, CachesPart, Onward
<1>4. type' = type
  BY DEF Onward, type
<1>5. OptimaPart'
  BY <1>4 DEF IInv, OptimaPart, CheapestOK, LightestOK, BoundOK, HasCost, HasWeight, HasBound,
              Onward
<1> QED
  BY <1>2, <1>3, <1>4, <1>5

LEMMA InitBasisIInv == IInv /\ InitBasis => IInv'
<1> SUFFICES ASSUME IInv, InitBasis PROVE IInv'
  OBVIOUS
<1>1. /\ pc = "decide" /\ pc' = "seed"
      /\ W < Weight(cost_opt.sol) /\ W > Weight(weight_opt.sol)
      /\ basis' = [left |-> cost_opt, right |-> weight_opt] /\ seed' = sol_cache
      /\ UNCHANGED <<file, plain, todo, W, warm, sol_cache, comp_cache, cost_opt, weight_opt,
                     bases, outputs>>
  BY DEF InitBasis, request, caches, optima
<1>2. /\ InputsPart' /\ CachesPart' /\ OptimaPart' /\ type' = type
  <2>1. pc \in HasBound /\ pc' \in HasBound
    BY <1>1 DEF HasBound, HasWeight, HasCost
  <2> QED
    BY <1>1, <2>1, OnwardKeeps DEF Onward
<1>3. cost_opt \in sol_cache /\ weight_opt \in sol_cache
  BY <1>1 DEF IInv, OptimaPart, CheapestOK, LightestOK, HasCost, HasWeight
<1>4. /\ WeightBy(type, cost_opt.sol) \in Int /\ WeightBy(type, weight_opt.sol) \in Int
      /\ W \in Int
  BY <1>3, CachedAreParsings, MeasureTypes DEF IInv, InputsPart, InputsOK
<1>5. W < WeightBy(type, cost_opt.sol) /\ WeightBy(type, weight_opt.sol) < W
      /\ WeightBy(type, weight_opt.sol) <= W
  BY <1>1, <1>4, MeasuresAre
<1>6. BasisOK(type, pc, W, sol_cache, weight_opt, basis)'
  BY <1>1, <1>2, <1>3, <1>5 DEF BasisOK
<1>7. BasisPart'
  BY <1>1, <1>6 DEF BasisPart, BasesOK
<1> QED
  BY <1>2, <1>7 DEF IInv

LEMMA SeedBasisIInv == IInv /\ SeedBasis => IInv'
<1> SUFFICES ASSUME IInv, SeedBasis PROVE IInv'
  OBVIOUS
<1>1. /\ pc = "seed" /\ pc' \in {"seed", "solve"}
      /\ UNCHANGED <<file, plain, todo, W, warm, sol_cache, comp_cache, cost_opt, weight_opt,
                     bases, outputs>>
  BY DEF SeedBasis, request, caches, optima
<1>2. PICK si \in seed : basis' = Update(basis, si) /\ seed' = seed \ {si}
  BY DEF SeedBasis
<1>3. pc \in HasBasis /\ pc' \in HasBasis /\ pc \in HasBound /\ pc' \in HasBound /\ pc' # "swap"
  BY <1>1 DEF HasBasis, HasBound, HasWeight, HasCost
<1>4. /\ InputsPart' /\ CachesPart' /\ OptimaPart' /\ type' = type
  BY <1>1, <1>3, OnwardKeeps DEF Onward
<1>5. si \in sol_cache /\ seed' \subseteq sol_cache
  BY <1>2 DEF IInv, BasisPart
<1>6. WeightBy(type, si.sol) \in Int /\ W \in Int
  BY <1>5, CachedAreParsings, MeasureTypes DEF IInv, InputsPart, InputsOK
<1>7. BasisOK(type, pc, W, sol_cache, weight_opt, basis)'
  <2>1. BasisOK(type, pc, W, sol_cache, weight_opt, basis)
    BY DEF IInv, BasisPart
  <2> QED
    BY <1>1, <1>2, <1>3, <1>4, <1>5, <1>6, <2>1, UpdateKeeps DEF BasisOK
<1>8. BasisPart'
  BY <1>1, <1>3, <1>5, <1>7 DEF BasisPart, BasesOK
<1> QED
  BY <1>4, <1>8 DEF IInv

LEMMA SolveIInv == IInv /\ Solve => IInv'
<1> SUFFICES ASSUME IInv, Solve PROVE IInv'
  OBVIOUS
<1>1. /\ pc = "solve" /\ pc' \in {"solve", "integrate"} /\ type' = type
      /\ UNCHANGED <<file, plain, todo, W, cost_opt, weight_opt, seed, bases, outputs>>
  BY DEF Solve, request, optima, type
<1>2. PICK si \in Optimal(Gen(LambdaModel(Lambda(basis)), NoModel)) :
        Store(si, SameSide(si)) /\ basis' = Update(basis, si)
  BY DEF Solve
<1>3. InputsPart /\ CachesPart /\ BasisOK(type, pc, W, sol_cache, weight_opt, basis)
  BY DEF IInv, BasisPart
<1>4. /\ W < WeightBy(type, basis.left.sol) /\ WeightBy(type, basis.right.sol) <= W /\ W \in Int
      /\ basis.left \in sol_cache /\ basis.right \in sol_cache
      /\ basis.left.sol \in Parsing /\ basis.right.sol \in Parsing
      /\ basis = [left |-> basis.left, right |-> basis.right]
  BY <1>1, <1>3, CachedAreParsings
     DEF BasisOK, HasBasis, HasBound, HasWeight, HasCost, InputsPart, InputsOK
<1>5. Made(file, si) /\ (Recorded(si.gen) # {} => si \in sol_cache)
  BY <1>2, <1>3, <1>4, LambdaType, MixFound
<1>6. /\ CachesOK(file, warm', sol_cache', comp_cache')
      /\ si \in sol_cache' /\ sol_cache \subseteq sol_cache'
  BY <1>2, <1>3, <1>5, StoreKeeps DEF SameSide
<1>7. InputsPart'
  BY <1>1, <1>3 DEF InputsPart, InputsOK, Stage
<1>8. CachesPart'
  BY <1>1, <1>6 DEF CachesPart
<1>9. OptimaPart'
  BY <1>1, <1>6 DEF IInv, OptimaPart, CheapestOK, LightestOK, BoundOK, HasCost, HasWeight, HasBound
<1>10. BasisPart'
  <2>1. WeightBy(type, si.sol) \in Int
    <3>1. si.sol \in Parsing
      BY <1>3, <1>5 DEF Made, Cheapest, InputsPart, InputsOK
    <3> QED
      BY <3>1, MeasureTypes
  <2>2. BasisOK(type, pc, W, sol_cache, weight_opt, basis)'
    <3>1. WeightBy(type, weight_opt.sol) < W
      BY <1>1, <1>3 DEF BasisOK, HasBasis, HasBound, HasWeight, HasCost
    <3>2. basis.left \in sol_cache' /\ basis.right \in sol_cache'
      BY <1>4, <1>6
    <3> QED
      BY <1>1, <1>2, <1>4, <1>6, <2>1, <3>1, <3>2, UpdateKeeps DEF BasisOK
  <2>3. pc' # "swap" /\ seed' \subseteq sol_cache'
    BY <1>1, <1>6 DEF IInv, BasisPart
  <2> QED
    BY <2>2, <2>3 DEF BasisPart, BasesOK
<1> QED
  BY <1>7, <1>8, <1>9, <1>10 DEF IInv

LEMMA IntegrateIInv == IInv /\ Integrate => IInv'
<1> SUFFICES ASSUME IInv, Integrate PROVE IInv'
  OBVIOUS
<1>1. /\ pc = "integrate" /\ pc' = "swap"
      /\ UNCHANGED <<file, plain, todo, W, warm, sol_cache, comp_cache, cost_opt, weight_opt,
                     basis, seed, outputs>>
  BY DEF Integrate, request, caches, optima
<1>2. PICK l \in Writable(basis.left), r \in Writable(basis.right) : bases' = <<l, r>>
  BY DEF Integrate
<1>3. pc \in HasBasis /\ pc' \in HasBasis /\ pc \in HasBound /\ pc' \in HasBound
  BY <1>1 DEF HasBasis, HasBound, HasWeight, HasCost
<1>4. /\ InputsPart' /\ CachesPart' /\ OptimaPart' /\ type' = type
  BY <1>1, <1>3, OnwardKeeps DEF Onward
<1>5. BasisOK(type, pc, W, sol_cache, weight_opt, basis)'
  BY <1>1, <1>3, <1>4 DEF IInv, BasisPart, BasisOK
<1>6. basis.left \in sol_cache /\ basis.right \in sol_cache
  BY <1>3 DEF IInv, BasisPart, BasisOK
<1>7. NotWorse(basis.left, l) /\ NotWorse(basis.right, r)
  BY <1>6, WritableNotWorse DEF IInv
<1>8. BasisPart'
  BY <1>1, <1>2, <1>5, <1>7 DEF IInv, BasisPart, BasesOK
<1> QED
  BY <1>4, <1>8 DEF IInv

LEMMA NextIInv == IInv /\ [Next]_vars => IInv'
BY NextBoundIInv, GetCostOptimalIInv, GetWeightOptimalIInv, SetBoundIInv, EarlyReturnIInv,
   RefuseIInv, InitBasisIInv, SeedBasisIInv, SolveIInv, IntegrateIInv, SwapIInv, StutterIInv
   DEF Next, Terminated

(* What the compressor holds between two steps: inputs and outputs of the  *)
(* right kind, caches whose every entry is a solution no other answers     *)
(* for, the two ends of the trade-off, and a basis astride the bound.      *)
THEOREM DriverInductive == Spec => []IInv
BY InitIInv, NextIInv, PTL DEF Spec

(* The lines of the basis always lie on the two sides of the bound, for    *)
(* whatever the solutions of earlier bounds are seeded with: no update     *)
(* meets parallel lines.                                                   *)
THEOREM AlwaysStraddles == Spec => []BasisStraddles
<1>1. IInv => BasisStraddles
  <2> SUFFICES ASSUME IInv, InBasis
               PROVE  ~ Feasible(DualLine(basis.left)) /\ Feasible(DualLine(basis.right))
    BY DEF BasisStraddles
  <2>1. pc \in HasBasis
    BY DEF InBasis, HasBasis, HasBound, HasWeight, HasCost
  <2>2. /\ W < WeightBy(type, basis.left.sol) /\ WeightBy(type, basis.right.sol) <= W
        /\ basis.left \in sol_cache /\ basis.right \in sol_cache
    BY <2>1 DEF IInv, BasisPart, BasisOK
  <2>3. /\ WeightBy(type, basis.left.sol) \in Int /\ WeightBy(type, basis.right.sol) \in Int
        /\ W \in Int
    BY <2>2, CachedAreParsings, MeasureTypes DEF IInv, InputsPart, InputsOK
  <2> QED
    BY <2>2, <2>3, MeasuresAre DEF Feasible, DualLine, LineOf
<1> QED
  BY <1>1, DriverInductive, PTL

(* Whichever model and bound a cached solution was computed for, no        *)
(* parsing of the file is both smaller and faster.                         *)
THEOREM AlwaysEfficient == Spec => []OnlyEfficient
<1>1. IInv => OnlyEfficient
  BY MadeIsEfficient DEF IInv, InputsPart, InputsOK, CachesPart, CachesOK, OnlyEfficient
<1> QED
  BY <1>1, DriverInductive, PTL

(* The parsings handed to the swapper are no worse than the totals it is   *)
(* told they have, though an evicted one is generated again with a warm    *)
(* getter, which breaks ties otherwise than the cold one did.              *)
THEOREM AlwaysNoWorse == Spec => []NoWorseThanRecorded
<1>1. IInv => NoWorseThanRecorded
  BY DEF IInv, BasisPart, BasesOK, NotWorse, NoWorseThanRecorded
<1> QED
  BY <1>1, DriverInductive, PTL
-------------------------------------------------------------------------------
(* The command implements its promise. *)

Answers == [i \in 1 .. Len(outputs) |-> outputs[i].sol]

LEMMA PromiseMeasures ==
  ASSUME NEW p
  PROVE  /\ Promise!CostOf(Head(todo), p) = CostBy(type, p)
         /\ Promise!WeightOf(Head(todo), p) = WeightBy(type, p)
BY DEF Promise!CostOf, Promise!WeightOf, CostBy, WeightBy, type

(* Once it is set, W is a budget the bound may stand for; the ends found   *)
(* are among those the promise speaks of.                                  *)
LEMMA PromisedBudget ==
  ASSUME IInv, pc \in HasBound
  PROVE  /\ W \in Promise!BudgetsOf(Head(todo))
         /\ cost_opt.sol \in Promise!CheapestFor(Head(todo))
         /\ weight_opt.sol \in Promise!LightestFor(Head(todo))
<1>1. /\ cost_opt \in sol_cache /\ \A q \in file : CostBy(type, cost_opt.sol) <= CostBy(type, q)
      /\ weight_opt \in sol_cache
      /\ \A q \in file : WeightBy(type, weight_opt.sol) <= WeightBy(type, q)
      /\ W = GetFixed(Head(todo), WeightBy(type, cost_opt.sol), WeightBy(type, weight_opt.sol))
  BY DEF IInv, OptimaPart, CheapestOK, LightestOK, BoundOK, HasCost, HasWeight, HasBound
<1>2. cost_opt.sol \in file /\ weight_opt.sol \in file
  BY <1>1, CachedAreParsings DEF IInv
<1>3. /\ cost_opt.sol \in Promise!CheapestFor(Head(todo))
      /\ weight_opt.sol \in Promise!LightestFor(Head(todo))
  BY <1>1, <1>2, PromiseMeasures DEF Promise!CheapestFor, Promise!LightestFor
<1>4. W \in Promise!BudgetsOf(Head(todo))
  <2>1. CASE Head(todo).kind = "fixed"
    BY <1>1, <2>1 DEF GetFixed, Promise!BudgetsOf
  <2>2. CASE Head(todo).kind # "fixed"
    <3> DEFINE b == Head(todo)
               l == weight_opt.sol
               c == cost_opt.sol
    <3>1. W = WeightBy(type, l)
                + (b.level.num * (WeightBy(type, c) - WeightBy(type, l))) \div b.level.den
      BY <1>1, <2>2 DEF GetFixed
    <3>2. /\ Promise!WeightOf(b, l) = WeightBy(type, l)
          /\ Promise!WeightOf(b, c) = WeightBy(type, c)
      BY PromiseMeasures
    <3>3. W = Promise!WeightOf(b, l)
                + (b.level.num * (Promise!WeightOf(b, c) - Promise!WeightOf(b, l))) \div b.level.den
      BY <3>1, <3>2
    <3> HIDE DEF b, l, c
    <3>4. c \in Promise!CheapestFor(b) /\ l \in Promise!LightestFor(b) /\ b.kind # "fixed"
      BY <1>3, <2>2 DEF b, l, c
    <3>5. W \in Promise!BudgetsOf(b)
      BY <3>3, <3>4 DEF Promise!BudgetsOf
    <3> QED
      BY <3>5 DEF b
  <2> QED
    BY <2>1, <2>2
<1> QED
  BY <1>3, <1>4

(* Every way run ends on an output is a bound served. *)
LEMMA ReturnServes ==
  ASSUME IInv, pc \in HasBound, NEW how \in {"cost", "weight", "swap"}, NEW p \in file,
         Return(how, p), p \in Promise!Answer(Head(todo), W), Promise!Fits(Head(todo), W)
  PROVE  Promise!Serve
<1> DEFINE o == [bound |-> Head(todo), how |-> how, sol |-> p, W |-> W]
<1>1. /\ outputs' = Append(outputs, o) /\ todo' = Tail(todo)
      /\ pc # "refused" /\ pc' # "refused" /\ file' = file
  BY DEF Return, HasBound, HasWeight, HasCost
<1>2. todo # <<>>
  BY DEF IInv, InputsPart, InputsOK, HasBound, HasWeight, HasCost
<1>3. W \in Promise!BudgetsOf(Head(todo))
  BY PromisedBudget
<1>4. Answers' = Append(Answers, p)
  <2>1. outputs \in Seq(Outcome) /\ todo \in Seq(Bound) /\ W \in Int /\ p \in Parsing
    BY DEF IInv, InputsPart, InputsOK
  <2>2. o \in Outcome /\ o.sol = p
    <3>1. Head(todo) \in Bound
      BY <1>2, <2>1, HeadTailProperties
    <3> QED
      BY <2>1, <3>1 DEF Outcome
  <2> HIDE DEF o
  <2> DEFINE n == Len(outputs)
             longer == Append(outputs, o)
  <2>3. /\ n \in Nat /\ Len(longer) = n + 1
        /\ \A i \in 1 .. n : longer[i] = outputs[i] /\ outputs[i] \in Outcome
        /\ longer[n + 1] = o
    BY <2>1, <2>2, AppendProperties, LenProperties, ElementOfSeq
  <2> HIDE DEF n, longer
  <2>4. Answers = [i \in 1 .. n |-> outputs[i].sol]
    BY DEF Answers, n
  <2>5. Answers \in Seq(Parsing) /\ Len(Answers) = n
    <3>1. \A i \in 1 .. n : outputs[i].sol \in Parsing
      BY <2>3 DEF Outcome
    <3> QED
      BY <2>3, <2>4, <3>1
  <2>6. /\ Append(Answers, p) \in Seq(Parsing) /\ Len(Append(Answers, p)) = n + 1
        /\ \A i \in 1 .. n : Append(Answers, p)[i] = Answers[i]
        /\ Append(Answers, p)[n + 1] = p
    BY <2>1, <2>5, AppendProperties
  <2> DEFINE added == Append(Answers, p)
  <2>7. added = [i \in 1 .. (n + 1) |-> added[i]]
    BY <2>6, LenProperties
  <2>8. Answers' = [i \in 1 .. (n + 1) |-> longer[i].sol]
    BY <1>1, <2>3 DEF Answers, longer
  <2>9. \A i \in 1 .. (n + 1) : longer[i].sol = added[i]
    <3> SUFFICES ASSUME NEW i \in 1 .. (n + 1) PROVE longer[i].sol = added[i]
      OBVIOUS
    <3>1. CASE i = n + 1
      BY <2>2, <2>3, <2>6, <3>1
    <3>2. CASE i # n + 1
      <4>1. i \in 1 .. n
        BY <2>3, <3>2
      <4> QED
        BY <2>3, <2>4, <2>6, <4>1
    <3> QED
      BY <3>1, <3>2
  <2> HIDE DEF added
  <2>10. Answers' = added
    BY <2>7, <2>8, <2>9
  <2> QED
    BY <2>10 DEF added
<1> QED
  BY <1>1, <1>2, <1>3, <1>4 DEF Promise!Serve, Answers

(* The cost-optimal parsing may lie beyond the bound, but some cheapest    *)
(* parsing is within it.                                                   *)
LEMMA CostServes == IInv /\ ReturnCostOptimal => Promise!Serve
<1> SUFFICES ASSUME IInv, ReturnCostOptimal PROVE Promise!Serve
  OBVIOUS
<1>1. pc \in HasBound /\ WeightBy(type, cost_opt.sol) <= W
  <2>1. pc \in HasBound /\ Weight(cost_opt.sol) <= W
    <3>1. pc \in HasBound /\ W >= Weight(cost_opt.sol)
      BY DEF ReturnCostOptimal, HasBound, HasWeight, HasCost
    <3>2. cost_opt \in sol_cache
      BY <3>1 DEF IInv, OptimaPart, CheapestOK, HasBound, HasWeight
    <3>3. W \in Int /\ Weight(cost_opt.sol) \in Int
      BY <3>2, CachedAreParsings, MeasureTypes, MeasuresAre DEF IInv, InputsPart, InputsOK
    <3> QED
      BY <3>1, <3>3
  <2> QED
    BY <2>1, MeasuresAre
<1>2. PICK p \in SingleParse(CostModel) : Return("cost", p)
  BY DEF ReturnCostOptimal
<1>3. p \in file /\ \A q \in file : CostBy(type, p) <= CostBy(type, q)
  BY EndsReturned DEF IInv
<1>4. p \in Promise!CheapestFor(Head(todo))
  BY <1>3, PromiseMeasures DEF Promise!CheapestFor
<1>5. cost_opt.sol \in Promise!CheapestFor(Head(todo)) /\ cost_opt.sol \in file
      /\ Promise!WeightOf(Head(todo), cost_opt.sol) <= W
  BY <1>1, PromisedBudget, PromiseMeasures DEF Promise!CheapestFor
<1>6. p \in Promise!Answer(Head(todo), W) /\ Promise!Fits(Head(todo), W)
  BY <1>4, <1>5 DEF Promise!Answer, Promise!Fits
<1> QED
  BY <1>1, <1>2, <1>3, <1>6, ReturnServes

(* What is within the padded bound answers it. *)
LEMMA PaddedAnswers ==
  ASSUME NEW p \in file, W \in Int, WeightBy(type, p) \in Int,
         WeightBy(type, p) <= W + 2 * MaxPhrase
  PROVE  p \in Promise!Answer(Head(todo), W)
<1>1. Promise!WeightOf(Head(todo), p) <= W + 2 * MaxPhrase
  BY PromiseMeasures
<1> QED
  BY <1>1 DEF Promise!Answer

LEMMA WeightServes == IInv /\ ReturnWeightOptimal => Promise!Serve
<1> SUFFICES ASSUME IInv, ReturnWeightOptimal PROVE Promise!Serve
  OBVIOUS
<1>1. pc \in HasBound /\ W = WeightBy(type, weight_opt.sol)
  BY MeasuresAre DEF ReturnWeightOptimal, HasBound, HasWeight, HasCost
<1>2. PICK p \in SingleParse(WeightModel) : Return("weight", p)
  BY DEF ReturnWeightOptimal
<1>3. p \in file /\ \A q \in file : WeightBy(type, p) <= WeightBy(type, q)
  BY EndsReturned DEF IInv
<1>4. weight_opt.sol \in file /\ weight_opt.sol \in Parsing /\ p \in Parsing /\ W \in Int
  BY <1>1, <1>3, PromisedBudget DEF Promise!LightestFor, IInv, InputsPart, InputsOK
<1>5. WeightBy(type, p) <= W + 2 * MaxPhrase /\ WeightBy(type, p) \in Int /\ W <= W
  <2>1. WeightBy(type, p) <= W /\ WeightBy(type, p) \in Int
    BY <1>1, <1>3, <1>4, MeasureTypes
  <2> QED
    BY <1>4, <2>1, MaxPhraseAssumption
<1>6. p \in Promise!Answer(Head(todo), W)
  BY <1>3, <1>4, <1>5, PaddedAnswers
<1>7. Promise!Fits(Head(todo), W)
  BY <1>1, <1>4, <1>5, PromiseMeasures DEF Promise!Fits
<1> QED
  BY <1>1, <1>2, <1>3, <1>6, <1>7, ReturnServes

LEMMA SwapServes == IInv /\ Swap => Promise!Serve
<1> SUFFICES ASSUME IInv, Swap PROVE Promise!Serve
  OBVIOUS
<1>1. pc \in HasBound /\ pc \in HasBasis
  BY DEF Swap, HasBasis, HasBound, HasWeight, HasCost
<1>2. PICK p \in file : Weight(p) <= W + 2 * MaxPhrase /\ Return("swap", p)
  BY DEF Swap
<1>3. W \in Int /\ p \in Parsing
  BY DEF IInv, InputsPart, InputsOK
<1>4. p \in Promise!Answer(Head(todo), W)
  BY <1>2, <1>3, MeasureTypes, MeasuresAre, PaddedAnswers
<1>5. WeightBy(type, basis.right.sol) <= W /\ basis.right.sol \in file
  BY <1>1, CachedAreParsings DEF IInv, BasisPart, BasisOK
<1>6. Promise!Fits(Head(todo), W)
  BY <1>5, PromiseMeasures DEF Promise!Fits
<1> QED
  BY <1>1, <1>2, <1>4, <1>6, ReturnServes

LEMMA RefuseTurnsDown == IInv /\ Refuse => Promise!TurnDown
<1> SUFFICES ASSUME IInv, Refuse PROVE Promise!TurnDown
  OBVIOUS
<1>1. /\ pc = "decide" /\ W < Weight(weight_opt.sol) /\ pc' = "refused"
      /\ UNCHANGED <<file, todo, outputs>>
  BY DEF Refuse, request
<1>2. pc \in HasBound /\ todo # <<>> /\ W \in Int /\ file \subseteq Parsing
  BY <1>1 DEF IInv, InputsPart, InputsOK, HasBound, HasWeight, HasCost
<1>3. W \in Promise!BudgetsOf(Head(todo)) /\ weight_opt.sol \in Promise!LightestFor(Head(todo))
  BY <1>2, PromisedBudget
<1>4. ~ Promise!Fits(Head(todo), W)
  <2> SUFFICES ASSUME NEW p \in file, Promise!WeightOf(Head(todo), p) <= W PROVE FALSE
    BY DEF Promise!Fits
  <2>1. weight_opt.sol \in file
        /\ Promise!WeightOf(Head(todo), weight_opt.sol) <= Promise!WeightOf(Head(todo), p)
    BY <1>3 DEF Promise!LightestFor
  <2>2. WeightBy(type, weight_opt.sol) <= WeightBy(type, p) /\ WeightBy(type, p) <= W
        /\ W < WeightBy(type, weight_opt.sol)
    BY <1>1, <2>1, PromiseMeasures, MeasuresAre
  <2>3. WeightBy(type, weight_opt.sol) \in Int /\ WeightBy(type, p) \in Int
    BY <1>2, <2>1, MeasureTypes
  <2> QED
    BY <1>2, <2>2, <2>3
<1> QED
  BY <1>1, <1>2, <1>3, <1>4 DEF Promise!TurnDown

LEMMA InitPromise == Init => Promise!PromiseInit
<1> SUFFICES ASSUME Init PROVE Promise!PromiseInit
  OBVIOUS
<1>1. outputs = <<>> /\ pc = "next" /\ \E c \in Commands : file = c.file /\ todo = c.bounds
  BY DEF Init
<1>2. [i \in 1 .. Len(outputs) |-> outputs[i].sol] = <<>>
  BY <1>1
<1> QED
  BY <1>1, <1>2 DEF Promise!PromiseInit

(* A step of the driver serves a bound, refuses one, or shows nothing.     *)
LEMMA NextPromise ==
  IInv /\ [Next]_vars =>
    [Promise!Serve \/ Promise!TurnDown]_<<file, todo, Answers, pc = "refused">>
<1> SUFFICES ASSUME IInv, [Next]_vars
             PROVE  Promise!Serve \/ Promise!TurnDown
                    \/ UNCHANGED <<file, todo, Answers, pc = "refused">>
  OBVIOUS
<1>1. CASE ReturnCostOptimal
  BY <1>1, CostServes
<1>2. CASE ReturnWeightOptimal
  BY <1>2, WeightServes
<1>3. CASE Swap
  BY <1>3, SwapServes
<1>4. CASE Refuse
  BY <1>4, RefuseTurnsDown
<1>5. CASE UNCHANGED <<file, todo, outputs>> /\ (pc = "refused")' = (pc = "refused")
  BY <1>5 DEF Answers
<1>6. CASE NextBound \/ GetCostOptimal \/ GetWeightOptimal \/ SetBound \/ InitBasis
  <2>1. UNCHANGED <<file, todo, outputs>> /\ pc # "refused" /\ pc' # "refused"
    BY <1>6 DEF NextBound, GetCostOptimal, GetWeightOptimal, SetBound, InitBasis, request
  <2> QED
    BY <1>5, <2>1
<1>7. CASE SeedBasis \/ Integrate
  <2>1. UNCHANGED <<file, todo, outputs>> /\ pc # "refused" /\ pc' # "refused"
    BY <1>7 DEF SeedBasis, Integrate, request
  <2> QED
    BY <1>5, <2>1
<1>8. CASE Solve
  <2>1. UNCHANGED <<file, todo, outputs>> /\ pc # "refused" /\ pc' # "refused"
    BY <1>8 DEF Solve, request
  <2> QED
    BY <1>5, <2>1
<1>9. CASE UNCHANGED vars
  BY <1>5, <1>9 DEF vars, request
<1> QED
  BY <1>1, <1>2, <1>3, <1>4, <1>6, <1>7, <1>8, <1>9 DEF Next, Terminated

(* bc-zip keeps its promise: each bound gets one parsing of the file, in   *)
(* order, within the padded bound or cheapest of all; one is refused only  *)
(* when nothing is within it, and none is served after that.               *)
THEOREM PromiseKept == Spec => KeepsPromise
<1>1. Spec => [][Promise!Serve \/ Promise!TurnDown]_<<file, todo, Answers, pc = "refused">>
  BY NextPromise, DriverInductive, PTL DEF Spec
<1> QED
  BY <1>1, InitPromise, PTL DEF Spec, KeepsPromise, Promise!Spec, Answers
-------------------------------------------------------------------------------
(* Arithmetic of the dual.                                                 *)

LEMMA ProductCancels ==
  ASSUME NEW k \in Nat \ {0}, NEW a \in Int, NEW b \in Int, k * a <= k * b
  PROVE  a <= b
<1> SUFFICES ASSUME b < a PROVE FALSE
  OBVIOUS
<1>1. k * b < k * a /\ k * a \in Int /\ k * b \in Int
  BY ProductStrict
<1> QED
  BY <1>1

LEMMA FractionsChain ==
  ASSUME NEW a \in Int, NEW b \in Int, NEW c \in Int,
         NEW x \in Nat \ {0}, NEW y \in Nat \ {0}, NEW z \in Nat \ {0},
         a * y <= b * x, b * z <= c * y
  PROVE  a * z <= c * x
<1>1. a * y \in Int /\ b * x \in Int /\ b * z \in Int /\ c * y \in Int
      /\ a * z \in Int /\ c * x \in Int
  OBVIOUS
<1>2. z * (a * y) <= z * (b * x) /\ x * (b * z) <= x * (c * y)
  BY <1>1, ProductMonotone
<1>3. /\ z * (a * y) = y * (a * z) /\ z * (b * x) = x * (b * z) /\ x * (c * y) = y * (c * x)
  OBVIOUS
<1>4. y * (a * z) \in Int /\ y * (c * x) \in Int /\ x * (b * z) \in Int
  BY <1>1
<1>5. y * (a * z) <= y * (c * x)
  BY <1>2, <1>3, <1>4
<1> QED
  BY <1>1, <1>5, ProductCancels

LEMMA LeqChain ==
  ASSUME NEW x \in Rational, NEW y \in Rational, NEW z \in Rational,
         RationalLeq(x, y), RationalLeq(y, z)
  PROVE  RationalLeq(x, z)
<1>1. /\ x.num \in Int /\ y.num \in Int /\ z.num \in Int
      /\ x.den \in Nat \ {0} /\ y.den \in Nat \ {0} /\ z.den \in Nat \ {0}
  BY DEF Rational
<1> QED
  BY <1>1, FractionsChain DEF RationalLeq

(* Two lines have the same value where they meet. *)
LEMMA MeetingPoint ==
  ASSUME NEW lc \in Int, NEW lw \in Int, NEW rc \in Int, NEW rw \in Int
  PROVE  lc * (lw - rw) + (rc - lc) * lw = rc * (lw - rw) + (rc - lc) * rw
OBVIOUS

(* A new line below that point, on the right: the lines meet lower.        *)
LEMMA RightDrops ==
  ASSUME NEW lc \in Int, NEW lw \in Nat, NEW n \in Int, NEW d \in Int,
         NEW sc \in Int, NEW sw \in Int,
         sc * d + n * sw <= lc * d + n * lw
  PROVE  (lc * (lw - sw) + (sc - lc) * lw) * d <= (lc * d + n * lw) * (lw - sw)
<1>1. (sc - lc) * d <= n * (lw - sw)
  OBVIOUS
<1>2. (sc - lc) * d \in Int /\ n * (lw - sw) \in Int
  OBVIOUS
<1>3. lw * ((sc - lc) * d) <= lw * (n * (lw - sw))
  BY <1>1, <1>2, ProductMonotone
<1> QED
  BY <1>3

(* And on the left. *)
LEMMA LeftDrops ==
  ASSUME NEW rc \in Int, NEW rw \in Int, rw <= 0, NEW n \in Int, NEW d \in Int,
         NEW sc \in Int, NEW sw \in Int,
         sc * d + n * sw <= rc * d + n * rw
  PROVE  (rc * (sw - rw) + (rc - sc) * rw) * d <= (rc * d + n * rw) * (sw - rw)
<1> DEFINE k == 0 - rw
<1>0. k \in Nat /\ rw = 0 - k
  OBVIOUS
<1>1. n * (sw - rw) <= (rc - sc) * d
  OBVIOUS
<1>2. (rc - sc) * d \in Int /\ n * (sw - rw) \in Int
  OBVIOUS
<1> HIDE DEF k
<1>3. k * (n * (sw - rw)) <= k * ((rc - sc) * d)
  BY <1>0, <1>1, <1>2, ProductMonotone
<1>4. (0 - k) * ((rc - sc) * d) <= (0 - k) * (n * (sw - rw))
  BY <1>0, <1>2, <1>3
<1>5. rw * ((rc - sc) * d) <= rw * (n * (sw - rw))
  BY <1>0, <1>4
<1> QED
  BY <1>5

(* A value that is below a falling line somewhere is below where it starts. *)
LEMMA FallingStarts ==
  ASSUME NEW qc \in Int, NEW qw \in Int, qw <= 0, NEW n \in Nat, NEW d \in Int,
         NEW v \in Int, v <= qc * d + n * qw
  PROVE  v <= qc * d
<1> DEFINE k == 0 - qw
<1>1. k \in Nat /\ qw = 0 - k
  OBVIOUS
<1> HIDE DEF k
<1>2. n * k \in Nat
  BY <1>1, ProductType
<1>3. n * qw = 0 - n * k
  BY <1>1
<1> QED
  BY <1>2, <1>3

(* A value below a rising and a falling line somewhere is below the point  *)
(* where they meet.                                                        *)
LEMMA MeetAbove ==
  ASSUME NEW uc \in Int, NEW uw \in Nat, NEW qc \in Int, NEW qw \in Int, qw <= 0, qw < uw,
         NEW n \in Nat, NEW d \in Nat, NEW v \in Int,
         v <= uc * d + n * uw, v <= qc * d + n * qw
  PROVE  v * (uw - qw) <= (uc * (uw - qw) + (qc - uc) * uw) * d
<1> DEFINE e == uw - qw
           m == qc - uc
           k == 0 - qw
<1>1. e \in Nat /\ m \in Int /\ k \in Nat /\ qw = 0 - k
  OBVIOUS
<1>2. uc * e + m * uw = qc * e + m * qw
  BY MeetingPoint
<1> HIDE DEF e, m, k
<1>3. uc * d + n * uw \in Int /\ qc * d + n * qw \in Int
  OBVIOUS
<1>4. e * v <= e * (uc * d + n * uw) /\ e * v <= e * (qc * d + n * qw)
  BY <1>1, <1>3, ProductMonotone
<1>5. n * e \in Int /\ m * d \in Int
  BY <1>1
<1>6. CASE n * e <= m * d
  <2>1. uw * (n * e) <= uw * (m * d)
    BY <1>5, <1>6, ProductMonotone
  <2>2. v * e <= (uc * e + m * uw) * d
    BY <1>1, <1>4, <2>1
  <2> QED
    BY <2>2 DEF e, m
<1>7. CASE m * d <= n * e
  <2>1. k * (m * d) <= k * (n * e)
    BY <1>1, <1>5, <1>7, ProductMonotone
  <2>2. (0 - k) * (n * e) <= (0 - k) * (m * d)
    BY <1>1, <1>5, <2>1
  <2>3. qw * (n * e) <= qw * (m * d)
    BY <1>1, <2>2
  <2>4. v * e <= (qc * e + m * qw) * d
    BY <1>1, <1>4, <2>3
  <2>5. v * e <= (uc * e + m * uw) * d
    BY <1>2, <2>4
  <2> QED
    BY <2>5 DEF e, m
<1> QED
  BY <1>5, <1>6, <1>7

(* Models with the same coefficients order parsings the same way.          *)
LEMMA SameOrder ==
  ASSUME NEW m \in Model, NEW n \in Model, SameModel(m, n),
         NEW p \in Parsing, NEW q \in Parsing, Price(m, p) <= Price(m, q)
  PROVE  Price(n, p) <= Price(n, q)
<1> DEFINE a1 == m.space.num
           b1 == m.space.den
           c1 == m.time.num
           d1 == m.time.den
           a2 == n.space.num
           b2 == n.space.den
           c2 == n.time.num
           d2 == n.time.den
           k1 == b2 * d2
           k2 == b1 * d1
<1>1. /\ a1 \in Nat /\ b1 \in Nat \ {0} /\ c1 \in Nat /\ d1 \in Nat \ {0}
      /\ a2 \in Nat /\ b2 \in Nat \ {0} /\ c2 \in Nat /\ d2 \in Nat \ {0}
  BY DEF Model, Multiplier
<1>2. a1 * b2 = a2 * b1 /\ c1 * d2 = c2 * d1
  BY DEF SameModel, SameRational
<1>3. \A r : /\ Price(m, r) = a1 * d1 * r.space + c1 * b1 * r.time
             /\ Price(n, r) = a2 * d2 * r.space + c2 * b2 * r.time
  BY DEF Price
<1> HIDE DEF a1, b1, c1, d1, a2, b2, c2, d2
<1>4. \A x, y \in Nat : k1 * (a1 * d1 * x + c1 * b1 * y) = k2 * (a2 * d2 * x + c2 * b2 * y)
  <2> SUFFICES ASSUME NEW x \in Nat, NEW y \in Nat
               PROVE  k1 * (a1 * d1 * x + c1 * b1 * y) = k2 * (a2 * d2 * x + c2 * b2 * y)
    OBVIOUS
  <2>1. (a1 * b2) * (d1 * d2 * x) = (a2 * b1) * (d1 * d2 * x)
        /\ (c1 * d2) * (b1 * b2 * y) = (c2 * d1) * (b1 * b2 * y)
    BY <1>2
  <2>2. k1 * (a1 * d1 * x + c1 * b1 * y)
          = (a1 * b2) * (d1 * d2 * x) + (c1 * d2) * (b1 * b2 * y)
    BY <1>1
  <2>3. k2 * (a2 * d2 * x + c2 * b2 * y)
          = (a2 * b1) * (d1 * d2 * x) + (c2 * d1) * (b1 * b2 * y)
    BY <1>1
  <2> QED
    BY <2>1, <2>2, <2>3
<1>5. k1 \in Nat \ {0} /\ k2 \in Nat \ {0}
  <2>1. b2 * d2 > b2 * 0 /\ b1 * d1 > b1 * 0 /\ b2 * d2 \in Nat /\ b1 * d1 \in Nat
    BY <1>1, ProductStrict, ProductType
  <2> QED
    BY <1>1, <2>1
<1> HIDE DEF k1, k2
<1>6. \A r \in Parsing :
        k1 * Price(m, r) = k2 * Price(n, r) /\ Price(m, r) \in Nat /\ Price(n, r) \in Nat
  <2> SUFFICES ASSUME NEW r \in Parsing
               PROVE  k1 * Price(m, r) = k2 * Price(n, r) /\ Price(m, r) \in Nat
                      /\ Price(n, r) \in Nat
    OBVIOUS
  <2>1. r.space \in Nat /\ r.time \in Nat
    BY DEF Parsing
  <2>2. /\ a1 * d1 * r.space \in Nat /\ c1 * b1 * r.time \in Nat
        /\ a2 * d2 * r.space \in Nat /\ c2 * b2 * r.time \in Nat
    BY <1>1, <2>1, ProductType
  <2>3. k1 * (a1 * d1 * r.space + c1 * b1 * r.time)
          = k2 * (a2 * d2 * r.space + c2 * b2 * r.time)
    BY <1>4, <2>1
  <2> QED
    BY <1>3, <2>2, <2>3
<1>7. k1 * Price(m, p) <= k1 * Price(m, q)
  BY <1>5, <1>6, ProductMonotone
<1>8. k2 * Price(n, p) <= k2 * Price(n, q)
  BY <1>6, <1>7
<1> QED
  BY <1>5, <1>6, <1>8, ProductCancels
-------------------------------------------------------------------------------
(* Parsings as lines. *)

LineBy(ty, w, p) == LineOf(CostBy(ty, p), WeightBy(ty, p), w)
MeetBy(ty, w, p, q) == IntersectValue(LineBy(ty, w, p), LineBy(ty, w, q))
LambdaBy(ty, w, p, q) == IntersectLambda(LineBy(ty, w, p), LineBy(ty, w, q))

(* The numerator of what parsing p is worth at a multiplier.               *)
WorthBy(ty, w, l, p) == CostBy(ty, p) * l.den + l.num * (WeightBy(ty, p) - w)

Astride(ty, w, p, q) == w < WeightBy(ty, p) /\ WeightBy(ty, q) <= w

LEMMA LinesAre ==
  ASSUME NEW b
  PROVE  /\ DualLine(b.left) = LineBy(type, W, b.left.sol)
         /\ DualLine(b.right) = LineBy(type, W, b.right.sol)
         /\ Crossing(b) = MeetBy(type, W, b.left.sol, b.right.sol)
         /\ Lambda(b) = LambdaBy(type, W, b.left.sol, b.right.sol)
<1>1. /\ DualLine(b.left) = LineBy(type, W, b.left.sol)
      /\ DualLine(b.right) = LineBy(type, W, b.right.sol)
  BY MeasuresAre DEF DualLine, LineBy
<1> QED
  BY <1>1 DEF Crossing, MeetBy, Lambda, LambdaBy

(* Where an infeasible and a feasible line meet. *)
LEMMA MeetIs ==
  ASSUME NEW ty, NEW w \in Int, NEW p \in Parsing, NEW q \in Parsing, Astride(ty, w, p, q)
  PROVE  LET pc1 == CostBy(ty, p)
             qc1 == CostBy(ty, q)
             pw == WeightBy(ty, p) - w
             qw == WeightBy(ty, q) - w
         IN  /\ pc1 \in Nat \ {0} /\ qc1 \in Nat \ {0} /\ pw \in Nat \ {0}
             /\ qw \in Int /\ qw <= 0 /\ pw - qw \in Nat \ {0}
             /\ DoesIntersect(LineBy(ty, w, p), LineBy(ty, w, q))
             /\ qc1 < pc1 => MeetBy(ty, w, p, q) = [num |-> pc1, den |-> 1]
             /\ pc1 <= qc1 =>
                  /\ LambdaBy(ty, w, p, q) = [num |-> qc1 - pc1, den |-> pw - qw]
                  /\ MeetBy(ty, w, p, q) = [num |-> pc1 * (pw - qw) + (qc1 - pc1) * pw,
                                            den |-> pw - qw]
<1> DEFINE pc1 == CostBy(ty, p)
           qc1 == CostBy(ty, q)
           pw == WeightBy(ty, p) - w
           qw == WeightBy(ty, q) - w
<1>1. /\ pc1 \in Nat \ {0} /\ qc1 \in Nat \ {0} /\ pw \in Nat \ {0}
      /\ qw \in Int /\ qw <= 0 /\ pw - qw \in Nat \ {0}
  <2>1. /\ pc1 \in Nat \ {0} /\ qc1 \in Nat \ {0}
        /\ WeightBy(ty, p) \in Int /\ WeightBy(ty, q) \in Int
    BY MeasureTypes
  <2> QED
    BY <2>1 DEF Astride
<1>2. /\ LineBy(ty, w, p) = [cost |-> pc1, weight |-> pw]
      /\ LineBy(ty, w, q) = [cost |-> qc1, weight |-> qw]
  BY DEF LineBy, LineOf
<1> HIDE DEF pc1, qc1, pw, qw
<1>3. ~ (qw > pw) /\ pw # qw
  BY <1>1
<1>4. DoesIntersect(LineBy(ty, w, p), LineBy(ty, w, q))
  BY <1>2, <1>3 DEF DoesIntersect
<1>5. LambdaBy(ty, w, p, q) = IF qc1 - pc1 < 0 THEN [num |-> 0, den |-> 1]
                              ELSE [num |-> qc1 - pc1, den |-> pw - qw]
  BY <1>2, <1>3 DEF LambdaBy, IntersectLambda, MeetNum, MeetDen
<1>6. MeetBy(ty, w, p, q) = [num |-> pc1 * LambdaBy(ty, w, p, q).den
                                       + LambdaBy(ty, w, p, q).num * pw,
                             den |-> LambdaBy(ty, w, p, q).den]
  BY <1>2 DEF MeetBy, IntersectValue, Value, LambdaBy
<1>7. ASSUME qc1 < pc1 PROVE MeetBy(ty, w, p, q) = [num |-> pc1, den |-> 1]
  <2>1. LambdaBy(ty, w, p, q) = [num |-> 0, den |-> 1]
    BY <1>1, <1>5, <1>7
  <2>2. pc1 * 1 + 0 * pw = pc1
    BY <1>1
  <2> QED
    BY <1>6, <2>1, <2>2
<1>8. ASSUME pc1 <= qc1
      PROVE  /\ LambdaBy(ty, w, p, q) = [num |-> qc1 - pc1, den |-> pw - qw]
             /\ MeetBy(ty, w, p, q) = [num |-> pc1 * (pw - qw) + (qc1 - pc1) * pw,
                                       den |-> pw - qw]
  <2>1. ~ (qc1 - pc1 < 0)
    BY <1>1, <1>8
  <2>2. LambdaBy(ty, w, p, q) = [num |-> qc1 - pc1, den |-> pw - qw]
    BY <1>5, <2>1
  <2> QED
    BY <1>6, <2>2
<1> QED
  BY <1>1, <1>4, <1>7, <1>8 DEF pc1, qc1, pw, qw

(* A solution for the multiplier where the basis meets makes it meet       *)
(* lower, on whichever side it is.                                         *)
LEMMA SolutionDrops ==
  ASSUME NEW ty, NEW w \in Int, NEW a \in Parsing, NEW b \in Parsing, NEW s \in Parsing,
         Astride(ty, w, a, b), CostBy(ty, a) <= CostBy(ty, b),
         WorthBy(ty, w, LambdaBy(ty, w, a, b), s) <= WorthBy(ty, w, LambdaBy(ty, w, a, b), a),
         WorthBy(ty, w, LambdaBy(ty, w, a, b), s) <= WorthBy(ty, w, LambdaBy(ty, w, a, b), b)
  PROVE  /\ Astride(ty, w, a, s) /\ CostBy(ty, a) <= CostBy(ty, s) =>
              RationalLeq(MeetBy(ty, w, a, s), MeetBy(ty, w, a, b))
         /\ Astride(ty, w, s, b) /\ CostBy(ty, s) <= CostBy(ty, b) =>
              RationalLeq(MeetBy(ty, w, s, b), MeetBy(ty, w, a, b))
<1> DEFINE ac == CostBy(ty, a)
           bc == CostBy(ty, b)
           sc == CostBy(ty, s)
           aw == WeightBy(ty, a) - w
           bw == WeightBy(ty, b) - w
           sw == WeightBy(ty, s) - w
           n == bc - ac
           d == aw - bw
<1>1. /\ ac \in Nat \ {0} /\ bc \in Nat \ {0} /\ aw \in Nat \ {0} /\ bw \in Int /\ bw <= 0
      /\ d \in Nat \ {0} /\ LambdaBy(ty, w, a, b) = [num |-> n, den |-> d]
      /\ MeetBy(ty, w, a, b) = [num |-> ac * d + n * aw, den |-> d]
  BY MeetIs
<1>2. sc \in Nat \ {0} /\ sw \in Int /\ n \in Int
  BY <1>1, MeasureTypes
<1>3. sc * d + n * sw <= ac * d + n * aw /\ sc * d + n * sw <= bc * d + n * bw
  <2>1. \A p : WorthBy(ty, w, LambdaBy(ty, w, a, b), p)
                 = CostBy(ty, p) * d + n * (WeightBy(ty, p) - w)
    <3> HIDE DEF n, d
    <3> QED
      BY <1>1 DEF WorthBy
  <2> QED
    BY <2>1
<1>4. ASSUME Astride(ty, w, a, s), ac <= sc
      PROVE  RationalLeq(MeetBy(ty, w, a, s), MeetBy(ty, w, a, b))
  <2>1. MeetBy(ty, w, a, s) = [num |-> ac * (aw - sw) + (sc - ac) * aw, den |-> aw - sw]
    BY <1>4, MeetIs
  <2> HIDE DEF ac, bc, sc, aw, bw, sw, n, d
  <2>2. (ac * (aw - sw) + (sc - ac) * aw) * d <= (ac * d + n * aw) * (aw - sw)
    BY <1>1, <1>2, <1>3, RightDrops
  <2> QED
    BY <1>1, <2>1, <2>2 DEF RationalLeq
<1>5. ASSUME Astride(ty, w, s, b), sc <= bc
      PROVE  RationalLeq(MeetBy(ty, w, s, b), MeetBy(ty, w, a, b))
  <2>1. MeetBy(ty, w, s, b) = [num |-> sc * (sw - bw) + (bc - sc) * sw, den |-> sw - bw]
    BY <1>5, MeetIs
  <2>2. ac * d + n * aw = bc * d + n * bw
    <3> HIDE DEF ac, bc, aw, bw
    <3> QED
      BY <1>1, MeetingPoint
  <2> HIDE DEF ac, bc, sc, aw, bw, sw, n, d
  <2>3. (bc * (sw - bw) + (bc - sc) * bw) * d <= (bc * d + n * bw) * (sw - bw)
    BY <1>1, <1>2, <1>3, LeftDrops
  <2>4. sc * (sw - bw) + (bc - sc) * sw = bc * (sw - bw) + (bc - sc) * bw
    BY <1>1, <1>2, MeetingPoint
  <2>5. (sc * (sw - bw) + (bc - sc) * sw) * d <= (ac * d + n * aw) * (sw - bw)
    BY <2>2, <2>3, <2>4
  <2> QED
    BY <1>1, <2>1, <2>5 DEF RationalLeq
<1> QED
  BY <1>4, <1>5

(* What is below every parsing at some multiplier is below every feasible  *)
(* cost, and below where any infeasible and any feasible parsing meet.     *)
LEMMA WorthBounds ==
  ASSUME NEW ty, NEW w \in Int, NEW l \in Multiplier, NEW v \in Int,
         NEW q \in Parsing, WeightBy(ty, q) <= w, v <= WorthBy(ty, w, l, q)
  PROVE  /\ RationalLeq([num |-> v, den |-> l.den], [num |-> CostBy(ty, q), den |-> 1])
         /\ \A p \in Parsing : w < WeightBy(ty, p) /\ v <= WorthBy(ty, w, l, p) =>
              RationalLeq([num |-> v, den |-> l.den], MeetBy(ty, w, p, q))
<1> DEFINE n == l.num
           d == l.den
           qc1 == CostBy(ty, q)
           qw == WeightBy(ty, q) - w
<1>1. n \in Nat /\ d \in Nat \ {0}
  BY DEF Multiplier
<1>2. qc1 \in Nat \ {0} /\ qw \in Int /\ qw <= 0
  <2>1. qc1 \in Nat \ {0} /\ WeightBy(ty, q) \in Int
    BY MeasureTypes
  <2> QED
    BY <2>1
<1>3. v <= qc1 * d + n * qw
  BY DEF WorthBy
<1>4. v <= qc1 * d
  <2> HIDE DEF n, d, qc1, qw
  <2> QED
    BY <1>1, <1>2, <1>3, FallingStarts
<1>5. RationalLeq([num |-> v, den |-> l.den], [num |-> CostBy(ty, q), den |-> 1])
  BY <1>4 DEF RationalLeq
<1>6. ASSUME NEW p \in Parsing, w < WeightBy(ty, p), v <= WorthBy(ty, w, l, p)
      PROVE  RationalLeq([num |-> v, den |-> l.den], MeetBy(ty, w, p, q))
  <2> DEFINE pc1 == CostBy(ty, p)
             pw == WeightBy(ty, p) - w
  <2>1. v <= pc1 * d + n * pw
    BY <1>6 DEF WorthBy
  <2>2. /\ pc1 \in Nat \ {0} /\ pw \in Nat \ {0} /\ pw - qw \in Nat \ {0}
        /\ qc1 < pc1 => MeetBy(ty, w, p, q) = [num |-> pc1, den |-> 1]
        /\ pc1 <= qc1 => MeetBy(ty, w, p, q) = [num |-> pc1 * (pw - qw) + (qc1 - pc1) * pw,
                                                den |-> pw - qw]
    <3>1. Astride(ty, w, p, q)
      BY <1>6 DEF Astride
    <3> QED
      BY <3>1, MeetIs
  <2> HIDE DEF n, d, qc1, qw, pc1, pw
  <2>3. CASE qc1 < pc1
    <3>1. d * qc1 <= d * pc1 /\ d * qc1 = qc1 * d /\ d * pc1 = pc1 * d
      BY <1>1, <1>2, <2>2, <2>3, ProductMonotone
    <3>2. v * 1 <= pc1 * d
      <4>1. qc1 * d \in Int /\ pc1 * d \in Int
        BY <1>1, <1>2, <2>2
      <4> QED
        BY <1>4, <3>1, <4>1
    <3> QED
      BY <2>2, <2>3, <3>2 DEF RationalLeq, d
  <2>4. CASE pc1 <= qc1
    <3>1. v * (pw - qw) <= (pc1 * (pw - qw) + (qc1 - pc1) * pw) * d
      <4>1. qw < pw
        BY <1>2, <2>2
      <4> QED
        BY <1>1, <1>2, <1>3, <2>1, <2>2, <4>1, MeetAbove
    <3> QED
      BY <2>2, <2>4, <3>1 DEF RationalLeq, d
  <2> QED
    BY <1>2, <2>2, <2>3, <2>4
<1> QED
  BY <1>5, <1>6
-------------------------------------------------------------------------------
(* The dual is solved. *)

DualStage == {"solve", "integrate", "swap"}

(* What one iteration establishes: phi_b is where the basis met, and the   *)
(* basis meets no higher since; phi_bp is below phi_b, below every         *)
(* feasible cost and below where any two lines meet.                       *)
DualOK(f, ty, w, bs, ph) ==
  /\ ph.b \in Rational /\ ph.bp \in Rational
  /\ ph.bp.den = ph.b.den /\ ph.bp.num <= ph.b.num
  /\ RationalLeq(MeetBy(ty, w, bs.left.sol, bs.right.sol), ph.b)
  /\ \A q \in f : WeightBy(ty, q) <= w =>
       /\ RationalLeq(ph.bp, [num |-> CostBy(ty, q), den |-> 1])
       /\ \A p \in f : w < WeightBy(ty, p) => RationalLeq(ph.bp, MeetBy(ty, w, p, q))

(* And the loop ends when the gap between the two is small. *)
GapOK(k, ph) ==
  k \in {"integrate", "swap"} /\ ph.bp.num > 0 =>
    (ph.b.num - ph.bp.num) * Eps.den <= Eps.num * ph.bp.num

PhiOK(f, ty, w, k, bs, ph) ==
  /\ k \notin DualStage => ph = NoPhi
  /\ k \in DualStage /\ ph # NoPhi => DualOK(f, ty, w, bs, ph)
  /\ GapOK(k, ph)

IDual == PhiOK(file, type, W, pc, basis, phi)

(* A solution for a multiplier is worth least there. *)
LEMMA SolutionIsLeast ==
  ASSUME NEW f, f \subseteq Parsing, NEW l \in Multiplier, W \in Int, NEW si, Made(f, si),
         SameGen(si.gen, Gen(LambdaModel(l), NoModel))
  PROVE  \A p \in f : WorthBy(type, W, l, si.sol) <= WorthBy(type, W, l, p)
<1> SUFFICES ASSUME NEW p \in f
             PROVE  WorthBy(type, W, l, si.sol) <= WorthBy(type, W, l, p)
  OBVIOUS
<1>1. One \in Multiplier /\ LambdaModel(l) \in Model
  BY DEF One, Multiplier, LambdaModel, Model
<1>2. /\ si.sol \in Parsing /\ p \in Parsing
      /\ si.gen.cm_1 \in Model /\ SameModel(si.gen.cm_1, LambdaModel(l))
      /\ Price(si.gen.cm_1, si.sol) <= Price(si.gen.cm_1, p)
  <2>1. si.gen.cm_1 \in Model
    BY GenForms DEF Made
  <2>2. SameModel(si.gen.cm_1, LambdaModel(l))
    BY DEF SameGen, Gen
  <2> QED
    BY <2>1, <2>2 DEF Made, Cheapest
<1>3. Price(LambdaModel(l), si.sol) <= Price(LambdaModel(l), p)
  BY <1>1, <1>2, SameOrder
<1>4. ASSUME NEW r \in Parsing
      PROVE  /\ WorthBy(type, W, l, r) = Price(LambdaModel(l), r) - l.num * W
             /\ Price(LambdaModel(l), r) \in Int /\ l.num * W \in Int
  <2> DEFINE x == r.space
             y == r.time
             n == l.num
             d == l.den
  <2>1. /\ x \in Nat \ {0} /\ y \in Nat \ {0} /\ n \in Nat /\ d \in Nat \ {0}
        /\ Price([space |-> One, time |-> l], r) = d * x + n * y
        /\ Price([space |-> l, time |-> One], r) = n * x + d * y
    BY PriceOf
  <2>2. WorthBy(type, W, l, r) = IF type = "TIME" THEN x * d + n * (y - W) ELSE y * d + n * (x - W)
    BY DEF WorthBy, CostBy, WeightBy
  <2>3. Price(LambdaModel(l), r) = IF type = "TIME" THEN d * x + n * y ELSE n * x + d * y
    BY <2>1 DEF LambdaModel
  <2> HIDE DEF x, y, n, d
  <2>4. x * d + n * (y - W) = (d * x + n * y) - n * W
        /\ y * d + n * (x - W) = (n * x + d * y) - n * W
        /\ n * W \in Int /\ d * x + n * y \in Int /\ n * x + d * y \in Int
    BY <2>1
  <2>5. WorthBy(type, W, l, r) = Price(LambdaModel(l), r) - n * W
        /\ Price(LambdaModel(l), r) \in Int /\ n * W \in Int
    BY <2>2, <2>3, <2>4
  <2> QED
    BY <2>5 DEF n
<1> QED
  BY <1>2, <1>3, <1>4

(* On the two sides of the bound, the lighter solution costs no less.      *)
LEMMA SolutionsTrade ==
  ASSUME NEW f, f \subseteq Parsing, NEW ty, NEW w \in Int, NEW si, Made(f, si), NEW q \in f,
         Astride(ty, w, si.sol, q)
  PROVE  CostBy(ty, si.sol) <= CostBy(ty, q)
<1>1. si.sol \in Parsing /\ q \in Parsing
      /\ ~ (q.space < si.sol.space /\ q.time < si.sol.time)
  BY MadeIsEfficient
<1>2. /\ q.space \in Nat /\ q.time \in Nat /\ si.sol.space \in Nat /\ si.sol.time \in Nat
  BY <1>1 DEF Parsing
<1>3. w < WeightBy(ty, si.sol) /\ WeightBy(ty, q) <= w
  BY DEF Astride
<1> QED
  BY <1>1, <1>2, <1>3 DEF CostBy, WeightBy

(* So the update always takes a solution for where the basis meets.        *)
LEMMA UpdateTakes ==
  ASSUME NEW f, f \subseteq Parsing, W \in Int, NEW b, NEW si,
         Made(f, b.left), Made(f, b.right), Made(f, si),
         b = [left |-> b.left, right |-> b.right],
         Astride(type, W, b.left.sol, b.right.sol),
         SameGen(si.gen, Gen(LambdaModel(Lambda(b)), NoModel))
  PROVE  LET new == Update(b, si) IN
         /\ new.left.sol \in f /\ new.right.sol \in f
         /\ si = new.left \/ si = new.right
         /\ RationalLeq(Crossing(new), Crossing(b))
         /\ Crossing(new) = MeetBy(type, W, new.left.sol, new.right.sol)
<1> DEFINE x == b.left.sol
           y == b.right.sol
           s == si.sol
           withRight == [b EXCEPT !.right = si]
           withLeft == [b EXCEPT !.left = si]
<1>1. /\ x \in f /\ y \in f /\ s \in f /\ x \in Parsing /\ y \in Parsing /\ s \in Parsing
  BY DEF Made, Cheapest
<1>2. Lambda(b) \in Multiplier /\ Lambda(b) = LambdaBy(type, W, x, y)
  BY <1>1, LambdaType, LinesAre DEF Astride
<1>3. /\ WorthBy(type, W, LambdaBy(type, W, x, y), s) <= WorthBy(type, W, LambdaBy(type, W, x, y), x)
      /\ WorthBy(type, W, LambdaBy(type, W, x, y), s) <= WorthBy(type, W, LambdaBy(type, W, x, y), y)
  BY <1>1, <1>2, SolutionIsLeast
<1>4. CostBy(type, x) <= CostBy(type, y)
  BY <1>1, SolutionsTrade
<1>5. /\ Astride(type, W, x, s) /\ CostBy(type, x) <= CostBy(type, s) =>
           RationalLeq(MeetBy(type, W, x, s), MeetBy(type, W, x, y))
      /\ Astride(type, W, s, y) /\ CostBy(type, s) <= CostBy(type, y) =>
           RationalLeq(MeetBy(type, W, s, y), MeetBy(type, W, x, y))
  BY <1>1, <1>3, <1>4, SolutionDrops
<1>6. /\ withRight = [left |-> b.left, right |-> si] /\ withLeft = [left |-> si, right |-> b.right]
      /\ withRight.left = b.left /\ withRight.right = si
      /\ withLeft.left = si /\ withLeft.right = b.right
  OBVIOUS
<1>7. Feasible(DualLine(si)) <=> WeightBy(type, s) <= W
  <2>1. WeightBy(type, s) \in Int
    BY <1>1, MeasureTypes
  <2> QED
    BY <2>1, MeasuresAre DEF Feasible, DualLine, LineOf
<1>8. WeightBy(type, s) \in Int
  BY <1>1, MeasureTypes
<1>9. CASE WeightBy(type, s) <= W
  <2>1. Astride(type, W, x, s)
    BY <1>9 DEF Astride
  <2>2. CostBy(type, x) <= CostBy(type, s)
    BY <1>1, <2>1, SolutionsTrade
  <2> HIDE DEF withRight, withLeft
  <2>3. /\ Crossing(withRight) = MeetBy(type, W, x, s) /\ Crossing(b) = MeetBy(type, W, x, y)
        /\ DualLine(withRight.left) = LineBy(type, W, x)
        /\ DualLine(withRight.right) = LineBy(type, W, s)
    BY <1>6, LinesAre
  <2>4. DoesIntersect(DualLine(withRight.left), DualLine(withRight.right))
        /\ RationalLeq(Crossing(withRight), Crossing(b))
    BY <1>1, <1>5, <2>1, <2>2, <2>3, MeetIs
  <2>5. Update(b, si) = Lower(b, withRight)
    BY <1>7, <1>9 DEF Update, withRight
  <2>6. Update(b, si) = withRight
    BY <2>4, <2>5 DEF Lower
  <2> QED
    BY <1>1, <1>6, <2>3, <2>4, <2>6
<1>10. CASE W < WeightBy(type, s)
  <2>1. Astride(type, W, s, y)
    BY <1>10 DEF Astride
  <2>2. CostBy(type, s) <= CostBy(type, y)
    BY <1>1, <2>1, SolutionsTrade
  <2> HIDE DEF withRight, withLeft
  <2>3. /\ Crossing(withLeft) = MeetBy(type, W, s, y) /\ Crossing(b) = MeetBy(type, W, x, y)
        /\ DualLine(withLeft.left) = LineBy(type, W, s)
        /\ DualLine(withLeft.right) = LineBy(type, W, y)
    BY <1>6, LinesAre
  <2>4. DoesIntersect(DualLine(withLeft.left), DualLine(withLeft.right))
        /\ RationalLeq(Crossing(withLeft), Crossing(b))
    BY <1>1, <1>5, <2>1, <2>2, <2>3, MeetIs
  <2>5. ~ Feasible(DualLine(si))
    BY <1>7, <1>8, <1>10
  <2>6. Update(b, si) = Lower(b, withLeft)
    BY <2>5 DEF Update, withLeft
  <2>7. Update(b, si) = withLeft
    BY <2>4, <2>6 DEF Lower
  <2> QED
    BY <1>1, <1>6, <2>3, <2>4, <2>7
<1> QED
  BY <1>8, <1>9, <1>10

(* lower_envelope is the least of two worths at the multiplier. *)
LEMMA EnvelopeIs ==
  ASSUME NEW ty, NEW w \in Int, NEW l \in Multiplier, NEW p \in Parsing, NEW q \in Parsing
  PROVE  LET v == LowerEnvelope(LineBy(ty, w, p), LineBy(ty, w, q), l) IN
         /\ v \in Rational /\ v.den = l.den
         /\ v.num <= WorthBy(ty, w, l, p) /\ v.num <= WorthBy(ty, w, l, q)
<1> DEFINE x == WorthBy(ty, w, l, p)
           y == WorthBy(ty, w, l, q)
           d == l.den
<1>1. x \in Int /\ y \in Int /\ d \in Nat \ {0}
  <2>1. /\ CostBy(ty, p) \in Int /\ CostBy(ty, q) \in Int
        /\ WeightBy(ty, p) \in Int /\ WeightBy(ty, q) \in Int
        /\ l.num \in Int /\ l.den \in Nat \ {0}
    BY MeasureTypes DEF Multiplier
  <2> QED
    BY <2>1 DEF WorthBy
<1>2. /\ Value(LineBy(ty, w, p), l) = [num |-> x, den |-> d]
      /\ Value(LineBy(ty, w, q), l) = [num |-> y, den |-> d]
  BY DEF Value, LineBy, LineOf, WorthBy
<1> HIDE DEF x, y, d
<1>3. RationalLeq([num |-> x, den |-> d], [num |-> y, den |-> d]) <=> x <= y
  <2>1. x * d <= y * d <=> x <= y
    <3>1. x * d = d * x /\ y * d = d * y
      BY <1>1
    <3> QED
      BY <1>1, <3>1, ProductMonotone, ProductCancels
  <2> QED
    BY <2>1 DEF RationalLeq
<1>4. LowerEnvelope(LineBy(ty, w, p), LineBy(ty, w, q), l) =
        IF x <= y THEN [num |-> x, den |-> d] ELSE [num |-> y, den |-> d]
  BY <1>2, <1>3 DEF LowerEnvelope
<1> QED
  BY <1>1, <1>4 DEF Rational, x, y, d

LEMMA SolveIDual == IInv /\ Solve => IDual'
<1> SUFFICES ASSUME IInv, Solve PROVE IDual'
  OBVIOUS
<1> DEFINE l == Lambda(basis)
           x == basis.left.sol
           y == basis.right.sol
<1>1. PICK si \in Optimal(Gen(LambdaModel(l), NoModel)) :
        /\ Store(si, SameSide(si)) /\ basis' = Update(basis, si)
        /\ phi' = [b  |-> Crossing(basis),
                   bp |-> LowerEnvelope(DualLine(basis'.left), DualLine(basis'.right), l)]
        /\ pc' = IF GapRemains(phi'.b, phi'.bp) THEN "solve" ELSE "integrate"
  BY DEF Solve
<1>2. /\ pc = "solve" /\ UNCHANGED <<file, todo, W>> /\ type' = type
  BY DEF Solve, request, type
<1>3. /\ InputsPart /\ CachesPart /\ file \subseteq Parsing /\ W \in Int
      /\ basis.left \in sol_cache /\ basis.right \in sol_cache
      /\ basis = [left |-> basis.left, right |-> basis.right]
      /\ Astride(type, W, x, y)
  BY <1>2 DEF IInv, BasisPart, BasisOK, HasBasis, HasBound, HasWeight, HasCost, Astride,
              InputsPart, InputsOK
<1>4. /\ Made(file, basis.left) /\ Made(file, basis.right)
      /\ x \in file /\ y \in file /\ x \in Parsing /\ y \in Parsing
  BY <1>3, CachedAreParsings DEF CachesPart, CachesOK
<1>5. l \in Multiplier /\ l = LambdaBy(type, W, x, y)
      /\ Crossing(basis) = MeetBy(type, W, x, y)
  BY <1>3, <1>4, LambdaType, LinesAre DEF Astride
<1> HIDE DEF l
<1>6. Made(file, si) /\ SameGen(si.gen, Gen(LambdaModel(l), NoModel)) /\ si.sol \in file
  BY <1>1, <1>3, <1>5, MixFound DEF Made, Cheapest
<1>7. \A p \in file : WorthBy(type, W, l, si.sol) <= WorthBy(type, W, l, p)
  BY <1>3, <1>5, <1>6, SolutionIsLeast
<1>8. /\ basis'.left.sol \in file /\ basis'.right.sol \in file
      /\ si = basis'.left \/ si = basis'.right
      /\ RationalLeq(MeetBy(type, W, basis'.left.sol, basis'.right.sol), Crossing(basis))
  <2> DEFINE new == Update(basis, si)
  <2>1. /\ new.left.sol \in file /\ new.right.sol \in file
        /\ si = new.left \/ si = new.right
        /\ RationalLeq(Crossing(new), Crossing(basis))
        /\ Crossing(new) = MeetBy(type, W, new.left.sol, new.right.sol)
    BY <1>3, <1>4, <1>6, UpdateTakes DEF l
  <2>2. basis' = new
    BY <1>1
  <2> HIDE DEF new
  <2> QED
    BY <2>1, <2>2
<1> DEFINE v == phi'.bp.num
           d == l.den
           xc == CostBy(type, x)
           yc == CostBy(type, y)
           xw == WeightBy(type, x) - W
           yw == WeightBy(type, y) - W
<1>9. /\ phi'.b = Crossing(basis) /\ phi'.bp \in Rational /\ phi'.bp.den = d
      /\ v <= WorthBy(type, W, l, si.sol) /\ v \in Int
  <2> DEFINE bp == LowerEnvelope(LineBy(type, W, basis'.left.sol),
                                 LineBy(type, W, basis'.right.sol), l)
  <2>1. bp \in Rational /\ bp.den = l.den
        /\ bp.num <= WorthBy(type, W, l, basis'.left.sol)
        /\ bp.num <= WorthBy(type, W, l, basis'.right.sol)
    BY <1>3, <1>5, <1>8, EnvelopeIs
  <2>2. phi'.b = Crossing(basis) /\ phi'.bp = bp
    BY <1>1, MeasuresAre DEF DualLine, LineBy
  <2> HIDE DEF bp
  <2> QED
    BY <1>8, <2>1, <2>2 DEF Rational
<1>10. \A p \in file : v <= WorthBy(type, W, l, p)
  <2>1. \A p \in file : WorthBy(type, W, l, p) \in Int
    <3> SUFFICES ASSUME NEW p \in file PROVE WorthBy(type, W, l, p) \in Int
      OBVIOUS
    <3>1. /\ CostBy(type, p) \in Int /\ WeightBy(type, p) \in Int
          /\ l.num \in Int /\ l.den \in Int
      BY <1>3, <1>5, MeasureTypes DEF Multiplier
    <3> QED
      BY <1>3, <3>1 DEF WorthBy
  <2> HIDE DEF v
  <2> QED
    BY <1>6, <1>7, <1>9, <2>1
<1>11. /\ l.num = yc - xc /\ d = xw - yw
       /\ Crossing(basis) = [num |-> xc * d + l.num * xw, den |-> d]
       /\ xc \in Nat \ {0} /\ yc \in Nat \ {0} /\ xw \in Nat \ {0} /\ yw \in Int
       /\ d \in Nat \ {0}
  <2>1. xc <= yc
    BY <1>3, <1>4, SolutionsTrade
  <2> QED
    BY <1>3, <1>4, <1>5, <2>1, MeetIs
<1>12. phi'.b \in Rational /\ phi'.bp.den = phi'.b.den /\ v <= phi'.b.num
  <2>1. v <= xc * d + l.num * xw
    BY <1>4, <1>10 DEF WorthBy
  <2>2. xc * d + l.num * xw \in Int
    BY <1>5, <1>11 DEF Multiplier
  <2> QED
    BY <1>9, <1>11, <2>1, <2>2 DEF Rational
<1>13. ASSUME NEW q \in file, WeightBy(type, q) <= W
       PROVE  /\ RationalLeq(phi'.bp, [num |-> CostBy(type, q), den |-> 1])
              /\ \A p \in file : W < WeightBy(type, p) =>
                   RationalLeq(phi'.bp, MeetBy(type, W, p, q))
  <2>1. phi'.bp = [num |-> v, den |-> d]
    BY <1>9 DEF Rational
  <2>2. /\ RationalLeq([num |-> v, den |-> d], [num |-> CostBy(type, q), den |-> 1])
        /\ \A p \in Parsing : W < WeightBy(type, p) /\ v <= WorthBy(type, W, l, p) =>
             RationalLeq([num |-> v, den |-> d], MeetBy(type, W, p, q))
    BY <1>3, <1>5, <1>9, <1>10, <1>13, WorthBounds
  <2> QED
    BY <1>3, <1>10, <2>1, <2>2
<1>14. DualOK(file, type, W, basis', phi')
  BY <1>8, <1>9, <1>12, <1>13 DEF DualOK
<1>15. GapOK(pc', phi')
  <2> SUFFICES ASSUME pc' \in {"integrate", "swap"}, phi'.bp.num > 0
               PROVE  (phi'.b.num - phi'.bp.num) * Eps.den <= Eps.num * phi'.bp.num
    BY DEF GapOK
  <2>1. ~ GapRemains(phi'.b, phi'.bp)
    BY <1>1
  <2> DEFINE diff == phi'.b.num - phi'.bp.num
  <2>2. /\ phi'.b.num \in Int /\ phi'.bp.num \in Int /\ phi'.b.num >= phi'.bp.num
        /\ Eps.den \in Int /\ Eps.num \in Int
    BY <1>9, <1>12, EpsAssumption DEF Rational, Multiplier
  <2>3. ~ (diff * Eps.den > Eps.num * phi'.bp.num)
    BY <2>1, <2>2 DEF GapRemains
  <2>4. diff * Eps.den \in Int /\ Eps.num * phi'.bp.num \in Int
    BY <2>2
  <2> QED
    BY <2>3, <2>4
<1> QED
  BY <1>1, <1>2, <1>14, <1>15 DEF IDual, PhiOK, DualStage

(* No other step has a say in it. *)
LEMMA NextIDual == IInv /\ IDual /\ [Next]_vars => IDual'
<1> SUFFICES ASSUME IInv, IDual, [Next]_vars PROVE IDual'
  OBVIOUS
<1>1. CASE Solve
  BY <1>1, SolveIDual
<1>2. ASSUME UNCHANGED phi, pc \notin DualStage, pc' \notin {"integrate", "swap"}
      PROVE  IDual'
  BY <1>2 DEF IDual, PhiOK, GapOK
<1>3. ASSUME phi' = NoPhi, pc' = "next"
      PROVE  IDual'
  BY <1>3 DEF IDual, PhiOK, GapOK, DualStage
<1>4. CASE NextBound \/ GetCostOptimal \/ GetWeightOptimal \/ SetBound \/ InitBasis \/ Refuse
  BY <1>2, <1>4 DEF NextBound, GetCostOptimal, GetWeightOptimal, SetBound, InitBasis, Refuse,
                    DualStage
<1>5. CASE SeedBasis
  BY <1>2, <1>5 DEF SeedBasis, DualStage
<1>6. CASE ReturnCostOptimal \/ ReturnWeightOptimal \/ Swap
  BY <1>3, <1>6 DEF ReturnCostOptimal, ReturnWeightOptimal, Swap, Return
<1>7. CASE Integrate
  <2>1. UNCHANGED <<file, todo, W, basis, phi>> /\ pc = "integrate" /\ pc' = "swap"
    BY <1>7 DEF Integrate, request
  <2> QED
    BY <2>1 DEF IDual, PhiOK, GapOK, DualStage, type
<1>8. CASE UNCHANGED vars
  BY <1>8 DEF IDual, vars, request, type
<1> QED
  BY <1>1, <1>4, <1>5, <1>6, <1>7, <1>8 DEF Next, Terminated

LEMMA InitIDual == Init => IDual
BY DEF Init, IDual, PhiOK, GapOK, DualStage, NoPhi, Zero

(* The dual keeps its bounds from the first iteration to the end of run.   *)
THEOREM DualInductive == Spec => []IDual
BY InitIDual, NextIDual, DriverInductive, PTL DEF Spec

(* phi_bp is below the cost of every parsing that meets the bound, after   *)
(* every iteration, also where it is negative and ends the loop too early. *)
THEOREM AlwaysLowerBound == Spec => []LowerBoundSound
<1>1. IDual => LowerBoundSound
  BY MeasuresAre DEF IDual, PhiOK, DualStage, DualOK, LowerBoundSound
<1> QED
  BY <1>1, DualInductive, PTL

LEMMA EpsType == Eps.num \in Nat /\ Eps.den \in Nat \ {0} /\ Eps.den + Eps.num \in Nat \ {0}
<1>1. Eps.num \in Nat /\ Eps.den \in Nat \ {0}
  BY EpsAssumption DEF Multiplier
<1> QED
  BY <1>1

LEMMA WithinType == ASSUME NEW x \in Rational PROVE Within(x) \in Rational
<1>1. x.num \in Int /\ x.den \in Nat \ {0}
  BY DEF Rational
<1> DEFINE e == Eps.den
           g == Eps.den + Eps.num
<1>2. e \in Nat \ {0} /\ g \in Nat \ {0}
  BY EpsType
<1> HIDE DEF e, g
<1>3. x.num * g \in Int /\ x.den * e \in Nat \ {0}
  <2>1. x.den * 0 < x.den * e /\ x.den * e \in Nat
    BY <1>1, <1>2, ProductStrict, ProductType
  <2> QED
    BY <1>1, <1>2, <2>1
<1> QED
  BY <1>3 DEF Within, Rational, e, g

LEMMA WithinMonotone ==
  ASSUME NEW x \in Rational, NEW y \in Rational, RationalLeq(x, y)
  PROVE  RationalLeq(Within(x), Within(y))
<1>1. /\ x.num \in Int /\ x.den \in Nat \ {0} /\ y.num \in Int /\ y.den \in Nat \ {0}
      /\ x.num * y.den <= y.num * x.den
  BY DEF Rational, RationalLeq
<1> DEFINE e == Eps.den
           g == Eps.den + Eps.num
           a == x.num
           b == x.den
           c == y.num
           d == y.den
<1>2. e \in Nat \ {0} /\ g \in Nat \ {0}
  BY EpsType
<1> HIDE DEF e, g, a, b, c, d
<1>3. a \in Int /\ b \in Int /\ c \in Int /\ d \in Int /\ a * d <= c * b
  BY <1>1 DEF a, b, c, d
<1>4. a * d \in Int /\ c * b \in Int /\ g * e \in Nat
  BY <1>2, <1>3, ProductType
<1>5. (g * e) * (a * d) <= (g * e) * (c * b)
  BY <1>3, <1>4, ProductMonotone
<1>6. (a * g) * (d * e) <= (c * g) * (b * e)
  BY <1>2, <1>3, <1>5
<1> QED
  BY <1>6 DEF RationalLeq, Within, a, b, c, d, e, g

LEMMA MeetType ==
  ASSUME NEW ty, NEW w \in Int, NEW p \in Parsing, NEW q \in Parsing, Astride(ty, w, p, q)
  PROVE  MeetBy(ty, w, p, q) \in Rational
<1> DEFINE pc1 == CostBy(ty, p)
           qc1 == CostBy(ty, q)
           pw == WeightBy(ty, p) - w
           qw == WeightBy(ty, q) - w
<1>1. /\ pc1 \in Nat \ {0} /\ qc1 \in Nat \ {0} /\ pw \in Nat \ {0}
      /\ pw - qw \in Nat \ {0} /\ qw \in Int
      /\ qc1 < pc1 => MeetBy(ty, w, p, q) = [num |-> pc1, den |-> 1]
      /\ pc1 <= qc1 => MeetBy(ty, w, p, q) = [num |-> pc1 * (pw - qw) + (qc1 - pc1) * pw,
                                              den |-> pw - qw]
  BY MeetIs
<1> HIDE DEF pc1, qc1, pw, qw
<1>2. pc1 * (pw - qw) + (qc1 - pc1) * pw \in Int
  BY <1>1
<1> QED
  BY <1>1, <1>2 DEF Rational

(* What follows at the end of the loop. *)
LEMMA EndBounds ==
  ASSUME IInv, IDual, pc \in {"integrate", "swap"}, phi.bp.num > 0
  PROVE  /\ phi.b \in Rational /\ phi.bp \in Rational /\ Crossing(basis) \in Rational
         /\ phi.bp.den = phi.b.den /\ phi.bp.num <= phi.b.num
         /\ (phi.b.num - phi.bp.num) * Eps.den <= Eps.num * phi.bp.num
         /\ RationalLeq(Crossing(basis), phi.b)
         /\ \A q \in {p \in file : Weight(p) <= W} :
              /\ [num |-> Cost(q), den |-> 1] \in Rational
              /\ RationalLeq(phi.bp, [num |-> Cost(q), den |-> 1])
              /\ \A p \in {r \in file : Weight(r) > W} :
                   LET v == IntersectValue(LineOf(Cost(p), Weight(p), W),
                                           LineOf(Cost(q), Weight(q), W))
                   IN  v \in Rational /\ RationalLeq(phi.bp, v)
<1>1. phi # NoPhi
  BY DEF NoPhi, Zero
<1>2. DualOK(file, type, W, basis, phi) /\ GapOK(pc, phi)
  BY <1>1 DEF IDual, PhiOK, DualStage
<1>3. /\ file \subseteq Parsing /\ W \in Int
      /\ basis.left.sol \in Parsing /\ basis.right.sol \in Parsing
      /\ Astride(type, W, basis.left.sol, basis.right.sol)
  BY CachedAreParsings DEF IInv, BasisPart, BasisOK, HasBasis, HasBound, HasWeight, HasCost,
                           InputsPart, InputsOK, Astride
<1>4. Crossing(basis) = MeetBy(type, W, basis.left.sol, basis.right.sol)
      /\ Crossing(basis) \in Rational
  BY <1>3, LinesAre, MeetType
<1>5. (phi.b.num - phi.bp.num) * Eps.den <= Eps.num * phi.bp.num
  BY <1>2 DEF GapOK
<1>6. ASSUME NEW q \in file, Weight(q) <= W
      PROVE  /\ [num |-> Cost(q), den |-> 1] \in Rational
             /\ RationalLeq(phi.bp, [num |-> Cost(q), den |-> 1])
             /\ \A p \in {r \in file : Weight(r) > W} :
                   LET v == IntersectValue(LineOf(Cost(p), Weight(p), W),
                                           LineOf(Cost(q), Weight(q), W))
                   IN  v \in Rational /\ RationalLeq(phi.bp, v)
  <2>1. WeightBy(type, q) <= W /\ Cost(q) = CostBy(type, q) /\ CostBy(type, q) \in Int
    BY <1>3, <1>6, MeasuresAre, MeasureTypes
  <2>2. [num |-> Cost(q), den |-> 1] \in Rational
        /\ RationalLeq(phi.bp, [num |-> Cost(q), den |-> 1])
    BY <1>2, <2>1 DEF DualOK, Rational
  <2>3. ASSUME NEW p \in file, Weight(p) > W
        PROVE  LET v == IntersectValue(LineOf(Cost(p), Weight(p), W),
                                       LineOf(Cost(q), Weight(q), W))
               IN  v \in Rational /\ RationalLeq(phi.bp, v)
    <3>1. WeightBy(type, p) \in Int /\ WeightBy(type, p) > W
      BY <1>3, <2>3, MeasuresAre, MeasureTypes
    <3>2. W < WeightBy(type, p)
      BY <1>3, <3>1
    <3>3. IntersectValue(LineOf(Cost(p), Weight(p), W), LineOf(Cost(q), Weight(q), W))
            = MeetBy(type, W, p, q)
      BY MeasuresAre DEF MeetBy, LineBy
    <3>4. RationalLeq(phi.bp, MeetBy(type, W, p, q)) /\ MeetBy(type, W, p, q) \in Rational
      BY <1>2, <1>3, <2>1, <3>2, MeetType DEF DualOK, Astride
    <3> QED
      BY <3>3, <3>4
  <2> QED
    BY <2>2, <2>3
<1> QED
  BY <1>2, <1>4, <1>5, <1>6 DEF DualOK

(* So the basis the loop stops on is within the relative gap of every      *)
(* parsing that meets the bound and of every other basis.                  *)
THEOREM AlwaysNearOptimal == Spec => []PositiveEndIsNear
<1>1. ASSUME IInv, IDual, pc \in {"integrate", "swap"}, phi.bp.num > 0 PROVE BasisIsNearOptimal
  <2> DEFINE e == Eps.den
             n == Eps.num
             a == phi.b.num
             c == phi.bp.num
             d == phi.b.den
  <2>1. /\ phi.b \in Rational /\ phi.bp \in Rational /\ Crossing(basis) \in Rational
        /\ phi.bp.den = d /\ (a - c) * e <= n * c /\ RationalLeq(Crossing(basis), phi.b)
    BY <1>1, EndBounds
  <2>2. e \in Nat \ {0} /\ n \in Nat /\ a \in Int /\ c \in Int /\ d \in Nat \ {0}
    BY <2>1, EpsType DEF Rational
  <2>3. RationalLeq(phi.b, Within(phi.bp))
    <3>1. a * (d * e) <= (c * (e + n)) * d
      <4> HIDE DEF a, c, d, e, n
      <4>1. a * e <= c * (e + n)
        BY <2>1, <2>2
      <4>2. a * e \in Int /\ c * (e + n) \in Int
        BY <2>2
      <4>3. d * (a * e) <= d * (c * (e + n))
        BY <2>2, <4>1, <4>2, ProductMonotone
      <4> QED
        BY <2>2, <4>3
    <3> QED
      BY <2>1, <3>1 DEF RationalLeq, Within
  <2>4. RationalLeq(Crossing(basis), Within(phi.bp))
    BY <2>1, <2>3, WithinType, LeqChain
  <2>5. ASSUME NEW v \in Rational, RationalLeq(phi.bp, v)
        PROVE  RationalLeq(Crossing(basis), Within(v))
    BY <2>1, <2>4, <2>5, WithinType, WithinMonotone, LeqChain
  <2> QED
    BY <1>1, <2>5, EndBounds DEF BasisIsNearOptimal
<1>2. IInv /\ IDual => PositiveEndIsNear
  BY <1>1 DEF PositiveEndIsNear
<1> QED
  BY <1>2, DriverInductive, DualInductive, PTL

===============================================================================
