------------------------------ MODULE Bicriteria ------------------------------
(***************************************************************************)
(* bicriteria_compressor::run, and the loop of bicriteria_call::run that   *)
(* calls it once for each bound of the command line on ONE compressor,     *)
(* whose caches outlive the bound.                                         *)
(*                                                                         *)
(* A parsing is abstracted to its space and its decompression time, a file *)
(* to the set of its parsings, and the parser to an oracle that returns an *)
(* optimal one.  A cost model is a combination of space and time; its      *)
(* coefficients are exact rationals where the code has doubles.            *)
(***************************************************************************)
EXTENDS Integers, Sequences, DualLines, CompressedCache

CONSTANTS
  Commands,     \* files, as sets of parsings, and lists of bounds asked for
  MaxPhrase,    \* weight of the heaviest phrase of a cost model
  Eps           \* relative gap at which the dual is taken as solved

Parsing == [space : Nat \ {0}, time : Nat \ {0}]
BoundType == {"SPACE", "TIME"}
Bound == [type : BoundType, kind : {"fixed", "relative"}, level : Multiplier]

ASSUME CommandsAssumption ==
  \A c \in Commands : c.file # {} /\ c.file \subseteq Parsing /\ c.bounds \in Seq(Bound)
ASSUME MaxPhraseAssumption == MaxPhrase \in Nat
ASSUME EpsAssumption == Eps \in Multiplier

VARIABLES
  file,         \* the parsings of the input; never changes
  plain,        \* which of the optimal ones the single-model parser returns
  todo,         \* the bounds not served yet, the current one first
  pc,           \* where run is
  W,            \* the bound on the weight
  warm,         \* the solution getter has cached the graph
  sol_cache,    \* the solutions computed so far, for any bound
  comp_cache,   \* the compressed parsings kept, oldest first
  cost_opt,     \* sol_info_cost
  weight_opt,   \* sol_info_weight
  basis,        \* the two solutions of the dual basis
  seed,         \* solutions get_basis has still to offer to the basis
  phi,          \* phi_b and phi_bp of the last iteration
  bases,        \* the two parsings handed to the path swapper
  outputs       \* one record per bound served

caches  == <<warm, sol_cache, comp_cache>>
optima  == <<cost_opt, weight_opt>>
request == <<file, plain, todo>>
vars == <<request, pc, W, caches, optima, basis, seed, phi, bases, outputs>>

-------------------------------------------------------------------------------
(* Cost models and generation infos.                                       *)

One  == [num |-> 1, den |-> 1]
Zero == [num |-> 0, den |-> 1]

Model   == [space : Multiplier, time : Multiplier]
NoModel == [space |-> Zero, time |-> Zero]
PureSpace == [space |-> One, time |-> Zero]
PureTime  == [space |-> Zero, time |-> One]

type == Head(todo).type

(* cw_factory: which resource is cost and which is weight. *)
Cost(p)   == IF type = "TIME" THEN p.space ELSE p.time
Weight(p) == IF type = "TIME" THEN p.time ELSE p.space

(* cm_factory: the cost, weight and lambda models of the current bound. *)
CostModel   == IF type = "TIME" THEN PureSpace ELSE PureTime
WeightModel == IF type = "TIME" THEN PureTime ELSE PureSpace
LambdaModelNegated(lambda) ==                                           \* mutant
  LET negated == [num |-> -lambda.num, den |-> lambda.den]
  IN  IF type = "TIME" THEN [space |-> One, time |-> negated]
                       ELSE [space |-> negated, time |-> One]
LambdaModel(lambda) == IF type = "TIME" THEN [space |-> One, time |-> lambda]
                                        ELSE [space |-> lambda, time |-> One]

SameRational(x, y) == x.num * y.den = y.num * x.den
SameModel(m, n) == SameRational(m.space, n.space) /\ SameRational(m.time, n.time)
SameGen(g, h) == SameModel(g.cm_1, h.cm_1) /\ SameModel(g.cm_2, h.cm_2)

Gen(cm_1, cm_2) == [cm_1 |-> cm_1, cm_2 |-> cm_2]
GenInfo  == [cm_1 : Model, cm_2 : Model]
Solution == [gen : GenInfo, sol : Parsing]

(* solution_info(): what the locals of run hold before they are assigned.  *)
NoSolution == [gen |-> Gen(NoModel, NoModel), sol |-> [space |-> 0, time |-> 0]]
NoPhi == [b |-> Zero, bp |-> Zero]

-------------------------------------------------------------------------------
(* The parser and the solution getter.                                     *)

(* What parsing p costs under model m, over a denominator that only        *)
(* depends on m.                                                           *)
Price(m, p) == m.space.num * m.time.den * p.space + m.time.num * m.space.den * p.time

Cheapest(m, ps) == {p \in ps : \A q \in ps : Price(m, p) <= Price(m, q)}

(* fast(cm): a single-model parse; ties are broken the same way each time. *)
SingleParse(m) ==
  IF m.time.num = 0 THEN {plain.SPACE}
  ELSE IF m.space.num = 0 THEN {plain.TIME} ELSE Cheapest(m, file)

DualParse(m, n) == Cheapest(n, Cheapest(m, file))

(* invoke_fast: until the graph is cached the second model is dropped.     *)
Fast(gen) ==
  IF gen.cm_2 = NoModel \/ ~warm THEN SingleParse(gen.cm_1)
                                 ELSE DualParse(gen.cm_1, gen.cm_2)

Recorded(gen) == {si \in sol_cache : SameGen(si.gen, gen)}

(* optimal: the recorded solution, or a new one. *)
Optimal(gen) ==
  IF Recorded(gen) # {} THEN Recorded(gen)
  ELSE {[gen |-> gen, sol |-> p] : p \in Fast(gen)}

(* ... and what it stores; same is the positions of the entries of the     *)
(* compressed cache on the same side of the bound as si.                   *)
Store(si, same) ==
  IF Recorded(si.gen) # {}
  THEN UNCHANGED caches
  ELSE /\ warm' = TRUE
       /\ sol_cache' = sol_cache \union {si}
       /\ comp_cache' = Add(comp_cache, si, same)

(* Both unbounded calls pass a W that puts every parsing on one side.      *)
Everywhere == DOMAIN comp_cache

SameSide(si) ==
  {i \in DOMAIN comp_cache : (Weight(comp_cache[i].sol) <= W) = (Weight(si.sol) <= W)}

-------------------------------------------------------------------------------
(* The dual basis.                                                         *)

DualLine(si) == LineOf(Cost(si.sol), Weight(si.sol), W)

Lambda(b) == IntersectLambda(DualLine(b.left), DualLine(b.right))
Crossing(b) == IntersectValue(DualLine(b.left), DualLine(b.right))

(* The two-line update: keep the basis whose lines meet lower. *)
Lower(b, new) ==
  IF /\ DoesIntersect(DualLine(new.left), DualLine(new.right))
     /\ RationalLeq(Crossing(new), Crossing(b))
  THEN new ELSE b

UpdateStrict(b, si) ==                                                  \* mutant
  Lower(b, IF Weight(si.sol) < W THEN [b EXCEPT !.right = si]
                                 ELSE [b EXCEPT !.left = si])
Update(b, si) ==
  Lower(b, IF Feasible(DualLine(si)) THEN [b EXCEPT !.right = si]
                                     ELSE [b EXCEPT !.left = si])

GapRemainsSwapped(b, bp) ==                                             \* mutant
  LET diff == IF b.num >= bp.num THEN b.num - bp.num ELSE bp.num - b.num
  IN  bp.num > 0 /\ diff * Eps.num > Eps.den * bp.num

GapRemainsRatio(b, bp) ==                                               \* mutant
  bp.num > 0 /\ b.num * Eps.den > Eps.num * bp.num

(* delta > eps, where delta = |phi_b - phi_bp| / phi_bp is computed on     *)
(* doubles: negative under a negative phi_bp, infinite or NaN under 0.     *)
GapRemains(b, bp) ==
  LET diff == IF b.num >= bp.num THEN b.num - bp.num ELSE bp.num - b.num
  IN  IF bp.num = 0 THEN diff > 0
      ELSE bp.num > 0 /\ diff * Eps.den > Eps.num * bp.num

-------------------------------------------------------------------------------
Init ==
  /\ \E c \in Commands : file = c.file /\ todo = c.bounds
  /\ plain \in [SPACE : Cheapest(PureSpace, file), TIME : Cheapest(PureTime, file)]
  /\ pc = "next" /\ W = 0
  /\ warm = FALSE /\ sol_cache = {} /\ comp_cache = <<>>
  /\ cost_opt = NoSolution /\ weight_opt = NoSolution
  /\ basis = [left |-> NoSolution, right |-> NoSolution]
  /\ seed = {} /\ phi = NoPhi /\ bases = <<>> /\ outputs = <<>>

(* bicriteria_call::run takes the next bound, or is done with them.        *)
NextBound ==
  /\ pc = "next"
  /\ pc' = IF todo = <<>> THEN "done" ELSE "cost"
  /\ UNCHANGED <<request, W, caches, optima, basis, seed, phi, bases, outputs>>

GetCostOptimal ==
  /\ pc = "cost"
  /\ \E si \in Optimal(Gen(CostModel, WeightModel)) :
       cost_opt' = si /\ Store(si, Everywhere)
  /\ pc' = "weight"
  /\ UNCHANGED <<request, W, weight_opt, basis, seed, phi, bases, outputs>>

GetWeightOptimal ==
  /\ pc = "weight"
  /\ \E si \in Optimal(Gen(WeightModel, CostModel)) :
       weight_opt' = si /\ Store(si, Everywhere)
  /\ pc' = "bound"
  /\ UNCHANGED <<request, W, cost_opt, basis, seed, phi, bases, outputs>>

GetFixedSwapped(bound, max, min) ==                                     \* mutant
  IF bound.kind = "fixed" THEN bound.level.num
  ELSE max + (bound.level.num * (max - min)) \div bound.level.den

(* get_fixed.  A relative bound is rounded to an integer W.                *)
GetFixed(bound, max, min) ==
  IF bound.kind = "fixed" THEN bound.level.num
  ELSE min + (bound.level.num * (max - min)) \div bound.level.den

SetBound ==
  /\ pc = "bound"
  /\ W' = GetFixed(Head(todo), Weight(cost_opt.sol), Weight(weight_opt.sol))
  /\ pc' = "decide"
  /\ UNCHANGED <<request, caches, optima, basis, seed, phi, bases, outputs>>

(* The end of run: the output is written and the locals go away.           *)
Return(how, p) ==
  /\ outputs' = Append(outputs, [bound |-> Head(todo), how |-> how, sol |-> p, W |-> W])
  /\ todo' = Tail(todo)
  /\ pc' = "next"
  /\ W' = 0
  /\ cost_opt' = NoSolution /\ weight_opt' = NoSolution
  /\ basis' = [left |-> NoSolution, right |-> NoSolution]
  /\ phi' = NoPhi /\ bases' = <<>>
  /\ UNCHANGED <<file, plain, caches, seed>>

(* W >= max_weight: the cost-optimal parsing, computed anew.               *)
ReturnCostOptimal ==
  /\ pc = "decide"
  /\ W >= Weight(cost_opt.sol)
  /\ \E p \in SingleParse(CostModel) : Return("cost", p)

(* W = min_weight: the weight-optimal parsing, computed anew.              *)
ReturnWeightOptimal ==
  /\ pc = "decide"
  /\ W < Weight(cost_opt.sol)
  /\ W = Weight(weight_opt.sol)
  /\ \E p \in SingleParse(WeightModel) : Return("weight", p)

(* W < min_weight: the exception leaves the loop over the bounds.          *)
Refuse ==
  /\ pc = "decide"
  /\ W < Weight(cost_opt.sol)
  /\ W < Weight(weight_opt.sol)
  /\ pc' = "refused"
  /\ UNCHANGED <<request, W, caches, optima, basis, seed, phi, bases, outputs>>

InitBasis ==
  /\ pc = "decide"
  /\ W < Weight(cost_opt.sol)
  /\ W > Weight(weight_opt.sol)
  /\ basis' = [left |-> cost_opt, right |-> weight_opt]
  /\ seed' = sol_cache
  /\ pc' = "seed"
  /\ UNCHANGED <<request, W, caches, optima, phi, bases, outputs>>

(* get_basis offers every solution to the basis, in the order of the hashes. *)
SeedBasis ==
  /\ pc = "seed"
  /\ \E si \in seed : basis' = Update(basis, si) /\ seed' = seed \ {si}
  /\ pc' = IF seed' = {} THEN "solve" ELSE "seed"
  /\ UNCHANGED <<request, W, caches, optima, phi, bases, outputs>>

(* One iteration of the loop.                                              *)
Solve ==
  /\ pc = "solve"
  /\ LET lambda == Lambda(basis) IN
     \E si \in Optimal(Gen(LambdaModel(lambda), NoModel)) :
       /\ Store(si, SameSide(si))
       /\ basis' = Update(basis, si)
       /\ phi' = [b  |-> Crossing(basis),
                  bp |-> LowerEnvelope(DualLine(basis'.left), DualLine(basis'.right), lambda)]
       /\ pc' = IF GapRemains(phi'.b, phi'.bp) THEN "solve" ELSE "integrate"
  /\ UNCHANGED <<request, W, optima, seed, bases, outputs>>

(* A compressed parsing is read back, or generated again when it has been  *)
(* evicted: the same way for a single model, but the getter is warm now.   *)
Kept(si) == {comp_cache[i].sol : i \in {j \in DOMAIN comp_cache :
                                          SameGen(comp_cache[j].gen, si.gen)}}
RegeneratedSingle(si) ==                                                \* mutant
  IF si.gen.cm_2 = NoModel THEN {si.sol} ELSE SingleParse(si.gen.cm_1)
Regenerated(si) == IF si.gen.cm_2 = NoModel THEN {si.sol} ELSE Fast(si.gen)
Writable(si) == IF Kept(si) # {} THEN Kept(si) ELSE Regenerated(si)

(* writable_parsings. *)
Integrate ==
  /\ pc = "integrate"
  /\ \E l \in Writable(basis.left), r \in Writable(basis.right) : bases' = <<l, r>>
  /\ pc' = "swap"
  /\ UNCHANGED <<request, W, caches, optima, basis, seed, phi, outputs>>

(* path_swap, by its contract: within the padded budget, and no costlier   *)
(* than the feasible base.  The module PathSwap models the algorithm.      *)
Swap ==
  /\ pc = "swap"
  /\ \E p \in file :
       /\ Weight(p) <= W + 2 * MaxPhrase
       /\ Cost(p) <= Cost(basis.right.sol)
       /\ Return("swap", p)

Terminated == pc \in {"done", "refused"} /\ UNCHANGED vars

Next ==
  \/ NextBound \/ GetCostOptimal \/ GetWeightOptimal \/ SetBound
  \/ ReturnCostOptimal \/ ReturnWeightOptimal \/ Refuse
  \/ InitBasis \/ SeedBasis \/ Solve \/ Integrate \/ Swap
  \/ Terminated

Spec == Init /\ [][Next]_vars /\ WF_vars(Next)

-------------------------------------------------------------------------------
(* Properties.                                                             *)

InBasis == pc \in {"seed", "solve", "integrate", "swap"}

(* The basis always has an infeasible left line and a feasible right line, *)
(* so intersect never meets parallel lines (it would throw) and update     *)
(* never prints "Ooops, this should never happen".                         *)
BasisStraddles ==
  InBasis => ~Feasible(DualLine(basis.left)) /\ Feasible(DualLine(basis.right))

(* No solution the caches offer to a basis, whichever bound it was         *)
(* computed for and with whichever model, is beaten on both resources.     *)
OnlyEfficient ==
  \A si \in sol_cache : \A p \in file :
    ~(p.space < si.sol.space /\ p.time < si.sol.time)

(* phi_bp is a lower bound on the cost of every parsing that meets W.      *)
LowerBoundSound ==
  pc \in {"solve", "integrate", "swap"} /\ phi # NoPhi =>
    \A p \in file : Weight(p) <= W =>
      RationalLeq(phi.bp, [num |-> Cost(p), den |-> 1])

(* What is within the relative gap of a value. *)
Within(x) == [num |-> x.num * (Eps.den + Eps.num), den |-> x.den * Eps.den]

(* No parsing that meets W is cheaper, by more than the relative gap, than *)
(* where the basis meets, and no pair of an infeasible and a feasible      *)
(* parsing meets lower by more.                                            *)
BasisIsNearOptimal ==
  \A q \in {p \in file : Weight(p) <= W} :
    /\ RationalLeq(Crossing(basis), Within([num |-> Cost(q), den |-> 1]))
    /\ \A p \in {r \in file : Weight(r) > W} :
         RationalLeq(Crossing(basis), Within(IntersectValue(LineOf(Cost(p), Weight(p), W),
                                                            LineOf(Cost(q), Weight(q), W))))

(* When the loop ends on a positive phi_bp, where the basis meets is       *)
(* within the relative gap the code stops at of the optimum of the dual,   *)
(* whatever solutions of earlier bounds the basis was seeded with.         *)
PositiveEndIsNear ==
  pc \in {"integrate", "swap"} /\ phi.bp.num > 0 => BasisIsNearOptimal

(* The parsings handed to the swapper are never worse, on either resource, *)
(* than the recorded space and time the swapper is told they have, whether *)
(* they were kept or generated again with a warm getter.                   *)
NoWorseThanRecorded ==
  pc = "swap" =>
    \A i \in 1 .. 2 : LET si == IF i = 1 THEN basis.left ELSE basis.right IN
      bases[i].space <= si.sol.space /\ bases[i].time <= si.sol.time

(* "the decompression time is below a user-specified time": what an early  *)
(* return writes is within the bound it was asked for.                     *)
EarlyReturnWithinBound ==
  \A i \in 1 .. Len(outputs) : LET o == outputs[i] IN
    o.how \in {"cost", "weight"} =>
      (IF o.bound.type = "TIME" THEN o.sol.time ELSE o.sol.space) <= o.W

(* Every bound is served or refused: the loop over the multipliers ends.   *)
Terminates == <>(pc \in {"done", "refused"})

(* The promise of the command, as an abstract specification. *)
Promise == INSTANCE BoundRequests WITH
  pending <- todo, refused <- pc = "refused",
  answers <- [i \in 1 .. Len(outputs) |-> outputs[i].sol]

(* The command implements its promise. *)
KeepsPromise == Promise!Spec
===============================================================================
