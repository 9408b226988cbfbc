------------------------------ MODULE DualLines ------------------------------
(***************************************************************************)
(* The Lagrangian dual of the bicriteria problem, as bicriteria_compress   *)
(* sees it: a parsing is a line (class solution_dual) whose value at the   *)
(* multiplier lambda is cost + lambda * weight, the weight being counted   *)
(* from the bound W.  Doubles are modelled by exact rationals: a           *)
(* multiplier, or a value of the dual, is a record [num, den], den > 0.    *)
(***************************************************************************)
LOCAL INSTANCE Integers

Rational == [num : Int, den : Nat \ {0}]
Multiplier == [num : Nat, den : Nat \ {0}]

RationalLeq(x, y) == x.num * y.den <= y.num * x.den

Line == [cost : Int, weight : Int]

(* solution_dual(cost, weight, W) *)
LineOf(cost, weight, W) == [cost |-> cost, weight |-> weight - W]

Feasible(line) == line.weight <= 0

DoesIntersect(l1, l2) == l1.weight # l2.weight

(* The value of a line at lambda. *)
Value(line, lambda) ==
  [num |-> line.cost * lambda.den + lambda.num * line.weight, den |-> lambda.den]

(* Where two lines meet, before and after the code's max(0.0, lambda).     *)
MeetNum(l1, l2) == IF l2.weight > l1.weight THEN l1.cost - l2.cost ELSE l2.cost - l1.cost
MeetDen(l1, l2) == IF l2.weight > l1.weight THEN l2.weight - l1.weight
                                            ELSE l1.weight - l2.weight

IntersectLambda(l1, l2) ==
  IF MeetNum(l1, l2) < 0 THEN [num |-> 0, den |-> 1]
                         ELSE [num |-> MeetNum(l1, l2), den |-> MeetDen(l1, l2)]

(* The cost component of intersect: the value of the FIRST line there.     *)
IntersectValue(l1, l2) == Value(l1, IntersectLambda(l1, l2))

UpperEnvelope(l1, l2, lambda) ==                                        \* mutant
  IF RationalLeq(Value(l1, lambda), Value(l2, lambda)) THEN Value(l2, lambda)
                                                       ELSE Value(l1, lambda)

(* lower_envelope of the basis {l1, l2} at lambda. *)
LowerEnvelope(l1, l2, lambda) ==
  IF RationalLeq(Value(l1, lambda), Value(l2, lambda)) THEN Value(l1, lambda)
                                                       ELSE Value(l2, lambda)
==============================================================================
