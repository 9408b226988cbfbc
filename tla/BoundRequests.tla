---------------------------- MODULE BoundRequests ----------------------------
(***************************************************************************)
(* What bc-zip promises of a list of bounds, without saying how: every     *)
(* bound gets one parsing of the file, in order.  The parsing's weight is  *)
(* within the bound padded by two phrases, or the parsing is a cheapest    *)
(* one and some cheapest parsing is within the bound.  A bound is refused  *)
(* exactly when no parsing is within it, and no bound is served after it.  *)
(***************************************************************************)
LOCAL INSTANCE Integers
LOCAL INSTANCE Sequences

CONSTANTS Commands, MaxPhrase

VARIABLES file, pending, answers, refused

WeightOf(b, p) == IF b.type = "TIME" THEN p.time ELSE p.space
CostOf(b, p)   == IF b.type = "TIME" THEN p.space ELSE p.time

(* The parsings that cost least, and the least weight there is.            *)
CheapestFor(b) == {p \in file : \A q \in file : CostOf(b, p) <= CostOf(b, q)}
LightestFor(b) == {p \in file : \A q \in file : WeightOf(b, p) <= WeightOf(b, q)}

(* What a bound may stand for: a level is relative to a cheapest parsing.  *)
BudgetsOf(b) ==
  IF b.kind = "fixed" THEN {b.level.num}
  ELSE {WeightOf(b, l) + (b.level.num * (WeightOf(b, c) - WeightOf(b, l))) \div b.level.den
          : c \in CheapestFor(b), l \in LightestFor(b)}

Answer(b, budget) ==
  {p \in file : WeightOf(b, p) <= budget + 2 * MaxPhrase}
  \union (IF \E c \in CheapestFor(b) : WeightOf(b, c) <= budget THEN CheapestFor(b) ELSE {})

Fits(b, budget) == \E p \in file : WeightOf(b, p) <= budget

PromiseInit ==
  /\ \E c \in Commands : file = c.file /\ pending = c.bounds
  /\ answers = <<>> /\ refused = FALSE

Serve ==
  /\ pending # <<>> /\ ~refused
  /\ \E budget \in BudgetsOf(Head(pending)) :
       /\ Fits(Head(pending), budget)
       /\ \E p \in Answer(Head(pending), budget) : answers' = Append(answers, p)
  /\ pending' = Tail(pending)
  /\ UNCHANGED <<file, refused>>

TurnDown ==
  /\ pending # <<>> /\ ~refused
  /\ \E budget \in BudgetsOf(Head(pending)) : ~Fits(Head(pending), budget)
  /\ refused' = TRUE
  /\ UNCHANGED <<file, pending, answers>>

Spec == PromiseInit /\ [][Serve \/ TurnDown]_<<file, pending, answers, refused>>
==============================================================================
