------------------------------- MODULE PathSwap -------------------------------
(***************************************************************************)
(* path_swapper: two parsings of one text are read together, phrase by     *)
(* phrase, to find the position where following one parsing up to there,   *)
(* then a bridge made of the end of a phrase of the other, then the other, *)
(* costs least within a budget on the weight; then that path is generated. *)
(* A parsing is what the compressor's edge vector holds: a phrase at each  *)
(* position where one starts.  The sides 0 and 1 are parsings[0] and [1].  *)
(***************************************************************************)
EXTENDS Integers, Sequences

CONSTANTS
  L,            \* orig_len, the length of the text
  CostCM,       \* CostCM[d][ell]: cost of a phrase; d = 0 for literals
  WeightCM,     \* WeightCM[d][ell]: its weight
  MaxDst,       \* space_cm.get_dst().back()
  MaxLen,       \* space_cm.get_len().back()
  Inputs        \* what the swapper may be given

Side == {0, 1}
Other(s) == 1 - s

Phrase == [d : 0 .. MaxDst, ell : 1 .. MaxLen]
CW == [cost : Int, weight : Int]

(* edge_costweight *)
EdgeCW(d, ell) == IF ell = 0 THEN [cost |-> 0, weight |-> 0]
                  ELSE [cost |-> CostCM[d][ell], weight |-> WeightCM[d][ell]]

Plus(x, y)  == [cost |-> x.cost + y.cost, weight |-> x.weight + y.weight]
MinusCostOnly(x, y) == [cost |-> x.cost - y.cost, weight |-> x.weight]   \* mutant
Minus(x, y) == [cost |-> x.cost - y.cost, weight |-> x.weight - y.weight]

(* A parsing of the text: phrases that follow each other up to L. *)
IsParsing(p) ==
  /\ 0 \in DOMAIN p
  /\ \A i \in DOMAIN p : /\ i \in 0 .. (L - 1)
                         /\ p[i] \in Phrase
                         /\ i + p[i].ell \in DOMAIN p \union {L}
                         /\ \A k \in DOMAIN p : i < k => i + p[i].ell <= k

(* The cost and weight of the phrases from each position on. *)
Rest(p) ==
  LET f[i \in 0 .. L] == IF i \in DOMAIN p THEN Plus(EdgeCW(p[i].d, p[i].ell), f[i + p[i].ell])
                        ELSE EdgeCW(0, 0)
  IN  f

(* Two parsings, the cost and weight they are recorded with, which may be  *)
(* more than theirs, a bound, and whether bicriteria_compressor asks for   *)
(* the swap or the free function.                                          *)
AtMost(x, y) == x.cost <= y.cost /\ x.weight <= y.weight
IsInput(in) ==
  /\ \A s \in Side : IsParsing(in.base[s]) /\ AtMost(Rest(in.base[s])[0], in.total[s])
  /\ in.total \in [Side -> CW]
  /\ in.W \in Int /\ in.padded \in BOOLEAN

ASSUME LengthAssumption == L \in Nat \ {0} /\ MaxDst \in Nat /\ MaxLen \in Nat \ {0}
ASSUME CostAssumption ==
  /\ CostCM \in [0 .. MaxDst -> [1 .. MaxLen -> Nat]]
  /\ WeightCM \in [0 .. MaxDst -> [1 .. MaxLen -> Nat]]
ASSUME InputsAssumption == \A in \in Inputs : IsInput(in)

VARIABLES
  input,        \* the two parsings, their recorded totals and W; never changes
  pc,           \* where swap is
  queue,        \* the sides to_process still holds
  heads,        \* how far each parsing has been read
  head, tail,   \* cost and weight of what has been read, and of the rest
  incoming,     \* the last phrase read on each side
  old_heads,    \* heads before the sides of to_process advanced
  other_kind,   \* kind of the other side's incoming edge when a side's turn starts
  best,         \* best_cost, swap_sol and swap_point
  out, pos, cur, last   \* to_ret, pos, cur_sol and (d, len) of generate

reading    == <<queue, heads, head, tail, incoming, old_heads, other_kind, best>>
generating == <<out, pos, cur, last>>
vars == <<input, pc, reading, generating>>

-------------------------------------------------------------------------------
IsRegular(edge) == edge.d > 0

(* bicriteria_compressor::path_swap pads the bound by two phrases as heavy *)
(* as the heavier of the last copy class and a literal; the free function  *)
(* path_swap does not.                                                     *)
MaxPhraseWeight ==
  LET copy == WeightCM[MaxDst][MaxLen]
      lit  == WeightCM[0][1]
  IN  IF copy >= lit THEN copy ELSE lit
Budget == IF input.padded THEN input.W + 2 * MaxPhraseWeight ELSE input.W

None == 2                                 \* swap_sol before any is found
NoEdge == [d |-> -1, ell |-> 0]           \* edge_t()
Nothing == [d |-> 0, ell |-> 0]           \* edge_t(0); d and len before any read

ToProcessReversed == IF heads[0] = heads[1] THEN <<1, 0>>                 \* mutant
                     ELSE IF heads[0] < heads[1] THEN <<0>> ELSE <<1>>
ToProcessStrict == IF heads[0] < heads[1] THEN <<0>> ELSE <<1>>          \* mutant

(* to_process: the sides that are not ahead of the other one. *)
ToProcess ==
  IF heads[0] = heads[1] THEN <<0, 1>>
  ELSE IF heads[0] < heads[1] THEN <<0>> ELSE <<1>>

-------------------------------------------------------------------------------
Init ==
  /\ input \in Inputs
  /\ pc = "round" /\ queue = <<>>
  /\ heads = [s \in Side |-> 0] /\ old_heads = [s \in Side |-> 0]
  /\ head = [s \in Side |-> EdgeCW(0, 0)]
  /\ tail = input.total
  /\ incoming = [s \in Side |-> Nothing]
  /\ other_kind = FALSE
  /\ best = [cost |-> 0, sol |-> None, point |-> 0]
  /\ out = [i \in 0 .. L |-> NoEdge] /\ pos = 0 /\ cur = 0 /\ last = Nothing

NextRoundUntilBothEnd ==                                                \* mutant
  /\ pc = "round"
  /\ heads[0] < L \/ heads[1] < L
  /\ pc' = "evaluate"
  /\ queue' = ToProcess
  /\ UNCHANGED <<input, heads, head, tail, incoming, old_heads, other_kind, best, generating>>

(* The head of swap_points' loop; without a swap it throws when it ends.   *)
NextRound ==
  /\ pc = "round"
  /\ heads[0] < L /\ heads[1] < L
  /\ pc' = "evaluate"
  /\ queue' = ToProcess
  /\ UNCHANGED <<input, heads, head, tail, incoming, old_heads, other_kind, best, generating>>

EndRounds ==
  /\ pc = "round"
  /\ heads[0] >= L \/ heads[1] >= L
  /\ pc' = IF best.sol = None THEN "failed" ELSE "prefix"
  /\ cur' = best.sol
  /\ UNCHANGED <<input, reading, out, pos, last>>

CandidateNoBridge(s) == Plus(head[s], tail[Other(s)])                    \* mutant

(* Follow s up to its head, bridge to the other's head, follow the other.  *)
Candidate(s) ==
  Plus(head[s], Plus(EdgeCW(incoming[Other(s)].d, heads[Other(s)] - heads[s]),
                     tail[Other(s)]))

WithinBudget(cw) == cw.weight <= Budget

Evaluate ==
  /\ pc = "evaluate"
  /\ LET s == Head(queue) IN
     best' = IF /\ WithinBudget(Candidate(s))
                /\ best.sol = None \/ Candidate(s).cost < best.cost
             THEN [cost |-> Candidate(s).cost, sol |-> s, point |-> heads[s]]
             ELSE best
  /\ queue' = IF Tail(queue) = <<>> THEN ToProcess ELSE Tail(queue)
  /\ pc' = IF Tail(queue) = <<>> THEN "turn" ELSE "evaluate"
  /\ old_heads' = heads
  /\ UNCHANGED <<input, heads, head, tail, incoming, other_kind, generating>>

(* A side's turn: the other's incoming edge may be the one just read.      *)
StartTurn ==
  /\ pc = "turn"
  /\ other_kind' = IsRegular(incoming[Other(Head(queue))])
  /\ pc' = "advance"
  /\ UNCHANGED <<input, queue, heads, head, tail, incoming, old_heads, best, generating>>

GoesOnPast(s, read) ==                                                  \* mutant
  read < L /\ read <= old_heads[Other(s)] + 1 /\ other_kind
GoesOn(s, read) == read <= old_heads[Other(s)] /\ other_kind

(* Read one phrase; under a copy, go on until the side is ahead.           *)
Advance ==
  /\ pc = "advance"
  /\ LET s == Head(queue)
         e == input.base[s][heads[s]]
         goes_on == GoesOn(s, heads[s] + e.ell)
     IN  /\ heads' = [heads EXCEPT ![s] = @ + e.ell]
         /\ head' = [head EXCEPT ![s] = Plus(@, EdgeCW(e.d, e.ell))]
         /\ tail' = [tail EXCEPT ![s] = Minus(@, EdgeCW(e.d, e.ell))]
         /\ incoming' = [incoming EXCEPT ![s] = e]
         /\ queue' = IF goes_on THEN queue ELSE Tail(queue)
         /\ pc' = IF goes_on THEN "advance"
                  ELSE IF Tail(queue) = <<>> THEN "round" ELSE "turn"
  /\ UNCHANGED <<input, old_heads, other_kind, best, generating>>

-------------------------------------------------------------------------------
(* generate *)

Copy(at) == [out EXCEPT ![at] = input.base[cur][at]]

CopyPrefix ==
  /\ pc = "prefix" /\ pos < best.point
  /\ out' = Copy(pos)
  /\ last' = input.base[cur][pos]
  /\ pos' = pos + input.base[cur][pos].ell
  /\ UNCHANGED <<input, pc, reading, cur>>

SwitchSide ==
  /\ pc = "prefix" /\ pos >= best.point
  /\ pc' = "skip" /\ pos' = 0 /\ cur' = Other(cur)
  /\ UNCHANGED <<input, reading, out, last>>

SkipPhrase ==
  /\ pc = "skip" /\ pos < best.point
  /\ last' = input.base[cur][pos]
  /\ pos' = pos + input.base[cur][pos].ell
  /\ UNCHANGED <<input, pc, reading, out, cur>>

PutBridgeUncut ==                                                       \* mutant
  /\ pc = "skip" /\ pos >= best.point
  /\ out' = [out EXCEPT ![best.point] = last]
  /\ pc' = "suffix"
  /\ UNCHANGED <<input, reading, pos, cur, last>>
PutBridge ==
  /\ pc = "skip" /\ pos >= best.point
  /\ out' = [out EXCEPT ![best.point] = [d |-> last.d, ell |-> pos - best.point]]
  /\ pc' = "suffix"
  /\ UNCHANGED <<input, reading, pos, cur, last>>

CopySuffix ==
  /\ pc = "suffix" /\ pos < L
  /\ out' = Copy(pos)
  /\ last' = input.base[cur][pos]
  /\ pos' = pos + input.base[cur][pos].ell
  /\ UNCHANGED <<input, pc, reading, cur>>

Finish ==
  /\ pc = "suffix" /\ pos >= L
  /\ out' = [out EXCEPT ![L] = last]
  /\ pc' = "done"
  /\ UNCHANGED <<input, reading, pos, cur, last>>

Terminated == pc \in {"done", "failed"} /\ UNCHANGED vars

Next ==
  \/ NextRound \/ EndRounds \/ Evaluate \/ StartTurn \/ Advance
  \/ CopyPrefix \/ SwitchSide \/ SkipPhrase \/ PutBridge \/ CopySuffix \/ Finish
  \/ Terminated

Spec == Init /\ [][Next]_vars

-------------------------------------------------------------------------------
(* Properties.                                                             *)

Reading == pc \in {"round", "evaluate", "turn", "advance"}

TypeOK ==
  /\ IsInput(input)
  /\ pc \in {"round", "evaluate", "turn", "advance", "prefix", "skip", "suffix",
             "done", "failed"}
  /\ queue \in {<<>>, <<0>>, <<1>>, <<0, 1>>}
  /\ heads \in [Side -> 0 .. L] /\ old_heads \in [Side -> 0 .. L]
  /\ head \in [Side -> CW] /\ tail \in [Side -> CW]
  /\ incoming \in [Side -> Phrase \union {Nothing}]
  /\ other_kind \in BOOLEAN
  /\ best \in [cost : Int, sol : Side \union {None}, point : 0 .. L]
  /\ DOMAIN out = 0 .. L
  /\ pos \in 0 .. L /\ cur \in Side \union {None} /\ last \in Phrase \union {Nothing}

(* A reader never reads past the end of its parsing, and always stands     *)
(* where one of its phrases starts.                                        *)
ReadersOnPhrases ==
  /\ \A s \in Side : heads[s] \in DOMAIN input.base[s] \union {L}
  /\ pc = "advance" => heads[Head(queue)] < L

(* The bridge is the end of a phrase of the other parsing: when a swap is  *)
(* evaluated, the other side's last phrase starts no later than the head   *)
(* of the side that is not ahead.                                          *)
BridgeInside ==
  pc \in {"round", "evaluate"} =>
    \A s \in Side : heads[s] <= heads[Other(s)] =>
      heads[Other(s)] - incoming[Other(s)].ell <= heads[s]

(* What a side has read and what is left always make up its recorded total. *)
HeadTailAccounting == \A s \in Side : Plus(head[s], tail[s]) = input.total[s]

(* One of the two parsings is itself within the budget, so a swap is found *)
(* ("No swap-point found" is never thrown) and costs no more than it.      *)
NoWorseThanABase ==
  pc \notin {"round", "evaluate"} \/ (pc = "round" /\ heads[0] > 0) =>
    \A s \in Side : input.total[s].weight <= Budget =>
      best.sol # None /\ best.cost <= input.total[s].cost

(* A phrase of a path is one of a parsing's, or the end of one.            *)
IsPartOf(p, at, edge) ==
  \E i \in DOMAIN p : /\ i <= at
                      /\ i + p[i].ell = at + edge.ell
                      /\ p[i].d = edge.d

(* Where the phrases of the path out holds start, and the path's cost and  *)
(* weight.                                                                 *)
PathStarts ==
  LET f[i \in 0 .. L] ==
        IF i = 0 THEN {0}
        ELSE LET before == f[i - 1]
             IN  IF i - 1 \in before THEN before \union {i - 1 + out[i - 1].ell} ELSE before
  IN  f[L]
PathCW == Rest([i \in PathStarts \ {L} |-> out[i]])[0]

(* The path generated is a parsing of the text: its phrases follow each    *)
(* other up to L, and each copies what a phrase of a base copies.          *)
GeneratesAParsing ==
  pc = "done" =>
    /\ L \in PathStarts
    /\ \A i \in PathStarts \ {L} :
         /\ out[i].ell >= 1
         /\ \E s \in Side : IsPartOf(input.base[s], i, out[i])

(* The path generated costs and weighs what swap_points said of it, or     *)
(* less when a base is better than recorded; it is within the budget.      *)
DeliversTheBest ==
  pc = "done" => /\ PathCW.cost <= best.cost
                 /\ PathCW.weight <= Budget
===============================================================================
