---------------------------- MODULE OptimalParser ----------------------------
(***************************************************************************)
(* optimal_parser::parse: a shortest path from the start to the end of the *)
(* text, on a graph with an edge for each phrase.  Only part of the graph  *)
(* is relaxed: of the copies the edges of EdgeMesh, of the literal runs    *)
(* that end at a position the one a sliding window minimum picks.  The     *)
(* costs are pairs compared lexicographically (bi_edge_cost); edge_cost is *)
(* the pair whose weight model is zero.                                    *)
(* The text may be generated in buckets (bucket_fsg), none of which copies *)
(* from another, and at the ends of a greedy parsing only (rm_protocol).   *)
(***************************************************************************)
EXTENDS EdgeMesh

CONSTANTS
  Jobs          \* what parse may be called on

(* A cost model: cost of each class, and of literal runs; a job is a text, *)
(* a cost and a weight model, the longest literal run, the length of a     *)
(* bucket (that of the text, or more, for a single one), and whether the   *)
(* generator speaks rm_protocol.                                           *)
Model == [copy : [1 .. Len(Dst) -> [1 .. Len(Lens) -> Nat]], lit_fixed : Nat, lit_var : Nat]
IsJob(j) == /\ j.text \in Seq(ToSet(j.text)) /\ j.text # <<>>
            /\ j.window \in Nat \ {0} /\ j.bucket \in Nat \ {0}
            /\ j.cost \in Model /\ j.weight \in Model /\ j.rightmost \in BOOLEAN
ASSUME JobsAssumption == \A j \in Jobs : IsJob(j)

VARIABLES
  job,          \* text, models and literal window; never changes
  pc,           \* where parse is
  i,            \* the position parse is at; also s_window's t_pos
  p_cost,       \* cost of the best path found to each position
  parsing,      \* its last edge; after flip, its first one
  increasing_seq,  \* of s_window
  penalty,      \* of literal_inserter
  plain,        \* and its edge, back_edge
  mesh, level,  \* of generate_edges
  bucket_start, \* of the bucket being generated
  next,         \* of rm_protocol: the positions left before it gives an edge
  max_edges,    \* the edges given, max_edges[0 .. generated - 1]
  j,            \* the copy to relax next, from 1
  cur_idx, copy \* of flip

literals == <<increasing_seq, penalty, plain>>
edges == <<mesh, level, bucket_start, next, max_edges>>
flipping == <<cur_idx, copy>>
vars == <<job, pc, i, p_cost, parsing, literals, edges, j, flipping>>

L == Len(job.text)

-------------------------------------------------------------------------------
(* Edges and their costs.                                                  *)
Edge == [d : Nat, ell : Nat, cost_id : Nat]
Plain(ell) == [d |-> 0, ell |-> ell, cost_id |-> 0]
Huge == L + 1                                         \* stands for 2^32 - 1
Invalid == [d |-> Huge, ell |-> Huge, cost_id |-> Huge]   \* edge_t()
IsRegular(e) == e.d > 0

Zero == [cost |-> 0, weight |-> 0]
Unreached == [cost |-> -1, weight |-> -1]             \* the largest double
Plus(x, y)  == [cost |-> x.cost + y.cost, weight |-> x.weight + y.weight]
Minus(x, y) == [cost |-> x.cost - y.cost, weight |-> x.weight - y.weight]
Less(x, y) == \/ y = Unreached
              \/ x.cost < y.cost
              \/ x.cost = y.cost /\ x.weight < y.weight

(* get_cost by id, lit_cost, edge_cost *)
CopyCost(model, id) ==
  LET width == Width(Len(Lens))
  IN  model.copy[(id \div width) + 1][(id % width) + 1]
EdgeCost(model, e) ==
  IF IsRegular(e) THEN CopyCost(model, e.cost_id) ELSE model.lit_fixed + e.ell * model.lit_var
Value(e) == [cost |-> EdgeCost(job.cost, e), weight |-> EdgeCost(job.weight, e)]

-------------------------------------------------------------------------------
(* The literal inserter.                                                   *)
DeltaWithFixed == Value(Plain(1))                                       \* mutant
Delta == Minus(Value(Plain(1)), Value(Plain(0)))

(* pos_cost: value <= e *)
NoDearer(value, e) == ~ Less(e.cost, value)
(* s_window::update: the elements the new one beats leave from the back,   *)
(* the buffer, when full, drops its oldest one, and so does the window.    *)
Update(seq, value) ==
  LET n    == CHOOSE k \in 0 .. Len(seq) :
                /\ \A q \in (k + 1) .. Len(seq) : NoDearer(value, seq[q])
                /\ k = 0 \/ ~ NoDearer(value, seq[k])
      kept == SubSeq(seq, 1, n)
      room == IF n = job.window THEN Tail(kept) ELSE kept
      all  == Append(room, [position |-> i, cost |-> value])
  IN  IF i - job.window >= Head(all).position THEN Tail(all) ELSE all

-------------------------------------------------------------------------------
Init ==
  /\ job \in Jobs
  /\ pc = "visit" /\ i = 0
  /\ p_cost = [n \in 0 .. L |-> IF n = 0 THEN Zero ELSE Unreached]
  /\ parsing = [n \in 0 .. L |-> Invalid]
  /\ increasing_seq = <<>>
  /\ penalty = Value(Plain(L))
  /\ plain = Plain(0) /\ mesh = Reset /\ level = 0 /\ j = 1
  /\ bucket_start = 0 /\ next = 1 /\ max_edges = <<>>
  /\ cur_idx = 0 /\ copy = Invalid

(* The text of the generator, and where it is in it. *)
Bucket == SubSeq(job.text, bucket_start + 1, Min({bucket_start + job.bucket, L}))
text_pos == i - bucket_start

(* gen_next of a bucket that is over: a new generator takes the next one.  *)
NextBucket ==
  /\ pc = "visit" /\ i < L /\ text_pos = Len(Bucket)
  /\ bucket_start' = i /\ next' = 1
  /\ UNCHANGED <<job, pc, i, p_cost, parsing, literals, mesh, level, max_edges, j, flipping>>

(* gen_next: a turn of generate_edges for each level. *)
StartEdges ==
  /\ pc = "visit" /\ i < L /\ text_pos < Len(Bucket)
  /\ pc' = "levels" /\ mesh' = Reset /\ level' = 0
  /\ UNCHANGED <<job, i, p_cost, parsing, literals, bucket_start, next, max_edges, j, flipping>>

MoreLevels == ~ mesh.stopped /\ level < Levels(text_pos)

NextLevel ==
  /\ pc = "levels" /\ MoreLevels
  /\ \E match \in MaxMatch(Bucket, text_pos, level + 1) : mesh' = Level(mesh, match)
  /\ level' = level + 1
  /\ UNCHANGED <<job, pc, i, p_cost, parsing, literals, bucket_start, next, max_edges, j, flipping>>

GiveEdges ==
  /\ pc = "levels" /\ ~ MoreLevels /\ ~ job.rightmost
  /\ max_edges' = mesh.edges
  /\ pc' = "literal"
  /\ UNCHANGED <<job, i, p_cost, parsing, literals, mesh, level, bucket_start, next, j, flipping>>

(* rm_protocol::gen_next: the first of the longest edges, unless a copy    *)
(* given before goes on.                                                   *)
Candidate ==
  mesh.edges[CHOOSE k \in DOMAIN mesh.edges : \A n \in DOMAIN mesh.edges :
               /\ mesh.edges[n].ell <= mesh.edges[k].ell
               /\ n < k => mesh.edges[n].ell < mesh.edges[k].ell]
GiveRightmost ==
  /\ pc = "levels" /\ ~ MoreLevels /\ job.rightmost
  /\ LET silent == next > 1 \/ mesh.edges = <<>>
     IN  /\ next' = IF silent THEN Max({0, next - 1}) ELSE Candidate.ell
         /\ max_edges' = IF silent THEN <<>> ELSE <<Candidate>>
  /\ pc' = "literal"
  /\ UNCHANGED <<job, i, p_cost, parsing, literals, mesh, level, bucket_start, j, flipping>>

(* From the position the window picks to the one after the current one. *)
LiteralEdge(seq) == Plain(i + 1 - Head(seq).position)
(* literal_inserter::gen_next *)
InsertLiteral ==
  /\ pc = "literal"
  /\ LET seq == Update(increasing_seq, Plus(p_cost[i], penalty))
     IN  /\ increasing_seq' = seq
         /\ plain' = LiteralEdge(seq)
  /\ penalty' = Minus(penalty, Delta)
  /\ pc' = "relax" /\ j' = 1
  /\ UNCHANGED <<job, i, p_cost, parsing, edges, flipping>>

(* edge_relax *)
Relax(from, e) ==
  LET new_cost == Plus(p_cost[from], Value(e))
      to == from + e.ell
  IN  IF Less(new_cost, p_cost[to])
      THEN /\ p_cost' = [p_cost EXCEPT ![to] = new_cost]
           /\ parsing' = [parsing EXCEPT ![to] = e]
      ELSE UNCHANGED <<p_cost, parsing>>

RelaxCopy ==
  /\ pc = "relax" /\ j <= Len(max_edges)
  /\ Relax(i, max_edges[j])
  /\ j' = j + 1
  /\ UNCHANGED <<job, pc, i, literals, edges, flipping>>

(* plain_relax *)
RelaxRun ==
  /\ pc = "relax" /\ j > Len(max_edges)
  /\ Relax(i - (plain.ell - 1), plain)
  /\ i' = i + 1 /\ pc' = "visit"
  /\ UNCHANGED <<job, j, literals, edges, flipping>>

StartFlip ==
  /\ pc = "visit" /\ i = L
  /\ pc' = "flip" /\ cur_idx' = L
  /\ UNCHANGED <<job, i, p_cost, parsing, literals, edges, j, copy>>

FlipEdgeUnsigned ==                                                     \* mutant
  /\ pc = "flip" /\ cur_idx >= 0
  /\ parsing' = [parsing EXCEPT ![cur_idx] = copy]
  /\ copy' = parsing[cur_idx]
  /\ cur_idx' = (cur_idx - parsing[cur_idx].ell) % (L + 1)
  /\ UNCHANGED <<job, pc, i, p_cost, literals, edges, j>>
FlipEdge ==
  /\ pc = "flip" /\ cur_idx >= 0
  /\ parsing' = [parsing EXCEPT ![cur_idx] = copy]
  /\ copy' = parsing[cur_idx]
  /\ cur_idx' = cur_idx - parsing[cur_idx].ell
  /\ UNCHANGED <<job, pc, i, p_cost, literals, edges, j>>

Finish ==
  /\ pc = "flip" /\ cur_idx < 0
  /\ pc' = "done"
  /\ UNCHANGED <<job, i, p_cost, parsing, literals, edges, j, flipping>>

Terminated == pc = "done" /\ UNCHANGED vars

Next == NextBucket \/ StartEdges \/ NextLevel \/ GiveEdges \/ GiveRightmost \/ InsertLiteral
        \/ RelaxCopy \/ RelaxRun \/ StartFlip \/ FlipEdge \/ Finish \/ Terminated

Spec == Init /\ [][Next]_vars /\ WF_vars(Next)

-------------------------------------------------------------------------------
(* Properties.                                                             *)

(* Every literal run that may start at n. *)
IsRun(n, e) == e.d = 0 /\ e.ell \in 1 .. (L - n) /\ e.ell <= job.window
Runs(n) == {Plain(ell) : ell \in {k \in 1 .. (L - n) : k <= job.window}}

Least(S) == CHOOSE x \in S : \A y \in S : ~ Less(y, x)

(* Every copy the generator of n's bucket allows. *)
StartOf(n) == n - (n % job.bucket)
CopiesOf(n) ==
  LET start == StartOf(n)
  IN  Copies(SubSeq(job.text, start + 1, Min({start + job.bucket, L})), n - start)

(* The greedy parsing: the longest copy at each position it reaches, in    *)
(* the class nearest to it, or else one symbol.                            *)
Longest(n) == Max({0} \union {e.ell : e \in CopiesOf(n)})
Nearest(n) ==
  LET all == {e \in CopiesOf(n) : e.ell = Longest(n)}
  IN  {e \in all : \A c \in all : e.cost_id <= c.cost_id}
Reached ==
  LET f[n \in 0 .. (L - 1)] ==
        \/ n = StartOf(n)
        \/ \E m \in StartOf(n) .. (n - 1) : f[m] /\ n = m + Max({1, Longest(m)})
  IN  {n \in 0 .. (L - 1) : f[n]}

Given(n) == IF ~ job.rightmost THEN CopiesOf(n) ELSE IF n \in Reached THEN Nearest(n) ELSE {}

(* The cost of the best of all the parsings of the text. *)
Optimum ==
  LET f[n \in 0 .. L] ==   \* of its last n symbols
        IF n = 0 THEN Zero
        ELSE Least({Plus(Value(e), f[n - e.ell]) : e \in Given(L - n) \union Runs(L - n)})
  IN  f[L]

(* Longer or farther never costs less; no cost is negative (Model). *)
Monotone(model) ==
  \A k, k2 \in DOMAIN Dst : \A n, n2 \in DOMAIN Lens :
    k <= k2 /\ n <= n2 => model.copy[k][n] <= model.copy[k2][n2]

(* The cost of the parsing that flip leaves, followed from position 0.     *)
Flipped ==
  LET f[n \in 0 .. L] ==   \* cost from L - n on, if a phrase starts there
        IF n = 0 THEN Zero
        ELSE LET e == parsing[L - n] IN
             IF IsCopy(job.text, L - n, e) \/ IsRun(L - n, e) THEN Plus(Value(e), f[n - e.ell])
             ELSE Unreached
  IN  f[L]

(* Although most of the graph is never relaxed, the parsing found is one   *)
(* of the text, costs what parse reports and what the best parsing of the  *)
(* whole graph does (of all copies inside a bucket, or of the greedy ones) *)
(* and among those of that cost weighs least, when longer or farther       *)
(* copies never cost less.                                                 *)
EndIsOptimal ==
  pc = "done" => /\ Flipped = p_cost[L]
                 /\ Monotone(job.cost) /\ Monotone(job.weight) => p_cost[L] = Optimum

(* The literal run relaxed after position i - 1 is the cheapest way to     *)
(* reach i by a literal run no longer than the window, and the shortest    *)
(* of those that cost the same.                                            *)
WindowMinimum ==
  pc = "visit" /\ i > 0 =>
    LET Ending(n) == Plus(p_cost[i - n], Value(Plain(n)))
        picked == plain.ell
    IN  /\ picked \in 1 .. job.window /\ picked <= i
        /\ \A n \in 1 .. i : n <= job.window =>
             /\ ~ Less(Ending(n), Ending(picked))
             /\ n < picked => Less(Ending(picked), Ending(n))

(* The edges given at a position are copies of its bucket, each longer     *)
(* than the one before and with the id the cost model gives its distance   *)
(* and length, and fit in maxedges; for each copy the position allows one  *)
(* of them is at least as long, with classes no higher.  Under rm_protocol *)
(* they are the copies of the greedy parsing of the bucket, and no others. *)
EdgesDominate ==
  pc = "literal" =>
    IF job.rightmost
    THEN IF i \in Reached /\ Longest(i) > 0
         THEN Len(max_edges) = 1 /\ max_edges[1] \in Nearest(i)
         ELSE max_edges = <<>>
    ELSE Offers(Bucket, text_pos, max_edges)

(* parse ends: flip comes to position 0 and past it.                       *)
Terminates == <>(pc = "done")
===============================================================================
