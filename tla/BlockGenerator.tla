---------------------------- MODULE BlockGenerator ----------------------------
(***************************************************************************)
(* fast_fsg_gen: matches found for a block of positions at a time.  For    *)
(* each class of distances a block and the two windows behind it are       *)
(* merged in the order of their suffixes; a scan finds the neighbours of   *)
(* each position of the block and the longer match of the two, whose       *)
(* length is carried from a position to the next.  Blocks are computed     *)
(* when a level is asked for, which a long match may put off.              *)
(* Blocks are kept for every class, for some of them that contain the      *)
(* others, or in one size for all.                                         *)
(* A build with assertions is modelled: a block that is not in its ring,   *)
(* or a distance out of its class, aborts.                                 *)
(***************************************************************************)
EXTENDS EdgeMesh, BlockSort, OptimalSubseq, Suffixes

CONSTANTS
  Texts,        \* the texts
  Getters       \* of rsa_getters

ASSUME TextsAssumption == \A t \in Texts : t \in Seq(ToSet(Symbols)) /\ t # <<>>

rsa_getters == {"generic_rsa_getter", "generalized_rsa", "same_rsa_getter"}
ASSUME GettersAssumption == Getters \subseteq rsa_getters

VARIABLES
  text,
  isa,          \* the rank of each position among the suffixes
  getter,       \* the kind of rsa_get; these three never change
  stats,        \* what its stats getter says of the classes; nor does this
  b, w,         \* b_getter and w_getter
  cached_rsa,   \* of generalized_rsa: level, position, and what was merged
  buffer,       \* mbuf: for each level the matches, the head and the boundary
  lengths,      \* for each level, maximal_length
  text_pos, level, mesh,
  edges,        \* the edges given at the last position
  pc

of_text == <<text, isa, getter, stats>>
rsa_get == <<b, w, cached_rsa>>
vars == <<of_text, rsa_get, buffer, lengths, text_pos, level, mesh, edges, pc>>

-------------------------------------------------------------------------------
L == Len(text)

(* The classes cut at the length of a text of n symbols, how many positions*)
(* a block has at each level and where its blocks start, the level of the  *)
(* getter that serves it, and the ends that one keeps blocks for.          *)
Stats(dst, cst, threshold, opt_father, opt) ==
  [dst |-> dst, cst |-> cst, threshold |-> threshold, opt_father |-> opt_father, opt |-> opt]
stats_getter(n) ==
  LET dst == NormalizeDst(Dst, n)
  IN  Stats(dst, Sizes(dst, n), <<0>> \o Front(dst), [k \in DOMAIN dst |-> k], dst)
gen_stats_getter(n) ==
  LET dst == NormalizeDst(Dst, n)
      opt == get_seq(dst)
      opt_father == get_opt_father(dst, opt)
  IN  Stats(dst, get_costs(dst, opt, opt_father), get_thresholds(dst, opt, opt_father),
            opt_father, opt)
same_stats(n) == [stats_getter(n) EXCEPT !.opt = <<Dst[1], n>>]
StatsOf(kind, n) ==
  CASE kind = "generic_rsa_getter" -> stats_getter(n)
    [] kind = "generalized_rsa"    -> gen_stats_getter(n)
    [] kind = "same_rsa_getter"    -> same_stats(n)

NotCached == [level |-> 0, pos |-> -1, items |-> {}]
Init ==
  /\ text \in Texts
  /\ isa = Ranks(text)
  /\ getter \in Getters
  /\ stats = StatsOf(getter, L)
  /\ b = IF getter = "same_rsa_getter" THEN <<>> ELSE BQueue(stats.opt, L)
  /\ w = WQueue(stats.opt, L)
  /\ cached_rsa = NotCached
  /\ buffer = [k \in DOMAIN stats.dst |->
                 [items |-> <<>>, idx |-> stats.cst[k] - 1, boundary |-> - stats.cst[k]]]
  /\ lengths = [k \in DOMAIN stats.dst |-> [previous |-> -1, pmatch |-> 0, smatch |-> 0]]
  /\ text_pos = 0 /\ level = 1 /\ mesh = Reset /\ edges = <<>> /\ pc = "pre"

-------------------------------------------------------------------------------
(* get_rsa of a level for the block from pos: the blocks that are merged,  *)
(* and what is taken of them.                                              *)
rsa_queues == [b |-> b, w |-> w]
BlockAt(queue, k, start) == [queue |-> queue, level |-> k, start |-> start]
Positions(blocks) ==
  UNION {Get(rsa_queues[block.queue][block.level], block.start).items : block \in blocks}

(* One size: the block, the one that many blocks before, the one before. *)
SameBlocks(k, pos) ==
  {BlockAt("w", 1, p) : p \in {q \in {pos, pos - (k - 1) * Dst[1], pos - k * Dst[1]} : q >= 0}}
SamePositions(k, pos) == Positions(SameBlocks(k, pos))

(* k is a level of the generic getter; its last takes the suffix array.    *)
WholeText(k) == stats.opt[k] >= L
QueueLevel(k) == LevelOf(KeptSizes(stats.opt, L), Sizes(stats.opt, L)[k])
BBlock(k, pos) == BlockAt("b", QueueLevel(k), pos)
WBlocks(k, pos) ==
  {BlockAt("w", QueueLevel(k), p) :
    p \in {q \in {pos - stats.opt[k]} \union (IF k = 1 THEN {} ELSE {pos - stats.opt[k - 1]}) : q >= 0}}
GenericBlocks(k, pos) == IF WholeText(k) THEN {} ELSE {BBlock(k, pos)} \union WBlocks(k, pos)
GenericPositions(k, pos) ==
  IF WholeText(k) THEN 0 .. (L - 1)
  ELSE Positions({BBlock(k, pos)}) \union {p \in Positions(WBlocks(k, pos)) : p < pos}

(* generalized_rsa keeps what it merged last, asked for by the next level. *)
IsCached(k, pos) ==
  /\ getter = "generalized_rsa"
  /\ cached_rsa.level = stats.opt_father[k] /\ cached_rsa.pos = pos

BlocksOf(k, pos) ==
  IF IsCached(k, pos) THEN {}
  ELSE IF getter = "same_rsa_getter" THEN SameBlocks(k, pos)
  ELSE GenericBlocks(stats.opt_father[k], pos)
Merged(k, pos) ==
  IF IsCached(k, pos) THEN cached_rsa.items
  ELSE IF getter = "same_rsa_getter" THEN SamePositions(k, pos)
  ELSE GenericPositions(stats.opt_father[k], pos)
AllPresent(k, pos) ==
  \A block \in BlocksOf(k, pos) : Present(rsa_queues[block.queue][block.level], block.start)
Cached(k, pos) ==
  IF getter # "generalized_rsa" THEN NotCached
  ELSE [level |-> stats.opt_father[k], pos |-> pos, items |-> Merged(k, pos)]

-------------------------------------------------------------------------------
(* smart_find: for a position x of the block from pos, its neighbours in   *)
(* the order of suffixes among the positions before it that are not too    *)
(* far, or in the same block.  split_max_match does so for zones of the    *)
(* block no longer than the distance.                                      *)
None == -1
Zone(k, pos, x) ==
  IF getter # "generalized_rsa" \/ stats.cst[k] <= stats.dst[k] THEN pos
  ELSE pos + ((x - pos) \div stats.dst[k]) * stats.dst[k]
Reach(k, first, items, x) ==
  {p \in items : p < x /\ (p >= first \/ x - p <= stats.dst[k])}
Pred(S, x) ==
  IF \E p \in S : isa[p] < isa[x]
  THEN CHOOSE p \in S : isa[p] < isa[x] /\ \A q \in S : isa[q] < isa[x] => isa[q] <= isa[p]
  ELSE None
Succ(S, x) ==
  IF \E p \in S : isa[p] > isa[x]
  THEN CHOOSE p \in S : isa[p] > isa[x] /\ \A q \in S : isa[q] > isa[x] => isa[q] >= isa[p]
  ELSE None

(* maximal_length: what is left of the lengths of the position scanned     *)
(* before, extended symbol by symbol.                                      *)
Carry(n, distance) == IF n > distance THEN n - distance ELSE 0
Extend(p, x, n) == IF p = None THEN n ELSE n + CommonPrefix(text, p + n, x + n)
CarriedOn(l, pred, succ, x) ==                                          \* mutant
  [previous |-> x, pmatch |-> Extend(pred, x, Carry(l.pmatch, 1)),
   smatch |-> Extend(succ, x, Carry(l.smatch, 1))]
Lengthen(l, pred, succ, x) ==
  [previous |-> x,
   pmatch |-> Extend(pred, x, Carry(l.pmatch, x - l.previous)),
   smatch |-> Extend(succ, x, Carry(l.smatch, x - l.previous))]
Longer(l, pred, succ, x) ==
  IF l.pmatch = 0 /\ l.smatch = 0 THEN NoMatch
  ELSE IF l.pmatch > l.smatch THEN [d |-> x - pred, ell |-> l.pmatch]
  ELSE [d |-> x - succ, ell |-> l.smatch]

(* The matches of a block, and the lengths of its last position.  A ring   *)
(* has entries for positions after the text: they are not read.            *)
Block(k, pos) ==
  LET items == Merged(k, pos)
      Scan(done, j) ==
        LET x    == pos + j - 1
            near == Reach(k, Zone(k, pos, x), items, x)
            l    == Lengthen(done.l, Pred(near, x), Succ(near, x), x)
        IN  [l |-> l, matches |-> Append(done.matches, Longer(l, Pred(near, x), Succ(near, x), x))]
  IN  FoldLeft(Scan, [l |-> lengths[k], matches |-> <<>>],
               [j \in 1 .. Smaller(stats.cst[k], L - pos) |-> j])

-------------------------------------------------------------------------------
PreGen ==
  /\ pc = "pre" /\ text_pos < L
  /\ b' = IF getter = "same_rsa_getter" THEN b ELSE Notify(b, text_pos, L)
  /\ w' = IF getter = "same_rsa_getter" THEN w ELSE Notify(w, text_pos, L)
  /\ mesh' = Reset /\ level' = 1 /\ pc' = "match"
  /\ UNCHANGED <<of_text, cached_rsa, buffer, lengths, text_pos, edges>>

MoreLevels == ~ mesh.stopped /\ level <= Levels(text_pos)

(* skip: the head of the buffer follows the text. *)
Skipped(line) == Smaller(stats.cst[level], text_pos - line.boundary)
IsEmpty(line) == Skipped(line) = stats.cst[level]

Use(match) == mesh' = Level(mesh, match) /\ level' = level + 1

(* max_match, with the turn of generate_edges around it. *)
HeadMatch ==
  /\ pc = "match" /\ MoreLevels
  /\ LET line == buffer[level] IN
     /\ ~ IsEmpty(line)
     /\ buffer' = [buffer EXCEPT ![level].idx = Skipped(line)]
     /\ Use(line.items[Skipped(line) + 1])
  /\ UNCHANGED <<of_text, rsa_get, lengths, text_pos, edges, pc>>

(* The block the position falls in may have begun before it. *)
Boundary ==
  LET size == stats.cst[level]  start == stats.threshold[level] IN
  ((text_pos - start) \div size) * size + start

(* assert(present) in rsa_queue::get, then that on the distances found. *)
AssertsPass(k, pos) ==
  /\ AllPresent(k, pos)
  /\ \A match \in ToSet(Block(k, pos).matches) : match.d <= stats.dst[k]

Refill ==
  /\ pc = "match" /\ MoreLevels /\ IsEmpty(buffer[level])
  /\ AssertsPass(level, Boundary)
  /\ LET found == Block(level, Boundary)
         idx   == text_pos - Boundary
     IN  /\ buffer' = [buffer EXCEPT ![level] =
                         [items |-> found.matches, idx |-> idx, boundary |-> Boundary]]
         /\ lengths' = [lengths EXCEPT ![level] = found.l]
         /\ cached_rsa' = Cached(level, Boundary)
         /\ Use(found.matches[idx + 1])
  /\ UNCHANGED <<of_text, b, w, text_pos, edges, pc>>

Abort ==
  /\ pc = "match" /\ MoreLevels /\ IsEmpty(buffer[level])
  /\ ~ AssertsPass(level, Boundary)
  /\ pc' = "aborted"
  /\ UNCHANGED <<of_text, rsa_get, buffer, lengths, text_pos, level, mesh, edges>>

PostGen ==
  /\ pc = "match" /\ ~ MoreLevels
  /\ text_pos' = text_pos + 1 /\ edges' = mesh.edges /\ pc' = "pre"
  /\ UNCHANGED <<of_text, rsa_get, buffer, lengths, level, mesh>>

Terminated == pc = "aborted" \/ text_pos = L
Next ==
  \/ PreGen \/ HeadMatch \/ Refill \/ Abort \/ PostGen
  \/ Terminated /\ UNCHANGED vars
Spec == Init /\ [][Next]_vars

-------------------------------------------------------------------------------
(* The positions before which the blocks of level k are split anew. *)
Splits(k) ==
  LET sizes == KeptSizes(stats.opt, L)  above == QueueLevel(stats.opt_father[k]) + 1 IN
  {p \in 0 .. L : above <= Len(sizes) /\ p % sizes[above] = 0}

(* No assertion fails: a level put off by longer matches finds the blocks  *)
(* behind it when it is asked for at last, and a length carried from a     *)
(* position whose neighbour is out of reach is not taken for a match.      *)
AssertsHold == pc # "aborted"

(* They fail only for a block that was split between the position it       *)
(* starts from and the one it is asked for: a block asked for at its start,*)
(* or as long as no split comes, has those behind it, and the distances    *)
(* found are of its class.                                                 *)
AbortsAfterASplit ==
  pc = "aborted" => \E p \in Splits(level) : Boundary < p /\ p <= text_pos

(* The edges of each position are those a generator promises, although     *)
(* lengths are carried from a position to the next, and from a block to    *)
(* the next one computed, instead of compared again.                       *)
Generator == INSTANCE EdgeGenerator WITH Offers <- Offers
KeepsPromise == Generator!Spec
===============================================================================
