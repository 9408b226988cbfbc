------------------------------- MODULE BlockSort -------------------------------
(***************************************************************************)
(* online_rsa: the suffix array of the text split, while the text is read, *)
(* into blocks of positions still sorted by suffix.  A queue has a level   *)
(* for each size of block, from the smallest; a level is a ring of blocks  *)
(* and a block of a level is split among blocks of the one below.  A block *)
(* is the set of positions it holds: the order inside is that of the       *)
(* suffixes, which splitting keeps.                                        *)
(***************************************************************************)
EXTENDS Integers, Sequences, FiniteSets, SequencesExt, FiniteSetsExt

Ceil(a, b) == (a + b - 1) \div b
Smaller(a, b) == IF a <= b THEN a ELSE b

-------------------------------------------------------------------------------
(* Classes of distances.  dst is a sequence of upper ends, n the length of *)
(* the text.                                                               *)

NormalizeDst(dst, n) ==
  LET below == Cardinality({k \in DOMAIN dst : dst[k] < n}) IN
  IF below = Len(dst) THEN dst ELSE Append(SubSeq(dst, 1, below), n)

(* get_cost_classes: how many distances each class has. *)
Sizes(dst, n) ==
  LET clipped == [dst EXCEPT ![Len(dst)] = Smaller(@, n)]
  IN  [k \in DOMAIN dst |-> IF k = 1 THEN clipped[1] ELSE clipped[k] - clipped[k - 1]]

(* rsa_getter: a bounded window is made unbounded, the last class dropped, *)
(* and the first one too if the second is as large.                        *)
Unbounded(dst, n) == IF Last(dst) < n THEN Append(dst, n) ELSE dst
TwinClasses(s) == Len(s) >= 2 /\ s[1] = s[2]
KeptSizes(dst, n) ==
  LET s == Front(Sizes(Unbounded(dst, n), n)) IN IF TwinClasses(s) THEN Tail(s) ELSE s
KeptDst(dst, n) ==
  LET s == Front(Sizes(Unbounded(dst, n), n))
      d == Front(Unbounded(dst, n))
  IN  IF TwinClasses(s) THEN Tail(d) ELSE d

-------------------------------------------------------------------------------
(* rsa_queue.  filled and next are the two numbers of idx_pos: how many    *)
(* blocks of the ring are in use, and where the next one starts.           *)

NewLevel(size, blocks) ==
  [ring |-> [j \in 1 .. blocks |-> [start |-> 0, size |-> size, items |-> {}]],
   filled |-> 0, next |-> 0]

(* What distribute gives the j-th of the blocks from start. *)
Share(items, start, size, j, n) ==
  LET first == start + (j - 1) * size IN
  [start |-> first, size |-> Smaller(size, n - first),
   items |-> {p \in items : p \in first .. (first + size - 1)}]

SetAll(level, k, n, items) ==                                           \* mutant
  LET ring   == level.ring
      size   == Head(ring).size
  IN  [level EXCEPT !.ring = [j \in DOMAIN ring |-> IF j <= k THEN Share(items, level.next, size, j, n)
                                                 ELSE ring[j]],
                    !.filled = k, !.next = Smaller(n, level.next + k * size)]
(* set, then distribute: the k oldest blocks of the ring, turned to its    *)
(* end, take the k blocks that start at next, with their share of items.   *)
Set(level, k, n, items) ==
  LET ring   == level.ring
      size   == Head(ring).size
      over   == level.filled + k - Len(ring)
      rotate == IF over > 0 THEN over ELSE 0
      filled == Smaller(Len(ring), level.filled + k)
      turned == SubSeq(ring, rotate + 1, Len(ring)) \o SubSeq(ring, 1, rotate)
  IN  [ring |-> [j \in DOMAIN ring |-> IF j \in (filled - k + 1) .. filled
                                       THEN Share(items, level.next, size, j - (filled - k), n)
                                       ELSE turned[j]],
       filled |-> filled, next |-> Smaller(n, level.next + k * size)]

(* get_block: where in the ring the block from start is, 0 if nowhere. *)
BlockIndex(level, start) ==
  LET first == Head(level.ring)
      ahead == (start - first.start) \div first.size
  IN  IF \/ level.next = 0 \/ first.start > start \/ start >= level.next
         \/ (start - first.start) % first.size # 0 \/ ahead >= Len(level.ring)
      THEN 0 ELSE ahead + 1
Present(level, start) == BlockIndex(level, start) # 0
Get(level, start) == level.ring[BlockIndex(level, start)]

(* get_level: the level of blocks of that size. *)
LevelOf(sizes, size) == CHOOSE k \in DOMAIN sizes : sizes[k] = size

-------------------------------------------------------------------------------
(* The queues a getter starts with.  all is the set of every position.     *)

(* W-blocks: a level keeps the blocks of one above, and those as far back  *)
(* as its distance; the last has all the text.                             *)
WQueue(dst, n) ==
  LET q == KeptSizes(dst, n)  d == KeptDst(dst, n)  last == Len(q)
      Empty(k) == NewLevel(q[k], IF k < last THEN q[k + 1] \div q[k] + d[k] \div q[k]
                                 ELSE Ceil(n, q[k]))
  IN  [k \in DOMAIN q |-> IF k < last THEN Empty(k)
                          ELSE Set(Empty(k), Ceil(n, q[k]), n, 0 .. (n - 1))]

(* B-blocks: those of a level start where its class of distances does, and *)
(* the first of each level is there from the start.                        *)
BQueue(dst, n) ==
  LET q == KeptSizes(dst, n)  d == KeptDst(dst, n)  last == Len(q)
      sizes == Sizes(Unbounded(dst, n), n)
      Of(k) == {i \in 1 .. (Len(sizes) - 1) : sizes[i] = q[k]}
      Start(k) == IF Min(Of(k)) = 1 THEN 0 ELSE Unbounded(dst, n)[Min(Of(k)) - 1]
      Base == IF last = 1 /\ d[1] > q[1] THEN 2 ELSE 1
      Blocks(k) == IF k < last THEN q[k + 1] \div q[k] ELSE Base + Ceil(n - d[last], q[last])
      Slid(k) == [NewLevel(q[k], Blocks(k)) EXCEPT !.next = Start(k)]
  IN  [k \in DOMAIN q |-> Set(Slid(k), IF k < last THEN Cardinality(Of(k)) ELSE Blocks(k),
                              n, 0 .. (n - 1))]

-------------------------------------------------------------------------------
(* notify: at a position where the blocks of some levels are over, split   *)
(* the block above them, from the highest of those levels down.            *)

(* The first level, from 1, that has the next block already. *)
FirstKept(queue, offset) ==
  Min({k \in DOMAIN queue : k = Len(queue) \/ queue[k].next # offset})

Split(queue, k, offset, n) ==
  LET parent   == Get(queue[k + 1], offset)
      children == Ceil(Smaller(n - offset, parent.size), Head(queue[k].ring).size)
  IN  [queue EXCEPT ![k] = Set(@, children, n, parent.items)]

Notify(queue, offset, n) ==
  IF queue = <<>> THEN queue
  ELSE LET top == FirstKept(queue, offset) - 1
       IN  FoldLeft(LAMBDA q, k : Split(q, k, offset, n), queue, [j \in 1 .. top |-> top + 1 - j])
===============================================================================
