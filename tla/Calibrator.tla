------------------------------ MODULE Calibrator ------------------------------
(***************************************************************************)
(* calibrator: from the windows of get_latencies and measures of how long  *)
(* phrases take to decode, the time model of an encoder.  What a clock     *)
(* measures is any number; times of the model are in 64ths of their unit,  *)
(* so that a share of a cache line is a whole number.                      *)
(***************************************************************************)
EXTENDS CostModels, Latencies, FiniteSetsExt

cache_line == 64
(* bmp_bench, lit_pen_time: what n phrases take above what is expected. *)
PerPhrase(spent, expected, n) == IF spent < expected THEN 0 ELSE (spent - expected) \div n

-------------------------------------------------------------------------------
(* reduce_tm: rows, then columns, within a tenth of the first of a group   *)
(* are replaced by it.                                                     *)
Close(x, y) == 10 * Max({x, y}) <= 11 * Min({x, y})
row_equal(cm, r, s) == \A col \in DOMAIN cm[r] : Close(cm[r][col], cm[s][col])

find_equalChained(cm) ==                                                \* mutant
  LET alike == {r \in 1 .. (Len(cm) - 1) : row_equal(cm, r, r + 1)}
      first == Min(alike)
      unlike == {r \in (first + 1) .. Len(cm) : ~ row_equal(cm, r - 1, r)}
  IN  IF alike = {} THEN <<0, 0>> ELSE <<first, Min(unlike \union {Len(cm) + 1})>>
(* The first row like the next one, and the first one after it unlike it. *)
find_equal(cm) ==
  LET alike == {r \in 1 .. (Len(cm) - 1) : row_equal(cm, r, r + 1)}
      first == Min(alike)
      unlike == {r \in (first + 1) .. Len(cm) : ~ row_equal(cm, first, r)}
  IN  IF alike = {} THEN <<0, 0>> ELSE <<first, Min(unlike \union {Len(cm) + 1})>>

collapse(m, first, end) ==
  [cm |-> SubSeq(m.cm, 1, first) \o SubSeq(m.cm, end, Len(m.cm)),
   labels |-> SubSeq(m.labels, 1, first - 1) \o SubSeq(m.labels, end - 1, Len(m.labels))]

(* Each turn of the loop removes a row; once none is found nothing changes.*)
ReduceOnce(m) ==
  LET found == find_equal(m.cm)
  IN  IF found[2] <= found[1] + 1 THEN m ELSE collapse(m, found[1], found[2])
reduce_matrix(m) ==
  LET after[n \in Nat] == IF n = 0 THEN m ELSE ReduceOnce(after[n - 1])
  IN  after[Len(m.cm)]

Transposed(cm) == [j \in DOMAIN cm[1] |-> [i \in DOMAIN cm |-> cm[i][j]]]

reduce_tm(tm) ==
  LET rows == reduce_matrix([cm |-> tm.cm, labels |-> tm.dsts])
      columns == reduce_matrix([cm |-> Transposed(rows.cm), labels |-> tm.lens])
  IN  [cm |-> Transposed(columns.cm), dsts |-> rows.labels, lens |-> columns.labels]

-------------------------------------------------------------------------------
(* literal_decode_time: a text of one_gig symbols is decoded from runs as  *)
(* long as they may be and from runs four times shorter.  DecodeTime is    *)
(* what it takes when a run takes fix and each symbol of it var.           *)
min_lit == 4
UniformRuns(lit_len, text_len) ==
  [k \in 1 .. ((text_len + lit_len - 1) \div lit_len) |->
    Min({lit_len, text_len - (k - 1) * lit_len})]
DecodeTime(runs, fix, var) ==
  LET time[n \in 0 .. Len(runs)] == IF n = 0 THEN 0 ELSE time[n - 1] + fix + runs[n] * var
  IN  time[Len(runs)]

literal_decode_time(max_lit_len, one_gig, fix, var) ==
  LET l_2 == one_gig \div max_lit_len
      l_1 == min_lit * l_2
      Time(lit_len) == DecodeTime(UniformRuns(lit_len, one_gig), fix, var)
      fix_cost == (Time(one_gig \div l_1) - Time(max_lit_len)) \div (l_1 - l_2)
  IN  IF max_lit_len <= min_lit
      THEN [fix |-> (max_lit_len * Time(max_lit_len)) \div one_gig, var |-> 0]
      ELSE [fix |-> fix_cost, var |-> (Time(one_gig \div l_1) - l_1 * fix_cost) \div one_gig]

-------------------------------------------------------------------------------
(* get_cm.  Windows are in kilobytes, and end with the encoder's distances.*)
InBytes(latencies) ==
  [k \in DOMAIN latencies |->
    Window(1024 * (IF k = Len(latencies) THEN Min({latencies[k].dist, MaxUnsigned \div 1024})
                   ELSE latencies[k].dist), latencies[k].latency)]
Ends(windows) == [k \in DOMAIN windows |-> windows[k].dist]
Prune(latencies, dst_max) ==
  LET ptr == 1 + LowerBound(Ends(latencies), dst_max)
  IN  [SubSeq(latencies, 1, ptr) EXCEPT ![ptr].dist = dst_max]

(* The lengths where a copy is likelier to be on one more cache line; the  *)
(* factor is in eighths, and how many lines a copy is on in 64ths.         *)
LineLengths(max_factor) == [i \in 1 .. (max_factor - 9) |-> 8 * i]
Lines(max_factor, length) == Min({8 * max_factor, cache_line + length})

IndexOf(v, x) == LowerBound(v, x) + 1
(* From the end of the class before to that of the class. *)
Spans(ends, labels, k) ==
  (IF k = 1 THEN 1 ELSE IndexOf(ends, labels[k - 1])) .. IndexOf(ends, labels[k])

MissesLate(windows, dst) ==                                             \* mutant
  MapThenSumSet(LAMBDA k : windows[k].latency,
    {k \in DOMAIN windows : (k = 1 \/ windows[k - 1].dist <= dst) /\ dst <= windows[k].dist})
(* The windows with some of their distances in the class that ends at dst. *)
Misses(windows, dst) ==
  MapThenSumSet(LAMBDA k : windows[k].latency,
    {k \in DOMAIN windows : (k = 1 \/ windows[k - 1].dist < dst) /\ dst <= windows[k].dist})

get_cm(latencies, copy_time, tm, lit, bmp_time, lit_penalty_time, max_factor) ==
  LET windows == Prune(InBytes(latencies), Last(tm.dsts))
      dst == FuseEnds(tm.dsts, Ends(windows))
      len == FuseEnds(tm.lens, LineLengths(max_factor))
      Decode(i, j) ==
        MapThenSumSet(LAMBDA c : tm.cm[c[1]][c[2]],
          {c \in (DOMAIN tm.dsts) \X (DOMAIN tm.lens) :
             i \in Spans(dst, tm.dsts, c[1]) /\ j \in Spans(len, tm.lens, c[2])})
  IN  CostModel(dst, len,
        [i \in DOMAIN dst |-> [j \in DOMAIN len |->
          64 * (bmp_time + Decode(i, j)) + Lines(max_factor, len[j]) * Misses(windows, dst[i])]],
        64 * (lit.fix + lit_penalty_time + bmp_time), 64 * (lit.var - copy_time), 64 * copy_time)
===============================================================================
