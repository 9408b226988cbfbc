---------------------------- MODULE MCCalibration ----------------------------
(* Instances of Calibration for TLC: the hybrid encoder, with runs of one  *)
(* symbol, of up to 15, that do not divide the text, and of up to 16, on   *)
(* machines of two and three levels of memory.                             *)
EXTENDS Calibration

HybridDst == <<64, 16384, 4194304, 1073741824>>
HybridLen == <<128, 32768>>
HybridCosts == SumMatrix([win |-> HybridDst, costs |-> <<8, 16, 24, 32>>],
                         [win |-> HybridLen, costs |-> <<8, 16>>])
Hybrid(literal_len) ==
  [name |-> "hybrid", literal_len |-> literal_len,
   cm |-> CostModel(HybridDst, HybridLen, HybridCosts, 48, 8, 0)]

(* Distances of the probes of lmbench, in thousandths of its unit. *)
Dists == <<0, 1, 2, 3, 5, 7, 11, 15, 23, 31, 46, 62, 93, 125, 187, 250, 375,
           500, 750, 1000, 1500, 2000>>

Machine(caches, far) ==
  [caches |-> caches, far |-> far, fix |-> 8, var |-> 1, bmp |-> 2, penalty |-> 1]
ThreeLevels == Machine(<<Window(8, 10), Window(64, 40), Window(MaxUnsigned, 100)>>, 0)
FarMemory   == Machine(<<Window(8, 10), Window(64, 40), Window(MaxUnsigned, 100)>>, 20)
TwoLevels   == Machine(<<Window(48, 10), Window(MaxUnsigned, 64)>>, 0)
AllSetups == {[machine |-> ThreeLevels, encoder |-> Hybrid(16)],
              [machine |-> FarMemory, encoder |-> Hybrid(1)],
              [machine |-> TwoLevels, encoder |-> Hybrid(16)],
              [machine |-> TwoLevels, encoder |-> Hybrid(15)]}

(* A probe takes the latency of its cache, or one between it and the next  *)
(* one's when it is the first past a boundary, at times no whole           *)
(* nanosecond nearer to the next; far memory may be slower.                *)
CacheOf(m, dist) == Min({k \in DOMAIN m.caches : dist <= m.caches[k].dist})
Answer(m, n, tenths) ==
  LET k == CacheOf(m, Dists[n])  here == m.caches[k].latency
  IN  IF n > 1 /\ CacheOf(m, Dists[n - 1]) < k
      THEN m.caches[k - 1].latency + (tenths[k] * (here - m.caches[k - 1].latency)) \div 10
      ELSE IF Dists[n] > 375 THEN here + m.far ELSE here
LmbenchProbes(m) ==
  {[n \in DOMAIN Dists |-> Probe(Dists[n], Answer(m, n, tenths))] :
    tenths \in [DOMAIN m.caches -> {2, 6, 8, 10}]}

(* The two farthest classes of distances decode alike; the others may be   *)
(* close for one length or both, and close to a class close to another.    *)
SomeMatrices ==
  {<<a, b, c, c>> : a \in {<<20, 22>>, <<20, 24>>}, b \in {<<22, 22>>, <<22, 24>>, <<24, 20>>},
                    c \in [1 .. 2 -> {22, 24, 26}]}
OtherSection == Section("nibble", <<<<8>>, <<8>>, <<4>>, <<1>>, <<1>>, <<0>>>>)
OtherSections == {[before |-> <<>>, after |-> OtherSection],
                  [before |-> OtherSection, after |-> <<>>]}
SomeLambdas == {1, 2}
===============================================================================
