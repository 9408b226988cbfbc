----------------------------- MODULE MCBicriteria -----------------------------
(* Instances of Bicriteria for TLC. *)
EXTENDS Bicriteria, FiniteSets

P(space, time) == [space |-> space, time |-> time]
Grid(n, m) == {P(s, t) : s \in 1 .. n, t \in 1 .. m}

Fixed(t, w) == [type |-> t, kind |-> "fixed", level |-> [num |-> w, den |-> 1]]
Relative(t, num, den) ==
  [type |-> t, kind |-> "relative", level |-> [num |-> num, den |-> den]]

(* Every file of up to three parsings on a grid of values; and files with  *)
(* long lower hulls and ties at both ends, for which many multipliers are  *)
(* solved and the compressed cache evicts.                                 *)
SmallFiles == {{a, b, c} : a, b, c \in Grid(3, 3)}
HullFiles == {
  {P(1, 30), P(2, 20), P(4, 12), P(7, 6), P(12, 2), P(18, 1)},
  {P(1, 16), P(1, 20), P(2, 11), P(4, 7), P(7, 4), P(11, 2), P(16, 1), P(20, 1)},
  {P(5, 23), P(6, 18), P(9, 13), P(10, 14), P(14, 10), P(15, 9), P(22, 5)} }

(* Fixed bounds, below the least value and above the largest included. *)
OneFixedBound(max) == {<<Fixed(t, w)>> : t \in BoundType, w \in 0 .. max}

(* Two or three bounds of both kinds on one compressor; files with ties    *)
(* and with a parsing no model is optimal for.                             *)
TiedFiles == {
  {P(1, 16), P(1, 20), P(2, 11), P(4, 7), P(7, 4), P(16, 1), P(20, 1), P(2, 40)},
  {P(3, 9), P(3, 10), P(5, 5), P(6, 6), P(9, 3), P(12, 3), P(13, 12)} }
ManyBounds ==
  {<<Relative(j, 1, 4), Relative(k, m, 4)>> : j, k \in BoundType, m \in {0, 1, 3, 4}}
  \union {<<Fixed("SPACE", 5), Fixed("TIME", t), Relative("SPACE", 1, 2)>> : t \in {2, 4}}

Asked(files, lists) == [file : files, bounds : lists]

(* A weight-optimal parsing far costlier than the cost-optimal one: phi'   *)
(* is negative, and the loop ends before the basis is optimal.             *)
SteepFile == {{P(20, 10), P(21, 5), P(22, 3), P(60, 1)}}

(* A hull so flat that a basis may be within the gap and not the optimal   *)
(* one, as on files whose values are far above the inverse of the gap.     *)
FlatFile == {{P(50, 120), P(60, 100), P(70, 84), P(80, 72), P(90, 64), P(100, 60)}}
FlatBounds ==
  {<<Fixed("TIME", t)>> : t \in 60 .. 119} \union {<<Fixed("TIME", 66), Fixed("SPACE", 62)>>}

AllCommands ==
  Asked(SmallFiles, OneFixedBound(4)) \union Asked(HullFiles, OneFixedBound(24))
  \union Asked(TiedFiles, ManyBounds)
  \union Asked(SteepFile, {<<Fixed("TIME", 9)>>}) \union Asked(FlatFile, FlatBounds)

(* Two time-optimal parsings, and a space bound the larger one exceeds.    *)
TiedFile == {{P(2, 6), P(4, 3), P(5, 3)}}
TiedCommands == Asked(TiedFile, {<<Relative("TIME", 1, 2), Fixed("SPACE", 4)>>})

(* The 1e-6 of the code, as much coarser as these files are smaller.       *)
SomeEps == [num |-> 1, den |-> 20]
===============================================================================
