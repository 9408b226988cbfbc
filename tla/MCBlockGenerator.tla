--------------------------- MODULE MCBlockGenerator ---------------------------
(* Instances of BlockGenerator for TLC. *)
EXTENDS BlockGenerator

(* Classes twice as large each, whose blocks are not aligned with those    *)
(* behind them; and classes of one size.                                   *)
Uneven == <<1, 3, 7, 15>>
Equal == <<2, 4, 6, 8>>

Short == <<1, 2, 3>>
Letters == [1 .. 9 -> {"a", "b"}]
(* Longer ones, where three classes are served by the blocks of one; none  *)
(* is longer than the last distance.                                       *)
Repeated(word) == word \o word \o word
LettersAndLong == Letters \union {Repeated(word) : word \in [1 .. 4 -> {"a", "b"}]}
===============================================================================
