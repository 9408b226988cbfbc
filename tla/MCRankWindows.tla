---------------------------- MODULE MCRankWindows ----------------------------
(* Instances of RankWindows for TLC. *)
EXTENDS RankWindows

(* Two classes with trees, of four positions and of one, and two classes   *)
(* with bitmaps of four levels; the last one ends before the text.         *)
Classes == <<4, 5, 8, 10>>
Short == <<1, 2, 4>>
Letters == {s \in [1 .. 12 -> {"a", "b"}] : s[1] = "a"}
===============================================================================
