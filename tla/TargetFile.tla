------------------------------ MODULE TargetFile ------------------------------
(***************************************************************************)
(* A target: the time models of one machine, a section for each encoder.   *)
(* A line is a title or a row of numbers, which are written in full.       *)
(***************************************************************************)
EXTENDS CostModels

Title(name) == [title |-> name, row |-> <<>>]
Row(numbers) == [title |-> "", row |-> numbers]
IsTitle(line) == line.title # ""

NoModel == [dst |-> <<>>]

SerializeDelta(wm) ==                                                   \* mutant
  <<wm.dst, wm.len>> \o wm.copy \o
  <<<<LitCost(wm, 0)>>, <<LitCost(wm, 1) - LitCost(wm, 0)>>, <<wm.per_char>>>>
(* The variable cost of literals is written with the cost per character    *)
(* in it, and read without.                                                *)
wm_serialize(wm) ==
  <<wm.dst, wm.len>> \o wm.copy \o
  <<<<LitCost(wm, 0)>>, <<wm.per_char + LitCost(wm, 1) - LitCost(wm, 0)>>, <<wm.per_char>>>>

wm_unserialize(rows) ==
  LET dst == rows[1]  len == rows[2]
      copy == SubSeq(rows, 3, 2 + Len(dst))
      Number(k) == Head(rows[2 + Len(dst) + k])
  IN  IF \E i \in DOMAIN copy : Len(copy[i]) # Len(len) THEN NoModel
      ELSE CostModel(dst, len, copy, Number(1), Number(2) - Number(3), Number(3))

(* The rows after the title with that name, up to the next title. *)
read_field(file, name) ==
  LET start == SelectInSeq(file, LAMBDA line : line.title = name)
      next == SelectInSubSeq(file, start + 1, Len(file), IsTitle)
      lines == SubSeq(file, start + 1, IF next = 0 THEN Len(file) ELSE next - 1)
  IN  IF start = 0 THEN <<>> ELSE [k \in DOMAIN lines |-> lines[k].row]

(* get_wm: NoModel when it throws. *)
get_wm(file, name) ==
  LET rows == read_field(file, name) IN IF rows = <<>> THEN NoModel ELSE wm_unserialize(rows)
===============================================================================
