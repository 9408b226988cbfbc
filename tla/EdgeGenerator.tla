---------------------------- MODULE EdgeGenerator ----------------------------
(***************************************************************************)
(* What the parser expects of any generator of edges: at each position, in *)
(* order, some set of copies that no copy of the graph improves on.  Which *)
(* distance of a class it gives is its choice.  The generators of fsg.hpp  *)
(* and fast_fsg.hpp implement this specification.                          *)
(***************************************************************************)
EXTENDS Naturals, Sequences

CONSTANT Offers(_, _, _)    \* whether these edges will do at a position

VARIABLES
  text,         \* a sequence of symbols, never changed
  text_pos,     \* the next position to generate
  edges         \* the edges of the last position generated

vars == <<text, text_pos, edges>>

Init == text_pos = 0 /\ edges = <<>>

(* gen_next: false, and no change, once the text is over. *)
GenNext ==
  /\ text_pos < Len(text)
  /\ Offers(text, text_pos, edges')
  /\ text_pos' = text_pos + 1
  /\ UNCHANGED text

Spec == Init /\ [][GenNext]_vars
===============================================================================
