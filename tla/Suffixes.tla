------------------------------- MODULE Suffixes -------------------------------
(***************************************************************************)
(* Texts and their suffixes.  A text is a sequence of symbols, a position  *)
(* counts from 0, and the rank of a position is that of its suffix: isa is *)
(* what get_isa makes of the suffix array.                                 *)
(***************************************************************************)
EXTENDS Integers, Sequences, FiniteSets, FiniteSetsExt

Symbols == <<"a", "b", "c", "d">>

(* How many symbols the suffixes from positions i and j have in common. *)
CommonPrefix(t, i, j) ==
  LET last == IF i > j THEN i ELSE j
      Same(n) == \A m \in 1 .. n : t[i + m] = t[j + m]
  IN  Max({0} \union {n \in 1 .. (Len(t) - last) : Same(n)})
Order(symbol) == CHOOSE k \in DOMAIN Symbols : Symbols[k] = symbol
Before(t, i, j) ==
  LET n == CommonPrefix(t, i, j) IN
  /\ j + n < Len(t)
  /\ i + n = Len(t) \/ Order(t[i + n + 1]) < Order(t[j + n + 1])
Ranks(t) == [i \in 0 .. (Len(t) - 1) |-> Cardinality({j \in 0 .. (Len(t) - 1) : Before(t, j, i)})]
===============================================================================
