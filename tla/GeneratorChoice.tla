--------------------------- MODULE GeneratorChoice ---------------------------
(***************************************************************************)
(* Which generator can serve a list of distances, and which one is         *)
(* suggested for it.  The sizes of the classes tell: fast generators need  *)
(* sizes that are multiples of one another, or all the same.               *)
(***************************************************************************)
EXTENDS Integers, Sequences, FiniteSetsExt, SequencesExt

GENERIC == "GENERIC"
ALL_SAME == "ALL_SAME"
MULTIPLE == "MULTIPLE"
Unbounded == 2147483647    \* the largest distance a list may end in

-------------------------------------------------------------------------------
Sizes(dst) == [i \in DOMAIN dst |-> IF i = 1 THEN dst[1] ELSE dst[i] - dst[i - 1]]

(* The loop over pairs of sizes: it stops at the first that rules out      *)
(* multiples, or at two equal sizes after the first pair.                  *)
Pairs(sizes) == 1 .. (Len(sizes) - 1)
Uneven(sizes, i) == sizes[i + 1] < sizes[i] \/ sizes[i + 1] % sizes[i] # 0
Level(sizes, i) == sizes[i + 1] = sizes[i] /\ i > 1
KindOfSizes(sizes) ==
  LET stops == {i \in Pairs(sizes) : Uneven(sizes, i) \/ Level(sizes, i)}
  IN  IF stops = {} THEN MULTIPLE
      ELSE IF Level(sizes, Min(stops)) /\ \A i \in Pairs(sizes) : sizes[i + 1] = sizes[i] THEN ALL_SAME
      ELSE GENERIC
get_kind(dst) ==
  IF Len(dst) = 1 THEN ALL_SAME
  ELSE KindOfSizes(Sizes(IF Last(dst) = Unbounded THEN Front(dst) ELSE dst))

compatible(cm_kind, gen_kind) == gen_kind = GENERIC \/ cm_kind = gen_kind

-------------------------------------------------------------------------------
(* The registry, and the kind each generator is for.                       *)
generators_ == {"fsg", "fast_fsg", "gen_fast_fsg", "same_fsg", "fixed_fsg"}
GeneratorKind(name) ==
  IF name \in {"fast_fsg", "fixed_fsg"} THEN MULTIPLE
  ELSE IF name = "same_fsg" THEN ALL_SAME
  ELSE GENERIC

suggest_fast(kind) == IF kind = GENERIC THEN "fsg" ELSE "fast_fsg"      \* mutant
suggest_gen(kind) ==
  IF kind = GENERIC THEN "fsg" ELSE IF kind = ALL_SAME THEN "same_fsg" ELSE "fast_fsg"

(* instantiate throws a mismatch unless it serves. *)
Serves(generator, dst) == compatible(get_kind(dst), GeneratorKind(generator))
===============================================================================
