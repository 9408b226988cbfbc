--------------------------- MODULE MCParsingStream ---------------------------
(* Instances of ParsingStream for TLC: texts with copies that overlap and  *)
(* with copies at every distance below, at and above a word.               *)
EXTENDS ParsingStreamProofs

Letters == {"a", "b", "c", "d", "e"}
SomeTexts == {<<"a", "a", "a", "a", "a">>,
              <<"a", "b", "a", "b", "a", "b">>,
              <<"a", "b", "c", "a", "b", "c", "a">>,
              <<"a", "b", "c", "d", "a", "b", "c", "d">>,
              <<"a", "b", "c", "d", "e", "a", "b", "c">>}

(* All the parsings of t, built from the start of the text. *)
ParsingsOf(t) ==
  LET Phrases(n, ell) == {e \in [d : 0 .. n, ell : {ell}] : e.d = 0 \/ Copies(t, n, e)}
      upto[n \in 0 .. Len(t)] ==   \* of the first n symbols
        IF n = 0 THEN {<<>>}
        ELSE UNION {{[k \in DOMAIN p \union {n - ell} |-> IF k = n - ell THEN e ELSE p[k]]
                     : p \in upto[n - ell], e \in Phrases(n - ell, ell)} : ell \in 1 .. n}
  IN  upto[Len(t)]

SomeParsings == UNION {{[text |-> t, sol |-> p] : p \in ParsingsOf(t)} : t \in SomeTexts}
===============================================================================
