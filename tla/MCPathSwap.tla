------------------------------ MODULE MCPathSwap ------------------------------
(* Instances of PathSwap for TLC: every pair of parsings of a small text   *)
(* that straddles the bound as the dual basis does.                        *)
EXTENDS PathSwapProofs

(* Texts as sequences of symbols, and their phrases: literal runs, and     *)
(* copies of what stands d symbols before.                                 *)
Texts == {<<"a", "a", "a", "b", "a">>, <<"a", "a", "b", "a", "b">>}

PhrasesAt(text, i) ==
  {e \in Phrase : /\ i + e.ell <= L
                  /\ e.d <= i
                  /\ e.d > 0 => \A k \in 1 .. e.ell : text[i + k] = text[i + k - e.d]}

(* A literal run is cheap to decode and costs space; a far copy is dear to *)
(* decode, a near one costs a little more space.                           *)
SpaceCM == [d \in 0 .. MaxDst |->
              [ell \in 1 .. MaxLen |-> CASE d = 0 -> 2 + 3 * ell [] d = 1 -> 4 [] OTHER -> 3]]
TimeCM == [d \in 0 .. MaxDst |->
             [ell \in 1 .. MaxLen |-> CASE d = 0 -> 1 + ell [] d = 1 -> 2 [] OTHER -> 4]]

(* Every parsing of a text with its cost and weight, built from the end of the text. *)
Priced(text) ==
  LET f[i \in 0 .. L] ==   \* of the last i symbols
        IF i = 0 THEN {[p |-> <<>>, cw |-> EdgeCW(0, 0)]}
        ELSE UNION {LET at == L - i IN
                    {[p  |-> [j \in DOMAIN q.p \union {at} |-> IF j = at THEN e ELSE q.p[j]],
                      cw |-> Plus(EdgeCW(e.d, e.ell), q.cw)] : q \in f[i - e.ell]}
                    : e \in PhrasesAt(text, L - i)}
  IN  f[L]

(* extra is by how much the recorded weight of the left parsing exceeds    *)
(* the weight it was generated again with.                                 *)
Straddling(text, extra, padded) ==
  LET parsings == Priced(text)
      recorded(l) == [cost |-> l.cw.cost, weight |-> l.cw.weight + extra]
      pairs == {lr \in parsings \X parsings :
                  /\ lr[1].cw.cost <= lr[2].cw.cost
                  /\ lr[1].cw.weight + extra > lr[2].cw.weight}
      Input(l, r, w) ==
        [base  |-> [s \in Side |-> IF s = 0 THEN l.p ELSE r.p],
         total |-> [s \in Side |-> IF s = 0 THEN recorded(l) ELSE r.cw],
         W |-> w, padded |-> padded]
  IN  UNION {{Input(lr[1], lr[2], w)
                : w \in {lr[2].cw.weight, lr[1].cw.weight + extra - 1}} : lr \in pairs}

FreeInputs   == UNION {Straddling(text, 0, FALSE) : text \in Texts}
PaddedInputs == UNION {Straddling(text, 2, TRUE) : text \in Texts}
AllInputs    == FreeInputs \union PaddedInputs
===============================================================================
