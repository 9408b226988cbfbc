----------------------------- MODULE MCIntegrator -----------------------------
(* Instances of Integrator for TLC: texts where a class of distances has   *)
(* several matches as long, lengths that come back at later positions, and *)
(* levels skipped where a match keeps shrinking.                           *)
EXTENDS Integrator

Near  == <<1, 3, 6>>
Short == <<2, 4>>

TwoLetters == {t \in [1 .. 8 -> {"a", "b"}] : t[1] = "a"}
Repetitive == {<<"a", "a", "a", "a", "a", "a", "a", "a", "a">>,
               <<"a", "b", "a", "b", "a", "b", "a", "b", "a">>,
               <<"a", "b", "c", "a", "a", "b", "c", "a", "b">>,
               <<"b", "a", "a", "a", "a", "b", "a", "a", "a">>}
AllTexts == TwoLetters \union Repetitive
===============================================================================
