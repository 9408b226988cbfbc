--------------------------- MODULE MCOptimalParser ---------------------------
(* Instances of OptimalParser for TLC. *)
EXTENDS OptimalParser

Near  == <<1, 2, 4>>
Short == <<2, 3, 5>>

(* Texts of two symbols, up to exchanging them. *)
Texts(n) == {t \in [1 .. n -> {"a", "b"}] : t[1] = "a"}

CM(matrix, fixed, var) == [copy |-> matrix, lit_fixed |-> fixed, lit_var |-> var]

(* An encoder: the bits of a class.  A machine: the latency of a distance. *)
Space == CM(<<<<4, 6, 6>>, <<5, 7, 7>>, <<6, 8, 8>>>>, 2, 3)
Time  == CM(<<<<1, 1, 1>>, <<1, 1, 1>>, <<5, 5, 5>>>>, 1, 0)
(* Many parsings cost the same; a literal run costs nothing to start. *)
Ties  == CM(<<<<2, 2, 2>>, <<2, 2, 2>>, <<2, 2, 2>>>>, 0, 1)
NoModel == CM(<<<<0, 0, 0>>, <<0, 0, 0>>, <<0, 0, 0>>>>, 0, 0)
(* Not monotone: the optimum is not promised. *)
Erratic == CM(<<<<5, 2, 7>>, <<1, 6, 3>>, <<4, 0, 2>>>>, 0, 2)

Mono == {<<Space, Time>>, <<Time, Space>>, <<Ties, Space>>, <<Space, NoModel>>}
JobsOn(texts, models, windows, buckets, rightmost) ==
  {[text |-> t, cost |-> m[1], weight |-> m[2], window |-> w, bucket |-> b, rightmost |-> r]
     : t \in texts, m \in models, w \in windows, b \in buckets, r \in rightmost}
(* A bucket of the whole text; two buckets, the last one shorter.          *)
ShortJobs ==
  JobsOn(Texts(7), Mono \union {<<Erratic, Time>>}, {1, 3}, {8}, {FALSE})
  \union JobsOn(Texts(7), {<<Space, Time>>}, {3}, {4}, {FALSE})
  \union JobsOn(Texts(7), {<<Time, Space>>}, {3}, {4, 8}, {TRUE})
===============================================================================
