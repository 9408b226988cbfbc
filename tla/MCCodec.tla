------------------------------- MODULE MCCodec -------------------------------
(* Phrases at the boundaries of the classes of every encoder.              *)
EXTENDS Codec

Copy(d, l) == [dst |-> d, len |-> l, run |-> <<>>, next |-> 0]
Run(run, n) == [dst |-> 0, len |-> Len(run), run |-> run, next |-> n]
Counts == {1, 2130771969}

(* The first and the last value of each class. *)
Edges(win) == {win[i] : i \in DOMAIN win} \union {win[i] + 1 : i \in 1 .. (Len(win) - 1)} \union {1}
EdgeCopies(c) ==
  LET info == get_info(c)
  IN  {Copy(d, l) : d \in Edges(info.dst.win), l \in {1, info.len.win[2]}}
        \union {Copy(d, l) : d \in {info.dst.win[1]}, l \in Edges(info.len.win)}

Short == <<165>>
Runs(c) ==
  {Run(Short, n) : n \in Counts}
    \union (IF c.range = 0 THEN {} ELSE {Run(<<129, 126, 255>>, 2130771969)})
Longest(c) == Run([i \in 1 .. max_length(c) |-> IF i % 2 = 0 THEN 90 ELSE 255], 1)

Parsings(c) ==
  {<<Run(Short, 1), copy, run>> : copy \in EdgeCopies(c), run \in Runs(c)}
    \union {<<Run(Short, 2), copy, Copy(1, 1)>> : copy \in EdgeCopies(c)}
    \union (IF c.range = 1 THEN {<<Run(Short, 1), Copy(3, 9), Longest(c), Copy(1, 1)>>} ELSE {})

Coders == {encoders_[i] : i \in DOMAIN encoders_}
Ask(via, gen, dst, c, ps) == [via |-> via, generator |-> gen, dst |-> dst, coder |-> c.name, phrases |-> ps]
Windows(c) == get_info(c).dst.win
Tiny == <<Run(Short, 1), Copy(1, 1)>>

Compressions == UNION {{Ask("file", "", Windows(c), c, ps) : ps \in Parsings(c)} : c \in Coders}
Interfaces == {Ask(via, "", Windows(c), c, Tiny) : via \in {"full", "buffer"}, c \in Coders}
AskedByName == {Ask("file", gen, Windows(c), c, Tiny) : gen \in generators_, c \in Coders}

(* Models of up to four classes, the last one perhaps without a bound. *)
Lists(n) == {d \in [1 .. n -> 1 .. 8 \union {Unbounded}] : \A i \in 1 .. (n - 1) : d[i] < d[i + 1]}
Emulations ==
  {Ask("emulate", gen, d, encoders_[1], <<>>) : gen \in generators_ \union {""}, d \in UNION {Lists(n) : n \in 1 .. 4}}

AllRequests == Compressions \union Interfaces \union AskedByName \union Emulations
===============================================================================
