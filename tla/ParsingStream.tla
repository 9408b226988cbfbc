---------------------------- MODULE ParsingStream ----------------------------
(***************************************************************************)
(* A compressed parsing and those who read it.  write_parsing encodes the  *)
(* phrases of a solution; nothing tells a copy from a literal run in the   *)
(* stream but a count each run carries, of the copies before the next run. *)
(* fix_parsing restores wrong counts, and decompress rebuilds the text by  *)
(* copies that move a machine word at a time, overlapping what they write. *)
(***************************************************************************)
EXTENDS Integers, Sequences

CONSTANTS
  Symbols,      \* bytes of a text
  Parsings,     \* texts, each with a parsing of it
  Word,         \* bytes moved at a time: 8 in the code, less in the model
  WrongCount    \* a count of a parsing "glued" from others

VARIABLES
  text, sol,    \* the text, and its phrases by where they start
  pc,           \* who is at work, and where in a loop
  i, j, count,  \* of write_parsing: a phrase, one after it, the copies between
  stream,       \* what write_parsing encodes, a code for each phrase
  glued,        \* the same with wrong counts, given to fix_parsing
  fixed,        \* what fix_parsing encodes
  lits, lit,    \* the true counts, and how many fix_parsing has used
  at,           \* the code the phrase reader or the decoder is at
  text_pos, next_literal,   \* of phrase_reader; next_literal of decompress too
  mem, output,  \* the buffer decompress fills, from 0, and its head
  op, src, len  \* of copy_fast; len may be negative

writing == <<i, j, count, stream>>
reading == <<at, text_pos, next_literal>>
copying == <<op, src, len>>
decoding == <<mem, output, copying>>
vars == <<text, sol, pc, writing, glued, fixed, lits, lit, reading, decoding>>

L == Len(text)

-------------------------------------------------------------------------------
(* A solution: the phrases met from 0 to the end of the text, literal runs *)
(* (d is 0) and copies of the text d symbols before.                       *)
Copies(t, n, e) == e.d \in 1 .. n /\ \A k \in 1 .. e.ell : t[n + k] = t[n + k - e.d]
IsParsing(t, p) ==
  /\ 0 \in DOMAIN p
  /\ \A n \in DOMAIN p : /\ n \in 0 .. (Len(t) - 1)
                         /\ p[n] \in [d : Nat, ell : Nat \ {0}]
                         /\ n + p[n].ell \in DOMAIN p \union {Len(t)}
                         /\ p[n].d > 0 => Copies(t, n, p[n])

ASSUME ParsingsAssumption ==
  \A in \in Parsings : in.text \in Seq(Symbols) /\ IsParsing(in.text, in.sol)
ASSUME WordAssumption == Word \in Nat \ {0} /\ WrongCount \in Nat

-------------------------------------------------------------------------------
(* Codes.                                                                  *)
IsRun(code) == code.d = 0
Copy(e) == [d |-> e.d, ell |-> e.ell, data |-> <<>>, next |-> 0]
Run(data, next) == [d |-> 0, ell |-> Len(data), data |-> data, next |-> next]

Cells == 0 .. (L + 3 * Word)
Free == "free"                         \* what a buffer holds before it is written

Init ==
  /\ \E in \in Parsings : text = in.text /\ sol = in.sol
  /\ pc = "write"
  /\ i = 0 /\ j = 0 /\ count = 0
  /\ stream = <<>> /\ glued = <<>> /\ fixed = <<>> /\ lits = <<>> /\ lit = 0
  /\ at = 1 /\ text_pos = 0 /\ next_literal = 0
  /\ mem = [p \in Cells |-> Free] /\ output = 0
  /\ op = 0 /\ src = 0 /\ len = 0

(* write_parsing: a run is written with the copies between it and the next *)
(* run, and one more when there is none.                                   *)
CountFrom ==
  /\ pc = "write" /\ i < L /\ sol[i].d = 0
  /\ pc' = "count" /\ j' = i + sol[i].ell /\ count' = 0
  /\ UNCHANGED <<text, sol, i, stream, glued, fixed, lits, lit, reading, decoding>>

CountCopy ==
  /\ pc = "count" /\ j < L /\ sol[j].d > 0
  /\ j' = j + sol[j].ell /\ count' = count + 1
  /\ UNCHANGED <<text, sol, pc, i, stream, glued, fixed, lits, lit, reading, decoding>>

WriteCounted ==                                                         \* mutant
  /\ pc = "count" /\ (j < L => sol[j].d = 0)
  /\ stream' = Append(stream, Run(SubSeq(text, i + 1, i + sol[i].ell), count))
  /\ i' = i + sol[i].ell /\ pc' = "write"
  /\ UNCHANGED <<text, sol, j, count, glued, fixed, lits, lit, reading, decoding>>
WriteRun ==
  /\ pc = "count" /\ (j < L => sol[j].d = 0)
  /\ LET nextliteral == IF j >= L THEN count + 1 ELSE count
     IN  stream' = Append(stream, Run(SubSeq(text, i + 1, i + sol[i].ell), nextliteral))
  /\ i' = i + sol[i].ell /\ pc' = "write"
  /\ UNCHANGED <<text, sol, j, count, glued, fixed, lits, lit, reading, decoding>>

WriteCopy ==
  /\ pc = "write" /\ i < L /\ sol[i].d > 0
  /\ stream' = Append(stream, Copy(sol[i]))
  /\ i' = i + sol[i].ell
  /\ UNCHANGED <<text, sol, pc, j, count, glued, fixed, lits, lit, reading, decoding>>

-------------------------------------------------------------------------------
(* phrase_reader: a copy while the count lasts, then a run and its count.  *)
ReaderEnd == text_pos >= L
NewReader == at' = 1 /\ text_pos' = 0 /\ next_literal' = 0

ReadCopy(codes) ==
  /\ ~ ReaderEnd /\ next_literal > 0 /\ ~ IsRun(codes[at])
  /\ next_literal' = next_literal - 1
  /\ text_pos' = text_pos + codes[at].ell /\ at' = at + 1

ReadRun(codes, next) ==
  /\ ~ ReaderEnd /\ ~ next_literal > 0 /\ IsRun(codes[at])
  /\ next_literal' = next
  /\ text_pos' = text_pos + codes[at].ell /\ at' = at + 1

(* write_parsing returns; a client of the API reads the phrases back,      *)
(* writes them with a count of its own on each run, keeps the true counts  *)
(* aside and calls fix_parsing on both.                                    *)
Written ==
  /\ pc = "write" /\ i >= L
  /\ pc' = "glue" /\ NewReader
  /\ UNCHANGED <<text, sol, writing, glued, fixed, lits, lit, decoding>>

GlueCopy ==
  /\ pc = "glue" /\ ReadCopy(stream)
  /\ glued' = Append(glued, Copy(stream[at]))
  /\ UNCHANGED <<text, sol, pc, writing, fixed, lits, lit, decoding>>

GlueRun ==
  /\ pc = "glue" /\ ReadRun(stream, stream[at].next)
  /\ glued' = Append(glued, Run(stream[at].data, WrongCount))
  /\ lits' = Append(lits, stream[at].next)
  /\ UNCHANGED <<text, sol, pc, writing, fixed, lit, decoding>>

Glued ==
  /\ pc = "glue" /\ ReaderEnd
  /\ pc' = "fix" /\ NewReader
  /\ UNCHANGED <<text, sol, writing, glued, fixed, lits, lit, decoding>>

(* fix_parsing: the count read with a run is replaced by the next true one *)
(* before the reader uses it.                                              *)
FixCopy ==
  /\ pc = "fix" /\ ReadCopy(glued)
  /\ fixed' = Append(fixed, Copy(glued[at]))
  /\ UNCHANGED <<text, sol, pc, writing, glued, lits, lit, decoding>>

FixRunOldCount ==                                                       \* mutant
  /\ pc = "fix" /\ ReadRun(glued, lits[lit + 1])
  /\ fixed' = Append(fixed, glued[at])
  /\ lit' = lit + 1
  /\ UNCHANGED <<text, sol, pc, writing, glued, lits, decoding>>
FixRun ==
  /\ pc = "fix" /\ ReadRun(glued, lits[lit + 1])
  /\ fixed' = Append(fixed, Run(glued[at].data, lits[lit + 1]))
  /\ lit' = lit + 1
  /\ UNCHANGED <<text, sol, pc, writing, glued, lits, decoding>>

-------------------------------------------------------------------------------
(* decompress                                                              *)
StoreWord(m, to, from) ==
  [p \in Cells |-> IF p \in to .. (to + Word - 1) THEN m[from + p - to] ELSE m[p]]
Rounded(n) == ((n + Word - 1) \div Word) * Word
(* Literals are moved by words too: what follows them is overwritten. *)
StoreRun(m, to, data) ==
  [p \in Cells |-> IF p \in to .. (to + Len(data) - 1) THEN data[p - to + 1]
                   ELSE IF p \in to .. (to + Rounded(Len(data)) - 1) THEN "junk"
                   ELSE m[p]]

(* fix_parsing returns; decompress starts with a run, whatever the count. *)
DecodeFirst ==
  /\ pc = "fix" /\ ReaderEnd
  /\ IsRun(fixed[1])
  /\ pc' = "decode"
  /\ mem' = StoreRun(mem, 0, fixed[1].data)
  /\ next_literal' = fixed[1].next
  /\ output' = fixed[1].ell /\ at' = 2
  /\ UNCHANGED <<text, sol, writing, glued, fixed, lits, lit, text_pos, copying>>

DecodeRun ==
  /\ pc = "decode" /\ output < L /\ ~ next_literal > 0
  /\ IsRun(fixed[at])
  /\ mem' = StoreRun(mem, output, fixed[at].data)
  /\ next_literal' = fixed[at].next
  /\ output' = output + fixed[at].ell /\ at' = at + 1
  /\ UNCHANGED <<text, sol, pc, writing, glued, fixed, lits, lit, text_pos, copying>>

DecodeCopy ==
  /\ pc = "decode" /\ output < L /\ next_literal > 0
  /\ ~ IsRun(fixed[at])
  /\ op' = output /\ src' = output - fixed[at].d /\ len' = fixed[at].ell
  /\ pc' = "spread"
  /\ UNCHANGED <<text, sol, writing, glued, fixed, lits, lit, at, text_pos, next_literal, mem, output>>

SpreadTwice ==                                                          \* mutant
  /\ pc = "spread" /\ op - src < Word
  /\ mem' = StoreWord(mem, op, src)
  /\ op' = op + 2 * (op - src) /\ len' = len - 2 * (op - src)
  /\ UNCHANGED <<text, sol, pc, writing, glued, fixed, lits, lit, at, text_pos, next_literal, output, src>>
(* A word is stored closer than a word away, of which op - src are right;  *)
(* the distance doubles.                                                   *)
Spread ==
  /\ pc = "spread" /\ op - src < Word
  /\ mem' = StoreWord(mem, op, src)
  /\ op' = op + (op - src) /\ len' = len - (op - src)
  /\ UNCHANGED <<text, sol, pc, writing, glued, fixed, lits, lit, at, text_pos, next_literal, output, src>>

MoveWord ==
  /\ pc = "spread" /\ op - src >= Word /\ len > 0
  /\ mem' = StoreWord(mem, op, src)
  /\ op' = op + Word /\ src' = src + Word /\ len' = len - Word
  /\ UNCHANGED <<text, sol, pc, writing, glued, fixed, lits, lit, at, text_pos, next_literal, output>>

CopyDone ==
  /\ pc = "spread" /\ op - src >= Word /\ len <= 0
  /\ output' = output + fixed[at].ell /\ at' = at + 1
  /\ next_literal' = next_literal - 1
  /\ pc' = "decode"
  /\ UNCHANGED <<text, sol, writing, glued, fixed, lits, lit, text_pos, mem, copying>>

Finish ==
  /\ pc = "decode" /\ output >= L
  /\ pc' = "done"
  /\ UNCHANGED <<text, sol, writing, glued, fixed, lits, lit, at, text_pos, next_literal, mem, output, copying>>

Terminated == pc = "done" /\ UNCHANGED vars

Write  == CountFrom \/ CountCopy \/ WriteRun \/ WriteCopy \/ Written
Fix    == GlueCopy \/ GlueRun \/ Glued \/ FixCopy \/ FixRun
Decode == DecodeFirst \/ DecodeRun \/ DecodeCopy \/ Spread \/ MoveWord \/ CopyDone \/ Finish

Next == Write \/ Fix \/ Decode \/ Terminated

Spec == Init /\ [][Next]_vars

-------------------------------------------------------------------------------
(* Properties.                                                             *)

(* A reader takes a code for a literal run exactly where one was written:  *)
(* the count of the last run and nothing else tells it.  At the end of the *)
(* text none is about to take another run: the count of the last run is    *)
(* one more than its copies.                                               *)
KindsAgree ==
  /\ pc = "glue" => IF ReaderEnd THEN next_literal > 0
                    ELSE IsRun(stream[at]) <=> next_literal = 0
  /\ pc = "fix" => IF ReaderEnd THEN next_literal > 0 /\ IsRun(fixed[1])
                   ELSE IsRun(glued[at]) <=> next_literal = 0
  /\ pc = "decode" => IF output >= L THEN next_literal > 0
                      ELSE IsRun(fixed[at]) <=> next_literal = 0

(* fix_parsing gives back the stream write_parsing wrote, to the last      *)
(* count, and stops where it ends, with every count used.                  *)
FixRestoresTheParsing ==
  pc = "fix" /\ ReaderEnd => fixed = stream /\ lit = Len(lits)

(* Between two phrases everything before the output head is the text,      *)
(* whatever the stores of whole words left after it.                       *)
DecodedPrefix ==
  /\ pc \in {"decode", "done"} => \A p \in 0 .. (output - 1) : mem[p] = text[p + 1]
  /\ pc = "done" => output = L
===============================================================================
