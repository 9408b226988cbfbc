------------------------------- MODULE Encoders -------------------------------
(***************************************************************************)
(* The integer coders a parsing is compressed with.  A phrase is a copy    *)
(* (dst, len) or a run of bytes; next is the count a run carries.  Two     *)
(* families code the copies, hybrid in bytes and gamma_like in bits, each  *)
(* with a writer of runs of its own.                                       *)
(***************************************************************************)
EXTENDS UnalignedIO

IsCopy(f) == f.dst > 0

-------------------------------------------------------------------------------
(* gamma_like: classes of values, a unary class, a binary remainder.       *)
soda09_dst == [cost_classes |-> <<0, 16384, 278528, 2375680, 19152896, 153370624, 1227112448>>,
               binary_width |-> <<14, 18, 21, 24, 27, 30>>]
soda09_len == [cost_classes |-> <<0, 8, 16, 24, 32, 48, 64, 80, 112, 176, 304, 560, 1072, 2096, 4144, 1052720>>,
               binary_width |-> <<3, 3, 3, 3, 4, 4, 4, 5, 6, 7, 8, 9, 10, 11, 20>>]
nibble_desc == [cost_classes |-> <<0, 8, 72, 584, 4680, 37448, 299592, 2396744, 19173960, 153391688, 1227133512>>,
                binary_width |-> <<3, 6, 9, 12, 15, 18, 21, 24, 27, 30>>]

(* lower_bound: how many class bounds are below v. *)
ClassId(desc, v) == Cardinality({k \in DOMAIN desc.cost_classes : desc.cost_classes[k] < v})

GammaEncode(w, desc, v, class_id) ==
  Write(Write(w, 2^(class_id - 1), class_id), v - desc.cost_classes[class_id] - 1, desc.binary_width[class_id])

(* What is read, where the reader is then, and the last byte it loaded. *)
GammaDecode(mem, r, desc, cost_class) ==
  [value |-> 1 + Slice(mem, r, cost_class + 1, desc.binary_width[cost_class + 1]) + desc.cost_classes[cost_class + 1],
   reader |-> SkipBits(r, 1 + cost_class + desc.binary_width[cost_class + 1]),
   last |-> LastLoaded(r, 64)]

GammaInfoShort(desc) ==                                                 \* mutant
  [win |-> Tail(desc.cost_classes), costs |-> [k \in DOMAIN desc.binary_width |-> desc.binary_width[k] + k - 1]]
(* get_ci *)
GammaInfo(desc) ==
  [win |-> Tail(desc.cost_classes), costs |-> [k \in DOMAIN desc.binary_width |-> desc.binary_width[k] + k]]

-------------------------------------------------------------------------------
(* hybrid: a tag in the lowest bits of the first byte says how many more.  *)
DstTag(v) == Cardinality({k \in 0 .. 2 : v >= 2^(6 + 8 * k)})
LenTag(v) == IF v < 2^7 THEN 0 ELSE 1

Tagged(v, tag, width) ==
  <<tag + 2^width * Low(v, 8 - width)>> \o [i \in 1 .. tag |-> Low(v \div 2^(8 * i - width), 8)]
dst_encode(dst) == Tagged(dst - 1, DstTag(dst - 1), 2)
len_encode(len) == Tagged(len - 1, LenTag(len - 1), 1)

(* A word of bytes is loaded, and masked by the tag in its lowest bits. *)
TaggedDecode(mem, r, width, word) ==
  LET tag == Low(mem[r.data], width)
  IN  [value |-> 1 + mem[r.data] \div 2^width + 2^(8 - width) * Load(mem, r.data + 1, 8 * tag),
       reader |-> SkipBytes(r, tag + 1), last |-> r.data + word - 1]
dst_decode(mem, r) == TaggedDecode(mem, r, 2, 4)
len_decode(mem, r) == TaggedDecode(mem, r, 1, 2)

HybridDst == [win |-> <<2^6, 2^14, 2^22, 2^30>>, costs |-> <<8, 16, 24, 32>>]
HybridLen == [win |-> <<2^7, 2^15>>, costs |-> <<8, 16>>]

-------------------------------------------------------------------------------
(* Runs.  range: the bytes its length is written in, 0 when runs have one  *)
(* symbol; start_: what is taken off a length before it is written.        *)
Little(v, n) == [i \in 1 .. n |-> Low(v \div 256^(i - 1), 8)]

literal_write(w, run, next, range) ==
  Put(w, (IF range = 0 THEN <<>> ELSE Little(Len(run) - 1, range)) \o run \o Little(next, 4))
literal_read(mem, r, range) ==
  LET length == IF range = 0 THEN 1 ELSE Load(mem, r.data, 8 * range) + 1
      from == r.data + range
  IN  [run |-> [i \in 1 .. length |-> mem[from + i - 1]], next |-> Load(mem, from + length, 32),
       reader |-> SkipBytes(r, range + length + 4),
       last |-> IF range = 0 THEN from + length + 3 ELSE Max({LastCopied(from, length), from + length + 3})]

(* The first symbol is cut in two, so that the others fall on whole bytes: *)
(* its lower bits go before them up to the boundary, the rest after.       *)
SplitWrite(w, run) ==
  LET second_width == 8 - w.offset
  IN  Write(Put(Write(w, Low(run[1], second_width), second_width), Tail(run)),
            run[1] \div 2^second_width, w.offset)
bit_literal_write(w, run, next, range, start_) ==
  IF range = 0 THEN Write(Write(w, next, 32), run[1], 8)
  ELSE SplitWrite(Write(Write(w, next, 32), Len(run) - start_, 8 * range), run)

SplitRead(mem, r, length) ==
  LET others == SkipBits(r, 8 - r.offset)
      rest == SkipBytes(others, length - 1)
      first == Read(mem, r, 8 - r.offset) + 2^(8 - r.offset) * Read(mem, rest, r.offset)
  IN  [run |-> [i \in 1 .. length |-> IF i = 1 THEN first ELSE mem[others.data + i - 2]],
       reader |-> SkipBits(rest, r.offset),
       last |-> Max({LastCopied(others.data, length - 1), LastLoaded(rest, r.offset)})]
bit_literal_read(mem, r, range, start_) ==
  LET lengths == SkipBits(r, 32)
      symbols == SkipBits(lengths, 8 * range)
      got == IF range = 0
             THEN [run |-> <<Read(mem, lengths, 8)>>, reader |-> SkipBits(lengths, 8),
                   last |-> LastLoaded(lengths, 8)]
             ELSE SplitRead(mem, symbols, Read(mem, lengths, 8 * range) + start_)
  IN  [run |-> got.run, reader |-> got.reader, next |-> Read(mem, r, 32),
       last |-> Max({got.last, LastLoaded(lengths, 8 * range)})]

-------------------------------------------------------------------------------
(* The registry.  A name is the first letter of its stem and its suffix,   *)
(* in ASCII: the letters between make no difference to who reads it.       *)
Coder(name, family, dst, len, range, start_) ==
  [name |-> name, family |-> family, dst |-> dst, len |-> len, range |-> range, start_ |-> start_]
Hybrid(suffix, range) == Coder(<<104>> \o suffix, "hybrid", HybridDst, HybridLen, range, 0)
Soda09(suffix, range, start_) == Coder(<<115>> \o suffix, "gamma_like", soda09_dst, soda09_len, range, start_)
Nibble4(suffix, range, start_) == Coder(<<110>> \o suffix, "gamma_like", nibble_desc, nibble_desc, range, start_)

(* nibble4_16 and nibble4_16U are declared with the classes of soda09. *)
Sixteen(suffix, start_) == Coder(<<110>> \o suffix, "gamma_like", soda09_dst, soda09_len, 2, start_)
encoders_ ==
  << Hybrid(<<>>, 0), Hybrid(<<45, 56>>, 1), Hybrid(<<45, 49, 54>>, 2),
     Soda09(<<>>, 0, 0), Soda09(<<95, 56>>, 1, 0), Soda09(<<95, 49, 54>>, 2, 0),
     Soda09(<<95, 56, 85>>, 1, 1), Soda09(<<95, 49, 54, 85>>, 2, 1),
     Nibble4(<<>>, 0, 0), Nibble4(<<95, 56>>, 1, 0), Sixteen(<<95, 49, 54>>, 0),
     Nibble4(<<95, 56, 85>>, 1, 1), Sixteen(<<95, 49, 54, 85>>, 1) >>

(* The first encoder with the name. *)
Named(name) == encoders_[CHOOSE k \in DOMAIN encoders_ : encoders_[k].name = name]

-------------------------------------------------------------------------------
(* What the cost model of a coder says of its phrases, in bits.            *)
get_info(c) ==
  IF c.family = "hybrid" THEN [dst |-> c.dst, len |-> c.len]
  ELSE [dst |-> GammaInfo(c.dst), len |-> GammaInfo(c.len)]

InfoCost(info, v) == info.costs[1 + Cardinality({k \in DOMAIN info.win : info.win[k] < v})]
fixed_cost(c) == 32 + 8 * c.range + (IF c.family = "hybrid" /\ c.range = 0 THEN 8 ELSE 0)
var_cost(c) == IF c.family = "hybrid" /\ c.range = 0 THEN 0 ELSE 8
PhraseCost(c, f) ==
  IF IsCopy(f) THEN InfoCost(get_info(c).dst, f.dst) + InfoCost(get_info(c).len, f.len)
  ELSE fixed_cost(c) + f.len * var_cost(c)
max_length(c) ==
  IF c.range = 0 THEN 1
  ELSE IF c.family = "hybrid" THEN 256^c.range
  ELSE 256^c.range - 1 + c.start_

-------------------------------------------------------------------------------
(* A phrase written and read by a coder.                                   *)
EncodeCopy(c, w, f) ==
  IF c.family = "hybrid" THEN Put(Put(w, dst_encode(f.dst)), len_encode(f.len))
  ELSE GammaEncode(GammaEncode(w, c.dst, f.dst, ClassId(c.dst, f.dst)), c.len, f.len, ClassId(c.len, f.len))
EncodeRun(c, w, f) ==
  IF c.family = "hybrid" THEN literal_write(w, f.run, f.next, c.range)
  ELSE bit_literal_write(w, f.run, f.next, c.range, c.start_)

DecodeDst(c, mem, r) ==
  IF c.family = "hybrid" THEN dst_decode(mem, r) ELSE GammaDecode(mem, r, c.dst, LowestSet(mem, r))
DecodeLen(c, mem, r) ==
  IF c.family = "hybrid" THEN len_decode(mem, r) ELSE GammaDecode(mem, r, c.len, LowestSet(mem, r))
DecodeRun(c, mem, r) ==
  IF c.family = "hybrid" THEN literal_read(mem, r, c.range)
  ELSE bit_literal_read(mem, r, c.range, c.start_)

data_len_exact(parsing_length) == parsing_length \div 8                  \* mutant
(* Bytes a buffer needs for a parsing of so many bits, and those read past *)
(* the end of one.                                                         *)
data_len(parsing_length) == parsing_length \div 8 + 8
extra_read == 8
===============================================================================
