----------------------------- MODULE UnalignedIO -----------------------------
(***************************************************************************)
(* Reading and writing integers of any width at any bit of a buffer.  A    *)
(* buffer is a function from addresses to bytes.  Bits fill a byte from    *)
(* the lowest one up.  Values stay below 2^31, so that TLC can hold them:  *)
(* 64-bit words are never taken whole, but by the bits that are used.      *)
(***************************************************************************)
EXTENDS Integers, Sequences, Bitwise, FiniteSetsExt

Byte == 0 .. 255
Low(t, n) == t % 2^n
Least(m, n) == IF m < n THEN m ELSE n

-------------------------------------------------------------------------------
(* The writer: its buffer, the byte and the bit it is at, and the value it *)
(* is writing with the bits left of it.  clean: every byte it has entered  *)
(* was zero, as it asserts.                                                *)
Writer(mem, data) == [mem |-> mem, data |-> data, offset |-> 0, t |-> 0, bits |-> 0, clean |-> mem[data] = 0]

(* Up to the byte boundary: the bits are ORed into what is there. *)
PartialWrite(w) ==
  LET n == Least(8 - w.offset, w.bits)
      end == w.offset + n
  IN  [w EXCEPT !.mem[w.data] = @ | (Low(w.t, n) * 2^w.offset),
                !.data = @ + end \div 8, !.offset = end % 8,
                !.t = @ \div 2^n, !.bits = @ - n,
                !.clean = @ /\ (end = 8 => w.mem[w.data + 1] = 0)]

(* Whole bytes, at a boundary. *)
FullWrites(w) ==
  LET n == w.bits \div 8
  IN  [w EXCEPT !.mem = [p \in DOMAIN w.mem |->
                           IF p \in w.data .. (w.data + n - 1) THEN Low(w.t \div 256^(p - w.data), 8)
                           ELSE w.mem[p]],
                !.data = @ + n, !.t = @ \div 256^n, !.bits = @ % 8]

Write(w, t, bits) == PartialWrite(FullWrites(PartialWrite([w EXCEPT !.t = t, !.bits = bits])))

(* Bytes stored by plain copies, and the head moved over them. *)
Put(w, bytes) ==
  [w EXCEPT !.mem = [p \in DOMAIN w.mem |->
                       IF p \in w.data .. (w.data + Len(bytes) - 1) THEN bytes[p - w.data + 1]
                       ELSE w.mem[p]],
            !.data = @ + Len(bytes)]

-------------------------------------------------------------------------------
(* The reader: a byte and a bit of a buffer.                               *)
Reader(data) == [data |-> data, offset |-> 0]
SkipBits(r, n) == [data |-> r.data + (r.offset + n) \div 8, offset |-> (r.offset + n) % 8]
SkipBytes(r, n) == [r EXCEPT !.data = @ + n]

(* The n lowest bits of the word at address p. *)
Load(mem, p, n) ==
  MapThenSumSet(LAMBDA i : Low(mem[p + i], Least(8, n - 8 * i)) * 256^i, 0 .. ((n + 7) \div 8 - 1))

PrefixBits(r, bits) == Least(bits, 8 - r.offset)
WordAt(r, bits) == SkipBits(r, PrefixBits(r, bits)).data

ReadUnshifted(mem, r, bits) ==                                          \* mutant
  LET read == PrefixBits(r, bits)
  IN  Low(mem[r.data] \div 2^r.offset, read) + 256 * Load(mem, WordAt(r, bits), bits - read)
(* The bits up to the byte boundary, then the rest from the 64-bit word    *)
(* there, shifted by as many bits as were in the first byte.               *)
Read(mem, r, bits) ==
  LET read == PrefixBits(r, bits)
  IN  Low(mem[r.data] \div 2^r.offset, read) + 2^read * Load(mem, WordAt(r, bits), bits - read)
(* A read loads the whole word, whatever the bits it uses. *)
LastLoaded(r, bits) == WordAt(r, bits) + 7

(* Of a peeked 64-bit word: its lowest set bit, and n bits from bit k on.  *)
Bit(mem, r, k) == Read(mem, SkipBits(r, k), 1)
LowestSet(mem, r) == CHOOSE k \in 0 .. 63 : Bit(mem, r, k) = 1 /\ \A j \in 0 .. (k - 1) : Bit(mem, r, j) = 0
Slice(mem, r, k, n) == Read(mem, SkipBits(r, k), n)

(* u_copy_fast moves words: the last address it loads of n bytes at p. *)
LastCopied(p, n) == p + 8 * ((n + 7) \div 8) - 1
===============================================================================
