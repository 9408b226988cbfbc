-------------------------------- MODULE Codec --------------------------------
(***************************************************************************)
(* From a command to a file and back.  A generator is chosen for the       *)
(* distances of an encoder; the phrases of the parsing are priced by the   *)
(* encoder's cost model, to reserve a buffer, then encoded in it; the file *)
(* or buffer is delivered, and decoded by who knows but what is in it.     *)
(* Which phrases a parse yields, and in which order a reader takes copies  *)
(* and runs, are the business of other modules: here phrases are any.      *)
(***************************************************************************)
EXTENDS Container, GeneratorChoice

CONSTANTS
  Requests,   \* [via, generator, dst, coder, phrases]: what is asked
  Junk        \* bytes that may be past the end of a file read in memory

ASSUME JunkAssumption == Junk \subseteq Byte

VARIABLES
  request,
  pc,
  generator, tries,  \* of call_real
  price,        \* bits priced for the phrases encoded so far
  writer,       \* of the encoder, with the buffer
  start,        \* where the parsing starts in the buffer
  k,            \* phrases encoded, then decoded
  mem,          \* what is delivered
  reader, found, \* of the decoder, and what it knows: encoder and size
  decoded,
  last          \* the last byte the decoder loaded

vars == <<request, pc, generator, tries, price, writer, start, k, mem, reader, found, decoded, last>>

name == request.coder
coder == Named(name)
phrases == request.phrases
size == FoldLeft(LAMBDA n, f : n + f.len, 0, phrases)
bits == FoldLeft(LAMBDA n, f : n + PhraseCost(coder, f), 0, phrases)

Idle == [mem |-> [p \in {0} |-> 0], data |-> 0, offset |-> 0, t |-> 0, bits |-> 0, clean |-> TRUE]

Init ==
  /\ request \in Requests
  /\ pc = "pick"
  /\ generator = request.generator /\ tries = 0
  /\ price = 0 /\ writer = Idle /\ start = 0 /\ k = 0
  /\ mem = <<>> /\ reader = Reader(0) /\ found = <<>> /\ decoded = <<>> /\ last = 0

-------------------------------------------------------------------------------
(* call_real, call_bogus, and compress, which asks for no generator.       *)
Pick ==
  /\ pc = "pick"
  /\ generator' = IF generator = "" THEN suggest_gen(get_kind(request.dst)) ELSE generator
  /\ pc' = "try"
  /\ UNCHANGED <<request, tries, price, writer, start, k, mem, reader, found, decoded, last>>

MaxTries == IF request.via \in {"file", "emulate"} THEN 2 ELSE 1

Serve ==
  /\ pc = "try" /\ Serves(generator, request.dst)
  /\ pc' = IF request.via = "emulate" THEN "done" ELSE "reserve"
  /\ UNCHANGED <<request, generator, tries, price, writer, start, k, mem, reader, found, decoded, last>>

(* After the last try nothing more is done, and nothing is said of it. *)
Mismatch ==
  /\ pc = "try" /\ ~ Serves(generator, request.dst)
  /\ generator' = suggest_gen(get_kind(request.dst))
  /\ tries' = tries + 1
  /\ pc' = IF tries + 1 < MaxTries THEN "try" ELSE "gave up"
  /\ UNCHANGED <<request, price, writer, start, k, mem, reader, found, decoded, last>>

-------------------------------------------------------------------------------
(* write_parsing: a file is reserved by the bits of the parsing; compress  *)
(* and compress_buffer take parsing_space, bytes for as many as its bits.  *)
BodyLen == IF request.via = "file" THEN data_len(bits) ELSE parsing_space(bits)
Total == IF request.via = "buffer" THEN BodyLen ELSE PackedLen(name, BodyLen)

(* Buffers have spare bytes in the model, so that writes past the end of   *)
(* one, if any, are seen by MemorySafe.                                    *)
Reserve ==
  /\ pc = "reserve"
  /\ LET buffer == IF request.via = "buffer" THEN Zeroed(BodyLen + 8) ELSE pack(name, size, BodyLen)
         at == IF request.via = "buffer" THEN 0 ELSE unpack(buffer).parsing
     IN  /\ writer' = Writer(buffer, at)
         /\ start' = at
  /\ pc' = "encode"
  /\ UNCHANGED <<request, generator, tries, price, k, mem, reader, found, decoded, last>>

Encode(written) ==
  /\ writer' = written
  /\ price' = price + PhraseCost(coder, phrases[k + 1])
  /\ k' = k + 1
  /\ UNCHANGED <<request, pc, generator, tries, start, mem, reader, found, decoded, last>>
WriteCopy ==
  /\ pc = "encode" /\ k < Len(phrases) /\ IsCopy(phrases[k + 1])
  /\ Encode(EncodeCopy(coder, writer, phrases[k + 1]))
WriteRun ==
  /\ pc = "encode" /\ k < Len(phrases) /\ ~ IsCopy(phrases[k + 1])
  /\ Encode(EncodeRun(coder, writer, phrases[k + 1]))

-------------------------------------------------------------------------------
(* Delivery.  A file is saved and read in a buffer eight bytes longer, not *)
(* cleared; what compress returns is used as it is; a client of            *)
(* compress_buffer puts the header of create_header before the parsing, in *)
(* a cleared buffer of safe_buffer_size.                                   *)
Deliver(buffer) ==
  /\ mem' = buffer
  /\ pc' = "open" /\ k' = 0
  /\ UNCHANGED <<request, generator, tries, price, writer, start, reader, found, decoded, last>>
Encoded == pc = "encode" /\ k = Len(phrases)

SaveAndLoad ==
  /\ Encoded /\ request.via = "file"
  /\ \E junk \in Junk : Deliver(Buffer(Bytes(writer.mem, 0, Total), [i \in 1 .. 8 |-> junk]))
HandOver ==
  /\ Encoded /\ request.via = "full"
  /\ Deliver(writer.mem)
Glue ==
  /\ Encoded /\ request.via = "buffer"
  /\ LET header == Bytes(pack(name, size, 0), 0, PackedLen(name, 0))
         glued == header \o Bytes(writer.mem, 0, Total)
     IN  Deliver(Buffer(glued, [i \in 1 .. (safe_buffer_size(Len(glued)) - Len(glued)) |-> 0]))

(* unpack, or extract_header, and the decoder by its name. *)
Open ==
  /\ pc = "open"
  /\ LET info == unpack(mem)
     IN  /\ found' = [coder |-> Named(info.name), size |-> info.size]
         /\ reader' = Reader(info.parsing)
  /\ pc' = "decode"
  /\ UNCHANGED <<request, generator, tries, price, writer, start, k, mem, decoded, last>>

Decode(f, r, loaded) ==
  /\ decoded' = Append(decoded, f)
  /\ reader' = r
  /\ last' = Max({last, loaded})
  /\ k' = k + 1
  /\ UNCHANGED <<request, pc, generator, tries, price, writer, start, mem, found>>
ReadCopy ==
  /\ pc = "decode" /\ k < Len(phrases) /\ IsCopy(phrases[k + 1])
  /\ \E d \in {DecodeDst(found.coder, mem, reader)} : \E l \in {DecodeLen(found.coder, mem, d.reader)} :
       Decode([dst |-> d.value, len |-> l.value, run |-> <<>>, next |-> 0], l.reader, Max({d.last, l.last}))
ReadRun ==
  /\ pc = "decode" /\ k < Len(phrases) /\ ~ IsCopy(phrases[k + 1])
  /\ \E lit \in {DecodeRun(found.coder, mem, reader)} :
       Decode([dst |-> 0, len |-> Len(lit.run), run |-> lit.run, next |-> lit.next], lit.reader, lit.last)

Finish ==
  /\ pc = "decode" /\ k = Len(phrases)
  /\ pc' = "done"
  /\ UNCHANGED <<request, generator, tries, price, writer, start, k, mem, reader, found, decoded, last>>

Terminated == pc \in {"done", "gave up"} /\ UNCHANGED vars

Next == Pick \/ Serve \/ Mismatch \/ Reserve \/ WriteCopy \/ WriteRun \/ SaveAndLoad \/ HandOver \/ Glue
        \/ Open \/ ReadCopy \/ ReadRun \/ Finish \/ Terminated

Spec == Init /\ [][Next]_vars

-------------------------------------------------------------------------------
(* Properties.                                                             *)

(* What is decoded is what was encoded, phrase by phrase, by the encoder   *)
(* whose name is in the header: every class of distances and lengths, at   *)
(* every bit of a byte, with runs cut at any bit and as long as they may.  *)
RoundTrip ==
  pc \in {"decode", "done"} /\ request.via # "emulate" =>
    /\ found = [coder |-> coder, size |-> size]
    /\ decoded = SubSeq(phrases, 1, k)

(* The parser minimises the bits that are written: at every phrase the     *)
(* writer is as far as the cost model of the encoder says.                 *)
PricedAsWritten ==
  pc = "encode" => 8 * (writer.data - start) + writer.offset = price

(* Nothing is written past what was reserved, and nothing loaded past what *)
(* was delivered, although readers load whole words at the last phrase;    *)
(* and bits are only ever ORed into bytes that are zero.                   *)
MemorySafe ==
  /\ pc = "encode" => writer.data < start + BodyLen /\ writer.clean
  /\ pc \in {"decode", "done"} /\ request.via # "emulate" => last \in DOMAIN mem

(* Whatever the generator asked for, and whatever the distances of the     *)
(* model, the generator suggested after a mismatch serves: call_real never *)
(* returns without having compressed, and compress never throws.           *)
NeverGivesUp == pc # "gave up"
===============================================================================
