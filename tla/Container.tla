------------------------------- MODULE Container -------------------------------
(***************************************************************************)
(* A compressed file: the name of its encoder, the size of the text, then  *)
(* the parsing.  pack reserves the whole and writes the header, unpack     *)
(* finds the parts again.                                                  *)
(***************************************************************************)
EXTENDS Encoders

MaxName == 20
Room(n) == 0 .. (n - 1)
Zeroed(n) == [p \in Room(n) |-> 0]
Bytes(mem, first, n) == [i \in 1 .. n |-> mem[first + i - 1]]
Buffer(bytes, spare) ==
  [p \in Room(Len(bytes) + Len(spare)) |-> IF p < Len(bytes) THEN bytes[p + 1] ELSE spare[p - Len(bytes) + 1]]

(* inject_size stores the eight bytes of a size_t, where four are counted: *)
(* the other four are the first of the parsing, still to be written.       *)
InjectSize(size) == Little(size, 4) \o <<0, 0, 0, 0>>

PackedLen(name, comp_len) == comp_len + 4 + Len(name) + 1
pack(name, orig_len, comp_len) ==
  LET head == name \o <<0>> \o InjectSize(orig_len)
  IN  [p \in Room(PackedLen(name, comp_len) + 8) |-> IF p < Len(head) THEN head[p + 1] ELSE 0]

unpack(mem) ==
  LET stop == Min({p \in 0 .. (MaxName - 1) : mem[p] = 0 \/ p = MaxName - 1})
  IN  [name |-> Bytes(mem, 0, stop), size |-> Load(mem, stop + 1, 32), parsing |-> stop + 5]

-------------------------------------------------------------------------------
(* Sizes of buffers, in the programming interface.                         *)
parsing_space(parsing_length) == data_len(parsing_length * 8)
safe_compress_size(n) == data_len(n * 8)
safe_decompress_size(n) == n + extra_read
safe_buffer_size(n) == Max({safe_compress_size(n), safe_decompress_size(n)})
===============================================================================
