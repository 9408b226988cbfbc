--------------------------- MODULE CompressedCache ---------------------------
(***************************************************************************)
(* class compressed_cache: a bounded list of compressed parsings, oldest   *)
(* first, that makes room by dropping the oldest parsing on the same side  *)
(* of the bound as the one being added.  An entry is a record with a field *)
(* gen, the generation info it is looked up by.                            *)
(***************************************************************************)
LOCAL INSTANCE Integers
LOCAL INSTANCE Sequences

CONSTANT Capacity   \* how many compressed parsings the list may hold

ASSUME CapacityAssumption == Capacity \in Nat \ {0}

Erase(list, i) == SubSeq(list, 1, i - 1) \o SubSeq(list, i + 1, Len(list))

(* remove_latest: erase the first entry whose position is in same, the     *)
(* positions of the entries on the new entry's side; add then falls back   *)
(* on pop_front.                                                           *)
MakeRoom(list, same) ==
  IF Len(list) < Capacity
  THEN list
  ELSE IF same = {}
       THEN Erase(list, 1)
       ELSE Erase(list, CHOOSE i \in same : \A j \in same : i <= j)

Add(list, entry, same) == Append(MakeRoom(list, same), entry)
==============================================================================
