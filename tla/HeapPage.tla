------------------------------ MODULE HeapPage ------------------------------
(***************************************************************************)
(* The slotted page of src/page/overlays/table/heap_page.rs: slots grow up *)
(* from the headers, tuples grow down from the end of the page.            *)
(*                                                                         *)
(* Bytes are not modelled by their value but by who wrote them last: a     *)
(* byte belongs to slot i, to tuple i, or to nobody.  That is what tells   *)
(* whether a write damaged something.                                      *)
(*                                                                         *)
(* A definition ending in _Fault is a wrong version of the one after it.   *)
(***************************************************************************)
EXTENDS Integers

CONSTANTS
  PageSize,     \* PAGE_BUF_SIZE
  HeadersSize,  \* HEADERS_SIZE: UberPageHeader and Header
  Lengths       \* lengths of the tuples given to insert

ASSUME PageAssumption ==
  /\ PageSize \in Nat /\ PageSize < 65536
  /\ HeadersSize \in Nat \ {0} /\ HeadersSize <= PageSize
  /\ Lengths \subseteq Nat

SlotSize == 4    \* size_of::<Slot>()

VARIABLES
  num_slots, data_offset,   \* Header
  slot,                     \* the slot array: offset and length
  owner,                    \* owner[b]: who wrote byte b last
  len                       \* len[i]: length of the tuple inserted as i (history)

pageVars == <<num_slots, data_offset, slot, owner, len>>

Bytes == HeadersSize..(PageSize - 1)

Nobody == [kind |-> "none", idx |-> 0]
SlotOf(i)  == [kind |-> "slot", idx |-> i]
TupleOf(i) == [kind |-> "tuple", idx |-> i]

SlotBytes(i) == (HeadersSize + i * SlotSize)..(HeadersSize + i * SlotSize + SlotSize - 1)
Range(from, n) == from..(from + n - 1)

(* A page as new_page leaves it: zeros. *)
PageInit ==
  /\ num_slots = 0
  /\ data_offset = 0
  /\ slot = [i \in 0..(num_slots - 1) |-> [offset |-> 0, length |-> 0]]
  /\ owner = [b \in Bytes |-> Nobody]
  /\ len = [i \in 0..(num_slots - 1) |-> 0]

(* init, called once on a new page. *)
InitPage ==
  /\ data_offset = 0
  /\ num_slots' = 0
  /\ data_offset' = PageSize
  /\ UNCHANGED <<slot, owner, len>>

slots_end == HeadersSize + num_slots * SlotSize

(* saturating_sub: a page that was not initialized has no space. *)
free_space_remaining ==
  IF data_offset >= slots_end THEN data_offset - slots_end ELSE 0

(* The new slot is forgotten. *)
NeededSpace_Fault(n) == n

NeededSpace(n) == n + SlotSize

Insert(n) ==
  LET i == num_slots
      new_data_offset == data_offset - n
  IN
  /\ free_space_remaining >= NeededSpace(n)
  /\ num_slots' = num_slots + 1
  /\ data_offset' = new_data_offset
  /\ slot' = [j \in 0..i |-> IF j = i THEN [offset |-> new_data_offset, length |-> n]
                                      ELSE slot[j]]
  /\ owner' = [b \in Bytes |-> IF b \in SlotBytes(i) THEN SlotOf(i)
                               ELSE IF b \in Range(new_data_offset, n) THEN TupleOf(i)
                               ELSE owner[b]]
  /\ len' = [j \in 0..i |-> IF j = i THEN n ELSE len[j]]

(* The slots after the deleted one move down. *)
Delete_Fault(i) ==
  /\ i \in 0..(num_slots - 1)
  /\ num_slots' = num_slots - 1
  /\ slot' = [j \in 0..(num_slots - 2) |-> IF j < i THEN slot[j] ELSE slot[j + 1]]
  /\ len' = [j \in 0..(num_slots - 2) |-> len[j]]
  /\ UNCHANGED <<data_offset, owner>>

(* delete: the length becomes 0, the slot stays. *)
Delete(i) ==
  /\ i \in 0..(num_slots - 1)
  /\ slot' = [slot EXCEPT ![i].length = 0]
  /\ UNCHANGED <<num_slots, data_offset, owner, len>>

(* get_data and get_data_mut: the bytes of a slot. *)
get_data(i) == Range(slot[i].offset, slot[i].length)

(* Writing through get_data_mut, as write_xmax does. *)
WriteData(i) ==
  /\ i \in 0..(num_slots - 1)
  /\ owner' = [b \in Bytes |-> IF b \in get_data(i) THEN TupleOf(i) ELSE owner[b]]
  /\ UNCHANGED <<num_slots, data_offset, slot, len>>

PageNext ==
  \/ InitPage
  \/ \E n \in Lengths : Insert(n)
  \/ \E i \in 0..(num_slots - 1) : Delete(i) \/ WriteData(i)

PageSpec == PageInit /\ [][PageNext]_pageVars

-----------------------------------------------------------------------------
(* Properties *)

(* The header, the slots and the lengths are well typed; every slot lies   *)
(* in the page.                                                            *)
PageTypeOK ==
  /\ num_slots \in Nat /\ data_offset \in 0..PageSize
  /\ slot \in [0..(num_slots - 1) -> [offset : Nat, length : Nat]]
  /\ len \in [0..(num_slots - 1) -> Nat]
  /\ DOMAIN owner = Bytes
  /\ \A i \in 0..(num_slots - 1) : SlotBytes(i) \subseteq Bytes /\ get_data(i) \subseteq Bytes

(* Slots and tuples never overwrite each other: for every slot, its own    *)
(* bytes are intact, and it gives back all the bytes of the tuple that was *)
(* inserted there, or none once the tuple is deleted.  No insert, delete   *)
(* or in-place write of another tuple changes that, up to the last byte of *)
(* the page.                                                               *)
TuplesIntact ==
  \A i \in 0..(num_slots - 1) :
    /\ \A b \in SlotBytes(i) : owner[b] = SlotOf(i)
    /\ \A b \in get_data(i) : owner[b] = TupleOf(i)
    /\ slot[i].length \in {0, len[i]}
=============================================================================
