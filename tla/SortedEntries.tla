--------------------------- MODULE SortedEntries ---------------------------
(***************************************************************************)
(* The entry array that every tree page keeps after its header: entries    *)
(* with a u64 key in ascending order.  The four page overlays of the       *)
(* repository (index leaf and inner, directory leaf and inner) contain the *)
(* same code for it; BTreePage and DirectoryPage name it for their files.  *)
(*                                                                         *)
(* The array is a sequence of records with a field key.  Positions are     *)
(* those of the code, from 0; slots past num_entries are never read and    *)
(* are left out.                                                           *)
(***************************************************************************)
EXTENDS Integers, Sequences, SequencesExt

(* find_slot and find_separator_slot: the position of k, or where it goes. *)
Search(es, k) ==
  LET narrow[range \in (0..Len(es)) \X (0..Len(es))] ==
        LET left  == range[1]
            right == range[2]
            mid   == left + (right - left) \div 2
            at    == es[mid + 1].key
        IN  IF left >= right THEN [found |-> FALSE, pos |-> left]
            ELSE IF at = k THEN [found |-> TRUE, pos |-> mid]
            ELSE IF at < k THEN narrow[<<mid + 1, right>>] ELSE narrow[<<left, mid>>]
  IN  narrow[<<0, Len(es)>>]

(* The search of find_child: the last position with a key <= k, or 0. *)
SearchFloor(es, k) ==
  LET narrow[state \in (0..Len(es)) \X (0..Len(es)) \X (0..Len(es))] ==
        LET left  == state[1]
            right == state[2]
            mid   == left + (right - left) \div 2
        IN  IF left >= right THEN state[3]
            ELSE IF k >= es[mid + 1].key THEN narrow[<<mid + 1, right, mid>>]
            ELSE narrow[<<left, mid, state[3]>>]
  IN  narrow[<<0, Len(es), 0>>]

(* insert_entry and insert_separator, with the capacity of the page. *)
PutEntry(es, max, e) ==
  LET slot == Search(es, e.key)
  IN  IF Len(es) >= max THEN [err |-> "PageFull", entries |-> es]
      ELSE IF slot.found THEN [err |-> "DuplicateKey", entries |-> es]
      ELSE [err |-> "", entries |-> InsertAt(es, slot.pos + 1, e)]

(* delete_entry and delete_separator. *)
Take(es, pos) ==
  IF pos >= Len(es) THEN [err |-> "IndexOutOfBounds", entries |-> es]
  ELSE [err |-> "", entries |-> RemoveAt(es, pos + 1)]

-----------------------------------------------------------------------------
(* The order every page keeps, for the checks. *)
Ascending(es) == \A i \in 1..(Len(es) - 1) : es[i].key < es[i + 1].key
=============================================================================
