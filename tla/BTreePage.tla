----------------------------- MODULE BTreePage -----------------------------
(***************************************************************************)
(* The pages of a B-tree index: btree_leaf.rs and btree_inner.rs of        *)
(* src/page/overlays/index.  The byte layout, the page LSN, flags and      *)
(* reserved fields, which nothing reads, are left out.                     *)
(***************************************************************************)
EXTENDS SortedEntries

CONSTANTS
  LeafMax,   \* MAX_ENTRIES of a leaf page, 253 in the code
  InnerMax   \* MAX_KEYS of an inner page, 254 in the code

ASSUME BTreePageAssumption ==
  /\ LeafMax \in Nat /\ LeafMax >= 2
  /\ InnerMax \in Nat /\ InnerMax >= 2

-----------------------------------------------------------------------------
(* Leaf pages *)

LeafEntry(k, rid) == [key |-> k, rid |-> rid]

(* The leaf header; num_entries is the length of entries. *)
LeafPage(es, prev, next) == [kind |-> "leaf", entries |-> es, prev |-> prev, next |-> next]

(* init: an empty page without siblings. *)
init_leaf == LeafPage(<<>>, 0, 0)

find_slot(page, k) == Search(page.entries, k)

(* The record id as a set, empty when the key is not there. *)
lookup(page, k) ==
  LET slot == find_slot(page, k)
  IN  IF slot.found THEN {page.entries[slot.pos + 1].rid} ELSE {}

leaf_needs_split(page) == Len(page.entries) >= LeafMax
leaf_can_merge(page)   == Len(page.entries) < LeafMax \div 2

insert_entry(page, k, rid) ==
  LET put == PutEntry(page.entries, LeafMax, LeafEntry(k, rid))
  IN  [err |-> put.err, page |-> [page EXCEPT !.entries = put.entries]]

delete_entry(page, pos) ==
  LET take == Take(page.entries, pos)
  IN  [err |-> take.err, page |-> [page EXCEPT !.entries = take.entries]]

set_prev_page(page, p) == [page EXCEPT !.prev = p]

-----------------------------------------------------------------------------
(* Inner pages *)

InnerEntry(sep, child) == [key |-> sep, child |-> child]

(* The inner header; num_keys is the length of entries. *)
InnerPage(es, leftmost) == [kind |-> "inner", entries |-> es, leftmost |-> leftmost]

init_inner(leftmost) == InnerPage(<<>>, leftmost)

find_child(page, k) ==
  IF Len(page.entries) = 0 \/ k < page.entries[1].key THEN page.leftmost
  ELSE page.entries[SearchFloor(page.entries, k) + 1].child

find_separator_slot(page, sep) == Search(page.entries, sep)

inner_safe_for_insert(page) == Len(page.entries) < InnerMax - 1
inner_is_full(page)         == Len(page.entries) >= InnerMax

insert_separator(page, sep, child) ==
  LET put == PutEntry(page.entries, InnerMax, InnerEntry(sep, child))
  IN  [err |-> put.err, page |-> [page EXCEPT !.entries = put.entries]]
=============================================================================
