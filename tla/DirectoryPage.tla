--------------------------- MODULE DirectoryPage ---------------------------
(***************************************************************************)
(* The pages of the page directory: leaf.rs and inner.rs of                *)
(* src/page/overlays/directory and its file header.  A leaf entry keeps    *)
(* the number of the page in its file, not its offset.                     *)
(***************************************************************************)
EXTENDS SortedEntries

CONSTANTS
  LeafMax,   \* MAX_ENTRIES of a leaf page, 253 in the code
  InnerMax,  \* MAX_KEYS of an inner page, 254 in the code
  PageSize,  \* PAGE_BUF_SIZE, 4096 in the code
  PageNumbers \* values of a page number, 2^32 in the code

ASSUME DirectoryPageAssumption ==
  /\ LeafMax \in Nat /\ LeafMax >= 2
  /\ InnerMax \in Nat /\ InnerMax >= 2
  /\ PageSize \in Nat \ {0} /\ PageNumbers \in Nat \ {0}

-----------------------------------------------------------------------------
(* The file header: the root of the tree and the next free page. *)

HeaderPage(root, next) == [kind |-> "header", root |-> root, next |-> next]

(* DirectoryFileHeaderPage::init leaves both zero. *)
init_header == HeaderPage(0, 0)

-----------------------------------------------------------------------------
(* Leaf pages *)

(* The page number is taken to be the offset. *)
from_ppage_id_Fault(lpage, pp) == [key |-> lpage, file |-> pp.file, number |-> pp.offset]

from_ppage_id(lpage, pp) ==
  [key |-> lpage, file |-> pp.file, number |-> (pp.offset \div PageSize) % PageNumbers]

to_ppage_id(e) == [file |-> e.file, offset |-> e.number * PageSize]

LeafPage(es, prev, next) == [kind |-> "leaf", entries |-> es, prev |-> prev, next |-> next]

init_leaf == LeafPage(<<>>, 0, 0)

find_slot(page, k) == Search(page.entries, k)

(* The location as a set, empty when the key is not there. *)
lookup(page, k) ==
  LET slot == find_slot(page, k)
  IN  IF slot.found THEN {to_ppage_id(page.entries[slot.pos + 1])} ELSE {}

leaf_needs_split(page) == Len(page.entries) >= LeafMax

insert_entry(page, lpage, pp) ==
  LET put == PutEntry(page.entries, LeafMax, from_ppage_id(lpage, pp))
  IN  [err |-> put.err, page |-> [page EXCEPT !.entries = put.entries]]

delete_entry(page, pos) ==
  LET take == Take(page.entries, pos)
  IN  [err |-> take.err, page |-> [page EXCEPT !.entries = take.entries]]

(* delete_by_key and update_entry: found tells whether the key was there. *)
delete_by_key(page, k) ==
  LET slot == find_slot(page, k)
  IN  [found |-> slot.found, page |-> IF slot.found THEN delete_entry(page, slot.pos).page ELSE page]

update_entry(page, lpage, pp) ==
  LET slot == find_slot(page, lpage)
  IN  [found |-> slot.found,
       page |-> IF slot.found
                THEN [page EXCEPT !.entries[slot.pos + 1] = from_ppage_id(lpage, pp)] ELSE page]

set_prev_page(page, p) == [page EXCEPT !.prev = p]

-----------------------------------------------------------------------------
(* Inner pages *)

InnerEntry(sep, child) == [key |-> sep, child |-> child]

InnerPage(es, leftmost) == [kind |-> "inner", entries |-> es, leftmost |-> leftmost]

init_inner(leftmost) == InnerPage(<<>>, leftmost)

find_child(page, k) ==
  IF Len(page.entries) = 0 \/ k < page.entries[1].key THEN page.leftmost
  ELSE page.entries[SearchFloor(page.entries, k) + 1].child

find_separator_slot(page, sep) == Search(page.entries, sep)

inner_is_full(page) == Len(page.entries) >= InnerMax

insert_separator(page, sep, child) ==
  LET put == PutEntry(page.entries, InnerMax, InnerEntry(sep, child))
  IN  [err |-> put.err, page |-> [page EXCEPT !.entries = put.entries]]
=============================================================================
