----------------------------- MODULE BTreeIndex -----------------------------
(***************************************************************************)
(* The B-tree index accessor, src/accessor/btree.rs: concurrent insert,    *)
(* get, scan and delete on one index file.                                 *)
(*                                                                         *)
(* A step is the work between two acquisitions of a page latch.  Read      *)
(* latches are dropped before the next fetch, so they are held within a    *)
(* step only; write latches are state.  The buffer pool below is taken to  *)
(* hand out the right page under its latch (module BufferPool); a call it  *)
(* refuses is the action Fail, and its write-back and re-read of pages is  *)
(* the action Reload.                                                      *)
(*                                                                         *)
(* A definition ending in Fault is a wrong version of the one after it.    *)
(***************************************************************************)
EXTENDS BTreePage

CONSTANTS
  Workers,     \* tasks that use the index
  Calls,       \* the calls they may make, see Call
  Preloads,    \* key sequences, one of which is inserted before all else
  Loader,      \* the task that does it
  PreloadRid,  \* the record id of preloaded keys
  ByteBase,    \* values of a byte, 256 in the code
  KeyWidth,    \* bytes of a key, 8 in the code
  MaxPages,    \* bound on allocated pages
  MaxCalls,    \* bound on calls after the preload
  MaxErrors,   \* bound on errors of the buffer pool
  MaxReloads,  \* bound on write-backs with re-read
  NoOne        \* the owner of a free latch

ASSUME IndexAssumption ==
  /\ ByteBase \in Nat \ {0} /\ KeyWidth \in Nat \ {0}
  /\ MaxPages \in Nat /\ MaxCalls \in Nat /\ MaxErrors \in Nat /\ MaxReloads \in Nat
  /\ NoOne \notin Workers /\ Loader \in Workers

(* Keys reach the accessor as bytes. *)
Bytes == Seq(0..(ByteBase - 1))

(* The calls are those of the accessor: insert, get, scan and delete. *)
ASSUME CallAssumption ==
  /\ \A c \in Calls : /\ c.op \in {"insert", "get", "scan", "delete"}
                      /\ c.key \in Bytes /\ c.end \subseteq Bytes
  /\ Preloads \subseteq Seq(Bytes)

VARIABLES
  root,       \* IndexFileHeader.root_page, 0 for an empty tree
  pages,      \* contents of the pages, in the order of their allocation
  latch,      \* the owner of the write latch of every page
  dirty,      \* pages whose frame is marked dirty
  disk,       \* contents of the pages on disk
  task,       \* the running call of every task
  (* bounds and history variables *)
  todo,       \* keys left to preload
  budget,     \* calls, errors and reloads left
  index,      \* the entries put in and not deleted
  must, may,  \* entries that were there throughout, or at some time of, a call
  moved,      \* a split happened during the call of a task
  torn,       \* a split ended with an error
  raced,      \* an insert went down a tree that was not, or no longer, whole
  lost        \* a page was evicted with a change that was not marked

treeVars == <<root, pages, latch, dirty, disk>>
histVars == <<index, must, may, moved, torn, raced, lost>>
indexVars == <<treeVars, task, todo, budget, histVars>>

PageIds == 1..MaxPages

(* The bytes of a key are padded or cut to KeyWidth and read little-endian. *)
key_from_bytes(bytes) ==
  LET digit(i) == IF i <= Len(bytes) THEN bytes[i] ELSE 0
      value[i \in 0..KeyWidth] ==
        IF i = KeyWidth THEN 0 ELSE digit(i + 1) + ByteBase * value[i + 1]
  IN  value[0]

NoTask == [pc |-> "idle", call |-> [op |-> "none"], cur |-> 0, locked |-> <<>>,
           path |-> <<>>, leaf |-> 0, sib |-> 0, sep |-> 0, child |-> 0,
           first |-> TRUE, out |-> <<>>, res |-> "none"]

Key(w) == key_from_bytes(task[w].call.key)

Init ==
  /\ root = 0
  /\ pages = <<>>
  /\ latch = [p \in PageIds |-> NoOne]
  /\ dirty = {}
  /\ disk = <<>>
  /\ task = [w \in Workers |-> NoTask]
  /\ todo \in Preloads
  /\ budget = [calls |-> MaxCalls, errors |-> MaxErrors, reloads |-> MaxReloads]
  /\ index = {} /\ torn = FALSE /\ raced = FALSE /\ lost = FALSE
  /\ must = [w \in Workers |-> {}]
  /\ may = [w \in Workers |-> {}]
  /\ moved = [w \in Workers |-> FALSE]

-----------------------------------------------------------------------------
(* Helpers *)

Idle(w) == task[w].pc \in {"idle", "done"}

Free(p) == latch[p] = NoOne
Held(w) == {p \in PageIds : latch[p] = w}

(* A guard that goes out of scope keeps its latch. *)
Hold_Fault(w, ps) == latch' = [p \in PageIds |-> IF p \in ps THEN w ELSE latch[p]]

(* The latches of w are exactly those of ps from now on. *)
Hold(w, ps) ==
  latch' = [p \in PageIds |-> IF p \in ps THEN w ELSE IF latch[p] = w THEN NoOne ELSE latch[p]]

(* The call returns: every guard is dropped. *)
Return(w, res, out) ==
  /\ task' = [task EXCEPT ![w] = [NoTask EXCEPT !.pc = "done", !.call = task[w].call,
                                                !.res = res, !.out = out]]
  /\ Hold(w, {})

(* alloc_page: BufferPool::new_page gives the next logical page id. *)
NewPage == Len(pages) + 1
CanAlloc == NewPage \in PageIds

(* The new set of entries, for the calls that are running. *)
Observe(entries) ==
  /\ index' = entries
  /\ must' = [w \in Workers |-> IF Idle(w) THEN must[w] ELSE must[w] \cap entries]
  /\ may' = [w \in Workers |-> IF Idle(w) THEN may[w] ELSE may[w] \cup entries]

NoChange == UNCHANGED <<index, must, may>>

Splits == moved' = [w \in Workers |-> moved[w] \/ ~Idle(w)]

-----------------------------------------------------------------------------
(* The calls *)

(* A call has an operation, a key (the start of a scan), a record id and,  *)
(* for a scan, the set of its end keys, empty when there is none.          *)
Preload(k) == [op |-> "insert", key |-> k, rid |-> PreloadRid, end |-> {}]

Call(w, c) ==
  /\ Idle(w)
  /\ IF todo # <<>>
     THEN /\ w = Loader
          /\ c = Preload(Head(todo))
          /\ todo' = Tail(todo)
          /\ UNCHANGED budget
     ELSE /\ c \in Calls
          /\ budget.calls > 0
          /\ budget' = [budget EXCEPT !.calls = @ - 1]
          /\ UNCHANGED todo
  /\ task' = [task EXCEPT ![w] = [NoTask EXCEPT !.pc = "root", !.call = c]]
  /\ must' = [must EXCEPT ![w] = index]
  /\ may' = [may EXCEPT ![w] = index]
  /\ moved' = [moved EXCEPT ![w] = \E v \in Workers : task[v].pc \in {"sibling", "ancestors"}]
  /\ UNCHANGED <<treeVars, index, torn, raced, lost>>

(* read_root_page and what each call does with an empty tree. *)
ReadRoot(w) ==
  /\ task[w].pc = "root"
  /\ IF root # 0
     THEN /\ task' = [task EXCEPT ![w].pc = "descend", ![w].cur = root]
          /\ UNCHANGED latch
     ELSE CASE task[w].call.op = "insert" -> task' = [task EXCEPT ![w].pc = "first"] /\ UNCHANGED latch
            [] task[w].call.op = "scan" -> Return(w, "ok", <<>>)
            [] OTHER -> Return(w, "TupleNonExistent", <<>>)
  /\ UNCHANGED <<root, pages, dirty, disk, todo, budget, histVars>>

-----------------------------------------------------------------------------
(* insert *)

(* An empty tree: a leaf with the entry becomes the root, whatever the     *)
(* header says by then.                                                    *)
FirstInsert(w) ==
  LET leaf == insert_entry(init_leaf, Key(w), task[w].call.rid).page
  IN  /\ task[w].pc = "first"
      /\ CanAlloc
      /\ pages' = Append(pages, leaf)
      /\ dirty' = dirty \cup {NewPage}
      /\ root' = NewPage
      /\ Return(w, "ok", <<>>)
      /\ raced' = (raced \/ root # 0)
      /\ Observe(index \cup ToSet(leaf.entries))
      /\ UNCHANGED <<disk, todo, budget, moved, torn, lost>>

(* The root changes hands between the split of the old one and the header. *)
RootMoving == \E v \in Workers : task[v].pc = "ancestors" /\ task[v].locked = <<>>

(* The write latches above a page are released when it is safe. *)
Above(w, safe) == IF safe THEN <<>> ELSE task[w].locked

(* find_leaf_for_write goes on in a tree that misses a separator, or       *)
(* begins at a root that was read without a latch and is not the root, or  *)
(* not the whole tree, any more.                                           *)
Astray(w) ==
  \/ torn
  \/ task[w].locked = <<>> /\ (task[w].cur # root \/ RootMoving)

(* find_leaf_for_write on an inner page. *)
CrabInner(w) ==
  LET cur == task[w].cur
      locked == Append(Above(w, inner_safe_for_insert(pages[cur])), cur)
  IN  /\ task[w].pc = "descend" /\ task[w].call.op = "insert"
      /\ Free(cur)
      /\ pages[cur].kind = "inner"
      /\ task' = [task EXCEPT ![w].cur = find_child(pages[cur], Key(w)), ![w].locked = locked]
      /\ Hold(w, ToSet(locked))
      /\ raced' = (raced \/ Astray(w))
      /\ UNCHANGED <<root, pages, dirty, disk, todo, budget, index, must, may, moved, torn, lost>>

(* find_leaf_for_write on the leaf, then the simple insert.  Whether the   *)
(* latches above a safe leaf go before or after it makes no difference:    *)
(* nothing is fetched in between.  The frame is not marked dirty.          *)
LeafInsert(w) ==
  LET cur == task[w].cur
      ins == insert_entry(pages[cur], Key(w), task[w].call.rid)
  IN  /\ task[w].pc = "descend" /\ task[w].call.op = "insert"
      /\ Free(cur)
      /\ pages[cur].kind = "leaf"
      /\ ~leaf_needs_split(pages[cur])
      /\ pages' = [pages EXCEPT ![cur] = ins.page]
      /\ Return(w, IF ins.err = "" THEN "ok" ELSE "PageCorruption", <<>>)
      /\ IF ins.err = "" THEN Observe(index \cup {LeafEntry(Key(w), task[w].call.rid)})
                         ELSE NoChange
      /\ raced' = (raced \/ Astray(w))
      /\ UNCHANGED <<root, dirty, disk, todo, budget, moved, torn, lost>>

(* The entries of a split page with the new one in its place. *)
Merged(es, e) == InsertAt(es, Search(es, e.key).pos + 1, e)

(* The new leaf does not take over the link to the right sibling. *)
LeafHalves_Fault(page, num, new, e) ==
  LET es  == Merged(page.entries, e)
      mid == Len(es) \div 2
  IN  [sep |-> es[mid + 1].key,
       old |-> LeafPage(SubSeq(es, 1, mid), page.prev, new),
       new |-> LeafPage(SubSeq(es, mid + 1, Len(es)), num, 0)]

(* The leaf num keeps the lower half, the upper half goes to the leaf new. *)
LeafHalves(page, num, new, e) ==
  LET es  == Merged(page.entries, e)
      mid == Len(es) \div 2
  IN  [sep |-> es[mid + 1].key,
       old |-> LeafPage(SubSeq(es, 1, mid), page.prev, new),
       new |-> LeafPage(SubSeq(es, mid + 1, Len(es)), num, page.next)]

(* The link of the left sibling is corrected. *)
RightSibling_Fault(page, num) == page.prev

(* The leaf itself is fetched to correct its link. *)
RightSibling_SelfFault(page, num) == num

(* The page whose prev_page a split of the leaf num has to correct. *)
RightSibling(page, num) == page.next

(* find_leaf_for_write on a full leaf, then split_leaf up to the rebuilt   *)
(* old leaf.  The new page is marked dirty, the old one is not.            *)
LeafSplit(w) ==
  LET cur   == task[w].cur
      entry == LeafEntry(Key(w), task[w].call.rid)
      split == LeafHalves(pages[cur], cur, NewPage, entry)
      sib   == RightSibling(pages[cur], cur)
  IN  /\ task[w].pc = "descend" /\ task[w].call.op = "insert"
      /\ Free(cur)
      /\ pages[cur].kind = "leaf"
      /\ leaf_needs_split(pages[cur])
      /\ raced' = (raced \/ Astray(w))
      /\ IF find_slot(pages[cur], Key(w)).found
         THEN /\ Return(w, "PageCorruption", <<>>)
              /\ NoChange
              /\ UNCHANGED <<pages, dirty, moved>>
         ELSE /\ CanAlloc
              /\ pages' = Append([pages EXCEPT ![cur] = split.old], split.new)
              /\ dirty' = dirty \cup {NewPage}
              /\ task' = [task EXCEPT ![w].pc = IF sib = 0 THEN "ancestors" ELSE "sibling",
                                      ![w].leaf = cur, ![w].sib = sib,
                                      ![w].sep = split.sep, ![w].child = NewPage]
              /\ Hold(w, ToSet(task[w].locked) \cup (IF sib = 0 THEN {} ELSE {cur}))
              /\ Observe(index \cup {entry})
              /\ Splits
      /\ UNCHANGED <<root, disk, todo, budget, torn, lost>>

(* The end of split_leaf: the old right sibling, then the leaf is released. *)
SplitSibling(w) ==
  LET sib == task[w].sib
  IN  /\ task[w].pc = "sibling"
      /\ Free(sib)
      /\ pages' = [pages EXCEPT ![sib] = set_prev_page(@, task[w].child)]
      /\ dirty' = dirty \cup {sib}
      /\ task' = [task EXCEPT ![w].pc = "ancestors"]
      /\ Hold(w, ToSet(task[w].locked))
      /\ UNCHANGED <<root, disk, todo, budget, histVars>>

(* insert_into_ancestors_with_locks when the parent has room. *)
ParentInsert(w) ==
  LET parent == Last(task[w].locked)
      ins    == insert_separator(pages[parent], task[w].sep, task[w].child)
  IN  /\ task[w].pc = "ancestors"
      /\ task[w].locked # <<>>
      /\ ~inner_is_full(pages[parent])
      /\ pages' = [pages EXCEPT ![parent] = ins.page]
      /\ Return(w, IF ins.err = "" THEN "ok" ELSE "PageCorruption", <<>>)
      /\ torn' = (torn \/ ins.err # "")
      /\ UNCHANGED <<root, dirty, disk, todo, budget, index, must, may, moved, raced, lost>>

(* The new page takes the child before the middle separator as well. *)
split_inner_Fault(page, sep, child) ==
  LET es  == Merged(page.entries, InnerEntry(sep, child))
      mid == Len(es) \div 2
  IN  [sep |-> es[mid + 1].key,
       new |-> InnerPage(SubSeq(es, mid + 2, Len(es)), es[mid].child),
       old |-> InnerPage(SubSeq(es, 1, mid), page.leftmost)]

(* split_inner: the middle separator moves up, its child becomes leftmost  *)
(* in the new page.                                                        *)
split_inner(page, sep, child) ==
  LET es  == Merged(page.entries, InnerEntry(sep, child))
      mid == Len(es) \div 2
  IN  [sep |-> es[mid + 1].key,
       new |-> InnerPage(SubSeq(es, mid + 2, Len(es)), es[mid + 1].child),
       old |-> InnerPage(SubSeq(es, 1, mid), page.leftmost)]

(* insert_into_ancestors_with_locks when the parent is full. *)
ParentSplit(w) ==
  LET parent == Last(task[w].locked)
      split  == split_inner(pages[parent], task[w].sep, task[w].child)
  IN  /\ task[w].pc = "ancestors"
      /\ task[w].locked # <<>>
      /\ inner_is_full(pages[parent])
      /\ IF find_separator_slot(pages[parent], task[w].sep).found
         THEN /\ Return(w, "PageCorruption", <<>>)
              /\ torn' = TRUE
              /\ UNCHANGED <<pages, dirty, moved>>
         ELSE /\ CanAlloc
              /\ pages' = Append([pages EXCEPT ![parent] = split.old], split.new)
              /\ dirty' = dirty \cup {NewPage}
              /\ task' = [task EXCEPT ![w].locked = Front(@),
                                      ![w].sep = split.sep, ![w].child = NewPage]
              /\ Hold(w, ToSet(Front(task[w].locked)))
              /\ Splits
              /\ UNCHANGED torn
      /\ UNCHANGED <<root, disk, todo, budget, index, must, may, raced, lost>>

(* No ancestor is left: alloc_and_set_root, then the new root is filled.   *)
(* Its latch is held from the allocation on, so nobody sees it before.     *)
NewRoot(w) ==
  LET top == insert_separator(init_inner(root), task[w].sep, task[w].child).page
  IN  /\ task[w].pc = "ancestors"
      /\ task[w].locked = <<>>
      /\ CanAlloc
      /\ pages' = Append(pages, top)
      /\ dirty' = dirty \cup {NewPage}
      /\ root' = NewPage
      /\ Return(w, "ok", <<>>)
      /\ UNCHANGED <<disk, todo, budget, histVars>>

(* The separator of a split moves up until a parent has room for it. *)
InsertIntoAncestors(w) == ParentInsert(w) \/ ParentSplit(w) \/ NewRoot(w)

-----------------------------------------------------------------------------
(* get, scan and delete *)

(* find_leaf and find_leaf_with_path, one page: the latch is released      *)
(* before the next page is fetched, that of the leaf included.             *)
Descend(w) ==
  LET cur == task[w].cur
  IN  /\ task[w].pc = "descend" /\ task[w].call.op # "insert"
      /\ Free(cur)
      /\ task' = IF pages[cur].kind = "inner"
                 THEN [task EXCEPT ![w].cur = find_child(pages[cur], Key(w)),
                                   ![w].path = IF task[w].call.op = "delete" THEN Append(@, cur)
                                                                             ELSE @]
                 ELSE [task EXCEPT ![w].pc = task[w].call.op]
      /\ UNCHANGED <<treeVars, todo, budget, histVars>>

(* get: the leaf is fetched again and searched. *)
Get(w) ==
  LET found == lookup(pages[task[w].cur], Key(w))
  IN  /\ task[w].pc = "get"
      /\ Free(task[w].cur)
      /\ Return(w, IF found = {} THEN "TupleNonExistent" ELSE "ok", SetToSeq(found))
      /\ UNCHANGED <<root, pages, dirty, disk, todo, budget, histVars>>

(* The start key itself is skipped. *)
BeforeStart_Fault(w, e) == task[w].first /\ e.key <= Key(w)

(* The start bound applies to the first leaf only. *)
BeforeStart(w, e) == task[w].first /\ e.key < Key(w)

PastEnd(w, e) == \E b \in task[w].call.end : e.key > key_from_bytes(b)

(* The entries of a leaf that the stream buffers, up to the end bound. *)
Buffered(w, es) ==
  LET read[i \in 0..Len(es)] ==
        IF i = 0 THEN [buf |-> <<>>, done |-> FALSE]
        ELSE LET so == read[i - 1]
             IN  IF so.done \/ BeforeStart(w, es[i]) THEN so
                 ELSE IF PastEnd(w, es[i]) THEN [buf |-> so.buf, done |-> TRUE]
                 ELSE [buf |-> Append(so.buf, es[i]), done |-> FALSE]
  IN  read[Len(es)]

(* What a stream that is read to its end gives of them.  When the end      *)
(* bound is met, done is set while the entries before it are still         *)
(* buffered, and every later poll of the stream returns None at once.      *)
Yielded(so) == IF so.done /\ so.buf # <<>> THEN <<so.buf[1]>> ELSE so.buf

(* scan: one leaf, then on to its right sibling. *)
ScanLeaf(w) ==
  LET leaf == pages[task[w].cur]
      so   == Buffered(w, leaf.entries)
      out  == task[w].out \o Yielded(so)
  IN  /\ task[w].pc = "scan"
      /\ Free(task[w].cur)
      /\ IF leaf.next = 0 \/ so.done THEN Return(w, "ok", out)
         ELSE /\ task' = [task EXCEPT ![w].cur = leaf.next, ![w].first = FALSE, ![w].out = out]
              /\ UNCHANGED latch
      /\ UNCHANGED <<root, pages, dirty, disk, todo, budget, histVars>>

(* The record id is not compared. *)
Matches_Fault(page, slot, rid) == slot.found

(* delete removes the entry of the key only if it is for this record. *)
Matches(page, slot, rid) == slot.found /\ page.entries[slot.pos + 1].rid = rid

(* delete, up to the decision to merge: the leaf is fetched again, the     *)
(* entry removed and the frame marked dirty.  The guard of the leaf is     *)
(* still held in try_merge_leaf, which returns at once for a root leaf.    *)
DeleteLeaf(w) ==
  LET cur  == task[w].cur
      slot == find_slot(pages[cur], Key(w))
      rest == delete_entry(pages[cur], slot.pos).page
  IN  /\ task[w].pc = "delete"
      /\ Free(cur)
      /\ IF ~Matches(pages[cur], slot, task[w].call.rid)
         THEN /\ Return(w, "TupleNonExistent", <<>>)
              /\ NoChange
              /\ UNCHANGED <<pages, dirty>>
         ELSE /\ pages' = [pages EXCEPT ![cur] = rest]
              /\ dirty' = dirty \cup {cur}
              /\ Observe({e \in index : e.key # Key(w)})
              /\ IF leaf_can_merge(rest) /\ task[w].path # <<>>
                 THEN task' = [task EXCEPT ![w].pc = "merge"] /\ Hold(w, {cur})
                 ELSE Return(w, "ok", <<>>)
      /\ UNCHANGED <<root, disk, todo, budget, moved, torn, raced, lost>>

(* find_merge_candidate: the surviving page of the pair, as a set; empty   *)
(* when the leaf is not a child of the page or has no sibling.             *)
MergeSurvivors(page, leaf) ==
  IF page.entries = <<>> THEN {}
  ELSE IF page.leftmost = leaf THEN {leaf}
  ELSE {IF i = 1 THEN page.leftmost ELSE page.entries[i - 1].child :
          i \in {j \in DOMAIN page.entries : page.entries[j].child = leaf}}

(* try_merge_leaf: the parent is latched, then the survivor.  One page of  *)
(* the pair is the leaf, whose latch the caller holds, so its fetch never  *)
(* returns: a survivor to the left can still be latched, after which the   *)
(* fetch of the removed page, the leaf, waits.  What try_merge_leaf does   *)
(* after that cannot be reached.                                           *)
MergeParent(w) ==
  LET parent == Last(task[w].path)
  IN  /\ task[w].pc = "merge"
      /\ Free(parent)
      /\ IF MergeSurvivors(pages[parent], task[w].cur) = {}
         THEN Return(w, "ok", <<>>)
         ELSE /\ task' = [task EXCEPT ![w].pc = "survivor", ![w].leaf = parent,
                            ![w].sib = CHOOSE p \in MergeSurvivors(pages[parent], task[w].cur) : TRUE]
              /\ Hold(w, {task[w].cur, parent})
      /\ UNCHANGED <<root, pages, dirty, disk, todo, budget, histVars>>

MergeSurvivor(w) ==
  /\ task[w].pc = "survivor"
  /\ Free(task[w].sib)
  /\ task' = [task EXCEPT ![w].pc = "removed", ![w].sib = task[w].cur]
  /\ Hold(w, Held(w) \cup {task[w].sib})
  /\ UNCHANGED <<root, pages, dirty, disk, todo, budget, histVars>>

-----------------------------------------------------------------------------
(* The buffer pool *)

(* The next step asks the pool for a page.  A parent with room is at hand, *)
(* and the fetch of a page that the task itself has latched only waits.    *)
Fetches(w) ==
  CASE task[w].pc = "ancestors" /\ task[w].locked # <<>> -> inner_is_full(pages[Last(task[w].locked)])
    [] task[w].pc \in {"survivor", "removed"} -> task[w].sib # task[w].cur
    [] OTHER -> ~Idle(w)

(* A fetch or an allocation fails: every guard is dropped.  An insert that *)
(* has split a leaf leaves its separator out of the parent.                *)
Fail(w) ==
  /\ Fetches(w)
  /\ todo = <<>>
  /\ budget.errors > 0
  /\ budget' = [budget EXCEPT !.errors = @ - 1]
  /\ Return(w, "BufferError", <<>>)
  /\ torn' = (torn \/ task[w].pc \in {"sibling", "ancestors"})
  /\ UNCHANGED <<root, pages, dirty, disk, todo, index, must, may, moved, raced, lost>>

(* Between calls every page is evicted and read again: marked pages are    *)
(* written, changes of the others are lost.                                *)
Reload ==
  /\ \A w \in Workers : Idle(w)
  /\ todo = <<>>
  /\ budget.reloads > 0
  /\ budget' = [budget EXCEPT !.reloads = @ - 1]
  /\ pages' = [p \in DOMAIN pages |-> IF p \in dirty THEN pages[p] ELSE disk[p]]
  /\ disk' = pages'
  /\ dirty' = {}
  /\ lost' = (lost \/ pages' # pages)
  /\ UNCHANGED <<root, latch, task, todo, index, must, may, moved, torn, raced>>

-----------------------------------------------------------------------------
Work(w) ==
  \/ ReadRoot(w) \/ FirstInsert(w) \/ CrabInner(w) \/ LeafInsert(w) \/ LeafSplit(w)
  \/ SplitSibling(w) \/ InsertIntoAncestors(w)
  \/ Descend(w) \/ Get(w) \/ ScanLeaf(w) \/ DeleteLeaf(w) \/ MergeParent(w) \/ MergeSurvivor(w)

Next ==
  \/ \E w \in Workers : Work(w) \/ Fail(w) \/ \E c \in Calls \cup {Preload(k) : k \in ToSet(todo)} : Call(w, c)
  \/ Reload

Spec == Init /\ [][Next]_indexVars

(* The executor polls every task; the latches are fair. *)
FairSpec == Spec /\ \A w \in Workers : WF_indexVars(Work(w))

-----------------------------------------------------------------------------
(* Properties *)

(* Type invariant: the root, the children and the right links lead to      *)
(* allocated pages, pages hold no more than fits, and a task holds the     *)
(* latches of its locked path and none when it is idle.                    *)
IndexTypeOK ==
  /\ root \in 0..Len(pages) /\ Len(pages) <= MaxPages
  /\ latch \in [PageIds -> Workers \cup {NoOne}]
  /\ dirty \subseteq DOMAIN pages
  /\ \A p \in DOMAIN pages :
       LET pg == pages[p] IN
       CASE pg.kind = "leaf" ->
              /\ Len(pg.entries) <= LeafMax
              /\ pg.next # 0 => pg.next \in DOMAIN pages /\ pages[pg.next].kind = "leaf"
         [] pg.kind = "inner" ->
              /\ Len(pg.entries) <= InnerMax
              /\ pg.leftmost \in DOMAIN pages
              /\ \A i \in DOMAIN pg.entries : pg.entries[i].child \in DOMAIN pages
  /\ \A w \in Workers :
       /\ ToSet(task[w].locked) \subseteq Held(w)
       /\ Idle(w) => Held(w) = {}

(* The leaf a descent from the root ends at, and the first leaf. *)
LeafFor(k) ==
  LET down[p \in DOMAIN pages] ==
        IF pages[p].kind = "leaf" THEN p ELSE down[find_child(pages[p], k)]
  IN  down[root]

(* The entries of n leaves from p on, along next_page. *)
Chain(p, n) ==
  LET leaves == {q \in DOMAIN pages : pages[q].kind = "leaf"}
      from[m \in 0..n] ==
        [q \in leaves \cup {0} |->
           IF q = 0 \/ m = 0 THEN <<>> ELSE pages[q].entries \o from[m - 1][pages[q].next]]
  IN  from[n][p]

(* Every insert went down a whole tree from its root, and every change of  *)
(* a page outlived its eviction.                                           *)
Intact == ~raced /\ ~lost

Unfinished == \E w \in Workers : task[w].pc \in {"sibling", "ancestors"}

(* In every state, also inside a split and after an error of the pool, the *)
(* leaves from the first one on hold exactly the entries that were put in  *)
(* and not deleted, in ascending order, as long as the tree is Intact.     *)
ChainExact ==
  Intact =>
    IF root = 0 THEN index = {}
    ELSE LET chain == Chain(LeafFor(-1), Len(pages))
         IN  Ascending(chain) /\ ToSet(chain) = index

(* A descent ends at the leaf of the key; while a split is on its way up,  *)
(* or after one that failed, at a leaf from which the links to the right   *)
(* lead to it.                                                             *)
DescentReaches ==
  Intact /\ root # 0 =>
    \A e \in index :
      LET leaf == LeafFor(e.key)
          n    == IF Unfinished \/ torn THEN Len(pages) ELSE 1
      IN  e \in ToSet(Chain(leaf, n))

(* Neighbours agree on their links, except for the neighbour that a split  *)
(* still has to correct.                                                   *)
SiblingsAgree ==
  Intact /\ ~torn =>
    \A p \in DOMAIN pages :
      pages[p].kind = "leaf" /\ pages[p].next # 0 =>
        \/ pages[pages[p].next].prev = p
        \/ \E w \in Workers : task[w].pc = "sibling" /\ task[w].sib = pages[p].next

Done(w, op) == task[w].pc = "done" /\ task[w].call.op = op

(* An answer is right for some moment of the call: get and delete find     *)
(* what was there throughout unless a split came in between (or one        *)
(* failed before), get returns only what was there, and an insert is       *)
(* refused only for a key that was there.                                  *)
AnswersExact ==
  \A w \in Workers :
    LET call == task[w].call
        sure == ~torn /\ ~moved[w]
    IN  Intact =>
        /\ Done(w, "get") /\ task[w].res = "ok" =>
             LeafEntry(Key(w), task[w].out[1]) \in may[w]
        /\ Done(w, "get") /\ task[w].res = "TupleNonExistent" /\ sure =>
             \A e \in must[w] : e.key # Key(w)
        /\ Done(w, "delete") /\ task[w].res = "ok" =>
             LeafEntry(Key(w), call.rid) \in may[w]
        /\ Done(w, "delete") /\ task[w].res = "TupleNonExistent" /\ sure =>
             LeafEntry(Key(w), call.rid) \notin must[w]
        /\ Done(w, "insert") /\ task[w].res = "PageCorruption" =>
             \E e \in may[w] : e.key = Key(w)

(* A scan gives entries between its bounds that were there, in order; one  *)
(* without an end key gives every entry from its start on that was there   *)
(* throughout, whatever splits happen.  Only a split can make a scan give  *)
(* entries before its start.                                               *)
ScanExact ==
  \A w \in Workers :
    Done(w, "scan") /\ task[w].res = "ok" /\ Intact =>
      LET out == task[w].out
      IN  /\ Ascending(out)
          /\ ToSet(out) \subseteq may[w]
          /\ \A e \in ToSet(out) : ~PastEnd(w, e)
          /\ ~moved[w] /\ ~torn => \A e \in ToSet(out) : e.key >= Key(w)
          /\ task[w].call.end = {} =>
               \A e \in must[w] : e.key >= Key(w) => e \in ToSet(out)

(* "scan entries in key order until end_key is exceeded": a scan gives     *)
(* every entry between its bounds.                                         *)
ScanComplete ==
  \A w \in Workers :
    Done(w, "scan") /\ task[w].res = "ok" /\ Intact =>
      \A e \in must[w] :
        e.key >= Key(w) /\ ~PastEnd(w, e) => e \in ToSet(task[w].out)

(* The page a task waits for or is about to fetch. *)
Wants(w) ==
  CASE task[w].pc \in {"descend", "get", "scan", "delete"} -> {task[w].cur}
    [] task[w].pc \in {"sibling", "survivor", "removed"} -> {task[w].sib}
    [] task[w].pc = "merge" -> {Last(task[w].path)}
    [] OTHER -> {}

(* No set of tasks wait for each other's latches, unless one of them is a  *)
(* delete that merges: splits take latches downwards and to the right.     *)
OnlyMergesBlock ==
  \A group \in (SUBSET Workers) \ {{}} :
    \/ \E w \in group : \A p \in Wants(w) : latch[p] \notin group
    \/ \E w \in group : task[w].pc \in {"merge", "survivor", "removed"}

(* Every call returns, or a delete is in its merge. *)
CallsReturn ==
  \A w \in Workers :
    ~Idle(w) ~> \/ Idle(w)
                \/ \E v \in Workers : task[v].pc \in {"merge", "survivor", "removed"}
=============================================================================
