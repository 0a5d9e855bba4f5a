--------------------------- MODULE PageDirectory ---------------------------
(***************************************************************************)
(* BTreePageDirectory, src/storage/directory/directory.rs: the B+tree from *)
(* logical page ids to locations, with its page cache, dirty set and file. *)
(* DiskManager, which calls it, completes the specification.               *)
(*                                                                         *)
(* No lock is held across two accesses: a call copies a page out of the    *)
(* cache, changes the copy and puts it back.  A step is one access to the  *)
(* cache, the dirty set, the root, the page counter or the file; the       *)
(* counter and the root are read with the access next to it.  Only         *)
(* flush_all_dirty keeps the cache lock, for reading, until it is done.    *)
(*                                                                         *)
(* A definition ending in Fault is a wrong version of the one after it.    *)
(***************************************************************************)
EXTENDS DirectoryPage

CONSTANTS
  Tasks,       \* tasks that use the disk manager
  MaxDirPages  \* bound on pages of the directory file

ASSUME DirectoryAssumption == MaxDirPages \in Nat \ {0}

VARIABLES
  cache,      \* cached pages: a function on the ids of the cached pages
  dirty,      \* ids of pages to be flushed
  next_dir_page, root_page,
  disk,       \* the directory file: a function on the ids of written pages
  task,       \* the running call of every task
  (* history variables *)
  map,        \* <<logical id, location>> by the calls that took effect
  must, may,  \* mappings a lookup has to find, or may find
  moved,      \* another call split a page during the call of a task
  raced,      \* a page or the root was put back over a change of another call
  torn,       \* a split ended with an error, or a crash found half a flush
  reused,     \* alloc_dir_page gave out a page in use
  saved, stable  \* the mappings at the last flush; no page written since

dirVars  == <<cache, dirty, next_dir_page, root_page, disk>>
pastVars == <<map, saved, stable>>
watchVars == <<must, may, moved>>
flagVars == <<raced, torn, reused>>

NoPage == [kind |-> "none"]
NoLoc  == [file |-> 0, offset |-> 0]

NoTask == [pc |-> "idle", call |-> [op |-> "none"], key |-> 0, loc |-> NoLoc, root |-> 0,
           cur |-> 0, path |-> <<>>, buf |-> NoPage, copy |-> NoPage, old |-> <<>>,
           left |-> 0, sep |-> 0, child |-> 0, writes |-> <<>>, then |-> "none",
           snap |-> {}, todo |-> {}, res |-> "none", out |-> <<>>]

Idle(t)     == task[t].pc \in {"idle", "done"}
Running(t)  == ~Idle(t)
Changing(t) == Running(t) /\ task[t].call.op \in {"new", "update", "delete"}

(* The mappings that running calls may add, and the ids they may take out. *)
Arriving == {<<task[t].key, task[t].loc>> : t \in {u \in Tasks : Changing(u) /\ task[u].loc # NoLoc}}
Leaving  == {task[t].key : t \in {u \in Tasks : Changing(u) /\ task[u].call.op # "new"}}
Splitting == \E t \in Tasks : Running(t) /\ task[t].child # 0

Without(m, k) == {e \in m : e[1] # k}

(* open on a path without a file: init_new writes the header page. *)
init_new ==
  /\ cache = <<>>
  /\ dirty = {}
  /\ next_dir_page = 1 /\ root_page = 0
  /\ disk = [p \in {0} |-> init_header]

DirInit ==
  /\ init_new
  /\ task = [t \in Tasks |-> NoTask]
  /\ map = {} /\ saved = {} /\ stable = TRUE
  /\ must = [t \in Tasks |-> {}] /\ may = [t \in Tasks |-> {}]
  /\ moved = [t \in Tasks |-> FALSE]
  /\ raced = FALSE /\ torn = FALSE /\ reused = FALSE

(* open on a path with a file: load_header takes the root and the counter. *)
load_header ==
  /\ cache' = <<>>
  /\ dirty' = {}
  /\ root_page' = disk[0].root
  /\ next_dir_page' = (IF disk[0].next = 0 THEN 1 ELSE disk[0].next)
  /\ UNCHANGED disk

-----------------------------------------------------------------------------
(* Helpers *)

Return(t, res, out) ==
  task' = [task EXCEPT ![t] = [NoTask EXCEPT !.pc = "done", !.call = task[t].call,
                                             !.key = task[t].key, !.res = res, !.out = out]]

(* An error after the first page of a split leaves half of it. *)
ReturnError(t, res) == Return(t, res, <<>>) /\ torn' = (torn \/ task[t].child # 0)

(* What a call does to the mappings when its last page, or root, is in     *)
(* place.                                                                  *)
Effect(t) ==
  LET arrived == {<<task[t].key, task[t].loc>>}
  IN  CASE task[t].call.op = "new"    -> map \cup arrived
        [] task[t].call.op = "update" -> Without(map, task[t].key) \cup arrived
        [] task[t].call.op = "delete" -> Without(map, task[t].key)

(* flush_all_dirty drops the lock of the cache before it clears the marks. *)
CacheLocked_Fault == \E t \in Tasks : task[t].pc = "flushing" /\ task[t].todo # {}

(* A flush has the cache locked for reading until it returns. *)
CacheLocked == \E t \in Tasks : task[t].pc = "flushing"

(* read_page in a step of task t: the cached page, or the one read before. *)
Has(t, p)  == task[t].buf # NoPage \/ p \in DOMAIN cache
Page(t, p) == IF task[t].buf # NoPage THEN task[t].buf ELSE cache[p]

With(f, p, page) == [q \in DOMAIN f \cup {p} |-> IF q = p THEN page ELSE f[q]]

(* A page below the end of the file that was never written is all zero. *)
ZeroPage  == [kind |-> "zero", entries |-> <<>>, prev |-> 0, next |-> 0]
OnDisk(p) == IF p \in DOMAIN disk THEN disk[p] ELSE ZeroPage

(* The page read from the file enters the cache, whatever is there by now. *)
Fill(t, p) ==
  IF task[t].buf = NoPage THEN UNCHANGED <<cache, raced>>
  ELSE /\ ~CacheLocked
       /\ cache' = With(cache, p, task[t].buf)
       /\ raced' = (raced \/ task[t].buf # OnDisk(p) \/ (p \in DOMAIN cache /\ cache[p] # task[t].buf))

(* The page a task reads next. *)
Wanted(t) ==
  CASE task[t].pc \in {"descend", "leaf", "sibling"} -> {task[t].cur}
    [] task[t].pc = "ancestors" -> {Last(task[t].path)}
    [] task[t].pc = "header" -> {0}
    [] OTHER -> {}

(* read_page of a page that is not cached: it is read from the file. *)
ReadFile(t) ==
  \E p \in Wanted(t) :
    /\ ~Has(t, p)
    /\ IF \E q \in DOMAIN disk : q >= p
       THEN /\ task' = [task EXCEPT ![t].buf = OnDisk(p)]
            /\ UNCHANGED torn
       ELSE ReturnError(t, "IOError")
    /\ UNCHANGED <<dirVars, pastVars, watchVars, raced, reused>>

alloc_dir_page ==
  /\ next_dir_page < MaxDirPages
  /\ next_dir_page' = next_dir_page + 1
  /\ reused' = (reused \/ next_dir_page \in DOMAIN disk \cup DOMAIN cache)

(* A page to be written, with the copy it was made from. *)
W(id, page, base) == [id |-> id, page |-> page, base |-> base]

Changed(w) ==
  IF w.base = NoPage THEN w.id \in DOMAIN cache
  ELSE w.id \notin DOMAIN cache \/ cache[w.id] # w.base

(* write_page, first half: the page goes to the cache. *)
CachePut(t) ==
  LET w == Head(task[t].writes)
  IN  /\ task[t].pc = "put"
      /\ ~CacheLocked
      /\ cache' = With(cache, w.id, w.page)
      /\ task' = [task EXCEPT ![t].pc = "mark"]
      /\ map' = IF Len(task[t].writes) = 1 /\ task[t].then = "return" /\ w.id # 0 THEN Effect(t) ELSE map
      /\ raced' = (raced \/ moved[t] \/ Changed(w))
      /\ moved' = [u \in Tasks |-> moved[u] \/ (u # t /\ Running(u) /\ task[t].child # 0)]
      /\ UNCHANGED <<dirty, next_dir_page, root_page, disk, saved, stable, must, may, torn, reused>>

(* The pages to be written are not dropped when the call goes on. *)
DirtyMark_Fault(t) ==
  /\ task[t].pc = "mark"
  /\ dirty' = dirty \cup {Head(task[t].writes).id}
  /\ IF task[t].then = "return" THEN Return(t, "ok", <<>>)
     ELSE task' = [task EXCEPT ![t].pc = task[t].then]
  /\ UNCHANGED <<cache, next_dir_page, root_page, disk, pastVars, watchVars, flagVars>>

(* write_page, second half: the page is marked, and the call goes on. *)
DirtyMark(t) ==
  /\ task[t].pc = "mark"
  /\ dirty' = dirty \cup {Head(task[t].writes).id}
  /\ IF Len(task[t].writes) > 1
     THEN task' = [task EXCEPT ![t].pc = "put", ![t].writes = Tail(@)]
     ELSE IF task[t].then = "return" THEN Return(t, "ok", <<>>)
     ELSE task' = [task EXCEPT ![t].pc = task[t].then, ![t].writes = <<>>]
  /\ UNCHANGED <<cache, next_dir_page, root_page, disk, pastVars, watchVars, flagVars>>

(* write_page of the pages ws in order, then on to the place next. *)
Writing(tk, ws, next) == [tk EXCEPT !.pc = "put", !.writes = ws, !.then = next,
                                    !.buf = NoPage, !.copy = NoPage, !.old = <<>>]

-----------------------------------------------------------------------------
(* find_leaf and find_leaf_with_path *)

ReadRoot(t) ==
  /\ task[t].pc = "root"
  /\ IF root_page # 0
     THEN task' = [task EXCEPT ![t].pc = "descend", ![t].cur = root_page, ![t].root = root_page]
     ELSE IF task[t].call.op = "new" THEN task' = [task EXCEPT ![t].pc = "first"]
     ELSE Return(t, "PageNotFound", <<>>)
  /\ UNCHANGED <<dirVars, pastVars, watchVars, flagVars>>

Descend(t) ==
  LET cur == task[t].cur
      page == Page(t, cur)
  IN  /\ task[t].pc = "descend"
      /\ Has(t, cur)
      /\ Fill(t, cur)
      /\ CASE page.kind = "inner" ->
                 task' = [task EXCEPT ![t].cur = find_child(page, task[t].key),
                                      ![t].path = Append(@, cur), ![t].buf = NoPage]
           [] page.kind = "leaf" -> task' = [task EXCEPT ![t].pc = "leaf", ![t].buf = NoPage]
           [] OTHER -> Return(t, "PageCorruption", <<>>)
      /\ UNCHANGED <<dirty, next_dir_page, root_page, disk, pastVars, watchVars, torn, reused>>

(* The rest of lookup, for the two calls of the disk manager that need it. *)
LookupLeaf(t) ==
  LET hit == lookup(Page(t, task[t].cur), task[t].key)
  IN  /\ task[t].pc = "leaf" /\ task[t].call.op \in {"read", "write"}
      /\ IF hit = {} THEN Return(t, "PageNotFound", <<>>)
         ELSE \E loc \in hit : task' = [task EXCEPT ![t].pc = "found", ![t].loc = loc]
      /\ UNCHANGED <<dirVars, pastVars, watchVars, flagVars>>

(* The rest of update_page and delete_page. *)
ChangeLeaf(t) ==
  LET cur  == task[t].cur
      page == Page(t, cur)
      done == IF task[t].call.op = "update" THEN update_entry(page, task[t].key, task[t].loc)
              ELSE delete_by_key(page, task[t].key)
  IN  /\ task[t].pc = "leaf" /\ task[t].call.op \in {"update", "delete"}
      /\ IF done.found THEN task' = [task EXCEPT ![t] = Writing(@, <<W(cur, done.page, page)>>, "return")]
         ELSE Return(t, "PageNotFound", <<>>)
      /\ UNCHANGED <<dirVars, pastVars, watchVars, flagVars>>

-----------------------------------------------------------------------------
(* add_page *)

(* The first page of an empty tree. *)
AddFirst(t) ==
  /\ task[t].pc = "first"
  /\ alloc_dir_page
  /\ task' = [task EXCEPT ![t] =
       [Writing(@, <<W(next_dir_page, insert_entry(init_leaf, task[t].key, task[t].loc).page, NoPage)>>, "setroot")
          EXCEPT !.cur = next_dir_page]]
  /\ UNCHANGED <<cache, dirty, root_page, disk, pastVars, watchVars, raced, torn>>

(* A leaf with room takes the entry; a full one is split next. *)
AddLeaf(t) ==
  LET cur  == task[t].cur
      page == Page(t, cur)
      done == insert_entry(page, task[t].key, task[t].loc)
  IN  /\ task[t].pc = "leaf" /\ task[t].call.op = "new"
      /\ IF leaf_needs_split(page)
         THEN IF find_slot(page, task[t].key).found THEN Return(t, "DuplicatePage", <<>>)
              ELSE task' = [task EXCEPT ![t].pc = "split", ![t].copy = page]
         ELSE IF done.err # "" THEN Return(t, "PageCorruption", <<>>)
         ELSE task' = [task EXCEPT ![t] = Writing(@, <<W(cur, done.page, page)>>, "return")]
      /\ UNCHANGED <<dirVars, pastVars, watchVars, flagVars>>

(* The entries es with e, cut in the middle: <<lower, upper>>. *)
Halves(es, e) ==
  LET all == PutEntry(es, Len(es) + 1, e).entries
      mid == Len(all) \div 2
  IN  <<SubSeq(all, 1, mid), SubSeq(all, mid + 1, Len(all))>>

(* split_leaf: the two pages that replace leaf id, the upper one being new. *)
SplitLeafPages(leaf, id, new, e) ==
  LET half == Halves(leaf.entries, e)
  IN  [lower |-> LeafPage(half[1], leaf.prev, new), upper |-> LeafPage(half[2], id, leaf.next)]

AfterLeaf(t) == IF task[t].path = <<>> THEN "newroot" ELSE "ancestors"

SplitLeaf(t) ==
  LET cur   == task[t].cur
      leaf  == task[t].copy
      split == SplitLeafPages(leaf, cur, next_dir_page, from_ppage_id(task[t].key, task[t].loc))
      new   == W(next_dir_page, split.upper, NoPage)
      old   == W(cur, split.lower, leaf)
      tk    == [task[t] EXCEPT !.child = next_dir_page, !.sep = split.upper.entries[1].key,
                               !.left = IF task[t].path = <<>> THEN cur ELSE 0]
  IN  /\ task[t].pc = "split"
      /\ alloc_dir_page
      /\ task' = [task EXCEPT ![t] =
           IF leaf.next = 0 THEN Writing(tk, <<new, old>>, AfterLeaf(t))
           ELSE [Writing(tk, <<new>>, "sibling") EXCEPT !.cur = leaf.next, !.old = <<old>>]]
      /\ UNCHANGED <<cache, dirty, root_page, disk, pastVars, watchVars, raced, torn>>

(* The leaf after the split one points back to the new one. *)
SplitSibling(t) ==
  LET cur  == task[t].cur
      page == Page(t, cur)
  IN  /\ task[t].pc = "sibling"
      /\ Has(t, cur)
      /\ Fill(t, cur)
      /\ task' = [task EXCEPT ![t] =
           Writing(@, <<W(cur, set_prev_page(page, task[t].child), page)>> \o task[t].old, AfterLeaf(t))]
      /\ UNCHANGED <<dirty, next_dir_page, root_page, disk, pastVars, watchVars, torn, reused>>

(* insert_into_ancestors: a parent with room takes the separator. *)
Ancestors(t) ==
  LET p    == Last(task[t].path)
      page == Page(t, p)
      done == insert_separator(page, task[t].sep, task[t].child)
  IN  /\ task[t].pc = "ancestors"
      /\ Has(t, p)
      /\ Fill(t, p)
      /\ IF find_separator_slot(page, task[t].sep).found THEN ReturnError(t, "PageCorruption")
         ELSE /\ task' = [task EXCEPT ![t] =
                   IF inner_is_full(page) THEN [@ EXCEPT !.pc = "splitinner", !.copy = page, !.buf = NoPage]
                   ELSE Writing(@, <<W(p, done.page, page)>>, "return")]
              /\ UNCHANGED torn
      /\ UNCHANGED <<dirty, next_dir_page, root_page, disk, pastVars, watchVars, reused>>

(* The new page begins with the leftmost child of the old one. *)
SplitInnerPages_Fault(page, sep, child) ==
  LET half == Halves(page.entries, InnerEntry(sep, child))
  IN  [lower |-> InnerPage(half[1], page.leftmost), up |-> half[2][1].key,
       upper |-> InnerPage(Tail(half[2]), page.leftmost)]

(* split_inner: the middle separator goes up, its child is the leftmost    *)
(* child of the new page.                                                  *)
SplitInnerPages(page, sep, child) ==
  LET half == Halves(page.entries, InnerEntry(sep, child))
  IN  [lower |-> InnerPage(half[1], page.leftmost), up |-> half[2][1].key,
       upper |-> InnerPage(Tail(half[2]), half[2][1].child)]

SplitInner(t) ==
  LET p     == Last(task[t].path)
      page  == task[t].copy
      split == SplitInnerPages(page, task[t].sep, task[t].child)
      path  == Front(task[t].path)
      tk    == [task[t] EXCEPT !.path = path, !.sep = split.up, !.child = next_dir_page]
  IN  /\ task[t].pc = "splitinner"
      /\ alloc_dir_page
      /\ task' = [task EXCEPT ![t] =
           Writing(tk, <<W(next_dir_page, split.upper, NoPage), W(p, split.lower, page)>>,
                   IF path = <<>> THEN "newroot" ELSE "ancestors")]
      /\ UNCHANGED <<cache, dirty, root_page, disk, pastVars, watchVars, raced, torn>>

(* The split leaf was the root, or all its ancestors were split. *)
NewRoot(t) ==
  LET leftmost == IF task[t].left # 0 THEN task[t].left ELSE root_page
      page == insert_separator(init_inner(leftmost), task[t].sep, task[t].child).page
  IN  /\ task[t].pc = "newroot"
      /\ alloc_dir_page
      /\ task' = [task EXCEPT ![t] =
           [Writing(@, <<W(next_dir_page, page, NoPage)>>, "setroot") EXCEPT !.cur = next_dir_page]]
      /\ UNCHANGED <<cache, dirty, root_page, disk, pastVars, watchVars, raced, torn>>

(* set_root_page: the root in memory, then the header page. *)
SetRoot(t) ==
  /\ task[t].pc = "setroot"
  /\ root_page' = task[t].cur
  /\ raced' = (raced \/ root_page # task[t].root)
  /\ map' = Effect(t)
  /\ task' = [task EXCEPT ![t].pc = "header"]
  /\ UNCHANGED <<cache, dirty, next_dir_page, disk, saved, stable, watchVars, torn, reused>>

SetHeader(t) ==
  LET page == Page(t, 0)
  IN  /\ task[t].pc = "header"
      /\ Has(t, 0)
      /\ Fill(t, 0)
      /\ task' = [task EXCEPT ![t] =
           Writing(@, <<W(0, HeaderPage(task[t].cur, next_dir_page), page)>>, "return")]
      /\ UNCHANGED <<dirty, next_dir_page, root_page, disk, pastVars, watchVars, torn, reused>>

-----------------------------------------------------------------------------
(* flush_all_dirty *)

FlushSnapshot(t) ==
  /\ task[t].pc = "flush"
  /\ IF dirty = {} THEN Return(t, "ok", <<>>)
     ELSE task' = [task EXCEPT ![t].pc = "lock", ![t].snap = dirty]
  /\ UNCHANGED <<dirVars, pastVars, watchVars, flagVars>>

FlushLock(t) ==
  /\ task[t].pc = "lock"
  /\ task' = [task EXCEPT ![t].pc = "flushing", ![t].todo = task[t].snap]
  /\ UNCHANGED <<dirVars, pastVars, watchVars, flagVars>>

(* The pages are written in the order of a hash set. *)
FlushWrite(t) ==
  /\ task[t].pc = "flushing"
  /\ \E p \in task[t].todo :
       /\ disk' = IF p \in DOMAIN cache THEN With(disk, p, cache[p]) ELSE disk
       /\ task' = [task EXCEPT ![t].todo = @ \ {p}]
  /\ stable' = FALSE
  /\ UNCHANGED <<cache, dirty, next_dir_page, root_page, map, saved, watchVars, flagVars>>

(* A write fails: the marks stay. *)
FlushFail(t) ==
  /\ task[t].pc = "flushing"
  /\ Return(t, "IOError", <<>>)
  /\ UNCHANGED <<dirVars, pastVars, watchVars, flagVars>>

FlushClear(t) ==
  /\ task[t].pc = "flushing" /\ task[t].todo = {}
  /\ dirty' = dirty \ task[t].snap
  /\ Return(t, "ok", <<>>)
  /\ LET whole == dirty' = {} /\ \A u \in Tasks : ~Changing(u)
     IN  /\ saved' = IF whole THEN map ELSE saved
         /\ stable' = (stable \/ whole)
  /\ UNCHANGED <<cache, next_dir_page, root_page, disk, map, watchVars, flagVars>>

DirStep(t) ==
  \/ ReadFile(t) \/ CachePut(t) \/ DirtyMark(t)
  \/ ReadRoot(t) \/ Descend(t) \/ LookupLeaf(t) \/ ChangeLeaf(t)
  \/ AddFirst(t) \/ AddLeaf(t) \/ SplitLeaf(t) \/ SplitSibling(t)
  \/ Ancestors(t) \/ SplitInner(t) \/ NewRoot(t) \/ SetRoot(t) \/ SetHeader(t)
  \/ FlushSnapshot(t) \/ FlushLock(t) \/ FlushWrite(t) \/ FlushClear(t)
=============================================================================
