# abdb: a TLA+ model and its proofs

abdb is a small relational database server in Rust (tokio). This directory has
TLA+ modules that model its core, TLC configurations that check them on small
instances, and TLAPS proofs that hold for every instance. Paths below are
relative to the repository root; line numbers are in `PROJECT.json` ("map").

## The system

    TCP server / session -> parser -> binder -> planner -> optimizer
        -> accessor (heap files, B-tree indexes, visibility, catalog cache)
        -> buffer pool (frames, pins, latches, eviction) and page overlays
        -> disk manager -> page allocator, page directory -> files

There is no executor yet: the accessor is the highest layer that changes data,
and planner and optimizer have no caller. Sessions are tokio tasks that share one accessor, one buffer pool and one disk
manager, so everything below the session runs concurrently.

| Component | State | Operations | What makes it correct |
|---|---|---|---|
| Buffer pool (`src/buffer/impl`) | frames, two page maps, pin counts (`AtomicU8`), frame metadata with dirty bits, vacant list, one async RW latch per frame | fetch for read/write by logical id or by location, `new_page`, unevictable loads, `flush_all_dirty`, eviction | a guard is on the page asked for; write guards exclude; pins balance; no dirty page is lost; calls return |
| Guards (`guard.rs`) | a pin and a latch | create, `mark_dirty`, `downgrade`, drop | both are given back exactly once |
| LRU-K (`src/buffer/evictor`) | per frame: last K access times, evictable flag; a clock | `record_access`, `set_evictable`, `remove_frame`, `find_victim` | the victim is the LRU-K one whatever the iteration order; never a pinned frame |
| Heap page (`page/overlays/table/heap_page.rs`) | header, slot array, tuple bytes | `init`, `insert`, `delete`, `get_data(_mut)` | slots and tuples never overlap |
| Heap accessor (`accessor/heap.rs`, `visibility.rs`) | header page with `first_page`, linked list of pages, XMIN/XMAX per tuple | `insert`, `scan`, `get`, `delete` | no tuple is lost or seen twice; one delete wins; lists end |
| Transactions (`transaction/mod.rs`) | id counter | `begin` (`commit`, `rollback` are `todo!()`) | ids grow |
| Disk manager, allocator (`storage/disk.rs`, `allocator`) | the next logical id, the next page number per file | `new_page`, read and write by id and by location, start of the server | two pages never share a location; a page reads back what was written for it |
| Page directory (`storage/directory`, `page/overlays/directory`) | a B+-tree from logical ids to locations in a file of its own, a page cache, a dirty set, root and page counter | `open`, `lookup`, `add_page`, `update_page`, `delete_page`, `flush_all_dirty` | it is the map its callers made, also after a flush and a reopen |
| B-tree index (`accessor/btree.rs`, `page/overlays/index`) | root page in a header page, inner pages, linked leaves | `insert`, `get`, `scan`, `delete` with splits and merges | latch crabbing keeps every key searchable; scans are complete; nobody waits for himself |
| Planner, optimizer (`planner`, `optimizer`) | none: a statement becomes a logical plan, then a physical one | `plan`, `push_predicates`, `to_physical`, `fuse_sort_limit` | the rows stay the same |
| Catalog cache, tuple layout, parser, binder, session | see "Not modelled" | | |

What is hard to test: a hit, a miss, an eviction and a flush of the same frame in
every order; state that is read before an `await` and used after it (pin count,
`first_page`, the root of a tree, a copy of a directory page, the dirty list);
splits seen from the middle by readers; a restart after a flush; errors that leave a half-done operation behind;
two routes (logical id, location) to one page; counters at their limit. The list
of these hazards, each at its line and with the properties that would catch it,
is in `PROJECT.json`.

## Modules

| Module | Models |
|---|---|
| `EvictionPolicy` | what the pool relies on from its policy (the trait); abstract specification |
| `LruKEvictor` | `lruk_evictor.rs`; shown to implement `EvictionPolicy` |
| `BufferPool` | `buffer_pool.rs`, `guard.rs`; composed with `EvictionPolicy` by `INSTANCE` |
| `HeapPage` | `heap_page.rs` |
| `HeapFile` | `heap.rs`, `visibility.rs`, `TransactionManager::begin` |
| `SortedEntries` | the sorted entry array that the four tree page overlays have in common |
| `BTreePage` | `btree_leaf.rs`, `btree_inner.rs` |
| `BTreeIndex` | `btree.rs`, over `BTreePage` |
| `DirectoryPage` | `directory/leaf.rs`, `directory/inner.rs`, `file_header/directory.rs` |
| `PageDirectory` | `directory.rs`, over `DirectoryPage` |
| `DiskManager` | `disk.rs`, `allocator.rs`, `TcpServer::new`; composed with `PageDirectory` by `EXTENDS` |
| `Optimizer` | `planner.rs`, `optimizer.rs` and a reference meaning of plans |
| `MCBufferPool`, `MCBTreeIndex`, `MCDiskManager`, `MCOptimizer` | symmetry sets, calls, preloads and statements for TLC |
| `BufferPoolProofs`, `LruKProofs`, `HeapPageProofs`, `HeapFileProofs`, `DirectoryProofs`, `BTreeProofs`, `BTreeExactProofs` | proofs |
| `SortedEntriesProofs` | proofs, and induction over recursive functions for the other proofs |

A definition whose name ends in `Fault` is a wrong version of a definition next to
it, used by no action; `PROJECT.json` ("mutants") says which property each of
them breaks.

### BufferPool

One action is one atomic step of the code: an operation on an atomic, the body
of a critical section of a `std` lock, the acquisition of a frame latch, a disk
access. The two halves of `incr_pin` and `decr_pin` (count, then flag) are separate
actions (`IncrPinFlag`, `DecrPinFlag`), because other tasks run between them.
`pc[t]` is the place in the code:

    lookup -> hitFlag -> await -> hold -> (drop) -> dropFlag -> unlatch      a hit
    lookup -> pop -> pinVacant -> vacantFlag -> latchVacant -> recheck
           -> load -> publish -> hold                                       a miss
    recheck -> dupFlag -> dupPin -> dupHitFlag -> await                      a lost race
    pop -> findVictim -> latchVictim -> writeBack -> unmapLogical
        -> unmapPhysical -> clear -> lookup                                 eviction
    flush <-> flushWrite                                                    flush_all_dirty

The four fetch functions are the same code over two maps and two guard types;
they are one set of actions with `route[t]` and `kind[t]`. Map locks are
held over `hitFlag` and over the double check (`MapReadable`, `MapWritable`).

Abstractions. A page is a model value for its logical id and its location: the
directory is taken as a bijection (`DiskManager` checks that). A fetch by location
maps the frame under the id it reads in the header of the loaded page (`named`), and
`HeaderIds` says which ids the header of a page may carry: nothing in the code makes
it the page's own. The content of a page is who it belongs to and the number of its
last modification. A task holds one guard; a caller with several guards is several
tasks, which loses only the deadlocks between a caller's own guards. Cancellation of
a pending future is not modelled. `block_in_place` makes a disk access one step. `EvictClear`
merges listing a frame as vacant with forgetting it in the policy: a loader that pins
the frame in between has it un-evictable or untracked, neither of which is a victim.
`DupPin` merges the release of the vacant frame with the pin of the published one.

`raced`, `poisoned`, `misnamed`, `extraPins`, `latest` are history variables. In the
model four things lead to a guard on a wrong page, and `Clean` excludes each:
- an eviction clears a frame that was pinned after its check (`raced`; run PoolRace);
- a storage error ends a load (`poisoned`; described below);
- a page fetched by location has another page's id in its header (`misnamed`;
  described below);
- a `u8` pin counter has no room for the permanent pins and can wrap (`NoWrap`).

`CleanGuardIntegrity` and its companions hold as long as none of them has happened.

### LruKEvictor

The mutex makes each operation atomic. `find_victim` is a fold over the entries in
an order that the caller of the operator chooses; `VictimIsLruK` quantifies over
all orders and compares with a definition without any loop (`IsLruK`).

### HeapPage

A byte is modelled by who wrote it last. `TuplesIntact` then says in one formula
that neither the slot array nor a tuple was overwritten.

### HeapFile

A latched visit of a page is one action; the list is walked page by page with
other sessions in between. `insert` is `InsertHeader`, then `InsertHere` or
`InsertNext` per page, then `InsertAlloc` and `InsertLink`; any fetch may fail
(`StorageError`). `overwritten` records that a `first_page` was replaced which the
new page does not link to. Page ids count up from 1 (the server passes 0 as first
id, see the hazards). A scan's caller stops at an error. Failing deletes change
nothing and are not actions.

### BTreeIndex

A step is the work between two latch acquisitions. Write latches are state
(`latch`), read latches are dropped before the next fetch and live within a step.
`pc` of a call:

    root -> first                                           insert into an empty tree
    root -> descend* -> (done)                              insert: CrabInner, LeafInsert
    descend -> sibling -> ancestors* -> (done)              LeafSplit, SplitSibling,
                                                            ParentInsert/Split, NewRoot
    root -> descend* -> get | scan* | delete                the latch is dropped and the
                                                            leaf fetched again
    delete -> merge -> survivor -> removed                  try_merge_leaf

Keys are byte sequences of which `key_from_bytes` takes the first `KeyWidth`, little
endian. The buffer pool is what `BufferPool` shows while `Clean`: the right page
under its latch. It may refuse a call (`Fail`) and, between calls, write all
marked pages back and read everything again (`Reload`).

`index` is the set of entries put in and not deleted, `must[w]` and `may[w]` the
entries that were there during all, or some, of a call. Four flags say what
happened that the code does not guard against: `raced` (an insert went down from a
page that was not, or no longer, the root of the whole tree, or in a tree that is
torn), `torn` (a split ended with an error),
`moved[w]` (a split during the call of `w`), `lost` (a page was evicted with a change
that was not marked). Each property names the flags under which it is
claimed; "Deviations" says what happens when they are set.

### PageDirectory and DiskManager

No lock is held across two accesses of the directory, so each access to the cache,
the dirty set, the root, the counter or the file is a step: `ReadFile` and the
`Fill` of the cache, `CachePut` and `DirtyMark` (the two halves of `write_page`), one
action per stage of `add_page`. A call keeps the pages it still has to write in
`writes`, each with the copy it was made from; `raced` is set when the cached page
is no longer that copy. Only `flush_all_dirty` keeps the cache locked, and writes
its pages one by one in any order; it may fail after any of them. `Restart` stops
the server anywhere and does what `TcpServer::new` does on existing files: the
cache is lost, the header gives root and page counter, ids and page numbers start
again. `map` is the mapping that the returned calls made, `saved` the one of the last
complete flush. The model does not go on after `alloc_dir_page` has given out a
page in use (`reused`): pages of one kind are then read as another.

The contents of a data page is the id it was written for. `update_page`,
`delete_page` and `flush_all_dirty` have no caller in the repository; they are
called as their docs say.

### Optimizer

`Init` takes a bound statement; `Plan`, `PushPredicates`, `ChooseOperators` and
`FuseSortLimit` are the stages, each an operator on plans. Expressions have
columns by position, literals, comparison, AND, OR, NOT, IS NULL, BETWEEN, an
aggregate, and `Like` for the kinds whose columns `collect_scope_indices` skips
(LIKE, EXISTS, subqueries). `Rows` is the meaning of a logical or physical plan on
the tables of `Db`, with SQL's NULL; it is this project's own, as no code runs
plans.

## Runs

The runs of the pool, of LRU-K and of the heap use the deadlock check: some call
can always be made. Index, Storage and Optimizer do not: their calls are
counted (`MaxCalls`), a statement is optimized once, and a delete that merges really
blocks.

| Run | Instance | Shows |
|---|---|---|
| PoolClean | 2 tasks, 2 frames, 3 pages, one fetched by location, whose header may carry any id | right page, page-exclusive write guards, vacant frames free, no lost update, all while `Clean`. `Clean` cannot become true again once false, so the constraint cuts off only states where the invariants hold vacuously |
| PoolFaults | 2 tasks, 1 frame, 1 old and 1 new page, 1 storage error, 1 unevictable load | types, latch protocol, pin accounting and evictable flags under permanent eviction and on the error paths; no lost update by a failed write-back; `UnevictableStays` |
| PoolResident | 2 tasks, 2 frames, 1 page, fair | every call returns |
| LruK | 3 frames, K = 2, 5 accesses | the LRU-K victim for every order; refinement of `EvictionPolicy` |
| HeapPage | 24 bytes after the headers, lengths 0, 1, 4, 5, 20 | no damage, up to exactly full pages |
| HeapFile | 2 sessions, 2 transactions, 3 inserts of sizes 1 and 3, pages of 2, 1 error, levels ReadUncommitted and Snapshot, fair | list and scans exact unless `overwritten`; delete conflicts, own writes seen until deleted by itself or an earlier transaction, stable record ids; inserts and scans return |
| Index | 2 tasks, 2 calls of 8 after 6 preloads, 4 entries per leaf, 3 separators per inner page, 1 error, 2 reloads, fair | leaves exact and in order, also inside splits (`ChainExact`); descents end at the right leaf or to its left (`DescentReaches`); links (`SiblingsAgree`); answers and scans right for a moment of the call; only merges block; other calls return |
| Storage | 2 tasks, 3 calls or restarts after 4 preloads, pages of 2 entries | the directory is the map its callers made, also after a restart (`DirectoryExact`); lookups beside other calls (`LookupExact`); no flush unmarks what it did not write (`UnmarkedIsSaved`); no page reads another's contents (`ReadsOwn`) |
| Optimizer | some 1700 statements on two tables of 2 columns with NULLs | every stage keeps the rows where predicates may be moved (`RowsKept`); none stays where it could go further (`PredicatesSettled`) |

Runs that find a disagreement (each has a finding in `PROJECT.json`):

| Run | What happens |
|---|---|
| PoolRace | eviction checks the pin count, a hit then pins the frame through the map entry that is still there, eviction vacates the frame: the guard is on no page, or on another one |
| IndexScan | a scan with an end key gives one entry of the leaf in which it meets the end, and drops the others it had buffered |
| StorageRestart | after a restart on existing files ids and page numbers are handed out again: two logical pages have one location |

## Deviations without a run of their own

Each of these is in the model, and its properties exclude it by a flag or state it
as a formula that no run checks.

Buffer pool. A page fetched by id and by location at once is loaded into two frames
with two write guards, since each route checks its own map (`PageExclusive`,
`buffer_pool.rs:584`). A fetch by location takes the id from the page's header
(`buffer_pool.rs:571`, 671): the header page of a file has the id its creator passed (0
wherever the repository makes one, the first id of a data page too), and
`HeapPage::init` writes none, so the map may lead from an id to a frame with another
page: a fetch of the id then gets a guard on that page, without any eviction
(`GuardIntegrity`). A failed load leaves the page published, the frame Vacant and
a pin; the next fetch hits it (`GuardOnLoadedFrame`, 374). Only
`PageReadGuard::new` records an access, so a full pool of pages that were only
written or just loaded has no victim (`VictimIfAllUnpinned`, `guard.rs:84`).
`EvictVacant` can list a frame as vacant that a loader has taken and not yet pinned.

Heap. Two inserts that prepend at once: one page and its tuple drop off the list
(`InsertReachable`, `heap.rs:240`). Under ReadUncommitted `delete` accepts a tuple of a
later transaction, although its comment (`heap.rs:324`) says that this is prevented:
`is_visible` looks at no XMIN there (`NoFutureDelete`, `visibility.rs:59`); hence the
assumption of `FutureIsSafe`. Visibility compares ids only, so a Snapshot transaction sees what older running transactions insert after it began;
`docs/progress.md` lists that as open.

Index. The root is read without a latch: an insert can start at a page that was
split since, and two first inserts each set their own root (`raced`). The latch of
a split leaf is dropped before the separator is in the parent, so a concurrent
`get` or `delete` can miss a key that moved right, and a scan that reaches the new
leaf gives keys below its start, where the comment (`btree.rs:648`) says that later
leaves are entirely past it (`moved`). An error in between leaves the upper half to
be found by links only (`torn`). In-place changes of a leaf or a parent are not
marked dirty; once the page was written back, an eviction drops later changes
(`lost`). A delete that underflows a leaf below the root waits for its own latch in
`try_merge_leaf`, for ever.

Directory. `add_page`, `update_page` and `delete_page` put back changed copies, and a
cache fill puts back what it read: concurrent calls lose updates (`raced`). The page
counter reaches the header only with a new root, so pages are given out again
after a reopen (`reused`). No caller ever flushes the directory. Id 0 is both the
first id and "no page" for heap files and indexes.

Optimizer. A predicate goes below the null-filled side of an outer join and through
projections that renumber columns. Predicates with LIKE, EXISTS or a subquery
count as reading no column and go left. `shift_scope_indices` leaves BETWEEN, IN,
functions, CAST and CASE as they are. `extract_equi_keys` takes `a = b` as left and
right key whichever sides they read. `Straight` excludes exactly these. The planner
puts a sort above the projection with keys of the scope below it, and a
projection above an aggregate with positions of the scope below that; `RowsKept`
compares with the plan the planner made and does not judge these.

## Bounds and fairness

Bounds. Two tasks suffice for the races of the pool, which are between a pair of
calls at one frame; one frame forces an eviction at every miss, two frames allow a
frame to change hands while the other one is used. A size
of which two fill a page, and one that fits no page, reach every branch of `insert`;
three tuples reach a list of three pages and a double prepend. `is_visible` has one branch
for ReadCommitted and Snapshot, so HeapFile has one of the two levels beside
ReadUncommitted.
The calls of Index and Storage start from trees that were built by the same
actions (preloads): empty, a full root leaf, a full last leaf under a full root (so
that leaf, inner page and root split in one call), three levels, a full leaf with a
right sibling, such a leaf two levels below the root; in Storage also a saved tree after a restart. Two calls make
every pair of a writer and a reader or two writers; Storage has a third for a
flush or a restart. Two reloads let a page be clean before it is changed.
Two tables with NULLs, equal rows and rows without a partner tell the join
kinds apart; the statements vary one clause, or a pair of them, at a time.

Fairness. `PoolResident` uses strong fairness of every step of a call: tokio polls
a woken task, and its RW lock is FIFO, so a waiting request is not overtaken for
ever. Calls and modifications are the caller's choice and not fair; guards are
dropped. The instance keeps all pages resident: with evictions the loop of
`evict` can repeat for ever when the policy keeps offering a frame that is pinned
again each time, and the code has nothing against it. HeapFile and Index use
weak fairness of the steps of a running call; a step of Index that waits for a
latch stays enabled once the latch is free and nobody else takes it, and calls
are bounded, so weak fairness is enough there.

## Proofs

All theorems are about the unbounded specifications: any finite set of tasks, any
frames, pages, page sizes, lengths; the named bounds are arbitrary naturals.

`BufferPoolProofs` (assumes `ConstantsAssumption`):
- `TypeCorrect`: `TypeOK` needs that a call that lost the race still finds the
  winner in the map when it pins it (`DupInv`: nobody can unmap it while the map lock
  is held). `TypeInv = TypeOK /\ DupInv` is inductive.
- `LatchesAreExclusive`: `LatchProtocol` with `KindInv` (which kinds of call reach
  which places) is inductive: the latch of a frame is exactly what the places
  of the tasks say.
- `PinsAreCounted`: each step moves at most one task into or out of the set of
  holders of one frame and changes the count by the same amount (lemmas `PinGained`,
  `PinLost`, `PinKept`, `PinLeaked` on cardinalities).
- `UnevictableIsNeverEvicted`: an action property. A frame that is being emptied has
  no permanent pin (`VictimNotKept`): the eviction saw pin count 0 under the write
  latch, `PinsAreCounted` turns that into "no permanent pin", and a new one needs a
  read latch, which `LatchesAreExclusive` rules out.
- `UnpinnedFramesCanGo`: `FlagInv` says that a frame with count 0 and flag "pinned" has a
  call between the two halves of `decr_pin`. The theorem is claimed while the `u8`
  counters have room for the pins (`NoWrap`, a property of the state): a counter
  that wraps to 0 is the one case in which count and flag part.

Its second half has what holds while `Clean`. None of the
properties is inductive: that a guard is on its page depends on what the calls
before it found, filled, unmapped and left behind.
- `GuardsAreTrue` and `VacantFramesAreFree` from `OwnInv`, which says for every place of
  the code what a call there knows of its frame: a frame taken from the vacant list
  is empty, unmapped and has one owner until it is published; a map leads to a frame
  that carries the page or is being loaded with it; a hit waits for such a frame; an
  eviction past its checks works on a loaded frame whose removed entries do not come
  back; a buffer holds the content of the page it is loaded with. `NamesAgree`: the
  frame's id is its page's as long as no page was `misnamed`, so an eviction removes the
  entries of the page it evicts from both maps.
- `WriteGuardsAreExclusive` and `NoUpdateIsLost` from `CopyInv` on top: of the loaded copies
  of a page all but the one its map leads to are on their way out (`OneCopy`), that copy is
  the latest version (`CopyIsLatest`), and what is not marked, or was written back, is
  the latest on disk. Both assume `RoutesApart` (no page is fetched by id and by location),
  as the run's instance does: otherwise the code does make two copies, see "Deviations".

`LruKProofs` (assumes `LruKAssumption`): `HistoriesAreExact` (`HistoryInv` is inductive as it
stands), `LruKImplementsPolicy` (the refinement, step by step), and `VictimIsRight`:
`find_victim` is a fold over the frames in the order of a hash map; by induction over the
number of frames visited the candidate is the best of those seen, under every order,
and the best of all is the victim of `IsLruK`. The histories must be ordered and
disjoint for "best" to be unique.

`HeapPageProofs` (assumes `PageAssumption`): `PageInv` says that slots end before
`data_offset`, tuples lie behind it in decreasing order, and every byte belongs to
the slot or tuple whose range it is in. From it `PageTypeCorrect` and
`TuplesStayIntact`.

`HeapFileProofs` (assumes `HeapAssumption`): `HeapInv` adds to the types and to
`ChainDescends` that the pages in local variables are allocated and that record
ids are those of tuples. `StepShape` reduces every step to: no tuple changes, one is
appended, one is deleted; `TuplesGrow` draws the conclusions. From these
`HeapTypeCorrect`, `ListEnds`, `RecordsAreStable`, `OneDeleteSucceeds`, `OwnWritesAreRead`
(with `MarksAreDeletes`: an XMAX is there only because a delete returned Ok) and, when
no transaction is ReadUncommitted, `FutureIsSafe`.
- `ListIsExact`: which pages are on the list is a recursive function of the links
  (`Follow`); links go to smaller ids, so it exists (`FollowStep`), and what prepending
  or appending does to it are lemmas. `ListInv` says that while not `overwritten` the
  tuples on the list are the inserted ones, that an insert that walks is on the list,
  and that the page it is about to link is new, its own, and followed by the list.
- `ScansAreExact`: `ScanInv` says of a scan at page `c` that it has left behind the pages
  of what it returned, returned nothing twice, and that each visible record it still
  owes is on the list from `c` on (`Owes`). One visited page appends a sequence that
  is again a recursive function, here of the slot array.

`DirectoryProofs` (assumes `DiskAssumption`: a call that needs a place names a file; and
`DirectoryAssumption`: the file may hold the header page):
- `NothingUnsavedIsUnmarked` from `SaveInv`, which adds what a flush has written and not yet
  unmarked (`FlushedIsSaved`). A stale copy put back by a race would break it; then
  `raced` is set, under which nothing is claimed.
- `PagesReadTheirOwn`: `ReadsOwn`, whatever races there are, and calls that update and
  delete included. Races lose entries and put back stale ones, so the contents of the
  tree cannot carry the proof. `Good` says instead that there are an assignment `own`
  of the allocated locations to the ids they were allocated for, and a set of `leaves`,
  such that every page that is one of the leaves - cached, in the file, read by a call,
  or about to be written by one - has only entries `<<id, location>>` of `own`, pages
  that are no leaves are never taken for one, and the contents at a location are those
  of its id. A lookup, however stale the leaf, then leads to a location of its id (this
  rests on `SearchFinds` of `SortedEntriesProofs`). `own` grows with each allocation and `leaves`
  with each leaf created; `TaskGrows` and `PageGrows` show that nothing a call holds is
  affected. Claimed while the numbers given out fit the `u32` of an entry (`PagesFit`, a
  property of the state; past it `from_ppage_id` truncates) and until a restart, after
  which the allocator gives out locations again (`LocationsDistinct`).
- `StorageTyped`: `StorageTypeOK`, and no directory page is given out twice, whatever
  races there are, until a restart. `StorageTypeOK` alone is not inductive: that only
  pages given out are cached needs that links lead there. `Typed` says that there is a set
  `inners` of the pages that are inner pages such that every page, cached or saved, is
  of its kind and leads only to pages that are cached (`PageTyped`; `FloorIn` of
  `SortedEntriesProofs` is what `find_child` needs), that the pages a call is about to write
  do so as well, the second perhaps to the first (`WritesTyped`), and that what a call
  has in its local variables fits its place (`PlaceTyped`). Pages never leave the cache
  and none changes its kind, so steps of others disturb nothing (`TaskWidens`). A restart
  empties the cache, and a tree saved in parts may lead to pages that were never
  written or that `alloc_dir_page` gives out again: from there on only the
  run Storage checks `StorageTypeOK`.

`SortedEntriesProofs`: `SearchIsExact`, `PutIsExact` and `FloorIsExact` (`find_child`), the
contracts of the sorted slot arrays of all four tree pages, for any number of
entries (no assumptions beyond a sorted page). The binary searches are recursive
functions of the range that is left; the recursion ends since each half is narrower.

`BTreeProofs` (assumes `BTreePageAssumption`, `IndexAssumption`, and `CallAssumption`: a call is one of
the four operations on byte strings):
- `IndexTyped` from `ShapeOK`. That no page overflows needs that pages stay sorted, that
  links lead to allocated pages of their kind, and that a call that splits holds the latch of
  every page it is going to change: `Claim` says for each place of the code which
  latches its call has, `TaskOK` what its local variables lead to. A split page has
  room for its halves since `InnerMax` is at least 2.
- `MergesAlone`: `Ranked` says that there is a rank of the pages that falls from a page to
  its children and from a leaf to its right sibling, in memory and on disk, and along
  the pages a call has latched and is about to take. Pages that are split off get a
  rank just below that of their left half (all others are spread out to make room),
  a new root one above all. A set of tasks that wait for each other without a merge
  would have a page of least rank that somebody waits for, whose holder waits for
  a lower one.

`BTreeExactProofs` (the same assumptions) proves what the tree holds and what its calls
answer, for any number of tasks, pages, keys and splits. It goes in two stages.

The tree. A page does not store which keys it is for. `Bounds` says that there are two
functions `lo` and `lev` of the pages, the least key and the level, such that
- the pages of a level divide the keys among them: each page has the keys from its
  `lo` to the next `lo` of its level (`Within`), and no two of them begin at one key;
- a separator is the `lo` of its child, entries lie within their leaf, and `next_page` is
  the leaf with the next `lo`, or 0 for the last one (`PageSound`);
- a split on its way up has a new page whose `lo` is its separator, which belongs
  under the last page its task has latched, or is on the level of the root if none is left
  (`SplitSound`); an insert going down is at the child that `find_child` chose in that
  page (`DownSound`), and one task at a time splits the root (`RootAlone`);
- unless an error tore a split, every page is the root, a child, or the new page of a
  split on its way up (`Complete`), and the links of neighbours agree but for the one
  that a task is about to correct (`Linked`);
- the leaves together have exactly the entries of `index` (`Stored`).

A new page gets as `lo` the separator of the split, the level of its left half, and every
other page keeps what it had (`Same`, `Kept`); `NextBounds` proves this step by step:
steps that read, write one leaf, split a leaf, add to a parent, split a parent, and
replace the root. It needs `ShapeOK` (types, latches) and `Ranked` of `BTreeProofs`, and
`TreeInv`, the three together, is inductive (`Bounds` is claimed while the tree is
`Intact`, that is, not `raced` and not `lost`). From it:
- `LinksAgree`: `Linked` is `SiblingsAgree`.
- `ChainIsExact`: `Chain` is a recursive function. A chain from a leaf has, in order, the
  entries of leaves from there on (`ChainsSound`), and one as long as there are leaves
  to the right has them all (`ChainsComplete`, by induction, since each link goes on
  to the next `lo`). The descent of -1 ends at the leaf whose `lo` is -1.
- `DescentsReach`: a descent keeps `lo[p] <= k`, and in a tree without a split on its way
  up the key is `Within` every page on the path (`LeafForBegins`, `LeafForReaches`).

The calls. `CallInv` adds for every call that runs that `must` and `may` enclose `index`
(`Seen`), that no split is on its way up unless the call knows of one (`Calm`), and what
it has found so far (`CallSound`, told with the same `lo` and `lev`): a call that
searches is at or left of its leaf, and at it or above it if nothing moved
(`SearchSound`); a scan at a leaf has given only entries below `lo` of that leaf, and
without an end key all that were there throughout from its start to that `lo` (`ScanSound`).
Since a split never changes the `lo` of a page, none of this is lost
when other tasks split or delete (`CallKept`). From it:
- `AnswersAreExact`: `get` and `delete` search a leaf the key is within, or left of it
  after a split, and what they find is in the index.
- `ScansAreExact`: the loop over a leaf is a recursive function (`Buffered`); it gives an
  ascending part of the leaf without what lies before the start or past the end
  (`BufferedSound`), and the next leaf begins where this one ends.

The proof of `ChainExact` showed that its premise was once too weak for larger trees
than those of the run Index. `raced` was set only by an insert whose first page was not the
root; an insert that goes down a tree whose root is just being split, or one that a
failed split has torn, can also put a key where no descent looks for it. `Astray` names
these cases, and the theorems hold for exactly the rest.

Induction over data. The induction theorems of the library take an operator as
parameter and cannot be applied by the installed provers. `SortedEntriesProofs` therefore states
induction for sets (`SetInduction`: a set with 0 that is closed under successor has all
naturals), proved from the well-foundedness of Nat, and with it `LoopExists`, that a
loop of n rounds is a function. A proof defines the set of numbers for which its claim
holds and applies it. This reaches recursive functions; operators declared
RECURSIVE stay out of reach.

Only model-checked:
- the liveness properties (out of the prover's reach, as is `ENABLED`);
- `Optimizer`: `RowsKept` and `PredicatesSettled` are about RECURSIVE operators on plans;
- `DiskManager`: `DirectoryExact` and `LookupExact`, and `StorageTypeOK` after a restart. The
  first two need an invariant like `Bounds` of the B-tree for the directory, whose
  stages are cut finer (no lock is held across two accesses).

## Plan

`DirectoryExact` for a directory that has one writer at a time, with ranges of keys
as in `BTreeExactProofs`.

## Not modelled

- The tail of `try_merge_leaf`: it comes after a fetch that never returns.
- Parser and binder: translations of text to bound trees without shared state;
  a model would repeat them. DDL statements pass through the planner unchanged.
- The catalog cache: hash maps under one lock, each call one critical section.
- Tuple layout and byte encodings of pages, headers and values.
- Sessions and the accept loop: BEGIN is `Begin` of `HeapFile`, COMMIT and ROLLBACK
  reach `todo!()`, other statements do nothing yet.
- The write-ahead log: a trait without implementation; `flush_wal_upto` is `todo!()`.
- Cancellation of a pending future.
