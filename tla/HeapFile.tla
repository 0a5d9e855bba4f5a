------------------------------ MODULE HeapFile ------------------------------
(***************************************************************************)
(* One table: the heap file of src/accessor/heap.rs with the tuple headers *)
(* of src/accessor/visibility.rs, used by concurrent transactions.         *)
(*                                                                         *)
(* A heap file is a header page with the id of the first page and a linked *)
(* list of slotted pages.  The work on one page under its latch is one     *)
(* action; the buffer pool below is taken to hand out the right page under *)
(* an exclusive latch (module BufferPool) and the slotted page to keep     *)
(* tuples apart (module HeapPage).  Page ids come from an allocator that   *)
(* counts up; 0 ends the list.                                             *)
(*                                                                         *)
(* A definition ending in _Fault is a wrong version of the one after it.   *)
(***************************************************************************)
EXTENDS Naturals, Sequences, FiniteSets

CONSTANTS
  Tasks,       \* sessions, each with one transaction at a time
  Isolations,  \* isolation levels in use
  Sizes,       \* tuple sizes
  PageCap,     \* space for tuples and their slots in a page
  MaxPages,    \* bound on allocated pages
  MaxTuples,   \* bound on insert calls
  MaxTxns,     \* bound on transactions
  MaxErrors    \* bound on storage errors

ASSUME HeapAssumption ==
  /\ Isolations \subseteq {"ReadUncommitted", "ReadCommitted", "Snapshot"}
  /\ Sizes \subseteq Nat \ {0}
  /\ PageCap \in Nat /\ MaxPages \in Nat /\ MaxTuples \in Nat
  /\ MaxTxns \in Nat /\ MaxErrors \in Nat
  /\ MaxTuples <= MaxPages    \* an insert allocates at most one page

PageIds == 1..MaxPages

VARIABLES
  first,      \* HeapFileHeaderPage.first_page
  next,       \* Header.next_page of every page
  slots,      \* the tuples of every page
  used,       \* space taken in every page
  allocated,  \* pages allocated so far: 1..allocated
  nextTxn,    \* TransactionManager.next_txn_id
  (* the running calls *)
  pc, txn, isolation, size, base, cur, got,
  (* bounds and history variables *)
  calls,      \* insert calls so far
  errors,     \* storage errors so far
  inserted,   \* record ids of the inserts that returned Ok
  deletes,    \* <<record id, transaction>> of the deletes that returned Ok
  expected,   \* inserted tuples when the scan of a task began
  overwritten \* a first_page was replaced that its replacement does not link to

fileVars  == <<first, next, slots, used, allocated>>
callVars  == <<pc, size, base, cur, got>>
txnVars   == <<nextTxn, txn, isolation>>
ghostVars == <<calls, errors, inserted, deletes, expected, overwritten>>
heapVars  == <<fileVars, callVars, txnVars, ghostVars>>

Rid == [page : PageIds, slot : 1..MaxTuples]

Init ==
  /\ first = 0
  /\ next = [p \in PageIds |-> 0]
  /\ slots = [p \in PageIds |-> <<>>]
  /\ used = [p \in PageIds |-> 0]
  /\ allocated = 0
  /\ nextTxn = 1
  /\ pc = [t \in Tasks |-> "none"]
  /\ txn = [t \in Tasks |-> 0]
  /\ isolation = [t \in Tasks |-> "Snapshot"]
  /\ size = [t \in Tasks |-> 0]
  /\ base = [t \in Tasks |-> 0]
  /\ cur = [t \in Tasks |-> 0]
  /\ got = [t \in Tasks |-> <<>>]
  /\ calls = 0 /\ errors = 0
  /\ inserted = {} /\ deletes = {}
  /\ expected = [t \in Tasks |-> {}]
  /\ overwritten = FALSE

-----------------------------------------------------------------------------
(* Visibility *)

make_header(xmin) == [xmin |-> xmin, xmax |-> 0]

(* xmax = id counts as not deleted: a transaction sees what it deleted. *)
is_visible_Fault(tuple, id, level) ==
  /\ level = "ReadUncommitted" \/ tuple.xmin <= id
  /\ tuple.xmax = 0 \/ tuple.xmax >= id

is_visible(tuple, id, level) ==
  /\ level = "ReadUncommitted" \/ tuple.xmin <= id
  /\ tuple.xmax = 0 \/ tuple.xmax > id

(* The session keeps the id it had. *)
Begin_Fault(t, level) ==
  /\ pc[t] \in {"none", "idle"}
  /\ nextTxn <= MaxTxns
  /\ nextTxn' = nextTxn + 1
  /\ isolation' = [isolation EXCEPT ![t] = level]
  /\ pc' = [pc EXCEPT ![t] = "idle"]
  /\ UNCHANGED <<fileVars, size, base, cur, got, txn, calls, errors, inserted, deletes,
                 expected, overwritten>>

(* TransactionManager::begin.  commit and rollback are todo!(); a session  *)
(* leaves a transaction by beginning the next one.                         *)
Begin(t, level) ==
  /\ pc[t] \in {"none", "idle"}
  /\ nextTxn <= MaxTxns
  /\ txn' = [txn EXCEPT ![t] = nextTxn]
  /\ nextTxn' = nextTxn + 1
  /\ isolation' = [isolation EXCEPT ![t] = level]
  /\ pc' = [pc EXCEPT ![t] = "idle"]
  /\ UNCHANGED <<fileVars, size, base, cur, got, calls, errors, inserted, deletes,
                 expected, overwritten>>

-----------------------------------------------------------------------------
(* Helpers *)

(* A call returns and its local variables go out of scope. *)
Return(t) ==
  /\ pc' = [pc EXCEPT ![t] = "idle"]
  /\ size' = [size EXCEPT ![t] = 0]
  /\ base' = [base EXCEPT ![t] = 0]
  /\ cur' = [cur EXCEPT ![t] = 0]
  /\ got' = [got EXCEPT ![t] = <<>>]

(* HeapPage::insert: the tuple goes to the end of the slot array. *)
Put(p, t) ==
  /\ slots' = [slots EXCEPT ![p] = Append(@, make_header(txn[t]))]
  /\ used' = [used EXCEPT ![p] = @ + size[t]]

Fits(p, n) == used[p] + n <= PageCap

-----------------------------------------------------------------------------
(* insert *)

StartInsert(t, n) ==
  /\ pc[t] = "idle"
  /\ calls < MaxTuples
  /\ calls' = calls + 1
  /\ pc' = [pc EXCEPT ![t] = "header"]
  /\ size' = [size EXCEPT ![t] = n]
  /\ UNCHANGED <<fileVars, base, cur, got, txnVars, errors, inserted, deletes,
                 expected, overwritten>>

(* The header page is read and its latch released. *)
InsertHeader(t) ==
  /\ pc[t] = "header"
  /\ base' = [base EXCEPT ![t] = first]
  /\ cur' = [cur EXCEPT ![t] = first]
  /\ pc' = [pc EXCEPT ![t] = "try"]
  /\ UNCHANGED <<fileVars, size, got, txnVars, ghostVars>>

InsertHere(t) ==
  LET p == cur[t] IN
  /\ pc[t] = "try" /\ p # 0
  /\ Fits(p, size[t])
  /\ Put(p, t)
  /\ inserted' = inserted \union {[page |-> p, slot |-> Len(slots[p]) + 1]}
  /\ Return(t)
  /\ UNCHANGED <<first, next, allocated, txnVars, calls, errors, deletes, expected, overwritten>>

InsertNext(t) ==
  /\ pc[t] = "try" /\ cur[t] # 0
  /\ ~Fits(cur[t], size[t])
  /\ cur' = [cur EXCEPT ![t] = next[cur[t]]]
  /\ UNCHANGED <<fileVars, pc, size, base, got, txnVars, ghostVars>>

(* The new page is not linked to the rest of the list. *)
InsertAlloc_Fault(t) ==
  LET p == allocated + 1 IN
  /\ pc[t] = "try" /\ cur[t] = 0
  /\ p \in PageIds
  /\ Fits(p, size[t])
  /\ allocated' = p
  /\ Put(p, t)
  /\ cur' = [cur EXCEPT ![t] = p]
  /\ pc' = [pc EXCEPT ![t] = "link"]
  /\ UNCHANGED <<first, next, size, base, got, txnVars, ghostVars>>

(* The end of the list: a new page, linked to the first page read before,  *)
(* takes the tuple.                                                        *)
InsertAlloc(t) ==
  LET p == allocated + 1 IN
  /\ pc[t] = "try" /\ cur[t] = 0
  /\ p \in PageIds
  /\ Fits(p, size[t])
  /\ allocated' = p
  /\ next' = [next EXCEPT ![p] = base[t]]
  /\ Put(p, t)
  /\ cur' = [cur EXCEPT ![t] = p]
  /\ pc' = [pc EXCEPT ![t] = "link"]
  /\ UNCHANGED <<first, size, base, got, txnVars, ghostVars>>

(* The tuple is too large for an empty page: the call fails and the page   *)
(* is left behind.                                                         *)
InsertTooLarge(t) ==
  LET p == allocated + 1 IN
  /\ pc[t] = "try" /\ cur[t] = 0
  /\ p \in PageIds
  /\ ~Fits(p, size[t])
  /\ allocated' = p
  /\ next' = [next EXCEPT ![p] = base[t]]
  /\ Return(t)
  /\ UNCHANGED <<first, slots, used, txnVars, ghostVars>>

(* The link is made only now, from a header that is already new. *)
InsertLink_Fault(t) ==
  /\ pc[t] = "link"
  /\ first' = cur[t]
  /\ next' = [next EXCEPT ![cur[t]] = cur[t]]
  /\ inserted' = inserted \union {[page |-> cur[t], slot |-> 1]}
  /\ Return(t)
  /\ UNCHANGED <<slots, used, allocated, txnVars, calls, errors, deletes, expected, overwritten>>

(* The header is fetched again, for writing, and points to the new page. *)
InsertLink(t) ==
  /\ pc[t] = "link"
  /\ first' = cur[t]
  /\ inserted' = inserted \union {[page |-> cur[t], slot |-> 1]}
  /\ overwritten' = (overwritten \/ first # base[t])
  /\ Return(t)
  /\ UNCHANGED <<next, slots, used, allocated, txnVars, calls, errors, deletes,
                 expected>>

-----------------------------------------------------------------------------
(* delete *)

(* A tuple that a later transaction has deleted is deleted again. *)
Deletable_Fault(tuple, t) == is_visible(tuple, txn[t], isolation[t])

(* Visible, and not AlreadyDeleted by a later transaction. *)
Deletable(tuple, t) == is_visible(tuple, txn[t], isolation[t]) /\ tuple.xmax = 0

(* One latched visit of the page.  Every failure leaves it as it is. *)
Delete(t, rid) ==
  LET p == rid.page IN
  /\ pc[t] = "idle"
  /\ rid \in inserted
  /\ Deletable(slots[p][rid.slot], t)
  /\ slots' = [slots EXCEPT ![p][rid.slot].xmax = txn[t]]
  /\ deletes' = deletes \union {<<rid, txn[t]>>}
  /\ UNCHANGED <<first, next, used, allocated, callVars, txnVars, calls, errors,
                 inserted, expected, overwritten>>

(* get reads one latched page and changes nothing. *)
get(t, rid) ==
  IF rid.slot > Len(slots[rid.page]) THEN "TupleNonExistent"
  ELSE IF is_visible(slots[rid.page][rid.slot], txn[t], isolation[t])
         THEN "Ok" ELSE "TupleNotVisible"

-----------------------------------------------------------------------------
(* scan *)

StartScan(t) ==
  /\ pc[t] = "idle"
  /\ pc' = [pc EXCEPT ![t] = "scan"]
  /\ cur' = [cur EXCEPT ![t] = first]
  /\ expected' = [expected EXCEPT ![t] = inserted]
  /\ UNCHANGED <<fileVars, size, base, got, txnVars, calls, errors, inserted, deletes, overwritten>>

(* The visible tuples of a page, in slot order. *)
VisibleIn(p, t) ==
  LET seen[n \in 0..Len(slots[p])] ==
        IF n = 0 THEN <<>>
        ELSE IF is_visible(slots[p][n], txn[t], isolation[t])
               THEN Append(seen[n - 1], [page |-> p, slot |-> n])
               ELSE seen[n - 1]
  IN seen[Len(slots[p])]

(* The list is left before the last page. *)
ScanPage_Fault(t) ==
  LET p == cur[t] IN
  /\ pc[t] = "scan" /\ p # 0
  /\ got' = [got EXCEPT ![t] = IF next[p] = 0 THEN @ ELSE @ \o VisibleIn(p, t)]
  /\ cur' = [cur EXCEPT ![t] = next[p]]
  /\ UNCHANGED <<fileVars, pc, size, base, txnVars, ghostVars>>

ScanPage(t) ==
  LET p == cur[t] IN
  /\ pc[t] = "scan" /\ p # 0
  /\ got' = [got EXCEPT ![t] = @ \o VisibleIn(p, t)]
  /\ cur' = [cur EXCEPT ![t] = next[p]]
  /\ UNCHANGED <<fileVars, pc, size, base, txnVars, ghostVars>>

Found(t) == {got[t][i] : i \in 1..Len(got[t])}

ScanEnd(t) ==
  /\ pc[t] = "scan" /\ cur[t] = 0
  /\ expected' = [expected EXCEPT ![t] = {}]
  /\ Return(t)
  /\ UNCHANGED <<fileVars, txnVars, calls, errors, inserted, deletes, overwritten>>

(* Fetching a page fails.  insert returns the error, whatever it has done  *)
(* so far; a scan yields it and its caller stops.                          *)
StorageError(t) ==
  /\ pc[t] \in {"header", "try", "link", "scan"}
  /\ errors < MaxErrors
  /\ errors' = errors + 1
  /\ expected' = [expected EXCEPT ![t] = {}]
  /\ Return(t)
  /\ UNCHANGED <<fileVars, txnVars, calls, inserted, deletes, overwritten>>

-----------------------------------------------------------------------------
Insert(t) ==
  \/ InsertHeader(t) \/ InsertHere(t) \/ InsertNext(t)
  \/ InsertAlloc(t) \/ InsertTooLarge(t) \/ InsertLink(t)

Scan(t) == ScanPage(t) \/ ScanEnd(t)

Call(t) ==
  \/ \E level \in Isolations : Begin(t, level)
  \/ \E n \in Sizes : StartInsert(t, n)
  \/ \E rid \in inserted : Delete(t, rid)
  \/ StartScan(t)

Next == \E t \in Tasks : Call(t) \/ Insert(t) \/ Scan(t) \/ StorageError(t)

Spec == Init /\ [][Next]_heapVars

(* A runnable task is polled again and again. *)
FairSpec == Spec /\ \A t \in Tasks : WF_heapVars(Insert(t) \/ Scan(t))

-----------------------------------------------------------------------------
(* Properties *)

Tuple == [xmin : 1..MaxTxns, xmax : 0..MaxTxns]

(* Type invariant of the file and of the running calls. *)
HeapTypeOK ==
  /\ first \in 0..allocated
  /\ next \in [PageIds -> 0..MaxPages]
  /\ slots \in [PageIds -> Seq(Tuple)]
  /\ used \in [PageIds -> Nat]
  /\ allocated \in 0..MaxPages
  /\ nextTxn \in 1..(MaxTxns + 1)
  /\ pc \in [Tasks -> {"none", "idle", "header", "try", "link", "scan"}]
  /\ txn \in [Tasks -> 0..MaxTxns]
  /\ isolation \in [Tasks -> Isolations \union {"Snapshot"}]
  /\ size \in [Tasks -> Nat]
  /\ base \in [Tasks -> 0..MaxPages]
  /\ cur \in [Tasks -> 0..MaxPages]
  /\ \A t \in Tasks : pc[t] # "none" => txn[t] # 0

(* The list of pages ends: every page links to one allocated before it, so *)
(* no interleaving of two prepending inserts closes a cycle and the loops  *)
(* of insert and scan, which follow next_page while it is not 0, stop.     *)
ChainDescends ==
  /\ first <= allocated
  /\ \A p \in PageIds : next[p] < p

(* The pages on the list that starts at p. *)
Chain(p) ==
  LET from[q \in 0..MaxPages] ==
        IF q = 0 THEN {} ELSE {q} \union (IF next[q] < q THEN from[next[q]] ELSE {})
  IN from[p]

OnList == UNION {{[page |-> p, slot |-> i] : i \in 1..Len(slots[p])} : p \in Chain(first)}

(* "allocates a new page and prepends it to the list": a tuple whose       *)
(* insert returned Ok is on the list that scans follow.  The code does not *)
(* ensure it: two inserts may prepend a page to the same list.             *)
InsertReachable == inserted \subseteq OnList

(* The only way to lose a tuple is to replace a first_page that the new    *)
(* page does not link to.  Otherwise the list has exactly the tuples whose *)
(* insert returned Ok: none is lost, and none of a failed insert, whose    *)
(* page was allocated and filled, shows up later.                          *)
HeapExact == ~overwritten => OnList = inserted

(* A scan that runs while others insert, prepend pages and delete returns  *)
(* no tuple twice, and misses no tuple that was there when it began and is *)
(* still visible to its transaction when it ends.                          *)
ScanExact ==
  \A t \in Tasks :
    ~overwritten /\ pc[t] = "scan" /\ cur[t] = 0 =>
      /\ \A i, j \in 1..Len(got[t]) : got[t][i] = got[t][j] => i = j
      /\ \A rid \in expected[t] : get(t, rid) = "Ok" => rid \in Found(t)

(* "cannot double-delete a tuple already marked deleted": of concurrent    *)
(* deletes of a tuple one returns Ok, and its transaction stays the XMAX.  *)
DeleteExclusive ==
  \A d \in deletes : slots[d[1].page][d[1].slot].xmax = d[2]

(* "This prevents ... Deleting a tuple created by a future (uncommitted)   *)
(* transaction": no tuple is deleted by a transaction older than the one   *)
(* that created it.  The code does not ensure it: delete asks is_visible,  *)
(* which does not look at XMIN under ReadUncommitted.                      *)
NoFutureDelete ==
  \A p \in PageIds : \A i \in 1..Len(slots[p]) :
    slots[p][i].xmax # 0 => slots[p][i].xmax >= slots[p][i].xmin

(* A transaction can get what it inserted until it deletes it itself, even *)
(* when a later transaction deletes it first.  Only a delete by an earlier *)
(* transaction, which ReadUncommitted lets through, takes it away.         *)
ReadYourWrites ==
  \A t \in Tasks, rid \in inserted :
    /\ slots[rid.page][rid.slot].xmin = txn[t]
    /\ \A d \in deletes : d[1] = rid => d[2] >= txn[t]
    => (get(t, rid) = "Ok" <=> <<rid, txn[t]>> \notin deletes)

(* A record id means the same tuple for ever: tuples are only appended to  *)
(* a page, and of a tuple only XMAX changes, once.                         *)
RecordsStable ==
  [][\A p \in PageIds : \A i \in 1..Len(slots[p]) :
       /\ i <= Len(slots'[p])
       /\ slots'[p][i].xmin = slots[p][i].xmin
       /\ slots[p][i].xmax # 0 => slots'[p][i].xmax = slots[p][i].xmax]_heapVars

(* Every insert and every scan returns, whatever the other transactions    *)
(* add meanwhile.                                                          *)
OperationsReturn == \A t \in Tasks : pc[t] \in {"header", "scan"} ~> pc[t] = "idle"
=============================================================================
