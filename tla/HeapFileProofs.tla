--------------------------- MODULE HeapFileProofs ---------------------------
(***************************************************************************)
(* Proofs about HeapFile for any number of sessions, pages, tuples and     *)
(* transactions.                                                           *)
(***************************************************************************)
EXTENDS HeapFile, SortedEntriesProofs, SequenceTheorems, TLAPS

(* The pages a call has in its local variables are allocated, and a page   *)
(* that is about to be linked has its tuple.                               *)
CallsBounded ==
  \A t \in Tasks :
    /\ base[t] <= allocated /\ cur[t] <= allocated
    /\ pc[t] = "link" => cur[t] # 0 /\ Len(slots[cur[t]]) > 0

(* A record id that insert returned, or delete was called with, is one of  *)
(* a tuple.                                                                *)
RecordsKnown ==
  /\ \A rid \in inserted : rid.page \in PageIds /\ rid.slot \in 1..Len(slots[rid.page])
  /\ \A d \in deletes : d[1] \in inserted

HeapInv == HeapTypeOK /\ ChainDescends /\ CallsBounded /\ RecordsKnown

LEMMA HeapInvInit == Init => HeapInv
<1> SUFFICES ASSUME Init PROVE HeapInv
  OBVIOUS
<1> USE HeapAssumption DEF Init, PageIds
<1>1. slots \in [PageIds -> Seq(Tuple)] /\ next \in [PageIds -> 0..MaxPages]
  BY EmptySeq
<1>2. \A p \in PageIds : next[p] < p
  OBVIOUS
<1>3. HeapTypeOK
  BY <1>1 DEF HeapTypeOK
<1> QED BY <1>2, <1>3 DEF HeapInv, ChainDescends, CallsBounded, RecordsKnown

-----------------------------------------------------------------------------
(* What a step does to the tuples. *)

(* HeapPage::insert appends one tuple of the transaction. *)
LEMMA PutAppends ==
  ASSUME HeapTypeOK, NEW t \in Tasks, NEW p \in PageIds, txn[t] # 0, Put(p, t)
  PROVE  /\ slots' \in [PageIds -> Seq(Tuple)]
         /\ Len(slots'[p]) = Len(slots[p]) + 1
         /\ \A q \in PageIds : q # p => slots'[q] = slots[q]
         /\ \A q \in PageIds : Len(slots[q]) \in Nat /\ Len(slots[q]) <= Len(slots'[q])
         /\ \A q \in PageIds : \A i \in 1..Len(slots[q]) : slots'[q][i] = slots[q][i]
         /\ slots'[p][Len(slots[p]) + 1] = make_header(txn[t])
<1> DEFINE e == make_header(txn[t])
<1>1. slots \in [PageIds -> Seq(Tuple)] /\ txn[t] \in 1..MaxTxns
  BY HeapAssumption DEF HeapTypeOK
<1>2. e \in Tuple
  BY <1>1, HeapAssumption DEF make_header, Tuple
<1>3. slots' = [slots EXCEPT ![p] = Append(slots[p], e)]
  BY DEF Put
<1> HIDE DEF e
<1>4. slots[p] \in Seq(Tuple)
  BY <1>1
<1>5. /\ Append(slots[p], e) \in Seq(Tuple)
      /\ Len(Append(slots[p], e)) = Len(slots[p]) + 1
      /\ \A i \in 1..Len(slots[p]) : Append(slots[p], e)[i] = slots[p][i]
      /\ Append(slots[p], e)[Len(slots[p]) + 1] = e
  BY <1>2, <1>4, AppendProperties
<1>6. slots'[p] = Append(slots[p], e) /\ \A q \in PageIds : q # p => slots'[q] = slots[q]
  BY <1>1, <1>3
<1>7. \A q \in PageIds : Len(slots[q]) \in Nat
  BY <1>1, LenProperties
<1>8. slots' \in [PageIds -> Seq(Tuple)]
  BY <1>1, <1>3, <1>5
<1>9. \A q \in PageIds : Len(slots[q]) <= Len(slots'[q])
  BY <1>5, <1>6, <1>7
<1>10. \A q \in PageIds : \A i \in 1..Len(slots[q]) : slots'[q][i] = slots[q][i]
  BY <1>5, <1>6
<1> QED BY <1>5, <1>6, <1>7, <1>8, <1>9, <1>10 DEF e

(* delete sets one XMAX that was 0. *)
LEMMA DeleteMarks ==
  ASSUME HeapInv, NEW t \in Tasks, NEW rid \in inserted, Delete(t, rid)
  PROVE  /\ rid.page \in PageIds /\ rid.slot \in 1..Len(slots[rid.page])
         /\ slots' \in [PageIds -> Seq(Tuple)]
         /\ \A q \in PageIds : Len(slots[q]) \in Nat /\ Len(slots'[q]) = Len(slots[q])
         /\ slots[rid.page][rid.slot].xmax = 0
         /\ slots'[rid.page][rid.slot].xmax = txn[t]
         /\ slots'[rid.page][rid.slot].xmin = slots[rid.page][rid.slot].xmin
         /\ \A q \in PageIds : \A i \in 1..Len(slots[q]) :
              slots'[q][i] = slots[q][i] \/ (q = rid.page /\ i = rid.slot)
<1> DEFINE p == rid.page
           n == rid.slot
           e == [slots[p][n] EXCEPT !.xmax = txn[t]]
<1>1. p \in PageIds /\ n \in 1..Len(slots[p])
  BY DEF HeapInv, RecordsKnown
<1>2. slots \in [PageIds -> Seq(Tuple)] /\ txn[t] \in 0..MaxTxns
  BY DEF HeapInv, HeapTypeOK
<1>3. slots[p] \in Seq(Tuple) /\ slots[p][n] \in Tuple
  BY <1>1, <1>2, ElementOfSeq
<1>4. e \in Tuple /\ e.xmax = txn[t] /\ e.xmin = slots[p][n].xmin
  BY <1>2, <1>3 DEF Tuple
<1>5. slots' = [slots EXCEPT ![p] = [slots[p] EXCEPT ![n] = e]]
  BY <1>1, <1>2 DEF Delete
<1>6. slots[p][n].xmax = 0
  BY DEF Delete, Deletable
<1> HIDE DEF e, p, n
<1>7. /\ [slots[p] EXCEPT ![n] = e] \in Seq(Tuple)
      /\ Len([slots[p] EXCEPT ![n] = e]) = Len(slots[p])
      /\ \A i \in 1..Len(slots[p]) :
           [slots[p] EXCEPT ![n] = e][i] = IF i = n THEN e ELSE slots[p][i]
  BY <1>1, <1>3, <1>4, ExceptSeq
<1>8. /\ slots'[p] = [slots[p] EXCEPT ![n] = e]
      /\ \A q \in PageIds : q # p => slots'[q] = slots[q]
  BY <1>1, <1>2, <1>5
<1>9. slots' \in [PageIds -> Seq(Tuple)]
  BY <1>1, <1>2, <1>5, <1>7
<1>10. \A q \in PageIds : Len(slots[q]) \in Nat /\ Len(slots'[q]) = Len(slots[q])
  BY <1>2, <1>7, <1>8, LenProperties
<1>11. slots'[p][n] = e
  BY <1>1, <1>7, <1>8
<1>12. \A q \in PageIds : \A i \in 1..Len(slots[q]) :
         slots'[q][i] = slots[q][i] \/ (q = p /\ i = n)
  BY <1>7, <1>8
<1> QED BY <1>1, <1>4, <1>6, <1>9, <1>10, <1>11, <1>12 DEF p, n

(* A step leaves the tuples alone, appends one or deletes one. *)
LEMMA StepShape ==
  ASSUME HeapInv, Next
  PROVE  \/ slots' = slots /\ deletes' = deletes
         \/ deletes' = deletes /\ \E t \in Tasks, p \in PageIds : txn[t] # 0 /\ Put(p, t)
         \/ \E t \in Tasks : \E rid \in inserted : Delete(t, rid)
<1> PICK t \in Tasks : Call(t) \/ Insert(t) \/ Scan(t) \/ StorageError(t)
  BY DEF Next
<1>1. CASE InsertHere(t)
  <2>1. cur[t] \in 0..MaxPages /\ cur[t] # 0 /\ pc[t] = "try"
    BY <1>1 DEF InsertHere, HeapInv, HeapTypeOK
  <2>2. cur[t] \in PageIds
    BY <2>1, HeapAssumption DEF PageIds
  <2>3. txn[t] # 0
    BY <2>1 DEF HeapInv, HeapTypeOK
  <2>4. Put(cur[t], t) /\ deletes' = deletes
    BY <1>1 DEF InsertHere
  <2> QED BY <2>2, <2>3, <2>4
<1>2. CASE InsertAlloc(t)
  <2>1. txn[t] # 0
    BY <1>2 DEF InsertAlloc, HeapInv, HeapTypeOK
  <2>2. allocated + 1 \in PageIds /\ Put(allocated + 1, t) /\ deletes' = deletes
    BY <1>2 DEF InsertAlloc, ghostVars
  <2> QED BY <2>1, <2>2
<1>3. CASE \E rid \in inserted : Delete(t, rid)
  BY <1>3
<1>4. CASE \/ \E level \in Isolations : Begin(t, level)
           \/ \E n \in Sizes : StartInsert(t, n)
           \/ StartScan(t)
  BY <1>4 DEF Begin, StartInsert, StartScan, fileVars
<1>5. CASE InsertHeader(t) \/ InsertNext(t) \/ InsertTooLarge(t) \/ InsertLink(t)
  BY <1>5 DEF InsertHeader, InsertNext, InsertTooLarge, InsertLink, fileVars, ghostVars
<1>6. CASE Scan(t) \/ StorageError(t)
  BY <1>6 DEF Scan, ScanPage, ScanEnd, StorageError, fileVars, ghostVars
<1> QED BY <1>1, <1>2, <1>3, <1>4, <1>5, <1>6 DEF Call, Insert

(* The tuples after a step: pages only grow, XMIN never changes, and an    *)
(* XMAX changes only from 0, by a delete of its record.                    *)
LEMMA TuplesGrow ==
  ASSUME HeapInv, [Next]_heapVars
  PROVE  /\ slots' \in [PageIds -> Seq(Tuple)]
         /\ \A p \in PageIds : Len(slots[p]) \in Nat /\ Len(slots[p]) <= Len(slots'[p])
         /\ \A p \in PageIds : \A i \in 1..Len(slots[p]) :
              /\ slots'[p][i].xmin = slots[p][i].xmin
              /\ slots[p][i].xmax # 0 => slots'[p][i].xmax = slots[p][i].xmax
<1>0. slots \in [PageIds -> Seq(Tuple)] /\ \A p \in PageIds : Len(slots[p]) \in Nat
  BY LenProperties DEF HeapInv, HeapTypeOK
<1>1. CASE slots' = slots
  BY <1>0, <1>1
<1>2. CASE \E t \in Tasks, p \in PageIds : txn[t] # 0 /\ Put(p, t)
  <2> PICK t \in Tasks, p \in PageIds : txn[t] # 0 /\ Put(p, t)
    BY <1>2
  <2> HeapTypeOK
    BY DEF HeapInv
  <2> QED BY PutAppends
<1>3. CASE \E t \in Tasks : \E rid \in inserted : Delete(t, rid)
  <2> PICK t \in Tasks, rid \in inserted : Delete(t, rid)
    BY <1>3
  <2>1. /\ slots' \in [PageIds -> Seq(Tuple)]
        /\ \A q \in PageIds : Len(slots[q]) \in Nat /\ Len(slots'[q]) = Len(slots[q])
    BY DeleteMarks
  <2>2. ASSUME NEW q \in PageIds, NEW i \in 1..Len(slots[q])
        PROVE  /\ slots'[q][i].xmin = slots[q][i].xmin
               /\ slots[q][i].xmax # 0 => slots'[q][i].xmax = slots[q][i].xmax
    BY DeleteMarks
  <2> QED BY <2>1, <2>2
<1> QED BY <1>1, <1>2, <1>3, StepShape DEF heapVars, fileVars

-----------------------------------------------------------------------------
(* One lemma per action, in the order of HeapFile.  The tuples are covered *)
(* by TuplesGrow.                                                          *)

(* The parts of HeapInv a step can disturb besides the tuples. *)
Calls == CallsBounded /\ \A t \in Tasks : pc[t] # "none" => txn[t] # 0

(* The types of everything but the tuples. *)
Typed ==
  /\ first \in 0..allocated
  /\ next \in [PageIds -> 0..MaxPages]
  /\ used \in [PageIds -> Nat]
  /\ allocated \in 0..MaxPages
  /\ nextTxn \in 1..(MaxTxns + 1)
  /\ pc \in [Tasks -> {"none", "idle", "header", "try", "link", "scan"}]
  /\ txn \in [Tasks -> 0..MaxTxns]
  /\ isolation \in [Tasks -> Isolations \union {"Snapshot"}]
  /\ size \in [Tasks -> Nat]
  /\ base \in [Tasks -> 0..MaxPages]
  /\ cur \in [Tasks -> 0..MaxPages]

Grown ==
  /\ \A p \in PageIds : Len(slots[p]) \in Nat /\ Len(slots'[p]) \in Nat
  /\ \A p \in PageIds : Len(slots[p]) <= Len(slots'[p])

(* A new transaction changes no page. *)
LEMMA BeginKeeps ==
  ASSUME Typed, ChainDescends, Calls, RecordsKnown, Grown, NEW t \in Tasks,
         NEW level \in Isolations, Begin(t, level)
  PROVE  Typed' /\ ChainDescends' /\ Calls' /\ RecordsKnown'
<1> USE HeapAssumption DEF Begin, PageIds, fileVars
<1>1. Typed'
  BY SMTT(40) DEF Typed, Calls, CallsBounded
<1>2. ChainDescends'
  BY DEF Typed, ChainDescends, Calls, CallsBounded
<1>3. Calls'
  BY DEF Typed, Calls, CallsBounded, ChainDescends, Grown
<1>4. RecordsKnown'
  BY DEF Typed, RecordsKnown, Grown, Calls, CallsBounded
<1> QED BY <1>1, <1>2, <1>3, <1>4

(* An insert starts. *)
LEMMA StartInsertKeeps ==
  ASSUME Typed, ChainDescends, Calls, RecordsKnown, Grown, NEW t \in Tasks,
         NEW n \in Sizes, StartInsert(t, n)
  PROVE  Typed' /\ ChainDescends' /\ Calls' /\ RecordsKnown'
<1> USE HeapAssumption DEF StartInsert, PageIds, fileVars, txnVars
<1>1. Typed'
  BY DEF Typed, Calls, CallsBounded
<1>2. ChainDescends'
  BY DEF Typed, ChainDescends, Calls, CallsBounded
<1>3. Calls'
  BY DEF Typed, Calls, CallsBounded, ChainDescends, Grown
<1>4. RecordsKnown'
  BY DEF Typed, RecordsKnown, Grown, Calls, CallsBounded
<1> QED BY <1>1, <1>2, <1>3, <1>4

(* first_page is an allocated page or 0. *)
LEMMA InsertHeaderKeeps ==
  ASSUME Typed, ChainDescends, Calls, RecordsKnown, Grown, NEW t \in Tasks,
         InsertHeader(t)
  PROVE  Typed' /\ ChainDescends' /\ Calls' /\ RecordsKnown'
<1> USE HeapAssumption DEF InsertHeader, PageIds, fileVars, txnVars, ghostVars
<1>1. Typed'
  <2>1. first \in 0..MaxPages
    BY DEF Typed
  <2>2. /\ base' \in [Tasks -> 0..MaxPages]
        /\ cur' \in [Tasks -> 0..MaxPages]
        /\ pc' \in [Tasks -> {"none", "idle", "header", "try", "link", "scan"}]
    BY <2>1 DEF Typed
  <2> QED BY <2>2 DEF Typed
<1>2. ChainDescends'
  BY DEF Typed, ChainDescends, Calls, CallsBounded
<1>3. Calls'
  BY DEF Typed, Calls, CallsBounded, ChainDescends, Grown
<1>4. RecordsKnown'
  BY DEF Typed, RecordsKnown, Grown, Calls, CallsBounded
<1> QED BY <1>1, <1>2, <1>3, <1>4

(* A page that is reached is allocated and has room; the record id is that
   of the appended tuple. *)
LEMMA InsertHereKeeps ==
  ASSUME Typed, ChainDescends, Calls, RecordsKnown, Grown, NEW t \in Tasks,
         InsertHere(t),
         cur[t] \in PageIds => Len(slots'[cur[t]]) = Len(slots[cur[t]]) + 1
  PROVE  Typed' /\ ChainDescends' /\ Calls' /\ RecordsKnown'
<1> USE HeapAssumption DEF PageIds
<1>0. cur[t] \in PageIds
  BY DEF Typed, InsertHere
<1>1. Typed'
  <2>1. used' = [used EXCEPT ![cur[t]] = used[cur[t]] + size[t]]
    BY DEF InsertHere, Put
  <2>2. used[cur[t]] + size[t] \in Nat
    BY <1>0, SMTT(30) DEF Typed
  <2>3. used' \in [PageIds -> Nat]
    BY <2>1, <2>2 DEF Typed
  <2>4. /\ pc' \in [Tasks -> {"none", "idle", "header", "try", "link", "scan"}]
        /\ size' \in [Tasks -> Nat]
        /\ base' \in [Tasks -> 0..MaxPages] /\ cur' \in [Tasks -> 0..MaxPages]
    BY DEF Typed, InsertHere, Return
  <2> QED BY <2>3, <2>4 DEF Typed, InsertHere, txnVars
<1>2. ChainDescends'
  BY DEF ChainDescends, InsertHere
<1>3. Calls'
  <2>1. allocated' = allocated /\ txn' = txn
    BY DEF InsertHere, txnVars
  <2>2. ASSUME NEW u \in Tasks
        PROVE  /\ base'[u] <= allocated /\ cur'[u] <= allocated
               /\ pc'[u] = "link" => cur'[u] # 0 /\ Len(slots'[cur'[u]]) > 0
               /\ pc'[u] # "none" => txn[u] # 0
    <3>1. CASE u = t
      <4>1. base'[u] = 0 /\ cur'[u] = 0 /\ pc'[u] = "idle" /\ pc[u] = "try"
        BY <3>1 DEF Typed, InsertHere, Return
      <4> QED BY <4>1 DEF Typed, Calls
    <3>2. CASE u # t
      <4>1. base'[u] = base[u] /\ cur'[u] = cur[u] /\ pc'[u] = pc[u]
        BY <3>2 DEF Typed, InsertHere, Return
      <4>2. cur[u] \in 0..MaxPages
        BY DEF Typed
      <4> QED BY <4>1, <4>2 DEF Calls, CallsBounded, Grown
    <3> QED BY <3>1, <3>2
  <2> QED BY <2>1, <2>2 DEF Calls, CallsBounded
<1>4. RecordsKnown'
  <2> DEFINE new == [page |-> cur[t], slot |-> Len(slots[cur[t]]) + 1]
  <2>1. inserted' = inserted \union {new} /\ deletes' = deletes
    BY DEF InsertHere
  <2>2. new.page \in PageIds /\ new.slot \in 1..Len(slots'[new.page])
    BY <1>0 DEF Grown
  <2>3. ASSUME NEW rid \in inserted
        PROVE  rid.page \in PageIds /\ rid.slot \in 1..Len(slots'[rid.page])
    BY DEF RecordsKnown, Grown
  <2> HIDE DEF new
  <2> QED BY <2>1, <2>2, <2>3 DEF RecordsKnown
<1> QED BY <1>1, <1>2, <1>3, <1>4

(* The next page was allocated before. *)
LEMMA InsertNextKeeps ==
  ASSUME Typed, ChainDescends, Calls, RecordsKnown, Grown, NEW t \in Tasks,
         InsertNext(t)
  PROVE  Typed' /\ ChainDescends' /\ Calls' /\ RecordsKnown'
<1> USE HeapAssumption DEF PageIds
<1>0. /\ cur[t] \in PageIds /\ next[cur[t]] \in 0..MaxPages /\ next[cur[t]] < cur[t]
      /\ cur' = [cur EXCEPT ![t] = next[cur[t]]]
      /\ UNCHANGED <<fileVars, pc, size, base, txnVars, ghostVars>> /\ pc[t] = "try"
  BY DEF Typed, InsertNext, ChainDescends
<1>1. Typed'
  <2>1. cur' \in [Tasks -> 0..MaxPages]
    BY <1>0 DEF Typed
  <2> QED BY <1>0, <2>1 DEF Typed, fileVars, txnVars
<1>2. ChainDescends'
  BY <1>0 DEF ChainDescends, fileVars
<1>3. Calls'
  <2>1. UNCHANGED <<allocated, txn, slots, pc, base>>
    BY <1>0 DEF fileVars, txnVars
  <2>2. ASSUME NEW u \in Tasks
        PROVE  cur'[u] <= allocated /\ (pc[u] = "link" => cur'[u] = cur[u])
    <3>1. cur[u] \in Nat /\ cur[u] <= allocated /\ allocated \in Nat
      BY DEF Typed, Calls, CallsBounded
    <3>2. cur'[u] = IF u = t THEN next[cur[u]] ELSE cur[u]
      BY <1>0 DEF Typed
    <3> QED BY <1>0, <3>1, <3>2
  <2> QED BY <2>1, <2>2 DEF Calls, CallsBounded
<1>4. RecordsKnown'
  BY <1>0 DEF RecordsKnown, fileVars, ghostVars
<1> QED BY <1>1, <1>2, <1>3, <1>4

(* The new page links to one that was there when the header was read. *)
LEMMA InsertAllocKeeps ==
  ASSUME Typed, ChainDescends, Calls, RecordsKnown, Grown, NEW t \in Tasks,
         InsertAlloc(t), Len(slots'[allocated + 1]) = Len(slots[allocated + 1]) + 1
  PROVE  Typed' /\ ChainDescends' /\ Calls' /\ RecordsKnown'
<1> USE HeapAssumption DEF InsertAlloc, PageIds, Put, txnVars, ghostVars
<1>1. Typed'
  <2>1. used' = [used EXCEPT ![allocated + 1] = used[allocated + 1] + size[t]]
    OBVIOUS
  <2>2. used' \in [PageIds -> Nat]
    BY <2>1, SMTT(40) DEF Typed
  <2>3. next' = [next EXCEPT ![allocated + 1] = base[t]]
    OBVIOUS
  <2>4. next' \in [PageIds -> 0..MaxPages]
    BY <2>3 DEF Typed
  <2>5. allocated' \in 0..MaxPages /\ first' \in 0..allocated'
    BY DEF Typed
  <2>6. /\ pc' \in [Tasks -> {"none", "idle", "header", "try", "link", "scan"}]
        /\ cur' \in [Tasks -> 0..MaxPages]
    BY SMTT(40) DEF Typed
  <2> QED BY <2>2, <2>4, <2>5, <2>6 DEF Typed
<1>2. ChainDescends'
  BY SMTT(40) DEF Typed, ChainDescends, Calls, CallsBounded
<1>3. Calls'
  <2>1. /\ allocated' = allocated + 1 /\ txn' = txn /\ base' = base
        /\ cur' = [cur EXCEPT ![t] = allocated + 1] /\ pc' = [pc EXCEPT ![t] = "link"]
        /\ pc[t] = "try" /\ allocated \in Nat
    BY DEF Typed
  <2>2. ASSUME NEW u \in Tasks
        PROVE  /\ base[u] <= allocated + 1 /\ cur'[u] <= allocated + 1
               /\ pc'[u] = "link" => cur'[u] # 0 /\ Len(slots'[cur'[u]]) > 0
               /\ pc'[u] # "none" => txn[u] # 0
    <3>1. /\ base[u] \in Nat /\ cur[u] \in 0..MaxPages
          /\ base[u] <= allocated /\ cur[u] <= allocated
      BY DEF Typed, Calls, CallsBounded
    <3>2. CASE u = t
      <4>1. cur'[u] = allocated + 1 /\ pc[u] = "try"
        BY <2>1, <3>2 DEF Typed
      <4>2. Len(slots[allocated + 1]) \in Nat
        BY DEF Grown
      <4> QED BY <2>1, <3>1, <4>1, <4>2 DEF Calls
    <3>3. CASE u # t
      <4>1. cur'[u] = cur[u] /\ pc'[u] = pc[u]
        BY <2>1, <3>3 DEF Typed
      <4>2. pc[u] = "link" => Len(slots'[cur[u]]) > 0
        BY <3>1 DEF Calls, CallsBounded, Grown
      <4> QED BY <2>1, <3>1, <4>1, <4>2 DEF Calls, CallsBounded
    <3> QED BY <3>2, <3>3
  <2> QED BY <2>1, <2>2 DEF Calls, CallsBounded
<1>4. RecordsKnown'
  <2>1. inserted' = inserted /\ deletes' = deletes
    OBVIOUS
  <2>2. ASSUME NEW rid \in inserted
        PROVE  rid.page \in PageIds /\ rid.slot \in 1..Len(slots'[rid.page])
    BY DEF RecordsKnown, Grown
  <2> QED BY <2>1, <2>2 DEF RecordsKnown
<1> QED BY <1>1, <1>2, <1>3, <1>4

(* The page that is left behind is linked like any other. *)
LEMMA InsertTooLargeKeeps ==
  ASSUME Typed, ChainDescends, Calls, RecordsKnown, Grown, NEW t \in Tasks,
         InsertTooLarge(t)
  PROVE  Typed' /\ ChainDescends' /\ Calls' /\ RecordsKnown'
<1> USE HeapAssumption DEF InsertTooLarge, PageIds, Return, txnVars, ghostVars
<1>1. Typed'
  BY DEF Typed, Calls, CallsBounded
<1>2. ChainDescends'
  BY DEF Typed, ChainDescends, Calls, CallsBounded
<1>3. Calls'
  BY SMTT(40) DEF Typed, Calls, CallsBounded, ChainDescends, Grown
<1>4. RecordsKnown'
  BY DEF Typed, RecordsKnown, Grown, Calls, CallsBounded
<1> QED BY <1>1, <1>2, <1>3, <1>4

(* The new first page has its tuple, in slot 1. *)
LEMMA InsertLinkKeeps ==
  ASSUME Typed, ChainDescends, Calls, RecordsKnown, Grown, NEW t \in Tasks,
         InsertLink(t)
  PROVE  Typed' /\ ChainDescends' /\ Calls' /\ RecordsKnown'
<1> USE HeapAssumption DEF InsertLink, PageIds, Return, txnVars
<1>1. Typed'
  <2>1. first' \in 0..allocated /\ UNCHANGED <<allocated, next, used>>
    BY DEF Typed, Calls, CallsBounded
  <2>2. /\ pc' \in [Tasks -> {"none", "idle", "header", "try", "link", "scan"}]
        /\ size' \in [Tasks -> Nat]
        /\ base' \in [Tasks -> 0..MaxPages] /\ cur' \in [Tasks -> 0..MaxPages]
    BY DEF Typed
  <2> QED BY <2>1, <2>2 DEF Typed
<1>2. ChainDescends'
  BY DEF Typed, ChainDescends, Calls, CallsBounded
<1>3. Calls'
  BY DEF Typed, Calls, CallsBounded, ChainDescends, Grown
<1>4. RecordsKnown'
  BY SMTT(40) DEF Typed, RecordsKnown, Grown, Calls, CallsBounded
<1> QED BY <1>1, <1>2, <1>3, <1>4

(* A deleted record was inserted. *)
LEMMA DeleteKeeps ==
  ASSUME Typed, ChainDescends, Calls, RecordsKnown, Grown, NEW t \in Tasks,
         NEW rid \in inserted, Delete(t, rid)
  PROVE  Typed' /\ ChainDescends' /\ Calls' /\ RecordsKnown'
<1> USE HeapAssumption DEF Delete, PageIds, callVars, txnVars
<1>1. Typed'
  BY DEF Typed, Calls, CallsBounded
<1>2. ChainDescends'
  BY DEF Typed, ChainDescends, Calls, CallsBounded
<1>3. Calls'
  BY SMTT(40) DEF Typed, Calls, CallsBounded, ChainDescends, Grown
<1>4. RecordsKnown'
  <2>1. inserted' = inserted /\ deletes' = deletes \union {<<rid, txn[t]>>}
    OBVIOUS
  <2>2. ASSUME NEW r \in inserted
        PROVE  r.page \in PageIds /\ r.slot \in 1..Len(slots'[r.page])
    BY DEF RecordsKnown, Grown
  <2>3. <<rid, txn[t]>>[1] = rid
    OBVIOUS
  <2> QED BY <2>1, <2>2, <2>3 DEF RecordsKnown
<1> QED BY <1>1, <1>2, <1>3, <1>4

(* A scan starts at an allocated page or 0. *)
LEMMA StartScanKeeps ==
  ASSUME Typed, ChainDescends, Calls, RecordsKnown, Grown, NEW t \in Tasks,
         StartScan(t)
  PROVE  Typed' /\ ChainDescends' /\ Calls' /\ RecordsKnown'
<1> USE HeapAssumption DEF StartScan, PageIds, fileVars, txnVars
<1>1. Typed'
  BY DEF Typed, Calls, CallsBounded
<1>2. ChainDescends'
  BY DEF Typed, ChainDescends, Calls, CallsBounded
<1>3. Calls'
  BY DEF Typed, Calls, CallsBounded, ChainDescends, Grown
<1>4. RecordsKnown'
  BY DEF Typed, RecordsKnown, Grown, Calls, CallsBounded
<1> QED BY <1>1, <1>2, <1>3, <1>4

(* A scan moves on to a page allocated before. *)
LEMMA ScanPageKeeps ==
  ASSUME Typed, ChainDescends, Calls, RecordsKnown, Grown, NEW t \in Tasks,
         ScanPage(t)
  PROVE  Typed' /\ ChainDescends' /\ Calls' /\ RecordsKnown'
<1> USE HeapAssumption DEF PageIds
<1>0. /\ cur[t] \in PageIds /\ next[cur[t]] \in 0..MaxPages /\ next[cur[t]] < cur[t]
      /\ cur' = [cur EXCEPT ![t] = next[cur[t]]]
      /\ UNCHANGED <<fileVars, pc, size, base, txnVars, ghostVars>> /\ pc[t] = "scan"
  BY DEF Typed, ScanPage, ChainDescends
<1>1. Typed'
  <2>1. cur' \in [Tasks -> 0..MaxPages]
    BY <1>0 DEF Typed
  <2> QED BY <1>0, <2>1 DEF Typed, fileVars, txnVars
<1>2. ChainDescends'
  BY <1>0 DEF ChainDescends, fileVars
<1>3. Calls'
  <2>1. UNCHANGED <<allocated, txn, slots, pc, base>>
    BY <1>0 DEF fileVars, txnVars
  <2>2. ASSUME NEW u \in Tasks
        PROVE  cur'[u] <= allocated /\ (pc[u] = "link" => cur'[u] = cur[u])
    <3>1. cur[u] \in Nat /\ cur[u] <= allocated /\ allocated \in Nat
      BY DEF Typed, Calls, CallsBounded
    <3>2. cur'[u] = IF u = t THEN next[cur[u]] ELSE cur[u]
      BY <1>0 DEF Typed
    <3> QED BY <1>0, <3>1, <3>2
  <2> QED BY <2>1, <2>2 DEF Calls, CallsBounded
<1>4. RecordsKnown'
  BY <1>0 DEF RecordsKnown, fileVars, ghostVars
<1> QED BY <1>1, <1>2, <1>3, <1>4

(* A scan returns. *)
LEMMA ScanEndKeeps ==
  ASSUME Typed, ChainDescends, Calls, RecordsKnown, Grown, NEW t \in Tasks,
         ScanEnd(t)
  PROVE  Typed' /\ ChainDescends' /\ Calls' /\ RecordsKnown'
<1> USE HeapAssumption DEF ScanEnd, PageIds, Return, fileVars, txnVars
<1>1. Typed'
  BY DEF Typed, Calls, CallsBounded
<1>2. ChainDescends'
  BY DEF Typed, ChainDescends, Calls, CallsBounded
<1>3. Calls'
  BY DEF Typed, Calls, CallsBounded, ChainDescends, Grown
<1>4. RecordsKnown'
  BY DEF Typed, RecordsKnown, Grown, Calls, CallsBounded
<1> QED BY <1>1, <1>2, <1>3, <1>4

(* A failed call leaves the file as it is. *)
LEMMA StorageErrorKeeps ==
  ASSUME Typed, ChainDescends, Calls, RecordsKnown, Grown, NEW t \in Tasks,
         StorageError(t)
  PROVE  Typed' /\ ChainDescends' /\ Calls' /\ RecordsKnown'
<1> USE HeapAssumption DEF StorageError, PageIds, Return, fileVars, txnVars
<1>1. Typed'
  BY DEF Typed, Calls, CallsBounded
<1>2. ChainDescends'
  BY DEF Typed, ChainDescends, Calls, CallsBounded
<1>3. Calls'
  BY DEF Typed, Calls, CallsBounded, ChainDescends, Grown
<1>4. RecordsKnown'
  BY DEF Typed, RecordsKnown, Grown, Calls, CallsBounded
<1> QED BY <1>1, <1>2, <1>3, <1>4

-----------------------------------------------------------------------------
(* HeapInv is inductive. *)
LEMMA HeapInvNext ==
  ASSUME HeapInv, [Next]_heapVars
  PROVE  HeapInv'
<1>1. Typed /\ ChainDescends /\ Calls /\ RecordsKnown
  BY DEF HeapInv, HeapTypeOK, Typed, Calls
<1>2. slots' \in [PageIds -> Seq(Tuple)] /\ Grown
  <2>1. slots' \in [PageIds -> Seq(Tuple)]
    BY TuplesGrow
  <2>2. \A p \in PageIds : Len(slots'[p]) \in Nat
    BY <2>1, LenProperties
  <2> QED BY <2>1, <2>2, TuplesGrow DEF Grown
<1>3. SUFFICES Typed' /\ ChainDescends' /\ Calls' /\ RecordsKnown'
  BY <1>2 DEF HeapInv, HeapTypeOK, Typed, Calls
<1>4. CASE UNCHANGED heapVars
  BY <1>1, <1>4 DEF heapVars, fileVars, callVars, txnVars, ghostVars, Typed, ChainDescends,
     Calls, CallsBounded, RecordsKnown
<1>5. ASSUME NEW t \in Tasks, Call(t) \/ Insert(t) \/ Scan(t) \/ StorageError(t)
      PROVE  Typed' /\ ChainDescends' /\ Calls' /\ RecordsKnown'
  <2>1. ASSUME NEW level \in Isolations, Begin(t, level)
        PROVE  Typed' /\ ChainDescends' /\ Calls' /\ RecordsKnown'
    BY <1>1, <1>2, <2>1, BeginKeeps
  <2>2. ASSUME NEW n \in Sizes, StartInsert(t, n)
        PROVE  Typed' /\ ChainDescends' /\ Calls' /\ RecordsKnown'
    BY <1>1, <1>2, <2>2, StartInsertKeeps
  <2>3. ASSUME NEW rid \in inserted, Delete(t, rid)
        PROVE  Typed' /\ ChainDescends' /\ Calls' /\ RecordsKnown'
    BY <1>1, <1>2, <2>3, DeleteKeeps
  <2>4. CASE InsertHere(t)
    <3>1. HeapTypeOK /\ txn[t] # 0 /\ Put(cur[t], t)
      BY <2>4 DEF HeapInv, HeapTypeOK, InsertHere
    <3>2. cur[t] \in PageIds => Len(slots'[cur[t]]) = Len(slots[cur[t]]) + 1
      BY <3>1, PutAppends
    <3> QED BY <1>1, <1>2, <2>4, <3>2, InsertHereKeeps
  <2>5. CASE InsertAlloc(t)
    <3>1. /\ HeapTypeOK /\ txn[t] # 0
          /\ allocated + 1 \in PageIds /\ Put(allocated + 1, t)
      BY <2>5 DEF HeapInv, HeapTypeOK, InsertAlloc
    <3>2. Len(slots'[allocated + 1]) = Len(slots[allocated + 1]) + 1
      BY <3>1, PutAppends
    <3> QED BY <1>1, <1>2, <2>5, <3>2, InsertAllocKeeps
  <2>6. CASE InsertHeader(t)
    BY <1>1, <1>2, <2>6, InsertHeaderKeeps
  <2>7. CASE InsertNext(t)
    BY <1>1, <1>2, <2>7, InsertNextKeeps
  <2>8. CASE InsertTooLarge(t)
    BY <1>1, <1>2, <2>8, InsertTooLargeKeeps
  <2>9. CASE InsertLink(t)
    BY <1>1, <1>2, <2>9, InsertLinkKeeps
  <2>10. CASE StartScan(t)
    BY <1>1, <1>2, <2>10, StartScanKeeps
  <2>11. CASE ScanPage(t)
    BY <1>1, <1>2, <2>11, ScanPageKeeps
  <2>12. CASE ScanEnd(t)
    BY <1>1, <1>2, <2>12, ScanEndKeeps
  <2>13. CASE StorageError(t)
    BY <1>1, <1>2, <2>13, StorageErrorKeeps
  <2> QED BY <1>5, <2>1, <2>2, <2>3, <2>4, <2>5, <2>6, <2>7, <2>8, <2>9, <2>10, <2>11,
             <2>12, <2>13 DEF Call, Insert, Scan
<1> QED BY <1>4, <1>5 DEF Next

(* HeapInv holds in every state. *)
LEMMA HeapInvHolds == Spec => []HeapInv
<1>1. Init => HeapInv
  BY HeapInvInit
<1>2. HeapInv /\ [Next]_heapVars => HeapInv'
  BY HeapInvNext
<1> QED BY <1>1, <1>2, PTL DEF Spec

(* The file and the running calls keep their types. *)
THEOREM HeapTypeCorrect == Spec => []HeapTypeOK
<1>1. HeapInv => HeapTypeOK
  BY DEF HeapInv
<1> QED BY <1>1, HeapInvHolds, PTL

(* The list of pages always ends: however many inserts prepend at once,    *)
(* next_page goes down, so the loops of insert and scan cannot run for     *)
(* ever.                                                                   *)
THEOREM ListEnds == Spec => []ChainDescends
<1>1. HeapInv => ChainDescends
  BY DEF HeapInv
<1> QED BY <1>1, HeapInvHolds, PTL

(* A record id keeps its meaning: no step of any transaction removes or    *)
(* replaces a tuple, and an XMAX that is set stays as it is.               *)
THEOREM RecordsAreStable == Spec => RecordsStable
<1>1. ASSUME HeapInv, [Next]_heapVars
      PROVE  [\A p \in PageIds : \A i \in 1..Len(slots[p]) :
                /\ i <= Len(slots'[p])
                /\ slots'[p][i].xmin = slots[p][i].xmin
                /\ slots[p][i].xmax # 0 => slots'[p][i].xmax = slots[p][i].xmax]_heapVars
  <2>1. slots' \in [PageIds -> Seq(Tuple)]
    BY <1>1, TuplesGrow
  <2>2. \A p \in PageIds : Len(slots'[p]) \in Nat
    BY <2>1, LenProperties
  <2> QED BY <1>1, <2>2, TuplesGrow
<1> QED BY <1>1, HeapInvHolds, PTL DEF Spec, RecordsStable

-----------------------------------------------------------------------------
(* Every delete that returned Ok is the one whose transaction is in XMAX;  *)
(* transaction ids start at 1, so XMAX is not 0 then.                      *)
DeletesMarked == DeleteExclusive /\ \A d \in deletes : d[2] # 0

(* A later step cannot unmark the tuple, and a second delete finds it      *)
(* marked.                                                                 *)
LEMMA DeletesStayMarked ==
  ASSUME HeapInv, DeletesMarked, [Next]_heapVars
  PROVE  DeletesMarked'
<1>1. ASSUME NEW d \in deletes
      PROVE  slots'[d[1].page][d[1].slot].xmax = d[2] /\ d[2] # 0
  <2>1. d[1].page \in PageIds /\ d[1].slot \in 1..Len(slots[d[1].page])
    BY DEF HeapInv, RecordsKnown
  <2>2. slots[d[1].page][d[1].slot].xmax = d[2] /\ d[2] # 0
    BY DEF DeletesMarked, DeleteExclusive
  <2> QED BY <2>1, <2>2, TuplesGrow
<1>2. CASE deletes' = deletes
  BY <1>1, <1>2 DEF DeletesMarked, DeleteExclusive
<1>3. CASE \E t \in Tasks : \E rid \in inserted : Delete(t, rid)
  <2> PICK t \in Tasks, rid \in inserted : Delete(t, rid)
    BY <1>3
  <2>1. txn[t] # 0
    BY DEF Delete, HeapInv, HeapTypeOK
  <2>2. slots'[rid.page][rid.slot].xmax = txn[t]
    BY DeleteMarks
  <2>3. deletes' = deletes \union {<<rid, txn[t]>>}
    BY DEF Delete
  <2>4. ASSUME NEW d \in deletes'
        PROVE  slots'[d[1].page][d[1].slot].xmax = d[2] /\ d[2] # 0
    <3>1. CASE d \in deletes
      BY <1>1, <3>1
    <3>2. CASE d = <<rid, txn[t]>>
      BY <2>1, <2>2, <3>2
    <3> QED BY <2>3, <3>1, <3>2
  <2> QED BY <2>4 DEF DeletesMarked, DeleteExclusive
<1>4. CASE UNCHANGED heapVars
  BY <1>2, <1>4 DEF heapVars, ghostVars
<1> QED BY <1>2, <1>3, <1>4, StepShape

(* Of any number of transactions that delete a tuple, one succeeds, and    *)
(* the tuple stays marked with it.                                         *)
THEOREM OneDeleteSucceeds == Spec => []DeleteExclusive
<1>1. Init => DeletesMarked
  BY DEF Init, DeletesMarked, DeleteExclusive
<1>2. HeapInv /\ DeletesMarked /\ [Next]_heapVars => DeletesMarked'
  BY DeletesStayMarked
<1>3. DeletesMarked => DeleteExclusive
  BY DEF DeletesMarked
<1> QED BY <1>1, <1>2, <1>3, HeapInvHolds, PTL DEF Spec

-----------------------------------------------------------------------------
(* A step deletes only what its transaction may see. *)
LEMMA FutureStaysUndeleted ==
  ASSUME HeapInv, NoFutureDelete, [Next]_heapVars, "ReadUncommitted" \notin Isolations
  PROVE  NoFutureDelete'
<1>0. slots \in [PageIds -> Seq(Tuple)] /\ \A p \in PageIds : Len(slots[p]) \in Nat
  BY LenProperties DEF HeapInv, HeapTypeOK
<1>1. CASE slots' = slots
  BY <1>1 DEF NoFutureDelete
<1>2. CASE \E t \in Tasks, p \in PageIds : txn[t] # 0 /\ Put(p, t)
  <2> PICK t \in Tasks, p \in PageIds : txn[t] # 0 /\ Put(p, t)
    BY <1>2
  <2> HeapTypeOK
    BY DEF HeapInv
  <2>1. ASSUME NEW q \in PageIds, NEW i \in 1..Len(slots'[q]), slots'[q][i].xmax # 0
        PROVE  slots'[q][i].xmax >= slots'[q][i].xmin
    <3>1. CASE i \in 1..Len(slots[q])
      <4>1. slots'[q][i] = slots[q][i]
        BY <3>1, PutAppends
      <4> QED BY <2>1, <3>1, <4>1 DEF NoFutureDelete
    <3>2. CASE i \notin 1..Len(slots[q])
      <4>1. q = p
        BY <3>2, PutAppends
      <4>2. Len(slots'[p]) = Len(slots[p]) + 1
        BY PutAppends
      <4>3. i = Len(slots[p]) + 1
        BY <1>0, <3>2, <4>1, <4>2
      <4>4. slots'[p][Len(slots[p]) + 1] = make_header(txn[t])
        BY PutAppends
      <4>5. slots'[q][i].xmax = 0
        BY <4>1, <4>3, <4>4 DEF make_header
      <4> QED BY <2>1, <4>5
    <3> QED BY <3>1, <3>2
  <2> QED BY <2>1 DEF NoFutureDelete
<1>3. CASE \E t \in Tasks : \E rid \in inserted : Delete(t, rid)
  <2> PICK t \in Tasks, rid \in inserted : Delete(t, rid)
    BY <1>3
  <2>1. rid.page \in PageIds /\ rid.slot \in 1..Len(slots[rid.page])
    BY DeleteMarks
  <2>2. slots[rid.page][rid.slot].xmin <= txn[t]
    <3>1. isolation[t] # "ReadUncommitted"
      BY DEF HeapInv, HeapTypeOK
    <3> QED BY <3>1 DEF Delete, Deletable, is_visible
  <2>3. slots[rid.page][rid.slot].xmin \in Nat /\ txn[t] \in Nat
    <3>1. slots[rid.page][rid.slot] \in Tuple
      BY <1>0, <2>1, ElementOfSeq
    <3>2. slots[rid.page][rid.slot].xmin \in 1..MaxTxns
      BY <3>1 DEF Tuple
    <3>3. txn[t] \in 0..MaxTxns
      BY DEF HeapInv, HeapTypeOK
    <3> QED BY <3>2, <3>3
  <2>4. slots'[rid.page][rid.slot].xmax >= slots'[rid.page][rid.slot].xmin
    BY <2>2, <2>3, DeleteMarks
  <2>5. ASSUME NEW q \in PageIds, NEW i \in 1..Len(slots'[q]), slots'[q][i].xmax # 0
        PROVE  slots'[q][i].xmax >= slots'[q][i].xmin
    <3>1. i \in 1..Len(slots[q])
      BY DeleteMarks
    <3>2. slots'[q][i] = slots[q][i] \/ (q = rid.page /\ i = rid.slot)
      BY <3>1, DeleteMarks
    <3> QED BY <2>4, <2>5, <3>1, <3>2 DEF NoFutureDelete
  <2> QED BY <2>5 DEF NoFutureDelete
<1> QED BY <1>1, <1>2, <1>3, StepShape DEF heapVars, fileVars

(* Where no transaction reads uncommitted data, none deletes a tuple of a  *)
(* later transaction.                                                      *)
THEOREM FutureIsSafe ==
  ASSUME "ReadUncommitted" \notin Isolations
  PROVE  Spec => []NoFutureDelete
<1>1. Init => NoFutureDelete
  <2> SUFFICES ASSUME Init PROVE NoFutureDelete
    OBVIOUS
  <2>1. \A p \in PageIds : Len(slots[p]) = 0
    BY EmptySeq DEF Init
  <2> QED BY <2>1 DEF NoFutureDelete
<1>2. HeapInv /\ NoFutureDelete /\ [Next]_heapVars => NoFutureDelete'
  BY FutureStaysUndeleted
<1> QED BY <1>1, <1>2, HeapInvHolds, PTL DEF Spec
-----------------------------------------------------------------------------
(* What a transaction reads of its own *)

(* A tuple is marked only by a delete that returned Ok, and record ids are *)
(* pairs of a page and a slot.                                             *)
MarksAreDeletes ==
  /\ \A rid \in inserted : rid = [page |-> rid.page, slot |-> rid.slot]
  /\ \A p \in PageIds : \A i \in 1..Len(slots[p]) :
       slots[p][i].xmax # 0 => <<[page |-> p, slot |-> i], slots[p][i].xmax>> \in deletes

LEMMA InsertedShape ==
  ASSUME Next, \A rid \in inserted : rid = [page |-> rid.page, slot |-> rid.slot]
  PROVE  \A rid \in inserted' : rid = [page |-> rid.page, slot |-> rid.slot]
<1>1. CASE inserted' = inserted
  BY <1>1
<1>2. CASE \E p, i : inserted' = inserted \union {[page |-> p, slot |-> i]}
  BY <1>2
<1>3. ASSUME NEW t \in Tasks, Call(t) \/ Insert(t) \/ Scan(t) \/ StorageError(t)
      PROVE  \/ inserted' = inserted
             \/ \E p, i : inserted' = inserted \union {[page |-> p, slot |-> i]}
  <2>1. CASE InsertHere(t)
    BY <2>1 DEF InsertHere
  <2>2. CASE InsertLink(t)
    BY <2>2 DEF InsertLink
  <2>3. CASE Call(t)
    BY <2>3 DEF Call, Begin, StartInsert, Delete, StartScan
  <2>4. CASE InsertHeader(t) \/ InsertNext(t) \/ InsertAlloc(t) \/ InsertTooLarge(t)
    BY <2>4 DEF InsertHeader, InsertNext, InsertAlloc, InsertTooLarge, ghostVars
  <2>5. CASE Scan(t) \/ StorageError(t)
    BY <2>5 DEF Scan, ScanPage, ScanEnd, StorageError, ghostVars
  <2> QED BY <1>3, <2>1, <2>2, <2>3, <2>4, <2>5 DEF Insert
<1> QED BY <1>1, <1>2, <1>3 DEF Next

LEMMA MarksStayDeletes ==
  ASSUME HeapInv, MarksAreDeletes, [Next]_heapVars
  PROVE  MarksAreDeletes'
<1>0. slots \in [PageIds -> Seq(Tuple)] /\ \A p \in PageIds : Len(slots[p]) \in Nat
  BY LenProperties DEF HeapInv, HeapTypeOK
<1>1. CASE UNCHANGED heapVars
  BY <1>1 DEF heapVars, fileVars, ghostVars, MarksAreDeletes
<1>2. ASSUME Next,
             \A p \in PageIds : \A i \in 1..Len(slots'[p]) :
               slots'[p][i].xmax # 0 => <<[page |-> p, slot |-> i], slots'[p][i].xmax>> \in deletes'
      PROVE  MarksAreDeletes'
  BY <1>2, InsertedShape DEF MarksAreDeletes
<1>3. CASE Next /\ slots' = slots /\ deletes' = deletes
  BY <1>2, <1>3 DEF MarksAreDeletes
<1>4. CASE Next /\ deletes' = deletes /\ \E t \in Tasks, p \in PageIds : txn[t] # 0 /\ Put(p, t)
  <2> PICK t \in Tasks, p \in PageIds : txn[t] # 0 /\ Put(p, t)
    BY <1>4
  <2> HeapTypeOK
    BY DEF HeapInv
  <2>1. ASSUME NEW q \in PageIds, NEW i \in 1..Len(slots'[q]), slots'[q][i].xmax # 0
        PROVE  <<[page |-> q, slot |-> i], slots'[q][i].xmax>> \in deletes'
    <3>1. CASE i \in 1..Len(slots[q])
      <4>1. slots'[q][i] = slots[q][i]
        BY <3>1, PutAppends
      <4> QED BY <1>4, <2>1, <3>1, <4>1 DEF MarksAreDeletes
    <3>2. CASE i \notin 1..Len(slots[q])
      <4>1. q = p
        BY <3>2, PutAppends
      <4>2. Len(slots'[p]) = Len(slots[p]) + 1
        BY PutAppends
      <4>3. i = Len(slots[p]) + 1
        BY <1>0, <3>2, <4>1, <4>2
      <4>4. slots'[p][Len(slots[p]) + 1] = make_header(txn[t])
        BY PutAppends
      <4>5. slots'[q][i].xmax = 0
        BY <4>1, <4>3, <4>4 DEF make_header
      <4> QED BY <2>1, <4>5
    <3> QED BY <3>1, <3>2
  <2> QED BY <1>2, <1>4, <2>1
<1>5. CASE Next /\ \E t \in Tasks : \E rid \in inserted : Delete(t, rid)
  <2> PICK t \in Tasks, rid \in inserted : Delete(t, rid)
    BY <1>5
  <2>1. /\ rid = [page |-> rid.page, slot |-> rid.slot]
        /\ deletes' = deletes \union {<<rid, txn[t]>>}
    BY DEF Delete, MarksAreDeletes
  <2>2. ASSUME NEW q \in PageIds, NEW i \in 1..Len(slots'[q]), slots'[q][i].xmax # 0
        PROVE  <<[page |-> q, slot |-> i], slots'[q][i].xmax>> \in deletes'
    <3>1. i \in 1..Len(slots[q])
      BY DeleteMarks
    <3>2. CASE slots'[q][i] = slots[q][i]
      BY <2>1, <2>2, <3>1, <3>2 DEF MarksAreDeletes
    <3>3. CASE q = rid.page /\ i = rid.slot
      <4>1. slots'[q][i].xmax = txn[t]
        BY <3>3, DeleteMarks
      <4> QED BY <2>1, <3>3, <4>1
    <3> QED BY <3>1, <3>2, <3>3, DeleteMarks
  <2> QED BY <1>2, <1>5, <2>2
<1> QED BY <1>1, <1>3, <1>4, <1>5, StepShape

(* A transaction can get what it inserted until it deletes it itself,      *)
(* whatever the isolation levels and whoever deletes it after, as long as  *)
(* no earlier transaction has deleted it.                                  *)
THEOREM OwnWritesAreRead == Spec => []ReadYourWrites
<1>1. Init => MarksAreDeletes
  <2> SUFFICES ASSUME Init PROVE MarksAreDeletes
    OBVIOUS
  <2>1. \A p \in PageIds : Len(slots[p]) = 0
    BY EmptySeq DEF Init
  <2>2. inserted = {}
    BY DEF Init
  <2> QED BY <2>1, <2>2 DEF MarksAreDeletes
<1>2. Spec => []MarksAreDeletes
  <2>1. HeapInv /\ MarksAreDeletes /\ [Next]_heapVars => MarksAreDeletes'
    BY MarksStayDeletes
  <2> QED BY <1>1, <2>1, HeapInvHolds, PTL DEF Spec
<1>3. ASSUME HeapInv, MarksAreDeletes, DeleteExclusive PROVE ReadYourWrites
  <2> SUFFICES ASSUME NEW t \in Tasks, NEW rid \in inserted,
                      slots[rid.page][rid.slot].xmin = txn[t],
                      \A d \in deletes : d[1] = rid => d[2] >= txn[t]
               PROVE  get(t, rid) = "Ok" <=> <<rid, txn[t]>> \notin deletes
    BY DEF ReadYourWrites
  <2> DEFINE x == slots[rid.page][rid.slot].xmax
  <2>1. /\ rid.page \in PageIds /\ rid.slot \in 1..Len(slots[rid.page])
        /\ rid = [page |-> rid.page, slot |-> rid.slot]
    BY <1>3 DEF HeapInv, RecordsKnown, MarksAreDeletes
  <2>2. /\ Len(slots[rid.page]) \in Nat /\ slots[rid.page][rid.slot] \in Tuple
        /\ txn[t] \in Nat /\ x \in Nat
    <3>1. slots[rid.page] \in Seq(Tuple) /\ txn[t] \in 0..MaxTxns
      BY <1>3, <2>1 DEF HeapInv, HeapTypeOK
    <3>2. slots[rid.page][rid.slot] \in Tuple /\ Len(slots[rid.page]) \in Nat
      BY <2>1, <3>1, ElementOfSeq, LenProperties
    <3> QED BY <3>1, <3>2, HeapAssumption DEF Tuple
  <2>3. get(t, rid) = "Ok" <=> x = 0 \/ x > txn[t]
    <3>1. txn[t] <= txn[t]
      BY <2>2
    <3> QED BY <2>1, <2>2, <3>1 DEF get, is_visible
  <2>4. txn[t] # 0
    BY <2>1, <2>2 DEF Tuple
  <2>5. x # 0 => x >= txn[t]
    <3>1. x # 0 => <<rid, x>> \in deletes
      BY <1>3, <2>1 DEF MarksAreDeletes
    <3> QED BY <3>1
  <2>6. x = txn[t] => <<rid, txn[t]>> \in deletes
    BY <1>3, <2>1, <2>4 DEF MarksAreDeletes
  <2>7. <<rid, txn[t]>> \in deletes => x = txn[t]
    BY <1>3 DEF DeleteExclusive
  <2> HIDE DEF x
  <2> QED BY <2>2, <2>3, <2>4, <2>5, <2>6, <2>7
<1> QED BY <1>2, <1>3, HeapInvHolds, OneDeleteSucceeds, PTL

-----------------------------------------------------------------------------
(* The pages of a list *)

(* Chain of HeapFile for any links, so that it can be compared between the *)
(* two states of a step.                                                   *)
Follow(nx, p) ==
  LET from[q \in 0..MaxPages] ==
        IF q = 0 THEN {} ELSE {q} \union (IF nx[q] < q THEN from[nx[q]] ELSE {})
  IN from[p]

(* Links that lead to pages allocated earlier. *)
Links == {nx \in [PageIds -> 0..MaxPages] : \A p \in PageIds : nx[p] < p}

LEMMA FollowStep ==
  ASSUME NEW nx \in Links
  PROVE  /\ Follow(nx, 0) = {}
         /\ \A q \in PageIds : Follow(nx, q) = {q} \union Follow(nx, nx[q])
<1> USE HeapAssumption DEF PageIds, Links
<1> DEFINE Is(g) == g = [q \in 0..MaxPages |->
                           IF q = 0 THEN {} ELSE {q} \union (IF nx[q] < q THEN g[nx[q]] ELSE {})]
           Upto(g, m) == /\ g[0] = {}
                         /\ \A q \in 1..m : g[q] = {q} \union g[nx[q]]
           S == {m \in 0..MaxPages : \E g \in [0..m -> SUBSET Nat] : Upto(g, m)}
           from == CHOOSE g : Is(g)
<1>1. 0 \in S
  <2>1. [i \in 0..0 |-> {}] \in [0..0 -> SUBSET Nat] /\ Upto([i \in 0..0 |-> {}], 0)
    OBVIOUS
  <2>2. 0 \in 0..MaxPages
    OBVIOUS
  <2> HIDE DEF Upto
  <2> QED BY <2>1, <2>2
<1>2. ASSUME NEW m \in 0..(MaxPages - 1), m \in S PROVE m + 1 \in S
  <2>1. PICK g \in [0..m -> SUBSET Nat] : Upto(g, m)
    BY <1>2
  <2> DEFINE h == [q \in 0..(m + 1) |-> IF q <= m THEN g[q] ELSE {m + 1} \union g[nx[m + 1]]]
  <2>2. m + 1 \in PageIds /\ nx[m + 1] \in 0..m
    OBVIOUS
  <2>3. h \in [0..(m + 1) -> SUBSET Nat]
    BY <2>2
  <2>4. h[0] = {}
    BY <2>1
  <2>5. ASSUME NEW q \in 1..(m + 1) PROVE h[q] = {q} \union h[nx[q]]
    <3>1. CASE q <= m
      <4>1. q \in PageIds /\ nx[q] \in 0..m
        BY <3>1
      <4> QED BY <2>1, <3>1, <4>1
    <3>2. CASE q = m + 1
      <4>1. ~(q <= m) /\ q \in 0..(m + 1) /\ nx[q] \in 0..(m + 1) /\ nx[q] <= m
        BY <2>2, <3>2
      <4>2. h[q] = {q} \union g[nx[q]]
        BY <3>2, <4>1
      <4>3. h[nx[q]] = g[nx[q]]
        BY <4>1
      <4> QED BY <4>2, <4>3
    <3>3. q <= m \/ q = m + 1
      OBVIOUS
    <3> HIDE DEF h
    <3> QED BY <3>1, <3>2, <3>3
  <2>6. Upto(h, m + 1)
    BY <2>4, <2>5
  <2>7. m + 1 \in 0..MaxPages
    OBVIOUS
  <2> HIDE DEF h, Upto
  <2> QED BY <2>3, <2>6, <2>7
<1>3. MaxPages \in S
  <2>1. \A m \in 0..(MaxPages - 1) : m \in S => m + 1 \in S
    BY <1>2
  <2> HIDE DEF S
  <2>2. \A m \in 0..MaxPages : m \in S
    BY <1>1, <2>1, BoundedInduction, Zenon
  <2> QED BY <2>2
<1>4. \E g : Is(g)
  <2>1. PICK g \in [0..MaxPages -> SUBSET Nat] : Upto(g, MaxPages)
    BY <1>3
  <2>2. ASSUME NEW q \in 0..MaxPages
        PROVE  g[q] = IF q = 0 THEN {} ELSE {q} \union (IF nx[q] < q THEN g[nx[q]] ELSE {})
    <3>1. CASE q = 0
      BY <2>1, <3>1
    <3>2. CASE q # 0
      <4>1. q \in PageIds /\ nx[q] < q
        BY <3>2
      <4> QED BY <2>1, <3>2, <4>1
    <3> QED BY <3>1, <3>2
  <2>3. g = [q \in 0..MaxPages |-> g[q]]
    OBVIOUS
  <2>4. Is(g)
    BY <2>2, <2>3, Zenon
  <2> QED BY <2>4
<1>5. Is(from)
  <2> HIDE DEF Is
  <2> QED BY <1>4
<1>6. \A p : Follow(nx, p) = from[p]
  BY DEF Follow
<1> HIDE DEF from
<1>7. from[0] = {}
  BY <1>5
<1>8. ASSUME NEW q \in PageIds PROVE from[q] = {q} \union from[nx[q]]
  <2>1. q \in 0..MaxPages /\ q # 0 /\ nx[q] < q
    OBVIOUS
  <2> QED BY <1>5, <2>1
<1> QED BY <1>6, <1>7, <1>8

(* The list from a page has pages up to it, and every page of it but the   *)
(* last is followed by one of it.                                          *)
LEMMA FollowShape ==
  ASSUME NEW nx \in Links
  PROVE  \A q \in 0..MaxPages :
           /\ Follow(nx, q) \subseteq 1..q
           /\ \A p \in Follow(nx, q) : nx[p] # 0 => nx[p] \in Follow(nx, q)
<1> USE HeapAssumption DEF PageIds, Links
<1> DEFINE Good(q) == /\ Follow(nx, q) \subseteq 1..q
                      /\ \A p \in Follow(nx, q) : nx[p] # 0 => nx[p] \in Follow(nx, q)
           S == {m \in 0..MaxPages : \A q \in 0..m : Good(q)}
<1>0. /\ Follow(nx, 0) = {}
      /\ \A q \in PageIds : Follow(nx, q) = {q} \union Follow(nx, nx[q])
  BY FollowStep
<1>1. 0 \in S
  BY <1>0
<1>2. ASSUME NEW m \in 0..(MaxPages - 1), m \in S PROVE m + 1 \in S
  <2>1. m + 1 \in PageIds /\ nx[m + 1] \in 0..m
    OBVIOUS
  <2>2. Good(nx[m + 1])
    <3> HIDE DEF Good
    <3> QED BY <1>2, <2>1
  <2>3. Follow(nx, m + 1) = {m + 1} \union Follow(nx, nx[m + 1])
    BY <1>0, <2>1
  <2>4. nx[m + 1] # 0 => nx[m + 1] \in Follow(nx, nx[m + 1])
    <3> SUFFICES ASSUME nx[m + 1] # 0 PROVE nx[m + 1] \in Follow(nx, nx[m + 1])
      OBVIOUS
    <3>1. nx[m + 1] \in PageIds
      BY <2>1
    <3> QED BY <1>0, <3>1
  <2>5. Good(m + 1)
    BY <2>1, <2>2, <2>3, <2>4
  <2>6. \A q \in 0..(m + 1) : q \in 0..m \/ q = m + 1
    OBVIOUS
  <2>7. m + 1 \in 0..MaxPages
    OBVIOUS
  <2> HIDE DEF Good
  <2> QED BY <1>2, <2>5, <2>6, <2>7
<1>3. \A m \in 0..MaxPages : m \in S
  <2>1. \A m \in 0..(MaxPages - 1) : m \in S => m + 1 \in S
    BY <1>2
  <2> HIDE DEF S
  <2> QED BY <1>1, <2>1, BoundedInduction, Zenon
<1> QED BY <1>3

(* Links of later pages make no difference. *)
LEMMA FollowSame ==
  ASSUME NEW nx \in Links, NEW ny \in Links, NEW N \in 0..MaxPages,
         \A p \in 1..N : nx[p] = ny[p]
  PROVE  \A q \in 0..N : Follow(nx, q) = Follow(ny, q)
<1> USE HeapAssumption DEF PageIds, Links
<1> DEFINE S == {m \in 0..N : \A q \in 0..m : Follow(nx, q) = Follow(ny, q)}
<1>n. N \in Nat /\ 0 \in 0..N /\ \A q \in 0..0 : q = 0
  OBVIOUS
<1>0. /\ Follow(nx, 0) = {} /\ Follow(ny, 0) = {}
      /\ \A q \in PageIds : Follow(nx, q) = {q} \union Follow(nx, nx[q])
      /\ \A q \in PageIds : Follow(ny, q) = {q} \union Follow(ny, ny[q])
  BY FollowStep
<1>1. 0 \in S
  BY <1>0, <1>n
<1>2. ASSUME NEW m \in 0..(N - 1), m \in S PROVE m + 1 \in S
  <2>1. m + 1 \in PageIds /\ nx[m + 1] \in 0..m /\ ny[m + 1] = nx[m + 1]
    OBVIOUS
  <2>2. Follow(nx, nx[m + 1]) = Follow(ny, nx[m + 1])
    BY <1>2, <2>1
  <2>3. Follow(nx, m + 1) = Follow(ny, m + 1)
    BY <1>0, <2>1, <2>2
  <2>4. \A q \in 0..(m + 1) : q \in 0..m \/ q = m + 1
    OBVIOUS
  <2> QED BY <1>2, <2>3, <2>4
<1>3. \A m \in 0..N : m \in S
  <2>1. \A m \in 0..(N - 1) : m \in S => m + 1 \in S
    BY <1>2
  <2> HIDE DEF S
  <2> QED BY <1>1, <1>n, <2>1, BoundedInduction, Zenon
<1> QED BY <1>3

-----------------------------------------------------------------------------
(* The list has exactly the inserted tuples *)

UnusedIsEmpty == \A p \in PageIds : p > allocated => Len(slots[p]) = 0

(* A call walks along the list. *)
WalksList ==
  \A t \in Tasks : pc[t] \in {"try", "scan"} => cur[t] = 0 \/ cur[t] \in Chain(first)

(* A page that is about to be linked has one tuple, leads to the list its  *)
(* call has read, is not on the list yet, and no other call links it.      *)
LinksNew ==
  \A t \in Tasks : pc[t] = "link" =>
    /\ Len(slots[cur[t]]) = 1 /\ next[cur[t]] = base[t]
    /\ cur[t] \notin Chain(first)
    /\ \A u \in Tasks : pc[u] = "link" /\ u # t => cur[u] # cur[t]

ListInv == UnusedIsEmpty /\ (~overwritten => OnList = inserted /\ WalksList /\ LinksNew)

LEMMA ChainFollows ==
  /\ \A p : Chain(p) = Follow(next, p)
  /\ Chain(first)' = Follow(next', first')
BY DEF Chain, Follow

LEMMA NextLinks == HeapInv => next \in Links
BY DEF HeapInv, HeapTypeOK, ChainDescends, Links

LEMMA OnListHas ==
  \A rid : rid \in OnList <=>
    \E p \in Chain(first) : \E i \in 1..Len(slots[p]) : rid = [page |-> p, slot |-> i]
BY DEF OnList

LEMMA OnListHasNext ==
  \A rid : rid \in OnList' <=>
    \E p \in Chain(first)' : \E i \in 1..Len(slots'[p]) : rid = [page |-> p, slot |-> i]
BY DEF OnList

(* The pages on the list are allocated. *)
LEMMA ListAllocated ==
  ASSUME HeapInv
  PROVE  /\ first \in 0..allocated /\ allocated \in 0..MaxPages
         /\ Chain(first) \subseteq PageIds
         /\ Chain(first) \subseteq 1..allocated
         /\ \A p \in Chain(first) : next[p] # 0 => next[p] \in Chain(first)
<1>1. first \in 0..allocated /\ allocated \in 0..MaxPages /\ MaxPages \in Nat
  BY HeapAssumption DEF HeapInv, HeapTypeOK
<1>2. first \in 0..MaxPages
  BY <1>1
<1>3. /\ Follow(next, first) \subseteq 1..first
      /\ \A p \in Follow(next, first) : next[p] # 0 => next[p] \in Follow(next, first)
  BY <1>2, NextLinks, FollowShape
<1>4. Chain(first) = Follow(next, first)
  BY ChainFollows
<1> QED BY <1>1, <1>3, <1>4 DEF PageIds

(* The page a call is at. *)
LEMMA CallsAt ==
  ASSUME HeapInv, NEW t \in Tasks
  PROVE  /\ cur[t] \in 0..MaxPages /\ cur[t] <= allocated /\ allocated \in 0..MaxPages
         /\ cur[t] # 0 => cur[t] \in PageIds
         /\ pc[t] = "link" => cur[t] # 0
         /\ pc[t] # "none" => txn[t] # 0
<1>1. cur[t] \in 0..MaxPages /\ allocated \in 0..MaxPages /\ cur[t] <= allocated
  BY DEF HeapInv, HeapTypeOK, CallsBounded
<1>2. cur[t] # 0 => cur[t] \in PageIds
  BY <1>1, HeapAssumption DEF PageIds
<1>3. (pc[t] = "link" => cur[t] # 0) /\ (pc[t] # "none" => txn[t] # 0)
  BY DEF HeapInv, HeapTypeOK, CallsBounded
<1> QED BY <1>1, <1>2, <1>3

(* The local variables of the other calls stay as they are. *)
OthersStay(t) ==
  \A u \in Tasks : u # t => pc'[u] = pc[u] /\ cur'[u] = cur[u] /\ base'[u] = base[u]

(* A step that changes neither the list nor what has been inserted. *)
LEMMA QuietList ==
  ASSUME HeapInv, ListInv, NEW t \in Tasks, OthersStay(t),
         next' = next, first' = first, allocated' = allocated, inserted' = inserted,
         overwritten' = overwritten,
         \A p \in PageIds : Len(slots'[p]) = Len(slots[p]),
         pc'[t] \in {"try", "scan"} => cur'[t] = 0 \/ cur'[t] \in Chain(first) \/ overwritten,
         pc'[t] # "link"
  PROVE  ListInv'
<1>1. Chain(first)' = Chain(first) /\ Chain(first) \subseteq PageIds
  BY ChainFollows, ListAllocated
<1>2. UnusedIsEmpty'
  BY DEF ListInv, UnusedIsEmpty
<1>3. ASSUME ~overwritten PROVE OnList' = inserted' /\ WalksList' /\ LinksNew'
  <2>1. OnList = inserted /\ WalksList /\ LinksNew
    BY <1>3 DEF ListInv
  <2>2. \A rid : rid \in OnList' <=> rid \in OnList
    BY <1>1, OnListHas, OnListHasNext
  <2>3. OnList' = inserted'
    BY <2>1, <2>2
  <2>4. WalksList'
    BY <1>1, <1>3, <2>1 DEF WalksList, OthersStay
  <2>5. LinksNew'
    <3> SUFFICES ASSUME NEW u \in Tasks, pc'[u] = "link"
                 PROVE  /\ Len(slots'[cur'[u]]) = 1 /\ next'[cur'[u]] = base'[u]
                        /\ cur'[u] \notin Chain(first)'
                        /\ \A v \in Tasks : pc'[v] = "link" /\ v # u => cur'[v] # cur'[u]
      BY DEF LinksNew
    <3>1. u # t /\ pc[u] = "link" /\ cur'[u] = cur[u] /\ base'[u] = base[u]
      BY DEF OthersStay
    <3>2. cur[u] \in PageIds
      BY <3>1, HeapAssumption DEF HeapInv, HeapTypeOK, CallsBounded, PageIds
    <3> QED BY <1>1, <2>1, <3>1, <3>2 DEF LinksNew, OthersStay
  <2> QED BY <2>3, <2>4, <2>5
<1> QED BY <1>2, <1>3 DEF ListInv

(* A tuple is added to a page of the list. *)
LEMMA InsertHereList ==
  ASSUME HeapInv, HeapInv', ListInv, NEW t \in Tasks, InsertHere(t) PROVE ListInv'
<1> DEFINE p == cur[t]
<1>0. HeapTypeOK /\ \A q \in PageIds : Len(slots[q]) \in Nat
  BY LenProperties DEF HeapInv, HeapTypeOK
<1>1. /\ pc[t] = "try" /\ p # 0 /\ Put(p, t) /\ next' = next /\ first' = first
      /\ allocated' = allocated /\ overwritten' = overwritten
      /\ inserted' = inserted \union {[page |-> p, slot |-> Len(slots[p]) + 1]}
  BY DEF InsertHere
<1>2. OthersStay(t) /\ pc'[t] = "idle"
  BY DEF InsertHere, Return, OthersStay, HeapInv, HeapTypeOK
<1>3. p \in PageIds /\ p <= allocated /\ txn[t] # 0 /\ allocated \in Nat
  BY <1>1, HeapAssumption, CallsAt
<1>4. /\ Len(slots'[p]) = Len(slots[p]) + 1
      /\ \A q \in PageIds : q # p => slots'[q] = slots[q]
  BY <1>0, <1>1, <1>3, PutAppends
<1> HIDE DEF p
<1>5. Chain(first)' = Chain(first) /\ Chain(first) \subseteq PageIds
  BY <1>1, ChainFollows, ListAllocated
<1>6. UnusedIsEmpty'
  BY <1>1, <1>3, <1>4 DEF ListInv, UnusedIsEmpty, PageIds
<1>7. ASSUME ~overwritten PROVE OnList' = inserted' /\ WalksList' /\ LinksNew'
  <2>1. OnList = inserted /\ WalksList /\ LinksNew
    BY <1>7 DEF ListInv
  <2>2. p \in Chain(first)
    BY <1>1, <2>1 DEF WalksList, p
  <2>3. \A rid : rid \in OnList' <=> rid \in inserted'
    <3>1. ASSUME NEW rid, rid \in OnList' PROVE rid \in inserted'
      <4>1. PICK q \in Chain(first) : \E i \in 1..Len(slots'[q]) : rid = [page |-> q, slot |-> i]
        BY <1>5, <3>1, OnListHasNext
      <4>2. PICK i \in 1..Len(slots'[q]) : rid = [page |-> q, slot |-> i]
        BY <4>1
      <4>3. CASE i \in 1..Len(slots[q])
        BY <1>1, <2>1, <4>1, <4>2, <4>3, OnListHas
      <4>4. CASE i \notin 1..Len(slots[q])
        <5>1. q = p /\ i = Len(slots[p]) + 1
          BY <1>0, <1>3, <1>4, <1>5, <4>2, <4>4
        <5> QED BY <1>1, <4>2, <5>1
      <4> QED BY <4>3, <4>4
    <3>2. ASSUME NEW rid, rid \in inserted PROVE rid \in OnList'
      <4>1. PICK q \in Chain(first) : \E i \in 1..Len(slots[q]) : rid = [page |-> q, slot |-> i]
        BY <2>1, <3>2, OnListHas
      <4>2. PICK i \in 1..Len(slots[q]) : rid = [page |-> q, slot |-> i]
        BY <4>1
      <4>3. i \in 1..Len(slots'[q])
        BY <1>0, <1>3, <1>4, <1>5, <4>2
      <4> QED BY <1>5, <4>1, <4>2, <4>3, OnListHasNext
    <3>3. [page |-> p, slot |-> Len(slots[p]) + 1] \in OnList'
      <4>1. Len(slots[p]) + 1 \in 1..Len(slots'[p])
        BY <1>0, <1>3, <1>4
      <4> QED BY <1>5, <2>2, <4>1, OnListHasNext
    <3> QED BY <1>1, <3>1, <3>2, <3>3
  <2>4. OnList' = inserted'
    BY <2>3
  <2>5. WalksList'
    BY <1>2, <1>5, <2>1 DEF WalksList, OthersStay
  <2>6. LinksNew'
    <3> SUFFICES ASSUME NEW u \in Tasks, pc'[u] = "link"
                 PROVE  /\ Len(slots'[cur'[u]]) = 1 /\ next'[cur'[u]] = base'[u]
                        /\ cur'[u] \notin Chain(first)'
                        /\ \A v \in Tasks : pc'[v] = "link" /\ v # u => cur'[v] # cur'[u]
      BY DEF LinksNew
    <3>1. u # t /\ pc[u] = "link" /\ cur'[u] = cur[u] /\ base'[u] = base[u]
      BY <1>2 DEF OthersStay
    <3>2. cur[u] \in PageIds /\ cur[u] # p
      BY <2>1, <2>2, <3>1, CallsAt DEF LinksNew
    <3>3. \A v \in Tasks : pc'[v] = "link" => pc[v] = "link" /\ cur'[v] = cur[v]
      BY <1>2 DEF OthersStay
    <3> QED BY <1>1, <1>4, <1>5, <2>1, <3>1, <3>2, <3>3 DEF LinksNew
  <2> QED BY <2>4, <2>5, <2>6
<1> QED BY <1>1, <1>6, <1>7 DEF ListInv

(* A new page is allocated, with a tuple or without. *)
LEMMA AllocList ==
  ASSUME HeapInv, HeapInv', ListInv, NEW t \in Tasks, InsertAlloc(t) \/ InsertTooLarge(t)
  PROVE  ListInv'
<1> DEFINE p == allocated + 1
<1>0. HeapTypeOK /\ \A q \in PageIds : Len(slots[q]) \in Nat
  BY LenProperties DEF HeapInv, HeapTypeOK
<1>1. /\ pc[t] = "try" /\ p \in PageIds /\ allocated' = p /\ first' = first /\ inserted' = inserted
      /\ next' = [next EXCEPT ![p] = base[t]] /\ overwritten' = overwritten
  BY DEF InsertAlloc, InsertTooLarge, ghostVars
<1>2. OthersStay(t) /\ pc'[t] \in {"link", "idle"}
  <2>1. pc \in [Tasks -> {"none", "idle", "header", "try", "link", "scan"}]
        /\ cur \in [Tasks -> 0..MaxPages] /\ base \in [Tasks -> 0..MaxPages]
    BY <1>0 DEF HeapTypeOK
  <2>2. CASE InsertAlloc(t)
    BY <2>1, <2>2 DEF InsertAlloc, OthersStay
  <2>3. CASE InsertTooLarge(t)
    BY <2>1, <2>3 DEF InsertTooLarge, Return, OthersStay
  <2> QED BY <2>2, <2>3
<1>3. txn[t] # 0 /\ allocated \in 0..MaxPages /\ next \in [PageIds -> 0..MaxPages] /\ MaxPages \in Nat
  BY <1>1, HeapAssumption DEF HeapInv, HeapTypeOK
<1>4. /\ \A q \in PageIds : q # p => slots'[q] = slots[q]
      /\ pc'[t] = "link" => Len(slots'[p]) = 1 /\ cur'[t] = p /\ base'[t] = base[t]
  <2>1. CASE InsertAlloc(t)
    <3>1. Put(p, t) /\ cur' = [cur EXCEPT ![t] = p] /\ base' = base
      BY <2>1 DEF InsertAlloc
    <3>2. Len(slots[p]) = 0
      BY <1>1, <1>3 DEF ListInv, UnusedIsEmpty
    <3>3. Len(slots'[p]) = Len(slots[p]) + 1 /\ \A q \in PageIds : q # p => slots'[q] = slots[q]
      BY <1>0, <1>1, <1>3, <3>1, PutAppends
    <3> QED BY <3>1, <3>2, <3>3 DEF HeapInv, HeapTypeOK
  <2>2. CASE InsertTooLarge(t)
    <3>1. slots' = slots /\ pc'[t] = "idle"
      BY <2>2 DEF InsertTooLarge, Return, HeapInv, HeapTypeOK
    <3> QED BY <3>1
  <2> QED BY <2>1, <2>2
<1>5. /\ Chain(first) \subseteq PageIds /\ Chain(first) \subseteq 1..allocated /\ p \notin Chain(first)
      /\ first \in 0..allocated
  BY <1>3, ListAllocated
<1>6. Chain(first)' = Chain(first)
  <2>1. next' \in Links
    BY DEF HeapInv, HeapTypeOK, ChainDescends, Links
  <2>2. \A q \in 1..allocated : next'[q] = next[q]
    BY <1>1, <1>3 DEF PageIds
  <2>3. Follow(next', first) = Follow(next, first)
    BY <1>3, <1>5, <2>1, <2>2, NextLinks, FollowSame
  <2> QED BY <1>1, <2>3, ChainFollows
<1>7. UnusedIsEmpty'
  BY <1>1, <1>3, <1>4 DEF ListInv, UnusedIsEmpty, PageIds
<1>8. ASSUME ~overwritten PROVE OnList' = inserted' /\ WalksList' /\ LinksNew'
  <2>1. OnList = inserted /\ WalksList /\ LinksNew
    BY <1>8 DEF ListInv
  <2>2. \A q \in Chain(first) : slots'[q] = slots[q]
    BY <1>4, <1>5
  <2>3. \A rid : rid \in OnList' <=> rid \in OnList
    BY <1>6, <2>2, OnListHas, OnListHasNext
  <2>4. OnList' = inserted'
    BY <1>1, <2>1, <2>3
  <2>5. WalksList'
    BY <1>2, <1>6, <2>1 DEF WalksList, OthersStay
  <2>6. ASSUME NEW u \in Tasks, pc[u] = "link", u # t
        PROVE  /\ pc'[u] = "link" /\ cur'[u] = cur[u] /\ base'[u] = base[u]
               /\ cur[u] \in PageIds /\ cur[u] # p
    <3>1. pc'[u] = "link" /\ cur'[u] = cur[u] /\ base'[u] = base[u]
      BY <1>2, <2>6 DEF OthersStay
    <3>2. cur[u] \in PageIds /\ cur[u] \in 0..MaxPages /\ cur[u] <= allocated
      BY <2>6, CallsAt
    <3> QED BY <1>3, <3>1, <3>2
  <2>7. \A u \in Tasks : pc'[u] = "link" /\ u # t => pc[u] = "link"
    BY <1>2 DEF OthersStay
  <2>8. LinksNew'
    <3> SUFFICES ASSUME NEW u \in Tasks, pc'[u] = "link"
                 PROVE  /\ Len(slots'[cur'[u]]) = 1 /\ next'[cur'[u]] = base'[u]
                        /\ cur'[u] \notin Chain(first)'
                        /\ \A v \in Tasks : pc'[v] = "link" /\ v # u => cur'[v] # cur'[u]
      BY DEF LinksNew
    <3>1. CASE u = t
      BY <1>1, <1>3, <1>4, <1>5, <1>6, <2>6, <2>7, <3>1
    <3>2. CASE u # t
      <4>1. /\ pc[u] = "link" /\ cur'[u] = cur[u] /\ base'[u] = base[u]
            /\ cur[u] \in PageIds /\ cur[u] # p
        BY <2>6, <2>7, <3>2
      <4>2. slots'[cur[u]] = slots[cur[u]] /\ next'[cur[u]] = next[cur[u]]
        BY <1>1, <1>3, <1>4, <4>1
      <4>3. \A v \in Tasks : pc'[v] = "link" /\ v # u => cur'[v] # cur[u]
        BY <1>4, <2>1, <2>6, <2>7, <4>1 DEF LinksNew
      <4> QED BY <1>6, <2>1, <4>1, <4>2, <4>3 DEF LinksNew
    <3> QED BY <3>1, <3>2
  <2> QED BY <2>4, <2>5, <2>8
<1> QED BY <1>1, <1>7, <1>8 DEF ListInv

(* The new page becomes the first one. *)
LEMMA InsertLinkList ==
  ASSUME HeapInv, HeapInv', ListInv, NEW t \in Tasks, InsertLink(t) PROVE ListInv'
<1> DEFINE p == cur[t]
<1>1. /\ pc[t] = "link" /\ first' = p /\ next' = next /\ slots' = slots /\ allocated' = allocated
      /\ inserted' = inserted \union {[page |-> p, slot |-> 1]}
      /\ overwritten' = (overwritten \/ first # base[t])
  BY DEF InsertLink
<1>2. OthersStay(t) /\ pc'[t] = "idle"
  BY DEF InsertLink, Return, OthersStay, HeapInv, HeapTypeOK
<1>3. p \in PageIds
  BY <1>1, HeapAssumption DEF HeapInv, HeapTypeOK, CallsBounded, PageIds
<1>4. UnusedIsEmpty'
  BY <1>1 DEF ListInv, UnusedIsEmpty
<1> HIDE DEF p
<1>5. ASSUME ~overwritten' PROVE OnList' = inserted' /\ WalksList' /\ LinksNew'
  <2>1. OnList = inserted /\ WalksList /\ LinksNew /\ first = base[t]
    BY <1>1, <1>5 DEF ListInv
  <2>2. Len(slots[p]) = 1 /\ next[p] = first /\ p \notin Chain(first)
    BY <1>1, <2>1 DEF LinksNew, p
  <2>3. Chain(first)' = {p} \union Chain(first)
    BY <1>1, <1>3, <2>2, ChainFollows, NextLinks, FollowStep
  <2>4. \A rid : rid \in OnList' <=> rid \in inserted'
    <3>1. ASSUME NEW rid
          PROVE  rid \in OnList' <=> rid \in OnList \/ \E i \in 1..Len(slots[p]) : rid = [page |-> p, slot |-> i]
      BY <1>1, <2>3, OnListHas, OnListHasNext
    <3>2. \A rid : (\E i \in 1..Len(slots[p]) : rid = [page |-> p, slot |-> i]) <=> rid = [page |-> p, slot |-> 1]
      BY <2>2
    <3> QED BY <1>1, <2>1, <3>1, <3>2
  <2>5. OnList' = inserted'
    BY <2>4
  <2>6. WalksList'
    BY <1>2, <2>1, <2>3 DEF WalksList, OthersStay
  <2>7. LinksNew'
    <3> SUFFICES ASSUME NEW u \in Tasks, pc'[u] = "link"
                 PROVE  /\ Len(slots'[cur'[u]]) = 1 /\ next'[cur'[u]] = base'[u]
                        /\ cur'[u] \notin Chain(first)'
                        /\ \A v \in Tasks : pc'[v] = "link" /\ v # u => cur'[v] # cur'[u]
      BY DEF LinksNew
    <3>1. \A v \in Tasks : pc'[v] = "link" =>
            v # t /\ pc[v] = "link" /\ cur'[v] = cur[v] /\ base'[v] = base[v]
      BY <1>2 DEF OthersStay
    <3>2. cur[u] # p
      BY <1>1, <2>1, <3>1 DEF LinksNew, p
    <3> QED BY <1>1, <2>1, <2>3, <3>1, <3>2 DEF LinksNew
  <2> QED BY <2>5, <2>6, <2>7
<1> QED BY <1>4, <1>5 DEF ListInv


LEMMA ListInvNext ==
  ASSUME HeapInv, HeapInv', ListInv, [Next]_heapVars PROVE ListInv'
<1>1. CASE UNCHANGED heapVars
  <2>1. /\ UNCHANGED <<first, next, slots, allocated, pc, cur, base, inserted, overwritten>>
    BY <1>1 DEF heapVars, fileVars, callVars, ghostVars
  <2>2. Chain(first)' = Chain(first) /\ OnList' = OnList
    BY <2>1, ChainFollows DEF OnList
  <2> QED BY <2>1, <2>2 DEF ListInv, UnusedIsEmpty, WalksList, LinksNew
<1>2. ASSUME NEW t \in Tasks, Call(t) \/ Insert(t) \/ Scan(t) \/ StorageError(t) PROVE ListInv'
  <2>t. /\ pc \in [Tasks -> {"none", "idle", "header", "try", "link", "scan"}]
        /\ cur \in [Tasks -> 0..MaxPages] /\ base \in [Tasks -> 0..MaxPages]
    BY DEF HeapInv, HeapTypeOK
  <2>1. CASE InsertHere(t) \/ InsertAlloc(t) \/ InsertTooLarge(t) \/ InsertLink(t)
    BY <2>1, InsertHereList, AllocList, InsertLinkList
  <2>2. ASSUME NEW rid \in inserted, Delete(t, rid) PROVE ListInv'
    <3>1. /\ next' = next /\ first' = first /\ allocated' = allocated /\ inserted' = inserted
          /\ overwritten' = overwritten /\ pc' = pc /\ cur' = cur /\ base' = base /\ pc[t] = "idle"
      BY <2>2 DEF Delete, callVars
    <3>2. \A q \in PageIds : Len(slots'[q]) = Len(slots[q])
      BY <2>2, DeleteMarks
    <3> QED BY <3>1, <3>2, QuietList DEF OthersStay
  <2>3. CASE \/ \E level \in Isolations : Begin(t, level)
             \/ \E n \in Sizes : StartInsert(t, n)
    <3>1. /\ next' = next /\ first' = first /\ allocated' = allocated /\ inserted' = inserted
          /\ overwritten' = overwritten /\ slots' = slots /\ cur' = cur /\ base' = base
          /\ \E l \in {"idle", "header"} : pc' = [pc EXCEPT ![t] = l]
      BY <2>3 DEF Begin, StartInsert, fileVars
    <3>2. OthersStay(t) /\ pc'[t] \in {"idle", "header"}
      BY <2>t, <3>1 DEF OthersStay
    <3> QED BY <3>1, <3>2, QuietList
  <2>4. CASE StartScan(t) \/ InsertHeader(t)
    <3>1. /\ next' = next /\ first' = first /\ allocated' = allocated /\ inserted' = inserted
          /\ overwritten' = overwritten /\ slots' = slots
      BY <2>4 DEF StartScan, InsertHeader, fileVars, ghostVars
    <3>2. OthersStay(t) /\ pc'[t] \in {"scan", "try"} /\ cur'[t] = first
      BY <2>4, <2>t DEF OthersStay, StartScan, InsertHeader
    <3>3. first = 0 \/ first \in Chain(first)
      <4>1. first \in 0..MaxPages
        BY ListAllocated, HeapAssumption
      <4>2. first # 0 => first \in PageIds
        BY <4>1, HeapAssumption DEF PageIds
      <4> QED BY <4>2, NextLinks, FollowStep, ChainFollows
    <3> QED BY <3>1, <3>2, <3>3, QuietList
  <2>5. CASE InsertNext(t) \/ ScanPage(t)
    <3>1. /\ next' = next /\ first' = first /\ allocated' = allocated /\ inserted' = inserted
          /\ overwritten' = overwritten /\ slots' = slots
      BY <2>5 DEF InsertNext, ScanPage, fileVars, ghostVars
    <3>2. /\ OthersStay(t) /\ pc'[t] = pc[t] /\ pc[t] \in {"scan", "try"}
          /\ cur[t] # 0 /\ cur'[t] = next[cur[t]]
      BY <2>5, <2>t DEF OthersStay, InsertNext, ScanPage
    <3>3. ~overwritten => next[cur[t]] = 0 \/ next[cur[t]] \in Chain(first)
      BY <3>2, ListAllocated DEF ListInv, WalksList
    <3> QED BY <3>1, <3>2, <3>3, QuietList
  <2>6. CASE ScanEnd(t) \/ StorageError(t)
    <3>1. /\ next' = next /\ first' = first /\ allocated' = allocated /\ inserted' = inserted
          /\ overwritten' = overwritten /\ slots' = slots
      BY <2>6 DEF ScanEnd, StorageError, fileVars
    <3>2. OthersStay(t) /\ pc'[t] = "idle"
      BY <2>6, <2>t DEF OthersStay, ScanEnd, StorageError, Return
    <3> QED BY <3>1, <3>2, QuietList
  <2> QED BY <1>2, <2>1, <2>2, <2>3, <2>4, <2>5, <2>6 DEF Call, Insert, Scan
<1> QED BY <1>1, <1>2 DEF Next

LEMMA ListInvInit == Init => ListInv
<1> SUFFICES ASSUME Init PROVE ListInv
  OBVIOUS
<1>1. HeapInv /\ first = 0 /\ inserted = {} /\ \A p \in PageIds : Len(slots[p]) = 0
  BY HeapInvInit, EmptySeq DEF Init
<1>2. Chain(first) = {}
  BY <1>1, NextLinks, FollowStep, ChainFollows
<1>3. OnList = {}
  BY <1>2, OnListHas
<1>4. \A t \in Tasks : pc[t] = "none"
  BY DEF Init
<1> QED BY <1>1, <1>3, <1>4 DEF ListInv, UnusedIsEmpty, WalksList, LinksNew

LEMMA ListInvHolds == Spec => []ListInv
<1>1. HeapInv /\ HeapInv' /\ ListInv /\ [Next]_heapVars => ListInv'
  BY ListInvNext
<1> QED BY <1>1, ListInvInit, HeapInvHolds, PTL DEF Spec

(* As long as no first_page was replaced that its replacement does not     *)
(* link to, the list has exactly the tuples whose insert returned Ok,      *)
(* however inserts, failures and scans interleave.                         *)
THEOREM ListIsExact == Spec => []HeapExact
<1>1. ListInv => HeapExact
  BY DEF ListInv, HeapExact
<1> QED BY <1>1, ListInvHolds, PTL

-----------------------------------------------------------------------------
(* Scans *)

Rids == [page : PageIds, slot : Nat]

(* The records of page p in v: distinct, of slots up to n, and among them  *)
(* those of V.                                                             *)
Holds(v, p, n, V) ==
  /\ v \in Seq(Rids)
  /\ \A i \in 1..Len(v) : v[i].page = p /\ v[i].slot <= n
  /\ \A i, j \in 1..Len(v) : v[i] = v[j] => i = j
  /\ \A m \in 1..n : m \in V => \E i \in 1..Len(v) : v[i] = [page |-> p, slot |-> m]

LEMMA HoldsMore ==
  ASSUME NEW v, NEW p \in PageIds, NEW n \in Nat, NEW V, Holds(v, p, n, V)
  PROVE  /\ n + 1 \notin V => Holds(v, p, n + 1, V)
         /\ Holds(Append(v, [page |-> p, slot |-> n + 1]), p, n + 1, V)
<1> DEFINE e == [page |-> p, slot |-> n + 1]
           w == Append(v, e)
<1>1. e \in Rids /\ e.page = p /\ e.slot = n + 1
  BY DEF Rids
<1>2. v \in Seq(Rids) /\ Len(v) \in Nat /\ \A i \in 1..Len(v) : v[i] \in Rids /\ v[i].slot \in Nat
  <2>1. v \in Seq(Rids)
    BY DEF Holds
  <2>2. Len(v) \in Nat /\ \A i \in 1..Len(v) : v[i] \in Rids
    BY <2>1, ElementOfSeq, LenProperties
  <2> QED BY <2>1, <2>2 DEF Rids
<1>3. \A m \in 1..(n + 1) : m \in 1..n \/ m = n + 1
  OBVIOUS
<1>4. ASSUME n + 1 \notin V PROVE Holds(v, p, n + 1, V)
  <2>1. \A i \in 1..Len(v) : v[i].page = p /\ v[i].slot <= n + 1
    BY <1>2 DEF Holds
  <2> QED BY <1>3, <1>4, <2>1 DEF Holds
<1> HIDE DEF e
<1>5. /\ w \in Seq(Rids) /\ Len(w) = Len(v) + 1
      /\ \A i \in 1..Len(v) : w[i] = v[i]
      /\ w[Len(v) + 1] = e
  BY <1>1, <1>2, AppendProperties
<1> HIDE DEF w
<1>6. \A i \in 1..Len(w) : i \in 1..Len(v) \/ i = Len(v) + 1
  BY <1>2, <1>5
<1>7. \A i \in 1..Len(w) : w[i].page = p /\ w[i].slot <= n + 1
  BY <1>1, <1>2, <1>5, <1>6 DEF Holds
<1>8. \A i \in 1..Len(v) : v[i] # e
  BY <1>1, <1>2 DEF Holds
<1>9. ASSUME NEW i \in 1..Len(w), NEW j \in 1..Len(w), w[i] = w[j] PROVE i = j
  BY <1>5, <1>6, <1>8, <1>9 DEF Holds
<1>10. ASSUME NEW m \in 1..(n + 1), m \in V PROVE \E i \in 1..Len(w) : w[i] = [page |-> p, slot |-> m]
  <2>1. CASE m \in 1..n
    <3>1. PICK i \in 1..Len(v) : v[i] = [page |-> p, slot |-> m]
      BY <1>10, <2>1 DEF Holds
    <3>2. i \in 1..Len(w) /\ w[i] = v[i]
      BY <1>2, <1>5
    <3> QED BY <3>1, <3>2
  <2>2. CASE m = n + 1
    <3>1. Len(v) + 1 \in 1..Len(w)
      BY <1>2, <1>5
    <3> QED BY <1>5, <2>2, <3>1 DEF e
  <2> QED BY <1>3, <2>1, <2>2
<1>11. Holds(w, p, n + 1, V)
  BY <1>5, <1>7, <1>9, <1>10 DEF Holds
<1> QED BY <1>4, <1>11 DEF w, e

(* A scan takes of a page its visible tuples, each once. *)
LEMMA VisibleInHolds ==
  ASSUME HeapInv, NEW t \in Tasks, NEW p \in PageIds
  PROVE  Holds(VisibleIn(p, t), p, Len(slots[p]),
               {n \in 1..Len(slots[p]) : is_visible(slots[p][n], txn[t], isolation[t])})
<1> DEFINE L == Len(slots[p])
           Sees(n) == is_visible(slots[p][n], txn[t], isolation[t])
           V == {n \in 1..L : Sees(n)}
           F == [n \in 1..L |-> [v \in Seq(Rids) |->
                   IF Sees(n) THEN Append(v, [page |-> p, slot |-> n]) ELSE v]]
           Loop(g) == g = [n \in 0..L |->
                             IF n = 0 THEN <<>>
                             ELSE IF Sees(n) THEN Append(g[n - 1], [page |-> p, slot |-> n])
                             ELSE g[n - 1]]
           seen == CHOOSE g : Loop(g)
<1>1. L \in Nat
  BY LenProperties DEF HeapInv, HeapTypeOK
<1>2. VisibleIn(p, t) = seen[L]
  BY DEF VisibleIn
<1> HIDE DEF L, Sees
<1>3. F \in [1..L -> [Seq(Rids) -> Seq(Rids)]]
  <2>1. ASSUME NEW n \in 1..L, NEW v \in Seq(Rids)
        PROVE  (IF Sees(n) THEN Append(v, [page |-> p, slot |-> n]) ELSE v) \in Seq(Rids)
    <3>1. [page |-> p, slot |-> n] \in Rids
      BY <1>1 DEF Rids
    <3> QED BY <3>1, AppendProperties
  <2> QED BY <2>1
<1>4. \E g : Loop(g)
  <2>1. <<>> \in Seq(Rids)
    OBVIOUS
  <2>2. PICK g \in [0..L -> Seq(Rids)] : IsLoop(g, <<>>, L, F)
    <3> HIDE DEF F
    <3> QED BY <1>1, <1>3, <2>1, LoopExists
  <2>3. g[0] = <<>> /\ \A n \in 1..L : g[n] = F[n][g[n - 1]]
    BY <2>2 DEF IsLoop
  <2>4. ASSUME NEW n \in 1..L
        PROVE  g[n] = IF Sees(n) THEN Append(g[n - 1], [page |-> p, slot |-> n]) ELSE g[n - 1]
    <3>1. n - 1 \in 0..L
      BY <1>1
    <3>2. g[n - 1] \in Seq(Rids)
      BY <3>1
    <3>3. g[n] = F[n][g[n - 1]]
      BY <2>3
    <3> QED BY <3>2, <3>3
  <2>5. g = [n \in 0..L |-> g[n]]
    OBVIOUS
  <2>6. ASSUME NEW n \in 0..L
        PROVE  g[n] = IF n = 0 THEN <<>>
                      ELSE IF Sees(n) THEN Append(g[n - 1], [page |-> p, slot |-> n]) ELSE g[n - 1]
    <3>1. CASE n = 0
      BY <2>3, <3>1
    <3>2. CASE n # 0
      <4>1. n \in 1..L
        BY <1>1, <3>2
      <4> QED BY <2>4, <3>2, <4>1, Zenon
    <3> QED BY <3>1, <3>2
  <2>7. Loop(g)
    BY <2>5, <2>6, Zenon
  <2> QED BY <2>7
<1>5. Loop(seen)
  <2> HIDE DEF Loop
  <2> QED BY <1>4
<1> HIDE DEF seen
<1>6. seen[0] = <<>>
  BY <1>1, <1>5
<1>7. ASSUME NEW n \in 0..(L - 1)
      PROVE  seen[n + 1] = IF Sees(n + 1) THEN Append(seen[n], [page |-> p, slot |-> n + 1]) ELSE seen[n]
  <2>1. n + 1 \in 0..L /\ n + 1 # 0 /\ (n + 1) - 1 = n
    BY <1>1
  <2>2. seen[n + 1] = IF Sees(n + 1) THEN Append(seen[(n + 1) - 1], [page |-> p, slot |-> n + 1])
                      ELSE seen[(n + 1) - 1]
    BY <1>5, <2>1
  <2> QED BY <2>1, <2>2
<1> DEFINE Good == {n \in 0..L : Holds(seen[n], p, n, V)}
<1>8. 0 \in Good
  <2>1. <<>> \in Seq(Rids) /\ Len(<<>>) = 0
    OBVIOUS
  <2>2. Holds(<<>>, p, 0, V)
    BY <2>1 DEF Holds
  <2>3. 0 \in 0..L
    BY <1>1
  <2> QED BY <1>6, <2>2, <2>3
<1>9. ASSUME NEW n \in 0..(L - 1), n \in Good PROVE n + 1 \in Good
  <2>1. n \in Nat /\ n + 1 \in 0..L /\ n + 1 \in 1..L /\ Holds(seen[n], p, n, V)
    BY <1>1, <1>9
  <2>2. n + 1 \in V <=> Sees(n + 1)
    BY <2>1
  <2> HIDE DEF V
  <2>3. Holds(seen[n + 1], p, n + 1, V)
    BY <1>7, <2>1, <2>2, HoldsMore
  <2> QED BY <2>1, <2>3
<1>10. L \in Good
  <2>1. \A n \in 0..(L - 1) : n \in Good => n + 1 \in Good
    BY <1>9
  <2> HIDE DEF Good
  <2>2. \A n \in 0..L : n \in Good
    BY <1>1, <1>8, <2>1, BoundedInduction, Zenon
  <2> QED BY <1>1, <2>2
<1>11. Holds(seen[L], p, L, V)
  BY <1>10
<1> QED BY <1>2, <1>11 DEF L, Sees


(* What a step of any call leaves of the list for the others. *)
LEMMA ListGrows ==
  ASSUME HeapInv, Next
  PROVE  /\ \A q \in 1..allocated : next'[q] = next[q]
         /\ inserted \subseteq inserted'
         /\ overwritten => overwritten'
<1> PICK t \in Tasks : Call(t) \/ Insert(t) \/ Scan(t) \/ StorageError(t)
  BY DEF Next
<1>1. allocated \in 0..MaxPages /\ next \in [PageIds -> 0..MaxPages] /\ MaxPages \in Nat
  BY HeapAssumption DEF HeapInv, HeapTypeOK
<1>2. CASE InsertAlloc(t) \/ InsertTooLarge(t)
  <2>1. /\ next' = [next EXCEPT ![allocated + 1] = base[t]]
        /\ inserted' = inserted /\ overwritten' = overwritten
    BY <1>2 DEF InsertAlloc, InsertTooLarge, ghostVars
  <2>2. \A q \in 1..allocated : next'[q] = next[q]
    BY <1>1, <2>1 DEF PageIds
  <2> QED BY <2>1, <2>2
<1>3. CASE InsertHere(t)
  <2>1. next' = next /\ overwritten' = overwritten /\ inserted \subseteq inserted'
    BY <1>3 DEF InsertHere
  <2> QED BY <2>1
<1>4. CASE InsertLink(t)
  <2>1. next' = next /\ inserted \subseteq inserted'
    BY <1>4 DEF InsertLink
  <2>2. overwritten => overwritten'
    BY <1>4, Zenon DEF InsertLink
  <2> QED BY <2>1, <2>2
<1>5. CASE \/ Call(t) \/ InsertHeader(t) \/ InsertNext(t) \/ Scan(t) \/ StorageError(t)
  <2>1. next' = next /\ inserted' = inserted /\ overwritten' = overwritten
    <3>1. CASE Call(t)
      BY <3>1 DEF Call, Begin, StartInsert, Delete, StartScan, fileVars
    <3>2. CASE InsertHeader(t) \/ InsertNext(t) \/ Scan(t) \/ StorageError(t)
      BY <3>2 DEF InsertHeader, InsertNext, Scan, ScanPage, ScanEnd, StorageError, fileVars, ghostVars
    <3> QED BY <1>5, <3>1, <3>2
  <2> QED BY <2>1
<1> QED BY <1>2, <1>3, <1>4, <1>5 DEF Insert

LEMMA ChainAtNext == \A t : Chain(cur[t])' = Follow(next', cur'[t])
BY DEF Chain, Follow

(* A list from an allocated page stays as it is. *)
LEMMA ChainStays ==
  ASSUME HeapInv, HeapInv', Next
  PROVE  \A q \in 0..allocated : Follow(next', q) = Follow(next, q)
<1>1. next' \in Links
  BY DEF HeapInv, HeapTypeOK, ChainDescends, Links
<1>2. allocated \in 0..MaxPages
  BY DEF HeapInv, HeapTypeOK
<1> QED BY <1>1, <1>2, NextLinks, ListGrows, FollowSame

(* A record that can be got after a step could be got before it. *)
LEMMA GetFades ==
  ASSUME HeapInv, HeapInv', Next, NEW u \in Tasks, NEW rid \in inserted,
         txn'[u] = txn[u], isolation'[u] = isolation[u], get(u, rid)' = "Ok"
  PROVE  get(u, rid) = "Ok"
<1> DEFINE p == rid.page
           n == rid.slot
<1>1. p \in PageIds /\ n \in 1..Len(slots[p])
  BY DEF HeapInv, RecordsKnown
<1>2. /\ Len(slots[p]) \in Nat /\ Len(slots'[p]) \in Nat /\ Len(slots[p]) <= Len(slots'[p])
      /\ slots'[p][n].xmin = slots[p][n].xmin
      /\ slots[p][n].xmax # 0 => slots'[p][n].xmax = slots[p][n].xmax
  <2>1. slots' \in [PageIds -> Seq(Tuple)]
    BY DEF HeapInv, HeapTypeOK
  <2> QED BY <1>1, <2>1, TuplesGrow, LenProperties
<1>3. is_visible(slots'[p][n], txn'[u], isolation'[u])
  BY <1>1, <1>2 DEF get
<1>4. is_visible(slots[p][n], txn[u], isolation[u])
  BY <1>2, <1>3 DEF is_visible
<1> QED BY <1>1, <1>2, <1>4 DEF get

(* A scan at page c that has returned the records g has left the pages of  *)
(* those behind, has returned none twice, and has yet to come to the page  *)
(* of every visible record it still owes.                                  *)
Owes(u, c, g, owed) ==
  /\ \A i \in 1..Len(g) : g[i].page > c
  /\ \A i, j \in 1..Len(g) : g[i] = g[j] => i = j
  /\ \A rid \in owed :
       /\ rid \in inserted
       /\ rid.page \in Chain(c) \/ (get(u, rid) = "Ok" => \E i \in 1..Len(g) : g[i] = rid)

ScanInv ==
  /\ got \in [Tasks -> Seq(Rids)] /\ DOMAIN expected = Tasks
  /\ \A t \in Tasks : pc[t] # "scan" => got[t] = <<>>
  /\ ~overwritten => \A t \in Tasks : pc[t] = "scan" => Owes(t, cur[t], got[t], expected[t])

(* A scan that does not move owes no more than before. *)
LEMMA OwesStays ==
  ASSUME HeapInv, HeapInv', Next, NEW u \in Tasks, Owes(u, cur[u], got[u], expected[u]),
         txn'[u] = txn[u], isolation'[u] = isolation[u],
         cur'[u] = cur[u], got'[u] = got[u], expected'[u] = expected[u]
  PROVE  Owes(u, cur[u], got[u], expected[u])'
<1>1. cur[u] \in 0..allocated
  BY CallsAt, HeapAssumption
<1>2. Chain(cur[u])' = Chain(cur[u])
  BY <1>1, ChainStays, ChainFollows, ChainAtNext
<1>3. ASSUME NEW rid \in expected[u]
      PROVE  /\ rid \in inserted'
             /\ \/ rid.page \in Chain(cur[u])'
                \/ get(u, rid)' = "Ok" => \E i \in 1..Len(got'[u]) : got'[u][i] = rid
  BY <1>2, <1>3, ListGrows, GetFades DEF Owes
<1> QED BY <1>3 DEF Owes


(* The scan of a page. *)
LEMMA ScanPageOwes ==
  ASSUME HeapInv, ListInv, ~overwritten, got \in [Tasks -> Seq(Rids)], NEW t \in Tasks, ScanPage(t),
         Owes(t, cur[t], got[t], expected[t])
  PROVE  Owes(t, cur[t], got[t], expected[t])'
<1> DEFINE p == cur[t]
           g == got[t]
           v == VisibleIn(p, t)
           w == g \o v
           V == {n \in 1..Len(slots[p]) : is_visible(slots[p][n], txn[t], isolation[t])}
<1>1. p \in PageIds /\ pc[t] = "scan"
  BY CallsAt DEF ScanPage
<1>2. /\ next' = next /\ slots' = slots /\ txn' = txn /\ isolation' = isolation
      /\ inserted' = inserted /\ expected' = expected
  BY DEF ScanPage, fileVars, txnVars, ghostVars
<1>3. got'[t] = w /\ cur'[t] = next[p]
  BY DEF ScanPage, HeapInv, HeapTypeOK
<1>4. Holds(v, p, Len(slots[p]), V)
  BY <1>1, VisibleInHolds
<1>5. next[p] \in 0..MaxPages /\ next[p] < p /\ p \in Nat /\ MaxPages \in Nat
  BY <1>1, HeapAssumption DEF HeapInv, HeapTypeOK, ChainDescends, PageIds
<1>6. Chain(p) = {p} \union Chain(next[p]) /\ Chain(cur[t])' = Chain(next[p])
  BY <1>1, <1>2, <1>3, NextLinks, FollowStep, ChainFollows, ChainAtNext
<1>7. OnList = inserted
  BY DEF ListInv
<1>8. \A rid : get(t, rid)' = get(t, rid)
  BY <1>2 DEF get
<1>9. /\ Len(g) \in Nat /\ Len(v) \in Nat /\ Len(w) = Len(g) + Len(v)
      /\ \A i \in 1..Len(g) : w[i] = g[i] /\ g[i].page \in Nat
      /\ \A i \in 1..Len(v) : w[Len(g) + i] = v[i]
  <2>1. g \in Seq(Rids) /\ v \in Seq(Rids)
    BY <1>4 DEF Holds
  <2> HIDE DEF g, v
  <2>2. Len(g) \in Nat /\ Len(v) \in Nat
    BY <2>1, LenProperties
  <2>3. \A i \in 1..Len(g) : g[i] \in Rids
    BY <2>1, ElementOfSeq
  <2>4. /\ Len(w) = Len(g) + Len(v)
        /\ \A i \in 1..(Len(g) + Len(v)) : w[i] = IF i <= Len(g) THEN g[i] ELSE v[i - Len(g)]
    BY <2>1, ConcatProperties
  <2>5. \A i \in 1..Len(v) : Len(g) + i \in 1..(Len(g) + Len(v)) /\ ~(Len(g) + i <= Len(g))
                             /\ (Len(g) + i) - Len(g) = i
    BY <2>2
  <2>6. \A i \in 1..Len(g) : i \in 1..(Len(g) + Len(v)) /\ i <= Len(g)
    BY <2>2
  <2> HIDE DEF w
  <2> QED BY <2>2, <2>3, <2>4, <2>5, <2>6 DEF Rids, PageIds
<1> HIDE DEF w, g, v
<1>10. \A i \in 1..Len(w) : i \in 1..Len(g) \/ (i - Len(g) \in 1..Len(v) /\ i = Len(g) + (i - Len(g)))
  BY <1>9
<1>11. /\ \A i \in 1..Len(g) : g[i].page > p
       /\ \A i, j \in 1..Len(g) : g[i] = g[j] => i = j
  BY DEF Owes, g
<1>12. /\ \A i \in 1..Len(v) : v[i].page = p
       /\ \A i, j \in 1..Len(v) : v[i] = v[j] => i = j
  BY <1>4 DEF Holds
<1> HIDE DEF p
<1>13. ASSUME NEW i \in 1..Len(w) PROVE w[i].page > next[p]
  <2>1. CASE i \in 1..Len(g)
    BY <1>5, <1>9, <1>11, <2>1
  <2>2. CASE i - Len(g) \in 1..Len(v) /\ i = Len(g) + (i - Len(g))
    <3>1. w[i] = v[i - Len(g)]
      BY <1>9, <2>2
    <3> QED BY <1>5, <1>12, <2>2, <3>1
  <2> QED BY <1>10, <2>1, <2>2
<1>14. ASSUME NEW i \in 1..Len(w), NEW j \in 1..Len(w), w[i] = w[j] PROVE i = j
  <2> DEFINE a == i - Len(g)
             b == j - Len(g)
  <2>1. /\ (i \in 1..Len(g) /\ w[i] = g[i]) \/ (a \in 1..Len(v) /\ w[i] = v[a])
        /\ (j \in 1..Len(g) /\ w[j] = g[j]) \/ (b \in 1..Len(v) /\ w[j] = v[b])
    BY <1>9, <1>10
  <2>2. CASE i \in 1..Len(g) /\ w[i] = g[i] /\ j \in 1..Len(g) /\ w[j] = g[j]
    BY <1>11, <1>14, <2>2
  <2>3. CASE a \in 1..Len(v) /\ w[i] = v[a] /\ b \in 1..Len(v) /\ w[j] = v[b]
    <3>1. a = b
      <4> HIDE DEF a, b
      <4> QED BY <1>12, <1>14, <2>3
    <3> QED BY <1>9, <3>1
  <2>4. ASSUME NEW k \in 1..Len(g), NEW m \in 1..Len(v) PROVE g[k] # v[m]
    <3>1. g[k].page > p /\ g[k].page \in Nat /\ v[m].page = p /\ p \in Nat
      BY <1>5, <1>9, <1>11, <1>12
    <3>2. \A x, y \in Nat : x > y => x # y
      OBVIOUS
    <3>3. g[k].page # v[m].page
      BY <3>1, <3>2
    <3> QED BY <3>3
  <2> HIDE DEF a, b
  <2> QED BY <1>14, <2>1, <2>2, <2>3, <2>4
<1>15. ASSUME NEW rid \in expected[t]
       PROVE  /\ rid \in inserted
              /\ rid.page \in Chain(next[p]) \/ (get(t, rid) = "Ok" => \E i \in 1..Len(w) : w[i] = rid)
  <2>1. /\ rid \in inserted
        /\ rid.page \in Chain(p) \/ (get(t, rid) = "Ok" => \E i \in 1..Len(g) : g[i] = rid)
    BY DEF Owes, p, g
  <2>2. ASSUME rid.page = p, get(t, rid) = "Ok" PROVE \E i \in 1..Len(w) : w[i] = rid
    <3>0. PICK q \in Chain(first) : \E n \in 1..Len(slots[q]) : rid = [page |-> q, slot |-> n]
      BY <1>7, <2>1, OnListHas
    <3>1. PICK n \in 1..Len(slots[q]) : rid = [page |-> q, slot |-> n]
      BY <3>0
    <3>2. q = p /\ n \in 1..Len(slots[p]) /\ rid.slot = n
      BY <2>2, <3>1
    <3>3. n \in V
      BY <2>2, <3>2 DEF get
    <3>4. PICK i \in 1..Len(v) : v[i] = [page |-> p, slot |-> n]
      BY <1>4, <3>2, <3>3 DEF Holds
    <3>5. Len(g) + i \in 1..Len(w) /\ w[Len(g) + i] = v[i]
      BY <1>9
    <3> QED BY <3>1, <3>2, <3>4, <3>5
  <2>3. ASSUME NEW i \in 1..Len(g), g[i] = rid PROVE \E k \in 1..Len(w) : w[k] = rid
    <3>1. i \in 1..Len(w) /\ w[i] = g[i]
      BY <1>9
    <3> QED BY <2>3, <3>1
  <2> QED BY <1>6, <2>1, <2>2, <2>3
<1>16. Chain(cur[t])' = Chain(next[p]) /\ got'[t] = w /\ cur'[t] = next[p]
  BY <1>3, <1>6
<1> QED BY <1>2, <1>8, <1>13, <1>14, <1>15, <1>16 DEF Owes

(* The other calls keep what their scans have. *)
LEMMA ScanInvOthers ==
  ASSUME HeapInv, HeapInv', ScanInv, Next, NEW t \in Tasks,
         \A u \in Tasks : u # t =>
           /\ pc'[u] = pc[u] /\ cur'[u] = cur[u] /\ got'[u] = got[u]
           /\ expected'[u] = expected[u] /\ txn'[u] = txn[u] /\ isolation'[u] = isolation[u],
         got' \in [Tasks -> Seq(Rids)], DOMAIN expected' = Tasks,
         pc'[t] # "scan" => got'[t] = <<>>,
         ~overwritten' /\ pc'[t] = "scan" => Owes(t, cur[t], got[t], expected[t])'
  PROVE  ScanInv'
<1>1. \A u \in Tasks : pc'[u] # "scan" => got'[u] = <<>>
  BY DEF ScanInv
<1>2. ASSUME ~overwritten', NEW u \in Tasks, pc'[u] = "scan"
      PROVE  Owes(u, cur[u], got[u], expected[u])'
  <2>1. CASE u = t
    BY <1>2, <2>1
  <2>2. CASE u # t
    <3>1. Owes(u, cur[u], got[u], expected[u])
      BY <1>2, <2>2, ListGrows DEF ScanInv
    <3> QED BY <2>2, <3>1, OwesStays
  <2> QED BY <2>1, <2>2
<1> QED BY <1>1, <1>2 DEF ScanInv

LEMMA ScanInvNext ==
  ASSUME HeapInv, HeapInv', ListInv, ListInv', ScanInv, [Next]_heapVars PROVE ScanInv'
<1>1. CASE UNCHANGED heapVars
  <2>1. UNCHANGED <<next, slots, pc, cur, got, txn, isolation, inserted, expected, overwritten>>
    BY <1>1 DEF heapVars, fileVars, callVars, txnVars, ghostVars
  <2>2. \A t : Chain(cur[t])' = Chain(cur[t]) /\ \A rid : get(t, rid)' = get(t, rid)
    BY <2>1, ChainAtNext, ChainFollows DEF get
  <2> QED BY <2>1, <2>2 DEF ScanInv, Owes
<1>2. ASSUME NEW t \in Tasks, Call(t) \/ Insert(t) \/ Scan(t) \/ StorageError(t) PROVE ScanInv'
  <2>n. Next
    BY <1>2 DEF Next
  <2>t. /\ pc \in [Tasks -> {"none", "idle", "header", "try", "link", "scan"}]
        /\ cur \in [Tasks -> 0..MaxPages]
        /\ txn \in [Tasks -> 0..MaxTxns] /\ isolation \in [Tasks -> Isolations \union {"Snapshot"}]
    BY DEF HeapInv, HeapTypeOK
  <2>g. /\ got \in [Tasks -> Seq(Rids)] /\ DOMAIN expected = Tasks
        /\ pc[t] # "scan" => got[t] = <<>>
    BY DEF ScanInv
  <2>e. <<>> \in Seq(Rids)
    BY EmptySeq
  <2>1. CASE \/ \E level \in Isolations : Begin(t, level)
             \/ \E n \in Sizes : StartInsert(t, n)
             \/ \E rid \in inserted : Delete(t, rid)
             \/ InsertHeader(t) \/ InsertNext(t) \/ InsertAlloc(t)
    <3>1. /\ got' = got /\ expected' = expected /\ pc[t] # "scan"
          /\ pc'[t] # "scan"
          /\ \A u \in Tasks : u # t =>
               pc'[u] = pc[u] /\ cur'[u] = cur[u] /\ txn'[u] = txn[u] /\ isolation'[u] = isolation[u]
      <4>1. CASE \/ \E level \in Isolations : Begin(t, level)
                 \/ \E n \in Sizes : StartInsert(t, n)
                 \/ \E rid \in inserted : Delete(t, rid)
        BY <2>t, <4>1 DEF Begin, StartInsert, Delete, callVars, txnVars
      <4>2. CASE InsertHeader(t) \/ InsertNext(t) \/ InsertAlloc(t)
        BY <2>t, <4>2 DEF InsertHeader, InsertNext, InsertAlloc, txnVars, ghostVars
      <4> QED BY <2>1, <4>1, <4>2
    <3> QED BY <2>n, <2>g, <3>1, ScanInvOthers
  <2>2. CASE InsertHere(t) \/ InsertTooLarge(t) \/ InsertLink(t) \/ ScanEnd(t) \/ StorageError(t)
    <3>1. /\ Return(t) /\ UNCHANGED txnVars
          /\ expected' = expected \/ expected' = [expected EXCEPT ![t] = {}]
      BY <2>2 DEF InsertHere, InsertTooLarge, InsertLink, ScanEnd, StorageError, ghostVars
    <3>2. /\ got' = [got EXCEPT ![t] = <<>>] /\ pc' = [pc EXCEPT ![t] = "idle"]
          /\ cur' = [cur EXCEPT ![t] = 0] /\ txn' = txn /\ isolation' = isolation
      BY <3>1 DEF Return, txnVars
    <3>3. /\ got' \in [Tasks -> Seq(Rids)] /\ got'[t] = <<>> /\ pc'[t] = "idle"
          /\ DOMAIN expected' = Tasks
      BY <2>t, <2>g, <2>e, <3>1, <3>2
    <3>4. \A u \in Tasks : u # t =>
            /\ pc'[u] = pc[u] /\ cur'[u] = cur[u] /\ got'[u] = got[u]
            /\ expected'[u] = expected[u] /\ txn'[u] = txn[u] /\ isolation'[u] = isolation[u]
      BY <2>t, <2>g, <3>1, <3>2
    <3> QED BY <2>n, <3>3, <3>4, ScanInvOthers
  <2>3. CASE StartScan(t)
    <3>1. /\ got' = got /\ got[t] = <<>> /\ first' = first /\ next' = next /\ inserted' = inserted
          /\ overwritten' = overwritten /\ cur'[t] = first /\ expected'[t] = inserted
          /\ DOMAIN expected' = Tasks /\ pc'[t] = "scan"
          /\ \A u \in Tasks : u # t =>
               /\ pc'[u] = pc[u] /\ cur'[u] = cur[u] /\ expected'[u] = expected[u]
               /\ txn'[u] = txn[u] /\ isolation'[u] = isolation[u]
      BY <2>3, <2>t, <2>g DEF StartScan, fileVars, txnVars
    <3>2. ASSUME ~overwritten' PROVE Owes(t, cur[t], got[t], expected[t])'
      <4>1. Chain(cur[t])' = Chain(first)
        BY <3>1, ChainAtNext, ChainFollows
      <4>2. \A rid \in inserted : rid.page \in Chain(first)
        <5>1. OnList = inserted
          BY <3>1, <3>2 DEF ListInv
        <5> QED BY <5>1, OnListHas
      <4>3. 1..Len(got'[t]) = {}
        BY <3>1, EmptySeq
      <4> QED BY <3>1, <4>1, <4>2, <4>3 DEF Owes
    <3> QED BY <2>n, <2>g, <3>1, <3>2, ScanInvOthers
  <2>4. CASE ScanPage(t)
    <3>1. /\ pc' = pc /\ txn' = txn /\ isolation' = isolation /\ expected' = expected
          /\ overwritten' = overwritten /\ pc[t] = "scan" /\ cur[t] # 0
          /\ got' = [got EXCEPT ![t] = @ \o VisibleIn(cur[t], t)]
          /\ cur' = [cur EXCEPT ![t] = next[cur[t]]]
      BY <2>4 DEF ScanPage, txnVars, ghostVars
    <3>2. cur[t] \in PageIds
      BY <3>1, CallsAt
    <3>3. VisibleIn(cur[t], t) \in Seq(Rids)
      BY <3>2, VisibleInHolds DEF Holds
    <3>4. got[t] \o VisibleIn(cur[t], t) \in Seq(Rids)
      BY <2>g, <3>3, ConcatProperties
    <3>5. got' \in [Tasks -> Seq(Rids)] /\ DOMAIN expected' = Tasks
      BY <2>g, <3>1, <3>4
    <3>6. \A u \in Tasks : u # t => cur'[u] = cur[u] /\ got'[u] = got[u]
      BY <2>t, <2>g, <3>1
    <3>7. ~overwritten' => Owes(t, cur[t], got[t], expected[t])'
      BY <2>4, <2>g, <3>1, ScanPageOwes DEF ScanInv
    <3> QED BY <2>n, <3>1, <3>5, <3>6, <3>7, ScanInvOthers
  <2> QED BY <1>2, <2>1, <2>2, <2>3, <2>4 DEF Call, Insert, Scan
<1> QED BY <1>1, <1>2 DEF Next

LEMMA ScanInvInit == Init => ScanInv
<1> SUFFICES ASSUME Init PROVE ScanInv
  OBVIOUS
<1>1. got = [t \in Tasks |-> <<>>] /\ expected = [t \in Tasks |-> {}] /\ pc = [t \in Tasks |-> "none"]
  BY DEF Init
<1>2. <<>> \in Seq(Rids)
  BY EmptySeq
<1> QED BY <1>1, <1>2 DEF ScanInv

(* A scan that ends returns no tuple twice and misses none that was there  *)
(* when it began and its transaction still sees, while other transactions  *)
(* insert into its pages, prepend pages, delete and fail, as long as no    *)
(* first_page was replaced that its replacement does not link to.          *)
THEOREM ScansAreExact == Spec => []ScanExact
<1>1. HeapInv /\ HeapInv' /\ ListInv /\ ListInv' /\ ScanInv /\ [Next]_heapVars => ScanInv'
  BY ScanInvNext
<1>2. ASSUME HeapInv, ScanInv PROVE ScanExact
  <2> SUFFICES ASSUME NEW t \in Tasks, ~overwritten, pc[t] = "scan", cur[t] = 0
               PROVE  /\ \A i, j \in 1..Len(got[t]) : got[t][i] = got[t][j] => i = j
                      /\ \A rid \in expected[t] : get(t, rid) = "Ok" => rid \in Found(t)
    BY DEF ScanExact
  <2>1. Chain(cur[t]) = {}
    BY <1>2, NextLinks, FollowStep, ChainFollows
  <2>2. Owes(t, cur[t], got[t], expected[t])
    BY <1>2 DEF ScanInv
  <2> QED BY <2>1, <2>2 DEF Owes, Found
<1> QED BY <1>1, <1>2, ScanInvInit, ListInvHolds, HeapInvHolds, PTL DEF Spec
=============================================================================
