--------------------------- MODULE HeapPageProofs ---------------------------
(***************************************************************************)
(* Proofs about HeapPage for every page size, header size and sequence of  *)
(* tuple lengths.                                                          *)
(***************************************************************************)
EXTENDS HeapPage, TLAPS

(* The page is laid out in order: headers, slots, free space, tuples from  *)
(* the last inserted to the first, end of page.                            *)
Layout ==
  /\ num_slots > 0 => data_offset >= HeadersSize + num_slots * SlotSize
  /\ \A i \in 0..(num_slots - 1) :
       /\ slot[i].offset >= data_offset
       /\ slot[i].offset + len[i] <= PageSize
       /\ slot[i].length \in {0, len[i]}
  /\ \A i, j \in 0..(num_slots - 1) : i < j => slot[j].offset + len[j] <= slot[i].offset

(* Every byte of a slot and of a tuple, deleted or not, is its own. *)
Owned ==
  \A i \in 0..(num_slots - 1) :
    /\ \A b \in SlotBytes(i) : owner[b] = SlotOf(i)
    /\ \A b \in Range(slot[i].offset, len[i]) : owner[b] = TupleOf(i)

Typed ==
  /\ num_slots \in Nat /\ data_offset \in 0..PageSize
  /\ slot \in [0..(num_slots - 1) -> [offset : Nat, length : Nat]]
  /\ len \in [0..(num_slots - 1) -> Nat]
  /\ DOMAIN owner = Bytes

PageInv == Typed /\ Layout /\ Owned

LEMMA PageInvInit == PageInit => PageInv
BY PageAssumption DEF PageInit, PageInv, Typed, Layout, Owned, SlotSize

LEMMA InsertKeepsInv ==
  ASSUME PageInv, NEW n \in Lengths, Insert(n) PROVE PageInv'
<1> DEFINE i == num_slots
           off == data_offset - n
<1> USE PageAssumption
<1>1. /\ n \in Nat /\ i \in Nat /\ data_offset \in Nat /\ data_offset <= PageSize
      /\ PageSize \in Nat /\ HeadersSize \in Nat
  BY DEF PageInv, Typed
<1>2. data_offset >= HeadersSize + i * 4 /\ off >= HeadersSize + i * 4 + 4
  BY <1>1 DEF Insert, free_space_remaining, slots_end, NeededSpace, SlotSize
<1>3. /\ num_slots' = i + 1 /\ data_offset' = off
      /\ \A j \in 0..(num_slots' - 1) : j \in 0..i
      /\ 0..(num_slots' - 1) = 0..i
  BY <1>1 DEF Insert
<1>4. /\ slot' = [j \in 0..i |-> IF j = i THEN [offset |-> off, length |-> n] ELSE slot[j]]
      /\ len' = [j \in 0..i |-> IF j = i THEN n ELSE len[j]]
  BY DEF Insert
<1>5. \A j \in 0..(i - 1) : j \in 0..i /\ j # i /\ slot'[j] = slot[j] /\ len'[j] = len[j]
  BY <1>1, <1>4
<1>6. slot'[i].offset = off /\ slot'[i].length = n /\ len'[i] = n
  BY <1>1, <1>4
<1>7. \A j \in 0..i : j = i \/ j \in 0..(i - 1)
  BY <1>1
<1>8. Typed'
  <2>1. slot' \in [0..i -> [offset : Nat, length : Nat]]
    BY <1>1, <1>2, <1>4 DEF PageInv, Typed
  <2>2. len' \in [0..i -> Nat]
    BY <1>1, <1>4 DEF PageInv, Typed
  <2>3. DOMAIN owner' = Bytes
    BY DEF Insert
  <2> QED BY <1>1, <1>2, <1>3, <2>1, <2>2, <2>3 DEF Typed
<1>a. /\ \A j \in 0..(i - 1) : /\ slot[j].offset \in Nat /\ slot[j].length \in Nat
                               /\ len[j] \in Nat
  BY <1>1 DEF PageInv, Typed
<1>9. Layout'
  <2>1. num_slots' > 0 => data_offset' >= HeadersSize + num_slots' * SlotSize
    BY <1>1, <1>2, <1>3 DEF SlotSize
  <2>2. ASSUME NEW j \in 0..i
        PROVE  /\ slot'[j].offset >= off
               /\ slot'[j].offset + len'[j] <= PageSize
               /\ slot'[j].length \in {0, len'[j]}
    <3>1. CASE j = i
      BY <1>1, <1>2, <1>6, <3>1
    <3>2. CASE j \in 0..(i - 1)
      BY <1>1, <1>2, <1>5, <1>a, <3>2 DEF PageInv, Layout
    <3> QED BY <1>7, <3>1, <3>2
  <2>3. ASSUME NEW j \in 0..i, NEW k \in 0..i, j < k
        PROVE  slot'[k].offset + len'[k] <= slot'[j].offset
    <3>1. j \in 0..(i - 1)
      BY <2>3, <1>1
    <3>2. CASE k = i
      BY <1>1, <1>5, <1>6, <1>a, <3>1, <3>2 DEF PageInv, Layout
    <3>3. CASE k \in 0..(i - 1)
      BY <1>1, <1>5, <2>3, <3>1, <3>3 DEF PageInv, Layout
    <3> QED BY <1>7, <3>2, <3>3
  <2>4. \A j \in 0..(num_slots' - 1) :
          /\ slot'[j].offset >= data_offset'
          /\ slot'[j].offset + len'[j] <= PageSize
          /\ slot'[j].length \in {0, len'[j]}
    BY <1>3, <2>2
  <2>5. \A j, k \in 0..(num_slots' - 1) : j < k => slot'[k].offset + len'[k] <= slot'[j].offset
    BY <1>3, <2>3
  <2> QED BY <2>1, <2>4, <2>5 DEF Layout
<1>10. Owned'
  <2>1. ASSUME NEW j \in 0..i, NEW b \in SlotBytes(j) PROVE owner'[b] = SlotOf(j)
    <3>1. /\ b \in Int /\ b >= HeadersSize + j * 4 /\ b <= HeadersSize + j * 4 + 3
      BY <1>1 DEF SlotBytes, SlotSize
    <3>2. b \in Bytes
      BY <1>1, <1>2, <3>1 DEF Bytes
    <3>3. CASE j = i
      BY <3>2, <3>3 DEF Insert
    <3>4. CASE j \in 0..(i - 1)
      <4>1. b \notin SlotBytes(i) /\ b \notin Range(off, n)
        BY <1>1, <1>2, <3>1, <3>4 DEF SlotBytes, Range, SlotSize
      <4>2. owner'[b] = owner[b]
        BY <3>2, <4>1 DEF Insert
      <4> QED BY <3>4, <4>2 DEF PageInv, Owned
    <3> QED BY <1>7, <3>3, <3>4
  <2>2. ASSUME NEW j \in 0..i, NEW b \in Range(slot'[j].offset, len'[j])
        PROVE  owner'[b] = TupleOf(j)
    <3>1. CASE j = i
      <4>1. b \in Int /\ b >= off /\ b < data_offset
        BY <1>1, <1>2, <1>6, <3>1 DEF Range
      <4>2. b \in Bytes /\ b \notin SlotBytes(i) /\ b \in Range(off, n)
        BY <1>1, <1>2, <4>1 DEF Bytes, SlotBytes, SlotSize, Range
      <4> QED BY <3>1, <4>2 DEF Insert
    <3>2. CASE j \in 0..(i - 1)
      <4>1. b \in Range(slot[j].offset, len[j])
        BY <1>5, <3>2
      <4>2. /\ slot[j].offset >= data_offset /\ slot[j].offset + len[j] <= PageSize
        BY <3>2 DEF PageInv, Layout
      <4>3. b \in Int /\ b >= data_offset /\ b < PageSize
        BY <1>1, <1>a, <3>2, <4>1, <4>2 DEF Range
      <4>4. b \in Bytes /\ b \notin SlotBytes(i) /\ b \notin Range(off, n)
        BY <1>1, <1>2, <4>3 DEF Bytes, SlotBytes, SlotSize, Range
      <4>5. owner'[b] = owner[b]
        BY <4>4 DEF Insert
      <4> QED BY <3>2, <4>1, <4>5 DEF PageInv, Owned
    <3> QED BY <1>7, <3>1, <3>2
  <2>3. \A j \in 0..(num_slots' - 1) :
          /\ \A b \in SlotBytes(j) : owner'[b] = SlotOf(j)
          /\ \A b \in Range(slot'[j].offset, len'[j]) : owner'[b] = TupleOf(j)
    BY <1>3, <2>1, <2>2
  <2> QED BY <2>3 DEF Owned
<1> QED BY <1>8, <1>9, <1>10 DEF PageInv

LEMMA OthersKeepInv ==
  ASSUME PageInv, InitPage \/ \E i \in 0..(num_slots - 1) : Delete(i) \/ WriteData(i)
  PROVE  PageInv'
<1> USE PageAssumption
<1>1. CASE InitPage
  <2>1. num_slots = 0
    BY <1>1 DEF InitPage, PageInv, Typed, Layout, SlotSize
  <2> QED BY <1>1, <2>1 DEF InitPage, PageInv, Typed, Layout, Owned
<1>2. ASSUME NEW i \in 0..(num_slots - 1), Delete(i) PROVE PageInv'
  <2>1. /\ num_slots' = num_slots /\ data_offset' = data_offset /\ owner' = owner /\ len' = len
        /\ slot' \in [0..(num_slots - 1) -> [offset : Nat, length : Nat]]
        /\ \A j \in 0..(num_slots - 1) :
             /\ slot'[j].offset = slot[j].offset
             /\ slot'[j].length \in {0, slot[j].length}
    BY <1>2 DEF Delete, PageInv, Typed
  <2>2. Typed' BY <2>1 DEF PageInv, Typed
  <2>3. Layout' BY <2>1 DEF PageInv, Layout
  <2>4. Owned' BY <2>1 DEF PageInv, Owned
  <2> QED BY <2>2, <2>3, <2>4 DEF PageInv
<1>3. ASSUME NEW i \in 0..(num_slots - 1), WriteData(i) PROVE PageInv'
  <2> USE DEF PageInv
  <2>1. UNCHANGED <<num_slots, data_offset, slot, len>> /\ DOMAIN owner' = Bytes
    BY <1>3 DEF WriteData
  <2>2. Typed' /\ Layout'
    <3>1. Typed'
      BY <2>1 DEF Typed
    <3>2. Layout'
      BY <2>1 DEF Layout
    <3> QED BY <3>1, <3>2
  <2>t. /\ num_slots \in Nat /\ data_offset \in Nat
        /\ \A j \in 0..(num_slots - 1) : /\ slot[j].offset \in Nat /\ slot[j].length \in Nat
                                         /\ len[j] \in Nat
    BY DEF Typed
  <2>o. data_offset >= HeadersSize + num_slots * 4
    BY <2>t DEF Layout, SlotSize
  <2>3. ASSUME NEW j \in 0..(num_slots - 1), NEW b \in SlotBytes(j)
        PROVE  owner'[b] = SlotOf(j)
    <3>1. b \in Int /\ b >= HeadersSize + j * 4 /\ b < data_offset
      BY <2>t, <2>o DEF SlotBytes, SlotSize
    <3>2. slot[i].offset >= data_offset /\ slot[i].offset \in Nat
      BY <2>t DEF Layout
    <3>3. b \in Bytes /\ b \notin get_data(i)
      BY <2>t, <3>1, <3>2 DEF Bytes, get_data, Range, Typed
    <3> QED BY <1>3, <3>3 DEF WriteData, Owned
  <2>4. ASSUME NEW j \in 0..(num_slots - 1), NEW b \in Range(slot[j].offset, len[j])
        PROVE  owner'[b] = TupleOf(j)
    <3>1. /\ slot[j].offset >= data_offset /\ slot[j].offset + len[j] <= PageSize
          /\ slot[i].length \in {0, len[i]}
      BY DEF Layout
    <3>2. /\ b \in Int /\ b >= slot[j].offset /\ b < slot[j].offset + len[j]
      BY <2>t DEF Range
    <3>3. b \in Bytes
      BY <2>t, <2>o, <3>1, <3>2 DEF Bytes
    <3>4. CASE j = i
      <4>1. owner[b] = TupleOf(j)
        BY DEF Owned
      <4> QED BY <1>3, <3>3, <3>4, <4>1 DEF WriteData
    <3>5. CASE j # i
      <4>1. \/ slot[j].offset + len[j] <= slot[i].offset
            \/ slot[i].offset + len[i] <= slot[j].offset
        <5>1. j < i \/ i < j
          BY <3>5, <2>t
        <5> QED BY <5>1 DEF Layout
      <4>2. b \notin get_data(i)
        BY <2>t, <3>1, <3>2, <4>1 DEF get_data, Range
      <4> QED BY <1>3, <3>3, <4>2 DEF WriteData, Owned
    <3> QED BY <3>4, <3>5
  <2>5. Owned'
    BY <2>1, <2>3, <2>4 DEF Owned
  <2> QED BY <2>2, <2>5
<1> QED BY <1>1, <1>2, <1>3

LEMMA StepKeepsPage == PageInv /\ [PageNext]_pageVars => PageInv'
<1> SUFFICES ASSUME PageInv, [PageNext]_pageVars PROVE PageInv'
  OBVIOUS
<1>1. CASE UNCHANGED pageVars
  BY <1>1 DEF PageInv, Typed, Layout, Owned, pageVars
<1>2. CASE \E n \in Lengths : Insert(n)
  BY <1>2, InsertKeepsInv
<1>3. CASE InitPage \/ \E i \in 0..(num_slots - 1) : Delete(i) \/ WriteData(i)
  BY <1>3, OthersKeepInv
<1> QED BY <1>1, <1>2, <1>3 DEF PageNext

LEMMA PageInvImplies == PageInv => PageTypeOK /\ TuplesIntact
<1> SUFFICES ASSUME PageInv PROVE PageTypeOK /\ TuplesIntact
  OBVIOUS
<1> USE PageAssumption DEF PageInv
<1>t. /\ num_slots \in Nat /\ data_offset \in Nat /\ data_offset <= PageSize
      /\ \A j \in 0..(num_slots - 1) : /\ slot[j].offset \in Nat /\ slot[j].length \in Nat
                                       /\ len[j] \in Nat
  BY DEF Typed
<1>1. ASSUME NEW i \in 0..(num_slots - 1)
      PROVE  /\ SlotBytes(i) \subseteq Bytes
             /\ get_data(i) \subseteq Bytes
             /\ get_data(i) \subseteq Range(slot[i].offset, len[i])
             /\ slot[i].length \in {0, len[i]}
  <2>1. /\ data_offset >= HeadersSize + num_slots * 4
        /\ slot[i].offset >= data_offset
        /\ slot[i].offset + len[i] <= PageSize
        /\ slot[i].length \in {0, len[i]}
    BY <1>t DEF Layout, SlotSize
  <2>2. SlotBytes(i) \subseteq Bytes
    BY <1>t, <2>1 DEF SlotBytes, Bytes, SlotSize
  <2>3. get_data(i) \subseteq Bytes
    BY <1>t, <2>1 DEF get_data, Range, Bytes
  <2>4. get_data(i) \subseteq Range(slot[i].offset, len[i])
    BY <1>t, <2>1 DEF get_data, Range
  <2> QED BY <2>1, <2>2, <2>3, <2>4
<1>2. PageTypeOK
  BY <1>1 DEF PageTypeOK, Typed
<1>3. TuplesIntact
  BY <1>1 DEF TuplesIntact, Owned
<1> QED BY <1>2, <1>3

(* For every page size and every sequence of inserts, deletes and in-place *)
(* writes, each slot keeps its bytes and gives back exactly the tuple that *)
(* was inserted there.                                                     *)
THEOREM TuplesStayIntact == PageSpec => []TuplesIntact
BY PageInvInit, StepKeepsPage, PageInvImplies, PTL DEF PageSpec

(* Every slot and every tuple lies between the headers and the page end. *)
THEOREM PageTypeCorrect == PageSpec => []PageTypeOK
BY PageInvInit, StepKeepsPage, PageInvImplies, PTL DEF PageSpec
=============================================================================
