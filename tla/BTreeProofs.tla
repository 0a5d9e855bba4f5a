---------------------------- MODULE BTreeProofs -----------------------------
(***************************************************************************)
(* Proofs about the B-tree index, module BTreeIndex: the pages and calls   *)
(* keep their types, tasks that split take their latches in one order, and *)
(* the range of keys that every page stands for is kept by the steps that  *)
(* split no page.  Module BTreeExactProofs goes on from here.              *)
(***************************************************************************)
EXTENDS BTreeIndex, SortedEntriesProofs, FiniteSetTheorems, TLAPS

-----------------------------------------------------------------------------
(* Sorted arrays of entries *)

(* A sorted array of at most max entries with natural keys. *)
IsEntries(es, max) ==
  /\ es \in Seq(ToSet(es)) /\ Len(es) <= max
  /\ Sorted(es) /\ \A i \in 1..Len(es) : es[i].key >= 0

LEMMA OwnSet == ASSUME NEW E, NEW s \in Seq(E) PROVE s \in Seq(ToSet(s))
<1>1. s \in [1..Len(s) -> E] /\ Len(s) \in Nat /\ DOMAIN s = 1..Len(s)
  BY LenProperties
<1>2. \A i \in 1..Len(s) : s[i] \in ToSet(s)
  BY <1>1 DEF ToSet
<1>3. s \in [1..Len(s) -> ToSet(s)]
  BY <1>1, <1>2
<1> QED BY <1>1, <1>3, SeqDef

LEMMA EntriesShape ==
  ASSUME NEW es, NEW max, IsEntries(es, max)
  PROVE  /\ Len(es) \in Nat /\ DOMAIN es = 1..Len(es)
         /\ \A i \in 1..Len(es) : es[i].key \in Nat /\ es[i] \in ToSet(es)
         /\ \A e : e \in ToSet(es) <=> \E i \in 1..Len(es) : es[i] = e
         /\ \A i, j \in 1..Len(es) : i < j => es[i].key < es[j].key
<1>1. Len(es) \in Nat /\ DOMAIN es = 1..Len(es) /\ Sorted(es)
  BY LenProperties DEF IsEntries
<1>2. \A i \in 1..Len(es) : es[i].key \in Nat
  BY <1>1 DEF IsEntries, Sorted
<1>3. \A i \in 1..Len(es) : es[i] \in ToSet(es)
  BY <1>1 DEF ToSet
<1>4. \A e : e \in ToSet(es) <=> \E i \in 1..Len(es) : es[i] = e
  BY <1>1 DEF ToSet
<1>5. \A i, j \in 1..Len(es) : i < j => es[i].key < es[j].key
  BY <1>1, SortedOrder
<1> QED BY <1>1, <1>2, <1>3, <1>4, <1>5

(* Keys of a page are distinct. *)
LEMMA EntriesDistinct ==
  ASSUME NEW es, NEW max, IsEntries(es, max)
  PROVE  \A i, j \in 1..Len(es) : es[i].key = es[j].key => i = j
<1>1. /\ Len(es) \in Nat /\ \A i \in 1..Len(es) : es[i].key \in Nat
      /\ \A i, j \in 1..Len(es) : i < j => es[i].key < es[j].key
  BY EntriesShape
<1> SUFFICES ASSUME NEW i \in 1..Len(es), NEW j \in 1..Len(es), es[i].key = es[j].key, i # j PROVE FALSE
  OBVIOUS
<1>2. CASE i < j
  BY <1>1, <1>2
<1>3. CASE j < i
  BY <1>1, <1>3
<1> QED BY <1>1, <1>2, <1>3

LEMMA EmptyEntries == ASSUME NEW max \in Nat PROVE IsEntries(<<>>, max) /\ ToSet(<<>>) = {}
<1>1. <<>> \in Seq(ToSet(<<>>)) /\ Len(<<>>) = 0
  BY EmptySeq
<1>2. DOMAIN <<>> = 1..0
  BY <1>1, LenProperties
<1>3. ToSet(<<>>) = {}
  BY <1>2 DEF ToSet
<1> QED BY <1>1, <1>3 DEF IsEntries, Sorted, Ascending

(* find_slot and find_separator_slot find a key exactly when it is there. *)
LEMMA SlotFound ==
  ASSUME NEW es, NEW max, IsEntries(es, max), NEW k \in Nat
  PROVE  /\ Search(es, k).found \in BOOLEAN /\ Search(es, k).pos \in 0..Len(es)
         /\ Search(es, k).found => Search(es, k).pos + 1 \in 1..Len(es) /\ es[Search(es, k).pos + 1].key = k
         /\ ~Search(es, k).found => \A i \in 1..Len(es) : es[i].key # k /\ (es[i].key < k <=> i <= Search(es, k).pos)
<1>1. Len(es) \in Nat /\ Sorted(es) /\ k \in Int
  BY EntriesShape DEF IsEntries
<1>2. /\ Search(es, k).found \in BOOLEAN /\ Search(es, k).pos \in 0..Len(es)
      /\ Search(es, k).found => Search(es, k).pos + 1 \in 1..Len(es) /\ es[Search(es, k).pos + 1].key = k
  BY <1>1, SearchFinds
<1>3. /\ Search(es, k).found <=> \E i \in 1..Len(es) : es[i].key = k
      /\ ~Search(es, k).found => \A i \in 1..Len(es) : es[i].key < k <=> i <= Search(es, k).pos
  BY <1>1, SearchIsExact
<1> QED BY <1>2, <1>3

(* The entries of a page with one more in its place. *)
LEMMA MergedEntries ==
  ASSUME NEW es, NEW max \in Nat, IsEntries(es, max), NEW e, e.key \in Nat, ~Search(es, e.key).found
  PROVE  /\ IsEntries(Merged(es, e), max + 1)
         /\ Shifted(Merged(es, e), es, Search(es, e.key).pos + 1, e)
         /\ Len(Merged(es, e)) = Len(es) + 1
         /\ ToSet(Merged(es, e)) = ToSet(es) \cup {e}
<1> DEFINE E == ToSet(es) \cup {e}
           p == Search(es, e.key).pos + 1
           new == InsertAt(es, p, e)
<1>0. Merged(es, e) = new
  BY DEF Merged
<1>1. es \in Seq(E) /\ e \in E /\ Sorted(es) /\ e.key \in Int
  BY SeqMonotonic DEF IsEntries
<1>2. /\ Len(es) \in Nat /\ Len(es) <= max /\ p \in 1..(Len(es) + 1)
      /\ \A x \in ToSet(es) : x.key >= 0
  <2>1. /\ Len(es) \in Nat /\ Len(es) <= max
        /\ \A x \in ToSet(es) : x.key >= 0
    BY EntriesShape DEF IsEntries
  <2>2. Search(es, e.key).pos \in 0..Len(es)
    BY SlotFound
  <2> QED BY <2>1, <2>2
<1>3. new \in Seq(E) /\ Shifted(new, es, p, e)
  <2> HIDE DEF E, p
  <2> QED BY <1>1, <1>2, InsertShape
<1>4. Sorted(new) /\ ToSet(new) = ToSet(es) \cup {e}
  <2> HIDE DEF E
  <2> QED BY <1>1, InsertSorted
<1> HIDE DEF new
<1>5. new \in Seq(ToSet(new)) /\ DOMAIN new = 1..Len(new)
  BY <1>3, OwnSet, LenProperties
<1>6. Len(new) = Len(es) + 1
  BY <1>3 DEF Shifted
<1>7. \A i \in 1..Len(new) : new[i].key >= 0
  <2>1. \A i \in 1..Len(new) : new[i] \in ToSet(new)
    BY <1>5 DEF ToSet
  <2> QED BY <1>2, <1>4, <2>1
<1>8. IsEntries(new, max + 1)
  BY <1>2, <1>4, <1>5, <1>6, <1>7 DEF IsEntries
<1> QED BY <1>0, <1>3, <1>4, <1>6, <1>8

(* insert_entry and insert_separator: the entry is added, or the page is   *)
(* full or has the key.                                                    *)
LEMMA PutEntries ==
  ASSUME NEW es, NEW max \in Nat, IsEntries(es, max), NEW e, e.key \in Nat
  PROVE  /\ IsEntries(PutEntry(es, max, e).entries, max)
         /\ Len(es) < max /\ ~Search(es, e.key).found =>
              PutEntry(es, max, e).err = "" /\ PutEntry(es, max, e).entries = Merged(es, e)
         /\ ~(Len(es) < max /\ ~Search(es, e.key).found) =>
              PutEntry(es, max, e).err # "" /\ PutEntry(es, max, e).entries = es
<1>1. Len(es) \in Nat
  BY EntriesShape
<1>p. PutEntry(es, max, e) = IF Len(es) >= max THEN [err |-> "PageFull", entries |-> es]
                        ELSE IF Search(es, e.key).found THEN [err |-> "DuplicateKey", entries |-> es]
                        ELSE [err |-> "", entries |-> Merged(es, e)]
  BY DEF PutEntry, Merged
<1>q. Len(es) >= max <=> ~(Len(es) < max)
  BY <1>1
<1>2. CASE ~(Len(es) < max)
  <2>1. PutEntry(es, max, e) = [err |-> "PageFull", entries |-> es]
    BY <1>p, <1>q, <1>2
  <2> QED BY <1>2, <2>1
<1>3. CASE Len(es) < max /\ Search(es, e.key).found
  <2>1. PutEntry(es, max, e) = [err |-> "DuplicateKey", entries |-> es]
    BY <1>p, <1>q, <1>3
  <2> QED BY <1>3, <2>1
<1>4. CASE Len(es) < max /\ ~Search(es, e.key).found
  <2>1. PutEntry(es, max, e) = [err |-> "", entries |-> Merged(es, e)]
    BY <1>p, <1>q, <1>4
  <2>2. PutEntry(es, max, e).err = "" /\ PutEntry(es, max, e).entries = Merged(es, e)
    BY <2>1, PutDone
  <2>3. IsEntries(Merged(es, e), max + 1) /\ Len(Merged(es, e)) = Len(es) + 1
    BY <1>4, MergedEntries
  <2>4. IsEntries(Merged(es, e), max)
    BY <1>1, <1>4, <2>3 DEF IsEntries
  <2> QED BY <1>4, <2>2, <2>4
<1> QED BY <1>2, <1>3, <1>4

(* A part of an array. *)
LEMMA SubEntries ==
  ASSUME NEW es, NEW max, IsEntries(es, max), NEW a \in 1..(Len(es) + 1), NEW b \in 0..Len(es), a <= b + 1,
         NEW m \in Nat, b - a + 1 <= m
  PROVE  /\ IsEntries(SubSeq(es, a, b), m)
         /\ Len(SubSeq(es, a, b)) = b - a + 1
         /\ \A i \in 1..(b - a + 1) : SubSeq(es, a, b)[i] = es[a + i - 1]
<1> DEFINE s == SubSeq(es, a, b)
           n == b - a + 1
<1>0. /\ Len(es) \in Nat /\ es \in Seq(ToSet(es))
      /\ \A i \in 1..Len(es) : es[i].key \in Nat /\ es[i] \in ToSet(es)
      /\ \A i, j \in 1..Len(es) : i < j => es[i].key < es[j].key
  BY EntriesShape DEF IsEntries
<1>1. /\ n \in Nat /\ \A i \in 1..n : a + i - 1 \in 1..Len(es)
      /\ \A i \in 1..(n - 1) : i \in 1..n /\ i + 1 \in 1..n /\ a + i - 1 < a + (i + 1) - 1
  BY <1>0
<1>2. \A i \in a..b : es[i] \in ToSet(es)
  BY <1>0
<1>3. s \in Seq(ToSet(es)) /\ Len(s) = n /\ \A i \in 1..n : s[i] = es[a + i - 1]
  <2>0. a \in Int /\ b \in Int
    BY <1>0
  <2>1. /\ s \in Seq(ToSet(es))
        /\ Len(s) = (IF a <= b THEN b - a + 1 ELSE 0)
        /\ \A i \in 1..(b - a + 1) : s[i] = es[a + i - 1]
    BY <1>0, <1>2, <2>0, SubSeqProperties
  <2>2. (IF a <= b THEN b - a + 1 ELSE 0) = n
    BY <1>0
  <2> QED BY <2>1, <2>2
<1> HIDE DEF s
<1>4. s \in Seq(ToSet(s))
  BY <1>3, OwnSet
<1>5. \A i \in 1..n : s[i].key \in Nat
  <2> HIDE DEF n
  <2> QED BY <1>0, <1>1, <1>3
<1>6. \A i \in 1..(n - 1) : s[i].key < s[i + 1].key
  <2> HIDE DEF n
  <2> SUFFICES ASSUME NEW i \in 1..(n - 1) PROVE s[i].key < s[i + 1].key
    OBVIOUS
  <2>1. s[i] = es[a + i - 1] /\ s[i + 1] = es[a + (i + 1) - 1]
    BY <1>1, <1>3
  <2>2. a + i - 1 \in 1..Len(es) /\ a + (i + 1) - 1 \in 1..Len(es)
    BY <1>1
  <2> QED BY <1>0, <1>1, <2>1, <2>2
<1>7. IsEntries(s, m)
  BY <1>1, <1>3, <1>4, <1>5, <1>6 DEF IsEntries, Sorted, Ascending
<1> QED BY <1>3, <1>7 DEF s

(* delete_entry and delete_separator at a position. *)
LEMMA TakeEntries ==
  ASSUME NEW es, NEW max \in Nat, IsEntries(es, max), NEW pos \in 0..(Len(es) - 1)
  PROVE  /\ IsEntries(Take(es, pos).entries, max)
         /\ Len(Take(es, pos).entries) = Len(es) - 1
         /\ \A i \in 1..(Len(es) - 1) : Take(es, pos).entries[i] = IF i <= pos THEN es[i] ELSE es[i + 1]
<1> DEFINE n == Len(es)
           a == SubSeq(es, 1, pos)
           lo == pos + 2
           b == SubSeq(es, lo, n)
           s == a \o b
<1>0. /\ n \in Nat /\ n <= max /\ es \in Seq(ToSet(es))
      /\ \A i \in 1..n : es[i].key \in Nat /\ es[i] \in ToSet(es)
      /\ \A i, j \in 1..n : i < j => es[i].key < es[j].key
  BY EntriesShape DEF IsEntries
<1>1. Take(es, pos).entries = s
  <2>1. ~(pos >= n) /\ (pos + 1) - 1 = pos /\ (pos + 1) + 1 = pos + 2
    BY <1>0
  <2>2. Take(es, pos) = [err |-> "", entries |-> RemoveAt(es, pos + 1)]
    BY <2>1 DEF Take
  <2>3. RemoveAt(es, pos + 1) = s
    BY <2>1 DEF RemoveAt
  <2> HIDE DEF s
  <2> QED BY <2>2, <2>3, PutDone
<1>2. /\ IsEntries(a, max) /\ Len(a) = pos /\ \A i \in 1..pos : a[i] = es[i]
  <2>1. /\ 1 \in 1..(n + 1) /\ pos \in 0..n /\ 1 <= pos + 1 /\ pos - 1 + 1 <= max /\ pos - 1 + 1 = pos
        /\ \A i \in 1..pos : 1 + i - 1 = i
    BY <1>0
  <2>2. IsEntries(a, max) /\ Len(a) = pos - 1 + 1 /\ \A i \in 1..(pos - 1 + 1) : a[i] = es[1 + i - 1]
    BY <2>1, SubEntries
  <2> QED BY <2>1, <2>2
<1>3. /\ IsEntries(b, max) /\ Len(b) = n - 1 - pos /\ \A i \in 1..(n - 1 - pos) : b[i] = es[pos + 1 + i]
  <2>1. /\ lo \in 1..(n + 1) /\ n \in 0..n /\ lo <= n + 1 /\ n - lo + 1 <= max
        /\ n - lo + 1 = n - 1 - pos
        /\ \A i \in 1..(n - 1 - pos) : lo + i - 1 = pos + 1 + i
    BY <1>0
  <2> HIDE DEF lo
  <2>2. /\ IsEntries(b, max) /\ Len(b) = n - lo + 1
        /\ \A i \in 1..(n - lo + 1) : b[i] = es[lo + i - 1]
    BY <2>1, SubEntries
  <2> QED BY <2>1, <2>2
<1> HIDE DEF a, b
<1>4. a \in Seq(ToSet(es)) /\ b \in Seq(ToSet(es))
  <2>1. 1 \in Int /\ pos \in Int /\ lo \in Int /\ n \in Int
    BY <1>0
  <2>2. (\A i \in 1..pos : es[i] \in ToSet(es)) /\ (\A i \in lo..n : es[i] \in ToSet(es))
    BY <1>0
  <2>3. a \in Seq(ToSet(es))
    BY <1>0, <2>1, <2>2, SubSeqProperties DEF a
  <2>4. b \in Seq(ToSet(es))
    BY <1>0, <2>1, <2>2, SubSeqProperties DEF b
  <2> QED BY <2>3, <2>4
<1>5. /\ s \in Seq(ToSet(es)) /\ Len(s) = Len(a) + Len(b)
      /\ \A i \in 1..(Len(a) + Len(b)) : s[i] = IF i <= Len(a) THEN a[i] ELSE b[i - Len(a)]
  BY <1>4, ConcatProperties
<1> HIDE DEF s
<1>6. Len(s) = n - 1
  BY <1>0, <1>2, <1>3, <1>5
<1>7. \A i \in 1..(n - 1) : s[i] = IF i <= pos THEN es[i] ELSE es[i + 1]
  <2> SUFFICES ASSUME NEW i \in 1..(n - 1) PROVE s[i] = IF i <= pos THEN es[i] ELSE es[i + 1]
    OBVIOUS
  <2>0. i \in 1..(Len(a) + Len(b))
    BY <1>0, <1>5, <1>6
  <2>1. s[i] = IF i <= pos THEN a[i] ELSE b[i - pos]
    BY <1>2, <1>5, <2>0
  <2>2. CASE i <= pos
    BY <1>2, <2>1, <2>2
  <2>3. CASE ~(i <= pos)
    <3>1. i - pos \in 1..(n - 1 - pos) /\ pos + 1 + (i - pos) = i + 1
      BY <1>0, <2>3
    <3> QED BY <1>3, <2>1, <2>3, <3>1
  <2> QED BY <2>2, <2>3
<1>8. \A i \in 1..(n - 1) : s[i].key \in Nat
  BY <1>0, <1>7
<1>9. \A i \in 1..((n - 1) - 1) : s[i].key < s[i + 1].key
  <2> SUFFICES ASSUME NEW i \in 1..((n - 1) - 1) PROVE s[i].key < s[i + 1].key
    OBVIOUS
  <2>1. i \in 1..(n - 1) /\ i + 1 \in 1..(n - 1) /\ i \in 1..n /\ i + 1 \in 1..n /\ i + 1 + 1 \in 1..n
    BY <1>0
  <2>2. s[i] = (IF i <= pos THEN es[i] ELSE es[i + 1]) /\ s[i + 1] = (IF i + 1 <= pos THEN es[i + 1] ELSE es[i + 1 + 1])
    BY <1>7, <2>1
  <2> QED BY <1>0, <2>1, <2>2
<1>10. IsEntries(s, max)
  <2>1. s \in Seq(ToSet(s))
    BY <1>5, OwnSet
  <2> QED BY <1>0, <1>6, <1>8, <1>9, <2>1 DEF IsEntries, Sorted, Ascending
<1> QED BY <1>1, <1>6, <1>7, <1>10

(* The entry at the position, and no other, is gone. *)
LEMMA TakenSet ==
  ASSUME NEW es, NEW max \in Nat, IsEntries(es, max), NEW pos \in 0..(Len(es) - 1)
  PROVE  ToSet(Take(es, pos).entries) = {e \in ToSet(es) : e.key # es[pos + 1].key}
<1> DEFINE n == Len(es)
           s == Take(es, pos).entries
<1>0. /\ n \in Nat /\ pos + 1 \in 1..n
      /\ \A e : e \in ToSet(es) <=> \E i \in 1..n : es[i] = e
      /\ \A i, j \in 1..n : es[i].key = es[j].key => i = j
  BY EntriesShape, EntriesDistinct
<1>1. /\ IsEntries(s, max) /\ Len(s) = n - 1
      /\ \A i \in 1..(n - 1) : s[i] = IF i <= pos THEN es[i] ELSE es[i + 1]
  BY TakeEntries
<1> HIDE DEF s
<1>2. \A e : e \in ToSet(s) <=> \E i \in 1..(n - 1) : s[i] = e
  BY <1>1, EntriesShape
<1>3. ASSUME NEW e \in ToSet(s) PROVE e \in ToSet(es) /\ e.key # es[pos + 1].key
  <2>1. PICK i \in 1..(n - 1) : s[i] = e
    BY <1>2, <1>3
  <2>2. CASE i <= pos
    BY <1>0, <1>1, <2>1, <2>2
  <2>3. CASE ~(i <= pos)
    BY <1>0, <1>1, <2>1, <2>3
  <2> QED BY <2>2, <2>3
<1>4. ASSUME NEW e \in ToSet(es), e.key # es[pos + 1].key PROVE e \in ToSet(s)
  <2>1. PICK j \in 1..n : es[j] = e
    BY <1>0, <1>4
  <2>2. j # pos + 1
    BY <1>4, <2>1
  <2>3. CASE j <= pos
    <3>1. j \in 1..(n - 1) /\ s[j] = es[j]
      BY <1>0, <1>1, <2>3
    <3> QED BY <1>2, <2>1, <3>1
  <2>4. CASE ~(j <= pos)
    <3>1. j - 1 \in 1..(n - 1) /\ ~(j - 1 <= pos) /\ j - 1 + 1 = j
      BY <1>0, <2>2, <2>4
    <3>2. s[j - 1] = es[j]
      BY <1>1, <3>1
    <3> QED BY <1>2, <2>1, <3>1, <3>2
  <2> QED BY <2>3, <2>4
<1> QED BY <1>3, <1>4 DEF s

-----------------------------------------------------------------------------
(* Inner pages and their subtrees *)

(* The subtrees of an inner page, the leftmost one at 0. *)
Slot(pg, i) == IF i = 0 THEN pg.leftmost ELSE pg.entries[i].child

Children(pg) == {Slot(pg, i) : i \in 0..Len(pg.entries)}

(* The key k belongs to subtree i of the page. *)
Covers(pg, i, k) ==
  /\ i > 0 => pg.entries[i].key <= k
  /\ \A j \in (i + 1)..Len(pg.entries) : k < pg.entries[j].key

(* find_child takes the subtree of the key. *)
LEMMA FindChild ==
  ASSUME NEW pg, NEW max, IsEntries(pg.entries, max), NEW k \in Int
  PROVE  \E i \in 0..Len(pg.entries) : find_child(pg, k) = Slot(pg, i) /\ Covers(pg, i, k)
<1> DEFINE es == pg.entries
<1>0. /\ Len(es) \in Nat /\ Sorted(es)
      /\ \A i \in 1..Len(es) : es[i].key \in Nat
      /\ \A i, j \in 1..Len(es) : i < j => es[i].key < es[j].key
  BY EntriesShape DEF IsEntries
<1>1. CASE Len(es) = 0 \/ k < es[1].key
  <2>1. find_child(pg, k) = Slot(pg, 0) /\ 0 \in 0..Len(es)
    BY <1>0, <1>1 DEF find_child, Slot
  <2>2. ASSUME NEW j \in (0 + 1)..Len(es) PROVE k < es[j].key
    <3>1. Len(es) > 0 /\ k < es[1].key /\ 1 \in 1..Len(es) /\ j \in 1..Len(es)
      BY <1>0, <1>1, <2>2
    <3>2. CASE j = 1
      BY <3>1, <3>2
    <3>3. CASE 1 < j
      <4>1. es[1].key < es[j].key /\ es[1].key \in Int /\ es[j].key \in Int
        BY <1>0, <3>1, <3>3
      <4> QED BY <3>1, <4>1
    <3> QED BY <3>1, <3>2, <3>3
  <2>3. Covers(pg, 0, k)
    BY <2>2 DEF Covers
  <2> QED BY <2>1, <2>3
<1>2. CASE ~(Len(es) = 0 \/ k < es[1].key)
  <2> DEFINE pos == SearchFloor(es, k)
             i == pos + 1
  <2>1. Len(es) > 0 /\ 1 \in 1..Len(es)
    BY <1>0, <1>2
  <2>2. es[1].key <= k
    BY <1>0, <1>2, <2>1
  <2>3. IsFloor(es, k, pos)
    BY <1>0, <2>1, <2>2, FloorIsExact
  <2>4. find_child(pg, k) = es[i].child
    BY <1>2 DEF find_child
  <2> HIDE DEF pos
  <2>5. i \in 0..Len(es) /\ i > 0 /\ i # 0
    BY <1>0, <2>3 DEF IsFloor
  <2>6. find_child(pg, k) = Slot(pg, i)
    BY <2>4, <2>5 DEF Slot
  <2>7. es[i].key <= k /\ \A j \in (i + 1)..Len(es) : k < es[j].key
    <3>1. \A j \in (i + 1)..Len(es) : j \in (pos + 2)..Len(es)
      BY <1>0, <2>3 DEF IsFloor
    <3> QED BY <2>3, <3>1 DEF IsFloor
  <2>8. Covers(pg, i, k)
    BY <2>7 DEF Covers
  <2> QED BY <2>5, <2>6, <2>8
<1> QED BY <1>1, <1>2

LEMMA FindChildIn ==
  ASSUME NEW pg, NEW max, IsEntries(pg.entries, max), NEW k \in Int
  PROVE  find_child(pg, k) \in Children(pg)
BY FindChild DEF Children

(* The number of a key is natural. *)
LEMMA KeyIsNat ==
  ASSUME NEW bytes \in Bytes
  PROVE  key_from_bytes(bytes) \in Nat
<1> DEFINE W == KeyWidth
           digit(i) == IF i <= Len(bytes) THEN bytes[i] ELSE 0
           Val(f) == f = [i \in 0..W |-> IF i = W THEN 0 ELSE digit(i + 1) + ByteBase * f[i + 1]]
           value == CHOOSE f : Val(f)
           F == [n \in 1..W |-> [x \in Nat |-> digit(W - n + 1) + ByteBase * x]]
<1>0. W \in Nat /\ W > 0 /\ ByteBase \in Nat /\ ByteBase > 0
  BY IndexAssumption
<1>1. \A i \in Nat \ {0} : digit(i) \in Nat
  <2> SUFFICES ASSUME NEW i \in Nat \ {0} PROVE digit(i) \in Nat
    OBVIOUS
  <2>1. bytes \in Seq(0..(ByteBase - 1))
    BY DEF Bytes
  <2>2. Len(bytes) \in Nat /\ \A j \in 1..Len(bytes) : bytes[j] \in 0..(ByteBase - 1)
    BY <2>1, LenProperties, ElementOfSeq
  <2>3. i <= Len(bytes) => i \in 1..Len(bytes)
    BY <2>2
  <2> QED BY <1>0, <2>2, <2>3
<1> HIDE DEF digit
<1>2. \A x \in Nat : ByteBase * x \in Nat
  BY <1>0
<1>3. F \in [1..W -> [Nat -> Nat]]
  <2> SUFFICES ASSUME NEW n \in 1..W, NEW x \in Nat PROVE digit(W - n + 1) + ByteBase * x \in Nat
    OBVIOUS
  <2>1. W - n + 1 \in Nat \ {0}
    BY <1>0
  <2>2. digit(W - n + 1) \in Nat /\ ByteBase * x \in Nat
    BY <1>1, <1>2, <2>1
  <2> QED BY <2>2
<1>4. \E f : Val(f)
  <2>1. PICK g \in [0..W -> Nat] : IsLoop(g, 0, W, F)
    <3> HIDE DEF F
    <3> QED BY <1>0, <1>3, LoopExists
  <2> DEFINE f == [i \in 0..W |-> g[W - i]]
  <2>2. g[0] = 0 /\ \A n \in 1..W : g[n] = digit(W - n + 1) + ByteBase * g[n - 1]
    <3>1. g[0] = 0 /\ \A n \in 1..W : g[n] = F[n][g[n - 1]]
      BY <2>1 DEF IsLoop
    <3>2. \A n \in 1..W : g[n - 1] \in Nat
      BY <1>0
    <3> QED BY <3>1, <3>2
  <2>3. ASSUME NEW i \in 0..W PROVE f[i] = IF i = W THEN 0 ELSE digit(i + 1) + ByteBase * f[i + 1]
    <3>1. CASE i = W
      BY <1>0, <2>2, <3>1
    <3>2. CASE i # W
      <4>1. W - i \in 1..W /\ W - (W - i) + 1 = i + 1 /\ (W - i) - 1 = W - (i + 1) /\ i + 1 \in 0..W
        BY <1>0, <3>2
      <4>2. g[W - i] = digit(i + 1) + ByteBase * g[W - (i + 1)]
        BY <2>2, <4>1
      <4>3. f[i] = g[W - i] /\ f[i + 1] = g[W - (i + 1)]
        BY <4>1
      <4> QED BY <3>2, <4>2, <4>3
    <3> QED BY <3>1, <3>2
  <2>4. Val(f)
    <3>1. f = [i \in 0..W |-> f[i]]
      OBVIOUS
    <3> HIDE DEF f
    <3> QED BY <2>3, <3>1
  <2> QED BY <2>4
<1>5. Val(value)
  BY <1>4, Zenon
<1>6. key_from_bytes(bytes) = value[0]
  BY Zenon DEF key_from_bytes, digit
<1> HIDE DEF value
<1>7. value[W] = 0 /\ \A i \in 0..(W - 1) : value[i] = digit(i + 1) + ByteBase * value[i + 1]
  <2>1. \A i \in 0..W : value[i] = IF i = W THEN 0 ELSE digit(i + 1) + ByteBase * value[i + 1]
    <3>1. ASSUME NEW i \in 0..W PROVE [j \in 0..W |-> IF j = W THEN 0 ELSE digit(j + 1) + ByteBase * value[j + 1]][i] = IF i = W THEN 0 ELSE digit(i + 1) + ByteBase * value[i + 1]
      OBVIOUS
    <3> QED BY <1>5, <3>1, Zenon
  <2>2. W \in 0..W /\ \A i \in 0..(W - 1) : i \in 0..W /\ i # W
    BY <1>0
  <2> QED BY <2>1, <2>2
<1> DEFINE S == {m \in Nat : m <= W => value[W - m] \in Nat}
<1>8. 0 \in S
  BY <1>0, <1>7
<1>9. ASSUME NEW m \in Nat, m \in S PROVE m + 1 \in S
  <2> SUFFICES ASSUME m + 1 <= W PROVE value[W - (m + 1)] \in Nat
    OBVIOUS
  <2> DEFINE i == W - (m + 1)
  <2>1. i \in 0..(W - 1) /\ i + 1 = W - m /\ i + 1 \in Nat \ {0} /\ m <= W
    BY <1>0
  <2>2. value[i + 1] \in Nat
    BY <1>9, <2>1
  <2> HIDE DEF i
  <2>3. digit(i + 1) \in Nat /\ ByteBase * value[i + 1] \in Nat
    BY <1>1, <1>2, <2>1, <2>2
  <2>4. value[i] \in Nat
    BY <1>7, <2>1, <2>3
  <2> QED BY <2>4 DEF i
<1>10. W \in S
  <2> HIDE DEF S
  <2> QED BY <1>0, <1>8, <1>9, SetInduction
<1> QED BY <1>0, <1>6, <1>10

(* Sequences of any elements *)

IsSeq(s) == s \in Seq(ToSet(s))

LEMMA SeqShape ==
  ASSUME NEW s, IsSeq(s)
  PROVE  Len(s) \in Nat /\ DOMAIN s = 1..Len(s) /\ \A i \in 1..Len(s) : s[i] \in ToSet(s)
<1>1. Len(s) \in Nat /\ DOMAIN s = 1..Len(s)
  BY LenProperties DEF IsSeq
<1> QED BY <1>1 DEF ToSet

(* t is s with x at place p, with x after it, with both. *)
IsPut(t, s, p, x) ==
  /\ IsSeq(t) /\ Len(t) = Len(s)
  /\ \A i \in 1..Len(s) : t[i] = IF i = p THEN x ELSE s[i]

IsAdd(t, s, x) ==
  /\ IsSeq(t) /\ Len(t) = Len(s) + 1
  /\ \A i \in 1..Len(s) : t[i] = s[i]
  /\ t[Len(s) + 1] = x

IsSplit(t, s, p, x, y) ==
  /\ IsSeq(t) /\ Len(t) = Len(s) + 1
  /\ \A i \in 1..Len(s) : t[i] = IF i = p THEN x ELSE s[i]
  /\ t[Len(s) + 1] = y

LEMMA SeqPut ==
  ASSUME NEW s, IsSeq(s), NEW p \in 1..Len(s), NEW x
  PROVE  IsPut([s EXCEPT ![p] = x], s, p, x)
<1> DEFINE E == ToSet(s) \cup {x}
           t == [s EXCEPT ![p] = x]
<1>1. s \in Seq(E)
  BY SeqMonotonic DEF IsSeq
<1>2. t \in Seq(E) /\ Len(t) = Len(s)
  <2>1. x \in E
    OBVIOUS
  <2> HIDE DEF E
  <2> QED BY <1>1, <2>1, ExceptSeq
<1>3. DOMAIN s = 1..Len(s)
  BY SeqShape
<1>4. \A i \in 1..Len(s) : t[i] = IF i = p THEN x ELSE s[i]
  BY <1>3
<1> HIDE DEF t
<1>5. IsSeq(t)
  BY <1>2, OwnSet DEF IsSeq
<1>6. IsPut(t, s, p, x)
  BY <1>2, <1>4, <1>5 DEF IsPut
<1> QED BY <1>6 DEF t

LEMMA SeqAdd ==
  ASSUME NEW s, IsSeq(s), NEW x
  PROVE  IsAdd(Append(s, x), s, x)
<1> DEFINE E == ToSet(s) \cup {x}
           t == Append(s, x)
<1>1. s \in Seq(E)
  BY SeqMonotonic DEF IsSeq
<1>2. t \in Seq(E) /\ Len(t) = Len(s) + 1 /\ (\A i \in 1..Len(s) : t[i] = s[i]) /\ t[Len(s) + 1] = x
  <2>1. x \in E
    OBVIOUS
  <2> HIDE DEF E
  <2> QED BY <1>1, <2>1, AppendProperties
<1> HIDE DEF t
<1>5. IsSeq(t)
  BY <1>2, OwnSet DEF IsSeq
<1>6. IsAdd(t, s, x)
  BY <1>2, <1>5 DEF IsAdd
<1> QED BY <1>6 DEF t

LEMMA SeqSplit ==
  ASSUME NEW s, IsSeq(s), NEW p \in 1..Len(s), NEW x, NEW y
  PROVE  IsSplit(Append([s EXCEPT ![p] = x], y), s, p, x, y)
<1> DEFINE put == [s EXCEPT ![p] = x]
           new == Append(put, y)
<1>1. IsPut(put, s, p, x)
  BY SeqPut
<1> HIDE DEF put
<1>2. IsAdd(new, put, y)
  BY <1>1, SeqAdd DEF IsPut
<1> HIDE DEF new
<1>3. IsSplit(new, s, p, x, y)
  BY <1>1, <1>2 DEF IsPut, IsAdd, IsSplit
<1> QED BY <1>3 DEF new, put

LEMMA SeqAddSet ==
  ASSUME NEW s, IsSeq(s), NEW x
  PROVE  ToSet(Append(s, x)) = ToSet(s) \cup {x}
<1> DEFINE t == Append(s, x)
<1>0. IsAdd(t, s, x)
  BY SeqAdd
<1> HIDE DEF t
<1>1. IsSeq(t) /\ Len(t) = Len(s) + 1 /\ (\A i \in 1..Len(s) : t[i] = s[i]) /\ t[Len(s) + 1] = x
  BY <1>0 DEF IsAdd
<1>2. Len(s) \in Nat /\ DOMAIN s = 1..Len(s) /\ DOMAIN t = 1..(Len(s) + 1)
  BY <1>1, SeqShape
<1>3. \A i \in 1..(Len(s) + 1) : i = Len(s) + 1 \/ i \in 1..Len(s)
  BY <1>2
<1>4. \A i \in 1..Len(s) : i \in 1..(Len(s) + 1)
  BY <1>2
<1>5. Len(s) + 1 \in 1..(Len(s) + 1)
  BY <1>2
<1>6. ToSet(t) \subseteq ToSet(s) \cup {x}
  BY <1>1, <1>2, <1>3 DEF ToSet
<1>7. ToSet(s) \subseteq ToSet(t)
  BY <1>1, <1>2, <1>4 DEF ToSet
<1>8. x \in ToSet(t)
  BY <1>1, <1>2, <1>5 DEF ToSet
<1> QED BY <1>6, <1>7, <1>8 DEF t

LEMMA SeqFront ==
  ASSUME NEW s, IsSeq(s), s # <<>>
  PROVE  /\ Len(s) > 0 /\ Last(s) = s[Len(s)] /\ Last(s) \in ToSet(s)
         /\ IsSeq(Front(s)) /\ Len(Front(s)) = Len(s) - 1
         /\ \A i \in 1..(Len(s) - 1) : Front(s)[i] = s[i]
         /\ ToSet(Front(s)) \subseteq ToSet(s)
<1> DEFINE n == Len(s)
           t == Front(s)
<1>1. n \in Nat /\ DOMAIN s = 1..n /\ \A i \in 1..n : s[i] \in ToSet(s)
  BY SeqShape
<1>2. n > 0
  <2>1. s \in Seq(ToSet(s))
    BY DEF IsSeq
  <2>2. n # 0
    BY <2>1, EmptySeq
  <2> QED BY <1>1, <2>2
<1>3. Last(s) = s[n] /\ n \in 1..n
  BY <1>1, <1>2 DEF Last
<1>4. t = SubSeq(s, 1, n - 1)
  BY DEF Front
<1> DEFINE m == n - 1
<1>5. /\ 1 \in Int /\ m \in Nat /\ m - 1 + 1 = m
      /\ \A i \in 1..m : i \in 1..n /\ 1 + i - 1 = i
      /\ (IF 1 <= m THEN m - 1 + 1 ELSE 0) = m
  BY <1>1, <1>2
<1> HIDE DEF t, n, m
<1>a. \A i \in 1..m : s[i] \in ToSet(s)
  BY <1>1, <1>5
<1>6. /\ t \in Seq(ToSet(s))
      /\ Len(t) = (IF 1 <= m THEN m - 1 + 1 ELSE 0)
      /\ \A i \in 1..(m - 1 + 1) : t[i] = s[1 + i - 1]
  <2>1. t = SubSeq(s, 1, m) /\ m \in Int
    BY <1>4, <1>5 DEF m
  <2> QED BY <1>5, <1>a, <2>1, SubSeqProperties
<1>7. Len(t) = m /\ \A i \in 1..m : t[i] = s[i]
  BY <1>5, <1>6
<1>8. IsSeq(t)
  BY <1>6, OwnSet DEF IsSeq
<1>9. ToSet(t) \subseteq ToSet(s)
  <2>1. DOMAIN t = 1..m
    BY <1>7, <1>8, SeqShape
  <2>2. \A i \in 1..m : t[i] \in ToSet(s)
    BY <1>a, <1>7
  <2> QED BY <2>1, <2>2 DEF ToSet
<1> QED BY <1>1, <1>2, <1>3, <1>7, <1>8, <1>9 DEF n, t, m

LEMMA EmptyIsSeq == IsSeq(<<>>) /\ ToSet(<<>>) = {} /\ Len(<<>>) = 0 /\ <<>> = <<>>
BY EmptyEntries, EmptySeq DEF IsSeq, IsEntries

(* The pages that the accessor builds. *)
IsLeaf(pg) ==
  /\ pg = LeafPage(pg.entries, pg.prev, pg.next)
  /\ IsEntries(pg.entries, LeafMax)
  /\ \A e \in ToSet(pg.entries) : e = LeafEntry(e.key, e.rid)

IsInner(pg) ==
  /\ pg = InnerPage(pg.entries, pg.leftmost)
  /\ IsEntries(pg.entries, InnerMax)

LEMMA LeafParts ==
  ASSUME NEW es, NEW prev, NEW next
  PROVE  /\ LeafPage(es, prev, next).kind = "leaf"
         /\ LeafPage(es, prev, next).entries = es
         /\ LeafPage(es, prev, next).prev = prev
         /\ LeafPage(es, prev, next).next = next
BY DEF LeafPage

LEMMA LeafLinks ==
  ASSUME NEW pg, NEW es, NEW prev, NEW next, pg = LeafPage(es, prev, next)
  PROVE  pg.kind = "leaf" /\ pg.entries = es /\ pg.prev = prev /\ pg.next = next
BY DEF LeafPage

LEMMA InnerParts ==
  ASSUME NEW es, NEW leftmost
  PROVE  /\ InnerPage(es, leftmost).kind = "inner"
         /\ InnerPage(es, leftmost).entries = es
         /\ InnerPage(es, leftmost).leftmost = leftmost
BY DEF InnerPage

LEMMA KindLeaf == ASSUME NEW pg, IsLeaf(pg) PROVE pg.kind = "leaf"
BY LeafParts DEF IsLeaf

LEMMA KindInner == ASSUME NEW pg, IsInner(pg) PROVE pg.kind = "inner"
BY InnerParts DEF IsInner

LEMMA BuiltLeaf ==
  ASSUME NEW es, NEW prev, NEW next, IsEntries(es, LeafMax),
         \A e \in ToSet(es) : e = LeafEntry(e.key, e.rid)
  PROVE  IsLeaf(LeafPage(es, prev, next))
<1> DEFINE pg == LeafPage(es, prev, next)
<1>1. pg.entries = es /\ pg.prev = prev /\ pg.next = next
  BY LeafParts
<1>2. pg = LeafPage(pg.entries, pg.prev, pg.next)
  BY <1>1
<1> HIDE DEF pg
<1>3. IsLeaf(pg)
  BY <1>1, <1>2 DEF IsLeaf
<1> QED BY <1>3 DEF pg

LEMMA BuiltInner ==
  ASSUME NEW es, NEW leftmost, IsEntries(es, InnerMax)
  PROVE  IsInner(InnerPage(es, leftmost))
<1> DEFINE pg == InnerPage(es, leftmost)
<1>1. pg.entries = es /\ pg.leftmost = leftmost
  BY InnerParts
<1>2. pg = InnerPage(pg.entries, pg.leftmost)
  BY <1>1
<1> HIDE DEF pg
<1>3. IsInner(pg)
  BY <1>1, <1>2 DEF IsInner
<1> QED BY <1>3 DEF pg

LEMMA LeafRefilled ==
  ASSUME NEW pg, IsLeaf(pg), NEW es
  PROVE  [pg EXCEPT !.entries = es] = LeafPage(es, pg.prev, pg.next)
BY DEF IsLeaf, LeafPage

LEMMA InnerRefilled ==
  ASSUME NEW pg, IsInner(pg), NEW es
  PROVE  [pg EXCEPT !.entries = es] = InnerPage(es, pg.leftmost)
BY DEF IsInner, InnerPage

LEMMA EntryParts ==
  ASSUME NEW k, NEW x
  PROVE  /\ LeafEntry(k, x).key = k /\ LeafEntry(k, x).rid = x
         /\ InnerEntry(k, x).key = k /\ InnerEntry(k, x).child = x
BY DEF LeafEntry, InnerEntry

LEMMA InitLeaf == IsLeaf(init_leaf) /\ init_leaf = LeafPage(<<>>, 0, 0)
<1>1. IsEntries(<<>>, LeafMax) /\ ToSet(<<>>) = {}
  BY EmptyEntries, BTreePageAssumption
<1>2. IsLeaf(LeafPage(<<>>, 0, 0))
  BY <1>1, BuiltLeaf
<1> QED BY <1>2 DEF init_leaf

LEMMA InitInner ==
  ASSUME NEW c
  PROVE  IsInner(init_inner(c)) /\ init_inner(c) = InnerPage(<<>>, c)
<1>1. IsEntries(<<>>, InnerMax)
  BY EmptyEntries, BTreePageAssumption
<1>2. IsInner(InnerPage(<<>>, c))
  BY <1>1, BuiltInner
<1> QED BY <1>2 DEF init_inner

(* insert_entry *)
LEMMA LeafInserted ==
  ASSUME NEW pg, IsLeaf(pg), NEW k \in Nat, NEW rid
  PROVE  LET ins  == insert_entry(pg, k, rid)
             room == Len(pg.entries) < LeafMax /\ ~find_slot(pg, k).found
         IN  /\ ins.page = LeafPage(ins.page.entries, pg.prev, pg.next)
             /\ IsLeaf(ins.page)
             /\ room => /\ ins.err = "" /\ ins.page.entries = Merged(pg.entries, LeafEntry(k, rid))
                        /\ ToSet(ins.page.entries) = ToSet(pg.entries) \cup {LeafEntry(k, rid)}
             /\ ~room => ins.err # "" /\ ins.page = pg
<1> DEFINE e == LeafEntry(k, rid)
           put == PutEntry(pg.entries, LeafMax, e)
           ins == insert_entry(pg, k, rid)
           room == Len(pg.entries) < LeafMax /\ ~find_slot(pg, k).found
<1>1. e.key = k /\ e = LeafEntry(e.key, e.rid)
  BY EntryParts
<1>2. IsEntries(pg.entries, LeafMax) /\ (\A x \in ToSet(pg.entries) : x = LeafEntry(x.key, x.rid)) /\ LeafMax \in Nat
  BY BTreePageAssumption DEF IsLeaf
<1>3. ins = [err |-> put.err, page |-> [pg EXCEPT !.entries = put.entries]]
  BY DEF insert_entry
<1>4. room <=> Len(pg.entries) < LeafMax /\ ~Search(pg.entries, e.key).found
  BY <1>1 DEF find_slot
<1> HIDE DEF e, room
<1>5. /\ IsEntries(put.entries, LeafMax)
      /\ room => put.err = "" /\ put.entries = Merged(pg.entries, e)
      /\ ~room => put.err # "" /\ put.entries = pg.entries
  BY <1>1, <1>2, <1>4, PutEntries
<1>6. room => ToSet(Merged(pg.entries, e)) = ToSet(pg.entries) \cup {e}
  BY <1>1, <1>2, <1>4, MergedEntries
<1> HIDE DEF put
<1>7. ins.err = put.err /\ ins.page = LeafPage(put.entries, pg.prev, pg.next)
  <2>1. [pg EXCEPT !.entries = put.entries] = LeafPage(put.entries, pg.prev, pg.next)
    BY LeafRefilled
  <2> HIDE DEF ins
  <2> QED BY <1>3, <2>1
<1> HIDE DEF ins
<1>8. ins.page.entries = put.entries
  BY <1>7, LeafParts
<1>9. \A x \in ToSet(put.entries) : x = LeafEntry(x.key, x.rid)
  BY <1>1, <1>2, <1>5, <1>6
<1>10. IsLeaf(ins.page)
  BY <1>5, <1>7, <1>9, BuiltLeaf
<1>11. ~room => ins.page = pg
  <2>1. pg = LeafPage(pg.entries, pg.prev, pg.next)
    BY DEF IsLeaf
  <2> QED BY <1>5, <1>7, <2>1
<1>12. /\ ins.page = LeafPage(ins.page.entries, pg.prev, pg.next)
       /\ IsLeaf(ins.page)
       /\ room => /\ ins.err = "" /\ ins.page.entries = Merged(pg.entries, e)
                  /\ ToSet(ins.page.entries) = ToSet(pg.entries) \cup {e}
       /\ ~room => ins.err # "" /\ ins.page = pg
  BY <1>5, <1>6, <1>7, <1>8, <1>10, <1>11
<1> QED BY <1>12 DEF ins, room, e

(* delete_entry *)
LEMMA LeafDeleted ==
  ASSUME NEW pg, IsLeaf(pg), NEW pos \in 0..(Len(pg.entries) - 1)
  PROVE  LET rest == delete_entry(pg, pos).page
         IN  /\ rest = LeafPage(rest.entries, pg.prev, pg.next)
             /\ IsLeaf(rest)
             /\ rest.entries = Take(pg.entries, pos).entries
             /\ ToSet(rest.entries) = {e \in ToSet(pg.entries) : e.key # pg.entries[pos + 1].key}
<1> DEFINE take == Take(pg.entries, pos)
           rest == delete_entry(pg, pos).page
<1>1. IsEntries(pg.entries, LeafMax) /\ (\A x \in ToSet(pg.entries) : x = LeafEntry(x.key, x.rid)) /\ LeafMax \in Nat
  BY BTreePageAssumption DEF IsLeaf
<1>2. IsEntries(take.entries, LeafMax)
  BY <1>1, TakeEntries
<1>3. ToSet(take.entries) = {e \in ToSet(pg.entries) : e.key # pg.entries[pos + 1].key}
  BY <1>1, TakenSet
<1>4. delete_entry(pg, pos) = [err |-> take.err, page |-> [pg EXCEPT !.entries = take.entries]]
  BY DEF delete_entry
<1> HIDE DEF take
<1>5. rest = [pg EXCEPT !.entries = take.entries]
  BY <1>4
<1> HIDE DEF rest
<1>6. rest = LeafPage(take.entries, pg.prev, pg.next)
  BY <1>5, LeafRefilled
<1>7. rest.entries = take.entries
  BY <1>6, LeafParts
<1>8. IsLeaf(rest)
  BY <1>1, <1>2, <1>3, <1>6, BuiltLeaf
<1> QED BY <1>3, <1>6, <1>7, <1>8 DEF rest, take

(* set_prev_page *)
LEMMA LeafRelinked ==
  ASSUME NEW pg, IsLeaf(pg), NEW p
  PROVE  /\ set_prev_page(pg, p) = LeafPage(pg.entries, p, pg.next)
         /\ IsLeaf(set_prev_page(pg, p))
<1>1. set_prev_page(pg, p) = LeafPage(pg.entries, p, pg.next)
  BY DEF IsLeaf, LeafPage, set_prev_page
<1>2. IsLeaf(LeafPage(pg.entries, p, pg.next))
  BY BuiltLeaf DEF IsLeaf
<1> QED BY <1>1, <1>2

(* insert_separator *)
LEMMA InnerAdded ==
  ASSUME NEW pg, IsInner(pg), NEW sep \in Nat, NEW child
  PROVE  LET ins  == insert_separator(pg, sep, child)
             room == Len(pg.entries) < InnerMax /\ ~find_separator_slot(pg, sep).found
         IN  /\ ins.page = InnerPage(ins.page.entries, pg.leftmost)
             /\ IsInner(ins.page)
             /\ room => ins.err = "" /\ ins.page.entries = Merged(pg.entries, InnerEntry(sep, child))
             /\ ~room => ins.err # "" /\ ins.page = pg
<1> DEFINE e == InnerEntry(sep, child)
           put == PutEntry(pg.entries, InnerMax, e)
           ins == insert_separator(pg, sep, child)
           room == Len(pg.entries) < InnerMax /\ ~find_separator_slot(pg, sep).found
<1>1. e.key = sep
  BY EntryParts
<1>2. IsEntries(pg.entries, InnerMax) /\ InnerMax \in Nat
  BY BTreePageAssumption DEF IsInner
<1>3. ins = [err |-> put.err, page |-> [pg EXCEPT !.entries = put.entries]]
  BY DEF insert_separator
<1>4. room <=> Len(pg.entries) < InnerMax /\ ~Search(pg.entries, e.key).found
  BY <1>1 DEF find_separator_slot
<1> HIDE DEF e, room
<1>5. /\ IsEntries(put.entries, InnerMax)
      /\ room => put.err = "" /\ put.entries = Merged(pg.entries, e)
      /\ ~room => put.err # "" /\ put.entries = pg.entries
  BY <1>1, <1>2, <1>4, PutEntries
<1> HIDE DEF put
<1>7. ins.err = put.err /\ ins.page = InnerPage(put.entries, pg.leftmost)
  <2>1. [pg EXCEPT !.entries = put.entries] = InnerPage(put.entries, pg.leftmost)
    BY InnerRefilled
  <2> HIDE DEF ins
  <2> QED BY <1>3, <2>1
<1> HIDE DEF ins
<1>8. ins.page.entries = put.entries
  BY <1>7, InnerParts
<1>10. IsInner(ins.page)
  BY <1>5, <1>7, BuiltInner
<1>11. ~room => ins.page = pg
  <2>1. pg = InnerPage(pg.entries, pg.leftmost)
    BY DEF IsInner
  <2> QED BY <1>5, <1>7, <2>1
<1>12. /\ ins.page = InnerPage(ins.page.entries, pg.leftmost)
       /\ IsInner(ins.page)
       /\ room => ins.err = "" /\ ins.page.entries = Merged(pg.entries, e)
       /\ ~room => ins.err # "" /\ ins.page = pg
  BY <1>5, <1>7, <1>8, <1>10, <1>11
<1> QED BY <1>12 DEF ins, room, e

(* The array of a full page with one more entry, and where it is divided. *)
LEMMA MergedFull ==
  ASSUME NEW es, NEW max \in Nat, max >= 2, IsEntries(es, max), Len(es) >= max, NEW e, e.key \in Nat,
         ~Search(es, e.key).found
  PROVE  LET all == Merged(es, e)
             mid == Len(all) \div 2
         IN  /\ IsEntries(all, max + 1) /\ Len(all) = max + 1 /\ Len(es) = max
             /\ mid \in 1..(max - 1) /\ all[mid + 1].key \in Nat
             /\ ToSet(all) = ToSet(es) \cup {e}
<1> DEFINE all == Merged(es, e)
           mid == Len(all) \div 2
<1>1. IsEntries(all, max + 1) /\ Len(all) = Len(es) + 1 /\ ToSet(all) = ToSet(es) \cup {e}
  BY MergedEntries
<1>2. Len(es) \in Nat /\ Len(es) = max
  BY EntriesShape DEF IsEntries
<1>3. mid = (max + 1) \div 2 /\ Len(all) = max + 1
  BY <1>1, <1>2
<1>4. mid \in 1..(max - 1)
  <2>1. (max + 1) \div 2 \in 1..(max - 1)
    OBVIOUS
  <2> QED BY <1>3, <2>1
<1> HIDE DEF all, mid
<1>5. all[mid + 1].key \in Nat
  <2>1. mid + 1 \in 1..Len(all)
    BY <1>3, <1>4
  <2> QED BY <1>1, <2>1, EntriesShape
<1> QED BY <1>1, <1>2, <1>3, <1>4, <1>5 DEF all, mid

LEMMA SubSet ==
  ASSUME NEW es, NEW max, IsEntries(es, max), NEW a \in 1..(Len(es) + 1), NEW b \in 0..Len(es), a <= b + 1
  PROVE  ToSet(SubSeq(es, a, b)) = {es[i] : i \in a..b}
<1> DEFINE s == SubSeq(es, a, b)
           n == b - a + 1
<1>0. Len(es) \in Nat
  BY EntriesShape
<1>1. n \in Nat /\ n <= n
  BY <1>0
<1>2. IsEntries(s, n) /\ Len(s) = n /\ \A i \in 1..n : s[i] = es[a + i - 1]
  BY <1>1, SubEntries
<1> HIDE DEF s
<1>3. DOMAIN s = 1..n
  BY <1>2, EntriesShape
<1>4. \A i \in 1..n : a + i - 1 \in a..b
  BY <1>0
<1>5. \A i \in a..b : i - a + 1 \in 1..n /\ a + (i - a + 1) - 1 = i
  BY <1>0
<1> HIDE DEF n
<1>6. ToSet(s) \subseteq {es[i] : i \in a..b}
  BY <1>2, <1>3, <1>4 DEF ToSet
<1>7. ASSUME NEW i \in a..b PROVE es[i] \in ToSet(s)
  <2>1. i - a + 1 \in 1..n /\ s[i - a + 1] = es[i]
    BY <1>2, <1>5
  <2> QED BY <1>3, <2>1 DEF ToSet
<1> QED BY <1>6, <1>7 DEF s

(* A leaf is divided: the halves are leaves that hold all entries. *)
LEMMA LeafHalved ==
  ASSUME NEW pg, IsLeaf(pg), leaf_needs_split(pg), NEW e, e.key \in Nat, e = LeafEntry(e.key, e.rid),
         ~find_slot(pg, e.key).found, NEW num, NEW new
  PROVE  LET es  == Merged(pg.entries, e)
             mid == Len(es) \div 2
             cut == LeafHalves(pg, num, new, e)
         IN  /\ cut.sep = es[mid + 1].key
             /\ cut.old = LeafPage(SubSeq(es, 1, mid), pg.prev, new) /\ IsLeaf(cut.old)
             /\ cut.new = LeafPage(SubSeq(es, mid + 1, Len(es)), num, pg.next) /\ IsLeaf(cut.new)
<1> DEFINE es == Merged(pg.entries, e)
           mid == Len(es) \div 2
           cut == LeafHalves(pg, num, new, e)
           lower == SubSeq(es, 1, mid)
           upper == SubSeq(es, mid + 1, Len(es))
<1>1. IsEntries(pg.entries, LeafMax) /\ (\A x \in ToSet(pg.entries) : x = LeafEntry(x.key, x.rid)) /\ LeafMax \in Nat /\ LeafMax >= 2
  BY BTreePageAssumption DEF IsLeaf
<1>2. Len(pg.entries) >= LeafMax /\ ~Search(pg.entries, e.key).found
  BY DEF leaf_needs_split, find_slot
<1>3. cut = [sep |-> es[mid + 1].key, old |-> LeafPage(lower, pg.prev, new), new |-> LeafPage(upper, num, pg.next)]
  BY DEF LeafHalves
<1>4. /\ IsEntries(es, LeafMax + 1) /\ Len(es) = LeafMax + 1
      /\ mid \in 1..(LeafMax - 1)
      /\ ToSet(es) = ToSet(pg.entries) \cup {e}
  BY <1>1, <1>2, MergedFull
<1> HIDE DEF es, mid
<1>5. \A x \in ToSet(es) : x = LeafEntry(x.key, x.rid)
  BY <1>1, <1>4
<1>6. \A i \in 1..Len(es) : es[i] \in ToSet(es)
  BY <1>4, EntriesShape
<1>7. IsEntries(lower, LeafMax) /\ ToSet(lower) = {es[i] : i \in 1..mid}
  <2>1. 1 \in 1..(Len(es) + 1) /\ mid \in 0..Len(es) /\ 1 <= mid + 1 /\ mid - 1 + 1 <= LeafMax
    BY <1>1, <1>4
  <2>2. IsEntries(lower, LeafMax)
    BY <1>1, <1>4, <2>1, SubEntries
  <2>3. ToSet(lower) = {es[i] : i \in 1..mid}
    BY <1>4, <2>1, SubSet
  <2> QED BY <2>2, <2>3
<1>8. IsEntries(upper, LeafMax) /\ ToSet(upper) = {es[i] : i \in (mid + 1)..Len(es)}
  <2> DEFINE a == mid + 1
             n == Len(es)
  <2>1. a \in 1..(Len(es) + 1) /\ n \in 0..Len(es) /\ a <= n + 1 /\ n - a + 1 <= LeafMax
    BY <1>1, <1>4
  <2> HIDE DEF a, n
  <2>2. IsEntries(SubSeq(es, a, n), LeafMax)
    BY <1>1, <1>4, <2>1, SubEntries
  <2>3. ToSet(SubSeq(es, a, n)) = {es[i] : i \in a..n}
    BY <1>4, <2>1, SubSet
  <2> QED BY <2>2, <2>3 DEF a, n
<1> HIDE DEF lower, upper, cut
<1>9. (\A i \in 1..mid : i \in 1..Len(es)) /\ (\A i \in (mid + 1)..Len(es) : i \in 1..Len(es))
  BY <1>1, <1>4
<1>10. (\A x \in ToSet(lower) : x = LeafEntry(x.key, x.rid)) /\ (\A x \in ToSet(upper) : x = LeafEntry(x.key, x.rid))
  BY <1>5, <1>6, <1>7, <1>8, <1>9
<1>11. IsLeaf(LeafPage(lower, pg.prev, new)) /\ IsLeaf(LeafPage(upper, num, pg.next))
  BY <1>7, <1>8, <1>10, BuiltLeaf
<1>12. /\ cut.sep = es[mid + 1].key
       /\ cut.old = LeafPage(lower, pg.prev, new) /\ IsLeaf(cut.old)
       /\ cut.new = LeafPage(upper, num, pg.next) /\ IsLeaf(cut.new)
  BY <1>3, <1>11
<1> QED BY <1>12 DEF cut, lower, upper, es, mid

(* split_inner: the middle entry moves up. *)
LEMMA InnerHalved ==
  ASSUME NEW pg, IsInner(pg), inner_is_full(pg), NEW sep \in Nat, ~find_separator_slot(pg, sep).found, NEW child
  PROVE  LET es  == Merged(pg.entries, InnerEntry(sep, child))
             mid == Len(es) \div 2
             cut == split_inner(pg, sep, child)
         IN  /\ cut.sep = es[mid + 1].key
             /\ cut.old = InnerPage(SubSeq(es, 1, mid), pg.leftmost) /\ IsInner(cut.old)
             /\ cut.new = InnerPage(SubSeq(es, mid + 2, Len(es)), es[mid + 1].child) /\ IsInner(cut.new)
<1> DEFINE e == InnerEntry(sep, child)
           es == Merged(pg.entries, e)
           mid == Len(es) \div 2
           cut == split_inner(pg, sep, child)
           lower == SubSeq(es, 1, mid)
           upper == SubSeq(es, mid + 2, Len(es))
<1>0. e.key = sep
  BY EntryParts
<1>1. IsEntries(pg.entries, InnerMax) /\ InnerMax \in Nat /\ InnerMax >= 2
  BY BTreePageAssumption DEF IsInner
<1>2. Len(pg.entries) >= InnerMax /\ ~Search(pg.entries, e.key).found
  BY <1>0 DEF inner_is_full, find_separator_slot
<1>3. cut = [sep |-> es[mid + 1].key, new |-> InnerPage(upper, es[mid + 1].child), old |-> InnerPage(lower, pg.leftmost)]
  BY DEF split_inner
<1> HIDE DEF e
<1>4. IsEntries(es, InnerMax + 1) /\ Len(es) = InnerMax + 1 /\ mid \in 1..(InnerMax - 1)
  BY <1>0, <1>1, <1>2, MergedFull
<1> HIDE DEF es, mid
<1>7. IsEntries(lower, InnerMax)
  <2>1. 1 \in 1..(Len(es) + 1) /\ mid \in 0..Len(es) /\ 1 <= mid + 1 /\ mid - 1 + 1 <= InnerMax
    BY <1>1, <1>4
  <2> QED BY <1>1, <1>4, <2>1, SubEntries
<1>8. IsEntries(upper, InnerMax)
  <2> DEFINE a == mid + 2
             n == Len(es)
  <2>1. a \in 1..(Len(es) + 1) /\ n \in 0..Len(es) /\ a <= n + 1 /\ n - a + 1 <= InnerMax
    BY <1>1, <1>4
  <2> HIDE DEF a, n
  <2>2. IsEntries(SubSeq(es, a, n), InnerMax)
    BY <1>1, <1>4, <2>1, SubEntries
  <2> QED BY <2>2 DEF a, n
<1> HIDE DEF lower, upper, cut
<1>11. IsInner(InnerPage(lower, pg.leftmost)) /\ IsInner(InnerPage(upper, es[mid + 1].child))
  BY <1>7, <1>8, BuiltInner
<1>12. /\ cut.sep = es[mid + 1].key
       /\ cut.old = InnerPage(lower, pg.leftmost) /\ IsInner(cut.old)
       /\ cut.new = InnerPage(upper, es[mid + 1].child) /\ IsInner(cut.new)
  BY <1>3, <1>11
<1> QED BY <1>12 DEF cut, lower, upper, es, mid, e

-----------------------------------------------------------------------------
(* The types of the tree and of the calls *)

Leaves(pgs) == {p \in 1..Len(pgs) : pgs[p].kind = "leaf"}
Inners(pgs) == {p \in 1..Len(pgs) : pgs[p].kind = "inner"}

(* A page whose links lead to pages of the right kind. *)
Fits(pgs, pg) ==
  \/ IsLeaf(pg) /\ pg.next \in Leaves(pgs) \cup {0}
  \/ IsInner(pg) /\ Children(pg) \subseteq 1..Len(pgs)

TreeOK(rt, pgs, drt, dsk) ==
  /\ IsSeq(pgs) /\ Len(pgs) <= MaxPages
  /\ rt \in 0..Len(pgs) /\ (rt = 0 => Len(pgs) = 0)
  /\ \A p \in 1..Len(pgs) : Fits(pgs, pgs[p])
  /\ drt \subseteq 1..Len(pgs) /\ (1..Len(pgs)) \ drt \subseteq DOMAIN dsk
  /\ \A p \in DOMAIN dsk : p \in 1..Len(pgs) /\ Fits(pgs, dsk[p]) /\ dsk[p].kind = pgs[p].kind

CallOK(c) == /\ c.op \in {"insert", "get", "scan", "delete"}
             /\ c.key \in Bytes /\ c.end \subseteq Bytes

AtPage == {"descend", "get", "scan", "delete", "sibling", "ancestors", "merge", "survivor", "removed"}

PcOK(tk) ==
  /\ tk.pc \in {"idle", "done", "root", "first"} \cup AtPage
  /\ tk.pc # "idle" => CallOK(tk.call)
  /\ tk.pc \in {"get", "scan", "delete"} => tk.call.op = tk.pc
  /\ tk.pc \in {"first", "sibling", "ancestors"} => tk.call.op = "insert"
  /\ tk.pc \in {"merge", "survivor", "removed"} => tk.call.op = "delete"
  /\ tk.locked # <<>> => tk.pc \in {"descend", "sibling", "ancestors"} /\ tk.call.op = "insert"
  /\ tk.pc = "merge" => tk.path # <<>>

PlaceOK(tk, pgs) ==
  /\ tk.pc \in AtPage => tk.cur \in 1..Len(pgs)
  /\ tk.pc \in AtPage \ {"descend"} => tk.cur \in Leaves(pgs)
  /\ IsSeq(tk.locked) /\ ToSet(tk.locked) \subseteq Inners(pgs)
  /\ IsSeq(tk.path) /\ ToSet(tk.path) \subseteq Inners(pgs)
  /\ tk.pc \in {"sibling", "ancestors"} => tk.child \in 1..Len(pgs) /\ tk.sep \in Nat
  /\ tk.pc = "sibling" => tk.sib \in Leaves(pgs) /\ tk.leaf \in Leaves(pgs)
  /\ tk.pc \in {"survivor", "removed"} => tk.sib \in 1..Len(pgs)
  /\ tk.pc = "survivor" => tk.leaf \in 1..Len(pgs)

TaskOK(tk, pgs) == DOMAIN tk = DOMAIN NoTask /\ PcOK(tk) /\ PlaceOK(tk, pgs)

(* The latches of a task. *)
Claim(tk) ==
  CASE tk.pc = "sibling"  -> ToSet(tk.locked) \cup {tk.leaf}
    [] tk.pc = "merge"    -> {tk.cur}
    [] tk.pc = "survivor" -> {tk.cur, tk.leaf}
    [] OTHER              -> ToSet(tk.locked)

LatchesOK ==
  /\ latch \in [PageIds -> Workers \cup {NoOne}]
  /\ \A w \in Workers : task[w].pc # "removed" => Held(w) = Claim(task[w])

ShapeOK ==
  /\ TreeOK(root, pages, dirty, disk)
  /\ DOMAIN task = Workers
  /\ \A w \in Workers : TaskOK(task[w], pages)
  /\ LatchesOK
  /\ todo \in Seq(Bytes)

-----------------------------------------------------------------------------
(* Pages are added and never change their kind. *)
Grows(old, new) ==
  /\ Len(old) \in Nat /\ Len(new) \in Nat /\ Len(old) <= Len(new)
  /\ \A p \in 1..Len(old) : new[p].kind = old[p].kind

LEMMA GrowsSets ==
  ASSUME NEW old, NEW new, Grows(old, new)
  PROVE  /\ 1..Len(old) \subseteq 1..Len(new)
         /\ Leaves(old) \subseteq Leaves(new) /\ Inners(old) \subseteq Inners(new)
<1>1. 1..Len(old) \subseteq 1..Len(new)
  BY DEF Grows
<1> QED BY <1>1 DEF Grows, Leaves, Inners

LEMMA FitsGrows ==
  ASSUME NEW old, NEW new, Grows(old, new), NEW pg, Fits(old, pg)
  PROVE  Fits(new, pg)
BY GrowsSets DEF Fits

LEMMA TaskGrows ==
  ASSUME NEW old, NEW new, Grows(old, new), NEW tk, TaskOK(tk, old)
  PROVE  TaskOK(tk, new)
<1>1. /\ 1..Len(old) \subseteq 1..Len(new)
      /\ Leaves(old) \subseteq Leaves(new) /\ Inners(old) \subseteq Inners(new)
  BY GrowsSets
<1>2. PlaceOK(tk, old)
  BY DEF TaskOK
<1>3. PlaceOK(tk, new)
  BY <1>1, <1>2 DEF PlaceOK
<1> QED BY <1>3 DEF TaskOK

LEMMA KindOf ==
  ASSUME NEW pgs, NEW pg, Fits(pgs, pg)
  PROVE  /\ pg.kind = "leaf" => IsLeaf(pg) /\ pg.next \in Leaves(pgs) \cup {0}
         /\ pg.kind = "inner" => IsInner(pg) /\ Children(pg) \subseteq 1..Len(pgs)
         /\ pg.kind \in {"leaf", "inner"}
<1>1. IsLeaf(pg) => pg.kind = "leaf"
  BY KindLeaf
<1>2. IsInner(pg) => pg.kind = "inner"
  BY KindInner
<1> QED BY <1>1, <1>2 DEF Fits

(* One page is rebuilt in place. *)
LEMMA TreePut ==
  ASSUME NEW rt, NEW pgs, NEW drt, NEW dsk, TreeOK(rt, pgs, drt, dsk),
         NEW p \in 1..Len(pgs), NEW pg, Fits(pgs, pg), pg.kind = pgs[p].kind,
         NEW more, more \subseteq {p}
  PROVE  /\ Grows(pgs, [pgs EXCEPT ![p] = pg])
         /\ TreeOK(rt, [pgs EXCEPT ![p] = pg], drt \cup more, dsk)
<1> DEFINE new == [pgs EXCEPT ![p] = pg]
<1>0. IsSeq(pgs) /\ Len(pgs) \in Nat
  BY SeqShape DEF TreeOK
<1>1. /\ IsSeq(new) /\ Len(new) = Len(pgs)
      /\ \A i \in 1..Len(pgs) : new[i] = IF i = p THEN pg ELSE pgs[i]
  <2>1. IsPut(new, pgs, p, pg)
    BY <1>0, SeqPut
  <2> QED BY <2>1 DEF IsPut
<1> HIDE DEF new
<1>2. Grows(pgs, new)
  BY <1>0, <1>1 DEF Grows
<1>3. \A i \in 1..Len(new) : Fits(new, new[i])
  <2> SUFFICES ASSUME NEW i \in 1..Len(new) PROVE Fits(new, new[i])
    OBVIOUS
  <2>1. Fits(pgs, new[i])
    BY <1>1 DEF TreeOK
  <2> QED BY <1>2, <2>1, FitsGrows
<1>4. \A q \in DOMAIN dsk : q \in 1..Len(new) /\ Fits(new, dsk[q]) /\ dsk[q].kind = new[q].kind
  <2> SUFFICES ASSUME NEW q \in DOMAIN dsk PROVE q \in 1..Len(new) /\ Fits(new, dsk[q]) /\ dsk[q].kind = new[q].kind
    OBVIOUS
  <2>1. q \in 1..Len(pgs) /\ Fits(pgs, dsk[q]) /\ dsk[q].kind = pgs[q].kind
    BY DEF TreeOK
  <2> QED BY <1>1, <1>2, <2>1, FitsGrows DEF Grows
<1>5. TreeOK(rt, new, drt \cup more, dsk)
  <2>1. drt \cup more \subseteq 1..Len(new) /\ (1..Len(new)) \ (drt \cup more) \subseteq DOMAIN dsk
    BY <1>1 DEF TreeOK
  <2>2. Len(new) <= MaxPages /\ rt \in 0..Len(new) /\ (rt = 0 => Len(new) = 0)
    BY <1>1 DEF TreeOK
  <2> QED BY <1>1, <1>3, <1>4, <2>1, <2>2 DEF TreeOK
<1> QED BY <1>2, <1>5 DEF new

(* A page is added; it may be the new root. *)
LEMMA TreeAdd ==
  ASSUME NEW rt, NEW pgs, NEW drt, NEW dsk, TreeOK(rt, pgs, drt, dsk), Len(pgs) + 1 <= MaxPages,
         NEW pg, Fits(Append(pgs, pg), pg), NEW top, top = Len(pgs) + 1 \/ (top = rt /\ rt # 0)
  PROVE  /\ Grows(pgs, Append(pgs, pg))
         /\ TreeOK(top, Append(pgs, pg), drt \cup {Len(pgs) + 1}, dsk)
<1> DEFINE new == Append(pgs, pg)
           n == Len(pgs) + 1
<1>0. IsSeq(pgs) /\ Len(pgs) \in Nat
  BY SeqShape DEF TreeOK
<1>1. /\ IsSeq(new) /\ Len(new) = n
      /\ (\A i \in 1..Len(pgs) : new[i] = pgs[i]) /\ new[n] = pg
  <2>1. IsAdd(new, pgs, pg)
    BY <1>0, SeqAdd
  <2> HIDE DEF new
  <2> QED BY <2>1 DEF IsAdd
<1>a. Fits(new, pg)
  OBVIOUS
<1> HIDE DEF new
<1>2. Grows(pgs, new)
  BY <1>0, <1>1 DEF Grows
<1>3. \A i \in 1..Len(new) : Fits(new, new[i])
  <2> SUFFICES ASSUME NEW i \in 1..Len(new) PROVE Fits(new, new[i])
    OBVIOUS
  <2>1. i = n \/ i \in 1..Len(pgs)
    BY <1>0, <1>1
  <2>2. i \in 1..Len(pgs) => Fits(new, new[i])
    BY <1>1, <1>2, FitsGrows DEF TreeOK
  <2> QED BY <1>1, <1>a, <2>1, <2>2
<1>4. \A q \in DOMAIN dsk : q \in 1..Len(new) /\ Fits(new, dsk[q]) /\ dsk[q].kind = new[q].kind
  <2> SUFFICES ASSUME NEW q \in DOMAIN dsk PROVE q \in 1..Len(new) /\ Fits(new, dsk[q]) /\ dsk[q].kind = new[q].kind
    OBVIOUS
  <2>1. q \in 1..Len(pgs) /\ Fits(pgs, dsk[q]) /\ dsk[q].kind = pgs[q].kind
    BY DEF TreeOK
  <2>2. q \in 1..Len(new)
    BY <1>0, <1>1, <2>1
  <2> QED BY <1>1, <1>2, <2>1, <2>2, FitsGrows DEF Grows
<1>5. TreeOK(top, new, drt \cup {n}, dsk)
  <2>0. 1..Len(new) = (1..Len(pgs)) \cup {n}
    BY <1>0, <1>1
  <2>1. drt \cup {n} \subseteq 1..Len(new) /\ (1..Len(new)) \ (drt \cup {n}) \subseteq DOMAIN dsk
    BY <2>0 DEF TreeOK
  <2>2. Len(new) <= MaxPages /\ top \in 0..Len(new) /\ (top = 0 => Len(new) = 0)
    BY <1>0, <1>1 DEF TreeOK
  <2> QED BY <1>1, <1>3, <1>4, <2>1, <2>2 DEF TreeOK
<1> QED BY <1>2, <1>5 DEF new

(* A page is divided. *)
LEMMA TreeSplit ==
  ASSUME NEW rt, NEW pgs, NEW drt, NEW dsk, TreeOK(rt, pgs, drt, dsk), Len(pgs) + 1 <= MaxPages, rt # 0,
         NEW p \in 1..Len(pgs), NEW old, NEW pg,
         old.kind = pgs[p].kind,
         Fits(Append([pgs EXCEPT ![p] = old], pg), old), Fits(Append([pgs EXCEPT ![p] = old], pg), pg)
  PROVE  /\ Grows(pgs, Append([pgs EXCEPT ![p] = old], pg))
         /\ TreeOK(rt, Append([pgs EXCEPT ![p] = old], pg), drt \cup {Len(pgs) + 1}, dsk)
<1> DEFINE new == Append([pgs EXCEPT ![p] = old], pg)
           n == Len(pgs) + 1
<1>0. IsSeq(pgs) /\ Len(pgs) \in Nat
  BY SeqShape DEF TreeOK
<1>2. /\ IsSeq(new) /\ Len(new) = n
      /\ (\A i \in 1..Len(pgs) : new[i] = IF i = p THEN old ELSE pgs[i]) /\ new[n] = pg
  <2>1. IsSplit(new, pgs, p, old, pg)
    BY <1>0, SeqSplit
  <2> HIDE DEF new
  <2> QED BY <2>1 DEF IsSplit
<1>a. Fits(new, pg) /\ Fits(new, old)
  OBVIOUS
<1> HIDE DEF new
<1>3. Grows(pgs, new)
  BY <1>0, <1>2 DEF Grows
<1>4. \A i \in 1..Len(new) : Fits(new, new[i])
  <2> SUFFICES ASSUME NEW i \in 1..Len(new) PROVE Fits(new, new[i])
    OBVIOUS
  <2>1. i = n \/ i = p \/ (i \in 1..Len(pgs) /\ i # p)
    BY <1>0, <1>2
  <2>2. i \in 1..Len(pgs) /\ i # p => Fits(new, new[i])
    BY <1>2, <1>3, FitsGrows DEF TreeOK
  <2>3. i = p => new[i] = old
    BY <1>2
  <2> QED BY <1>2, <1>a, <2>1, <2>2, <2>3
<1>5. \A q \in DOMAIN dsk : q \in 1..Len(new) /\ Fits(new, dsk[q]) /\ dsk[q].kind = new[q].kind
  <2> SUFFICES ASSUME NEW q \in DOMAIN dsk PROVE q \in 1..Len(new) /\ Fits(new, dsk[q]) /\ dsk[q].kind = new[q].kind
    OBVIOUS
  <2>1. q \in 1..Len(pgs) /\ Fits(pgs, dsk[q]) /\ dsk[q].kind = pgs[q].kind
    BY DEF TreeOK
  <2>2. q \in 1..Len(new)
    BY <1>0, <1>2, <2>1
  <2> QED BY <1>3, <2>1, <2>2, FitsGrows DEF Grows
<1>6. TreeOK(rt, new, drt \cup {n}, dsk)
  <2>0. 1..Len(new) = (1..Len(pgs)) \cup {n}
    BY <1>0, <1>2
  <2>1. drt \cup {n} \subseteq 1..Len(new) /\ (1..Len(new)) \ (drt \cup {n}) \subseteq DOMAIN dsk
    BY <2>0 DEF TreeOK
  <2>2. Len(new) <= MaxPages /\ rt \in 0..Len(new) /\ (rt = 0 => Len(new) = 0)
    BY <1>0, <1>2 DEF TreeOK
  <2> QED BY <1>2, <1>4, <1>5, <2>1, <2>2 DEF TreeOK
<1> QED BY <1>3, <1>6 DEF new

(* Reload *)
LEMMA TreeReload ==
  ASSUME NEW rt, NEW pgs, NEW drt, NEW dsk, TreeOK(rt, pgs, drt, dsk)
  PROVE  LET new == [p \in DOMAIN pgs |-> IF p \in drt THEN pgs[p] ELSE dsk[p]]
         IN  Grows(pgs, new) /\ TreeOK(rt, new, {}, new) /\ Len(new) = Len(pgs)
<1> DEFINE new == [p \in DOMAIN pgs |-> IF p \in drt THEN pgs[p] ELSE dsk[p]]
<1>0. IsSeq(pgs) /\ Len(pgs) \in Nat /\ DOMAIN pgs = 1..Len(pgs)
  BY SeqShape DEF TreeOK
<1>1. \A p \in 1..Len(pgs) : new[p] = (IF p \in drt THEN pgs[p] ELSE dsk[p])
  BY <1>0
<1>2. DOMAIN new = 1..Len(pgs) /\ new = [p \in 1..Len(pgs) |-> new[p]]
  BY <1>0
<1> HIDE DEF new
<1>3. new \in Seq(ToSet(new)) /\ Len(new) = Len(pgs)
  <2>1. \A p \in 1..Len(pgs) : new[p] \in ToSet(new)
    BY <1>2 DEF ToSet
  <2>2. new \in [1..Len(pgs) -> ToSet(new)]
    BY <1>2, <2>1
  <2>3. new \in Seq(ToSet(new))
    BY <1>0, <2>2, SeqDef
  <2> QED BY <1>0, <1>2, <2>3, LenProperties
<1>4. ASSUME NEW p \in 1..Len(pgs) PROVE new[p].kind = pgs[p].kind /\ Fits(pgs, new[p])
  <2>1. CASE p \in drt
    BY <1>1, <2>1 DEF TreeOK
  <2>2. CASE p \notin drt
    BY <1>1, <2>2 DEF TreeOK
  <2> QED BY <2>1, <2>2
<1>5. Grows(pgs, new)
  BY <1>0, <1>3, <1>4 DEF Grows
<1>6. \A p \in 1..Len(new) : Fits(new, new[p])
  BY <1>3, <1>4, <1>5, FitsGrows
<1>7. TreeOK(rt, new, {}, new)
  BY <1>2, <1>3, <1>6 DEF TreeOK, IsSeq
<1> QED BY <1>3, <1>5, <1>7 DEF new

(* The latches of w become ps, those of the others stay. *)
LatchMoves(w, ps) ==
  /\ latch' \in [PageIds -> Workers \cup {NoOne}]
  /\ {p \in PageIds : latch'[p] = w} = ps
  /\ \A v \in Workers \ {w} : \A p \in PageIds : latch'[p] = v <=> latch[p] = v

LEMMA HoldMoves ==
  ASSUME latch \in [PageIds -> Workers \cup {NoOne}], NEW w \in Workers, NEW ps, ps \subseteq PageIds,
         \A p \in ps : latch[p] = w \/ latch[p] = NoOne, Hold(w, ps)
  PROVE  LatchMoves(w, ps)
<1>1. NoOne \notin Workers
  BY IndexAssumption
<1>2. \A p \in PageIds : latch'[p] = IF p \in ps THEN w ELSE IF latch[p] = w THEN NoOne ELSE latch[p]
  BY DEF Hold
<1>3. latch' \in [PageIds -> Workers \cup {NoOne}]
  BY DEF Hold
<1>4. {p \in PageIds : latch'[p] = w} = ps
  BY <1>1, <1>2
<1>5. \A v \in Workers \ {w} : \A p \in PageIds : latch'[p] = v <=> latch[p] = v
  BY <1>1, <1>2
<1> QED BY <1>3, <1>4, <1>5 DEF LatchMoves

LEMMA LatchStays ==
  ASSUME latch \in [PageIds -> Workers \cup {NoOne}], NEW w \in Workers, latch' = latch
  PROVE  LatchMoves(w, Held(w))
BY DEF LatchMoves, Held

(* The task of a call that has returned. *)
Finished(c, res, out) ==
  [NoTask EXCEPT !.pc = "done", !.call = c, !.res = res, !.out = out]

LEMMA FinishedParts ==
  ASSUME NEW c, NEW res, NEW out
  PROVE  /\ DOMAIN Finished(c, res, out) = DOMAIN NoTask
         /\ Finished(c, res, out).pc = "done" /\ Finished(c, res, out).call = c
         /\ Finished(c, res, out).locked = <<>> /\ Finished(c, res, out).path = <<>>
         /\ Finished(c, res, out).res = res /\ Finished(c, res, out).out = out
BY DEF Finished, NoTask

LEMMA FinishedOK ==
  ASSUME NEW c, NEW res, NEW out, CallOK(c), NEW pgs
  PROVE  /\ TaskOK(Finished(c, res, out), pgs)
         /\ Claim(Finished(c, res, out)) = {}
<1> DEFINE tk == Finished(c, res, out)
<1>1. /\ DOMAIN tk = DOMAIN NoTask /\ tk.pc = "done" /\ tk.call = c
      /\ tk.locked = <<>> /\ tk.path = <<>>
  BY FinishedParts
<1>2. IsSeq(<<>>) /\ ToSet(<<>>) = {}
  BY EmptyIsSeq
<1> HIDE DEF tk
<1>3. PcOK(tk)
  BY <1>1 DEF PcOK
<1>4. PlaceOK(tk, pgs)
  BY <1>1, <1>2 DEF PlaceOK, AtPage
<1>5. Claim(tk) = {}
  BY <1>1, <1>2 DEF Claim
<1> QED BY <1>1, <1>3, <1>4, <1>5 DEF tk, TaskOK

(* A step of one task keeps the shape. *)
LEMMA StepShape ==
  ASSUME ShapeOK, NEW w \in Workers, NEW tk, task' = [task EXCEPT ![w] = tk],
         Grows(pages, pages'), TreeOK(root', pages', dirty', disk'), TaskOK(tk, pages'),
         NEW ps, LatchMoves(w, ps), tk.pc # "removed" => ps = Claim(tk),
         todo' \in Seq(Bytes)
  PROVE  ShapeOK'
<1>1. DOMAIN task' = Workers /\ task'[w] = tk /\ \A v \in Workers \ {w} : task'[v] = task[v]
  BY DEF ShapeOK
<1>2. \A v \in Workers : TaskOK(task'[v], pages')
  BY <1>1, TaskGrows DEF ShapeOK
<1>3. ASSUME NEW v \in Workers, task'[v].pc # "removed" PROVE {p \in PageIds : latch'[p] = v} = Claim(task'[v])
  <2>1. CASE v = w
    BY <1>1, <1>3, <2>1 DEF LatchMoves
  <2>2. CASE v # w
    <3>1. {p \in PageIds : latch'[p] = v} = Held(v)
      BY <2>2 DEF LatchMoves, Held
    <3>2. Held(v) = Claim(task[v])
      BY <1>1, <1>3, <2>2 DEF ShapeOK, LatchesOK
    <3> QED BY <1>1, <2>2, <3>1, <3>2
  <2> QED BY <2>1, <2>2
<1>4. LatchesOK'
  BY <1>3 DEF LatchesOK, LatchMoves, Held
<1> QED BY <1>1, <1>2, <1>4 DEF ShapeOK

(* A call that returns keeps the shape. *)
LEMMA ReturnShape ==
  ASSUME ShapeOK, NEW w \in Workers, NEW res, NEW out, Return(w, res, out), task[w].pc # "idle",
         Grows(pages, pages'), TreeOK(root', pages', dirty', disk'), UNCHANGED todo
  PROVE  ShapeOK'
<1>1. task' = [task EXCEPT ![w] = Finished(task[w].call, res, out)] /\ Hold(w, {})
  BY DEF Return, Finished
<1>2. CallOK(task[w].call) /\ latch \in [PageIds -> Workers \cup {NoOne}] /\ todo' \in Seq(Bytes)
  BY DEF ShapeOK, TaskOK, PcOK, LatchesOK
<1>3. /\ TaskOK(Finished(task[w].call, res, out), pages')
      /\ Claim(Finished(task[w].call, res, out)) = {}
  BY <1>2, FinishedOK
<1>4. LatchMoves(w, {})
  BY <1>1, <1>2, HoldMoves
<1> HIDE DEF Finished
<1> QED BY <1>1, <1>2, <1>3, <1>4, StepShape

LEMMA SameGrows ==
  ASSUME ShapeOK, UNCHANGED <<root, pages, dirty, disk>>
  PROVE  Grows(pages, pages') /\ TreeOK(root', pages', dirty', disk')
<1>1. TreeOK(root, pages, dirty, disk)
  BY DEF ShapeOK
<1>2. Len(pages) \in Nat
  BY <1>1, SeqShape DEF TreeOK
<1> QED BY <1>1, <1>2 DEF Grows

(* Facts about the state that every step needs. *)
LEMMA ShapeFacts ==
  ASSUME ShapeOK
  PROVE  /\ IsSeq(pages) /\ Len(pages) \in Nat /\ Len(pages) <= MaxPages /\ DOMAIN pages = 1..Len(pages)
         /\ 1..Len(pages) \subseteq PageIds
         /\ root \in 0..Len(pages)
         /\ \A p \in 1..Len(pages) : Fits(pages, pages[p])
         /\ \A p \in Leaves(pages) : /\ IsLeaf(pages[p]) /\ pages[p].next \in Leaves(pages) \cup {0}
                                     /\ p \in 1..Len(pages)
         /\ \A p \in Inners(pages) : /\ IsInner(pages[p]) /\ Children(pages[p]) \subseteq 1..Len(pages)
                                     /\ p \in 1..Len(pages)
         /\ \A p \in 1..Len(pages) : p \in Leaves(pages) \/ p \in Inners(pages)
         /\ Leaves(pages) \cap Inners(pages) = {}
<1>1. TreeOK(root, pages, dirty, disk)
  BY DEF ShapeOK
<1>2. IsSeq(pages) /\ Len(pages) \in Nat /\ Len(pages) <= MaxPages /\ DOMAIN pages = 1..Len(pages)
      /\ root \in 0..Len(pages)
  BY <1>1, SeqShape DEF TreeOK
<1>3. 1..Len(pages) \subseteq PageIds
  BY <1>2, IndexAssumption DEF PageIds
<1>4. \A p \in 1..Len(pages) : Fits(pages, pages[p])
  BY <1>1 DEF TreeOK
<1>5. \A p \in Leaves(pages) : /\ IsLeaf(pages[p]) /\ pages[p].next \in Leaves(pages) \cup {0}
                               /\ p \in 1..Len(pages)
  BY <1>4, KindOf DEF Leaves
<1>6. \A p \in Inners(pages) : /\ IsInner(pages[p]) /\ Children(pages[p]) \subseteq 1..Len(pages)
                               /\ p \in 1..Len(pages)
  BY <1>4, KindOf DEF Inners
<1>7. \A p \in 1..Len(pages) : p \in Leaves(pages) \/ p \in Inners(pages)
  BY <1>4, KindOf DEF Leaves, Inners
<1>8. Leaves(pages) \cap Inners(pages) = {}
  BY DEF Leaves, Inners
<1> QED BY <1>2, <1>3, <1>4, <1>5, <1>6, <1>7, <1>8

(* The key of a call is a number. *)
LEMMA KeyOfCall ==
  ASSUME ShapeOK, NEW w \in Workers, task[w].pc # "idle"
  PROVE  Key(w) \in Nat /\ Key(w) \in Int
<1>1. task[w].call.key \in Bytes
  BY DEF ShapeOK, TaskOK, PcOK, CallOK
<1> QED BY <1>1, KeyIsNat DEF Key

LEMMA InitShape == Init => ShapeOK
<1> SUFFICES ASSUME Init PROVE ShapeOK
  OBVIOUS
<1>0. IsSeq(<<>>) /\ ToSet(<<>>) = {} /\ Len(<<>>) = 0 /\ DOMAIN <<>> = {}
  BY EmptyIsSeq, SeqShape
<1>1. TreeOK(root, pages, dirty, disk)
  BY <1>0, IndexAssumption DEF Init, TreeOK
<1>2. DOMAIN task = Workers /\ \A w \in Workers : task[w] = NoTask
  BY DEF Init
<1>3. NoTask.pc = "idle" /\ NoTask.locked = <<>> /\ NoTask.path = <<>>
  BY DEF NoTask
<1>4. TaskOK(NoTask, pages) /\ Claim(NoTask) = {}
  BY <1>0, <1>3 DEF TaskOK, PcOK, PlaceOK, AtPage, Claim
<1>5. LatchesOK
  <2>1. \A w \in Workers : Held(w) = {}
    BY IndexAssumption DEF Init, Held
  <2> QED BY <1>2, <1>4, <2>1 DEF LatchesOK, Init
<1>6. todo \in Seq(Bytes)
  BY CallAssumption DEF Init
<1> QED BY <1>1, <1>2, <1>4, <1>5, <1>6 DEF ShapeOK

(* What the shape says of one task. *)
LEMMA TaskFacts ==
  ASSUME ShapeOK, NEW w \in Workers
  PROVE  /\ DOMAIN task = Workers /\ TaskOK(task[w], pages) /\ DOMAIN task[w] = DOMAIN NoTask
         /\ PcOK(task[w]) /\ PlaceOK(task[w], pages)
         /\ latch \in [PageIds -> Workers \cup {NoOne}]
         /\ task[w].pc # "removed" => Held(w) = Claim(task[w])
         /\ todo \in Seq(Bytes)
BY DEF ShapeOK, TaskOK, LatchesOK

(* A task that holds no inner page. *)
LEMMA NothingLocked ==
  ASSUME ShapeOK, NEW w \in Workers, task[w].pc \notin {"descend", "sibling", "ancestors"} \/ task[w].call.op # "insert"
  PROVE  task[w].locked = <<>> /\ ToSet(task[w].locked) = {}
<1>1. task[w].locked = <<>>
  BY TaskFacts DEF PcOK
<1> QED BY <1>1, EmptyIsSeq

LEMMA CallShape ==
  ASSUME ShapeOK, NEW w \in Workers, NEW c, Call(w, c)
  PROVE  ShapeOK'
<1> DEFINE tk == [NoTask EXCEPT !.pc = "root", !.call = c]
<1>1. Idle(w) /\ task' = [task EXCEPT ![w] = tk] /\ UNCHANGED <<root, pages, dirty, disk, latch>>
  BY DEF Call, treeVars
<1>2. CallOK(c) /\ todo' \in Seq(Bytes)
  <2>1. CASE todo # <<>>
    <3>1. c = Preload(Head(todo)) /\ todo' = Tail(todo)
      BY <2>1 DEF Call
    <3>2. todo \in Seq(Bytes)
      BY DEF ShapeOK
    <3>3. Head(todo) \in Bytes /\ Tail(todo) \in Seq(Bytes)
      BY <2>1, <3>2, HeadTailProperties
    <3> QED BY <3>1, <3>3 DEF CallOK, Preload
  <2>2. CASE todo = <<>>
    <3>1. c \in Calls /\ todo' = todo
      BY <2>2 DEF Call
    <3> QED BY <3>1, CallAssumption DEF CallOK, ShapeOK
  <2> QED BY <2>1, <2>2
<1>3. DOMAIN tk = DOMAIN NoTask /\ tk.pc = "root" /\ tk.call = c /\ tk.locked = <<>> /\ tk.path = <<>>
  BY DEF NoTask
<1> HIDE DEF tk
<1>4. IsSeq(<<>>) /\ ToSet(<<>>) = {}
  BY EmptyIsSeq
<1>5. TaskOK(tk, pages') /\ Claim(tk) = {}
  BY <1>2, <1>3, <1>4 DEF TaskOK, PcOK, PlaceOK, AtPage, Claim
<1>6. LatchMoves(w, {})
  <2>1. task[w].pc \in {"idle", "done"}
    BY <1>1 DEF Idle
  <2>2. Held(w) = {}
    BY <2>1, TaskFacts, NothingLocked DEF Claim
  <2> QED BY <1>1, <2>2, TaskFacts, LatchStays
<1> QED BY <1>1, <1>2, <1>5, <1>6, SameGrows, StepShape

LEMMA ReadRootShape ==
  ASSUME ShapeOK, NEW w \in Workers, ReadRoot(w)
  PROVE  ShapeOK'
<1>0. task[w].pc = "root" /\ UNCHANGED <<root, pages, dirty, disk, todo>> /\ todo' \in Seq(Bytes)
  BY DEF ReadRoot, ShapeOK
<1>1. Grows(pages, pages') /\ TreeOK(root', pages', dirty', disk')
  BY <1>0, SameGrows
<1>2. /\ DOMAIN task[w] = DOMAIN NoTask /\ PcOK(task[w]) /\ PlaceOK(task[w], pages) /\ task[w].locked = <<>>
      /\ ToSet(task[w].locked) = {} /\ CallOK(task[w].call)
  BY <1>0, TaskFacts, NothingLocked DEF PcOK
<1>3. Held(w) = {}
  BY <1>0, <1>2, TaskFacts DEF Claim
<1>4. CASE root # 0
  <2> DEFINE tk == [task[w] EXCEPT !.pc = "descend", !.cur = root]
  <2>1. task' = [task EXCEPT ![w] = tk] /\ latch' = latch
    BY <1>4, TaskFacts DEF ReadRoot
  <2>2. /\ DOMAIN tk = DOMAIN NoTask /\ tk.pc = "descend" /\ tk.cur = root /\ tk.call = task[w].call
        /\ tk.locked = <<>> /\ tk.path = task[w].path
    BY <1>2 DEF NoTask
  <2> HIDE DEF tk
  <2>3. TaskOK(tk, pages') /\ Claim(tk) = {}
    <3>1. root \in 1..Len(pages)
      BY <1>4, ShapeFacts
    <3> QED BY <1>0, <1>2, <2>2, <3>1, EmptyIsSeq DEF TaskOK, PcOK, PlaceOK, AtPage, Claim
  <2>4. LatchMoves(w, {})
    BY <1>3, <2>1, TaskFacts, LatchStays
  <2> QED BY <1>0, <1>1, <2>1, <2>3, <2>4, StepShape
<1>5. CASE root = 0 /\ task[w].call.op = "insert"
  <2> DEFINE tk == [task[w] EXCEPT !.pc = "first"]
  <2>1. task' = [task EXCEPT ![w] = tk] /\ latch' = latch
    BY <1>5, TaskFacts DEF ReadRoot
  <2>2. /\ DOMAIN tk = DOMAIN NoTask /\ tk.pc = "first" /\ tk.call = task[w].call
        /\ tk.locked = <<>> /\ tk.path = task[w].path
    BY <1>2 DEF NoTask
  <2> HIDE DEF tk
  <2>3. TaskOK(tk, pages') /\ Claim(tk) = {}
    BY <1>0, <1>2, <1>5, <2>2, EmptyIsSeq DEF TaskOK, PcOK, PlaceOK, AtPage, Claim
  <2>4. LatchMoves(w, {})
    BY <1>3, <2>1, TaskFacts, LatchStays
  <2> QED BY <1>0, <1>1, <2>1, <2>3, <2>4, StepShape
<1>6. CASE root = 0 /\ task[w].call.op # "insert"
  <2>1. \E res : Return(w, res, <<>>)
    BY <1>6 DEF ReadRoot
  <2> QED BY <1>0, <1>1, <2>1, ReturnShape
<1> QED BY <1>4, <1>5, <1>6

LEMMA FirstInsertShape ==
  ASSUME ShapeOK, NEW w \in Workers, FirstInsert(w)
  PROVE  ShapeOK'
<1> DEFINE leaf == insert_entry(init_leaf, Key(w), task[w].call.rid).page
<1>0. /\ task[w].pc = "first" /\ CanAlloc /\ pages' = Append(pages, leaf) /\ dirty' = dirty \cup {NewPage}
      /\ root' = NewPage /\ Return(w, "ok", <<>>) /\ UNCHANGED <<disk, todo>>
  BY DEF FirstInsert
<1>1. Key(w) \in Nat
  BY <1>0, KeyOfCall
<1>2. IsLeaf(leaf) /\ leaf.next = 0
  <2>1. IsLeaf(init_leaf) /\ init_leaf.next = 0
    BY InitLeaf, LeafParts
  <2>2. IsLeaf(leaf) /\ leaf = LeafPage(leaf.entries, init_leaf.prev, init_leaf.next)
    BY <1>1, <2>1, LeafInserted
  <2> HIDE DEF leaf
  <2> QED BY <2>1, <2>2, LeafParts
<1> HIDE DEF leaf
<1>3. Fits(Append(pages, leaf), leaf)
  BY <1>2 DEF Fits
<1>4. TreeOK(root, pages, dirty, disk) /\ Len(pages) + 1 <= MaxPages
  BY <1>0, ShapeFacts DEF ShapeOK, CanAlloc, NewPage, PageIds
<1>5. Grows(pages, pages') /\ TreeOK(root', pages', dirty', disk')
  BY <1>0, <1>3, <1>4, TreeAdd DEF NewPage
<1> QED BY <1>0, <1>5, ReturnShape

LEMMA CrabInnerShape ==
  ASSUME ShapeOK, NEW w \in Workers, CrabInner(w)
  PROVE  ShapeOK'
<1> DEFINE cur == task[w].cur
           locked == Append(Above(w, inner_safe_for_insert(pages[cur])), cur)
           next == find_child(pages[cur], Key(w))
           tk == [task[w] EXCEPT !.cur = next, !.locked = locked]
<1>0. /\ task[w].pc = "descend" /\ task[w].call.op = "insert" /\ Free(cur) /\ pages[cur].kind = "inner"
      /\ Hold(w, ToSet(locked)) /\ UNCHANGED <<root, pages, dirty, disk, todo>>
  BY DEF CrabInner
<1>a. task' = [task EXCEPT ![w] = tk]
  BY TaskFacts DEF CrabInner
<1>1. /\ DOMAIN task[w] = DOMAIN NoTask /\ PcOK(task[w]) /\ PlaceOK(task[w], pages) /\ CallOK(task[w].call)
      /\ Held(w) = ToSet(task[w].locked) /\ todo' \in Seq(Bytes)
      /\ cur \in 1..Len(pages) /\ IsSeq(task[w].locked) /\ ToSet(task[w].locked) \subseteq Inners(pages)
  BY <1>0, TaskFacts DEF PcOK, PlaceOK, AtPage, Claim
<1>2. cur \in Inners(pages) /\ IsInner(pages[cur]) /\ Children(pages[cur]) \subseteq 1..Len(pages)
  BY <1>0, <1>1, ShapeFacts DEF Inners
<1>3. next \in 1..Len(pages)
  <2>1. Key(w) \in Int
    BY <1>0, KeyOfCall
  <2>2. next \in Children(pages[cur])
    BY <1>2, <2>1, FindChildIn DEF IsInner
  <2> QED BY <1>2, <2>2
<1>4. IsSeq(locked) /\ ToSet(locked) \subseteq ToSet(task[w].locked) \cup {cur}
  <2> DEFINE above == Above(w, inner_safe_for_insert(pages[cur]))
  <2>1. IsSeq(above) /\ ToSet(above) \subseteq ToSet(task[w].locked)
    BY <1>1, EmptyIsSeq DEF Above
  <2> HIDE DEF above
  <2>2. IsAdd(Append(above, cur), above, cur) /\ ToSet(Append(above, cur)) = ToSet(above) \cup {cur}
    BY <2>1, SeqAdd, SeqAddSet
  <2>3. IsSeq(Append(above, cur))
    BY <2>2 DEF IsAdd
  <2> QED BY <2>1, <2>2, <2>3 DEF above
<1> HIDE DEF locked, next, cur
<1>5. /\ DOMAIN tk = DOMAIN NoTask /\ tk.pc = "descend" /\ tk.cur = next /\ tk.call = task[w].call
      /\ tk.locked = locked /\ tk.path = task[w].path
  BY <1>0, <1>1 DEF NoTask
<1> HIDE DEF tk
<1>6. TaskOK(tk, pages') /\ Claim(tk) = ToSet(locked)
  BY <1>0, <1>1, <1>2, <1>3, <1>4, <1>5 DEF TaskOK, PcOK, PlaceOK, AtPage, Claim
<1>7. LatchMoves(w, ToSet(locked))
  <2>1. ToSet(locked) \subseteq PageIds
    BY <1>1, <1>2, <1>4, ShapeFacts
  <2>2. \A p \in ToSet(locked) : latch[p] = w \/ latch[p] = NoOne
    BY <1>0, <1>1, <1>4 DEF Held, Free
  <2> QED BY <1>0, <2>1, <2>2, TaskFacts, HoldMoves
<1> QED BY <1>0, <1>1, <1>a, <1>6, <1>7, SameGrows, StepShape

LEMMA LeafInsertShape ==
  ASSUME ShapeOK, NEW w \in Workers, LeafInsert(w)
  PROVE  ShapeOK'
<1> DEFINE cur == task[w].cur
           pg == insert_entry(pages[cur], Key(w), task[w].call.rid).page
<1>0. /\ task[w].pc = "descend" /\ pages[cur].kind = "leaf" /\ pages' = [pages EXCEPT ![cur] = pg]
      /\ UNCHANGED <<root, dirty, disk, todo>> /\ \E res : Return(w, res, <<>>)
  BY DEF LeafInsert
<1>1. cur \in 1..Len(pages)
  BY <1>0, TaskFacts DEF PlaceOK, AtPage
<1>2. IsLeaf(pages[cur]) /\ pages[cur].next \in Leaves(pages) \cup {0}
  BY <1>0, <1>1, ShapeFacts DEF Leaves
<1>3. IsLeaf(pg) /\ pg.next = pages[cur].next
  <2>1. Key(w) \in Nat
    BY <1>0, KeyOfCall
  <2>2. IsLeaf(pg) /\ pg = LeafPage(pg.entries, pages[cur].prev, pages[cur].next)
    <3> DEFINE k == Key(w)
               rid == task[w].call.rid
               leaf == pages[cur]
    <3>1. IsLeaf(leaf) /\ k \in Nat
      BY <1>2, <2>1
    <3> HIDE DEF k, rid, leaf
    <3>2. LET p == insert_entry(leaf, k, rid).page IN IsLeaf(p) /\ p = LeafPage(p.entries, leaf.prev, leaf.next)
      BY <3>1, LeafInserted
    <3> QED BY <3>2 DEF k, rid, leaf
  <2> HIDE DEF pg
  <2> QED BY <2>2, LeafParts
<1> HIDE DEF pg
<1>4. Fits(pages, pg) /\ pg.kind = pages[cur].kind
  BY <1>0, <1>2, <1>3, KindLeaf DEF Fits
<1>5. TreeOK(root, pages, dirty, disk) /\ dirty \cup {} = dirty
  BY DEF ShapeOK
<1>6. Grows(pages, pages') /\ TreeOK(root', pages', dirty', disk')
  <2>1. {} \subseteq {cur}
    OBVIOUS
  <2>2. /\ Grows(pages, [pages EXCEPT ![cur] = pg])
        /\ TreeOK(root, [pages EXCEPT ![cur] = pg], dirty \cup {}, disk)
    BY <1>1, <1>4, <1>5, <2>1, TreePut
  <2> QED BY <1>0, <1>5, <2>2
<1> QED BY <1>0, <1>6, ReturnShape

(* Pages lead only to the pages they led to and to the new one. *)
LEMMA MergedChild ==
  ASSUME NEW pg, NEW max \in Nat, IsEntries(pg.entries, max), NEW sep \in Nat, NEW child,
         ~Search(pg.entries, sep).found,
         NEW i \in 1..Len(Merged(pg.entries, InnerEntry(sep, child)))
  PROVE  Merged(pg.entries, InnerEntry(sep, child))[i].child \in Children(pg) \cup {child}
<1> DEFINE e == InnerEntry(sep, child)
           es == pg.entries
           all == Merged(es, e)
           p == Search(es, sep).pos + 1
<1>1. e.key = sep /\ e.child = child
  BY EntryParts
<1> HIDE DEF e
<1>2. Shifted(all, es, p, e) /\ Len(es) \in Nat
  BY <1>1, MergedEntries, EntriesShape
<1>3. p \in 1..(Len(es) + 1)
  BY SlotFound, <1>2
<1>4. i \in 1..Len(all)
  BY DEF e
<1> HIDE DEF all, p
<1>5. i \in 1..(Len(es) + 1) /\ all[i] = IF i < p THEN es[i] ELSE IF i = p THEN e ELSE es[i - 1]
  BY <1>2, <1>4 DEF Shifted
<1>6. \A j \in 1..Len(es) : es[j].child \in Children(pg)
  <2> SUFFICES ASSUME NEW j \in 1..Len(es) PROVE es[j].child \in Children(pg)
    OBVIOUS
  <2>1. j \in 0..Len(es) /\ j # 0
    BY <1>2
  <2> QED BY <2>1 DEF Children, Slot
<1>7. all[i].child \in Children(pg) \cup {child}
  <2>1. CASE i < p
    <3>1. i \in 1..Len(es) /\ all[i] = es[i]
      BY <1>2, <1>3, <1>5, <2>1
    <3> QED BY <1>6, <3>1
  <2>2. CASE i = p
    BY <1>1, <1>3, <1>5, <2>2
  <2>3. CASE i > p
    <3>1. i - 1 \in 1..Len(es) /\ all[i] = es[i - 1]
      BY <1>2, <1>3, <1>5, <2>3
    <3> QED BY <1>6, <3>1
  <2> QED BY <1>3, <1>5, <2>1, <2>2, <2>3
<1> QED BY <1>7 DEF all, e

LEMMA BuiltChildren ==
  ASSUME NEW es, NEW leftmost, NEW S, leftmost \in S, Len(es) \in Nat, \A i \in 1..Len(es) : es[i].child \in S
  PROVE  Children(InnerPage(es, leftmost)) \subseteq S
<1> DEFINE pg == InnerPage(es, leftmost)
<1>1. pg.entries = es /\ pg.leftmost = leftmost
  BY InnerParts
<1> HIDE DEF pg
<1>2. ASSUME NEW i \in 0..Len(es) PROVE Slot(pg, i) \in S
  <2>1. CASE i = 0
    BY <1>1, <2>1 DEF Slot
  <2>2. CASE i # 0
    <3>1. i \in 1..Len(es)
      BY <2>2
    <3> QED BY <1>1, <2>2, <3>1 DEF Slot
  <2> QED BY <2>1, <2>2
<1>3. Children(pg) \subseteq S
  BY <1>1, <1>2 DEF Children
<1> QED BY <1>3 DEF pg

LEMMA AddedChildren ==
  ASSUME NEW pg, IsInner(pg), NEW sep \in Nat, NEW child
  PROVE  Children(insert_separator(pg, sep, child).page) \subseteq Children(pg) \cup {child}
<1> DEFINE ins == insert_separator(pg, sep, child)
           es == pg.entries
           all == Merged(es, InnerEntry(sep, child))
           room == Len(es) < InnerMax /\ ~find_separator_slot(pg, sep).found
<1>0. IsEntries(es, InnerMax) /\ InnerMax \in Nat /\ Len(es) \in Nat
  BY BTreePageAssumption, EntriesShape DEF IsInner
<1>1. /\ ins.page = InnerPage(ins.page.entries, pg.leftmost)
      /\ room => ins.page.entries = all
      /\ ~room => ins.page = pg
  BY InnerAdded
<1>2. pg.leftmost \in Children(pg)
  <2>1. 0 \in 0..Len(es) /\ Slot(pg, 0) = pg.leftmost
    BY <1>0 DEF Slot
  <2> QED BY <2>1 DEF Children
<1> HIDE DEF ins
<1>3. CASE room
  <2>1. ~Search(es, sep).found
    BY <1>3 DEF find_separator_slot
  <2>2. \A i \in 1..Len(all) : all[i].child \in Children(pg) \cup {child}
    BY <1>0, <2>1, MergedChild
  <2>3. Len(all) \in Nat
    <3>1. InnerEntry(sep, child).key = sep
      BY EntryParts
    <3> QED BY <1>0, <2>1, <3>1, MergedEntries
  <2> HIDE DEF all
  <2>4. Children(InnerPage(all, pg.leftmost)) \subseteq Children(pg) \cup {child}
    BY <1>2, <2>2, <2>3, BuiltChildren
  <2> QED BY <1>1, <1>3, <2>4 DEF ins
<1>4. CASE ~room
  BY <1>1, <1>4 DEF ins
<1> QED BY <1>3, <1>4

LEMMA HalvesChildren ==
  ASSUME NEW pg, IsInner(pg), inner_is_full(pg), NEW sep \in Nat, ~find_separator_slot(pg, sep).found, NEW child
  PROVE  /\ Children(split_inner(pg, sep, child).old) \subseteq Children(pg) \cup {child}
         /\ Children(split_inner(pg, sep, child).new) \subseteq Children(pg) \cup {child}
<1> DEFINE es == pg.entries
           e == InnerEntry(sep, child)
           all == Merged(es, e)
           mid == Len(all) \div 2
           cut == split_inner(pg, sep, child)
           S == Children(pg) \cup {child}
<1>0. IsEntries(es, InnerMax) /\ InnerMax \in Nat /\ Len(es) \in Nat /\ InnerMax >= 2
  BY BTreePageAssumption, EntriesShape DEF IsInner
<1>1. e.key = sep
  BY EntryParts
<1>2. Len(es) >= InnerMax /\ ~Search(es, e.key).found /\ ~Search(es, sep).found
  BY <1>1 DEF inner_is_full, find_separator_slot
<1>3. pg.leftmost \in S
  <2>1. 0 \in 0..Len(es) /\ Slot(pg, 0) = pg.leftmost
    BY <1>0 DEF Slot
  <2> QED BY <2>1 DEF Children
<1>4. \A i \in 1..Len(all) : all[i].child \in S
  BY <1>0, <1>2, MergedChild
<1>5. /\ cut.old = InnerPage(SubSeq(all, 1, mid), pg.leftmost)
      /\ cut.new = InnerPage(SubSeq(all, mid + 2, Len(all)), all[mid + 1].child)
  BY InnerHalved
<1> HIDE DEF e
<1>6. IsEntries(all, InnerMax + 1) /\ Len(all) = InnerMax + 1 /\ mid \in 1..(InnerMax - 1)
  BY <1>0, <1>1, <1>2, MergedFull
<1> HIDE DEF all, mid, S
<1>7. Children(cut.old) \subseteq S
  <2> DEFINE s == SubSeq(all, 1, mid)
  <2>1. 1 \in 1..(Len(all) + 1) /\ mid \in 0..Len(all) /\ 1 <= mid + 1 /\ mid - 1 + 1 <= mid /\ mid \in Nat
    BY <1>0, <1>6
  <2>2. /\ Len(s) = mid - 1 + 1
        /\ \A i \in 1..(mid - 1 + 1) : s[i] = all[1 + i - 1]
    BY <1>6, <2>1, SubEntries
  <2> HIDE DEF s
  <2>3. \A i \in 1..Len(s) : 1 + i - 1 \in 1..Len(all)
    BY <1>0, <1>6, <2>2
  <2>4. Len(s) \in Nat /\ \A i \in 1..Len(s) : s[i].child \in S
    BY <1>4, <2>1, <2>2, <2>3
  <2> QED BY <1>3, <1>5, <2>4, BuiltChildren DEF s
<1>8. Children(cut.new) \subseteq S
  <2> DEFINE lo == mid + 2
             n == Len(all)
             s == SubSeq(all, lo, n)
  <2>1. /\ lo \in 1..(Len(all) + 1) /\ n \in 0..Len(all) /\ lo <= n + 1 /\ n - lo + 1 \in Nat /\ n - lo + 1 <= n - lo + 1
        /\ mid + 1 \in 1..Len(all)
    BY <1>0, <1>6
  <2>2. \A i \in 1..(n - lo + 1) : lo + i - 1 \in 1..Len(all)
    BY <1>0, <1>6
  <2> HIDE DEF lo, n
  <2>3. /\ Len(s) = n - lo + 1
        /\ \A i \in 1..(n - lo + 1) : s[i] = all[lo + i - 1]
    BY <1>6, <2>1, SubEntries
  <2> HIDE DEF s
  <2>4. Len(s) \in Nat /\ \A i \in 1..Len(s) : s[i].child \in S
    BY <1>4, <2>1, <2>2, <2>3
  <2>5. all[mid + 1].child \in S
    BY <1>4, <2>1
  <2> QED BY <1>5, <2>4, <2>5, BuiltChildren DEF s, lo, n
<1> QED BY <1>7, <1>8 DEF S

LEMMA SplitSiblingShape ==
  ASSUME ShapeOK, NEW w \in Workers, SplitSibling(w)
  PROVE  ShapeOK'
<1> DEFINE sib == task[w].sib
           pg == set_prev_page(pages[sib], task[w].child)
           tk == [task[w] EXCEPT !.pc = "ancestors"]
<1>a. /\ DOMAIN task[w] = DOMAIN NoTask /\ PcOK(task[w]) /\ PlaceOK(task[w], pages)
      /\ DOMAIN task = Workers /\ todo \in Seq(Bytes)
  BY TaskFacts
<1>b. task[w].pc = "sibling" /\ sib \in Leaves(pages)
  BY <1>a DEF SplitSibling, PlaceOK
<1>c. IsLeaf(pages[sib]) /\ pages[sib].next \in Leaves(pages) \cup {0} /\ sib \in 1..Len(pages) /\ DOMAIN pages = 1..Len(pages)
  BY <1>b, ShapeFacts
<1>0. /\ pages' = [pages EXCEPT ![sib] = pg] /\ dirty' = dirty \cup {sib} /\ task' = [task EXCEPT ![w] = tk]
      /\ Hold(w, ToSet(task[w].locked)) /\ UNCHANGED <<root, disk, todo>>
  BY <1>a, <1>c DEF SplitSibling
<1>1. /\ DOMAIN tk = DOMAIN NoTask /\ tk.pc = "ancestors" /\ tk.cur = task[w].cur /\ tk.call = task[w].call
      /\ tk.locked = task[w].locked /\ tk.path = task[w].path /\ tk.child = task[w].child /\ tk.sep = task[w].sep
  BY <1>a DEF NoTask
<1>2. IsLeaf(pg) /\ pg.next = pages[sib].next /\ pg.kind = "leaf" /\ pages[sib].kind = "leaf"
  BY <1>c, LeafRelinked, LeafParts, KindLeaf
<1> HIDE DEF pg, tk
<1>3. Fits(pages, pg) /\ pg.kind = pages[sib].kind
  BY <1>2, <1>c DEF Fits
<1>4. Grows(pages, pages') /\ TreeOK(root', pages', dirty', disk')
  <2>1. {sib} \subseteq {sib} /\ TreeOK(root, pages, dirty, disk)
    BY DEF ShapeOK
  <2>2. /\ Grows(pages, [pages EXCEPT ![sib] = pg])
        /\ TreeOK(root, [pages EXCEPT ![sib] = pg], dirty \cup {sib}, disk)
    BY <1>c, <1>3, <2>1, TreePut
  <2> QED BY <1>0, <2>2
<1>5. TaskOK(tk, pages) /\ Claim(tk) = ToSet(task[w].locked)
  BY <1>a, <1>b, <1>1 DEF TaskOK, PcOK, PlaceOK, AtPage, Claim
<1>6. TaskOK(tk, pages')
  BY <1>4, <1>5, TaskGrows
<1>7. LatchMoves(w, ToSet(task[w].locked))
  <2>1. Held(w) = ToSet(task[w].locked) \cup {task[w].leaf}
    BY <1>b, TaskFacts DEF Claim
  <2>2. ToSet(task[w].locked) \subseteq PageIds /\ \A p \in ToSet(task[w].locked) : latch[p] = w
    BY <2>1 DEF Held
  <2> QED BY <1>0, <2>2, TaskFacts, HoldMoves
<1> QED BY <1>0, <1>a, <1>4, <1>5, <1>6, <1>7, StepShape

(* What a leaf split has at hand. *)
LEMMA LeafSplitFacts ==
  ASSUME ShapeOK, NEW w \in Workers, LeafSplit(w)
  PROVE  /\ task[w].pc = "descend" /\ task[w].call.op = "insert"
         /\ task[w].cur \in Leaves(pages) /\ task[w].cur \in 1..Len(pages) /\ IsLeaf(pages[task[w].cur])
         /\ pages[task[w].cur].next \in Leaves(pages) \cup {0}
         /\ Key(w) \in Nat /\ leaf_needs_split(pages[task[w].cur]) /\ latch[task[w].cur] = NoOne
         /\ TreeOK(root, pages, dirty, disk) /\ root # 0
<1>0. task[w].pc = "descend" /\ task[w].call.op = "insert" /\ pages[task[w].cur].kind = "leaf"
      /\ leaf_needs_split(pages[task[w].cur]) /\ latch[task[w].cur] = NoOne
  BY DEF LeafSplit, Free
<1>1. task[w].cur \in 1..Len(pages)
  BY <1>0, TaskFacts DEF PlaceOK, AtPage
<1>2. task[w].cur \in Leaves(pages)
  BY <1>0, <1>1 DEF Leaves
<1>3. TreeOK(root, pages, dirty, disk)
  BY DEF ShapeOK
<1>4. root # 0
  BY <1>1, <1>3 DEF TreeOK
<1> QED BY <1>0, <1>1, <1>2, <1>3, <1>4, ShapeFacts, KeyOfCall

LEMMA LeafSplitPages ==
  ASSUME ShapeOK, NEW w \in Workers, LeafSplit(w), ~find_slot(pages[task[w].cur], Key(w)).found
  PROVE  LET cur   == task[w].cur
             split == LeafHalves(pages[cur], cur, NewPage, LeafEntry(Key(w), task[w].call.rid))
         IN  /\ pages' = Append([pages EXCEPT ![cur] = split.old], split.new)
             /\ Grows(pages, pages') /\ TreeOK(root', pages', dirty', disk') /\ Len(pages') = Len(pages) + 1
             /\ \A i \in 1..Len(pages) : pages'[i] = IF i = cur THEN split.old ELSE pages[i]
             /\ pages'[Len(pages) + 1] = split.new
             /\ split.sep \in Nat /\ IsLeaf(split.old) /\ IsLeaf(split.new)
             /\ split.old.next = NewPage /\ split.new.next = pages[cur].next
             /\ NewPage = Len(pages) + 1 /\ NewPage \in PageIds
<1> DEFINE cur   == task[w].cur
           e     == LeafEntry(Key(w), task[w].call.rid)
           split == LeafHalves(pages[cur], cur, NewPage, e)
           es    == Merged(pages[cur].entries, e)
           mid   == Len(es) \div 2
           n     == Len(pages) + 1
           new   == Append([pages EXCEPT ![cur] = split.old], split.new)
<1>0. /\ cur \in Leaves(pages) /\ cur \in 1..Len(pages) /\ IsLeaf(pages[cur]) /\ pages[cur].next \in Leaves(pages) \cup {0}
      /\ Key(w) \in Nat /\ leaf_needs_split(pages[cur]) /\ TreeOK(root, pages, dirty, disk) /\ root # 0
  BY LeafSplitFacts
<1>1. /\ CanAlloc /\ pages' = new /\ dirty' = dirty \cup {NewPage} /\ UNCHANGED <<root, disk>>
  BY DEF LeafSplit
<1>2. NewPage = n /\ n \in PageIds /\ n <= MaxPages
  BY <1>1, ShapeFacts DEF CanAlloc, NewPage, PageIds
<1>3. e.key = Key(w) /\ e = LeafEntry(e.key, e.rid)
  BY EntryParts
<1>4. /\ split.sep = es[mid + 1].key
      /\ split.old = LeafPage(SubSeq(es, 1, mid), pages[cur].prev, NewPage) /\ IsLeaf(split.old)
      /\ split.new = LeafPage(SubSeq(es, mid + 1, Len(es)), cur, pages[cur].next) /\ IsLeaf(split.new)
  <2> HIDE DEF e, cur
  <2>1. ~find_slot(pages[cur], e.key).found
    BY <1>3 DEF cur
  <2> QED BY <1>0, <1>3, <2>1, LeafHalved
<1>5. split.sep \in Nat
  <2> HIDE DEF e, cur
  <2>1. IsEntries(pages[cur].entries, LeafMax) /\ LeafMax \in Nat /\ LeafMax >= 2 /\ Len(pages[cur].entries) >= LeafMax
    BY <1>0, BTreePageAssumption DEF IsLeaf, leaf_needs_split
  <2>2. ~Search(pages[cur].entries, e.key).found
    BY <1>3 DEF cur, find_slot
  <2>3. es[mid + 1].key \in Nat
    BY <1>0, <1>3, <2>1, <2>2, MergedFull
  <2> QED BY <1>4, <2>3
<1> HIDE DEF split, es, mid, e, cur
<1>6. split.old.kind = "leaf" /\ split.old.next = NewPage /\ split.new.kind = "leaf" /\ split.new.next = pages[cur].next
  BY <1>4, LeafParts
<1>7. /\ IsSeq(new) /\ Len(new) = n
      /\ (\A i \in 1..Len(pages) : new[i] = IF i = cur THEN split.old ELSE pages[i]) /\ new[n] = split.new
  <2>1. IsSeq(pages)
    BY <1>0 DEF TreeOK
  <2>2. IsSplit(new, pages, cur, split.old, split.new)
    BY <1>0, <2>1, SeqSplit
  <2> HIDE DEF new
  <2> QED BY <2>2 DEF IsSplit
<1> HIDE DEF new
<1>8. pages[cur].kind = "leaf"
  BY <1>0 DEF Leaves
<1>9. Leaves(pages) \subseteq Leaves(new) /\ n \in Leaves(new)
  <2>1. Len(pages) \in Nat
    BY ShapeFacts
  <2>2. n \in Leaves(new)
    BY <1>6, <1>7, <2>1 DEF Leaves
  <2>3. \A p \in Leaves(pages) : p \in Leaves(new)
    BY <1>6, <1>7, <2>1 DEF Leaves
  <2> QED BY <2>2, <2>3
<1>10. Fits(new, split.old) /\ Fits(new, split.new)
  BY <1>0, <1>2, <1>4, <1>6, <1>9 DEF Fits
<1>11. Grows(pages, new) /\ TreeOK(root, new, dirty \cup {n}, disk)
  BY <1>0, <1>2, <1>6, <1>8, <1>10, TreeSplit DEF new
<1>12. /\ pages' = new
       /\ Grows(pages, pages') /\ TreeOK(root', pages', dirty', disk') /\ Len(pages') = n
       /\ \A i \in 1..Len(pages) : pages'[i] = IF i = cur THEN split.old ELSE pages[i]
       /\ pages'[n] = split.new
       /\ split.sep \in Nat /\ IsLeaf(split.old) /\ IsLeaf(split.new)
       /\ split.old.next = NewPage /\ split.new.next = pages[cur].next
       /\ NewPage = n /\ NewPage \in PageIds
  BY <1>1, <1>2, <1>4, <1>5, <1>6, <1>7, <1>11
<1> QED BY <1>12 DEF new, split, cur, e

LEMMA LeafSplitShape ==
  ASSUME ShapeOK, NEW w \in Workers, LeafSplit(w)
  PROVE  ShapeOK'
<1> DEFINE cur == task[w].cur
           split == LeafHalves(pages[cur], cur, NewPage, LeafEntry(Key(w), task[w].call.rid))
           sib == pages[cur].next
           pc == IF sib = 0 THEN "ancestors" ELSE "sibling"
           ps == ToSet(task[w].locked) \cup (IF sib = 0 THEN {} ELSE {cur})
           tk == [task[w] EXCEPT !.pc = pc, !.leaf = cur, !.sib = sib, !.sep = split.sep, !.child = NewPage]
<1>0. /\ task[w].pc = "descend" /\ task[w].call.op = "insert" /\ cur \in Leaves(pages) /\ cur \in 1..Len(pages)
      /\ sib \in Leaves(pages) \cup {0} /\ latch[cur] = NoOne
  BY LeafSplitFacts
<1>1. CASE find_slot(pages[cur], Key(w)).found
  <2>1. Return(w, "PageCorruption", <<>>) /\ UNCHANGED <<root, pages, dirty, disk, todo>>
    BY <1>1 DEF LeafSplit
  <2> QED BY <1>0, <2>1, SameGrows, ReturnShape
<1>2. CASE ~find_slot(pages[cur], Key(w)).found
  <2>1. /\ Grows(pages, pages') /\ TreeOK(root', pages', dirty', disk') /\ Len(pages') = Len(pages) + 1
        /\ split.sep \in Nat /\ NewPage = Len(pages) + 1
        /\ pages'[Len(pages) + 1] = split.new /\ IsLeaf(split.new)
    BY <1>2, LeafSplitPages
  <2>2. /\ DOMAIN task[w] = DOMAIN NoTask /\ PcOK(task[w]) /\ PlaceOK(task[w], pages)
        /\ DOMAIN task = Workers /\ todo \in Seq(Bytes) /\ Held(w) = ToSet(task[w].locked)
    BY <1>0, TaskFacts DEF Claim
  <2>3. task' = [task EXCEPT ![w] = tk] /\ Hold(w, ps) /\ todo' = todo
    BY <1>2, <2>2 DEF LeafSplit, RightSibling
  <2> HIDE DEF split, cur, sib, pc
  <2>4. /\ DOMAIN tk = DOMAIN NoTask /\ tk.pc = pc /\ tk.cur = task[w].cur /\ tk.call = task[w].call
        /\ tk.locked = task[w].locked /\ tk.path = task[w].path /\ tk.child = NewPage /\ tk.sep = split.sep
        /\ tk.leaf = cur /\ tk.sib = sib
    BY <2>2 DEF NoTask
  <2> HIDE DEF tk
  <2>5. /\ Leaves(pages) \subseteq Leaves(pages') /\ Inners(pages) \subseteq Inners(pages')
        /\ 1..Len(pages) \subseteq 1..Len(pages')
    BY <2>1, GrowsSets
  <2>6. TaskOK(tk, pages')
    <3>1. NewPage \in 1..Len(pages')
      BY <2>1, ShapeFacts
    <3>2. pc \in {"ancestors", "sibling"} /\ (pc = "sibling" <=> sib # 0)
      BY DEF pc
    <3>3. PcOK(tk)
      <4>1. CallOK(task[w].call) /\ task[w].call.op = "insert"
        BY <1>0, <2>2 DEF PcOK
      <4>2. tk.pc \in {"ancestors", "sibling"} /\ tk.call = task[w].call
        BY <2>4, <3>2
      <4> QED BY <4>1, <4>2 DEF PcOK, AtPage
    <3>4. task[w].cur \in Leaves(pages')
      BY <1>0, <2>5 DEF cur
    <3>5. task[w].cur \in 1..Len(pages')
      BY <1>0, <2>5 DEF cur
    <3>6. pc = "sibling" => sib \in Leaves(pages') /\ cur \in Leaves(pages')
      BY <1>0, <2>5, <3>2
    <3>7. PlaceOK(tk, pages')
      BY <2>1, <2>2, <2>4, <2>5, <3>1, <3>2, <3>4, <3>5, <3>6 DEF PlaceOK
    <3> QED BY <2>4, <3>3, <3>7 DEF TaskOK
  <2>7. Claim(tk) = ps
    BY <2>4 DEF Claim, pc
  <2>8. LatchMoves(w, ps)
    <3>1. cur \in PageIds
      BY <1>0, ShapeFacts
    <3>2. ps \subseteq PageIds /\ \A p \in ps : latch[p] = w \/ latch[p] = NoOne
      BY <1>0, <2>2, <3>1 DEF Held
    <3> QED BY <2>3, <3>2, TaskFacts, HoldMoves
  <2> QED BY <2>1, <2>2, <2>3, <2>6, <2>7, <2>8, StepShape
<1> QED BY <1>1, <1>2

(* What a step into the parent has at hand. *)
LEMMA ParentFacts ==
  ASSUME ShapeOK, NEW w \in Workers, task[w].pc = "ancestors", task[w].locked # <<>>
  PROVE  /\ task[w].call.op = "insert" /\ task[w].sep \in Nat /\ task[w].child \in 1..Len(pages)
         /\ Last(task[w].locked) \in Inners(pages) /\ Last(task[w].locked) \in 1..Len(pages)
         /\ IsInner(pages[Last(task[w].locked)]) /\ Children(pages[Last(task[w].locked)]) \subseteq 1..Len(pages)
         /\ Held(w) = ToSet(task[w].locked) /\ IsSeq(task[w].locked)
         /\ TreeOK(root, pages, dirty, disk) /\ root # 0
<1>1. /\ task[w].call.op = "insert" /\ task[w].sep \in Nat /\ task[w].child \in 1..Len(pages)
      /\ IsSeq(task[w].locked) /\ ToSet(task[w].locked) \subseteq Inners(pages)
  BY TaskFacts DEF PcOK, PlaceOK
<1>2. Last(task[w].locked) \in Inners(pages)
  BY <1>1, SeqFront
<1>3. Held(w) = ToSet(task[w].locked)
  BY TaskFacts DEF Claim
<1>4. TreeOK(root, pages, dirty, disk)
  BY DEF ShapeOK
<1>5. root # 0
  BY <1>1, <1>4 DEF TreeOK
<1> QED BY <1>1, <1>2, <1>3, <1>4, <1>5, ShapeFacts

LEMMA ParentInsertShape ==
  ASSUME ShapeOK, NEW w \in Workers, ParentInsert(w)
  PROVE  ShapeOK'
<1> DEFINE parent == Last(task[w].locked)
           pg == insert_separator(pages[parent], task[w].sep, task[w].child).page
<1>0. /\ task[w].pc = "ancestors" /\ task[w].locked # <<>> /\ pages' = [pages EXCEPT ![parent] = pg]
      /\ UNCHANGED <<root, dirty, disk, todo>> /\ \E res : Return(w, res, <<>>)
  BY DEF ParentInsert
<1>1. /\ task[w].sep \in Nat /\ task[w].child \in 1..Len(pages)
      /\ parent \in Inners(pages) /\ parent \in 1..Len(pages)
      /\ IsInner(pages[parent]) /\ Children(pages[parent]) \subseteq 1..Len(pages)
      /\ TreeOK(root, pages, dirty, disk)
  BY <1>0, ParentFacts
<1>2. IsInner(pg)
  BY <1>1, InnerAdded
<1>3. Children(pg) \subseteq 1..Len(pages)
  BY <1>1, AddedChildren
<1> HIDE DEF pg, parent
<1>4. Fits(pages, pg) /\ pg.kind = pages[parent].kind
  BY <1>1, <1>2, <1>3, KindInner DEF Fits
<1>6. Grows(pages, pages') /\ TreeOK(root', pages', dirty', disk')
  <2>1. {} \subseteq {parent} /\ dirty \cup {} = dirty
    OBVIOUS
  <2>2. /\ Grows(pages, [pages EXCEPT ![parent] = pg])
        /\ TreeOK(root, [pages EXCEPT ![parent] = pg], dirty \cup {}, disk)
    BY <1>1, <1>4, <2>1, TreePut
  <2> QED BY <1>0, <2>1, <2>2
<1> QED BY <1>0, <1>6, ReturnShape

(* The pages after the split of a parent. *)
LEMMA ParentSplitPages ==
  ASSUME ShapeOK, NEW w \in Workers, ParentSplit(w), NEW parent, parent = Last(task[w].locked),
         ~find_separator_slot(pages[parent], task[w].sep).found,
         NEW split, split = split_inner(pages[parent], task[w].sep, task[w].child)
  PROVE  /\ IsSplit(pages', pages, parent, split.old, split.new)
         /\ Grows(pages, pages') /\ TreeOK(root', pages', dirty', disk')
         /\ split.sep \in Nat /\ IsInner(split.old) /\ IsInner(split.new)
         /\ NewPage = Len(pages) + 1 /\ NewPage \in PageIds
<1> DEFINE e     == InnerEntry(task[w].sep, task[w].child)
           es    == Merged(pages[parent].entries, e)
           mid   == Len(es) \div 2
           n     == Len(pages) + 1
           new   == Append([pages EXCEPT ![parent] = split.old], split.new)
<1>1. /\ task[w].pc = "ancestors" /\ task[w].locked # <<>> /\ inner_is_full(pages[parent])
      /\ CanAlloc /\ pages' = new /\ dirty' = dirty \cup {NewPage} /\ UNCHANGED <<root, disk>>
  BY DEF ParentSplit
<1>0. /\ task[w].sep \in Nat /\ task[w].child \in 1..Len(pages)
      /\ parent \in Inners(pages) /\ parent \in 1..Len(pages)
      /\ IsInner(pages[parent]) /\ Children(pages[parent]) \subseteq 1..Len(pages)
      /\ TreeOK(root, pages, dirty, disk) /\ root # 0
  BY <1>1, ParentFacts
<1>2. NewPage = n /\ n \in PageIds /\ n <= MaxPages
  BY <1>1, ShapeFacts DEF CanAlloc, NewPage, PageIds
<1>4. split.sep = es[mid + 1].key /\ IsInner(split.old) /\ IsInner(split.new)
  <2> DEFINE pg == pages[parent]
             sep == task[w].sep
             child == task[w].child
             cut == split_inner(pg, sep, child)
             all == Merged(pg.entries, InnerEntry(sep, child))
  <2>1. IsInner(pg) /\ inner_is_full(pg) /\ sep \in Nat /\ ~find_separator_slot(pg, sep).found /\ split = cut /\ es = all
    BY <1>0, <1>1
  <2> HIDE DEF pg, sep, child
  <2>2. cut.sep = all[(Len(all) \div 2) + 1].key /\ IsInner(cut.old) /\ IsInner(cut.new)
    BY <2>1, InnerHalved
  <2> HIDE DEF cut, all, es
  <2> QED BY <2>1, <2>2
<1>5. split.sep \in Nat
  <2>1. e.key = task[w].sep
    BY EntryParts
  <2> HIDE DEF e
  <2>2. IsEntries(pages[parent].entries, InnerMax) /\ InnerMax \in Nat /\ InnerMax >= 2 /\ Len(pages[parent].entries) >= InnerMax
    BY <1>0, <1>1, BTreePageAssumption DEF IsInner, inner_is_full
  <2>3. ~Search(pages[parent].entries, e.key).found
    BY <2>1 DEF find_separator_slot
  <2>4. es[mid + 1].key \in Nat
    BY <1>0, <2>1, <2>2, <2>3, MergedFull
  <2> QED BY <1>4, <2>4
<1>6. /\ Children(split.old) \subseteq 1..Len(pages)
      /\ Children(split.new) \subseteq 1..Len(pages)
  BY <1>0, <1>1, HalvesChildren
<1> HIDE DEF es, mid, e
<1>7. IsSplit(new, pages, parent, split.old, split.new)
  BY <1>0, SeqSplit DEF TreeOK
<1>8. split.old.kind = "inner" /\ split.new.kind = "inner" /\ pages[parent].kind = "inner"
  BY <1>0, <1>4, KindInner
<1>9. Fits(new, split.old) /\ Fits(new, split.new)
  <2>1. Len(new) = n /\ Len(pages) \in Nat
    BY <1>7, ShapeFacts DEF IsSplit
  <2>2. 1..Len(pages) \subseteq 1..Len(new)
    BY <2>1
  <2> HIDE DEF new
  <2> QED BY <1>4, <1>6, <2>2 DEF Fits
<1>11. Grows(pages, new) /\ TreeOK(root, new, dirty \cup {n}, disk)
  BY <1>0, <1>2, <1>8, <1>9, TreeSplit
<1> HIDE DEF new
<1> QED BY <1>1, <1>2, <1>4, <1>5, <1>7, <1>11

LEMMA ParentSplitShape ==
  ASSUME ShapeOK, NEW w \in Workers, ParentSplit(w)
  PROVE  ShapeOK'
<1> DEFINE parent == Last(task[w].locked)
           split == split_inner(pages[parent], task[w].sep, task[w].child)
           above == Front(task[w].locked)
           tk == [task[w] EXCEPT !.locked = above, !.sep = split.sep, !.child = NewPage]
<1>0. task[w].pc = "ancestors" /\ task[w].locked # <<>> /\ UNCHANGED <<root, disk, todo>>
  BY DEF ParentSplit
<1>1. CASE find_separator_slot(pages[parent], task[w].sep).found
  <2>1. Return(w, "PageCorruption", <<>>) /\ UNCHANGED <<root, pages, dirty, disk, todo>>
    BY <1>1 DEF ParentSplit
  <2> QED BY <1>0, <2>1, SameGrows, ReturnShape
<1>2. CASE ~find_separator_slot(pages[parent], task[w].sep).found
  <2>1. /\ IsSplit(pages', pages, parent, split.old, split.new)
        /\ Grows(pages, pages') /\ TreeOK(root', pages', dirty', disk')
        /\ split.sep \in Nat /\ NewPage = Len(pages) + 1
    BY <1>2, ParentSplitPages
  <2>2. /\ DOMAIN task[w] = DOMAIN NoTask /\ PcOK(task[w]) /\ PlaceOK(task[w], pages)
        /\ DOMAIN task = Workers /\ todo \in Seq(Bytes) /\ Held(w) = ToSet(task[w].locked)
    BY <1>0, TaskFacts DEF Claim
  <2>3. task' = [task EXCEPT ![w] = tk] /\ Hold(w, ToSet(above)) /\ todo' = todo
    BY <1>2, <2>2 DEF ParentSplit, NoTask
  <2>4. IsSeq(above) /\ ToSet(above) \subseteq ToSet(task[w].locked)
    BY <1>0, <2>2, SeqFront DEF PlaceOK
  <2> HIDE DEF split, above, parent
  <2>5. /\ DOMAIN tk = DOMAIN NoTask /\ tk.pc = "ancestors" /\ tk.cur = task[w].cur /\ tk.call = task[w].call
        /\ tk.locked = above /\ tk.path = task[w].path /\ tk.child = NewPage /\ tk.sep = split.sep
    BY <1>0, <2>2 DEF NoTask
  <2> HIDE DEF tk
  <2>6. TaskOK(tk, pages')
    <3>0. /\ Leaves(pages) \subseteq Leaves(pages') /\ Inners(pages) \subseteq Inners(pages')
          /\ 1..Len(pages) \subseteq 1..Len(pages')
      BY <2>1, GrowsSets
    <3>1. NewPage \in 1..Len(pages')
      BY <2>1, ShapeFacts DEF IsSplit
    <3>2. PcOK(tk)
      BY <1>0, <2>2, <2>5 DEF PcOK
    <3>3. PlaceOK(tk, pages')
      BY <1>0, <2>1, <2>2, <2>4, <2>5, <3>0, <3>1 DEF PlaceOK, AtPage
    <3> QED BY <2>5, <3>2, <3>3 DEF TaskOK
  <2>7. Claim(tk) = ToSet(above)
    BY <2>5 DEF Claim
  <2>8. LatchMoves(w, ToSet(above))
    <3>1. ToSet(above) \subseteq PageIds /\ \A p \in ToSet(above) : latch[p] = w
      BY <2>2, <2>4 DEF Held
    <3> QED BY <2>3, <3>1, TaskFacts, HoldMoves
  <2> QED BY <2>1, <2>2, <2>3, <2>6, <2>7, <2>8, StepShape
<1> QED BY <1>1, <1>2

LEMMA NewRootPages ==
  ASSUME ShapeOK, NEW w \in Workers, NewRoot(w), NEW top,
         top = insert_separator(init_inner(root), task[w].sep, task[w].child).page
  PROVE  /\ IsAdd(pages', pages, top)
         /\ Grows(pages, pages') /\ TreeOK(root', pages', dirty', disk')
         /\ root \in 1..Len(pages) /\ IsInner(top) /\ Children(top) \subseteq {root, task[w].child}
         /\ NewPage = Len(pages) + 1 /\ NewPage \in PageIds
<1> DEFINE n == Len(pages) + 1
<1>0. /\ task[w].pc = "ancestors" /\ CanAlloc /\ pages' = Append(pages, top) /\ dirty' = dirty \cup {NewPage}
      /\ root' = NewPage /\ UNCHANGED disk
  BY DEF NewRoot
<1>1. task[w].sep \in Nat /\ task[w].child \in 1..Len(pages)
  BY <1>0, TaskFacts DEF PlaceOK
<1>2. root \in 1..Len(pages) /\ TreeOK(root, pages, dirty, disk) /\ IsSeq(pages) /\ Len(pages) \in Nat
  BY <1>1, ShapeFacts DEF ShapeOK, TreeOK
<1>3. IsInner(init_inner(root)) /\ init_inner(root) = InnerPage(<<>>, root)
  BY InitInner
<1>4. IsInner(top)
  BY <1>1, <1>3, InnerAdded
<1>5. Children(top) \subseteq {root, task[w].child}
  <2>1. Children(top) \subseteq Children(init_inner(root)) \cup {task[w].child}
    BY <1>1, <1>3, AddedChildren
  <2> DEFINE none == <<>>
  <2>2. Len(none) = 0
    BY EmptySeq
  <2> HIDE DEF none
  <2> DEFINE S == {root}
  <2>4. root \in S /\ Len(none) \in Nat /\ \A i \in 1..Len(none) : none[i].child \in S
    BY <2>2
  <2> HIDE DEF S
  <2>5. Children(InnerPage(none, root)) \subseteq S
    BY <2>4, BuiltChildren
  <2>3. Children(InnerPage(none, root)) \subseteq {root}
    BY <2>5 DEF S
  <2> USE DEF none
  <2> QED BY <1>3, <2>1, <2>3
<1>6. NewPage = n /\ n \in PageIds /\ n <= MaxPages
  BY <1>0, ShapeFacts DEF CanAlloc, NewPage, PageIds
<1>7. IsAdd(pages', pages, top)
  BY <1>0, <1>2, SeqAdd
<1>8. Fits(pages', top)
  <2>1. Len(pages') = n /\ 1..Len(pages) \subseteq 1..n
    BY <1>2, <1>7 DEF IsAdd
  <2> QED BY <1>1, <1>2, <1>4, <1>5, <2>1 DEF Fits
<1>9. Grows(pages, pages') /\ TreeOK(root', pages', dirty', disk')
  BY <1>0, <1>2, <1>6, <1>8, TreeAdd
<1> QED BY <1>2, <1>4, <1>5, <1>6, <1>7, <1>9

LEMMA NewRootShape ==
  ASSUME ShapeOK, NEW w \in Workers, NewRoot(w)
  PROVE  ShapeOK'
<1>1. task[w].pc = "ancestors" /\ Return(w, "ok", <<>>) /\ UNCHANGED todo
  BY DEF NewRoot
<1>2. Grows(pages, pages') /\ TreeOK(root', pages', dirty', disk')
  BY NewRootPages
<1> QED BY <1>1, <1>2, ReturnShape

(* A step that changes no page and no latch. *)
LEMMA ReadShape ==
  ASSUME ShapeOK, NEW w \in Workers, NEW tk, task' = [task EXCEPT ![w] = tk],
         UNCHANGED <<root, pages, dirty, disk, latch, todo>>, TaskOK(tk, pages),
         task[w].pc # "removed", Claim(tk) = Claim(task[w])
  PROVE  ShapeOK'
<1>1. LatchMoves(w, Held(w)) /\ Held(w) = Claim(tk) /\ todo' \in Seq(Bytes)
  BY TaskFacts, LatchStays
<1> QED BY <1>1, SameGrows, StepShape

LEMMA DescendShape ==
  ASSUME ShapeOK, NEW w \in Workers, Descend(w)
  PROVE  ShapeOK'
<1> DEFINE cur == task[w].cur
<1>0. /\ task[w].pc = "descend" /\ task[w].call.op # "insert" /\ UNCHANGED <<root, pages, dirty, disk, latch, todo>>
  BY DEF Descend, treeVars
<1>1. /\ DOMAIN task[w] = DOMAIN NoTask /\ PcOK(task[w]) /\ PlaceOK(task[w], pages) /\ CallOK(task[w].call)
      /\ DOMAIN task = Workers /\ cur \in 1..Len(pages) /\ IsSeq(task[w].path) /\ ToSet(task[w].path) \subseteq Inners(pages)
  BY <1>0, TaskFacts DEF PcOK, PlaceOK, AtPage
<1>2. task[w].locked = <<>>
  BY <1>0, NothingLocked
<1>3. CASE pages[cur].kind = "inner"
  <2> DEFINE next == find_child(pages[cur], Key(w))
             path == IF task[w].call.op = "delete" THEN Append(task[w].path, cur) ELSE task[w].path
             tk == [task[w] EXCEPT !.cur = next, !.path = path]
  <2>1. task' = [task EXCEPT ![w] = tk]
    BY <1>1, <1>3 DEF Descend, NoTask
  <2>2. cur \in Inners(pages) /\ IsInner(pages[cur]) /\ Children(pages[cur]) \subseteq 1..Len(pages)
    BY <1>1, <1>3, ShapeFacts DEF Inners
  <2>3. next \in 1..Len(pages)
    <3>1. Key(w) \in Int
      BY <1>0, KeyOfCall
    <3>2. next \in Children(pages[cur])
      BY <2>2, <3>1, FindChildIn DEF IsInner
    <3> QED BY <2>2, <3>2
  <2>4. IsSeq(path) /\ ToSet(path) \subseteq Inners(pages)
    <3>1. IsAdd(Append(task[w].path, cur), task[w].path, cur) /\ ToSet(Append(task[w].path, cur)) = ToSet(task[w].path) \cup {cur}
      BY <1>1, SeqAdd, SeqAddSet
    <3>2. IsSeq(Append(task[w].path, cur))
      BY <3>1 DEF IsAdd
    <3> QED BY <1>1, <2>2, <3>1, <3>2
  <2> HIDE DEF next, path, cur
  <2>5. /\ DOMAIN tk = DOMAIN NoTask /\ tk.pc = "descend" /\ tk.cur = next /\ tk.call = task[w].call
        /\ tk.locked = task[w].locked /\ tk.path = path
    BY <1>0, <1>1 DEF NoTask
  <2> HIDE DEF tk
  <2>6. TaskOK(tk, pages) /\ Claim(tk) = Claim(task[w])
    BY <1>0, <1>1, <1>2, <2>3, <2>4, <2>5 DEF TaskOK, PcOK, PlaceOK, AtPage, Claim
  <2> QED BY <1>0, <2>1, <2>6, ReadShape
<1>4. CASE pages[cur].kind # "inner"
  <2> DEFINE tk == [task[w] EXCEPT !.pc = task[w].call.op]
  <2>1. task' = [task EXCEPT ![w] = tk]
    BY <1>1, <1>4 DEF Descend, NoTask
  <2>2. cur \in Leaves(pages)
    BY <1>1, <1>4, ShapeFacts DEF Inners
  <2> HIDE DEF cur
  <2>5. /\ DOMAIN tk = DOMAIN NoTask /\ tk.pc = task[w].call.op /\ tk.cur = task[w].cur /\ tk.call = task[w].call
        /\ tk.locked = task[w].locked /\ tk.path = task[w].path
    BY <1>0, <1>1 DEF NoTask
  <2> HIDE DEF tk
  <2>6. task[w].call.op \in {"get", "scan", "delete"}
    BY <1>0, <1>1 DEF CallOK
  <2>7. TaskOK(tk, pages) /\ Claim(tk) = Claim(task[w])
    BY <1>0, <1>1, <1>2, <2>2, <2>5, <2>6 DEF TaskOK, PcOK, PlaceOK, AtPage, Claim, cur
  <2> QED BY <1>0, <2>1, <2>7, ReadShape
<1> QED BY <1>3, <1>4

LEMMA GetShape ==
  ASSUME ShapeOK, NEW w \in Workers, Get(w)
  PROVE  ShapeOK'
<1>1. /\ task[w].pc = "get" /\ UNCHANGED <<root, pages, dirty, disk, todo>>
      /\ \E res, out : Return(w, res, out)
  BY DEF Get
<1> QED BY <1>1, SameGrows, ReturnShape

LEMMA ScanLeafShape ==
  ASSUME ShapeOK, NEW w \in Workers, ScanLeaf(w)
  PROVE  ShapeOK'
<1> DEFINE leaf == pages[task[w].cur]
           so   == Buffered(w, leaf.entries)
           out  == task[w].out \o Yielded(so)
           done == leaf.next = 0 \/ so.done
           tk   == [task[w] EXCEPT !.cur = leaf.next, !.first = FALSE, !.out = out]
<1>0. task[w].pc = "scan" /\ UNCHANGED <<root, pages, dirty, disk, todo>>
  BY DEF ScanLeaf
<1>1. CASE done
  <2>1. Return(w, "ok", out)
    BY <1>1 DEF ScanLeaf
  <2> QED BY <1>0, <2>1, SameGrows, ReturnShape
<1>2. CASE ~done
  <2>1. /\ DOMAIN task[w] = DOMAIN NoTask /\ PcOK(task[w]) /\ PlaceOK(task[w], pages)
        /\ DOMAIN task = Workers /\ task[w].cur \in Leaves(pages)
    BY <1>0, TaskFacts DEF PlaceOK, AtPage
  <2>2. task' = [task EXCEPT ![w] = tk] /\ UNCHANGED latch
    BY <1>2, <2>1 DEF ScanLeaf, NoTask
  <2>3. leaf.next \in Leaves(pages) /\ leaf.next \in 1..Len(pages)
    BY <1>2, <2>1, ShapeFacts
  <2> HIDE DEF out, done, so
  <2>5. /\ DOMAIN tk = DOMAIN NoTask /\ tk.pc = "scan" /\ tk.cur = leaf.next /\ tk.call = task[w].call
        /\ tk.locked = task[w].locked /\ tk.path = task[w].path
    BY <1>0, <2>1 DEF NoTask
  <2> HIDE DEF tk
  <2>6. TaskOK(tk, pages) /\ Claim(tk) = Claim(task[w])
    BY <1>0, <2>1, <2>3, <2>5 DEF TaskOK, PcOK, PlaceOK, AtPage, Claim
  <2> QED BY <1>0, <2>2, <2>6, ReadShape
<1> QED BY <1>1, <1>2

(* What delete leaves of a set of entries. *)
Removes(new, old, k) == new = {e \in old : e.key # k}

(* The leaf that a delete has searched. *)
LEMMA DeleteFacts ==
  ASSUME ShapeOK, NEW w \in Workers, DeleteLeaf(w), NEW cur, cur = task[w].cur,
         NEW slot, slot = find_slot(pages[cur], Key(w)), Matches(pages[cur], slot, task[w].call.rid),
         NEW rest, rest = delete_entry(pages[cur], slot.pos).page
  PROVE  /\ cur \in Leaves(pages) /\ cur \in 1..Len(pages) /\ IsLeaf(pages[cur]) /\ Key(w) \in Nat
         /\ slot.pos \in 0..(Len(pages[cur].entries) - 1) /\ pages[cur].entries[slot.pos + 1].key = Key(w)
         /\ IsLeaf(rest) /\ rest.next = pages[cur].next /\ rest.prev = pages[cur].prev
         /\ Removes(ToSet(rest.entries), ToSet(pages[cur].entries), Key(w))
<1>0. task[w].pc = "delete"
  BY DEF DeleteLeaf
<1>1. cur \in Leaves(pages) /\ cur \in 1..Len(pages) /\ IsLeaf(pages[cur]) /\ Key(w) \in Nat
  BY <1>0, TaskFacts, ShapeFacts, KeyOfCall DEF PlaceOK, AtPage
<1> DEFINE es == pages[cur].entries
<1>2. IsEntries(es, LeafMax) /\ Len(es) \in Nat
  BY <1>1, EntriesShape DEF IsLeaf
<1>3. slot.pos \in 0..Len(es) /\ slot.pos + 1 \in 1..Len(es) /\ es[slot.pos + 1].key = Key(w)
  BY <1>1, <1>2, SlotFound DEF Matches, find_slot
<1>4. slot.pos \in 0..(Len(es) - 1)
  BY <1>2, <1>3
<1>5. /\ rest = LeafPage(rest.entries, pages[cur].prev, pages[cur].next)
      /\ IsLeaf(rest)
      /\ ToSet(rest.entries) = {e \in ToSet(es) : e.key # Key(w)}
  <2> DEFINE pg == pages[cur]
             pos == slot.pos
             cut == delete_entry(pg, pos).page
  <2>1. IsLeaf(pg) /\ pos \in 0..(Len(pg.entries) - 1) /\ rest = cut
    BY <1>1, <1>4
  <2> HIDE DEF pg, pos
  <2>2. /\ cut = LeafPage(cut.entries, pg.prev, pg.next) /\ IsLeaf(cut)
        /\ ToSet(cut.entries) = {e \in ToSet(pg.entries) : e.key # pg.entries[pos + 1].key}
    BY <2>1, LeafDeleted
  <2> HIDE DEF cut
  <2> QED BY <1>3, <2>1, <2>2 DEF pg, pos
<1>6. rest.next = pages[cur].next /\ rest.prev = pages[cur].prev
  <2> DEFINE a == rest.entries
             b == pages[cur].prev
             c == pages[cur].next
  <2>1. rest = LeafPage(a, b, c)
    BY <1>5
  <2> HIDE DEF a, b, c
  <2>2. rest.prev = b /\ rest.next = c
    BY <2>1, LeafLinks
  <2> QED BY <2>2 DEF b, c
<1> QED BY <1>1, <1>3, <1>4, <1>5, <1>6 DEF Removes

LEMMA DeleteLeafShape ==
  ASSUME ShapeOK, NEW w \in Workers, DeleteLeaf(w)
  PROVE  ShapeOK'
<1> DEFINE cur == task[w].cur
           slot == find_slot(pages[cur], Key(w))
           rest == delete_entry(pages[cur], slot.pos).page
           tk == [task[w] EXCEPT !.pc = "merge"]
<1>0. task[w].pc = "delete" /\ latch[cur] = NoOne /\ UNCHANGED <<root, disk, todo>>
  BY DEF DeleteLeaf, Free
<1>1. CASE ~Matches(pages[cur], slot, task[w].call.rid)
  <2>1. Return(w, "TupleNonExistent", <<>>) /\ UNCHANGED <<pages, dirty>>
    BY <1>1 DEF DeleteLeaf
  <2> QED BY <1>0, <2>1, SameGrows, ReturnShape
<1>2. CASE Matches(pages[cur], slot, task[w].call.rid)
  <2>0. pages' = [pages EXCEPT ![cur] = rest] /\ dirty' = dirty \cup {cur}
    BY <1>2 DEF DeleteLeaf
  <2>1. cur \in Leaves(pages) /\ cur \in 1..Len(pages) /\ IsLeaf(pages[cur]) /\ IsLeaf(rest) /\ rest.next = pages[cur].next
    BY <1>2, DeleteFacts
  <2>a. IF leaf_can_merge(rest) /\ task[w].path # <<>>
        THEN task' = [task EXCEPT ![w].pc = "merge"] /\ Hold(w, {cur})
        ELSE Return(w, "ok", <<>>)
    BY <1>2 DEF DeleteLeaf
  <2> HIDE DEF rest, slot
  <2>2. Fits(pages, rest) /\ rest.kind = pages[cur].kind
    BY <2>1, KindLeaf, ShapeFacts DEF Fits
  <2>3. Grows(pages, pages') /\ TreeOK(root', pages', dirty', disk')
    <3>1. {cur} \subseteq {cur} /\ TreeOK(root, pages, dirty, disk)
      BY DEF ShapeOK
    <3>2. /\ Grows(pages, [pages EXCEPT ![cur] = rest])
          /\ TreeOK(root, [pages EXCEPT ![cur] = rest], dirty \cup {cur}, disk)
      BY <2>1, <2>2, <3>1, TreePut
    <3> QED BY <1>0, <2>0, <3>2
  <2>4. CASE Return(w, "ok", <<>>)
    BY <1>0, <2>3, <2>4, ReturnShape
  <2>5. CASE task[w].path # <<>> /\ task' = [task EXCEPT ![w].pc = "merge"] /\ Hold(w, {cur})
    <3>1. /\ DOMAIN task[w] = DOMAIN NoTask /\ PcOK(task[w]) /\ PlaceOK(task[w], pages) /\ DOMAIN task = Workers
          /\ Held(w) = ToSet(task[w].locked) /\ todo \in Seq(Bytes) /\ task[w].locked = <<>> /\ task[w].call.op = "delete"
      BY <1>0, TaskFacts, NothingLocked DEF PcOK, Claim
    <3>2. task' = [task EXCEPT ![w] = tk]
      BY <2>5, <3>1
    <3>3. /\ DOMAIN tk = DOMAIN NoTask /\ tk.pc = "merge" /\ tk.cur = task[w].cur /\ tk.call = task[w].call
          /\ tk.locked = task[w].locked /\ tk.path = task[w].path
      BY <3>1 DEF NoTask
    <3> HIDE DEF tk
    <3>4. TaskOK(tk, pages) /\ Claim(tk) = {cur}
      BY <1>0, <2>5, <3>1, <3>3 DEF TaskOK, PcOK, PlaceOK, AtPage, Claim
    <3>5. TaskOK(tk, pages')
      BY <2>3, <3>4, TaskGrows
    <3>6. LatchMoves(w, {cur})
      <4>1. {cur} \subseteq PageIds /\ \A p \in {cur} : latch[p] = NoOne
        BY <1>0, <2>1, ShapeFacts
      <4> QED BY <2>5, <4>1, TaskFacts, HoldMoves
    <3> QED BY <1>0, <2>3, <3>1, <3>2, <3>4, <3>5, <3>6, StepShape
  <2> QED BY <2>a, <2>4, <2>5
<1> QED BY <1>1, <1>2

(* The survivor of a merge is a child of the parent. *)
LEMMA SurvivorIn ==
  ASSUME NEW pg, IsInner(pg), NEW leaf, NEW p \in MergeSurvivors(pg, leaf)
  PROVE  p \in Children(pg)
<1> DEFINE es == pg.entries
<1>0. Len(es) \in Nat /\ DOMAIN es = 1..Len(es) /\ 0 \in 0..Len(es)
  BY EntriesShape DEF IsInner
<1>1. pg.leftmost \in Children(pg)
  BY <1>0 DEF Children, Slot
<1>2. \A i \in 1..Len(es) : es[i].child \in Children(pg)
  <2> SUFFICES ASSUME NEW i \in 1..Len(es) PROVE es[i].child \in Children(pg)
    OBVIOUS
  <2>1. i \in 0..Len(es) /\ i # 0
    BY <1>0
  <2> QED BY <2>1 DEF Children, Slot
<1>3. CASE es = <<>>
  BY <1>3 DEF MergeSurvivors
<1>4. CASE es # <<>> /\ pg.leftmost = leaf
  BY <1>1, <1>4 DEF MergeSurvivors
<1>5. CASE es # <<>> /\ pg.leftmost # leaf
  <2>1. PICK i \in DOMAIN es : p = IF i = 1 THEN pg.leftmost ELSE es[i - 1].child
    BY <1>5 DEF MergeSurvivors
  <2>2. CASE i = 1
    BY <1>1, <2>1, <2>2
  <2>3. CASE i # 1
    <3>1. i - 1 \in 1..Len(es)
      BY <1>0, <2>3
    <3> QED BY <1>2, <2>1, <2>3, <3>1
  <2> QED BY <2>2, <2>3
<1> QED BY <1>3, <1>4, <1>5

LEMMA MergeParentShape ==
  ASSUME ShapeOK, NEW w \in Workers, MergeParent(w)
  PROVE  ShapeOK'
<1> DEFINE parent == Last(task[w].path)
           all == MergeSurvivors(pages[parent], task[w].cur)
           sib == CHOOSE p \in all : TRUE
           tk == [task[w] EXCEPT !.pc = "survivor", !.leaf = parent, !.sib = sib]
<1>0. task[w].pc = "merge" /\ latch[parent] = NoOne /\ UNCHANGED <<root, pages, dirty, disk, todo>>
  BY DEF MergeParent, Free
<1>1. CASE all = {}
  <2>1. Return(w, "ok", <<>>)
    BY <1>1 DEF MergeParent
  <2> QED BY <1>0, <2>1, SameGrows, ReturnShape
<1>2. CASE all # {}
  <2>1. /\ DOMAIN task[w] = DOMAIN NoTask /\ PcOK(task[w]) /\ PlaceOK(task[w], pages) /\ DOMAIN task = Workers
        /\ Held(w) = {task[w].cur} /\ todo \in Seq(Bytes) /\ task[w].locked = <<>>
        /\ IsSeq(task[w].path) /\ task[w].path # <<>> /\ ToSet(task[w].path) \subseteq Inners(pages)
    BY <1>0, TaskFacts, NothingLocked DEF PcOK, PlaceOK, Claim
  <2>2. task' = [task EXCEPT ![w] = tk] /\ Hold(w, {task[w].cur, parent})
    BY <1>2, <2>1 DEF MergeParent, NoTask
  <2>3. parent \in Inners(pages)
    BY <2>1, SeqFront
  <2>4. IsInner(pages[parent]) /\ Children(pages[parent]) \subseteq 1..Len(pages) /\ parent \in 1..Len(pages)
    BY <2>3, ShapeFacts
  <2>5. sib \in 1..Len(pages)
    <3>1. sib \in all
      BY <1>2, Zenon
    <3> HIDE DEF sib
    <3> QED BY <2>4, <3>1, SurvivorIn
  <2> HIDE DEF sib, all, parent
  <2>6. /\ DOMAIN tk = DOMAIN NoTask /\ tk.pc = "survivor" /\ tk.cur = task[w].cur /\ tk.call = task[w].call
        /\ tk.locked = task[w].locked /\ tk.path = task[w].path /\ tk.leaf = parent /\ tk.sib = sib
    BY <2>1 DEF NoTask
  <2> HIDE DEF tk
  <2>7. TaskOK(tk, pages') /\ Claim(tk) = {task[w].cur, parent}
    BY <1>0, <2>1, <2>4, <2>5, <2>6 DEF TaskOK, PcOK, PlaceOK, AtPage, Claim
  <2>8. LatchMoves(w, {task[w].cur, parent})
    <3>1. parent \in PageIds /\ task[w].cur \in PageIds /\ latch[task[w].cur] = w
      BY <2>1, <2>4, ShapeFacts DEF Held
    <3> QED BY <1>0, <2>2, <3>1, TaskFacts, HoldMoves
  <2> QED BY <1>0, <2>1, <2>2, <2>7, <2>8, SameGrows, StepShape
<1> QED BY <1>1, <1>2

LEMMA MergeSurvivorShape ==
  ASSUME ShapeOK, NEW w \in Workers, MergeSurvivor(w)
  PROVE  ShapeOK'
<1> DEFINE tk == [task[w] EXCEPT !.pc = "removed", !.sib = task[w].cur]
           ps == Held(w) \cup {task[w].sib}
<1>0. task[w].pc = "survivor" /\ latch[task[w].sib] = NoOne /\ UNCHANGED <<root, pages, dirty, disk, todo>>
  BY DEF MergeSurvivor, Free
<1>1. /\ DOMAIN task[w] = DOMAIN NoTask /\ PcOK(task[w]) /\ PlaceOK(task[w], pages) /\ DOMAIN task = Workers
      /\ todo \in Seq(Bytes) /\ task[w].locked = <<>> /\ task[w].sib \in 1..Len(pages) /\ task[w].cur \in 1..Len(pages)
  BY <1>0, TaskFacts, NothingLocked DEF PlaceOK, AtPage
<1>2. task' = [task EXCEPT ![w] = tk] /\ Hold(w, ps)
  BY <1>1 DEF MergeSurvivor, NoTask
<1>3. /\ DOMAIN tk = DOMAIN NoTask /\ tk.pc = "removed" /\ tk.cur = task[w].cur /\ tk.call = task[w].call
      /\ tk.locked = task[w].locked /\ tk.path = task[w].path /\ tk.sib = task[w].cur
  BY <1>1 DEF NoTask
<1> HIDE DEF tk
<1>4. TaskOK(tk, pages')
  BY <1>0, <1>1, <1>3 DEF TaskOK, PcOK, PlaceOK, AtPage
<1>5. LatchMoves(w, ps)
  <2>1. ps \subseteq PageIds /\ \A p \in ps : latch[p] = w \/ latch[p] = NoOne
    BY <1>0, <1>1, ShapeFacts DEF Held
  <2> QED BY <1>2, <2>1, TaskFacts, HoldMoves
<1> QED BY <1>0, <1>1, <1>2, <1>3, <1>4, <1>5, SameGrows, StepShape

LEMMA FailShape ==
  ASSUME ShapeOK, NEW w \in Workers, Fail(w)
  PROVE  ShapeOK'
<1>1. Return(w, "BufferError", <<>>) /\ UNCHANGED <<root, pages, dirty, disk, todo>>
  BY DEF Fail
<1>2. task[w].pc # "idle"
  BY DEF Fail, Fetches, Idle
<1> QED BY <1>1, <1>2, SameGrows, ReturnShape

LEMMA ReloadShape ==
  ASSUME ShapeOK, Reload
  PROVE  ShapeOK' /\ Grows(pages, pages') /\ Len(pages') = Len(pages)
<1> DEFINE new == [p \in DOMAIN pages |-> IF p \in dirty THEN pages[p] ELSE disk[p]]
<1>1. pages' = new /\ disk' = new /\ dirty' = {} /\ UNCHANGED <<root, latch, task, todo>>
  BY DEF Reload
<1>2. TreeOK(root, pages, dirty, disk)
  BY DEF ShapeOK
<1>3. Grows(pages, new) /\ TreeOK(root, new, {}, new) /\ Len(new) = Len(pages)
  BY <1>2, TreeReload
<1> HIDE DEF new
<1>4. \A w \in Workers : TaskOK(task'[w], pages')
  BY <1>1, <1>3, TaskGrows DEF ShapeOK
<1>5. LatchesOK'
  BY <1>1 DEF ShapeOK, LatchesOK, Held
<1> QED BY <1>1, <1>3, <1>4, <1>5 DEF ShapeOK

LEMMA SameShape ==
  ASSUME ShapeOK, UNCHANGED indexVars
  PROVE  ShapeOK'
<1>1. UNCHANGED <<root, pages, latch, dirty, disk, task, todo>>
  BY DEF indexVars, treeVars
<1>2. LatchesOK'
  BY <1>1 DEF ShapeOK, LatchesOK, Held
<1> QED BY <1>1, <1>2 DEF ShapeOK

LEMMA NextShape == ShapeOK /\ [Next]_indexVars => ShapeOK'
<1> SUFFICES ASSUME ShapeOK, [Next]_indexVars PROVE ShapeOK'
  OBVIOUS
<1>1. CASE UNCHANGED indexVars
  BY <1>1, SameShape
<1>2. CASE Reload
  BY <1>2, ReloadShape
<1>3. ASSUME NEW w \in Workers, Fail(w) PROVE ShapeOK'
  BY <1>3, FailShape
<1>4. ASSUME NEW w \in Workers, NEW c, Call(w, c) PROVE ShapeOK'
  BY <1>4, CallShape
<1>5. ASSUME NEW w \in Workers, Work(w) PROVE ShapeOK'
  <2>1. CASE ReadRoot(w)
    BY <2>1, ReadRootShape
  <2>2. CASE FirstInsert(w)
    BY <2>2, FirstInsertShape
  <2>3. CASE CrabInner(w)
    BY <2>3, CrabInnerShape
  <2>4. CASE LeafInsert(w)
    BY <2>4, LeafInsertShape
  <2>5. CASE LeafSplit(w)
    BY <2>5, LeafSplitShape
  <2>6. CASE SplitSibling(w)
    BY <2>6, SplitSiblingShape
  <2>7. CASE ParentInsert(w)
    BY <2>7, ParentInsertShape
  <2>8. CASE ParentSplit(w)
    BY <2>8, ParentSplitShape
  <2>9. CASE NewRoot(w)
    BY <2>9, NewRootShape
  <2>10. CASE Descend(w)
    BY <2>10, DescendShape
  <2>11. CASE Get(w)
    BY <2>11, GetShape
  <2>12. CASE ScanLeaf(w)
    BY <2>12, ScanLeafShape
  <2>13. CASE DeleteLeaf(w)
    BY <2>13, DeleteLeafShape
  <2>14. CASE MergeParent(w)
    BY <2>14, MergeParentShape
  <2>15. CASE MergeSurvivor(w)
    BY <2>15, MergeSurvivorShape
  <2> QED BY <1>5, <2>1, <2>2, <2>3, <2>4, <2>5, <2>6, <2>7, <2>8, <2>9, <2>10, <2>11, <2>12, <2>13,
             <2>14, <2>15 DEF Work, InsertIntoAncestors
<1> QED BY <1>1, <1>2, <1>3, <1>4, <1>5 DEF Next

LEMMA ShapeType == ShapeOK => IndexTypeOK
<1> SUFFICES ASSUME ShapeOK PROVE IndexTypeOK
  OBVIOUS
<1>1. /\ root \in 0..Len(pages) /\ Len(pages) <= MaxPages /\ DOMAIN pages = 1..Len(pages)
      /\ \A p \in 1..Len(pages) : Fits(pages, pages[p])
  BY ShapeFacts
<1>2. latch \in [PageIds -> Workers \cup {NoOne}] /\ dirty \subseteq DOMAIN pages
  BY <1>1 DEF ShapeOK, LatchesOK, TreeOK
<1>3. ASSUME NEW p \in DOMAIN pages
      PROVE  /\ pages[p].kind \in {"leaf", "inner"}
             /\ pages[p].kind = "leaf" =>
                  /\ Len(pages[p].entries) <= LeafMax
                  /\ pages[p].next # 0 => /\ pages[p].next \in DOMAIN pages
                                          /\ pages[pages[p].next].kind = "leaf"
             /\ pages[p].kind = "inner" =>
                  /\ Len(pages[p].entries) <= InnerMax
                  /\ pages[p].leftmost \in DOMAIN pages
                  /\ \A i \in DOMAIN pages[p].entries : pages[p].entries[i].child \in DOMAIN pages
  <2> DEFINE pg == pages[p]
  <2>1. Fits(pages, pg)
    BY <1>1
  <2>2. pg.kind \in {"leaf", "inner"}
    BY <2>1, KindOf
  <2>3. CASE pg.kind = "leaf"
    <3>1. IsLeaf(pg) /\ pg.next \in Leaves(pages) \cup {0}
      BY <2>1, <2>3, KindOf DEF Fits
    <3>2. Len(pg.entries) <= LeafMax
      BY <3>1 DEF IsLeaf, IsEntries
    <3>3. pg.next # 0 => pg.next \in DOMAIN pages /\ pages[pg.next].kind = "leaf"
      BY <1>1, <3>1 DEF Leaves
    <3> HIDE DEF pg
    <3> QED BY <2>3, <3>2, <3>3 DEF pg
  <2>4. CASE pg.kind = "inner"
    <3>1. IsInner(pg) /\ Children(pg) \subseteq 1..Len(pages)
      BY <2>1, <2>4, KindOf DEF Fits
    <3>2. Len(pg.entries) <= InnerMax /\ IsSeq(pg.entries)
      BY <3>1 DEF IsInner, IsEntries, IsSeq
    <3>3. Len(pg.entries) \in Nat /\ DOMAIN pg.entries = 1..Len(pg.entries)
      BY <3>2, SeqShape
    <3>4. \A i \in 0..Len(pg.entries) : Slot(pg, i) \in DOMAIN pages
      BY <1>1, <3>1 DEF Children
    <3> HIDE DEF pg
    <3>5. pg.leftmost \in DOMAIN pages
      <4>1. 0 \in 0..Len(pg.entries) /\ Slot(pg, 0) = pg.leftmost
        BY <3>3 DEF Slot
      <4> QED BY <3>4, <4>1
    <3>6. ASSUME NEW i \in DOMAIN pg.entries PROVE pg.entries[i].child \in DOMAIN pages
      <4>1. i \in 0..Len(pg.entries) /\ Slot(pg, i) = pg.entries[i].child
        BY <3>3 DEF Slot
      <4> QED BY <3>4, <4>1
    <3> QED BY <2>4, <3>2, <3>5, <3>6 DEF pg
  <2> QED BY <2>2, <2>3, <2>4
<1>4. ASSUME NEW w \in Workers PROVE ToSet(task[w].locked) \subseteq Held(w) /\ (Idle(w) => Held(w) = {})
  <2>1. task[w].pc \notin {"descend", "sibling", "ancestors"} => ToSet(task[w].locked) = {}
    BY NothingLocked
  <2>2. task[w].pc # "removed" => Held(w) = Claim(task[w])
    BY TaskFacts
  <2>3. ToSet(task[w].locked) \subseteq Held(w)
    BY <2>1, <2>2 DEF Claim
  <2>4. Idle(w) => Held(w) = {}
    BY <2>1, <2>2 DEF Claim, Idle
  <2> QED BY <2>3, <2>4
<1> QED BY <1>1, <1>2, <1>3, <1>4 DEF IndexTypeOK

(* Type correctness of the index: whatever btree.rs does to them, pages    *)
(* hold no more entries than fit, the root, the children and the right     *)
(* links lead to allocated pages, and a task has the latches of its locked *)
(* path, none when idle.                                                   *)
THEOREM IndexTyped == Spec => []IndexTypeOK
<1>1. Init => ShapeOK
  BY InitShape
<1>2. ShapeOK /\ [Next]_indexVars => ShapeOK'
  BY NextShape
<1>3. ShapeOK => IndexTypeOK
  BY ShapeType
<1> QED BY <1>1, <1>2, <1>3, PTL DEF Spec

-----------------------------------------------------------------------------
(* The order in which latches are taken *)

(* A rank of the pages falls along every link: from an inner page to its   *)
(* children, from a leaf to its right sibling, on disk as well.            *)
Falls(rank, p, pg) ==
  /\ pg.kind = "leaf" /\ pg.next # 0 => rank[pg.next] < rank[p]
  /\ pg.kind = "inner" => \A c \in Children(pg) : rank[c] < rank[p]

(* It falls in the order in which an insert takes its latches. *)
Downwards(rank, tk) ==
  /\ \A i, j \in 1..Len(tk.locked) : i < j => rank[tk.locked[j]] < rank[tk.locked[i]]
  /\ tk.pc = "descend" => \A p \in ToSet(tk.locked) : rank[tk.cur] < rank[p]
  /\ tk.pc = "sibling" => rank[tk.sib] < rank[tk.leaf] /\ \A p \in ToSet(tk.locked) : rank[tk.leaf] < rank[p]
  /\ tk.pc \in {"sibling", "ancestors"} => \A p \in ToSet(tk.locked) : rank[tk.child] < rank[p]

Ranks(rank) ==
  /\ rank \in [PageIds -> Nat]
  /\ \A p \in 1..Len(pages) : Falls(rank, p, pages[p])
  /\ \A p \in DOMAIN disk : Falls(rank, p, disk[p])
  /\ \A w \in Workers : Downwards(rank, task[w])

Ranked == \E rank : Ranks(rank)

(* A new rank keeps the order of the first n pages. *)
Keeps(rank, new, n) == \A p, q \in 1..n : rank[p] < rank[q] => new[p] < new[q]

LEMMA FallsKept ==
  ASSUME NEW pgs, NEW p \in 1..Len(pgs), NEW pg, Fits(pgs, pg), NEW rank, NEW new, Keeps(rank, new, Len(pgs)),
         Falls(rank, p, pg)
  PROVE  Falls(new, p, pg)
<1>1. pg.kind = "leaf" => pg.next \in (1..Len(pgs)) \cup {0}
  BY KindOf DEF Leaves
<1>2. pg.kind = "inner" => Children(pg) \subseteq 1..Len(pgs)
  BY KindOf
<1> QED BY <1>1, <1>2 DEF Falls, Keeps

LEMMA DownwardsKept ==
  ASSUME NEW pgs, NEW tk, TaskOK(tk, pgs), NEW rank, NEW new, Keeps(rank, new, Len(pgs)), Downwards(rank, tk)
  PROVE  Downwards(new, tk)
<1>1. /\ IsSeq(tk.locked) /\ ToSet(tk.locked) \subseteq 1..Len(pgs)
      /\ tk.pc \in {"descend", "sibling"} => tk.cur \in 1..Len(pgs)
      /\ tk.pc = "sibling" => tk.sib \in 1..Len(pgs) /\ tk.leaf \in 1..Len(pgs)
      /\ tk.pc \in {"sibling", "ancestors"} => tk.child \in 1..Len(pgs)
  BY DEF TaskOK, PlaceOK, AtPage, Leaves, Inners
<1>2. \A i \in 1..Len(tk.locked) : tk.locked[i] \in 1..Len(pgs)
  BY <1>1, SeqShape
<1>3. \A i, j \in 1..Len(tk.locked) : i < j => new[tk.locked[j]] < new[tk.locked[i]]
  BY <1>2 DEF Downwards, Keeps
<1>4. tk.pc = "descend" => \A p \in ToSet(tk.locked) : new[tk.cur] < new[p]
  BY <1>1 DEF Downwards, Keeps
<1>5. tk.pc = "sibling" => new[tk.sib] < new[tk.leaf] /\ \A p \in ToSet(tk.locked) : new[tk.leaf] < new[p]
  BY <1>1 DEF Downwards, Keeps
<1>6. tk.pc \in {"sibling", "ancestors"} => \A p \in ToSet(tk.locked) : new[tk.child] < new[p]
  BY <1>1 DEF Downwards, Keeps
<1> QED BY <1>3, <1>4, <1>5, <1>6 DEF Downwards

(* A task without inner pages that is not in a split. *)
LEMMA NoDescent ==
  ASSUME NEW tk, tk.locked = <<>>, tk.pc # "sibling", NEW rank
  PROVE  Downwards(rank, tk)
<1>1. Len(tk.locked) = 0 /\ ToSet(tk.locked) = {}
  BY EmptyIsSeq
<1> QED BY <1>1 DEF Downwards

(* A step of one task keeps the pages ranked: the changed pages fall. *)
LEMMA StepRanked ==
  ASSUME ShapeOK, NEW w \in Workers, NEW rank, Ranks(rank), NEW new, new \in [PageIds -> Nat],
         Keeps(rank, new, Len(pages)), Grows(pages, pages'), UNCHANGED disk,
         \A p \in 1..Len(pages') : (p \in 1..Len(pages) /\ pages'[p] = pages[p]) \/ Falls(new, p, pages'[p]),
         NEW tk, task' = [task EXCEPT ![w] = tk], Downwards(new, tk)
  PROVE  Ranked'
<1>1. \A p \in 1..Len(pages') : Falls(new, p, pages'[p])
  <2> SUFFICES ASSUME NEW p \in 1..Len(pages'), p \in 1..Len(pages), pages'[p] = pages[p] PROVE Falls(new, p, pages'[p])
    OBVIOUS
  <2>1. Fits(pages, pages[p])
    BY ShapeFacts
  <2> QED BY <2>1, FallsKept DEF Ranks
<1>2. \A p \in DOMAIN disk : Falls(new, p, disk[p])
  <2> SUFFICES ASSUME NEW p \in DOMAIN disk PROVE Falls(new, p, disk[p])
    OBVIOUS
  <2>1. p \in 1..Len(pages) /\ Fits(pages, disk[p])
    BY DEF ShapeOK, TreeOK
  <2> QED BY <2>1, FallsKept DEF Ranks
<1>3. \A v \in Workers : Downwards(new, task'[v])
  <2> SUFFICES ASSUME NEW v \in Workers, v # w PROVE Downwards(new, task'[v])
    BY DEF ShapeOK
  <2>1. task'[v] = task[v] /\ TaskOK(task[v], pages)
    BY DEF ShapeOK
  <2> QED BY <2>1, DownwardsKept DEF Ranks
<1>4. Ranks(new)'
  BY <1>1, <1>2, <1>3 DEF Ranks
<1> QED BY <1>4 DEF Ranked

LEMMA KeepsSame ==
  ASSUME NEW rank, NEW n
  PROVE  Keeps(rank, rank, n)
BY DEF Keeps

LEMMA FinishedDown ==
  ASSUME NEW c, NEW res, NEW out, NEW rank
  PROVE  Downwards(rank, Finished(c, res, out))
BY FinishedParts, NoDescent

(* A call that returns. *)
LEMMA ReturnRanked ==
  ASSUME ShapeOK, NEW w \in Workers, NEW rank, Ranks(rank), NEW new, new \in [PageIds -> Nat],
         Keeps(rank, new, Len(pages)), Grows(pages, pages'), UNCHANGED disk,
         \A p \in 1..Len(pages') : (p \in 1..Len(pages) /\ pages'[p] = pages[p]) \/ Falls(new, p, pages'[p]),
         NEW res, NEW out, Return(w, res, out)
  PROVE  Ranked'
<1>1. task' = [task EXCEPT ![w] = Finished(task[w].call, res, out)]
  BY DEF Return, Finished
<1> QED BY <1>1, FinishedDown, StepRanked

(* The pages stay as they are. *)
LEMMA ReadRanked ==
  ASSUME ShapeOK, NEW w \in Workers, NEW rank, Ranks(rank), UNCHANGED <<pages, disk>>,
         NEW tk, task' = [task EXCEPT ![w] = tk], Downwards(rank, tk)
  PROVE  Ranked'
<1>1. rank \in [PageIds -> Nat] /\ Keeps(rank, rank, Len(pages)) /\ Grows(pages, pages')
  BY KeepsSame, ShapeFacts DEF Ranks, Grows
<1>2. \A p \in 1..Len(pages') : p \in 1..Len(pages) /\ pages'[p] = pages[p]
  OBVIOUS
<1> QED BY <1>1, <1>2, StepRanked

LEMMA StopRanked ==
  ASSUME ShapeOK, NEW w \in Workers, Ranked, UNCHANGED <<pages, disk>>, NEW res, NEW out, Return(w, res, out)
  PROVE  Ranked'
<1>1. PICK rank : Ranks(rank)
  BY DEF Ranked
<1>2. task' = [task EXCEPT ![w] = Finished(task[w].call, res, out)]
  BY DEF Return, Finished
<1> QED BY <1>1, <1>2, FinishedDown, ReadRanked

(* The rank with a place for a new page n below page p. *)
Below(rank, n, p) == [q \in PageIds |-> IF q = n THEN 2 * rank[p] ELSE 2 * rank[q] + 1]

LEMMA BelowRank ==
  ASSUME NEW rank \in [PageIds -> Nat], NEW m \in Nat, NEW n, n = m + 1, n \in PageIds, NEW p \in 1..m
  PROVE  /\ Below(rank, n, p) \in [PageIds -> Nat]
         /\ Keeps(rank, Below(rank, n, p), m)
         /\ Below(rank, n, p)[n] < Below(rank, n, p)[p]
         /\ \A q \in 1..m : rank[q] < rank[p] => Below(rank, n, p)[q] < Below(rank, n, p)[n]
         /\ \A q \in 1..m : rank[p] < rank[q] => Below(rank, n, p)[n] < Below(rank, n, p)[q]
<1> DEFINE new == Below(rank, n, p)
<1>0. 1..m \subseteq PageIds /\ n \notin 1..m
  BY IndexAssumption DEF PageIds
<1>1. \A q \in PageIds : rank[q] \in Nat
  OBVIOUS
<1>2. /\ new \in [PageIds -> Nat] /\ new[n] = 2 * rank[p]
      /\ \A q \in 1..m : new[q] = 2 * rank[q] + 1
  BY <1>0, <1>1 DEF Below
<1> HIDE DEF new
<1>3. \A a, b \in Nat : a < b => 2 * a + 1 < 2 * b + 1 /\ 2 * a + 1 < 2 * b /\ 2 * a < 2 * b + 1
  OBVIOUS
<1>4. \A q \in 1..m : rank[q] \in Nat
  BY <1>0, <1>1
<1>5. Keeps(rank, new, m)
  BY <1>2, <1>3, <1>4 DEF Keeps
<1>6. new[n] < new[p]
  BY <1>2, <1>4
<1>7. \A q \in 1..m : (rank[q] < rank[p] => new[q] < new[n]) /\ (rank[p] < rank[q] => new[n] < new[q])
  BY <1>2, <1>3, <1>4
<1> QED BY <1>2, <1>5, <1>6, <1>7 DEF new

-----------------------------------------------------------------------------
(* The pages after each step that changes one in place *)

LEMMA InPlace ==
  ASSUME ShapeOK, NEW p \in 1..Len(pages), NEW pg, pg.kind = pages[p].kind, pages' = [pages EXCEPT ![p] = pg]
  PROVE  IsPut(pages', pages, p, pg) /\ Grows(pages, pages')
<1>1. IsSeq(pages) /\ Len(pages) \in Nat
  BY ShapeFacts
<1>2. IsPut(pages', pages, p, pg)
  BY <1>1, SeqPut
<1> QED BY <1>1, <1>2 DEF IsPut, Grows

LEMMA LeafInsertPages ==
  ASSUME ShapeOK, NEW w \in Workers, LeafInsert(w), NEW cur, cur = task[w].cur,
         NEW ins, ins = insert_entry(pages[cur], Key(w), task[w].call.rid)
  PROVE  /\ cur \in Leaves(pages) /\ cur \in 1..Len(pages) /\ IsLeaf(pages[cur]) /\ Key(w) \in Nat
         /\ IsPut(pages', pages, cur, ins.page) /\ Grows(pages, pages')
         /\ IsLeaf(ins.page) /\ ins.page.next = pages[cur].next /\ ins.page.prev = pages[cur].prev
<1> DEFINE pg == pages[cur]
           k == Key(w)
           rid == task[w].call.rid
           put == insert_entry(pg, k, rid)
<1>0. /\ task[w].pc = "descend" /\ pages[cur].kind = "leaf" /\ pages' = [pages EXCEPT ![cur] = ins.page]
  BY DEF LeafInsert
<1>1. cur \in 1..Len(pages) /\ Key(w) \in Nat
  BY <1>0, TaskFacts, KeyOfCall DEF PlaceOK, AtPage
<1>2. IsLeaf(pages[cur]) /\ cur \in Leaves(pages)
  BY <1>0, <1>1, ShapeFacts DEF Leaves
<1>3. IsLeaf(ins.page) /\ ins.page.next = pages[cur].next /\ ins.page.prev = pages[cur].prev
  <2>1. IsLeaf(pg) /\ k \in Nat /\ ins = put
    BY <1>1, <1>2
  <2> HIDE DEF pg, k, rid
  <2>2. IsLeaf(put.page) /\ put.page = LeafPage(put.page.entries, pg.prev, pg.next)
    BY <2>1, LeafInserted
  <2> DEFINE new == put.page
             es == new.entries
             a == pg.prev
             b == pg.next
  <2>3. new = LeafPage(es, a, b)
    BY <2>2
  <2> HIDE DEF new, es, a, b, put
  <2>4. new.prev = a /\ new.next = b
    BY <2>3, LeafLinks
  <2> QED BY <2>1, <2>2, <2>4 DEF new, a, b, pg
<1>4. ins.page.kind = pages[cur].kind
  BY <1>0, <1>3, KindLeaf
<1>5. IsPut(pages', pages, cur, ins.page) /\ Grows(pages, pages')
  BY <1>0, <1>1, <1>4, InPlace
<1> QED BY <1>1, <1>2, <1>3, <1>5

LEMMA SplitSiblingPages ==
  ASSUME ShapeOK, NEW w \in Workers, SplitSibling(w), NEW sib, sib = task[w].sib,
         NEW pg, pg = set_prev_page(pages[sib], task[w].child)
  PROVE  /\ sib \in Leaves(pages) /\ sib \in 1..Len(pages) /\ IsLeaf(pages[sib])
         /\ IsPut(pages', pages, sib, pg) /\ Grows(pages, pages')
         /\ IsLeaf(pg) /\ pg.next = pages[sib].next /\ pg.prev = task[w].child /\ pg.entries = pages[sib].entries
         /\ task' = [task EXCEPT ![w] = [task[w] EXCEPT !.pc = "ancestors"]]
<1>a. DOMAIN task[w] = DOMAIN NoTask /\ PlaceOK(task[w], pages) /\ DOMAIN task = Workers
  BY TaskFacts
<1>b. task[w].pc = "sibling" /\ sib \in Leaves(pages)
  BY <1>a DEF SplitSibling, PlaceOK
<1>c. IsLeaf(pages[sib]) /\ sib \in 1..Len(pages) /\ DOMAIN pages = 1..Len(pages)
  BY <1>b, ShapeFacts
<1>0. pages' = [pages EXCEPT ![sib] = pg] /\ task' = [task EXCEPT ![w] = [task[w] EXCEPT !.pc = "ancestors"]]
  BY <1>a, <1>c DEF SplitSibling
<1>2. pg = LeafPage(pages[sib].entries, task[w].child, pages[sib].next) /\ IsLeaf(pg)
  BY <1>c, LeafRelinked
<1>3. pg.next = pages[sib].next /\ pg.prev = task[w].child /\ pg.entries = pages[sib].entries /\ pg.kind = "leaf"
  BY <1>2, LeafParts
<1>4. pages[sib].kind = "leaf"
  BY <1>c, KindLeaf
<1>5. IsPut(pages', pages, sib, pg) /\ Grows(pages, pages')
  BY <1>0, <1>c, <1>3, <1>4, InPlace
<1> QED BY <1>0, <1>b, <1>c, <1>2, <1>3, <1>5

LEMMA ParentInsertPages ==
  ASSUME ShapeOK, NEW w \in Workers, ParentInsert(w), NEW parent, parent = Last(task[w].locked),
         NEW pg, pg = insert_separator(pages[parent], task[w].sep, task[w].child).page
  PROVE  /\ parent \in Inners(pages) /\ parent \in 1..Len(pages) /\ IsInner(pages[parent])
         /\ IsPut(pages', pages, parent, pg) /\ Grows(pages, pages')
         /\ IsInner(pg) /\ Children(pg) \subseteq Children(pages[parent]) \cup {task[w].child}
<1>0. task[w].pc = "ancestors" /\ task[w].locked # <<>> /\ pages' = [pages EXCEPT ![parent] = pg]
  BY DEF ParentInsert
<1>1. task[w].sep \in Nat /\ parent \in Inners(pages) /\ parent \in 1..Len(pages) /\ IsInner(pages[parent])
  BY <1>0, ParentFacts
<1>2. IsInner(pg)
  BY <1>1, InnerAdded
<1>3. Children(pg) \subseteq Children(pages[parent]) \cup {task[w].child}
  BY <1>1, AddedChildren
<1>4. pg.kind = pages[parent].kind
  BY <1>1, <1>2, KindInner
<1>5. IsPut(pages', pages, parent, pg) /\ Grows(pages, pages')
  BY <1>0, <1>1, <1>4, InPlace
<1> QED BY <1>1, <1>2, <1>3, <1>5

LEMMA DeleteLeafPages ==
  ASSUME ShapeOK, NEW w \in Workers, DeleteLeaf(w), NEW cur, cur = task[w].cur,
         NEW slot, slot = find_slot(pages[cur], Key(w)), Matches(pages[cur], slot, task[w].call.rid),
         NEW rest, rest = delete_entry(pages[cur], slot.pos).page
  PROVE  IsPut(pages', pages, cur, rest) /\ Grows(pages, pages')
<1>1. pages' = [pages EXCEPT ![cur] = rest]
  BY DEF DeleteLeaf
<1>2. cur \in 1..Len(pages) /\ IsLeaf(pages[cur]) /\ IsLeaf(rest)
  BY DeleteFacts
<1>3. rest.kind = pages[cur].kind
  BY <1>2, KindLeaf
<1> QED BY <1>1, <1>2, <1>3, InPlace

LEMMA FirstInsertPages ==
  ASSUME ShapeOK, NEW w \in Workers, FirstInsert(w),
         NEW leaf, leaf = insert_entry(init_leaf, Key(w), task[w].call.rid).page
  PROVE  /\ IsAdd(pages', pages, leaf) /\ Grows(pages, pages')
         /\ IsLeaf(leaf) /\ leaf.next = 0 /\ leaf.entries = <<LeafEntry(Key(w), task[w].call.rid)>>
         /\ Key(w) \in Nat /\ NewPage = Len(pages) + 1 /\ NewPage \in PageIds
<1> DEFINE k == Key(w)
           rid == task[w].call.rid
           e == LeafEntry(k, rid)
           put == insert_entry(init_leaf, k, rid)
<1>0. task[w].pc = "first" /\ CanAlloc /\ pages' = Append(pages, leaf)
  BY DEF FirstInsert
<1>1. k \in Nat /\ e.key = k
  BY <1>0, KeyOfCall, EntryParts
<1>2. IsLeaf(init_leaf) /\ init_leaf.next = 0 /\ init_leaf.prev = 0 /\ init_leaf.entries = <<>> /\ LeafMax \in Nat /\ LeafMax >= 2
  BY InitLeaf, LeafParts, BTreePageAssumption
<1>a. IsEntries(<<>>, LeafMax) /\ Len(<<>>) = 0
  BY <1>2, EmptyEntries, EmptySeq
<1>b. ~Search(<<>>, k).found
  <2> DEFINE none == <<>>
  <2>1. IsEntries(none, LeafMax) /\ Len(none) = 0
    BY <1>a
  <2> HIDE DEF none
  <2>2. Search(none, k).found => Search(none, k).pos + 1 \in 1..Len(none)
    BY <1>1, <2>1, SlotFound
  <2>3. ~Search(none, k).found
    BY <2>1, <2>2
  <2> QED BY <2>3 DEF none
<1>3. /\ IsLeaf(put.page) /\ put.page = LeafPage(put.page.entries, init_leaf.prev, init_leaf.next)
      /\ put.page.entries = Merged(init_leaf.entries, e)
  <2>1. Len(init_leaf.entries) < LeafMax /\ ~find_slot(init_leaf, k).found
    BY <1>2, <1>a, <1>b DEF find_slot
  <2> HIDE DEF k, rid
  <2> QED BY <1>1, <1>2, <2>1, LeafInserted
<1>4. Merged(<<>>, e) = <<e>>
  <2> DEFINE none == <<>>
             all == Merged(none, e)
             pos == Search(none, e.key).pos
  <2>1. IsEntries(none, LeafMax) /\ Len(none) = 0 /\ ~Search(none, e.key).found
    BY <1>1, <1>a, <1>b
  <2> HIDE DEF none, e
  <2>2. Shifted(all, none, pos + 1, e) /\ Len(all) = Len(none) + 1 /\ IsEntries(all, LeafMax + 1)
    BY <1>1, <1>2, <2>1, MergedEntries
  <2>3. pos \in 0..Len(none)
    BY <1>1, <2>1, SlotFound
  <2> HIDE DEF all, pos
  <2>4. pos = 0 /\ Len(all) = 1 /\ 1 \in 1..(Len(none) + 1)
    BY <2>1, <2>2, <2>3
  <2>5. all[1] = e
    BY <2>2, <2>4 DEF Shifted
  <2>6. all \in Seq(ToSet(all))
    BY <2>2 DEF IsEntries
  <2>7. all = <<e>>
    BY <2>4, <2>5, <2>6
  <2> QED BY <2>7 DEF all, none
<1>5. leaf = put.page
  OBVIOUS
<1> HIDE DEF put, e
<1>6. IsLeaf(leaf) /\ leaf.entries = <<e>>
  BY <1>2, <1>3, <1>4, <1>5
<1>7. leaf.next = 0
  <2> DEFINE es == leaf.entries
  <2>1. leaf = LeafPage(es, 0, 0)
    BY <1>2, <1>3, <1>5
  <2> HIDE DEF es
  <2> QED BY <2>1, LeafParts
<1>8. NewPage = Len(pages) + 1 /\ NewPage \in PageIds
  BY <1>0 DEF CanAlloc, NewPage
<1>9. IsAdd(pages', pages, leaf)
  BY <1>0, ShapeFacts, SeqAdd
<1>10. Grows(pages, pages')
  BY <1>9, ShapeFacts DEF IsAdd, Grows
<1> QED BY <1>1, <1>6, <1>7, <1>8, <1>9, <1>10 DEF e

LEMMA FirstInsertRanked ==
  ASSUME ShapeOK, Ranked, NEW w \in Workers, FirstInsert(w)
  PROVE  Ranked'
<1> DEFINE leaf == insert_entry(init_leaf, Key(w), task[w].call.rid).page
           n == Len(pages)
<1>1. PICK rank : Ranks(rank)
  BY DEF Ranked
<1>2. IsAdd(pages', pages, leaf) /\ Grows(pages, pages') /\ IsLeaf(leaf) /\ leaf.next = 0
  BY FirstInsertPages
<1>3. UNCHANGED disk /\ Return(w, "ok", <<>>)
  BY DEF FirstInsert
<1> HIDE DEF leaf
<1>4. leaf.kind = "leaf"
  BY <1>2, KindLeaf
<1>5. \A p : Falls(rank, p, leaf)
  BY <1>2, <1>4 DEF Falls
<1>6. n \in Nat /\ Len(pages') = n + 1 /\ (\A p \in 1..n : pages'[p] = pages[p]) /\ pages'[n + 1] = leaf
  BY <1>2, ShapeFacts DEF IsAdd
<1>7. \A p \in 1..Len(pages') : (p \in 1..n /\ pages'[p] = pages[p]) \/ Falls(rank, p, pages'[p])
  BY <1>5, <1>6
<1>8. rank \in [PageIds -> Nat] /\ Keeps(rank, rank, n)
  BY <1>1, KeepsSame DEF Ranks
<1> QED BY <1>1, <1>2, <1>3, <1>7, <1>8, ReturnRanked

(* A leaf is rebuilt in place with its link to the right. *)
LEMMA LeafPutFalls ==
  ASSUME ShapeOK, NEW rank, Ranks(rank), NEW p \in Leaves(pages), NEW pg, IsLeaf(pg), pg.next = pages[p].next,
         IsPut(pages', pages, p, pg)
  PROVE  \A q \in 1..Len(pages') : (q \in 1..Len(pages) /\ pages'[q] = pages[q]) \/ Falls(rank, q, pages'[q])
<1>1. pg.kind = "leaf" /\ pages[p].kind = "leaf" /\ p \in 1..Len(pages)
  BY KindLeaf DEF Leaves
<1>2. Falls(rank, p, pages[p])
  BY <1>1 DEF Ranks
<1>3. Falls(rank, p, pg)
  BY <1>1, <1>2 DEF Falls
<1> QED BY <1>1, <1>3 DEF IsPut

LEMMA LeafInsertRanked ==
  ASSUME ShapeOK, Ranked, NEW w \in Workers, LeafInsert(w)
  PROVE  Ranked'
<1> DEFINE cur == task[w].cur
           ins == insert_entry(pages[cur], Key(w), task[w].call.rid)
<1>1. PICK rank : Ranks(rank)
  BY DEF Ranked
<1>2. /\ cur \in Leaves(pages) /\ IsPut(pages', pages, cur, ins.page) /\ Grows(pages, pages')
      /\ IsLeaf(ins.page) /\ ins.page.next = pages[cur].next
  BY LeafInsertPages
<1>3. UNCHANGED disk /\ \E res : Return(w, res, <<>>)
  BY DEF LeafInsert
<1> HIDE DEF cur, ins
<1>4. \A p \in 1..Len(pages') : (p \in 1..Len(pages) /\ pages'[p] = pages[p]) \/ Falls(rank, p, pages'[p])
  BY <1>1, <1>2, LeafPutFalls
<1>5. rank \in [PageIds -> Nat] /\ Keeps(rank, rank, Len(pages))
  BY <1>1, KeepsSame DEF Ranks
<1> QED BY <1>1, <1>2, <1>3, <1>4, <1>5, ReturnRanked

LEMMA DeleteLeafRanked ==
  ASSUME ShapeOK, Ranked, NEW w \in Workers, DeleteLeaf(w)
  PROVE  Ranked'
<1> DEFINE cur == task[w].cur
           slot == find_slot(pages[cur], Key(w))
           rest == delete_entry(pages[cur], slot.pos).page
           tk == [task[w] EXCEPT !.pc = "merge"]
<1>0. task[w].pc = "delete" /\ UNCHANGED disk
  BY DEF DeleteLeaf
<1>1. CASE ~Matches(pages[cur], slot, task[w].call.rid)
  <2>1. Return(w, "TupleNonExistent", <<>>) /\ UNCHANGED <<pages, disk>>
    BY <1>1 DEF DeleteLeaf
  <2> QED BY <2>1, StopRanked
<1>2. CASE Matches(pages[cur], slot, task[w].call.rid)
  <2>1. PICK rank : Ranks(rank)
    BY DEF Ranked
  <2>2. cur \in Leaves(pages) /\ IsLeaf(rest) /\ rest.next = pages[cur].next
    BY <1>2, DeleteFacts
  <2>3. IsPut(pages', pages, cur, rest) /\ Grows(pages, pages')
    BY <1>2, DeleteLeafPages
  <2>4. \/ Return(w, "ok", <<>>)
        \/ task' = [task EXCEPT ![w].pc = "merge"]
    BY <1>2 DEF DeleteLeaf
  <2> HIDE DEF rest, slot, cur
  <2>5. \A p \in 1..Len(pages') : (p \in 1..Len(pages) /\ pages'[p] = pages[p]) \/ Falls(rank, p, pages'[p])
    BY <2>1, <2>2, <2>3, LeafPutFalls
  <2>6. rank \in [PageIds -> Nat] /\ Keeps(rank, rank, Len(pages))
    BY <2>1, KeepsSame DEF Ranks
  <2>7. CASE Return(w, "ok", <<>>)
    BY <1>0, <2>1, <2>3, <2>5, <2>6, <2>7, ReturnRanked
  <2>8. CASE task' = [task EXCEPT ![w].pc = "merge"]
    <3>1. DOMAIN task[w] = DOMAIN NoTask /\ DOMAIN task = Workers /\ task[w].locked = <<>>
      BY <1>0, TaskFacts, NothingLocked
    <3>2. task' = [task EXCEPT ![w] = tk]
      BY <2>8, <3>1
    <3>3. tk.locked = <<>> /\ tk.pc = "merge"
      BY <3>1 DEF NoTask
    <3> HIDE DEF tk
    <3>4. Downwards(rank, tk)
      BY <3>3, NoDescent
    <3> QED BY <1>0, <2>1, <2>3, <2>5, <2>6, <3>2, <3>4, StepRanked
  <2> QED BY <2>4, <2>7, <2>8
<1> QED BY <1>1, <1>2

LEMMA SplitSiblingRanked ==
  ASSUME ShapeOK, Ranked, NEW w \in Workers, SplitSibling(w)
  PROVE  Ranked'
<1> DEFINE sib == task[w].sib
           pg == set_prev_page(pages[sib], task[w].child)
           tk == [task[w] EXCEPT !.pc = "ancestors"]
<1>1. PICK rank : Ranks(rank)
  BY DEF Ranked
<1>2. /\ sib \in Leaves(pages) /\ IsPut(pages', pages, sib, pg) /\ Grows(pages, pages')
      /\ IsLeaf(pg) /\ pg.next = pages[sib].next /\ task' = [task EXCEPT ![w] = tk]
  BY SplitSiblingPages
<1>3. UNCHANGED disk /\ task[w].pc = "sibling" /\ DOMAIN task[w] = DOMAIN NoTask
  BY TaskFacts DEF SplitSibling
<1> HIDE DEF sib, pg
<1>4. \A p \in 1..Len(pages') : (p \in 1..Len(pages) /\ pages'[p] = pages[p]) \/ Falls(rank, p, pages'[p])
  BY <1>1, <1>2, LeafPutFalls
<1>5. rank \in [PageIds -> Nat] /\ Keeps(rank, rank, Len(pages))
  BY <1>1, KeepsSame DEF Ranks
<1>6. tk.pc = "ancestors" /\ tk.locked = task[w].locked /\ tk.child = task[w].child
  BY <1>3 DEF NoTask
<1> HIDE DEF tk
<1>7. Downwards(rank, tk)
  BY <1>1, <1>3, <1>6 DEF Ranks, Downwards
<1> QED BY <1>1, <1>2, <1>3, <1>4, <1>5, <1>7, StepRanked

LEMMA LastLowest ==
  ASSUME NEW rank, NEW tk, IsSeq(tk.locked), tk.locked # <<>>, Downwards(rank, tk)
  PROVE  /\ Last(tk.locked) \in ToSet(tk.locked)
         /\ \A p \in ToSet(Front(tk.locked)) : rank[Last(tk.locked)] < rank[p]
<1> DEFINE s == tk.locked
           n == Len(s)
<1>1. /\ n > 0 /\ Last(s) = s[n] /\ Last(s) \in ToSet(s) /\ IsSeq(Front(s)) /\ Len(Front(s)) = n - 1
      /\ \A i \in 1..(n - 1) : Front(s)[i] = s[i]
  BY SeqFront
<1>2. n \in Nat /\ DOMAIN Front(s) = 1..(n - 1)
  BY <1>1, SeqShape
<1>3. ASSUME NEW p \in ToSet(Front(s)) PROVE rank[Last(s)] < rank[p]
  <2>1. PICK i \in 1..(n - 1) : p = Front(s)[i]
    BY <1>2 DEF ToSet
  <2>2. i \in 1..n /\ n \in 1..n /\ i < n /\ p = s[i]
    BY <1>1, <1>2, <2>1
  <2> QED BY <1>1, <2>2 DEF Downwards
<1> QED BY <1>1, <1>3

LEMMA ParentInsertRanked ==
  ASSUME ShapeOK, Ranked, NEW w \in Workers, ParentInsert(w)
  PROVE  Ranked'
<1> DEFINE parent == Last(task[w].locked)
           pg == insert_separator(pages[parent], task[w].sep, task[w].child).page
<1>1. PICK rank : Ranks(rank)
  BY DEF Ranked
<1>2. /\ parent \in 1..Len(pages) /\ IsInner(pages[parent]) /\ IsPut(pages', pages, parent, pg) /\ Grows(pages, pages')
      /\ IsInner(pg) /\ Children(pg) \subseteq Children(pages[parent]) \cup {task[w].child}
  BY ParentInsertPages
<1>3. /\ UNCHANGED disk /\ task[w].pc = "ancestors" /\ task[w].locked # <<>> /\ IsSeq(task[w].locked)
      /\ \E res : Return(w, res, <<>>)
  BY TaskFacts DEF ParentInsert, PlaceOK
<1>4. Downwards(rank, task[w])
  BY <1>1 DEF Ranks
<1>5. rank[task[w].child] < rank[parent]
  BY <1>3, <1>4, LastLowest DEF Downwards
<1> HIDE DEF parent, pg
<1>6. Falls(rank, parent, pg)
  <2>1. pg.kind = "inner" /\ pages[parent].kind = "inner"
    BY <1>2, KindInner
  <2>2. Falls(rank, parent, pages[parent])
    BY <1>1, <1>2 DEF Ranks
  <2> QED BY <1>2, <1>5, <2>1, <2>2 DEF Falls
<1>7. \A p \in 1..Len(pages') : (p \in 1..Len(pages) /\ pages'[p] = pages[p]) \/ Falls(rank, p, pages'[p])
  BY <1>2, <1>6 DEF IsPut
<1>8. rank \in [PageIds -> Nat] /\ Keeps(rank, rank, Len(pages))
  BY <1>1, KeepsSame DEF Ranks
<1> QED BY <1>1, <1>2, <1>3, <1>7, <1>8, ReturnRanked

(* The task of a split: after the leaf, and after the split of a parent. *)
SplitTask(t, leaf, sib, sep, child) ==
  [t EXCEPT !.pc = IF sib = 0 THEN "ancestors" ELSE "sibling",
            !.leaf = leaf, !.sib = sib, !.sep = sep, !.child = child]

RaisedTask(t, sep, child) == [t EXCEPT !.locked = Front(t.locked), !.sep = sep, !.child = child]

LEMMA SplitTaskParts ==
  ASSUME NEW t, DOMAIN t = DOMAIN NoTask, NEW leaf, NEW sib, NEW sep, NEW child,
         NEW tk, tk = SplitTask(t, leaf, sib, sep, child)
  PROVE  /\ tk.pc = IF sib = 0 THEN "ancestors" ELSE "sibling"
         /\ tk.leaf = leaf /\ tk.sib = sib /\ tk.sep = sep /\ tk.child = child
         /\ tk.cur = t.cur /\ tk.locked = t.locked /\ tk.call = t.call /\ tk.path = t.path
BY DEF SplitTask, NoTask

LEMMA RaisedTaskParts ==
  ASSUME NEW t, DOMAIN t = DOMAIN NoTask, NEW sep, NEW child, NEW tk, tk = RaisedTask(t, sep, child)
  PROVE  /\ tk.locked = Front(t.locked) /\ tk.sep = sep /\ tk.child = child
         /\ tk.pc = t.pc /\ tk.cur = t.cur /\ tk.call = t.call /\ tk.path = t.path
<1> DEFINE f == Front(t.locked)
<1>1. tk = [t EXCEPT !.locked = f, !.sep = sep, !.child = child]
  BY DEF RaisedTask
<1> HIDE DEF f
<1>2. /\ tk.locked = f /\ tk.sep = sep /\ tk.child = child
      /\ tk.pc = t.pc /\ tk.cur = t.cur /\ tk.call = t.call /\ tk.path = t.path
  BY <1>1 DEF NoTask
<1> QED BY <1>2 DEF f

(* The leaf split in the form of its pages. *)
LEMMA LeafSplitForm ==
  ASSUME ShapeOK, NEW w \in Workers, LeafSplit(w), NEW cur, cur = task[w].cur,
         ~find_slot(pages[cur], Key(w)).found,
         NEW split, split = LeafHalves(pages[cur], cur, NewPage, LeafEntry(Key(w), task[w].call.rid))
  PROVE  /\ IsSplit(pages', pages, cur, split.old, split.new) /\ Grows(pages, pages')
         /\ cur \in Leaves(pages) /\ cur \in 1..Len(pages) /\ IsLeaf(pages[cur])
         /\ IsLeaf(split.old) /\ IsLeaf(split.new)
         /\ split.old.next = NewPage /\ split.new.next = pages[cur].next
         /\ NewPage = Len(pages) + 1 /\ NewPage \in PageIds
         /\ task' = [task EXCEPT ![w] = SplitTask(task[w], cur, pages[cur].next, split.sep, NewPage)]
<1>1. /\ pages' = Append([pages EXCEPT ![cur] = split.old], split.new)
      /\ Grows(pages, pages') /\ IsLeaf(split.old) /\ IsLeaf(split.new)
      /\ split.old.next = NewPage /\ split.new.next = pages[cur].next
      /\ NewPage = Len(pages) + 1 /\ NewPage \in PageIds
  BY LeafSplitPages
<1>2. cur \in Leaves(pages) /\ cur \in 1..Len(pages) /\ IsLeaf(pages[cur])
  BY LeafSplitFacts
<1>3. IsSplit(pages', pages, cur, split.old, split.new)
  BY <1>1, <1>2, SeqSplit, ShapeFacts
<1>4. DOMAIN task[w] = DOMAIN NoTask /\ DOMAIN task = Workers
  BY TaskFacts
<1>5. task' = [task EXCEPT ![w] = SplitTask(task[w], cur, pages[cur].next, split.sep, NewPage)]
  BY <1>4 DEF LeafSplit, RightSibling, SplitTask
<1> QED BY <1>1, <1>2, <1>3, <1>5

LEMMA LeafSplitRanked ==
  ASSUME ShapeOK, Ranked, NEW w \in Workers, LeafSplit(w)
  PROVE  Ranked'
<1> DEFINE cur == task[w].cur
           split == LeafHalves(pages[cur], cur, NewPage, LeafEntry(Key(w), task[w].call.rid))
           tk == SplitTask(task[w], cur, pages[cur].next, split.sep, NewPage)
           n == NewPage
<1>0. task[w].pc = "descend" /\ UNCHANGED disk
  BY DEF LeafSplit
<1>1. CASE find_slot(pages[cur], Key(w)).found
  <2>1. Return(w, "PageCorruption", <<>>) /\ UNCHANGED <<pages, disk>>
    BY <1>1 DEF LeafSplit
  <2> QED BY <2>1, StopRanked
<1>2. CASE ~find_slot(pages[cur], Key(w)).found
  <2>1. PICK rank : Ranks(rank)
    BY DEF Ranked
  <2>b. cur = task[w].cur /\ split = LeafHalves(pages[cur], cur, NewPage, LeafEntry(Key(w), task[w].call.rid))
    OBVIOUS
  <2>c. DOMAIN task[w] = DOMAIN NoTask
    BY TaskFacts
  <2> HIDE DEF cur, split
  <2>2. /\ IsSplit(pages', pages, cur, split.old, split.new) /\ Grows(pages, pages')
        /\ cur \in Leaves(pages) /\ cur \in 1..Len(pages)
        /\ IsLeaf(split.old) /\ IsLeaf(split.new)
        /\ split.old.next = n /\ split.new.next = pages[cur].next
        /\ n = Len(pages) + 1 /\ n \in PageIds
        /\ task' = [task EXCEPT ![w] = tk]
    BY <1>2, <2>b, LeafSplitForm
  <2>3. /\ tk.pc = (IF pages[cur].next = 0 THEN "ancestors" ELSE "sibling")
        /\ tk.locked = task[w].locked /\ tk.leaf = cur /\ tk.sib = pages[cur].next /\ tk.child = n
    BY <2>c, SplitTaskParts
  <2> HIDE DEF tk
  <2>4. /\ Downwards(rank, task[w]) /\ Falls(rank, cur, pages[cur]) /\ rank \in [PageIds -> Nat]
    BY <2>1, <2>2 DEF Ranks
  <2>5. ToSet(task[w].locked) \subseteq 1..Len(pages) /\ IsSeq(task[w].locked)
    BY TaskFacts DEF PlaceOK, Inners
  <2>a. \A p \in ToSet(task[w].locked) : rank[cur] < rank[p]
    BY <1>0, <2>4, <2>b DEF Downwards
  <2> HIDE DEF n
  <2> DEFINE new == Below(rank, n, cur)
             m == Len(pages)
             nx == pages[cur].next
  <2>6. /\ new \in [PageIds -> Nat] /\ Keeps(rank, new, m) /\ new[n] < new[cur]
        /\ \A q \in 1..m : rank[q] < rank[cur] => new[q] < new[n]
        /\ \A q \in 1..m : rank[cur] < rank[q] => new[n] < new[q]
    BY <2>2, <2>4, BelowRank, ShapeFacts
  <2> HIDE DEF new
  <2>7. nx # 0 => nx \in 1..m /\ rank[nx] < rank[cur]
    BY <2>2, <2>4, ShapeFacts DEF Falls, Leaves
  <2>8. nx # 0 => new[nx] < new[n] /\ new[nx] < new[cur]
    BY <2>2, <2>6, <2>7 DEF Keeps
  <2>9. split.old.kind = "leaf" /\ split.new.kind = "leaf"
    BY <2>2, KindLeaf
  <2>10. Falls(new, cur, split.old) /\ Falls(new, n, split.new)
    BY <2>2, <2>6, <2>8, <2>9 DEF Falls
  <2>11. \A p \in 1..Len(pages') : (p \in 1..m /\ pages'[p] = pages[p]) \/ Falls(new, p, pages'[p])
    <3>1. \A p \in 1..Len(pages') : p = n \/ p \in 1..m
      BY <2>2, ShapeFacts DEF IsSplit
    <3>2. pages'[n] = split.new /\ \A p \in 1..m : pages'[p] = IF p = cur THEN split.old ELSE pages[p]
      BY <2>2 DEF IsSplit
    <3> QED BY <2>10, <3>1, <3>2
  <2>12. Downwards(new, tk)
    <3>1. \A p \in ToSet(task[w].locked) : new[n] < new[p] /\ new[cur] < new[p]
      BY <2>2, <2>5, <2>6, <2>a DEF Keeps
    <3>2. \A i, j \in 1..Len(task[w].locked) : i < j => new[task[w].locked[j]] < new[task[w].locked[i]]
      <4>1. \A i \in 1..Len(task[w].locked) : task[w].locked[i] \in 1..m
        BY <2>5, SeqShape
      <4> QED BY <2>4, <2>6, <4>1 DEF Downwards, Keeps
    <3> QED BY <2>3, <2>8, <3>1, <3>2 DEF Downwards
  <2> QED BY <1>0, <2>1, <2>2, <2>3, <2>6, <2>11, <2>12, StepRanked
<1> QED BY <1>1, <1>2

LEMMA ParentSplitForm ==
  ASSUME ShapeOK, NEW w \in Workers, ParentSplit(w), NEW parent, parent = Last(task[w].locked),
         ~find_separator_slot(pages[parent], task[w].sep).found,
         NEW split, split = split_inner(pages[parent], task[w].sep, task[w].child)
  PROVE  /\ task' = [task EXCEPT ![w] = RaisedTask(task[w], split.sep, NewPage)]
         /\ parent \in 1..Len(pages) /\ parent \in Inners(pages) /\ IsInner(pages[parent])
         /\ Children(split.old) \subseteq Children(pages[parent]) \cup {task[w].child}
         /\ Children(split.new) \subseteq Children(pages[parent]) \cup {task[w].child}
<1>0. task[w].pc = "ancestors" /\ task[w].locked # <<>> /\ inner_is_full(pages[parent])
  BY DEF ParentSplit
<1>1. DOMAIN task[w] = DOMAIN NoTask /\ DOMAIN task = Workers
  BY TaskFacts
<1>2. task' = [task EXCEPT ![w] = RaisedTask(task[w], split.sep, NewPage)]
  BY <1>1 DEF ParentSplit, NoTask, RaisedTask
<1>3. parent \in 1..Len(pages) /\ parent \in Inners(pages) /\ IsInner(pages[parent]) /\ task[w].sep \in Nat
  BY <1>0, ParentFacts
<1>4. /\ Children(split.old) \subseteq Children(pages[parent]) \cup {task[w].child}
      /\ Children(split.new) \subseteq Children(pages[parent]) \cup {task[w].child}
  BY <1>0, <1>3, HalvesChildren
<1> QED BY <1>2, <1>3, <1>4

LEMMA ParentSplitRanked ==
  ASSUME ShapeOK, Ranked, NEW w \in Workers, ParentSplit(w)
  PROVE  Ranked'
<1> DEFINE parent == Last(task[w].locked)
           split == split_inner(pages[parent], task[w].sep, task[w].child)
           tk == RaisedTask(task[w], split.sep, NewPage)
           n == NewPage
<1>0. task[w].pc = "ancestors" /\ task[w].locked # <<>> /\ UNCHANGED disk
  BY DEF ParentSplit
<1>1. CASE find_separator_slot(pages[parent], task[w].sep).found
  <2>1. Return(w, "PageCorruption", <<>>) /\ UNCHANGED <<pages, disk>>
    BY <1>1 DEF ParentSplit
  <2> QED BY <2>1, StopRanked
<1>2. CASE ~find_separator_slot(pages[parent], task[w].sep).found
  <2>1. PICK rank : Ranks(rank)
    BY DEF Ranked
  <2>2. /\ IsSplit(pages', pages, parent, split.old, split.new) /\ Grows(pages, pages')
        /\ IsInner(split.old) /\ IsInner(split.new)
        /\ n = Len(pages) + 1 /\ n \in PageIds
    BY <1>2, ParentSplitPages
  <2>b. parent = Last(task[w].locked) /\ split = split_inner(pages[parent], task[w].sep, task[w].child)
    OBVIOUS
  <2>c. DOMAIN task[w] = DOMAIN NoTask
    BY TaskFacts
  <2> HIDE DEF parent, split
  <2>d. tk.pc = "ancestors" /\ tk.locked = Front(task[w].locked) /\ tk.child = n
    BY <1>0, <2>c, RaisedTaskParts
  <2>3. /\ task' = [task EXCEPT ![w] = tk]
        /\ parent \in 1..Len(pages) /\ IsInner(pages[parent])
        /\ Children(split.old) \subseteq Children(pages[parent]) \cup {task[w].child}
        /\ Children(split.new) \subseteq Children(pages[parent]) \cup {task[w].child}
    BY <1>2, <2>b, ParentSplitForm
  <2> HIDE DEF tk
  <2>4. Downwards(rank, task[w]) /\ Falls(rank, parent, pages[parent]) /\ rank \in [PageIds -> Nat]
    BY <2>1, <2>3 DEF Ranks
  <2>5. /\ ToSet(task[w].locked) \subseteq 1..Len(pages) /\ IsSeq(task[w].locked) /\ task[w].child \in 1..Len(pages)
        /\ Children(pages[parent]) \subseteq 1..Len(pages)
    BY <1>0, <2>b, ParentFacts, TaskFacts DEF PlaceOK, Inners
  <2>6. rank[task[w].child] < rank[parent] /\ \A p \in ToSet(Front(task[w].locked)) : rank[parent] < rank[p]
    BY <1>0, <2>4, <2>5, <2>b, LastLowest DEF Downwards
  <2>a. /\ IsSeq(Front(task[w].locked)) /\ ToSet(Front(task[w].locked)) \subseteq ToSet(task[w].locked)
        /\ Len(Front(task[w].locked)) = Len(task[w].locked) - 1 /\ Len(task[w].locked) \in Nat
        /\ \A i \in 1..(Len(task[w].locked) - 1) : Front(task[w].locked)[i] = task[w].locked[i]
    BY <1>0, <2>5, SeqFront, SeqShape
  <2> HIDE DEF n
  <2> DEFINE new == Below(rank, n, parent)
             m == Len(pages)
             f == Front(task[w].locked)
  <2>7. /\ new \in [PageIds -> Nat] /\ Keeps(rank, new, m) /\ new[n] < new[parent]
        /\ \A q \in 1..m : rank[q] < rank[parent] => new[q] < new[n]
        /\ \A q \in 1..m : rank[parent] < rank[q] => new[n] < new[q]
    BY <2>2, <2>3, <2>4, BelowRank, ShapeFacts
  <2> HIDE DEF new
  <2>8. \A c \in Children(pages[parent]) \cup {task[w].child} : rank[c] < rank[parent] /\ c \in 1..m
    BY <2>3, <2>4, <2>5, <2>6, KindInner DEF Falls
  <2>9. \A c \in Children(pages[parent]) \cup {task[w].child} : new[c] < new[parent] /\ new[c] < new[n]
    BY <2>3, <2>7, <2>8 DEF Keeps
  <2>10. Falls(new, parent, split.old) /\ Falls(new, n, split.new)
    <3>1. split.old.kind = "inner" /\ split.new.kind = "inner"
      BY <2>2, KindInner
    <3> QED BY <2>3, <2>9, <3>1 DEF Falls
  <2>11. \A p \in 1..Len(pages') : (p \in 1..m /\ pages'[p] = pages[p]) \/ Falls(new, p, pages'[p])
    <3>1. \A p \in 1..Len(pages') : p = n \/ p \in 1..m
      BY <2>2, ShapeFacts DEF IsSplit
    <3>2. pages'[n] = split.new /\ \A p \in 1..m : pages'[p] = IF p = parent THEN split.old ELSE pages[p]
      BY <2>2 DEF IsSplit
    <3> QED BY <2>10, <3>1, <3>2
  <2>12. Downwards(new, tk)
    <3>1. \A p \in ToSet(f) : new[n] < new[p]
      BY <2>5, <2>6, <2>7, <2>a
    <3>2. \A i, j \in 1..Len(f) : i < j => new[f[j]] < new[f[i]]
      <4>1. \A i \in 1..Len(f) : i \in 1..Len(task[w].locked) /\ f[i] = task[w].locked[i] /\ f[i] \in 1..m
        BY <2>5, <2>a, SeqShape
      <4> HIDE DEF f
      <4> QED BY <2>4, <2>7, <4>1 DEF Downwards, Keeps
    <3> QED BY <2>d, <3>1, <3>2 DEF Downwards
  <2> QED BY <1>0, <2>1, <2>2, <2>3, <2>7, <2>11, <2>12, StepRanked
<1> QED BY <1>1, <1>2

LEMMA NewRootRanked ==
  ASSUME ShapeOK, Ranked, NEW w \in Workers, NewRoot(w)
  PROVE  Ranked'
<1> DEFINE top == insert_separator(init_inner(root), task[w].sep, task[w].child).page
           n == NewPage
           m == Len(pages)
<1>1. PICK rank : Ranks(rank)
  BY DEF Ranked
<1>2. /\ IsAdd(pages', pages, top) /\ Grows(pages, pages')
      /\ root \in 1..m /\ IsInner(top) /\ Children(top) \subseteq {root, task[w].child}
      /\ n = m + 1 /\ n \in PageIds
  BY NewRootPages
<1>3. UNCHANGED disk /\ Return(w, "ok", <<>>) /\ task[w].pc = "ancestors"
  BY DEF NewRoot
<1>4. task[w].child \in 1..m /\ rank \in [PageIds -> Nat] /\ 1..m \subseteq PageIds /\ m \in Nat
  BY <1>1, <1>3, TaskFacts, ShapeFacts DEF PlaceOK, Ranks
<1> DEFINE c == task[w].child
           new == [rank EXCEPT ![n] = rank[root] + rank[c] + 1]
<1> HIDE DEF top, n
<1>5. rank[root] \in Nat /\ rank[c] \in Nat
  BY <1>2, <1>4
<1>6. /\ new \in [PageIds -> Nat] /\ new[n] = rank[root] + rank[c] + 1
      /\ \A q \in 1..m : new[q] = rank[q]
  BY <1>2, <1>4, <1>5, SMTT(20)
<1> HIDE DEF new
<1>7. Keeps(rank, new, m)
  BY <1>6 DEF Keeps
<1>8. new[root] < new[n] /\ new[c] < new[n]
  BY <1>2, <1>4, <1>5, <1>6
<1>9. Falls(new, n, top)
  BY <1>2, <1>8, KindInner DEF Falls
<1>10. \A p \in 1..Len(pages') : (p \in 1..m /\ pages'[p] = pages[p]) \/ Falls(new, p, pages'[p])
  <2>1. Len(pages') = n /\ pages'[n] = top /\ \A p \in 1..m : pages'[p] = pages[p]
    BY <1>2 DEF IsAdd
  <2>2. \A p \in 1..n : p = n \/ p \in 1..m
    BY <1>2, <1>4
  <2> QED BY <1>9, <2>1, <2>2
<1> QED BY <1>1, <1>2, <1>3, <1>6, <1>7, <1>10, ReturnRanked

LEMMA ReloadRanked ==
  ASSUME ShapeOK, Ranked, Reload
  PROVE  Ranked'
<1>1. PICK rank : Ranks(rank)
  BY DEF Ranked
<1>2. /\ pages' = [p \in DOMAIN pages |-> IF p \in dirty THEN pages[p] ELSE disk[p]]
      /\ disk' = pages' /\ task' = task
  BY DEF Reload
<1>3. Len(pages') = Len(pages) /\ DOMAIN pages = 1..Len(pages) /\ (1..Len(pages)) \ dirty \subseteq DOMAIN disk
  BY ReloadShape, ShapeFacts DEF ShapeOK, TreeOK
<1>4. \A p \in 1..Len(pages) : Falls(rank, p, pages'[p])
  <2> SUFFICES ASSUME NEW p \in 1..Len(pages) PROVE Falls(rank, p, pages'[p])
    OBVIOUS
  <2>1. pages'[p] = IF p \in dirty THEN pages[p] ELSE disk[p]
    BY <1>2, <1>3
  <2> QED BY <1>1, <1>3, <2>1 DEF Ranks
<1>5. DOMAIN pages' = 1..Len(pages)
  BY <1>2, <1>3
<1>6. Ranks(rank)'
  BY <1>1, <1>2, <1>3, <1>4, <1>5 DEF Ranks
<1> QED BY <1>6 DEF Ranked

(* The task of an insert one level down. *)
CrabTask(t, next, locked) == [t EXCEPT !.cur = next, !.locked = locked]

LEMMA CrabForm ==
  ASSUME ShapeOK, NEW w \in Workers, CrabInner(w), NEW cur, cur = task[w].cur,
         NEW above, above = Above(w, inner_safe_for_insert(pages[cur])),
         NEW next, next = find_child(pages[cur], Key(w)),
         NEW tk, tk = CrabTask(task[w], next, Append(above, cur))
  PROVE  /\ task[w].pc = "descend" /\ task[w].call.op = "insert" /\ latch[cur] = NoOne
         /\ cur \in Inners(pages) /\ cur \in 1..Len(pages) /\ IsInner(pages[cur])
         /\ Children(pages[cur]) \subseteq 1..Len(pages)
         /\ Key(w) \in Nat /\ next \in Children(pages[cur]) /\ next \in 1..Len(pages)
         /\ IsSeq(task[w].locked) /\ IsSeq(above) /\ (above = <<>> \/ above = task[w].locked)
         /\ IsAdd(tk.locked, above, cur) /\ ToSet(tk.locked) = ToSet(above) \cup {cur}
         /\ tk.pc = "descend" /\ tk.cur = next /\ tk.call = task[w].call
         /\ task' = [task EXCEPT ![w] = tk]
<1>0. task[w].pc = "descend" /\ task[w].call.op = "insert" /\ latch[cur] = NoOne /\ pages[cur].kind = "inner"
  BY DEF CrabInner, Free
<1>1. /\ DOMAIN task[w] = DOMAIN NoTask /\ DOMAIN task = Workers
      /\ cur \in 1..Len(pages) /\ IsSeq(task[w].locked)
  BY <1>0, TaskFacts DEF PlaceOK, AtPage
<1>2. cur \in Inners(pages) /\ IsInner(pages[cur]) /\ Children(pages[cur]) \subseteq 1..Len(pages)
  BY <1>0, <1>1, ShapeFacts DEF Inners
<1>3. Key(w) \in Nat /\ Key(w) \in Int
  BY <1>0, KeyOfCall
<1>4. next \in Children(pages[cur])
  BY <1>2, <1>3, FindChildIn DEF IsInner
<1>5. IsSeq(above) /\ (above = <<>> \/ above = task[w].locked)
  BY <1>1, EmptyIsSeq DEF Above
<1>6. task' = [task EXCEPT ![w] = tk]
  BY <1>1 DEF CrabInner, CrabTask
<1> DEFINE l == Append(above, cur)
<1>7. IsAdd(l, above, cur) /\ ToSet(l) = ToSet(above) \cup {cur}
  BY <1>5, SeqAdd, SeqAddSet
<1>8. tk = [task[w] EXCEPT !.cur = next, !.locked = l]
  BY DEF CrabTask
<1> HIDE DEF l
<1>9. tk.pc = "descend" /\ tk.cur = next /\ tk.call = task[w].call /\ tk.locked = l
  BY <1>0, <1>1, <1>8 DEF NoTask
<1> QED BY <1>0, <1>1, <1>2, <1>3, <1>4, <1>5, <1>6, <1>7, <1>9

LEMMA CrabInnerRanked ==
  ASSUME ShapeOK, Ranked, NEW w \in Workers, CrabInner(w)
  PROVE  Ranked'
<1> DEFINE cur == task[w].cur
           above == Above(w, inner_safe_for_insert(pages[cur]))
           next == find_child(pages[cur], Key(w))
           tk == CrabTask(task[w], next, Append(above, cur))
<1>a. UNCHANGED <<pages, disk>>
  BY DEF CrabInner
<1>b. /\ cur = task[w].cur /\ above = Above(w, inner_safe_for_insert(pages[cur]))
      /\ next = find_child(pages[cur], Key(w)) /\ tk = CrabTask(task[w], next, Append(above, cur))
  OBVIOUS
<1> HIDE DEF cur, above, next, tk
<1>1. PICK rank : Ranks(rank)
  BY DEF Ranked
<1>2. /\ task[w].pc = "descend" /\ cur \in 1..Len(pages) /\ IsInner(pages[cur]) /\ next \in Children(pages[cur])
      /\ IsSeq(above) /\ (above = <<>> \/ above = task[w].locked)
      /\ IsAdd(tk.locked, above, cur) /\ ToSet(tk.locked) = ToSet(above) \cup {cur}
      /\ tk.pc = "descend" /\ tk.cur = next /\ task' = [task EXCEPT ![w] = tk]
  BY <1>b, CrabForm
<1>3. rank \in [PageIds -> Nat] /\ Downwards(rank, task[w]) /\ Falls(rank, cur, pages[cur])
  BY <1>1, <1>2 DEF Ranks
<1>4. rank[next] < rank[cur]
  BY <1>2, <1>3, KindInner DEF Falls
<1>5. /\ \A p \in ToSet(above) : rank[cur] < rank[p]
      /\ \A i, j \in 1..Len(above) : i < j => rank[above[j]] < rank[above[i]]
  <2>1. CASE above = <<>>
    BY <2>1, EmptyIsSeq
  <2>2. CASE above = task[w].locked
    BY <1>2, <1>3, <1>b, <2>2 DEF Downwards
  <2> QED BY <1>2, <2>1, <2>2
<1>6. Len(above) \in Nat /\ (\A i \in 1..Len(above) : above[i] \in ToSet(above)) /\ ToSet(above) \subseteq 1..Len(pages)
  <2>1. ToSet(above) \subseteq 1..Len(pages)
    BY <1>2, TaskFacts, EmptyIsSeq DEF PlaceOK, Inners
  <2> QED BY <1>2, <2>1, SeqShape
<1>7. /\ \A p \in 1..Len(pages) : rank[p] \in Nat
      /\ next \in 1..Len(pages)
  <2>1. next \in 1..Len(pages)
    BY <1>b, CrabForm
  <2>2. 1..Len(pages) \subseteq PageIds
    BY ShapeFacts
  <2> QED BY <1>3, <2>1, <2>2
<1>8. \A p \in ToSet(tk.locked) : rank[next] < rank[p]
  <2>1. ASSUME NEW p \in ToSet(above) PROVE rank[next] < rank[p]
    <3>1. rank[cur] < rank[p] /\ p \in 1..Len(pages)
      BY <1>5, <1>6
    <3>2. rank[next] \in Nat /\ rank[cur] \in Nat /\ rank[p] \in Nat
      BY <1>2, <1>7, <3>1
    <3> QED BY <1>4, <3>1, <3>2
  <2> QED BY <1>2, <1>4, <2>1
<1>9. \A i, j \in 1..Len(tk.locked) : i < j => rank[tk.locked[j]] < rank[tk.locked[i]]
  <2> SUFFICES ASSUME NEW i \in 1..Len(tk.locked), NEW j \in 1..Len(tk.locked), i < j
               PROVE  rank[tk.locked[j]] < rank[tk.locked[i]]
    OBVIOUS
  <2>1. Len(tk.locked) = Len(above) + 1 /\ tk.locked[Len(above) + 1] = cur /\ \A k \in 1..Len(above) : tk.locked[k] = above[k]
    BY <1>2 DEF IsAdd
  <2>2. i \in 1..Len(above) /\ tk.locked[i] = above[i] /\ above[i] \in ToSet(above)
    BY <1>6, <2>1
  <2>3. CASE j \in 1..Len(above)
    BY <1>5, <2>1, <2>2, <2>3
  <2>4. CASE j = Len(above) + 1
    BY <1>5, <2>1, <2>2, <2>4
  <2> QED BY <1>6, <2>1, <2>3, <2>4
<1>10. Downwards(rank, tk)
  BY <1>2, <1>8, <1>9 DEF Downwards
<1> QED BY <1>1, <1>2, <1>a, <1>10, ReadRanked

(* A task that holds no inner page moves on and reads only. *)
LEMMA PlainRanked ==
  ASSUME ShapeOK, Ranked, NEW w \in Workers, UNCHANGED <<pages, disk>>,
         NEW tk, task' = [task EXCEPT ![w] = tk], tk.locked = <<>>, tk.pc # "sibling"
  PROVE  Ranked'
<1>1. PICK rank : Ranks(rank)
  BY DEF Ranked
<1> QED BY <1>1, NoDescent, ReadRanked

LEMMA CallRanked ==
  ASSUME ShapeOK, Ranked, NEW w \in Workers, NEW c, Call(w, c)
  PROVE  Ranked'
<1> DEFINE tk == [NoTask EXCEPT !.pc = "root", !.call = c]
<1>1. task' = [task EXCEPT ![w] = tk] /\ UNCHANGED <<pages, disk>>
  BY DEF Call, treeVars
<1>2. tk.locked = <<>> /\ tk.pc = "root"
  BY DEF NoTask
<1> HIDE DEF tk
<1> QED BY <1>1, <1>2, PlainRanked

LEMMA ReadRootRanked ==
  ASSUME ShapeOK, Ranked, NEW w \in Workers, ReadRoot(w)
  PROVE  Ranked'
<1>0. task[w].pc = "root" /\ UNCHANGED <<pages, disk>>
  BY DEF ReadRoot
<1>1. DOMAIN task[w] = DOMAIN NoTask /\ DOMAIN task = Workers /\ task[w].locked = <<>>
  BY <1>0, TaskFacts, NothingLocked
<1>2. \/ task' = [task EXCEPT ![w].pc = "descend", ![w].cur = root]
      \/ task' = [task EXCEPT ![w].pc = "first"]
      \/ \E res : Return(w, res, <<>>)
  BY DEF ReadRoot
<1>3. CASE task' = [task EXCEPT ![w].pc = "descend", ![w].cur = root]
  <2> DEFINE tk == [task[w] EXCEPT !.pc = "descend", !.cur = root]
  <2>1. task' = [task EXCEPT ![w] = tk]
    BY <1>1, <1>3
  <2>2. tk.locked = <<>> /\ tk.pc = "descend"
    BY <1>1 DEF NoTask
  <2> HIDE DEF tk
  <2> QED BY <1>0, <2>1, <2>2, PlainRanked
<1>4. CASE task' = [task EXCEPT ![w].pc = "first"]
  <2> DEFINE tk == [task[w] EXCEPT !.pc = "first"]
  <2>1. task' = [task EXCEPT ![w] = tk]
    BY <1>1, <1>4
  <2>2. tk.locked = <<>> /\ tk.pc = "first"
    BY <1>1 DEF NoTask
  <2> HIDE DEF tk
  <2> QED BY <1>0, <2>1, <2>2, PlainRanked
<1>5. CASE \E res : Return(w, res, <<>>)
  BY <1>0, <1>5, StopRanked
<1> QED BY <1>2, <1>3, <1>4, <1>5

LEMMA DescendRanked ==
  ASSUME ShapeOK, Ranked, NEW w \in Workers, Descend(w)
  PROVE  Ranked'
<1> DEFINE cur == task[w].cur
           next == find_child(pages[cur], Key(w))
           path == IF task[w].call.op = "delete" THEN Append(task[w].path, cur) ELSE task[w].path
           tk1 == [task[w] EXCEPT !.cur = next, !.path = path]
           tk2 == [task[w] EXCEPT !.pc = task[w].call.op]
<1>0. /\ task[w].pc = "descend" /\ task[w].call.op # "insert" /\ UNCHANGED <<pages, disk>>
  BY DEF Descend, treeVars
<1>1. /\ DOMAIN task[w] = DOMAIN NoTask /\ DOMAIN task = Workers /\ task[w].locked = <<>>
      /\ task[w].call.op \in {"get", "scan", "delete"}
  BY <1>0, TaskFacts, NothingLocked DEF PcOK, CallOK
<1>2. task' = [task EXCEPT ![w] = tk1] \/ task' = [task EXCEPT ![w] = tk2]
  BY <1>1 DEF Descend, NoTask
<1> HIDE DEF next, path
<1>3. tk1.locked = <<>> /\ tk1.pc = "descend" /\ tk2.locked = <<>> /\ tk2.pc = task[w].call.op
  BY <1>0, <1>1 DEF NoTask
<1> HIDE DEF tk1, tk2
<1>4. tk2.pc # "sibling"
  BY <1>1, <1>3
<1> QED BY <1>0, <1>2, <1>3, <1>4, PlainRanked

LEMMA ScanLeafRanked ==
  ASSUME ShapeOK, Ranked, NEW w \in Workers, ScanLeaf(w)
  PROVE  Ranked'
<1> DEFINE next == pages[task[w].cur].next
           out == task[w].out \o Yielded(Buffered(w, pages[task[w].cur].entries))
           tk == [task[w] EXCEPT !.cur = next, !.first = FALSE, !.out = out]
<1>0. task[w].pc = "scan" /\ UNCHANGED <<pages, disk>>
  BY DEF ScanLeaf
<1>1. DOMAIN task[w] = DOMAIN NoTask /\ DOMAIN task = Workers /\ task[w].locked = <<>>
  BY <1>0, TaskFacts, NothingLocked
<1>2. Return(w, "ok", out) \/ task' = [task EXCEPT ![w] = tk]
  BY <1>1 DEF ScanLeaf, NoTask
<1> HIDE DEF out, next
<1>3. tk.locked = <<>> /\ tk.pc = "scan"
  BY <1>0, <1>1 DEF NoTask
<1> HIDE DEF tk
<1> QED BY <1>0, <1>2, <1>3, PlainRanked, StopRanked

LEMMA MergeRanked ==
  ASSUME ShapeOK, Ranked, NEW w \in Workers, MergeParent(w) \/ MergeSurvivor(w)
  PROVE  Ranked'
<1> DEFINE sib == CHOOSE p \in MergeSurvivors(pages[Last(task[w].path)], task[w].cur) : TRUE
           parent == Last(task[w].path)
           tk1 == [task[w] EXCEPT !.pc = "survivor", !.leaf = parent, !.sib = sib]
           tk2 == [task[w] EXCEPT !.pc = "removed", !.sib = task[w].cur]
<1>0. task[w].pc \in {"merge", "survivor"} /\ UNCHANGED <<pages, disk>>
  BY DEF MergeParent, MergeSurvivor
<1>1. DOMAIN task[w] = DOMAIN NoTask /\ DOMAIN task = Workers /\ task[w].locked = <<>>
  BY <1>0, TaskFacts, NothingLocked
<1>2. Return(w, "ok", <<>>) \/ task' = [task EXCEPT ![w] = tk1] \/ task' = [task EXCEPT ![w] = tk2]
  BY <1>1 DEF MergeParent, MergeSurvivor, NoTask
<1> HIDE DEF sib, parent
<1>3. tk1.locked = <<>> /\ tk1.pc = "survivor" /\ tk2.locked = <<>> /\ tk2.pc = "removed"
  BY <1>1 DEF NoTask
<1> HIDE DEF tk1, tk2
<1> QED BY <1>0, <1>2, <1>3, PlainRanked, StopRanked

LEMMA InitRanked == Init => Ranked
<1> SUFFICES ASSUME Init PROVE Ranked
  OBVIOUS
<1> DEFINE rank == [p \in PageIds |-> 0]
<1>1. Len(pages) = 0 /\ DOMAIN disk = {} /\ \A w \in Workers : task[w] = NoTask
  BY EmptyIsSeq, SeqShape DEF Init
<1>2. NoTask.locked = <<>> /\ NoTask.pc = "idle"
  BY DEF NoTask
<1>3. rank \in [PageIds -> Nat]
  OBVIOUS
<1> HIDE DEF rank
<1>4. Downwards(rank, NoTask)
  BY <1>2, NoDescent
<1>5. Ranks(rank)
  BY <1>1, <1>3, <1>4 DEF Ranks
<1> QED BY <1>5 DEF Ranked

LEMMA NextRanked == ShapeOK /\ Ranked /\ [Next]_indexVars => Ranked'
<1> SUFFICES ASSUME ShapeOK, Ranked, [Next]_indexVars PROVE Ranked'
  OBVIOUS
<1>1. CASE UNCHANGED indexVars
  <2>1. UNCHANGED <<pages, disk, task>>
    BY <1>1 DEF indexVars, treeVars
  <2> QED BY <2>1 DEF Ranked, Ranks
<1>2. CASE Reload
  BY <1>2, ReloadRanked
<1>3. ASSUME NEW w \in Workers, Fail(w) PROVE Ranked'
  <2>1. Return(w, "BufferError", <<>>) /\ UNCHANGED <<pages, disk>>
    BY <1>3 DEF Fail
  <2> QED BY <2>1, StopRanked
<1>4. ASSUME NEW w \in Workers, NEW c, Call(w, c) PROVE Ranked'
  BY <1>4, CallRanked
<1>5. ASSUME NEW w \in Workers, Work(w) PROVE Ranked'
  <2>1. CASE ReadRoot(w)
    BY <2>1, ReadRootRanked
  <2>2. CASE FirstInsert(w)
    BY <2>2, FirstInsertRanked
  <2>3. CASE CrabInner(w)
    BY <2>3, CrabInnerRanked
  <2>4. CASE LeafInsert(w)
    BY <2>4, LeafInsertRanked
  <2>5. CASE LeafSplit(w)
    BY <2>5, LeafSplitRanked
  <2>6. CASE SplitSibling(w)
    BY <2>6, SplitSiblingRanked
  <2>7. CASE ParentInsert(w)
    BY <2>7, ParentInsertRanked
  <2>8. CASE ParentSplit(w)
    BY <2>8, ParentSplitRanked
  <2>9. CASE NewRoot(w)
    BY <2>9, NewRootRanked
  <2>10. CASE Descend(w)
    BY <2>10, DescendRanked
  <2>11. CASE Get(w)
    <3>1. UNCHANGED <<pages, disk>> /\ \E res, out : Return(w, res, out)
      BY <2>11 DEF Get
    <3> QED BY <3>1, StopRanked
  <2>12. CASE ScanLeaf(w)
    BY <2>12, ScanLeafRanked
  <2>13. CASE DeleteLeaf(w)
    BY <2>13, DeleteLeafRanked
  <2>14. CASE MergeParent(w) \/ MergeSurvivor(w)
    BY <2>14, MergeRanked
  <2> QED BY <1>5, <2>1, <2>2, <2>3, <2>4, <2>5, <2>6, <2>7, <2>8, <2>9, <2>10, <2>11, <2>12, <2>13,
             <2>14 DEF Work, InsertIntoAncestors
<1> QED BY <1>1, <1>2, <1>3, <1>4, <1>5 DEF Next

(* The page a task waits for ranks below every page it holds. *)
LEMMA WantsLower ==
  ASSUME ShapeOK, NEW rank, Ranks(rank), NEW v \in Workers, task[v].pc \notin {"merge", "survivor", "removed"},
         NEW p \in Held(v), NEW q \in Wants(v)
  PROVE  rank[q] < rank[p] /\ q \in 1..Len(pages)
<1>1. p \in Claim(task[v]) /\ Downwards(rank, task[v]) /\ rank \in [PageIds -> Nat]
  BY TaskFacts DEF Ranks
<1>2. PlaceOK(task[v], pages) /\ (ToSet(task[v].locked) # {} => task[v].pc \in {"descend", "sibling", "ancestors"})
  BY TaskFacts, NothingLocked
<1>3. CASE task[v].pc = "sibling"
  <2>1. q = task[v].sib /\ (p \in ToSet(task[v].locked) \/ p = task[v].leaf)
    BY <1>1, <1>3 DEF Claim, Wants
  <2>2. rank[task[v].sib] < rank[task[v].leaf] /\ (p \in ToSet(task[v].locked) => rank[task[v].leaf] < rank[p])
    BY <1>1, <1>3 DEF Downwards
  <2>3. task[v].sib \in Leaves(pages) /\ task[v].leaf \in Leaves(pages)
    BY <1>2, <1>3 DEF PlaceOK
  <2>4. task[v].sib \in PageIds /\ task[v].leaf \in PageIds /\ p \in PageIds /\ task[v].sib \in 1..Len(pages)
    BY <2>3, ShapeFacts DEF Held
  <2>5. rank[task[v].sib] \in Nat /\ rank[task[v].leaf] \in Nat /\ rank[p] \in Nat
    BY <1>1, <2>4
  <2> QED BY <2>1, <2>2, <2>4, <2>5
<1>4. CASE task[v].pc # "sibling"
  <2>1. p \in ToSet(task[v].locked)
    BY <1>1, <1>4 DEF Claim
  <2>2. task[v].pc = "descend" /\ q = task[v].cur
    BY <1>2, <1>4, <2>1 DEF Wants
  <2>3. task[v].cur \in 1..Len(pages)
    BY <1>2, <2>2 DEF PlaceOK, AtPage
  <2> QED BY <1>1, <2>1, <2>2, <2>3 DEF Downwards
<1> QED BY <1>3, <1>4

LEMMA RankedBlocks ==
  ASSUME ShapeOK, Ranked
  PROVE  OnlyMergesBlock
<1>1. PICK rank : Ranks(rank)
  BY DEF Ranked
<1> SUFFICES ASSUME NEW group \in (SUBSET Workers) \ {{}},
                    \A w \in group : \E p \in Wants(w) : latch[p] \in group,
                    \A w \in group : task[w].pc \notin {"merge", "survivor", "removed"}
             PROVE  FALSE
  BY DEF OnlyMergesBlock
<1> DEFINE Waited == {p \in 1..Len(pages) : \E w \in group : p \in Wants(w) /\ latch[p] \in group}
           R == {rank[p] : p \in Waited}
<1>2. \A p \in 1..Len(pages) : rank[p] \in Nat /\ p \in PageIds
  BY <1>1, ShapeFacts DEF Ranks
<1>3. ASSUME NEW w \in group, NEW p \in Wants(w), latch[p] \in group PROVE p \in Waited
  <2>1. PlaceOK(task[w], pages) /\ PcOK(task[w]) /\ w \in Workers
    BY TaskFacts
  <2>2. task[w].pc \in {"descend", "get", "scan", "delete", "sibling"}
    BY <1>3 DEF Wants
  <2>3. p \in 1..Len(pages)
    BY <2>1, <2>2, <1>3, ShapeFacts DEF Wants, PlaceOK, AtPage
  <2> QED BY <1>3, <2>3
<1>4. R # {}
  <2>1. PICK w \in group : TRUE
    OBVIOUS
  <2>2. PICK p \in Wants(w) : latch[p] \in group
    BY <2>1
  <2>3. p \in Waited
    BY <1>3, <2>2
  <2> QED BY <2>3
<1>5. R \in SUBSET Nat
  BY <1>2
<1>6. PICK m \in R : \A k \in R : m <= k
  <2> HIDE DEF R
  <2> QED BY <1>4, <1>5, LeastNatural
<1>7. PICK p \in Waited : rank[p] = m
  BY <1>6
<1> DEFINE v == latch[p]
<1>8. v \in group /\ v \in Workers /\ p \in Held(v)
  BY <1>2, <1>7 DEF Held
<1>9. PICK q \in Wants(v) : latch[q] \in group
  BY <1>8
<1>10. q \in Waited
  BY <1>3, <1>8, <1>9
<1>11. rank[q] < rank[p]
  BY <1>1, <1>8, WantsLower
<1>12. rank[q] \in R /\ rank[q] \in Nat /\ rank[p] \in Nat
  BY <1>2, <1>7, <1>10
<1> HIDE DEF R, Waited, v
<1> QED BY <1>6, <1>7, <1>11, <1>12

(* No set of calls wait in a cycle for each other's page latches, except   *)
(* through try_merge_leaf: crabbing and split_leaf take latches in the     *)
(* order of falling rank.                                                  *)
THEOREM MergesAlone == Spec => []OnlyMergesBlock
<1>1. Init => ShapeOK /\ Ranked
  BY InitShape, InitRanked
<1>2. (ShapeOK /\ Ranked) /\ [Next]_indexVars => (ShapeOK /\ Ranked)'
  BY NextShape, NextRanked
<1>3. ShapeOK /\ Ranked => OnlyMergesBlock
  BY RankedBlocks
<1> QED BY <1>1, <1>2, <1>3, PTL DEF Spec

-----------------------------------------------------------------------------
(* The ranges of keys of the pages *)

(* The page p of a level holds the keys from lo[p] to the next lo of the   *)
(* level.                                                                  *)
Within(lo, lev, n, p, k) ==
  /\ lo[p] <= k
  /\ \A q \in 1..n : lev[q] = lev[p] /\ lo[p] < lo[q] => k < lo[q]

(* The right sibling of a leaf is the next one of its level. *)
NextSound(lo, lev, n, p, next) ==
  /\ next = 0 => \A q \in 1..n : lev[q] = 0 => lo[q] <= lo[p]
  /\ next # 0 => /\ lev[next] = 0 /\ lo[p] < lo[next]
                 /\ \A q \in 1..n : lev[q] = 0 /\ lo[p] < lo[q] => lo[next] <= lo[q]

LeafSound(lo, lev, n, p, pg) ==
  /\ lev[p] = 0
  /\ \A e \in ToSet(pg.entries) : Within(lo, lev, n, p, e.key)
  /\ NextSound(lo, lev, n, p, pg.next)

(* A separator is the lower end of its subtree. *)
InnerSound(lo, lev, n, p, pg) ==
  /\ lev[p] > 0
  /\ lo[pg.leftmost] = lo[p] /\ lev[pg.leftmost] + 1 = lev[p]
  /\ \A e \in ToSet(pg.entries) : /\ Within(lo, lev, n, p, e.key) /\ lo[p] < e.key
                                  /\ lo[e.child] = e.key /\ lev[e.child] + 1 = lev[p]

PageSound(lo, lev, n, p, pg) ==
  /\ pg.kind = "leaf" => LeafSound(lo, lev, n, p, pg)
  /\ pg.kind = "inner" => InnerSound(lo, lev, n, p, pg)

(* No two pages of a level begin at the same key. *)
Apart(lo, lev, n) == \A p, q \in 1..n : lev[p] = lev[q] /\ lo[p] = lo[q] => p = q

TopSound(lo, lev, n, rt) == rt # 0 => lo[rt] = -1 /\ \A p \in 1..n : lev[p] <= lev[rt]

(* The ghost functions. *)
IsBounds(lo, lev) == lo \in [PageIds -> Int] /\ lev \in [PageIds -> Nat] /\ \A p \in PageIds : lo[p] >= -1

TreeSound(lo, lev, rt, pgs) ==
  /\ IsBounds(lo, lev)
  /\ \A p \in 1..Len(pgs) : PageSound(lo, lev, Len(pgs), p, pgs[p])
  /\ Apart(lo, lev, Len(pgs))
  /\ TopSound(lo, lev, Len(pgs), rt)

(* The subtree c of the page is the one of key k. *)
Leads(pg, c, k) ==
  \/ c = pg.leftmost /\ \A f \in ToSet(pg.entries) : k < f.key
  \/ \E e \in ToSet(pg.entries) : /\ c = e.child /\ e.key <= k
                                  /\ \A f \in ToSet(pg.entries) : f.key <= e.key \/ k < f.key

LEMMA ChildrenSet ==
  ASSUME NEW pg, NEW max, IsEntries(pg.entries, max)
  PROVE  \A c : c \in Children(pg) <=> c = pg.leftmost \/ \E e \in ToSet(pg.entries) : c = e.child
<1> DEFINE es == pg.entries
<1>1. Len(es) \in Nat /\ \A e : e \in ToSet(es) <=> \E i \in 1..Len(es) : es[i] = e
  BY EntriesShape
<1>2. ASSUME NEW c, c \in Children(pg) PROVE c = pg.leftmost \/ \E e \in ToSet(es) : c = e.child
  <2>1. PICK i \in 0..Len(es) : c = Slot(pg, i)
    BY <1>2 DEF Children
  <2>2. CASE i = 0
    BY <2>1, <2>2 DEF Slot
  <2>3. CASE i # 0
    <3>1. i \in 1..Len(es) /\ c = es[i].child
      BY <1>1, <2>1, <2>3 DEF Slot
    <3> QED BY <1>1, <3>1
  <2> QED BY <2>2, <2>3
<1>3. ASSUME NEW c, c = pg.leftmost PROVE c \in Children(pg)
  <2>1. 0 \in 0..Len(es) /\ c = Slot(pg, 0)
    BY <1>1, <1>3 DEF Slot
  <2> QED BY <2>1 DEF Children
<1>4. ASSUME NEW e \in ToSet(es) PROVE e.child \in Children(pg)
  <2>1. PICK i \in 1..Len(es) : es[i] = e
    BY <1>1
  <2>2. i \in 0..Len(es) /\ i # 0
    BY <1>1
  <2>3. e.child = Slot(pg, i)
    BY <2>1, <2>2 DEF Slot
  <2> QED BY <2>2, <2>3 DEF Children
<1> QED BY <1>2, <1>3, <1>4

LEMMA InnerChildren ==
  ASSUME NEW pg, IsInner(pg), NEW c \in Children(pg)
  PROVE  c = pg.leftmost \/ \E e \in ToSet(pg.entries) : c = e.child
<1>1. IsEntries(pg.entries, InnerMax)
  BY DEF IsInner
<1> QED BY <1>1, ChildrenSet

LEMMA LeftmostIn ==
  ASSUME NEW pg, IsInner(pg)
  PROVE  pg.leftmost \in Children(pg)
<1>1. IsEntries(pg.entries, InnerMax)
  BY DEF IsInner
<1> QED BY <1>1, ChildrenSet

(* find_child takes the subtree of the key. *)
LEMMA FindLeads ==
  ASSUME NEW pg, NEW max, IsEntries(pg.entries, max), NEW k \in Int
  PROVE  Leads(pg, find_child(pg, k), k)
<1> DEFINE es == pg.entries
           c == find_child(pg, k)
<1>1. /\ Len(es) \in Nat /\ \A e : e \in ToSet(es) <=> \E i \in 1..Len(es) : es[i] = e
      /\ \A i \in 1..Len(es) : es[i].key \in Nat /\ es[i] \in ToSet(es)
      /\ \A i, j \in 1..Len(es) : i < j => es[i].key < es[j].key
  BY EntriesShape
<1>2. PICK i \in 0..Len(es) : c = Slot(pg, i) /\ Covers(pg, i, k)
  BY FindChild
<1> HIDE DEF c
<1>3. \A f \in ToSet(es) : \E j \in 1..Len(es) : f = es[j]
  BY <1>1
<1> SUFFICES Leads(pg, c, k)
  BY DEF c
<1>4. CASE i = 0
  <2>1. ASSUME NEW f \in ToSet(es) PROVE k < f.key
    <3>1. PICK j \in 1..Len(es) : f = es[j]
      BY <1>3
    <3>2. j \in (i + 1)..Len(es)
      BY <1>1, <1>4
    <3> QED BY <1>2, <3>1, <3>2 DEF Covers
  <2> QED BY <1>2, <1>4, <2>1 DEF Leads, Slot
<1>5. CASE i # 0
  <2>1. i \in 1..Len(es) /\ c = es[i].child /\ es[i].key <= k
    BY <1>1, <1>2, <1>5 DEF Slot, Covers
  <2>2. ASSUME NEW j \in 1..Len(es) PROVE es[j].key <= es[i].key \/ k < es[j].key
    <3>1. es[i].key \in Nat /\ es[j].key \in Nat
      BY <1>1, <2>1
    <3>2. CASE j > i
      <4>1. j \in (i + 1)..Len(es)
        BY <1>1, <2>1, <3>2
      <4> QED BY <1>2, <4>1 DEF Covers
    <3>3. CASE j < i
      <4>1. es[j].key < es[i].key
        BY <1>1, <2>1, <3>3
      <4> QED BY <3>1, <4>1
    <3>4. CASE j = i
      BY <3>1, <3>4
    <3> QED BY <1>1, <2>1, <3>2, <3>3, <3>4
  <2>3. \A f \in ToSet(es) : f.key <= es[i].key \/ k < f.key
    BY <1>3, <2>2
  <2>4. es[i] \in ToSet(es)
    BY <1>1, <2>1
  <2> QED BY <2>1, <2>3, <2>4 DEF Leads
<1> QED BY <1>4, <1>5

LEMMA BoundTypes ==
  ASSUME NEW lo, NEW lev, IsBounds(lo, lev), NEW n \in Nat, n <= MaxPages
  PROVE  /\ 1..n \subseteq PageIds
         /\ \A p \in 1..n : lo[p] \in Int /\ lev[p] \in Nat /\ lo[p] >= -1
<1>1. 1..n \subseteq PageIds
  BY IndexAssumption DEF PageIds
<1> QED BY <1>1 DEF IsBounds

(* Ranges of one level do not overlap. *)
LEMMA WithinUnique ==
  ASSUME NEW lo, NEW lev, IsBounds(lo, lev), NEW n \in Nat, n <= MaxPages, Apart(lo, lev, n),
         NEW p \in 1..n, NEW q \in 1..n, lev[p] = lev[q], NEW k \in Int,
         Within(lo, lev, n, p, k), Within(lo, lev, n, q, k)
  PROVE  p = q
<1>1. lo[p] \in Int /\ lo[q] \in Int
  BY BoundTypes
<1>2. lo[p] <= k /\ lo[q] <= k /\ ~(lo[p] < lo[q] /\ ~(k < lo[q])) /\ ~(lo[q] < lo[p] /\ ~(k < lo[p]))
  BY DEF Within
<1>3. lo[p] = lo[q]
  BY <1>1, <1>2
<1> QED BY <1>3 DEF Apart

(* The lower end of a page is in its range. *)
LEMMA OwnWithin ==
  ASSUME NEW lo, NEW lev, IsBounds(lo, lev), NEW n \in Nat, n <= MaxPages, NEW p \in 1..n
  PROVE  Within(lo, lev, n, p, lo[p])
<1>1. lo[p] \in Int
  BY BoundTypes
<1> QED BY <1>1 DEF Within

(* A child begins in the range of its parent, not before it. *)
LEMMA ChildBegins ==
  ASSUME NEW lo, NEW lev, IsBounds(lo, lev), NEW n \in Nat, n <= MaxPages, NEW p \in 1..n, NEW pg,
         IsInner(pg), InnerSound(lo, lev, n, p, pg), NEW c \in Children(pg)
  PROVE  lev[c] + 1 = lev[p] /\ Within(lo, lev, n, p, lo[c]) /\ lo[p] <= lo[c]
<1>1. c = pg.leftmost \/ \E e \in ToSet(pg.entries) : c = e.child
  BY InnerChildren
<1>2. CASE c = pg.leftmost
  <2>1. lo[c] = lo[p] /\ lev[c] + 1 = lev[p] /\ lo[p] \in Int
    BY <1>2, BoundTypes DEF InnerSound
  <2> QED BY <2>1, OwnWithin
<1>3. CASE \E e \in ToSet(pg.entries) : c = e.child
  <2>1. PICK e \in ToSet(pg.entries) : c = e.child
    BY <1>3
  <2>2. Within(lo, lev, n, p, e.key) /\ lo[c] = e.key /\ lev[c] + 1 = lev[p]
    BY <2>1 DEF InnerSound
  <2> QED BY <2>2 DEF Within
<1> QED BY <1>1, <1>2, <1>3

(* The range of a child is part of that of its parent. *)
LEMMA ParentWithin ==
  ASSUME NEW lo, NEW lev, NEW rt, NEW pgs, Len(pgs) \in Nat, Len(pgs) <= MaxPages, TreeSound(lo, lev, rt, pgs),
         \A q \in 1..Len(pgs) : Fits(pgs, pgs[q]),
         NEW p \in Inners(pgs), NEW c \in Children(pgs[p]), NEW k \in Int, Within(lo, lev, Len(pgs), c, k)
  PROVE  Within(lo, lev, Len(pgs), p, k) /\ lo[p] <= lo[c] /\ lev[c] + 1 = lev[p]
<1> DEFINE n == Len(pgs)
<1>0. IsBounds(lo, lev)
  BY DEF TreeSound
<1>1. p \in 1..n /\ pgs[p].kind = "inner"
  BY DEF Inners
<1>2. IsInner(pgs[p]) /\ Children(pgs[p]) \subseteq 1..n /\ InnerSound(lo, lev, n, p, pgs[p])
  BY <1>1, KindOf DEF TreeSound, PageSound
<1>3. lev[c] + 1 = lev[p] /\ Within(lo, lev, n, p, lo[c]) /\ lo[p] <= lo[c] /\ c \in 1..n
  BY <1>0, <1>1, <1>2, ChildBegins
<1>4. \A q \in 1..n : lo[q] \in Int /\ lev[q] \in Nat
  BY <1>0, BoundTypes
<1>5. ASSUME NEW q \in 1..n, lev[q] = lev[p], lo[p] < lo[q] PROVE k < lo[q]
  <2>1. pgs[q].kind = "inner"
    <3>1. pgs[q].kind \in {"leaf", "inner"}
      BY KindOf
    <3>2. lev[p] > 0
      BY <1>2 DEF InnerSound
    <3>3. pgs[q].kind = "leaf" => lev[q] = 0
      BY DEF TreeSound, PageSound, LeafSound
    <3> QED BY <1>5, <3>1, <3>2, <3>3
  <2> DEFINE d == pgs[q].leftmost
  <2>2. InnerSound(lo, lev, n, q, pgs[q]) /\ IsInner(pgs[q]) /\ Children(pgs[q]) \subseteq 1..n
    BY <2>1, KindOf DEF TreeSound, PageSound
  <2>3. lo[d] = lo[q] /\ lev[d] + 1 = lev[q]
    BY <2>2 DEF InnerSound
  <2>4. d \in 1..n
    <3>1. d \in Children(pgs[q])
      BY <2>2, LeftmostIn
    <3> QED BY <2>2, <3>1
  <2>5. lo[c] < lo[q]
    BY <1>3, <1>5 DEF Within
  <2> HIDE DEF d
  <2>6. lev[d] = lev[c]
    <3>1. lev[d] \in Nat /\ lev[c] \in Nat
      BY <1>3, <1>4, <2>4
    <3> QED BY <1>3, <1>5, <2>3, <3>1
  <2> QED BY <2>3, <2>4, <2>5, <2>6 DEF Within
<1>6. lo[c] <= k
  BY DEF Within
<1>7. lo[p] <= k
  BY <1>1, <1>3, <1>4, <1>6
<1> QED BY <1>3, <1>5, <1>7 DEF Within

(* New bounds keep what the old ones said of the first n pages, except     *)
(* that page x, if it is split, now ends at s.                             *)
Same(lo, lev, n, lo2, lev2) == \A p \in 1..n : lo2[p] = lo[p] /\ lev2[p] = lev[p]

RangesKept(lo, lev, n, lo2, lev2, n2, x, s) ==
  \A p \in 1..n, k \in Int :
    Within(lo, lev, n, p, k) /\ (p = x => k < s) => Within(lo2, lev2, n2, p, k)

LinksKept(lo, lev, n, lo2, lev2, n2, x) ==
  \A p \in 1..n, next \in 0..n :
    p # x /\ lev[p] = 0 /\ NextSound(lo, lev, n, p, next) => NextSound(lo2, lev2, n2, p, next)

Kept(lo, lev, n, lo2, lev2, n2, x, s) ==
  /\ Same(lo, lev, n, lo2, lev2)
  /\ RangesKept(lo, lev, n, lo2, lev2, n2, x, s)
  /\ LinksKept(lo, lev, n, lo2, lev2, n2, x)

(* The bounds with a new page. *)
Set(f, m, v) == [f EXCEPT ![m] = v]

LEMMA NewBounds ==
  ASSUME NEW lo, NEW lev, IsBounds(lo, lev), NEW n \in Nat, NEW m, m = n + 1, m <= MaxPages,
         NEW s \in Int, s >= -1, NEW l \in Nat,
         NEW lo2, lo2 = Set(lo, m, s), NEW lev2, lev2 = Set(lev, m, l)
  PROVE  /\ IsBounds(lo2, lev2) /\ Same(lo, lev, n, lo2, lev2)
         /\ lo2[m] = s /\ lev2[m] = l
<1>1. m \in PageIds /\ 1..n \subseteq PageIds /\ m \in 1..m /\ (\A q \in 1..m : q \in 1..n \/ q = m)
      /\ \A q \in 1..n : q \in 1..m /\ q # m
  BY IndexAssumption DEF PageIds
<1>2. lo2[m] = s /\ lev2[m] = l /\ \A q \in PageIds : q # m => lo2[q] = lo[q] /\ lev2[q] = lev[q]
  BY <1>1 DEF IsBounds, Set
<1>3. lo2 \in [PageIds -> Int] /\ lev2 \in [PageIds -> Nat]
  BY <1>1 DEF IsBounds, Set
<1>4. \A q \in PageIds : lo2[q] >= -1
  BY <1>2 DEF IsBounds
<1>5. Same(lo, lev, n, lo2, lev2)
  BY <1>1, <1>2 DEF Same
<1> QED BY <1>1, <1>2, <1>3, <1>4, <1>5 DEF IsBounds

(* Page x is split at s: where the new bound is, seen from each page. *)
LEMMA SplitOrder ==
  ASSUME NEW lo, NEW lev, IsBounds(lo, lev), NEW n \in Nat, n <= MaxPages, Apart(lo, lev, n),
         NEW x \in 1..n, NEW s \in Int, Within(lo, lev, n, x, s), lo[x] < s,
         NEW p \in 1..n, lev[p] = lev[x], p # x
  PROVE  \/ lo[p] < lo[x] /\ lo[p] < s
         \/ lo[x] < lo[p] /\ s < lo[p]
<1>1. lo[p] \in Int /\ lo[x] \in Int
  BY BoundTypes
<1>2. lo[p] # lo[x]
  BY DEF Apart
<1>3. lo[x] < lo[p] => s < lo[p]
  BY DEF Within
<1> QED BY <1>1, <1>2, <1>3

LEMMA SplitRanges ==
  ASSUME NEW lo, NEW lev, IsBounds(lo, lev), NEW n \in Nat, NEW m, m = n + 1, m <= MaxPages, Apart(lo, lev, n),
         NEW x \in 1..n, NEW s \in Int, Within(lo, lev, n, x, s), lo[x] < s,
         NEW lo2, lo2 = Set(lo, m, s), NEW lev2, lev2 = Set(lev, m, lev[x])
  PROVE  /\ RangesKept(lo, lev, n, lo2, lev2, m, x, s)
         /\ \A k \in Int : Within(lo, lev, n, x, k) /\ s <= k => Within(lo2, lev2, m, m, k)
         /\ Apart(lo2, lev2, m)
<1>0. \A q \in 1..n : lo[q] \in Int /\ lev[q] \in Nat /\ lo[q] >= -1
  BY BoundTypes
<1>s. s >= -1 /\ lev[x] \in Nat
  BY <1>0
<1>1. /\ Same(lo, lev, n, lo2, lev2) /\ lo2[m] = s /\ lev2[m] = lev[x]
      /\ m \in 1..m /\ (\A q \in 1..m : q \in 1..n \/ q = m)
      /\ \A q \in 1..n : q \in 1..m /\ q # m
  <2> DEFINE l == lev[x]
  <2>1. l \in Nat /\ lev2 = Set(lev, m, l)
    BY <1>s
  <2> HIDE DEF l
  <2>2. Same(lo, lev, n, lo2, lev2) /\ lo2[m] = s /\ lev2[m] = l
    BY <1>s, <2>1, NewBounds
  <2>3. m \in 1..m /\ (\A q \in 1..m : q \in 1..n \/ q = m) /\ \A q \in 1..n : q \in 1..m /\ q # m
    OBVIOUS
  <2> QED BY <2>2, <2>3 DEF l
<1>2. \A q \in 1..n : lo2[q] = lo[q] /\ lev2[q] = lev[q]
  BY <1>1 DEF Same
<1>n. n <= MaxPages
  BY IndexAssumption
<1>3. \A p \in 1..n : lev[p] = lev[x] /\ p # x => \/ lo[p] < lo[x] /\ lo[p] < s
                                                  \/ lo[x] < lo[p] /\ s < lo[p]
  BY <1>n, SplitOrder
<1>4. ASSUME NEW p \in 1..n, NEW k \in Int, Within(lo, lev, n, p, k), p = x => k < s
      PROVE  Within(lo2, lev2, m, p, k)
  <2>1. lo2[p] <= k
    BY <1>2, <1>4 DEF Within
  <2>2. ASSUME NEW q \in 1..m, lev2[q] = lev2[p], lo2[p] < lo2[q] PROVE k < lo2[q]
    <3>1. CASE q \in 1..n
      <4>1. lo2[q] = lo[q] /\ lev[q] = lev[p] /\ lo[p] < lo[q]
        BY <1>2, <2>2, <3>1
      <4> QED BY <1>4, <3>1, <4>1 DEF Within
    <3>2. CASE q = m
      <4>1. lo2[q] = s /\ lev[p] = lev[x] /\ lo[p] < s
        BY <1>1, <1>2, <2>2, <3>2
      <4>2. CASE p = x
        BY <1>4, <4>1, <4>2
      <4>3. CASE p # x
        <5>1. lo[p] < lo[x]
          BY <1>0, <1>3, <4>1, <4>3
        <5>2. k < lo[x]
          BY <1>4, <4>1, <5>1 DEF Within
        <5> QED BY <1>0, <4>1, <5>2
      <4> QED BY <4>2, <4>3
    <3> QED BY <1>1, <3>1, <3>2
  <2> QED BY <2>1, <2>2 DEF Within
<1>5. ASSUME NEW k \in Int, Within(lo, lev, n, x, k), s <= k PROVE Within(lo2, lev2, m, m, k)
  <2>1. ASSUME NEW q \in 1..m, lev2[q] = lev2[m], lo2[m] < lo2[q] PROVE k < lo2[q]
    <3>1. q \in 1..n
      BY <1>1, <2>1
    <3>2. lo2[q] = lo[q] /\ lev[q] = lev[x] /\ s < lo[q]
      BY <1>1, <1>2, <2>1, <3>1
    <3>3. lo[x] < lo[q]
      BY <1>0, <3>1, <3>2
    <3> QED BY <1>5, <3>1, <3>2, <3>3 DEF Within
  <2> QED BY <1>1, <1>5, <2>1 DEF Within
<1>6. Apart(lo2, lev2, m)
  <2>1. ASSUME NEW q \in 1..n, lev[q] = lev[x] PROVE lo[q] # s
    BY <1>0, <1>3, <2>1
  <2>2. SUFFICES ASSUME NEW p \in 1..m, NEW q \in 1..m, lev2[p] = lev2[q], lo2[p] = lo2[q] PROVE p = q
    BY DEF Apart
  <2>3. CASE p \in 1..n /\ q \in 1..n
    BY <1>2, <2>2, <2>3 DEF Apart
  <2>4. CASE p = m /\ q \in 1..n
    BY <1>1, <1>2, <2>1, <2>2, <2>4
  <2>5. CASE q = m /\ p \in 1..n
    BY <1>1, <1>2, <2>1, <2>2, <2>5
  <2> QED BY <1>1, <2>3, <2>4, <2>5
<1> QED BY <1>4, <1>5, <1>6 DEF RangesKept

(* The new bounds of a split. *)
IsCut(lo, lev, n, x, s, lo2, lev2) ==
  /\ lo2 = Set(lo, n + 1, s) /\ lev2 = Set(lev, n + 1, lev[x])
  /\ Within(lo, lev, n, x, s) /\ lo[x] < s

LEMMA CutFacts ==
  ASSUME NEW lo, NEW lev, IsBounds(lo, lev), NEW n \in Nat, NEW m, m = n + 1, m <= MaxPages, Apart(lo, lev, n),
         NEW x \in 1..n, NEW s \in Int, NEW lo2, NEW lev2, IsCut(lo, lev, n, x, s, lo2, lev2)
  PROVE  /\ IsBounds(lo2, lev2) /\ Same(lo, lev, n, lo2, lev2) /\ lo2[m] = s /\ lev2[m] = lev[x]
         /\ RangesKept(lo, lev, n, lo2, lev2, m, x, s) /\ Apart(lo2, lev2, m)
<1>1. lo2 = Set(lo, m, s) /\ lev2 = Set(lev, m, lev[x]) /\ Within(lo, lev, n, x, s) /\ lo[x] < s
  BY DEF IsCut
<1>n. n <= MaxPages
  BY IndexAssumption
<1>2. lev[x] \in Nat /\ lo[x] \in Int /\ lo[x] >= -1
  BY <1>n, BoundTypes
<1>3. s >= -1
  BY <1>1, <1>2
<1> DEFINE l == lev[x]
<1>4. l \in Nat /\ lev2 = Set(lev, m, l)
  BY <1>1, <1>2
<1> HIDE DEF l
<1>5. IsBounds(lo2, lev2) /\ Same(lo, lev, n, lo2, lev2) /\ lo2[m] = s /\ lev2[m] = l
  BY <1>1, <1>3, <1>4, NewBounds
<1>6. RangesKept(lo, lev, n, lo2, lev2, m, x, s) /\ Apart(lo2, lev2, m)
  BY <1>1, SplitRanges
<1> QED BY <1>5, <1>6 DEF l

LEMMA CutUpper ==
  ASSUME NEW lo, NEW lev, IsBounds(lo, lev), NEW n \in Nat, NEW m, m = n + 1, m <= MaxPages, Apart(lo, lev, n),
         NEW x \in 1..n, NEW s \in Int, NEW lo2, NEW lev2, IsCut(lo, lev, n, x, s, lo2, lev2),
         NEW k \in Int, Within(lo, lev, n, x, k), s <= k
  PROVE  Within(lo2, lev2, m, m, k)
<1>1. lo2 = Set(lo, m, s) /\ lev2 = Set(lev, m, lev[x]) /\ Within(lo, lev, n, x, s) /\ lo[x] < s
  BY DEF IsCut
<1> QED BY <1>1, SplitRanges

LEMMA CutLinks ==
  ASSUME NEW lo, NEW lev, IsBounds(lo, lev), NEW n \in Nat, NEW m, m = n + 1, m <= MaxPages, Apart(lo, lev, n),
         NEW x \in 1..n, NEW s \in Int, NEW lo2, NEW lev2, IsCut(lo, lev, n, x, s, lo2, lev2)
  PROVE  LinksKept(lo, lev, n, lo2, lev2, m, x)
<1>1. Within(lo, lev, n, x, s) /\ lo[x] < s
  BY DEF IsCut
<1>n. n <= MaxPages
  BY IndexAssumption
<1>2. Same(lo, lev, n, lo2, lev2) /\ lo2[m] = s /\ lev2[m] = lev[x]
  BY CutFacts
<1>3. \A q \in 1..n : lo2[q] = lo[q] /\ lev2[q] = lev[q]
  BY <1>2 DEF Same
<1>4. \A q \in 1..n : lo[q] \in Int /\ lev[q] \in Nat
  BY <1>n, BoundTypes
<1>5. \A q \in 1..m : q \in 1..n \/ q = m
  OBVIOUS
<1>6. ASSUME NEW p \in 1..n, NEW next \in 0..n, p # x, lev[p] = 0, NextSound(lo, lev, n, p, next)
      PROVE  NextSound(lo2, lev2, m, p, next)
  <2>0. lo2[p] = lo[p] /\ lev2[p] = 0
    BY <1>3, <1>6
  <2>1. lev[x] = 0 => \/ lo[p] < lo[x] /\ lo[p] < s
                      \/ lo[x] < lo[p] /\ s < lo[p]
    BY <1>1, <1>6, <1>n, SplitOrder
  <2>2. CASE next = 0
    <3>1. ASSUME NEW q \in 1..m, lev2[q] = 0 PROVE lo2[q] <= lo2[p]
      <4>1. CASE q \in 1..n
        BY <1>3, <1>6, <2>0, <2>2, <3>1, <4>1 DEF NextSound
      <4>2. CASE q = m
        <5>1. lev[x] = 0 /\ lo2[q] = s
          BY <1>2, <3>1, <4>2
        <5>2. lo[x] <= lo[p]
          BY <1>6, <2>2, <5>1 DEF NextSound
        <5>3. s < lo[p]
          BY <1>4, <2>1, <5>1, <5>2
        <5> QED BY <1>4, <2>0, <5>1, <5>3
      <4> QED BY <1>5, <4>1, <4>2
    <3> QED BY <2>2, <3>1 DEF NextSound
  <2>3. CASE next # 0
    <3>1. next \in 1..n /\ lev[next] = 0 /\ lo[p] < lo[next]
      BY <1>6, <2>3 DEF NextSound
    <3>2. lev2[next] = 0 /\ lo2[p] < lo2[next] /\ lo2[next] = lo[next]
      BY <1>3, <2>0, <3>1
    <3>3. ASSUME NEW q \in 1..m, lev2[q] = 0, lo2[p] < lo2[q] PROVE lo2[next] <= lo2[q]
      <4>1. CASE q \in 1..n
        <5>1. lev[q] = 0 /\ lo[p] < lo[q] /\ lo2[q] = lo[q]
          BY <1>3, <2>0, <3>3, <4>1
        <5> QED BY <1>6, <2>3, <3>2, <4>1, <5>1 DEF NextSound
      <4>2. CASE q = m
        <5>1. lev[x] = 0 /\ lo2[q] = s /\ lo[p] < s
          BY <1>2, <2>0, <3>3, <4>2
        <5>2. lo[p] < lo[x]
          BY <1>4, <2>1, <5>1
        <5>3. lo[next] <= lo[x]
          BY <1>6, <2>3, <5>1, <5>2 DEF NextSound
        <5> QED BY <1>1, <1>4, <3>1, <3>2, <5>1, <5>3
      <4> QED BY <1>5, <4>1, <4>2
    <3> QED BY <2>3, <3>2, <3>3 DEF NextSound
  <2> QED BY <2>2, <2>3
<1> QED BY <1>6 DEF LinksKept

(* The links of the two halves of a leaf. *)
LEMMA CutLeafLinks ==
  ASSUME NEW lo, NEW lev, IsBounds(lo, lev), NEW n \in Nat, NEW m, m = n + 1, m <= MaxPages, Apart(lo, lev, n),
         NEW x \in 1..n, NEW s \in Int, NEW lo2, NEW lev2, IsCut(lo, lev, n, x, s, lo2, lev2),
         lev[x] = 0, NEW next \in 0..n, NextSound(lo, lev, n, x, next)
  PROVE  NextSound(lo2, lev2, m, x, m) /\ NextSound(lo2, lev2, m, m, next)
<1>1. Within(lo, lev, n, x, s) /\ lo[x] < s
  BY DEF IsCut
<1>n. n <= MaxPages
  BY IndexAssumption
<1>2. Same(lo, lev, n, lo2, lev2) /\ lo2[m] = s /\ lev2[m] = 0
  BY CutFacts
<1>3. \A q \in 1..n : lo2[q] = lo[q] /\ lev2[q] = lev[q]
  BY <1>2 DEF Same
<1>4. \A q \in 1..n : lo[q] \in Int /\ lev[q] \in Nat
  BY <1>n, BoundTypes
<1>5. (\A q \in 1..m : q \in 1..n \/ q = m) /\ m # 0
  OBVIOUS
<1>6. \A q \in 1..n : lev[q] = 0 /\ lo[x] < lo[q] => s < lo[q]
  BY <1>1 DEF Within
<1>7. NextSound(lo2, lev2, m, x, m)
  <2>1. ASSUME NEW q \in 1..m, lev2[q] = 0, lo2[x] < lo2[q] PROVE lo2[m] <= lo2[q]
    <3>1. CASE q \in 1..n
      BY <1>2, <1>3, <1>4, <1>6, <2>1, <3>1
    <3>2. CASE q = m
      BY <1>2, <3>2
    <3> QED BY <1>5, <3>1, <3>2
  <2>2. lo2[x] < lo2[m]
    BY <1>1, <1>2, <1>3
  <2> QED BY <1>2, <1>5, <2>1, <2>2 DEF NextSound
<1>8. NextSound(lo2, lev2, m, m, next)
  <2>1. CASE next = 0
    <3>1. ASSUME NEW q \in 1..m, lev2[q] = 0 PROVE lo2[q] <= lo2[m]
      <4>1. CASE q \in 1..n
        <5>1. lo[q] <= lo[x] /\ lo2[q] = lo[q]
          BY <1>3, <2>1, <3>1, <4>1 DEF NextSound
        <5> QED BY <1>1, <1>2, <1>4, <4>1, <5>1
      <4>2. CASE q = m
        BY <1>2, <4>2
      <4> QED BY <1>5, <4>1, <4>2
    <3> QED BY <2>1, <3>1 DEF NextSound
  <2>2. CASE next # 0
    <3>1. next \in 1..n /\ lev[next] = 0 /\ lo[x] < lo[next]
      BY <2>2 DEF NextSound
    <3>2. lev2[next] = 0 /\ lo2[m] < lo2[next] /\ lo2[next] = lo[next]
      BY <1>2, <1>3, <1>6, <3>1
    <3>3. ASSUME NEW q \in 1..m, lev2[q] = 0, lo2[m] < lo2[q] PROVE lo2[next] <= lo2[q]
      <4>1. q \in 1..n /\ lev[q] = 0 /\ lo2[q] = lo[q] /\ s < lo[q]
        BY <1>2, <1>3, <1>5, <3>3
      <4>2. lo[x] < lo[q]
        BY <1>1, <1>4, <4>1
      <4> QED BY <2>2, <3>2, <4>1, <4>2 DEF NextSound
    <3> QED BY <2>2, <3>2, <3>3 DEF NextSound
  <2> QED BY <2>1, <2>2
<1> QED BY <1>7, <1>8

LEMMA SameKept ==
  ASSUME NEW lo, NEW lev, NEW n
  PROVE  Kept(lo, lev, n, lo, lev, n, 0, 0)
<1>1. \A p \in 1..n, k \in Int : Within(lo, lev, n, p, k) => Within(lo, lev, n, p, k)
  OBVIOUS
<1> QED BY <1>1 DEF Kept, Same, RangesKept, LinksKept

(* A page is added above all others. *)
LEMMA TopKept ==
  ASSUME NEW lo, NEW lev, IsBounds(lo, lev), NEW n \in Nat, NEW m, m = n + 1, m <= MaxPages, Apart(lo, lev, n),
         NEW l \in Nat, \A p \in 1..n : lev[p] < l,
         NEW lo2, lo2 = Set(lo, m, -1), NEW lev2, lev2 = Set(lev, m, l), l = 0 => n = 0
  PROVE  /\ IsBounds(lo2, lev2) /\ lo2[m] = -1 /\ lev2[m] = l
         /\ Kept(lo, lev, n, lo2, lev2, m, 0, 0) /\ Apart(lo2, lev2, m) /\ TopSound(lo2, lev2, m, m)
         /\ \A k \in Int : k >= -1 => Within(lo2, lev2, m, m, k)
<1> DEFINE s == -1
<1>s. s \in Int /\ s >= -1 /\ s = -1 /\ lo2 = Set(lo, m, s)
  OBVIOUS
<1> HIDE DEF s
<1>1. IsBounds(lo2, lev2) /\ Same(lo, lev, n, lo2, lev2) /\ lo2[m] = s /\ lev2[m] = l
  BY <1>s, NewBounds
<1>n. n <= MaxPages
  BY IndexAssumption
<1>2. \A q \in 1..n : lo2[q] = lo[q] /\ lev2[q] = lev[q] /\ lev[q] # l
  <2>1. \A q \in 1..n : lev[q] \in Nat
    BY <1>n, BoundTypes
  <2> QED BY <1>1, <2>1 DEF Same
<1>3. (\A q \in 1..m : q \in 1..n \/ q = m) /\ m \in 1..m /\ m # 0
  OBVIOUS
<1>4. ASSUME NEW p \in 1..n, NEW k \in Int, Within(lo, lev, n, p, k) PROVE Within(lo2, lev2, m, p, k)
  <2>1. ASSUME NEW q \in 1..m, lev2[q] = lev2[p], lo2[p] < lo2[q] PROVE k < lo2[q]
    <3>1. q \in 1..n
      BY <1>1, <1>2, <1>3, <2>1
    <3> QED BY <1>2, <1>4, <2>1, <3>1 DEF Within
  <2> QED BY <1>2, <1>4, <2>1 DEF Within
<1>5. ASSUME NEW p \in 1..n, NEW next \in 0..n, lev[p] = 0, NextSound(lo, lev, n, p, next)
      PROVE  NextSound(lo2, lev2, m, p, next)
  <2>1. lev2[m] # 0
    BY <1>1, <1>2, <1>5
  <2>2. lo2[p] = lo[p] /\ (next # 0 => next \in 1..n)
    BY <1>2
  <2>3. \A q \in 1..m : lev2[q] = 0 => q \in 1..n /\ lev[q] = 0 /\ lo2[q] = lo[q]
    BY <1>2, <1>3, <2>1
  <2>4. CASE next = 0
    BY <1>5, <2>2, <2>3, <2>4 DEF NextSound
  <2>5. CASE next # 0
    <3>1. lev2[next] = 0 /\ lo2[next] = lo[next] /\ lo2[p] < lo2[next]
      BY <1>2, <1>5, <2>2, <2>5 DEF NextSound
    <3>2. \A q \in 1..m : lev2[q] = 0 /\ lo2[p] < lo2[q] => lo2[next] <= lo2[q]
      BY <1>5, <2>2, <2>3, <2>5, <3>1 DEF NextSound
    <3> QED BY <2>5, <3>1, <3>2 DEF NextSound
  <2> QED BY <2>4, <2>5
<1>6. Kept(lo, lev, n, lo2, lev2, m, 0, 0)
  BY <1>1, <1>4, <1>5 DEF Kept, RangesKept, LinksKept
<1>7. Apart(lo2, lev2, m)
  <2> SUFFICES ASSUME NEW p \in 1..m, NEW q \in 1..m, lev2[p] = lev2[q], lo2[p] = lo2[q] PROVE p = q
    BY DEF Apart
  <2>1. CASE p \in 1..n /\ q \in 1..n
    BY <1>2, <2>1 DEF Apart
  <2>2. CASE p = m \/ q = m
    BY <1>1, <1>2, <1>3, <2>2
  <2> QED BY <1>3, <2>1, <2>2
<1>8. TopSound(lo2, lev2, m, m)
  <2>1. \A p \in 1..m : lev2[p] <= lev2[m]
    <3>1. \A q \in 1..n : lev[q] \in Nat
      BY <1>n, BoundTypes
    <3> QED BY <1>1, <1>2, <1>3, <3>1
  <2> QED BY <1>1, <1>s, <2>1 DEF TopSound
<1>9. ASSUME NEW k \in Int, k >= -1 PROVE Within(lo2, lev2, m, m, k)
  <2>1. \A q \in 1..m : lev2[q] = lev2[m] => q = m
    BY <1>1, <1>2, <1>3
  <2>2. ~(lo2[m] < lo2[m])
    BY <1>1, <1>s
  <2> QED BY <1>1, <1>9, <1>s, <2>1, <2>2 DEF Within
<1> QED BY <1>1, <1>s, <1>6, <1>7, <1>8, <1>9

(* A page that does not change stays sound. *)
LEMMA PageKept ==
  ASSUME NEW lo, NEW lev, NEW pgs, NEW n, n = Len(pgs), NEW lo2, NEW lev2, NEW n2, NEW x, NEW s,
         Kept(lo, lev, n, lo2, lev2, n2, x, s),
         NEW p \in 1..n, p # x, NEW pg, Fits(pgs, pg), PageSound(lo, lev, n, p, pg)
  PROVE  PageSound(lo2, lev2, n2, p, pg)
<1>1. \A q \in 1..n : lo2[q] = lo[q] /\ lev2[q] = lev[q]
  BY DEF Kept, Same
<1>2. \A k \in Int : Within(lo, lev, n, p, k) => Within(lo2, lev2, n2, p, k)
  BY DEF Kept, RangesKept
<1>3. CASE pg.kind = "leaf"
  <2>1. IsLeaf(pg) /\ pg.next \in Leaves(pgs) \cup {0}
    BY <1>3, KindOf
  <2>2. \A e \in ToSet(pg.entries) : e.key \in Int
    BY <2>1, EntriesShape DEF IsLeaf
  <2>3. lev[p] = 0 /\ (\A e \in ToSet(pg.entries) : Within(lo, lev, n, p, e.key)) /\ NextSound(lo, lev, n, p, pg.next)
    BY <1>3 DEF PageSound, LeafSound
  <2>4. pg.next \in 0..n
    BY <2>1 DEF Leaves
  <2>5. NextSound(lo2, lev2, n2, p, pg.next)
    BY <2>3, <2>4 DEF Kept, LinksKept
  <2>6. \A e \in ToSet(pg.entries) : Within(lo2, lev2, n2, p, e.key)
    BY <1>2, <2>2, <2>3
  <2> QED BY <1>1, <1>3, <2>3, <2>5, <2>6 DEF PageSound, LeafSound
<1>4. CASE pg.kind = "inner"
  <2>1. IsInner(pg) /\ Children(pg) \subseteq 1..n
    BY <1>4, KindOf
  <2>2. \A e \in ToSet(pg.entries) : e.key \in Int
    BY <2>1, EntriesShape DEF IsInner
  <2>3. pg.leftmost \in 1..n
    BY <2>1, LeftmostIn
  <2>4. \A e \in ToSet(pg.entries) : e.child \in 1..n
    BY <2>1, ChildrenSet DEF IsInner
  <2>5. InnerSound(lo, lev, n, p, pg)
    BY <1>4 DEF PageSound
  <2>6. InnerSound(lo2, lev2, n2, p, pg)
    BY <1>1, <1>2, <2>2, <2>3, <2>4, <2>5 DEF InnerSound
  <2> QED BY <1>4, <2>6 DEF PageSound
<1> QED BY <1>3, <1>4 DEF PageSound

LEMMA TreeKept ==
  ASSUME NEW lo, NEW lev, NEW rt, NEW pgs, TreeSound(lo, lev, rt, pgs), \A q \in 1..Len(pgs) : Fits(pgs, pgs[q]),
         NEW lo2, NEW lev2, NEW rt2, NEW pgs2, NEW x, NEW s,
         Kept(lo, lev, Len(pgs), lo2, lev2, Len(pgs2), x, s),
         IsBounds(lo2, lev2), Apart(lo2, lev2, Len(pgs2)), TopSound(lo2, lev2, Len(pgs2), rt2),
         \A p \in 1..Len(pgs2) : \/ p \in 1..Len(pgs) /\ p # x /\ pgs2[p] = pgs[p]
                                 \/ PageSound(lo2, lev2, Len(pgs2), p, pgs2[p])
  PROVE  TreeSound(lo2, lev2, rt2, pgs2)
<1>1. ASSUME NEW p \in 1..Len(pgs2) PROVE PageSound(lo2, lev2, Len(pgs2), p, pgs2[p])
  <2>1. CASE p \in 1..Len(pgs) /\ p # x /\ pgs2[p] = pgs[p]
    <3>1. PageSound(lo, lev, Len(pgs), p, pgs[p]) /\ Fits(pgs, pgs[p])
      BY <2>1 DEF TreeSound
    <3> DEFINE pg == pgs[p]
               n == Len(pgs)
               n2 == Len(pgs2)
    <3>2. PageSound(lo, lev, n, p, pg) /\ Fits(pgs, pg) /\ n = Len(pgs) /\ p \in 1..n /\ p # x
          /\ Kept(lo, lev, n, lo2, lev2, n2, x, s)
      BY <2>1, <3>1
    <3> HIDE DEF pg, n, n2
    <3>3. PageSound(lo2, lev2, n2, p, pg)
      BY <3>2, PageKept
    <3> QED BY <2>1, <3>3 DEF pg, n2
  <2> QED BY <2>1
<1> QED BY <1>1 DEF TreeSound

-----------------------------------------------------------------------------
(* A split on its way up *)

Splitting(tk) == tk.pc \in {"sibling", "ancestors"}

(* The split of the root, between the pages and the header. *)
AtTop(tk) == tk.pc = "ancestors" /\ tk.locked = <<>>

(* The new page of a split lies right of its left half, which is a child   *)
(* of the last latched page or the root.                                   *)
SplitSound(lo, lev, n, rt, tk) ==
  Splitting(tk) =>
    /\ lo[tk.child] = tk.sep
    /\ tk.locked = <<>> => tk.pc = "ancestors" /\ lev[tk.child] = lev[rt]
    /\ tk.locked # <<>> => /\ lev[tk.child] + 1 = lev[Last(tk.locked)]
                           /\ Within(lo, lev, n, Last(tk.locked), tk.sep) /\ lo[Last(tk.locked)] < tk.sep
    /\ tk.pc = "sibling" => lev[tk.child] = 0

(* The latched pages are a path, and a split does not go beyond its top. *)
LockSound(rt, pgs, tk) ==
  /\ \A i \in 1..(Len(tk.locked) - 1) : tk.locked[i + 1] \in Children(pgs[tk.locked[i]])
  /\ tk.locked # <<>> => tk.locked[1] = rt \/ ~inner_is_full(pgs[tk.locked[1]])

(* An insert is on the way to its leaf. *)
DownSound(lo, lev, n, pgs, tk) ==
  tk.pc = "descend" /\ tk.locked # <<>> =>
    /\ Within(lo, lev, n, Last(tk.locked), key_from_bytes(tk.call.key))
    /\ Leads(pgs[Last(tk.locked)], tk.cur, key_from_bytes(tk.call.key))

TaskSound(lo, lev, rt, pgs, tk) ==
  /\ SplitSound(lo, lev, Len(pgs), rt, tk)
  /\ LockSound(rt, pgs, tk)
  /\ DownSound(lo, lev, Len(pgs), pgs, tk)

(* One task at a time splits the root. *)
RootAlone ==
  \A v, w \in Workers : v # w /\ AtTop(task[w]) => root \notin ToSet(task[v].locked) /\ ~AtTop(task[v])

(* Every page is reached from the root or will be. *)
Complete ==
  \A q \in 1..Len(pages) :
    \/ q = root
    \/ \E p \in Inners(pages) : q \in Children(pages[p])
    \/ \E w \in Workers : Splitting(task[w]) /\ task[w].child = q

(* The links between leaves, with the one that a split still corrects. *)
Linked ==
  /\ \A w \in Workers : task[w].pc = "sibling" => pages[task[w].child].next = task[w].sib
  /\ \A p \in Leaves(pages) :
       pages[p].next # 0 =>
         \/ pages[pages[p].next].prev = p
         \/ \E w \in Workers : task[w].pc = "sibling" /\ task[w].sib = pages[p].next

Stored == \A e : e \in index <=> \E p \in Leaves(pages) : e \in ToSet(pages[p].entries)

Bounds(lo, lev) ==
  /\ TreeSound(lo, lev, root, pages)
  /\ \A w \in Workers : TaskSound(lo, lev, root, pages, task[w])
  /\ RootAlone
  /\ Stored
  /\ ~torn => Complete /\ Linked

(* The ranges after a step: those of the pages that were there stay. *)
BoundsGo(lo, lev) == \E lo2, lev2 : Bounds(lo2, lev2)' /\ Same(lo, lev, Len(pages), lo2, lev2)

(* The inductive invariant behind the contents of the leaves. *)
Sound == Intact => \E lo, lev : Bounds(lo, lev)

-----------------------------------------------------------------------------

(* A task that is not in a descent or a split. *)
Quiet(tk) == tk.locked = <<>> /\ ~Splitting(tk)

LEMMA SameBounds ==
  ASSUME NEW lo, NEW lev, Bounds(lo, lev)'
  PROVE  BoundsGo(lo, lev)
<1>1. Same(lo, lev, Len(pages), lo, lev)
  BY DEF Same
<1> QED BY <1>1 DEF BoundsGo

LEMMA QuietSound ==
  ASSUME NEW lo, NEW lev, NEW rt, NEW pgs, NEW tk, Quiet(tk)
  PROVE  TaskSound(lo, lev, rt, pgs, tk) /\ ~AtTop(tk) /\ ToSet(tk.locked) = {}
<1>1. Len(tk.locked) = 0 /\ ToSet(tk.locked) = {} /\ tk.locked = <<>>
  BY EmptyIsSeq DEF Quiet
<1>2. LockSound(rt, pgs, tk)
  BY <1>1 DEF LockSound
<1> QED BY <1>1, <1>2 DEF TaskSound, SplitSound, DownSound, Quiet, AtTop, Splitting

(* The others keep what they know. *)
LEMMA TaskKept ==
  ASSUME NEW lo, NEW lev, NEW rt, NEW pgs, NEW tk, TaskOK(tk, pgs), TaskSound(lo, lev, rt, pgs, tk),
         NEW lo2, NEW lev2, NEW rt2, NEW pgs2, NEW x, NEW s,
         Kept(lo, lev, Len(pgs), lo2, lev2, Len(pgs2), x, s),
         \A p \in ToSet(tk.locked) : p # x /\ pgs2[p] = pgs[p],
         rt2 = rt \/ (rt \notin ToSet(tk.locked) /\ ~AtTop(tk)),
         rt \in 0..Len(pgs), rt = 0 => Len(pgs) = 0
  PROVE  TaskSound(lo2, lev2, rt2, pgs2, tk)
<1>0. /\ PcOK(tk) /\ PlaceOK(tk, pgs) /\ IsSeq(tk.locked) /\ ToSet(tk.locked) \subseteq 1..Len(pgs)
  BY DEF TaskOK, PlaceOK, Inners
<1>1. \A q \in 1..Len(pgs) : lo2[q] = lo[q] /\ lev2[q] = lev[q]
  BY DEF Kept, Same
<1>2. \A p \in ToSet(tk.locked), k \in Int : Within(lo, lev, Len(pgs), p, k) => Within(lo2, lev2, Len(pgs2), p, k)
  BY <1>0 DEF Kept, RangesKept
<1>3. tk.locked # <<>> => Last(tk.locked) \in ToSet(tk.locked) /\ Last(tk.locked) \in 1..Len(pgs)
  BY <1>0, SeqFront
<1>4. SplitSound(lo2, lev2, Len(pgs2), rt2, tk)
  <2> SUFFICES ASSUME Splitting(tk) PROVE SplitSound(lo2, lev2, Len(pgs2), rt2, tk)
    BY DEF SplitSound
  <2>0. SplitSound(lo, lev, Len(pgs), rt, tk)
    BY DEF TaskSound
  <2>1. tk.child \in 1..Len(pgs) /\ tk.sep \in Int
    BY <1>0 DEF PlaceOK, Splitting
  <2>2. CASE tk.locked = <<>>
    <3>1. tk.pc = "ancestors" /\ lev[tk.child] = lev[rt] /\ lo[tk.child] = tk.sep
      BY <2>0, <2>2 DEF SplitSound
    <3>2. rt2 = rt
      BY <2>2, <3>1 DEF AtTop
    <3>3. rt \in 1..Len(pgs)
      BY <2>1
    <3> QED BY <1>1, <2>1, <2>2, <3>1, <3>2, <3>3 DEF SplitSound
  <2>3. CASE tk.locked # <<>>
    <3> DEFINE t == Last(tk.locked)
    <3>1. t \in ToSet(tk.locked) /\ t \in 1..Len(pgs)
      BY <1>3, <2>3
    <3>2. /\ lo[tk.child] = tk.sep /\ lev[tk.child] + 1 = lev[t] /\ Within(lo, lev, Len(pgs), t, tk.sep) /\ lo[t] < tk.sep
          /\ tk.pc = "sibling" => lev[tk.child] = 0
      BY <2>0, <2>3 DEF SplitSound
    <3>3. Within(lo2, lev2, Len(pgs2), t, tk.sep)
      BY <1>2, <2>1, <3>1, <3>2
    <3>4. lo2[t] = lo[t] /\ lev2[t] = lev[t] /\ lo2[tk.child] = lo[tk.child] /\ lev2[tk.child] = lev[tk.child]
      BY <1>1, <2>1, <3>1
    <3> QED BY <2>3, <3>2, <3>3, <3>4 DEF SplitSound
  <2> QED BY <2>2, <2>3
<1>5. LockSound(rt2, pgs2, tk)
  <2>0. LockSound(rt, pgs, tk)
    BY DEF TaskSound
  <2>1. Len(tk.locked) \in Nat /\ \A i \in 1..Len(tk.locked) : tk.locked[i] \in ToSet(tk.locked)
    BY <1>0, SeqShape
  <2>2. ASSUME NEW i \in 1..(Len(tk.locked) - 1) PROVE tk.locked[i + 1] \in Children(pgs2[tk.locked[i]])
    <3>1. i \in 1..Len(tk.locked)
      BY <2>1
    <3>2. pgs2[tk.locked[i]] = pgs[tk.locked[i]]
      BY <2>1, <3>1
    <3> QED BY <2>0, <3>2 DEF LockSound
  <2>3. ASSUME tk.locked # <<>> PROVE tk.locked[1] = rt2 \/ ~inner_is_full(pgs2[tk.locked[1]])
    <3>1. Len(tk.locked) > 0
      BY <1>0, <2>3, SeqFront
    <3>2. tk.locked[1] \in ToSet(tk.locked)
      BY <2>1, <3>1
    <3>3. pgs2[tk.locked[1]] = pgs[tk.locked[1]]
      BY <3>2
    <3> QED BY <2>0, <2>3, <3>2, <3>3 DEF LockSound
  <2> QED BY <2>2, <2>3 DEF LockSound
<1>6. DownSound(lo2, lev2, Len(pgs2), pgs2, tk)
  <2> SUFFICES ASSUME tk.pc = "descend", tk.locked # <<>> PROVE DownSound(lo2, lev2, Len(pgs2), pgs2, tk)
    BY DEF DownSound
  <2> DEFINE t == Last(tk.locked)
             k == key_from_bytes(tk.call.key)
  <2>1. k \in Int
    <3>1. tk.call.key \in Bytes
      BY <1>0 DEF PcOK, CallOK
    <3> QED BY <3>1, KeyIsNat
  <2>2. t \in ToSet(tk.locked)
    BY <1>3
  <2>3. Within(lo, lev, Len(pgs), t, k) /\ Leads(pgs[t], tk.cur, k)
    BY DEF TaskSound, DownSound
  <2> HIDE DEF k
  <2>4. Within(lo2, lev2, Len(pgs2), t, k) /\ Leads(pgs2[t], tk.cur, k)
    BY <1>2, <2>1, <2>2, <2>3
  <2> QED BY <2>4 DEF DownSound, k
<1> QED BY <1>4, <1>5, <1>6 DEF TaskSound

(* Latched inner pages belong to their task. *)
LEMMA LockedHeld ==
  ASSUME ShapeOK, NEW v \in Workers, NEW p \in ToSet(task[v].locked)
  PROVE  latch[p] = v /\ p \in Inners(pages) /\ p \in 1..Len(pages)
<1>1. PcOK(task[v]) /\ PlaceOK(task[v], pages) /\ (task[v].pc # "removed" => Held(v) = Claim(task[v]))
  BY TaskFacts
<1>2. task[v].locked # <<>>
  BY EmptyIsSeq
<1>3. task[v].pc \in {"descend", "sibling", "ancestors"}
  BY <1>1, <1>2 DEF PcOK
<1>4. ToSet(task[v].locked) \subseteq Held(v)
  BY <1>1, <1>3 DEF Claim
<1>5. latch[p] = v
  BY <1>4 DEF Held
<1>6. p \in Inners(pages)
  BY <1>1 DEF PlaceOK
<1> QED BY <1>5, <1>6 DEF Inners

(* The pages that others have latched do not change, nor does their root. *)
Untouched(w, x) == \A v \in Workers \ {w} : \A p \in ToSet(task[v].locked) : p # x /\ pages'[p] = pages[p]

RootKept(w) ==
  root' = root \/ (\A v \in Workers \ {w} : root \notin ToSet(task[v].locked) /\ ~AtTop(task[v]))

LEMMA OthersKept ==
  ASSUME ShapeOK, NEW lo, NEW lev, Bounds(lo, lev), NEW w \in Workers, NEW tk, task' = [task EXCEPT ![w] = tk],
         NEW lo2, NEW lev2, NEW x, NEW s, Kept(lo, lev, Len(pages), lo2, lev2, Len(pages'), x, s),
         Untouched(w, x), RootKept(w),
         TaskSound(lo2, lev2, root', pages', tk)
  PROVE  \A v \in Workers : TaskSound(lo2, lev2, root', pages', task'[v])
<1> SUFFICES ASSUME NEW v \in Workers PROVE TaskSound(lo2, lev2, root', pages', task'[v])
  OBVIOUS
<1>0. DOMAIN task = Workers /\ TaskOK(task[v], pages)
  BY TaskFacts
<1>1. CASE v = w
  BY <1>0, <1>1
<1>2. CASE v # w
  <2> DEFINE t == task[v]
  <2>1. task'[v] = t
    BY <1>0, <1>2
  <2>2. TaskSound(lo, lev, root, pages, t) /\ TaskOK(t, pages)
    BY <1>0 DEF Bounds
  <2>3. \A p \in ToSet(t.locked) : p # x /\ pages'[p] = pages[p]
    BY <1>2 DEF Untouched
  <2>4. root' = root \/ (root \notin ToSet(t.locked) /\ ~AtTop(t))
    BY <1>2 DEF RootKept
  <2>5. root \in 0..Len(pages) /\ (root = 0 => Len(pages) = 0)
    BY DEF ShapeOK, TreeOK
  <2> DEFINE rt2 == root'
             pgs2 == pages'
  <2>6. /\ rt2 = root \/ (root \notin ToSet(t.locked) /\ ~AtTop(t))
        /\ \A p \in ToSet(t.locked) : p # x /\ pgs2[p] = pages[p]
        /\ Kept(lo, lev, Len(pages), lo2, lev2, Len(pgs2), x, s)
    BY <2>3, <2>4
  <2> HIDE DEF t, rt2, pgs2
  <2>7. TaskSound(lo2, lev2, rt2, pgs2, t)
    BY <2>2, <2>5, <2>6, TaskKept
  <2> QED BY <2>1, <2>7 DEF rt2, pgs2
<1> QED BY <1>1, <1>2

(* A step of a task that stays away from the root. *)
LEMMA AloneKept ==
  ASSUME ShapeOK, RootAlone, NEW w \in Workers, NEW tk, task' = [task EXCEPT ![w] = tk], root' = root,
         ~AtTop(tk), ToSet(tk.locked) \subseteq ToSet(task[w].locked)
  PROVE  RootAlone'
<1>0. DOMAIN task = Workers
  BY TaskFacts
<1>1. \A v \in Workers : task'[v] = IF v = w THEN tk ELSE task[v]
  BY <1>0
<1> SUFFICES ASSUME NEW u \in Workers, NEW v \in Workers, u # v, AtTop(task'[v])
             PROVE  root' \notin ToSet(task'[u].locked) /\ ~AtTop(task'[u])
  BY DEF RootAlone
<1>2. v # w /\ AtTop(task[v])
  BY <1>1
<1>3. root \notin ToSet(task[u].locked) /\ ~AtTop(task[u])
  BY <1>2 DEF RootAlone
<1> QED BY <1>1, <1>3

(* Nothing of the tree changes. *)
LEMMA QuietStep ==
  ASSUME ShapeOK, NEW lo, NEW lev, Bounds(lo, lev), NEW w \in Workers, NEW tk, task' = [task EXCEPT ![w] = tk],
         UNCHANGED <<root, pages, index>>, Quiet(tk), ~torn' => ~torn /\ ~Splitting(task[w])
  PROVE  Bounds(lo, lev)'
<1>0. DOMAIN task = Workers
  BY TaskFacts
<1>1. \A v \in Workers : task'[v] = IF v = w THEN tk ELSE task[v]
  BY <1>0
<1>2. TaskSound(lo, lev, root', pages', tk) /\ ~AtTop(tk) /\ ToSet(tk.locked) = {}
  BY QuietSound
<1>3. ASSUME NEW v \in Workers PROVE TaskSound(lo, lev, root', pages', task'[v])
  BY <1>1, <1>2 DEF Bounds
<1>4. RootAlone'
  BY <1>2, AloneKept DEF Bounds
<1>5. Stored' /\ TreeSound(lo, lev, root', pages')
  BY DEF Bounds, Stored, Leaves
<1>6. ASSUME ~torn' PROVE Complete' /\ Linked'
  <2>1. Complete /\ Linked /\ ~Splitting(task[w])
    BY <1>6 DEF Bounds
  <2>2. \A v \in Workers : Splitting(task[v]) => task'[v] = task[v]
    BY <1>1, <2>1
  <2>3. \A v \in Workers : task'[v].pc = "sibling" => task'[v] = task[v]
    BY <1>1 DEF Quiet, Splitting
  <2>4. Complete'
    <3> SUFFICES ASSUME NEW q \in 1..Len(pages)
                 PROVE  \/ q = root
                        \/ \E p \in Inners(pages) : q \in Children(pages[p])
                        \/ \E v \in Workers : Splitting(task'[v]) /\ task'[v].child = q
      BY DEF Complete, Inners
    <3> QED BY <2>1, <2>2 DEF Complete
  <2>5. \A v \in Workers : task[v].pc = "sibling" => task'[v] = task[v]
    BY <2>2 DEF Splitting
  <2>6. Linked'
    <3>1. \A v \in Workers : task'[v].pc = "sibling" => pages[task'[v].child].next = task'[v].sib
      BY <2>1, <2>3 DEF Linked
    <3>2. \A p \in Leaves(pages) :
            pages[p].next # 0 =>
              \/ pages[pages[p].next].prev = p
              \/ \E v \in Workers : task'[v].pc = "sibling" /\ task'[v].sib = pages[p].next
      BY <2>1, <2>5 DEF Linked
    <3> QED BY <3>1, <3>2 DEF Linked, Leaves
  <2> QED BY <2>4, <2>6
<1> QED BY <1>3, <1>4, <1>5, <1>6 DEF Bounds

(* Pages of level 0 are leaves. *)
LEMMA GroundLevel ==
  ASSUME ShapeOK, NEW lo, NEW lev, TreeSound(lo, lev, root, pages), NEW p \in 1..Len(pages)
  PROVE  /\ p \in Leaves(pages) <=> lev[p] = 0
         /\ p \in Leaves(pages) => LeafSound(lo, lev, Len(pages), p, pages[p])
         /\ p \in Inners(pages) => InnerSound(lo, lev, Len(pages), p, pages[p]) /\ lev[p] > 0
<1>1. PageSound(lo, lev, Len(pages), p, pages[p])
  BY DEF TreeSound
<1>2. p \in Leaves(pages) \/ p \in Inners(pages)
  BY ShapeFacts
<1>3. p \in Leaves(pages) => LeafSound(lo, lev, Len(pages), p, pages[p]) /\ lev[p] = 0
  BY <1>1 DEF PageSound, Leaves, LeafSound
<1>4. p \in Inners(pages) => InnerSound(lo, lev, Len(pages), p, pages[p]) /\ lev[p] > 0
  BY <1>1 DEF PageSound, Inners, InnerSound
<1> QED BY <1>2, <1>3, <1>4

LEMMA SiblingChild ==
  ASSUME ShapeOK, NEW lo, NEW lev, Bounds(lo, lev), NEW v \in Workers, task[v].pc = "sibling"
  PROVE  task[v].child \in Leaves(pages) /\ task[v].child \in 1..Len(pages) /\ task[v].locked # <<>>
<1>1. task[v].child \in 1..Len(pages)
  BY TaskFacts DEF PlaceOK
<1>2. lev[task[v].child] = 0 /\ task[v].locked # <<>>
  BY DEF Bounds, TaskSound, SplitSound, Splitting
<1>3. TreeSound(lo, lev, root, pages)
  BY DEF Bounds
<1> QED BY <1>1, <1>2, <1>3, GroundLevel

LEMMA LeafPutTree ==
  ASSUME ShapeOK, NEW lo, NEW lev, TreeSound(lo, lev, root, pages), NEW p \in Leaves(pages), NEW pg, IsLeaf(pg),
         pg.next = pages[p].next, \A e \in ToSet(pg.entries) : Within(lo, lev, Len(pages), p, e.key),
         IsPut(pages', pages, p, pg)
  PROVE  TreeSound(lo, lev, root, pages')
<1>1. Len(pages') = Len(pages) /\ \A i \in 1..Len(pages) : pages'[i] = IF i = p THEN pg ELSE pages[i]
  BY DEF IsPut
<1>2. p \in 1..Len(pages) /\ pg.kind = "leaf"
  BY KindLeaf DEF Leaves
<1>3. LeafSound(lo, lev, Len(pages), p, pages[p])
  BY <1>2, GroundLevel
<1>4. PageSound(lo, lev, Len(pages), p, pg)
  BY <1>2, <1>3 DEF PageSound, LeafSound
<1>5. \A i \in 1..Len(pages') : PageSound(lo, lev, Len(pages'), i, pages'[i])
  BY <1>1, <1>4 DEF TreeSound
<1> QED BY <1>1, <1>5 DEF TreeSound

LEMMA CompleteStep ==
  ASSUME ShapeOK, Complete, Grows(pages, pages'), NEW w \in Workers, NEW tk, task' = [task EXCEPT ![w] = tk],
         \A q \in 1..Len(pages') : q \in 1..Len(pages) \/ q = root' \/ (Splitting(tk) /\ tk.child = q),
         \A p \in Inners(pages) : \A q \in Children(pages[p]) : \E r \in Inners(pages') : q \in Children(pages'[r]),
         root' = root \/ (\E r \in Inners(pages') : root \in Children(pages'[r])),
         \/ ~Splitting(task[w])
         \/ Splitting(tk) /\ tk.child = task[w].child
         \/ \E r \in Inners(pages') : task[w].child \in Children(pages'[r])
  PROVE  Complete'
<1>0. DOMAIN task = Workers
  BY TaskFacts
<1>1. \A v \in Workers : task'[v] = IF v = w THEN tk ELSE task[v]
  BY <1>0
<1> SUFFICES ASSUME NEW q \in 1..Len(pages')
             PROVE  \/ q = root'
                    \/ \E p \in Inners(pages') : q \in Children(pages'[p])
                    \/ \E v \in Workers : Splitting(task'[v]) /\ task'[v].child = q
  BY DEF Complete, Inners
<1>2. CASE q \in 1..Len(pages)
  <2>1. CASE q = root
    BY <2>1
  <2>2. CASE \E p \in Inners(pages) : q \in Children(pages[p])
    BY <2>2
  <2>3. CASE \E v \in Workers : Splitting(task[v]) /\ task[v].child = q
    <3>1. PICK v \in Workers : Splitting(task[v]) /\ task[v].child = q
      BY <2>3
    <3>2. CASE v # w
      BY <1>1, <3>1, <3>2
    <3>3. CASE v = w
      BY <1>1, <3>1, <3>3
    <3> QED BY <3>2, <3>3
  <2> QED BY <1>2, <2>1, <2>2, <2>3 DEF Complete
<1>3. CASE q \notin 1..Len(pages)
  BY <1>1, <1>3
<1> QED BY <1>2, <1>3

LEMMA LinkedSame ==
  ASSUME ShapeOK, NEW lo, NEW lev, Bounds(lo, lev), Linked, NEW w \in Workers, NEW tk, task' = [task EXCEPT ![w] = tk],
         task[w].pc # "sibling", tk.pc # "sibling", Leaves(pages') = Leaves(pages),
         \A p \in Leaves(pages) : pages'[p].next = pages[p].next /\ pages'[p].prev = pages[p].prev
  PROVE  Linked'
<1>0. DOMAIN task = Workers
  BY TaskFacts
<1>1. \A v \in Workers : task'[v] = IF v = w THEN tk ELSE task[v]
  BY <1>0
<1>2. ASSUME NEW v \in Workers, task'[v].pc = "sibling" PROVE pages'[task'[v].child].next = task'[v].sib
  <2>1. v # w /\ task'[v] = task[v] /\ task[v].pc = "sibling"
    BY <1>1, <1>2
  <2>2. task[v].child \in Leaves(pages)
    BY <2>1, SiblingChild
  <2> QED BY <2>1, <2>2 DEF Linked
<1>3. ASSUME NEW p \in Leaves(pages), pages[p].next # 0
      PROVE  \/ pages'[pages[p].next].prev = p
             \/ \E v \in Workers : task'[v].pc = "sibling" /\ task'[v].sib = pages[p].next
  <2>1. pages[p].next \in Leaves(pages)
    BY <1>3, ShapeFacts
  <2>2. CASE pages[pages[p].next].prev = p
    BY <2>1, <2>2
  <2>3. CASE \E v \in Workers : task[v].pc = "sibling" /\ task[v].sib = pages[p].next
    <3>1. PICK v \in Workers : task[v].pc = "sibling" /\ task[v].sib = pages[p].next
      BY <2>3
    <3>2. task'[v] = task[v]
      BY <1>1, <3>1
    <3> QED BY <3>1, <3>2
  <2> QED BY <1>3, <2>2, <2>3 DEF Linked
<1>4. \A p \in Leaves(pages') :
        pages'[p].next # 0 =>
          \/ pages'[pages'[p].next].prev = p
          \/ \E v \in Workers : task'[v].pc = "sibling" /\ task'[v].sib = pages'[p].next
  BY <1>3
<1> QED BY <1>2, <1>4 DEF Linked

(* A leaf is rebuilt with its links. *)
LEMMA LeafPutSound ==
  ASSUME ShapeOK, NEW lo, NEW lev, Bounds(lo, lev), NEW w \in Workers, NEW tk, task' = [task EXCEPT ![w] = tk],
         Quiet(tk), ~Splitting(task[w]), UNCHANGED <<root, torn>>,
         NEW p \in Leaves(pages), NEW pg, IsLeaf(pg),
         pg.next = pages[p].next, pg.prev = pages[p].prev,
         \A e \in ToSet(pg.entries) : Within(lo, lev, Len(pages), p, e.key),
         IsPut(pages', pages, p, pg), Stored'
  PROVE  Bounds(lo, lev)'
<1>1. Len(pages') = Len(pages) /\ \A i \in 1..Len(pages) : pages'[i] = IF i = p THEN pg ELSE pages[i]
  BY DEF IsPut
<1>2. p \in 1..Len(pages) /\ pg.kind = "leaf" /\ pages[p].kind = "leaf" /\ Len(pages) \in Nat
  BY KindLeaf, ShapeFacts DEF Leaves
<1>3. TreeSound(lo, lev, root', pages')
  BY LeafPutTree DEF Bounds
<1>4. TaskSound(lo, lev, root', pages', tk) /\ ~AtTop(tk) /\ ToSet(tk.locked) = {}
  BY QuietSound
<1>5. \A v \in Workers : TaskSound(lo, lev, root', pages', task'[v])
  <2>1. Kept(lo, lev, Len(pages), lo, lev, Len(pages'), 0, 0)
    BY <1>1, SameKept
  <2>2. ASSUME NEW v \in Workers, NEW q \in ToSet(task[v].locked) PROVE q # 0 /\ pages'[q] = pages[q]
    <3>1. q \in Inners(pages) /\ q \in 1..Len(pages)
      BY LockedHeld
    <3>2. q # p
      BY <1>2, <3>1 DEF Inners
    <3> QED BY <1>1, <3>1, <3>2
  <2>3. Untouched(w, 0) /\ RootKept(w)
    BY <2>2 DEF Untouched, RootKept
  <2> QED BY <1>4, <2>1, <2>3, OthersKept
<1>6. RootAlone'
  BY <1>4, AloneKept DEF Bounds
<1>7. ASSUME ~torn' PROVE Complete' /\ Linked'
  <2>0. Complete /\ Linked
    BY <1>7 DEF Bounds
  <2>1. Grows(pages, pages')
    BY <1>1, <1>2 DEF Grows
  <2>2. Leaves(pages') = Leaves(pages) /\ Inners(pages') = Inners(pages)
    BY <1>1, <1>2 DEF Leaves, Inners
  <2>3. \A r \in Inners(pages) : pages'[r] = pages[r]
    BY <1>1, <1>2 DEF Inners
  <2>4. Complete'
    BY <1>1, <2>0, <2>1, <2>2, <2>3, CompleteStep
  <2>5. \A q \in Leaves(pages) : pages'[q].next = pages[q].next /\ pages'[q].prev = pages[q].prev
    BY <1>1 DEF Leaves
  <2>6. task[w].pc # "sibling" /\ tk.pc # "sibling"
    BY DEF Quiet, Splitting
  <2>7. Linked'
    BY <2>0, <2>2, <2>5, <2>6, LinkedSame
  <2> QED BY <2>4, <2>7
<1> QED BY <1>3, <1>5, <1>6, <1>7 DEF Bounds

(* A page that somebody is splitting off, and where it goes. *)
LEMMA PendingPage ==
  ASSUME ShapeOK, NEW lo, NEW lev, Bounds(lo, lev), NEW v \in Workers, Splitting(task[v]), ~AtTop(task[v])
  PROVE  /\ task[v].locked # <<>> /\ Last(task[v].locked) \in 1..Len(pages)
         /\ Last(task[v].locked) \in Inners(pages) /\ latch[Last(task[v].locked)] = v
         /\ lev[task[v].child] + 1 = lev[Last(task[v].locked)] /\ lo[task[v].child] = task[v].sep
         /\ Within(lo, lev, Len(pages), Last(task[v].locked), task[v].sep)
         /\ lo[Last(task[v].locked)] < task[v].sep /\ task[v].sep \in Nat /\ task[v].child \in 1..Len(pages)
<1>1. SplitSound(lo, lev, Len(pages), root, task[v])
  BY DEF Bounds, TaskSound
<1>2. task[v].locked # <<>>
  BY <1>1 DEF SplitSound, AtTop
<1>3. IsSeq(task[v].locked) /\ task[v].sep \in Nat /\ task[v].child \in 1..Len(pages)
  BY TaskFacts DEF PlaceOK, Splitting
<1>4. Last(task[v].locked) \in ToSet(task[v].locked)
  BY <1>2, <1>3, SeqFront
<1>5. Last(task[v].locked) \in 1..Len(pages) /\ Last(task[v].locked) \in Inners(pages) /\ latch[Last(task[v].locked)] = v
  BY <1>4, LockedHeld
<1> QED BY <1>1, <1>2, <1>3, <1>5 DEF SplitSound

(* All pages of the level of the root but the root itself are parts of a   *)
(* root that is being split.                                               *)
LEMMA RootLevel ==
  ASSUME ShapeOK, NEW lo, NEW lev, Bounds(lo, lev), ~torn, ~RootMoving, root # 0,
         NEW q \in 1..Len(pages), lev[q] = lev[root]
  PROVE  q = root
<1>0. TreeSound(lo, lev, root, pages) /\ Complete /\ Len(pages) \in Nat /\ Len(pages) <= MaxPages
  BY ShapeFacts DEF Bounds
<1>1. \A p \in 1..Len(pages) : lev[p] \in Nat
  BY <1>0, BoundTypes DEF TreeSound
<1>2. \A p \in 1..Len(pages) : lev[p] <= lev[root]
  BY <1>0 DEF TreeSound, TopSound
<1>3. ASSUME NEW p \in Inners(pages), q \in Children(pages[p]) PROVE FALSE
  <2>1. p \in 1..Len(pages) /\ IsInner(pages[p]) /\ InnerSound(lo, lev, Len(pages), p, pages[p])
    BY <1>0, GroundLevel, ShapeFacts
  <2>2. lev[q] + 1 = lev[p]
    BY <1>0, <1>3, <2>1, ChildBegins DEF TreeSound
  <2> QED BY <1>1, <1>2, <2>1, <2>2
<1>4. ASSUME NEW v \in Workers, Splitting(task[v]), task[v].child = q PROVE FALSE
  <2>1. ~AtTop(task[v])
    BY DEF RootMoving, AtTop
  <2>2. lev[q] + 1 = lev[Last(task[v].locked)] /\ Last(task[v].locked) \in 1..Len(pages)
    BY <1>4, <2>1, PendingPage
  <2> QED BY <1>1, <1>2, <2>2
<1> QED BY <1>0, <1>3, <1>4 DEF Complete

(* The root has all keys. *)
LEMMA RootIn ==
  ASSUME ShapeOK, NEW lo, NEW lev, Bounds(lo, lev), ~torn, ~RootMoving, root # 0, NEW k \in Int, k >= -1
  PROVE  Within(lo, lev, Len(pages), root, k)
<1>0. TreeSound(lo, lev, root, pages)
  BY DEF Bounds
<1>1. lo[root] = -1
  BY <1>0 DEF TreeSound, TopSound
<1>2. \A q \in 1..Len(pages) : lev[q] = lev[root] => ~(lo[root] < lo[q])
  BY <1>1, RootLevel
<1> QED BY <1>1, <1>2 DEF Within

(* The subtree that a page leads to has the key, unless the page is about  *)
(* to get another one.                                                     *)
LEMMA DownIn ==
  ASSUME ShapeOK, NEW lo, NEW lev, Bounds(lo, lev), ~torn, NEW P \in Inners(pages), NEW k \in Int,
         Within(lo, lev, Len(pages), P, k), NEW c, Leads(pages[P], c, k),
         \A v \in Workers : Splitting(task[v]) /\ ~AtTop(task[v]) => Last(task[v].locked) # P
  PROVE  Within(lo, lev, Len(pages), c, k) /\ c \in 1..Len(pages) /\ c \in Children(pages[P])
<1> DEFINE n == Len(pages)
<1>0. /\ TreeSound(lo, lev, root, pages) /\ Complete /\ n \in Nat /\ n <= MaxPages
      /\ IsBounds(lo, lev) /\ Apart(lo, lev, n)
  BY ShapeFacts DEF Bounds, TreeSound
<1>1. \A p \in 1..n : lo[p] \in Int /\ lev[p] \in Nat
  BY <1>0, BoundTypes
<1>2. P \in 1..n /\ IsInner(pages[P]) /\ InnerSound(lo, lev, n, P, pages[P]) /\ Children(pages[P]) \subseteq 1..n
  BY <1>0, GroundLevel, ShapeFacts
<1>3. c \in Children(pages[P])
  <2>1. IsEntries(pages[P].entries, InnerMax)
    BY <1>2 DEF IsInner
  <2>2. c = pages[P].leftmost \/ \E e \in ToSet(pages[P].entries) : c = e.child
    BY DEF Leads
  <2> QED BY <2>1, <2>2, ChildrenSet
<1>4. c \in 1..n /\ lev[c] + 1 = lev[P] /\ lo[P] <= lo[c]
  BY <1>0, <1>2, <1>3, ChildBegins
<1>5. lo[c] <= k
  <2>1. CASE c = pages[P].leftmost
    BY <1>2, <2>1 DEF InnerSound, Within
  <2>2. CASE \E e \in ToSet(pages[P].entries) : c = e.child /\ e.key <= k
    BY <1>2, <2>2 DEF InnerSound
  <2> QED BY <2>1, <2>2 DEF Leads
<1>6. ASSUME NEW q \in 1..n, lev[q] = lev[c], lo[c] < lo[q] PROVE k < lo[q]
  <2>0. lo[q] \in Int /\ lo[c] \in Int /\ lo[P] \in Int /\ lev[q] \in Nat /\ lev[P] \in Nat
    BY <1>1, <1>2, <1>4
  <2>t. ASSUME NEW t \in 1..n, lev[t] = lev[P], t # P, Within(lo, lev, n, t, lo[q]), lo[t] <= lo[q] PROVE k < lo[q]
    <3>0. lo[t] \in Int
      BY <1>1
    <3>1. lo[t] # lo[P]
      BY <1>0, <1>2, <2>t DEF Apart
    <3>2. CASE lo[P] < lo[t]
      <4>1. k < lo[t]
        BY <2>t, <3>2 DEF Within
      <4> QED BY <2>0, <2>t, <3>0, <4>1
    <3>3. CASE lo[t] < lo[P]
      <4>1. lo[q] < lo[P]
        BY <1>2, <2>t, <3>3 DEF Within
      <4> QED BY <1>4, <1>6, <2>0, <4>1
    <3> QED BY <2>0, <3>0, <3>1, <3>2, <3>3
  <2>1. CASE q = root
    <3>1. lev[P] <= lev[q]
      BY <1>0, <1>2, <2>1 DEF TreeSound, TopSound
    <3> QED BY <1>4, <1>6, <2>0, <3>1
  <2>2. ASSUME NEW p \in Inners(pages), q \in Children(pages[p]) PROVE k < lo[q]
    <3>1. p \in 1..n /\ IsInner(pages[p]) /\ InnerSound(lo, lev, n, p, pages[p])
      BY <1>0, GroundLevel, ShapeFacts
    <3>2. lev[q] + 1 = lev[p] /\ Within(lo, lev, n, p, lo[q]) /\ lo[p] <= lo[q]
      BY <1>0, <2>2, <3>1, ChildBegins
    <3>3. CASE p # P
      <4>1. lev[p] = lev[P]
        BY <1>1, <1>4, <1>6, <3>1, <3>2
      <4> QED BY <2>t, <3>1, <3>2, <3>3, <4>1
    <3>4. CASE p = P
      <4>2. q = pages[P].leftmost \/ \E f \in ToSet(pages[P].entries) : q = f.child
        <5> DEFINE pg == pages[P]
        <5>1. q \in Children(pg) /\ IsInner(pg)
          BY <1>2, <2>2, <3>4
        <5> HIDE DEF pg
        <5>2. q = pg.leftmost \/ \E f \in ToSet(pg.entries) : q = f.child
          BY <5>1, InnerChildren
        <5> QED BY <5>2 DEF pg
      <4>3. q # pages[P].leftmost
        BY <1>2, <1>4, <1>6, <2>0 DEF InnerSound
      <4>4. PICK f \in ToSet(pages[P].entries) : q = f.child
        BY <4>2, <4>3
      <4>5. lo[q] = f.key
        BY <1>2, <4>4 DEF InnerSound
      <4>6. CASE \A g \in ToSet(pages[P].entries) : k < g.key
        BY <4>4, <4>5, <4>6
      <4>7. CASE \E e \in ToSet(pages[P].entries) : /\ c = e.child /\ e.key <= k
                                                    /\ \A g \in ToSet(pages[P].entries) : g.key <= e.key \/ k < g.key
        <5>1. PICK e \in ToSet(pages[P].entries) : /\ c = e.child
                                                   /\ \A g \in ToSet(pages[P].entries) : g.key <= e.key \/ k < g.key
          BY <4>7
        <5>2. lo[c] = e.key
          BY <1>2, <5>1 DEF InnerSound
        <5>3. lo[q] <= lo[c] \/ k < lo[q]
          BY <4>4, <4>5, <5>1, <5>2
        <5> QED BY <1>6, <2>0, <5>3
      <4> QED BY <4>6, <4>7 DEF Leads
    <3> QED BY <3>3, <3>4
  <2>3. ASSUME NEW v \in Workers, Splitting(task[v]), task[v].child = q PROVE k < lo[q]
    <3>1. CASE AtTop(task[v])
      <4>1. lev[q] = lev[root]
        BY <2>3, <3>1 DEF Bounds, TaskSound, SplitSound, AtTop
      <4>2. root # 0
        BY <1>2 DEF ShapeOK, TreeOK
      <4>3. lev[P] <= lev[root]
        BY <1>0, <1>2, <4>2 DEF TreeSound, TopSound
      <4> QED BY <1>4, <1>6, <2>0, <4>1, <4>3
    <3>2. CASE ~AtTop(task[v])
      <4> DEFINE t == Last(task[v].locked)
      <4>1. /\ t \in 1..n /\ lev[q] + 1 = lev[t] /\ lo[q] = task[v].sep
            /\ Within(lo, lev, n, t, task[v].sep) /\ lo[t] < task[v].sep
        BY <2>3, <3>2, PendingPage
      <4>2. t # P
        BY <2>3, <3>2
      <4>3. lev[t] = lev[P] /\ lo[t] <= lo[q]
        <5>1. lev[t] \in Nat /\ lo[t] \in Int /\ lev[c] \in Nat
          BY <1>1, <1>4, <4>1
        <5> QED BY <1>4, <1>6, <2>0, <4>1, <5>1
      <4> HIDE DEF t
      <4> QED BY <2>t, <4>1, <4>2, <4>3
    <3> QED BY <3>1, <3>2
  <2> QED BY <1>0, <2>1, <2>2, <2>3 DEF Complete
<1> QED BY <1>3, <1>4, <1>5, <1>6 DEF Within

-----------------------------------------------------------------------------
(* Steps and the ranges *)

LEMMA CurIn ==
  ASSUME ShapeOK, NEW lo, NEW lev, Bounds(lo, lev), NEW w \in Workers,
         task[w].pc = "descend", task[w].call.op = "insert", ~Astray(w)
  PROVE  /\ Within(lo, lev, Len(pages), task[w].cur, Key(w)) /\ task[w].cur \in 1..Len(pages) /\ Key(w) \in Nat /\ ~torn
         /\ task[w].locked = <<>> => task[w].cur = root /\ root # 0 /\ ~RootMoving
         /\ task[w].locked # <<>> => /\ Last(task[w].locked) \in Inners(pages)
                                     /\ task[w].cur \in Children(pages[Last(task[w].locked)])
<1>0. task[w].cur \in 1..Len(pages) /\ Key(w) \in Nat /\ Key(w) \in Int /\ Key(w) >= -1
  <2>1. task[w].cur \in 1..Len(pages)
    BY TaskFacts DEF PlaceOK, AtPage
  <2>2. Key(w) \in Nat
    BY KeyOfCall
  <2> QED BY <2>1, <2>2
<1>1. ~torn /\ (task[w].locked = <<>> => task[w].cur = root /\ ~RootMoving)
  BY DEF Astray
<1>2. CASE task[w].locked = <<>>
  <2>1. root # 0
    BY <1>0, <1>1, <1>2
  <2> QED BY <1>0, <1>1, <1>2, <2>1, RootIn
<1>3. CASE task[w].locked # <<>>
  <2> DEFINE P == Last(task[w].locked)
             k == Key(w)
             c == task[w].cur
  <2>1. P \in ToSet(task[w].locked)
    BY <1>3, TaskFacts, SeqFront DEF PlaceOK
  <2>2. P \in Inners(pages) /\ latch[P] = w
    BY <2>1, LockedHeld
  <2>3. Within(lo, lev, Len(pages), P, k) /\ Leads(pages[P], c, k)
    BY <1>3 DEF Bounds, TaskSound, DownSound, Key
  <2>4. \A v \in Workers : Splitting(task[v]) /\ ~AtTop(task[v]) => Last(task[v].locked) # P
    <3> SUFFICES ASSUME NEW v \in Workers, Splitting(task[v]), ~AtTop(task[v]) PROVE Last(task[v].locked) # P
      OBVIOUS
    <3>1. v # w
      BY DEF Splitting
    <3>2. latch[Last(task[v].locked)] = v
      BY PendingPage
    <3> QED BY <2>2, <3>1, <3>2
  <2>5. k \in Int
    BY <1>0
  <2> HIDE DEF P, k, c
  <2>6. Within(lo, lev, Len(pages), c, k) /\ c \in Children(pages[P])
    BY <1>1, <2>2, <2>3, <2>4, <2>5, DownIn
  <2> QED BY <1>0, <1>1, <1>3, <2>2, <2>6 DEF P, k, c
<1> QED BY <1>2, <1>3

(* Keys of other leaves are other keys. *)
LEMMA LeafUnique ==
  ASSUME ShapeOK, NEW lo, NEW lev, TreeSound(lo, lev, root, pages), NEW p \in Leaves(pages), NEW q \in Leaves(pages),
         NEW k \in Int, Within(lo, lev, Len(pages), p, k), Within(lo, lev, Len(pages), q, k)
  PROVE  p = q
<1>1. p \in 1..Len(pages) /\ q \in 1..Len(pages) /\ lev[p] = 0 /\ lev[q] = 0
  BY GroundLevel DEF Leaves
<1>2. Len(pages) \in Nat /\ Len(pages) <= MaxPages
  BY ShapeFacts
<1> DEFINE n == Len(pages)
<1>3. /\ n \in Nat /\ n <= MaxPages /\ p \in 1..n /\ q \in 1..n /\ lev[p] = lev[q] /\ IsBounds(lo, lev) /\ Apart(lo, lev, n)
      /\ Within(lo, lev, n, p, k) /\ Within(lo, lev, n, q, k)
  BY <1>1, <1>2 DEF TreeSound
<1> HIDE DEF n
<1> QED BY <1>3, WithinUnique

LEMMA LeafKeys ==
  ASSUME ShapeOK, NEW lo, NEW lev, TreeSound(lo, lev, root, pages), NEW p \in Leaves(pages), NEW e \in ToSet(pages[p].entries)
  PROVE  Within(lo, lev, Len(pages), p, e.key) /\ e.key \in Nat
<1>1. p \in 1..Len(pages) /\ IsLeaf(pages[p])
  BY ShapeFacts
<1>2. LeafSound(lo, lev, Len(pages), p, pages[p])
  BY <1>1, GroundLevel
<1>3. e.key \in Nat
  BY <1>1, EntriesShape DEF IsLeaf
<1> QED BY <1>2, <1>3 DEF LeafSound

(* What is stored after a leaf was rebuilt. *)
LEMMA StoredPut ==
  ASSUME ShapeOK, Stored, NEW p \in Leaves(pages), NEW pg, IsLeaf(pg), IsPut(pages', pages, p, pg),
         \A e : e \in index' <=> \/ e \in ToSet(pg.entries)
                                 \/ \E q \in Leaves(pages) : q # p /\ e \in ToSet(pages[q].entries)
  PROVE  Stored'
<1>1. Len(pages') = Len(pages) /\ \A i \in 1..Len(pages) : pages'[i] = IF i = p THEN pg ELSE pages[i]
  BY DEF IsPut
<1>2. Leaves(pages') = Leaves(pages) /\ p \in 1..Len(pages)
  BY <1>1, KindLeaf DEF Leaves
<1>3. \A q \in Leaves(pages) : pages'[q] = IF q = p THEN pg ELSE pages[q]
  BY <1>1 DEF Leaves
<1>4. ASSUME NEW e PROVE e \in index' <=> \E q \in Leaves(pages) : e \in ToSet(pages'[q].entries)
  BY <1>3
<1> QED BY <1>2, <1>4 DEF Stored

(* An entry is put in a leaf, or refused. *)
Adds(ins, pg, new) ==
  \/ ins.err = "" /\ ToSet(ins.page.entries) = ToSet(pg.entries) \cup {new}
  \/ ins.err # "" /\ ins.page = pg

LEMMA LeafAdded ==
  ASSUME NEW pg, IsLeaf(pg), NEW k \in Nat, NEW rid, NEW new, new = LeafEntry(k, rid),
         NEW ins, ins = insert_entry(pg, k, rid)
  PROVE  Adds(ins, pg, new)
<1> SUFFICES \/ ins.err = "" /\ ToSet(ins.page.entries) = ToSet(pg.entries) \cup {new}
             \/ ins.err # "" /\ ins.page = pg
  BY DEF Adds
<1>1. CASE Len(pg.entries) < LeafMax /\ ~find_slot(pg, k).found
  <2>1. insert_entry(pg, k, rid).err = ""
    BY <1>1, LeafInserted
  <2>2. ToSet(insert_entry(pg, k, rid).page.entries) = ToSet(pg.entries) \cup {LeafEntry(k, rid)}
    <3> DEFINE es == pg.entries
    <3>1. insert_entry(pg, k, rid).page.entries = Merged(es, new)
      BY <1>1, LeafInserted
    <3>2. IsEntries(es, LeafMax) /\ LeafMax \in Nat /\ new.key \in Nat /\ ~Search(es, new.key).found
      BY <1>1, EntryParts, BTreePageAssumption DEF IsLeaf, find_slot
    <3> HIDE DEF es
    <3>3. ToSet(Merged(es, new)) = ToSet(es) \cup {new}
      BY <3>2, MergedEntries
    <3> QED BY <3>1, <3>3 DEF es
  <2> QED BY <2>1, <2>2
<1>2. CASE ~(Len(pg.entries) < LeafMax /\ ~find_slot(pg, k).found)
  <2>1. insert_entry(pg, k, rid).err # ""
    BY <1>2, LeafInserted
  <2>2. insert_entry(pg, k, rid).page = pg
    BY <1>2, LeafInserted
  <2> QED BY <2>1, <2>2
<1> QED BY <1>1, <1>2

LEMMA FinishedQuiet ==
  ASSUME NEW c, NEW res, NEW out
  PROVE  Quiet(Finished(c, res, out))
<1> DEFINE tk == Finished(c, res, out)
<1>1. tk.locked = <<>> /\ tk.pc = "done"
  BY FinishedParts
<1> HIDE DEF tk
<1>2. Quiet(tk)
  BY <1>1 DEF Quiet, Splitting
<1> QED BY <1>2 DEF tk

LEMMA LeafInsertSound ==
  ASSUME ShapeOK, NEW lo, NEW lev, Bounds(lo, lev), NEW w \in Workers, LeafInsert(w), ~raced'
  PROVE  Bounds(lo, lev)'
<1> DEFINE cur == task[w].cur
           rid == task[w].call.rid
           ins == insert_entry(pages[cur], Key(w), rid)
           res == IF ins.err = "" THEN "ok" ELSE "PageCorruption"
           tk == Finished(task[w].call, res, <<>>)
           new == LeafEntry(Key(w), rid)
<1>a. cur = task[w].cur /\ ins = insert_entry(pages[cur], Key(w), task[w].call.rid)
  OBVIOUS
<1>0. /\ task[w].pc = "descend" /\ task[w].call.op = "insert" /\ ~Astray(w) /\ UNCHANGED <<root, torn>>
      /\ Return(w, res, <<>>) /\ pages[cur].kind = "leaf" /\ ~leaf_needs_split(pages[cur])
      /\ IF ins.err = "" THEN Observe(index \cup {new}) ELSE NoChange
  <2>1. /\ task[w].pc = "descend" /\ task[w].call.op = "insert" /\ UNCHANGED <<root, torn>>
        /\ pages[cur].kind = "leaf" /\ ~leaf_needs_split(pages[cur])
    BY DEF LeafInsert
  <2>2. ~Astray(w)
    BY DEF LeafInsert
  <2>3. Return(w, res, <<>>)
    BY DEF LeafInsert
  <2>4. IF ins.err = "" THEN Observe(index \cup {new}) ELSE NoChange
    BY DEF LeafInsert
  <2> HIDE DEF cur, ins, res, new
  <2> QED BY <2>1, <2>2, <2>3, <2>4
<1>1. task' = [task EXCEPT ![w] = tk]
  BY <1>0 DEF Return, Finished
<1>2. Within(lo, lev, Len(pages), cur, Key(w)) /\ Key(w) \in Nat
  BY <1>0, CurIn
<1>3. Quiet(tk) /\ ~Splitting(task[w])
  BY <1>0, FinishedQuiet DEF Splitting
<1>4. Adds(ins, pages[cur], new)
  <2>1. IsLeaf(pages[cur])
    <3> HIDE DEF cur, ins
    <3> QED BY <1>a, LeafInsertPages
  <2> DEFINE k == Key(w)
             pg == pages[cur]
  <2>2. IsLeaf(pg) /\ k \in Nat /\ new = LeafEntry(k, rid) /\ ins = insert_entry(pg, k, rid)
    BY <1>2, <2>1
  <2> SUFFICES Adds(ins, pg, new)
    OBVIOUS
  <2> HIDE DEF k, pg, rid, ins, new
  <2> QED BY <2>2, LeafAdded
<1> HIDE DEF cur, ins, tk, res
<1>5. /\ cur \in Leaves(pages) /\ IsLeaf(ins.page) /\ IsPut(pages', pages, cur, ins.page)
      /\ ins.page.next = pages[cur].next /\ ins.page.prev = pages[cur].prev
  BY <1>a, LeafInsertPages
<1>6. new.key = Key(w)
  BY EntryParts
<1> HIDE DEF new
<1>b. TreeSound(lo, lev, root, pages) /\ Stored
  BY DEF Bounds
<1>7. \/ ins.err = "" /\ ToSet(ins.page.entries) = ToSet(pages[cur].entries) \cup {new} /\ index' = index \cup {new}
      \/ ins.page = pages[cur] /\ index' = index
  BY <1>0, <1>4 DEF Adds, Observe, NoChange
<1>8. \A e \in ToSet(ins.page.entries) : Within(lo, lev, Len(pages), cur, e.key)
  <2>1. \A e \in ToSet(pages[cur].entries) : Within(lo, lev, Len(pages), cur, e.key)
    BY <1>5, <1>b, LeafKeys
  <2> QED BY <1>2, <1>6, <1>7, <2>1
<1>9. Stored'
  <2>1. ASSUME NEW e PROVE e \in index' <=> \/ e \in ToSet(ins.page.entries)
                                            \/ \E q \in Leaves(pages) : q # cur /\ e \in ToSet(pages[q].entries)
    <3>1. e \in index <=> \E q \in Leaves(pages) : e \in ToSet(pages[q].entries)
      BY <1>b DEF Stored
    <3>2. e \in index <=> \/ e \in ToSet(pages[cur].entries)
                          \/ \E q \in Leaves(pages) : q # cur /\ e \in ToSet(pages[q].entries)
      BY <1>5, <3>1
    <3> QED BY <1>7, <3>2
  <2> DEFINE pg == ins.page
  <2>2. /\ IsLeaf(pg) /\ IsPut(pages', pages, cur, pg)
        /\ \A e : e \in index' <=> \/ e \in ToSet(pg.entries)
                                   \/ \E q \in Leaves(pages) : q # cur /\ e \in ToSet(pages[q].entries)
    BY <1>5, <2>1
  <2> HIDE DEF pg
  <2> QED BY <1>5, <1>b, <2>2, StoredPut
<1> DEFINE pg == ins.page
<1>10. /\ IsLeaf(pg) /\ IsPut(pages', pages, cur, pg) /\ pg.next = pages[cur].next /\ pg.prev = pages[cur].prev
       /\ \A e \in ToSet(pg.entries) : Within(lo, lev, Len(pages), cur, e.key)
  BY <1>5, <1>8
<1> HIDE DEF pg
<1> QED BY <1>0, <1>1, <1>3, <1>5, <1>9, <1>10, LeafPutSound

(* A call returns and leaves the tree alone. *)
LEMMA StopSound ==
  ASSUME ShapeOK, NEW lo, NEW lev, Bounds(lo, lev), NEW w \in Workers, NEW res, NEW out, Return(w, res, out),
         UNCHANGED <<root, pages, index>>, ~torn' => ~torn /\ ~Splitting(task[w])
  PROVE  Bounds(lo, lev)'
<1> DEFINE tk == Finished(task[w].call, res, out)
<1>1. task' = [task EXCEPT ![w] = tk]
  BY DEF Return, Finished
<1>2. Quiet(tk)
  BY FinishedQuiet
<1> HIDE DEF tk
<1> QED BY <1>1, <1>2, QuietStep

(* Only one leaf has the key. *)
LEMMA KeyElsewhere ==
  ASSUME ShapeOK, NEW lo, NEW lev, TreeSound(lo, lev, root, pages), NEW p \in Leaves(pages), NEW k \in Int,
         Within(lo, lev, Len(pages), p, k), NEW q \in Leaves(pages), q # p, NEW e \in ToSet(pages[q].entries)
  PROVE  e.key # k
<1>1. Within(lo, lev, Len(pages), q, e.key)
  BY LeafKeys
<1> QED BY <1>1, LeafUnique

LEMMA DeletedSet ==
  ASSUME ShapeOK, NEW w \in Workers, DeleteLeaf(w), NEW cur, cur = task[w].cur,
         NEW slot, slot = find_slot(pages[cur], Key(w)), Matches(pages[cur], slot, task[w].call.rid),
         NEW rest, rest = delete_entry(pages[cur], slot.pos).page
  PROVE  /\ Removes(ToSet(rest.entries), ToSet(pages[cur].entries), Key(w)) /\ Removes(index', index, Key(w))
         /\ \E old \in ToSet(pages[cur].entries) : old.key = Key(w)
         /\ cur \in Leaves(pages) /\ IsLeaf(rest) /\ rest.next = pages[cur].next /\ rest.prev = pages[cur].prev
         /\ Key(w) \in Nat
<1>1. /\ Removes(ToSet(rest.entries), ToSet(pages[cur].entries), Key(w))
      /\ cur \in Leaves(pages) /\ IsLeaf(rest) /\ rest.next = pages[cur].next /\ rest.prev = pages[cur].prev
      /\ Key(w) \in Nat
  BY DeleteFacts
<1>2. /\ IsLeaf(pages[cur]) /\ slot.pos \in 0..(Len(pages[cur].entries) - 1)
      /\ pages[cur].entries[slot.pos + 1].key = Key(w)
  BY DeleteFacts, SMTT(20)
<1>3. index' = {e \in index : e.key # Key(w)}
  BY DEF DeleteLeaf, Observe
<1> DEFINE es == pages[cur].entries
           i == slot.pos + 1
<1>4. IsEntries(es, LeafMax)
  BY <1>2 DEF IsLeaf
<1>5. i \in 1..Len(es)
  BY <1>2, <1>4, EntriesShape
<1>6. es[i] \in ToSet(es)
  BY <1>4, <1>5, EntriesShape
<1>7. \E old \in ToSet(pages[cur].entries) : old.key = Key(w)
  BY <1>2, <1>6
<1> QED BY <1>1, <1>3, <1>7 DEF Removes

LEMMA DeleteLeafSound ==
  ASSUME ShapeOK, NEW lo, NEW lev, Bounds(lo, lev), NEW w \in Workers, DeleteLeaf(w)
  PROVE  Bounds(lo, lev)'
<1> DEFINE cur == task[w].cur
           slot == find_slot(pages[cur], Key(w))
           rest == delete_entry(pages[cur], slot.pos).page
           tk == [task[w] EXCEPT !.pc = "merge"]
<1>0. task[w].pc = "delete" /\ UNCHANGED <<root, torn>>
  BY DEF DeleteLeaf
<1>a. ~Splitting(task[w])
  BY <1>0 DEF Splitting
<1>b. TreeSound(lo, lev, root, pages) /\ Stored
  BY DEF Bounds
<1>1. CASE ~Matches(pages[cur], slot, task[w].call.rid)
  <2>1. Return(w, "TupleNonExistent", <<>>) /\ UNCHANGED <<pages, index>>
    BY <1>1 DEF DeleteLeaf, NoChange
  <2> QED BY <1>0, <1>a, <2>1, StopSound
<1>2. CASE Matches(pages[cur], slot, task[w].call.rid)
  <2>2. /\ cur \in Leaves(pages) /\ IsLeaf(rest) /\ rest.next = pages[cur].next /\ rest.prev = pages[cur].prev
        /\ Key(w) \in Nat /\ (\E old \in ToSet(pages[cur].entries) : old.key = Key(w))
        /\ Removes(ToSet(rest.entries), ToSet(pages[cur].entries), Key(w)) /\ Removes(index', index, Key(w))
    BY <1>2, DeletedSet
  <2>3. IsPut(pages', pages, cur, rest) /\ Grows(pages, pages')
    BY <1>2, DeleteLeafPages
  <2>4. \/ Return(w, "ok", <<>>)
        \/ task' = [task EXCEPT ![w].pc = "merge"]
    BY <1>2 DEF DeleteLeaf
  <2>6. \E t : task' = [task EXCEPT ![w] = t] /\ Quiet(t)
    <3>1. CASE Return(w, "ok", <<>>)
      BY <3>1, FinishedQuiet DEF Return, Finished
    <3>2. CASE task' = [task EXCEPT ![w].pc = "merge"]
      <4>1. DOMAIN task[w] = DOMAIN NoTask /\ DOMAIN task = Workers /\ task[w].locked = <<>>
        BY <1>0, TaskFacts, NothingLocked
      <4>2. task' = [task EXCEPT ![w] = tk]
        BY <3>2, <4>1
      <4>3. tk.locked = <<>> /\ tk.pc = "merge"
        BY <4>1 DEF NoTask
      <4> HIDE DEF tk
      <4>4. Quiet(tk)
        BY <4>3 DEF Quiet, Splitting
      <4> QED BY <4>2, <4>4
    <3> QED BY <2>4, <3>1, <3>2
  <2>7. PICK t : task' = [task EXCEPT ![w] = t] /\ Quiet(t)
    BY <2>6
  <2> DEFINE k == Key(w)
             pg == rest
  <2>e. k \in Int
    BY <2>2
  <2>c. /\ k \in Int /\ pg.next = pages[cur].next /\ pg.prev = pages[cur].prev /\ IsLeaf(pg)
        /\ Removes(ToSet(pg.entries), ToSet(pages[cur].entries), k) /\ Removes(index', index, k)
        /\ cur \in Leaves(pages) /\ (\E old \in ToSet(pages[cur].entries) : old.key = k)
        /\ IsPut(pages', pages, cur, pg)
    BY <2>2, <2>3, <2>e
  <2> HIDE DEF rest, slot, cur, k, pg
  <2>d. \A e \in ToSet(pages[cur].entries) : Within(lo, lev, Len(pages), cur, e.key)
    BY <1>b, <2>c, LeafKeys
  <2>9. Within(lo, lev, Len(pages), cur, k)
    BY <2>c, <2>d
  <2>10. \A e \in ToSet(pg.entries) : Within(lo, lev, Len(pages), cur, e.key)
    BY <2>c, <2>d DEF Removes
  <2>11. Stored'
    <3>1. ASSUME NEW e PROVE e \in index' <=> \/ e \in ToSet(pg.entries)
                                              \/ \E q \in Leaves(pages) : q # cur /\ e \in ToSet(pages[q].entries)
      <4>1. e \in index <=> \E q \in Leaves(pages) : e \in ToSet(pages[q].entries)
        BY <1>b DEF Stored
      <4>2. \A q \in Leaves(pages) : q # cur /\ e \in ToSet(pages[q].entries) => e.key # k
        BY <1>b, <2>c, <2>9, KeyElsewhere
      <4> QED BY <2>c, <4>1, <4>2 DEF Removes
    <3> QED BY <1>b, <2>c, <3>1, StoredPut
  <2> QED BY <1>0, <1>a, <2>c, <2>7, <2>10, <2>11, LeafPutSound
<1> QED BY <1>1, <1>2

(* A task that holds no inner page moves on and reads only. *)
Reads(w) == \E tk : task' = [task EXCEPT ![w] = tk] /\ tk.locked = <<>> /\ tk.pc \notin {"sibling", "ancestors"}

LEMMA ReturnReads ==
  ASSUME NEW w \in Workers, NEW res, NEW out, Return(w, res, out)
  PROVE  Reads(w)
<1> DEFINE tk == Finished(task[w].call, res, out)
<1>1. task' = [task EXCEPT ![w] = tk]
  BY DEF Return, Finished
<1>2. tk.locked = <<>> /\ tk.pc = "done"
  BY FinishedParts
<1> HIDE DEF tk
<1> QED BY <1>1, <1>2 DEF Reads

LEMMA ReadsSound ==
  ASSUME ShapeOK, NEW lo, NEW lev, Bounds(lo, lev), NEW w \in Workers, Reads(w),
         UNCHANGED <<root, pages, index, torn>>, task[w].pc \notin {"sibling", "ancestors"}
  PROVE  Bounds(lo, lev)'
<1>1. PICK tk : task' = [task EXCEPT ![w] = tk] /\ tk.locked = <<>> /\ tk.pc \notin {"sibling", "ancestors"}
  BY DEF Reads
<1>2. Quiet(tk) /\ ~Splitting(task[w])
  BY <1>1 DEF Quiet, Splitting
<1> QED BY <1>1, <1>2, QuietStep

LEMMA CallReads ==
  ASSUME ShapeOK, NEW w \in Workers, NEW c, Call(w, c)
  PROVE  Reads(w) /\ UNCHANGED <<root, pages, index, torn>> /\ task[w].pc \notin {"sibling", "ancestors"}
<1> DEFINE tk == [NoTask EXCEPT !.pc = "root", !.call = c]
<1>1. /\ task' = [task EXCEPT ![w] = tk] /\ UNCHANGED <<root, pages, index, torn>>
      /\ task[w].pc \in {"idle", "done"}
  BY DEF Call, treeVars, Idle
<1>2. tk.locked = <<>> /\ tk.pc = "root"
  BY DEF NoTask
<1> HIDE DEF tk
<1>3. Reads(w)
  BY <1>1, <1>2 DEF Reads
<1> QED BY <1>1, <1>3

LEMMA ReadRootReads ==
  ASSUME ShapeOK, NEW w \in Workers, ReadRoot(w)
  PROVE  Reads(w) /\ UNCHANGED <<root, pages, index, torn>> /\ task[w].pc \notin {"sibling", "ancestors"}
<1>0. task[w].pc = "root" /\ UNCHANGED <<root, pages, index, torn>>
  BY DEF ReadRoot, histVars
<1>1. DOMAIN task[w] = DOMAIN NoTask /\ DOMAIN task = Workers /\ task[w].locked = <<>>
  BY <1>0, TaskFacts, NothingLocked
<1>2. \/ task' = [task EXCEPT ![w].pc = "descend", ![w].cur = root]
      \/ task' = [task EXCEPT ![w].pc = "first"]
      \/ \E res : Return(w, res, <<>>)
  BY DEF ReadRoot
<1>3. CASE task' = [task EXCEPT ![w].pc = "descend", ![w].cur = root]
  <2> DEFINE tk == [task[w] EXCEPT !.pc = "descend", !.cur = root]
  <2>1. task' = [task EXCEPT ![w] = tk]
    BY <1>1, <1>3
  <2>2. tk.locked = <<>> /\ tk.pc = "descend"
    BY <1>1 DEF NoTask
  <2> HIDE DEF tk
  <2> QED BY <1>0, <2>1, <2>2 DEF Reads
<1>4. CASE task' = [task EXCEPT ![w].pc = "first"]
  <2> DEFINE tk == [task[w] EXCEPT !.pc = "first"]
  <2>1. task' = [task EXCEPT ![w] = tk]
    BY <1>1, <1>4
  <2>2. tk.locked = <<>> /\ tk.pc = "first"
    BY <1>1 DEF NoTask
  <2> HIDE DEF tk
  <2> QED BY <1>0, <2>1, <2>2 DEF Reads
<1>5. CASE \E res : Return(w, res, <<>>)
  BY <1>0, <1>5, ReturnReads
<1> QED BY <1>2, <1>3, <1>4, <1>5

LEMMA DescendReads ==
  ASSUME ShapeOK, NEW w \in Workers, Descend(w)
  PROVE  Reads(w) /\ UNCHANGED <<root, pages, index, torn>> /\ task[w].pc \notin {"sibling", "ancestors"}
<1> DEFINE cur == task[w].cur
           next == find_child(pages[cur], Key(w))
           path == IF task[w].call.op = "delete" THEN Append(task[w].path, cur) ELSE task[w].path
           tk1 == [task[w] EXCEPT !.cur = next, !.path = path]
           tk2 == [task[w] EXCEPT !.pc = task[w].call.op]
<1>0. /\ task[w].pc = "descend" /\ task[w].call.op # "insert" /\ UNCHANGED <<root, pages, index, torn>>
  BY DEF Descend, treeVars, histVars
<1>1. /\ DOMAIN task[w] = DOMAIN NoTask /\ DOMAIN task = Workers /\ task[w].locked = <<>>
      /\ task[w].call.op \in {"get", "scan", "delete"}
  BY <1>0, TaskFacts, NothingLocked DEF PcOK, CallOK
<1>2. task' = [task EXCEPT ![w] = tk1] \/ task' = [task EXCEPT ![w] = tk2]
  BY <1>1 DEF Descend, NoTask
<1> HIDE DEF next, path
<1>3. tk1.locked = <<>> /\ tk1.pc = "descend" /\ tk2.locked = <<>> /\ tk2.pc = task[w].call.op
  BY <1>0, <1>1 DEF NoTask
<1> HIDE DEF tk1, tk2
<1>4. tk2.pc \notin {"sibling", "ancestors"}
  BY <1>1, <1>3
<1>5. Reads(w)
  BY <1>2, <1>3, <1>4 DEF Reads
<1> QED BY <1>0, <1>5

LEMMA GetReads ==
  ASSUME ShapeOK, NEW w \in Workers, Get(w)
  PROVE  Reads(w) /\ UNCHANGED <<root, pages, index, torn>> /\ task[w].pc \notin {"sibling", "ancestors"}
<1>1. (\E res, out : Return(w, res, out)) /\ UNCHANGED <<root, pages, index, torn>> /\ task[w].pc = "get"
  BY DEF Get, histVars
<1> QED BY <1>1, ReturnReads

LEMMA ScanLeafReads ==
  ASSUME ShapeOK, NEW w \in Workers, ScanLeaf(w)
  PROVE  Reads(w) /\ UNCHANGED <<root, pages, index, torn>> /\ task[w].pc \notin {"sibling", "ancestors"}
<1> DEFINE next == pages[task[w].cur].next
           out == task[w].out \o Yielded(Buffered(w, pages[task[w].cur].entries))
           tk == [task[w] EXCEPT !.cur = next, !.first = FALSE, !.out = out]
<1>0. task[w].pc = "scan" /\ UNCHANGED <<root, pages, index, torn>>
  BY DEF ScanLeaf, histVars
<1>1. DOMAIN task[w] = DOMAIN NoTask /\ DOMAIN task = Workers /\ task[w].locked = <<>>
  BY <1>0, TaskFacts, NothingLocked
<1>2. Return(w, "ok", out) \/ task' = [task EXCEPT ![w] = tk]
  BY <1>1 DEF ScanLeaf, NoTask
<1> HIDE DEF out, next
<1>3. tk.locked = <<>> /\ tk.pc = "scan"
  BY <1>0, <1>1 DEF NoTask
<1> HIDE DEF tk
<1>4. Reads(w)
  BY <1>2, <1>3, ReturnReads DEF Reads
<1> QED BY <1>0, <1>4

LEMMA MergeReads ==
  ASSUME ShapeOK, NEW w \in Workers, MergeParent(w) \/ MergeSurvivor(w)
  PROVE  Reads(w) /\ UNCHANGED <<root, pages, index, torn>> /\ task[w].pc \notin {"sibling", "ancestors"}
<1> DEFINE sib == CHOOSE p \in MergeSurvivors(pages[Last(task[w].path)], task[w].cur) : TRUE
           parent == Last(task[w].path)
           tk1 == [task[w] EXCEPT !.pc = "survivor", !.leaf = parent, !.sib = sib]
           tk2 == [task[w] EXCEPT !.pc = "removed", !.sib = task[w].cur]
<1>0. task[w].pc \in {"merge", "survivor"} /\ UNCHANGED <<root, pages, index, torn>>
  BY DEF MergeParent, MergeSurvivor, histVars
<1>1. DOMAIN task[w] = DOMAIN NoTask /\ DOMAIN task = Workers /\ task[w].locked = <<>>
  BY <1>0, TaskFacts, NothingLocked
<1>2. Return(w, "ok", <<>>) \/ task' = [task EXCEPT ![w] = tk1] \/ task' = [task EXCEPT ![w] = tk2]
  BY <1>1 DEF MergeParent, MergeSurvivor, NoTask
<1> HIDE DEF sib, parent
<1>3. tk1.locked = <<>> /\ tk1.pc = "survivor" /\ tk2.locked = <<>> /\ tk2.pc = "removed"
  BY <1>1 DEF NoTask
<1> HIDE DEF tk1, tk2
<1>4. Reads(w)
  BY <1>2, <1>3, ReturnReads DEF Reads
<1> QED BY <1>0, <1>4

LEMMA FailSound ==
  ASSUME ShapeOK, NEW lo, NEW lev, Bounds(lo, lev), NEW w \in Workers, Fail(w)
  PROVE  Bounds(lo, lev)'
<1>1. /\ Return(w, "BufferError", <<>>) /\ torn' = (torn \/ task[w].pc \in {"sibling", "ancestors"})
      /\ UNCHANGED <<root, pages, index>>
  BY DEF Fail
<1>2. ~torn' => ~torn /\ ~Splitting(task[w])
  BY <1>1 DEF Splitting
<1> QED BY <1>1, <1>2, StopSound

(* All that is lost is not Intact. *)
LEMMA ReloadSound ==
  ASSUME NEW lo, NEW lev, Bounds(lo, lev), Reload, ~lost'
  PROVE  Bounds(lo, lev)'
<1>1. UNCHANGED <<pages, root, task, index, torn>>
  BY DEF Reload
<1> QED BY <1>1 DEF Bounds, RootAlone, Stored, Complete, Linked, Inners, Leaves

(* In an empty tree nobody is on the way. *)
LEMMA EmptyTree ==
  ASSUME ShapeOK, root = 0, NEW v \in Workers
  PROVE  Len(pages) = 0 /\ Leaves(pages) = {} /\ Quiet(task[v])
<1>1. Len(pages) = 0
  BY DEF ShapeOK, TreeOK
<1>2. Leaves(pages) = {} /\ Inners(pages) = {} /\ 1..Len(pages) = {}
  BY <1>1 DEF Leaves, Inners
<1>3. PlaceOK(task[v], pages)
  BY TaskFacts
<1>4. IsSeq(task[v].locked) /\ ToSet(task[v].locked) = {}
  BY <1>2, <1>3 DEF PlaceOK
<1>5. task[v].locked = <<>>
  BY <1>4, SeqFront
<1>6. ~Splitting(task[v])
  BY <1>2, <1>3 DEF PlaceOK, Splitting
<1> QED BY <1>1, <1>2, <1>5, <1>6 DEF Quiet

LEMMA QuietAll ==
  ASSUME NEW lo, NEW lev, NEW rt, NEW pgs, NEW tsk, \A v \in Workers : Quiet(tsk[v])
  PROVE  \A v \in Workers : TaskSound(lo, lev, rt, pgs, tsk[v]) /\ ~AtTop(tsk[v]) /\ tsk[v].pc # "sibling"
<1> SUFFICES ASSUME NEW v \in Workers PROVE TaskSound(lo, lev, rt, pgs, tsk[v]) /\ ~AtTop(tsk[v]) /\ tsk[v].pc # "sibling"
  OBVIOUS
<1> DEFINE t == tsk[v]
<1>1. Quiet(t)
  OBVIOUS
<1> HIDE DEF t
<1>2. TaskSound(lo, lev, rt, pgs, t) /\ ~AtTop(t) /\ t.pc # "sibling"
  BY <1>1, QuietSound DEF Quiet, Splitting
<1> QED BY <1>2 DEF t

LEMMA FirstTree ==
  ASSUME NEW lo, NEW lev, IsBounds(lo, lev), MaxPages >= 1, NEW lo2, lo2 = Set(lo, 1, -1), NEW lev2, lev2 = Set(lev, 1, 0),
         NEW pg, IsLeaf(pg), pg.next = 0, NEW pgs, Len(pgs) = 1, pgs[1] = pg
  PROVE  TreeSound(lo2, lev2, 1, pgs)
<1>1. /\ IsBounds(lo2, lev2) /\ lo2[1] = -1 /\ lev2[1] = 0 /\ Apart(lo2, lev2, 1) /\ TopSound(lo2, lev2, 1, 1)
      /\ \A k \in Int : k >= -1 => Within(lo2, lev2, 1, 1, k)
  <2> DEFINE n == 0
             m == 1
             l == 0
  <2>1. /\ n \in Nat /\ m = n + 1 /\ m <= MaxPages /\ Apart(lo, lev, n) /\ l \in Nat /\ (\A p \in 1..n : lev[p] < l)
        /\ lo2 = Set(lo, m, -1) /\ lev2 = Set(lev, m, l) /\ (l = 0 => n = 0)
    BY IndexAssumption DEF Apart
  <2> HIDE DEF n, m, l
  <2>2. /\ IsBounds(lo2, lev2) /\ lo2[m] = -1 /\ lev2[m] = l /\ Apart(lo2, lev2, m) /\ TopSound(lo2, lev2, m, m)
        /\ \A k \in Int : k >= -1 => Within(lo2, lev2, m, m, k)
    BY <2>1, TopKept
  <2> QED BY <2>2 DEF m, l
<1>2. \A e \in ToSet(pg.entries) : Within(lo2, lev2, 1, 1, e.key)
  <2> SUFFICES ASSUME NEW e \in ToSet(pg.entries) PROVE Within(lo2, lev2, 1, 1, e.key)
    OBVIOUS
  <2>1. e.key \in Nat
    BY EntriesShape DEF IsLeaf
  <2>2. e.key \in Int /\ e.key >= -1
    BY <2>1
  <2> QED BY <1>1, <2>2
<1>3. NextSound(lo2, lev2, 1, 1, 0)
  BY <1>1 DEF NextSound
<1>4. LeafSound(lo2, lev2, 1, 1, pg) /\ pg.kind = "leaf"
  BY <1>1, <1>2, <1>3, KindLeaf DEF LeafSound
<1>5. \A p \in 1..Len(pgs) : PageSound(lo2, lev2, Len(pgs), p, pgs[p])
  BY <1>4 DEF PageSound
<1> QED BY <1>1, <1>5 DEF TreeSound

LEMMA FirstInsertSound ==
  ASSUME ShapeOK, NEW lo, NEW lev, Bounds(lo, lev), NEW w \in Workers, FirstInsert(w), ~raced'
  PROVE  BoundsGo(lo, lev)
<1> DEFINE leaf == insert_entry(init_leaf, Key(w), task[w].call.rid).page
           tk == Finished(task[w].call, "ok", <<>>)
           lo2 == Set(lo, 1, -1)
           lev2 == Set(lev, 1, 0)
<1>0. /\ root = 0 /\ Return(w, "ok", <<>>) /\ root' = NewPage /\ index' = index \cup ToSet(leaf.entries)
  BY DEF FirstInsert, Observe
<1>a. task' = [task EXCEPT ![w] = tk] /\ DOMAIN task = Workers
  BY <1>0, TaskFacts DEF Return, Finished
<1>1. Len(pages) = 0 /\ Leaves(pages) = {} /\ \A v \in Workers : Quiet(task[v])
  BY <1>0, EmptyTree
<1>2. IsAdd(pages', pages, leaf) /\ IsLeaf(leaf) /\ leaf.next = 0 /\ NewPage = Len(pages) + 1 /\ NewPage \in PageIds
  BY FirstInsertPages
<1>3. Quiet(tk)
  BY FinishedQuiet
<1> HIDE DEF leaf, tk
<1>4. \A v \in Workers : Quiet(task'[v])
  BY <1>a, <1>1, <1>3
<1>5. Len(pages') = 1 /\ pages'[1] = leaf /\ root' = 1 /\ MaxPages >= 1
  BY <1>0, <1>1, <1>2, IndexAssumption DEF IsAdd, PageIds
<1>6. Leaves(pages') = {1} /\ leaf.kind = "leaf"
  BY <1>2, <1>5, KindLeaf DEF Leaves
<1>7. TreeSound(lo2, lev2, 1, pages')
  <2> DEFINE pgs == pages'
             l2 == lo2
             v2 == lev2
  <2>1. IsBounds(lo, lev) /\ Len(pgs) = 1 /\ pgs[1] = leaf /\ l2 = Set(lo, 1, -1) /\ v2 = Set(lev, 1, 0)
    BY <1>5 DEF Bounds, TreeSound
  <2> HIDE DEF pgs, l2, v2
  <2>2. TreeSound(l2, v2, 1, pgs)
    BY <1>2, <1>5, <2>1, FirstTree
  <2> QED BY <2>2 DEF pgs, l2, v2
<1>8. Stored'
  <2>1. \A e : e \notin index
    BY <1>1 DEF Bounds, Stored
  <2>2. ASSUME NEW e PROVE e \in index' <=> \E p \in Leaves(pages') : e \in ToSet(pages'[p].entries)
    BY <1>0, <1>5, <1>6, <2>1
  <2> QED BY <2>2 DEF Stored
<1>9. Complete'
  BY <1>5 DEF Complete
<1> HIDE DEF lo2, lev2
<1>10. \A v \in Workers : TaskSound(lo2, lev2, root', pages', task'[v]) /\ ~AtTop(task'[v]) /\ task'[v].pc # "sibling"
  <2> DEFINE tsk == task'
             rt == root'
             pgs == pages'
  <2>1. \A v \in Workers : Quiet(tsk[v])
    BY <1>4
  <2> HIDE DEF tsk, rt, pgs
  <2>2. \A v \in Workers : TaskSound(lo2, lev2, rt, pgs, tsk[v]) /\ ~AtTop(tsk[v]) /\ tsk[v].pc # "sibling"
    BY <2>1, QuietAll
  <2> QED BY <2>2 DEF tsk, rt, pgs
<1>11. RootAlone'
  BY <1>10 DEF RootAlone
<1>12. Linked'
  BY <1>2, <1>5, <1>6, <1>10 DEF Linked
<1>13. Bounds(lo2, lev2)'
  BY <1>5, <1>7, <1>8, <1>9, <1>10, <1>11, <1>12 DEF Bounds
<1>14. Same(lo, lev, Len(pages), lo2, lev2)
  BY <1>1 DEF Same
<1> QED BY <1>13, <1>14 DEF BoundsGo

(* A task moves on in a tree that stays as it is. *)
LEMMA MoveStep ==
  ASSUME ShapeOK, NEW lo, NEW lev, Bounds(lo, lev), NEW w \in Workers, NEW tk, task' = [task EXCEPT ![w] = tk],
         UNCHANGED <<root, pages, index, torn>>, ~Splitting(task[w]), ~Splitting(tk),
         TaskSound(lo, lev, root, pages, tk), RootAlone'
  PROVE  Bounds(lo, lev)'
<1>0. DOMAIN task = Workers /\ Len(pages) \in Nat
  BY TaskFacts, ShapeFacts
<1>1. \A v \in Workers : TaskSound(lo, lev, root', pages', task'[v])
  BY <1>0 DEF Bounds
<1>2. Stored' /\ TreeSound(lo, lev, root', pages')
  BY DEF Bounds, Stored, Leaves
<1>3. ASSUME ~torn' PROVE Complete' /\ Linked'
  <2>1. Complete /\ Linked
    BY <1>3 DEF Bounds
  <2>2. Complete'
    <3>1. Grows(pages, pages')
      BY <1>0 DEF Grows
    <3> QED BY <2>1, <3>1, CompleteStep
  <2>3. Linked'
    <3>1. task[w].pc # "sibling" /\ tk.pc # "sibling" /\ Leaves(pages') = Leaves(pages)
      BY DEF Splitting, Leaves
    <3> QED BY <2>1, <3>1, LinkedSame
  <2> QED BY <2>2, <2>3
<1> QED BY <1>1, <1>2, <1>3 DEF Bounds

(* The levels above a child. *)
LEMMA ChildNotRoot ==
  ASSUME ShapeOK, NEW lo, NEW lev, TreeSound(lo, lev, root, pages), root # 0, NEW p \in Inners(pages), NEW c \in Children(pages[p])
  PROVE  c # root /\ lev[c] + 1 = lev[p] /\ lo[p] <= lo[c]
<1>1. p \in 1..Len(pages) /\ c \in 1..Len(pages) /\ IsInner(pages[p]) /\ Len(pages) \in Nat /\ Len(pages) <= MaxPages
  BY ShapeFacts
<1>2. InnerSound(lo, lev, Len(pages), p, pages[p]) /\ IsBounds(lo, lev) /\ TopSound(lo, lev, Len(pages), root)
  BY <1>1, GroundLevel DEF TreeSound
<1> DEFINE n == Len(pages)
           pg == pages[p]
<1>3. n \in Nat /\ n <= MaxPages /\ p \in 1..n /\ IsInner(pg) /\ InnerSound(lo, lev, n, p, pg) /\ c \in Children(pg)
  BY <1>1, <1>2
<1> HIDE DEF n, pg
<1>4. lev[c] + 1 = lev[p] /\ lo[p] <= lo[c]
  BY <1>2, <1>3, ChildBegins
<1>5. lev[p] <= lev[root]
  BY <1>1, <1>2 DEF TopSound
<1>6. c \in PageIds /\ p \in PageIds
  BY <1>1, ShapeFacts
<1>7. lev[c] \in Nat /\ lev[p] \in Nat
  BY <1>2, <1>6 DEF IsBounds
<1>8. root \in PageIds
  BY ShapeFacts
<1>9. lev[root] \in Nat
  BY <1>2, <1>8 DEF IsBounds
<1> QED BY <1>4, <1>5, <1>7, <1>9

(* One more latched page. *)
LEMMA LockSoundAdd ==
  ASSUME NEW rt, NEW pgs, NEW tk, NEW t, IsSeq(t.locked), NEW above, IsSeq(above), LockSound(rt, pgs, t), NEW c,
         IsAdd(tk.locked, above, c),
         \/ above = <<>> /\ (c = rt \/ ~inner_is_full(pgs[c]))
         \/ above = t.locked /\ above # <<>> /\ c \in Children(pgs[Last(above)])
  PROVE  LockSound(rt, pgs, tk) /\ Last(tk.locked) = c /\ tk.locked # <<>>
<1>0. Len(above) \in Nat /\ Len(tk.locked) = Len(above) + 1 /\ IsSeq(tk.locked) /\ tk.locked[Len(above) + 1] = c
  BY SeqShape DEF IsAdd
<1>a. tk.locked # <<>>
  BY <1>0, EmptyIsSeq
<1>b. Last(tk.locked) = c
  BY <1>0, <1>a, SeqFront
<1>1. CASE above = <<>>
  <2>1. Len(above) = 0 /\ (c = rt \/ ~inner_is_full(pgs[c]))
    BY <1>1, EmptyIsSeq
  <2>2. Len(tk.locked) = 1 /\ tk.locked[1] = c
    BY <1>0, <2>1
  <2> QED BY <1>a, <1>b, <2>1, <2>2 DEF LockSound
<1>2. CASE above = t.locked /\ above # <<>> /\ c \in Children(pgs[Last(above)])
  <2>1. Len(above) > 0 /\ Last(above) = above[Len(above)]
    BY <1>2, SeqFront
  <2>2. /\ \A i \in 1..(Len(above) - 1) : above[i + 1] \in Children(pgs[above[i]])
        /\ above[1] = rt \/ ~inner_is_full(pgs[above[1]])
    BY <1>2 DEF LockSound
  <2>3. \A i \in 1..Len(above) : tk.locked[i] = above[i]
    BY DEF IsAdd
  <2>4. tk.locked[1] = above[1]
    BY <1>0, <2>1, <2>3
  <2>5. ASSUME NEW i \in 1..(Len(tk.locked) - 1) PROVE tk.locked[i + 1] \in Children(pgs[tk.locked[i]])
    <3>1. i \in 1..Len(above) /\ tk.locked[i] = above[i]
      BY <1>0, <2>3
    <3>2. CASE i = Len(above)
      BY <1>0, <1>2, <2>1, <3>1, <3>2
    <3>3. CASE i # Len(above)
      <4>1. i \in 1..(Len(above) - 1) /\ i + 1 \in 1..Len(above)
        BY <1>0, <3>1, <3>3
      <4> QED BY <2>2, <2>3, <3>1, <4>1
    <3> QED BY <3>2, <3>3
  <2> QED BY <1>a, <1>b, <2>2, <2>4, <2>5 DEF LockSound
<1> QED BY <1>1, <1>2

LEMMA CrabInnerSound ==
  ASSUME ShapeOK, NEW lo, NEW lev, Bounds(lo, lev), NEW w \in Workers, CrabInner(w), ~raced'
  PROVE  Bounds(lo, lev)'
<1> DEFINE cur == task[w].cur
           safe == inner_safe_for_insert(pages[cur])
           above == Above(w, safe)
           next == find_child(pages[cur], Key(w))
           tk == CrabTask(task[w], next, Append(above, cur))
<1>1. /\ task[w].pc = "descend" /\ task[w].call.op = "insert"
      /\ cur \in Inners(pages) /\ cur \in 1..Len(pages) /\ IsInner(pages[cur])
      /\ Key(w) \in Nat
      /\ IsSeq(task[w].locked) /\ IsSeq(above) /\ (above = <<>> \/ above = task[w].locked)
      /\ IsAdd(tk.locked, above, cur) /\ ToSet(tk.locked) = ToSet(above) \cup {cur}
      /\ tk.pc = "descend" /\ tk.cur = next /\ tk.call = task[w].call
      /\ task' = [task EXCEPT ![w] = tk]
  BY CrabForm
<1>2. ~Astray(w)
  BY DEF CrabInner
<1>3. UNCHANGED <<root, pages, index, torn>>
  BY DEF CrabInner
<1>4. safe => ~inner_is_full(pages[cur])
  <2>1. Len(pages[cur].entries) \in Nat /\ InnerMax \in Nat
    BY <1>1, EntriesShape, BTreePageAssumption DEF IsInner
  <2> QED BY <2>1 DEF inner_safe_for_insert, inner_is_full
<1>5. ~safe => above = task[w].locked
  BY DEF Above
<1>6. Leads(pages[cur], next, Key(w))
  <2> DEFINE pg == pages[cur]
             k == Key(w)
  <2>1. IsEntries(pg.entries, InnerMax) /\ k \in Int
    BY <1>1 DEF IsInner
  <2> HIDE DEF pg, k
  <2>2. Leads(pg, find_child(pg, k), k)
    BY <2>1, FindLeads
  <2> QED BY <2>2 DEF pg, k
<1> HIDE DEF next, above, safe, tk
<1>7. /\ Within(lo, lev, Len(pages), cur, Key(w)) /\ ~torn
      /\ task[w].locked = <<>> => cur = root /\ root # 0 /\ ~RootMoving
      /\ task[w].locked # <<>> => /\ Last(task[w].locked) \in Inners(pages)
                                  /\ cur \in Children(pages[Last(task[w].locked)])
  BY <1>1, <1>2, CurIn
<1> HIDE DEF cur
<1>8. LockSound(root, pages, tk) /\ Last(tk.locked) = cur /\ tk.locked # <<>>
  <2> DEFINE t == task[w]
  <2>1. LockSound(root, pages, t) /\ IsSeq(t.locked)
    BY <1>1 DEF Bounds, TaskSound
  <2>2. \/ above = <<>> /\ (cur = root \/ ~inner_is_full(pages[cur]))
        \/ above = t.locked /\ above # <<>> /\ cur \in Children(pages[Last(above)])
    BY <1>1, <1>4, <1>5, <1>7
  <2> HIDE DEF t
  <2> QED BY <1>1, <2>1, <2>2, LockSoundAdd
<1>9. TaskSound(lo, lev, root, pages, tk) /\ ~Splitting(tk) /\ ~Splitting(task[w])
  <2>1. ~Splitting(tk) /\ ~Splitting(task[w])
    BY <1>1 DEF Splitting
  <2>2. SplitSound(lo, lev, Len(pages), root, tk)
    BY <2>1 DEF SplitSound
  <2>3. DownSound(lo, lev, Len(pages), pages, tk)
    BY <1>1, <1>6, <1>7, <1>8 DEF DownSound, Key
  <2> QED BY <1>8, <2>1, <2>2, <2>3 DEF TaskSound
<1>10. RootAlone'
  <2>0. \A v \in Workers : task'[v] = IF v = w THEN tk ELSE task[v]
    BY <1>1, TaskFacts
  <2> SUFFICES ASSUME NEW u \in Workers, NEW v \in Workers, u # v, AtTop(task'[v])
               PROVE  root \notin ToSet(task'[u].locked) /\ ~AtTop(task'[u])
    BY <1>3 DEF RootAlone
  <2>1. v # w /\ AtTop(task[v])
    BY <1>1, <2>0 DEF AtTop
  <2>2. RootMoving
    BY <2>1 DEF RootMoving, AtTop
  <2>3. root \notin ToSet(task[u].locked) /\ ~AtTop(task[u])
    BY <2>1 DEF Bounds, RootAlone
  <2>4. CASE u = w
    <3>1. root \notin ToSet(above)
      BY <1>1, <2>3, <2>4, EmptyIsSeq
    <3>2. task[w].locked # <<>>
      BY <1>7, <2>2
    <3>3. root # 0
      BY <1>1, ShapeFacts DEF ShapeOK, TreeOK
    <3>4. cur # root
      BY <1>7, <3>2, <3>3, ChildNotRoot DEF Bounds
    <3> QED BY <1>1, <2>0, <2>4, <3>1, <3>4 DEF AtTop
  <2> QED BY <2>0, <2>3, <2>4
<1> QED BY <1>1, <1>3, <1>9, <1>10, MoveStep

(* No two leaves have the same right sibling. *)
LEMMA NextUnique ==
  ASSUME ShapeOK, NEW lo, NEW lev, TreeSound(lo, lev, root, pages), NEW p \in Leaves(pages), NEW q \in Leaves(pages),
         pages[p].next = pages[q].next, pages[p].next # 0
  PROVE  p = q
<1> DEFINE nx == pages[p].next
           n == Len(pages)
<1>1. p \in 1..n /\ q \in 1..n /\ nx \in Leaves(pages) /\ nx \in 1..n
  BY ShapeFacts
<1>2. /\ lev[p] = 0 /\ lev[q] = 0 /\ LeafSound(lo, lev, n, p, pages[p]) /\ LeafSound(lo, lev, n, q, pages[q])
  BY <1>1, GroundLevel
<1>3. NextSound(lo, lev, n, p, nx) /\ NextSound(lo, lev, n, q, nx) /\ nx # 0
  BY <1>2 DEF LeafSound
<1>4. lo[p] \in Int /\ lo[q] \in Int /\ lo[nx] \in Int
  BY <1>1, ShapeFacts DEF TreeSound, IsBounds
<1> HIDE DEF nx
<1>5. lo[p] < lo[nx] /\ (lo[p] < lo[q] => lo[nx] <= lo[q]) /\ lo[q] < lo[nx] /\ (lo[q] < lo[p] => lo[nx] <= lo[p])
  BY <1>1, <1>2, <1>3 DEF NextSound
<1>6. lo[p] = lo[q]
  BY <1>4, <1>5
<1> QED BY <1>1, <1>2, <1>6 DEF TreeSound, Apart

LEMMA SiblingLinked ==
  ASSUME ShapeOK, NEW lo, NEW lev, Bounds(lo, lev), Linked, NEW w \in Workers, task[w].pc = "sibling",
         NEW tk, task' = [task EXCEPT ![w] = tk], tk.pc = "ancestors",
         NEW sib, sib = task[w].sib, NEW pg, IsLeaf(pg), IsPut(pages', pages, sib, pg), sib \in Leaves(pages),
         pg.next = pages[sib].next, pg.prev = task[w].child
  PROVE  Linked'
<1>0. \A v \in Workers : task'[v] = IF v = w THEN tk ELSE task[v]
  BY TaskFacts
<1>1. Len(pages') = Len(pages) /\ \A i \in 1..Len(pages) : pages'[i] = IF i = sib THEN pg ELSE pages[i]
  BY DEF IsPut
<1>2. Leaves(pages') = Leaves(pages)
  BY <1>1, KindLeaf DEF Leaves
<1>3. \A p \in Leaves(pages) : p \in 1..Len(pages) /\ pages'[p].next = pages[p].next /\ (p # sib => pages'[p] = pages[p])
  BY <1>1, ShapeFacts
<1>4. ASSUME NEW v \in Workers, task'[v].pc = "sibling" PROVE pages'[task'[v].child].next = task'[v].sib
  <2>1. task'[v] = task[v] /\ task[v].pc = "sibling"
    BY <1>0, <1>4
  <2>2. task[v].child \in Leaves(pages)
    BY <2>1, SiblingChild
  <2> QED BY <1>3, <2>1, <2>2 DEF Linked
<1>5. ASSUME NEW p \in Leaves(pages), pages[p].next # 0
      PROVE  \/ pages'[pages[p].next].prev = p
             \/ \E v \in Workers : task'[v].pc = "sibling" /\ task'[v].sib = pages[p].next
  <2>1. pages[p].next \in Leaves(pages)
    BY <1>5, ShapeFacts
  <2>2. CASE pages[p].next = sib
    <3>1. task[w].child \in Leaves(pages) /\ pages[task[w].child].next = sib
      BY SiblingChild DEF Linked
    <3>2. p = task[w].child
      BY <1>5, <2>2, <3>1, NextUnique DEF Bounds
    <3>3. pages'[sib] = pg
      BY <1>1, ShapeFacts
    <3> QED BY <2>2, <3>2, <3>3
  <2>3. CASE pages[p].next # sib
    <3>1. CASE pages[pages[p].next].prev = p
      BY <1>3, <2>1, <2>3, <3>1
    <3>2. CASE \E v \in Workers : task[v].pc = "sibling" /\ task[v].sib = pages[p].next
      <4>1. PICK v \in Workers : task[v].pc = "sibling" /\ task[v].sib = pages[p].next
        BY <3>2
      <4>2. v # w /\ task'[v] = task[v]
        BY <1>0, <2>3, <4>1
      <4> QED BY <4>1, <4>2
    <3> QED BY <1>5, <3>1, <3>2 DEF Linked
  <2> QED BY <2>2, <2>3
<1>6. \A p \in Leaves(pages') :
        pages'[p].next # 0 =>
          \/ pages'[pages'[p].next].prev = p
          \/ \E v \in Workers : task'[v].pc = "sibling" /\ task'[v].sib = pages'[p].next
  BY <1>2, <1>3, <1>5
<1> QED BY <1>4, <1>6 DEF Linked

LEMMA SplitSiblingSound ==
  ASSUME ShapeOK, NEW lo, NEW lev, Bounds(lo, lev), NEW w \in Workers, SplitSibling(w)
  PROVE  Bounds(lo, lev)'
<1> DEFINE sib == task[w].sib
           pg == set_prev_page(pages[sib], task[w].child)
           tk == [task[w] EXCEPT !.pc = "ancestors"]
<1>1. /\ sib \in Leaves(pages) /\ sib \in 1..Len(pages) /\ IsLeaf(pages[sib])
      /\ IsPut(pages', pages, sib, pg) /\ Grows(pages, pages')
      /\ IsLeaf(pg) /\ pg.next = pages[sib].next /\ pg.prev = task[w].child /\ pg.entries = pages[sib].entries
      /\ task' = [task EXCEPT ![w] = tk]
  BY SplitSiblingPages
<1>2. task[w].pc = "sibling" /\ UNCHANGED <<root, index, torn>>
  BY DEF SplitSibling, histVars
<1>3. DOMAIN task[w] = DOMAIN NoTask /\ DOMAIN task = Workers /\ TaskOK(task[w], pages)
  BY TaskFacts
<1>4. tk.pc = "ancestors" /\ tk.locked = task[w].locked /\ tk.child = task[w].child /\ tk.sep = task[w].sep
  BY <1>3 DEF NoTask
<1>5. sib = task[w].sib
  OBVIOUS
<1> HIDE DEF tk, pg, sib
<1>6. Len(pages') = Len(pages) /\ \A i \in 1..Len(pages) : pages'[i] = IF i = sib THEN pg ELSE pages[i]
  BY <1>1 DEF IsPut
<1>7. task[w].locked # <<>>
  BY <1>2, SiblingChild
<1>8. Kept(lo, lev, Len(pages), lo, lev, Len(pages'), 0, 0)
  BY <1>6, SameKept
<1>9. \A v \in Workers : \A p \in ToSet(task[v].locked) : p # 0 /\ pages'[p] = pages[p] /\ p \in 1..Len(pages)
  <2> SUFFICES ASSUME NEW v \in Workers, NEW p \in ToSet(task[v].locked) PROVE p # 0 /\ pages'[p] = pages[p] /\ p \in 1..Len(pages)
    OBVIOUS
  <2>1. p \in Inners(pages) /\ p \in 1..Len(pages)
    BY LockedHeld
  <2>2. p # sib
    BY <1>1, <2>1, ShapeFacts
  <2> QED BY <1>6, <2>1, <2>2
<1>10. TaskSound(lo, lev, root', pages', task[w])
  <2> DEFINE t == task[w]
             rt2 == root'
             pgs2 == pages'
  <2>1. /\ TaskOK(t, pages) /\ TaskSound(lo, lev, root, pages, t) /\ Kept(lo, lev, Len(pages), lo, lev, Len(pgs2), 0, 0)
        /\ (\A p \in ToSet(t.locked) : p # 0 /\ pgs2[p] = pages[p]) /\ rt2 = root
        /\ root \in 0..Len(pages) /\ (root = 0 => Len(pages) = 0)
    BY <1>2, <1>3, <1>8, <1>9 DEF Bounds, ShapeOK, TreeOK
  <2> HIDE DEF t, rt2, pgs2
  <2>2. TaskSound(lo, lev, rt2, pgs2, t)
    BY <2>1, TaskKept
  <2> QED BY <2>2 DEF t, rt2, pgs2
<1>11. TaskSound(lo, lev, root', pages', tk)
  <2>1. SplitSound(lo, lev, Len(pages'), root', task[w]) /\ LockSound(root', pages', task[w])
    BY <1>10 DEF TaskSound
  <2>2. SplitSound(lo, lev, Len(pages'), root', tk)
    BY <1>2, <1>4, <1>7, <2>1 DEF SplitSound, Splitting
  <2>3. LockSound(root', pages', tk)
    BY <1>4, <2>1 DEF LockSound
  <2>4. DownSound(lo, lev, Len(pages'), pages', tk)
    BY <1>4 DEF DownSound
  <2> QED BY <2>2, <2>3, <2>4 DEF TaskSound
<1>12. \A v \in Workers : TaskSound(lo, lev, root', pages', task'[v])
  <2>1. Untouched(w, 0) /\ RootKept(w)
    BY <1>2, <1>9 DEF Untouched, RootKept
  <2> QED BY <1>1, <1>8, <1>11, <2>1, OthersKept
<1>13. RootAlone'
  <2>1. ~AtTop(tk) /\ ToSet(tk.locked) \subseteq ToSet(task[w].locked)
    BY <1>4, <1>7 DEF AtTop
  <2> QED BY <1>1, <1>2, <2>1, AloneKept DEF Bounds
<1>b. TreeSound(lo, lev, root, pages) /\ Stored
  BY DEF Bounds
<1>14. TreeSound(lo, lev, root', pages')
  <2>1. \A e \in ToSet(pg.entries) : Within(lo, lev, Len(pages), sib, e.key)
    BY <1>b, <1>1, LeafKeys
  <2> QED BY <1>b, <1>1, <1>2, <2>1, LeafPutTree
<1>15. Stored'
  <2>1. ASSUME NEW e PROVE e \in index' <=> \/ e \in ToSet(pg.entries)
                                            \/ \E q \in Leaves(pages) : q # sib /\ e \in ToSet(pages[q].entries)
    <3>1. e \in index <=> \E q \in Leaves(pages) : e \in ToSet(pages[q].entries)
      BY <1>b DEF Stored
    <3> QED BY <1>1, <1>2, <3>1
  <2> QED BY <1>b, <1>1, <2>1, StoredPut
<1>16. ASSUME ~torn' PROVE Complete' /\ Linked'
  <2>1. Complete /\ Linked
    BY <1>2, <1>16 DEF Bounds
  <2>2. Linked'
    BY <1>1, <1>2, <1>4, <1>5, <2>1, SiblingLinked
  <2>3. Inners(pages') = Inners(pages) /\ \A p \in Inners(pages) : pages'[p] = pages[p]
    <3>1. pg.kind = "leaf" /\ pages[sib].kind = "leaf"
      BY <1>1, KindLeaf
    <3> QED BY <1>6, <3>1 DEF Inners
  <2>4. Complete'
    <3>1. Splitting(tk) /\ tk.child = task[w].child
      BY <1>4 DEF Splitting
    <3>2. \A q \in 1..Len(pages') : q \in 1..Len(pages) \/ q = root' \/ (Splitting(tk) /\ tk.child = q)
      BY <1>6
    <3>3. \A p \in Inners(pages) : \A q \in Children(pages[p]) : \E r \in Inners(pages') : q \in Children(pages'[r])
      BY <2>3
    <3> QED BY <1>1, <1>2, <2>1, <3>1, <3>2, <3>3, CompleteStep
  <2> QED BY <2>2, <2>4
<1> QED BY <1>12, <1>13, <1>14, <1>15, <1>16 DEF Bounds

LEMMA SeparatorAdded ==
  ASSUME NEW pg, IsInner(pg), NEW sep \in Nat, NEW child, NEW new, new = InnerEntry(sep, child),
         NEW ins, ins = insert_separator(pg, sep, child)
  PROVE  Adds(ins, pg, new) /\ IsInner(ins.page) /\ ins.page.leftmost = pg.leftmost
<1>0. IsInner(ins.page) /\ ins.page = InnerPage(ins.page.entries, pg.leftmost)
  BY InnerAdded
<1>a. ins.page.leftmost = pg.leftmost
  <2> DEFINE p == ins.page
             es == ins.page.entries
             c == pg.leftmost
  <2>1. p = InnerPage(es, c)
    BY <1>0
  <2> HIDE DEF p, es, c
  <2>2. p.leftmost = c
    BY <2>1, InnerParts
  <2> QED BY <2>2 DEF p, c
<1> SUFFICES \/ ins.err = "" /\ ToSet(ins.page.entries) = ToSet(pg.entries) \cup {new}
             \/ ins.err # "" /\ ins.page = pg
  BY <1>0, <1>a DEF Adds
<1>1. CASE Len(pg.entries) < InnerMax /\ ~find_separator_slot(pg, sep).found
  <2>1. insert_separator(pg, sep, child).err = ""
    BY <1>1, InnerAdded
  <2>2. ToSet(insert_separator(pg, sep, child).page.entries) = ToSet(pg.entries) \cup {new}
    <3> DEFINE es == pg.entries
    <3>1. insert_separator(pg, sep, child).page.entries = Merged(es, new)
      BY <1>1, InnerAdded
    <3>2. IsEntries(es, InnerMax) /\ InnerMax \in Nat /\ new.key \in Nat /\ ~Search(es, new.key).found
      BY <1>1, EntryParts, BTreePageAssumption DEF IsInner, find_separator_slot
    <3> HIDE DEF es
    <3>3. ToSet(Merged(es, new)) = ToSet(es) \cup {new}
      BY <3>2, MergedEntries
    <3> QED BY <3>1, <3>3 DEF es
  <2> QED BY <2>1, <2>2
<1>2. CASE ~(Len(pg.entries) < InnerMax /\ ~find_separator_slot(pg, sep).found)
  <2>1. insert_separator(pg, sep, child).err # ""
    BY <1>2, InnerAdded
  <2>2. insert_separator(pg, sep, child).page = pg
    BY <1>2, InnerAdded
  <2> QED BY <2>1, <2>2
<1> QED BY <1>1, <1>2

(* A split on its way up, and the page its separator goes to. *)
LEMMA ParentIn ==
  ASSUME ShapeOK, NEW lo, NEW lev, Bounds(lo, lev), NEW w \in Workers, task[w].pc = "ancestors", task[w].locked # <<>>,
         NEW parent, parent = Last(task[w].locked)
  PROVE  /\ parent \in Inners(pages) /\ parent \in 1..Len(pages) /\ IsInner(pages[parent]) /\ latch[parent] = w
         /\ parent \in ToSet(task[w].locked)
         /\ InnerSound(lo, lev, Len(pages), parent, pages[parent])
         /\ task[w].sep \in Nat /\ task[w].child \in 1..Len(pages)
         /\ lo[task[w].child] = task[w].sep /\ lev[task[w].child] + 1 = lev[parent]
         /\ Within(lo, lev, Len(pages), parent, task[w].sep) /\ lo[parent] < task[w].sep
<1>1. Splitting(task[w]) /\ ~AtTop(task[w])
  BY DEF Splitting, AtTop
<1>2. /\ parent \in Inners(pages) /\ parent \in 1..Len(pages) /\ latch[parent] = w
      /\ task[w].sep \in Nat /\ task[w].child \in 1..Len(pages)
      /\ lo[task[w].child] = task[w].sep /\ lev[task[w].child] + 1 = lev[parent]
      /\ Within(lo, lev, Len(pages), parent, task[w].sep) /\ lo[parent] < task[w].sep
  BY <1>1, PendingPage
<1>3. IsInner(pages[parent])
  BY <1>2, ShapeFacts
<1>4. InnerSound(lo, lev, Len(pages), parent, pages[parent])
  BY <1>2, GroundLevel DEF Bounds
<1>5. parent \in ToSet(task[w].locked)
  BY TaskFacts, SeqFront DEF PlaceOK
<1> QED BY <1>2, <1>3, <1>4, <1>5

(* Other tasks have latched other pages. *)
LEMMA OthersAway ==
  ASSUME ShapeOK, NEW w \in Workers, NEW x, latch[x] = w, NEW v \in Workers, v # w, NEW p \in ToSet(task[v].locked)
  PROVE  p # x /\ p \in 1..Len(pages) /\ p # 0
<1>1. latch[p] = v /\ p \in 1..Len(pages)
  BY LockedHeld
<1> QED BY <1>1

LEMMA ParentInsertSound ==
  ASSUME ShapeOK, NEW lo, NEW lev, Bounds(lo, lev), NEW w \in Workers, ParentInsert(w)
  PROVE  Bounds(lo, lev)'
<1> DEFINE parent == Last(task[w].locked)
           ins == insert_separator(pages[parent], task[w].sep, task[w].child)
           res == IF ins.err = "" THEN "ok" ELSE "PageCorruption"
           tk == Finished(task[w].call, res, <<>>)
           new == InnerEntry(task[w].sep, task[w].child)
<1>0. /\ task[w].pc = "ancestors" /\ task[w].locked # <<>> /\ pages' = [pages EXCEPT ![parent] = ins.page]
      /\ UNCHANGED <<root, index>>
  BY DEF ParentInsert
<1>1. Return(w, res, <<>>)
  BY DEF ParentInsert
<1>2. torn' = (torn \/ ins.err # "")
  BY DEF ParentInsert
<1>3. /\ parent \in Inners(pages) /\ parent \in 1..Len(pages) /\ IsInner(pages[parent]) /\ latch[parent] = w
      /\ InnerSound(lo, lev, Len(pages), parent, pages[parent])
      /\ task[w].sep \in Nat /\ task[w].child \in 1..Len(pages)
      /\ lo[task[w].child] = task[w].sep /\ lev[task[w].child] + 1 = lev[parent]
      /\ Within(lo, lev, Len(pages), parent, task[w].sep) /\ lo[parent] < task[w].sep
  BY <1>0, ParentIn
<1>4. Adds(ins, pages[parent], new) /\ IsInner(ins.page) /\ ins.page.leftmost = pages[parent].leftmost
  <2> DEFINE pg == pages[parent]
             sep == task[w].sep
             child == task[w].child
  <2>1. IsInner(pg) /\ sep \in Nat /\ new = InnerEntry(sep, child) /\ ins = insert_separator(pg, sep, child)
    BY <1>3
  <2> SUFFICES Adds(ins, pg, new) /\ IsInner(ins.page) /\ ins.page.leftmost = pg.leftmost
    OBVIOUS
  <2> HIDE DEF pg, sep, child, ins, new
  <2> QED BY <2>1, SeparatorAdded
<1>5. new.key = task[w].sep /\ new.child = task[w].child
  BY EntryParts
<1>6. task' = [task EXCEPT ![w] = tk]
  BY <1>1 DEF Return, Finished
<1>7. Quiet(tk)
  BY FinishedQuiet
<1> HIDE DEF parent, ins, res, tk, new
<1>8. CASE ins.err # ""
  <2>1. ins.page = pages[parent]
    BY <1>4, <1>8 DEF Adds
  <2>2. pages' = pages
    <3>1. IsSeq(pages) /\ DOMAIN pages = 1..Len(pages)
      BY ShapeFacts
    <3>2. pages = [i \in 1..Len(pages) |-> pages[i]]
      BY <3>1 DEF IsSeq
    <3> QED BY <1>0, <1>3, <2>1, <3>2
  <2>3. torn'
    BY <1>2, <1>8
  <2> QED BY <1>0, <1>1, <2>2, <2>3, StopSound
<1>9. CASE ins.err = ""
  <2> DEFINE pg == ins.page
  <2>1. ToSet(pg.entries) = ToSet(pages[parent].entries) \cup {new} /\ IsInner(pg) /\ pg.leftmost = pages[parent].leftmost
    BY <1>4, <1>9 DEF Adds
  <2>2. IsPut(pages', pages, parent, pg) /\ Grows(pages, pages')
    <3>1. pg.kind = pages[parent].kind
      BY <1>3, <2>1, KindInner
    <3>2. pages' = [pages EXCEPT ![parent] = pg]
      BY <1>0
    <3> HIDE DEF pg
    <3> QED BY <1>3, <3>1, <3>2, InPlace
  <2> HIDE DEF pg
  <2>3. Len(pages') = Len(pages) /\ \A i \in 1..Len(pages) : pages'[i] = IF i = parent THEN pg ELSE pages[i]
    BY <2>2 DEF IsPut
  <2>4. pg.kind = "inner" /\ pages[parent].kind = "inner"
    BY <1>3, <2>1, KindInner
  <2>5. InnerSound(lo, lev, Len(pages), parent, pg)
    BY <1>3, <1>5, <2>1 DEF InnerSound
  <2>6. TreeSound(lo, lev, root', pages')
    <3>1. \A i \in 1..Len(pages') : PageSound(lo, lev, Len(pages'), i, pages'[i])
      BY <2>3, <2>4, <2>5 DEF Bounds, TreeSound, PageSound
    <3> QED BY <1>0, <2>3, <3>1 DEF Bounds, TreeSound
  <2>7. TaskSound(lo, lev, root', pages', tk) /\ ~AtTop(tk) /\ ToSet(tk.locked) = {} /\ tk.pc # "sibling"
    BY <1>7, QuietSound DEF Quiet, Splitting
  <2>8. \A v \in Workers : TaskSound(lo, lev, root', pages', task'[v])
    <3>1. Untouched(w, 0)
      BY <1>3, <2>3, OthersAway DEF Untouched
    <3>2. RootKept(w) /\ Kept(lo, lev, Len(pages), lo, lev, Len(pages'), 0, 0)
      BY <1>0, <2>3, SameKept DEF RootKept
    <3> QED BY <1>6, <2>7, <3>1, <3>2, OthersKept
  <2>9. RootAlone'
    BY <1>0, <1>6, <2>7, AloneKept DEF Bounds
  <2>10. Leaves(pages') = Leaves(pages) /\ (\A p \in Leaves(pages) : pages'[p] = pages[p]) /\ Inners(pages') = Inners(pages)
    BY <2>3, <2>4 DEF Leaves, Inners
  <2>11. Stored'
    BY <1>0, <2>10 DEF Bounds, Stored
  <2>12. ASSUME ~torn' PROVE Complete' /\ Linked'
    <3>1. Complete /\ Linked
      BY <1>2, <2>12 DEF Bounds
    <3>2. Linked'
      <4>1. task[w].pc # "sibling"
        BY <1>0
      <4> QED BY <1>6, <2>7, <2>10, <3>1, <4>1, LinkedSame
    <3>3. Children(pages[parent]) \subseteq Children(pg) /\ task[w].child \in Children(pg)
      <4>1. IsEntries(pg.entries, InnerMax) /\ IsEntries(pages[parent].entries, InnerMax)
        BY <1>3, <2>1 DEF IsInner
      <4>2. \A c : c \in Children(pg) <=> c = pg.leftmost \/ \E e \in ToSet(pg.entries) : c = e.child
        BY <4>1, ChildrenSet
      <4>3. \A c : c \in Children(pages[parent]) <=> c = pages[parent].leftmost \/ \E e \in ToSet(pages[parent].entries) : c = e.child
        BY <4>1, ChildrenSet
      <4> QED BY <1>5, <2>1, <4>2, <4>3
    <3>4. \A p \in Inners(pages) : \A q \in Children(pages[p]) : \E r \in Inners(pages') : q \in Children(pages'[r])
      BY <2>3, <2>10, <3>3 DEF Inners
    <3>5. \E r \in Inners(pages') : task[w].child \in Children(pages'[r])
      BY <1>3, <2>3, <2>10, <3>3
    <3>6. \A q \in 1..Len(pages') : q \in 1..Len(pages)
      BY <2>3
    <3>7. Complete'
      BY <1>0, <1>6, <2>2, <3>1, <3>4, <3>5, <3>6, CompleteStep
    <3> QED BY <3>2, <3>7
  <2> QED BY <2>6, <2>8, <2>9, <2>11, <2>12 DEF Bounds
<1> QED BY <1>8, <1>9

(* The new root has the old one and its right half. *)
LEMMA TopFilled ==
  ASSUME NEW rt, NEW sep \in Nat, NEW child, NEW new, new = InnerEntry(sep, child),
         NEW top, top = insert_separator(init_inner(rt), sep, child).page
  PROVE  IsInner(top) /\ top.leftmost = rt /\ \A e : e \in ToSet(top.entries) <=> e = new
<1> DEFINE pg == init_inner(rt)
           ins == insert_separator(pg, sep, child)
           none == <<>>
           es == pg.entries
<1>1. IsInner(pg) /\ pg = InnerPage(none, rt)
  BY InitInner
<1>2. es = none /\ pg.leftmost = rt
  BY <1>1, InnerParts
<1>3. IsEntries(none, InnerMax) /\ Len(none) = 0 /\ ToSet(none) = {} /\ InnerMax \in Nat /\ InnerMax >= 2
  BY EmptyEntries, EmptyIsSeq, BTreePageAssumption
<1>4. new.key = sep
  BY EntryParts
<1> HIDE DEF none
<1>5. Len(es) < InnerMax /\ ~Search(es, sep).found
  <2>1. IsEntries(es, InnerMax) /\ Len(es) = 0 /\ InnerMax >= 2 /\ InnerMax \in Nat
    BY <1>2, <1>3
  <2> HIDE DEF es
  <2>2. Search(es, sep).found => Search(es, sep).pos + 1 \in 1..Len(es)
    BY <2>1, SlotFound
  <2> QED BY <2>1, <2>2
<1>6. IsEntries(es, InnerMax) /\ new.key \in Nat /\ ~Search(es, new.key).found
  BY <1>2, <1>3, <1>4, <1>5
<1>7. ToSet(Merged(es, new)) = ToSet(es) \cup {new}
  <2> HIDE DEF es
  <2> QED BY <1>3, <1>6, MergedEntries
<1>8. ~find_separator_slot(pg, sep).found /\ Len(pg.entries) < InnerMax
  BY <1>5 DEF find_separator_slot
<1> HIDE DEF pg
<1>9. insert_separator(pg, sep, child).page.entries = Merged(pg.entries, InnerEntry(sep, child))
  BY <1>1, <1>8, InnerAdded
<1>10. IsInner(ins.page) /\ ins.page.leftmost = pg.leftmost
  BY <1>1, SeparatorAdded
<1>11. top = ins.page
  BY DEF pg
<1>12. ToSet(top.entries) = ToSet(none) \cup {new}
  BY <1>2, <1>7, <1>9, <1>11
<1> HIDE DEF ins
<1>13. \A e : e \in ToSet(top.entries) <=> e = new
  BY <1>3, <1>12
<1> QED BY <1>2, <1>10, <1>11, <1>13

LEMMA NewRootTree ==
  ASSUME ShapeOK, NEW lo, NEW lev, TreeSound(lo, lev, root, pages), root \in 1..Len(pages),
         NEW sep \in Nat, NEW child \in 1..Len(pages), lo[child] = sep, lev[child] = lev[root],
         NEW top, IsInner(top), top.leftmost = root, NEW new, new = InnerEntry(sep, child),
         \A e : e \in ToSet(top.entries) <=> e = new,
         NEW m, m = Len(pages) + 1, m \in PageIds, NEW pgs, IsAdd(pgs, pages, top),
         NEW lo2, lo2 = Set(lo, m, -1), NEW lev2, lev2 = Set(lev, m, lev[root] + 1)
  PROVE  Kept(lo, lev, Len(pages), lo2, lev2, m, 0, 0) /\ TreeSound(lo2, lev2, m, pgs)
<1> DEFINE n == Len(pages)
           l == lev[root] + 1
<1>1. /\ n \in Nat /\ m = n + 1 /\ m <= MaxPages /\ IsBounds(lo, lev) /\ Apart(lo, lev, n) /\ TopSound(lo, lev, n, root)
      /\ (\A q \in 1..n : Fits(pages, pages[q])) /\ 1..n \subseteq PageIds /\ root # 0
  BY ShapeFacts, IndexAssumption DEF TreeSound, PageIds
<1>2. lo[root] = -1 /\ lev[root] \in Nat /\ (\A p \in 1..n : lev[p] \in Nat /\ lev[p] <= lev[root])
  BY <1>1 DEF TopSound, IsBounds
<1>3. l \in Nat /\ (\A p \in 1..n : lev[p] < l) /\ lev2 = Set(lev, m, l) /\ l # 0
  BY <1>2
<1> HIDE DEF n, l
<1>4. /\ IsBounds(lo2, lev2) /\ lo2[m] = -1 /\ lev2[m] = l
      /\ Kept(lo, lev, n, lo2, lev2, m, 0, 0) /\ Apart(lo2, lev2, m) /\ TopSound(lo2, lev2, m, m)
      /\ \A k \in Int : k >= -1 => Within(lo2, lev2, m, m, k)
  BY <1>1, <1>3, TopKept
<1>5. lo2[root] = -1 /\ lev2[root] = lev[root] /\ lo2[child] = sep /\ lev2[child] = lev[root]
  BY <1>2, <1>4 DEF Kept, Same, n
<1>6. new.key = sep /\ new.child = child
  BY EntryParts
<1>7. InnerSound(lo2, lev2, m, m, top)
  <2>1. lev2[m] > 0 /\ lev2[root] + 1 = lev2[m] /\ lev2[child] + 1 = lev2[m]
    BY <1>2, <1>4, <1>5 DEF l
  <2>2. sep \in Int /\ sep >= -1 /\ -1 < sep
    OBVIOUS
  <2>3. Within(lo2, lev2, m, m, sep)
    BY <1>4, <2>2
  <2>4. lo2[m] < sep
    BY <1>4, <2>2
  <2> QED BY <1>4, <1>5, <1>6, <2>1, <2>3, <2>4 DEF InnerSound
<1>8. top.kind = "inner"
  BY KindInner
<1>9. Len(pgs) = m /\ pgs[m] = top /\ \A i \in 1..n : pgs[i] = pages[i]
  BY DEF IsAdd, n
<1>10. PageSound(lo2, lev2, m, m, top)
  BY <1>7, <1>8 DEF PageSound
<1>11. \A p \in 1..Len(pgs) : \/ p \in 1..n /\ p # 0 /\ pgs[p] = pages[p]
                              \/ PageSound(lo2, lev2, Len(pgs), p, pgs[p])
  <2>1. \A p \in 1..m : p = m \/ (p \in 1..n /\ p # 0)
    BY <1>1
  <2> QED BY <1>9, <1>10, <2>1
<1>12. TreeSound(lo2, lev2, m, pgs)
  BY <1>1, <1>4, <1>9, <1>11, TreeKept DEF n
<1> QED BY <1>4, <1>12 DEF n

LEMMA NewRootSound ==
  ASSUME ShapeOK, NEW lo, NEW lev, Bounds(lo, lev), NEW w \in Workers, NewRoot(w)
  PROVE  BoundsGo(lo, lev)
<1> DEFINE top == insert_separator(init_inner(root), task[w].sep, task[w].child).page
           new == InnerEntry(task[w].sep, task[w].child)
           tk == Finished(task[w].call, "ok", <<>>)
           m == NewPage
<1>c. PICK lo2, lev2 : lo2 = Set(lo, m, -1) /\ lev2 = Set(lev, m, lev[root] + 1)
  OBVIOUS
<1>0. /\ task[w].pc = "ancestors" /\ task[w].locked = <<>> /\ root' = m /\ Return(w, "ok", <<>>)
      /\ UNCHANGED <<index, torn>>
  BY DEF NewRoot, histVars
<1>a. task' = [task EXCEPT ![w] = tk] /\ DOMAIN task = Workers
  BY <1>0, TaskFacts DEF Return, Finished
<1>1. /\ IsAdd(pages', pages, top) /\ Grows(pages, pages') /\ root \in 1..Len(pages)
      /\ m = Len(pages) + 1 /\ m \in PageIds
  BY NewRootPages
<1>2. AtTop(task[w]) /\ Splitting(task[w]) /\ task[w].sep \in Nat /\ task[w].child \in 1..Len(pages)
  BY <1>0, TaskFacts DEF AtTop, Splitting, PlaceOK
<1>3. lo[task[w].child] = task[w].sep /\ lev[task[w].child] = lev[root]
  BY <1>0, <1>2 DEF Bounds, TaskSound, SplitSound
<1>4. IsInner(top) /\ top.leftmost = root /\ \A e : e \in ToSet(top.entries) <=> e = new
  <2> DEFINE sep == task[w].sep
             child == task[w].child
  <2>1. sep \in Nat /\ new = InnerEntry(sep, child) /\ top = insert_separator(init_inner(root), sep, child).page
    BY <1>2
  <2> HIDE DEF top, new, sep, child
  <2> QED BY <2>1, TopFilled
<1>5. new.child = task[w].child
  BY EntryParts
<1>b. Quiet(tk)
  BY FinishedQuiet
<1>6. Kept(lo, lev, Len(pages), lo2, lev2, m, 0, 0) /\ TreeSound(lo2, lev2, m, pages')
  <2> DEFINE sep == task[w].sep
             child == task[w].child
             pgs == pages'
  <2>1. /\ new = InnerEntry(sep, child) /\ sep \in Nat /\ child \in 1..Len(pages) /\ lo[child] = sep /\ lev[child] = lev[root]
        /\ IsAdd(pgs, pages, top) /\ lo2 = Set(lo, m, -1) /\ lev2 = Set(lev, m, lev[root] + 1)
        /\ TreeSound(lo, lev, root, pages)
    BY <1>1, <1>2, <1>3, <1>c DEF Bounds
  <2> HIDE DEF top, new, sep, child, m, pgs
  <2>2. Kept(lo, lev, Len(pages), lo2, lev2, m, 0, 0) /\ TreeSound(lo2, lev2, m, pgs)
    BY <1>1, <1>4, <2>1, NewRootTree
  <2> QED BY <2>2 DEF pgs
<1> HIDE DEF top, new, tk, m
<1>7. Len(pages') = m /\ pages'[m] = top /\ \A i \in 1..Len(pages) : pages'[i] = pages[i]
  BY <1>1 DEF IsAdd
<1>8. \A i \in 1..m : i = m \/ i \in 1..Len(pages)
  BY <1>1, ShapeFacts
<1>9. top.kind = "inner" /\ m \notin 1..Len(pages) /\ 1..Len(pages) \subseteq 1..m /\ m \in 1..m
  BY <1>1, <1>4, KindInner, ShapeFacts
<1>10. /\ Leaves(pages') = Leaves(pages) /\ (\A p \in Leaves(pages) : pages'[p] = pages[p])
       /\ Inners(pages') = Inners(pages) \cup {m}
  BY <1>7, <1>8, <1>9 DEF Leaves, Inners
<1>11. TaskSound(lo2, lev2, root', pages', tk) /\ ~AtTop(tk) /\ ToSet(tk.locked) = {} /\ tk.pc # "sibling"
  BY <1>b, QuietSound DEF Quiet, Splitting
<1>12. \A v \in Workers \ {w} : root \notin ToSet(task[v].locked) /\ ~AtTop(task[v])
  BY <1>2 DEF Bounds, RootAlone
<1>13. \A v \in Workers : TaskSound(lo2, lev2, root', pages', task'[v])
  <2>1. Untouched(w, 0)
    <3> SUFFICES ASSUME NEW v \in Workers \ {w}, NEW p \in ToSet(task[v].locked) PROVE p # 0 /\ pages'[p] = pages[p]
      BY DEF Untouched
    <3>1. p \in 1..Len(pages)
      BY LockedHeld
    <3> QED BY <1>7, <3>1
  <2>2. RootKept(w)
    BY <1>12 DEF RootKept
  <2> QED BY <1>a, <1>6, <1>7, <1>11, <2>1, <2>2, OthersKept
<1>14. RootAlone'
  <2>1. \A v \in Workers : ~AtTop(task'[v])
    BY <1>a, <1>11, <1>12
  <2> QED BY <2>1 DEF RootAlone
<1>15. Stored'
  BY <1>0, <1>10 DEF Bounds, Stored
<1>16. ASSUME ~torn' PROVE Complete' /\ Linked'
  <2>1. Complete /\ Linked
    BY <1>0, <1>16 DEF Bounds
  <2>2. Linked'
    <3>1. task[w].pc # "sibling"
      BY <1>0
    <3> QED BY <1>a, <1>10, <1>11, <2>1, <3>1, LinkedSame
  <2>3. root \in Children(top) /\ task[w].child \in Children(top)
    <3>1. IsEntries(top.entries, InnerMax)
      BY <1>4 DEF IsInner
    <3>2. \A c : c \in Children(top) <=> c = top.leftmost \/ \E e \in ToSet(top.entries) : c = e.child
      BY <3>1, ChildrenSet
    <3> QED BY <1>4, <1>5, <3>2
  <2>4. m \in Inners(pages') /\ pages'[m] = top /\ \A p \in Inners(pages) : p \in Inners(pages') /\ pages'[p] = pages[p]
    BY <1>7, <1>10 DEF Inners
  <2>5. \A p \in Inners(pages) : \A q \in Children(pages[p]) : \E r \in Inners(pages') : q \in Children(pages'[r])
    BY <2>4
  <2>6. \E r \in Inners(pages') : root \in Children(pages'[r])
    BY <2>3, <2>4
  <2>7. \E r \in Inners(pages') : task[w].child \in Children(pages'[r])
    BY <2>3, <2>4
  <2>8. \A q \in 1..Len(pages') : q \in 1..Len(pages) \/ q = root'
    BY <1>0, <1>7, <1>8
  <2>9. Complete'
    BY <1>1, <1>a, <2>1, <2>5, <2>6, <2>7, <2>8, CompleteStep
  <2> QED BY <2>2, <2>9
<1>17. TreeSound(lo2, lev2, root', pages')
  BY <1>0, <1>6
<1>18. Bounds(lo2, lev2)'
  BY <1>13, <1>14, <1>15, <1>16, <1>17 DEF Bounds
<1>19. Same(lo, lev, Len(pages), lo2, lev2)
  BY <1>6 DEF Kept
<1> QED BY <1>18, <1>19 DEF BoundsGo

=============================================================================
