-------------------------- MODULE BTreeExactProofs --------------------------
(***************************************************************************)
(* Proofs about the B-tree index, continued from BTreeProofs: splits keep  *)
(* the ranges of the pages too, so the leaves hold what was put in, where  *)
(* a descent finds it, and the calls answer what is there.                 *)
(***************************************************************************)
EXTENDS BTreeProofs

-----------------------------------------------------------------------------
(* A page is split *)

(* What a leaf and its right half hold after a split. *)
LEMMA LeafHalfSets ==
  ASSUME NEW pg, IsLeaf(pg), leaf_needs_split(pg), NEW e, e.key \in Nat, e = LeafEntry(e.key, e.rid),
         ~find_slot(pg, e.key).found, NEW num, NEW next, NEW cut, cut = LeafHalves(pg, num, next, e)
  PROVE  /\ \A x : x \in ToSet(cut.old.entries) <=> (x \in ToSet(pg.entries) \/ x = e) /\ x.key < cut.sep
         /\ \A x : x \in ToSet(cut.new.entries) <=> (x \in ToSet(pg.entries) \/ x = e) /\ ~(x.key < cut.sep)
         /\ cut.sep \in Nat /\ (\E x : (x \in ToSet(pg.entries) \/ x = e) /\ cut.sep = x.key)
         /\ \E x : x \in ToSet(cut.old.entries)
         /\ cut.old.prev = pg.prev /\ cut.old.next = next /\ cut.new.prev = num /\ cut.new.next = pg.next
<1> DEFINE es == Merged(pg.entries, e)
           mid == Len(es) \div 2
<1>1. /\ cut.sep = es[mid + 1].key
      /\ cut.old = LeafPage(SubSeq(es, 1, mid), pg.prev, next)
      /\ cut.new = LeafPage(SubSeq(es, mid + 1, Len(es)), num, pg.next)
  BY LeafHalved
<1>2. /\ IsEntries(es, LeafMax + 1) /\ Len(es) = LeafMax + 1 /\ mid \in 1..(LeafMax - 1)
      /\ es[mid + 1].key \in Nat /\ \A x : x \in ToSet(es) <=> x \in ToSet(pg.entries) \/ x = e
  <2> DEFINE in == pg.entries
             max == LeafMax
  <2>1. /\ IsEntries(in, max) /\ max \in Nat /\ max >= 2 /\ Len(in) >= max /\ ~Search(in, e.key).found
    BY BTreePageAssumption DEF IsLeaf, leaf_needs_split, find_slot
  <2> HIDE DEF in, max
  <2>2. LET all == Merged(in, e)
            half == Len(all) \div 2
        IN  /\ IsEntries(all, max + 1) /\ Len(all) = max + 1 /\ Len(in) = max
            /\ half \in 1..(max - 1) /\ all[half + 1].key \in Nat
            /\ ToSet(all) = ToSet(in) \cup {e}
    BY <2>1, MergedFull
  <2> QED BY <2>2 DEF in, max
<1> HIDE DEF es, mid
<1>3. LeafMax \in Nat /\ LeafMax >= 2 /\ mid \in Nat
  BY <1>2, BTreePageAssumption
<1>4. /\ Len(es) \in Nat /\ (\A i \in 1..Len(es) : es[i].key \in Nat /\ es[i] \in ToSet(es))
      /\ (\A x : x \in ToSet(es) <=> \E i \in 1..Len(es) : es[i] = x)
      /\ (\A i, j \in 1..Len(es) : i < j => es[i].key < es[j].key)
  BY <1>2, EntriesShape
<1>5. mid \in 1..Len(es) /\ mid + 1 \in 1..Len(es) /\ mid \in 0..Len(es) /\ mid + 1 <= Len(es) + 1
  BY <1>2, <1>3
<1> DEFINE lower == SubSeq(es, 1, mid)
           upper == SubSeq(es, mid + 1, Len(es))
<1>6. ToSet(lower) = {es[i] : i \in 1..mid}
  <2> DEFINE a == 1
             max == LeafMax + 1
  <2>1. IsEntries(es, max) /\ a \in 1..(Len(es) + 1) /\ mid \in 0..Len(es) /\ a <= mid + 1
    BY <1>2, <1>4, <1>5
  <2> HIDE DEF a, max
  <2>2. ToSet(SubSeq(es, a, mid)) = {es[i] : i \in a..mid}
    BY <2>1, SubSet
  <2> QED BY <2>2 DEF a
<1>7. ToSet(upper) = {es[i] : i \in (mid + 1)..Len(es)}
  <2> DEFINE a == mid + 1
             b == Len(es)
             max == LeafMax + 1
  <2>1. IsEntries(es, max) /\ a \in 1..(Len(es) + 1) /\ b \in 0..Len(es) /\ a <= b + 1
    BY <1>2, <1>4, <1>5
  <2> HIDE DEF a, b, max
  <2>2. ToSet(SubSeq(es, a, b)) = {es[i] : i \in a..b}
    BY <2>1, SubSet
  <2> QED BY <2>2 DEF a, b
<1>8. /\ cut.old.entries = lower /\ cut.old.prev = pg.prev /\ cut.old.next = next
      /\ cut.new.entries = upper /\ cut.new.prev = num /\ cut.new.next = pg.next
  <2> DEFINE a == pg.prev
             b == pg.next
             old == cut.old
             new == cut.new
  <2>1. old = LeafPage(lower, a, next) /\ new = LeafPage(upper, num, b)
    BY <1>1
  <2> HIDE DEF a, b, old, new, lower, upper
  <2>2. old.entries = lower /\ old.prev = a /\ old.next = next /\ new.entries = upper /\ new.prev = num /\ new.next = b
    BY <2>1, LeafLinks
  <2> QED BY <2>2 DEF a, b, old, new
<1> HIDE DEF lower, upper
<1> DEFINE s == cut.sep
<1>9. s \in Nat /\ s = es[mid + 1].key /\ es[mid + 1] \in ToSet(es)
  BY <1>1, <1>2, <1>4, <1>5
<1> HIDE DEF s
<1>10. \A i \in 1..Len(es) : (es[i].key < s <=> i <= mid)
  <2> SUFFICES ASSUME NEW i \in 1..Len(es) PROVE es[i].key < s <=> i <= mid
    OBVIOUS
  <2>0. es[i].key \in Nat /\ i \in Nat
    BY <1>4
  <2>1. CASE i <= mid
    <3>1. i < mid + 1
      BY <1>3, <2>0, <2>1
    <3> QED BY <1>4, <1>5, <1>9, <2>1, <3>1
  <2>2. CASE i = mid + 1
    BY <1>3, <1>9, <2>0, <2>2
  <2>3. CASE i > mid + 1
    <3>1. s < es[i].key
      BY <1>4, <1>5, <1>9, <2>3
    <3> QED BY <1>3, <1>9, <2>0, <2>3, <3>1
  <2> QED BY <1>3, <2>0, <2>1, <2>2, <2>3
<1>11. ASSUME NEW x PROVE x \in ToSet(lower) <=> x \in ToSet(es) /\ x.key < s
  <2>1. x \in ToSet(lower) <=> \E i \in 1..mid : x = es[i]
    BY <1>6
  <2>2. \A i \in 1..mid : i \in 1..Len(es) /\ i <= mid
    BY <1>3, <1>5
  <2>3. \A i \in 1..Len(es) : i <= mid => i \in 1..mid
    BY <1>3
  <2> QED BY <1>4, <1>10, <2>1, <2>2, <2>3
<1>12. ASSUME NEW x PROVE x \in ToSet(upper) <=> x \in ToSet(es) /\ ~(x.key < s)
  <2>1. x \in ToSet(upper) <=> \E i \in (mid + 1)..Len(es) : x = es[i]
    BY <1>7
  <2>2. \A i \in (mid + 1)..Len(es) : i \in 1..Len(es) /\ ~(i <= mid)
    BY <1>3, <1>4
  <2>3. \A i \in 1..Len(es) : ~(i <= mid) => i \in (mid + 1)..Len(es)
    BY <1>3, <1>4
  <2> QED BY <1>4, <1>10, <2>1, <2>2, <2>3
<1>13. \E x : x \in ToSet(lower)
  BY <1>3, <1>5, <1>6
<1>14. \E x : (x \in ToSet(pg.entries) \/ x = e) /\ s = x.key
  BY <1>2, <1>9
<1> QED BY <1>2, <1>8, <1>9, <1>11, <1>12, <1>13, <1>14 DEF s

(* A leaf that an insert reaches is not one that is still to be linked. *)
LEMMA ReachedLinked ==
  ASSUME ShapeOK, NEW lo, NEW lev, Bounds(lo, lev), NEW w \in Workers,
         task[w].pc = "descend", task[w].call.op = "insert", ~Astray(w),
         NEW v \in Workers, task[v].pc = "sibling"
  PROVE  task[v].child # task[w].cur
<1> SUFFICES ASSUME task[v].child = task[w].cur PROVE FALSE
  OBVIOUS
<1> DEFINE cur == task[w].cur
           P == Last(task[w].locked)
           Q == Last(task[v].locked)
           n == Len(pages)
<1>1. /\ cur \in 1..n
      /\ task[w].locked = <<>> => cur = root /\ root # 0
      /\ task[w].locked # <<>> => P \in Inners(pages) /\ cur \in Children(pages[P])
  BY CurIn
<1>2. Splitting(task[v]) /\ ~AtTop(task[v])
  BY DEF Splitting, AtTop
<1>3. /\ Q \in 1..n /\ Q \in Inners(pages) /\ latch[Q] = v /\ lev[cur] + 1 = lev[Q] /\ lo[cur] = task[v].sep
      /\ Within(lo, lev, n, Q, lo[cur]) /\ task[v].sep \in Nat
  BY <1>2, PendingPage
<1>4. CASE task[w].locked = <<>>
  <2>1. lo[cur] = -1
    BY <1>1, <1>4 DEF Bounds, TreeSound, TopSound
  <2>2. lo[cur] \in Nat
    BY <1>3
  <2> QED BY <2>1, <2>2
<1>5. CASE task[w].locked # <<>>
  <2>1. P \in ToSet(task[w].locked)
    BY <1>5, TaskFacts, SeqFront DEF PlaceOK
  <2>2. latch[P] = w /\ v # w
    BY <2>1, LockedHeld
  <2>3. /\ n \in Nat /\ n <= MaxPages /\ P \in 1..n /\ P \in Inners(pages) /\ cur \in Children(pages[P])
        /\ (\A q \in 1..n : Fits(pages, pages[q])) /\ TreeSound(lo, lev, root, pages)
    BY <1>1, <1>5, ShapeFacts DEF Bounds
  <2>4. IsBounds(lo, lev) /\ Apart(lo, lev, n)
    BY <2>3 DEF TreeSound
  <2>5. IsInner(pages[P]) /\ InnerSound(lo, lev, n, P, pages[P])
    BY <2>3, GroundLevel, ShapeFacts
  <2> DEFINE pg == pages[P]
             k == lo[cur]
  <2>6. k \in Int
    BY <1>3
  <2>7. lev[cur] + 1 = lev[P] /\ Within(lo, lev, n, P, k)
    <3>1. IsInner(pg) /\ InnerSound(lo, lev, n, P, pg) /\ cur \in Children(pg)
      BY <2>3, <2>5
    <3> HIDE DEF pg, P, n, cur
    <3> QED BY <2>3, <2>4, <3>1, ChildBegins
  <2>8. lev[P] = lev[Q] /\ Within(lo, lev, n, Q, k)
    BY <1>3, <2>7
  <2> HIDE DEF pg, P, Q, n, cur, k
  <2>9. P = Q
    BY <1>3, <2>3, <2>4, <2>6, <2>7, <2>8, WithinUnique
  <2> QED BY <1>3, <2>2, <2>9
<1> QED BY <1>4, <1>5

(* A page is cut: the new bounds, but for the two halves. *)
LEMMA CutKept ==
  ASSUME ShapeOK, NEW lo, NEW lev, TreeSound(lo, lev, root, pages), root # 0, NEW x \in 1..Len(pages), NEW s \in Int,
         NEW m, m = Len(pages) + 1, m \in PageIds, NEW lo2, NEW lev2, IsCut(lo, lev, Len(pages), x, s, lo2, lev2)
  PROVE  /\ Kept(lo, lev, Len(pages), lo2, lev2, m, x, s) /\ lo2[m] = s /\ lev2[m] = lev[x]
         /\ IsBounds(lo2, lev2) /\ Apart(lo2, lev2, m) /\ TopSound(lo2, lev2, m, root)
<1> DEFINE n == Len(pages)
<1>1. /\ n \in Nat /\ m = n + 1 /\ m <= MaxPages /\ IsBounds(lo, lev) /\ Apart(lo, lev, n) /\ TopSound(lo, lev, n, root)
      /\ x \in 1..n /\ root \in 1..n /\ IsCut(lo, lev, n, x, s, lo2, lev2)
  BY ShapeFacts, IndexAssumption DEF TreeSound, PageIds
<1> HIDE DEF n
<1>2. /\ IsBounds(lo2, lev2) /\ Same(lo, lev, n, lo2, lev2) /\ lo2[m] = s /\ lev2[m] = lev[x]
      /\ RangesKept(lo, lev, n, lo2, lev2, m, x, s) /\ Apart(lo2, lev2, m)
  BY <1>1, CutFacts
<1>3. LinksKept(lo, lev, n, lo2, lev2, m, x)
  BY <1>1, CutLinks
<1>4. TopSound(lo2, lev2, m, root)
  <2>1. lo[root] = -1 /\ \A p \in 1..n : lev[p] <= lev[root]
    BY <1>1 DEF TopSound
  <2>2. lo2[root] = -1 /\ (\A p \in 1..n : lev2[p] = lev[p]) /\ lev2[root] = lev[root]
    BY <1>1, <1>2, <2>1 DEF Same
  <2>3. \A p \in 1..m : p = m \/ p \in 1..n
    BY <1>1
  <2>4. \A p \in 1..m : lev2[p] <= lev2[root]
    BY <1>1, <1>2, <2>1, <2>2, <2>3
  <2> QED BY <2>2, <2>4 DEF TopSound
<1> QED BY <1>2, <1>3, <1>4 DEF Kept, n

LEMMA LeafSplitTree ==
  ASSUME ShapeOK, NEW lo, NEW lev, TreeSound(lo, lev, root, pages), root # 0, NEW x \in Leaves(pages), NEW s \in Int,
         NEW m, m = Len(pages) + 1, m \in PageIds, NEW lo2, NEW lev2, IsCut(lo, lev, Len(pages), x, s, lo2, lev2),
         NEW old, IsLeaf(old), old.next = m, NEW new, IsLeaf(new), new.next = pages[x].next,
         \A e \in ToSet(old.entries) : Within(lo, lev, Len(pages), x, e.key) /\ e.key \in Nat /\ e.key < s,
         \A e \in ToSet(new.entries) : Within(lo, lev, Len(pages), x, e.key) /\ e.key \in Nat /\ ~(e.key < s),
         NEW pgs, IsSplit(pgs, pages, x, old, new)
  PROVE  TreeSound(lo2, lev2, root, pgs)
<1> DEFINE n == Len(pages)
           next == pages[x].next
<1>1. /\ n \in Nat /\ m = n + 1 /\ m <= MaxPages /\ IsBounds(lo, lev) /\ Apart(lo, lev, n) /\ x \in 1..n
      /\ next \in 0..n /\ IsCut(lo, lev, n, x, s, lo2, lev2) /\ (\A q \in 1..n : Fits(pages, pages[q]))
  <2>1. next \in Leaves(pages) \cup {0} /\ Len(pages) \in Nat
    BY ShapeFacts
  <2>2. next \in 0..n
    BY <2>1 DEF Leaves
  <2> QED BY <2>2, ShapeFacts, IndexAssumption DEF TreeSound, PageIds, Leaves
<1>2. /\ Kept(lo, lev, n, lo2, lev2, m, x, s) /\ lo2[m] = s /\ lev2[m] = lev[x]
      /\ IsBounds(lo2, lev2) /\ Apart(lo2, lev2, m) /\ TopSound(lo2, lev2, m, root)
  BY <1>1, CutKept
<1>3. lev[x] = 0 /\ NextSound(lo, lev, n, x, next)
  BY <1>1, GroundLevel DEF LeafSound
<1>4. Len(pgs) = m /\ pgs[x] = old /\ pgs[m] = new /\ (\A i \in 1..n : i # x => pgs[i] = pages[i])
  BY <1>1 DEF IsSplit
<1> HIDE DEF n, next
<1>5. NextSound(lo2, lev2, m, x, m) /\ NextSound(lo2, lev2, m, m, next)
  BY <1>1, <1>3, CutLeafLinks
<1>6. lev2[x] = 0
  BY <1>1, <1>2, <1>3 DEF Kept, Same
<1>7. LeafSound(lo2, lev2, m, x, old)
  <2>1. \A e \in ToSet(old.entries) : Within(lo2, lev2, m, x, e.key)
    <3> SUFFICES ASSUME NEW e \in ToSet(old.entries) PROVE Within(lo2, lev2, m, x, e.key)
      OBVIOUS
    <3>1. Within(lo, lev, n, x, e.key) /\ e.key \in Int /\ e.key < s
      BY DEF n
    <3> QED BY <1>1, <1>2, <3>1 DEF Kept, RangesKept
  <2> QED BY <1>5, <1>6, <2>1 DEF LeafSound
<1>8. LeafSound(lo2, lev2, m, m, new)
  <2>1. \A e \in ToSet(new.entries) : Within(lo2, lev2, m, m, e.key)
    <3> SUFFICES ASSUME NEW e \in ToSet(new.entries) PROVE Within(lo2, lev2, m, m, e.key)
      OBVIOUS
    <3> DEFINE k == e.key
    <3>1. Within(lo, lev, n, x, k) /\ k \in Nat /\ ~(k < s)
      BY DEF n
    <3> HIDE DEF k
    <3>2. k \in Int /\ s <= k
      BY <3>1
    <3>3. Within(lo2, lev2, m, m, k)
      BY <1>1, <3>1, <3>2, CutUpper
    <3> QED BY <3>3 DEF k
  <2>2. new.next = next
    BY DEF next
  <2> QED BY <1>2, <1>3, <1>5, <2>1, <2>2 DEF LeafSound
<1>9. PageSound(lo2, lev2, m, x, old) /\ PageSound(lo2, lev2, m, m, new)
  BY <1>7, <1>8, KindLeaf DEF PageSound
<1>10. \A p \in 1..Len(pgs) : \/ p \in 1..n /\ p # x /\ pgs[p] = pages[p]
                              \/ PageSound(lo2, lev2, Len(pgs), p, pgs[p])
  <2>1. \A p \in 1..m : p = m \/ p \in 1..n
    BY <1>1
  <2> QED BY <1>4, <1>9, <2>1
<1> QED BY <1>1, <1>2, <1>4, <1>10, TreeKept DEF n

(* No worker is about to turn the link back to page x. *)
Unreached(x) == \A v \in Workers : task[v].pc = "sibling" => task[v].child # x

(* The links after a leaf was split. *)
LEMMA SplitLinked ==
  ASSUME ShapeOK, NEW lo, NEW lev, Bounds(lo, lev), Linked, NEW w \in Workers, task[w].pc # "sibling",
         NEW tk, task' = [task EXCEPT ![w] = tk], NEW x \in Leaves(pages), NEW m, m = Len(pages) + 1,
         tk.child = m, tk.sib = pages[x].next, tk.sib = 0 \/ tk.pc = "sibling",
         NEW old, IsLeaf(old), old.next = m, old.prev = pages[x].prev,
         NEW new, IsLeaf(new), new.next = pages[x].next, new.prev = x,
         IsSplit(pages', pages, x, old, new),
         Unreached(x)
  PROVE  Linked'
<1>0. \A v \in Workers : task'[v] = IF v = w THEN tk ELSE task[v]
  BY TaskFacts
<1>1. Len(pages') = m /\ pages'[x] = old /\ pages'[m] = new /\ (\A i \in 1..Len(pages) : i # x => pages'[i] = pages[i])
  BY DEF IsSplit, Leaves
<1>2. /\ Leaves(pages') = Leaves(pages) \cup {m} /\ (\A p \in Leaves(pages) : p \in 1..Len(pages) /\ p # m)
      /\ \A i \in 1..m : i = m \/ i \in 1..Len(pages)
  <2>1. old.kind = "leaf" /\ new.kind = "leaf" /\ pages[x].kind = "leaf" /\ Len(pages) \in Nat
    BY KindLeaf, ShapeFacts DEF Leaves
  <2>2. (\A i \in 1..m : i = m \/ i \in 1..Len(pages)) /\ m \notin 1..Len(pages) /\ m \in 1..m /\ 1..Len(pages) \subseteq 1..m
    BY <2>1
  <2> QED BY <1>1, <2>1, <2>2 DEF Leaves
<1>3. \A p \in Leaves(pages) : pages'[p].prev = pages[p].prev /\ (p # x => pages'[p].next = pages[p].next)
  BY <1>1, <1>2
<1>4. ASSUME NEW v \in Workers, task'[v].pc = "sibling" PROVE pages'[task'[v].child].next = task'[v].sib
  <2>1. CASE v = w
    BY <1>0, <1>1, <2>1
  <2>2. CASE v # w
    <3>1. task'[v] = task[v] /\ task[v].pc = "sibling"
      BY <1>0, <1>4, <2>2
    <3>2. task[v].child \in Leaves(pages) /\ task[v].child # x
      BY <3>1, SiblingChild DEF Unreached
    <3> QED BY <1>3, <3>1, <3>2 DEF Linked
  <2> QED BY <2>1, <2>2
<1>5. ASSUME NEW p \in Leaves(pages'), pages'[p].next # 0
      PROVE  \/ pages'[pages'[p].next].prev = p
             \/ \E v \in Workers : task'[v].pc = "sibling" /\ task'[v].sib = pages'[p].next
  <2>1. CASE p = m
    <3>1. task'[w] = tk /\ tk.sib # 0 /\ pages'[p].next = tk.sib
      BY <1>0, <1>1, <1>5, <2>1
    <3> QED BY <3>1
  <2>2. CASE p = x
    BY <1>1, <2>2
  <2>3. CASE p # m /\ p # x
    <3>1. p \in Leaves(pages) /\ pages'[p].next = pages[p].next /\ pages[p].next # 0
      BY <1>2, <1>3, <1>5, <2>3
    <3>2. pages[p].next \in Leaves(pages)
      BY <3>1, ShapeFacts
    <3>3. CASE pages[pages[p].next].prev = p
      BY <1>3, <3>1, <3>2, <3>3
    <3>4. CASE \E v \in Workers : task[v].pc = "sibling" /\ task[v].sib = pages[p].next
      <4>1. PICK v \in Workers : task[v].pc = "sibling" /\ task[v].sib = pages[p].next
        BY <3>4
      <4>2. v # w /\ task'[v] = task[v]
        BY <1>0, <4>1
      <4> QED BY <3>1, <4>1, <4>2
    <3> QED BY <3>1, <3>3, <3>4 DEF Linked
  <2> QED BY <2>1, <2>2, <2>3
<1> QED BY <1>4, <1>5 DEF Linked

(* The split of a leaf is known to the task that does it. *)
LEMMA SplitTaskSound ==
  ASSUME NEW lo2, NEW lev2, NEW m, NEW rt, NEW pgs, Len(pgs) = m, NEW t, NEW tk,
         LockSound(rt, pgs, t), tk.locked = t.locked, tk.child = m, lo2[m] = tk.sep,
         tk.pc \in {"sibling", "ancestors"},
         t.locked = <<>> => tk.pc = "ancestors" /\ lev2[m] = lev2[rt],
         t.locked # <<>> => /\ lev2[m] + 1 = lev2[Last(t.locked)]
                            /\ Within(lo2, lev2, m, Last(t.locked), tk.sep) /\ lo2[Last(t.locked)] < tk.sep,
         tk.pc = "sibling" => lev2[m] = 0
  PROVE  TaskSound(lo2, lev2, rt, pgs, tk)
<1>1. SplitSound(lo2, lev2, Len(pgs), rt, tk)
  BY DEF SplitSound
<1>2. LockSound(rt, pgs, tk)
  BY DEF LockSound
<1>3. DownSound(lo2, lev2, Len(pgs), pgs, tk)
  BY DEF DownSound
<1> QED BY <1>1, <1>2, <1>3 DEF TaskSound

(* What is stored after a leaf was split. *)
LEMMA StoredSplit ==
  ASSUME ShapeOK, Stored, NEW x \in Leaves(pages), NEW m, m = Len(pages) + 1, NEW old, IsLeaf(old), NEW new, IsLeaf(new),
         IsSplit(pages', pages, x, old, new), NEW entry,
         \A e : e \in ToSet(old.entries) \/ e \in ToSet(new.entries) <=> e \in ToSet(pages[x].entries) \/ e = entry,
         index' = index \cup {entry}
  PROVE  Stored'
<1>1. Len(pages') = m /\ pages'[x] = old /\ pages'[m] = new /\ (\A i \in 1..Len(pages) : i # x => pages'[i] = pages[i])
  BY DEF IsSplit, Leaves
<1>2. Leaves(pages') = Leaves(pages) \cup {m} /\ (\A p \in Leaves(pages) : p \in 1..Len(pages) /\ p # m)
  <2>1. old.kind = "leaf" /\ new.kind = "leaf" /\ pages[x].kind = "leaf" /\ Len(pages) \in Nat
    BY KindLeaf, ShapeFacts DEF Leaves
  <2>2. (\A i \in 1..m : i = m \/ i \in 1..Len(pages)) /\ m \notin 1..Len(pages) /\ m \in 1..m /\ 1..Len(pages) \subseteq 1..m
    BY <2>1
  <2> QED BY <1>1, <2>1, <2>2 DEF Leaves
<1>3. ASSUME NEW e PROVE e \in index' <=> \E p \in Leaves(pages') : e \in ToSet(pages'[p].entries)
  <2>1. e \in index <=> \E p \in Leaves(pages) : e \in ToSet(pages[p].entries)
    BY DEF Stored
  <2>2. (\E p \in Leaves(pages') : e \in ToSet(pages'[p].entries))
          <=> \/ e \in ToSet(old.entries) \/ e \in ToSet(new.entries)
              \/ \E p \in Leaves(pages) : p # x /\ e \in ToSet(pages[p].entries)
    BY <1>1, <1>2
  <2> QED BY <2>1, <2>2
<1> QED BY <1>3 DEF Stored

(* A leaf is split by an insert that has reached it. *)
LEMMA SplitAlone ==
  ASSUME ShapeOK, NEW lo, NEW lev, Bounds(lo, lev), NEW w \in Workers,
         task[w].pc = "descend", task[w].call.op = "insert", ~Astray(w), task[w].cur \in Leaves(pages),
         NEW tk, task' = [task EXCEPT ![w] = tk], tk.locked = task[w].locked, root' = root
  PROVE  RootAlone'
<1>0. \A v \in Workers : task'[v] = IF v = w THEN tk ELSE task[v]
  BY TaskFacts
<1>1. task[w].locked = <<>> => task[w].cur = root /\ ~RootMoving
  BY CurIn
<1>2. ASSUME NEW v \in Workers, AtTop(task[v]) PROVE RootMoving
  BY <1>2 DEF AtTop, RootMoving
<1> SUFFICES ASSUME NEW u \in Workers, NEW v \in Workers, u # v, AtTop(task'[v])
             PROVE  root \notin ToSet(task'[u].locked) /\ ~AtTop(task'[u])
  BY DEF RootAlone
<1>3. CASE v = w
  <2>1. u # w /\ task'[u] = task[u] /\ task[w].locked = <<>>
    BY <1>0, <1>3 DEF AtTop
  <2>2. root \in Leaves(pages) /\ ~AtTop(task[u])
    BY <1>1, <1>2, <2>1
  <2>3. root \notin ToSet(task[u].locked)
    BY <2>2, LockedHeld, ShapeFacts
  <2> QED BY <2>1, <2>2, <2>3
<1>4. CASE v # w
  <2>1. AtTop(task[v])
    BY <1>0, <1>4
  <2>2. root \notin ToSet(task[u].locked) /\ ~AtTop(task[u])
    BY <2>1 DEF Bounds, RootAlone
  <2>3. CASE u = w
    <3>1. task[w].locked # <<>>
      BY <1>1, <1>2, <2>1
    <3> QED BY <1>0, <2>2, <2>3, <3>1 DEF AtTop
  <2> QED BY <1>0, <2>2, <2>3
<1> QED BY <1>3, <1>4

LEMMA SplitComplete ==
  ASSUME ShapeOK, Complete, NEW w \in Workers, NEW tk, task' = [task EXCEPT ![w] = tk], ~Splitting(task[w]), Splitting(tk),
         NEW x \in Leaves(pages), NEW m, m = Len(pages) + 1, tk.child = m, NEW old, NEW new,
         IsSplit(pages', pages, x, old, new), Grows(pages, pages'), root' = root
  PROVE  Complete'
<1>1. Len(pages') = m /\ (\A i \in 1..Len(pages) : i # x => pages'[i] = pages[i]) /\ Len(pages) \in Nat
  BY ShapeFacts DEF IsSplit
<1>2. \A q \in 1..Len(pages') : q \in 1..Len(pages) \/ q = root' \/ (Splitting(tk) /\ tk.child = q)
  <2>1. \A i \in 1..m : i = m \/ i \in 1..Len(pages)
    BY <1>1
  <2> QED BY <1>1, <2>1
<1>3. \A p \in Inners(pages) : p \in Inners(pages') /\ pages'[p] = pages[p]
  <2>1. \A p \in Inners(pages) : p # x /\ p \in 1..Len(pages)
    BY ShapeFacts
  <2> QED BY <1>1, <2>1, GrowsSets
<1>4. \A p \in Inners(pages) : \A q \in Children(pages[p]) : \E r \in Inners(pages') : q \in Children(pages'[r])
  BY <1>3
<1> QED BY <1>2, <1>4, CompleteStep

LEMMA LeafSplitSound ==
  ASSUME ShapeOK, NEW lo, NEW lev, Bounds(lo, lev), NEW w \in Workers, LeafSplit(w), ~raced'
  PROVE  BoundsGo(lo, lev)
<1> DEFINE cur == task[w].cur
           entry == LeafEntry(Key(w), task[w].call.rid)
           split == LeafHalves(pages[cur], cur, NewPage, entry)
           P == Last(task[w].locked)
           tk == SplitTask(task[w], cur, pages[cur].next, split.sep, NewPage)
<1>0. /\ task[w].pc = "descend" /\ task[w].call.op = "insert" /\ ~Astray(w) /\ UNCHANGED <<root, torn>>
      /\ pages[cur].kind = "leaf" /\ leaf_needs_split(pages[cur])
  <2>1. /\ task[w].pc = "descend" /\ task[w].call.op = "insert" /\ UNCHANGED <<root, torn>>
        /\ pages[cur].kind = "leaf" /\ leaf_needs_split(pages[cur])
    BY DEF LeafSplit
  <2>2. ~Astray(w)
    BY DEF LeafSplit
  <2> QED BY <2>1, <2>2
<1>a. TreeSound(lo, lev, root, pages) /\ Stored
  BY DEF Bounds
<1>1. CASE find_slot(pages[cur], Key(w)).found
  <2>1. Return(w, "PageCorruption", <<>>) /\ UNCHANGED <<pages, index>>
    BY <1>1 DEF LeafSplit, NoChange
  <2>2. ~Splitting(task[w])
    BY <1>0 DEF Splitting
  <2>3. Bounds(lo, lev)'
    BY <1>0, <2>1, <2>2, StopSound
  <2> QED BY <2>3, SameBounds
<1>2. CASE ~find_slot(pages[cur], Key(w)).found
  <2>1. /\ IsSplit(pages', pages, cur, split.old, split.new) /\ Grows(pages, pages')
        /\ cur \in Leaves(pages) /\ cur \in 1..Len(pages) /\ IsLeaf(pages[cur])
        /\ IsLeaf(split.old) /\ IsLeaf(split.new)
        /\ NewPage = Len(pages) + 1 /\ NewPage \in PageIds
        /\ task' = [task EXCEPT ![w] = tk]
    BY <1>2, LeafSplitForm
  <2>2. index' = index \cup {entry}
    BY <1>2 DEF LeafSplit, Observe
  <2>3. /\ Within(lo, lev, Len(pages), cur, Key(w)) /\ Key(w) \in Nat /\ ~torn
        /\ task[w].locked = <<>> => cur = root /\ root # 0 /\ ~RootMoving
        /\ task[w].locked # <<>> => P \in Inners(pages) /\ cur \in Children(pages[P])
    BY <1>0, CurIn
  <2>4. entry.key = Key(w) /\ entry = LeafEntry(entry.key, entry.rid)
    BY EntryParts
  <2>5. /\ \A x : x \in ToSet(split.old.entries) <=> (x \in ToSet(pages[cur].entries) \/ x = entry) /\ x.key < split.sep
        /\ \A x : x \in ToSet(split.new.entries) <=> (x \in ToSet(pages[cur].entries) \/ x = entry) /\ ~(x.key < split.sep)
        /\ split.sep \in Nat /\ (\E x : (x \in ToSet(pages[cur].entries) \/ x = entry) /\ split.sep = x.key)
        /\ \E x : x \in ToSet(split.old.entries)
        /\ split.old.prev = pages[cur].prev /\ split.old.next = NewPage
        /\ split.new.prev = cur /\ split.new.next = pages[cur].next
    <3> DEFINE pg == pages[cur]
    <3>1. /\ IsLeaf(pg) /\ leaf_needs_split(pg) /\ entry.key \in Nat /\ entry = LeafEntry(entry.key, entry.rid)
          /\ ~find_slot(pg, entry.key).found /\ split = LeafHalves(pg, cur, NewPage, entry)
      BY <1>0, <1>2, <2>1, <2>3, <2>4
    <3> HIDE DEF pg, split, entry
    <3> DEFINE next == NewPage
               num == cur
    <3>2. split = LeafHalves(pg, num, next, entry)
      BY <3>1
    <3> HIDE DEF next, num, cur
    <3>3. /\ \A x : x \in ToSet(split.old.entries) <=> (x \in ToSet(pg.entries) \/ x = entry) /\ x.key < split.sep
          /\ \A x : x \in ToSet(split.new.entries) <=> (x \in ToSet(pg.entries) \/ x = entry) /\ ~(x.key < split.sep)
          /\ split.sep \in Nat /\ (\E x : (x \in ToSet(pg.entries) \/ x = entry) /\ split.sep = x.key)
          /\ \E x : x \in ToSet(split.old.entries)
          /\ split.old.prev = pg.prev /\ split.old.next = next /\ split.new.prev = num /\ split.new.next = pg.next
      BY <3>1, <3>2, LeafHalfSets, SMTT(20)
    <3> QED BY <3>3 DEF pg, next, num
  <2> DEFINE s == split.sep
             m == NewPage
             old == split.old
             new == split.new
  <2>6. DOMAIN task[w] = DOMAIN NoTask /\ DOMAIN task = Workers /\ TaskOK(task[w], pages)
    BY TaskFacts
  <2>7. /\ tk.pc = IF tk.sib = 0 THEN "ancestors" ELSE "sibling"
        /\ tk.sib = pages[cur].next /\ tk.sep = s /\ tk.child = m /\ tk.locked = task[w].locked
    <3> DEFINE t == task[w]
               sib == pages[cur].next
               sep == split.sep
               child == NewPage
    <3>1. DOMAIN t = DOMAIN NoTask /\ tk = SplitTask(t, cur, sib, sep, child)
      BY <2>6
    <3> HIDE DEF t, cur, sib, sep, child, tk
    <3>2. /\ tk.pc = IF sib = 0 THEN "ancestors" ELSE "sibling"
          /\ tk.sib = sib /\ tk.sep = sep /\ tk.child = child /\ tk.locked = t.locked
      BY <3>1, SplitTaskParts
    <3> QED BY <3>2 DEF t, sib, sep, child
  <2>b. s \in Nat /\ s \in Int
    BY <2>5
  <2>c. root # 0
    <3>1. root \in 0..Len(pages) /\ (root = 0 => Len(pages) = 0)
      BY DEF ShapeOK, TreeOK
    <3> QED BY <2>1, <3>1
  <2> HIDE DEF tk, split, entry, cur, P
  <2>8. /\ IsSplit(pages', pages, cur, old, new)
        /\ IsLeaf(old) /\ IsLeaf(new) /\ old.prev = pages[cur].prev /\ old.next = m
        /\ new.prev = cur /\ new.next = pages[cur].next /\ m = Len(pages) + 1 /\ m \in PageIds
        /\ (\E x : (x \in ToSet(pages[cur].entries) \/ x = entry) /\ s = x.key) /\ (\E x : x \in ToSet(old.entries))
    BY <2>1, <2>5
  <2>d. /\ \A x : x \in ToSet(old.entries) <=> (x \in ToSet(pages[cur].entries) \/ x = entry) /\ x.key < s
        /\ \A x : x \in ToSet(new.entries) <=> (x \in ToSet(pages[cur].entries) \/ x = entry) /\ ~(x.key < s)
    BY <2>5
  <2> HIDE DEF s, m, old, new
  <2>9. \A x : x \in ToSet(pages[cur].entries) \/ x = entry => Within(lo, lev, Len(pages), cur, x.key) /\ x.key \in Nat
    <3>1. \A x \in ToSet(pages[cur].entries) : Within(lo, lev, Len(pages), cur, x.key) /\ x.key \in Nat
      BY <1>a, <2>1, LeafKeys
    <3> QED BY <2>3, <2>4, <3>1
  <2>10. Within(lo, lev, Len(pages), cur, s)
    BY <2>8, <2>9
  <2>11. lo[cur] < s
    <3>1. PICK x : x \in ToSet(old.entries)
      BY <2>8
    <3>2. x.key < s /\ Within(lo, lev, Len(pages), cur, x.key) /\ x.key \in Nat
      BY <2>9, <2>d, <3>1
    <3>3. lo[cur] \in Int /\ lo[cur] <= x.key
      BY <1>a, <2>1, <3>2, ShapeFacts DEF Within, TreeSound, IsBounds
    <3> QED BY <2>b, <3>2, <3>3
  <2>12. PICK lo2, lev2 : lo2 = Set(lo, m, s) /\ lev2 = Set(lev, m, lev[cur])
    OBVIOUS
  <2>13. IsCut(lo, lev, Len(pages), cur, s, lo2, lev2)
    BY <2>8, <2>10, <2>11, <2>12 DEF IsCut
  <2>14. /\ Kept(lo, lev, Len(pages), lo2, lev2, m, cur, s) /\ lo2[m] = s /\ lev2[m] = lev[cur]
    BY <1>a, <2>1, <2>8, <2>13, <2>b, <2>c, CutKept
  <2>15. TreeSound(lo2, lev2, root', pages')
    <3> DEFINE pgs == pages'
    <3>1. /\ \A e \in ToSet(old.entries) : Within(lo, lev, Len(pages), cur, e.key) /\ e.key \in Nat /\ e.key < s
          /\ \A e \in ToSet(new.entries) : Within(lo, lev, Len(pages), cur, e.key) /\ e.key \in Nat /\ ~(e.key < s)
          /\ IsSplit(pgs, pages, cur, old, new)
      BY <2>8, <2>9, <2>d
    <3> HIDE DEF pgs
    <3>2. TreeSound(lo2, lev2, root, pgs)
      BY <1>a, <2>1, <2>8, <2>13, <2>b, <2>c, <3>1, LeafSplitTree
    <3> QED BY <1>0, <3>2 DEF pgs
  <2>16. Len(pages') = m /\ \A i \in 1..Len(pages) : i # cur => pages'[i] = pages[i]
    BY <2>8 DEF IsSplit
  <2>17. \A v \in Workers : \A p \in ToSet(task[v].locked) : p # cur /\ pages'[p] = pages[p]
    <3> SUFFICES ASSUME NEW v \in Workers, NEW p \in ToSet(task[v].locked) PROVE p # cur /\ pages'[p] = pages[p]
      OBVIOUS
    <3>1. p \in Inners(pages) /\ p \in 1..Len(pages)
      BY LockedHeld
    <3>2. p # cur
      BY <2>1, <3>1, ShapeFacts
    <3> QED BY <2>16, <3>1, <3>2
  <2>18. TaskSound(lo2, lev2, root', pages', task[w])
    <3> DEFINE t == task[w]
               rt2 == root'
               pgs2 == pages'
    <3>1. /\ TaskOK(t, pages) /\ TaskSound(lo, lev, root, pages, t) /\ Kept(lo, lev, Len(pages), lo2, lev2, Len(pgs2), cur, s)
          /\ (\A p \in ToSet(t.locked) : p # cur /\ pgs2[p] = pages[p]) /\ rt2 = root
          /\ root \in 0..Len(pages) /\ (root = 0 => Len(pages) = 0)
      BY <1>0, <2>6, <2>14, <2>16, <2>17 DEF Bounds, ShapeOK, TreeOK
    <3> HIDE DEF t, rt2, pgs2
    <3>2. TaskSound(lo2, lev2, rt2, pgs2, t)
      BY <3>1, TaskKept
    <3> QED BY <3>2 DEF t, rt2, pgs2
  <2>19. lev[cur] = 0
    BY <1>a, <2>1, GroundLevel
  <2>20. task[w].locked = <<>> => tk.pc = "ancestors" /\ lev2[m] = lev2[root]
    <3> SUFFICES ASSUME task[w].locked = <<>> PROVE tk.pc = "ancestors" /\ lev2[m] = lev2[root]
      OBVIOUS
    <3>1. cur = root /\ root # 0 /\ ~RootMoving
      BY <2>3
    <3>2. lev2[root] = lev[root]
      BY <2>1, <2>14, <3>1 DEF Kept, Same
    <3>3. pages[cur].next = 0
      <4> SUFFICES ASSUME pages[cur].next # 0 PROVE FALSE
        OBVIOUS
      <4> DEFINE nx == pages[cur].next
      <4>1. nx \in Leaves(pages) /\ nx \in 1..Len(pages)
        BY <2>1, ShapeFacts
      <4>2. lev[nx] = lev[root]
        BY <1>a, <2>19, <3>1, <4>1, GroundLevel
      <4>3. nx = root
        <5> HIDE DEF nx
        <5> QED BY <2>3, <3>1, <4>1, <4>2, RootLevel
      <4>4. LeafSound(lo, lev, Len(pages), cur, pages[cur])
        BY <1>a, <2>1, GroundLevel
      <4>5. lo[cur] < lo[nx] /\ lo[cur] \in Int
        BY <1>a, <2>1, <4>4, ShapeFacts DEF LeafSound, NextSound, TreeSound, IsBounds
      <4> QED BY <3>1, <4>3, <4>5
    <3> QED BY <2>7, <2>14, <3>1, <3>2, <3>3
  <2>21. task[w].locked # <<>> => lev2[m] + 1 = lev2[P] /\ Within(lo2, lev2, m, P, s) /\ lo2[P] < s
    <3> SUFFICES ASSUME task[w].locked # <<>> PROVE lev2[m] + 1 = lev2[P] /\ Within(lo2, lev2, m, P, s) /\ lo2[P] < s
      OBVIOUS
    <3>1. P \in Inners(pages) /\ cur \in Children(pages[P]) /\ P \in 1..Len(pages) /\ P # cur
      BY <2>1, <2>3, ShapeFacts
    <3>2. Within(lo, lev, Len(pages), P, s) /\ lo[P] <= lo[cur] /\ lev[cur] + 1 = lev[P]
      <4>1. Len(pages) \in Nat /\ Len(pages) <= MaxPages /\ \A q \in 1..Len(pages) : Fits(pages, pages[q])
        BY ShapeFacts
      <4> QED BY <1>a, <2>10, <2>b, <3>1, <4>1, ParentWithin
    <3>3. lo2[P] = lo[P] /\ lev2[P] = lev[P] /\ Within(lo2, lev2, m, P, s)
      BY <2>14, <2>b, <3>1, <3>2 DEF Kept, Same, RangesKept
    <3>4. lo[P] \in Int /\ lo[cur] \in Int
      BY <1>a, <2>1, <3>1, ShapeFacts DEF TreeSound, IsBounds
    <3> QED BY <2>11, <2>14, <2>b, <3>2, <3>3, <3>4
  <2>22. TaskSound(lo2, lev2, root', pages', tk)
    <3> DEFINE rt2 == root'
               pgs2 == pages'
               t == task[w]
    <3>1. /\ Len(pgs2) = m /\ LockSound(rt2, pgs2, t) /\ tk.locked = t.locked /\ tk.child = m /\ lo2[m] = tk.sep
          /\ tk.pc \in {"sibling", "ancestors"}
      BY <2>7, <2>14, <2>16, <2>18 DEF TaskSound
    <3>2. /\ t.locked = <<>> => tk.pc = "ancestors" /\ lev2[m] = lev2[rt2]
          /\ t.locked # <<>> => /\ lev2[m] + 1 = lev2[Last(t.locked)]
                                /\ Within(lo2, lev2, m, Last(t.locked), tk.sep) /\ lo2[Last(t.locked)] < tk.sep
          /\ tk.pc = "sibling" => lev2[m] = 0
      BY <1>0, <2>7, <2>14, <2>19, <2>20, <2>21 DEF P
    <3> HIDE DEF rt2, pgs2, t
    <3>3. TaskSound(lo2, lev2, rt2, pgs2, tk)
      BY <3>1, <3>2, SplitTaskSound
    <3> QED BY <3>3 DEF rt2, pgs2
  <2>23. \A v \in Workers : TaskSound(lo2, lev2, root', pages', task'[v])
    <3>1. Untouched(w, cur) /\ RootKept(w)
      BY <1>0, <2>17 DEF Untouched, RootKept
    <3>2. Kept(lo, lev, Len(pages), lo2, lev2, Len(pages'), cur, s)
      BY <2>14, <2>16
    <3> QED BY <2>1, <2>22, <3>1, <3>2, OthersKept
  <2>24. RootAlone'
    BY <1>0, <2>1, <2>7, SplitAlone DEF cur
  <2>25. Stored'
    <3>1. \A e : e \in ToSet(old.entries) \/ e \in ToSet(new.entries) <=> e \in ToSet(pages[cur].entries) \/ e = entry
      BY <2>d
    <3> QED BY <1>a, <2>1, <2>2, <2>8, <3>1, StoredSplit
  <2>26. ASSUME ~torn' PROVE Complete' /\ Linked'
    <3>1. Complete /\ Linked
      BY <1>0, <2>26 DEF Bounds
    <3>2. ~Splitting(task[w]) /\ Splitting(tk) /\ task[w].pc # "sibling"
      BY <1>0, <2>7 DEF Splitting
    <3>3. Complete'
      BY <1>0, <2>1, <2>7, <2>8, <3>1, <3>2, SplitComplete
    <3>4. Unreached(cur)
      BY <1>0, ReachedLinked DEF cur, Unreached
    <3>5. /\ tk.child = m /\ tk.sib = pages[cur].next /\ (tk.sib = 0 \/ tk.pc = "sibling")
          /\ task' = [task EXCEPT ![w] = tk]
          /\ IsSplit(pages', pages, cur, old, new) /\ m = Len(pages) + 1 /\ cur \in Leaves(pages)
          /\ IsLeaf(old) /\ old.next = m /\ old.prev = pages[cur].prev
          /\ IsLeaf(new) /\ new.next = pages[cur].next /\ new.prev = cur
      BY <2>1, <2>7, <2>8
    <3> HIDE DEF tk, m, old, new, cur
    <3>6. Linked'
      BY <3>1, <3>2, <3>4, <3>5, SplitLinked
    <3> QED BY <3>3, <3>6
  <2>27. Bounds(lo2, lev2)'
    BY <2>15, <2>23, <2>24, <2>25, <2>26 DEF Bounds
  <2> QED BY <2>14, <2>27 DEF BoundsGo, Kept
<1> QED BY <1>1, <1>2

(* What an inner page holds with the entry of a new page, and what its two *)
(* halves do: the entry between them moves up.                             *)
Holds(pg, e, x) == x \in ToSet(pg.entries) \/ x = e
IsMiddle(pg, e, x, s) == Holds(pg, e, x) /\ x.key = s /\ \A y : Holds(pg, e, y) /\ y.key = s => y = x

LEMMA InnerHalfSets ==
  ASSUME NEW pg, IsInner(pg), inner_is_full(pg), NEW sep \in Nat, ~find_separator_slot(pg, sep).found, NEW child,
         NEW e, e = InnerEntry(sep, child), NEW cut, cut = split_inner(pg, sep, child)
  PROVE  /\ \A x : x \in ToSet(cut.old.entries) <=> Holds(pg, e, x) /\ x.key < cut.sep
         /\ \A x : x \in ToSet(cut.new.entries) <=> Holds(pg, e, x) /\ cut.sep < x.key
         /\ cut.sep \in Nat /\ cut.old.leftmost = pg.leftmost /\ IsInner(cut.old) /\ IsInner(cut.new)
         /\ \E x : IsMiddle(pg, e, x, cut.sep) /\ cut.new.leftmost = x.child
<1> DEFINE es == Merged(pg.entries, e)
           mid == Len(es) \div 2
<1>1. /\ cut.sep = es[mid + 1].key
      /\ cut.old = InnerPage(SubSeq(es, 1, mid), pg.leftmost) /\ IsInner(cut.old)
      /\ cut.new = InnerPage(SubSeq(es, mid + 2, Len(es)), es[mid + 1].child) /\ IsInner(cut.new)
  BY InnerHalved
<1>2. /\ IsEntries(es, InnerMax + 1) /\ Len(es) = InnerMax + 1 /\ mid \in 1..(InnerMax - 1)
      /\ es[mid + 1].key \in Nat /\ \A x : x \in ToSet(es) <=> Holds(pg, e, x)
  <2> DEFINE in == pg.entries
             max == InnerMax
  <2>1. /\ IsEntries(in, max) /\ max \in Nat /\ max >= 2 /\ Len(in) >= max /\ e.key = sep /\ ~Search(in, e.key).found
    BY BTreePageAssumption, EntryParts DEF IsInner, inner_is_full, find_separator_slot
  <2> HIDE DEF in, max
  <2>2. LET all == Merged(in, e)
            half == Len(all) \div 2
        IN  /\ IsEntries(all, max + 1) /\ Len(all) = max + 1 /\ Len(in) = max
            /\ half \in 1..(max - 1) /\ all[half + 1].key \in Nat
            /\ ToSet(all) = ToSet(in) \cup {e}
    BY <2>1, MergedFull
  <2> QED BY <2>2 DEF in, max, Holds
<1> HIDE DEF es, mid
<1>3. InnerMax \in Nat /\ InnerMax >= 2 /\ mid \in Nat
  BY <1>2, BTreePageAssumption
<1>4. /\ Len(es) \in Nat /\ (\A i \in 1..Len(es) : es[i].key \in Nat /\ es[i] \in ToSet(es))
      /\ (\A x : x \in ToSet(es) <=> \E i \in 1..Len(es) : es[i] = x)
      /\ (\A i, j \in 1..Len(es) : i < j => es[i].key < es[j].key)
  BY <1>2, EntriesShape
<1>5. /\ mid \in 1..Len(es) /\ mid + 1 \in 1..Len(es) /\ mid \in 0..Len(es) /\ mid + 2 \in 1..(Len(es) + 1)
      /\ mid + 2 <= Len(es) + 1
  BY <1>2, <1>3
<1> DEFINE lower == SubSeq(es, 1, mid)
           upper == SubSeq(es, mid + 2, Len(es))
<1>6. ToSet(lower) = {es[i] : i \in 1..mid}
  <2> DEFINE a == 1
             max == InnerMax + 1
  <2>1. IsEntries(es, max) /\ a \in 1..(Len(es) + 1) /\ mid \in 0..Len(es) /\ a <= mid + 1
    BY <1>2, <1>4, <1>5
  <2> HIDE DEF a, max
  <2>2. ToSet(SubSeq(es, a, mid)) = {es[i] : i \in a..mid}
    BY <2>1, SubSet
  <2> QED BY <2>2 DEF a
<1>7. ToSet(upper) = {es[i] : i \in (mid + 2)..Len(es)}
  <2> DEFINE a == mid + 2
             b == Len(es)
             max == InnerMax + 1
  <2>1. IsEntries(es, max) /\ a \in 1..(Len(es) + 1) /\ b \in 0..Len(es) /\ a <= b + 1
    BY <1>2, <1>4, <1>5
  <2> HIDE DEF a, b, max
  <2>2. ToSet(SubSeq(es, a, b)) = {es[i] : i \in a..b}
    BY <2>1, SubSet
  <2> QED BY <2>2 DEF a, b
<1>8. /\ cut.old.entries = lower /\ cut.old.leftmost = pg.leftmost
      /\ cut.new.entries = upper /\ cut.new.leftmost = es[mid + 1].child
  <2> DEFINE a == pg.leftmost
             b == es[mid + 1].child
             old == cut.old
             new == cut.new
  <2>1. old = InnerPage(lower, a) /\ new = InnerPage(upper, b)
    BY <1>1
  <2> HIDE DEF a, b, old, new, lower, upper
  <2>2. old.entries = lower /\ old.leftmost = a /\ new.entries = upper /\ new.leftmost = b
    BY <2>1, InnerParts
  <2> QED BY <2>2 DEF a, b, old, new
<1> HIDE DEF lower, upper
<1> DEFINE s == cut.sep
           x0 == es[mid + 1]
<1>9. s \in Nat /\ s = x0.key /\ x0 \in ToSet(es) /\ cut.new.leftmost = x0.child
  BY <1>1, <1>2, <1>4, <1>5, <1>8
<1> HIDE DEF s
<1>10. \A i \in 1..Len(es) : /\ es[i].key < s <=> i <= mid
                             /\ s < es[i].key <=> i >= mid + 2
                             /\ es[i].key = s => i = mid + 1
  <2> SUFFICES ASSUME NEW i \in 1..Len(es) PROVE /\ es[i].key < s <=> i <= mid
                                                 /\ s < es[i].key <=> i >= mid + 2
                                                 /\ es[i].key = s => i = mid + 1
    OBVIOUS
  <2>0. es[i].key \in Nat /\ i \in Nat
    BY <1>4
  <2>1. CASE i <= mid
    <3>1. i < mid + 1
      BY <1>3, <2>0, <2>1
    <3>2. es[i].key < s
      BY <1>4, <1>5, <1>9, <3>1
    <3> QED BY <1>3, <1>9, <2>0, <2>1, <3>2
  <2>2. CASE i = mid + 1
    BY <1>3, <1>9, <2>0, <2>2
  <2>3. CASE i >= mid + 2
    <3>1. mid + 1 < i
      BY <1>3, <2>0, <2>3
    <3>2. s < es[i].key
      BY <1>4, <1>5, <1>9, <3>1
    <3> QED BY <1>3, <1>9, <2>0, <2>3, <3>2
  <2> QED BY <1>3, <2>0, <2>1, <2>2, <2>3
<1>11. ASSUME NEW x PROVE x \in ToSet(lower) <=> x \in ToSet(es) /\ x.key < s
  <2>1. x \in ToSet(lower) <=> \E i \in 1..mid : x = es[i]
    BY <1>6
  <2>2. \A i \in 1..mid : i \in 1..Len(es) /\ i <= mid
    BY <1>3, <1>5
  <2>3. \A i \in 1..Len(es) : i <= mid => i \in 1..mid
    BY <1>3
  <2> QED BY <1>4, <1>10, <2>1, <2>2, <2>3
<1>12. ASSUME NEW x PROVE x \in ToSet(upper) <=> x \in ToSet(es) /\ s < x.key
  <2>1. x \in ToSet(upper) <=> \E i \in (mid + 2)..Len(es) : x = es[i]
    BY <1>7
  <2>2. \A i \in (mid + 2)..Len(es) : i \in 1..Len(es) /\ i >= mid + 2
    BY <1>3, <1>4
  <2>3. \A i \in 1..Len(es) : i >= mid + 2 => i \in (mid + 2)..Len(es)
    BY <1>3, <1>4
  <2> QED BY <1>4, <1>10, <2>1, <2>2, <2>3
<1>13. IsMiddle(pg, e, x0, s)
  <2>1. ASSUME NEW y, y \in ToSet(es), y.key = s PROVE y = x0
    <3>1. PICK i \in 1..Len(es) : es[i] = y
      BY <1>4, <2>1
    <3> QED BY <1>10, <2>1, <3>1
  <2> QED BY <1>2, <1>9, <2>1 DEF IsMiddle
<1> HIDE DEF x0
<1> QED BY <1>1, <1>2, <1>8, <1>9, <1>11, <1>12, <1>13 DEF s

(* The halves of an inner page hold the entries left and right of s. *)
IsHalves(pg, e, s, old, new) ==
  /\ \A y : y \in ToSet(old.entries) <=> Holds(pg, e, y) /\ y.key < s
  /\ \A y : y \in ToSet(new.entries) <=> Holds(pg, e, y) /\ s < y.key
  /\ old.leftmost = pg.leftmost
  /\ \E y : IsMiddle(pg, e, y, s) /\ new.leftmost = y.child

LEMMA InnerSplitTree ==
  ASSUME ShapeOK, NEW lo, NEW lev, TreeSound(lo, lev, root, pages), root # 0, NEW x \in Inners(pages), NEW s \in Int,
         NEW m, m = Len(pages) + 1, m \in PageIds, NEW lo2, NEW lev2, IsCut(lo, lev, Len(pages), x, s, lo2, lev2),
         NEW sep \in Nat, NEW child \in 1..Len(pages), lo[child] = sep, lev[child] + 1 = lev[x],
         Within(lo, lev, Len(pages), x, sep), lo[x] < sep,
         NEW e, e = InnerEntry(sep, child), NEW old, IsInner(old), NEW new, IsInner(new), IsHalves(pages[x], e, s, old, new),
         NEW pgs, IsSplit(pgs, pages, x, old, new)
  PROVE  TreeSound(lo2, lev2, root, pgs)
<1> DEFINE n == Len(pages)
           pg == pages[x]
<1>1. /\ n \in Nat /\ m = n + 1 /\ m <= MaxPages /\ IsBounds(lo, lev) /\ Apart(lo, lev, n) /\ x \in 1..n
      /\ IsCut(lo, lev, n, x, s, lo2, lev2) /\ (\A q \in 1..n : Fits(pages, pages[q])) /\ IsInner(pg)
      /\ Children(pg) \subseteq 1..n
  BY ShapeFacts, IndexAssumption DEF TreeSound, PageIds, Inners
<1>2. /\ Kept(lo, lev, n, lo2, lev2, m, x, s) /\ lo2[m] = s /\ lev2[m] = lev[x]
      /\ IsBounds(lo2, lev2) /\ Apart(lo2, lev2, m) /\ TopSound(lo2, lev2, m, root)
  BY <1>1, CutKept
<1>3. InnerSound(lo, lev, n, x, pg) /\ lev[x] > 0
  BY <1>1, GroundLevel
<1>4. Len(pgs) = m /\ pgs[x] = old /\ pgs[m] = new /\ (\A i \in 1..n : i # x => pgs[i] = pages[i])
  BY <1>1 DEF IsSplit
<1>5. /\ \A c : c \in Children(pg) <=> c = pg.leftmost \/ \E y \in ToSet(pg.entries) : c = y.child
      /\ \A y \in ToSet(pg.entries) : y.key \in Nat
  <2>1. IsEntries(pg.entries, InnerMax)
    BY <1>1 DEF IsInner
  <2>2. \A y \in ToSet(pg.entries) : y.key \in Nat
    BY <2>1, EntriesShape
  <2> QED BY <2>1, <2>2, ChildrenSet
<1>6. /\ Within(lo, lev, n, x, sep) /\ lo[x] < sep /\ lo[child] = sep /\ lev[child] + 1 = lev[x]
      /\ child \in 1..n /\ e.key = sep /\ e.child = child
  BY EntryParts
<1> HIDE DEF n, pg
<1>7. /\ \A q \in 1..n : lo2[q] = lo[q] /\ lev2[q] = lev[q]
      /\ \A k \in Int : Within(lo, lev, n, x, k) /\ k < s => Within(lo2, lev2, m, x, k)
  BY <1>1, <1>2 DEF Kept, Same, RangesKept
<1>8. \A y : Holds(pg, e, y) => /\ y.key \in Nat /\ Within(lo, lev, n, x, y.key) /\ lo[x] < y.key
                                /\ lo2[y.child] = y.key /\ lev2[y.child] + 1 = lev[x] /\ y.child \in 1..n
  <2>1. \A y \in ToSet(pg.entries) : y.child \in 1..n
    BY <1>1, <1>5
  <2> QED BY <1>3, <1>5, <1>6, <1>7, <2>1 DEF Holds, InnerSound
<1>9. pg.leftmost \in 1..n /\ lo[pg.leftmost] = lo[x] /\ lev[pg.leftmost] + 1 = lev[x]
  BY <1>1, <1>3, <1>5 DEF InnerSound
<1>10. lo[x] \in Int /\ lev[x] \in Nat /\ s \in Int
  BY <1>1, BoundTypes
<1>11. IsHalves(pg, e, s, old, new)
  BY DEF pg
<1>12. InnerSound(lo2, lev2, m, x, old)
  <2>1. old.leftmost = pg.leftmost /\ \A y : y \in ToSet(old.entries) => Holds(pg, e, y) /\ y.key < s
    BY <1>11 DEF IsHalves
  <2>2. lev2[x] > 0 /\ lo2[old.leftmost] = lo2[x] /\ lev2[old.leftmost] + 1 = lev2[x]
    BY <1>1, <1>3, <1>7, <1>9, <2>1
  <2>3. ASSUME NEW y \in ToSet(old.entries)
        PROVE  Within(lo2, lev2, m, x, y.key) /\ lo2[x] < y.key /\ lo2[y.child] = y.key /\ lev2[y.child] + 1 = lev2[x]
    <3> DEFINE k == y.key
    <3>1. /\ k \in Nat /\ Within(lo, lev, n, x, k) /\ lo[x] < k /\ lo2[y.child] = k /\ lev2[y.child] + 1 = lev[x]
          /\ k < s
      BY <1>8, <2>1
    <3> HIDE DEF k
    <3>2. Within(lo2, lev2, m, x, k) /\ lo2[x] = lo[x] /\ lev2[x] = lev[x]
      BY <1>1, <1>7, <3>1
    <3> QED BY <3>1, <3>2 DEF k
  <2> QED BY <2>2, <2>3 DEF InnerSound
<1>13. InnerSound(lo2, lev2, m, m, new)
  <2>1. \A y : y \in ToSet(new.entries) => Holds(pg, e, y) /\ s < y.key
    BY <1>11 DEF IsHalves
  <2>2. PICK y0 : IsMiddle(pg, e, y0, s) /\ new.leftmost = y0.child
    BY <1>11 DEF IsHalves
  <2>3. lev2[m] > 0 /\ lo2[new.leftmost] = lo2[m] /\ lev2[new.leftmost] + 1 = lev2[m]
    BY <1>2, <1>3, <1>8, <2>2 DEF IsMiddle
  <2>4. ASSUME NEW y \in ToSet(new.entries)
        PROVE  Within(lo2, lev2, m, m, y.key) /\ lo2[m] < y.key /\ lo2[y.child] = y.key /\ lev2[y.child] + 1 = lev2[m]
    <3> DEFINE k == y.key
    <3>1. /\ k \in Nat /\ Within(lo, lev, n, x, k) /\ lo2[y.child] = k /\ lev2[y.child] + 1 = lev[x]
          /\ s < k
      BY <1>8, <2>1
    <3> HIDE DEF k
    <3>2. k \in Int /\ s <= k
      BY <3>1
    <3>3. Within(lo2, lev2, m, m, k)
      BY <1>1, <3>1, <3>2, CutUpper
    <3> QED BY <1>2, <3>1, <3>3 DEF k
  <2> QED BY <2>3, <2>4 DEF InnerSound
<1>14. PageSound(lo2, lev2, m, x, old) /\ PageSound(lo2, lev2, m, m, new)
  BY <1>12, <1>13, KindInner DEF PageSound
<1>15. \A p \in 1..Len(pgs) : \/ p \in 1..n /\ p # x /\ pgs[p] = pages[p]
                              \/ PageSound(lo2, lev2, Len(pgs), p, pgs[p])
  <2>1. \A p \in 1..m : p = m \/ p \in 1..n
    BY <1>1
  <2> QED BY <1>4, <1>14, <2>1
<1> QED BY <1>1, <1>2, <1>4, <1>15, TreeKept DEF n

(* Every child of the page is one of a half, the new one too. *)
LEMMA HalvesCover ==
  ASSUME NEW pg, IsInner(pg), NEW e, NEW s \in Nat, e.key \in Nat, NEW old, IsInner(old), NEW new, IsInner(new),
         IsHalves(pg, e, s, old, new)
  PROVE  \A c : c \in Children(pg) \/ c = e.child => c \in Children(old) \/ c \in Children(new)
<1>1. IsEntries(pg.entries, InnerMax) /\ IsEntries(old.entries, InnerMax) /\ IsEntries(new.entries, InnerMax)
  BY DEF IsInner
<1>2. /\ \A c : c \in Children(pg) <=> c = pg.leftmost \/ \E y \in ToSet(pg.entries) : c = y.child
      /\ \A c : c \in Children(old) <=> c = old.leftmost \/ \E y \in ToSet(old.entries) : c = y.child
      /\ \A c : c \in Children(new) <=> c = new.leftmost \/ \E y \in ToSet(new.entries) : c = y.child
  BY <1>1, ChildrenSet
<1>3. \A y : Holds(pg, e, y) => y.key \in Nat
  BY <1>1, EntriesShape DEF Holds
<1>4. ASSUME NEW y, Holds(pg, e, y) PROVE y.child \in Children(old) \/ y.child \in Children(new)
  <2>1. y.key < s \/ s < y.key \/ y.key = s
    BY <1>3, <1>4
  <2>2. CASE y.key < s
    BY <1>2, <1>4, <2>2 DEF IsHalves
  <2>3. CASE s < y.key
    BY <1>2, <1>4, <2>3 DEF IsHalves
  <2>4. CASE y.key = s
    <3>1. y.child = new.leftmost
      BY <1>4, <2>4 DEF IsHalves, IsMiddle
    <3> QED BY <1>2, <3>1
  <2> QED BY <2>1, <2>2, <2>3, <2>4
<1>5. pg.leftmost \in Children(old)
  BY <1>2 DEF IsHalves
<1> QED BY <1>2, <1>4, <1>5 DEF Holds

(* The locks that are left when the last page of the path is split. *)
LEMMA RaisedLocks ==
  ASSUME ShapeOK, Ranked, NEW lo, NEW lev, Bounds(lo, lev), NEW w \in Workers, task[w].pc = "ancestors",
         task[w].locked # <<>>, NEW parent, parent = Last(task[w].locked), inner_is_full(pages[parent]),
         NEW f, f = Front(task[w].locked)
  PROVE  /\ IsSeq(f) /\ ToSet(f) \subseteq ToSet(task[w].locked) /\ ToSet(f) \subseteq Inners(pages)
         /\ \A p \in ToSet(f) : p # parent
         /\ \A i \in 1..(Len(f) - 1) : f[i + 1] \in Children(pages[f[i]]) /\ f[i] \in ToSet(f)
         /\ f # <<>> => f[1] = root \/ ~inner_is_full(pages[f[1]])
         /\ f # <<>> => Last(f) \in ToSet(f) /\ parent \in Children(pages[Last(f)]) /\ f[1] \in ToSet(f)
         /\ f = <<>> => parent = root
<1> DEFINE s == task[w].locked
           n == Len(s)
<1>1. IsSeq(s) /\ s # <<>> /\ parent = Last(s) /\ f = Front(s) /\ ToSet(s) \subseteq Inners(pages)
  <2>1. \A p \in ToSet(s) : p \in Inners(pages)
    BY LockedHeld
  <2> QED BY <2>1, ParentFacts
<1>2. /\ \A i \in 1..(n - 1) : s[i + 1] \in Children(pages[s[i]])
      /\ s[1] = root \/ ~inner_is_full(pages[s[1]])
  BY <1>1 DEF Bounds, TaskSound, LockSound
<1>3. PICK rank : Ranks(rank)
  BY DEF Ranked
<1>4. \A p \in ToSet(f) : rank[parent] < rank[p] /\ rank[parent] \in Nat
  <2>1. Downwards(rank, task[w]) /\ rank \in [PageIds -> Nat]
    BY <1>3 DEF Ranks
  <2>2. \A p \in ToSet(f) : rank[parent] < rank[p]
    BY <1>1, <2>1, LastLowest
  <2>3. parent \in PageIds
    BY ParentFacts, ShapeFacts
  <2> QED BY <2>1, <2>2, <2>3
<1> HIDE DEF s, n
<1>5. /\ n > 0 /\ parent = s[n] /\ IsSeq(f) /\ Len(f) = n - 1 /\ (\A i \in 1..(n - 1) : f[i] = s[i])
      /\ ToSet(f) \subseteq ToSet(s) /\ n \in Nat
  BY <1>1, SeqFront, SeqShape DEF n
<1>6. \A i \in 1..(Len(f) - 1) : f[i + 1] \in Children(pages[f[i]]) /\ f[i] \in ToSet(f)
  <2> SUFFICES ASSUME NEW i \in 1..(Len(f) - 1) PROVE f[i + 1] \in Children(pages[f[i]]) /\ f[i] \in ToSet(f)
    OBVIOUS
  <2>1. i \in 1..(n - 1) /\ i + 1 \in 1..(n - 1) /\ i \in 1..Len(f)
    BY <1>5
  <2> QED BY <1>2, <1>5, <2>1, SeqShape
<1>7. ASSUME f # <<>>
      PROVE  /\ f[1] = root \/ ~inner_is_full(pages[f[1]])
             /\ Last(f) \in ToSet(f) /\ parent \in Children(pages[Last(f)]) /\ f[1] \in ToSet(f)
  <2>1. Len(f) > 0 /\ Last(f) = f[Len(f)] /\ Last(f) \in ToSet(f)
    BY <1>5, <1>7, SeqFront
  <2>2. 1 \in 1..(n - 1) /\ 1 \in 1..Len(f) /\ n - 1 \in 1..(n - 1) /\ (n - 1) + 1 = n
    BY <1>5, <2>1
  <2>3. f[1] = s[1] /\ Last(f) = s[n - 1] /\ f[1] \in ToSet(f)
    BY <1>5, <2>1, <2>2, SeqShape
  <2>4. s[(n - 1) + 1] \in Children(pages[s[n - 1]])
    BY <1>2, <2>2
  <2> QED BY <1>2, <1>5, <2>1, <2>2, <2>3, <2>4
<1>8. ASSUME f = <<>> PROVE parent = root
  <2>1. Len(f) = 0
    BY <1>8
  <2>2. n = 1
    BY <1>5, <2>1
  <2> QED BY <1>2, <1>5, <2>2
<1>9. \A p \in ToSet(f) : p # parent
  BY <1>4
<1> QED BY <1>1, <1>5, <1>6, <1>7, <1>8, <1>9 DEF s

(* A page of the path is split: the task knows where the new page goes. *)
LEMMA RaisedSound ==
  ASSUME NEW lo2, NEW lev2, NEW m, NEW rt, NEW pgs, Len(pgs) = m, NEW f, NEW tk, tk.locked = f, tk.child = m, lo2[m] = tk.sep,
         tk.pc = "ancestors",
         \A i \in 1..(Len(f) - 1) : f[i + 1] \in Children(pgs[f[i]]),
         f # <<>> => f[1] = rt \/ ~inner_is_full(pgs[f[1]]),
         f = <<>> => lev2[m] = lev2[rt],
         f # <<>> => lev2[m] + 1 = lev2[Last(f)] /\ Within(lo2, lev2, m, Last(f), tk.sep) /\ lo2[Last(f)] < tk.sep
  PROVE  TaskSound(lo2, lev2, rt, pgs, tk)
BY DEF TaskSound, SplitSound, LockSound, DownSound, Splitting

(* The root is split by the task that has latched it. *)
LEMMA RaisedAlone ==
  ASSUME ShapeOK, RootAlone, NEW w \in Workers, NEW tk, task' = [task EXCEPT ![w] = tk], root' = root,
         ToSet(tk.locked) \subseteq ToSet(task[w].locked), AtTop(tk) => root \in ToSet(task[w].locked) /\ latch[root] = w
  PROVE  RootAlone'
<1>1. CASE ~AtTop(tk)
  BY <1>1, AloneKept
<1>2. CASE AtTop(tk)
  <2>1. root \in ToSet(task[w].locked) /\ latch[root] = w /\ ToSet(tk.locked) \subseteq ToSet(task[w].locked)
    BY <1>2
  <2>2. \A v \in Workers : v # w => root \notin ToSet(task[v].locked) /\ ~AtTop(task[v])
    <3> SUFFICES ASSUME NEW v \in Workers, v # w PROVE root \notin ToSet(task[v].locked) /\ ~AtTop(task[v])
      OBVIOUS
    <3>1. root \notin ToSet(task[v].locked)
      BY <2>1, OthersAway
    <3>2. ~AtTop(task[v])
      BY <2>1 DEF RootAlone
    <3> QED BY <3>1, <3>2
  <2>3. \A v \in Workers : task'[v] = IF v = w THEN tk ELSE task[v]
    BY TaskFacts
  <2>4. \A v, u \in Workers : v # u /\ AtTop(task'[u]) => root \notin ToSet(task'[v].locked) /\ ~AtTop(task'[v])
    <3> SUFFICES ASSUME NEW v \in Workers, NEW u \in Workers, v # u, AtTop(task'[u])
                 PROVE  root \notin ToSet(task'[v].locked) /\ ~AtTop(task'[v])
      OBVIOUS
    <3>1. u = w
      BY <2>2, <2>3
    <3> QED BY <2>2, <2>3, <3>1
  <2> QED BY <2>4 DEF RootAlone
<1> QED BY <1>1, <1>2

(* Every page is still reached when an inner page was split. *)
LEMMA RaisedComplete ==
  ASSUME ShapeOK, Complete, NEW w \in Workers, NEW tk, task' = [task EXCEPT ![w] = tk], Splitting(task[w]), Splitting(tk),
         NEW x \in Inners(pages), NEW m, m = Len(pages) + 1, tk.child = m, NEW e, e.key \in Nat, e.child = task[w].child,
         NEW s \in Nat, NEW old, IsInner(old), NEW new, IsInner(new), IsHalves(pages[x], e, s, old, new),
         IsSplit(pages', pages, x, old, new), Grows(pages, pages'), root' = root
  PROVE  Complete'
<1> DEFINE pgs == pages'
<1>1. /\ Len(pgs) = m /\ (\A i \in 1..Len(pages) : i # x => pgs[i] = pages[i]) /\ Len(pages) \in Nat
      /\ x \in 1..Len(pages) /\ pgs[x] = old /\ pgs[m] = new /\ IsInner(pages[x])
  BY ShapeFacts DEF IsSplit, Inners
<1>2. x \in Inners(pgs) /\ m \in Inners(pgs) /\ \A p \in Inners(pages) : p \in Inners(pgs)
  <2>1. old.kind = "inner" /\ new.kind = "inner"
    BY KindInner
  <2>2. m \in 1..m /\ x \in 1..m
    BY <1>1
  <2>3. Inners(pages) \subseteq Inners(pgs)
    BY GrowsSets
  <2> HIDE DEF pgs
  <2> QED BY <1>1, <2>1, <2>2, <2>3 DEF Inners
<1>3. \A c : c \in Children(pages[x]) \/ c = task[w].child => c \in Children(old) \/ c \in Children(new)
  BY <1>1, HalvesCover
<1>4. \A p \in Inners(pages) : \A q \in Children(pages[p]) : \E r \in Inners(pgs) : q \in Children(pgs[r])
  <2> HIDE DEF pgs
  <2> SUFFICES ASSUME NEW p \in Inners(pages), NEW q \in Children(pages[p]) PROVE \E r \in Inners(pgs) : q \in Children(pgs[r])
    OBVIOUS
  <2>1. CASE p = x
    BY <1>1, <1>2, <1>3, <2>1
  <2>2. CASE p # x
    <3>1. p \in 1..Len(pages)
      BY DEF Inners
    <3> QED BY <1>1, <1>2, <2>2, <3>1
  <2> QED BY <2>1, <2>2
<1>5. \E r \in Inners(pgs) : task[w].child \in Children(pgs[r])
  <2> HIDE DEF pgs
  <2> QED BY <1>1, <1>2, <1>3
<1>6. \A q \in 1..Len(pgs) : q \in 1..Len(pages) \/ q = root' \/ (Splitting(tk) /\ tk.child = q)
  <2>1. \A i \in 1..m : i = m \/ i \in 1..Len(pages)
    BY <1>1
  <2> QED BY <1>1, <2>1
<1> QED BY <1>4, <1>5, <1>6, CompleteStep

LEMMA ParentSplitSound ==
  ASSUME ShapeOK, Ranked, NEW lo, NEW lev, Bounds(lo, lev), NEW w \in Workers, ParentSplit(w)
  PROVE  BoundsGo(lo, lev)
<1> DEFINE parent == Last(task[w].locked)
           sep == task[w].sep
           child == task[w].child
           f == Front(task[w].locked)
           split == split_inner(pages[parent], sep, child)
           e == InnerEntry(sep, child)
           tk == RaisedTask(task[w], split.sep, NewPage)
<1>0. /\ task[w].pc = "ancestors" /\ task[w].locked # <<>> /\ inner_is_full(pages[parent])
      /\ UNCHANGED <<root, index>>
  BY DEF ParentSplit
<1>a. TreeSound(lo, lev, root, pages) /\ Stored /\ RootAlone
  BY DEF Bounds
<1>1. CASE find_separator_slot(pages[parent], sep).found
  <2>1. Return(w, "PageCorruption", <<>>) /\ UNCHANGED <<pages, index>> /\ torn'
    BY <1>0, <1>1 DEF ParentSplit
  <2>2. Bounds(lo, lev)'
    BY <1>0, <2>1, StopSound
  <2> QED BY <2>2, SameBounds
<1>2. CASE ~find_separator_slot(pages[parent], sep).found
  <2>1. /\ IsSplit(pages', pages, parent, split.old, split.new) /\ Grows(pages, pages')
        /\ split.sep \in Nat /\ IsInner(split.old) /\ IsInner(split.new)
        /\ NewPage = Len(pages) + 1 /\ NewPage \in PageIds /\ task' = [task EXCEPT ![w] = tk]
    BY <1>2, ParentSplitPages, ParentSplitForm
  <2>2. /\ parent \in Inners(pages) /\ parent \in 1..Len(pages) /\ IsInner(pages[parent]) /\ latch[parent] = w
        /\ parent \in ToSet(task[w].locked) /\ sep \in Nat /\ child \in 1..Len(pages)
        /\ lo[child] = sep /\ lev[child] + 1 = lev[parent]
        /\ Within(lo, lev, Len(pages), parent, sep) /\ lo[parent] < sep
        /\ InnerSound(lo, lev, Len(pages), parent, pages[parent])
    BY <1>0, ParentIn
  <2>3. IsHalves(pages[parent], e, split.sep, split.old, split.new)
    <3> DEFINE pg == pages[parent]
               x == sep
               c == child
    <3>1. IsInner(pg) /\ inner_is_full(pg) /\ x \in Nat /\ ~find_separator_slot(pg, x).found /\ e = InnerEntry(x, c)
          /\ split = split_inner(pg, x, c)
      BY <1>0, <1>2, <2>2
    <3> HIDE DEF pg, x, c, e, split
    <3>2. IsHalves(pg, e, split.sep, split.old, split.new)
      BY <3>1, InnerHalfSets DEF IsHalves
    <3> QED BY <3>2 DEF pg
  <2>4. e.key = sep /\ e.child = child
    BY EntryParts
  <2> DEFINE s == split.sep
             m == NewPage
             old == split.old
             new == split.new
  <2>5. tk.pc = "ancestors" /\ tk.locked = f /\ tk.sep = s /\ tk.child = m
    <3> DEFINE t == task[w]
    <3>1. DOMAIN t = DOMAIN NoTask /\ tk = RaisedTask(t, s, m) /\ t.pc = "ancestors"
      BY <1>0, TaskFacts
    <3> HIDE DEF t, s, m, tk
    <3>2. tk.locked = Front(t.locked) /\ tk.sep = s /\ tk.child = m /\ tk.pc = t.pc
      BY <3>1, RaisedTaskParts
    <3> QED BY <3>1, <3>2 DEF t
  <2>6. /\ IsSeq(f) /\ ToSet(f) \subseteq ToSet(task[w].locked) /\ ToSet(f) \subseteq Inners(pages)
        /\ \A p \in ToSet(f) : p # parent
        /\ \A i \in 1..(Len(f) - 1) : f[i + 1] \in Children(pages[f[i]]) /\ f[i] \in ToSet(f)
        /\ f # <<>> => f[1] = root \/ ~inner_is_full(pages[f[1]])
        /\ f # <<>> => Last(f) \in ToSet(f) /\ parent \in Children(pages[Last(f)]) /\ f[1] \in ToSet(f)
        /\ f = <<>> => parent = root
    BY <1>0, RaisedLocks
  <2>7. root # 0
    BY <1>0, ParentFacts
  <2> HIDE DEF tk, split, e, f, sep, child, parent, s, m, old, new
  <2>8. /\ IsSplit(pages', pages, parent, old, new) /\ s \in Nat /\ s \in Int /\ IsInner(old) /\ IsInner(new)
        /\ m = Len(pages) + 1 /\ m \in PageIds /\ IsHalves(pages[parent], e, s, old, new)
    BY <2>1, <2>3 DEF s, m, old, new
  <2>9. Within(lo, lev, Len(pages), parent, s) /\ lo[parent] < s
    <3>1. PICK y : IsMiddle(pages[parent], e, y, s)
      BY <2>8 DEF IsHalves
    <3> QED BY <2>2, <2>4, <3>1 DEF IsMiddle, Holds, InnerSound
  <2>10. PICK lo2, lev2 : lo2 = Set(lo, m, s) /\ lev2 = Set(lev, m, lev[parent])
    OBVIOUS
  <2>11. IsCut(lo, lev, Len(pages), parent, s, lo2, lev2)
    BY <2>8, <2>9, <2>10 DEF IsCut
  <2>12. /\ Kept(lo, lev, Len(pages), lo2, lev2, m, parent, s) /\ lo2[m] = s /\ lev2[m] = lev[parent]
    BY <1>a, <2>2, <2>7, <2>8, <2>11, CutKept
  <2>13. e = InnerEntry(sep, child)
    BY DEF e
  <2>14. TreeSound(lo2, lev2, root', pages')
    <3> DEFINE pgs == pages'
    <3>1. IsSplit(pgs, pages, parent, old, new)
      BY <2>8
    <3> HIDE DEF pgs
    <3>2. TreeSound(lo2, lev2, root, pgs)
      BY <1>a, <2>2, <2>7, <2>8, <2>11, <2>13, <3>1, InnerSplitTree
    <3> QED BY <1>0, <3>2 DEF pgs
  <2>15. Len(pages') = m /\ \A p \in 1..Len(pages) : p # parent => pages'[p] = pages[p]
    BY <2>8 DEF IsSplit
  <2>16. f # <<>> => lev2[m] + 1 = lev2[Last(f)] /\ Within(lo2, lev2, m, Last(f), s) /\ lo2[Last(f)] < s
    <3> SUFFICES ASSUME f # <<>> PROVE lev2[m] + 1 = lev2[Last(f)] /\ Within(lo2, lev2, m, Last(f), s) /\ lo2[Last(f)] < s
      OBVIOUS
    <3> DEFINE P == Last(f)
    <3>1. P \in Inners(pages) /\ parent \in Children(pages[P]) /\ P \in 1..Len(pages) /\ P # parent
      BY <2>6 DEF Inners
    <3> HIDE DEF P
    <3>2. Within(lo, lev, Len(pages), P, s) /\ lo[P] <= lo[parent] /\ lev[parent] + 1 = lev[P]
      <4>1. Len(pages) \in Nat /\ Len(pages) <= MaxPages /\ \A q \in 1..Len(pages) : Fits(pages, pages[q])
        BY ShapeFacts
      <4> QED BY <1>a, <2>8, <2>9, <3>1, <4>1, ParentWithin
    <3>3. lo2[P] = lo[P] /\ lev2[P] = lev[P] /\ Within(lo2, lev2, m, P, s)
      BY <2>8, <2>12, <3>1, <3>2 DEF Kept, Same, RangesKept
    <3>4. lo[P] \in Int /\ lo[parent] \in Int
      BY <1>a, <2>2, <3>1, ShapeFacts DEF TreeSound, IsBounds
    <3>5. lev2[m] + 1 = lev2[P] /\ lo2[P] < s
      BY <2>8, <2>9, <2>12, <3>2, <3>3, <3>4
    <3> QED BY <3>3, <3>5 DEF P
  <2>17. f = <<>> => lev2[m] = lev2[root]
    BY <2>2, <2>6, <2>12 DEF Kept, Same
  <2>18. TaskSound(lo2, lev2, root', pages', tk)
    <3> DEFINE pgs == pages'
    <3>1. \A p \in ToSet(f) : pgs[p] = pages[p]
      BY <2>6, <2>15 DEF Inners
    <3>2. Len(pgs) = m
      BY <2>15
    <3> HIDE DEF pgs
    <3>3. \A i \in 1..(Len(f) - 1) : f[i + 1] \in Children(pgs[f[i]])
      BY <2>6, <3>1
    <3>4. f # <<>> => f[1] = root \/ ~inner_is_full(pgs[f[1]])
      BY <2>6, <3>1
    <3>5. lo2[m] = tk.sep /\ (f # <<>> => lev2[m] + 1 = lev2[Last(f)] /\ Within(lo2, lev2, m, Last(f), tk.sep) /\ lo2[Last(f)] < tk.sep)
      BY <2>5, <2>12, <2>16
    <3>6. TaskSound(lo2, lev2, root, pgs, tk)
      BY <2>5, <2>17, <3>2, <3>3, <3>4, <3>5, RaisedSound
    <3> QED BY <1>0, <3>6 DEF pgs
  <2>19. task' = [task EXCEPT ![w] = tk]
    BY <2>1
  <2>20. \A v \in Workers : TaskSound(lo2, lev2, root', pages', task'[v])
    <3>1. Untouched(w, parent)
      BY <2>2, <2>15, OthersAway DEF Untouched
    <3>2. RootKept(w)
      BY <1>0 DEF RootKept
    <3>3. Kept(lo, lev, Len(pages), lo2, lev2, Len(pages'), parent, s)
      BY <2>12, <2>15
    <3> QED BY <2>18, <2>19, <3>1, <3>2, <3>3, OthersKept
  <2>21. RootAlone'
    <3>1. ToSet(tk.locked) \subseteq ToSet(task[w].locked)
      BY <2>5, <2>6
    <3>2. AtTop(tk) => root \in ToSet(task[w].locked) /\ latch[root] = w
      BY <2>2, <2>5, <2>6 DEF AtTop
    <3> QED BY <1>0, <1>a, <2>19, <3>1, <3>2, RaisedAlone
  <2>22. Leaves(pages') = Leaves(pages) /\ (\A p \in Leaves(pages) : pages'[p] = pages[p])
    <3>1. old.kind = "inner" /\ new.kind = "inner" /\ pages[parent].kind = "inner" /\ Len(pages) \in Nat
      BY <2>2, <2>8, KindInner, ShapeFacts
    <3>2. (\A i \in 1..m : i = m \/ i \in 1..Len(pages)) /\ 1..Len(pages) \subseteq 1..m
      BY <2>8, <3>1
    <3>3. pages'[parent] = old /\ pages'[m] = new
      BY <2>2, <2>8 DEF IsSplit
    <3> QED BY <2>15, <3>1, <3>2, <3>3 DEF Leaves
  <2>23. Stored'
    BY <1>0, <1>a, <2>22 DEF Stored
  <2>24. ASSUME ~torn' PROVE Complete' /\ Linked'
    <3>1. Complete /\ Linked
      <4>1. torn' = torn
        BY <1>2 DEF ParentSplit, parent, sep
      <4> QED BY <2>24, <4>1 DEF Bounds
    <3>2. Linked'
      <4>1. task[w].pc # "sibling" /\ tk.pc # "sibling"
        BY <1>0, <2>5
      <4> QED BY <2>19, <2>22, <3>1, <4>1, LinkedSame
    <3>3. Splitting(task[w]) /\ Splitting(tk) /\ tk.child = m /\ e.key \in Nat /\ e.child = task[w].child
      BY <1>0, <2>2, <2>4, <2>5 DEF Splitting, child
    <3>4. Complete'
      BY <1>0, <2>1, <2>2, <2>8, <2>19, <3>1, <3>3, RaisedComplete
    <3> QED BY <3>2, <3>4
  <2>25. Bounds(lo2, lev2)'
    BY <2>14, <2>20, <2>21, <2>23, <2>24 DEF Bounds
  <2> QED BY <2>12, <2>25 DEF BoundsGo, Kept
<1> QED BY <1>1, <1>2

LEMMA InitSound == Init => Sound
<1> SUFFICES ASSUME Init PROVE \E lo, lev : Bounds(lo, lev)
  BY DEF Sound
<1>1. PICK lo, lev : lo = [p \in PageIds |-> -1] /\ lev = [p \in PageIds |-> 0]
  OBVIOUS
<1>2. /\ root = 0 /\ pages = <<>> /\ Len(pages) = 0 /\ index = {}
      /\ \A v \in Workers : task[v].locked = <<>> /\ task[v].pc = "idle"
  BY EmptyIsSeq DEF Init, NoTask
<1>3. Leaves(pages) = {} /\ \A v \in Workers : Quiet(task[v])
  BY <1>2 DEF Leaves, Quiet, Splitting
<1>4. TreeSound(lo, lev, root, pages)
  <2>1. IsBounds(lo, lev)
    BY <1>1 DEF IsBounds
  <2> QED BY <1>2, <2>1 DEF TreeSound, Apart, TopSound
<1>5. \A v \in Workers : TaskSound(lo, lev, root, pages, task[v]) /\ ~AtTop(task[v]) /\ task[v].pc # "sibling"
  BY <1>3, QuietAll
<1>6. RootAlone /\ Stored /\ Complete /\ Linked
  BY <1>2, <1>3, <1>5 DEF RootAlone, Stored, Complete, Linked
<1> QED BY <1>4, <1>5, <1>6 DEF Bounds

(* A tree that is intact was intact before. *)
LEMMA IntactBefore ==
  ASSUME [Next]_indexVars, Intact'
  PROVE  Intact /\ ~raced' /\ ~lost'
<1>1. ~raced' /\ ~lost'
  BY DEF Intact
<1> SUFFICES ~raced /\ ~lost
  BY <1>1 DEF Intact
<1>2. CASE UNCHANGED indexVars
  BY <1>1, <1>2 DEF indexVars, histVars
<1>3. CASE Reload
  BY <1>1, <1>3 DEF Reload
<1>4. ASSUME NEW w \in Workers, Fail(w) PROVE ~raced /\ ~lost
  BY <1>1, <1>4 DEF Fail, histVars
<1>5. ASSUME NEW w \in Workers, NEW c, Call(w, c) PROVE ~raced /\ ~lost
  BY <1>1, <1>5 DEF Call
<1>6. ASSUME NEW w \in Workers, Work(w) PROVE ~raced /\ ~lost
  <2>1. CASE ReadRoot(w) \/ Descend(w) \/ Get(w) \/ ScanLeaf(w) \/ MergeParent(w) \/ MergeSurvivor(w)
    <3>1. UNCHANGED <<raced, lost>>
      <4>1. CASE ReadRoot(w)
        BY <4>1 DEF ReadRoot, histVars
      <4>2. CASE Descend(w)
        BY <4>2 DEF Descend, histVars
      <4>3. CASE Get(w)
        BY <4>3 DEF Get, histVars
      <4>4. CASE ScanLeaf(w)
        BY <4>4 DEF ScanLeaf, histVars
      <4>5. CASE MergeParent(w)
        BY <4>5 DEF MergeParent, histVars
      <4>6. CASE MergeSurvivor(w)
        BY <4>6 DEF MergeSurvivor, histVars
      <4> QED BY <2>1, <4>1, <4>2, <4>3, <4>4, <4>5, <4>6
    <3> QED BY <1>1, <3>1
  <2>2. CASE FirstInsert(w)
    BY <1>1, <2>2 DEF FirstInsert
  <2>3. CASE CrabInner(w)
    <3>1. raced' = (raced \/ Astray(w)) /\ lost' = lost
      BY <2>3 DEF CrabInner
    <3> QED BY <1>1, <3>1
  <2>6. CASE LeafInsert(w)
    <3>1. raced' = (raced \/ Astray(w)) /\ lost' = lost
      BY <2>6 DEF LeafInsert
    <3> QED BY <1>1, <3>1
  <2>7. CASE LeafSplit(w)
    <3>1. raced' = (raced \/ Astray(w)) /\ lost' = lost
      BY <2>7 DEF LeafSplit
    <3> QED BY <1>1, <3>1
  <2>4. CASE SplitSibling(w) \/ ParentInsert(w) \/ ParentSplit(w) \/ NewRoot(w)
    <3>1. UNCHANGED <<raced, lost>>
      <4>1. CASE SplitSibling(w)
        BY <4>1 DEF SplitSibling, histVars
      <4>2. CASE ParentInsert(w)
        BY <4>2 DEF ParentInsert
      <4>3. CASE ParentSplit(w)
        BY <4>3 DEF ParentSplit
      <4>4. CASE NewRoot(w)
        BY <4>4 DEF NewRoot, histVars
      <4> QED BY <2>4, <4>1, <4>2, <4>3, <4>4
    <3> QED BY <1>1, <3>1
  <2>5. CASE DeleteLeaf(w)
    BY <1>1, <2>5 DEF DeleteLeaf, histVars
  <2> QED BY <1>6, <2>1, <2>2, <2>3, <2>4, <2>5, <2>6, <2>7 DEF Work, InsertIntoAncestors
<1> QED BY <1>2, <1>3, <1>4, <1>5, <1>6 DEF Next

LEMMA WorkSound ==
  ASSUME ShapeOK, Ranked, NEW lo, NEW lev, Bounds(lo, lev), NEW w \in Workers, Work(w), ~raced'
  PROVE  BoundsGo(lo, lev)
<1>1. ASSUME Reads(w), UNCHANGED <<root, pages, index, torn>>, task[w].pc \notin {"sibling", "ancestors"}
      PROVE  BoundsGo(lo, lev)
  BY <1>1, ReadsSound, SameBounds
<1>2. CASE ReadRoot(w)
  BY <1>1, <1>2, ReadRootReads
<1>3. CASE Descend(w)
  BY <1>1, <1>3, DescendReads
<1>4. CASE Get(w)
  BY <1>1, <1>4, GetReads
<1>5. CASE ScanLeaf(w)
  BY <1>1, <1>5, ScanLeafReads
<1>6. CASE MergeParent(w) \/ MergeSurvivor(w)
  BY <1>1, <1>6, MergeReads
<1>7. CASE DeleteLeaf(w)
  BY <1>7, DeleteLeafSound, SameBounds
<1>8. CASE FirstInsert(w)
  BY <1>8, FirstInsertSound
<1>9. CASE CrabInner(w)
  BY <1>9, CrabInnerSound, SameBounds
<1>10. CASE LeafInsert(w)
  BY <1>10, LeafInsertSound, SameBounds
<1>11. CASE LeafSplit(w)
  BY <1>11, LeafSplitSound
<1>12. CASE SplitSibling(w)
  BY <1>12, SplitSiblingSound, SameBounds
<1>13. CASE ParentInsert(w)
  BY <1>13, ParentInsertSound, SameBounds
<1>14. CASE ParentSplit(w)
  BY <1>14, ParentSplitSound
<1>15. CASE NewRoot(w)
  BY <1>15, NewRootSound
<1> QED BY <1>2, <1>3, <1>4, <1>5, <1>6, <1>7, <1>8, <1>9, <1>10, <1>11, <1>12, <1>13, <1>14, <1>15
        DEF Work, InsertIntoAncestors

LEMMA NextBounds ==
  ASSUME ShapeOK, Ranked, NEW lo, NEW lev, Bounds(lo, lev), [Next]_indexVars, Intact'
  PROVE  BoundsGo(lo, lev)
<1>0. Intact /\ ~raced' /\ ~lost'
  BY IntactBefore
<1>2. CASE UNCHANGED indexVars
  <2>1. Bounds(lo, lev)'
    BY <1>2 DEF indexVars, treeVars, histVars, Bounds, RootAlone, Stored, Complete, Linked, Inners, Leaves
  <2> QED BY <2>1, SameBounds
<1>3. CASE Reload
  BY <1>0, <1>3, ReloadSound, SameBounds
<1>4. ASSUME NEW w \in Workers, Fail(w) PROVE BoundsGo(lo, lev)
  BY <1>4, FailSound, SameBounds
<1>5. ASSUME NEW w \in Workers, NEW c, Call(w, c) PROVE BoundsGo(lo, lev)
  BY <1>5, CallReads, ReadsSound, SameBounds
<1>6. ASSUME NEW w \in Workers, Work(w) PROVE BoundsGo(lo, lev)
  BY <1>0, <1>6, WorkSound
<1> QED BY <1>2, <1>3, <1>4, <1>5, <1>6 DEF Next

LEMMA NextSoundTree == ShapeOK /\ Ranked /\ Sound /\ [Next]_indexVars => Sound'
<1> SUFFICES ASSUME ShapeOK, Ranked, Sound, [Next]_indexVars, Intact' PROVE \E lo2, lev2 : Bounds(lo2, lev2)'
  BY DEF Sound
<1>1. Intact
  BY IntactBefore
<1>2. PICK lo, lev : Bounds(lo, lev)
  BY <1>1 DEF Sound
<1>3. BoundsGo(lo, lev)
  BY <1>2, NextBounds
<1> QED BY <1>3 DEF BoundsGo

(* The tree is sound in every state. *)
TreeInv == ShapeOK /\ Ranked /\ Sound

LEMMA TreeInvInductive == Init /\ [][Next]_indexVars => []TreeInv
<1>1. Init => TreeInv
  BY InitShape, InitRanked, InitSound DEF TreeInv
<1>2. TreeInv /\ [Next]_indexVars => TreeInv'
  BY NextShape, NextRanked, NextSoundTree DEF TreeInv
<1> QED BY <1>1, <1>2, PTL

LEMMA SoundSiblings ==
  ASSUME TreeInv
  PROVE  SiblingsAgree
<1> SUFFICES ASSUME Intact, ~torn PROVE Linked
  BY ShapeFacts DEF SiblingsAgree, Linked, Leaves, TreeInv
<1>1. PICK lo, lev : Bounds(lo, lev)
  BY DEF TreeInv, Sound
<1> QED BY <1>1 DEF Bounds

(* Neighbouring leaves agree on their links: split_leaf leaves only the    *)
(* back link of the right sibling to be corrected, and until it is the     *)
(* task that does it is known.                                             *)
THEOREM LinksAgree == Spec => []SiblingsAgree
<1>1. TreeInv => SiblingsAgree
  BY SoundSiblings
<1> QED BY <1>1, TreeInvInductive, PTL DEF Spec

-----------------------------------------------------------------------------
(* What a descent and a chain of leaves reach *)

(* A descent: from a page that is no leaf on to the next one. *)
IsDown(g, D, leaf, next) == g = [p \in D |-> IF p \in leaf THEN p ELSE g[next[p]]]

(* A descent in which the level falls has an end. *)
LEMMA DownExists ==
  ASSUME NEW D, NEW lev \in [D -> Nat], NEW L \in Nat, \A p \in D : lev[p] <= L, NEW leaf, NEW next \in [D -> D],
         \A p \in D \ leaf : lev[next[p]] < lev[p]
  PROVE  \E g : IsDown(g, D, leaf, next)
<1> DEFINE Low(m) == {p \in D : lev[p] < m}
           Upto(g, m) == \A p \in Low(m) : g[p] = IF p \in leaf THEN p ELSE g[next[p]]
           S == {m \in Nat : \E g \in [D -> D] : Upto(g, m)}
<1>1. 0 \in S
  <2>1. Low(0) = {} /\ [p \in D |-> p] \in [D -> D]
    OBVIOUS
  <2>2. Upto([p \in D |-> p], 0)
    BY <2>1
  <2> HIDE DEF Upto, Low
  <2> QED BY <2>1, <2>2
<1>2. ASSUME NEW m \in Nat, m \in S PROVE m + 1 \in S
  <2>1. PICK g \in [D -> D] : Upto(g, m)
    BY <1>2
  <2> DEFINE h == [p \in D |-> IF lev[p] < m THEN g[p] ELSE IF p \in leaf THEN p ELSE g[next[p]]]
  <2>2. h \in [D -> D]
    OBVIOUS
  <2>3. ASSUME NEW p \in Low(m + 1) PROVE h[p] = IF p \in leaf THEN p ELSE h[next[p]]
    <3>1. lev[p] \in Nat /\ lev[p] <= m /\ p \in D /\ next[p] \in D /\ lev[next[p]] \in Nat
      OBVIOUS
    <3>2. p \notin leaf => lev[next[p]] < m
      BY <3>1
    <3>3. p \notin leaf => h[next[p]] = g[next[p]]
      BY <3>1, <3>2
    <3>4. h[p] = IF p \in leaf THEN p ELSE g[next[p]]
      <4>1. CASE lev[p] < m
        <5>1. p \in Low(m)
          BY <4>1
        <5>2. g[p] = IF p \in leaf THEN p ELSE g[next[p]]
          BY <2>1, <5>1
        <5> QED BY <3>1, <4>1, <5>2
      <4>2. CASE ~(lev[p] < m)
        BY <3>1, <4>2
      <4> QED BY <4>1, <4>2
    <3> HIDE DEF h
    <3> QED BY <3>3, <3>4
  <2>4. Upto(h, m + 1)
    BY <2>3
  <2> HIDE DEF h, Upto, Low
  <2> QED BY <2>2, <2>4
<1>3. L + 1 \in S
  <2>1. \A m \in Nat : m \in S => m + 1 \in S
    BY <1>2
  <2> HIDE DEF S
  <2>2. \A m \in Nat : m \in S
    BY <1>1, <2>1, SetInduction
  <2> QED BY <2>2
<1>4. PICK g \in [D -> D] : Upto(g, L + 1)
  BY <1>3
<1>5. \A p \in D : p \in Low(L + 1)
  OBVIOUS
<1>6. \A p \in D : g[p] = IF p \in leaf THEN p ELSE g[next[p]]
  BY <1>4, <1>5
<1>7. g = [p \in D |-> IF p \in leaf THEN p ELSE g[next[p]]]
  BY <1>6
<1> QED BY <1>7 DEF IsDown

(* A descent does not leave a set that is closed under its steps. *)
Falls1(D, leaf, next, lev) == \A p \in D \ leaf : lev[next[p]] < lev[p]
Closed(S, leaf, next) == \A p \in S \ leaf : next[p] \in S

LEMMA DownStays ==
  ASSUME NEW D, NEW lev \in [D -> Nat], NEW leaf, NEW next \in [D -> D], Falls1(D, leaf, next, lev),
         NEW g, IsDown(g, D, leaf, next), NEW S \in SUBSET D, Closed(S, leaf, next), NEW r \in S
  PROVE  g[r] \in S /\ g[r] \in leaf
<1> DEFINE T == {m \in Nat : \A p \in S : lev[p] < m => g[p] \in S /\ g[p] \in leaf}
<1>0. \A p \in D : g[p] = IF p \in leaf THEN p ELSE g[next[p]]
  BY DEF IsDown
<1>1. 0 \in T
  OBVIOUS
<1>2. ASSUME NEW m \in Nat, m \in T PROVE m + 1 \in T
  <2> SUFFICES ASSUME NEW p \in S, lev[p] < m + 1 PROVE g[p] \in S /\ g[p] \in leaf
    OBVIOUS
  <2>1. CASE p \in leaf
    BY <1>0, <2>1
  <2>2. CASE p \notin leaf
    <3>1. next[p] \in S
      BY <2>2 DEF Closed
    <3>4. lev[next[p]] < lev[p] /\ lev[p] \in Nat /\ lev[next[p]] \in Nat
      BY <2>2, <3>1 DEF Falls1
    <3>2. lev[next[p]] < m
      BY <3>4
    <3>3. g[next[p]] \in S /\ g[next[p]] \in leaf
      BY <1>2, <3>1, <3>2
    <3> QED BY <1>0, <2>2, <3>3
  <2> QED BY <2>1, <2>2
<1>3. \A m \in Nat : m \in T
  <2>1. \A m \in Nat : m \in T => m + 1 \in T
    BY <1>2
  <2> HIDE DEF T
  <2> QED BY <1>1, <2>1, SetInduction
<1>4. ASSUME NEW p \in S PROVE g[p] \in S /\ g[p] \in leaf
  <2>1. lev[p] + 1 \in Nat /\ lev[p] < lev[p] + 1
    OBVIOUS
  <2>2. lev[p] + 1 \in T
    BY <1>3, <2>1
  <2> QED BY <2>1, <2>2
<1> QED BY <1>4

(* The descent of a key. *)
Next1(k) == [p \in 1..Len(pages) |-> IF p \in Leaves(pages) THEN p ELSE find_child(pages[p], k)]

LEMMA LeadsBegins ==
  ASSUME ShapeOK, NEW lo, NEW lev, TreeSound(lo, lev, root, pages), NEW p \in Inners(pages), NEW k \in Int, lo[p] <= k
  PROVE  LET c == find_child(pages[p], k) IN c \in 1..Len(pages) /\ lev[c] + 1 = lev[p] /\ lo[c] <= k
<1> DEFINE pg == pages[p]
           c == find_child(pages[p], k)
<1>1. /\ IsInner(pg) /\ IsEntries(pg.entries, InnerMax) /\ Children(pg) \subseteq 1..Len(pages)
      /\ InnerSound(lo, lev, Len(pages), p, pg)
  BY GroundLevel, ShapeFacts DEF IsInner
<1>2. Leads(pg, c, k)
  BY <1>1, FindLeads
<1> HIDE DEF c
<1>3. c \in Children(pg)
  BY <1>1, <1>2, ChildrenSet DEF Leads
<1>4. lev[c] + 1 = lev[p] /\ lo[c] <= k
  BY <1>1, <1>2 DEF Leads, InnerSound
<1> QED BY <1>1, <1>3, <1>4 DEF c

(* The descent of a key ends at a leaf and does not leave a set that is    *)
(* closed under its steps.                                                 *)
LEMMA LeafForStays ==
  ASSUME ShapeOK, NEW lo, NEW lev, TreeSound(lo, lev, root, pages), NEW k \in Int, root # 0, k >= -1,
         NEW S \in SUBSET (1..Len(pages)), root \in S, \A p \in S : p \in Inners(pages) => find_child(pages[p], k) \in S
  PROVE  LeafFor(k) \in S /\ LeafFor(k) \in Leaves(pages)
<1> DEFINE D == 1..Len(pages)
           leaf == Leaves(pages)
           next == Next1(k)
           Eq(g) == g = [p \in D |-> IF pages[p].kind = "leaf" THEN p ELSE g[find_child(pages[p], k)]]
           down == CHOOSE g : Eq(g)
           low == {p \in D : lo[p] <= k}
           lv == [p \in D |-> lev[p]]
<1>1. /\ DOMAIN pages = D /\ D \subseteq PageIds /\ root \in D /\ IsBounds(lo, lev) /\ leaf \subseteq D
      /\ \A p \in D : p \in leaf \/ p \in Inners(pages)
      /\ \A p \in D : p \in leaf <=> pages[p].kind = "leaf"
      /\ lo[root] = -1 /\ \A p \in D : lev[p] <= lev[root]
  BY ShapeFacts DEF TreeSound, TopSound, Leaves
<1>2. LeafFor(k) = down[root]
  BY <1>1 DEF LeafFor
<1>3. \A p \in D : p \notin leaf => next[p] = find_child(pages[p], k) /\ p \in Inners(pages)
  BY <1>1 DEF Next1
<1>4. \A p \in D : p \in leaf => next[p] = p
  BY <1>1 DEF Next1
<1>5. DOMAIN next = D /\ next = [p \in D |-> next[p]]
  BY DEF Next1
<1>a. \A p \in D : lev[p] \in Nat /\ lo[p] \in Int /\ lo[p] >= -1 /\ lv[p] = lev[p]
  BY <1>1 DEF IsBounds
<1>b. \A p \in Inners(pages) : Children(pages[p]) \subseteq D /\ find_child(pages[p], k) \in Children(pages[p]) /\ p \in D
  <2> SUFFICES ASSUME NEW p \in Inners(pages)
               PROVE  Children(pages[p]) \subseteq D /\ find_child(pages[p], k) \in Children(pages[p]) /\ p \in D
    OBVIOUS
  <2>1. IsInner(pages[p]) /\ Children(pages[p]) \subseteq D /\ p \in D /\ IsEntries(pages[p].entries, InnerMax)
    BY ShapeFacts DEF IsInner
  <2>2. find_child(pages[p], k) \in Children(pages[p])
    <3> DEFINE pg == pages[p]
               c == find_child(pg, k)
    <3>1. IsEntries(pg.entries, InnerMax)
      BY <2>1
    <3> HIDE DEF pg
    <3>2. Leads(pg, c, k)
      BY <3>1, FindLeads
    <3> HIDE DEF c
    <3>3. c \in Children(pg)
      BY <3>1, <3>2, ChildrenSet DEF Leads
    <3> QED BY <3>3 DEF c, pg
  <2> QED BY <2>1, <2>2
<1>c. \A p \in Inners(pages) : lev[find_child(pages[p], k)] + 1 = lev[p]
  BY <1>1, <1>b, ChildNotRoot
<1> HIDE DEF next, lv, D
<1>6. next \in [D -> D]
  BY <1>3, <1>4, <1>5, <1>b
<1>7. \A p \in D \ leaf : lv[next[p]] < lv[p]
  BY <1>3, <1>6, <1>a, <1>c
<1>8. lv \in [D -> Nat] /\ \A p \in D : lv[p] <= lev[root]
  BY <1>1, <1>a DEF lv
<1>9. \A g : Eq(g) <=> IsDown(g, D, leaf, next)
  <2> SUFFICES ASSUME NEW g PROVE [p \in D |-> IF pages[p].kind = "leaf" THEN p ELSE g[find_child(pages[p], k)]]
                                = [p \in D |-> IF p \in leaf THEN p ELSE g[next[p]]]
    BY DEF IsDown
  <2>1. \A p \in D : (IF pages[p].kind = "leaf" THEN p ELSE g[find_child(pages[p], k)]) = (IF p \in leaf THEN p ELSE g[next[p]])
    BY <1>1, <1>3
  <2> HIDE DEF leaf
  <2> QED BY <2>1
<1>10. \E g : IsDown(g, D, leaf, next)
  <2>1. lev[root] \in Nat
    BY <1>1, <1>a
  <2> HIDE DEF leaf
  <2> QED BY <1>6, <1>7, <1>8, <2>1, DownExists
<1>11. IsDown(down, D, leaf, next)
  <2>1. \E g : Eq(g)
    BY <1>9, <1>10
  <2>2. Eq(down)
    <3> HIDE DEF Eq
    <3> QED BY <2>1
  <2> HIDE DEF Eq, down
  <2> QED BY <1>9, <2>2
<1> HIDE DEF down
<1>12. Closed(S, leaf, next)
  BY <1>3 DEF D, Closed
<1>13. down[root] \in S /\ down[root] \in leaf
  <2>1. S \in SUBSET D
    BY DEF D
  <2> HIDE DEF leaf
  <2>2. lv \in [D -> Nat] /\ next \in [D -> D] /\ IsDown(down, D, leaf, next)
    BY <1>6, <1>8, <1>11
  <2>3. Falls1(D, leaf, next, lv)
    BY <1>7 DEF Falls1
  <2>4. Closed(S, leaf, next) /\ root \in S
    BY <1>12
  <2> QED BY <2>1, <2>2, <2>3, <2>4, DownStays
<1> QED BY <1>2, <1>13

(* A descent ends at or before the leaf of the key. *)
LEMMA LeafForBegins ==
  ASSUME ShapeOK, NEW lo, NEW lev, TreeSound(lo, lev, root, pages), NEW k \in Int, root # 0, k >= -1
  PROVE  LeafFor(k) \in Leaves(pages) /\ lo[LeafFor(k)] <= k
<1> DEFINE S == {p \in 1..Len(pages) : lo[p] <= k}
<1>1. root \in S
  BY ShapeFacts DEF TreeSound, TopSound
<1>2. \A p \in S : p \in Inners(pages) => find_child(pages[p], k) \in S
  BY LeadsBegins
<1>3. S \in SUBSET (1..Len(pages)) /\ \A p \in S : lo[p] <= k
  OBVIOUS
<1> HIDE DEF S
<1> QED BY <1>1, <1>2, <1>3, LeafForStays

(* In a tree without a split on its way up it ends at the leaf of the key. *)
LEMMA LeafForReaches ==
  ASSUME ShapeOK, NEW lo, NEW lev, Bounds(lo, lev), ~torn, ~Unfinished, NEW k \in Int, root # 0, k >= -1
  PROVE  LeafFor(k) \in Leaves(pages) /\ Within(lo, lev, Len(pages), LeafFor(k), k)
<1> DEFINE n == Len(pages)
           S == {p \in 1..n : Within(lo, lev, n, p, k)}
<1>0. TreeSound(lo, lev, root, pages)
  BY DEF Bounds
<1>1. \A v \in Workers : ~Splitting(task[v]) /\ ~AtTop(task[v])
  BY DEF Unfinished, Splitting, AtTop
<1>2. ~RootMoving
  BY DEF Unfinished, RootMoving
<1>3. root \in S
  BY <1>2, RootIn, ShapeFacts
<1>4. ASSUME NEW p \in S, p \in Inners(pages) PROVE find_child(pages[p], k) \in S
  <2> DEFINE c == find_child(pages[p], k)
  <2>1. IsEntries(pages[p].entries, InnerMax)
    BY <1>4, ShapeFacts DEF IsInner
  <2>2. Leads(pages[p], c, k)
    <3> DEFINE pg == pages[p]
    <3> HIDE DEF pg
    <3>1. IsEntries(pg.entries, InnerMax)
      BY <2>1 DEF pg
    <3>2. Leads(pg, find_child(pg, k), k)
      BY <3>1, FindLeads
    <3> QED BY <3>2 DEF pg
  <2> HIDE DEF c
  <2>3. Within(lo, lev, n, c, k) /\ c \in 1..n
    BY <1>1, <1>4, <2>2, DownIn
  <2> QED BY <2>3 DEF c
<1>5. S \in SUBSET (1..Len(pages)) /\ \A p \in S : Within(lo, lev, n, p, k)
  OBVIOUS
<1> HIDE DEF S
<1> QED BY <1>0, <1>3, <1>4, <1>5, LeafForStays

(* Concatenation *)
LEMMA ConcatSeq ==
  ASSUME NEW E, NEW s \in Seq(E), NEW t \in Seq(E)
  PROVE  /\ s \o t \in Seq(E)
         /\ \A x : x \in ToSet(s \o t) <=> x \in ToSet(s) \/ x \in ToSet(t)
<1> DEFINE u == s \o t
           a == Len(s)
           b == Len(t)
<1>1. /\ u \in Seq(E) /\ Len(u) = a + b
      /\ \A i \in 1..(a + b) : u[i] = IF i <= a THEN s[i] ELSE t[i - a]
  BY ConcatProperties
<1>2. a \in Nat /\ b \in Nat /\ DOMAIN s = 1..a /\ DOMAIN t = 1..b /\ DOMAIN u = 1..(a + b)
  BY <1>1, LenProperties
<1> HIDE DEF u, a, b
<1>3. ASSUME NEW x, x \in ToSet(u) PROVE x \in ToSet(s) \/ x \in ToSet(t)
  <2>1. PICK i \in 1..(a + b) : u[i] = x
    BY <1>2, <1>3 DEF ToSet
  <2>2. CASE i <= a
    <3>1. i \in 1..a /\ s[i] = x
      BY <1>1, <1>2, <2>1, <2>2
    <3> QED BY <1>2, <3>1 DEF ToSet
  <2>3. CASE ~(i <= a)
    <3>1. i - a \in 1..b /\ t[i - a] = x
      BY <1>1, <1>2, <2>1, <2>3
    <3> QED BY <1>2, <3>1 DEF ToSet
  <2> QED BY <2>2, <2>3
<1>4. ASSUME NEW x, x \in ToSet(s) PROVE x \in ToSet(u)
  <2>1. PICK i \in 1..a : s[i] = x
    BY <1>2, <1>4 DEF ToSet
  <2>2. i \in 1..(a + b) /\ u[i] = x
    BY <1>1, <1>2, <2>1
  <2> QED BY <1>2, <2>2 DEF ToSet
<1>5. ASSUME NEW x, x \in ToSet(t) PROVE x \in ToSet(u)
  <2>1. PICK i \in 1..b : t[i] = x
    BY <1>2, <1>5 DEF ToSet
  <2>2. i + a \in 1..(a + b) /\ ~(i + a <= a) /\ (i + a) - a = i
    BY <1>2
  <2>3. u[i + a] = x
    BY <1>1, <2>1, <2>2
  <2> QED BY <1>2, <2>2, <2>3 DEF ToSet
<1> QED BY <1>1, <1>3, <1>4, <1>5 DEF u

(* Two ascending pieces, the first one before the second one. *)
LEMMA ConcatAscending ==
  ASSUME NEW E, NEW s \in Seq(E), NEW t \in Seq(E), Ascending(s), Ascending(t),
         \A x \in ToSet(s) : \A y \in ToSet(t) : x.key < y.key
  PROVE  Ascending(s \o t)
<1> DEFINE u == s \o t
           a == Len(s)
           b == Len(t)
<1>1. Len(u) = a + b /\ \A i \in 1..(a + b) : u[i] = IF i <= a THEN s[i] ELSE t[i - a]
  BY ConcatProperties
<1>2. a \in Nat /\ b \in Nat /\ DOMAIN s = 1..a /\ DOMAIN t = 1..b
  BY LenProperties
<1>3. \A x \in ToSet(s) : \A y \in ToSet(t) : x.key < y.key
  OBVIOUS
<1>4. /\ \A i \in 1..(a - 1) : s[i].key < s[i + 1].key
      /\ \A i \in 1..(b - 1) : t[i].key < t[i + 1].key
  BY DEF Ascending
<1> HIDE DEF u, a, b
<1>5. ASSUME NEW i \in 1..((a + b) - 1) PROVE u[i].key < u[i + 1].key
  <2>1. i \in 1..(a + b) /\ i + 1 \in 1..(a + b)
    BY <1>2
  <2>2. CASE i < a
    <3>1. i \in 1..(a - 1) /\ i <= a /\ i + 1 <= a
      BY <1>2, <2>2
    <3>2. u[i] = s[i] /\ u[i + 1] = s[i + 1]
      BY <1>1, <2>1, <3>1
    <3> QED BY <1>4, <3>1, <3>2
  <2>3. CASE i = a
    <3>1. i <= a /\ ~(i + 1 <= a) /\ (i + 1) - a = 1 /\ i \in 1..a /\ 1 \in 1..b
      BY <1>2, <2>3
    <3>2. u[i] = s[i] /\ u[i + 1] = t[1]
      BY <1>1, <2>1, <3>1
    <3>3. s[i] \in ToSet(s) /\ t[1] \in ToSet(t)
      BY <1>2, <3>1 DEF ToSet
    <3> QED BY <1>3, <3>2, <3>3
  <2>4. CASE i > a
    <3>1. ~(i <= a) /\ ~(i + 1 <= a) /\ (i + 1) - a = (i - a) + 1 /\ i - a \in 1..(b - 1)
      BY <1>2, <2>4
    <3>2. u[i] = t[i - a] /\ u[i + 1] = t[(i - a) + 1]
      BY <1>1, <2>1, <3>1
    <3> QED BY <1>4, <3>1, <3>2
  <2> QED BY <1>2, <2>2, <2>3, <2>4
<1>6. Ascending(u)
  BY <1>1, <1>5 DEF Ascending
<1> QED BY <1>6 DEF u

(* What Chain collects from m pages on, for every m. *)
IsChains(g, A, es, nx, n) ==
  g = [m \in 0..n |-> [q \in A \cup {0} |-> IF q = 0 \/ m = 0 THEN <<>> ELSE es[q] \o g[m - 1][nx[q]]]]

LEMMA ChainsExist ==
  ASSUME NEW A, NEW E, NEW es \in [A -> Seq(E)], NEW nx \in [A -> A \cup {0}], 0 \notin A, NEW n \in Nat
  PROVE  \E g : IsChains(g, A, es, nx, n)
<1> DEFINE B == [A \cup {0} -> Seq(E)]
           a == [q \in A \cup {0} |-> <<>>]
           F == [m \in 1..n |-> [f \in B |-> [q \in A \cup {0} |-> IF q = 0 THEN <<>> ELSE es[q] \o f[nx[q]]]]]
<1>1. a \in B
  BY EmptySeq
<1>2. \A m \in 1..n : \A f \in B : [q \in A \cup {0} |-> IF q = 0 THEN <<>> ELSE es[q] \o f[nx[q]]] \in B
  <2> SUFFICES ASSUME NEW m \in 1..n, NEW f \in B, NEW q \in A \cup {0}
               PROVE  (IF q = 0 THEN <<>> ELSE es[q] \o f[nx[q]]) \in Seq(E)
    OBVIOUS
  <2>1. CASE q = 0
    BY <2>1, EmptySeq
  <2>2. CASE q # 0
    <3>1. es[q] \in Seq(E) /\ f[nx[q]] \in Seq(E)
      BY <2>2
    <3>2. es[q] \o f[nx[q]] \in Seq(E)
      BY <3>1, ConcatProperties
    <3> QED BY <2>2, <3>2
  <2> QED BY <2>1, <2>2
<1>3. F \in [1..n -> [B -> B]]
  BY <1>2
<1>4. PICK g \in [0..n -> B] : IsLoop(g, a, n, F)
  <2> HIDE DEF F, B, a
  <2> QED BY <1>1, <1>3, LoopExists
<1>5. \A m \in 0..n : g[m] = [q \in A \cup {0} |-> IF q = 0 \/ m = 0 THEN <<>> ELSE es[q] \o g[m - 1][nx[q]]]
  <2> SUFFICES ASSUME NEW m \in 0..n
               PROVE  g[m] = [q \in A \cup {0} |-> IF q = 0 \/ m = 0 THEN <<>> ELSE es[q] \o g[m - 1][nx[q]]]
    OBVIOUS
  <2>1. CASE m = 0
    BY <1>4, <2>1 DEF IsLoop
  <2>2. CASE m # 0
    <3>1. m \in 1..n /\ m - 1 \in 0..n
      BY <2>2
    <3>2. g[m - 1] \in B
      BY <3>1
    <3>3. g[m] = F[m][g[m - 1]]
      BY <1>4, <3>1 DEF IsLoop
    <3>4. g[m] = [q \in A \cup {0} |-> IF q = 0 THEN <<>> ELSE es[q] \o g[m - 1][nx[q]]]
      BY <3>1, <3>2, <3>3
    <3> QED BY <2>2, <3>4
  <2> QED BY <2>1, <2>2
<1>6. g = [m \in 0..n |-> [q \in A \cup {0} |-> IF q = 0 \/ m = 0 THEN <<>> ELSE es[q] \o g[m - 1][nx[q]]]]
  BY <1>5
<1> QED BY <1>6, ZenonT(40) DEF IsChains

Chained(g, A, es, nx, n) ==
  /\ \A m \in 0..n : g[m][0] = <<>>
  /\ \A q \in A : g[0][q] = <<>>
  /\ \A m \in 0..(n - 1) : \A q \in A : g[m + 1][q] = es[q] \o g[m][nx[q]]

LEMMA ChainsStep ==
  ASSUME NEW A, NEW E, NEW es \in [A -> Seq(E)], NEW nx \in [A -> A \cup {0}], 0 \notin A, NEW n \in Nat,
         NEW g, IsChains(g, A, es, nx, n)
  PROVE  Chained(g, A, es, nx, n)
<1>1. ASSUME NEW m \in 0..n, NEW q \in A \cup {0}
      PROVE  g[m][q] = IF q = 0 \/ m = 0 THEN <<>> ELSE es[q] \o g[m - 1][nx[q]]
  <2>1. g = [i \in 0..n |-> [r \in A \cup {0} |-> IF r = 0 \/ i = 0 THEN <<>> ELSE es[r] \o g[i - 1][nx[r]]]]
    BY DEF IsChains
  <2>2. g[m] = [r \in A \cup {0} |-> IF r = 0 \/ m = 0 THEN <<>> ELSE es[r] \o g[m - 1][nx[r]]]
    BY <2>1
  <2> QED BY <2>2
<1>2. ASSUME NEW m \in 0..(n - 1), NEW q \in A PROVE g[m + 1][q] = es[q] \o g[m][nx[q]]
  <2> DEFINE i == m + 1
  <2>1. i \in 0..n /\ i # 0 /\ i - 1 = m /\ q # 0 /\ q \in A \cup {0}
    OBVIOUS
  <2> HIDE DEF i
  <2>2. g[i][q] = es[q] \o g[i - 1][nx[q]]
    BY <1>1, <2>1
  <2>3. g[i][q] = es[q] \o g[m][nx[q]]
    BY <2>1, <2>2
  <2> QED BY <2>3 DEF i
<1>3. 0 \in 0..n /\ 0 \in A \cup {0}
  OBVIOUS
<1>4. \A m \in 0..n : g[m][0] = <<>>
  BY <1>1, <1>3
<1>5. \A q \in A : g[0][q] = <<>>
  BY <1>1, <1>3
<1> QED BY <1>2, <1>4, <1>5 DEF Chained

(* Leaves A with entries es, linked by nx in the order of their keys. *)
Ordered(A, es, nx, lo) ==
  /\ \A q \in A : /\ lo[q] \in Int /\ Ascending(es[q])
                  /\ \A x \in ToSet(es[q]) : x.key \in Nat /\ lo[q] <= x.key /\ (nx[q] # 0 => x.key < lo[nx[q]])
  /\ \A q, r \in A : /\ lo[q] = lo[r] => q = r
                     /\ nx[q] = 0 => lo[r] <= lo[q]
                     /\ nx[q] # 0 => lo[q] < lo[nx[q]] /\ (lo[q] < lo[r] => lo[nx[q]] <= lo[r])

(* The leaves from q on. *)
From(A, lo, q) == {r \in A : lo[q] <= lo[r]}

(* The piece s has entries of leaves from q on, in order. *)
IsPiece(s, E, A, es, lo, q) ==
  /\ s \in Seq(E) /\ Ascending(s)
  /\ \A x \in ToSet(s) : x.key \in Nat /\ lo[q] <= x.key /\ \E r \in From(A, lo, q) : x \in ToSet(es[r])

LEMMA EmptyPiece ==
  ASSUME NEW E, NEW A, NEW es, NEW lo, NEW q
  PROVE  IsPiece(<<>>, E, A, es, lo, q) /\ ToSet(<<>>) = {}
<1>1. <<>> \in Seq(E) /\ Len(<<>>) = 0
  BY EmptySeq
<1>2. DOMAIN <<>> = 1..0
  BY <1>1, LenProperties
<1>3. ToSet(<<>>) = {}
  BY <1>2 DEF ToSet
<1>4. Ascending(<<>>)
  BY <1>1 DEF Ascending
<1> QED BY <1>1, <1>3, <1>4 DEF IsPiece

LEMMA PieceStep ==
  ASSUME NEW E, NEW A, 0 \notin A, NEW es \in [A -> Seq(E)], NEW nx \in [A -> A \cup {0}], NEW lo, Ordered(A, es, nx, lo),
         NEW q \in A, NEW t, nx[q] = 0 => t = <<>>, nx[q] # 0 => IsPiece(t, E, A, es, lo, nx[q])
  PROVE  IsPiece(es[q] \o t, E, A, es, lo, q)
<1> DEFINE s == es[q]
           next == nx[q]
<1>1. s \in Seq(E) /\ t \in Seq(E)
  BY EmptySeq DEF IsPiece
<1>2. /\ Ascending(s) /\ lo[q] \in Int
      /\ \A x \in ToSet(s) : x.key \in Nat /\ lo[q] <= x.key /\ (next # 0 => x.key < lo[next])
      /\ next # 0 => lo[q] < lo[next] /\ next \in A /\ lo[next] \in Int
  BY DEF Ordered
<1>3. Ascending(t)
  BY EmptyPiece DEF IsPiece
<1>4. next = 0 => ToSet(t) = {}
  BY EmptyPiece
<1>5. \A y \in ToSet(t) : /\ next # 0 /\ y.key \in Nat /\ lo[next] <= y.key
                          /\ \E r \in From(A, lo, next) : y \in ToSet(es[r])
  BY <1>4 DEF IsPiece
<1>6. q \in From(A, lo, q) /\ (next # 0 => From(A, lo, next) \subseteq From(A, lo, q))
  <2>1. \A r \in A : lo[r] \in Int
    BY DEF Ordered
  <2> HIDE DEF next
  <2> QED BY <1>2, <2>1 DEF From
<1> HIDE DEF s, next
<1>7. \A x \in ToSet(s) : \A y \in ToSet(t) : x.key < y.key
  BY <1>2, <1>5
<1>8. Ascending(s \o t)
  BY <1>1, <1>2, <1>3, <1>7, ConcatAscending
<1>9. s \o t \in Seq(E) /\ \A x : x \in ToSet(s \o t) <=> x \in ToSet(s) \/ x \in ToSet(t)
  BY <1>1, ConcatSeq
<1>10. ASSUME NEW x, x \in ToSet(s \o t)
       PROVE  x.key \in Nat /\ lo[q] <= x.key /\ \E r \in From(A, lo, q) : x \in ToSet(es[r])
  <2>1. CASE x \in ToSet(s)
    BY <1>2, <1>6, <2>1 DEF s
  <2>2. CASE x \in ToSet(t)
    <3>1. next # 0 /\ x.key \in Nat /\ lo[next] <= x.key
      BY <1>5, <2>2
    <3>2. \E r \in From(A, lo, q) : x \in ToSet(es[r])
      BY <1>5, <1>6, <2>2, <3>1
    <3>3. lo[q] <= x.key
      BY <1>2, <3>1
    <3> QED BY <3>1, <3>2, <3>3
  <2> QED BY <1>9, <1>10, <2>1, <2>2
<1>11. IsPiece(s \o t, E, A, es, lo, q)
  BY <1>8, <1>9, <1>10 DEF IsPiece
<1> QED BY <1>11 DEF s

(* Every chain is a piece. *)
LEMMA ChainsSound ==
  ASSUME NEW E, NEW A, 0 \notin A, NEW es \in [A -> Seq(E)], NEW nx \in [A -> A \cup {0}], NEW lo, Ordered(A, es, nx, lo),
         NEW n \in Nat, NEW g, IsChains(g, A, es, nx, n), NEW m \in 0..n, NEW q \in A
  PROVE  IsPiece(g[m][q], E, A, es, lo, q)
<1> DEFINE S == {i \in 0..n : \A r \in A : IsPiece(g[i][r], E, A, es, lo, r)}
<1>0. /\ \A i \in 0..n : g[i][0] = <<>>
      /\ \A r \in A : g[0][r] = <<>>
      /\ \A i \in 0..(n - 1) : \A r \in A : g[i + 1][r] = es[r] \o g[i][nx[r]]
  <2>1. Chained(g, A, es, nx, n)
    BY ChainsStep
  <2> QED BY <2>1 DEF Chained
<1>1. 0 \in S
  <2>1. 0 \in 0..n
    OBVIOUS
  <2>2. \A r \in A : IsPiece(g[0][r], E, A, es, lo, r)
    BY <1>0, EmptyPiece
  <2> QED BY <2>1, <2>2
<1>2. ASSUME NEW i \in 0..(n - 1), i \in S PROVE i + 1 \in S
  <2>1. i + 1 \in 0..n /\ i \in 0..n
    OBVIOUS
  <2>2. ASSUME NEW r \in A PROVE IsPiece(g[i + 1][r], E, A, es, lo, r)
    <3> DEFINE t == g[i][nx[r]]
    <3>1. nx[r] = 0 => t = <<>>
      BY <1>0, <2>1
    <3>2. nx[r] # 0 => nx[r] \in A
      OBVIOUS
    <3>3. nx[r] # 0 => IsPiece(t, E, A, es, lo, nx[r])
      BY <1>2, <3>2
    <3>4. g[i + 1][r] = es[r] \o t
      BY <1>0
    <3> HIDE DEF t
    <3>5. IsPiece(es[r] \o t, E, A, es, lo, r)
      BY <3>1, <3>3, PieceStep
    <3> QED BY <3>4, <3>5
  <2> QED BY <2>1, <2>2
<1>3. m \in S
  <2>1. \A i \in 0..(n - 1) : i \in S => i + 1 \in S
    BY <1>2
  <2> HIDE DEF S
  <2>2. \A i \in 0..n : i \in S
    BY <1>1, <2>1, BoundedInduction
  <2> QED BY <2>2
<1> QED BY <1>3

(* A chain that is long enough has every entry from its leaf on. *)
LEMMA ChainsComplete ==
  ASSUME NEW E, NEW A, IsFiniteSet(A), 0 \notin A, NEW es \in [A -> Seq(E)], NEW nx \in [A -> A \cup {0}],
         NEW lo, Ordered(A, es, nx, lo), NEW n \in Nat, NEW g, IsChains(g, A, es, nx, n),
         NEW m \in 0..n, NEW q \in A, Cardinality(From(A, lo, q)) <= m, NEW r \in From(A, lo, q)
  PROVE  ToSet(es[r]) \subseteq ToSet(g[m][q])
<1> DEFINE Has(i, p) == \A l \in From(A, lo, p) : ToSet(es[l]) \subseteq ToSet(g[i][p])
           S == {i \in 0..n : \A p \in A : Cardinality(From(A, lo, p)) <= i => Has(i, p)}
<1>0. /\ \A i \in 0..(n - 1) : \A p \in A : g[i + 1][p] = es[p] \o g[i][nx[p]]
      /\ \A i \in 0..n : g[i][0] = <<>>
  <2>1. Chained(g, A, es, nx, n)
    BY ChainsStep
  <2> QED BY <2>1 DEF Chained
<1>a. \A p \in A : IsFiniteSet(From(A, lo, p)) /\ Cardinality(From(A, lo, p)) \in Nat /\ p \in From(A, lo, p)
  <2> SUFFICES ASSUME NEW p \in A
               PROVE  IsFiniteSet(From(A, lo, p)) /\ Cardinality(From(A, lo, p)) \in Nat /\ p \in From(A, lo, p)
    OBVIOUS
  <2>1. From(A, lo, p) \in SUBSET A /\ p \in From(A, lo, p)
    BY DEF From, Ordered
  <2> QED BY <2>1, FS_Subset, FS_CardinalityType
<1>b. \A i \in 0..n : \A p \in A \cup {0} : g[i][p] \in Seq(E)
  <2> SUFFICES ASSUME NEW i \in 0..n, NEW p \in A \cup {0} PROVE g[i][p] \in Seq(E)
    OBVIOUS
  <2>1. CASE p = 0
    BY <1>0, <2>1, EmptySeq
  <2>2. CASE p # 0
    <3>1. IsPiece(g[i][p], E, A, es, lo, p)
      BY <2>2, ChainsSound
    <3> QED BY <3>1 DEF IsPiece
  <2> QED BY <2>1, <2>2
<1>1. 0 \in S
  <2>1. ASSUME NEW p \in A, Cardinality(From(A, lo, p)) <= 0 PROVE FALSE
    <3> DEFINE R == From(A, lo, p)
    <3>1. IsFiniteSet(R) /\ Cardinality(R) \in Nat /\ p \in R /\ Cardinality(R) <= 0
      BY <1>a, <2>1
    <3> HIDE DEF R
    <3>2. Cardinality(R) = 0
      BY <3>1
    <3> QED BY <3>1, <3>2, FS_EmptySet
  <2>2. 0 \in 0..n
    OBVIOUS
  <2> HIDE DEF Has
  <2> QED BY <2>1, <2>2
<1>2. ASSUME NEW i \in 0..(n - 1), i \in S PROVE i + 1 \in S
  <2>1. i + 1 \in 0..n /\ i \in 0..n
    OBVIOUS
  <2>2. ASSUME NEW p \in A, Cardinality(From(A, lo, p)) <= i + 1, NEW l \in From(A, lo, p)
        PROVE  ToSet(es[l]) \subseteq ToSet(g[i + 1][p])
    <3> DEFINE s == es[p]
               t == g[i][nx[p]]
    <3>1. g[i + 1][p] = s \o t /\ s \in Seq(E) /\ t \in Seq(E)
      BY <1>0, <1>b, <2>1
    <3>2. \A x : x \in ToSet(s \o t) <=> x \in ToSet(s) \/ x \in ToSet(t)
      <4> HIDE DEF s, t
      <4> QED BY <3>1, ConcatSeq
    <3>3. CASE l = p
      BY <3>1, <3>2, <3>3
    <3>4. CASE l # p
      <4> DEFINE next == nx[p]
                 R == From(A, lo, p)
                 N == From(A, lo, next)
      <4>1. /\ l \in A /\ lo[p] <= lo[l] /\ lo[p] \in Int /\ lo[l] \in Int /\ lo[p] # lo[l]
            /\ next = 0 => lo[l] <= lo[p]
            /\ next # 0 => lo[p] < lo[next] /\ (lo[p] < lo[l] => lo[next] <= lo[l])
        BY <2>2, <3>4 DEF From, Ordered
      <4>2. lo[p] < lo[l] /\ next # 0 /\ lo[next] <= lo[l] /\ next \in A /\ lo[p] < lo[next]
        BY <4>1
      <4>3. l \in N
        BY <4>1, <4>2 DEF From
      <4>4. N \in SUBSET (R \ {p})
        <5>1. \A k \in A : lo[k] \in Int
          BY DEF Ordered
        <5> HIDE DEF next
        <5>2. \A k \in A : lo[next] <= lo[k] => lo[p] <= lo[k] /\ k # p
          BY <4>2, <5>1
        <5> QED BY <5>2 DEF From
      <4>5. Cardinality(N) <= i
        <5>1. IsFiniteSet(R) /\ Cardinality(R) \in Nat /\ p \in R /\ Cardinality(R) <= i + 1
          BY <1>a, <2>2
        <5> HIDE DEF R, N
        <5>2. IsFiniteSet(R \ {p}) /\ Cardinality(R \ {p}) = Cardinality(R) - 1
          BY <5>1, FS_RemoveElement
        <5>3. Cardinality(N) <= Cardinality(R \ {p}) /\ IsFiniteSet(N)
          BY <4>4, <5>2, FS_Subset
        <5>4. Cardinality(N) \in Nat
          BY <5>3, FS_CardinalityType
        <5> QED BY <5>1, <5>2, <5>3, <5>4
      <4>6. Has(i, next)
        <5> HIDE DEF Has
        <5> QED BY <1>2, <4>2, <4>5
      <4>7. ToSet(es[l]) \subseteq ToSet(t)
        BY <4>3, <4>6
      <4> QED BY <3>1, <3>2, <4>7
    <3> QED BY <3>3, <3>4
  <2> QED BY <2>1, <2>2
<1>3. m \in S
  <2>1. \A i \in 0..(n - 1) : i \in S => i + 1 \in S
    BY <1>2
  <2> HIDE DEF S
  <2>2. \A i \in 0..n : i \in S
    BY <1>1, <2>1, BoundedInduction
  <2> QED BY <2>2
<1>4. Has(m, q)
  <2> HIDE DEF Has
  <2> QED BY <1>3
<1> QED BY <1>4

(* The entries and the links of the leaves. *)
LeafEs == [q \in Leaves(pages) |-> pages[q].entries]
LeafNx == [q \in Leaves(pages) |-> pages[q].next]
Stock == UNION {ToSet(pages[q].entries) : q \in Leaves(pages)}

LEMMA LeafLists ==
  ASSUME ShapeOK
  PROVE  /\ 0 \notin Leaves(pages)
         /\ LeafEs \in [Leaves(pages) -> Seq(Stock)]
         /\ LeafNx \in [Leaves(pages) -> Leaves(pages) \cup {0}]
<1>1. \A q \in Leaves(pages) : pages[q].next \in Leaves(pages) \cup {0} /\ q \in 1..Len(pages) /\ IsLeaf(pages[q])
  BY ShapeFacts
<1>2. ASSUME NEW q \in Leaves(pages) PROVE pages[q].entries \in Seq(Stock)
  <2> DEFINE s == pages[q].entries
  <2>1. s \in Seq(ToSet(s))
    BY <1>1 DEF IsLeaf, IsEntries
  <2>2. ToSet(s) \subseteq Stock
    BY DEF Stock
  <2> HIDE DEF s
  <2>3. s \in Seq(Stock)
    BY <2>1, <2>2, SeqMonotonic
  <2> QED BY <2>3 DEF s
<1> QED BY <1>1, <1>2 DEF LeafEs, LeafNx

LEMMA LeavesOrdered ==
  ASSUME ShapeOK, NEW lo, NEW lev, TreeSound(lo, lev, root, pages)
  PROVE  Ordered(Leaves(pages), LeafEs, LeafNx, lo)
<1> DEFINE A == Leaves(pages)
           n == Len(pages)
<1>1. \A q \in A : q \in 1..n /\ lev[q] = 0 /\ q \in PageIds
  BY GroundLevel, ShapeFacts
<1>2. \A q \in A : lo[q] \in Int
  BY <1>1 DEF TreeSound, IsBounds
<1>3. ASSUME NEW q \in A
      PROVE  /\ LeafEs[q] = pages[q].entries /\ LeafNx[q] = pages[q].next
             /\ LeafSound(lo, lev, n, q, pages[q]) /\ pages[q].next \in A \cup {0} /\ Ascending(pages[q].entries)
  <2>1. LeafSound(lo, lev, n, q, pages[q])
    BY <1>1, GroundLevel
  <2>2. pages[q].next \in A \cup {0} /\ IsLeaf(pages[q])
    BY ShapeFacts
  <2>3. Ascending(pages[q].entries)
    BY <2>2 DEF IsLeaf, IsEntries, Sorted, Ascending
  <2> QED BY <2>1, <2>2, <2>3 DEF LeafEs, LeafNx
<1>4. ASSUME NEW q \in A, NEW x \in ToSet(pages[q].entries)
      PROVE  x.key \in Nat /\ lo[q] <= x.key /\ (pages[q].next # 0 => x.key < lo[pages[q].next])
  <2> DEFINE next == pages[q].next
  <2>1. Within(lo, lev, n, q, x.key) /\ x.key \in Nat
    BY LeafKeys
  <2>2. NextSound(lo, lev, n, q, next) /\ next \in A \cup {0}
    BY <1>3 DEF LeafSound
  <2>3. next # 0 => next \in 1..n /\ lev[next] = lev[q] /\ lo[q] < lo[next]
    BY <1>1, <2>2 DEF NextSound
  <2> QED BY <2>1, <2>3 DEF Within
<1>5. ASSUME NEW q \in A, NEW r \in A
      PROVE  /\ lo[q] = lo[r] => q = r
             /\ pages[q].next = 0 => lo[r] <= lo[q]
             /\ pages[q].next # 0 => lo[q] < lo[pages[q].next] /\ (lo[q] < lo[r] => lo[pages[q].next] <= lo[r])
  <2> DEFINE next == pages[q].next
  <2>1. q \in 1..n /\ r \in 1..n /\ lev[q] = 0 /\ lev[r] = 0
    BY <1>1
  <2>2. Apart(lo, lev, n)
    BY DEF TreeSound
  <2>3. NextSound(lo, lev, n, q, next)
    BY <1>3 DEF LeafSound
  <2> HIDE DEF n, next
  <2>4. lo[q] = lo[r] => q = r
    BY <2>1, <2>2 DEF Apart
  <2>5. /\ next = 0 => lo[r] <= lo[q]
        /\ next # 0 => lo[q] < lo[next] /\ (lo[q] < lo[r] => lo[next] <= lo[r])
    BY <2>1, <2>3 DEF NextSound
  <2> QED BY <2>4, <2>5 DEF next
<1> HIDE DEF A
<1>6. \A q \in A : LeafEs[q] = pages[q].entries /\ LeafNx[q] = pages[q].next /\ Ascending(pages[q].entries)
  BY <1>3
<1>7. \A q \in A : \A x \in ToSet(pages[q].entries) :
        x.key \in Nat /\ lo[q] <= x.key /\ (pages[q].next # 0 => x.key < lo[pages[q].next])
  BY <1>4
<1>8. \A q \in A : /\ lo[q] \in Int /\ Ascending(LeafEs[q])
                   /\ \A x \in ToSet(LeafEs[q]) : x.key \in Nat /\ lo[q] <= x.key /\ (LeafNx[q] # 0 => x.key < lo[LeafNx[q]])
  BY <1>2, <1>6, <1>7
<1>9. \A q, r \in A : /\ lo[q] = lo[r] => q = r
                      /\ LeafNx[q] = 0 => lo[r] <= lo[q]
                      /\ LeafNx[q] # 0 => lo[q] < lo[LeafNx[q]] /\ (lo[q] < lo[r] => lo[LeafNx[q]] <= lo[r])
  BY <1>5, <1>6
<1>10. Ordered(A, LeafEs, LeafNx, lo)
  BY <1>8, <1>9 DEF Ordered
<1> QED BY <1>10 DEF A

(* There are no more leaves than pages. *)
LEMMA FewLeaves ==
  ASSUME ShapeOK, NEW lo, NEW q
  PROVE  IsFiniteSet(Leaves(pages)) /\ Cardinality(From(Leaves(pages), lo, q)) <= Len(pages)
<1> DEFINE n == Len(pages)
           D == 1..n
           R == From(Leaves(pages), lo, q)
<1>1. n \in Nat /\ Leaves(pages) \in SUBSET D /\ R \in SUBSET D
  BY ShapeFacts DEF From, Leaves
<1> HIDE DEF R, n
<1>2. 1 \in Int /\ n \in Int
  BY <1>1
<1>3. IsFiniteSet(1..n) /\ Cardinality(1..n) = IF 1 > n THEN 0 ELSE n - 1 + 1
  BY <1>2, FS_Interval
<1>4. IsFiniteSet(D) /\ Cardinality(D) = n
  BY <1>1, <1>3
<1> HIDE DEF D
<1>5. IsFiniteSet(Leaves(pages)) /\ IsFiniteSet(R) /\ Cardinality(R) <= Cardinality(D)
  BY <1>1, <1>4, FS_Subset
<1> QED BY <1>4, <1>5 DEF R, n

(* Chain is the last one of its chains. *)
LEMMA ChainIs ==
  ASSUME ShapeOK, NEW p, NEW n \in Nat
  PROVE  \E g : IsChains(g, Leaves(pages), LeafEs, LeafNx, n) /\ Chain(p, n) = g[n][p]
<1> DEFINE A == Leaves(pages)
           leaves == {q \in DOMAIN pages : pages[q].kind = "leaf"}
           Eq(g) == g = [m \in 0..n |-> [q \in leaves \cup {0} |->
                           IF q = 0 \/ m = 0 THEN <<>> ELSE pages[q].entries \o g[m - 1][pages[q].next]]]
           from == CHOOSE g : Eq(g)
<1>1. leaves = A
  BY ShapeFacts DEF Leaves
<1>2. Chain(p, n) = from[n][p]
  BY DEF Chain
<1>3. \A g : Eq(g) <=> IsChains(g, A, LeafEs, LeafNx, n)
  <2> SUFFICES ASSUME NEW g
      PROVE  [m \in 0..n |-> [q \in leaves \cup {0} |->
                IF q = 0 \/ m = 0 THEN <<>> ELSE pages[q].entries \o g[m - 1][pages[q].next]]]
             = [m \in 0..n |-> [q \in A \cup {0} |-> IF q = 0 \/ m = 0 THEN <<>> ELSE LeafEs[q] \o g[m - 1][LeafNx[q]]]]
    BY DEF IsChains
  <2>1. \A q \in A : LeafEs[q] = pages[q].entries /\ LeafNx[q] = pages[q].next
    BY DEF LeafEs, LeafNx
  <2>2. \A m \in 0..n : \A q \in A \cup {0} :
          (IF q = 0 \/ m = 0 THEN <<>> ELSE pages[q].entries \o g[m - 1][pages[q].next])
          = (IF q = 0 \/ m = 0 THEN <<>> ELSE LeafEs[q] \o g[m - 1][LeafNx[q]])
    BY <2>1
  <2> HIDE DEF A, leaves
  <2>3. \A m \in 0..n :
          [q \in A \cup {0} |-> IF q = 0 \/ m = 0 THEN <<>> ELSE pages[q].entries \o g[m - 1][pages[q].next]]
          = [q \in A \cup {0} |-> IF q = 0 \/ m = 0 THEN <<>> ELSE LeafEs[q] \o g[m - 1][LeafNx[q]]]
    BY <2>2
  <2> QED BY <1>1, <2>3
<1>4. \E g : IsChains(g, A, LeafEs, LeafNx, n)
  <2>1. 0 \notin A /\ LeafEs \in [A -> Seq(Stock)] /\ LeafNx \in [A -> A \cup {0}]
    BY LeafLists
  <2> HIDE DEF A
  <2> QED BY <2>1, ChainsExist
<1> HIDE DEF A
<1>5. Eq(from)
  <2>1. \E g : Eq(g)
    BY <1>3, <1>4
  <2> HIDE DEF Eq
  <2> QED BY <2>1
<1>6. IsChains(from, A, LeafEs, LeafNx, n)
  <2> HIDE DEF Eq, from
  <2> QED BY <1>3, <1>5
<1> HIDE DEF from
<1> QED BY <1>2, <1>6 DEF A

(* What a chain holds. *)
LEMMA ChainHolds ==
  ASSUME ShapeOK, NEW lo, NEW lev, TreeSound(lo, lev, root, pages), NEW p \in Leaves(pages)
  PROVE  /\ Ascending(Chain(p, Len(pages)))
         /\ \A x \in ToSet(Chain(p, Len(pages))) : \E r \in Leaves(pages) : x \in ToSet(pages[r].entries)
         /\ \A r \in Leaves(pages) : lo[p] <= lo[r] => ToSet(pages[r].entries) \subseteq ToSet(Chain(p, Len(pages)))
<1> DEFINE A == Leaves(pages)
           n == Len(pages)
<1>1. PICK g : IsChains(g, A, LeafEs, LeafNx, n) /\ Chain(p, n) = g[n][p]
  <2>1. n \in Nat
    BY ShapeFacts
  <2> QED BY <2>1, ChainIs
<1>2. 0 \notin A /\ LeafEs \in [A -> Seq(Stock)] /\ LeafNx \in [A -> A \cup {0}] /\ \A q \in A : LeafEs[q] = pages[q].entries
  BY LeafLists DEF LeafEs
<1>3. Ordered(A, LeafEs, LeafNx, lo)
  BY LeavesOrdered
<1>4. IsFiniteSet(A) /\ Cardinality(From(A, lo, p)) <= n
  BY FewLeaves
<1>5. n \in Nat /\ n \in 0..n /\ p \in A
  BY ShapeFacts
<1> HIDE DEF A, n
<1>6. IsPiece(g[n][p], Stock, A, LeafEs, lo, p)
  BY <1>1, <1>2, <1>3, <1>5, ChainsSound
<1>7. ASSUME NEW r \in A, lo[p] <= lo[r] PROVE ToSet(pages[r].entries) \subseteq ToSet(g[n][p])
  <2>1. r \in From(A, lo, p)
    BY <1>7 DEF From
  <2>2. ToSet(LeafEs[r]) \subseteq ToSet(g[n][p])
    BY <1>1, <1>2, <1>3, <1>4, <1>5, <2>1, ChainsComplete
  <2> QED BY <1>2, <2>2
<1>8. Ascending(g[n][p])
  BY <1>6 DEF IsPiece
<1>9. \A x \in ToSet(g[n][p]) : \E r \in A : x \in ToSet(pages[r].entries)
  BY <1>2, <1>6 DEF IsPiece, From
<1> QED BY <1>1, <1>7, <1>8, <1>9 DEF A, n

(* The chain of one leaf. *)
LEMMA ChainOne ==
  ASSUME ShapeOK, NEW p \in Leaves(pages)
  PROVE  ToSet(pages[p].entries) \subseteq ToSet(Chain(p, 1))
<1> DEFINE A == Leaves(pages)
<1>1. PICK g : IsChains(g, A, LeafEs, LeafNx, 1) /\ Chain(p, 1) = g[1][p]
  BY ChainIs
<1>2. 0 \notin A /\ LeafEs \in [A -> Seq(Stock)] /\ LeafNx \in [A -> A \cup {0}] /\ LeafEs[p] = pages[p].entries
      /\ p \in A
  BY LeafLists DEF LeafEs
<1> HIDE DEF A
<1>3. Chained(g, A, LeafEs, LeafNx, 1)
  BY <1>1, <1>2, ChainsStep
<1>4. g[1][p] = LeafEs[p] \o g[0][LeafNx[p]] /\ g[0][LeafNx[p]] = <<>>
  <2>1. 0 \in 0..(1 - 1) /\ 0 + 1 = 1 /\ 0 \in 0..1
    OBVIOUS
  <2>2. g[0 + 1][p] = LeafEs[p] \o g[0][LeafNx[p]]
    BY <1>2, <1>3, <2>1 DEF Chained
  <2>3. g[0][LeafNx[p]] = <<>>
    BY <1>2, <1>3, <2>1 DEF Chained
  <2> QED BY <2>1, <2>2, <2>3
<1>5. LeafEs[p] \in Seq(Stock) /\ <<>> \in Seq(Stock)
  BY <1>2, EmptySeq
<1>6. \A x : x \in ToSet(LeafEs[p]) => x \in ToSet(LeafEs[p] \o <<>>)
  BY <1>5, ConcatSeq
<1> QED BY <1>1, <1>2, <1>4, <1>6

(* The chain from the first leaf holds what the index holds. *)
LEMMA SoundChain ==
  ASSUME TreeInv
  PROVE  ChainExact
<1> USE DEF TreeInv
<1> SUFFICES ASSUME Intact
             PROVE  /\ root = 0 => index = {}
                    /\ root # 0 => LET chain == Chain(LeafFor(-1), Len(pages))
                                   IN  Ascending(chain) /\ ToSet(chain) = index
  BY DEF ChainExact
<1>1. PICK lo, lev : Bounds(lo, lev)
  BY DEF Sound
<1>2. TreeSound(lo, lev, root, pages) /\ Stored
  BY <1>1 DEF Bounds
<1>3. ASSUME root = 0 PROVE index = {}
  <2>1. Leaves(pages) = {}
    <3>1. Len(pages) = 0
      BY <1>3 DEF ShapeOK, TreeOK
    <3> QED BY <3>1 DEF Leaves
  <2> QED BY <1>2, <2>1 DEF Stored
<1>4. ASSUME root # 0
      PROVE  LET chain == Chain(LeafFor(-1), Len(pages)) IN Ascending(chain) /\ ToSet(chain) = index
  <2> DEFINE k == -1
             p == LeafFor(k)
             chain == Chain(p, Len(pages))
  <2>1. k \in Int /\ k >= -1 /\ k = -1
    OBVIOUS
  <2> HIDE DEF k
  <2>2. p \in Leaves(pages) /\ lo[p] <= k
    BY <1>2, <1>4, <2>1, LeafForBegins
  <2> HIDE DEF p
  <2>3. ASSUME NEW r \in Leaves(pages) PROVE lo[p] <= lo[r]
    <3>1. p \in PageIds /\ r \in PageIds
      BY <2>2, ShapeFacts
    <3>2. lo[p] \in Int /\ lo[r] \in Int /\ lo[r] >= -1
      BY <1>2, <3>1 DEF TreeSound, IsBounds
    <3> QED BY <2>1, <2>2, <3>2
  <2>4. /\ Ascending(chain)
        /\ \A x \in ToSet(chain) : \E r \in Leaves(pages) : x \in ToSet(pages[r].entries)
        /\ \A r \in Leaves(pages) : ToSet(pages[r].entries) \subseteq ToSet(chain)
    BY <1>2, <2>2, <2>3, ChainHolds
  <2> HIDE DEF chain
  <2>5. ToSet(chain) = index
    BY <1>2, <2>4 DEF Stored
  <2> QED BY <2>4, <2>5 DEF chain, p, k
<1> QED BY <1>3, <1>4

(* A descent reaches the entry of its key. *)
LEMMA SoundDescent ==
  ASSUME TreeInv
  PROVE  DescentReaches
<1> USE DEF TreeInv
<1> SUFFICES ASSUME Intact, root # 0, NEW e \in index
             PROVE  LET leaf == LeafFor(e.key)
                        n    == IF Unfinished \/ torn THEN Len(pages) ELSE 1
                    IN  e \in ToSet(Chain(leaf, n))
  BY DEF DescentReaches
<1>1. PICK lo, lev : Bounds(lo, lev)
  BY DEF Sound
<1>2. TreeSound(lo, lev, root, pages) /\ Stored
  BY <1>1 DEF Bounds
<1>3. PICK r \in Leaves(pages) : e \in ToSet(pages[r].entries)
  BY <1>2 DEF Stored
<1> DEFINE k == e.key
           leaf == LeafFor(k)
<1>4. Within(lo, lev, Len(pages), r, k) /\ k \in Nat
  BY <1>2, <1>3, LeafKeys
<1> HIDE DEF k
<1>5. k \in Int /\ k >= -1
  BY <1>4
<1>6. leaf \in Leaves(pages) /\ lo[leaf] <= k
  BY <1>2, <1>5, LeafForBegins
<1>7. ASSUME Unfinished \/ torn PROVE e \in ToSet(Chain(leaf, Len(pages)))
  <2> HIDE DEF leaf
  <2>1. leaf \in 1..Len(pages) /\ r \in 1..Len(pages) /\ lev[leaf] = 0 /\ lev[r] = 0
    BY <1>2, <1>6, GroundLevel, ShapeFacts
  <2>2. lo[leaf] \in Int /\ lo[r] \in Int
    BY <1>2, <2>1, ShapeFacts DEF TreeSound, IsBounds
  <2>3. lo[leaf] <= lo[r]
    <3>1. lo[r] < lo[leaf] => k < lo[leaf]
      BY <1>4, <2>1 DEF Within
    <3> QED BY <1>5, <1>6, <2>2, <3>1
  <2>4. \A q \in Leaves(pages) : lo[leaf] <= lo[q] => ToSet(pages[q].entries) \subseteq ToSet(Chain(leaf, Len(pages)))
    BY <1>2, <1>6, ChainHolds
  <2> QED BY <1>3, <2>3, <2>4
<1>8. ASSUME ~(Unfinished \/ torn) PROVE e \in ToSet(Chain(leaf, 1))
  <2>1. Within(lo, lev, Len(pages), leaf, k)
    BY <1>1, <1>5, <1>8, LeafForReaches
  <2> HIDE DEF leaf
  <2>2. leaf = r
    BY <1>2, <1>4, <1>5, <1>6, <2>1, LeafUnique
  <2>3. ToSet(pages[leaf].entries) \subseteq ToSet(Chain(leaf, 1))
    BY <1>6, ChainOne
  <2> QED BY <1>3, <2>2, <2>3
<1> QED BY <1>7, <1>8 DEF leaf, k

(* In every state, inside splits and after failed ones, the leaves linked  *)
(* from the first one on hold exactly the entries that insert put in and   *)
(* delete did not take out, in ascending order.                            *)
THEOREM ChainIsExact == Spec => []ChainExact
<1>1. TreeInv => ChainExact
  BY SoundChain
<1> QED BY <1>1, TreeInvInductive, PTL DEF Spec

(* find_leaf_page ends at the leaf of the key, or, while a split is on its *)
(* way up or failed on it, at a leaf whose next_page links lead there.     *)
THEOREM DescentsReach == Spec => []DescentReaches
<1>1. TreeInv => DescentReaches
  BY SoundDescent
<1> QED BY <1>1, TreeInvInductive, PTL DEF Spec

-----------------------------------------------------------------------------
(* What the calls answer *)

KeyIn(tk) == key_from_bytes(tk.call.key)

(* A call on the way to the leaf of its key, or there. *)
Searching(tk) ==
  \/ tk.pc \in {"get", "delete"}
  \/ tk.pc = "descend" /\ tk.call.op # "insert"
  \/ tk.pc = "scan" /\ tk.first

SearchSound(lo, lev, n, tk, calm) ==
  Searching(tk) => lo[tk.cur] <= KeyIn(tk) /\ (calm => Within(lo, lev, n, tk.cur, KeyIn(tk)))

(* What a scan has given. *)
Gives(tk, my, calm) ==
  /\ IsSeq(tk.out) /\ Ascending(tk.out)
  /\ \A e \in ToSet(tk.out) : /\ e \in my /\ e.key \in Nat
                              /\ ~\E b \in tk.call.end : e.key > key_from_bytes(b)
                              /\ calm => KeyIn(tk) <= e.key

(* A scan gave what lies before its leaf. *)
ScanSound(lo, tk, mst, my, calm) ==
  tk.pc = "scan" =>
    /\ Gives(tk, my, calm)
    /\ tk.first => tk.out = <<>>
    /\ ~tk.first => (calm => KeyIn(tk) < lo[tk.cur]) /\ \A e \in ToSet(tk.out) : e.key < lo[tk.cur]
    /\ tk.call.end = {} => \A e \in mst : KeyIn(tk) <= e.key => e \in ToSet(tk.out) \/ lo[tk.cur] <= e.key

ScanOK(tk, mst, my, calm) ==
  tk.pc = "done" /\ tk.call.op = "scan" /\ tk.res = "ok" =>
    /\ Gives(tk, my, calm)
    /\ tk.call.end = {} => \A e \in mst : KeyIn(tk) <= e.key => e \in ToSet(tk.out)

(* What a split put in and a merging delete took out was there. *)
PutOK(tk, my) ==
  tk.pc \in {"sibling", "ancestors", "merge", "survivor", "removed"} => LeafEntry(KeyIn(tk), tk.call.rid) \in my

FreshOK(tk) == tk.pc \in {"root", "descend"} => tk.first /\ tk.out = <<>>

AnswerOK(tk, mst, my, calm) ==
  LET did(op) == tk.pc = "done" /\ tk.call.op = op
  IN  /\ did("get") /\ tk.res = "ok" => LeafEntry(KeyIn(tk), tk.out[1]) \in my
      /\ did("get") /\ tk.res = "TupleNonExistent" /\ calm => \A e \in mst : e.key # KeyIn(tk)
      /\ did("delete") /\ tk.res = "ok" => LeafEntry(KeyIn(tk), tk.call.rid) \in my
      /\ did("delete") /\ tk.res = "TupleNonExistent" /\ calm => LeafEntry(KeyIn(tk), tk.call.rid) \notin mst
      /\ did("insert") /\ tk.res = "PageCorruption" => \E e \in my : e.key = KeyIn(tk)

CallSound(lo, lev, n, tk, mst, my, calm) ==
  /\ SearchSound(lo, lev, n, tk, calm) /\ ScanSound(lo, tk, mst, my, calm)
  /\ ScanOK(tk, mst, my, calm) /\ PutOK(tk, my) /\ FreshOK(tk) /\ AnswerOK(tk, mst, my, calm)

(* What is known of a call stays true. *)
LEMMA CallKept ==
  ASSUME NEW lo, NEW lev, NEW n \in Nat, NEW tk, NEW mst, NEW my, NEW calm \in BOOLEAN,
         NEW lo2, NEW lev2, NEW n2, NEW mst2, NEW my2, NEW calm2 \in BOOLEAN,
         CallSound(lo, lev, n, tk, mst, my, calm), Same(lo, lev, n, lo2, lev2),
         tk.pc \in AtPage => tk.cur \in 1..n,
         mst2 \subseteq mst, my \subseteq my2, calm2 => calm, calm2 /\ Searching(tk) => n2 = n
  PROVE  CallSound(lo2, lev2, n2, tk, mst2, my2, calm2)
<1>1. tk.pc \in AtPage => lo2[tk.cur] = lo[tk.cur]
  BY DEF Same
<1>2. SearchSound(lo2, lev2, n2, tk, calm2)
  <2> SUFFICES ASSUME Searching(tk)
               PROVE  lo2[tk.cur] <= KeyIn(tk) /\ (calm2 => Within(lo2, lev2, n2, tk.cur, KeyIn(tk)))
    BY DEF SearchSound
  <2>1. tk.pc \in AtPage
    BY DEF Searching, AtPage
  <2>2. lo[tk.cur] <= KeyIn(tk) /\ (calm => Within(lo, lev, n, tk.cur, KeyIn(tk)))
    BY DEF CallSound, SearchSound
  <2>3. ASSUME calm2 PROVE Within(lo2, lev2, n2, tk.cur, KeyIn(tk))
    <3>1. Within(lo, lev, n, tk.cur, KeyIn(tk)) /\ n2 = n /\ tk.cur \in 1..n
      BY <2>1, <2>2, <2>3
    <3> QED BY <3>1 DEF Within, Same
  <2> QED BY <1>1, <2>1, <2>2, <2>3
<1>3. Gives(tk, my, calm) => Gives(tk, my2, calm2)
  BY DEF Gives
<1>4. ScanSound(lo2, tk, mst2, my2, calm2)
  <2> SUFFICES ASSUME tk.pc = "scan" PROVE ScanSound(lo2, tk, mst2, my2, calm2)
    BY DEF ScanSound
  <2>1. lo2[tk.cur] = lo[tk.cur]
    BY <1>1 DEF AtPage
  <2>2. ScanSound(lo, tk, mst, my, calm)
    BY DEF CallSound
  <2> QED BY <1>3, <2>1, <2>2 DEF ScanSound
<1>5. ScanOK(tk, mst2, my2, calm2)
  BY <1>3 DEF CallSound, ScanOK
<1>6. PutOK(tk, my2) /\ FreshOK(tk)
  BY DEF CallSound, PutOK
<1>7. AnswerOK(tk, mst2, my2, calm2)
  <2>1. AnswerOK(tk, mst, my, calm)
    BY DEF CallSound
  <2> QED BY <2>1 DEF AnswerOK
<1> QED BY <1>2, <1>4, <1>5, <1>6, <1>7 DEF CallSound

(* The history. *)
Seen ==
  /\ DOMAIN must = Workers /\ DOMAIN may = Workers /\ DOMAIN moved = Workers
  /\ \A w \in Workers : ~Idle(w) => index \subseteq may[w] /\ must[w] \subseteq index

Calm == \A w \in Workers : ~Idle(w) /\ ~moved[w] => ~Unfinished

Sure(w) == ~torn /\ ~moved[w]

HistKept(v) ==
  /\ may[v] \subseteq may'[v] /\ must'[v] \subseteq must[v] /\ (moved[v] => moved'[v])
  /\ ~Idle(v) => must'[v] \subseteq index' /\ index' \subseteq may'[v]

HistDomains == DOMAIN must' = Workers /\ DOMAIN may' = Workers /\ DOMAIN moved' = Workers

LEMMA ObserveKept ==
  ASSUME Seen, NEW E, Observe(E) \/ (NoChange /\ E = index), Splits \/ UNCHANGED moved
  PROVE  (\A v \in Workers : HistKept(v)) /\ HistDomains /\ index' = E
<1>1. /\ DOMAIN moved' = Workers /\ \A v \in Workers : moved[v] => moved'[v]
  <2>1. CASE Splits
    BY <2>1 DEF Splits
  <2>2. CASE UNCHANGED moved
    BY <2>2 DEF Seen
  <2> QED BY <2>1, <2>2
<1>2. CASE NoChange /\ E = index
  BY <1>1, <1>2 DEF NoChange, Seen, HistKept, HistDomains
<1>3. CASE Observe(E)
  <2>1. /\ index' = E /\ DOMAIN must' = Workers /\ DOMAIN may' = Workers
        /\ \A v \in Workers : must'[v] = (IF Idle(v) THEN must[v] ELSE must[v] \cap E)
        /\ \A v \in Workers : may'[v] = (IF Idle(v) THEN may[v] ELSE may[v] \cup E)
    BY <1>3 DEF Observe
  <2> QED BY <1>1, <2>1 DEF HistKept, HistDomains
<1> QED BY <1>2, <1>3

(* A split that moved something is known to the calls that run. *)
LEMMA SplitsMoved ==
  ASSUME Splits, NEW v \in Workers, ~Idle(v)
  PROVE  moved'[v]
BY DEF Splits

(* A step of w for the other calls. *)
Alone(w) ==
  /\ \A v \in Workers : HistKept(v)
  /\ HistDomains
  /\ torn => torn'
  /\ \A v \in Workers \ {w} : task'[v] = task[v]

LEMMA ReturnAlone ==
  ASSUME ShapeOK, NEW w \in Workers, NEW res, NEW out, Return(w, res, out)
  PROVE  /\ \A v \in Workers \ {w} : task'[v] = task[v]
         /\ task'[w] = Finished(task[w].call, res, out)
<1>1. DOMAIN task = Workers
  BY TaskFacts
<1> QED BY <1>1 DEF Return, Finished

LEMMA PlainAlone ==
  ASSUME ShapeOK, Seen, NEW w \in Workers, UNCHANGED <<index, must, may, moved>>, torn => torn',
         \A v \in Workers \ {w} : task'[v] = task[v]
  PROVE  Alone(w)
<1>1. (\A v \in Workers : HistKept(v)) /\ HistDomains
  BY ObserveKept DEF NoChange
<1> QED BY <1>1 DEF Alone

LEMMA ReadAlone ==
  ASSUME ShapeOK, Seen, NEW w \in Workers,
         ReadRoot(w) \/ Descend(w) \/ Get(w) \/ ScanLeaf(w) \/ MergeParent(w) \/ MergeSurvivor(w)
           \/ CrabInner(w) \/ SplitSibling(w) \/ NewRoot(w) \/ ParentInsert(w) \/ Fail(w)
  PROVE  Alone(w)
<1>0. DOMAIN task = Workers
  BY TaskFacts
<1>2. CASE ReadRoot(w)
  <2>1. UNCHANGED <<index, must, may, moved, torn>>
    BY <1>2 DEF ReadRoot, histVars
  <2>2. \A v \in Workers \ {w} : task'[v] = task[v]
    BY <1>0, <1>2 DEF ReadRoot, Return
  <2> QED BY <2>1, <2>2, PlainAlone
<1>3. CASE Descend(w)
  <2>1. UNCHANGED <<index, must, may, moved, torn>>
    BY <1>3 DEF Descend, histVars
  <2>2. \A v \in Workers \ {w} : task'[v] = task[v]
    BY <1>0, <1>3 DEF Descend
  <2> QED BY <2>1, <2>2, PlainAlone
<1>4. CASE Get(w)
  <2>1. UNCHANGED <<index, must, may, moved, torn>>
    BY <1>4 DEF Get, histVars
  <2>2. \A v \in Workers \ {w} : task'[v] = task[v]
    BY <1>0, <1>4 DEF Get, Return
  <2> QED BY <2>1, <2>2, PlainAlone
<1>5. CASE ScanLeaf(w)
  <2>1. UNCHANGED <<index, must, may, moved, torn>>
    BY <1>5 DEF ScanLeaf, histVars
  <2>2. \A v \in Workers \ {w} : task'[v] = task[v]
    BY <1>0, <1>5 DEF ScanLeaf, Return
  <2> QED BY <2>1, <2>2, PlainAlone
<1>6. CASE MergeParent(w)
  <2>1. UNCHANGED <<index, must, may, moved, torn>>
    BY <1>6 DEF MergeParent, histVars
  <2>2. \A v \in Workers \ {w} : task'[v] = task[v]
    BY <1>0, <1>6 DEF MergeParent, Return
  <2> QED BY <2>1, <2>2, PlainAlone
<1>7. CASE MergeSurvivor(w)
  <2>1. UNCHANGED <<index, must, may, moved, torn>>
    BY <1>7 DEF MergeSurvivor, histVars
  <2>2. \A v \in Workers \ {w} : task'[v] = task[v]
    BY <1>0, <1>7 DEF MergeSurvivor
  <2> QED BY <2>1, <2>2, PlainAlone
<1>8. CASE CrabInner(w)
  <2>1. UNCHANGED <<index, must, may, moved, torn>>
    BY <1>8 DEF CrabInner
  <2>2. \A v \in Workers \ {w} : task'[v] = task[v]
    BY <1>0, <1>8 DEF CrabInner
  <2> QED BY <2>1, <2>2, PlainAlone
<1>9. CASE SplitSibling(w)
  <2>1. UNCHANGED <<index, must, may, moved, torn>>
    BY <1>9 DEF SplitSibling, histVars
  <2>2. \A v \in Workers \ {w} : task'[v] = task[v]
    BY <1>0, <1>9 DEF SplitSibling
  <2> QED BY <2>1, <2>2, PlainAlone
<1>10. CASE NewRoot(w)
  <2>1. UNCHANGED <<index, must, may, moved, torn>>
    BY <1>10 DEF NewRoot, histVars
  <2>2. \A v \in Workers \ {w} : task'[v] = task[v]
    BY <1>0, <1>10 DEF NewRoot, Return
  <2> QED BY <2>1, <2>2, PlainAlone
<1>11. CASE ParentInsert(w)
  <2>1. UNCHANGED <<index, must, may, moved>>
    BY <1>11 DEF ParentInsert
  <2>2. \A v \in Workers \ {w} : task'[v] = task[v]
    BY <1>0, <1>11 DEF ParentInsert, Return
  <2>3. torn => torn'
    BY <1>11 DEF ParentInsert
  <2> QED BY <2>1, <2>2, <2>3, PlainAlone
<1>12. CASE Fail(w)
  <2>1. UNCHANGED <<index, must, may, moved>>
    BY <1>12 DEF Fail
  <2>2. \A v \in Workers \ {w} : task'[v] = task[v]
    BY <1>0, <1>12 DEF Fail, Return
  <2>3. torn => torn'
    BY <1>12 DEF Fail
  <2> QED BY <2>1, <2>2, <2>3, PlainAlone
<1> QED BY <1>2, <1>3, <1>4, <1>5, <1>6, <1>7, <1>8, <1>9, <1>10, <1>11, <1>12

LEMMA WriteAlone ==
  ASSUME ShapeOK, Seen, NEW w \in Workers,
         FirstInsert(w) \/ LeafInsert(w) \/ LeafSplit(w) \/ ParentSplit(w) \/ DeleteLeaf(w)
  PROVE  Alone(w)
<1>0. DOMAIN task = Workers
  BY TaskFacts
<1>1. ASSUME NEW E, Observe(E) \/ (NoChange /\ E = index), Splits \/ UNCHANGED moved, torn => torn',
             \A v \in Workers \ {w} : task'[v] = task[v]
      PROVE  Alone(w)
  <2>1. (\A v \in Workers : HistKept(v)) /\ HistDomains
    BY <1>1, ObserveKept
  <2> QED BY <1>1, <2>1 DEF Alone
<1>2. CASE FirstInsert(w)
  <2>1. PICK E : Observe(E)
    BY <1>2 DEF FirstInsert
  <2>2. UNCHANGED <<moved, torn>>
    BY <1>2 DEF FirstInsert
  <2>3. \A v \in Workers \ {w} : task'[v] = task[v]
    BY <1>0, <1>2 DEF FirstInsert, Return
  <2> QED BY <1>1, <2>1, <2>2, <2>3
<1>3. CASE LeafInsert(w)
  <2>1. PICK E : Observe(E) \/ (NoChange /\ E = index)
    BY <1>3 DEF LeafInsert
  <2>2. UNCHANGED <<moved, torn>>
    BY <1>3 DEF LeafInsert
  <2>3. \A v \in Workers \ {w} : task'[v] = task[v]
    BY <1>0, <1>3 DEF LeafInsert, Return
  <2> QED BY <1>1, <2>1, <2>2, <2>3
<1>4. CASE LeafSplit(w)
  <2>1. PICK E : Observe(E) \/ (NoChange /\ E = index)
    BY <1>4 DEF LeafSplit
  <2>2. UNCHANGED torn /\ (Splits \/ UNCHANGED moved)
    BY <1>4 DEF LeafSplit
  <2>3. \A v \in Workers \ {w} : task'[v] = task[v]
    BY <1>0, <1>4 DEF LeafSplit, Return
  <2> QED BY <1>1, <2>1, <2>2, <2>3
<1>5. CASE ParentSplit(w)
  <2>1. NoChange
    BY <1>5 DEF ParentSplit, NoChange
  <2>2. (torn => torn') /\ (Splits \/ UNCHANGED moved)
    BY <1>5 DEF ParentSplit
  <2>3. \A v \in Workers \ {w} : task'[v] = task[v]
    BY <1>0, <1>5 DEF ParentSplit, Return
  <2> QED BY <1>1, <2>1, <2>2, <2>3
<1>6. CASE DeleteLeaf(w)
  <2>1. PICK E : Observe(E) \/ (NoChange /\ E = index)
    BY <1>6 DEF DeleteLeaf
  <2>2. UNCHANGED <<moved, torn>>
    BY <1>6 DEF DeleteLeaf
  <2>3. \A v \in Workers \ {w} : task'[v] = task[v]
    BY <1>0, <1>6 DEF DeleteLeaf, Return
  <2> QED BY <1>1, <2>1, <2>2, <2>3
<1> QED BY <1>2, <1>3, <1>4, <1>5, <1>6

LEMMA WorkAlone ==
  ASSUME ShapeOK, Seen, NEW w \in Workers, Work(w) \/ Fail(w)
  PROVE  Alone(w)
BY ReadAlone, WriteAlone DEF Work, InsertIntoAncestors

LEMMA Working ==
  ASSUME NEW w \in Workers, Work(w) \/ Fail(w)
  PROVE  ~Idle(w)
<1>1. CASE Fail(w)
  BY <1>1 DEF Fail, Fetches, Idle
<1>2. CASE Work(w)
  <2>1. task[w].pc \in {"root", "first"} \cup AtPage
    BY <1>2 DEF Work, InsertIntoAncestors, ReadRoot, FirstInsert, CrabInner, LeafInsert, LeafSplit, SplitSibling,
                ParentInsert, ParentSplit, NewRoot, Descend, Get, ScanLeaf, DeleteLeaf, MergeParent, MergeSurvivor, AtPage
  <2> QED BY <2>1 DEF AtPage, Idle
<1> QED BY <1>1, <1>2

(* A call begins. *)
LEMMA CallHist ==
  ASSUME ShapeOK, Seen, NEW w \in Workers, NEW c, Call(w, c)
  PROVE  /\ Idle(w) /\ (\A v \in Workers \ {w} : HistKept(v) /\ task'[v] = task[v])
         /\ HistDomains /\ UNCHANGED <<torn, index>>
         /\ must'[w] = index /\ may'[w] = index
         /\ task'[w] = [NoTask EXCEPT !.pc = "root", !.call = c]
         /\ Unfinished => moved'[w]
<1>1. DOMAIN task = Workers /\ DOMAIN must = Workers /\ DOMAIN may = Workers /\ DOMAIN moved = Workers
  BY TaskFacts DEF Seen
<1>2. /\ Idle(w) /\ UNCHANGED <<torn, index>>
      /\ task' = [task EXCEPT ![w] = [NoTask EXCEPT !.pc = "root", !.call = c]]
      /\ must' = [must EXCEPT ![w] = index] /\ may' = [may EXCEPT ![w] = index]
      /\ moved' = [moved EXCEPT ![w] = \E v \in Workers : task[v].pc \in {"sibling", "ancestors"}]
  BY DEF Call
<1>3. HistDomains
  BY <1>1, <1>2 DEF HistDomains
<1>4. task'[w] = [NoTask EXCEPT !.pc = "root", !.call = c] /\ must'[w] = index /\ may'[w] = index
  BY <1>1, <1>2
<1>5. ASSUME Unfinished PROVE moved'[w]
  <2>1. \E v \in Workers : task[v].pc \in {"sibling", "ancestors"}
    BY <1>5 DEF Unfinished
  <2>2. moved'[w] = (\E v \in Workers : task[v].pc \in {"sibling", "ancestors"})
    BY <1>1, <1>2
  <2> QED BY <2>1, <2>2
<1>6. ASSUME NEW v \in Workers \ {w} PROVE HistKept(v) /\ task'[v] = task[v]
  <2>1. task'[v] = task[v] /\ must'[v] = must[v] /\ may'[v] = may[v] /\ moved'[v] = moved[v]
    BY <1>1, <1>2
  <2> QED BY <1>2, <2>1 DEF HistKept, Seen
<1> QED BY <1>2, <1>3, <1>4, <1>5, <1>6

LEMMA InitSeen == Init => Seen /\ Calm
BY DEF Init, Seen, Calm, Idle, NoTask

LEMMA NextSeen == ShapeOK /\ Seen /\ [Next]_indexVars => Seen'
<1> SUFFICES ASSUME ShapeOK, Seen, [Next]_indexVars PROVE Seen'
  OBVIOUS
<1>1. CASE UNCHANGED indexVars
  BY <1>1 DEF indexVars, histVars, Seen, Idle
<1>2. CASE Reload
  BY <1>2 DEF Reload, Seen, Idle
<1>3. ASSUME NEW w \in Workers, Work(w) \/ Fail(w) PROVE Seen'
  <2>1. Alone(w) /\ ~Idle(w)
    BY <1>3, WorkAlone, Working
  <2>2. ASSUME NEW v \in Workers, ~Idle(v)' PROVE ~Idle(v)
    BY <2>1, <2>2 DEF Alone, Idle
  <2> QED BY <2>1, <2>2 DEF Alone, HistKept, HistDomains, Seen
<1>4. ASSUME NEW w \in Workers, NEW c, Call(w, c) PROVE Seen'
  <2>1. ASSUME NEW v \in Workers \ {w}, ~Idle(v)' PROVE index' \subseteq may'[v] /\ must'[v] \subseteq index'
    <3>1. HistKept(v) /\ task'[v] = task[v]
      BY <1>4, CallHist
    <3> QED BY <2>1, <3>1 DEF HistKept, Idle
  <2>2. must'[w] = index /\ may'[w] = index /\ index' = index /\ HistDomains
    BY <1>4, CallHist
  <2> QED BY <2>1, <2>2 DEF Seen, HistDomains
<1> QED BY <1>1, <1>2, <1>3, <1>4 DEF Next

(* A split is on its way up, in the task w, only after one more split. *)
LEMMA SplitsBegin ==
  ASSUME ShapeOK, NEW w \in Workers, Work(w) \/ Fail(w), Splitting(task'[w])
  PROVE  Splitting(task[w]) \/ Splits
<1>0. DOMAIN task = Workers /\ DOMAIN task[w] = DOMAIN NoTask /\ PcOK(task[w])
  BY TaskFacts
<1>1. ASSUME NEW res, NEW out, Return(w, res, out) PROVE FALSE
  <2>1. task'[w].pc = "done"
    BY <1>1, ReturnAlone, FinishedParts
  <2> QED BY <2>1 DEF Splitting
<1>2. CASE Fail(w) \/ FirstInsert(w) \/ LeafInsert(w) \/ Get(w)
  BY <1>1, <1>2 DEF Fail, FirstInsert, LeafInsert, Get
<1>3. CASE SplitSibling(w) \/ ParentInsert(w) \/ ParentSplit(w) \/ NewRoot(w)
  BY <1>3 DEF SplitSibling, ParentInsert, ParentSplit, NewRoot, Splitting
<1>4. CASE LeafSplit(w)
  BY <1>1, <1>4 DEF LeafSplit
<1>5. CASE ReadRoot(w)
  <2>1. root # 0
    BY <1>1, <1>0, <1>5 DEF ReadRoot, PcOK, CallOK, Splitting, NoTask
  <2>2. task'[w].pc = "descend"
    BY <1>0, <1>5, <2>1 DEF ReadRoot, NoTask
  <2> QED BY <2>2 DEF Splitting
<1>6. CASE CrabInner(w)
  <2>1. task'[w].pc = "descend"
    BY <1>0, <1>6 DEF CrabInner, NoTask
  <2> QED BY <2>1 DEF Splitting
<1>7. CASE Descend(w)
  <2>1. task'[w].pc = "descend" \/ task'[w].pc = task[w].call.op
    BY <1>0, <1>7 DEF Descend, NoTask
  <2>2. task[w].call.op \in {"insert", "get", "scan", "delete"}
    BY <1>0, <1>7 DEF Descend, PcOK, CallOK
  <2> QED BY <2>1, <2>2 DEF Splitting
<1>8. CASE ScanLeaf(w)
  <2>1. task'[w].pc = task[w].pc \/ \E out : Return(w, "ok", out)
    BY <1>0, <1>8 DEF ScanLeaf, NoTask
  <2>2. task[w].pc = "scan"
    BY <1>8, ZenonT(40) DEF ScanLeaf
  <2> QED BY <1>1, <2>1, <2>2 DEF Splitting
<1>9. CASE DeleteLeaf(w)
  <2>1. task'[w].pc = "merge" \/ \E res, out : Return(w, res, out)
    BY <1>0, <1>9 DEF DeleteLeaf, NoTask
  <2> QED BY <1>1, <2>1 DEF Splitting
<1>10. CASE MergeParent(w) \/ MergeSurvivor(w)
  <2>1. task'[w].pc \in {"survivor", "removed"} \/ \E res, out : Return(w, res, out)
    <3>1. CASE MergeParent(w)
      BY <1>0, <3>1 DEF MergeParent, NoTask
    <3>2. CASE MergeSurvivor(w)
      BY <1>0, <3>2 DEF MergeSurvivor, NoTask
    <3> QED BY <1>10, <3>1, <3>2
  <2> QED BY <1>1, <2>1 DEF Splitting
<1> QED BY <1>2, <1>3, <1>4, <1>5, <1>6, <1>7, <1>8, <1>9, <1>10 DEF Work, InsertIntoAncestors

LEMMA UnfinishedIs == Unfinished <=> \E w \in Workers : Splitting(task[w])
BY DEF Unfinished, Splitting

LEMMA NextCalm == ShapeOK /\ Seen /\ Calm /\ [Next]_indexVars => Calm'
<1> SUFFICES ASSUME ShapeOK, Seen, Calm, [Next]_indexVars PROVE Calm'
  OBVIOUS
<1>1. CASE UNCHANGED indexVars
  BY <1>1 DEF indexVars, histVars, Calm, Idle, Unfinished
<1>2. CASE Reload
  BY <1>2 DEF Reload, Calm, Idle, Unfinished
<1>3. ASSUME NEW w \in Workers, Work(w) \/ Fail(w) PROVE Calm'
  <2> SUFFICES ASSUME NEW v \in Workers, ~Idle(v)', NEW u \in Workers, Splitting(task'[u]) PROVE moved'[v]
    BY DEF Calm, Unfinished, Splitting
  <2>1. Alone(w) /\ ~Idle(w)
    BY <1>3, WorkAlone, Working
  <2>2. ~Idle(v) /\ (moved[v] => moved'[v])
    BY <2>1 DEF Alone, HistKept, Idle
  <2>3. CASE Splitting(task[u])
    <3>1. Unfinished
      BY <2>3, UnfinishedIs
    <3> QED BY <2>2, <3>1 DEF Calm
  <2>4. CASE ~Splitting(task[u])
    <3>1. u = w
      BY <2>1, <2>4 DEF Alone
    <3>2. Splits
      BY <1>3, <2>4, <3>1, SplitsBegin
    <3> QED BY <2>2, <3>2, SplitsMoved
  <2> QED BY <2>3, <2>4
<1>4. ASSUME NEW w \in Workers, NEW c, Call(w, c) PROVE Calm'
  <2>1. /\ \A v \in Workers \ {w} : HistKept(v) /\ task'[v] = task[v]
        /\ task'[w] = [NoTask EXCEPT !.pc = "root", !.call = c] /\ (Unfinished => moved'[w])
    BY <1>4, CallHist
  <2> SUFFICES ASSUME NEW v \in Workers, ~Idle(v)', NEW u \in Workers, Splitting(task'[u]) PROVE moved'[v]
    BY DEF Calm, Unfinished, Splitting
  <2>2. task'[w].pc = "root"
    BY <2>1 DEF NoTask
  <2>3. u # w /\ Splitting(task[u])
    BY <2>1, <2>2 DEF Splitting
  <2>4. Unfinished
    BY <2>3, UnfinishedIs
  <2>5. CASE v = w
    BY <2>1, <2>4, <2>5
  <2>6. CASE v # w
    <3>1. ~Idle(v) /\ (moved[v] => moved'[v])
      BY <2>1, <2>6 DEF HistKept, Idle
    <3> QED BY <2>4, <3>1 DEF Calm
  <2> QED BY <2>5, <2>6
<1> QED BY <1>1, <1>2, <1>3, <1>4 DEF Next

(* The number of pages. *)
LEMMA SameLen ==
  ASSUME ShapeOK, ShapeOK', DOMAIN pages' = DOMAIN pages
  PROVE  Len(pages') = Len(pages)
<1> DEFINE pgs == pages'
           n == Len(pages)
           m == Len(pgs)
<1>1. IsSeq(pages) /\ IsSeq(pgs)
  BY DEF ShapeOK, TreeOK
<1>2. DOMAIN pages = 1..n /\ n \in Nat
  BY <1>1, SeqShape
<1>3. DOMAIN pgs = 1..m /\ m \in Nat
  <2> HIDE DEF pgs
  <2> QED BY <1>1, SeqShape
<1>4. 1..n = 1..m
  BY <1>2, <1>3
<1> HIDE DEF n, m
<1>5. n = m
  <2>1. n < m => m \in 1..m /\ m \notin 1..n
    BY <1>2, <1>3
  <2>2. m < n => n \in 1..n /\ n \notin 1..m
    BY <1>2, <1>3
  <2> QED BY <1>2, <1>3, <1>4, <2>1, <2>2
<1> QED BY <1>5 DEF n, m, pgs

(* While a call searches in a tree in which nothing moves, no page is added. *)
LEMMA LenKept ==
  ASSUME ShapeOK, ShapeOK', Seen, Calm, NEW w \in Workers, Work(w) \/ Fail(w), ~raced',
         NEW v \in Workers, Searching(task'[v]), ~moved'[v]
  PROVE  Len(pages') = Len(pages)
<1>0. DOMAIN task = Workers /\ Alone(w) /\ ~Idle(w)
  BY TaskFacts, WorkAlone, Working
<1>1. ASSUME DOMAIN pages' = DOMAIN pages PROVE Len(pages') = Len(pages)
  BY <1>1, SameLen
<1>2. ~Idle(v)
  BY <1>0 DEF Alone, Idle, Searching
<1>3. ASSUME NEW res, NEW out, Return(w, res, out) PROVE v # w
  <2>1. task'[w].pc = "done"
    BY <1>3, ReturnAlone, FinishedParts
  <2> QED BY <2>1 DEF Searching
<1>4. CASE ReadRoot(w) \/ Descend(w) \/ Get(w) \/ ScanLeaf(w) \/ MergeParent(w) \/ MergeSurvivor(w)
  <2>1. UNCHANGED pages
    BY <1>4 DEF ReadRoot, Descend, treeVars, Get, ScanLeaf, MergeParent, MergeSurvivor
  <2> QED BY <1>1, <2>1
<1>5. CASE CrabInner(w) \/ Fail(w)
  BY <1>1, <1>5 DEF CrabInner, Fail
<1>6. CASE LeafInsert(w) \/ SplitSibling(w) \/ ParentInsert(w)
  <2>1. DOMAIN pages' = DOMAIN pages
    BY <1>6 DEF LeafInsert, SplitSibling, ParentInsert
  <2> QED BY <1>1, <2>1
<1>7. CASE DeleteLeaf(w)
  <2>1. DOMAIN pages' = DOMAIN pages
    BY <1>7 DEF DeleteLeaf
  <2> QED BY <1>1, <2>1
<1>8. CASE FirstInsert(w)
  <2>1. root = 0 /\ v # w
    BY <1>3, <1>8 DEF FirstInsert
  <2>2. task'[v] = task[v] /\ Len(pages) = 0
    BY <1>0, <2>1, EmptyTree DEF Alone
  <2>3. task[v].pc \in AtPage
    BY <2>2 DEF Searching, AtPage
  <2>4. task[v].cur \in 1..Len(pages)
    BY <2>3, TaskFacts DEF PlaceOK
  <2> QED BY <2>2, <2>4
<1>9. CASE NewRoot(w)
  <2>1. Unfinished
    BY <1>9 DEF NewRoot, Unfinished
  <2>2. moved'[v]
    BY <1>0, <1>2, <2>1 DEF Calm, Alone, HistKept
  <2> QED BY <2>2
<1>10. CASE LeafSplit(w)
  <2>1. CASE find_slot(pages[task[w].cur], Key(w)).found
    BY <1>1, <1>10, <2>1 DEF LeafSplit
  <2>2. CASE ~find_slot(pages[task[w].cur], Key(w)).found
    <3>1. Splits
      BY <1>10, <2>2 DEF LeafSplit
    <3> QED BY <1>2, <3>1, SplitsMoved
  <2> QED BY <2>1, <2>2
<1>11. CASE ParentSplit(w)
  <2>1. CASE find_separator_slot(pages[Last(task[w].locked)], task[w].sep).found
    BY <1>1, <1>11, <2>1 DEF ParentSplit
  <2>2. CASE ~find_separator_slot(pages[Last(task[w].locked)], task[w].sep).found
    <3>1. Splits
      BY <1>11, <2>2 DEF ParentSplit
    <3> QED BY <1>2, <3>1, SplitsMoved
  <2> QED BY <2>1, <2>2
<1> QED BY <1>4, <1>5, <1>6, <1>7, <1>8, <1>9, <1>10, <1>11 DEF Work, InsertIntoAncestors

(* The invariant of the calls. *)
CallsSound(lo, lev) ==
  \A v \in Workers : CallSound(lo, lev, Len(pages), task[v], must[v], may[v], Sure(v))

CallsAreSound == Intact => \E lo, lev : Bounds(lo, lev) /\ CallsSound(lo, lev)

(* The step of a call, told with the ranges before it. *)
OwnStep(lo, lev, w) == CallSound(lo, lev, Len(pages), task'[w], must'[w], may'[w], Sure(w)')

LEMMA CallsStep ==
  ASSUME ShapeOK, ShapeOK', Seen, Calm, NEW w \in Workers, Work(w) \/ Fail(w), ~raced',
         NEW lo, NEW lev, CallsSound(lo, lev), OwnStep(lo, lev, w),
         NEW lo2, NEW lev2, Same(lo, lev, Len(pages), lo2, lev2), task'[w].pc \in AtPage => task'[w].cur \in 1..Len(pages)
  PROVE  CallsSound(lo2, lev2)'
<1>0. Alone(w) /\ Len(pages) \in Nat
  BY WorkAlone, ShapeFacts
<1>1. ASSUME NEW v \in Workers
      PROVE  CallSound(lo2, lev2, Len(pages'), task'[v], must'[v], may'[v], Sure(v)')
  <2> DEFINE tk == task'[v]
             calm2 == Sure(v)'
             mst2 == must'[v]
             my2 == may'[v]
             n2 == Len(pages')
             n == Len(pages)
  <2>1. calm2 \in BOOLEAN /\ (calm2 => Sure(v)) /\ Sure(v) \in BOOLEAN /\ (calm2 => ~moved'[v])
    BY <1>0 DEF Sure, Alone, HistKept
  <2>2. calm2 /\ Searching(tk) => n2 = n
    BY <2>1, LenKept
  <2>3. CASE v = w
    <3>1. CallSound(lo, lev, n, tk, mst2, my2, calm2) /\ (tk.pc \in AtPage => tk.cur \in 1..n)
      BY <2>3 DEF OwnStep
    <3> HIDE DEF tk, calm2, mst2, my2, n2, n
    <3>2. CallSound(lo2, lev2, n2, tk, mst2, my2, calm2)
      BY <1>0, <2>1, <2>2, <3>1, CallKept DEF n
    <3> QED BY <3>2 DEF tk, calm2, mst2, my2, n2
  <2>4. CASE v # w
    <3> DEFINE mst == must[v]
               my == may[v]
               calm == Sure(v)
    <3>1. tk = task[v] /\ mst2 \subseteq mst /\ my \subseteq my2
      BY <1>0, <2>4 DEF Alone, HistKept
    <3>2. CallSound(lo, lev, n, tk, mst, my, calm) /\ (tk.pc \in AtPage => tk.cur \in 1..n)
      BY <3>1, TaskFacts DEF CallsSound, PlaceOK
    <3> HIDE DEF tk, calm2, mst2, my2, n2, n, mst, my, calm
    <3>3. CallSound(lo2, lev2, n2, tk, mst2, my2, calm2)
      BY <1>0, <2>1, <2>2, <3>1, <3>2, CallKept DEF n, calm
    <3> QED BY <3>3 DEF tk, calm2, mst2, my2, n2
  <2> QED BY <2>3, <2>4
<1> QED BY <1>1 DEF CallsSound

(* The index of an empty tree is empty. *)
LEMMA EmptyIndex ==
  ASSUME ShapeOK, Stored, root = 0
  PROVE  index = {}
<1>1. Leaves(pages) = {}
  <2>1. Len(pages) = 0
    BY DEF ShapeOK, TreeOK
  <2> QED BY <2>1 DEF Leaves
<1> QED BY <1>1 DEF Stored

(* A call that returned says what its answer says. *)
LEMMA FinishedSound ==
  ASSUME NEW lo, NEW lev, NEW n, NEW c, NEW res, NEW out, NEW mst, NEW my, NEW calm,
         ScanOK(Finished(c, res, out), mst, my, calm), AnswerOK(Finished(c, res, out), mst, my, calm)
  PROVE  CallSound(lo, lev, n, Finished(c, res, out), mst, my, calm)
<1> DEFINE tk == Finished(c, res, out)
<1>1. tk.pc = "done"
  BY FinishedParts
<1> HIDE DEF tk
<1>2. SearchSound(lo, lev, n, tk, calm) /\ ScanSound(lo, tk, mst, my, calm) /\ PutOK(tk, my) /\ FreshOK(tk)
  BY <1>1 DEF SearchSound, Searching, ScanSound, PutOK, FreshOK
<1>3. ScanOK(tk, mst, my, calm) /\ AnswerOK(tk, mst, my, calm)
  BY DEF tk
<1>4. CallSound(lo, lev, n, tk, mst, my, calm)
  BY <1>2, <1>3 DEF CallSound
<1> QED BY <1>4 DEF tk

(* An answer that says nothing of the index. *)
LEMMA PlainSound ==
  ASSUME NEW lo, NEW lev, NEW n, NEW c, NEW res, NEW out, NEW mst, NEW my, NEW calm,
         res = "BufferError" \/ (res = "ok" /\ c.op = "insert")
  PROVE  CallSound(lo, lev, n, Finished(c, res, out), mst, my, calm)
<1>1. ScanOK(Finished(c, res, out), mst, my, calm) /\ AnswerOK(Finished(c, res, out), mst, my, calm)
  BY FinishedParts DEF ScanOK, AnswerOK
<1> QED BY <1>1, FinishedSound

(* An answer of an insert or a delete about its own entry. *)
LEMMA WriteSound ==
  ASSUME NEW lo, NEW lev, NEW n, NEW c, NEW res, NEW mst, NEW my, NEW calm,
         \/ c.op = "insert" /\ res = "PageCorruption" /\ \E e \in my : e.key = key_from_bytes(c.key)
         \/ c.op = "delete" /\ res = "ok" /\ LeafEntry(key_from_bytes(c.key), c.rid) \in my
         \/ c.op = "delete" /\ res = "TupleNonExistent" /\ (calm => LeafEntry(key_from_bytes(c.key), c.rid) \notin mst)
  PROVE  CallSound(lo, lev, n, Finished(c, res, <<>>), mst, my, calm)
<1> DEFINE tk == Finished(c, res, <<>>)
<1>1. tk.pc = "done" /\ tk.call = c /\ tk.res = res
  BY FinishedParts
<1> HIDE DEF tk
<1>2. ScanOK(tk, mst, my, calm) /\ AnswerOK(tk, mst, my, calm)
  BY <1>1 DEF ScanOK, AnswerOK, KeyIn
<1> QED BY <1>2, FinishedSound DEF tk

(* A call in the middle of a write. *)
LEMMA WritingSound ==
  ASSUME NEW lo, NEW lev, NEW n, NEW tk, NEW mst, NEW my, NEW calm,
         \/ tk.pc \in {"sibling", "ancestors", "merge", "survivor", "removed"} /\ LeafEntry(KeyIn(tk), tk.call.rid) \in my
         \/ tk.pc = "first"
  PROVE  CallSound(lo, lev, n, tk, mst, my, calm)
BY DEF CallSound, SearchSound, Searching, ScanSound, ScanOK, PutOK, FreshOK, AnswerOK

(* A step that changes no history. *)
LEMMA ReadStep ==
  ASSUME UNCHANGED histVars, NEW lo, NEW lev, NEW w,
         CallSound(lo, lev, Len(pages), task'[w], must[w], may[w], Sure(w))
  PROVE  OwnStep(lo, lev, w)
<1> DEFINE tk == task'[w]
           n == Len(pages)
           a == must[w]
           b == may[w]
           s == Sure(w)
<1>1. must'[w] = a /\ may'[w] = b /\ Sure(w)' = s
  BY DEF histVars, Sure
<1>2. CallSound(lo, lev, n, tk, a, b, s)
  OBVIOUS
<1> HIDE DEF a, b, s, tk, n
<1> QED BY <1>1, <1>2 DEF OwnStep, tk, n

(* What the invariant says of the call of a step. *)
LEMMA OwnFacts ==
  ASSUME ShapeOK, Seen, Calm, NEW lo, NEW lev, Bounds(lo, lev), CallsSound(lo, lev), NEW w \in Workers, ~Idle(w)
  PROVE  /\ CallSound(lo, lev, Len(pages), task[w], must[w], may[w], Sure(w))
         /\ index \subseteq may[w] /\ must[w] \subseteq index
         /\ Sure(w) => ~torn /\ ~Unfinished /\ ~RootMoving
         /\ Key(w) = KeyIn(task[w]) /\ KeyIn(task[w]) \in Nat
         /\ TreeSound(lo, lev, root, pages) /\ Stored
<1>1. ~moved[w] => ~Unfinished
  BY DEF Calm
<1>2. ~Unfinished => ~RootMoving
  BY DEF Unfinished, RootMoving
<1>3. Key(w) = KeyIn(task[w]) /\ Key(w) \in Nat
  BY KeyOfCall DEF Key, KeyIn, Idle
<1> QED BY <1>1, <1>2, <1>3 DEF CallsSound, Seen, Sure, Bounds

LEMMA ReadRootOwn ==
  ASSUME ShapeOK, Seen, Calm, NEW lo, NEW lev, Bounds(lo, lev), CallsSound(lo, lev), NEW w \in Workers, ReadRoot(w)
  PROVE  OwnStep(lo, lev, w) /\ (task'[w].pc \in AtPage => task'[w].cur \in 1..Len(pages))
<1> DEFINE tk == task[w]
           n == Len(pages)
           k == KeyIn(tk)
           mst == must[w]
           my == may[w]
           calm == Sure(w)
           nt == task'[w]
<1>0. tk.pc = "root" /\ ~Idle(w) /\ UNCHANGED histVars
  BY DEF ReadRoot, Idle
<1>1. /\ CallSound(lo, lev, n, tk, mst, my, calm) /\ index \subseteq my /\ mst \subseteq index
      /\ (calm => ~torn /\ ~Unfinished /\ ~RootMoving) /\ k \in Nat /\ TreeSound(lo, lev, root, pages) /\ Stored
  BY <1>0, OwnFacts
<1>2. DOMAIN task = Workers /\ DOMAIN tk = DOMAIN NoTask /\ root \in 0..n /\ CallOK(tk.call)
  BY <1>0, TaskFacts, ShapeFacts DEF PcOK
<1>3. FreshOK(tk)
  BY <1>1 DEF CallSound
<1>4. CallSound(lo, lev, n, nt, mst, my, calm) /\ (nt.pc \in AtPage => nt.cur \in 1..n)
  <2>1. CASE root # 0
    <3>1. nt = [tk EXCEPT !.pc = "descend", !.cur = root]
      BY <1>2, <2>1 DEF ReadRoot
    <3>2. nt.pc = "descend" /\ nt.cur = root /\ nt.call = tk.call /\ nt.first = tk.first /\ nt.out = tk.out
      BY <1>2, <3>1 DEF NoTask
    <3>3. lo[root] = -1 /\ root \in 1..n
      BY <1>1, <1>2, <2>1 DEF TreeSound, TopSound
    <3>4. calm => Within(lo, lev, n, root, k)
      BY <1>1, <2>1, RootIn
    <3>5. KeyIn(nt) = k
      BY <3>2 DEF KeyIn
    <3>6. nt.first /\ nt.out = <<>>
      BY <1>0, <1>3, <3>2 DEF FreshOK
    <3> HIDE DEF nt, k, calm, n, mst, my, tk
    <3>7. SearchSound(lo, lev, n, nt, calm)
      <4>1. lo[root] <= k
        BY <1>1, <3>3
      <4> QED BY <3>2, <3>4, <3>5, <4>1 DEF SearchSound
    <3>8. ScanSound(lo, nt, mst, my, calm) /\ ScanOK(nt, mst, my, calm) /\ PutOK(nt, my) /\ AnswerOK(nt, mst, my, calm)
      BY <3>2 DEF ScanSound, ScanOK, PutOK, AnswerOK
    <3>9. FreshOK(nt)
      BY <3>6 DEF FreshOK
    <3> QED BY <3>2, <3>3, <3>7, <3>8, <3>9 DEF CallSound
  <2>2. CASE root = 0 /\ tk.call.op = "insert"
    <3>1. nt = [tk EXCEPT !.pc = "first"]
      BY <1>2, <2>2 DEF ReadRoot
    <3>2. nt.pc = "first"
      BY <1>2, <3>1 DEF NoTask
    <3> HIDE DEF nt, calm, n, mst, my
    <3> QED BY <3>2, WritingSound DEF AtPage
  <2>3. CASE root = 0 /\ tk.call.op # "insert"
    <3>1. mst = {}
      BY <1>1, <2>3, EmptyIndex
    <3>2. \/ tk.call.op = "scan" /\ Return(w, "ok", <<>>)
          \/ tk.call.op \in {"get", "delete"} /\ Return(w, "TupleNonExistent", <<>>)
      BY <1>2, <2>3 DEF ReadRoot, CallOK
    <3>3. PICK res : nt = Finished(tk.call, res, <<>>) /\ ((tk.call.op = "scan" /\ res = "ok")
                       \/ (tk.call.op \in {"get", "delete"} /\ res = "TupleNonExistent"))
      BY <3>2, ReturnAlone
    <3>4. nt.pc = "done" /\ nt.call = tk.call /\ nt.res = res /\ nt.out = <<>>
      BY <3>3, FinishedParts
    <3>5. IsSeq(nt.out) /\ ToSet(nt.out) = {} /\ Ascending(nt.out)
      BY <3>4, EmptyIsSeq DEF Ascending
    <3> HIDE DEF nt, calm, n, mst, my
    <3>6. Gives(nt, my, calm)
      BY <3>5 DEF Gives
    <3>7. ScanOK(nt, mst, my, calm) /\ AnswerOK(nt, mst, my, calm)
      BY <3>1, <3>3, <3>4, <3>6 DEF ScanOK, AnswerOK
    <3> QED BY <3>3, <3>4, <3>7, FinishedSound DEF AtPage
  <2> QED BY <2>1, <2>2, <2>3
<1> QED BY <1>0, <1>4, ReadStep

(* The key is found at the leaf: its entry is in the index. *)
LEMMA KeyThere ==
  ASSUME ShapeOK, Stored, NEW p \in Leaves(pages), NEW k \in Nat, NEW slot, slot = find_slot(pages[p], k), slot.found
  PROVE  LET e == pages[p].entries[slot.pos + 1]
         IN  e \in ToSet(pages[p].entries) /\ e = LeafEntry(k, e.rid) /\ e \in index /\ e.key = k
<1> DEFINE pg == pages[p]
           es == pg.entries
           e == es[slot.pos + 1]
<1>1. IsLeaf(pg) /\ IsEntries(es, LeafMax) /\ \A f \in ToSet(es) : f = LeafEntry(f.key, f.rid)
  BY ShapeFacts DEF IsLeaf
<1>2. slot = Search(es, k)
  BY DEF find_slot
<1> HIDE DEF es
<1>3. slot.pos + 1 \in 1..Len(es) /\ e.key = k
  BY <1>1, <1>2, SlotFound
<1>4. e \in ToSet(es)
  BY <1>1, <1>3, EntriesShape
<1>5. e \in index
  BY <1>4 DEF Stored, es
<1> QED BY <1>1, <1>3, <1>4, <1>5 DEF es

(* It is not found at its leaf: the index does not have it. *)
LEMMA KeyNotThere ==
  ASSUME ShapeOK, NEW lo, NEW lev, TreeSound(lo, lev, root, pages), Stored, NEW p \in Leaves(pages), NEW k \in Nat,
         Within(lo, lev, Len(pages), p, k)
  PROVE  /\ ~find_slot(pages[p], k).found => \A e \in index : e.key # k
         /\ \A e \in index : e.key = k => e \in ToSet(pages[p].entries)
<1> DEFINE es == pages[p].entries
<1>1. IsEntries(es, LeafMax)
  BY ShapeFacts DEF IsLeaf
<1>2. ASSUME NEW e \in index, e.key = k PROVE e \in ToSet(es)
  <2>1. PICK q \in Leaves(pages) : e \in ToSet(pages[q].entries)
    BY DEF Stored
  <2>2. Within(lo, lev, Len(pages), q, k)
    BY <1>2, <2>1, LeafKeys
  <2>3. q = p
    BY <2>2, LeafUnique
  <2> QED BY <2>1, <2>3
<1>3. ASSUME ~find_slot(pages[p], k).found, NEW e \in ToSet(es) PROVE e.key # k
  <2>1. ~Search(es, k).found
    BY <1>3 DEF find_slot
  <2> HIDE DEF es
  <2>2. PICK i \in 1..Len(es) : es[i] = e
    BY <1>1, <1>3, EntriesShape
  <2> QED BY <1>1, <2>1, <2>2, SlotFound
<1> QED BY <1>2, <1>3

(* The one element of a set. *)
LEMMA OneSeq == ASSUME NEW x PROVE SetToSeq({x})[1] = x
<1> DEFINE F == {f \in [1..1 -> {x}] : IsInjective(f)}
<1>1. Cardinality({x}) = 1
  BY FS_Singleton
<1>2. SetToSeq({x}) = CHOOSE f \in [1..1 -> {x}] : IsInjective(f)
  BY <1>1 DEF SetToSeq
<1>3. [i \in 1..1 |-> x] \in [1..1 -> {x}] /\ IsInjective([i \in 1..1 |-> x])
  BY DEF IsInjective
<1>4. SetToSeq({x}) \in [1..1 -> {x}]
  BY <1>2, <1>3
<1> QED BY <1>4

LEMMA GetOwn ==
  ASSUME ShapeOK, Seen, Calm, NEW lo, NEW lev, Bounds(lo, lev), CallsSound(lo, lev), NEW w \in Workers, Get(w)
  PROVE  OwnStep(lo, lev, w) /\ (task'[w].pc \in AtPage => task'[w].cur \in 1..Len(pages))
<1> DEFINE tk == task[w]
           n == Len(pages)
           k == KeyIn(tk)
           mst == must[w]
           my == may[w]
           calm == Sure(w)
           nt == task'[w]
           slot == find_slot(pages[tk.cur], k)
           found == lookup(pages[tk.cur], k)
           res == IF found = {} THEN "TupleNonExistent" ELSE "ok"
           out == SetToSeq(found)
<1>0. tk.pc = "get" /\ ~Idle(w) /\ UNCHANGED histVars
  BY DEF Get, Idle
<1>1. /\ CallSound(lo, lev, n, tk, mst, my, calm) /\ index \subseteq my /\ mst \subseteq index
      /\ k \in Nat /\ TreeSound(lo, lev, root, pages) /\ Stored /\ Key(w) = k
  BY <1>0, OwnFacts
<1>2. tk.cur \in Leaves(pages) /\ tk.call.op = "get"
  BY <1>0, TaskFacts DEF PlaceOK, PcOK, AtPage
<1>3. nt = Finished(tk.call, res, out)
  BY <1>1, ReturnAlone DEF Get
<1>4. nt.pc = "done" /\ nt.call = tk.call /\ nt.res = res /\ nt.out = out /\ KeyIn(nt) = k
  BY <1>3, FinishedParts DEF KeyIn
<1>5. CASE slot.found
  <2> DEFINE e == pages[tk.cur].entries[slot.pos + 1]
  <2>1. e = LeafEntry(k, e.rid) /\ e \in index
    BY <1>1, <1>2, <1>5, KeyThere
  <2>2. found = {e.rid}
    BY <1>5 DEF lookup
  <2>3. out[1] = e.rid /\ res = "ok"
    BY <2>2, OneSeq
  <2> HIDE DEF nt, mst, my, calm, n, res, out, k
  <2>4. ScanOK(nt, mst, my, calm) /\ AnswerOK(nt, mst, my, calm)
    BY <1>1, <1>2, <1>4, <2>1, <2>3 DEF ScanOK, AnswerOK
  <2>5. CallSound(lo, lev, n, nt, mst, my, calm)
    BY <1>3, <2>4, FinishedSound
  <2> QED BY <1>0, <1>4, <2>5, ReadStep DEF AtPage, n, nt, mst, my, calm
<1>6. CASE ~slot.found
  <2>1. found = {} /\ res = "TupleNonExistent"
    BY <1>6 DEF lookup
  <2>2. calm => Within(lo, lev, n, tk.cur, k)
    BY <1>0, <1>1 DEF CallSound, SearchSound, Searching
  <2>3. calm => \A e \in mst : e.key # k
    BY <1>1, <1>2, <1>6, <2>2, KeyNotThere
  <2> HIDE DEF nt, mst, my, calm, n, res, out, k
  <2>4. ScanOK(nt, mst, my, calm) /\ AnswerOK(nt, mst, my, calm)
    BY <1>2, <1>4, <2>1, <2>3 DEF ScanOK, AnswerOK
  <2>5. CallSound(lo, lev, n, nt, mst, my, calm)
    BY <1>3, <2>4, FinishedSound
  <2> QED BY <1>0, <1>4, <2>5, ReadStep DEF AtPage, n, nt, mst, my, calm
<1> QED BY <1>5, <1>6

LEMMA DescendOwn ==
  ASSUME ShapeOK, Seen, Calm, NEW lo, NEW lev, Bounds(lo, lev), CallsSound(lo, lev), NEW w \in Workers, Descend(w)
  PROVE  OwnStep(lo, lev, w) /\ (task'[w].pc \in AtPage => task'[w].cur \in 1..Len(pages))
<1> DEFINE tk == task[w]
           n == Len(pages)
           k == KeyIn(tk)
           mst == must[w]
           my == may[w]
           calm == Sure(w)
           nt == task'[w]
           c == find_child(pages[tk.cur], k)
<1>0. tk.pc = "descend" /\ tk.call.op # "insert" /\ ~Idle(w) /\ UNCHANGED histVars
  BY DEF Descend, Idle
<1>1. /\ CallSound(lo, lev, n, tk, mst, my, calm) /\ index \subseteq my /\ mst \subseteq index
      /\ (calm => ~torn /\ ~Unfinished /\ ~RootMoving) /\ k \in Nat /\ TreeSound(lo, lev, root, pages) /\ Stored
      /\ Key(w) = k
  BY <1>0, OwnFacts
<1>2. DOMAIN task = Workers /\ DOMAIN tk = DOMAIN NoTask /\ tk.cur \in 1..n /\ CallOK(tk.call) /\ n <= MaxPages /\ n \in Nat
  BY <1>0, TaskFacts, ShapeFacts DEF PcOK, PlaceOK, AtPage
<1>3. FreshOK(tk) /\ lo[tk.cur] <= k /\ (calm => Within(lo, lev, n, tk.cur, k))
  BY <1>0, <1>1 DEF CallSound, SearchSound, Searching
<1>4. CallSound(lo, lev, n, nt, mst, my, calm) /\ (nt.pc \in AtPage => nt.cur \in 1..n)
  <2>1. CASE pages[tk.cur].kind = "inner"
    <3>1. tk.cur \in Inners(pages)
      BY <1>2, <2>1 DEF Inners
    <3>2. nt.pc = "descend" /\ nt.cur = c /\ nt.call = tk.call /\ nt.first = tk.first /\ nt.out = tk.out
      BY <1>0, <1>1, <1>2, <2>1 DEF Descend, NoTask
    <3>3. c \in 1..n /\ lo[c] <= k
      BY <1>1, <1>3, <3>1, LeadsBegins
    <3>4. ASSUME calm PROVE Within(lo, lev, n, c, k)
      <4>1. \A v \in Workers : ~Splitting(task[v])
        BY <1>1, <3>4 DEF Unfinished, Splitting
      <4>2. IsEntries(pages[tk.cur].entries, InnerMax)
        BY <3>1, ShapeFacts DEF IsInner
      <4>3. Leads(pages[tk.cur], c, k)
        <5> DEFINE pg == pages[tk.cur]
        <5> HIDE DEF pg
        <5>1. IsEntries(pg.entries, InnerMax) /\ k \in Int
          BY <1>1, <4>2 DEF pg
        <5>2. Leads(pg, find_child(pg, k), k)
          BY <5>1, FindLeads
        <5> QED BY <5>2 DEF pg
      <4> HIDE DEF c, k
      <4>4. Within(lo, lev, n, tk.cur, k) /\ k \in Int /\ ~torn
        BY <1>1, <1>3, <3>4
      <4> QED BY <3>1, <4>1, <4>3, <4>4, DownIn
    <3>5. KeyIn(nt) = k
      BY <3>2 DEF KeyIn
    <3>6. nt.first /\ nt.out = <<>>
      BY <1>0, <1>3, <3>2 DEF FreshOK
    <3> HIDE DEF nt, k, calm, n, mst, my, tk, c
    <3>7. SearchSound(lo, lev, n, nt, calm)
      BY <3>2, <3>3, <3>4, <3>5 DEF SearchSound
    <3>8. ScanSound(lo, nt, mst, my, calm) /\ ScanOK(nt, mst, my, calm) /\ PutOK(nt, my) /\ AnswerOK(nt, mst, my, calm)
      BY <3>2 DEF ScanSound, ScanOK, PutOK, AnswerOK
    <3>9. FreshOK(nt)
      BY <3>6 DEF FreshOK
    <3> QED BY <3>2, <3>3, <3>7, <3>8, <3>9 DEF CallSound
  <2>2. CASE pages[tk.cur].kind # "inner"
    <3>1. nt = [tk EXCEPT !.pc = tk.call.op]
      BY <1>2, <2>2 DEF Descend
    <3>2. nt.pc = tk.call.op /\ nt.cur = tk.cur /\ nt.call = tk.call /\ nt.first = tk.first /\ nt.out = tk.out
      BY <1>2, <3>1 DEF NoTask
    <3>3. nt.pc \in {"get", "scan", "delete"}
      BY <1>0, <1>2, <3>2 DEF CallOK
    <3>5. KeyIn(nt) = k
      BY <3>2 DEF KeyIn
    <3>6. nt.first /\ nt.out = <<>>
      BY <1>0, <1>3, <3>2 DEF FreshOK
    <3>7. ASSUME NEW e \in mst, k <= e.key PROVE lo[tk.cur] <= e.key
      <4>1. PICK q \in Leaves(pages) : e \in ToSet(pages[q].entries)
        BY <1>1 DEF Stored
      <4>2. e.key \in Nat
        BY <1>1, <4>1, LeafKeys
      <4>3. lo[tk.cur] \in Int
        BY <1>1, <1>2, BoundTypes DEF TreeSound
      <4> QED BY <1>1, <1>3, <3>7, <4>2, <4>3
    <3>8. IsSeq(nt.out) /\ ToSet(nt.out) = {} /\ Ascending(nt.out)
      BY <3>6, EmptyIsSeq DEF Ascending
    <3> HIDE DEF nt, k, calm, n, mst, my, tk, c
    <3>9. SearchSound(lo, lev, n, nt, calm)
      BY <1>3, <3>2, <3>5 DEF SearchSound
    <3>10. Gives(nt, my, calm)
      BY <3>8 DEF Gives
    <3>11. ScanSound(lo, nt, mst, my, calm)
      BY <3>2, <3>5, <3>6, <3>7, <3>8, <3>10 DEF ScanSound
    <3>12. ScanOK(nt, mst, my, calm) /\ PutOK(nt, my) /\ AnswerOK(nt, mst, my, calm) /\ FreshOK(nt)
      BY <3>3 DEF ScanOK, PutOK, AnswerOK, FreshOK
    <3> QED BY <1>2, <3>2, <3>9, <3>11, <3>12 DEF CallSound
  <2> QED BY <2>1, <2>2
<1> QED BY <1>0, <1>4, ReadStep

(* The history of a call over its own step. *)
LEMMA WriteFacts ==
  ASSUME ShapeOK, Seen, Calm, NEW lo, NEW lev, Bounds(lo, lev), CallsSound(lo, lev), NEW w \in Workers, Work(w) \/ Fail(w)
  PROVE  /\ index \subseteq may[w] /\ must[w] \subseteq index /\ may[w] \subseteq may'[w] /\ index' \subseteq may'[w]
         /\ must'[w] \subseteq must[w] /\ (Sure(w)' => Sure(w)) /\ ~Idle(w)
         /\ PutOK(task[w], may[w]) /\ Key(w) = KeyIn(task[w]) /\ KeyIn(task[w]) \in Nat /\ Stored
<1>1. ~Idle(w) /\ Alone(w)
  BY Working, WorkAlone
<1>2. HistKept(w) /\ (torn => torn')
  BY <1>1 DEF Alone
<1>3. may[w] \subseteq may'[w] /\ index' \subseteq may'[w] /\ must'[w] \subseteq must[w] /\ (Sure(w)' => Sure(w))
  BY <1>1, <1>2 DEF HistKept, Sure
<1>4. index \subseteq may[w] /\ must[w] \subseteq index /\ Key(w) = KeyIn(task[w]) /\ KeyIn(task[w]) \in Nat /\ Stored
  BY <1>1, OwnFacts
<1>5. PutOK(task[w], may[w])
  BY <1>1, OwnFacts DEF CallSound
<1> QED BY <1>1, <1>3, <1>4, <1>5

LEMMA OwnFailed ==
  ASSUME ShapeOK, NEW lo, NEW lev, NEW w \in Workers, Return(w, "BufferError", <<>>)
  PROVE  OwnStep(lo, lev, w) /\ (task'[w].pc \in AtPage => task'[w].cur \in 1..Len(pages))
<1> DEFINE c == task[w].call
           nt == task'[w]
           mst == must'[w]
           my == may'[w]
           calm == Sure(w)'
           n == Len(pages)
<1>1. nt = Finished(c, "BufferError", <<>>)
  BY ReturnAlone
<1>2. nt.pc = "done"
  BY <1>1, FinishedParts
<1> HIDE DEF c, nt, mst, my, calm, n
<1>4. CallSound(lo, lev, n, Finished(c, "BufferError", <<>>), mst, my, calm)
  BY PlainSound
<1> QED BY <1>1, <1>2, <1>4 DEF OwnStep, AtPage, nt, mst, my, calm, n

LEMMA OwnReturn ==
  ASSUME ShapeOK, NEW lo, NEW lev, NEW w \in Workers, NEW res, Return(w, res, <<>>),
         \/ res = "ok" /\ task[w].call.op = "insert"
         \/ task[w].call.op = "insert" /\ res = "PageCorruption" /\ \E e \in may'[w] : e.key = Key(w)
         \/ task[w].call.op = "delete" /\ res = "ok" /\ LeafEntry(Key(w), task[w].call.rid) \in may'[w]
         \/ task[w].call.op = "delete" /\ res = "TupleNonExistent" /\ (Sure(w)' => LeafEntry(Key(w), task[w].call.rid) \notin must'[w])
  PROVE  OwnStep(lo, lev, w) /\ (task'[w].pc \in AtPage => task'[w].cur \in 1..Len(pages))
<1> DEFINE c == task[w].call
           nt == task'[w]
           mst == must'[w]
           my == may'[w]
           calm == Sure(w)'
           n == Len(pages)
<1>1. nt = Finished(c, res, <<>>)
  BY ReturnAlone
<1>2. nt.pc = "done"
  BY <1>1, FinishedParts
<1>3. \/ res = "ok" /\ c.op = "insert"
      \/ c.op = "insert" /\ res = "PageCorruption" /\ \E e \in my : e.key = key_from_bytes(c.key)
      \/ c.op = "delete" /\ res = "ok" /\ LeafEntry(key_from_bytes(c.key), c.rid) \in my
      \/ c.op = "delete" /\ res = "TupleNonExistent" /\ (calm => LeafEntry(key_from_bytes(c.key), c.rid) \notin mst)
  BY DEF Key
<1> HIDE DEF c, nt, mst, my, calm, n
<1>4. CallSound(lo, lev, n, Finished(c, res, <<>>), mst, my, calm)
  BY <1>3, PlainSound, WriteSound
<1> QED BY <1>1, <1>2, <1>4 DEF OwnStep, AtPage, nt, mst, my, calm, n

LEMMA OwnWriting ==
  ASSUME ShapeOK, NEW lo, NEW lev, NEW w \in Workers, task'[w].call = task[w].call,
         task'[w].pc \in {"sibling", "ancestors", "merge", "survivor", "removed"},
         LeafEntry(KeyIn(task[w]), task[w].call.rid) \in may'[w], task'[w].cur \in 1..Len(pages)
  PROVE  OwnStep(lo, lev, w) /\ (task'[w].pc \in AtPage => task'[w].cur \in 1..Len(pages))
<1> DEFINE nt == task'[w]
           mst == must'[w]
           my == may'[w]
           calm == Sure(w)'
           n == Len(pages)
<1>1. nt.pc \in {"sibling", "ancestors", "merge", "survivor", "removed"} /\ LeafEntry(KeyIn(nt), nt.call.rid) \in my
  BY DEF KeyIn
<1> HIDE DEF nt, mst, my, calm, n
<1>2. CallSound(lo, lev, n, nt, mst, my, calm)
  BY <1>1, WritingSound
<1> QED BY <1>2 DEF OwnStep, nt, mst, my, calm, n

LEMMA DeleteLeafOwn ==
  ASSUME ShapeOK, Seen, Calm, NEW lo, NEW lev, Bounds(lo, lev), CallsSound(lo, lev), NEW w \in Workers, DeleteLeaf(w)
  PROVE  OwnStep(lo, lev, w) /\ (task'[w].pc \in AtPage => task'[w].cur \in 1..Len(pages))
<1> DEFINE tk == task[w]
           k == Key(w)
           new == LeafEntry(k, tk.call.rid)
           slot == find_slot(pages[tk.cur], k)
           e == pages[tk.cur].entries[slot.pos + 1]
<1>1. /\ index \subseteq may[w] /\ must[w] \subseteq index /\ may[w] \subseteq may'[w]
      /\ must'[w] \subseteq must[w] /\ (Sure(w)' => Sure(w)) /\ ~Idle(w) /\ KeyIn(tk) = k /\ k \in Nat /\ Stored
  BY WriteFacts DEF Work
<1>2. DOMAIN task = Workers /\ DOMAIN tk = DOMAIN NoTask /\ tk.cur \in Leaves(pages) /\ tk.cur \in 1..Len(pages)
      /\ tk.call.op = "delete" /\ tk.pc = "delete"
  BY TaskFacts DEF DeleteLeaf, PlaceOK, PcOK, AtPage
<1>3. slot.found => e = LeafEntry(k, e.rid) /\ e \in index
  BY <1>1, <1>2, KeyThere
<1>4. CASE ~Matches(pages[tk.cur], slot, tk.call.rid)
  <2>1. Return(w, "TupleNonExistent", <<>>)
    BY <1>4 DEF DeleteLeaf
  <2>2. ASSUME Sure(w)', new \in must'[w] PROVE FALSE
    <3>1. Within(lo, lev, Len(pages), tk.cur, k) /\ TreeSound(lo, lev, root, pages)
      BY <1>1, <1>2, <2>2, OwnFacts DEF CallSound, SearchSound, Searching
    <3>2. new \in index /\ new.key = k /\ new.rid = tk.call.rid
      BY <1>1, <2>2, EntryParts
    <3>3. slot.found /\ new \in ToSet(pages[tk.cur].entries)
      BY <1>1, <1>2, <3>1, <3>2, KeyNotThere
    <3>4. e = new
      <4> DEFINE es == pages[tk.cur].entries
      <4>1. IsEntries(es, LeafMax) /\ slot = Search(es, k)
        BY <1>2, ShapeFacts DEF IsLeaf, find_slot
      <4> HIDE DEF es, slot, new
      <4>2. slot.pos + 1 \in 1..Len(es) /\ es[slot.pos + 1].key = k
        BY <1>1, <3>3, <4>1, SlotFound
      <4>3. PICK i \in 1..Len(es) : es[i] = new
        BY <3>3, <4>1, EntriesShape DEF es
      <4>4. i = slot.pos + 1
        BY <3>2, <4>1, <4>2, <4>3, EntriesDistinct
      <4> QED BY <4>3, <4>4 DEF es
    <3> QED BY <1>4, <3>2, <3>3, <3>4 DEF Matches
  <2> QED BY <1>2, <2>1, <2>2, OwnReturn
<1>5. CASE Matches(pages[tk.cur], slot, tk.call.rid)
  <2>1. new \in may'[w]
    BY <1>1, <1>3, <1>5 DEF Matches
  <2>2. \/ Return(w, "ok", <<>>)
        \/ task' = [task EXCEPT ![w].pc = "merge"]
    BY <1>5 DEF DeleteLeaf
  <2>3. CASE Return(w, "ok", <<>>)
    BY <1>2, <2>1, <2>3, OwnReturn
  <2>4. CASE task' = [task EXCEPT ![w].pc = "merge"]
    <3>1. task'[w].pc = "merge" /\ task'[w].call = tk.call /\ task'[w].cur = tk.cur
      BY <1>2, <2>4 DEF NoTask
    <3> QED BY <1>1, <1>2, <2>1, <3>1, OwnWriting
  <2> QED BY <2>2, <2>3, <2>4
<1> QED BY <1>4, <1>5

LEMMA MergeOwn ==
  ASSUME ShapeOK, Seen, Calm, NEW lo, NEW lev, Bounds(lo, lev), CallsSound(lo, lev), NEW w \in Workers,
         MergeParent(w) \/ MergeSurvivor(w)
  PROVE  OwnStep(lo, lev, w) /\ (task'[w].pc \in AtPage => task'[w].cur \in 1..Len(pages))
<1> DEFINE tk == task[w]
<1>1. may[w] \subseteq may'[w] /\ PutOK(tk, may[w]) /\ KeyIn(tk) = Key(w)
  BY WriteFacts DEF Work
<1>2. DOMAIN task = Workers /\ DOMAIN tk = DOMAIN NoTask /\ tk.pc \in {"merge", "survivor"}
  BY TaskFacts DEF MergeParent, MergeSurvivor
<1>3. tk.cur \in 1..Len(pages) /\ tk.call.op = "delete"
  BY <1>2, TaskFacts DEF PlaceOK, PcOK, AtPage
<1>4. LeafEntry(KeyIn(tk), tk.call.rid) \in may'[w]
  BY <1>1, <1>2 DEF PutOK
<1>5. CASE Return(w, "ok", <<>>)
  BY <1>1, <1>3, <1>4, <1>5, OwnReturn
<1>6. CASE ~Return(w, "ok", <<>>)
  <2>1. task'[w].pc \in {"survivor", "removed"} /\ task'[w].call = tk.call /\ task'[w].cur = tk.cur
    <3>1. CASE MergeParent(w)
      BY <1>2, <1>6, <3>1 DEF MergeParent, NoTask
    <3>2. CASE MergeSurvivor(w)
      BY <1>2, <3>2 DEF MergeSurvivor, NoTask
    <3> QED BY <3>1, <3>2
  <2> QED BY <1>3, <1>4, <2>1, OwnWriting
<1> QED BY <1>5, <1>6

LEMMA LeafInsertOwn ==
  ASSUME ShapeOK, Seen, Calm, NEW lo, NEW lev, Bounds(lo, lev), CallsSound(lo, lev), NEW w \in Workers,
         LeafInsert(w) \/ LeafSplit(w)
  PROVE  OwnStep(lo, lev, w) /\ (task'[w].pc \in AtPage => task'[w].cur \in 1..Len(pages))
<1> DEFINE tk == task[w]
           k == Key(w)
           rid == tk.call.rid
           new == LeafEntry(k, rid)
           slot == find_slot(pages[tk.cur], k)
           e == pages[tk.cur].entries[slot.pos + 1]
<1>1. index \subseteq may[w] /\ may[w] \subseteq may'[w] /\ index' \subseteq may'[w] /\ KeyIn(tk) = k /\ k \in Nat /\ Stored
  BY WriteFacts DEF Work
<1>2. tk.cur \in 1..Len(pages) /\ pages[tk.cur].kind = "leaf" /\ tk.call.op = "insert" /\ tk.pc = "descend"
      /\ DOMAIN task = Workers /\ DOMAIN tk = DOMAIN NoTask
  BY TaskFacts DEF LeafInsert, LeafSplit, PlaceOK, AtPage
<1>3. tk.cur \in Leaves(pages) /\ IsLeaf(pages[tk.cur])
  BY <1>2, ShapeFacts DEF Leaves
<1>4. slot.found => \E x \in may'[w] : x.key = k
  BY <1>1, <1>3, KeyThere
<1>5. CASE LeafInsert(w)
  <2> DEFINE ins == insert_entry(pages[tk.cur], k, rid)
  <2>0. ~leaf_needs_split(pages[tk.cur])
    BY <1>5 DEF LeafInsert
  <2>1. Return(w, IF ins.err = "" THEN "ok" ELSE "PageCorruption", <<>>)
    BY <1>5 DEF LeafInsert
  <2>2. Len(pages[tk.cur].entries) \in Nat
    BY <1>3, EntriesShape DEF IsLeaf
  <2>3. Len(pages[tk.cur].entries) < LeafMax
    BY <2>0, <2>2, BTreePageAssumption DEF leaf_needs_split
  <2>4. ins.err # "" => slot.found
    <3> DEFINE pg == pages[tk.cur]
    <3>1. IsLeaf(pg) /\ Len(pg.entries) < LeafMax
      BY <1>3, <2>3
    <3> HIDE DEF pg, k, rid
    <3>2. insert_entry(pg, k, rid).err # "" => find_slot(pg, k).found
      BY <1>1, <3>1, LeafInserted
    <3> QED BY <3>2 DEF pg, k
  <2>5. \/ Return(w, "ok", <<>>)
        \/ Return(w, "PageCorruption", <<>>) /\ \E x \in may'[w] : x.key = k
    <3>1. CASE ins.err = ""
      BY <2>1, <3>1
    <3>2. CASE ins.err # ""
      BY <1>4, <2>1, <2>4, <3>2
    <3> QED BY <3>1, <3>2
  <2> QED BY <1>2, <2>5, OwnReturn
<1>6. CASE LeafSplit(w) /\ slot.found
  <2>1. Return(w, "PageCorruption", <<>>)
    BY <1>6 DEF LeafSplit
  <2> QED BY <1>2, <1>4, <1>6, <2>1, OwnReturn
<1>7. CASE LeafSplit(w) /\ ~slot.found
  <2> DEFINE sib == pages[tk.cur].next
             pc == IF sib = 0 THEN "ancestors" ELSE "sibling"
             sep == LeafHalves(pages[tk.cur], tk.cur, NewPage, new).sep
             nt == [tk EXCEPT !.pc = pc, !.leaf = tk.cur, !.sib = sib, !.sep = sep, !.child = NewPage]
  <2>0. task' = [task EXCEPT ![w] = nt]
    BY <1>2, <1>7 DEF LeafSplit, RightSibling
  <2>3. pc \in {"ancestors", "sibling"}
    OBVIOUS
  <2>1. task'[w].pc \in {"ancestors", "sibling"} /\ task'[w].call = tk.call /\ task'[w].cur = tk.cur
    <3> HIDE DEF sib, pc, sep
    <3> QED BY <1>2, <2>0, <2>3 DEF NoTask
  <2>2. new \in index'
    BY <1>7 DEF LeafSplit, Observe
  <2> QED BY <1>1, <1>2, <2>1, <2>2, OwnWriting
<1> QED BY <1>5, <1>6, <1>7

LEMMA AncestorsOwn ==
  ASSUME ShapeOK, Seen, Calm, NEW lo, NEW lev, Bounds(lo, lev), CallsSound(lo, lev), NEW w \in Workers,
         SplitSibling(w) \/ ParentInsert(w) \/ ParentSplit(w) \/ NewRoot(w)
  PROVE  OwnStep(lo, lev, w) /\ (task'[w].pc \in AtPage => task'[w].cur \in 1..Len(pages))
<1> DEFINE tk == task[w]
           k == Key(w)
           new == LeafEntry(k, tk.call.rid)
<1>1. may[w] \subseteq may'[w] /\ PutOK(tk, may[w]) /\ KeyIn(tk) = k
  BY WriteFacts DEF Work, InsertIntoAncestors
<1>2. DOMAIN task = Workers /\ DOMAIN tk = DOMAIN NoTask /\ tk.pc \in {"sibling", "ancestors"}
  BY TaskFacts DEF SplitSibling, ParentInsert, ParentSplit, NewRoot
<1>3. tk.cur \in 1..Len(pages) /\ tk.call.op = "insert"
  BY <1>2, TaskFacts DEF PlaceOK, PcOK, AtPage
<1>4. new \in may'[w] /\ new.key = k
  BY <1>1, <1>2, EntryParts DEF PutOK
<1>5. \/ Return(w, "ok", <<>>) \/ Return(w, "PageCorruption", <<>>)
      \/ task'[w].pc = "ancestors" /\ task'[w].call = tk.call /\ task'[w].cur = tk.cur
  <2>1. CASE SplitSibling(w)
    BY <1>2, <2>1 DEF SplitSibling, NoTask
  <2>2. CASE ParentInsert(w)
    BY <2>2 DEF ParentInsert
  <2>3. CASE ParentSplit(w)
    BY <1>2, <2>3 DEF ParentSplit, NoTask
  <2>4. CASE NewRoot(w)
    BY <2>4 DEF NewRoot
  <2> QED BY <2>1, <2>2, <2>3, <2>4
<1>6. CASE Return(w, "ok", <<>>) \/ Return(w, "PageCorruption", <<>>)
  BY <1>3, <1>4, <1>6, OwnReturn
<1>7. CASE task'[w].pc = "ancestors" /\ task'[w].call = tk.call /\ task'[w].cur = tk.cur
  BY <1>1, <1>3, <1>4, <1>7, OwnWriting
<1> QED BY <1>5, <1>6, <1>7

LEMMA RestOwn ==
  ASSUME ShapeOK, Seen, Calm, NEW lo, NEW lev, Bounds(lo, lev), CallsSound(lo, lev), NEW w \in Workers,
         FirstInsert(w) \/ CrabInner(w) \/ Fail(w)
  PROVE  OwnStep(lo, lev, w) /\ (task'[w].pc \in AtPage => task'[w].cur \in 1..Len(pages))
<1> DEFINE tk == task[w]
<1>1. CASE FirstInsert(w)
  <2>1. tk.pc = "first" /\ Return(w, "ok", <<>>)
    BY <1>1 DEF FirstInsert
  <2>2. tk.call.op = "insert"
    BY <2>1, TaskFacts DEF PcOK
  <2> QED BY <2>1, <2>2, OwnReturn
<1>2. CASE Fail(w)
  <2>1. Return(w, "BufferError", <<>>)
    BY <1>2 DEF Fail
  <2> QED BY <2>1, OwnFailed
<1>3. CASE CrabInner(w)
  <2> DEFINE nt == task'[w]
             mst == must'[w]
             my == may'[w]
             calm == Sure(w)'
             n == Len(pages)
             c == find_child(pages[tk.cur], Key(w))
  <2>0. ~Idle(w) /\ tk.pc = "descend" /\ tk.call.op = "insert"
    BY <1>3 DEF CrabInner, Idle
  <2>1. DOMAIN task = Workers /\ DOMAIN tk = DOMAIN NoTask /\ tk.cur \in Inners(pages) /\ Key(w) \in Nat /\ FreshOK(tk)
    <3>1. tk.cur \in 1..n
      BY <2>0, TaskFacts DEF PlaceOK, AtPage
    <3> QED BY <1>3, <2>0, <3>1, TaskFacts, OwnFacts DEF CrabInner, Inners, CallSound
  <2>2. nt.pc = "descend" /\ nt.cur = c /\ nt.call = tk.call /\ nt.first = tk.first /\ nt.out = tk.out
    BY <1>3, <2>0, <2>1 DEF CrabInner, NoTask
  <2>3. c \in 1..n
    <3>1. IsEntries(pages[tk.cur].entries, InnerMax) /\ Children(pages[tk.cur]) \subseteq 1..n
      BY <2>1, ShapeFacts DEF IsInner
    <3> DEFINE pg == pages[tk.cur]
               k == Key(w)
    <3> HIDE DEF pg, k
    <3>2. find_child(pg, k) \in Children(pg)
      <4>1. IsEntries(pg.entries, InnerMax) /\ k \in Int
        BY <2>1, <3>1 DEF pg, k
      <4> QED BY <4>1, FindChildIn
    <3> QED BY <3>1, <3>2 DEF pg, k
  <2>4. nt.first /\ nt.out = <<>>
    BY <2>0, <2>1, <2>2 DEF FreshOK
  <2> HIDE DEF nt, mst, my, calm, n, c
  <2>5. CallSound(lo, lev, n, nt, mst, my, calm)
    BY <2>0, <2>2, <2>4 DEF CallSound, SearchSound, Searching, ScanSound, ScanOK, PutOK, FreshOK, AnswerOK
  <2> QED BY <2>2, <2>3, <2>5 DEF OwnStep, nt, mst, my, calm, n
<1> QED BY <1>1, <1>2, <1>3

-----------------------------------------------------------------------------
(* The loop of a scan over one leaf *)

(* The loop of the scan over the entries of a leaf. *)
ReadNext(w, e, so) ==
  IF so.done \/ BeforeStart(w, e) THEN so
  ELSE IF PastEnd(w, e) THEN [buf |-> so.buf, done |-> TRUE]
  ELSE [buf |-> Append(so.buf, e), done |-> FALSE]

IsRead(w, es, r) ==
  r = [i \in 0..Len(es) |-> IF i = 0 THEN [buf |-> <<>>, done |-> FALSE] ELSE ReadNext(w, es[i], r[i - 1])]

LEMMA ReadExists ==
  ASSUME NEW w, NEW es, IsSeq(es)
  PROVE  \E r : IsRead(w, es, r)
<1> DEFINE B == [buf : Seq(ToSet(es)), done : BOOLEAN]
           a == [buf |-> <<>>, done |-> FALSE]
           n == Len(es)
           F == [i \in 1..n |-> [so \in B |-> ReadNext(w, es[i], so)]]
<1>1. a \in B
  BY EmptySeq
<1>2. n \in Nat /\ \A i \in 1..n : es[i] \in ToSet(es)
  BY SeqShape
<1>3. ASSUME NEW i \in 1..n, NEW so \in B PROVE ReadNext(w, es[i], so) \in B
  <2>1. Append(so.buf, es[i]) \in Seq(ToSet(es))
    <3>1. so.buf \in Seq(ToSet(es)) /\ es[i] \in ToSet(es)
      BY <1>2
    <3> QED BY <3>1, AppendProperties
  <2> QED BY <2>1 DEF ReadNext
<1>4. F \in [1..n -> [B -> B]]
  BY <1>3
<1>5. PICK g \in [0..n -> B] : IsLoop(g, a, n, F)
  <2> HIDE DEF F, B, a, n
  <2> QED BY <1>1, <1>2, <1>4, LoopExists
<1>6. \A i \in 0..n : g[i] = IF i = 0 THEN a ELSE ReadNext(w, es[i], g[i - 1])
  <2> SUFFICES ASSUME NEW i \in 0..n PROVE g[i] = IF i = 0 THEN a ELSE ReadNext(w, es[i], g[i - 1])
    OBVIOUS
  <2>1. CASE i = 0
    BY <1>5, <2>1 DEF IsLoop
  <2>2. CASE i # 0
    <3>1. i \in 1..n /\ i - 1 \in 0..n
      BY <1>2, <2>2
    <3>2. g[i - 1] \in B /\ g[i] = F[i][g[i - 1]]
      BY <1>5, <3>1 DEF IsLoop
    <3> QED BY <2>2, <3>1, <3>2
  <2> QED BY <2>1, <2>2
<1>7. g = [i \in 0..n |-> IF i = 0 THEN a ELSE ReadNext(w, es[i], g[i - 1])]
  BY <1>6
<1> QED BY <1>7 DEF IsRead

LEMMA BufferedIs ==
  ASSUME NEW w, NEW es, IsSeq(es)
  PROVE  \E r : IsRead(w, es, r) /\ Buffered(w, es) = r[Len(es)]
<1> DEFINE Eq(r) == r = [i \in 0..Len(es) |->
                           IF i = 0 THEN [buf |-> <<>>, done |-> FALSE]
                           ELSE LET so == r[i - 1]
                                IN  IF so.done \/ BeforeStart(w, es[i]) THEN so
                                    ELSE IF PastEnd(w, es[i]) THEN [buf |-> so.buf, done |-> TRUE]
                                    ELSE [buf |-> Append(so.buf, es[i]), done |-> FALSE]]
           read == CHOOSE r : Eq(r)
<1>1. \A r : Eq(r) <=> IsRead(w, es, r)
  BY DEF IsRead, ReadNext
<1>2. Buffered(w, es) = read[Len(es)]
  BY DEF Buffered
<1>3. \E r : Eq(r)
  BY <1>1, ReadExists
<1>4. Eq(read)
  <2> HIDE DEF Eq
  <2> QED BY <1>3
<1> HIDE DEF Eq, read
<1> QED BY <1>1, <1>2, <1>4

(* One more entry, after the others. *)
LEMMA AppendAscending ==
  ASSUME NEW E, NEW s \in Seq(E), NEW e \in E, Ascending(s), \A x \in ToSet(s) : x.key < e.key
  PROVE  /\ Append(s, e) \in Seq(E) /\ Ascending(Append(s, e))
         /\ \A x : x \in ToSet(Append(s, e)) <=> x \in ToSet(s) \/ x = e
<1> DEFINE t == <<e>>
<1>1. t \in Seq(E) /\ Len(t) = 1 /\ t[1] = e
  OBVIOUS
<1>2. \A x : x \in ToSet(t) <=> x = e
  BY DEF ToSet
<1>3. Ascending(t)
  BY <1>1 DEF Ascending
<1>4. Append(s, e) = s \o t
  BY AppendIsConcat
<1> HIDE DEF t
<1>5. Ascending(s \o t)
  BY <1>1, <1>2, <1>3, ConcatAscending
<1>6. s \o t \in Seq(E) /\ \A x : x \in ToSet(s \o t) <=> x \in ToSet(s) \/ x \in ToSet(t)
  BY <1>1, ConcatSeq
<1> QED BY <1>2, <1>4, <1>5, <1>6

(* What the loop has buffered after i entries. *)
ReadSoFar(w, es, i, so) ==
  /\ so.buf \in Seq(ToSet(es)) /\ Ascending(so.buf)
  /\ \A x \in ToSet(so.buf) : (\E j \in 1..i : x = es[j]) /\ ~BeforeStart(w, x) /\ ~PastEnd(w, x)
  /\ so.done \/ \A j \in 1..i : BeforeStart(w, es[j]) \/ es[j] \in ToSet(so.buf)
  /\ task[w].call.end = {} => ~so.done

LEMMA ReadStepOn ==
  ASSUME NEW w, NEW es, NEW max, IsEntries(es, max), NEW i \in 0..(Len(es) - 1), NEW so, ReadSoFar(w, es, i, so)
  PROVE  ReadSoFar(w, es, i + 1, ReadNext(w, es[i + 1], so))
<1> DEFINE m == i + 1
           e == es[m]
<1>0. Len(es) \in Nat /\ \A a, b \in 1..Len(es) : a < b => es[a].key < es[b].key
  BY EntriesShape
<1>1. m \in 1..Len(es) /\ e \in ToSet(es) /\ \A j \in 1..i : j \in 1..Len(es) /\ es[j].key < e.key
  <2>1. m \in 1..Len(es) /\ \A j \in 1..i : j \in 1..Len(es) /\ j < m
    BY <1>0
  <2> QED BY <1>0, <2>1, EntriesShape
<1>2. \A j : j \in 1..m <=> j \in 1..i \/ j = m
  BY <1>0
<1>3. CASE so.done \/ BeforeStart(w, e)
  <2>1. ReadNext(w, e, so) = so
    BY <1>3 DEF ReadNext
  <2>2. ReadSoFar(w, es, m, so)
    <3> HIDE DEF m
    <3>1. so.done \/ \A j \in 1..m : BeforeStart(w, es[j]) \/ es[j] \in ToSet(so.buf)
      BY <1>2, <1>3 DEF ReadSoFar
    <3> QED BY <1>2, <3>1 DEF ReadSoFar
  <2> QED BY <2>1, <2>2
<1>4. CASE ~so.done /\ ~BeforeStart(w, e) /\ PastEnd(w, e)
  <2> DEFINE t == [buf |-> so.buf, done |-> TRUE]
  <2>1. ReadNext(w, e, so) = t
    BY <1>4 DEF ReadNext
  <2>2. t.buf = so.buf /\ t.done
    OBVIOUS
  <2>3. task[w].call.end # {}
    BY <1>4 DEF PastEnd
  <2>4. ReadSoFar(w, es, m, t)
    <3> HIDE DEF t, m
    <3> QED BY <1>2, <2>2, <2>3 DEF ReadSoFar
  <2> QED BY <2>1, <2>4
<1>5. CASE ~so.done /\ ~BeforeStart(w, e) /\ ~PastEnd(w, e)
  <2> DEFINE t == [buf |-> Append(so.buf, e), done |-> FALSE]
             more == Append(so.buf, e)
  <2>1. ReadNext(w, e, so) = t
    BY <1>5 DEF ReadNext
  <2>2. t.buf = more /\ ~t.done
    OBVIOUS
  <2>3. so.buf \in Seq(ToSet(es)) /\ Ascending(so.buf) /\ \A x \in ToSet(so.buf) : x.key < e.key
    BY <1>1 DEF ReadSoFar
  <2>4. /\ more \in Seq(ToSet(es)) /\ Ascending(more)
        /\ \A x : x \in ToSet(more) <=> x \in ToSet(so.buf) \/ x = e
    <3> HIDE DEF e
    <3> QED BY <1>1, <2>3, AppendAscending
  <2>5. ReadSoFar(w, es, m, t)
    <3>1. \A x \in ToSet(more) : (\E j \in 1..m : x = es[j]) /\ ~BeforeStart(w, x) /\ ~PastEnd(w, x)
      <4> HIDE DEF more, m
      <4> QED BY <1>2, <1>5, <2>4 DEF ReadSoFar
    <3>2. \A j \in 1..m : BeforeStart(w, es[j]) \/ es[j] \in ToSet(more)
      <4> HIDE DEF more, m
      <4> QED BY <1>2, <1>5, <2>4 DEF ReadSoFar
    <3> HIDE DEF t, m, more
    <3> QED BY <2>2, <2>4, <3>1, <3>2 DEF ReadSoFar
  <2> QED BY <2>1, <2>5
<1> QED BY <1>3, <1>4, <1>5

LEMMA BufferedSound ==
  ASSUME NEW w, NEW es, NEW max, IsEntries(es, max)
  PROVE  ReadSoFar(w, es, Len(es), Buffered(w, es))
<1> DEFINE n == Len(es)
<1>0. IsSeq(es) /\ n \in Nat
  BY EntriesShape DEF IsSeq, IsEntries
<1>1. PICK r : IsRead(w, es, r) /\ Buffered(w, es) = r[n]
  BY <1>0, BufferedIs
<1>2. \A i \in 0..n : r[i] = IF i = 0 THEN [buf |-> <<>>, done |-> FALSE] ELSE ReadNext(w, es[i], r[i - 1])
  BY <1>1 DEF IsRead
<1> DEFINE S == {i \in 0..n : ReadSoFar(w, es, i, r[i])}
<1>3. 0 \in S
  <2> DEFINE so == r[0]
  <2>1. 0 \in 0..n
    BY <1>0
  <2>2. so.buf = <<>> /\ so.done = FALSE
    BY <1>2, <2>1
  <2>3. <<>> \in Seq(ToSet(es)) /\ ToSet(<<>>) = {} /\ Ascending(<<>>) /\ 1..0 = {}
    BY EmptyIsSeq, EmptySeq DEF Ascending
  <2> HIDE DEF so
  <2>4. ReadSoFar(w, es, 0, so)
    BY <2>2, <2>3 DEF ReadSoFar
  <2> QED BY <2>1, <2>4 DEF so
<1>4. ASSUME NEW i \in 0..(n - 1), i \in S PROVE i + 1 \in S
  <2>1. i + 1 \in 0..n /\ i \in 0..n /\ i + 1 # 0 /\ (i + 1) - 1 = i
    BY <1>0
  <2>2. r[i + 1] = ReadNext(w, es[i + 1], r[i])
    BY <1>2, <2>1
  <2>3. ReadSoFar(w, es, i, r[i])
    BY <1>4
  <2>4. ReadSoFar(w, es, i + 1, ReadNext(w, es[i + 1], r[i]))
    BY <2>3, ReadStepOn
  <2> QED BY <2>1, <2>2, <2>4
<1>5. \A i \in 0..n : i \in S
  <2>1. \A i \in 0..(n - 1) : i \in S => i + 1 \in S
    BY <1>4
  <2> HIDE DEF S, n
  <2> QED BY <1>0, <1>3, <2>1, BoundedInduction
<1>6. n \in S
  BY <1>0, <1>5
<1> QED BY <1>1, <1>6

(* What the scan gives of a leaf. *)
YieldOK(w, es, y, done) ==
  /\ y \in Seq(ToSet(es)) /\ Ascending(y)
  /\ \A x \in ToSet(y) : x \in ToSet(es) /\ ~BeforeStart(w, x) /\ ~PastEnd(w, x)
  /\ task[w].call.end = {} => ~done /\ \A x \in ToSet(es) : BeforeStart(w, x) \/ x \in ToSet(y)

LEMMA YieldedSound ==
  ASSUME NEW w, NEW es, NEW max, IsEntries(es, max)
  PROVE  YieldOK(w, es, Yielded(Buffered(w, es)), Buffered(w, es).done)
<1> DEFINE so == Buffered(w, es)
           y == Yielded(so)
           E == ToSet(es)
<1>1. ReadSoFar(w, es, Len(es), so)
  BY BufferedSound
<1>2. \A x : x \in E <=> \E i \in 1..Len(es) : es[i] = x
  BY EntriesShape
<1> HIDE DEF so, E
<1>3. so.buf \in Seq(E) /\ Ascending(so.buf)
  BY <1>1 DEF ReadSoFar, E
<1>4. y \in Seq(E) /\ Ascending(y) /\ (\A x \in ToSet(y) : x \in ToSet(so.buf)) /\ (~so.done => y = so.buf)
  <2>1. CASE so.done /\ so.buf # <<>>
    <3> DEFINE t == <<so.buf[1]>>
    <3>1. y = t
      BY <2>1 DEF Yielded
    <3>2. Len(so.buf) \in Nat \ {0} /\ DOMAIN so.buf = 1..Len(so.buf)
      BY <1>3, <2>1, EmptySeq, LenProperties
    <3>3. so.buf[1] \in E /\ so.buf[1] \in ToSet(so.buf)
      <4>1. 1 \in 1..Len(so.buf)
        BY <3>2
      <4> QED BY <1>3, <3>2, <4>1, ElementOfSeq DEF ToSet
    <3>4. t \in Seq(E) /\ Len(t) = 1 /\ \A x : x \in ToSet(t) <=> x = so.buf[1]
      BY <3>3 DEF ToSet
    <3>5. Ascending(t)
      BY <3>4 DEF Ascending
    <3> HIDE DEF t, y
    <3> QED BY <2>1, <3>1, <3>3, <3>4, <3>5
  <2>2. CASE ~(so.done /\ so.buf # <<>>)
    <3>1. y = so.buf
      BY <2>2 DEF Yielded
    <3> QED BY <1>3, <3>1
  <2> QED BY <2>1, <2>2
<1> HIDE DEF y
<1>5. \A x \in ToSet(y) : x \in E /\ ~BeforeStart(w, x) /\ ~PastEnd(w, x)
  <2> SUFFICES ASSUME NEW x \in ToSet(y) PROVE x \in E /\ ~BeforeStart(w, x) /\ ~PastEnd(w, x)
    OBVIOUS
  <2>1. (\E j \in 1..Len(es) : x = es[j]) /\ ~BeforeStart(w, x) /\ ~PastEnd(w, x)
    BY <1>1, <1>4 DEF ReadSoFar
  <2> QED BY <1>2, <2>1
<1>6. ASSUME task[w].call.end = {} PROVE ~so.done /\ \A x \in E : BeforeStart(w, x) \/ x \in ToSet(y)
  <2>1. ~so.done /\ y = so.buf
    BY <1>1, <1>4, <1>6 DEF ReadSoFar
  <2>2. \A j \in 1..Len(es) : BeforeStart(w, es[j]) \/ es[j] \in ToSet(y)
    BY <1>1, <2>1 DEF ReadSoFar
  <2> QED BY <1>2, <2>1, <2>2
<1> QED BY <1>4, <1>5, <1>6 DEF YieldOK, y, so, E

LEMMA SeqMono == ASSUME NEW S, NEW T, S \subseteq T, NEW s \in Seq(S) PROVE s \in Seq(T)
<1>1. Len(s) \in Nat /\ DOMAIN s = 1..Len(s) /\ \A i \in 1..Len(s) : s[i] \in T
  BY LenProperties, ElementOfSeq
<1> QED BY <1>1

LEMMA GivesMore ==
  ASSUME NEW s, NEW y, IsSeq(s), Ascending(s), IsSeq(y), Ascending(y), \A x \in ToSet(s) : \A z \in ToSet(y) : x.key < z.key
  PROVE  IsSeq(s \o y) /\ Ascending(s \o y) /\ \A x : x \in ToSet(s \o y) <=> x \in ToSet(s) \/ x \in ToSet(y)
<1> DEFINE E == ToSet(s) \cup ToSet(y)
<1>1. s \in Seq(E) /\ y \in Seq(E)
  <2>1. s \in Seq(ToSet(s)) /\ y \in Seq(ToSet(y)) /\ ToSet(s) \subseteq E /\ ToSet(y) \subseteq E
    BY DEF IsSeq
  <2> HIDE DEF E
  <2> QED BY <2>1, SeqMono
<1> HIDE DEF E
<1>2. s \o y \in Seq(E) /\ \A x : x \in ToSet(s \o y) <=> x \in ToSet(s) \/ x \in ToSet(y)
  BY <1>1, ConcatSeq
<1>3. Ascending(s \o y)
  BY <1>1, ConcatAscending
<1> QED BY <1>2, <1>3, OwnSet DEF IsSeq

(* An entry of the index lies in its leaf, at or after the leaf cur that   *)
(* begins before it.                                                       *)
LEMMA EntryPlace ==
  ASSUME ShapeOK, NEW lo, NEW lev, TreeSound(lo, lev, root, pages), Stored, NEW cur \in Leaves(pages), NEW e \in index,
         lo[cur] <= e.key
  PROVE  \/ e \in ToSet(pages[cur].entries)
         \/ pages[cur].next # 0 /\ lo[pages[cur].next] <= e.key
<1> DEFINE A == Leaves(pages)
           n == Len(pages)
           next == pages[cur].next
<1>1. PICK r \in A : e \in ToSet(pages[r].entries)
  BY DEF Stored
<1>2. Within(lo, lev, n, r, e.key) /\ e.key \in Nat
  BY <1>1, LeafKeys
<1>3. lo[r] \in Int /\ lo[cur] \in Int /\ lev[r] = lev[cur] /\ cur \in 1..n /\ r \in 1..n
      /\ (next # 0 => lo[next] \in Int)
  <2>1. \A q \in A : q \in PageIds /\ lo[q] \in Int /\ lev[q] = 0 /\ q \in 1..n
    BY GroundLevel, ShapeFacts DEF TreeSound, IsBounds
  <2>2. next # 0 => next \in A
    BY ShapeFacts
  <2> QED BY <2>1, <2>2
<1>4. Ordered(A, LeafEs, LeafNx, lo)
  BY LeavesOrdered
<1>5. LeafNx[cur] = next
  BY DEF LeafNx
<1> HIDE DEF A, next, n
<1>6. /\ lo[cur] = lo[r] => cur = r
      /\ next = 0 => lo[r] <= lo[cur]
      /\ next # 0 => lo[cur] < lo[next] /\ (lo[cur] < lo[r] => lo[next] <= lo[r])
  BY <1>1, <1>4, <1>5 DEF Ordered, A
<1>7. lo[r] <= e.key /\ (lo[r] < lo[cur] => e.key < lo[cur])
  BY <1>2, <1>3 DEF Within
<1>8. CASE r = cur
  BY <1>1, <1>8
<1>9. CASE r # cur
  <2>1. lo[cur] < lo[r]
    BY <1>2, <1>3, <1>6, <1>7, <1>9
  <2>2. next # 0 /\ lo[next] <= lo[r]
    BY <1>3, <1>6, <2>1
  <2> QED BY <1>2, <1>3, <1>7, <2>2 DEF next
<1> QED BY <1>8, <1>9

(* What the scan has given after the leaf. *)
LEMMA ScanGives ==
  ASSUME ShapeOK, Seen, Calm, NEW lo, NEW lev, Bounds(lo, lev), CallsSound(lo, lev), NEW w \in Workers,
         task[w].pc = "scan", NEW es, es = pages[task[w].cur].entries, NEW y, NEW done, YieldOK(w, es, y, done),
         NEW out, out = task[w].out \o y
  PROVE  /\ IsSeq(out) /\ Ascending(out)
         /\ \A e \in ToSet(out) : /\ e \in may[w] /\ e.key \in Nat /\ ~PastEnd(w, e)
                                  /\ Sure(w) => KeyIn(task[w]) <= e.key
                                  /\ \/ e.key < lo[task[w].cur] /\ ~task[w].first
                                     \/ e \in ToSet(es)
         /\ task[w].call.end = {} => \A e \in must[w] : KeyIn(task[w]) <= e.key =>
              \/ e \in ToSet(out)
              \/ pages[task[w].cur].next # 0 /\ lo[pages[task[w].cur].next] <= e.key
<1> DEFINE tk == task[w]
           cur == tk.cur
           k == KeyIn(tk)
           calm == Sure(w)
           mst == must[w]
           my == may[w]
           n == Len(pages)
<1>0. /\ CallSound(lo, lev, n, tk, mst, my, calm) /\ index \subseteq my /\ mst \subseteq index
      /\ k \in Nat /\ TreeSound(lo, lev, root, pages) /\ Stored /\ Key(w) = k
  BY OwnFacts DEF Idle
<1>1. cur \in Leaves(pages)
  BY TaskFacts DEF PlaceOK, AtPage
<1>2. lo[cur] \in Int
  BY <1>0, <1>1, ShapeFacts DEF TreeSound, IsBounds
<1>3. \A x \in ToSet(es) : x.key \in Nat /\ lo[cur] <= x.key /\ x \in index
  <2> SUFFICES ASSUME NEW x \in ToSet(es) PROVE x.key \in Nat /\ lo[cur] <= x.key /\ x \in index
    OBVIOUS
  <2>1. Within(lo, lev, n, cur, x.key) /\ x.key \in Nat
    BY <1>0, <1>1, LeafKeys
  <2> QED BY <1>0, <1>1, <2>1 DEF Within, Stored
<1>4. ScanSound(lo, tk, mst, my, calm) /\ (tk.first => lo[cur] <= k)
  BY <1>0 DEF CallSound, SearchSound, Searching
<1>5. /\ IsSeq(tk.out) /\ Ascending(tk.out)
      /\ \A e \in ToSet(tk.out) : e \in my /\ e.key \in Nat /\ ~PastEnd(w, e) /\ (calm => k <= e.key)
      /\ tk.first => ToSet(tk.out) = {}
      /\ ~tk.first => (calm => k < lo[cur]) /\ \A e \in ToSet(tk.out) : e.key < lo[cur]
      /\ tk.call.end = {} => \A e \in mst : k <= e.key => e \in ToSet(tk.out) \/ lo[cur] <= e.key
  <2>1. Gives(tk, my, calm)
    BY <1>4 DEF ScanSound
  <2>2. IsSeq(tk.out) /\ Ascending(tk.out)
        /\ \A e \in ToSet(tk.out) : e \in my /\ e.key \in Nat /\ ~PastEnd(w, e) /\ (calm => k <= e.key)
    BY <2>1 DEF Gives, PastEnd
  <2>3. tk.first => ToSet(tk.out) = {}
    BY <1>4, EmptyIsSeq DEF ScanSound
  <2> QED BY <1>4, <2>2, <2>3 DEF ScanSound
<1>6. IsSeq(y) /\ Ascending(y) /\ \A x \in ToSet(y) : x \in ToSet(es) /\ ~BeforeStart(w, x) /\ ~PastEnd(w, x)
  BY OwnSet DEF YieldOK, IsSeq
<1>7. \A x \in ToSet(tk.out) : \A z \in ToSet(y) : x.key < z.key
  <2> SUFFICES ASSUME NEW x \in ToSet(tk.out), NEW z \in ToSet(y) PROVE x.key < z.key
    OBVIOUS
  <2>1. x.key < lo[cur] /\ x.key \in Nat
    BY <1>5
  <2>2. lo[cur] <= z.key /\ z.key \in Nat
    BY <1>3, <1>6
  <2> HIDE DEF cur, tk
  <2> QED BY <1>2, <2>1, <2>2
<1>8. IsSeq(out) /\ Ascending(out) /\ \A x : x \in ToSet(out) <=> x \in ToSet(tk.out) \/ x \in ToSet(y)
  <2> DEFINE s == tk.out
  <2>1. IsSeq(s) /\ Ascending(s) /\ \A x \in ToSet(s) : \A z \in ToSet(y) : x.key < z.key
    BY <1>5, <1>7
  <2> HIDE DEF s
  <2>2. IsSeq(s \o y) /\ Ascending(s \o y) /\ \A x : x \in ToSet(s \o y) <=> x \in ToSet(s) \/ x \in ToSet(y)
    BY <1>6, <2>1, GivesMore
  <2> QED BY <2>2 DEF s
<1>9. ASSUME NEW e \in ToSet(out)
      PROVE  /\ e \in my /\ e.key \in Nat /\ ~PastEnd(w, e) /\ (calm => k <= e.key)
             /\ (e.key < lo[cur] /\ ~tk.first) \/ e \in ToSet(es)
  <2>1. CASE e \in ToSet(tk.out)
    BY <1>5, <2>1
  <2>2. CASE e \in ToSet(y)
    <3>1. e \in ToSet(es) /\ e \in my /\ e.key \in Nat /\ lo[cur] <= e.key /\ ~BeforeStart(w, e) /\ ~PastEnd(w, e)
      BY <1>0, <1>3, <1>6, <2>2
    <3>2. tk.first => k <= e.key
      <4>1. tk.first => ~(e.key < k)
        BY <1>0, <3>1 DEF BeforeStart
      <4> HIDE DEF k
      <4> QED BY <1>0, <3>1, <4>1
    <3>3. ~tk.first /\ calm => k <= e.key
      <4>1. ~tk.first /\ calm => k < lo[cur]
        BY <1>5
      <4> HIDE DEF k, cur
      <4> QED BY <1>0, <1>2, <3>1, <4>1
    <3> QED BY <3>1, <3>2, <3>3
  <2> QED BY <1>8, <2>1, <2>2
<1>10. ASSUME tk.call.end = {}, NEW e \in mst, k <= e.key, e \notin ToSet(out)
       PROVE  pages[cur].next # 0 /\ lo[pages[cur].next] <= e.key
  <2>1. lo[cur] <= e.key /\ e \in index
    BY <1>0, <1>5, <1>8, <1>10
  <2>2. e \notin ToSet(es)
    <3> SUFFICES ASSUME e \in ToSet(es) PROVE FALSE
      OBVIOUS
    <3>1. BeforeStart(w, e)
      BY <1>8, <1>10 DEF YieldOK
    <3>2. e.key < k /\ e.key \in Nat
      BY <1>0, <1>3, <3>1 DEF BeforeStart
    <3> HIDE DEF k
    <3> QED BY <1>0, <1>10, <3>2
  <2> QED BY <1>0, <1>1, <2>1, <2>2, EntryPlace
<1> QED BY <1>8, <1>9, <1>10

LEMMA ScanLeafOwn ==
  ASSUME ShapeOK, Seen, Calm, NEW lo, NEW lev, Bounds(lo, lev), CallsSound(lo, lev), NEW w \in Workers, ScanLeaf(w)
  PROVE  OwnStep(lo, lev, w) /\ (task'[w].pc \in AtPage => task'[w].cur \in 1..Len(pages))
<1> DEFINE tk == task[w]
           cur == tk.cur
           n == Len(pages)
           k == KeyIn(tk)
           mst == must[w]
           my == may[w]
           calm == Sure(w)
           nt == task'[w]
           es == pages[cur].entries
           next == pages[cur].next
           so == Buffered(w, es)
           done == so.done
           y == Yielded(so)
           out == tk.out \o y
<1>0. tk.pc = "scan" /\ ~Idle(w) /\ UNCHANGED histVars
  BY DEF ScanLeaf, Idle
<1>1. /\ CallSound(lo, lev, n, tk, mst, my, calm) /\ k \in Nat /\ TreeSound(lo, lev, root, pages)
  BY <1>0, OwnFacts
<1>2. cur \in Leaves(pages) /\ tk.call.op = "scan" /\ DOMAIN task = Workers /\ DOMAIN tk = DOMAIN NoTask
  BY <1>0, TaskFacts DEF PlaceOK, PcOK, AtPage
<1>3. /\ IsLeaf(pages[cur]) /\ cur \in 1..n /\ next \in Leaves(pages) \cup {0}
      /\ (next # 0 => next \in 1..n)
  BY <1>2, ShapeFacts
<1>4. YieldOK(w, es, y, done)
  BY <1>3, YieldedSound DEF IsLeaf
<1>5. /\ IsSeq(out) /\ Ascending(out)
      /\ \A e \in ToSet(out) : /\ e \in my /\ e.key \in Nat /\ ~PastEnd(w, e)
                               /\ calm => k <= e.key
                               /\ \/ e.key < lo[cur] /\ ~tk.first
                                  \/ e \in ToSet(es)
      /\ tk.call.end = {} => \A e \in mst : k <= e.key => e \in ToSet(out) \/ (next # 0 /\ lo[next] <= e.key)
  <2> HIDE DEF y, done
  <2> QED BY <1>0, <1>4, ScanGives
<1>6. tk.call.end = {} => ~done
  <2> HIDE DEF y, done
  <2> QED BY <1>4 DEF YieldOK
<1>7. CASE next = 0 \/ done
  <2>1. nt = Finished(tk.call, "ok", out)
    <3>1. Return(w, "ok", out)
      BY <1>7 DEF ScanLeaf
    <3> HIDE DEF out
    <3> QED BY <3>1, ReturnAlone
  <2> HIDE DEF out
  <2>2. nt.pc = "done" /\ nt.call = tk.call /\ nt.res = "ok" /\ nt.out = out /\ KeyIn(nt) = k
    BY <2>1, FinishedParts DEF KeyIn
  <2> HIDE DEF nt, mst, my, calm, n, k, done
  <2>3. Gives(nt, my, calm)
    BY <1>5, <2>2 DEF Gives, PastEnd
  <2>4. ScanOK(nt, mst, my, calm) /\ AnswerOK(nt, mst, my, calm)
    BY <1>2, <1>5, <1>6, <1>7, <2>2, <2>3 DEF ScanOK, AnswerOK
  <2>5. CallSound(lo, lev, n, nt, mst, my, calm)
    BY <2>1, <2>4, FinishedSound
  <2> QED BY <1>0, <2>2, <2>5, ReadStep DEF AtPage, n, nt, mst, my, calm
<1>8. CASE ~(next = 0 \/ done)
  <2>1. task' = [task EXCEPT ![w] = [tk EXCEPT !.cur = next, !.first = FALSE, !.out = out]]
    BY <1>2, <1>8 DEF ScanLeaf, NoTask
  <2> HIDE DEF out
  <2>2. nt = [tk EXCEPT !.cur = next, !.first = FALSE, !.out = out]
    BY <1>2, <2>1
  <2>3. nt.pc = "scan" /\ nt.cur = next /\ ~nt.first /\ nt.out = out /\ nt.call = tk.call /\ KeyIn(nt) = k
    BY <1>0, <1>2, <2>2 DEF NoTask, KeyIn
  <2>4. next # 0 /\ next \in 1..n /\ next \in Leaves(pages)
    BY <1>3, <1>8
  <2>5. lo[cur] < lo[next] /\ lo[cur] \in Int /\ lo[next] \in Int /\ lev[next] = lev[cur]
        /\ \A e \in ToSet(es) : e.key < lo[next]
    <3>1. Ordered(Leaves(pages), LeafEs, LeafNx, lo)
      BY <1>1, LeavesOrdered
    <3>2. LeafNx[cur] = next /\ LeafEs[cur] = es
      BY <1>2 DEF LeafNx, LeafEs
    <3>3. lev[next] = 0 /\ lev[cur] = 0
      BY <1>1, <1>2, <1>3, <2>4, GroundLevel
    <3> HIDE DEF es, next, cur, n
    <3> QED BY <1>2, <2>4, <3>1, <3>2, <3>3 DEF Ordered
  <2>6. calm => k < lo[next]
    <3>1. /\ tk.first /\ calm => Within(lo, lev, n, cur, k)
          /\ ~tk.first /\ calm => k < lo[cur]
      BY <1>0, <1>1 DEF CallSound, SearchSound, Searching, ScanSound
    <3> HIDE DEF calm, n, next, cur, k, tk
    <3>2. tk.first /\ calm => k < lo[next]
      BY <2>4, <2>5, <3>1 DEF Within
    <3>3. ~tk.first /\ calm => k < lo[next]
      BY <1>1, <2>5, <3>1
    <3> QED BY <3>2, <3>3
  <2>7. \A e \in ToSet(out) : e.key < lo[next]
    <3> SUFFICES ASSUME NEW e \in ToSet(out) PROVE e.key < lo[next]
      OBVIOUS
    <3>1. e.key \in Nat /\ (e.key < lo[cur] \/ e \in ToSet(es))
      BY <1>5
    <3> HIDE DEF next, cur, es
    <3> QED BY <2>5, <3>1
  <2> HIDE DEF nt, mst, my, calm, n, k, done, next, cur, es
  <2>8. Gives(nt, my, calm)
    BY <1>5, <2>3 DEF Gives, PastEnd
  <2>9. ScanSound(lo, nt, mst, my, calm)
    BY <1>5, <2>3, <2>4, <2>6, <2>7, <2>8 DEF ScanSound
  <2>10. SearchSound(lo, lev, n, nt, calm) /\ ScanOK(nt, mst, my, calm) /\ PutOK(nt, my) /\ FreshOK(nt)
         /\ AnswerOK(nt, mst, my, calm)
    BY <2>3 DEF SearchSound, Searching, ScanOK, PutOK, FreshOK, AnswerOK
  <2>11. CallSound(lo, lev, n, nt, mst, my, calm)
    BY <2>9, <2>10 DEF CallSound
  <2> QED BY <1>0, <2>3, <2>4, <2>11, ReadStep DEF n, nt, mst, my, calm
<1> QED BY <1>7, <1>8

-----------------------------------------------------------------------------
(* The answers are exact *)

LEMMA WorkOwn ==
  ASSUME ShapeOK, Seen, Calm, NEW lo, NEW lev, Bounds(lo, lev), CallsSound(lo, lev), NEW w \in Workers, Work(w) \/ Fail(w)
  PROVE  OwnStep(lo, lev, w) /\ (task'[w].pc \in AtPage => task'[w].cur \in 1..Len(pages))
<1>1. CASE ReadRoot(w) \/ Descend(w) \/ Get(w) \/ ScanLeaf(w)
  BY <1>1, ReadRootOwn, DescendOwn, GetOwn, ScanLeafOwn
<1>2. CASE DeleteLeaf(w) \/ MergeParent(w) \/ MergeSurvivor(w)
  BY <1>2, DeleteLeafOwn, MergeOwn
<1>3. CASE LeafInsert(w) \/ LeafSplit(w) \/ SplitSibling(w) \/ InsertIntoAncestors(w)
  BY <1>3, LeafInsertOwn, AncestorsOwn DEF InsertIntoAncestors
<1>4. CASE FirstInsert(w) \/ CrabInner(w) \/ Fail(w)
  BY <1>4, RestOwn
<1> QED BY <1>1, <1>2, <1>3, <1>4 DEF Work

(* A call that begins knows nothing. *)
LEMMA FreshSound ==
  ASSUME NEW lo, NEW lev, NEW n, NEW tk, NEW mst, NEW my, NEW calm, tk.pc \in {"root", "idle"}, tk.first, tk.out = <<>>
  PROVE  CallSound(lo, lev, n, tk, mst, my, calm)
BY DEF CallSound, SearchSound, Searching, ScanSound, ScanOK, PutOK, FreshOK, AnswerOK

(* What was known of a call that takes no step. *)
LEMMA RestKept ==
  ASSUME ShapeOK, NEW lo, NEW lev, CallsSound(lo, lev), NEW lo2, NEW lev2, Same(lo, lev, Len(pages), lo2, lev2),
         Len(pages') = Len(pages), NEW v \in Workers, task'[v] = task[v], HistKept(v), torn => torn'
  PROVE  CallSound(lo2, lev2, Len(pages'), task'[v], must'[v], may'[v], Sure(v)')
<1> DEFINE tk == task[v]
           tk2 == task'[v]
           calm == Sure(v)
           calm2 == Sure(v)'
           mst == must[v]
           my == may[v]
           mst2 == must'[v]
           my2 == may'[v]
           n == Len(pages)
           n2 == Len(pages')
<1>1. calm2 \in BOOLEAN /\ calm \in BOOLEAN /\ (calm2 => calm) /\ tk2 = tk /\ mst2 \subseteq mst /\ my \subseteq my2
      /\ n2 = n /\ n \in Nat
  BY ShapeFacts DEF Sure, HistKept
<1>2. CallSound(lo, lev, n, tk, mst, my, calm) /\ (tk.pc \in AtPage => tk.cur \in 1..n) /\ Same(lo, lev, n, lo2, lev2)
  BY TaskFacts DEF CallsSound, PlaceOK
<1> HIDE DEF tk, tk2, calm, calm2, mst, my, mst2, my2, n, n2
<1>3. CallSound(lo2, lev2, n2, tk, mst2, my2, calm2)
  BY <1>1, <1>2, CallKept
<1> QED BY <1>1, <1>3 DEF tk2, calm2, mst2, my2, n2

(* A call begins. *)
LEMMA CallsBegin ==
  ASSUME ShapeOK, ShapeOK', Seen, NEW lo, NEW lev, CallsSound(lo, lev), NEW lo2, NEW lev2,
         Same(lo, lev, Len(pages), lo2, lev2), NEW w \in Workers, NEW c, Call(w, c)
  PROVE  CallsSound(lo2, lev2)'
<1>1. /\ (\A v \in Workers \ {w} : HistKept(v) /\ task'[v] = task[v]) /\ UNCHANGED torn
      /\ task'[w] = [NoTask EXCEPT !.pc = "root", !.call = c]
  BY CallHist
<1>2. Len(pages') = Len(pages)
  BY DEF Call, treeVars
<1>3. task'[w].pc = "root" /\ task'[w].first /\ task'[w].out = <<>>
  BY <1>1 DEF NoTask
<1>4. ASSUME NEW v \in Workers
      PROVE  CallSound(lo2, lev2, Len(pages'), task'[v], must'[v], may'[v], Sure(v)')
  <2>1. CASE v = w
    <3> DEFINE tk == task'[v]
               calm == Sure(v)'
               mst == must'[v]
               my == may'[v]
               n == Len(pages')
    <3>1. tk.pc \in {"root", "idle"} /\ tk.first /\ tk.out = <<>>
      BY <1>3, <2>1
    <3> HIDE DEF tk, calm, mst, my, n
    <3>2. CallSound(lo2, lev2, n, tk, mst, my, calm)
      BY <3>1, FreshSound
    <3> QED BY <3>2 DEF tk, calm, mst, my, n
  <2>2. CASE v # w
    BY <1>1, <1>2, <2>2, RestKept
  <2> QED BY <2>1, <2>2
<1> QED BY <1>4 DEF CallsSound

(* No call takes a step. *)
LEMMA CallsStay ==
  ASSUME ShapeOK, ShapeOK', Seen, NEW lo, NEW lev, CallsSound(lo, lev), NEW lo2, NEW lev2,
         Same(lo, lev, Len(pages), lo2, lev2), Reload \/ UNCHANGED indexVars
  PROVE  CallsSound(lo2, lev2)'
<1>1. UNCHANGED <<task, index, must, may, moved, torn>>
  BY DEF Reload, indexVars, histVars
<1>2. Len(pages') = Len(pages)
  <2>1. DOMAIN pages' = DOMAIN pages
    BY DEF Reload, indexVars, treeVars
  <2> QED BY <2>1, SameLen
<1>3. ASSUME NEW v \in Workers
      PROVE  CallSound(lo2, lev2, Len(pages'), task'[v], must'[v], may'[v], Sure(v)')
  <2>1. HistKept(v)
    BY <1>1 DEF HistKept, Seen
  <2> QED BY <1>1, <1>2, <2>1, RestKept
<1> QED BY <1>3 DEF CallsSound

(* The inductive invariant behind the answers. *)
CallInv == TreeInv /\ Seen /\ Calm /\ CallsAreSound

LEMMA InitReads == Init => CallsAreSound
<1> SUFFICES ASSUME Init PROVE CallsAreSound
  OBVIOUS
<1>1. PICK lo, lev : Intact => Bounds(lo, lev)
  BY InitSound DEF Sound
<1>2. ASSUME NEW v \in Workers
      PROVE  CallSound(lo, lev, Len(pages), task[v], must[v], may[v], Sure(v))
  <2>1. task[v].pc \in {"root", "idle"} /\ task[v].first /\ task[v].out = <<>>
    BY DEF Init, NoTask
  <2> QED BY <2>1, FreshSound
<1>3. CallsSound(lo, lev)
  BY <1>2 DEF CallsSound
<1> QED BY <1>1, <1>3 DEF CallsAreSound

LEMMA NextReads ==
  ASSUME CallInv, ShapeOK', [Next]_indexVars
  PROVE  CallsAreSound'
<1> SUFFICES ASSUME Intact' PROVE \E lo2, lev2 : Bounds(lo2, lev2)' /\ CallsSound(lo2, lev2)'
  BY DEF CallsAreSound
<1>1. Intact /\ ~raced'
  BY IntactBefore
<1>2. PICK lo, lev : Bounds(lo, lev) /\ CallsSound(lo, lev)
  BY <1>1 DEF CallInv, CallsAreSound
<1>3. ShapeOK /\ Ranked /\ Seen /\ Calm
  BY DEF CallInv, TreeInv
<1>4. PICK lo2, lev2 : Bounds(lo2, lev2)' /\ Same(lo, lev, Len(pages), lo2, lev2)
  BY <1>2, <1>3, NextBounds DEF BoundsGo
<1>5. ASSUME NEW w \in Workers, Work(w) \/ Fail(w)
      PROVE  CallsSound(lo2, lev2)'
  <2>1. OwnStep(lo, lev, w) /\ (task'[w].pc \in AtPage => task'[w].cur \in 1..Len(pages))
    BY <1>2, <1>3, <1>5, WorkOwn
  <2> QED BY <1>1, <1>2, <1>3, <1>4, <1>5, <2>1, CallsStep
<1>6. ASSUME NEW w \in Workers, NEW c, Call(w, c)
      PROVE  CallsSound(lo2, lev2)'
  BY <1>2, <1>3, <1>4, <1>6, CallsBegin
<1>7. ASSUME Reload \/ UNCHANGED indexVars
      PROVE  CallsSound(lo2, lev2)'
  BY <1>2, <1>3, <1>4, <1>7, CallsStay
<1> QED BY <1>4, <1>5, <1>6, <1>7 DEF Next

LEMMA CallInvInductive == Init /\ [][Next]_indexVars => []CallInv
<1>1. Init => CallInv
  BY InitShape, InitRanked, InitSound, InitSeen, InitReads DEF CallInv, TreeInv
<1>2. CallInv /\ [Next]_indexVars => CallInv'
  <2> SUFFICES ASSUME CallInv, [Next]_indexVars PROVE CallInv'
    OBVIOUS
  <2>1. TreeInv /\ Seen /\ Calm /\ ShapeOK /\ Ranked /\ Sound
    BY DEF CallInv, TreeInv
  <2>2. TreeInv'
    BY <2>1, NextShape, NextRanked, NextSoundTree DEF TreeInv
  <2>3. Seen' /\ Calm'
    BY <2>1, NextSeen, NextCalm
  <2>4. CallsAreSound'
    BY <2>2, NextReads DEF TreeInv
  <2> QED BY <2>2, <2>3, <2>4 DEF CallInv
<1> QED BY <1>1, <1>2, PTL

LEMMA DoneFacts ==
  ASSUME CallInv, Intact, NEW w \in Workers, task[w].pc = "done"
  PROVE  /\ ScanOK(task[w], must[w], may[w], Sure(w)) /\ AnswerOK(task[w], must[w], may[w], Sure(w))
         /\ Key(w) = KeyIn(task[w]) /\ KeyIn(task[w]) \in Nat
<1>1. PICK lo, lev : CallsSound(lo, lev)
  BY DEF CallInv, CallsAreSound
<1>2. ScanOK(task[w], must[w], may[w], Sure(w)) /\ AnswerOK(task[w], must[w], may[w], Sure(w))
  BY <1>1 DEF CallsSound, CallSound
<1>3. Key(w) \in Nat
  BY KeyOfCall DEF CallInv, TreeInv
<1> QED BY <1>2, <1>3 DEF Key, KeyIn

LEMMA SoundAnswers ==
  ASSUME CallInv
  PROVE  AnswersExact
<1> SUFFICES ASSUME NEW w \in Workers, Intact, task[w].pc = "done"
             PROVE  LET op == task[w].call.op
                        res == task[w].res
                        k == Key(w)
                        rid == task[w].call.rid
                    IN  /\ op = "get" /\ res = "ok" => LeafEntry(k, task[w].out[1]) \in may[w]
                        /\ op = "get" /\ res = "TupleNonExistent" /\ Sure(w) => \A e \in must[w] : e.key # k
                        /\ op = "delete" /\ res = "ok" => LeafEntry(k, rid) \in may[w]
                        /\ op = "delete" /\ res = "TupleNonExistent" /\ Sure(w) => LeafEntry(k, rid) \notin must[w]
                        /\ op = "insert" /\ res = "PageCorruption" => \E e \in may[w] : e.key = k
  BY DEF AnswersExact, Done, Sure
<1>1. AnswerOK(task[w], must[w], may[w], Sure(w)) /\ Key(w) = KeyIn(task[w])
  BY DoneFacts
<1> QED BY <1>1 DEF AnswerOK

LEMMA SoundScans ==
  ASSUME CallInv
  PROVE  ScanExact
<1> SUFFICES ASSUME NEW w \in Workers, task[w].pc = "done", task[w].call.op = "scan", task[w].res = "ok", Intact
             PROVE  /\ Ascending(task[w].out)
                    /\ ToSet(task[w].out) \subseteq may[w]
                    /\ \A e \in ToSet(task[w].out) : ~PastEnd(w, e)
                    /\ Sure(w) => \A e \in ToSet(task[w].out) : e.key >= Key(w)
                    /\ task[w].call.end = {} => \A e \in must[w] : e.key >= Key(w) => e \in ToSet(task[w].out)
  BY DEF ScanExact, Done, Sure
<1>1. /\ Gives(task[w], may[w], Sure(w)) /\ Key(w) = KeyIn(task[w])
      /\ task[w].call.end = {} => \A e \in must[w] : Key(w) <= e.key => e \in ToSet(task[w].out)
  BY DoneFacts DEF ScanOK
<1>2. Ascending(task[w].out) /\ \A e \in ToSet(task[w].out) : e \in may[w] /\ ~PastEnd(w, e) /\ (Sure(w) => Key(w) <= e.key)
  BY <1>1 DEF Gives, PastEnd
<1> QED BY <1>1, <1>2

(* Every answer is right for some moment of its call: get and delete give  *)
(* TupleNonExistent only for what was not there throughout (unless a split *)
(* came in between), get returns what was there, and insert gives          *)
(* PageCorruption only for a key that was there.                           *)
THEOREM AnswersAreExact == Spec => []AnswersExact
<1>1. CallInv => AnswersExact
  BY SoundAnswers
<1> QED BY <1>1, CallInvInductive, PTL DEF Spec

(* scan walks next_page from the leaf of its start key: what it gives was  *)
(* there, in order and within the end bound, and without an end key it     *)
(* leaves out nothing that was there throughout, whatever splits happen.   *)
THEOREM ScansAreExact == Spec => []ScanExact
<1>1. CallInv => ScanExact
  BY SoundScans
<1> QED BY <1>1, CallInvInductive, PTL DEF Spec

=============================================================================
