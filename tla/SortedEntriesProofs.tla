------------------------ MODULE SortedEntriesProofs ------------------------
(***************************************************************************)
(* What the sorted slot arrays of the directory and B-tree pages compute,  *)
(* for entries of any number and any keys: the binary search of find_slot  *)
(* and find_separator_slot is exact on a sorted page, and an insertion     *)
(* keeps the page sorted and adds exactly its entry.                       *)
(*                                                                         *)
(* Search is a recursive function of the range that is left.  Its equation *)
(* has a solution because every round narrows the range (SearchExists, by  *)
(* induction over the width), so Search satisfies it (SearchIs), and what  *)
(* it finds follows by the same induction (RangesFind, SearchParts).       *)
(***************************************************************************)
EXTENDS SortedEntries, WellFoundedInduction, SequenceTheorems, TLAPS

-----------------------------------------------------------------------------
(* Induction over the naturals and the existence of recursively defined    *)
(* functions, stated for sets and functions instead of operators, so that  *)
(* a proof can apply them.  The proofs about other loops use them too.     *)

(* A non-empty set of naturals has a smallest element. *)
LEMMA LeastNatural ==
  ASSUME NEW S \in SUBSET Nat, S # {}
  PROVE  \E m \in S : \A k \in S : m <= k
<1> DEFINE less == {ss \in Nat \X Nat : ss[1] < ss[2]}
<1>1. IsWellFoundedOn(less, Nat)
  BY NatLessThanWellFounded DEF OpToRel
<1>2. PICK m \in S : \A k \in S : <<k, m>> \notin less
  <2> HIDE DEF less
  <2> QED BY <1>1, WFMin
<1>3. \A k \in S : ~(k < m)
  BY <1>2
<1> QED BY <1>3

(* Induction: a set with 0 that is closed under successor has all naturals. *)
LEMMA SetInduction ==
  ASSUME NEW S, 0 \in S, \A n \in Nat : n \in S => n + 1 \in S
  PROVE  \A n \in Nat : n \in S
<1> SUFFICES ASSUME Nat \ S # {} PROVE FALSE
  OBVIOUS
<1>1. PICK m \in Nat \ S : \A k \in Nat \ S : m <= k
  BY LeastNatural
<1>2. m # 0
  OBVIOUS
<1>3. m - 1 \in Nat /\ m - 1 \in S
  BY <1>1, <1>2
<1> QED BY <1>1, <1>3

(* Induction up to a bound. *)
LEMMA BoundedInduction ==
  ASSUME NEW L \in Nat, NEW S, 0 \in S, \A n \in 0..(L - 1) : n \in S => n + 1 \in S
  PROVE  \A n \in 0..L : n \in S
<1> DEFINE T == {n \in Nat : n <= L => n \in S}
<1>1. 0 \in T
  OBVIOUS
<1>2. \A n \in Nat : n \in T => n + 1 \in T
  OBVIOUS
<1>3. \A n \in Nat : n \in T
  <2> HIDE DEF T
  <2> QED BY <1>1, <1>2, SetInduction
<1> QED BY <1>3

(* A loop of L rounds: round n applies F[n] to the result of round n - 1.  *)
IsLoop(g, a, L, F) ==
  /\ g[0] = a
  /\ \A n \in 1..L : g[n] = F[n][g[n - 1]]

(* The results of the rounds form a function. *)
LEMMA LoopExists ==
  ASSUME NEW B, NEW a \in B, NEW L \in Nat, NEW F \in [1..L -> [B -> B]]
  PROVE  \E g \in [0..L -> B] : IsLoop(g, a, L, F)
<1> USE DEF IsLoop
<1> DEFINE S == {m \in 0..L : \E g \in [0..m -> B] :
                   /\ g[0] = a
                   /\ \A n \in 1..m : g[n] = F[n][g[n - 1]]}
<1>1. 0 \in S
  <2>1. [i \in 0..0 |-> a] \in [0..0 -> B]
    OBVIOUS
  <2>2. /\ [i \in 0..0 |-> a][0] = a
        /\ \A n \in 1..0 : [i \in 0..0 |-> a][n] = F[n][[i \in 0..0 |-> a][n - 1]]
    OBVIOUS
  <2>3. 0 \in 0..L
    OBVIOUS
  <2> QED BY <2>1, <2>2, <2>3, Zenon
<1>2. ASSUME NEW m \in 0..(L - 1), m \in S
      PROVE  m + 1 \in S
  <2>1. PICK g \in [0..m -> B] : /\ g[0] = a
                                 /\ \A n \in 1..m : g[n] = F[n][g[n - 1]]
    BY <1>2
  <2> DEFINE h == [n \in 0..(m + 1) |-> IF n <= m THEN g[n] ELSE F[m + 1][g[m]]]
  <2>2. F[m + 1][g[m]] \in B
    <3>1. m + 1 \in 1..L /\ g[m] \in B
      OBVIOUS
    <3> QED BY <3>1
  <2>3. h \in [0..(m + 1) -> B]
    BY <2>2
  <2>4. h[0] = a
    BY <2>1
  <2>5. ASSUME NEW n \in 1..(m + 1) PROVE h[n] = F[n][h[n - 1]]
    <3>1. CASE n <= m
      BY <2>1, <3>1
    <3>2. CASE n = m + 1
      BY <2>1, <3>2
    <3> QED BY <3>1, <3>2
  <2>6. m + 1 \in 0..L
    OBVIOUS
  <2> HIDE DEF h
  <2> QED BY <2>3, <2>4, <2>5, <2>6
<1>3. L \in S
  <2>1. \A m \in 0..(L - 1) : m \in S => m + 1 \in S
    BY <1>2
  <2> HIDE DEF S
  <2>2. \A m \in 0..L : m \in S
    BY <1>1, <2>1, BoundedInduction, Zenon
  <2> QED BY <2>2
<1> QED BY <1>3

-----------------------------------------------------------------------------
(* Binary search *)


(* The ranges left..right of a binary search in n entries, and its answers. *)
Ranges(n) == (0..n) \X (0..n)
Answers(n) == [found : BOOLEAN, pos : 0..n]

Middle(r) == r[1] + (r[2] - r[1]) \div 2

(* One round of Search, with the answers h for smaller ranges. *)
Round(es, k, h, r) ==
  LET left  == r[1]
      right == r[2]
      mid   == left + (right - left) \div 2
      at    == es[mid + 1].key
  IN  IF left >= right THEN [found |-> FALSE, pos |-> left]
      ELSE IF at = k THEN [found |-> TRUE, pos |-> mid]
      ELSE IF at < k THEN h[<<mid + 1, right>>] ELSE h[<<left, mid>>]

(* h answers every range as the search does. *)
Searches(es, k, h) == h = [r \in Ranges(Len(es)) |-> Round(es, k, h, r)]

(* Search satisfies its own equation, provided the equation has a solution. *)
LEMMA SearchIs ==
  ASSUME NEW es, NEW k, \E g : Searches(es, k, g)
  PROVE  \E h : Searches(es, k, h) /\ Search(es, k) = h[<<0, Len(es)>>]
<1> DEFINE narrow == CHOOSE h : Searches(es, k, h)
<1>1. Searches(es, k, narrow)
  BY Zenon
<1>2. Search(es, k) = narrow[<<0, Len(es)>>]
  BY Zenon DEF Search, Searches, Round, Ranges
<1> QED BY <1>1, <1>2, Zenon

(* A round looks inside its range, and both halves are narrower. *)
LEMMA MiddleIn ==
  ASSUME NEW n \in Nat, NEW r \in Ranges(n), r[1] < r[2]
  PROVE  /\ Middle(r) \in r[1]..(r[2] - 1) /\ Middle(r) \in 0..(n - 1)
         /\ <<Middle(r) + 1, r[2]>> \in Ranges(n) /\ <<r[1], Middle(r)>> \in Ranges(n)
<1>1. r[1] \in 0..n /\ r[2] \in 0..n
  BY DEF Ranges
<1>2. \A d \in Nat : d > 0 => d \div 2 \in 0..(d - 1)
  OBVIOUS
<1>3. r[2] - r[1] \in Nat /\ r[2] - r[1] > 0
  BY <1>1
<1>4. (r[2] - r[1]) \div 2 \in 0..((r[2] - r[1]) - 1)
  BY <1>2, <1>3
<1> QED BY <1>1, <1>4 DEF Middle, Ranges

(* A round answers with a position of the page. *)
LEMMA RoundAnswers ==
  ASSUME NEW es, NEW k, Len(es) \in Nat, NEW h \in [Ranges(Len(es)) -> Answers(Len(es))],
         NEW r \in Ranges(Len(es))
  PROVE  Round(es, k, h, r) \in Answers(Len(es))
<1>1. r[1] \in 0..Len(es) /\ r[2] \in 0..Len(es)
  BY DEF Ranges
<1>2. CASE r[1] >= r[2]
  BY <1>1, <1>2 DEF Round, Answers
<1>3. CASE r[1] < r[2]
  <2>1. Middle(r) \in 0..(Len(es) - 1) /\ Middle(r) \in 0..Len(es)
        /\ <<Middle(r) + 1, r[2]>> \in Ranges(Len(es)) /\ <<r[1], Middle(r)>> \in Ranges(Len(es))
    BY <1>3, MiddleIn
  <2>2. ~(r[1] >= r[2])
    BY <1>1, <1>3
  <2>3. Round(es, k, h, r) = IF es[Middle(r) + 1].key = k THEN [found |-> TRUE, pos |-> Middle(r)]
                             ELSE IF es[Middle(r) + 1].key < k THEN h[<<Middle(r) + 1, r[2]>>]
                             ELSE h[<<r[1], Middle(r)>>]
    BY <2>2, Zenon DEF Round, Middle
  <2>4. [found |-> TRUE, pos |-> Middle(r)] \in Answers(Len(es))
    BY <2>1 DEF Answers
  <2> QED BY <2>1, <2>3, <2>4
<1> QED BY <1>1, <1>2, <1>3

(* The search ends: its rounds have answers for every range. *)
LEMMA SearchExists ==
  ASSUME NEW es, NEW k, Len(es) \in Nat
  PROVE  \E h \in [Ranges(Len(es)) -> Answers(Len(es))] : Searches(es, k, h)
<1> DEFINE n == Len(es)
           R == Ranges(n)
           Upto(m, h) == \A r \in R : r[2] - r[1] <= m => h[r] = Round(es, k, h, r)
           S == {m \in Nat : \E h \in [R -> Answers(n)] : Upto(m, h)}
<1>0. \A r \in R : r[1] \in 0..n /\ r[2] \in 0..n
  BY DEF Ranges
<1>1. 0 \in S
  <2> DEFINE h == [r \in R |-> [found |-> FALSE, pos |-> r[1]]]
  <2>1. h \in [R -> Answers(n)]
    BY <1>0 DEF Answers
  <2>2. \A r \in R : r[2] - r[1] <= 0 => r[1] >= r[2]
    BY <1>0
  <2>3. Upto(0, h)
    BY <2>2 DEF Round
  <2> QED BY <2>1, <2>3
<1>2. ASSUME NEW m \in Nat, m \in S PROVE m + 1 \in S
  <2>1. PICK g \in [R -> Answers(n)] : Upto(m, g)
    BY <1>2
  <2> DEFINE h == [r \in R |-> IF r[2] - r[1] <= m THEN g[r] ELSE Round(es, k, g, r)]
  <2>2. h \in [R -> Answers(n)]
    BY RoundAnswers
  <2>3. ASSUME NEW r \in R, r[2] - r[1] <= m + 1 PROVE h[r] = Round(es, k, h, r)
    <3>1. h[r] = Round(es, k, g, r)
      BY <2>1
    <3>2. CASE r[1] >= r[2]
      BY <3>1, <3>2 DEF Round
    <3>3. CASE ~(r[1] >= r[2])
      <4>0. r[1] < r[2]
        BY <1>0, <3>3
      <4>1. /\ Middle(r) \in r[1]..(r[2] - 1)
            /\ <<Middle(r) + 1, r[2]>> \in R /\ <<r[1], Middle(r)>> \in R
        BY <4>0, MiddleIn
      <4>2. r[2] - (Middle(r) + 1) <= m /\ Middle(r) - r[1] <= m
        BY <1>0, <2>3, <4>1
      <4>3. h[<<Middle(r) + 1, r[2]>>] = g[<<Middle(r) + 1, r[2]>>]
            /\ h[<<r[1], Middle(r)>>] = g[<<r[1], Middle(r)>>]
        BY <4>1, <4>2
      <4> HIDE DEF h
      <4> QED BY <3>1, <4>3 DEF Round, Middle
    <3> QED BY <3>2, <3>3
  <2>4. Upto(m + 1, h)
    <3> HIDE DEF h
    <3> QED BY <2>3
  <2> HIDE DEF h, Upto
  <2> QED BY <2>2, <2>4
<1>3. n \in S
  <2> HIDE DEF S
  <2> QED BY <1>1, <1>2, SetInduction
<1>4. PICK h \in [R -> Answers(n)] : Upto(n, h)
  BY <1>3
<1>5. \A r \in R : h[r] = Round(es, k, h, r)
  BY <1>0, <1>4
<1>6. Searches(es, k, h)
  BY <1>5 DEF Searches
<1> QED BY <1>6

(* What the search says of the entries of a range. *)
Finds(es, k, r, a) ==
  /\ a.found \in BOOLEAN /\ a.pos \in r[1]..r[2]
  /\ a.found => a.pos < r[2] /\ es[a.pos + 1].key = k

(* By induction over the width of the range; the page need not be sorted. *)
LEMMA RangesFind ==
  ASSUME NEW es, NEW k, Len(es) \in Nat, NEW h, Searches(es, k, h)
  PROVE  \A r \in Ranges(Len(es)) : r[1] <= r[2] => Finds(es, k, r, h[r])
<1> DEFINE n == Len(es)
           R == Ranges(n)
<1>2. \A r \in R : h[r] = Round(es, k, h, r)
  BY DEF Searches
<1>0. \A r \in R : r[1] \in 0..n /\ r[2] \in 0..n
  BY DEF Ranges
<1> DEFINE S == {m \in Nat : \A r \in R : r[1] <= r[2] /\ r[2] - r[1] <= m => Finds(es, k, r, h[r])}
<1>3. ASSUME NEW r \in R, r[1] >= r[2], r[1] <= r[2] PROVE Finds(es, k, r, h[r])
  <2>1. h[r] = [found |-> FALSE, pos |-> r[1]]
    BY <1>2, <1>3, Zenon DEF Round
  <2>2. r[1] \in r[1]..r[2]
    BY <1>0, <1>3
  <2> QED BY <2>1, <2>2 DEF Finds
<1>4. 0 \in S
  <2>1. \A r \in R : r[2] - r[1] <= 0 => r[1] >= r[2]
    BY <1>0
  <2> QED BY <1>3, <2>1
<1>5. ASSUME NEW m \in Nat, m \in S PROVE m + 1 \in S
  <2> SUFFICES ASSUME NEW r \in R, r[1] < r[2], r[2] - r[1] <= m + 1 PROVE Finds(es, k, r, h[r])
    <3>1. \A r \in R : r[1] < r[2] \/ r[1] >= r[2]
      BY <1>0
    <3>2. \A r \in R : r[1] <= r[2] /\ r[2] - r[1] <= m + 1 => Finds(es, k, r, h[r])
      BY <1>3, <3>1
    <3> QED BY <3>2
  <2>0. \A q \in R : q[1] <= q[2] /\ q[2] - q[1] <= m => Finds(es, k, q, h[q])
    BY <1>5
  <2> DEFINE lo == <<r[1], Middle(r)>>
             hi == <<Middle(r) + 1, r[2]>>
  <2>1. Middle(r) \in r[1]..(r[2] - 1) /\ hi \in R /\ lo \in R
    BY MiddleIn
  <2>2. r[1] \in 0..n /\ r[2] \in 0..n
    BY <1>0
  <2>3. Finds(es, k, lo, h[lo]) /\ Finds(es, k, hi, h[hi])
    <3>1. /\ lo[1] <= lo[2] /\ lo[2] - lo[1] <= m
          /\ hi[1] <= hi[2] /\ hi[2] - hi[1] <= m
      BY <2>1, <2>2
    <3> HIDE DEF lo, hi
    <3> QED BY <2>0, <2>1, <3>1
  <2>4. h[r] = IF es[Middle(r) + 1].key = k THEN [found |-> TRUE, pos |-> Middle(r)]
               ELSE IF es[Middle(r) + 1].key < k THEN h[hi] ELSE h[lo]
    <3>1. ~(r[1] >= r[2])
      BY <2>2
    <3> QED BY <1>2, <3>1, Zenon DEF Round, Middle
  <2>5. CASE es[Middle(r) + 1].key = k
    <3>1. h[r] = [found |-> TRUE, pos |-> Middle(r)] /\ Middle(r) \in r[1]..r[2] /\ Middle(r) < r[2]
      BY <2>1, <2>2, <2>4, <2>5
    <3> QED BY <2>5, <3>1 DEF Finds
  <2>6. CASE h[r] = h[hi]
    BY <2>1, <2>2, <2>3, <2>6, SMTT(30) DEF Finds
  <2>7. CASE h[r] = h[lo]
    BY <2>1, <2>2, <2>3, <2>7, SMTT(30) DEF Finds
  <2> QED BY <2>4, <2>5, <2>6, <2>7
<1>6. n \in S
  <2> HIDE DEF S
  <2> QED BY <1>4, <1>5, SetInduction
<1> QED BY <1>0, <1>6

(* find_slot: a position that is found has the key. *)
LEMMA SearchFinds ==
  ASSUME NEW es, NEW k, Len(es) \in Nat
  PROVE  /\ Search(es, k).found \in BOOLEAN /\ Search(es, k).pos \in 0..Len(es)
         /\ Search(es, k).found => /\ Search(es, k).pos + 1 \in 1..Len(es)
                                   /\ es[Search(es, k).pos + 1].key = k
<1>1. PICK h : Searches(es, k, h) /\ Search(es, k) = h[<<0, Len(es)>>]
  BY SearchExists, SearchIs
<1>2. <<0, Len(es)>> \in Ranges(Len(es))
  BY DEF Ranges
<1>3. Finds(es, k, <<0, Len(es)>>, Search(es, k))
  <2>1. \A r \in Ranges(Len(es)) : r[1] <= r[2] => Finds(es, k, r, h[r])
    BY <1>1, RangesFind
  <2>2. <<0, Len(es)>>[1] <= <<0, Len(es)>>[2]
    OBVIOUS
  <2> QED BY <1>1, <1>2, <2>1, <2>2
<1> QED BY <1>3 DEF Finds

-----------------------------------------------------------------------------
(* Sorted entries *)

(* Keys are integers, each smaller than the next. *)
Sorted(es) == (\A i \in 1..Len(es) : es[i].key \in Int) /\ Ascending(es)

(* Neighbours in order are all in order. *)
LEMMA SortedOrder ==
  ASSUME NEW es, Len(es) \in Nat, Sorted(es)
  PROVE  \A i, j \in 1..Len(es) : i < j => es[i].key < es[j].key
<1> DEFINE n == Len(es)
           S == {d \in Nat : \A i, j \in 1..n : j = i + d + 1 => es[i].key < es[j].key}
<1> HIDE DEF n
<1>0. n \in Nat /\ n = Len(es)
  BY DEF n
<1>1. \A i \in 1..n : es[i].key \in Int
  BY <1>0 DEF Sorted
<1>2. \A i \in 1..n : i + 1 \in 1..n => es[i].key < es[i + 1].key
  <2>1. \A i \in 1..n : i + 1 \in 1..n => i \in 1..(n - 1)
    BY <1>0
  <2> QED BY <1>0, <2>1 DEF Sorted, Ascending
<1>3. 0 \in S
  <2>1. \A i, j \in 1..n : j = i + 0 + 1 => j = i + 1
    BY <1>0
  <2> QED BY <1>2, <2>1
<1>4. ASSUME NEW d \in Nat, d \in S PROVE d + 1 \in S
  <2>1. ASSUME NEW i \in 1..n, NEW j \in 1..n, j = i + (d + 1) + 1 PROVE es[i].key < es[j].key
    <3>1. i + d + 1 \in 1..n /\ j = (i + d + 1) + 1
      BY <1>0, <2>1
    <3>2. es[i].key < es[i + d + 1].key
      BY <1>4, <3>1
    <3>3. es[i + d + 1].key < es[j].key
      BY <1>2, <3>1
    <3>4. es[i].key \in Int /\ es[j].key \in Int /\ es[i + d + 1].key \in Int
      BY <1>1, <3>1
    <3> QED BY <3>2, <3>3, <3>4
  <2>2. d + 1 \in Nat
    OBVIOUS
  <2> QED BY <2>1, <2>2
<1>5. \A d \in Nat : d \in S
  <2> HIDE DEF S
  <2> QED BY <1>3, <1>4, SetInduction
<1>6. ASSUME NEW i \in 1..n, NEW j \in 1..n, i < j PROVE es[i].key < es[j].key
  <2>1. (j - i) - 1 \in Nat /\ j = i + ((j - i) - 1) + 1
    BY <1>0, <1>6
  <2> HIDE DEF S
  <2>2. (j - i) - 1 \in S
    BY <1>5, <2>1
  <2> QED BY <2>1, <2>2 DEF S
<1> QED BY <1>0, <1>6

(* A range in which k was not found is split by the position. *)
Parts(es, k, r, a) ==
  ~a.found => /\ \A i \in (r[1] + 1)..a.pos : es[i].key < k
              /\ \A i \in (a.pos + 1)..r[2] : k < es[i].key

(* A miss on a sorted page has the smaller keys on its left and the larger *)
(* ones on its right.                                                      *)
LEMMA SearchParts ==
  ASSUME NEW es, NEW k \in Int, Len(es) \in Nat, Sorted(es)
  PROVE  Parts(es, k, <<0, Len(es)>>, Search(es, k))
<1> DEFINE n == Len(es)
           R == Ranges(n)
<1>1. PICK h : Searches(es, k, h) /\ Search(es, k) = h[<<0, n>>]
  BY SearchExists, SearchIs
<1>2. \A r \in R : h[r] = Round(es, k, h, r)
  BY <1>1 DEF Searches
<1>0. \A r \in R : r[1] \in 0..n /\ r[2] \in 0..n
  BY DEF Ranges
<1>f. \A r \in R : r[1] <= r[2] => Finds(es, k, r, h[r])
  BY <1>1, RangesFind
<1> DEFINE S == {m \in Nat : \A r \in R : r[1] <= r[2] /\ r[2] - r[1] <= m => Parts(es, k, r, h[r])}
<1>3. ASSUME NEW r \in R, r[1] >= r[2], r[1] <= r[2] PROVE Parts(es, k, r, h[r])
  <2>1. h[r] = [found |-> FALSE, pos |-> r[1]]
    BY <1>2, <1>3, Zenon DEF Round
  <2>2. (r[1] + 1)..r[1] = {} /\ (r[1] + 1)..r[2] = {}
    BY <1>0, <1>3
  <2> QED BY <2>1, <2>2 DEF Parts
<1>4. 0 \in S
  <2>1. \A r \in R : r[2] - r[1] <= 0 => r[1] >= r[2]
    BY <1>0
  <2> QED BY <1>3, <2>1
<1>5. ASSUME NEW m \in Nat, m \in S PROVE m + 1 \in S
  <2> SUFFICES ASSUME NEW r \in R, r[1] < r[2], r[2] - r[1] <= m + 1 PROVE Parts(es, k, r, h[r])
    <3>1. \A r \in R : r[1] < r[2] \/ r[1] >= r[2]
      BY <1>0
    <3>2. \A r \in R : r[1] <= r[2] /\ r[2] - r[1] <= m + 1 => Parts(es, k, r, h[r])
      BY <1>3, <3>1
    <3> QED BY <3>2
  <2>0. \A q \in R : q[1] <= q[2] /\ q[2] - q[1] <= m => Parts(es, k, q, h[q])
    BY <1>5
  <2> DEFINE mid == Middle(r)
             lo == <<r[1], mid>>
             hi == <<mid + 1, r[2]>>
  <2>1. mid \in r[1]..(r[2] - 1) /\ hi \in R /\ lo \in R
    BY MiddleIn
  <2>2. r[1] \in 0..n /\ r[2] \in 0..n /\ n \in Nat
    BY <1>0
  <2>4. h[r] = IF es[mid + 1].key = k THEN [found |-> TRUE, pos |-> mid]
               ELSE IF es[mid + 1].key < k THEN h[hi] ELSE h[lo]
    <3>1. ~(r[1] >= r[2])
      BY <2>2
    <3> QED BY <1>2, <3>1, Zenon DEF Round, Middle
  <2> HIDE DEF mid
  <2>3. /\ Parts(es, k, lo, h[lo]) /\ Parts(es, k, hi, h[hi])
        /\ Finds(es, k, lo, h[lo]) /\ Finds(es, k, hi, h[hi])
    <3>1. /\ lo[1] <= lo[2] /\ lo[2] - lo[1] <= m
          /\ hi[1] <= hi[2] /\ hi[2] - hi[1] <= m
      BY <2>1, <2>2, SMTT(30)
    <3> HIDE DEF lo, hi
    <3> QED BY <1>f, <2>0, <2>1, <3>1
  <2>i. mid \in Nat /\ r[1] <= mid /\ mid < r[2] /\ r[1] \in Nat /\ r[2] \in Nat /\ r[2] <= n /\ n \in Nat
    BY <2>1, <2>2
  <2>k. mid + 1 \in 1..n /\ es[mid + 1].key \in Int
    <3>1. mid + 1 \in 1..n
      BY <2>i
    <3> QED BY <3>1 DEF Sorted
  <2>5. CASE es[mid + 1].key = k
    BY <2>4, <2>5 DEF Parts
  <2>6. CASE es[mid + 1].key < k
    <3>1. h[r] = h[hi]
      BY <2>4, <2>6, <2>k
    <3>2. ASSUME NEW i \in (r[1] + 1)..(mid + 1) PROVE es[i].key < k
      <4>1. i \in 1..n /\ (i < mid + 1 \/ i = mid + 1)
        BY <2>i
      <4>2. es[i].key \in Int
        BY <4>1 DEF Sorted
      <4> QED BY <2>6, <2>k, <4>1, <4>2, SortedOrder
    <3>3. ASSUME ~h[hi].found
          PROVE  /\ \A i \in (r[1] + 1)..h[hi].pos : es[i].key < k
                 /\ \A i \in (h[hi].pos + 1)..r[2] : k < es[i].key
      <4>1. h[hi].pos \in (mid + 1)..r[2]
        BY <2>3 DEF Finds
      <4>2. /\ \A i \in (mid + 2)..h[hi].pos : es[i].key < k
            /\ \A i \in (h[hi].pos + 1)..r[2] : k < es[i].key
        <5>1. /\ \A i \in ((mid + 1) + 1)..h[hi].pos : es[i].key < k
              /\ \A i \in (h[hi].pos + 1)..r[2] : k < es[i].key
          BY <2>3, <3>3 DEF Parts
        <5>2. (mid + 1) + 1 = mid + 2
          BY <2>i
        <5> QED BY <5>1, <5>2
      <4>3. \A i \in (r[1] + 1)..h[hi].pos : i \in (r[1] + 1)..(mid + 1) \/ i \in (mid + 2)..h[hi].pos
        BY <2>i, <4>1
      <4> QED BY <3>2, <4>2, <4>3
    <3> QED BY <3>1, <3>3 DEF Parts
  <2>7. CASE k < es[mid + 1].key
    <3>1. h[r] = h[lo]
      BY <2>4, <2>7, <2>k
    <3>2. ASSUME NEW i \in (mid + 1)..r[2] PROVE k < es[i].key
      <4>1. i \in 1..n /\ (mid + 1 < i \/ i = mid + 1)
        BY <2>i
      <4>2. es[i].key \in Int
        BY <4>1 DEF Sorted
      <4> QED BY <2>7, <2>k, <4>1, <4>2, SortedOrder
    <3>3. ASSUME ~h[lo].found
          PROVE  /\ \A i \in (r[1] + 1)..h[lo].pos : es[i].key < k
                 /\ \A i \in (h[lo].pos + 1)..r[2] : k < es[i].key
      <4>1. h[lo].pos \in r[1]..mid
        BY <2>3 DEF Finds
      <4>2. /\ \A i \in (r[1] + 1)..h[lo].pos : es[i].key < k
            /\ \A i \in (h[lo].pos + 1)..mid : k < es[i].key
        BY <2>3, <3>3 DEF Parts
      <4>3. \A i \in (h[lo].pos + 1)..r[2] : i \in (h[lo].pos + 1)..mid \/ i \in (mid + 1)..r[2]
        BY <2>i, <4>1
      <4> QED BY <3>2, <4>2, <4>3
    <3> QED BY <3>1, <3>3 DEF Parts
  <2> QED BY <2>k, <2>5, <2>6, <2>7
<1>6. n \in S
  <2> HIDE DEF S
  <2> QED BY <1>4, <1>5, SetInduction
<1>7. <<0, n>> \in R
  BY DEF Ranges
<1> QED BY <1>1, <1>6, <1>7

(* find_slot and find_separator_slot on a sorted page: the key is found    *)
(* exactly when it is there; otherwise the position is the one at which it *)
(* would be in order.                                                      *)
THEOREM SearchIsExact ==
  ASSUME NEW es, Len(es) \in Nat, Sorted(es), NEW k \in Int
  PROVE  LET slot == Search(es, k)
         IN  /\ slot.found <=> \E i \in 1..Len(es) : es[i].key = k
             /\ slot.found => es[slot.pos + 1].key = k
             /\ ~slot.found => \A i \in 1..Len(es) : es[i].key < k <=> i <= slot.pos
<1> DEFINE slot == Search(es, k)
<1>1. /\ slot.found \in BOOLEAN /\ slot.pos \in 0..Len(es)
      /\ slot.found => slot.pos + 1 \in 1..Len(es) /\ es[slot.pos + 1].key = k
  BY SearchFinds
<1>2. ~slot.found => /\ \A i \in 1..slot.pos : es[i].key < k
                     /\ \A i \in (slot.pos + 1)..Len(es) : k < es[i].key
  <2>1. Parts(es, k, <<0, Len(es)>>, slot)
    BY SearchParts
  <2>2. <<0, Len(es)>>[1] + 1 = 1 /\ <<0, Len(es)>>[2] = Len(es)
    OBVIOUS
  <2> HIDE DEF slot
  <2> QED BY <2>1, <2>2 DEF Parts
<1> HIDE DEF slot
<1>3. ASSUME ~slot.found, NEW i \in 1..Len(es)
      PROVE  es[i].key # k /\ (es[i].key < k <=> i <= slot.pos)
  <2>1. es[i].key \in Int
    BY DEF Sorted
  <2>2. CASE i <= slot.pos
    <3>1. i \in 1..slot.pos
      BY <1>1, <2>2
    <3> QED BY <1>2, <1>3, <2>1, <2>2, <3>1
  <2>3. CASE ~(i <= slot.pos)
    <3>1. i \in (slot.pos + 1)..Len(es)
      BY <1>1, <2>3
    <3> QED BY <1>2, <1>3, <2>1, <2>3, <3>1
  <2> QED BY <2>2, <2>3
<1> QED BY <1>1, <1>3 DEF slot

-----------------------------------------------------------------------------
(* Insertion and removal *)

(* new is es with e at position p and the entries from there on moved up. *)
Shifted(new, es, p, e) ==
  /\ Len(new) = Len(es) + 1
  /\ \A i \in 1..(Len(es) + 1) : new[i] = IF i < p THEN es[i] ELSE IF i = p THEN e ELSE es[i - 1]

LEMMA InsertShape ==
  ASSUME NEW E, NEW es \in Seq(E), NEW e \in E, NEW p \in 1..(Len(es) + 1)
  PROVE  InsertAt(es, p, e) \in Seq(E) /\ Shifted(InsertAt(es, p, e), es, p, e)
<1> DEFINE n == Len(es)
           a == SubSeq(es, 1, p - 1)
           b == SubSeq(es, p, n)
           c == a \o <<e>>
<1>1. n \in Nat /\ \A i \in 1..n : es[i] \in E
  BY LenProperties, ElementOfSeq
<1>2. /\ a \in Seq(E) /\ Len(a) = p - 1 /\ \A i \in 1..(p - 1) : a[i] = es[i]
  <2>1. 1 \in Int /\ p - 1 \in Int /\ \A i \in 1..(p - 1) : es[i] \in E
    BY <1>1
  <2>2. /\ a \in Seq(E) /\ Len(a) = IF 1 <= p - 1 THEN (p - 1) - 1 + 1 ELSE 0
        /\ \A i \in 1..((p - 1) - 1 + 1) : a[i] = es[1 + i - 1]
    BY <2>1, SubSeqProperties
  <2>3. (p - 1) - 1 + 1 = p - 1 /\ \A i \in 1..(p - 1) : 1 + i - 1 = i
    OBVIOUS
  <2> HIDE DEF a
  <2> QED BY <1>1, <2>2, <2>3
<1>3. /\ b \in Seq(E) /\ Len(b) = n - p + 1 /\ \A i \in 1..(n - p + 1) : b[i] = es[p + i - 1]
  <2>1. p \in Int /\ n \in Int /\ \A i \in p..n : es[i] \in E
    BY <1>1
  <2>2. /\ b \in Seq(E) /\ Len(b) = IF p <= n THEN n - p + 1 ELSE 0
        /\ \A i \in 1..(n - p + 1) : b[i] = es[p + i - 1]
    BY <2>1, SubSeqProperties
  <2> HIDE DEF b
  <2> QED BY <1>1, <2>2
<1>4. <<e>> \in Seq(E) /\ Len(<<e>>) = 1 /\ <<e>>[1] = e
  OBVIOUS
<1> HIDE DEF a, b
<1>5. /\ c \in Seq(E) /\ Len(c) = p
      /\ \A i \in 1..p : c[i] = IF i < p THEN es[i] ELSE e
  <2>1. /\ c \in Seq(E) /\ Len(c) = (p - 1) + 1
        /\ \A i \in 1..((p - 1) + 1) : c[i] = IF i <= p - 1 THEN a[i] ELSE <<e>>[i - (p - 1)]
    BY <1>2, <1>4, ConcatProperties
  <2>2. \A i \in 1..p : /\ i \in 1..((p - 1) + 1) /\ (i <= p - 1 <=> i < p)
                        /\ i < p => i \in 1..(p - 1)
                        /\ ~(i < p) => i - (p - 1) = 1
    OBVIOUS
  <2>3. (p - 1) + 1 = p
    OBVIOUS
  <2> HIDE DEF c
  <2> QED BY <1>2, <1>4, <2>1, <2>2, <2>3
<1> HIDE DEF c
<1>6. InsertAt(es, p, e) = c \o b
  BY DEF InsertAt, a, b, c
<1>7. /\ c \o b \in Seq(E) /\ Len(c \o b) = p + (n - p + 1)
      /\ \A i \in 1..(p + (n - p + 1)) : (c \o b)[i] = IF i <= p THEN c[i] ELSE b[i - p]
  <2>1. /\ c \o b \in Seq(E) /\ Len(c \o b) = Len(c) + Len(b)
        /\ \A i \in 1..(Len(c) + Len(b)) : (c \o b)[i] = IF i <= Len(c) THEN c[i] ELSE b[i - Len(c)]
    BY <1>3, <1>5, ConcatProperties
  <2>2. Len(c) = p /\ Len(b) = n - p + 1
    BY <1>3, <1>5
  <2> HIDE DEF n
  <2> QED BY <2>1, <2>2
<1>8. p + (n - p + 1) = n + 1
  BY <1>1
<1>9. ASSUME NEW i \in 1..(n + 1)
      PROVE  (c \o b)[i] = IF i < p THEN es[i] ELSE IF i = p THEN e ELSE es[i - 1]
  <2>1. CASE i <= p
    <3>1. i \in 1..p
      BY <1>1, <2>1
    <3>2. (c \o b)[i] = c[i]
      BY <1>7, <1>8, <2>1
    <3> QED BY <1>5, <3>1, <3>2
  <2>2. CASE ~(i <= p)
    <3>1. i - p \in 1..(n - p + 1) /\ p + (i - p) - 1 = i - 1 /\ ~(i < p) /\ i # p
      BY <1>1, <2>2
    <3>2. (c \o b)[i] = b[i - p]
      BY <1>7, <1>8, <2>2
    <3>3. b[i - p] = es[p + (i - p) - 1]
      BY <1>3, <3>1
    <3> QED BY <3>1, <3>2, <3>3
  <2> QED BY <2>1, <2>2
<1> QED BY <1>6, <1>7, <1>8, <1>9 DEF Shifted

LEMMA RemoveKeeps ==
  ASSUME NEW E, NEW es \in Seq(E), NEW p \in 1..Len(es)
  PROVE  RemoveAt(es, p) \in Seq(E)
<1>1. Len(es) \in Nat /\ \A i \in 1..Len(es) : es[i] \in E
  BY LenProperties, ElementOfSeq
<1>2. SubSeq(es, 1, p - 1) \in Seq(E)
  <2>1. 1 \in Int /\ p - 1 \in Int /\ \A i \in 1..(p - 1) : es[i] \in E
    BY <1>1
  <2> QED BY <2>1, SubSeqProperties
<1>3. SubSeq(es, p + 1, Len(es)) \in Seq(E)
  <2>1. p + 1 \in Int /\ Len(es) \in Int /\ \A i \in (p + 1)..Len(es) : es[i] \in E
    BY <1>1
  <2> QED BY <2>1, SubSeqProperties
<1> QED BY <1>2, <1>3, ConcatProperties DEF RemoveAt

(* insert_entry and insert_separator add at most the entry. *)
LEMMA PutKeeps ==
  ASSUME NEW E, NEW es \in Seq(E), NEW e \in E, NEW max
  PROVE  PutEntry(es, max, e).entries \in Seq(E)
<1>1. Len(es) \in Nat
  BY LenProperties
<1>2. Search(es, e.key).pos + 1 \in 1..(Len(es) + 1)
  BY <1>1, SearchFinds
<1>3. InsertAt(es, Search(es, e.key).pos + 1, e) \in Seq(E)
  BY <1>2, InsertShape
<1> QED BY <1>3 DEF PutEntry

(* remove_entry leaves entries of the page. *)
LEMMA TakeKeeps ==
  ASSUME NEW E, NEW es \in Seq(E), NEW pos \in Nat
  PROVE  Take(es, pos).entries \in Seq(E)
<1>1. Len(es) \in Nat
  BY LenProperties
<1>2. pos < Len(es) => RemoveAt(es, pos + 1) \in Seq(E)
  BY <1>1, RemoveKeeps
<1> QED BY <1>1, <1>2 DEF Take

LEMMA PutDone ==
  ASSUME NEW put, NEW es, put = [err |-> "", entries |-> es]
  PROVE  put.err = "" /\ put.entries = es
OBVIOUS

(* An entry that is put where the search of its key has ended keeps the    *)
(* page sorted and is the only one that is added.                          *)
LEMMA InsertSorted ==
  ASSUME NEW E, NEW es \in Seq(E), Sorted(es), NEW e \in E, e.key \in Int,
         ~Search(es, e.key).found
  PROVE  /\ Sorted(InsertAt(es, Search(es, e.key).pos + 1, e))
         /\ ToSet(InsertAt(es, Search(es, e.key).pos + 1, e)) = ToSet(es) \cup {e}
<1> DEFINE n == Len(es)
           slot == Search(es, e.key)
           p == slot.pos + 1
           new == InsertAt(es, p, e)
<1>1. n \in Nat /\ \A i \in 1..n : es[i].key \in Int
  BY LenProperties DEF Sorted
<1>2. /\ slot.found \in BOOLEAN /\ slot.pos \in 0..n
      /\ slot.found <=> \E i \in 1..n : es[i].key = e.key
      /\ ~slot.found => \A i \in 1..n : es[i].key < e.key <=> i <= slot.pos
  BY <1>1, SearchFinds, SearchIsExact
<1>3. p \in 1..(n + 1) /\ p - 1 = slot.pos
  BY <1>1, <1>2
<1>4. /\ Len(new) = n + 1
      /\ \A i \in 1..(n + 1) : new[i] = IF i < p THEN es[i] ELSE IF i = p THEN e ELSE es[i - 1]
  <2>1. Shifted(new, es, p, e)
    BY <1>3, InsertShape
  <2> HIDE DEF p, new
  <2> QED BY <2>1 DEF Shifted
<1>6. /\ Sorted(new)
      /\ \A i \in 1..n : \E j \in 1..Len(new) : new[j] = es[i]
      /\ \A i \in 1..Len(new) : new[i] = e \/ \E j \in 1..n : es[j] = new[i]
      /\ \E j \in 1..Len(new) : new[j] = e
  <2>1. \A i \in 1..n : es[i].key # e.key /\ (i < p <=> es[i].key < e.key)
    <3>1. \A i \in 1..n : i < p <=> i <= slot.pos
      BY <1>2, <1>3
    <3> QED BY <1>2, <3>1
  <2> HIDE DEF new, p
  <2>2. ASSUME NEW i \in 1..(n + 1) PROVE new[i].key \in Int
    <3>1. i < p => i \in 1..n
      BY <1>1, <1>3
    <3>2. ~(i < p) /\ i # p => i - 1 \in 1..n
      BY <1>1, <1>3
    <3> QED BY <1>1, <1>4, <3>1, <3>2
  <2>3. ASSUME NEW i \in 1..n PROVE new[i].key < new[i + 1].key
    <3>1. i \in 1..(n + 1) /\ i + 1 \in 1..(n + 1) /\ (i + 1) - 1 = i
      BY <1>1
    <3>o. \A j, l \in 1..n : j < l => es[j].key < es[l].key
      BY <1>1, SortedOrder
    <3>2. CASE i + 1 < p
      <4>1. i < p /\ i + 1 \in 1..n /\ i < i + 1
        BY <1>1, <1>3, <3>2
      <4>2. new[i] = es[i] /\ new[i + 1] = es[i + 1]
        BY <1>4, <3>1, <3>2, <4>1
      <4> QED BY <3>o, <4>1, <4>2
    <3>3. CASE i + 1 = p
      <4>1. i < p /\ ~(i + 1 < p)
        BY <1>1, <1>3, <3>3
      <4>2. new[i] = es[i] /\ new[i + 1] = e
        BY <1>4, <3>1, <3>3, <4>1
      <4> QED BY <2>1, <4>1, <4>2
    <3>4. CASE i = p
      <4>1. ~(i < p) /\ ~(i + 1 < p) /\ i + 1 # p
        BY <1>1, <1>3, <3>4
      <4>2. new[i] = e /\ new[i + 1] = es[i]
        BY <1>4, <3>1, <3>4, <4>1
      <4> QED BY <1>1, <2>1, <4>1, <4>2
    <3>5. CASE i > p
      <4>1. ~(i < p) /\ i # p /\ ~(i + 1 < p) /\ i + 1 # p /\ i - 1 \in 1..n /\ i - 1 < i
        BY <1>1, <1>3, <3>5
      <4>2. new[i] = es[i - 1] /\ new[i + 1] = es[i]
        BY <1>4, <3>1, <4>1
      <4> QED BY <3>o, <4>1, <4>2
    <3>6. i + 1 < p \/ i + 1 = p \/ i = p \/ i > p
      BY <1>1, <1>3
    <3> QED BY <3>2, <3>3, <3>4, <3>5, <3>6
  <2>4. Sorted(new)
    <3>1. (n + 1) - 1 = n
      BY <1>1
    <3> QED BY <1>4, <2>2, <2>3, <3>1 DEF Sorted, Ascending
  <2>5. ASSUME NEW i \in 1..n PROVE \E j \in 1..(n + 1) : new[j] = es[i]
    <3>1. i \in 1..(n + 1) /\ i + 1 \in 1..(n + 1) /\ (i + 1) - 1 = i
      BY <1>1
    <3>2. CASE i < p
      BY <1>4, <3>1, <3>2
    <3>3. CASE ~(i < p)
      <4>1. ~(i + 1 < p) /\ i + 1 # p
        BY <1>1, <1>3, <3>3
      <4> QED BY <1>4, <3>1, <4>1
    <3> QED BY <3>2, <3>3
  <2>6. ASSUME NEW i \in 1..(n + 1) PROVE new[i] = e \/ \E j \in 1..n : es[j] = new[i]
    <3>1. i < p => i \in 1..n
      BY <1>1, <1>3
    <3>2. ~(i < p) /\ i # p => i - 1 \in 1..n
      BY <1>1, <1>3
    <3> QED BY <1>4, <3>1, <3>2
  <2>7. new[p] = e /\ p \in 1..(n + 1)
    <3>1. ~(p < p)
      BY <1>1, <1>3
    <3> QED BY <1>3, <1>4, <3>1
  <2> QED BY <1>4, <2>4, <2>5, <2>6, <2>7
<1>7. DOMAIN es = 1..n /\ DOMAIN new = 1..Len(new)
  <2>1. new \in Seq(E)
    BY <1>3, InsertShape
  <2> HIDE DEF new
  <2> QED BY <2>1, LenProperties
<1>8. ToSet(new) = ToSet(es) \cup {e}
  <2>1. ToSet(new) = {new[i] : i \in 1..Len(new)} /\ ToSet(es) = {es[i] : i \in 1..n}
    BY <1>7 DEF ToSet
  <2> HIDE DEF new, n
  <2> QED BY <1>6, <2>1
<1> QED BY <1>6, <1>8

(* insert_entry and insert_separator on a sorted page: the entry goes in   *)
(* where it belongs and the page stays sorted, or the page is full or has  *)
(* the key and stays as it is.                                             *)
THEOREM PutIsExact ==
  ASSUME NEW E, NEW es \in Seq(E), Sorted(es), NEW e \in E, e.key \in Int, NEW max \in Nat
  PROVE  LET put == PutEntry(es, max, e)
             has == \E i \in 1..Len(es) : es[i].key = e.key
         IN  /\ put.err = "" <=> Len(es) < max /\ ~has
             /\ put.err = "" =>
                  /\ Sorted(put.entries)
                  /\ Len(put.entries) = Len(es) + 1
                  /\ ToSet(put.entries) = ToSet(es) \cup {e}
             /\ put.err # "" => put.entries = es
<1> DEFINE n == Len(es)
           slot == Search(es, e.key)
           p == slot.pos + 1
           new == InsertAt(es, p, e)
<1>1. n \in Nat /\ \A i \in 1..n : es[i].key \in Int
  BY LenProperties DEF Sorted
<1>2. /\ slot.found \in BOOLEAN /\ slot.pos \in 0..n
      /\ slot.found <=> \E i \in 1..n : es[i].key = e.key
      /\ ~slot.found => \A i \in 1..n : es[i].key < e.key <=> i <= slot.pos
  BY <1>1, SearchFinds, SearchIsExact
<1>3. p \in 1..(n + 1) /\ p - 1 = slot.pos
  BY <1>1, <1>2
<1>4. /\ Len(new) = n + 1
      /\ \A i \in 1..(n + 1) : new[i] = IF i < p THEN es[i] ELSE IF i = p THEN e ELSE es[i - 1]
  <2>1. Shifted(new, es, p, e)
    BY <1>3, InsertShape
  <2> HIDE DEF p, new
  <2> QED BY <2>1 DEF Shifted
<1>5. PutEntry(es, max, e) = IF n >= max THEN [err |-> "PageFull", entries |-> es]
                        ELSE IF slot.found THEN [err |-> "DuplicateKey", entries |-> es]
                        ELSE [err |-> "", entries |-> new]
  BY DEF PutEntry
<1>6. ASSUME ~slot.found
      PROVE  Sorted(new) /\ ToSet(new) = ToSet(es) \cup {e}
  BY <1>6, InsertSorted
<1>7. n >= max <=> ~(n < max)
  BY <1>1
<1> HIDE DEF new, slot
<1>8. CASE n >= max
  <2>1. PutEntry(es, max, e) = [err |-> "PageFull", entries |-> es]
    BY <1>5, <1>8
  <2> QED BY <1>7, <1>8, <2>1
<1>9. CASE ~(n >= max) /\ slot.found
  <2>1. PutEntry(es, max, e) = [err |-> "DuplicateKey", entries |-> es]
    BY <1>5, <1>9
  <2> QED BY <1>2, <1>9, <2>1
<1>10. CASE ~(n >= max) /\ ~slot.found
  <2>1. PutEntry(es, max, e) = [err |-> "", entries |-> new]
    BY <1>5, <1>10
  <2>2. PutEntry(es, max, e).err = "" /\ PutEntry(es, max, e).entries = new
    BY <2>1, PutDone
  <2>3. Len(es) < max /\ ~(\E i \in 1..Len(es) : es[i].key = e.key)
    BY <1>2, <1>7, <1>10
  <2>4. Sorted(new) /\ Len(new) = Len(es) + 1
    BY <1>4, <1>6, <1>10
  <2>5. ToSet(new) = ToSet(es) \cup {e}
    BY <1>6, <1>10
  <2> QED BY <2>2, <2>3, <2>4, <2>5, Zenon
<1> QED BY <1>8, <1>9, <1>10
-----------------------------------------------------------------------------
(* The search of find_child *)

(* Its states: the range that is left and the best position so far. *)
Steps(n) == (0..n) \X (0..n) \X (0..n)

(* One round of SearchFloor, with the answers h for smaller ranges. *)
FloorRound(es, k, h, s) ==
  LET left  == s[1]
      right == s[2]
      mid   == left + (right - left) \div 2
  IN  IF left >= right THEN s[3]
      ELSE IF k >= es[mid + 1].key THEN h[<<mid + 1, right, mid>>]
      ELSE h[<<left, mid, s[3]>>]

Floors(es, k, h) == h = [s \in Steps(Len(es)) |-> FloorRound(es, k, h, s)]

LEMMA FloorIs ==
  ASSUME NEW es, NEW k, \E g : Floors(es, k, g)
  PROVE  \E h : Floors(es, k, h) /\ SearchFloor(es, k) = h[<<0, Len(es), 0>>]
<1> DEFINE narrow == CHOOSE h : Floors(es, k, h)
<1>1. Floors(es, k, narrow)
  BY Zenon
<1>2. SearchFloor(es, k) = narrow[<<0, Len(es), 0>>]
  BY Zenon DEF SearchFloor, Floors, FloorRound, Steps
<1> QED BY <1>1, <1>2, Zenon

(* A round looks inside its range, and both halves are narrower. *)
LEMMA FloorMiddle ==
  ASSUME NEW n \in Nat, NEW s \in Steps(n), s[1] < s[2]
  PROVE  /\ Middle(s) \in s[1]..(s[2] - 1) /\ Middle(s) \in 0..(n - 1)
         /\ <<Middle(s) + 1, s[2], Middle(s)>> \in Steps(n) /\ <<s[1], Middle(s), s[3]>> \in Steps(n)
<1>1. s[1] \in 0..n /\ s[2] \in 0..n /\ s[3] \in 0..n
  BY DEF Steps
<1>2. \A d \in Nat : d > 0 => d \div 2 \in 0..(d - 1)
  OBVIOUS
<1>3. s[2] - s[1] \in Nat /\ s[2] - s[1] > 0
  BY <1>1
<1>4. (s[2] - s[1]) \div 2 \in 0..((s[2] - s[1]) - 1)
  BY <1>2, <1>3
<1>5. Middle(s) \in s[1]..(s[2] - 1) /\ Middle(s) \in 0..(n - 1)
  BY <1>1, <1>4 DEF Middle
<1>6. Middle(s) + 1 \in 0..n /\ Middle(s) \in 0..n
  BY <1>5
<1> QED BY <1>1, <1>5, <1>6 DEF Steps

LEMMA FloorRoundIn ==
  ASSUME NEW es, NEW k, Len(es) \in Nat, NEW h \in [Steps(Len(es)) -> 0..Len(es)], NEW s \in Steps(Len(es))
  PROVE  FloorRound(es, k, h, s) \in 0..Len(es)
<1>1. s[1] \in 0..Len(es) /\ s[2] \in 0..Len(es) /\ s[3] \in 0..Len(es)
  BY DEF Steps
<1>2. CASE s[1] >= s[2]
  BY <1>1, <1>2 DEF FloorRound
<1>3. CASE ~(s[1] >= s[2])
  <2>1. s[1] < s[2]
    BY <1>1, <1>3
  <2>2. /\ <<Middle(s) + 1, s[2], Middle(s)>> \in Steps(Len(es))
        /\ <<s[1], Middle(s), s[3]>> \in Steps(Len(es))
    BY <2>1, FloorMiddle
  <2>3. /\ h[<<Middle(s) + 1, s[2], Middle(s)>>] \in 0..Len(es)
        /\ h[<<s[1], Middle(s), s[3]>>] \in 0..Len(es)
    BY <2>2
  <2> QED BY <1>3, <2>3 DEF FloorRound, Middle
<1> QED BY <1>2, <1>3

(* The search ends: its rounds have answers for every state. *)
LEMMA FloorExists ==
  ASSUME NEW es, NEW k, Len(es) \in Nat
  PROVE  \E h \in [Steps(Len(es)) -> 0..Len(es)] : Floors(es, k, h)
<1> DEFINE n == Len(es)
           R == Steps(n)
           Upto(m, h) == \A s \in R : s[2] - s[1] <= m => h[s] = FloorRound(es, k, h, s)
           S == {m \in Nat : \E h \in [R -> 0..n] : Upto(m, h)}
<1>0. \A s \in R : s[1] \in 0..n /\ s[2] \in 0..n /\ s[3] \in 0..n
  BY DEF Steps
<1>1. 0 \in S
  <2> DEFINE h == [s \in R |-> s[3]]
  <2>1. h \in [R -> 0..n]
    BY <1>0
  <2>2. \A s \in R : s[2] - s[1] <= 0 => s[1] >= s[2]
    BY <1>0
  <2>3. Upto(0, h)
    BY <2>2 DEF FloorRound
  <2> QED BY <2>1, <2>3
<1>2. ASSUME NEW m \in Nat, m \in S PROVE m + 1 \in S
  <2>1. PICK g \in [R -> 0..n] : Upto(m, g)
    BY <1>2
  <2> DEFINE h == [s \in R |-> IF s[2] - s[1] <= m THEN g[s] ELSE FloorRound(es, k, g, s)]
  <2>2. h \in [R -> 0..n]
    BY FloorRoundIn
  <2>3. ASSUME NEW s \in R, s[2] - s[1] <= m + 1 PROVE h[s] = FloorRound(es, k, h, s)
    <3>1. h[s] = FloorRound(es, k, g, s)
      BY <2>1
    <3>2. CASE s[1] >= s[2]
      BY <3>1, <3>2 DEF FloorRound
    <3>3. CASE ~(s[1] >= s[2])
      <4>0. s[1] < s[2]
        BY <1>0, <3>3
      <4>1. /\ Middle(s) \in s[1]..(s[2] - 1)
            /\ <<Middle(s) + 1, s[2], Middle(s)>> \in R /\ <<s[1], Middle(s), s[3]>> \in R
        BY <4>0, FloorMiddle
      <4>a. s[1] \in Int /\ s[2] \in Int /\ s[2] - s[1] <= m + 1
        BY <1>0, <2>3
      <4>b. \A x, y, z \in Int : z \in x..(y - 1) /\ y - x <= m + 1 => y - (z + 1) <= m /\ z - x <= m
        OBVIOUS
      <4>c. Middle(s) \in Int
        BY <4>1, <4>a
      <4>2. s[2] - (Middle(s) + 1) <= m /\ Middle(s) - s[1] <= m
        <5> HIDE DEF h, R, n
        <5> QED BY <4>1, <4>a, <4>b, <4>c
      <4>3. /\ h[<<Middle(s) + 1, s[2], Middle(s)>>] = g[<<Middle(s) + 1, s[2], Middle(s)>>]
            /\ h[<<s[1], Middle(s), s[3]>>] = g[<<s[1], Middle(s), s[3]>>]
        BY <4>1, <4>2
      <4> HIDE DEF h
      <4> QED BY <3>1, <4>3 DEF FloorRound, Middle
    <3> QED BY <3>2, <3>3
  <2>4. Upto(m + 1, h)
    <3> HIDE DEF h
    <3> QED BY <2>3
  <2> HIDE DEF h, Upto
  <2> QED BY <2>2, <2>4
<1>3. n \in S
  <2> HIDE DEF S
  <2> QED BY <1>1, <1>2, SetInduction
<1>4. PICK h \in [R -> 0..n] : Upto(n, h)
  BY <1>3
<1>5. \A s \in R : h[s] = FloorRound(es, k, h, s)
  BY <1>0, <1>4
<1>6. Floors(es, k, h)
  BY <1>5 DEF Floors
<1> QED BY <1>6

(* The keys left of the range are at most k, those right of it are larger, *)
(* and the best position is the last one left of the range.                *)
Narrowed(es, k, s) ==
  /\ s[1] <= s[2]
  /\ \A i \in 1..s[1] : es[i].key <= k
  /\ \A i \in (s[2] + 1)..Len(es) : k < es[i].key
  /\ s[1] > 0 => s[3] = s[1] - 1

(* The last position with a key that is at most k. *)
IsFloor(es, k, pos) ==
  /\ pos \in 0..(Len(es) - 1)
  /\ es[pos + 1].key <= k
  /\ \A i \in (pos + 2)..Len(es) : k < es[i].key

LEMMA FloorFinds ==
  ASSUME NEW es, NEW k \in Int, Len(es) \in Nat, Len(es) > 0, Sorted(es), es[1].key <= k,
         NEW h, Floors(es, k, h)
  PROVE  \A s \in Steps(Len(es)) : Narrowed(es, k, s) => IsFloor(es, k, h[s])
<1> DEFINE n == Len(es)
           R == Steps(n)
           S == {m \in Nat : \A s \in R : s[2] - s[1] <= m /\ Narrowed(es, k, s) => IsFloor(es, k, h[s])}
<1>0. \A s \in R : s[1] \in 0..n /\ s[2] \in 0..n /\ s[3] \in 0..n
  BY DEF Steps
<1>e. \A s \in R : h[s] = FloorRound(es, k, h, s)
  BY DEF Floors
<1>k. /\ \A i \in 1..n : es[i].key \in Int
      /\ \A i, j \in 1..n : i < j => es[i].key < es[j].key
  BY SortedOrder DEF Sorted
<1>b. ASSUME NEW s \in R, s[1] >= s[2], Narrowed(es, k, s) PROVE IsFloor(es, k, h[s])
  <2>0. s[1] \in 0..n /\ s[2] \in 0..n /\ s[3] \in 0..n /\ s[1] <= s[2]
    BY <1>0, <1>b DEF Narrowed
  <2>h. h[s] = FloorRound(es, k, h, s)
    BY <1>e, <1>b
  <2>i. h[s] = s[3]
    BY <1>b, <2>h DEF FloorRound
  <2>1. h[s] = s[3] /\ s[1] = s[2]
    BY <1>b, <2>0, <2>i
  <2>2. s[1] > 0
    <3> SUFFICES ASSUME s[1] = 0 PROVE FALSE
      BY <1>0
    <3>1. 1 \in (s[2] + 1)..n
      BY <2>1
    <3> QED BY <1>k, <1>b, <3>1 DEF Narrowed
  <2>3. s[3] = s[1] - 1 /\ s[3] + 1 = s[1] /\ s[3] + 2 = s[2] + 1
    BY <1>0, <1>b, <2>1, <2>2 DEF Narrowed
  <2>4. s[1] \in 1..s[1]
    BY <1>0, <2>2
  <2>5. es[s[1]].key <= k /\ \A i \in (s[2] + 1)..n : k < es[i].key
    BY <1>b, <2>4 DEF Narrowed
  <2>6. s[3] \in 0..(n - 1)
    BY <2>0, <2>2, <2>3
  <2>7. IsFloor(es, k, s[3])
    BY <2>3, <2>5, <2>6 DEF IsFloor
  <2> QED BY <2>1, <2>7
<1>1. 0 \in S
  <2>1. \A s \in R : s[2] - s[1] <= 0 => s[1] >= s[2]
    BY <1>0
  <2> QED BY <1>b, <2>1
<1>2. ASSUME NEW m \in Nat, m \in S PROVE m + 1 \in S
  <2>1. ASSUME NEW s \in R, s[2] - s[1] <= m + 1, Narrowed(es, k, s) PROVE IsFloor(es, k, h[s])
    <3>1. CASE s[1] >= s[2]
      BY <1>b, <2>1, <3>1
    <3>2. CASE ~(s[1] >= s[2])
      <4> DEFINE mid == Middle(s)
                 up == <<mid + 1, s[2], mid>>
                 down == <<s[1], mid, s[3]>>
      <4>0. s[1] < s[2]
        BY <1>0, <3>2
      <4>1. /\ mid \in s[1]..(s[2] - 1) /\ mid \in 0..(n - 1)
            /\ up \in R /\ down \in R
        BY <4>0, FloorMiddle
      <4>2. h[s] = IF k >= es[mid + 1].key THEN h[up] ELSE h[down]
        BY <1>e, <3>2 DEF FloorRound, Middle
      <4> HIDE DEF mid
      <4>3. /\ up[1] = mid + 1 /\ up[2] = s[2] /\ up[3] = mid
            /\ down[1] = s[1] /\ down[2] = mid /\ down[3] = s[3]
        OBVIOUS
      <4> HIDE DEF up, down
      <4>a. s[1] \in Int /\ s[2] \in Int /\ s[2] - s[1] <= m + 1
        BY <1>0, <2>1
      <4>b. \A x, y, z \in Int : z \in x..(y - 1) /\ y - x <= m + 1 => y - (z + 1) <= m /\ z - x <= m
        OBVIOUS
      <4>c. mid \in Int
        BY <4>1, <4>a
      <4>4. up[2] - up[1] <= m /\ down[2] - down[1] <= m
        BY <4>1, <4>3, <4>a, <4>b, <4>c
      <4>5. mid + 1 \in 1..n /\ es[mid + 1].key \in Int
        BY <1>k, <4>1
      <4>6. CASE k >= es[mid + 1].key
        <5>1. \A i \in 1..(mid + 1) : es[i].key <= k
          <6> SUFFICES ASSUME NEW i \in 1..(mid + 1) PROVE es[i].key <= k
            OBVIOUS
          <6>1. i \in 1..n /\ (i = mid + 1 \/ i < mid + 1)
            BY <4>1, <4>5
          <6> QED BY <1>k, <4>5, <4>6, <6>1
        <5>2. Narrowed(es, k, up)
          BY <1>0, <2>1, <4>1, <4>3, <5>1 DEF Narrowed
        <5> QED BY <1>2, <4>1, <4>2, <4>4, <4>6, <5>2
      <4>7. CASE ~(k >= es[mid + 1].key)
        <5>1. \A i \in (mid + 1)..n : k < es[i].key
          <6> SUFFICES ASSUME NEW i \in (mid + 1)..n PROVE k < es[i].key
            OBVIOUS
          <6>1. i \in 1..n /\ (i = mid + 1 \/ mid + 1 < i)
            BY <4>1, <4>5
          <6> QED BY <1>k, <4>5, <4>7, <6>1
        <5>2. Narrowed(es, k, down)
          BY <1>0, <2>1, <4>1, <4>3, <5>1 DEF Narrowed
        <5> QED BY <1>2, <4>1, <4>2, <4>4, <4>7, <5>2
      <4> QED BY <4>6, <4>7
    <3> QED BY <3>1, <3>2
  <2> QED BY <2>1
<1>3. n \in S
  <2> HIDE DEF S
  <2> QED BY <1>1, <1>2, SetInduction
<1>4. ASSUME NEW s \in R, Narrowed(es, k, s) PROVE IsFloor(es, k, h[s])
  <2>1. s[2] - s[1] <= n
    BY <1>0
  <2> QED BY <1>3, <1>4, <2>1
<1> QED BY <1>4

(* Whatever the page holds, the search ends at one of its entries. *)
LEMMA FloorIn ==
  ASSUME NEW es, NEW k, Len(es) \in Nat, Len(es) > 0
  PROVE  SearchFloor(es, k) \in 0..(Len(es) - 1)
<1> DEFINE n == Len(es)
           R == Steps(n)
<1>0. \A s \in R : s[1] \in 0..n /\ s[2] \in 0..n /\ s[3] \in 0..n
  BY DEF Steps
<1>1. PICK h : Floors(es, k, h) /\ SearchFloor(es, k) = h[<<0, Len(es), 0>>]
  BY FloorExists, FloorIs
<1> DEFINE S == {m \in Nat : \A s \in R : s[2] - s[1] <= m /\ s[3] < n => h[s] \in 0..(n - 1)}
<1>e. \A s \in R : h[s] = FloorRound(es, k, h, s)
  BY <1>1 DEF Floors
<1>b. \A s \in R : s[1] >= s[2] /\ s[3] < n => h[s] \in 0..(n - 1)
  <2> SUFFICES ASSUME NEW s \in R, s[1] >= s[2], s[3] < n PROVE h[s] \in 0..(n - 1)
    OBVIOUS
  <2>1. h[s] = s[3]
    BY <1>e DEF FloorRound
  <2> QED BY <1>0, <2>1
<1>2. 0 \in S
  <2>1. \A s \in R : s[2] - s[1] <= 0 => s[1] >= s[2]
    BY <1>0
  <2> QED BY <1>b, <2>1
<1>3. ASSUME NEW m \in Nat, m \in S PROVE m + 1 \in S
  <2>1. ASSUME NEW s \in R, s[2] - s[1] <= m + 1, s[3] < n PROVE h[s] \in 0..(n - 1)
    <3>1. CASE s[1] >= s[2]
      BY <1>b, <2>1, <3>1
    <3>2. CASE ~(s[1] >= s[2])
      <4> DEFINE mid == Middle(s)
                 up == <<mid + 1, s[2], mid>>
                 down == <<s[1], mid, s[3]>>
      <4>0. s[1] < s[2]
        BY <1>0, <3>2
      <4>1. /\ mid \in s[1]..(s[2] - 1) /\ mid \in 0..(n - 1)
            /\ up \in R /\ down \in R
        BY <4>0, FloorMiddle
      <4>2. h[s] = h[up] \/ h[s] = h[down]
        BY <1>e, <3>2 DEF FloorRound, Middle
      <4> HIDE DEF mid
      <4>3. /\ up[1] = mid + 1 /\ up[2] = s[2] /\ up[3] = mid
            /\ down[1] = s[1] /\ down[2] = mid /\ down[3] = s[3]
        OBVIOUS
      <4> HIDE DEF up, down
      <4>a. s[1] \in Int /\ s[2] \in Int /\ s[2] - s[1] <= m + 1
        BY <1>0, <2>1
      <4>b. \A x, y, z \in Int : z \in x..(y - 1) /\ y - x <= m + 1 => y - (z + 1) <= m /\ z - x <= m
        OBVIOUS
      <4>c. mid \in Int
        BY <4>1, <4>a
      <4>4. up[2] - up[1] <= m /\ down[2] - down[1] <= m /\ up[3] < n /\ down[3] < n
        BY <2>1, <4>1, <4>3, <4>a, <4>b, <4>c
      <4> QED BY <1>3, <4>1, <4>2, <4>4
    <3> QED BY <3>1, <3>2
  <2> QED BY <2>1
<1>4. n \in S
  <2> HIDE DEF S
  <2> QED BY <1>2, <1>3, SetInduction
<1>5. LET s == <<0, n, 0>> IN s \in R /\ s[2] - s[1] <= n /\ s[3] < n
  BY DEF Steps
<1> QED BY <1>1, <1>4, <1>5

(* The search of find_child on a sorted page that has a separator at most  *)
(* k: the last such separator.                                             *)
THEOREM FloorIsExact ==
  ASSUME NEW es, Len(es) \in Nat, Len(es) > 0, Sorted(es), NEW k \in Int, es[1].key <= k
  PROVE  IsFloor(es, k, SearchFloor(es, k))
<1>1. PICK h : Floors(es, k, h) /\ SearchFloor(es, k) = h[<<0, Len(es), 0>>]
  BY FloorExists, FloorIs
<1>2. <<0, Len(es), 0>> \in Steps(Len(es)) /\ Narrowed(es, k, <<0, Len(es), 0>>)
  BY DEF Steps, Narrowed
<1> QED BY <1>1, <1>2, FloorFinds
=============================================================================
