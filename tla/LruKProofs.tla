----------------------------- MODULE LruKProofs -----------------------------
(***************************************************************************)
(* Proofs about LruKEvictor for any set of frames and any K.               *)
(***************************************************************************)
EXTENDS LruKEvictor, SortedEntriesProofs, FiniteSetTheorems, SequenceTheorems, TLAPS

(* What Remember(history, ts) does to a history: the timestamp goes to the *)
(* end, nothing else is added, and the accesses kept stay in their order.  *)
LEMMA RememberShape ==
  ASSUME NEW h \in Seq(Nat), Len(h) <= K, NEW ts \in Nat
  PROVE  LET new == Remember(h, ts)
             d   == Len(h) + 1 - Len(new)
         IN  /\ new \in Seq(Nat)
             /\ Len(new) \in 1..K
             /\ d \in Nat
             /\ \A i \in 1..(Len(new) - 1) : i + d \in 1..Len(h) /\ new[i] = h[i + d]
             /\ new[Len(new)] = ts
<1> USE LruKAssumption
<1>1. Len(h) \in Nat
  OBVIOUS
<1>2. CASE Len(h) < K
  <2> DEFINE longer == Append(h, ts)
  <2>1. /\ longer \in Seq(Nat) /\ Len(longer) = Len(h) + 1
        /\ \A i \in 1..Len(h) : longer[i] = h[i]
        /\ longer[Len(h) + 1] = ts
    BY <1>1
  <2>2. Remember(h, ts) = longer
    BY <1>1, <1>2 DEF Remember
  <2> HIDE DEF longer
  <2>3. Len(h) + 1 - Len(longer) = 0
    BY <1>1, <2>1
  <2>4. \A i \in 1..(Len(longer) - 1) : i + 0 \in 1..Len(h) /\ longer[i] = h[i + 0]
    BY <1>1, <2>1
  <2>5. Len(longer) \in 1..K /\ longer[Len(longer)] = ts
    BY <1>1, <1>2, <2>1
  <2>6. 0 \in Nat
    OBVIOUS
  <2> QED BY <2>1, <2>2, <2>3, <2>4, <2>5, <2>6, Zenon
<1>3. CASE Len(h) = K
  <2> DEFINE longer == Append(h, ts)
  <2>1. /\ longer \in Seq(Nat) /\ longer # <<>> /\ Len(longer) = K + 1
        /\ \A i \in 1..K : longer[i] = h[i]
        /\ longer[K + 1] = ts
    BY <1>1, <1>3
  <2>2. Remember(h, ts) = Tail(longer)
    BY <1>3, <2>1 DEF Remember
  <2>3. /\ Tail(longer) \in Seq(Nat) /\ Len(Tail(longer)) = K
        /\ \A i \in 1..K : Tail(longer)[i] = longer[i + 1]
    <3> HIDE DEF longer
    <3> QED BY <2>1
  <2> HIDE DEF longer
  <2> QED BY <1>3, <2>1, <2>2, <2>3
<1> QED BY <1>1, <1>2, <1>3
(* What an access makes of the entry of its frame, old or new. *)
LEMMA AccessedEntry ==
  ASSUME HistoryInv, NEW f \in Frames
  PROVE  LET old == Entry(f, [history |-> <<>>, evictable |-> FALSE])
         IN  /\ old \in FrameInfo
             /\ Len(old.history) <= K
             /\ \A i \in 1..Len(old.history) : f \in Tracked /\ old.history[i] = info[f].history[i]
             /\ f \in Tracked => old = info[f]
<1> USE LruKAssumption DEF HistoryInv, LruTypeOK, HistoryOrdered
<1>1. CASE f \in Tracked
  BY <1>1 DEF Entry, FrameInfo
<1>2. CASE f \notin Tracked
  BY <1>2 DEF Entry, FrameInfo
<1> QED BY <1>1, <1>2

LEMMA InitHistory == LruInit => HistoryInv
BY LruKAssumption DEF LruInit, HistoryInv, LruTypeOK, HistoryOrdered, HistoriesDisjoint, Tracked, FrameInfo

LEMMA RecordAccessHistory ==
  ASSUME HistoryInv, NEW f \in Frames, RecordAccess(f)
  PROVE  HistoryInv'
<1> DEFINE old == Entry(f, [history |-> <<>>, evictable |-> FALSE])
           new == Remember(old.history, clock)
           d   == Len(old.history) + 1 - Len(new)
<1>1. /\ old \in FrameInfo /\ old.history \in Seq(Nat) /\ Len(old.history) <= K
      /\ \A i \in 1..Len(old.history) : f \in Tracked /\ old.history[i] = info[f].history[i]
  BY AccessedEntry DEF FrameInfo
<1>2. clock \in Nat /\ clock' = clock + 1 /\ clock' \in 0..MaxClock
  BY LruKAssumption DEF RecordAccess, HistoryInv, LruTypeOK
<1>3. /\ new \in Seq(Nat)
      /\ Len(new) \in 1..K
      /\ d \in Nat
      /\ \A i \in 1..(Len(new) - 1) : i + d \in 1..Len(old.history) /\ new[i] = old.history[i + d]
      /\ new[Len(new)] = clock
  <2> HIDE DEF old
  <2> QED BY <1>1, <1>2, RememberShape
<1>4. /\ Tracked' = Tracked \union {f}
      /\ info'[f] = [old EXCEPT !.history = new]
      /\ \A g \in Tracked \ {f} : info'[g] = info[g]
      /\ info' \in [Tracked' -> {[old EXCEPT !.history = new]} \union {info[g] : g \in Tracked}]
  BY DEF RecordAccess, Put, Tracked
<1>5. info'[f] \in FrameInfo /\ info'[f].history = new
  <2> HIDE DEF old, new
  <2> QED BY <1>1, <1>3, <1>4 DEF FrameInfo
<1> HIDE DEF old, new, d
<1>6. LruTypeOK'
  <2>1. \A g \in Tracked' : info'[g] \in FrameInfo
    BY <1>4, <1>5 DEF HistoryInv, LruTypeOK
  <2>2. Tracked' \subseteq Frames
    BY <1>4 DEF HistoryInv, LruTypeOK
  <2>3. info' = [g \in Tracked' |-> info'[g]]
    BY <1>4
  <2>4. info' \in [Tracked' -> FrameInfo]
    BY <2>1, <2>3
  <2> QED BY <2>2, <2>4, <1>2 DEF LruTypeOK
(* Every access the new history holds is the present one or an old one of the frame. *)
<1>7. \A i \in 1..Len(new) :
        \/ i = Len(new) /\ new[i] = clock
        \/ /\ i < Len(new) /\ f \in Tracked
           /\ i + d \in 1..Len(info[f].history) /\ new[i] = info[f].history[i + d]
           /\ new[i] < clock
  <2> SUFFICES ASSUME NEW i \in 1..Len(new), i # Len(new)
               PROVE  /\ i < Len(new) /\ f \in Tracked
                      /\ i + d \in 1..Len(info[f].history) /\ new[i] = info[f].history[i + d]
                      /\ new[i] < clock
    BY <1>3
  <2>1. i \in 1..(Len(new) - 1) /\ i < Len(new)
    BY <1>3
  <2>2. i + d \in 1..Len(old.history) /\ new[i] = old.history[i + d]
    BY <1>3, <2>1
  <2>3. f \in Tracked /\ new[i] = info[f].history[i + d]
    BY <1>1, <2>2
  <2>4. old = info[f]
    BY <2>3, AccessedEntry DEF old
  <2>5. new[i] < clock
    BY <2>2, <2>3, <2>4 DEF HistoryInv, HistoryOrdered
  <2> QED BY <2>1, <2>2, <2>3, <2>4, <2>5
<1>8. HistoryOrdered'
  <2> SUFFICES ASSUME NEW g \in Tracked'
               PROVE  LET h == info'[g].history
                      IN  /\ Len(h) <= K
                          /\ \A i \in 1..Len(h) : h[i] < clock'
                          /\ \A i, j \in 1..Len(h) : i < j => h[i] < h[j]
    BY DEF HistoryOrdered
  <2>1. CASE g = f
    <3>1. /\ Len(new) <= K
          /\ \A i \in 1..Len(new) : new[i] < clock'
      BY <1>2, <1>3, <1>7
    <3>2. ASSUME NEW i \in 1..Len(new), NEW j \in 1..Len(new), i < j
          PROVE  new[i] < new[j]
      <4>1. CASE j = Len(new)
        BY <1>3, <1>7, <3>2, <4>1
      <4>2. CASE j # Len(new)
        <5>1. /\ f \in Tracked
              /\ i + d \in 1..Len(info[f].history) /\ new[i] = info[f].history[i + d]
              /\ j + d \in 1..Len(info[f].history) /\ new[j] = info[f].history[j + d]
          BY <1>3, <1>7, <3>2, <4>2
        <5>2. i + d < j + d
          BY <1>3, <3>2
        <5> QED BY <5>1, <5>2 DEF HistoryInv, HistoryOrdered
      <4> QED BY <4>1, <4>2
    <3> QED BY <2>1, <3>1, <3>2, <1>5
  <2>2. CASE g # f
    <3>1. /\ g \in Tracked /\ info'[g] = info[g] /\ info[g].history \in Seq(Nat)
          /\ Len(info[g].history) \in Nat
      BY <1>4, <2>2 DEF HistoryInv, LruTypeOK, FrameInfo
    <3>2. \A i \in 1..Len(info[g].history) : info[g].history[i] \in Nat
      BY <3>1
    <3>3. \A i \in 1..Len(info[g].history) : info[g].history[i] < clock'
      BY <3>1, <3>2, <1>2 DEF HistoryInv, HistoryOrdered
    <3> QED BY <3>1, <3>3 DEF HistoryInv, HistoryOrdered
  <2> QED BY <2>1, <2>2
<1>9. HistoriesDisjoint'
  <2>1. ASSUME NEW g \in Tracked', g # f,
               NEW i \in 1..Len(new), NEW j \in 1..Len(info'[g].history)
        PROVE  new[i] # info'[g].history[j]
    <3>1. /\ g \in Tracked /\ info'[g] = info[g]
          /\ info[g].history[j] < clock
      BY <1>4, <2>1 DEF HistoryInv, HistoryOrdered
    <3>2. info[g].history[j] \in Nat
      BY <3>1, <2>1 DEF HistoryInv, LruTypeOK, FrameInfo
    <3>3. CASE i = Len(new) /\ new[i] = clock
      BY <1>2, <3>1, <3>2, <3>3
    <3>4. CASE /\ i < Len(new) /\ f \in Tracked
               /\ i + d \in 1..Len(info[f].history) /\ new[i] = info[f].history[i + d]
      BY <3>1, <3>4, <2>1 DEF HistoryInv, HistoriesDisjoint
    <3> QED BY <1>7, <3>3, <3>4
  <2>2. \A g, h \in Tracked' \ {f} : g \in Tracked /\ h \in Tracked /\ info'[g] = info[g] /\ info'[h] = info[h]
    BY <1>4
  <2> SUFFICES ASSUME NEW g \in Tracked', NEW h \in Tracked', g # h,
                      NEW i \in 1..Len(info'[g].history), NEW j \in 1..Len(info'[h].history)
               PROVE  info'[g].history[i] # info'[h].history[j]
    BY DEF HistoriesDisjoint
  <2>3. CASE g = f
    BY <2>1, <2>3, <1>5
  <2>4. CASE h = f
    BY <2>1, <2>4, <1>5
  <2>5. CASE g # f /\ h # f
    BY <2>2, <2>5, SMTT(30) DEF HistoryInv, HistoriesDisjoint
  <2> QED BY <2>3, <2>4, <2>5
<1> QED BY <1>6, <1>8, <1>9 DEF HistoryInv

LEMMA SetEvictableHistory ==
  ASSUME HistoryInv, NEW f \in Frames, NEW b \in BOOLEAN, SetEvictable(f, b)
  PROVE  HistoryInv'
<1> DEFINE old == Entry(f, [history |-> <<>>, evictable |-> b])
<1>1. old \in FrameInfo /\ (IF f \in Tracked THEN old = info[f] ELSE old.history = <<>>)
  BY DEF Entry, FrameInfo, HistoryInv, LruTypeOK
<1>2. /\ Tracked' = Tracked \union {f}
      /\ info'[f] = [old EXCEPT !.evictable = b]
      /\ \A g \in Tracked \ {f} : info'[g] = info[g]
      /\ info' = [g \in Tracked' |-> info'[g]]
      /\ clock' = clock
  BY DEF SetEvictable, Put, Tracked
<1> HIDE DEF old
<1>3. info'[f] \in FrameInfo /\ info'[f].history = old.history
  BY <1>1, <1>2 DEF FrameInfo
(* A frame that gets its entry here has the empty history, the others keep theirs. *)
<1>4. \A g \in Tracked' : \/ g \in Tracked /\ info'[g].history = info[g].history
                          \/ info'[g].history = <<>>
  BY <1>1, <1>2, <1>3
<1>5. LruTypeOK'
  <2>1. \A g \in Tracked' : info'[g] \in FrameInfo
    BY <1>2, <1>3 DEF HistoryInv, LruTypeOK
  <2>2. info' \in [Tracked' -> FrameInfo]
    BY <2>1, <1>2
  <2> QED BY <2>2, <1>2 DEF HistoryInv, LruTypeOK
<1>6. Len(<<>>) = 0 /\ K \in Nat
  BY LruKAssumption
<1>7. HistoryOrdered'
  BY <1>2, <1>4, <1>6 DEF HistoryInv, HistoryOrdered
<1>8. HistoriesDisjoint'
  BY <1>4, <1>6, SMTT(30) DEF HistoryInv, HistoriesDisjoint
<1> QED BY <1>5, <1>7, <1>8 DEF HistoryInv

LEMMA RemoveFrameHistory ==
  ASSUME HistoryInv, NEW f \in Frames, RemoveFrame(f)
  PROVE  HistoryInv'
<1>1. /\ Tracked' = Tracked \ {f}
      /\ \A g \in Tracked' : g \in Tracked /\ info'[g] = info[g]
      /\ info' = [g \in Tracked' |-> info[g]]
      /\ clock' = clock
  BY DEF RemoveFrame, Tracked
<1>2. LruTypeOK'
  BY <1>1 DEF HistoryInv, LruTypeOK
<1>3. HistoryOrdered' /\ HistoriesDisjoint'
  BY <1>1 DEF HistoryInv, HistoryOrdered, HistoriesDisjoint
<1> QED BY <1>2, <1>3 DEF HistoryInv

LEMMA StepHistory == HistoryInv /\ [LruNext]_lruVars => HistoryInv'
<1>1. HistoryInv /\ UNCHANGED lruVars => HistoryInv'
  BY DEF lruVars, HistoryInv, LruTypeOK, HistoryOrdered, HistoriesDisjoint, Tracked
<1> QED BY <1>1, RecordAccessHistory, SetEvictableHistory, RemoveFrameHistory DEF LruNext

(* For every K and every set of frames, record_access, set_evictable and   *)
(* remove_frame in any order keep at most the K last accesses of a frame,  *)
(* in order, and never count an access for two frames.                     *)
THEOREM HistoriesAreExact == LruSpec => []HistoryInv
BY InitHistory, StepHistory, PTL DEF LruSpec

-----------------------------------------------------------------------------
(* The refinement: every operation of the LRU-K policy is the operation of *)
(* the same name of EvictionPolicy.                                        *)

LEMMA InitPolicy == LruInit => Abstract!PolicyInit
BY DEF LruInit, Abstract!PolicyInit, Tracked

LEMMA RecordAccessPolicy ==
  ASSUME HistoryInv, NEW f \in Frames, RecordAccess(f)
  PROVE  Abstract!RecordAccess(f)
<1> DEFINE old == Entry(f, [history |-> <<>>, evictable |-> FALSE])
           new == Remember(old.history, clock)
<1>1. /\ old \in FrameInfo /\ old.history \in Seq(Nat) /\ Len(old.history) <= K
      /\ f \in Tracked => old.evictable = info[f].evictable
      /\ f \notin Tracked => old.evictable = FALSE
  BY AccessedEntry DEF FrameInfo, Entry
<1>2. new # <<>>
  <2>1. clock \in Nat
    BY DEF HistoryInv, LruTypeOK
  <2>2. Len(new) \in 1..K
    <3> HIDE DEF old
    <3> QED BY <1>1, <2>1, RememberShape
  <2> HIDE DEF new
  <2> QED BY <2>2
<1>3. /\ Tracked' = Tracked \union {f}
      /\ info'[f] = [old EXCEPT !.history = new]
      /\ \A g \in Tracked \ {f} : info'[g] = info[g]
  BY DEF RecordAccess, Put, Tracked
<1> HIDE DEF old, new
<1>4. info'[f].history = new /\ info'[f].evictable = old.evictable
  BY <1>1, <1>3 DEF FrameInfo
<1> QED BY <1>1, <1>2, <1>3, <1>4 DEF Abstract!RecordAccess

LEMMA SetEvictablePolicy ==
  ASSUME HistoryInv, NEW f \in Frames, NEW b \in BOOLEAN, SetEvictable(f, b)
  PROVE  Abstract!SetEvictable(f, b)
<1> DEFINE old == Entry(f, [history |-> <<>>, evictable |-> b])
<1>1. old \in FrameInfo /\ (IF f \in Tracked THEN old = info[f] ELSE old.history = <<>>)
  BY DEF Entry, FrameInfo, HistoryInv, LruTypeOK
<1>2. /\ Tracked' = Tracked \union {f}
      /\ info'[f] = [old EXCEPT !.evictable = b]
      /\ \A g \in Tracked \ {f} : info'[g] = info[g]
  BY DEF SetEvictable, Put, Tracked
<1> HIDE DEF old
<1>3. info'[f].evictable = b /\ info'[f].history = old.history
  BY <1>1, <1>2 DEF FrameInfo
<1> QED BY <1>1, <1>2, <1>3 DEF Abstract!SetEvictable

LEMMA RemoveFramePolicy ==
  ASSUME HistoryInv, NEW f \in Frames, RemoveFrame(f)
  PROVE  Abstract!RemoveFrame(f)
<1>1. /\ Tracked' = Tracked \ {f}
      /\ \A g \in Tracked' : info'[g] = info[g]
  BY DEF RemoveFrame, Tracked
<1> QED BY <1>1 DEF Abstract!RemoveFrame

LEMMA StepPolicy ==
  HistoryInv /\ [LruNext]_lruVars => [Abstract!PolicyNext]_(Abstract!policyVars)
<1>1. UNCHANGED lruVars => UNCHANGED Abstract!policyVars
  BY DEF lruVars, Abstract!policyVars, Tracked
<1>2. HistoryInv /\ LruNext => Abstract!PolicyNext
  BY RecordAccessPolicy, SetEvictablePolicy, RemoveFramePolicy DEF LruNext, Abstract!PolicyNext
<1> QED BY <1>1, <1>2

(* The LRU-K policy implements what the buffer pool relies on, whatever K  *)
(* and the number of frames.                                               *)
THEOREM LruKImplementsPolicy == LruSpec => ImplementsPolicy
<1>1. LruInit => Abstract!PolicyInit
  BY InitPolicy
<1> QED BY <1>1, HistoriesAreExact, StepPolicy, PTL
        DEF LruSpec, ImplementsPolicy, Abstract!PolicySpec

-----------------------------------------------------------------------------
(* find_victim *)

(* The results the loop may hold. *)
Bests == [victim : Tracked \union {NoVictim}, distance : Nat, earliest : Nat]

(* What the loop has found when it has seen the frames of S: nothing when  *)
(* none is a candidate; otherwise the earliest of the frames with fewer    *)
(* than K accesses, at infinite distance; and when there are none of those *)
(* the frame whose K-th last access is oldest, with its distance.          *)
IsBest(S, b) ==
  LET cands == {f \in S : Candidate(f)}
      young == {f \in cands : Len(info[f].history) < K}
  IN  /\ cands = {} => b.victim = NoVictim /\ b.distance = 0 /\ b.earliest = Infinity
      /\ young # {} => /\ b.victim \in young
                       /\ b.distance = Infinity
                       /\ b.earliest = info[b.victim].history[1]
                       /\ \A g \in young : b.earliest <= info[g].history[1]
      /\ cands # {} /\ young = {} =>
           /\ b.victim \in cands
           /\ b.distance = clock - info[b.victim].history[1]
           /\ b.earliest = Infinity
           /\ \A g \in cands : info[b.victim].history[1] <= info[g].history[1]

(* The first access of a candidate. *)
LEMMA CandidateTime ==
  ASSUME HistoryInv, NEW f \in Tracked, Candidate(f)
  PROVE  /\ info[f].history[1] \in Nat
         /\ info[f].history[1] < clock
         /\ Len(info[f].history) \in 1..K
         /\ clock \in Nat /\ clock < Infinity
<1> USE LruKAssumption
<1>1. /\ info[f].history \in Seq(Nat) /\ info[f].history # <<>>
      /\ Len(info[f].history) <= K
      /\ clock \in Nat /\ clock < Infinity
  BY DEF HistoryInv, LruTypeOK, HistoryOrdered, FrameInfo, Candidate, Infinity
<1>2. Len(info[f].history) \in 1..K
  BY <1>1
<1>3. 1 \in 1..Len(info[f].history)
  BY <1>2
<1>4. info[f].history[1] \in Nat
  BY <1>1, <1>3
<1>5. info[f].history[1] < clock
  BY <1>3 DEF HistoryInv, HistoryOrdered
<1> QED BY <1>1, <1>2, <1>4, <1>5

(* One round of the loop. *)
LEMMA ConsiderStep ==
  ASSUME HistoryInv, NEW S \in SUBSET Tracked, NEW f \in Tracked,
         NEW b \in Bests, IsBest(S, b)
  PROVE  IsBest(S \union {f}, Consider(b, f))
<1> DEFINE h == info[f].history
<1> USE LruKAssumption
<1>0. \A g \in Tracked : Candidate(g) =>
         /\ info[g].history[1] \in Nat /\ info[g].history[1] < clock
         /\ Len(info[g].history) \in 1..K
  BY CandidateTime
<1>00. Infinity \in Nat /\ clock \in Nat /\ clock < Infinity
  BY DEF HistoryInv, LruTypeOK, Infinity
<1>1. CASE ~Candidate(f)
  <2>1. Consider(b, f) = b
    BY <1>1 DEF Consider
  <2>2. {g \in S \union {f} : Candidate(g)} = {g \in S : Candidate(g)}
    BY <1>1
  <2> QED BY <2>1, <2>2 DEF IsBest
<1> DEFINE cands == {g \in S : Candidate(g)}
           young == {g \in cands : Len(info[g].history) < K}
           time(g) == info[g].history[1]
           c == Consider(b, f)
<1>b. b.distance \in Nat /\ b.earliest \in Nat
  BY DEF Bests
<1>t. \A g \in cands \union {f} : Candidate(g) => time(g) \in Nat /\ time(g) < clock
  BY <1>0
<1>old. /\ cands = {} => b.victim = NoVictim /\ b.distance = 0 /\ b.earliest = Infinity
        /\ young # {} => /\ b.victim \in young
                         /\ b.distance = Infinity
                         /\ b.earliest = time(b.victim)
                         /\ \A g \in young : b.earliest <= time(g)
        /\ cands # {} /\ young = {} =>
             /\ b.victim \in cands
             /\ b.distance = clock - time(b.victim)
             /\ b.earliest = Infinity
             /\ \A g \in cands : time(b.victim) <= time(g)
  BY DEF IsBest
<1>2. CASE Candidate(f) /\ Len(h) < K
  <2>1. c = IF time(f) < b.earliest
              THEN [victim |-> f, distance |-> Infinity, earliest |-> time(f)]
              ELSE b
    BY <1>2 DEF Consider
  <2>2. time(f) \in Nat /\ time(f) < Infinity /\ \A g \in young : time(g) \in Nat
    BY <1>2, <1>t, <1>00
  <2> DEFINE more == young \union {f}
  <2>3. /\ {g \in {h2 \in S \union {f} : Candidate(h2)} : Len(info[g].history) < K} = more
        /\ {g \in S \union {f} : Candidate(g)} # {}
    BY <1>2
  <2> HIDE DEF young, time, c
  <2>4. /\ c.victim \in more
        /\ c.distance = Infinity
        /\ c.earliest = time(c.victim)
        /\ \A g \in more : c.earliest <= time(g)
    <3>1. CASE time(f) < b.earliest
      <4>1. c.victim = f /\ c.distance = Infinity /\ c.earliest = time(f)
        BY <2>1, <3>1
      <4>2. \A g \in more : time(f) <= time(g)
        BY <1>old, <1>b, <2>2, <3>1
      <4> QED BY <4>1, <4>2
    <3>2. CASE ~(time(f) < b.earliest)
      <4>1. c = b
        BY <2>1, <3>2
      <4>2. young # {}
        BY <1>old, <1>00, <2>2, <3>2
      <4> QED BY <1>old, <1>b, <2>2, <3>2, <4>1, <4>2
    <3> QED BY <3>1, <3>2
  <2> HIDE DEF more
  <2>5. more # {}
    BY <2>4
  <2> QED BY <2>3, <2>4, <2>5 DEF IsBest, time, c
<1>3. CASE Candidate(f) /\ ~(Len(h) < K)
  <2>1. c = IF b.distance < Infinity /\ clock - time(f) > b.distance
              THEN [b EXCEPT !.victim = f, !.distance = clock - time(f)]
              ELSE b
    BY <1>3 DEF Consider
  <2>2. time(f) \in Nat /\ time(f) < clock
    BY <1>3, <1>t
  <2>3. /\ {g \in S \union {f} : Candidate(g)} = cands \union {f}
        /\ {g \in cands \union {f} : Len(info[g].history) < K} = young
        /\ young \subseteq cands
    BY <1>3
  <2>4. \A g \in cands : time(g) \in Nat /\ time(g) < clock
    BY <1>t
  <2> HIDE DEF cands, young, time, c
  <2>5. CASE young # {}
    <3>1. c = b
      BY <1>old, <1>00, <2>1, <2>5
    <3> QED BY <1>old, <2>3, <2>5, <3>1 DEF IsBest, time, c
  <2>6. CASE young = {}
    <3>1. b.distance < Infinity /\ b.earliest = Infinity
      BY <1>old, <1>00, <2>4, <2>6
    <3>2. CASE clock - time(f) > b.distance
      <4>1. c.victim = f /\ c.distance = clock - time(f) /\ c.earliest = Infinity
        BY <2>1, <3>1, <3>2 DEF Bests
      <4>2. \A g \in cands : time(f) <= time(g)
        BY <1>old, <1>00, <2>2, <2>4, <2>6, <3>2
      <4>3. \A g \in cands \union {f} : time(f) <= time(g)
        BY <2>2, <4>2
      <4> QED BY <2>3, <2>6, <4>1, <4>3 DEF IsBest, time, c
    <3>3. CASE ~(clock - time(f) > b.distance)
      <4>1. c = b
        BY <2>1, <3>3
      <4>2. cands # {}
        BY <1>old, <1>00, <2>2, <3>3
      <4>3. /\ b.victim \in cands \union {f}
            /\ b.distance = clock - time(b.victim)
            /\ \A g \in cands : time(b.victim) <= time(g)
        BY <1>old, <2>6, <4>2
      <4>4. time(b.victim) <= time(f)
        BY <1>old, <1>00, <2>2, <2>4, <2>6, <3>3, <4>2
      <4> QED BY <2>3, <2>6, <3>1, <4>1, <4>3, <4>4 DEF IsBest, time, c
    <3> QED BY <3>2, <3>3
  <2> QED BY <2>5, <2>6
<1> QED BY <1>1, <1>2, <1>3

LEMMA ConsiderType ==
  ASSUME HistoryInv, NEW f \in Tracked, NEW b \in Bests
  PROVE  Consider(b, f) \in Bests
<1>1. CASE ~Candidate(f)
  BY <1>1 DEF Consider
<1>2. CASE Candidate(f)
  <2>1. /\ info[f].history[1] \in Nat /\ clock - info[f].history[1] \in Nat
        /\ Infinity \in Nat
    BY <1>2, CandidateTime, LruKAssumption DEF Infinity
  <2> QED BY <1>2, <2>1 DEF Consider, Bests
<1> QED BY <1>1, <1>2

(* What an iteration order is: it reaches every entry. *)
LEMMA OrderShape ==
  ASSUME IsFiniteSet(Tracked), NEW order \in Orders
  PROVE  /\ Len(order) \in Nat
         /\ order \in [1..Len(order) -> Tracked]
         /\ {order[i] : i \in 1..Len(order)} = Tracked
<1> DEFINE n == Cardinality(Tracked)
<1>1. n \in Nat
  BY FS_CardinalityType
<1>2. /\ order \in [1..n -> Tracked]
      /\ \A i, j \in 1..n : order[i] = order[j] => i = j
  BY DEF Orders
<1>3. Len(order) = n
  BY <1>1, <1>2
<1>4. IsFiniteSet(1..n) /\ Cardinality(1..n) = n
  BY <1>1, FS_Interval
<1>5. order \in Injection(1..n, Tracked)
  BY <1>2 DEF Injection, IsInjective
<1>6. order \in Surjection(1..n, Tracked)
  BY <1>4, <1>5, FS_Injection
<1>7. \A f \in Tracked : \E i \in 1..n : order[i] = f
  BY <1>6 DEF Surjection
<1> QED BY <1>1, <1>2, <1>3, <1>7

(* The loop of find_victim, in any order of the entries, ends with the     *)
(* best of all frames.                                                     *)
LEMMA FindVictimIsBest ==
  ASSUME HistoryInv, IsFiniteSet(Tracked), NEW order \in Orders
  PROVE  \E b \in Bests : FindVictim(order) = b.victim /\ IsBest(Tracked, b)
<1> DEFINE L == Len(order)
           start == [victim |-> NoVictim, distance |-> 0, earliest |-> Infinity]
           F == [n \in 1..L |-> [b \in Bests |-> Consider(b, order[n])]]
           Loop(g) == g = [n \in 0..L |-> IF n = 0 THEN start ELSE Consider(g[n - 1], order[n])]
           best == CHOOSE g : Loop(g)
<1>1. L \in Nat /\ order \in [1..L -> Tracked] /\ {order[i] : i \in 1..L} = Tracked
  BY OrderShape
<1>2. start \in Bests
  BY LruKAssumption DEF Bests, Infinity
<1>3. F \in [1..L -> [Bests -> Bests]]
  BY <1>1, ConsiderType
<1> HIDE DEF L
<1>4. \E g : Loop(g)
  <2>0. PICK g \in [0..L -> Bests] : IsLoop(g, start, L, F)
    <3>1. L \in Nat
      BY <1>1
    <3> HIDE DEF start, F
    <3> QED BY <3>1, <1>2, <1>3, LoopExists
  <2>1. g[0] = start /\ \A n \in 1..L : g[n] = F[n][g[n - 1]]
    BY <2>0 DEF IsLoop
  <2>2. ASSUME NEW n \in 1..L
        PROVE  g[n - 1] \in Bests /\ g[n] = Consider(g[n - 1], order[n])
    <3>1. n - 1 \in 0..L
      BY <1>1
    <3>2. g[n - 1] \in Bests
      BY <3>1
    <3>3. g[n] = F[n][g[n - 1]]
      BY <2>1
    <3> QED BY <3>2, <3>3
  <2>3. g = [n \in 0..L |-> g[n]]
    BY <2>1
  <2>4. \A n \in 0..L : g[n] = IF n = 0 THEN start ELSE Consider(g[n - 1], order[n])
    BY <1>1, <2>1, <2>2
  <2>5. Loop(g)
    BY <2>3, <2>4, Zenon
  <2> QED BY <2>5
<1>5. Loop(best)
  <2> HIDE DEF Loop
  <2> QED BY <1>4
<1>6. FindVictim(order) = best[L].victim
  BY DEF FindVictim, L
<1> HIDE DEF best
<1>7. best[0] = start /\ \A n \in 0..(L - 1) : best[n + 1] = Consider(best[n], order[n + 1])
  <2>1. best[0] = start
    BY <1>1, <1>5
  <2>2. ASSUME NEW n \in 0..(L - 1) PROVE best[n + 1] = Consider(best[n], order[n + 1])
    <3>1. n + 1 \in 0..L /\ n + 1 # 0 /\ (n + 1) - 1 = n
      BY <1>1
    <3> HIDE DEF start
    <3>2. best[n + 1] = Consider(best[(n + 1) - 1], order[n + 1])
      BY <1>5, <3>1
    <3> QED BY <3>1, <3>2
  <2> QED BY <2>1, <2>2
<1> DEFINE Seen(n) == {order[i] : i \in 1..n}
           Good == {n \in 0..L : best[n] \in Bests /\ IsBest(Seen(n), best[n])}
<1>8. 0 \in Good
  <2>1. Seen(0) = {}
    OBVIOUS
  <2>2. IsBest({}, start)
    BY DEF IsBest
  <2>3. 0 \in 0..L
    BY <1>1
  <2>4. best[0] \in Bests /\ IsBest(Seen(0), best[0])
    <3> HIDE DEF start, Seen
    <3> QED BY <1>2, <1>7, <2>1, <2>2
  <2> QED BY <2>3, <2>4
<1>9. \A n \in 0..(L - 1) : n \in Good => n + 1 \in Good
  <2> SUFFICES ASSUME NEW n \in 0..(L - 1), best[n] \in Bests, IsBest(Seen(n), best[n])
               PROVE  n + 1 \in 0..L /\ best[n + 1] \in Bests /\ IsBest(Seen(n + 1), best[n + 1])
    OBVIOUS
  <2>1. n + 1 \in 1..L /\ n + 1 \in 0..L
    BY <1>1
  <2>2. order[n + 1] \in Tracked /\ Seen(n) \in SUBSET Tracked
    BY <1>1, <2>1
  <2>3. Seen(n + 1) = Seen(n) \union {order[n + 1]}
    <3>1. 1..(n + 1) = (1..n) \union {n + 1}
      BY <1>1
    <3> QED BY <3>1
  <2> HIDE DEF Seen
  <2> QED BY <1>7, <2>1, <2>2, <2>3, ConsiderStep, ConsiderType
<1>10. L \in Good
  <2> HIDE DEF Good
  <2>1. \A n \in 0..L : n \in Good
    BY <1>1, <1>8, <1>9, BoundedInduction, Zenon
  <2> QED BY <1>1, <2>1
<1> QED BY <1>1, <1>6, <1>10

(* The best of all entries is the LRU-K victim. *)
LEMMA BestIsLruK ==
  ASSUME HistoryInv, NEW b \in Bests, IsBest(Tracked, b)
  PROVE  /\ IsLruK(b.victim)
         /\ IF Abstract!Victims = {} THEN b.victim = NoVictim
                                     ELSE b.victim \in Abstract!Victims
<1> DEFINE cands == {f \in Tracked : Candidate(f)}
           young == {f \in cands : Len(info[f].history) < K}
<1>1. Abstract!Victims = cands
  BY DEF Abstract!Victims, Candidate, HistoryInv, LruTypeOK
<1>2. /\ cands = {} => b.victim = NoVictim
      /\ young # {} => /\ b.victim \in young
                       /\ \A g \in young : info[b.victim].history[1] <= info[g].history[1]
      /\ cands # {} /\ young = {} =>
           /\ b.victim \in cands
           /\ \A g \in cands : info[b.victim].history[1] <= info[g].history[1]
  BY DEF IsBest
<1>3. IsLruK(b.victim)
  BY <1>2 DEF IsLruK
<1> HIDE DEF cands
<1> QED BY <1>1, <1>2, <1>3

(* The map holds finitely many entries: every operation adds at most one. *)
FiniteInv == IsFiniteSet(Tracked)

LEMMA TrackedFinite == LruSpec => []FiniteInv
<1>1. LruInit => FiniteInv
  BY FS_EmptySet DEF LruInit, Tracked, FiniteInv
<1>2. FiniteInv /\ [LruNext]_lruVars => FiniteInv'
  <2>1. [LruNext]_lruVars => \E f : \/ Tracked' = Tracked
                                    \/ Tracked' = Tracked \union {f}
                                    \/ Tracked' = Tracked \ {f}
    BY DEF LruNext, RecordAccess, SetEvictable, RemoveFrame, Put, Tracked, lruVars
  <2> QED BY <2>1, FS_AddElement, FS_RemoveElement DEF FiniteInv
<1> QED BY <1>1, <1>2, PTL DEF LruSpec

(* For every K, every number of frames and every iteration order of the    *)
(* map, find_victim returns the LRU-K victim, and NoVictimFound exactly    *)
(* when no tracked frame is evictable and accessed.                        *)
THEOREM VictimIsRight == LruSpec => []VictimIsLruK
<1>1. HistoryInv /\ FiniteInv => VictimIsLruK
  BY FindVictimIsBest, BestIsLruK DEF VictimIsLruK, FiniteInv
<1> QED BY <1>1, HistoriesAreExact, TrackedFinite, PTL

=============================================================================
