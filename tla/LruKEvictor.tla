---------------------------- MODULE LruKEvictor -----------------------------
(***************************************************************************)
(* src/buffer/evictor/lruk_evictor.rs: the LRU-K eviction policy.  The map *)
(* from frames to FrameInfo is behind a mutex, so every operation is one   *)
(* action; find_victim only reads it.  The iteration order of the HashMap  *)
(* is arbitrary, so find_victim is a function of an order of the entries.  *)
(*                                                                         *)
(* A definition ending in _Fault is a wrong version of the one after it.   *)
(***************************************************************************)
EXTENDS Naturals, Sequences, FiniteSets

CONSTANTS
  Frames,
  K,          \* accesses remembered per frame
  MaxClock,   \* bound on recorded accesses; stands for usize::MAX
  NoVictim    \* Err(NoVictimFound)

ASSUME LruKAssumption ==
  /\ K \in Nat \ {0}
  /\ MaxClock \in Nat
  /\ NoVictim \notin Frames

VARIABLES
  info,    \* state: the entries of the map, a function on the tracked frames
  clock    \* current_timestamp

lruVars == <<info, clock>>

FrameInfo == [history : Seq(Nat), evictable : BOOLEAN]
Tracked == DOMAIN info

LruInit ==
  /\ info = [f \in {} |-> [history |-> <<>>, evictable |-> FALSE]]
  /\ clock = 0

(* state.entry(f).or_insert(...) followed by a change of the entry. *)
Entry(f, new) == IF f \in Tracked THEN info[f] ELSE new
Put(f, entry) == [g \in Tracked \union {f} |-> IF g = f THEN entry ELSE info[g]]

(* The history never drops its oldest access. *)
Remember_Fault(history, ts) == Append(history, ts)

(* push_back, then pop_front when there are more than K. *)
Remember(history, ts) ==
  LET longer == Append(history, ts) IN
  IF Len(longer) > K THEN Tail(longer) ELSE longer

(* The access creates an entry that is evictable at once. *)
RecordAccess_Fault(f) ==
  LET old == Entry(f, [history |-> <<>>, evictable |-> TRUE]) IN
  /\ clock < MaxClock
  /\ info' = Put(f, [old EXCEPT !.history = Remember(@, clock)])
  /\ clock' = clock + 1

RecordAccess(f) ==
  LET old == Entry(f, [history |-> <<>>, evictable |-> FALSE]) IN
  /\ clock < MaxClock
  /\ info' = Put(f, [old EXCEPT !.history = Remember(@, clock)])
  /\ clock' = clock + 1

SetEvictable(f, evictable) ==
  LET old == Entry(f, [history |-> <<>>, evictable |-> evictable]) IN
  /\ info' = Put(f, [old EXCEPT !.evictable = evictable])
  /\ UNCHANGED clock

RemoveFrame(f) ==
  /\ info' = [g \in Tracked \ {f} |-> info[g]]
  /\ UNCHANGED clock

LruNext ==
  \E f \in Frames :
    \/ RecordAccess(f)
    \/ \E b \in BOOLEAN : SetEvictable(f, b)
    \/ RemoveFrame(f)

LruSpec == LruInit /\ [][LruNext]_lruVars

-----------------------------------------------------------------------------
(* find_victim *)

Infinity == MaxClock + 1

Candidate(f) == info[f].evictable /\ info[f].history # <<>>

(* Rule 2 is tried even when a frame with fewer than K accesses is known. *)
Consider_Fault(best, f) ==
  LET h == info[f].history IN
  IF ~Candidate(f) THEN best
  ELSE IF Len(h) < K
    THEN IF h[1] < best.earliest
           THEN [victim |-> f, distance |-> clock - h[1], earliest |-> h[1]]
           ELSE best
    ELSE IF clock - h[1] > best.distance
           THEN [best EXCEPT !.victim = f, !.distance = clock - h[1]]
           ELSE best

(* The body of the loop over the entries. *)
Consider(best, f) ==
  LET h == info[f].history IN
  IF ~Candidate(f) THEN best
  ELSE IF Len(h) < K
    THEN IF h[1] < best.earliest
           THEN [victim |-> f, distance |-> Infinity, earliest |-> h[1]]
           ELSE best
    ELSE IF best.distance < Infinity /\ clock - h[1] > best.distance
           THEN [best EXCEPT !.victim = f, !.distance = clock - h[1]]
           ELSE best

FindVictim(order) ==
  LET best[n \in 0..Len(order)] ==
        IF n = 0 THEN [victim |-> NoVictim, distance |-> 0, earliest |-> Infinity]
                 ELSE Consider(best[n - 1], order[n])
  IN best[Len(order)].victim

-----------------------------------------------------------------------------
(* Properties *)

(* What the victim must be.  A frame seen fewer than K times has infinite  *)
(* backward distance and is preferred, the earliest first; otherwise it is *)
(* the frame whose K-th last access is oldest.  Hence exactly one frame is *)
(* right, whatever the iteration order.                                    *)
IsLruK(v) ==
  LET cands  == {f \in Tracked : Candidate(f)}
      young  == {f \in cands : Len(info[f].history) < K}
      oldest(S) == {f \in S : \A g \in S : info[f].history[1] <= info[g].history[1]}
  IN IF cands = {} THEN v = NoVictim
     ELSE v \in oldest(IF young # {} THEN young ELSE cands)

(* The orders in which the map may be iterated. *)
Orders ==
  {s \in [1..Cardinality(Tracked) -> Tracked] :
     \A i, j \in DOMAIN s : s[i] = s[j] => i = j}

(* Histories hold at most the K last accesses, in order, and no access is  *)
(* counted for two frames or twice: record_access draws the timestamp and  *)
(* stores it under one lock.                                               *)
LruTypeOK ==
  /\ Tracked \subseteq Frames
  /\ info \in [Tracked -> FrameInfo]
  /\ clock \in 0..MaxClock

HistoryOrdered ==
  \A f \in Tracked :
    LET h == info[f].history IN
    /\ Len(h) <= K
    /\ \A i \in 1..Len(h) : h[i] < clock
    /\ \A i, j \in 1..Len(h) : i < j => h[i] < h[j]

HistoriesDisjoint ==
  \A f, g \in Tracked :
    f # g => \A i \in 1..Len(info[f].history), j \in 1..Len(info[g].history) :
               info[f].history[i] # info[g].history[j]

HistoryInv == LruTypeOK /\ HistoryOrdered /\ HistoriesDisjoint

(* The policy implements what the buffer pool relies on. *)
Abstract ==
  INSTANCE EvictionPolicy WITH
    flag <- [f \in Frames |-> IF f \notin Tracked THEN "untracked"
                              ELSE IF info[f].evictable THEN "evictable"
                                                        ELSE "pinned"],
    accessed <- {f \in Tracked : info[f].history # <<>>}

ImplementsPolicy == Abstract!PolicySpec

(* find_victim returns the LRU-K victim for every iteration order; it      *)
(* fails only when there is no candidate at all, and never returns a frame *)
(* that is not one: pinned, or without recorded access.                    *)
VictimIsLruK ==
  \A order \in Orders :
    LET v == FindVictim(order)
    IN  /\ IsLruK(v)
        /\ IF Abstract!Victims = {} THEN v = NoVictim ELSE v \in Abstract!Victims
=============================================================================
