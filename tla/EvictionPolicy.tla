--------------------------- MODULE EvictionPolicy ---------------------------
(***************************************************************************)
(* What the buffer pool relies on from its eviction policy, the trait      *)
(* `EvictionPolicy` of src/buffer/evictor/evictor.rs.  The policy remembers,*)
(* for every frame, whether it has an entry, whether the entry is flagged  *)
(* evictable, and whether an access was ever recorded since the entry was  *)
(* created.  Every operation runs under one mutex and is atomic.           *)
(*                                                                         *)
(* Which of the candidates is the victim is left open here: LruKEvictor    *)
(* makes the choice and is shown to implement this module.                 *)
(***************************************************************************)
CONSTANT Frames

VARIABLES
  flag,      \* flag[f]: "untracked", "pinned" or "evictable"
  accessed   \* the tracked frames with a non-empty access history

policyVars == <<flag, accessed>>

PolicyTypeOK ==
  /\ flag \in [Frames -> {"untracked", "pinned", "evictable"}]
  /\ accessed \subseteq Frames

PolicyInit ==
  /\ flag = [f \in Frames |-> "untracked"]
  /\ accessed = {}

(* find_victim returns one of these, and NoVictimFound when there is none. *)
Victims == {f \in accessed : flag[f] = "evictable"}

(* A new entry is created un-evictable; an existing one keeps its flag. *)
RecordAccess(f) ==
  /\ flag' = [flag EXCEPT ![f] = IF @ = "untracked" THEN "pinned" ELSE @]
  /\ accessed' = accessed \union {f}

SetEvictable(f, evictable) ==
  /\ flag' = [flag EXCEPT ![f] = IF evictable THEN "evictable" ELSE "pinned"]
  /\ UNCHANGED accessed

RemoveFrame(f) ==
  /\ flag' = [flag EXCEPT ![f] = "untracked"]
  /\ accessed' = accessed \ {f}

PolicyNext ==
  \E f \in Frames :
    \/ RecordAccess(f)
    \/ \E b \in BOOLEAN : SetEvictable(f, b)
    \/ RemoveFrame(f)

PolicySpec == PolicyInit /\ [][PolicyNext]_policyVars
=============================================================================
