----------------------------- MODULE BufferPool -----------------------------
(***************************************************************************)
(* The buffer pool of src/buffer/impl/buffer_pool.rs with its page guards  *)
(* (src/buffer/impl/guard.rs), used by concurrent tokio tasks.             *)
(*                                                                         *)
(* A task runs one pool call at a time and holds at most one guard; a      *)
(* caller that keeps several guards is several tasks.  One action is one   *)
(* step that is atomic in the code: an operation on an atomic, the body of *)
(* a critical section of one std lock, the acquisition of a frame latch,   *)
(* one disk access.  Operations on state that the frame latch protects are *)
(* joined to the neighbouring step.                                        *)
(*                                                                         *)
(* A page stands for its logical id and its physical location at once: the *)
(* page directory is a bijection.  The id in the header of a page is what  *)
(* the code that formats the page left there, not always the page's own.   *)
(*                                                                         *)
(* A definition whose name ends in _Fault is a wrong version of the one    *)
(* that follows it.  No action uses it: it is there to show that the       *)
(* properties at the end notice the fault.                                 *)
(***************************************************************************)
EXTENDS Naturals, FiniteSets

CONSTANTS
  Tasks,        \* tokio tasks that use the pool
  Frames,       \* frame indices 0 .. num_frames - 1
  Pages,        \* the pages of the database files
  OldPages,     \* the pages that exist on disk when the pool is created
  ByLogical,    \* pages that callers fetch by logical id
  ByLocation,   \* pages that callers fetch by physical location
  HeaderIds,    \* HeaderIds[p]: the ids that the header of page p may carry
  PinMod,       \* 2^8: pin counts are AtomicU8
  MaxWrites,    \* bound on page modifications
  MaxErrors,    \* bound on storage errors
  MaxKeeps,     \* bound on load_page_as_unevictable calls
  NoTask, NoFrame, NoPage, NoContent

ASSUME ConstantsAssumption ==
  /\ IsFiniteSet(Tasks)
  /\ OldPages \subseteq Pages
  /\ ByLogical \subseteq Pages
  /\ ByLocation \subseteq Pages
  /\ HeaderIds \in [Pages -> SUBSET Pages]
  /\ PinMod \in Nat \ {0}
  /\ MaxWrites \in Nat /\ MaxErrors \in Nat /\ MaxKeeps \in Nat
  /\ NoTask \notin Tasks
  /\ NoFrame \notin Frames
  /\ NoPage \notin Pages
  /\ NoContent \notin [page : Pages, ver : Nat]

VARIABLES
  (* fields of BufferPool *)
  map,        \* frame_lpage_id_map and frame_ppage_id_map
  pin,        \* pin_counts
  loaded,     \* frame_meta: ppage_id of a Loaded frame, NoPage for Vacant
  named,      \* frame_meta: lpage_id of a Loaded frame, NoPage for Vacant
  dirty,      \* frame_meta: the frames whose dirty bit is set
  vacant,     \* vacant_frames
  writer,     \* frame_latches: the task with the exclusive latch
  readers,    \* frame_latches: the tasks with a shared latch
  buf,        \* frame contents
  flag, accessed,                    \* the eviction policy
  (* storage *)
  disk,       \* content of each page on disk
  known,      \* pages that exist and whose id a caller can have
  reserved,   \* pages allocated by the disk manager
  (* the local variables of the running calls *)
  pc, route, kind, page, frame, victim, todo,
  (* bounds and history variables *)
  version,    \* modifications so far; numbers the contents
  errors,     \* storage errors so far
  keeps,      \* unevictable loads so far
  latest,     \* latest[p]: version of the last modification marked dirty
  extraPins,  \* pins that no guard will ever give back
  poisoned,   \* frames whose load failed after they were published
  raced,      \* an eviction has released a frame that was in use
  misnamed    \* a page was loaded under an id that is not its own

poolVars   == <<map, pin, loaded, named, dirty, vacant, writer, readers, buf>>
policyVars == <<flag, accessed>>
diskVars   == <<disk, known, reserved>>
callVars   == <<route, kind, page>>
ghostVars  == <<version, errors, keeps, latest, extraPins, poisoned, raced,
               misnamed>>
vars == <<poolVars, policyVars, diskVars, pc, callVars, frame, victim, todo,
          ghostVars>>

Policy == INSTANCE EvictionPolicy

Routes == {"logical", "physical"}
Kinds  == {"read", "write", "keep", "new", "flush"}
Content == [page : Pages, ver : 0..MaxWrites]

Init ==
  /\ map = [r \in Routes |-> [p \in Pages |-> NoFrame]]
  /\ pin = [f \in Frames |-> 0]
  /\ loaded = [f \in Frames |-> NoPage]
  /\ named = [f \in Frames |-> NoPage]
  /\ dirty = {}
  /\ vacant = Frames
  /\ writer = [f \in Frames |-> NoTask]
  /\ readers = [f \in Frames |-> {}]
  /\ buf = [f \in Frames |-> NoContent]
  /\ flag = [f \in Frames |-> "untracked"]
  /\ accessed = {}
  /\ disk = [p \in Pages |-> IF p \in OldPages THEN [page |-> p, ver |-> 0]
                                               ELSE NoContent]
  /\ known = OldPages
  /\ reserved = OldPages
  /\ pc = [t \in Tasks |-> "idle"]
  /\ route = [t \in Tasks |-> "logical"]
  /\ kind = [t \in Tasks |-> "read"]
  /\ page = [t \in Tasks |-> NoPage]
  /\ frame = [t \in Tasks |-> NoFrame]
  /\ victim = [t \in Tasks |-> NoFrame]
  /\ todo = [t \in Tasks |-> {}]
  /\ version = 0 /\ errors = 0 /\ keeps = 0
  /\ latest = [p \in Pages |-> 0]
  /\ extraPins = [f \in Frames |-> 0]
  /\ poisoned = {}
  /\ raced = FALSE
  /\ misnamed = FALSE

-----------------------------------------------------------------------------
(* Helpers *)

Goto(t, label) == pc' = [pc EXCEPT ![t] = label]

(* A call ends: its local variables go out of scope. *)
Return(t) ==
  /\ pc' = [pc EXCEPT ![t] = "idle"]
  /\ route' = [route EXCEPT ![t] = "logical"]
  /\ kind' = [kind EXCEPT ![t] = "read"]
  /\ page' = [page EXCEPT ![t] = NoPage]
  /\ frame' = [frame EXCEPT ![t] = NoFrame]
  /\ victim' = [victim EXCEPT ![t] = NoFrame]
  /\ todo' = [todo EXCEPT ![t] = {}]

(* The std RwLock of a page map.  It is held over several steps while a    *)
(* call pins the frame it found: shared by the first look-up, exclusive by *)
(* the double check.                                                       *)
MapReadHeld(r)  == \E t \in Tasks : route[t] = r /\ pc[t] = "hitFlag"
MapWriteHeld(r) == \E t \in Tasks :
                      route[t] = r /\ pc[t] \in {"dupFlag", "dupPin", "dupHitFlag"}
MapReadable(r)  == ~MapWriteHeld(r)
MapWritable(r)  == ~MapWriteHeld(r) /\ ~MapReadHeld(r)

(* The key of a loaded frame in the map of a route. *)
Key(r, f) == IF r = "logical" THEN named[f] ELSE loaded[f]

Other(r) == IF r = "logical" THEN "physical" ELSE "logical"

Latched(f)    == writer[f] # NoTask \/ readers[f] # {}
LatchWrite(t, f)   == writer[f] = NoTask /\ readers[f] = {}
                      /\ writer' = [writer EXCEPT ![f] = t]
                      /\ UNCHANGED readers
UnlatchWrite(f)    == writer' = [writer EXCEPT ![f] = NoTask]

(* fetch_add and fetch_sub of the AtomicU8 wrap around. *)
Incr(n) == IF n = PinMod - 1 THEN 0 ELSE n + 1
Decr(n) == IF n = 0 THEN PinMod - 1 ELSE n - 1

-----------------------------------------------------------------------------
(* Calls *)

(* fetch_page_read / fetch_page_write (by logical id), the two at_loc      *)
(* variants (by location), and load_page[_loc]_as_unevictable ("keep").    *)
StartFetch(t, p, r, k) ==
  /\ pc[t] = "idle"
  /\ p \in known /\ p \in (IF r = "logical" THEN ByLogical ELSE ByLocation)
  /\ k = "keep" => keeps < MaxKeeps
  /\ Goto(t, "lookup")
  /\ route' = [route EXCEPT ![t] = r]
  /\ kind' = [kind EXCEPT ![t] = k]
  /\ page' = [page EXCEPT ![t] = p]
  /\ keeps' = IF k = "keep" THEN keeps + 1 ELSE keeps
  /\ UNCHANGED <<poolVars, policyVars, diskVars, frame, victim, todo, version,
                 errors, latest, extraPins, poisoned, raced, misnamed>>

(* new_page: the disk manager allocates the ids and the directory entry. *)
StartNew(t, p) ==
  /\ pc[t] = "idle"
  /\ p \notin reserved
  /\ reserved' = reserved \union {p}
  /\ Goto(t, "pop")
  /\ kind' = [kind EXCEPT ![t] = "new"]
  /\ page' = [page EXCEPT ![t] = p]
  /\ UNCHANGED <<poolVars, policyVars, disk, known, route, frame, victim, todo,
                 ghostVars>>

(* flush_all_dirty: collect the dirty frames with their pages. *)
StartFlush(t) ==
  /\ pc[t] = "idle"
  /\ Goto(t, "flush")
  /\ kind' = [kind EXCEPT ![t] = "flush"]
  /\ todo' = [todo EXCEPT ![t] = {<<f, loaded[f]>> : f \in dirty}]
  /\ UNCHANGED <<poolVars, policyVars, diskVars, route, page, frame, victim,
                 ghostVars>>

-----------------------------------------------------------------------------
(* Finding the frame: a hit pins it under the read lock of the map. *)

LookupHit(t) ==
  LET f == map[route[t]][page[t]] IN
  /\ pc[t] = "lookup"
  /\ MapReadable(route[t])
  /\ f # NoFrame
  /\ pin' = [pin EXCEPT ![f] = Incr(@)]
  /\ frame' = [frame EXCEPT ![t] = f]
  /\ Goto(t, IF pin[f] = 0 THEN "hitFlag" ELSE "await")
  /\ UNCHANGED <<map, loaded, named, dirty, vacant, writer, readers, buf,
                 policyVars, diskVars, callVars, victim, todo, ghostVars>>

LookupMiss(t) ==
  /\ pc[t] = "lookup"
  /\ MapReadable(route[t])
  /\ map[route[t]][page[t]] = NoFrame
  /\ Goto(t, "pop")
  /\ UNCHANGED <<poolVars, policyVars, diskVars, callVars, frame, victim, todo,
                 ghostVars>>

(* The second half of incr_pin: whoever raised the count from 0 clears the *)
(* evictable flag.                                                         *)
IncrPinFlag(t) ==
  /\ pc[t] \in {"hitFlag", "vacantFlag", "dupHitFlag"}
  /\ Policy!SetEvictable(frame[t], FALSE)
  /\ Goto(t, IF pc[t] = "vacantFlag" THEN "latchVacant" ELSE "await")
  /\ UNCHANGED <<poolVars, diskVars, callVars, frame, victim, todo, ghostVars>>

PopVacant(t) ==
  /\ pc[t] = "pop"
  /\ \E f \in vacant :
       /\ vacant' = vacant \ {f}
       /\ frame' = [frame EXCEPT ![t] = f]
  /\ Goto(t, "pinVacant")
  /\ UNCHANGED <<map, pin, loaded, named, dirty, writer, readers, buf,
                 policyVars, diskVars, callVars, victim, todo, ghostVars>>

NoVacant(t) ==
  /\ pc[t] = "pop"
  /\ vacant = {}
  /\ Goto(t, "findVictim")
  /\ UNCHANGED <<poolVars, policyVars, diskVars, callVars, frame, victim, todo,
                 ghostVars>>

PinVacant(t) ==
  /\ pc[t] = "pinVacant"
  /\ pin' = [pin EXCEPT ![frame[t]] = Incr(@)]
  /\ Goto(t, IF pin[frame[t]] = 0 THEN "vacantFlag" ELSE "latchVacant")
  /\ UNCHANGED <<map, loaded, named, dirty, vacant, writer, readers, buf,
                 policyVars, diskVars, callVars, frame, victim, todo,
                 ghostVars>>

LatchVacant(t) ==
  /\ pc[t] = "latchVacant"
  /\ LatchWrite(t, frame[t])
  /\ Goto(t, IF kind[t] = "new" THEN "install" ELSE "recheck")
  /\ UNCHANGED <<map, pin, loaded, named, dirty, vacant, buf, policyVars,
                 diskVars, callVars, frame, victim, todo, ghostVars>>

-----------------------------------------------------------------------------
(* The double check under the write lock of the map. *)

(* The map is not looked at again after the wait for the latch. *)
Publish_Fault(t) ==
  /\ pc[t] = "recheck"
  /\ MapWritable(route[t])
  /\ map' = [map EXCEPT ![route[t]][page[t]] = frame[t]]
  /\ Goto(t, "load")
  /\ UNCHANGED <<pin, loaded, named, dirty, vacant, writer, readers, buf,
                 policyVars, diskVars, callVars, frame, victim, todo,
                 ghostVars>>

Publish(t) ==
  /\ pc[t] = "recheck"
  /\ MapWritable(route[t])
  /\ map[route[t]][page[t]] = NoFrame
  /\ map' = [map EXCEPT ![route[t]][page[t]] = frame[t]]
  /\ Goto(t, "load")
  /\ UNCHANGED <<pin, loaded, named, dirty, vacant, writer, readers, buf,
                 policyVars, diskVars, callVars, frame, victim, todo,
                 ghostVars>>

(* decr_pin(vacant_idx) is forgotten. *)
DupUnpin_Fault(t) ==
  /\ pc[t] = "recheck"
  /\ MapWritable(route[t])
  /\ map[route[t]][page[t]] # NoFrame
  /\ Goto(t, "dupPin")
  /\ UNCHANGED <<poolVars, policyVars, diskVars, callVars, frame, victim, todo,
                 ghostVars>>

(* Somebody else published the page: first give the vacant frame back, ... *)
DupUnpin(t) ==
  /\ pc[t] = "recheck"
  /\ MapWritable(route[t])
  /\ map[route[t]][page[t]] # NoFrame
  /\ pin' = [pin EXCEPT ![frame[t]] = Decr(@)]
  /\ Goto(t, IF pin[frame[t]] = 1 THEN "dupFlag" ELSE "dupPin")
  /\ UNCHANGED <<map, loaded, named, dirty, vacant, writer, readers, buf,
                 policyVars, diskVars, callVars, frame, victim, todo,
                 ghostVars>>

(* The frame is listed as vacant again, but stays the frame of the call. *)
DupPin_Fault(t) ==
  /\ pc[t] = "dupPin"
  /\ vacant' = vacant \union {frame[t]}
  /\ UnlatchWrite(frame[t])
  /\ pin' = [pin EXCEPT ![frame[t]] = Incr(@)]
  /\ Goto(t, "await")
  /\ UNCHANGED <<map, loaded, named, dirty, readers, buf, policyVars, diskVars,
                 callVars, frame, victim, todo, ghostVars>>

(* ... then pin the published one, still under the lock of the map. *)
DupPin(t) ==
  LET f == map[route[t]][page[t]] IN
  /\ pc[t] = "dupPin"
  /\ vacant' = vacant \union {frame[t]}
  /\ UnlatchWrite(frame[t])
  /\ pin' = [pin EXCEPT ![f] = Incr(@)]
  /\ frame' = [frame EXCEPT ![t] = f]
  /\ Goto(t, IF pin[f] = 0 THEN "dupHitFlag" ELSE "await")
  /\ UNCHANGED <<map, loaded, named, dirty, readers, buf, policyVars, diskVars,
                 callVars, victim, todo, ghostVars>>

-----------------------------------------------------------------------------
(* Loading under the exclusive latch of the frame. *)

(* A page that was never written is read as zeros when the file already    *)
(* extends beyond it.                                                      *)
DiskContent(p) ==
  IF disk[p] = NoContent THEN [page |-> p, ver |-> 0] ELSE disk[p]

(* A fetch by id names the frame after the page it asked for, a fetch by   *)
(* location after the id that it reads in the header of the loaded page.   *)
LoadPage(t) ==
  LET ids == IF route[t] = "logical" THEN {page[t]} ELSE HeaderIds[page[t]] IN
  /\ pc[t] = "load"
  /\ buf' = [buf EXCEPT ![frame[t]] = DiskContent(page[t])]
  /\ loaded' = [loaded EXCEPT ![frame[t]] = page[t]]
  /\ \E id \in ids : /\ named' = [named EXCEPT ![frame[t]] = id]
                    /\ misnamed' = (misnamed \/ id # page[t])
  /\ dirty' = dirty \ {frame[t]}
  /\ Goto(t, "publish")
  /\ UNCHANGED <<map, pin, vacant, writer, readers, policyVars, diskVars,
                 callVars, frame, victim, todo, version, errors, keeps, latest,
                 extraPins, poisoned, raced>>

(* The read fails (always possible for a page beyond the end of its file): *)
(* `?` returns with the map entry published and the pin not given back.    *)
LoadError(t) ==
  /\ pc[t] = "load"
  /\ disk[page[t]] = NoContent \/ errors < MaxErrors
  /\ errors' = IF disk[page[t]] = NoContent THEN errors ELSE errors + 1
  /\ buf' = [buf EXCEPT ![frame[t]] = NoContent]
  /\ UnlatchWrite(frame[t])
  /\ extraPins' = [extraPins EXCEPT ![frame[t]] = @ + 1]
  /\ poisoned' = poisoned \union {frame[t]}
  /\ Return(t)
  /\ UNCHANGED <<map, pin, loaded, named, dirty, vacant, readers, policyVars,
                 diskVars, version, keeps, latest, raced, misnamed>>

(* new_page zeroes the frame and enters it in the logical map. *)
InstallNew(t) ==
  /\ pc[t] = "install"
  /\ MapWritable("logical")
  /\ buf' = [buf EXCEPT ![frame[t]] = [page |-> page[t], ver |-> 0]]
  /\ loaded' = [loaded EXCEPT ![frame[t]] = page[t]]
  /\ named' = [named EXCEPT ![frame[t]] = page[t]]
  /\ dirty' = dirty \ {frame[t]}
  /\ map' = [map EXCEPT !["logical"][page[t]] = frame[t]]
  /\ Goto(t, "publish")
  /\ UNCHANGED <<pin, vacant, writer, readers, policyVars, diskVars, callVars,
                 frame, victim, todo, ghostVars>>

(* A read guard keeps the write latch: downgrade is forgotten. *)
PublishOther_Fault(t) ==
  LET r == IF kind[t] = "new" THEN "physical" ELSE Other(route[t]) IN
  /\ pc[t] = "publish"
  /\ MapWritable(r)
  /\ map' = [map EXCEPT ![r][Key(r, frame[t])] = frame[t]]
  /\ known' = known \union {page[t]}
  /\ Goto(t, "hold")
  /\ UNCHANGED <<pin, loaded, named, dirty, vacant, writer, readers, buf,
                 policyVars, disk, reserved, callVars, frame, victim, todo,
                 ghostVars>>

(* The entry in the other map, and the guard; a read guard by downgrading  *)
(* the write latch.  Neither way records an access.                        *)
PublishOther(t) ==
  LET r == IF kind[t] = "new" THEN "physical" ELSE Other(route[t])
      f == frame[t] IN
  /\ pc[t] = "publish"
  /\ MapWritable(r)
  /\ map' = [map EXCEPT ![r][Key(r, f)] = f]
  /\ IF kind[t] \in {"read", "keep"}
       THEN /\ UnlatchWrite(f)
            /\ readers' = [readers EXCEPT ![f] = @ \union {t}]
       ELSE UNCHANGED <<writer, readers>>
  /\ known' = known \union {page[t]}
  /\ Goto(t, "hold")
  /\ UNCHANGED <<pin, loaded, named, dirty, vacant, buf, policyVars, disk,
                 reserved, callVars, frame, victim, todo, ghostVars>>

(* A hit waits for the latch; PageReadGuard::new records the access,       *)
(* PageWriteGuard::new does not.                                           *)
AwaitRead(t) ==
  /\ pc[t] = "await"
  /\ kind[t] \in {"read", "keep"}
  /\ writer[frame[t]] = NoTask
  /\ readers' = [readers EXCEPT ![frame[t]] = @ \union {t}]
  /\ Policy!RecordAccess(frame[t])
  /\ Goto(t, "hold")
  /\ UNCHANGED <<map, pin, loaded, named, dirty, vacant, writer, buf, diskVars,
                 callVars, frame, victim, todo, ghostVars>>

AwaitWrite(t) ==
  /\ pc[t] = "await"
  /\ kind[t] = "write"
  /\ LatchWrite(t, frame[t])
  /\ Goto(t, "hold")
  /\ UNCHANGED <<map, pin, loaded, named, dirty, vacant, buf, policyVars,
                 diskVars, callVars, frame, victim, todo, ghostVars>>

-----------------------------------------------------------------------------
(* Using and dropping a guard *)

(* The caller changes the page and calls mark_dirty, which fails on a      *)
(* Vacant frame.                                                           *)
WritePage(t) ==
  LET f == frame[t] IN
  /\ pc[t] = "hold" /\ kind[t] \in {"write", "new"}
  /\ version < MaxWrites
  /\ version' = version + 1
  /\ buf' = [buf EXCEPT ![f] = [page |-> page[t], ver |-> version + 1]]
  /\ IF loaded[f] = NoPage
       THEN UNCHANGED <<dirty, latest>>
       ELSE /\ dirty' = dirty \union {f}
            /\ latest' = [latest EXCEPT ![page[t]] = version + 1]
  /\ UNCHANGED <<map, pin, loaded, named, vacant, writer, readers, policyVars,
                 diskVars, pc, callVars, frame, victim, todo, errors, keeps,
                 extraPins, poisoned, raced, misnamed>>

Downgrade(t) ==
  /\ pc[t] = "hold" /\ kind[t] \in {"write", "new"}
  /\ UnlatchWrite(frame[t])
  /\ readers' = [readers EXCEPT ![frame[t]] = @ \union {t}]
  /\ kind' = [kind EXCEPT ![t] = "read"]
  /\ UNCHANGED <<map, pin, loaded, named, dirty, vacant, buf, policyVars,
                 diskVars, pc, route, page, frame, victim, todo, ghostVars>>

(* The pin of load_page[_loc]_as_unevictable that nobody gives back. *)
KeepPinned(t) ==
  LET f == frame[t] IN
  /\ pc[t] = "hold" /\ kind[t] = "keep"
  /\ pin' = [pin EXCEPT ![f] = Incr(@)]
  /\ IF pin[f] = 0 THEN Policy!SetEvictable(f, FALSE) ELSE UNCHANGED policyVars
  /\ extraPins' = [extraPins EXCEPT ![f] = @ + 1]
  /\ Goto(t, "drop")
  /\ UNCHANGED <<map, loaded, named, dirty, vacant, writer, readers, buf,
                 diskVars, callVars, frame, victim, todo, version, errors,
                 keeps, latest, poisoned, raced, misnamed>>

(* decr_pin compares the new count with 1, not the old one. *)
DropPin_Fault(t) ==
  /\ pc[t] = "drop" \/ (pc[t] = "hold" /\ kind[t] # "keep")
  /\ pin' = [pin EXCEPT ![frame[t]] = Decr(@)]
  /\ Goto(t, IF Decr(pin[frame[t]]) = 1 THEN "dropFlag" ELSE "unlatch")
  /\ UNCHANGED <<map, loaded, named, dirty, vacant, writer, readers, buf,
                 policyVars, diskVars, callVars, frame, victim, todo,
                 ghostVars>>

(* Dropping a guard drops its fields in order: the pin, then the latch. *)
DropPin(t) ==
  /\ pc[t] = "drop" \/ (pc[t] = "hold" /\ kind[t] # "keep")
  /\ pin' = [pin EXCEPT ![frame[t]] = Decr(@)]
  /\ Goto(t, IF pin[frame[t]] = 1 THEN "dropFlag" ELSE "unlatch")
  /\ UNCHANGED <<map, loaded, named, dirty, vacant, writer, readers, buf,
                 policyVars, diskVars, callVars, frame, victim, todo,
                 ghostVars>>

(* The second half of decr_pin: whoever brought the count to 0 sets the    *)
(* evictable flag.                                                         *)
DecrPinFlag(t) ==
  /\ pc[t] \in {"dropFlag", "dupFlag"}
  /\ Policy!SetEvictable(frame[t], TRUE)
  /\ Goto(t, IF pc[t] = "dropFlag" THEN "unlatch" ELSE "dupPin")
  /\ UNCHANGED <<poolVars, diskVars, callVars, frame, victim, todo, ghostVars>>

(* The latch is not given back. *)
Unlatch_Fault(t) ==
  /\ pc[t] = "unlatch"
  /\ Return(t)
  /\ UNCHANGED <<poolVars, policyVars, diskVars, ghostVars>>

Unlatch(t) ==
  /\ pc[t] = "unlatch"
  /\ IF writer[frame[t]] = t
       THEN UnlatchWrite(frame[t]) /\ UNCHANGED readers
       ELSE /\ readers' = [readers EXCEPT ![frame[t]] = @ \ {t}]
            /\ UNCHANGED writer
  /\ Return(t)
  /\ UNCHANGED <<map, pin, loaded, named, dirty, vacant, buf, policyVars,
                 diskVars, ghostVars>>

-----------------------------------------------------------------------------
(* evict: run by a call that found no vacant frame.  It ends by resuming   *)
(* the loop of its caller.                                                 *)

Resume(t) ==
  /\ Goto(t, IF kind[t] = "new" THEN "pop" ELSE "lookup")
  /\ victim' = [victim EXCEPT ![t] = NoFrame]

(* A call has a pin on f, or has taken f from the vacant list to pin it. *)
InUse(f) == pin[f] # 0 \/ \E t \in Tasks : frame[t] = f /\ pc[t] = "pinVacant"

FindVictim(t) ==
  /\ pc[t] = "findVictim"
  /\ \E f \in Policy!Victims : victim' = [victim EXCEPT ![t] = f]
  /\ Goto(t, "latchVictim")
  /\ UNCHANGED <<poolVars, policyVars, diskVars, callVars, frame, todo,
                 ghostVars>>

(* NoVictimFound fails the call; a page reserved by new_page stays so. *)
NoVictimFound(t) ==
  /\ pc[t] = "findVictim"
  /\ Policy!Victims = {}
  /\ Return(t)
  /\ UNCHANGED <<poolVars, policyVars, diskVars, ghostVars>>

(* The retry goes back to the latch without asking for a new victim. *)
EvictPinned_Fault(t) ==
  LET v == victim[t] IN
  /\ pc[t] = "latchVictim"
  /\ ~Latched(v)
  /\ pin[v] # 0
  /\ victim' = [victim EXCEPT ![t] = NoFrame]
  /\ UNCHANGED <<poolVars, policyVars, diskVars, pc, callVars, frame, todo,
                 ghostVars>>

(* The latch is acquired, the frame turns out to be pinned: try again. *)
EvictPinned(t) ==
  LET v == victim[t] IN
  /\ pc[t] = "latchVictim"
  /\ ~Latched(v)
  /\ pin[v] # 0
  /\ Goto(t, "findVictim")
  /\ victim' = [victim EXCEPT ![t] = NoFrame]
  /\ UNCHANGED <<poolVars, policyVars, diskVars, callVars, frame, todo,
                 ghostVars>>

(* The policy chose a frame that is already vacant. *)
EvictVacant(t) ==
  LET v == victim[t] IN
  /\ pc[t] = "latchVictim"
  /\ ~Latched(v)
  /\ pin[v] = 0
  /\ loaded[v] = NoPage
  /\ vacant' = vacant \union {v}
  /\ raced' = (raced \/ InUse(v))
  /\ Resume(t)
  /\ UNCHANGED <<map, pin, loaded, named, dirty, writer, readers, buf,
                 policyVars, diskVars, callVars, frame, todo, version, errors,
                 keeps, latest, extraPins, poisoned, misnamed>>

(* The dirty bit is ignored. *)
EvictLoaded_Fault(t) ==
  LET v == victim[t] IN
  /\ pc[t] = "latchVictim"
  /\ LatchWrite(t, v)
  /\ pin[v] = 0
  /\ loaded[v] # NoPage
  /\ Goto(t, "unmapLogical")
  /\ UNCHANGED <<map, pin, loaded, named, dirty, vacant, buf, policyVars,
                 diskVars, callVars, frame, victim, todo, ghostVars>>

(* The pin count is not looked at again after the latch is acquired. *)
EvictLoaded_PinFault(t) ==
  LET v == victim[t] IN
  /\ pc[t] = "latchVictim"
  /\ LatchWrite(t, v)
  /\ loaded[v] # NoPage
  /\ Goto(t, IF v \in dirty THEN "writeBack" ELSE "unmapLogical")
  /\ UNCHANGED <<map, pin, loaded, named, dirty, vacant, buf, policyVars,
                 diskVars, callVars, frame, victim, todo, ghostVars>>

EvictLoaded(t) ==
  LET v == victim[t] IN
  /\ pc[t] = "latchVictim"
  /\ LatchWrite(t, v)
  /\ pin[v] = 0
  /\ loaded[v] # NoPage
  /\ Goto(t, IF v \in dirty THEN "writeBack" ELSE "unmapLogical")
  /\ UNCHANGED <<map, pin, loaded, named, dirty, vacant, buf, policyVars,
                 diskVars, callVars, frame, victim, todo, ghostVars>>

WriteBack(t) ==
  /\ pc[t] = "writeBack"
  /\ disk' = [disk EXCEPT ![loaded[victim[t]]] = buf[victim[t]]]
  /\ Goto(t, "unmapLogical")
  /\ UNCHANGED <<poolVars, policyVars, known, reserved, callVars, frame, victim,
                 todo, ghostVars>>

(* The dirty bit is cleared before the write, as if it could not fail. *)
WriteBackError_Fault(t) ==
  /\ pc[t] = "writeBack"
  /\ errors < MaxErrors
  /\ errors' = errors + 1
  /\ dirty' = dirty \ {victim[t]}
  /\ UnlatchWrite(victim[t])
  /\ Return(t)
  /\ UNCHANGED <<map, pin, loaded, named, vacant, readers, buf, policyVars,
                 diskVars, version, keeps, latest, extraPins, poisoned, raced,
                 misnamed>>

WriteBackError(t) ==
  /\ pc[t] = "writeBack"
  /\ errors < MaxErrors
  /\ errors' = errors + 1
  /\ UnlatchWrite(victim[t])
  /\ Return(t)
  /\ UNCHANGED <<map, pin, loaded, named, dirty, vacant, readers, buf,
                 policyVars, diskVars, version, keeps, latest, extraPins,
                 poisoned, raced, misnamed>>

(* The entry of the evicted page stays in the map. *)
Unmap_Fault(t, r) ==
  /\ MapWritable(r)
  /\ UNCHANGED <<poolVars, policyVars, diskVars, callVars, frame, victim, todo,
                 ghostVars>>

(* The maps are cleared one after the other, each under its own lock. *)
Unmap(t, r) ==
  /\ MapWritable(r)
  /\ map' = [map EXCEPT ![r][Key(r, victim[t])] = NoFrame]
  /\ UNCHANGED <<pin, loaded, named, dirty, vacant, writer, readers, buf,
                 policyVars, diskVars, callVars, frame, victim, todo,
                 ghostVars>>

UnmapLogical(t) ==
  /\ pc[t] = "unmapLogical"
  /\ Unmap(t, "logical")
  /\ Goto(t, "unmapPhysical")

UnmapPhysical(t) ==
  /\ pc[t] = "unmapPhysical"
  /\ Unmap(t, "physical")
  /\ Goto(t, "clear")

(* Under the write lock of frame_meta the frame becomes Vacant, is listed  *)
(* as vacant and is forgotten by the policy; then the latch is dropped.    *)
EvictClear(t) ==
  LET v == victim[t] IN
  /\ pc[t] = "clear"
  /\ loaded' = [loaded EXCEPT ![v] = NoPage]
  /\ named' = [named EXCEPT ![v] = NoPage]
  /\ dirty' = dirty \ {v}
  /\ vacant' = vacant \union {v}
  /\ Policy!RemoveFrame(v)
  /\ UnlatchWrite(v)
  /\ raced' = (raced \/ InUse(v))
  /\ Resume(t)
  /\ UNCHANGED <<map, pin, readers, buf, diskVars, callVars, frame, todo,
                 version, errors, keeps, latest, extraPins, poisoned,
                 misnamed>>

-----------------------------------------------------------------------------
(* flush_all_dirty goes through the collected frames: it takes a read      *)
(* latch without a pin and looks again before it writes.                   *)

(* The frame may have been evicted and loaded with another page. *)
StillDirty(f, p) == loaded[f] = p /\ f \in dirty

FlushSkip(t) ==
  /\ pc[t] = "flush"
  /\ \E f \in Frames, p \in Pages :
       /\ <<f, p>> \in todo[t]
       /\ writer[f] = NoTask
       /\ ~StillDirty(f, p)
       /\ todo' = [todo EXCEPT ![t] = @ \ {<<f, p>>}]
  /\ UNCHANGED <<poolVars, policyVars, diskVars, pc, callVars, frame, victim,
                 ghostVars>>

FlushLatch(t) ==
  /\ pc[t] = "flush"
  /\ \E f \in Frames, p \in Pages :
       /\ <<f, p>> \in todo[t]
       /\ writer[f] = NoTask
       /\ StillDirty(f, p)
       /\ readers' = [readers EXCEPT ![f] = @ \union {t}]
       /\ frame' = [frame EXCEPT ![t] = f]
       /\ page' = [page EXCEPT ![t] = p]
       /\ todo' = [todo EXCEPT ![t] = @ \ {<<f, p>>}]
  /\ Goto(t, "flushWrite")
  /\ UNCHANGED <<map, pin, loaded, named, dirty, vacant, writer, buf,
                 policyVars, diskVars, route, kind, victim, ghostVars>>

FlushWrite(t) ==
  /\ pc[t] = "flushWrite"
  /\ disk' = [disk EXCEPT ![page[t]] = buf[frame[t]]]
  /\ dirty' = dirty \ {frame[t]}
  /\ readers' = [readers EXCEPT ![frame[t]] = @ \ {t}]
  /\ frame' = [frame EXCEPT ![t] = NoFrame]
  /\ page' = [page EXCEPT ![t] = NoPage]
  /\ Goto(t, "flush")
  /\ UNCHANGED <<map, pin, loaded, named, vacant, writer, buf, policyVars,
                 known, reserved, route, kind, victim, todo, ghostVars>>

FlushError(t) ==
  /\ pc[t] = "flushWrite"
  /\ errors < MaxErrors
  /\ errors' = errors + 1
  /\ readers' = [readers EXCEPT ![frame[t]] = @ \ {t}]
  /\ Return(t)
  /\ UNCHANGED <<map, pin, loaded, named, dirty, vacant, writer, buf,
                 policyVars, diskVars, version, keeps, latest, extraPins,
                 poisoned, raced, misnamed>>

FlushDone(t) ==
  /\ pc[t] = "flush"
  /\ todo[t] = {}
  /\ Return(t)
  /\ UNCHANGED <<poolVars, policyVars, diskVars, ghostVars>>

-----------------------------------------------------------------------------
Call(t) ==
  \/ \E p \in Pages, r \in Routes, k \in {"read", "write", "keep"} :
       StartFetch(t, p, r, k)
  \/ \E p \in Pages : StartNew(t, p)
  \/ StartFlush(t)

Find(t) ==
  \/ LookupHit(t) \/ LookupMiss(t) \/ IncrPinFlag(t)
  \/ PopVacant(t) \/ NoVacant(t) \/ PinVacant(t) \/ LatchVacant(t)
  \/ Publish(t) \/ DupUnpin(t) \/ DupPin(t)

Load(t) ==
  \/ LoadPage(t) \/ LoadError(t) \/ InstallNew(t) \/ PublishOther(t)

Guard(t) ==
  \/ AwaitRead(t) \/ AwaitWrite(t) \/ WritePage(t) \/ Downgrade(t)
  \/ KeepPinned(t) \/ DropPin(t) \/ DecrPinFlag(t) \/ Unlatch(t)

Evict(t) ==
  \/ FindVictim(t) \/ NoVictimFound(t) \/ EvictPinned(t) \/ EvictVacant(t)
  \/ EvictLoaded(t) \/ WriteBack(t) \/ WriteBackError(t)
  \/ UnmapLogical(t) \/ UnmapPhysical(t) \/ EvictClear(t)

Flush(t) ==
  \/ FlushSkip(t) \/ FlushLatch(t) \/ FlushWrite(t) \/ FlushError(t)
  \/ FlushDone(t)

Next == \E t \in Tasks : Call(t) \/ Find(t) \/ Load(t) \/ Guard(t) \/ Evict(t) \/ Flush(t)

Spec == Init /\ [][Next]_vars

-----------------------------------------------------------------------------
(* Properties *)

(* Type invariant of the pool, its latches and the running calls. *)
Labels ==
  {"idle", "lookup", "hitFlag", "pop", "pinVacant", "vacantFlag", "latchVacant",
   "recheck", "dupFlag", "dupPin", "dupHitFlag", "load", "install", "publish",
   "await", "hold", "drop", "dropFlag", "unlatch", "findVictim", "latchVictim",
   "writeBack", "unmapLogical", "unmapPhysical", "clear", "flush", "flushWrite"}

FrameLabels ==
  {"hitFlag", "pinVacant", "vacantFlag", "latchVacant", "recheck", "dupFlag",
   "dupPin", "dupHitFlag", "load", "install", "publish", "await", "hold", "drop",
   "dropFlag", "unlatch", "flushWrite"}

VictimLabels ==
  {"latchVictim", "writeBack", "unmapLogical", "unmapPhysical", "clear"}

TypeOK ==
  /\ map \in [Routes -> [Pages -> Frames \union {NoFrame}]]
  /\ pin \in [Frames -> 0..(PinMod - 1)]
  /\ loaded \in [Frames -> Pages \union {NoPage}]
  /\ named \in [Frames -> Pages \union {NoPage}]
  /\ dirty \subseteq Frames
  /\ vacant \subseteq Frames
  /\ writer \in [Frames -> Tasks \union {NoTask}]
  /\ readers \in [Frames -> SUBSET Tasks]
  /\ buf \in [Frames -> Content \union {NoContent}]
  /\ flag \in [Frames -> {"untracked", "pinned", "evictable"}]
  /\ accessed \subseteq Frames
  /\ disk \in [Pages -> Content \union {NoContent}]
  /\ known \subseteq Pages
  /\ reserved \subseteq Pages
  /\ pc \in [Tasks -> Labels]
  /\ route \in [Tasks -> Routes]
  /\ kind \in [Tasks -> Kinds]
  /\ page \in [Tasks -> Pages \union {NoPage}]
  /\ frame \in [Tasks -> Frames \union {NoFrame}]
  /\ victim \in [Tasks -> Frames \union {NoFrame}]
  /\ todo \in [Tasks -> SUBSET (Frames \X (Pages \union {NoPage}))]
  /\ version \in 0..MaxWrites
  /\ errors \in 0..MaxErrors
  /\ keeps \in 0..MaxKeeps
  /\ latest \in [Pages -> 0..MaxWrites]
  /\ extraPins \in [Frames -> Nat]
  /\ poisoned \subseteq Frames
  /\ raced \in BOOLEAN
  /\ misnamed \in BOOLEAN
  /\ \A t \in Tasks : /\ pc[t] \in FrameLabels => frame[t] \in Frames
                      /\ pc[t] \in VictimLabels => victim[t] \in Frames
                      /\ pc[t] \notin {"idle", "flush"} => page[t] \in Pages

(* The labels at which a call owns one pin of its frame. *)
PinLabels ==
  {"hitFlag", "await", "vacantFlag", "latchVacant", "recheck", "dupHitFlag",
   "load", "install", "publish", "hold", "drop"}

Holders(f) == {t \in Tasks : frame[t] = f /\ pc[t] \in PinLabels}

(* The u8 pin counter of f is wide enough for all tasks and the permanent  *)
(* pins, so it cannot have wrapped around.                                 *)
NoWrap(f) == Cardinality(Tasks) + extraPins[f] < PinMod

(* Pin accounting: whatever the interleaving of hits, misses, lost races,  *)
(* failed loads and guard drops, the pin count of a frame is the number of *)
(* calls and guards that use it plus the pins given away for good (failed  *)
(* loads, load_page_as_unevictable).                                       *)
PinAccounting ==
  \A f \in Frames : NoWrap(f) => pin[f] = Cardinality(Holders(f)) + extraPins[f]

(* The latch protocol: a write latch excludes readers, a task that uses    *)
(* the content of a frame has the latch of the kind it needs, and nobody   *)
(* keeps a latch he forgot.                                                *)
HoldsWrite(t, f) ==
  \/ /\ frame[t] = f
     /\ \/ pc[t] \in {"recheck", "dupFlag", "dupPin", "load", "install", "publish"}
        \/ pc[t] \in {"hold", "dropFlag", "unlatch"} /\ kind[t] \in {"write", "new"}
  \/ /\ victim[t] = f
     /\ pc[t] \in {"writeBack", "unmapLogical", "unmapPhysical", "clear"}

HoldsRead(t, f) ==
  frame[t] = f /\ (\/ pc[t] = "flushWrite"
                   \/ /\ pc[t] \in {"hold", "drop", "dropFlag", "unlatch"}
                      /\ kind[t] \in {"read", "keep"})

LatchProtocol ==
  \A f \in Frames :
    /\ writer[f] # NoTask => readers[f] = {}
    /\ \A t \in Tasks : /\ writer[f] = t <=> HoldsWrite(t, f)
                        /\ t \in readers[f] <=> HoldsRead(t, f)

(* No eviction has released a frame in use, no load has failed, no page    *)
(* was loaded under another page's id, and the pin counters are wide       *)
(* enough for the permanent pins.                                          *)
Clean ==
  /\ ~raced
  /\ poisoned = {}
  /\ ~misnamed
  /\ \A f \in Frames : NoWrap(f)

(* "Fetches a page": a guard gives access to the page that was asked for.  *)
(* The code does not ensure it: see CleanGuardIntegrity.                   *)
GuardIntegrity ==
  \A t \in Tasks :
    pc[t] = "hold" => /\ loaded[frame[t]] = page[t]
                      /\ buf[frame[t]].page = page[t]

(* Every guard gives access to the page that was asked for until one of    *)
(* four things happens: an eviction clears a frame that was pinned after   *)
(* its pin check; a storage error ends a load; a page is fetched by        *)
(* location whose header carries the id of another page; a u8 pin counter  *)
(* wraps around.  What else two loaders, a hit and an eviction do to each  *)
(* other never leads to a guard on a wrong page.                           *)
CleanGuardIntegrity == Clean => GuardIntegrity

(* No frame is leaked by the eviction policy: decr_pin and incr_pin set    *)
(* the flag after the atomic count, in any order, and still an unpinned    *)
(* frame the policy tracks ends up evictable.                              *)
UnpinnedIsEvictable ==
  \A f \in Frames :
    \/ pin[f] # 0
    \/ flag[f] # "pinned"
    \/ \E t \in Tasks : frame[t] = f /\ pc[t] \in {"dropFlag", "dupFlag"}

(* A frame is handed to one loader only: vacant frames are not loaded, not *)
(* published, not in use, and not being filled by anybody.                 *)
VacantIsFree ==
  Clean => \A f \in vacant :
             /\ loaded[f] = NoPage
             /\ \A r \in Routes, p \in Pages : map[r][p] # f
             /\ \A t \in Tasks : frame[t] # f

(* Nobody loses a modification that was marked dirty: the copy of a page   *)
(* that the next fetch gets is the last one written.                       *)
CurrentIn(r, p) ==
  LET f == map[r][p] IN
  IF f # NoFrame /\ loaded[f] = p THEN buf[f] ELSE DiskContent(p)

NoLostUpdate ==
  \A p \in known :
    /\ p \in ByLogical  => CurrentIn("logical", p)  = [page |-> p, ver |-> latest[p]]
    /\ p \in ByLocation => CurrentIn("physical", p) = [page |-> p, ver |-> latest[p]]

CleanNoLostUpdate == Clean => NoLostUpdate

(* "Acquires an Exclusive Latch (lock) on the page": a write guard is       *)
(* exclusive for the page, not only for the frame.                         *)
PageExclusive ==
  \A t, u \in Tasks :
    (t # u /\ pc[t] = "hold" /\ pc[u] = "hold" /\ page[t] = page[u])
      => kind[t] \notin {"write", "new"}

(* Two tasks that miss the same page at once, or miss it while it is being *)
(* evicted, still do not get write guards on two copies of it.             *)
CleanPageExclusive == Clean => PageExclusive

(* load_page[_loc]_as_unevictable: "pin count will never go below 1, frame *)
(* will never be evicted".  Once the permanent pin is there no eviction    *)
(* empties the frame, not even one that chose it before it was pinned.     *)
UnevictableStays ==
  [][\A f \in Frames :
       NoWrap(f) /\ extraPins[f] > 0 /\ loaded[f] # NoPage => loaded'[f] # NoPage]_vars

(* frame_lpage_id "should only be called on pinned frames": a guard, which *)
(* pins its frame, is never on a Vacant frame.  The code does not ensure   *)
(* it: a failed load leaves the page published.                            *)
GuardOnLoadedFrame ==
  \A t \in Tasks : pc[t] = "hold" => loaded[frame[t]] # NoPage

(* Every guard has recorded its access, so eviction finds a victim as soon *)
(* as no frame is pinned.  The code does not ensure it: only read guards   *)
(* of a hit record an access.                                              *)
VictimIfAllUnpinned ==
  \A t \in Tasks :
    pc[t] = "findVictim" /\ (\A f \in Frames : pin[f] = 0) => Policy!Victims # {}

-----------------------------------------------------------------------------
(* Liveness.  A tokio worker polls every runnable task again and again, so *)
(* a call goes on; frame latches are granted in FIFO order, so a request   *)
(* is not passed over for ever (strong fairness); a guard is dropped.      *)
(* Making a call and modifying a page are up to the caller.                *)
Step(t) ==
  \/ Find(t) \/ Load(t) \/ Evict(t) \/ Flush(t)
  \/ AwaitRead(t) \/ AwaitWrite(t)
  \/ KeepPinned(t) \/ DropPin(t) \/ DecrPinFlag(t) \/ Unlatch(t)

FairSpec == Spec /\ \A t \in Tasks : SF_vars(Step(t))

(* Every call comes back with a guard or an error: no deadlock between     *)
(* latches and map locks, no lost wake-up, while all pages fit in the pool.*)
CallReturns ==
  \A t \in Tasks : pc[t] # "idle" ~> pc[t] \in {"hold", "idle"}
=============================================================================
