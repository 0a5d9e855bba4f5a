-------------------------- MODULE BufferPoolProofs --------------------------
(***************************************************************************)
(* Proofs about BufferPool for any number of tasks, frames and pages.      *)
(***************************************************************************)
EXTENDS BufferPool, FiniteSetTheorems, TLAPS

(* While a call keeps the lock of a map after its double check, the entry  *)
(* it found stays.                                                         *)
DupInv ==
  \A t \in Tasks : pc[t] \in {"dupFlag", "dupPin"} => map[route[t]][page[t]] # NoFrame

TypeInv == TypeOK /\ DupInv

LEMMA InitType == Init => TypeInv
<1> SUFFICES ASSUME Init PROVE TypeInv
  OBVIOUS
<1> USE ConstantsAssumption DEF Init
<1>1. disk \in [Pages -> Content \union {NoContent}]
  BY DEF Content
<1>2. /\ map \in [Routes -> [Pages -> Frames \union {NoFrame}]]
      /\ pin \in [Frames -> 0..(PinMod - 1)]
      /\ flag \in [Frames -> {"untracked", "pinned", "evictable"}]
      /\ buf \in [Frames -> Content \union {NoContent}]
  OBVIOUS
<1>3. /\ pc \in [Tasks -> Labels]
      /\ route \in [Tasks -> Routes]
      /\ kind \in [Tasks -> Kinds]
      /\ todo \in [Tasks -> SUBSET (Frames \X (Pages \union {NoPage}))]
      /\ latest \in [Pages -> 0..MaxWrites]
      /\ extraPins \in [Frames -> Nat]
  BY DEF Labels, Routes, Kinds
<1>4. \A t \in Tasks : pc[t] = "idle"
  OBVIOUS
<1>5. /\ page \in [Tasks -> Pages \union {NoPage}]
      /\ frame \in [Tasks -> Frames \union {NoFrame}]
      /\ victim \in [Tasks -> Frames \union {NoFrame}]
      /\ loaded \in [Frames -> Pages \union {NoPage}]
      /\ named \in [Frames -> Pages \union {NoPage}]
      /\ writer \in [Frames -> Tasks \union {NoTask}]
      /\ readers \in [Frames -> SUBSET Tasks]
  OBVIOUS
<1>6. TypeOK
  <2>1. /\ dirty \subseteq Frames /\ vacant \subseteq Frames /\ accessed \subseteq Frames
        /\ known \subseteq Pages /\ reserved \subseteq Pages /\ poisoned \subseteq Frames
        /\ version \in 0..MaxWrites /\ errors \in 0..MaxErrors /\ keeps \in 0..MaxKeeps
    OBVIOUS
  <2>2. raced \in BOOLEAN /\ misnamed \in BOOLEAN
    BY Zenon
  <2>3. \A t \in Tasks : /\ pc[t] \in FrameLabels => frame[t] \in Frames
                         /\ pc[t] \in VictimLabels => victim[t] \in Frames
                         /\ pc[t] \notin {"idle", "flush"} => page[t] \in Pages
    BY <1>4 DEF FrameLabels, VictimLabels
  <2> HIDE DEF Init
  <2> QED BY <1>1, <1>2, <1>3, <1>5, <2>1, <2>2, <2>3 DEF TypeOK
<1>7. DupInv
  BY <1>4 DEF DupInv
<1> QED BY <1>6, <1>7 DEF TypeInv

(* A pin count stays a u8. *)
LEMMA CountType ==
  \A n \in 0..(PinMod - 1) : Incr(n) \in 0..(PinMod - 1) /\ Decr(n) \in 0..(PinMod - 1)
BY ConstantsAssumption DEF Incr, Decr

LEMMA CallType ==
  ASSUME TypeInv, NEW t \in Tasks, Call(t) PROVE TypeInv'
<1> USE ConstantsAssumption DEF TypeInv, Goto, Return, poolVars, policyVars, diskVars,
        callVars, ghostVars
<1>1. ASSUME NEW p \in Pages, NEW r \in Routes, NEW k \in {"read", "write", "keep"},
             StartFetch(t, p, r, k)
      PROVE  TypeInv'
  <2>1. TypeOK'
    BY <1>1 DEF StartFetch, TypeOK, Labels, Kinds, FrameLabels, VictimLabels
  <2>2. DupInv'
    BY <1>1 DEF StartFetch, TypeOK, DupInv
  <2> QED BY <2>1, <2>2
<1>2. ASSUME NEW p \in Pages, StartNew(t, p)
      PROVE  TypeInv'
  <2>1. TypeOK'
    BY <1>2 DEF StartNew, TypeOK, Labels, Kinds, FrameLabels, VictimLabels
  <2>2. DupInv'
    BY <1>2 DEF StartNew, TypeOK, DupInv
  <2> QED BY <2>1, <2>2
<1>3. ASSUME StartFlush(t)
      PROVE  TypeInv'
  <2>1. TypeOK'
    BY <1>3 DEF StartFlush, TypeOK, Labels, Kinds, FrameLabels, VictimLabels
  <2>2. DupInv'
    BY <1>3 DEF StartFlush, TypeOK, DupInv
  <2> QED BY <2>1, <2>2
<1> QED BY <1>1, <1>2, <1>3 DEF Call

LEMMA FindType ==
  ASSUME TypeInv, NEW t \in Tasks, Find(t) PROVE TypeInv'
<1> USE ConstantsAssumption DEF TypeInv, Goto, Return, poolVars, policyVars, diskVars,
        callVars, ghostVars
<1>1. ASSUME LookupHit(t) PROVE TypeInv'
  <2>1. TypeOK'
    BY <1>1, CountType, SMTT(30) DEF LookupHit, TypeOK, Labels, Kinds, Routes, FrameLabels,
       VictimLabels
  <2>2. DupInv'
    BY <1>1, CountType DEF LookupHit, TypeOK, DupInv, FrameLabels
  <2> QED BY <2>1, <2>2
<1>2. ASSUME LookupMiss(t) PROVE TypeInv'
  <2>1. TypeOK'
    BY <1>2, SMTT(40) DEF LookupMiss, TypeOK, Labels, Kinds, Routes, FrameLabels, VictimLabels
  <2>2. DupInv'
    BY <1>2 DEF LookupMiss, TypeOK, DupInv, FrameLabels
  <2> QED BY <2>1, <2>2
<1>3. ASSUME IncrPinFlag(t) PROVE TypeInv'
  <2>1. TypeOK'
    BY <1>3, SMTT(40) DEF IncrPinFlag, TypeOK, Labels, Kinds, Routes, FrameLabels, VictimLabels, Policy!SetEvictable
  <2>2. DupInv'
    BY <1>3 DEF IncrPinFlag, TypeOK, DupInv, FrameLabels, Policy!SetEvictable
  <2> QED BY <2>1, <2>2
<1>4. ASSUME PopVacant(t) PROVE TypeInv'
  <2>1. TypeOK'
    BY <1>4 DEF PopVacant, TypeOK, Labels, Kinds, Routes, FrameLabels, VictimLabels
  <2>2. DupInv'
    BY <1>4 DEF PopVacant, TypeOK, DupInv, FrameLabels
  <2> QED BY <2>1, <2>2
<1>5. ASSUME NoVacant(t) PROVE TypeInv'
  <2>1. TypeOK'
    BY <1>5 DEF NoVacant, TypeOK, Labels, Kinds, Routes, FrameLabels, VictimLabels
  <2>2. DupInv'
    BY <1>5 DEF NoVacant, TypeOK, DupInv, FrameLabels
  <2> QED BY <2>1, <2>2
<1>6. ASSUME PinVacant(t) PROVE TypeInv'
  <2>1. TypeOK'
    BY <1>6, CountType DEF PinVacant, TypeOK, Labels, Kinds, Routes, FrameLabels, VictimLabels
  <2>2. DupInv'
    BY <1>6, CountType DEF PinVacant, TypeOK, DupInv, FrameLabels
  <2> QED BY <2>1, <2>2
<1>7. ASSUME LatchVacant(t) PROVE TypeInv'
  <2>1. TypeOK'
    BY <1>7 DEF LatchVacant, TypeOK, Labels, Kinds, Routes, FrameLabels, VictimLabels, LatchWrite
  <2>2. DupInv'
    BY <1>7 DEF LatchVacant, TypeOK, DupInv, FrameLabels, LatchWrite
  <2> QED BY <2>1, <2>2
<1>8. ASSUME Publish(t) PROVE TypeInv'
  <2>1. TypeOK'
    BY <1>8 DEF Publish, TypeOK, Labels, Kinds, Routes, FrameLabels, VictimLabels, MapWritable, MapWriteHeld
  <2>2. DupInv'
    BY <1>8 DEF Publish, TypeOK, DupInv, FrameLabels, MapWritable, MapWriteHeld
  <2> QED BY <2>1, <2>2
<1>9. ASSUME DupUnpin(t) PROVE TypeInv'
  <2>1. TypeOK'
    BY <1>9, CountType DEF DupUnpin, TypeOK, Labels, Kinds, Routes, FrameLabels, VictimLabels
  <2>2. DupInv'
    BY <1>9, CountType DEF DupUnpin, TypeOK, DupInv, FrameLabels
  <2> QED BY <2>1, <2>2
<1>10. ASSUME DupPin(t) PROVE TypeInv'
  <2>0. map[route[t]][page[t]] \in Frames
    <3>1. map[route[t]][page[t]] # NoFrame /\ route[t] \in Routes /\ page[t] \in Pages
      BY <1>10 DEF DupPin, TypeOK, DupInv
    <3>2. map \in [Routes -> [Pages -> Frames \union {NoFrame}]]
      BY DEF TypeOK
    <3> QED BY <3>1, <3>2
  <2>1. TypeOK'
    BY <1>10, <2>0, CountType DEF DupPin, TypeOK, Labels, FrameLabels, VictimLabels,
       UnlatchWrite
  <2>2. DupInv'
    BY <1>10, CountType DEF DupPin, TypeOK, DupInv, FrameLabels, UnlatchWrite
  <2> QED BY <2>1, <2>2
<1> QED BY <1>1, <1>2, <1>3, <1>4, <1>5, <1>6, <1>7, <1>8, <1>9, <1>10 DEF Find

LEMMA LoadType ==
  ASSUME TypeInv, NEW t \in Tasks, Load(t) PROVE TypeInv'
<1> USE ConstantsAssumption DEF TypeInv, Goto, Return, poolVars, policyVars, diskVars,
        callVars, ghostVars
<1>1. ASSUME LoadPage(t) PROVE TypeInv'
  <2>a. /\ pc[t] = "load"
        /\ buf' = [buf EXCEPT ![frame[t]] = DiskContent(page[t])]
        /\ loaded' = [loaded EXCEPT ![frame[t]] = page[t]]
        /\ dirty' = dirty \ {frame[t]}
        /\ pc' = [pc EXCEPT ![t] = "publish"]
        /\ UNCHANGED <<map, pin, vacant, writer, readers, policyVars, diskVars, callVars,
                      frame, victim, todo, version, errors, keeps, latest, extraPins,
                      poisoned, raced>>
    BY <1>1 DEF LoadPage
  <2>b. frame[t] \in Frames /\ page[t] \in Pages
    BY <2>a DEF TypeOK, FrameLabels
  <2>c. DiskContent(page[t]) \in Content \union {NoContent}
    BY <2>b DEF DiskContent, Content, TypeOK
  <2>d. PICK id \in Pages : /\ named' = [named EXCEPT ![frame[t]] = id]
                           /\ misnamed' = (misnamed \/ id # page[t])
    BY <1>1, <2>b DEF LoadPage
  <2>e. misnamed' \in BOOLEAN
    BY <2>d, Zenon
  <2>f. named' \in [Frames -> Pages \union {NoPage}]
    BY <2>b, <2>d DEF TypeOK
  <2>g. /\ buf' \in [Frames -> Content \union {NoContent}]
        /\ loaded' \in [Frames -> Pages \union {NoPage}]
        /\ dirty' \subseteq Frames
        /\ pc' \in [Tasks -> Labels]
    BY <2>a, <2>b, <2>c DEF TypeOK, Labels
  <2>h. \A u \in Tasks : /\ pc'[u] \in FrameLabels => frame'[u] \in Frames
                         /\ pc'[u] \in VictimLabels => victim'[u] \in Frames
                         /\ pc'[u] \notin {"idle", "flush"} => page'[u] \in Pages
    BY <2>a, <2>b DEF TypeOK, VictimLabels
  <2>1. TypeOK'
    BY <2>a, <2>e, <2>f, <2>g, <2>h DEF TypeOK
  <2>2. DupInv'
    BY <1>1 DEF LoadPage, TypeOK, DupInv, FrameLabels, DiskContent, Content
  <2> QED BY <2>1, <2>2
<1>2. ASSUME LoadError(t) PROVE TypeInv'
  <2>1. TypeOK'
    BY <1>2 DEF LoadError, TypeOK, Labels, Kinds, Routes, FrameLabels, VictimLabels, UnlatchWrite
  <2>2. DupInv'
    BY <1>2 DEF LoadError, TypeOK, DupInv, FrameLabels, UnlatchWrite
  <2> QED BY <2>1, <2>2
<1>3. ASSUME InstallNew(t) PROVE TypeInv'
  <2>a. /\ pc[t] = "install"
        /\ buf' = [buf EXCEPT ![frame[t]] = [page |-> page[t], ver |-> 0]]
        /\ loaded' = [loaded EXCEPT ![frame[t]] = page[t]]
        /\ named' = [named EXCEPT ![frame[t]] = page[t]]
        /\ dirty' = dirty \ {frame[t]}
        /\ map' = [map EXCEPT !["logical"][page[t]] = frame[t]]
        /\ pc' = [pc EXCEPT ![t] = "publish"]
        /\ UNCHANGED <<pin, vacant, writer, readers, policyVars, diskVars, callVars,
                      frame, victim, todo, ghostVars>>
    BY <1>3 DEF InstallNew
  <2>b. frame[t] \in Frames /\ page[t] \in Pages
    BY <2>a DEF TypeOK, FrameLabels
  <2>c. [page |-> page[t], ver |-> 0] \in Content
    BY <2>b DEF Content
  <2>d. buf' \in [Frames -> Content \union {NoContent}]
    BY <2>a, <2>c DEF TypeOK
  <2>e. map' \in [Routes -> [Pages -> Frames \union {NoFrame}]]
    BY <2>a, <2>b DEF TypeOK, Routes
  <2>f. /\ loaded' \in [Frames -> Pages \union {NoPage}]
        /\ named' \in [Frames -> Pages \union {NoPage}]
        /\ dirty' \subseteq Frames
    BY <2>a, <2>b DEF TypeOK
  <2>g. pc' \in [Tasks -> Labels]
    BY <2>a DEF TypeOK, Labels
  <2>h. \A u \in Tasks : /\ pc'[u] \in FrameLabels => frame'[u] \in Frames
                         /\ pc'[u] \in VictimLabels => victim'[u] \in Frames
                         /\ pc'[u] \notin {"idle", "flush"} => page'[u] \in Pages
    BY <2>a, <2>b DEF TypeOK, VictimLabels
  <2>1. TypeOK'
    BY <2>a, <2>d, <2>e, <2>f, <2>g, <2>h DEF TypeOK
  <2>2. DupInv'
    BY <1>3 DEF InstallNew, TypeOK, DupInv, FrameLabels, MapWritable, MapWriteHeld, Content
  <2> QED BY <2>1, <2>2
<1>4. ASSUME PublishOther(t) PROVE TypeInv'
  <2>0. /\ readers' \in [Frames -> SUBSET Tasks]
        /\ writer' \in [Frames -> Tasks \union {NoTask}]
    <3>1. /\ readers \in [Frames -> SUBSET Tasks]
          /\ writer \in [Frames -> Tasks \union {NoTask}]
      BY DEF TypeOK
    <3>2. /\ readers' = readers \/ readers' = [readers EXCEPT ![frame[t]] = @ \union {t}]
          /\ writer' = writer \/ writer' = [writer EXCEPT ![frame[t]] = NoTask]
      BY <1>4 DEF PublishOther, UnlatchWrite
    <3> QED BY <3>1, <3>2
  <2>a. /\ map' \in [Routes -> [Pages -> Frames \union {NoFrame}]]
        /\ known' \subseteq Pages
    BY <1>4 DEF PublishOther, TypeOK, FrameLabels, Key
  <2>b. /\ pc' = [pc EXCEPT ![t] = "hold"]
        /\ pc[t] = "publish"
        /\ UNCHANGED <<pin, loaded, named, dirty, vacant, buf, policyVars, disk, reserved,
                      callVars, frame, victim, todo, ghostVars>>
    BY <1>4 DEF PublishOther
  <2>1. TypeOK'
    BY <2>b, <2>0, <2>a DEF TypeOK, Labels, FrameLabels, VictimLabels
  <2>2. DupInv'
    BY <1>4 DEF PublishOther, TypeOK, DupInv, FrameLabels, MapWritable, MapWriteHeld, UnlatchWrite, Other
  <2> QED BY <2>1, <2>2
<1> QED BY <1>1, <1>2, <1>3, <1>4 DEF Load

LEMMA GuardType ==
  ASSUME TypeInv, NEW t \in Tasks, Guard(t) PROVE TypeInv'
<1> USE ConstantsAssumption DEF TypeInv, Goto, Return, poolVars, policyVars, diskVars,
        callVars, ghostVars
<1>1. ASSUME AwaitRead(t) PROVE TypeInv'
  <2>1. TypeOK'
    BY <1>1 DEF AwaitRead, TypeOK, Labels, Kinds, Routes, FrameLabels, VictimLabels, Policy!RecordAccess
  <2>2. DupInv'
    BY <1>1 DEF AwaitRead, TypeOK, DupInv, FrameLabels, Policy!RecordAccess
  <2> QED BY <2>1, <2>2
<1>2. ASSUME AwaitWrite(t) PROVE TypeInv'
  <2>1. TypeOK'
    BY <1>2 DEF AwaitWrite, TypeOK, Labels, Kinds, Routes, FrameLabels, VictimLabels, LatchWrite
  <2>2. DupInv'
    BY <1>2 DEF AwaitWrite, TypeOK, DupInv, FrameLabels, LatchWrite
  <2> QED BY <2>1, <2>2
<1>3. ASSUME WritePage(t) PROVE TypeInv'
  <2>1. TypeOK'
    <3>1. page[t] \in Pages /\ frame[t] \in Frames
      BY <1>3 DEF WritePage, TypeOK, FrameLabels
    <3>2. version' \in 0..MaxWrites
      BY <1>3 DEF WritePage, TypeOK
    <3>3. buf' \in [Frames -> Content \union {NoContent}] /\ latest' \in [Pages -> 0..MaxWrites]
      BY <1>3, <3>1, <3>2 DEF WritePage, TypeOK, Content
    <3>4. dirty' \subseteq Frames
      BY <1>3, <3>1 DEF WritePage, TypeOK
    <3> QED BY <1>3, <3>2, <3>3, <3>4 DEF WritePage, TypeOK
  <2>2. DupInv'
    BY <1>3 DEF WritePage, TypeOK, DupInv, FrameLabels, Content
  <2> QED BY <2>1, <2>2
<1>4. ASSUME Downgrade(t) PROVE TypeInv'
  <2>1. TypeOK'
    BY <1>4 DEF Downgrade, TypeOK, Labels, Kinds, Routes, FrameLabels, VictimLabels, UnlatchWrite
  <2>2. DupInv'
    BY <1>4 DEF Downgrade, TypeOK, DupInv, FrameLabels, UnlatchWrite
  <2> QED BY <2>1, <2>2
<1>5. ASSUME KeepPinned(t) PROVE TypeInv'
  <2>a. /\ pin' \in [Frames -> 0..(PinMod - 1)]
        /\ extraPins' \in [Frames -> Nat]
    BY <1>5, CountType DEF KeepPinned, TypeOK, FrameLabels
  <2>b. /\ flag' \in [Frames -> {"untracked", "pinned", "evictable"}]
        /\ accessed' = accessed
    BY <1>5 DEF KeepPinned, TypeOK, Policy!SetEvictable
  <2>c. /\ pc[t] = "hold"
        /\ pc' = [pc EXCEPT ![t] = "drop"]
        /\ UNCHANGED <<map, loaded, named, dirty, vacant, writer, readers, buf, diskVars,
                      callVars, frame, victim, todo, version, errors, keeps, latest,
                      poisoned, raced, misnamed>>
    BY <1>5 DEF KeepPinned
  <2>1. TypeOK'
    BY <2>a, <2>b, <2>c DEF TypeOK, Labels, FrameLabels, VictimLabels
  <2>2. DupInv'
    BY <1>5, CountType DEF KeepPinned, TypeOK, DupInv, FrameLabels, Policy!SetEvictable
  <2> QED BY <2>1, <2>2
<1>6. ASSUME DropPin(t) PROVE TypeInv'
  <2>1. TypeOK'
    BY <1>6, CountType DEF DropPin, TypeOK, Labels, Kinds, Routes, FrameLabels, VictimLabels
  <2>2. DupInv'
    BY <1>6, CountType DEF DropPin, TypeOK, DupInv, FrameLabels
  <2> QED BY <2>1, <2>2
<1>7. ASSUME DecrPinFlag(t) PROVE TypeInv'
  <2>1. TypeOK'
    BY <1>7 DEF DecrPinFlag, TypeOK, Labels, Kinds, Routes, FrameLabels, VictimLabels, Policy!SetEvictable
  <2>2. DupInv'
    BY <1>7 DEF DecrPinFlag, TypeOK, DupInv, FrameLabels, Policy!SetEvictable
  <2> QED BY <2>1, <2>2
<1>8. ASSUME Unlatch(t) PROVE TypeInv'
  <2>1. TypeOK'
    <3>1. /\ readers' \in [Frames -> SUBSET Tasks]
          /\ writer' \in [Frames -> Tasks \union {NoTask}]
      <4>1. /\ readers \in [Frames -> SUBSET Tasks]
            /\ writer \in [Frames -> Tasks \union {NoTask}]
        BY DEF TypeOK
      <4>2. /\ readers' = readers \/ readers' = [readers EXCEPT ![frame[t]] = @ \ {t}]
            /\ writer' = writer \/ writer' = [writer EXCEPT ![frame[t]] = NoTask]
        BY <1>8 DEF Unlatch, UnlatchWrite
      <4> QED BY <4>1, <4>2
    <3>2. /\ Return(t)
          /\ UNCHANGED <<map, pin, loaded, named, dirty, vacant, buf, policyVars, diskVars,
                        ghostVars>>
      BY <1>8 DEF Unlatch
    <3> QED
      BY <3>1, <3>2 DEF TypeOK, Labels, Kinds, Routes, FrameLabels, VictimLabels
  <2>2. DupInv'
    BY <1>8 DEF Unlatch, TypeOK, DupInv, FrameLabels, UnlatchWrite
  <2> QED BY <2>1, <2>2
<1> QED BY <1>1, <1>2, <1>3, <1>4, <1>5, <1>6, <1>7, <1>8 DEF Guard

LEMMA EvictType ==
  ASSUME TypeInv, NEW t \in Tasks, Evict(t) PROVE TypeInv'
<1> USE ConstantsAssumption DEF TypeInv, Goto, Return, poolVars, policyVars, diskVars,
        callVars, ghostVars
<1>1. ASSUME FindVictim(t) PROVE TypeInv'
  <2>1. TypeOK'
    BY <1>1 DEF FindVictim, TypeOK, Labels, Kinds, Routes, FrameLabels, VictimLabels, Policy!Victims
  <2>2. DupInv'
    BY <1>1 DEF FindVictim, TypeOK, DupInv, FrameLabels, Policy!Victims
  <2> QED BY <2>1, <2>2
<1>2. ASSUME NoVictimFound(t) PROVE TypeInv'
  <2>1. TypeOK'
    BY <1>2 DEF NoVictimFound, TypeOK, Labels, Kinds, Routes, FrameLabels, VictimLabels
  <2>2. DupInv'
    BY <1>2 DEF NoVictimFound, TypeOK, DupInv, FrameLabels
  <2> QED BY <2>1, <2>2
<1>3. ASSUME EvictPinned(t) PROVE TypeInv'
  <2>1. TypeOK'
    BY <1>3 DEF EvictPinned, TypeOK, Labels, Kinds, Routes, FrameLabels, VictimLabels
  <2>2. DupInv'
    BY <1>3 DEF EvictPinned, TypeOK, DupInv, FrameLabels
  <2> QED BY <2>1, <2>2
<1>4. ASSUME EvictVacant(t) PROVE TypeInv'
  <2>1. TypeOK'
    BY <1>4 DEF EvictVacant, TypeOK, Labels, Kinds, Routes, FrameLabels, VictimLabels, Resume
  <2>2. DupInv'
    BY <1>4 DEF EvictVacant, TypeOK, DupInv, FrameLabels, Resume
  <2> QED BY <2>1, <2>2
<1>5. ASSUME EvictLoaded(t) PROVE TypeInv'
  <2>1. TypeOK'
    BY <1>5 DEF EvictLoaded, TypeOK, Labels, Kinds, Routes, FrameLabels, VictimLabels, LatchWrite
  <2>2. DupInv'
    BY <1>5 DEF EvictLoaded, TypeOK, DupInv, FrameLabels, LatchWrite
  <2> QED BY <2>1, <2>2
<1>6. ASSUME WriteBack(t) PROVE TypeInv'
  <2>1. TypeOK'
    BY <1>6, ZenonT(60) DEF WriteBack, TypeOK, Labels, Kinds, Routes, FrameLabels, VictimLabels
  <2>2. DupInv'
    BY <1>6 DEF WriteBack, TypeOK, DupInv, FrameLabels
  <2> QED BY <2>1, <2>2
<1>7. ASSUME WriteBackError(t) PROVE TypeInv'
  <2>1. TypeOK'
    BY <1>7 DEF WriteBackError, TypeOK, Labels, Kinds, Routes, FrameLabels, VictimLabels, UnlatchWrite
  <2>2. DupInv'
    BY <1>7 DEF WriteBackError, TypeOK, DupInv, FrameLabels, UnlatchWrite
  <2> QED BY <2>1, <2>2
<1>8. ASSUME UnmapLogical(t) PROVE TypeInv'
  <2>1. TypeOK'
    BY <1>8 DEF UnmapLogical, TypeOK, Labels, Kinds, Routes, FrameLabels, VictimLabels, Key, Unmap, MapWritable, MapWriteHeld
  <2>2. DupInv'
    BY <1>8 DEF UnmapLogical, TypeOK, DupInv, FrameLabels, Key, Unmap, MapWritable, MapWriteHeld
  <2> QED BY <2>1, <2>2
<1>9. ASSUME UnmapPhysical(t) PROVE TypeInv'
  <2>1. TypeOK'
    BY <1>9 DEF UnmapPhysical, TypeOK, Labels, Kinds, Routes, FrameLabels, VictimLabels, Key, Unmap, MapWritable, MapWriteHeld
  <2>2. DupInv'
    BY <1>9 DEF UnmapPhysical, TypeOK, DupInv, FrameLabels, Key, Unmap, MapWritable, MapWriteHeld
  <2> QED BY <2>1, <2>2
<1>10. ASSUME EvictClear(t) PROVE TypeInv'
  <2>1. TypeOK'
    BY <1>10, SMTT(40) DEF EvictClear, TypeOK, Labels, Kinds, Routes, FrameLabels, VictimLabels, Resume, UnlatchWrite, Policy!RemoveFrame
  <2>2. DupInv'
    BY <1>10 DEF EvictClear, TypeOK, DupInv, FrameLabels, Resume, UnlatchWrite, Policy!RemoveFrame
  <2> QED BY <2>1, <2>2
<1> QED BY <1>1, <1>2, <1>3, <1>4, <1>5, <1>6, <1>7, <1>8, <1>9, <1>10 DEF Evict

LEMMA FlushType ==
  ASSUME TypeInv, NEW t \in Tasks, Flush(t) PROVE TypeInv'
<1> USE ConstantsAssumption DEF TypeInv, Goto, Return, poolVars, policyVars, diskVars,
        callVars, ghostVars
<1>1. ASSUME FlushSkip(t) PROVE TypeInv'
  <2>1. TypeOK'
    BY <1>1 DEF FlushSkip, TypeOK, Labels, Kinds, Routes, FrameLabels, VictimLabels
  <2>2. DupInv'
    BY <1>1 DEF FlushSkip, TypeOK, DupInv, FrameLabels
  <2> QED BY <2>1, <2>2
<1>2. ASSUME FlushLatch(t) PROVE TypeInv'
  <2>1. TypeOK'
    BY <1>2 DEF FlushLatch, TypeOK, Labels, Kinds, Routes, FrameLabels, VictimLabels
  <2>2. DupInv'
    BY <1>2 DEF FlushLatch, TypeOK, DupInv, FrameLabels
  <2> QED BY <2>1, <2>2
<1>3. ASSUME FlushWrite(t) PROVE TypeInv'
  <2>1. TypeOK'
    BY <1>3 DEF FlushWrite, TypeOK, Labels, Kinds, Routes, FrameLabels, VictimLabels
  <2>2. DupInv'
    BY <1>3 DEF FlushWrite, TypeOK, DupInv, FrameLabels
  <2> QED BY <2>1, <2>2
<1>4. ASSUME FlushError(t) PROVE TypeInv'
  <2>1. TypeOK'
    BY <1>4 DEF FlushError, TypeOK, Labels, Kinds, Routes, FrameLabels, VictimLabels
  <2>2. DupInv'
    BY <1>4 DEF FlushError, TypeOK, DupInv, FrameLabels
  <2> QED BY <2>1, <2>2
<1>5. ASSUME FlushDone(t) PROVE TypeInv'
  <2>1. TypeOK'
    BY <1>5 DEF FlushDone, TypeOK, Labels, Kinds, Routes, FrameLabels, VictimLabels
  <2>2. DupInv'
    BY <1>5 DEF FlushDone, TypeOK, DupInv, FrameLabels
  <2> QED BY <2>1, <2>2
<1> QED BY <1>1, <1>2, <1>3, <1>4, <1>5 DEF Flush

LEMMA StepType == TypeInv /\ [Next]_vars => TypeInv'
<1>1. ASSUME TypeInv, NEW t \in Tasks,
             Call(t) \/ Find(t) \/ Load(t) \/ Guard(t) \/ Evict(t) \/ Flush(t)
      PROVE  TypeInv'
  BY <1>1, CallType, FindType, LoadType, GuardType, EvictType, FlushType
<1>2. ASSUME TypeInv, UNCHANGED vars PROVE TypeInv'
  BY <1>2 DEF TypeInv, TypeOK, DupInv, vars, poolVars, policyVars, diskVars, callVars,
     ghostVars
<1> QED BY <1>1, <1>2 DEF Next

LEMMA TypeInvHolds == Spec => []TypeInv
BY InitType, StepType, PTL DEF Spec

(* Type correctness: every reachable state is well typed, and a call that  *)
(* is at a label where it uses a frame, a victim or a page has one.        *)
THEOREM TypeCorrect == Spec => []TypeOK
<1>1. TypeInv => TypeOK
  BY DEF TypeInv
<1> QED BY <1>1, TypeInvHolds, PTL

-----------------------------------------------------------------------------
(* Latches.  KindInv ties the kind of a call to the labels it goes through. *)

KindInv ==
  \A t \in Tasks :
    /\ pc[t] \notin {"idle", "flush", "flushWrite"} => kind[t] # "flush"
    /\ pc[t] = "drop" => kind[t] = "keep"

LatchInv == KindInv /\ LatchProtocol

LEMMA InitLatches == Init => LatchInv
BY ConstantsAssumption DEF Init, LatchInv, KindInv, LatchProtocol, HoldsWrite, HoldsRead

LEMMA CallKeepsLatches ==
  ASSUME TypeOK, LatchInv, NEW t \in Tasks, Call(t) PROVE LatchInv'
<1> USE DEF LatchInv, KindInv, LatchProtocol, HoldsWrite, HoldsRead, TypeOK, Goto, poolVars
<1>1. ASSUME NEW p \in Pages, NEW r \in Routes, NEW k \in {"read", "write", "keep"},
             StartFetch(t, p, r, k)
      PROVE  LatchInv'
  BY <1>1, SMTT(40) DEF StartFetch
<1>2. ASSUME NEW p \in Pages, StartNew(t, p)
      PROVE  LatchInv'
  BY <1>2 DEF StartNew
<1>3. ASSUME StartFlush(t)
      PROVE  LatchInv'
  BY <1>3 DEF StartFlush
<1> QED BY <1>1, <1>2, <1>3 DEF Call

LEMMA FindKeepsLatches ==
  ASSUME TypeOK, LatchInv, NEW t \in Tasks, Find(t) PROVE LatchInv'
<1> USE ConstantsAssumption DEF LatchInv, KindInv, LatchProtocol, HoldsWrite,
        HoldsRead, TypeOK, Goto, Return, poolVars, callVars, FrameLabels, VictimLabels
<1>1. ASSUME LookupHit(t) PROVE LatchInv'
  BY <1>1 DEF LookupHit
<1>2. ASSUME LookupMiss(t) PROVE LatchInv'
  BY <1>2 DEF LookupMiss
<1>3. ASSUME IncrPinFlag(t) PROVE LatchInv'
  BY <1>3 DEF IncrPinFlag
<1>4. ASSUME PopVacant(t) PROVE LatchInv'
  BY <1>4 DEF PopVacant
<1>5. ASSUME NoVacant(t) PROVE LatchInv'
  BY <1>5 DEF NoVacant
<1>6. ASSUME PinVacant(t) PROVE LatchInv'
  BY <1>6 DEF PinVacant
<1>7. ASSUME LatchVacant(t) PROVE LatchInv'
  BY <1>7 DEF LatchVacant, LatchWrite
<1>8. ASSUME Publish(t) PROVE LatchInv'
  BY <1>8 DEF Publish
<1>9. ASSUME DupUnpin(t) PROVE LatchInv'
  BY <1>9 DEF DupUnpin
<1>10. ASSUME DupPin(t) PROVE LatchInv'
  BY <1>10 DEF DupPin, UnlatchWrite
<1> QED BY <1>1, <1>2, <1>3, <1>4, <1>5, <1>6, <1>7, <1>8, <1>9, <1>10 DEF Find

LEMMA LoadKeepsLatches ==
  ASSUME TypeOK, LatchInv, NEW t \in Tasks, Load(t) PROVE LatchInv'
<1> USE ConstantsAssumption DEF LatchInv, KindInv, LatchProtocol, HoldsWrite,
        HoldsRead, TypeOK, Goto, Return, poolVars, callVars, FrameLabels, VictimLabels
<1>1. ASSUME LoadPage(t) PROVE LatchInv'
  BY <1>1 DEF LoadPage
<1>2. ASSUME LoadError(t) PROVE LatchInv'
  BY <1>2 DEF LoadError, UnlatchWrite
<1>3. ASSUME InstallNew(t) PROVE LatchInv'
  BY <1>3 DEF InstallNew
<1>4. ASSUME PublishOther(t) PROVE LatchInv'
  <2>1. pc[t] = "publish" /\ frame[t] \in Frames /\ kind[t] # "flush"
    BY <1>4 DEF PublishOther
  <2>2. writer[frame[t]] = t /\ readers[frame[t]] = {}
    <3>1. HoldsWrite(t, frame[t])
      BY <2>1
    <3> HIDE DEF HoldsWrite
    <3>2. writer[frame[t]] = t
      BY <2>1, <3>1
    <3>3. t # NoTask
      OBVIOUS
    <3> QED BY <2>1, <3>2, <3>3
  <2>3. CASE kind[t] \in {"read", "keep"}
    <3>1. /\ writer' = [writer EXCEPT ![frame[t]] = NoTask]
          /\ readers' = [readers EXCEPT ![frame[t]] = @ \union {t}]
          /\ pc' = [pc EXCEPT ![t] = "hold"]
          /\ UNCHANGED <<kind, frame, victim>>
      BY <1>4, <2>3 DEF PublishOther, UnlatchWrite
    <3>2. KindInv'
      BY <2>1, <3>1
    <3>3. LatchProtocol'
      BY <2>1, <2>2, <2>3, <3>1
    <3> QED BY <3>2, <3>3
  <2>4. CASE kind[t] \in {"write", "new"}
    BY <1>4, <2>1, <2>2, <2>4 DEF PublishOther
  <2> QED BY <2>1, <2>3, <2>4 DEF Kinds
<1> QED BY <1>1, <1>2, <1>3, <1>4 DEF Load

LEMMA UnlatchKeepsLatches ==
  ASSUME TypeOK, LatchInv, NEW t \in Tasks, Unlatch(t) PROVE LatchInv'
<1> DEFINE g == frame[t]
<1>0. /\ pc \in [Tasks -> Labels] /\ kind \in [Tasks -> Kinds]
      /\ frame \in [Tasks -> Frames \union {NoFrame}] /\ victim \in [Tasks -> Frames \union {NoFrame}]
      /\ writer \in [Frames -> Tasks \union {NoTask}] /\ readers \in [Frames -> SUBSET Tasks]
  BY DEF TypeOK
<1>1. pc[t] = "unlatch" /\ g \in Frames
  BY DEF Unlatch, TypeOK, FrameLabels
<1>2. kind[t] \in {"write", "new"} \/ kind[t] \in {"read", "keep"}
  BY <1>0, <1>1 DEF LatchInv, KindInv, Kinds
<1>3. KindInv'
  BY <1>0 DEF Unlatch, Return, LatchInv, KindInv
(* The call gives up what it holds, the others keep what they hold. *)
<1>4. \A f \in Frames : /\ HoldsWrite(t, f) <=> f = g /\ kind[t] \in {"write", "new"}
                        /\ HoldsRead(t, f) <=> f = g /\ kind[t] \in {"read", "keep"}
  BY <1>1 DEF HoldsWrite, HoldsRead
<1>5. \A f \in Frames : ~HoldsWrite(t, f)' /\ ~HoldsRead(t, f)'
  BY <1>0 DEF Unlatch, Return, HoldsWrite, HoldsRead
<1>6. \A u \in Tasks, f \in Frames :
        u # t => /\ HoldsWrite(u, f)' <=> HoldsWrite(u, f)
                 /\ HoldsRead(u, f)' <=> HoldsRead(u, f)
  BY <1>0 DEF Unlatch, Return, HoldsWrite, HoldsRead
<1>7. \A f \in Frames : /\ writer'[f] = IF f = g /\ writer[g] = t THEN NoTask ELSE writer[f]
                        /\ readers'[f] = IF f = g /\ writer[g] # t THEN readers[g] \ {t}
                                         ELSE readers[f]
  BY <1>0, <1>1 DEF Unlatch, UnlatchWrite
<1>8. t # NoTask
  BY ConstantsAssumption
<1> HIDE DEF g
<1>9. LatchProtocol'
  <2>1. ASSUME NEW f \in Frames, NEW u \in Tasks
        PROVE  /\ writer'[f] # NoTask => readers'[f] = {}
               /\ writer'[f] = u <=> HoldsWrite(u, f)'
               /\ u \in readers'[f] <=> HoldsRead(u, f)'
    BY <1>0, <1>1, <1>2, <1>4, <1>5, <1>6, <1>7, <1>8, ConstantsAssumption DEF LatchInv, LatchProtocol
  <2> QED BY <2>1 DEF LatchProtocol
<1> QED BY <1>3, <1>9 DEF LatchInv

LEMMA GuardKeepsLatches ==
  ASSUME TypeOK, LatchInv, NEW t \in Tasks, Guard(t) PROVE LatchInv'
<1> USE ConstantsAssumption DEF LatchInv, KindInv, LatchProtocol, HoldsWrite,
        HoldsRead, TypeOK, Goto, Return, poolVars, callVars, FrameLabels, VictimLabels
<1>1. ASSUME AwaitRead(t) PROVE LatchInv'
  BY <1>1 DEF AwaitRead
<1>2. ASSUME AwaitWrite(t) PROVE LatchInv'
  BY <1>2 DEF AwaitWrite, LatchWrite
<1>3. ASSUME WritePage(t) PROVE LatchInv'
  BY <1>3 DEF WritePage
<1>4. ASSUME Downgrade(t) PROVE LatchInv'
  BY <1>4 DEF Downgrade, UnlatchWrite
<1>5. ASSUME KeepPinned(t) PROVE LatchInv'
  BY <1>5 DEF KeepPinned
<1>6. ASSUME DropPin(t) PROVE LatchInv'
  BY <1>6 DEF DropPin
<1>7. ASSUME DecrPinFlag(t) PROVE LatchInv'
  BY <1>7 DEF DecrPinFlag
<1>8. ASSUME Unlatch(t) PROVE LatchInv'
  BY <1>8, UnlatchKeepsLatches
<1> QED BY <1>1, <1>2, <1>3, <1>4, <1>5, <1>6, <1>7, <1>8 DEF Guard

LEMMA EvictKeepsLatches ==
  ASSUME TypeOK, LatchInv, NEW t \in Tasks, Evict(t) PROVE LatchInv'
<1> USE ConstantsAssumption DEF LatchInv, KindInv, LatchProtocol, HoldsWrite,
        HoldsRead, TypeOK, Goto, Return, poolVars, callVars, FrameLabels, VictimLabels
<1>1. ASSUME FindVictim(t) PROVE LatchInv'
  BY <1>1 DEF FindVictim
<1>2. ASSUME NoVictimFound(t) PROVE LatchInv'
  BY <1>2 DEF NoVictimFound
<1>3. ASSUME EvictPinned(t) PROVE LatchInv'
  BY <1>3 DEF EvictPinned
<1>4. ASSUME EvictVacant(t) PROVE LatchInv'
  BY <1>4 DEF EvictVacant, Resume
<1>5. ASSUME EvictLoaded(t) PROVE LatchInv'
  BY <1>5 DEF EvictLoaded, LatchWrite
<1>6. ASSUME WriteBack(t) PROVE LatchInv'
  BY <1>6 DEF WriteBack
<1>7. ASSUME WriteBackError(t) PROVE LatchInv'
  BY <1>7 DEF WriteBackError, UnlatchWrite
<1>8. ASSUME UnmapLogical(t) PROVE LatchInv'
  BY <1>8 DEF UnmapLogical, Unmap
<1>9. ASSUME UnmapPhysical(t) PROVE LatchInv'
  BY <1>9 DEF UnmapPhysical, Unmap
<1>10. ASSUME EvictClear(t) PROVE LatchInv'
  BY <1>10 DEF EvictClear, UnlatchWrite, Resume
<1> QED BY <1>1, <1>2, <1>3, <1>4, <1>5, <1>6, <1>7, <1>8, <1>9, <1>10 DEF Evict

LEMMA FlushKeepsLatches ==
  ASSUME TypeOK, LatchInv, NEW t \in Tasks, Flush(t) PROVE LatchInv'
<1> USE ConstantsAssumption DEF LatchInv, KindInv, LatchProtocol, HoldsWrite,
        HoldsRead, TypeOK, Goto, Return, poolVars, callVars, FrameLabels, VictimLabels
<1>1. ASSUME FlushSkip(t) PROVE LatchInv'
  BY <1>1 DEF FlushSkip
<1>2. ASSUME FlushLatch(t) PROVE LatchInv'
  BY <1>2 DEF FlushLatch
<1>3. ASSUME FlushWrite(t) PROVE LatchInv'
  BY <1>3 DEF FlushWrite
<1>4. ASSUME FlushError(t) PROVE LatchInv'
  <2>1. KindInv'
    BY <1>4 DEF FlushError
  <2>2. /\ pc[t] = "flushWrite" /\ pc' = [pc EXCEPT ![t] = "idle"]
        /\ readers' = [readers EXCEPT ![frame[t]] = @ \ {t}]
        /\ writer' = writer
        /\ kind' = [kind EXCEPT ![t] = "read"]
        /\ frame' = [frame EXCEPT ![t] = NoFrame]
        /\ victim' = [victim EXCEPT ![t] = NoFrame]
    BY <1>4 DEF FlushError
  <2>t. /\ pc \in [Tasks -> Labels] /\ kind \in [Tasks -> Kinds]
        /\ frame \in [Tasks -> Frames \union {NoFrame}]
        /\ victim \in [Tasks -> Frames \union {NoFrame}]
        /\ readers \in [Frames -> SUBSET Tasks]
        /\ writer \in [Frames -> Tasks \union {NoTask}]
        /\ LatchProtocol
    OBVIOUS
  <2> HIDE DEF TypeOK, LatchInv, KindInv, FrameLabels, VictimLabels
  <2>3. LatchProtocol'
    BY <2>2, <2>t
  <2> QED BY <2>1, <2>3 DEF LatchInv
<1>5. ASSUME FlushDone(t) PROVE LatchInv'
  <2>1. KindInv'
    BY <1>5 DEF FlushDone
  <2>2. /\ pc[t] = "flush" /\ pc' = [pc EXCEPT ![t] = "idle"]
        /\ readers' = readers /\ writer' = writer
        /\ kind' = [kind EXCEPT ![t] = "read"]
        /\ frame' = [frame EXCEPT ![t] = NoFrame]
        /\ victim' = [victim EXCEPT ![t] = NoFrame]
    BY <1>5 DEF FlushDone
  <2>t. /\ pc \in [Tasks -> Labels] /\ kind \in [Tasks -> Kinds]
        /\ frame \in [Tasks -> Frames \union {NoFrame}]
        /\ victim \in [Tasks -> Frames \union {NoFrame}]
        /\ readers \in [Frames -> SUBSET Tasks]
        /\ writer \in [Frames -> Tasks \union {NoTask}]
        /\ LatchProtocol
    OBVIOUS
  <2> HIDE DEF TypeOK, LatchInv, KindInv, FrameLabels, VictimLabels
  <2>3. LatchProtocol'
    BY <2>2, <2>t
  <2> QED BY <2>1, <2>3 DEF LatchInv
<1> QED BY <1>1, <1>2, <1>3, <1>4, <1>5 DEF Flush

LEMMA StepKeepsLatches == TypeOK /\ LatchInv /\ [Next]_vars => LatchInv'
<1>1. ASSUME TypeOK, LatchInv, NEW t \in Tasks,
             Call(t) \/ Find(t) \/ Load(t) \/ Guard(t) \/ Evict(t) \/ Flush(t)
      PROVE  LatchInv'
  BY <1>1, CallKeepsLatches, FindKeepsLatches, LoadKeepsLatches, GuardKeepsLatches,
     EvictKeepsLatches, FlushKeepsLatches
<1>2. ASSUME LatchInv, UNCHANGED vars PROVE LatchInv'
  BY <1>2 DEF LatchInv, KindInv, LatchProtocol, HoldsWrite, HoldsRead, vars, poolVars,
     callVars
<1> QED BY <1>1, <1>2 DEF Next

LEMMA LatchInvHolds == Spec => []LatchInv
BY InitLatches, StepKeepsLatches, TypeCorrect, PTL DEF Spec

(* The latch protocol: whoever fills, reads, writes or evicts a frame has  *)
(* its latch in the mode that excludes the others, and every latch taken   *)
(* is given back.                                                          *)
THEOREM LatchesAreExclusive == Spec => []LatchProtocol
<1>1. LatchInv => LatchProtocol
  BY DEF LatchInv
<1> QED
  BY <1>1, InitLatches, StepKeepsLatches, TypeCorrect, PTL DEF Spec

-----------------------------------------------------------------------------
(* Pins.  The holders of a frame are a finite set of tasks; a step adds one *)
(* holder to one frame, removes one, or turns one into a permanent pin.     *)

LEMMA HoldersFinite ==
  ASSUME NEW f \in Frames
  PROVE  /\ IsFiniteSet(Holders(f))
         /\ Cardinality(Holders(f)) \in Nat
         /\ Cardinality(Tasks) \in Nat
         /\ Cardinality(Holders(f)) <= Cardinality(Tasks)
<1>1. Holders(f) \subseteq Tasks /\ IsFiniteSet(Tasks)
  BY ConstantsAssumption DEF Holders
<1> QED BY <1>1, FS_Subset, FS_CardinalityType

LEMMA PinSame ==
  ASSUME PinAccounting, pin' = pin, extraPins' = extraPins,
         \A f \in Frames : Holders(f)' = Holders(f)
  PROVE  PinAccounting'
BY DEF PinAccounting, NoWrap

LEMMA PinGained ==
  ASSUME TypeOK, PinAccounting, NEW t \in Tasks, NEW g \in Frames,
         t \notin Holders(g),
         pin' = [pin EXCEPT ![g] = Incr(@)], extraPins' = extraPins,
         \A f \in Frames :
           Holders(f)' = IF f = g THEN Holders(f) \union {t} ELSE Holders(f)
  PROVE  PinAccounting'
<1> SUFFICES ASSUME NEW f \in Frames, NoWrap(f)
             PROVE  pin'[f] = Cardinality(Holders(f)') + extraPins[f]
  BY DEF PinAccounting, NoWrap
<1>1. pin[f] = Cardinality(Holders(f)) + extraPins[f]
  BY DEF PinAccounting
<1>2. CASE f # g
  BY <1>1, <1>2
<1>3. CASE f = g
  <2>1. Cardinality(Holders(g) \union {t}) = Cardinality(Holders(g)) + 1
    BY HoldersFinite, FS_AddElement
  <2>2. Holders(g) \union {t} \subseteq Tasks
    BY DEF Holders
  <2>3. Cardinality(Holders(g) \union {t}) <= Cardinality(Tasks)
    BY <2>2, FS_Subset, ConstantsAssumption
  <2>4. /\ Cardinality(Holders(g)) \in Nat /\ Cardinality(Tasks) \in Nat
        /\ extraPins[g] \in Nat /\ PinMod \in Nat
    BY HoldersFinite, ConstantsAssumption DEF TypeOK
  <2>5. pin[g] < PinMod - 1
    BY <1>1, <1>3, <2>1, <2>3, <2>4 DEF NoWrap
  <2>6. pin'[g] = Incr(pin[g])
    BY DEF TypeOK
  <2>7. pin'[g] = pin[g] + 1
    BY <2>5, <2>6, <2>4 DEF Incr
  <2> QED BY <1>1, <1>3, <2>1, <2>4, <2>7
<1> QED BY <1>2, <1>3

LEMMA PinLost ==
  ASSUME TypeOK, PinAccounting, NEW t \in Tasks, NEW g \in Frames,
         t \in Holders(g),
         pin' = [pin EXCEPT ![g] = Decr(@)], extraPins' = extraPins,
         \A f \in Frames :
           Holders(f)' = IF f = g THEN Holders(f) \ {t} ELSE Holders(f)
  PROVE  PinAccounting'
<1> SUFFICES ASSUME NEW f \in Frames, NoWrap(f)
             PROVE  pin'[f] = Cardinality(Holders(f)') + extraPins[f]
  BY DEF PinAccounting, NoWrap
<1>1. pin[f] = Cardinality(Holders(f)) + extraPins[f]
  BY DEF PinAccounting
<1>2. CASE f # g
  BY <1>1, <1>2
<1>3. CASE f = g
  <2>1. Cardinality(Holders(g) \ {t}) = Cardinality(Holders(g)) - 1
    BY HoldersFinite, FS_RemoveElement
  <2>2. IsFiniteSet(Holders(g) \ {t})
    BY HoldersFinite, FS_RemoveElement
  <2>3. /\ Cardinality(Holders(g)) \in Nat /\ Cardinality(Holders(g) \ {t}) \in Nat
        /\ extraPins[g] \in Nat /\ PinMod \in Nat
    BY <2>2, HoldersFinite, FS_CardinalityType, ConstantsAssumption DEF TypeOK
  <2>4. pin[g] > 0
    BY <1>1, <1>3, <2>1, <2>3
  <2>5. pin'[g] = Decr(pin[g])
    BY DEF TypeOK
  <2>6. pin'[g] = pin[g] - 1
    BY <2>4, <2>5, <2>3 DEF Decr
  <2>7. Holders(f)' = Holders(g) \ {t}
    BY <1>3
  <2> QED BY <1>1, <1>3, <2>1, <2>3, <2>6, <2>7
<1> QED BY <1>2, <1>3

LEMMA PinKept ==
  ASSUME TypeOK, PinAccounting, NEW g \in Frames,
         pin' = [pin EXCEPT ![g] = Incr(@)],
         extraPins' = [extraPins EXCEPT ![g] = @ + 1],
         \A f \in Frames : Holders(f)' = Holders(f)
  PROVE  PinAccounting'
<1> SUFFICES ASSUME NEW f \in Frames, NoWrap(f)'
             PROVE  pin'[f] = Cardinality(Holders(f)) + extraPins'[f]
  BY DEF PinAccounting
<1>1. /\ Cardinality(Holders(f)) \in Nat /\ Cardinality(Tasks) \in Nat
      /\ Cardinality(Holders(f)) <= Cardinality(Tasks)
      /\ extraPins[f] \in Nat /\ PinMod \in Nat
  BY HoldersFinite, ConstantsAssumption DEF TypeOK
<1>2. NoWrap(f)
  BY <1>1 DEF NoWrap, TypeOK
<1>3. pin[f] = Cardinality(Holders(f)) + extraPins[f]
  BY <1>2 DEF PinAccounting
<1>4. CASE f # g
  BY <1>3, <1>4 DEF TypeOK
<1>5. CASE f = g
  BY <1>1, <1>3, <1>5 DEF Incr, NoWrap, TypeOK
<1> QED BY <1>4, <1>5

LEMMA PinLeaked ==
  ASSUME TypeOK, PinAccounting, NEW t \in Tasks, NEW g \in Frames,
         t \in Holders(g),
         pin' = pin, extraPins' = [extraPins EXCEPT ![g] = @ + 1],
         \A f \in Frames :
           Holders(f)' = IF f = g THEN Holders(f) \ {t} ELSE Holders(f)
  PROVE  PinAccounting'
<1> SUFFICES ASSUME NEW f \in Frames, NoWrap(f)'
             PROVE  pin[f] = Cardinality(Holders(f)') + extraPins'[f]
  BY DEF PinAccounting
<1>1. /\ Cardinality(Holders(f)) \in Nat /\ Cardinality(Tasks) \in Nat
      /\ extraPins[f] \in Nat /\ PinMod \in Nat
  BY HoldersFinite, ConstantsAssumption DEF TypeOK
<1>2. NoWrap(f)
  BY <1>1 DEF NoWrap, TypeOK
<1>3. pin[f] = Cardinality(Holders(f)) + extraPins[f]
  BY <1>2 DEF PinAccounting
<1>4. CASE f # g
  BY <1>3, <1>4 DEF TypeOK
<1>5. CASE f = g
  <2>1. Cardinality(Holders(g) \ {t}) = Cardinality(Holders(g)) - 1
    BY HoldersFinite, FS_RemoveElement
  <2>2. extraPins'[g] = extraPins[g] + 1
    BY DEF TypeOK
  <2>3. Holders(f)' = Holders(g) \ {t}
    BY <1>5
  <2> QED BY <1>1, <1>3, <1>5, <2>1, <2>2, <2>3
<1> QED BY <1>4, <1>5

(* A step of t that neither gives t a pin nor takes one from it. *)
LEMMA HoldersSame ==
  ASSUME TypeOK, NEW t \in Tasks, NEW l, NEW f \in Frames,
         pc' = [pc EXCEPT ![t] = l],
         pc[t] \in PinLabels <=> l \in PinLabels,
         frame' = frame \/ (pc[t] \notin PinLabels /\ \E g : frame' = [frame EXCEPT ![t] = g])
  PROVE  Holders(f)' = Holders(f)
<1>1. ASSUME NEW u \in Tasks
      PROVE  (frame'[u] = f /\ pc'[u] \in PinLabels) <=> (frame[u] = f /\ pc[u] \in PinLabels)
  <2>1. CASE u = t
    BY <2>1 DEF TypeOK
  <2>2. CASE u # t
    BY <2>2 DEF TypeOK
  <2> QED BY <2>1, <2>2
<1> QED BY <1>1 DEF Holders

(* A step of t that pins g. *)
LEMMA HoldersMore ==
  ASSUME TypeOK, NEW t \in Tasks, NEW l \in PinLabels, NEW f \in Frames, NEW g \in Frames,
         pc[t] \notin PinLabels, pc' = [pc EXCEPT ![t] = l],
         frame' = [frame EXCEPT ![t] = g]
  PROVE  Holders(f)' = IF f = g THEN Holders(f) \union {t} ELSE Holders(f)
<1>1. ASSUME NEW u \in Tasks
      PROVE  (frame'[u] = f /\ pc'[u] \in PinLabels)
               <=> (frame[u] = f /\ pc[u] \in PinLabels) \/ (u = t /\ f = g)
  <2>1. CASE u = t
    BY <2>1 DEF TypeOK
  <2>2. CASE u # t
    BY <2>2 DEF TypeOK
  <2> QED BY <2>1, <2>2
<1> QED BY <1>1 DEF Holders

(* A step of t that gives up its pin. *)
LEMMA HoldersLess ==
  ASSUME TypeOK, NEW t \in Tasks, NEW l, NEW f \in Frames, NEW g,
         l \notin PinLabels,
         pc[t] \in PinLabels, pc' = [pc EXCEPT ![t] = l],
         frame' = [frame EXCEPT ![t] = g]
  PROVE  Holders(f)' = IF f = frame[t] THEN Holders(f) \ {t} ELSE Holders(f)
<1>1. ASSUME NEW u \in Tasks
      PROVE  (frame'[u] = f /\ pc'[u] \in PinLabels)
               <=> (frame[u] = f /\ pc[u] \in PinLabels) /\ ~(u = t /\ f = frame[t])
  <2>1. CASE u = t
    BY <2>1 DEF TypeOK
  <2>2. CASE u # t
    BY <2>2 DEF TypeOK
  <2> QED BY <2>1, <2>2
<1> QED BY <1>1 DEF Holders

PinQuiet(t) ==
  /\ pc' = [pc EXCEPT ![t] = pc'[t]]
  /\ pc[t] \in PinLabels <=> pc'[t] \in PinLabels
  /\ frame' = frame \/ (pc[t] \notin PinLabels /\ \E g : frame' = [frame EXCEPT ![t] = g])
  /\ pin' = pin /\ extraPins' = extraPins

LEMMA QuietKeepsPins ==
  ASSUME TypeOK, PinAccounting, NEW t \in Tasks, PinQuiet(t) PROVE PinAccounting'
<1>1. \A f \in Frames : Holders(f)' = Holders(f)
  BY HoldersSame DEF PinQuiet
<1> QED BY <1>1, PinSame DEF PinQuiet

LEMMA CallKeepsPins ==
  ASSUME TypeInv, PinAccounting, NEW t \in Tasks, Call(t) PROVE PinAccounting'
<1> USE DEF TypeInv, Goto, Return, poolVars, policyVars, diskVars, callVars, ghostVars
<1>1. ASSUME NEW p \in Pages, NEW r \in Routes, NEW k \in {"read", "write", "keep"},
             StartFetch(t, p, r, k)
      PROVE  PinAccounting'
  <2>1. PinQuiet(t)
    BY <1>1 DEF StartFetch, PinQuiet, TypeOK, PinLabels
  <2> QED BY <2>1, QuietKeepsPins
<1>2. ASSUME NEW p \in Pages, StartNew(t, p) PROVE PinAccounting'
  <2>1. PinQuiet(t)
    BY <1>2 DEF StartNew, PinQuiet, TypeOK, PinLabels
  <2> QED BY <2>1, QuietKeepsPins
<1>3. ASSUME StartFlush(t) PROVE PinAccounting'
  <2>1. PinQuiet(t)
    BY <1>3 DEF StartFlush, PinQuiet, TypeOK, PinLabels
  <2> QED BY <2>1, QuietKeepsPins
<1> QED BY <1>1, <1>2, <1>3 DEF Call

LEMMA FindKeepsPins ==
  ASSUME TypeInv, PinAccounting, NEW t \in Tasks, Find(t) PROVE PinAccounting'
<1> USE DEF TypeInv, Goto, Return, poolVars, policyVars, diskVars, callVars, ghostVars
<1>1. ASSUME LookupHit(t) PROVE PinAccounting'
  <2> DEFINE g == map[route[t]][page[t]]
             l == pc'[t]
  <2>1. g \in Frames
    <3>1. g # NoFrame /\ route[t] \in Routes /\ page[t] \in Pages
      BY <1>1 DEF LookupHit, TypeOK
    <3> QED BY <3>1 DEF TypeOK
  <2>2. /\ l \in PinLabels /\ pc[t] \notin PinLabels
        /\ pc' = [pc EXCEPT ![t] = l]
    BY <1>1 DEF LookupHit, TypeOK, PinLabels
  <2>3. /\ frame' = [frame EXCEPT ![t] = g]
        /\ pin' = [pin EXCEPT ![g] = Incr(@)] /\ extraPins' = extraPins
    BY <1>1 DEF LookupHit, TypeOK
  <2>4. t \notin Holders(g)
    BY <2>2 DEF Holders
  <2> HIDE DEF g, l
  <2>5. \A f \in Frames : Holders(f)' = IF f = g THEN Holders(f) \union {t} ELSE Holders(f)
    BY <2>1, <2>2, <2>3, HoldersMore
  <2> QED BY <2>1, <2>3, <2>4, <2>5, PinGained
<1>2. ASSUME LookupMiss(t) PROVE PinAccounting'
  <2>1. PinQuiet(t)
    BY <1>2 DEF LookupMiss, PinQuiet, TypeOK, PinLabels
  <2> QED BY <2>1, QuietKeepsPins
<1>3. ASSUME IncrPinFlag(t) PROVE PinAccounting'
  <2>1. PinQuiet(t)
    BY <1>3 DEF IncrPinFlag, PinQuiet, TypeOK, PinLabels
  <2> QED BY <2>1, QuietKeepsPins
<1>4. ASSUME PopVacant(t) PROVE PinAccounting'
  <2>1. PinQuiet(t)
    BY <1>4 DEF PopVacant, PinQuiet, TypeOK, PinLabels
  <2> QED BY <2>1, QuietKeepsPins
<1>5. ASSUME NoVacant(t) PROVE PinAccounting'
  <2>1. PinQuiet(t)
    BY <1>5 DEF NoVacant, PinQuiet, TypeOK, PinLabels
  <2> QED BY <2>1, QuietKeepsPins
<1>6. ASSUME PinVacant(t) PROVE PinAccounting'
  <2> DEFINE g == frame[t]
             l == pc'[t]
  <2>1. g \in Frames
    BY <1>6 DEF PinVacant, TypeOK, FrameLabels
  <2>2. /\ l \in PinLabels /\ pc[t] \notin PinLabels
        /\ pc' = [pc EXCEPT ![t] = l]
    BY <1>6 DEF PinVacant, TypeOK, PinLabels
  <2>3. /\ frame' = [frame EXCEPT ![t] = g]
        /\ pin' = [pin EXCEPT ![g] = Incr(@)] /\ extraPins' = extraPins
    BY <1>6 DEF PinVacant, TypeOK
  <2>4. t \notin Holders(g)
    BY <2>2 DEF Holders
  <2> HIDE DEF g, l
  <2>5. \A f \in Frames : Holders(f)' = IF f = g THEN Holders(f) \union {t} ELSE Holders(f)
    BY <2>1, <2>2, <2>3, HoldersMore
  <2> QED BY <2>1, <2>3, <2>4, <2>5, PinGained
<1>7. ASSUME LatchVacant(t) PROVE PinAccounting'
  <2>1. PinQuiet(t)
    BY <1>7 DEF LatchVacant, PinQuiet, TypeOK, PinLabels
  <2> QED BY <2>1, QuietKeepsPins
<1>8. ASSUME Publish(t) PROVE PinAccounting'
  <2>1. PinQuiet(t)
    BY <1>8 DEF Publish, PinQuiet, TypeOK, PinLabels
  <2> QED BY <2>1, QuietKeepsPins
<1>9. ASSUME DupUnpin(t) PROVE PinAccounting'
  <2> DEFINE l == pc'[t]
             g == frame'[t]
  <2>1. frame[t] \in Frames
    BY <1>9 DEF DupUnpin, TypeOK, FrameLabels
  <2>2. /\ l \notin PinLabels /\ pc[t] \in PinLabels
        /\ pc' = [pc EXCEPT ![t] = l]
    BY <1>9 DEF DupUnpin, TypeOK, PinLabels
  <2>3. pin' = [pin EXCEPT ![frame[t]] = Decr(@)] /\ extraPins' = extraPins
    BY <1>9 DEF DupUnpin
  <2>4. frame' = [frame EXCEPT ![t] = g]
    BY <1>9 DEF DupUnpin, TypeOK
  <2>5. t \in Holders(frame[t])
    BY <2>2 DEF Holders
  <2> HIDE DEF g, l
  <2>6. \A f \in Frames :
          Holders(f)' = IF f = frame[t] THEN Holders(f) \ {t} ELSE Holders(f)
    BY <2>2, <2>4, HoldersLess
  <2> QED BY <2>1, <2>3, <2>5, <2>6, PinLost
<1>10. ASSUME DupPin(t) PROVE PinAccounting'
  <2> DEFINE g == map[route[t]][page[t]]
             l == pc'[t]
  <2>1. g \in Frames
    <3>1. g # NoFrame /\ route[t] \in Routes /\ page[t] \in Pages
      BY <1>10 DEF DupPin, TypeOK, DupInv
    <3> QED BY <3>1 DEF TypeOK
  <2>2. /\ l \in PinLabels /\ pc[t] \notin PinLabels
        /\ pc' = [pc EXCEPT ![t] = l]
    BY <1>10 DEF DupPin, TypeOK, PinLabels
  <2>3. /\ frame' = [frame EXCEPT ![t] = g]
        /\ pin' = [pin EXCEPT ![g] = Incr(@)] /\ extraPins' = extraPins
    BY <1>10 DEF DupPin
  <2>4. t \notin Holders(g)
    BY <2>2 DEF Holders
  <2> HIDE DEF g, l
  <2>5. \A f \in Frames : Holders(f)' = IF f = g THEN Holders(f) \union {t} ELSE Holders(f)
    BY <2>1, <2>2, <2>3, HoldersMore
  <2> QED BY <2>1, <2>3, <2>4, <2>5, PinGained
<1> QED BY <1>1, <1>2, <1>3, <1>4, <1>5, <1>6, <1>7, <1>8, <1>9, <1>10 DEF Find

LEMMA LoadKeepsPins ==
  ASSUME TypeInv, PinAccounting, NEW t \in Tasks, Load(t) PROVE PinAccounting'
<1> USE DEF TypeInv, Goto, Return, poolVars, policyVars, diskVars, callVars, ghostVars
<1>1. ASSUME LoadPage(t) PROVE PinAccounting'
  <2>1. PinQuiet(t)
    BY <1>1 DEF LoadPage, PinQuiet, TypeOK, PinLabels
  <2> QED BY <2>1, QuietKeepsPins
<1>2. ASSUME LoadError(t) PROVE PinAccounting'
  <2> DEFINE l == pc'[t]
             g == frame'[t]
  <2>1. frame[t] \in Frames
    BY <1>2 DEF LoadError, TypeOK, FrameLabels
  <2>2. /\ l \notin PinLabels /\ pc[t] \in PinLabels
        /\ pc' = [pc EXCEPT ![t] = l]
    BY <1>2 DEF LoadError, TypeOK, PinLabels
  <2>3. pin' = pin /\ extraPins' = [extraPins EXCEPT ![frame[t]] = @ + 1]
    BY <1>2 DEF LoadError
  <2>4. frame' = [frame EXCEPT ![t] = g]
    BY <1>2 DEF LoadError, TypeOK
  <2>5. t \in Holders(frame[t])
    BY <2>2 DEF Holders
  <2> HIDE DEF g, l
  <2>6. \A f \in Frames :
          Holders(f)' = IF f = frame[t] THEN Holders(f) \ {t} ELSE Holders(f)
    BY <2>2, <2>4, HoldersLess
  <2> QED BY <2>1, <2>3, <2>5, <2>6, PinLeaked
<1>3. ASSUME InstallNew(t) PROVE PinAccounting'
  <2>1. PinQuiet(t)
    BY <1>3 DEF InstallNew, PinQuiet, TypeOK, PinLabels
  <2> QED BY <2>1, QuietKeepsPins
<1>4. ASSUME PublishOther(t) PROVE PinAccounting'
  <2>1. PinQuiet(t)
    BY <1>4 DEF PublishOther, PinQuiet, TypeOK, PinLabels
  <2> QED BY <2>1, QuietKeepsPins
<1> QED BY <1>1, <1>2, <1>3, <1>4 DEF Load

LEMMA GuardKeepsPins ==
  ASSUME TypeInv, PinAccounting, NEW t \in Tasks, Guard(t) PROVE PinAccounting'
<1> USE DEF TypeInv, Goto, Return, poolVars, policyVars, diskVars, callVars, ghostVars
<1>1. ASSUME AwaitRead(t) PROVE PinAccounting'
  <2>1. PinQuiet(t)
    BY <1>1 DEF AwaitRead, PinQuiet, TypeOK, PinLabels
  <2> QED BY <2>1, QuietKeepsPins
<1>2. ASSUME AwaitWrite(t) PROVE PinAccounting'
  <2>1. PinQuiet(t)
    BY <1>2 DEF AwaitWrite, PinQuiet, TypeOK, PinLabels
  <2> QED BY <2>1, QuietKeepsPins
<1>3. ASSUME WritePage(t) PROVE PinAccounting'
  <2>1. PinQuiet(t)
    BY <1>3 DEF WritePage, PinQuiet, TypeOK, PinLabels
  <2> QED BY <2>1, QuietKeepsPins
<1>4. ASSUME Downgrade(t) PROVE PinAccounting'
  <2>1. PinQuiet(t)
    BY <1>4 DEF Downgrade, PinQuiet, TypeOK, PinLabels
  <2> QED BY <2>1, QuietKeepsPins
<1>5. ASSUME KeepPinned(t) PROVE PinAccounting'
  <2>1. \A f \in Frames : Holders(f)' = Holders(f)
    <3>1. /\ pc' = [pc EXCEPT ![t] = "drop"] /\ frame' = frame
          /\ pc[t] \in PinLabels /\ "drop" \in PinLabels
      BY <1>5 DEF KeepPinned, PinLabels
    <3> QED BY <3>1, HoldersSame
  <2>2. frame[t] \in Frames
    BY <1>5 DEF KeepPinned, TypeOK, FrameLabels
  <2> QED BY <1>5, <2>1, <2>2, PinKept DEF KeepPinned
<1>6. ASSUME DropPin(t) PROVE PinAccounting'
  <2> DEFINE l == pc'[t]
             g == frame'[t]
  <2>1. frame[t] \in Frames
    BY <1>6 DEF DropPin, TypeOK, FrameLabels
  <2>2. /\ l \notin PinLabels /\ pc[t] \in PinLabels
        /\ pc' = [pc EXCEPT ![t] = l]
    BY <1>6 DEF DropPin, TypeOK, PinLabels
  <2>3. pin' = [pin EXCEPT ![frame[t]] = Decr(@)] /\ extraPins' = extraPins
    BY <1>6 DEF DropPin
  <2>4. frame' = [frame EXCEPT ![t] = g]
    BY <1>6 DEF DropPin, TypeOK
  <2>5. t \in Holders(frame[t])
    BY <2>2 DEF Holders
  <2> HIDE DEF g, l
  <2>6. \A f \in Frames :
          Holders(f)' = IF f = frame[t] THEN Holders(f) \ {t} ELSE Holders(f)
    BY <2>2, <2>4, HoldersLess
  <2> QED BY <2>1, <2>3, <2>5, <2>6, PinLost
<1>7. ASSUME DecrPinFlag(t) PROVE PinAccounting'
  <2>1. PinQuiet(t)
    BY <1>7 DEF DecrPinFlag, PinQuiet, TypeOK, PinLabels
  <2> QED BY <2>1, QuietKeepsPins
<1>8. ASSUME Unlatch(t) PROVE PinAccounting'
  <2>1. PinQuiet(t)
    BY <1>8 DEF Unlatch, PinQuiet, TypeOK, PinLabels
  <2> QED BY <2>1, QuietKeepsPins
<1> QED BY <1>1, <1>2, <1>3, <1>4, <1>5, <1>6, <1>7, <1>8 DEF Guard

LEMMA EvictKeepsPins ==
  ASSUME TypeInv, PinAccounting, NEW t \in Tasks, Evict(t) PROVE PinAccounting'
<1> USE DEF TypeInv, Goto, Return, poolVars, policyVars, diskVars, callVars, ghostVars
<1>1. ASSUME FindVictim(t) PROVE PinAccounting'
  <2>1. PinQuiet(t)
    BY <1>1 DEF FindVictim, PinQuiet, TypeOK, PinLabels
  <2> QED BY <2>1, QuietKeepsPins
<1>2. ASSUME NoVictimFound(t) PROVE PinAccounting'
  <2>1. PinQuiet(t)
    BY <1>2 DEF NoVictimFound, PinQuiet, TypeOK, PinLabels
  <2> QED BY <2>1, QuietKeepsPins
<1>3. ASSUME EvictPinned(t) PROVE PinAccounting'
  <2>1. PinQuiet(t)
    BY <1>3 DEF EvictPinned, PinQuiet, TypeOK, PinLabels
  <2> QED BY <2>1, QuietKeepsPins
<1>4. ASSUME EvictVacant(t) PROVE PinAccounting'
  <2>1. PinQuiet(t)
    BY <1>4 DEF EvictVacant, Resume, PinQuiet, TypeOK, PinLabels
  <2> QED BY <2>1, QuietKeepsPins
<1>5. ASSUME EvictLoaded(t) PROVE PinAccounting'
  <2>1. PinQuiet(t)
    BY <1>5 DEF EvictLoaded, PinQuiet, TypeOK, PinLabels
  <2> QED BY <2>1, QuietKeepsPins
<1>6. ASSUME WriteBack(t) PROVE PinAccounting'
  <2>1. PinQuiet(t)
    BY <1>6 DEF WriteBack, PinQuiet, TypeOK, PinLabels
  <2> QED BY <2>1, QuietKeepsPins
<1>7. ASSUME WriteBackError(t) PROVE PinAccounting'
  <2>1. PinQuiet(t)
    BY <1>7 DEF WriteBackError, PinQuiet, TypeOK, PinLabels
  <2> QED BY <2>1, QuietKeepsPins
<1>8. ASSUME UnmapLogical(t) PROVE PinAccounting'
  <2>1. PinQuiet(t)
    BY <1>8 DEF UnmapLogical, Unmap, PinQuiet, TypeOK, PinLabels
  <2> QED BY <2>1, QuietKeepsPins
<1>9. ASSUME UnmapPhysical(t) PROVE PinAccounting'
  <2>1. PinQuiet(t)
    BY <1>9 DEF UnmapPhysical, Unmap, PinQuiet, TypeOK, PinLabels
  <2> QED BY <2>1, QuietKeepsPins
<1>10. ASSUME EvictClear(t) PROVE PinAccounting'
  <2>1. PinQuiet(t)
    BY <1>10 DEF EvictClear, Resume, PinQuiet, TypeOK, PinLabels
  <2> QED BY <2>1, QuietKeepsPins
<1> QED BY <1>1, <1>2, <1>3, <1>4, <1>5, <1>6, <1>7, <1>8, <1>9, <1>10 DEF Evict

LEMMA FlushKeepsPins ==
  ASSUME TypeInv, PinAccounting, NEW t \in Tasks, Flush(t) PROVE PinAccounting'
<1> USE DEF TypeInv, Goto, Return, poolVars, policyVars, diskVars, callVars, ghostVars
<1>1. ASSUME FlushSkip(t) PROVE PinAccounting'
  <2>1. PinQuiet(t)
    BY <1>1 DEF FlushSkip, PinQuiet, TypeOK, PinLabels
  <2> QED BY <2>1, QuietKeepsPins
<1>2. ASSUME FlushLatch(t) PROVE PinAccounting'
  <2>1. PinQuiet(t)
    BY <1>2 DEF FlushLatch, PinQuiet, TypeOK, PinLabels
  <2> QED BY <2>1, QuietKeepsPins
<1>3. ASSUME FlushWrite(t) PROVE PinAccounting'
  <2>1. PinQuiet(t)
    BY <1>3 DEF FlushWrite, PinQuiet, TypeOK, PinLabels
  <2> QED BY <2>1, QuietKeepsPins
<1>4. ASSUME FlushError(t) PROVE PinAccounting'
  <2>1. PinQuiet(t)
    BY <1>4 DEF FlushError, PinQuiet, TypeOK, PinLabels
  <2> QED BY <2>1, QuietKeepsPins
<1>5. ASSUME FlushDone(t) PROVE PinAccounting'
  <2>1. PinQuiet(t)
    BY <1>5 DEF FlushDone, PinQuiet, TypeOK, PinLabels
  <2> QED BY <2>1, QuietKeepsPins
<1> QED BY <1>1, <1>2, <1>3, <1>4, <1>5 DEF Flush

LEMMA StepKeepsPins == TypeInv /\ PinAccounting /\ [Next]_vars => PinAccounting'
<1>1. ASSUME TypeInv, PinAccounting, NEW t \in Tasks,
             Call(t) \/ Find(t) \/ Load(t) \/ Guard(t) \/ Evict(t) \/ Flush(t)
      PROVE  PinAccounting'
  BY <1>1, CallKeepsPins, FindKeepsPins, LoadKeepsPins, GuardKeepsPins, EvictKeepsPins,
     FlushKeepsPins
<1>2. ASSUME PinAccounting, UNCHANGED vars PROVE PinAccounting'
  BY <1>2 DEF PinAccounting, Holders, NoWrap, vars, poolVars, ghostVars
<1> QED BY <1>1, <1>2 DEF Next

LEMMA InitPins == Init => PinAccounting
<1> SUFFICES ASSUME Init, NEW f \in Frames PROVE pin[f] = Cardinality(Holders(f)) + extraPins[f]
  BY DEF PinAccounting
<1>1. Holders(f) = {}
  BY DEF Init, Holders, PinLabels
<1>2. Cardinality(Holders(f)) = 0
  BY <1>1, FS_EmptySet
<1> QED BY <1>2 DEF Init

(* Pin accounting: fetch_add and fetch_sub of every path balance, so a     *)
(* frame that a call or a guard uses has a positive count, and a frame     *)
(* nobody uses comes back to zero, for any number of tasks the u8 counter  *)
(* has room for.                                                           *)
THEOREM PinsAreCounted == Spec => []PinAccounting
BY TypeInvHolds, InitPins, StepKeepsPins, PTL DEF Spec

-----------------------------------------------------------------------------
(* Unevictable frames.  An eviction past its pin check works on a frame    *)
(* without permanent pins, because the pin count it saw was 0; and it has  *)
(* the write latch, so nobody makes a permanent pin until it is done.      *)

Emptying == {"writeBack", "unmapLogical", "unmapPhysical", "clear"}

VictimNotKept ==
  \A t \in Tasks :
    pc[t] \in Emptying /\ NoWrap(victim[t]) => extraPins[victim[t]] = 0

(* A step of t that neither chooses the victim nor makes a permanent pin. *)
VictimQuiet(t) ==
  /\ extraPins' = extraPins
  /\ pc' = [pc EXCEPT ![t] = pc'[t]]
  /\ victim' = [victim EXCEPT ![t] = victim'[t]]
  /\ pc'[t] \in Emptying => pc[t] \in Emptying /\ victim'[t] = victim[t]

LEMMA QuietKeepsVictims ==
  ASSUME TypeOK, VictimNotKept, NEW t \in Tasks, VictimQuiet(t) PROVE VictimNotKept'
<1> SUFFICES ASSUME NEW u \in Tasks, pc'[u] \in Emptying, NoWrap(victim[u])'
             PROVE  extraPins'[victim'[u]] = 0
  BY DEF VictimNotKept
<1>1. pc[u] \in Emptying /\ victim'[u] = victim[u]
  BY DEF VictimQuiet, TypeOK
<1> QED BY <1>1 DEF VictimNotKept, VictimQuiet, NoWrap

LEMMA MostStepsAreQuiet ==
  ASSUME TypeOK, NEW t \in Tasks,
         Call(t) \/ Find(t) \/ Load(t) \/ Guard(t) \/ Evict(t) \/ Flush(t)
  PROVE  VictimQuiet(t) \/ EvictLoaded(t) \/ KeepPinned(t) \/ LoadError(t)
<1> USE DEF Goto, Return, poolVars, policyVars, diskVars, callVars, ghostVars, VictimQuiet,
        Emptying
<1>1. CASE Call(t)
  BY <1>1 DEF Call, StartFetch, StartNew, StartFlush, TypeOK
<1>2. CASE Find(t)
  <2>1. /\ pc' = [pc EXCEPT ![t] = pc'[t]] /\ pc'[t] \notin Emptying
        /\ extraPins' = extraPins /\ victim' = victim
    <3>1. CASE LookupHit(t) \/ LookupMiss(t)
      BY <3>1 DEF LookupHit, LookupMiss, TypeOK
    <3>2. CASE IncrPinFlag(t) \/ PopVacant(t) \/ NoVacant(t)
      BY <3>2 DEF IncrPinFlag, PopVacant, NoVacant, TypeOK
    <3>3. CASE PinVacant(t) \/ LatchVacant(t)
      BY <3>3 DEF PinVacant, LatchVacant, TypeOK
    <3>4. CASE Publish(t)
      BY <3>4 DEF Publish, TypeOK
    <3>5. CASE DupUnpin(t) \/ DupPin(t)
      BY <3>5 DEF DupUnpin, DupPin, TypeOK
    <3> QED BY <1>2, <3>1, <3>2, <3>3, <3>4, <3>5 DEF Find
  <2> QED BY <2>1 DEF TypeOK
<1>3. CASE Load(t)
  BY <1>3 DEF Load, LoadPage, InstallNew, PublishOther, TypeOK
<1>4. CASE Guard(t)
  <2>1. CASE AwaitRead(t) \/ AwaitWrite(t)
    BY <2>1 DEF AwaitRead, AwaitWrite, TypeOK
  <2>4. CASE WritePage(t) \/ Downgrade(t)
    BY <2>4 DEF WritePage, Downgrade, TypeOK
  <2>2. CASE DropPin(t) \/ DecrPinFlag(t)
    BY <2>2, ZenonT(60) DEF DropPin, DecrPinFlag, TypeOK
  <2>3. CASE Unlatch(t)
    BY <2>3 DEF Unlatch, TypeOK
  <2> QED BY <1>4, <2>1, <2>2, <2>3, <2>4 DEF Guard
<1>5. CASE Evict(t)
  BY <1>5 DEF Evict, FindVictim, NoVictimFound, EvictPinned, EvictVacant, WriteBack,
     WriteBackError, UnmapLogical, UnmapPhysical, Unmap, EvictClear, Resume, TypeOK
<1>6. CASE Flush(t)
  BY <1>6 DEF Flush, FlushSkip, FlushLatch, FlushWrite, FlushError, FlushDone, TypeOK
<1> QED BY <1>1, <1>2, <1>3, <1>4, <1>5, <1>6

LEMMA StepKeepsVictims ==
  TypeInv /\ LatchProtocol /\ PinAccounting /\ VictimNotKept /\ [Next]_vars => VictimNotKept'
<1> SUFFICES ASSUME TypeInv, LatchProtocol, PinAccounting, VictimNotKept, [Next]_vars
             PROVE  VictimNotKept'
  OBVIOUS
<1> USE DEF TypeInv, Goto
<1>1. CASE UNCHANGED vars
  BY <1>1 DEF VictimNotKept, NoWrap, vars, poolVars, ghostVars
<1>2. ASSUME NEW t \in Tasks, EvictLoaded(t) PROVE VictimNotKept'
  <2> SUFFICES ASSUME NEW u \in Tasks, pc'[u] \in Emptying, NoWrap(victim[u])
               PROVE  extraPins[victim[u]] = 0
    BY <1>2 DEF EvictLoaded, VictimNotKept, NoWrap, ghostVars
  <2>1. CASE u = t
    <3>1. victim[t] \in Frames /\ pin[victim[t]] = 0
      BY <1>2 DEF EvictLoaded, TypeOK, VictimLabels
    <3>2. 0 = Cardinality(Holders(victim[t])) + extraPins[victim[t]]
      BY <3>1, <2>1 DEF PinAccounting
    <3>3. Cardinality(Holders(victim[t])) \in Nat /\ extraPins[victim[t]] \in Nat
      BY <3>1, HoldersFinite DEF TypeOK
    <3> QED BY <3>2, <3>3, <2>1
  <2>2. CASE u # t
    BY <1>2, <2>2 DEF EvictLoaded, VictimNotKept, TypeOK
  <2> QED BY <2>1, <2>2
<1>3. ASSUME NEW t \in Tasks, KeepPinned(t) \/ LoadError(t) PROVE VictimNotKept'
  <2> SUFFICES ASSUME NEW u \in Tasks, pc'[u] \in Emptying, NoWrap(victim[u])'
               PROVE  extraPins'[victim[u]] = 0
    <3>1. \A u \in Tasks : pc'[u] \in Emptying => victim'[u] = victim[u]
      <4>1. CASE KeepPinned(t)
        BY <4>1 DEF KeepPinned
      <4>2. CASE LoadError(t)
        <5>1. /\ pc' = [pc EXCEPT ![t] = "idle"]
              /\ victim' = [victim EXCEPT ![t] = NoFrame]
          BY <4>2 DEF LoadError, Return
        <5> QED BY <5>1 DEF TypeOK, Emptying
      <4> QED BY <1>3, <4>1, <4>2
    <3> QED BY <3>1 DEF VictimNotKept
  <2>1. u # t /\ pc[u] \in Emptying
    <3>1. pc' = [pc EXCEPT ![t] = "drop"] \/ pc' = [pc EXCEPT ![t] = "idle"]
      BY <1>3 DEF KeepPinned, LoadError, Return
    <3> QED BY <3>1 DEF TypeOK, Emptying
  <2>2. victim[u] \in Frames /\ frame[t] \in Frames
    BY <1>3, <2>1 DEF KeepPinned, LoadError, TypeOK, Emptying, VictimLabels, FrameLabels
  <2>3. writer[victim[u]] = u
    BY <2>1, <2>2 DEF LatchProtocol, HoldsWrite, Emptying
  <2>4. victim[u] # frame[t]
    <3>1. CASE KeepPinned(t)
      <4>1. t \in readers[frame[t]]
        BY <3>1, <2>2 DEF KeepPinned, LatchProtocol, HoldsRead
      <4>2. writer[frame[t]] = NoTask
        BY <4>1, <2>2 DEF LatchProtocol
      <4> QED BY <4>2, <2>3, ConstantsAssumption
    <3>2. CASE LoadError(t)
      <4>1. writer[frame[t]] = t
        BY <3>2, <2>2 DEF LoadError, LatchProtocol, HoldsWrite
      <4> QED BY <4>1, <2>1, <2>3
    <3> QED BY <1>3, <3>1, <3>2
  <2>5. extraPins'[victim[u]] = extraPins[victim[u]]
    BY <1>3, <2>2, <2>4 DEF KeepPinned, LoadError, TypeOK
  <2>6. NoWrap(victim[u])
    BY <1>3, <2>1, <2>5 DEF NoWrap, KeepPinned, LoadError, Return, TypeOK
  <2> QED BY <2>1, <2>5, <2>6 DEF VictimNotKept
<1>4. ASSUME NEW t \in Tasks,
             Call(t) \/ Find(t) \/ Load(t) \/ Guard(t) \/ Evict(t) \/ Flush(t)
      PROVE  VictimNotKept'
  BY <1>2, <1>3, <1>4, MostStepsAreQuiet, QuietKeepsVictims
<1> QED BY <1>1, <1>4 DEF Next

(* Only EvictClear makes a loaded frame Vacant. *)
LEMMA OnlyEvictClearEmpties ==
  ASSUME TypeOK, NEW t \in Tasks, NEW f \in Frames,
         Call(t) \/ Find(t) \/ Load(t) \/ Guard(t) \/ Evict(t) \/ Flush(t),
         loaded[f] # NoPage, loaded'[f] = NoPage
  PROVE  pc[t] = "clear" /\ victim[t] = f
<1> USE ConstantsAssumption DEF poolVars
<1>1. CASE Call(t)
  BY <1>1, SMTT(40) DEF Call, StartFetch, StartNew, StartFlush
<1>2. CASE Find(t)
  BY <1>2 DEF Find, LookupHit, LookupMiss, IncrPinFlag, PopVacant, NoVacant, PinVacant,
     LatchVacant, Publish, DupUnpin, DupPin
<1>3. CASE Load(t)
  BY <1>3, ZenonT(60) DEF Load, LoadPage, LoadError, InstallNew, PublishOther, TypeOK
<1>4. CASE Guard(t)
  BY <1>4 DEF Guard, AwaitRead, AwaitWrite, WritePage, Downgrade, KeepPinned, DropPin,
     DecrPinFlag, Unlatch
<1>5. CASE Evict(t)
  BY <1>5 DEF Evict, FindVictim, NoVictimFound, EvictPinned, EvictVacant, EvictLoaded,
     WriteBack, WriteBackError, UnmapLogical, UnmapPhysical, Unmap, EvictClear, TypeOK
<1>6. CASE Flush(t)
  BY <1>6 DEF Flush, FlushSkip, FlushLatch, FlushWrite, FlushError, FlushDone
<1> QED BY <1>1, <1>2, <1>3, <1>4, <1>5, <1>6

(* load_page_as_unevictable keeps its promise: a page pinned for good is   *)
(* never evicted, however many evictions were under way when it was        *)
(* pinned.                                                                 *)
THEOREM UnevictableIsNeverEvicted == Spec => UnevictableStays
<1>1. Init => VictimNotKept
  BY DEF Init, VictimNotKept, Emptying
<1>2. TypeInv /\ VictimNotKept /\ [Next]_vars =>
        [\A f \in Frames :
           NoWrap(f) /\ extraPins[f] > 0 /\ loaded[f] # NoPage => loaded'[f] # NoPage]_vars
  <2> SUFFICES ASSUME TypeInv, VictimNotKept, Next, NEW f \in Frames, NoWrap(f),
                      extraPins[f] > 0, loaded[f] # NoPage, loaded'[f] = NoPage
               PROVE  FALSE
    OBVIOUS
  <2>1. PICK t \in Tasks : pc[t] = "clear" /\ victim[t] = f
    BY OnlyEvictClearEmpties DEF Next, TypeInv
  <2> QED BY <2>1 DEF VictimNotKept, Emptying
<1> QED
  BY <1>1, <1>2, TypeInvHolds, LatchesAreExclusive, PinsAreCounted, StepKeepsVictims, PTL
     DEF Spec, UnevictableStays

-----------------------------------------------------------------------------
(* The evictable flag.  A frame that is pinned after the step needs no     *)
(* flag, and a pinned frame is one that somebody holds: so only the steps  *)
(* that take a pin away have to leave the flag right.                      *)

FlagRight(f) ==
  \/ pin[f] # 0
  \/ flag[f] # "pinned"
  \/ \E t \in Tasks : frame[t] = f /\ pc[t] \in {"dropFlag", "dupFlag"}

FlagInv == \A f \in Frames : NoWrap(f) => FlagRight(f)

(* A held frame has a positive pin count. *)
LEMMA PinnedFrame ==
  ASSUME PinAccounting, NEW f \in Frames, NoWrap(f), NEW u \in Tasks,
         frame[u] = f, pc[u] \in PinLabels, extraPins \in [Frames -> Nat]
  PROVE  pin[f] # 0
<1>1. u \in Holders(f)
  BY DEF Holders
<1>2. IsFiniteSet(Holders(f)) /\ Cardinality(Holders(f)) \in Nat
  BY HoldersFinite
<1>3. Cardinality(Holders(f)) # 0
  BY <1>1, <1>2, FS_EmptySet
<1> QED BY <1>2, <1>3 DEF PinAccounting

(* A step of t that leaves the other frames than f alone, and is not the   *)
(* second half of decr_pin on one of them.                                 *)
FlagLocal(t, f) ==
  /\ extraPins' \in [Frames -> Nat]
  /\ \A g \in Frames \ {f} : pin'[g] = pin[g] /\ flag'[g] = flag[g] /\ extraPins'[g] = extraPins[g]
  /\ pc' = [pc EXCEPT ![t] = pc'[t]]
  /\ frame' = [frame EXCEPT ![t] = frame'[t]]
  /\ pc[t] \in {"dropFlag", "dupFlag"} => frame[t] = f

LEMMA FlagElsewhere ==
  ASSUME TypeOK, FlagInv, NEW t \in Tasks, NEW f, FlagLocal(t, f),
         NEW g \in Frames, g # f, NoWrap(g)'
  PROVE  FlagRight(g)'
<1> USE DEF FlagLocal
<1>1. NoWrap(g)
  BY DEF NoWrap
<1>2. CASE \E u \in Tasks : frame[u] = g /\ pc[u] \in {"dropFlag", "dupFlag"}
  <2>1. PICK u \in Tasks : frame[u] = g /\ pc[u] \in {"dropFlag", "dupFlag"}
    BY <1>2
  <2>2. u # t
    BY <2>1
  <2> QED BY <2>1, <2>2 DEF FlagRight, TypeOK
<1> QED BY <1>1, <1>2 DEF FlagInv, FlagRight

(* A step that leaves pins and flags alone. *)
LEMMA FlagQuiet ==
  ASSUME TypeOK, FlagInv, NEW t \in Tasks, pin' = pin, flag' = flag, extraPins' = extraPins,
         pc' = [pc EXCEPT ![t] = pc'[t]], frame' = [frame EXCEPT ![t] = frame'[t]],
         pc[t] \notin {"dropFlag", "dupFlag"}
  PROVE  FlagInv'
<1> SUFFICES ASSUME NEW g \in Frames, NoWrap(g)' PROVE FlagRight(g)'
  BY DEF FlagInv
<1>1. g # NoFrame /\ FlagLocal(t, NoFrame)
  BY ConstantsAssumption DEF FlagLocal, TypeOK
<1> QED BY <1>1, FlagElsewhere

(* A step after which t holds frame f. *)
LEMMA FlagHeld ==
  ASSUME TypeOK, FlagInv, PinAccounting', NEW t \in Tasks, NEW f \in Frames, FlagLocal(t, f),
         pc'[t] \in PinLabels, frame'[t] = f
  PROVE  FlagInv'
<1> SUFFICES ASSUME NEW g \in Frames, NoWrap(g)' PROVE FlagRight(g)'
  BY DEF FlagInv
<1>1. CASE g = f
  <2>1. pin'[g] # 0
    <3>1. extraPins' \in [Frames -> Nat]
      BY DEF FlagLocal
    <3>2. t \in Holders(g)'
      BY <1>1 DEF Holders
    <3>3. IsFiniteSet(Holders(g)') /\ Cardinality(Holders(g)') \in Nat
      <4>1. Holders(g)' \subseteq Tasks
        BY DEF Holders
      <4> QED BY <4>1, ConstantsAssumption, FS_Subset, FS_CardinalityType
    <3>4. Cardinality(Holders(g)') # 0
      BY <3>2, <3>3, FS_EmptySet
    <3>5. pin'[g] = Cardinality(Holders(g)') + extraPins'[g]
      BY DEF PinAccounting
    <3> QED BY <3>1, <3>3, <3>4, <3>5
  <2> QED BY <2>1 DEF FlagRight
<1>2. CASE g # f
  BY <1>2, FlagElsewhere
<1> QED BY <1>1, <1>2

(* A step that gives t's pin of f back, and leaves the flag to t if the    *)
(* count becomes 0.                                                        *)
LEMMA FlagReleased ==
  ASSUME TypeOK, FlagInv, PinAccounting, NEW t \in Tasks, NEW f \in Frames, FlagLocal(t, f),
         pc[t] \in PinLabels, frame[t] = f, frame' = frame, extraPins' = extraPins,
         pin' = [pin EXCEPT ![f] = Decr(@)],
         pin[f] = 1 => pc'[t] \in {"dropFlag", "dupFlag"}
  PROVE  FlagInv'
<1> SUFFICES ASSUME NEW g \in Frames, NoWrap(g)' PROVE FlagRight(g)'
  BY DEF FlagInv
<1>1. CASE g = f
  <2>1. NoWrap(f) /\ extraPins \in [Frames -> Nat]
    BY <1>1 DEF NoWrap, TypeOK
  <2>2. pin[f] # 0
    BY <2>1, PinnedFrame
  <2>3. pin[f] \in Nat /\ pin'[f] = pin[f] - 1
    BY <2>2, ConstantsAssumption DEF TypeOK, Decr
  <2> QED BY <1>1, <2>2, <2>3 DEF FlagRight
<1>2. CASE g # f
  BY <1>2, FlagElsewhere
<1> QED BY <1>1, <1>2

(* A step after which the policy does not keep f pinned. *)
LEMMA FlagCleared ==
  ASSUME TypeOK, FlagInv, NEW t \in Tasks, NEW f \in Frames, FlagLocal(t, f),
         flag'[f] # "pinned"
  PROVE  FlagInv'
BY FlagElsewhere DEF FlagInv, FlagRight

LEMMA CallFlags ==
  ASSUME TypeOK, FlagInv, NEW t \in Tasks, Call(t) PROVE FlagInv'
<1>1. /\ pin' = pin /\ flag' = flag /\ extraPins' = extraPins /\ frame' = frame
      /\ pc' = [pc EXCEPT ![t] = pc'[t]] /\ pc[t] = "idle"
  BY DEF TypeOK, Call, StartFetch, StartNew, StartFlush, Goto, poolVars, policyVars, ghostVars
<1> QED BY <1>1, FlagQuiet DEF TypeOK

LEMMA FindFlags ==
  ASSUME TypeInv, FlagInv, PinAccounting, PinAccounting', NEW t \in Tasks, Find(t) PROVE FlagInv'
<1> USE DEF TypeInv
<1>0. /\ extraPins \in [Frames -> Nat] /\ pc \in [Tasks -> Labels]
      /\ frame \in [Tasks -> Frames \union {NoFrame}] /\ pin \in [Frames -> 0..(PinMod - 1)]
      /\ pc[t] \in FrameLabels => frame[t] \in Frames
  BY DEF TypeOK
<1>1. CASE LookupHit(t)
  <2>0. map[route[t]][page[t]] \in Frames
    <3>1. pc[t] = "lookup" /\ map[route[t]][page[t]] # NoFrame
      BY <1>1 DEF LookupHit
    <3>2. map \in [Routes -> [Pages -> Frames \union {NoFrame}]] /\ route[t] \in Routes /\ page[t] \in Pages
      BY <3>1 DEF TypeOK
    <3> QED BY <3>1, <3>2
  <2>1. /\ pc' = [pc EXCEPT ![t] = pc'[t]] /\ pc'[t] \in PinLabels /\ pc[t] = "lookup"
        /\ frame' = [frame EXCEPT ![t] = map[route[t]][page[t]]]
        /\ pin' = [pin EXCEPT ![map[route[t]][page[t]]] = Incr(@)]
        /\ flag' = flag /\ extraPins' = extraPins
    BY <1>0, <1>1 DEF LookupHit, Goto, PinLabels, policyVars, ghostVars
  <2>2. FlagLocal(t, map[route[t]][page[t]])
    BY <1>0, <2>0, <2>1 DEF FlagLocal
  <2> QED BY <1>0, <2>0, <2>1, <2>2, FlagHeld
<1>2. CASE LookupMiss(t) \/ PopVacant(t) \/ NoVacant(t) \/ LatchVacant(t) \/ Publish(t)
  <2>1. /\ pin' = pin /\ flag' = flag /\ extraPins' = extraPins
        /\ \E l \in Labels : pc' = [pc EXCEPT ![t] = l]
        /\ \E f \in Frames \union {NoFrame} : frame' = [frame EXCEPT ![t] = f]
        /\ pc[t] \notin {"dropFlag", "dupFlag"}
    BY <1>0, <1>2 DEF LookupMiss, PopVacant, NoVacant, LatchVacant, Publish, TypeOK, Goto, Labels,
       poolVars, policyVars, ghostVars
  <2> QED BY <1>0, <2>1, FlagQuiet
<1>3. CASE IncrPinFlag(t)
  <2>1. /\ frame[t] \in Frames /\ frame' = frame
        /\ pc' = [pc EXCEPT ![t] = pc'[t]] /\ pc'[t] \in PinLabels
        /\ pc[t] \in {"hitFlag", "vacantFlag", "dupHitFlag"}
        /\ pin' = pin /\ extraPins' = extraPins
        /\ flag' = [flag EXCEPT ![frame[t]] = "pinned"]
    BY <1>3 DEF IncrPinFlag, TypeOK, Goto, PinLabels, FrameLabels, poolVars, policyVars, ghostVars,
       Policy!SetEvictable
  <2>2. FlagLocal(t, frame[t])
    BY <1>0, <2>1 DEF FlagLocal, TypeOK
  <2> QED BY <2>1, <2>2, FlagHeld
<1>4. CASE PinVacant(t)
  <2>1. /\ frame[t] \in Frames /\ frame' = frame
        /\ pc' = [pc EXCEPT ![t] = pc'[t]] /\ pc'[t] \in PinLabels /\ pc[t] = "pinVacant"
        /\ pin' = [pin EXCEPT ![frame[t]] = Incr(@)] /\ extraPins' = extraPins /\ flag' = flag
    BY <1>4 DEF PinVacant, TypeOK, Goto, PinLabels, FrameLabels, policyVars, ghostVars
  <2>2. FlagLocal(t, frame[t])
    BY <1>0, <2>1 DEF FlagLocal
  <2> QED BY <2>1, <2>2, FlagHeld
<1>5. CASE DupUnpin(t)
  <2>1. /\ frame[t] \in Frames /\ frame' = frame
        /\ pc' = [pc EXCEPT ![t] = pc'[t]] /\ pc[t] = "recheck"
        /\ pin[frame[t]] = 1 => pc'[t] = "dupFlag"
        /\ pin' = [pin EXCEPT ![frame[t]] = Decr(@)] /\ extraPins' = extraPins /\ flag' = flag
    BY <1>5 DEF DupUnpin, TypeOK, Goto, FrameLabels, policyVars, ghostVars
  <2>2. FlagLocal(t, frame[t])
    BY <1>0, <2>1 DEF FlagLocal
  <2>3. pc[t] \in PinLabels
    BY <2>1 DEF PinLabels
  <2> QED BY <2>1, <2>2, <2>3, FlagReleased
<1>6. CASE DupPin(t)
  <2>0. map[route[t]][page[t]] \in Frames
    <3>1. pc[t] = "dupPin" /\ map[route[t]][page[t]] # NoFrame
      BY <1>6 DEF DupPin, DupInv
    <3>2. map \in [Routes -> [Pages -> Frames \union {NoFrame}]] /\ route[t] \in Routes /\ page[t] \in Pages
      BY <3>1 DEF TypeOK
    <3> QED BY <3>1, <3>2
  <2>1. /\ pc' = [pc EXCEPT ![t] = pc'[t]] /\ pc'[t] \in PinLabels /\ pc[t] = "dupPin"
        /\ frame' = [frame EXCEPT ![t] = map[route[t]][page[t]]]
        /\ pin' = [pin EXCEPT ![map[route[t]][page[t]]] = Incr(@)]
        /\ flag' = flag /\ extraPins' = extraPins
    BY <1>0, <1>6 DEF DupPin, Goto, PinLabels, policyVars, ghostVars
  <2>2. FlagLocal(t, map[route[t]][page[t]])
    BY <1>0, <2>0, <2>1 DEF FlagLocal
  <2> QED BY <1>0, <2>0, <2>1, <2>2, FlagHeld
<1> QED BY <1>1, <1>2, <1>3, <1>4, <1>5, <1>6 DEF Find

LEMMA LoadFlags ==
  ASSUME TypeOK, FlagInv, NEW t \in Tasks, Load(t) PROVE FlagInv'
<1>0. /\ extraPins \in [Frames -> Nat] /\ pc \in [Tasks -> Labels]
      /\ frame \in [Tasks -> Frames \union {NoFrame}]
      /\ pc[t] \in FrameLabels => frame[t] \in Frames
  BY DEF TypeOK
<1>1. CASE LoadPage(t) \/ InstallNew(t) \/ PublishOther(t)
  <2>1. /\ pin' = pin /\ flag' = flag /\ extraPins' = extraPins /\ frame' = frame
        /\ \E l \in Labels : pc' = [pc EXCEPT ![t] = l]
        /\ pc[t] \notin {"dropFlag", "dupFlag"}
    BY <1>1 DEF LoadPage, InstallNew, PublishOther, Goto, Labels, policyVars, ghostVars
  <2> QED BY <1>0, <2>1, FlagQuiet
<1>2. CASE LoadError(t)
  <2>1. /\ pc[t] = "load" /\ frame[t] \in Frames
        /\ pc' = [pc EXCEPT ![t] = "idle"] /\ frame' = [frame EXCEPT ![t] = NoFrame]
        /\ pin' = pin /\ flag' = flag /\ extraPins' = [extraPins EXCEPT ![frame[t]] = @ + 1]
    BY <1>0, <1>2 DEF LoadError, Return, FrameLabels, policyVars
  <2> SUFFICES ASSUME NEW g \in Frames, NoWrap(g)' PROVE FlagRight(g)'
    BY DEF FlagInv
  <2>2. NoWrap(g)
    <3>1. Cardinality(Tasks) \in Nat /\ PinMod \in Nat
      BY ConstantsAssumption, FS_CardinalityType
    <3>2. extraPins[g] \in Nat /\ extraPins'[g] \in Nat /\ extraPins[g] <= extraPins'[g]
      BY <1>0, <2>1
    <3> QED BY <3>1, <3>2 DEF NoWrap
  <2>3. FlagRight(g)
    BY <2>2 DEF FlagInv
  <2> QED BY <1>0, <2>1, <2>3 DEF FlagRight
<1> QED BY <1>1, <1>2 DEF Load

LEMMA GuardFlags ==
  ASSUME TypeOK, LatchInv, FlagInv, PinAccounting, PinAccounting', NEW t \in Tasks, Guard(t)
  PROVE  FlagInv'
<1>0. /\ extraPins \in [Frames -> Nat] /\ pc \in [Tasks -> Labels]
      /\ frame \in [Tasks -> Frames \union {NoFrame}] /\ pin \in [Frames -> 0..(PinMod - 1)]
      /\ flag \in [Frames -> {"untracked", "pinned", "evictable"}]
      /\ pc[t] \in FrameLabels => frame[t] \in Frames
  BY DEF TypeOK
<1>1. CASE AwaitRead(t)
  <2>1. /\ frame[t] \in Frames /\ frame' = frame
        /\ pc' = [pc EXCEPT ![t] = "hold"] /\ pc[t] = "await"
        /\ pin' = pin /\ extraPins' = extraPins
        /\ flag' = [flag EXCEPT ![frame[t]] = IF @ = "untracked" THEN "pinned" ELSE @]
    BY <1>0, <1>1 DEF AwaitRead, Goto, FrameLabels, policyVars, ghostVars, Policy!RecordAccess
  <2>2. FlagLocal(t, frame[t])
    BY <1>0, <2>1 DEF FlagLocal
  <2>3. pc'[t] \in PinLabels
    BY <1>0, <2>1 DEF PinLabels
  <2> QED BY <2>1, <2>2, <2>3, FlagHeld
<1>2. CASE KeepPinned(t)
  <2>1. /\ frame[t] \in Frames /\ frame' = frame
        /\ pc' = [pc EXCEPT ![t] = "drop"] /\ pc[t] = "hold"
        /\ pin' = [pin EXCEPT ![frame[t]] = Incr(@)]
        /\ extraPins' = [extraPins EXCEPT ![frame[t]] = @ + 1]
        /\ flag' = flag \/ flag' = [flag EXCEPT ![frame[t]] = "pinned"]
    BY <1>0, <1>2 DEF KeepPinned, Goto, FrameLabels, policyVars, ghostVars, Policy!SetEvictable
  <2>2. FlagLocal(t, frame[t])
    BY <1>0, <2>1 DEF FlagLocal
  <2>3. pc'[t] \in PinLabels
    BY <1>0, <2>1 DEF PinLabels
  <2> QED BY <2>1, <2>2, <2>3, FlagHeld
<1>3. CASE AwaitWrite(t) \/ WritePage(t) \/ Downgrade(t) \/ Unlatch(t)
  <2>1. /\ pin' = pin /\ flag' = flag /\ extraPins' = extraPins
        /\ pc[t] \notin {"dropFlag", "dupFlag"}
    BY <1>3 DEF AwaitWrite, WritePage, Downgrade, Unlatch, policyVars, ghostVars
  <2>2. /\ \E l \in Labels : pc' = [pc EXCEPT ![t] = l]
        /\ \E f \in Frames \union {NoFrame} : frame' = [frame EXCEPT ![t] = f]
    <3>1. CASE AwaitWrite(t) \/ WritePage(t) \/ Downgrade(t)
      BY <1>0, <3>1 DEF AwaitWrite, WritePage, Downgrade, Goto, Labels, callVars
    <3>2. CASE Unlatch(t)
      BY <3>2 DEF Unlatch, Return, Labels
    <3> QED BY <1>3, <3>1, <3>2
  <2> QED BY <1>0, <2>1, <2>2, FlagQuiet
<1>4. CASE DropPin(t)
  <2>1. /\ frame[t] \in Frames /\ frame' = frame
        /\ pc' = [pc EXCEPT ![t] = pc'[t]] /\ pc[t] \in {"hold", "drop"}
        /\ pin[frame[t]] = 1 => pc'[t] = "dropFlag"
        /\ pin' = [pin EXCEPT ![frame[t]] = Decr(@)] /\ extraPins' = extraPins /\ flag' = flag
    BY <1>0, <1>4 DEF DropPin, Goto, FrameLabels, policyVars, ghostVars
  <2>2. FlagLocal(t, frame[t])
    BY <1>0, <2>1 DEF FlagLocal
  <2>3. pc[t] \in PinLabels
    BY <2>1 DEF PinLabels
  <2> QED BY <2>1, <2>2, <2>3, FlagReleased
<1>5. CASE DecrPinFlag(t)
  <2>1. /\ frame[t] \in Frames /\ frame' = frame
        /\ pc' = [pc EXCEPT ![t] = pc'[t]]
        /\ pin' = pin /\ extraPins' = extraPins
        /\ flag' = [flag EXCEPT ![frame[t]] = "evictable"]
    BY <1>0, <1>5 DEF DecrPinFlag, Goto, FrameLabels, poolVars, ghostVars, Policy!SetEvictable
  <2>2. FlagLocal(t, frame[t])
    BY <1>0, <2>1 DEF FlagLocal
  <2>3. flag'[frame[t]] # "pinned"
    BY <1>0, <2>1
  <2> QED BY <2>1, <2>2, <2>3, FlagCleared
<1> QED BY <1>1, <1>2, <1>3, <1>4, <1>5 DEF Guard

LEMMA EvictFlags ==
  ASSUME TypeOK, FlagInv, NEW t \in Tasks, Evict(t) PROVE FlagInv'
<1>0. /\ extraPins \in [Frames -> Nat] /\ pc \in [Tasks -> Labels]
      /\ frame \in [Tasks -> Frames \union {NoFrame}]
      /\ flag \in [Frames -> {"untracked", "pinned", "evictable"}]
      /\ pc[t] \in VictimLabels => victim[t] \in Frames
  BY DEF TypeOK
<1>1. CASE EvictClear(t)
  <2>1. /\ victim[t] \in Frames /\ frame' = frame
        /\ pc' = [pc EXCEPT ![t] = pc'[t]] /\ pc[t] = "clear"
        /\ pin' = pin /\ extraPins' = extraPins
        /\ flag' = [flag EXCEPT ![victim[t]] = "untracked"]
    BY <1>0, <1>1 DEF EvictClear, Resume, Goto, VictimLabels, Policy!RemoveFrame
  <2>2. FlagLocal(t, victim[t])
    BY <1>0, <2>1 DEF FlagLocal
  <2>3. flag'[victim[t]] # "pinned"
    BY <1>0, <2>1
  <2> QED BY <2>1, <2>2, <2>3, FlagCleared
<1>2. CASE NoVictimFound(t) \/ WriteBackError(t)
  <2>1. /\ pin' = pin /\ flag' = flag /\ extraPins' = extraPins
        /\ pc[t] \notin {"dropFlag", "dupFlag"}
        /\ pc' = [pc EXCEPT ![t] = "idle"] /\ frame' = [frame EXCEPT ![t] = NoFrame]
    BY <1>2 DEF NoVictimFound, WriteBackError, Return, poolVars, policyVars, ghostVars
  <2> QED BY <1>0, <2>1, FlagQuiet
<1>3. CASE \/ FindVictim(t) \/ EvictPinned(t) \/ EvictVacant(t) \/ EvictLoaded(t) \/ WriteBack(t)
           \/ UnmapLogical(t) \/ UnmapPhysical(t)
  <2>1. /\ pin' = pin /\ flag' = flag /\ extraPins' = extraPins /\ frame' = frame
        /\ pc[t] \notin {"dropFlag", "dupFlag"}
        /\ \E l \in Labels : pc' = [pc EXCEPT ![t] = l]
    BY <1>3 DEF FindVictim, EvictPinned, EvictVacant, EvictLoaded, WriteBack, UnmapLogical,
       UnmapPhysical, Unmap, Resume, Goto, Labels, poolVars, policyVars, ghostVars
  <2> QED BY <1>0, <2>1, FlagQuiet
<1> QED BY <1>1, <1>2, <1>3 DEF Evict

LEMMA FlushFlags ==
  ASSUME TypeOK, FlagInv, NEW t \in Tasks, Flush(t) PROVE FlagInv'
<1>0. pc \in [Tasks -> Labels] /\ frame \in [Tasks -> Frames \union {NoFrame}]
  BY DEF TypeOK
<1>1. /\ pin' = pin /\ flag' = flag /\ extraPins' = extraPins
      /\ pc[t] \notin {"dropFlag", "dupFlag"}
  BY DEF Flush, FlushSkip, FlushLatch, FlushWrite, FlushError, FlushDone, poolVars, policyVars,
     ghostVars
<1>2. /\ \E l \in Labels : pc' = [pc EXCEPT ![t] = l]
      /\ \E f \in Frames \union {NoFrame} : frame' = [frame EXCEPT ![t] = f]
  <2>1. CASE FlushSkip(t)
    BY <1>0, <2>1 DEF FlushSkip, Goto, Labels
  <2>2. CASE FlushLatch(t)
    BY <1>0, <2>2 DEF FlushLatch, Goto, Labels
  <2>3. CASE FlushWrite(t)
    BY <1>0, <2>3 DEF FlushWrite, Goto, Labels
  <2>4. CASE FlushError(t) \/ FlushDone(t)
    BY <2>4 DEF FlushError, FlushDone, Return, Labels
  <2> QED BY <2>1, <2>2, <2>3, <2>4 DEF Flush
<1> QED BY <1>0, <1>1, <1>2, FlagQuiet

LEMMA StepKeepsFlags ==
  TypeInv /\ LatchInv /\ PinAccounting /\ FlagInv /\ [Next]_vars => FlagInv'
<1> SUFFICES ASSUME TypeInv, LatchInv, PinAccounting, FlagInv, [Next]_vars PROVE FlagInv'
  OBVIOUS
<1>1. PinAccounting' /\ TypeOK
  BY StepKeepsPins DEF TypeInv
<1>2. CASE UNCHANGED vars
  BY <1>2 DEF FlagInv, FlagRight, NoWrap, vars, poolVars, policyVars, ghostVars
<1> QED BY <1>1, <1>2, CallFlags, FindFlags, LoadFlags, GuardFlags, EvictFlags, FlushFlags DEF Next

(* No frame is lost to the eviction policy: in every state in which the u8 *)
(* counters have room for the pins, an unpinned frame the policy tracks is *)
(* evictable, or the call that will make it so is on its way, although     *)
(* incr_pin and decr_pin change the count and the flag in two steps.       *)
THEOREM UnpinnedFramesCanGo ==
  Spec => []((\A f \in Frames : NoWrap(f)) => UnpinnedIsEvictable)
<1>1. Init => FlagInv
  BY DEF Init, FlagInv, FlagRight
<1>2. FlagInv => ((\A f \in Frames : NoWrap(f)) => UnpinnedIsEvictable)
  BY DEF FlagInv, FlagRight, UnpinnedIsEvictable
<1> QED BY <1>1, <1>2, LatchInvHolds, TypeInvHolds, PinsAreCounted, StepKeepsFlags, PTL DEF Spec

-----------------------------------------------------------------------------
(***************************************************************************)
(* Who owns a frame of the buffer pool: the inductive invariants behind    *)
(* the properties of BufferPool that hold as long as the state is Clean:   *)
(* no eviction has released a frame in use, no load has failed, no page    *)
(* was loaded under another page's id, no u8 pin counter can have wrapped. *)
(***************************************************************************)

(* A call that fills a frame it took from the vacant list, one that found  *)
(* its frame in a map and waits for it, and one that uses a loaded frame.  *)
Taking  == {"pinVacant", "vacantFlag", "latchVacant", "recheck", "dupFlag", "dupPin",
            "load", "install"}
Hitting == {"hitFlag", "dupHitFlag", "await"}
Using   == {"publish", "hold", "drop", "dropFlag", "unlatch", "flushWrite"}

(* Frame f has page p, or is about to have it. *)
Loading(f, p) == \E u \in Tasks : pc[u] = "load" /\ frame[u] = f /\ page[u] = p
Carries(f, p) == loaded[f] = p \/ Loading(f, p)

FrameScope == \A t \in Tasks : pc[t] \notin FrameLabels => frame[t] = NoFrame

VacantFree ==
  \A f \in vacant :
    /\ loaded[f] = NoPage
    /\ \A r \in Routes, p \in Pages : map[r][p] # f
    /\ \A t \in Tasks : frame[t] # f

MapCarries ==
  \A r \in Routes, p \in Pages : map[r][p] # NoFrame => Carries(map[r][p], p)

(* A frame that is being filled has one owner.  Only when it is published, *)
(* and only for the page it is filled with, others find it.                *)
TakenEmpty == \A t \in Tasks : pc[t] \in Taking => loaded[frame[t]] = NoPage /\ frame[t] \notin vacant
TakenUnmapped ==
  \A t \in Tasks, r \in Routes, p \in Pages :
    pc[t] \in Taking /\ map[r][p] = frame[t] => pc[t] = "load" /\ p = page[t]
TakenOwned ==
  \A t, u \in Tasks :
    pc[t] \in Taking /\ u # t /\ frame[u] = frame[t]
      => pc[t] = "load" /\ pc[u] \in Hitting /\ page[u] = page[t]

HitCarries == \A t \in Tasks : pc[t] \in Hitting => Carries(frame[t], page[t])
UseLoaded  == \A t \in Tasks : pc[t] \in Using => loaded[frame[t]] = page[t]

(* An eviction past its checks works on a loaded frame, and the entries it *)
(* has removed do not come back.                                           *)
Unmapped(t) ==
  (IF pc[t] \in {"unmapPhysical", "clear"} THEN {"logical"} ELSE {})
    \union (IF pc[t] = "clear" THEN {"physical"} ELSE {})
EmptyingLoaded == \A t \in Tasks : pc[t] \in Emptying => loaded[victim[t]] # NoPage
EmptyingUnmapped ==
  \A t \in Tasks : \A r \in Unmapped(t), p \in Pages : map[r][p] # victim[t]

ContentNamesPage ==
  /\ \A f \in Frames : loaded[f] # NoPage => buf[f].page = loaded[f]
  /\ \A p \in Pages : disk[p] # NoContent => disk[p].page = p

OwnInv ==
  /\ FrameScope /\ VacantFree /\ MapCarries
  /\ TakenEmpty /\ TakenUnmapped /\ TakenOwned
  /\ HitCarries /\ UseLoaded
  /\ EmptyingLoaded /\ EmptyingUnmapped
  /\ ContentNamesPage

CleanOwnInv == Clean => OwnInv

(* Until a page is loaded under another page's id, every loaded frame has  *)
(* its own page's id, so the entries that publishing and eviction write to *)
(* the two maps are about one page.                                        *)
NamesAgree == misnamed \/ named = loaded

-----------------------------------------------------------------------------
(* The one copy of a page, when callers fetch every page by one route. *)

RoutesApart == ByLogical \intersect ByLocation = {}

(* The map through which a page is found. *)
Home(p) == IF p \in ByLocation THEN "physical" ELSE "logical"

(* new_page until its page is known to other callers. *)
Creating(t) ==
  kind[t] = "new" /\ pc[t] \notin {"idle", "hold", "drop", "dropFlag", "unlatch"}
(* The labels new_page goes through until then, and the labels of a call   *)
(* that asks for its page, or has not yet finished loading it.             *)
NewLabels ==
  {"pop", "pinVacant", "vacantFlag", "latchVacant", "install", "publish",
   "findVictim", "latchVictim"} \union Emptying
Asking == Labels \ {"idle", "flush", "flushWrite", "hold", "drop", "dropFlag", "unlatch"}

KnownReserved == known \subseteq reserved
Scope(t) ==
  /\ pc[t] \in {"idle", "flush"} => page[t] = NoPage
  /\ page[t] # NoPage => page[t] \in reserved
  /\ Creating(t) => pc[t] \in NewLabels /\ page[t] \notin known
  /\ pc[t] = "install" => Creating(t)
  /\ ~Creating(t) /\ page[t] # NoPage => page[t] \in known
  /\ pc[t] \in Asking /\ ~Creating(t) => route[t] = Home(page[t])
PageScope == \A t \in Tasks : Scope(t)
CreatingAlone == \A t, u \in Tasks : Creating(t) /\ Creating(u) /\ page[t] = page[u] => t = u

(* A page that nobody can ask for yet. *)
Installed(f, p) ==
  \E t \in Tasks : Creating(t) /\ pc[t] = "publish" /\ frame[t] = f /\ page[t] = p
UnknownPage ==
  \A p \in Pages \ known :
    /\ latest[p] = 0
    /\ disk[p] = NoContent
    /\ \A f \in Frames : loaded[f] = p => Installed(f, p)
    /\ \A r \in Routes, f \in Frames : map[r][p] = f => r = "logical" /\ Installed(f, p)

(* Every loaded copy of a page but the one its map leads to is on its way out. *)
Leaving(f, p) == \E t \in Tasks : victim[t] = f /\ Home(p) \in Unmapped(t)
OneCopy ==
  \A f \in Frames, p \in Pages :
    loaded[f] = p => \/ map[Home(p)][p] = f
                     \/ Leaving(f, p)
                     \/ Home(p) = "physical" /\ Installed(f, p)
LoadHome == \A t \in Tasks : pc[t] = "load" => map[route[t]][page[t]] = frame[t]

Latest(p) == [page |-> p, ver |-> latest[p]]

(* The copy that counts is the latest version; what is not marked dirty,   *)
(* or has been written back, is the latest version on disk too.            *)
HomeLoaded(p) == map[Home(p)][p] # NoFrame /\ loaded[map[Home(p)][p]] = p
CopyIsLatest ==
  \A p \in Pages :
    IF HomeLoaded(p)
      THEN /\ buf[map[Home(p)][p]] = Latest(p)
           /\ map[Home(p)][p] \notin dirty => DiskContent(p) = Latest(p)
      ELSE DiskContent(p) = Latest(p)
WrittenBack ==
  \A t \in Tasks, p \in Pages :
    /\ pc[t] \in {"unmapLogical", "unmapPhysical"}
    /\ loaded[victim[t]] = p /\ map[Home(p)][p] = victim[t]
    => DiskContent(p) = Latest(p)
FreshIsLatest ==
  \A t \in Tasks, p \in Pages :
    pc[t] = "publish" /\ page[t] = p => buf[frame[t]] = Latest(p)

CopyInv ==
  /\ KnownReserved /\ PageScope /\ CreatingAlone /\ UnknownPage
  /\ OneCopy /\ LoadHome
  /\ CopyIsLatest /\ WrittenBack /\ FreshIsLatest

CleanCopyInv == Clean => CopyInv

-----------------------------------------------------------------------------
(* Proof of CleanOwnInv *)

(* The types the steps below need. *)
Types ==
  /\ map \in [Routes -> [Pages -> Frames \union {NoFrame}]]
  /\ loaded \in [Frames -> Pages \union {NoPage}]
  /\ vacant \subseteq Frames
  /\ pc \in [Tasks -> Labels]
  /\ page \in [Tasks -> Pages \union {NoPage}]
  /\ frame \in [Tasks -> Frames \union {NoFrame}]
  /\ victim \in [Tasks -> Frames \union {NoFrame}]
  /\ NoFrame \notin Frames /\ NoPage \notin Pages
  /\ \A t \in Tasks : /\ pc[t] \in FrameLabels => frame[t] \in Frames
                      /\ pc[t] \in VictimLabels => victim[t] \in Frames
                      /\ pc[t] \notin {"idle", "flush"} => page[t] \in Pages

LEMMA TypesHold == TypeOK => Types
BY ConstantsAssumption DEF TypeOK, Types

(* A step of t that leaves the frames, the maps and the storage alone: t   *)
(* goes on with its frame in the same role, or lets go of it.              *)
OwnQuiet(t) ==
  /\ map' = map /\ loaded' = loaded /\ vacant' = vacant /\ buf' = buf /\ disk' = disk
  /\ pc' = [pc EXCEPT ![t] = pc'[t]]
  /\ frame' = [frame EXCEPT ![t] = frame'[t]]
  /\ page' = [page EXCEPT ![t] = page'[t]]
  /\ victim' = [victim EXCEPT ![t] = victim'[t]]
  /\ pc[t] # "load" /\ pc'[t] # "load" /\ pc'[t] \notin Emptying
  /\ \/ pc'[t] \notin FrameLabels /\ frame'[t] = NoFrame
     \/ /\ frame'[t] = frame[t] /\ page'[t] = page[t]
        /\ \/ pc[t] \in Taking /\ pc'[t] \in Taking
           \/ pc[t] \in Hitting /\ pc'[t] \in Hitting
           \/ pc[t] \in Using /\ pc'[t] \in Using

LEMMA QuietOwns ==
  ASSUME Types, OwnInv, NEW t \in Tasks, OwnQuiet(t) PROVE OwnInv'
<1> USE DEF OwnInv, OwnQuiet, Types
<1>0. FrameLabels = Taking \union Hitting \union Using
  BY DEF FrameLabels, Taking, Hitting, Using
<1>a. \A f, p : Loading(f, p) => Loading(f, p)'
  BY DEF Loading
<1>1. FrameScope'
  BY <1>0 DEF FrameScope
<1>2. VacantFree'
  BY DEF VacantFree
<1>3. MapCarries'
  BY <1>a DEF MapCarries, Carries
<1>4. TakenEmpty'
  BY <1>0 DEF TakenEmpty, Taking, Hitting, Using
<1>5. TakenUnmapped'
  BY <1>0 DEF TakenUnmapped, Taking, Hitting, Using
<1>6. TakenOwned'
  BY <1>0 DEF TakenOwned, Taking, Hitting, Using
<1>7. HitCarries'
  BY <1>0, <1>a DEF HitCarries, Carries, Taking, Hitting, Using
<1>8. UseLoaded'
  BY <1>0 DEF UseLoaded, Taking, Hitting, Using
<1>9. EmptyingLoaded' /\ EmptyingUnmapped'
  BY DEF EmptyingLoaded, EmptyingUnmapped, Unmapped, Emptying
<1>10. ContentNamesPage'
  BY DEF ContentNamesPage
<1> QED BY <1>1, <1>2, <1>3, <1>4, <1>5, <1>6, <1>7, <1>8, <1>9, <1>10

(* A frame that is not in use and that nobody else has latched is nobody's. *)
LEMMA NobodysFrame ==
  ASSUME TypeOK, OwnInv, LatchInv, PinAccounting, NEW v \in Frames, NoWrap(v), ~InUse(v),
         NEW t \in Tasks, pc[t] \notin FrameLabels,
         readers[v] = {}, writer[v] \in {t, NoTask}
  PROVE  \A u \in Tasks : frame[u] # v
<1> SUFFICES ASSUME NEW u \in Tasks, frame[u] = v PROVE FALSE
  OBVIOUS
<1>1. pc[u] \in FrameLabels /\ u # t
  BY ConstantsAssumption DEF OwnInv, FrameScope
<1>2. pc[u] \notin PinLabels /\ pc[u] # "pinVacant"
  BY PinnedFrame DEF InUse, TypeOK
<1>3. pc[u] \in {"dupFlag", "dupPin", "dropFlag", "unlatch", "flushWrite"}
  BY <1>1, <1>2 DEF FrameLabels, PinLabels
<1>4. kind[u] \in {"read", "keep", "write", "new"} \/ pc[u] = "flushWrite"
  BY <1>3 DEF LatchInv, KindInv, TypeOK, Kinds
<1>5. HoldsWrite(u, v) \/ HoldsRead(u, v)
  BY <1>3, <1>4 DEF HoldsWrite, HoldsRead
<1> QED BY <1>1, <1>5, ConstantsAssumption DEF LatchInv, LatchProtocol

LEMMA LookupHitOwns ==
  ASSUME Types, OwnInv, route \in [Tasks -> Routes], NEW t \in Tasks, LookupHit(t) PROVE OwnInv'
<1> USE DEF OwnInv, Types
<1>e. /\ pc[t] = "lookup"
      /\ map[route[t]][page[t]] \in Frames /\ page[t] \in Pages /\ route[t] \in Routes
      /\ frame' = [frame EXCEPT ![t] = map[route[t]][page[t]]]
      /\ pc' = [pc EXCEPT ![t] = pc'[t]] /\ pc'[t] \in {"hitFlag", "await"}
      /\ map' = map
      /\ loaded' = loaded
      /\ vacant' = vacant
      /\ buf' = buf
      /\ disk' = disk
      /\ page' = page
      /\ victim' = victim
  BY DEF LookupHit, Goto, diskVars, callVars, Labels
<1>f. Carries(map[route[t]][page[t]], page[t])
  BY <1>e DEF MapCarries
<1>g. \A u \in Tasks : pc[u] \in Taking /\ frame[u] = map[route[t]][page[t]]
                         => pc[u] = "load" /\ page[u] = page[t]
  BY <1>e DEF TakenUnmapped
<1>1. FrameScope'
  BY <1>e, <1>f, <1>g DEF FrameScope, FrameLabels
<1>2. VacantFree'
  BY <1>e, <1>f, <1>g DEF VacantFree
<1>3. MapCarries'
  BY <1>e, <1>f, <1>g DEF MapCarries, Carries, Loading
<1>4. TakenEmpty'
  BY <1>e, <1>f, <1>g DEF TakenEmpty, Taking
<1>5. TakenUnmapped'
  BY <1>e, <1>f, <1>g DEF TakenUnmapped, Taking
<1>6. TakenOwned'
  BY <1>e, <1>f, <1>g DEF TakenOwned, Taking, Hitting
<1>7. HitCarries'
  <2> DEFINE Soon(f, p) == \E w \in Tasks : pc'[w] = "load" /\ frame'[w] = f /\ page'[w] = p
  <2> SUFFICES ASSUME NEW u \in Tasks, pc'[u] \in Hitting
               PROVE  loaded[frame'[u]] = page[u] \/ Soon(frame'[u], page[u])
    BY <1>e DEF HitCarries, Carries, Loading
  <2>1. \A f, p : Loading(f, p) => Soon(f, p)
    BY <1>e DEF Loading
  <2>2. CASE u = t
    BY <1>e, <1>f, <2>1, <2>2 DEF Carries
  <2>3. CASE u # t
    BY <1>e, <2>1, <2>3 DEF HitCarries, Carries
  <2> QED BY <2>2, <2>3
<1>8. UseLoaded'
  BY <1>e, <1>f, <1>g DEF UseLoaded, Using
<1>9. EmptyingLoaded'
  BY <1>e, <1>f, <1>g DEF EmptyingLoaded, Emptying
<1>10. EmptyingUnmapped'
  BY <1>e, <1>f, <1>g DEF EmptyingUnmapped, Unmapped
<1>11. ContentNamesPage'
  BY <1>e, <1>f, <1>g DEF ContentNamesPage
<1> QED BY <1>1, <1>2, <1>3, <1>4, <1>5, <1>6, <1>7, <1>8, <1>9, <1>10, <1>11

LEMMA PopVacantOwns ==
  ASSUME Types, OwnInv, NEW t \in Tasks, PopVacant(t) PROVE OwnInv'
<1> USE DEF OwnInv, Types
<1>e. /\ pc[t] = "pop"
      /\ \E f \in vacant : vacant' = vacant \ {f} /\ frame' = [frame EXCEPT ![t] = f]
      /\ pc' = [pc EXCEPT ![t] = "pinVacant"]
      /\ map' = map
      /\ loaded' = loaded
      /\ buf' = buf
      /\ disk' = disk
      /\ page' = page
      /\ victim' = victim
  BY DEF PopVacant, Goto, diskVars, callVars
<1>f. /\ frame'[t] \in vacant /\ vacant' = vacant \ {frame'[t]}
      /\ frame' = [frame EXCEPT ![t] = frame'[t]]
  BY <1>e
<1>g. /\ loaded[frame'[t]] = NoPage
      /\ \A r \in Routes, p \in Pages : map[r][p] # frame'[t]
      /\ \A u \in Tasks : frame[u] # frame'[t]
  BY <1>f DEF VacantFree
<1>1. FrameScope'
  BY <1>e, <1>f, <1>g DEF FrameScope, FrameLabels
<1>2. VacantFree'
  BY <1>e, <1>f, <1>g DEF VacantFree
<1>3. MapCarries'
  BY <1>e, <1>f, <1>g DEF MapCarries, Carries, Loading
<1>4. TakenEmpty'
  BY <1>e, <1>f, <1>g DEF TakenEmpty, Taking
<1>5. TakenUnmapped'
  BY <1>e, <1>f, <1>g DEF TakenUnmapped, Taking
<1>6. TakenOwned'
  BY <1>e, <1>f, <1>g DEF TakenOwned, Taking, Hitting
<1>7. HitCarries'
  BY <1>e, <1>f, <1>g DEF HitCarries, Hitting, Carries, Loading
<1>8. UseLoaded'
  BY <1>e, <1>f, <1>g DEF UseLoaded, Using
<1>9. EmptyingLoaded'
  BY <1>e, <1>f, <1>g DEF EmptyingLoaded, Emptying
<1>10. EmptyingUnmapped'
  BY <1>e, <1>f, <1>g DEF EmptyingUnmapped, Unmapped
<1>11. ContentNamesPage'
  BY <1>e, <1>f, <1>g DEF ContentNamesPage
<1> QED BY <1>1, <1>2, <1>3, <1>4, <1>5, <1>6, <1>7, <1>8, <1>9, <1>10, <1>11

LEMMA PublishOwns ==
  ASSUME Types, OwnInv, route \in [Tasks -> Routes], NEW t \in Tasks, Publish(t) PROVE OwnInv'
<1> USE DEF OwnInv, Types
<1>e. /\ pc[t] = "recheck" /\ frame[t] \in Frames /\ page[t] \in Pages /\ route[t] \in Routes
      /\ map' = [map EXCEPT ![route[t]][page[t]] = frame[t]]
      /\ pc' = [pc EXCEPT ![t] = "load"]
      /\ loaded' = loaded
      /\ vacant' = vacant
      /\ buf' = buf
      /\ disk' = disk
      /\ page' = page
      /\ frame' = frame
      /\ victim' = victim
  BY DEF Publish, Goto, diskVars, callVars, FrameLabels
<1>f. /\ loaded[frame[t]] = NoPage
      /\ \A r \in Routes, p \in Pages : map[r][p] # frame[t]
      /\ \A u \in Tasks : u # t => frame[u] # frame[t]
  BY <1>e DEF TakenEmpty, TakenUnmapped, TakenOwned, Taking
<1>g. \A u \in Tasks : pc[u] \in Emptying => victim[u] # frame[t]
  BY <1>f DEF EmptyingLoaded
<1>1. FrameScope'
  BY <1>e, <1>f, <1>g DEF FrameScope, FrameLabels
<1>2. VacantFree'
  BY <1>e, <1>f, <1>g DEF VacantFree
<1>3. MapCarries'
  BY <1>e, <1>f, <1>g DEF MapCarries, Carries, Loading
<1>4. TakenEmpty'
  BY <1>e, <1>f, <1>g DEF TakenEmpty, Taking
<1>5. TakenUnmapped'
  BY <1>e, <1>f, <1>g DEF TakenUnmapped, Taking
<1>6. TakenOwned'
  BY <1>e, <1>f, <1>g DEF TakenOwned, Taking, Hitting
<1>7. HitCarries'
  BY <1>e, <1>f, <1>g DEF HitCarries, Hitting, Carries, Loading
<1>8. UseLoaded'
  BY <1>e, <1>f, <1>g DEF UseLoaded, Using
<1>9. EmptyingLoaded'
  BY <1>e, <1>f, <1>g DEF EmptyingLoaded, Emptying
<1>10. EmptyingUnmapped'
  BY <1>e, <1>f, <1>g DEF EmptyingUnmapped, Unmapped, Emptying
<1>11. ContentNamesPage'
  BY <1>e, <1>f, <1>g DEF ContentNamesPage
<1> QED BY <1>1, <1>2, <1>3, <1>4, <1>5, <1>6, <1>7, <1>8, <1>9, <1>10, <1>11

LEMMA DupPinOwns ==
  ASSUME Types, OwnInv, DupInv, route \in [Tasks -> Routes], NEW t \in Tasks, DupPin(t) PROVE OwnInv'
<1> USE DEF OwnInv, Types
<1>e. /\ pc[t] = "dupPin" /\ frame[t] \in Frames
      /\ map[route[t]][page[t]] \in Frames /\ page[t] \in Pages /\ route[t] \in Routes
      /\ vacant' = vacant \union {frame[t]}
      /\ frame' = [frame EXCEPT ![t] = map[route[t]][page[t]]]
      /\ pc' = [pc EXCEPT ![t] = pc'[t]] /\ pc'[t] \in {"dupHitFlag", "await"}
      /\ map' = map
      /\ loaded' = loaded
      /\ buf' = buf
      /\ disk' = disk
      /\ page' = page
      /\ victim' = victim
  BY DEF DupPin, DupInv, Goto, diskVars, callVars, FrameLabels
<1>f. /\ loaded[frame[t]] = NoPage
      /\ \A r \in Routes, p \in Pages : map[r][p] # frame[t]
      /\ \A u \in Tasks : u # t => frame[u] # frame[t]
  BY <1>e DEF TakenEmpty, TakenUnmapped, TakenOwned, Taking
<1>g. Carries(map[route[t]][page[t]], page[t])
  BY <1>e DEF MapCarries
<1>h. \A u \in Tasks : pc[u] \in Taking /\ u # t /\ frame[u] = map[route[t]][page[t]]
                         => pc[u] = "load" /\ page[u] = page[t]
  BY <1>e DEF TakenUnmapped
<1>1. FrameScope'
  BY <1>e, <1>f, <1>g, <1>h DEF FrameScope, FrameLabels
<1>2. VacantFree'
  BY <1>e, <1>f, <1>g, <1>h DEF VacantFree
<1>3. MapCarries'
  BY <1>e, <1>f, <1>g, <1>h DEF MapCarries, Carries, Loading
<1>4. TakenEmpty'
  BY <1>e, <1>f, <1>g, <1>h DEF TakenEmpty, Taking
<1>5. TakenUnmapped'
  BY <1>e, <1>f, <1>g, <1>h DEF TakenUnmapped, Taking
<1>6. TakenOwned'
  BY <1>e, <1>f, <1>g, <1>h DEF TakenOwned, Taking, Hitting
<1>7. HitCarries'
  <2> DEFINE Soon(f, p) == \E w \in Tasks : pc'[w] = "load" /\ frame'[w] = f /\ page'[w] = p
  <2> SUFFICES ASSUME NEW u \in Tasks, pc'[u] \in Hitting
               PROVE  loaded[frame'[u]] = page[u] \/ Soon(frame'[u], page[u])
    BY <1>e DEF HitCarries, Carries, Loading
  <2>1. \A f, p : Loading(f, p) => Soon(f, p)
    BY <1>e DEF Loading
  <2>2. CASE u = t
    BY <1>e, <1>g, <2>1, <2>2 DEF Carries
  <2>3. CASE u # t
    BY <1>e, <2>1, <2>3 DEF HitCarries, Carries
  <2> QED BY <2>2, <2>3
<1>8. UseLoaded'
  BY <1>e, <1>f, <1>g, <1>h DEF UseLoaded, Using
<1>9. EmptyingLoaded'
  BY <1>e, <1>f, <1>g, <1>h DEF EmptyingLoaded, Emptying
<1>10. EmptyingUnmapped'
  BY <1>e, <1>f, <1>g, <1>h DEF EmptyingUnmapped, Unmapped
<1>11. ContentNamesPage'
  BY <1>e, <1>f, <1>g, <1>h DEF ContentNamesPage
<1> QED BY <1>1, <1>2, <1>3, <1>4, <1>5, <1>6, <1>7, <1>8, <1>9, <1>10, <1>11

LEMMA LoadPageOwns ==
  ASSUME Types, OwnInv, buf \in [Frames -> Content \union {NoContent}], NEW t \in Tasks, LoadPage(t) PROVE OwnInv'
<1> USE DEF OwnInv, Types
<1>e. /\ pc[t] = "load" /\ frame[t] \in Frames /\ page[t] \in Pages
      /\ buf' = [buf EXCEPT ![frame[t]] = DiskContent(page[t])]
      /\ loaded' = [loaded EXCEPT ![frame[t]] = page[t]]
      /\ pc' = [pc EXCEPT ![t] = "publish"]
      /\ map' = map
      /\ vacant' = vacant
      /\ disk' = disk
      /\ page' = page
      /\ frame' = frame
      /\ victim' = victim
  BY DEF LoadPage, Goto, diskVars, callVars, FrameLabels
<1>f. /\ loaded[frame[t]] = NoPage
      /\ \A u \in Tasks : u # t /\ frame[u] = frame[t] => pc[u] \in Hitting
  BY <1>e DEF TakenEmpty, TakenOwned, Taking
<1>1. FrameScope'
  BY <1>e, <1>f DEF FrameScope, FrameLabels
<1>2. VacantFree'
  BY <1>e, <1>f DEF VacantFree
<1>3. MapCarries'
  BY <1>e, <1>f DEF MapCarries, Carries, Loading
<1>4. TakenEmpty'
  BY <1>e, <1>f DEF TakenEmpty, Taking, Hitting
<1>5. TakenUnmapped'
  BY <1>e, <1>f DEF TakenUnmapped, Taking
<1>6. TakenOwned'
  BY <1>e, <1>f DEF TakenOwned, Taking, Hitting
<1>7. HitCarries'
  BY <1>e, <1>f DEF HitCarries, Hitting, Carries, Loading
<1>8. UseLoaded'
  BY <1>e, <1>f DEF UseLoaded, Using, Hitting
<1>9. EmptyingLoaded'
  BY <1>e, <1>f DEF EmptyingLoaded, Emptying
<1>10. EmptyingUnmapped'
  BY <1>e, <1>f DEF EmptyingUnmapped, Unmapped
<1>11. ContentNamesPage'
  BY <1>e, <1>f DEF ContentNamesPage, DiskContent
<1> QED BY <1>1, <1>2, <1>3, <1>4, <1>5, <1>6, <1>7, <1>8, <1>9, <1>10, <1>11

LEMMA InstallNewOwns ==
  ASSUME Types, OwnInv, buf \in [Frames -> Content \union {NoContent}], NEW t \in Tasks, InstallNew(t) PROVE OwnInv'
<1> USE DEF OwnInv, Types
<1>e. /\ pc[t] = "install" /\ frame[t] \in Frames /\ page[t] \in Pages
      /\ buf' = [buf EXCEPT ![frame[t]] = [page |-> page[t], ver |-> 0]]
      /\ loaded' = [loaded EXCEPT ![frame[t]] = page[t]]
      /\ map' = [map EXCEPT !["logical"][page[t]] = frame[t]]
      /\ pc' = [pc EXCEPT ![t] = "publish"]
      /\ vacant' = vacant
      /\ disk' = disk
      /\ page' = page
      /\ frame' = frame
      /\ victim' = victim
  BY DEF InstallNew, Goto, diskVars, callVars, FrameLabels
<1>f. /\ loaded[frame[t]] = NoPage
      /\ \A u \in Tasks : u # t => frame[u] # frame[t]
  BY <1>e DEF TakenEmpty, TakenOwned, Taking
<1>g. \A u \in Tasks : pc[u] \in Emptying => victim[u] # frame[t]
  BY <1>f DEF EmptyingLoaded
<1>h. "logical" \in Routes
  BY DEF Routes
<1>1. FrameScope'
  BY <1>e, <1>f, <1>g, <1>h DEF FrameScope, FrameLabels
<1>2. VacantFree'
  BY <1>e, <1>f, <1>g, <1>h DEF VacantFree
<1>3. MapCarries'
  <2> DEFINE Soon(f, p) == \E w \in Tasks : pc'[w] = "load" /\ frame'[w] = f /\ page'[w] = p
  <2> SUFFICES ASSUME NEW r \in Routes, NEW p \in Pages, map'[r][p] # NoFrame
               PROVE  loaded'[map'[r][p]] = p \/ Soon(map'[r][p], p)
    BY DEF MapCarries, Carries, Loading
  <2>1. \A f, q : Loading(f, q) => Soon(f, q)
    BY <1>e DEF Loading
  <2>2. CASE r = "logical" /\ p = page[t]
    BY <1>e, <1>h, <2>2
  <2>3. CASE ~(r = "logical" /\ p = page[t])
    <3>1. map'[r][p] = map[r][p]
      BY <1>e, <1>h, <2>3
    <3>2. loaded[map[r][p]] = p \/ Loading(map[r][p], p)
      BY <3>1 DEF MapCarries, Carries
    <3> QED BY <1>e, <1>f, <2>1, <3>1, <3>2
  <2> QED BY <2>2, <2>3
<1>4. TakenEmpty'
  BY <1>e, <1>f, <1>g, <1>h DEF TakenEmpty, Taking
<1>5. TakenUnmapped'
  BY <1>e, <1>f, <1>g, <1>h DEF TakenUnmapped, Taking
<1>6. TakenOwned'
  BY <1>e, <1>f, <1>g, <1>h DEF TakenOwned, Taking, Hitting
<1>7. HitCarries'
  BY <1>e, <1>f, <1>g, <1>h DEF HitCarries, Hitting, Carries, Loading
<1>8. UseLoaded'
  BY <1>e, <1>f, <1>g, <1>h DEF UseLoaded, Using
<1>9. EmptyingLoaded'
  BY <1>e, <1>f, <1>g, <1>h DEF EmptyingLoaded, Emptying
<1>10. EmptyingUnmapped'
  BY <1>e, <1>f, <1>g, <1>h DEF EmptyingUnmapped, Unmapped, Emptying
<1>11. ContentNamesPage'
  BY <1>e, <1>f, <1>g, <1>h DEF ContentNamesPage
<1> QED BY <1>1, <1>2, <1>3, <1>4, <1>5, <1>6, <1>7, <1>8, <1>9, <1>10, <1>11

LEMMA PublishOtherOwns ==
  ASSUME Types, OwnInv, LatchProtocol, named = loaded, NEW t \in Tasks, PublishOther(t) PROVE OwnInv'
<1> USE DEF OwnInv, Types
<1>g. pc[t] = "publish" /\ frame[t] \in Frames /\ loaded[frame[t]] = page[t]
  BY DEF PublishOther, FrameLabels, UseLoaded, Using
<1>k. \A r \in Routes : Key(r, frame[t]) = page[t]
  BY <1>g DEF Key
<1>e. /\ pc[t] = "publish" /\ frame[t] \in Frames /\ page[t] \in Pages
      /\ \E r \in Routes : map' = [map EXCEPT ![r][page[t]] = frame[t]]
      /\ pc' = [pc EXCEPT ![t] = "hold"]
      /\ loaded' = loaded
      /\ vacant' = vacant
      /\ buf' = buf
      /\ disk' = disk
      /\ page' = page
      /\ frame' = frame
      /\ victim' = victim
  BY <1>k DEF PublishOther, Goto, diskVars, callVars, FrameLabels, Other, Routes
<1>f. \A u \in Tasks : pc[u] \in Emptying => victim[u] # frame[t]
  BY <1>e DEF LatchProtocol, HoldsWrite, Emptying, FrameLabels
<1>h. \A u \in Tasks : pc[u] \in Taking => frame[u] # frame[t]
  BY <1>e DEF TakenOwned, Hitting, Taking
<1>i. Carries(frame[t], page[t])
  BY <1>g DEF Carries
<1>1. FrameScope'
  BY <1>e, <1>f, <1>g, <1>h, <1>i DEF FrameScope, FrameLabels
<1>2. VacantFree'
  BY <1>e, <1>f, <1>g, <1>h, <1>i DEF VacantFree
<1>3. MapCarries'
  <2> DEFINE Soon(f, p) == \E w \in Tasks : pc'[w] = "load" /\ frame'[w] = f /\ page'[w] = p
  <2> SUFFICES ASSUME NEW r \in Routes, NEW p \in Pages, map'[r][p] # NoFrame
               PROVE  loaded'[map'[r][p]] = p \/ Soon(map'[r][p], p)
    BY DEF MapCarries, Carries, Loading
  <2>1. \A f, q : Loading(f, q) => Soon(f, q)
    BY <1>e DEF Loading
  <2>2. CASE map'[r][p] = map[r][p]
    <3>1. loaded[map[r][p]] = p \/ Loading(map[r][p], p)
      BY <2>2 DEF MapCarries, Carries
    <3> QED BY <1>e, <2>1, <2>2, <3>1
  <2>3. CASE map'[r][p] # map[r][p]
    <3>1. map'[r][p] = frame[t] /\ p = page[t]
      BY <1>e, <2>3
    <3> QED BY <1>e, <1>g, <3>1
  <2> QED BY <2>2, <2>3
<1>4. TakenEmpty'
  BY <1>e, <1>f, <1>g, <1>h, <1>i DEF TakenEmpty, Taking
<1>5. TakenUnmapped'
  BY <1>e, <1>f, <1>g, <1>h, <1>i DEF TakenUnmapped, Taking
<1>6. TakenOwned'
  BY <1>e, <1>f, <1>g, <1>h, <1>i DEF TakenOwned, Taking, Hitting
<1>7. HitCarries'
  BY <1>e, <1>f, <1>g, <1>h, <1>i DEF HitCarries, Hitting, Carries, Loading
<1>8. UseLoaded'
  BY <1>e, <1>f, <1>g, <1>h, <1>i DEF UseLoaded, Using
<1>9. EmptyingLoaded'
  BY <1>e, <1>f, <1>g, <1>h, <1>i DEF EmptyingLoaded, Emptying
<1>10. EmptyingUnmapped'
  BY <1>e, <1>f, <1>g, <1>h, <1>i DEF EmptyingUnmapped, Unmapped, Emptying
<1>11. ContentNamesPage'
  BY <1>e, <1>f, <1>g, <1>h, <1>i DEF ContentNamesPage
<1> QED BY <1>1, <1>2, <1>3, <1>4, <1>5, <1>6, <1>7, <1>8, <1>9, <1>10, <1>11

LEMMA AwaitReadOwns ==
  ASSUME Types, OwnInv, LatchProtocol, NEW t \in Tasks, AwaitRead(t) PROVE OwnInv'
<1> USE DEF OwnInv, Types
<1>e. /\ pc[t] = "await" /\ frame[t] \in Frames /\ writer[frame[t]] = NoTask
      /\ pc' = [pc EXCEPT ![t] = "hold"]
      /\ map' = map
      /\ loaded' = loaded
      /\ vacant' = vacant
      /\ buf' = buf
      /\ disk' = disk
      /\ page' = page
      /\ frame' = frame
      /\ victim' = victim
  BY DEF AwaitRead, Goto, diskVars, callVars, FrameLabels
<1>f. ~Loading(frame[t], page[t])
  BY <1>e, ConstantsAssumption DEF LatchProtocol, HoldsWrite, Loading
<1>g. loaded[frame[t]] = page[t]
  BY <1>e, <1>f DEF HitCarries, Carries, Hitting
<1>h. \A u \in Tasks : pc[u] \in Taking => frame[u] # frame[t]
  BY <1>e, <1>g DEF TakenEmpty
<1>1. FrameScope'
  BY <1>e, <1>f, <1>g, <1>h DEF FrameScope, FrameLabels
<1>2. VacantFree'
  BY <1>e, <1>f, <1>g, <1>h DEF VacantFree
<1>3. MapCarries'
  BY <1>e, <1>f, <1>g, <1>h DEF MapCarries, Carries, Loading
<1>4. TakenEmpty'
  BY <1>e, <1>f, <1>g, <1>h DEF TakenEmpty, Taking
<1>5. TakenUnmapped'
  BY <1>e, <1>f, <1>g, <1>h DEF TakenUnmapped, Taking
<1>6. TakenOwned'
  BY <1>e, <1>f, <1>g, <1>h DEF TakenOwned, Taking, Hitting
<1>7. HitCarries'
  BY <1>e, <1>f, <1>g, <1>h DEF HitCarries, Hitting, Carries, Loading
<1>8. UseLoaded'
  BY <1>e, <1>f, <1>g, <1>h DEF UseLoaded, Using
<1>9. EmptyingLoaded'
  BY <1>e, <1>f, <1>g, <1>h DEF EmptyingLoaded, Emptying
<1>10. EmptyingUnmapped'
  BY <1>e, <1>f, <1>g, <1>h DEF EmptyingUnmapped, Unmapped
<1>11. ContentNamesPage'
  BY <1>e, <1>f, <1>g, <1>h DEF ContentNamesPage
<1> QED BY <1>1, <1>2, <1>3, <1>4, <1>5, <1>6, <1>7, <1>8, <1>9, <1>10, <1>11

LEMMA AwaitWriteOwns ==
  ASSUME Types, OwnInv, LatchProtocol, NEW t \in Tasks, AwaitWrite(t) PROVE OwnInv'
<1> USE DEF OwnInv, Types
<1>e. /\ pc[t] = "await" /\ frame[t] \in Frames /\ writer[frame[t]] = NoTask
      /\ pc' = [pc EXCEPT ![t] = "hold"]
      /\ map' = map
      /\ loaded' = loaded
      /\ vacant' = vacant
      /\ buf' = buf
      /\ disk' = disk
      /\ page' = page
      /\ frame' = frame
      /\ victim' = victim
  BY DEF AwaitWrite, LatchWrite, Goto, diskVars, callVars, FrameLabels
<1>f. ~Loading(frame[t], page[t])
  BY <1>e, ConstantsAssumption DEF LatchProtocol, HoldsWrite, Loading
<1>g. loaded[frame[t]] = page[t]
  BY <1>e, <1>f DEF HitCarries, Carries, Hitting
<1>h. \A u \in Tasks : pc[u] \in Taking => frame[u] # frame[t]
  BY <1>e, <1>g DEF TakenEmpty
<1>1. FrameScope'
  BY <1>e, <1>f, <1>g, <1>h DEF FrameScope, FrameLabels
<1>2. VacantFree'
  BY <1>e, <1>f, <1>g, <1>h DEF VacantFree
<1>3. MapCarries'
  BY <1>e, <1>f, <1>g, <1>h DEF MapCarries, Carries, Loading
<1>4. TakenEmpty'
  BY <1>e, <1>f, <1>g, <1>h DEF TakenEmpty, Taking
<1>5. TakenUnmapped'
  BY <1>e, <1>f, <1>g, <1>h DEF TakenUnmapped, Taking
<1>6. TakenOwned'
  BY <1>e, <1>f, <1>g, <1>h DEF TakenOwned, Taking, Hitting
<1>7. HitCarries'
  BY <1>e, <1>f, <1>g, <1>h DEF HitCarries, Hitting, Carries, Loading
<1>8. UseLoaded'
  BY <1>e, <1>f, <1>g, <1>h DEF UseLoaded, Using
<1>9. EmptyingLoaded'
  BY <1>e, <1>f, <1>g, <1>h DEF EmptyingLoaded, Emptying
<1>10. EmptyingUnmapped'
  BY <1>e, <1>f, <1>g, <1>h DEF EmptyingUnmapped, Unmapped
<1>11. ContentNamesPage'
  BY <1>e, <1>f, <1>g, <1>h DEF ContentNamesPage
<1> QED BY <1>1, <1>2, <1>3, <1>4, <1>5, <1>6, <1>7, <1>8, <1>9, <1>10, <1>11

LEMMA WritePageOwns ==
  ASSUME Types, OwnInv, buf \in [Frames -> Content \union {NoContent}], NEW t \in Tasks, WritePage(t) PROVE OwnInv'
<1> USE DEF OwnInv, Types
<1>e. /\ pc[t] = "hold" /\ frame[t] \in Frames
      /\ buf' = [buf EXCEPT ![frame[t]] = [page |-> page[t], ver |-> version + 1]]
      /\ map' = map
      /\ loaded' = loaded
      /\ vacant' = vacant
      /\ disk' = disk
      /\ pc' = pc
      /\ page' = page
      /\ frame' = frame
      /\ victim' = victim
  BY DEF WritePage, diskVars, callVars, FrameLabels
<1>f. loaded[frame[t]] = page[t]
  BY <1>e DEF UseLoaded, Using
<1>1. FrameScope'
  BY <1>e, <1>f DEF FrameScope, FrameLabels
<1>2. VacantFree'
  BY <1>e, <1>f DEF VacantFree
<1>3. MapCarries'
  BY <1>e, <1>f DEF MapCarries, Carries, Loading
<1>4. TakenEmpty'
  BY <1>e, <1>f DEF TakenEmpty, Taking
<1>5. TakenUnmapped'
  BY <1>e, <1>f DEF TakenUnmapped, Taking
<1>6. TakenOwned'
  BY <1>e, <1>f DEF TakenOwned, Taking, Hitting
<1>7. HitCarries'
  BY <1>e, <1>f DEF HitCarries, Hitting, Carries, Loading
<1>8. UseLoaded'
  BY <1>e, <1>f DEF UseLoaded, Using
<1>9. EmptyingLoaded'
  BY <1>e, <1>f DEF EmptyingLoaded, Emptying
<1>10. EmptyingUnmapped'
  BY <1>e, <1>f DEF EmptyingUnmapped, Unmapped
<1>11. ContentNamesPage'
  BY <1>e, <1>f DEF ContentNamesPage
<1> QED BY <1>1, <1>2, <1>3, <1>4, <1>5, <1>6, <1>7, <1>8, <1>9, <1>10, <1>11

LEMMA EvictVacantOwns ==
  ASSUME Types, OwnInv, TypeOK, LatchInv, PinAccounting, Clean, Clean', NEW t \in Tasks, EvictVacant(t) PROVE OwnInv'
<1> USE DEF OwnInv, Types
<1>e. /\ pc[t] = "latchVictim" /\ victim[t] \in Frames /\ loaded[victim[t]] = NoPage
      /\ vacant' = vacant \union {victim[t]}
      /\ pc' = [pc EXCEPT ![t] = pc'[t]] /\ pc'[t] \in {"pop", "lookup"}
      /\ victim' = [victim EXCEPT ![t] = NoFrame]
      /\ map' = map
      /\ loaded' = loaded
      /\ buf' = buf
      /\ disk' = disk
      /\ page' = page
      /\ frame' = frame
  BY DEF EvictVacant, Resume, Goto, diskVars, callVars, VictimLabels, Labels
<1>f. \A u \in Tasks : frame[u] # victim[t]
  <2>1. ~InUse(victim[t]) /\ NoWrap(victim[t])
    BY <1>e DEF EvictVacant, Clean
  <2>2. readers[victim[t]] = {} /\ writer[victim[t]] = NoTask /\ pc[t] \notin FrameLabels
    BY <1>e DEF EvictVacant, Latched, FrameLabels
  <2> QED BY <1>e, <2>1, <2>2, NobodysFrame
<1>g. \A r \in Routes, p \in Pages : map[r][p] # victim[t]
  BY <1>e, <1>f DEF MapCarries, Carries, Loading
<1>1. FrameScope'
  BY <1>e, <1>f, <1>g DEF FrameScope, FrameLabels
<1>2. VacantFree'
  BY <1>e, <1>f, <1>g DEF VacantFree
<1>3. MapCarries'
  BY <1>e, <1>f, <1>g DEF MapCarries, Carries, Loading
<1>4. TakenEmpty'
  BY <1>e, <1>f, <1>g DEF TakenEmpty, Taking
<1>5. TakenUnmapped'
  BY <1>e, <1>f, <1>g DEF TakenUnmapped, Taking
<1>6. TakenOwned'
  BY <1>e, <1>f, <1>g DEF TakenOwned, Taking, Hitting
<1>7. HitCarries'
  BY <1>e, <1>f, <1>g DEF HitCarries, Hitting, Carries, Loading
<1>8. UseLoaded'
  BY <1>e, <1>f, <1>g DEF UseLoaded, Using
<1>9. EmptyingLoaded'
  BY <1>e, <1>f, <1>g DEF EmptyingLoaded, Emptying
<1>10. EmptyingUnmapped'
  BY <1>e, <1>f, <1>g DEF EmptyingUnmapped, Unmapped
<1>11. ContentNamesPage'
  BY <1>e, <1>f, <1>g DEF ContentNamesPage
<1> QED BY <1>1, <1>2, <1>3, <1>4, <1>5, <1>6, <1>7, <1>8, <1>9, <1>10, <1>11

LEMMA EvictLoadedOwns ==
  ASSUME Types, OwnInv, NEW t \in Tasks, EvictLoaded(t) PROVE OwnInv'
<1> USE DEF OwnInv, Types
<1>e. /\ pc[t] = "latchVictim" /\ victim[t] \in Frames /\ loaded[victim[t]] # NoPage
      /\ pc' = [pc EXCEPT ![t] = pc'[t]] /\ pc'[t] \in {"writeBack", "unmapLogical"}
      /\ map' = map
      /\ loaded' = loaded
      /\ vacant' = vacant
      /\ buf' = buf
      /\ disk' = disk
      /\ page' = page
      /\ frame' = frame
      /\ victim' = victim
  BY DEF EvictLoaded, Goto, diskVars, callVars, VictimLabels, Labels
<1>1. FrameScope'
  BY <1>e DEF FrameScope, FrameLabels
<1>2. VacantFree'
  BY <1>e DEF VacantFree
<1>3. MapCarries'
  BY <1>e DEF MapCarries, Carries, Loading
<1>4. TakenEmpty'
  BY <1>e DEF TakenEmpty, Taking
<1>5. TakenUnmapped'
  BY <1>e DEF TakenUnmapped, Taking
<1>6. TakenOwned'
  BY <1>e DEF TakenOwned, Taking, Hitting
<1>7. HitCarries'
  BY <1>e DEF HitCarries, Hitting, Carries, Loading
<1>8. UseLoaded'
  BY <1>e DEF UseLoaded, Using
<1>9. EmptyingLoaded'
  BY <1>e DEF EmptyingLoaded, Emptying
<1>10. EmptyingUnmapped'
  BY <1>e DEF EmptyingUnmapped, Unmapped
<1>11. ContentNamesPage'
  BY <1>e DEF ContentNamesPage
<1> QED BY <1>1, <1>2, <1>3, <1>4, <1>5, <1>6, <1>7, <1>8, <1>9, <1>10, <1>11

LEMMA WriteBackOwns ==
  ASSUME Types, OwnInv, disk \in [Pages -> Content \union {NoContent}], NEW t \in Tasks, WriteBack(t) PROVE OwnInv'
<1> USE DEF OwnInv, Types
<1>e. /\ pc[t] = "writeBack" /\ victim[t] \in Frames
      /\ disk' = [disk EXCEPT ![loaded[victim[t]]] = buf[victim[t]]]
      /\ pc' = [pc EXCEPT ![t] = "unmapLogical"]
      /\ map' = map
      /\ loaded' = loaded
      /\ vacant' = vacant
      /\ buf' = buf
      /\ page' = page
      /\ frame' = frame
      /\ victim' = victim
  BY DEF WriteBack, Goto, poolVars, diskVars, callVars, VictimLabels
<1>f. loaded[victim[t]] \in Pages
  BY <1>e DEF EmptyingLoaded, Emptying
<1>1. FrameScope'
  BY <1>e, <1>f DEF FrameScope, FrameLabels
<1>2. VacantFree'
  BY <1>e, <1>f DEF VacantFree
<1>3. MapCarries'
  BY <1>e, <1>f DEF MapCarries, Carries, Loading
<1>4. TakenEmpty'
  BY <1>e, <1>f DEF TakenEmpty, Taking
<1>5. TakenUnmapped'
  BY <1>e, <1>f DEF TakenUnmapped, Taking
<1>6. TakenOwned'
  BY <1>e, <1>f DEF TakenOwned, Taking, Hitting
<1>7. HitCarries'
  BY <1>e, <1>f DEF HitCarries, Hitting, Carries, Loading
<1>8. UseLoaded'
  BY <1>e, <1>f DEF UseLoaded, Using
<1>9. EmptyingLoaded'
  BY <1>e, <1>f DEF EmptyingLoaded, Emptying
<1>10. EmptyingUnmapped'
  BY <1>e, <1>f DEF EmptyingUnmapped, Unmapped
<1>11. ContentNamesPage'
  BY <1>e, <1>f DEF ContentNamesPage
<1> QED BY <1>1, <1>2, <1>3, <1>4, <1>5, <1>6, <1>7, <1>8, <1>9, <1>10, <1>11

LEMMA UnmapLogicalOwns ==
  ASSUME Types, OwnInv, named = loaded, NEW t \in Tasks, UnmapLogical(t) PROVE OwnInv'
<1> USE DEF OwnInv, Types
<1>e. /\ pc[t] = "unmapLogical" /\ victim[t] \in Frames
      /\ map' = [map EXCEPT !["logical"][loaded[victim[t]]] = NoFrame]
      /\ pc' = [pc EXCEPT ![t] = "unmapPhysical"]
      /\ loaded' = loaded
      /\ vacant' = vacant
      /\ buf' = buf
      /\ disk' = disk
      /\ page' = page
      /\ frame' = frame
      /\ victim' = victim
  BY DEF UnmapLogical, Unmap, Key, Goto, diskVars, callVars, VictimLabels
<1>f. loaded[victim[t]] \in Pages /\ "logical" \in Routes
  BY <1>e DEF EmptyingLoaded, Emptying, Routes
<1>g. \A p \in Pages : map["logical"][p] = victim[t] => p = loaded[victim[t]]
  BY <1>e, <1>f DEF MapCarries, Carries, Loading, TakenEmpty, Taking
<1>h. \A q \in Routes, p \in Pages : map'[q][p] = IF q = "logical" /\ p = loaded[victim[t]] THEN NoFrame ELSE map[q][p]
  BY <1>e, <1>f
<1>1. FrameScope'
  BY <1>e, <1>f, <1>g, <1>h DEF FrameScope, FrameLabels
<1>2. VacantFree'
  BY <1>e, <1>f, <1>g, <1>h DEF VacantFree
<1>3. MapCarries'
  <2> DEFINE Soon(f, p) == \E w \in Tasks : pc'[w] = "load" /\ frame'[w] = f /\ page'[w] = p
  <2> SUFFICES ASSUME NEW r \in Routes, NEW p \in Pages, map'[r][p] # NoFrame
               PROVE  loaded'[map'[r][p]] = p \/ Soon(map'[r][p], p)
    BY DEF MapCarries, Carries, Loading
  <2>1. \A f, q : Loading(f, q) => Soon(f, q)
    BY <1>e DEF Loading
  <2>2. map'[r][p] = map[r][p]
    BY <1>h
  <2>3. loaded[map[r][p]] = p \/ Loading(map[r][p], p)
    BY <2>2 DEF MapCarries, Carries
  <2> QED BY <1>e, <2>1, <2>2, <2>3
<1>4. TakenEmpty'
  BY <1>e, <1>f, <1>g, <1>h DEF TakenEmpty, Taking
<1>5. TakenUnmapped'
  <2> SUFFICES ASSUME NEW u \in Tasks, NEW r \in Routes, NEW p \in Pages,
                      pc'[u] \in Taking, map'[r][p] = frame[u]
               PROVE  pc'[u] = "load" /\ p = page[u]
    BY <1>e DEF TakenUnmapped
  <2>1. u # t /\ pc'[u] = pc[u]
    BY <1>e DEF Taking
  <2>2. frame[u] # NoFrame
    BY <1>e, <2>1 DEF Taking, FrameLabels
  <2>3. map[r][p] = frame[u]
    BY <1>h, <2>2
  <2> QED BY <2>1, <2>3 DEF TakenUnmapped
<1>6. TakenOwned'
  BY <1>e, <1>f, <1>g, <1>h DEF TakenOwned, Taking, Hitting
<1>7. HitCarries'
  BY <1>e, <1>f, <1>g, <1>h DEF HitCarries, Hitting, Carries, Loading
<1>8. UseLoaded'
  BY <1>e, <1>f, <1>g, <1>h DEF UseLoaded, Using
<1>9. EmptyingLoaded'
  BY <1>e, <1>f, <1>g, <1>h DEF EmptyingLoaded, Emptying
<1>10. EmptyingUnmapped'
  <2> SUFFICES ASSUME NEW u \in Tasks, NEW r \in Routes, NEW p \in Pages, r \in Unmapped(u)',
                      map'[r][p] = victim[u]
               PROVE  FALSE
    BY <1>e DEF EmptyingUnmapped, Unmapped, Routes
  <2>1. victim[u] \in Frames
    BY <1>e DEF Unmapped, VictimLabels
  <2>2. map[r][p] = victim[u] /\ ~(r = "logical" /\ p = loaded[victim[t]])
    BY <1>h, <2>1
  <2>3. CASE u # t
    BY <1>e, <2>2, <2>3 DEF EmptyingUnmapped, Unmapped
  <2>4. CASE u = t
    BY <1>e, <1>g, <2>2, <2>4 DEF EmptyingUnmapped, Unmapped
  <2> QED BY <2>3, <2>4
<1>11. ContentNamesPage'
  BY <1>e, <1>f, <1>g, <1>h DEF ContentNamesPage
<1> QED BY <1>1, <1>2, <1>3, <1>4, <1>5, <1>6, <1>7, <1>8, <1>9, <1>10, <1>11

LEMMA UnmapPhysicalOwns ==
  ASSUME Types, OwnInv, named = loaded, NEW t \in Tasks, UnmapPhysical(t) PROVE OwnInv'
<1> USE DEF OwnInv, Types
<1>e. /\ pc[t] = "unmapPhysical" /\ victim[t] \in Frames
      /\ map' = [map EXCEPT !["physical"][loaded[victim[t]]] = NoFrame]
      /\ pc' = [pc EXCEPT ![t] = "clear"]
      /\ loaded' = loaded
      /\ vacant' = vacant
      /\ buf' = buf
      /\ disk' = disk
      /\ page' = page
      /\ frame' = frame
      /\ victim' = victim
  BY DEF UnmapPhysical, Unmap, Key, Goto, diskVars, callVars, VictimLabels
<1>f. loaded[victim[t]] \in Pages /\ "physical" \in Routes
  BY <1>e DEF EmptyingLoaded, Emptying, Routes
<1>g. \A p \in Pages : map["physical"][p] = victim[t] => p = loaded[victim[t]]
  BY <1>e, <1>f DEF MapCarries, Carries, Loading, TakenEmpty, Taking
<1>h. \A q \in Routes, p \in Pages : map'[q][p] = IF q = "physical" /\ p = loaded[victim[t]] THEN NoFrame ELSE map[q][p]
  BY <1>e, <1>f
<1>1. FrameScope'
  BY <1>e, <1>f, <1>g, <1>h DEF FrameScope, FrameLabels
<1>2. VacantFree'
  BY <1>e, <1>f, <1>g, <1>h DEF VacantFree
<1>3. MapCarries'
  <2> DEFINE Soon(f, p) == \E w \in Tasks : pc'[w] = "load" /\ frame'[w] = f /\ page'[w] = p
  <2> SUFFICES ASSUME NEW r \in Routes, NEW p \in Pages, map'[r][p] # NoFrame
               PROVE  loaded'[map'[r][p]] = p \/ Soon(map'[r][p], p)
    BY DEF MapCarries, Carries, Loading
  <2>1. \A f, q : Loading(f, q) => Soon(f, q)
    BY <1>e DEF Loading
  <2>2. map'[r][p] = map[r][p]
    BY <1>h
  <2>3. loaded[map[r][p]] = p \/ Loading(map[r][p], p)
    BY <2>2 DEF MapCarries, Carries
  <2> QED BY <1>e, <2>1, <2>2, <2>3
<1>4. TakenEmpty'
  BY <1>e, <1>f, <1>g, <1>h DEF TakenEmpty, Taking
<1>5. TakenUnmapped'
  <2> SUFFICES ASSUME NEW u \in Tasks, NEW r \in Routes, NEW p \in Pages,
                      pc'[u] \in Taking, map'[r][p] = frame[u]
               PROVE  pc'[u] = "load" /\ p = page[u]
    BY <1>e DEF TakenUnmapped
  <2>1. u # t /\ pc'[u] = pc[u]
    BY <1>e DEF Taking
  <2>2. frame[u] # NoFrame
    BY <1>e, <2>1 DEF Taking, FrameLabels
  <2>3. map[r][p] = frame[u]
    BY <1>h, <2>2
  <2> QED BY <2>1, <2>3 DEF TakenUnmapped
<1>6. TakenOwned'
  BY <1>e, <1>f, <1>g, <1>h DEF TakenOwned, Taking, Hitting
<1>7. HitCarries'
  BY <1>e, <1>f, <1>g, <1>h DEF HitCarries, Hitting, Carries, Loading
<1>8. UseLoaded'
  BY <1>e, <1>f, <1>g, <1>h DEF UseLoaded, Using
<1>9. EmptyingLoaded'
  BY <1>e, <1>f, <1>g, <1>h DEF EmptyingLoaded, Emptying
<1>10. EmptyingUnmapped'
  <2> SUFFICES ASSUME NEW u \in Tasks, NEW r \in Routes, NEW p \in Pages, r \in Unmapped(u)',
                      map'[r][p] = victim[u]
               PROVE  FALSE
    BY <1>e DEF EmptyingUnmapped, Unmapped, Routes
  <2>1. victim[u] \in Frames
    BY <1>e DEF Unmapped, VictimLabels
  <2>2. map[r][p] = victim[u] /\ ~(r = "physical" /\ p = loaded[victim[t]])
    BY <1>h, <2>1
  <2>3. CASE u # t
    BY <1>e, <2>2, <2>3 DEF EmptyingUnmapped, Unmapped
  <2>4. CASE u = t
    BY <1>e, <1>g, <2>2, <2>4 DEF EmptyingUnmapped, Unmapped
  <2> QED BY <2>3, <2>4
<1>11. ContentNamesPage'
  BY <1>e, <1>f, <1>g, <1>h DEF ContentNamesPage
<1> QED BY <1>1, <1>2, <1>3, <1>4, <1>5, <1>6, <1>7, <1>8, <1>9, <1>10, <1>11

LEMMA EvictClearOwns ==
  ASSUME Types, OwnInv, TypeOK, LatchInv, PinAccounting, Clean, Clean', NEW t \in Tasks, EvictClear(t) PROVE OwnInv'
<1> USE DEF OwnInv, Types
<1>e. /\ pc[t] = "clear" /\ victim[t] \in Frames
      /\ loaded' = [loaded EXCEPT ![victim[t]] = NoPage]
      /\ vacant' = vacant \union {victim[t]}
      /\ pc' = [pc EXCEPT ![t] = pc'[t]] /\ pc'[t] \in {"pop", "lookup"}
      /\ victim' = [victim EXCEPT ![t] = NoFrame]
      /\ map' = map
      /\ buf' = buf
      /\ disk' = disk
      /\ page' = page
      /\ frame' = frame
  BY DEF EvictClear, Resume, Goto, diskVars, callVars, VictimLabels, Labels
<1>f. HoldsWrite(t, victim[t]) /\ writer[victim[t]] = t /\ readers[victim[t]] = {}
  BY <1>e, ConstantsAssumption DEF LatchInv, LatchProtocol, HoldsWrite
<1>g. \A u \in Tasks : frame[u] # victim[t]
  <2>1. ~InUse(victim[t]) /\ NoWrap(victim[t])
    BY <1>e DEF EvictClear, Clean
  <2>2. pc[t] \notin FrameLabels
    BY <1>e DEF FrameLabels
  <2> QED BY <1>e, <1>f, <2>1, <2>2, NobodysFrame
<1>h. \A r \in Routes, p \in Pages : map[r][p] # victim[t]
  BY <1>e DEF EmptyingUnmapped, Unmapped, Routes
<1>i. \A u \in Tasks : u # t /\ pc[u] \in Emptying => victim[u] # victim[t]
  BY <1>e, <1>f DEF LatchInv, LatchProtocol, HoldsWrite, Emptying
<1>1. FrameScope'
  BY <1>e, <1>f, <1>g, <1>h, <1>i DEF FrameScope, FrameLabels
<1>2. VacantFree'
  BY <1>e, <1>f, <1>g, <1>h, <1>i DEF VacantFree
<1>3. MapCarries'
  BY <1>e, <1>f, <1>g, <1>h, <1>i DEF MapCarries, Carries, Loading
<1>4. TakenEmpty'
  BY <1>e, <1>f, <1>g, <1>h, <1>i DEF TakenEmpty, Taking
<1>5. TakenUnmapped'
  BY <1>e, <1>f, <1>g, <1>h, <1>i DEF TakenUnmapped, Taking
<1>6. TakenOwned'
  BY <1>e, <1>f, <1>g, <1>h, <1>i DEF TakenOwned, Taking, Hitting
<1>7. HitCarries'
  BY <1>e, <1>f, <1>g, <1>h, <1>i DEF HitCarries, Hitting, Carries, Loading
<1>8. UseLoaded'
  BY <1>e, <1>f, <1>g, <1>h, <1>i DEF UseLoaded, Using
<1>9. EmptyingLoaded'
  BY <1>e, <1>f, <1>g, <1>h, <1>i DEF EmptyingLoaded, Emptying
<1>10. EmptyingUnmapped'
  BY <1>e, <1>f, <1>g, <1>h, <1>i DEF EmptyingUnmapped, Unmapped
<1>11. ContentNamesPage'
  BY <1>e, <1>f, <1>g, <1>h, <1>i DEF ContentNamesPage
<1> QED BY <1>1, <1>2, <1>3, <1>4, <1>5, <1>6, <1>7, <1>8, <1>9, <1>10, <1>11

LEMMA FlushLatchOwns ==
  ASSUME Types, OwnInv, NEW t \in Tasks, FlushLatch(t) PROVE OwnInv'
<1> USE DEF OwnInv, Types
<1>e. /\ pc[t] = "flush"
      /\ \E f \in Frames, p \in Pages : /\ loaded[f] = p
                                        /\ frame' = [frame EXCEPT ![t] = f]
                                        /\ page' = [page EXCEPT ![t] = p]
      /\ pc' = [pc EXCEPT ![t] = "flushWrite"]
      /\ map' = map
      /\ loaded' = loaded
      /\ vacant' = vacant
      /\ buf' = buf
      /\ disk' = disk
      /\ victim' = victim
  BY DEF FlushLatch, StillDirty, Goto, diskVars
<1>f. /\ loaded[frame'[t]] = page'[t] /\ frame'[t] \in Frames /\ page'[t] \in Pages
      /\ frame' = [frame EXCEPT ![t] = frame'[t]]
      /\ page' = [page EXCEPT ![t] = page'[t]]
  BY <1>e
<1>g. \A u \in Tasks : pc[u] \in Taking => frame[u] # frame'[t]
  BY <1>f DEF TakenEmpty
<1>1. FrameScope'
  BY <1>e, <1>f, <1>g DEF FrameScope, FrameLabels
<1>2. VacantFree'
  BY <1>e, <1>f, <1>g DEF VacantFree
<1>3. MapCarries'
  BY <1>e, <1>f, <1>g DEF MapCarries, Carries, Loading
<1>4. TakenEmpty'
  BY <1>e, <1>f, <1>g DEF TakenEmpty, Taking
<1>5. TakenUnmapped'
  BY <1>e, <1>f, <1>g DEF TakenUnmapped, Taking
<1>6. TakenOwned'
  BY <1>e, <1>f, <1>g DEF TakenOwned, Taking, Hitting
<1>7. HitCarries'
  BY <1>e, <1>f, <1>g DEF HitCarries, Hitting, Carries, Loading
<1>8. UseLoaded'
  BY <1>e, <1>f, <1>g DEF UseLoaded, Using
<1>9. EmptyingLoaded'
  BY <1>e, <1>f, <1>g DEF EmptyingLoaded, Emptying
<1>10. EmptyingUnmapped'
  BY <1>e, <1>f, <1>g DEF EmptyingUnmapped, Unmapped
<1>11. ContentNamesPage'
  BY <1>e, <1>f, <1>g DEF ContentNamesPage
<1> QED BY <1>1, <1>2, <1>3, <1>4, <1>5, <1>6, <1>7, <1>8, <1>9, <1>10, <1>11

LEMMA FlushWriteOwns ==
  ASSUME Types, OwnInv, disk \in [Pages -> Content \union {NoContent}], NEW t \in Tasks, FlushWrite(t) PROVE OwnInv'
<1> USE DEF OwnInv, Types
<1>e. /\ pc[t] = "flushWrite" /\ frame[t] \in Frames /\ page[t] \in Pages
      /\ disk' = [disk EXCEPT ![page[t]] = buf[frame[t]]]
      /\ frame' = [frame EXCEPT ![t] = NoFrame]
      /\ page' = [page EXCEPT ![t] = NoPage]
      /\ pc' = [pc EXCEPT ![t] = "flush"]
      /\ map' = map
      /\ loaded' = loaded
      /\ vacant' = vacant
      /\ buf' = buf
      /\ victim' = victim
  BY DEF FlushWrite, Goto, FrameLabels
<1>f. loaded[frame[t]] = page[t]
  BY <1>e DEF UseLoaded, Using
<1>1. FrameScope'
  BY <1>e, <1>f DEF FrameScope, FrameLabels
<1>2. VacantFree'
  BY <1>e, <1>f DEF VacantFree
<1>3. MapCarries'
  BY <1>e, <1>f DEF MapCarries, Carries, Loading
<1>4. TakenEmpty'
  BY <1>e, <1>f DEF TakenEmpty, Taking
<1>5. TakenUnmapped'
  BY <1>e, <1>f DEF TakenUnmapped, Taking
<1>6. TakenOwned'
  <2> SUFFICES ASSUME NEW u \in Tasks, NEW w \in Tasks,
                      pc'[u] \in Taking, w # u, frame'[w] = frame'[u]
               PROVE  pc'[u] = "load" /\ pc'[w] \in Hitting /\ page'[w] = page'[u]
    BY DEF TakenOwned
  <2>1. u # t /\ pc'[u] = pc[u] /\ frame'[u] = frame[u] /\ frame[u] \in Frames
    BY <1>e DEF Taking, FrameLabels
  <2>2. w # t /\ frame'[w] = frame[w]
    BY <1>e, <2>1
  <2> QED BY <1>e, <2>1, <2>2 DEF TakenOwned
<1>7. HitCarries'
  BY <1>e, <1>f DEF HitCarries, Hitting, Carries, Loading
<1>8. UseLoaded'
  BY <1>e, <1>f DEF UseLoaded, Using
<1>9. EmptyingLoaded'
  BY <1>e, <1>f DEF EmptyingLoaded, Emptying
<1>10. EmptyingUnmapped'
  BY <1>e, <1>f DEF EmptyingUnmapped, Unmapped
<1>11. ContentNamesPage'
  BY <1>e, <1>f DEF ContentNamesPage
<1> QED BY <1>1, <1>2, <1>3, <1>4, <1>5, <1>6, <1>7, <1>8, <1>9, <1>10, <1>11

-----------------------------------------------------------------------------
(* The other steps leave frames, maps and storage alone. *)

LEMMA CallIsQuiet ==
  ASSUME Types, OwnInv, NEW t \in Tasks, Call(t) PROVE OwnQuiet(t)
<1>1. /\ pc[t] = "idle" /\ pc'[t] \in {"lookup", "pop", "flush"}
      /\ pc' = [pc EXCEPT ![t] = pc'[t]] /\ page' = [page EXCEPT ![t] = page'[t]]
      /\ map' = map /\ loaded' = loaded /\ vacant' = vacant /\ buf' = buf /\ disk' = disk
      /\ frame' = frame /\ victim' = victim
  BY DEF Types, Call, StartFetch, StartNew, StartFlush, Goto, poolVars, diskVars
<1>2. frame[t] = NoFrame
  BY <1>1 DEF OwnInv, FrameScope, FrameLabels
<1> QED BY <1>1, <1>2 DEF Types, OwnQuiet, FrameLabels, Emptying

(* A call that goes on with the frame it has, or has none. *)
LEMMA GoingOnIsQuiet ==
  ASSUME Types, OwnInv, NEW t \in Tasks,
         map' = map, loaded' = loaded, vacant' = vacant, buf' = buf, disk' = disk,
         frame' = frame, page' = page, victim' = [victim EXCEPT ![t] = victim'[t]],
         pc' = [pc EXCEPT ![t] = pc'[t]],
         \/ pc[t] \in Taking \ {"load"} /\ pc'[t] \in Taking \ {"load"}
         \/ pc[t] \in Hitting /\ pc'[t] \in Hitting
         \/ pc[t] \in Using /\ pc'[t] \in Using
         \/ /\ pc[t] \in {"lookup", "pop", "findVictim", "latchVictim"}
            /\ pc'[t] \in {"lookup", "pop", "findVictim", "latchVictim"}
  PROVE  OwnQuiet(t)
<1>1. CASE pc[t] \in {"lookup", "pop", "findVictim", "latchVictim"}
  <2>1. frame[t] = NoFrame /\ pc'[t] \notin FrameLabels
    BY <1>1 DEF OwnInv, FrameScope, FrameLabels, Taking, Hitting, Using
  <2> QED BY <1>1, <2>1 DEF Types, OwnQuiet, Emptying, Taking, Hitting, Using
<1>2. CASE pc[t] \notin {"lookup", "pop", "findVictim", "latchVictim"}
  BY <1>2 DEF Types, OwnQuiet, Emptying, Taking, Hitting, Using
<1> QED BY <1>1, <1>2

(* A call that returns. *)
LEMMA ReturnIsQuiet ==
  ASSUME Types, NEW t \in Tasks, Return(t), pc[t] # "load",
         map' = map, loaded' = loaded, vacant' = vacant, buf' = buf, disk' = disk
  PROVE  OwnQuiet(t)
BY DEF Types, Return, OwnQuiet, FrameLabels, Emptying

LEMMA FindOwns ==
  ASSUME TypeInv, OwnInv, NEW t \in Tasks, Find(t) PROVE OwnInv'
<1> USE DEF TypeInv
<1>0. Types /\ route \in [Tasks -> Routes]
  BY TypesHold DEF TypeOK
<1>1. CASE LookupHit(t)
  BY <1>0, <1>1, LookupHitOwns
<1>2. CASE PopVacant(t)
  BY <1>0, <1>2, PopVacantOwns
<1>3. CASE Publish(t)
  BY <1>0, <1>3, PublishOwns
<1>4. CASE DupPin(t)
  BY <1>0, <1>4, DupPinOwns
<1>5. CASE LookupMiss(t) \/ IncrPinFlag(t) \/ NoVacant(t) \/ PinVacant(t) \/ LatchVacant(t) \/ DupUnpin(t)
  <2>1. /\ map' = map /\ loaded' = loaded /\ vacant' = vacant /\ buf' = buf /\ disk' = disk
        /\ frame' = frame /\ page' = page /\ victim' = victim
    BY <1>5 DEF LookupMiss, IncrPinFlag, NoVacant, PinVacant, LatchVacant, DupUnpin,
       poolVars, diskVars, callVars
  <2>2. \E l \in Labels : pc' = [pc EXCEPT ![t] = l]
    BY <1>5 DEF LookupMiss, IncrPinFlag, NoVacant, PinVacant, LatchVacant, DupUnpin, Goto, Labels
  <2>3. \/ pc[t] \in Taking \ {"load"} /\ pc'[t] \in Taking \ {"load"}
        \/ pc[t] \in Hitting /\ pc'[t] \in Hitting
        \/ pc[t] \in {"lookup", "pop"} /\ pc'[t] \in {"pop", "findVictim"}
    BY <1>0, <1>5 DEF LookupMiss, IncrPinFlag, NoVacant, PinVacant, LatchVacant, DupUnpin, Goto,
       Types, Taking, Hitting
  <2>4. OwnQuiet(t)
    BY <1>0, <2>1, <2>2, <2>3, GoingOnIsQuiet DEF Types
  <2> QED BY <1>0, <2>4, QuietOwns
<1> QED BY <1>1, <1>2, <1>3, <1>4, <1>5 DEF Find

LEMMA LoadOwns ==
  ASSUME TypeInv, LatchInv, OwnInv, named = loaded, Clean', NEW t \in Tasks, Load(t) PROVE OwnInv'
<1>0. Types /\ buf \in [Frames -> Content \union {NoContent}] /\ LatchProtocol
  BY TypesHold DEF TypeInv, TypeOK, LatchInv
<1>1. CASE LoadPage(t)
  BY <1>0, <1>1, LoadPageOwns
<1>2. CASE LoadError(t)
  BY <1>2 DEF LoadError, Clean
<1>3. CASE InstallNew(t)
  BY <1>0, <1>3, InstallNewOwns
<1>4. CASE PublishOther(t)
  BY <1>0, <1>4, PublishOtherOwns
<1> QED BY <1>1, <1>2, <1>3, <1>4 DEF Load

LEMMA GuardOwns ==
  ASSUME TypeInv, LatchInv, OwnInv, NEW t \in Tasks, Guard(t) PROVE OwnInv'
<1>0. Types /\ buf \in [Frames -> Content \union {NoContent}] /\ LatchProtocol
  BY TypesHold DEF TypeInv, TypeOK, LatchInv
<1>1. CASE AwaitRead(t)
  BY <1>0, <1>1, AwaitReadOwns
<1>2. CASE AwaitWrite(t)
  BY <1>0, <1>2, AwaitWriteOwns
<1>3. CASE WritePage(t)
  BY <1>0, <1>3, WritePageOwns
<1>4. CASE Unlatch(t)
  BY <1>0, <1>4, ReturnIsQuiet, QuietOwns DEF Unlatch, diskVars
<1>5. CASE Downgrade(t) \/ KeepPinned(t) \/ DropPin(t) \/ DecrPinFlag(t)
  <2>1. /\ map' = map /\ loaded' = loaded /\ vacant' = vacant /\ buf' = buf /\ disk' = disk
        /\ frame' = frame /\ page' = page /\ victim' = victim
    BY <1>5 DEF Downgrade, KeepPinned, DropPin, DecrPinFlag, poolVars, diskVars, callVars
  <2>2. \E l \in Labels : pc' = [pc EXCEPT ![t] = l]
    <3>1. CASE Downgrade(t)
      BY <1>0, <3>1 DEF Downgrade, Types
    <3>2. CASE KeepPinned(t) \/ DropPin(t) \/ DecrPinFlag(t)
      BY <3>2 DEF KeepPinned, DropPin, DecrPinFlag, Goto, Labels
    <3> QED BY <1>5, <3>1, <3>2
  <2>3. \/ pc[t] \in Taking \ {"load"} /\ pc'[t] \in Taking \ {"load"}
        \/ pc[t] \in Using /\ pc'[t] \in Using
    BY <1>0, <1>5 DEF Downgrade, KeepPinned, DropPin, DecrPinFlag, Goto, Types, Taking, Using
  <2>4. OwnQuiet(t)
    BY <1>0, <2>1, <2>2, <2>3, GoingOnIsQuiet DEF Types
  <2> QED BY <1>0, <2>4, QuietOwns
<1> QED BY <1>1, <1>2, <1>3, <1>4, <1>5 DEF Guard

LEMMA EvictOwns ==
  ASSUME TypeInv, LatchInv, PinAccounting, OwnInv, named = loaded, Clean, Clean',
         NEW t \in Tasks, Evict(t)
  PROVE  OwnInv'
<1> USE DEF TypeInv
<1>0. Types /\ disk \in [Pages -> Content \union {NoContent}]
  BY TypesHold DEF TypeOK
<1>1. CASE FindVictim(t) \/ EvictPinned(t)
  <2>1. /\ map' = map /\ loaded' = loaded /\ vacant' = vacant /\ buf' = buf /\ disk' = disk
        /\ frame' = frame /\ page' = page
        /\ \E f : victim' = [victim EXCEPT ![t] = f]
        /\ \E l \in {"latchVictim", "findVictim"} : pc' = [pc EXCEPT ![t] = l]
        /\ pc[t] \in {"latchVictim", "findVictim"}
    BY <1>1 DEF FindVictim, EvictPinned, poolVars, diskVars, callVars, Goto
  <2>2. OwnQuiet(t)
    BY <1>0, <2>1, GoingOnIsQuiet DEF Types
  <2> QED BY <1>0, <2>2, QuietOwns
<1>2. CASE NoVictimFound(t) \/ WriteBackError(t)
  BY <1>0, <1>2, ReturnIsQuiet, QuietOwns DEF NoVictimFound, WriteBackError, poolVars, diskVars
<1>3. CASE EvictVacant(t)
  BY <1>0, <1>3, EvictVacantOwns
<1>4. CASE EvictLoaded(t)
  BY <1>0, <1>4, EvictLoadedOwns
<1>5. CASE WriteBack(t)
  BY <1>0, <1>5, WriteBackOwns
<1>6. CASE UnmapLogical(t)
  BY <1>0, <1>6, UnmapLogicalOwns
<1>7. CASE UnmapPhysical(t)
  BY <1>0, <1>7, UnmapPhysicalOwns
<1>8. CASE EvictClear(t)
  BY <1>0, <1>8, EvictClearOwns
<1> QED BY <1>1, <1>2, <1>3, <1>4, <1>5, <1>6, <1>7, <1>8 DEF Evict

LEMMA FlushOwns ==
  ASSUME TypeInv, OwnInv, NEW t \in Tasks, Flush(t) PROVE OwnInv'
<1>0. Types /\ disk \in [Pages -> Content \union {NoContent}]
  BY TypesHold DEF TypeInv, TypeOK
<1>1. CASE FlushLatch(t)
  BY <1>0, <1>1, FlushLatchOwns
<1>2. CASE FlushWrite(t)
  BY <1>0, <1>2, FlushWriteOwns
<1>3. CASE FlushError(t) \/ FlushDone(t)
  BY <1>0, <1>3, ReturnIsQuiet, QuietOwns DEF FlushError, FlushDone, poolVars, diskVars
<1>4. CASE FlushSkip(t)
  <2>1. /\ map' = map /\ loaded' = loaded /\ vacant' = vacant /\ buf' = buf /\ disk' = disk
        /\ frame' = frame /\ page' = page /\ victim' = victim /\ pc' = pc /\ pc[t] = "flush"
    BY <1>4 DEF FlushSkip, poolVars, diskVars, callVars
  <2>2. OwnQuiet(t)
    BY <1>0, <2>1 DEF Types, OwnQuiet, OwnInv, FrameScope, FrameLabels, Emptying
  <2> QED BY <1>0, <2>2, QuietOwns
<1> QED BY <1>1, <1>2, <1>3, <1>4 DEF Flush

(* What spoils Clean lasts: raced, poisoned and misnamed are never reset,  *)
(* permanent pins are never given back.                                    *)
LEMMA CleanLasts == TypeOK /\ [Next]_vars /\ Clean' => Clean
<1> SUFFICES ASSUME TypeOK, [Next]_vars, Clean' PROVE Clean
  OBVIOUS
<1> DEFINE Same == /\ raced' = raced /\ poisoned' = poisoned /\ misnamed' = misnamed
                   /\ extraPins' = extraPins
           More(t) == \/ LoadPage(t) \/ LoadError(t) \/ KeepPinned(t)
                      \/ EvictVacant(t) \/ EvictClear(t)
<1> USE DEF ghostVars
<1>1. ASSUME UNCHANGED vars PROVE Same
  BY <1>1 DEF vars
<1>2. ASSUME NEW t \in Tasks, Call(t) PROVE Same
  BY <1>2 DEF Call, StartFetch, StartNew, StartFlush
<1>3. ASSUME NEW t \in Tasks, Find(t) PROVE Same
  BY <1>3 DEF Find, LookupHit, LookupMiss, IncrPinFlag, PopVacant, NoVacant, PinVacant,
     LatchVacant, Publish, DupUnpin, DupPin
<1>4. ASSUME NEW t \in Tasks, Load(t) PROVE Same \/ More(t)
  BY <1>4 DEF Load, InstallNew, PublishOther
<1>5. ASSUME NEW t \in Tasks, Guard(t) PROVE Same \/ More(t)
  BY <1>5 DEF Guard, AwaitRead, AwaitWrite, WritePage, Downgrade, DropPin, DecrPinFlag, Unlatch
<1>6. ASSUME NEW t \in Tasks, Evict(t) PROVE Same \/ More(t)
  BY <1>6 DEF Evict, FindVictim, NoVictimFound, EvictPinned, EvictLoaded, WriteBack,
     WriteBackError, UnmapLogical, UnmapPhysical, Unmap
<1>7. ASSUME NEW t \in Tasks, Flush(t) PROVE Same
  BY <1>7 DEF Flush, FlushSkip, FlushLatch, FlushWrite, FlushError, FlushDone
<1>8. Same \/ \E t \in Tasks : More(t)
  BY <1>1, <1>2, <1>3, <1>4, <1>5, <1>6, <1>7 DEF Next
<1>9. ASSUME NEW t \in Tasks, More(t) PROVE Clean
  <2>1. ~raced
    BY <1>9, Zenon DEF Clean, LoadPage, LoadError, KeepPinned, EvictVacant, EvictClear
  <2>2. poisoned = {}
    BY <1>9, Zenon DEF Clean, LoadPage, LoadError, KeepPinned, EvictVacant, EvictClear
  <2>3. ~misnamed
    BY <1>9, Zenon DEF Clean, LoadPage, LoadError, KeepPinned, EvictVacant, EvictClear
  <2>4. ASSUME NEW f \in Frames PROVE NoWrap(f)
    <3>1. extraPins[f] \in Nat /\ extraPins'[f] \in Nat /\ extraPins[f] <= extraPins'[f]
      <4>1. extraPins \in [Frames -> Nat]
        BY DEF TypeOK
      <4>2. \/ extraPins' = extraPins
            \/ extraPins' = [extraPins EXCEPT ![frame[t]] = @ + 1]
        BY <1>9 DEF LoadPage, LoadError, KeepPinned, EvictVacant, EvictClear
      <4> QED BY <4>1, <4>2
    <3>2. Cardinality(Tasks) \in Nat /\ PinMod \in Nat
      BY ConstantsAssumption, FS_CardinalityType
    <3>3. Cardinality(Tasks) + extraPins'[f] < PinMod
      BY DEF Clean, NoWrap
    <3> QED BY <3>1, <3>2, <3>3 DEF NoWrap
  <2> QED BY <2>1, <2>2, <2>3, <2>4 DEF Clean
<1>10. CASE Same
  BY <1>10, Zenon DEF Clean, NoWrap
<1> QED BY <1>8, <1>9, <1>10

LEMMA StepNames == NamesAgree /\ [Next]_vars => NamesAgree'
<1> SUFFICES ASSUME NamesAgree, [Next]_vars PROVE NamesAgree'
  OBVIOUS
<1> DEFINE Same == named' = named /\ loaded' = loaded /\ misnamed' = misnamed
           More(t) == LoadPage(t) \/ InstallNew(t) \/ EvictClear(t)
<1> USE DEF poolVars, ghostVars
<1>1. ASSUME UNCHANGED vars PROVE Same
  BY <1>1 DEF vars
<1>2. ASSUME NEW t \in Tasks, Call(t) PROVE Same
  BY <1>2 DEF Call, StartFetch, StartNew, StartFlush
<1>3. ASSUME NEW t \in Tasks, Find(t) PROVE Same
  BY <1>3 DEF Find, LookupHit, LookupMiss, IncrPinFlag, PopVacant, NoVacant, PinVacant,
     LatchVacant, Publish, DupUnpin, DupPin
<1>4. ASSUME NEW t \in Tasks, Load(t) PROVE Same \/ More(t)
  BY <1>4 DEF Load, LoadError, PublishOther
<1>5. ASSUME NEW t \in Tasks, Guard(t) PROVE Same
  BY <1>5 DEF Guard, AwaitRead, AwaitWrite, WritePage, Downgrade, KeepPinned, DropPin,
     DecrPinFlag, Unlatch
<1>6. ASSUME NEW t \in Tasks, Evict(t) PROVE Same \/ More(t)
  BY <1>6 DEF Evict, FindVictim, NoVictimFound, EvictPinned, EvictVacant, EvictLoaded,
     WriteBack, WriteBackError, UnmapLogical, UnmapPhysical, Unmap
<1>7. ASSUME NEW t \in Tasks, Flush(t) PROVE Same
  BY <1>7 DEF Flush, FlushSkip, FlushLatch, FlushWrite, FlushError, FlushDone
<1>8. Same \/ \E t \in Tasks : More(t)
  BY <1>1, <1>2, <1>3, <1>4, <1>5, <1>6, <1>7 DEF Next
<1>9. CASE Same
  BY <1>9, Zenon DEF NamesAgree
<1>10. ASSUME NEW t \in Tasks, LoadPage(t) PROVE NamesAgree'
  <2>1. PICK id : /\ named' = [named EXCEPT ![frame[t]] = id]
                  /\ misnamed' = (misnamed \/ id # page[t])
    BY <1>10 DEF LoadPage
  <2>2. loaded' = [loaded EXCEPT ![frame[t]] = page[t]]
    BY <1>10 DEF LoadPage
  <2>3. CASE misnamed \/ id # page[t]
    BY <2>1, <2>3, Zenon DEF NamesAgree
  <2>4. CASE ~misnamed /\ id = page[t]
    <3>1. named = loaded
      BY <2>4, Zenon DEF NamesAgree
    <3>2. named' = loaded'
      BY <2>1, <2>2, <2>4, <3>1
    <3> QED BY <3>2, Zenon DEF NamesAgree
  <2> QED BY <2>3, <2>4
<1>11. ASSUME NEW t \in Tasks, InstallNew(t) \/ EvictClear(t) PROVE NamesAgree'
  <2>1. PICK f, p : /\ named' = [named EXCEPT ![f] = p]
                    /\ loaded' = [loaded EXCEPT ![f] = p]
                    /\ misnamed' = misnamed
    BY <1>11 DEF InstallNew, EvictClear
  <2>2. CASE misnamed
    BY <2>1, <2>2, Zenon DEF NamesAgree
  <2>3. CASE named = loaded
    <3>1. named' = loaded'
      BY <2>1, <2>3
    <3> QED BY <3>1, Zenon DEF NamesAgree
  <2> QED BY <2>2, <2>3 DEF NamesAgree
<1> QED BY <1>8, <1>9, <1>10, <1>11

LEMMA NamesHold == Spec => []NamesAgree
<1>1. Init => NamesAgree
  BY DEF Init, NamesAgree
<1> QED BY <1>1, StepNames, PTL DEF Spec

LEMMA StepOwns ==
  TypeInv /\ LatchInv /\ PinAccounting /\ NamesAgree /\ CleanOwnInv /\ [Next]_vars
    => CleanOwnInv'
<1> SUFFICES ASSUME TypeInv, LatchInv, PinAccounting, NamesAgree, OwnInv, Clean, Clean',
                    [Next]_vars
             PROVE  OwnInv'
  BY CleanLasts DEF CleanOwnInv, TypeInv
<1>n. named = loaded
  BY Zenon DEF NamesAgree, Clean
<1>0. Types
  BY TypesHold DEF TypeInv
<1>1. CASE UNCHANGED vars
  <2> USE <1>1 DEF vars, poolVars, diskVars, callVars
  <2>1. FrameScope' /\ VacantFree' /\ ContentNamesPage'
    BY DEF OwnInv, FrameScope, VacantFree, ContentNamesPage
  <2>2. MapCarries' /\ HitCarries' /\ UseLoaded'
    BY DEF OwnInv, MapCarries, HitCarries, UseLoaded, Carries, Loading
  <2>3. TakenEmpty' /\ TakenUnmapped' /\ TakenOwned'
    BY DEF OwnInv, TakenEmpty, TakenUnmapped, TakenOwned
  <2>4. EmptyingLoaded' /\ EmptyingUnmapped'
    BY DEF OwnInv, EmptyingLoaded, EmptyingUnmapped, Unmapped
  <2> QED BY <2>1, <2>2, <2>3, <2>4 DEF OwnInv
<1>2. ASSUME NEW t \in Tasks, Call(t) PROVE OwnInv'
  BY <1>0, <1>2, CallIsQuiet, QuietOwns
<1> QED BY <1>n, <1>1, <1>2, FindOwns, LoadOwns, GuardOwns, EvictOwns, FlushOwns DEF Next

LEMMA InitOwns == Init => CleanOwnInv
<1> SUFFICES ASSUME Init PROVE OwnInv
  BY DEF CleanOwnInv
<1> USE ConstantsAssumption DEF Init
<1>1. FrameScope /\ VacantFree /\ MapCarries
  BY DEF FrameScope, VacantFree, MapCarries, Routes
<1>2. TakenEmpty /\ TakenUnmapped /\ TakenOwned /\ HitCarries /\ UseLoaded
  BY DEF TakenEmpty, TakenUnmapped, TakenOwned, HitCarries, UseLoaded, Taking, Hitting, Using
<1>3. EmptyingLoaded /\ EmptyingUnmapped
  BY DEF EmptyingLoaded, EmptyingUnmapped, Emptying, Unmapped
<1>4. ContentNamesPage
  BY DEF ContentNamesPage
<1> QED BY <1>1, <1>2, <1>3, <1>4 DEF OwnInv

LEMMA OwnInvHolds == Spec => []CleanOwnInv
BY InitOwns, StepOwns, NamesHold, TypeInvHolds, LatchInvHolds, PinsAreCounted, PTL DEF Spec

(* Guard integrity: until an eviction releases a frame in use, a load      *)
(* fails, a page is loaded by location under another page's id, or a pin   *)
(* counter has no room left for the permanent pins, every guard gives      *)
(* access to the page that was asked for, for any number of tasks, frames  *)
(* and pages, any ids in the headers, and any mix of look-ups, evictions   *)
(* and flushes.                                                            *)
THEOREM GuardsAreTrue == Spec => []CleanGuardIntegrity
<1>1. TypeOK /\ CleanOwnInv => CleanGuardIntegrity
  <2> SUFFICES ASSUME TypeOK, OwnInv, NEW t \in Tasks, pc[t] = "hold"
               PROVE  loaded[frame[t]] = page[t] /\ buf[frame[t]].page = page[t]
    BY DEF CleanOwnInv, CleanGuardIntegrity, GuardIntegrity
  <2>1. loaded[frame[t]] = page[t]
    BY DEF OwnInv, UseLoaded, Using
  <2>2. frame[t] \in Frames /\ page[t] # NoPage
    BY ConstantsAssumption DEF TypeOK, FrameLabels
  <2> QED BY <2>1, <2>2 DEF OwnInv, ContentNamesPage
<1> QED BY <1>1, OwnInvHolds, TypeCorrect, PTL

(* The vacant list: as long as the state is Clean a listed frame is in no  *)
(* map, holds no page and is nobody's, so two loaders never fill the same  *)
(* frame.                                                                  *)
THEOREM VacantFramesAreFree == Spec => []VacantIsFree
<1>1. CleanOwnInv => VacantIsFree
  BY DEF CleanOwnInv, OwnInv, VacantFree, VacantIsFree
<1> QED BY <1>1, OwnInvHolds, PTL

-----------------------------------------------------------------------------
(* Proof of CleanCopyInv, when no page is fetched by both routes *)

CopyTypes ==
  /\ map \in [Routes -> [Pages -> Frames \union {NoFrame}]]
  /\ loaded \in [Frames -> Pages \union {NoPage}]
  /\ buf \in [Frames -> Content \union {NoContent}]
  /\ disk \in [Pages -> Content \union {NoContent}]
  /\ known \subseteq Pages
  /\ latest \in [Pages -> 0..MaxWrites]
  /\ pc \in [Tasks -> Labels]
  /\ route \in [Tasks -> Routes]
  /\ kind \in [Tasks -> Kinds]
  /\ page \in [Tasks -> Pages \union {NoPage}]
  /\ frame \in [Tasks -> Frames \union {NoFrame}]
  /\ victim \in [Tasks -> Frames \union {NoFrame}]
  /\ NoFrame \notin Frames /\ NoPage \notin Pages
  /\ \A t \in Tasks : /\ pc[t] \in FrameLabels => frame[t] \in Frames
                      /\ pc[t] \in VictimLabels => victim[t] \in Frames
                      /\ pc[t] \notin {"idle", "flush"} => page[t] \in Pages

LEMMA CopyTypesHold == TypeOK => CopyTypes
BY ConstantsAssumption DEF TypeOK, CopyTypes

LEMMA HomeType == \A p : Home(p) \in Routes
BY DEF Home, Routes

(* A step changes the local variables of its own call only. *)
TaskStep(t) ==
  /\ pc' = [pc EXCEPT ![t] = pc'[t]]
  /\ route' = [route EXCEPT ![t] = route'[t]]
  /\ kind' = [kind EXCEPT ![t] = kind'[t]]
  /\ page' = [page EXCEPT ![t] = page'[t]]
  /\ frame' = [frame EXCEPT ![t] = frame'[t]]
  /\ victim' = [victim EXCEPT ![t] = victim'[t]]

LEMMA OtherTasks ==
  ASSUME CopyTypes, NEW t \in Tasks, TaskStep(t), NEW u \in Tasks, u # t
  PROVE  /\ pc'[u] = pc[u] /\ route'[u] = route[u] /\ kind'[u] = kind[u]
         /\ page'[u] = page[u] /\ frame'[u] = frame[u] /\ victim'[u] = victim[u]
BY DEF CopyTypes, TaskStep

LEMMA InstalledStays ==
  ASSUME CopyTypes, NEW t \in Tasks, TaskStep(t), pc[t] # "publish"
  PROVE  \A f, p : Installed(f, p) => Installed(f, p)'
<1> SUFFICES ASSUME NEW f, NEW p, Installed(f, p) PROVE Installed(f, p)'
  OBVIOUS
<1>1. PICK u \in Tasks : Creating(u) /\ pc[u] = "publish" /\ frame[u] = f /\ page[u] = p
  BY DEF Installed
<1>2. u # t
  BY <1>1
<1> QED BY <1>1, <1>2, OtherTasks DEF Installed, Creating

LEMMA LeavingStays ==
  ASSUME CopyTypes, NEW t \in Tasks, TaskStep(t), pc[t] \notin {"unmapPhysical", "clear"}
  PROVE  \A f, p : Leaving(f, p) => Leaving(f, p)'
<1> SUFFICES ASSUME NEW f, NEW p, Leaving(f, p) PROVE Leaving(f, p)'
  OBVIOUS
<1>1. PICK u \in Tasks : victim[u] = f /\ Home(p) \in Unmapped(u)
  BY DEF Leaving
<1>2. u # t
  BY <1>1 DEF Unmapped
<1> QED BY <1>1, <1>2, OtherTasks DEF Leaving, Unmapped, Home

(* Whoever has the latch of a loaded frame, and has not unmapped it        *)
(* himself, has the copy that callers find.                                *)
LEMMA LatchedCopy ==
  ASSUME CopyTypes, LatchProtocol, UnknownPage, OneCopy, NEW t \in Tasks, NEW f \in Frames,
         NEW p \in Pages, loaded[f] = p,
         HoldsWrite(t, f) \/ HoldsRead(t, f), pc[t] # "publish",
         ~(victim[t] = f /\ Home(p) \in Unmapped(t))
  PROVE  map[Home(p)][p] = f /\ p \in known
<1>1. ASSUME NEW u \in Tasks, u # t PROVE ~HoldsWrite(u, f)
  BY <1>1, ConstantsAssumption DEF LatchProtocol
<1>2. ~Leaving(f, p)
  <2> SUFFICES ASSUME NEW u \in Tasks, victim[u] = f, Home(p) \in Unmapped(u) PROVE FALSE
    BY DEF Leaving
  <2>1. pc[u] \in {"unmapPhysical", "clear"}
    BY DEF Unmapped
  <2> QED BY <1>1, <2>1 DEF HoldsWrite
<1>3. ~Installed(f, p)
  BY <1>1 DEF Installed, HoldsWrite
<1> QED BY <1>2, <1>3 DEF OneCopy, UnknownPage

(* The scopes of the calls depend on the calls alone. *)
LEMMA ScopesKept ==
  ASSUME CopyTypes, KnownReserved, PageScope, CreatingAlone, NEW t \in Tasks, TaskStep(t),
         known \subseteq known', reserved \subseteq reserved', known' \subseteq reserved',
         \A u \in Tasks : u # t /\ Creating(u)
                            => page[u] \notin known' /\ (Creating(t)' => page[u] # page'[t]),
         Scope(t)'
  PROVE  KnownReserved' /\ PageScope' /\ CreatingAlone'
<1>1. \A u \in Tasks : u # t => (Creating(u)' <=> Creating(u))
  BY OtherTasks DEF Creating
<1>2. ASSUME NEW u \in Tasks, u # t PROVE Scope(u)'
  <2>1. Scope(u)
    BY DEF PageScope
  <2>2. /\ pc'[u] = pc[u] /\ route'[u] = route[u] /\ page'[u] = page[u]
        /\ Creating(u)' <=> Creating(u)
    BY <1>1, <1>2, OtherTasks
  <2> QED BY <1>2, <2>1, <2>2 DEF Scope
<1>3. CreatingAlone'
  BY <1>1, OtherTasks DEF CreatingAlone
<1> QED BY <1>2, <1>3 DEF KnownReserved, PageScope

LEMMA ScopesSame ==
  ASSUME CopyTypes, KnownReserved, PageScope, CreatingAlone, NEW t \in Tasks, TaskStep(t),
         known' = known, reserved' = reserved,
         Creating(t)' => Creating(t) /\ page'[t] = page[t],
         Scope(t)'
  PROVE  KnownReserved' /\ PageScope' /\ CreatingAlone'
<1>1. \A u \in Tasks : u # t /\ Creating(u)
                         => page[u] \notin known' /\ (Creating(t)' => page[u] # page'[t])
  BY DEF PageScope, Scope, CreatingAlone
<1> QED BY <1>1, ScopesKept DEF KnownReserved

(* A call that goes on asking, one that has its guard, one that returns. *)
LEMMA ScopeAsks ==
  ASSUME CopyTypes, NEW t \in Tasks, Scope(t), TaskStep(t), known' = known, reserved' = reserved,
         page' = page, kind' = kind, route' = route,
         pc[t] \in Asking, pc'[t] \in Asking,
         kind[t] = "new" => pc'[t] \in NewLabels,
         pc'[t] = "install" => kind[t] = "new"
  PROVE  Scope(t)' /\ (Creating(t)' => Creating(t) /\ page'[t] = page[t])
<1>1. Creating(t)' <=> Creating(t)
  BY DEF Creating, Asking
<1> QED BY <1>1 DEF Scope, Asking, Creating

LEMMA ScopeHolds ==
  ASSUME CopyTypes, NEW t \in Tasks, Scope(t), TaskStep(t), known \subseteq known', reserved' = reserved,
         page' = page, page[t] \in known',
         pc'[t] \in {"hold", "drop", "dropFlag", "unlatch"}
  PROVE  Scope(t)' /\ ~Creating(t)'
<1>1. ~Creating(t)'
  BY DEF Creating
<1> QED BY <1>1 DEF Scope, Asking

LEMMA ScopeReturns ==
  ASSUME CopyTypes, NEW t \in Tasks, TaskStep(t), page'[t] = NoPage, pc'[t] \in {"idle", "flush"},
         pc'[t] = "flush" => kind'[t] # "new"
  PROVE  Scope(t)' /\ ~Creating(t)'
<1>1. ~Creating(t)'
  BY DEF Creating
<1> QED BY <1>1 DEF Scope, Asking

(* The other parts do not notice a step that changes no copy. *)
Copies == UnknownPage /\ OneCopy /\ LoadHome /\ CopyIsLatest /\ WrittenBack /\ FreshIsLatest

LEMMA QuietCopies ==
  ASSUME CopyTypes, Copies, NEW t \in Tasks, TaskStep(t),
         map' = map, loaded' = loaded, buf' = buf, disk' = disk, dirty' = dirty,
         known' = known, latest' = latest,
         pc[t] \notin {"load", "publish", "unmapLogical", "unmapPhysical", "clear"},
         pc'[t] \notin {"load", "publish", "unmapLogical", "unmapPhysical", "clear"}
  PROVE  Copies'
<1> USE DEF Copies
<1>1. \A f, p : (Installed(f, p) => Installed(f, p)') /\ (Leaving(f, p) => Leaving(f, p)')
  BY InstalledStays, LeavingStays
<1>2. UnknownPage'
  BY <1>1 DEF UnknownPage
<1>3. OneCopy'
  BY <1>1 DEF OneCopy, Home
<1>4. LoadHome' /\ FreshIsLatest'
  BY OtherTasks DEF LoadHome, FreshIsLatest, Latest
<1>5. CopyIsLatest'
  BY DEF CopyIsLatest, HomeLoaded, DiskContent, Latest, Home
<1>6. WrittenBack'
  BY OtherTasks DEF WrittenBack, DiskContent, Latest, Home
<1> QED BY <1>2, <1>3, <1>4, <1>5, <1>6

LEMMA PublishCopies ==
  ASSUME CopyTypes, OwnInv, CopyInv, NEW t \in Tasks, Publish(t) PROVE CopyInv'
<1> USE DEF CopyInv, CopyTypes
<1>e. /\ pc[t] = "recheck" /\ pc' = [pc EXCEPT ![t] = "load"]
      /\ map[route[t]][page[t]] = NoFrame
      /\ map' = [map EXCEPT ![route[t]][page[t]] = frame[t]]
      /\ frame[t] \in Frames /\ page[t] \in Pages /\ route[t] \in Routes
      /\ loaded' = loaded /\ dirty' = dirty /\ buf' = buf /\ disk' = disk /\ known' = known
      /\ reserved' = reserved /\ latest' = latest /\ route' = route /\ kind' = kind
      /\ page' = page /\ frame' = frame /\ victim' = victim
  BY DEF Publish, Goto, FrameLabels, diskVars, callVars, ghostVars
<1>t. TaskStep(t) /\ pc'[t] = "load"
  BY <1>e DEF TaskStep
<1>f. page[t] \in known /\ route[t] = Home(page[t]) /\ ~Creating(t) /\ kind[t] # "new"
  BY <1>e DEF PageScope, Scope, Asking, Labels, Creating, NewLabels, Emptying
<1>g. loaded[frame[t]] = NoPage
  BY <1>e DEF OwnInv, TakenEmpty, Taking
<1>m. \A r \in Routes, p \in Pages :
        map'[r][p] = IF r = route[t] /\ p = page[t] THEN frame[t] ELSE map[r][p]
  BY <1>e
<1>i. \A f, p : (Installed(f, p) => Installed(f, p)') /\ (Leaving(f, p) => Leaving(f, p)')
  BY <1>e, <1>t, InstalledStays, LeavingStays
<1>1. KnownReserved' /\ PageScope' /\ CreatingAlone'
  <2>1. Scope(t)' /\ (Creating(t)' => Creating(t) /\ page'[t] = page[t])
    BY <1>e, <1>t, <1>f, ScopeAsks DEF PageScope, Asking, Labels
  <2> QED BY <1>e, <1>t, <2>1, ScopesSame
<1>2. UnknownPage'
  BY <1>e, <1>f, <1>m, <1>i DEF UnknownPage
<1>3. OneCopy'
  <2> SUFFICES ASSUME NEW f \in Frames, NEW p \in Pages, loaded[f] = p
               PROVE  \/ map'[Home(p)][p] = f
                      \/ Leaving(f, p)'
                      \/ Home(p) = "physical" /\ Installed(f, p)'
    BY <1>e DEF OneCopy, Home
  <2>1. CASE map[Home(p)][p] = f
    BY <1>e, <1>m, <2>1, HomeType
  <2> QED BY <1>i, <2>1 DEF OneCopy
<1>4. LoadHome'
  <2> SUFFICES ASSUME NEW u \in Tasks, pc'[u] = "load" PROVE map'[route[u]][page[u]] = frame[u]
    BY <1>e DEF LoadHome
  <2>1. CASE u = t
    BY <1>e, <1>m, <2>1
  <2>2. CASE u # t
    <3>1. pc[u] = "load" /\ frame[u] \in Frames /\ page[u] \in Pages /\ route[u] \in Routes
      BY <1>e, <2>2 DEF FrameLabels
    <3> QED BY <1>e, <1>m, <3>1 DEF LoadHome
  <2> QED BY <2>1, <2>2
<1>5. CopyIsLatest'
  <2> SUFFICES ASSUME NEW p \in Pages
               PROVE IF HomeLoaded(p)'
                       THEN /\ buf[map'[Home(p)][p]] = Latest(p)
                            /\ map'[Home(p)][p] \notin dirty => DiskContent(p) = Latest(p)
                       ELSE DiskContent(p) = Latest(p)
    BY <1>e DEF CopyIsLatest, DiskContent, Latest, Home
  <2>1. CASE p = page[t]
    BY <1>e, <1>f, <1>g, <1>m, <2>1 DEF CopyIsLatest, HomeLoaded, Home
  <2>2. CASE p # page[t]
    <3>1. map'[Home(p)][p] = map[Home(p)][p]
      BY <1>m, <2>2, HomeType
    <3> QED BY <1>e, <3>1 DEF CopyIsLatest, HomeLoaded, Home
  <2> QED BY <2>1, <2>2
<1>6. WrittenBack'
  <2> SUFFICES ASSUME NEW u \in Tasks, NEW p \in Pages, pc'[u] \in {"unmapLogical", "unmapPhysical"},
                      loaded[victim[u]] = p, map'[Home(p)][p] = victim[u]
               PROVE  DiskContent(p) = Latest(p)
    BY <1>e DEF WrittenBack, DiskContent, Latest, Home
  <2>1. u # t /\ pc'[u] = pc[u]
    BY <1>e
  <2>2. map'[Home(p)][p] = map[Home(p)][p]
    <3>1. victim[u] # frame[t]
      BY <1>g
    <3> QED BY <1>m, <3>1, HomeType
  <2> QED BY <2>1, <2>2 DEF WrittenBack
<1>7. FreshIsLatest'
  BY <1>e DEF FreshIsLatest, Latest
<1> QED BY <1>1, <1>2, <1>3, <1>4, <1>5, <1>6, <1>7

LEMMA LoadPageCopies ==
  ASSUME CopyTypes, OwnInv, CopyInv, NEW t \in Tasks, LoadPage(t) PROVE CopyInv'
<1> USE DEF CopyInv, CopyTypes
<1>e. /\ pc[t] = "load" /\ pc' = [pc EXCEPT ![t] = "publish"]
      /\ buf' = [buf EXCEPT ![frame[t]] = DiskContent(page[t])]
      /\ loaded' = [loaded EXCEPT ![frame[t]] = page[t]]
      /\ dirty' = dirty \ {frame[t]}
      /\ frame[t] \in Frames /\ page[t] \in Pages /\ route[t] \in Routes
      /\ map' = map /\ disk' = disk /\ known' = known
      /\ reserved' = reserved /\ latest' = latest /\ route' = route /\ kind' = kind
      /\ page' = page /\ frame' = frame /\ victim' = victim
  BY DEF LoadPage, Goto, FrameLabels, diskVars, callVars, ghostVars
<1>t. TaskStep(t) /\ pc'[t] = "publish"
  BY <1>e DEF TaskStep
<1>f. page[t] \in known /\ route[t] = Home(page[t]) /\ kind[t] # "new"
  BY <1>e DEF PageScope, Scope, Asking, Labels, Creating, NewLabels, Emptying
<1>g. loaded[frame[t]] = NoPage /\ map[Home(page[t])][page[t]] = frame[t]
  BY <1>e, <1>f DEF OwnInv, TakenEmpty, Taking, LoadHome
<1>h. DiskContent(page[t]) = Latest(page[t])
  BY <1>e, <1>g DEF CopyIsLatest, HomeLoaded
<1>j. \A u \in Tasks : /\ pc[u] = "publish" => frame[u] # frame[t]
                       /\ pc[u] \in Emptying => victim[u] # frame[t]
  BY <1>e, <1>g DEF OwnInv, TakenOwned, Taking, Hitting, EmptyingLoaded
<1>i. \A f, p : (Installed(f, p) => Installed(f, p)') /\ (Leaving(f, p) => Leaving(f, p)')
  BY <1>e, <1>t, InstalledStays, LeavingStays
<1>1. KnownReserved' /\ PageScope' /\ CreatingAlone'
  <2>1. Scope(t)' /\ (Creating(t)' => Creating(t) /\ page'[t] = page[t])
    BY <1>e, <1>t, <1>f, ScopeAsks DEF PageScope, Asking, Labels
  <2> QED BY <1>e, <1>t, <2>1, ScopesSame
<1>2. UnknownPage'
  BY <1>e, <1>f, <1>i DEF UnknownPage
<1>3. OneCopy'
  <2> SUFFICES ASSUME NEW f \in Frames, NEW p \in Pages, loaded'[f] = p
               PROVE  \/ map[Home(p)][p] = f
                      \/ Leaving(f, p)'
                      \/ Home(p) = "physical" /\ Installed(f, p)'
    BY <1>e DEF OneCopy, Home
  <2>1. CASE f = frame[t]
    BY <1>e, <1>g, <2>1
  <2>2. CASE f # frame[t]
    BY <1>e, <1>i, <2>2 DEF OneCopy
  <2> QED BY <2>1, <2>2
<1>4. LoadHome'
  BY <1>e DEF LoadHome
<1>5. CopyIsLatest'
  <2> SUFFICES ASSUME NEW p \in Pages
               PROVE IF HomeLoaded(p)'
                       THEN /\ buf'[map[Home(p)][p]] = Latest(p)
                            /\ map[Home(p)][p] \notin dirty' => DiskContent(p) = Latest(p)
                       ELSE DiskContent(p) = Latest(p)
    BY <1>e DEF CopyIsLatest, DiskContent, Latest, Home
  <2>1. CASE p = page[t]
    BY <1>e, <1>g, <1>h, <2>1
  <2>2. CASE p # page[t]
    <3>1. HomeLoaded(p)' <=> HomeLoaded(p)
      BY <1>e, <1>g, <2>2, HomeType DEF HomeLoaded, Home
    <3>2. HomeLoaded(p) => map[Home(p)][p] # frame[t] /\ map[Home(p)][p] \in Frames
      BY <1>g, HomeType DEF HomeLoaded
    <3> QED BY <1>e, <3>1, <3>2 DEF CopyIsLatest
  <2> QED BY <2>1, <2>2
<1>6. WrittenBack'
  <2> SUFFICES ASSUME NEW u \in Tasks, NEW p \in Pages, pc'[u] \in {"unmapLogical", "unmapPhysical"},
                      loaded'[victim[u]] = p, map[Home(p)][p] = victim[u]
               PROVE  DiskContent(p) = Latest(p)
    BY <1>e DEF WrittenBack, DiskContent, Latest, Home
  <2>1. pc'[u] = pc[u]
    BY <1>e
  <2>2. loaded'[victim[u]] = loaded[victim[u]]
    BY <1>e, <1>j, <2>1 DEF Emptying, VictimLabels
  <2> QED BY <2>1, <2>2 DEF WrittenBack
<1>7. FreshIsLatest'
  <2> SUFFICES ASSUME NEW u \in Tasks, NEW p \in Pages, pc'[u] = "publish", page[u] = p
               PROVE  buf'[frame[u]] = Latest(p)
    BY <1>e DEF FreshIsLatest, Latest
  <2>1. CASE u = t
    BY <1>e, <1>h, <2>1
  <2>2. CASE u # t
    BY <1>e, <1>j, <2>2 DEF FreshIsLatest, FrameLabels
  <2> QED BY <2>1, <2>2
<1> QED BY <1>1, <1>2, <1>3, <1>4, <1>5, <1>6, <1>7

LEMMA InstallNewCopies ==
  ASSUME CopyTypes, OwnInv, CopyInv, NEW t \in Tasks, InstallNew(t) PROVE CopyInv'
<1> USE DEF CopyInv, CopyTypes
<1>e. /\ pc[t] = "install" /\ pc' = [pc EXCEPT ![t] = "publish"]
      /\ buf' = [buf EXCEPT ![frame[t]] = [page |-> page[t], ver |-> 0]]
      /\ loaded' = [loaded EXCEPT ![frame[t]] = page[t]]
      /\ dirty' = dirty \ {frame[t]}
      /\ map' = [map EXCEPT !["logical"][page[t]] = frame[t]]
      /\ frame[t] \in Frames /\ page[t] \in Pages /\ "logical" \in Routes
      /\ disk' = disk /\ known' = known
      /\ reserved' = reserved /\ latest' = latest /\ route' = route /\ kind' = kind
      /\ page' = page /\ frame' = frame /\ victim' = victim
  BY DEF InstallNew, Goto, FrameLabels, diskVars, callVars, ghostVars, Routes
<1>t. TaskStep(t) /\ pc'[t] = "publish"
  BY <1>e DEF TaskStep
<1>f. page[t] \notin known /\ Creating(t)
  BY <1>e DEF PageScope, Scope
<1>g. loaded[frame[t]] = NoPage
  BY <1>e DEF OwnInv, TakenEmpty, Taking
<1>h. latest[page[t]] = 0 /\ disk[page[t]] = NoContent /\ DiskContent(page[t]) = Latest(page[t])
  BY <1>e, <1>f DEF UnknownPage, DiskContent, Latest
<1>k. \A f : ~Installed(f, page[t])
  BY <1>e, <1>f DEF Installed, CreatingAlone
<1>l. /\ \A f \in Frames : loaded[f] # page[t]
      /\ \A r \in Routes : map[r][page[t]] = NoFrame
  BY <1>e, <1>f, <1>k DEF UnknownPage
<1>j. \A u \in Tasks : /\ pc[u] = "publish" => frame[u] # frame[t]
                       /\ pc[u] \in Emptying => victim[u] # frame[t]
  BY <1>e, <1>g DEF OwnInv, TakenOwned, Taking, EmptyingLoaded
<1>m. \A r \in Routes, p \in Pages :
        map'[r][p] = IF r = "logical" /\ p = page[t] THEN frame[t] ELSE map[r][p]
  BY <1>e
<1>i. /\ \A f, p : (Installed(f, p) => Installed(f, p)') /\ (Leaving(f, p) => Leaving(f, p)')
      /\ Installed(frame[t], page[t])'
  <2>1. Installed(frame[t], page[t])'
    BY <1>e, <1>t, <1>f DEF Installed, Creating
  <2> QED BY <1>e, <1>t, <2>1, InstalledStays, LeavingStays
<1>1. KnownReserved' /\ PageScope' /\ CreatingAlone'
  <2>1. Scope(t)' /\ (Creating(t)' => Creating(t) /\ page'[t] = page[t])
    BY <1>e, <1>t, <1>f, ScopeAsks DEF PageScope, Asking, Labels, NewLabels
  <2> QED BY <1>e, <1>t, <2>1, ScopesSame
<1>2. UnknownPage'
  <2> SUFFICES ASSUME NEW p \in Pages \ known
               PROVE  /\ latest[p] = 0 /\ disk[p] = NoContent
                      /\ \A f \in Frames : loaded'[f] = p => Installed(f, p)'
                      /\ \A r \in Routes, f \in Frames :
                           map'[r][p] = f => r = "logical" /\ Installed(f, p)'
    BY <1>e DEF UnknownPage
  <2>0. Installed(frame[t], page[t])'
    BY <1>i
  <2>1. latest[p] = 0 /\ disk[p] = NoContent
    BY DEF UnknownPage
  <2>2. ASSUME NEW f \in Frames, loaded'[f] = p PROVE Installed(f, p)'
    <3>1. CASE f = frame[t]
      <4>1. p = page[t]
        BY <1>e, <2>2, <3>1
      <4> QED BY <1>e, <1>t, <1>f, <3>1, <4>1 DEF Installed, Creating
    <3>2. CASE f # frame[t]
      BY <1>e, <1>i, <2>2, <3>2 DEF UnknownPage
    <3> QED BY <3>1, <3>2
  <2>3. ASSUME NEW r \in Routes, NEW f \in Frames, map'[r][p] = f
        PROVE  r = "logical" /\ Installed(f, p)'
    <3>1. CASE r = "logical" /\ p = page[t]
      <4>1. f = frame[t]
        BY <1>e, <1>m, <2>3, <3>1
      <4> QED BY <1>e, <1>t, <1>f, <3>1, <4>1 DEF Installed, Creating
    <3>2. CASE ~(r = "logical" /\ p = page[t])
      BY <1>i, <1>m, <2>3, <3>2 DEF UnknownPage
    <3> QED BY <3>1, <3>2
  <2> QED BY <2>1, <2>2, <2>3
<1>3. OneCopy'
  <2> SUFFICES ASSUME NEW f \in Frames, NEW p \in Pages, loaded'[f] = p
               PROVE  \/ map'[Home(p)][p] = f
                      \/ Leaving(f, p)'
                      \/ Home(p) = "physical" /\ Installed(f, p)'
    BY <1>e DEF OneCopy, Home
  <2>1. CASE f = frame[t]
    <3>1. p = page[t]
      BY <1>e, <2>1
    <3>2. CASE Home(p) = "logical"
      BY <1>e, <1>m, <2>1, <3>1, <3>2
    <3>3. CASE Home(p) = "physical"
      BY <1>e, <1>t, <1>f, <2>1, <3>1, <3>3 DEF Installed, Creating
    <3> QED BY <3>2, <3>3 DEF Home
  <2>2. CASE f # frame[t]
    <3>1. loaded[f] = p /\ p # page[t]
      BY <1>e, <1>l, <2>2
    <3>2. map'[Home(p)][p] = map[Home(p)][p]
      BY <1>m, <3>1, HomeType
    <3> QED BY <1>i, <3>1, <3>2 DEF OneCopy
  <2> QED BY <2>1, <2>2
<1>4. LoadHome'
  <2> SUFFICES ASSUME NEW u \in Tasks, pc'[u] = "load" PROVE map'[route[u]][page[u]] = frame[u]
    BY <1>e DEF LoadHome
  <2>1. pc[u] = "load" /\ page[u] \in Pages /\ route[u] \in Routes
    BY <1>e DEF FrameLabels
  <2>2. page[u] \in known
    BY <2>1 DEF PageScope, Scope, NewLabels, Emptying
  <2> QED BY <1>f, <1>m, <2>1, <2>2 DEF LoadHome
<1>5. CopyIsLatest'
  <2> SUFFICES ASSUME NEW p \in Pages
               PROVE IF HomeLoaded(p)'
                       THEN /\ buf'[map'[Home(p)][p]] = Latest(p)
                            /\ map'[Home(p)][p] \notin dirty' => DiskContent(p) = Latest(p)
                       ELSE DiskContent(p) = Latest(p)
    BY <1>e DEF CopyIsLatest, DiskContent, Latest, Home
  <2>1. CASE p = page[t]
    <3>1. map'[Home(p)][p] \in {frame[t], NoFrame}
      BY <1>l, <1>m, <2>1, HomeType
    <3>2. HomeLoaded(p)' => map'[Home(p)][p] = frame[t]
      BY <3>1 DEF HomeLoaded, Home
    <3> QED BY <1>e, <1>h, <2>1, <3>2 DEF Latest
  <2>2. CASE p # page[t]
    <3>0. map'[Home(p)][p] = map[Home(p)][p]
      BY <1>m, <2>2, HomeType
    <3>1. HomeLoaded(p)' <=> HomeLoaded(p)
      BY <1>e, <1>g, <2>2, <3>0, HomeType DEF HomeLoaded, Home
    <3>2. HomeLoaded(p) => map[Home(p)][p] # frame[t] /\ map[Home(p)][p] \in Frames
      BY <1>g, HomeType DEF HomeLoaded
    <3> QED BY <1>e, <3>0, <3>1, <3>2 DEF CopyIsLatest
  <2> QED BY <2>1, <2>2
<1>6. WrittenBack'
  <2> SUFFICES ASSUME NEW u \in Tasks, NEW p \in Pages, pc'[u] \in {"unmapLogical", "unmapPhysical"},
                      loaded'[victim[u]] = p, map'[Home(p)][p] = victim[u]
               PROVE  DiskContent(p) = Latest(p)
    BY <1>e DEF WrittenBack, DiskContent, Latest, Home
  <2>1. pc'[u] = pc[u]
    BY <1>e
  <2>2. loaded'[victim[u]] = loaded[victim[u]] /\ victim[u] \in Frames /\ victim[u] # frame[t]
    BY <1>e, <1>j, <2>1 DEF Emptying, VictimLabels
  <2>3. map'[Home(p)][p] = map[Home(p)][p]
    BY <1>m, <2>2, HomeType
  <2> QED BY <2>1, <2>2, <2>3 DEF WrittenBack
<1>7. FreshIsLatest'
  <2> SUFFICES ASSUME NEW u \in Tasks, NEW p \in Pages, pc'[u] = "publish", page[u] = p
               PROVE  buf'[frame[u]] = Latest(p)
    BY <1>e DEF FreshIsLatest, Latest
  <2>1. CASE u = t
    BY <1>e, <1>h, <2>1 DEF Latest
  <2>2. CASE u # t
    BY <1>e, <1>j, <2>2 DEF FreshIsLatest, FrameLabels
  <2> QED BY <2>1, <2>2
<1> QED BY <1>1, <1>2, <1>3, <1>4, <1>5, <1>6, <1>7

LEMMA PublishOtherCopies ==
  ASSUME CopyTypes, LatchProtocol, OwnInv, CopyInv, named = loaded,
         NEW t \in Tasks, PublishOther(t)
  PROVE  CopyInv'
<1> USE DEF CopyInv, CopyTypes
<1> DEFINE r == IF kind[t] = "new" THEN "physical" ELSE Other(route[t])
<1>g. pc[t] = "publish" /\ frame[t] \in Frames /\ loaded[frame[t]] = page[t]
  BY DEF PublishOther, FrameLabels, OwnInv, UseLoaded, Using
<1>k. Key(r, frame[t]) = page[t]
  BY <1>g DEF Key
<1>e. /\ pc[t] = "publish" /\ pc' = [pc EXCEPT ![t] = "hold"]
      /\ map' = [map EXCEPT ![r][page[t]] = frame[t]]
      /\ known' = known \union {page[t]}
      /\ frame[t] \in Frames /\ page[t] \in Pages /\ r \in Routes
      /\ loaded' = loaded /\ dirty' = dirty /\ buf' = buf /\ disk' = disk
      /\ reserved' = reserved /\ latest' = latest /\ route' = route /\ kind' = kind
      /\ page' = page /\ frame' = frame /\ victim' = victim
  BY <1>k DEF PublishOther, Goto, FrameLabels, diskVars, callVars, ghostVars, Routes, Other
<1>t. TaskStep(t) /\ pc'[t] = "hold"
  BY <1>e DEF TaskStep
<1>f. /\ Creating(t) <=> kind[t] = "new"
      /\ Creating(t) => page[t] \notin known /\ r = "physical"
      /\ ~Creating(t) => page[t] \in known /\ Home(page[t]) # r
  <2>1. Creating(t) <=> kind[t] = "new"
    BY <1>e DEF Creating
  <2>2. Scope(t) /\ pc[t] \in Asking /\ page[t] # NoPage
    BY <1>e DEF PageScope, Asking, Labels
  <2> QED BY <1>e, <2>1, <2>2 DEF Scope, Other, Routes
<1>m. \A q \in Routes, p \in Pages :
        map'[q][p] = IF q = r /\ p = page[t] THEN frame[t] ELSE map[q][p]
  BY <1>e
<1> HIDE DEF r
<1>i. \A f, p : Leaving(f, p) => Leaving(f, p)'
  BY <1>e, <1>t, LeavingStays
<1>j. \A f, p : Installed(f, p) /\ p # page[t] => Installed(f, p)'
  <2> SUFFICES ASSUME NEW f, NEW p, p # page[t], NEW u \in Tasks,
                      Creating(u), pc[u] = "publish", frame[u] = f, page[u] = p
               PROVE  Installed(f, p)'
    BY DEF Installed
  <2>1. u # t
    OBVIOUS
  <2> QED BY <1>t, <2>1, OtherTasks DEF Installed, Creating
<1>1. KnownReserved' /\ PageScope' /\ CreatingAlone'
  <2>1. Scope(t)' /\ ~Creating(t)'
    BY <1>e, <1>t, ScopeHolds DEF PageScope
  <2>2. \A u \in Tasks : u # t /\ Creating(u) => page[u] \notin known'
    BY <1>e, <1>f DEF PageScope, Scope, CreatingAlone
  <2>3. known \subseteq known' /\ known' \subseteq reserved'
    BY <1>e DEF KnownReserved, PageScope, Scope
  <2> QED BY <1>e, <1>t, <2>1, <2>2, <2>3, ScopesKept
<1>2. UnknownPage'
  <2> SUFFICES ASSUME NEW p \in Pages \ known, p # page[t]
               PROVE  /\ latest[p] = 0 /\ disk[p] = NoContent
                      /\ \A f \in Frames : loaded[f] = p => Installed(f, p)'
                      /\ \A q \in Routes, f \in Frames :
                           map'[q][p] = f => q = "logical" /\ Installed(f, p)'
    BY <1>e DEF UnknownPage
  <2> QED BY <1>m, <1>j DEF UnknownPage
<1>3. OneCopy'
  <2> SUFFICES ASSUME NEW f \in Frames, NEW p \in Pages, loaded[f] = p
               PROVE  \/ map'[Home(p)][p] = f
                      \/ Leaving(f, p)'
                      \/ Home(p) = "physical" /\ Installed(f, p)'
    BY <1>e DEF OneCopy, Home
  <2>1. CASE p # page[t]
    <3>1. map'[Home(p)][p] = map[Home(p)][p]
      BY <1>m, <2>1, HomeType
    <3> QED BY <1>i, <1>j, <2>1, <3>1 DEF OneCopy
  <2>2. CASE p = page[t] /\ Creating(t)
    <3>1. Installed(f, p)
      BY <1>f, <2>2 DEF UnknownPage
    <3>2. f = frame[t]
      BY <2>2, <3>1 DEF Installed, CreatingAlone
    <3>3. CASE Home(p) = "physical"
      BY <1>f, <1>m, <2>2, <3>2, <3>3, HomeType
    <3>4. CASE Home(p) = "logical"
      <4>1. map'[Home(p)][p] = map[Home(p)][p]
        BY <1>f, <1>m, <2>2, <3>4, HomeType
      <4> QED BY <1>i, <3>4, <4>1 DEF OneCopy
    <3> QED BY <3>3, <3>4 DEF Home
  <2>3. CASE p = page[t] /\ ~Creating(t)
    <3>1. map'[Home(p)][p] = map[Home(p)][p]
      BY <1>f, <1>m, <2>3, HomeType
    <3>2. ~Installed(f, p)
      BY <1>f, <2>3 DEF Installed, PageScope, Scope
    <3> QED BY <1>i, <3>1, <3>2 DEF OneCopy
  <2> QED BY <2>1, <2>2, <2>3
<1>4. LoadHome'
  <2> SUFFICES ASSUME NEW u \in Tasks, pc'[u] = "load" PROVE map'[route[u]][page[u]] = frame[u]
    BY <1>e DEF LoadHome
  <2>1. pc[u] = "load" /\ page[u] \in Pages /\ route[u] \in Routes
    BY <1>e
  <2>2. page[u] \in known /\ route[u] = Home(page[u])
    BY <2>1 DEF PageScope, Scope, NewLabels, Emptying, Asking, Labels
  <2> QED BY <1>f, <1>m, <2>1, <2>2 DEF LoadHome
<1>5. CopyIsLatest'
  <2> SUFFICES ASSUME NEW p \in Pages
               PROVE IF HomeLoaded(p)'
                       THEN /\ buf[map'[Home(p)][p]] = Latest(p)
                            /\ map'[Home(p)][p] \notin dirty => DiskContent(p) = Latest(p)
                       ELSE DiskContent(p) = Latest(p)
    BY <1>e DEF CopyIsLatest, DiskContent, Latest, Home
  <2>1. CASE map'[Home(p)][p] = map[Home(p)][p]
    BY <1>e, <2>1 DEF CopyIsLatest, HomeLoaded, Home
  <2>2. CASE map'[Home(p)][p] # map[Home(p)][p]
    <3>1. p = page[t] /\ Home(p) = r /\ map'[Home(p)][p] = frame[t]
      BY <1>m, <2>2, HomeType
    <3>2. buf[frame[t]] = Latest(p)
      BY <1>e, <3>1 DEF FreshIsLatest
    <3>3. latest[p] = 0 /\ disk[p] = NoContent
      BY <1>f, <3>1 DEF UnknownPage
    <3>4. DiskContent(p) = Latest(p)
      BY <3>3 DEF DiskContent, Latest
    <3> QED BY <3>1, <3>2, <3>4
  <2> QED BY <2>1, <2>2
<1>6. WrittenBack'
  <2> SUFFICES ASSUME NEW u \in Tasks, NEW p \in Pages, pc'[u] \in {"unmapLogical", "unmapPhysical"},
                      loaded[victim[u]] = p, map'[Home(p)][p] = victim[u]
               PROVE  DiskContent(p) = Latest(p)
    BY <1>e DEF WrittenBack, DiskContent, Latest, Home
  <2>1. pc'[u] = pc[u] /\ u # t
    BY <1>e
  <2>2. victim[u] # frame[t]
    <3>1. HoldsWrite(t, frame[t])
      BY <1>e DEF HoldsWrite
    <3>2. HoldsWrite(u, victim[u])
      BY <2>1 DEF HoldsWrite
    <3> QED BY <1>e, <2>1, <3>1, <3>2 DEF LatchProtocol
  <2>3. map'[Home(p)][p] = map[Home(p)][p]
    BY <1>m, <2>2, HomeType
  <2> QED BY <2>1, <2>3 DEF WrittenBack
<1>7. FreshIsLatest'
  BY <1>e DEF FreshIsLatest, Latest
<1> QED BY <1>1, <1>2, <1>3, <1>4, <1>5, <1>6, <1>7

LEMMA WritePageCopies ==
  ASSUME CopyTypes, LatchProtocol, OwnInv, CopyInv, version \in Nat, NEW t \in Tasks, WritePage(t)
  PROVE  CopyInv'
<1> USE DEF CopyInv, CopyTypes
<1>e. /\ pc[t] = "hold" /\ kind[t] \in {"write", "new"}
      /\ buf' = [buf EXCEPT ![frame[t]] = [page |-> page[t], ver |-> version + 1]]
      /\ frame[t] \in Frames /\ page[t] \in Pages /\ loaded[frame[t]] = page[t]
      /\ map' = map /\ loaded' = loaded /\ disk' = disk /\ known' = known
      /\ reserved' = reserved /\ pc' = pc /\ route' = route /\ kind' = kind
      /\ page' = page /\ frame' = frame /\ victim' = victim
  BY DEF WritePage, FrameLabels, diskVars, callVars, OwnInv, UseLoaded, Using
<1>d. /\ dirty' = dirty \union {frame[t]}
      /\ latest' = [latest EXCEPT ![page[t]] = version + 1]
  BY <1>e DEF WritePage
<1>f. HoldsWrite(t, frame[t])
  BY <1>e DEF HoldsWrite
<1>g. map[Home(page[t])][page[t]] = frame[t] /\ page[t] \in known
  BY <1>e, <1>f, LatchedCopy DEF Unmapped
<1>h. \A u \in Tasks : u # t => ~HoldsWrite(u, frame[t])
  BY <1>e, <1>f, ConstantsAssumption DEF LatchProtocol
<1>1. KnownReserved' /\ PageScope' /\ CreatingAlone'
  BY <1>e DEF KnownReserved, PageScope, Scope, Creating, CreatingAlone
<1>2. UnknownPage'
  BY <1>e, <1>d, <1>g DEF UnknownPage, Installed, Creating
<1>3. OneCopy'
  BY <1>e DEF OneCopy, Home, Leaving, Unmapped, Installed, Creating
<1>4. LoadHome'
  BY <1>e DEF LoadHome
<1>5. CopyIsLatest'
  <2> SUFFICES ASSUME NEW p \in Pages
               PROVE IF HomeLoaded(p)
                       THEN /\ buf'[map[Home(p)][p]] = Latest(p)'
                            /\ map[Home(p)][p] \notin dirty' => DiskContent(p) = Latest(p)'
                       ELSE DiskContent(p) = Latest(p)'
    BY <1>e DEF CopyIsLatest, HomeLoaded, DiskContent, Home
  <2>1. CASE p = page[t]
    BY <1>e, <1>d, <1>g, <2>1 DEF HomeLoaded, Latest
  <2>2. CASE p # page[t]
    <3>1. Latest(p)' = Latest(p)
      BY <1>d, <2>2 DEF Latest
    <3>2. HomeLoaded(p) => map[Home(p)][p] # frame[t] /\ map[Home(p)][p] \in Frames
      BY <1>e, <2>2, HomeType DEF HomeLoaded
    <3> QED BY <1>e, <1>d, <3>1, <3>2 DEF CopyIsLatest
  <2> QED BY <2>1, <2>2
<1>6. WrittenBack'
  <2> SUFFICES ASSUME NEW u \in Tasks, NEW p \in Pages, pc[u] \in {"unmapLogical", "unmapPhysical"},
                      loaded[victim[u]] = p, map[Home(p)][p] = victim[u]
               PROVE  DiskContent(p) = Latest(p)'
    BY <1>e DEF WrittenBack, DiskContent, Home
  <2>1. HoldsWrite(u, victim[u]) /\ u # t
    BY <1>e DEF HoldsWrite
  <2>2. p # page[t]
    BY <1>g, <1>h, <2>1
  <2>3. Latest(p)' = Latest(p)
    BY <1>d, <2>2 DEF Latest
  <2> QED BY <2>3 DEF WrittenBack
<1>7. FreshIsLatest'
  <2> SUFFICES ASSUME NEW u \in Tasks, NEW p \in Pages, pc[u] = "publish", page[u] = p
               PROVE  buf'[frame[u]] = Latest(p)'
    BY <1>e DEF FreshIsLatest
  <2>1. HoldsWrite(u, frame[u]) /\ u # t /\ frame[u] \in Frames
    BY <1>e DEF HoldsWrite, FrameLabels
  <2>2. frame[u] # frame[t]
    BY <1>h, <2>1
  <2>3. loaded[frame[u]] = p
    BY DEF OwnInv, UseLoaded, Using
  <2>4. p # page[t]
    <3> SUFFICES ASSUME p = page[t] PROVE FALSE
      OBVIOUS
    <3>1. map[Home(p)][p] # frame[u]
      BY <1>g, <2>2
    <3>2. ~Installed(frame[u], p)
      BY <1>g DEF Installed, PageScope, Scope
    <3>3. Leaving(frame[u], p)
      BY <2>1, <2>3, <3>1, <3>2 DEF OneCopy
    <3>4. PICK w \in Tasks : victim[w] = frame[u] /\ pc[w] \in {"unmapPhysical", "clear"}
      BY <3>3 DEF Leaving, Unmapped
    <3>5. HoldsWrite(w, frame[u]) /\ w # u
      BY <3>4 DEF HoldsWrite
    <3> QED BY <2>1, <3>5 DEF LatchProtocol
  <2>5. Latest(p)' = Latest(p)
    BY <1>d, <2>4 DEF Latest
  <2> QED BY <1>e, <2>1, <2>2, <2>5 DEF FreshIsLatest
<1> QED BY <1>1, <1>2, <1>3, <1>4, <1>5, <1>6, <1>7

LEMMA EvictLoadedCopies ==
  ASSUME CopyTypes, CopyInv, NEW t \in Tasks, EvictLoaded(t) PROVE CopyInv'
<1> USE DEF CopyInv, CopyTypes
<1>e. /\ pc[t] = "latchVictim" /\ pc'[t] \in {"writeBack", "unmapLogical"}
      /\ pc' = [pc EXCEPT ![t] = pc'[t]]
      /\ pc'[t] = "unmapLogical" => victim[t] \notin dirty
      /\ victim[t] \in Frames
      /\ map' = map /\ loaded' = loaded /\ dirty' = dirty /\ buf' = buf /\ disk' = disk
      /\ known' = known /\ reserved' = reserved /\ latest' = latest /\ route' = route
      /\ kind' = kind /\ page' = page /\ frame' = frame /\ victim' = victim
  BY DEF EvictLoaded, Goto, VictimLabels, diskVars, callVars, ghostVars
<1>t. TaskStep(t)
  BY <1>e DEF TaskStep
<1>i. \A f, p : (Installed(f, p) => Installed(f, p)') /\ (Leaving(f, p) => Leaving(f, p)')
  BY <1>e, <1>t, InstalledStays, LeavingStays
<1>1. KnownReserved' /\ PageScope' /\ CreatingAlone'
  <2>1. Scope(t)' /\ (Creating(t)' => Creating(t) /\ page'[t] = page[t])
    BY <1>e, <1>t, ScopeAsks DEF PageScope, Asking, Labels, NewLabels, Emptying
  <2> QED BY <1>e, <1>t, <2>1, ScopesSame
<1>2. UnknownPage' /\ OneCopy'
  BY <1>e, <1>i DEF UnknownPage, OneCopy, Home
<1>3. LoadHome' /\ FreshIsLatest'
  BY <1>e DEF LoadHome, FreshIsLatest, Latest
<1>4. CopyIsLatest'
  BY <1>e DEF CopyIsLatest, HomeLoaded, DiskContent, Latest, Home
<1>5. WrittenBack'
  <2> SUFFICES ASSUME NEW u \in Tasks, NEW p \in Pages, pc'[u] \in {"unmapLogical", "unmapPhysical"},
                      loaded[victim[u]] = p, map[Home(p)][p] = victim[u]
               PROVE  DiskContent(p) = Latest(p)
    BY <1>e DEF WrittenBack, DiskContent, Latest, Home
  <2>1. CASE u = t
    <3>1. victim[t] \notin dirty /\ HomeLoaded(p)
      BY <1>e, <2>1 DEF HomeLoaded
    <3> QED BY <2>1, <3>1 DEF CopyIsLatest
  <2>2. CASE u # t
    BY <1>e, <2>2 DEF WrittenBack
  <2> QED BY <2>1, <2>2
<1> QED BY <1>1, <1>2, <1>3, <1>4, <1>5

(* Writing the latest version of a loaded page to disk. *)
LEMMA SavedCopies ==
  ASSUME CopyTypes, CopyInv, NEW t \in Tasks, TaskStep(t), NEW f \in Frames, NEW p \in Pages,
         loaded[f] = p, map[Home(p)][p] = f, p \in known,
         disk' = [disk EXCEPT ![p] = buf[f]],
         map' = map, loaded' = loaded, buf' = buf, known' = known, latest' = latest,
         dirty' \in {dirty, dirty \ {f}},
         pc[t] \notin {"load", "publish", "unmapLogical", "unmapPhysical", "clear"},
         pc'[t] \notin {"load", "publish", "unmapPhysical", "clear"},
         pc'[t] = "unmapLogical" => victim'[t] = f
  PROVE  Copies'
<1> USE DEF CopyInv, CopyTypes
<1>1. buf[f] = Latest(p)
  BY DEF CopyIsLatest, HomeLoaded
<1>2. Latest(p) # NoContent
  BY ConstantsAssumption DEF Latest
<1>3. /\ DiskContent(p)' = Latest(p)
      /\ \A q \in Pages : q # p => DiskContent(q)' = DiskContent(q)
      /\ \A q \in Pages : Latest(q)' = Latest(q)
  BY <1>1, <1>2 DEF DiskContent, Latest
<1>i. \A g, q : (Installed(g, q) => Installed(g, q)') /\ (Leaving(g, q) => Leaving(g, q)')
  BY InstalledStays, LeavingStays
<1>4. UnknownPage'
  BY <1>i DEF UnknownPage
<1>5. OneCopy'
  BY <1>i DEF OneCopy, Home
<1>6. LoadHome' /\ FreshIsLatest'
  BY <1>3, OtherTasks DEF LoadHome, FreshIsLatest
<1>7. CopyIsLatest'
  <2> SUFFICES ASSUME NEW q \in Pages
               PROVE IF HomeLoaded(q)
                       THEN /\ buf[map[Home(q)][q]] = Latest(q)
                            /\ map[Home(q)][q] \notin dirty' => DiskContent(q)' = Latest(q)
                       ELSE DiskContent(q)' = Latest(q)
    BY <1>3 DEF CopyIsLatest, HomeLoaded, Home
  <2>1. CASE q = p
    BY <1>1, <1>3, <2>1
  <2>2. CASE q # p
    <3>1. HomeLoaded(q) => map[Home(q)][q] # f
      BY <2>2 DEF HomeLoaded
    <3> QED BY <1>3, <2>2, <3>1 DEF CopyIsLatest
  <2> QED BY <2>1, <2>2
<1>8. WrittenBack'
  <2> SUFFICES ASSUME NEW u \in Tasks, NEW q \in Pages, pc'[u] \in {"unmapLogical", "unmapPhysical"},
                      loaded[victim'[u]] = q, map[Home(q)][q] = victim'[u]
               PROVE  DiskContent(q)' = Latest(q)
    BY <1>3 DEF WrittenBack, Home
  <2>1. CASE q = p
    BY <1>3, <2>1
  <2>2. CASE q # p
    <3>1. u # t
      BY <2>2
    <3> QED BY <1>3, <2>2, <3>1, OtherTasks DEF WrittenBack
  <2> QED BY <2>1, <2>2
<1> QED BY <1>4, <1>5, <1>6, <1>7, <1>8 DEF Copies

LEMMA WriteBackCopies ==
  ASSUME CopyTypes, LatchProtocol, OwnInv, CopyInv, NEW t \in Tasks, WriteBack(t) PROVE CopyInv'
<1> USE DEF CopyInv, CopyTypes
<1>e. /\ pc[t] = "writeBack" /\ pc' = [pc EXCEPT ![t] = "unmapLogical"]
      /\ disk' = [disk EXCEPT ![loaded[victim[t]]] = buf[victim[t]]]
      /\ victim[t] \in Frames
      /\ map' = map /\ loaded' = loaded /\ dirty' = dirty /\ buf' = buf
      /\ known' = known /\ reserved' = reserved /\ latest' = latest /\ route' = route
      /\ kind' = kind /\ page' = page /\ frame' = frame /\ victim' = victim
  BY DEF WriteBack, Goto, VictimLabels, poolVars, callVars, ghostVars
<1>t. TaskStep(t) /\ pc'[t] = "unmapLogical"
  BY <1>e DEF TaskStep
<1>f. loaded[victim[t]] \in Pages /\ HoldsWrite(t, victim[t])
  BY <1>e DEF OwnInv, EmptyingLoaded, Emptying, HoldsWrite
<1>g. /\ map[Home(loaded[victim[t]])][loaded[victim[t]]] = victim[t]
      /\ loaded[victim[t]] \in known
  BY <1>e, <1>f, LatchedCopy DEF Unmapped
<1>1. KnownReserved' /\ PageScope' /\ CreatingAlone'
  <2>1. Scope(t)' /\ (Creating(t)' => Creating(t) /\ page'[t] = page[t])
    BY <1>e, <1>t, ScopeAsks DEF PageScope, Asking, Labels, NewLabels, Emptying
  <2> QED BY <1>e, <1>t, <2>1, ScopesSame
<1>2. Copies'
  BY <1>e, <1>t, <1>f, <1>g, SavedCopies
<1> QED BY <1>1, <1>2 DEF Copies

LEMMA FlushWriteCopies ==
  ASSUME CopyTypes, LatchProtocol, OwnInv, CopyInv, NEW t \in Tasks, FlushWrite(t) PROVE CopyInv'
<1> USE DEF CopyInv, CopyTypes
<1>e. /\ pc[t] = "flushWrite" /\ pc' = [pc EXCEPT ![t] = "flush"]
      /\ disk' = [disk EXCEPT ![page[t]] = buf[frame[t]]]
      /\ dirty' = dirty \ {frame[t]}
      /\ frame[t] \in Frames /\ page[t] \in Pages /\ loaded[frame[t]] = page[t]
      /\ frame' = [frame EXCEPT ![t] = NoFrame] /\ page' = [page EXCEPT ![t] = NoPage]
      /\ map' = map /\ loaded' = loaded /\ buf' = buf
      /\ known' = known /\ reserved' = reserved /\ latest' = latest /\ route' = route
      /\ kind' = kind /\ victim' = victim
  BY DEF FlushWrite, Goto, FrameLabels, ghostVars, OwnInv, UseLoaded, Using
<1>t. TaskStep(t) /\ pc'[t] = "flush" /\ page'[t] = NoPage
  BY <1>e DEF TaskStep
<1>f. HoldsRead(t, frame[t])
  BY <1>e DEF HoldsRead
<1>g. map[Home(page[t])][page[t]] = frame[t] /\ page[t] \in known
  BY <1>e, <1>f, LatchedCopy DEF Unmapped
<1>1. KnownReserved' /\ PageScope' /\ CreatingAlone'
  <2>1. kind'[t] # "new"
    BY <1>e DEF PageScope, Scope, Creating, NewLabels, Emptying
  <2>2. Scope(t)' /\ ~Creating(t)'
    BY <1>t, <2>1, ScopeReturns
  <2> QED BY <1>e, <1>t, <2>2, ScopesSame
<1>2. Copies'
  BY <1>e, <1>t, <1>g, SavedCopies
<1> QED BY <1>1, <1>2 DEF Copies

(* Removing the entry of the frame that t is emptying. *)
LEMMA UnmapCopies ==
  ASSUME CopyTypes, LatchProtocol, OwnInv, CopyInv, NEW t \in Tasks, NEW r \in Routes,
         \/ r = "logical" /\ pc[t] = "unmapLogical" /\ pc' = [pc EXCEPT ![t] = "unmapPhysical"]
         \/ r = "physical" /\ pc[t] = "unmapPhysical" /\ pc' = [pc EXCEPT ![t] = "clear"],
         map' = [map EXCEPT ![r][loaded[victim[t]]] = NoFrame],
         loaded' = loaded, dirty' = dirty, buf' = buf, disk' = disk, known' = known,
         reserved' = reserved, latest' = latest, route' = route, kind' = kind, page' = page,
         frame' = frame, victim' = victim
  PROVE  CopyInv'
<1> USE DEF CopyInv, CopyTypes
<1> DEFINE v == victim[t]
           p0 == loaded[v]
<1>e. /\ v \in Frames /\ p0 \in Pages /\ HoldsWrite(t, v)
      /\ pc' = [pc EXCEPT ![t] = pc'[t]] /\ pc'[t] \in {"unmapPhysical", "clear"}
      /\ pc[t] \in {"unmapLogical", "unmapPhysical"} /\ r \notin Unmapped(t) /\ r \in Unmapped(t)'
      /\ Unmapped(t) \subseteq Unmapped(t)'
      /\ pc'[t] = "unmapPhysical" => pc[t] = "unmapLogical"
  BY DEF OwnInv, EmptyingLoaded, Emptying, HoldsWrite, VictimLabels, Unmapped, Labels
<1>t. TaskStep(t)
  BY <1>e DEF TaskStep
<1>m. \A q \in Routes, p \in Pages :
        map'[q][p] = IF q = r /\ p = p0 THEN NoFrame ELSE map[q][p]
  BY <1>e
<1>g. Home(p0) = r => map[r][p0] = v /\ DiskContent(p0) = Latest(p0)
  <2> SUFFICES ASSUME Home(p0) = r PROVE map[r][p0] = v /\ DiskContent(p0) = Latest(p0)
    OBVIOUS
  <2>1. map[Home(p0)][p0] = v
    BY <1>e, LatchedCopy
  <2> QED BY <1>e, <2>1 DEF WrittenBack
<1> HIDE DEF v, p0
<1>i. \A f, p : (Installed(f, p) => Installed(f, p)') /\ (Leaving(f, p) => Leaving(f, p)')
  <2>1. ASSUME NEW f, NEW p, Leaving(f, p) PROVE Leaving(f, p)'
    <3>1. PICK u \in Tasks : victim[u] = f /\ Home(p) \in Unmapped(u)
      BY <2>1 DEF Leaving
    <3>2. Home(p) \in Unmapped(u)'
      <4>1. CASE u = t
        BY <1>e, <3>1, <4>1
      <4>2. CASE u # t
        BY <1>e, <3>1, <4>2 DEF Unmapped
      <4> QED BY <4>1, <4>2
    <3> QED BY <3>1, <3>2 DEF Leaving, Home
  <2> QED BY <1>e, <1>t, <2>1, InstalledStays
<1>1. KnownReserved' /\ PageScope' /\ CreatingAlone'
  <2>1. Scope(t)' /\ (Creating(t)' => Creating(t) /\ page'[t] = page[t])
    BY <1>e, <1>t, ScopeAsks DEF PageScope, Asking, Labels, NewLabels, Emptying
  <2> QED BY <1>e, <1>t, <2>1, ScopesSame
<1>2. UnknownPage'
  BY <1>m, <1>i DEF UnknownPage
<1>3. OneCopy'
  <2> SUFFICES ASSUME NEW f \in Frames, NEW p \in Pages, loaded[f] = p
               PROVE  \/ map'[Home(p)][p] = f
                      \/ Leaving(f, p)'
                      \/ Home(p) = "physical" /\ Installed(f, p)'
    BY DEF OneCopy, Home
  <2>1. CASE p = p0 /\ Home(p) = r /\ f = v
    <3>1. victim'[t] = f /\ Home(p) \in Unmapped(t)'
      BY <1>e, <2>1 DEF v
    <3> QED BY <3>1 DEF Leaving, Home
  <2>2. CASE p = p0 /\ Home(p) = r /\ f # v
    BY <1>g, <1>i, <2>2 DEF OneCopy
  <2>3. CASE ~(p = p0 /\ Home(p) = r)
    <3>1. map'[Home(p)][p] = map[Home(p)][p]
      BY <1>m, <2>3, HomeType
    <3> QED BY <1>i, <3>1 DEF OneCopy
  <2> QED BY <2>1, <2>2, <2>3
<1>4. LoadHome'
  <2> SUFFICES ASSUME NEW u \in Tasks, pc'[u] = "load" PROVE map'[route[u]][page[u]] = frame[u]
    BY DEF LoadHome
  <2>1. pc[u] = "load" /\ page[u] \in Pages /\ route[u] \in Routes /\ map[route[u]][page[u]] = frame[u]
    BY <1>e DEF LoadHome
  <2>2. route[u] = Home(page[u])
    BY <2>1 DEF PageScope, Scope, NewLabels, Emptying, Asking, Labels
  <2>3. frame[u] # v
    <3>1. loaded[frame[u]] = NoPage
      BY <2>1 DEF OwnInv, TakenEmpty, Taking
    <3> QED BY <1>e, <3>1 DEF p0
  <2> QED BY <1>g, <1>m, <2>1, <2>2, <2>3
<1>5. CopyIsLatest'
  <2> SUFFICES ASSUME NEW p \in Pages
               PROVE IF HomeLoaded(p)'
                       THEN /\ buf[map'[Home(p)][p]] = Latest(p)
                            /\ map'[Home(p)][p] \notin dirty => DiskContent(p) = Latest(p)
                       ELSE DiskContent(p) = Latest(p)
    BY DEF CopyIsLatest, DiskContent, Latest, Home
  <2>1. CASE p = p0 /\ Home(p) = r
    <3>1. ~HomeLoaded(p)'
      BY <1>m, <2>1, HomeType DEF HomeLoaded, Home
    <3> QED BY <1>g, <2>1, <3>1
  <2>2. CASE ~(p = p0 /\ Home(p) = r)
    <3>1. map'[Home(p)][p] = map[Home(p)][p]
      BY <1>m, <2>2, HomeType
    <3> QED BY <3>1 DEF CopyIsLatest, HomeLoaded, Home
  <2> QED BY <2>1, <2>2
<1>6. WrittenBack'
  <2> SUFFICES ASSUME NEW u \in Tasks, NEW p \in Pages, pc'[u] \in {"unmapLogical", "unmapPhysical"},
                      loaded[victim[u]] = p, map'[Home(p)][p] = victim[u]
               PROVE  DiskContent(p) = Latest(p)
    BY DEF WrittenBack, DiskContent, Latest, Home
  <2>1. pc[u] \in {"unmapLogical", "unmapPhysical"} /\ victim[u] \in Frames
    BY <1>e DEF VictimLabels
  <2>2. map'[Home(p)][p] = map[Home(p)][p]
    BY <1>m, <2>1, HomeType
  <2> QED BY <2>1, <2>2 DEF WrittenBack
<1>7. FreshIsLatest'
  BY <1>e DEF FreshIsLatest, Latest
<1> QED BY <1>1, <1>2, <1>3, <1>4, <1>5, <1>6, <1>7

LEMMA EvictClearCopies ==
  ASSUME CopyTypes, LatchProtocol, OwnInv, CopyInv, NEW t \in Tasks, EvictClear(t) PROVE CopyInv'
<1> USE DEF CopyInv, CopyTypes
<1>e. /\ pc[t] = "clear" /\ pc' = [pc EXCEPT ![t] = IF kind[t] = "new" THEN "pop" ELSE "lookup"]
      /\ loaded' = [loaded EXCEPT ![victim[t]] = NoPage]
      /\ dirty' = dirty \ {victim[t]}
      /\ victim' = [victim EXCEPT ![t] = NoFrame]
      /\ victim[t] \in Frames
      /\ map' = map /\ buf' = buf /\ disk' = disk /\ known' = known
      /\ reserved' = reserved /\ latest' = latest /\ route' = route /\ kind' = kind
      /\ page' = page /\ frame' = frame
  BY DEF EvictClear, Resume, Goto, VictimLabels, diskVars, callVars
<1>t. TaskStep(t) /\ pc'[t] = IF kind[t] = "new" THEN "pop" ELSE "lookup"
  BY <1>e DEF TaskStep
<1>f. \A r \in Routes, p \in Pages : map[r][p] # victim[t]
  BY <1>e DEF OwnInv, EmptyingUnmapped, Unmapped, Routes
<1>g. \A u \in Tasks : u # t /\ pc[u] \in Emptying => victim[u] # victim[t]
  <2>1. writer[victim[t]] = t
    <3>1. HoldsWrite(t, victim[t])
      BY <1>e DEF HoldsWrite
    <3> QED BY <1>e, <3>1 DEF LatchProtocol
  <2>2. ASSUME NEW u \in Tasks, pc[u] \in Emptying, victim[u] = victim[t] PROVE u = t
    <3>1. HoldsWrite(u, victim[t])
      BY <2>2 DEF HoldsWrite, Emptying
    <3> QED BY <1>e, <2>1, <3>1 DEF LatchProtocol
  <2> QED BY <2>2
<1>i. \A f, p : /\ Installed(f, p) => Installed(f, p)'
                /\ Leaving(f, p) /\ f # victim[t] => Leaving(f, p)'
  <2>1. ASSUME NEW f, NEW p, Leaving(f, p), f # victim[t] PROVE Leaving(f, p)'
    <3>1. PICK u \in Tasks : victim[u] = f /\ Home(p) \in Unmapped(u)
      BY <2>1 DEF Leaving
    <3>2. u # t
      BY <2>1, <3>1
    <3> QED BY <1>t, <3>1, <3>2, OtherTasks DEF Leaving, Unmapped, Home
  <2> QED BY <1>e, <1>t, <2>1, InstalledStays
<1>1. KnownReserved' /\ PageScope' /\ CreatingAlone'
  <2>1. Scope(t)' /\ (Creating(t)' => Creating(t) /\ page'[t] = page[t])
    BY <1>e, <1>t, ScopeAsks DEF PageScope, Asking, Labels, NewLabels
  <2> QED BY <1>e, <1>t, <2>1, ScopesSame
<1>2. UnknownPage'
  BY <1>e, <1>i DEF UnknownPage
<1>3. OneCopy'
  BY <1>e, <1>i DEF OneCopy, Home
<1>4. LoadHome' /\ FreshIsLatest'
  BY <1>e DEF LoadHome, FreshIsLatest, Latest
<1>5. CopyIsLatest'
  <2> SUFFICES ASSUME NEW p \in Pages
               PROVE IF HomeLoaded(p)'
                       THEN /\ buf[map[Home(p)][p]] = Latest(p)
                            /\ map[Home(p)][p] \notin dirty' => DiskContent(p) = Latest(p)
                       ELSE DiskContent(p) = Latest(p)
    BY <1>e DEF CopyIsLatest, DiskContent, Latest, Home
  <2>1. map[Home(p)][p] # victim[t] /\ map[Home(p)][p] \in Frames \union {NoFrame}
    BY <1>f, HomeType
  <2>2. HomeLoaded(p)' <=> HomeLoaded(p)
    BY <1>e, <2>1 DEF HomeLoaded, Home
  <2> QED BY <1>e, <2>1, <2>2 DEF CopyIsLatest
<1>6. WrittenBack'
  <2> SUFFICES ASSUME NEW u \in Tasks, NEW p \in Pages, pc'[u] \in {"unmapLogical", "unmapPhysical"},
                      loaded'[victim'[u]] = p, map[Home(p)][p] = victim'[u]
               PROVE  DiskContent(p) = Latest(p)
    BY <1>e DEF WrittenBack, DiskContent, Latest, Home
  <2>1. u # t /\ pc'[u] = pc[u] /\ victim'[u] = victim[u]
    BY <1>t, OtherTasks
  <2>2. victim[u] \in Frames /\ victim[u] # victim[t]
    BY <1>g, <2>1 DEF Emptying, VictimLabels
  <2> QED BY <1>e, <2>1, <2>2 DEF WrittenBack
<1> QED BY <1>1, <1>2, <1>3, <1>4, <1>5, <1>6

-----------------------------------------------------------------------------
(* The steps that change no copy *)

(* t goes on asking for its page, goes on with its guard, or returns. *)
LEMMA QuietKeepsCopies ==
  ASSUME CopyTypes, CopyInv, NEW t \in Tasks, TaskStep(t),
         map' = map, loaded' = loaded, buf' = buf, disk' = disk, dirty' = dirty,
         known' = known, reserved' = reserved, latest' = latest,
         pc[t] \notin {"load", "publish", "unmapLogical", "unmapPhysical", "clear"},
         pc'[t] \notin {"load", "publish", "unmapLogical", "unmapPhysical", "clear"},
         Scope(t)', Creating(t)' => Creating(t) /\ page'[t] = page[t]
  PROVE  CopyInv'
<1>1. KnownReserved' /\ PageScope' /\ CreatingAlone'
  BY ScopesSame DEF CopyInv
<1>2. Copies'
  BY QuietCopies DEF CopyInv, Copies
<1> QED BY <1>1, <1>2 DEF CopyInv, Copies

LEMMA CallCopies ==
  ASSUME RoutesApart, CopyTypes, CopyInv, NEW t \in Tasks, Call(t) PROVE CopyInv'
<1> USE DEF CopyInv, CopyTypes
<1>1. ASSUME NEW p \in Pages, NEW r \in Routes, NEW k \in {"read", "write", "keep"},
             StartFetch(t, p, r, k)
      PROVE  CopyInv'
  <2>1. /\ pc[t] = "idle" /\ pc' = [pc EXCEPT ![t] = "lookup"]
        /\ p \in known /\ r = Home(p)
        /\ route' = [route EXCEPT ![t] = r] /\ kind' = [kind EXCEPT ![t] = k]
        /\ page' = [page EXCEPT ![t] = p] /\ frame' = frame /\ victim' = victim
        /\ map' = map /\ loaded' = loaded /\ buf' = buf /\ disk' = disk /\ dirty' = dirty
        /\ known' = known /\ reserved' = reserved /\ latest' = latest
    BY <1>1 DEF StartFetch, Goto, poolVars, diskVars, RoutesApart, Home, Routes
  <2>2. TaskStep(t) /\ pc'[t] = "lookup" /\ page'[t] = p /\ route'[t] = r /\ kind'[t] = k
    BY <2>1 DEF TaskStep
  <2>3. ~Creating(t)'
    BY <2>2 DEF Creating
  <2>4. Scope(t)'
    BY <2>1, <2>2, <2>3 DEF Scope, KnownReserved, Home
  <2> QED BY <2>1, <2>2, <2>3, <2>4, QuietKeepsCopies
<1>2. ASSUME NEW p \in Pages, StartNew(t, p) PROVE CopyInv'
  <2>1. /\ pc[t] = "idle" /\ pc' = [pc EXCEPT ![t] = "pop"]
        /\ p \notin reserved /\ reserved' = reserved \union {p}
        /\ route' = route /\ kind' = [kind EXCEPT ![t] = "new"]
        /\ page' = [page EXCEPT ![t] = p] /\ frame' = frame /\ victim' = victim
        /\ map' = map /\ loaded' = loaded /\ buf' = buf /\ disk' = disk /\ dirty' = dirty
        /\ known' = known /\ latest' = latest
    BY <1>2 DEF StartNew, Goto, poolVars, ghostVars
  <2>2. TaskStep(t) /\ pc'[t] = "pop" /\ page'[t] = p /\ kind'[t] = "new"
    BY <2>1 DEF TaskStep
  <2>3. p \notin known /\ Creating(t)'
    BY <2>1, <2>2 DEF Creating, KnownReserved
  <2>4. Scope(t)'
    BY <2>1, <2>2, <2>3 DEF Scope, NewLabels
  <2>5. \A u \in Tasks : u # t /\ Creating(u) => page[u] \notin known' /\ page[u] # page'[t]
    BY <2>1, <2>2 DEF PageScope, Scope
  <2>6. KnownReserved' /\ PageScope' /\ CreatingAlone'
    BY <2>1, <2>2, <2>4, <2>5, ScopesKept DEF KnownReserved
  <2>7. Copies'
    BY <2>1, <2>2, QuietCopies DEF Copies
  <2> QED BY <2>6, <2>7 DEF Copies
<1>3. CASE StartFlush(t)
  <2>1. /\ pc[t] = "idle" /\ pc' = [pc EXCEPT ![t] = "flush"]
        /\ route' = route /\ kind' = [kind EXCEPT ![t] = "flush"]
        /\ page' = page /\ frame' = frame /\ victim' = victim
        /\ map' = map /\ loaded' = loaded /\ buf' = buf /\ disk' = disk /\ dirty' = dirty
        /\ known' = known /\ reserved' = reserved /\ latest' = latest
    BY <1>3 DEF StartFlush, Goto, poolVars, diskVars, ghostVars
  <2>2. TaskStep(t) /\ pc'[t] = "flush" /\ kind'[t] = "flush" /\ page'[t] = NoPage
    BY <2>1 DEF TaskStep, PageScope, Scope
  <2>3. Scope(t)' /\ ~Creating(t)'
    BY <2>2, ScopeReturns
  <2> QED BY <2>1, <2>2, <2>3, QuietKeepsCopies
<1> QED BY <1>1, <1>2, <1>3 DEF Call

(* The steps of a call that has no guard yet. *)
LEMMA AskingCopies ==
  ASSUME CopyTypes, CopyInv, NEW t \in Tasks, TaskStep(t),
         map' = map, loaded' = loaded, buf' = buf, disk' = disk, dirty' = dirty,
         known' = known, reserved' = reserved, latest' = latest,
         page' = page, kind' = kind, route' = route,
         pc[t] \in Asking \ {"load", "publish", "unmapLogical", "unmapPhysical", "clear"},
         pc'[t] \in Asking \ {"load", "publish", "unmapLogical", "unmapPhysical", "clear"},
         kind[t] = "new" => pc'[t] \in NewLabels,
         pc'[t] = "install" => kind[t] = "new"
  PROVE  CopyInv'
<1>1. Scope(t)' /\ (Creating(t)' => Creating(t) /\ page'[t] = page[t])
  BY ScopeAsks DEF CopyInv, PageScope
<1> QED BY <1>1, QuietKeepsCopies

LEMMA FindCopies ==
  ASSUME CopyTypes, OwnInv, CopyInv, NEW t \in Tasks, Find(t) PROVE CopyInv'
<1> USE DEF CopyTypes
<1>1. CASE Publish(t)
  BY <1>1, PublishCopies
<1>2. CASE ~Publish(t)
  <2>1. /\ map' = map /\ loaded' = loaded /\ buf' = buf /\ disk' = disk /\ dirty' = dirty
        /\ known' = known /\ reserved' = reserved /\ latest' = latest
        /\ page' = page /\ kind' = kind /\ route' = route /\ victim' = victim
    BY <1>2 DEF Find, LookupHit, LookupMiss, IncrPinFlag, PopVacant, NoVacant, PinVacant,
       LatchVacant, DupUnpin, DupPin, poolVars, diskVars, callVars, ghostVars
  <2>2. frame' = [frame EXCEPT ![t] = frame'[t]]
    <3>1. CASE LookupHit(t)
      BY <3>1 DEF LookupHit
    <3>2. CASE PopVacant(t)
      BY <3>2 DEF PopVacant
    <3>3. CASE DupPin(t)
      BY <3>3 DEF DupPin
    <3>4. CASE ~(LookupHit(t) \/ PopVacant(t) \/ DupPin(t))
      <4>1. frame' = frame
        BY <1>2, <3>4 DEF Find, LookupMiss, IncrPinFlag, NoVacant, PinVacant, LatchVacant, DupUnpin
      <4> QED BY <4>1
    <3> QED BY <3>1, <3>2, <3>3, <3>4
  <2> DEFINE From == {"lookup", "hitFlag", "vacantFlag", "dupHitFlag", "pop", "pinVacant",
                      "latchVacant", "recheck", "dupPin"}
             To == {"hitFlag", "await", "pop", "latchVacant", "pinVacant", "findVictim", "vacantFlag",
                    "install", "recheck", "dupFlag", "dupPin", "dupHitFlag"}
  <2>3. pc[t] \in From /\ \E l \in To : pc' = [pc EXCEPT ![t] = l]
    BY <1>2 DEF Find, LookupHit, LookupMiss, IncrPinFlag, PopVacant, NoVacant, PinVacant,
       LatchVacant, DupUnpin, DupPin, Goto
  <2>4. TaskStep(t) /\ pc'[t] \in To
    BY <2>1, <2>2, <2>3 DEF TaskStep
  <2>5. kind[t] = "new" => pc[t] \in NewLabels
    BY <2>3 DEF CopyInv, PageScope, Scope, Creating
  <2>6. /\ kind[t] = "new" => pc'[t] \in NewLabels
        /\ pc'[t] = "install" => kind[t] = "new"
    <3>1. CASE LookupHit(t)
      BY <2>1, <2>5, <3>1 DEF LookupHit, Goto, NewLabels, Emptying
    <3>2. CASE LookupMiss(t)
      BY <2>1, <2>5, <3>2 DEF LookupMiss, Goto, NewLabels, Emptying
    <3>3. CASE IncrPinFlag(t)
      BY <2>1, <2>5, <3>3 DEF IncrPinFlag, Goto, NewLabels, Emptying
    <3>4. CASE PopVacant(t)
      BY <2>1, <2>5, <3>4 DEF PopVacant, Goto, NewLabels, Emptying
    <3>5. CASE NoVacant(t)
      BY <2>1, <2>5, <3>5 DEF NoVacant, Goto, NewLabels, Emptying
    <3>6. CASE PinVacant(t)
      BY <2>1, <2>5, <3>6 DEF PinVacant, Goto, NewLabels, Emptying
    <3>7. CASE LatchVacant(t)
      BY <2>1, <2>5, <3>7 DEF LatchVacant, Goto, NewLabels, Emptying
    <3>8. CASE DupUnpin(t)
      BY <2>1, <2>5, <3>8 DEF DupUnpin, Goto, NewLabels, Emptying
    <3>9. CASE DupPin(t)
      BY <2>1, <2>5, <3>9 DEF DupPin, Goto, NewLabels, Emptying
    <3> QED BY <1>2, <3>1, <3>2, <3>3, <3>4, <3>5, <3>6, <3>7, <3>8, <3>9 DEF Find
  <2>7. /\ pc[t] \in Asking \ {"load", "publish", "unmapLogical", "unmapPhysical", "clear"}
        /\ pc'[t] \in Asking \ {"load", "publish", "unmapLogical", "unmapPhysical", "clear"}
    BY <2>3, <2>4 DEF Asking, Labels
  <2> QED BY <2>1, <2>4, <2>6, <2>7, AskingCopies
<1> QED BY <1>1, <1>2

LEMMA LoadCopies ==
  ASSUME CopyTypes, LatchProtocol, OwnInv, CopyInv, named = loaded, Clean',
         NEW t \in Tasks, Load(t)
  PROVE  CopyInv'
<1>1. ~LoadError(t)
  BY DEF LoadError, Clean
<1> QED BY <1>1, LoadPageCopies, InstallNewCopies, PublishOtherCopies DEF Load

LEMMA GuardCopies ==
  ASSUME CopyTypes, LatchProtocol, OwnInv, CopyInv, version \in Nat, NEW t \in Tasks, Guard(t)
  PROVE  CopyInv'
<1> USE DEF CopyTypes
<1>1. CASE WritePage(t)
  BY <1>1, WritePageCopies
<1>2. CASE Unlatch(t)
  <2>1. /\ map' = map /\ loaded' = loaded /\ buf' = buf /\ disk' = disk /\ dirty' = dirty
        /\ known' = known /\ reserved' = reserved /\ latest' = latest /\ pc[t] = "unlatch"
    BY <1>2 DEF Unlatch, diskVars, ghostVars
  <2>2. TaskStep(t) /\ pc'[t] = "idle" /\ page'[t] = NoPage
    BY <1>2 DEF Unlatch, Return, TaskStep
  <2>3. Scope(t)' /\ ~Creating(t)'
    BY <2>2, ScopeReturns
  <2> QED BY <2>1, <2>2, <2>3, QuietKeepsCopies
<1>3. CASE DecrPinFlag(t) /\ pc[t] = "dupFlag"
  <2>1. /\ map' = map /\ loaded' = loaded /\ buf' = buf /\ disk' = disk /\ dirty' = dirty
        /\ known' = known /\ reserved' = reserved /\ latest' = latest
        /\ page' = page /\ kind' = kind /\ route' = route /\ victim' = victim /\ frame' = frame
        /\ pc' = [pc EXCEPT ![t] = "dupPin"]
    BY <1>3 DEF DecrPinFlag, Goto, poolVars, diskVars, callVars, ghostVars
  <2>2. TaskStep(t) /\ pc'[t] = "dupPin"
    BY <2>1 DEF TaskStep
  <2>3. kind[t] # "new"
    BY <1>3 DEF CopyInv, PageScope, Scope, Creating, NewLabels, Emptying
  <2> QED BY <1>3, <2>1, <2>2, <2>3, AskingCopies DEF Asking, Labels
<1>4. CASE \/ AwaitRead(t) \/ AwaitWrite(t) \/ Downgrade(t) \/ KeepPinned(t) \/ DropPin(t)
           \/ DecrPinFlag(t) /\ pc[t] = "dropFlag"
  <2>1. /\ map' = map /\ loaded' = loaded /\ buf' = buf /\ disk' = disk /\ dirty' = dirty
        /\ known' = known /\ reserved' = reserved /\ latest' = latest
        /\ page' = page /\ route' = route /\ victim' = victim /\ frame' = frame
    BY <1>4 DEF AwaitRead, AwaitWrite, Downgrade, KeepPinned, DropPin, DecrPinFlag, poolVars,
       diskVars, callVars, ghostVars
  <2>2. /\ pc[t] \in {"await", "hold", "drop", "dropFlag"}
        /\ pc[t] = "await" => kind[t] # "new"
    BY <1>4 DEF AwaitRead, AwaitWrite, Downgrade, KeepPinned, DropPin, DecrPinFlag
  <2>3. TaskStep(t) /\ pc'[t] \in {"hold", "drop", "dropFlag", "unlatch"}
    <3>1. CASE Downgrade(t)
      <4>1. pc' = pc /\ pc[t] = "hold" /\ kind' = [kind EXCEPT ![t] = "read"]
        BY <3>1 DEF Downgrade
      <4> QED BY <2>1, <4>1 DEF TaskStep
    <3>2. CASE ~Downgrade(t)
      <4>1. kind' = kind
        BY <1>4, <3>2 DEF AwaitRead, AwaitWrite, KeepPinned, DropPin, DecrPinFlag, callVars
      <4>2. \E l \in {"hold", "drop", "dropFlag", "unlatch"} : pc' = [pc EXCEPT ![t] = l]
        BY <1>4, <3>2 DEF AwaitRead, AwaitWrite, KeepPinned, DropPin, DecrPinFlag, Goto
      <4> QED BY <2>1, <4>1, <4>2 DEF TaskStep
    <3> QED BY <3>1, <3>2
  <2>4. page[t] \in known
    BY <2>2 DEF CopyInv, PageScope, Scope, Creating
  <2>5. Scope(t)' /\ ~Creating(t)'
    BY <2>1, <2>3, <2>4, ScopeHolds DEF CopyInv, PageScope
  <2> QED BY <2>1, <2>2, <2>3, <2>5, QuietKeepsCopies
<1>5. DecrPinFlag(t) => pc[t] \in {"dropFlag", "dupFlag"}
  BY DEF DecrPinFlag
<1> QED BY <1>1, <1>2, <1>3, <1>4, <1>5 DEF Guard

LEMMA EvictCopies ==
  ASSUME CopyTypes, LatchProtocol, OwnInv, CopyInv, named = loaded,
         NEW t \in Tasks, Evict(t)
  PROVE  CopyInv'
<1> USE DEF CopyTypes
<1>1. CASE EvictLoaded(t)
  BY <1>1, EvictLoadedCopies
<1>2. CASE WriteBack(t)
  BY <1>2, WriteBackCopies
<1>3. CASE UnmapLogical(t) \/ UnmapPhysical(t)
  <2>1. "logical" \in Routes /\ "physical" \in Routes
    BY DEF Routes
  <2>2. Key("logical", victim[t]) = loaded[victim[t]] /\ Key("physical", victim[t]) = loaded[victim[t]]
    BY DEF Key
  <2> QED BY <1>3, <2>1, <2>2, UnmapCopies DEF UnmapLogical, UnmapPhysical, Unmap, Goto, diskVars,
             callVars, ghostVars
<1>4. CASE EvictClear(t)
  BY <1>4, EvictClearCopies
<1>5. CASE NoVictimFound(t) \/ WriteBackError(t)
  <2>1. /\ map' = map /\ loaded' = loaded /\ buf' = buf /\ disk' = disk /\ dirty' = dirty
        /\ known' = known /\ reserved' = reserved /\ latest' = latest
        /\ pc[t] \in {"findVictim", "writeBack"}
    BY <1>5 DEF NoVictimFound, WriteBackError, poolVars, diskVars, ghostVars
  <2>2. TaskStep(t) /\ pc'[t] = "idle" /\ page'[t] = NoPage
    BY <1>5 DEF NoVictimFound, WriteBackError, Return, TaskStep
  <2>3. Scope(t)' /\ ~Creating(t)'
    BY <2>2, ScopeReturns
  <2> QED BY <2>1, <2>2, <2>3, QuietKeepsCopies
<1>6. CASE FindVictim(t) \/ EvictPinned(t) \/ EvictVacant(t)
  <2>1. /\ map' = map /\ loaded' = loaded /\ buf' = buf /\ disk' = disk /\ dirty' = dirty
        /\ known' = known /\ reserved' = reserved /\ latest' = latest
        /\ page' = page /\ kind' = kind /\ route' = route /\ frame' = frame
        /\ pc[t] \in {"findVictim", "latchVictim"}
    BY <1>6 DEF FindVictim, EvictPinned, EvictVacant, poolVars, diskVars, callVars, ghostVars
  <2>2. /\ \E f : victim' = [victim EXCEPT ![t] = f]
        /\ \E l \in {"latchVictim", "findVictim", "pop", "lookup"} :
             pc' = [pc EXCEPT ![t] = l] /\ (kind[t] = "new" => l # "lookup")
    BY <1>6 DEF FindVictim, EvictPinned, EvictVacant, Resume, Goto
  <2>3. /\ TaskStep(t) /\ pc'[t] \in {"latchVictim", "findVictim", "pop", "lookup"}
        /\ kind[t] = "new" => pc'[t] # "lookup"
    BY <2>1, <2>2 DEF TaskStep
  <2> QED BY <2>1, <2>3, AskingCopies DEF Asking, Labels, NewLabels
<1> QED BY <1>1, <1>2, <1>3, <1>4, <1>5, <1>6 DEF Evict

LEMMA FlushCopies ==
  ASSUME CopyTypes, LatchProtocol, OwnInv, CopyInv, NEW t \in Tasks, Flush(t) PROVE CopyInv'
<1> USE DEF CopyTypes
<1>1. CASE FlushWrite(t)
  BY <1>1, FlushWriteCopies
<1>2. CASE FlushError(t) \/ FlushDone(t)
  <2>1. /\ map' = map /\ loaded' = loaded /\ buf' = buf /\ disk' = disk /\ dirty' = dirty
        /\ known' = known /\ reserved' = reserved /\ latest' = latest
        /\ pc[t] \in {"flush", "flushWrite"}
    BY <1>2 DEF FlushError, FlushDone, poolVars, diskVars, ghostVars
  <2>2. TaskStep(t) /\ pc'[t] = "idle" /\ page'[t] = NoPage
    BY <1>2 DEF FlushError, FlushDone, Return, TaskStep
  <2>3. Scope(t)' /\ ~Creating(t)'
    BY <2>2, ScopeReturns
  <2> QED BY <2>1, <2>2, <2>3, QuietKeepsCopies
<1>3. CASE FlushSkip(t)
  <2>1. /\ map' = map /\ loaded' = loaded /\ buf' = buf /\ disk' = disk /\ dirty' = dirty
        /\ known' = known /\ reserved' = reserved /\ latest' = latest /\ pc[t] = "flush"
        /\ page' = page /\ kind' = kind /\ route' = route /\ frame' = frame /\ victim' = victim
        /\ pc' = pc
    BY <1>3 DEF FlushSkip, poolVars, diskVars, callVars, ghostVars
  <2>2. TaskStep(t) /\ Scope(t)' /\ (Creating(t)' => Creating(t) /\ page'[t] = page[t])
    BY <2>1 DEF TaskStep, Scope, Creating, CopyInv, PageScope
  <2> QED BY <2>1, <2>2, QuietKeepsCopies
<1>4. CASE FlushLatch(t)
  <2>1. PICK f \in Frames, p \in Pages :
          /\ writer[f] = NoTask /\ loaded[f] = p
          /\ frame' = [frame EXCEPT ![t] = f] /\ page' = [page EXCEPT ![t] = p]
    BY <1>4 DEF FlushLatch, StillDirty
  <2>2. /\ map' = map /\ loaded' = loaded /\ buf' = buf /\ disk' = disk /\ dirty' = dirty
        /\ known' = known /\ reserved' = reserved /\ latest' = latest /\ pc[t] = "flush"
        /\ kind' = kind /\ route' = route /\ victim' = victim
        /\ pc' = [pc EXCEPT ![t] = "flushWrite"]
    BY <1>4 DEF FlushLatch, Goto, diskVars, ghostVars
  <2>3. TaskStep(t) /\ pc'[t] = "flushWrite" /\ page'[t] = p
    BY <2>1, <2>2 DEF TaskStep
  <2>4. p \in known
    <3>1. ~Installed(f, p)
      BY <2>1, ConstantsAssumption DEF Installed, LatchProtocol, HoldsWrite
    <3> QED BY <2>1, <3>1 DEF CopyInv, UnknownPage
  <2>5. kind[t] # "new"
    BY <2>2 DEF CopyInv, PageScope, Scope, Creating, NewLabels, Emptying
  <2>6. ~Creating(t)'
    BY <2>2, <2>5 DEF Creating
  <2>7. Scope(t)'
    BY <2>2, <2>3, <2>4, <2>6 DEF Scope, Asking, CopyInv, KnownReserved
  <2> QED BY <2>2, <2>3, <2>6, <2>7, QuietKeepsCopies
<1> QED BY <1>1, <1>2, <1>3, <1>4 DEF Flush

LEMMA StepCopies ==
  ASSUME RoutesApart
  PROVE  TypeOK /\ LatchInv /\ NamesAgree /\ CleanOwnInv /\ CleanCopyInv /\ [Next]_vars
           => CleanCopyInv'
<1> SUFFICES ASSUME TypeOK, LatchInv, NamesAgree, OwnInv, CopyInv, Clean, Clean', [Next]_vars
             PROVE  CopyInv'
  BY CleanLasts DEF CleanOwnInv, CleanCopyInv
<1>n. named = loaded
  BY Zenon DEF NamesAgree, Clean
<1>0. CopyTypes /\ LatchProtocol /\ version \in Nat
  BY CopyTypesHold DEF TypeOK, LatchInv
<1>1. CASE UNCHANGED vars
  <2> USE <1>1 DEF vars, poolVars, diskVars, callVars, ghostVars
  <2>1. KnownReserved' /\ PageScope' /\ CreatingAlone'
    BY DEF CopyInv, KnownReserved, PageScope, Scope, Creating, CreatingAlone
  <2>2. UnknownPage' /\ OneCopy' /\ LoadHome'
    BY DEF CopyInv, UnknownPage, OneCopy, LoadHome, Installed, Creating, Leaving, Unmapped, Home
  <2>3. CopyIsLatest' /\ WrittenBack' /\ FreshIsLatest'
    BY DEF CopyInv, CopyIsLatest, WrittenBack, FreshIsLatest, HomeLoaded, DiskContent, Latest, Home
  <2> QED BY <2>1, <2>2, <2>3 DEF CopyInv
<1> QED BY <1>0, <1>n, <1>1, CallCopies, FindCopies, LoadCopies, GuardCopies, EvictCopies, FlushCopies
        DEF Next

LEMMA InitCopies == Init => CleanCopyInv
<1> SUFFICES ASSUME Init PROVE CopyInv
  BY DEF CleanCopyInv
<1> USE ConstantsAssumption DEF Init
<1>1. \A t \in Tasks : ~Creating(t) /\ pc[t] = "idle" /\ page[t] = NoPage
  BY DEF Creating
<1>2. KnownReserved /\ PageScope /\ CreatingAlone
  BY <1>1 DEF KnownReserved, PageScope, Scope, CreatingAlone, Asking
<1>3. UnknownPage
  BY DEF UnknownPage, Routes
<1>4. OneCopy /\ LoadHome /\ WrittenBack /\ FreshIsLatest
  BY DEF OneCopy, LoadHome, WrittenBack, FreshIsLatest
<1>5. CopyIsLatest
  <2> SUFFICES ASSUME NEW p \in Pages PROVE ~HomeLoaded(p) /\ DiskContent(p) = Latest(p)
    BY DEF CopyIsLatest
  <2>1. ~HomeLoaded(p)
    BY HomeType DEF HomeLoaded
  <2>2. DiskContent(p) = [page |-> p, ver |-> 0]
    BY DEF DiskContent
  <2> QED BY <2>1, <2>2 DEF Latest
<1> QED BY <1>2, <1>3, <1>4, <1>5 DEF CopyInv

LEMMA CopyInvHolds ==
  ASSUME RoutesApart PROVE Spec => []CleanCopyInv
<1>1. TypeOK /\ LatchInv /\ NamesAgree /\ CleanOwnInv /\ CleanCopyInv /\ [Next]_vars
        => CleanCopyInv'
  BY StepCopies
<1> QED BY <1>1, InitCopies, NamesHold, TypeCorrect, LatchInvHolds, OwnInvHolds, PTL DEF Spec

(* Page exclusion: when no page is fetched by both routes, and as long as  *)
(* the state is Clean, a write guard is exclusive for the page: two        *)
(* misses, or a miss during the eviction, do not make a second copy that   *)
(* somebody can hold.                                                      *)
THEOREM WriteGuardsAreExclusive ==
  ASSUME RoutesApart PROVE Spec => []CleanPageExclusive
<1>1. TypeOK /\ LatchInv /\ CleanOwnInv /\ CleanCopyInv => CleanPageExclusive
  <2> SUFFICES ASSUME TypeOK, LatchInv, OwnInv, CopyInv, NEW t \in Tasks, NEW u \in Tasks,
                      t # u, pc[t] = "hold", pc[u] = "hold", page[t] = page[u],
                      kind[t] \in {"write", "new"}
               PROVE  FALSE
    BY DEF CleanOwnInv, CleanCopyInv, CleanPageExclusive, PageExclusive
  <2>0. CopyTypes /\ LatchProtocol /\ UnknownPage /\ OneCopy
    BY CopyTypesHold DEF LatchInv, CopyInv
  <2>1. /\ frame[t] \in Frames /\ frame[u] \in Frames /\ page[t] \in Pages
        /\ loaded[frame[t]] = page[t] /\ loaded[frame[u]] = page[t]
    BY DEF TypeOK, FrameLabels, OwnInv, UseLoaded, Using
  <2>2. HoldsWrite(t, frame[t]) /\ (HoldsWrite(u, frame[u]) \/ HoldsRead(u, frame[u]))
    BY DEF HoldsWrite, HoldsRead, LatchInv, KindInv, TypeOK, Kinds
  <2>3. map[Home(page[t])][page[t]] = frame[t]
    BY <2>0, <2>1, <2>2, LatchedCopy DEF Unmapped
  <2>4. map[Home(page[t])][page[t]] = frame[u]
    BY <2>0, <2>1, <2>2, LatchedCopy DEF Unmapped
  <2> QED BY <2>0, <2>1, <2>2, <2>3, <2>4, ConstantsAssumption DEF LatchProtocol
<1> QED BY <1>1, TypeCorrect, LatchInvHolds, OwnInvHolds, CopyInvHolds, PTL

(* No lost update: under the same conditions the copy that the next fetch  *)
(* of a page gets, from its frame or from disk, is the one that was marked *)
(* dirty last, whatever evictions, write-backs and flushes are under way.  *)
THEOREM NoUpdateIsLost ==
  ASSUME RoutesApart PROVE Spec => []CleanNoLostUpdate
<1>1. TypeOK /\ CleanCopyInv => CleanNoLostUpdate
  <2> SUFFICES ASSUME TypeOK, CopyInv, NEW p \in known
               PROVE  /\ p \in ByLogical  => CurrentIn("logical", p)  = [page |-> p, ver |-> latest[p]]
                      /\ p \in ByLocation => CurrentIn("physical", p) = [page |-> p, ver |-> latest[p]]
    BY DEF CleanCopyInv, CleanNoLostUpdate, NoLostUpdate
  <2>1. p \in Pages
    BY DEF TypeOK
  <2>2. CurrentIn(Home(p), p) = Latest(p)
    BY <2>1 DEF CopyInv, CopyIsLatest, HomeLoaded, CurrentIn
  <2>3. (p \in ByLogical => Home(p) = "logical") /\ (p \in ByLocation => Home(p) = "physical")
    BY DEF RoutesApart, Home
  <2> QED BY <2>2, <2>3 DEF Latest
<1> QED BY <1>1, TypeCorrect, CopyInvHolds, PTL

=============================================================================
