-------------------------- MODULE DirectoryProofs ---------------------------
(***************************************************************************)
(* Proofs about DiskManager and the directory it uses, for any number of   *)
(* tasks, calls and pages: no flush unmarks what it has not written, a     *)
(* logical page reads what was written for it, and the directory is well   *)
(* formed.                                                                 *)
(***************************************************************************)
EXTENDS DiskManager, SortedEntriesProofs, TLAPS

(* The places a call goes on from when its pages are written. *)
Thens == {"none", "return", "setroot", "sibling", "ancestors", "newroot"}

TaskOK(tk) == DOMAIN tk = DOMAIN NoTask /\ tk.then \in Thens

TasksOK == DOMAIN task = Tasks /\ \A t \in Tasks : TaskOK(task[t])

(* Only the call of t changes. *)
TaskStep(t) ==
  /\ DOMAIN task' = Tasks
  /\ TaskOK(task'[t])
  /\ \A u \in Tasks : u # t => task'[u] = task[u]

LEMMA TaskStepOK == ASSUME TasksOK, NEW t \in Tasks, TaskStep(t) PROVE TasksOK'
BY DEF TasksOK, TaskStep, TaskOK

LEMMA TaskUpdate ==
  ASSUME TasksOK, NEW t \in Tasks, NEW tk, TaskOK(tk), task' = [task EXCEPT ![t] = tk]
  PROVE  TaskStep(t) /\ task'[t] = tk
BY DEF TasksOK, TaskStep

LEMMA ReturnShape ==
  ASSUME TasksOK, NEW t \in Tasks, NEW res, NEW out, Return(t, res, out)
  PROVE  TaskStep(t) /\ task'[t].pc = "done" /\ task'[t].then = "none"
BY DEF TasksOK, TaskStep, TaskOK, Return, NoTask, Thens

(* What Writing makes of a task. *)
LEMMA WritingShape ==
  ASSUME NEW tk, TaskOK(tk), NEW ws, NEW next \in Thens
  PROVE  /\ TaskOK(Writing(tk, ws, next))
         /\ Writing(tk, ws, next).pc = "put" /\ Writing(tk, ws, next).writes = ws
         /\ Writing(tk, ws, next).then = next
BY DEF TaskOK, Writing, NoTask

LEMMA WithShape ==
  ASSUME NEW f, NEW p, NEW page
  PROVE  /\ DOMAIN With(f, p, page) = DOMAIN f \cup {p}
         /\ With(f, p, page)[p] = page
         /\ \A q \in DOMAIN f : q # p => With(f, p, page)[q] = f[q]
BY DEF With

-----------------------------------------------------------------------------
(* What is not marked is saved *)

(* The pages a flush has dealt with are in the file as they are cached. *)
FlushedIsSaved ==
  \A t \in Tasks : task[t].pc = "flushing" =>
    \A p \in DOMAIN cache : p \in task[t].snap \ task[t].todo => OnDisk(p) = cache[p]

SaveInv == TasksOK /\ FlushedIsSaved /\ UnmarkedIsSaved

(* A step of t that is no part of write_page or flush_all_dirty: it may    *)
(* add a page to the cache as it is in the file.                           *)
Quiet(t) ==
  /\ TaskStep(t)
  /\ task[t].pc # "mark" /\ task'[t].pc # "flushing"
  /\ dirty' = dirty /\ disk' = disk
  /\ raced => raced'
  /\ \/ cache' = cache
     \/ \E p, page : /\ ~CacheLocked
                     /\ cache' = With(cache, p, page)
                     /\ ~raced' => page = OnDisk(p)

LEMMA FillShape ==
  ASSUME NEW t \in Tasks, NEW p, Fill(t, p)
  PROVE  /\ raced => raced'
         /\ \/ cache' = cache
            \/ \E q, page : /\ ~CacheLocked
                            /\ cache' = With(cache, q, page)
                            /\ ~raced' => page = OnDisk(q)
BY DEF Fill

LEMMA QuietSaves ==
  ASSUME SaveInv, NEW t \in Tasks, Quiet(t) PROVE SaveInv'
<1> USE DEF SaveInv
<1>1. TasksOK' /\ \A u \in Tasks : u # t => task'[u] = task[u]
  BY TaskStepOK DEF Quiet, TaskStep
<1>2. \A p : OnDisk(p)' = OnDisk(p)
  BY DEF OnDisk, Quiet
<1>3. Unmarked \subseteq Unmarked'
  BY <1>1 DEF Unmarked, Quiet
<1>4. CASE cache' = cache
  <2>1. FlushedIsSaved'
    BY <1>1, <1>2, <1>4 DEF FlushedIsSaved, Quiet
  <2>2. UnmarkedIsSaved'
    BY <1>2, <1>3, <1>4 DEF UnmarkedIsSaved, Quiet
  <2> QED BY <1>1, <2>1, <2>2
<1>5. CASE cache' # cache
  <2>1. PICK p, page : /\ ~CacheLocked
                       /\ cache' = With(cache, p, page)
                       /\ ~raced' => page = OnDisk(p)
    BY <1>5 DEF Quiet
  <2>2. FlushedIsSaved'
    BY <1>1, <2>1 DEF FlushedIsSaved, CacheLocked, Quiet
  <2>3. UnmarkedIsSaved'
    <3> SUFFICES ASSUME ~raced', NEW q \in DOMAIN cache', q \notin dirty', q \notin Unmarked'
                 PROVE  OnDisk(q) = cache'[q]
      BY <1>2 DEF UnmarkedIsSaved
    <3>0. /\ DOMAIN cache' = DOMAIN cache \cup {p} /\ cache'[p] = page
          /\ \A o \in DOMAIN cache : o # p => cache'[o] = cache[o]
      BY <2>1 DEF With
    <3>1. CASE q = p
      BY <2>1, <3>0, <3>1
    <3>2. CASE q # p
      <4>1. q \in DOMAIN cache /\ cache'[q] = cache[q]
        BY <3>0, <3>2
      <4> QED BY <1>3, <4>1 DEF UnmarkedIsSaved, Quiet
    <3> QED BY <3>1, <3>2
  <2> QED BY <1>1, <2>2, <2>3
<1> QED BY <1>4, <1>5

LEMMA DirQuiet ==
  ASSUME TasksOK, NEW t \in Tasks,
         \/ ReadFile(t) \/ ReadRoot(t) \/ Descend(t) \/ LookupLeaf(t) \/ ChangeLeaf(t)
         \/ AddFirst(t) \/ AddLeaf(t) \/ SplitLeaf(t) \/ SplitSibling(t) \/ Ancestors(t)
         \/ SplitInner(t) \/ NewRoot(t) \/ SetRoot(t) \/ SetHeader(t)
         \/ FlushSnapshot(t) \/ FlushFail(t)
  PROVE  Quiet(t)
<1> USE DEF Quiet, dirVars, flagVars
<1>ok. DOMAIN task = Tasks /\ TaskOK(task[t])
  BY DEF TasksOK
<1>r. ASSUME NEW res, NEW out, Return(t, res, out) PROVE TaskStep(t) /\ task'[t].pc = "done"
  BY <1>r, ReturnShape
<1>1. CASE ReadFile(t)
  <2>1. task[t].pc \in {"descend", "leaf", "sibling", "ancestors", "header"}
    BY <1>1 DEF ReadFile, Wanted
  <2>2. CASE \E p : task' = [task EXCEPT ![t].buf = OnDisk(p)]
    BY <1>1, <1>ok, <2>1, <2>2 DEF ReadFile, TaskStep, TaskOK, NoTask
  <2>3. CASE ReturnError(t, "IOError")
    BY <1>1, <1>r, <2>1, <2>3 DEF ReadFile, ReturnError
  <2> QED BY <1>1, <2>2, <2>3 DEF ReadFile
<1>2. CASE ReadRoot(t)
  <2>1. CASE Return(t, "PageNotFound", <<>>)
    BY <1>2, <1>r, <2>1 DEF ReadRoot
  <2>2. CASE task' = [task EXCEPT ![t].pc = "first"]
    BY <1>2, <1>ok, <2>2 DEF ReadRoot, TaskStep, TaskOK, NoTask
  <2>3. CASE task' = [task EXCEPT ![t].pc = "descend", ![t].cur = root_page, ![t].root = root_page]
    BY <1>2, <1>ok, <2>3 DEF ReadRoot, TaskStep, TaskOK, NoTask
  <2> QED BY <1>2, <2>1, <2>2, <2>3 DEF ReadRoot
<1>3. CASE Descend(t)
  <2>1. task[t].pc = "descend" /\ Fill(t, task[t].cur) /\ dirty' = dirty /\ disk' = disk
    BY <1>3 DEF Descend
  <2>2. TaskStep(t) /\ task'[t].pc # "flushing"
    <3>1. CASE Return(t, "PageCorruption", <<>>)
      BY <1>r, <3>1
    <3>2. CASE task' = [task EXCEPT ![t].pc = "leaf", ![t].buf = NoPage]
      BY <1>ok, <3>2 DEF TaskStep, TaskOK, NoTask
    <3>3. CASE task' = [task EXCEPT ![t].cur = find_child(Page(t, task[t].cur), task[t].key),
                                    ![t].path = Append(@, task[t].cur), ![t].buf = NoPage]
      BY <1>ok, <2>1, <3>3 DEF TaskStep, TaskOK, NoTask
    <3> QED BY <1>3, <3>1, <3>2, <3>3 DEF Descend
  <2> QED BY <2>1, <2>2, FillShape
<1>4. CASE LookupLeaf(t)
  <2>1. CASE Return(t, "PageNotFound", <<>>)
    BY <1>4, <1>r, <2>1 DEF LookupLeaf
  <2>2. ASSUME NEW loc, task' = [task EXCEPT ![t].pc = "found", ![t].loc = loc] PROVE Quiet(t)
    BY <1>4, <1>ok, <2>2 DEF LookupLeaf, TaskStep, TaskOK, NoTask
  <2> QED BY <1>4, <2>1, <2>2 DEF LookupLeaf
<1>5. CASE ChangeLeaf(t)
  <2>1. CASE Return(t, "PageNotFound", <<>>)
    BY <1>5, <1>r, <2>1 DEF ChangeLeaf
  <2>2. ASSUME NEW ws, task' = [task EXCEPT ![t] = Writing(@, ws, "return")] PROVE Quiet(t)
    BY <1>5, <1>ok, <2>2, WritingShape DEF ChangeLeaf, TaskStep, Thens
  <2> QED BY <1>5, <2>1, <2>2 DEF ChangeLeaf
<1>6. CASE AddFirst(t)
  <2>1. ASSUME NEW ws, task' = [task EXCEPT ![t] = [Writing(@, ws, "setroot") EXCEPT !.cur = next_dir_page]]
        PROVE  Quiet(t)
    BY <1>6, <1>ok, <2>1 DEF AddFirst, TaskStep, TaskOK, Writing, NoTask, Thens
  <2> QED BY <1>6, <2>1 DEF AddFirst
<1>7. CASE AddLeaf(t)
  <2>1. ASSUME NEW res, Return(t, res, <<>>) PROVE Quiet(t)
    BY <1>7, <1>r, <2>1 DEF AddLeaf
  <2>2. ASSUME NEW ws, task' = [task EXCEPT ![t] = Writing(@, ws, "return")] PROVE Quiet(t)
    BY <1>7, <1>ok, <2>2, WritingShape DEF AddLeaf, TaskStep, Thens
  <2>3. ASSUME NEW page, task' = [task EXCEPT ![t].pc = "split", ![t].copy = page] PROVE Quiet(t)
    BY <1>7, <1>ok, <2>3 DEF AddLeaf, TaskStep, TaskOK, NoTask
  <2> QED BY <1>7, <2>1, <2>2, <2>3 DEF AddLeaf
<1>8. CASE SplitLeaf(t)
  <2> DEFINE cur == task[t].cur
             leaf == task[t].copy
             split == SplitLeafPages(leaf, cur, next_dir_page, from_ppage_id(task[t].key, task[t].loc))
             new == W(next_dir_page, split.upper, NoPage)
             old == W(cur, split.lower, leaf)
             tk == [task[t] EXCEPT !.child = next_dir_page, !.sep = split.upper.entries[1].key,
                                   !.left = IF task[t].path = <<>> THEN cur ELSE 0]
             tk1 == Writing(tk, <<new, old>>, AfterLeaf(t))
             tk2 == [Writing(tk, <<new>>, "sibling") EXCEPT !.cur = leaf.next, !.old = <<old>>]
  <2>1. task' = [task EXCEPT ![t] = IF leaf.next = 0 THEN tk1 ELSE tk2]
    BY <1>8 DEF SplitLeaf
  <2> HIDE DEF split, new, old
  <2>2. TaskOK(tk)
    BY <1>ok DEF TaskOK, NoTask
  <2>3. TaskOK(tk1) /\ tk1.pc = "put"
    <3> HIDE DEF tk
    <3> QED BY <2>2, WritingShape DEF AfterLeaf, Thens
  <2>4. TaskOK(tk2) /\ tk2.pc = "put"
    <3> HIDE DEF tk
    <3> QED BY <2>2 DEF TaskOK, Writing, NoTask, Thens
  <2> HIDE DEF tk1, tk2
  <2>5. TaskStep(t) /\ task'[t].pc = "put"
    BY <2>1, <2>3, <2>4, TaskUpdate
  <2> QED BY <1>8, <2>5 DEF SplitLeaf
<1>9. CASE SplitSibling(t)
  <2>1. ASSUME NEW ws, task' = [task EXCEPT ![t] = Writing(@, ws, AfterLeaf(t))]
        PROVE  TaskStep(t) /\ task'[t].pc = "put"
    BY <1>ok, <2>1, WritingShape DEF TaskStep, AfterLeaf, Thens
  <2>2. TaskStep(t) /\ task'[t].pc = "put"
    BY <1>9, <2>1 DEF SplitSibling
  <2> QED BY <1>9, <2>2, FillShape DEF SplitSibling
<1>10. CASE Ancestors(t)
  <2>1. TaskStep(t) /\ task'[t].pc # "flushing"
    <3>1. CASE ReturnError(t, "PageCorruption")
      BY <1>r, <3>1 DEF ReturnError
    <3>2. ASSUME NEW page, task' = [task EXCEPT ![t] = [@ EXCEPT !.pc = "splitinner", !.copy = page, !.buf = NoPage]]
          PROVE  TaskStep(t) /\ task'[t].pc = "splitinner"
      BY <1>ok, <3>2 DEF TaskStep, TaskOK, NoTask
    <3>3. ASSUME NEW ws, task' = [task EXCEPT ![t] = Writing(@, ws, "return")]
          PROVE  TaskStep(t) /\ task'[t].pc = "put"
      BY <1>ok, <3>3, WritingShape DEF TaskStep, Thens
    <3> DEFINE page == Page(t, Last(task[t].path))
               done == insert_separator(page, task[t].sep, task[t].child)
    <3>4. CASE ~find_separator_slot(page, task[t].sep).found /\ inner_is_full(page)
      <4>1. task' = [task EXCEPT ![t] = [@ EXCEPT !.pc = "splitinner", !.copy = page, !.buf = NoPage]]
        BY <1>10, <3>4 DEF Ancestors
      <4> QED BY <3>2, <4>1
    <3>5. CASE ~find_separator_slot(page, task[t].sep).found /\ ~inner_is_full(page)
      <4>1. task' = [task EXCEPT ![t] = Writing(@, <<W(Last(task[t].path), done.page, page)>>, "return")]
        BY <1>10, <3>5 DEF Ancestors
      <4> QED BY <3>3, <4>1
    <3> QED BY <1>10, <3>1, <3>4, <3>5 DEF Ancestors
  <2> QED BY <1>10, <2>1, FillShape DEF Ancestors
<1>11. CASE SplitInner(t)
  <2> DEFINE page == task[t].copy
             split == SplitInnerPages(page, task[t].sep, task[t].child)
             path == Front(task[t].path)
             tk == [task[t] EXCEPT !.path = path, !.sep = split.up, !.child = next_dir_page]
             ws == <<W(next_dir_page, split.upper, NoPage), W(Last(task[t].path), split.lower, page)>>
             next == IF path = <<>> THEN "newroot" ELSE "ancestors"
  <2>1. task' = [task EXCEPT ![t] = Writing(tk, ws, next)]
    BY <1>11 DEF SplitInner
  <2>2. next \in Thens
    BY DEF Thens
  <2> HIDE DEF split, path, ws, next
  <2>3. TaskOK(tk)
    BY <1>ok DEF TaskOK, NoTask
  <2> HIDE DEF tk
  <2>4. TaskStep(t) /\ task'[t].pc = "put"
    <3>1. TaskOK(Writing(tk, ws, next)) /\ Writing(tk, ws, next).pc = "put"
      BY <2>2, <2>3, WritingShape
    <3> QED BY <2>1, <3>1, TaskUpdate
  <2> QED BY <1>11, <2>4 DEF SplitInner
<1>12. CASE NewRoot(t)
  <2>1. ASSUME NEW ws, task' = [task EXCEPT ![t] = [Writing(@, ws, "setroot") EXCEPT !.cur = next_dir_page]]
        PROVE  Quiet(t)
    BY <1>12, <1>ok, <2>1 DEF NewRoot, TaskStep, TaskOK, Writing, NoTask, Thens
  <2> QED BY <1>12, <2>1 DEF NewRoot
<1>13. CASE SetRoot(t)
  BY <1>13, <1>ok DEF SetRoot, TaskStep, TaskOK, NoTask
<1>14. CASE SetHeader(t)
  <2>1. ASSUME NEW ws, task' = [task EXCEPT ![t] = Writing(@, ws, "return")]
        PROVE  TaskStep(t) /\ task'[t].pc = "put"
    BY <1>ok, <2>1, WritingShape DEF TaskStep, Thens
  <2>2. TaskStep(t) /\ task'[t].pc = "put"
    BY <1>14, <2>1 DEF SetHeader
  <2> QED BY <1>14, <2>2, FillShape DEF SetHeader
<1>15. CASE FlushSnapshot(t)
  <2>1. CASE Return(t, "ok", <<>>)
    BY <1>15, <1>r, <2>1 DEF FlushSnapshot
  <2>2. CASE task' = [task EXCEPT ![t].pc = "lock", ![t].snap = dirty]
    BY <1>15, <1>ok, <2>2 DEF FlushSnapshot, TaskStep, TaskOK, NoTask
  <2> QED BY <1>15, <2>1, <2>2 DEF FlushSnapshot
<1>16. CASE FlushFail(t)
  BY <1>16, <1>r DEF FlushFail
<1> QED BY <1>1, <1>2, <1>3, <1>4, <1>5, <1>6, <1>7, <1>8, <1>9, <1>10, <1>11, <1>12, <1>13, <1>14, <1>15, <1>16

(* write_page: the page is in the cache before it is marked, but then the  *)
(* call is about to mark it.                                               *)
LEMMA CachePutSaves ==
  ASSUME SaveInv, NEW t \in Tasks, CachePut(t) PROVE SaveInv'
<1> USE DEF SaveInv
<1> DEFINE w == Head(task[t].writes)
<1>1. /\ ~CacheLocked /\ cache' = With(cache, w.id, w.page)
      /\ raced => raced'
      /\ dirty' = dirty /\ disk' = disk /\ task[t].pc = "put"
  BY DEF CachePut
<1>2. TaskStep(t) /\ task'[t].pc = "mark" /\ task'[t].writes = task[t].writes
  BY DEF CachePut, TasksOK, TaskStep, TaskOK, NoTask
<1>3. TasksOK' /\ \A u \in Tasks : u # t => task'[u] = task[u]
  BY <1>2, TaskStepOK DEF TaskStep
<1>4. \A p : OnDisk(p)' = OnDisk(p)
  BY <1>1 DEF OnDisk
<1>5. Unmarked \subseteq Unmarked' /\ w.id \in Unmarked'
  BY <1>1, <1>2, <1>3 DEF Unmarked
<1> HIDE DEF w
<1>6. FlushedIsSaved'
  BY <1>1, <1>2, <1>3 DEF FlushedIsSaved, CacheLocked
<1>7. UnmarkedIsSaved'
  <2> SUFFICES ASSUME ~raced', NEW q \in DOMAIN cache', q \notin dirty', q \notin Unmarked'
               PROVE  OnDisk(q) = cache'[q]
    BY <1>4 DEF UnmarkedIsSaved
  <2>1. q # w.id
    BY <1>5
  <2>2. q \in DOMAIN cache /\ cache'[q] = cache[q]
    BY <1>1, <2>1 DEF With
  <2> QED BY <1>1, <1>5, <2>2 DEF UnmarkedIsSaved
<1> QED BY <1>3, <1>6, <1>7

LEMMA DirtyMarkSaves ==
  ASSUME SaveInv, NEW t \in Tasks, DirtyMark(t) PROVE SaveInv'
<1> USE DEF SaveInv
<1> DEFINE id == Head(task[t].writes).id
<1>1. /\ task[t].pc = "mark" /\ dirty' = dirty \cup {id}
      /\ cache' = cache /\ disk' = disk /\ raced' = raced
  BY DEF DirtyMark, flagVars
<1>2. TaskStep(t) /\ task'[t].pc # "flushing"
  <2>1. CASE task' = [task EXCEPT ![t].pc = "put", ![t].writes = Tail(@)]
    BY <2>1 DEF TasksOK, TaskStep, TaskOK, NoTask
  <2>2. CASE Return(t, "ok", <<>>)
    BY <2>2, ReturnShape
  <2>3. CASE task' = [task EXCEPT ![t].pc = task[t].then, ![t].writes = <<>>]
    BY <2>3 DEF TasksOK, TaskStep, TaskOK, NoTask, Thens
  <2> QED BY <2>1, <2>2, <2>3 DEF DirtyMark
<1>3. TasksOK' /\ \A u \in Tasks : u # t => task'[u] = task[u]
  BY <1>2, TaskStepOK DEF TaskStep
<1>4. \A p : OnDisk(p)' = OnDisk(p)
  BY <1>1 DEF OnDisk
<1>5. Unmarked \subseteq Unmarked' \cup {id}
  <2> SUFFICES ASSUME NEW u \in Tasks, task[u].pc = "mark", u # t
               PROVE  Head(task[u].writes).id \in Unmarked'
    BY DEF Unmarked
  <2>1. task'[u] = task[u]
    BY <1>3
  <2> QED BY <2>1 DEF Unmarked
<1>6. FlushedIsSaved'
  BY <1>1, <1>2, <1>3, <1>4 DEF FlushedIsSaved
<1>7. UnmarkedIsSaved'
  BY <1>1, <1>4, <1>5 DEF UnmarkedIsSaved
<1> QED BY <1>3, <1>6, <1>7

LEMMA FlushLockSaves ==
  ASSUME SaveInv, NEW t \in Tasks, FlushLock(t) PROVE SaveInv'
<1> USE DEF SaveInv
<1>1. /\ task[t].pc = "lock" /\ cache' = cache /\ dirty' = dirty /\ disk' = disk /\ raced' = raced
  BY DEF FlushLock, dirVars, flagVars
<1>2. TaskStep(t) /\ task'[t].pc = "flushing" /\ task'[t].snap = task'[t].todo
  BY DEF FlushLock, TasksOK, TaskStep, TaskOK, NoTask
<1>3. TasksOK' /\ \A u \in Tasks : u # t => task'[u] = task[u]
  BY <1>2, TaskStepOK DEF TaskStep
<1>4. \A p : OnDisk(p)' = OnDisk(p)
  BY <1>1 DEF OnDisk
<1>5. Unmarked \subseteq Unmarked'
  BY <1>1, <1>3 DEF Unmarked
<1>6. FlushedIsSaved'
  BY <1>1, <1>2, <1>3, <1>4 DEF FlushedIsSaved
<1>7. UnmarkedIsSaved'
  BY <1>1, <1>4, <1>5 DEF UnmarkedIsSaved
<1> QED BY <1>3, <1>6, <1>7

(* A flush writes what is cached: no page that was saved becomes stale. *)
LEMMA FlushWriteSaves ==
  ASSUME SaveInv, NEW t \in Tasks, FlushWrite(t) PROVE SaveInv'
<1> USE DEF SaveInv
<1>1. PICK p \in task[t].todo :
        /\ disk' = IF p \in DOMAIN cache THEN With(disk, p, cache[p]) ELSE disk
        /\ task' = [task EXCEPT ![t].todo = @ \ {p}]
  BY DEF FlushWrite
<1>2. task[t].pc = "flushing" /\ cache' = cache /\ dirty' = dirty /\ raced' = raced
  BY DEF FlushWrite, flagVars
<1>3. /\ TaskStep(t) /\ task'[t].pc = "flushing"
      /\ task'[t].snap = task[t].snap /\ task'[t].todo = task[t].todo \ {p}
  BY <1>1, <1>2 DEF TasksOK, TaskStep, TaskOK, NoTask
<1>4. TasksOK' /\ \A u \in Tasks : u # t => task'[u] = task[u]
  BY <1>3, TaskStepOK DEF TaskStep
<1>5. \A q \in DOMAIN cache : OnDisk(q)' = IF q = p THEN cache[p] ELSE OnDisk(q)
  <2>1. CASE p \in DOMAIN cache
    BY <1>1, <2>1 DEF OnDisk, With
  <2>2. CASE p \notin DOMAIN cache
    BY <1>1, <2>2 DEF OnDisk
  <2> QED BY <2>1, <2>2
<1>6. Unmarked \subseteq Unmarked'
  BY <1>2, <1>4 DEF Unmarked
<1>7. FlushedIsSaved'
  BY <1>2, <1>3, <1>4, <1>5 DEF FlushedIsSaved
<1>8. UnmarkedIsSaved'
  BY <1>2, <1>5, <1>6 DEF UnmarkedIsSaved
<1> QED BY <1>4, <1>7, <1>8

(* The end of a flush unmarks the pages it has written. *)
LEMMA FlushClearSaves ==
  ASSUME SaveInv, NEW t \in Tasks, FlushClear(t) PROVE SaveInv'
<1> USE DEF SaveInv
<1>1. /\ task[t].pc = "flushing" /\ task[t].todo = {} /\ dirty' = dirty \ task[t].snap
      /\ cache' = cache /\ disk' = disk /\ raced' = raced
  BY DEF FlushClear, flagVars
<1>2. TaskStep(t) /\ task'[t].pc = "done"
  BY ReturnShape DEF FlushClear
<1>3. TasksOK' /\ \A u \in Tasks : u # t => task'[u] = task[u]
  BY <1>2, TaskStepOK DEF TaskStep
<1>4. \A p : OnDisk(p)' = OnDisk(p)
  BY <1>1 DEF OnDisk
<1>5. Unmarked \subseteq Unmarked'
  BY <1>1, <1>3 DEF Unmarked
<1>6. \A p \in DOMAIN cache : p \in task[t].snap => OnDisk(p) = cache[p]
  BY <1>1 DEF FlushedIsSaved
<1>7. FlushedIsSaved'
  BY <1>1, <1>2, <1>3, <1>4 DEF FlushedIsSaved
<1>8. UnmarkedIsSaved'
  BY <1>1, <1>4, <1>5, <1>6 DEF UnmarkedIsSaved
<1> QED BY <1>3, <1>7, <1>8

(* The calls of the disk manager and a restart. *)
LEMMA CallSaves ==
  ASSUME SaveInv, NEW t \in Tasks, \/ \E c : Start(t, c)
                                   \/ Allocate(t) \/ Transfer(t)
  PROVE  SaveInv'
<1> USE DEF SaveInv
<1>1. CASE \E c : Start(t, c)
  <2>1. PICK c : Start(t, c)
    BY <1>1
  <2> DEFINE k == IF c.op = "new" THEN next_lpage_id ELSE c.id
             tk == [NoTask EXCEPT !.call = c, !.key = k,
                    !.pc = CASE c.op \in {"new", "update"} -> "place"
                             [] c.op = "flush" -> "flush"
                             [] OTHER -> "root"]
  <2>2. task' = [task EXCEPT ![t] = tk]
    BY <2>1 DEF Start
  <2>3. TaskOK(tk) /\ tk.pc # "flushing"
    BY DEF TaskOK, NoTask, Thens
  <2> HIDE DEF tk
  <2>4. TaskStep(t) /\ task'[t].pc # "flushing"
    BY <2>2, <2>3, TaskUpdate
  <2>5. Quiet(t)
    BY <2>1, <2>4 DEF Quiet, Start, Idle, dirVars, flagVars
  <2> QED BY <2>5, QuietSaves
<1>2. CASE Allocate(t)
  <2>1. TaskStep(t) /\ task'[t].pc = "root"
    BY <1>2 DEF Allocate, TasksOK, TaskStep, TaskOK, NoTask
  <2>2. Quiet(t)
    BY <1>2, <2>1 DEF Quiet, Allocate, dirVars, flagVars
  <2> QED BY <2>2, QuietSaves
<1>3. CASE Transfer(t)
  <2>1. \E res, out : Return(t, res, out)
    BY <1>3 DEF Transfer
  <2>2. TaskStep(t) /\ task'[t].pc = "done"
    BY <2>1, ReturnShape
  <2>3. Quiet(t)
    BY <1>3, <2>2 DEF Quiet, Transfer, dirVars, flagVars
  <2> QED BY <2>3, QuietSaves
<1> QED BY <1>1, <1>2, <1>3

LEMMA NoTaskOK == TaskOK(NoTask) /\ NoTask.pc = "idle"
BY DEF TaskOK, NoTask, Thens

LEMMA RestartSaves ==
  ASSUME Restart PROVE SaveInv'
<1>1. task' = [t \in Tasks |-> NoTask] /\ cache' = <<>>
  BY DEF Restart, load_header
<1>2. DOMAIN cache' = {}
  BY <1>1
<1>3. TasksOK' /\ \A t \in Tasks : task'[t].pc = "idle"
  BY <1>1, NoTaskOK DEF TasksOK
<1>4. FlushedIsSaved' /\ UnmarkedIsSaved'
  BY <1>2 DEF FlushedIsSaved, UnmarkedIsSaved
<1> QED BY <1>3, <1>4 DEF SaveInv

LEMMA SaveInvInit == Init => SaveInv
<1> SUFFICES ASSUME Init PROVE SaveInv
  OBVIOUS
<1>1. task = [t \in Tasks |-> NoTask] /\ cache = <<>>
  BY DEF Init, DirInit, init_new
<1>2. DOMAIN cache = {}
  BY <1>1
<1>3. TasksOK
  BY <1>1, NoTaskOK DEF TasksOK
<1>4. FlushedIsSaved /\ UnmarkedIsSaved
  BY <1>2 DEF FlushedIsSaved, UnmarkedIsSaved
<1> QED BY <1>3, <1>4 DEF SaveInv

LEMMA SaveInvNext == SaveInv /\ [Next]_storageVars => SaveInv'
<1> SUFFICES ASSUME SaveInv, [Next]_storageVars PROVE SaveInv'
  OBVIOUS
<1>1. ASSUME NEW t \in Tasks, DirStep(t) \/ FlushFail(t) PROVE SaveInv'
  <2>1. CASE CachePut(t) \/ DirtyMark(t)
    BY <2>1, CachePutSaves, DirtyMarkSaves
  <2>2. CASE FlushLock(t) \/ FlushWrite(t) \/ FlushClear(t)
    BY <2>2, FlushLockSaves, FlushWriteSaves, FlushClearSaves
  <2>3. CASE ~(CachePut(t) \/ DirtyMark(t) \/ FlushLock(t) \/ FlushWrite(t) \/ FlushClear(t))
    <3>1. Quiet(t)
      BY <1>1, <2>3, DirQuiet DEF DirStep, SaveInv
    <3> QED BY <3>1, QuietSaves
  <2> QED BY <2>1, <2>2, <2>3
<1>2. CASE Next
  BY <1>1, <1>2, CallSaves, RestartSaves DEF Next
<1>3. CASE UNCHANGED storageVars
  BY <1>3 DEF storageVars, dirVars, flagVars, SaveInv, TasksOK, FlushedIsSaved, UnmarkedIsSaved,
     Unmarked, OnDisk
<1> QED BY <1>2, <1>3

(* A cached page that is not marked is the one in the file, or a call is   *)
(* about to mark it, for any number of calls that write, read and flush    *)
(* pages at the same time (write_page and flush_all_dirty).                *)
THEOREM NothingUnsavedIsUnmarked == Spec => []UnmarkedIsSaved
<1>1. SaveInv => UnmarkedIsSaved
  BY DEF SaveInv
<1> QED BY <1>1, SaveInvInit, SaveInvNext, PTL DEF Spec

-----------------------------------------------------------------------------
(* A page reads what was written for it *)

(* In what follows own gives for every location that was allocated the     *)
(* logical id it was allocated for, and leaves has the directory pages     *)
(* that are leaves.                                                        *)

(* The locations come from the allocator, with numbers an entry can hold. *)
OwnShape(own) ==
  \A loc \in DOMAIN own :
    \E f, n : n \in 1..(PageNumbers - 1) /\ loc = [file |-> f, offset |-> n * PageSize]

(* The entries that lead to the locations of their own ids. *)
LeafEntries(own) == {from_ppage_id(own[loc], loc) : loc \in DOMAIN own}

(* A page that may be directory page p. *)
PageOK(own, leaves, p, page) ==
  /\ "kind" \in DOMAIN page
  /\ page.kind = "leaf" => p \in leaves
  /\ p \in leaves => /\ page.kind \in {"leaf", "zero"}
                     /\ "entries" \in DOMAIN page /\ page.entries \in Seq(LeafEntries(own))

LEMMA EntryLeads ==
  ASSUME NEW own, OwnShape(own), NEW e \in LeafEntries(own)
  PROVE  to_ppage_id(e) \in DOMAIN own /\ own[to_ppage_id(e)] = e.key
<1>1. PICK loc \in DOMAIN own : e = from_ppage_id(own[loc], loc)
  BY DEF LeafEntries
<1>2. PICK f, n : n \in 1..(PageNumbers - 1) /\ loc = [file |-> f, offset |-> n * PageSize]
  BY DEF OwnShape
<1>3. PageSize \in Nat \ {0} /\ PageNumbers \in Nat /\ n \in Nat /\ n < PageNumbers
  BY <1>2, DirectoryPageAssumption
<1>4. (n * PageSize) \div PageSize = n /\ n % PageNumbers = n
  BY <1>3
<1>5. e = [key |-> own[loc], file |-> f, number |-> n]
  BY <1>1, <1>2, <1>4 DEF from_ppage_id
<1>6. to_ppage_id(e) = loc
  BY <1>2, <1>5 DEF to_ppage_id
<1> QED BY <1>5, <1>6

(* lookup gives a location of the id that was asked for. *)
LEMMA LookupLeads ==
  ASSUME NEW own, OwnShape(own), NEW page, page.entries \in Seq(LeafEntries(own)), NEW k,
         NEW loc \in lookup(page, k)
  PROVE  loc \in DOMAIN own /\ own[loc] = k
<1> DEFINE es == page.entries
           slot == Search(es, k)
<1>1. slot.found /\ loc = to_ppage_id(es[slot.pos + 1])
  BY DEF lookup, find_slot
<1>2. Len(es) \in Nat
  BY LenProperties
<1>3. slot.pos + 1 \in 1..Len(es) /\ es[slot.pos + 1].key = k
  BY <1>1, <1>2, SearchFinds
<1>4. es[slot.pos + 1] \in LeafEntries(own)
  BY <1>3, ElementOfSeq
<1> HIDE DEF es, slot
<1> QED BY <1>1, <1>3, <1>4, EntryLeads

(* Changes of a page *)

LEMMA EntriesOK ==
  ASSUME NEW own, NEW leaves, NEW p, NEW page, PageOK(own, leaves, p, page), NEW es,
         p \in leaves => es \in Seq(LeafEntries(own))
  PROVE  PageOK(own, leaves, p, [page EXCEPT !.entries = es])
BY DEF PageOK

LEMMA PrevOK ==
  ASSUME NEW own, NEW leaves, NEW p, NEW page, PageOK(own, leaves, p, page), NEW prev
  PROVE  PageOK(own, leaves, p, set_prev_page(page, prev))
BY DEF PageOK, set_prev_page

LEMMA OwnEntry ==
  ASSUME NEW own, NEW loc \in DOMAIN own, NEW k, own[loc] = k
  PROVE  from_ppage_id(k, loc) \in LeafEntries(own)
BY DEF LeafEntries

LEMMA InsertOK ==
  ASSUME NEW own, NEW leaves, NEW p \in leaves, NEW page, PageOK(own, leaves, p, page),
         NEW loc \in DOMAIN own, NEW k, own[loc] = k
  PROVE  PageOK(own, leaves, p, insert_entry(page, k, loc).page)
<1> DEFINE put == PutEntry(page.entries, LeafMax, from_ppage_id(k, loc))
<1>1. put.entries \in Seq(LeafEntries(own))
  BY OwnEntry, PutKeeps DEF PageOK
<1>2. insert_entry(page, k, loc).page = [page EXCEPT !.entries = put.entries]
  BY DEF insert_entry
<1> HIDE DEF put
<1> QED BY <1>1, <1>2, EntriesOK

LEMMA UpdateOK ==
  ASSUME NEW own, NEW leaves, NEW p \in leaves, NEW page, PageOK(own, leaves, p, page),
         NEW loc \in DOMAIN own, NEW k, own[loc] = k
  PROVE  PageOK(own, leaves, p, update_entry(page, k, loc).page)
<1> DEFINE slot == Search(page.entries, k)
           e == from_ppage_id(k, loc)
           new == [page.entries EXCEPT ![slot.pos + 1] = e]
<1>1. page.entries \in Seq(LeafEntries(own)) /\ Len(page.entries) \in Nat
  BY LenProperties DEF PageOK
<1>2. e \in LeafEntries(own)
  BY OwnEntry
<1>3. slot.found => slot.pos + 1 \in 1..Len(page.entries)
  BY <1>1, SearchFinds
<1>4. slot.found => new \in Seq(LeafEntries(own))
  <2> HIDE DEF e, slot
  <2> QED BY <1>1, <1>2, <1>3
<1>5. update_entry(page, k, loc).page = IF slot.found THEN [page EXCEPT !.entries = new] ELSE page
  <2>1. "entries" \in DOMAIN page
    BY DEF PageOK
  <2> QED BY <2>1 DEF update_entry, find_slot
<1> HIDE DEF new, slot
<1> QED BY <1>4, <1>5, EntriesOK

LEMMA DeleteOK ==
  ASSUME NEW own, NEW leaves, NEW p \in leaves, NEW page, PageOK(own, leaves, p, page), NEW k
  PROVE  PageOK(own, leaves, p, delete_by_key(page, k).page)
<1> DEFINE slot == Search(page.entries, k)
           new == Take(page.entries, slot.pos).entries
<1>1. page.entries \in Seq(LeafEntries(own)) /\ Len(page.entries) \in Nat
  BY LenProperties DEF PageOK
<1>2. slot.pos \in Nat
  BY <1>1, SearchFinds
<1>3. new \in Seq(LeafEntries(own))
  BY <1>1, <1>2, TakeKeeps
<1>4. delete_by_key(page, k).page = IF slot.found THEN [page EXCEPT !.entries = new] ELSE page
  BY DEF delete_by_key, delete_entry, find_slot
<1> HIDE DEF new, slot
<1> QED BY <1>3, <1>4, EntriesOK

LEMMA HalvesOK ==
  ASSUME NEW E, NEW es \in Seq(E), NEW e \in E
  PROVE  Halves(es, e)[1] \in Seq(E) /\ Halves(es, e)[2] \in Seq(E)
<1> DEFINE all == PutEntry(es, Len(es) + 1, e).entries
           mid == Len(all) \div 2
<1>1. all \in Seq(E)
  BY PutKeeps
<1> HIDE DEF all
<1>2. Len(all) \in Nat /\ \A i \in 1..Len(all) : all[i] \in E
  BY <1>1, LenProperties, ElementOfSeq
<1>3. mid \in 0..Len(all)
  BY <1>2
<1> HIDE DEF mid
<1>4. SubSeq(all, 1, mid) \in Seq(E)
  <2>1. 1 \in Int /\ mid \in Int /\ \A i \in 1..mid : all[i] \in E
    BY <1>2, <1>3
  <2> QED BY <2>1, SubSeqProperties
<1>5. SubSeq(all, mid + 1, Len(all)) \in Seq(E)
  <2>1. mid + 1 \in Int /\ Len(all) \in Int /\ \A i \in (mid + 1)..Len(all) : all[i] \in E
    BY <1>2, <1>3
  <2> QED BY <2>1, SubSeqProperties
<1>6. Halves(es, e) = <<SubSeq(all, 1, mid), SubSeq(all, mid + 1, Len(all))>>
  BY DEF Halves, all, mid
<1> QED BY <1>4, <1>5, <1>6

(* What a call has in its hands.  C and D are the pages in the cache and   *)
(* in the file, and pages up to n have been given out.                     *)

WriteOK(own, leaves, C, n, w) ==
  PageOK(own, leaves, w.id, w.page) /\ (w.id \in C \/ w.id \in 0..(n - 1))

WritesOK(own, leaves, C, n, ws) ==
  \E S : ws \in Seq(S) /\ \A w \in S : WriteOK(own, leaves, C, n, w)

(* Its location is one of its id. *)
CallGood(own, tk) ==
  /\ (tk.pc = "found" \/ (tk.call.op \in {"new", "update"} /\ tk.pc \notin {"place", "idle", "done"}))
       => tk.loc \in DOMAIN own /\ own[tk.loc] = tk.key
  /\ tk.pc = "place" => tk.call.file \in Files
  /\ tk.pc \in {"first", "split"} => tk.call.op = "new"

(* It came by inner pages, and is at a leaf. *)
PlaceGood(own, leaves, C, tk) ==
  /\ tk.path \in Seq(C \ leaves)
  /\ tk.pc \in {"leaf", "split"} => tk.cur \in C /\ tk.cur \in leaves
  /\ tk.pc = "split" => tk.copy.entries \in Seq(LeafEntries(own))
  /\ tk.pc \in {"ancestors", "splitinner"} => tk.path # <<>>
  /\ tk.pc \in {"put", "mark"} => tk.writes # <<>>
  /\ tk.pc \in {"put", "mark"} /\ tk.then = "ancestors" => tk.path # <<>>

(* The page it has read from the file, and those it is going to write. *)
Reading == {"descend", "sibling", "ancestors", "header"}
Target(tk) == IF tk.pc = "ancestors" THEN Last(tk.path)
              ELSE IF tk.pc = "header" THEN 0 ELSE tk.cur
BufGood(own, leaves, D, tk) ==
  tk.buf # NoPage => /\ tk.pc \in Reading
                     /\ PageOK(own, leaves, Target(tk), tk.buf)
                     /\ Target(tk) \in D \/ tk.buf = ZeroPage

TaskGood(own, leaves, C, D, n, tk) ==
  /\ CallGood(own, tk) /\ PlaceGood(own, leaves, C, tk) /\ BufGood(own, leaves, D, tk)
  /\ WritesOK(own, leaves, C, n, tk.writes) /\ WritesOK(own, leaves, C, n, tk.old)

(* More locations and leaves, of which nobody has heard. *)
Grow(own, leaves, C, D, n, own2, leaves2, C2, D2, n2) ==
  /\ \A loc \in DOMAIN own : loc \in DOMAIN own2 /\ own2[loc] = own[loc]
  /\ leaves \subseteq leaves2 /\ C \subseteq C2 /\ D \subseteq D2
  /\ n \in Nat /\ n2 \in Nat /\ n <= n2
  /\ \A p \in leaves2 \ leaves : p \notin C /\ p \notin D /\ p \notin 0..(n - 1)

LEMMA SeqGrows ==
  ASSUME NEW S, NEW T, S \subseteq T, NEW s \in Seq(S) PROVE s \in Seq(T)
OBVIOUS

LEMMA EntriesGrow ==
  ASSUME NEW own, NEW own2, \A loc \in DOMAIN own : loc \in DOMAIN own2 /\ own2[loc] = own[loc]
  PROVE  LeafEntries(own) \subseteq LeafEntries(own2)
BY DEF LeafEntries

LEMMA PageGrows ==
  ASSUME NEW own, NEW own2, \A loc \in DOMAIN own : loc \in DOMAIN own2 /\ own2[loc] = own[loc],
         NEW leaves, NEW leaves2, leaves \subseteq leaves2, NEW p, NEW page,
         p \notin leaves2 \ leaves, PageOK(own, leaves, p, page)
  PROVE  PageOK(own2, leaves2, p, page)
<1>1. \A es : es \in Seq(LeafEntries(own)) => es \in Seq(LeafEntries(own2))
  BY EntriesGrow, SeqGrows
<1> QED BY <1>1 DEF PageOK

LEMMA ZeroOK == ASSUME NEW own, NEW leaves, NEW p PROVE PageOK(own, leaves, p, ZeroPage)
BY DEF PageOK, ZeroPage

LEMMA WritesGrow ==
  ASSUME NEW own, NEW leaves, NEW C, NEW D, NEW n, NEW own2, NEW leaves2, NEW C2, NEW D2, NEW n2,
         Grow(own, leaves, C, D, n, own2, leaves2, C2, D2, n2), NEW ws, WritesOK(own, leaves, C, n, ws)
  PROVE  WritesOK(own2, leaves2, C2, n2, ws)
<1>1. PICK S : ws \in Seq(S) /\ \A w \in S : WriteOK(own, leaves, C, n, w)
  BY DEF WritesOK
<1>2. ASSUME NEW w \in S PROVE WriteOK(own2, leaves2, C2, n2, w)
  <2>1. PageOK(own, leaves, w.id, w.page) /\ (w.id \in C \/ w.id \in 0..(n - 1))
    BY <1>1 DEF WriteOK
  <2>2. w.id \notin leaves2 \ leaves
    BY <2>1 DEF Grow
  <2>3. w.id \in C2 \/ w.id \in 0..(n2 - 1)
    BY <2>1 DEF Grow
  <2>4. PageOK(own2, leaves2, w.id, w.page)
    BY <2>1, <2>2, PageGrows DEF Grow
  <2> QED BY <2>3, <2>4 DEF WriteOK
<1> QED BY <1>1, <1>2 DEF WritesOK

LEMMA TaskGrows ==
  ASSUME NEW own, NEW leaves, NEW C, NEW D, NEW n, NEW own2, NEW leaves2, NEW C2, NEW D2, NEW n2,
         Grow(own, leaves, C, D, n, own2, leaves2, C2, D2, n2),
         NEW tk, TaskGood(own, leaves, C, D, n, tk)
  PROVE  TaskGood(own2, leaves2, C2, D2, n2, tk)
<1>1. CallGood(own2, tk)
  BY DEF TaskGood, CallGood, Grow
<1>2. PlaceGood(own2, leaves2, C2, tk)
  <2>1. C \ leaves \subseteq C2 \ leaves2
    BY DEF Grow
  <2>2. tk.path \in Seq(C2 \ leaves2)
    BY <2>1, SeqGrows DEF TaskGood, PlaceGood
  <2>3. \A es : es \in Seq(LeafEntries(own)) => es \in Seq(LeafEntries(own2))
    BY EntriesGrow, SeqGrows DEF Grow
  <2> QED BY <2>2, <2>3 DEF TaskGood, PlaceGood, Grow
<1>3. BufGood(own2, leaves2, D2, tk)
  <2> SUFFICES ASSUME tk.buf # NoPage
               PROVE  /\ tk.pc \in Reading
                      /\ PageOK(own2, leaves2, Target(tk), tk.buf)
                      /\ Target(tk) \in D2 \/ tk.buf = ZeroPage
    BY DEF BufGood
  <2>1. /\ tk.pc \in Reading
        /\ PageOK(own, leaves, Target(tk), tk.buf)
        /\ Target(tk) \in D \/ tk.buf = ZeroPage
    BY DEF TaskGood, BufGood
  <2>2. CASE tk.buf = ZeroPage
    BY <2>1, <2>2, ZeroOK
  <2>3. CASE Target(tk) \in D
    <3>1. Target(tk) \notin leaves2 \ leaves /\ Target(tk) \in D2
      BY <2>3 DEF Grow
    <3> QED BY <2>1, <3>1, PageGrows DEF Grow
  <2> QED BY <2>1, <2>2, <2>3
<1> QED BY <1>1, <1>2, <1>3, WritesGrow DEF TaskGood

-----------------------------------------------------------------------------
(* The invariant *)

Numbers ==
  /\ next_page \in [Files -> Nat \ {0}]
  /\ next_dir_page \in Nat \ {0}
  /\ \E S : todo \in Seq(S) /\ \A c \in S : NamesFile(c)

(* The locations were allocated, and have the contents of their ids. *)
OwnGood(own) ==
  /\ \A loc \in DOMAIN own : \E f \in Files : \E n \in 1..(next_page[f] - 1) :
       n < PageNumbers /\ loc = [file |-> f, offset |-> n * PageSize]
  /\ \A loc \in DOMAIN data : loc \in DOMAIN own /\ data[loc] = own[loc]

PagesGood(own, leaves) ==
  /\ leaves \subseteq 1..(next_dir_page - 1)
  /\ \A p \in DOMAIN cache : PageOK(own, leaves, p, cache[p])
  /\ \A p \in DOMAIN disk : PageOK(own, leaves, p, disk[p])

TasksGood(own, leaves) ==
  \A t \in Tasks : TaskGood(own, leaves, DOMAIN cache, DOMAIN disk, next_dir_page, task[t])

Good(own, leaves) == OwnGood(own) /\ PagesGood(own, leaves) /\ TasksGood(own, leaves)

LEMMA OwnShaped == ASSUME Numbers, NEW own, OwnGood(own) PROVE OwnShape(own)
<1> SUFFICES ASSUME NEW loc \in DOMAIN own
             PROVE  \E f, n : n \in 1..(PageNumbers - 1) /\ loc = [file |-> f, offset |-> n * PageSize]
  BY DEF OwnShape
<1>0. PICK f \in Files : \E n \in 1..(next_page[f] - 1) :
        n < PageNumbers /\ loc = [file |-> f, offset |-> n * PageSize]
  BY DEF OwnGood
<1>1. PICK n \in 1..(next_page[f] - 1) : n < PageNumbers /\ loc = [file |-> f, offset |-> n * PageSize]
  BY <1>0
<1>2. n \in 1..(PageNumbers - 1)
  BY <1>1, DirectoryPageAssumption DEF Numbers
<1> QED BY <1>1, <1>2

(* A step of t that gives out nothing new. *)
LEMMA SameGood ==
  ASSUME NEW own, NEW leaves, Good(own, leaves), Numbers, NEW t \in Tasks, TaskStep(t),
         next_page' = next_page, next_dir_page' = next_dir_page,
         \A loc \in DOMAIN data' : loc \in DOMAIN own /\ data'[loc] = own[loc],
         DOMAIN cache \subseteq DOMAIN cache', DOMAIN disk \subseteq DOMAIN disk',
         \A p \in DOMAIN cache' : PageOK(own, leaves, p, cache'[p]),
         \A p \in DOMAIN disk' : PageOK(own, leaves, p, disk'[p]),
         TaskGood(own, leaves, DOMAIN cache', DOMAIN disk', next_dir_page, task'[t])
  PROVE  Good(own, leaves)'
<1>1. OwnGood(own)' /\ PagesGood(own, leaves)'
  BY DEF Good, OwnGood, PagesGood
<1>2. Grow(own, leaves, DOMAIN cache, DOMAIN disk, next_dir_page,
           own, leaves, DOMAIN cache', DOMAIN disk', next_dir_page)
  BY DEF Grow, Numbers
<1>3. ASSUME NEW u \in Tasks
      PROVE  TaskGood(own, leaves, DOMAIN cache', DOMAIN disk', next_dir_page', task'[u])
  <2>1. CASE u = t
    BY <2>1
  <2>2. CASE u # t
    <3>1. task'[u] = task[u] /\ TaskGood(own, leaves, DOMAIN cache, DOMAIN disk, next_dir_page, task[u])
      BY <2>2 DEF TaskStep, Good, TasksGood
    <3> QED BY <1>2, <3>1, TaskGrows
  <2> QED BY <2>1, <2>2
<1> QED BY <1>1, <1>3 DEF Good, TasksGood

(* A step of t that gives out a directory page. *)
LEMMA AllocGood ==
  ASSUME NEW own, NEW leaves, Good(own, leaves), Numbers, NEW t \in Tasks, TaskStep(t),
         next_page' = next_page, data' = data, cache' = cache, disk' = disk,
         alloc_dir_page, ~reused',
         NEW leaves2, leaves2 = leaves \/ leaves2 = leaves \cup {next_dir_page},
         TaskGood(own, leaves2, DOMAIN cache, DOMAIN disk, next_dir_page + 1, task'[t])
  PROVE  Good(own, leaves2)'
<1>1. /\ next_dir_page' = next_dir_page + 1
      /\ next_dir_page \notin DOMAIN cache /\ next_dir_page \notin DOMAIN disk
  BY DEF alloc_dir_page
<1>2. Grow(own, leaves, DOMAIN cache, DOMAIN disk, next_dir_page,
           own, leaves2, DOMAIN cache, DOMAIN disk, next_dir_page + 1)
  BY <1>1 DEF Grow, Numbers
<1>3. OwnGood(own)'
  BY DEF Good, OwnGood
<1>4. PagesGood(own, leaves2)'
  <2>1. leaves2 \subseteq 1..((next_dir_page + 1) - 1)
    <3>1. \A p \in 1..(next_dir_page - 1) : p \in 1..((next_dir_page + 1) - 1)
      BY DEF Numbers
    <3>2. next_dir_page \in 1..((next_dir_page + 1) - 1)
      BY DEF Numbers
    <3> QED BY <3>1, <3>2 DEF Good, PagesGood
  <2>2. \A p, page : p # next_dir_page /\ PageOK(own, leaves, p, page) => PageOK(own, leaves2, p, page)
    BY DEF PageOK
  <2> QED BY <1>1, <2>1, <2>2 DEF Good, PagesGood
<1>5. ASSUME NEW u \in Tasks
      PROVE  TaskGood(own, leaves2, DOMAIN cache', DOMAIN disk', next_dir_page', task'[u])
  <2>1. CASE u = t
    BY <1>1, <2>1
  <2>2. CASE u # t
    <3>1. task'[u] = task[u] /\ TaskGood(own, leaves, DOMAIN cache, DOMAIN disk, next_dir_page, task[u])
      BY <2>2 DEF TaskStep, Good, TasksGood
    <3> QED BY <1>1, <1>2, <3>1, TaskGrows
  <2> QED BY <2>1, <2>2
<1> QED BY <1>3, <1>4, <1>5 DEF Good, TasksGood

-----------------------------------------------------------------------------
(* Pages that are to be written *)

LEMMA WritesFrom ==
  ASSUME NEW own, NEW leaves, NEW C, NEW n, NEW S, NEW ws \in Seq(S),
         \A w \in S : WriteOK(own, leaves, C, n, w)
  PROVE  WritesOK(own, leaves, C, n, ws)
BY DEF WritesOK

LEMMA WritesNone == ASSUME NEW own, NEW leaves, NEW C, NEW n PROVE WritesOK(own, leaves, C, n, <<>>)
<1> DEFINE S == {}
<1>1. <<>> \in Seq(S)
  OBVIOUS
<1>2. \A w \in S : WriteOK(own, leaves, C, n, w)
  OBVIOUS
<1> HIDE DEF S
<1> QED BY <1>1, <1>2, WritesFrom

LEMMA WritesOne ==
  ASSUME NEW own, NEW leaves, NEW C, NEW n, NEW w, WriteOK(own, leaves, C, n, w)
  PROVE  WritesOK(own, leaves, C, n, <<w>>) /\ <<w>> # <<>>
<1> DEFINE S == {w}
<1>1. <<w>> \in Seq(S) /\ Len(<<w>>) = 1 /\ Len(<<>>) = 0
  OBVIOUS
<1>2. \A x \in S : WriteOK(own, leaves, C, n, x)
  OBVIOUS
<1> HIDE DEF S
<1>3. WritesOK(own, leaves, C, n, <<w>>)
  BY <1>1, <1>2, WritesFrom
<1> QED BY <1>1, <1>3

LEMMA WritesTwo ==
  ASSUME NEW own, NEW leaves, NEW C, NEW n, NEW w, WriteOK(own, leaves, C, n, w),
         NEW x, WriteOK(own, leaves, C, n, x)
  PROVE  WritesOK(own, leaves, C, n, <<w, x>>) /\ <<w, x>> # <<>>
<1> DEFINE S == {w, x}
<1>1. <<w, x>> \in Seq(S) /\ Len(<<w, x>>) = 2 /\ Len(<<>>) = 0
  OBVIOUS
<1>2. \A y \in S : WriteOK(own, leaves, C, n, y)
  OBVIOUS
<1> HIDE DEF S
<1>3. WritesOK(own, leaves, C, n, <<w, x>>)
  BY <1>1, <1>2, WritesFrom
<1> QED BY <1>1, <1>3

LEMMA WritesFirst ==
  ASSUME NEW own, NEW leaves, NEW C, NEW n, NEW w, WriteOK(own, leaves, C, n, w),
         NEW ws, WritesOK(own, leaves, C, n, ws)
  PROVE  WritesOK(own, leaves, C, n, <<w>> \o ws) /\ <<w>> \o ws # <<>>
<1>1. PICK S : ws \in Seq(S) /\ \A x \in S : WriteOK(own, leaves, C, n, x)
  BY DEF WritesOK
<1> DEFINE T == S \cup {w}
<1>2. ws \in Seq(T) /\ <<w>> \in Seq(T)
  BY <1>1, SeqGrows
<1>3. \A x \in T : WriteOK(own, leaves, C, n, x)
  BY <1>1
<1> HIDE DEF T
<1>4. <<w>> \o ws \in Seq(T) /\ Len(<<w>> \o ws) = 1 + Len(ws) /\ Len(ws) \in Nat
  BY <1>2, ConcatProperties, LenProperties
<1>5. <<w>> \o ws # <<>>
  BY <1>4
<1> QED BY <1>3, <1>4, <1>5 DEF WritesOK

LEMMA WritesRest ==
  ASSUME NEW own, NEW leaves, NEW C, NEW n, NEW ws, WritesOK(own, leaves, C, n, ws), ws # <<>>
  PROVE  WriteOK(own, leaves, C, n, Head(ws)) /\ WritesOK(own, leaves, C, n, Tail(ws))
<1>1. PICK S : ws \in Seq(S) /\ \A w \in S : WriteOK(own, leaves, C, n, w)
  BY DEF WritesOK
<1>2. Head(ws) \in S /\ Tail(ws) \in Seq(S)
  BY <1>1
<1> QED BY <1>1, <1>2 DEF WritesOK

(* The fields of a call that has returned, and of one that is writing. *)
LEMMA DoneFields ==
  ASSUME TasksOK, NEW t \in Tasks, NEW res, NEW out, Return(t, res, out)
  PROVE  /\ TaskStep(t) /\ task'[t].pc = "done" /\ task'[t].path = <<>> /\ task'[t].buf = NoPage
         /\ task'[t].writes = <<>> /\ task'[t].old = <<>>
         /\ task'[t].call = task[t].call /\ task'[t].key = task[t].key /\ task'[t].out = out
BY DEF TasksOK, TaskStep, TaskOK, Return, NoTask, Thens

LEMMA DoneGood ==
  ASSUME NEW own, NEW leaves, NEW C, NEW D, NEW n, NEW tk,
         tk.pc \in {"done", "idle", "place", "root", "flush"}, tk.path = <<>>, tk.buf = NoPage,
         tk.writes = <<>>, tk.old = <<>>, CallGood(own, tk)
  PROVE  TaskGood(own, leaves, C, D, n, tk)
<1>1. <<>> \in Seq(C \ leaves)
  OBVIOUS
<1> QED BY <1>1, WritesNone DEF TaskGood, PlaceGood, BufGood

LEMMA ReturnGood ==
  ASSUME TasksOK, NEW t \in Tasks, NEW res, NEW out, Return(t, res, out),
         NEW own, NEW leaves, NEW C, NEW D, NEW n
  PROVE  TaskStep(t) /\ TaskGood(own, leaves, C, D, n, task'[t])
<1>1. CallGood(own, task'[t])
  BY DoneFields DEF CallGood
<1> QED BY <1>1, DoneFields, DoneGood

LEMMA WritingFields ==
  ASSUME NEW tk, TaskOK(tk), NEW ws, NEW next
  PROVE  LET w == Writing(tk, ws, next)
         IN  /\ DOMAIN w = DOMAIN NoTask
             /\ w.pc = "put" /\ w.writes = ws /\ w.then = next /\ w.buf = NoPage /\ w.old = <<>>
             /\ w.call = tk.call /\ w.key = tk.key /\ w.loc = tk.loc /\ w.path = tk.path
             /\ w.out = tk.out
BY DEF TaskOK, Writing, NoTask

(* A call that has its location, at a place that asks for little. *)
HasPlace(own, tk) == tk.call.op \in {"new", "update"} => tk.loc \in DOMAIN own /\ own[tk.loc] = tk.key

LEMMA PutGood ==
  ASSUME NEW own, NEW leaves, NEW C, NEW D, NEW n, NEW tk, tk.pc = "put", HasPlace(own, tk),
         tk.path \in Seq(C \ leaves), tk.writes # <<>>, tk.then = "ancestors" => tk.path # <<>>,
         tk.buf = NoPage, WritesOK(own, leaves, C, n, tk.writes), WritesOK(own, leaves, C, n, tk.old)
  PROVE  TaskGood(own, leaves, C, D, n, tk)
BY DEF TaskGood, CallGood, PlaceGood, BufGood, HasPlace

LEMMA WritingGood ==
  ASSUME NEW own, NEW leaves, NEW C, NEW D, NEW n, NEW tk, TaskOK(tk), HasPlace(own, tk),
         tk.path \in Seq(C \ leaves), NEW ws, ws # <<>>, WritesOK(own, leaves, C, n, ws),
         NEW next, next = "ancestors" => tk.path # <<>>
  PROVE  TaskGood(own, leaves, C, D, n, Writing(tk, ws, next))
<1> DEFINE w == Writing(tk, ws, next)
<1>1. /\ w.pc = "put" /\ w.writes = ws /\ w.then = next /\ w.buf = NoPage /\ w.old = <<>>
      /\ w.call = tk.call /\ w.key = tk.key /\ w.loc = tk.loc /\ w.path = tk.path
  BY WritingFields
<1> HIDE DEF w
<1>2. HasPlace(own, w)
  BY <1>1 DEF HasPlace
<1>3. TaskGood(own, leaves, C, D, n, w)
  BY <1>1, <1>2, WritesNone, PutGood
<1> QED BY <1>3 DEF w

(* The parts of the invariant that the step of t uses. *)
LEMMA GoodTask ==
  ASSUME NEW own, NEW leaves, Good(own, leaves), NEW t \in Tasks
  PROVE  /\ CallGood(own, task[t]) /\ PlaceGood(own, leaves, DOMAIN cache, task[t])
         /\ BufGood(own, leaves, DOMAIN disk, task[t])
         /\ WritesOK(own, leaves, DOMAIN cache, next_dir_page, task[t].writes)
         /\ WritesOK(own, leaves, DOMAIN cache, next_dir_page, task[t].old)
BY DEF Good, TasksGood, TaskGood

LEMMA WithGood ==
  ASSUME NEW own, NEW leaves, NEW f, \A p \in DOMAIN f : PageOK(own, leaves, p, f[p]),
         NEW q, NEW page, PageOK(own, leaves, q, page)
  PROVE  /\ DOMAIN f \subseteq DOMAIN With(f, q, page) /\ q \in DOMAIN With(f, q, page)
         /\ \A p \in DOMAIN With(f, q, page) : PageOK(own, leaves, p, With(f, q, page)[p])
<1> DEFINE g == With(f, q, page)
<1>1. DOMAIN g = DOMAIN f \cup {q} /\ g[q] = page /\ \A p \in DOMAIN f : p # q => g[p] = f[p]
  BY DEF With
<1> HIDE DEF g
<1>2. DOMAIN f \subseteq DOMAIN g /\ q \in DOMAIN g /\ \A p \in DOMAIN g : PageOK(own, leaves, p, g[p])
  BY <1>1
<1> QED BY <1>2 DEF g

(* read_page of a page that is there, or was read before. *)
LEMMA FillGood ==
  ASSUME NEW own, NEW leaves, Good(own, leaves), NEW t \in Tasks, task[t].pc \in Reading,
         NEW p, p = Target(task[t]), Has(t, p), Fill(t, p)
  PROVE  /\ DOMAIN cache \subseteq DOMAIN cache' /\ p \in DOMAIN cache'
         /\ \A q \in DOMAIN cache' : PageOK(own, leaves, q, cache'[q])
         /\ PageOK(own, leaves, p, Page(t, p))
<1>0. \A q \in DOMAIN cache : PageOK(own, leaves, q, cache[q])
  BY DEF Good, PagesGood
<1>1. CASE task[t].buf = NoPage
  BY <1>0, <1>1 DEF Fill, Has, Page
<1>2. CASE task[t].buf # NoPage
  <2>1. PageOK(own, leaves, p, task[t].buf)
    BY <1>2, GoodTask DEF BufGood
  <2>2. cache' = With(cache, p, task[t].buf) /\ Page(t, p) = task[t].buf
    BY <1>2 DEF Fill, Page
  <2> QED BY <1>0, <2>1, <2>2, WithGood
<1> QED BY <1>1, <1>2

-----------------------------------------------------------------------------
(* The steps of the directory *)

(* The disk manager's own variables stay. *)
Frame == next_page' = next_page /\ data' = data

(* A step of t that leaves the pages alone. *)
LEMMA StayGood ==
  ASSUME NEW own, NEW leaves, Good(own, leaves), Numbers, NEW t \in Tasks, TaskStep(t), Frame,
         next_dir_page' = next_dir_page, cache' = cache, disk' = disk,
         TaskGood(own, leaves, DOMAIN cache, DOMAIN disk, next_dir_page, task'[t])
  PROVE  Good(own, leaves)'
<1>1. /\ \A loc \in DOMAIN data' : loc \in DOMAIN own /\ data'[loc] = own[loc]
      /\ \A p \in DOMAIN cache' : PageOK(own, leaves, p, cache'[p])
      /\ \A p \in DOMAIN disk' : PageOK(own, leaves, p, disk'[p])
  BY DEF Good, OwnGood, PagesGood, Frame
<1> QED BY <1>1, SameGood DEF Frame

(* A step of t that may add to the cache the page it has read. *)
LEMMA FillStays ==
  ASSUME NEW own, NEW leaves, Good(own, leaves), Numbers, NEW t \in Tasks, TaskStep(t), Frame,
         next_dir_page' = next_dir_page, disk' = disk,
         task[t].pc \in Reading, NEW p, p = Target(task[t]), Has(t, p), Fill(t, p),
         TaskGood(own, leaves, DOMAIN cache', DOMAIN disk, next_dir_page, task'[t])
  PROVE  Good(own, leaves)'
<1>1. /\ \A loc \in DOMAIN data' : loc \in DOMAIN own /\ data'[loc] = own[loc]
      /\ \A q \in DOMAIN disk' : PageOK(own, leaves, q, disk'[q])
  BY DEF Good, OwnGood, PagesGood, Frame
<1>2. /\ DOMAIN cache \subseteq DOMAIN cache'
      /\ \A q \in DOMAIN cache' : PageOK(own, leaves, q, cache'[q])
  BY FillGood
<1> QED BY <1>1, <1>2, SameGood DEF Frame

LEMMA ReadFileGood ==
  ASSUME NEW own, NEW leaves, Good(own, leaves), Numbers, TasksOK, NEW t \in Tasks,
         ReadFile(t), Frame
  PROVE  Good(own, leaves)'
<1>1. PICK p \in Wanted(t) :
        /\ ~Has(t, p)
        /\ task' = [task EXCEPT ![t].buf = OnDisk(p)] \/ ReturnError(t, "IOError")
  BY DEF ReadFile
<1>2. cache' = cache /\ disk' = disk /\ next_dir_page' = next_dir_page
  BY DEF ReadFile, dirVars
<1>3. TaskStep(t)
  BY DirQuiet DEF Quiet
<1>4. TaskGood(own, leaves, DOMAIN cache, DOMAIN disk, next_dir_page, task'[t])
  <2>1. CASE ReturnError(t, "IOError")
    BY <2>1, ReturnGood DEF ReturnError
  <2>2. CASE task' = [task EXCEPT ![t].buf = OnDisk(p)]
    <3>1. task[t].pc \in Reading /\ p = Target(task[t])
      <4>1. task[t].pc # "leaf"
        BY <1>1, GoodTask DEF Wanted, Has, PlaceGood
      <4> QED BY <1>1, <4>1 DEF Wanted, Reading, Target
    <3>2. PageOK(own, leaves, p, OnDisk(p)) /\ (p \in DOMAIN disk \/ OnDisk(p) = ZeroPage)
      BY ZeroOK DEF Good, PagesGood, OnDisk
    <3> DEFINE tk == task[t]
               new == task'[t]
    <3>3. /\ new.pc = tk.pc /\ new.call = tk.call /\ new.key = tk.key /\ new.loc = tk.loc
          /\ new.path = tk.path /\ new.cur = tk.cur /\ new.copy = tk.copy /\ new.writes = tk.writes
          /\ new.old = tk.old /\ new.then = tk.then /\ new.buf = OnDisk(p)
      BY <2>2 DEF TasksOK, TaskOK, NoTask
    <3> HIDE DEF tk, new
    <3>4. CallGood(own, tk) /\ PlaceGood(own, leaves, DOMAIN cache, tk)
          /\ WritesOK(own, leaves, DOMAIN cache, next_dir_page, tk.writes)
          /\ WritesOK(own, leaves, DOMAIN cache, next_dir_page, tk.old)
      BY GoodTask DEF tk
    <3>5. CallGood(own, new) /\ PlaceGood(own, leaves, DOMAIN cache, new)
      BY <3>3, <3>4 DEF CallGood, PlaceGood
    <3>6. new.pc \in Reading /\ Target(new) = p
      BY <3>1, <3>3 DEF Target, tk
    <3>7. BufGood(own, leaves, DOMAIN disk, new)
      BY <3>2, <3>3, <3>6 DEF BufGood
    <3>8. TaskGood(own, leaves, DOMAIN cache, DOMAIN disk, next_dir_page, new)
      BY <3>3, <3>4, <3>5, <3>7 DEF TaskGood
    <3> QED BY <3>8 DEF new
  <2> QED BY <1>1, <2>1, <2>2
<1> QED BY <1>2, <1>3, <1>4, StayGood

(* A call that has moved on, with the pages it is going to write. *)
LEMMA MovedGood ==
  ASSUME NEW own, NEW leaves, NEW C, NEW D, NEW n, NEW tk,
         CallGood(own, tk), PlaceGood(own, leaves, C, tk), tk.buf = NoPage,
         WritesOK(own, leaves, C, n, tk.writes), WritesOK(own, leaves, C, n, tk.old)
  PROVE  TaskGood(own, leaves, C, D, n, tk)
BY DEF TaskGood, BufGood

(* A call that is not reading has no page read. *)
LEMMA NothingRead ==
  ASSUME NEW own, NEW leaves, Good(own, leaves), NEW t \in Tasks, task[t].pc \notin Reading
  PROVE  task[t].buf = NoPage
BY GoodTask DEF BufGood

(* The page of a call that is at its leaf. *)
LEMMA AtLeaf ==
  ASSUME NEW own, NEW leaves, Good(own, leaves), Numbers, NEW t \in Tasks, task[t].pc = "leaf"
  PROVE  /\ task[t].buf = NoPage /\ task[t].cur \in DOMAIN cache /\ task[t].cur \in leaves
         /\ PageOK(own, leaves, task[t].cur, Page(t, task[t].cur))
         /\ Page(t, task[t].cur).entries \in Seq(LeafEntries(own))
         /\ OwnShape(own)
<1>1. task[t].buf = NoPage
  BY NothingRead DEF Reading
<1>2. task[t].cur \in DOMAIN cache /\ task[t].cur \in leaves
  BY GoodTask DEF PlaceGood
<1>3. PageOK(own, leaves, task[t].cur, Page(t, task[t].cur))
  BY <1>1, <1>2 DEF Page, Good, PagesGood
<1>4. Page(t, task[t].cur).entries \in Seq(LeafEntries(own))
  BY <1>2, <1>3 DEF PageOK
<1> QED BY <1>1, <1>2, <1>3, <1>4, OwnShaped DEF Good

LEMMA CachePutGood ==
  ASSUME NEW own, NEW leaves, Good(own, leaves), Numbers, TasksOK, NEW t \in Tasks,
         CachePut(t), Frame
  PROVE  Good(own, leaves)'
<1> DEFINE w == Head(task[t].writes)
           tk == task[t]
           new == task'[t]
<1>1. /\ tk.pc = "put" /\ cache' = With(cache, w.id, w.page) /\ task' = [task EXCEPT ![t].pc = "mark"]
      /\ disk' = disk /\ next_dir_page' = next_dir_page
  BY DEF CachePut
<1>2. TaskStep(t) /\ new = [tk EXCEPT !.pc = "mark"]
  BY <1>1 DEF TasksOK, TaskStep, TaskOK, NoTask
<1>3. /\ new.pc = "mark" /\ new.call = tk.call /\ new.key = tk.key /\ new.loc = tk.loc
      /\ new.path = tk.path /\ new.writes = tk.writes /\ new.then = tk.then
      /\ new.old = tk.old /\ new.buf = tk.buf
  BY <1>2 DEF TasksOK, TaskOK, NoTask
<1>4. TaskGood(own, leaves, DOMAIN cache, DOMAIN disk, next_dir_page, tk)
  BY DEF Good, TasksGood
<1>5. /\ CallGood(own, tk) /\ PlaceGood(own, leaves, DOMAIN cache, tk) /\ tk.buf = NoPage
      /\ WritesOK(own, leaves, DOMAIN cache, next_dir_page, tk.writes)
      /\ WritesOK(own, leaves, DOMAIN cache, next_dir_page, tk.old)
  BY <1>1, GoodTask, NothingRead DEF Reading
<1>6. WriteOK(own, leaves, DOMAIN cache, next_dir_page, w)
  BY <1>1, <1>5, WritesRest DEF PlaceGood
<1>7. /\ DOMAIN cache \subseteq DOMAIN cache'
      /\ \A p \in DOMAIN cache' : PageOK(own, leaves, p, cache'[p])
  <2> HIDE DEF w
  <2>1. \A p \in DOMAIN cache : PageOK(own, leaves, p, cache[p])
    BY DEF Good, PagesGood
  <2> QED BY <1>1, <1>6, <2>1, WithGood DEF WriteOK
<1> HIDE DEF w, tk, new
<1>8. CallGood(own, new) /\ PlaceGood(own, leaves, DOMAIN cache, new)
  BY <1>1, <1>3, <1>5 DEF CallGood, PlaceGood
<1>9. TaskGood(own, leaves, DOMAIN cache, DOMAIN disk, next_dir_page, new)
  BY <1>3, <1>5, <1>8, MovedGood
<1>10. Grow(own, leaves, DOMAIN cache, DOMAIN disk, next_dir_page,
            own, leaves, DOMAIN cache', DOMAIN disk', next_dir_page)
  BY <1>1, <1>7 DEF Grow, Numbers
<1>11. TaskGood(own, leaves, DOMAIN cache', DOMAIN disk', next_dir_page, new)
  BY <1>9, <1>10, TaskGrows
<1>12. /\ \A loc \in DOMAIN data' : loc \in DOMAIN own /\ data'[loc] = own[loc]
       /\ \A p \in DOMAIN disk' : PageOK(own, leaves, p, disk'[p])
  BY <1>1 DEF Good, OwnGood, PagesGood, Frame
<1> QED BY <1>1, <1>2, <1>7, <1>11, <1>12, SameGood DEF Frame, new

LEMMA LongTail == ASSUME NEW S, NEW s \in Seq(S), Len(s) > 1 PROVE Tail(s) # <<>>
<1>1. Len(s) \in Nat /\ s # <<>>
  BY LenProperties
<1> DEFINE r == Tail(s)
           n == Len(s)
<1>2. Len(r) = n - 1
  BY <1>1, HeadTailProperties
<1> HIDE DEF r
<1>3. n \in Nat /\ n > 1
  BY <1>1
<1> HIDE DEF n
<1>4. Len(r) # 0
  BY <1>2, <1>3
<1>5. r # <<>>
  BY <1>4
<1> QED BY <1>5 DEF r

LEMMA DirtyMarkGood ==
  ASSUME NEW own, NEW leaves, Good(own, leaves), Numbers, TasksOK, NEW t \in Tasks,
         DirtyMark(t), Frame
  PROVE  Good(own, leaves)'
<1> DEFINE tk == task[t]
           new == task'[t]
<1>1. /\ tk.pc = "mark" /\ cache' = cache /\ disk' = disk /\ next_dir_page' = next_dir_page
  BY DEF DirtyMark
<1>2. /\ CallGood(own, tk) /\ PlaceGood(own, leaves, DOMAIN cache, tk) /\ tk.buf = NoPage
      /\ WritesOK(own, leaves, DOMAIN cache, next_dir_page, tk.writes)
      /\ WritesOK(own, leaves, DOMAIN cache, next_dir_page, tk.old)
  BY <1>1, GoodTask, NothingRead DEF Reading
<1>3. tk.writes # <<>> /\ tk.then \in Thens
  BY <1>1, <1>2 DEF PlaceGood, TasksOK, TaskOK
<1>4. TaskStep(t) /\ TaskGood(own, leaves, DOMAIN cache, DOMAIN disk, next_dir_page, new)
  <2>1. CASE task' = [task EXCEPT ![t].pc = "put", ![t].writes = Tail(@)] /\ Len(task[t].writes) > 1
    <3>1. TaskStep(t) /\ new = [tk EXCEPT !.pc = "put", !.writes = Tail(@)]
      BY <2>1 DEF TasksOK, TaskStep, TaskOK, NoTask
    <3>2. /\ new.pc = "put" /\ new.call = tk.call /\ new.key = tk.key /\ new.loc = tk.loc
          /\ new.path = tk.path /\ new.writes = Tail(tk.writes) /\ new.then = tk.then
          /\ new.old = tk.old /\ new.buf = tk.buf
      BY <3>1 DEF TasksOK, TaskOK, NoTask
    <3>3. Tail(tk.writes) # <<>>
      <4>1. PICK S : tk.writes \in Seq(S)
        BY <1>2 DEF WritesOK
      <4>2. Len(tk.writes) > 1
        BY <2>1
      <4> HIDE DEF tk
      <4> QED BY <4>1, <4>2, LongTail
    <3>4. WritesOK(own, leaves, DOMAIN cache, next_dir_page, Tail(tk.writes))
      BY <1>2, <1>3, WritesRest
    <3> HIDE DEF tk, new
    <3>5. CallGood(own, new) /\ PlaceGood(own, leaves, DOMAIN cache, new)
      BY <1>1, <1>2, <3>2, <3>3 DEF CallGood, PlaceGood
    <3> QED BY <1>2, <3>1, <3>2, <3>4, <3>5, MovedGood
  <2>2. CASE Return(t, "ok", <<>>)
    BY <2>2, ReturnGood
  <2>3. CASE task' = [task EXCEPT ![t].pc = task[t].then, ![t].writes = <<>>] /\ task[t].then # "return"
    <3>1. TaskStep(t) /\ new = [tk EXCEPT !.pc = tk.then, !.writes = <<>>]
      BY <2>3 DEF TasksOK, TaskStep, TaskOK, NoTask, Thens
    <3>2. /\ new.pc = tk.then /\ new.call = tk.call /\ new.key = tk.key /\ new.loc = tk.loc
          /\ new.path = tk.path /\ new.writes = <<>> /\ new.then = tk.then
          /\ new.old = tk.old /\ new.buf = tk.buf
      BY <3>1 DEF TasksOK, TaskOK, NoTask
    <3>3. tk.then \in {"none", "setroot", "sibling", "ancestors", "newroot"}
      BY <1>3, <2>3 DEF Thens
    <3> HIDE DEF tk, new
    <3>4. CallGood(own, new)
      BY <1>1, <1>2, <3>2, <3>3 DEF CallGood
    <3>5. PlaceGood(own, leaves, DOMAIN cache, new)
      BY <1>1, <1>2, <3>2, <3>3 DEF PlaceGood
    <3> QED BY <1>2, <3>1, <3>2, <3>4, <3>5, MovedGood, WritesNone
  <2> QED BY <2>1, <2>2, <2>3 DEF DirtyMark
<1> HIDE DEF tk, new
<1> QED BY <1>1, <1>4, StayGood DEF new

LEMMA ReadRootGood ==
  ASSUME NEW own, NEW leaves, Good(own, leaves), Numbers, TasksOK, NEW t \in Tasks,
         ReadRoot(t), Frame
  PROVE  Good(own, leaves)'
<1> DEFINE tk == task[t]
           new == task'[t]
<1>1. tk.pc = "root" /\ cache' = cache /\ disk' = disk /\ next_dir_page' = next_dir_page
  BY DEF ReadRoot, dirVars
<1>2. /\ CallGood(own, tk) /\ PlaceGood(own, leaves, DOMAIN cache, tk) /\ tk.buf = NoPage
      /\ WritesOK(own, leaves, DOMAIN cache, next_dir_page, tk.writes)
      /\ WritesOK(own, leaves, DOMAIN cache, next_dir_page, tk.old)
  BY <1>1, GoodTask, NothingRead DEF Reading
<1>3. TaskStep(t)
  BY DirQuiet DEF Quiet
<1>4. CASE Return(t, "PageNotFound", <<>>)
  BY <1>1, <1>3, <1>4, ReturnGood, StayGood
<1>5. CASE ~Return(t, "PageNotFound", <<>>)
  <2>1. \/ task' = [task EXCEPT ![t].pc = "descend", ![t].cur = root_page, ![t].root = root_page]
        \/ task' = [task EXCEPT ![t].pc = "first"] /\ tk.call.op = "new"
    BY <1>5 DEF ReadRoot
  <2>2. /\ new.pc = "descend" \/ (new.pc = "first" /\ tk.call.op = "new")
        /\ new.call = tk.call /\ new.key = tk.key /\ new.loc = tk.loc
        /\ new.path = tk.path /\ new.writes = tk.writes /\ new.old = tk.old /\ new.buf = tk.buf
    BY <2>1 DEF TasksOK, TaskOK, NoTask
  <2> HIDE DEF tk, new
  <2>3. CallGood(own, new)
    BY <1>1, <1>2, <2>2 DEF CallGood
  <2>4. PlaceGood(own, leaves, DOMAIN cache, new)
    BY <1>1, <1>2, <2>2 DEF PlaceGood
  <2>5. TaskGood(own, leaves, DOMAIN cache, DOMAIN disk, next_dir_page, new)
    BY <1>2, <2>2, <2>3, <2>4, MovedGood
  <2> QED BY <1>1, <1>3, <2>5, StayGood DEF new
<1> QED BY <1>4, <1>5

(* The growth of the cache, for the call that brings it about. *)
LEMMA FillGrows ==
  ASSUME NEW own, NEW leaves, Good(own, leaves), Numbers, NEW t \in Tasks, task[t].pc \in Reading,
         NEW p, p = Target(task[t]), Has(t, p), Fill(t, p)
  PROVE  /\ task[t].path \in Seq(DOMAIN cache' \ leaves)
         /\ WritesOK(own, leaves, DOMAIN cache', next_dir_page, task[t].writes)
         /\ WritesOK(own, leaves, DOMAIN cache', next_dir_page, task[t].old)
<1>1. Grow(own, leaves, DOMAIN cache, DOMAIN disk, next_dir_page,
           own, leaves, DOMAIN cache', DOMAIN disk, next_dir_page)
  BY FillGood DEF Grow, Numbers
<1>2. TaskGood(own, leaves, DOMAIN cache', DOMAIN disk, next_dir_page, task[t])
  BY <1>1, TaskGrows DEF Good, TasksGood
<1> QED BY <1>2 DEF TaskGood, PlaceGood

LEMMA DescendGood ==
  ASSUME NEW own, NEW leaves, Good(own, leaves), Numbers, TasksOK, NEW t \in Tasks,
         Descend(t), Frame
  PROVE  Good(own, leaves)'
<1> DEFINE tk == task[t]
           new == task'[t]
           page == Page(t, tk.cur)
<1>1. /\ tk.pc = "descend" /\ Has(t, tk.cur) /\ Fill(t, tk.cur)
      /\ disk' = disk /\ next_dir_page' = next_dir_page
  BY DEF Descend
<1>2. tk.pc \in Reading /\ tk.cur = Target(tk)
  BY <1>1 DEF Reading, Target
<1>3. /\ tk.path \in Seq(DOMAIN cache' \ leaves)
      /\ WritesOK(own, leaves, DOMAIN cache', next_dir_page, tk.writes)
      /\ WritesOK(own, leaves, DOMAIN cache', next_dir_page, tk.old)
      /\ CallGood(own, tk)
      /\ tk.cur \in DOMAIN cache' /\ PageOK(own, leaves, tk.cur, page)
  BY <1>1, <1>2, FillGrows, FillGood, GoodTask
<1>4. TaskStep(t)
  BY DirQuiet DEF Quiet
<1>5. TaskGood(own, leaves, DOMAIN cache', DOMAIN disk, next_dir_page, new)
  <2>1. CASE page.kind = "inner"
    <3> DEFINE child == find_child(page, tk.key)
    <3>1. task' = [task EXCEPT ![t].cur = child, ![t].path = Append(@, task[t].cur), ![t].buf = NoPage]
      BY <2>1 DEF Descend
    <3>2. tk.cur \in DOMAIN cache' \ leaves
      BY <1>3, <2>1 DEF PageOK
    <3> HIDE DEF child
    <3>3. /\ new.pc = "descend" /\ new.call = tk.call /\ new.key = tk.key /\ new.loc = tk.loc
          /\ new.path = Append(tk.path, tk.cur) /\ new.writes = tk.writes /\ new.old = tk.old
          /\ new.buf = NoPage
      BY <1>1, <3>1 DEF TasksOK, TaskOK, NoTask
    <3> HIDE DEF tk, new
    <3>4. new.path \in Seq(DOMAIN cache' \ leaves)
      BY <1>3, <3>2, <3>3, AppendProperties
    <3>5. CallGood(own, new) /\ PlaceGood(own, leaves, DOMAIN cache', new)
      BY <1>1, <1>3, <3>3, <3>4 DEF CallGood, PlaceGood
    <3> QED BY <1>3, <3>3, <3>5, MovedGood
  <2>2. CASE page.kind = "leaf"
    <3>1. task' = [task EXCEPT ![t].pc = "leaf", ![t].buf = NoPage]
      BY <2>2 DEF Descend
    <3>2. tk.cur \in leaves
      BY <1>3, <2>2 DEF PageOK
    <3>3. /\ new.pc = "leaf" /\ new.call = tk.call /\ new.key = tk.key /\ new.loc = tk.loc
          /\ new.path = tk.path /\ new.cur = tk.cur /\ new.writes = tk.writes /\ new.old = tk.old
          /\ new.buf = NoPage
      BY <1>1, <3>1 DEF TasksOK, TaskOK, NoTask
    <3> HIDE DEF tk, new
    <3>4. CallGood(own, new) /\ PlaceGood(own, leaves, DOMAIN cache', new)
      BY <1>1, <1>3, <3>2, <3>3 DEF CallGood, PlaceGood
    <3> QED BY <1>3, <3>3, <3>4, MovedGood
  <2>3. CASE Return(t, "PageCorruption", <<>>)
    BY <2>3, ReturnGood
  <2> QED BY <2>1, <2>2, <2>3 DEF Descend
<1> HIDE DEF new
<1> QED BY <1>1, <1>2, <1>4, <1>5, FillStays DEF new

LEMMA LookupLeafGood ==
  ASSUME NEW own, NEW leaves, Good(own, leaves), Numbers, TasksOK, NEW t \in Tasks,
         LookupLeaf(t), Frame
  PROVE  Good(own, leaves)'
<1> DEFINE tk == task[t]
           new == task'[t]
           page == Page(t, tk.cur)
<1>1. /\ tk.pc = "leaf" /\ tk.call.op \in {"read", "write"}
      /\ cache' = cache /\ disk' = disk /\ next_dir_page' = next_dir_page
  BY DEF LookupLeaf, dirVars
<1>2. TaskStep(t)
  BY DirQuiet DEF Quiet
<1>3. CASE Return(t, "PageNotFound", <<>>)
  BY <1>1, <1>2, <1>3, ReturnGood, StayGood
<1>4. CASE ~Return(t, "PageNotFound", <<>>)
  <2>1. PICK loc \in lookup(page, tk.key) : task' = [task EXCEPT ![t].pc = "found", ![t].loc = loc]
    BY <1>4 DEF LookupLeaf
  <2>2. page.entries \in Seq(LeafEntries(own)) /\ OwnShape(own) /\ tk.buf = NoPage
    BY <1>1, AtLeaf
  <2>3. loc \in DOMAIN own /\ own[loc] = tk.key
    <3> HIDE DEF page, tk
    <3> QED BY <2>1, <2>2, LookupLeads
  <2>4. /\ CallGood(own, tk) /\ PlaceGood(own, leaves, DOMAIN cache, tk)
        /\ WritesOK(own, leaves, DOMAIN cache, next_dir_page, tk.writes)
        /\ WritesOK(own, leaves, DOMAIN cache, next_dir_page, tk.old)
    BY GoodTask
  <2>5. /\ new.pc = "found" /\ new.call = tk.call /\ new.key = tk.key /\ new.loc = loc
        /\ new.path = tk.path /\ new.writes = tk.writes /\ new.old = tk.old /\ new.buf = tk.buf
    BY <2>1 DEF TasksOK, TaskOK, NoTask
  <2> HIDE DEF tk, new
  <2>6. CallGood(own, new) /\ PlaceGood(own, leaves, DOMAIN cache, new)
    BY <2>3, <2>4, <2>5 DEF CallGood, PlaceGood
  <2>7. TaskGood(own, leaves, DOMAIN cache, DOMAIN disk, next_dir_page, new)
    BY <2>2, <2>4, <2>5, <2>6, MovedGood
  <2> QED BY <1>1, <1>2, <2>7, StayGood DEF new
<1> QED BY <1>3, <1>4

(* The write of a page that is in the cache. *)
LEMMA WriteBack ==
  ASSUME NEW own, NEW leaves, NEW C, NEW n, NEW p, p \in C \/ p \in 0..(n - 1),
         NEW page, PageOK(own, leaves, p, page), NEW base
  PROVE  WriteOK(own, leaves, C, n, W(p, page, base))
BY DEF WriteOK, W

LEMMA ChangeLeafGood ==
  ASSUME NEW own, NEW leaves, Good(own, leaves), Numbers, TasksOK, NEW t \in Tasks,
         ChangeLeaf(t), Frame
  PROVE  Good(own, leaves)'
<1> DEFINE tk == task[t]
           new == task'[t]
           page == Page(t, tk.cur)
           done == IF tk.call.op = "update" THEN update_entry(page, tk.key, tk.loc)
                   ELSE delete_by_key(page, tk.key)
           ws == <<W(tk.cur, done.page, page)>>
<1>1. /\ tk.pc = "leaf" /\ tk.call.op \in {"update", "delete"}
      /\ cache' = cache /\ disk' = disk /\ next_dir_page' = next_dir_page
  BY DEF ChangeLeaf, dirVars
<1>2. TaskStep(t) /\ TaskOK(tk)
  BY DirQuiet DEF Quiet, TasksOK
<1>3. CASE Return(t, "PageNotFound", <<>>)
  BY <1>1, <1>2, <1>3, ReturnGood, StayGood
<1>4. CASE ~Return(t, "PageNotFound", <<>>)
  <2>1. task' = [task EXCEPT ![t] = Writing(@, ws, "return")]
    BY <1>4 DEF ChangeLeaf
  <2>2. PageOK(own, leaves, tk.cur, page) /\ tk.cur \in leaves /\ tk.cur \in DOMAIN cache
    BY <1>1, AtLeaf
  <2>3. HasPlace(own, tk) /\ tk.path \in Seq(DOMAIN cache \ leaves)
    BY <1>1, GoodTask DEF CallGood, PlaceGood, HasPlace
  <2>4. new = Writing(tk, ws, "return")
    BY <2>1 DEF TasksOK
  <2> HIDE DEF page
  <2>5. PageOK(own, leaves, tk.cur, done.page)
    BY <1>1, <2>2, <2>3, UpdateOK, DeleteOK DEF HasPlace
  <2> HIDE DEF done, tk, new
  <2>6. WritesOK(own, leaves, DOMAIN cache, next_dir_page, ws) /\ ws # <<>>
    BY <2>2, <2>5, WriteBack, WritesOne
  <2> HIDE DEF ws
  <2>7. TaskGood(own, leaves, DOMAIN cache, DOMAIN disk, next_dir_page, new)
    BY <1>2, <2>3, <2>4, <2>6, WritingGood
  <2> QED BY <1>1, <1>2, <2>7, StayGood DEF new
<1> QED BY <1>3, <1>4

(* What the call of t has in its hands stays good when a page is given out. *)
LEMMA AllocGrows ==
  ASSUME NEW own, NEW leaves, Good(own, leaves), Numbers, NEW t \in Tasks, alloc_dir_page, ~reused',
         NEW leaves2, leaves2 = leaves \/ leaves2 = leaves \cup {next_dir_page}
  PROVE  /\ TaskGood(own, leaves2, DOMAIN cache, DOMAIN disk, next_dir_page + 1, task[t])
         /\ next_dir_page \notin leaves
         /\ next_dir_page \in 0..((next_dir_page + 1) - 1)
<1>1. next_dir_page \notin DOMAIN cache /\ next_dir_page \notin DOMAIN disk
  BY DEF alloc_dir_page
<1>2. Grow(own, leaves, DOMAIN cache, DOMAIN disk, next_dir_page,
           own, leaves2, DOMAIN cache, DOMAIN disk, next_dir_page + 1)
  BY <1>1 DEF Grow, Numbers
<1>3. TaskGood(own, leaves, DOMAIN cache, DOMAIN disk, next_dir_page, task[t])
  BY DEF Good, TasksGood
<1>4. TaskGood(own, leaves2, DOMAIN cache, DOMAIN disk, next_dir_page + 1, task[t])
  BY <1>2, <1>3, TaskGrows
<1>5. next_dir_page \notin 1..(next_dir_page - 1) /\ next_dir_page \in 0..((next_dir_page + 1) - 1)
  BY DEF Numbers
<1> QED BY <1>4, <1>5 DEF Good, PagesGood

LEMMA LeafPageOK ==
  ASSUME NEW own, NEW leaves, NEW p \in leaves, NEW es \in Seq(LeafEntries(own)), NEW prev, NEW next
  PROVE  PageOK(own, leaves, p, LeafPage(es, prev, next))
BY DEF PageOK, LeafPage

LEMMA InnerPageOK ==
  ASSUME NEW own, NEW leaves, NEW p, p \notin leaves, NEW es, NEW leftmost
  PROVE  PageOK(own, leaves, p, InnerPage(es, leftmost))
BY DEF PageOK, InnerPage

LEMMA SeparatorOK ==
  ASSUME NEW own, NEW leaves, NEW p, p \notin leaves, NEW page, PageOK(own, leaves, p, page),
         NEW sep, NEW child
  PROVE  PageOK(own, leaves, p, insert_separator(page, sep, child).page)
<1> DEFINE es == PutEntry(page.entries, InnerMax, InnerEntry(sep, child)).entries
<1>1. insert_separator(page, sep, child).page = [page EXCEPT !.entries = es]
  BY DEF insert_separator
<1>2. p \in leaves => es \in Seq(LeafEntries(own))
  OBVIOUS
<1> HIDE DEF es
<1>3. PageOK(own, leaves, p, [page EXCEPT !.entries = es])
  BY <1>2, EntriesOK
<1> QED BY <1>1, <1>3, Zenon

(* The task that goes on to set the root to the page it has been given. *)
LEMMA RootFields ==
  ASSUME NEW tk, TaskOK(tk), NEW ws, NEW next, NEW n
  PROVE  LET w == [Writing(tk, ws, next) EXCEPT !.cur = n]
         IN  /\ w.pc = "put" /\ w.writes = ws /\ w.then = next /\ w.buf = NoPage /\ w.old = <<>>
             /\ w.call = tk.call /\ w.key = tk.key /\ w.loc = tk.loc /\ w.path = tk.path
             /\ w.out = tk.out
BY DEF TaskOK, Writing, NoTask

LEMMA RootWriteGood ==
  ASSUME NEW own, NEW leaves, Good(own, leaves), Numbers, TasksOK, NEW t \in Tasks, TaskStep(t),
         Frame, alloc_dir_page, ~reused', cache' = cache, disk' = disk,
         NEW leaves2, leaves2 = leaves \/ leaves2 = leaves \cup {next_dir_page},
         HasPlace(own, task[t]), NEW page, PageOK(own, leaves2, next_dir_page, page),
         task' = [task EXCEPT ![t] =
           [Writing(@, <<W(next_dir_page, page, NoPage)>>, "setroot") EXCEPT !.cur = next_dir_page]]
  PROVE  Good(own, leaves2)'
<1> DEFINE tk == task[t]
           new == task'[t]
           n == next_dir_page
           ws == <<W(n, page, NoPage)>>
<1>1. new = [Writing(tk, ws, "setroot") EXCEPT !.cur = n]
  BY DEF TasksOK
<1>2. TaskOK(tk) /\ HasPlace(own, tk)
  BY DEF TasksOK
<1>3. tk.path \in Seq(DOMAIN cache \ leaves2) /\ n \in 0..((n + 1) - 1)
  BY AllocGrows DEF TaskGood, PlaceGood
<1> HIDE DEF tk, new, n
<1>4. WritesOK(own, leaves2, DOMAIN cache, n + 1, ws) /\ ws # <<>>
  BY <1>3, WriteBack, WritesOne DEF n
<1> HIDE DEF ws
<1>5. /\ new.pc = "put" /\ new.writes = ws /\ new.then = "setroot" /\ new.buf = NoPage
      /\ new.old = <<>> /\ new.call = tk.call /\ new.key = tk.key /\ new.loc = tk.loc
      /\ new.path = tk.path
  BY <1>1, <1>2, RootFields
<1>6. HasPlace(own, new)
  BY <1>2, <1>5 DEF HasPlace
<1>7. TaskGood(own, leaves2, DOMAIN cache, DOMAIN disk, n + 1, new)
  BY <1>3, <1>4, <1>5, <1>6, WritesNone, PutGood
<1> QED BY <1>7, AllocGood DEF Frame, n, new

LEMMA AddFirstGood ==
  ASSUME NEW own, NEW leaves, Good(own, leaves), Numbers, TasksOK, NEW t \in Tasks,
         AddFirst(t), Frame, ~reused'
  PROVE  \E leaves2 : Good(own, leaves2)'
<1> PICK leaves2 : leaves2 = leaves \cup {next_dir_page}
  OBVIOUS
<1> DEFINE page == insert_entry(init_leaf, task[t].key, task[t].loc).page
<1>1. /\ task[t].pc = "first" /\ alloc_dir_page /\ cache' = cache /\ disk' = disk
      /\ task' = [task EXCEPT ![t] =
           [Writing(@, <<W(next_dir_page, page, NoPage)>>, "setroot") EXCEPT !.cur = next_dir_page]]
  BY DEF AddFirst
<1>2. TaskStep(t)
  BY DirQuiet DEF Quiet
<1>3. HasPlace(own, task[t]) /\ task[t].loc \in DOMAIN own /\ own[task[t].loc] = task[t].key
  BY <1>1, GoodTask DEF CallGood, HasPlace
<1>4. PageOK(own, leaves2, next_dir_page, page)
  <2>1. <<>> \in Seq(LeafEntries(own)) /\ next_dir_page \in leaves2
    OBVIOUS
  <2>2. PageOK(own, leaves2, next_dir_page, init_leaf)
    BY <2>1, LeafPageOK DEF init_leaf
  <2> QED BY <1>3, <2>1, <2>2, InsertOK
<1> HIDE DEF page
<1>5. Good(own, leaves2)'
  BY <1>1, <1>2, <1>3, <1>4, RootWriteGood
<1> QED BY <1>5

LEMMA NewRootGood ==
  ASSUME NEW own, NEW leaves, Good(own, leaves), Numbers, TasksOK, NEW t \in Tasks,
         NewRoot(t), Frame, ~reused'
  PROVE  Good(own, leaves)'
<1> DEFINE leftmost == IF task[t].left # 0 THEN task[t].left ELSE root_page
           page == insert_separator(init_inner(leftmost), task[t].sep, task[t].child).page
<1>1. /\ task[t].pc = "newroot" /\ alloc_dir_page /\ cache' = cache /\ disk' = disk
      /\ task' = [task EXCEPT ![t] =
           [Writing(@, <<W(next_dir_page, page, NoPage)>>, "setroot") EXCEPT !.cur = next_dir_page]]
  BY DEF NewRoot
<1>2. TaskStep(t)
  BY DirQuiet DEF Quiet
<1>3. HasPlace(own, task[t])
  BY <1>1, GoodTask DEF CallGood, HasPlace
<1>4. PageOK(own, leaves, next_dir_page, page)
  <2> HIDE DEF leftmost
  <2>1. next_dir_page \notin leaves
    BY <1>1, AllocGrows
  <2>2. PageOK(own, leaves, next_dir_page, init_inner(leftmost))
    BY <2>1, InnerPageOK DEF init_inner
  <2> QED BY <2>1, <2>2, SeparatorOK
<1> HIDE DEF page
<1> QED BY <1>1, <1>2, <1>3, <1>4, RootWriteGood

LEMMA AddLeafGood ==
  ASSUME NEW own, NEW leaves, Good(own, leaves), Numbers, TasksOK, NEW t \in Tasks,
         AddLeaf(t), Frame
  PROVE  Good(own, leaves)'
<1> DEFINE tk == task[t]
           new == task'[t]
           page == Page(t, tk.cur)
           done == insert_entry(page, tk.key, tk.loc)
           ws == <<W(tk.cur, done.page, page)>>
<1>1. /\ tk.pc = "leaf" /\ tk.call.op = "new"
      /\ cache' = cache /\ disk' = disk /\ next_dir_page' = next_dir_page
  BY DEF AddLeaf, dirVars
<1>2. TaskStep(t) /\ TaskOK(tk)
  BY DirQuiet DEF Quiet, TasksOK
<1>3. /\ PageOK(own, leaves, tk.cur, page) /\ tk.cur \in leaves /\ tk.cur \in DOMAIN cache
      /\ page.entries \in Seq(LeafEntries(own)) /\ tk.buf = NoPage
  BY <1>1, AtLeaf
<1>4. /\ tk.loc \in DOMAIN own /\ own[tk.loc] = tk.key
      /\ HasPlace(own, tk) /\ tk.path \in Seq(DOMAIN cache \ leaves)
  BY <1>1, GoodTask DEF CallGood, PlaceGood, HasPlace
<1>5. TaskGood(own, leaves, DOMAIN cache, DOMAIN disk, next_dir_page, new)
  <2>1. ASSUME NEW res, Return(t, res, <<>>)
        PROVE  TaskGood(own, leaves, DOMAIN cache, DOMAIN disk, next_dir_page, new)
    BY <2>1, ReturnGood
  <2>2. CASE task' = [task EXCEPT ![t].pc = "split", ![t].copy = page]
    <3> HIDE DEF page
    <3>1. /\ new.pc = "split" /\ new.call = tk.call /\ new.key = tk.key /\ new.loc = tk.loc
          /\ new.path = tk.path /\ new.cur = tk.cur /\ new.copy = page /\ new.writes = tk.writes
          /\ new.old = tk.old /\ new.buf = tk.buf
      BY <2>2 DEF TasksOK, TaskOK, NoTask
    <3>2. /\ WritesOK(own, leaves, DOMAIN cache, next_dir_page, tk.writes)
          /\ WritesOK(own, leaves, DOMAIN cache, next_dir_page, tk.old)
      BY GoodTask
    <3> HIDE DEF tk, new
    <3>3. CallGood(own, new) /\ PlaceGood(own, leaves, DOMAIN cache, new)
      BY <1>1, <1>3, <1>4, <3>1 DEF CallGood, PlaceGood
    <3> QED BY <1>3, <3>1, <3>2, <3>3, MovedGood
  <2>3. CASE task' = [task EXCEPT ![t] = Writing(@, ws, "return")]
    <3>1. new = Writing(tk, ws, "return")
      BY <2>3 DEF TasksOK
    <3> HIDE DEF page
    <3>2. PageOK(own, leaves, tk.cur, done.page)
      BY <1>3, <1>4, InsertOK
    <3> HIDE DEF done, tk, new
    <3>3. WritesOK(own, leaves, DOMAIN cache, next_dir_page, ws) /\ ws # <<>>
      BY <1>3, <3>2, WriteBack, WritesOne
    <3> HIDE DEF ws
    <3> QED BY <1>2, <1>4, <3>1, <3>3, WritingGood
  <2> QED BY <2>1, <2>2, <2>3 DEF AddLeaf
<1> HIDE DEF new
<1> QED BY <1>1, <1>2, <1>5, StayGood DEF new

(* The two halves of a leaf that is split for an entry of its own. *)
LEMMA SplitPagesOK ==
  ASSUME NEW own, NEW leaves, NEW id \in leaves, NEW new \in leaves, NEW leaf,
         leaf.entries \in Seq(LeafEntries(own)), NEW e \in LeafEntries(own)
  PROVE  LET split == SplitLeafPages(leaf, id, new, e)
         IN  PageOK(own, leaves, id, split.lower) /\ PageOK(own, leaves, new, split.upper)
<1> DEFINE half == Halves(leaf.entries, e)
<1>1. half[1] \in Seq(LeafEntries(own)) /\ half[2] \in Seq(LeafEntries(own))
  BY HalvesOK
<1>2. SplitLeafPages(leaf, id, new, e) =
        [lower |-> LeafPage(half[1], leaf.prev, new), upper |-> LeafPage(half[2], id, leaf.next)]
  BY DEF SplitLeafPages
<1> HIDE DEF half
<1>3. /\ SplitLeafPages(leaf, id, new, e).lower = LeafPage(half[1], leaf.prev, new)
      /\ SplitLeafPages(leaf, id, new, e).upper = LeafPage(half[2], id, leaf.next)
  BY <1>2
<1> QED BY <1>1, <1>3, LeafPageOK

LEMMA SplitLeafGood ==
  ASSUME NEW own, NEW leaves, Good(own, leaves), Numbers, TasksOK, NEW t \in Tasks,
         SplitLeaf(t), Frame, ~reused'
  PROVE  \E leaves2 : Good(own, leaves2)'
<1> PICK leaves2 : leaves2 = leaves \cup {next_dir_page}
  OBVIOUS
<1> DEFINE n == next_dir_page
           cur == task[t].cur
           leaf == task[t].copy
           split == SplitLeafPages(leaf, cur, n, from_ppage_id(task[t].key, task[t].loc))
           up == W(n, split.upper, NoPage)
           low == W(cur, split.lower, leaf)
           sep == split.upper.entries[1].key
           left == IF task[t].path = <<>> THEN cur ELSE 0
           tk == [task[t] EXCEPT !.child = n, !.sep = sep, !.left = left]
           tk1 == Writing(tk, <<up, low>>, AfterLeaf(t))
           tk2 == [Writing(tk, <<up>>, "sibling") EXCEPT !.cur = leaf.next, !.old = <<low>>]
           new == task'[t]
<1>1. /\ task[t].pc = "split" /\ alloc_dir_page /\ cache' = cache /\ disk' = disk
      /\ task' = [task EXCEPT ![t] = IF leaf.next = 0 THEN tk1 ELSE tk2]
  BY DEF SplitLeaf
<1>2. TaskStep(t) /\ TaskOK(task[t]) /\ new = IF leaf.next = 0 THEN tk1 ELSE tk2
  BY <1>1, DirQuiet DEF Quiet, TasksOK
<1>3. /\ task[t].loc \in DOMAIN own /\ own[task[t].loc] = task[t].key /\ HasPlace(own, task[t])
      /\ cur \in leaves2 /\ cur \in DOMAIN cache /\ leaf.entries \in Seq(LeafEntries(own))
  BY <1>1, GoodTask DEF CallGood, PlaceGood, HasPlace
<1>4. task[t].path \in Seq(DOMAIN cache \ leaves2) /\ n \in 0..((n + 1) - 1) /\ n \in leaves2
  BY <1>1, AllocGrows DEF TaskGood, PlaceGood
<1>5. PageOK(own, leaves2, cur, split.lower) /\ PageOK(own, leaves2, n, split.upper)
  BY <1>3, <1>4, OwnEntry, SplitPagesOK
<1> HIDE DEF n, cur, leaf, split
<1>6. /\ WriteOK(own, leaves2, DOMAIN cache, n + 1, up)
      /\ WriteOK(own, leaves2, DOMAIN cache, n + 1, low)
  BY <1>3, <1>4, <1>5, WriteBack
<1> HIDE DEF up, low, sep, left
<1>7. /\ TaskOK(tk) /\ tk.call = task[t].call /\ tk.key = task[t].key /\ tk.loc = task[t].loc
      /\ tk.path = task[t].path
  BY <1>2 DEF TaskOK, NoTask
<1> HIDE DEF tk
<1>8. HasPlace(own, tk) /\ tk.path \in Seq(DOMAIN cache \ leaves2)
  BY <1>3, <1>4, <1>7 DEF HasPlace
<1>9. TaskGood(own, leaves2, DOMAIN cache, DOMAIN disk, n + 1, tk1)
  <2> DEFINE ws == <<up, low>>
             next == AfterLeaf(t)
  <2>1. WritesOK(own, leaves2, DOMAIN cache, n + 1, ws) /\ ws # <<>>
    BY <1>6, WritesTwo
  <2>2. next = "ancestors" => tk.path # <<>>
    BY <1>7 DEF AfterLeaf
  <2> HIDE DEF ws, next
  <2>3. TaskGood(own, leaves2, DOMAIN cache, DOMAIN disk, n + 1, Writing(tk, ws, next))
    BY <1>7, <1>8, <2>1, <2>2, WritingGood
  <2> QED BY <2>3 DEF ws, next
<1>10. TaskGood(own, leaves2, DOMAIN cache, DOMAIN disk, n + 1, tk2)
  <2> DEFINE ws == <<up>>
             os == <<low>>
             to == leaf.next
  <2>1. /\ WritesOK(own, leaves2, DOMAIN cache, n + 1, ws) /\ ws # <<>>
        /\ WritesOK(own, leaves2, DOMAIN cache, n + 1, os)
    BY <1>6, WritesOne
  <2> HIDE DEF ws, os, to
  <2>2. /\ tk2.pc = "put" /\ tk2.writes = ws /\ tk2.then = "sibling" /\ tk2.buf = NoPage
        /\ tk2.old = os /\ tk2.call = tk.call /\ tk2.key = tk.key /\ tk2.loc = tk.loc
        /\ tk2.path = tk.path
    BY <1>7 DEF TaskOK, Writing, NoTask, ws, os, to
  <2> HIDE DEF tk2
  <2>3. HasPlace(own, tk2)
    BY <1>8, <2>2 DEF HasPlace
  <2> QED BY <1>8, <2>1, <2>2, <2>3, PutGood
<1> HIDE DEF tk1, tk2, new
<1>11. TaskGood(own, leaves2, DOMAIN cache, DOMAIN disk, n + 1, new)
  BY <1>2, <1>9, <1>10
<1>12. Good(own, leaves2)'
  BY <1>1, <1>2, <1>11, AllocGood DEF Frame, n, new
<1> QED BY <1>12

LEMMA SplitSiblingGood ==
  ASSUME NEW own, NEW leaves, Good(own, leaves), Numbers, TasksOK, NEW t \in Tasks,
         SplitSibling(t), Frame
  PROVE  Good(own, leaves)'
<1> DEFINE tk == task[t]
           new == task'[t]
           page == Page(t, tk.cur)
           first == W(tk.cur, set_prev_page(page, tk.child), page)
           ws == <<first>> \o tk.old
           next == AfterLeaf(t)
<1>1. /\ tk.pc = "sibling" /\ Has(t, tk.cur) /\ Fill(t, tk.cur)
      /\ disk' = disk /\ next_dir_page' = next_dir_page
      /\ task' = [task EXCEPT ![t] = Writing(@, ws, next)]
  BY DEF SplitSibling
<1>2. tk.pc \in Reading /\ tk.cur = Target(tk)
  BY <1>1 DEF Reading, Target
<1>3. /\ tk.path \in Seq(DOMAIN cache' \ leaves)
      /\ WritesOK(own, leaves, DOMAIN cache', next_dir_page, tk.old)
      /\ tk.cur \in DOMAIN cache' /\ PageOK(own, leaves, tk.cur, page)
  BY <1>1, <1>2, FillGrows, FillGood
<1>4. HasPlace(own, tk)
  BY <1>1, GoodTask DEF CallGood, HasPlace
<1>5. TaskStep(t) /\ TaskOK(tk) /\ new = Writing(tk, ws, next)
  BY <1>1, DirQuiet DEF Quiet, TasksOK
<1>6. next = "ancestors" => tk.path # <<>>
  BY DEF AfterLeaf
<1>7. WriteOK(own, leaves, DOMAIN cache', next_dir_page, first)
  <2> HIDE DEF page
  <2> QED BY <1>3, PrevOK, WriteBack
<1> HIDE DEF tk, new, first, next
<1>8. WritesOK(own, leaves, DOMAIN cache', next_dir_page, ws) /\ ws # <<>>
  BY <1>3, <1>7, WritesFirst
<1> HIDE DEF ws
<1>9. TaskGood(own, leaves, DOMAIN cache', DOMAIN disk, next_dir_page, new)
  BY <1>3, <1>4, <1>5, <1>6, <1>8, WritingGood
<1> QED BY <1>1, <1>2, <1>5, <1>9, FillStays DEF new, tk

(* The last page of the path of a call, and the path before it. *)
LEMMA PathEnds ==
  ASSUME NEW S, NEW s \in Seq(S), s # <<>>
  PROVE  Last(s) \in S /\ Front(s) \in Seq(S)
<1>1. Len(s) \in Nat \ {0}
  BY LenProperties, EmptySeq
<1>2. Last(s) = s[Len(s)] /\ Len(s) \in 1..Len(s)
  BY <1>1 DEF Last
<1>3. \A i \in 1..(Len(s) - 1) : s[i] \in S
  BY <1>1, ElementOfSeq
<1>4. Len(s) - 1 \in Nat /\ Front(s) = [i \in 1..(Len(s) - 1) |-> s[i]]
  BY <1>1 DEF Front
<1> QED BY <1>2, <1>3, <1>4, ElementOfSeq

LEMMA AncestorsGood ==
  ASSUME NEW own, NEW leaves, Good(own, leaves), Numbers, TasksOK, NEW t \in Tasks,
         Ancestors(t), Frame
  PROVE  Good(own, leaves)'
<1> DEFINE tk == task[t]
           new == task'[t]
           p == Last(tk.path)
           page == Page(t, p)
           done == insert_separator(page, tk.sep, tk.child)
           ws == <<W(p, done.page, page)>>
<1>1. /\ tk.pc = "ancestors" /\ Has(t, p) /\ Fill(t, p)
      /\ disk' = disk /\ next_dir_page' = next_dir_page
  BY DEF Ancestors
<1>2. tk.pc \in Reading /\ p = Target(tk)
  BY <1>1 DEF Reading, Target
<1>3. /\ tk.path \in Seq(DOMAIN cache' \ leaves)
      /\ WritesOK(own, leaves, DOMAIN cache', next_dir_page, tk.writes)
      /\ WritesOK(own, leaves, DOMAIN cache', next_dir_page, tk.old)
      /\ p \in DOMAIN cache' /\ PageOK(own, leaves, p, page)
  BY <1>1, <1>2, FillGrows, FillGood
<1>4. CallGood(own, tk) /\ HasPlace(own, tk) /\ tk.path # <<>>
  BY <1>1, GoodTask DEF CallGood, PlaceGood, HasPlace
<1>5. TaskStep(t) /\ TaskOK(tk)
  BY <1>1, DirQuiet DEF Quiet, TasksOK
<1>6. p \notin leaves
  BY <1>3, <1>4, PathEnds
<1>7. TaskGood(own, leaves, DOMAIN cache', DOMAIN disk, next_dir_page, new)
  <2>1. CASE find_separator_slot(page, tk.sep).found
    <3>1. Return(t, "PageCorruption", <<>>)
      BY <2>1 DEF Ancestors, ReturnError
    <3> QED BY <3>1, ReturnGood
  <2>2. CASE ~find_separator_slot(page, tk.sep).found /\ inner_is_full(page)
    <3>1. task' = [task EXCEPT ![t] = [@ EXCEPT !.pc = "splitinner", !.copy = page, !.buf = NoPage]]
      BY <2>2 DEF Ancestors
    <3> HIDE DEF page
    <3>2. /\ new.pc = "splitinner" /\ new.call = tk.call /\ new.key = tk.key /\ new.loc = tk.loc
          /\ new.path = tk.path /\ new.writes = tk.writes /\ new.old = tk.old /\ new.buf = NoPage
      BY <3>1 DEF TasksOK, TaskOK, NoTask
    <3> HIDE DEF tk, new
    <3>3. CallGood(own, new) /\ PlaceGood(own, leaves, DOMAIN cache', new)
      BY <1>1, <1>3, <1>4, <3>2 DEF CallGood, PlaceGood
    <3> QED BY <1>3, <3>2, <3>3, MovedGood
  <2>3. CASE ~find_separator_slot(page, tk.sep).found /\ ~inner_is_full(page)
    <3>1. task' = [task EXCEPT ![t] = Writing(@, ws, "return")]
      BY <2>3 DEF Ancestors
    <3>2. new = Writing(tk, ws, "return")
      BY <3>1 DEF TasksOK
    <3> HIDE DEF page, p
    <3>3. PageOK(own, leaves, p, done.page)
      BY <1>3, <1>6, SeparatorOK
    <3> HIDE DEF done, tk, new
    <3>4. WritesOK(own, leaves, DOMAIN cache', next_dir_page, ws) /\ ws # <<>>
      BY <1>3, <3>3, WriteBack, WritesOne
    <3> HIDE DEF ws
    <3> QED BY <1>3, <1>4, <1>5, <3>2, <3>4, WritingGood
  <2> QED BY <2>1, <2>2, <2>3
<1> HIDE DEF new
<1> QED BY <1>1, <1>2, <1>5, <1>7, FillStays DEF new

LEMMA SplitInnerGood ==
  ASSUME NEW own, NEW leaves, Good(own, leaves), Numbers, TasksOK, NEW t \in Tasks,
         SplitInner(t), Frame, ~reused'
  PROVE  Good(own, leaves)'
<1> DEFINE n == next_dir_page
           p == Last(task[t].path)
           page == task[t].copy
           split == SplitInnerPages(page, task[t].sep, task[t].child)
           up == split.up
           path == Front(task[t].path)
           tk == [task[t] EXCEPT !.path = path, !.sep = up, !.child = n]
           high == W(n, split.upper, NoPage)
           low == W(p, split.lower, page)
           ws == <<high, low>>
           next == IF path = <<>> THEN "newroot" ELSE "ancestors"
           new == task'[t]
<1>1. /\ task[t].pc = "splitinner" /\ alloc_dir_page /\ cache' = cache /\ disk' = disk
      /\ task' = [task EXCEPT ![t] = Writing(tk, ws, next)]
  BY DEF SplitInner
<1>2. TaskStep(t) /\ TaskOK(task[t]) /\ new = Writing(tk, ws, next)
  BY <1>1, DirQuiet DEF Quiet, TasksOK
<1>3. HasPlace(own, task[t]) /\ task[t].path # <<>>
  BY <1>1, GoodTask DEF CallGood, PlaceGood, HasPlace
<1>4. /\ task[t].path \in Seq(DOMAIN cache \ leaves) /\ n \in 0..((n + 1) - 1) /\ n \notin leaves
  BY <1>1, AllocGrows DEF TaskGood, PlaceGood
<1>5. p \in DOMAIN cache /\ p \notin leaves /\ path \in Seq(DOMAIN cache \ leaves)
  BY <1>3, <1>4, PathEnds
<1>6. PageOK(own, leaves, p, split.lower) /\ PageOK(own, leaves, n, split.upper)
  <2> DEFINE half == Halves(page.entries, InnerEntry(task[t].sep, task[t].child))
             a == half[1]
             b == Tail(half[2])
             c == half[2][1].child
  <2>1. split.lower = InnerPage(a, page.leftmost) /\ split.upper = InnerPage(b, c)
    BY DEF SplitInnerPages
  <2> HIDE DEF a, b, c, half, p, n, page, split
  <2> QED BY <1>4, <1>5, <2>1, InnerPageOK
<1> HIDE DEF n, p, page, split
<1>7. WriteOK(own, leaves, DOMAIN cache, n + 1, high) /\ WriteOK(own, leaves, DOMAIN cache, n + 1, low)
  BY <1>4, <1>5, <1>6, WriteBack
<1> HIDE DEF high, low
<1>8. WritesOK(own, leaves, DOMAIN cache, n + 1, ws) /\ ws # <<>>
  BY <1>7, WritesTwo
<1> HIDE DEF up, path, ws
<1>9. /\ TaskOK(tk) /\ tk.call = task[t].call /\ tk.key = task[t].key /\ tk.loc = task[t].loc
      /\ tk.path = path
  BY <1>2 DEF TaskOK, NoTask
<1> HIDE DEF tk
<1>10. HasPlace(own, tk) /\ tk.path \in Seq(DOMAIN cache \ leaves) /\ (next = "ancestors" => tk.path # <<>>)
  BY <1>3, <1>5, <1>9 DEF HasPlace
<1> HIDE DEF next, new
<1>11. TaskGood(own, leaves, DOMAIN cache, DOMAIN disk, n + 1, new)
  BY <1>2, <1>8, <1>9, <1>10, WritingGood
<1> QED BY <1>1, <1>2, <1>11, AllocGood DEF Frame, n, new

LEMMA SetRootGood ==
  ASSUME NEW own, NEW leaves, Good(own, leaves), Numbers, TasksOK, NEW t \in Tasks,
         SetRoot(t), Frame
  PROVE  Good(own, leaves)'
<1> DEFINE tk == task[t]
           new == task'[t]
<1>1. /\ tk.pc = "setroot" /\ cache' = cache /\ disk' = disk /\ next_dir_page' = next_dir_page
      /\ task' = [task EXCEPT ![t].pc = "header"]
  BY DEF SetRoot
<1>2. /\ CallGood(own, tk) /\ PlaceGood(own, leaves, DOMAIN cache, tk) /\ tk.buf = NoPage
      /\ WritesOK(own, leaves, DOMAIN cache, next_dir_page, tk.writes)
      /\ WritesOK(own, leaves, DOMAIN cache, next_dir_page, tk.old)
  BY <1>1, GoodTask, NothingRead DEF Reading
<1>3. TaskStep(t)
  BY DirQuiet DEF Quiet
<1>4. /\ new.pc = "header" /\ new.call = tk.call /\ new.key = tk.key /\ new.loc = tk.loc
      /\ new.path = tk.path /\ new.writes = tk.writes /\ new.old = tk.old /\ new.buf = tk.buf
  BY <1>1 DEF TasksOK, TaskOK, NoTask
<1> HIDE DEF tk, new
<1>5. CallGood(own, new) /\ PlaceGood(own, leaves, DOMAIN cache, new)
  BY <1>1, <1>2, <1>4 DEF CallGood, PlaceGood
<1>6. TaskGood(own, leaves, DOMAIN cache, DOMAIN disk, next_dir_page, new)
  BY <1>2, <1>4, <1>5, MovedGood
<1> QED BY <1>1, <1>3, <1>6, StayGood DEF new

LEMMA SetHeaderGood ==
  ASSUME NEW own, NEW leaves, Good(own, leaves), Numbers, TasksOK, NEW t \in Tasks,
         SetHeader(t), Frame
  PROVE  Good(own, leaves)'
<1> DEFINE tk == task[t]
           new == task'[t]
           page == Page(t, 0)
           header == HeaderPage(tk.cur, next_dir_page)
           ws == <<W(0, header, page)>>
<1>1. /\ tk.pc = "header" /\ Has(t, 0) /\ Fill(t, 0)
      /\ disk' = disk /\ next_dir_page' = next_dir_page
      /\ task' = [task EXCEPT ![t] = Writing(@, ws, "return")]
  BY DEF SetHeader
<1>2. tk.pc \in Reading /\ 0 = Target(tk)
  BY <1>1 DEF Reading, Target
<1>3. tk.path \in Seq(DOMAIN cache' \ leaves) /\ 0 \in DOMAIN cache'
  BY <1>1, <1>2, FillGrows, FillGood
<1>4. HasPlace(own, tk)
  BY <1>1, GoodTask DEF CallGood, HasPlace
<1>5. TaskStep(t) /\ TaskOK(tk) /\ new = Writing(tk, ws, "return")
  BY <1>1, DirQuiet DEF Quiet, TasksOK
<1>6. PageOK(own, leaves, 0, header)
  <2>1. 0 \notin leaves
    BY DEF Good, PagesGood, Numbers
  <2> QED BY <2>1 DEF PageOK, HeaderPage
<1> HIDE DEF tk, new, page, header
<1>7. WritesOK(own, leaves, DOMAIN cache', next_dir_page, ws) /\ ws # <<>>
  BY <1>3, <1>6, WriteBack, WritesOne
<1> HIDE DEF ws
<1>8. TaskGood(own, leaves, DOMAIN cache', DOMAIN disk, next_dir_page, new)
  BY <1>3, <1>4, <1>5, <1>7, WritingGood
<1> QED BY <1>1, <1>2, <1>5, <1>8, FillStays DEF new, tk

(* A flush that goes on. *)
LEMMA FlushMoves ==
  ASSUME NEW own, NEW leaves, Good(own, leaves), TasksOK, NEW t \in Tasks,
         task[t].pc \in {"flush", "lock", "flushing"},
         task'[t].pc \in {"lock", "flushing"},
         task'[t].call = task[t].call, task'[t].key = task[t].key, task'[t].loc = task[t].loc,
         task'[t].path = task[t].path, task'[t].writes = task[t].writes,
         task'[t].old = task[t].old, task'[t].buf = task[t].buf
  PROVE  TaskGood(own, leaves, DOMAIN cache, DOMAIN disk, next_dir_page, task'[t])
<1> DEFINE tk == task[t]
           new == task'[t]
<1>1. /\ CallGood(own, tk) /\ PlaceGood(own, leaves, DOMAIN cache, tk) /\ tk.buf = NoPage
      /\ WritesOK(own, leaves, DOMAIN cache, next_dir_page, tk.writes)
      /\ WritesOK(own, leaves, DOMAIN cache, next_dir_page, tk.old)
  BY GoodTask, NothingRead DEF Reading
<1>2. /\ tk.pc \in {"flush", "lock", "flushing"} /\ new.pc \in {"lock", "flushing"}
      /\ new.call = tk.call /\ new.key = tk.key /\ new.loc = tk.loc
      /\ new.path = tk.path /\ new.writes = tk.writes /\ new.old = tk.old /\ new.buf = tk.buf
  OBVIOUS
<1> HIDE DEF tk, new
<1>3. CallGood(own, new) /\ PlaceGood(own, leaves, DOMAIN cache, new)
  BY <1>1, <1>2 DEF CallGood, PlaceGood
<1>4. TaskGood(own, leaves, DOMAIN cache, DOMAIN disk, next_dir_page, new)
  BY <1>1, <1>2, <1>3, MovedGood
<1> QED BY <1>4 DEF new

LEMMA FlushGood ==
  ASSUME NEW own, NEW leaves, Good(own, leaves), Numbers, TasksOK, NEW t \in Tasks, Frame,
         \/ FlushSnapshot(t) \/ FlushLock(t) \/ FlushWrite(t) \/ FlushClear(t) \/ FlushFail(t)
  PROVE  Good(own, leaves)'
<1>0. next_dir_page' = next_dir_page /\ cache' = cache
  BY DEF FlushSnapshot, FlushLock, FlushWrite, FlushClear, FlushFail, dirVars
<1>1. ASSUME NEW res, Return(t, res, <<>>), disk' = disk PROVE Good(own, leaves)'
  BY <1>0, <1>1, ReturnGood, StayGood
<1>2. CASE FlushSnapshot(t) /\ ~Return(t, "ok", <<>>)
  <2>1. task[t].pc = "flush" /\ task' = [task EXCEPT ![t].pc = "lock", ![t].snap = dirty] /\ disk' = disk
    BY <1>2 DEF FlushSnapshot, dirVars
  <2>2. /\ TaskStep(t) /\ task'[t].pc = "lock"
        /\ task'[t].call = task[t].call /\ task'[t].key = task[t].key /\ task'[t].loc = task[t].loc
        /\ task'[t].path = task[t].path /\ task'[t].writes = task[t].writes
        /\ task'[t].old = task[t].old /\ task'[t].buf = task[t].buf
    BY <2>1 DEF TasksOK, TaskStep, TaskOK, NoTask
  <2>3. TaskGood(own, leaves, DOMAIN cache, DOMAIN disk, next_dir_page, task'[t])
    BY <2>1, <2>2, FlushMoves
  <2> QED BY <1>0, <2>1, <2>2, <2>3, StayGood
<1>3. CASE FlushLock(t)
  <2>1. task[t].pc = "lock" /\ task' = [task EXCEPT ![t].pc = "flushing", ![t].todo = task[t].snap] /\ disk' = disk
    BY <1>3 DEF FlushLock, dirVars
  <2>2. /\ TaskStep(t) /\ task'[t].pc = "flushing"
        /\ task'[t].call = task[t].call /\ task'[t].key = task[t].key /\ task'[t].loc = task[t].loc
        /\ task'[t].path = task[t].path /\ task'[t].writes = task[t].writes
        /\ task'[t].old = task[t].old /\ task'[t].buf = task[t].buf
    BY <2>1 DEF TasksOK, TaskStep, TaskOK, NoTask
  <2>3. TaskGood(own, leaves, DOMAIN cache, DOMAIN disk, next_dir_page, task'[t])
    BY <2>1, <2>2, FlushMoves
  <2> QED BY <1>0, <2>1, <2>2, <2>3, StayGood
<1>4. CASE FlushWrite(t)
  <2>1. PICK p \in task[t].todo :
          /\ disk' = IF p \in DOMAIN cache THEN With(disk, p, cache[p]) ELSE disk
          /\ task' = [task EXCEPT ![t].todo = @ \ {p}]
    BY <1>4 DEF FlushWrite
  <2>2. /\ TaskStep(t) /\ task[t].pc = "flushing" /\ task'[t].pc = "flushing"
        /\ task'[t].call = task[t].call /\ task'[t].key = task[t].key /\ task'[t].loc = task[t].loc
        /\ task'[t].path = task[t].path /\ task'[t].writes = task[t].writes
        /\ task'[t].old = task[t].old /\ task'[t].buf = task[t].buf
    BY <1>4, <2>1 DEF FlushWrite, TasksOK, TaskStep, TaskOK, NoTask
  <2>3. TaskGood(own, leaves, DOMAIN cache, DOMAIN disk, next_dir_page, task'[t])
    BY <2>2, FlushMoves
  <2>4. /\ \A q \in DOMAIN cache : PageOK(own, leaves, q, cache[q])
        /\ \A q \in DOMAIN disk : PageOK(own, leaves, q, disk[q])
    BY DEF Good, PagesGood
  <2>5. DOMAIN disk \subseteq DOMAIN disk' /\ \A q \in DOMAIN disk' : PageOK(own, leaves, q, disk'[q])
    BY <2>1, <2>4, WithGood
  <2>6. Grow(own, leaves, DOMAIN cache, DOMAIN disk, next_dir_page,
             own, leaves, DOMAIN cache', DOMAIN disk', next_dir_page)
    BY <1>0, <2>5 DEF Grow, Numbers
  <2>7. TaskGood(own, leaves, DOMAIN cache', DOMAIN disk', next_dir_page, task'[t])
    BY <2>3, <2>6, TaskGrows
  <2>8. \A loc \in DOMAIN data' : loc \in DOMAIN own /\ data'[loc] = own[loc]
    BY DEF Good, OwnGood, Frame
  <2> QED BY <1>0, <2>2, <2>4, <2>5, <2>7, <2>8, SameGood DEF Frame
<1>5. CASE (FlushSnapshot(t) /\ Return(t, "ok", <<>>)) \/ FlushClear(t) \/ FlushFail(t)
  BY <1>1, <1>5 DEF FlushSnapshot, FlushClear, FlushFail, dirVars
<1> QED BY <1>2, <1>3, <1>4, <1>5

(* Every step of the directory, while it gives out no page twice. *)
LEMMA DirGood ==
  ASSUME NEW own, NEW leaves, Good(own, leaves), Numbers, TasksOK, NEW t \in Tasks,
         DirStep(t) \/ FlushFail(t), Frame, ~reused'
  PROVE  \E leaves2 : Good(own, leaves2)'
<1>1. CASE \/ FlushSnapshot(t) \/ FlushLock(t) \/ FlushWrite(t) \/ FlushClear(t) \/ FlushFail(t)
  BY <1>1, FlushGood
<1>2. CASE ReadFile(t) \/ CachePut(t) \/ DirtyMark(t) \/ ReadRoot(t) \/ Descend(t) \/ LookupLeaf(t) \/ ChangeLeaf(t)
  BY <1>2, ReadFileGood, CachePutGood, DirtyMarkGood, ReadRootGood, DescendGood, LookupLeafGood, ChangeLeafGood
<1>3. CASE AddLeaf(t) \/ SplitSibling(t) \/ Ancestors(t) \/ SplitInner(t) \/ NewRoot(t) \/ SetRoot(t) \/ SetHeader(t)
  BY <1>3, AddLeafGood, SplitSiblingGood, AncestorsGood, SplitInnerGood, NewRootGood, SetRootGood, SetHeaderGood
<1>4. CASE AddFirst(t) \/ SplitLeaf(t)
  BY <1>4, AddFirstGood, SplitLeafGood
<1> QED BY <1>1, <1>2, <1>3, <1>4 DEF DirStep

-----------------------------------------------------------------------------
(* What a call has returned *)

(* What the call of t has returned, if anything, was returned before. *)
Kept(t) ==
  \/ task'[t].out = <<>>
  \/ task'[t].out = task[t].out /\ task'[t].call = task[t].call /\ task'[t].key = task[t].key

LEMMA KeptUpdate ==
  ASSUME TasksOK, NEW t \in Tasks, NEW tk, task' = [task EXCEPT ![t] = tk],
         tk.out = task[t].out, tk.call = task[t].call, tk.key = task[t].key
  PROVE  Kept(t)
BY DEF TasksOK, Kept

LEMMA DirKept ==
  ASSUME TasksOK, NEW t \in Tasks, DirStep(t) \/ FlushFail(t)
  PROVE  Kept(t)
<1>ok. DOMAIN task = Tasks /\ TaskOK(task[t])
  BY DEF TasksOK
<1>r. ASSUME NEW res, Return(t, res, <<>>) PROVE Kept(t)
  BY <1>r, DoneFields DEF Kept
<1>w. ASSUME NEW ws, NEW next, task' = [task EXCEPT ![t] = Writing(@, ws, next)] PROVE Kept(t)
  BY <1>ok, <1>w, WritingFields DEF Kept
<1>n. ASSUME NEW ws, NEW next, NEW n,
             task' = [task EXCEPT ![t] = [Writing(@, ws, next) EXCEPT !.cur = n]] PROVE Kept(t)
  BY <1>ok, <1>n, RootFields DEF Kept
<1>1. CASE ReadFile(t)
  <2>1. \/ \E page : task' = [task EXCEPT ![t].buf = page]
        \/ Return(t, "IOError", <<>>)
    BY <1>1 DEF ReadFile, ReturnError
  <2> QED BY <1>ok, <1>r, <2>1 DEF Kept, TaskOK, NoTask
<1>2. CASE CachePut(t)
  BY <1>2, <1>ok DEF CachePut, Kept, TaskOK, NoTask
<1>3. CASE DirtyMark(t)
  <2>1. \/ \E pc, ws : task' = [task EXCEPT ![t].pc = pc, ![t].writes = ws]
        \/ Return(t, "ok", <<>>)
    BY <1>3 DEF DirtyMark
  <2>2. CASE \E pc, ws : task' = [task EXCEPT ![t].pc = pc, ![t].writes = ws]
    <3>1. PICK pc, ws : task' = [task EXCEPT ![t].pc = pc, ![t].writes = ws]
      BY <2>2
    <3> QED BY <1>ok, <3>1 DEF Kept, TaskOK, NoTask
  <2> QED BY <1>r, <2>1, <2>2
<1>4. CASE ReadRoot(t)
  <2>1. \/ \E p : task' = [task EXCEPT ![t].pc = "descend", ![t].cur = p, ![t].root = p]
        \/ task' = [task EXCEPT ![t].pc = "first"]
        \/ Return(t, "PageNotFound", <<>>)
    BY <1>4 DEF ReadRoot
  <2>2. CASE \E p : task' = [task EXCEPT ![t].pc = "descend", ![t].cur = p, ![t].root = p]
    <3>1. PICK p : task' = [task EXCEPT ![t].pc = "descend", ![t].cur = p, ![t].root = p]
      BY <2>2
    <3> QED BY <1>ok, <3>1 DEF Kept, TaskOK, NoTask
  <2>3. CASE task' = [task EXCEPT ![t].pc = "first"]
    BY <1>ok, <2>3 DEF Kept, TaskOK, NoTask
  <2> QED BY <1>r, <2>1, <2>2, <2>3
<1>5. CASE Descend(t)
  <2>1. \/ \E p, path : task' = [task EXCEPT ![t].cur = p, ![t].path = path, ![t].buf = NoPage]
        \/ task' = [task EXCEPT ![t].pc = "leaf", ![t].buf = NoPage]
        \/ Return(t, "PageCorruption", <<>>)
    BY <1>5 DEF Descend
  <2>2. CASE \E p, path : task' = [task EXCEPT ![t].cur = p, ![t].path = path, ![t].buf = NoPage]
    <3>1. PICK p, path : task' = [task EXCEPT ![t].cur = p, ![t].path = path, ![t].buf = NoPage]
      BY <2>2
    <3> QED BY <1>ok, <3>1 DEF Kept, TaskOK, NoTask
  <2>3. CASE task' = [task EXCEPT ![t].pc = "leaf", ![t].buf = NoPage]
    BY <1>ok, <2>3 DEF Kept, TaskOK, NoTask
  <2> QED BY <1>r, <2>1, <2>2, <2>3
<1>6. CASE LookupLeaf(t)
  <2>1. \/ \E loc : task' = [task EXCEPT ![t].pc = "found", ![t].loc = loc]
        \/ Return(t, "PageNotFound", <<>>)
    BY <1>6 DEF LookupLeaf
  <2> QED BY <1>ok, <1>r, <2>1 DEF Kept, TaskOK, NoTask
<1>7. CASE ChangeLeaf(t)
  <2>1. \/ \E ws : task' = [task EXCEPT ![t] = Writing(@, ws, "return")]
        \/ Return(t, "PageNotFound", <<>>)
    BY <1>7 DEF ChangeLeaf
  <2> QED BY <1>r, <1>w, <2>1
<1>8. CASE AddFirst(t) \/ NewRoot(t)
  BY <1>8, <1>n DEF AddFirst, NewRoot
<1>9. CASE AddLeaf(t)
  <2>1. \/ \E ws : task' = [task EXCEPT ![t] = Writing(@, ws, "return")]
        \/ \E page : task' = [task EXCEPT ![t].pc = "split", ![t].copy = page]
        \/ \E res : Return(t, res, <<>>)
    BY <1>9 DEF AddLeaf
  <2>2. CASE \E page : task' = [task EXCEPT ![t].pc = "split", ![t].copy = page]
    BY <1>ok, <2>2 DEF Kept, TaskOK, NoTask
  <2> QED BY <1>r, <1>w, <2>1, <2>2
<1>10. CASE SplitLeaf(t)
  <2> DEFINE cur == task[t].cur
             leaf == task[t].copy
             split == SplitLeafPages(leaf, cur, next_dir_page, from_ppage_id(task[t].key, task[t].loc))
             up == W(next_dir_page, split.upper, NoPage)
             low == W(cur, split.lower, leaf)
             sep == split.upper.entries[1].key
             left == IF task[t].path = <<>> THEN cur ELSE 0
             tk == [task[t] EXCEPT !.child = next_dir_page, !.sep = sep, !.left = left]
             tk1 == Writing(tk, <<up, low>>, AfterLeaf(t))
             tk2 == [Writing(tk, <<up>>, "sibling") EXCEPT !.cur = leaf.next, !.old = <<low>>]
  <2>1. task' = [task EXCEPT ![t] = IF leaf.next = 0 THEN tk1 ELSE tk2]
    BY <1>10 DEF SplitLeaf
  <2> HIDE DEF split, up, low, sep, left
  <2>2. TaskOK(tk) /\ tk.out = task[t].out /\ tk.call = task[t].call /\ tk.key = task[t].key
    BY <1>ok DEF TaskOK, NoTask
  <2> HIDE DEF tk
  <2>3. tk1.out = task[t].out /\ tk1.call = task[t].call /\ tk1.key = task[t].key
    BY <2>2, WritingFields
  <2>4. tk2.out = task[t].out /\ tk2.call = task[t].call /\ tk2.key = task[t].key
    BY <2>2 DEF TaskOK, Writing, NoTask
  <2> HIDE DEF tk1, tk2
  <2> QED BY <2>1, <2>3, <2>4, KeptUpdate
<1>11. CASE SplitSibling(t) \/ SetHeader(t)
  BY <1>11, <1>w DEF SplitSibling, SetHeader
<1>12. CASE Ancestors(t)
  <2> DEFINE page == Page(t, Last(task[t].path))
             ws == <<W(Last(task[t].path), insert_separator(page, task[t].sep, task[t].child).page, page)>>
  <2>1. CASE find_separator_slot(page, task[t].sep).found
    BY <1>12, <1>r, <2>1 DEF Ancestors, ReturnError
  <2>2. CASE ~find_separator_slot(page, task[t].sep).found /\ inner_is_full(page)
    <3>1. task' = [task EXCEPT ![t] = [@ EXCEPT !.pc = "splitinner", !.copy = page, !.buf = NoPage]]
      BY <1>12, <2>2 DEF Ancestors
    <3> HIDE DEF page
    <3> QED BY <1>ok, <3>1 DEF Kept, TaskOK, NoTask
  <2>3. CASE ~find_separator_slot(page, task[t].sep).found /\ ~inner_is_full(page)
    <3>1. task' = [task EXCEPT ![t] = Writing(@, ws, "return")]
      BY <1>12, <2>3 DEF Ancestors
    <3> HIDE DEF ws
    <3> QED BY <1>w, <3>1
  <2> QED BY <2>1, <2>2, <2>3
<1>13. CASE SplitInner(t)
  <2> DEFINE page == task[t].copy
             split == SplitInnerPages(page, task[t].sep, task[t].child)
             path == Front(task[t].path)
             tk == [task[t] EXCEPT !.path = path, !.sep = split.up, !.child = next_dir_page]
             ws == <<W(next_dir_page, split.upper, NoPage), W(Last(task[t].path), split.lower, page)>>
             next == IF path = <<>> THEN "newroot" ELSE "ancestors"
  <2>1. task' = [task EXCEPT ![t] = Writing(tk, ws, next)]
    BY <1>13 DEF SplitInner
  <2> HIDE DEF split, path, ws, next
  <2>2. TaskOK(tk) /\ tk.out = task[t].out /\ tk.call = task[t].call /\ tk.key = task[t].key
    BY <1>ok DEF TaskOK, NoTask
  <2> HIDE DEF tk
  <2>3. /\ Writing(tk, ws, next).out = task[t].out /\ Writing(tk, ws, next).call = task[t].call
        /\ Writing(tk, ws, next).key = task[t].key
    BY <2>2, WritingFields
  <2> QED BY <2>1, <2>3, KeptUpdate
<1>14. CASE SetRoot(t)
  BY <1>14, <1>ok DEF SetRoot, Kept, TaskOK, NoTask
<1>15. CASE FlushSnapshot(t)
  <2>1. \/ \E snap : task' = [task EXCEPT ![t].pc = "lock", ![t].snap = snap]
        \/ Return(t, "ok", <<>>)
    BY <1>15 DEF FlushSnapshot
  <2> QED BY <1>ok, <1>r, <2>1 DEF Kept, TaskOK, NoTask
<1>16. CASE FlushLock(t)
  BY <1>16, <1>ok DEF FlushLock, Kept, TaskOK, NoTask
<1>17. CASE FlushWrite(t)
  <2>1. \E rest : task' = [task EXCEPT ![t].todo = rest]
    BY <1>17 DEF FlushWrite
  <2> QED BY <1>ok, <2>1 DEF Kept, TaskOK, NoTask
<1>18. CASE FlushClear(t) \/ FlushFail(t)
  BY <1>18, <1>r DEF FlushClear, FlushFail
<1> QED BY <1>1, <1>2, <1>3, <1>4, <1>5, <1>6, <1>7, <1>8, <1>9, <1>10, <1>11, <1>12, <1>13,
           <1>14, <1>15, <1>16, <1>17, <1>18 DEF DirStep

LEMMA TwoLong == ASSUME NEW s, Len(s) = 2 PROVE s # <<>>
<1> SUFFICES ASSUME s = <<>> PROVE FALSE
  OBVIOUS
<1>1. Len(<<>>) = 0
  OBVIOUS
<1> QED BY <1>1

LEMMA KeptReads ==
  ASSUME NEW t \in Tasks, TaskStep(t), Kept(t), restarted' = restarted, ReadsOwn
  PROVE  ReadsOwn'
<1> SUFFICES ASSUME NEW u \in Tasks, ~restarted', task'[u].call.op = "read", Len(task'[u].out) = 2
             PROVE  task'[u].out[2] = task'[u].key
  BY DEF ReadsOwn
<1>1. CASE u # t
  <2>1. task'[u] = task[u]
    BY <1>1 DEF TaskStep
  <2> QED BY <2>1 DEF ReadsOwn
<1>2. CASE u = t
  <2>1. Len(task'[t].out) = 2
    BY <1>2
  <2>2. task'[t].out # <<>>
    BY <2>1, TwoLong
  <2>3. task'[t].out = task[t].out /\ task'[t].call = task[t].call /\ task'[t].key = task[t].key
    BY <2>2 DEF Kept
  <2> QED BY <1>2, <2>3 DEF ReadsOwn
<1> QED BY <1>1, <1>2

-----------------------------------------------------------------------------
(* The calls of the disk manager *)

(* The allocator has given out no number that an entry cannot hold. *)
PagesFit == \A f \in Files : next_page[f] <= PageNumbers

(* The call that Start begins. *)
Begun(c, tk) ==
  /\ NamesFile(c) /\ tk.call = c /\ tk.path = <<>> /\ tk.buf = NoPage
  /\ tk.writes = <<>> /\ tk.old = <<>> /\ tk.out = <<>>
  /\ c.op \in {"new", "update"} => tk.pc = "place"
  /\ c.op \notin {"new", "update"} => tk.pc \in {"flush", "root"}

LEMMA StartMoves ==
  ASSUME Numbers, TasksOK, NEW t \in Tasks, NEW c, Start(t, c)
  PROVE  TaskStep(t) /\ Kept(t) /\ Numbers' /\ Begun(c, task'[t])
<1> DEFINE k == IF c.op = "new" THEN next_lpage_id ELSE c.id
           pc == CASE c.op \in {"new", "update"} -> "place"
                   [] c.op = "flush" -> "flush"
                   [] OTHER -> "root"
           tk == [NoTask EXCEPT !.call = c, !.key = k, !.pc = pc]
<1>1. task' = [task EXCEPT ![t] = tk] /\ next_page' = next_page /\ next_dir_page' = next_dir_page
  BY DEF Start, dirVars
<1>2. PICK S : todo \in Seq(S) /\ \A d \in S : NamesFile(d)
  BY DEF Numbers
<1>3. NamesFile(c)
  <2>1. CASE todo # <<>>
    <3>1. c = Head(todo) /\ Head(todo) \in S
      BY <1>2, <2>1, HeadTailProperties DEF Start
    <3> QED BY <1>2, <3>1
  <2>2. CASE todo = <<>>
    BY <2>2, DiskAssumption DEF Start
  <2> QED BY <2>1, <2>2
<1>4. todo' \in Seq(S)
  <2>1. CASE todo # <<>>
    BY <1>2, <2>1, HeadTailProperties DEF Start
  <2>2. CASE todo = <<>>
    BY <1>2, <2>2 DEF Start
  <2> QED BY <2>1, <2>2
<1>5. Numbers'
  BY <1>1, <1>2, <1>4 DEF Numbers
<1>6. /\ c.op \in {"new", "update"} => pc = "place"
      /\ c.op \notin {"new", "update"} => pc \in {"flush", "root"}
  OBVIOUS
<1> HIDE DEF k, pc
<1>7. /\ TaskOK(tk) /\ tk.pc = pc /\ tk.call = c /\ tk.path = <<>> /\ tk.buf = NoPage
      /\ tk.writes = <<>> /\ tk.old = <<>> /\ tk.out = <<>>
  BY DEF TaskOK, NoTask, Thens
<1> HIDE DEF tk
<1>8. TaskStep(t) /\ task'[t] = tk
  BY <1>1, <1>7, TaskUpdate
<1>9. Kept(t)
  BY <1>7, <1>8 DEF Kept
<1>10. Begun(c, tk)
  BY <1>3, <1>6, <1>7 DEF Begun
<1> QED BY <1>5, <1>8, <1>9, <1>10

LEMMA StartGood ==
  ASSUME NEW own, NEW leaves, Good(own, leaves), Numbers, TasksOK, NEW t \in Tasks, NEW c,
         Start(t, c)
  PROVE  Good(own, leaves)'
<1>1. /\ next_page' = next_page /\ data' = data /\ cache' = cache /\ disk' = disk
      /\ next_dir_page' = next_dir_page
  BY DEF Start, dirVars
<1>2. TaskStep(t) /\ Begun(c, task'[t])
  BY StartMoves
<1> DEFINE tk == task'[t]
<1> HIDE DEF tk
<1>3. Begun(c, tk)
  BY <1>2 DEF tk
<1>4. CallGood(own, tk) /\ tk.pc \in {"done", "idle", "place", "root", "flush"}
  BY <1>3 DEF Begun, CallGood, NamesFile
<1>5. TaskGood(own, leaves, DOMAIN cache, DOMAIN disk, next_dir_page, tk)
  BY <1>3, <1>4, DoneGood DEF Begun
<1> QED BY <1>1, <1>2, <1>5, StayGood DEF Frame, tk

(* A location the allocator gives out is new. *)
LEMMA LocationIsNew ==
  ASSUME NEW own, Numbers, OwnGood(own), NEW f \in Files
  PROVE  [file |-> f, offset |-> next_page[f] * PageSize] \notin DOMAIN own
<1> DEFINE loc == [file |-> f, offset |-> next_page[f] * PageSize]
<1> SUFFICES ASSUME loc \in DOMAIN own PROVE FALSE
  OBVIOUS
<1>1. PICK g \in Files : \E n \in 1..(next_page[g] - 1) :
        n < PageNumbers /\ loc = [file |-> g, offset |-> n * PageSize]
  BY DEF OwnGood
<1>2. PICK n \in 1..(next_page[g] - 1) : loc = [file |-> g, offset |-> n * PageSize]
  BY <1>1
<1>3. g = f /\ n * PageSize = next_page[f] * PageSize
  BY <1>2
<1>4. n \in Nat /\ next_page[f] \in Nat /\ n < next_page[f] /\ PageSize \in Nat \ {0}
  BY <1>3, DirectoryPageAssumption DEF Numbers
<1>5. (n * PageSize) \div PageSize = n /\ (next_page[f] * PageSize) \div PageSize = next_page[f]
  BY <1>4
<1> QED BY <1>3, <1>4, <1>5

LEMMA AllocateGood ==
  ASSUME NEW own, NEW leaves, Good(own, leaves), Numbers, TasksOK, NEW t \in Tasks,
         Allocate(t), PagesFit'
  PROVE  \E own2 : Good(own2, leaves)'
<1> DEFINE f == task[t].call.file
<1>1. /\ task[t].pc = "place" /\ data' = data /\ cache' = cache /\ disk' = disk
      /\ next_dir_page' = next_dir_page
      /\ next_page' = [next_page EXCEPT ![f] = @ + 1]
  BY DEF Allocate, dirVars
<1>2. f \in Files
  BY <1>1, GoodTask DEF CallGood
<1>3. PICK loc : loc = [file |-> f, offset |-> next_page[f] * PageSize]
  OBVIOUS
<1>4. task' = [task EXCEPT ![t].pc = "root", ![t].loc = loc]
  BY <1>3 DEF Allocate
<1>5. loc \notin DOMAIN own
  BY <1>2, <1>3, LocationIsNew DEF Good
<1>6. PICK own2 : own2 = With(own, loc, task[t].key)
  OBVIOUS
<1>7. /\ DOMAIN own2 = DOMAIN own \cup {loc} /\ own2[loc] = task[t].key
      /\ \A l \in DOMAIN own : own2[l] = own[l]
  BY <1>5, <1>6 DEF With
<1>8. \A l \in DOMAIN own : l \in DOMAIN own2 /\ own2[l] = own[l]
  BY <1>7
<1>9. OwnGood(own2)'
  <2>1. \A g \in Files : next_page[g] \in Nat \ {0} /\ next_page'[g] = IF g = f THEN next_page[g] + 1 ELSE next_page[g]
    BY <1>1, <1>2 DEF Numbers
  <2>2. next_page[f] \in 1..(next_page'[f] - 1) /\ next_page[f] < PageNumbers
    BY <1>2, <2>1, DirectoryPageAssumption DEF PagesFit
  <2>3. \A g \in Files : \A n \in 1..(next_page[g] - 1) : n \in 1..(next_page'[g] - 1)
    BY <2>1
  <2>4. ASSUME NEW l \in DOMAIN own2
        PROVE  \E g \in Files : \E n \in 1..(next_page'[g] - 1) :
                 n < PageNumbers /\ l = [file |-> g, offset |-> n * PageSize]
    <3>1. CASE l = loc
      BY <1>2, <1>3, <2>2, <3>1
    <3>2. CASE l \in DOMAIN own
      <4>1. PICK g \in Files : \E n \in 1..(next_page[g] - 1) :
              n < PageNumbers /\ l = [file |-> g, offset |-> n * PageSize]
        BY <3>2 DEF Good, OwnGood
      <4> QED BY <2>3, <4>1
    <3> QED BY <1>7, <3>1, <3>2
  <2>5. \A l \in DOMAIN data' : l \in DOMAIN own2 /\ data'[l] = own2[l]
    BY <1>1, <1>8 DEF Good, OwnGood
  <2> QED BY <2>4, <2>5 DEF OwnGood
<1>10. PagesGood(own2, leaves)'
  <2>1. \A p, page : PageOK(own, leaves, p, page) => PageOK(own2, leaves, p, page)
    BY <1>8, PageGrows
  <2> QED BY <1>1, <2>1 DEF Good, PagesGood
<1>11. Grow(own, leaves, DOMAIN cache, DOMAIN disk, next_dir_page,
            own2, leaves, DOMAIN cache, DOMAIN disk, next_dir_page)
  BY <1>8 DEF Grow, Numbers
<1>12. ASSUME NEW u \in Tasks
       PROVE  TaskGood(own2, leaves, DOMAIN cache, DOMAIN disk, next_dir_page, task[u])
  <2>1. TaskGood(own, leaves, DOMAIN cache, DOMAIN disk, next_dir_page, task[u])
    BY DEF Good, TasksGood
  <2> QED BY <1>11, <2>1, TaskGrows
<1>13. TaskGood(own2, leaves, DOMAIN cache, DOMAIN disk, next_dir_page, task'[t])
  <2> DEFINE tk == task[t]
             new == task'[t]
  <2>1. /\ new.pc = "root" /\ new.call = tk.call /\ new.key = tk.key /\ new.loc = loc
        /\ new.path = tk.path /\ new.writes = tk.writes /\ new.old = tk.old /\ new.buf = tk.buf
    BY <1>4 DEF TasksOK, TaskOK, NoTask
  <2>2. /\ PlaceGood(own2, leaves, DOMAIN cache, tk)
        /\ WritesOK(own2, leaves, DOMAIN cache, next_dir_page, tk.writes)
        /\ WritesOK(own2, leaves, DOMAIN cache, next_dir_page, tk.old)
    BY <1>12 DEF TaskGood
  <2>3. tk.buf = NoPage
    BY <1>1, NothingRead DEF Reading
  <2>4. loc \in DOMAIN own2 /\ own2[loc] = tk.key
    BY <1>7
  <2> HIDE DEF tk, new
  <2>5. CallGood(own2, new) /\ PlaceGood(own2, leaves, DOMAIN cache, new)
    BY <2>1, <2>2, <2>4 DEF CallGood, PlaceGood
  <2>6. TaskGood(own2, leaves, DOMAIN cache, DOMAIN disk, next_dir_page, new)
    BY <2>1, <2>2, <2>3, <2>5, MovedGood
  <2> QED BY <2>6 DEF new
<1>14. TasksGood(own2, leaves)'
  <2>1. \A u \in Tasks : u # t => task'[u] = task[u]
    BY <1>4 DEF TasksOK
  <2> QED BY <1>1, <1>12, <1>13, <2>1 DEF TasksGood
<1> QED BY <1>9, <1>10, <1>14 DEF Good

LEMMA AllocateMoves ==
  ASSUME Numbers, TasksOK, NEW t \in Tasks, Allocate(t)
  PROVE  /\ TaskStep(t) /\ Kept(t) /\ Numbers' /\ (PagesFit' => PagesFit)
         /\ restarted' = restarted /\ reused' = reused
<1> DEFINE f == task[t].call.file
           loc == [file |-> f, offset |-> next_page[f] * PageSize]
<1>1. /\ next_dir_page' = next_dir_page /\ todo' = todo /\ restarted' = restarted /\ reused' = reused
      /\ next_page' = [next_page EXCEPT ![f] = @ + 1]
      /\ task' = [task EXCEPT ![t].pc = "root", ![t].loc = loc]
  BY DEF Allocate, dirVars, flagVars
<1> HIDE DEF loc, f
<1>2. TaskStep(t) /\ Kept(t)
  BY <1>1 DEF TasksOK, TaskStep, TaskOK, NoTask, Kept
<1>3. /\ next_page' \in [Files -> Nat \ {0}]
      /\ \A g \in Files : next_page[g] \in Nat /\ next_page'[g] \in Nat /\ next_page'[g] >= next_page[g]
  <2>1. next_page \in [Files -> Nat \ {0}]
    BY DEF Numbers
  <2>2. ASSUME NEW g \in Files
        PROVE  /\ next_page[g] \in Nat \ {0} /\ next_page'[g] \in Nat \ {0}
               /\ next_page'[g] >= next_page[g]
    BY <1>1, <2>1
  <2>3. DOMAIN next_page' = Files /\ next_page' = [g \in Files |-> next_page'[g]]
    BY <1>1, <2>1
  <2> QED BY <2>2, <2>3
<1>4. Numbers'
  BY <1>1, <1>3 DEF Numbers
<1>5. PagesFit' => PagesFit
  BY <1>3, DirectoryPageAssumption DEF PagesFit
<1> QED BY <1>1, <1>2, <1>4, <1>5

(* Reading and writing a page at a location of its own. *)
LEMMA TransferGood ==
  ASSUME NEW own, NEW leaves, Good(own, leaves), Numbers, TasksOK, NEW t \in Tasks,
         Transfer(t), ReadsOwn
  PROVE  Numbers' /\ ReadsOwn' /\ Good(own, leaves)'
<1> DEFINE tk == task[t]
           loc == task[t].loc
<1>1. /\ tk.pc = "found" /\ cache' = cache /\ disk' = disk /\ next_dir_page' = next_dir_page
      /\ next_page' = next_page /\ todo' = todo /\ restarted' = restarted
  BY DEF Transfer, dirVars, idVars
<1>2. loc \in DOMAIN own /\ own[loc] = tk.key
  BY <1>1, GoodTask DEF CallGood
<1>3. Numbers'
  BY <1>1 DEF Numbers
<1>4. \A l \in DOMAIN data : l \in DOMAIN own /\ data[l] = own[l]
  BY DEF Good, OwnGood
<1>5. PICK res, out : /\ Return(t, res, out)
                      /\ tk.call.op = "read" /\ Len(out) = 2 => out[2] = tk.key
  <2>1. CASE tk.call.op = "write"
    BY <2>1 DEF Transfer
  <2>2. CASE tk.call.op # "write" /\ loc \in DOMAIN data
    <3>1. Return(t, "ok", <<loc, data[loc]>>) /\ <<loc, data[loc]>>[2] = tk.key
      BY <1>2, <1>4, <2>2 DEF Transfer
    <3> QED BY <3>1
  <2>3. CASE tk.call.op # "write" /\ loc \notin DOMAIN data
    <3>1. \E res : Return(t, res, <<loc>>)
      BY <2>3 DEF Transfer
    <3>2. Len(<<loc>>) = 1
      OBVIOUS
    <3> QED BY <3>1, <3>2
  <2> QED BY <2>1, <2>2, <2>3
<1>6. /\ TaskStep(t) /\ task'[t].call = tk.call /\ task'[t].key = tk.key /\ task'[t].out = out
  BY <1>5, DoneFields
<1>7. ReadsOwn'
  <2> SUFFICES ASSUME NEW u \in Tasks, ~restarted', task'[u].call.op = "read", Len(task'[u].out) = 2
               PROVE  task'[u].out[2] = task'[u].key
    BY DEF ReadsOwn
  <2>1. CASE u = t
    BY <1>5, <1>6, <2>1
  <2>2. CASE u # t
    <3>1. task'[u] = task[u]
      BY <1>6, <2>2 DEF TaskStep
    <3> QED BY <1>1, <3>1 DEF ReadsOwn
  <2> QED BY <2>1, <2>2
<1>8. \A l \in DOMAIN data' : l \in DOMAIN own /\ data'[l] = own[l]
  <2>1. data' = data \/ data' = With(data, loc, tk.key)
    BY DEF Transfer
  <2> HIDE DEF loc, tk
  <2> QED BY <1>2, <1>4, <2>1 DEF With
<1>9. TaskGood(own, leaves, DOMAIN cache', DOMAIN disk', next_dir_page, task'[t])
  BY <1>5, ReturnGood
<1>10. Good(own, leaves)'
  BY <1>1, <1>6, <1>8, <1>9, SameGood DEF Good, PagesGood
<1> QED BY <1>3, <1>7, <1>10

-----------------------------------------------------------------------------
(* The invariant of the specification *)

LEMMA DirMoves ==
  ASSUME Numbers, TasksOK, NEW t \in Tasks, DirStep(t) \/ FlushFail(t), Frame, todo' = todo
  PROVE  TaskStep(t) /\ Numbers'
<1>1. TaskStep(t)
  <2>1. CASE CachePut(t)
    BY <2>1 DEF CachePut, TasksOK, TaskStep, TaskOK, NoTask
  <2>2. CASE DirtyMark(t)
    <3>1. CASE task' = [task EXCEPT ![t].pc = "put", ![t].writes = Tail(@)]
      BY <3>1 DEF TasksOK, TaskStep, TaskOK, NoTask
    <3>2. CASE Return(t, "ok", <<>>)
      BY <3>2, ReturnShape
    <3>3. CASE task' = [task EXCEPT ![t].pc = task[t].then, ![t].writes = <<>>]
      BY <3>3 DEF TasksOK, TaskStep, TaskOK, NoTask, Thens
    <3> QED BY <2>2, <3>1, <3>2, <3>3 DEF DirtyMark
  <2>3. CASE FlushLock(t)
    BY <2>3 DEF FlushLock, TasksOK, TaskStep, TaskOK, NoTask
  <2>4. CASE FlushWrite(t)
    BY <2>4 DEF FlushWrite, TasksOK, TaskStep, TaskOK, NoTask
  <2>5. CASE FlushClear(t)
    BY <2>5, ReturnShape DEF FlushClear
  <2>6. CASE ~(CachePut(t) \/ DirtyMark(t) \/ FlushLock(t) \/ FlushWrite(t) \/ FlushClear(t))
    BY <2>6, DirQuiet DEF DirStep, Quiet
  <2> QED BY <2>1, <2>2, <2>3, <2>4, <2>5, <2>6
<1>2. next_dir_page' = next_dir_page \/ next_dir_page' = next_dir_page + 1
  <2>1. CASE AddFirst(t) \/ SplitLeaf(t) \/ SplitInner(t) \/ NewRoot(t)
    BY <2>1 DEF AddFirst, SplitLeaf, SplitInner, NewRoot, alloc_dir_page
  <2>2. CASE \/ ReadFile(t) \/ CachePut(t) \/ DirtyMark(t) \/ ReadRoot(t) \/ Descend(t)
             \/ LookupLeaf(t) \/ ChangeLeaf(t) \/ AddLeaf(t)
    BY <2>2 DEF ReadFile, CachePut, DirtyMark, ReadRoot, Descend, LookupLeaf, ChangeLeaf, AddLeaf, dirVars
  <2>3. CASE SplitSibling(t) \/ Ancestors(t) \/ SetRoot(t) \/ SetHeader(t)
    BY <2>3 DEF SplitSibling, Ancestors, SetRoot, SetHeader
  <2>4. CASE FlushSnapshot(t) \/ FlushLock(t) \/ FlushWrite(t) \/ FlushClear(t) \/ FlushFail(t)
    BY <2>4 DEF FlushSnapshot, FlushLock, FlushWrite, FlushClear, FlushFail, dirVars
  <2> QED BY <2>1, <2>2, <2>3, <2>4 DEF DirStep
<1>3. next_dir_page' \in Nat \ {0}
  BY <1>2 DEF Numbers
<1>4. Numbers'
  BY <1>3 DEF Numbers, Frame
<1> QED BY <1>1, <1>4

(* Until the server is started again. *)
OwnInv ==
  ~restarted =>
    /\ Numbers
    /\ PagesFit => ReadsOwn
    /\ PagesFit /\ ~reused => \E own, leaves : Good(own, leaves)

LEMMA OwnInvInit == Init => OwnInv
<1> SUFFICES ASSUME Init PROVE OwnInv
  OBVIOUS
<1>1. /\ cache = <<>> /\ data = <<>> /\ disk = [p \in {0} |-> init_header]
      /\ next_dir_page = 1 /\ next_page = [f \in Files |-> 1] /\ todo \in Preloads
      /\ task = [t \in Tasks |-> NoTask]
  BY DEF Init, DirInit, init_new
<1>2. Numbers
  <2>1. PICK S : todo \in Seq(S) /\ \A c \in S : NamesFile(c)
    BY <1>1, DiskAssumption
  <2>2. next_page \in [Files -> Nat \ {0}] /\ next_dir_page \in Nat \ {0}
    BY <1>1
  <2> QED BY <2>1, <2>2 DEF Numbers
<1>3. ReadsOwn
  BY <1>1 DEF ReadsOwn, NoTask
<1>4. PICK own, leaves : own = <<>> /\ leaves = {}
  OBVIOUS
<1>5. DOMAIN own = {} /\ DOMAIN data = {} /\ DOMAIN cache = {} /\ DOMAIN disk = {0} /\ disk[0] = init_header
  BY <1>1, <1>4
<1>6. OwnGood(own)
  BY <1>5 DEF OwnGood
<1>7. PagesGood(own, leaves)
  <2>1. PageOK(own, leaves, 0, init_header)
    BY <1>4 DEF PageOK, init_header, HeaderPage
  <2> QED BY <1>4, <1>5, <2>1 DEF PagesGood
<1>8. TasksGood(own, leaves)
  <2>1. /\ NoTask.pc = "idle" /\ NoTask.path = <<>> /\ NoTask.buf = NoPage /\ NoTask.writes = <<>>
        /\ NoTask.old = <<>> /\ CallGood(own, NoTask)
    BY DEF NoTask, CallGood
  <2>2. \A C, D, n : TaskGood(own, leaves, C, D, n, NoTask)
    BY <2>1, DoneGood
  <2> QED BY <1>1, <2>2 DEF TasksGood
<1> QED BY <1>2, <1>3, <1>6, <1>7, <1>8 DEF OwnInv, Good

LEMMA OwnInvNext == SaveInv /\ OwnInv /\ [Next]_storageVars => OwnInv'
<1> SUFFICES ASSUME SaveInv, OwnInv, [Next]_storageVars, ~restarted'
             PROVE  /\ Numbers' /\ (PagesFit' => ReadsOwn')
                    /\ (PagesFit' /\ ~reused' => \E own, leaves : Good(own, leaves)')
  BY DEF OwnInv
<1>t. TasksOK
  BY DEF SaveInv
<1>1. CASE UNCHANGED storageVars
  <2>1. /\ UNCHANGED <<cache, disk, next_dir_page, task, next_page, data, todo, restarted, reused>>
    BY <1>1 DEF storageVars, dirVars, idVars, flagVars
  <2>2. \A own, leaves : Good(own, leaves) => Good(own, leaves)'
    BY <2>1 DEF Good, OwnGood, PagesGood, TasksGood
  <2> QED BY <2>1, <2>2 DEF OwnInv, Numbers, PagesFit, ReadsOwn
<1>2. CASE Next
  <2>0. ~Restart
    BY DEF Restart
  <2>1. PICK t \in Tasks : \/ \E c : Start(t, c)
                           \/ Allocate(t) \/ Transfer(t)
                           \/ /\ DirStep(t) \/ FlushFail(t)
                              /\ UNCHANGED <<idVars, data, todo, budget, restarted>>
    BY <1>2, <2>0 DEF Next
  <2>2. ~reused
    BY <1>2 DEF Next
  <2>3. CASE \E c : Start(t, c)
    <3>1. PICK c : Start(t, c)
      BY <2>3
    <3>2. restarted' = restarted /\ reused' = reused /\ next_page' = next_page
      BY <3>1 DEF Start, flagVars
    <3>3. Numbers /\ (PagesFit' => PagesFit)
      BY <3>2 DEF OwnInv, PagesFit
    <3>4. TaskStep(t) /\ Kept(t) /\ Numbers'
      BY <1>t, <3>1, <3>3, StartMoves
    <3>5. PagesFit' => ReadsOwn'
      BY <3>2, <3>3, <3>4, KeptReads DEF OwnInv
    <3>6. ASSUME PagesFit' PROVE \E own, leaves : Good(own, leaves)'
      <4>1. PICK own, leaves : Good(own, leaves)
        BY <2>2, <3>2, <3>3, <3>6 DEF OwnInv
      <4> QED BY <1>t, <3>1, <3>3, <4>1, StartGood
    <3> QED BY <3>4, <3>5, <3>6
  <2>4. CASE Allocate(t)
    <3>1. restarted' = restarted
      BY <2>4 DEF Allocate
    <3>2. Numbers
      BY <3>1 DEF OwnInv
    <3>3. TaskStep(t) /\ Kept(t) /\ Numbers' /\ (PagesFit' => PagesFit) /\ reused' = reused
      BY <1>t, <2>4, <3>2, AllocateMoves
    <3>4. PagesFit' => ReadsOwn'
      BY <3>1, <3>3, KeptReads DEF OwnInv
    <3>5. ASSUME PagesFit' PROVE \E own, leaves : Good(own, leaves)'
      <4>1. PICK own, leaves : Good(own, leaves)
        BY <2>2, <3>1, <3>3, <3>5 DEF OwnInv
      <4> QED BY <1>t, <2>4, <3>2, <3>5, <4>1, AllocateGood
    <3> QED BY <3>3, <3>4, <3>5
  <2>5. CASE Transfer(t)
    <3>1. restarted' = restarted /\ reused' = reused /\ next_page' = next_page
          /\ next_dir_page' = next_dir_page /\ todo' = todo
      BY <2>5 DEF Transfer, idVars, flagVars, dirVars
    <3>2. Numbers /\ Numbers' /\ (PagesFit' => PagesFit)
      BY <3>1 DEF OwnInv, Numbers, PagesFit
    <3>3. ASSUME PagesFit' PROVE ReadsOwn' /\ \E own, leaves : Good(own, leaves)'
      <4>1. PICK own, leaves : Good(own, leaves)
        BY <2>2, <3>1, <3>2, <3>3 DEF OwnInv
      <4>2. ReadsOwn
        BY <3>1, <3>2, <3>3 DEF OwnInv
      <4> QED BY <1>t, <2>5, <3>2, <4>1, <4>2, TransferGood
    <3> QED BY <3>2, <3>3
  <2>6. CASE (DirStep(t) \/ FlushFail(t)) /\ UNCHANGED <<idVars, data, todo, budget, restarted>>
    <3>1. restarted' = restarted /\ next_page' = next_page /\ todo' = todo /\ Frame
      BY <2>6 DEF idVars, Frame
    <3>2. Numbers /\ (PagesFit' => PagesFit)
      BY <3>1 DEF OwnInv, PagesFit
    <3>3. TaskStep(t) /\ Kept(t) /\ Numbers'
      BY <1>t, <2>6, <3>1, <3>2, DirKept, DirMoves
    <3>4. PagesFit' => ReadsOwn'
      BY <3>1, <3>2, <3>3, KeptReads DEF OwnInv
    <3>5. ASSUME PagesFit', ~reused' PROVE \E own, leaves : Good(own, leaves)'
      <4>1. PICK own, leaves : Good(own, leaves)
        BY <2>2, <3>1, <3>2, <3>5 DEF OwnInv
      <4> QED BY <1>t, <2>6, <3>1, <3>2, <3>5, <4>1, DirGood
    <3> QED BY <3>3, <3>4, <3>5
  <2> QED BY <2>1, <2>3, <2>4, <2>5, <2>6
<1> QED BY <1>1, <1>2

(* Until the server is started again, and while the page numbers the       *)
(* allocator gives out fit the four bytes an entry has for them, reading a *)
(* logical page gives what was written for that page, for any number of    *)
(* calls that add, move, delete, read and write pages at the same time     *)
(* and overwrite each other's changes of the directory (disk.rs,           *)
(* allocator.rs, directory.rs).                                            *)
THEOREM PagesReadTheirOwn == Spec => [](PagesFit => ReadsOwn)
<1>1. OwnInv => (PagesFit => ReadsOwn)
  BY DEF OwnInv, ReadsOwn
<1> QED BY <1>1, SaveInvInit, SaveInvNext, OwnInvInit, OwnInvNext, PTL DEF Spec

-----------------------------------------------------------------------------
(* The directory is well formed *)

(* In what follows inners has the directory pages that are inner pages,    *)
(* C the cached pages, and pages up to n have been given out.              *)

Tree(C) == C \ {0}

(* A page that may be directory page p; it leads to pages of T. *)
PageTyped(inners, n, T, p, page) ==
  /\ p \in 0..(n - 1) /\ "kind" \in DOMAIN page
  /\ page.kind = (IF p = 0 THEN "header" ELSE IF p \in inners THEN "inner" ELSE "leaf")
  /\ page.kind = "leaf" => "next" \in DOMAIN page /\ page.next \in T \cup {0}
  /\ page.kind = "inner" => /\ {"entries", "leftmost"} \subseteq DOMAIN page
                            /\ page.leftmost \in T
                            /\ \E S : page.entries \in Seq(S) /\ \A e \in S : e.child \in T

WriteTyped(inners, n, T, w) == PageTyped(inners, n, T, w.id, w.page)

(* The second page may lead to the first. *)
WritesTyped(inners, n, C, ws) ==
  \/ ws = <<>>
  \/ \E a : ws = <<a>> /\ WriteTyped(inners, n, Tree(C), a)
  \/ \E a, b : /\ ws = <<a, b>>
               /\ WriteTyped(inners, n, Tree(C), a)
               /\ WriteTyped(inners, n, Tree(C \cup {a.id}), b)

(* The pages of the tree when the writes ws are done. *)
After(C, ws) == Tree(C \cup {ws[i].id : i \in 1..Len(ws)})

(* Where the call goes on when its pages are written. *)
Place(tk) == IF tk.pc \in {"put", "mark"} THEN tk.then ELSE tk.pc

PlaceTyped(inners, n, T, tk) ==
  LET at == Place(tk)
  IN  /\ at \in {"descend", "leaf", "split", "sibling", "setroot", "header"} => tk.cur \in T
      /\ at \in {"sibling", "ancestors", "splitinner", "newroot"} => tk.child \in T
      /\ at \in {"ancestors", "splitinner"} => tk.path # <<>>
      /\ at \in {"leaf", "split"} => tk.cur \notin inners
      /\ at = "split" => tk.copy.next \in T \cup {0}
      /\ at = "splitinner" => /\ PageTyped(inners, n, T, Last(tk.path), tk.copy)
                              /\ Len(tk.copy.entries) > 0
      /\ at = "sibling" => /\ tk.path = <<>> => tk.left # 0
                           /\ \E a : tk.old = <<a>> /\ WriteTyped(inners, n, T, a)
      /\ at \in {"sibling", "ancestors", "splitinner", "newroot"} => tk.left \in T \cup {0}

TaskTyped(inners, n, C, root, tk) ==
  /\ tk.pc \in {"put", "mark"} <=> tk.writes # <<>>
  /\ WritesTyped(inners, n, C, tk.writes)
  /\ tk.pc = "mark" => Head(tk.writes).id \in C
  /\ tk.path \in Seq(Tree(C) \cap inners)
  /\ tk.path # <<>> \/ tk.pc = "descend" \/ (Place(tk) = "newroot" /\ tk.left = 0) => root # 0
  /\ tk.buf # NoPage => tk.pc = "header" /\ PageTyped(inners, n, Tree(C), 0, tk.buf)
  /\ PlaceTyped(inners, n, After(C, tk.writes), tk)

PagesTyped(inners, n, C, f) == \A p \in DOMAIN f : PageTyped(inners, n, Tree(C), p, f[p])

Typed(inners) ==
  /\ next_dir_page \in 1..MaxDirPages
  /\ inners \subseteq 1..(next_dir_page - 1)
  /\ 0 \in DOMAIN disk /\ root_page \in Tree(DOMAIN cache) \cup {0}
  /\ dirty \subseteq DOMAIN cache
  /\ ~reused
  /\ PagesTyped(inners, next_dir_page, DOMAIN cache, cache)
  /\ PagesTyped(inners, next_dir_page, DOMAIN cache, disk)
  /\ \A t \in Tasks : TaskTyped(inners, next_dir_page, DOMAIN cache, root_page, task[t])

-----------------------------------------------------------------------------

(* More inner pages, of which nobody has heard. *)
Wider(inners, n, C, root, inners2, n2, C2, root2) ==
  /\ n \in Nat /\ n2 \in Nat /\ n <= n2
  /\ inners \subseteq inners2 /\ C \subseteq C2
  /\ \A p \in inners2 \ inners : p \notin 0..(n - 1)
  /\ root # 0 => root2 # 0

LEMMA PageWidens ==
  ASSUME NEW inners, NEW n, NEW inners2, NEW n2, n \in Nat, n2 \in Nat, n <= n2,
         inners \subseteq inners2, \A p \in inners2 \ inners : p \notin 0..(n - 1),
         NEW T, NEW T2, T \subseteq T2, NEW p, NEW page, PageTyped(inners, n, T, p, page)
  PROVE  PageTyped(inners2, n2, T2, p, page)
<1>1. p \in 0..(n - 1) /\ p \in 0..(n2 - 1) /\ (p \in inners <=> p \in inners2)
  BY DEF PageTyped
<1>2. page.kind = "inner" => \E S : page.entries \in Seq(S) /\ \A e \in S : e.child \in T2
  BY DEF PageTyped
<1> QED BY <1>1, <1>2 DEF PageTyped

LEMMA WritesWiden ==
  ASSUME NEW inners, NEW n, NEW C, NEW root, NEW inners2, NEW n2, NEW C2, NEW root2,
         Wider(inners, n, C, root, inners2, n2, C2, root2), NEW ws, WritesTyped(inners, n, C, ws)
  PROVE  WritesTyped(inners2, n2, C2, ws)
<1>1. ASSUME NEW T, NEW T2, T \subseteq T2, NEW w, WriteTyped(inners, n, T, w)
      PROVE  WriteTyped(inners2, n2, T2, w)
  BY <1>1, PageWidens DEF WriteTyped, Wider
<1>2. Tree(C) \subseteq Tree(C2) /\ \A a : Tree(C \cup {a}) \subseteq Tree(C2 \cup {a})
  BY DEF Tree, Wider
<1>3. CASE ws = <<>>
  BY <1>3 DEF WritesTyped
<1>4. CASE \E a : ws = <<a>> /\ WriteTyped(inners, n, Tree(C), a)
  BY <1>1, <1>2, <1>4 DEF WritesTyped
<1>5. CASE \E a, b : /\ ws = <<a, b>>
                     /\ WriteTyped(inners, n, Tree(C), a)
                     /\ WriteTyped(inners, n, Tree(C \cup {a.id}), b)
  <2>1. PICK a, b : /\ ws = <<a, b>>
                    /\ WriteTyped(inners, n, Tree(C), a)
                    /\ WriteTyped(inners, n, Tree(C \cup {a.id}), b)
    BY <1>5
  <2>2. WriteTyped(inners2, n2, Tree(C2), a) /\ WriteTyped(inners2, n2, Tree(C2 \cup {a.id}), b)
    BY <1>1, <1>2, <2>1
  <2> QED BY <2>1, <2>2 DEF WritesTyped
<1> QED BY <1>3, <1>4, <1>5 DEF WritesTyped

LEMMA PlaceWidens ==
  ASSUME NEW inners, NEW n, NEW inners2, NEW n2, n \in Nat, n2 \in Nat, n <= n2,
         inners \subseteq inners2, \A p \in inners2 \ inners : p \notin 0..(n - 1),
         NEW T, NEW T2, T \subseteq T2, NEW tk, PlaceTyped(inners, n, T, tk),
         tk.cur \in inners2 \ inners => Place(tk) \notin {"leaf", "split"}
  PROVE  PlaceTyped(inners2, n2, T2, tk)
<1>1. Place(tk) = "sibling" => \E a : tk.old = <<a>> /\ WriteTyped(inners2, n2, T2, a)
  BY PageWidens DEF PlaceTyped, WriteTyped
<1>2. Place(tk) = "splitinner" => PageTyped(inners2, n2, T2, Last(tk.path), tk.copy)
  BY PageWidens DEF PlaceTyped
<1> QED BY <1>1, <1>2 DEF PlaceTyped

LEMMA AfterNone == ASSUME NEW C PROVE After(C, <<>>) = Tree(C)
<1>1. {<<>>[i].id : i \in 1..Len(<<>>)} = {}
  OBVIOUS
<1> QED BY <1>1 DEF After

LEMMA AfterOne == ASSUME NEW C, NEW a PROVE After(C, <<a>>) = Tree(C \cup {a.id})
<1>1. {<<a>>[i].id : i \in 1..Len(<<a>>)} = {a.id}
  OBVIOUS
<1> QED BY <1>1 DEF After

LEMMA AfterTwo == ASSUME NEW C, NEW a, NEW b PROVE After(C, <<a, b>>) = Tree(C \cup {a.id, b.id})
<1> DEFINE ws == <<a, b>>
<1>1. Len(ws) = 2 /\ ws[1] = a /\ ws[2] = b
  OBVIOUS
<1> HIDE DEF ws
<1>2. {ws[i].id : i \in 1..Len(ws)} = {a.id, b.id}
  BY <1>1
<1> QED BY <1>2 DEF After, ws

LEMMA AfterWidens ==
  ASSUME NEW C, NEW C2, C \subseteq C2, NEW ws
  PROVE  After(C, ws) \subseteq After(C2, ws) /\ Tree(C) \subseteq After(C, ws)
BY DEF After, Tree

LEMMA TaskWidens ==
  ASSUME NEW inners, NEW n, NEW C, NEW root, NEW inners2, NEW n2, NEW C2, NEW root2,
         Wider(inners, n, C, root, inners2, n2, C2, root2), C \subseteq 0..(n - 1),
         NEW tk, TaskOK(tk), TaskTyped(inners, n, C, root, tk)
  PROVE  TaskTyped(inners2, n2, C2, root2, tk)
<1>1. /\ n \in Nat /\ n2 \in Nat /\ n <= n2 /\ inners \subseteq inners2 /\ C \subseteq C2
      /\ \A p \in inners2 \ inners : p \notin 0..(n - 1)
  BY DEF Wider
<1>2. /\ tk.pc \in {"put", "mark"} <=> tk.writes # <<>>
      /\ WritesTyped(inners2, n2, C2, tk.writes)
      /\ tk.pc = "mark" => Head(tk.writes).id \in C2
  BY <1>1, WritesWiden DEF TaskTyped
<1>3. tk.path \in Seq(Tree(C2) \cap inners2)
  <2>1. Tree(C) \cap inners \subseteq Tree(C2) \cap inners2
    BY <1>1 DEF Tree
  <2> QED BY <2>1, SeqGrows DEF TaskTyped
<1>4. tk.path # <<>> \/ tk.pc = "descend" \/ (Place(tk) = "newroot" /\ tk.left = 0) => root2 # 0
  BY DEF TaskTyped, Wider
<1>5. tk.buf # NoPage => tk.pc = "header" /\ PageTyped(inners2, n2, Tree(C2), 0, tk.buf)
  <2>1. Tree(C) \subseteq Tree(C2)
    BY <1>1 DEF Tree
  <2> QED BY <1>1, <2>1, PageWidens DEF TaskTyped
<1>6. PlaceTyped(inners2, n2, After(C2, tk.writes), tk)
  <2>1. PlaceTyped(inners, n, After(C, tk.writes), tk)
    BY DEF TaskTyped
  <2>2. ASSUME Place(tk) \in {"leaf", "split"} PROVE tk.cur \notin inners2 \ inners
    <3>1. tk.pc \notin {"put", "mark"}
      BY <2>2 DEF Place, TaskOK, Thens
    <3>2. After(C, tk.writes) = Tree(C)
      BY <3>1, AfterNone DEF TaskTyped
    <3>3. tk.cur \in C
      BY <2>1, <2>2, <3>2 DEF PlaceTyped, Tree
    <3> QED BY <1>1, <3>3
  <2>3. tk.cur \in inners2 \ inners => Place(tk) \notin {"leaf", "split"}
    BY <2>2
  <2>4. After(C, tk.writes) \subseteq After(C2, tk.writes)
    BY <1>1, AfterWidens
  <2> HIDE DEF PlaceTyped
  <2> QED BY <1>1, <2>1, <2>3, <2>4, PlaceWidens
<1> QED BY <1>2, <1>3, <1>4, <1>5, <1>6 DEF TaskTyped

-----------------------------------------------------------------------------
(* Steps that keep the invariant *)

LEMMA CachedBelow ==
  ASSUME NEW inners, Typed(inners) PROVE DOMAIN cache \subseteq 0..(next_dir_page - 1)
BY DEF Typed, PagesTyped, PageTyped

(* A step of t that gives out no page. *)
LEMMA StepTyped ==
  ASSUME NEW inners, Typed(inners), TasksOK, NEW t \in Tasks, TaskStep(t),
         next_dir_page' = next_dir_page, reused' = reused, DOMAIN cache \subseteq DOMAIN cache',
         dirty' \subseteq DOMAIN cache', 0 \in DOMAIN disk',
         root_page' \in Tree(DOMAIN cache') \cup {0}, root_page # 0 => root_page' # 0,
         PagesTyped(inners, next_dir_page, DOMAIN cache', cache'),
         PagesTyped(inners, next_dir_page, DOMAIN cache', disk'),
         TaskTyped(inners, next_dir_page, DOMAIN cache', root_page', task'[t])
  PROVE  Typed(inners)'
<1>1. Wider(inners, next_dir_page, DOMAIN cache, root_page,
            inners, next_dir_page, DOMAIN cache', root_page')
  BY DirectoryAssumption DEF Wider, Typed
<1>2. ASSUME NEW u \in Tasks
      PROVE  TaskTyped(inners, next_dir_page, DOMAIN cache', root_page', task'[u])
  <2>1. CASE u = t
    BY <2>1
  <2>2. CASE u # t
    <3>1. task'[u] = task[u] /\ TaskOK(task[u])
      BY <2>2 DEF TaskStep, TasksOK
    <3>2. TaskTyped(inners, next_dir_page, DOMAIN cache, root_page, task[u])
      BY DEF Typed
    <3> QED BY <1>1, <3>1, <3>2, CachedBelow, TaskWidens
  <2> QED BY <2>1, <2>2
<1> QED BY <1>2 DEF Typed

(* The same for a step that leaves the pages, and the file, alone. *)
LEMMA StayTyped ==
  ASSUME NEW inners, Typed(inners), TasksOK, NEW t \in Tasks, TaskStep(t),
         next_dir_page' = next_dir_page, reused' = reused, cache' = cache, disk' = disk,
         dirty' \subseteq DOMAIN cache,
         root_page' \in Tree(DOMAIN cache) \cup {0}, root_page # 0 => root_page' # 0,
         TaskTyped(inners, next_dir_page, DOMAIN cache, root_page', task'[t])
  PROVE  Typed(inners)'
<1>1. /\ 0 \in DOMAIN disk /\ PagesTyped(inners, next_dir_page, DOMAIN cache, cache)
      /\ PagesTyped(inners, next_dir_page, DOMAIN cache, disk)
  BY DEF Typed
<1> QED BY <1>1, StepTyped

(* A step of t that gives out a directory page. *)
LEMMA AllocTyped ==
  ASSUME NEW inners, Typed(inners), TasksOK, NEW t \in Tasks, TaskStep(t), alloc_dir_page,
         cache' = cache, disk' = disk, dirty' = dirty, root_page' = root_page,
         NEW inners2, inners2 = inners \/ inners2 = inners \cup {next_dir_page},
         TaskTyped(inners2, next_dir_page + 1, DOMAIN cache, root_page, task'[t])
  PROVE  Typed(inners2)'
<1> DEFINE n == next_dir_page
<1>0. n \in Nat \ {0} /\ n < MaxDirPages /\ MaxDirPages \in Nat
  BY DirectoryAssumption DEF alloc_dir_page, Typed
<1>1. n' = n + 1 /\ n' \in 1..MaxDirPages
  BY <1>0 DEF alloc_dir_page
<1>2. DOMAIN cache \subseteq 0..(n - 1) /\ DOMAIN disk \subseteq 0..(n - 1)
  BY DEF Typed, PagesTyped, PageTyped
<1>3. ~reused'
  <2>1. n \notin 0..(n - 1)
    BY <1>0
  <2> QED BY <1>2, <2>1 DEF alloc_dir_page, Typed
<1>4. inners2 \subseteq 1..((n + 1) - 1) /\ \A p \in inners2 \ inners : p \notin 0..(n - 1)
  <2>1. inners \subseteq 1..(n - 1) /\ n \notin 0..(n - 1)
    BY <1>0 DEF Typed
  <2>2. \A p \in 1..(n - 1) : p \in 1..((n + 1) - 1)
    BY <1>0
  <2>3. n \in 1..((n + 1) - 1)
    BY <1>0
  <2> QED BY <2>1, <2>2, <2>3
<1> HIDE DEF n
<1>5. Wider(inners, n, DOMAIN cache, root_page, inners2, n + 1, DOMAIN cache, root_page)
  BY <1>0, <1>4 DEF Wider
<1>6. \A f : PagesTyped(inners, n, DOMAIN cache, f) => PagesTyped(inners2, n + 1, DOMAIN cache, f)
  BY <1>0, <1>4, <1>5, PageWidens DEF PagesTyped, Wider
<1>7. ASSUME NEW u \in Tasks
      PROVE  TaskTyped(inners2, n + 1, DOMAIN cache, root_page, task'[u])
  <2>1. CASE u = t
    BY <2>1 DEF n
  <2>2. CASE u # t
    <3>1. task'[u] = task[u] /\ TaskOK(task[u])
      BY <2>2 DEF TaskStep, TasksOK
    <3>2. TaskTyped(inners, n, DOMAIN cache, root_page, task[u])
      BY DEF Typed, n
    <3> QED BY <1>2, <1>5, <3>1, <3>2, TaskWidens
  <2> QED BY <2>1, <2>2
<1>8. /\ PagesTyped(inners2, n + 1, DOMAIN cache, cache)
      /\ PagesTyped(inners2, n + 1, DOMAIN cache, disk)
      /\ 0 \in DOMAIN disk /\ root_page \in Tree(DOMAIN cache) \cup {0} /\ dirty \subseteq DOMAIN cache
  BY <1>6 DEF Typed, n
<1> QED BY <1>1, <1>3, <1>4, <1>7, <1>8 DEF Typed, n

(* A call that is done or has not come to the directory. *)
LEMMA AwayTyped ==
  ASSUME NEW inners, NEW n, NEW C, NEW root, NEW tk, tk.pc \in {"idle", "done", "place", "root", "first", "found", "flush", "lock", "flushing"},
         tk.writes = <<>>, tk.path = <<>>, tk.buf = NoPage
  PROVE  TaskTyped(inners, n, C, root, tk)
<1>1. <<>> \in Seq(Tree(C) \cap inners)
  OBVIOUS
<1>2. PlaceTyped(inners, n, After(C, tk.writes), tk)
  BY DEF PlaceTyped, Place
<1> QED BY <1>1, <1>2 DEF TaskTyped, WritesTyped, Place

LEMMA ReturnTyped ==
  ASSUME TasksOK, NEW t \in Tasks, NEW res, NEW out, Return(t, res, out),
         NEW inners, NEW n, NEW C, NEW root
  PROVE  TaskStep(t) /\ TaskTyped(inners, n, C, root, task'[t])
BY DoneFields, AwayTyped

-----------------------------------------------------------------------------
(* Changes of a page *)

(* Entries that lead to pages of T. *)
LeadTo(T, es) == \E S : es \in Seq(S) /\ \A e \in S : e.child \in T

LEMMA EntriesTyped ==
  ASSUME NEW inners, NEW n, NEW T, NEW p, NEW page, PageTyped(inners, n, T, p, page), NEW es,
         p \in inners => LeadTo(T, es)
  PROVE  PageTyped(inners, n, T, p, [page EXCEPT !.entries = es])
<1> DEFINE new == [page EXCEPT !.entries = es]
<1>1. /\ DOMAIN new = DOMAIN page /\ new.kind = page.kind
      /\ "next" \in DOMAIN page => new.next = page.next
      /\ "leftmost" \in DOMAIN page => new.leftmost = page.leftmost
      /\ "entries" \in DOMAIN page => new.entries = es
  BY DEF PageTyped
<1> HIDE DEF new
<1>2. new.kind = "inner" => LeadTo(T, new.entries)
  BY <1>1 DEF PageTyped
<1>3. PageTyped(inners, n, T, p, new)
  BY <1>1, <1>2 DEF PageTyped, LeadTo
<1> QED BY <1>3 DEF new

LEMMA PrevTyped ==
  ASSUME NEW inners, NEW n, NEW T, NEW p, NEW page, PageTyped(inners, n, T, p, page), NEW prev
  PROVE  PageTyped(inners, n, T, p, set_prev_page(page, prev))
<1> DEFINE new == set_prev_page(page, prev)
<1>1. /\ DOMAIN new = DOMAIN page /\ new.kind = page.kind
      /\ "next" \in DOMAIN page => new.next = page.next
      /\ "leftmost" \in DOMAIN page => new.leftmost = page.leftmost
      /\ "entries" \in DOMAIN page => new.entries = page.entries
  BY DEF PageTyped, set_prev_page
<1> HIDE DEF new
<1>2. PageTyped(inners, n, T, p, new)
  BY <1>1 DEF PageTyped
<1> QED BY <1>2 DEF new

LEMMA NoneLead == ASSUME NEW T PROVE LeadTo(T, <<>>)
<1>1. PICK S : S = {}
  OBVIOUS
<1>2. <<>> \in Seq(S) /\ \A e \in S : e.child \in T
  BY <1>1
<1> HIDE <1>1
<1> QED BY <1>2 DEF LeadTo

LEMMA PutLeads ==
  ASSUME NEW T, NEW es, LeadTo(T, es), NEW sep, NEW child \in T, NEW max
  PROVE  LeadTo(T, PutEntry(es, max, InnerEntry(sep, child)).entries)
<1> DEFINE e == InnerEntry(sep, child)
<1>1. PICK S : es \in Seq(S) /\ \A x \in S : x.child \in T
  BY DEF LeadTo
<1>2. e.child \in T
  BY DEF InnerEntry
<1> HIDE DEF e
<1>3. es \in Seq(S \cup {e}) /\ \A x \in S \cup {e} : x.child \in T
  BY <1>1, <1>2, SeqGrows
<1>4. PutEntry(es, max, e).entries \in Seq(S \cup {e})
  BY <1>3, PutKeeps
<1> QED BY <1>3, <1>4 DEF LeadTo, e

LEMMA SeparatorTyped ==
  ASSUME NEW inners, NEW n, NEW T, NEW p \in inners, NEW page, PageTyped(inners, n, T, p, page),
         p # 0, NEW sep, NEW child \in T
  PROVE  PageTyped(inners, n, T, p, insert_separator(page, sep, child).page)
<1> DEFINE es == PutEntry(page.entries, InnerMax, InnerEntry(sep, child)).entries
<1>1. LeadTo(T, page.entries)
  BY DEF PageTyped, LeadTo
<1>2. LeadTo(T, es)
  BY <1>1, PutLeads
<1>3. insert_separator(page, sep, child).page = [page EXCEPT !.entries = es]
  BY DEF insert_separator
<1> HIDE DEF es
<1> QED BY <1>2, <1>3, EntriesTyped

LEMMA FindChildTyped ==
  ASSUME NEW inners, NEW n, NEW T, NEW p, NEW page, PageTyped(inners, n, T, p, page),
         page.kind = "inner", NEW k
  PROVE  find_child(page, k) \in T
<1> DEFINE es == page.entries
<1>1. page.leftmost \in T
  BY DEF PageTyped
<1>2. PICK S : es \in Seq(S) /\ \A e \in S : e.child \in T
  BY DEF PageTyped
<1>3. Len(es) \in Nat
  BY <1>2, LenProperties
<1>4. CASE Len(es) = 0 \/ k < es[1].key
  BY <1>1, <1>4 DEF find_child
<1>5. CASE ~(Len(es) = 0 \/ k < es[1].key)
  <2>1. SearchFloor(es, k) \in 0..(Len(es) - 1)
    BY <1>3, <1>5, FloorIn
  <2>2. SearchFloor(es, k) + 1 \in 1..Len(es)
    BY <1>3, <2>1
  <2>3. find_child(page, k) = es[SearchFloor(es, k) + 1].child
    BY <1>5 DEF find_child
  <2> HIDE DEF es
  <2> QED BY <1>2, <2>2, <2>3, ElementOfSeq
<1> QED BY <1>4, <1>5

(* The halves of a full inner page and an entry. *)
LEMMA HalvesLead ==
  ASSUME NEW T, NEW es, LeadTo(T, es), Len(es) > 0, NEW sep, NEW child \in T
  PROVE  LET half == Halves(es, InnerEntry(sep, child))
         IN  LeadTo(T, half[1]) /\ LeadTo(T, Tail(half[2])) /\ half[2][1].child \in T
<1> DEFINE e == InnerEntry(sep, child)
           all == PutEntry(es, Len(es) + 1, e).entries
           mid == Len(all) \div 2
           half == Halves(es, e)
<1>1. PICK S : es \in Seq(S) /\ \A x \in S : x.child \in T
  BY DEF LeadTo
<1>2. e.child \in T
  BY DEF InnerEntry
<1> HIDE DEF e
<1> DEFINE E == S \cup {e}
<1>3. es \in Seq(E) /\ e \in E /\ \A x \in E : x.child \in T
  BY <1>1, <1>2, SeqGrows
<1> HIDE DEF E
<1>4. half[1] \in Seq(E) /\ half[2] \in Seq(E)
  BY <1>3, HalvesOK
<1>5. Len(es) \in Nat \ {0}
  BY <1>3, LenProperties
<1>6. all \in Seq(E) /\ Len(all) \in Nat
  BY <1>3, PutKeeps, LenProperties
<1>7. Len(all) > 0
  <2>1. CASE Search(es, e.key).found
    BY <1>5, <2>1 DEF PutEntry
  <2>2. CASE ~Search(es, e.key).found
    <3>1. all = InsertAt(es, Search(es, e.key).pos + 1, e)
      BY <1>5, <2>2 DEF PutEntry
    <3>2. Search(es, e.key).pos + 1 \in 1..(Len(es) + 1)
      BY <1>5, SearchFinds
    <3>3. Len(all) = Len(es) + 1
      BY <1>3, <3>1, <3>2, InsertShape DEF Shifted
    <3> QED BY <1>5, <3>3
  <2> QED BY <2>1, <2>2
<1> HIDE DEF all
<1>8. half[2] # <<>>
  <2>1. mid \in Nat /\ mid + 1 <= Len(all)
    BY <1>6, <1>7
  <2>2. half[2] = SubSeq(all, mid + 1, Len(all))
    BY DEF Halves, all
  <2> HIDE DEF mid, half
  <2>3. Len(SubSeq(all, mid + 1, Len(all))) = Len(all) - (mid + 1) + 1
    BY <1>6, <2>1, SubSeqProperties
  <2>4. Len(half[2]) > 0
    BY <1>6, <2>1, <2>2, <2>3
  <2> QED BY <2>4, EmptySeq
<1> HIDE DEF half
<1>9. half[2][1] \in E /\ Tail(half[2]) \in Seq(E)
  BY <1>4, <1>8, HeadTailProperties
<1> QED BY <1>3, <1>4, <1>9 DEF LeadTo, half, e

-----------------------------------------------------------------------------
(* Every action keeps the invariant *)

(* A call that has nothing to write. *)
LEMMA HereTyped ==
  ASSUME NEW inners, Typed(inners), NEW t \in Tasks, task[t].pc \notin {"put", "mark"}
  PROVE  /\ task[t].writes = <<>> /\ Place(task[t]) = task[t].pc
         /\ PlaceTyped(inners, next_dir_page, Tree(DOMAIN cache), task[t])
         /\ task[t].path \in Seq(Tree(DOMAIN cache) \cap inners)
         /\ task[t].path # <<>> \/ task[t].pc = "descend" => root_page # 0
         /\ task[t].pc = "newroot" /\ task[t].left = 0 => root_page # 0
         /\ task[t].buf # NoPage =>
              task[t].pc = "header" /\ PageTyped(inners, next_dir_page, Tree(DOMAIN cache), 0, task[t].buf)
<1>1. TaskTyped(inners, next_dir_page, DOMAIN cache, root_page, task[t])
  BY DEF Typed
<1>2. task[t].writes = <<>> /\ Place(task[t]) = task[t].pc
  BY <1>1 DEF TaskTyped, Place
<1> QED BY <1>1, <1>2, AfterNone DEF TaskTyped

(* It reads the page it is at from the cache. *)
LEMMA CachedTyped ==
  ASSUME NEW inners, Typed(inners), NEW t \in Tasks, task[t].pc \notin {"put", "mark", "header"},
         NEW p \in Tree(DOMAIN cache)
  PROVE  /\ task[t].buf = NoPage /\ Page(t, p) = cache[p] /\ Has(t, p)
         /\ PageTyped(inners, next_dir_page, Tree(DOMAIN cache), p, cache[p])
         /\ Fill(t, p) => cache' = cache /\ raced' = raced
BY HereTyped DEF Typed, PagesTyped, Page, Has, Fill, Tree

(* It moves on, and has nothing to write. *)
LEMMA MoveTyped ==
  ASSUME NEW inners, NEW n, NEW C, NEW root, NEW tk, tk.pc \notin {"put", "mark"}, tk.writes = <<>>,
         tk.path \in Seq(Tree(C) \cap inners), tk.buf = NoPage,
         tk.path # <<>> \/ tk.pc = "descend" \/ (tk.pc = "newroot" /\ tk.left = 0) => root # 0,
         PlaceTyped(inners, n, Tree(C), tk)
  PROVE  TaskTyped(inners, n, C, root, tk)
<1>1. Place(tk) = tk.pc
  BY DEF Place
<1> QED BY <1>1, AfterNone DEF TaskTyped, WritesTyped

(* It has pages to write. *)
LEMMA PutTyped ==
  ASSUME NEW inners, NEW n, NEW C, NEW root, NEW tk, tk.pc = "put", tk.writes # <<>>,
         WritesTyped(inners, n, C, tk.writes),
         tk.path \in Seq(Tree(C) \cap inners), tk.buf = NoPage,
         tk.path # <<>> \/ (tk.then = "newroot" /\ tk.left = 0) => root # 0,
         PlaceTyped(inners, n, After(C, tk.writes), tk)
  PROVE  TaskTyped(inners, n, C, root, tk)
<1>1. Place(tk) = tk.then
  BY DEF Place
<1> QED BY <1>1 DEF TaskTyped

LEMMA OneTyped ==
  ASSUME NEW inners, NEW n, NEW C, NEW p, NEW page, PageTyped(inners, n, Tree(C), p, page), NEW base
  PROVE  LET ws == <<W(p, page, base)>>
         IN  WritesTyped(inners, n, C, ws) /\ ws # <<>> /\ After(C, ws) = Tree(C \cup {p})
<1> DEFINE w == W(p, page, base)
<1>1. w.id = p /\ WriteTyped(inners, n, Tree(C), w)
  BY DEF W, WriteTyped
<1> HIDE DEF w
<1>2. WritesTyped(inners, n, C, <<w>>) /\ <<w>> # <<>>
  BY <1>1 DEF WritesTyped
<1> QED BY <1>1, <1>2, AfterOne DEF w

LEMMA TwoTyped ==
  ASSUME NEW inners, NEW n, NEW C, NEW a, NEW b, WriteTyped(inners, n, Tree(C), a),
         WriteTyped(inners, n, Tree(C \cup {a.id}), b)
  PROVE  LET ws == <<a, b>>
         IN  WritesTyped(inners, n, C, ws) /\ ws # <<>> /\ After(C, ws) = Tree(C \cup {a.id, b.id})
<1>1. WritesTyped(inners, n, C, <<a, b>>) /\ <<a, b>> # <<>>
  BY DEF WritesTyped
<1> QED BY <1>1, AfterTwo

(* A page that is written is the last of its call. *)
LEMMA LastWriteTyped ==
  ASSUME NEW inners, NEW n, NEW C, NEW root, NEW tk, TaskOK(tk), NEW p, NEW page, NEW base,
         PageTyped(inners, n, Tree(C), p, page), tk.path \in Seq(Tree(C) \cap inners),
         tk.path # <<>> => root # 0
  PROVE  TaskTyped(inners, n, C, root, Writing(tk, <<W(p, page, base)>>, "return"))
<1> DEFINE ws == <<W(p, page, base)>>
           new == Writing(tk, ws, "return")
<1>1. WritesTyped(inners, n, C, ws) /\ ws # <<>>
  BY OneTyped
<1> HIDE DEF ws
<1>2. new.pc = "put" /\ new.writes = ws /\ new.then = "return" /\ new.buf = NoPage /\ new.path = tk.path
  BY WritingFields
<1> HIDE DEF new
<1>3. PlaceTyped(inners, n, After(C, new.writes), new)
  BY <1>2 DEF PlaceTyped, Place
<1>4. TaskTyped(inners, n, C, root, new)
  BY <1>1, <1>2, <1>3, PutTyped
<1> QED BY <1>4 DEF new, ws

LEMMA SameDirty ==
  ASSUME NEW inners, Typed(inners)
  PROVE  /\ dirty \subseteq DOMAIN cache /\ root_page \in Tree(DOMAIN cache) \cup {0}
         /\ 0 \in DOMAIN disk
BY DEF Typed

(* Only the header may not be in the cache. *)
LEMMA ReadFileTyped ==
  ASSUME NEW inners, Typed(inners), TasksOK, NEW t \in Tasks, ReadFile(t)
  PROVE  Typed(inners)'
<1> DEFINE tk == task[t]
           new == task'[t]
<1>1. PICK p \in Wanted(t) :
        /\ ~Has(t, p)
        /\ task' = [task EXCEPT ![t].buf = OnDisk(p)] \/ ReturnError(t, "IOError")
        /\ dirVars' = dirVars /\ reused' = reused
  BY DEF ReadFile
<1>2. tk.pc \in {"descend", "leaf", "sibling", "ancestors", "header"} /\ tk.pc \notin {"put", "mark"}
  BY <1>1 DEF Wanted
<1>3. tk.pc = "header" /\ p = 0
  <2>1. CASE tk.pc \in {"descend", "leaf", "sibling"}
    <3>1. p = tk.cur /\ tk.cur \in Tree(DOMAIN cache)
      BY <1>1, <1>2, <2>1, HereTyped DEF Wanted, PlaceTyped
    <3> QED BY <1>1, <2>1, <3>1, CachedTyped
  <2>2. CASE tk.pc = "ancestors"
    <3>1. p = Last(tk.path)
      BY <1>1, <2>2 DEF Wanted
    <3>2. tk.path \in Seq(Tree(DOMAIN cache) \cap inners) /\ tk.path # <<>>
      BY <1>2, <2>2, HereTyped DEF PlaceTyped
    <3>3. p \in Tree(DOMAIN cache)
      BY <3>1, <3>2, PathEnds
    <3> QED BY <1>1, <2>2, <3>3, CachedTyped
  <2>3. CASE tk.pc = "header"
    BY <1>1, <2>3 DEF Wanted
  <2> QED BY <1>2, <2>1, <2>2, <2>3
<1>4. TaskStep(t) /\ TaskTyped(inners, next_dir_page, DOMAIN cache, root_page, new)
  <2>1. CASE ReturnError(t, "IOError")
    BY <2>1, ReturnTyped DEF ReturnError
  <2>2. CASE task' = [task EXCEPT ![t].buf = OnDisk(0)]
    <3>1. OnDisk(0) = disk[0] /\ PageTyped(inners, next_dir_page, Tree(DOMAIN cache), 0, OnDisk(0))
      BY DEF OnDisk, Typed, PagesTyped
    <3> DEFINE page == OnDisk(0)
    <3> HIDE DEF page
    <3>2. /\ TaskStep(t) /\ new.buf = page /\ new.pc = tk.pc /\ new.path = tk.path /\ new.writes = tk.writes
          /\ new.cur = tk.cur
      BY <2>2 DEF page, TasksOK, TaskStep, TaskOK, NoTask
    <3>3. /\ tk.writes = <<>> /\ tk.path \in Seq(Tree(DOMAIN cache) \cap inners)
          /\ tk.path # <<>> => root_page # 0
          /\ tk.cur \in Tree(DOMAIN cache)
      BY <1>2, <1>3, HereTyped DEF PlaceTyped
    <3> HIDE DEF tk, new
    <3>4. Place(new) = "header"
      BY <1>3, <3>2 DEF Place
    <3>5. PlaceTyped(inners, next_dir_page, Tree(DOMAIN cache), new)
      BY <3>2, <3>3, <3>4 DEF PlaceTyped
    <3>6. WritesTyped(inners, next_dir_page, DOMAIN cache, new.writes)
      BY <3>2, <3>3 DEF WritesTyped
    <3> QED BY <1>3, <3>1, <3>2, <3>3, <3>4, <3>5, <3>6, AfterNone DEF TaskTyped, page
  <2> QED BY <1>1, <1>3, <2>1, <2>2
<1> HIDE DEF new
<1>5. UNCHANGED <<cache, dirty, next_dir_page, root_page, disk>>
  BY <1>1 DEF dirVars
<1> QED BY <1>1, <1>4, <1>5, SameDirty, StayTyped DEF new

LEMMA HeadTyped ==
  ASSUME NEW inners, NEW n, NEW C, NEW ws, WritesTyped(inners, n, C, ws), ws # <<>>
  PROVE  WriteTyped(inners, n, Tree(C), Head(ws))
<1>1. \A a, b : Head(<<a>>) = a /\ Head(<<a, b>>) = a
  OBVIOUS
<1> QED BY <1>1 DEF WritesTyped

(* write_page, first half. *)
LEMMA CachePutTyped ==
  ASSUME NEW inners, Typed(inners), TasksOK, NEW t \in Tasks, CachePut(t)
  PROVE  Typed(inners)'
<1> DEFINE tk == task[t]
           new == task'[t]
           w == Head(tk.writes)
           C == DOMAIN cache
           D == DOMAIN cache'
           n == next_dir_page
<1>1. /\ tk.pc = "put" /\ cache' = With(cache, w.id, w.page) /\ task' = [task EXCEPT ![t].pc = "mark"]
      /\ n' = n /\ reused' = reused /\ dirty' = dirty /\ disk' = disk /\ root_page' = root_page
  BY DEF CachePut
<1>2. TaskTyped(inners, n, C, root_page, tk) /\ TaskOK(tk)
  BY DEF Typed, TasksOK
<1>3. WriteTyped(inners, n, Tree(C), w)
  BY <1>1, <1>2, HeadTyped DEF TaskTyped
<1> HIDE DEF w
<1>4. /\ D = C \cup {w.id} /\ cache'[w.id] = w.page
      /\ \A p \in C : p # w.id => cache'[p] = cache[p]
  BY <1>1 DEF With
<1>5. Wider(inners, n, C, root_page, inners, n, D, root_page)
  BY <1>4, DirectoryAssumption DEF Wider, Typed
<1>6. Tree(C) \subseteq Tree(D) /\ n \in Nat
  BY <1>4, DirectoryAssumption DEF Tree, Typed
<1>7. PagesTyped(inners, n, D, cache')
  <2> SUFFICES ASSUME NEW p \in D PROVE PageTyped(inners, n, Tree(D), p, cache'[p])
    BY DEF PagesTyped
  <2>1. PageTyped(inners, n, Tree(C), p, cache'[p])
    BY <1>3, <1>4 DEF WriteTyped, Typed, PagesTyped
  <2> QED BY <1>6, <2>1, PageWidens
<1>8. PagesTyped(inners, n, D, disk')
  <2> SUFFICES ASSUME NEW p \in DOMAIN disk PROVE PageTyped(inners, n, Tree(D), p, disk[p])
    BY <1>1 DEF PagesTyped
  <2>1. PageTyped(inners, n, Tree(C), p, disk[p])
    BY DEF Typed, PagesTyped
  <2> QED BY <1>6, <2>1, PageWidens
<1>9. TaskStep(t) /\ TaskTyped(inners, n, D, root_page, new)
  <2>1. TaskTyped(inners, n, D, root_page, tk)
    BY <1>2, <1>5, CachedBelow, TaskWidens
  <2>2. /\ TaskStep(t) /\ new.pc = "mark" /\ new.writes = tk.writes /\ new.path = tk.path
        /\ new.buf = tk.buf /\ new.then = tk.then /\ new.left = tk.left /\ new.cur = tk.cur
        /\ new.child = tk.child /\ new.copy = tk.copy /\ new.old = tk.old
    BY <1>1 DEF TasksOK, TaskStep, TaskOK, NoTask
  <2>3. Head(tk.writes).id \in D
    BY <1>4 DEF w
  <2> HIDE DEF tk, new, C, D, n
  <2>4. Place(new) = Place(tk) /\ tk.buf = NoPage
    BY <1>1, <2>1, <2>2 DEF Place, TaskTyped
  <2>5. PlaceTyped(inners, n, After(D, new.writes), new)
    BY <2>1, <2>2, <2>4 DEF PlaceTyped, TaskTyped
  <2>6. TaskTyped(inners, n, D, root_page, new)
    BY <1>1, <2>1, <2>2, <2>3, <2>4, <2>5 DEF TaskTyped
  <2> QED BY <2>2, <2>6
<1>10. dirty \subseteq D /\ 0 \in DOMAIN disk /\ root_page \in Tree(D) \cup {0}
  BY <1>4, <1>6, SameDirty
<1> HIDE DEF new
<1> QED BY <1>1, <1>4, <1>7, <1>8, <1>9, <1>10, StepTyped DEF new

(* write_page, second half. *)
LEMMA DirtyMarkTyped ==
  ASSUME NEW inners, Typed(inners), TasksOK, NEW t \in Tasks, DirtyMark(t)
  PROVE  Typed(inners)'
<1> DEFINE tk == task[t]
           new == task'[t]
           C == DOMAIN cache
           n == next_dir_page
<1>1. /\ tk.pc = "mark" /\ dirty' = dirty \cup {Head(tk.writes).id}
      /\ n' = n /\ reused' = reused /\ cache' = cache /\ disk' = disk /\ root_page' = root_page
  BY DEF DirtyMark, flagVars
<1>2. TaskTyped(inners, n, C, root_page, tk) /\ TaskOK(tk)
  BY DEF Typed, TasksOK
<1>3. /\ tk.writes # <<>> /\ Head(tk.writes).id \in C /\ WritesTyped(inners, n, C, tk.writes)
      /\ tk.path \in Seq(Tree(C) \cap inners) /\ tk.buf = NoPage /\ Place(tk) = tk.then
      /\ tk.path # <<>> \/ (tk.then = "newroot" /\ tk.left = 0) => root_page # 0
      /\ PlaceTyped(inners, n, After(C, tk.writes), tk)
  BY <1>1, <1>2 DEF TaskTyped, Place
<1>4. TaskStep(t) /\ TaskTyped(inners, n, C, root_page, new)
  <2>1. CASE \E a, b : tk.writes = <<a, b>>
    <3>1. PICK a, b : /\ tk.writes = <<a, b>> /\ WriteTyped(inners, n, Tree(C \cup {a.id}), b)
      <4>1. \A a, b, c : <<a, b>> # <<c>> /\ <<a, b>> # <<>>
        OBVIOUS
      <4> QED BY <1>3, <2>1, <4>1 DEF WritesTyped
    <3>2. Len(tk.writes) > 1 /\ Head(tk.writes) = a /\ Tail(tk.writes) = <<b>>
      BY <3>1
    <3>3. task' = [task EXCEPT ![t].pc = "put", ![t].writes = Tail(@)]
      BY <3>2 DEF DirtyMark
    <3>4. /\ TaskStep(t) /\ new.pc = "put" /\ new.writes = <<b>> /\ new.path = tk.path
          /\ new.buf = tk.buf /\ new.then = tk.then /\ new.left = tk.left /\ new.cur = tk.cur
          /\ new.child = tk.child /\ new.copy = tk.copy /\ new.old = tk.old
      BY <3>2, <3>3 DEF TasksOK, TaskStep, TaskOK, NoTask
    <3> HIDE DEF tk, new, C, n
    <3>5. C \cup {a.id} = C /\ C \cup {a.id, b.id} = C \cup {b.id}
      BY <1>3, <3>2
    <3>6. After(C, tk.writes) = After(C, <<b>>)
      <4>1. After(C, <<b>>) = Tree(C \cup {b.id})
        BY AfterOne
      <4>2. After(C, <<a, b>>) = Tree(C \cup {a.id, b.id})
        BY AfterTwo
      <4> QED BY <3>1, <3>5, <4>1, <4>2
    <3>7. WritesTyped(inners, n, C, <<b>>) /\ <<b>> # <<>>
      BY <3>1, <3>5 DEF WritesTyped
    <3>8. Place(new) = tk.then
      BY <3>4 DEF Place
    <3>9. PlaceTyped(inners, n, After(C, new.writes), new)
      BY <1>3, <3>4, <3>6, <3>8 DEF PlaceTyped
    <3>10. TaskTyped(inners, n, C, root_page, new)
      BY <1>3, <3>4, <3>7, <3>9, PutTyped
    <3> QED BY <3>4, <3>10
  <2>2. CASE ~\E a, b : tk.writes = <<a, b>>
    <3>1. PICK a : tk.writes = <<a>>
      BY <1>3, <2>2 DEF WritesTyped
    <3>2. ~(Len(tk.writes) > 1) /\ Head(tk.writes) = a
      BY <3>1
    <3>3. CASE tk.then = "return"
      <4>1. Return(t, "ok", <<>>)
        BY <3>2, <3>3 DEF DirtyMark
      <4> QED BY <4>1, ReturnTyped
    <3>4. CASE tk.then # "return"
      <4>1. task' = [task EXCEPT ![t].pc = task[t].then, ![t].writes = <<>>]
        BY <3>2, <3>4 DEF DirtyMark
      <4>2. /\ TaskStep(t) /\ new.pc = tk.then /\ new.writes = <<>> /\ new.path = tk.path
            /\ new.buf = tk.buf /\ new.left = tk.left /\ new.cur = tk.cur
            /\ new.child = tk.child /\ new.copy = tk.copy /\ new.old = tk.old
        BY <4>1 DEF TasksOK, TaskStep, TaskOK, NoTask
      <4>3. tk.then \in Thens
        BY <1>2 DEF TaskOK
      <4> HIDE DEF tk, new, C, n
      <4>4. new.pc \notin {"put", "mark", "descend"} /\ Place(new) = tk.then
        BY <4>2, <4>3 DEF Thens, Place
      <4>5. After(C, tk.writes) = Tree(C)
        <5>1. C \cup {a.id} = C
          BY <1>3, <3>2
        <5> QED BY <3>1, <5>1, AfterOne
      <4>6. PlaceTyped(inners, n, Tree(C), new)
        BY <1>3, <4>2, <4>4, <4>5 DEF PlaceTyped
      <4>7. TaskTyped(inners, n, C, root_page, new)
        BY <1>3, <4>2, <4>4, <4>6, MoveTyped
      <4> QED BY <4>2, <4>7
    <3> QED BY <3>3, <3>4
  <2> QED BY <2>1, <2>2
<1>5. dirty' \subseteq C
  BY <1>1, <1>3, SameDirty
<1> HIDE DEF new
<1> QED BY <1>1, <1>4, <1>5, SameDirty, StayTyped DEF new

LEMMA ReadRootTyped ==
  ASSUME NEW inners, Typed(inners), TasksOK, NEW t \in Tasks, ReadRoot(t)
  PROVE  Typed(inners)'
<1> DEFINE tk == task[t]
           new == task'[t]
           C == DOMAIN cache
           n == next_dir_page
<1>1. /\ tk.pc = "root" /\ n' = n /\ reused' = reused /\ cache' = cache /\ disk' = disk
      /\ root_page' = root_page /\ dirty' = dirty
  BY DEF ReadRoot, dirVars, flagVars
<1>2. /\ tk.writes = <<>> /\ tk.path \in Seq(Tree(C) \cap inners) /\ tk.buf = NoPage
      /\ tk.path # <<>> => root_page # 0
  BY <1>1, HereTyped
<1>3. TaskStep(t) /\ TaskTyped(inners, n, C, root_page, new)
  <2>1. CASE root_page # 0
    <3>1. task' = [task EXCEPT ![t].pc = "descend", ![t].cur = root_page, ![t].root = root_page]
      BY <2>1 DEF ReadRoot
    <3>2. /\ TaskStep(t) /\ new.pc = "descend" /\ new.cur = root_page /\ new.writes = tk.writes
          /\ new.path = tk.path /\ new.buf = tk.buf
      BY <3>1 DEF TasksOK, TaskStep, TaskOK, NoTask
    <3>3. root_page \in Tree(C)
      BY <2>1, SameDirty
    <3> HIDE DEF tk, new, C, n
    <3>4. PlaceTyped(inners, n, Tree(C), new)
      BY <3>2, <3>3 DEF PlaceTyped, Place
    <3> QED BY <1>2, <2>1, <3>2, <3>4, MoveTyped
  <2>2. CASE task' = [task EXCEPT ![t].pc = "first"]
    <3>1. /\ TaskStep(t) /\ new.pc = "first" /\ new.writes = tk.writes
          /\ new.path = tk.path /\ new.buf = tk.buf
      BY <2>2 DEF TasksOK, TaskStep, TaskOK, NoTask
    <3> HIDE DEF tk, new, C, n
    <3>2. PlaceTyped(inners, n, Tree(C), new)
      BY <3>1 DEF PlaceTyped, Place
    <3> QED BY <1>2, <3>1, <3>2, MoveTyped
  <2>3. CASE Return(t, "PageNotFound", <<>>)
    BY <2>3, ReturnTyped
  <2> QED BY <2>1, <2>2, <2>3 DEF ReadRoot
<1> HIDE DEF new
<1> QED BY <1>1, <1>3, SameDirty, StayTyped DEF new

LEMMA DescendTyped ==
  ASSUME NEW inners, Typed(inners), TasksOK, NEW t \in Tasks, Descend(t)
  PROVE  Typed(inners)'
<1> DEFINE tk == task[t]
           new == task'[t]
           C == DOMAIN cache
           n == next_dir_page
           page == Page(t, tk.cur)
<1>1. /\ tk.pc = "descend" /\ Fill(t, tk.cur) /\ n' = n /\ reused' = reused /\ disk' = disk
      /\ root_page' = root_page /\ dirty' = dirty
  BY DEF Descend
<1>2. /\ tk.writes = <<>> /\ tk.path \in Seq(Tree(C) \cap inners) /\ tk.buf = NoPage
      /\ root_page # 0 /\ tk.cur \in Tree(C)
  BY <1>1, HereTyped DEF PlaceTyped
<1>3. PageTyped(inners, n, Tree(C), tk.cur, page) /\ cache' = cache
  BY <1>1, <1>2, CachedTyped
<1>4. TaskStep(t) /\ TaskTyped(inners, n, C, root_page, new)
  <2>1. CASE page.kind = "inner"
    <3> DEFINE child == find_child(page, tk.key)
    <3>1. task' = [task EXCEPT ![t].cur = child, ![t].path = Append(@, task[t].cur), ![t].buf = NoPage]
      BY <2>1 DEF Descend
    <3>2. child \in Tree(C) /\ tk.cur \in Tree(C) \cap inners
      <4>1. child \in Tree(C)
        BY <1>3, <2>1, FindChildTyped
      <4>2. tk.cur \in inners
        BY <1>2, <1>3, <2>1 DEF PageTyped, Tree
      <4> QED BY <1>2, <4>1, <4>2
    <3> HIDE DEF child, page
    <3>3. /\ TaskStep(t) /\ new.pc = "descend" /\ new.cur = child /\ new.writes = tk.writes
          /\ new.path = Append(tk.path, tk.cur) /\ new.buf = NoPage
      BY <1>1, <3>1 DEF TasksOK, TaskStep, TaskOK, NoTask
    <3> HIDE DEF tk, new, C, n
    <3>4. new.path \in Seq(Tree(C) \cap inners)
      BY <1>2, <3>2, <3>3, AppendProperties
    <3>5. PlaceTyped(inners, n, Tree(C), new)
      BY <3>2, <3>3 DEF PlaceTyped, Place
    <3> QED BY <1>2, <3>3, <3>4, <3>5, MoveTyped
  <2>2. CASE page.kind = "leaf"
    <3>1. task' = [task EXCEPT ![t].pc = "leaf", ![t].buf = NoPage]
      BY <2>2 DEF Descend
    <3>2. tk.cur \notin inners
      BY <1>2, <1>3, <2>2 DEF PageTyped, Tree
    <3> HIDE DEF page
    <3>3. /\ TaskStep(t) /\ new.pc = "leaf" /\ new.cur = tk.cur /\ new.writes = tk.writes
          /\ new.path = tk.path /\ new.buf = NoPage
      BY <3>1 DEF TasksOK, TaskStep, TaskOK, NoTask
    <3> HIDE DEF tk, new, C, n
    <3>4. PlaceTyped(inners, n, Tree(C), new)
      BY <1>2, <3>2, <3>3 DEF PlaceTyped, Place
    <3> QED BY <1>2, <3>3, <3>4, MoveTyped
  <2>3. CASE Return(t, "PageCorruption", <<>>)
    BY <2>3, ReturnTyped
  <2> QED BY <2>1, <2>2, <2>3 DEF Descend
<1> HIDE DEF new
<1> QED BY <1>1, <1>3, <1>4, SameDirty, StayTyped DEF new

LEMMA LookupLeafTyped ==
  ASSUME NEW inners, Typed(inners), TasksOK, NEW t \in Tasks, LookupLeaf(t)
  PROVE  Typed(inners)'
<1> DEFINE tk == task[t]
           new == task'[t]
           C == DOMAIN cache
           n == next_dir_page
<1>1. /\ tk.pc = "leaf" /\ n' = n /\ reused' = reused /\ cache' = cache /\ disk' = disk
      /\ root_page' = root_page /\ dirty' = dirty
  BY DEF LookupLeaf, dirVars, flagVars
<1>2. /\ tk.writes = <<>> /\ tk.path \in Seq(Tree(C) \cap inners) /\ tk.buf = NoPage
      /\ tk.path # <<>> => root_page # 0
  BY <1>1, HereTyped
<1>3. TaskStep(t) /\ TaskTyped(inners, n, C, root_page, new)
  <2>1. CASE Return(t, "PageNotFound", <<>>)
    BY <2>1, ReturnTyped
  <2>2. ASSUME NEW loc, task' = [task EXCEPT ![t].pc = "found", ![t].loc = loc]
        PROVE  TaskStep(t) /\ TaskTyped(inners, n, C, root_page, new)
    <3>1. /\ TaskStep(t) /\ new.pc = "found" /\ new.writes = tk.writes
          /\ new.path = tk.path /\ new.buf = tk.buf
      BY <2>2 DEF TasksOK, TaskStep, TaskOK, NoTask
    <3> HIDE DEF tk, new, C, n
    <3>2. PlaceTyped(inners, n, Tree(C), new)
      BY <3>1 DEF PlaceTyped, Place
    <3> QED BY <1>2, <3>1, <3>2, MoveTyped
  <2> QED BY <2>1, <2>2 DEF LookupLeaf
<1> HIDE DEF new
<1> QED BY <1>1, <1>3, SameDirty, StayTyped DEF new

(* The page of a call that is at its leaf. *)
LEMMA LeafHere ==
  ASSUME NEW inners, Typed(inners), TasksOK, NEW t \in Tasks, task[t].pc = "leaf"
  PROVE  LET tk == task[t]
             page == Page(t, tk.cur)
         IN  /\ TaskOK(tk) /\ tk.writes = <<>> /\ tk.path \in Seq(Tree(DOMAIN cache) \cap inners)
             /\ tk.buf = NoPage
             /\ tk.path # <<>> => root_page # 0
             /\ tk.cur \in Tree(DOMAIN cache) /\ tk.cur \notin inners
             /\ PageTyped(inners, next_dir_page, Tree(DOMAIN cache), tk.cur, page)
             /\ "next" \in DOMAIN page /\ page.next \in Tree(DOMAIN cache) \cup {0}
<1>1. /\ task[t].writes = <<>> /\ task[t].path \in Seq(Tree(DOMAIN cache) \cap inners)
      /\ task[t].buf = NoPage
      /\ task[t].path # <<>> => root_page # 0
      /\ task[t].cur \in Tree(DOMAIN cache) /\ task[t].cur \notin inners
  BY HereTyped DEF PlaceTyped
<1>2. PageTyped(inners, next_dir_page, Tree(DOMAIN cache), task[t].cur, Page(t, task[t].cur))
  BY <1>1, CachedTyped
<1>3. Page(t, task[t].cur).kind = "leaf"
  BY <1>1, <1>2 DEF PageTyped, Tree
<1> QED BY <1>1, <1>2, <1>3 DEF PageTyped, TasksOK

LEMMA ChangeLeafTyped ==
  ASSUME NEW inners, Typed(inners), TasksOK, NEW t \in Tasks, ChangeLeaf(t)
  PROVE  Typed(inners)'
<1> DEFINE tk == task[t]
           new == task'[t]
           C == DOMAIN cache
           n == next_dir_page
           page == Page(t, tk.cur)
           done == IF tk.call.op = "update" THEN update_entry(page, tk.key, tk.loc)
                   ELSE delete_by_key(page, tk.key)
           ws == <<W(tk.cur, done.page, page)>>
<1>1. /\ tk.pc = "leaf" /\ n' = n /\ reused' = reused /\ cache' = cache /\ disk' = disk
      /\ root_page' = root_page /\ dirty' = dirty
  BY DEF ChangeLeaf, dirVars, flagVars
<1>2. TaskStep(t) /\ TaskTyped(inners, n, C, root_page, new)
  <2>1. CASE Return(t, "PageNotFound", <<>>)
    BY <2>1, ReturnTyped
  <2>2. CASE task' = [task EXCEPT ![t] = Writing(@, ws, "return")]
    <3>1. /\ TaskOK(tk) /\ tk.path \in Seq(Tree(C) \cap inners)
          /\ tk.path # <<>> => root_page # 0
          /\ PageTyped(inners, n, Tree(C), tk.cur, page) /\ tk.cur \notin inners
      BY <1>1, LeafHere
    <3>2. \A es : PageTyped(inners, n, Tree(C), tk.cur, [page EXCEPT !.entries = es])
      BY <3>1, EntriesTyped
    <3>3. done.page = page \/ \E es : done.page = [page EXCEPT !.entries = es]
      <4>2. CASE "entries" \in DOMAIN page
        <5>1. \A i, e : [page EXCEPT !.entries[i] = e] = [page EXCEPT !.entries = [page.entries EXCEPT ![i] = e]]
          BY <4>2
        <5> HIDE DEF page, tk
        <5> QED BY <5>1 DEF update_entry, delete_by_key, delete_entry
      <4>3. CASE "entries" \notin DOMAIN page
        <5>1. \A i, e : [page EXCEPT !.entries[i] = e] = [page EXCEPT !.entries = e]
          BY <4>3
        <5> HIDE DEF page, tk
        <5> QED BY <5>1 DEF update_entry, delete_by_key, delete_entry
      <4> QED BY <4>2, <4>3
    <3>4. TaskStep(t) /\ new = Writing(tk, ws, "return")
      BY <2>2, DirQuiet DEF Quiet, TasksOK
    <3>5. PageTyped(inners, n, Tree(C), tk.cur, done.page)
      <4> HIDE DEF done, page
      <4> QED BY <3>1, <3>2, <3>3
    <3> HIDE DEF done, page, tk, C, n, new
    <3> QED BY <3>1, <3>4, <3>5, LastWriteTyped
  <2> QED BY <2>1, <2>2 DEF ChangeLeaf
<1> HIDE DEF new
<1> QED BY <1>1, <1>2, SameDirty, StayTyped DEF new

LEMMA AddLeafTyped ==
  ASSUME NEW inners, Typed(inners), TasksOK, NEW t \in Tasks, AddLeaf(t)
  PROVE  Typed(inners)'
<1> DEFINE tk == task[t]
           new == task'[t]
           C == DOMAIN cache
           n == next_dir_page
           page == Page(t, tk.cur)
           done == insert_entry(page, tk.key, tk.loc)
           ws == <<W(tk.cur, done.page, page)>>
<1>1. /\ tk.pc = "leaf" /\ n' = n /\ reused' = reused /\ cache' = cache /\ disk' = disk
      /\ root_page' = root_page /\ dirty' = dirty
  BY DEF AddLeaf, dirVars, flagVars
<1>2. /\ TaskOK(tk) /\ tk.writes = <<>> /\ tk.path \in Seq(Tree(C) \cap inners) /\ tk.buf = NoPage
      /\ tk.path # <<>> => root_page # 0
      /\ tk.cur \in Tree(C) /\ tk.cur \notin inners /\ page.next \in Tree(C) \cup {0}
      /\ PageTyped(inners, n, Tree(C), tk.cur, page)
  BY <1>1, LeafHere
<1>3. TaskStep(t) /\ TaskTyped(inners, n, C, root_page, new)
  <2>1. ASSUME NEW res, Return(t, res, <<>>)
        PROVE  TaskStep(t) /\ TaskTyped(inners, n, C, root_page, new)
    BY <2>1, ReturnTyped
  <2>2. CASE task' = [task EXCEPT ![t].pc = "split", ![t].copy = page]
    <3> HIDE DEF page
    <3>1. /\ TaskStep(t) /\ new.pc = "split" /\ new.cur = tk.cur /\ new.writes = tk.writes
          /\ new.path = tk.path /\ new.buf = tk.buf /\ new.copy = page
      BY <2>2 DEF TasksOK, TaskStep, TaskOK, NoTask
    <3> HIDE DEF tk, new, C, n
    <3>2. PlaceTyped(inners, n, Tree(C), new)
      BY <1>2, <3>1 DEF PlaceTyped, Place
    <3> QED BY <1>2, <3>1, <3>2, MoveTyped
  <2>3. CASE task' = [task EXCEPT ![t] = Writing(@, ws, "return")]
    <3>1. TaskStep(t) /\ new = Writing(tk, ws, "return")
      BY <2>3, DirQuiet DEF Quiet, TasksOK
    <3>2. done.page = [page EXCEPT !.entries = PutEntry(page.entries, LeafMax, from_ppage_id(tk.key, tk.loc)).entries]
      BY DEF insert_entry
    <3>3. PageTyped(inners, n, Tree(C), tk.cur, done.page)
      <4> HIDE DEF done, page
      <4>1. \A es : PageTyped(inners, n, Tree(C), tk.cur, [page EXCEPT !.entries = es])
        BY <1>2, EntriesTyped
      <4> QED BY <3>2, <4>1
    <3> HIDE DEF done, page
    <3> HIDE DEF tk, C, n, new
    <3> QED BY <1>2, <3>1, <3>3, LastWriteTyped
  <2> QED BY <2>1, <2>2, <2>3 DEF AddLeaf
<1> HIDE DEF new
<1> QED BY <1>1, <1>3, SameDirty, StayTyped DEF new

LEMMA InnerLength ==
  ASSUME NEW inners, NEW n, NEW T, NEW p \in inners, p # 0, NEW page, PageTyped(inners, n, T, p, page)
  PROVE  Len(page.entries) \in Nat
<1>1. PICK S : page.entries \in Seq(S)
  BY DEF PageTyped
<1> QED BY <1>1, LenProperties

LEMMA AncestorsTyped ==
  ASSUME NEW inners, Typed(inners), TasksOK, NEW t \in Tasks, Ancestors(t)
  PROVE  Typed(inners)'
<1> DEFINE tk == task[t]
           new == task'[t]
           C == DOMAIN cache
           n == next_dir_page
           p == Last(tk.path)
           page == Page(t, p)
           done == insert_separator(page, tk.sep, tk.child)
           ws == <<W(p, done.page, page)>>
<1>1. /\ tk.pc = "ancestors" /\ Fill(t, p) /\ n' = n /\ reused' = reused /\ disk' = disk
      /\ root_page' = root_page /\ dirty' = dirty
  BY DEF Ancestors
<1>2. /\ TaskOK(tk) /\ tk.writes = <<>> /\ tk.path \in Seq(Tree(C) \cap inners) /\ tk.buf = NoPage
      /\ root_page # 0 /\ tk.path # <<>> /\ tk.child \in Tree(C) /\ tk.left \in Tree(C) \cup {0}
  BY <1>1, HereTyped DEF PlaceTyped, TasksOK
<1>3. p \in Tree(C) /\ p \in inners
  BY <1>2, PathEnds
<1>4. PageTyped(inners, n, Tree(C), p, page) /\ cache' = cache
  BY <1>1, <1>3, CachedTyped
<1>5. TaskStep(t)
  BY DirQuiet DEF Quiet
<1>6. TaskTyped(inners, n, C, root_page, new)
  <2>1. CASE find_separator_slot(page, tk.sep).found
    <3>1. Return(t, "PageCorruption", <<>>)
      BY <2>1 DEF Ancestors, ReturnError
    <3> QED BY <3>1, ReturnTyped
  <2>2. CASE ~find_separator_slot(page, tk.sep).found /\ inner_is_full(page)
    <3>1. task' = [task EXCEPT ![t] = [@ EXCEPT !.pc = "splitinner", !.copy = page, !.buf = NoPage]]
      BY <2>2 DEF Ancestors
    <3>2. Len(page.entries) > 0
      <4>1. p # 0
        BY <1>3 DEF Tree
      <4>2. Len(page.entries) \in Nat
        <5> HIDE DEF page, p
        <5> QED BY <1>3, <1>4, <4>1, InnerLength
      <4> QED BY <2>2, <4>2, DirectoryPageAssumption DEF inner_is_full
    <3> HIDE DEF page
    <3>3. /\ new.pc = "splitinner" /\ new.writes = tk.writes /\ new.path = tk.path
          /\ new.buf = NoPage /\ new.copy = page /\ new.child = tk.child /\ new.left = tk.left
      BY <3>1 DEF TasksOK, TaskOK, NoTask
    <3> HIDE DEF tk, new, C, n
    <3>4. PlaceTyped(inners, n, Tree(C), new)
      BY <1>2, <1>4, <3>2, <3>3 DEF PlaceTyped, Place, p
    <3> QED BY <1>2, <3>3, <3>4, MoveTyped
  <2>3. CASE ~find_separator_slot(page, tk.sep).found /\ ~inner_is_full(page)
    <3>1. task' = [task EXCEPT ![t] = Writing(@, ws, "return")]
      BY <2>3 DEF Ancestors
    <3>2. new = Writing(tk, ws, "return")
      BY <3>1 DEF TasksOK
    <3> HIDE DEF page, p
    <3>3. PageTyped(inners, n, Tree(C), p, done.page)
      BY <1>2, <1>3, <1>4, SeparatorTyped DEF Tree
    <3> HIDE DEF done, tk, C, n, new
    <3> QED BY <1>2, <3>2, <3>3, LastWriteTyped
  <2> QED BY <2>1, <2>2, <2>3
<1> HIDE DEF new
<1> QED BY <1>1, <1>4, <1>5, <1>6, SameDirty, StayTyped DEF new

LEMMA SetRootTyped ==
  ASSUME NEW inners, Typed(inners), TasksOK, NEW t \in Tasks, SetRoot(t)
  PROVE  Typed(inners)'
<1> DEFINE tk == task[t]
           new == task'[t]
           C == DOMAIN cache
           n == next_dir_page
<1>1. /\ tk.pc = "setroot" /\ n' = n /\ reused' = reused /\ cache' = cache /\ disk' = disk
      /\ root_page' = tk.cur /\ dirty' = dirty /\ task' = [task EXCEPT ![t].pc = "header"]
  BY DEF SetRoot
<1>2. /\ tk.writes = <<>> /\ tk.path \in Seq(Tree(C) \cap inners) /\ tk.buf = NoPage
      /\ tk.cur \in Tree(C)
  BY <1>1, HereTyped DEF PlaceTyped
<1>3. /\ TaskStep(t) /\ new.pc = "header" /\ new.writes = tk.writes
      /\ new.path = tk.path /\ new.buf = tk.buf /\ new.cur = tk.cur
  BY <1>1 DEF TasksOK, TaskStep, TaskOK, NoTask
<1>4. tk.cur # 0
  BY <1>2 DEF Tree
<1>5. TaskTyped(inners, n, C, tk.cur, new)
  <2> HIDE DEF tk, new, C, n
  <2>1. PlaceTyped(inners, n, Tree(C), new)
    BY <1>2, <1>3 DEF PlaceTyped, Place
  <2> QED BY <1>2, <1>3, <1>4, <2>1, MoveTyped
<1> HIDE DEF new
<1> QED BY <1>1, <1>2, <1>3, <1>4, <1>5, SameDirty, StayTyped DEF new

LEMMA SetHeaderTyped ==
  ASSUME NEW inners, Typed(inners), TasksOK, NEW t \in Tasks, SetHeader(t)
  PROVE  Typed(inners)'
<1> DEFINE tk == task[t]
           new == task'[t]
           C == DOMAIN cache
           D == DOMAIN cache'
           n == next_dir_page
           page == Page(t, 0)
           header == HeaderPage(tk.cur, n)
           ws == <<W(0, header, page)>>
<1>1. /\ tk.pc = "header" /\ Fill(t, 0) /\ n' = n /\ reused' = reused /\ disk' = disk
      /\ root_page' = root_page /\ dirty' = dirty
      /\ task' = [task EXCEPT ![t] = Writing(@, ws, "return")]
  BY DEF SetHeader
<1>2. /\ TaskOK(tk) /\ tk.path \in Seq(Tree(C) \cap inners)
      /\ tk.path # <<>> => root_page # 0
      /\ tk.buf # NoPage => PageTyped(inners, n, Tree(C), 0, tk.buf)
  BY <1>1, HereTyped DEF TasksOK
<1>3. /\ C \subseteq D /\ Tree(D) = Tree(C)
      /\ PagesTyped(inners, n, D, cache')
  <2>1. CASE tk.buf = NoPage
    BY <1>1, <2>1 DEF Fill, Typed
  <2>2. CASE tk.buf # NoPage
    <3>1. cache' = With(cache, 0, tk.buf)
      BY <1>1, <2>2 DEF Fill
    <3>2. D = C \cup {0} /\ cache'[0] = tk.buf /\ \A q \in C : q # 0 => cache'[q] = cache[q]
      BY <3>1 DEF With
    <3>3. Tree(D) = Tree(C)
      BY <3>2 DEF Tree
    <3>4. \A q \in D : PageTyped(inners, n, Tree(C), q, cache'[q])
      BY <1>2, <2>2, <3>2 DEF Typed, PagesTyped
    <3> QED BY <3>2, <3>3, <3>4 DEF PagesTyped
  <2> QED BY <2>1, <2>2
<1>4. PagesTyped(inners, n, D, disk')
  BY <1>1, <1>3 DEF Typed, PagesTyped
<1>5. TaskStep(t) /\ new = Writing(tk, ws, "return")
  BY <1>1, DirQuiet DEF Quiet, TasksOK
<1>6. PageTyped(inners, n, Tree(D), 0, header)
  <2>1. 0 \in 0..(n - 1)
    BY DirectoryAssumption DEF Typed
  <2> QED BY <2>1 DEF PageTyped, HeaderPage
<1>7. TaskTyped(inners, n, D, root_page, new)
  <2> HIDE DEF header, page, tk, C, D, n, new
  <2> QED BY <1>2, <1>3, <1>5, <1>6, LastWriteTyped
<1>8. dirty' \subseteq D /\ 0 \in DOMAIN disk' /\ root_page' \in Tree(D) \cup {0}
  BY <1>1, <1>3, SameDirty
<1> HIDE DEF new
<1> QED BY <1>1, <1>3, <1>4, <1>5, <1>7, <1>8, StepTyped DEF new

(* What is known of the pages when one more is given out. *)
LEMMA AllocWidens ==
  ASSUME NEW inners, Typed(inners), TasksOK, alloc_dir_page,
         NEW inners2, inners2 = inners \/ inners2 = inners \cup {next_dir_page}
  PROVE  /\ next_dir_page \in Nat \ {0} /\ next_dir_page \notin DOMAIN cache
         /\ next_dir_page \in 0..((next_dir_page + 1) - 1)
         /\ (next_dir_page \in inners2 <=> inners2 # inners)
         /\ \A p \in 0..(next_dir_page - 1) : p \in inners2 <=> p \in inners
         /\ \A T, T2, p, page : T \subseteq T2 /\ PageTyped(inners, next_dir_page, T, p, page)
              => PageTyped(inners2, next_dir_page + 1, T2, p, page)
         /\ \A t \in Tasks : TaskTyped(inners2, next_dir_page + 1, DOMAIN cache, root_page, task[t])
<1> DEFINE n == next_dir_page
<1>0. n \in Nat \ {0}
  BY DirectoryAssumption DEF Typed
<1>1. n \notin 0..(n - 1) /\ n \in 0..((n + 1) - 1) /\ inners \subseteq 0..(n - 1)
  <2>1. inners \subseteq 1..(n - 1)
    BY DEF Typed
  <2> QED BY <1>0, <2>1
<1>2. n \notin DOMAIN cache /\ DOMAIN cache \subseteq 0..(n - 1)
  BY <1>1, CachedBelow
<1> HIDE DEF n
<1>3. /\ n \in inners2 <=> inners2 # inners
      /\ \A p \in 0..(n - 1) : p \in inners2 <=> p \in inners
      /\ inners \subseteq inners2 /\ \A p \in inners2 \ inners : p \notin 0..(n - 1)
  BY <1>1 DEF n
<1>4. n \in Nat /\ n + 1 \in Nat /\ n <= n + 1
  BY <1>0
<1>5. Wider(inners, n, DOMAIN cache, root_page, inners2, n + 1, DOMAIN cache, root_page)
  BY <1>3, <1>4 DEF Wider
<1>6. ASSUME NEW T, NEW T2, T \subseteq T2, NEW p, NEW page, PageTyped(inners, n, T, p, page)
      PROVE  PageTyped(inners2, n + 1, T2, p, page)
  BY <1>3, <1>4, <1>6, PageWidens
<1>7. ASSUME NEW t \in Tasks PROVE TaskTyped(inners2, n + 1, DOMAIN cache, root_page, task[t])
  <2>1. TaskTyped(inners, n, DOMAIN cache, root_page, task[t]) /\ TaskOK(task[t])
    BY DEF Typed, n, TasksOK
  <2> QED BY <1>2, <1>5, <2>1, TaskWidens
<1> QED BY <1>0, <1>1, <1>2, <1>3, <1>6, <1>7 DEF n

(* The page of a new root. *)
LEMMA RootTyped ==
  ASSUME NEW inners, Typed(inners), TasksOK, NEW t \in Tasks, TaskStep(t), alloc_dir_page,
         cache' = cache, disk' = disk, dirty' = dirty, root_page' = root_page,
         task[t].pc \notin {"put", "mark"},
         NEW inners2, inners2 = inners \/ inners2 = inners \cup {next_dir_page},
         NEW page, PageTyped(inners2, next_dir_page + 1, Tree(DOMAIN cache), next_dir_page, page),
         task' = [task EXCEPT ![t] =
           [Writing(@, <<W(next_dir_page, page, NoPage)>>, "setroot") EXCEPT !.cur = next_dir_page]]
  PROVE  Typed(inners2)'
<1> DEFINE tk == task[t]
           new == task'[t]
           C == DOMAIN cache
           n == next_dir_page
           ws == <<W(n, page, NoPage)>>
<1>1. new = [Writing(tk, ws, "setroot") EXCEPT !.cur = n] /\ TaskOK(tk)
  BY DEF TasksOK
<1>2. WritesTyped(inners2, n + 1, C, ws) /\ ws # <<>> /\ After(C, ws) = Tree(C \cup {n})
  BY OneTyped
<1>3. n \in Tree(C \cup {n})
  BY AllocWidens DEF Tree
<1>4. /\ tk.path \in Seq(Tree(C) \cap inners2)
      /\ tk.path # <<>> => root_page # 0
  BY AllocWidens DEF TaskTyped
<1> HIDE DEF tk, ws, C, n, new
<1>5. /\ new.pc = "put" /\ new.writes = ws /\ new.then = "setroot" /\ new.buf = NoPage
      /\ new.path = tk.path /\ new.cur = n
  BY <1>1 DEF TaskOK, Writing, NoTask
<1>6. PlaceTyped(inners2, n + 1, After(C, ws), new)
  BY <1>2, <1>3, <1>5 DEF PlaceTyped, Place
<1>7. TaskTyped(inners2, n + 1, C, root_page, new)
  BY <1>2, <1>4, <1>5, <1>6, PutTyped
<1> QED BY <1>7, AllocTyped DEF new, C, n

LEMMA AddFirstTyped ==
  ASSUME NEW inners, Typed(inners), TasksOK, NEW t \in Tasks, AddFirst(t)
  PROVE  Typed(inners)'
<1> DEFINE page == insert_entry(init_leaf, task[t].key, task[t].loc).page
           n == next_dir_page
<1>1. /\ task[t].pc = "first" /\ alloc_dir_page /\ cache' = cache /\ disk' = disk
      /\ dirty' = dirty /\ root_page' = root_page
      /\ task' = [task EXCEPT ![t] =
           [Writing(@, <<W(n, page, NoPage)>>, "setroot") EXCEPT !.cur = n]]
  BY DEF AddFirst
<1>2. TaskStep(t)
  BY DirQuiet DEF Quiet
<1>3. n \in 0..((n + 1) - 1) /\ n \notin inners /\ n # 0
  BY <1>1, AllocWidens
<1>4. PageTyped(inners, n + 1, Tree(DOMAIN cache), n, init_leaf)
  <2> HIDE DEF n
  <2> QED BY <1>3 DEF PageTyped, init_leaf, LeafPage
<1>5. page = [init_leaf EXCEPT !.entries = PutEntry(init_leaf.entries, LeafMax, from_ppage_id(task[t].key, task[t].loc)).entries]
  BY DEF insert_entry
<1> HIDE DEF page
<1>6. PageTyped(inners, n + 1, Tree(DOMAIN cache), n, page)
  BY <1>3, <1>4, <1>5, EntriesTyped
<1> QED BY <1>1, <1>2, <1>6, RootTyped

LEMMA NewRootTyped ==
  ASSUME NEW inners, Typed(inners), TasksOK, NEW t \in Tasks, NewRoot(t)
  PROVE  \E inners2 : Typed(inners2)'
<1> PICK inners2 : inners2 = inners \cup {next_dir_page}
  OBVIOUS
<1> DEFINE tk == task[t]
           n == next_dir_page
           leftmost == IF tk.left # 0 THEN tk.left ELSE root_page
           page == insert_separator(init_inner(leftmost), tk.sep, tk.child).page
<1>1. /\ tk.pc = "newroot" /\ alloc_dir_page /\ cache' = cache /\ disk' = disk
      /\ dirty' = dirty /\ root_page' = root_page
      /\ task' = [task EXCEPT ![t] =
           [Writing(@, <<W(n, page, NoPage)>>, "setroot") EXCEPT !.cur = n]]
  BY DEF NewRoot
<1>2. TaskStep(t)
  BY DirQuiet DEF Quiet
<1>3. n \in 0..((n + 1) - 1) /\ n \in inners2 /\ n # 0
  BY <1>1, AllocWidens
<1>4. leftmost \in Tree(DOMAIN cache) /\ tk.child \in Tree(DOMAIN cache)
  BY <1>1, HereTyped, SameDirty DEF PlaceTyped
<1>5. PageTyped(inners2, n + 1, Tree(DOMAIN cache), n, init_inner(leftmost))
  <2> HIDE DEF n, leftmost
  <2> DEFINE new == init_inner(leftmost)
  <2>2. /\ new.kind = "inner" /\ {"kind", "entries", "leftmost"} \subseteq DOMAIN new
        /\ new.leftmost = leftmost /\ new.entries = <<>>
    BY DEF init_inner, InnerPage
  <2> HIDE DEF new
  <2>3. \E S : new.entries \in Seq(S) /\ \A e \in S : e.child \in Tree(DOMAIN cache)
    BY <2>2, NoneLead DEF LeadTo
  <2>4. PageTyped(inners2, n + 1, Tree(DOMAIN cache), n, new)
    <3>1. n \in 0..((n + 1) - 1) /\ new.kind = (IF n = 0 THEN "header" ELSE IF n \in inners2 THEN "inner" ELSE "leaf")
      BY <1>3, <2>2
    <3>2. new.kind # "leaf" /\ "kind" \in DOMAIN new /\ {"entries", "leftmost"} \subseteq DOMAIN new
      BY <2>2
    <3>3. new.leftmost \in Tree(DOMAIN cache)
      BY <1>4, <2>2
    <3> QED BY <2>3, <3>1, <3>2, <3>3 DEF PageTyped
  <2> QED BY <2>4 DEF new
<1> HIDE DEF leftmost
<1>6. PageTyped(inners2, n + 1, Tree(DOMAIN cache), n, page)
  BY <1>3, <1>4, <1>5, SeparatorTyped
<1> HIDE DEF page
<1>7. Typed(inners2)'
  BY <1>1, <1>2, <1>6, RootTyped
<1> QED BY <1>7

LEMMA LeafTyped ==
  ASSUME NEW inners, NEW n, NEW T, NEW p \in 0..(n - 1), p # 0, p \notin inners,
         NEW next \in T \cup {0}, NEW es, NEW prev
  PROVE  PageTyped(inners, n, T, p, LeafPage(es, prev, next))
BY DEF PageTyped, LeafPage

LEMMA InnerTyped ==
  ASSUME NEW inners, NEW n, NEW T, NEW p \in 0..(n - 1), p # 0, p \in inners,
         NEW leftmost \in T, NEW es, LeadTo(T, es)
  PROVE  PageTyped(inners, n, T, p, InnerPage(es, leftmost))
<1> DEFINE page == InnerPage(es, leftmost)
<1>1. /\ page.kind = "inner" /\ {"kind", "entries", "leftmost"} \subseteq DOMAIN page
      /\ page.leftmost = leftmost /\ page.entries = es
  BY DEF InnerPage
<1> HIDE DEF page
<1>2. PageTyped(inners, n, T, p, page)
  BY <1>1 DEF PageTyped, LeadTo
<1> QED BY <1>2 DEF page

LEMMA SplitLeafTyped ==
  ASSUME NEW inners, Typed(inners), TasksOK, NEW t \in Tasks, SplitLeaf(t)
  PROVE  Typed(inners)'
<1> DEFINE n == next_dir_page
           C == DOMAIN cache
           T == Tree(C)
           U == Tree(C \cup {n})
           cur == task[t].cur
           leaf == task[t].copy
           split == SplitLeafPages(leaf, cur, n, from_ppage_id(task[t].key, task[t].loc))
           up == W(n, split.upper, NoPage)
           low == W(cur, split.lower, leaf)
           sep == split.upper.entries[1].key
           left == IF task[t].path = <<>> THEN cur ELSE 0
           tk == [task[t] EXCEPT !.child = n, !.sep = sep, !.left = left]
           tk1 == Writing(tk, <<up, low>>, AfterLeaf(t))
           tk2 == [Writing(tk, <<up>>, "sibling") EXCEPT !.cur = leaf.next, !.old = <<low>>]
           new == task'[t]
<1>1. /\ task[t].pc = "split" /\ alloc_dir_page /\ cache' = cache /\ disk' = disk
      /\ dirty' = dirty /\ root_page' = root_page
      /\ task' = [task EXCEPT ![t] = IF leaf.next = 0 THEN tk1 ELSE tk2]
  BY DEF SplitLeaf
<1>2. TaskStep(t) /\ TaskOK(task[t]) /\ new = IF leaf.next = 0 THEN tk1 ELSE tk2
  BY <1>1, DirQuiet DEF Quiet, TasksOK
<1>3. /\ task[t].path \in Seq(T \cap inners) /\ cur \in T /\ cur \notin inners
      /\ task[t].path # <<>> => root_page # 0
      /\ leaf.next \in T \cup {0}
  BY <1>1, HereTyped DEF PlaceTyped
<1>4. /\ n \in 0..((n + 1) - 1) /\ n # 0 /\ n \notin inners /\ cur # 0
      /\ cur \in 0..((n + 1) - 1)
      /\ T \subseteq U /\ n \in U
  <2>1. n \in 0..((n + 1) - 1) /\ n # 0 /\ n \notin inners
    BY <1>1, AllocWidens
  <2>2. cur # 0 /\ cur \in 0..(n - 1)
    BY <1>3, CachedBelow DEF Tree
  <2>3. cur \in 0..((n + 1) - 1)
    BY <2>2, <1>1, AllocWidens
  <2> QED BY <2>1, <2>2, <2>3 DEF Tree
<1>5. PageTyped(inners, n + 1, U, cur, split.lower) /\ PageTyped(inners, n + 1, T, n, split.upper)
  <2> DEFINE half == Halves(leaf.entries, from_ppage_id(task[t].key, task[t].loc))
             a == half[1]
             b == half[2]
  <2>1. split.lower = LeafPage(a, leaf.prev, n) /\ split.upper = LeafPage(b, cur, leaf.next)
    BY DEF SplitLeafPages
  <2> HIDE DEF a, b, half, n, cur, leaf, split, T, U
  <2> QED BY <1>3, <1>4, <2>1, LeafTyped
<1> HIDE DEF n, cur, leaf, split
<1>6. /\ up.id = n /\ low.id = cur
      /\ WriteTyped(inners, n + 1, T, up) /\ WriteTyped(inners, n + 1, U, low)
  BY <1>5 DEF WriteTyped, W
<1>7. C \cup {up.id} = C \cup {n} /\ C \cup {up.id, low.id} = C \cup {n}
  BY <1>3, <1>6 DEF Tree
<1>l. left \in T \cup {0} /\ (task[t].path = <<>> => left # 0)
  BY <1>3, <1>4
<1> HIDE DEF up, low, sep, left, U, T, C
<1>8. /\ TaskOK(tk) /\ tk.path = task[t].path /\ tk.child = n /\ tk.left = left
  BY <1>2 DEF TaskOK, NoTask
<1> HIDE DEF tk
<1>9. TaskTyped(inners, n + 1, C, root_page, tk1)
  <2> DEFINE ws == <<up, low>>
             next == AfterLeaf(t)
  <2>1. WritesTyped(inners, n + 1, C, ws) /\ ws # <<>> /\ After(C, ws) = U
    <3>1. WriteTyped(inners, n + 1, Tree(C), up) /\ WriteTyped(inners, n + 1, Tree(C \cup {up.id}), low)
      BY <1>6, <1>7 DEF T, U
    <3>2. WritesTyped(inners, n + 1, C, ws) /\ ws # <<>> /\ After(C, ws) = Tree(C \cup {up.id, low.id})
      BY <3>1, TwoTyped
    <3> QED BY <1>7, <3>2 DEF U
  <2>2. next \in {"newroot", "ancestors"} /\ (next = "newroot" <=> tk.path = <<>>)
    BY <1>8 DEF AfterLeaf
  <2> HIDE DEF ws, next
  <2>3. /\ tk1.pc = "put" /\ tk1.writes = ws /\ tk1.then = next /\ tk1.buf = NoPage /\ tk1.path = tk.path
        /\ tk1.child = n /\ tk1.left = left
    BY <1>8 DEF TaskOK, Writing, NoTask, ws, next
  <2> HIDE DEF tk1
  <2>4. PlaceTyped(inners, n + 1, U, tk1)
    BY <1>l, <1>4, <1>8, <2>2, <2>3 DEF PlaceTyped, Place
  <2>5. tk1.path \in Seq(Tree(C) \cap inners)
    BY <1>3, <1>8, <2>3 DEF T
  <2> QED BY <1>3, <1>l, <1>8, <2>1, <2>2, <2>3, <2>4, <2>5, PutTyped
<1>10. ASSUME leaf.next # 0 PROVE TaskTyped(inners, n + 1, C, root_page, tk2)
  <2> DEFINE ws == <<up>>
             os == <<low>>
             to == leaf.next
  <2>1. WritesTyped(inners, n + 1, C, ws) /\ ws # <<>> /\ After(C, ws) = U
    <3>1. WriteTyped(inners, n + 1, Tree(C), up)
      BY <1>6 DEF T
    <3>2. After(C, ws) = Tree(C \cup {up.id})
      BY AfterOne
    <3> QED BY <1>7, <3>1, <3>2 DEF U, WritesTyped
  <2>2. \E a : os = <<a>> /\ WriteTyped(inners, n + 1, U, a)
    BY <1>6
  <2> HIDE DEF ws, os, to
  <2>3. /\ tk2.pc = "put" /\ tk2.writes = ws /\ tk2.then = "sibling" /\ tk2.buf = NoPage
        /\ tk2.old = os /\ tk2.path = tk.path /\ tk2.child = n /\ tk2.left = left /\ tk2.cur = to
    BY <1>8 DEF TaskOK, Writing, NoTask, ws, os, to
  <2>4. to \in U
    BY <1>3, <1>4, <1>10 DEF to
  <2> HIDE DEF tk2
  <2>5. PlaceTyped(inners, n + 1, U, tk2)
    BY <1>l, <1>4, <1>8, <2>2, <2>3, <2>4 DEF PlaceTyped, Place
  <2>6. tk2.path \in Seq(Tree(C) \cap inners)
    BY <1>3, <1>8, <2>3 DEF T
  <2> QED BY <1>3, <1>l, <1>8, <2>1, <2>3, <2>5, <2>6, PutTyped
<1> HIDE DEF tk1, tk2, new
<1>11. TaskTyped(inners, n + 1, C, root_page, new)
  BY <1>2, <1>9, <1>10
<1> QED BY <1>1, <1>2, <1>11, AllocTyped DEF n, C, new

LEMMA TwoJoined == ASSUME NEW x, NEW y PROVE <<x>> \o <<y>> = <<x, y>>
<1> DEFINE S == {x, y}
           s == <<x>> \o <<y>>
<1>1. <<x>> \in Seq(S) /\ <<y>> \in Seq(S) /\ Len(<<x>>) = 1 /\ Len(<<y>>) = 1
      /\ <<x>>[1] = x /\ <<y>>[1] = y
  OBVIOUS
<1>2. s \in Seq(S) /\ Len(s) = 2 /\ s[1] = x /\ s[2] = y
  <2> HIDE DEF S
  <2>1. /\ s \in Seq(S) /\ Len(s) = Len(<<x>>) + Len(<<y>>)
        /\ \A i \in 1..Len(<<x>>) + Len(<<y>>) : s[i] = IF i <= Len(<<x>>) THEN <<x>>[i] ELSE <<y>>[i - Len(<<x>>)]
    BY <1>1, ConcatProperties
  <2> QED BY <1>1, <2>1
<1> HIDE DEF S, s
<1>3. s = <<s[1], s[2]>>
  BY <1>2
<1> QED BY <1>2, <1>3 DEF s

LEMMA SplitSiblingTyped ==
  ASSUME NEW inners, Typed(inners), TasksOK, NEW t \in Tasks, SplitSibling(t)
  PROVE  Typed(inners)'
<1> DEFINE tk == task[t]
           new == task'[t]
           C == DOMAIN cache
           n == next_dir_page
           page == Page(t, tk.cur)
           first == W(tk.cur, set_prev_page(page, tk.child), page)
           ws == <<first>> \o tk.old
           next == AfterLeaf(t)
<1>1. /\ tk.pc = "sibling" /\ Fill(t, tk.cur) /\ n' = n /\ reused' = reused /\ disk' = disk
      /\ root_page' = root_page /\ dirty' = dirty
      /\ task' = [task EXCEPT ![t] = Writing(@, ws, next)]
  BY DEF SplitSibling
<1>2. /\ TaskOK(tk) /\ tk.path \in Seq(Tree(C) \cap inners)
      /\ tk.path # <<>> => root_page # 0
      /\ tk.cur \in Tree(C) /\ tk.child \in Tree(C) /\ tk.left \in Tree(C) \cup {0}
      /\ tk.path = <<>> => tk.left # 0
      /\ \E a : tk.old = <<a>> /\ WriteTyped(inners, n, Tree(C), a)
  <2>1. /\ PlaceTyped(inners, n, Tree(C), tk) /\ Place(tk) = "sibling"
        /\ TaskOK(tk) /\ tk.path \in Seq(Tree(C) \cap inners)
        /\ tk.path # <<>> => root_page # 0
    BY <1>1, HereTyped DEF TasksOK
  <2> HIDE DEF tk, C, n
  <2> QED BY <2>1 DEF PlaceTyped
<1>3. PageTyped(inners, n, Tree(C), tk.cur, page) /\ cache' = cache
  BY <1>1, <1>2, CachedTyped
<1>4. TaskStep(t) /\ new = Writing(tk, ws, next)
  BY <1>1, DirQuiet DEF Quiet, TasksOK
<1>5. first.id = tk.cur /\ WriteTyped(inners, n, Tree(C), first)
  <2> DEFINE after == set_prev_page(page, tk.child)
  <2>1. PageTyped(inners, n, Tree(C), tk.cur, after)
    <3> HIDE DEF page
    <3> QED BY <1>3, PrevTyped
  <2>2. first = W(tk.cur, after, page)
    OBVIOUS
  <2> HIDE DEF after, first, page, C, n
  <2> QED BY <2>1, <2>2 DEF W, WriteTyped
<1>6. next \in {"newroot", "ancestors"} /\ (next = "newroot" <=> tk.path = <<>>)
  BY DEF AfterLeaf
<1>7. PICK a : tk.old = <<a>> /\ WriteTyped(inners, n, Tree(C), a)
  BY <1>2
<1> HIDE DEF tk, new, first, next, page, C, n
<1>8. ws = <<first, a>>
  BY <1>7, TwoJoined
<1>9. C \cup {first.id} = C /\ Tree(C) \subseteq Tree(C \cup {first.id, a.id})
  BY <1>2, <1>5 DEF Tree
<1>10. WritesTyped(inners, n, C, ws) /\ ws # <<>> /\ After(C, ws) = Tree(C \cup {first.id, a.id})
  <2>1. WriteTyped(inners, n, Tree(C \cup {first.id}), a)
    BY <1>7, <1>9
  <2>2. /\ WritesTyped(inners, n, C, <<first, a>>) /\ <<first, a>> # <<>>
        /\ After(C, <<first, a>>) = Tree(C \cup {first.id, a.id})
    BY <1>5, <2>1, TwoTyped
  <2> HIDE DEF ws
  <2> QED BY <1>8, <2>2
<1> HIDE DEF ws
<1>11. /\ new.pc = "put" /\ new.writes = ws /\ new.then = next /\ new.buf = NoPage /\ new.path = tk.path
       /\ new.child = tk.child /\ new.left = tk.left
  BY <1>2, <1>4 DEF TaskOK, Writing, NoTask
<1>12. PlaceTyped(inners, n, After(C, ws), new)
  BY <1>2, <1>6, <1>9, <1>10, <1>11 DEF PlaceTyped, Place
<1>13. TaskTyped(inners, n, C, root_page, new)
  BY <1>2, <1>6, <1>10, <1>11, <1>12, PutTyped
<1> QED BY <1>1, <1>3, <1>4, <1>13, SameDirty, StayTyped DEF new, C, n

LEMMA SplitInnerTyped ==
  ASSUME NEW inners, Typed(inners), TasksOK, NEW t \in Tasks, SplitInner(t)
  PROVE  \E inners2 : Typed(inners2)'
<1> PICK inners2 : inners2 = inners \cup {next_dir_page}
  OBVIOUS
<1> DEFINE n == next_dir_page
           C == DOMAIN cache
           T == Tree(C)
           U == Tree(C \cup {n})
           p == Last(task[t].path)
           page == task[t].copy
           split == SplitInnerPages(page, task[t].sep, task[t].child)
           sep == split.up
           path == Front(task[t].path)
           tk == [task[t] EXCEPT !.path = path, !.sep = sep, !.child = n]
           up == W(n, split.upper, NoPage)
           low == W(p, split.lower, page)
           ws == <<up, low>>
           next == IF path = <<>> THEN "newroot" ELSE "ancestors"
           new == task'[t]
<1>1. /\ task[t].pc = "splitinner" /\ alloc_dir_page /\ cache' = cache /\ disk' = disk
      /\ dirty' = dirty /\ root_page' = root_page
      /\ task' = [task EXCEPT ![t] = Writing(tk, ws, next)]
  BY DEF SplitInner
<1>2. TaskStep(t) /\ TaskOK(task[t]) /\ new = Writing(tk, ws, next)
  BY <1>1, DirQuiet DEF Quiet, TasksOK
<1>3. /\ task[t].path \in Seq(T \cap inners) /\ task[t].path # <<>> /\ root_page # 0
      /\ task[t].child \in T /\ task[t].left \in T \cup {0}
      /\ PageTyped(inners, n, T, p, page) /\ Len(page.entries) > 0
  BY <1>1, HereTyped DEF PlaceTyped
<1>4. p \in T /\ p \in inners /\ path \in Seq(T \cap inners) /\ p # 0
  <2>1. 0 \notin T
    BY DEF Tree
  <2> HIDE DEF T
  <2> QED BY <1>3, <2>1, PathEnds
<1>5. /\ n \in 0..((n + 1) - 1) /\ n # 0 /\ n \in inners2
      /\ p \in 0..((n + 1) - 1) /\ p \in inners2
      /\ T \subseteq U /\ n \in U /\ T \cap inners \subseteq T \cap inners2
  <2>1. n \in 0..((n + 1) - 1) /\ n # 0
    BY <1>1, AllocWidens
  <2>2. p \in 0..(n - 1)
    BY <1>3 DEF PageTyped
  <2>3. p \in 0..((n + 1) - 1)
    <3>1. n \in Nat
      BY <1>1, AllocWidens
    <3> HIDE DEF p, n
    <3> QED BY <2>2, <3>1
  <2> HIDE DEF p, n
  <2> QED BY <1>4, <2>1, <2>3 DEF Tree, n
<1>6. PageTyped(inners2, n + 1, U, p, split.lower) /\ PageTyped(inners2, n + 1, T, n, split.upper)
  <2> DEFINE half == Halves(page.entries, InnerEntry(task[t].sep, task[t].child))
             a == half[1]
             b == Tail(half[2])
             c == half[2][1].child
  <2>1. split.lower = InnerPage(a, page.leftmost) /\ split.upper = InnerPage(b, c)
    BY DEF SplitInnerPages
  <2>2. page.leftmost \in T /\ LeadTo(T, page.entries)
    BY <1>3, <1>4 DEF PageTyped, LeadTo
  <2> HIDE DEF n, p, page, split, T, U
  <2>3. LeadTo(T, a) /\ LeadTo(T, b) /\ c \in T
    BY <1>3, <2>2, HalvesLead
  <2> HIDE DEF a, b, c, half
  <2>4. LeadTo(U, a)
    BY <1>5, <2>3 DEF LeadTo
  <2>5. page.leftmost \in U
    BY <1>5, <2>2
  <2> QED BY <1>4, <1>5, <2>1, <2>3, <2>4, <2>5, InnerTyped
<1> HIDE DEF n, p, page, split
<1>7. /\ up.id = n /\ low.id = p
      /\ WriteTyped(inners2, n + 1, T, up) /\ WriteTyped(inners2, n + 1, U, low)
  BY <1>6 DEF WriteTyped, W
<1>8. C \cup {up.id} = C \cup {n} /\ C \cup {up.id, low.id} = C \cup {n}
  BY <1>4, <1>7 DEF Tree
<1> HIDE DEF up, low, U, T, C, sep, path
<1>9. WritesTyped(inners2, n + 1, C, ws) /\ ws # <<>> /\ After(C, ws) = U
  <2>1. WriteTyped(inners2, n + 1, Tree(C), up) /\ WriteTyped(inners2, n + 1, Tree(C \cup {up.id}), low)
    BY <1>7, <1>8 DEF T, U
  <2>2. WritesTyped(inners2, n + 1, C, ws) /\ ws # <<>> /\ After(C, ws) = Tree(C \cup {up.id, low.id})
    BY <2>1, TwoTyped
  <2> QED BY <1>8, <2>2 DEF U
<1> HIDE DEF ws
<1>10. /\ TaskOK(tk) /\ tk.path = path /\ tk.child = n /\ tk.left = task[t].left
  BY <1>2 DEF TaskOK, NoTask
<1> HIDE DEF tk
<1>11. next \in {"newroot", "ancestors"} /\ (next = "newroot" <=> path = <<>>)
  OBVIOUS
<1> HIDE DEF next, new
<1>12. /\ new.pc = "put" /\ new.writes = ws /\ new.then = next /\ new.buf = NoPage /\ new.path = path
       /\ new.child = n /\ new.left = task[t].left
  BY <1>2, <1>10 DEF TaskOK, Writing, NoTask
<1>13. PlaceTyped(inners2, n + 1, After(C, ws), new)
  BY <1>3, <1>5, <1>9, <1>11, <1>12 DEF PlaceTyped, Place
<1>14. new.path \in Seq(Tree(C) \cap inners2)
  BY <1>4, <1>5, <1>12, SeqGrows DEF T
<1>15. TaskTyped(inners2, n + 1, C, root_page, new)
  BY <1>3, <1>9, <1>12, <1>13, <1>14, PutTyped
<1>16. Typed(inners2)'
  BY <1>1, <1>2, <1>15, AllocTyped DEF n, C, new
<1> QED BY <1>16

LEMMA FlushTyped ==
  ASSUME NEW inners, Typed(inners), TasksOK, NEW t \in Tasks,
         \/ FlushSnapshot(t) \/ FlushLock(t) \/ FlushWrite(t) \/ FlushClear(t) \/ FlushFail(t)
  PROVE  Typed(inners)'
<1> DEFINE tk == task[t]
           new == task'[t]
           C == DOMAIN cache
           n == next_dir_page
<1>1. /\ tk.pc \in {"flush", "lock", "flushing"}
      /\ n' = n /\ cache' = cache /\ reused' = reused /\ root_page' = root_page
  BY DEF FlushSnapshot, FlushLock, FlushWrite, FlushClear, FlushFail, dirVars, flagVars
<1>2. /\ tk.writes = <<>> /\ tk.path \in Seq(Tree(C) \cap inners) /\ tk.buf = NoPage
      /\ tk.path # <<>> => root_page # 0
  BY <1>1, HereTyped
<1>3. ASSUME NEW pc \in {"lock", "flushing"}, TaskStep(t), new.pc = pc, new.path = tk.path,
             new.writes = tk.writes, new.buf = tk.buf
      PROVE  TaskTyped(inners, n, C, root_page, new)
  <2> HIDE DEF tk, new, C, n
  <2>1. PlaceTyped(inners, n, Tree(C), new)
    BY <1>3 DEF PlaceTyped, Place
  <2> QED BY <1>2, <1>3, <2>1, MoveTyped
<1>4. TaskStep(t) /\ TaskTyped(inners, n, C, root_page, new)
  <2>1. ASSUME NEW res, Return(t, res, <<>>)
        PROVE  TaskStep(t) /\ TaskTyped(inners, n, C, root_page, new)
    BY <2>1, ReturnTyped
  <2>2. CASE task' = [task EXCEPT ![t].pc = "lock", ![t].snap = dirty]
    <3>1. /\ TaskStep(t) /\ new.pc = "lock" /\ new.path = tk.path /\ new.writes = tk.writes
          /\ new.buf = tk.buf
      BY <2>2 DEF TasksOK, TaskStep, TaskOK, NoTask
    <3> HIDE DEF tk, new, C, n
    <3> QED BY <1>3, <3>1
  <2>3. CASE FlushLock(t)
    <3>1. task' = [task EXCEPT ![t].pc = "flushing", ![t].todo = task[t].snap]
      BY <2>3 DEF FlushLock
    <3>2. /\ TaskStep(t) /\ new.pc = "flushing" /\ new.path = tk.path /\ new.writes = tk.writes
          /\ new.buf = tk.buf
      BY <3>1 DEF TasksOK, TaskStep, TaskOK, NoTask
    <3> HIDE DEF tk, new, C, n
    <3> QED BY <1>3, <3>2
  <2>4. CASE FlushWrite(t)
    <3>1. tk.pc = "flushing" /\ \E p : task' = [task EXCEPT ![t].todo = @ \ {p}]
      BY <2>4 DEF FlushWrite
    <3>2. /\ TaskStep(t) /\ new.pc = "flushing" /\ new.path = tk.path /\ new.writes = tk.writes
          /\ new.buf = tk.buf
      BY <3>1 DEF TasksOK, TaskStep, TaskOK, NoTask
    <3> HIDE DEF tk, new, C, n
    <3> QED BY <1>3, <3>2
  <2> QED BY <2>1, <2>2, <2>3, <2>4 DEF FlushSnapshot, FlushClear, FlushFail
<1>5. dirty' \subseteq C
  BY SameDirty DEF FlushSnapshot, FlushLock, FlushWrite, FlushClear, FlushFail, dirVars
<1>6. 0 \in DOMAIN disk' /\ PagesTyped(inners, n, C, disk')
  <2>1. /\ 0 \in DOMAIN disk /\ PagesTyped(inners, n, C, disk) /\ PagesTyped(inners, n, C, cache)
    BY DEF Typed
  <2>2. disk' = disk \/ \E p \in C : disk' = With(disk, p, cache[p])
    BY DEF FlushSnapshot, FlushLock, FlushWrite, FlushClear, FlushFail, dirVars
  <2> QED BY <2>1, <2>2 DEF PagesTyped, With
<1>7. PagesTyped(inners, n, C, cache)
  BY DEF Typed
<1> HIDE DEF new
<1> QED BY <1>1, <1>4, <1>5, <1>6, <1>7, SameDirty, StepTyped DEF new

(* Every step of the directory. *)
LEMMA DirTyped ==
  ASSUME NEW inners, Typed(inners), TasksOK, NEW t \in Tasks, DirStep(t) \/ FlushFail(t)
  PROVE  \E inners2 : Typed(inners2)'
<1>1. CASE NewRoot(t) \/ SplitInner(t)
  BY <1>1, NewRootTyped, SplitInnerTyped
<1>2. CASE \/ ReadFile(t) \/ CachePut(t) \/ DirtyMark(t)
           \/ ReadRoot(t) \/ Descend(t) \/ LookupLeaf(t) \/ ChangeLeaf(t)
  <2>1. Typed(inners)'
    BY <1>2, ReadFileTyped, CachePutTyped, DirtyMarkTyped, ReadRootTyped, DescendTyped,
       LookupLeafTyped, ChangeLeafTyped
  <2> QED BY <2>1
<1>3. CASE \/ AddFirst(t) \/ AddLeaf(t) \/ SplitLeaf(t) \/ SplitSibling(t)
           \/ Ancestors(t) \/ SetRoot(t) \/ SetHeader(t)
  <2>1. Typed(inners)'
    BY <1>3, AddFirstTyped, AddLeafTyped, SplitLeafTyped, SplitSiblingTyped, AncestorsTyped,
       SetRootTyped, SetHeaderTyped
  <2> QED BY <2>1
<1>4. CASE \/ FlushSnapshot(t) \/ FlushLock(t) \/ FlushWrite(t) \/ FlushClear(t) \/ FlushFail(t)
  <2>1. Typed(inners)'
    BY <1>4, FlushTyped
  <2> QED BY <2>1
<1> QED BY <1>1, <1>2, <1>3, <1>4 DEF DirStep

(* The steps of a call outside the directory. *)
LEMMA CallTyped ==
  ASSUME NEW inners, Typed(inners), TasksOK, NEW t \in Tasks,
         (\E c : Start(t, c)) \/ Allocate(t) \/ Transfer(t)
  PROVE  Typed(inners)'
<1> DEFINE tk == task[t]
           new == task'[t]
           C == DOMAIN cache
           n == next_dir_page
<1>1. UNCHANGED <<cache, dirty, next_dir_page, root_page, disk, reused>>
  BY DEF Start, Allocate, Transfer, dirVars, flagVars
<1>2. TaskStep(t) /\ TaskTyped(inners, n, C, root_page, new)
  <2>1. CASE \E c : Start(t, c)
    <3>1. PICK c : Start(t, c)
      BY <2>1
    <3> DEFINE k == IF c.op = "new" THEN next_lpage_id ELSE c.id
               pc == CASE c.op \in {"new", "update"} -> "place"
                       [] c.op = "flush" -> "flush"
                       [] OTHER -> "root"
               begun == [NoTask EXCEPT !.call = c, !.key = k, !.pc = pc]
    <3>2. task' = [task EXCEPT ![t] = begun]
      BY <3>1 DEF Start
    <3>3. pc \in {"place", "flush", "root"}
      OBVIOUS
    <3> HIDE DEF k, pc
    <3>4. TaskOK(begun) /\ begun.pc = pc /\ begun.path = <<>> /\ begun.buf = NoPage /\ begun.writes = <<>>
      BY DEF TaskOK, NoTask, Thens
    <3> HIDE DEF begun
    <3>5. TaskStep(t) /\ new = begun
      BY <3>2, <3>4, TaskUpdate
    <3> HIDE DEF new
    <3> QED BY <3>3, <3>4, <3>5, AwayTyped
  <2>2. CASE Allocate(t)
    <3>1. PICK loc : /\ tk.pc = "place"
                     /\ task' = [task EXCEPT ![t].pc = "root", ![t].loc = loc]
      BY <2>2 DEF Allocate
    <3>2. /\ tk.writes = <<>> /\ tk.path \in Seq(Tree(C) \cap inners) /\ tk.buf = NoPage
          /\ tk.path # <<>> => root_page # 0
      BY <3>1, HereTyped
    <3>3. /\ TaskStep(t) /\ new.pc = "root" /\ new.path = tk.path /\ new.writes = tk.writes
          /\ new.buf = tk.buf
      BY <3>1 DEF TasksOK, TaskStep, TaskOK, NoTask
    <3> HIDE DEF tk, new, C, n
    <3>4. PlaceTyped(inners, n, Tree(C), new)
      BY <3>3 DEF PlaceTyped, Place
    <3> QED BY <3>2, <3>3, <3>4, MoveTyped
  <2>3. CASE Transfer(t)
    <3>1. \E res, out : Return(t, res, out)
      BY <2>3 DEF Transfer
    <3> QED BY <3>1, ReturnTyped
  <2> QED BY <2>1, <2>2, <2>3
<1> HIDE DEF new
<1> QED BY <1>1, <1>2, SameDirty, StayTyped DEF new

(* Until the server is started again. *)
TypedInv == ~restarted => \E inners : Typed(inners)

LEMMA TypedInvInit == Init => TypedInv
<1> SUFFICES ASSUME Init PROVE TypedInv
  OBVIOUS
<1>1. /\ cache = <<>> /\ disk = [p \in {0} |-> init_header] /\ dirty = {} /\ root_page = 0
      /\ next_dir_page = 1 /\ task = [t \in Tasks |-> NoTask] /\ ~reused
  BY DEF Init, DirInit, init_new
<1>2. DOMAIN cache = {} /\ DOMAIN disk = {0} /\ disk[0] = init_header
  BY <1>1
<1>3. PICK inners : inners = {}
  OBVIOUS
<1>4. \A n, C, root : TaskTyped(inners, n, C, root, NoTask)
  <2>1. NoTask.pc = "idle" /\ NoTask.writes = <<>> /\ NoTask.path = <<>> /\ NoTask.buf = NoPage
    BY DEF NoTask
  <2> QED BY <2>1, AwayTyped
<1>5. PageTyped(inners, 1, Tree({}), 0, init_header)
  <2>1. 0 \in 0..(1 - 1)
    OBVIOUS
  <2> QED BY <2>1 DEF PageTyped, init_header, HeaderPage
<1>6. PagesTyped(inners, 1, {}, cache) /\ PagesTyped(inners, 1, {}, disk)
  BY <1>2, <1>5 DEF PagesTyped
<1>7. 1 \in 1..MaxDirPages
  BY DirectoryAssumption
<1>8. Typed(inners)
  BY <1>1, <1>2, <1>3, <1>4, <1>6, <1>7 DEF Typed
<1> QED BY <1>8 DEF TypedInv

LEMMA TypedInvNext == SaveInv /\ TypedInv /\ [Next]_storageVars => TypedInv'
<1> SUFFICES ASSUME SaveInv, TypedInv, [Next]_storageVars, ~restarted'
             PROVE  \E inners : Typed(inners)'
  BY DEF TypedInv
<1>t. TasksOK
  BY DEF SaveInv
<1>1. CASE UNCHANGED storageVars
  <2>1. UNCHANGED <<cache, dirty, next_dir_page, root_page, disk, task, reused, restarted>>
    BY <1>1 DEF storageVars, dirVars, flagVars
  <2>2. PICK inners : Typed(inners)
    BY <2>1 DEF TypedInv
  <2>3. Typed(inners)'
    BY <2>1, <2>2 DEF Typed
  <2> QED BY <2>3
<1>2. CASE Next
  <2>0. ~Restart
    BY DEF Restart
  <2>1. PICK t \in Tasks : \/ \E c : Start(t, c)
                           \/ Allocate(t) \/ Transfer(t)
                           \/ (DirStep(t) \/ FlushFail(t)) /\ restarted' = restarted
    BY <1>2, <2>0 DEF Next
  <2>2. restarted' = restarted
    BY <2>1 DEF Start, Allocate, Transfer
  <2>3. PICK inners : Typed(inners)
    BY <2>2 DEF TypedInv
  <2>4. CASE (\E c : Start(t, c)) \/ Allocate(t) \/ Transfer(t)
    <3>1. Typed(inners)'
      BY <1>t, <2>3, <2>4, CallTyped
    <3> QED BY <3>1
  <2>5. CASE DirStep(t) \/ FlushFail(t)
    BY <1>t, <2>3, <2>5, DirTyped
  <2> QED BY <2>1, <2>4, <2>5
<1> QED BY <1>1, <1>2

LEMMA TypedIsOK == TypedInv => (~restarted => StorageTypeOK /\ ~reused)
<1> SUFFICES ASSUME TypedInv, ~restarted PROVE StorageTypeOK /\ ~reused
  OBVIOUS
<1>1. PICK inners : Typed(inners)
  BY DEF TypedInv
<1>2. next_dir_page \in 1..MaxDirPages /\ MaxDirPages \in Nat
  BY <1>1, DirectoryAssumption DEF Typed
<1>3. \A p \in 0..(next_dir_page - 1) : p \in 0..MaxDirPages /\ p < next_dir_page
  BY <1>2
<1>4. PagesOK(cache) /\ PagesOK(disk)
  <2> SUFFICES ASSUME NEW f, PagesTyped(inners, next_dir_page, DOMAIN cache, f) PROVE PagesOK(f)
    BY <1>1 DEF Typed
  <2> QED BY <1>3 DEF PagesTyped, PageTyped, PagesOK
<1>5. disk[0].kind = "header"
  BY <1>1 DEF Typed, PagesTyped, PageTyped
<1>6. DOMAIN cache \subseteq 0..(next_dir_page - 1)
  BY <1>1, CachedBelow
<1>7. root_page \in 0..MaxDirPages /\ dirty \subseteq DOMAIN cache
  <2>1. 0 \in 0..MaxDirPages
    BY <1>2
  <2> QED BY <1>1, <1>3, <1>6, <2>1, SameDirty DEF Tree
<1>8. \A t \in Tasks : task[t].pc \in {"put", "mark"} <=> task[t].writes # <<>>
  BY <1>1 DEF Typed, TaskTyped
<1>9. ~reused
  BY <1>1 DEF Typed
<1> QED BY <1>2, <1>3, <1>4, <1>5, <1>6, <1>7, <1>8, <1>9 DEF StorageTypeOK

(* Until the server is started again, for any number of tasks and calls    *)
(* and whatever they overwrite of each other's changes: page 0 is the      *)
(* header, every cached or saved page is a page of the directory that      *)
(* alloc_dir_page gave out, every marked page is cached, a call has pages  *)
(* to write exactly while it writes, and no page is given out twice        *)
(* (directory.rs).                                                         *)
THEOREM StorageTyped == Spec => [](~restarted => StorageTypeOK /\ ~reused)
BY SaveInvInit, SaveInvNext, TypedInvInit, TypedInvNext, TypedIsOK, PTL DEF Spec

=============================================================================
