---------------------------- MODULE DiskManager ----------------------------
(***************************************************************************)
(* DiskManagerImpl, src/storage/disk.rs, with SimpleAllocator and the      *)
(* directory it uses, put together as TcpServer::new does, and a server    *)
(* that may stop and be started again.                                     *)
(*                                                                         *)
(* A page's contents are the logical id it was written for.  update_page,  *)
(* delete_page and flush_all_dirty have no caller yet; they are called     *)
(* here with ids and locations that a disk manager would pass.             *)
(*                                                                         *)
(* A definition ending in Fault is a wrong version of the one after it.    *)
(***************************************************************************)
EXTENDS PageDirectory

CONSTANTS
  Files,      \* file ids
  Calls,      \* the calls tasks may make, see Start
  Preloads,   \* call sequences, one of which is made before all else
  MaxCalls    \* bound on calls and restarts after the preload

(* A call that needs a place names one of the files. *)
NamesFile(c) == c.op \in {"new", "update"} => c.file \in Files

ASSUME DiskAssumption ==
  /\ MaxCalls \in Nat
  /\ \A c \in Calls : NamesFile(c)
  /\ \A calls \in Preloads : calls \in Seq(ToSet(calls)) /\ \A c \in ToSet(calls) : NamesFile(c)

VARIABLES
  next_lpage_id,
  next_page,  \* SimpleAllocator: the next page number of every file
  data,       \* the data files: a function on the written locations
  (* bounds and history variables *)
  todo,       \* calls left to preload
  budget,     \* calls or restarts left
  restarted   \* the server was started again

idVars == <<next_lpage_id, next_page>>
storageVars == <<dirVars, task, pastVars, watchVars, flagVars, idVars, data, todo, budget, restarted>>

Init ==
  /\ DirInit
  /\ next_lpage_id = 0
  /\ next_page = [f \in Files |-> 1]
  /\ data = <<>>
  /\ todo \in Preloads
  /\ budget = MaxCalls
  /\ restarted = FALSE

-----------------------------------------------------------------------------
(* Calls *)

(* What the call of t, for id k, lets the other calls find. *)
Watch(t, c, k) ==
  /\ must' = [u \in Tasks |->
       IF u = t THEN {e \in map : e[1] \notin Leaving}
       ELSE IF c.op \in {"update", "delete"} THEN Without(must[u], k) ELSE must[u]]
  /\ may' = [may EXCEPT ![t] = map \cup Arriving]
  /\ moved' = [moved EXCEPT ![t] = Splitting]

(* A call has an operation, a file (new, update) and an id (the others).   *)
(* new_page takes the next logical id first.                               *)
Start(t, c) ==
  LET k == IF c.op = "new" THEN next_lpage_id ELSE c.id
  IN  /\ Idle(t)
      /\ IF todo # <<>>
         THEN /\ \A u \in Tasks : Idle(u)
              /\ c = Head(todo)
              /\ todo' = Tail(todo) /\ UNCHANGED budget
         ELSE /\ c \in Calls
              /\ budget > 0
              /\ budget' = budget - 1 /\ UNCHANGED todo
      /\ c.op # "restart"
      /\ task' = [task EXCEPT ![t] = [NoTask EXCEPT !.call = c, !.key = k,
                    !.pc = CASE c.op \in {"new", "update"} -> "place"
                             [] c.op = "flush" -> "flush"
                             [] OTHER -> "root"]]
      /\ next_lpage_id' = next_lpage_id + (IF c.op = "new" THEN 1 ELSE 0)
      /\ Watch(t, c, k)
      /\ UNCHANGED <<dirVars, pastVars, flagVars, next_page, data, restarted>>

(* Two calls may be given the same page: the counter is not advanced. *)
Allocate_Fault(t) ==
  LET f   == task[t].call.file
      loc == [file |-> f, offset |-> next_page[f] * PageSize]
  IN  /\ task[t].pc = "place"
      /\ task' = [task EXCEPT ![t].pc = "root", ![t].loc = loc]
      /\ may' = [u \in Tasks |-> may[u] \cup {<<task[t].key, loc>>}]
      /\ UNCHANGED <<dirVars, pastVars, must, moved, flagVars, idVars, data, todo, budget, restarted>>

(* SimpleAllocator::allocate: the next page of the file. *)
Allocate(t) ==
  LET f   == task[t].call.file
      loc == [file |-> f, offset |-> next_page[f] * PageSize]
  IN  /\ task[t].pc = "place"
      /\ next_page' = [next_page EXCEPT ![f] = @ + 1]
      /\ task' = [task EXCEPT ![t].pc = "root", ![t].loc = loc]
      /\ may' = [u \in Tasks |-> may[u] \cup {<<task[t].key, loc>>}]
      /\ UNCHANGED <<dirVars, pastVars, must, moved, flagVars, next_lpage_id, data, todo, budget, restarted>>

(* write_page_at_loc and read_page_at_loc at the location looked up.  A    *)
(* page below the end of the file that was never written reads as zero.    *)
Transfer(t) ==
  LET loc == task[t].loc
  IN  /\ task[t].pc = "found"
      /\ IF task[t].call.op = "write"
         THEN data' = With(data, loc, task[t].key) /\ Return(t, "ok", <<loc>>)
         ELSE /\ UNCHANGED data
              /\ IF loc \in DOMAIN data THEN Return(t, "ok", <<loc, data[loc]>>)
                 ELSE IF \E l \in DOMAIN data : l.file = loc.file /\ l.offset > loc.offset
                 THEN Return(t, "ok", <<loc>>)
                 ELSE Return(t, "IOError", <<loc>>)
      /\ UNCHANGED <<dirVars, pastVars, watchVars, flagVars, idVars, todo, budget, restarted>>

(* The server stops and TcpServer::new starts it again.  Page ids begin at *)
(* 0 and the pages of every file at 1, whatever the directory holds.       *)
Restart ==
  /\ IF todo # <<>>
     THEN /\ Head(todo).op = "restart" /\ \A t \in Tasks : Idle(t)
          /\ todo' = Tail(todo) /\ UNCHANGED budget
     ELSE /\ budget > 0
          /\ budget' = budget - 1 /\ UNCHANGED todo
  /\ load_header
  /\ next_lpage_id' = 0
  /\ next_page' = [f \in Files |-> 1]
  /\ task' = [t \in Tasks |-> NoTask]
  /\ restarted' = TRUE
  /\ map' = saved /\ stable' = TRUE
  /\ torn' = (torn \/ ~stable)
  /\ must' = [t \in Tasks |-> {}] /\ may' = [t \in Tasks |-> {}]
  /\ moved' = [t \in Tasks |-> FALSE]
  /\ UNCHANGED <<saved, raced, reused, data>>

(* A tree in which alloc_dir_page has given out a page twice is not        *)
(* followed: pages of one kind are then read as pages of another.          *)
Next ==
  /\ ~reused
  /\ \/ \E t \in Tasks :
          \/ \E c \in Calls \cup ToSet(todo) : Start(t, c)
          \/ Allocate(t)
          \/ Transfer(t)
          \/ /\ DirStep(t) \/ (FlushFail(t) /\ todo = <<>>)
             /\ UNCHANGED <<idVars, data, todo, budget, restarted>>
     \/ Restart

Spec == Init /\ [][Next]_storageVars
-----------------------------------------------------------------------------
(* Properties *)

Ids == 0..(next_lpage_id + Cardinality(map) + 1)

PagesOK(f) == \A p \in DOMAIN f : p \in 0..MaxDirPages /\ f[p].kind \in {"header", "leaf", "inner", "zero"}

(* The state is well formed: page 0 is the header, marked pages are cached *)
(* and only pages given out by alloc_dir_page exist (directory.rs).        *)
StorageTypeOK ==
  /\ PagesOK(cache) /\ PagesOK(disk)
  /\ disk[0].kind = "header"
  /\ root_page \in 0..MaxDirPages /\ next_dir_page \in 1..MaxDirPages
  /\ dirty \subseteq DOMAIN cache
  /\ \A p \in DOMAIN cache : p < next_dir_page \/ restarted
  /\ \A t \in Tasks : task[t].pc \in {"put", "mark"} <=> task[t].writes # <<>>

(* A page as the next read_page finds it. *)
Current(p) == IF p \in DOMAIN cache THEN cache[p] ELSE disk[p]

Known(p) == p \in DOMAIN cache \cup DOMAIN disk

(* What a descent for k finds, as a set of locations. *)
Found(k) ==
  LET down[p \in 0..MaxDirPages, d \in 0..MaxDirPages] ==
        IF p = 0 \/ d = 0 \/ ~Known(p) THEN {}
        ELSE IF Current(p).kind = "leaf" THEN lookup(Current(p), k)
        ELSE IF Current(p).kind = "inner" THEN down[find_child(Current(p), k), d - 1] ELSE {}
  IN  down[root_page, MaxDirPages]

Leaves == {p \in DOMAIN cache \cup DOMAIN disk : Current(p).kind = "leaf"}

Sound == ~raced /\ ~torn /\ ~reused

(* When no call that changes the directory is running, and none wrote over *)
(* another's change, a descent finds for every id the location of the last *)
(* add_page or update_page that returned Ok and nothing for the others,    *)
(* and the leaves are linked in both directions.  After a restart the      *)
(* mappings are those of the last flush (directory.rs).                    *)
DirectoryExact ==
  (Sound /\ \A t \in Tasks : ~Changing(t)) =>
    /\ \A k \in Ids : Found(k) = {e[2] : e \in {m \in map : m[1] = k}}
    /\ \A p \in Leaves :
         /\ Ascending(Current(p).entries)
         /\ Current(p).next # 0 => Current(Current(p).next).prev = p
         /\ Current(p).prev # 0 => Current(Current(p).prev).next = p

(* A lookup that runs beside other calls, but beside no split, finds an id *)
(* that was mapped throughout and a location it had at some time           *)
(* (lookup of directory.rs, read_page and write_page of disk.rs).          *)
LookupExact ==
  \A t \in Tasks :
    (Sound /\ ~moved[t] /\ task[t].call.op \in {"read", "write"}) =>
      /\ task[t].pc = "found" => <<task[t].key, task[t].loc>> \in may[t]
      /\ task[t].res = "PageNotFound" => task[t].key \notin {e[1] : e \in must[t]}

(* The page a call has put in the cache and has yet to mark. *)
Unmarked == {Head(task[t].writes).id : t \in {u \in Tasks : task[u].pc = "mark"}}

(* A cached page that is not marked is the one in the file, or a call is   *)
(* about to mark it: no flush unmarks a page it has not written            *)
(* (write_page and flush_all_dirty of directory.rs).                       *)
UnmarkedIsSaved ==
  ~raced => \A p \in DOMAIN cache \ (dirty \cup Unmarked) : OnDisk(p) = cache[p]

(* Until the server is started again, reading a logical page gives what    *)
(* was written for that page and never another page's contents, whatever   *)
(* the calls overwrite of each other (new_page of disk.rs, allocator.rs).  *)
ReadsOwn ==
  \A t \in Tasks :
    (~restarted /\ task[t].call.op = "read" /\ Len(task[t].out) = 2) => task[t].out[2] = task[t].key

(* The doc of register_file, "This should be called when opening existing  *)
(* files to set the starting point for new allocations", and the one of    *)
(* DiskManagerImpl::new, next_lpage_id "should be loaded from metadata":   *)
(* two logical pages never have one location.                              *)
LocationsDistinct == \A e, f \in map : e[2] = f[2] => e[1] = f[1]
=============================================================================
