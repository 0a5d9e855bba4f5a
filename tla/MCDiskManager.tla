--------------------------- MODULE MCDiskManager ----------------------------
(* Model of DiskManager for TLC. *)
EXTENDS DiskManager

New(f)  == [op |-> "new", file |-> f]
On(o, k) == [op |-> o, id |-> k]
Update(k) == [op |-> "update", file |-> 1, id |-> k]
Flush   == [op |-> "flush", id |-> 0]
Again   == [op |-> "restart"]

News(n) == [i \in 1..n |-> New(1)]

(* An empty directory, a full root leaf with data, a saved tree whose root *)
(* splits with its last leaf, and a saved tree with a full leaf in front,  *)
(* which ids that begin at 0 again split.                                  *)
MCPreloads ==
  {<<>>, News(2) \o <<On("write", 0)>>, News(5) \o <<Flush, On("write", 1)>>,
   News(2) \o <<On("delete", 0), On("delete", 1)>> \o News(3) \o <<Flush, Again, New(1)>>}

MCCalls == {New(1), On("read", 1), On("write", 1), Update(1), On("delete", 4), Flush}

TaskSymmetry == Permutations(Tasks)

(* One saved page and a restart. *)
OneCall == {New(1), New(2)}
OnePreload == {<<New(1), Flush, Again>>}
=============================================================================
