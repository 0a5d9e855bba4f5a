--------------------------- MODULE MCBTreeIndex ----------------------------
(* Model of BTreeIndex for TLC. *)
EXTENDS BTreeIndex

(* Keys of one byte, and for get one that is cut. *)
Ins(k)     == [op |-> "insert", key |-> <<k>>, rid |-> 2, end |-> {}]
Lookup(k)  == [op |-> "get", key |-> <<k, 0, 9>>, rid |-> 0, end |-> {}]
Del(k, r)  == [op |-> "delete", key |-> <<k>>, rid |-> r, end |-> {}]
Scan(k, e) == [op |-> "scan", key |-> <<k>>, rid |-> 0, end |-> e]

(* An empty index, a full root leaf, a root that splits with its last leaf,*)
(* a tree of three levels with a full last leaf, a full first leaf with a  *)
(* right sibling, and such a leaf two levels below the root.               *)
MCPreloads ==
  {[i \in 1..n |-> <<2 * i - 1>>] : n \in {0, 4, 10, 12}}
    \cup {<<<<4>>, <<6>>, <<8>>, <<10>>, <<13>>, <<1>>, <<3>>>>,
          <<<<1>>, <<3>>, <<5>>, <<7>>, <<9>>, <<11>>, <<16>>, <<18>>, <<24>>, <<26>>, <<28>>, <<17>>, <<23>>>>}

MCCalls ==
  {Ins(2), Ins(20), Lookup(17), Scan(3, {}), Scan(3, {<<17>>}), Del(13, 1), Del(5, 1), Del(3, 2)}

(* A full root leaf and one range scan. *)
OnePreload == {[i \in 1..4 |-> <<2 * i - 1>>]}
OneScan == {Scan(1, {<<5>>})}
============================================================================
