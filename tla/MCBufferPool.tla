---------------------------- MODULE MCBufferPool ----------------------------
(* Instances of BufferPool for TLC.  Tasks, frames, and the old pages that *)
(* are fetched by id are interchangeable.                                  *)
EXTENDS BufferPool, TLC

(* Pages fetched by id are formatted with their own id; the header of a    *)
(* page fetched by location may carry any.                                 *)
MCHeaderIds == [p \in Pages |-> IF p \in ByLocation THEN Pages ELSE {p}]

Symmetry ==
  Permutations(Tasks) \union Permutations(Frames)
    \union Permutations(OldPages \intersect ByLogical)
=============================================================================
