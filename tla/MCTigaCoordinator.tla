--------------------------- MODULE MCTigaCoordinator ---------------------------
(* Instances of TigaCoordinator for TLC. *)
EXTENDS TigaCoordinator

(* A request to two shards, then one to the first of them. *)
BothThenOne == <<{0, 1}, {0}>>
One == <<{0}>>
NoneFailed == {}
=============================================================================
