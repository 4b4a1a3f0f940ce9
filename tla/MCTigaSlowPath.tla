--------------------------- MODULE MCTigaSlowPath ---------------------------
(* Instances of TigaSlowPath for TLC. *)
EXTENDS TigaSlowPath, TLC

(* No two transactions share a key: commands in any order. *)
Free == [t \in Txn |-> {}]
Local == [t \in Txn |-> t]
(* Another shard raises the deadline of 2. *)
Agreed == [t \in Txn |-> IF t = 2 THEN t + 2 ELSE t]
(* Memory that comes from the system. *)
Zero == {0}
(* Memory that has been in use: as many as there can be, or more. *)
ZeroOrMany == {0, 2}
Symmetry == Permutations(Replica \ {Leader})
=============================================================================
