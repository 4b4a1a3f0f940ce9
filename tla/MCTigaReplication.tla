------------------------- MODULE MCTigaReplication -------------------------
(* Instances of TigaReplication for TLC. *)
EXTENDS TigaReplication, TLC

(* No two transactions share a key: commands in any order. *)
Free == [t \in Txn |-> {}]
Local == [t \in Txn |-> t]
(* Another shard raises the deadline of 2. *)
Agreed == [t \in Txn |-> IF t = 2 THEN t + 2 ELSE t]
Symmetry == Permutations(Replica \ {Leader})
=============================================================================
