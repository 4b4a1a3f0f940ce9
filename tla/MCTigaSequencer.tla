--------------------------- MODULE MCTigaSequencer ---------------------------
(* Instances of TigaSequencer for TLC: which keys the transactions touch.  *)
EXTENDS TigaSequencer

Nominal == [t \in Txn |-> t]

(* Two transactions on the same key of each of two shards: on each shard   *)
(* the one with the smaller deadline may arrive too late.                  *)
TwoKeys == [t \in {1, 2} |-> [s \in {"s1", "s2"} |-> {"k1"}]]

(* On s1 the keys form a chain 1 - 2 - 3; the first transaction is on      *)
(* three shards.                                                           *)
ChainKeys ==
    [t \in {1, 2, 3} |-> [s \in {"s1", "s2", "s3"} |->
        CASE t = 1 -> {"k1"}
          [] t = 2 -> IF s = "s1" THEN {"k1", "k2"} ELSE {}
          [] t = 3 -> IF s = "s1" THEN {"k2"} ELSE {}]]

(* The one in the middle of the chain has the smallest deadline.           *)
Middle == [t \in Txn |-> IF t = 2 THEN 1 ELSE 2]

Aligned == [s \in Shard |-> 0]
=============================================================================
