SPECIFICATION FairSpec
CONSTANTS
  Shard = {"s1", "s2"}
  Txn = {1, 2}
  Key = {"k1"}
  KeysOf <- TwoKeys
  Deadline <- Nominal
  ClockApproach = "synchronized"
  FirstClock <- Aligned
  MaxClock = 5
  None = 0
INVARIANTS
  TypeOK
  OnTimeSerializable
PROPERTY EveryTxnLogged
CHECK_DEADLOCK FALSE
