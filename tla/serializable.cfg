SPECIFICATION Spec
CONSTANTS
  Shard = {"s1", "s2"}
  Txn = {1, 2}
  Key = {"k1"}
  KeysOf <- TwoKeys
  Deadline <- Nominal
  ClockApproach = "synchronized"
  FirstClock <- Aligned
  MaxClock = 5
  None = 0
INVARIANT Serializable
CHECK_DEADLOCK FALSE
