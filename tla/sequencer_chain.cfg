SPECIFICATION Spec
CONSTANTS
  Shard = {"s1", "s2", "s3"}
  Txn = {1, 2, 3}
  Key = {"k1", "k2"}
  KeysOf <- ChainKeys
  Deadline <- Middle
  ClockApproach = "logical"
  FirstClock <- Aligned
  MaxClock = 0
  None = 0
INVARIANTS
  NoUnexpectedStatus
  SpecIsolated
  OnTimeOrder
  AgreedIsHighest
  NoneCompletesEarly
PROPERTY AgreementSpec
CHECK_DEADLOCK FALSE
