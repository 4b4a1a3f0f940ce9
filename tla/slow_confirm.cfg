SPECIFICATION FairSpec
CONSTANTS
  Replica = {r0, r1, r2}
  Leader = r0
  Txn = {1}
  Conflict <- Free
  LocalDdl <- Local
  AgreedDdl <- Agreed
  FirstSpecSynced <- Zero
  None = None
PROPERTY EveryTxnConfirmed
CHECK_DEADLOCK FALSE
