SPECIFICATION Spec
CONSTANTS
  Replica = {r0, r1, r2}
  Leader = r0
  Txn = {1, 2}
  Conflict <- Free
  LocalDdl <- Local
  AgreedDdl <- Agreed
  None = None
INVARIANT CommitPointReplicated
SYMMETRY Symmetry
CHECK_DEADLOCK FALSE
