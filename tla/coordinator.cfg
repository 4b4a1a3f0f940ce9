SPECIFICATION Spec
CONSTANTS
  ShardNum = 2
  ReplicaNum = 2
  Targets <- BothThenOne
  Failed <- NoneFailed
  Deadline = {1, 2}
  FollowerHash = {0, 1}
  MaxView = 1
  None = None
INVARIANTS
  TypeOK
  CommittedAtOneDeadline
  FinishesRequestInProcess
  RepliesOfOneView
CHECK_DEADLOCK FALSE
