SPECIFICATION Spec
CONSTANTS
  ShardNum = 1
  ReplicaNum = 3
  Targets <- One
  Failed <- NoneFailed
  Deadline = {1}
  FollowerHash = {1, 2}
  MaxView = 0
  None = None
INVARIANT FastQuorumAgrees
CHECK_DEADLOCK FALSE
