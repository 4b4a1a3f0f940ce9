SPECIFICATION Spec
CONSTANTS
  ShardNum = 2
  ReplicaNum = 3
  Targets <- BothThenVictims
  Indeterminate = {1}
  None = None
INVARIANT
  OneLogAgain
CHECK_DEADLOCK FALSE
