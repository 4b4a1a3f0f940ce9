SPECIFICATION Spec
CONSTANTS
  ShardNum = 2
  ReplicaNum = 3
  Targets <- BothThenVictims
  Indeterminate = {1}
  None = None
INVARIANT
  CommittedSurvives
CHECK_DEADLOCK FALSE
