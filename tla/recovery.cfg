SPECIFICATION Spec
CONSTANTS
  ShardNum = 2
  ReplicaNum = 3
  Targets <- BothThenVictims
  Indeterminate = {0, 1}
  None = None
INVARIANTS
  TypeOK
  NormalAfterAllRebuilt
  
  
  
VIEW ReadAgain
CHECK_DEADLOCK FALSE
