CONSTANTS
  QueueCap = 2
SPECIFICATION FairSpec
CHECK_DEADLOCK FALSE
INVARIANTS
  
  HalfDeadIsCancelled

  
