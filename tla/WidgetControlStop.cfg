\* The stop request after "left the autonomous driving system".
SPECIFICATION Spec
CONSTANTS
  PoolSize = 2
  MaxJobs = 3
INVARIANTS
  StopRequestHolds
CHECK_DEADLOCK FALSE
