\* Liveness of the command path under FairSpec: one pool thread, so that a job
\* that polls fills the pool, and three jobs, so that a pull-over or an end of
\* the plan nests inside another one.
SPECIFICATION FairSpec
CONSTANTS
  PoolSize = 1
  MaxJobs = 3
INVARIANTS
  WaitsCanEnd
PROPERTIES
  EmergencyArrives
  HandlersReturn
  EndRequestsStop
CHECK_DEADLOCK FALSE
