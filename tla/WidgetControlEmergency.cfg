\* The emergency brake that the log announces.
SPECIFICATION Spec
CONSTANTS
  PoolSize = 2
  MaxJobs = 3
INVARIANTS
  EmergencyAnnounced
CHECK_DEADLOCK FALSE
