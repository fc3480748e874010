\* An emergency stop over a pull-over or an end of the plan whose job still
\* polls, with a second thread for its own job.
SPECIFICATION FairSpec
CONSTANTS
  PoolSize = 2
  MaxJobs = 2
PROPERTIES
  EmergencyArrives
CHECK_DEADLOCK FALSE
