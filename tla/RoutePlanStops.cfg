\* The number of stops of a plan.
SPECIFICATION Spec
CONSTANTS
  Servers <- MCServers
INVARIANTS
  StopSizeMatches
CHECK_DEADLOCK FALSE
