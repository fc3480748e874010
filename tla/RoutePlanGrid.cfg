\* The names on the grid of stations and the plan that is driven.
SPECIFICATION Spec
CONSTANTS
  Servers <- RegularServers
INVARIANTS
  GridShowsPlan
CHECK_DEADLOCK FALSE
