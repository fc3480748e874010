\* Menu, plan and display over irregular maps, started at any time, and over
\* regular maps that arrive before the start.
SPECIFICATION Spec
CONSTANTS
  Servers <- MCServers
INVARIANTS
  TypeOK
  MenuMatchesRoute
  PlanMatchesRoute
  DrivenPlanStays
  NoFault
CHECK_DEADLOCK FALSE
