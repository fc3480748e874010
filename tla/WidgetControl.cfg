\* Safety of the command path: three jobs let a handler nest inside a handler
\* that is itself nested; plans repeat, so one plan's leftovers meet the next.
SPECIFICATION Spec
CONSTANTS
  PoolSize = 2
  MaxJobs = 3
INVARIANTS
  TypeOK
  EmergencyIsLast
  ButtonsComeBack
  DoorPulseStands
  WaitsCanEnd
PROPERTIES
  EmergencyStays
  OnlyJobsMix
  LeavingStops
CHECK_DEADLOCK FALSE
