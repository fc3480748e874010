\* One tick is 50 ms; a turn takes 100 or 150 ms.
SPECIFICATION Spec
CONSTANTS
  BarTime = 8
  EndTime = 4
  PauseTime = 2
  ExitTime = 10
  TurnTime = 2
  Jitter = 1
  MaxLost = 1
  MaxRow = 2
  MaxPosted = 1
  MaxEnds = 2
INVARIANTS
  TypeOK
  HeldIsHeard
  ShownInTime
  Backlog
PROPERTIES
  PromiseKept
CHECK_DEADLOCK FALSE
