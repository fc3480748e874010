\* What is read back from an archive, whole or damaged.
SPECIFICATION Spec
CONSTANTS
  ReceiveDatas <- MCReceiveDatas
  SendMsgs <- MCSendMsgs
INVARIANTS
  StoredIsWhole
  OrderIsWhole
PROPERTIES
  WholeFramesArrive
  BrokenFramesEndSession
  MessagesCarried
CHECK_DEADLOCK FALSE
