\* The telemetry client against a server that sends anything, at any time or
\* only when asked: safety, and liveness under FairSpec.
SPECIFICATION FairSpec
CONSTANTS
  Kinds = {"regist", "normal", "heartbeat", "empty", "corrupt", "badsize"}
  MaxFrames = 3
INVARIANTS
  TypeOK
  ReadChain
  OneWriter
PROPERTIES
  LinkImplemented
  StallsOnlyUnanswered
  Retries
  BrokenIsClosed
  CloseSettles
  TalkGoesOn
CHECK_DEADLOCK FALSE
