\* Reconnecting by closing the session.
SPECIFICATION FairSpec
CONSTANTS
  Kinds = {"regist", "normal"}
  MaxFrames = 2
PROPERTIES
  Reconnects
CHECK_DEADLOCK FALSE
