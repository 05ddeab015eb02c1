CONSTANTS
  Scripts <- Basic
  Slot = 5
  Growth = 1
  ClientRoom = 2
  UpstreamRoom = 1
  MaxAttempts = 3
  Slots = 3
SPECIFICATION FairSpec
PROPERTIES
  Served
\* A connection that is closed stays closed.
CHECK_DEADLOCK FALSE
