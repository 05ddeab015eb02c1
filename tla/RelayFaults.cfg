CONSTANTS
  Scripts <- Mixed
  Slot = 5
  Growth = 1
  ClientRoom = 2
  UpstreamRoom = 10
  MaxAttempts = 3
  Slots = 3
SPECIFICATION FairSpec
INVARIANTS
  TypeOK
  ClientStream
  UpstreamStream
  NotTruncated
  KeptIdle
  RetryWhole
PROPERTIES
  Served
  AllAnswered
\* A connection that is closed stays closed.
CHECK_DEADLOCK FALSE
