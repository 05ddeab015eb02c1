\* What the repository says and the code does not do, one promise at a time.
\* This one, or in its place:
\*   Scripts <- EarlyUpload, UpstreamRoom = 4   INVARIANT UpstreamStream
\*   Scripts <- HalfUpload                      INVARIANT ShutdownWhole
\*   Scripts <- Interim                         INVARIANT KeptIdle
\*   Scripts <- Upload                          INVARIANT LargeHeaderOnly
\*   Scripts <- Pipelined                       PROPERTY  NoReadAhead
\*   Scripts <- HalfSplit                       INVARIANT HeaderFirst
\*   Scripts <- ClosedTwice                     INVARIANT Connected
CONSTANTS
  Scripts <- Endless
  Slot = 5
  Growth = 1
  ClientRoom = 2
  UpstreamRoom = 10
  MaxAttempts = 3
  Slots = 3
SPECIFICATION Spec
INVARIANTS
  NotTruncated
\* A connection that is closed stays closed.
CHECK_DEADLOCK FALSE
