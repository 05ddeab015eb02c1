CONSTANTS
  HP_MAX_HEADER_BYTES = 8
  SLOT = 11
  Requests <- NoHeads
  Responses <- LargeResponses
  Hops = 1
SPECIFICATION Spec
INVARIANTS LargeRefused
CHECK_DEADLOCK FALSE
