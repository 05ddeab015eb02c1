CONSTANTS
  HP_MAX_HEADER_BYTES = 8
  SLOT = 11
  Requests <- RequestsTLC
  Responses <- ResponsesTLC
  Hops = 2
SPECIFICATION Spec
INVARIANTS
  VerdictOfWhole
  NextHopAgrees
  ChainGrows
  ResponseFraming
\* A head is forwarded so many times.
CHECK_DEADLOCK FALSE
