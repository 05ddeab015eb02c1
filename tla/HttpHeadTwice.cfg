CONSTANTS
  HP_MAX_HEADER_BYTES = 8
  SLOT = 11
  Requests <- TwiceForwarded
  Responses <- NoHeads
  Hops = 1
SPECIFICATION Spec
INVARIANTS NoAddressLost
CHECK_DEADLOCK FALSE
