CONSTANTS
  Limits <- Few
  BODY = 2
  PipeRoom = 1
  Arrivals = 2
  Queries = 2
  Visits = 3
  Hups = 1
SPECIFICATION FairSpec
INVARIANTS SaysWhy
CHECK_DEADLOCK FALSE
