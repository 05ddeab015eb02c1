CONSTANTS
  Limits <- FewAndMany
  BODY = 2
  PipeRoom = 2
  Arrivals = 2
  Queries = 2
  Visits = 3
  Hups = 2
SPECIFICATION FairSpec
INVARIANTS
  FdExact
  NeedsHeld
  NothingMissed
PROPERTIES
  Admitted
  Answered
  TermHeeded
\* The worker ends.
CHECK_DEADLOCK FALSE
