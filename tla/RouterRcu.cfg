CONSTANTS
  Routers = {r1, r2, r3}
  Conns = {x1, x2}
  Null = Null
  NoMemory = TRUE
SPECIFICATION FairSpec
INVARIANTS
  NoUseAfterFree
  AllReleased
PROPERTIES
  OldGoes
  ProbesFollow
\* The worker may end.
CHECK_DEADLOCK FALSE
