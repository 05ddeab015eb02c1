CONSTANTS
  UMax = 20
  CH_MAX_LINE = 4
  Bodies <- BodiesTLC
  Wires <- WiresTLC
SPECIFICATION ChunkedSpec
INVARIANTS
  LineBounded
  Agrees
\* A body ends.
CHECK_DEADLOCK FALSE
