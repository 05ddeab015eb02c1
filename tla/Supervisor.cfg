CONSTANTS
  N = 3
  MaxSignals = 2
  Deaths = 1
SPECIFICATION FairSpec
INVARIANTS
  NoOrphan
PROPERTIES
  TermEnds
  ReloadReaches
\* The supervisor ends.
CHECK_DEADLOCK FALSE
