CONSTANTS
  N = 2
  MaxSignals = 2
  Deaths = 0
SPECIFICATION FairSpec
PROPERTIES TermAlways
CHECK_DEADLOCK FALSE
