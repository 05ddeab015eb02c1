CONSTANTS
  N = 2
  MaxSignals = 1
  Deaths = 0
SPECIFICATION FairSpec
PROPERTIES HupHarmless
CHECK_DEADLOCK FALSE
