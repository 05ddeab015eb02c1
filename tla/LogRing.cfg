CONSTANTS
  Producers = {loop}
  RingSlots = 2
  MaxLines = 5
SPECIFICATION FairSpec
INVARIANTS
  InOrder
  Flushed
PROPERTIES
  Implements
  Reaches
