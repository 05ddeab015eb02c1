CONSTANTS
  Producers = {loop, health}
  RingSlots = 2
  MaxLines = 2
SPECIFICATION Spec
INVARIANTS
  InOrder
