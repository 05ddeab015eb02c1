CONSTANTS
  Conns = {x1, x2, x3}
  Slots = {s1, s2, s3, s4}
  Backends = {b1, b2}
  MaxAttempts = 2
  Null = Null
  AddFails = TRUE
SPECIFICATION Spec
SYMMETRY Symmetry
INVARIANTS
  SlotsExact
  NeverOvercounted
