\* What the repository says and the code does not do, one promise at a time.
\* This one, or in its place:
\*   INVARIANT NoLeak
\*   INVARIANT NoStarvation, with AddFails = FALSE
CONSTANTS
  Conns = {x1, x2}
  Slots = {s1, s2, s3, s4}
  Backends = {b1}
  MaxAttempts = 2
  Null = Null
  AddFails = TRUE
SPECIFICATION Spec
SYMMETRY Symmetry
INVARIANTS
  ActiveIsLive
