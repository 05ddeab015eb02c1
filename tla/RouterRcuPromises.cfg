\* What the repository says and the code does not do, one promise at a time.
\* This one, or in its place:
\*   INVARIANT NothingLeft
\*   INVARIANT FreshIsDue
CONSTANTS
  Routers = {r1, r2, r3}
  Conns = {x1, x2}
  Null = Null
  NoMemory = TRUE
SPECIFICATION Spec
SYMMETRY Symmetry
INVARIANTS
  FreedOnce
\* The worker may end.
CHECK_DEADLOCK FALSE
