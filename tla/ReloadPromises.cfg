\* What the repository says and the code does not do, one promise at a time.
\* This one, or in its place:
\*   Files <- SpelledTwice   INVARIANT PortsApart
\*   Files <- CapitalFile    INVARIANT RouteFound
CONSTANTS
  Files <- HeavyFile
  INT_BITS = 4
  MaxPort = 3
  Hash <- HashTLC
  Lower <- LowerTLC
  Cpus = 2
  Balances = TRUE
  MinSlots = 2
  MaxSlots = 5
  Hosts <- HostsTLC
  MaxLoads = 1
SPECIFICATION Spec
INVARIANTS WeightsPositive

CHECK_DEADLOCK FALSE
