CONSTANTS
  Files <- FilesTLC
  INT_BITS = 4
  MaxPort = 3
  Hash <- HashTLC
  Lower <- LowerTLC
  Cpus = 2
  Balances = TRUE
  MinSlots = 2
  MaxSlots = 5
  Hosts <- HostsTLC
  MaxLoads = 3
SPECIFICATION Spec
INVARIANTS
  ServesItsFrontend
  LookupRight
  NumbersFit
PROPERTIES
  AllOrNothing
\* A worker that could not start has ended.
CHECK_DEADLOCK FALSE
