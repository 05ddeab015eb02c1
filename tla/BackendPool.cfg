CONSTANTS
  N = 3
  Weight <- Uneven
  Balances = {"round_robin", "weighted", "least_conn"}
  Rise = 2
  Fall = 2
  MaxAttempts = 3
  Conns = {x1}
  Changes = 0
  Exhausted = TRUE
SPECIFICATION PoolSpec
INVARIANTS
  EvenShare
  CurrentBounded
