CONSTANTS
  N = 1
  Weight <- Even
  Balances = {"round_robin"}
  Rise = 2
  Fall = 2
  MaxAttempts = 3
  Conns = {x1}
  Changes = 0
  Exhausted = TRUE
SPECIFICATION PoolFairSpec
PROPERTIES
  Converges
