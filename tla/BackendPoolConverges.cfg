CONSTANTS
  N = 2
  Weight <- Even
  Balances = {"round_robin"}
  Rise = 2
  Fall = 2
  MaxAttempts = 3
  Conns = {x1}
  Changes = 2
  Exhausted = FALSE
SPECIFICATION PoolFairSpec
PROPERTIES
  Converges
