CONSTANTS
  N = 2
  Weight <- Even
  Balances = {"round_robin"}
  Rise = 1
  Fall = 2
  MaxAttempts = 3
  Conns = {x1, x2}
  Changes = 1
  Exhausted = FALSE
SPECIFICATION PoolSpec
PROPERTIES
  OnlyProbesReturn
