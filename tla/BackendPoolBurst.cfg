CONSTANTS
  N = 2
  Weight <- Uneven
  Balances = {"weighted"}
  Rise = 2
  Fall = 2
  MaxAttempts = 3
  Conns = {x1}
  Changes = 1
  Exhausted = FALSE
SPECIFICATION PoolSpec
PROPERTIES
  CleanReturn
