\* Claimants need not click, and the bounds end the run.
CHECK_DEADLOCK FALSE
SPECIFICATION Spec
CONSTANTS
  Keys = {k1}
  Wallets = {w1}
  PoolAmount = 2
  MinReward = 1
  MaxReward = 2
  MaxClaims = 2
  Calls = {c1, c2}
  Polls = {p1}
  MaxReqs = 3
  MaxTxs = 3
  MaxFaults = 0
  None = None
INVARIANT PaidOnce
