\* Claimants need not click, and the bounds end the run.
CHECK_DEADLOCK FALSE
SPECIFICATION FairSpec
CONSTANTS
  Keys = {k1, k2}
  Wallets = {w1}
  PoolAmount = 2
  MinReward = 1
  MaxReward = 2
  MaxClaims = 2
  Calls = {c1, c2}
  Polls = {p1}
  MaxReqs = 3
  MaxTxs = 2
  MaxFaults = 1
  None = None
INVARIANTS TypeOK PoolConserved RowsTruthful NoSecondPayment
PROPERTIES PaidIsFinal EventuallyPaid
