CHECK_DEADLOCK FALSE
SPECIFICATION Spec
CONSTANTS
  Wallets = {w1}
  Runs = {r1}
  MaxUsers = 1
  MaxId = 1
  MaxOpen = 1
  MaxTxs = 2
  MaxFaults = 1
  None = None
INVARIANT NoDoubleSettlement
