CHECK_DEADLOCK FALSE
SPECIFICATION Spec
CONSTANTS
  Wallets = {w1, w2}
  Runs = {r1}
  MaxUsers = 1
  MaxId = 2
  MaxOpen = 2
  MaxTxs = 2
  MaxFaults = 0
  None = None
INVARIANT NoSpendLeftBehind
