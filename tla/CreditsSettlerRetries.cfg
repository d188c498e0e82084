\* One run after the other.  Four settlements are enough for two spends and two
\* faults.  The ledger may rest.
CHECK_DEADLOCK FALSE
SPECIFICATION FairSpec
CONSTANTS
  Wallets = {w1, w2}
  Runs = {r1}
  MaxUsers = 1
  MaxId = 2
  MaxOpen = 2
  MaxTxs = 4
  MaxFaults = 2
  None = None
PROPERTY SpendsSettled
