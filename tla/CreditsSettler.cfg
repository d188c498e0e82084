\* Two runs that may overlap.  Ledger and settler may rest, and the bound on
\* settlements ends the runs.
CHECK_DEADLOCK FALSE
SPECIFICATION Spec
SYMMETRY Alike
CONSTANTS
  Wallets = {w1, w2}
  Runs = {r1, r2}
  MaxUsers = 1
  MaxId = 2
  MaxOpen = 2
  MaxTxs = 3
  MaxFaults = 1
  None = None
INVARIANTS TypeOK ConfirmedSettled ExactWindows
PROPERTY NeverPreparedAgain
