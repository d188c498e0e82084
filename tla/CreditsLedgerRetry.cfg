\* The ledger may rest: clients need not call, and the bound on ids ends the run.
CHECK_DEADLOCK FALSE
SPECIFICATION Spec
CONSTANTS
  w1 = w1
  w2 = w2
  buy = buy
  exit = exit
  buy2 = buy2
  Wallets = {w1, w2}
  Keys = {k1}
  Amounts = {2}
  Notes = {buy, exit, buy2}
  NoteOf <- MCNoteOf
  Sessions = {s1, s2}
  MaxSpend = 2
  MaxId = 5
  None = None
PROPERTY RetryGetsOriginalOutcome
