SPECIFICATION Spec
CONSTANTS
  w1 = w1
  w2 = w2
  buy = buy
  exit = exit
  other = other
  again = again
  Wallets = {w1, w2}
  Keys = {}
  Amounts = {}
  Notes = {buy, exit, other, again}
  NoteOf <- MCNoteOf
  MaxHeight = 4
  Blocks <- MCBlocks
  StartBlock = None
  MaxBlocks = 2
  Runs = {r1, r2}
  MaxFaults = 2
  None = None
INVARIANT CursorSound
