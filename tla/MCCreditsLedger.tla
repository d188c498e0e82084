-------------------------- MODULE MCCreditsLedger --------------------------
\* Two wallets: w1 buys 2 credits and exits on chain, w2 never buys enough.
EXTENDS CreditsLedger

CONSTANTS w1, w2, buy, exit, buy2

MCNoteOf ==
  [n \in {buy, exit, buy2} |->
    CASE n = buy  -> [kind |-> "purchase", wallet |-> w1, credits |-> 2]
      [] n = exit -> [kind |-> "exit", wallet |-> w1, credits |-> 2]
      [] n = buy2 -> [kind |-> "purchase", wallet |-> w2, credits |-> 1]]
=============================================================================
