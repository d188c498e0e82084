-------------------------- MODULE MCCreditsIndexer --------------------------
\* Block 1 deploys the contract.  Then w1 buys, exits in the block where w2
\* buys, and buys again: an exit and a purchase of one block, and a wallet
\* whose exit stands between two purchases.
EXTENDS CreditsIndexer

CONSTANTS w1, w2, buy, exit, other, again

MCNoteOf ==
  [n \in {buy, exit, other, again} |->
    CASE n = buy   -> [kind |-> "purchase", wallet |-> w1, credits |-> 2]
      [] n = exit  -> [kind |-> "exit", wallet |-> w1, credits |-> 2]
      [] n = other -> [kind |-> "purchase", wallet |-> w2, credits |-> 1]
      [] n = again -> [kind |-> "purchase", wallet |-> w1, credits |-> 1]]

MCBlocks == <<<<>>, <<buy>>, <<exit, other>>, <<again>>>>
=============================================================================
