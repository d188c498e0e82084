-------------------------- MODULE MCCreditsSettler --------------------------
\* Settler runs over the spends of two wallets, with batches of one wallet:
\* a batch may leave spends of the other wallet for the next epoch.
EXTENDS CreditsSettler, TLC

\* Neither runs nor wallets are chosen by name.
Alike == Permutations(Runs) \cup Permutations(Wallets)
=============================================================================
