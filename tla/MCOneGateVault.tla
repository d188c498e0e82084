--------------------------- MODULE MCOneGateVault ---------------------------
\* Two keys over a pool that is too small for two full rewards.
EXTENDS OneGateVault
=============================================================================
