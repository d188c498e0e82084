----------------------------- MODULE MCServices -----------------------------
EXTENDS Services, TLC

\* Calls are alike, and so are manifests and addresses.  The services take their
\* values from the same sets, so that one permutation serves them all.
ASSUME SharedValues ==
  AdminCalls = SponsorCalls /\ AdminCalls = LoginCalls /\ Contents = Addresses

Alike == Permutations(AdminCalls) \cup Permutations(Contents)
=============================================================================
