------------------------- MODULE MCGovernanceService -------------------------
EXTENDS GovernanceService, TLC

CONSTANTS p1, v1, v2, r1, r2, r3

MCProposals == {p1}
MCVoters == {v1, v2}
MCRequests == {r1, r2, r3}

Symmetry == Permutations(MCVoters) \cup Permutations(MCRequests)
=============================================================================
