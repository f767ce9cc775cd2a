--------------------------- MODULE MCWalletAccount ---------------------------
EXTENDS WalletAccount, TLC

CONSTANTS u1, u2, a1, a2, a3, c1, c2, c3, lb

MCUsers == {u1, u2}
MCAddresses == {a1, a2, a3}
MCChallenges == {c1, c2, c3}
MCLabels == {lb}

\* Users, addresses and nonces are interchangeable ids.
Symmetry ==
    Permutations(MCUsers) \cup Permutations(MCAddresses) \cup Permutations(MCChallenges)
=============================================================================
