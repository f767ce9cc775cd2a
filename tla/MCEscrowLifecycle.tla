-------------------------- MODULE MCEscrowLifecycle --------------------------
EXTENDS EscrowLifecycle, TLC

CONSTANTS e1, e2, w1, w2, s1, s2

\* Races on one escrow: two webhook handlers and two overlapping ticks.
MCOneEscrow == {e1}
MCTwoWebhooks == {w1, w2}
MCTwoSweepers == {s1, s2}

\* A tick that finds several escrows, against one webhook handler.
MCTwoEscrows == {e1, e2}
MCOneWebhook == {w1}
MCOneSweeper == {s1}

\* Webhook handlers are interchangeable, and so are ticks.
Symmetry == Permutations(MCTwoWebhooks) \cup Permutations(MCTwoSweepers)
=============================================================================
