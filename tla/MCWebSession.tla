----------------------------- MODULE MCWebSession -----------------------------
(* Two wallet keys, two concurrent login() calls, three nonces. *)
EXTENDS WebSession, TLC

CONSTANTS k1, k2, l1, l2, n1, n2, n3

MCKeys == {k1, k2}
MCLogins == {l1, l2}
MCNonces == {n1, n2, n3}
=============================================================================
