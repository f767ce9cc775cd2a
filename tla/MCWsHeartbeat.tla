---------------------------- MODULE MCWsHeartbeat ----------------------------
EXTENDS WsHeartbeat, TLC

CONSTANTS c1, c2, c3

\* One peer of each kind: responsive, dead, and one that answers at will.
MCConns == {c1, c2, c3}
MCResponsive == {c1}
MCDead == {c2}
=============================================================================
