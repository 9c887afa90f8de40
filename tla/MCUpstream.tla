------------------------------ MODULE MCUpstream ------------------------------
\* TLC instance of Upstream: one request and the WebSocket upgrades that take
\* turns of the balancer meanwhile.
EXTENDS Upstream

CONSTANTS c1, c2

MCCallers == {c1, c2}
MCUpgrades == {c2}
=============================================================================
