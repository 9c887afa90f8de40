----------------------------- MODULE MCLimitConn -----------------------------
\* TLC instance of LimitConn: three requests from two clients at two locations.
EXTENDS LimitConn, TLC

CONSTANTS r1, r2, r3, h1, h2, p1, p2, l1, l2

MCRequests == {r1, r2, r3}
MCHosts == {h1, h2}
MCPorts == {p1, p2}
MCLocations == {l1, l2}
=============================================================================
