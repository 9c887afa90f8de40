----------------------------- MODULE MCWebSocket -----------------------------
\* TLC instance of WebSocket: one upgrade at a time to two backends.
EXTENDS WebSocket

CONSTANT c1

MCCallers == {c1}
=============================================================================
