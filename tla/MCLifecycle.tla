----------------------------- MODULE MCLifecycle ------------------------------
\* TLC instance of Lifecycle: two TLS listeners, one of them with HTTP/3, and a
\* cleartext one.
EXTENDS Lifecycle

MCTLS == {1, 2}
MCHTTP3 == {1}
=============================================================================
