--------------------------- MODULE MCResponseChain ---------------------------
\* TLC instance of ResponseChain: one request through sets of layers that each layer is
\* in, outside or inside another one, and another request and the status page at the
\* same time.
EXTENDS ResponseChain

CONSTANTS r1, r2

MCRequests == {r1, r2}
MCOthers == {r2}
MCLayerSets == {{}, {"headers", "gzip"}, {"headers", "brotli"}, {"brotli", "subfilter"}}

\* gzip alone, for the claim about it.
MCGzipSets == {{"gzip"}}
=============================================================================
