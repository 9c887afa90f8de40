------------------------------ MODULE MCRouter -------------------------------
\* TLC instance of Router: three routes with any patterns of up to three
\* bytes, searched with every path of up to four.
EXTENDS Router

CONSTANTS s, a, b

MCChars == {s, a, b}

Strings(m) == UNION {[1 .. k -> MCChars] : k \in 0 .. m}
Absolute(m) == {<<s>> \o x : x \in Strings(m - 1)}

MCPatterns == Absolute(3) \cup {<<>>}
MCPaths == Absolute(4)
=============================================================================
