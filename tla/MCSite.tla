-------------------------------- MODULE MCSite --------------------------------
\* TLC instance of Site: every list of up to three locations with patterns of up
\* to three bytes, all of them proxies, and a few sites with every
\* other handler.
EXTENDS Site, TLC

CONSTANTS s, a, b, x

MCBytes == {s, a, b, x}

Strings(m) == UNION {[1 .. k -> {s, a, b}] : k \in 0 .. m}
Rooted(m) == {<<s>> \o z : z \in Strings(m - 1)}

MCPatterns == Rooted(3) \cup {<<>>}
MCPaths == Rooted(4) \cup {<<s, x>>, <<s, b, s, x>>}

Proxy(p) == [path |-> p, proxy |-> "known", root |-> FALSE, files |-> <<>>, autoindex |-> FALSE,
             other |-> "none", redirects |-> FALSE]
Static(p) == [Proxy(p) EXCEPT !.proxy = "no", !.root = TRUE]
Listing(p) == [Static(p) EXCEPT !.autoindex = TRUE]

Fixed(p, kind, redirects) ==
  [Proxy(p) EXCEPT !.proxy = "no", !.other = kind, !.redirects = redirects]

Uri0 == [code |-> FALSE, before |-> <<>>, uri |-> TRUE, after |-> <<>>]
UriSlash == [Uri0 EXCEPT !.after = <<s>>]
Fallback(p) == [code |-> FALSE, before |-> p, uri |-> FALSE, after |-> <<>>]
Code == [Fallback(<<>>) EXCEPT !.code = TRUE]

Try(p, fs) == [Static(p) EXCEPT !.files = fs]

MCSites ==
  UNION {[1 .. k -> {Proxy(p) : p \in MCPatterns}] : k \in 0 .. 3}
    \cup {<<Static(<<s>>), Listing(<<s, a, s>>)>>, <<Listing(<<s>>), Try(<<s, a>>, <<Uri0>>)>>,
          <<Try(<<s>>, <<Uri0, UriSlash, Code>>)>>,
          <<Proxy(<<s, b, s>>), Try(<<s>>, <<Uri0, Fallback(<<s, x>>)>>)>>,
          <<[Try(<<s>>, <<UriSlash, Fallback(<<b>>)>>) EXCEPT !.autoindex = TRUE],
            [Static(<<s, a>>) EXCEPT !.proxy = "unknown"]>>,
          <<Fixed(<<s>>, "return", FALSE), Fixed(<<s, a>>, "rewrite", TRUE),
            [Fixed(<<s, b, s>>, "rewrite", TRUE) EXCEPT !.root = TRUE]>>,
          <<Fixed(<<s>>, "return", TRUE), Fixed(<<s, a>>, "rewrite", FALSE),
            Fixed(<<s, b, s>>, "none", FALSE)>>}

\* Files "index.html" and "a", of which one is there at first, and a directory "b"
\* that may have an index.
MCTrees ==
  {(<<x>> :> f[1] @@ <<a>> :> f[2] @@ <<b>> :> d[1] @@ <<b, s, x>> :> d[2]) :
     f \in {<<1, None>>, <<None, 2>>}, d \in {<<None, None>>, <<Dir, None>>, <<Dir, 3>>}}
=============================================================================
