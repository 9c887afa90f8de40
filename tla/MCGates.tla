------------------------------- MODULE MCGates -------------------------------
\* TLC instance of Gates: two requests at a time.  The first two configurations
\* leave everything to the rate limiter, the others turn on one gate after the other.
\* The settings have a burst below, at and above the rate, the default rate, half a
\* token per second, and a default burst that rounds to nothing.
\* Configurations that differ in a split or a size only get traffic that is
\* refused at the door, as the properties about them need no more.
EXTENDS Gates

CONSTANTS c1, c2, h1, h2, h6

MCCallers == {c1, c2}
MCHosts == {h1, h2, h6}
MCV6 == {h6}

MCKeys == [host : MCHosts, port : 0 .. 2]

PerSecond(n, b) == [number |-> n, unit |-> "s", short |-> FALSE, burst |-> b]
PerMinute(n, b) == [number |-> n, unit |-> "m", short |-> FALSE, burst |-> b]

NoSize == [parses |-> FALSE, number |-> 0, suffix |-> ""]

Size(n, unit) == [parses |-> TRUE, number |-> n, suffix |-> unit]

Plain(h, p) == [host |-> h, port |-> p, forwarded |-> <<NoHost, NoHost>>,
                authorised |-> TRUE, body |-> 0, declared |-> TRUE]

NoMap == [slot |-> 0, rules |-> <<>>, default |-> NoHost]

Bare == [rate |-> PerSecond(1, 0), limited |-> FALSE, realip |-> FALSE, auth |-> FALSE,
         size |-> NoSize, access |-> <<>>, map |-> NoMap,
         split |-> FALSE, rules |-> <<>>, default |-> 0,
         traffic |-> {Plain(h1, 1), Plain(h1, 2)}]

Rated == {[Bare EXCEPT !.rate = r] : r \in {PerSecond(0, 1), PerSecond(1, 0)}}

\* limit_conn with realip, sizes and rules: a client behind two connections of
\* a proxy, one that access denies, and a body at and above the limit.
Limited ==
  [Bare EXCEPT
     !.rate = PerMinute(30, 2), !.limited = TRUE, !.realip = TRUE, !.size = Size(2, "kb"),
     !.access = <<[allow |-> {}, deny |-> {}], [allow |-> {}, deny |-> {h2}]>>,
     !.traffic = {[Plain(h2, 1) EXCEPT !.forwarded = <<NoHost, h1>>, !.body = 32],
                  [Plain(h2, 2) EXCEPT !.forwarded = <<h1, h2>>, !.body = 33, !.declared = FALSE],
                  [Plain(h1, 1) EXCEPT !.forwarded = <<h1, NoHost>>, !.body = 33],
                  [Plain(h1, 1) EXCEPT !.forwarded = <<h2, NoHost>>]}]

\* The map fills the header realip looks at first; IPv6 clients come directly
\* and through a proxy.
Mapped ==
  [Bare EXCEPT
     !.rate = PerMinute(30, 0), !.limited = TRUE, !.realip = TRUE, !.size = Size(3, ""),
     !.map = [slot |-> 1, rules |-> <<[on |-> {h1}, value |-> h6], [on |-> {h1, h6}, value |-> h1]>>,
              default |-> NoHost],
     !.access = <<[allow |-> {h1}, deny |-> {h1, h6}], [allow |-> {}, deny |-> {h2}]>>,
     !.traffic = {[Plain(h1, 1) EXCEPT !.forwarded = <<h2, NoHost>>, !.body = 3],
                  [Plain(h2, 1) EXCEPT !.forwarded = <<h1, h6>>],
                  [Plain(h6, 2) EXCEPT !.body = 4, !.declared = FALSE]}]

Refused == [Bare EXCEPT !.auth = TRUE,
                        !.traffic = {[Plain(h1, 1) EXCEPT !.authorised = FALSE]}]

Sized == {[Refused EXCEPT !.size = s] :
            s \in [parses : BOOLEAN, number : {0, 1, 7, 8, 127, 128, 5000},
                   suffix : {"", "k", "kb", "m", "mb", "g", "gb", "kib"}]}

Rule(p, v) == [percent |-> p, value |-> v]

Splits == {<<>>, <<Rule(50000, 1)>>, <<Rule(50000, 2), Rule(50000, 1)>>,
           <<Rule(33300, 1), Rule(33300, 2), Rule(33400, 3)>>,
           <<Rule(10000, 3), Rule(500, 1), Rule(20100, 2)>>,
           <<Rule(80000, 1), Rule(0, 2), Rule(40000, 3)>>,
           <<Rule(70000, 1), Rule(40000, 2), Rule(10000, 3)>>,
           <<Rule(100000, 2)>>, <<Rule(20000, 1), Rule(30000, 1)>>}

Split == {[Refused EXCEPT !.split = TRUE, !.rules = r, !.default = d] :
            r \in Splits, d \in {0, 2, 9}}

MCSetups == Rated \cup {Limited, Mapped} \cup Sized \cup Split

MCSettings == {s.rate : s \in MCSetups}
=============================================================================
