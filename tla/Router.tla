------------------------------- MODULE Router --------------------------------
(***************************************************************************)
(* internal/router: the prefix tree that picks the location of a request.  *)
(*                                                                         *)
(* AddRoute inserts the pattern of every location of every configured      *)
(* server into one tree, and the status page's path after them (initRoutes *)
(* in server.go); requests only search it.  Both walks go down the tree    *)
(* one byte of the pattern or path at a time, one action each.             *)
(*                                                                         *)
(* A node is a record in the sequence nodes, a pointer an index of it, nil *)
(* is 0; the root is node 1.  A handler is the number of the AddRoute call *)
(* that registered it, so that handlers of equal patterns are told apart.  *)
(***************************************************************************)
EXTENDS Integers, Sequences

CONSTANTS Chars,      \* the bytes patterns and paths are made of
          Slash,      \* '/'
          Patterns,   \* the patterns locations may have
          Paths,      \* the paths of requests
          MaxRoutes   \* bound: the number of AddRoute calls

ASSUME SlashAssumption == Slash \in Chars
ASSUME PatternsAssumption == Patterns \subseteq Seq(Chars) /\ Paths \subseteq Seq(Chars)
ASSUME RoutesAssumption == MaxRoutes \in Nat

VARIABLES nodes,     \* the nodes made so far
          routes,    \* history: routes[h] is the pattern of the h-th AddRoute
          serving,   \* New is over, and requests come in
          pc,        \* "idle", inside Insert or inside Search
          arg,       \* the parameter pattern or path
          i,         \* the loop variable i
          n,         \* the local variable n
          lastMatch, \* the local variables of Search
          lastLen,
          answer     \* the handler the request went to, 0 for 404

vars == <<nodes, routes, serving, pc, arg, i, n, lastMatch, lastLen, answer>>
locals == <<arg, i, n, lastMatch, lastLen>>

Node == [children : [Chars -> Nat], handler : Nat, prefix : Seq(Chars)]

TypeOK == /\ nodes \in Seq(Node) /\ nodes # <<>>
          /\ routes \in Seq(Seq(Chars))
          /\ serving \in BOOLEAN
          /\ pc \in {"idle", "insert", "search", "answered"}
          /\ arg \in Seq(Chars)
          /\ i \in 0 .. Len(arg)
          /\ n \in 1 .. Len(nodes)
          /\ lastMatch \in 0 .. Len(nodes)
          /\ lastLen \in 0 .. Len(arg)
          /\ answer \in 0 .. Len(routes)

-----------------------------------------------------------------------------
EmptyNode == [children |-> [ch \in Chars |-> 0], handler |-> 0, prefix |-> <<>>]

Init == /\ nodes = <<EmptyNode>>
        /\ routes = <<>>
        /\ serving = FALSE
        /\ pc = "idle"
        /\ arg = <<>> /\ i = 0 /\ n = 1
        /\ lastMatch = 0 /\ lastLen = 0
        /\ answer = 0

\* Both walks start at the root.
Start(s, at) == /\ pc = "idle"
                /\ pc' = at
                /\ arg' = s /\ i' = 0 /\ n' = 1
                /\ lastMatch' = 0 /\ lastLen' = 0

\* The locals of a walk that is over.
Drop == arg' = <<>> /\ i' = 0 /\ n' = 1 /\ lastMatch' = 0 /\ lastLen' = 0

Child == nodes[n].children[arg[i + 1]]

\* AddRoute with the next location's pattern.
AddRoute(p) ==
  /\ ~serving
  /\ Len(routes) < MaxRoutes
  /\ Start(p, "insert")
  /\ UNCHANGED <<nodes, routes, serving, answer>>

Descend_Unchecked ==
  /\ pc = "insert" /\ i < Len(arg)
  /\ n' = Child /\ i' = i + 1
  /\ UNCHANGED <<nodes, routes, serving, pc, arg, lastMatch, lastLen, answer>>

\* Insert: the child is there.
Descend ==
  /\ pc = "insert" /\ i < Len(arg)
  /\ Child # 0
  /\ n' = Child /\ i' = i + 1
  /\ UNCHANGED <<nodes, routes, serving, pc, arg, lastMatch, lastLen, answer>>

\* Insert: make the child.
Grow ==
  /\ pc = "insert" /\ i < Len(arg)
  /\ Child = 0
  /\ nodes' = Append([nodes EXCEPT ![n].children[arg[i + 1]] = Len(nodes) + 1], EmptyNode)
  /\ n' = Len(nodes') /\ i' = i + 1
  /\ UNCHANGED <<routes, serving, pc, arg, lastMatch, lastLen, answer>>

\* Insert: the node of the pattern gets its handler, in place of an earlier one.
Register ==
  /\ pc = "insert" /\ i = Len(arg)
  /\ routes' = Append(routes, arg)
  /\ nodes' = [nodes EXCEPT ![n].handler = Len(routes'), ![n].prefix = arg]
  /\ pc' = "idle"
  /\ Drop
  /\ UNCHANGED <<serving, answer>>

\* A request's path reaches Search.
Request(path) ==
  /\ Start(path, "search")
  /\ serving' = TRUE
  /\ answer' = 0
  /\ UNCHANGED <<nodes, routes>>

Follow_Shortest ==
  /\ pc = "search" /\ i < Len(arg)
  /\ Child # 0
  /\ n' = Child /\ i' = i + 1
  /\ IF nodes[Child].handler # 0 /\ lastMatch = 0
       THEN lastMatch' = Child /\ lastLen' = i + 1
       ELSE UNCHANGED <<lastMatch, lastLen>>
  /\ UNCHANGED <<nodes, routes, serving, pc, arg, answer>>

\* Search: go down, and remember a node that has a handler.
Follow ==
  /\ pc = "search" /\ i < Len(arg)
  /\ Child # 0
  /\ n' = Child /\ i' = i + 1
  /\ IF nodes[Child].handler # 0
       THEN lastMatch' = Child /\ lastLen' = i + 1
       ELSE UNCHANGED <<lastMatch, lastLen>>
  /\ UNCHANGED <<nodes, routes, serving, pc, arg, answer>>

\* The last node with a handler counts if the whole path led to it or its
\* pattern ends in '/'.
Accepted ==
  /\ lastMatch # 0
  /\ \/ lastLen = Len(arg)
     \/ LET p == nodes[lastMatch].prefix IN Len(p) > 0 /\ p[Len(p)] = Slash

\* Search: the loop ends where the path or the tree ends.
Answer ==
  /\ pc = "search"
  /\ i < Len(arg) => Child = 0
  /\ answer' = IF Accepted THEN nodes[lastMatch].handler ELSE 0
  /\ pc' = "answered"
  /\ UNCHANGED <<nodes, routes, serving, locals>>

\* The handler, or NotFound, is done; the next request can come.
Served ==
  /\ pc = "answered"
  /\ pc' = "idle"
  /\ answer' = 0
  /\ Drop
  /\ UNCHANGED <<nodes, routes, serving>>

Next == \/ \E p \in Patterns : AddRoute(p)
        \/ Descend \/ Grow \/ Register
        \/ \E p \in Paths : Request(p)
        \/ Follow \/ Answer \/ Served

Spec == Init /\ [][Next]_vars

-----------------------------------------------------------------------------
Begins(p, path) == Len(p) <= Len(path) /\ SubSeq(path, 1, Len(p)) = p

\* The routes that could serve a path: their pattern begins it.  The empty
\* pattern is stored at the root, where Search never looks.
Candidates(path) ==
  {h \in 1 .. Len(routes) : routes[h] # <<>> /\ Begins(routes[h], path)}

\* The one with the longest pattern, the last one registered if there are two.
Longest(path, h) ==
  /\ h \in Candidates(path)
  /\ \A g \in Candidates(path) :
       \/ Len(routes[g]) < Len(routes[h])
       \/ Len(routes[g]) = Len(routes[h]) /\ g <= h

\* That route serves the path if it is the whole path or ends in '/'.
Serves(path, h) ==
  /\ Longest(path, h)
  /\ routes[h] = path \/ routes[h][Len(routes[h])] = Slash

\* The tree, in whatever order it has been filled, answers as the list of
\* routes does: with the longest pattern that begins the path, and with 404
\* if that one ends in the middle of a segment.
SearchExact ==
  pc = "answered" => \/ Serves(arg, answer)
                     \/ answer = 0 /\ \A h \in 1 .. Len(routes) : ~Serves(arg, h)

\* A pattern that ends in '/' matches every path it begins, as the
\* documentation of the field path says ("/api/ matches /api/anything"):
\* whatever else is registered, such a path is not answered with 404.
PrefixServed ==
  pc = "answered" /\ answer = 0 =>
    \A h \in Candidates(arg) : routes[h][Len(routes[h])] # Slash
=============================================================================
