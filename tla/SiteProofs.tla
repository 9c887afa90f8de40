------------------------------ MODULE SiteProofs ------------------------------
(***************************************************************************)
(* Proofs about Router and Site for all patterns, all paths and all trees  *)
(* of files.  Every node of the prefix tree stands for one string, the     *)
(* bytes on the way to it from the root; Spells ties that naming of the    *)
(* nodes to the routes and to the two walks, and what Search answers       *)
(* follows.  The steps of Site are steps of Router or leave it alone.      *)
(***************************************************************************)
EXTENDS Site, FiniteSetTheorems, WellFoundedInduction, TLAPS

\* A prefix of a string is a string, and the next one appends a byte to it.
LEMMA Prefix ==
  ASSUME NEW s \in Seq(Chars), NEW k \in 0 .. Len(s)
  PROVE  /\ SubSeq(s, 1, k) \in Seq(Chars) /\ Len(SubSeq(s, 1, k)) = k
         /\ SubSeq(s, 1, Len(s)) = s
         /\ k < Len(s) => /\ s[k + 1] \in Chars
                          /\ SubSeq(s, 1, k + 1) = Append(SubSeq(s, 1, k), s[k + 1])
         /\ \A j \in 0 .. k : SubSeq(SubSeq(s, 1, k), 1, j) = SubSeq(s, 1, j)
OBVIOUS

\* Appending is injective, and leaves what was there.
LEMMA Appended ==
  ASSUME NEW s \in Seq(Chars), NEW t \in Seq(Chars), NEW a \in Chars, NEW b \in Chars
  PROVE  /\ Append(s, a) \in Seq(Chars) /\ Len(Append(s, a)) = Len(s) + 1
         /\ Append(s, a) = Append(t, b) => s = t /\ a = b
         /\ \A k \in 0 .. Len(s) : SubSeq(Append(s, a), 1, k) = SubSeq(s, 1, k)
<1>1. ASSUME Append(s, a) = Append(t, b) PROVE s = t /\ a = b
  <2>1. Len(s) = Len(t)
    BY <1>1
  <2>2. \A k \in 1 .. Len(s) : s[k] = Append(s, a)[k] /\ t[k] = Append(t, b)[k]
    BY <2>1
  <2>3. a = Append(s, a)[Len(s) + 1] /\ b = Append(t, b)[Len(t) + 1]
    OBVIOUS
  <2> QED BY <1>1, <2>1, <2>2, <2>3
<1> QED BY <1>1
-----------------------------------------------------------------------------
Nodes == 1 .. Len(nodes)
Handlers == 1 .. Len(routes)

\* str names every node by the bytes that lead to it from the root: no two
\* nodes have one name, children are where their names say, and no name has a
\* gap before it.
Named(str) ==
  /\ str \in [Nodes -> Seq(Chars)]
  /\ str[1] = <<>>
  /\ \A x, y \in Nodes : str[x] = str[y] => x = y
  /\ \A x \in Nodes, ch \in Chars : nodes[x].children[ch] \in 0 .. Len(nodes)
  /\ \A x, y \in Nodes, ch \in Chars :
       nodes[x].children[ch] = y <=> str[y] = Append(str[x], ch)
  /\ \A y \in Nodes : \A k \in 0 .. Len(str[y]) : \E x \in Nodes : str[x] = SubSeq(str[y], 1, k)

\* A node has the last route of its name, and every route has its node.
Routed(str) ==
  /\ \A x \in Nodes : nodes[x].handler # 0 =>
       /\ nodes[x].handler \in Handlers
       /\ routes[nodes[x].handler] = str[x]
       /\ nodes[x].prefix = str[x]
  /\ \A h \in Handlers : \E x \in Nodes : str[x] = routes[h] /\ h <= nodes[x].handler

\* A walk is where the bytes it has read lead, and Search remembers the last
\* node below the root that had a handler.
Walked(str) ==
  /\ str[n] = SubSeq(arg, 1, i)
  /\ pc \in {"search", "answered"} =>
       /\ lastLen \in 0 .. i
       /\ lastMatch # 0 => /\ 0 < lastLen
                           /\ str[lastMatch] = SubSeq(arg, 1, lastLen)
                           /\ nodes[lastMatch].handler # 0
       /\ lastMatch = 0 => lastLen = 0
       /\ \A x \in Nodes : \A k \in lastLen + 1 .. i :
            str[x] = SubSeq(arg, 1, k) => nodes[x].handler = 0

Spelled == \E str : Named(str) /\ Routed(str) /\ Walked(str)

RouterInv == TypeOK /\ Spelled /\ SearchExact

\* One step of the tree, whatever pattern or path it is for.
TreeStep ==
  \/ \E p \in Seq(Chars) : AddRoute(p) \/ Request(p)
  \/ Descend \/ Grow \/ Register \/ Follow \/ Answer \/ Served

\* The tree of the router and its places.
LEMMA NodesTyped ==
  ASSUME TypeOK
  PROVE  /\ Len(nodes) \in Nat /\ 1 \in Nodes /\ n \in Nodes /\ n \in Nat
         /\ \A x \in Nodes : nodes[x] \in Node
         /\ \A h \in Handlers : routes[h] \in Seq(Chars)
<1> DEFINE R == Node
<1>1. nodes \in Seq(R) /\ nodes # <<>> /\ n \in 1 .. Len(nodes) /\ routes \in Seq(Seq(Chars))
  BY DEF TypeOK
<1> HIDE DEF R
<1>2. \A x \in Nodes : nodes[x] \in R
  BY <1>1 DEF Nodes
<1>3. Len(nodes) \in Nat /\ 1 \in Nodes /\ n \in Nodes /\ n \in Nat
  BY <1>1 DEF Nodes
<1>4. \A h \in Handlers : routes[h] \in Seq(Chars)
  BY <1>1 DEF Handlers
<1> QED BY <1>2, <1>3, <1>4 DEF R

\* The first walk starts at a tree that has only its root.
LEMMA RouterInit == Init => RouterInv
<1> SUFFICES ASSUME Init PROVE RouterInv
  OBVIOUS
<1>1. EmptyNode \in Node
  BY DEF EmptyNode, Node
<1>2. TypeOK
  <2> DEFINE R == Node
             e == EmptyNode
  <2>1. e \in R /\ nodes = <<e>>
    BY <1>1 DEF Init
  <2> HIDE DEF R, e
  <2>2. nodes \in Seq(R) /\ nodes # <<>> /\ Len(nodes) = 1
    BY <2>1
  <2>3. nodes \in Seq(Node) /\ nodes # <<>>
    BY <2>2 DEF R
  <2>4. n \in 1 .. Len(nodes) /\ lastMatch \in 0 .. Len(nodes)
    BY <2>2 DEF Init
  <2>5. /\ routes \in Seq(Seq(Chars)) /\ arg \in Seq(Chars) /\ i \in 0 .. Len(arg)
        /\ lastLen \in 0 .. Len(arg) /\ answer \in 0 .. Len(routes)
    BY DEF Init
  <2> QED BY <2>3, <2>4, <2>5 DEF TypeOK, Init
<1>3. Spelled
  <2> DEFINE str == [x \in {1} |-> <<>>]
  <2>1. Len(nodes) = 1 /\ Nodes = {1} /\ Handlers = {} /\ nodes[1] = EmptyNode
    BY DEF Init, Nodes, Handlers
  <2>2. Named(str)
    <3>1. \A ch \in Chars : nodes[1].children[ch] = 0
      <4>1. \A ch \in Chars : EmptyNode.children[ch] = 0
        BY Zenon DEF EmptyNode
      <4> QED BY <2>1, <4>1
    <3>2. \A ch \in Chars : <<>> # Append(<<>>, ch)
      BY Appended
    <3>3. \A k \in 0 .. Len(<<>>) : SubSeq(<<>>, 1, k) = <<>>
      OBVIOUS
    <3>4. str \in [Nodes -> Seq(Chars)] /\ str[1] = <<>>
      BY <2>1
    <3> QED BY <2>1, <3>1, <3>2, <3>3, <3>4 DEF Named
  <2>3. Routed(str)
    BY <2>1 DEF Routed, EmptyNode
  <2>4. Walked(str)
    BY <2>1 DEF Walked, Init
  <2> QED BY <2>2, <2>3, <2>4 DEF Spelled
<1> QED BY <1>2, <1>3 DEF RouterInv, SearchExact, Init
-----------------------------------------------------------------------------
\* The child for the next byte is the node of the bytes read so far and that one,
\* and if there is no child there is no such node.
LEMMA Leads ==
  ASSUME TypeOK, NEW str, Named(str), str[n] = SubSeq(arg, 1, i), i < Len(arg)
  PROVE  /\ arg[i + 1] \in Chars /\ Child \in 0 .. Len(nodes)
         /\ SubSeq(arg, 1, i + 1) = Append(str[n], arg[i + 1])
         /\ \A x \in Nodes : Child = x <=> str[x] = SubSeq(arg, 1, i + 1)
<1>1. arg \in Seq(Chars) /\ i \in 0 .. Len(arg)
  BY DEF TypeOK
<1>2. arg[i + 1] \in Chars /\ SubSeq(arg, 1, i + 1) = Append(str[n], arg[i + 1])
  BY <1>1, Prefix
<1>3. n \in Nodes
  BY NodesTyped
<1> DEFINE b == arg[i + 1]
<1>4. b \in Chars /\ SubSeq(arg, 1, i + 1) = Append(str[n], b) /\ Child = nodes[n].children[b]
  BY <1>2 DEF Child
<1> HIDE DEF b
<1>5. Child \in 0 .. Len(nodes) /\ \A x \in Nodes : Child = x <=> str[x] = Append(str[n], b)
  <2>1. \A x \in Nodes, ch \in Chars : nodes[x].children[ch] \in 0 .. Len(nodes)
    BY DEF Named
  <2>2. \A x, y \in Nodes, ch \in Chars :
          nodes[x].children[ch] = y <=> str[y] = Append(str[x], ch)
    BY DEF Named
  <2>3. nodes[n].children[b] \in 0 .. Len(nodes)
    BY <1>3, <1>4, <2>1
  <2>4. \A x \in Nodes : nodes[n].children[b] = x <=> str[x] = Append(str[n], b)
    <3> SUFFICES ASSUME NEW x \in Nodes
                 PROVE  nodes[n].children[b] = x <=> str[x] = Append(str[n], b)
      OBVIOUS
    <3> QED BY <1>3, <1>4, <2>2
  <2> QED BY <1>4, <2>3, <2>4
<1> QED BY <1>2, <1>4, <1>5

\* A step that leaves the tree alone keeps its names and its routes.
LEMMA TreeKept ==
  ASSUME NEW str, Named(str), Routed(str), UNCHANGED <<nodes, routes>>
  PROVE  Named(str)' /\ Routed(str)'
<1>1. Nodes' = Nodes /\ Handlers' = Handlers
  BY DEF Nodes, Handlers
<1> QED BY <1>1 DEF Named, Routed

\* A walk begins.
LEMMA StartStep ==
  ASSUME RouterInv, NEW p \in Seq(Chars), AddRoute(p) \/ Request(p)
  PROVE  RouterInv'
<1>1. /\ UNCHANGED <<nodes, routes>> /\ arg' = p /\ i' = 0 /\ n' = 1 /\ lastMatch' = 0
      /\ lastLen' = 0 /\ pc' \in {"insert", "search"} /\ serving' \in BOOLEAN
      /\ answer' \in {0, answer}
  BY DEF AddRoute, Request, Start, RouterInv, TypeOK
<1>2. TypeOK'
  <2>1. TypeOK /\ 1 \in Nodes /\ Len(nodes) \in Nat
    BY NodesTyped DEF RouterInv
  <2> QED BY <1>1, <2>1 DEF TypeOK, Nodes
<1>3. Spelled'
  <2>1. PICK str : Named(str) /\ Routed(str)
    BY DEF RouterInv, Spelled
  <2>2. Walked(str)'
    <3>1. str[1] = SubSeq(p, 1, 0)
      BY <2>1, Prefix DEF Named
    <3> QED BY <1>1, <3>1 DEF Walked
  <2> QED BY <1>1, <2>1, <2>2, TreeKept DEF Spelled
<1> QED BY <1>1, <1>2, <1>3 DEF RouterInv, SearchExact

\* A walk goes down.
LEMMA DownStep ==
  ASSUME RouterInv, Descend \/ Follow
  PROVE  RouterInv'
<1>1. PICK str : Named(str) /\ Routed(str) /\ Walked(str)
  BY DEF RouterInv, Spelled
<1>2. /\ TypeOK /\ i < Len(arg) /\ Child # 0 /\ n' = Child /\ i' = i + 1
      /\ UNCHANGED <<nodes, routes, serving, pc, arg, answer>> /\ pc \in {"insert", "search"}
      /\ arg \in Seq(Chars) /\ i \in 0 .. Len(arg) /\ lastLen \in 0 .. Len(arg)
  BY DEF Descend, Follow, RouterInv, TypeOK
<1>3. /\ Child \in Nodes /\ str[Child] = SubSeq(arg, 1, i + 1)
      /\ \A x \in Nodes : str[x] = SubSeq(arg, 1, i + 1) => x = Child
  <2> DEFINE c == Child
  <2>1. /\ c \in 0 .. Len(nodes)
        /\ \A x \in Nodes : c = x <=> str[x] = SubSeq(arg, 1, i + 1)
    BY <1>1, <1>2, Leads DEF Walked
  <2>2. c # 0 /\ Len(nodes) \in Nat
    BY <1>2, NodesTyped
  <2> HIDE DEF c
  <2>3. c \in Nodes
    BY <2>1, <2>2 DEF Nodes
  <2>4. c \in Nodes /\ str[c] = SubSeq(arg, 1, i + 1)
        /\ \A x \in Nodes : str[x] = SubSeq(arg, 1, i + 1) => x = c
    BY <2>1, <2>3
  <2> QED BY <2>4 DEF c
<1>4. /\ pc = "insert" => UNCHANGED <<lastMatch, lastLen>>
      /\ pc = "search" => IF nodes[Child].handler # 0
                          THEN lastMatch' = Child /\ lastLen' = i + 1
                          ELSE UNCHANGED <<lastMatch, lastLen>>
  BY DEF Descend, Follow
<1> DEFINE c == Child
<1> HIDE DEF c
<1>5. c \in Nodes /\ n' = c /\ i' = i + 1 /\ i' \in 0 .. Len(arg)
  BY <1>2, <1>3 DEF c
<1>6. TypeOK'
  <2>1. lastMatch' \in 0 .. Len(nodes) /\ lastLen' \in 0 .. Len(arg)
    <3>1. lastMatch \in 0 .. Len(nodes)
      BY <1>2 DEF TypeOK
    <3> QED BY <1>2, <1>3, <1>4, <3>1 DEF Nodes
  <2> QED BY <1>2, <1>5, <2>1 DEF TypeOK, Nodes
<1>7. Walked(str)'
  <2>1. Nodes' = Nodes
    BY <1>2 DEF Nodes
  <2>2. (str[n] = SubSeq(arg, 1, i))'
    BY <1>2, <1>3
  <2>3. CASE pc = "insert"
    BY <1>2, <2>2, <2>3 DEF Walked
  <2>4. CASE pc = "search"
    <3>1. /\ lastLen \in 0 .. i
          /\ lastMatch # 0 => /\ 0 < lastLen
                              /\ str[lastMatch] = SubSeq(arg, 1, lastLen)
                              /\ nodes[lastMatch].handler # 0
          /\ lastMatch = 0 => lastLen = 0
          /\ \A x \in Nodes : \A k \in lastLen + 1 .. i :
               str[x] = SubSeq(arg, 1, k) => nodes[x].handler = 0
      BY <1>1, <2>4 DEF Walked
    <3>2. CASE nodes[Child].handler # 0
      <4>1. lastMatch' = Child /\ lastLen' = i + 1 /\ Child # 0
        BY <1>2, <1>4, <2>4, <3>2
      <4> QED BY <1>2, <1>3, <2>1, <2>2, <3>2, <4>1 DEF Walked
    <3>3. CASE nodes[Child].handler = 0
      <4>1. UNCHANGED <<lastMatch, lastLen>>
        BY <1>4, <2>4, <3>3
      <4>2. ASSUME NEW x \in Nodes, NEW k \in lastLen + 1 .. i + 1, str[x] = SubSeq(arg, 1, k)
            PROVE  nodes[x].handler = 0
        <5>1. CASE k = i + 1
          BY <1>3, <3>3, <4>2, <5>1
        <5>2. CASE k # i + 1
          <6>1. k \in lastLen + 1 .. i
            BY <1>2, <3>1, <5>2
          <6> QED BY <3>1, <4>2, <6>1
        <5> QED BY <5>1, <5>2
      <4> QED BY <1>2, <2>1, <2>2, <3>1, <4>1, <4>2 DEF Walked
    <3> QED BY <3>2, <3>3
  <2> QED BY <1>2, <2>3, <2>4
<1>8. Spelled'
  BY <1>1, <1>2, <1>7, TreeKept DEF Spelled
<1> QED BY <1>2, <1>6, <1>8 DEF RouterInv, SearchExact

\* Insert makes a node, and the name of it is new.
LEMMA GrowStep ==
  ASSUME RouterInv, Grow
  PROVE  RouterInv'
<1> DEFINE b == arg[i + 1]
           new == Len(nodes) + 1
           R == Node
<1>1. PICK str : Named(str) /\ Routed(str) /\ Walked(str)
  BY DEF RouterInv, Spelled
<1>2. /\ TypeOK /\ pc = "insert" /\ i < Len(arg) /\ Child = 0 /\ i' = i + 1
      /\ n' = Len(nodes')
      /\ nodes' = Append([nodes EXCEPT ![n].children[b] = new], EmptyNode)
      /\ UNCHANGED <<routes, serving, pc, arg, lastMatch, lastLen, answer>>
      /\ arg \in Seq(Chars) /\ i \in 0 .. Len(arg) /\ lastLen \in 0 .. Len(arg)
      /\ lastMatch \in 0 .. Len(nodes)
  BY DEF Grow, RouterInv, TypeOK
<1>3. /\ b \in Chars /\ SubSeq(arg, 1, i + 1) = Append(str[n], b)
      /\ \A x \in Nodes : str[x] # Append(str[n], b)
  <2>1. \A x \in Nodes : x # 0
    BY NodesTyped, <1>2 DEF Nodes
  <2> QED BY <1>1, <1>2, <2>1, Leads DEF Walked
<1>4. /\ n \in Nodes /\ nodes \in Seq(R) /\ Len(nodes) \in Nat /\ 1 \in Nodes
      /\ \A x \in Nodes : nodes[x] \in R
  BY <1>2, NodesTyped DEF TypeOK
<1> HIDE DEF b, new, R
<1>5. /\ EmptyNode \in R /\ EmptyNode.handler = 0
      /\ \A ch \in Chars : EmptyNode.children[ch] = 0
  <2>1. EmptyNode.handler = 0 /\ \A ch \in Chars : EmptyNode.children[ch] = 0
    BY Zenon DEF EmptyNode
  <2>2. EmptyNode \in R
    BY DEF EmptyNode, R, Node
  <2> QED BY <2>1, <2>2
<1>6. \A u \in R : [u EXCEPT !.children[b] = new] \in R
  <2> DEFINE K == [Chars -> Nat]
  <2>1. new \in Nat
    BY <1>4 DEF new
  <2>2. \A f \in K : [f EXCEPT ![b] = new] \in K
    BY <1>3, <2>1
  <2>3. R = [children : K, handler : Nat, prefix : Seq(Chars)]
    BY DEF R, Node
  <2> HIDE DEF K
  <2>4. \A u \in R : [u EXCEPT !.children = [u.children EXCEPT ![b] = new]] \in R
    BY <2>2, <2>3
  <2> QED BY <2>4
<1>7. /\ nodes' \in Seq(R) /\ Len(nodes') = new /\ nodes'[new] = EmptyNode
      /\ \A x \in Nodes : nodes'[x] = IF x = n THEN [nodes[x] EXCEPT !.children[b] = new]
                                               ELSE nodes[x]
  <2> DEFINE v == [nodes[n] EXCEPT !.children[b] = new]
  <2>1. v \in R
    BY <1>4, <1>6
  <2>2. nodes' = Append([nodes EXCEPT ![n] = v], EmptyNode)
    BY <1>2 DEF new
  <2> HIDE DEF v
  <2>3. /\ nodes' \in Seq(R) /\ Len(nodes') = new /\ nodes'[new] = EmptyNode
        /\ \A x \in Nodes : nodes'[x] = IF x = n THEN v ELSE nodes[x]
    BY <1>4, <1>5, <2>1, <2>2 DEF new, Nodes
  <2> QED BY <2>3 DEF v
<1>8. Nodes' = Nodes \cup {new} /\ new \notin Nodes /\ new # 0 /\ new \in Nat /\ 1 \in Nodes'
      /\ \A x \in Nodes : x \in 0 .. new
  BY <1>4, <1>7 DEF Nodes, new
<1>9. \A x \in Nodes :
        /\ nodes'[x].handler = nodes[x].handler
        /\ nodes'[x].prefix = nodes[x].prefix
        /\ \A ch \in Chars : nodes'[x].children[ch] =
                               IF x = n /\ ch = b THEN new ELSE nodes[x].children[ch]
  <2> SUFFICES ASSUME NEW x \in Nodes
               PROVE  /\ nodes'[x].handler = nodes[x].handler
                      /\ nodes'[x].prefix = nodes[x].prefix
                      /\ \A ch \in Chars : nodes'[x].children[ch] =
                               IF x = n /\ ch = b THEN new ELSE nodes[x].children[ch]
    OBVIOUS
  <2> DEFINE u == nodes[x]
             w == nodes'[x]
  <2>1. u \in R /\ w = IF x = n THEN [u EXCEPT !.children[b] = new] ELSE u
    BY <1>4, <1>7
  <2> HIDE DEF u, w
  <2>2. /\ w.handler = u.handler /\ w.prefix = u.prefix
        /\ \A ch \in Chars : w.children[ch] = IF x = n /\ ch = b THEN new ELSE u.children[ch]
    BY <2>1 DEF R, Node
  <2> QED BY <2>2 DEF u, w
<1>10. TypeOK'
  <2>1. nodes' \in Seq(Node) /\ nodes' # <<>>
    BY <1>7, <1>8 DEF R, Nodes
  <2>2. n' \in 1 .. Len(nodes') /\ lastMatch' \in 0 .. Len(nodes') /\ i' \in 0 .. Len(arg)
    BY <1>2, <1>4, <1>7, <1>8 DEF new
  <2> QED BY <1>2, <2>1, <2>2 DEF TypeOK
<1> DEFINE t == Append(str[n], b)
<1>0. PICK str2 : str2 = [x \in Nodes \cup {new} |-> IF x = new THEN t ELSE str[x]]
  OBVIOUS
<1>11. /\ str[n] \in Seq(Chars) /\ t \in Seq(Chars) /\ Len(t) = Len(str[n]) + 1
       /\ \A k \in 0 .. Len(str[n]) : SubSeq(t, 1, k) = SubSeq(str[n], 1, k)
       /\ SubSeq(t, 1, Len(str[n]) + 1) = t
  <2>1. str[n] \in Seq(Chars)
    BY <1>1, <1>4 DEF Named
  <2>2. t \in Seq(Chars) /\ Len(t) = Len(str[n]) + 1
        /\ \A k \in 0 .. Len(str[n]) : SubSeq(t, 1, k) = SubSeq(str[n], 1, k)
    BY <1>3, <2>1, Appended
  <2> HIDE DEF t
  <2>3. SubSeq(t, 1, Len(t)) = t
    BY <2>2
  <2> QED BY <2>1, <2>2, <2>3
<1>12. \A x \in Nodes : str2[x] = str[x]
  BY <1>0, <1>8
<1>13. str2[new] = t /\ str2 \in [Nodes' -> Seq(Chars)]
  <2>1. str \in [Nodes -> Seq(Chars)]
    BY <1>1 DEF Named
  <2> HIDE DEF t
  <2> QED BY <1>0, <1>8, <1>11, <2>1
<1> HIDE DEF t
<1>14. \A x \in Nodes : str[x] \in Seq(Chars) /\ str[x] # t
  BY <1>1, <1>3 DEF Named, t
<1>15. Named(str2)'
  <2> DEFINE Kids(x, ch) == nodes'[x].children[ch]
  <2>1. str2[1] = <<>> /\ \A x, y \in Nodes' : str2[x] = str2[y] => x = y
    <3>1. str[1] = <<>> /\ \A x, y \in Nodes : str[x] = str[y] => x = y
      BY <1>1 DEF Named
    <3>2. str2[1] = <<>>
      BY <1>4, <1>12, <3>1
    <3> SUFFICES ASSUME NEW x \in Nodes', NEW y \in Nodes', str2[x] = str2[y] PROVE x = y
      BY <3>2
    <3>3. CASE x \in Nodes /\ y \in Nodes
      BY <1>12, <3>1, <3>3
    <3>4. CASE (x \in Nodes /\ y = new) \/ (x = new /\ y \in Nodes)
      BY <1>12, <1>13, <1>14, <3>4
    <3>5. CASE x = new /\ y = new
      BY <3>5
    <3>6. (x \in Nodes \/ x = new) /\ (y \in Nodes \/ y = new)
      BY <1>8
    <3> QED BY <3>3, <3>4, <3>5, <3>6
  <2>2. \A x \in Nodes, ch \in Chars : /\ nodes[x].children[ch] \in 0 .. Len(nodes)
                                       /\ nodes[x].children[ch] # new
    BY <1>1, <1>4 DEF Named, new
  <2>3. \A ch \in Chars : Kids(new, ch) = 0
    BY <1>5, <1>7
  <2>4. \A x \in Nodes', ch \in Chars : Kids(x, ch) \in 0 .. Len(nodes')
    <3>1. \A x \in Nodes, ch \in Chars : Kids(x, ch) \in 0 .. new
      BY <1>4, <1>9, <2>2 DEF new
    <3> QED BY <1>7, <1>8, <2>3, <3>1
  <2>5. \A x, y \in Nodes, ch \in Chars : Kids(x, ch) = y <=> str2[y] = Append(str2[x], ch)
    <3> SUFFICES ASSUME NEW x \in Nodes, NEW y \in Nodes, NEW ch \in Chars
                 PROVE  Kids(x, ch) = y <=> str[y] = Append(str[x], ch)
      BY <1>12
    <3>1. nodes[x].children[ch] = y <=> str[y] = Append(str[x], ch)
      BY <1>1 DEF Named
    <3>2. CASE x = n /\ ch = b
      BY <1>3, <1>8, <1>9, <3>2
    <3>3. CASE ~(x = n /\ ch = b)
      BY <1>9, <3>1, <3>3
    <3> QED BY <3>2, <3>3
  <2>6. \A x \in Nodes, ch \in Chars : Kids(x, ch) = new <=> str2[new] = Append(str2[x], ch)
    <3> SUFFICES ASSUME NEW x \in Nodes, NEW ch \in Chars
                 PROVE  Kids(x, ch) = new <=> t = Append(str[x], ch)
      BY <1>12, <1>13
    <3>1. Kids(x, ch) = new <=> x = n /\ ch = b
      BY <1>9, <2>2
    <3>2. t = Append(str[x], ch) => str[n] = str[x] /\ ch = b
      <4>1. str[x] \in Seq(Chars)
        BY <1>14
      <4>2. \A u, v \in Seq(Chars), a, c \in Chars : Append(u, a) = Append(v, c) => u = v /\ a = c
        BY Appended
      <4>3. Append(str[n], b) = Append(str[x], ch) => str[n] = str[x] /\ b = ch
        <5>1. str[n] \in Seq(Chars) /\ b \in Chars
          BY <1>3, <1>11
        <5> QED BY <4>1, <4>2, <5>1
      <4> QED BY <4>3 DEF t
    <3>3. str[n] = str[x] => x = n
      BY <1>1, <1>4 DEF Named
    <3> QED BY <3>1, <3>2, <3>3 DEF t
  <2>7. \A y \in Nodes, ch \in Chars : Kids(new, ch) # y /\ str2[y] # Append(str2[new], ch)
    <3>0. \A y \in Nodes : y # 0
      BY <1>4 DEF Nodes
    <3> SUFFICES ASSUME NEW y \in Nodes, NEW ch \in Chars, str[y] = Append(t, ch)
                 PROVE  FALSE
      BY <1>12, <1>13, <2>3, <3>0
    <3>1. /\ Len(t) \in 0 .. Len(str[y]) /\ SubSeq(str[y], 1, Len(t)) = t
      <4>1. Len(t) \in 0 .. Len(t) /\ Len(Append(t, ch)) = Len(t) + 1
        BY <1>11
      <4>2. SubSeq(Append(t, ch), 1, Len(t)) = SubSeq(t, 1, Len(t))
        BY <1>11, <4>1, Appended
      <4> QED BY <1>11, <4>1, <4>2
    <3>2. \E z \in Nodes : str[z] = t
      <4>1. \A u \in Nodes : \A k \in 0 .. Len(str[u]) :
              \E x \in Nodes : str[x] = SubSeq(str[u], 1, k)
        BY <1>1 DEF Named
      <4> QED BY <3>1, <4>1
    <3> QED BY <1>14, <3>2
  <2>8. \A ch \in Chars : Kids(new, ch) # new /\ str2[new] # Append(str2[new], ch)
    <3>1. \A ch \in Chars : Len(Append(t, ch)) = Len(t) + 1
      BY <1>11
    <3> QED BY <1>8, <1>11, <1>13, <2>3, <3>1
  <2>9. \A x, y \in Nodes', ch \in Chars : Kids(x, ch) = y <=> str2[y] = Append(str2[x], ch)
    <3> SUFFICES ASSUME NEW x \in Nodes', NEW y \in Nodes', NEW ch \in Chars
                 PROVE  Kids(x, ch) = y <=> str2[y] = Append(str2[x], ch)
      OBVIOUS
    <3> HIDE DEF Kids
    <3>1. CASE x \in Nodes /\ y \in Nodes
      BY <2>5, <3>1
    <3>2. CASE x \in Nodes /\ y = new
      BY <2>6, <3>2
    <3>3. CASE x = new /\ y \in Nodes
      BY <2>7, <3>3
    <3>4. CASE x = new /\ y = new
      BY <2>8, <3>4
    <3> QED BY <1>8, <3>1, <3>2, <3>3, <3>4
  <2>10. \A y \in Nodes' : \A k \in 0 .. Len(str2[y]) :
           \E x \in Nodes' : str2[x] = SubSeq(str2[y], 1, k)
    <3>1. \A y \in Nodes : \A k \in 0 .. Len(str[y]) :
            \E x \in Nodes : str[x] = SubSeq(str[y], 1, k)
      BY <1>1 DEF Named
    <3>2. \A y \in Nodes : \A k \in 0 .. Len(str2[y]) :
            \E x \in Nodes' : str2[x] = SubSeq(str2[y], 1, k)
      BY <1>8, <1>12, <3>1
    <3>3. ASSUME NEW k \in 0 .. Len(t) PROVE \E x \in Nodes' : str2[x] = SubSeq(t, 1, k)
      <4>1. CASE k = Len(t)
        BY <1>8, <1>11, <1>13, <4>1
      <4>2. CASE k # Len(t)
        <5>1. k \in 0 .. Len(str[n])
          BY <1>11, <4>2
        <5>2. SubSeq(t, 1, k) = SubSeq(str[n], 1, k)
          BY <1>11, <5>1
        <5>3. PICK x \in Nodes : str[x] = SubSeq(str[n], 1, k)
          BY <1>4, <3>1, <5>1
        <5> QED BY <1>8, <1>12, <5>2, <5>3
      <4> QED BY <4>1, <4>2
    <3> QED BY <1>8, <1>13, <3>2, <3>3
  <2> QED BY <1>13, <2>1, <2>4, <2>9, <2>10, Zenon DEF Named
<1>16. Routed(str2)'
  <2>1. Handlers' = Handlers
    BY <1>2 DEF Handlers
  <2>2. \A x \in Nodes' : nodes'[x].handler # 0 => x \in Nodes
    BY <1>5, <1>7, <1>8
  <2>3. \A x \in Nodes : nodes[x].handler # 0 =>
          /\ nodes[x].handler \in Handlers
          /\ routes[nodes[x].handler] = str[x]
          /\ nodes[x].prefix = str[x]
    BY <1>1 DEF Routed
  <2>4. \A h \in Handlers : \E x \in Nodes : str[x] = routes[h] /\ h <= nodes[x].handler
    BY <1>1 DEF Routed
  <2>5. \A h \in Handlers : \E x \in Nodes' : str2[x] = routes[h] /\ h <= nodes'[x].handler
    BY <1>8, <1>9, <1>12, <2>4
  <2>6. routes' = routes
    BY <1>2
  <2>7. \A x \in Nodes' : nodes'[x].handler # 0 =>
          /\ nodes'[x].handler \in Handlers
          /\ routes[nodes'[x].handler] = str2[x]
          /\ nodes'[x].prefix = str2[x]
    BY <1>9, <1>12, <2>2, <2>3
  <2> QED BY <2>1, <2>5, <2>6, <2>7, Zenon DEF Routed
<1>17. Walked(str2)'
  <2>1. str2[n'] = SubSeq(arg', 1, i')
    BY <1>2, <1>3, <1>7, <1>13 DEF t
  <2>2. pc' = "insert"
    BY <1>2
  <2> QED BY <2>1, <2>2, Zenon DEF Walked
<1> QED BY <1>2, <1>10, <1>15, <1>16, <1>17 DEF RouterInv, Spelled, SearchExact

\* Insert ends: the node of the pattern has the new route.
LEMMA RegisterStep ==
  ASSUME RouterInv, Register
  PROVE  RouterInv'
<1> DEFINE new == Len(routes) + 1
           R == Node
<1>1. PICK str : Named(str) /\ Routed(str) /\ Walked(str)
  BY DEF RouterInv, Spelled
<1>2. /\ TypeOK /\ pc = "insert" /\ i = Len(arg) /\ routes' = Append(routes, arg)
      /\ nodes' = [nodes EXCEPT ![n] = [@ EXCEPT !.handler = Len(routes'), !.prefix = arg]]
      /\ pc' = "idle" /\ arg' = <<>> /\ i' = 0 /\ n' = 1 /\ lastMatch' = 0 /\ lastLen' = 0
      /\ UNCHANGED <<serving, answer>>
      /\ arg \in Seq(Chars) /\ routes \in Seq(Seq(Chars)) /\ answer \in 0 .. Len(routes)
  BY DEF Register, Drop, RouterInv, TypeOK
<1>3. /\ n \in Nodes /\ nodes \in Seq(R) /\ Len(nodes) \in Nat /\ 1 \in Nodes
      /\ \A x \in Nodes : nodes[x] \in R
  BY <1>2, NodesTyped DEF TypeOK
<1>4. /\ routes' \in Seq(Seq(Chars)) /\ Len(routes') = new /\ new \in Nat \ {0}
      /\ routes'[new] = arg /\ \A h \in Handlers : routes'[h] = routes[h] /\ h <= new
      /\ Handlers' = Handlers \cup {new}
  BY <1>2 DEF Handlers
<1>5. str[n] = arg
  BY <1>1, <1>2, Prefix DEF Walked
<1> HIDE DEF new, R
<1> DEFINE v == [nodes[n] EXCEPT !.handler = new, !.prefix = arg]
<1>6. v \in R /\ v.handler = new /\ v.prefix = arg /\ v.children = nodes[n].children
  <2> DEFINE u == nodes[n]
  <2>1. u \in R
    BY <1>3
  <2> HIDE DEF u
  <2>2. /\ [u EXCEPT !.handler = new, !.prefix = arg].handler = new
        /\ [u EXCEPT !.handler = new, !.prefix = arg].prefix = arg
        /\ [u EXCEPT !.handler = new, !.prefix = arg].children = u.children
        /\ [u EXCEPT !.handler = new, !.prefix = arg] \in R
    BY <1>2, <1>4, <2>1 DEF R, Node
  <2> QED BY <2>2 DEF u
<1>7. nodes' = [nodes EXCEPT ![n] = v]
  BY <1>2, <1>4
<1> HIDE DEF v
<1>8. /\ nodes' \in Seq(R) /\ Len(nodes') = Len(nodes)
      /\ \A x \in Nodes : nodes'[x] = IF x = n THEN v ELSE nodes[x]
  BY <1>3, <1>6, <1>7 DEF Nodes
<1>9. Nodes' = Nodes
  BY <1>8 DEF Nodes
<1>10. \A x \in Nodes : /\ nodes'[x].children = nodes[x].children
                        /\ nodes'[x].handler = IF x = n THEN new ELSE nodes[x].handler
                        /\ nodes'[x].prefix = IF x = n THEN arg ELSE nodes[x].prefix
  BY <1>6, <1>8
<1>11. TypeOK'
  <2>1. nodes' \in Seq(Node) /\ nodes' # <<>>
    BY <1>3, <1>8 DEF R, Nodes
  <2>2. answer' \in 0 .. Len(routes') /\ lastMatch' \in 0 .. Len(nodes')
    BY <1>2, <1>3, <1>4, <1>8 DEF new
  <2>3. n' \in 1 .. Len(nodes') /\ i' \in 0 .. Len(arg') /\ lastLen' \in 0 .. Len(arg')
        /\ arg' \in Seq(Chars)
    BY <1>2, <1>3, <1>8 DEF Nodes
  <2>4. serving' \in BOOLEAN
    BY <1>2 DEF TypeOK
  <2> QED BY <1>2, <1>4, <2>1, <2>2, <2>3, <2>4 DEF TypeOK
<1>12. Named(str)'
  <2>1. \A x \in Nodes, ch \in Chars : nodes'[x].children[ch] = nodes[x].children[ch]
    BY <1>10
  <2>2. Len(nodes') = Len(nodes)
    BY <1>8
  <2>3. \A x \in Nodes, ch \in Chars : nodes'[x].children[ch] \in 0 .. Len(nodes)
    <3>1. \A x \in Nodes, ch \in Chars : nodes[x].children[ch] \in 0 .. Len(nodes)
      BY <1>1 DEF Named
    <3> QED BY <2>1, <3>1
  <2>4. \A x, y \in Nodes, ch \in Chars :
          nodes'[x].children[ch] = y <=> str[y] = Append(str[x], ch)
    <3>1. \A x, y \in Nodes, ch \in Chars :
            nodes[x].children[ch] = y <=> str[y] = Append(str[x], ch)
      BY <1>1 DEF Named
    <3> QED BY <2>1, <3>1
  <2> QED BY <1>1, <1>9, <2>2, <2>3, <2>4, Zenon DEF Named
<1>13. Routed(str)'
  <2>1. \A x \in Nodes : nodes[x].handler # 0 =>
          /\ nodes[x].handler \in Handlers
          /\ routes[nodes[x].handler] = str[x]
          /\ nodes[x].prefix = str[x]
    BY <1>1 DEF Routed
  <2>2. \A h \in Handlers : \E x \in Nodes : str[x] = routes[h] /\ h <= nodes[x].handler
    BY <1>1 DEF Routed
  <2>3. \A x \in Nodes' : nodes'[x].handler # 0 =>
          /\ nodes'[x].handler \in Handlers'
          /\ routes'[nodes'[x].handler] = str[x]
          /\ nodes'[x].prefix = str[x]
    BY <1>4, <1>5, <1>9, <1>10, <2>1
  <2>4. \A h \in Handlers' : \E x \in Nodes' : str[x] = routes'[h] /\ h <= nodes'[x].handler
    <3>1. \A h \in Handlers : \E x \in Nodes : str[x] = routes'[h] /\ h <= nodes'[x].handler
      BY <1>4, <1>10, <2>2
    <3>2. str[n] = routes'[new] /\ new <= nodes'[n].handler
      BY <1>3, <1>4, <1>5, <1>10
    <3> QED BY <1>3, <1>4, <1>9, <3>1, <3>2
  <2> QED BY <2>3, <2>4 DEF Routed
<1>14. Walked(str)'
  <2>1. str[1] = <<>> /\ SubSeq(<<>>, 1, 0) = <<>>
    BY <1>1 DEF Named
  <2> QED BY <1>2, <2>1 DEF Walked
<1> QED BY <1>2, <1>11, <1>12, <1>13, <1>14 DEF RouterInv, Spelled, SearchExact
-----------------------------------------------------------------------------
\* The routes whose pattern begins the path end no further than the last node
\* with a handler that the walk has met, once the tree or the path is over.
LEMMA Remembered ==
  ASSUME TypeOK, NEW str, Named(str), Routed(str), Walked(str), pc = "search",
         i < Len(arg) => Child = 0, NEW h \in Candidates(arg)
  PROVE  /\ lastMatch # 0 /\ Len(routes[h]) <= lastLen
         /\ Len(routes[h]) = lastLen => h <= nodes[lastMatch].handler
<1> DEFINE p == routes[h]
           k == Len(p)
<1>1. /\ arg \in Seq(Chars) /\ i \in 0 .. Len(arg) /\ lastMatch \in 0 .. Len(nodes)
      /\ h \in Handlers /\ p \in Seq(Chars) /\ h # 0 /\ h \in Nat
  BY NodesTyped DEF TypeOK, Candidates, Handlers
<1>2. /\ k \in 1 .. Len(arg) /\ SubSeq(arg, 1, k) = p
  BY <1>1 DEF Candidates, Begins
<1>3. /\ lastLen \in 0 .. i
      /\ lastMatch # 0 => str[lastMatch] = SubSeq(arg, 1, lastLen)
      /\ lastMatch = 0 => lastLen = 0
      /\ \A x \in Nodes : \A j \in lastLen + 1 .. i :
           str[x] = SubSeq(arg, 1, j) => nodes[x].handler = 0
  BY DEF Walked
<1>4. PICK x \in Nodes : str[x] = p /\ h <= nodes[x].handler
  BY <1>1 DEF Routed
<1>5. nodes[x].handler # 0 /\ nodes[x].handler \in Nat
  <2> DEFINE u == nodes[x]
  <2>1. u \in Node
    BY <1>4, NodesTyped
  <2> HIDE DEF u
  <2>2. u.handler \in Nat
    BY <2>1 DEF Node
  <2>3. h <= u.handler
    BY <1>4 DEF u
  <2>4. u.handler # 0 /\ u.handler \in Nat
    <3> DEFINE g == u.handler
    <3>1. g \in Nat /\ h <= g
      BY <2>2, <2>3
    <3> HIDE DEF g
    <3>2. g # 0
      BY <1>1, <3>1 DEF Handlers
    <3> QED BY <3>1, <3>2 DEF g
  <2> QED BY <2>4 DEF u
<1> HIDE DEF p
<1>6. k <= i
  <2> SUFFICES ASSUME k > i PROVE FALSE
    BY <1>1, <1>2
  <2>1. i < Len(arg) /\ Child = 0 /\ i + 1 \in 0 .. k
    BY <1>1, <1>2
  <2>2. SubSeq(p, 1, i + 1) = SubSeq(arg, 1, i + 1)
    BY <1>1, <1>2, <2>1, Prefix
  <2>3. PICK y \in Nodes : str[y] = SubSeq(p, 1, i + 1)
    <3>1. \A u \in Nodes : \A j \in 0 .. Len(str[u]) :
            \E z \in Nodes : str[z] = SubSeq(str[u], 1, j)
      BY DEF Named
    <3> QED BY <1>4, <2>1, <3>1
  <2>4. str[n] = SubSeq(arg, 1, i)
    BY DEF Walked
  <2>5. Child = y
    BY <2>1, <2>2, <2>3, <2>4, Leads
  <2>6. y # 0
    BY <2>3, NodesTyped DEF Nodes
  <2> QED BY <2>1, <2>5, <2>6
<1>7. k <= lastLen
  <2> SUFFICES ASSUME k > lastLen PROVE FALSE
    BY <1>1, <1>2, <1>3
  <2>1. k \in lastLen + 1 .. i
    BY <1>1, <1>2, <1>3, <1>6
  <2> QED BY <1>2, <1>3, <1>4, <1>5, <2>1
<1>8. lastMatch # 0
  BY <1>2, <1>3, <1>7
<1>9. ASSUME k = lastLen PROVE h <= nodes[lastMatch].handler
  <2>1. lastMatch \in Nodes
    BY <1>1, <1>8, NodesTyped DEF Nodes
  <2>2. str[lastMatch] = str[x]
    BY <1>2, <1>3, <1>4, <1>8, <1>9
  <2>3. lastMatch = x
    BY <1>4, <2>1, <2>2 DEF Named
  <2> QED BY <1>4, <2>3
<1> QED BY <1>7, <1>8, <1>9 DEF p

\* Search ends: the answer is that of the list of routes.
LEMMA AnswerStep ==
  ASSUME RouterInv, Answer
  PROVE  RouterInv'
<1> DEFINE H == nodes[lastMatch].handler
<1>1. PICK str : Named(str) /\ Routed(str) /\ Walked(str)
  BY DEF RouterInv, Spelled
<1>2. /\ TypeOK /\ pc = "search" /\ (i < Len(arg) => Child = 0)
      /\ answer' = (IF Accepted THEN H ELSE 0) /\ pc' = "answered"
      /\ UNCHANGED <<nodes, routes, serving, arg, i, n, lastMatch, lastLen>>
      /\ arg \in Seq(Chars) /\ i \in 0 .. Len(arg) /\ lastMatch \in 0 .. Len(nodes)
      /\ lastLen \in 0 .. Len(arg)
  BY DEF Answer, locals, RouterInv, TypeOK
<1>3. lastMatch # 0 =>
        /\ lastMatch \in Nodes /\ H \in Handlers /\ 0 < lastLen
        /\ routes[H] = SubSeq(arg, 1, lastLen) /\ nodes[lastMatch].prefix = routes[H]
  <2> SUFFICES ASSUME lastMatch # 0
               PROVE  /\ lastMatch \in Nodes /\ H \in Handlers /\ 0 < lastLen
                      /\ routes[H] = SubSeq(arg, 1, lastLen)
                      /\ nodes[lastMatch].prefix = routes[H]
    OBVIOUS
  <2>1. lastMatch \in Nodes
    BY <1>2, NodesTyped DEF Nodes
  <2>2. 0 < lastLen /\ str[lastMatch] = SubSeq(arg, 1, lastLen) /\ H # 0
    BY <1>1, <1>2 DEF Walked
  <2>3. H \in Handlers /\ routes[H] = str[lastMatch] /\ nodes[lastMatch].prefix = str[lastMatch]
    BY <1>1, <2>1, <2>2 DEF Routed
  <2> QED BY <2>1, <2>2, <2>3
<1>4. lastMatch # 0 => /\ Len(routes[H]) = lastLen /\ routes[H] # <<>> /\ Begins(routes[H], arg)
                       /\ (routes[H] = arg <=> lastLen = Len(arg))
  <2> SUFFICES ASSUME lastMatch # 0
               PROVE  /\ Len(routes[H]) = lastLen /\ routes[H] # <<>> /\ Begins(routes[H], arg)
                      /\ (routes[H] = arg <=> lastLen = Len(arg))
    OBVIOUS
  <2> DEFINE p == SubSeq(arg, 1, lastLen)
  <2>1. routes[H] = p /\ 0 < lastLen
    BY <1>3
  <2>2. p \in Seq(Chars) /\ Len(p) = lastLen /\ (lastLen = Len(arg) => p = arg)
    BY <1>2, Prefix
  <2>3. Begins(p, arg) /\ p # <<>>
    BY <1>2, <2>1, <2>2 DEF Begins
  <2> HIDE DEF p
  <2> QED BY <1>2, <2>1, <2>2, <2>3
<1>5. \A h \in Candidates(arg) :
        /\ lastMatch # 0 /\ Len(routes[h]) <= lastLen
        /\ Len(routes[h]) = lastLen => h <= H
  BY <1>1, <1>2, Remembered
<1> HIDE DEF H
<1>6. \A h \in Candidates(arg) : h \in Nat /\ Len(routes[h]) \in Nat
  BY <1>2, NodesTyped DEF Candidates, Handlers
<1>7. lastMatch # 0 => H \in Candidates(arg)
  BY <1>3, <1>4 DEF Candidates, Handlers
<1>8. lastMatch # 0 => Longest(arg, H)
  BY <1>2, <1>4, <1>5, <1>6, <1>7 DEF Longest
<1>9. ASSUME NEW h \in Candidates(arg), Longest(arg, h)
      PROVE  lastMatch # 0 /\ h = H
  <2>1. lastMatch # 0
    BY <1>5
  <2>2. Len(routes[H]) < Len(routes[h]) \/ (Len(routes[H]) = Len(routes[h]) /\ H <= h)
    BY <1>7, <1>9, <2>1 DEF Longest
  <2>3. Len(routes[h]) <= Len(routes[H])
    BY <1>4, <1>5, <2>1
  <2>4. Len(routes[H]) = Len(routes[h]) /\ H <= h /\ h <= H /\ h \in Nat /\ H \in Nat
    BY <1>4, <1>5, <1>6, <1>7, <2>1, <2>2, <2>3
  <2> QED BY <2>1, <2>4
<1>10. Accepted <=> /\ lastMatch # 0
                    /\ routes[H] = arg \/ routes[H][Len(routes[H])] = Slash
  <2>1. lastMatch # 0 => Len(routes[H]) > 0
    BY <1>3, <1>4
  <2> QED BY <1>3, <1>4, <2>1 DEF Accepted
<1>11. IF Accepted THEN Serves(arg, H) ELSE \A h \in Handlers : ~Serves(arg, h)
  <2>1. ASSUME Accepted PROVE Serves(arg, H)
    BY <1>8, <1>10, <2>1 DEF Serves
  <2>2. ASSUME ~Accepted, NEW h \in Handlers, Serves(arg, h) PROVE FALSE
    <3>1. Longest(arg, h) /\ h \in Candidates(arg)
      BY <2>2 DEF Serves, Longest
    <3>2. lastMatch # 0 /\ h = H
      BY <1>9, <3>1
    <3>3. routes[H] = arg \/ routes[H][Len(routes[H])] = Slash
      BY <2>2, <3>2 DEF Serves
    <3> QED BY <1>10, <2>2, <3>2, <3>3
  <2> QED BY <2>1, <2>2
<1>12. SearchExact'
  <2>1. \A h : Serves(arg, h)' <=> Serves(arg, h)
    BY <1>2 DEF Serves, Longest, Candidates
  <2>2. Accepted => Serves(arg, answer)'
    <3>1. Accepted => Serves(arg, answer') /\ answer' = H
      BY <1>2, <1>11
    <3> QED BY <1>2, <3>1 DEF Serves, Longest, Candidates
  <2>3. ~Accepted => answer' = 0 /\ \A h \in 1 .. Len(routes) : ~Serves(arg, h)'
    BY <1>2, <1>11, <2>1 DEF Handlers
  <2> QED BY <1>2, <2>2, <2>3 DEF SearchExact
<1>13. TypeOK'
  <2>1. answer' \in 0 .. Len(routes)
    BY <1>2, <1>3, <1>10, NodesTyped DEF Handlers, TypeOK
  <2> QED BY <1>2, <2>1 DEF TypeOK
<1>14. Spelled'
  <2>1. Walked(str)'
    <3>1. Nodes' = Nodes
      BY <1>2 DEF Nodes
    <3> QED BY <1>1, <1>2, <3>1 DEF Walked
  <2> QED BY <1>1, <1>2, <2>1, TreeKept DEF Spelled
<1> QED BY <1>12, <1>13, <1>14 DEF RouterInv

\* The next request can come.
LEMMA ServedStep ==
  ASSUME RouterInv, Served
  PROVE  RouterInv'
<1>1. /\ TypeOK /\ pc' = "idle" /\ answer' = 0 /\ UNCHANGED <<nodes, routes, serving>>
      /\ arg' = <<>> /\ i' = 0 /\ n' = 1 /\ lastMatch' = 0 /\ lastLen' = 0
  BY DEF Served, Drop, RouterInv
<1>2. PICK str : Named(str) /\ Routed(str)
  BY DEF RouterInv, Spelled
<1>3. TypeOK'
  <2>1. 1 \in 1 .. Len(nodes) /\ Len(nodes) \in Nat /\ Len(routes) \in Nat
    BY <1>1, NodesTyped DEF Nodes, TypeOK
  <2> QED BY <1>1, <2>1 DEF TypeOK
<1>4. Walked(str)'
  <2>1. str[1] = <<>> /\ SubSeq(<<>>, 1, 0) = <<>>
    BY <1>2 DEF Named
  <2> QED BY <1>1, <2>1 DEF Walked
<1>5. Spelled'
  BY <1>1, <1>2, <1>4, TreeKept DEF Spelled
<1> QED BY <1>1, <1>3, <1>5 DEF RouterInv, SearchExact

\* Whatever happens to the tree keeps the invariant.
LEMMA RouterStep ==
  ASSUME RouterInv, TreeStep \/ UNCHANGED vars
  PROVE  RouterInv'
<1>1. CASE UNCHANGED vars
  <2>1. UNCHANGED <<nodes, routes, serving, pc, arg, i, n, lastMatch, lastLen, answer>>
    BY <1>1 DEF vars
  <2>2. TypeOK'
    BY <2>1 DEF RouterInv, TypeOK
  <2>3. Spelled'
    <3>1. PICK str : Named(str) /\ Routed(str) /\ Walked(str)
      BY DEF RouterInv, Spelled
    <3>2. Walked(str)'
      BY <2>1, <3>1 DEF Walked, Nodes
    <3> QED BY <2>1, <3>1, <3>2, TreeKept DEF Spelled
  <2>4. SearchExact'
    BY <2>1 DEF RouterInv, SearchExact, Serves, Longest, Candidates
  <2> QED BY <2>2, <2>3, <2>4 DEF RouterInv
<1>2. CASE TreeStep
  BY <1>2, StartStep, DownStep, GrowStep, RegisterStep, AnswerStep, ServedStep DEF TreeStep
<1> QED BY <1>1, <1>2

\* The steps of Router keep it as well: its patterns and paths are strings.
THEOREM RouterCorrect == Spec => [](TypeOK /\ SearchExact)
<1>1. ASSUME RouterInv, [Next]_vars PROVE RouterInv'
  <2>1. TreeStep \/ UNCHANGED vars
    BY <1>1, PatternsAssumption DEF Next, TreeStep
  <2> QED BY <1>1, <2>1, RouterStep
<1>2. Spec => []RouterInv
  BY <1>1, RouterInit, PTL DEF Spec
<1> QED BY <1>2, PTL DEF RouterInv
-----------------------------------------------------------------------------
(***************************************************************************)
(* Site.  A request is followed from the moment at which an entry of       *)
(* try_files, and later the static handler, was begun: what the handler    *)
(* knows was so at one of the moments since, and what it relies on now     *)
(* can only have gone.                                                     *)
(***************************************************************************)

\* A set of positions has a smallest one.
LEMMA LeastOf ==
  ASSUME NEW lo \in Nat, NEW hi \in Nat, NEW S, S \subseteq lo .. hi, S # {}
  PROVE  \E k \in S : \A j \in S : k <= j
<1>1. \A j \in S : j \in Nat
  OBVIOUS
<1>2. PICK k \in S : \A j \in S : <<j, k>> \notin OpToRel(<, Nat)
  <2>1. S \subseteq Nat
    BY <1>1
  <2> HIDE DEF OpToRel
  <2> QED BY <2>1, NatLessThanWellFounded, WFMin
<1>3. \A j \in S : k <= j
  <2> SUFFICES ASSUME NEW j \in S PROVE ~ j < k
    BY <1>1
  <2>1. <<j, k>> \in Nat \X Nat
    BY <1>1
  <2>2. <<j, k>> \notin {q \in Nat \X Nat : q[1] < q[2]}
    BY <1>2 DEF OpToRel
  <2> QED BY <2>1, <2>2
<1> QED BY <1>3

\* The rank of a position in a set of them.
RankIn(S, k) == Cardinality({l \in S : l <= k})

\* A set of positions is finite.
LEMMA PositionsFinite ==
  ASSUME NEW top \in Nat, NEW S, S \subseteq 1 .. top
  PROVE  IsFiniteSet(S) /\ Cardinality(S) \in Nat /\ \A l \in S : l \in Int /\ 1 <= l /\ l <= top
<1>1. IsFiniteSet(1 .. top) /\ S \in SUBSET (1 .. top)
  BY FS_Interval
<1>2. IsFiniteSet(S)
  BY <1>1, FS_Subset
<1>3. \A l \in S : l \in Int /\ 1 <= l /\ l <= top
  OBVIOUS
<1> QED BY <1>2, <1>3, FS_CardinalityType

\* Ranks are numbers, up to that of the whole set.
LEMMA RankTyped ==
  ASSUME NEW top \in Nat, NEW S, S \subseteq 1 .. top, NEW k
  PROVE  /\ RankIn(S, k) \in Nat /\ RankIn(S, k) <= Cardinality(S)
         /\ RankIn(S, k) = Cardinality(S) => \A l \in S : l <= k
<1> DEFINE T == {l \in S : l <= k}
<1>1. IsFiniteSet(S)
  BY PositionsFinite
<1>2. T \in SUBSET S
  OBVIOUS
<1> HIDE DEF T
<1>3. /\ IsFiniteSet(T) /\ Cardinality(T) <= Cardinality(S)
      /\ Cardinality(S) = Cardinality(T) => S = T
  BY <1>1, <1>2, FS_Subset
<1>4. Cardinality(T) \in Nat
  BY <1>3, FS_CardinalityType
<1> QED BY <1>3, <1>4 DEF T, RankIn

\* Every rank is that of a member.
LEMMA Ranked ==
  ASSUME NEW top \in Nat, NEW S, S \subseteq 1 .. top, NEW j \in 1 .. Cardinality(S)
  PROVE  \E k \in S : RankIn(S, k) = j
<1> DEFINE N == Cardinality(S)
           high == {k \in 1 .. top : RankIn(S, k) >= j}
<1>1. /\ IsFiniteSet(S) /\ N \in Nat /\ j \in Nat /\ 1 <= j /\ j <= N
      /\ \A l \in S : l \in Int /\ 1 <= l /\ l <= top
  <2>1. /\ IsFiniteSet(S) /\ N \in Nat
        /\ \A l \in S : l \in Int /\ 1 <= l /\ l <= top
    BY PositionsFinite
  <2> QED BY <2>1
<1>2. \A k : RankIn(S, k) \in Nat
  BY RankTyped
<1>3. top \in high
  <2>1. {l \in S : l <= top} = S
    BY <1>1
  <2>2. RankIn(S, top) = N
    BY <2>1 DEF RankIn
  <2>3. top >= 1
    <3>1. S # {}
      BY <1>1, FS_EmptySet
    <3>2. PICK l \in S : TRUE
      BY <3>1
    <3> QED BY <1>1, <3>2
  <2> QED BY <1>1, <2>2, <2>3
<1>4. PICK k \in high : \A l \in high : k <= l
  <2>1. high \subseteq 1 .. top /\ high # {} /\ 1 \in Nat
    BY <1>3
  <2> HIDE DEF high
  <2> QED BY <2>1, LeastOf
<1>5. k \in 1 .. top /\ RankIn(S, k) >= j
  OBVIOUS
<1>6. RankIn(S, k - 1) < j
  <2>1. CASE k = 1
    <3>1. {l \in S : l <= 0} = {}
      <4>1. \A l \in S : ~(l <= 0)
        BY <1>1
      <4> QED BY <4>1
    <3> QED BY <1>1, <2>1, <3>1, FS_EmptySet DEF RankIn
  <2>2. CASE k # 1
    <3>1. k - 1 \in 1 .. top /\ k - 1 \notin high
      BY <1>4, <1>5, <2>2
    <3> QED BY <1>1, <1>2, <3>1
  <2> QED BY <2>1, <2>2
<1>7. RankIn(S, k) = IF k \in S THEN RankIn(S, k - 1) + 1 ELSE RankIn(S, k - 1)
  <2> DEFINE T == {l \in S : l <= k - 1}
  <2>1. {l \in S : l <= k} = IF k \in S THEN T \cup {k} ELSE T
    <3>1. \A l \in S : l <= k <=> l <= k - 1 \/ l = k
      BY <1>1, <1>5
    <3> QED BY <3>1
  <2>2. k \notin T /\ T \in SUBSET S
    BY <1>5
  <2>3. IsFiniteSet(T)
    BY <1>1, <2>2, FS_Subset
  <2> HIDE DEF T
  <2>4. Cardinality(T \cup {k}) = Cardinality(T) + 1
    BY <2>2, <2>3, FS_AddElement
  <2> QED BY <2>1, <2>4 DEF RankIn, T
<1>8. RankIn(S, k - 1) \in Nat /\ RankIn(S, k) \in Nat
  BY <1>2, <1>5
<1> QED BY <1>1, <1>5, <1>6, <1>7, <1>8

\* The positions of a path that its name keeps.
KeptOf(path) ==
  {k \in 1 .. Len(path) : path[k] = Slash => /\ k > 1 /\ path[k - 1] # Slash
                                             /\ \E l \in k .. Len(path) : path[l] # Slash}

NthOf(S, j) == CHOOSE k \in S : RankIn(S, k) = j

\* A name in these words.
LEMMA NameIs ==
  ASSUME NEW path
  PROVE  Name(path) = [j \in 1 .. Cardinality(KeptOf(path)) |-> path[NthOf(KeptOf(path), j)]]
BY DEF Name, KeptOf, NthOf, RankIn

\* The name of nothing is that of the root; a name that is not the root's has a
\* last byte, behind which there were only slashes.
LEMMA LastKept ==
  ASSUME NEW p \in Seq(Chars), Name(p) # <<>>
  PROVE  /\ p # <<>>
         /\ \E m \in KeptOf(p) : /\ \A k \in KeptOf(p) : k <= m
                                 /\ p[m] # Slash
                                 /\ \A k \in m + 1 .. Len(p) : p[k] = Slash
<1> DEFINE K == KeptOf(p)
           N == Cardinality(K)
<1>1. Len(p) \in Nat /\ K \subseteq 1 .. Len(p)
  BY DEF KeptOf
<1>2. N \in Nat
  <2> HIDE DEF K
  <2> QED BY <1>1, PositionsFinite
<1>3. N # 0
  <2> SUFFICES ASSUME N = 0 PROVE FALSE
    OBVIOUS
  <2>1. Name(p) = [j \in 1 .. N |-> p[NthOf(K, j)]]
    BY NameIs
  <2> HIDE DEF N, K
  <2>2. [j \in 1 .. 0 |-> p[NthOf(K, j)]] = <<>>
    OBVIOUS
  <2> QED BY <2>1, <2>2
<1>4. PICK m \in K : RankIn(K, m) = N
  <2>1. N \in 1 .. N
    BY <1>2, <1>3
  <2> HIDE DEF K
  <2> QED BY <1>1, <2>1, Ranked
<1>5. \A k \in K : k <= m
  <2> HIDE DEF K
  <2> QED BY <1>1, <1>4, RankTyped
<1>6. \A k \in 1 .. Len(p) : p[k] # Slash => k \in K
  BY DEF KeptOf
<1>7. \A k \in m + 1 .. Len(p) : p[k] = Slash
  BY <1>1, <1>5, <1>6
<1>8. p[m] # Slash
  <2> SUFFICES ASSUME p[m] = Slash PROVE FALSE
    OBVIOUS
  <2>1. PICK l \in m .. Len(p) : p[l] # Slash
    BY DEF KeptOf
  <2> QED BY <1>1, <1>7, <2>1
<1>9. p # <<>>
  BY <1>1, <1>4
<1> QED BY <1>5, <1>7, <1>8, <1>9

\* Of the path of an index those positions are kept that were, the slash behind
\* them and the index.
LEMMA IndexKept ==
  ASSUME NEW p \in Seq(Chars), NEW m \in KeptOf(p), \A k \in KeptOf(p) : k <= m,
         p[m] # Slash, \A k \in m + 1 .. Len(p) : p[k] = Slash
  PROVE  KeptOf(p \o <<Slash, Index>>) = KeptOf(p) \cup {m + 1, Len(p) + 2}
<1> DEFINE q == p \o <<Slash, Index>>
           top == Len(p)
<1>1. /\ top \in Nat /\ Len(q) = top + 2 /\ m \in 1 .. top
      /\ \A k \in 1 .. top : q[k] = p[k]
      /\ q[top + 1] = Slash /\ q[top + 2] = Index /\ Index # Slash
  BY SlashAssumption, IndexAssumption DEF KeptOf
<1> HIDE DEF q
<1>2. \A k \in 1 .. top + 2 : \E l \in k .. top + 2 : q[l] # Slash
  BY <1>1
<1>3. KeptOf(q) = {k \in 1 .. top + 2 : q[k] = Slash => k > 1 /\ q[k - 1] # Slash}
  BY <1>1, <1>2 DEF KeptOf
<1>4. ASSUME NEW k \in KeptOf(p) PROVE k \in KeptOf(q)
  <2>1. k \in 1 .. top /\ (p[k] = Slash => k > 1 /\ p[k - 1] # Slash)
    BY DEF KeptOf
  <2>2. k > 1 => k - 1 \in 1 .. top
    BY <2>1
  <2> QED BY <1>1, <1>3, <2>1, <2>2
<1>5. m + 1 \in KeptOf(q) /\ top + 2 \in KeptOf(q)
  <2>1. m + 1 \in 1 .. top + 2 /\ m + 1 > 1 /\ q[(m + 1) - 1] # Slash
    BY <1>1
  <2> QED BY <1>1, <1>3, <2>1
<1>6. ASSUME NEW k \in KeptOf(q), k # m + 1, k # top + 2 PROVE k \in KeptOf(p)
  <2>1. k \in 1 .. top + 1 /\ (q[k] = Slash => k > 1 /\ q[k - 1] # Slash)
    BY <1>1, <1>3, <1>6
  <2>2. CASE k > m
    <3>1. k - 1 \in m + 1 .. top /\ q[k - 1] = Slash
      BY <1>1, <1>6, <2>1, <2>2
    <3>2. q[k] = Slash
      <4>1. k = top + 1 \/ k \in m + 1 .. top
        BY <1>1, <2>1, <2>2
      <4> QED BY <1>1, <4>1
    <3> QED BY <2>1, <3>1, <3>2
  <2>3. CASE ~(k > m)
    <3>1. k \in 1 .. top /\ p[k] = q[k] /\ (k > 1 => p[k - 1] = q[k - 1])
      BY <1>1, <2>1, <2>3
    <3>2. m \in k .. top
      BY <1>1, <2>3, <3>1
    <3> QED BY <2>1, <3>1, <3>2 DEF KeptOf
  <2> QED BY <1>1, <2>1, <2>2, <2>3
<1> QED BY <1>4, <1>5, <1>6 DEF q

\* The name of an index lies below that of its directory.
LEMMA IndexBelow ==
  ASSUME NEW p \in Seq(Chars), Name(p) # <<>>
  PROVE  Begins(Name(p) \o <<Slash>>, Name(p \o <<Slash, Index>>))
<1> DEFINE q == p \o <<Slash, Index>>
           K == KeptOf(p)
           L == KeptOf(q)
           N == Cardinality(K)
           top == Len(p)
<1>1. PICK m \in K : /\ \A k \in K : k <= m
                     /\ p[m] # Slash
                     /\ \A k \in m + 1 .. Len(p) : p[k] = Slash
  BY LastKept
<1>2. /\ top \in Nat /\ Len(q) = top + 2 /\ m \in 1 .. top /\ K \subseteq 1 .. top
      /\ \A k \in 1 .. top : q[k] = p[k]
      /\ q[top + 1] = Slash /\ q[top + 2] = Index
      /\ L \subseteq 1 .. top + 2
  BY SlashAssumption, IndexAssumption DEF KeptOf
<1>3. L = K \cup {m + 1, top + 2}
  BY <1>1, IndexKept
<1>4. q[m + 1] = Slash
  <2>1. m = top \/ m + 1 \in m + 1 .. top
    BY <1>2
  <2> QED BY <1>1, <1>2, <2>1
<1>5. /\ Name(p) = [j \in 1 .. N |-> p[NthOf(K, j)]]
      /\ Name(q) = [j \in 1 .. Cardinality(L) |-> q[NthOf(L, j)]]
  BY NameIs
<1> HIDE DEF q, K, L
<1>6. IsFiniteSet(K) /\ N \in Nat /\ \A l \in K : l \in Int /\ 1 <= l /\ l <= top
  BY <1>2, PositionsFinite
<1>7. Cardinality(K \cup {m + 1}) = N + 1 /\ Cardinality(L) = N + 2
  <2>1. m + 1 \notin K /\ top + 2 \notin K \cup {m + 1}
    BY <1>1, <1>2
  <2>2. IsFiniteSet(K \cup {m + 1}) /\ Cardinality(K \cup {m + 1}) = N + 1
    BY <1>6, <2>1, FS_AddElement
  <2>3. L = (K \cup {m + 1}) \cup {top + 2}
    BY <1>3
  <2>4. Cardinality(L) = (N + 1) + 1
    BY <2>1, <2>2, <2>3, FS_AddElement
  <2> QED BY <1>6, <2>2, <2>4
<1>8. /\ \A k \in K : RankIn(L, k) = RankIn(K, k) /\ RankIn(K, k) <= N
      /\ RankIn(L, m + 1) = N + 1
      /\ RankIn(L, top + 2) = N + 2
  <2>1. ASSUME NEW k \in K PROVE RankIn(L, k) = RankIn(K, k) /\ RankIn(K, k) <= N
    <3>1. k \in Int /\ k <= m
      BY <1>1, <1>2
    <3>2. {l \in L : l <= k} = {l \in K : l <= k}
      BY <1>2, <1>3, <3>1
    <3> QED BY <1>2, <3>1, <3>2, RankTyped DEF RankIn
  <2>2. {l \in L : l <= m + 1} = K \cup {m + 1}
    BY <1>1, <1>2, <1>3
  <2>3. {l \in L : l <= top + 2} = L
    <3>1. \A l \in L : l <= top + 2
      BY <1>2
    <3> QED BY <3>1
  <2> QED BY <1>7, <2>1, <2>2, <2>3 DEF RankIn
<1>9. ASSUME NEW j \in 1 .. N PROVE NthOf(L, j) = NthOf(K, j) /\ NthOf(K, j) \in 1 .. top
  <2>1. \A k : (k \in L /\ RankIn(L, k) = j) <=> (k \in K /\ RankIn(K, k) = j)
    <3>1. j # N + 1 /\ j # N + 2
      BY <1>6
    <3> HIDE DEF N
    <3> QED BY <1>3, <1>8, <3>1
  <2>2. (CHOOSE k : k \in L /\ RankIn(L, k) = j) = (CHOOSE k : k \in K /\ RankIn(K, k) = j)
    BY <2>1, Zenon
  <2>3. NthOf(L, j) = NthOf(K, j)
    BY <2>2 DEF NthOf
  <2>4. NthOf(K, j) \in K
    <3>1. \E k \in K : RankIn(K, k) = j
      BY <1>2, Ranked
    <3> QED BY <3>1 DEF NthOf
  <2> QED BY <1>2, <2>3, <2>4
<1>10. NthOf(L, N + 1) = m + 1
  <2>1. \A k \in L : RankIn(L, k) = N + 1 <=> k = m + 1
    <3>1. \A k \in K : RankIn(K, k) \in Nat /\ RankIn(K, k) # N + 1
      <4>1. \A k \in K : RankIn(K, k) \in Nat /\ RankIn(K, k) <= N
        BY <1>2, <1>8, RankTyped
      <4> QED BY <1>6, <4>1
    <3>2. N + 2 # N + 1
      BY <1>6
    <3> HIDE DEF N
    <3> QED BY <1>3, <1>8, <3>1, <3>2
  <2>2. m + 1 \in L
    BY <1>3
  <2> QED BY <2>1, <2>2 DEF NthOf
<1>11. /\ Name(p) \in Seq(Chars) /\ Len(Name(p)) = N /\ Name(q) \in Seq(Chars)
       /\ Len(Name(q)) = N + 2
  <2>1. \A j \in 1 .. N : p[NthOf(K, j)] \in Chars
    BY <1>9
  <2>2. Name(p) \in Seq(Chars) /\ Len(Name(p)) = N
    BY <1>5, <1>6, <2>1
  <2>3. ASSUME NEW j \in 1 .. N + 2 PROVE q[NthOf(L, j)] \in Chars
    <3>1. \E k \in L : RankIn(L, k) = j
      <4>1. top + 2 \in Nat /\ j \in 1 .. Cardinality(L)
        BY <1>2, <1>7
      <4> QED BY <1>2, <4>1, Ranked
    <3>2. NthOf(L, j) \in L
      BY <3>1 DEF NthOf
    <3>3. q \in Seq(Chars) /\ Len(q) = top + 2
      BY SlashAssumption, IndexAssumption DEF q
    <3>4. NthOf(L, j) \in 1 .. Len(q)
      BY <1>2, <3>2, <3>3
    <3> HIDE DEF top
    <3> QED BY <3>3, <3>4
  <2>4. Name(q) \in Seq(Chars) /\ Len(Name(q)) = N + 2
    <3>1. Name(q) = [j \in 1 .. N + 2 |-> q[NthOf(L, j)]]
      BY <1>5, <1>7
    <3> HIDE DEF N
    <3> QED BY <1>6, <2>3, <3>1
  <2> QED BY <2>2, <2>4
<1>12. /\ \A j \in 1 .. N : Name(q)[j] = Name(p)[j]
       /\ Name(q)[N + 1] = Slash
  <2>1. ASSUME NEW j \in 1 .. N PROVE Name(q)[j] = Name(p)[j]
    <3>1. Name(q)[j] = q[NthOf(L, j)] /\ Name(p)[j] = p[NthOf(K, j)]
      BY <1>5, <1>6, <1>7
    <3> QED BY <1>2, <1>9, <3>1
  <2>2. Name(q)[N + 1] = q[NthOf(L, N + 1)]
    BY <1>5, <1>6, <1>7
  <2> QED BY <1>4, <1>10, <2>1, <2>2
<1>13. PICK x \in Seq(Chars) : x = Name(p)
  BY <1>11
<1>14. PICK y \in Seq(Chars) : y = Name(q)
  BY <1>11
<1>15. Begins(x \o <<Slash>>, y)
  <2> DEFINE z == x \o <<Slash>>
  <2>1. /\ z \in Seq(Chars) /\ Len(z) = N + 1 /\ z[N + 1] = Slash /\ Len(y) = N + 2
        /\ \A j \in 1 .. N : z[j] = x[j]
    BY <1>6, <1>11, <1>13, <1>14, SlashAssumption
  <2>2. \A j \in 1 .. N : y[j] = x[j]
    BY <1>12, <1>13, <1>14
  <2>3. y[N + 1] = Slash
    BY <1>12, <1>14
  <2> HIDE DEF z
  <2>4. SubSeq(y, 1, N + 1) = z
    <3> HIDE DEF N
    <3>1. \A j \in 1 .. N + 1 : j \in 1 .. N \/ j = N + 1
      BY <1>6
    <3>2. \A j \in 1 .. N + 1 : y[j] = z[j]
      BY <2>1, <2>2, <2>3, <3>1
    <3> QED BY <1>6, <2>1, <3>2
  <2>5. Len(z) <= Len(y) /\ SubSeq(y, 1, Len(z)) = z
    BY <1>6, <2>1, <2>4
  <2> QED BY <2>5 DEF Begins, z
<1> QED BY <1>13, <1>14, <1>15 DEF q
\* The name of the index is that of its path, and no index is the root.
LEMMA IndexNames ==
  /\ Name(<<Index>>) = <<Index>>
  /\ \A p \in Seq(Chars) : Name(p \o <<Slash, Index>>) # <<>>
<1>1. Name(<<Index>>) = <<Index>>
  <2> DEFINE path == <<Index>>
             kept == {k \in 1 .. Len(path) :
                        path[k] = Slash => /\ k > 1 /\ path[k - 1] # Slash
                                           /\ \E l \in k .. Len(path) : path[l] # Slash}
             Nth(j) == CHOOSE k \in kept : Cardinality({l \in kept : l <= k}) = j
  <2>1. kept = {1} /\ Cardinality({1}) = 1
    BY IndexAssumption, FS_Singleton
  <2>2. Nth(1) = 1
    <3>1. {l \in {1} : l <= 1} = {1}
      OBVIOUS
    <3> QED BY <2>1, <3>1
  <2>3. Name(path) = [j \in 1 .. Cardinality(kept) |-> path[Nth(j)]]
    BY DEF Name
  <2> HIDE DEF kept
  <2>4. Name(path) = [j \in 1 .. 1 |-> path[Nth(j)]]
    BY <2>1, <2>3
  <2> HIDE DEF Nth
  <2>5. [j \in 1 .. 1 |-> path[Nth(j)]] = <<Index>>
    BY <2>2
  <2> QED BY <2>4, <2>5
<1>2. ASSUME NEW p \in Seq(Chars) PROVE Name(p \o <<Slash, Index>>) # <<>>
  <2> DEFINE path == p \o <<Slash, Index>>
             kept == {k \in 1 .. Len(path) :
                        path[k] = Slash => /\ k > 1 /\ path[k - 1] # Slash
                                           /\ \E l \in k .. Len(path) : path[l] # Slash}
             Nth(j) == CHOOSE k \in kept : Cardinality({l \in kept : l <= k}) = j
             N == Cardinality(kept)
  <2>1. Len(path) \in Nat /\ Len(path) \in 1 .. Len(path) /\ path[Len(path)] = Index
    BY SlashAssumption, IndexAssumption
  <2>2. Len(path) \in kept
    BY <2>1, IndexAssumption
  <2>3. IsFiniteSet(1 .. Len(path)) /\ kept \subseteq 1 .. Len(path)
    BY <2>1, FS_Interval
  <2>4. Name(path) = [j \in 1 .. N |-> path[Nth(j)]]
    BY DEF Name
  <2> HIDE DEF kept
  <2>5. N \in Nat /\ N # 0
    BY <2>2, <2>3, FS_Subset, FS_CardinalityType, FS_EmptySet
  <2> HIDE DEF N, Nth, path
  <2>6. DOMAIN Name(path) # {}
    BY <2>4, <2>5
  <2>7. DOMAIN <<>> = {}
    OBVIOUS
  <2>8. Name(path) # <<>>
    BY <2>6, <2>7
  <2> QED BY <2>8 DEF path
<1> QED BY <1>1, <1>2

\* A name below another one.
Below(m, y) == Begins(m \o <<Slash>>, y)

\* Being below something is transitive, and makes a name longer.
LEMMA BelowTransitive ==
  ASSUME NEW m \in Seq(Chars), NEW k \in Seq(Chars), Below(m, k)
  PROVE  /\ Len(m) < Len(k)
         /\ \A y \in Seq(Chars) : Below(k, y) => Below(m, y)
<1> DEFINE a == m \o <<Slash>>
           b == k \o <<Slash>>
<1>1. /\ a \in Seq(Chars) /\ Len(a) = Len(m) + 1 /\ b \in Seq(Chars) /\ Len(b) = Len(k) + 1
      /\ \A j \in 1 .. Len(k) : b[j] = k[j]
  BY SlashAssumption
<1>2. Len(a) <= Len(k) /\ SubSeq(k, 1, Len(a)) = a
  BY DEF Below, Begins
<1> HIDE DEF a, b
<1>3. \A j \in 1 .. Len(a) : a[j] = k[j]
  BY <1>1, <1>2
<1>4. ASSUME NEW y \in Seq(Chars), Len(b) <= Len(y), SubSeq(y, 1, Len(b)) = b
      PROVE  Len(a) <= Len(y) /\ SubSeq(y, 1, Len(a)) = a
  <2>1. \A j \in 1 .. Len(b) : y[j] = b[j]
    BY <1>1, <1>4
  <2>2. ASSUME NEW j \in 1 .. Len(a) PROVE y[j] = a[j]
    <3>1. j \in 1 .. Len(k) /\ j \in 1 .. Len(b)
      BY <1>1, <1>2
    <3> QED BY <1>1, <1>3, <2>1, <3>1
  <2>3. Len(a) <= Len(y)
    BY <1>1, <1>2, <1>4
  <2> QED BY <1>1, <2>2, <2>3
<1>5. \A y \in Seq(Chars) : Below(k, y) => Below(m, y)
  BY <1>4 DEF Below, Begins, a, b
<1> QED BY <1>1, <1>2, <1>5

\* A document root as it can be.
IsTree(t) == Tree(t) /\ t = [m \in DOMAIN t |-> t[m]]

AllTrees == UNION {[D -> Nat \cup {Dir}] : D \in SUBSET Seq(Chars)}

\* The trees that are met are functions of one kind, and of integers.
LEMMA TreeTyped ==
  ASSUME NEW t
  PROVE  /\ IsTree(t) => t \in AllTrees
         /\ t \in AllTrees => \A m \in DOMAIN t : t[m] \in Int
<1>1. ASSUME IsTree(t) PROVE t \in AllTrees
  <2> DEFINE D == DOMAIN t
  <2>1. D \in SUBSET Seq(Chars) /\ t \in [D -> Nat \cup {Dir}]
    BY <1>1 DEF IsTree, Tree
  <2> HIDE DEF D
  <2> QED BY <2>1 DEF AllTrees
<1>2. ASSUME t \in AllTrees PROVE \A m \in DOMAIN t : t[m] \in Int
  <2>1. PICK D \in SUBSET Seq(Chars) : t \in [D -> Nat \cup {Dir}]
    BY <1>2 DEF AllTrees
  <2> QED BY <2>1 DEF Dir
<1> QED BY <1>1, <1>2

\* What a name can stand for is told apart.
LEMMA Kinds ==
  /\ ~IsFile(None) /\ ~IsFile(Dir) /\ ~IsFile(Broken)
  /\ Dir # None /\ Dir # Broken /\ None # Broken
BY DEF IsFile, None, Dir, Broken

\* What is in the way of a name.
Blocked(t, name) ==
  \E m \in DOMAIN t : t[m] > None /\ Len(m) < Len(name) /\ Below(m, name)

\* A look in these words.
LEMMA LookIs ==
  ASSUME NEW t, NEW name
  PROVE  Look(t, name) = IF name = <<>> THEN Dir
                         ELSE IF Blocked(t, name) THEN Broken
                         ELSE IF name \in DOMAIN t THEN t[name] ELSE None
BY DEF Look, Blocked, Below

\* Something may be made under a name, and a change leaves a directory or nothing.
Free(t, x) == x \in DOMAIN t /\ t[x] # Dir /\ \A m \in DOMAIN t : Below(m, x) => t[m] = Dir
After(t, u) == /\ IsTree(u) /\ DOMAIN u = DOMAIN t
               /\ \A name : Look(t, name) = Dir => Look(u, name) \in {Dir, None}

\* Something that is made in a directory that is there leaves the directories.
LEMMA Making ==
  ASSUME NEW t, IsTree(t), NEW x, Free(t, x), NEW v, v \in Nat \cup {Dir}, v # None,
         NEW u, u = [t EXCEPT ![x] = v]
  PROVE  After(t, u)
<1>1. /\ \A m \in DOMAIN t : m \in Seq(Chars) /\ t[m] \in Nat \cup {Dir}
      /\ \A m, k \in DOMAIN t : Below(m, k) /\ t[k] # None => t[m] = Dir
  BY DEF IsTree, Tree, Below
<1>0. /\ x \in DOMAIN t /\ t[x] # Dir /\ \A m \in DOMAIN t : Below(m, x) => t[m] = Dir
  BY DEF Free
<1>2. /\ DOMAIN u = DOMAIN t /\ u[x] = v /\ u = [m \in DOMAIN u |-> u[m]]
      /\ \A m \in DOMAIN t : m # x => u[m] = t[m]
  BY <1>0 DEF IsTree
<1>3. ASSUME NEW m \in DOMAIN t, Below(m, m) PROVE FALSE
  <2>1. m \in Seq(Chars) /\ Len(m) \in Nat
    BY <1>1
  <2> QED BY <1>3, <2>1, BelowTransitive
<1>4. Tree(u)
  <2>1. \A m \in DOMAIN u : m \in Seq(Chars) /\ u[m] \in Nat \cup {Dir}
    BY <1>1, <1>2
  <2>2. ASSUME NEW m \in DOMAIN u, NEW k \in DOMAIN u, Below(m, k), u[k] # None
        PROVE  u[m] = Dir
    <3>1. CASE k = x
      BY <1>0, <1>2, <1>3, <2>2, <3>1
    <3>2. CASE k # x
      <4>1. t[m] = Dir
        BY <1>1, <1>2, <2>2, <3>2
      <4> QED BY <1>0, <1>2, <4>1
    <3> QED BY <3>1, <3>2
  <2> QED BY <2>1, <2>2 DEF Tree, Below
<1>5. ASSUME NEW name, Look(t, name) = Dir PROVE Look(u, name) = Dir
  <2>1. CASE name = <<>>
    BY <2>1, LookIs
  <2>2. CASE name # <<>>
    <3>1. ~Blocked(t, name) /\ name \in DOMAIN t /\ t[name] = Dir
      BY <1>5, <2>2, LookIs, Kinds
    <3>2. u[name] = Dir
      BY <1>0, <1>2, <3>1
    <3>3. ~Blocked(u, name)
      <4> SUFFICES ASSUME NEW m \in DOMAIN u, u[m] > None, Len(m) < Len(name), Below(m, name)
                   PROVE  FALSE
        BY DEF Blocked
      <4>1. m # x => t[m] > None
        BY <1>2
      <4>2. m = x
        BY <1>2, <3>1, <4>1 DEF Blocked
      <4> QED BY <1>0, <1>1, <3>1, <4>2, Kinds
    <3> QED BY <1>2, <2>2, <3>1, <3>2, <3>3, LookIs
  <2> QED BY <2>1, <2>2
<1> QED BY <1>2, <1>4, <1>5 DEF IsTree, After

\* Something that is removed, with what is below it, leaves nothing where it was.
LEMMA Removing ==
  ASSUME NEW t, IsTree(t), NEW x \in DOMAIN t,
         NEW u, u = [m \in DOMAIN t |-> IF m = x \/ Below(x, m) THEN None ELSE t[m]]
  PROVE  After(t, u)
<1>1. /\ \A m \in DOMAIN t : m \in Seq(Chars) /\ t[m] \in Nat \cup {Dir}
      /\ \A m, k \in DOMAIN t : Below(m, k) /\ t[k] # None => t[m] = Dir
  BY DEF IsTree, Tree, Below
<1>2. /\ DOMAIN u = DOMAIN t /\ u = [m \in DOMAIN u |-> u[m]]
      /\ \A m \in DOMAIN t : u[m] = IF m = x \/ Below(x, m) THEN None ELSE t[m]
      /\ None \in Nat /\ ~(None > None)
  BY DEF None
<1>3. Tree(u)
  <2>1. \A m \in DOMAIN u : m \in Seq(Chars) /\ u[m] \in Nat \cup {Dir}
    BY <1>1, <1>2
  <2>2. ASSUME NEW m \in DOMAIN u, NEW k \in DOMAIN u, Below(m, k), u[k] # None
        PROVE  u[m] = Dir
    <3>1. t[m] = Dir /\ k # x /\ ~Below(x, k)
      BY <1>1, <1>2, <2>2
    <3>2. m # x /\ ~Below(x, m)
      BY <1>1, <1>2, <2>2, <3>1, BelowTransitive
    <3> QED BY <1>2, <3>1, <3>2
  <2> QED BY <2>1, <2>2 DEF Tree, Below
<1>4. ASSUME NEW name, Look(t, name) = Dir PROVE Look(u, name) \in {Dir, None}
  <2>1. CASE name = <<>>
    BY <2>1, LookIs
  <2>2. CASE name # <<>>
    <3>1. ~Blocked(t, name) /\ name \in DOMAIN t /\ t[name] = Dir
      BY <1>4, <2>2, LookIs, Kinds
    <3>2. Blocked(u, name) => Blocked(t, name)
      BY <1>2 DEF Blocked
    <3> QED BY <1>2, <2>2, <3>1, <3>2, LookIs
  <2> QED BY <2>1, <2>2
<1> QED BY <1>2, <1>3, <1>4 DEF IsTree, After

\* What has an index is a directory.
LEMMA IndexInDir ==
  ASSUME NEW t, IsTree(t), NEW p \in Seq(Chars), Name(p) = <<>> \/ Name(p) \in DOMAIN t,
         Look(t, Name(p \o <<Slash, Index>>)) \notin {None, Broken}
  PROVE  Look(t, Name(p)) = Dir
<1>1. CASE Name(p) = <<>>
  BY <1>1, LookIs
<1>2. CASE Name(p) # <<>>
  <2>1. PICK x : x = Name(p)
    OBVIOUS
  <2>2. PICK y : y = Name(p \o <<Slash, Index>>)
    OBVIOUS
  <2>3. x # <<>> /\ x \in DOMAIN t /\ Below(x, y) /\ y # <<>>
    BY <1>2, <2>1, <2>2, IndexBelow, IndexNames DEF Below
  <2>4. y \in DOMAIN t /\ t[y] # None
    BY <2>2, <2>3, LookIs
  <2>5. /\ \A m \in DOMAIN t : m \in Seq(Chars)
        /\ \A m, k \in DOMAIN t : Below(m, k) /\ t[k] # None => t[m] = Dir
    BY DEF IsTree, Tree, Below
  <2>6. t[x] = Dir
    BY <2>3, <2>4, <2>5
  <2>7. ~Blocked(t, x)
    <3> SUFFICES ASSUME NEW m \in DOMAIN t, t[m] > None, Below(m, x) PROVE FALSE
      BY DEF Blocked
    <3>1. t[m] = Dir
      BY <2>3, <2>5, <2>6, Kinds
    <3> QED BY <3>1 DEF Dir, None
  <2> QED BY <2>1, <2>3, <2>6, <2>7, LookIs
<1> QED BY <1>1, <1>2
-----------------------------------------------------------------------------
\* The parts of a location, and their types.
LEMMA LocationTyped ==
  ASSUME NEW loc \in Location
  PROVE  /\ loc.path \in Seq(Chars) /\ loc.files \in Seq(TryEntry) /\ Len(loc.files) \in Nat
         /\ loc.autoindex \in BOOLEAN /\ loc.redirects \in BOOLEAN
         /\ \A e \in 1 .. Len(loc.files) :
              loc.files[e] \in TryEntry /\ loc.files[e].code \in BOOLEAN
         /\ Kind(loc) \in {"proxy", "none", "try", "root", "rewrite", "return"}
         /\ Kind(loc) = "try" => loc.files # <<>> /\ 1 \in 1 .. Len(loc.files)
<1>1. /\ loc.path \in Seq(Chars) /\ loc.files \in Seq(TryEntry)
      /\ loc.autoindex \in BOOLEAN /\ loc.redirects \in BOOLEAN
      /\ loc.proxy \in {"known", "unknown", "no"} /\ loc.root \in BOOLEAN
      /\ loc.other \in {"rewrite", "return", "none"}
  BY DEF Location
<1>2. \A u \in TryEntry : u.code \in BOOLEAN
  BY DEF TryEntry
<1>3. Len(loc.files) \in Nat /\ \A e \in 1 .. Len(loc.files) : loc.files[e] \in TryEntry
  <2> DEFINE R == TryEntry
             fs == loc.files
  <2>1. fs \in Seq(R)
    BY <1>1
  <2> HIDE DEF R, fs
  <2>2. Len(fs) \in Nat /\ \A e \in 1 .. Len(fs) : fs[e] \in R
    BY <2>1
  <2> QED BY <2>2 DEF R, fs
<1>4. Kind(loc) \in {"proxy", "none", "try", "root", "rewrite", "return"}
  BY <1>1 DEF Kind
<1>5. Kind(loc) = "try" => loc.files # <<>>
  BY <1>1 DEF Kind
<1>6. loc.files # <<>> => 1 \in 1 .. Len(loc.files)
  <2> DEFINE fs == loc.files
             R == TryEntry
  <2>1. fs \in Seq(R)
    BY <1>1
  <2> HIDE DEF fs, R
  <2>2. fs # <<>> => 1 \in 1 .. Len(fs)
    BY <2>1
  <2> QED BY <2>2 DEF fs
<1> QED BY <1>1, <1>2, <1>3, <1>4, <1>5, <1>6

\* The paths that are looked up are sequences of characters.
LEMMA PathsTyped ==
  ASSUME NEW loc \in Location, NEW path \in Seq(Chars)
  PROVE  /\ Uri(loc, path) \in Seq(Chars)
         /\ \A e \in 1 .. Len(loc.files) :
              /\ Candidate(loc, loc.files[e], path) \in Seq(Chars)
              /\ Candidate(loc, loc.files[e], path) \o <<Slash, Index>> \in Seq(Chars)
<1>1. loc.path \in Seq(Chars)
  BY LocationTyped
<1>2. Uri(loc, path) \in Seq(Chars)
  <2> DEFINE q == loc.path
  <2>1. q \in Seq(Chars)
    BY <1>1
  <2> HIDE DEF q
  <2>2. SubSeq(path, Len(q) + 1, Len(path)) \in Seq(Chars) /\ <<Slash>> \in Seq(Chars)
    BY <2>1, SlashAssumption
  <2> QED BY <2>2 DEF Uri, q
<1>3. ASSUME NEW e \in 1 .. Len(loc.files)
      PROVE  /\ Candidate(loc, loc.files[e], path) \in Seq(Chars)
             /\ Candidate(loc, loc.files[e], path) \o <<Slash, Index>> \in Seq(Chars)
  <2> DEFINE u == loc.files[e]
             b == u.before
             m == IF u.uri THEN Uri(loc, path) ELSE <<>>
             a == u.after
  <2>1. u \in TryEntry
    BY LocationTyped
  <2> HIDE DEF u
  <2>2. b \in Seq(Chars) /\ a \in Seq(Chars)
    BY <2>1 DEF TryEntry
  <2>3. m \in Seq(Chars)
    BY <1>2
  <2>4. Candidate(loc, u, path) = b \o m \o a
    BY DEF Candidate
  <2> HIDE DEF a, b, m
  <2>5. b \o m \o a \in Seq(Chars)
    BY <2>2, <2>3
  <2>6. <<Slash, Index>> \in Seq(Chars)
    BY SlashAssumption, IndexAssumption
  <2> QED BY <2>4, <2>5, <2>6 DEF u
<1> QED BY <1>2, <1>3

\* The answer for what is found.
Plain(loc, what) == CASE IsFile(what) -> [is |-> "file", body |-> what]
                      [] what = Dir /\ loc.autoindex -> Still("listing")
                      [] what = Broken -> Still("500")
                      [] OTHER -> Still("404")

\* A static location answers with what one look finds.
LEMMA StaticPlain ==
  ASSUME NEW loc, NEW p, NEW t
  PROVE  /\ Name(p) # <<>> => StaticAnswer(loc, p, t) = Plain(loc, Look(t, Name(p)))
         /\ Name(p) = <<>> =>
              StaticAnswer(loc, p, t) =
                Plain(loc, IF IsFile(Look(t, <<Index>>)) THEN Look(t, <<Index>>) ELSE Dir)
BY LookIs DEF StaticAnswer, Plain

\* Answers of different kinds.
LEMMA PlainIs ==
  ASSUME NEW loc, loc.autoindex \in BOOLEAN, NEW what
  PROVE  /\ IsFile(what) => Plain(loc, what) = [is |-> "file", body |-> what]
         /\ ~IsFile(what) => Plain(loc, what).is # "file"
         /\ what = Dir => Plain(loc, what) = Still(IF loc.autoindex THEN "listing" ELSE "404")
         /\ what # Dir => Plain(loc, what).is # "listing"
         /\ what = None => Plain(loc, what) = Still("404")
         /\ what = Broken => Plain(loc, what) = Still("500")
BY Kinds DEF Plain, Still

\* Something was so at one of the moments that are met.
Undecided(loc, e, path, h) == \E k \in DOMAIN h : ~Decides(loc, e, path, h[k])
Once(loc, p, h, a) == \E k \in DOMAIN h : StaticAnswer(loc, p, h[k]) = a

\* The name that is opened is that of the path, or of the root's index.
Spot(p, tg) == \/ tg = p /\ Name(tg) # <<>>
               \/ tg = <<Index>> /\ Name(p) = <<>>

\* What is found at that name is the answer.
LEMMA SpotAnswers ==
  ASSUME NEW loc, loc.autoindex \in BOOLEAN, NEW p, NEW tg, Spot(p, tg), NEW t
  PROVE  /\ IsFile(Look(t, Name(tg))) =>
              StaticAnswer(loc, p, t) = [is |-> "file", body |-> Look(t, Name(tg))]
         /\ ~IsFile(Look(t, Name(tg))) => StaticAnswer(loc, p, t).is # "file"
<1>1. CASE tg = p /\ Name(tg) # <<>>
  BY <1>1, StaticPlain, PlainIs
<1>2. CASE tg = <<Index>> /\ Name(p) = <<>>
  <2>1. Look(t, Name(tg)) = Look(t, <<Index>>)
    BY <1>2, IndexNames
  <2>2. StaticAnswer(loc, p, t) =
          Plain(loc, IF IsFile(Look(t, <<Index>>)) THEN Look(t, <<Index>>) ELSE Dir)
    BY <1>2, StaticPlain
  <2>3. ~IsFile(Dir)
    BY Kinds
  <2> QED BY <2>1, <2>2, <2>3, PlainIs
<1> QED BY <1>1, <1>2 DEF Spot
-----------------------------------------------------------------------------
Trying == {"try", "dir", "index", "next"}

ReplyKinds == {"nothing", "code", "file", "listing", "redirect", "404", "500", "broken"}

\* Where the handler may be, and with what.
Placed ==
  /\ RouterInv
  /\ site \in Sites /\ Len(routes) <= Len(site)
  /\ pc = "insert" => Len(routes) < Len(site)
  /\ IsTree(tree) /\ met \in Seq(AllTrees) /\ changes \in 0 .. MaxChanges
  /\ hpc \in {"out", "done"} \cup Trying \cup InStatic
  /\ hpc # "out" => pc = "answered" /\ answer # 0
  /\ hpc \in Trying => Kind(Loc) = "try" /\ entry \in 1 .. Len(Loc.files)
  /\ hpc \in InStatic => Kind(Loc) \in Files
  /\ hpc \in Trying \cup InStatic => met # <<>> /\ met[Len(met)] = tree
  /\ entry \in Nat
  /\ target \in Seq(Chars)
  /\ info \in Nat /\ file \in Nat
  /\ reply.is \in ReplyKinds

\* What try_files knows, and what it relies on.
TryStory ==
  /\ hpc \in Trying \cup {"out"} => target = <<>>
  /\ hpc \in {"dir", "index"} =>
       /\ ~Entry.code
       /\ Undecided(Loc, Entry, arg, met) \/ Look(tree, Name(Wanted)) = Dir
  /\ hpc = "index" => Name(Wanted) = <<>> \/ Name(Wanted) \in DOMAIN tree
  /\ hpc = "next" => ~Entry.code /\ Undecided(Loc, Entry, arg, met)

\* And the static handler.
StaticStory ==
  /\ hpc \in InStatic /\ Kind(Loc) = "try" =>
       Decides(Loc, Entry, arg, met[1]) /\ Name(target) # <<>>
  /\ hpc \in {"root", "stat", "list"} => target = Asked
  /\ hpc = "stat" /\ Name(target) = <<>> => Once(Loc, Asked, met, Plain(Loc, Dir))
  /\ hpc = "open" => /\ Spot(Asked, target)
                     /\ \E k \in DOMAIN met : StaticAnswer(Loc, Asked, met[k]).is = "file"
  /\ hpc = "serve" => Once(Loc, Asked, met, [is |-> "file", body |-> file])
  /\ hpc = "list" => Once(Loc, Asked, met, Still("listing"))

Story == TryStory /\ StaticStory /\ AnswerExplained

SiteInv == Placed /\ Story

\* The location that answers.
LEMMA LocIs ==
  ASSUME Placed, answer # 0
  PROVE  Loc \in Location /\ arg \in Seq(Chars)
<1>1. /\ answer \in 1 .. Len(routes) /\ arg \in Seq(Chars) /\ Len(routes) \in Nat
  <2>1. TypeOK
    BY DEF Placed, RouterInv
  <2>2. routes \in Seq(Seq(Chars)) /\ arg \in Seq(Chars) /\ answer \in 0 .. Len(routes)
    BY <2>1 DEF TypeOK
  <2> QED BY <2>2
<1>2. site \in Seq(Location) /\ Len(routes) <= Len(site)
  BY SitesAssumption DEF Placed
<1>3. Loc \in Location
  <2> DEFINE R == Location
  <2>1. site \in Seq(R)
    BY <1>2
  <2> HIDE DEF R
  <2>2. Loc \in R
    BY <1>1, <1>2, <2>1 DEF Loc
  <2> QED BY <2>2 DEF R
<1> QED BY <1>1, <1>3

\* The entry being tried, and its name.
LEMMA WantedIs ==
  ASSUME Placed, hpc \in Trying
  PROVE  /\ Loc \in Location /\ arg \in Seq(Chars) /\ answer # 0 /\ pc = "answered"
         /\ Kind(Loc) = "try" /\ entry \in 1 .. Len(Loc.files) /\ Len(Loc.files) \in Nat
         /\ Wanted \in Seq(Chars) /\ Wanted \o <<Slash, Index>> \in Seq(Chars)
         /\ Entry.code \in BOOLEAN
<1>1. /\ answer # 0 /\ pc = "answered" /\ Kind(Loc) = "try" /\ entry \in 1 .. Len(Loc.files)
  BY DEF Placed, Trying
<1>2. Loc \in Location /\ arg \in Seq(Chars)
  BY <1>1, LocIs
<1>3. Wanted = Candidate(Loc, Loc.files[entry], arg) /\ Entry = Loc.files[entry]
  BY DEF Wanted, Entry
<1>4. Len(Loc.files) \in Nat /\ Entry.code \in BOOLEAN
  BY <1>1, <1>2, <1>3, LocationTyped
<1>5. Wanted \in Seq(Chars) /\ Wanted \o <<Slash, Index>> \in Seq(Chars)
  BY <1>1, <1>2, <1>3, PathsTyped
<1> QED BY <1>1, <1>2, <1>4, <1>5

\* When the entry that is tried decides.
LEMMA EntryDecides ==
  ASSUME NEW t
  PROVE  Decides(Loc, Entry, arg, t) <=>
           \/ Entry.code
           \/ IsFile(Look(t, Name(Wanted)))
           \/ /\ Look(t, Name(Wanted)) = Dir
              /\ Look(t, Name(Wanted \o <<Slash, Index>>)) \notin {None, Broken}
BY DEF Decides, Wanted

\* A step of the handler leaves the router, the site and the files alone; what is
\* met stays or begins anew.
LEMMA HandlerFrame ==
  ASSUME Placed, HandlerStep
  PROVE  /\ UNCHANGED <<vars, site, tree, changes>> /\ RouterInv'
         /\ pc = "answered" /\ answer # 0
         /\ UNCHANGED <<pc, arg, answer, routes, Loc>>
         /\ met' = met \/ met' = <<tree>>
         /\ met' \in Seq(AllTrees)
         /\ hpc \in Trying \cup InStatic => met' # <<>> /\ met'[Len(met')] = tree
<1>1. /\ UNCHANGED <<vars, site, tree, changes>> /\ pc = "answered" /\ answer # 0
      /\ met' = met \/ met' = <<tree>>
  BY DEF HandlerStep, AnswerAtOnce, TryCode, TryFile, TryDir, TryIndex, TryNext, Root, Stat,
         Open, Serve, List, Unmoved, Anew, Step, Placed, files
<1>2. RouterInv'
  BY <1>1, RouterStep DEF Placed
<1>3. UNCHANGED <<pc, arg, answer, routes>>
  BY <1>1 DEF vars
<1>4. Loc' = Loc
  BY <1>1, <1>3 DEF Loc
<1>5. met' \in Seq(AllTrees)
  <2>1. IsTree(tree) /\ met \in Seq(AllTrees)
    BY DEF Placed
  <2>2. PICK t \in AllTrees : t = tree
    BY <2>1, TreeTyped
  <2>3. <<t>> \in Seq(AllTrees)
    OBVIOUS
  <2> QED BY <1>1, <2>1, <2>2, <2>3
<1>6. hpc \in Trying \cup InStatic => met' # <<>> /\ met'[Len(met')] = tree
  <2>1. hpc \in Trying \cup InStatic => met # <<>> /\ met[Len(met)] = tree
    BY DEF Placed
  <2>2. <<tree>> # <<>> /\ <<tree>>[Len(<<tree>>)] = tree
    OBVIOUS
  <2> QED BY <1>1, <2>1, <2>2
<1> QED BY <1>1, <1>2, <1>3, <1>4, <1>5, <1>6

\* The part of Placed that a handler's step has to show.
LEMMA HandlerPlaced ==
  ASSUME Placed, HandlerStep,
         hpc' = "done" \/ (hpc \in Trying \cup InStatic /\ hpc' \in Trying \cup InStatic),
         hpc' \in Trying => Kind(Loc) = "try" /\ entry' \in 1 .. Len(Loc.files),
         hpc' \in InStatic => Kind(Loc) \in Files,
         entry' \in Nat, target' \in Seq(Chars), info' \in Nat, file' \in Nat,
         reply'.is \in ReplyKinds
  PROVE  Placed'
<1>1. /\ UNCHANGED <<vars, site, tree, changes>> /\ RouterInv' /\ pc = "answered" /\ answer # 0
      /\ UNCHANGED <<pc, arg, answer, routes, Loc>> /\ met' \in Seq(AllTrees)
      /\ hpc \in Trying \cup InStatic => met' # <<>> /\ met'[Len(met')] = tree
  BY HandlerFrame
<1>2. IsTree(tree)'
  BY <1>1 DEF Placed, IsTree, Tree
<1>3. hpc' # "out" /\ hpc' \in {"out", "done"} \cup Trying \cup InStatic
  BY DEF Trying, InStatic
<1>4. "done" \notin Trying \cup InStatic
  BY DEF Trying, InStatic
<1> QED BY <1>1, <1>2, <1>3, <1>4 DEF Placed

\* A short answer.
LEMMA Said ==
  ASSUME NEW what \in ReplyKinds, Say(what)
  PROVE  reply' = Still(what) /\ reply'.is \in ReplyKinds /\ UNCHANGED <<target, info, file>>
BY DEF Say, Still
\* What try_files knows is so after each of its steps.
LEMMA TryStep ==
  ASSUME SiteInv, TryCode \/ TryFile \/ TryDir \/ TryIndex \/ TryNext
  PROVE  SiteInv'
<1> PICK t : t = tree
  OBVIOUS
<1> PICK h : h = met
  OBVIOUS
<1> DEFINE x == Look(t, Name(Wanted))
           y == Look(t, Name(Wanted \o <<Slash, Index>>))
           P(u) == Decides(Loc, Entry, arg, u)
<1>1. /\ Placed /\ hpc \in Trying /\ HandlerStep /\ entry \in Nat /\ target = <<>>
      /\ info \in Nat /\ file \in Nat /\ reply.is \in ReplyKinds /\ IsTree(t)
      /\ h # <<>> /\ h[Len(h)] = t /\ Len(h) \in DOMAIN h
  <2>1. Placed /\ TryStory /\ hpc \in Trying /\ HandlerStep
    BY DEF SiteInv, Story, TryCode, TryFile, TryDir, TryIndex, TryNext, Trying, HandlerStep
  <2>2. h # <<>> /\ h[Len(h)] = t /\ h \in Seq(AllTrees) /\ IsTree(t)
    BY <2>1 DEF Placed
  <2>3. Len(h) \in DOMAIN h
    BY <2>2
  <2>4. target = <<>>
    BY <2>1 DEF TryStory
  <2> QED BY <2>1, <2>2, <2>3, <2>4 DEF Placed
<1>2. /\ Loc \in Location /\ arg \in Seq(Chars)
      /\ Kind(Loc) = "try" /\ entry \in 1 .. Len(Loc.files) /\ Len(Loc.files) \in Nat
      /\ Wanted \in Seq(Chars) /\ Wanted \o <<Slash, Index>> \in Seq(Chars)
      /\ Entry.code \in BOOLEAN
  BY <1>1, WantedIs
<1>3. tree' = t /\ UNCHANGED <<arg, answer, Loc>>
  BY <1>1, HandlerFrame
<1>4. \A u : P(u) <=> \/ Entry.code
                      \/ IsFile(Look(u, Name(Wanted)))
                      \/ /\ Look(u, Name(Wanted)) = Dir
                         /\ Look(u, Name(Wanted \o <<Slash, Index>>)) \notin {None, Broken}
  BY EntryDecides
<1>5. P(t) <=> Entry.code \/ IsFile(x) \/ (x = Dir /\ y \notin {None, Broken})
  BY <1>4
<1>6. ~P(t) => Undecided(Loc, Entry, arg, h)
  BY <1>1 DEF Undecided
<1>7. entry' = entry => Wanted' = Wanted /\ Entry' = Entry
  BY <1>3 DEF Wanted, Entry
<1>8. hpc \in {"dir", "index"} => ~Entry.code /\ (Undecided(Loc, Entry, arg, h) \/ x = Dir)
  BY DEF SiteInv, Story, TryStory
<1>9. "try" \notin InStatic /\ "dir" \notin InStatic /\ "index" \notin InStatic
      /\ "next" \notin InStatic /\ "done" \notin InStatic /\ "done" \notin Trying
      /\ "root" \notin Trying /\ "root" \in InStatic /\ "try" \in Files
  BY DEF InStatic, Trying, Files
<1>10. Trying = {"try", "dir", "index", "next"}
  BY DEF Trying
<1> HIDE DEF x, y, P
<1>11. CASE TryCode
  <2>1. /\ hpc' = "done" /\ Entry.code /\ reply' = Still("code") /\ entry' = entry
        /\ target' = <<>> /\ UNCHANGED <<info, file>> /\ reply'.is \in ReplyKinds
    <3>1. "code" \in ReplyKinds /\ Say("code") /\ hpc' = "done" /\ Entry.code /\ entry' = entry
      BY <1>11 DEF TryCode, Step, ReplyKinds
    <3> QED BY <1>1, <3>1, Said
  <2>2. Placed'
    BY <1>1, <1>9, <2>1, HandlerPlaced
  <2>3. TryStory' /\ StaticStory'
    BY <1>9, <1>10, <2>1 DEF TryStory, StaticStory
  <2>4. AnswerExplained'
    BY <1>2, <1>3, <1>7, <2>1 DEF AnswerExplained
  <2> QED BY <2>2, <2>3, <2>4 DEF SiteInv, Story
<1>12. CASE TryFile
  <2>1. /\ ~Entry.code /\ UNCHANGED <<entry, info, file, reply>>
        /\ \/ IsFile(x) /\ hpc' = "root" /\ target' = Wanted /\ met' = <<t>>
           \/ ~IsFile(x) /\ hpc' = "dir" /\ target' = <<>> /\ met' = h
    BY <1>1, <1>12 DEF TryFile, Step, x, Anew, Unmoved, files
  <2>2. Placed'
    <3>1. target' \in Seq(Chars)
      <4>1. <<>> \in Seq(Chars)
        OBVIOUS
      <4> QED BY <1>2, <2>1, <4>1
    <3> QED BY <1>1, <1>2, <1>9, <1>10, <2>1, <3>1, HandlerPlaced
  <2>3. AnswerExplained'
    BY <2>1 DEF AnswerExplained
  <2>4. CASE IsFile(x) /\ hpc' = "root" /\ target' = Wanted /\ met' = <<t>>
    <3>1. P(t) /\ P(t)' = P(t)
      BY <1>3, <1>5, <1>7, <2>1, <2>4 DEF P
    <3>2. Name(Wanted) # <<>>
      BY <2>4, LookIs, Kinds DEF x
    <3>3. Asked' = target'
      BY <1>2, <1>3 DEF Asked
    <3>4. TryStory'
      BY <1>9, <1>10, <2>4 DEF TryStory
    <3>5. Decides(Loc, Entry, arg, met[1])'
      BY <3>1, <2>4 DEF P
    <3>6. StaticStory'
      BY <2>4, <3>2, <3>3, <3>5 DEF StaticStory
    <3> QED BY <2>2, <2>3, <3>4, <3>6 DEF SiteInv, Story
  <2>5. CASE ~IsFile(x) /\ hpc' = "dir" /\ target' = <<>> /\ met' = h
    <3>1. Undecided(Loc, Entry, arg, h) \/ x = Dir
      BY <1>5, <1>6, <2>1, <2>5
    <3>2. TryStory'
      BY <1>3, <1>7, <1>10, <2>1, <2>5, <3>1 DEF TryStory, x
    <3>3. StaticStory'
      BY <1>9, <2>5 DEF StaticStory
    <3> QED BY <2>2, <2>3, <3>2, <3>3 DEF SiteInv, Story
  <2> QED BY <2>1, <2>4, <2>5
<1>13. CASE TryDir
  <2>1. /\ hpc = "dir" /\ UNCHANGED <<entry, target, info, file, reply>> /\ met' = h
        /\ hpc' = IF x = Dir THEN "index" ELSE "next"
    BY <1>13 DEF TryDir, Step, x, Unmoved, files
  <2>2. Placed'
    BY <1>1, <1>2, <1>9, <1>10, <2>1, HandlerPlaced
  <2>3. AnswerExplained'
    BY <2>1 DEF AnswerExplained
  <2>4. x = Dir => Name(Wanted) = <<>> \/ Name(Wanted) \in DOMAIN t
    BY LookIs, Kinds DEF x
  <2>5. TryStory'
    BY <1>1, <1>3, <1>7, <1>8, <1>10, <2>1, <2>4 DEF TryStory, x
  <2>6. StaticStory'
    BY <1>9, <2>1 DEF StaticStory
  <2> QED BY <2>2, <2>3, <2>5, <2>6 DEF SiteInv, Story
<1>14. CASE TryIndex
  <2>1. /\ hpc = "index" /\ UNCHANGED <<entry, info, file, reply>>
        /\ \/ /\ y \notin {None, Broken} /\ hpc' = "root" /\ met' = <<t>>
              /\ target' = Wanted \o <<Slash, Index>>
           \/ y \in {None, Broken} /\ hpc' = "next" /\ target' = <<>> /\ met' = h
    BY <1>1, <1>14 DEF TryIndex, Step, y, Anew, Unmoved, files
  <2>2. Placed'
    <3>1. target' \in Seq(Chars)
      <4>1. <<>> \in Seq(Chars)
        OBVIOUS
      <4> QED BY <1>2, <2>1, <4>1
    <3> QED BY <1>1, <1>2, <1>9, <1>10, <2>1, <3>1, HandlerPlaced
  <2>3. AnswerExplained'
    BY <2>1 DEF AnswerExplained
  <2>4. Name(Wanted) = <<>> \/ Name(Wanted) \in DOMAIN t
    BY <2>1 DEF SiteInv, Story, TryStory
  <2>5. CASE /\ y \notin {None, Broken} /\ hpc' = "root" /\ met' = <<t>>
             /\ target' = Wanted \o <<Slash, Index>>
    <3>1. x = Dir
      BY <1>1, <1>2, <2>4, <2>5, IndexInDir DEF x, y
    <3>2. P(t) /\ P(t)' = P(t)
      BY <1>3, <1>5, <1>7, <2>1, <2>5, <3>1 DEF P
    <3>3. Name(Wanted \o <<Slash, Index>>) # <<>>
      BY <1>2, IndexNames
    <3>4. Asked' = target'
      BY <1>2, <1>3 DEF Asked
    <3>5. TryStory'
      BY <1>9, <1>10, <2>5 DEF TryStory
    <3>6. Decides(Loc, Entry, arg, met[1])'
      BY <2>5, <3>2 DEF P
    <3>7. StaticStory'
      BY <2>5, <3>3, <3>4, <3>6 DEF StaticStory
    <3> QED BY <2>2, <2>3, <3>5, <3>7 DEF SiteInv, Story
  <2>6. CASE y \in {None, Broken} /\ hpc' = "next" /\ target' = <<>> /\ met' = h
    <3>1. ~Entry.code /\ Undecided(Loc, Entry, arg, h)
      <4>1. x = Dir => ~P(t)
        BY <1>5, <1>8, <2>1, <2>6, Kinds
      <4> QED BY <1>6, <1>8, <2>1, <4>1
    <3>2. TryStory'
      BY <1>3, <1>7, <1>10, <2>1, <2>6, <3>1 DEF TryStory
    <3>3. StaticStory'
      BY <1>9, <2>6 DEF StaticStory
    <3> QED BY <2>2, <2>3, <3>2, <3>3 DEF SiteInv, Story
  <2> QED BY <2>1, <2>5, <2>6
<1>15. CASE TryNext
  <2>1. hpc = "next" /\ ~Entry.code /\ Undecided(Loc, Entry, arg, h)
    BY <1>15 DEF TryNext, SiteInv, Story, TryStory
  <2>2. CASE entry < Len(Loc.files)
    <3>1. /\ hpc' = "try" /\ entry' = entry + 1 /\ UNCHANGED <<target, info, file, reply>>
          /\ entry' \in 1 .. Len(Loc.files)
      BY <1>2, <1>15, <2>2 DEF TryNext, Step
    <3>2. Placed'
      BY <1>1, <1>2, <1>9, <1>10, <3>1, HandlerPlaced
    <3>3. TryStory' /\ StaticStory'
      BY <1>1, <1>9, <1>10, <3>1 DEF TryStory, StaticStory
    <3>4. AnswerExplained'
      BY <3>1 DEF AnswerExplained
    <3> QED BY <3>2, <3>3, <3>4 DEF SiteInv, Story
  <2>3. CASE ~(entry < Len(Loc.files))
    <3> DEFINE what == IF Absolute(Entry) THEN "redirect" ELSE "404"
    <3>1. hpc' = "done" /\ entry' = entry /\ met' = h /\ Say(what)
      BY <1>15, <2>3 DEF TryNext, Step, Unmoved, files
    <3>2. what \in ReplyKinds
      BY DEF ReplyKinds
    <3>3. reply' = Still(what) /\ reply'.is \in ReplyKinds /\ UNCHANGED <<target, info, file>>
      <4> HIDE DEF what
      <4> QED BY <3>1, <3>2, Said
    <3>4. Placed'
      <4> HIDE DEF what
      <4> QED BY <1>1, <1>9, <3>1, <3>3, HandlerPlaced
    <3>5. TryStory' /\ StaticStory'
      BY <1>9, <1>10, <3>1 DEF TryStory, StaticStory
    <3>6. entry' = Len(Loc.files)
      BY <1>2, <2>3, <3>1
    <3>7. AnswerExplained'
      <4>1. Kind(Loc') = "try" /\ target' = <<>> /\ Absolute(Entry)' = Absolute(Entry)
        BY <1>1, <1>2, <1>3, <1>7, <3>1, <3>3 DEF Absolute
      <4>2. \E k \in DOMAIN met' : ~Decides(Loc, Entry, arg, met[k])'
        BY <1>3, <1>7, <2>1, <3>1 DEF Undecided
      <4> QED BY <1>3, <3>3, <3>6, <4>1, <4>2 DEF AnswerExplained
    <3> QED BY <3>4, <3>5, <3>7 DEF SiteInv, Story
  <2> QED BY <2>2, <2>3
<1> QED BY <1>11, <1>12, <1>13, <1>14, <1>15

\* A file's version is a number.
LEMMA FileTyped ==
  ASSUME NEW t, IsTree(t), NEW name
  PROVE  IsFile(Look(t, name)) => Look(t, name) \in Nat
BY DEF IsTree, Tree, Look, IsFile, None, Dir, Broken

\* And so is what the static handler knows.
LEMMA StaticStep ==
  ASSUME SiteInv, Root \/ Stat \/ Open \/ Serve \/ List
  PROVE  SiteInv'
<1> PICK t : t = tree
  OBVIOUS
<1> PICK h : h = met
  OBVIOUS
<1> PICK p : p = Asked
  OBVIOUS
<1> DEFINE x == Look(t, Name(target))
           A(u) == StaticAnswer(Loc, p, u)
           last == Len(h)
<1>1. /\ Placed /\ StaticStory /\ hpc \in InStatic /\ HandlerStep /\ entry \in Nat
      /\ target \in Seq(Chars) /\ info \in Nat /\ file \in Nat /\ reply.is \in ReplyKinds
      /\ IsTree(t) /\ h # <<>> /\ h[last] = t /\ last \in DOMAIN h /\ DOMAIN h = 1 .. last
      /\ last \in Nat /\ Kind(Loc) \in Files
      /\ entry' = entry /\ met' = h
  <2>1. /\ Placed /\ StaticStory /\ hpc \in InStatic /\ HandlerStep /\ entry' = entry /\ met' = h
    <3>1. Placed /\ StaticStory /\ HandlerStep
      BY DEF SiteInv, Story, HandlerStep
    <3>2. hpc \in {"root", "stat", "open", "serve", "list"} /\ entry' = entry /\ met' = met
      <4>1. CASE Root
        BY <4>1 DEF Root, Unmoved, files
      <4>2. CASE Stat
        BY <4>2 DEF Stat, Unmoved, files
      <4>3. CASE Open
        BY <4>3 DEF Open, Unmoved, files
      <4>4. CASE Serve
        BY <4>4 DEF Serve, Step, Unmoved, files
      <4>5. CASE List
        BY <4>5 DEF List, Unmoved, files
      <4> QED BY <4>1, <4>2, <4>3, <4>4, <4>5
    <3> QED BY <3>1, <3>2 DEF InStatic
  <2>2. h # <<>> /\ h[last] = t /\ h \in Seq(AllTrees) /\ IsTree(t)
    BY <2>1 DEF Placed
  <2>3. last \in DOMAIN h /\ DOMAIN h = 1 .. last /\ last \in Nat
    BY <2>2
  <2> QED BY <2>1, <2>2, <2>3 DEF Placed
<1>2. tree' = t /\ UNCHANGED <<arg, answer, Loc>> /\ answer # 0
  BY <1>1, HandlerFrame
<1>3. Loc.autoindex \in BOOLEAN /\ Entry' = Entry
  BY <1>1, <1>2, LocIs, LocationTyped DEF Entry
<1>4. "done" \notin InStatic /\ InStatic = {"root", "stat", "open", "serve", "list"}
      /\ Files = {"try", "root"} /\ (\A z \in InStatic \cup {"done"} : z \notin Trying /\ z # "out")
  BY DEF InStatic, Files, Trying
<1>5. /\ Kind(Loc) = "root" => p = Uri(Loc, arg) /\ Asked' = p
      /\ target' = target => Asked' = p
      /\ Kind(Loc) = "try" => p = target /\ target # <<>>
  <2>1. Kind(Loc) = "try" => target # <<>>
    BY <1>1, LastKept DEF StaticStory
  <2> QED BY <1>2, <2>1 DEF Asked
<1>6. TryStory'
  <2>1. hpc' \in InStatic \cup {"done"}
    BY DEF Root, Stat, Open, Serve, List, Step, InStatic
  <2> QED BY <1>4, <2>1 DEF TryStory, Trying
<1>7. /\ hpc \in InStatic /\ Kind(Loc) = "try" => Name(target) # <<>>
      /\ (Decides(Loc, Entry, arg, met[1]))' = Decides(Loc, Entry, arg, h[1])
      /\ Kind(Loc) = "try" => Decides(Loc, Entry, arg, h[1])
  BY <1>1, <1>2, <1>3 DEF StaticStory
<1>8. \A a : A(t) = a => Once(Loc, p, h, a)
  BY <1>1 DEF Once
<1>9. hpc' # "done" => AnswerExplained'
  BY DEF AnswerExplained
<1>10. ASSUME hpc' = "done", target' = target,
              Once(Loc, p, h, reply')
                \/ /\ reply'.is \in {"500", "broken"}
                   /\ \E j, k \in DOMAIN h : /\ j < k /\ A(h[j]).is \in {"file", "listing"}
                                             /\ A(h[k]).is # A(h[j]).is
       PROVE  AnswerExplained'
  <2>1. Asked' = p /\ (Kind(Loc') = "root" \/ target' # <<>>) /\ met' = h /\ Loc' = Loc
    BY <1>1, <1>2, <1>4, <1>5, <1>10
  <2> QED BY <1>10, <2>1 DEF AnswerExplained, Once
<1> HIDE DEF x, A, last
<1>11. CASE Root
  <2> DEFINE y == Look(t, <<Index>>)
  <2>1. /\ hpc = "root" /\ UNCHANGED <<file, reply>>
        /\ \/ /\ Name(target) = <<>> /\ IsFile(y)
              /\ hpc' = "open" /\ target' = <<Index>> /\ info' = y
           \/ /\ ~(Name(target) = <<>> /\ IsFile(y))
              /\ hpc' = "stat" /\ UNCHANGED <<target, info>>
    BY <1>11 DEF Root, Step
  <2>2. target = p
    BY <1>1, <2>1 DEF StaticStory
  <2>3. Placed'
    <3>1. target' \in Seq(Chars)
      <4>1. <<Index>> \in Seq(Chars)
        BY IndexAssumption
      <4> QED BY <1>1, <2>1, <4>1
    <3>2. info' \in Nat
      BY <1>1, <2>1, FileTyped
    <3> QED BY <1>1, <1>4, <2>1, <3>1, <3>2, HandlerPlaced
  <2> HIDE DEF y
  <2>4. CASE /\ Name(target) = <<>> /\ IsFile(y)
             /\ hpc' = "open" /\ target' = <<Index>> /\ info' = y
    <3>1. Kind(Loc) # "try"
      BY <1>1, <1>7, <2>4
    <3>2. Asked' = p /\ Kind(Loc') # "try"
      BY <1>1, <1>2, <1>4, <1>5, <3>1
    <3>3. Spot(p, target')
      BY <2>2, <2>4 DEF Spot
    <3>4. A(t).is = "file"
      <4>1. StaticAnswer(Loc, p, t) = Plain(Loc, y)
        BY <2>2, <2>4, StaticPlain DEF y
      <4> QED BY <1>3, <2>4, <4>1, PlainIs DEF A
    <3>5. \E k \in DOMAIN h : StaticAnswer(Loc, p, h[k]).is = "file"
      BY <1>1, <3>4 DEF A
    <3>6. StaticStory'
      BY <1>1, <1>2, <2>4, <3>2, <3>3, <3>5 DEF StaticStory
    <3> QED BY <1>6, <1>9, <2>3, <2>4, <3>6 DEF SiteInv, Story
  <2>5. CASE /\ ~(Name(target) = <<>> /\ IsFile(y))
             /\ hpc' = "stat" /\ UNCHANGED <<target, info>>
    <3>1. Asked' = p /\ target' = p
      BY <1>5, <2>2, <2>5
    <3>2. Name(target) = <<>> => Once(Loc, p, h, Plain(Loc, Dir))
      BY <1>8, <2>2, <2>5, StaticPlain DEF A, y
    <3>3. StaticStory'
      BY <1>1, <1>2, <1>7, <2>2, <2>5, <3>1, <3>2 DEF StaticStory
    <3> QED BY <1>6, <1>9, <2>3, <2>5, <3>3 DEF SiteInv, Story
  <2> QED BY <2>1, <2>4, <2>5
<1>12. CASE Stat
  <2>1. /\ hpc = "stat" /\ target = p
        /\ Name(target) = <<>> => Once(Loc, p, h, Plain(Loc, Dir))
    BY <1>1, <1>12 DEF Stat, StaticStory
  <2>2. Once(Loc, p, h, Plain(Loc, x))
    <3>1. CASE Name(target) = <<>>
      BY <2>1, <3>1, LookIs DEF x
    <3>2. CASE Name(target) # <<>>
      BY <1>8, <2>1, <3>2, StaticPlain DEF A, x
    <3> QED BY <3>1, <3>2
  <2>3. \/ \E what \in {"404", "500"} :
             hpc' = "done" /\ Still(what) = Plain(Loc, x) /\ Say(what)
        \/ /\ hpc' = "list" /\ x = Dir /\ Loc.autoindex /\ UNCHANGED <<target, info, file, reply>>
        \/ /\ hpc' = "open" /\ IsFile(x) /\ info' = x /\ UNCHANGED <<target, file, reply>>
    <3>1. \/ /\ hpc' = "done" /\ x \in {None, Dir} /\ (x = Dir => ~Loc.autoindex) /\ Say("404")
          \/ /\ hpc' = "done" /\ x = Broken /\ Say("500")
          \/ /\ hpc' = "list" /\ x = Dir /\ Loc.autoindex /\ UNCHANGED <<target, info, file, reply>>
          \/ /\ hpc' = "open" /\ IsFile(x) /\ info' = x /\ UNCHANGED <<target, file, reply>>
      BY <1>12, Kinds DEF Stat, Step, x
    <3>2. /\ x \in {None, Dir} /\ (x = Dir => ~Loc.autoindex) => Plain(Loc, x) = Still("404")
          /\ x = Broken => Plain(Loc, x) = Still("500")
      BY <1>3, PlainIs
    <3> QED BY <3>1, <3>2
  <2>4. ASSUME NEW what \in {"404", "500"}, hpc' = "done", Still(what) = Plain(Loc, x), Say(what)
        PROVE  SiteInv'
    <3>1. reply' = Still(what) /\ reply'.is \in ReplyKinds /\ UNCHANGED <<target, info, file>>
      BY <2>4, Said DEF ReplyKinds
    <3>2. Placed'
      BY <1>1, <1>4, <2>4, <3>1, HandlerPlaced
    <3>3. StaticStory'
      BY <1>4, <2>4 DEF StaticStory
    <3>4. AnswerExplained'
      BY <1>10, <2>2, <2>4, <3>1
    <3> QED BY <1>6, <3>2, <3>3, <3>4 DEF SiteInv, Story
  <2>5. CASE hpc' = "list" /\ x = Dir /\ Loc.autoindex /\ UNCHANGED <<target, info, file, reply>>
    <3>1. Placed'
      BY <1>1, <1>4, <2>5, HandlerPlaced
    <3>2. Once(Loc, p, h, Still("listing"))
      <4>1. x = Dir /\ Loc.autoindex
        BY <2>5
      <4>2. Dir # None /\ Dir # Broken /\ ~IsFile(Dir)
        BY Kinds
      <4>3. Plain(Loc, Dir) = Still("listing")
        BY <4>1, <4>2 DEF Plain
      <4>4. Plain(Loc, x) = Still("listing")
        BY <4>1, <4>3
      <4> QED BY <2>2, <4>4
    <3>3. StaticStory'
      BY <1>1, <1>2, <1>5, <1>7, <2>1, <2>5, <3>2 DEF StaticStory
    <3> QED BY <1>6, <1>9, <2>5, <3>1, <3>3 DEF SiteInv, Story
  <2>6. CASE hpc' = "open" /\ IsFile(x) /\ info' = x /\ UNCHANGED <<target, file, reply>>
    <3>1. Placed'
      <4>1. info' \in Nat
        BY <1>1, <2>6, FileTyped DEF x
      <4> QED BY <1>1, <1>4, <2>6, <4>1, HandlerPlaced
    <3>2. Spot(p, target')
      BY <2>1, <2>6, LookIs, Kinds DEF Spot, x
    <3>3. \E k \in DOMAIN h : StaticAnswer(Loc, p, h[k]).is = "file"
      BY <1>3, <2>2, <2>6, PlainIs DEF Once
    <3>4. StaticStory'
      BY <1>1, <1>2, <1>5, <1>7, <2>1, <2>6, <3>2, <3>3 DEF StaticStory
    <3> QED BY <1>6, <1>9, <2>6, <3>1, <3>4 DEF SiteInv, Story
  <2> QED BY <2>3, <2>4, <2>5, <2>6
<1>13. CASE Open
  <2>1. /\ hpc = "open" /\ Spot(p, target)
        /\ \E k \in DOMAIN h : A(h[k]).is = "file"
    BY <1>1, <1>13 DEF Open, StaticStory, A
  <2>2. /\ IsFile(x) => A(t) = [is |-> "file", body |-> x]
        /\ ~IsFile(x) => A(t).is # "file"
    BY <1>3, <2>1, SpotAnswers DEF A, x
  <2>3. \/ ~IsFile(x) /\ hpc' = "done" /\ \E what \in {"500", "broken"} : Say(what)
        \/ IsFile(x) /\ hpc' = "serve" /\ file' = x /\ UNCHANGED <<target, info, reply>>
    BY <1>13, Kinds DEF Open, Step, x
  <2>4. ASSUME ~IsFile(x), hpc' = "done", NEW what \in {"500", "broken"}, Say(what)
        PROVE  SiteInv'
    <3>1. reply' = Still(what) /\ reply'.is \in ReplyKinds /\ UNCHANGED <<target, info, file>>
      BY <2>4, Said DEF ReplyKinds
    <3>2. Placed'
      BY <1>1, <1>4, <2>4, <3>1, HandlerPlaced
    <3>3. StaticStory'
      BY <1>4, <2>4 DEF StaticStory
    <3>4. \E j, k \in DOMAIN h : /\ j < k /\ A(h[j]).is \in {"file", "listing"}
                                 /\ A(h[k]).is # A(h[j]).is
      <4>1. PICK j \in DOMAIN h : A(h[j]).is = "file"
        BY <2>1
      <4>2. A(h[last]).is # "file"
        BY <1>1, <2>2, <2>4
      <4>3. j < last
        BY <1>1, <4>1, <4>2
      <4> QED BY <1>1, <4>1, <4>2, <4>3
    <3>5. reply'.is \in {"500", "broken"}
      BY <3>1 DEF Still
    <3>6. AnswerExplained'
      BY <1>10, <2>4, <3>1, <3>4, <3>5
    <3> QED BY <1>6, <3>2, <3>3, <3>6 DEF SiteInv, Story
  <2>5. CASE IsFile(x) /\ hpc' = "serve" /\ file' = x /\ UNCHANGED <<target, info, reply>>
    <3>1. Placed'
      <4>1. file' \in Nat
        BY <1>1, <2>5, FileTyped DEF x
      <4> QED BY <1>1, <1>4, <2>5, <4>1, HandlerPlaced
    <3>2. Once(Loc, p, h, [is |-> "file", body |-> x])
      BY <1>8, <2>2, <2>5
    <3>3. StaticStory'
      BY <1>1, <1>2, <1>5, <1>7, <2>1, <2>5, <3>2 DEF StaticStory
    <3> QED BY <1>6, <1>9, <2>5, <3>1, <3>3 DEF SiteInv, Story
  <2> QED BY <2>3, <2>4, <2>5
<1>14. CASE Serve
  <2>1. /\ hpc = "serve" /\ hpc' = "done" /\ UNCHANGED <<target, info, file>>
        /\ reply' = [is |-> "file", body |-> file]
    BY <1>14 DEF Serve, Step
  <2>2. Placed'
    BY <1>1, <1>4, <2>1, HandlerPlaced DEF ReplyKinds
  <2>3. StaticStory'
    BY <1>4, <2>1 DEF StaticStory
  <2>4. AnswerExplained'
    <3>1. Once(Loc, p, h, [is |-> "file", body |-> file])
      BY <1>1, <2>1 DEF StaticStory
    <3> QED BY <1>10, <2>1, <3>1
  <2> QED BY <1>6, <2>2, <2>3, <2>4 DEF SiteInv, Story
<1>15. CASE List
  <2> DEFINE what == IF x = Dir THEN "listing" ELSE "500"
  <2>1. hpc = "list" /\ hpc' = "done" /\ Say(what) /\ what \in ReplyKinds
    BY <1>15 DEF List, Step, ReplyKinds, x
  <2>2. target = p /\ Once(Loc, p, h, Still("listing"))
    BY <1>1, <2>1 DEF StaticStory
  <2> HIDE DEF what
  <2>3. reply' = Still(what) /\ reply'.is \in ReplyKinds /\ UNCHANGED <<target, info, file>>
    BY <2>1, Said
  <2>4. Placed'
    BY <1>1, <1>4, <2>1, <2>3, HandlerPlaced
  <2>5. StaticStory'
    BY <1>4, <2>1 DEF StaticStory
  <2>6. CASE x = Dir
    <3>1. AnswerExplained'
      BY <1>10, <2>1, <2>2, <2>3, <2>6 DEF what
    <3> QED BY <1>6, <2>4, <2>5, <3>1 DEF SiteInv, Story
  <2>7. CASE x # Dir
    <3>1. Name(target) # <<>>
      BY <2>7, LookIs DEF x
    <3>2. A(t).is # "listing"
      BY <1>3, <2>2, <2>7, <3>1, StaticPlain, PlainIs DEF A, x
    <3>3. \E j, k \in DOMAIN h : /\ j < k /\ A(h[j]).is \in {"file", "listing"}
                                 /\ A(h[k]).is # A(h[j]).is
      <4>1. PICK j \in DOMAIN h : A(h[j]).is = "listing"
        BY <2>2 DEF Once, Still, A
      <4>2. j < last
        BY <1>1, <3>2, <4>1
      <4> QED BY <1>1, <3>2, <4>1, <4>2
    <3>4. reply'.is = "500"
      BY <2>3, <2>7 DEF Still, what
    <3>5. AnswerExplained'
      BY <1>10, <2>1, <2>3, <3>3, <3>4
    <3> QED BY <1>6, <2>4, <2>5, <3>5 DEF SiteInv, Story
  <2> QED BY <2>6, <2>7
<1> QED BY <1>11, <1>12, <1>13, <1>14, <1>15

\* A history with another moment.
Further(h, u, g) ==
  /\ g \in Seq(AllTrees) /\ g # <<>> /\ g[Len(g)] = u /\ Len(g) \in DOMAIN g
  /\ DOMAIN h \subseteq DOMAIN g /\ \A k \in DOMAIN h : g[k] = h[k]
  /\ h # <<>> => g[1] = h[1]
  /\ \A loc, e, path : Undecided(loc, e, path, h) => Undecided(loc, e, path, g)
  /\ \A loc, p, a : Once(loc, p, h, a) => Once(loc, p, g, a)

\* What was so at one of the moments stays so when there is another one.
LEMMA Longer ==
  ASSUME NEW h \in Seq(AllTrees), NEW u \in AllTrees, NEW g, g = Append(h, u)
  PROVE  Further(h, u, g)
<1>1. /\ g \in Seq(AllTrees) /\ g # <<>> /\ g[Len(g)] = u /\ Len(g) \in DOMAIN g
      /\ DOMAIN h \subseteq DOMAIN g /\ \A k \in DOMAIN h : g[k] = h[k]
      /\ h # <<>> => 1 \in DOMAIN h
  <2>1. Len(g) = Len(h) + 1 /\ Len(h) \in Nat /\ g \in Seq(AllTrees)
    OBVIOUS
  <2>2. DOMAIN h = 1 .. Len(h) /\ DOMAIN g = 1 .. Len(g)
    BY <2>1
  <2>3. \A k \in DOMAIN h : g[k] = h[k]
    BY <2>2
  <2>4. g[Len(g)] = u
    BY <2>1
  <2> QED BY <2>1, <2>2, <2>3, <2>4
<1>2. \A loc, e, path : Undecided(loc, e, path, h) => Undecided(loc, e, path, g)
  BY <1>1 DEF Undecided
<1>3. \A loc, p, a : Once(loc, p, h, a) => Once(loc, p, g, a)
  BY <1>1 DEF Once
<1> QED BY <1>1, <1>2, <1>3 DEF Further

\* A change of the files takes nothing from what the handler knows.
LEMMA ChangeStep ==
  ASSUME SiteInv, Change
  PROVE  SiteInv'
<1> PICK t : t = tree
  OBVIOUS
<1> PICK h : h = met
  OBVIOUS
<1> PICK u : u = tree'
  OBVIOUS
<1>1. /\ Placed /\ TryStory /\ StaticStory /\ hpc \in Trying \cup InStatic
      /\ changes < MaxChanges /\ changes' = changes + 1 /\ met' = Append(h, u)
      /\ UNCHANGED <<vars, site, handler>> /\ IsTree(t) /\ h \in Seq(AllTrees) /\ h # <<>>
      /\ changes \in 0 .. MaxChanges
  <2>1. Placed /\ TryStory /\ StaticStory
    BY DEF SiteInv, Story
  <2>2. hpc \in Trying \cup InStatic
    BY <2>1 DEF Change, Placed
  <2>3. IsTree(t) /\ h \in Seq(AllTrees) /\ h # <<>> /\ changes \in 0 .. MaxChanges
    BY <2>1, <2>2 DEF Placed
  <2> QED BY <2>1, <2>2, <2>3 DEF Change
<1>2. After(t, u)
  <2>1. PICK name \in DOMAIN t :
          \/ /\ t[name] # Dir /\ Parented(name)
             /\ u = [t EXCEPT ![name] = Fresh + changes]
          \/ t[name] = None /\ Parented(name) /\ u = [t EXCEPT ![name] = Dir]
          \/ t[name] # None /\ u = Without(name)
    BY DEF Change
  <2>2. Parented(name) /\ t[name] # Dir => Free(t, name)
    BY DEF Parented, Below, Free
  <2>3. CASE /\ t[name] # Dir /\ Parented(name)
             /\ u = [t EXCEPT ![name] = Fresh + changes]
    <3>1. PICK v : v = Fresh + changes
      OBVIOUS
    <3>2. v \in Nat \cup {Dir} /\ v # None
      BY <1>1, <3>1, FreshAssumption DEF None
    <3>3. IsTree(t) /\ Free(t, name) /\ u = [t EXCEPT ![name] = v]
      BY <1>1, <2>2, <2>3, <3>1
    <3> QED BY <3>2, <3>3, Making
  <2>4. CASE t[name] = None /\ Parented(name) /\ u = [t EXCEPT ![name] = Dir]
    <3>1. Dir \in Nat \cup {Dir} /\ Dir # None /\ t[name] # Dir
      BY <2>4, Kinds
    <3>2. IsTree(t) /\ Free(t, name) /\ u = [t EXCEPT ![name] = Dir]
      BY <1>1, <2>2, <2>4, <3>1
    <3> QED BY <3>1, <3>2, Making
  <2>5. CASE t[name] # None /\ u = Without(name)
    <3>1. u = [m \in DOMAIN t |-> IF m = name \/ Below(name, m) THEN None ELSE t[m]]
      BY <2>5 DEF Without, Below
    <3> QED BY <1>1, <3>1, Removing
  <2> QED BY <2>1, <2>3, <2>4, <2>5
<1>3. /\ UNCHANGED <<pc, arg, answer, routes, hpc, entry, target, info, file, reply>>
      /\ Loc' = Loc /\ Entry' = Entry /\ Wanted' = Wanted /\ Asked' = Asked
  <2>1. UNCHANGED <<pc, arg, answer, routes, hpc, entry, target, info, file, reply>>
    BY <1>1 DEF vars, handler
  <2>2. Loc' = Loc
    BY <1>1, <2>1 DEF Loc
  <2>3. Entry' = Entry
    BY <2>1, <2>2 DEF Entry
  <2> QED BY <2>1, <2>2, <2>3 DEF Wanted, Asked
<1>4. PICK g : g = met'
  OBVIOUS
<1>5. u \in AllTrees
  BY <1>2, TreeTyped DEF After
<1>6. /\ g \in Seq(AllTrees) /\ g # <<>> /\ g[Len(g)] = u /\ Len(g) \in DOMAIN g
      /\ DOMAIN h \subseteq DOMAIN g /\ (\A k \in DOMAIN h : g[k] = h[k]) /\ g[1] = h[1]
      /\ \A loc, e, path : Undecided(loc, e, path, h) => Undecided(loc, e, path, g)
      /\ \A loc, p, a : Once(loc, p, h, a) => Once(loc, p, g, a)
  <2>1. h \in Seq(AllTrees) /\ g = Append(h, u) /\ h # <<>>
    BY <1>1, <1>4
  <2>2. Further(h, u, g)
    BY <1>5, <2>1, Longer
  <2> QED BY <2>1, <2>2 DEF Further
<1>7. Placed'
  <2>1. RouterInv'
    BY <1>1, RouterStep DEF Placed
  <2>2. changes' \in 0 .. MaxChanges
    BY <1>1, FreshAssumption
  <2>3. IsTree(tree)'
    BY <1>2 DEF After, IsTree, Tree
  <2>4. met' \in Seq(AllTrees) /\ met' # <<>> /\ met'[Len(met')] = tree'
    BY <1>4, <1>6
  <2>5. site' = site
    BY <1>1
  <2> HIDE DEF Trying, InStatic
  <2> QED BY <1>1, <1>3, <2>1, <2>2, <2>3, <2>4, <2>5 DEF Placed
<1>8. TryStory'
  <2>1. hpc \in {"dir", "index"} => Undecided(Loc, Entry, arg, g) \/ Look(u, Name(Wanted)) = Dir
    <3> SUFFICES ASSUME hpc \in {"dir", "index"}, ~Undecided(Loc, Entry, arg, g)
                 PROVE  Look(u, Name(Wanted)) = Dir
      OBVIOUS
    <3>1. ~Entry.code /\ Look(t, Name(Wanted)) = Dir
      BY <1>1, <1>6 DEF TryStory
    <3>2. Decides(Loc, Entry, arg, u)
      BY <1>6 DEF Undecided
    <3>3. Look(u, Name(Wanted)) \in {Dir, None}
      BY <1>2, <3>1 DEF After
    <3> QED BY <3>1, <3>2, <3>3, EntryDecides, Kinds
  <2>2. hpc = "next" => ~Entry.code /\ Undecided(Loc, Entry, arg, g)
    BY <1>1, <1>6 DEF TryStory
  <2>3. (hpc = "index" => Name(Wanted) = <<>> \/ Name(Wanted) \in DOMAIN u)
        /\ (hpc \in {"dir", "index"} => ~Entry.code)
        /\ (hpc \in Trying \cup {"out"} => target = <<>>)
    BY <1>1, <1>2 DEF TryStory, After
  <2> QED BY <1>3, <1>4, <2>1, <2>2, <2>3 DEF TryStory
<1>9. StaticStory'
  <2>1. \A k \in DOMAIN h : k \in DOMAIN g /\ g[k] = h[k]
    BY <1>6
  <2>2. (\E k \in DOMAIN h : StaticAnswer(Loc, Asked, h[k]).is = "file")
          => \E k \in DOMAIN g : StaticAnswer(Loc, Asked, g[k]).is = "file"
    BY <2>1
  <2>3. Decides(Loc, Entry, arg, h[1]) => Decides(Loc, Entry, arg, g[1])
    BY <1>6
  <2> QED BY <1>1, <1>3, <1>4, <1>6, <2>2, <2>3 DEF StaticStory
<1>10. AnswerExplained'
  <2>1. hpc' # "done"
    BY <1>1, <1>3 DEF Trying, InStatic
  <2> QED BY <2>1 DEF AnswerExplained
<1> QED BY <1>7, <1>8, <1>9, <1>10 DEF SiteInv, Story

\* The handler goes on.
LEMMA HandlerKeeps ==
  ASSUME SiteInv, HandlerStep
  PROVE  SiteInv'
<1>1. CASE AnswerAtOnce
  <2> DEFINE what == Answers(Loc)
  <2>1. /\ Placed /\ TryStory /\ hpc = "out" /\ answer # 0 /\ hpc' = "done" /\ Say(what)
        /\ Kind(Loc) \notin Files /\ Kind(Loc) # "proxy" /\ entry' = entry
    BY <1>1 DEF AnswerAtOnce, Step, SiteInv, Story
  <2>2. Loc \in Location
    BY <2>1, LocIs
  <2>3. what \in ReplyKinds
    <3>1. Kind(Loc) \in {"none", "rewrite", "return"}
      BY <2>1, <2>2, LocationTyped DEF Files
    <3> QED BY <3>1 DEF Answers, ReplyKinds
  <2> HIDE DEF what
  <2>4. reply'.is \in ReplyKinds /\ UNCHANGED <<target, info, file>>
    BY <2>1, <2>3, Said
  <2>5. entry \in Nat /\ target \in Seq(Chars) /\ info \in Nat /\ file \in Nat
    BY <2>1 DEF Placed
  <2>6. "done" \notin Trying \cup InStatic \cup {"out"}
    BY DEF Trying, InStatic
  <2>7. Placed'
    BY <2>1, <2>4, <2>5, <2>6, HandlerPlaced
  <2>8. TryStory' /\ StaticStory'
    BY <2>1, <2>6 DEF TryStory, StaticStory, Trying
  <2>9. AnswerExplained'
    <3>1. Loc' = Loc
      BY <2>1, HandlerFrame
    <3> QED BY <2>1, <3>1 DEF AnswerExplained
  <2> QED BY <2>7, <2>8, <2>9 DEF SiteInv, Story
<1> QED BY <1>1, TryStep, StaticStep DEF HandlerStep

\* The handler of a location with files is entered.
LEMMA EnterStep ==
  ASSUME SiteInv, Enter
  PROVE  SiteInv'
<1>1. PICK t \in Trees : t = tree' /\ met' = <<t>>
  BY DEF Enter
<1>2. /\ Placed /\ TryStory /\ pc = "answered" /\ hpc = "out" /\ answer # 0
      /\ UNCHANGED <<vars, site, changes, info, file, reply>>
      /\ \/ Kind(Loc) = "try" /\ hpc' = "try" /\ entry' = 1 /\ UNCHANGED target
         \/ Kind(Loc) = "root" /\ hpc' = "root" /\ target' = Uri(Loc, arg) /\ UNCHANGED entry
  BY DEF Enter, SiteInv, Story
<1>3. Loc \in Location /\ arg \in Seq(Chars) /\ target = <<>>
  BY <1>2, LocIs DEF TryStory
<1>4. /\ UNCHANGED <<pc, arg, answer, routes>> /\ Loc' = Loc
  BY <1>2 DEF vars, Loc
<1>5. IsTree(t) /\ t \in AllTrees /\ <<t>> \in Seq(AllTrees) /\ <<t>> # <<>>
      /\ <<t>>[Len(<<t>>)] = t
  <2>1. IsTree(t)
    BY <1>1, TreesAssumption DEF IsTree
  <2>2. t \in AllTrees
    BY <2>1, TreeTyped
  <2> QED BY <2>1, <2>2
<1>6. Placed'
  <2>1. RouterInv'
    BY <1>2, RouterStep DEF Placed
  <2>2. IsTree(tree)' /\ met' \in Seq(AllTrees) /\ met' # <<>> /\ met'[Len(met')] = tree'
    BY <1>1, <1>5 DEF IsTree, Tree
  <2>3. target' \in Seq(Chars)
    BY <1>2, <1>3, PathsTyped DEF Placed
  <2>4. hpc' = "try" => entry' \in 1 .. Len(Loc.files)
    BY <1>2, <1>3, LocationTyped
  <2>5. entry' \in Nat
    BY <1>2 DEF Placed
  <2>6. hpc' \in {"try", "root"} /\ (hpc' = "try" => Kind(Loc) = "try")
        /\ (hpc' = "root" => Kind(Loc) \in Files)
    BY <1>2 DEF Files
  <2>7. "try" \in Trying /\ "try" \notin InStatic /\ "root" \in InStatic /\ "root" \notin Trying
    BY DEF Trying, InStatic
  <2> QED BY <1>2, <1>4, <2>1, <2>2, <2>3, <2>4, <2>5, <2>6, <2>7 DEF Placed
<1>7. TryStory'
  BY <1>2, <1>3 DEF TryStory, Trying
<1>8. StaticStory'
  <2>1. hpc' = "root" => Kind(Loc') = "root" /\ target' = Asked'
    BY <1>2, <1>4 DEF Asked
  <2> QED BY <1>2, <2>1 DEF StaticStory, InStatic
<1>9. AnswerExplained'
  BY <1>2 DEF AnswerExplained
<1> QED BY <1>6, <1>7, <1>8, <1>9 DEF SiteInv, Story

\* The router is at work, and the handler is not.
LEMMA OutsideStep ==
  ASSUME SiteInv, AddLocation \/ Ask \/ Walk \/ Finish
  PROVE  SiteInv'
<1>1. Placed /\ TryStory /\ RouterInv /\ TypeOK /\ site \in Seq(Location)
  BY SitesAssumption DEF SiteInv, Story, Placed, RouterInv
<1>2. /\ TreeStep /\ hpc' = "out" /\ site' = site /\ Len(routes') <= Len(site)
      /\ pc' = "insert" => Len(routes') < Len(site)
  <2>0. Len(routes) \in Nat /\ Len(site) \in Nat /\ Len(routes) <= Len(site)
    BY <1>1 DEF TypeOK, Placed
  <2>1. CASE AddLocation
    <3>1. site[Len(routes) + 1].path \in Seq(Chars)
      <4> DEFINE R == Location
      <4>1. site \in Seq(R) /\ Len(routes) + 1 \in 1 .. Len(site)
        BY <1>1, <2>0, <2>1 DEF AddLocation
      <4> HIDE DEF R
      <4>2. site[Len(routes) + 1] \in R
        BY <4>1
      <4> QED BY <4>2, LocationTyped DEF R
    <3>2. hpc = "out" /\ hpc' = hpc
      BY <1>1, <2>1 DEF AddLocation, AddRoute, Start, Placed, handler
    <3> QED BY <2>0, <2>1, <3>1, <3>2 DEF AddLocation, TreeStep, AddRoute
  <2>2. CASE Ask
    <3>1. hpc = "out" /\ hpc' = hpc
      BY <1>1, <2>2 DEF Ask, Request, Start, Placed, handler
    <3> QED BY <2>0, <2>2, <3>1, PatternsAssumption DEF Ask, TreeStep, Request, Start
  <2>3. CASE Walk
    <3>1. hpc = "out" /\ hpc' = hpc /\ site' = site
      BY <1>1, <2>3 DEF Walk, Descend, Grow, Register, Follow, Answer, Placed, handler
    <3>2. CASE Register
      <4>1. pc = "insert" /\ pc' = "idle" /\ Len(routes') = Len(routes) + 1
        BY <1>1, <3>2 DEF Register, TypeOK
      <4>2. Len(routes) < Len(site)
        BY <1>1, <4>1 DEF Placed
      <4> QED BY <2>0, <3>1, <3>2, <4>1, <4>2 DEF TreeStep
    <3>3. CASE Descend \/ Grow \/ Follow \/ Answer
      <4>1. routes' = routes /\ (pc' = "insert" => pc = "insert")
        BY <3>3 DEF Descend, Grow, Follow, Answer
      <4> QED BY <1>1, <2>0, <3>1, <3>3, <4>1 DEF TreeStep, Placed
    <3> QED BY <2>3, <3>2, <3>3 DEF Walk
  <2>4. CASE Finish
    BY <1>1, <2>0, <2>4 DEF Finish, Served, TreeStep
  <2> QED BY <2>1, <2>2, <2>3, <2>4
<1>3. RouterInv'
  BY <1>1, <1>2, RouterStep
<1>4. \/ UNCHANGED <<tree, met, changes, entry, target, info, file, reply>> /\ hpc = "out"
      \/ /\ tree' = <<>> /\ met' = <<>> /\ changes' = 0 /\ entry' = 0 /\ target' = <<>>
         /\ info' = 0 /\ file' = 0 /\ reply' = NoReply
  BY <1>2 DEF AddLocation, Ask, Walk, Finish, files, handler
<1>5. "out" \notin Trying \cup InStatic
  BY DEF Trying, InStatic
<1>6. Placed'
  <2>1. IsTree(<<>>) /\ <<>> \in Seq(Chars) /\ <<>> \in Seq(AllTrees) /\ 0 \in 0 .. MaxChanges
    BY FreshAssumption DEF IsTree, Tree
  <2>2. NoReply.is \in ReplyKinds
    BY DEF NoReply, Still, ReplyKinds
  <2>3. /\ IsTree(tree) /\ met \in Seq(AllTrees) /\ changes \in 0 .. MaxChanges
        /\ entry \in Nat /\ target \in Seq(Chars) /\ info \in Nat /\ file \in Nat
        /\ reply.is \in ReplyKinds /\ site \in Sites
    BY <1>1 DEF Placed
  <2>4. /\ IsTree(tree') /\ met' \in Seq(AllTrees) /\ changes' \in 0 .. MaxChanges
        /\ entry' \in Nat /\ target' \in Seq(Chars) /\ info' \in Nat /\ file' \in Nat
        /\ reply'.is \in ReplyKinds
    <3>1. CASE UNCHANGED <<tree, met, changes, entry, target, info, file, reply>>
      BY <2>3, <3>1 DEF IsTree, Tree
    <3>2. CASE /\ tree' = <<>> /\ met' = <<>> /\ changes' = 0 /\ entry' = 0 /\ target' = <<>>
               /\ info' = 0 /\ file' = 0 /\ reply' = NoReply
      BY <2>1, <2>2, <3>2 DEF IsTree, Tree
    <3> QED BY <1>4, <3>1, <3>2
  <2>5. IsTree(tree)'
    BY <2>4 DEF IsTree, Tree
  <2> QED BY <1>2, <1>3, <1>5, <2>3, <2>4, <2>5 DEF Placed
<1>7. TryStory'
  <2>1. target' = <<>>
    BY <1>1, <1>4 DEF TryStory
  <2> QED BY <1>2, <2>1 DEF TryStory
<1>8. StaticStory' /\ AnswerExplained'
  BY <1>2 DEF StaticStory, InStatic, AnswerExplained
<1> QED BY <1>6, <1>7, <1>8 DEF SiteInv, Story

\* Everything that Site promises holds at first.
LEMMA SiteStarts == SiteInit => SiteInv
<1> SUFFICES ASSUME SiteInit PROVE SiteInv
  OBVIOUS
<1>1. RouterInv /\ routes = <<>> /\ pc = "idle"
  BY RouterInit DEF SiteInit, Init
<1>2. IsTree(<<>>) /\ <<>> \in Seq(Chars) /\ <<>> \in Seq(AllTrees) /\ 0 \in 0 .. MaxChanges
  BY FreshAssumption DEF IsTree, Tree
<1>3. site \in Sites /\ Len(routes) <= Len(site)
  <2>1. site \in Seq(Location)
    BY SitesAssumption DEF SiteInit
  <2> QED BY <1>1, <2>1 DEF SiteInit
<1>4. NoReply.is \in ReplyKinds
  BY DEF NoReply, Still, ReplyKinds
<1>5. "out" \notin Trying \cup InStatic
  BY DEF Trying, InStatic
<1>6. Placed
  BY <1>1, <1>2, <1>3, <1>4, <1>5 DEF SiteInit, Placed
<1>7. TryStory /\ StaticStory /\ AnswerExplained
  BY DEF SiteInit, TryStory, StaticStory, InStatic, AnswerExplained
<1> QED BY <1>6, <1>7 DEF SiteInv, Story

\* Every step keeps the invariant.
LEMMA SiteStep ==
  ASSUME SiteInv, [SiteNext]_siteVars
  PROVE  SiteInv'
<1>1. CASE SiteNext
  BY <1>1, OutsideStep, EnterStep, HandlerKeeps, ChangeStep DEF SiteNext
<1>2. CASE UNCHANGED siteVars
  <2>1. /\ UNCHANGED <<pc, arg, answer, routes, hpc, entry, target, info, file, reply>>
        /\ UNCHANGED <<tree, met, changes, site>> /\ UNCHANGED vars
    BY <1>2 DEF siteVars, vars, files, handler
  <2>2. Placed /\ TryStory /\ StaticStory /\ AnswerExplained
    BY DEF SiteInv, Story
  <2>3. RouterInv'
    BY <2>1, <2>2, RouterStep DEF Placed
  <2>4. Loc' = Loc
    BY <2>1 DEF Loc
  <2>5. Entry' = Entry /\ Wanted' = Wanted /\ Asked' = Asked
    BY <2>1, <2>4 DEF Entry, Wanted, Asked
  <2>6. IsTree(tree)'
    BY <2>1, <2>2 DEF Placed, IsTree, Tree
  <2>7. Placed'
    BY <2>1, <2>2, <2>3, <2>4, <2>6 DEF Placed
  <2>8. TryStory'
    BY <2>1, <2>2, <2>4, <2>5 DEF TryStory
  <2>9. StaticStory'
    BY <2>1, <2>2, <2>4, <2>5 DEF StaticStory
  <2>10. AnswerExplained'
    <3>1. Absolute(Entry)' = Absolute(Entry)
      BY <2>5 DEF Absolute
    <3> QED BY <2>1, <2>2, <2>4, <2>5, <3>1 DEF AnswerExplained
  <2> QED BY <2>7, <2>8, <2>9, <2>10 DEF SiteInv, Story
<1> QED BY <1>1, <1>2

\* What the handler knows of the files agrees with what they were at a moment since
\* it began to look, however often they change between its looks.
THEOREM SiteInvariant == SiteSpec => []SiteInv
BY SiteStarts, SiteStep, PTL DEF SiteSpec

\* What is registered, asked for and answered is always of its type.
THEOREM SiteTyped == SiteSpec => []SiteTypeOK
<1>1. ASSUME SiteInv PROVE SiteTypeOK
  <2>1. Placed
    BY <1>1 DEF SiteInv
  <2>2. \A m \in DOMAIN tree : tree[m] \in Int
    BY <2>1, TreeTyped DEF Placed
  <2>3. \A k \in DOMAIN met : \A m \in DOMAIN met[k] : met[k][m] \in Int
    <3>1. met \in Seq(AllTrees)
      BY <2>1 DEF Placed
    <3>2. \A k \in DOMAIN met : met[k] \in AllTrees
      BY <3>1
    <3> QED BY <3>2, TreeTyped
  <2>4. hpc \in {"out", "try", "dir", "index", "next", "root", "stat", "open", "serve",
                 "list", "done"}
    BY <2>1 DEF Placed, Trying, InStatic
  <2> QED BY <2>1, <2>2, <2>3, <2>4 DEF Placed, RouterInv, SiteTypeOK, ReplyKinds
<1> QED BY <1>1, SiteInvariant, PTL

\* The routes of a site are a router's routes: a request gets the location that
\* a comparison with every path in turn would find (router.go:138-194).
THEOREM SiteRoutesExactly == SiteSpec => []SearchExact
<1>1. SiteInv => SearchExact
  BY DEF SiteInv, Placed, RouterInv
<1> QED BY <1>1, SiteInvariant, PTL

\* try_files passes over only what was not there to be served at a moment while it
\* looked, and hands on only what was (server.go:112-127).
THEOREM EntriesRight == SiteSpec => []EntriesJudged
<1>1. ASSUME SiteInv PROVE EntriesJudged
  BY <1>1 DEF SiteInv, Story, TryStory, StaticStory, Undecided, EntriesJudged
<1> QED BY <1>1, SiteInvariant, PTL

\* Whatever number of changes meets a request, a location with files answers what
\* was right at a moment while it looked, or fails for what it had found and what
\* was not there at a later moment (server.go:95-133, static.go:26-114).
THEOREM AnswersRight == SiteSpec => []AnswerExplained
<1>1. SiteInv => AnswerExplained
  BY DEF SiteInv, Story
<1> QED BY <1>1, SiteInvariant, PTL
=============================================================================
