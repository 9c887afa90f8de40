----------------------------- MODULE GatesProofs -----------------------------
(***************************************************************************)
(* Proofs about Gates for all configurations and all traffic.  The rate    *)
(* limiter keeps its bounds inside the gates because every step of theirs  *)
(* is one of its own or leaves it alone; what the gates promise about      *)
(* identity, tokens and bodies follows from their order (Order) and from   *)
(* an invariant that ties a request's stage to what realip and the gates   *)
(* make of it (GInv).  The shares of a split are a fact about what New     *)
(* computes, proved by induction along sums: for all rules, their order    *)
(* and the rounding left open.                                             *)
(***************************************************************************)
EXTENDS Gates, RateLimitProofs, FiniteSetTheorems, WellFoundedInduction

\* A set of numbers has a smallest one.
LEMMA Smallest ==
  ASSUME NEW S, S \subseteq Nat, S # {}
  PROVE  \E i \in S : \A j \in S : i <= j
<1>1. PICK i \in S : \A j \in S : <<j, i>> \notin OpToRel(<, Nat)
  <2> HIDE DEF OpToRel
  <2> QED BY NatLessThanWellFounded, WFMin
<1>2. \A j \in S : i <= j
  <2> SUFFICES ASSUME NEW j \in S PROVE ~ j < i
    OBVIOUS
  <2>1. <<j, i>> \in Nat \X Nat
    OBVIOUS
  <2>2. <<j, i>> \notin {p \in Nat \X Nat : p[1] < p[2]}
    BY <1>1 DEF OpToRel
  <2> QED BY <2>1, <2>2
<1> QED BY <1>2

\* The smallest member of a set of positions is a member, and the smallest.
LEMMA MinOf ==
  ASSUME NEW n \in Nat, NEW S, S \subseteq 1 .. n, S # {}
  PROVE  Min(S) \in S /\ \A i \in S : Min(S) <= i
<1>1. S \subseteq Nat
  OBVIOUS
<1>2. \E i \in S : \A j \in S : i <= j
  BY <1>1, Smallest
<1> QED BY <1>2 DEF Min

\* Where the gates stand.
LEMMA Order ==
  /\ Before("realip", "conn") /\ Before("realip", "access") /\ Before("realip", "rate")
  /\ Before("auth", "realip") /\ Before("auth", "conn")
  /\ \A g \in {"auth", "body", "access"} : Before(g, "rate") /\ ~Before("rate", g)
  /\ \A g \in {"body", "access"} :
       Before("conn", g) /\ ~Before(g, "conn") /\ ~Before(g, "realip")
  /\ ~Before("conn", "auth")
<1>1. /\ Len(Chain) = 8
      /\ Chain[1] = "auth" /\ Chain[2] = "split" /\ Chain[3] = "map" /\ Chain[4] = "realip"
      /\ Chain[5] = "conn" /\ Chain[6] = "body" /\ Chain[7] = "access" /\ Chain[8] = "rate"
  BY DEF Chain
<1>2. \A g, h : Before(g, h) <=>
          \E i, j \in 1 .. 8 : i < j /\ Chain[i] = g /\ Chain[j] = h
  BY <1>1 DEF Before
<1>3. \A i \in 1 .. 8 : i = 1 \/ i = 2 \/ i = 3 \/ i = 4 \/ i = 5 \/ i = 6 \/ i = 7 \/ i = 8
  OBVIOUS
<1> HIDE DEF Chain
<1> QED BY <1>1, <1>2, <1>3

\* What answers a request without another one is auth, body or access, and none of
\* them does if there is no verdict; and that gate stops it.
LEMMA Verdicts ==
  ASSUME NEW t
  PROVE  /\ Verdict(t) \in {"none", "auth", "body", "access"}
         /\ Verdict(t) = "none" => \A i \in 1 .. Len(Chain) : ~Stops(Chain[i], t)
         /\ Verdict(t) # "none" => Stops(Verdict(t), t)
<1> DEFINE S == {i \in 1 .. Len(Chain) : Stops(Chain[i], t)}
<1>1. Verdict(t) = IF S = {} THEN "none" ELSE Chain[Min(S)]
  BY DEF Verdict, First
<1>2. Len(Chain) \in Nat /\ \A i \in 1 .. Len(Chain) : Chain[i] # "none"
  BY DEF Chain
<1>3. CASE S = {}
  BY <1>1, <1>3
<1>4. CASE S # {}
  <2>1. Min(S) \in S
    <3> HIDE DEF S
    <3>1. S \subseteq 1 .. Len(Chain)
      BY DEF S
    <3> QED BY <1>2, <1>4, <3>1, MinOf
  <2>2. /\ Chain[Min(S)] \in {"auth", "body", "access"} /\ Min(S) \in 1 .. Len(Chain)
        /\ Stops(Chain[Min(S)], t)
    <3> DEFINE m == Min(S)
    <3> HIDE DEF m
    <3>1. m \in 1 .. Len(Chain) /\ Stops(Chain[m], t)
      BY <2>1 DEF m
    <3>2. Chain[m] \in {"auth", "body", "access"}
      BY <3>1 DEF Stops
    <3> QED BY <3>1, <3>2 DEF m
  <2> QED BY <1>1, <1>2, <1>4, <2>2
<1> QED BY <1>3, <1>4

\* The addresses a request comes from and is taken to come from are in Keys.
LEMMA Addresses ==
  ASSUME setup \in Setups, NEW t \in setup.traffic
  PROVE  Connection(t) \in Keys /\ RealIP(t) \in Keys
<1>1. /\ [host |-> t.host, port |-> t.port] \in Keys
      /\ t.forwarded \in Seq(Hosts \cup {NoHost})
      /\ setup.map.default \in Hosts \cup {NoHost}
      /\ setup.map.rules \in Seq([on : SUBSET Hosts, value : Hosts \cup {NoHost}])
      /\ \A h \in Hosts : [host |-> h, port |-> 0] \in Keys
  BY SetupsAssumption
<1>2. MapResult(t) \in Hosts \cup {NoHost}
  <2> DEFINE rules == setup.map.rules
             S == {i \in 1 .. Len(rules) : t.host \in rules[i].on}
  <2>1. MapResult(t) = IF S = {} THEN setup.map.default ELSE rules[Min(S)].value
    BY DEF MapResult, First
  <2> HIDE DEF rules
  <2>2. Len(rules) \in Nat /\ \A i \in 1 .. Len(rules) : rules[i].value \in Hosts \cup {NoHost}
    <3> DEFINE R == [on : SUBSET Hosts, value : Hosts \cup {NoHost}]
    <3>1. rules \in Seq(R)
      BY <1>1 DEF rules
    <3> HIDE DEF R
    <3>2. Len(rules) \in Nat /\ \A i \in 1 .. Len(rules) : rules[i] \in R
      BY <3>1
    <3> QED BY <3>2 DEF R
  <2>3. S # {} => Min(S) \in 1 .. Len(rules)
    <3>1. S \subseteq 1 .. Len(rules)
      OBVIOUS
    <3> HIDE DEF S
    <3> QED BY <2>2, <3>1, MinOf
  <2> HIDE DEF S
  <2> QED BY <1>1, <2>1, <2>2, <2>3
<1>3. Forwarded(t) \in Seq(Hosts \cup {NoHost})
  BY <1>1, <1>2 DEF Forwarded
<1>4. Connection(t) \in Keys
  BY <1>1 DEF Connection
<1>5. RealIP(t) \in Keys
  <2> DEFINE from == Forwarded(t)
             S == {i \in 1 .. Len(from) : from[i] # NoHost}
  <2>1. RealIP(t) = IF ~setup.realip \/ S = {} THEN Connection(t)
                    ELSE [host |-> from[Min(S)], port |-> 0]
    BY DEF RealIP, First
  <2>2. S # {} => Min(S) \in S
    <3>1. S \subseteq 1 .. Len(from) /\ Len(from) \in Nat
      BY <1>3
    <3> HIDE DEF S
    <3> QED BY <3>1, MinOf
  <2>3. S # {} => from[Min(S)] \in Hosts
    <3> DEFINE m == Min(S)
    <3> HIDE DEF m
    <3>1. S # {} => m \in 1 .. Len(from) /\ from[m] # NoHost
      BY <2>2 DEF m
    <3> HIDE DEF S, from
    <3>2. from \in Seq(Hosts \cup {NoHost})
      BY <1>3 DEF from
    <3>3. S # {} => from[m] \in Hosts
      BY <3>1, <3>2
    <3> QED BY <3>3 DEF m
  <2> HIDE DEF S, from
  <2> QED BY <1>1, <1>4, <2>1, <2>3
<1> QED BY <1>4, <1>5

\* The configuration stays, and with it what the gates make of a request.
LEMMA Steady ==
  ASSUME UNCHANGED setup, NEW t
  PROVE  RealIP(t)' = RealIP(t) /\ Verdict(t)' = Verdict(t)
<1>1. MapResult(t)' = MapResult(t)
  BY DEF MapResult, First
<1>2. Forwarded(t)' = Forwarded(t)
  BY <1>1 DEF Forwarded
<1>3. RealIP(t)' = RealIP(t)
  BY <1>2 DEF RealIP, First
<1>4. \A h : Denied(h)' = Denied(h)
  BY DEF Denied, First
<1>5. \A g : Stops(g, t)' = Stops(g, t)
  BY <1>3, <1>4 DEF Stops, AddrAt, TooLarge, MaxBody
<1>6. Verdict(t)' = Verdict(t)
  BY <1>5 DEF Verdict, First
<1> QED BY <1>3, <1>6

-----------------------------------------------------------------------------
\* A configuration, and what the requests are about.
Configured ==
  /\ setup \in Setups
  /\ req \in [Callers -> setup.traffic \cup {NoRequest}]
  /\ addr \in [Callers -> Keys]
  /\ stage \in [Callers -> {"out", "answered", "refused", "limiter", "handler"}]
  /\ LC!TypeOK

\* Who has come to the rate limiter was stopped by no gate, is known there by
\* the address realip found, and keeps it.
Passing ==
  \A c \in Callers :
    /\ stage[c] \in {"limiter", "handler"} =>
         /\ req[c] \in setup.traffic
         /\ \A t \in setup.traffic : req[c] = t => Verdict(t) = "none" /\ addr[c] = RealIP(t)
    /\ stage[c] = "limiter" => key[c] = addr[c]

\* A place in limit_conn belongs to a request on its way, in the zone of its
\* host, and a request that was refused has none.
Placed ==
  \A c \in Callers :
    /\ c \in refused => stage[c] = "refused"
    /\ \A z \in Zones : c \in inside[z] =>
         stage[c] \in {"answered", "limiter", "handler"} /\ z = ExtractIP(addr[c])

\* The invariant of the gates.
GInv == Configured /\ Passing /\ Placed

\* GatesInit establishes it.
LEMMA GatesInitGInv == GatesInit => GInv
<1> SUFFICES ASSUME GatesInit PROVE GInv
  OBVIOUS
<1>1. AnyKey \in Keys
  BY KeysAssumption DEF AnyKey
<1>2. Configured
  BY <1>1 DEF GatesInit, Configured, LC!Init, LC!TypeOK
<1>3. Passing /\ Placed
  BY DEF GatesInit, Passing, Placed, LC!Init
<1> QED BY <1>2, <1>3 DEF GInv

\* A step of the gates is one of the rate limiter or leaves it alone.
LEMMA LimiterSteps ==
  ASSUME setup \in Setups, [GatesNext]_gatesVars
  PROVE  [Next]_vars
<1>1. ASSUME NEW c \in Callers, NEW t \in setup.traffic, Come(c, t)
      PROVE  Next
  <2>1. AddrAt("rate", t) \in Keys
    BY Addresses DEF AddrAt
  <2> QED BY <1>1, <2>1 DEF Come, Next
<1>2. ASSUME NEW c \in Callers, NEW t \in setup.traffic, ComeInVain(c, t) \/ ComeTooMany(c, t)
      PROVE  UNCHANGED vars
  BY <1>2 DEF ComeInVain, ComeTooMany
<1>3. ASSUME NEW c \in Callers, Inside(c) \/ Pass(c) \/ Reject(c)
      PROVE  Next
  BY <1>3 DEF Inside, Pass, Reject, Next, Handle
<1>4. ASSUME NEW c \in Callers, Return(c)
      PROVE  UNCHANGED vars
  BY <1>4 DEF Return
<1>5. CASE Tick
  BY <1>5 DEF Next
<1>6. CASE UNCHANGED gatesVars
  BY <1>6 DEF gatesVars
<1> QED BY <1>1, <1>2, <1>3, <1>4, <1>5, <1>6 DEF GatesNext

\* A request comes through the door, to whichever gate it is, with a place or
\* without one.
LEMMA EntryGInv ==
  ASSUME GInv, IInv, NEW c \in Callers, NEW t \in setup.traffic,
         NEW to \in {"answered", "refused", "limiter"},
         MoveTo(c, "out", to), Start(c, t),
         \/ to = "limiter" /\ Verdict(t) = "none" /\ key' = [key EXCEPT ![c] = RealIP(t)]
         \/ to # "limiter" /\ key' = key,
         \/ UNCHANGED <<inside, refused>>
         \/ to # "refused" /\ Verdict(t) # "auth" /\ LC!Admit(c, Zone(t))
         \/ to = "refused" /\ LC!Refuse(c, Zone(t))
  PROVE  GInv'
<1>1. /\ UNCHANGED setup /\ req' = [req EXCEPT ![c] = t]
      /\ stage[c] = "out" /\ stage' = [stage EXCEPT ![c] = to]
  BY DEF Start, MoveTo
<1>2. Connection(t) \in Keys /\ RealIP(t) \in Keys
  BY Addresses DEF GInv, Configured
<1> PICK a \in Keys : /\ addr' = [addr EXCEPT ![c] = a]
                      /\ Verdict(t) # "auth" => a = RealIP(t)
  BY <1>2, Verdicts, Order DEF Start
<1>3. Configured'
  <2>1. LC!TypeOK'
    BY DEF GInv, Configured, LC!TypeOK, LC!Admit, LC!Refuse
  <2> QED BY <1>1, <2>1 DEF GInv, Configured
<1>4. Passing'
  <2>1. \A u : Verdict(u)' = Verdict(u) /\ RealIP(u)' = RealIP(u)
    BY <1>1, Steady
  <2> SUFFICES ASSUME NEW d \in Callers
               PROVE  /\ stage'[d] \in {"limiter", "handler"} =>
                           /\ req'[d] \in setup'.traffic
                           /\ \A u \in setup'.traffic : req'[d] = u =>
                                Verdict(u) = "none" /\ addr'[d] = RealIP(u)
                      /\ stage'[d] = "limiter" => key'[d] = addr'[d]
    BY <2>1 DEF Passing
  <2>2. CASE d # c
    <3>1. /\ req'[d] = req[d] /\ stage'[d] = stage[d] /\ addr'[d] = addr[d]
          /\ key'[d] = key[d]
      BY <1>1, <2>2 DEF GInv, Configured, IInv, TypeOK
    <3> QED BY <1>1, <3>1 DEF GInv, Passing
  <2>3. CASE d = c
    <3>1. req'[c] = t /\ stage'[c] = to /\ addr'[c] = a
      BY <1>1 DEF GInv, Configured
    <3>2. to = "limiter" => key'[c] = RealIP(t)
      BY DEF IInv, TypeOK
    <3> QED BY <1>1, <2>3, <3>1, <3>2
  <2> QED BY <2>2, <2>3
<1>5. c \notin refused /\ \A z \in Zones : c \notin inside[z]
  BY <1>1 DEF GInv, Placed
<1>6. Placed'
  <2>1. Verdict(t) # "auth" => Zone(t) = ExtractIP(a)
    BY Order DEF Zone, AddrAt
  <2>2. CASE UNCHANGED <<inside, refused>>
    BY <1>1, <1>5, <2>2 DEF GInv, Configured, Placed
  <2>3. CASE to # "refused" /\ Verdict(t) # "auth" /\ LC!Admit(c, Zone(t))
    BY <1>1, <1>5, <2>1, <2>3 DEF GInv, Configured, Placed, LC!TypeOK, LC!Admit
  <2>4. CASE to = "refused" /\ LC!Refuse(c, Zone(t))
    BY <1>1, <1>5, <2>4 DEF GInv, Configured, Placed, LC!TypeOK, LC!Refuse
  <2> QED BY <2>2, <2>3, <2>4
<1> QED BY <1>3, <1>4, <1>6 DEF GInv

\* The three ways in.
LEMMA ComeGInv ==
  ASSUME GInv, IInv, NEW c \in Callers, NEW t \in setup.traffic,
         ComeInVain(c, t) \/ ComeTooMany(c, t) \/ Come(c, t)
  PROVE  GInv'
<1>1. CASE ComeInVain(c, t)
  <2>1. key' = key /\ MoveTo(c, "out", "answered") /\ Start(c, t)
    BY <1>1 DEF ComeInVain, vars
  <2>2. \/ UNCHANGED <<inside, refused>>
        \/ Verdict(t) # "auth" /\ LC!Admit(c, Zone(t))
    BY <1>1, Order DEF ComeInVain, Place
  <2> QED BY <2>1, <2>2, EntryGInv
<1>2. CASE ComeTooMany(c, t)
  <2>1. key' = key /\ MoveTo(c, "out", "refused") /\ Start(c, t) /\ LC!Refuse(c, Zone(t))
    BY <1>2 DEF ComeTooMany, vars
  <2> QED BY <2>1, EntryGInv
<1>3. CASE Come(c, t)
  <2>1. Verdict(t) = "none"
    BY <1>3, Verdicts, Order DEF Come
  <2>2. key' = [key EXCEPT ![c] = RealIP(t)]
    BY <1>3, Order DEF Come, Arrive, AddrAt
  <2>3. MoveTo(c, "out", "limiter") /\ Start(c, t)
    BY <1>3 DEF Come
  <2>4. UNCHANGED <<inside, refused>> \/ LC!Admit(c, Zone(t))
    BY <1>3 DEF Come, Place
  <2> QED BY <2>1, <2>2, <2>3, <2>4, EntryGInv
<1> QED BY <1>1, <1>2, <1>3

\* A step that changes no more than where the rate limiter is, and the stage of
\* one request to a later one.
LEMMA InsideGInv ==
  ASSUME GInv, IInv, NEW c \in Callers, UNCHANGED <<setup, req, addr, inside, refused>>,
         \/ stage' = stage
         \/ MoveTo(c, "limiter", "answered")
         \/ MoveTo(c, "limiter", "handler"),
         \A d \in Callers : stage'[d] = "limiter" => key'[d] = key[d]
  PROVE  GInv'
<1>1. \A d \in Callers : \/ stage'[d] = stage[d]
                         \/ stage[d] = "limiter" /\ stage'[d] \in {"answered", "handler"}
  BY DEF GInv, Configured, MoveTo
<1>2. Configured'
  <2>1. LC!TypeOK'
    BY DEF GInv, Configured, LC!TypeOK
  <2> QED BY <2>1 DEF GInv, Configured, MoveTo
<1>3. Passing'
  <2>1. \A u : Verdict(u)' = Verdict(u) /\ RealIP(u)' = RealIP(u)
    BY Steady
  <2> QED BY <1>1, <2>1 DEF GInv, Passing
<1>4. Placed'
  BY <1>1 DEF GInv, Placed
<1> QED BY <1>2, <1>3, <1>4 DEF GInv

\* The end of a request.
LEMMA ReturnGInv ==
  ASSUME GInv, IInv, NEW c \in Callers, Return(c)
  PROVE  GInv'
<1>1. /\ UNCHANGED <<setup, key>> /\ stage' = [stage EXCEPT ![c] = "out"]
      /\ stage[c] \in {"answered", "refused", "handler"}
      /\ req' = [req EXCEPT ![c] = NoRequest] /\ addr' = [addr EXCEPT ![c] = AnyKey]
  BY DEF Return, vars
<1>2. AnyKey \in Keys
  BY KeysAssumption DEF AnyKey
<1>3. \/ stage[c] = "refused" /\ LC!Answer(c)
      \/ \E z \in Zones : LC!Leave(c, z)
      \/ c \notin LC!Busy /\ UNCHANGED <<inside, refused>>
  BY DEF Return
<1>4. Configured'
  <2>1. LC!TypeOK'
    BY <1>3 DEF GInv, Configured, LC!TypeOK, LC!Answer, LC!Leave
  <2> QED BY <1>1, <1>2, <2>1 DEF GInv, Configured
<1>5. Passing'
  <2>1. \A u : Verdict(u)' = Verdict(u) /\ RealIP(u)' = RealIP(u)
    BY <1>1, Steady
  <2>2. \A d \in Callers : stage'[d] # "out" =>
          /\ stage'[d] = stage[d] /\ req'[d] = req[d] /\ addr'[d] = addr[d]
    BY <1>1 DEF GInv, Configured
  <2> QED BY <1>1, <2>1, <2>2 DEF GInv, Passing
<1>6. c \notin refused' /\ \A z \in Zones : c \notin inside'[z]
  <2>1. CASE stage[c] = "refused" /\ LC!Answer(c)
    BY <2>1 DEF GInv, Placed, LC!Answer
  <2>2. ASSUME NEW z \in Zones, LC!Leave(c, z)
        PROVE  c \notin refused' /\ \A y \in Zones : c \notin inside'[y]
    <3>1. c \in inside[z] /\ inside' = [inside EXCEPT ![z] = @ \ {c}] /\ refused' = refused
      BY <2>2 DEF LC!Leave
    <3>2. c \notin refused /\ \A y \in Zones : y # z => c \notin inside[y]
      BY <3>1 DEF GInv, Placed
    <3> QED BY <3>1, <3>2 DEF GInv, Configured, LC!TypeOK
  <2>3. CASE c \notin LC!Busy /\ UNCHANGED <<inside, refused>>
    BY <2>3 DEF LC!Busy
  <2> QED BY <1>3, <2>1, <2>2, <2>3
<1>7. \A d \in Callers : /\ d \in refused' => d \in refused
                        /\ \A z \in Zones : d \in inside'[z] => d \in inside[z]
  BY <1>3 DEF GInv, Configured, LC!TypeOK, LC!Answer, LC!Leave
<1>8. Placed'
  <2> SUFFICES ASSUME NEW d \in Callers
               PROVE  /\ d \in refused' => stage'[d] = "refused"
                      /\ \A z \in Zones : d \in inside'[z] =>
                           /\ stage'[d] \in {"answered", "limiter", "handler"}
                           /\ z = ExtractIP(addr'[d])
    BY DEF Placed
  <2>1. CASE d = c
    BY <1>6, <2>1
  <2>2. CASE d # c
    <3>1. stage'[d] = stage[d] /\ addr'[d] = addr[d]
      BY <1>1, <2>2 DEF GInv, Configured
    <3> QED BY <1>7, <3>1 DEF GInv, Placed
  <2> QED BY <2>1, <2>2
<1> QED BY <1>4, <1>5, <1>8 DEF GInv

\* Every step of the gates preserves the invariant.
LEMMA GatesNextGInv == GInv /\ IInv /\ [GatesNext]_gatesVars => GInv'
<1> SUFFICES ASSUME GInv, IInv, [GatesNext]_gatesVars PROVE GInv'
  OBVIOUS
<1>1. ASSUME NEW c \in Callers, NEW t \in setup.traffic,
             ComeInVain(c, t) \/ ComeTooMany(c, t) \/ Come(c, t)
      PROVE  GInv'
  BY <1>1, ComeGInv
<1>2. ASSUME NEW c \in Callers, Inside(c)
      PROVE  GInv'
  <2>1. key' = key /\ UNCHANGED <<setup, req, addr, stage, inside, refused>>
    BY <1>2 DEF Inside, gateVars, Lock, Hit, Miss, LockMap, Enter, Found, Create, ReadClock
  <2> QED BY <2>1, InsideGInv
<1>3. ASSUME NEW c \in Callers, Pass(c) \/ Reject(c)
      PROVE  GInv'
  <2>1. MoveTo(c, "limiter", "answered") \/ MoveTo(c, "limiter", "handler")
    BY <1>3 DEF Pass, Reject
  <2>2. key' = [key EXCEPT ![c] = AnyKey]
    BY <1>3 DEF Pass, Reject, Admit, Refuse, Leave
  <2>3. \A d \in Callers : stage'[d] = "limiter" => key'[d] = key[d]
    BY <2>1, <2>2 DEF GInv, Configured, IInv, TypeOK, MoveTo
  <2>4. UNCHANGED <<setup, req, addr, inside, refused>>
    BY <1>3 DEF Pass, Reject
  <2> QED BY <2>1, <2>3, <2>4, InsideGInv
<1>4. ASSUME NEW c \in Callers, Return(c)
      PROVE  GInv'
  BY <1>4, ReturnGInv
<1>5. ASSUME UNCHANGED <<key, setup, req, addr, stage, inside, refused>>
      PROVE  GInv'
  <2>1. LC!TypeOK'
    BY <1>5 DEF GInv, Configured, LC!TypeOK
  <2>2. \A u : Verdict(u)' = Verdict(u) /\ RealIP(u)' = RealIP(u)
    BY <1>5, Steady
  <2> QED BY <1>5, <2>1, <2>2 DEF GInv, Configured, Passing, Placed
<1>6. CASE Tick /\ UNCHANGED gateVars
  BY <1>5, <1>6 DEF Tick, gateVars
<1>7. CASE UNCHANGED gatesVars
  BY <1>5, <1>7 DEF gatesVars, gateVars, vars
<1> QED BY <1>1, <1>2, <1>3, <1>4, <1>6, <1>7 DEF GatesNext

-----------------------------------------------------------------------------
\* A number that fits is not wrapped.
LEMMA Fits ==
  ASSUME NEW x \in Nat, NEW m \in Nat, x <= m
  PROVE  ((x + m + 1) % (2 * (m + 1))) - (m + 1) = x
<1>1. x + m + 1 \in Nat /\ x + m + 1 < 2 * (m + 1)
  OBVIOUS
<1>2. (x + m + 1) % (2 * (m + 1)) = x + m + 1
  BY <1>1
<1> QED BY <1>2

\* Multiplying makes no number smaller.
LEMMA Scaled ==
  ASSUME NEW n \in Nat, NEW f \in Nat \ {0}
  PROVE  n * f \in Nat /\ n <= n * f
<1>1. f - 1 \in Nat
  OBVIOUS
<1>2. n * (f - 1) \in Nat
  BY <1>1
<1>3. n * f = n * (f - 1) + n
  OBVIOUS
<1> QED BY <1>2, <1>3

\* Every suffix stands for a factor.
LEMMA Factors ==
  ASSUME NEW suffix
  PROVE  Multiplier(suffix) \in Nat \ {0}
<1>1. Kilo \in Nat \ {0}
  BY ScaleAssumption
<1>2. Kilo * Kilo \in Nat \ {0}
  <2>1. Kilo * Kilo \in Nat /\ Kilo <= Kilo * Kilo
    BY <1>1, Scaled
  <2> QED BY <1>1, <2>1
<1>3. Kilo * Kilo * Kilo \in Nat \ {0}
  <2> DEFINE square == Kilo * Kilo
  <2>1. square \in Nat \ {0}
    BY <1>2
  <2> HIDE DEF square
  <2>2. square * Kilo \in Nat /\ square <= square * Kilo
    BY <1>1, <2>1, Scaled
  <2>3. square * Kilo \in Nat \ {0}
    BY <2>1, <2>2
  <2> QED BY <2>3 DEF square
<1>4. Multiplier(suffix) \in {1, Kilo, Kilo * Kilo, Kilo * Kilo * Kilo}
  BY Zenon DEF Multiplier
<1> QED BY <1>1, <1>2, <1>3, <1>4

\* ParseSize reads a size as it is meant (config.go:249-271).
LEMMA SizeRead ==
  ASSUME setup \in Setups, Written
  PROVE  MaxBody = Meant /\ Meant \in Nat \ {0}
<1> DEFINE number == setup.size.number
           suffix == setup.size.suffix
           factor == Multiplier(suffix)
<1>1. number \in Nat /\ Kilo \in Nat \ {0} /\ MaxInt \in Nat
  BY SetupsAssumption, ScaleAssumption
<1>2. number > 0 /\ setup.size.parses /\ Meant <= MaxInt
      /\ suffix \in {"", "k", "kb", "m", "mb", "g", "gb"}
  BY DEF Written
<1>3. Meant = number * factor
  BY <1>2 DEF Meant, Multiplier
<1>4. factor \in Nat \ {0}
  BY Factors
<1>5. number * factor \in Nat \ {0} /\ number <= number * factor
  <2> DEFINE x == number * factor
  <2>1. number \in Nat /\ number > 0
    BY <1>1, <1>2
  <2> HIDE DEF number, factor
  <2>2. x \in Nat /\ number <= x
    BY <1>4, <2>1, Scaled
  <2> HIDE DEF x
  <2>3. x \in Nat \ {0} /\ number <= x
    BY <2>1, <2>2
  <2> QED BY <2>3 DEF x
<1>6. MaxBody = ((number * factor + MaxInt + 1) % (2 * (MaxInt + 1))) - (MaxInt + 1)
  <2>1. ~(number > MaxInt)
    <3> DEFINE x == number * factor
    <3>1. x \in Nat /\ number <= x /\ x <= MaxInt
      BY <1>2, <1>3, <1>5
    <3> HIDE DEF x, number
    <3> QED BY <1>1, <3>1
  <2> QED BY <1>2, <2>1 DEF MaxBody, ParseSize
<1>7. MaxBody = number * factor
  <2> DEFINE x == number * factor
  <2>1. x \in Nat /\ x <= MaxInt
    BY <1>2, <1>3, <1>5
  <2> HIDE DEF x
  <2>2. ((x + MaxInt + 1) % (2 * (MaxInt + 1))) - (MaxInt + 1) = x
    BY <1>1, <2>1, Fits
  <2> QED BY <1>6, <2>2 DEF x
<1> QED BY <1>3, <1>5, <1>7

\* What ParseSize returns is an integer, whatever it reads.
LEMMA SizeTyped ==
  ASSUME setup \in Setups
  PROVE  MaxBody \in Int
<1> DEFINE s == setup.size
           number == IF ~s.parses THEN 0 ELSE IF s.number > MaxInt THEN MaxInt ELSE s.number
           product == number * Multiplier(s.suffix)
<1>1. MaxInt \in Nat /\ number \in Nat
  BY SetupsAssumption, ScaleAssumption
<1>2. product \in Nat
  <2> HIDE DEF number
  <2> QED BY <1>1, Factors, Scaled
<1>3. MaxBody = ((product + MaxInt + 1) % (2 * (MaxInt + 1))) - (MaxInt + 1)
  BY DEF MaxBody, ParseSize
<1> HIDE DEF product
<1> QED BY <1>1, <1>2, <1>3

\* No handler gets more of a body than is meant.
Read == /\ got \in [Callers -> Nat]
        /\ Written => \A c \in Callers : got[c] <= Meant

\* Every step keeps it so.
LEMMA GatesNextRead == GInv /\ Read /\ [GatesNext]_gatesVars => Read'
<1> SUFFICES ASSUME GInv, Read, [GatesNext]_gatesVars PROVE Read'
  OBVIOUS
<1>1. ASSUME UNCHANGED <<setup, got>>
      PROVE  Read'
  BY <1>1 DEF Read, Written, Meant
<1>2. ASSUME NEW c \in Callers, NEW n \in Nat, UNCHANGED setup,
             got' = [got EXCEPT ![c] = n], Written => n <= Meant
      PROVE  Read'
  <2>1. Meant' = Meant /\ Written' = Written
    BY <1>2 DEF Meant, Written
  <2> QED BY <1>2, <2>1 DEF Read
<1>3. ASSUME NEW c \in Callers, NEW t \in setup.traffic,
             ComeInVain(c, t) \/ ComeTooMany(c, t) \/ Come(c, t)
      PROVE  Read'
  BY <1>1, <1>3 DEF ComeInVain, ComeTooMany, Come, Start
<1>4. ASSUME NEW c \in Callers, Inside(c) \/ Reject(c)
      PROVE  Read'
  BY <1>1, <1>4 DEF Inside, Reject, gateVars
<1>5. ASSUME NEW c \in Callers, Pass(c)
      PROVE  Read'
  <2>1. CASE UNCHANGED got
    BY <1>1, <1>5, <2>1 DEF Pass
  <2>2. CASE ~UNCHANGED got
    <3> PICK t : t = req[c]
      OBVIOUS
    <3>1. /\ UNCHANGED setup /\ stage[c] = "limiter"
          /\ got' = [got EXCEPT ![c] = Readable(t)]
      BY <1>5, <2>2 DEF Pass, MoveTo
    <3>2. t \in setup.traffic /\ setup \in Setups
      BY <3>1 DEF GInv, Passing, Configured
    <3>3. t.body \in Nat
      BY <3>2, SetupsAssumption
    <3>4. Written => MaxBody = Meant /\ Meant \in Nat \ {0}
      BY <3>2, SizeRead
    <3>5. MaxBody \in Int
      BY <3>2, SizeTyped
    <3>6. Readable(t) \in Nat /\ (Written => Readable(t) <= Meant)
      BY <3>3, <3>4, <3>5 DEF Readable
    <3> QED BY <1>2, <3>1, <3>6
  <2> QED BY <2>1, <2>2
<1>6. ASSUME NEW c \in Callers, Return(c)
      PROVE  Read'
  <2>1. UNCHANGED setup /\ got' = [got EXCEPT ![c] = 0]
    BY <1>6 DEF Return
  <2>2. Written => 0 <= Meant
    BY SizeRead DEF GInv, Configured
  <2> QED BY <1>2, <2>1, <2>2
<1>7. CASE Tick /\ UNCHANGED gateVars
  BY <1>1, <1>7 DEF gateVars
<1>8. CASE UNCHANGED gatesVars
  BY <1>1, <1>8 DEF gatesVars, gateVars
<1> QED BY <1>3, <1>4, <1>5, <1>6, <1>7, <1>8 DEF GatesNext

-----------------------------------------------------------------------------
\* Inside the gates the rate limiter does what it does on its own
\* (chain.go:36-66): whatever they are configured to do is a way to call it, and its
\* goroutines are scheduled as fairly.
THEOREM LimiterInside == GatesSpec => FairSpec
<1>1. GatesInit => Init /\ GInv
  BY GatesInitGInv DEF GatesInit
<1>2. Init => IInv
  BY InitIInv
<1>3. GInv /\ [GatesNext]_gatesVars => [Next]_vars
  BY LimiterSteps DEF GInv, Configured
<1>4. IInv /\ [Next]_vars => IInv'
  BY NextIInv
<1>5. GInv /\ IInv /\ [GatesNext]_gatesVars => GInv'
  BY GatesNextGInv
<1> QED BY <1>1, <1>2, <1>3, <1>4, <1>5, PTL DEF GatesSpec, Spec, FairSpec

\* So its bounds hold there too: one bucket for an address, no window of time over
\* the limit, and no refusal without need (ratelimit.go:26-41, 71-90).
THEOREM LimiterKept == GatesSpec => []OneBucket /\ []WindowBound /\ RefusedOnlyWhenSpent
BY LimiterInside, BucketUnique, WindowSafe, RefusalJust, PTL DEF FairSpec

\* In the chain the limiter is still the abstract bucket: a request asks it when
\* it gets there, and no other gate touches it (chain.go:36-66, ratelimit.go:90-101).
THEOREM GatesLinearised == GatesSpec => ImplementsTokenBucket
BY LimiterInside, Linearised, PTL DEF FairSpec

\* The invariant of the gates holds in every reachable state.
THEOREM GatesKept == GatesSpec => []GInv
<1>1. GatesInit => GInv
  BY GatesInitGInv
<1>2. GInv /\ IInv /\ [GatesNext]_gatesVars => GInv'
  BY GatesNextGInv
<1> QED BY <1>1, <1>2, LimiterInside, BudgetKept, PTL DEF GatesSpec, FairSpec

\* A request that another gate refuses never takes a token, whatever is
\* configured (chain.go:40-58).
THEOREM TokensKept == GatesSpec => []NothingSpent
<1>1. GInv => NothingSpent
  BY DEF GInv, Passing, NothingSpent
<1> QED BY <1>1, GatesKept, PTL

\* Every gate judges a request by the address realip found or, without one, by that
\* of its connection, for all configurations and all traffic (chain.go:36-66).
THEOREM IdentityKept == GatesSpec => []OneIdentity
<1>1. GInv => OneIdentity
  <2> SUFFICES ASSUME GInv, NEW c \in Callers
               PROVE  /\ \A z \in Zones : c \in inside[z] => z = ExtractIP(addr[c])
                      /\ stage[c] = "limiter" => key[c] = addr[c]
                      /\ stage[c] \in {"limiter", "handler"} =>
                           addr[c] = RealIP(req[c]) /\ ~Denied(Seen(addr[c]))
    BY DEF OneIdentity
  <2>1. \A z \in Zones : c \in inside[z] => z = ExtractIP(addr[c])
    BY DEF GInv, Placed
  <2>2. stage[c] = "limiter" => key[c] = addr[c]
    BY DEF GInv, Passing
  <2>3. ASSUME stage[c] \in {"limiter", "handler"}
        PROVE  addr[c] = RealIP(req[c]) /\ ~Denied(Seen(addr[c]))
    <3> DEFINE t == req[c]
    <3>1. Verdict(t) = "none" /\ addr[c] = RealIP(t)
      BY <2>3 DEF GInv, Passing
    <3>2. ~Stops("access", t)
      <4>1. 7 \in 1 .. Len(Chain) /\ Chain[7] = "access"
        BY DEF Chain
      <4> HIDE DEF t
      <4> QED BY <3>1, <4>1, Verdicts
    <3>3. AddrAt("access", t) = addr[c]
      BY <3>1, Order DEF AddrAt
    <3> QED BY <3>1, <3>2, <3>3 DEF Stops
  <2> QED BY <2>1, <2>2, <2>3
<1> QED BY <1>1, GatesKept, PTL

\* No handler ever gets more of a body than is meant.
LEMMA ReadKept == GatesSpec => []Read
<1>1. GatesInit => Read
  <2> SUFFICES ASSUME GatesInit PROVE Read
    OBVIOUS
  <2>1. got = [c \in Callers |-> 0] /\ setup \in Setups
    BY DEF GatesInit
  <2>2. Written => 0 <= Meant
    BY <2>1, SizeRead
  <2> QED BY <2>1, <2>2 DEF Read
<1>2. GInv /\ Read /\ [GatesNext]_gatesVars => Read'
  BY GatesNextRead
<1> QED BY <1>1, <1>2, GatesKept, PTL DEF GatesSpec

\* client_max_body_size is in force as written: what the handler reads is bounded by
\* it, and 413 answers nothing that fits (config.go:249-271, bodylimit.go:14-20).
THEOREM BodyKept == GatesSpec => []BodyLimited
<1>1. GInv /\ Read => BodyLimited
  <2> SUFFICES ASSUME GInv, Read, Written, NEW c \in Callers
               PROVE  /\ MaxBody = Meant
                      /\ got[c] <= Meant
                      /\ Verdict(req[c]) = "body" => req[c].body > Meant
    BY SizeRead DEF BodyLimited, GInv, Configured
  <2>1. MaxBody = Meant
    BY SizeRead DEF GInv, Configured
  <2>2. ASSUME Verdict(req[c]) = "body"
        PROVE  req[c].body > Meant
    <3>1. Stops("body", req[c])
      BY <2>2, Verdicts
    <3> QED BY <2>1, <3>1 DEF Stops, TooLarge
  <2> QED BY <2>1, <2>2 DEF Read
<1> QED BY <1>1, GatesKept, ReadKept, PTL

\* The limiters, the requests and the bands of the split are always of their
\* types, and the bands are such as New makes of the rules (chain.go:36-66,
\* split.go:29-58).
THEOREM GatesTyped == GatesSpec => []GatesTypeOK
<1>1. GatesInit => bands \in Divided(setup)
  BY DEF GatesInit
<1>2. bands \in Divided(setup) /\ [GatesNext]_gatesVars => (bands \in Divided(setup))'
  <2> SUFFICES ASSUME bands \in Divided(setup), [GatesNext]_gatesVars
               PROVE  bands' \in Divided(setup')
    BY DEF Divided
  <2>1. UNCHANGED <<setup, bands>>
    BY DEF GatesNext, ComeInVain, ComeTooMany, Come, Start, Inside, Pass, Reject, Return,
       gateVars, gatesVars
  <2> QED BY <2>1
<1>3. IInv /\ GInv /\ Read /\ bands \in Divided(setup) => GatesTypeOK
  BY DEF IInv, GInv, Configured, Read, GatesTypeOK
<1> QED BY <1>1, <1>2, <1>3, LimiterInside, BudgetKept, GatesKept, ReadKept, PTL DEF GatesSpec, FairSpec

-----------------------------------------------------------------------------
\* Induction up to n, for a set of numbers.
LEMMA UpTo ==
  ASSUME NEW n \in Nat, NEW S, 0 \in S, \A k \in 1 .. n : k - 1 \in S => k \in S
  PROVE  \A k \in 0 .. n : k \in S
<1> DEFINE T == {k \in 0 .. n : k \notin S}
<1> SUFFICES ASSUME T # {} PROVE FALSE
  OBVIOUS
<1>1. PICK k \in T : \A j \in T : k <= j
  <2>1. T \subseteq Nat
    OBVIOUS
  <2> HIDE DEF T
  <2> QED BY <2>1, Smallest
<1>2. k \in 1 .. n /\ k - 1 \in 0 .. n
  BY <1>1
<1>3. k - 1 \in S
  BY <1>1, <1>2
<1> QED BY <1>1, <1>2, <1>3

\* What sums are: nothing at first, and each is the one before and a member.
IsSums(f, w) == /\ f \in [0 .. Len(w) -> Int] /\ f[0] = 0
                /\ \A i \in 1 .. Len(w) : f[i] = f[i - 1] + w[i]

\* Sums exist, so that the recursion defines them.
LEMMA SumsRead ==
  ASSUME NEW w \in Seq(Int)
  PROVE  IsSums(Sums(w), w)
<1> DEFINE n == Len(w)
           Adds(f, m) == /\ f \in [0 .. m -> Int] /\ f[0] = 0
                         /\ \A i \in 1 .. m : f[i] = f[i - 1] + w[i]
           S == {m \in 0 .. n : \E f : Adds(f, m)}
<1>1. n \in Nat /\ \A i \in 1 .. n : w[i] \in Int
  OBVIOUS
<1>2. 0 \in S
  <2>1. Adds([i \in 0 .. 0 |-> 0], 0)
    OBVIOUS
  <2> HIDE DEF Adds
  <2> QED BY <1>1, <2>1
<1>3. ASSUME NEW m \in 1 .. n, m - 1 \in S
      PROVE  m \in S
  <2>1. PICK f : Adds(f, m - 1)
    BY <1>3
  <2> DEFINE g == [i \in 0 .. m |-> IF i = m THEN f[m - 1] + w[m] ELSE f[i]]
  <2>2. m - 1 \in 0 .. m - 1 /\ w[m] \in Int /\ m \in Nat
    BY <1>1
  <2>3. f[m - 1] \in Int
    BY <2>1, <2>2
  <2>4. g \in [0 .. m -> Int] /\ g[0] = 0
    BY <2>1, <2>2, <2>3
  <2>5. ASSUME NEW i \in 1 .. m
        PROVE  g[i] = g[i - 1] + w[i]
    <3>1. CASE i = m
      BY <2>2, <3>1
    <3>2. CASE i # m
      <4>1. i \in 1 .. m - 1 /\ i - 1 \in 0 .. m /\ i \in 0 .. m /\ i - 1 # m
        BY <3>2
      <4> QED BY <2>1, <3>2, <4>1
    <3> QED BY <3>1, <3>2
  <2>6. Adds(g, m)
    <3> HIDE DEF g
    <3> QED BY <2>4, <2>5
  <2> HIDE DEF Adds, g
  <2> QED BY <2>6
<1>4. n \in S
  <2>1. \A k \in 0 .. n : k \in S
    <3> HIDE DEF S, n
    <3> QED BY <1>1, <1>2, <1>3, UpTo
  <2> QED BY <1>1, <2>1
<1>5. PICK f : Adds(f, n)
  BY <1>4
<1> DEFINE Def(f0) == [i \in 0 .. n |-> IF i = 0 THEN 0 ELSE f0[i - 1] + w[i]]
<1>6. f = Def(f)
  BY <1>1, <1>5
<1>7. Sums(w) = CHOOSE f0 : f0 = Def(f0)
  BY DEF Sums
<1> DEFINE s == Sums(w)
<1>8. s = Def(s)
  <2> HIDE DEF Def
  <2> QED BY <1>6, <1>7
<1>9. DOMAIN s = 0 .. n /\ s[0] = 0 /\ \A i \in 1 .. n : s[i] = s[i - 1] + w[i]
  <2> HIDE DEF s
  <2> QED BY <1>1, <1>8, SMTT(30)
<1>10. \A i \in 0 .. n : s[i] \in Int
  <2> DEFINE I == {i \in 0 .. n : s[i] \in Int}
  <2>1. 0 \in I
    BY <1>1, <1>9
  <2>2. \A i \in 1 .. n : i - 1 \in I => i \in I
    <3> HIDE DEF s
    <3> QED BY <1>1, <1>9
  <2>3. \A i \in 0 .. n : i \in I
    <3> HIDE DEF I, n
    <3> QED BY <1>1, <2>1, <2>2, UpTo
  <2> QED BY <2>3
<1>11. s = [i \in 0 .. n |-> s[i]]
  <2> HIDE DEF s
  <2> QED BY <1>8, <1>9
<1> HIDE DEF s
<1> QED BY <1>9, <1>10, <1>11 DEF IsSums, s

\* Sums of the same members are the same.
LEMMA SumsAgree ==
  ASSUME NEW v \in Seq(Int), NEW w \in Seq(Int), NEW m \in Nat, m <= Len(v), m <= Len(w),
         \A i \in 1 .. m : v[i] = w[i]
  PROVE  \A i \in 0 .. m : Sums(v)[i] = Sums(w)[i]
<1> DEFINE a == Sums(v)
           b == Sums(w)
           S == {i \in 0 .. m : a[i] = b[i]}
<1>1. IsSums(a, v) /\ IsSums(b, w)
  BY SumsRead
<1> HIDE DEF a, b
<1>2. 0 \in S
  BY <1>1 DEF IsSums
<1>3. ASSUME NEW i \in 1 .. m, i - 1 \in S
      PROVE  i \in S
  <2>1. i \in 1 .. Len(v) /\ i \in 1 .. Len(w)
    OBVIOUS
  <2>2. a[i] = a[i - 1] + v[i] /\ b[i] = b[i - 1] + w[i]
    BY <1>1, <2>1 DEF IsSums
  <2> QED BY <1>3, <2>2
<1>4. \A i \in 0 .. m : i \in S
  <2> HIDE DEF S
  <2> QED BY <1>2, <1>3, UpTo
<1> QED BY <1>4 DEF a, b

\* Sums of what is not negative grow.
LEMMA SumsGrow ==
  ASSUME NEW w \in Seq(Int), \A i \in 1 .. Len(w) : w[i] >= 0
  PROVE  \A i, j \in 0 .. Len(w) : i <= j => Sums(w)[i] <= Sums(w)[j]
<1> DEFINE f == Sums(w)
           n == Len(w)
           S == {j \in 0 .. n : \A i \in 0 .. n : i <= j => f[i] <= f[j]}
<1>1. IsSums(f, w) /\ n \in Nat
  BY SumsRead
<1> HIDE DEF f
<1>2. \A i \in 0 .. n : f[i] \in Int
  BY <1>1 DEF IsSums
<1>3. 0 \in S
  BY <1>1, <1>2
<1>4. ASSUME NEW j \in 1 .. n, j - 1 \in S
      PROVE  j \in S
  <2>1. f[j] = f[j - 1] + w[j] /\ w[j] \in Int /\ w[j] >= 0
    BY <1>1 DEF IsSums
  <2>2. f[j - 1] <= f[j] /\ f[j - 1] \in Int /\ f[j] \in Int /\ j \in 0 .. n
    BY <1>2, <1>4, <2>1
  <2>3. ASSUME NEW i \in 0 .. n, i <= j
        PROVE  f[i] <= f[j]
    <3>1. CASE i = j
      BY <2>2, <3>1
    <3>2. CASE i # j
      <4>1. i <= j - 1
        BY <2>3, <3>2
      <4>2. f[i] <= f[j - 1] /\ f[i] \in Int
        BY <1>2, <1>4, <4>1
      <4> QED BY <2>2, <4>2
    <3> QED BY <3>1, <3>2
  <2> QED BY <2>2, <2>3
<1>5. \A j \in 0 .. n : j \in S
  <2> HIDE DEF S, n
  <2> QED BY <1>1, <1>3, <1>4, UpTo
<1> QED BY <1>5 DEF f

\* The members of w at the places in T, and nothing elsewhere.
Chosen(w, T) == [i \in 1 .. Len(w) |-> IF i \in T THEN w[i] ELSE 0]

\* They are numbers, as many.
LEMMA ChosenTyped ==
  ASSUME NEW w \in Seq(Int), NEW T
  PROVE  Chosen(w, T) \in Seq(Int) /\ Len(Chosen(w, T)) = Len(w)
BY DEF Chosen

\* One place more adds its member.
LEMMA OneMore ==
  ASSUME NEW w \in Seq(Int), NEW T, NEW x \in 1 .. Len(w), x \notin T
  PROVE  Total(Chosen(w, T \cup {x})) = Total(Chosen(w, T)) + w[x]
<1> DEFINE n == Len(w)
           U == T \cup {x}
           a == Sums(Chosen(w, T))
           b == Sums(Chosen(w, U))
           S == {i \in 0 .. n : b[i] = a[i] + IF x <= i THEN w[x] ELSE 0}
<1>1. /\ Chosen(w, T) \in Seq(Int) /\ Len(Chosen(w, T)) = n
      /\ Chosen(w, U) \in Seq(Int) /\ Len(Chosen(w, U)) = n /\ n \in Nat
  BY ChosenTyped
<1>2. IsSums(a, Chosen(w, T)) /\ IsSums(b, Chosen(w, U))
  BY <1>1, SumsRead
<1> HIDE DEF a, b
<1>3. \A i \in 0 .. n : a[i] \in Int /\ b[i] \in Int
  BY <1>1, <1>2 DEF IsSums
<1>4. \A i \in 1 .. n : w[i] \in Int
  OBVIOUS
<1>5. 0 \in S
  BY <1>1, <1>2, <1>3 DEF IsSums
<1>6. ASSUME NEW i \in 1 .. n, i - 1 \in S
      PROVE  i \in S
  <2>1. /\ a[i] = a[i - 1] + (IF i \in T THEN w[i] ELSE 0)
        /\ b[i] = b[i - 1] + (IF i \in U THEN w[i] ELSE 0)
    BY <1>1, <1>2 DEF IsSums, Chosen
  <2>2. /\ i - 1 \in 0 .. n /\ a[i - 1] \in Int /\ w[i] \in Int /\ w[x] \in Int
        /\ b[i - 1] = a[i - 1] + IF x <= i - 1 THEN w[x] ELSE 0
    BY <1>3, <1>4, <1>6
  <2>3. CASE i = x
    BY <2>1, <2>2, <2>3
  <2>4. CASE i # x
    <3>1. (i \in U <=> i \in T) /\ (x <= i <=> x <= i - 1)
      BY <2>4
    <3> QED BY <2>1, <2>2, <3>1
  <2> QED BY <2>3, <2>4
<1>7. \A i \in 0 .. n : i \in S
  <2> HIDE DEF S, n
  <2> QED BY <1>1, <1>5, <1>6, UpTo
<1>8. b[n] = a[n] + w[x]
  BY <1>1, <1>7
<1> QED BY <1>1, <1>8 DEF Total, a, b

\* No place adds nothing.
LEMMA NothingChosen ==
  ASSUME NEW w \in Seq(Int)
  PROVE  Total(Chosen(w, {})) = 0
<1> DEFINE z == Chosen(w, {})
           n == Len(z)
           g == Sums(z)
           S == {i \in 0 .. n : g[i] = 0}
<1>1. z \in Seq(Int) /\ n \in Nat /\ \A i \in 1 .. n : z[i] = 0
  BY ChosenTyped DEF Chosen
<1> HIDE DEF z
<1>2. IsSums(g, z)
  BY <1>1, SumsRead
<1> HIDE DEF g
<1>3. 0 \in S
  BY <1>1, <1>2 DEF IsSums
<1>4. ASSUME NEW i \in 1 .. n, i - 1 \in S
      PROVE  i \in S
  <2>1. g[i] = g[i - 1] + z[i] /\ z[i] = 0 /\ g[i - 1] = 0 /\ i \in 0 .. n
    BY <1>1, <1>2, <1>4 DEF IsSums
  <2> QED BY <2>1
<1>5. \A i \in 0 .. n : i \in S
  <2> HIDE DEF S, n
  <2> QED BY <1>1, <1>3, <1>4, UpTo
<1> QED BY <1>1, <1>5 DEF Total, g, z

\* An order of the members, those that are nothing left out, has the same sum.
LEMMA Reordered ==
  ASSUME NEW w \in Seq(Int), NEW n \in Nat, NEW o \in [1 .. n -> 1 .. Len(w)],
         \A k, l \in 1 .. n : o[k] = o[l] => k = l,
         \A i \in 1 .. Len(w) : w[i] = 0 \/ \E k \in 1 .. n : o[k] = i
  PROVE  Total([k \in 1 .. n |-> w[o[k]]]) = Total(w)
<1> DEFINE u == [k \in 1 .. n |-> w[o[k]]]
           f == Sums(u)
           Listed(k) == {o[j] : j \in 1 .. k}
           t(k) == Total(Chosen(w, Listed(k)))
           S == {k \in 0 .. n : f[k] = t(k)}
<1>1. u \in Seq(Int) /\ Len(u) = n
  OBVIOUS
<1>2. IsSums(f, u)
  BY <1>1, SumsRead
<1> HIDE DEF f
<1>3. f[0] = 0 /\ \A k \in 1 .. n : f[k] = f[k - 1] + w[o[k]]
  BY <1>1, <1>2 DEF IsSums
<1>4. 0 \in S
  <2>1. Listed(0) = {}
    OBVIOUS
  <2>2. t(0) = 0
    BY <2>1, NothingChosen
  <2> HIDE DEF t
  <2> QED BY <1>3, <2>2
<1>5. ASSUME NEW k \in 1 .. n, k - 1 \in S
      PROVE  k \in S
  <2>1. k - 1 \in 0 .. n /\ k \in 0 .. n /\ f[k - 1] = t(k - 1)
    BY <1>5
  <2>2. o[k] \in 1 .. Len(w) /\ o[k] \notin Listed(k - 1)
    OBVIOUS
  <2>3. Listed(k) = Listed(k - 1) \cup {o[k]}
    <3>1. \A j : j \in 1 .. k <=> j \in 1 .. k - 1 \/ j = k
      OBVIOUS
    <3> QED BY <3>1
  <2>4. t(k) = t(k - 1) + w[o[k]]
    <3> HIDE DEF Listed
    <3> DEFINE T == Listed(k - 1)
               x == o[k]
    <3>1. x \in 1 .. Len(w) /\ x \notin T
      BY <2>2
    <3> HIDE DEF T, x
    <3>2. Total(Chosen(w, T \cup {x})) = Total(Chosen(w, T)) + w[x]
      BY <3>1, OneMore
    <3> QED BY <2>3, <3>2 DEF T, x
  <2> HIDE DEF t
  <2> QED BY <1>3, <2>1, <2>4
<1>6. f[n] = t(n)
  <2>1. \A k \in 0 .. n : k \in S
    <3> HIDE DEF S
    <3> QED BY <1>4, <1>5, UpTo
  <2> HIDE DEF t
  <2>2. n \in 0 .. n
    OBVIOUS
  <2> QED BY <2>1, <2>2
<1>7. t(n) = Total(w)
  <2>1. Chosen(w, Listed(n)) \in Seq(Int) /\ Len(Chosen(w, Listed(n))) = Len(w)
    BY ChosenTyped
  <2>2. \A i \in 1 .. Len(w) : Chosen(w, Listed(n))[i] = w[i]
    BY DEF Chosen
  <2> HIDE DEF Listed
  <2>3. \A i \in 0 .. Len(w) : Sums(Chosen(w, Listed(n)))[i] = Sums(w)[i]
    <3> DEFINE c == Chosen(w, Listed(n))
               m == Len(w)
    <3>1. /\ c \in Seq(Int) /\ m \in Nat /\ m <= Len(c) /\ m <= Len(w)
          /\ \A i \in 1 .. m : c[i] = w[i]
      BY <2>1, <2>2
    <3> HIDE DEF c, m
    <3>2. \A i \in 0 .. m : Sums(c)[i] = Sums(w)[i]
      BY <3>1, SumsAgree, ZenonT(30)
    <3> QED BY <3>2 DEF c, m
  <2> QED BY <2>1, <2>3 DEF Total
<1> QED BY <1>1, <1>6, <1>7 DEF Total, f

\* What a rule of a split is: a claim on the hashes for a value.
SplitRule == [percent : Int, value : Int]

\* What the rules ask for is not negative.
LEMMA AskedTyped ==
  ASSUME NEW rules \in Seq(SplitRule)
  PROVE  /\ Asked(rules) \in Seq(Int) /\ Len(Asked(rules)) = Len(rules)
         /\ \A i \in 1 .. Len(rules) :
              Asked(rules)[i] = IF rules[i].percent > 0 THEN rules[i].percent ELSE 0
         /\ \A i \in 1 .. Len(rules) : Asked(rules)[i] >= 0
<1>1. \A i \in 1 .. Len(rules) : rules[i].percent \in Int
  <2>1. \A i \in 1 .. Len(rules) : rules[i] \in SplitRule
    OBVIOUS
  <2> QED BY <2>1 DEF SplitRule
<1>2. Len(rules) \in Nat
  OBVIOUS
<1> QED BY <1>1, <1>2 DEF Asked

\* The claims are the rules and the default.
LEMMA ClaimsRead ==
  ASSUME NEW rules \in Seq(SplitRule), NEW default \in Int
  PROVE  LET c == Claims(rules, default)
             n == Len(rules)
         IN  /\ n \in Nat /\ c \in Seq(SplitRule) /\ Len(c) = n + 1
             /\ \A i \in 1 .. n : c[i] = rules[i]
             /\ c[n + 1].percent = Whole /\ c[n + 1].value = default
<1> DEFINE d == [percent |-> Whole, value |-> default]
<1>1. d \in SplitRule /\ d.percent = Whole /\ d.value = default
  BY DEF SplitRule, Whole
<1> HIDE DEF d
<1>2. /\ Append(rules, d) \in Seq(SplitRule) /\ Len(Append(rules, d)) = Len(rules) + 1
      /\ \A i \in 1 .. Len(rules) : Append(rules, d)[i] = rules[i]
      /\ Append(rules, d)[Len(rules) + 1] = d /\ Len(rules) \in Nat
  BY <1>1
<1> QED BY <1>1, <1>2 DEF Claims, d

\* Everything is given out, nobody gets less than nothing, and where the rules ask
\* for no more than everything each gets what it asks for and the default the rest.
LEMMA PortionsRead ==
  ASSUME NEW rules \in Seq(SplitRule), NEW default \in Int
  PROVE  LET p == Portions(Claims(rules, default))
             n == Len(rules)
         IN  /\ p \in Seq(Int) /\ Len(p) = n + 1 /\ \A i \in 1 .. n + 1 : p[i] >= 0
             /\ Total(p) = Whole
             /\ Total(Asked(rules)) <= Whole =>
                  /\ \A i \in 1 .. n : p[i] = Asked(rules)[i]
                  /\ p[n + 1] = Whole - Total(Asked(rules))
<1> DEFINE c == Claims(rules, default)
           n == Len(rules)
           a == Asked(c)
           s == Sums(a)
           t(i) == IF s[i] > Whole THEN Whole ELSE s[i]
           p == Portions(c)
<1>1. /\ n \in Nat /\ c \in Seq(SplitRule) /\ Len(c) = n + 1 /\ \A i \in 1 .. n : c[i] = rules[i]
      /\ c[n + 1].percent = Whole
  BY ClaimsRead
<1> HIDE DEF c
<1>2. /\ a \in Seq(Int) /\ Len(a) = n + 1 /\ \A i \in 1 .. n + 1 : a[i] >= 0
      /\ \A i \in 1 .. n + 1 : a[i] = IF c[i].percent > 0 THEN c[i].percent ELSE 0
  BY <1>1, AskedTyped
<1>3. p = [i \in 1 .. n + 1 |-> t(i) - t(i - 1)]
  BY <1>1 DEF Portions
<1> HIDE DEF a, p
<1>4. /\ IsSums(s, a) /\ \A i, j \in 0 .. n + 1 : i <= j => s[i] <= s[j]
  BY <1>2, SumsRead, SumsGrow
<1> HIDE DEF s
<1>5. s[0] = 0 /\ (\A i \in 0 .. n + 1 : s[i] \in Nat)
      /\ \A i \in 1 .. n + 1 : s[i] = s[i - 1] + a[i]
  <2>1. s[0] = 0 /\ (\A i \in 0 .. n + 1 : s[i] \in Int)
        /\ \A i \in 1 .. n + 1 : s[i] = s[i - 1] + a[i]
    BY <1>1, <1>2, <1>4 DEF IsSums
  <2>2. \A i \in 0 .. n + 1 : s[0] <= s[i]
    BY <1>1, <1>4
  <2> QED BY <2>1, <2>2
<1>6. \A i \in 0 .. n + 1 : t(i) \in 0 .. Whole
  <2> SUFFICES ASSUME NEW i \in 0 .. n + 1 PROVE t(i) \in 0 .. Whole
    OBVIOUS
  <2>1. s[i] \in Nat /\ Whole \in Nat
    BY <1>5 DEF Whole
  <2>2. CASE s[i] > Whole
    BY <2>1, <2>2
  <2>3. CASE ~(s[i] > Whole)
    BY <2>1, <2>3
  <2> QED BY <2>2, <2>3
<1>7. \A i \in 1 .. n + 1 : i - 1 \in 0 .. n + 1 /\ i \in 0 .. n + 1
  BY <1>1
<1>8. \A i \in 1 .. n + 1 : t(i - 1) <= t(i)
  BY <1>4, <1>5, <1>7 DEF Whole
<1>9. t(n + 1) = Whole /\ t(0) = 0
  <2>1. a[n + 1] = Whole
    BY <1>1, <1>2 DEF Whole
  <2>2. s[n + 1] = s[n] + Whole /\ s[n] \in Nat
    BY <1>1, <1>5, <2>1
  <2> QED BY <1>5, <2>2 DEF Whole
<1>10. p \in Seq(Int) /\ Len(p) = n + 1 /\ \A i \in 1 .. n + 1 : p[i] = t(i) - t(i - 1)
  <2>1. \A i \in 1 .. n + 1 : t(i) - t(i - 1) \in Int
    BY <1>6, <1>7
  <2> HIDE DEF t
  <2> QED BY <1>1, <1>3, <2>1
<1>11. \A i \in 1 .. n + 1 : p[i] >= 0
  <2> HIDE DEF t
  <2> QED BY <1>6, <1>7, <1>8, <1>10, SMTT(20)
<1>12. Total(p) = Whole
  <2> DEFINE f == Sums(p)
             S == {i \in 0 .. n + 1 : f[i] = t(i)}
  <2>1. IsSums(f, p)
    BY <1>10, SumsRead
  <2> HIDE DEF f, t
  <2>2. 0 \in S
    BY <1>1, <1>9, <2>1 DEF IsSums
  <2>3. ASSUME NEW i \in 1 .. n + 1, i - 1 \in S
        PROVE  i \in S
    <3>1. f[i] = f[i - 1] + p[i] /\ f[i - 1] = t(i - 1) /\ p[i] = t(i) - t(i - 1)
      BY <1>10, <2>1, <2>3 DEF IsSums
    <3>2. t(i) \in Int /\ t(i - 1) \in Int /\ i \in 0 .. n + 1
      BY <1>6, <1>7
    <3> QED BY <3>1, <3>2
  <2>4. \A i \in 0 .. n + 1 : i \in S
    <3> DEFINE m == n + 1
    <3>1. m \in Nat
      BY <1>1
    <3>2. \A i \in 1 .. m : i - 1 \in S => i \in S
      BY <2>3
    <3> SUFFICES \A i \in 0 .. m : i \in S
      OBVIOUS
    <3> HIDE DEF S, m
    <3> QED BY <2>2, <3>1, <3>2, UpTo
  <2>5. f[n + 1] = t(n + 1)
    BY <1>1, <2>4
  <2> QED BY <1>9, <1>10, <2>5 DEF Total, f
<1>13. ASSUME Total(Asked(rules)) <= Whole
       PROVE  /\ \A i \in 1 .. n : p[i] = Asked(rules)[i]
              /\ p[n + 1] = Whole - Total(Asked(rules))
  <2> DEFINE b == Asked(rules)
             r == Sums(b)
  <2>1. /\ b \in Seq(Int) /\ Len(b) = n
        /\ \A i \in 1 .. n : b[i] = IF rules[i].percent > 0 THEN rules[i].percent ELSE 0
    BY AskedTyped
  <2>2. \A i \in 1 .. n : a[i] = b[i]
    <3> HIDE DEF b
    <3> SUFFICES ASSUME NEW i \in 1 .. n PROVE a[i] = b[i]
      OBVIOUS
    <3>1. c[i] = rules[i] /\ i \in 1 .. n + 1
      BY <1>1
    <3>2. a[i] = IF c[i].percent > 0 THEN c[i].percent ELSE 0
      BY <1>2, <3>1
    <3> QED BY <2>1, <3>1, <3>2
  <2> HIDE DEF b
  <2>3. \A i \in 0 .. n : s[i] = r[i]
    <3>1. n <= Len(a) /\ n <= Len(b)
      BY <1>1, <1>2, <2>1
    <3> HIDE DEF n
    <3> QED BY <1>1, <1>2, <2>1, <2>2, <3>1, SumsAgree DEF s
  <2>4. r[n] = Total(b)
    BY <2>1 DEF Total
  <2>5. \A i \in 0 .. n : s[i] <= Whole
    <3>1. s[n] <= Whole /\ s[n] \in Nat
      BY <1>1, <1>5, <1>13, <2>3, <2>4 DEF b
    <3>2. \A i \in 0 .. n : s[i] <= s[n] /\ s[i] \in Nat
      BY <1>1, <1>4, <1>5
    <3> QED BY <3>1, <3>2 DEF Whole
  <2>6. \A i \in 0 .. n : t(i) = s[i] /\ s[i] \in Nat
    BY <1>1, <1>5, <2>5 DEF Whole
  <2>7. ASSUME NEW i \in 1 .. n
        PROVE  p[i] = b[i]
    <3>1. i \in 0 .. n /\ i - 1 \in 0 .. n /\ i \in 1 .. n + 1
      BY <1>1
    <3>2. p[i] = s[i] - s[i - 1]
      BY <1>10, <2>6, <3>1
    <3>4. s[i] = s[i - 1] + a[i] /\ a[i] = b[i] /\ b[i] \in Int
      BY <1>5, <2>1, <2>2, <3>1
    <3>3. s[i] \in Nat /\ s[i - 1] \in Nat
      BY <2>6, <3>1
    <3> QED BY <3>2, <3>3, <3>4
  <2>8. p[n + 1] = Whole - Total(b)
    <3>1. p[n + 1] = t(n + 1) - t(n)
      BY <1>1, <1>10
    <3>2. t(n) = Total(b)
      BY <1>1, <2>3, <2>4, <2>6
    <3> QED BY <1>9, <3>1, <3>2
  <2> QED BY <2>7, <2>8 DEF b
<1> QED BY <1>10, <1>11, <1>12, <1>13 DEF p, c

\* o lists n of the places of p, each once, and all where something is.
Lists(o, n, p) == /\ n \in Nat /\ Len(o) = n /\ o \in [1 .. n -> 1 .. Len(p)]
                  /\ \A k, l \in 1 .. n : o[k] = o[l] => k = l
                  /\ \A i \in 1 .. Len(p) : p[i] = 0 \/ \E k \in 1 .. n : o[k] = i

\* An order lists claims, each once, and all that get something.
LEMMA OrdersRead ==
  ASSUME NEW c, NEW p, Len(c) \in Nat, Len(p) = Len(c), \A i \in 1 .. Len(c) : p[i] \in Nat,
         NEW pairs \in Pairs(c, p), NEW o \in Orders(c, pairs)
  PROVE  Lists(o, Cardinality(pairs), p)
<1> DEFINE n == Cardinality(pairs)
<1>1. pairs \subseteq 1 .. Len(c)
  BY DEF Pairs, Heir
<1>2. \A i \in 1 .. Len(c) : p[i] = 0 \/ i \in pairs
  BY DEF Pairs
<1>3. n \in Nat
  <2>1. IsFiniteSet(1 .. Len(c))
    BY FS_Interval
  <2> QED BY <1>1, <2>1, FS_Subset, FS_CardinalityType
<1>4. o \in Bijection(1 .. n, pairs)
  BY DEF Orders
<1> HIDE DEF n
<1>5. /\ o \in [1 .. n -> pairs]
      /\ \A k, l \in 1 .. n : o[k] = o[l] => k = l
      /\ \A i \in pairs : \E k \in 1 .. n : o[k] = i
  BY <1>4 DEF Bijection, Injection, Surjection, IsInjective
<1>6. Len(o) = n
  BY <1>3, <1>5
<1>7. o \in [1 .. n -> 1 .. Len(p)]
  BY <1>1, <1>5
<1>8. \A i \in 1 .. Len(p) : p[i] = 0 \/ \E k \in 1 .. n : o[k] = i
  BY <1>2, <1>5
<1> QED BY <1>3, <1>5, <1>6, <1>7, <1>8 DEF Lists, n

\* What division by ten leaves.
LEMMA DivMod ==
  ASSUME NEW x \in Nat
  PROVE  x = 10 * (x \div 10) + (x % 10) /\ x % 10 \in 0 .. 9 /\ x \div 10 \in Nat
OBVIOUS

\* How wide a band is, as it is counted: what its claim gets, less at most a
\* hundredth of a percent.
Width(p, o, short) ==
  [k \in 1 .. Len(o) |-> p[o[k]] \div 10 - (IF o[k] \in short THEN 1 ELSE 0)]

\* The sums s of the widths keep up with the sums g of what the claims get.
KeepsUp(s, g, u, n) ==
  /\ n > 0 /\ g[n] = Whole /\ s[0] = 0
  /\ \A k \in 0 .. n : /\ s[k] \in Nat /\ g[k] \in Nat
                       /\ g[k] - 10 * k <= 10 * s[k] /\ 10 * s[k] <= g[k]
  /\ \A k \in 1 .. n : /\ s[k - 1] <= s[k] /\ g[k] = g[k - 1] + u[k]
                       /\ u[k] - 10 <= 10 * (s[k] - s[k - 1])
                       /\ 10 * (s[k] - s[k - 1]) <= u[k]

\* Each band is at most a hundredth of a percent short of what its claim gets.
LEMMA WidthsRead ==
  ASSUME NEW p \in Seq(Int), \A i \in 1 .. Len(p) : p[i] >= 0, Total(p) = Whole,
         NEW o, NEW n, Lists(o, n, p), NEW short \in SUBSET Doubtful(p)
  PROVE  LET u == [k \in 1 .. n |-> p[o[k]]]
         IN  KeepsUp(Sums(Width(p, o, short)), Sums(u), u, n)
<1> SUFFICES ASSUME n \in Nat, Len(o) = n, o \in [1 .. n -> 1 .. Len(p)],
                    \A k, l \in 1 .. n : o[k] = o[l] => k = l,
                    \A i \in 1 .. Len(p) : p[i] = 0 \/ \E k \in 1 .. n : o[k] = i
             PROVE  LET u == [k \in 1 .. n |-> p[o[k]]]
                    IN  KeepsUp(Sums(Width(p, o, short)), Sums(u), u, n)
  BY DEF Lists
<1> DEFINE w == Width(p, o, short)
           u == [k \in 1 .. n |-> p[o[k]]]
           s == Sums(w)
           g == Sums(u)
<1>1. \A k \in 1 .. n : o[k] \in 1 .. Len(p) /\ p[o[k]] \in Nat
  OBVIOUS
<1>2. \A k \in 1 .. n : u[k] = p[o[k]] /\ u[k] \in Nat
  BY <1>1
<1>3. u \in Seq(Int) /\ Len(u) = n /\ n \in Nat
  BY <1>1
<1>4. ASSUME NEW k \in 1 .. n
      PROVE  w[k] \in Nat /\ u[k] - 10 <= 10 * w[k] /\ 10 * w[k] <= u[k]
  <2> DEFINE x == p[o[k]]
  <2>1. x \in Nat /\ u[k] = x
    BY <1>1
  <2>2. w[k] = x \div 10 - (IF o[k] \in short THEN 1 ELSE 0)
    BY DEF Width
  <2>3. o[k] \in short => x > 0 /\ x % 10 = 0
    BY DEF Doubtful
  <2> HIDE DEF x, w, u
  <2>4. x = 10 * (x \div 10) + (x % 10) /\ x % 10 \in 0 .. 9 /\ x \div 10 \in Nat
    BY <2>1, DivMod
  <2>5. CASE o[k] \in short
    BY <2>1, <2>2, <2>3, <2>4, <2>5
  <2>6. CASE o[k] \notin short
    BY <2>1, <2>2, <2>4, <2>6
  <2> QED BY <2>5, <2>6
<1>5. w \in Seq(Int) /\ Len(w) = n
  <2>1. \A k \in 1 .. n : p[o[k]] \div 10 - (IF o[k] \in short THEN 1 ELSE 0) \in Int
    BY <1>1
  <2> QED BY <2>1 DEF Width
<1>6. Total(u) = Whole
  <2>1. Total(u) = Total(p)
    BY Reordered
  <2> QED BY <2>1
<1> HIDE DEF w, u
<1>7. IsSums(s, w) /\ IsSums(g, u)
  BY <1>3, <1>5, SumsRead
<1> HIDE DEF s, g
<1>8. \A k \in 0 .. n : s[k] \in Int /\ g[k] \in Int
  BY <1>3, <1>5, <1>7 DEF IsSums
<1>9. ASSUME NEW k \in 1 .. n
      PROVE  /\ s[k] = s[k - 1] + w[k] /\ g[k] = g[k - 1] + u[k] /\ u[k] = p[o[k]]
             /\ w[k] \in Nat /\ u[k] \in Nat /\ u[k] - 10 <= 10 * w[k] /\ 10 * w[k] <= u[k]
             /\ s[k - 1] \in Int /\ g[k - 1] \in Int /\ k - 1 \in 0 .. n /\ k \in 0 .. n
  <2>1. s[k] = s[k - 1] + w[k] /\ g[k] = g[k - 1] + u[k]
    BY <1>3, <1>5, <1>7 DEF IsSums
  <2>2. k - 1 \in 0 .. n /\ k \in 0 .. n
    BY <1>3
  <2> QED BY <1>2, <1>4, <1>8, <2>1, <2>2
<1> DEFINE S == {k \in 0 .. n : /\ s[k] \in Nat /\ g[k] \in Nat
                                /\ g[k] - 10 * k <= 10 * s[k] /\ 10 * s[k] <= g[k]}
<1>10. 0 \in S
  BY <1>3, <1>7 DEF IsSums
<1>11. ASSUME NEW k \in 1 .. n, k - 1 \in S
       PROVE  k \in S
  <2>1. /\ s[k - 1] \in Nat /\ g[k - 1] \in Nat
        /\ g[k - 1] - 10 * (k - 1) <= 10 * s[k - 1] /\ 10 * s[k - 1] <= g[k - 1]
    BY <1>11
  <2>2. /\ s[k] = s[k - 1] + w[k] /\ g[k] = g[k - 1] + u[k]
        /\ w[k] \in Nat /\ u[k] \in Nat /\ u[k] - 10 <= 10 * w[k] /\ 10 * w[k] <= u[k]
    BY <1>9
  <2> DEFINE x == s[k - 1]
             y == g[k - 1]
             d == w[k]
             e == u[k]
  <2>3. /\ x \in Nat /\ y \in Nat /\ d \in Nat /\ e \in Nat /\ k \in Nat
        /\ y - 10 * (k - 1) <= 10 * x /\ 10 * x <= y /\ e - 10 <= 10 * d /\ 10 * d <= e
        /\ s[k] = x + d /\ g[k] = y + e
    BY <2>1, <2>2
  <2> HIDE DEF x, y, d, e
  <2>4. /\ x + d \in Nat /\ y + e \in Nat
        /\ (y + e) - 10 * k <= 10 * (x + d) /\ 10 * (x + d) <= y + e
    BY <2>3
  <2> QED BY <2>3, <2>4, SMTT(20)
<1>12. \A k \in 0 .. n : k \in S
  <2> HIDE DEF S
  <2> QED BY <1>3, <1>10, <1>11, UpTo
<1>13. g[n] = Whole /\ s[0] = 0 /\ n > 0
  <2>1. g[n] = Whole
    BY <1>3, <1>6 DEF Total, g
  <2>2. g[0] = 0 /\ s[0] = 0
    BY <1>7 DEF IsSums
  <2> QED BY <1>3, <2>1, <2>2 DEF Whole
<1>14. ASSUME NEW k \in 1 .. n
       PROVE  /\ s[k - 1] <= s[k] /\ g[k] = g[k - 1] + u[k]
              /\ u[k] - 10 <= 10 * (s[k] - s[k - 1])
              /\ 10 * (s[k] - s[k - 1]) <= u[k]
  <2>1. /\ s[k] = s[k - 1] + w[k] /\ g[k] = g[k - 1] + u[k]
        /\ w[k] \in Nat /\ u[k] \in Nat /\ u[k] - 10 <= 10 * w[k] /\ 10 * w[k] <= u[k]
        /\ s[k - 1] \in Int
    BY <1>9
  <2> QED BY <2>1, SMTT(20)
<1>15. KeepsUp(s, g, u, n)
  BY <1>12, <1>13, <1>14 DEF KeepsUp
<1> QED BY <1>15 DEF s, g, w, u

\* The first 5536 residues stand for more hashes than their share of the others,
\* the rest for fewer: what a band below t has gained and lost by that, in the
\* units of Percentage.
Gain(t) == 1395 * (IF t < 5536 THEN t ELSE 5536)
Loss(t) == 1730 * (IF t < 5536 THEN 0 ELSE t - 5536)
MostShifted == 7722720

\* What lies between r and t is as many hashes as it should be, but for that.
Shifted(r, t) ==
  /\ 3125 * (Below(t) - Below(r)) = 20480 * (t - r) + (Gain(t) - Gain(r)) - (Loss(t) - Loss(r))
  /\ Below(t) \in Int /\ Below(r) \in Int /\ t \in Int /\ r \in Int
  /\ Gain(r) \in Nat /\ Gain(t) \in Nat /\ Gain(r) <= Gain(t)
  /\ Loss(r) \in Nat /\ Loss(t) \in Nat /\ Loss(r) <= Loss(t)

\* So they are: what a band has of the hashes, and what its width would be worth.
LEMMA Shifts ==
  ASSUME NEW r \in 0 .. Residues, NEW t \in 0 .. Residues, r <= t
  PROVE  Shifted(r, t)
<1>1. Hashes % Residues = 5536 /\ Hashes \div Residues = 6
  BY DEF Hashes, Residues
<1>2. \A x \in 0 .. Residues :
        /\ Below(x) = 6 * x + (IF x < 5536 THEN x ELSE 5536) /\ Below(x) \in Int
        /\ Gain(x) \in Nat /\ Loss(x) \in Nat
        /\ 3125 * Below(x) = 20480 * x + Gain(x) - Loss(x)
  BY <1>1, SMTT(20) DEF Below, Gain, Loss, Residues
<1>3. r \in Int /\ t \in Int
  BY DEF Residues
<1>4. Gain(r) <= Gain(t) /\ Loss(r) <= Loss(t)
  BY <1>3 DEF Gain, Loss
<1>5. 3125 * (Below(t) - Below(r))
        = 20480 * (t - r) + (Gain(t) - Gain(r)) - (Loss(t) - Loss(r))
  <2>1. /\ Below(t) \in Int /\ Gain(t) \in Int /\ Loss(t) \in Int
        /\ 3125 * Below(t) = 20480 * t + Gain(t) - Loss(t)
    BY <1>2
  <2>2. /\ Below(r) \in Int /\ Gain(r) \in Int /\ Loss(r) \in Int
        /\ 3125 * Below(r) = 20480 * r + Gain(r) - Loss(r)
    BY <1>2
  <2> QED BY <1>3, <2>1, <2>2, SMTT(20)
<1> QED BY <1>2, <1>3, <1>4, <1>5 DEF Shifted

\* The last band gains and loses all.
LEMMA ShiftsEnd ==
  /\ Gain(0) = 0 /\ Loss(0) = 0 /\ MostShifted \in Nat
  /\ Gain(Residues) = MostShifted /\ Loss(Residues) = MostShifted
BY SMT DEF Gain, Loss, Residues, MostShifted

\* T, the places where n bands meet, starts at nothing, never steps back and ends
\* with everything, and the bands are as wide as w says, up to a hundredth of a
\* percent, and in the last that of all the others.
Meet(T, w, n) ==
  /\ T[0] = 0 /\ T[n] = Residues
  /\ \A k \in 0 .. n : T[k] \in 0 .. Residues
  /\ \A k \in 1 .. n : T[k - 1] <= T[k]
  /\ \A k \in 1 .. n - 1 : /\ w[k] - 10 <= 10 * (T[k] - T[k - 1])
                           /\ 10 * (T[k] - T[k - 1]) <= w[k]
  /\ w[n] <= 10 * (T[n] - T[n - 1])
  /\ 10 * (T[n] - T[n - 1]) <= w[n] + 10 * (n - 1)

\* g of the 65536 hashes are as much as q thousandths of a percent, but for what a
\* band may gain or lose to the others, and a hundredth of a percent m times.
Close(g, q, m) == /\ g \in Int /\ q \in Int
                  /\ 3125 * g - 2048 * q <= MostShifted + 20480 * m
                  /\ 2048 * q - 3125 * g <= MostShifted + 20480 * m

\* What the bands in I have of the hashes, and what they should have.
Taken(T, n, I) == [k \in 1 .. n |-> IF k \in I THEN Below(T[k]) - Below(T[k - 1]) ELSE 0]
Owed(w, n, I) == [k \in 1 .. n |-> IF k \in I THEN w[k] ELSE 0]

\* The hashes of any of the bands come close to what those should have.
LEMMA SharesClose ==
  ASSUME NEW n \in Nat, n > 0, NEW T, NEW w, \A k \in 1 .. n : w[k] \in Nat,
         Meet(T, w, n), NEW In
  PROVE  Close(Total(Taken(T, n, In)), Total(Owed(w, n, In)), n - 1)
<1> SUFFICES ASSUME T[0] = 0, T[n] = Residues,
                    \A k \in 0 .. n : T[k] \in 0 .. Residues,
                    \A k \in 1 .. n : T[k - 1] <= T[k],
                    \A k \in 1 .. n - 1 : /\ w[k] - 10 <= 10 * (T[k] - T[k - 1])
                                          /\ 10 * (T[k] - T[k - 1]) <= w[k],
                    w[n] <= 10 * (T[n] - T[n - 1]),
                    10 * (T[n] - T[n - 1]) <= w[n] + 10 * (n - 1)
             PROVE  Close(Total(Taken(T, n, In)), Total(Owed(w, n, In)), n - 1)
  BY DEF Meet
<1> DEFINE a == [k \in 1 .. n |-> IF k \in In THEN Below(T[k]) - Below(T[k - 1]) ELSE 0]
           b == [k \in 1 .. n |-> IF k \in In THEN w[k] ELSE 0]
           g == Sums(a)
           q == Sums(b)
<1>1. \A k \in 0 .. n : T[k] \in 0 .. Residues
  OBVIOUS
<1>2. \A k \in 1 .. n : Shifted(T[k - 1], T[k])
  <2> SUFFICES ASSUME NEW k \in 1 .. n PROVE Shifted(T[k - 1], T[k])
    OBVIOUS
  <2>1. T[k - 1] \in 0 .. Residues /\ T[k] \in 0 .. Residues /\ T[k - 1] <= T[k]
    BY <1>1
  <2> QED BY <2>1, Shifts
<1>3. a \in Seq(Int) /\ Len(a) = n /\ b \in Seq(Int) /\ Len(b) = n
  <2>1. \A k \in 1 .. n : (IF k \in In THEN Below(T[k]) - Below(T[k - 1]) ELSE 0) \in Int
    BY <1>2 DEF Shifted
  <2>2. \A k \in 1 .. n : (IF k \in In THEN w[k] ELSE 0) \in Int
    OBVIOUS
  <2> QED BY <2>1, <2>2
<1>4. IsSums(g, a) /\ IsSums(q, b)
  <2> HIDE DEF a, b
  <2> QED BY <1>3, SumsRead
<1>5. \A k \in 1 .. n : /\ a[k] = IF k \in In THEN Below(T[k]) - Below(T[k - 1]) ELSE 0
                        /\ b[k] = IF k \in In THEN w[k] ELSE 0
  OBVIOUS
<1> HIDE DEF a, b, g, q
<1>6. /\ g[0] = 0 /\ q[0] = 0 /\ \A k \in 0 .. n : g[k] \in Int /\ q[k] \in Int
      /\ \A k \in 1 .. n : g[k] = g[k - 1] + a[k] /\ q[k] = q[k - 1] + b[k]
  BY <1>3, <1>4 DEF IsSums
\* One band more: what it adds, whether it is among those counted or not.
<1>7. ASSUME NEW k \in 1 .. n, NEW low \in Nat, NEW up \in Nat,
             10 * (T[k] - T[k - 1]) <= w[k] + up, w[k] - low <= 10 * (T[k] - T[k - 1]),
             NEW x \in Int, NEW y \in Int,
             3125 * g[k - 1] - 2048 * q[k - 1] <= Gain(T[k - 1]) + x,
             2048 * q[k - 1] - 3125 * g[k - 1] <= Loss(T[k - 1]) + y
      PROVE  /\ 3125 * g[k] - 2048 * q[k] <= Gain(T[k]) + x + 2048 * up
             /\ 2048 * q[k] - 3125 * g[k] <= Loss(T[k]) + y + 2048 * low
  <2> DEFINE g0 == g[k - 1]
             q0 == q[k - 1]
             d == T[k] - T[k - 1]
             e == Below(T[k]) - Below(T[k - 1])
             G0 == Gain(T[k - 1])
             G1 == Gain(T[k])
             L0 == Loss(T[k - 1])
             L1 == Loss(T[k])
             p == w[k]
  <2>0. g0 \in Int /\ q0 \in Int /\ p \in Nat
    BY <1>6
  <2>1. /\ d \in Int /\ e \in Int
        /\ G0 \in Nat /\ G1 \in Nat /\ L0 \in Nat /\ L1 \in Nat /\ G0 <= G1 /\ L0 <= L1
        /\ 3125 * e = 20480 * d + (G1 - G0) - (L1 - L0)
    <3>1. Shifted(T[k - 1], T[k])
      BY <1>2
    <3> QED BY <3>1 DEF Shifted
  <2>2. /\ 10 * d <= p + up /\ p - low <= 10 * d
        /\ 3125 * g0 - 2048 * q0 <= G0 + x /\ 2048 * q0 - 3125 * g0 <= L0 + y
    BY <1>7
  <2>3. /\ g[k] = g0 + (IF k \in In THEN e ELSE 0)
        /\ q[k] = q0 + (IF k \in In THEN p ELSE 0)
    BY <1>5, <1>6
  <2> SUFFICES /\ 3125 * g[k] - 2048 * q[k] <= G1 + x + 2048 * up
               /\ 2048 * q[k] - 3125 * g[k] <= L1 + y + 2048 * low
    OBVIOUS
  <2> HIDE DEF g0, q0, d, e, G0, G1, L0, L1, p
  <2>4. CASE k \in In
    <3>1. g[k] = g0 + e /\ q[k] = q0 + p
      BY <2>3, <2>4
    <3>2. /\ 3125 * (g0 + e) - 2048 * (q0 + p) <= G1 + x + 2048 * up
          /\ 2048 * (q0 + p) - 3125 * (g0 + e) <= L1 + y + 2048 * low
      BY <2>0, <2>1, <2>2
    <3> QED BY <3>1, <3>2
  <2>5. CASE k \notin In
    <3>1. g[k] = g0 /\ q[k] = q0
      BY <2>0, <2>1, <2>3, <2>5
    <3>2. /\ 3125 * g0 - 2048 * q0 <= G1 + x + 2048 * up
          /\ 2048 * q0 - 3125 * g0 <= L1 + y + 2048 * low
      BY <2>0, <2>1, <2>2
    <3> QED BY <3>1, <3>2
  <2> QED BY <2>4, <2>5
<1> DEFINE S == {k \in 0 .. n - 1 : /\ 3125 * g[k] - 2048 * q[k] <= Gain(T[k]) + 0
                                    /\ 2048 * q[k] - 3125 * g[k] <= Loss(T[k]) + 20480 * k}
<1>8. 0 \in S
  BY <1>6, ShiftsEnd
<1>9. ASSUME NEW k \in 1 .. n - 1, k - 1 \in S
      PROVE  k \in S
  <2>1. /\ 3125 * g[k - 1] - 2048 * q[k - 1] <= Gain(T[k - 1]) + 0
        /\ 2048 * q[k - 1] - 3125 * g[k - 1] <= Loss(T[k - 1]) + 20480 * (k - 1)
    BY <1>9
  <2>2. k \in 1 .. n /\ 20480 * (k - 1) \in Int
    OBVIOUS
  <2>3. 10 * (T[k] - T[k - 1]) <= w[k] + 0 /\ w[k] - 10 <= 10 * (T[k] - T[k - 1])
    BY <2>2
  <2>4. /\ 3125 * g[k] - 2048 * q[k] <= Gain(T[k]) + 0 + 2048 * 0
        /\ 2048 * q[k] - 3125 * g[k] <= Loss(T[k]) + 20480 * (k - 1) + 2048 * 10
    BY <1>7, <2>1, <2>2, <2>3
  <2>5. Gain(T[k]) \in Nat /\ Loss(T[k]) \in Nat
    BY <1>2, <2>2 DEF Shifted
  <2> QED BY <2>4, <2>5
<1>10. \A k \in 0 .. n - 1 : k \in S
  <2> DEFINE m == n - 1
  <2>1. m \in Nat /\ \A k \in 1 .. m : k - 1 \in S => k \in S
    BY <1>9
  <2> SUFFICES \A k \in 0 .. m : k \in S
    OBVIOUS
  <2> HIDE DEF S, m
  <2> QED BY <1>8, <2>1, UpTo
<1>11. /\ 3125 * g[n] - 2048 * q[n] <= MostShifted + 20480 * (n - 1)
       /\ 2048 * q[n] - 3125 * g[n] <= MostShifted + 20480 * (n - 1)
  <2>1. /\ 3125 * g[n - 1] - 2048 * q[n - 1] <= Gain(T[n - 1]) + 0
        /\ 2048 * q[n - 1] - 3125 * g[n - 1] <= Loss(T[n - 1]) + 20480 * (n - 1)
    BY <1>10
  <2>2. n \in 1 .. n /\ 10 * (n - 1) \in Nat /\ 20480 * (n - 1) \in Int
    OBVIOUS
  <2>3. w[n] - 0 <= 10 * (T[n] - T[n - 1])
    BY <2>2
  <2>4. /\ 3125 * g[n] - 2048 * q[n] <= Gain(T[n]) + 0 + 2048 * (10 * (n - 1))
        /\ 2048 * q[n] - 3125 * g[n] <= Loss(T[n]) + 20480 * (n - 1) + 2048 * 0
    BY <1>7, <2>1, <2>2, <2>3
  <2> QED BY <2>4, ShiftsEnd
<1>12. Total(a) = g[n] /\ Total(b) = q[n]
  BY <1>3 DEF Total, g, q
<1>13. g[n] \in Int /\ q[n] \in Int
  BY <1>6
<1>14. Close(Total(a), Total(b), n - 1)
  BY <1>11, <1>12, <1>13 DEF Close
<1> QED BY <1>14 DEF a, b, Taken, Owed

\* The bands bs are those of the n claims o lists, side by side.
Laid(bs, c, p, o, n, T) ==
  /\ Lists(o, n, p) /\ n > 0 /\ Len(bs) = n
  /\ \A k \in 1 .. n : bs[k].threshold = T[k] /\ bs[k].value = c[o[k]].value
  /\ Meet(T, [k \in 1 .. n |-> p[o[k]]], n)

\* The bands of a division are so laid.
LEMMA BandsRead ==
  ASSUME NEW rules \in Seq(SplitRule), NEW default \in Int,
         NEW bs \in Divisions(rules, default)
  PROVE  LET c == Claims(rules, default)
         IN  \E n, o, T : Laid(bs, c, Portions(c), o, n, T)
<1> DEFINE c == Claims(rules, default)
           p == Portions(c)
<1>1. /\ Len(c) = Len(rules) + 1 /\ Len(p) = Len(c) /\ p \in Seq(Int) /\ Total(p) = Whole
      /\ Len(c) \in Nat /\ \A i \in 1 .. Len(p) : p[i] >= 0
  <2>1. Len(rules) \in Nat /\ Len(c) = Len(rules) + 1
    BY ClaimsRead
  <2>2. /\ p \in Seq(Int) /\ Len(p) = Len(rules) + 1 /\ Total(p) = Whole
        /\ \A i \in 1 .. Len(rules) + 1 : p[i] >= 0
    BY PortionsRead
  <2> HIDE DEF c, p
  <2> QED BY <2>1, <2>2
<1> HIDE DEF c, p
<1>2. PICK pairs \in Pairs(c, p) : \E o \in Orders(c, pairs) :
        \E short \in SUBSET Doubtful(p) : bs = Bands(c, o, short)
  BY DEF Divisions, c, p
<1>3. PICK o \in Orders(c, pairs) : \E short \in SUBSET Doubtful(p) : bs = Bands(c, o, short)
  BY <1>2
<1>4. PICK short \in SUBSET Doubtful(p) : bs = Bands(c, o, short)
  BY <1>3
<1>5. PICK n \in Nat : Lists(o, n, p)
  <2>1. \A i \in 1 .. Len(c) : p[i] \in Nat
    BY <1>1
  <2>2. Lists(o, Cardinality(pairs), p)
    BY <1>1, <2>1, OrdersRead
  <2>3. Cardinality(pairs) \in Nat
    BY <2>2 DEF Lists
  <2> QED BY <2>2, <2>3
<1>6. /\ Len(o) = n /\ o \in [1 .. n -> 1 .. Len(p)]
      /\ \A k \in 1 .. n : o[k] \in 1 .. Len(p)
  BY <1>5 DEF Lists
<1> DEFINE u == [k \in 1 .. n |-> p[o[k]]]
           s == Sums(Width(p, o, short))
           g == Sums(u)
<1>7. /\ n > 0 /\ g[n] = Whole /\ s[0] = 0
      /\ \A k \in 0 .. n : /\ s[k] \in Nat /\ g[k] \in Nat
                           /\ g[k] - 10 * k <= 10 * s[k] /\ 10 * s[k] <= g[k]
      /\ \A k \in 1 .. n : /\ s[k - 1] <= s[k] /\ g[k] = g[k - 1] + p[o[k]]
                           /\ p[o[k]] - 10 <= 10 * (s[k] - s[k - 1])
                           /\ 10 * (s[k] - s[k - 1]) <= p[o[k]]
  <2>1. KeepsUp(s, g, u, n)
    BY <1>1, <1>5, WidthsRead
  <2>2. \A k \in 1 .. n : u[k] = p[o[k]]
    OBVIOUS
  <2> HIDE DEF s, g, u
  <2> QED BY <2>1, <2>2 DEF KeepsUp
<1>8. /\ Len(bs) = n
      /\ \A k \in 1 .. n : /\ bs[k].value = c[o[k]].value
                           /\ bs[k].threshold = IF k = n THEN Residues ELSE s[k]
  <2>1. bs = [k \in 1 .. Len(o) |->
                [value |-> c[o[k]].value,
                 threshold |-> IF k = Len(o) THEN Residues ELSE s[k]]]
    BY <1>4, Zenon DEF Bands, Width, p
  <2> HIDE DEF s
  <2> QED BY <1>6, <2>1
<1> DEFINE T == [k \in 0 .. n |-> IF k = n THEN Residues ELSE s[k]]
<1> HIDE DEF s, g, u
<1>9. /\ T[0] = 0 /\ T[n] = Residues
      /\ \A k \in 0 .. n - 1 : T[k] = s[k] /\ k \in 0 .. n
      /\ \A k \in 1 .. n : bs[k].threshold = T[k]
  <2>1. \A k \in 0 .. n : T[k] = IF k = n THEN Residues ELSE s[k]
    OBVIOUS
  <2>2. 0 \in 0 .. n /\ n \in 0 .. n /\ n # 0 /\ s[0] = 0
    BY <1>7
  <2>3. \A k \in 0 .. n - 1 : k \in 0 .. n /\ k # n
    OBVIOUS
  <2>4. \A k \in 1 .. n : k \in 0 .. n
    OBVIOUS
  <2> HIDE DEF T
  <2> QED BY <1>8, <2>1, <2>2, <2>3, <2>4
<1> HIDE DEF T
<1>10. \A k \in 1 .. n - 1 : k - 1 \in 0 .. n - 1 /\ k \in 0 .. n - 1 /\ k \in 1 .. n
  OBVIOUS
<1>11. s[n - 1] \in Nat /\ 10 * s[n - 1] <= Whole /\ p[o[n]] \in Nat
       /\ g[n - 1] \in Nat /\ g[n - 1] + p[o[n]] = Whole
       /\ g[n - 1] - 10 * (n - 1) <= 10 * s[n - 1] /\ 10 * s[n - 1] <= g[n - 1]
  <2>1. n - 1 \in 0 .. n /\ n \in 1 .. n
    BY <1>7
  <2>2. p[o[n]] \in Nat
    BY <1>1, <1>6, <2>1
  <2>3. /\ s[n - 1] \in Nat /\ g[n - 1] \in Nat /\ g[n] = g[n - 1] + p[o[n]]
        /\ g[n - 1] - 10 * (n - 1) <= 10 * s[n - 1] /\ 10 * s[n - 1] <= g[n - 1]
    BY <1>7, <2>1
  <2>4. g[n] = Whole
    BY <1>7
  <2> DEFINE x == g[n - 1]
             y == s[n - 1]
             z == p[o[n]]
  <2>5. /\ x \in Nat /\ y \in Nat /\ z \in Nat /\ x + z = Whole /\ 10 * y <= x
        /\ x - 10 * (n - 1) <= 10 * y
    BY <2>2, <2>3, <2>4
  <2> HIDE DEF x, y, z
  <2>6. 10 * y <= Whole
    BY <2>5 DEF Whole
  <2> QED BY <2>5, <2>6 DEF x, y, z
<1>12. ASSUME NEW k \in 0 .. n - 1
       PROVE  s[k] \in Nat /\ s[k] <= s[n - 1]
  <2> DEFINE S == {j \in 0 .. n - 1 : s[j] <= s[n - 1]}
             R == {j \in 0 .. n - 1 : \A i \in 0 .. j : s[i] <= s[j]}
  <2>1. \A j \in 0 .. n - 1 : s[j] \in Nat
    BY <1>7
  <2>2. 0 \in R
    BY <1>7, <2>1
  <2>3. ASSUME NEW j \in 1 .. n - 1, j - 1 \in R
        PROVE  j \in R
    <3>1. s[j - 1] <= s[j] /\ s[j - 1] \in Nat /\ s[j] \in Nat
      BY <1>7, <1>10, <2>1
    <3>2. ASSUME NEW i \in 0 .. j
          PROVE  s[i] <= s[j]
      <4>1. CASE i = j
        BY <3>1, <4>1
      <4>2. CASE i # j
        <5>1. i \in 0 .. j - 1 /\ i \in 0 .. n - 1
          BY <4>2
        <5>2. s[i] <= s[j - 1] /\ s[i] \in Nat
          BY <2>1, <2>3, <5>1
        <5> QED BY <3>1, <5>2
      <4> QED BY <4>1, <4>2
    <3> QED BY <3>2
  <2>4. \A j \in 0 .. n - 1 : j \in R
    <3> DEFINE m == n - 1
    <3>1. m \in Nat /\ \A j \in 1 .. m : j - 1 \in R => j \in R
      BY <1>7, <2>3
    <3> SUFFICES \A j \in 0 .. m : j \in R
      OBVIOUS
    <3> HIDE DEF R, m
    <3> QED BY <2>2, <3>1, UpTo
  <2>5. n - 1 \in R
    BY <1>7, <2>4
  <2> QED BY <2>1, <2>5
<1>13. \A k \in 0 .. n : T[k] \in 0 .. Residues
  <2> SUFFICES ASSUME NEW k \in 0 .. n PROVE T[k] \in 0 .. Residues
    OBVIOUS
  <2>1. CASE k = n
    <3>1. T[k] = Residues
      BY <1>9, <2>1
    <3>2. Residues \in 0 .. Residues
      BY DEF Residues
    <3> QED BY <3>1, <3>2
  <2>2. CASE k # n
    <3>1. k \in 0 .. n - 1
      BY <2>2
    <3>2. T[k] = s[k] /\ s[k] \in Nat /\ s[k] <= s[n - 1]
      BY <1>9, <1>12, <3>1
    <3>3. s[n - 1] <= Residues /\ s[n - 1] \in Nat /\ Residues \in Nat
      BY <1>11 DEF Residues, Whole
    <3> QED BY <3>2, <3>3
  <2> QED BY <2>1, <2>2
<1>14. \A k \in 1 .. n : T[k - 1] <= T[k]
  <2> SUFFICES ASSUME NEW k \in 1 .. n PROVE T[k - 1] <= T[k]
    OBVIOUS
  <2>1. CASE k = n
    <3>1. T[k - 1] \in 0 .. Residues
      <4>1. k - 1 \in 0 .. n
        BY <1>6
      <4> QED BY <1>13, <4>1
    <3>2. T[k] = Residues
      BY <1>9, <2>1
    <3> DEFINE x == T[k - 1]
    <3>3. x \in 0 .. Residues
      BY <3>1
    <3> HIDE DEF x
    <3>4. x <= Residues
      BY <3>3, SMTT(20) DEF Residues
    <3> QED BY <3>2, <3>4 DEF x
  <2>2. CASE k # n
    <3>1. k \in 1 .. n - 1
      BY <2>2
    <3>2. T[k - 1] = s[k - 1] /\ T[k] = s[k]
      BY <1>9, <1>10, <3>1
    <3> QED BY <1>7, <3>2
  <2> QED BY <2>1, <2>2
<1>15. \A k \in 1 .. n - 1 : /\ p[o[k]] - 10 <= 10 * (T[k] - T[k - 1])
                             /\ 10 * (T[k] - T[k - 1]) <= p[o[k]]
  <2> SUFFICES ASSUME NEW k \in 1 .. n - 1
               PROVE  /\ p[o[k]] - 10 <= 10 * (T[k] - T[k - 1])
                      /\ 10 * (T[k] - T[k - 1]) <= p[o[k]]
    OBVIOUS
  <2>1. T[k - 1] = s[k - 1] /\ T[k] = s[k] /\ k \in 1 .. n
    BY <1>9, <1>10
  <2> QED BY <1>7, <2>1
<1>16. /\ p[o[n]] <= 10 * (T[n] - T[n - 1])
       /\ 10 * (T[n] - T[n - 1]) <= p[o[n]] + 10 * (n - 1)
  <2>1. T[n - 1] = s[n - 1] /\ T[n] = Residues
    BY <1>7, <1>9, SMTT(20)
  <2>2. Whole = 10 * Residues
    BY DEF Whole, Residues
  <2>3. Residues \in Nat
    BY DEF Residues
  <2> DEFINE x == g[n - 1]
             y == s[n - 1]
             z == p[o[n]]
  <2>4. /\ x \in Nat /\ y \in Nat /\ z \in Nat /\ x + z = 10 * Residues /\ 10 * y <= x
        /\ x - 10 * (n - 1) <= 10 * y
    BY <1>11, <2>2
  <2> HIDE DEF x, y, z
  <2>5. z <= 10 * (Residues - y) /\ 10 * (Residues - y) <= z + 10 * (n - 1)
    BY <2>3, <2>4
  <2> QED BY <2>1, <2>5 DEF y, z
<1>17. Meet(T, [k \in 1 .. n |-> p[o[k]]], n)
  <2> DEFINE w == [k \in 1 .. n |-> p[o[k]]]
  <2>1. \A k \in 1 .. n : w[k] = p[o[k]]
    OBVIOUS
  <2>2. (\A k \in 1 .. n - 1 : k \in 1 .. n) /\ n \in 1 .. n
    BY <1>7
  <2> HIDE DEF w
  <2>3. \A k \in 1 .. n - 1 : /\ w[k] - 10 <= 10 * (T[k] - T[k - 1])
                              /\ 10 * (T[k] - T[k - 1]) <= w[k]
    BY <1>15, <2>1, <2>2
  <2>4. /\ w[n] <= 10 * (T[n] - T[n - 1])
        /\ 10 * (T[n] - T[n - 1]) <= w[n] + 10 * (n - 1)
    BY <1>16, <2>1, <2>2
  <2>5. Meet(T, w, n)
    BY <1>9, <1>13, <1>14, <2>3, <2>4 DEF Meet
  <2> QED BY <2>5 DEF w
<1>18. Laid(bs, c, p, o, n, T)
  BY <1>5, <1>7, <1>8, <1>9, <1>17 DEF Laid
<1> QED BY <1>18 DEF p, c

\* What a value gets is the same in the order of the bands as in that of the claims.
LEMMA Regrouped ==
  ASSUME NEW p \in Seq(Int), NEW c, NEW o, NEW n, Lists(o, n, p), NEW v
  PROVE  Total([k \in 1 .. n |-> IF c[o[k]].value = v THEN p[o[k]] ELSE 0])
           = Total(AmountsFor(v, c, p))
<1> DEFINE w == [i \in 1 .. Len(p) |-> IF c[i].value = v THEN p[i] ELSE 0]
<1>1. /\ n \in Nat /\ o \in [1 .. n -> 1 .. Len(p)]
      /\ \A k, l \in 1 .. n : o[k] = o[l] => k = l
      /\ \A i \in 1 .. Len(p) : p[i] = 0 \/ \E k \in 1 .. n : o[k] = i
  BY DEF Lists
<1>2. w \in Seq(Int) /\ Len(w) = Len(p)
  <2>1. Len(p) \in Nat /\ \A i \in 1 .. Len(p) : (IF c[i].value = v THEN p[i] ELSE 0) \in Int
    OBVIOUS
  <2> QED BY <2>1
<1>3. \A i \in 1 .. Len(w) : w[i] = 0 \/ \E k \in 1 .. n : o[k] = i
  BY <1>1, <1>2
<1>4. [k \in 1 .. n |-> w[o[k]]] = [k \in 1 .. n |-> IF c[o[k]].value = v THEN p[o[k]] ELSE 0]
  BY <1>1
<1>5. Total([k \in 1 .. n |-> w[o[k]]]) = Total(w)
  <2> HIDE DEF w
  <2>1. o \in [1 .. n -> 1 .. Len(w)]
    BY <1>1, <1>2
  <2> QED BY <1>1, <1>2, <1>3, <2>1, Reordered, ZenonT(30)
<1> QED BY <1>4, <1>5 DEF AmountsFor

\* Where the rules ask for no more than there is, what the claims for a value get
\* is what its rules ask for, and for the default what is left.
LEMMA PromisedRead ==
  ASSUME NEW rules \in Seq(SplitRule), NEW default \in Int,
         Total(Asked(rules)) <= Whole, NEW v
  PROVE  LET c == Claims(rules, default)
             p == Portions(c)
             a == Asked(rules)
         IN  Total(AmountsFor(v, c, p))
               = Total(AmountsFor(v, rules, a)) + (IF v = default THEN Whole - Total(a) ELSE 0)
<1> DEFINE c == Claims(rules, default)
           p == Portions(c)
           a == Asked(rules)
           n == Len(rules)
           w == [i \in 1 .. Len(p) |-> IF c[i].value = v THEN p[i] ELSE 0]
           u == [i \in 1 .. Len(a) |-> IF rules[i].value = v THEN a[i] ELSE 0]
<1>1. /\ n \in Nat /\ \A i \in 1 .. n : c[i] = rules[i]
      /\ c[n + 1].value = default
  BY ClaimsRead
<1>2. /\ p \in Seq(Int) /\ Len(p) = n + 1
      /\ \A i \in 1 .. n : p[i] = a[i]
      /\ p[n + 1] = Whole - Total(a)
  BY PortionsRead
<1>3. a \in Seq(Int) /\ Len(a) = n
  BY AskedTyped
<1> HIDE DEF c, p, a, n
<1>4. w \in Seq(Int) /\ Len(w) = n + 1
  <2>1. Len(p) \in Nat /\ \A i \in 1 .. Len(p) : (IF c[i].value = v THEN p[i] ELSE 0) \in Int
    BY <1>2
  <2> QED BY <1>2, <2>1
<1>5. u \in Seq(Int) /\ Len(u) = n
  <2>1. \A i \in 1 .. Len(a) : (IF rules[i].value = v THEN a[i] ELSE 0) \in Int
    BY <1>3
  <2> QED BY <1>1, <1>3, <2>1
<1>6. \A i \in 1 .. n : w[i] = u[i]
  <2> SUFFICES ASSUME NEW i \in 1 .. n PROVE w[i] = u[i]
    OBVIOUS
  <2>1. i \in 1 .. Len(p) /\ i \in 1 .. Len(a)
    BY <1>1, <1>2, <1>3
  <2>2. c[i] = rules[i] /\ p[i] = a[i]
    BY <1>1, <1>2
  <2> QED BY <2>1, <2>2
<1>7. w[n + 1] = IF v = default THEN Whole - Total(a) ELSE 0
  <2>1. n + 1 \in 1 .. Len(p)
    BY <1>1, <1>2
  <2> QED BY <1>1, <1>2, <2>1
<1> HIDE DEF w, u
<1>8. Sums(w)[n] = Sums(u)[n]
  <2>1. \A i \in 0 .. n : Sums(w)[i] = Sums(u)[i]
    <3>1. n \in Nat /\ n <= Len(w) /\ n <= Len(u)
      BY <1>1, <1>4, <1>5
    <3> QED BY <1>4, <1>5, <1>6, <3>1, SumsAgree
  <2> QED BY <1>1, <2>1
<1>9. Sums(w)[n + 1] = Sums(w)[n] + w[n + 1]
  <2>1. n + 1 \in 1 .. Len(w) /\ (n + 1) - 1 = n
    BY <1>1, <1>4
  <2>2. \A i \in 1 .. Len(w) : Sums(w)[i] = Sums(w)[i - 1] + w[i]
    BY <1>4, SumsRead DEF IsSums
  <2> QED BY <2>1, <2>2
<1>10. Total(w) = Sums(w)[n + 1] /\ Total(u) = Sums(u)[n]
  BY <1>4, <1>5 DEF Total
<1>11. Total(w) = Total(u) + (IF v = default THEN Whole - Total(a) ELSE 0)
  BY <1>7, <1>8, <1>9, <1>10
<1> QED BY <1>11 DEF w, u, a, p, c, AmountsFor

\* What the hashes of bands so laid are worth.
LEMMA SharesRead ==
  ASSUME NEW c, NEW p \in Seq(Int), \A i \in 1 .. Len(p) : p[i] >= 0,
         NEW bs, NEW o, NEW n, NEW T, Laid(bs, c, p, o, n, T), NEW v
  PROVE  Close(Share(bs, v), Total(AmountsFor(v, c, p)), n - 1)
<1>1. n \in Nat /\ n > 0 /\ Len(bs) = n /\ o \in [1 .. n -> 1 .. Len(p)]
  BY DEF Laid, Lists
<1>2. /\ \A k \in 1 .. n : bs[k].threshold = T[k] /\ bs[k].value = c[o[k]].value
      /\ T[0] = 0
  BY DEF Laid, Meet
<1> DEFINE In == {k \in 1 .. n : bs[k].value = v}
           w == [k \in 1 .. n |-> p[o[k]]]
           x == [k \in 1 .. n |-> IF k \in In THEN Below(T[k]) - Below(T[k - 1]) ELSE 0]
           y == [k \in 1 .. n |-> IF k \in In THEN w[k] ELSE 0]
           from(k) == IF k = 1 THEN 0 ELSE bs[k - 1].threshold
<1>3. \A k \in 1 .. n : w[k] \in Nat /\ w[k] = p[o[k]]
  BY <1>1
<1>4. y = [k \in 1 .. n |-> IF c[o[k]].value = v THEN p[o[k]] ELSE 0]
  <2>1. \A k \in 1 .. n : (IF k \in In THEN w[k] ELSE 0)
                            = IF c[o[k]].value = v THEN p[o[k]] ELSE 0
    BY <1>2, <1>3
  <2> HIDE DEF w, In
  <2> QED BY <2>1
<1>5. Share(bs, v) = Total(x)
  <2>1. \A k \in 1 .. n : from(k) = T[k - 1]
    <3> SUFFICES ASSUME NEW k \in 1 .. n PROVE from(k) = T[k - 1]
      OBVIOUS
    <3>1. CASE k = 1
      BY <1>2, <3>1
    <3>2. CASE k # 1
      <4>1. k - 1 \in 1 .. n
        BY <1>1, <3>2
      <4> QED BY <1>2, <3>2, <4>1
    <3> QED BY <3>1, <3>2
  <2>2. \A k \in 1 .. n :
          (IF bs[k].value = v THEN Below(bs[k].threshold) - Below(from(k)) ELSE 0)
            = IF k \in In THEN Below(T[k]) - Below(T[k - 1]) ELSE 0
    BY <1>2, <2>1
  <2>3. [k \in 1 .. n |->
           IF bs[k].value = v THEN Below(bs[k].threshold) - Below(from(k)) ELSE 0] = x
    <3> HIDE DEF In, from
    <3> QED BY <2>2
  <2>4. Share(bs, v) = Total([k \in 1 .. n |->
           IF bs[k].value = v THEN Below(bs[k].threshold) - Below(from(k)) ELSE 0])
    BY <1>1 DEF Share
  <2> QED BY <2>3, <2>4
<1>6. Meet(T, w, n)
  BY DEF Laid
<1>7. Close(Total(x), Total(y), n - 1)
  <2>1. \A k \in 1 .. n : w[k] \in Nat
    BY <1>3
  <2> HIDE DEF w, In, x, y
  <2>2. Close(Total(Taken(T, n, In)), Total(Owed(w, n, In)), n - 1)
    BY <1>1, <1>6, <2>1, SharesClose
  <2>3. Taken(T, n, In) = x /\ Owed(w, n, In) = y
    BY DEF Taken, Owed, x, y
  <2> QED BY <2>2, <2>3
<1>8. Total(y) = Total(AmountsFor(v, c, p))
  <2>1. Lists(o, n, p)
    BY DEF Laid
  <2> HIDE DEF y
  <2> QED BY <1>4, <2>1, Regrouped, SMTT(20)
<1> HIDE DEF x, y
<1> QED BY <1>5, <1>7, <1>8

\* In percent: Percentage rounds down, and by less than one.
LEMMA Rounded ==
  ASSUME NEW g, NEW q, NEW m \in Nat, Close(g, q, m)
  PROVE  ((g * 3125) \div 2048) - q \in -(3771 + 10 * m) .. 3771 + 10 * m
<1>0. /\ g \in Int /\ q \in Int
      /\ 3125 * g - 2048 * q <= MostShifted + 20480 * m
      /\ 2048 * q - 3125 * g <= MostShifted + 20480 * m
  BY SMT DEF Close
<1> DEFINE d == (g * 3125) \div 2048
<1>1. d \in Int /\ 2048 * d <= 3125 * g /\ 3125 * g < 2048 * d + 2048
  BY <1>0, SMT
<1> HIDE DEF d
<1>2. 2048 * (d - q) <= 7722720 + 20480 * m
  BY <1>0, <1>1, SMT DEF MostShifted
<1>3. 2048 * (q - d) < 7722720 + 20480 * m + 2048
  BY <1>0, <1>1, SMT DEF MostShifted
<1>4. d - q <= 3771 + 10 * m
  BY <1>0, <1>1, <1>2, SMT
<1>5. q - d <= 3771 + 10 * m
  BY <1>0, <1>1, <1>3, SMT
<1>6. d - q \in -(3771 + 10 * m) .. 3771 + 10 * m
  BY <1>0, <1>1, <1>4, <1>5, SMT
<1> QED BY <1>6 DEF d

\* The thresholds of bands so laid never step back.
LEMMA NoStepBack ==
  ASSUME NEW bs, NEW c, NEW p, NEW o, NEW n, NEW T, Laid(bs, c, p, o, n, T)
  PROVE  \A k, l \in 1 .. n : k < l => bs[k].threshold <= bs[l].threshold
<1>1. /\ n \in Nat /\ \A k \in 0 .. n : T[k] \in 0 .. Residues
      /\ \A k \in 1 .. n : bs[k].threshold = T[k] /\ T[k - 1] <= T[k]
  BY DEF Laid, Lists, Meet
<1>2. \A k \in 0 .. n : T[k] \in Nat
  <2>1. Residues \in Nat
    BY DEF Residues
  <2> QED BY <1>1, <2>1
<1> DEFINE S == {l \in 0 .. n : \A k \in 0 .. n : k <= l => T[k] <= T[l]}
<1>3. 0 \in S
  BY <1>1, <1>2
<1>4. ASSUME NEW l \in 1 .. n, l - 1 \in S
      PROVE  l \in S
  <2>1. l \in 0 .. n /\ l - 1 \in 0 .. n
    BY <1>1
  <2>2. T[l] \in Nat /\ T[l - 1] \in Nat /\ T[l - 1] <= T[l]
    BY <1>1, <1>2, <2>1
  <2>3. ASSUME NEW k \in 0 .. n, k <= l
        PROVE  T[k] <= T[l]
    <3>1. CASE k = l
      BY <2>2, <3>1
    <3>2. CASE k # l
      <4>1. k <= l - 1
        BY <2>3, <3>2
      <4>2. T[k] <= T[l - 1] /\ T[k] \in Nat
        BY <1>2, <1>4, <4>1
      <4> QED BY <2>2, <4>2
    <3> QED BY <3>1, <3>2
  <2> QED BY <2>1, <2>3
<1>5. \A l \in 0 .. n : l \in S
  <2> HIDE DEF S
  <2> QED BY <1>1, <1>3, <1>4, UpTo
<1> SUFFICES ASSUME NEW k \in 1 .. n, NEW l \in 1 .. n, k < l
             PROVE  bs[k].threshold <= bs[l].threshold
  OBVIOUS
<1>6. k \in 0 .. n /\ l \in 0 .. n /\ k <= l
  BY <1>1
<1>7. T[k] <= T[l]
  BY <1>5, <1>6
<1> QED BY <1>1, <1>7

-----------------------------------------------------------------------------
\* Bands made of rules cover all hashes, never step back, and give every value
\* what its rules ask for, as far as hashes and hundredths of a percent allow.
LEMMA DivisionFair ==
  ASSUME NEW rules \in Seq(SplitRule), NEW default \in Int,
         NEW bs \in Divisions(rules, default)
  PROVE  LET n == Len(bs)
             a == Asked(rules)
         IN  /\ n > 0 /\ bs[n].threshold = Residues
             /\ \A k, l \in 1 .. n : k < l => bs[k].threshold <= bs[l].threshold
             /\ Total(a) <= Whole => \A v :
                  Percentage(Share(bs, v))
                    - (Total(AmountsFor(v, rules, a)) + (IF v = default THEN Whole - Total(a) ELSE 0))
                    \in -(3771 + 10 * (n - 1)) .. 3771 + 10 * (n - 1)
<1> DEFINE c == Claims(rules, default)
           p == Portions(c)
           a == Asked(rules)
           Due(v) == Total(AmountsFor(v, rules, a)) + (IF v = default THEN Whole - Total(a) ELSE 0)
<1>1. p \in Seq(Int) /\ \A i \in 1 .. Len(p) : p[i] >= 0
  <2>1. /\ p \in Seq(Int) /\ Len(p) = Len(rules) + 1
        /\ \A i \in 1 .. Len(rules) + 1 : p[i] >= 0
    BY PortionsRead
  <2> HIDE DEF p
  <2> QED BY <2>1
<1>2. PICK n, o, T : Laid(bs, c, p, o, n, T)
  BY BandsRead
<1> HIDE DEF c, p
<1>3. n \in Nat /\ n > 0 /\ Len(bs) = n /\ n - 1 \in Nat
  BY <1>2 DEF Laid, Lists
<1>4. bs[n].threshold = Residues
  <2>1. bs[n].threshold = T[n]
    BY <1>2, <1>3 DEF Laid
  <2>2. T[n] = Residues
    BY <1>2 DEF Laid, Meet
  <2> QED BY <2>1, <2>2
<1>5. \A k, l \in 1 .. n : k < l => bs[k].threshold <= bs[l].threshold
  BY <1>2, NoStepBack
<1>6. ASSUME Total(a) <= Whole, NEW v
      PROVE  Percentage(Share(bs, v)) - Due(v)
               \in -(3771 + 10 * (n - 1)) .. 3771 + 10 * (n - 1)
  <2>1. Close(Share(bs, v), Total(AmountsFor(v, c, p)), n - 1)
    BY <1>1, <1>2, SharesRead
  <2>2. Total(AmountsFor(v, c, p)) = Due(v)
    BY <1>6, PromisedRead DEF c, p
  <2> HIDE DEF Due
  <2>3. Close(Share(bs, v), Due(v), n - 1)
    BY <2>1, <2>2
  <2> QED BY <1>3, <2>3, Rounded DEF Percentage
<1> QED BY <1>3, <1>4, <1>5, <1>6

\* The variants of a test get what the configuration promises, whatever the rules
\* are, and however many: up to what 65536 hashes and hundredths of a percent leave
\* open, and in every order sort.Slice may put them (split.go:27-58, 67-77).
THEOREM SharesKept == GatesSpec => []SplitShares
<1>1. GatesTypeOK => SplitShares
  <2> SUFFICES ASSUME GatesTypeOK, setup.split PROVE SplitShares
    BY DEF SplitShares
  <2>1. setup.rules \in Seq(SplitRule) /\ setup.default \in Int
    BY SetupsAssumption DEF GatesTypeOK, SplitRule
  <2>2. bands \in Divisions(setup.rules, setup.default)
    BY DEF GatesTypeOK, Divided
  <2> QED BY <2>1, <2>2, DivisionFair DEF SplitShares, Promised
<1> QED BY <1>1, GatesTyped, PTL
=============================================================================
