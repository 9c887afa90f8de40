-------------------------------- MODULE Gates --------------------------------
(***************************************************************************)
(* internal/modules/chain.go: the gates a request passes before a handler  *)
(* sees it, in the order BuildChain puts them: basicauth, split, map,      *)
(* realip, limit_conn, client_max_body_size, access, rate_limit.           *)
(*                                                                         *)
(* The rate limiter is RateLimit, step by step.  limit_conn is ConnLimit,  *)
(* which LimitConn implements.  The gates before the rate limiter touch    *)
(* nothing but the request, so that a request comes to the first gate that *)
(* stops it in one step.  A remote address is a host and a port, and a     *)
(* host is one IP address.                                                 *)
(***************************************************************************)
EXTENDS RateLimit, SplitClients, FiniteSetsExt

CONSTANTS Hosts,      \* the IP addresses of clients
          V6,         \* those that are IPv6
          NoHost,     \* an empty header, or one that holds no IP address
          Elsewhere,  \* another IPv6 address
          Setups,     \* the configurations of the modules, with their traffic
          Limit,      \* modules.limit_conn.connections
          Kilo,       \* scaled down: what "k" multiplies by, in place of 1024
          MaxInt,     \* scaled down: the largest int64
          NoRequest   \* the caller stands for no request now

ASSUME HostsAssumption == V6 \subseteq Hosts /\ NoHost \notin Hosts /\ Elsewhere \notin Hosts
\* Keys has room for every address a request of a configuration may come from,
\* or be taken to come from.
ASSUME SetupsAssumption ==
  /\ \A h \in Hosts : [host |-> h, port |-> 0] \in Keys
  /\ \A s \in Setups :
       /\ s.rate \in Settings
       /\ s.size.number \in Nat
       /\ s.rules \in Seq([percent : Int, value : Int]) /\ s.default \in Int
       /\ s.map.default \in Hosts \cup {NoHost}
       /\ s.map.rules \in Seq([on : SUBSET Hosts, value : Hosts \cup {NoHost}])
       /\ \A t \in s.traffic : /\ [host |-> t.host, port |-> t.port] \in Keys
                              /\ t.forwarded \in Seq(Hosts \cup {NoHost})
                              /\ t.body \in Nat
ASSUME LimitAssumption == Limit \in Nat \ {0}
ASSUME ScaleAssumption == Kilo \in Nat \ {0} /\ MaxInt \in Nat \ {0}

VARIABLES setup,    \* cfg.Modules of this behaviour, and what may be asked of it
          bands,    \* the bands of its split, as New made them
          req,      \* req[c]: the request, as it came over the connection
          addr,     \* addr[c]: r.RemoteAddr once it is past realip
          stage,    \* stage[c]: where the request is
          got,      \* got[c]: what the handler could read of its body
          inside,   \* ConnLimit: who is inside each zone
          refused   \* ConnLimit: who was refused and is not yet answered

gateVars == <<setup, bands, req, addr, stage, got, inside, refused>>
gatesVars == <<vars, gateVars>>

\* What limit_conn tells clients apart by: an IP address, in brackets or not.
Zones == [host : Hosts, bracketed : BOOLEAN]

LC == INSTANCE ConnLimit WITH Requests <- Callers

\* What split.New may have made of the rules of configuration s.
Divided(s) == IF s.split THEN Divisions(s.rules, s.default) ELSE {<<>>}

GatesTypeOK ==
  /\ TypeOK
  /\ LC!TypeOK
  /\ setup \in Setups
  /\ bands \in Divided(setup)
  /\ req \in [Callers -> setup.traffic \cup {NoRequest}]
  /\ addr \in [Callers -> Keys]
  /\ stage \in [Callers -> {"out", "answered", "refused", "limiter", "handler"}]
  /\ got \in [Callers -> Nat]

-----------------------------------------------------------------------------
\* What follows from the first letter of kKmMgG on (config.go:259-266).
Multiplier(suffix) ==
  CASE suffix \in {"k", "kb"} -> Kilo
    [] suffix \in {"m", "mb"} -> Kilo * Kilo
    [] suffix \in {"g", "gb"} -> Kilo * Kilo * Kilo
    [] OTHER -> 1

\* ParseSize: what is before the suffix may be no number, which ParseInt makes
\* 0, or too large, which it makes the largest; the product wraps.
ParseSize(s) ==
  LET number == IF ~s.parses THEN 0 ELSE IF s.number > MaxInt THEN MaxInt ELSE s.number
      range  == 2 * (MaxInt + 1)
  IN  ((number * Multiplier(s.suffix) + MaxInt + 1) % range) - (MaxInt + 1)

MaxBody == ParseSize(setup.size)

TooLarge_OffByOne(t) == MaxBody > 0 /\ t.declared /\ t.body >= MaxBody

\* bodylimit: a declared length above the limit is answered 413, and 0 or less
\* is no limit.
TooLarge(t) == MaxBody > 0 /\ t.declared /\ t.body > MaxBody

\* http.MaxBytesReader: the handler gets no more than that, declared or not.
Readable(t) == IF MaxBody > 0 /\ t.body > MaxBody THEN MaxBody ELSE t.body

-----------------------------------------------------------------------------
First(S, none, F(_)) == IF S = {} THEN none ELSE F(Min(S))

\* mapmodule: the first rule that matches the remote address, or the default.
MapResult(t) ==
  First({i \in 1 .. Len(setup.map.rules) : t.host \in setup.map.rules[i].on},
        setup.map.default, LAMBDA i : setup.map.rules[i].value)

Chain_RealIPLate == <<"auth", "split", "map", "conn", "realip", "body", "access", "rate">>

Chain_AccessLate == <<"auth", "split", "map", "realip", "conn", "body", "rate", "access">>

\* BuildChain, from the outermost gate inwards.
Chain == <<"auth", "split", "map", "realip", "conn", "body", "access", "rate">>

Before(g, h) == \E i, j \in 1 .. Len(Chain) : i < j /\ Chain[i] = g /\ Chain[j] = h

\* The headers realip looks at, where the map may have set one of them.
Forwarded(t) ==
  IF setup.map.slot # 0 /\ setup.map.rules # <<>> /\ Before("map", "realip")
  THEN [t.forwarded EXCEPT ![setup.map.slot] = MapResult(t)]
  ELSE t.forwarded

Connection(t) == [host |-> t.host, port |-> t.port]

\* realip: the first header with an IP address in it replaces RemoteAddr.
RealIP(t) ==
  IF ~setup.realip THEN Connection(t)
  ELSE First({i \in 1 .. Len(Forwarded(t)) : Forwarded(t)[i] # NoHost},
             Connection(t), LAMBDA i : [host |-> Forwarded(t)[i], port |-> 0])

\* r.RemoteAddr as gate g finds it.
AddrAt(g, t) == IF Before("realip", g) THEN RealIP(t) ELSE Connection(t)

\* parseIP: realip writes an IPv6 address without brackets, and with ":0" behind
\* it net.ParseIP reads another one.
Seen(a) == IF a.port = 0 /\ a.host \in V6 THEN Elsewhere ELSE a.host

\* access: the first rule with a network that contains the address, and in a
\* rule allow before deny; without any the request may pass.
Denied(h) ==
  First({i \in 1 .. Len(setup.access) : h \in setup.access[i].allow \cup setup.access[i].deny},
        FALSE, LAMBDA i : h \notin setup.access[i].allow)

Stops(g, t) ==
  \/ g = "auth" /\ setup.auth /\ ~t.authorised
  \/ g = "body" /\ TooLarge(t)
  \/ g = "access" /\ Denied(Seen(AddrAt("access", t)))

\* The gate that answers t without looking at any other request, if one does.
Verdict(t) ==
  First({i \in 1 .. Len(Chain) : Stops(Chain[i], t)}, "none", LAMBDA i : Chain[i])

-----------------------------------------------------------------------------
GatesInit ==
  /\ Init
  /\ setup \in Setups
  /\ refill = Rate(setup.rate) /\ size = Burst(setup.rate) * Unit
  /\ bands \in Divided(setup)
  /\ LC!Init
  /\ req = [c \in Callers |-> NoRequest]
  /\ addr = [c \in Callers |-> AnyKey]
  /\ stage = [c \in Callers |-> "out"]
  /\ got = [c \in Callers |-> 0]

MoveTo(c, from, to) == stage[c] = from /\ stage' = [stage EXCEPT ![c] = to]

\* What a request leaves behind on its way to the gate that stops it.
Start(c, t) ==
  /\ req' = [req EXCEPT ![c] = t]
  /\ addr' = [addr EXCEPT ![c] =
                IF Verdict(t) # "none" /\ Before(Verdict(t), "realip")
                THEN Connection(t) ELSE RealIP(t)]
  /\ UNCHANGED <<setup, bands, got>>

\* extractIP, of limit_conn: what is before the last colon, and with it the
\* brackets of an IPv6 address, which realip does not write.
ExtractIP(a) == [host |-> a.host, bracketed |-> a.host \in V6 /\ a.port # 0]

Zone(t) == ExtractIP(AddrAt("conn", t))

\* limit_conn lets it in, where it is configured.
Place(c, t) ==
  IF setup.limited THEN LC!Admit(c, Zone(t)) ELSE UNCHANGED <<inside, refused>>

\* A gate answers the request: before it has a place (401), or while it holds
\* one (413, 403).
ComeInVain(c, t) ==
  /\ MoveTo(c, "out", "answered")
  /\ Start(c, t)
  /\ Verdict(t) # "none" /\ Before(Verdict(t), "rate")
  /\ IF Before(Verdict(t), "conn") THEN UNCHANGED <<inside, refused>> ELSE Place(c, t)
  /\ UNCHANGED vars

\* limit_conn refuses it: 503.
ComeTooMany(c, t) ==
  /\ MoveTo(c, "out", "refused")
  /\ Start(c, t)
  /\ Verdict(t) = "none" \/ Before("conn", Verdict(t))
  /\ setup.limited /\ LC!Refuse(c, Zone(t))
  /\ UNCHANGED vars

\* It comes to the rate limiter.
Come(c, t) ==
  /\ MoveTo(c, "out", "limiter")
  /\ Start(c, t)
  /\ Verdict(t) = "none" \/ Before("rate", Verdict(t))
  /\ Place(c, t)
  /\ Arrive(c, AddrAt("rate", t))

\* A step inside the rate limiter that does not end there.
Inside(c) ==
  /\ Lock(c) \/ Found(c) \/ Create(c) \/ ReadClock(c)
  /\ UNCHANGED gateVars

\* The handler is called, and may read the body; or a gate behind answers.
Pass(c) ==
  /\ Admit(c)
  /\ IF Verdict(req[c]) = "none"
     THEN /\ MoveTo(c, "limiter", "handler")
          /\ got' = [got EXCEPT ![c] = Readable(req[c])]
     ELSE MoveTo(c, "limiter", "answered") /\ UNCHANGED got
  /\ UNCHANGED <<setup, bands, req, addr, inside, refused>>

\* The rate limiter refuses: 429.
Reject(c) ==
  /\ Refuse(c)
  /\ MoveTo(c, "limiter", "answered")
  /\ UNCHANGED <<setup, bands, req, addr, got, inside, refused>>

\* The handlers return, limit_conn gets its place back, and the access log is
\* written.
Return(c) ==
  /\ stage[c] \in {"answered", "refused", "handler"}
  /\ stage' = [stage EXCEPT ![c] = "out"]
  /\ req' = [req EXCEPT ![c] = NoRequest]
  /\ addr' = [addr EXCEPT ![c] = AnyKey]
  /\ got' = [got EXCEPT ![c] = 0]
  /\ \/ stage[c] = "refused" /\ LC!Answer(c)
     \/ \E z \in Zones : LC!Leave(c, z)
     \/ c \notin LC!Busy /\ UNCHANGED <<inside, refused>>
  /\ UNCHANGED <<vars, setup, bands>>

GatesNext ==
  \/ \E c \in Callers :
       \/ \E t \in setup.traffic : ComeInVain(c, t) \/ ComeTooMany(c, t) \/ Come(c, t)
       \/ Inside(c) \/ Pass(c) \/ Reject(c) \/ Return(c)
  \/ Tick /\ UNCHANGED gateVars

\* Fair as RateLimit is; what the handlers do is not.
GatesSpec == GatesInit /\ [][GatesNext]_gatesVars /\ Fairness

-----------------------------------------------------------------------------
\* Each gate judges a request by the address realip found, or else by that of
\* its connection, and none by both (chain.go:36-66): the bucket it is charged
\* to is that whole address, its place is in the zone of that host, and it is
\* what access has let through.  A client with a header is the same to all of
\* them, on whichever connections he comes, except that access misreads a
\* forwarded IPv6 address (Seen) and limit_conn knows it apart from the direct
\* one (ExtractIP).  Without a header limit_conn counts a client, and rate_limit
\* a connection.
OneIdentity ==
  \A c \in Callers :
    /\ \A z \in Zones : c \in inside[z] => z = ExtractIP(addr[c])
    /\ stage[c] = "limiter" => key[c] = addr[c]
    /\ stage[c] \in {"limiter", "handler"} =>
         addr[c] = RealIP(req[c]) /\ ~Denied(Seen(addr[c]))

\* A token is taken, and a bucket made, only for a request that no other gate
\* refuses: who sends bodies that are too large, wrong passwords or what access
\* denies does not use up the rate of his address (chain.go:40-58).
NothingSpent == \A c \in Callers : stage[c] = "limiter" => Verdict(req[c]) = "none"

\* The size an operator writes down, where it is a number with a known unit
\* that fits, and the bytes it stands for.
Meant ==
  setup.size.number * (CASE setup.size.suffix = "" -> 1
                         [] setup.size.suffix \in {"k", "kb"} -> Kilo
                         [] setup.size.suffix \in {"m", "mb"} -> Kilo * Kilo
                         [] OTHER -> Kilo * Kilo * Kilo)

Written ==
  /\ setup.size.parses /\ setup.size.number > 0
  /\ setup.size.suffix \in {"", "k", "kb", "m", "mb", "g", "gb"}
  /\ Meant <= MaxInt

\* client_max_body_size is in force as written: no handler reads more, with a
\* Content-Length or without, and 413 is the answer to nothing that fits
\* (config.go:249-271, bodylimit.go:14-20).
BodyLimited ==
  Written =>
    /\ MaxBody = Meant
    /\ \A c \in Callers :
         /\ got[c] <= Meant
         /\ stage[c] = "answered" /\ Verdict(req[c]) = "body" => req[c].body > Meant

\* Of the amounts that go to some rules, those that go to variant v.
AmountsFor(v, rules, amounts) ==
  [i \in 1 .. Len(amounts) |-> IF rules[i].value = v THEN amounts[i] ELSE 0]

\* What the rules of a split promise to variant v, in thousandths of a percent.
Promised(v) ==
  LET asked == Asked(setup.rules)
  IN  Total(AmountsFor(v, setup.rules, asked))
        + (IF v = setup.default THEN Whole - Total(asked) ELSE 0)

\* A number of hashes in thousandths of a percent (Whole / Hashes is 3125 / 2048).
Percentage(n) == (n * 3125) \div 2048

\* Every hash finds a variant, and no threshold steps back behind the one before:
\* no matter what the rules claim, and where their percentages are rounded.  If
\* they claim no more than everything, each variant gets its percentage, up to
\* the 3.8 points that the reduction of the hash shifts, and for each band but
\* one the hundredth of a point its threshold may be short of (split.go:33-77).
SplitShares ==
  setup.split =>
    LET n == Len(bands)
    IN  /\ n > 0 /\ bands[n].threshold = Residues
        /\ \A k, l \in 1 .. n : k < l => bands[k].threshold <= bands[l].threshold
        /\ Total(Asked(setup.rules)) <= Whole =>
             \A v \in {setup.default} \cup {setup.rules[i].value : i \in 1 .. Len(setup.rules)} :
               Percentage(Share(bands, v)) - Promised(v)
                 \in -(3771 + 10 * (n - 1)) .. 3771 + 10 * (n - 1)
=============================================================================
