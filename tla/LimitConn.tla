------------------------------ MODULE LimitConn ------------------------------
(***************************************************************************)
(* internal/modules/limitconn/limitconn.go: the limit_conn middleware.     *)
(*                                                                         *)
(* Every location that sets limit_conn owns a Limiter: a mutex and a map   *)
(* from client address to the number of its requests inside.  A request is *)
(* a goroutine.  Between two atomic steps of one request any step of       *)
(* another may happen, so reading the counter and writing it are separate  *)
(* actions: only the mutex keeps them together.                            *)
(*                                                                         *)
(* The Go map is counts (what indexing it yields, 0 for an absent key) and *)
(* keys (the entries that exist), for each location.                       *)
(***************************************************************************)
EXTENDS Integers, FiniteSets

CONSTANTS Requests,   \* the requests being handled at once
          Hosts,      \* client addresses without their port
          Ports,      \* ports of client addresses
          Locations,  \* the locations that set limit_conn
          Limit,      \* limit_conn, the same in every location
          NoReq       \* holder of a mutex that is unlocked

\* New (lines 16-24) makes no Limiter for a limit that is not positive.
ASSUME LimitAssumption == Limit \in Nat \ {0}
ASSUME RequestsAssumption == IsFiniteSet(Requests) /\ NoReq \notin Requests
ASSUME PlacesAssumption == Locations # {} /\ Hosts # {}

VARIABLES counts,  \* counts[l][h]: Limiter.counts of location l
          keys,    \* keys[l]: the addresses that have an entry in that map
          mu,      \* mu[l]: the request that holds Limiter.mu
          pc,      \* where each request is
          loc,     \* the location each request was routed to
          ip       \* the local variable ip of each request's handler

vars == <<counts, keys, mu, pc, loc, ip>>

Steps == {"idle", "admit", "check", "inc", "refused", "serve", "release", "dec", "purge"}

TypeOK == /\ counts \in [Locations -> [Hosts -> Int]]
          /\ keys \in [Locations -> SUBSET Hosts]
          /\ mu \in [Locations -> Requests \cup {NoReq}]
          /\ pc \in [Requests -> Steps]
          /\ loc \in [Requests -> Locations]
          /\ ip \in [Requests -> Hosts]

\* What loc and ip hold for a request that has not arrived or is over.
AnyLocation == CHOOSE l \in Locations : TRUE
AnyHost == CHOOSE h \in Hosts : TRUE

Init == /\ counts = [l \in Locations |-> [h \in Hosts |-> 0]]
        /\ keys = [l \in Locations |-> {}]
        /\ mu = [l \in Locations |-> NoReq]
        /\ pc = [r \in Requests |-> "idle"]
        /\ loc = [r \in Requests |-> AnyLocation]
        /\ ip = [r \in Requests |-> AnyHost]

-----------------------------------------------------------------------------
Goto(r, from, to) == /\ pc[r] = from
                     /\ pc' = [pc EXCEPT ![r] = to]

Acquire(r) == /\ mu[loc[r]] = NoReq
              /\ mu' = [mu EXCEPT ![loc[r]] = r]

Unlock(r) == mu' = [mu EXCEPT ![loc[r]] = NoReq]

\* The handler is over, and its local variables with it.
Finish(r) == /\ loc' = [loc EXCEPT ![r] = AnyLocation]
             /\ ip' = [ip EXCEPT ![r] = AnyHost]

ExtractIP_Whole(remoteAddr) == remoteAddr

\* extractIP drops the port of r.RemoteAddr.
ExtractIP(remoteAddr) == remoteAddr.host

\* A request reaches the middleware of location l (line 31).
Arrive(r, l, a) ==
  /\ Goto(r, "idle", "admit")
  /\ loc' = [loc EXCEPT ![r] = l]
  /\ ip' = [ip EXCEPT ![r] = ExtractIP(a)]
  /\ UNCHANGED <<counts, keys, mu>>

\* l.mu.Lock() before the test (line 33).
LockAdmit(r) ==
  /\ Goto(r, "admit", "check")
  /\ Acquire(r)
  /\ UNCHANGED <<counts, keys, loc, ip>>

Refuse_KeepLock(r) ==
  /\ Goto(r, "check", "refused")
  /\ counts[loc[r]][ip[r]] >= Limit
  /\ UNCHANGED <<counts, keys, mu, loc, ip>>

\* The share is taken up: unlock and answer 503 (lines 34-38).
Refuse(r) ==
  /\ Goto(r, "check", "refused")
  /\ counts[loc[r]][ip[r]] >= Limit
  /\ Unlock(r)
  /\ UNCHANGED <<counts, keys, loc, ip>>

Pass_OneTooMany(r) ==
  /\ Goto(r, "check", "inc")
  /\ counts[loc[r]][ip[r]] <= Limit
  /\ UNCHANGED <<counts, keys, mu, loc, ip>>

\* The test of line 34 fails; the mutex stays locked.
Pass(r) ==
  /\ Goto(r, "check", "inc")
  /\ counts[loc[r]][ip[r]] < Limit
  /\ UNCHANGED <<counts, keys, mu, loc, ip>>

\* l.counts[ip]++ and the unlock (lines 39-40).
Increment(r) ==
  /\ Goto(r, "inc", "serve")
  /\ counts' = [counts EXCEPT ![loc[r]][ip[r]] = @ + 1]
  /\ keys' = [keys EXCEPT ![loc[r]] = @ \cup {ip[r]}]
  /\ Unlock(r)
  /\ UNCHANGED <<loc, ip>>

Return_LosesPanic(r) ==
  /\ \/ Goto(r, "serve", "release")
     \/ Goto(r, "serve", "idle")
  /\ UNCHANGED <<counts, keys, mu, loc, ip>>

\* next.ServeHTTP returns or panics (line 51): the deferred function runs
\* either way (line 42).
Return(r) ==
  /\ Goto(r, "serve", "release")
  /\ UNCHANGED <<counts, keys, mu, loc, ip>>

\* l.mu.Lock() in the deferred function (line 43).
LockRelease(r) ==
  /\ Goto(r, "release", "dec")
  /\ Acquire(r)
  /\ UNCHANGED <<counts, keys, loc, ip>>

\* l.counts[ip]-- (line 44); indexing the map creates a missing entry.
Decrement(r) ==
  /\ Goto(r, "dec", "purge")
  /\ counts' = [counts EXCEPT ![loc[r]][ip[r]] = @ - 1]
  /\ keys' = [keys EXCEPT ![loc[r]] = @ \cup {ip[r]}]
  /\ UNCHANGED <<mu, loc, ip>>

Purge_OffByOne(r) ==
  /\ Goto(r, "purge", "idle")
  /\ IF counts[loc[r]][ip[r]] <= 1
     THEN /\ counts' = [counts EXCEPT ![loc[r]][ip[r]] = 0]
          /\ keys' = [keys EXCEPT ![loc[r]] = @ \ {ip[r]}]
     ELSE UNCHANGED <<counts, keys>>
  /\ Unlock(r)
  /\ Finish(r)

Purge_Never(r) ==
  /\ Goto(r, "purge", "idle")
  /\ Unlock(r)
  /\ Finish(r)
  /\ UNCHANGED <<counts, keys>>

\* An entry that reached zero is deleted, then the unlock (lines 45-48).
Purge(r) ==
  /\ Goto(r, "purge", "idle")
  /\ IF counts[loc[r]][ip[r]] <= 0
     THEN /\ counts' = [counts EXCEPT ![loc[r]][ip[r]] = 0]
          /\ keys' = [keys EXCEPT ![loc[r]] = @ \ {ip[r]}]
     ELSE UNCHANGED <<counts, keys>>
  /\ Unlock(r)
  /\ Finish(r)

\* The 503 has been written (lines 36-37).
Reply(r) ==
  /\ Goto(r, "refused", "idle")
  /\ Finish(r)
  /\ UNCHANGED <<counts, keys, mu>>

Handle(r) == \/ Refuse(r) \/ Pass(r) \/ Increment(r)
             \/ Decrement(r) \/ Purge(r) \/ Reply(r)

RemoteAddrs == [host : Hosts, port : Ports]

Next == \E r \in Requests :
           \/ \E l \in Locations, a \in RemoteAddrs : Arrive(r, l, a)
           \/ LockAdmit(r)
           \/ Return(r)
           \/ LockRelease(r)
           \/ Handle(r)

\* The Go scheduler runs every goroutine that can run.  A sync.Mutex hands
\* itself to a goroutine that has waited for 1 ms, so no waiter starves: strong
\* fairness of the two Lock calls.  Nothing obliges next.ServeHTTP to return.
Fairness == \A r \in Requests : /\ WF_vars(Handle(r))
                                /\ SF_vars(LockAdmit(r))
                                /\ SF_vars(LockRelease(r))

Spec == Init /\ [][Next]_vars
FairSpec == Spec /\ Fairness

-----------------------------------------------------------------------------
\* Between line 33 and line 40, or between line 43 and line 48.
InCritical(r) == pc[r] \in {"check", "inc", "dec", "purge"}

\* The requests that location l counts for client h.
Holders(l, h) == {r \in Requests : /\ loc[r] = l
                                   /\ ip[r] = h
                                   /\ pc[r] \in {"serve", "release", "dec"}}

\* limit_conn at work: whatever the interleaving of arrivals, departures and
\* panics, never more than Limit requests of one client are inside a location.
LimitHolds == \A l \in Locations, h \in Hosts : Cardinality(Holders(l, h)) <= Limit

\* The counter never drifts from the requests it stands for, so no sequence of
\* requests, refusals and panics locks a client out or lets one too many in.
CountExact == \A l \in Locations, h \in Hosts : counts[l][h] = Cardinality(Holders(l, h))

\* The map does not grow with the clients that were ever seen: whenever its
\* mutex is free it has an entry exactly for the clients with a request inside.
NoStaleEntries ==
  \A l \in Locations : mu[l] = NoReq => keys[l] = {h \in Hosts : Holders(l, h) # {}}

\* The mutex at work: a request between Lock and Unlock is the holder.
MutexHeld ==
  /\ \A r \in Requests : InCritical(r) => mu[loc[r]] = r
  /\ \A l \in Locations : mu[l] # NoReq => InCritical(mu[l]) /\ loc[mu[l]] = l

\* The test of line 34 still holds when line 39 increments.
RoomKept == \A r \in Requests : pc[r] = "inc" => counts[loc[r]][ip[r]] < Limit

\* The requests that keep the entry of client h in the map of location l.
Keepers(l, h) == {r \in Requests : /\ loc[r] = l
                                   /\ ip[r] = h
                                   /\ pc[r] \in {"serve", "release", "dec", "purge"}}
EntriesExact == \A l \in Locations, h \in Hosts : h \in keys[l] <=> Keepers(l, h) # {}

\* The inductive invariant behind the three properties above.
IInv == TypeOK /\ MutexHeld /\ CountExact /\ RoomKept /\ LimitHolds /\ EntriesExact

\* Every request that reaches the limiter is answered or let in, and every one
\* that ended gives its place back, however many others keep arriving and compete
\* for the mutex, and even if handlers never return (limitconn.go:33-51).
Answered ==
  \A r \in Requests : /\ pc[r] = "admit" ~> pc[r] \in {"refused", "serve"}
                     /\ pc[r] = "release" ~> pc[r] = "idle"

\* The code implements the abstract limiter: admission takes effect at the
\* increment, departure at the decrement, refusal at the failed test.
Limiter == INSTANCE ConnLimit WITH
  Zones <- Locations \X Hosts,
  inside <- [z \in Locations \X Hosts |-> Holders(z[1], z[2])],
  refused <- {r \in Requests : pc[r] = "refused"}
ImplementsConnLimit == Limiter!Spec
=============================================================================
