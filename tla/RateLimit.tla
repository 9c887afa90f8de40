------------------------------ MODULE RateLimit ------------------------------
(***************************************************************************)
(* internal/modules/ratelimit/ratelimit.go: the rate_limit middleware.     *)
(*                                                                         *)
(* A Limiter maps the remote address of a connection to a token bucket.    *)
(* The map is guarded by an RWMutex and read twice (getBucket), a bucket   *)
(* by a mutex of its own (allow).  A caller is the goroutine of a request. *)
(* Buckets are objects: getBucket returns a pointer, here an index of tb,  *)
(* and the lock of the map is free again before the bucket is used.        *)
(*                                                                         *)
(* Tokens are counted in sixtieths and the clock in seconds, so that the   *)
(* rates "N/s" and "N/m" are integers.  The code's float64 is exact on the *)
(* values this gives; clock readings within a second fall together.        *)
(***************************************************************************)
EXTENDS Integers, Sequences

CONSTANTS Callers,   \* the requests being handled at once
          Keys,      \* remote addresses: one per connection, port included
          Settings,  \* the pairs of rate and burst a location may set
          MaxTime,   \* bound: the last second of the clock
          NoCaller   \* holder of a mutex that is unlocked

ASSUME CallersAssumption == NoCaller \notin Callers
ASSUME KeysAssumption == Keys # {}
ASSUME SettingsAssumption ==
  Settings \subseteq [number : Nat, unit : {"s", "m", "none"}, short : BOOLEAN, burst : Int]
ASSUME TimeAssumption == MaxTime \in Nat

VARIABLES now,       \* the monotonic clock
          refill,    \* Limiter.rate, in sixtieths of a token per second
          size,      \* Limiter.burst, in sixtieths of a token
          mu,        \* the caller that holds Limiter.mu for writing
          buckets,   \* Limiter.buckets: an index of tb, 0 for an absent key
          tb,        \* the tokenBucket objects, in the order of creation
          pc,        \* where each caller is
          key,       \* r.RemoteAddr of each caller
          mine,      \* the bucket getBucket returned to each caller
          clock,     \* the local variable now of allow
          admitted   \* history: the clock readings of the requests let through

limiter == <<refill, size>>
vars == <<now, refill, size, mu, buckets, tb, pc, key, mine, clock, admitted>>

Unit == 60

Steps == {"idle", "lookup", "lock", "recheck", "enter", "read", "settle"}

Bucket == [tokens : Int, last : Nat, holder : Callers \cup {NoCaller}]

TypeOK == /\ now \in 0 .. MaxTime
          /\ refill \in Nat \ {0} /\ size \in Nat
          /\ mu \in Callers \cup {NoCaller}
          /\ tb \in Seq(Bucket)
          /\ buckets \in [Keys -> 0 .. Len(tb)]
          /\ pc \in [Callers -> Steps]
          /\ key \in [Callers -> Keys]
          /\ mine \in [Callers -> 0 .. Len(tb)]
          /\ clock \in [Callers -> 0 .. MaxTime]
          /\ admitted \in [Keys -> Seq(Nat)]

-----------------------------------------------------------------------------
Rate_NoDefault(s) ==
  IF s.short THEN 0 ELSE IF s.unit = "m" THEN s.number ELSE s.number * Unit

\* New: the unit is the last character of a rate of at least two; every other
\* rate of two characters is per second, shorter ones and 0 are the default.
Rate(s) ==
  LET r == IF s.short THEN 0 ELSE IF s.unit = "m" THEN s.number ELSE s.number * Unit
  IN  IF r <= 0 THEN 10 * Unit ELSE r

\* New: int(r) drops the fraction of a token, so that the default burst of a
\* rate below one token per second is none.
Burst(s) == IF s.burst <= 0 THEN Rate(s) \div Unit ELSE s.burst

NewBucket(t) == [tokens |-> size, last |-> t, holder |-> NoCaller]

AnyKey == CHOOSE k \in Keys : TRUE

Init == /\ now = 0
        /\ \E s \in Settings : refill = Rate(s) /\ size = Burst(s) * Unit
        /\ mu = NoCaller
        /\ buckets = [k \in Keys |-> 0]
        /\ tb = <<>>
        /\ pc = [c \in Callers |-> "idle"]
        /\ key = [c \in Callers |-> AnyKey]
        /\ mine = [c \in Callers |-> 0]
        /\ clock = [c \in Callers |-> 0]
        /\ admitted = [k \in Keys |-> <<>>]

Goto(c, from, to) == /\ pc[c] = from
                     /\ pc' = [pc EXCEPT ![c] = to]

\* A request of connection k reaches the middleware (lines 92-94).
Arrive(c, k) ==
  /\ Goto(c, "idle", "lookup")
  /\ key' = [key EXCEPT ![c] = k]
  /\ UNCHANGED <<now, limiter, mu, buckets, tb, mine, clock, admitted>>

\* getBucket, under the read lock: the map has the key.
Hit(c) ==
  /\ Goto(c, "lookup", "enter")
  /\ mu = NoCaller
  /\ buckets[key[c]] # 0
  /\ mine' = [mine EXCEPT ![c] = buckets[key[c]]]
  /\ UNCHANGED <<now, limiter, mu, buckets, tb, key, clock, admitted>>

\* getBucket, under the read lock: it has not; the read lock is given back.
Miss(c) ==
  /\ Goto(c, "lookup", "lock")
  /\ mu = NoCaller
  /\ buckets[key[c]] = 0
  /\ UNCHANGED <<now, limiter, mu, buckets, tb, key, mine, clock, admitted>>

\* l.mu.Lock()
LockMap(c) ==
  /\ Goto(c, "lock", "recheck")
  /\ mu = NoCaller
  /\ mu' = c
  /\ UNCHANGED <<now, limiter, buckets, tb, key, mine, clock, admitted>>

Found_KeepsLock(c) ==
  /\ Goto(c, "recheck", "enter")
  /\ buckets[key[c]] # 0
  /\ mine' = [mine EXCEPT ![c] = buckets[key[c]]]
  /\ UNCHANGED <<now, limiter, mu, buckets, tb, key, clock, admitted>>

\* Another caller has made the bucket meanwhile: return it and unlock.
Found(c) ==
  /\ Goto(c, "recheck", "enter")
  /\ buckets[key[c]] # 0
  /\ mine' = [mine EXCEPT ![c] = buckets[key[c]]]
  /\ mu' = NoCaller
  /\ UNCHANGED <<now, limiter, buckets, tb, key, clock, admitted>>

Create_Unchecked(c) ==
  /\ Goto(c, "recheck", "enter")
  /\ tb' = Append(tb, NewBucket(now))
  /\ mine' = [mine EXCEPT ![c] = Len(tb')]
  /\ buckets' = [buckets EXCEPT ![key[c]] = Len(tb')]
  /\ mu' = NoCaller
  /\ UNCHANGED <<now, limiter, key, clock, admitted>>

\* Make a full bucket, enter it into the map and unlock.
Create(c) ==
  /\ Goto(c, "recheck", "enter")
  /\ buckets[key[c]] = 0
  /\ tb' = Append(tb, NewBucket(now))
  /\ mine' = [mine EXCEPT ![c] = Len(tb')]
  /\ buckets' = [buckets EXCEPT ![key[c]] = Len(tb')]
  /\ mu' = NoCaller
  /\ UNCHANGED <<now, limiter, key, clock, admitted>>

\* tb.mu.Lock() in allow.
Enter(c) ==
  /\ Goto(c, "enter", "read")
  /\ tb[mine[c]].holder = NoCaller
  /\ tb' = [tb EXCEPT ![mine[c]].holder = c]
  /\ UNCHANGED <<now, limiter, mu, buckets, key, mine, clock, admitted>>

\* now := time.Now()
ReadClock(c) ==
  /\ Goto(c, "read", "settle")
  /\ clock' = [clock EXCEPT ![c] = now]
  /\ UNCHANGED <<now, limiter, mu, buckets, tb, key, mine, admitted>>

Level_Uncapped(c) ==
  tb[mine[c]].tokens + (clock[c] - tb[mine[c]].last) * refill

\* What the bucket holds once refilled up to the reading of the clock.
Level(c) ==
  LET filled == tb[mine[c]].tokens + (clock[c] - tb[mine[c]].last) * refill
  IN  IF filled > size THEN size ELSE filled

\* Store tokens and lastRefill and unlock the bucket; the locals are dropped.
Leave(c, tokens) ==
  /\ tb' = [tb EXCEPT ![mine[c]] = [tokens |-> tokens, last |-> clock[c], holder |-> NoCaller]]
  /\ mine' = [mine EXCEPT ![c] = 0]
  /\ clock' = [clock EXCEPT ![c] = 0]
  /\ key' = [key EXCEPT ![c] = AnyKey]

\* A token is there: take it, and the request goes on to the next handler.
Admit(c) ==
  /\ Goto(c, "settle", "idle")
  /\ Level(c) >= Unit
  /\ Leave(c, Level(c) - Unit)
  /\ admitted' = [admitted EXCEPT ![key[c]] = Append(@, clock[c])]
  /\ UNCHANGED <<now, limiter, mu, buckets>>

Refuse_Charged(c) ==
  /\ Goto(c, "settle", "idle")
  /\ Level(c) < Unit
  /\ Leave(c, Level(c) - Unit)
  /\ UNCHANGED <<now, limiter, mu, buckets, admitted>>

\* There is none: 429.
Refuse(c) ==
  /\ Goto(c, "settle", "idle")
  /\ Level(c) < Unit
  /\ Leave(c, Level(c))
  /\ UNCHANGED <<now, limiter, mu, buckets, admitted>>

Tick == /\ now < MaxTime
        /\ now' = now + 1
        /\ UNCHANGED <<limiter, mu, buckets, tb, pc, key, mine, clock, admitted>>

\* The steps that wait for a lock.
Lock(c) == Hit(c) \/ Miss(c) \/ LockMap(c) \/ Enter(c)

Handle(c) == Found(c) \/ Create(c) \/ ReadClock(c) \/ Admit(c) \/ Refuse(c)

Next == \/ Tick
        \/ \E c \in Callers : \/ \E k \in Keys : Arrive(c, k)
                              \/ Lock(c)
                              \/ Handle(c)

Spec == Init /\ [][Next]_vars

\* Goroutines are scheduled, and sync.Mutex and sync.RWMutex let nobody wait
\* for ever while they are given back again and again.
Fairness == \A c \in Callers : SF_vars(Lock(c)) /\ WF_vars(Handle(c))

FairSpec == Spec /\ Fairness

-----------------------------------------------------------------------------
\* All callers of a connection share one bucket: nobody works on a bucket the
\* map no longer has, which getBucket's second look ensures.
OneBucket == \A c \in Callers : mine[c] # 0 => mine[c] = buckets[key[c]]

\* Any window of time sees at most a full bucket and what flows in meanwhile
\* go through to one remote address, however the callers interleave and however
\* long it was idle.  An address is a host with a port (line 94), and the bound
\* is one of each connection: a client who opens n of them gets n times as much,
\* although docs/configuration.md:169 speaks of a bucket per client IP.
WindowBound ==
  \A k \in Keys : \A i, j \in 1 .. Len(admitted[k]) :
    i <= j => (j - i + 1) * Unit <= size + (admitted[k][j] - admitted[k][i]) * refill

\* With one more request let through at time t, a window would exceed that.
WouldExceed(k, t) ==
  LET n == Len(admitted[k])
  IN  \E i \in 1 .. n : (n - i + 2) * Unit > size + (t - admitted[k][i]) * refill

\* The default burst of a rate below one token per second (line 66): nothing.
NeverAdmits == size = 0 /\ refill < Unit

\* The limiter is not stricter than that either: a request is refused only for
\* what its own connection has had before, and a refused one costs nothing.
\* Only a limiter that is left the default burst of a slow rate refuses even the
\* first request of everybody, and every other: docs/configuration.md:166 says
\* that the default is the same as the rate.
RefusedOnlyWhenSpent ==
  [][\A c \in Callers :
       pc[c] = "settle" /\ pc'[c] = "idle" /\ UNCHANGED admitted
         => WouldExceed(key[c], clock[c]) \/ NeverAdmits]_vars

\* What a caller that has read the clock will leave in its bucket.
Rest(c) == IF Level(c) >= Unit THEN Level(c) - Unit ELSE Level(c)

\* What the bucket of k holds now, were nothing put off: one that is not made
\* yet is full, one that is not refilled yet is, and one whose caller has read
\* the clock is settled.
Balance(k) ==
  LET b        == tb[buckets[k]]
      settling == b.holder # NoCaller /\ pc[b.holder] = "settle"
      tokens   == IF settling THEN Rest(b.holder) ELSE b.tokens
      last     == IF settling THEN clock[b.holder] ELSE b.last
      filled   == tokens + (now - last) * refill
  IN  IF buckets[k] = 0 \/ filled > size THEN size ELSE filled

\* A request is decided when it reads the clock.
Answer(c) ==
  IF pc[c] # "settle" THEN "asked" ELSE IF Level(c) >= Unit THEN "granted" ELSE "denied"

\* The code implements the abstract bucket: however the callers interleave,
\* make buckets late and refill them late, each request takes its token, or
\* finds none, in one moment while it is inside (ratelimit.go:26-86).
Ideal == INSTANCE TokenBucket WITH
  level <- [k \in Keys |-> Balance(k)],
  call <- [c \in Callers |-> IF pc[c] = "idle" THEN <<>> ELSE <<key[c], Answer(c)>>]
ImplementsTokenBucket == Ideal!Spec

\* Every request gets its verdict: neither lock is ever kept.
Answered == \A c \in Callers : pc[c] = "lookup" ~> pc[c] = "idle"
=============================================================================
