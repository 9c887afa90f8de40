--------------------------- MODULE RateLimitProofs ---------------------------
(***************************************************************************)
(* Proofs about RateLimit for any set of callers and addresses, any        *)
(* settings and any length of the clock.  A window of time is bounded      *)
(* because every bucket keeps a budget: what its requests have cost since  *)
(* any one of them, and what it still holds, never exceed its size and     *)
(* what has flowed in since.  That this is not broken by interleaving      *)
(* rests on two locks: one bucket for each address, and one caller at a    *)
(* time inside a bucket.                                                   *)
(***************************************************************************)
EXTENDS RateLimit, TLAPS

\* Exactly the callers between getBucket and the end of allow have a bucket.
MineWhen == \A c \in Callers : mine[c] # 0 <=> pc[c] \in {"enter", "read", "settle"}

\* No two addresses share a bucket.
Distinct == \A k, l \in Keys : buckets[k] # 0 /\ buckets[k] = buckets[l] => k = l

\* A caller inside allow holds the lock of its bucket.
Holding == \A c \in Callers : pc[c] \in {"read", "settle"} => tb[mine[c]].holder = c

\* A bucket is never overfull or overdrawn, nor refilled up to a later time than
\* now, nor a later one than the caller inside it has read.
Contents == \A n \in 1 .. Len(tb) : /\ 0 <= tb[n].tokens /\ tb[n].tokens <= size
                                  /\ tb[n].last <= now
Timely == \A c \in Callers :
            pc[c] = "settle" => tb[mine[c]].last <= clock[c] /\ clock[c] <= now

\* Nobody was let through for an address that has no bucket.
Unused == \A k \in Keys : buckets[k] = 0 => admitted[k] = <<>>

\* From the i-th request let through for k on, its cost and what the bucket
\* holds are covered by the size and what has flowed in.
Covered(k, i) ==
  LET b == tb[buckets[k]]
  IN  /\ admitted[k][i] <= b.last
      /\ (Len(admitted[k]) - i + 1) * Unit + b.tokens
            <= size + (b.last - admitted[k][i]) * refill

Budget == \A k \in Keys : buckets[k] # 0 => \A i \in 1 .. Len(admitted[k]) : Covered(k, i)

IInv == /\ TypeOK /\ MineWhen /\ OneBucket /\ Distinct /\ Holding
        /\ Contents /\ Timely /\ Unused /\ Budget /\ WindowBound

-----------------------------------------------------------------------------
\* What flows in adds up over adjoining spans of time.
LEMMA Spans ==
  ASSUME NEW a \in Int, NEW b \in Int, NEW c \in Int, NEW r \in Int
  PROVE  (b - a) * r + (c - b) * r = (c - a) * r
  OBVIOUS

\* Nothing flows out with time.
LEMMA FlowsIn ==
  ASSUME NEW a \in Int, NEW b \in Int, a <= b, NEW r \in Nat
  PROVE  (b - a) * r \in Nat
<1>1. b - a \in Nat
  OBVIOUS
<1> QED BY <1>1

\* The entries of a history are readings of the clock.
LEMMA Entries ==
  ASSUME NEW s \in Seq(Nat), NEW i \in 1 .. Len(s)
  PROVE  s[i] \in Nat
  OBVIOUS

\* What Append does to a history.
LEMMA Appended ==
  ASSUME NEW s \in Seq(Nat), NEW e \in Nat
  PROVE  /\ Len(Append(s, e)) = Len(s) + 1
         /\ \A i \in 1 .. Len(s) : Append(s, e)[i] = s[i]
         /\ Append(s, e)[Len(s) + 1] = e
  OBVIOUS

\* Every setting gives a rate and a burst (ratelimit.go:50-68).
LEMMA Sizes ==
  ASSUME NEW s \in Settings
  PROVE  Rate(s) \in Nat \ {0} /\ Burst(s) * Unit \in Nat
<1>1. s \in [number : Nat, unit : {"s", "m", "none"}, short : BOOLEAN, burst : Int]
  BY SettingsAssumption
<1>2. s.number \in Nat /\ s.burst \in Int
  BY <1>1
<1>3. Rate(s) \in Nat \ {0}
  BY <1>2 DEF Rate, Unit
<1>4. Burst(s) \in Nat
  BY <1>2, <1>3 DEF Burst, Unit
<1> QED BY <1>3, <1>4 DEF Unit

\* Init establishes the invariant.
LEMMA InitIInv == Init => IInv
<1> SUFFICES ASSUME Init PROVE IInv
  OBVIOUS
<1>1. AnyKey \in Keys
  BY KeysAssumption DEF AnyKey
<1>2. refill \in Nat \ {0} /\ size \in Nat
  BY Sizes DEF Init
<1>3. TypeOK
  BY <1>1, <1>2, TimeAssumption DEF Init, TypeOK, Steps
<1>4. MineWhen /\ OneBucket /\ Distinct /\ Holding /\ Timely
  BY <1>1 DEF Init, MineWhen, OneBucket, Distinct, Holding, Timely
<1>5. Contents /\ Unused /\ Budget /\ WindowBound
  BY DEF Init, Contents, Unused, Budget, WindowBound
<1> QED BY <1>3, <1>4, <1>5 DEF IInv

\* The fields of a bucket are of their type.
LEMMA BucketTyped ==
  ASSUME TypeOK, NEW n \in 1 .. Len(tb)
  PROVE  /\ tb[n] \in Bucket
         /\ tb[n].tokens \in Int /\ tb[n].last \in Nat
<1>1. tb[n] \in Bucket
  BY DEF TypeOK
<1> QED BY <1>1 DEF Bucket

\* What a step that leaves the buckets alone cannot disturb.
LEMMA SameBuckets ==
  ASSUME IInv, now' \in Nat, now <= now',
         UNCHANGED <<refill, size, buckets, tb, admitted>>
  PROVE  Distinct' /\ Contents' /\ Unused' /\ Budget' /\ WindowBound'
<1>1. Distinct' /\ Unused' /\ Budget' /\ WindowBound'
  BY DEF IInv, Distinct, Unused, Budget, Covered, WindowBound
<1>2. \A n \in 1 .. Len(tb) : tb[n].last \in Int
  BY BucketTyped DEF IInv
<1>3. now \in Int /\ Contents
  BY DEF IInv, TypeOK
<1>4. Contents'
  BY <1>2, <1>3 DEF Contents
<1> QED BY <1>1, <1>4

\* The clock advances,
LEMMA TickIInv ==
  ASSUME IInv, Tick
  PROVE  IInv'
<1>1. TypeOK'
  BY TimeAssumption DEF IInv, TypeOK, Tick, limiter
<1>2. MineWhen' /\ OneBucket' /\ Holding'
  BY DEF IInv, MineWhen, OneBucket, Holding, Tick
<1>3. Timely'
  BY DEF IInv, TypeOK, Timely, Tick
<1>4. Distinct' /\ Contents' /\ Unused' /\ Budget' /\ WindowBound'
  BY SameBuckets DEF IInv, TypeOK, Tick, limiter
<1> QED BY <1>1, <1>2, <1>3, <1>4 DEF IInv

\* a request arrives,
LEMMA ArriveIInv ==
  ASSUME IInv, NEW c \in Callers, NEW k \in Keys, Arrive(c, k)
  PROVE  IInv'
<1>1. TypeOK'
  BY DEF IInv, TypeOK, Arrive, Goto, Steps, limiter
<1>2. MineWhen' /\ OneBucket'
  BY DEF IInv, TypeOK, MineWhen, OneBucket, Arrive, Goto
<1>3. Holding' /\ Timely'
  BY DEF IInv, TypeOK, Holding, Timely, Arrive, Goto
<1>4. Distinct' /\ Contents' /\ Unused' /\ Budget' /\ WindowBound'
  BY SameBuckets DEF IInv, TypeOK, Arrive, limiter
<1> QED BY <1>1, <1>2, <1>3, <1>4 DEF IInv

\* getBucket, as long as it makes no bucket.
LEMMA LookIInv ==
  ASSUME IInv, NEW c \in Callers, Hit(c) \/ Miss(c) \/ LockMap(c) \/ Found(c)
  PROVE  IInv'
<1>1. TypeOK'
  BY DEF IInv, TypeOK, Hit, Miss, LockMap, Found, Goto, Steps, limiter
<1>2. MineWhen' /\ OneBucket'
  <2>1. CASE Hit(c) \/ Found(c)
    <3>1. mine' = [mine EXCEPT ![c] = buckets[key[c]]] /\ buckets[key[c]] # 0
      BY <2>1 DEF Hit, Found
    <3>2. MineWhen'
      BY <2>1, <3>1 DEF IInv, TypeOK, MineWhen, Hit, Found, Goto
    <3>3. OneBucket'
      BY <2>1, <3>1 DEF IInv, TypeOK, OneBucket, Hit, Found
    <3> QED BY <3>2, <3>3
  <2>2. CASE Miss(c) \/ LockMap(c)
    <3>1. UNCHANGED <<buckets, mine, key>>
      BY <2>2 DEF Miss, LockMap
    <3>2. MineWhen'
      BY <2>2, <3>1 DEF IInv, TypeOK, MineWhen, Miss, LockMap, Goto
    <3>3. OneBucket'
      BY <3>1 DEF IInv, OneBucket
    <3> QED BY <3>2, <3>3
  <2> QED BY <2>1, <2>2
<1>3. Holding' /\ Timely'
  <2>1. /\ UNCHANGED <<now, tb, clock>>
        /\ \A d \in Callers : pc'[d] \in {"read", "settle"} =>
             pc'[d] = pc[d] /\ mine'[d] = mine[d]
    BY DEF IInv, TypeOK, Hit, Miss, LockMap, Found, Goto
  <2> QED BY <2>1 DEF IInv, Holding, Timely
<1>4. Distinct' /\ Contents' /\ Unused' /\ Budget' /\ WindowBound'
  BY SameBuckets DEF IInv, TypeOK, Hit, Miss, LockMap, Found, limiter
<1> QED BY <1>1, <1>2, <1>3, <1>4 DEF IInv

\* and reads the clock: each keeps the invariant.
LEMMA ReadClockIInv ==
  ASSUME IInv, NEW c \in Callers, ReadClock(c)
  PROVE  IInv'
<1>1. TypeOK'
  BY DEF IInv, TypeOK, ReadClock, Goto, Steps, limiter
<1>2. MineWhen' /\ OneBucket' /\ Holding'
  BY DEF IInv, TypeOK, MineWhen, OneBucket, Holding, ReadClock, Goto
<1>3. mine[c] \in 1 .. Len(tb)
  BY DEF IInv, TypeOK, MineWhen, ReadClock, Goto
<1>4. Timely'
  BY <1>3 DEF IInv, TypeOK, Timely, Contents, ReadClock, Goto
<1>5. Distinct' /\ Contents' /\ Unused' /\ Budget' /\ WindowBound'
  BY SameBuckets DEF IInv, TypeOK, ReadClock, limiter
<1> QED BY <1>1, <1>2, <1>3, <1>4, <1>5 DEF IInv

\* Taking the lock of a bucket changes its holder only.
LEMMA EnterTouches ==
  ASSUME IInv, NEW c \in Callers, Enter(c)
  PROVE  /\ mine[c] \in 1 .. Len(tb) /\ tb' \in Seq(Bucket) /\ Len(tb') = Len(tb)
         /\ \A n \in 1 .. Len(tb) : /\ tb'[n].tokens = tb[n].tokens
                                    /\ tb'[n].last = tb[n].last
                                    /\ n # mine[c] => tb'[n].holder = tb[n].holder
         /\ tb'[mine[c]].holder = c
<1> DEFINE m == mine[c]
<1>1. m \in 1 .. Len(tb)
  BY DEF IInv, TypeOK, MineWhen, Enter, Goto
<1>2. tb[m] \in Bucket /\ tb' = [tb EXCEPT ![m] = [tb[m] EXCEPT !.holder = c]]
  BY <1>1, BucketTyped DEF IInv, Enter
<1>3. [tb[m] EXCEPT !.holder = c] \in Bucket
  BY <1>2 DEF Bucket
<1>4. tb' \in Seq(Bucket) /\ Len(tb') = Len(tb)
  BY <1>1, <1>2, <1>3 DEF IInv, TypeOK
<1>5. \A n \in 1 .. Len(tb) : /\ tb'[n].tokens = tb[n].tokens
                              /\ tb'[n].last = tb[n].last
                              /\ n # m => tb'[n].holder = tb[n].holder
  <2>1. tb'[m] = [tb[m] EXCEPT !.holder = c]
    <3>1. m \in DOMAIN tb
      BY <1>1 DEF IInv, TypeOK
    <3> QED BY <1>2, <3>1, Zenon
  <2>2. tb'[m].tokens = tb[m].tokens /\ tb'[m].last = tb[m].last
    BY <1>2, <2>1 DEF Bucket
  <2>3. \A n \in 1 .. Len(tb) : n # m => tb'[n] = tb[n]
    BY <1>1, <1>2 DEF IInv, TypeOK
  <2> QED BY <2>2, <2>3
<1>6. tb'[m].holder = c
  BY <1>1, <1>2 DEF IInv, TypeOK, Bucket
<1> QED BY <1>1, <1>4, <1>5, <1>6

\* A caller takes the lock of its bucket.
LEMMA EnterIInv ==
  ASSUME IInv, NEW c \in Callers, Enter(c)
  PROVE  IInv'
<1> DEFINE m == mine[c]
<1>1. m \in 1 .. Len(tb)
  BY EnterTouches
<1>4. tb' \in Seq(Bucket) /\ Len(tb') = Len(tb)
  BY EnterTouches
<1>5. \A n \in 1 .. Len(tb) : /\ tb'[n].tokens = tb[n].tokens
                              /\ tb'[n].last = tb[n].last
                              /\ n # m => tb'[n].holder = tb[n].holder
  BY EnterTouches
<1>6. tb'[m].holder = c
  BY EnterTouches
<1>7. TypeOK'
  BY <1>4 DEF IInv, TypeOK, Enter, Goto, Steps, limiter
<1>8. MineWhen' /\ OneBucket' /\ Distinct' /\ Unused' /\ WindowBound'
  BY DEF IInv, TypeOK, MineWhen, OneBucket, Distinct, Unused, WindowBound, Enter, Goto, limiter
<1>9. \A d \in Callers : pc[d] \in {"read", "settle"} => mine[d] \in 1 .. Len(tb) /\ mine[d] # m
  BY CallersAssumption DEF IInv, TypeOK, MineWhen, Holding, Enter
<1>10. Holding'
  BY <1>5, <1>6, <1>9 DEF IInv, TypeOK, Holding, Enter, Goto
<1>11. Timely'
  BY <1>5, <1>9 DEF IInv, TypeOK, Timely, Enter, Goto
<1>12. Contents'
  BY <1>4, <1>5 DEF IInv, Contents, Enter, limiter
<1>13. Budget'
  <2> SUFFICES ASSUME NEW l \in Keys, buckets[l] # 0,
                      NEW i \in 1 .. Len(admitted[l])
               PROVE  Covered(l, i)'
    BY DEF Budget, Enter
  <2>1. buckets[l] \in 1 .. Len(tb)
    BY DEF IInv, TypeOK
  <2>2. Covered(l, i)
    BY DEF IInv, Budget
  <2> QED BY <1>5, <2>1, <2>2 DEF Covered, Enter, limiter
<1> QED BY <1>7, <1>8, <1>10, <1>11, <1>12, <1>13 DEF IInv

\* A bucket is made, full, for an address that had none.
LEMMA CreateIInv ==
  ASSUME IInv, NEW c \in Callers, Create(c)
  PROVE  IInv'
<1> DEFINE k == key[c]
           n == Len(tb) + 1
<1>1. k \in Keys /\ n \in Nat \ {0} /\ buckets[k] = 0
  BY DEF IInv, TypeOK, Create
<1>2. NewBucket(now) \in Bucket
  BY DEF IInv, TypeOK, NewBucket, Bucket
<1>3. tb' \in Seq(Bucket) /\ Len(tb') = n
  BY <1>2 DEF IInv, TypeOK, Create
<1>4. (\A i \in 1 .. Len(tb) : tb'[i] = tb[i]) /\ tb'[n] = NewBucket(now)
  BY <1>2 DEF IInv, TypeOK, Create
<1>5. mine' = [mine EXCEPT ![c] = n] /\ buckets' = [buckets EXCEPT ![k] = n]
  BY <1>3 DEF Create
<1>6. \A l \in Keys : buckets[l] \in 0 .. Len(tb)
  BY DEF IInv, TypeOK
<1>7. TypeOK'
  BY <1>1, <1>3, <1>5 DEF IInv, TypeOK, Create, Goto, Steps, limiter
<1>8. MineWhen'
  BY <1>1, <1>5 DEF IInv, TypeOK, MineWhen, Create, Goto
<1>9. OneBucket'
  BY <1>1, <1>5 DEF IInv, TypeOK, OneBucket, Create
<1>10. Distinct'
  BY <1>1, <1>5, <1>6 DEF IInv, TypeOK, Distinct
<1>11. \A d \in Callers : pc[d] \in {"read", "settle"} => d # c /\ mine[d] \in 1 .. Len(tb)
  BY DEF IInv, TypeOK, MineWhen, Create, Goto
<1>12. Holding'
  BY <1>4, <1>5, <1>11 DEF IInv, TypeOK, Holding, Create, Goto
<1>13. Timely'
  BY <1>4, <1>5, <1>11 DEF IInv, TypeOK, Timely, Create, Goto
<1>14. Contents'
  BY <1>3, <1>4 DEF IInv, TypeOK, Contents, NewBucket, Create, limiter
<1>15. Unused'
  BY <1>1, <1>5 DEF IInv, TypeOK, Unused, Create
<1>16. Budget'
  <2> SUFFICES ASSUME NEW l \in Keys, buckets'[l] # 0,
                      NEW i \in 1 .. Len(admitted[l])
               PROVE  Covered(l, i)'
    BY DEF Budget, Create
  <2>1. l # k
    BY <1>1 DEF IInv, Unused
  <2>2. buckets'[l] = buckets[l] /\ tb'[buckets[l]] = tb[buckets[l]]
    BY <1>4, <1>5, <1>6, <2>1 DEF IInv, TypeOK
  <2>3. Covered(l, i)
    BY <2>2 DEF IInv, Budget
  <2> QED BY <2>2, <2>3 DEF Covered, Create, limiter
<1>17. WindowBound'
  BY DEF IInv, WindowBound, Create, limiter
<1> QED BY <1>7, <1>8, <1>9, <1>10, <1>12, <1>13, <1>14, <1>15, <1>16, <1>17 DEF IInv

\* The refilled level is between nothing and a full bucket, and no more than
\* what was there and has flowed in (ratelimit.go:29-34).
LEMMA LevelBounds ==
  ASSUME IInv, NEW c \in Callers, pc[c] = "settle"
  PROVE  /\ mine[c] \in 1 .. Len(tb) /\ mine[c] = buckets[key[c]] /\ key[c] \in Keys
         /\ clock[c] \in Nat /\ tb[mine[c]].last <= clock[c]
         /\ Level(c) \in Nat /\ Level(c) <= size
         /\ Level(c) <= tb[mine[c]].tokens + (clock[c] - tb[mine[c]].last) * refill
<1> DEFINE b == tb[mine[c]]
           in == (clock[c] - b.last) * refill
<1>1. mine[c] \in 1 .. Len(tb) /\ mine[c] = buckets[key[c]] /\ key[c] \in Keys
  BY DEF IInv, TypeOK, MineWhen, OneBucket
<1>2. clock[c] \in Nat /\ b.last <= clock[c] /\ refill \in Nat /\ size \in Nat
  BY TimeAssumption DEF IInv, TypeOK, Timely
<1>3. b.last \in Nat /\ b.tokens \in Nat /\ b.tokens <= size
  BY <1>1, BucketTyped DEF IInv, Contents
<1>4. in \in Nat
  BY <1>2, <1>3, FlowsIn
<1> HIDE DEF in
<1>5. Level(c) = IF b.tokens + in > size THEN size ELSE b.tokens + in
  BY DEF Level, in
<1>6. Level(c) \in Nat /\ Level(c) <= size /\ Level(c) <= b.tokens + in
  BY <1>2, <1>3, <1>4, <1>5
<1> QED BY <1>1, <1>2, <1>6 DEF in

\* What leaving a bucket with no more than its level preserves, whatever the
\* verdict (ratelimit.go:34-41).
LEMMA LeaveKeeps ==
  ASSUME IInv, NEW c \in Callers, Goto(c, "settle", "idle"),
         NEW t \in Nat, t <= Level(c), Leave(c, t),
         UNCHANGED <<now, limiter, mu, buckets>>,
         admitted' \in [Keys -> Seq(Nat)]
  PROVE  /\ TypeOK' /\ MineWhen' /\ OneBucket' /\ Distinct' /\ Holding'
         /\ Contents' /\ Timely'
         /\ tb'[mine[c]].tokens = t /\ tb'[mine[c]].last = clock[c]
         /\ \A n \in 1 .. Len(tb) : n # mine[c] => tb'[n] = tb[n]
<1> DEFINE m == mine[c]
           left == [tokens |-> t, last |-> clock[c], holder |-> NoCaller]
<1>1. /\ m \in 1 .. Len(tb) /\ clock[c] \in Nat /\ clock[c] <= now
      /\ Level(c) \in Nat /\ Level(c) <= size
  BY LevelBounds DEF Goto, IInv, Timely
<1>2. left \in Bucket /\ tb' = [tb EXCEPT ![m] = left]
  BY <1>1 DEF Bucket, Leave
<1>3. tb' \in Seq(Bucket) /\ Len(tb') = Len(tb)
  BY <1>1, <1>2 DEF IInv, TypeOK
<1>4. m \in DOMAIN tb
  BY <1>1 DEF IInv, TypeOK
<1>5. tb'[m] = left
  BY <1>2, <1>4, Zenon
<1>6. tb'[m].tokens = t /\ tb'[m].last = clock[c]
  BY <1>5
<1>7. \A n \in 1 .. Len(tb) : n # m => tb'[n] = tb[n]
  BY <1>1, <1>2 DEF IInv, TypeOK
<1>8. AnyKey \in Keys
  BY KeysAssumption DEF AnyKey
<1>9. TypeOK'
  <2>1. now' \in 0 .. MaxTime /\ refill' \in Nat \ {0} /\ size' \in Nat
    BY DEF IInv, TypeOK, limiter
  <2>2. mu' \in Callers \cup {NoCaller} /\ buckets' \in [Keys -> 0 .. Len(tb')]
    BY <1>3 DEF IInv, TypeOK
  <2>3. pc' \in [Callers -> Steps] /\ key' \in [Callers -> Keys]
    BY <1>8 DEF IInv, TypeOK, Leave, Goto, Steps
  <2>4. 0 \in 0 .. MaxTime /\ 0 \in 0 .. Len(tb)
    BY TimeAssumption DEF IInv, TypeOK
  <2>5. mine' \in [Callers -> 0 .. Len(tb')] /\ clock' \in [Callers -> 0 .. MaxTime]
    BY <1>3, <2>4 DEF IInv, TypeOK, Leave
  <2> QED BY <1>3, <2>1, <2>2, <2>3, <2>5 DEF TypeOK
<1>10. MineWhen' /\ OneBucket' /\ Distinct'
  BY DEF IInv, TypeOK, MineWhen, OneBucket, Distinct, Leave, Goto
<1>11. \A d \in Callers : d # c /\ pc[d] \in {"read", "settle"}
                           => mine[d] \in 1 .. Len(tb) /\ mine[d] # m
  <2> SUFFICES ASSUME NEW d \in Callers, d # c, pc[d] \in {"read", "settle"}
               PROVE  mine[d] \in 1 .. Len(tb) /\ mine[d] # m
    OBVIOUS
  <2>1. mine[d] \in 1 .. Len(tb)
    BY DEF IInv, TypeOK, MineWhen
  <2>2. tb[mine[d]].holder = d /\ tb[m].holder = c
    BY DEF IInv, Holding, Goto
  <2> QED BY <2>1, <2>2
<1>12. Holding' /\ Timely'
  <2>1. \A d \in Callers : pc'[d] \in {"read", "settle"} =>
          /\ d # c /\ pc'[d] = pc[d] /\ mine'[d] = mine[d] /\ clock'[d] = clock[d]
    BY DEF IInv, TypeOK, Leave, Goto
  <2>2. \A d \in Callers : pc'[d] \in {"read", "settle"} =>
          tb'[mine'[d]] = tb[mine[d]]
    BY <1>7, <1>11, <2>1
  <2>3. Holding'
    BY <2>1, <2>2 DEF IInv, Holding
  <2>4. Timely'
    BY <2>1, <2>2 DEF IInv, Timely
  <2> QED BY <2>3, <2>4
<1>14. t <= size /\ size \in Nat
  BY <1>1 DEF IInv, TypeOK
<1>15. Contents'
  BY <1>1, <1>3, <1>6, <1>7, <1>14 DEF IInv, Contents, limiter
<1> QED BY <1>6, <1>7, <1>9, <1>10, <1>12, <1>15

\* What was covered by the size and the inflow up to the last refill is, after
\* another refill, up to that: the arithmetic of the budget.
LEMMA Carried ==
  ASSUME NEW cost \in Int, NEW old \in Int, NEW new \in Int, NEW full \in Int,
         NEW from \in Int, NEW last \in Int, NEW at \in Int, NEW r \in Int,
         cost + old <= full + (last - from) * r,
         new <= old + (at - last) * r
  PROVE  cost + new <= full + (at - from) * r
<1> DEFINE x == (last - from) * r
           y == (at - last) * r
           z == (at - from) * r
<1>1. x + y = z
  BY Spans
<1>2. x \in Int /\ y \in Int /\ z \in Int
  OBVIOUS
<1>3. cost + old <= full + x /\ new <= old + y
  OBVIOUS
<1> HIDE DEF x, y, z
<1>4. cost + new <= full + z
  BY <1>1, <1>2, <1>3
<1> QED BY <1>4 DEF z

\* The caller inside a bucket leaves those of other addresses covered.
LEMMA OthersCovered ==
  ASSUME IInv, NEW c \in Callers, pc[c] = "settle",
         NEW l \in Keys, l # key[c], buckets[l] # 0, NEW i \in 1 .. Len(admitted[l]),
         UNCHANGED <<limiter, buckets>>, admitted'[l] = admitted[l],
         \A n \in 1 .. Len(tb) : n # mine[c] => tb'[n] = tb[n]
  PROVE  Covered(l, i)'
<1>1. mine[c] = buckets[key[c]] /\ key[c] \in Keys
  BY LevelBounds
<1>2. buckets[l] \in 1 .. Len(tb) /\ buckets[l] # mine[c]
  BY <1>1 DEF IInv, TypeOK, Distinct
<1>3. Covered(l, i)
  BY DEF IInv, Budget
<1> QED BY <1>2, <1>3 DEF Covered, limiter

\* A request let through before is still covered with the refilled level.
LEMMA StaysCovered ==
  ASSUME IInv, NEW c \in Callers, pc[c] = "settle",
         NEW i \in 1 .. Len(admitted[key[c]])
  PROVE  /\ admitted[key[c]][i] \in Nat /\ admitted[key[c]][i] <= clock[c]
         /\ Len(admitted[key[c]]) \in Nat
         /\ (Len(admitted[key[c]]) - i + 1) * Unit + Level(c)
               <= size + (clock[c] - admitted[key[c]][i]) * refill
<1> DEFINE k == key[c]
           q == admitted[k]
           last == tb[mine[c]].last
           tokens == tb[mine[c]].tokens
           spent == (Len(q) - i + 1) * Unit
           from == q[i]
           level == Level(c)
           at == clock[c]
<1>1. /\ mine[c] \in 1 .. Len(tb) /\ mine[c] = buckets[k] /\ k \in Keys
      /\ at \in Nat /\ last <= at /\ level \in Nat
      /\ level <= tokens + (at - last) * refill
  BY LevelBounds
<1>2. last \in Nat /\ tokens \in Int /\ refill \in Nat /\ size \in Nat
  BY <1>1, BucketTyped DEF IInv, TypeOK
<1>3. q \in Seq(Nat)
  BY <1>1 DEF IInv, TypeOK
<1>4. Len(q) \in Nat /\ from \in Nat /\ i \in Nat
  <2> HIDE DEF q
  <2> QED BY <1>3 DEF q
<1>5. spent \in Int
  BY <1>4 DEF Unit
<1>6. Covered(k, i)
  BY <1>1 DEF IInv, Budget
<1>7. from <= last /\ spent + tokens <= size + (last - from) * refill
  BY <1>1, <1>6 DEF Covered
<1> HIDE DEF k, q, last, tokens, spent, from, level, at
<1>8. spent + level <= size + (at - from) * refill
  BY <1>1, <1>2, <1>4, <1>5, <1>7, Carried
<1>9. from <= at
  BY <1>1, <1>2, <1>4, <1>7
<1> QED BY <1>4, <1>8, <1>9 DEF k, q, spent, from, level, at

\* A refusal costs nothing and lets the time count (ratelimit.go:39-40).
LEMMA RefuseIInv ==
  ASSUME IInv, NEW c \in Callers, Refuse(c)
  PROVE  IInv'
<1> DEFINE k == key[c]
           m == mine[c]
<1>1. pc[c] = "settle" /\ m = buckets[k] /\ k \in Keys /\ Level(c) \in Nat
  BY LevelBounds DEF Refuse, Goto
<1>2. /\ TypeOK' /\ MineWhen' /\ OneBucket' /\ Distinct' /\ Holding' /\ Contents' /\ Timely'
      /\ tb'[m].tokens = Level(c) /\ tb'[m].last = clock[c]
      /\ \A n \in 1 .. Len(tb) : n # m => tb'[n] = tb[n]
  <2>1. admitted' \in [Keys -> Seq(Nat)]
    BY DEF IInv, TypeOK, Refuse
  <2>2. Level(c) <= Level(c)
    BY <1>1
  <2> QED BY <1>1, <2>1, <2>2, LeaveKeeps DEF Refuse
<1>3. Unused' /\ WindowBound'
  BY DEF IInv, Unused, WindowBound, Refuse, limiter
<1>4. Budget'
  <2> SUFFICES ASSUME NEW l \in Keys, buckets[l] # 0, NEW i \in 1 .. Len(admitted[l])
               PROVE  Covered(l, i)'
    BY DEF Budget, Refuse
  <2>1. CASE l # k
    BY <1>1, <1>2, <2>1, OthersCovered DEF Refuse
  <2>2. CASE l = k
    <3>1. /\ admitted[k][i] <= clock[c]
          /\ (Len(admitted[k]) - i + 1) * Unit + Level(c)
                <= size + (clock[c] - admitted[k][i]) * refill
      BY <1>1, <2>2, StaysCovered
    <3> QED BY <1>1, <1>2, <2>2, <3>1 DEF Covered, Refuse, limiter
  <2> QED BY <2>1, <2>2
<1> QED BY <1>2, <1>3, <1>4 DEF IInv

\* An admission costs a token, which the bucket has (ratelimit.go:36-38).
LEMMA AdmitIInv ==
  ASSUME IInv, NEW c \in Callers, Admit(c)
  PROVE  IInv'
<1> PICK k \in Keys : k = key[c]
  BY LevelBounds DEF Admit, Goto
<1> PICK n \in Nat : n = Len(admitted[k])
  BY DEF IInv, TypeOK
<1> DEFINE m == mine[c]
           q == admitted[k]
           at == clock[c]
           level == Level(c)
<1>1. /\ pc[c] = "settle" /\ m = buckets[k] /\ m \in 1 .. Len(tb)
      /\ at \in Nat /\ level \in Nat /\ Unit <= level /\ level <= size
  BY LevelBounds DEF Admit, Goto
<1>2. q \in Seq(Nat) /\ Len(q) = n /\ size \in Nat /\ refill \in Nat
  BY <1>1 DEF IInv, TypeOK
<1>3. admitted' = [admitted EXCEPT ![k] = Append(q, at)]
  BY DEF Admit
<1>4. admitted'[k] = Append(q, at) /\ \A l \in Keys : l # k => admitted'[l] = admitted[l]
  BY <1>1, <1>3 DEF IInv, TypeOK
<1>5. /\ Len(admitted'[k]) = n + 1
      /\ \A i \in 1 .. n : admitted'[k][i] = q[i]
      /\ admitted'[k][n + 1] = at
  <2>1. q \in Seq(Nat) /\ at \in Nat
    BY <1>1, <1>2
  <2> HIDE DEF q, at
  <2>2. /\ Len(Append(q, at)) = Len(q) + 1
        /\ \A i \in 1 .. Len(q) : Append(q, at)[i] = q[i]
        /\ Append(q, at)[Len(q) + 1] = at
    BY <2>1, Appended
  <2> QED BY <1>2, <1>4, <2>2
<1>6. admitted' \in [Keys -> Seq(Nat)]
  <2>1. Append(q, at) \in Seq(Nat)
    BY <1>1, <1>2
  <2> QED BY <1>3, <2>1 DEF IInv, TypeOK
<1>7. /\ TypeOK' /\ MineWhen' /\ OneBucket' /\ Distinct' /\ Holding' /\ Contents' /\ Timely'
      /\ tb'[m].tokens = level - Unit /\ tb'[m].last = at
      /\ \A o \in 1 .. Len(tb) : o # m => tb'[o] = tb[o]
  <2>1. level - Unit \in Nat /\ level - Unit <= level
    BY <1>1 DEF Unit
  <2> QED BY <1>6, <2>1, LeaveKeeps DEF Admit
<1>8. Unused'
  BY <1>1, <1>4 DEF IInv, Unused, Admit
<1>9. \A i \in 1 .. n + 1 : Covered(k, i)'
  <2>1. ASSUME NEW i \in 1 .. n
        PROVE  Covered(k, i)'
    <3>1. /\ q[i] \in Nat /\ q[i] <= at
          /\ (n - i + 1) * Unit + level <= size + (at - q[i]) * refill
      BY <1>1, StaysCovered
    <3>2. (at - q[i]) * refill \in Int
      <4>1. q[i] \in Int /\ at \in Int /\ q[i] <= at /\ refill \in Nat
        BY <1>1, <1>2, <3>1
      <4> HIDE DEF q, at
      <4> QED BY <4>1, FlowsIn
    <3>3. (n + 1 - i + 1) * Unit + (level - Unit) <= size + (at - q[i]) * refill
      <4> DEFINE in == (at - q[i]) * refill
      <4>1. in \in Int /\ (n - i + 1) * Unit + level <= size + in
        BY <3>1, <3>2
      <4> DEFINE x == (n - i + 1) * Unit
      <4>2. x \in Int /\ (n + 1 - i + 1) * Unit = x + Unit
        BY DEF Unit
      <4>3. x + level <= size + in
        BY <4>1
      <4> HIDE DEF in, x, q, level
      <4>4. (n + 1 - i + 1) * Unit + (level - Unit) <= size + in
        BY <1>1, <1>2, <4>1, <4>2, <4>3 DEF Unit
      <4> QED BY <4>4 DEF in
    <3> QED BY <1>1, <1>5, <1>7, <3>1, <3>3 DEF Covered, Admit, limiter
  <2>2. Covered(k, n + 1)'
    <3>1. (n + 1 - (n + 1) + 1) * Unit + (level - Unit) <= size + (at - at) * refill
      <4> HIDE DEF q, at, level
      <4> QED BY <1>1, <1>2 DEF Unit
    <3> QED BY <1>1, <1>5, <1>7, <3>1 DEF Covered, Admit, limiter
  <2>3. \A i \in 1 .. n + 1 : i \in 1 .. n \/ i = n + 1
    BY <1>2
  <2> QED BY <2>1, <2>2, <2>3
<1>10. Budget'
  <2> SUFFICES ASSUME NEW l \in Keys, buckets[l] # 0, NEW i \in 1 .. Len(admitted'[l])
               PROVE  Covered(l, i)'
    BY DEF Budget, Admit
  <2>1. CASE l # k
    BY <1>1, <1>4, <1>7, <2>1, OthersCovered DEF Admit
  <2>2. CASE l = k
    BY <1>5, <1>9, <2>2
  <2> QED BY <2>1, <2>2
<1>11. WindowBound'
  <2> SUFFICES ASSUME NEW l \in Keys, NEW i \in 1 .. Len(admitted'[l]),
                      NEW j \in 1 .. Len(admitted'[l]), i <= j
               PROVE  (j - i + 1) * Unit
                         <= size + (admitted'[l][j] - admitted'[l][i]) * refill
    BY DEF WindowBound, Admit, limiter
  <2>1. CASE l # k
    BY <1>4, <2>1 DEF IInv, WindowBound
  <2>2. CASE l = k /\ j # n + 1
    <3>1. i \in 1 .. n /\ j \in 1 .. n
      BY <1>2, <1>5, <2>2
    <3>2. (j - i + 1) * Unit <= size + (q[j] - q[i]) * refill
      BY <1>1, <3>1 DEF IInv, WindowBound
    <3> QED BY <1>5, <2>2, <3>1, <3>2
  <2>3. CASE l = k /\ j = n + 1
    <3>1. Covered(k, i)'
      BY <1>5, <1>9, <2>3
    <3> DEFINE in == (at - admitted'[k][i]) * refill
    <3>2. (n + 1 - i + 1) * Unit + (level - Unit) <= size + in
      <4>1. buckets'[k] = m /\ size' = size /\ refill' = refill
        BY <1>1 DEF Admit, limiter
      <4>2. Len(admitted'[k]) = n + 1 /\ tb'[m].tokens = level - Unit /\ tb'[m].last = at
        BY <1>5, <1>7
      <4>3. (Len(admitted'[k]) - i + 1) * Unit + tb'[m].tokens
               <= size + (tb'[m].last - admitted'[k][i]) * refill
        BY <3>1, <4>1 DEF Covered
      <4>4. (tb'[m].last - admitted'[k][i]) * refill = in
        BY <4>2
      <4> HIDE DEF in, level
      <4> QED BY <4>2, <4>3, <4>4
    <3>3. admitted'[k][i] \in Nat
      <4>1. admitted'[k] \in Seq(Nat) /\ i \in 1 .. Len(admitted'[k])
        BY <1>6, <2>3
      <4> QED BY <4>1, Entries
    <3>4. in \in Int
      <4>1. PICK e \in Nat : e = admitted'[k][i]
        BY <3>3
      <4>2. (at - e) * refill \in Int
        <5>1. at \in Int /\ refill \in Int
          BY <1>1, <1>2
        <5> HIDE DEF at
        <5> QED BY <4>1, <5>1
      <4> QED BY <4>1, <4>2
    <3> HIDE DEF in, q, level
    <3>5. (n + 1 - i + 1) * Unit <= size + in
      BY <1>1, <1>2, <3>2, <3>4 DEF Unit
    <3> QED BY <1>5, <2>3, <3>5 DEF in
  <2> QED BY <2>1, <2>2, <2>3
<1> QED BY <1>7, <1>8, <1>10, <1>11 DEF IInv

-----------------------------------------------------------------------------
\* Every step preserves the invariant.
LEMMA NextIInv == IInv /\ [Next]_vars => IInv'
<1> SUFFICES ASSUME IInv, [Next]_vars PROVE IInv'
  OBVIOUS
<1>1. CASE Tick
  BY <1>1, TickIInv
<1>2. ASSUME NEW c \in Callers, NEW k \in Keys, Arrive(c, k)
      PROVE  IInv'
  BY <1>2, ArriveIInv
<1>3. ASSUME NEW c \in Callers, Lock(c)
      PROVE  IInv'
  BY <1>3, LookIInv, EnterIInv DEF Lock
<1>4. ASSUME NEW c \in Callers, Handle(c)
      PROVE  IInv'
  BY <1>4, LookIInv, CreateIInv, ReadClockIInv, AdmitIInv, RefuseIInv DEF Handle
<1>5. CASE UNCHANGED vars
  <2>1. UNCHANGED <<now, refill, size, mu, buckets, tb, pc, key, mine, clock, admitted>>
    BY <1>5 DEF vars
  <2>2. TypeOK' /\ MineWhen' /\ OneBucket' /\ Holding' /\ Timely'
    BY <2>1 DEF IInv, TypeOK, MineWhen, OneBucket, Holding, Timely
  <2>3. Distinct' /\ Contents' /\ Unused' /\ Budget' /\ WindowBound'
    BY <2>1 DEF IInv, Distinct, Contents, Unused, Budget, Covered, WindowBound
  <2> QED BY <2>2, <2>3 DEF IInv
<1> QED BY <1>1, <1>2, <1>3, <1>4, <1>5 DEF Next

\* The invariant holds in every reachable state of the rate limiter.
THEOREM BudgetKept == Spec => []IInv
<1>1. Init => IInv
  BY InitIInv
<1>2. IInv /\ [Next]_vars => IInv'
  BY NextIInv
<1> QED BY <1>1, <1>2, PTL DEF Spec

\* The variables keep their types (ratelimit.go:9-48).
THEOREM TypeCorrect == Spec => []TypeOK
<1>1. IInv => TypeOK
  BY DEF IInv
<1> QED BY <1>1, BudgetKept, PTL

\* All callers of an address use the bucket the map has for it, for any number
\* of callers racing through getBucket (ratelimit.go:71-86).
THEOREM BucketUnique == Spec => []OneBucket
<1>1. IInv => OneBucket
  BY DEF IInv
<1> QED BY <1>1, BudgetKept, PTL

\* No window of time lets more of an address through than a full bucket and what
\* flows in meanwhile (ratelimit.go:26-41, 71-90).
THEOREM WindowSafe == Spec => []WindowBound
<1>1. IInv => WindowBound
  BY DEF IInv
<1> QED BY <1>1, BudgetKept, PTL

-----------------------------------------------------------------------------
\* The other direction: the limiter is no stricter than the bound.  A bucket that
\* is not full has kept nothing back since some request it let through: from
\* that one on the cost and what it holds use up the size and the inflow.
UsedUp(k, i) ==
  (Len(admitted[k]) - i + 1) * Unit + tb[buckets[k]].tokens
     = size + (tb[buckets[k]].last - admitted[k][i]) * refill

TightAt(k) == \/ tb[buckets[k]].tokens = size
              \/ \E i \in 1 .. Len(admitted[k]) : UsedUp(k, i)

Tight == \A k \in Keys : buckets[k] # 0 => TightAt(k)

\* A bucket whose content is not touched stays as tight.
LEMMA TightKept ==
  ASSUME Tight, NEW l \in Keys, buckets[l] # 0,
         UNCHANGED limiter, buckets'[l] = buckets[l], admitted'[l] = admitted[l],
         tb'[buckets[l]].tokens = tb[buckets[l]].tokens,
         tb'[buckets[l]].last = tb[buckets[l]].last
  PROVE  TightAt(l)'
<1>1. TightAt(l)
  BY DEF Tight
<1> QED BY <1>1 DEF TightAt, UsedUp, limiter

\* So is the refilled level of the caller inside it.
LEMMA LevelTight ==
  ASSUME IInv, Tight, NEW c \in Callers, pc[c] = "settle"
  PROVE  \/ Level(c) = size
         \/ \E i \in 1 .. Len(admitted[key[c]]) :
              (Len(admitted[key[c]]) - i + 1) * Unit + Level(c)
                 = size + (clock[c] - admitted[key[c]][i]) * refill
<1> PICK k \in Keys : k = key[c]
  BY LevelBounds
<1> DEFINE q == admitted[k]
           last == tb[mine[c]].last
           tokens == tb[mine[c]].tokens
           level == Level(c)
           at == clock[c]
           in == (at - last) * refill
<1>1. /\ mine[c] \in 1 .. Len(tb) /\ mine[c] = buckets[k]
      /\ at \in Nat /\ last <= at
  BY LevelBounds
<1>2. last \in Nat /\ tokens \in Int /\ refill \in Nat /\ size \in Nat /\ tokens <= size
  BY <1>1, BucketTyped DEF IInv, TypeOK, Contents
<1>3. in \in Nat
  <2> HIDE DEF last, at
  <2> QED BY <1>1, <1>2, FlowsIn
<1>4. level = size \/ level = tokens + in
  BY DEF Level
<1>5. CASE level # size /\ tokens = size
  <2> HIDE DEF in, level, tokens
  <2>1. tokens + in > size \/ in = 0
    BY <1>2, <1>3, <1>5
  <2>2. level = IF tokens + in > size THEN size ELSE tokens + in
    BY DEF level, Level, tokens, in
  <2> QED BY <1>2, <1>5, <2>1, <2>2
<1>6. CASE level = tokens + in /\ \E i \in 1 .. Len(q) : UsedUp(k, i)
  <2>1. PICK i \in 1 .. Len(q) : UsedUp(k, i)
    BY <1>6
  <2> DEFINE spent == (Len(q) - i + 1) * Unit
             from == q[i]
  <2>2. q \in Seq(Nat)
    BY DEF IInv, TypeOK
  <2>3. from \in Nat /\ Len(q) \in Nat
    <3> HIDE DEF q
    <3> QED BY <2>2 DEF q
  <2>4. spent \in Int
    BY <2>3 DEF Unit
  <2>5. spent + tokens = size + (last - from) * refill
    BY <1>1, <2>1 DEF UsedUp
  <2>6. (last - from) * refill + in = (at - from) * refill
    <3> HIDE DEF last, at, from
    <3> QED BY <1>1, <1>2, <2>3, Spans DEF in
  <2>7. (last - from) * refill \in Int /\ (at - from) * refill \in Int
    <3> HIDE DEF last, at, from
    <3> QED BY <1>1, <1>2, <2>3
  <2>8. spent + level = size + (at - from) * refill
    <3> DEFINE x == (last - from) * refill
               y == (at - from) * refill
    <3>1. /\ x \in Int /\ y \in Int /\ x + in = y /\ spent + tokens = size + x
          /\ level = tokens + in
      BY <1>6, <2>5, <2>6, <2>7
    <3> HIDE DEF x, y, in, spent, tokens, level
    <3>2. spent + level = size + y
      BY <1>2, <1>3, <2>4, <3>1
    <3> QED BY <3>2 DEF y
  <2> QED BY <2>8
<1>7. tokens = size \/ \E i \in 1 .. Len(q) : UsedUp(k, i)
  BY <1>1 DEF Tight, TightAt
<1> QED BY <1>4, <1>5, <1>6, <1>7

\* No address has a bucket at first.
LEMMA InitTight == Init => Tight
BY DEF Init, Tight

\* The caller inside a bucket leaves those of other addresses as tight.
LEMMA OthersTight ==
  ASSUME IInv, Tight, NEW c \in Callers, pc[c] = "settle",
         NEW l \in Keys, l # key[c], buckets[l] # 0,
         UNCHANGED <<limiter, buckets>>, admitted'[l] = admitted[l],
         \A n \in 1 .. Len(tb) : n # mine[c] => tb'[n] = tb[n]
  PROVE  TightAt(l)'
<1>1. mine[c] = buckets[key[c]] /\ key[c] \in Keys
  BY LevelBounds
<1>2. buckets[l] \in 1 .. Len(tb) /\ buckets[l] # mine[c]
  BY <1>1 DEF IInv, TypeOK, Distinct
<1>3. tb'[buckets[l]] = tb[buckets[l]]
  BY <1>2
<1> QED BY <1>3, TightKept

\* A new bucket is full.
LEMMA CreateTight ==
  ASSUME IInv, Tight, NEW c \in Callers, Create(c)
  PROVE  Tight'
<1> PICK k \in Keys : k = key[c]
  BY DEF IInv, TypeOK
<1> PICK n \in Nat : n = Len(tb) + 1
  BY DEF IInv, TypeOK
<1>1. NewBucket(now) \in Bucket
  BY DEF IInv, TypeOK, NewBucket, Bucket
<1>2. /\ \A i \in 1 .. Len(tb) : tb'[i] = tb[i]
      /\ tb'[n] = NewBucket(now) /\ Len(tb') = n
  BY <1>1 DEF IInv, TypeOK, Create
<1>3. buckets' = [buckets EXCEPT ![k] = n] /\ UNCHANGED <<limiter, admitted>>
  BY <1>2 DEF Create
<1> SUFFICES ASSUME NEW l \in Keys, buckets'[l] # 0
             PROVE  TightAt(l)'
  BY DEF Tight
<1>4. CASE l = k
  <2>1. buckets'[l] = n /\ size' = size
    BY <1>3, <1>4 DEF IInv, TypeOK, limiter
  <2>2. tb'[n].tokens = size
    BY <1>2 DEF NewBucket
  <2> QED BY <2>1, <2>2 DEF TightAt
<1>5. CASE l # k
  <2>1. buckets'[l] = buckets[l] /\ buckets[l] \in 1 .. Len(tb)
    BY <1>3, <1>5 DEF IInv, TypeOK
  <2>2. tb'[buckets[l]] = tb[buckets[l]]
    BY <1>2, <2>1
  <2> QED BY <1>3, <2>1, <2>2, TightKept
<1> QED BY <1>4, <1>5

\* A refusal leaves the refilled level as it is (ratelimit.go:39-40).
LEMMA RefuseTight ==
  ASSUME IInv, Tight, NEW c \in Callers, Refuse(c)
  PROVE  Tight'
<1> PICK k \in Keys : k = key[c]
  BY LevelBounds DEF Refuse, Goto
<1>1. pc[c] = "settle" /\ mine[c] = buckets[k] /\ Level(c) \in Nat
  BY LevelBounds DEF Refuse, Goto
<1>2. /\ tb'[mine[c]].tokens = Level(c) /\ tb'[mine[c]].last = clock[c]
      /\ \A n \in 1 .. Len(tb) : n # mine[c] => tb'[n] = tb[n]
  <2>1. admitted' \in [Keys -> Seq(Nat)]
    BY DEF IInv, TypeOK, Refuse
  <2>2. Level(c) <= Level(c)
    BY <1>1
  <2> QED BY <1>1, <2>1, <2>2, LeaveKeeps DEF Refuse
<1>3. UNCHANGED <<limiter, buckets, admitted>>
  BY DEF Refuse
<1> SUFFICES ASSUME NEW l \in Keys, buckets[l] # 0
             PROVE  TightAt(l)'
  BY <1>3 DEF Tight
<1>4. CASE l # k
  BY <1>1, <1>2, <1>3, <1>4, OthersTight
<1>5. CASE l = k
  <2>1. \/ Level(c) = size
        \/ \E i \in 1 .. Len(admitted[k]) :
             (Len(admitted[k]) - i + 1) * Unit + Level(c)
                = size + (clock[c] - admitted[k][i]) * refill
    BY <1>1, LevelTight
  <2> QED BY <1>1, <1>2, <1>3, <1>5, <2>1 DEF TightAt, UsedUp, limiter
<1> QED BY <1>4, <1>5

\* An admission moves a token from the bucket to the cost; the first one out of
\* a full bucket starts the count (ratelimit.go:36-38).
LEMMA AdmitTight ==
  ASSUME IInv, Tight, NEW c \in Callers, Admit(c)
  PROVE  Tight'
<1> PICK k \in Keys : k = key[c]
  BY LevelBounds DEF Admit, Goto
<1> PICK n \in Nat : n = Len(admitted[k])
  BY DEF IInv, TypeOK
<1> DEFINE m == mine[c]
           q == admitted[k]
           at == clock[c]
           level == Level(c)
<1>1. /\ pc[c] = "settle" /\ m = buckets[k] /\ at \in Nat
      /\ level \in Nat /\ Unit <= level
  BY LevelBounds DEF Admit, Goto
<1>2. q \in Seq(Nat) /\ Len(q) = n /\ size \in Nat /\ refill \in Nat
  BY DEF IInv, TypeOK
<1>3. admitted' = [admitted EXCEPT ![k] = Append(q, at)]
  BY DEF Admit
<1>4. admitted'[k] = Append(q, at) /\ \A l \in Keys : l # k => admitted'[l] = admitted[l]
  BY <1>3 DEF IInv, TypeOK
<1>5. /\ Len(admitted'[k]) = n + 1
      /\ \A i \in 1 .. n : admitted'[k][i] = q[i]
      /\ admitted'[k][n + 1] = at
  <2>1. q \in Seq(Nat) /\ at \in Nat
    BY <1>1, <1>2
  <2> HIDE DEF q, at
  <2>2. /\ Len(Append(q, at)) = Len(q) + 1
        /\ \A i \in 1 .. Len(q) : Append(q, at)[i] = q[i]
        /\ Append(q, at)[Len(q) + 1] = at
    BY <2>1, Appended
  <2> QED BY <1>2, <1>4, <2>2
<1>6. /\ tb'[m].tokens = level - Unit /\ tb'[m].last = at
      /\ \A o \in 1 .. Len(tb) : o # m => tb'[o] = tb[o]
  <2>1. level - Unit \in Nat /\ level - Unit <= level
    BY <1>1 DEF Unit
  <2>2. admitted' \in [Keys -> Seq(Nat)]
    <3>1. Append(q, at) \in Seq(Nat)
      BY <1>1, <1>2
    <3> QED BY <1>3, <3>1 DEF IInv, TypeOK
  <2> QED BY <2>1, <2>2, LeaveKeeps DEF Admit
<1>7. UNCHANGED <<limiter, buckets>> /\ size' = size /\ refill' = refill
  BY DEF Admit, limiter
<1> SUFFICES ASSUME NEW l \in Keys, buckets[l] # 0
             PROVE  TightAt(l)'
  BY <1>7 DEF Tight
<1>8. CASE l # k
  BY <1>1, <1>4, <1>6, <1>7, <1>8, OthersTight
<1>9. CASE l = k
  <2>1. SUFFICES \E i \in 1 .. n + 1 : UsedUp(k, i)'
    BY <1>5, <1>9 DEF TightAt
  <2>2. CASE level = size
    <3>1. (n + 1 - (n + 1) + 1) * Unit + (level - Unit) = size + (at - at) * refill
      <4> HIDE DEF q, at, level
      <4> QED BY <1>1, <1>2, <2>2 DEF Unit
    <3>2. UsedUp(k, n + 1)'
      BY <1>1, <1>5, <1>6, <1>7, <3>1 DEF UsedUp
    <3> QED BY <3>2
  <2>3. ASSUME NEW i \in 1 .. n,
               (n - i + 1) * Unit + level = size + (at - q[i]) * refill
        PROVE  UsedUp(k, i)'
    <3> DEFINE in == (at - q[i]) * refill
    <3>1. in \in Int
      <4>1. q[i] \in Int /\ at \in Int /\ refill \in Int
        <5> HIDE DEF q
        <5> QED BY <1>1, <1>2
      <4> HIDE DEF q, at
      <4> QED BY <4>1 DEF in
    <3>2. (n - i + 1) * Unit + level = size + in
      BY <2>3
    <3> HIDE DEF in, level
    <3>3. (n + 1 - i + 1) * Unit + (level - Unit) = size + in
      BY <1>1, <1>2, <3>1, <3>2 DEF Unit
    <3> USE DEF in, level
    <3> QED BY <1>1, <1>5, <1>6, <1>7, <3>3 DEF UsedUp
  <2>4. \/ level = size
        \/ \E i \in 1 .. n : (n - i + 1) * Unit + level = size + (at - q[i]) * refill
    BY <1>1, LevelTight
  <2> QED BY <2>2, <2>3, <2>4
<1> QED BY <1>8, <1>9

\* Every step keeps the buckets tight.
LEMMA NextTight == IInv /\ Tight /\ [Next]_vars => Tight'
<1> SUFFICES ASSUME IInv, Tight, [Next]_vars PROVE Tight'
  OBVIOUS
<1>1. ASSUME UNCHANGED <<limiter, buckets, tb, admitted>>
      PROVE  Tight'
  BY <1>1 DEF Tight, TightAt, UsedUp, limiter
<1>2. ASSUME NEW c \in Callers, Enter(c)
      PROVE  Tight'
  <2>1. \A n \in 1 .. Len(tb) : tb'[n].tokens = tb[n].tokens /\ tb'[n].last = tb[n].last
    BY <1>2, EnterTouches
  <2>2. UNCHANGED <<limiter, buckets, admitted>>
    BY <1>2 DEF Enter
  <2> SUFFICES ASSUME NEW l \in Keys, buckets[l] # 0
               PROVE  TightAt(l)'
    BY <2>2 DEF Tight
  <2>3. buckets[l] \in 1 .. Len(tb)
    BY DEF IInv, TypeOK
  <2> QED BY <2>1, <2>2, <2>3, TightKept
<1>3. CASE Tick
  BY <1>1, <1>3 DEF Tick
<1>4. ASSUME NEW c \in Callers, NEW k \in Keys, Arrive(c, k)
      PROVE  Tight'
  BY <1>1, <1>4 DEF Arrive
<1>5. ASSUME NEW c \in Callers, Lock(c)
      PROVE  Tight'
  BY <1>1, <1>2, <1>5 DEF Lock, Hit, Miss, LockMap
<1>6. ASSUME NEW c \in Callers, Handle(c)
      PROVE  Tight'
  BY <1>1, <1>6, CreateTight, AdmitTight, RefuseTight DEF Handle, Found, ReadClock
<1>7. CASE UNCHANGED vars
  BY <1>1, <1>7 DEF vars, limiter
<1> QED BY <1>3, <1>4, <1>5, <1>6, <1>7 DEF Next

\* A caller refused with less than a token in its bucket was refused for a
\* reason: one more request would break the bound.
LEMMA ShortOfAToken ==
  ASSUME IInv, Tight, NEW c \in Callers, Refuse(c)
  PROVE  WouldExceed(key[c], clock[c]) \/ size < Unit
<1> PICK k \in Keys : k = key[c]
  BY LevelBounds DEF Refuse, Goto
<1> PICK n \in Nat : n = Len(admitted[k])
  BY DEF IInv, TypeOK
<1> DEFINE q == admitted[k]
           at == clock[c]
           level == Level(c)
<1>1. pc[c] = "settle" /\ at \in Nat /\ level \in Nat /\ level < Unit
  BY LevelBounds DEF Refuse, Goto
<1>2. q \in Seq(Nat) /\ Len(q) = n /\ size \in Nat /\ refill \in Nat
  BY DEF IInv, TypeOK
<1>3. CASE level = size
  BY <1>1, <1>3
<1>4. ASSUME NEW i \in 1 .. n,
             (n - i + 1) * Unit + level = size + (at - q[i]) * refill
      PROVE  (n - i + 2) * Unit > size + (at - q[i]) * refill
  <2> DEFINE in == (at - q[i]) * refill
  <2> DEFINE x == (n - i + 1) * Unit
  <2>1. x \in Int /\ (n - i + 2) * Unit = x + Unit
    BY DEF Unit
  <2>2. x + level = size + in
    BY <1>4
  <2> HIDE DEF in, x, level
  <2>3. x + Unit > x + level
    BY <1>1, <2>1 DEF Unit
  <2>4. (n - i + 2) * Unit > size + in
    BY <2>1, <2>2, <2>3
  <2> QED BY <2>4 DEF in
<1>5. \/ level = size
      \/ \E i \in 1 .. n : (n - i + 1) * Unit + level = size + (at - q[i]) * refill
  BY <1>1, LevelTight
<1> QED BY <1>3, <1>4, <1>5 DEF WouldExceed

\* A bucket that cannot hold a token is one of a slow rate whose burst was left
\* to the default (ratelimit.go:50-68).
Rated == size < Unit => NeverAdmits

LEMMA InitRated == Init => Rated
<1> SUFFICES ASSUME Init, size < Unit PROVE NeverAdmits
  BY DEF Rated
<1> PICK s \in Settings : refill = Rate(s) /\ size = Burst(s) * Unit
  BY DEF Init
<1>1. s \in [number : Nat, unit : {"s", "m", "none"}, short : BOOLEAN, burst : Int]
  BY SettingsAssumption
<1>2. s.burst \in Int /\ Rate(s) \in Nat
  BY <1>1, Sizes
<1> DEFINE r == Rate(s)
<1> HIDE DEF r
<1>3. Burst(s) = IF s.burst <= 0 THEN r \div Unit ELSE s.burst
  BY DEF Burst, r
<1>4. s.burst <= 0
  BY <1>2, <1>3 DEF Unit
<1>5. r \in Nat /\ (r \div 60) * 60 < 60
  BY <1>2, <1>3, <1>4 DEF Unit, r
<1>6. r \div 60 = 0 /\ r < 60
  BY <1>5
<1> QED BY <1>3, <1>4, <1>6 DEF NeverAdmits, Unit, r

\* No step changes rate or burst.
LEMMA NextRated == Rated /\ [Next]_vars => Rated'
<1> SUFFICES ASSUME Rated, [Next]_vars PROVE Rated'
  OBVIOUS
<1>1. UNCHANGED limiter
  BY DEF Next, Tick, Arrive, Lock, Hit, Miss, LockMap, Enter, Handle, Found, Create,
     ReadClock, Admit, Refuse, vars, limiter
<1> QED BY <1>1 DEF Rated, NeverAdmits, limiter

\* A step that ends a call of allow and lets nothing through is a refusal.
LEMMA RefusalSteps ==
  ASSUME IInv, [Next]_vars, NEW c \in Callers,
         pc[c] = "settle", pc'[c] = "idle", UNCHANGED admitted
  PROVE  Refuse(c)
<1>1. pc \in [Callers -> Steps] /\ admitted \in [Keys -> Seq(Nat)]
  BY DEF IInv, TypeOK
<1>2. ASSUME NEW d \in Callers, Admit(d)
      PROVE  FALSE
  <2> PICK k \in Keys : k = key[d]
    BY <1>2, LevelBounds DEF Admit, Goto
  <2>1. admitted'[k] = Append(admitted[k], clock[d])
    BY <1>1, <1>2 DEF Admit
  <2>2. admitted[k] \in Seq(Nat) /\ clock[d] \in Nat
    BY <1>1 DEF IInv, TypeOK
  <2>3. Len(admitted'[k]) = Len(admitted[k]) + 1 /\ Len(admitted[k]) \in Nat
    BY <2>1, <2>2
  <2> QED BY <2>3
<1>3. ASSUME NEW d \in Callers, Refuse(d)
      PROVE  d = c
  BY <1>1, <1>3 DEF Refuse, Goto
<1>4. \A d \in Callers : ~Lock(d) /\ ~Found(d) /\ ~Create(d) /\ ~ReadClock(d)
  BY <1>1 DEF Lock, Hit, Miss, LockMap, Enter, Found, Create, ReadClock, Goto
<1>5. ~Tick /\ ~UNCHANGED vars /\ \A d \in Callers, k \in Keys : ~Arrive(d, k)
  BY <1>1 DEF Tick, vars, Arrive, Goto
<1> QED BY <1>2, <1>3, <1>4, <1>5 DEF Next, Handle

\* A request is refused only if letting it through would exceed the bound of its
\* connection, or by a limiter whose default burst came out as nothing: it keeps
\* nothing back otherwise (ratelimit.go:26-41, 50-68).
THEOREM RefusalJust == Spec => RefusedOnlyWhenSpent
<1>1. Init => Tight /\ Rated
  BY InitTight, InitRated
<1>2. IInv /\ Tight /\ Rated /\ [Next]_vars => (Tight /\ Rated)'
  BY NextTight, NextRated
<1>3. ASSUME IInv, Tight, Rated, [Next]_vars
      PROVE  [\A c \in Callers :
                pc[c] = "settle" /\ pc'[c] = "idle" /\ UNCHANGED admitted
                  => WouldExceed(key[c], clock[c]) \/ NeverAdmits]_vars
  BY <1>3, RefusalSteps, ShortOfAToken DEF Rated
<1> QED BY <1>1, <1>2, <1>3, BudgetKept, PTL DEF Spec, RefusedOnlyWhenSpent

-----------------------------------------------------------------------------
\* A bucket that is locked is locked by a caller that works on it.
Locked == \A n \in 1 .. Len(tb) : tb[n].holder # NoCaller =>
            pc[tb[n].holder] \in {"read", "settle"} /\ mine[tb[n].holder] = n

\* A full bucket takes no more.
Capped(x) == IF x > size THEN size ELSE x

\* How the balance of an address follows from its bucket: there is none yet, or
\* nobody has read the clock for it, or a caller has.
Balances ==
  \A k \in Keys :
    /\ Balance(k) \in 0 .. size
    /\ buckets[k] = 0 => Balance(k) = size
    /\ buckets[k] # 0 /\ (\A c \in Callers : pc[c] = "settle" => key[c] # k) =>
         LET b == tb[buckets[k]]
         IN  Balance(k) = Capped(b.tokens + (now - b.last) * refill)
    /\ \A c \in Callers : pc[c] = "settle" /\ key[c] = k =>
         Balance(k) = Capped(Rest(c) + (now - clock[c]) * refill)

\* A bucket is locked by who enters it, and free when he leaves.
LEMMA NextLocked == IInv /\ Locked /\ [Next]_vars => Locked'
<1> SUFFICES ASSUME IInv, Locked, [Next]_vars PROVE Locked'
  OBVIOUS
<1>1. ASSUME UNCHANGED tb, NEW c \in Callers, pc[c] \notin {"read", "settle"},
             \A d \in Callers \ {c} : pc'[d] = pc[d] /\ mine'[d] = mine[d]
      PROVE  Locked'
  <2>1. \A n \in 1 .. Len(tb) : tb[n].holder \in Callers \cup {NoCaller}
    BY BucketTyped DEF IInv, Bucket
  <2> QED BY <1>1, <2>1 DEF Locked
<1>2. CASE Tick \/ UNCHANGED vars
  BY <1>2 DEF Locked, Tick, vars
<1>3. ASSUME NEW c \in Callers,
             (\E k \in Keys : Arrive(c, k)) \/ Hit(c) \/ Miss(c) \/ LockMap(c) \/ Found(c)
      PROVE  Locked'
  BY <1>1, <1>3 DEF IInv, TypeOK, Arrive, Hit, Miss, LockMap, Found, Goto
<1>4. ASSUME NEW c \in Callers, ReadClock(c)
      PROVE  Locked'
  <2>1. \A n \in 1 .. Len(tb) : tb[n].holder \in Callers \cup {NoCaller}
    BY BucketTyped DEF IInv, Bucket
  <2> QED BY <1>4, <2>1 DEF IInv, TypeOK, Locked, ReadClock, Goto
<1>5. ASSUME NEW c \in Callers, Enter(c)
      PROVE  Locked'
  <2>1. \A n \in 1 .. Len(tb) : tb[n].holder \in Callers \cup {NoCaller}
    BY BucketTyped DEF IInv, Bucket
  <2>2. pc[c] = "enter" /\ pc' = [pc EXCEPT ![c] = "read"] /\ mine' = mine
    BY <1>5 DEF Enter, Goto
  <2>3. Len(tb') = Len(tb) /\ tb'[mine[c]].holder = c
        /\ \A n \in 1 .. Len(tb) : n # mine[c] => tb'[n].holder = tb[n].holder
    BY <1>5, EnterTouches
  <2>4. pc'[c] = "read" /\ \A d \in Callers : d # c => pc'[d] = pc[d]
    BY <2>2 DEF IInv, TypeOK
  <2>5. \A n \in 1 .. Len(tb) : tb[n].holder # c
    BY <2>2, CallersAssumption DEF Locked
  <2>6. ASSUME NEW n \in 1 .. Len(tb'), tb'[n].holder # NoCaller
        PROVE  pc'[tb'[n].holder] \in {"read", "settle"} /\ mine'[tb'[n].holder] = n
    <3>1. CASE n = mine[c]
      BY <2>2, <2>3, <2>4, <3>1
    <3>2. CASE n # mine[c]
      <4>1. n \in 1 .. Len(tb) /\ tb'[n].holder = tb[n].holder
        BY <2>3, <2>6, <3>2
      <4> QED BY <2>1, <2>2, <2>4, <2>5, <2>6, <4>1 DEF Locked
    <3> QED BY <3>1, <3>2
  <2> QED BY <2>6 DEF Locked
<1>6. ASSUME NEW c \in Callers, Create(c)
      PROVE  Locked'
  <2>1. \A n \in 1 .. Len(tb) : tb[n].holder \in Callers \cup {NoCaller}
    BY BucketTyped DEF IInv, Bucket
  <2>2. NewBucket(now) \in Bucket
    BY DEF IInv, TypeOK, NewBucket, Bucket
  <2>3. /\ Len(tb') = Len(tb) + 1 /\ tb'[Len(tb) + 1] = NewBucket(now)
        /\ \A n \in 1 .. Len(tb) : tb'[n] = tb[n]
    BY <1>6, <2>2 DEF IInv, TypeOK, Create
  <2>4. tb'[Len(tb) + 1].holder = NoCaller
    BY <2>3 DEF NewBucket
  <2>5. \A d \in Callers : d # c => pc'[d] = pc[d] /\ mine'[d] = mine[d]
    BY <1>6 DEF IInv, TypeOK, Create, Goto
  <2>6. \A n \in 1 .. Len(tb) : tb[n].holder # c
    BY <1>6, CallersAssumption DEF Locked, Create, Goto
  <2>7. Len(tb) \in Nat
    BY DEF IInv, TypeOK
  <2> QED BY <2>1, <2>3, <2>4, <2>5, <2>6, <2>7 DEF Locked
<1>7. ASSUME NEW c \in Callers, Admit(c) \/ Refuse(c)
      PROVE  Locked'
  <2> DEFINE m == mine[c]
  <2>1. PICK t : Leave(c, t) /\ Goto(c, "settle", "idle")
    BY <1>7 DEF Admit, Refuse
  <2>2. m \in 1 .. Len(tb) /\ tb[m].holder = c
    BY <2>1 DEF IInv, TypeOK, MineWhen, Holding, Goto
  <2>3. /\ Len(tb') = Len(tb) /\ tb'[m].holder = NoCaller
        /\ \A n \in 1 .. Len(tb) : n # m => tb'[n] = tb[n]
    BY <2>1, <2>2 DEF IInv, TypeOK, Leave
  <2>4. \A d \in Callers : d # c => pc'[d] = pc[d] /\ mine'[d] = mine[d]
    BY <2>1 DEF IInv, TypeOK, Leave, Goto
  <2>5. \A n \in 1 .. Len(tb) : n # m /\ tb[n].holder # NoCaller => tb[n].holder # c
    BY <2>2 DEF Locked
  <2>6. \A n \in 1 .. Len(tb) : tb[n].holder \in Callers \cup {NoCaller}
    BY BucketTyped DEF IInv, Bucket
  <2> QED BY <2>3, <2>4, <2>5, <2>6 DEF Locked
<1> QED BY <1>2, <1>3, <1>4, <1>5, <1>6, <1>7 DEF Next, Lock, Handle

\* The balance, read off the bucket.
LEMMA BalanceRead == IInv /\ Locked => Balances
<1> SUFFICES ASSUME IInv, Locked, NEW k \in Keys
             PROVE  /\ Balance(k) \in 0 .. size
                    /\ buckets[k] = 0 => Balance(k) = size
                    /\ buckets[k] # 0 /\ (\A c \in Callers : pc[c] = "settle" => key[c] # k) =>
                         LET b == tb[buckets[k]]
                         IN  Balance(k) = Capped(b.tokens + (now - b.last) * refill)
                    /\ \A c \in Callers : pc[c] = "settle" /\ key[c] = k =>
                         Balance(k) = Capped(Rest(c) + (now - clock[c]) * refill)
  BY DEF Balances
<1> DEFINE b == tb[buckets[k]]
<1>1. size \in Nat /\ refill \in Nat /\ now \in Nat /\ buckets[k] \in 0 .. Len(tb)
  BY TimeAssumption DEF IInv, TypeOK
<1>2. buckets[k] = 0 => Balance(k) = size
  BY DEF Balance
<1>3. ASSUME buckets[k] # 0, \A c \in Callers : pc[c] = "settle" => key[c] # k
      PROVE  Balance(k) = Capped(b.tokens + (now - b.last) * refill)
  <2>1. buckets[k] \in 1 .. Len(tb)
    BY <1>1, <1>3
  <2>2. b.holder \in Callers \cup {NoCaller}
    BY <2>1, BucketTyped DEF IInv, Bucket
  <2>3. ASSUME b.holder # NoCaller, pc[b.holder] = "settle"
        PROVE  FALSE
    <3>1. b.holder \in Callers /\ mine[b.holder] = buckets[k]
      BY <2>1, <2>2, <2>3 DEF Locked
    <3>2. mine[b.holder] = buckets[key[b.holder]] /\ key[b.holder] \in Keys
      BY <1>3, <3>1 DEF IInv, TypeOK, OneBucket
    <3>3. key[b.holder] = k
      BY <1>3, <3>1, <3>2 DEF IInv, Distinct
    <3> QED BY <1>3, <2>3, <3>1, <3>3
  <2> QED BY <1>3, <2>3 DEF Balance, Capped
<1>4. ASSUME NEW c \in Callers, pc[c] = "settle", key[c] = k
      PROVE  /\ Balance(k) = Capped(Rest(c) + (now - clock[c]) * refill)
             /\ buckets[k] # 0
             /\ Rest(c) \in Nat /\ clock[c] \in Nat /\ clock[c] <= now
  <2>1. mine[c] \in 1 .. Len(tb) /\ mine[c] = buckets[k] /\ Level(c) \in Nat /\ clock[c] \in Nat
    BY <1>4, LevelBounds
  <2>2. b.holder = c /\ buckets[k] # 0
    BY <1>1, <1>4, <2>1 DEF IInv, Holding
  <2>3. c # NoCaller
    BY CallersAssumption
  <2>4. Balance(k) = Capped(Rest(c) + (now - clock[c]) * refill)
    BY <1>4, <2>2, <2>3 DEF Balance, Capped
  <2>5. Rest(c) \in Nat
    BY <2>1 DEF Rest, Unit
  <2>6. clock[c] <= now
    BY <1>4 DEF IInv, Timely
  <2> QED BY <2>1, <2>2, <2>4, <2>5, <2>6
<1>5. \A x \in Nat : Capped(x) \in 0 .. size
  BY <1>1 DEF Capped
<1>6. Balance(k) \in 0 .. size
  <2>1. CASE buckets[k] = 0
    BY <1>1, <1>2, <2>1
  <2>2. CASE buckets[k] # 0 /\ \A c \in Callers : pc[c] = "settle" => key[c] # k
    <3>1. b.tokens \in Nat /\ b.last \in Nat /\ b.last <= now
      BY <1>1, <2>2, BucketTyped DEF IInv, Contents
    <3>2. (now - b.last) * refill \in Nat
      BY <1>1, <3>1, FlowsIn
    <3>3. b.tokens + (now - b.last) * refill \in Nat
      BY <3>1, <3>2
    <3> QED BY <1>3, <1>5, <2>2, <3>3
  <2>3. CASE \E c \in Callers : pc[c] = "settle" /\ key[c] = k
    <3>1. PICK c \in Callers : pc[c] = "settle" /\ key[c] = k
      BY <2>3
    <3>2. (now - clock[c]) * refill \in Nat
      BY <1>1, <1>4, <3>1, FlowsIn
    <3>3. Rest(c) + (now - clock[c]) * refill \in Nat
      BY <1>4, <3>1, <3>2
    <3> QED BY <1>4, <1>5, <3>1, <3>3
  <2> QED BY <2>1, <2>2, <2>3
<1> QED BY <1>2, <1>3, <1>4, <1>6

-----------------------------------------------------------------------------
\* The state of the abstract bucket.
Levels == [k \in Keys |-> Balance(k)]
Calls == [c \in Callers |-> IF pc[c] = "idle" THEN <<>> ELSE <<key[c], Answer(c)>>]

\* What a step leaves alone of a caller about to settle its request.
Unmoved(c) ==
  /\ pc'[c] = pc[c] /\ key'[c] = key[c] /\ mine'[c] = mine[c] /\ clock'[c] = clock[c]
  /\ tb'[mine[c]].tokens = tb[mine[c]].tokens /\ tb'[mine[c]].last = tb[mine[c]].last

\* Its answer stands.
LEMMA SameAnswer ==
  ASSUME NEW c \in Callers, Unmoved(c), UNCHANGED limiter
  PROVE  Level(c)' = Level(c) /\ Rest(c)' = Rest(c) /\ Answer(c)' = Answer(c)
<1>1. Level(c)' = Level(c)
  BY DEF Unmoved, Level, limiter
<1> QED BY <1>1 DEF Rest, Answer, Unmoved

\* The balance of an address nobody is at work for stays at the same moment.
LEMMA SameBalance ==
  ASSUME Balances, Balances', NEW k \in Keys, UNCHANGED <<now, limiter>>,
         buckets'[k] = buckets[k],
         buckets[k] # 0 => /\ tb'[buckets[k]].tokens = tb[buckets[k]].tokens
                           /\ tb'[buckets[k]].last = tb[buckets[k]].last,
         \A c \in Callers : pc[c] = "settle" /\ key[c] = k => Unmoved(c),
         \A c \in Callers : pc'[c] = "settle" /\ key'[c] = k => pc[c] = "settle" /\ key[c] = k
  PROVE  Balance(k)' = Balance(k)
<1>1. CASE buckets[k] = 0
  BY <1>1 DEF Balances, limiter
<1>2. CASE buckets[k] # 0 /\ \A c \in Callers : pc[c] = "settle" => key[c] # k
  <2>1. \A c \in Callers : pc'[c] = "settle" => key'[c] # k
    BY <1>2
  <2>2. Balance(k) = Capped(tb[buckets[k]].tokens + (now - tb[buckets[k]].last) * refill)
    BY <1>2 DEF Balances
  <2>3. Balance(k)' = Capped(tb[buckets[k]].tokens + (now - tb[buckets[k]].last) * refill)'
    BY <1>2, <2>1 DEF Balances
  <2> QED BY <1>2, <2>2, <2>3 DEF Capped, limiter
<1>3. CASE \E c \in Callers : pc[c] = "settle" /\ key[c] = k
  <2>1. PICK c \in Callers : pc[c] = "settle" /\ key[c] = k
    BY <1>3
  <2>2. Unmoved(c)
    BY <2>1
  <2>3. Balance(k) = Capped(Rest(c) + (now - clock[c]) * refill)
    BY <2>1 DEF Balances
  <2>4. Balance(k)' = Capped(Rest(c) + (now - clock[c]) * refill)'
    BY <2>1, <2>2 DEF Balances, Unmoved
  <2>5. Rest(c)' = Rest(c) /\ clock'[c] = clock[c]
    BY <2>2, SameAnswer DEF Unmoved
  <2> QED BY <2>3, <2>4, <2>5 DEF Capped, limiter
<1> QED BY <1>1, <1>2, <1>3

\* Callers at work for two addresses are at work in two buckets.
LEMMA Apart ==
  ASSUME IInv, NEW c \in Callers, NEW d \in Callers, c # d,
         pc[c] \in {"read", "settle"}, pc[d] \in {"read", "settle"}
  PROVE  /\ mine[c] \in 1 .. Len(tb) /\ mine[d] \in 1 .. Len(tb) /\ mine[c] # mine[d]
         /\ key[c] # key[d]
<1>1. mine[c] \in 1 .. Len(tb) /\ mine[d] \in 1 .. Len(tb)
  BY DEF IInv, TypeOK, MineWhen
<1>2. tb[mine[c]].holder = c /\ tb[mine[d]].holder = d
  BY DEF IInv, Holding
<1>3. mine[c] = buckets[key[c]] /\ mine[d] = buckets[key[d]]
  BY <1>1 DEF IInv, OneBucket
<1>4. mine[c] # mine[d]
  BY <1>2
<1> QED BY <1>1, <1>3, <1>4

\* Looking a bucket up, making it and locking it are no steps of the abstract
\* bucket (ratelimit.go:27, 71-86).
LEMMA QuietSteps ==
  ASSUME IInv, Balances, Balances', NEW c \in Callers,
         Lock(c) \/ Found(c) \/ Create(c)
  PROVE  UNCHANGED <<refill, size, Levels, Calls>>
<1>1. UNCHANGED <<now, limiter, key, clock>>
  BY DEF Lock, Hit, Miss, LockMap, Enter, Found, Create, limiter
<1>2. /\ pc[c] \in {"lookup", "lock", "recheck", "enter"}
      /\ pc'[c] \in {"lock", "recheck", "enter", "read"}
      /\ \A d \in Callers : d # c => pc'[d] = pc[d] /\ mine'[d] = mine[d]
  BY DEF Lock, Hit, Miss, LockMap, Enter, Found, Create, Goto, IInv, TypeOK
<1>3. \A n \in 1 .. Len(tb) : tb'[n].tokens = tb[n].tokens /\ tb'[n].last = tb[n].last
  <2>1. CASE Enter(c)
    BY <2>1, EnterTouches
  <2>2. CASE Create(c)
    <3>1. NewBucket(now) \in Bucket
      BY DEF IInv, TypeOK, NewBucket, Bucket
    <3> QED BY <2>2, <3>1 DEF IInv, TypeOK, Create
  <2> QED BY <2>1, <2>2 DEF Lock, Hit, Miss, LockMap, Found
<1>4. \A d \in Callers : pc[d] = "settle" => Unmoved(d)
  <2>1. ASSUME NEW d \in Callers, pc[d] = "settle"
        PROVE  d # c /\ mine[d] \in 1 .. Len(tb)
    BY <1>2, <2>1, LevelBounds
  <2> QED BY <1>1, <1>2, <1>3, <2>1 DEF Unmoved
<1>5. \A d \in Callers : pc'[d] = "settle" => pc[d] = "settle"
  BY <1>2
<1>6. ASSUME NEW k \in Keys
      PROVE  Balance(k)' = Balance(k)
  <2>1. CASE Create(c) /\ k = key[c]
    <3> DEFINE n == Len(tb) + 1
    <3>1. NewBucket(now) \in Bucket /\ n \in Nat \ {0} /\ buckets[k] = 0 /\ now \in Nat
      BY <2>1, TimeAssumption DEF IInv, TypeOK, NewBucket, Bucket, Create
    <3>2. tb'[n] = NewBucket(now) /\ Len(tb') = n
      BY <2>1, <3>1 DEF IInv, TypeOK, Create
    <3>3. buckets'[k] = n
      BY <2>1, <3>2 DEF IInv, TypeOK, Create
    <3>4. \A d \in Callers : pc[d] = "settle" => key[d] # k
      BY <3>1 DEF IInv, TypeOK, MineWhen, OneBucket
    <3>5. \A d \in Callers : pc'[d] = "settle" => key'[d] # k
      BY <1>1, <1>5, <3>4
    <3>6. Balance(k)' = Capped(tb[buckets[k]].tokens + (now - tb[buckets[k]].last) * refill)'
      BY <3>1, <3>3, <3>5 DEF Balances
    <3>7. tb'[buckets'[k]].tokens = size /\ tb'[buckets'[k]].last = now
      BY <3>2, <3>3 DEF NewBucket
    <3>8. size' = size /\ refill' = refill /\ now' = now /\ size \in Nat /\ refill \in Nat
      BY <1>1 DEF limiter, IInv, TypeOK
    <3>9. Balance(k)' = size
      BY <3>1, <3>6, <3>7, <3>8 DEF Capped
    <3> QED BY <3>1, <3>9 DEF Balances
  <2>2. CASE ~(Create(c) /\ k = key[c])
    <3>1. buckets'[k] = buckets[k]
      BY <2>2 DEF IInv, TypeOK, Lock, Hit, Miss, LockMap, Enter, Found, Create
    <3>2. buckets[k] # 0 => /\ tb'[buckets[k]].tokens = tb[buckets[k]].tokens
                            /\ tb'[buckets[k]].last = tb[buckets[k]].last
      BY <1>3 DEF IInv, TypeOK
    <3> QED BY <1>1, <1>4, <1>5, <3>1, <3>2, SameBalance
  <2> QED BY <2>1, <2>2
<1>7. Levels' = Levels
  BY <1>6 DEF Levels
<1>8. ASSUME NEW d \in Callers
      PROVE  (pc'[d] = "idle" <=> pc[d] = "idle") /\ Answer(d)' = Answer(d)
  <2>1. CASE pc[d] = "settle"
    BY <1>1, <1>4, <2>1, SameAnswer DEF Unmoved
  <2>2. CASE pc[d] # "settle"
    BY <1>2, <2>2 DEF Answer
  <2> QED BY <2>1, <2>2
<1>9. Calls' = Calls
  BY <1>1, <1>8 DEF Calls
<1> QED BY <1>1, <1>7, <1>9 DEF limiter

\* A bucket filled twice is filled by both.
LEMMA FillsUp ==
  ASSUME NEW x \in Int, NEW y \in Nat, size \in Nat
  PROVE  Capped(x + y) = IF Capped(x) + y > size THEN size ELSE Capped(x) + y
  BY DEF Capped

\* The clock fills every bucket, made or not, refilled or not, settled or not
\* (ratelimit.go:31-36).
LEMMA Flows ==
  ASSUME IInv, Balances, Balances', Tick
  PROVE  /\ \A k \in Keys : Balance(k)' = IF Balance(k) + refill > size
                                          THEN size ELSE Balance(k) + refill
         /\ UNCHANGED <<refill, size, Calls>>
<1>1. /\ UNCHANGED <<refill, size, buckets, tb, pc, key, mine, clock>>
      /\ now' = now + 1 /\ now \in Nat /\ size \in Nat /\ refill \in Nat \ {0}
  BY DEF IInv, TypeOK, Tick, limiter
<1>2. \A c \in Callers : Unmoved(c)
  BY <1>1 DEF Unmoved
<1>3. \A c \in Callers : Rest(c)' = Rest(c) /\ Answer(c)' = Answer(c)
  BY <1>1, <1>2, SameAnswer DEF limiter
<1>4. ASSUME NEW t \in Int, NEW l \in Nat
      PROVE  Capped(t + (now + 1 - l) * refill)
               = IF Capped(t + (now - l) * refill) + refill > size
                 THEN size ELSE Capped(t + (now - l) * refill) + refill
  <2>1. (now + 1 - l) * refill = (now - l) * refill + refill
    BY <1>1
  <2>2. (now - l) * refill \in Int
    BY <1>1
  <2>3. t + (now + 1 - l) * refill = (t + (now - l) * refill) + refill
        /\ t + (now - l) * refill \in Int
    BY <1>1, <2>1, <2>2
  <2> HIDE DEF Capped
  <2> QED BY <1>1, <2>3, FillsUp
<1>5. ASSUME NEW k \in Keys
      PROVE  Balance(k)' = IF Balance(k) + refill > size THEN size ELSE Balance(k) + refill
  <2> DEFINE b == tb[buckets[k]]
  <2>1. CASE buckets[k] = 0
    <3>1. Balance(k) = size /\ Balance(k)' = size
      BY <1>1, <2>1 DEF Balances
    <3> QED BY <1>1, <3>1
  <2>2. CASE buckets[k] # 0 /\ \A c \in Callers : pc[c] = "settle" => key[c] # k
    <3>1. b.tokens \in Int /\ b.last \in Nat
      BY <2>2, BucketTyped DEF IInv, TypeOK
    <3>2. Balance(k) = Capped(b.tokens + (now - b.last) * refill)
      BY <2>2 DEF Balances
    <3>3. Balance(k)' = Capped(b.tokens + (now - b.last) * refill)'
      BY <1>1, <2>2 DEF Balances
    <3>4. Capped(b.tokens + (now - b.last) * refill)'
            = Capped(b.tokens + (now + 1 - b.last) * refill)
      <4> DEFINE x == now - b.last
                 y == now + 1 - b.last
      <4>1. size' = size /\ refill' = refill /\ x' = y /\ b.tokens' = b.tokens
        BY <1>1, <3>1
      <4> HIDE DEF x, y
      <4>2. Capped(b.tokens + x * refill)' = Capped(b.tokens + y * refill)
        BY <4>1 DEF Capped
      <4> QED BY <4>2 DEF x, y
    <3>5. Balance(k)' = Capped(b.tokens + (now + 1 - b.last) * refill)
      BY <3>3, <3>4, Zenon
    <3> QED BY <1>4, <3>1, <3>2, <3>5
  <2>3. CASE \E c \in Callers : pc[c] = "settle" /\ key[c] = k
    <3>1. PICK c \in Callers : pc[c] = "settle" /\ key[c] = k
      BY <2>3
    <3>2. Balance(k) = Capped(Rest(c) + (now - clock[c]) * refill)
      BY <3>1 DEF Balances
    <3>3. Balance(k)' = Capped(Rest(c) + (now - clock[c]) * refill)'
      BY <1>1, <3>1 DEF Balances
    <3>4. Rest(c) \in Int /\ clock[c] \in Nat
      BY <3>1, LevelBounds DEF Rest, Unit
    <3>5. Balance(k)' = Capped(Rest(c) + (now + 1 - clock[c]) * refill)
      <4> DEFINE x == now - clock[c]
                 y == now + 1 - clock[c]
      <4>1. size' = size /\ refill' = refill /\ x' = y /\ Rest(c)' = Rest(c)
        BY <1>1, <1>3, <3>4
      <4> HIDE DEF x, y
      <4>2. Capped(Rest(c) + x * refill)' = Capped(Rest(c) + y * refill)
        BY <4>1 DEF Capped
      <4> QED BY <3>3, <4>2 DEF x, y
    <3> QED BY <1>4, <3>2, <3>4, <3>5
  <2> QED BY <2>1, <2>2, <2>3
<1>6. Calls' = Calls
  BY <1>1, <1>3 DEF Calls
<1> QED BY <1>1, <1>5, <1>6

\* Who waits for a bucket, or has not arrived, is not settling: his arrival
\* changes no balance (ratelimit.go:92-94).
LEMMA Asks ==
  ASSUME IInv, Balances, Balances', NEW c \in Callers, NEW k \in Keys, Arrive(c, k)
  PROVE  /\ Calls[c] = << >> /\ Calls' = [Calls EXCEPT ![c] = <<k, "asked">>]
         /\ UNCHANGED <<refill, size, Levels>>
<1>1. /\ UNCHANGED <<now, refill, size, buckets, tb, mine, clock>>
      /\ pc[c] = "idle" /\ pc'[c] = "lookup" /\ key'[c] = k
      /\ \A d \in Callers : d # c => pc'[d] = pc[d] /\ key'[d] = key[d]
  BY DEF IInv, TypeOK, Arrive, Goto, limiter
<1>2. \A d \in Callers : d # c => Unmoved(d)
  BY <1>1 DEF Unmoved
<1>3. ASSUME NEW l \in Keys
      PROVE  Balance(l)' = Balance(l)
  <2>1. \A d \in Callers : (pc'[d] = "settle" <=> pc[d] = "settle")
                          /\ (pc[d] = "settle" => key'[d] = key[d] /\ Unmoved(d))
    BY <1>1, <1>2
  <2> QED BY <1>1, <2>1, SameBalance DEF limiter
<1>4. Levels' = Levels
  BY <1>3 DEF Levels
<1>5. Answer(c)' = "asked"
  BY <1>1 DEF Answer
<1>6. \A d \in Callers : d # c => Answer(d)' = Answer(d)
  BY <1>1, <1>2, SameAnswer DEF limiter
<1>7. Calls' = [Calls EXCEPT ![c] = <<k, "asked">>]
  BY <1>1, <1>5, <1>6 DEF Calls
<1> QED BY <1>1, <1>4, <1>7 DEF Calls

\* A request is decided when it reads the clock: by what the bucket of its
\* address holds, and nobody else's (ratelimit.go:30-41).
LEMMA Decides ==
  ASSUME IInv, IInv', Balances, Balances', NEW c \in Callers, ReadClock(c)
  PROVE  LET k == key[c]
             v == IF Balance(k) >= Unit THEN "granted" ELSE "denied"
             l == IF Balance(k) >= Unit THEN Balance(k) - Unit ELSE Balance(k)
         IN  /\ k \in Keys
             /\ Calls[c] = <<k, "asked">> /\ Calls' = [Calls EXCEPT ![c] = <<k, v>>]
             /\ Levels' = [Levels EXCEPT ![k] = l]
             /\ UNCHANGED <<refill, size>>
<1>0. PICK k \in Keys : k = key[c]
  BY DEF IInv, TypeOK
<1> DEFINE b == tb[mine[c]]
           l == IF Balance(k) >= Unit THEN Balance(k) - Unit ELSE Balance(k)
<1>1. /\ UNCHANGED <<now, refill, size, buckets, tb, key, mine>>
      /\ pc[c] = "read" /\ pc'[c] = "settle" /\ clock'[c] = now
      /\ \A d \in Callers : d # c => pc'[d] = pc[d] /\ clock'[d] = clock[d]
  BY DEF IInv, TypeOK, ReadClock, Goto, limiter
<1>2. /\ mine[c] = buckets[k] /\ buckets[k] \in 1 .. Len(tb)
      /\ now \in Nat /\ size \in Nat /\ refill \in Nat
  BY <1>0, <1>1, TimeAssumption DEF IInv, TypeOK, MineWhen, OneBucket
<1>3. \A d \in Callers : pc[d] = "settle" => key[d] # k /\ d # c
  BY <1>0, <1>1, Apart
<1>4. Balance(k) = Capped(b.tokens + (now - b.last) * refill) /\ Balance(k) \in 0 .. size
  BY <1>2, <1>3 DEF Balances
<1>5. Level(c)' = Balance(k)
  BY <1>1, <1>4, Zenon DEF Level, Capped
<1>6. Rest(c)' = l
  BY <1>5 DEF Rest
<1>7. Balance(k)' = l
  <2>1. Balance(k)' = Capped(Rest(c) + (now - clock[c]) * refill)'
    BY <1>0, <1>1, <1>2 DEF Balances
  <2>2. Balance(k)' = IF l + (now - now) * refill > size THEN size ELSE l + (now - now) * refill
    BY <1>1, <1>6, <2>1, Zenon DEF Capped
  <2>3. l \in 0 .. size /\ (now - now) * refill = 0
    BY <1>2, <1>4 DEF Unit
  <2> HIDE DEF l
  <2> QED BY <1>2, <2>2, <2>3
<1>8. \A d \in Callers : d # c => Unmoved(d)
  BY <1>1 DEF Unmoved
<1>9. ASSUME NEW m \in Keys, m # k
      PROVE  Balance(m)' = Balance(m)
  <2>1. \A d \in Callers : pc'[d] = "settle" /\ key'[d] = m => pc[d] = "settle" /\ key[d] = m
    BY <1>0, <1>1, <1>9
  <2>2. \A d \in Callers : pc[d] = "settle" => Unmoved(d)
    BY <1>3, <1>8
  <2> QED BY <1>1, <2>1, <2>2, SameBalance DEF limiter
<1>10. Levels' = [Levels EXCEPT ![k] = l]
  <2>1. \A m \in Keys : Balance(m)' = IF m = k THEN l ELSE Balance(m)
    BY <1>7, <1>9
  <2> HIDE DEF l
  <2> QED BY <2>1, Zenon DEF Levels
<1>11. \A d \in Callers : d # c => Answer(d)' = Answer(d)
  BY <1>1, <1>8, SameAnswer DEF limiter
<1>12. Answer(c) = "asked" /\ Answer(c)' = IF Balance(k) >= Unit THEN "granted" ELSE "denied"
  BY <1>1, <1>5 DEF Answer
<1>13. Calls' = [Calls EXCEPT ![c] = <<k, IF Balance(k) >= Unit THEN "granted" ELSE "denied">>]
  BY <1>0, <1>1, <1>11, <1>12 DEF Calls
<1>14. Calls[c] = <<k, "asked">>
  BY <1>0, <1>1, <1>12 DEF Calls
<1> QED BY <1>0, <1>1, <1>10, <1>13, <1>14

\* What settling leaves in the bucket is what reading the clock made of it
\* (ratelimit.go:36-41).
LEMMA Settles ==
  ASSUME IInv, Balances, Balances', NEW c \in Callers, Admit(c) \/ Refuse(c)
  PROVE  /\ key[c] \in Keys
         /\ Calls[c] \in {<<key[c], "granted">>, <<key[c], "denied">>}
         /\ Calls' = [Calls EXCEPT ![c] = << >>]
         /\ UNCHANGED <<refill, size, Levels>>
<1>0. PICK k \in Keys : k = key[c]
  BY DEF IInv, TypeOK
<1>1. pc[c] = "settle" /\ UNCHANGED <<now, refill, size, buckets>> /\ Leave(c, Rest(c))
  <2>1. pc[c] = "settle" /\ UNCHANGED <<now, refill, size, buckets>>
    BY DEF Admit, Refuse, Goto, limiter
  <2>2. Level(c) \in Nat
    BY <2>1, LevelBounds
  <2>3. CASE Admit(c)
    BY <2>1, <2>3 DEF Admit, Rest
  <2>4. CASE Refuse(c)
    <3>1. ~(Level(c) >= Unit)
      BY <2>2, <2>4 DEF Refuse, Unit
    <3> QED BY <2>1, <2>4, <3>1 DEF Refuse, Rest
  <2> QED BY <2>3, <2>4
<1>2. /\ mine[c] = buckets[k] /\ buckets[k] \in 1 .. Len(tb)
      /\ Rest(c) \in Nat /\ clock[c] \in Nat
  BY <1>0, <1>1, LevelBounds DEF Rest, Unit
<1>3. /\ pc'[c] = "idle"
      /\ \A d \in Callers : d # c => /\ pc'[d] = pc[d] /\ key'[d] = key[d]
                                    /\ mine'[d] = mine[d] /\ clock'[d] = clock[d]
  BY DEF IInv, TypeOK, Admit, Refuse, Goto, Leave
<1>4. \A n \in 1 .. Len(tb) : n # mine[c] => tb'[n] = tb[n]
  BY <1>1, <1>2 DEF IInv, TypeOK, Leave
<1>5. tb'[mine[c]].tokens = Rest(c) /\ tb'[mine[c]].last = clock[c]
  <2>1. mine[c] \in DOMAIN tb
    BY <1>2 DEF IInv, TypeOK
  <2>2. tb'[mine[c]] = [tokens |-> Rest(c), last |-> clock[c], holder |-> NoCaller]
    BY <1>1, <2>1, Zenon DEF Leave
  <2> QED BY <2>2
<1>6. ASSUME NEW d \in Callers, d # c, pc[d] = "settle"
      PROVE  Unmoved(d) /\ key[d] # k
  <2>1. mine[d] \in 1 .. Len(tb) /\ mine[d] # mine[c] /\ key[d] # key[c]
    BY <1>1, <1>6, Apart
  <2> QED BY <1>0, <1>3, <1>4, <1>6, <2>1 DEF Unmoved
<1>7. Balance(k)' = Balance(k)
  <2>1. Balance(k) = Capped(Rest(c) + (now - clock[c]) * refill)
    BY <1>0, <1>1, <1>2 DEF Balances
  <2>2. \A d \in Callers : pc'[d] = "settle" => key'[d] # k
    BY <1>3, <1>6
  <2>3. buckets'[k] # 0 /\ buckets'[k] = mine[c]
    BY <1>1, <1>2
  <2>4. Balance(k)' = Capped(tb[buckets[k]].tokens + (now - tb[buckets[k]].last) * refill)'
    BY <2>2, <2>3, Zenon DEF Balances
  <2> DEFINE x == tb[buckets[k]].tokens + (now - tb[buckets[k]].last) * refill
             y == Rest(c) + (now - clock[c]) * refill
  <2>5. size' = size /\ x' = y
    BY <1>1, <1>5, <2>3
  <2> HIDE DEF x, y
  <2>6. Capped(x)' = Capped(y)
    BY <2>5 DEF Capped
  <2> QED BY <2>1, <2>4, <2>6 DEF x, y
<1>8. ASSUME NEW m \in Keys, m # k
      PROVE  Balance(m)' = Balance(m)
  <2>1. \A d \in Callers : pc'[d] = "settle" /\ key'[d] = m => pc[d] = "settle" /\ key[d] = m
    BY <1>3
  <2>2. \A d \in Callers : pc[d] = "settle" /\ key[d] = m => Unmoved(d)
    BY <1>0, <1>6, <1>8
  <2>3. buckets[m] # 0 => buckets[m] \in 1 .. Len(tb) /\ buckets[m] # mine[c]
    BY <1>2, <1>8 DEF IInv, TypeOK, Distinct
  <2>4. buckets[m] # 0 => /\ tb'[buckets[m]].tokens = tb[buckets[m]].tokens
                          /\ tb'[buckets[m]].last = tb[buckets[m]].last
    BY <1>4, <2>3
  <2> QED BY <1>1, <2>1, <2>2, <2>4, SameBalance DEF limiter
<1>9. Levels' = Levels
  BY <1>7, <1>8 DEF Levels
<1>10. \A d \in Callers : d # c => Answer(d)' = Answer(d)
  <2> SUFFICES ASSUME NEW d \in Callers, d # c
               PROVE  Answer(d)' = Answer(d)
    OBVIOUS
  <2>1. CASE pc[d] = "settle"
    BY <1>1, <1>6, <2>1, SameAnswer DEF limiter
  <2>2. CASE pc[d] # "settle"
    BY <1>3, <2>2 DEF Answer
  <2> QED BY <2>1, <2>2
<1>11. Calls' = [Calls EXCEPT ![c] = << >>]
  BY <1>3, <1>10 DEF Calls
<1>12. Calls[c] \in {<<k, "granted">>, <<k, "denied">>}
  BY <1>0, <1>1 DEF Calls, Answer
<1> QED BY <1>0, <1>1, <1>9, <1>11, <1>12

\* Every step of the code is a step of the abstract bucket or none.
LEMMA Simulates ==
  IInv /\ IInv' /\ Balances /\ Balances' /\ [Next]_vars => [Ideal!Next]_(Ideal!vars)
<1> SUFFICES ASSUME IInv, IInv', Balances, Balances', [Next]_vars
             PROVE  Ideal!Next \/ UNCHANGED <<refill, size, Levels, Calls>>
  BY DEF Ideal!vars, Levels, Calls
<1>1. CASE UNCHANGED vars
  <2>1. /\ UNCHANGED <<now, refill, size, buckets, tb, pc, key, mine, clock>>
        /\ \A c \in Callers : Unmoved(c)
    BY <1>1 DEF vars, limiter, Unmoved
  <2>2. \A k \in Keys : Balance(k)' = Balance(k)
    BY <2>1, SameBalance DEF limiter
  <2>3. \A c \in Callers : Answer(c)' = Answer(c)
    BY <2>1, SameAnswer DEF limiter
  <2> QED BY <2>1, <2>2, <2>3 DEF Levels, Calls
<1>2. CASE Tick
  <2>1. /\ \A k \in Keys : Balance(k)' = IF Balance(k) + refill > size
                                         THEN size ELSE Balance(k) + refill
        /\ UNCHANGED <<refill, size, Calls>>
    BY <1>2, Flows
  <2>2. Ideal!Flow
    BY <2>1 DEF Ideal!Flow, Calls
  <2> QED BY <2>2 DEF Ideal!Next
<1>3. ASSUME NEW c \in Callers, NEW k \in Keys, Arrive(c, k)
      PROVE  Ideal!Next
  <2>1. /\ Calls[c] = << >> /\ Calls' = [Calls EXCEPT ![c] = <<k, "asked">>]
        /\ UNCHANGED <<refill, size, Levels>>
    BY <1>3, Asks
  <2>2. Ideal!Ask(c, k)
    BY <2>1 DEF Ideal!Ask, Ideal!Idle, Calls, Levels
  <2> QED BY <2>2 DEF Ideal!Next
<1>4. ASSUME NEW c \in Callers, ReadClock(c)
      PROVE  Ideal!Next
  <2>0. PICK k \in Keys : k = key[c]
    BY DEF IInv, TypeOK
  <2>1. k = key[c] /\ Calls[c] = <<k, "asked">> /\ UNCHANGED <<refill, size>>
        /\ Levels[k] = Balance(k)
    BY <1>4, <2>0, Decides DEF Levels
  <2>2. CASE Balance(k) >= Unit
    <3>1. /\ Calls' = [Calls EXCEPT ![c] = <<k, "granted">>]
          /\ Levels' = [Levels EXCEPT ![k] = Balance(k) - Unit]
      BY <1>4, <2>0, <2>2, Decides
    <3>2. Ideal!Grant(c, k)
      BY <2>1, <2>2, <3>1 DEF Ideal!Grant, Calls, Levels
    <3> QED BY <2>1, <3>2 DEF Ideal!Next
  <2>3. CASE ~(Balance(k) >= Unit)
    <3>1. /\ Calls' = [Calls EXCEPT ![c] = <<k, "denied">>]
          /\ Levels' = [Levels EXCEPT ![k] = Balance(k)]
      BY <1>4, <2>0, <2>3, Decides
    <3>2. Levels' = Levels
      BY <2>1, <3>1 DEF Levels
    <3>3. Balance(k) \in Int
      BY <2>1 DEF Balances
    <3>4. Balance(k) < Unit
      BY <2>3, <3>3 DEF Unit
    <3>5. Ideal!Deny(c, k)
      BY <2>1, <3>1, <3>2, <3>4 DEF Ideal!Deny, Calls, Levels
    <3> QED BY <2>1, <3>5 DEF Ideal!Next
  <2> QED BY <2>2, <2>3
<1>5. ASSUME NEW c \in Callers, Admit(c) \/ Refuse(c)
      PROVE  Ideal!Next
  <2>0. PICK k \in Keys : k = key[c]
    BY DEF IInv, TypeOK
  <2>1. /\ Calls[c] \in {<<k, "granted">>, <<k, "denied">>}
        /\ Calls' = [Calls EXCEPT ![c] = << >>]
        /\ UNCHANGED <<refill, size, Levels>>
    BY <1>5, <2>0, Settles
  <2>2. Ideal!Reply(c, k)
    BY <2>1 DEF Ideal!Reply, Ideal!Idle, Calls, Levels
  <2> QED BY <2>1, <2>2 DEF Ideal!Next
<1>6. ASSUME NEW c \in Callers, Lock(c) \/ Found(c) \/ Create(c)
      PROVE  UNCHANGED <<refill, size, Levels, Calls>>
  BY <1>6, QuietSteps
<1> QED BY <1>1, <1>2, <1>3, <1>4, <1>5, <1>6 DEF Next, Handle

\* However its callers interleave, make buckets late and refill them late, the
\* limiter is the abstract one: each request takes its token from a bucket that
\* is always there and always filled, or finds none in it, in one moment while
\* it is inside (ratelimit.go:26-41, 71-86).
THEOREM Linearised == Spec => ImplementsTokenBucket
<1>1. Init => Locked /\ Ideal!Init
  <2> SUFFICES ASSUME Init PROVE Locked /\ Ideal!Init
    OBVIOUS
  <2>1. refill \in Nat \ {0} /\ size \in Nat
    BY Sizes DEF Init
  <2>2. \A k \in Keys : Balance(k) = size
    BY DEF Init, Balance
  <2> QED BY <2>1, <2>2 DEF Init, Locked, Ideal!Init, Ideal!Idle
<1>2. IInv /\ Locked /\ [Next]_vars => Locked'
  BY NextLocked
<1>3. IInv /\ Locked => Balances
  BY BalanceRead
<1>4. IInv /\ IInv' /\ Balances /\ Balances' /\ [Next]_vars => [Ideal!Next]_(Ideal!vars)
  BY Simulates
<1> QED BY <1>1, <1>2, <1>3, <1>4, BudgetKept, PTL DEF Spec, ImplementsTokenBucket, Ideal!Spec
=============================================================================
