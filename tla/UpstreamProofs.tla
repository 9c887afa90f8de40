---------------------------- MODULE UpstreamProofs ----------------------------
(***************************************************************************)
(* Proofs about Balancer and Upstream, for any number of servers, of        *)
(* callers and of retries.                                                 *)
(*                                                                         *)
(* The turns still to come of a call of Next that is alone are the next     *)
(* values of the counter, one for each try it has left; what it holds       *)
(* against nil, and against the server of the attempt before, is that they  *)
(* reach every server that was healthy all the time.                        *)
(***************************************************************************)
EXTENDS Upstream, FiniteSetTheorems, TLAPS

\* The servers of the m turns after turn k.
Turns(k, m) == {(k + j) % N : j \in 1 .. m}

\* The callers that were given the turn of s and have not loaded its mark.
Loading(s) == {c \in Callers : scan[c] = "load" /\ idx[c] = s}

\* The servers that have had their turn of the round when turn k is taken; the
\* turn of server 0 is the last, as the counter is incremented before it is used.
Extra(k, s) == IF 1 <= s /\ s <= k % N THEN 1 ELSE 0

Owed(c) ==
  alone[c] =>
    /\ scan[c] = "add" => steady[c] \subseteq Turns(counter, N - tries[c])
    /\ scan[c] \in {"load", "found"} => idx[c] = counter % N
    /\ scan[c] = "load" => steady[c] \subseteq {idx[c]} \cup Turns(counter, N - tries[c] - 1)
    /\ scan[c] = "none" => steady[c] = {}

Called(c) ==
  /\ steady[c] \subseteq Healthy
  /\ scan[c] = "off" => tries[c] = 0
  /\ scan[c] \in {"add", "load"} => tries[c] < N
  /\ Owed(c)

Shared ==
  ~doubted =>
    /\ \A s \in Servers : healthy[s]
    /\ \A c \in Callers : scan[c] # "none"
    /\ \A s \in Servers : IsFiniteSet(Loading(s))
    /\ \E q \in 0 .. counter : \A s \in Servers :
         granted[s] + Cardinality(Loading(s)) = q + Extra(counter, s)

BalancerInv == TypeOK /\ (\A c \in Callers : Called(c)) /\ Shared

\* The remainder of a number written as a multiple of N and a server,
LEMMA Rest ==
  ASSUME NEW q \in Nat, NEW r \in Servers
  PROVE  (N * q + r) % N = r
BY NAssumption DEF Servers

\* and a number written so.
LEMMA Parts ==
  ASSUME NEW k \in Nat
  PROVE  k % N \in Servers /\ \E q \in Nat : k = N * q + (k % N)
<1>1. k % N \in 0 .. N - 1 /\ k \div N \in Nat /\ k = N * (k \div N) + (k % N)
  BY NAssumption
<1> QED BY <1>1 DEF Servers

\* The turn j after turn k.
LEMMA Onward ==
  ASSUME NEW k \in Nat, NEW j \in 0 .. N
  PROVE  (k + j) % N = IF (k % N) + j < N THEN (k % N) + j ELSE (k % N) + j - N
<1>1. PICK q \in Nat : k = N * q + (k % N)
  BY Parts
<1>2. PICK r \in Servers : r = k % N
  BY Parts
<1>3. CASE r + j < N
  <2>1. k + j = N * q + (r + j) /\ r + j \in Servers
    BY <1>1, <1>2, <1>3, NAssumption DEF Servers
  <2>2. (N * q + (r + j)) % N = r + j
    BY <2>1, Rest
  <2> QED BY <1>2, <1>3, <2>1, <2>2
<1>4. CASE r + j >= N
  <2>1. k + j = N * (q + 1) + (r + j - N) /\ r + j - N \in Servers /\ q + 1 \in Nat
    BY <1>1, <1>2, <1>4, NAssumption DEF Servers
  <2>2. (N * (q + 1) + (r + j - N)) % N = r + j - N
    BY <2>1, Rest
  <2> QED BY <1>2, <1>4, <2>1, <2>2, NAssumption DEF Servers
<1> QED BY <1>2, <1>3, <1>4, NAssumption DEF Servers

\* N turns reach every server, and fewer than N do not come back to one.
LEMMA Around ==
  ASSUME NEW k \in Nat
  PROVE  /\ Servers \subseteq Turns(k, N)
         /\ \A m \in 0 .. N - 1 : (k + m) % N = k % N => m = 0
<1>1. PICK r \in Servers : r = k % N
  BY Parts
<1>2. ASSUME NEW s \in Servers PROVE s \in Turns(k, N)
  <2> DEFINE j == IF r < s THEN s - r ELSE N + s - r
  <2>1. j \in 1 .. N /\ j \in 0 .. N
    BY NAssumption DEF Servers
  <2>2. IF r + j < N THEN r + j = s ELSE r + j - N = s
    BY NAssumption DEF Servers
  <2> HIDE DEF j
  <2>3. (k + j) % N = IF (k % N) + j < N THEN (k % N) + j ELSE (k % N) + j - N
    BY <2>1, Onward
  <2>4. (k + j) % N = s
    BY <1>1, <2>2, <2>3
  <2> QED BY <2>1, <2>4 DEF Turns
<1>3. ASSUME NEW m \in 0 .. N - 1, (k + m) % N = k % N PROVE m = 0
  <2>1. m \in 0 .. N
    BY NAssumption
  <2>2. (k + m) % N = IF (k % N) + m < N THEN (k % N) + m ELSE (k % N) + m - N
    BY <2>1, Onward
  <2>3. r = IF r + m < N THEN r + m ELSE r + m - N
    BY <1>1, <1>3, <2>2
  <2> QED BY <2>3, NAssumption DEF Servers
<1> QED BY <1>2, <1>3

\* The first of the turns, and the others.
LEMMA TurnsOn ==
  ASSUME NEW k \in Nat, NEW m \in Nat
  PROVE  /\ Turns(k, 0) = {}
         /\ m > 0 => Turns(k, m) = {(k + 1) % N} \cup Turns(k + 1, m - 1)
<1>1. Turns(k, 0) = {}
  BY DEF Turns
<1>2. ASSUME m > 0, NEW x PROVE x \in Turns(k, m) <=> x \in {(k + 1) % N} \cup Turns(k + 1, m - 1)
  <2>1. ASSUME x \in Turns(k, m) PROVE x \in {(k + 1) % N} \cup Turns(k + 1, m - 1)
    <3>1. PICK j \in 1 .. m : x = (k + j) % N
      BY <2>1 DEF Turns
    <3>2. CASE j = 1
      BY <3>1, <3>2
    <3>3. CASE j > 1
      <4>1. j - 1 \in 1 .. m - 1 /\ (k + 1) + (j - 1) = k + j
        BY <3>3
      <4> QED BY <3>1, <4>1 DEF Turns
    <3> QED BY <3>2, <3>3
  <2>2. ASSUME x \in Turns(k + 1, m - 1) PROVE x \in Turns(k, m)
    <3>1. PICK j \in 1 .. m - 1 : x = ((k + 1) + j) % N
      BY <2>2 DEF Turns
    <3>2. j + 1 \in 1 .. m /\ (k + 1) + j = k + (j + 1)
      OBVIOUS
    <3> QED BY <3>1, <3>2 DEF Turns
  <2>3. (k + 1) % N \in Turns(k, m)
    BY <1>2 DEF Turns
  <2> QED BY <2>1, <2>2, <2>3
<1> QED BY <1>1, <1>2

-----------------------------------------------------------------------------
\* A step of a caller inside Next, by whatever way it got there.
CallStep(c) == Begin(c) \/ Add(c) \/ Load(c) \/ Finish(c)

BalancerStep == (\E c \in Callers : CallStep(c) /\ UNCHANGED checkVars) \/ World

\* The invariant holds before the first call.
LEMMA BalancerStarts == Init => BalancerInv
<1> SUFFICES ASSUME Init PROVE BalancerInv
  OBVIOUS
<1>1. TypeOK
  <2>1. AtServer(0) \in CheckerStates /\ 0 \in Servers
    BY NAssumption DEF AtServer, CheckerStates, Servers
  <2>2. CheckTypeOK
    BY <2>1 DEF Init, CheckInit, CheckTypeOK
  <2>3. /\ scan \in [Callers -> {"off", "add", "load", "found", "none"}]
        /\ tries \in [Callers -> 0 .. N] /\ idx \in [Callers -> Servers]
        /\ alone \in [Callers -> BOOLEAN] /\ steady \in [Callers -> SUBSET Servers]
        /\ granted \in [Servers -> Nat]
    BY <2>1, NAssumption DEF Init
  <2> QED BY <2>2, <2>3 DEF Init, TypeOK
<1>2. \A c \in Callers : Called(c)
  BY DEF Init, Called, Owed
<1>3. Shared
  <2>1. \A s \in Servers : Loading(s) = {} /\ healthy[s] /\ granted[s] = 0
    BY DEF Init, CheckInit, Loading
  <2>2. counter = 0 /\ 0 \in Servers /\ (N * 0 + 0) % N = 0
    BY Rest, NAssumption DEF Init, Servers
  <2>3. \A s \in Servers : Extra(counter, s) = 0
    BY <2>2, NAssumption DEF Extra, Servers
  <2>4. IsFiniteSet({}) /\ Cardinality({}) = 0
    BY FS_EmptySet
  <2>5. 0 \in 0 .. counter /\ \A s \in Servers :
          granted[s] + Cardinality(Loading(s)) = 0 + Extra(counter, s)
    <3>1. \A s \in Servers : granted[s] = 0 /\ Cardinality(Loading(s)) = 0
      BY <2>1, <2>4
    <3> QED BY <2>2, <2>3, <3>1
  <2> QED BY <2>1, <2>4, <2>5 DEF Shared, Init
<1> QED BY <1>1, <1>2, <1>3 DEF BalancerInv

\* The types that a caller's step leaves alone, and those of what it reads.
LEMMA BalancerTyped ==
  ASSUME TypeOK, NEW c \in Callers
  PROVE  /\ counter \in Nat /\ counter + 1 \in Nat /\ tries[c] \in 0 .. N /\ idx[c] \in Servers
         /\ scan[c] \in {"off", "add", "load", "found", "none"} /\ alone[c] \in BOOLEAN
         /\ healthy[idx[c]] \in BOOLEAN /\ granted[idx[c]] \in Nat
         /\ (counter + 1) % N \in Servers /\ N \in Nat /\ 0 \in Servers /\ 0 \in 0 .. N
         /\ Healthy \subseteq Servers
<1>1. counter \in Nat /\ counter + 1 \in Nat
  BY DEF TypeOK
<1>2. (counter + 1) % N \in Servers
  BY <1>1, Parts
<1> QED BY <1>1, <1>2, NAssumption DEF TypeOK, CheckTypeOK, Servers, Healthy

\* A step of a call keeps the types,
LEMMA CallTypes ==
  ASSUME TypeOK, NEW c \in Callers, CallStep(c), UNCHANGED checkVars, Called(c)
  PROVE  TypeOK'
<1>1. CheckTypeOK'
  BY DEF TypeOK, CheckTypeOK, checkVars
<1>2. CASE Begin(c)
  <2>1. Healthy \in SUBSET Servers
    BY DEF Healthy
  <2> QED BY <1>1, <1>2, <2>1 DEF Begin, TypeOK
<1>3. CASE Add(c)
  BY <1>1, <1>3, BalancerTyped DEF Add, TypeOK
<1>4. CASE Load(c)
  <2>1. tries[c] + 1 \in 0 .. N /\ granted[idx[c]] + 1 \in Nat
    BY <1>4, BalancerTyped DEF Load, Called
  <2>2. CASE healthy[idx[c]]
    BY <1>1, <1>4, <2>1, <2>2, BalancerTyped DEF Load, TypeOK
  <2>3. CASE ~healthy[idx[c]]
    BY <1>1, <1>4, <2>1, <2>3, BalancerTyped DEF Load, TypeOK
  <2> QED BY <2>2, <2>3
<1>5. CASE Finish(c)
  BY <1>1, <1>5, BalancerTyped DEF Finish, TypeOK
<1> QED BY <1>2, <1>3, <1>4, <1>5 DEF CallStep

\* A caller's own step keeps what its call promises, and that of the others.
LEMMA CallKeeps ==
  ASSUME TypeOK, \A c \in Callers : Called(c),
         NEW c \in Callers, CallStep(c), UNCHANGED checkVars
  PROVE  \A d \in Callers : Called(d)'
<1>1. /\ counter \in Nat /\ tries[c] \in 0 .. N /\ N \in Nat /\ N > 0 /\ Called(c)
      /\ Healthy' = Healthy
  BY BalancerTyped, NAssumption DEF Healthy, checkVars
<1>2. TypeOK'
  BY CallTypes
<1>3. ASSUME NEW d \in Callers, d # c PROVE Called(d)'
  <2>1. /\ scan'[d] = scan[d] /\ tries'[d] = tries[d] /\ idx'[d] = idx[d] /\ steady'[d] = steady[d]
        /\ alone'[d] => alone[d] /\ counter' = counter
    BY <1>3 DEF CallStep, Begin, Add, Load, Finish, TypeOK
  <2>2. Called(d)
    OBVIOUS
  <2> QED BY <1>1, <2>1, <2>2 DEF Called, Owed
<1>4. ASSUME Begin(c) PROVE Called(c)'
  <2>1. /\ scan'[c] = "add" /\ tries'[c] = 0 /\ steady'[c] = Healthy /\ counter' = counter
    BY <1>1, <1>4 DEF Begin, Called, TypeOK
  <2>2. Healthy \subseteq Turns(counter, N) /\ N - 0 = N
    BY <1>1, Around DEF Healthy
  <2> QED BY <1>1, <2>1, <2>2 DEF Called, Owed
<1>5. ASSUME Add(c) PROVE Called(c)'
  <2>1. /\ scan'[c] = "load" /\ tries'[c] = tries[c] /\ steady'[c] = steady[c]
        /\ counter' = counter + 1 /\ idx'[c] = (counter + 1) % N /\ alone'[c] = alone[c]
        /\ scan[c] = "add" /\ tries[c] < N
    BY <1>1, <1>5 DEF Add, Called, TypeOK
  <2> DEFINE m == N - tries[c]
  <2>2. m \in Nat /\ m > 0
    BY <1>1, <2>1
  <2>3. Turns(counter, m) = {(counter + 1) % N} \cup Turns(counter + 1, m - 1)
    BY <1>1, <2>2, TurnsOn
  <2> QED BY <1>1, <2>1, <2>3 DEF Called, Owed
<1>6. ASSUME Load(c) PROVE Called(c)'
  <2>1. /\ scan[c] = "load" /\ UNCHANGED <<counter, idx, alone, steady>> /\ tries[c] < N
    BY <1>1, <1>6 DEF Load, Called
  <2>2. CASE healthy[idx[c]]
    <3>1. scan'[c] = "found"
      BY <1>6, <2>2 DEF Load, TypeOK
    <3> QED BY <1>1, <2>1, <3>1 DEF Called, Owed
  <2>3. CASE ~healthy[idx[c]]
    <3>1. /\ tries'[c] = tries[c] + 1
          /\ scan'[c] = IF tries[c] + 1 < N THEN "add" ELSE "none"
      BY <1>6, <2>3 DEF Load, TypeOK
    <3>2. idx[c] \notin steady[c]
      BY <1>1, <2>3 DEF Called, Healthy
    <3>3. alone[c] => steady[c] \subseteq Turns(counter, N - tries[c] - 1)
      BY <1>1, <2>1, <3>2 DEF Called, Owed
    <3>4. N - tries[c] - 1 = N - (tries[c] + 1)
      BY <1>1
    <3>5. CASE tries[c] + 1 < N
      BY <1>1, <2>1, <3>1, <3>3, <3>4, <3>5 DEF Called, Owed
    <3>6. CASE ~(tries[c] + 1 < N)
      <4>1. N - tries[c] - 1 = 0
        BY <1>1, <2>1, <3>6
      <4>2. alone[c] => steady[c] = {}
        BY <1>1, <3>3, <4>1, TurnsOn
      <4> QED BY <1>1, <2>1, <3>1, <3>6, <4>2 DEF Called, Owed
    <3> QED BY <3>5, <3>6
  <2> QED BY <2>2, <2>3
<1>7. ASSUME Finish(c) PROVE Called(c)'
  <2>1. scan'[c] = "off" /\ tries'[c] = 0 /\ steady'[c] = {}
    BY <1>7 DEF Finish, TypeOK
  <2> QED BY <1>1, <2>1 DEF Called, Owed
<1> QED BY <1>3, <1>4, <1>5, <1>6, <1>7 DEF CallStep

\* Each turn adds one server to a round, or begins the next one.
LEMMA ExtraOn ==
  ASSUME NEW k \in Nat
  PROVE  \E more \in {0, 1} : \A s \in Servers :
           more + Extra(k + 1, s) = Extra(k, s) + IF s = (k + 1) % N THEN 1 ELSE 0
<1>1. PICK r \in Servers : r = k % N
  BY Parts
<1>2. (k + 1) % N = IF r + 1 < N THEN r + 1 ELSE 0
  <2>1. 1 \in 0 .. N
    BY NAssumption
  <2>2. (k + 1) % N = IF (k % N) + 1 < N THEN (k % N) + 1 ELSE (k % N) + 1 - N
    BY <2>1, Onward
  <2> QED BY <1>1, <2>2, NAssumption DEF Servers
<1>3. CASE r + 1 < N
  <2>1. \A s \in Servers : 0 + Extra(k + 1, s) = Extra(k, s) + IF s = (k + 1) % N THEN 1 ELSE 0
    BY <1>1, <1>2, <1>3, NAssumption DEF Extra, Servers
  <2> QED BY <2>1
<1>4. CASE ~(r + 1 < N)
  <2>1. \A s \in Servers : 1 + Extra(k + 1, s) = Extra(k, s) + IF s = (k + 1) % N THEN 1 ELSE 0
    BY <1>1, <1>2, <1>4, NAssumption DEF Extra, Servers
  <2> QED BY <2>1
<1> QED BY <1>3, <1>4

\* and the shares of the servers.
LEMMA CallShares ==
  ASSUME BalancerInv, NEW c \in Callers, CallStep(c), UNCHANGED checkVars
  PROVE  Shared'
<1> SUFFICES ASSUME ~doubted'
             PROVE  /\ \A s \in Servers : healthy'[s]
                    /\ \A d \in Callers : scan'[d] # "none"
                    /\ \A s \in Servers : IsFiniteSet(Loading(s)')
                    /\ \E q \in 0 .. counter' : \A s \in Servers :
                         granted'[s] + Cardinality(Loading(s)') = q + Extra(counter', s)
  BY DEF Shared
<1>1. TypeOK /\ Called(c) /\ Shared /\ ~doubted /\ healthy' = healthy
  BY DEF BalancerInv, CallStep, Begin, Add, Load, Finish, checkVars
<1>2. /\ \A s \in Servers : healthy[s]
      /\ \A d \in Callers : scan[d] # "none"
      /\ \A s \in Servers : IsFiniteSet(Loading(s))
  BY <1>1 DEF Shared
<1>3. PICK q \in 0 .. counter : \A s \in Servers :
        granted[s] + Cardinality(Loading(s)) = q + Extra(counter, s)
  BY <1>1 DEF Shared
<1>4. counter \in Nat /\ idx[c] \in Servers /\ \A s \in Servers : granted[s] \in Nat
  BY <1>1, BalancerTyped DEF TypeOK
<1>5. \A s \in Servers : Cardinality(Loading(s)) \in Nat
  BY <1>2, FS_CardinalityType
<1>6. CASE Begin(c) \/ Finish(c)
  <2>1. \A d \in Callers : scan'[d] # "none"
    BY <1>1, <1>2, <1>6 DEF Begin, Finish, TypeOK
  <2>2. \A s \in Servers : Loading(s)' = Loading(s)
    BY <1>1, <1>6 DEF Begin, Finish, Loading, TypeOK
  <2>3. granted' = granted /\ counter' = counter
    BY <1>6 DEF Begin, Finish
  <2> QED BY <1>1, <1>2, <1>3, <2>1, <2>2, <2>3
<1>7. CASE Add(c)
  <2> DEFINE now == (counter + 1) % N
  <2>1. /\ \A d \in Callers : scan'[d] # "none"
        /\ granted' = granted /\ counter' = counter + 1
        /\ \A s \in Servers : c \notin Loading(s)
    BY <1>1, <1>2, <1>7 DEF Add, TypeOK, Loading
  <2>2. \A s \in Servers : Loading(s)' = Loading(s) \cup (IF s = now THEN {c} ELSE {})
    BY <1>1, <1>7 DEF Add, TypeOK, Loading
  <2>3. \A s \in Servers :
          /\ IsFiniteSet(Loading(s)')
          /\ Cardinality(Loading(s)') = Cardinality(Loading(s)) + IF s = now THEN 1 ELSE 0
    <3> SUFFICES ASSUME NEW s \in Servers
                 PROVE  /\ IsFiniteSet(Loading(s)')
                        /\ Cardinality(Loading(s)')
                             = Cardinality(Loading(s)) + IF s = now THEN 1 ELSE 0
      OBVIOUS
    <3>1. IsFiniteSet(Loading(s)) /\ c \notin Loading(s) /\ Cardinality(Loading(s)) \in Nat
      BY <1>2, <1>5, <2>1
    <3>2. /\ IsFiniteSet(Loading(s) \cup {c})
          /\ Cardinality(Loading(s) \cup {c}) = Cardinality(Loading(s)) + 1
      BY <3>1, FS_AddElement
    <3>3. Loading(s)' = Loading(s) \cup (IF s = now THEN {c} ELSE {})
      BY <2>2
    <3> HIDE DEF now
    <3>4. CASE s = now
      BY <3>2, <3>3, <3>4
    <3>5. CASE s # now
      <4>1. Loading(s)' = Loading(s)
        BY <3>3, <3>5
      <4> QED BY <3>1, <3>5, <4>1
    <3> QED BY <3>4, <3>5
  <2>4. PICK more \in {0, 1} : \A s \in Servers :
          more + Extra(counter + 1, s) = Extra(counter, s) + IF s = now THEN 1 ELSE 0
    BY <1>4, ExtraOn
  <2> HIDE DEF now
  <2>5. q + more \in 0 .. counter'
    BY <1>4, <2>1
  <2>6. \A s \in Servers :
          granted'[s] + Cardinality(Loading(s)') = (q + more) + Extra(counter', s)
    <3> SUFFICES ASSUME NEW s \in Servers
                 PROVE  granted[s] + Cardinality(Loading(s)')
                          = (q + more) + Extra(counter + 1, s)
      BY <2>1
    <3>1. /\ Extra(counter, s) \in Nat /\ Extra(counter + 1, s) \in Nat
          /\ granted[s] \in Nat /\ Cardinality(Loading(s)) \in Nat
      BY <1>4, <1>5 DEF Extra
    <3>2. /\ granted[s] + Cardinality(Loading(s)) = q + Extra(counter, s)
          /\ more + Extra(counter + 1, s) = Extra(counter, s) + IF s = now THEN 1 ELSE 0
          /\ Cardinality(Loading(s)') = Cardinality(Loading(s)) + IF s = now THEN 1 ELSE 0
      BY <1>3, <2>3, <2>4
    <3>3. PICK x \in {0, 1} : x = IF s = now THEN 1 ELSE 0
      OBVIOUS
    <3> QED BY <3>1, <3>2, <3>3
  <2> QED BY <1>1, <1>2, <2>1, <2>3, <2>5, <2>6
<1>8. CASE Load(c)
  <2> DEFINE now == idx[c]
  <2>1. /\ scan[c] = "load" /\ counter' = counter /\ UNCHANGED idx
        /\ scan' = [scan EXCEPT ![c] = "found"]
        /\ granted' = [granted EXCEPT ![now] = @ + 1]
    BY <1>1, <1>2, <1>4, <1>8 DEF Load
  <2>2. /\ \A d \in Callers : scan'[d] # "none"
        /\ \A s \in Servers : granted'[s] = granted[s] + IF s = now THEN 1 ELSE 0
    BY <1>1, <1>2, <1>4, <2>1 DEF TypeOK
  <2>3. \A s \in Servers : /\ Loading(s)' = Loading(s) \ (IF s = now THEN {c} ELSE {})
                           /\ s = now => c \in Loading(s)
    BY <1>1, <2>1 DEF TypeOK, Loading
  <2>4. \A s \in Servers :
          /\ IsFiniteSet(Loading(s)')
          /\ granted'[s] + Cardinality(Loading(s)') = granted[s] + Cardinality(Loading(s))
    <3> SUFFICES ASSUME NEW s \in Servers
                 PROVE  /\ IsFiniteSet(Loading(s)')
                        /\ granted'[s] + Cardinality(Loading(s)')
                             = granted[s] + Cardinality(Loading(s))
      OBVIOUS
    <3>1. IsFiniteSet(Loading(s)) /\ Cardinality(Loading(s)) \in Nat /\ granted[s] \in Nat
      BY <1>2, <1>4, <1>5
    <3>2. /\ Loading(s)' = Loading(s) \ (IF s = now THEN {c} ELSE {})
          /\ s = now => c \in Loading(s)
          /\ granted'[s] = granted[s] + IF s = now THEN 1 ELSE 0
      BY <2>2, <2>3
    <3> HIDE DEF now
    <3>3. CASE s = now
      <4>1. /\ IsFiniteSet(Loading(s) \ {c})
            /\ Cardinality(Loading(s) \ {c}) = Cardinality(Loading(s)) - 1
        BY <3>1, <3>2, <3>3, FS_RemoveElement
      <4> QED BY <3>1, <3>2, <3>3, <4>1
    <3>4. CASE s # now
      <4>1. Loading(s)' = Loading(s) /\ granted'[s] = granted[s]
        BY <3>1, <3>2, <3>4
      <4> QED BY <3>1, <4>1
    <3> QED BY <3>3, <3>4
  <2> QED BY <1>1, <1>2, <1>3, <2>1, <2>2, <2>4
<1> QED BY <1>6, <1>7, <1>8 DEF CallStep

\* The checker stores a mark, or a backend changes.
LEMMA WorldKeeps ==
  ASSUME BalancerInv, World
  PROVE  BalancerInv'
<1>1. /\ TypeOK /\ CheckNext /\ doubted' = (doubted \/ Healthy' # Servers)
      /\ steady' = [c \in Callers |-> steady[c] \cap Healthy']
      /\ granted' = IF doubted' THEN [s \in Servers |-> 0] ELSE granted
      /\ UNCHANGED <<counter, scan, tries, idx, alone>>
  BY DEF World, BalancerInv
<1>2. CheckTypeOK'
  <2>1. CheckTypeOK
    BY <1>1 DEF TypeOK
  <2>2. CASE Probe
    BY <2>1, <2>2 DEF CheckTypeOK, CheckerStates, Probe, ProbeOK
  <2>3. CASE Store
    <3>1. checker.on \in Servers /\ checker.ok \in BOOLEAN /\ checker.on + 1 \in Nat
      BY <2>1, NAssumption DEF CheckTypeOK, CheckerStates, Servers
    <3>2. (checker.on + 1) % N \in Servers
      BY <3>1, Parts
    <3>3. AtServer((checker.on + 1) % N) \in CheckerStates
      BY <3>2 DEF AtServer, CheckerStates
    <3> QED BY <2>1, <2>3, <3>1, <3>3 DEF CheckTypeOK, Store
  <2>4. CASE \E s \in Servers : BackendChanges(s)
    BY <2>1, <2>4 DEF CheckTypeOK, BackendChanges
  <2> QED BY <1>1, <2>2, <2>3, <2>4 DEF CheckNext
<1>3. TypeOK'
  <2>1. granted' \in [Servers -> Nat] /\ doubted' \in BOOLEAN
    BY <1>1 DEF TypeOK
  <2>2. steady' \in [Callers -> SUBSET Servers]
    BY <1>1 DEF TypeOK
  <2> QED BY <1>1, <1>2, <2>1, <2>2 DEF TypeOK
<1>4. ASSUME NEW c \in Callers PROVE Called(c)'
  <2>1. steady'[c] = steady[c] \cap Healthy' /\ Called(c)
    BY <1>1 DEF BalancerInv
  <2>2. Owed(c)'
    BY <1>1, <2>1 DEF Called, Owed
  <2> QED BY <1>1, <2>1, <2>2 DEF Called
<1>5. Shared'
  <2> SUFFICES ASSUME ~doubted'
               PROVE  /\ \A s \in Servers : healthy'[s]
                      /\ \A d \in Callers : scan'[d] # "none"
                      /\ \A s \in Servers : IsFiniteSet(Loading(s)')
                      /\ \E q \in 0 .. counter' : \A s \in Servers :
                           granted'[s] + Cardinality(Loading(s)') = q + Extra(counter', s)
    BY DEF Shared
  <2>1. ~doubted /\ Healthy' = Servers /\ granted' = granted /\ Shared
    BY <1>1 DEF BalancerInv
  <2>2. \A s \in Servers : Loading(s)' = Loading(s) /\ healthy'[s]
    BY <1>1, <2>1 DEF Loading, Healthy
  <2> QED BY <1>1, <2>1, <2>2 DEF Shared
<1> QED BY <1>3, <1>4, <1>5 DEF BalancerInv

\* A step that leaves the balancer alone keeps its invariant.
LEMMA BalancerStays ==
  ASSUME BalancerInv, UNCHANGED balancerVars
  PROVE  BalancerInv'
<1>1. /\ UNCHANGED <<healthy, backend, probing, checker>>
      /\ UNCHANGED <<counter, scan, tries, idx, alone, steady, granted, doubted>>
  BY DEF balancerVars, checkVars, call
<1>2. TypeOK'
  BY <1>1 DEF BalancerInv, TypeOK, CheckTypeOK
<1>3. \A c \in Callers : Called(c)'
  BY <1>1 DEF BalancerInv, Called, Owed, Healthy
<1>4. Shared'
  <2>1. Shared /\ \A s \in Servers : Loading(s)' = Loading(s)
    BY <1>1 DEF BalancerInv, Loading
  <2> QED BY <1>1, <2>1 DEF Shared
<1> QED BY <1>2, <1>3, <1>4 DEF BalancerInv

\* Every step of the balancer and of the checker keeps the invariant.
LEMMA BalancerKeeps ==
  ASSUME BalancerInv, BalancerStep \/ UNCHANGED balancerVars
  PROVE  BalancerInv'
<1>1. ASSUME NEW c \in Callers, CallStep(c), UNCHANGED checkVars PROVE BalancerInv'
  <2>1. TypeOK /\ \A d \in Callers : Called(d)
    BY DEF BalancerInv
  <2>2. TypeOK'
    BY <1>1, <2>1, CallTypes
  <2>3. \A d \in Callers : Called(d)'
    BY <1>1, <2>1, CallKeeps
  <2>4. Shared'
    BY <1>1, CallShares
  <2> QED BY <2>2, <2>3, <2>4 DEF BalancerInv
<1> QED BY <1>1, WorldKeeps, BalancerStays DEF BalancerStep

\* However the calls of Next and the health checker interleave, the counter, the
\* scans and the shares of the servers agree (balancer.go).
THEOREM BalancerInvariant == Spec => []BalancerInv
<1>1. ASSUME BalancerInv, [Next]_balancerVars PROVE BalancerInv'
  <2>1. ASSUME NEW c \in Callers, Scan(c) PROVE BalancerStep
    BY <2>1 DEF Scan, BalancerStep, CallStep
  <2>2. BalancerStep \/ UNCHANGED balancerVars
    BY <1>1, <2>1 DEF Next, BalancerStep
  <2> QED BY <1>1, <2>2, BalancerKeeps
<1> QED BY <1>1, BalancerStarts, PTL DEF Spec

\* What the invariant promises to the callers of Next.
LEMMA BalancerPromises ==
  ASSUME BalancerInv
  PROVE  TypeOK /\ SoloScan /\ FairShare
<1>1. SoloScan
  BY DEF BalancerInv, Called, Owed, SoloScan
<1>2. FairShare
  <2> SUFFICES ASSUME ~doubted, \A c \in Callers : scan[c] # "load"
               PROVE  /\ \A s, t \in Servers : granted[s] <= granted[t] + 1
                      /\ \A c \in Callers : scan[c] # "none"
    BY DEF FairShare
  <2>1. Shared /\ TypeOK
    BY DEF BalancerInv
  <2>2. PICK q \in 0 .. counter : \A s \in Servers :
          granted[s] + Cardinality(Loading(s)) = q + Extra(counter, s)
    BY <2>1 DEF Shared
  <2>3. \A s \in Servers : Loading(s) = {} /\ granted[s] \in Nat /\ Extra(counter, s) \in {0, 1}
    BY <2>1 DEF Loading, Extra, TypeOK
  <2>4. \A s \in Servers : granted[s] \in {q, q + 1}
    <3>1. Cardinality({}) = 0
      BY FS_EmptySet
    <3>2. \A s \in Servers : granted[s] + 0 = q + Extra(counter, s)
      BY <2>2, <2>3, <3>1
    <3> QED BY <2>3, <3>2
  <2>5. q \in Nat
    BY <2>1 DEF TypeOK
  <2>6. \A c \in Callers : scan[c] # "none"
    BY <2>1 DEF Shared
  <2> QED BY <2>4, <2>5, <2>6
<1> QED BY <1>1, <1>2 DEF BalancerInv

\* The servers share the requests while none was ever marked unhealthy, however
\* the calls of Next interleave (balancer.go:32-44).
THEOREM SharesFair == Spec => []FairShare
BY BalancerInvariant, BalancerPromises, PTL

\* A call of Next that is alone finds a server, if one stays healthy
\* (balancer.go:32-44).
THEOREM ScansWhole == Spec => []SoloScan
BY BalancerInvariant, BalancerPromises, PTL

-----------------------------------------------------------------------------
\* What the client has of the request c, and what the backends have.
Answered(c) ==
  /\ stage[c] = "next" <=> scan[c] # "off"
  /\ stage[c] = "idle" => attempt[c] = 0 /\ last[c] = NoServer
  /\ stage[c] \in {"idle", "next"} /\ attempt[c] = 0 =>
       status[c] = "none" /\ pieces[c] = <<>> /\ uploads[c] = 0
  /\ stage[c] = "copy" /\ attempt[c] = 0 => pieces[c] = <<>>
  /\ attempt[c] > 0 => status[c] \notin {"none", "ok"}
  /\ status[c] = "ok" => /\ result[c] = "ok" /\ stage[c] \in {"copy", "judge", "done"}
                         /\ pieces[c] \in {<<>>, <<0>>}
  /\ stage[c] \in {"copy", "judge", "done"} => status[c] # "none" /\ result[c] # "none"
  /\ stage[c] = "judge" /\ result[c] = "error" => status[c] = "error"
  /\ uploads[c] <= 1

\* What the request c knows of its turns while nobody else takes one.
Turning(c) ==
  lone[c] =>
    /\ stage[c] = "next" => alone[c]
    /\ last[c] # NoServer =>
         /\ stage[c] \in {"copy", "judge"} => last[c] = counter % N
         /\ scan[c] = "add" => last[c] = (counter + N - tries[c]) % N
         /\ scan[c] = "load" => last[c] = (counter + N - tries[c] - 1) % N
         /\ scan[c] = "found" /\ idx[c] = last[c] => steady[c] \subseteq {last[c]}

UpstreamInv ==
  /\ BalancerInv
  /\ UpstreamTypeOK
  /\ \A c \in Requests : Answered(c) /\ Turning(c)
-----------------------------------------------------------------------------
\* What a request reads and writes, at its types.
LEMMA RequestTyped ==
  ASSUME UpstreamInv, NEW c \in Requests
  PROVE  /\ c \in Callers /\ Answered(c) /\ Turning(c) /\ Called(c) /\ Owed(c)
         /\ stage[c] \in {"idle", "next", "copy", "judge", "done"}
         /\ attempt[c] \in 0 .. MaxRetries /\ MaxRetries \in Nat /\ attempt[c] \in Nat
         /\ result[c] \in Statuses /\ status[c] \in Statuses /\ hasBody[c] \in BOOLEAN
         /\ declared[c] \in BOOLEAN /\ pieces[c] \in Seq(0 .. MaxRetries)
         /\ uploads[c] \in Nat /\ lone[c] \in BOOLEAN
         /\ scan[c] \in {"off", "add", "load", "found", "none"}
         /\ counter \in Nat /\ tries[c] \in 0 .. N /\ N \in Nat /\ idx[c] \in Servers
         /\ last[c] \in Servers \cup {NoServer}
<1>1. c \in Callers /\ TypeOK /\ UpstreamTypeOK /\ Called(c) /\ Answered(c) /\ Turning(c)
  BY DEF UpstreamInv, BalancerInv, Requests
<1>2. counter \in Nat /\ tries[c] \in 0 .. N /\ N \in Nat /\ idx[c] \in Servers
      /\ scan[c] \in {"off", "add", "load", "found", "none"} /\ Owed(c)
  BY <1>1, BalancerTyped DEF Called
<1>3. /\ stage[c] \in {"idle", "next", "copy", "judge", "done"}
      /\ attempt[c] \in 0 .. MaxRetries /\ MaxRetries \in Nat /\ attempt[c] \in Nat
      /\ result[c] \in Statuses /\ status[c] \in Statuses /\ hasBody[c] \in BOOLEAN
  BY <1>1, MaxRetriesAssumption DEF UpstreamTypeOK
<1>4. /\ declared[c] \in BOOLEAN /\ pieces[c] \in Seq(0 .. MaxRetries)
      /\ uploads[c] \in Nat /\ lone[c] \in BOOLEAN /\ last[c] \in Servers \cup {NoServer}
  BY <1>1, MaxRetriesAssumption DEF UpstreamTypeOK
<1> QED BY <1>1, <1>2, <1>3, <1>4

\* A caller's step of any kind, and what it leaves to the other requests.
AnyStep(c) == (c \in Requests /\ (Receive(c) \/ Serve(c))) \/ (c \in Upgrades /\ Upgrade(c))

\* Whatever a caller does in the proxy is a step of the balancer, or none.
LEMMA CallerSteps ==
  ASSUME NEW c \in Callers, AnyStep(c)
  PROVE  BalancerStep \/ UNCHANGED balancerVars
<1>1. CASE Receive(c) \/ Retry(c)
  BY <1>1 DEF Receive, Retry, Try, BalancerStep, CallStep
<1>2. CASE Pick(c)
  BY <1>2 DEF Pick, BalancerStep, CallStep
<1>3. CASE Fail(c)
  BY <1>3 DEF Fail, BalancerStep, CallStep
<1>4. CASE Respond(c)
  BY <1>4 DEF Respond, BalancerStep, CallStep
<1>5. CASE Copy(c) \/ Abort(c) \/ Return(c)
  BY <1>5 DEF Copy, Abort, Return
<1>6. CASE Upgrade(c)
  BY <1>6 DEF Upgrade, Scan, BalancerStep, CallStep
<1> QED BY <1>1, <1>2, <1>3, <1>4, <1>5, <1>6 DEF AnyStep, Serve

\* It leaves the other requests as they are.
LEMMA OthersKeep ==
  ASSUME UpstreamInv, NEW c \in Callers, AnyStep(c), NEW d \in Requests, d # c
  PROVE  Answered(d)' /\ Turning(d)'
<1>1. TypeOK /\ UpstreamTypeOK /\ Answered(d) /\ Turning(d) /\ d \in Callers
  BY RequestTyped DEF UpstreamInv, BalancerInv
<1>2. /\ stage'[d] = stage[d] /\ attempt'[d] = attempt[d] /\ result'[d] = result[d]
      /\ status'[d] = status[d] /\ pieces'[d] = pieces[d] /\ uploads'[d] = uploads[d]
      /\ last'[d] = last[d]
  <2>1. CASE Receive(c) \/ Retry(c)
    BY <1>1, <2>1 DEF Receive, Retry, Try, Goto, UpstreamTypeOK
  <2>2. CASE Pick(c) \/ Upgrade(c)
    BY <2>2 DEF Pick, Upgrade, request, client
  <2>3. CASE Fail(c) \/ Respond(c)
    <3>1. status'[d] = status[d] /\ result'[d] = result[d]
      BY <1>1, <2>3 DEF Fail, Respond, Commit, UpstreamTypeOK
    <3>2. stage'[d] = stage[d] /\ pieces'[d] = pieces[d] /\ attempt' = attempt
      BY <1>1, <2>3 DEF Fail, Respond, Goto, UpstreamTypeOK
    <3>3. uploads'[d] = uploads[d] /\ last'[d] = last[d]
      BY <1>1, <2>3 DEF Fail, Respond, UpstreamTypeOK
    <3> QED BY <3>1, <3>2, <3>3
  <2>4. CASE Copy(c) \/ Abort(c) \/ Return(c)
    BY <1>1, <2>4 DEF Copy, Abort, Return, Goto, client, history, UpstreamTypeOK
  <2> QED BY <2>1, <2>2, <2>3, <2>4 DEF AnyStep, Serve
<1>3. /\ scan'[d] = scan[d] /\ tries'[d] = tries[d] /\ idx'[d] = idx[d] /\ steady'[d] = steady[d]
      /\ lone'[d] => lone[d] /\ counter' = counter /\ alone'[d] = alone[d]
  <2>1. CASE Receive(c) \/ Retry(c)
    BY <1>1, <2>1 DEF Receive, Retry, Try, Begin, TypeOK, UpstreamTypeOK
  <2>2. CASE Pick(c)
    BY <1>1, <2>2 DEF Pick, Add, Load, TypeOK
  <2>3. CASE Fail(c) \/ Respond(c)
    BY <1>1, <2>3 DEF Fail, Respond, Finish, TypeOK
  <2>4. CASE Copy(c) \/ Abort(c) \/ Return(c)
    BY <1>1, <2>4 DEF Copy, Abort, Return, balancerVars, call, history
  <2>5. CASE Upgrade(c)
    <3>1. /\ scan'[d] = scan[d] /\ tries'[d] = tries[d] /\ idx'[d] = idx[d]
          /\ steady'[d] = steady[d]
          /\ counter' = counter => alone'[d] = alone[d]
      BY <1>1, <2>5 DEF Upgrade, Scan, Begin, Add, Load, Finish, TypeOK
    <3>2. lone'[d] => lone[d] /\ counter' = counter
      BY <2>5 DEF Upgrade
    <3> QED BY <3>1, <3>2
  <2> QED BY <2>1, <2>2, <2>3, <2>4, <2>5 DEF AnyStep, Serve
<1>4. Answered(d)'
  BY <1>1, <1>2, <1>3 DEF Answered
<1>5. Turning(d)'
  BY <1>1, <1>2, <1>3 DEF Turning
<1> QED BY <1>4, <1>5

\* A request comes,
LEMMA ReceiveKeeps ==
  ASSUME UpstreamInv, NEW c \in Requests, Receive(c)
  PROVE  Answered(c)' /\ Turning(c)'
<1>1. TypeOK /\ UpstreamTypeOK
  BY DEF UpstreamInv, BalancerInv
<1>2. /\ stage[c] = "idle" /\ stage'[c] = "next" /\ attempt' = attempt /\ status' = status
      /\ pieces' = pieces /\ uploads' = uploads /\ last' = last /\ result'[c] = "none"
  BY <1>1 DEF Receive, Try, Goto, UpstreamTypeOK
<1>3. scan'[c] = "add" /\ alone'[c]
  BY <1>1, RequestTyped DEF Receive, Try, Begin, TypeOK
<1>4. Answered(c)'
  BY <1>2, <1>3, RequestTyped DEF Answered
<1>5. Turning(c)'
  BY <1>2, <1>3, RequestTyped DEF Answered, Turning
<1> QED BY <1>4, <1>5

\* gets a server,
LEMMA PickKeeps ==
  ASSUME UpstreamInv, NEW c \in Requests, Pick(c)
  PROVE  Answered(c)' /\ Turning(c)'
<1>1. TypeOK /\ UpstreamTypeOK /\ Answered(c) /\ Turning(c) /\ Called(c) /\ Owed(c)
  BY RequestTyped DEF UpstreamInv, BalancerInv
<1>2. /\ stage[c] = "next" /\ stage' = stage /\ attempt' = attempt /\ status' = status
      /\ pieces' = pieces /\ uploads' = uploads /\ last' = last /\ result' = result
  BY DEF Pick, request, client
<1>3. scan'[c] # "off" /\ scan[c] \in {"add", "load"}
  BY <1>1, RequestTyped DEF Pick, Add, Load, TypeOK
<1>4. Answered(c)'
  BY <1>1, <1>2, <1>3 DEF Answered
<1>5. ASSUME Add(c) PROVE Turning(c)'
  <2>1. /\ scan[c] = "add" /\ scan'[c] = "load" /\ tries' = tries /\ counter' = counter + 1
        /\ lone'[c] = lone[c] /\ alone'[c] = alone[c]
    BY <1>1, <1>5, RequestTyped DEF Pick, Add, Load, TypeOK, UpstreamTypeOK
  <2>2. counter + N - tries[c] = (counter + 1) + N - tries[c] - 1
    <3>1. counter \in Nat /\ N \in Nat /\ tries[c] \in 0 .. N
      BY RequestTyped
    <3> QED BY <3>1
  <2> QED BY <1>1, <1>2, <1>4, <2>1, <2>2 DEF Turning
<1>6. ASSUME Load(c) PROVE Turning(c)'
  <2>1. /\ scan[c] = "load" /\ lone' = lone
        /\ counter' = counter /\ idx' = idx /\ alone' = alone /\ steady' = steady
    BY <1>6 DEF Pick, Add, Load
  <2>2. CASE healthy[idx[c]]
    <3>1. scan'[c] = "found"
      BY <1>1, <1>6, <2>2, RequestTyped DEF Load, TypeOK
    <3>2. ASSUME lone[c], last[c] # NoServer, idx[c] = last[c] PROVE steady[c] \subseteq {last[c]}
      <4>1. /\ last[c] = (counter + N - tries[c] - 1) % N /\ alone[c] /\ idx[c] = counter % N
            /\ steady[c] \subseteq {idx[c]} \cup Turns(counter, N - tries[c] - 1)
            /\ tries[c] < N
        BY <1>1, <1>2, <2>1, <3>2 DEF Turning, Called, Owed
      <4> DEFINE m == N - tries[c] - 1
      <4>2. m \in 0 .. N - 1 /\ counter + m = counter + N - tries[c] - 1 /\ counter \in Nat
        BY <4>1, RequestTyped
      <4>3. (counter + m) % N = counter % N
        BY <3>2, <4>1, <4>2
      <4> HIDE DEF m
      <4>4. m = 0 /\ Turns(counter, 0) = {}
        BY <4>2, <4>3, Around, TurnsOn
      <4> QED BY <3>2, <4>1, <4>4 DEF m
    <3>3. lone[c] => alone[c]
      BY <1>1, <1>2 DEF Turning
    <3>4. /\ stage'[c] = "next" /\ scan'[c] = "found" /\ lone'[c] = lone[c] /\ last'[c] = last[c]
          /\ idx'[c] = idx[c] /\ steady'[c] = steady[c] /\ alone'[c] = alone[c]
      BY <1>2, <2>1, <3>1
    <3> QED BY <3>2, <3>3, <3>4 DEF Turning
  <2>3. CASE ~healthy[idx[c]]
    <3>1. tries'[c] = tries[c] + 1 /\ scan'[c] \in {"add", "none"}
      BY <1>1, <1>6, <2>3, RequestTyped DEF Load, TypeOK
    <3>2. counter + N - tries[c] - 1 = counter + N - (tries[c] + 1)
      BY RequestTyped
    <3>3. lone[c] => alone[c]
      BY <1>1, <1>2 DEF Turning
    <3>4. lone[c] /\ last[c] # NoServer => last[c] = (counter + N - (tries[c] + 1)) % N
      BY <1>1, <2>1, <3>2 DEF Turning
    <3>5. /\ stage'[c] = "next" /\ lone'[c] = lone[c] /\ last'[c] = last[c]
          /\ counter' = counter /\ alone'[c] = alone[c]
      BY <1>2, <2>1
    <3> QED BY <3>1, <3>3, <3>4, <3>5 DEF Turning
  <2> QED BY <2>2, <2>3
<1> QED BY <1>4, <1>5, <1>6 DEF Pick

\* which fails,
LEMMA FailKeeps ==
  ASSUME UpstreamInv, NEW c \in Requests, Fail(c)
  PROVE  Answered(c)' /\ Turning(c)'
<1>1. TypeOK /\ UpstreamTypeOK /\ Answered(c) /\ Turning(c) /\ Called(c) /\ Owed(c)
  BY RequestTyped DEF UpstreamInv, BalancerInv
<1>2. /\ stage[c] = "next" /\ stage'[c] = "judge" /\ attempt' = attempt /\ result'[c] = "error"
      /\ status'[c] = IF status[c] = "none" THEN "error" ELSE status[c]
  BY <1>1 DEF Fail, Goto, Commit, UpstreamTypeOK
<1>3. /\ uploads'[c] = uploads[c] \/ (uploads'[c] = uploads[c] + 1 /\ hasBody[c] /\ ~Spent(c))
      /\ lone' = lone
  BY <1>1 DEF Fail, UpstreamTypeOK
<1>4. scan'[c] = "off" /\ scan[c] \in {"found", "none"} /\ counter' = counter
  BY <1>1, RequestTyped DEF Fail, Finish, TypeOK
<1>5. last'[c] = IF scan[c] = "found" THEN idx[c] ELSE NoServer
  BY <1>1 DEF Fail, UpstreamTypeOK
<1>6. Answered(c)'
  <2>1. uploads'[c] <= 1
    BY <1>1, <1>2, <1>3, RequestTyped DEF Answered, Spent
  <2>2. status'[c] = "error"
    BY <1>1, <1>2, RequestTyped DEF Answered, Statuses
  <2>3. attempt[c] \in Nat
    BY RequestTyped
  <2> QED BY <1>2, <1>4, <2>1, <2>2, <2>3 DEF Answered
<1>7. Turning(c)'
  <2>1. lone[c] => alone[c]
    BY <1>1, <1>2 DEF Turning
  <2>2. lone[c] /\ scan[c] = "found" => last'[c] = counter % N
    BY <1>1, <1>5, <2>1 DEF Owed
  <2> QED BY <1>2, <1>3, <1>4, <1>5, <2>2 DEF Turning
<1> QED BY <1>6, <1>7

\* or responds,
LEMMA RespondKeeps ==
  ASSUME UpstreamInv, NEW c \in Requests, Respond(c)
  PROVE  Answered(c)' /\ Turning(c)'
<1>1. TypeOK /\ UpstreamTypeOK /\ Answered(c) /\ Turning(c) /\ Called(c) /\ Owed(c)
  BY RequestTyped DEF UpstreamInv, BalancerInv
<1>2. PICK code \in {"ok", "error"} :
        /\ result'[c] = code
        /\ status'[c] = IF status[c] = "none" THEN code ELSE status[c]
  BY <1>1 DEF Respond, Commit, UpstreamTypeOK
<1>3. /\ stage[c] = "next" /\ stage'[c] = "copy" /\ attempt' = attempt /\ pieces' = pieces
      /\ lone' = lone /\ last'[c] = idx[c]
      /\ uploads'[c] = IF hasBody[c] THEN uploads[c] + 1 ELSE uploads[c]
      /\ ~Spent(c)
  BY <1>1 DEF Respond, Goto, UpstreamTypeOK
<1>4. scan'[c] = "off" /\ scan[c] = "found" /\ counter' = counter
  BY <1>1, RequestTyped DEF Respond, Finish, TypeOK
<1>5. Answered(c)'
  <2>1. uploads'[c] <= 1
    BY <1>1, <1>3, RequestTyped DEF Answered, Spent
  <2>2. attempt[c] \in Nat /\ status[c] \in Statuses
    BY RequestTyped
  <2>3. CASE attempt[c] = 0
    <3>1. status[c] = "none" /\ pieces[c] = <<>>
      BY <1>1, <1>3, <2>3 DEF Answered
    <3> QED BY <1>2, <1>3, <1>4, <2>1, <2>3, <3>1 DEF Answered
  <2>4. CASE attempt[c] > 0
    <3>1. status[c] \notin {"none", "ok"}
      BY <1>1, <2>4 DEF Answered
    <3> QED BY <1>2, <1>3, <1>4, <2>1, <2>4, <3>1 DEF Answered
  <2> QED BY <2>2, <2>3, <2>4
<1>6. Turning(c)'
  <2>1. lone[c] => idx[c] = counter % N
    BY <1>1, <1>3, <1>4 DEF Turning, Owed
  <2> QED BY <1>3, <1>4, <2>1 DEF Turning
<1> QED BY <1>5, <1>6

\* has its body copied,
LEMMA CopyKeeps ==
  ASSUME UpstreamInv, NEW c \in Requests, Copy(c) \/ Abort(c) \/ Return(c)
  PROVE  Answered(c)' /\ Turning(c)'
<1>1. TypeOK /\ UpstreamTypeOK /\ Answered(c) /\ Turning(c)
  BY RequestTyped DEF UpstreamInv, BalancerInv
<1>2. /\ scan' = scan /\ counter' = counter /\ lone' = lone /\ last' = last
      /\ attempt' = attempt /\ result' = result /\ status' = status /\ uploads' = uploads
  BY DEF Copy, Abort, Return, balancerVars, call, history, client
<1>3. /\ stage[c] \in {"copy", "judge"} /\ stage'[c] \in {"judge", "done"}
      /\ stage'[c] = "judge" => stage[c] = "copy"
      /\ pieces'[c] = IF stage'[c] = "judge" THEN Append(pieces[c], attempt[c]) ELSE pieces[c]
  BY <1>1 DEF Copy, Abort, Return, Goto, client, UpstreamTypeOK
<1>4. Answered(c)'
  <2>1. attempt[c] \in Nat /\ status[c] \in Statuses /\ result[c] \in Statuses
    BY RequestTyped
  <2>2. status[c] = "ok" => pieces'[c] \in {<<>>, <<0>>}
    <3> SUFFICES ASSUME status[c] = "ok" PROVE pieces'[c] \in {<<>>, <<0>>}
      OBVIOUS
    <3>1. attempt[c] = 0 /\ pieces[c] \in {<<>>, <<0>>} /\ (stage[c] = "copy" => pieces[c] = <<>>)
      BY <1>1, <2>1 DEF Answered
    <3>2. CASE stage'[c] = "judge"
      <4>1. pieces'[c] = Append(<<>>, 0)
        BY <1>3, <3>1, <3>2
      <4> QED BY <4>1
    <3>3. CASE stage'[c] # "judge"
      BY <1>3, <3>1, <3>3
    <3> QED BY <3>2, <3>3
  <2>3. status[c] # "none" /\ result[c] # "none" /\ scan[c] = "off" /\ uploads[c] <= 1
        /\ (status[c] = "ok" => result[c] = "ok") /\ (attempt[c] > 0 => status[c] # "ok")
    BY <1>1, <1>3 DEF Answered
  <2>4. result[c] = "error" => status[c] = "error"
    BY <2>1, <2>3 DEF Statuses
  <2> QED BY <1>2, <1>3, <2>1, <2>2, <2>3, <2>4 DEF Answered
<1>5. Turning(c)'
  <2>1. scan[c] = "off"
    BY <1>1, <1>3 DEF Answered
  <2> QED BY <1>1, <1>2, <1>3, <2>1 DEF Turning
<1> QED BY <1>4, <1>5

\* and is retried: each keeps its answer and its turns right.
LEMMA RetryKeeps ==
  ASSUME UpstreamInv, NEW c \in Requests, Retry(c)
  PROVE  Answered(c)' /\ Turning(c)'
<1>1. TypeOK /\ UpstreamTypeOK /\ Answered(c) /\ Turning(c) /\ Called(c)
  BY RequestTyped DEF UpstreamInv, BalancerInv
<1>2. /\ stage[c] = "judge" /\ stage'[c] = "next" /\ attempt'[c] = attempt[c] + 1
      /\ status' = status /\ pieces' = pieces /\ uploads' = uploads /\ last' = last
      /\ result[c] = "error" /\ result'[c] = "none" /\ lone' = lone
  BY <1>1 DEF Retry, Try, Goto, UpstreamTypeOK
<1>3. /\ scan'[c] = "add" /\ alone'[c] /\ counter' = counter /\ tries' = tries
      /\ scan[c] = "off" /\ tries[c] = 0
  BY <1>1, RequestTyped DEF Retry, Try, Begin, TypeOK, Called
<1>4. Answered(c)'
  <2>1. attempt[c] \in Nat /\ status[c] = "error" /\ uploads[c] <= 1
    BY <1>1, <1>2, RequestTyped DEF Answered
  <2> QED BY <1>2, <1>3, <2>1 DEF Answered
<1>5. Turning(c)'
  <2>1. (counter + N - 0) % N = counter % N
    <3>1. N \in 0 .. N /\ counter \in Nat
      BY NAssumption, RequestTyped
    <3>2. (counter + N) % N = IF (counter % N) + N < N THEN (counter % N) + N
                              ELSE (counter % N) + N - N
      BY <3>1, Onward
    <3>3. PICK r \in Servers : r = counter % N
      BY <3>1, Parts
    <3> QED BY <3>1, <3>2, <3>3, NAssumption DEF Servers
  <2> QED BY <1>1, <1>2, <1>3, <2>1 DEF Turning
<1> QED BY <1>4, <1>5

\* What a step of a request does to the variables of Upstream, at their types.
LEMMA UpstreamTypes ==
  ASSUME UpstreamInv, NEW c \in Callers, AnyStep(c), TypeOK'
  PROVE  UpstreamTypeOK'
<1>1. UpstreamTypeOK /\ TypeOK /\ MaxRetries \in Nat
  BY MaxRetriesAssumption DEF UpstreamInv, BalancerInv
<1>2. ASSUME c \in Requests
      PROVE  /\ attempt[c] \in 0 .. MaxRetries /\ pieces[c] \in Seq(0 .. MaxRetries)
             /\ idx[c] \in Servers /\ last[c] \in Servers \cup {NoServer}
             /\ Append(pieces[c], attempt[c]) \in Seq(0 .. MaxRetries)
             /\ uploads[c] \in 0 .. MaxRetries + 1 /\ Answered(c) /\ Answered(c)'
  <2>1. Answered(c) /\ Answered(c)'
    <3>1. CASE Receive(c)
      BY <1>2, <3>1, ReceiveKeeps, RequestTyped
    <3>2. CASE Pick(c)
      BY <1>2, <3>2, PickKeeps, RequestTyped
    <3>3. CASE Fail(c)
      BY <1>2, <3>3, FailKeeps, RequestTyped
    <3>4. CASE Respond(c)
      BY <1>2, <3>4, RespondKeeps, RequestTyped
    <3>5. CASE Copy(c) \/ Abort(c) \/ Return(c)
      BY <1>2, <3>5, CopyKeeps, RequestTyped
    <3>6. CASE Retry(c)
      BY <1>2, <3>6, RetryKeeps, RequestTyped
    <3> QED BY <1>2, <3>1, <3>2, <3>3, <3>4, <3>5, <3>6 DEF AnyStep, Serve, Requests
  <2>2. attempt[c] \in 0 .. MaxRetries /\ pieces[c] \in Seq(0 .. MaxRetries)
        /\ idx[c] \in Servers /\ last[c] \in Servers \cup {NoServer}
        /\ uploads[c] \in 0 .. MaxRetries + 1
    BY <1>1, <1>2 DEF UpstreamTypeOK, TypeOK, Requests
  <2>3. Append(pieces[c], attempt[c]) \in Seq(0 .. MaxRetries)
    <3> DEFINE R == 0 .. MaxRetries
    <3>1. pieces[c] \in Seq(R) /\ attempt[c] \in R
      BY <2>2
    <3> HIDE DEF R
    <3>2. Append(pieces[c], attempt[c]) \in Seq(R)
      BY <3>1
    <3> QED BY <3>2 DEF R
  <2> QED BY <2>1, <2>2, <2>3
<1>3. CASE c \in Requests /\ Receive(c)
  BY <1>1, <1>3 DEF Receive, Try, Goto, UpstreamTypeOK, Statuses
<1>4. CASE (c \in Requests /\ Pick(c)) \/ (c \in Upgrades /\ Upgrade(c))
  <2>1. UNCHANGED <<request, client, uploads, last>> /\ lone' \in [Requests -> BOOLEAN]
    BY <1>1, <1>4 DEF Pick, Upgrade, UpstreamTypeOK
  <2> QED BY <1>1, <2>1 DEF UpstreamTypeOK, request, client
<1>5. CASE c \in Requests /\ Fail(c)
  <2>1. /\ stage' \in [Requests -> {"idle", "next", "copy", "judge", "done"}]
        /\ result' \in [Requests -> Statuses] /\ status' \in [Requests -> Statuses]
        /\ declared' \in [Requests -> BOOLEAN]
    BY <1>1, <1>5 DEF Fail, Goto, Commit, UpstreamTypeOK, Statuses
  <2>2. pieces' \in [Requests -> Seq(0 .. MaxRetries)]
    <3>1. PICK piece \in Seq(0 .. MaxRetries) : pieces' = [pieces EXCEPT ![c] = piece]
      BY <1>2, <1>5 DEF Fail
    <3> QED BY <1>1, <3>1 DEF UpstreamTypeOK
  <2>3. uploads' \in [Requests -> 0 .. MaxRetries + 1]
    <3>1. PICK up \in {uploads[c], uploads[c] + 1} : uploads' = [uploads EXCEPT ![c] = up]
      BY <1>5 DEF Fail
    <3>2. uploads'[c] = up /\ uploads'[c] <= 1
      BY <1>1, <1>2, <1>5, <3>1 DEF UpstreamTypeOK, Answered
    <3>3. up \in 0 .. MaxRetries + 1
      BY <1>1, <1>2, <1>5, <3>1, <3>2
    <3> QED BY <1>1, <3>1, <3>3 DEF UpstreamTypeOK
  <2>4. last' \in [Requests -> Servers \cup {NoServer}]
    <3>1. PICK who \in Servers \cup {NoServer} : last' = [last EXCEPT ![c] = who]
      BY <1>2, <1>5 DEF Fail
    <3> QED BY <1>1, <3>1 DEF UpstreamTypeOK
  <2>5. UNCHANGED <<hasBody, attempt, aborted, lone>>
    BY <1>5 DEF Fail
  <2> QED BY <1>1, <2>1, <2>2, <2>3, <2>4, <2>5 DEF UpstreamTypeOK
<1>6. CASE c \in Requests /\ Respond(c)
  <2>1. /\ stage' \in [Requests -> {"idle", "next", "copy", "judge", "done"}]
        /\ result' \in [Requests -> Statuses] /\ status' \in [Requests -> Statuses]
        /\ declared' \in [Requests -> BOOLEAN]
    <3>1. PICK code \in Statuses, length \in BOOLEAN : Commit(c, code, length)
      BY <1>6 DEF Respond, Statuses
    <3>2. result' \in [Requests -> Statuses]
      BY <1>1, <3>1 DEF Commit, UpstreamTypeOK
    <3>3. status' \in [Requests -> Statuses] /\ declared' \in [Requests -> BOOLEAN]
      BY <1>1, <3>1 DEF Commit, UpstreamTypeOK
    <3> QED BY <1>1, <1>6, <3>2, <3>3 DEF Respond, Goto, UpstreamTypeOK
  <2>2. uploads' \in [Requests -> 0 .. MaxRetries + 1]
    <3>1. PICK up \in {uploads[c], uploads[c] + 1} : uploads' = [uploads EXCEPT ![c] = up]
      BY <1>6 DEF Respond
    <3>2. uploads'[c] = up /\ uploads'[c] <= 1
      BY <1>1, <1>2, <1>6, <3>1 DEF UpstreamTypeOK, Answered
    <3>3. up \in 0 .. MaxRetries + 1
      BY <1>1, <1>2, <1>6, <3>1, <3>2
    <3> QED BY <1>1, <3>1, <3>3 DEF UpstreamTypeOK
  <2>3. last' \in [Requests -> Servers \cup {NoServer}]
    BY <1>1, <1>2, <1>6 DEF Respond, UpstreamTypeOK
  <2>4. UNCHANGED <<hasBody, attempt, pieces, aborted, lone>>
    BY <1>6 DEF Respond
  <2> QED BY <1>1, <2>1, <2>2, <2>3, <2>4 DEF UpstreamTypeOK
<1>7. CASE c \in Requests /\ (Copy(c) \/ Abort(c) \/ Return(c))
  <2>1. stage' \in [Requests -> {"idle", "next", "copy", "judge", "done"}]
    BY <1>1, <1>7 DEF Copy, Abort, Return, Goto, UpstreamTypeOK
  <2>2. pieces' \in [Requests -> Seq(0 .. MaxRetries)] /\ aborted' \in [Requests -> BOOLEAN]
    BY <1>1, <1>2, <1>7 DEF Copy, Abort, Return, client, UpstreamTypeOK
  <2>3. UNCHANGED <<hasBody, attempt, result, status, declared, uploads, last, lone>>
    BY <1>7 DEF Copy, Abort, Return, client, history
  <2> QED BY <1>1, <2>1, <2>2, <2>3 DEF UpstreamTypeOK
<1>8. CASE c \in Requests /\ Retry(c)
  <2>1. attempt[c] + 1 \in 0 .. MaxRetries
    BY <1>1, <1>2, <1>8 DEF Retry
  <2>2. /\ stage' \in [Requests -> {"idle", "next", "copy", "judge", "done"}]
        /\ attempt' \in [Requests -> 0 .. MaxRetries] /\ result' \in [Requests -> Statuses]
    BY <1>1, <1>8, <2>1 DEF Retry, Try, Goto, UpstreamTypeOK, Statuses
  <2>3. UNCHANGED <<hasBody, status, declared, pieces, aborted, uploads, last, lone>>
    BY <1>8 DEF Retry, Try
  <2> QED BY <1>1, <2>2, <2>3 DEF UpstreamTypeOK
<1> QED BY <1>3, <1>4, <1>5, <1>6, <1>7, <1>8 DEF AnyStep, Serve

\* So every step of a caller keeps the invariant,
LEMMA RequestKeeps ==
  ASSUME UpstreamInv, NEW c \in Callers, AnyStep(c)
  PROVE  UpstreamInv'
<1>1. BalancerInv'
  BY CallerSteps, BalancerKeeps DEF UpstreamInv
<1>2. UpstreamTypeOK'
  BY <1>1, UpstreamTypes DEF BalancerInv
<1>3. ASSUME c \in Requests PROVE Answered(c)' /\ Turning(c)'
  <2>1. c \notin Upgrades
    BY <1>3 DEF Requests
  <2> QED BY <1>3, <2>1, ReceiveKeeps, PickKeeps, FailKeeps, RespondKeeps, CopyKeeps, RetryKeeps
          DEF AnyStep, Serve
<1>4. \A d \in Requests : Answered(d)' /\ Turning(d)'
  BY <1>3, OthersKeep
<1> QED BY <1>1, <1>2, <1>4 DEF UpstreamInv

\* and so does the world around it.
LEMMA UpstreamWorld ==
  ASSUME UpstreamInv, \/ World /\ UNCHANGED <<request, client, history>>
                      \/ UNCHANGED upstreamVars
  PROVE  UpstreamInv'
<1>1. UNCHANGED <<request, client, history>> /\ (World \/ UNCHANGED balancerVars)
  BY DEF upstreamVars
<1>2. /\ UNCHANGED <<stage, hasBody, attempt, result, status, declared, pieces, aborted>>
      /\ UNCHANGED <<uploads, last, lone>> /\ UNCHANGED <<counter, scan, tries, idx, alone>>
  BY <1>1 DEF request, client, history, World, balancerVars, call
<1>3. BalancerInv'
  BY <1>1, BalancerKeeps DEF UpstreamInv, BalancerStep
<1>4. UpstreamTypeOK'
  BY <1>2, <1>3 DEF UpstreamInv, UpstreamTypeOK, BalancerInv
<1>5. ASSUME NEW c \in Requests PROVE Answered(c)' /\ Turning(c)'
  <2>1. steady'[c] \subseteq steady[c]
    BY <1>1 DEF World, balancerVars, call, Requests
  <2>2. Answered(c) /\ Turning(c)
    BY DEF UpstreamInv
  <2>3. Answered(c)'
    BY <1>2, <2>2 DEF Answered
  <2>4. Turning(c)'
    BY <1>2, <2>1, <2>2 DEF Turning
  <2> QED BY <2>3, <2>4
<1> QED BY <1>3, <1>4, <1>5 DEF UpstreamInv

\* The invariant holds before the first request.
LEMMA UpstreamStarts == UpstreamInit => UpstreamInv
<1> SUFFICES ASSUME UpstreamInit PROVE UpstreamInv
  OBVIOUS
<1>1. BalancerInv
  BY BalancerStarts DEF UpstreamInit
<1>2. UpstreamTypeOK
  <2>1. <<>> \in Seq(0 .. MaxRetries) /\ 0 \in 0 .. MaxRetries /\ 0 \in 0 .. MaxRetries + 1
    BY MaxRetriesAssumption
  <2>2. TypeOK
    BY <1>1 DEF BalancerInv
  <2> QED BY <2>1, <2>2 DEF UpstreamInit, UpstreamTypeOK, Statuses
<1>3. ASSUME NEW c \in Requests PROVE Answered(c) /\ Turning(c)
  <2>1. /\ stage[c] = "idle" /\ scan[c] = "off" /\ attempt[c] = 0 /\ last[c] = NoServer
        /\ status[c] = "none" /\ pieces[c] = <<>> /\ uploads[c] = 0 /\ ~lone[c]
    BY DEF UpstreamInit, Init, Requests
  <2> QED BY <2>1 DEF Answered, Turning
<1> QED BY <1>1, <1>2, <1>3 DEF UpstreamInv

\* However the requests, their retries and the health checker interleave, what a
\* client has been sent agrees with the attempts that were made (proxy.go).
THEOREM UpstreamInvariant == UpstreamSpec => []UpstreamInv
<1>1. ASSUME UpstreamInv, [UpstreamNext]_upstreamVars PROVE UpstreamInv'
  <2>1. ASSUME NEW c \in Requests, Receive(c) \/ Serve(c) PROVE UpstreamInv'
    BY <1>1, <2>1, RequestKeeps DEF AnyStep, Requests
  <2>2. ASSUME NEW c \in Upgrades, Upgrade(c) PROVE UpstreamInv'
    BY <1>1, <2>2, RequestKeeps, UpgradesAssumption DEF AnyStep
  <2> QED BY <1>1, <2>1, <2>2, UpstreamWorld DEF UpstreamNext
<1> QED BY <1>1, UpstreamStarts, PTL DEF UpstreamSpec

\* Requests, the balancer and the checker keep to their types.
THEOREM UpstreamTyped == UpstreamSpec => []UpstreamTypeOK
<1>1. UpstreamInv => UpstreamTypeOK
  BY DEF UpstreamInv
<1> QED BY <1>1, UpstreamInvariant, PTL

\* A success the client gets is the first attempt's, from one backend
\* (proxy.go:111-130).
THEOREM SuccessWhole == UpstreamSpec => []SuccessFromOne
<1>1. ASSUME UpstreamInv PROVE SuccessFromOne
  <2> SUFFICES ASSUME NEW c \in Requests, status[c] = "ok"
               PROVE  attempt[c] = 0 /\ pieces[c] \in {<<>>, <<0>>}
    BY DEF SuccessFromOne
  <2> QED BY <1>1, RequestTyped DEF Answered
<1> QED BY <1>1, UpstreamInvariant, PTL

\* No request's body reaches two backends, whatever MaxRetries is
\* (proxy.go:113-123).
THEOREM UploadsOnce == UpstreamSpec => []UploadedOnce
<1>1. UpstreamInv => UploadedOnce
  BY DEF UpstreamInv, Answered, UploadedOnce
<1> QED BY <1>1, UpstreamInvariant, PTL

\* A retry moves on to another server that is healthy, if nobody else takes a
\* turn meanwhile, whatever the number of servers (proxy.go:111-123 over
\* balancer.go:37-42).
THEOREM RetriesRotate == UpstreamSpec => []RetryRotates
<1>1. ASSUME UpstreamInv PROVE RetryRotates
  <2> SUFFICES ASSUME NEW c \in Requests, stage[c] = "next", scan[c] = "found", lone[c],
                      last[c] # NoServer, steady[c] \ {last[c]} # {}, idx[c] = last[c]
               PROVE  FALSE
    BY DEF RetryRotates
  <2> QED BY <1>1, RequestTyped DEF Turning
<1> QED BY <1>1, UpstreamInvariant, PTL

\* The balancer keeps its promises under the requests and upgrades that use it
\* (balancer.go:32-44).
THEOREM BalancerKept == UpstreamSpec => [](SoloScan /\ FairShare)
<1>1. UpstreamInv => SoloScan /\ FairShare
  BY BalancerPromises DEF UpstreamInv
<1> QED BY <1>1, UpstreamInvariant, PTL
=============================================================================
