---------------------------- MODULE LifecycleProofs ----------------------------
(***************************************************************************)
(* Proofs about Lifecycle, for any list of listeners.                      *)
(*                                                                         *)
(* Start appends the servers in the order of the listeners, Stop goes       *)
(* through what it found in the same order, and Serve returns only of a     *)
(* server that is shut.  So the process can end only after Shutdown of the  *)
(* last server was called, and before that Stop has drained all the others. *)
(***************************************************************************)
EXTENDS Lifecycle, SequenceTheorems, TLAPS

Https == {Http(i) : i \in Listeners}
Quics == {Quic(i) : i \in HTTP3}

\* The servers of the listeners k + 1, k + 2, ..., k + m in a list.
Row(k, m) == [j \in 1 .. m |-> Http(k + j)]

\* How many listeners have their server registered.
Registered == IF start \in {"append3", "udp", "wait"} THEN cur ELSE cur - 1

Listed ==
  /\ servers = Row(0, Registered)
  /\ http3Srvs \in Seq(Quics)
  /\ start \in {"append3", "udp"} => cur \in HTTP3
  /\ start = "wait" => cur = Count
  /\ \A i \in 1 .. Registered : Http(i) \in running \cup shut
  /\ \A s \in Servers : inflight[s] > 0 => s \in running \cup shut

\* Shutdown of the server was called, and it has no request left.
Drained(s) == s \in shut /\ inflight[s] = 0

\* Where Stop is with the servers of HTTP/3,
Stopping3 ==
  /\ stop = "idle" => shut = {} /\ ranged = {} /\ ~expired
  /\ stop \in {"idle", "over"} => todo = <<>>
  /\ stop = "h3" => /\ todo \in Seq(Quics) /\ shut \subseteq Quics
                    /\ \A s \in ranged : s \in ToSet(todo) \/ Drained(s)
  /\ stop \in {"http", "over"} => \A s \in ranged \cap Quics : Drained(s)
  /\ shut \subseteq ranged
  /\ ToSet(todo) \subseteq ranged
  /\ waiting => stop \in {"h3", "http"} /\ todo # <<>> /\ Head(todo) \in shut

\* and with the others: of those that are shut, only the one that Stop waits
\* for may have requests.
Stopping1 ==
  /\ stop = "http" =>
       \E k \in Nat :
         /\ todo = Row(k, Len(todo)) /\ k + Len(todo) <= Count
         /\ \A i \in Listeners : Http(i) \in shut => i <= k \/ (waiting /\ i = k + 1)
         /\ ~expired => \A i \in Listeners : Http(i) \in shut /\ i <= k => inflight[Http(i)] = 0
  /\ stop = "over" /\ ~expired => \A s \in shut : inflight[s] = 0

Ending ==
  /\ process = "running" /\ ~expired => cut = {}
  /\ CutOnlyLast

LifecycleInv == TypeOK /\ Listed /\ Stopping3 /\ Stopping1 /\ Ending
-----------------------------------------------------------------------------
\* A server has one name.
LEMMA Names ==
  /\ \A i \in Listeners, j \in Listeners : Http(i) # Quic(j) /\ (Http(i) = Http(j) => i = j)
  /\ \A i \in Listeners : Http(i) \in Servers /\ Http(i) \notin Quics
  /\ Quics \subseteq Servers
  /\ \A s \in Servers : s \in Quics \/ \E i \in Listeners : s = Http(i)
  /\ HTTP3 \subseteq Listeners /\ Count \in Nat /\ Count > 0
<1>1. \A i, j : Http(i) # Quic(j) /\ (Http(i) = Http(j) => i = j)
  BY DEF Http, Quic
<1>2. HTTP3 \subseteq Listeners /\ Count \in Nat /\ Count > 0
  BY ListenAssumption
<1> QED BY <1>1, <1>2 DEF Servers, Quics

\* The list of the servers after the k-th, as it is built and as it is consumed.
LEMMA Rows ==
  ASSUME NEW k \in Nat, NEW m \in Nat, k + m <= Count
  PROVE  /\ Row(k, m) \in Seq(Https) /\ Row(k, m) \in Seq(Servers)
         /\ Len(Row(k, m)) = m
         /\ \A j \in 1 .. m : Row(k, m)[j] = Http(k + j)
         /\ m > 0 => Row(k, m) # <<>> /\ Head(Row(k, m)) = Http(k + 1)
         /\ m > 0 => Tail(Row(k, m)) = Row(k + 1, m - 1)
         /\ m = 0 => Row(k, m) = <<>>
         /\ Append(Row(k, m), Http(k + m + 1)) = Row(k, m + 1)
<1>1. \A j \in 1 .. m : k + j \in Listeners /\ Http(k + j) \in Servers /\ Http(k + j) \in Https
  BY Names DEF Https, Listeners
<1>2. Row(k, m) \in Seq(Https) /\ Row(k, m) \in Seq(Servers)
  BY <1>1 DEF Row
<1>3. Len(Row(k, m)) = m /\ \A j \in 1 .. m : Row(k, m)[j] = Http(k + j)
  BY DEF Row
<1>4. ASSUME m > 0 PROVE Row(k, m) # <<>> /\ Head(Row(k, m)) = Http(k + 1)
  BY <1>2, <1>3, <1>4
<1>5. ASSUME m > 0 PROVE Tail(Row(k, m)) = Row(k + 1, m - 1)
  <2>1. Row(k, m) # <<>>
    BY <1>4, <1>5
  <2>2. /\ Tail(Row(k, m)) \in Seq(Servers) /\ Len(Tail(Row(k, m))) = m - 1
        /\ \A j \in 1 .. m - 1 : Tail(Row(k, m))[j] = Row(k, m)[j + 1]
    BY <1>2, <1>3, <2>1, HeadTailProperties
  <2>3. \A j \in 1 .. m - 1 : Tail(Row(k, m))[j] = Http((k + 1) + j)
    <3> TAKE j \in 1 .. m - 1
    <3>1. j + 1 \in 1 .. m /\ k + (j + 1) = (k + 1) + j
      OBVIOUS
    <3> QED BY <2>2, <3>1, <1>3
  <2>4. /\ Row(k + 1, m - 1) \in Seq(Servers) /\ Len(Row(k + 1, m - 1)) = m - 1
        /\ \A j \in 1 .. m - 1 : Row(k + 1, m - 1)[j] = Http((k + 1) + j)
    <3>1. \A j \in 1 .. m - 1 : Http((k + 1) + j) \in Servers
      BY Names DEF Listeners
    <3> QED BY <1>5, <3>1 DEF Row
  <2> QED BY <2>2, <2>3, <2>4, SeqEqual
<1>6. m = 0 => Row(k, m) = <<>>
  BY <1>2, <1>3
<1>7. Append(Row(k, m), Http(k + m + 1)) = Row(k, m + 1)
  BY <1>2, <1>3 DEF Row
<1> QED BY <1>2, <1>3, <1>4, <1>5, <1>6, <1>7

\* The invariant holds before the first listener.
LEMMA Starts == Init => LifecycleInv
<1> SUFFICES ASSUME Init PROVE LifecycleInv
  OBVIOUS
<1>1. TypeOK
  <2>1. cur \in Listeners /\ start \in StartSteps
    BY Names DEF Init, StartSteps, Listeners
  <2>2. inflight \in [Servers -> 0..MaxInflight]
    BY BoundAssumption DEF Init
  <2>3. servers \in Seq(Servers) /\ http3Srvs \in Seq(Servers) /\ todo \in Seq(Servers)
    BY DEF Init
  <2> QED BY <2>1, <2>2, <2>3 DEF Init, TypeOK
<1>2. Listed
  <2>1. Registered = 0 /\ Row(0, 0) = <<>>
    BY Names, Rows DEF Init, Registered
  <2>2. http3Srvs \in Seq(Quics)
    BY DEF Init
  <2> QED BY <2>1, <2>2 DEF Init, Listed
<1>3. Stopping3 /\ Stopping1
  BY DEF Init, Stopping3, Stopping1, ToSet
<1>4. Ending
  BY DEF Init, Ending, CutOnlyLast
<1> QED BY <1>1, <1>2, <1>3, <1>4 DEF LifecycleInv
-----------------------------------------------------------------------------
\* What a step must respect that does not move Stop.
LEMMA StopKept ==
  ASSUME LifecycleInv, UNCHANGED <<stop, todo, waiting, expired, ranged, shut>>,
         \A s \in shut : inflight[s] = 0 => inflight'[s] = 0
  PROVE  Stopping3' /\ Stopping1'
<1>1. TypeOK /\ Stopping3 /\ Stopping1
  BY DEF LifecycleInv
<1>2. \A s \in ranged : Drained(s) => Drained(s)'
  BY DEF Drained
<1>3. Stopping3'
  BY <1>1, <1>2 DEF Stopping3
<1>4. Stopping1'
  <2>1. ASSUME stop = "http"
        PROVE \E k \in Nat :
                /\ todo' = Row(k, Len(todo')) /\ k + Len(todo') <= Count
                /\ \A i \in Listeners : Http(i) \in shut' => i <= k \/ (waiting' /\ i = k + 1)
                /\ ~expired' => \A i \in Listeners : Http(i) \in shut' /\ i <= k => inflight'[Http(i)] = 0
    BY <1>1, <2>1 DEF Stopping1
  <2>2. stop = "over" /\ ~expired => \A s \in shut : inflight'[s] = 0
    BY <1>1 DEF Stopping1
  <2> QED BY <2>1, <2>2 DEF Stopping1
<1> QED BY <1>3, <1>4

\* What a step must respect that does not move Start.
LEMMA ListKept ==
  ASSUME LifecycleInv, UNCHANGED startVars,
         running \cup shut \subseteq running' \cup shut',
         \A s \in Servers : inflight'[s] > 0 => inflight[s] > 0 \/ s \in running
  PROVE  Listed'
<1>1. Listed
  BY DEF LifecycleInv
<1>2. Registered' = Registered
  BY DEF Registered, startVars
<1> QED BY <1>1, <1>2 DEF Listed, startVars

\* What a step must respect that does not end the process.
LEMMA GoesOn ==
  ASSUME LifecycleInv, process = "running", process' = "running", cut' = cut, expired' = expired
  PROVE  Ending'
BY DEF LifecycleInv, Ending, CutOnlyLast

\* One round of Start: it appends the server of the listener it is at, the
\* next one after those already listed.
LEMMA Appended ==
  ASSUME LifecycleInv
  PROVE  /\ cur \in Nat /\ cur > 0 /\ cur <= Count /\ cur \in Listeners
         /\ Registered \in Nat /\ Registered <= Count
         /\ servers = Row(0, Registered) /\ Len(servers) = Registered
         /\ start = "append" => Append(servers, Http(cur)) = Row(0, cur)
<1>1. cur \in Nat /\ cur > 0 /\ cur <= Count /\ cur \in Listeners
  BY Names DEF LifecycleInv, TypeOK, Listeners
<1>2. Registered \in Nat /\ Registered <= Count /\ 0 + Registered <= Count
  <2>1. Registered = cur \/ Registered = cur - 1
    BY DEF Registered
  <2> QED BY <1>1, <2>1, Names
<1>3. servers = Row(0, Registered)
  BY DEF LifecycleInv, Listed
<1>4. Len(servers) = Registered
  BY <1>2, <1>3, Rows
<1>5. ASSUME start = "append" PROVE Append(servers, Http(cur)) = Row(0, cur)
  <2>1. Registered = cur - 1 /\ 0 + Registered + 1 = cur /\ Registered + 1 = cur
    BY <1>1, <1>5 DEF Registered
  <2>2. 0 \in Nat /\ Append(Row(0, Registered), Http(0 + Registered + 1)) = Row(0, Registered + 1)
    BY <1>2, Rows
  <2> QED BY <1>3, <2>1, <2>2
<1> QED BY <1>1, <1>2, <1>3, <1>4, <1>5

\* Opening and registering a listener keeps it,
LEMMA StartupKeeps ==
  ASSUME LifecycleInv, Startup
  PROVE  LifecycleInv'
<1>1. /\ process = "running" /\ process' = "running"
      /\ UNCHANGED <<stop, todo, waiting, expired, ranged, quit, shut, cut, inflight>>
  BY DEF Startup, stopVars, Listen, SetUp, Register, Register3, ListenUDP
<1>2. Stopping3' /\ Stopping1'
  BY <1>1, StopKept
<1>3. Ending'
  BY <1>1, GoesOn
<1>4. TypeOK /\ Listed /\ Count \in Nat /\ Count > 0
  BY Names DEF LifecycleInv
<1>5. ASSUME start' \in StartSteps, cur' \in Listeners,
             servers' \in Seq(Servers), http3Srvs' \in Seq(Quics), running' \subseteq Servers
      PROVE  TypeOK'
  <2>1. http3Srvs' \in Seq(Servers)
    BY <1>5, Names, SeqMonotonic
  <2> QED BY <1>1, <1>4, <1>5, <2>1 DEF TypeOK
<1>6. ASSUME UNCHANGED <<servers, http3Srvs, cur>>, running \subseteq running', running' \subseteq Servers,
             start' \in StartSteps, Registered' = Registered,
             start' \notin {"append3", "udp", "wait"}
      PROVE  LifecycleInv'
  <2>1. Listed'
    BY <1>1, <1>4, <1>6 DEF Listed
  <2>2. TypeOK'
    BY <1>4, <1>5, <1>6 DEF TypeOK, Listed
  <2> QED BY <1>2, <1>3, <2>1, <2>2 DEF LifecycleInv
<1>7. CASE Listen
  <2>1. Registered' = Registered
    BY <1>7 DEF Listen, Registered
  <2> QED BY <1>4, <1>6, <1>7, <2>1 DEF Listen, StartSteps, TypeOK
<1>8. CASE SetUp
  <2>1. Registered' = Registered /\ start' \in {"append", "failed"}
    BY <1>8 DEF SetUp, Registered
  <2> QED BY <1>4, <1>6, <1>8, <2>1 DEF SetUp, StartSteps, TypeOK
<1>9. CASE Register
  <2>1. servers' = Row(0, cur) /\ cur \in Nat /\ 0 + cur <= Count /\ cur \in Listeners
    BY <1>9, Appended DEF Register
  <2>2. servers' \in Seq(Servers)
    BY <2>1, Rows
  <2>3. Http(cur) \in Servers /\ running' = running \cup {Http(cur)} /\ http3Srvs' = http3Srvs
    BY <1>9, <2>1, Names DEF Register
  <2>4. /\ Registered' = cur
        /\ start' \in StartSteps /\ cur' \in Listeners
        /\ start' \in {"append3", "udp"} => cur' \in HTTP3
        /\ start' = "wait" => cur' = Count
    <3>1. CASE cur \in HTTP3
      BY <1>9, <2>1, <3>1 DEF Register, Registered, StartSteps
    <3>2. CASE cur \notin HTTP3 /\ cur < Count
      <4>1. start' = "listen" /\ cur' = cur + 1
        BY <1>9, <3>2 DEF Register, NextListener
      <4> QED BY <1>4, <2>1, <3>2, <4>1 DEF Registered, StartSteps, Listeners
    <3>3. CASE cur \notin HTTP3 /\ ~(cur < Count)
      <4>1. start' = "wait" /\ cur' = cur /\ cur = Count
        BY <1>4, <1>9, <2>1, <3>3 DEF Register, NextListener
      <4> QED BY <2>1, <4>1 DEF Registered, StartSteps
    <3> QED BY <3>1, <3>2, <3>3
  <2>5. \A i \in 1 .. cur : Http(i) \in running' \cup shut
    <3>1. Registered = cur - 1
      BY <1>9 DEF Register, Registered
    <3> QED BY <1>4, <2>1, <2>3, <3>1 DEF Listed
  <2>6. Listed'
    BY <1>1, <1>4, <2>1, <2>3, <2>4, <2>5 DEF Listed
  <2>7. TypeOK'
    BY <1>4, <1>5, <2>2, <2>3, <2>4 DEF TypeOK, Listed
  <2> QED BY <1>2, <1>3, <2>6, <2>7 DEF LifecycleInv
<1>10. CASE Register3
  <2>1. /\ start' = "udp" /\ cur' = cur /\ cur \in HTTP3 /\ servers' = servers
        /\ running' = running /\ Registered' = Registered
    BY <1>4, <1>10 DEF Register3, Listed, Registered
  <2>2. http3Srvs' \in Seq(Quics)
    BY <1>4, <1>10, <2>1 DEF Register3, Listed, Quics
  <2>3. Listed'
    BY <1>1, <1>4, <2>1, <2>2 DEF Listed
  <2>4. TypeOK'
    BY <1>4, <1>5, <2>1, <2>2 DEF TypeOK, StartSteps
  <2> QED BY <1>2, <1>3, <2>3, <2>4 DEF LifecycleInv
<1>11. CASE ListenUDP
  <2>1. /\ servers' = servers /\ http3Srvs' = http3Srvs
        /\ running \subseteq running' /\ running' \subseteq running \cup {Quic(cur)}
    BY <1>11 DEF ListenUDP
  <2>2. running' \subseteq Servers
    <3>1. Quic(cur) \in Servers
      BY <1>4, <1>11, Names DEF ListenUDP, Listed, Quics
    <3> QED BY <1>4, <2>1, <3>1 DEF TypeOK
  <2>3. cur \in Nat /\ cur <= Count /\ cur \in Listeners
    BY Appended
  <2>4. /\ Registered' = Registered
        /\ start' \in {"listen", "wait"} /\ cur' \in Listeners
        /\ start' = "wait" => cur' = Count
    <3>1. CASE cur < Count
      <4>1. start = "udp" /\ start' = "listen" /\ cur' = cur + 1
        BY <1>11, <3>1 DEF ListenUDP, NextListener
      <4> QED BY <1>4, <2>3, <3>1, <4>1 DEF Registered, Listeners
    <3>2. CASE ~(cur < Count)
      <4>1. start = "udp" /\ start' = "wait" /\ cur' = cur /\ cur = Count
        BY <1>4, <1>11, <2>3, <3>2 DEF ListenUDP, NextListener
      <4> QED BY <2>3, <4>1 DEF Registered
    <3> QED BY <3>1, <3>2
  <2>5. Listed'
    BY <1>1, <1>4, <2>1, <2>4 DEF Listed
  <2>6. TypeOK'
    <3>1. start' \in StartSteps
      BY <2>4 DEF StartSteps
    <3> QED BY <1>4, <1>5, <2>1, <2>2, <2>4, <3>1 DEF TypeOK, Listed
  <2> QED BY <1>2, <1>3, <2>5, <2>6 DEF LifecycleInv
<1> QED BY <1>7, <1>8, <1>9, <1>10, <1>11 DEF Startup
-----------------------------------------------------------------------------
\* Serve has returned everywhere: then Stop has called Shutdown of the last
\* server, and no other one can have requests.
LEMMA OneServerLeft ==
  ASSUME LifecycleInv, start = "wait", running = {}, ~expired,
         NEW s \in Servers, inflight[s] > 0
  PROVE  servers # <<>> /\ s = servers[Len(servers)]
<1>1. TypeOK /\ Listed /\ Stopping3 /\ Stopping1
  BY DEF LifecycleInv
<1>2. Registered = Count /\ servers = Row(0, Count) /\ Len(servers) = Count
  <2>1. Registered = Count
    BY <1>1 DEF Listed, Registered
  <2> QED BY <2>1, Appended
<1>3. Count \in Nat /\ Count > 0 /\ Count \in Listeners
  BY Names DEF Listeners
<1>4. servers # <<>> /\ servers[Len(servers)] = Http(Count)
  <2>1. Row(0, Count) # <<>> /\ Row(0, Count)[Count] = Http(0 + Count) /\ 0 + Count = Count
    <3>1. 0 \in Nat /\ 0 + Count <= Count /\ Count \in 1 .. Count /\ 0 + Count = Count
      BY <1>3
    <3> QED BY <1>3, <3>1, Rows
  <2> QED BY <1>2, <2>1
<1>5. Http(Count) \in shut /\ s \in shut /\ inflight[s] # 0
  <2>1. Count \in 1 .. Registered
    BY <1>2, <1>3
  <2>2. Http(Count) \in shut /\ s \in shut
    BY <1>1, <2>1 DEF Listed
  <2> QED BY <2>2, <1>1 DEF TypeOK
<1>6. ~Drained(s)
  BY <1>5 DEF Drained
<1>7. Http(Count) \notin Quics
  BY <1>3, Names
<1>8. stop = "http"
  <2>1. stop # "idle"
    BY <1>1, <1>5 DEF Stopping3
  <2>2. stop # "h3"
    BY <1>1, <1>5, <1>7 DEF Stopping3
  <2>3. stop # "over"
    BY <1>1, <1>5 DEF Stopping1
  <2> QED BY <1>1, <2>1, <2>2, <2>3 DEF TypeOK
<1>9. PICK i \in Listeners : s = Http(i)
  <2>1. s \notin Quics
    BY <1>1, <1>5, <1>6, <1>8 DEF Stopping3
  <2> QED BY <2>1, Names
<1>10. PICK k \in Nat :
          /\ \A j \in Listeners : Http(j) \in shut => j <= k \/ (waiting /\ j = k + 1)
          /\ \A j \in Listeners : Http(j) \in shut /\ j <= k => inflight[Http(j)] = 0
  BY <1>1, <1>8 DEF Stopping1
<1>11. ~(i <= k)
  BY <1>5, <1>9, <1>10
<1>12. i = k + 1
  BY <1>5, <1>9, <1>10, <1>11
<1>13. Count <= k \/ Count = k + 1
  BY <1>3, <1>5, <1>10
<1>14. i \in Nat /\ i <= Count
  BY DEF Listeners
<1>15. i = Count
  BY <1>3, <1>12, <1>13, <1>14
<1> QED BY <1>4, <1>9, <1>15

\* and so does the end of the process, however it comes,
LEMMA EndKeeps ==
  ASSUME LifecycleInv, MainReturns \/ MainFails \/ TornRead
  PROVE  LifecycleInv'
<1>1. /\ UNCHANGED <<startVars, stopVars, running, shut, inflight>>
      /\ process' \in {"ended", "error", "crashed"}
      /\ cut' = cut \cup Abandoned
      /\ process = "running"
  BY DEF MainReturns, MainFails, TornRead
<1>2. TypeOK /\ Ending
  BY DEF LifecycleInv
<1>3. TypeOK'
  <2>1. cut' \subseteq Servers
    BY <1>1, <1>2 DEF TypeOK, Abandoned
  <2> QED BY <1>1, <1>2, <2>1 DEF TypeOK, startVars, stopVars
<1>4. Listed'
  BY <1>1, ListKept
<1>5. Stopping3' /\ Stopping1'
  BY <1>1, StopKept DEF stopVars
<1>6. CutOnlyLast'
  <2> SUFFICES ASSUME process' = "ended", ~expired', NEW s \in cut'
               PROVE  servers' # <<>> /\ s = servers'[Len(servers')]
    BY DEF CutOnlyLast
  <2>1. MainReturns /\ ~expired /\ servers' = servers
    BY <1>1 DEF MainFails, TornRead, startVars, stopVars
  <2>2. cut = {}
    BY <1>1, <1>2, <2>1 DEF Ending
  <2>3. s \in Servers /\ inflight[s] > 0
    BY <1>1, <2>2 DEF Abandoned
  <2>4. start = "wait" /\ running = {}
    BY <2>1 DEF MainReturns
  <2> QED BY <2>1, <2>3, <2>4, OneServerLeft
<1>7. Ending'
  BY <1>1, <1>6 DEF Ending
<1> QED BY <1>3, <1>4, <1>5, <1>7 DEF LifecycleInv

\* a request that comes or ends,
LEMMA RequestKeeps ==
  ASSUME LifecycleInv, NEW s \in Servers, Accept(s) \/ Complete(s)
  PROVE  LifecycleInv'
<1>1. /\ UNCHANGED <<startVars, stopVars, running, shut, process, cut>>
      /\ process = "running"
  BY DEF Accept, Complete
<1>2. TypeOK
  BY DEF LifecycleInv
<1>3. /\ inflight[s] \in 0 .. MaxInflight /\ MaxInflight \in Nat
      /\ \A r \in Servers : inflight[r] \in Nat
  BY <1>2, BoundAssumption DEF TypeOK
<1>4. inflight' \in [Servers -> 0 .. MaxInflight]
  <2>1. CASE Accept(s)
    <3>1. inflight[s] + 1 \in 0 .. MaxInflight
      BY <1>3, <2>1 DEF Accept
    <3> QED BY <1>2, <2>1, <3>1 DEF Accept, TypeOK
  <2>2. CASE Complete(s)
    <3>1. inflight[s] - 1 \in 0 .. MaxInflight
      BY <1>3, <2>2 DEF Complete
    <3> QED BY <1>2, <2>2, <3>1 DEF Complete, TypeOK
  <2> QED BY <2>1, <2>2
<1>5. TypeOK'
  BY <1>1, <1>2, <1>4 DEF TypeOK, startVars, stopVars
<1>6. \A r \in Servers : r # s => inflight'[r] = inflight[r]
  BY <1>2 DEF Accept, Complete, TypeOK
<1>7. s \in shut => inflight[s] > 0
  BY DEF Accept, Complete
<1>8. s \in running \/ inflight[s] > 0
  BY DEF Accept, Complete
<1>9. Listed'
  BY <1>1, <1>6, <1>8, ListKept
<1>10. \A r \in shut : inflight[r] = 0 => inflight'[r] = 0
  BY <1>2, <1>3, <1>6, <1>7 DEF TypeOK
<1>11. Stopping3' /\ Stopping1'
  BY <1>1, <1>10, StopKept DEF stopVars
<1>12. Ending'
  BY <1>1, GoesOn DEF stopVars
<1> QED BY <1>5, <1>9, <1>11, <1>12 DEF LifecycleInv

\* a server that returns,
LEMMA ServeKeeps ==
  ASSUME LifecycleInv, NEW s \in Servers, ServeReturns(s)
  PROVE  LifecycleInv'
<1>1. /\ UNCHANGED <<startVars, stopVars, shut, inflight, process, cut>>
      /\ process = "running" /\ s \in shut /\ running' = running \ {s}
  BY DEF ServeReturns
<1>2. TypeOK'
  BY <1>1 DEF LifecycleInv, TypeOK, startVars, stopVars
<1>3. Listed'
  BY <1>1, ListKept
<1>4. Stopping3' /\ Stopping1'
  BY <1>1, StopKept DEF stopVars
<1>5. Ending'
  BY <1>1, GoesOn DEF stopVars
<1> QED BY <1>2, <1>3, <1>4, <1>5 DEF LifecycleInv

\* a signal,
LEMMA SignalKeeps ==
  ASSUME LifecycleInv, Signal
  PROVE  LifecycleInv'
<1>1. /\ UNCHANGED <<startVars, stop, todo, waiting, expired, ranged,
                     running, shut, inflight, process, cut>>
      /\ process = "running" /\ quit' = TRUE
  BY DEF Signal
<1>2. TypeOK'
  BY <1>1 DEF LifecycleInv, TypeOK, startVars
<1>3. Listed' /\ Stopping3' /\ Stopping1' /\ Ending'
  BY <1>1, ListKept, StopKept, GoesOn
<1> QED BY <1>2, <1>3 DEF LifecycleInv

\* and the deadline of Stop.
LEMMA ExpireKeeps ==
  ASSUME LifecycleInv, Expire
  PROVE  LifecycleInv'
<1>1. /\ UNCHANGED <<startVars, quit, stop, todo, waiting, ranged,
                     running, shut, inflight, process, cut>>
      /\ process = "running" /\ expired' = TRUE /\ stop \in {"h3", "http"}
  BY DEF Expire
<1>2. TypeOK'
  BY <1>1 DEF LifecycleInv, TypeOK, startVars
<1>3. Listed'
  BY <1>1, ListKept
<1>4. Stopping3'
  BY <1>1 DEF LifecycleInv, Stopping3, Drained
<1>5. Stopping1'
  BY <1>1 DEF LifecycleInv, Stopping1
<1>6. Ending'
  BY <1>1 DEF Ending, CutOnlyLast
<1> QED BY <1>2, <1>3, <1>4, <1>5, <1>6 DEF LifecycleInv
-----------------------------------------------------------------------------
\* The first of a list and the rest of it.
LEMMA Heads ==
  ASSUME NEW S, NEW list \in Seq(S)
  PROVE  /\ ToSet(list) \subseteq S
         /\ list = <<>> => ToSet(list) = {}
         /\ list # <<>> => /\ Head(list) \in ToSet(list) /\ Head(list) \in S
                           /\ Tail(list) \in Seq(S)
                           /\ ToSet(Tail(list)) \subseteq ToSet(list)
                           /\ \A s \in ToSet(list) : s = Head(list) \/ s \in ToSet(Tail(list))
<1>1. /\ DOMAIN list = 1 .. Len(list) /\ Len(list) \in Nat
      /\ \A i \in 1 .. Len(list) : list[i] \in S
  BY LenProperties, ElementOfSeq
<1>2. ToSet(list) \subseteq S
  BY <1>1 DEF ToSet
<1>3. list = <<>> => ToSet(list) = {}
  BY <1>1 DEF ToSet
<1>4. ASSUME list # <<>>
      PROVE  /\ Head(list) \in ToSet(list) /\ Head(list) \in S
             /\ Tail(list) \in Seq(S)
             /\ ToSet(Tail(list)) \subseteq ToSet(list)
             /\ \A s \in ToSet(list) : s = Head(list) \/ s \in ToSet(Tail(list))
  <2>1. Len(list) > 0 /\ Head(list) = list[1]
    BY <1>1, <1>4
  <2>2. /\ Head(list) \in S /\ Tail(list) \in Seq(S) /\ Len(Tail(list)) = Len(list) - 1
        /\ \A i \in 1 .. Len(Tail(list)) : Tail(list)[i] = list[i + 1]
    BY <1>4, HeadTailProperties
  <2>3. DOMAIN Tail(list) = 1 .. Len(list) - 1
    BY <2>2, LenProperties
  <2>4. Head(list) \in ToSet(list)
    BY <1>1, <2>1 DEF ToSet
  <2>5. ToSet(Tail(list)) \subseteq ToSet(list)
    <3>1. \A i \in 1 .. Len(list) - 1 : i + 1 \in 1 .. Len(list)
      BY <1>1
    <3> QED BY <1>1, <2>2, <2>3, <3>1 DEF ToSet
  <2>6. ASSUME NEW s \in ToSet(list) PROVE s = Head(list) \/ s \in ToSet(Tail(list))
    <3>1. PICK i \in 1 .. Len(list) : s = list[i]
      BY <1>1 DEF ToSet
    <3>2. CASE i = 1
      BY <2>1, <3>1, <3>2
    <3>3. CASE i # 1
      <4>1. i - 1 \in 1 .. Len(list) - 1 /\ (i - 1) + 1 = i
        BY <1>1, <3>3
      <4>2. Tail(list)[i - 1] = s
        BY <2>2, <3>1, <4>1
      <4> QED BY <2>3, <4>1, <4>2 DEF ToSet
    <3> QED BY <3>2, <3>3
  <2> QED BY <2>2, <2>4, <2>5, <2>6
<1> QED BY <1>2, <1>3, <1>4

\* Stop begins, with the list of HTTP/3 servers,
LEMMA WakeKeeps ==
  ASSUME LifecycleInv, Loop, Wake
  PROVE  LifecycleInv'
<1>1. /\ UNCHANGED <<startVars, running, shut, inflight, process, cut, waiting, expired>>
      /\ process = "running" /\ stop = "idle" /\ stop' = "h3" /\ quit' = FALSE
      /\ todo' \in Found(http3Srvs, "append3", Quic(cur)) /\ ranged' = ToSet(todo')
  BY DEF Loop, Wake
<1>2. TypeOK /\ Listed /\ Stopping3
  BY DEF LifecycleInv
<1>3. todo' \in Seq(Quics)
  BY <1>1, <1>2 DEF Found, Listed, Quics
<1>4. todo' \in Seq(Servers) /\ ranged' \subseteq Servers
  BY <1>1, <1>3, Names, SeqMonotonic, Heads
<1>5. TypeOK'
  BY <1>1, <1>2, <1>4 DEF TypeOK, startVars
<1>6. Listed' /\ Ending'
  BY <1>1, ListKept, GoesOn
<1>7. Stopping3'
  BY <1>1, <1>2, <1>3 DEF Stopping3
<1>8. Stopping1'
  BY <1>1 DEF Stopping1
<1> QED BY <1>5, <1>6, <1>7, <1>8 DEF LifecycleInv

\* goes on to the list of HTTP servers,
LEMMA RangeHttpKeeps ==
  ASSUME LifecycleInv, Loop, RangeHttp
  PROVE  LifecycleInv'
<1>1. /\ UNCHANGED <<startVars, running, shut, inflight, process, cut, quit, waiting, expired>>
      /\ process = "running" /\ stop = "h3" /\ todo = <<>> /\ stop' = "http"
      /\ todo' \in Found(servers, "append", Http(cur)) /\ ranged' = ranged \cup ToSet(todo')
  BY DEF Loop, RangeHttp
<1>2. TypeOK /\ Listed /\ Stopping3
  BY DEF LifecycleInv
<1>3. PICK m \in Nat : m <= Count /\ todo' = Row(0, m)
  <2>1. CASE todo' = servers
    BY <2>1, Appended
  <2>2. CASE start = "append" /\ todo' = Append(servers, Http(cur))
    BY <2>2, Appended
  <2> QED BY <1>1, <2>1, <2>2 DEF Found
<1>4. todo' \in Seq(Servers) /\ todo' \in Seq(Https) /\ Len(todo') = m
  <2>1. 0 \in Nat /\ 0 + m <= Count
    BY <1>3, Names
  <2> QED BY <1>3, <2>1, Rows
<1>5. ToSet(todo') \subseteq Servers /\ ToSet(todo') \cap Quics = {}
  <2>1. ToSet(todo') \subseteq Https /\ ToSet(todo') \subseteq Servers
    BY <1>4, Heads
  <2> QED BY <2>1, Names DEF Https
<1>6. TypeOK'
  BY <1>1, <1>2, <1>4, <1>5 DEF TypeOK, startVars
<1>7. Listed' /\ Ending'
  BY <1>1, ListKept, GoesOn
<1>8. ~waiting /\ shut \subseteq Quics /\ \A s \in ranged : Drained(s)
  <2>1. ToSet(todo) = {}
    BY <1>1 DEF ToSet
  <2> QED BY <1>1, <1>2, <2>1 DEF Stopping3
<1>9. Stopping3'
  BY <1>1, <1>2, <1>5, <1>8 DEF Stopping3, Drained
<1>10. Stopping1'
  <2>1. \A i \in Listeners : Http(i) \notin shut'
    BY <1>1, <1>8, Names
  <2>2. 0 \in Nat /\ todo' = Row(0, Len(todo')) /\ 0 + Len(todo') <= Count
    BY <1>3, <1>4, Names
  <2> QED BY <1>1, <2>1, <2>2 DEF Stopping1
<1> QED BY <1>6, <1>7, <1>9, <1>10 DEF LifecycleInv

\* and returns when that is over.
LEMMA StopReturnsKeeps ==
  ASSUME LifecycleInv, Loop, StopReturns
  PROVE  LifecycleInv'
<1>1. /\ UNCHANGED <<startVars, running, shut, inflight, process, cut,
                     quit, todo, waiting, expired, ranged>>
      /\ process = "running" /\ stop = "http" /\ todo = <<>> /\ stop' = "over"
  BY DEF Loop, StopReturns
<1>2. TypeOK /\ Stopping3 /\ Stopping1 /\ ~waiting
  BY <1>1 DEF LifecycleInv, Stopping3
<1>3. TypeOK'
  BY <1>1, <1>2 DEF TypeOK, startVars
<1>4. Listed' /\ Ending'
  BY <1>1, ListKept, GoesOn
<1>5. Stopping3'
  BY <1>1, <1>2 DEF Stopping3, Drained
<1>6. ASSUME ~expired, NEW s \in shut PROVE inflight[s] = 0
  <2>1. CASE s \in Quics
    BY <1>1, <1>2, <2>1 DEF Stopping3, Drained
  <2>2. CASE s \notin Quics
    <3>1. s \in Servers
      BY <1>2 DEF TypeOK
    <3>2. PICK i \in Listeners : s = Http(i)
      BY <2>2, <3>1, Names
    <3>3. PICK k \in Nat :
            /\ \A j \in Listeners : Http(j) \in shut => j <= k \/ (waiting /\ j = k + 1)
            /\ \A j \in Listeners : Http(j) \in shut /\ j <= k => inflight[Http(j)] = 0
      BY <1>1, <1>2, <1>6 DEF Stopping1
    <3> QED BY <1>2, <3>2, <3>3
  <2> QED BY <2>1, <2>2
<1>7. Stopping1'
  BY <1>1, <1>6 DEF Stopping1
<1> QED BY <1>3, <1>4, <1>5, <1>7 DEF LifecycleInv

\* The list that Stop goes through, and its first server.
LEMMA First ==
  ASSUME LifecycleInv, todo # <<>>
  PROVE  /\ stop \in {"h3", "http"}
         /\ Head(todo) \in Servers /\ Head(todo) \in ToSet(todo) /\ Head(todo) \in ranged
         /\ Tail(todo) \in Seq(Servers) /\ ToSet(Tail(todo)) \subseteq ToSet(todo)
         /\ \A s \in ToSet(todo) : s = Head(todo) \/ s \in ToSet(Tail(todo))
         /\ stop = "h3" => Head(todo) \in Quics /\ Tail(todo) \in Seq(Quics)
<1>1. TypeOK /\ Stopping3
  BY DEF LifecycleInv
<1>2. stop \in {"h3", "http"} /\ ToSet(todo) \subseteq ranged
  BY <1>1 DEF TypeOK, Stopping3
<1>3. todo \in Seq(Servers)
  BY <1>1 DEF TypeOK
<1>4. /\ Head(todo) \in Servers /\ Head(todo) \in ToSet(todo)
      /\ Tail(todo) \in Seq(Servers) /\ ToSet(Tail(todo)) \subseteq ToSet(todo)
      /\ \A s \in ToSet(todo) : s = Head(todo) \/ s \in ToSet(Tail(todo))
  BY <1>3, Heads
<1>5. ASSUME stop = "h3" PROVE Head(todo) \in Quics /\ Tail(todo) \in Seq(Quics)
  <2>1. todo \in Seq(Quics)
    BY <1>1, <1>5 DEF Stopping3
  <2> QED BY <2>1, Heads
<1> QED BY <1>2, <1>4, <1>5

\* Where the second loop of Stop is, and what is left to it.
LEMMA Place ==
  ASSUME LifecycleInv, todo # <<>>, stop = "http"
  PROVE  \E k \in Nat :
           /\ k + 1 \in Listeners /\ Head(todo) = Http(k + 1)
           /\ Tail(todo) = Row(k + 1, Len(Tail(todo))) /\ (k + 1) + Len(Tail(todo)) <= Count
           /\ todo = Row(k, Len(todo)) /\ k + Len(todo) <= Count
           /\ \A i \in Listeners : Http(i) \in shut => i <= k \/ (waiting /\ i = k + 1)
           /\ ~expired => \A i \in Listeners : Http(i) \in shut /\ i <= k => inflight[Http(i)] = 0
<1>1. PICK k \in Nat :
        /\ todo = Row(k, Len(todo)) /\ k + Len(todo) <= Count
        /\ \A i \in Listeners : Http(i) \in shut => i <= k \/ (waiting /\ i = k + 1)
        /\ ~expired => \A i \in Listeners : Http(i) \in shut /\ i <= k => inflight[Http(i)] = 0
  BY DEF LifecycleInv, Stopping1
<1>2. PICK m \in Nat : m = Len(todo) /\ m > 0
  BY LenProperties, EmptySeq DEF LifecycleInv, TypeOK
<1>3. k + 1 \in Listeners /\ k + m <= Count /\ m - 1 \in Nat /\ k + 1 \in Nat
  BY <1>1, <1>2, Names DEF Listeners
<1>4. Head(todo) = Http(k + 1) /\ Tail(todo) = Row(k + 1, m - 1)
  <2>1. todo = Row(k, m)
    BY <1>1, <1>2
  <2>2. Head(Row(k, m)) = Http(k + 1) /\ Tail(Row(k, m)) = Row(k + 1, m - 1)
    BY <1>2, <1>3, Rows
  <2> QED BY <2>1, <2>2
<1>5. (k + 1) + (m - 1) <= Count
  BY <1>2, <1>3, Names
<1>6. Len(Tail(todo)) = m - 1
  <2>1. Len(Row(k + 1, m - 1)) = m - 1
    BY <1>3, <1>5, Rows
  <2> QED BY <1>4, <2>1
<1> QED BY <1>1, <1>3, <1>4, <1>5, <1>6

\* It shuts down the servers one by one,
LEMMA CallShutdownKeeps ==
  ASSUME LifecycleInv, CallShutdown
  PROVE  LifecycleInv'
<1>1. /\ UNCHANGED <<startVars, quit, stop, todo, expired, ranged, running, inflight, process, cut>>
      /\ process = "running" /\ todo # <<>> /\ ~waiting
      /\ waiting' = TRUE /\ shut' = shut \cup {Head(todo)}
  BY DEF CallShutdown
<1>2. TypeOK /\ Stopping3
  BY DEF LifecycleInv
<1>3. /\ stop \in {"h3", "http"} /\ Head(todo) \in Servers /\ Head(todo) \in ranged
      /\ stop = "h3" => Head(todo) \in Quics
  BY <1>1, First
<1>4. TypeOK'
  BY <1>1, <1>2, <1>3 DEF TypeOK, startVars
<1>5. Listed' /\ Ending'
  BY <1>1, ListKept, GoesOn
<1>6. Stopping3'
  BY <1>1, <1>2, <1>3 DEF Stopping3, Drained
<1>7. Stopping1'
  <2>1. CASE stop = "h3"
    BY <1>1, <2>1 DEF Stopping1
  <2>2. CASE stop = "http"
    <3>1. PICK k \in Nat :
            /\ k + 1 \in Listeners /\ Head(todo) = Http(k + 1)
            /\ todo = Row(k, Len(todo)) /\ k + Len(todo) <= Count
            /\ \A i \in Listeners : Http(i) \in shut => i <= k \/ (waiting /\ i = k + 1)
            /\ ~expired => \A i \in Listeners : Http(i) \in shut /\ i <= k => inflight[Http(i)] = 0
      BY <1>1, <2>2, Place
    <3>2. \A i \in Listeners : Http(i) \in shut' => Http(i) \in shut \/ i = k + 1
      BY <1>1, <3>1, Names
    <3>3. \A i \in Listeners : Http(i) \in shut' => i <= k \/ (waiting' /\ i = k + 1)
      BY <1>1, <3>1, <3>2
    <3>4. \A i \in Listeners : i <= k => i # k + 1
      BY DEF Listeners
    <3>5. ~expired' => \A i \in Listeners : Http(i) \in shut' /\ i <= k => inflight'[Http(i)] = 0
      BY <1>1, <3>1, <3>2, <3>4
    <3> QED BY <1>1, <2>2, <3>1, <3>3, <3>5 DEF Stopping1
  <2> QED BY <1>3, <2>1, <2>2
<1> QED BY <1>4, <1>5, <1>6, <1>7 DEF LifecycleInv

\* waits until the one it shuts down has no requests,
LEMMA DrainEndsKeeps ==
  ASSUME LifecycleInv, DrainEnds
  PROVE  LifecycleInv'
<1>1. /\ UNCHANGED <<startVars, quit, stop, expired, ranged, running, shut, inflight, process, cut>>
      /\ process = "running" /\ waiting /\ inflight[Head(todo)] = 0
      /\ waiting' = FALSE /\ todo' = Tail(todo)
  BY DEF DrainEnds
<1>2. TypeOK /\ Stopping3 /\ todo # <<>> /\ Head(todo) \in shut
  BY <1>1 DEF LifecycleInv, Stopping3
<1>3. /\ stop \in {"h3", "http"} /\ Tail(todo) \in Seq(Servers)
      /\ ToSet(Tail(todo)) \subseteq ToSet(todo)
      /\ \A s \in ToSet(todo) : s = Head(todo) \/ s \in ToSet(Tail(todo))
      /\ stop = "h3" => Tail(todo) \in Seq(Quics)
  BY <1>2, First
<1>4. TypeOK'
  BY <1>1, <1>2, <1>3 DEF TypeOK, startVars
<1>5. Listed' /\ Ending'
  BY <1>1, ListKept, GoesOn
<1>6. Stopping3'
  BY <1>1, <1>2, <1>3 DEF Stopping3, Drained
<1>7. Stopping1'
  <2>1. CASE stop = "h3"
    BY <1>1, <2>1 DEF Stopping1
  <2>2. CASE stop = "http"
    <3>1. PICK k \in Nat :
            /\ k + 1 \in Listeners /\ Head(todo) = Http(k + 1)
            /\ Tail(todo) = Row(k + 1, Len(Tail(todo))) /\ (k + 1) + Len(Tail(todo)) <= Count
            /\ \A i \in Listeners : Http(i) \in shut => i <= k \/ (waiting /\ i = k + 1)
            /\ ~expired => \A i \in Listeners : Http(i) \in shut /\ i <= k => inflight[Http(i)] = 0
      BY <1>2, <2>2, Place
    <3>2. \A i \in Listeners : i \in Nat
      BY DEF Listeners
    <3>3. \A i \in Listeners : Http(i) \in shut' => i <= k + 1
      BY <1>1, <3>1, <3>2
    <3>4. \A i \in Listeners : i <= k + 1 => i <= k \/ i = k + 1
      BY <3>2
    <3>5. ~expired' => \A i \in Listeners : Http(i) \in shut' /\ i <= k + 1 => inflight'[Http(i)] = 0
      BY <1>1, <3>1, <3>4
    <3>6. k + 1 \in Nat
      OBVIOUS
    <3>7. todo' = Row(k + 1, Len(todo')) /\ (k + 1) + Len(todo') <= Count
      BY <1>1, <3>1
    <3> QED BY <1>1, <2>2, <3>3, <3>5, <3>6, <3>7 DEF Stopping1
  <2> QED BY <1>3, <2>1, <2>2
<1> QED BY <1>4, <1>5, <1>6, <1>7 DEF LifecycleInv

\* gives up an HTTP/3 server,
LEMMA GiveUp3Keeps ==
  ASSUME LifecycleInv, GiveUp3
  PROVE  LifecycleInv'
<1>1. /\ UNCHANGED <<startVars, quit, stop, expired, ranged, running, shut, process>>
      /\ process = "running" /\ stop = "h3" /\ waiting /\ expired
      /\ waiting' = FALSE /\ todo' = Tail(todo)
      /\ inflight' = [inflight EXCEPT ![Head(todo)] = 0]
      /\ cut' = cut \cup {Head(todo)}
  BY DEF GiveUp3
<1>2. TypeOK /\ Stopping3 /\ todo # <<>> /\ Head(todo) \in shut
  BY <1>1 DEF LifecycleInv, Stopping3
<1>3. /\ Head(todo) \in Servers /\ Tail(todo) \in Seq(Servers)
      /\ ToSet(Tail(todo)) \subseteq ToSet(todo)
      /\ \A s \in ToSet(todo) : s = Head(todo) \/ s \in ToSet(Tail(todo))
      /\ Tail(todo) \in Seq(Quics)
  BY <1>1, <1>2, First
<1>4. inflight' \in [Servers -> 0 .. MaxInflight]
  BY <1>1, <1>2, BoundAssumption DEF TypeOK
<1>5. inflight'[Head(todo)] = 0 /\ \A s \in Servers : inflight'[s] = inflight[s] \/ inflight'[s] = 0
  BY <1>1, <1>2, <1>3 DEF TypeOK
<1>6. TypeOK'
  BY <1>1, <1>2, <1>3, <1>4 DEF TypeOK, startVars
<1>7. Listed'
  BY <1>1, <1>5, ListKept
<1>8. \A s \in ranged : Drained(s) => Drained(s)'
  BY <1>1, <1>2, <1>5 DEF TypeOK, Drained
<1>9. \A s \in ranged : s \in ToSet(todo') \/ Drained(s)'
  <2> TAKE s \in ranged
  <2>1. CASE s = Head(todo)
    BY <1>1, <1>2, <1>5, <2>1 DEF Drained
  <2>2. CASE s # Head(todo)
    BY <1>1, <1>2, <1>3, <1>8, <2>2 DEF Stopping3
  <2> QED BY <2>1, <2>2
<1>10. Stopping3'
  BY <1>1, <1>2, <1>3, <1>9 DEF Stopping3
<1>11. Stopping1'
  BY <1>1 DEF Stopping1
<1>12. Ending'
  BY <1>1 DEF Ending, CutOnlyLast
<1> QED BY <1>6, <1>7, <1>10, <1>11, <1>12 DEF LifecycleInv

\* or an HTTP one, when the deadline has passed.
LEMMA GiveUpKeeps ==
  ASSUME LifecycleInv, GiveUp
  PROVE  LifecycleInv'
<1>1. /\ UNCHANGED <<startVars, quit, expired, ranged, running, shut, inflight, process, cut>>
      /\ process = "running" /\ stop = "http" /\ expired
      /\ waiting' = FALSE /\ todo' = <<>> /\ stop' = "over"
  BY DEF GiveUp
<1>2. TypeOK /\ Stopping3
  BY DEF LifecycleInv
<1>3. TypeOK'
  <2>1. todo' \in Seq(Servers)
    BY <1>1
  <2> QED BY <2>1, <1>1, <1>2 DEF TypeOK, startVars
<1>4. Listed' /\ Ending'
  BY <1>1, ListKept, GoesOn
<1>5. Stopping3'
  <2>1. ToSet(todo') = {}
    BY <1>1 DEF ToSet
  <2> QED BY <1>1, <1>2, <2>1 DEF Stopping3, Drained
<1>6. Stopping1'
  BY <1>1 DEF Stopping1
<1> QED BY <1>3, <1>4, <1>5, <1>6 DEF LifecycleInv
-----------------------------------------------------------------------------
\* Every step keeps the invariant.
LEMMA LifecycleStep == LifecycleInv /\ [Next]_vars => LifecycleInv'
<1> SUFFICES ASSUME LifecycleInv, [Next]_vars PROVE LifecycleInv'
  OBVIOUS
<1>1. CASE Startup
  BY <1>1, StartupKeeps
<1>2. CASE MainReturns \/ MainFails \/ TornRead
  BY <1>2, EndKeeps
<1>3. CASE Loop
  BY <1>3, WakeKeeps, RangeHttpKeeps, StopReturnsKeeps DEF Loop
<1>4. CASE CallShutdown \/ DrainEnds
  BY <1>4, CallShutdownKeeps, DrainEndsKeeps
<1>5. CASE GiveUp3 \/ GiveUp
  BY <1>5, GiveUp3Keeps, GiveUpKeeps
<1>6. CASE Expire \/ Signal
  BY <1>6, ExpireKeeps, SignalKeeps
<1>7. CASE \E s \in Servers : Accept(s) \/ Complete(s) \/ ServeReturns(s)
  BY <1>7, RequestKeeps, ServeKeeps
<1>8. CASE UNCHANGED vars
  <2>1. UNCHANGED <<startVars, stop, todo, waiting, expired, ranged, quit,
                    running, shut, inflight, process, cut>>
    BY <1>8 DEF vars, stopVars
  <2>2. TypeOK'
    BY <2>1 DEF LifecycleInv, TypeOK, startVars
  <2>3. Listed' /\ Stopping3' /\ Stopping1'
    BY <2>1, ListKept, StopKept
  <2>4. Ending'
    BY <2>1 DEF LifecycleInv, Ending, CutOnlyLast, startVars
  <2> QED BY <2>2, <2>3, <2>4 DEF LifecycleInv
<1> QED BY <1>1, <1>2, <1>3, <1>4, <1>5, <1>6, <1>7, <1>8 DEF Next, Stop, Ended

\* Whatever signals, requests and deadlines do, Start keeps its list, Stop is
\* where it says it is, and only a server Stop waits for holds requests.
THEOREM LifecycleInvariant == Spec => []LifecycleInv
BY Starts, LifecycleStep, PTL DEF Spec

\* Every variable of the process keeps its type (main.go, server.go:213-353).
THEOREM LifecycleTyped == Spec => []TypeOK
<1>1. LifecycleInv => TypeOK
  BY DEF LifecycleInv
<1> QED BY <1>1, LifecycleInvariant, PTL

\* The two loops of Stop are in the order its comment gives: no HTTP/1+2 server
\* is shut before every HTTP/3 server that Stop found is shut and empty
\* (server.go:343-353).
THEOREM QuicFirst == Spec => []Http3First
<1>1. LifecycleInv => Http3First
  <2> SUFFICES ASSUME LifecycleInv, NEW i \in Listeners, Http(i) \in shut,
                      NEW j \in HTTP3, Quic(j) \in ranged
               PROVE  Quic(j) \in shut /\ inflight[Quic(j)] = 0
    BY DEF Http3First
  <2>1. TypeOK /\ Stopping3 /\ Http(i) \notin Quics /\ Quic(j) \in Quics
    BY Names DEF LifecycleInv, Quics
  <2>2. stop \in {"http", "over"}
    BY <2>1 DEF TypeOK, Stopping3
  <2> QED BY <2>1, <2>2 DEF Stopping3, Drained
<1> QED BY <1>1, LifecycleInvariant, PTL

\* Whatever the number of listeners, an end on a signal within the deadline
\* cuts the requests of the last server of the list and of no other
\* (server.go:330, 347-351).
THEOREM LastOnlyCut == Spec => []CutOnlyLast
<1>1. LifecycleInv => CutOnlyLast
  BY DEF LifecycleInv, Ending
<1> QED BY <1>1, LifecycleInvariant, PTL
=============================================================================
