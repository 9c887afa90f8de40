------------------------------- MODULE Balancer -------------------------------
(***************************************************************************)
(* internal/proxy/balancer.go: the round-robin balancer of an upstream,    *)
(* with the checker of HealthCheck storing marks at the same time.         *)
(*                                                                         *)
(* Every request that is proxied is a caller of Next.  The counter and the *)
(* Healthy marks are atomics, so a call is a sequence of atomic steps (one *)
(* add and one load for each try) between which other callers and the      *)
(* checker take theirs.  The 64-bit counter is a natural number: 2^64      *)
(* calls are out of reach of a process.                                    *)
(***************************************************************************)
EXTENDS HealthCheck

CONSTANTS Callers,   \* the requests that may be inside Next at once
          MaxCounter \* bound: nothing new begins once the counter is there

ASSUME MaxCounterAssumption == MaxCounter \in Nat

VARIABLES counter,   \* RoundRobinBalancer.counter
          scan,      \* scan[c]: where the call of Next by c is
          tries,     \* tries[c]: the loop variable i of that call
          idx        \* idx[c]: its local variable idx

\* History of the behaviour, read by properties only.
VARIABLES alone,     \* alone[c]: nobody else has added since c called
          steady,    \* steady[c]: the servers marked healthy ever since
          granted,   \* granted[s]: how often Next returned s, until doubted
          doubted    \* some server has been marked unhealthy

call == <<scan, tries, idx, alone, steady>>
balancerVars == <<checkVars, counter, call, granted, doubted>>

TypeOK == /\ CheckTypeOK
          /\ counter \in Nat
          /\ scan \in [Callers -> {"off", "add", "load", "found", "none"}]
          /\ tries \in [Callers -> 0..N]
          /\ idx \in [Callers -> Servers]
          /\ alone \in [Callers -> BOOLEAN]
          /\ steady \in [Callers -> SUBSET Servers]
          /\ granted \in [Servers -> Nat]
          /\ doubted \in BOOLEAN

Init == /\ CheckInit
        /\ counter = 0
        /\ scan = [c \in Callers |-> "off"]
        /\ tries = [c \in Callers |-> 0]
        /\ idx = [c \in Callers |-> 0]
        /\ alone = [c \in Callers |-> FALSE]
        /\ steady = [c \in Callers |-> {}]
        /\ granted = [s \in Servers |-> 0]
        /\ doubted = FALSE

-----------------------------------------------------------------------------
Healthy == {s \in Servers : healthy[s]}

\* Next is called (lines 33-37).
Begin(c) ==
  /\ scan[c] = "off"
  /\ scan' = [scan EXCEPT ![c] = "add"]
  /\ alone' = [alone EXCEPT ![c] = TRUE]
  /\ steady' = [steady EXCEPT ![c] = Healthy]
  /\ UNCHANGED <<counter, tries, idx, granted, doubted>>

Add_NoIncrement(c) ==
  /\ scan[c] = "add"
  /\ counter' = counter
  /\ idx' = [idx EXCEPT ![c] = (counter + 1) % N]
  /\ scan' = [scan EXCEPT ![c] = "load"]
  /\ alone' = [d \in Callers |-> alone[d] /\ d = c]
  /\ UNCHANGED <<granted, doubted, tries, steady>>

\* atomic.AddUint64(&b.counter, 1) % uint64(n) (line 38).
Add(c) ==
  /\ scan[c] = "add"
  /\ counter' = counter + 1
  /\ idx' = [idx EXCEPT ![c] = (counter + 1) % N]
  /\ scan' = [scan EXCEPT ![c] = "load"]
  /\ alone' = [d \in Callers |-> alone[d] /\ d = c]
  /\ UNCHANGED <<granted, doubted, tries, steady>>

Load_GivesUpEarly(c) ==
  /\ scan[c] = "load"
  /\ IF healthy[idx[c]]
     THEN /\ scan' = [scan EXCEPT ![c] = "found"]
          /\ granted' = [granted EXCEPT ![idx[c]] = IF doubted THEN @ ELSE @ + 1]
          /\ UNCHANGED tries
     ELSE /\ tries' = [tries EXCEPT ![c] = @ + 1]
          /\ scan' = [scan EXCEPT ![c] = IF tries'[c] < N - 1 THEN "add" ELSE "none"]
          /\ UNCHANGED granted
  /\ UNCHANGED <<counter, doubted, idx, alone, steady>>

\* The mark is loaded: the server is returned, or the loop goes on, or it ends
\* with nil (lines 39-43).
Load(c) ==
  /\ scan[c] = "load"
  /\ IF healthy[idx[c]]
     THEN /\ scan' = [scan EXCEPT ![c] = "found"]
          /\ granted' = [granted EXCEPT ![idx[c]] = IF doubted THEN @ ELSE @ + 1]
          /\ UNCHANGED tries
     ELSE /\ tries' = [tries EXCEPT ![c] = @ + 1]
          /\ scan' = [scan EXCEPT ![c] = IF tries'[c] < N THEN "add" ELSE "none"]
          /\ UNCHANGED granted
  /\ UNCHANGED <<counter, doubted, idx, alone, steady>>

\* The caller goes on with what Next returned, and its local variables end.
Finish(c) ==
  /\ scan[c] \in {"found", "none"}
  /\ scan' = [scan EXCEPT ![c] = "off"]
  /\ tries' = [tries EXCEPT ![c] = 0]
  /\ idx' = [idx EXCEPT ![c] = 0]
  /\ alone' = [alone EXCEPT ![c] = FALSE]
  /\ steady' = [steady EXCEPT ![c] = {}]
  /\ UNCHANGED <<counter, granted, doubted>>

-----------------------------------------------------------------------------
Scan(c) == /\ \/ counter < MaxCounter /\ Begin(c)
              \/ Add(c) \/ Load(c) \/ Finish(c)
           /\ UNCHANGED checkVars

\* The checker or a backend takes a step; the balancer's histories follow.
World == /\ CheckNext
         /\ doubted' = (doubted \/ Healthy' # Servers)
         /\ steady' = [c \in Callers |-> steady[c] \cap Healthy']
         /\ granted' = IF doubted' THEN [s \in Servers |-> 0] ELSE granted
         /\ UNCHANGED <<counter, scan, tries, idx, alone>>

Next == (\E c \in Callers : Scan(c)) \/ World

Spec == Init /\ [][Next]_balancerVars

-----------------------------------------------------------------------------
\* Next (balancer.go:32-44) returns nil only when no server was marked healthy
\* all through the call, provided no other request advanced the counter during
\* the scan.  (With concurrent calls it may: two callers take turns of one
\* counter, and each finds an unhealthy server twice beside a healthy one.)
SoloScan == \A c \in Callers : scan[c] = "none" /\ alone[c] => steady[c] = {}

\* Round robin (balancer.go:38): as long as no server was ever marked
\* unhealthy, however the callers interleave, the servers got the same number
\* of requests up to one for the round under way, and nobody got nil.
FairShare ==
  (~doubted /\ \A c \in Callers : scan[c] # "load") =>
     /\ \A s, t \in Servers : granted[s] <= granted[t] + 1
     /\ \A c \in Callers : scan[c] # "none"
=============================================================================
