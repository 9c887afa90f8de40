------------------------------ MODULE HealthCheck ------------------------------
(***************************************************************************)
(* internal/proxy/healthcheck.go: the goroutine that probes the servers of *)
(* an upstream one after the other, round after round, and stores a mark   *)
(* for each.  A server is its index in the slice.  The first probe of a    *)
(* round waits for the ticker; as no probe is bound to a moment here, the  *)
(* tick is that probe.                                                     *)
(***************************************************************************)
EXTENDS Integers, FiniteSets

CONSTANTS N,              \* len(servers)
          BackendStates,  \* what the machine behind a server may do with a
                          \* request: serve it, fail it, not take it
          ProbeModes      \* the configurations of the checker: off, without a
                          \* path, with a path

ASSUME BackendStatesAssumption == BackendStates \subseteq {"up", "failing", "down"}
ASSUME ProbeModesAssumption == ProbeModes \subseteq {"never", "dial", "path"}
ASSUME NAssumption == N \in Nat \ {0}

Servers == 0..(N - 1)

VARIABLES healthy,   \* healthy[s]: Server.Healthy = 1
          backend,   \* backend[s]: what the machine behind s does now
          probing,   \* whether the checker runs, and with a path
          checker    \* where the checker's loop is

checkVars == <<healthy, backend, probing, checker>>

CheckerStates == [at : {"probe", "store"}, on : Servers, ok : BOOLEAN]

CheckTypeOK == /\ healthy \in [Servers -> BOOLEAN]
               /\ backend \in [Servers -> BackendStates]
               /\ probing \in ProbeModes
               /\ checker \in CheckerStates

\* The checker turns to server s.
AtServer(s) == [at |-> "probe", on |-> s, ok |-> FALSE]

\* NewRoundRobin has marked every server healthy (balancer.go:23-28) before
\* StartHealthCheck is called, or is not.
CheckInit == /\ healthy = [s \in Servers |-> TRUE]
             /\ backend \in [Servers -> BackendStates]
             /\ probing \in ProbeModes
             /\ checker = AtServer(0)

\* A backend starts or stops serving, or answers with errors only.
BackendChanges(s) ==
  /\ \E b \in BackendStates \ {backend[s]} : backend' = [backend EXCEPT ![s] = b]
  /\ UNCHANGED <<healthy, probing, checker>>

ProbeOK_AnyAnswer(s) == backend[s] # "down"

\* What checkServer concludes: with a path a status in 200..499, without one a
\* TCP connection (lines 35-55).
ProbeOK(s) == IF probing = "path" THEN backend[s] = "up" ELSE backend[s] # "down"

\* checkServer has its answer and has not stored it yet (lines 36, 42, 50).
Probe ==
  /\ probing # "never"
  /\ checker.at = "probe"
  /\ checker' = [checker EXCEPT !.at = "store", !.ok = ProbeOK(checker.on)]
  /\ UNCHANGED <<healthy, backend, probing>>

Store_Unwrapped ==
  /\ checker.at = "store"
  /\ healthy' = [healthy EXCEPT ![checker.on] = checker.ok]
  /\ checker' = AtServer(checker.on + 1)
  /\ UNCHANGED <<backend, probing>>

Store_OnlyDown ==
  /\ checker.at = "store"
  /\ healthy' = [healthy EXCEPT ![checker.on] = @ /\ checker.ok]
  /\ checker' = AtServer((checker.on + 1) % N)
  /\ UNCHANGED <<backend, probing>>

\* The store of the mark, then the next server of the round or the next round
\* (lines 26-29, 38, 43-45, 52, 56).
Store ==
  /\ checker.at = "store"
  /\ healthy' = [healthy EXCEPT ![checker.on] = checker.ok]
  /\ checker' = AtServer((checker.on + 1) % N)
  /\ UNCHANGED <<backend, probing>>

CheckNext == Probe \/ Store \/ \E s \in Servers : BackendChanges(s)

\* The checker's goroutine is scheduled, its ticker keeps firing and every probe
\* ends, at the latest with the client's timeout.
CheckSpec == CheckInit /\ [][CheckNext]_checkVars /\ WF_checkVars(Probe \/ Store)

-----------------------------------------------------------------------------
\* The checker (healthcheck.go:10-57) in the end agrees with a backend that
\* stopped changing, whatever the others do: it marks what stays broken and
\* unmarks what recovered.
MarksConverge ==
  probing # "never" =>
    \A s \in Servers : /\ <>[](~ProbeOK(s)) => <>[](~healthy[s])
                       /\ <>[]ProbeOK(s) => <>[](healthy[s])
=============================================================================
