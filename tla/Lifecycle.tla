------------------------------ MODULE Lifecycle ------------------------------
(***************************************************************************)
(* cmd/gore/main.go and Server.Start / Server.Stop of                      *)
(* internal/server/server.go: how the process comes up, serves and ends.   *)
(*                                                                         *)
(* Three kinds of goroutines run at once: main, inside Start until every   *)
(* Serve has returned; one Serve for each server; and the goroutine that   *)
(* waits for a signal and calls Stop.  http.Server and http3.Server are    *)
(* not part of src/: Shutdown closes the listeners first, which makes      *)
(* Serve return at once, and then waits for the requests or the deadline.  *)
(* Only an http3.Server cuts its requests off at the deadline.  Requests   *)
(* on hijacked connections (WebSocket, h2c) are unknown to Shutdown and    *)
(* not counted here.                                                       *)
(***************************************************************************)
EXTENDS Integers, Sequences, SequencesExt

CONSTANTS Count,       \* len(s.cfg.Listen)
          TLS,         \* the listeners with a certificate
          HTTP3,       \* those of them that also serve HTTP/3
          MaxInflight  \* bound on the requests in flight of one server

Listeners == 1..Count

ASSUME ListenAssumption == Count \in Nat \ {0} /\ HTTP3 \subseteq TLS /\ TLS \subseteq Listeners
ASSUME BoundAssumption == MaxInflight \in Nat

\* A server is named after its kind and its listener.
Http(i) == <<"http", i>>
Quic(i) == <<"h3", i>>
Servers == {Http(i) : i \in Listeners} \cup {Quic(i) : i \in HTTP3}

VARIABLES start,     \* where Start is
          cur,       \* its loop variable, a listener
          servers,   \* Server.servers
          http3Srvs, \* Server.http3Srvs
          running,   \* the servers whose Serve has not returned (wg)
          shut,      \* the servers on which Shutdown was called
          inflight,  \* inflight[s]: requests inside the handlers of s
          quit,      \* a signal is buffered in the channel quit
          stop,      \* where the signal goroutine is
          todo,      \* the servers the current loop of Stop has left
          waiting,   \* inside Shutdown of the first of them
          expired,   \* the context of Stop has reached its deadline
          process    \* "running", or how the process ended

\* History, read by properties only.
VARIABLES cut,       \* the servers that had requests cut off
          ranged     \* the servers that Stop found

startVars == <<start, cur, servers, http3Srvs>>
stopVars == <<quit, stop, todo, waiting, expired, ranged>>
vars == <<startVars, stopVars, running, shut, inflight, process, cut>>

StartSteps == {"listen", "setup", "append", "append3", "udp", "wait", "failed"}

TypeOK == /\ start \in StartSteps
          /\ cur \in Listeners
          /\ servers \in Seq(Servers) /\ http3Srvs \in Seq(Servers)
          /\ running \subseteq Servers /\ shut \subseteq Servers
          /\ inflight \in [Servers -> 0..MaxInflight]
          /\ quit \in BOOLEAN
          /\ stop \in {"idle", "h3", "http", "over"}
          /\ todo \in Seq(Servers)
          /\ waiting \in BOOLEAN /\ expired \in BOOLEAN
          /\ process \in {"running", "ended", "error", "crashed"}
          /\ cut \subseteq Servers /\ ranged \subseteq Servers

Init == /\ start = "listen" /\ cur = 1
        /\ servers = <<>> /\ http3Srvs = <<>>
        /\ running = {} /\ shut = {}
        /\ inflight = [s \in Servers |-> 0]
        /\ quit = FALSE /\ stop = "idle" /\ todo = <<>>
        /\ waiting = FALSE /\ expired = FALSE
        /\ process = "running"
        /\ cut = {} /\ ranged = {}

-----------------------------------------------------------------------------
NextListener_PastEnd == IF cur <= Count THEN start' = "listen" /\ cur' = cur + 1
                                        ELSE start' = "wait" /\ UNCHANGED cur

\* Start: the loop body is over (lines 215, 330).
NextListener == IF cur < Count THEN start' = "listen" /\ cur' = cur + 1
                              ELSE start' = "wait" /\ UNCHANGED cur

\* net.Listen succeeds, or Start returns its error (lines 218-221).
Listen == /\ start = "listen"
          /\ start' \in {"setup", "failed"}
          /\ UNCHANGED <<cur, servers, http3Srvs, running, inflight, shut, cut>>

\* The certificate and the HTTP/2 configuration of a TLS listener may be
\* refused, and Start returns (lines 235-278).
SetUp == /\ start = "setup"
         /\ start' \in IF cur \in TLS THEN {"append", "failed"} ELSE {"append"}
         /\ UNCHANGED <<cur, servers, http3Srvs, running, inflight, shut, cut>>

\* The server is appended, with no lock, and its Serve is started (lines
\* 281-290 and 319-327).
Register == /\ start = "append"
            /\ servers' = Append(servers, Http(cur))
            /\ running' = running \cup {Http(cur)}
            /\ IF cur \in HTTP3 THEN start' = "append3" /\ UNCHANGED cur ELSE NextListener
            /\ UNCHANGED <<http3Srvs, inflight, shut, cut>>

\* The HTTP/3 server is appended before its socket is opened (line 298).
Register3 == /\ start = "append3"
             /\ http3Srvs' = Append(http3Srvs, Quic(cur))
             /\ start' = "udp"
             /\ UNCHANGED <<cur, servers, running, inflight, shut, cut>>

\* Its Serve is started, or the failure to listen is only logged (lines 301-313).
ListenUDP == /\ start = "udp"
             /\ running' \in {running, running \cup {Quic(cur)}}
             /\ NextListener
             /\ UNCHANGED <<servers, http3Srvs, inflight, shut, cut>>

Startup == /\ process = "running"
           /\ Listen \/ SetUp \/ Register \/ Register3 \/ ListenUDP
           /\ UNCHANGED <<stopVars, process>>

\* The requests that die with the process.
Abandoned == {s \in Servers : inflight[s] > 0}

\* Every Serve has returned: Start returns, and main with it (lines 330-331).
MainReturns == /\ process = "running"
               /\ start = "wait" /\ running = {}
               /\ process' = "ended"
               /\ cut' = cut \cup Abandoned
               /\ UNCHANGED <<startVars, stopVars, running, shut, inflight>>

\* Start returned an error: os.Exit(1) (main.go:44-47).
MainFails == /\ process = "running"
             /\ start = "failed"
             /\ process' = "error"
             /\ cut' = cut \cup Abandoned
             /\ UNCHANGED <<startVars, stopVars, running, shut, inflight>>

-----------------------------------------------------------------------------
\* A client's request reaches a handler.
Accept(s) == /\ process = "running"
             /\ s \in running \ shut
             /\ inflight[s] < MaxInflight
             /\ inflight' = [inflight EXCEPT ![s] = @ + 1]
             /\ UNCHANGED <<startVars, stopVars, running, shut, process, cut>>

\* Its handler returns.
Complete(s) == /\ process = "running"
               /\ inflight[s] > 0
               /\ inflight' = [inflight EXCEPT ![s] = @ - 1]
               /\ UNCHANGED <<startVars, stopVars, running, shut, process, cut>>

ServeReturns_Drained(s) == /\ process = "running"
                           /\ s \in running \cap shut
                           /\ inflight[s] = 0
                           /\ running' = running \ {s}
                           /\ UNCHANGED <<startVars, stopVars, shut, inflight, process, cut>>

\* Serve returns as soon as Shutdown was called, requests or not, and the
\* WaitGroup is told (lines 284-290, 307-312, 322-326).
ServeReturns(s) == /\ process = "running"
                   /\ s \in running \cap shut
                   /\ running' = running \ {s}
                   /\ UNCHANGED <<startVars, stopVars, shut, inflight, process, cut>>

-----------------------------------------------------------------------------
\* SIGINT, SIGTERM or SIGQUIT is delivered (main.go:33-34); a full channel
\* drops it.
Signal == /\ process = "running"
          /\ quit' = TRUE
          /\ UNCHANGED <<startVars, stop, todo, waiting, expired, ranged,
                         running, shut, inflight, process, cut>>

\* What ranging over a slice finds while Start may be in the middle of
\* appending to it: the old slice or the new one.
Found(slice, step, s) == {slice} \cup (IF start = step THEN {Append(slice, s)} ELSE {})

Wake_HttpFirst == /\ stop = "idle" /\ quit
                  /\ quit' = FALSE
                  /\ stop' = "h3"
                  /\ todo' \in {servers \o http3Srvs}
                  /\ ranged' = ToSet(http3Srvs)
                  /\ UNCHANGED <<waiting, expired>>

\* The goroutine takes the signal, sets the deadline and calls Stop, which
\* ranges over the HTTP/3 servers first (main.go:37-41, server.go:344).
Wake == /\ stop = "idle" /\ quit
        /\ quit' = FALSE
        /\ stop' = "h3"
        /\ todo' \in Found(http3Srvs, "append3", Quic(cur))
        /\ ranged' = ToSet(todo')
        /\ UNCHANGED <<waiting, expired>>

RangeHttp_SkipsFirst == /\ stop = "h3" /\ todo = <<>>
                        /\ stop' = "http"
                        /\ \E found \in Found(servers, "append", Http(cur)) :
                             /\ todo' = IF found = <<>> THEN <<>> ELSE Tail(found)
                             /\ ranged' = ranged \cup ToSet(found)
                        /\ UNCHANGED <<quit, waiting, expired>>

\* Then over the others (line 347).
RangeHttp == /\ stop = "h3" /\ todo = <<>>
             /\ stop' = "http"
             /\ todo' \in Found(servers, "append", Http(cur))
             /\ ranged' = ranged \cup ToSet(todo')
             /\ UNCHANGED <<quit, waiting, expired>>

\* The loop over the others is over (line 352).
StopReturns == /\ stop = "http" /\ todo = <<>>
               /\ stop' = "over"
               /\ UNCHANGED <<quit, todo, waiting, expired, ranged>>

\* Reading a slice header while Start writes it may pair the old array with the
\* new length, and the loop then follows a pointer from beyond the array.
TornRead == /\ process = "running"
            /\ \/ stop = "idle" /\ quit /\ start = "append3"
               \/ stop = "h3" /\ todo = <<>> /\ start = "append"
            /\ process' = "crashed"
            /\ cut' = cut \cup Abandoned
            /\ UNCHANGED <<startVars, stopVars, running, shut, inflight>>

\* Shutdown of the next server is called: its listeners are closed.
CallShutdown == /\ process = "running"
                /\ todo # <<>> /\ ~waiting
                /\ waiting' = TRUE
                /\ shut' = shut \cup {Head(todo)}
                /\ UNCHANGED <<startVars, quit, stop, todo, expired, ranged,
                               running, inflight, process, cut>>

DrainEnds_Impatient == /\ process = "running"
                       /\ waiting
                       /\ waiting' = FALSE
                       /\ todo' = Tail(todo)
                       /\ UNCHANGED <<startVars, quit, stop, expired, ranged,
                                      running, shut, inflight, process, cut>>

\* It returns nil once the requests are done.
DrainEnds == /\ process = "running"
             /\ waiting /\ inflight[Head(todo)] = 0
             /\ waiting' = FALSE
             /\ todo' = Tail(todo)
             /\ UNCHANGED <<startVars, quit, stop, expired, ranged,
                            running, shut, inflight, process, cut>>

\* The five seconds are over (main.go:39).
Expire == /\ process = "running"
          /\ stop \in {"h3", "http"} /\ ~expired
          /\ expired' = TRUE
          /\ UNCHANGED <<startVars, quit, stop, todo, waiting, ranged,
                         running, shut, inflight, process, cut>>

\* Shutdown returns the deadline's error.  The loop over the HTTP/3 servers
\* ignores it (line 345), and the server has cut its requests off.
GiveUp3 == /\ process = "running"
           /\ stop = "h3" /\ waiting /\ expired /\ inflight[Head(todo)] > 0
           /\ waiting' = FALSE
           /\ todo' = Tail(todo)
           /\ inflight' = [inflight EXCEPT ![Head(todo)] = 0]
           /\ cut' = cut \cup {Head(todo)}
           /\ UNCHANGED <<startVars, quit, stop, expired, ranged, running, shut, process>>

\* The other loop returns it at once: the servers left are not shut down
\* (lines 348-350).
GiveUp == /\ process = "running"
          /\ stop = "http" /\ waiting /\ expired /\ inflight[Head(todo)] > 0
          /\ waiting' = FALSE
          /\ todo' = <<>>
          /\ stop' = "over"
          /\ UNCHANGED <<startVars, quit, expired, ranged, running, shut, inflight, process, cut>>

Loop == /\ process = "running"
        /\ Wake \/ RangeHttp \/ StopReturns
        /\ UNCHANGED <<startVars, running, shut, inflight, process, cut>>

Stop == Loop \/ CallShutdown \/ DrainEnds \/ GiveUp3 \/ GiveUp

Ended == process # "running" /\ UNCHANGED vars

Next == \/ Startup \/ MainReturns \/ MainFails
        \/ Stop \/ Expire \/ Signal \/ TornRead
        \/ \E s \in Servers : Accept(s) \/ Complete(s) \/ ServeReturns(s)
        \/ Ended

\* Every goroutine that can run does, time passes, and handlers return: the
\* server's write timeout and those of the proxy bound them.
Fairness == /\ WF_vars(Startup) /\ WF_vars(MainReturns) /\ WF_vars(MainFails)
            /\ WF_vars(Stop) /\ WF_vars(Expire)
            /\ \A s \in Servers : WF_vars(Complete(s)) /\ WF_vars(ServeReturns(s))

Spec == Init /\ [][Next]_vars
FairSpec == Spec /\ Fairness

-----------------------------------------------------------------------------
\* "HTTP/3 servers first, then HTTP/1+2 servers": no HTTP/1+2 server stops
\* accepting before every HTTP/3 server that Stop found has been shut down and
\* has no request left (server.go:343-353).
Http3First ==
  (\E i \in Listeners : Http(i) \in shut) =>
     \A i \in HTTP3 : Quic(i) \in ranged => Quic(i) \in shut /\ inflight[Quic(i)] = 0

\* A process that ends on a signal within the deadline cuts the requests of one
\* server at most, the last of the list: Stop drains the servers one by one, and
\* the process cannot end before the last Shutdown was called
\* (server.go:330, 347-351).
CutOnlyLast ==
  process = "ended" /\ ~expired =>
    \A s \in cut : servers # <<>> /\ s = servers[Len(servers)]

\* A signal, also one during startup, ends the process unless the deadline
\* strikes; or else servers are left running, and they are ones that Start
\* registered after Stop had looked: every server Stop found has returned from
\* Serve (server.go:281, 298, 319, 343-353).
StopsInTime ==
  (stop = "idle" /\ quit) ~>
    \/ process # "running" \/ expired
    \/ stop = "over" /\ running # {} /\ running \cap ranged = {}

\* "Graceful shutdown" on SIGINT, SIGTERM and SIGQUIT: the requests in flight
\* are finished when the process ends within the five seconds.
GracefulDrain == process = "ended" /\ ~expired => cut = {}

\* The same row of the table, with no exception for the deadline: a first
\* signal to a server that is up ends the process.
SignalEnds == (start = "wait" /\ stop = "idle" /\ quit) ~> process # "running"
=============================================================================
