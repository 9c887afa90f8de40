------------------------------ MODULE WebSocket ------------------------------
(***************************************************************************)
(* internal/proxy/proxy.go: proxyWebSocket, the tunnel between a client    *)
(* that asks for an upgrade and a backend, over the marks of the health    *)
(* checker.                                                                *)
(*                                                                         *)
(* A caller is one upgrade request.  Of the balancer only what a call of   *)
(* Next promises is here; its steps are in Balancer.  What the two ends    *)
(* send is counted in pieces: one io.Copy moves a stream in order, so that *)
(* only how many pieces are where can differ.  The ends belong to others:  *)
(* each sends, shuts its sending half, or is gone (it closed, was reset,   *)
(* or lost its network), whenever it likes; while it is there it takes     *)
(* what it is sent.                                                        *)
(***************************************************************************)
EXTENDS HealthCheck

CONSTANTS Callers,  \* the upgrade requests handled at once
          Room      \* bound: the pieces of an end that wait to be read

ASSUME RoomAssumption == Room \in Nat \ {0}

VARIABLES stage,    \* stage[c]: where proxyWebSocket is
          target,   \* target[c]: the local variable server, until it is dialled
          early,    \* early[c]: pieces the server had buffered: clientBuf
          peer,     \* peer[c][e]: what end e of the tunnel does
          waiting,  \* waiting[c][e]: pieces sent by e, not read yet
          copying   \* copying[c][e]: the goroutine that reads e has not called
                    \* wg.Done

proxyVars == <<stage, target>>
tunnelVars == <<early, peer, waiting, copying>>
webSocketVars == <<checkVars, proxyVars, tunnelVars>>

Ends == {"client", "backend"}

Other(e) == IF e = "client" THEN "backend" ELSE "client"

WebSocketTypeOK ==
  /\ CheckTypeOK
  /\ stage \in [Callers -> {"idle", "dial", "tunnel", "closed", "failed"}]
  /\ target \in [Callers -> Servers]
  /\ early \in [Callers -> 0..1]
  /\ peer \in [Callers -> [Ends -> {"open", "shut", "gone"}]]
  /\ waiting \in [Callers -> [Ends -> 0..Room]]
  /\ copying \in [Callers -> [Ends -> BOOLEAN]]

WebSocketInit ==
  /\ CheckInit
  /\ stage = [c \in Callers |-> "idle"]
  /\ target = [c \in Callers |-> 0]
  /\ early = [c \in Callers |-> 0]
  /\ peer = [c \in Callers |-> [e \in Ends |-> "open"]]
  /\ waiting = [c \in Callers |-> [e \in Ends |-> 0]]
  /\ copying = [c \in Callers |-> [e \in Ends |-> FALSE]]

-----------------------------------------------------------------------------
Goto(c, from, to) == stage[c] = from /\ stage' = [stage EXCEPT ![c] = to]

\* There is no server, as may happen when one is marked unhealthy: 502; or the
\* writer is none that can be hijacked, as under HTTP/2 and behind every layer
\* that wraps it: 500; or Hijack fails, and nothing is answered (lines 167-182).
TurnAway(c) ==
  /\ Goto(c, "idle", "failed")
  /\ UNCHANGED <<checkVars, target, tunnelVars>>

\* isWebSocketUpgrade holds, Next has returned a server it saw marked healthy,
\* and the connection is the handler's, with what the server had read ahead of
\* the request (lines 103, 160-178).
Hijack(c) ==
  /\ Goto(c, "idle", "dial")
  /\ \E s \in Servers : healthy[s] /\ target' = [target EXCEPT ![c] = s]
  /\ \E n \in 0..1 : early' = [early EXCEPT ![c] = n]
  /\ UNCHANGED <<checkVars, peer, waiting, copying>>

\* The backend is dialled, the request is written to it without its upgrade
\* headers, and the two goroutines start (lines 185-213).  What the ends do
\* meanwhile is noticed only then.
Dial(c) ==
  /\ Goto(c, "dial", "tunnel")
  /\ backend[target[c]] # "down"
  /\ copying' = [copying EXCEPT ![c] = [e \in Ends |-> TRUE]]
  /\ target' = [target EXCEPT ![c] = 0]
  /\ UNCHANGED <<checkVars, early, peer, waiting>>

\* The backend cannot be dialled, or not be written to: the deferred calls
\* close what is open, and the client is not answered (lines 186-189, 199-201).
BreakOff(c) ==
  /\ Goto(c, "dial", "failed")
  /\ target' = [target EXCEPT ![c] = 0]
  /\ early' = [early EXCEPT ![c] = 0]
  /\ UNCHANGED <<checkVars, peer, waiting, copying>>

-----------------------------------------------------------------------------
Left_Unbuffered(c, e) == waiting[c][e]

\* What io.Copy has still to read: of the client also what clientBuf holds, and
\* that first (lines 207, 212).
Left(c, e) == waiting[c][e] + (IF e = "client" THEN early[c] ELSE 0)

Read(c, e) ==
  /\ Left(c, e) > 0
  /\ IF e = "client" /\ early[c] > 0
     THEN early' = [early EXCEPT ![c] = @ - 1] /\ UNCHANGED waiting
     ELSE waiting' = [waiting EXCEPT ![c][e] = @ - 1] /\ UNCHANGED early

\* A piece is read and written.  An end that is gone may let that pass.
Move(c, e) ==
  /\ stage[c] = "tunnel" /\ copying[c][e]
  /\ Read(c, e)
  /\ UNCHANGED <<checkVars, proxyVars, peer, copying>>

Done(c, e) == stage[c] = "tunnel" /\ copying' = [copying EXCEPT ![c][e] = FALSE]

\* The stream has ended, or reading it fails (lines 206, 211).
ReadEnds(c, e) ==
  /\ copying[c][e]
  /\ \/ peer[c][e] = "gone"
     \/ peer[c][e] = "shut" /\ Left(c, e) = 0
  /\ Done(c, e)
  /\ UNCHANGED <<checkVars, proxyVars, early, peer, waiting>>

WriteFails_NotDone(c, e) ==
  /\ stage[c] = "tunnel" /\ copying[c][e] /\ peer[c][Other(e)] = "gone"
  /\ UNCHANGED webSocketVars

\* A piece is read, and writing it fails because the other end is gone (lines
\* 206, 211).
WriteFails(c, e) ==
  /\ copying[c][e] /\ peer[c][Other(e)] = "gone"
  /\ Read(c, e)
  /\ Done(c, e)
  /\ UNCHANGED <<checkVars, proxyVars, peer>>

\* wg.Wait returns and the deferred calls close both connections (lines 215,
\* 183, 191); nothing was closed, nor half-closed, before that.
Wait(c) ==
  /\ Goto(c, "tunnel", "closed")
  /\ \A e \in Ends : ~copying[c][e]
  /\ UNCHANGED <<checkVars, target, tunnelVars>>

\* The handler has returned; the caller stands for another upgrade then.
Rest(c) ==
  /\ stage[c] \in {"closed", "failed"}
  /\ stage' = [stage EXCEPT ![c] = "idle"]
  /\ early' = [early EXCEPT ![c] = 0]
  /\ peer' = [peer EXCEPT ![c] = [e \in Ends |-> "open"]]
  /\ waiting' = [waiting EXCEPT ![c] = [e \in Ends |-> 0]]
  /\ UNCHANGED <<checkVars, target, copying>>

-----------------------------------------------------------------------------
Send(c, e) ==
  /\ stage[c] = "tunnel" /\ peer[c][e] = "open" /\ waiting[c][e] < Room
  /\ waiting' = [waiting EXCEPT ![c][e] = @ + 1]
  /\ UNCHANGED <<checkVars, proxyVars, early, peer, copying>>

\* An end shuts its sending half, or is gone.
Withdraw(c, e) ==
  /\ stage[c] = "tunnel"
  /\ \/ peer[c][e] = "open" /\ peer' = [peer EXCEPT ![c][e] = "shut"]
     \/ peer[c][e] # "gone" /\ peer' = [peer EXCEPT ![c][e] = "gone"]
  /\ UNCHANGED <<checkVars, proxyVars, early, waiting, copying>>

Copy(c, e) == Move(c, e) \/ ReadEnds(c, e) \/ WriteFails(c, e)

Handle(c) ==
  Dial(c) \/ BreakOff(c) \/ Wait(c)

\* The checker and the backends, which share the marks with the tunnel only.
Around == CheckNext /\ UNCHANGED <<proxyVars, tunnelVars>>

WebSocketNext ==
  \/ \E c \in Callers : \/ TurnAway(c) \/ Hijack(c) \/ Handle(c) \/ Rest(c)
                        \/ \E e \in Ends : Copy(c, e) \/ Send(c, e) \/ Withdraw(c, e)
  \/ Around

\* Goroutines are scheduled, a dial and a probe end at the latest by their
\* timeouts.  What the ends do is not fair, and a write to an end that is gone
\* cannot pass for ever.
WebSocketSpec ==
  /\ WebSocketInit /\ [][WebSocketNext]_webSocketVars
  /\ WF_webSocketVars((Probe \/ Store) /\ Around)
  /\ \A c \in Callers :
       /\ WF_webSocketVars(Handle(c))
       /\ \A e \in Ends : WF_webSocketVars(Copy(c, e)) /\ SF_webSocketVars(WriteFails(c, e))

-----------------------------------------------------------------------------
\* While both ends are there, the tunnel is closed only after both have shut
\* their sending half, and by then each has got every piece the other sent,
\* including those the server had read ahead of the upgrade (proxy.go:203-215).
NothingCut ==
  \A c \in Callers :
    stage[c] = "closed" /\ (\A e \in Ends : peer[c][e] # "gone")
      => /\ \A e \in Ends : peer[c][e] = "shut" /\ waiting[c][e] = 0
         /\ early[c] = 0

\* The handler returns, and gives its two connections back, once neither end
\* sends any more, whatever was under way; and once one end is gone, if the
\* other goes on sending (proxy.go:203-215).  One that is gone while the other
\* is silent is not enough: the silent one is told nothing.
TunnelEnds ==
  \A c \in Callers :
    /\ stage[c] = "tunnel" /\ (\A e \in Ends : peer[c][e] # "open")
         ~> stage[c] # "tunnel"
    /\ \A e \in Ends : \/ []<>(stage[c] # "tunnel" \/ peer[c][e] # "gone")
                      \/ <>[](waiting[c][Other(e)] = 0)
=============================================================================
