---------------------------- MODULE WebSocketProofs ----------------------------
(***************************************************************************)
(* Proofs about WebSocket, for any number of upgrades, backends and pieces  *)
(* under way.                                                              *)
(*                                                                         *)
(* That a closed tunnel has lost nothing is not kept by every step on its   *)
(* own: what keeps it is that each of the two goroutines, once it is done,  *)
(* has an end behind it that sends nothing more and is read to its last     *)
(* piece, unless one of the ends is gone.                                   *)
(***************************************************************************)
EXTENDS WebSocket, TLAPS

\* The goroutine that reads e is done, and rightly.
Emptied(c, e) ==
  ~copying[c][e] => peer[c][e] = "shut" /\ waiting[c][e] = 0 /\ (e = "client" => early[c] = 0)

Tunnelled(c) ==
  /\ stage[c] \in {"tunnel", "closed"} /\ (\A e \in Ends : peer[c][e] # "gone") =>
       \A e \in Ends : Emptied(c, e)
  /\ stage[c] = "closed" => \A e \in Ends : ~copying[c][e]

WebSocketInv == WebSocketTypeOK /\ \A c \in Callers : Tunnelled(c)
-----------------------------------------------------------------------------
\* The invariant holds before the first request.
LEMMA WebSocketStarts == WebSocketInit => WebSocketInv
<1> SUFFICES ASSUME WebSocketInit PROVE WebSocketInv
  OBVIOUS
<1>1. 0 \in Servers /\ AtServer(0) \in CheckerStates
  BY NAssumption DEF Servers, AtServer, CheckerStates
<1>2. CheckTypeOK
  BY <1>1 DEF WebSocketInit, CheckInit, CheckTypeOK
<1>3. WebSocketTypeOK
  BY <1>1, <1>2, RoomAssumption DEF WebSocketInit, WebSocketTypeOK
<1>4. \A c \in Callers : Tunnelled(c)
  BY DEF WebSocketInit, Tunnelled
<1> QED BY <1>3, <1>4 DEF WebSocketInv

\* The health checker keeps its types.
LEMMA CheckerTyped ==
  ASSUME CheckTypeOK, CheckNext
  PROVE  CheckTypeOK'
<1>1. CASE Probe
  BY <1>1 DEF CheckTypeOK, CheckerStates, Probe, ProbeOK
<1>2. CASE Store
  <2>1. checker.on \in Servers /\ checker.ok \in BOOLEAN /\ checker.on + 1 \in Nat
    BY NAssumption DEF CheckTypeOK, CheckerStates, Servers
  <2>2. (checker.on + 1) % N \in Servers
    BY <2>1, NAssumption DEF Servers
  <2>3. AtServer((checker.on + 1) % N) \in CheckerStates
    BY <2>2 DEF AtServer, CheckerStates
  <2> QED BY <1>2, <2>1, <2>3 DEF CheckTypeOK, Store
<1>3. CASE \E s \in Servers : BackendChanges(s)
  BY <1>3 DEF CheckTypeOK, BackendChanges
<1> QED BY <1>1, <1>2, <1>3 DEF CheckNext

\* The ends of one tunnel, and their types.
LEMMA OneEnd ==
  ASSUME WebSocketTypeOK, NEW c \in Callers
  PROVE  /\ stage[c] \in {"idle", "dial", "tunnel", "closed", "failed"} /\ early[c] \in 0 .. 1
         /\ peer[c] \in [Ends -> {"open", "shut", "gone"}]
         /\ waiting[c] \in [Ends -> 0 .. Room] /\ copying[c] \in [Ends -> BOOLEAN]
         /\ \A e \in Ends : /\ peer[c][e] \in {"open", "shut", "gone"} /\ waiting[c][e] \in Nat
                            /\ waiting[c][e] <= Room /\ copying[c][e] \in BOOLEAN
         /\ Room \in Nat
<1>1. /\ stage[c] \in {"idle", "dial", "tunnel", "closed", "failed"} /\ early[c] \in 0 .. 1
      /\ peer[c] \in [Ends -> {"open", "shut", "gone"}]
      /\ waiting[c] \in [Ends -> 0 .. Room] /\ copying[c] \in [Ends -> BOOLEAN]
  BY DEF WebSocketTypeOK
<1> QED BY <1>1, RoomAssumption

\* A step of the handler before and after the tunnel.
LEMMA HandlerKeeps ==
  ASSUME WebSocketInv, NEW c \in Callers,
         TurnAway(c) \/ Hijack(c) \/ Dial(c) \/ BreakOff(c) \/ Wait(c) \/ Rest(c)
  PROVE  WebSocketInv'
<1>1. WebSocketTypeOK /\ Tunnelled(c) /\ CheckTypeOK /\ 0 \in Servers
  BY NAssumption DEF WebSocketInv, WebSocketTypeOK, Servers
<1>2. CheckTypeOK'
  BY <1>1 DEF TurnAway, Hijack, Dial, BreakOff, Wait, Rest, checkVars, CheckTypeOK
<1>3. CASE TurnAway(c)
  <2>1. WebSocketTypeOK'
    BY <1>1, <1>2, <1>3 DEF TurnAway, Goto, tunnelVars, WebSocketTypeOK
  <2>2. \A d \in Callers : Tunnelled(d)'
    BY <1>1, <1>3 DEF TurnAway, Goto, tunnelVars, WebSocketTypeOK, WebSocketInv, Tunnelled, Emptied
  <2> QED BY <2>1, <2>2 DEF WebSocketInv
<1>4. CASE Hijack(c)
  <2>1. WebSocketTypeOK'
    BY <1>1, <1>2, <1>4 DEF Hijack, Goto, WebSocketTypeOK
  <2>2. stage'[c] = "dial"
    BY <1>1, <1>4 DEF Hijack, Goto, WebSocketTypeOK
  <2>3. \A d \in Callers \ {c} : stage'[d] = stage[d] /\ early'[d] = early[d]
    BY <1>1, <1>4 DEF Hijack, Goto, WebSocketTypeOK
  <2>4. UNCHANGED <<peer, waiting, copying>>
    BY <1>4 DEF Hijack
  <2>5. \A d \in Callers : Tunnelled(d)'
    BY <2>2, <2>3, <2>4 DEF WebSocketInv, Tunnelled, Emptied
  <2> QED BY <2>1, <2>5 DEF WebSocketInv
<1>5. CASE Dial(c)
  <2>1. WebSocketTypeOK'
    BY <1>1, <1>2, <1>5 DEF Dial, Goto, WebSocketTypeOK
  <2>2. stage'[c] = "tunnel" /\ \A e \in Ends : copying'[c][e]
    BY <1>1, <1>5 DEF Dial, Goto, WebSocketTypeOK
  <2>3. \A d \in Callers \ {c} : stage'[d] = stage[d] /\ copying'[d] = copying[d]
    BY <1>1, <1>5 DEF Dial, Goto, WebSocketTypeOK
  <2>4. UNCHANGED <<early, peer, waiting>>
    BY <1>5 DEF Dial
  <2>5. \A d \in Callers : Tunnelled(d)'
    BY <2>2, <2>3, <2>4 DEF WebSocketInv, Tunnelled, Emptied
  <2> QED BY <2>1, <2>5 DEF WebSocketInv
<1>6. CASE BreakOff(c)
  <2>1. WebSocketTypeOK'
    BY <1>1, <1>2, <1>6 DEF BreakOff, Goto, WebSocketTypeOK
  <2>2. stage'[c] = "failed"
    BY <1>1, <1>6 DEF BreakOff, Goto, WebSocketTypeOK
  <2>3. \A d \in Callers \ {c} : stage'[d] = stage[d] /\ early'[d] = early[d]
    BY <1>1, <1>6 DEF BreakOff, Goto, WebSocketTypeOK
  <2>4. UNCHANGED <<peer, waiting, copying>>
    BY <1>6 DEF BreakOff
  <2>5. \A d \in Callers : Tunnelled(d)'
    BY <2>2, <2>3, <2>4 DEF WebSocketInv, Tunnelled, Emptied
  <2> QED BY <2>1, <2>5 DEF WebSocketInv
<1>7. CASE Wait(c)
  <2>1. WebSocketTypeOK'
    BY <1>1, <1>2, <1>7 DEF Wait, Goto, tunnelVars, WebSocketTypeOK
  <2>2. stage[c] = "tunnel" /\ stage'[c] = "closed" /\ \A e \in Ends : ~copying[c][e]
    BY <1>1, <1>7 DEF Wait, Goto, WebSocketTypeOK
  <2>3. \A d \in Callers \ {c} : stage'[d] = stage[d]
    BY <1>1, <1>7 DEF Wait, Goto, WebSocketTypeOK
  <2>4. UNCHANGED <<early, peer, waiting, copying>>
    BY <1>7 DEF Wait, tunnelVars
  <2>5. \A d \in Callers : Tunnelled(d)'
    BY <2>2, <2>3, <2>4 DEF WebSocketInv, Tunnelled, Emptied
  <2> QED BY <2>1, <2>5 DEF WebSocketInv
<1>8. CASE Rest(c)
  <2>1. [e \in Ends |-> "open"] \in [Ends -> {"open", "shut", "gone"}]
        /\ [e \in Ends |-> 0] \in [Ends -> 0 .. Room]
    BY RoomAssumption
  <2>2. WebSocketTypeOK'
    BY <1>1, <1>2, <1>8, <2>1 DEF Rest, WebSocketTypeOK
  <2>3. stage'[c] = "idle"
    BY <1>1, <1>8 DEF Rest, WebSocketTypeOK
  <2>4. \A d \in Callers \ {c} : /\ stage'[d] = stage[d] /\ early'[d] = early[d]
                                 /\ peer'[d] = peer[d] /\ waiting'[d] = waiting[d]
    BY <1>1, <1>8 DEF Rest, WebSocketTypeOK
  <2>5. copying' = copying
    BY <1>8 DEF Rest
  <2>6. \A d \in Callers : Tunnelled(d)'
    BY <2>3, <2>4, <2>5 DEF WebSocketInv, Tunnelled, Emptied
  <2> QED BY <2>2, <2>6 DEF WebSocketInv
<1> QED BY <1>3, <1>4, <1>5, <1>6, <1>7, <1>8

\* A piece is read from the end e.
LEMMA Reading ==
  ASSUME WebSocketInv, NEW c \in Callers, NEW e \in Ends, Read(c, e)
  PROVE  /\ early' \in [Callers -> 0 .. 1] /\ waiting' \in [Callers -> [Ends -> 0 .. Room]]
         /\ \A d \in Callers, f \in Ends : d # c \/ f # e =>
              /\ waiting'[d][f] = waiting[d][f]
              /\ d # c \/ f = "client" => early'[d] = early[d]
<1>1. WebSocketTypeOK /\ early[c] \in 0 .. 1 /\ waiting[c] \in [Ends -> 0 .. Room]
      /\ waiting[c][e] \in 0 .. Room /\ Room \in Nat
  BY OneEnd DEF WebSocketInv
<1>2. CASE e = "client" /\ early[c] > 0
  <2>1. early' = [early EXCEPT ![c] = early[c] - 1] /\ waiting' = waiting
    BY <1>2 DEF Read
  <2> QED BY <1>1, <1>2, <2>1 DEF WebSocketTypeOK
<1>3. CASE ~(e = "client" /\ early[c] > 0)
  <2>1. waiting' = [waiting EXCEPT ![c][e] = @ - 1] /\ early' = early
    BY <1>3 DEF Read
  <2>2. waiting[c][e] > 0
    BY <1>1, <1>3 DEF Read, Left
  <2>3. waiting[c][e] - 1 \in 0 .. Room
    BY <1>1, <2>2
  <2>4. PICK row : row = [waiting[c] EXCEPT ![e] = waiting[c][e] - 1]
    OBVIOUS
  <2>5. row \in [Ends -> 0 .. Room] /\ \A f \in Ends : f # e => row[f] = waiting[c][f]
    BY <1>1, <2>3, <2>4
  <2>6. waiting' = [waiting EXCEPT ![c] = row]
    BY <2>1, <2>4
  <2> QED BY <1>1, <2>1, <2>5, <2>6 DEF WebSocketTypeOK
<1> QED BY <1>2, <1>3

\* The flag of one goroutine, or what one end does, is set.
LEMMA OneRow ==
  ASSUME NEW R, NEW table \in [Callers -> [Ends -> R]], NEW c \in Callers, NEW e \in Ends,
         NEW v \in R
  PROVE  /\ [table EXCEPT ![c][e] = v] \in [Callers -> [Ends -> R]]
         /\ [table EXCEPT ![c][e] = v][c][e] = v
         /\ \A d \in Callers, f \in Ends : d # c \/ f # e =>
              [table EXCEPT ![c][e] = v][d][f] = table[d][f]
<1>1. PICK row : row = [table[c] EXCEPT ![e] = v]
  OBVIOUS
<1>2. row \in [Ends -> R] /\ row[e] = v /\ \A f \in Ends : f # e => row[f] = table[c][f]
  BY <1>1
<1>3. [table EXCEPT ![c][e] = v] = [table EXCEPT ![c] = row]
  BY <1>1
<1> QED BY <1>2, <1>3

\* A step of a goroutine or of an end of the tunnel of c.
TunnelStep(c, e) == Copy(c, e) \/ Send(c, e) \/ Withdraw(c, e)

\* What such a step may do: of c it touches the end e only, and the early pieces
\* if that is the client.
LEMMA TunnelTyped ==
  ASSUME WebSocketInv, NEW c \in Callers, NEW e \in Ends, TunnelStep(c, e)
  PROVE  /\ WebSocketTypeOK' /\ stage' = stage /\ stage[c] = "tunnel"
         /\ \A d \in Callers, f \in Ends : d # c \/ f # e =>
              /\ waiting'[d][f] = waiting[d][f] /\ peer'[d][f] = peer[d][f]
              /\ copying'[d][f] = copying[d][f]
              /\ d # c \/ f = "client" => early'[d] = early[d]
<1>1. WebSocketTypeOK /\ CheckTypeOK /\ stage' = stage /\ target' = target /\ stage[c] = "tunnel"
      /\ UNCHANGED checkVars
  BY DEF WebSocketInv, WebSocketTypeOK, TunnelStep, Copy, Send, Withdraw, Move, ReadEnds,
         WriteFails, Done, proxyVars
<1>2. CheckTypeOK'
  BY <1>1 DEF CheckTypeOK, checkVars
<1>3. /\ early' \in [Callers -> 0 .. 1] /\ waiting' \in [Callers -> [Ends -> 0 .. Room]]
      /\ \A d \in Callers, f \in Ends : d # c \/ f # e =>
              /\ waiting'[d][f] = waiting[d][f]
              /\ d # c \/ f = "client" => early'[d] = early[d]
  <2>1. CASE Read(c, e)
    BY <2>1, Reading
  <2>2. CASE Send(c, e)
    <3>1. waiting[c][e] + 1 \in 0 .. Room
      BY <1>1, <2>2, OneEnd DEF Send
    <3>2. waiting' = [waiting EXCEPT ![c][e] = waiting[c][e] + 1] /\ early' = early
      BY <2>2 DEF Send
    <3> QED BY <1>1, <3>1, <3>2, OneRow DEF WebSocketTypeOK
  <2>3. CASE UNCHANGED <<early, waiting>>
    BY <1>1, <2>3 DEF WebSocketTypeOK
  <2> QED BY <2>1, <2>2, <2>3 DEF TunnelStep, Copy, Move, ReadEnds, WriteFails, Withdraw
<1>4. /\ peer' \in [Callers -> [Ends -> {"open", "shut", "gone"}]]
      /\ \A d \in Callers, f \in Ends : d # c \/ f # e => peer'[d][f] = peer[d][f]
  <2>1. CASE peer' = peer
    BY <1>1, <2>1 DEF WebSocketTypeOK
  <2>2. CASE Withdraw(c, e)
    <3>1. PICK v \in {"open", "shut", "gone"} : peer' = [peer EXCEPT ![c][e] = v]
      BY <2>2 DEF Withdraw
    <3> QED BY <1>1, <3>1, OneRow DEF WebSocketTypeOK
  <2> QED BY <2>1, <2>2 DEF TunnelStep, Copy, Move, ReadEnds, WriteFails, Send
<1>5. /\ copying' \in [Callers -> [Ends -> BOOLEAN]]
      /\ \A d \in Callers, f \in Ends : d # c \/ f # e => copying'[d][f] = copying[d][f]
  <2>1. CASE copying' = copying
    BY <1>1, <2>1 DEF WebSocketTypeOK
  <2>2. CASE copying' = [copying EXCEPT ![c][e] = FALSE]
    <3>1. PICK row : row = [copying[c] EXCEPT ![e] = FALSE]
      OBVIOUS
    <3>2. copying \in [Callers -> [Ends -> BOOLEAN]] /\ copying[c] \in [Ends -> BOOLEAN]
      BY <1>1 DEF WebSocketTypeOK
    <3>3. row \in [Ends -> BOOLEAN] /\ \A f \in Ends : f # e => row[f] = copying[c][f]
      BY <3>1, <3>2
    <3>4. copying' = [copying EXCEPT ![c] = row]
      BY <2>2, <3>1
    <3> QED BY <3>2, <3>3, <3>4
  <2> QED BY <2>1, <2>2
          DEF TunnelStep, Copy, Move, ReadEnds, WriteFails, Done, Send, Withdraw
<1>6. WebSocketTypeOK'
  BY <1>1, <1>2, <1>3, <1>4, <1>5 DEF WebSocketTypeOK
<1> QED BY <1>1, <1>3, <1>4, <1>5, <1>6

\* A step of a tunnel keeps the invariant,
LEMMA TunnelKeeps ==
  ASSUME WebSocketInv, NEW c \in Callers, NEW e \in Ends, TunnelStep(c, e)
  PROVE  WebSocketInv'
<1>1. WebSocketTypeOK' /\ WebSocketTypeOK /\ stage' = stage /\ stage[c] = "tunnel"
  BY TunnelTyped DEF WebSocketInv
<1>2. \A d \in Callers, f \in Ends : d # c \/ f # e =>
        /\ waiting'[d][f] = waiting[d][f] /\ peer'[d][f] = peer[d][f]
        /\ copying'[d][f] = copying[d][f]
        /\ d # c \/ f = "client" => early'[d] = early[d]
  BY TunnelTyped
<1>3. ASSUME NEW d \in Callers, d # c PROVE Tunnelled(d)'
  <2>1. Tunnelled(d)
    BY DEF WebSocketInv
  <2>2. early'[d] = early[d]
    BY <1>2, <1>3
  <2> QED BY <1>1, <1>2, <1>3, <2>1, <2>2 DEF Tunnelled, Emptied
<1>4. ASSUME \A f \in Ends : peer'[c][f] # "gone" PROVE \A f \in Ends : Emptied(c, f)'
  <2>1. \A f \in Ends : peer[c][f] # "gone"
    <3>1. \A f \in Ends : f # e => peer[c][f] # "gone"
      BY <1>2, <1>4
    <3>2. peer[c][e] # "gone"
      <4>1. CASE Withdraw(c, e)
        BY <4>1, <1>1, <1>4, OneRow DEF Withdraw, WebSocketTypeOK
      <4>2. CASE ~Withdraw(c, e)
        BY <4>2, <1>4 DEF TunnelStep, Copy, Move, ReadEnds, WriteFails, Send
      <4> QED BY <4>1, <4>2
    <3> QED BY <3>1, <3>2
  <2>2. \A f \in Ends : Emptied(c, f)
    BY <1>1, <2>1 DEF WebSocketInv, Tunnelled
  <2>3. \A f \in Ends : f # e => Emptied(c, f)'
    BY <1>2, <2>2 DEF Emptied
  <2>4. Emptied(c, e)'
    <3>1. CASE Move(c, e)
      BY <3>1 DEF Move, Emptied
    <3>2. CASE ReadEnds(c, e)
      <4>1. peer[c][e] = "shut" /\ Left(c, e) = 0 /\ UNCHANGED <<early, peer, waiting>>
        BY <2>1, <3>2 DEF ReadEnds
      <4>2. waiting[c][e] \in Nat /\ early[c] \in Nat
        BY <1>1, OneEnd
      <4>3. waiting[c][e] = 0 /\ (e = "client" => early[c] = 0)
        BY <4>1, <4>2 DEF Left
      <4> QED BY <4>1, <4>3 DEF Emptied
    <3>3. CASE WriteFails(c, e)
      <4>1. Other(e) \in Ends
        BY DEF Other, Ends
      <4> QED BY <2>1, <3>3, <4>1 DEF WriteFails
    <3>4. CASE Send(c, e)
      <4>1. copying[c][e] /\ copying' = copying
        BY <2>2, <3>4 DEF Send, Emptied
      <4> QED BY <4>1 DEF Emptied
    <3>5. CASE Withdraw(c, e)
      <4>1. peer[c][e] = "open"
        BY <1>1, <1>4, <3>5, OneRow DEF Withdraw, WebSocketTypeOK
      <4>2. copying[c][e] /\ copying' = copying
        BY <2>2, <3>5, <4>1 DEF Withdraw, Emptied
      <4> QED BY <4>2 DEF Emptied
    <3> QED BY <3>1, <3>2, <3>3, <3>4, <3>5 DEF TunnelStep, Copy
  <2> QED BY <2>3, <2>4
<1>5. Tunnelled(c)'
  BY <1>1, <1>4 DEF Tunnelled
<1> QED BY <1>1, <1>3, <1>5 DEF WebSocketInv

\* and so does what goes on around it.
LEMMA AroundKeeps ==
  ASSUME WebSocketInv, Around \/ UNCHANGED webSocketVars
  PROVE  WebSocketInv'
<1>1. /\ UNCHANGED <<stage, target, early, peer, waiting, copying>> /\ WebSocketTypeOK
      /\ CheckNext \/ UNCHANGED <<healthy, backend, probing, checker>>
  BY DEF Around, webSocketVars, proxyVars, tunnelVars, checkVars, WebSocketInv
<1>2. CheckTypeOK'
  <2>1. CheckTypeOK
    BY <1>1 DEF WebSocketTypeOK
  <2>2. CASE UNCHANGED <<healthy, backend, probing, checker>>
    BY <2>1, <2>2 DEF CheckTypeOK
  <2> QED BY <1>1, <2>1, <2>2, CheckerTyped
<1>3. WebSocketTypeOK'
  BY <1>1, <1>2 DEF WebSocketTypeOK
<1>4. \A c \in Callers : Tunnelled(c)'
  BY <1>1 DEF WebSocketInv, Tunnelled, Emptied
<1> QED BY <1>3, <1>4 DEF WebSocketInv

\* A tunnel that has ended has nothing left of what was sent into it, unless an
\* end was gone (proxy.go:203-215).
THEOREM WebSocketInvariant == WebSocketSpec => []WebSocketInv
<1>1. ASSUME WebSocketInv, [WebSocketNext]_webSocketVars PROVE WebSocketInv'
  <2>1. ASSUME NEW c \in Callers, TurnAway(c) \/ Hijack(c) \/ Handle(c) \/ Rest(c)
        PROVE  WebSocketInv'
    BY <1>1, <2>1, HandlerKeeps DEF Handle
  <2>2. ASSUME NEW c \in Callers, NEW e \in Ends, Copy(c, e) \/ Send(c, e) \/ Withdraw(c, e)
        PROVE  WebSocketInv'
    BY <1>1, <2>2, TunnelKeeps DEF TunnelStep
  <2> QED BY <1>1, <2>1, <2>2, AroundKeeps DEF WebSocketNext
<1> QED BY <1>1, WebSocketStarts, PTL DEF WebSocketSpec

\* Upgrades, tunnels and the checker keep to their types.
THEOREM WebSocketTyped == WebSocketSpec => []WebSocketTypeOK
<1>1. WebSocketInv => WebSocketTypeOK
  BY DEF WebSocketInv
<1> QED BY <1>1, WebSocketInvariant, PTL

\* A tunnel whose ends are both there closes after both have shut their sending
\* half, and with nothing on the way, however many pieces there were
\* (proxy.go:203-215).
THEOREM TunnelsWhole == WebSocketSpec => []NothingCut
<1>1. ASSUME WebSocketInv PROVE NothingCut
  <2>1. "client" \in Ends
    BY DEF Ends
  <2> QED BY <1>1, <2>1 DEF WebSocketInv, Tunnelled, Emptied, NothingCut
<1> QED BY <1>1, WebSocketInvariant, PTL
=============================================================================
