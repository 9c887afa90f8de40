---------------------------- MODULE RequestTracker ----------------------------
(***************************************************************************)
(* internal/modules/status and AccessMiddleware of internal/log/access.go: *)
(* the counters of the requests under way, and the page that shows them.   *)
(*                                                                         *)
(* The middleware is the outermost of a location; what is inside it is a   *)
(* module of its own (ResponseChain).  Every counter is an atomic, so each *)
(* addition and each load is a step.  The page is a location without       *)
(* middlewares.  ConnAccepted and ConnClosed have no caller, nor is        *)
(* Reading ever changed: what the page shows of them is always 0.          *)
(***************************************************************************)
EXTENDS Integers, FiniteSets

CONSTANT Requests

VARIABLES Active, Started, Writing,  \* the counters; Started is Requests in the code
          at,      \* where AccessMiddleware is with each request
          page,    \* where the handler of the page is
          shown    \* its local variables, as far as they are set

\* History, read by properties only.
VARIABLES lost,    \* the requests whose handler panicked
          moving   \* the requests that moved a counter since the page was begun

counters == <<Active, Started, Writing>>
trackerVars == <<counters, at, page, shown, lost, moving>>

TrackerTypeOK ==
  /\ Active \in Nat /\ Started \in Nat /\ Writing \in Nat
  /\ at \in [Requests -> {"out", "started", "active", "in", "done", "inactive", "over"}]
  /\ page \in {"active", "requests", "writing", "show"}
  /\ shown \in [active : Nat, requests : Nat, waiting : Int]
  /\ lost \subseteq Requests
  /\ moving \subseteq Requests

Blank == [active |-> 0, requests |-> 0, waiting |-> 0]

TrackerInit == /\ Active = 0 /\ Started = 0 /\ Writing = 0
               /\ at = [r \in Requests |-> "out"]
               /\ page = "active" /\ shown = Blank
               /\ lost = {} /\ moving = {}

-----------------------------------------------------------------------------
Move(r, from, to) == /\ at[r] = from
                     /\ at' = [at EXCEPT ![r] = to]
                     /\ moving' = moving \cup {r}
                     /\ UNCHANGED <<page, shown, lost>>

StartRequests_ActiveFirst(r) == /\ Move(r, "out", "started")
                                /\ Active' = Active + 1
                                /\ UNCHANGED <<Started, Writing>>

\* c.Requests.Add(1) (status.go:40).
StartRequests(r) == /\ Move(r, "out", "started")
                    /\ Started' = Started + 1
                    /\ UNCHANGED <<Active, Writing>>

\* c.Active.Add(1)
StartActive(r) == /\ Move(r, "started", "active")
                  /\ Active' = Active + 1
                  /\ UNCHANGED <<Started, Writing>>

\* c.Writing.Add(1); the next handler is called.
StartWriting(r) == /\ Move(r, "active", "in")
                   /\ Writing' = Writing + 1
                   /\ UNCHANGED <<Active, Started>>

\* The handler panics: nothing is deferred, so ReqDone is not called.
Unwind(r) == /\ at[r] = "in"
             /\ at' = [at EXCEPT ![r] = "over"]
             /\ lost' = lost \cup {r}
             /\ UNCHANGED <<counters, page, shown, moving>>

\* The handler returns.
Leave(r) == /\ at[r] = "in"
            /\ at' = [at EXCEPT ![r] = "done"]
            /\ UNCHANGED <<counters, page, shown, lost, moving>>

DoneActive_Twice(r) == /\ Move(r, "done", "inactive")
                       /\ Active' = Active - 2
                       /\ UNCHANGED <<Started, Writing>>

\* c.Active.Add(-1)
DoneActive(r) == /\ Move(r, "done", "inactive")
                 /\ Active' = Active - 1
                 /\ UNCHANGED <<Started, Writing>>

DoneWriting_Forgotten(r) == /\ Move(r, "inactive", "over")
                            /\ UNCHANGED counters

\* c.Writing.Add(-1); the line is logged.
DoneWriting(r) == /\ Move(r, "inactive", "over")
                  /\ Writing' = Writing - 1
                  /\ UNCHANGED <<Active, Started>>

Track(r) == \/ StartRequests(r) \/ StartActive(r) \/ StartWriting(r)
            \/ DoneActive(r) \/ DoneWriting(r)

\* Between the first and the last addition of ReqStart or of ReqDone.
Midway == {r \in Requests : at[r] \in {"started", "active", "inactive"}}

\* The page: active := collector.Active.Load() (status.go:72).
LoadActive == /\ page = "active"
              /\ page' = "requests"
              /\ shown' = [Blank EXCEPT !.active = Active]
              /\ moving' = Midway
              /\ UNCHANGED <<counters, at, lost>>

\* requests := collector.Requests.Load()
LoadRequests == /\ page = "requests"
                /\ page' = "writing"
                /\ shown' = [shown EXCEPT !.requests = Started]
                /\ UNCHANGED <<counters, at, lost, moving>>

\* writing := collector.Writing.Load(), and waiting is computed.
LoadWriting == /\ page = "writing"
               /\ page' = "show"
               /\ shown' = [shown EXCEPT !.waiting = shown.active - Writing]
               /\ UNCHANGED <<counters, at, lost, moving>>

\* The page is written.
Show == /\ page = "show"
        /\ page' = "active"
        /\ shown' = Blank
        /\ moving' = {}
        /\ UNCHANGED <<counters, at, lost>>

Page == LoadActive \/ LoadRequests \/ LoadWriting \/ Show

-----------------------------------------------------------------------------
\* The counters are the requests under way and, for ever, those whose handler
\* panicked: nothing else is lost or counted twice, however the additions of
\* ReqStart and ReqDone interleave (status.go:39-48, access.go:134-143).
DriftIsPanics ==
  Midway = {} =>
    LET n == Cardinality({r \in Requests : at[r] \in {"in", "done"}} \cup lost)
    IN  Active = n /\ Writing = n

\* A page never shows more active requests than there have been: ReqStart
\* counts a request before it is active and the page reads in the other order.
ActiveWereCounted == page \in {"writing", "show"} => shown.active <= shown.requests

\* The waiting count of the page may be off, and negative, but by no more than
\* the requests that were starting or ending while it was put together.
WaitingIsNoise ==
  page = "show" =>
    LET k == Cardinality(moving) IN shown.waiting \in (-k) .. k
=============================================================================
