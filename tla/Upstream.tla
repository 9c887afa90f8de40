------------------------------- MODULE Upstream -------------------------------
(***************************************************************************)
(* internal/proxy/proxy.go: what Upstream.ServeHTTP does with a request,   *)
(* one attempt after the other, over the balancer and the health checker.  *)
(*                                                                         *)
(* A caller of Balancer is one request here. httputil.ReverseProxy and the  *)
(* ResponseWriter of net/http are not part of src/: the actions say what   *)
(* proxy.go relies on.  The first WriteHeader of a request fixes the       *)
(* status the client sees, and its length if the backend declared one;     *)
(* every body is taken to be non-empty.  WebSocket upgrades (line 103) are *)
(* another handler.                                                        *)
(***************************************************************************)
EXTENDS Balancer, Sequences

CONSTANTS Upgrades,    \* the callers that are WebSocket upgrades
          MaxRetries,  \* Upstream.MaxRetries
          NoServer     \* no attempt has been routed yet

ASSUME UpgradesAssumption == Upgrades \subseteq Callers
ASSUME MaxRetriesAssumption == MaxRetries \in Nat
ASSUME NoServerAssumption == NoServer \notin Servers

Requests == Callers \ Upgrades

VARIABLES stage,     \* stage[c]: where ServeHTTP is for request c
          hasBody,   \* hasBody[c]: the request carries a body
          attempt,   \* attempt[c]: the loop variable attempt
          result,    \* result[c]: rec.statusCode of this attempt, 5xx or not
          status,    \* status[c]: the status committed to the client
          declared,  \* declared[c]: it was committed with a Content-Length
          pieces,    \* pieces[c]: the attempts whose body went to the client
          aborted    \* aborted[c]: the handler panicked with ErrAbortHandler

\* History, read by properties only.
VARIABLES uploads,   \* uploads[c]: the backends that were sent the request body
          last,      \* last[c]: the server of the attempt before
          lone       \* lone[c]: nobody else has added since c arrived

request == <<stage, hasBody, attempt>>
client == <<result, status, declared, pieces, aborted>>
history == <<uploads, last, lone>>
upstreamVars == <<balancerVars, request, client, history>>

Statuses == {"none", "ok", "error"}

UpstreamTypeOK ==
  /\ TypeOK
  /\ stage \in [Requests -> {"idle", "next", "copy", "judge", "done"}]
  /\ hasBody \in [Requests -> BOOLEAN]
  /\ attempt \in [Requests -> 0..MaxRetries]
  /\ result \in [Requests -> Statuses]
  /\ status \in [Requests -> Statuses]
  /\ declared \in [Requests -> BOOLEAN]
  /\ pieces \in [Requests -> Seq(0..MaxRetries)]
  /\ aborted \in [Requests -> BOOLEAN]
  /\ uploads \in [Requests -> 0..(MaxRetries + 1)]
  /\ last \in [Requests -> Servers \cup {NoServer}]
  /\ lone \in [Requests -> BOOLEAN]

UpstreamInit ==
  /\ Init
  /\ stage = [c \in Requests |-> "idle"]
  /\ hasBody = [c \in Requests |-> FALSE]
  /\ attempt = [c \in Requests |-> 0]
  /\ result = [c \in Requests |-> "none"]
  /\ status = [c \in Requests |-> "none"]
  /\ declared = [c \in Requests |-> FALSE]
  /\ pieces = [c \in Requests |-> <<>>]
  /\ aborted = [c \in Requests |-> FALSE]
  /\ uploads = [c \in Requests |-> 0]
  /\ last = [c \in Requests |-> NoServer]
  /\ lone = [c \in Requests |-> FALSE]

-----------------------------------------------------------------------------
Goto(c, from, to) == stage[c] = from /\ stage' = [stage EXCEPT ![c] = to]

\* A new recorder, and the ReverseProxy calls the director (lines 122-123, 58).
Try(c) == /\ Begin(c)
          /\ result' = [result EXCEPT ![c] = "none"]
          /\ UNCHANGED <<checkVars, status, declared, pieces, aborted, uploads, last>>

\* ServeHTTP is called and makes its first attempt (lines 102-111).
Receive(c) ==
  /\ Goto(c, "idle", "next")
  /\ Try(c)
  /\ \E b \in BOOLEAN : hasBody' = [hasBody EXCEPT ![c] = b]
  /\ lone' = [lone EXCEPT ![c] = TRUE]
  /\ UNCHANGED attempt

\* The steps of Next inside the director.
Pick(c) ==
  /\ stage[c] = "next"
  /\ \/ Add(c) /\ lone' = [d \in Requests |-> lone[d] /\ d = c]
     \/ Load(c) /\ UNCHANGED lone
  /\ UNCHANGED <<checkVars, request, client, uploads, last>>

Spent_Renewed(c) == FALSE

\* The ReverseProxy closed the request body with the first attempt, and the
\* requests of a server have no GetBody that would bring it back (lines 113-119).
Spent(c) == hasBody[c] /\ attempt[c] > 0

\* What the first WriteHeader of the request fixes (lines 143-147).
Commit(c, code, length) ==
  /\ result' = [result EXCEPT ![c] = code]
  /\ IF status[c] = "none"
     THEN /\ status' = [status EXCEPT ![c] = code]
          /\ declared' = [declared EXCEPT ![c] = length]
     ELSE UNCHANGED <<status, declared>>

\* The first attempt declared a Content-Length to the client and its body has
\* used it up: net/http refuses every further byte.
LengthUsed(c) == status[c] # "none" /\ declared[c] /\ attempt[c] > 0

\* There is no server, or the body is spent, or the connection, the request or
\* the wait for the header fails: ErrorHandler answers 502 (lines 97-100).  Without
\* a server the director leaves the URL alone, and one with no host in it, such as
\* the clients of a server send, cannot be asked for; a URL that names a host, as
\* the clients of a forward proxy send it, would be, and is not modelled.
Fail(c) ==
  /\ Goto(c, "next", "judge")
  /\ scan[c] \in {"found", "none"}
  /\ Commit(c, "error", FALSE)
  /\ pieces' = [pieces EXCEPT ![c] = IF LengthUsed(c) THEN @ ELSE Append(@, attempt[c])]
  /\ \E sent \in BOOLEAN :
       /\ sent => scan[c] = "found" /\ hasBody[c] /\ ~Spent(c) /\ backend[idx[c]] # "down"
       /\ uploads' = [uploads EXCEPT ![c] = IF sent THEN @ + 1 ELSE @]
  /\ last' = [last EXCEPT ![c] = IF scan[c] = "found" THEN idx[c] ELSE NoServer]
  /\ Finish(c)
  /\ UNCHANGED <<checkVars, hasBody, attempt, aborted, lone>>

\* The backend's status line and header arrive and go to the client at once.
Respond(c) ==
  /\ Goto(c, "next", "copy")
  /\ scan[c] = "found"
  /\ ~Spent(c)
  /\ backend[idx[c]] # "down"
  /\ \E length \in BOOLEAN :
       Commit(c, IF backend[idx[c]] = "up" THEN "ok" ELSE "error", length)
  /\ uploads' = [uploads EXCEPT ![c] = IF hasBody[c] THEN @ + 1 ELSE @]
  /\ last' = [last EXCEPT ![c] = idx[c]]
  /\ Finish(c)
  /\ UNCHANGED <<checkVars, hasBody, attempt, pieces, aborted, lone>>

\* The backend's body goes to the client (lines 149-154).
Copy(c) ==
  /\ Goto(c, "copy", "judge")
  /\ ~LengthUsed(c)
  /\ pieces' = [pieces EXCEPT ![c] = Append(@, attempt[c])]
  /\ UNCHANGED <<balancerVars, hasBody, attempt, result, status, declared, aborted, history>>

\* The backend breaks off, or the client can take no more bytes: the
\* ReverseProxy panics and the retry loop is left.
Abort(c) ==
  /\ Goto(c, "copy", "done")
  /\ aborted' = [aborted EXCEPT ![c] = TRUE]
  /\ UNCHANGED <<balancerVars, hasBody, attempt, result, status, declared, pieces, history>>

Retry_Anything(c) ==
  /\ Goto(c, "judge", "next")
  /\ attempt[c] < MaxRetries
  /\ attempt' = [attempt EXCEPT ![c] = @ + 1]
  /\ Try(c)
  /\ UNCHANGED <<hasBody, lone>>

Retry_OnceMore(c) ==
  /\ Goto(c, "judge", "next")
  /\ result[c] = "error"
  /\ attempt[c] <= MaxRetries
  /\ attempt' = [attempt EXCEPT ![c] = @ + 1]
  /\ Try(c)
  /\ UNCHANGED <<hasBody, lone>>

\* A 5xx with attempts left: the loop goes on (lines 125-127).
Retry(c) ==
  /\ Goto(c, "judge", "next")
  /\ result[c] = "error"
  /\ attempt[c] < MaxRetries
  /\ attempt' = [attempt EXCEPT ![c] = @ + 1]
  /\ Try(c)
  /\ UNCHANGED <<hasBody, lone>>

\* Anything else is final (line 129); lines 132-134 are reached only when
\* GetBody fails, which no request of a server has.
Return(c) ==
  /\ Goto(c, "judge", "done")
  /\ result[c] = "ok" \/ attempt[c] = MaxRetries
  /\ UNCHANGED <<balancerVars, hasBody, attempt, client, history>>

\* A WebSocket upgrade takes its turn (lines 103, 166): it shares the balancer
\* and nothing else with the requests.
Upgrade(c) ==
  /\ Scan(c)
  /\ lone' = IF counter' = counter THEN lone ELSE [d \in Requests |-> FALSE]
  /\ UNCHANGED <<request, client, uploads, last>>

Serve(c) == \/ Pick(c) \/ Fail(c) \/ Respond(c)
            \/ Copy(c) \/ Abort(c) \/ Retry(c) \/ Return(c)

UpstreamNext ==
  \/ \E c \in Requests : Receive(c) \/ Serve(c)
  \/ \E c \in Upgrades : Upgrade(c)
  \/ World /\ UNCHANGED <<request, client, history>>

UpstreamSpec == UpstreamInit /\ [][UpstreamNext]_upstreamVars

-----------------------------------------------------------------------------
\* An answer the client takes for a success comes from one backend, whole or
\* broken off, and never from two: ServeHTTP (proxy.go:111-130) retries only
\* what it has answered with an error.
SuccessFromOne ==
  \A c \in Requests : status[c] = "ok" => attempt[c] = 0 /\ pieces[c] \in {<<>>, <<0>>}

\* A request with a body is uploaded at most once, whatever MaxRetries is: its
\* side effects do not happen on two backends (proxy.go:113-123).
UploadedOnce == \A c \in Requests : hasBody[c] => uploads[c] <= 1

\* A retry goes to another server than the attempt before it, if one was marked
\* healthy all through the call of Next and no other request took a turn in
\* between (proxy.go:111-123 over balancer.go:37-42).
RetryRotates ==
  \A c \in Requests :
    /\ stage[c] = "next" /\ scan[c] = "found" /\ lone[c]
    /\ last[c] # NoServer /\ steady[c] \ {last[c]} # {}
    => idx[c] # last[c]

\* "Retry on next upstream on failure": when the last attempt was answered
\* with a success the client gets that success.
RetryDelivers ==
  \A c \in Requests :
    stage[c] = "done" /\ result[c] = "ok" /\ ~aborted[c] => status[c] = "ok"
=============================================================================
