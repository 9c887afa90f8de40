---------------------------- MODULE ResponseChain ----------------------------
(***************************************************************************)
(* What becomes of a response on its way through the writers that the      *)
(* middlewares of a location wrap around each other (modules/chain.go and  *)
(* buildLocationHandler in server.go), under AccessMiddleware.             *)
(*                                                                         *)
(* From outside in: the log's writer, the gates (the middlewares that only *)
(* let through or refuse), headers, brotli, gzip, subfilter, and the       *)
(* handler of the location.  The handler calls WriteHeader and Write; a    *)
(* layer takes a call or hands it on to the layer around it, and behind    *)
(* the last one is net/http, which sends it.  A layer that captured works  *)
(* when the handler inside has returned.  All writers share one header     *)
(* map, of which Content-Encoding and Content-Length are kept.  mirror     *)
(* only delays the return, and auth_request refuses as a handler answers.  *)
(*                                                                         *)
(* Every handler in src/ calls WriteHeader before Write, so that no layer  *)
(* captures a body without a status.  A backend may have coded what it     *)
(* answers, and when the proxy tries again the header of the next answer   *)
(* is added to what the map holds already.                                 *)
(***************************************************************************)
EXTENDS RequestTracker, Sequences

CONSTANTS Others,     \* requests of which only the tracker's part is modelled
          LayerSets,  \* the sets of layers that may be on for a request
          MaxPieces   \* bound on the Write calls of a handler

Chained == Requests \ Others

Rank == [headers |-> 1, brotli |-> 2, gzip |-> 3, subfilter |-> 4, handler |-> 5]
Layers == DOMAIN Rank \ {"handler"}

ASSUME OthersAssumption == Others \subseteq Requests
ASSUME LayersAssumption == LayerSets \subseteq SUBSET Layers
ASSUME PiecesAssumption == MaxPieces \in Nat \ {0}

VARIABLES layers,   \* the layers that are configured and that the client accepts
          matches,  \* those of brotli and gzip that list the content type
          step,     \* whose turn it is: the handler's or, on return, a layer's
          resp      \* the state of all writers of a request

\* What the handler called: the statuses (heads) and the codings of its answers
\* (own), how many pieces it wrote, and how many are left of what the answer
\* declared.  But for heads, pieces and left read by properties only.
VARIABLE  said

chainVars == <<trackerVars, layers, matches, step, resp, said>>

Any == -1  \* no length is declared

Statuses == {"none", "info", "ok", "error"}
Codings == {"gzip", "br"}
Lengths == Nat \X BOOLEAN  \* of a body, filtered or not

\* A body: the pieces written, whether subfilter replaced text in it, and the
\* codings applied, the first one first.
Body == [pieces : Seq(1..MaxPieces), filtered : BOOLEAN, codings : Seq(Codings)]
Empty == [pieces |-> <<>>, filtered |-> FALSE, codings |-> <<>>]

\* The length of a body that no layer has coded.
Size(b) == <<Len(b.pieces), b.filtered>>

\* The values of Content-Encoding and of Content-Length.
Header == [coding : Seq(Codings), length : Seq(Lengths)]

Response == [header : Header,             \* the header map
             buf : [Layers -> Body],      \* the body a layer has captured
             code : [Layers -> Statuses], \* the status it has captured
             fixed : BOOLEAN,             \* written, in headers' writer
             logged : Statuses,           \* status, in the log's writer
             status : Statuses,           \* what the client got: the final
             sent : Header,               \* status, the header that went with
             body : Body,                 \* it, the body, and whether that
             cut : BOOLEAN]               \* fell short of its length

ChainTypeOK ==
  /\ TrackerTypeOK
  /\ layers \in [Chained -> LayerSets]
  /\ matches \in [Chained -> SUBSET {"brotli", "gzip"}]
  /\ step \in [Chained -> DOMAIN Rank \cup {"end"}]
  /\ resp \in [Chained -> Response]
  /\ said \in [Chained -> [heads : Seq(Statuses), own : Seq(Seq(Codings)),
                            pieces : 0..MaxPieces, left : Any..MaxPieces,
                            info : BOOLEAN, refused : BOOLEAN]]

Nothing == [coding |-> <<>>, length |-> <<>>]

\* The handler has called nothing yet.
Silent == [heads |-> <<>>, own |-> <<>>, pieces |-> 0, left |-> Any,
           info |-> FALSE, refused |-> FALSE]

Fresh == [header |-> Nothing,
          buf |-> [l \in Layers |-> Empty],
          code |-> [l \in Layers |-> "none"],
          fixed |-> FALSE, logged |-> "ok",
          status |-> "none", sent |-> Nothing, body |-> Empty, cut |-> FALSE]

ChainInit ==
  /\ TrackerInit
  /\ layers \in [Chained -> LayerSets]
  /\ matches \in {m \in [Chained -> SUBSET {"brotli", "gzip"}] :
                    \A r \in Chained : m[r] \subseteq layers[r]}
  /\ step = [r \in Chained |-> "handler"]
  /\ resp = [r \in Chained |-> Fresh]
  /\ said = [r \in Chained |-> Silent]

-----------------------------------------------------------------------------
\* The writers: what a call of layer l makes of the state x of the writers,
\* with the layers on in L.

\* The layer of S that takes the call: the next one around l, or "client".
Taker(L, l, S) ==
  LET around == {k \in L \cap S : Rank[k] < Rank[l]}
  IN  IF around = {} THEN "client"
      ELSE CHOOSE k \in around : \A j \in around : Rank[j] <= Rank[k]

\* net/http: the first final status goes out, with the header map as it is.
Commit(x, status) ==
  IF status = "info" \/ x.status # "none" THEN x
  ELSE [x EXCEPT !.status = status, !.sent = x.header]

Log_Once(x, status) ==
  Commit(IF x.logged # "ok" THEN x ELSE [x EXCEPT !.logged = status], status)

\* The log's writer (access.go:102-105).
Log(x, status) == Commit([x EXCEPT !.logged = status], status)

\* headers hands on the first call only (headers.go:27-39).
SendHeader(L, x, status) ==
  IF "headers" \notin L THEN Log(x, status)
  ELSE IF x.fixed THEN x
  ELSE Log([x EXCEPT !.fixed = TRUE], status)

\* brotli and subfilter keep the status; gzip has no WriteHeader of its own.
WriteHeader(L, x, l, status) ==
  LET t == Taker(L, l, {"brotli", "subfilter"})
  IN  IF t = "client" THEN SendHeader(L, x, status) ELSE [x EXCEPT !.code[t] = status]

Join(b, more) == [pieces |-> b.pieces \o more.pieces,
                  filtered |-> b.filtered \/ more.filtered,
                  codings |-> more.codings]

\* net/http goes by the first length, and refuses a Write beyond it.  The length
\* of what a layer coded is not known, but it is not that of the text.
Within(b, length) ==
  \/ length = <<>>
  \/ /\ b.codings = <<>> /\ b.filtered = length[1][2]
     /\ Len(b.pieces) <= length[1][1]

\* The header goes out with the first byte.
SendBody(L, x, b) ==
  LET y == IF "headers" \in L /\ ~x.fixed THEN SendHeader(L, x, "ok") ELSE x
      z == Commit(y, "ok")
      all == Join(z.body, b)
  IN  IF Within(all, z.sent.length) THEN [z EXCEPT !.body = all] ELSE [z EXCEPT !.cut = TRUE]

Write(L, x, l, b) ==
  LET t == Taker(L, l, {"brotli", "gzip", "subfilter"})
  IN  IF t = "client" THEN SendBody(L, x, b) ELSE [x EXCEPT !.buf[t] = Join(@, b)]

-----------------------------------------------------------------------------
\* The handler of the location

\* The layer whose turn it is when l, or the handler, has returned.
Outward(L, l) == LET t == Taker(L, l, Layers \ {"headers"}) IN IF t = "client" THEN "end" ELSE t

Handling(r) == at[r] = "in" /\ step[r] = "handler"

Says(r, what) == /\ said' = [said EXCEPT ![r] = what]
                 /\ UNCHANGED <<trackerVars, layers, matches>>

\* A gate refuses the request by http.Error, before any layer is set up.
Refuse(r) ==
  /\ Handling(r) /\ said[r].heads = <<>> /\ ~said[r].info
  /\ resp' = [resp EXCEPT ![r] = [Log(@, "error") EXCEPT !.body.pieces = <<1>>]]
  /\ step' = [step EXCEPT ![r] = "end"]
  /\ Says(r, [Silent EXCEPT !.heads = <<"error">>, !.own = << <<>> >>, !.pieces = 1,
                            !.refused = TRUE])

\* The ReverseProxy passes on a 1xx response of the backend.
Inform(r) ==
  /\ Handling(r) /\ said[r].heads = <<>> /\ ~said[r].info
  /\ resp' = [resp EXCEPT ![r] = WriteHeader(layers[r], @, "handler", "info")]
  /\ Says(r, [said[r] EXCEPT !.info = TRUE])
  /\ UNCHANGED step

\* The header of an answer: a backend may have coded the body, and a file and
\* most backends declare a length.  The ReverseProxy adds the values to the map.
Announce(x, own, n) ==
  [x EXCEPT !.header = [coding |-> @.coding \o own,
                        length |-> IF n = Any THEN @.length ELSE Append(@.length, <<n, FALSE>>)]]

\* All that the answer declared has been written.
Complete(r) == said[r].left \in {Any, 0}

\* A length beyond the bound on the pieces is left out.
Answers(r, status, own, n) ==
  /\ said[r].pieces + n <= MaxPieces
  /\ resp' = [resp EXCEPT ![r] = WriteHeader(layers[r], Announce(@, own, n), "handler", status)]
  /\ Says(r, [said[r] EXCEPT !.heads = Append(@, status), !.own = Append(@, own), !.left = n])
  /\ UNCHANGED step

Answer(r, status, own, n) ==
  /\ Handling(r) /\ said[r].heads = <<>>
  /\ Answers(r, status, own, n)

\* The upstream retries an attempt that has been answered with an error, and the
\* next backend answers.
AnswerAgain(r, status, own, n) ==
  /\ Handling(r) /\ said[r].heads = <<"error">> /\ Complete(r)
  /\ Answers(r, status, own, n)

\* The next part of the body.  The ReverseProxy panics if net/http refuses it.
Piece(r) ==
  LET n == said[r].pieces + 1
      x == Write(layers[r], resp[r], "handler", [Empty EXCEPT !.pieces = <<n>>])
  IN  /\ Handling(r) /\ said[r].heads # <<>> /\ n <= MaxPieces
      /\ said[r].left # 0 /\ ~x.cut
      /\ resp' = [resp EXCEPT ![r] = x]
      /\ Says(r, [said[r] EXCEPT !.pieces = n, !.left = IF @ = Any THEN Any ELSE @ - 1])
      /\ UNCHANGED step

\* Or the retry fails, and ErrorHandler answers by http.Error, which takes the
\* lengths from the map and does not mind a Write that is refused.
FailAgain(r) ==
  LET n == said[r].pieces + 1
      L == layers[r]
      x == WriteHeader(L, [resp[r] EXCEPT !.header.length = <<>>], "handler", "error")
  IN  /\ Handling(r) /\ said[r].heads = <<"error">> /\ Complete(r) /\ n <= MaxPieces
      /\ resp' = [resp EXCEPT ![r] = Write(L, x, "handler", [Empty EXCEPT !.pieces = <<n>>])]
      /\ Says(r, [said[r] EXCEPT !.heads = Append(@, "error"), !.own = Append(@, <<>>),
                                 !.pieces = n, !.left = 0])
      /\ UNCHANGED step

\* It returns,
Return(r) ==
  /\ Handling(r) /\ said[r].heads # <<>> /\ Complete(r)
  /\ step' = [step EXCEPT ![r] = Outward(layers[r], "handler")]
  /\ UNCHANGED <<trackerVars, layers, matches, resp, said>>

\* or panics, as the ReverseProxy does when a body breaks off: no layer gets
\* its turn.
Panic(r) ==
  /\ Handling(r) /\ said[r].heads # <<>>
  /\ Unwind(r)
  /\ UNCHANGED <<layers, matches, step, resp, said>>

-----------------------------------------------------------------------------
\* The layers, after the handler inside has returned

Finish(r, l, x) ==
  /\ at[r] = "in" /\ step[r] = l
  /\ resp' = [resp EXCEPT ![r] = x]
  /\ step' = [step EXCEPT ![r] = Outward(layers[r], l)]
  /\ UNCHANGED <<trackerVars, layers, matches, said>>

SubFilter_NoStatus(r) ==
  LET b == [resp[r].buf["subfilter"] EXCEPT !.filtered = TRUE]
      x == [resp[r] EXCEPT !.header.length = <<Size(b)>>]
  IN  Finish(r, "subfilter", Write(layers[r], x, "subfilter", b))

\* subfilter.go:18-25
SubFilter(r) ==
  LET L == layers[r]
      b == [resp[r].buf["subfilter"] EXCEPT !.filtered = TRUE]
      x == [resp[r] EXCEPT !.header.length = <<Size(b)>>]
      y == WriteHeader(L, x, "subfilter", x.code["subfilter"])
  IN  Finish(r, "subfilter", Write(L, y, "subfilter", b))

\* gzip.go:46-55
Gzip(r) ==
  LET x == [resp[r] EXCEPT !.header = [coding |-> <<"gzip">>, length |-> <<>>]]
  IN  Finish(r, "gzip",
             IF "gzip" \notin matches[r] THEN resp[r]
             ELSE Write(layers[r], x, "gzip", [x.buf["gzip"] EXCEPT !.codings = Append(@, "gzip")]))

Brotli_KeepsLength(r) ==
  LET L == layers[r]
      x == IF "brotli" \in matches[r] THEN [resp[r] EXCEPT !.header.coding = <<"br">>] ELSE resp[r]
      b == IF "brotli" \in matches[r] THEN [x.buf["brotli"] EXCEPT !.codings = Append(@, "br")]
           ELSE x.buf["brotli"]
  IN  Finish(r, "brotli", Write(L, WriteHeader(L, x, "brotli", x.code["brotli"]), "brotli", b))

\* brotli.go:26-53; copyHeaders skips both headers of the model.
Brotli(r) ==
  LET L == layers[r]
      coded == "brotli" \in matches[r]
      x == IF coded THEN [resp[r] EXCEPT !.header = [coding |-> <<"br">>, length |-> <<>>]] ELSE resp[r]
      b == IF coded THEN [x.buf["brotli"] EXCEPT !.codings = Append(@, "br")] ELSE x.buf["brotli"]
  IN  Finish(r, "brotli", Write(L, WriteHeader(L, x, "brotli", x.code["brotli"]), "brotli", b))

\* net/http sends the header if nobody has.  A body that is not of the length it
\* was sent with, or has been sent with two, is of no use to the client.
Close(x) ==
  LET y == Commit(x, "ok")
  IN  [y EXCEPT !.cut = @ \/ \E k \in DOMAIN y.sent.length : y.sent.length[k] # Size(y.body)]

\* AccessMiddleware is back.
Back(r) ==
  /\ step[r] = "end"
  /\ Leave(r)
  /\ resp' = [resp EXCEPT ![r] = Close(@)]
  /\ UNCHANGED <<layers, matches, step, said>>

Handle(r) ==
  \/ Refuse(r) \/ Inform(r) \/ Piece(r) \/ FailAgain(r) \/ Return(r) \/ Panic(r)
  \/ \E status \in {"ok", "error"}, own \in {<<>>, <<"gzip">>},
          n \in {Any} \cup 1..MaxPieces :
       Answer(r, status, own, n) \/ AnswerAgain(r, status, own, n)

Unwinding(r) == SubFilter(r) \/ Gzip(r) \/ Brotli(r) \/ Back(r)

\* What the tracker and the page do, and the end of another request.
Tracking == \/ \E r \in Requests : Track(r)
            \/ \E r \in Others : Leave(r) \/ Unwind(r)
            \/ Page

ChainNext ==
  \/ \E r \in Chained : Handle(r) \/ Unwinding(r)
  \/ Tracking /\ UNCHANGED <<layers, matches, step, resp, said>>

ChainSpec == ChainInit /\ [][ChainNext]_chainVars

-----------------------------------------------------------------------------
Served(r) == at[r] = "over" /\ r \notin lost

Buffered(r) == layers[r] \cap {"brotli", "subfilter"} # {} /\ ~said[r].refused

\* headers took the 1xx for the response and dropped what came after it.
FinalDropped(r) == said[r].info /\ "headers" \in layers[r] /\ ~Buffered(r)

\* The client, undoing the codings it is told of, has what the handler wrote, or
\* its backend before it coded that: all of it, once, in order, filtered if the
\* location filters.
Delivered(r) ==
  LET x == resp[r]
  IN  /\ ~x.cut
      /\ x.body.pieces = [i \in 1 .. said[r].pieces |-> i]
      /\ \A k \in DOMAIN said[r].own : said[r].own[k] \o x.body.codings = x.sent.coding
      /\ x.body.filtered <=> ("subfilter" \in layers[r] /\ ~said[r].refused)

\* A backend coded its answer, and something was done to that as if it had not: a
\* layer replaces text in it or codes it anew under its own name alone
\* (brotli.go:43-49, subfilter.go:20-23), or another answer follows (proxy.go:125).
Recoded(r) ==
  /\ \E k \in DOMAIN said[r].own : said[r].own[k] # <<>>
  /\ Len(said[r].own) > 1 \/ "subfilter" \in layers[r] \/ matches[r] # {}

\* The answers of two attempts are one response, and a length went with it that
\* one of them declared (proxy.go:111-130, brotli.go:35-39).
Merged(r) ==
  Len(said[r].heads) > 1 /\ resp[r].sent.length # <<>> /\ "subfilter" \notin layers[r]

\* Through any layers but gzip, captured or not, coded or not, the body arrives
\* (brotli.go:26-53, subfilter.go:18-25, headers.go:41-46), except in the two cases
\* that no layer thinks of.
BodyDelivered ==
  \A r \in Chained :
    /\ Served(r) /\ ~Recoded(r) /\ ~Merged(r)
    /\ ~("gzip" \in layers[r] /\ ~said[r].refused)
    => Delivered(r)

\* "Compresses response only if Content-Type matches a type in the list": a
\* body that gzip has to do with arrives as well, coded or as it was.
GzipDelivers ==
  \A r \in Chained :
    Served(r) /\ said[r].pieces > 0 /\ ~Recoded(r) /\ ~Merged(r) => Delivered(r)

\* The client gets the handler's status: the first one or, when a layer
\* buffered the response, the last one (of a retried request).
StatusDelivered ==
  \A r \in Chained : Served(r) /\ ~FinalDropped(r) =>
    LET heads == said[r].heads
    IN  resp[r].status = IF Buffered(r) THEN heads[Len(heads)] ELSE heads[1]

\* The access log tells the status the client got, except of retries that
\* nothing buffers and headers does not stop.
LogTruthful ==
  \A r \in Chained :
    /\ Served(r) /\ ~FinalDropped(r)
    /\ Len(said[r].heads) = 1 \/ Buffered(r) \/ "headers" \in layers[r]
    => resp[r].logged = resp[r].status
=============================================================================
