------------------------------ MODULE ChainProofs ------------------------------
(***************************************************************************)
(* Proofs about ResponseChain and the RequestTracker under it, for any     *)
(* requests, any sets of layers and any number of pieces.                  *)
(*                                                                         *)
(* The counters of the tracker are the sizes of three sets of requests.    *)
(* A response is at any time with one holder, a layer that has captured it *)
(* or the client, and the holder has all the handler wrote so far and the  *)
(* status it gave last.                                                    *)
(***************************************************************************)
EXTENDS ResponseChain, FiniteSetTheorems, SequenceTheorems, TLAPS

\* The requests that each counter counts.
Begun == {r \in Requests : at[r] # "out"}
Acting == {r \in Requests : at[r] \in {"active", "in", "done"}} \cup lost
Answering == {r \in Requests : at[r] \in {"in", "done", "inactive"}} \cup lost

Counted ==
  /\ IsFiniteSet(Begun) /\ Started = Cardinality(Begun)
  /\ Active = Cardinality(Acting) /\ Writing = Cardinality(Answering)
  /\ \A r \in lost : at[r] = "over"

\* A set of requests that differs from those being answered in none but those
\* that have moved.
Near(S) == /\ IsFiniteSet(S)
           /\ S \ Answering \subseteq moving /\ Answering \ S \subseteq moving

\* What the page has loaded so far.
Loaded ==
  /\ IsFiniteSet(moving)
  /\ page = "requests" => shown.active <= Started
  /\ ActiveWereCounted
  /\ page \in {"requests", "writing"} =>
       \E S \in SUBSET Requests : Near(S) /\ shown.active = Cardinality(S)
  /\ WaitingIsNoise

TrackerInv == TrackerTypeOK /\ Counted /\ Loaded

-----------------------------------------------------------------------------
\* Of one request: L are its layers, t is whose turn it is, w what the handler
\* called, x the state of the writers.

\* Who has the response: the layer that has captured it, or the client.
Holder(L, t) ==
  IF t \in {"handler", "subfilter"} /\ "subfilter" \in L THEN "subfilter"
  ELSE IF t # "end" /\ "brotli" \in L THEN "brotli"
  ELSE "client"

Last(s) == s[Len(s)]
Firsts(n) == [i \in 1 .. n |-> i]

Words == [heads : Seq(Statuses), own : Seq(Seq(Codings)), pieces : 0..MaxPieces,
          left : Any..MaxPieces, info : BOOLEAN, refused : BOOLEAN]

\* The layers take their turn when the handler has answered.
Turn(L, t, w, x) ==
  /\ t \in (L \ {"headers"}) \cup {"handler", "end"}
  /\ w.heads \in Seq({"ok", "error"}) /\ Len(w.own) = Len(w.heads)
  /\ t # "handler" => w.heads # <<>> /\ w.left \in {Any, 0}
  /\ w.heads = <<>> => /\ w.pieces = 0 /\ w.left = Any /\ ~w.refused
                       /\ x.status = "none" /\ x.body = Empty /\ ~x.cut /\ x.header = Nothing

Refused(t, w, x) ==
  /\ t = "end" /\ ~w.info /\ w.heads = <<"error">> /\ w.own = << <<>> >> /\ w.pieces = 1
  /\ x.status = "error" /\ x.logged = "error" /\ x.sent = Nothing
  /\ x.body = [Empty EXCEPT !.pieces = <<1>>] /\ ~x.cut

\* The status is with the holder: a layer has the last one and has passed on
\* none; if nobody buffers, headers lets the first one pass and nobody stops any.
Captured(L, t, w, x) ==
  /\ x.status = "none" /\ ~x.fixed /\ x.logged = "ok"
  /\ w.heads # <<>> => x.code[Holder(L, t)] = Last(w.heads)

Buffers(L) == L \cap {"brotli", "subfilter"} # {}

Direct(L, w, x) ==
  /\ w.heads = <<>> => (x.fixed <=> w.info /\ "headers" \in L)
  /\ w.heads # <<>> /\ ~(w.info /\ "headers" \in L) =>
       /\ x.status = w.heads[1]
       /\ x.fixed <=> "headers" \in L
       /\ x.logged = IF "headers" \in L THEN w.heads[1] ELSE Last(w.heads)

Told(L, t, w, x) ==
  /\ Holder(L, t) # "client" => Captured(L, t, w, x)
  /\ Holder(L, t) = "client" /\ Buffers(L) =>
       x.status = Last(w.heads) /\ x.logged = Last(w.heads) /\ (x.fixed <=> "headers" \in L)
  /\ ~Buffers(L) => Direct(L, w, x)

\* So is the body, if gzip has nothing to do with it.
Whole(L, t, w, b) == /\ b.pieces = Firsts(w.pieces)
                     /\ b.filtered <=> ("subfilter" \in L /\ Holder(L, t) # "subfilter")

\* The header the client has got, or will.
HeaderOf(x) == IF x.status = "none" THEN x.header ELSE x.sent

\* The header h tells the codings of the body b, unless a layer of L, of which
\* those in m have to do with the content, works on what a backend has coded.
Recoding(L, m, w) ==
  /\ \E k \in DOMAIN w.own : w.own[k] # <<>>
  /\ Len(w.own) > 1 \/ "subfilter" \in L \/ m # {}

Coded(L, m, w, b, h) ==
  Recoding(L, m, w) \/ \A k \in DOMAIN w.own : w.own[k] \o b.codings = h.coding

\* If it has a length, that is what the handler has written and has left, and in
\* the end that of the body, unless two answers are merged.
Merging(L, w, h) == Len(w.heads) > 1 /\ "subfilter" \notin L /\ h.length # <<>>

Declared(w, length) ==
  IF w.left = Any THEN length = <<>> ELSE length = << <<w.pieces + w.left, FALSE>> >>

Sized(t, w, b, length) ==
  IF t = "handler" THEN Len(w.heads) <= 1 => Declared(w, length)
  ELSE length \in {<<>>, <<Size(b)>>}

Kept(L, m, t, w, x) ==
  LET b == x.buf[Holder(L, t)]
  IN  /\ x.body = Empty /\ ~x.cut
      /\ Whole(L, t, w, b) /\ b.codings = <<>> /\ Coded(L, m, w, b, x.header)
      /\ Holder(L, t) = "subfilter" => x.buf["brotli"] = Empty
      /\ Holder(L, t) = "brotli" =>
           Merging(L, w, x.header) \/ Sized(t, w, b, x.header.length)

Got(L, m, t, w, x) ==
  /\ Coded(L, m, w, x.body, HeaderOf(x))
  /\ t = "handler" => x.body.codings = <<>>
  /\ \/ Merging(L, w, HeaderOf(x))
     \/ ~x.cut /\ Whole(L, t, w, x.body) /\ Sized(t, w, x.body, HeaderOf(x).length)

Filled(L, m, t, w, x) ==
  IF Holder(L, t) # "client" THEN Kept(L, m, t, w, x) ELSE Got(L, m, t, w, x)

Right(L, m, t, w, x) ==
  /\ Turn(L, t, w, x)
  /\ w.refused => Refused(t, w, x)
  /\ ~w.refused => Told(L, t, w, x)
  /\ ~w.refused /\ "gzip" \notin L => Filled(L, m, t, w, x)

\* A handler that has returned has had its layers take their turn, and net/http
\* has sent a status.
Through(r) ==
  at[r] \in {"done", "inactive", "over"} /\ r \notin lost =>
    step[r] = "end" /\ resp[r].status # "none"

ChainInv ==
  /\ TrackerInv /\ ChainTypeOK
  /\ \A r \in Chained : Right(layers[r], matches[r], step[r], said[r], resp[r]) /\ Through(r)

-----------------------------------------------------------------------------
\* No request has come: all sets are empty.
LEMMA TrackerStarts == TrackerInit => TrackerInv
<1> SUFFICES ASSUME TrackerInit PROVE TrackerInv
  OBVIOUS
<1>1. Begun = {} /\ Acting = {} /\ Answering = {}
  BY DEF TrackerInit, Begun, Acting, Answering
<1>2. IsFiniteSet({}) /\ Cardinality({}) = 0
  BY FS_EmptySet
<1>3. TrackerTypeOK
  BY DEF TrackerInit, TrackerTypeOK, Blank
<1>4. Counted
  BY <1>1, <1>2 DEF TrackerInit, Counted
<1>5. Loaded
  BY <1>2 DEF TrackerInit, Loaded, ActiveWereCounted, WaitingIsNoise
<1> QED BY <1>3, <1>4, <1>5 DEF TrackerInv

\* The counters never exceed the requests that have come, and are never negative.
LEMMA Sizes ==
  ASSUME TrackerInv
  PROVE  /\ IsFiniteSet(Begun) /\ IsFiniteSet(Acting) /\ IsFiniteSet(Answering)
         /\ Acting \subseteq Begun /\ Answering \subseteq Begun /\ Begun \subseteq Requests
         /\ Active \in Nat /\ Writing \in Nat /\ Started \in Nat
         /\ Active <= Started /\ Writing <= Started
<1>1. TrackerTypeOK /\ Counted
  BY DEF TrackerInv
<1>2. Acting \subseteq Begun /\ Answering \subseteq Begun /\ Begun \subseteq Requests
  BY <1>1 DEF TrackerTypeOK, Counted, Begun, Acting, Answering
<1>3. /\ IsFiniteSet(Acting) /\ Cardinality(Acting) <= Cardinality(Begun)
      /\ IsFiniteSet(Answering) /\ Cardinality(Answering) <= Cardinality(Begun)
  BY <1>1, <1>2, FS_Subset DEF Counted
<1>4. Cardinality(Begun) \in Nat /\ Cardinality(Acting) \in Nat /\ Cardinality(Answering) \in Nat
  BY <1>1, <1>3, FS_CardinalityType DEF Counted
<1> QED BY <1>1, <1>2, <1>3, <1>4 DEF Counted

\* One request moves: it enters or leaves one of the three sets, or none.
LEMMA MoveCounts ==
  ASSUME TrackerInv, NEW r \in Requests,
         \/ Track(r) \/ Leave(r) \/ Unwind(r)
  PROVE  TrackerTypeOK' /\ Counted' /\ Started <= Started'
<1>1. TrackerTypeOK /\ Counted
  BY DEF TrackerInv
<1>2. /\ IsFiniteSet(Begun) /\ IsFiniteSet(Acting) /\ IsFiniteSet(Answering)
      /\ Active \in Nat /\ Writing \in Nat /\ Started \in Nat
  BY Sizes
<1>3. /\ Cardinality(Begun) \in Nat /\ Cardinality(Acting) \in Nat /\ Cardinality(Answering) \in Nat
      /\ Started = Cardinality(Begun) /\ Active = Cardinality(Acting)
      /\ Writing = Cardinality(Answering)
  BY <1>1, <1>2, FS_CardinalityType DEF Counted
<1>4. \A q \in lost : at[q] = "over" /\ q \in Requests
  BY <1>1 DEF TrackerTypeOK, Counted
<1>5. ASSUME NEW to \in {"out", "started", "active", "in", "done", "inactive", "over"},
             at' = [at EXCEPT ![r] = to],
             page' = page, shown' = shown,
             lost' = lost \/ (lost' = lost \cup {r} /\ to = "over"),
             moving' \in {moving, moving \cup {r}},
             at[r] # "over",
             Started' = Cardinality(Begun'), Active' = Cardinality(Acting'),
             Writing' = Cardinality(Answering'),
             IsFiniteSet(Begun'), IsFiniteSet(Acting'), IsFiniteSet(Answering')
      PROVE  TrackerTypeOK' /\ Counted'
  <2>1. Active' \in Nat /\ Started' \in Nat /\ Writing' \in Nat
    BY <1>5, FS_CardinalityType
  <2>2. TrackerTypeOK'
    BY <1>1, <1>5, <2>1 DEF TrackerTypeOK
  <2>3. \A q \in lost' : at'[q] = "over"
    BY <1>1, <1>4, <1>5 DEF TrackerTypeOK
  <2> QED BY <1>5, <2>2, <2>3 DEF Counted
<1>6. CASE StartRequests(r)
  <2>1. /\ at[r] = "out" /\ at' = [at EXCEPT ![r] = "started"] /\ Started' = Started + 1
        /\ UNCHANGED <<Active, Writing, page, shown, lost>> /\ moving' = moving \cup {r}
    BY <1>6 DEF StartRequests, Move
  <2>2. Begun' = Begun \cup {r} /\ r \notin Begun /\ Acting' = Acting /\ Answering' = Answering
    BY <1>1, <1>4, <2>1 DEF TrackerTypeOK, Begun, Acting, Answering
  <2>3. IsFiniteSet(Begun') /\ Cardinality(Begun') = Cardinality(Begun) + 1
    BY <1>2, <2>2, FS_AddElement
  <2>4. Started' = Cardinality(Begun') /\ Active' = Cardinality(Acting')
        /\ Writing' = Cardinality(Answering') /\ Started <= Started'
    BY <1>2, <1>3, <2>1, <2>2, <2>3
  <2> QED BY <1>2, <1>5, <2>1, <2>2, <2>3, <2>4
<1>7. CASE StartActive(r)
  <2>1. /\ at[r] = "started" /\ at' = [at EXCEPT ![r] = "active"] /\ Active' = Active + 1
        /\ UNCHANGED <<Started, Writing, page, shown, lost>> /\ moving' = moving \cup {r}
    BY <1>7 DEF StartActive, Move
  <2>2. Acting' = Acting \cup {r} /\ r \notin Acting /\ Begun' = Begun /\ Answering' = Answering
    BY <1>1, <1>4, <2>1 DEF TrackerTypeOK, Begun, Acting, Answering
  <2>3. IsFiniteSet(Acting') /\ Cardinality(Acting') = Cardinality(Acting) + 1
    BY <1>2, <2>2, FS_AddElement
  <2>4. Started' = Cardinality(Begun') /\ Active' = Cardinality(Acting')
        /\ Writing' = Cardinality(Answering') /\ Started <= Started'
    BY <1>2, <1>3, <2>1, <2>2, <2>3
  <2> QED BY <1>2, <1>5, <2>1, <2>2, <2>3, <2>4
<1>8. CASE StartWriting(r)
  <2>1. /\ at[r] = "active" /\ at' = [at EXCEPT ![r] = "in"] /\ Writing' = Writing + 1
        /\ UNCHANGED <<Started, Active, page, shown, lost>> /\ moving' = moving \cup {r}
    BY <1>8 DEF StartWriting, Move
  <2>2. Answering' = Answering \cup {r} /\ r \notin Answering /\ Begun' = Begun /\ Acting' = Acting
    BY <1>1, <1>4, <2>1 DEF TrackerTypeOK, Begun, Acting, Answering
  <2>3. IsFiniteSet(Answering') /\ Cardinality(Answering') = Cardinality(Answering) + 1
    BY <1>2, <2>2, FS_AddElement
  <2>4. Started' = Cardinality(Begun') /\ Active' = Cardinality(Acting')
        /\ Writing' = Cardinality(Answering') /\ Started <= Started'
    BY <1>2, <1>3, <2>1, <2>2, <2>3
  <2> QED BY <1>2, <1>5, <2>1, <2>2, <2>3, <2>4
<1>9. CASE DoneActive(r)
  <2>1. /\ at[r] = "done" /\ at' = [at EXCEPT ![r] = "inactive"] /\ Active' = Active - 1
        /\ UNCHANGED <<Started, Writing, page, shown, lost>> /\ moving' = moving \cup {r}
    BY <1>9 DEF DoneActive, Move
  <2>2. Acting' = Acting \ {r} /\ r \in Acting /\ Begun' = Begun /\ Answering' = Answering
    BY <1>1, <1>4, <2>1 DEF TrackerTypeOK, Begun, Acting, Answering
  <2>3. IsFiniteSet(Acting') /\ Cardinality(Acting') = Cardinality(Acting) - 1
    BY <1>2, <2>2, FS_RemoveElement
  <2>4. Started' = Cardinality(Begun') /\ Active' = Cardinality(Acting')
        /\ Writing' = Cardinality(Answering') /\ Started <= Started'
    BY <1>2, <1>3, <2>1, <2>2, <2>3
  <2> QED BY <1>2, <1>5, <2>1, <2>2, <2>3, <2>4
<1>10. CASE DoneWriting(r)
  <2>1. /\ at[r] = "inactive" /\ at' = [at EXCEPT ![r] = "over"] /\ Writing' = Writing - 1
        /\ UNCHANGED <<Started, Active, page, shown, lost>> /\ moving' = moving \cup {r}
    BY <1>10 DEF DoneWriting, Move
  <2>2. Answering' = Answering \ {r} /\ r \in Answering /\ Begun' = Begun /\ Acting' = Acting
    BY <1>1, <1>4, <2>1 DEF TrackerTypeOK, Begun, Acting, Answering
  <2>3. IsFiniteSet(Answering') /\ Cardinality(Answering') = Cardinality(Answering) - 1
    BY <1>2, <2>2, FS_RemoveElement
  <2>4. Started' = Cardinality(Begun') /\ Active' = Cardinality(Acting')
        /\ Writing' = Cardinality(Answering') /\ Started <= Started'
    BY <1>2, <1>3, <2>1, <2>2, <2>3
  <2> QED BY <1>2, <1>5, <2>1, <2>2, <2>3, <2>4
<1>11. CASE Leave(r) \/ Unwind(r)
  <2>1. PICK to \in {"done", "over"} :
          /\ at[r] = "in" /\ at' = [at EXCEPT ![r] = to]
          /\ lost' = IF to = "over" THEN lost \cup {r} ELSE lost
    BY <1>11 DEF Leave, Unwind
  <2>2. UNCHANGED <<Started, Active, Writing, page, shown, moving>>
    BY <1>11 DEF Leave, Unwind, counters
  <2>3. Begun' = Begun /\ Acting' = Acting /\ Answering' = Answering
    BY <1>1, <1>4, <2>1 DEF TrackerTypeOK, Begun, Acting, Answering
  <2>4. Started' = Cardinality(Begun') /\ Active' = Cardinality(Acting')
        /\ Writing' = Cardinality(Answering') /\ Started <= Started'
    BY <1>2, <1>3, <2>2, <2>3
  <2> QED BY <1>2, <1>5, <2>1, <2>2, <2>3, <2>4
<1> QED BY <1>6, <1>7, <1>8, <1>9, <1>10, <1>11 DEF Track

\* What a request that moves changes of the answering ones is among the moving.
LEMMA MoveNotes ==
  ASSUME TrackerInv, NEW r \in Requests,
         \/ Track(r) \/ Leave(r) \/ Unwind(r)
  PROVE  /\ page' = page /\ shown' = shown /\ moving \subseteq moving' /\ moving' \subseteq moving \cup {r}
         /\ Answering' \ Answering \subseteq moving' /\ Answering \ Answering' \subseteq moving'
<1>1. at \in [Requests -> {"out", "started", "active", "in", "done", "inactive", "over"}]
  BY DEF TrackerInv, TrackerTypeOK
<1>2. CASE Track(r)
  <2>1. /\ page' = page /\ shown' = shown /\ lost' = lost /\ moving' = moving \cup {r}
        /\ \E to : at' = [at EXCEPT ![r] = to]
    BY <1>2 DEF Track, Move, StartRequests, StartActive, StartWriting, DoneActive, DoneWriting
  <2> QED BY <1>1, <2>1 DEF Answering
<1>3. CASE Leave(r)
  BY <1>1, <1>3 DEF Leave, Answering
<1>4. CASE Unwind(r)
  BY <1>1, <1>4 DEF Unwind, Answering
<1> QED BY <1>2, <1>3, <1>4

\* Every addition of ReqStart and ReqDone keeps the counters and the page right.
LEMMA MoveKeeps ==
  ASSUME TrackerInv, NEW r \in Requests,
         \/ Track(r) \/ Leave(r) \/ Unwind(r)
  PROVE  TrackerInv'
<1>1. TrackerTypeOK' /\ Counted' /\ Started <= Started'
  BY MoveCounts
<1>2. /\ page' = page /\ shown' = shown
      /\ moving \subseteq moving' /\ moving' \subseteq moving \cup {r}
      /\ Answering' \ Answering \subseteq moving' /\ Answering \ Answering' \subseteq moving'
  BY MoveNotes
<1>3. TrackerTypeOK /\ Loaded
  BY DEF TrackerInv
<1>4. /\ IsFiniteSet(moving') /\ Cardinality(moving) \in Nat /\ Cardinality(moving') \in Nat
      /\ Cardinality(moving) <= Cardinality(moving')
  <2>1. IsFiniteSet(moving \cup {r})
    BY <1>3, FS_AddElement DEF Loaded
  <2>2. IsFiniteSet(moving')
    BY <1>2, <2>1, FS_Subset
  <2> QED BY <1>2, <1>3, <2>2, FS_Subset, FS_CardinalityType DEF Loaded
<1>5. page' = "requests" => shown'.active <= Started'
  BY <1>1, <1>2, <1>3 DEF Loaded, TrackerTypeOK
<1>6. ActiveWereCounted'
  BY <1>2, <1>3 DEF Loaded, ActiveWereCounted
<1>7. ASSUME page' \in {"requests", "writing"}
      PROVE  \E S \in SUBSET Requests : Near(S)' /\ shown'.active = Cardinality(S)
  <2>1. PICK S \in SUBSET Requests : Near(S) /\ shown.active = Cardinality(S)
    BY <1>2, <1>3, <1>7 DEF Loaded
  <2>2. Near(S)'
    BY <1>2, <2>1 DEF Near
  <2> QED BY <1>2, <2>1, <2>2
<1>8. WaitingIsNoise'
  <2> SUFFICES ASSUME page' = "show" PROVE shown'.waiting \in (-Cardinality(moving')) .. Cardinality(moving')
    BY DEF WaitingIsNoise
  <2>1. shown.waiting \in (-Cardinality(moving)) .. Cardinality(moving)
    BY <1>2, <1>3 DEF Loaded, WaitingIsNoise
  <2> QED BY <1>2, <1>4, <2>1
<1>9. Loaded'
  BY <1>4, <1>5, <1>6, <1>7, <1>8 DEF Loaded
<1> QED BY <1>1, <1>9 DEF TrackerInv

\* Two sets that differ in the elements of M only differ in size by no more.
LEMMA Differ ==
  ASSUME NEW S, NEW T, NEW M, IsFiniteSet(S), IsFiniteSet(T), IsFiniteSet(M),
         S \ T \subseteq M
  PROVE  Cardinality(S) <= Cardinality(T) + Cardinality(M)
<1>1. IsFiniteSet(T \cup M) /\ Cardinality(T \cup M) = Cardinality(T) + Cardinality(M) - Cardinality(T \cap M)
  BY FS_Union
<1>2. S \subseteq T \cup M
  OBVIOUS
<1>3. Cardinality(S) <= Cardinality(T \cup M)
  BY <1>1, <1>2, FS_Subset
<1>4. IsFiniteSet(T \cap M)
  BY FS_Intersection
<1>5. /\ Cardinality(S) \in Nat /\ Cardinality(T) \in Nat /\ Cardinality(M) \in Nat
      /\ Cardinality(T \cap M) \in Nat
  BY <1>4, FS_CardinalityType
<1> QED BY <1>1, <1>3, <1>5

\* So does every load of the page, and the page itself.
LEMMA PageKeeps ==
  ASSUME TrackerInv, Page
  PROVE  TrackerInv'
<1>1. TrackerTypeOK /\ Counted /\ Loaded /\ UNCHANGED <<counters, at, lost>>
  BY DEF TrackerInv, Page, LoadActive, LoadRequests, LoadWriting, Show
<1>2. /\ IsFiniteSet(Begun) /\ IsFiniteSet(Acting) /\ IsFiniteSet(Answering)
      /\ Acting \subseteq Begun /\ Begun \subseteq Requests
      /\ Active \in Nat /\ Writing \in Nat /\ Started \in Nat /\ Active <= Started
  BY Sizes
<1>3. Begun' = Begun /\ Acting' = Acting /\ Answering' = Answering
  BY <1>1 DEF Begun, Acting, Answering
<1>4. Counted'
  BY <1>1, <1>3 DEF Counted, counters
<1>5. shown \in [active : Nat, requests : Nat, waiting : Int]
  BY <1>1 DEF TrackerTypeOK
<1>6. CASE LoadActive
  <2>1. page' = "requests" /\ shown' = [active |-> Active, requests |-> 0, waiting |-> 0] /\ moving' = Midway
    BY <1>6 DEF LoadActive, Blank
  <2>2. Midway \subseteq Begun
    BY DEF Midway, Begun
  <2>3. IsFiniteSet(Midway)
    BY <1>2, <2>2, FS_Subset
  <2>4. Acting \ Answering \subseteq Midway /\ Answering \ Acting \subseteq Midway
    BY <1>1 DEF Counted, Acting, Answering, Midway
  <2>5. Near(Acting)' /\ Acting \in SUBSET Requests /\ shown'.active = Cardinality(Acting)
    BY <1>1, <1>2, <1>3, <2>1, <2>4 DEF Near, Counted
  <2>6. TrackerTypeOK'
    BY <1>1, <1>2, <2>1, <2>2 DEF TrackerTypeOK, counters
  <2>7. \E S \in SUBSET Requests : Near(S)' /\ shown'.active = Cardinality(S)
    BY <1>3, <2>5 DEF Near
  <2>8. Loaded'
    BY <1>1, <1>2, <2>1, <2>3, <2>7 DEF Loaded, ActiveWereCounted, WaitingIsNoise, counters
  <2> QED BY <1>4, <2>6, <2>8 DEF TrackerInv
<1>7. CASE LoadRequests
  <2>1. /\ page = "requests" /\ page' = "writing" /\ moving' = moving
        /\ shown' = [shown EXCEPT !.requests = Started]
    BY <1>7 DEF LoadRequests
  <2>2. shown'.active = shown.active /\ shown'.requests = Started /\ shown.active <= Started
    BY <1>1, <1>5, <2>1 DEF Loaded
  <2>3. TrackerTypeOK'
    BY <1>1, <1>2, <1>5, <2>1 DEF TrackerTypeOK, counters
  <2>4. \E S \in SUBSET Requests : Near(S)' /\ shown'.active = Cardinality(S)
    <3>1. PICK S \in SUBSET Requests : Near(S) /\ shown.active = Cardinality(S)
      BY <1>1, <2>1 DEF Loaded
    <3>2. Near(S)'
      BY <1>3, <2>1, <3>1 DEF Near
    <3> QED BY <2>2, <3>1, <3>2
  <2>5. Loaded'
    BY <1>1, <2>1, <2>2, <2>4 DEF Loaded, ActiveWereCounted, WaitingIsNoise
  <2> QED BY <1>4, <2>3, <2>5 DEF TrackerInv
<1>8. CASE LoadWriting
  <2>1. /\ page = "writing" /\ page' = "show" /\ moving' = moving
        /\ shown' = [shown EXCEPT !.waiting = shown.active - Writing]
    BY <1>8 DEF LoadWriting
  <2>2. /\ shown'.active = shown.active /\ shown'.requests = shown.requests
        /\ shown'.waiting = shown.active - Writing
    BY <1>5, <2>1
  <2>3. TrackerTypeOK'
    BY <1>1, <1>2, <1>5, <2>1 DEF TrackerTypeOK, counters
  <2>4. PICK S \in SUBSET Requests : Near(S) /\ shown.active = Cardinality(S)
    BY <1>1, <2>1 DEF Loaded
  <2>5. /\ Cardinality(S) <= Cardinality(Answering) + Cardinality(moving)
        /\ Cardinality(Answering) <= Cardinality(S) + Cardinality(moving)
    BY <1>1, <1>2, <2>4, Differ DEF Near, Loaded
  <2>6. Cardinality(moving) \in Nat /\ Cardinality(S) \in Nat /\ Writing = Cardinality(Answering)
    BY <1>1, <2>4, FS_CardinalityType DEF Near, Loaded, Counted
  <2>7. shown'.waiting \in (-Cardinality(moving)) .. Cardinality(moving)
    BY <1>2, <2>2, <2>4, <2>5, <2>6
  <2>8. WaitingIsNoise'
    BY <2>1, <2>7 DEF WaitingIsNoise
  <2>9. ActiveWereCounted'
    BY <1>1, <2>1, <2>2 DEF Loaded, ActiveWereCounted
  <2>10. Loaded'
    BY <1>1, <2>1, <2>8, <2>9 DEF Loaded
  <2> QED BY <1>4, <2>3, <2>10 DEF TrackerInv
<1>9. CASE Show
  <2>1. page' = "active" /\ shown' = Blank /\ moving' = {}
    BY <1>9 DEF Show
  <2>2. TrackerTypeOK'
    BY <1>1, <2>1 DEF TrackerTypeOK, counters, Blank
  <2>3. Loaded'
    BY <2>1, FS_EmptySet DEF Loaded, ActiveWereCounted, WaitingIsNoise
  <2> QED BY <1>4, <2>2, <2>3 DEF TrackerInv
<1> QED BY <1>6, <1>7, <1>8, <1>9 DEF Page

\* A step that leaves the tracker alone keeps its invariant.
LEMMA TrackerRests ==
  ASSUME TrackerInv, UNCHANGED trackerVars
  PROVE  TrackerInv'
<1>1. UNCHANGED <<Active, Started, Writing, at, page, shown, lost, moving>>
  BY DEF trackerVars, counters
<1>2. Begun' = Begun /\ Acting' = Acting /\ Answering' = Answering
  BY <1>1 DEF Begun, Acting, Answering
<1>3. TrackerTypeOK' /\ Counted'
  BY <1>1, <1>2 DEF TrackerInv, TrackerTypeOK, Counted
<1>4. ASSUME page' \in {"requests", "writing"}
      PROVE  \E S \in SUBSET Requests : Near(S)' /\ shown'.active = Cardinality(S)
  <2>1. PICK S \in SUBSET Requests : Near(S) /\ shown.active = Cardinality(S)
    BY <1>1, <1>4 DEF TrackerInv, Loaded
  <2>2. Near(S)'
    BY <1>1, <1>2, <2>1 DEF Near
  <2> QED BY <1>1, <2>1, <2>2
<1>5. Loaded'
  BY <1>1, <1>4 DEF TrackerInv, Loaded, ActiveWereCounted, WaitingIsNoise
<1> QED BY <1>3, <1>5 DEF TrackerInv

\* Whatever the layers do, a step of the chain is one of these to the tracker.
LEMMA TrackerStep == TrackerInv /\ [ChainNext]_chainVars => TrackerInv'
<1> SUFFICES ASSUME TrackerInv, [ChainNext]_chainVars PROVE TrackerInv'
  OBVIOUS
<1>1. Chained \subseteq Requests
  BY DEF Chained
<1>2. CASE \E r \in Chained : Handle(r) \/ Unwinding(r)
  <2>1. PICK r \in Chained : Handle(r) \/ Unwinding(r)
    BY <1>2
  <2>2. CASE Panic(r) \/ Back(r)
    BY <1>1, <2>2, MoveKeeps DEF Panic, Back
  <2>3. CASE Handle(r) /\ ~Panic(r)
    <3>1. UNCHANGED trackerVars
      BY <2>3 DEF Handle, Refuse, Inform, Piece, FailAgain, Return, AnswerAgain, Answer,
                    Answers, Says
    <3> QED BY <3>1, TrackerRests
  <2>4. CASE SubFilter(r) \/ Gzip(r) \/ Brotli(r)
    <3>1. UNCHANGED trackerVars
      BY <2>4 DEF SubFilter, Gzip, Brotli, Finish
    <3> QED BY <3>1, TrackerRests
  <2> QED BY <2>1, <2>2, <2>3, <2>4 DEF Unwinding
<1>3. CASE Tracking
  BY <1>3, OthersAssumption, MoveKeeps, PageKeeps DEF Tracking
<1>4. CASE UNCHANGED chainVars
  BY <1>4, TrackerRests DEF chainVars
<1> QED BY <1>2, <1>3, <1>4 DEF ChainNext

\* What the tracker promises: its counters are the sizes of the three sets, and
\* the page is as far off as the requests that move.
THEOREM TrackerInvariant == ChainSpec => []TrackerInv
<1>1. ChainInit => TrackerInv
  BY TrackerStarts DEF ChainInit
<1> QED BY <1>1, TrackerStep, PTL DEF ChainSpec

\* At rest Active and Writing are the requests under way and those that
\* panicked, whatever the interleaving (status.go:39-48, access.go:134-143).
THEOREM DriftExplained == ChainSpec => []DriftIsPanics
<1>1. TrackerInv => DriftIsPanics
  <2> SUFFICES ASSUME TrackerInv, Midway = {}
               PROVE  LET n == Cardinality({r \in Requests : at[r] \in {"in", "done"}} \cup lost)
                      IN  Active = n /\ Writing = n
    BY DEF DriftIsPanics
  <2>1. \A r \in Requests : at[r] \notin {"active", "inactive"}
    BY DEF Midway
  <2>2. /\ Acting = {r \in Requests : at[r] \in {"in", "done"}} \cup lost
        /\ Answering = {r \in Requests : at[r] \in {"in", "done"}} \cup lost
    BY <2>1 DEF Acting, Answering
  <2> QED BY <2>2 DEF TrackerInv, Counted
<1> QED BY <1>1, TrackerInvariant, PTL

\* The page never shows more active requests than requests (status.go:39-42, 72-73).
THEOREM PageInOrder == ChainSpec => []ActiveWereCounted
<1>1. TrackerInv => ActiveWereCounted
  BY DEF TrackerInv, Loaded
<1> QED BY <1>1, TrackerInvariant, PTL

\* The page's waiting count errs by no more than the requests that moved while
\* it was put together (status.go:72-75).
THEOREM NoiseBounded == ChainSpec => []WaitingIsNoise
<1>1. TrackerInv => WaitingIsNoise
  BY DEF TrackerInv, Loaded
<1> QED BY <1>1, TrackerInvariant, PTL
-----------------------------------------------------------------------------
\* The layers, from outside in, and the next one that takes a call.
LEMMA Ranks ==
  /\ DOMAIN Rank = {"headers", "brotli", "gzip", "subfilter", "handler"}
  /\ Rank["headers"] = 1 /\ Rank["brotli"] = 2 /\ Rank["gzip"] = 3
  /\ Rank["subfilter"] = 4 /\ Rank["handler"] = 5
  /\ Layers = {"headers", "brotli", "gzip", "subfilter"}
<1>1. /\ DOMAIN Rank = {"headers", "brotli", "gzip", "subfilter", "handler"}
      /\ Rank["headers"] = 1 /\ Rank["brotli"] = 2 /\ Rank["gzip"] = 3
      /\ Rank["subfilter"] = 4 /\ Rank["handler"] = 5
  BY DEF Rank
<1> QED BY <1>1 DEF Layers

\* The layer of S around l with the highest rank takes the call;
LEMMA NextTaker ==
  ASSUME NEW L, NEW S, NEW l \in DOMAIN Rank, S \subseteq Layers, NEW k \in L \cap S,
         Rank[k] < Rank[l],
         \A j \in L \cap S : Rank[j] < Rank[l] => Rank[j] <= Rank[k]
  PROVE  Taker(L, l, S) = k
<1> DEFINE around == {j \in L \cap S : Rank[j] < Rank[l]}
<1>1. k \in around /\ \A j \in around : Rank[j] <= Rank[k]
  OBVIOUS
<1>2. around # {}
  BY <1>1
<1>3. ASSUME NEW i \in around, \A j \in around : Rank[j] <= Rank[i] PROVE i = k
  <2>1. i \in Layers /\ k \in Layers /\ Rank[i] <= Rank[k] /\ Rank[k] <= Rank[i]
    BY <1>1, <1>3
  <2> HIDE DEF around
  <2> QED BY <2>1, Ranks
<1>4. (CHOOSE i \in around : \A j \in around : Rank[j] <= Rank[i]) = k
  <2> HIDE DEF around
  <2> QED BY <1>1, <1>3
<1> QED BY <1>2, <1>4 DEF Taker

\* if there is none around l, the client does.
LEMMA NoTaker ==
  ASSUME NEW L, NEW S, NEW l, \A j \in L \cap S : ~(Rank[j] < Rank[l])
  PROVE  Taker(L, l, S) = "client"
BY DEF Taker

\* The layers that take a status,
LEMMA StatusTakers ==
  ASSUME NEW L
  PROVE  LET T(l) == Taker(L, l, {"brotli", "subfilter"})
         IN  /\ T("handler") = IF "subfilter" \in L THEN "subfilter"
                               ELSE IF "brotli" \in L THEN "brotli" ELSE "client"
             /\ T("subfilter") = IF "brotli" \in L THEN "brotli" ELSE "client"
             /\ T("brotli") = "client"
<1> DEFINE S == {"brotli", "subfilter"}
<1>1. S \subseteq Layers /\ {"handler", "subfilter", "brotli"} \subseteq DOMAIN Rank
  BY Ranks
<1>2. /\ Rank["brotli"] = 2 /\ Rank["subfilter"] = 4 /\ Rank["handler"] = 5
  BY Ranks
<1>3. ASSUME "subfilter" \in L PROVE Taker(L, "handler", S) = "subfilter"
  BY <1>1, <1>2, <1>3, NextTaker
<1>4. ASSUME "subfilter" \notin L, "brotli" \in L PROVE Taker(L, "handler", S) = "brotli"
  BY <1>1, <1>2, <1>4, NextTaker
<1>5. ASSUME "subfilter" \notin L, "brotli" \notin L PROVE Taker(L, "handler", S) = "client"
  BY <1>5, NoTaker
<1>6. ASSUME "brotli" \in L PROVE Taker(L, "subfilter", S) = "brotli"
  BY <1>1, <1>2, <1>6, NextTaker
<1>7. ASSUME "brotli" \notin L PROVE Taker(L, "subfilter", S) = "client"
  BY <1>2, <1>7, NoTaker
<1>8. Taker(L, "brotli", S) = "client"
  BY <1>2, NoTaker
<1> QED BY <1>3, <1>4, <1>5, <1>6, <1>7, <1>8

\* and those that take a part of the body, or their turn.
LEMMA BodyTakers ==
  ASSUME NEW L
  PROVE  LET T(l) == Taker(L, l, {"brotli", "gzip", "subfilter"})
         IN  /\ T("handler") = IF "subfilter" \in L THEN "subfilter"
                               ELSE IF "gzip" \in L THEN "gzip"
                               ELSE IF "brotli" \in L THEN "brotli" ELSE "client"
             /\ T("subfilter") = IF "gzip" \in L THEN "gzip"
                                 ELSE IF "brotli" \in L THEN "brotli" ELSE "client"
             /\ T("gzip") = IF "brotli" \in L THEN "brotli" ELSE "client"
             /\ T("brotli") = "client"
<1> DEFINE S == {"brotli", "gzip", "subfilter"}
<1>1. S \subseteq Layers /\ {"handler", "subfilter", "gzip", "brotli"} \subseteq DOMAIN Rank
  BY Ranks
<1>2. Rank["brotli"] = 2 /\ Rank["gzip"] = 3 /\ Rank["subfilter"] = 4 /\ Rank["handler"] = 5
  BY Ranks
<1>3. ASSUME "subfilter" \in L PROVE Taker(L, "handler", S) = "subfilter"
  BY <1>1, <1>2, <1>3, NextTaker
<1>4. ASSUME "subfilter" \notin L, "gzip" \in L PROVE Taker(L, "handler", S) = "gzip"
  BY <1>1, <1>2, <1>4, NextTaker
<1>5. ASSUME "subfilter" \notin L, "gzip" \notin L, "brotli" \in L
      PROVE  Taker(L, "handler", S) = "brotli"
  BY <1>1, <1>2, <1>5, NextTaker
<1>6. ASSUME "subfilter" \notin L, "gzip" \notin L, "brotli" \notin L
      PROVE  Taker(L, "handler", S) = "client"
  BY <1>6, NoTaker
<1>7. ASSUME "gzip" \in L PROVE Taker(L, "subfilter", S) = "gzip"
  BY <1>1, <1>2, <1>7, NextTaker
<1>8. ASSUME "gzip" \notin L, "brotli" \in L PROVE Taker(L, "subfilter", S) = "brotli"
  BY <1>1, <1>2, <1>8, NextTaker
<1>9. ASSUME "gzip" \notin L, "brotli" \notin L PROVE Taker(L, "subfilter", S) = "client"
  BY <1>2, <1>9, NoTaker
<1>10. ASSUME "brotli" \in L PROVE Taker(L, "gzip", S) = "brotli"
  BY <1>1, <1>2, <1>10, NextTaker
<1>11. ASSUME "brotli" \notin L PROVE Taker(L, "gzip", S) = "client"
  BY <1>2, <1>11, NoTaker
<1>12. Taker(L, "brotli", S) = "client"
  BY <1>2, NoTaker
<1> QED BY <1>3, <1>4, <1>5, <1>6, <1>7, <1>8, <1>9, <1>10, <1>11, <1>12

\* The layers take their turn from the inside out.
LEMMA Outwards ==
  ASSUME NEW L
  PROVE  /\ Outward(L, "handler") = IF "subfilter" \in L THEN "subfilter"
                                    ELSE IF "gzip" \in L THEN "gzip"
                                    ELSE IF "brotli" \in L THEN "brotli" ELSE "end"
         /\ Outward(L, "subfilter") = IF "gzip" \in L THEN "gzip"
                                      ELSE IF "brotli" \in L THEN "brotli" ELSE "end"
         /\ Outward(L, "gzip") = IF "brotli" \in L THEN "brotli" ELSE "end"
         /\ Outward(L, "brotli") = "end"
<1>1. Layers \ {"headers"} = {"brotli", "gzip", "subfilter"}
  BY Ranks
<1> QED BY <1>1, BodyTakers DEF Outward
-----------------------------------------------------------------------------
\* What a call makes of x, the state of the writers: y.
Logged(x, s, y) ==
  /\ y \in Response /\ y.logged = s
  /\ y.header = x.header /\ y.buf = x.buf /\ y.code = x.code
  /\ (y.fixed <=> x.fixed) /\ y.body = x.body /\ y.cut = x.cut
  /\ IF s = "info" \/ x.status # "none" THEN y.status = x.status /\ y.sent = x.sent
     ELSE y.status = s /\ y.sent = x.header

Committed(x, y) ==
  /\ y \in Response
  /\ y.header = x.header /\ y.buf = x.buf /\ y.code = x.code /\ y.logged = x.logged
  /\ (y.fixed <=> x.fixed) /\ y.body = x.body /\ y.cut = x.cut
  /\ y.sent = HeaderOf(x)
  /\ y.status = IF x.status = "none" THEN "ok" ELSE x.status

HeadSent(L, x, s, y) ==
  /\ y \in Response
  /\ y.header = x.header /\ y.buf = x.buf /\ y.code = x.code
  /\ y.body = x.body /\ y.cut = x.cut
  /\ "headers" \in L /\ x.fixed => y = x
  /\ ~("headers" \in L /\ x.fixed) =>
       /\ y.logged = s
       /\ y.fixed <=> "headers" \in L \/ x.fixed
       /\ IF s = "info" \/ x.status # "none" THEN y.status = x.status /\ y.sent = x.sent
          ELSE y.status = s /\ y.sent = x.header

BodySent(L, x, b, y) ==
  /\ y \in Response
  /\ y.header = x.header /\ y.buf = x.buf /\ y.code = x.code
  /\ y.status # "none" /\ y.sent = HeaderOf(x)
  /\ IF Within(Join(x.body, b), HeaderOf(x).length) THEN y.body = Join(x.body, b) /\ y.cut = x.cut
     ELSE y.body = x.body
  /\ x.status # "none" /\ ("headers" \in L => x.fixed) =>
       y.status = x.status /\ y.logged = x.logged /\ (y.fixed <=> x.fixed)

StatusHeld(x, t, s, y) ==
  /\ y \in Response /\ y.code[t] = s
  /\ y.header = x.header /\ y.buf = x.buf /\ (y.fixed <=> x.fixed) /\ y.logged = x.logged
  /\ y.status = x.status /\ y.sent = x.sent /\ y.body = x.body /\ y.cut = x.cut

BodyHeld(x, t, b, y) ==
  /\ y \in Response /\ y.buf[t] = Join(x.buf[t], b)
  /\ \A l \in Layers \ {t} : y.buf[l] = x.buf[l]
  /\ y.header = x.header /\ y.code = x.code /\ (y.fixed <=> x.fixed) /\ y.logged = x.logged
  /\ y.status = x.status /\ y.sent = x.sent /\ y.body = x.body /\ y.cut = x.cut

HeaderChanged(x, h, y) ==
  /\ y \in Response /\ y.header = h
  /\ y.buf = x.buf /\ y.code = x.code /\ (y.fixed <=> x.fixed) /\ y.logged = x.logged
  /\ y.status = x.status /\ y.sent = x.sent /\ y.body = x.body /\ y.cut = x.cut

\* The log's writer notes every status and commits it.
LEMMA Logs ==
  ASSUME NEW x \in Response, NEW s \in Statuses
  PROVE  Logged(x, s, Log(x, s))
BY DEF Log, Commit, Response, Logged

\* net/http sends a status once, with the header as it is then.
LEMMA Commits ==
  ASSUME NEW x \in Response
  PROVE  Committed(x, Commit(x, "ok"))
BY DEF Commit, Response, Statuses, HeaderOf, Committed

\* headers stops every status but the first.
LEMMA Heads ==
  ASSUME NEW L, NEW x \in Response, NEW s \in Statuses
  PROVE  HeadSent(L, x, s, SendHeader(L, x, s))
<1>1. CASE "headers" \notin L
  <2>1. Logged(x, s, SendHeader(L, x, s))
    BY <1>1, Logs DEF SendHeader
  <2> QED BY <1>1, <2>1 DEF Logged, HeadSent
<1>2. CASE "headers" \in L /\ x.fixed
  <2>1. SendHeader(L, x, s) = x
    BY <1>2 DEF SendHeader
  <2> QED BY <1>2, <2>1 DEF HeadSent
<1>3. CASE "headers" \in L /\ ~x.fixed
  <2>1. PICK z : z = [x EXCEPT !.fixed = TRUE]
    OBVIOUS
  <2>2. /\ z \in Response /\ z.fixed = TRUE /\ z.header = x.header /\ z.buf = x.buf /\ z.code = x.code
        /\ z.body = x.body /\ z.cut = x.cut /\ z.status = x.status /\ z.sent = x.sent
    BY <2>1 DEF Response
  <2>3. Logged(z, s, SendHeader(L, x, s))
    BY <1>3, <2>1, <2>2, Logs DEF SendHeader
  <2> QED BY <1>3, <2>2, <2>3 DEF Logged, HeadSent
<1> QED BY <1>1, <1>2, <1>3

\* What is written comes after what was there.
LEMMA Joins ==
  ASSUME NEW b \in Body, NEW c \in Body
  PROVE  /\ Join(b, c) \in Body
         /\ Join(b, c).pieces = b.pieces \o c.pieces
         /\ Join(b, c).filtered <=> b.filtered \/ c.filtered
         /\ Join(b, c).codings = c.codings
         /\ Empty \in Body /\ Empty.pieces = <<>> /\ Empty.filtered = FALSE /\ Empty.codings = <<>>
         /\ Join(Empty, c) = c
<1>1. /\ b.pieces \in Seq(1..MaxPieces) /\ b.filtered \in BOOLEAN /\ b.codings \in Seq(Codings)
      /\ c.pieces \in Seq(1..MaxPieces) /\ c.filtered \in BOOLEAN /\ c.codings \in Seq(Codings)
      /\ c = [pieces |-> c.pieces, filtered |-> c.filtered, codings |-> c.codings]
  BY DEF Body
<1>2. b.pieces \o c.pieces \in Seq(1..MaxPieces) /\ <<>> \o c.pieces = c.pieces
  BY <1>1
<1>3. Join(b, c) = [pieces |-> b.pieces \o c.pieces, filtered |-> b.filtered \/ c.filtered,
                    codings |-> c.codings]
  BY DEF Join
<1>4. (b.filtered \/ c.filtered) \in BOOLEAN
  OBVIOUS
<1>5. Join(b, c) \in Body
  BY <1>1, <1>2, <1>3 DEF Body
<1>6. /\ Empty \in Body /\ Empty.pieces = <<>> /\ Empty.filtered = FALSE /\ Empty.codings = <<>>
  BY DEF Empty, Body
<1>7. Join(Empty, c) = c
  <2>1. Join(Empty, c) = [pieces |-> <<>> \o c.pieces, filtered |-> FALSE \/ c.filtered,
                          codings |-> c.codings]
    BY <1>6 DEF Join
  <2>2. (FALSE \/ c.filtered) = c.filtered
    BY <1>1
  <2> QED BY <1>1, <1>2, <2>1, <2>2
<1>8. PICK f \in BOOLEAN : f <=> b.filtered \/ c.filtered
  BY <1>4
<1>9. f = (b.filtered \/ c.filtered)
  BY <1>1, <1>8
<1>10. PICK p, q : p = b.pieces \o c.pieces /\ q = c.codings
  OBVIOUS
<1>11. Join(b, c) = [pieces |-> p, filtered |-> f, codings |-> q]
  BY <1>3, <1>9, <1>10
<1>12. Join(b, c).pieces = p /\ Join(b, c).filtered = f /\ Join(b, c).codings = q
  BY <1>11
<1> QED BY <1>5, <1>6, <1>7, <1>8, <1>10, <1>12

\* What fits the length that was sent goes out, and nothing of what does not.
LEMMA SendBodies ==
  ASSUME NEW L, NEW x \in Response, NEW b \in Body
  PROVE  BodySent(L, x, b, SendBody(L, x, b))
<1>1. "ok" \in Statuses /\ "ok" # "none" /\ "ok" # "info"
  BY DEF Statuses
<1>2. PICK v : v = IF "headers" \in L /\ ~x.fixed THEN SendHeader(L, x, "ok") ELSE x
  OBVIOUS
<1>3. PICK z : z = Commit(v, "ok")
  OBVIOUS
<1>4. PICK y : y = SendBody(L, x, b)
  OBVIOUS
<1>5. /\ v \in Response
      /\ v.header = x.header /\ v.buf = x.buf /\ v.code = x.code /\ v.body = x.body /\ v.cut = x.cut
      /\ HeaderOf(v) = HeaderOf(x)
      /\ x.status # "none" /\ ("headers" \in L => x.fixed) => v = x
  <2>1. CASE "headers" \in L /\ ~x.fixed
    <3>1. HeadSent(L, x, "ok", v)
      BY <1>1, <1>2, <2>1, Heads
    <3> QED BY <1>1, <2>1, <3>1 DEF HeaderOf, HeadSent
  <2>2. CASE ~("headers" \in L /\ ~x.fixed)
    BY <1>2, <2>2
  <2> QED BY <2>1, <2>2
<1>6. Committed(v, z)
  BY <1>3, <1>5, Commits
<1>7. /\ z \in Response
      /\ z.header = x.header /\ z.buf = x.buf /\ z.code = x.code /\ z.body = x.body /\ z.cut = x.cut
      /\ z.sent = HeaderOf(x) /\ z.status # "none"
      /\ x.status # "none" /\ ("headers" \in L => x.fixed) =>
           z.status = x.status /\ z.logged = x.logged /\ (z.fixed <=> x.fixed)
  BY <1>1, <1>5, <1>6 DEF Committed
<1>8. PICK c : c = Join(z.body, b)
  OBVIOUS
<1>9. c \in Body /\ c = Join(x.body, b)
  BY <1>7, <1>8, Joins DEF Response
<1>10. y = IF Within(c, z.sent.length) THEN [z EXCEPT !.body = c] ELSE [z EXCEPT !.cut = TRUE]
  <2>1. [z EXCEPT !.body = Join(@, b)] = [z EXCEPT !.body = c]
    BY <1>7, <1>8 DEF Response
  <2> QED BY <1>2, <1>3, <1>4, <1>8, <2>1 DEF SendBody
<1>11. CASE Within(c, z.sent.length)
  <2>1. y = [z EXCEPT !.body = c]
    BY <1>10, <1>11
  <2>2. /\ y \in Response /\ y.header = z.header /\ y.buf = z.buf /\ y.code = z.code
        /\ y.logged = z.logged /\ (y.fixed <=> z.fixed) /\ y.body = c /\ y.cut = z.cut
        /\ y.sent = z.sent /\ y.status = z.status
    BY <1>7, <1>9, <2>1 DEF Response
  <2>3. BodySent(L, x, b, y)
    BY <1>7, <1>9, <1>11, <2>2 DEF BodySent
  <2> QED BY <1>4, <2>3
<1>12. CASE ~Within(c, z.sent.length)
  <2>1. y = [z EXCEPT !.cut = TRUE]
    BY <1>10, <1>12
  <2>2. /\ y \in Response /\ y.header = z.header /\ y.buf = z.buf /\ y.code = z.code
        /\ y.logged = z.logged /\ (y.fixed <=> z.fixed) /\ y.body = z.body
        /\ y.sent = z.sent /\ y.status = z.status
    BY <1>7, <2>1 DEF Response
  <2>3. ~Within(Join(x.body, b), HeaderOf(x).length)
    BY <1>7, <1>9, <1>12
  <2>4. BodySent(L, x, b, y)
    BY <1>7, <2>2, <2>3 DEF BodySent
  <2> QED BY <1>4, <2>4
<1> QED BY <1>11, <1>12

\* A layer that captures a status, or a part of the body, changes nothing else.
LEMMA TakesStatus ==
  ASSUME NEW x \in Response, NEW t \in Layers, NEW s \in Statuses
  PROVE  StatusHeld(x, t, s, [x EXCEPT !.code[t] = s])
<1>1. x.code \in [Layers -> Statuses]
  BY DEF Response
<1>2. PICK c : c = [x.code EXCEPT ![t] = s]
  OBVIOUS
<1>3. c \in [Layers -> Statuses] /\ c[t] = s
  BY <1>1, <1>2
<1>4. [x EXCEPT !.code[t] = s] = [x EXCEPT !.code = c]
  BY <1>2 DEF Response
<1>5. StatusHeld(x, t, s, [x EXCEPT !.code = c])
  BY <1>3 DEF Response, StatusHeld
<1> QED BY <1>4, <1>5

\* So for a part of the body.
LEMMA TakesBody ==
  ASSUME NEW x \in Response, NEW t \in Layers, NEW b \in Body
  PROVE  BodyHeld(x, t, b, [x EXCEPT !.buf[t] = Join(@, b)])
<1>1. x.buf \in [Layers -> Body]
  BY DEF Response
<1>2. PICK f : f = [x.buf EXCEPT ![t] = Join(@, b)]
  OBVIOUS
<1>3. /\ f \in [Layers -> Body] /\ f[t] = Join(x.buf[t], b)
      /\ \A l \in Layers \ {t} : f[l] = x.buf[l]
  <2>1. PICK c : c = Join(x.buf[t], b)
    OBVIOUS
  <2>2. c \in Body
    BY <1>1, <2>1, Joins
  <2>3. f = [x.buf EXCEPT ![t] = c]
    BY <1>2, <2>1
  <2> QED BY <1>1, <2>1, <2>2, <2>3
<1>4. [x EXCEPT !.buf[t] = Join(@, b)] = [x EXCEPT !.buf = f]
  BY <1>2 DEF Response
<1>5. BodyHeld(x, t, b, [x EXCEPT !.buf = f])
  BY <1>3 DEF Response, BodyHeld
<1> QED BY <1>4, <1>5
-----------------------------------------------------------------------------
\* The parts of a response, and their types.
LEMMA Parts ==
  ASSUME NEW x \in Response
  PROVE  /\ x.header \in Header /\ x.sent \in Header /\ x.body \in Body
         /\ x.buf \in [Layers -> Body] /\ x.code \in [Layers -> Statuses]
         /\ x.fixed \in BOOLEAN /\ x.cut \in BOOLEAN
         /\ x.logged \in Statuses /\ x.status \in Statuses
BY DEF Response

\* The first and the last status of a handler that says one more.
LEMMA Lasts ==
  ASSUME NEW heads \in Seq({"ok", "error"}), NEW s \in {"ok", "error"}
  PROVE  /\ <<s>> \in Seq({"ok", "error"}) /\ <<s>> # <<>> /\ Last(<<s>>) = s /\ <<s>>[1] = s
         /\ Append(heads, s) \in Seq({"ok", "error"}) /\ Append(heads, s) # <<>>
         /\ Last(Append(heads, s)) = s
         /\ heads # <<>> => /\ Append(heads, s)[1] = heads[1]
                            /\ Last(heads) \in {"ok", "error"} /\ heads[1] \in {"ok", "error"}
<1>1. <<s>> \in Seq({"ok", "error"}) /\ <<s>> # <<>> /\ Last(<<s>>) = s /\ <<s>>[1] = s
  BY DEF Last
<1>2. Append(heads, s) \in Seq({"ok", "error"}) /\ Append(heads, s) # <<>>
  OBVIOUS
<1>3. Last(Append(heads, s)) = s
  BY DEF Last
<1>4. ASSUME heads # <<>>
      PROVE  /\ Append(heads, s)[1] = heads[1]
             /\ Last(heads) \in {"ok", "error"} /\ heads[1] \in {"ok", "error"}
  <2>1. 1 \in 1 .. Len(heads) /\ Len(heads) \in 1 .. Len(heads)
    BY <1>4
  <2> QED BY <2>1 DEF Last
<1> QED BY <1>1, <1>2, <1>3, <1>4

\* The pieces of a body, in order, and the next one.
LEMMA Pieces ==
  ASSUME NEW n \in Nat
  PROVE  Firsts(n) \o <<n + 1>> = Firsts(n + 1) /\ Firsts(0) = <<>> /\ Firsts(1) = <<1>>
<1>1. Firsts(n) \in Seq(Nat) /\ Len(Firsts(n)) = n
  BY DEF Firsts
<1>2. Firsts(n) \o <<n + 1>> = Append(Firsts(n), n + 1)
  BY <1>1
<1>3. Append(Firsts(n), n + 1) = Firsts(n + 1)
  BY <1>1 DEF Firsts
<1> QED BY <1>2, <1>3 DEF Firsts

\* A layer, or the handler, sets a header.
LEMMA LengthSet ==
  ASSUME NEW x \in Response, NEW n \in Seq(Lengths)
  PROVE  /\ [x.header EXCEPT !.length = n] \in Header
         /\ [x.header EXCEPT !.length = n].length = n
         /\ [x.header EXCEPT !.length = n].coding = x.header.coding
         /\ [x EXCEPT !.header.length = n] = [x EXCEPT !.header = [x.header EXCEPT !.length = n]]
<1>1. /\ [x.header EXCEPT !.length = n] \in Header
      /\ [x.header EXCEPT !.length = n].length = n
      /\ [x.header EXCEPT !.length = n].coding = x.header.coding
  BY Parts DEF Header
<1>2. [x EXCEPT !.header.length = n] = [x EXCEPT !.header = [x.header EXCEPT !.length = n]]
  BY DEF Response
<1> QED BY <1>1, <1>2

\* Nothing else is changed with it.
LEMMA HeaderSet ==
  ASSUME NEW x \in Response, NEW h \in Header
  PROVE  HeaderChanged(x, h, [x EXCEPT !.header = h])
BY DEF Response, HeaderChanged

\* Where a status goes, and where a part of the body.
LEMMA StatusGoes ==
  ASSUME NEW L, NEW x, NEW s
  PROVE  /\ WriteHeader(L, x, "handler", s) =
              IF Holder(L, "handler") = "client" THEN SendHeader(L, x, s)
              ELSE [x EXCEPT !.code[Holder(L, "handler")] = s]
         /\ WriteHeader(L, x, "subfilter", s) =
              IF "brotli" \in L THEN [x EXCEPT !.code["brotli"] = s] ELSE SendHeader(L, x, s)
         /\ WriteHeader(L, x, "brotli", s) = SendHeader(L, x, s)
BY StatusTakers DEF WriteHeader, Holder

\* A part of the body goes to the next layer that buffers, gzip among them.
LEMMA BodyGoes ==
  ASSUME NEW L, NEW x, NEW b
  PROVE  /\ Write(L, x, "handler", b) =
              IF "subfilter" \in L THEN [x EXCEPT !.buf["subfilter"] = Join(@, b)]
              ELSE IF "gzip" \in L THEN [x EXCEPT !.buf["gzip"] = Join(@, b)]
              ELSE IF "brotli" \in L THEN [x EXCEPT !.buf["brotli"] = Join(@, b)]
              ELSE SendBody(L, x, b)
         /\ Write(L, x, "subfilter", b) =
              IF "gzip" \in L THEN [x EXCEPT !.buf["gzip"] = Join(@, b)]
              ELSE IF "brotli" \in L THEN [x EXCEPT !.buf["brotli"] = Join(@, b)]
              ELSE SendBody(L, x, b)
         /\ Write(L, x, "gzip", b) =
              IF "brotli" \in L THEN [x EXCEPT !.buf["brotli"] = Join(@, b)] ELSE SendBody(L, x, b)
         /\ Write(L, x, "brotli", b) = SendBody(L, x, b)
BY BodyTakers DEF Write

\* Told depends on no more than this of the writers.
LEMMA ToldSame ==
  ASSUME NEW L, NEW t, NEW u, NEW w, NEW v, NEW x, NEW y,
         Told(L, t, w, x), Holder(L, u) = Holder(L, t),
         v.heads = w.heads, v.info = w.info,
         y.status = x.status, y.fixed <=> x.fixed, y.logged = x.logged, y.code = x.code
  PROVE  Told(L, u, v, y)
BY DEF Told, Captured, Direct
-----------------------------------------------------------------------------
\* What the steps of the handler and of the layers keep right, for one request.

\* A handler that runs has not refused, and the response is not past its layers.
LEMMA Running ==
  ASSUME NEW L, NEW m, NEW w, NEW x, Right(L, m, "handler", w, x)
  PROVE  /\ ~w.refused /\ Told(L, "handler", w, x)
         /\ "gzip" \notin L => Filled(L, m, "handler", w, x)
         /\ w.heads \in Seq({"ok", "error"}) /\ Len(w.own) = Len(w.heads)
         /\ Holder(L, "handler") = "client" <=> ~Buffers(L)
         /\ Holder(L, "handler") \in {"subfilter", "brotli", "client"}
<1>1. ~w.refused
  BY DEF Right, Refused
<1> QED BY <1>1 DEF Right, Turn, Holder, Buffers

\* A body that no layer has coded fits no length and its own.
LEMMA OwnLength ==
  ASSUME NEW b \in Body, NEW length, b.codings = <<>>, length \in {<<>>, << Size(b) >>}
  PROVE  Within(b, length)
<1>1. CASE length = <<>>
  BY <1>1 DEF Within
<1>2. CASE length = << Size(b) >>
  <2>1. PICK n, f : n = Len(b.pieces) /\ f = b.filtered
    OBVIOUS
  <2>2. length[1][1] = n /\ length[1][2] = f /\ n \in Nat
    BY <1>2, <2>1 DEF Size, Body
  <2> QED BY <2>1, <2>2 DEF Within
<1> QED BY <1>1, <1>2

\* The answers w get another one, with the codings own, and are then v; the header
\* h becomes g, or stays what it was for the client.
Another(w, own, v) ==
  /\ v.own = Append(w.own, own) /\ Len(w.own) = Len(w.heads)
  /\ w.heads = <<>> \/ w.heads = <<"error">>

HeaderMore(w, own, h, g) ==
  /\ h \in Header /\ g \in Header
  /\ w.heads = <<>> => h.coding = <<>>
  /\ g.coding = h.coding \o own \/ (w.heads # <<>> /\ g.coding = h.coding)

\* One element, and another behind it.
LEMMA SecondOf ==
  ASSUME NEW T, NEW q \in Seq(T), NEW a \in T, Len(q) = 1
  PROVE  /\ DOMAIN q = {1} /\ DOMAIN Append(q, a) = {1, 2} /\ Len(Append(q, a)) = 2
         /\ Append(q, a)[1] = q[1] /\ Append(q, a)[2] = a
<1>1. Append(q, a) \in Seq(T) /\ Len(Append(q, a)) = Len(q) + 1
  BY AppendProperties
<1>2. Append(q, a)[Len(q) + 1] = a
  BY AppendProperties
<1>3. \A k \in 1 .. Len(q) : Append(q, a)[k] = q[k]
  BY AppendProperties
<1>4. PICK p \in Seq(T) : p = Append(q, a)
  BY <1>1
<1>5. DOMAIN q = 1 .. Len(q) /\ DOMAIN p = 1 .. Len(p) /\ Len(p) = Len(q) + 1
  BY <1>1, <1>4
<1>6. DOMAIN q = {1} /\ DOMAIN p = {1, 2} /\ Len(p) = 2
  BY <1>5
<1>7. p[1] = q[1] /\ p[2] = a
  BY <1>2, <1>3, <1>4
<1> QED BY <1>4, <1>6, <1>7

\* The number of answers then.
LEMMA AnswerCount ==
  ASSUME NEW w \in Words, NEW v \in Words, NEW own \in Seq(Codings), Another(w, own, v)
  PROVE  /\ w.heads = <<>> => /\ DOMAIN w.own = {} /\ Len(w.heads) = 0
                              /\ DOMAIN v.own = {1} /\ v.own[1] = own /\ Len(v.own) = 1
         /\ w.heads # <<>> => /\ DOMAIN w.own = {1} /\ Len(w.heads) = 1
                              /\ DOMAIN v.own = {1, 2} /\ Len(v.own) = 2
                              /\ v.own[1] = w.own[1] /\ v.own[2] = own
         /\ w.heads # <<>> => w.heads = << "error" >>
<1>1. PICK T : T = Seq(Codings)
  OBVIOUS
<1>2. w.own \in Seq(T) /\ own \in T /\ v.own = Append(w.own, own)
  BY <1>1 DEF Words, Another
<1>3. CASE w.heads = <<>>
  <2>1. Len(w.own) = 0 /\ Len(w.heads) = 0
    BY <1>3 DEF Another
  <2>2. DOMAIN w.own = {} /\ DOMAIN v.own = {1} /\ v.own[1] = own /\ Len(v.own) = 1
    BY <1>2, <2>1
  <2> QED BY <1>3, <2>1, <2>2
<1>4. CASE w.heads # <<>>
  <2>1. w.heads = << "error" >>
    BY <1>4 DEF Another
  <2>2. Len(w.heads) = 1
    BY <2>1
  <2>3. Len(w.own) = 1
    BY <2>2 DEF Another
  <2>4. /\ DOMAIN w.own = {1} /\ DOMAIN v.own = {1, 2} /\ Len(v.own) = 2
        /\ v.own[1] = w.own[1] /\ v.own[2] = own
    BY <1>2, <2>3, SecondOf
  <2> QED BY <1>4, <2>1, <2>2, <2>4
<1> QED BY <1>3, <1>4

\* If the header told the codings, it does so again.
LEMMA CodedMore ==
  ASSUME NEW L, NEW m, NEW w \in Words, NEW v \in Words, NEW own \in Seq(Codings),
         NEW b, NEW c, NEW h, NEW g, Another(w, own, v), HeaderMore(w, own, h, g),
         Coded(L, m, w, b, h), b.codings = <<>>, c.codings = <<>>
  PROVE  Coded(L, m, v, c, g)
<1>1. /\ h.coding \in Seq(Codings) /\ g.coding \in Seq(Codings)
      /\ g.coding = h.coding \o own \/ (w.heads # <<>> /\ g.coding = h.coding)
      /\ own \o <<>> = own /\ <<>> \o own = own /\ <<>> \o <<>> = <<>>
  BY DEF Header, HeaderMore
<1>2. CASE w.heads = <<>>
  <2>1. DOMAIN v.own = {1} /\ v.own[1] = own
    BY <1>2, AnswerCount
  <2>2. g.coding = own
    BY <1>1, <1>2 DEF HeaderMore
  <2> QED BY <1>1, <2>1, <2>2 DEF Coded
<1>3. CASE w.heads # <<>>
  <2>1. /\ DOMAIN w.own = {1} /\ DOMAIN v.own = {1, 2} /\ Len(v.own) = 2
        /\ v.own[1] = w.own[1] /\ v.own[2] = own
    BY <1>3, AnswerCount
  <2>2. CASE w.own[1] # <<>> \/ own # <<>>
    <3>1. Recoding(L, m, v)
      BY <2>1, <2>2 DEF Recoding
    <3> QED BY <3>1 DEF Coded
  <2>3. CASE w.own[1] = <<>> /\ own = <<>>
    <3>1. ~Recoding(L, m, w)
      BY <2>1, <2>3 DEF Recoding
    <3>2. w.own[1] \o b.codings = h.coding
      BY <2>1, <3>1 DEF Coded
    <3>3. h.coding = <<>> /\ g.coding = <<>>
      BY <1>1, <2>3, <3>2
    <3>4. \A k \in DOMAIN v.own : v.own[k] = <<>>
      BY <2>1, <2>3
    <3> QED BY <1>1, <3>3, <3>4 DEF Coded
  <2> QED BY <2>2, <2>3
<1> QED BY <1>2, <1>3

\* When all that was declared has been written, that is the body's length.
LEMMA Completed ==
  ASSUME NEW L, NEW w \in Words, NEW b \in Body, NEW h, NEW u,
         b.pieces = Firsts(w.pieces), ~b.filtered, w.left \in {Any, 0}, "subfilter" \notin L,
         w.heads \in Seq({"ok", "error"}), u # "handler",
         Merging(L, w, h) \/ Sized("handler", w, b, h.length)
  PROVE  Merging(L, w, h) \/ Sized(u, w, b, h.length)
<1>1. CASE Len(w.heads) > 1
  BY <1>1 DEF Merging, Sized
<1>2. CASE ~(Len(w.heads) > 1)
  <2>1. Len(w.heads) <= 1
    BY <1>2
  <2>2. Declared(w, h.length)
    BY <1>2, <2>1 DEF Merging, Sized
  <2>3. Size(b) = << w.pieces, FALSE >>
    <3>1. b.filtered = FALSE
      BY DEF Body
    <3>2. Len(Firsts(w.pieces)) = w.pieces
      BY PiecesAssumption DEF Firsts, Words
    <3> QED BY <3>1, <3>2 DEF Size
  <2>4. w.left # Any => w.pieces + w.left = w.pieces
    BY PiecesAssumption DEF Words
  <2> QED BY <2>2, <2>3, <2>4 DEF Declared, Sized
<1> QED BY <1>1, <1>2

\* Before the handler has said anything.
LEMMA FreshRight ==
  ASSUME NEW L, NEW m
  PROVE  Right(L, m, "handler", Silent, Fresh)
<1>1. PICK w : w = Silent
  OBVIOUS
<1>2. /\ w.heads = <<>> /\ w.own = <<>> /\ w.pieces = 0 /\ w.left = Any
      /\ w.info = FALSE /\ w.refused = FALSE /\ <<>> \in Seq({"ok", "error"})
  BY <1>1 DEF Silent
<1>3. /\ Fresh.status = "none" /\ Fresh.fixed = FALSE /\ Fresh.logged = "ok" /\ Fresh.cut = FALSE
      /\ Fresh.body = Empty /\ Fresh.header = Nothing
      /\ \A l \in {"brotli", "subfilter"} : Fresh.buf[l] = Empty
  BY Ranks DEF Fresh
<1>4. Turn(L, "handler", w, Fresh)
  BY <1>2, <1>3 DEF Turn
<1>5. Told(L, "handler", w, Fresh)
  BY <1>2, <1>3 DEF Told, Captured, Direct, Holder, Buffers
<1>6. Filled(L, m, "handler", w, Fresh)
  <2>1. Empty.pieces = Firsts(0) /\ Empty.filtered = FALSE /\ Empty.codings = <<>>
    BY Pieces DEF Empty
  <2>2. Nothing.coding = <<>> /\ Nothing.length = <<>> /\ HeaderOf(Fresh) = Nothing
    BY <1>3 DEF Nothing, HeaderOf
  <2>3. Coded(L, m, w, Empty, Nothing)
    BY <1>2 DEF Coded
  <2>4. Sized("handler", w, Empty, Nothing.length)
    BY <1>2, <2>2 DEF Sized, Declared
  <2>5. Whole(L, "handler", w, Empty)
    BY <1>2, <2>1 DEF Whole, Holder
  <2>6. CASE Holder(L, "handler") # "client"
    <3>1. Holder(L, "handler") \in {"brotli", "subfilter"} /\ Fresh.buf[Holder(L, "handler")] = Empty
      BY <1>3, <2>6 DEF Holder
    <3>2. Kept(L, m, "handler", w, Fresh)
      BY <1>3, <2>1, <2>3, <2>4, <2>5, <3>1 DEF Kept
    <3> QED BY <2>6, <3>2 DEF Filled
  <2>7. CASE Holder(L, "handler") = "client"
    <3>1. Got(L, m, "handler", w, Fresh)
      BY <1>3, <2>1, <2>2, <2>3, <2>4, <2>5 DEF Got
    <3> QED BY <2>7, <3>1 DEF Filled
  <2> QED BY <2>6, <2>7
<1> QED BY <1>1, <1>2, <1>4, <1>5, <1>6 DEF Right

\* The handler passes on a 1xx response.
LEMMA Informs ==
  ASSUME NEW L \in SUBSET Layers, NEW m, NEW x \in Response, NEW w \in Words,
         Right(L, m, "handler", w, x), w.heads = <<>>, ~w.info
  PROVE  LET y == WriteHeader(L, x, "handler", "info")
         IN  y \in Response /\ Right(L, m, "handler", [w EXCEPT !.info = TRUE], y)
<1>1. PICK v : v = [w EXCEPT !.info = TRUE]
  OBVIOUS
<1>2. /\ v.heads = <<>> /\ v.own = w.own /\ v.pieces = w.pieces /\ v.left = w.left
      /\ v.refused = w.refused /\ v.info = TRUE
  BY <1>1 DEF Words
<1>3. PICK y : y = WriteHeader(L, x, "handler", "info")
  OBVIOUS
<1>4. /\ ~w.refused /\ Told(L, "handler", w, x) /\ ("gzip" \notin L => Filled(L, m, "handler", w, x))
      /\ Holder(L, "handler") = "client" <=> ~Buffers(L)
      /\ w.pieces = 0 /\ x.status = "none" /\ x.body = Empty /\ ~x.cut /\ x.header = Nothing
  BY Running DEF Right, Turn
<1>5. "info" \in Statuses
  BY DEF Statuses
<1>6. \A b, c : /\ Coded(L, m, v, b, c) <=> Coded(L, m, w, b, c)
                /\ Merging(L, v, c) <=> Merging(L, w, c)
                /\ Sized("handler", v, b, c) <=> Sized("handler", w, b, c)
                /\ Whole(L, "handler", v, b) <=> Whole(L, "handler", w, b)
  BY <1>2 DEF Coded, Recoding, Merging, Sized, Declared, Whole
<1>7. y \in Response /\ Right(L, m, "handler", v, y)
  <2>1. CASE Holder(L, "handler") # "client"
    <3>1. Holder(L, "handler") \in Layers
      BY <2>1, Ranks DEF Holder
    <3>2. y = [x EXCEPT !.code[Holder(L, "handler")] = "info"]
      BY <1>3, <2>1, StatusGoes
    <3>3. /\ y \in Response /\ y.header = x.header /\ y.buf = x.buf
          /\ (y.fixed <=> x.fixed) /\ y.logged = x.logged
          /\ y.status = x.status /\ y.body = x.body /\ y.cut = x.cut
      <4>1. StatusHeld(x, Holder(L, "handler"), "info", y)
        BY <1>5, <3>1, <3>2, TakesStatus
      <4> QED BY <4>1 DEF StatusHeld
    <3>4. Told(L, "handler", v, y)
      BY <1>2, <1>4, <2>1, <3>3 DEF Told, Captured
    <3>5. "gzip" \notin L => Filled(L, m, "handler", v, y)
      BY <1>4, <1>6, <2>1, <3>3 DEF Filled, Kept
    <3>6. Turn(L, "handler", v, y)
      BY <1>2, <1>4, <3>3 DEF Turn, Right
    <3> QED BY <1>2, <1>4, <3>3, <3>4, <3>5, <3>6 DEF Right
  <2>2. CASE Holder(L, "handler") = "client"
    <3>1. y = SendHeader(L, x, "info")
      BY <1>3, <2>2, StatusGoes
    <3>2. x.fixed <=> w.info /\ "headers" \in L
      BY <1>4, <2>2 DEF Told, Direct
    <3>3. /\ y \in Response /\ y.header = x.header /\ y.body = x.body /\ y.cut = x.cut
          /\ y.status = "none" /\ (y.fixed <=> "headers" \in L)
      <4>1. HeadSent(L, x, "info", y)
        BY <1>5, <3>1, Heads
      <4> QED BY <1>4, <3>2, <4>1 DEF HeadSent
    <3>4. Told(L, "handler", v, y)
      BY <1>2, <1>4, <2>2, <3>3 DEF Told, Direct
    <3>5. ASSUME "gzip" \notin L PROVE Filled(L, m, "handler", v, y)
      <4>1. Got(L, m, "handler", w, x)
        BY <1>4, <2>2, <3>5 DEF Filled
      <4>2. HeaderOf(y) = HeaderOf(x)
        BY <1>4, <3>3 DEF HeaderOf
      <4>3. Got(L, m, "handler", v, y)
        BY <1>6, <3>3, <4>1, <4>2 DEF Got
      <4> QED BY <2>2, <4>3 DEF Filled
    <3>6. Turn(L, "handler", v, y)
      BY <1>2, <1>4, <3>3 DEF Turn, Right
    <3> QED BY <1>2, <1>4, <3>3, <3>4, <3>5, <3>6 DEF Right
  <2> QED BY <2>1, <2>2
<1> QED BY <1>1, <1>3, <1>7

\* What a status changes of the bodies and of the header that goes with them.
Headed(x, y) ==
  /\ y \in Response /\ y.header = x.header /\ y.buf = x.buf
  /\ y.body = x.body /\ y.cut = x.cut /\ HeaderOf(y) = HeaderOf(x)

\* The writers x keep what the handler said, w, and it says the status s, which is v.
Hears(L, w, x) ==
  /\ Told(L, "handler", w, x) /\ w.heads \in Seq({"ok", "error"})
  /\ w.heads = <<>> => x.status = "none"

SaidNext(w, s, v) == v.heads = Append(w.heads, s) /\ v.info = w.info

\* The handler's next status, when the header has been changed: where it is kept,
\* and that it changes no body.
LEMMA Adds ==
  ASSUME NEW L \in SUBSET Layers, NEW x \in Response, NEW z, NEW h, NEW w, NEW v,
         NEW s \in {"ok", "error"},
         Hears(L, w, x), SaidNext(w, s, v), HeaderChanged(x, h, z)
  PROVE  LET y == WriteHeader(L, z, "handler", s)
         IN  Headed(z, y) /\ Told(L, "handler", v, y)
<1> PICK y : y = WriteHeader(L, z, "handler", s)
  OBVIOUS
<1> SUFFICES Headed(z, y) /\ Told(L, "handler", v, y)
  OBVIOUS
<1>7. /\ Told(L, "handler", w, x) /\ w.heads \in Seq({"ok", "error"})
      /\ w.heads = <<>> => x.status = "none"
      /\ v.heads = Append(w.heads, s) /\ v.info = w.info
  BY DEF Hears, SaidNext
<1>1. /\ v.heads \in Seq({"ok", "error"}) /\ v.heads # <<>> /\ Last(v.heads) = s
      /\ w.heads # <<>> => v.heads[1] = w.heads[1] /\ w.heads[1] \in {"ok", "error"}
      /\ w.heads = <<>> => v.heads[1] = s
  <2>1. w.heads = <<>> => v.heads = <<s>>
    BY <1>7
  <2> QED BY <1>7, <2>1, Lasts
<1>2. s \in Statuses /\ s # "none" /\ s # "info"
  BY DEF Statuses
<1>3. /\ z \in Response /\ z.buf = x.buf /\ z.code = x.code /\ (z.fixed <=> x.fixed)
      /\ z.logged = x.logged /\ z.status = x.status /\ z.sent = x.sent
  BY DEF HeaderChanged
<1>4. Holder(L, "handler") = "client" <=> ~Buffers(L)
  BY DEF Holder, Buffers
<1>5. CASE Holder(L, "handler") # "client"
  <2>1. Holder(L, "handler") \in Layers
    BY <1>5, Ranks DEF Holder
  <2>2. y = [z EXCEPT !.code[Holder(L, "handler")] = s]
    BY <1>5, StatusGoes
  <2>3. StatusHeld(z, Holder(L, "handler"), s, y)
    BY <1>2, <1>3, <2>1, <2>2, TakesStatus
  <2>4. Headed(z, y)
    BY <2>3 DEF StatusHeld, Headed, HeaderOf
  <2>5. /\ y.code[Holder(L, "handler")] = s /\ (y.fixed <=> z.fixed) /\ y.logged = z.logged
        /\ y.status = z.status
    BY <2>3 DEF StatusHeld
  <2>6. Told(L, "handler", v, y)
    BY <1>7, <1>1, <1>3, <1>4, <1>5, <2>5 DEF Told, Captured
  <2> QED BY <2>4, <2>6
<1>6. CASE Holder(L, "handler") = "client"
  <2>1. y = SendHeader(L, z, s)
    BY <1>6, StatusGoes
  <2>2. HeadSent(L, z, s, y)
    BY <1>2, <1>3, <2>1, Heads
  <2>3. Headed(z, y)
    BY <1>2, <2>2 DEF HeadSent, Headed, HeaderOf
  <2>4. /\ "headers" \in L /\ z.fixed => y = z
        /\ ~("headers" \in L /\ z.fixed) =>
             /\ y.logged = s /\ (y.fixed <=> "headers" \in L \/ z.fixed)
             /\ y.status = IF z.status # "none" THEN z.status ELSE s
    BY <1>2, <2>2 DEF HeadSent
  <2>5. ~Buffers(L) /\ Direct(L, w, x)
    BY <1>7, <1>4, <1>6 DEF Told
  <2>6. Direct(L, v, y)
    <3>1. CASE w.info /\ "headers" \in L
      BY <1>7, <1>1, <3>1 DEF Direct
    <3>2. CASE ~(w.info /\ "headers" \in L) /\ w.heads = <<>>
      <4>1. ~z.fixed /\ z.status = "none"
        BY <1>7, <1>3, <2>5, <3>2 DEF Direct
      <4>2. y.logged = s /\ y.status = s /\ (y.fixed <=> "headers" \in L)
        BY <2>4, <4>1
      <4> QED BY <1>7, <1>1, <3>2, <4>2 DEF Direct
    <3>3. CASE ~(w.info /\ "headers" \in L) /\ w.heads # <<>>
      <4>1. /\ z.status = w.heads[1] /\ (z.fixed <=> "headers" \in L) /\ z.status # "none"
            /\ z.logged = IF "headers" \in L THEN w.heads[1] ELSE Last(w.heads)
        BY <1>1, <1>3, <2>5, <3>3 DEF Direct
      <4>2. y.status = w.heads[1] /\ (y.fixed <=> "headers" \in L)
        BY <2>4, <4>1
      <4>3. y.logged = IF "headers" \in L THEN w.heads[1] ELSE s
        BY <2>4, <4>1
      <4> QED BY <1>7, <1>1, <3>3, <4>2, <4>3 DEF Direct
    <3> QED BY <3>1, <3>2, <3>3
  <2>7. Told(L, "handler", v, y)
    BY <1>6, <2>5, <2>6 DEF Told
  <2> QED BY <2>3, <2>7
<1> QED BY <1>5, <1>6

\* What a part b of the body makes of x: y.
Given(L, w, x, b, y) ==
  /\ y \in Response /\ Told(L, "handler", w, y) /\ y.header = x.header
  /\ "gzip" \notin L /\ Holder(L, "handler") = "client" => BodySent(L, x, b, y)
  /\ "gzip" \notin L /\ Holder(L, "handler") # "client" =>
       BodyHeld(x, Holder(L, "handler"), b, y)

\* It leaves the status where it is; without gzip it goes to who has the response.
LEMMA Gives ==
  ASSUME NEW L \in SUBSET Layers, NEW x \in Response, NEW w, NEW b \in Body,
         Told(L, "handler", w, x), w.heads \in Seq({"ok", "error"}), w.heads # <<>>
  PROVE  Given(L, w, x, b, Write(L, x, "handler", b))
<1> PICK y : y = Write(L, x, "handler", b)
  OBVIOUS
<1> SUFFICES Given(L, w, x, b, y)
  OBVIOUS
<1>1. CASE L \cap {"subfilter", "gzip", "brotli"} = {}
  <2>1. y = SendBody(L, x, b) /\ ~Buffers(L) /\ Holder(L, "handler") = "client"
    BY <1>1, BodyGoes DEF Buffers, Holder
  <2>2. BodySent(L, x, b, y)
    BY <2>1, SendBodies
  <2>3. /\ y \in Response /\ y.header = x.header
        /\ x.status # "none" /\ ("headers" \in L => x.fixed) =>
             y.status = x.status /\ y.logged = x.logged /\ (y.fixed <=> x.fixed)
    BY <2>2 DEF BodySent
  <2>4. w.heads[1] # "none"
    BY Lasts
  <2>5. Direct(L, w, y)
    BY <2>1, <2>3, <2>4 DEF Told, Direct
  <2>6. Told(L, "handler", w, y)
    BY <2>1, <2>5 DEF Told
  <2> QED BY <2>1, <2>2, <2>3, <2>6 DEF Given
<1>2. CASE L \cap {"subfilter", "gzip", "brotli"} # {}
  <2>1. PICK t \in Layers : /\ y = [x EXCEPT !.buf[t] = Join(@, b)]
                            /\ "gzip" \notin L => t = Holder(L, "handler") /\ t # "client"
    <3>1. CASE "subfilter" \in L
      BY <3>1, BodyGoes, Ranks DEF Holder
    <3>2. CASE "subfilter" \notin L /\ "gzip" \in L
      BY <3>2, BodyGoes, Ranks DEF Holder
    <3>3. CASE "subfilter" \notin L /\ "gzip" \notin L
      <4>1. "brotli" \in L
        BY <1>2, <3>3
      <4> QED BY <3>3, <4>1, BodyGoes, Ranks DEF Holder
    <3> QED BY <3>1, <3>2, <3>3
  <2>2. BodyHeld(x, t, b, y)
    BY <2>1, TakesBody
  <2>3. /\ y \in Response /\ y.header = x.header /\ y.code = x.code /\ (y.fixed <=> x.fixed)
        /\ y.logged = x.logged /\ y.status = x.status
    BY <2>2 DEF BodyHeld
  <2>4. Told(L, "handler", w, y)
    BY <2>3, ToldSame
  <2> QED BY <2>1, <2>2, <2>3, <2>4 DEF Given
<1> QED BY <1>1, <1>2

\* The header of an answer is added to the map.
LEMMA Announced ==
  ASSUME NEW x \in Response, NEW own \in Seq(Codings), NEW n \in {Any} \cup 1 .. MaxPieces
  PROVE  \E h \in Header :
           /\ HeaderChanged(x, h, Announce(x, own, n))
           /\ h.coding = x.header.coding \o own
           /\ h.length = IF n = Any THEN x.header.length ELSE Append(x.header.length, << n, FALSE >>)
<1>1. PICK c : c = x.header.coding \o own
  OBVIOUS
<1>2. PICK l : l = IF n = Any THEN x.header.length ELSE Append(x.header.length, << n, FALSE >>)
  OBVIOUS
<1>3. PICK h : h = [coding |-> c, length |-> l]
  OBVIOUS
<1>4. x.header.coding \in Seq(Codings) /\ x.header.length \in Seq(Lengths)
  BY Parts DEF Header
<1>5. c \in Seq(Codings)
  BY <1>1, <1>4
<1>6. l \in Seq(Lengths)
  <2>1. ASSUME n # Any PROVE << n, FALSE >> \in Lengths
    <3>1. n \in Nat
      BY <2>1, PiecesAssumption
    <3>2. PICK f \in BOOLEAN : f = FALSE
      OBVIOUS
    <3>3. << n, f >> \in Nat \X BOOLEAN
      BY <3>1, <3>2
    <3> QED BY <3>2, <3>3 DEF Lengths
  <2> QED BY <1>2, <1>4, <2>1
<1>7. h \in Header /\ h.coding = c /\ h.length = l
  BY <1>3, <1>5, <1>6 DEF Header
<1>8. Announce(x, own, n) = [x EXCEPT !.header = h]
  BY <1>1, <1>2, <1>3 DEF Announce
<1>9. HeaderChanged(x, h, Announce(x, own, n))
  BY <1>7, <1>8, HeaderSet
<1> QED BY <1>1, <1>2, <1>7, <1>9

\* An answer, the first one or that of a retry, and what it declares.
LEMMA Announces ==
  ASSUME NEW L \in SUBSET Layers, NEW m, NEW x \in Response, NEW w \in Words, NEW v \in Words,
         NEW s \in {"ok", "error"}, NEW own \in Seq(Codings), NEW n \in {Any} \cup 1 .. MaxPieces,
         Right(L, m, "handler", w, x), w.heads = <<>> \/ w.heads = << "error" >>,
         v = [w EXCEPT !.heads = Append(@, s), !.own = Append(@, own), !.left = n]
  PROVE  LET y == WriteHeader(L, Announce(x, own, n), "handler", s)
         IN  y \in Response /\ Right(L, m, "handler", v, y)
<1>1. PICK z : z = Announce(x, own, n)
  OBVIOUS
<1>2. PICK h \in Header :
        /\ HeaderChanged(x, h, z) /\ h.coding = x.header.coding \o own
        /\ h.length = IF n = Any THEN x.header.length ELSE Append(x.header.length, << n, FALSE >>)
  BY <1>1, Announced
<1>3. PICK y : y = WriteHeader(L, z, "handler", s)
  OBVIOUS
<1> SUFFICES y \in Response /\ Right(L, m, "handler", v, y)
  BY <1>1, <1>3
<1>4. /\ v.heads = Append(w.heads, s) /\ v.own = Append(w.own, own) /\ v.left = n
      /\ v.pieces = w.pieces /\ v.refused = w.refused /\ v.info = w.info
  BY DEF Words
<1>5. /\ ~w.refused /\ Told(L, "handler", w, x) /\ ("gzip" \notin L => Filled(L, m, "handler", w, x))
      /\ w.heads \in Seq({"ok", "error"}) /\ Len(w.own) = Len(w.heads)
      /\ Holder(L, "handler") \in {"subfilter", "brotli", "client"}
      /\ w.heads = <<>> => /\ w.pieces = 0 /\ x.status = "none" /\ x.body = Empty /\ ~x.cut
                           /\ x.header = Nothing
  BY Running DEF Right, Turn
<1>6. Headed(z, y) /\ Told(L, "handler", v, y)
  <2>1. Hears(L, w, x) /\ SaidNext(w, s, v)
    BY <1>4, <1>5 DEF Hears, SaidNext
  <2> QED BY <1>2, <1>3, <2>1, Adds
<1>7. /\ y \in Response /\ y.header = h /\ y.buf = x.buf /\ y.body = x.body /\ y.cut = x.cut
      /\ HeaderOf(y) = IF x.status = "none" THEN h ELSE x.sent
  BY <1>2, <1>6 DEF Headed, HeaderChanged, HeaderOf
<1>8. Turn(L, "handler", v, y)
  <2>1. v.heads \in Seq({"ok", "error"}) /\ v.heads # <<>>
    BY <1>4, <1>5, Lasts
  <2>2. Len(v.own) = Len(v.heads)
    BY <1>4, <1>5 DEF Words
  <2> QED BY <2>1, <2>2 DEF Turn
<1>9. /\ Len(w.heads) <= 1 /\ (w.heads # <<>> => Len(v.heads) = 2)
      /\ (w.heads = <<>> => Len(v.heads) = 1) /\ Another(w, own, v)
  <2>1. Another(w, own, v)
    BY <1>4, <1>5 DEF Another
  <2>2. Len(v.heads) = Len(w.heads) + 1
    BY <1>4, <1>5
  <2>3. Len(w.heads) = IF w.heads = <<>> THEN 0 ELSE 1
    BY <2>1, AnswerCount
  <2> QED BY <2>1, <2>2, <2>3
<1>10. x.header \in Header /\ x.sent \in Header /\ Nothing.coding = <<>> /\ Nothing.length = <<>>
  BY Parts DEF Nothing
\* What is declared of the first answer is what the map holds then.
<1>11. ASSUME w.heads = <<>> PROVE Declared(v, h.length)
  <2>1. h.length = IF n = Any THEN <<>> ELSE << << n, FALSE >> >>
    <3>1. PICK p : p = << n, FALSE >>
      OBVIOUS
    <3>2. Append(<<>>, p) = << p >> /\ x.header.length = <<>>
      BY <1>5, <1>10, <1>11
    <3> QED BY <1>2, <3>1, <3>2
  <2>2. n # Any => v.pieces + v.left = n
    BY <1>4, <1>5, <1>11, PiecesAssumption
  <2> QED BY <1>4, <2>1, <2>2 DEF Declared
<1>12. ASSUME "gzip" \notin L PROVE Filled(L, m, "handler", v, y)
  <2>1. CASE Holder(L, "handler") # "client"
    <3>1. PICK b : b = x.buf[Holder(L, "handler")]
      OBVIOUS
    <3>2. /\ x.body = Empty /\ ~x.cut /\ Whole(L, "handler", w, b) /\ b.codings = <<>>
          /\ Coded(L, m, w, b, x.header)
          /\ Holder(L, "handler") = "subfilter" => x.buf["brotli"] = Empty
      BY <1>5, <1>12, <2>1, <3>1 DEF Filled, Kept
    <3>3. Coded(L, m, v, b, h)
      <4>1. HeaderMore(w, own, x.header, h)
        BY <1>2, <1>5, <1>10 DEF HeaderMore
      <4> QED BY <1>9, <3>2, <4>1, CodedMore
    <3>4. Sized("handler", v, b, h.length)
      BY <1>9, <1>11 DEF Sized
    <3>5. Whole(L, "handler", v, b)
      BY <1>4, <3>2 DEF Whole
    <3>6. Kept(L, m, "handler", v, y)
      BY <1>7, <3>1, <3>2, <3>3, <3>4, <3>5 DEF Kept
    <3> QED BY <2>1, <3>6 DEF Filled
  <2>2. CASE Holder(L, "handler") = "client"
    <3>1. Got(L, m, "handler", w, x)
      BY <1>5, <1>12, <2>2 DEF Filled
    <3>2. /\ ~x.cut /\ Whole(L, "handler", w, x.body)
          /\ x.body.codings = <<>> /\ Coded(L, m, w, x.body, HeaderOf(x))
      BY <1>9, <3>1 DEF Got, Merging
    <3>3. /\ HeaderMore(w, own, HeaderOf(x), HeaderOf(y))
          /\ w.heads = <<>> => HeaderOf(y) = h
      BY <1>2, <1>5, <1>7, <1>10 DEF HeaderOf, HeaderMore
    <3>4. Coded(L, m, v, x.body, HeaderOf(y))
      BY <1>9, <3>2, <3>3, CodedMore
    <3>5. Sized("handler", v, x.body, HeaderOf(y).length)
      BY <1>9, <1>11, <3>3 DEF Sized
    <3>6. Whole(L, "handler", v, x.body)
      BY <1>4, <3>2 DEF Whole
    <3>7. Got(L, m, "handler", v, y)
      BY <1>7, <3>2, <3>4, <3>5, <3>6 DEF Got
    <3> QED BY <2>2, <3>7 DEF Filled
  <2> QED BY <2>1, <2>2
<1> QED BY <1>4, <1>5, <1>6, <1>7, <1>8, <1>12 DEF Right

\* The body b has one piece, the one after k.
Piecewise(k, b) ==
  /\ b \in Body /\ b.codings = <<>>
  /\ \A c \in Body : /\ Join(c, b) \in Body /\ Join(c, b).codings = <<>>
                     /\ Join(c, b).filtered <=> c.filtered
                     /\ c.pieces = Firsts(k) => Join(c, b).pieces = Firsts(k + 1)

\* It continues the body of those before.
LEMMA NextPiece ==
  ASSUME NEW k \in Nat, k + 1 <= MaxPieces
  PROVE  Piecewise(k, [Empty EXCEPT !.pieces = << k + 1 >>])
<1>1. PICK q : q = << k + 1 >>
  OBVIOUS
<1>2. q \in Seq(1 .. MaxPieces) /\ Firsts(k) \o q = Firsts(k + 1)
  <2>1. k + 1 \in 1 .. MaxPieces
    BY PiecesAssumption
  <2> QED BY <1>1, <2>1, Pieces
<1>3. PICK b : b = [Empty EXCEPT !.pieces = q]
  OBVIOUS
<1>4. b \in Body /\ b.pieces = q /\ b.filtered = FALSE /\ b.codings = <<>>
  <2>1. b = [pieces |-> q, filtered |-> FALSE, codings |-> <<>>]
    BY <1>3 DEF Empty
  <2>2. <<>> \in Seq(Codings)
    OBVIOUS
  <2> QED BY <1>2, <2>1, <2>2 DEF Body
<1>5. ASSUME NEW c \in Body
      PROVE  /\ Join(c, b) \in Body /\ Join(c, b).codings = <<>>
             /\ Join(c, b).filtered <=> c.filtered
             /\ c.pieces = Firsts(k) => Join(c, b).pieces = Firsts(k + 1)
  <2>1. /\ Join(c, b) \in Body /\ Join(c, b).pieces = c.pieces \o b.pieces
        /\ (Join(c, b).filtered <=> c.filtered \/ b.filtered) /\ Join(c, b).codings = b.codings
    BY <1>4, Joins
  <2> QED BY <1>2, <1>4, <2>1
<1> QED BY <1>1, <1>3, <1>4, <1>5 DEF Piecewise

\* A part of the body.
LEMMA Continues ==
  ASSUME NEW L \in SUBSET Layers, NEW m, NEW x \in Response, NEW w \in Words, NEW v \in Words, NEW n,
         Right(L, m, "handler", w, x), w.heads # <<>>, n = w.pieces + 1, n <= MaxPieces, w.left # 0,
         v = [w EXCEPT !.pieces = n, !.left = IF @ = Any THEN Any ELSE @ - 1]
  PROVE  LET y == Write(L, x, "handler", [Empty EXCEPT !.pieces = << n >>])
         IN  y \in Response /\ Right(L, m, "handler", v, y)
<1>1. PICK b : b = [Empty EXCEPT !.pieces = << n >>]
  OBVIOUS
<1>2. PICK y : y = Write(L, x, "handler", b)
  OBVIOUS
<1> SUFFICES y \in Response /\ Right(L, m, "handler", v, y)
  BY <1>1, <1>2
<1>3. /\ v.heads = w.heads /\ v.own = w.own /\ v.pieces = n /\ v.refused = w.refused /\ v.info = w.info
      /\ v.left = IF w.left = Any THEN Any ELSE w.left - 1
  BY DEF Words
<1>4. /\ ~w.refused /\ Told(L, "handler", w, x) /\ ("gzip" \notin L => Filled(L, m, "handler", w, x))
      /\ w.heads \in Seq({"ok", "error"}) /\ Len(w.own) = Len(w.heads)
      /\ Holder(L, "handler") = "client" <=> ~Buffers(L)
      /\ Holder(L, "handler") \in {"subfilter", "brotli", "client"}
  BY Running
<1>5. /\ w.pieces \in Nat /\ w.left \in Int /\ (w.left = Any \/ w.left \in Nat \ {0}) /\ Any = -1
  BY PiecesAssumption DEF Words, Any
<1>6. /\ b \in Body /\ b.codings = <<>>
      /\ \A c \in Body : /\ Join(c, b) \in Body /\ Join(c, b).codings = <<>>
                         /\ Join(c, b).filtered <=> c.filtered
                         /\ c.pieces = Firsts(w.pieces) => Join(c, b).pieces = Firsts(n)
  <2>1. Piecewise(w.pieces, b)
    BY <1>1, <1>5, NextPiece
  <2> QED BY <2>1 DEF Piecewise
<1>7. Turn(L, "handler", v, y)
  BY <1>3, <1>4 DEF Turn
<1>8. /\ y \in Response /\ Told(L, "handler", w, y) /\ y.header = x.header
      /\ "gzip" \notin L /\ Holder(L, "handler") = "client" => BodySent(L, x, b, y)
      /\ "gzip" \notin L /\ Holder(L, "handler") # "client" =>
           BodyHeld(x, Holder(L, "handler"), b, y)
  <2>1. Given(L, w, x, b, y)
    BY <1>2, <1>4, <1>6, Gives
  <2> QED BY <2>1 DEF Given
<1>9. Told(L, "handler", v, y)
  <2>1. Told(L, "handler", w, y) /\ v.heads = w.heads /\ v.info = w.info
    BY <1>3, <1>8
  <2> QED BY <2>1 DEF Told, Captured, Direct
<1>10. ASSUME NEW length, Declared(w, length) PROVE Declared(v, length)
  <2>1. w.left # Any => v.left # Any /\ v.pieces + v.left = w.pieces + w.left
    BY <1>3, <1>5
  <2> QED BY <1>3, <1>10, <2>1 DEF Declared
<1>11. ASSUME NEW c, NEW d, NEW h, c.codings = <<>>, d.codings = <<>>, Coded(L, m, w, c, h)
       PROVE  Coded(L, m, v, d, h)
  BY <1>3, <1>11 DEF Coded, Recoding
<1>12. ASSUME "gzip" \notin L, Holder(L, "handler") # "client" PROVE Kept(L, m, "handler", v, y)
  <2>1. PICK t : t = Holder(L, "handler")
    OBVIOUS
  <2>2. t \in Layers /\ t \in {"subfilter", "brotli"}
    BY <1>4, <1>12, <2>1, Ranks
  <2>3. /\ y.buf[t] = Join(x.buf[t], b) /\ (\A l \in Layers \ {t} : y.buf[l] = x.buf[l])
        /\ y.body = x.body /\ y.cut = x.cut
    BY <1>8, <1>12, <2>1 DEF BodyHeld
  <2>4. /\ x.body = Empty /\ ~x.cut /\ Whole(L, "handler", w, x.buf[t]) /\ x.buf[t].codings = <<>>
        /\ Coded(L, m, w, x.buf[t], x.header)
        /\ t = "subfilter" => x.buf["brotli"] = Empty
        /\ t = "brotli" =>
             Merging(L, w, x.header) \/ Sized("handler", w, x.buf[t], x.header.length)
    BY <1>4, <1>12, <2>1 DEF Filled, Kept
  <2>5. x.buf[t] \in Body
    BY <2>2, Parts
  <2>6. Whole(L, "handler", v, y.buf[t]) /\ y.buf[t].codings = <<>>
    BY <1>3, <1>6, <2>3, <2>4, <2>5 DEF Whole
  <2>7. Coded(L, m, v, y.buf[t], y.header)
    BY <1>8, <1>11, <2>4, <2>6
  <2>8. t = "brotli" => Merging(L, v, y.header) \/ Sized("handler", v, y.buf[t], y.header.length)
    BY <1>3, <1>8, <1>10, <2>4 DEF Merging, Sized
  <2>9. t = "subfilter" => y.buf["brotli"] = Empty
    BY <2>3, <2>4, Ranks
  <2> QED BY <2>1, <2>3, <2>4, <2>6, <2>7, <2>8, <2>9 DEF Kept
<1>13. ASSUME "gzip" \notin L, Holder(L, "handler") = "client" PROVE Got(L, m, "handler", v, y)
  <2>1. PICK h, c : h = HeaderOf(x) /\ c = Join(x.body, b)
    OBVIOUS
  <2>2. /\ y.status # "none" /\ y.sent = h
        /\ IF Within(c, h.length) THEN y.body = c /\ y.cut = x.cut ELSE y.body = x.body
    BY <1>8, <1>13, <2>1 DEF BodySent
  <2>3. HeaderOf(y) = h
    BY <2>2 DEF HeaderOf
  <2>4. /\ Coded(L, m, w, x.body, h) /\ x.body.codings = <<>>
        /\ \/ Merging(L, w, h)
           \/ ~x.cut /\ Whole(L, "handler", w, x.body) /\ Sized("handler", w, x.body, h.length)
    BY <1>4, <1>13, <2>1 DEF Filled, Got
  <2>5. /\ x.body \in Body /\ c.codings = <<>> /\ (c.filtered <=> x.body.filtered)
        /\ x.body.pieces = Firsts(w.pieces) => c.pieces = Firsts(n)
        /\ c \in Body /\ "subfilter" \notin L
    BY <1>4, <1>6, <1>13, <2>1, Parts DEF Buffers
  <2>6. y.body.codings = <<>>
    BY <2>2, <2>4, <2>5
  <2>7. Coded(L, m, v, y.body, h)
    BY <1>11, <2>4, <2>6
  <2>8. ASSUME ~Merging(L, v, h)
        PROVE  ~y.cut /\ Whole(L, "handler", v, y.body) /\ Sized("handler", v, y.body, h.length)
    <3>1. ~Merging(L, w, h)
      BY <1>3, <2>8 DEF Merging
    <3>2. ~x.cut /\ Whole(L, "handler", w, x.body) /\ Sized("handler", w, x.body, h.length)
      BY <2>4, <3>1
    <3>3. c.pieces = Firsts(n) /\ c.filtered = FALSE
      BY <2>5, <3>2 DEF Whole, Body
    <3>4. Within(c, h.length)
      <4>1. CASE Len(w.heads) > 1
        BY <2>5, <3>1, <4>1 DEF Merging, Within
      <4>2. CASE ~(Len(w.heads) > 1)
        <5>1. Declared(w, h.length)
          BY <1>4, <3>2, <4>2 DEF Sized
        <5>2. CASE w.left = Any
          BY <5>1, <5>2 DEF Declared, Within
        <5>3. CASE w.left # Any
          <6>1. PICK k : k = w.pieces + w.left
            OBVIOUS
          <6>2. h.length[1][1] = k /\ h.length[1][2] = FALSE
            <7>1. PICK p : p = << k, FALSE >>
              OBVIOUS
            <7>2. h.length = << p >>
              BY <5>1, <5>3, <6>1, <7>1 DEF Declared
            <7>3. p[1] = k /\ p[2] = FALSE
              BY <7>1
            <7> QED BY <7>2, <7>3
          <6>3. Len(c.pieces) = n
            BY <1>5, <3>3 DEF Firsts
          <6>4. n <= k
            BY <1>5, <5>3, <6>1
          <6> QED BY <2>5, <3>3, <6>2, <6>3, <6>4 DEF Within
        <5> QED BY <5>2, <5>3
      <4> QED BY <4>1, <4>2
    <3>5. y.body = c /\ ~y.cut
      BY <2>2, <3>2, <3>4
    <3>6. Whole(L, "handler", v, c)
      BY <1>3, <2>5, <3>3 DEF Whole
    <3>7. Sized("handler", v, c, h.length)
      BY <1>3, <1>10, <3>2 DEF Sized
    <3> QED BY <3>5, <3>6, <3>7
  <2> QED BY <2>3, <2>6, <2>7, <2>8 DEF Got
<1>14. "gzip" \notin L => Filled(L, m, "handler", v, y)
  BY <1>12, <1>13 DEF Filled
<1> QED BY <1>3, <1>4, <1>7, <1>8, <1>9, <1>14 DEF Right

\* The retry fails, and an error follows what the first attempt has written.
LEMMA Fails ==
  ASSUME NEW L \in SUBSET Layers, NEW m, NEW x \in Response, NEW w \in Words, NEW v \in Words, NEW n,
         Right(L, m, "handler", w, x), w.heads = << "error" >>, n = w.pieces + 1, n <= MaxPieces,
         v = [w EXCEPT !.heads = Append(@, "error"), !.own = Append(@, <<>>), !.pieces = n, !.left = 0]
  PROVE  LET z == WriteHeader(L, [x EXCEPT !.header.length = <<>>], "handler", "error")
             y == Write(L, z, "handler", [Empty EXCEPT !.pieces = << n >>])
         IN  y \in Response /\ Right(L, m, "handler", v, y)
<1>1. PICK b : b = [Empty EXCEPT !.pieces = << n >>]
  OBVIOUS
<1>2. PICK q : q = [x EXCEPT !.header.length = <<>>]
  OBVIOUS
<1>3. PICK z : z = WriteHeader(L, q, "handler", "error")
  OBVIOUS
<1>4. PICK y : y = Write(L, z, "handler", b)
  OBVIOUS
<1> SUFFICES y \in Response /\ Right(L, m, "handler", v, y)
  BY <1>1, <1>2, <1>3, <1>4
<1>5. /\ v.heads = Append(w.heads, "error") /\ v.own = Append(w.own, <<>>) /\ v.left = 0
      /\ v.pieces = n /\ v.refused = w.refused /\ v.info = w.info
  BY DEF Words
<1>6. /\ ~w.refused /\ Told(L, "handler", w, x) /\ ("gzip" \notin L => Filled(L, m, "handler", w, x))
      /\ w.heads \in Seq({"ok", "error"}) /\ Len(w.own) = Len(w.heads)
      /\ Holder(L, "handler") = "client" <=> ~Buffers(L)
      /\ Holder(L, "handler") \in {"subfilter", "brotli", "client"}
  BY Running
<1>7. PICK h : h = [x.header EXCEPT !.length = <<>>]
  OBVIOUS
<1>8. /\ h \in Header /\ h.length = <<>> /\ h.coding = x.header.coding /\ HeaderChanged(x, h, q)
      /\ x.header \in Header /\ x.sent \in Header
  <2>1. <<>> \in Seq(Lengths)
    OBVIOUS
  <2>2. h \in Header /\ h.length = <<>> /\ h.coding = x.header.coding /\ q = [x EXCEPT !.header = h]
    BY <1>2, <1>7, <2>1, LengthSet
  <2> QED BY <2>2, HeaderSet, Parts
<1>9. Headed(q, z) /\ Told(L, "handler", v, z)
  <2>1. Hears(L, w, x) /\ SaidNext(w, "error", v)
    BY <1>5, <1>6 DEF Hears, SaidNext
  <2> QED BY <1>3, <1>8, <2>1, Adds
<1>10. /\ z \in Response /\ z.header = h /\ z.buf = x.buf /\ z.body = x.body /\ z.cut = x.cut
       /\ HeaderOf(z) = IF x.status = "none" THEN h ELSE x.sent
  BY <1>8, <1>9 DEF Headed, HeaderChanged, HeaderOf
<1>11. /\ v.heads \in Seq({"ok", "error"}) /\ v.heads # <<>> /\ Len(v.heads) = 2 /\ Len(v.own) = 2
       /\ Len(w.heads) = 1 /\ Another(w, <<>>, v) /\ <<>> \in Seq(Codings)
  <2>1. Another(w, <<>>, v) /\ <<>> \in Seq(Codings)
    BY <1>5, <1>6 DEF Another
  <2>2. Len(w.heads) = 1 /\ Len(v.own) = 2
    BY <2>1, AnswerCount
  <2>3. v.heads \in Seq({"ok", "error"}) /\ Len(v.heads) = Len(w.heads) + 1
    BY <1>5, <1>6
  <2>4. v.heads # <<>>
    BY <2>2, <2>3
  <2> QED BY <2>1, <2>2, <2>3, <2>4
<1>12. Turn(L, "handler", v, y)
  BY <1>11 DEF Turn
<1>13. w.pieces \in Nat
  BY PiecesAssumption DEF Words
<1>14. /\ b \in Body /\ b.codings = <<>>
       /\ \A c \in Body : /\ Join(c, b) \in Body /\ Join(c, b).codings = <<>>
                          /\ Join(c, b).filtered <=> c.filtered
                          /\ c.pieces = Firsts(w.pieces) => Join(c, b).pieces = Firsts(n)
  <2>1. Piecewise(w.pieces, b)
    BY <1>1, <1>13, NextPiece
  <2> QED BY <2>1 DEF Piecewise
<1>15. /\ y \in Response /\ Told(L, "handler", v, y) /\ y.header = h
       /\ "gzip" \notin L /\ Holder(L, "handler") = "client" => BodySent(L, z, b, y)
       /\ "gzip" \notin L /\ Holder(L, "handler") # "client" =>
            BodyHeld(z, Holder(L, "handler"), b, y)
  <2>1. Given(L, v, z, b, y)
    BY <1>4, <1>9, <1>10, <1>11, <1>14, Gives
  <2> QED BY <1>10, <2>1 DEF Given
<1>16. \A c, length : Sized("handler", v, c, length)
  BY <1>11 DEF Sized
<1>17. ASSUME "gzip" \notin L, Holder(L, "handler") # "client" PROVE Kept(L, m, "handler", v, y)
  <2>1. PICK t : t = Holder(L, "handler")
    OBVIOUS
  <2>2. t \in Layers /\ t \in {"subfilter", "brotli"}
    BY <1>6, <1>17, <2>1, Ranks
  <2>3. /\ y.buf[t] = Join(x.buf[t], b) /\ (\A l \in Layers \ {t} : y.buf[l] = x.buf[l])
        /\ y.body = x.body /\ y.cut = x.cut
    BY <1>10, <1>15, <1>17, <2>1 DEF BodyHeld
  <2>4. /\ x.body = Empty /\ ~x.cut /\ Whole(L, "handler", w, x.buf[t]) /\ x.buf[t].codings = <<>>
        /\ Coded(L, m, w, x.buf[t], x.header)
        /\ t = "subfilter" => x.buf["brotli"] = Empty
    BY <1>6, <1>17, <2>1 DEF Filled, Kept
  <2>5. x.buf[t] \in Body
    BY <2>2, Parts
  <2>6. Whole(L, "handler", v, y.buf[t]) /\ y.buf[t].codings = <<>>
    BY <1>5, <1>14, <2>3, <2>4, <2>5 DEF Whole
  <2>7. Coded(L, m, v, y.buf[t], h)
    <3>1. HeaderMore(w, <<>>, x.header, h)
      <4>1. x.header.coding \o <<>> = x.header.coding
        BY <1>8 DEF Header
      <4> QED BY <1>8, <4>1 DEF HeaderMore
    <3> QED BY <1>11, <2>4, <2>6, <3>1, CodedMore
  <2>8. t = "subfilter" => y.buf["brotli"] = Empty
    BY <2>3, <2>4, Ranks
  <2> QED BY <1>15, <1>16, <2>1, <2>3, <2>4, <2>6, <2>7, <2>8 DEF Kept
<1>18. ASSUME "gzip" \notin L, Holder(L, "handler") = "client" PROVE Got(L, m, "handler", v, y)
  <2>1. PICK g, c : g = HeaderOf(z) /\ c = Join(x.body, b)
    OBVIOUS
  <2>2. /\ y.status # "none" /\ y.sent = g
        /\ IF Within(c, g.length) THEN y.body = c /\ y.cut = x.cut ELSE y.body = x.body
    BY <1>10, <1>15, <1>18, <2>1 DEF BodySent
  <2>3. HeaderOf(y) = g
    BY <2>2 DEF HeaderOf
  <2>4. Coded(L, m, w, x.body, HeaderOf(x)) /\ x.body.codings = <<>>
        /\ ~x.cut /\ Whole(L, "handler", w, x.body)
    BY <1>6, <1>11, <1>18 DEF Filled, Got, Merging
  <2>5. /\ x.body \in Body /\ c.codings = <<>> /\ (c.filtered <=> x.body.filtered)
        /\ x.body.pieces = Firsts(w.pieces) => c.pieces = Firsts(n)
        /\ "subfilter" \notin L
    BY <1>6, <1>14, <1>18, <2>1, Parts DEF Buffers
  <2>6. y.body.codings = <<>>
    BY <2>2, <2>4, <2>5
  <2>7. Coded(L, m, v, y.body, g)
    <3>1. HeaderOf(x) \in Header /\ g \in Header /\ g.coding = HeaderOf(x).coding
      BY <1>8, <1>10, <2>1 DEF HeaderOf
    <3>2. HeaderMore(w, <<>>, HeaderOf(x), g)
      BY <3>1 DEF HeaderMore
    <3> QED BY <1>11, <2>4, <2>6, <3>2, CodedMore
  <2>8. ASSUME ~Merging(L, v, g) PROVE ~y.cut /\ Whole(L, "handler", v, y.body)
    <3>1. g.length = <<>>
      BY <1>11, <2>5, <2>8 DEF Merging
    <3>2. y.body = c /\ ~y.cut
      BY <2>2, <2>4, <3>1 DEF Within
    <3> QED BY <1>5, <2>4, <2>5, <3>2 DEF Whole
  <2> QED BY <1>16, <2>3, <2>6, <2>7, <2>8 DEF Got
<1>19. "gzip" \notin L => Filled(L, m, "handler", v, y)
  BY <1>17, <1>18 DEF Filled
<1> QED BY <1>5, <1>6, <1>12, <1>15, <1>19 DEF Right

\* A gate refuses.
LEMMA Refuses ==
  ASSUME NEW L \in SUBSET Layers, NEW m, NEW x \in Response, NEW w \in Words, NEW v, NEW y,
         Right(L, m, "handler", w, x), w.heads = <<>>, ~w.info,
         v = [Silent EXCEPT !.heads = << "error" >>, !.own = << <<>> >>, !.pieces = 1,
                            !.refused = TRUE],
         y = [Log(x, "error") EXCEPT !.body.pieces = << 1 >>]
  PROVE  y \in Response /\ Right(L, m, "end", v, y)
<1>1. "error" \in Statuses /\ "error" # "info"
  BY DEF Statuses
<1>2. PICK z : z = Log(x, "error")
  OBVIOUS
<1>3. Logged(x, "error", z)
  BY <1>1, <1>2, Logs
<1>4. x.status = "none" /\ x.body = Empty /\ ~x.cut /\ x.header = Nothing
  BY DEF Right, Turn
<1>5. /\ z \in Response /\ z.logged = "error" /\ z.status = "error" /\ z.sent = Nothing
      /\ z.body = Empty /\ ~z.cut
  BY <1>1, <1>3, <1>4 DEF Logged
<1>6. PICK b : b = [Empty EXCEPT !.pieces = <<1>>]
  OBVIOUS
<1>7. b \in Body
  <2>1. b = [pieces |-> <<1>>, filtered |-> FALSE, codings |-> <<>>]
    BY <1>6 DEF Empty
  <2>2. <<1>> \in Seq(1 .. MaxPieces) /\ <<>> \in Seq(Codings)
    BY PiecesAssumption
  <2> QED BY <2>1, <2>2 DEF Body
<1>8. y = [z EXCEPT !.body = b]
  BY <1>2, <1>5, <1>6 DEF Response
<1>9. /\ y \in Response /\ y.body = b /\ y.logged = z.logged /\ y.status = z.status
      /\ y.sent = z.sent /\ y.cut = z.cut
  BY <1>5, <1>7, <1>8 DEF Response
<1>10. /\ v.heads = <<"error">> /\ v.own = << <<>> >> /\ v.pieces = 1 /\ v.left = Any
       /\ v.info = FALSE /\ v.refused = TRUE
  BY DEF Silent
<1>11. Refused("end", v, y)
  BY <1>5, <1>6, <1>9, <1>10 DEF Refused
<1>12. Turn(L, "end", v, y)
  <2>1. <<"error">> \in Seq({"ok", "error"}) /\ <<"error">> # <<>>
    OBVIOUS
  <2>2. Len(v.own) = 1 /\ Len(v.heads) = 1
    BY <1>10
  <2> QED BY <1>10, <2>1, <2>2 DEF Turn
<1> QED BY <1>9, <1>10, <1>11, <1>12 DEF Right

\* The handler returns, or gzip has nothing to do: who holds the response still
\* does, unless gzip had the body.
LEMMA PassesOn ==
  ASSUME NEW L \in SUBSET Layers, NEW m, NEW x \in Response, NEW w \in Words,
         NEW t \in {"handler", "gzip"}, Right(L, m, t, w, x), w.heads # <<>>,
         t \in L \cup {"handler"}, w.left \in {Any, 0}
  PROVE  Right(L, m, Outward(L, t), w, x)
<1>1. PICK u : u = Outward(L, t)
  OBVIOUS
<1>2. u \in {"subfilter", "gzip", "brotli", "end"} /\ (u \in L \/ u = "end")
  BY <1>1, Outwards
<1>3. Holder(L, u) = Holder(L, t)
  BY <1>1, Outwards DEF Holder
<1>4. ~w.refused /\ Told(L, t, w, x) /\ ("gzip" \notin L => Filled(L, m, t, w, x))
      /\ w.heads \in Seq({"ok", "error"}) /\ Len(w.own) = Len(w.heads)
  BY DEF Right, Refused, Turn
<1>5. Turn(L, u, w, x)
  BY <1>2, <1>4 DEF Turn
<1>6. Told(L, u, w, x)
  BY <1>3, <1>4, ToldSame
<1>7. ASSUME "gzip" \notin L PROVE Filled(L, m, u, w, x)
  <2>1. t = "handler" /\ u # "handler"
    BY <1>2, <1>7
  <2>2. \A b : Whole(L, t, w, b) <=> Whole(L, u, w, b)
    BY <1>3 DEF Whole
  <2>3. CASE Holder(L, t) # "client"
    <3>1. PICK b : b = x.buf[Holder(L, t)]
      OBVIOUS
    <3>2. b \in Body
      <4>1. Holder(L, t) \in Layers
        BY <2>1, <2>3, Ranks DEF Holder
      <4> QED BY <3>1, <4>1, Parts
    <3>3. /\ x.body = Empty /\ ~x.cut
          /\ Whole(L, t, w, b) /\ b.codings = <<>> /\ Coded(L, m, w, b, x.header)
          /\ Holder(L, t) = "subfilter" => x.buf["brotli"] = Empty
          /\ Holder(L, t) = "brotli" =>
               Merging(L, w, x.header) \/ Sized(t, w, b, x.header.length)
      BY <1>4, <1>7, <2>3, <3>1 DEF Filled, Kept
    <3>4. ASSUME Holder(L, t) = "brotli"
          PROVE  Merging(L, w, x.header) \/ Sized(u, w, b, x.header.length)
      <4>1. "subfilter" \notin L
        BY <2>1, <3>4 DEF Holder
      <4>2. b.pieces = Firsts(w.pieces) /\ ~b.filtered
        BY <3>3, <4>1 DEF Whole
      <4> QED BY <1>4, <2>1, <3>2, <3>3, <3>4, <4>1, <4>2, Completed
    <3>5. Kept(L, m, u, w, x)
      BY <1>3, <2>2, <3>1, <3>3, <3>4 DEF Kept
    <3> QED BY <1>3, <2>3, <3>5 DEF Filled
  <2>4. CASE Holder(L, t) = "client"
    <3>1. Got(L, m, t, w, x)
      BY <1>4, <1>7, <2>4 DEF Filled
    <3>2. "subfilter" \notin L /\ x.body \in Body
      BY <2>1, <2>4, Parts DEF Holder
    <3>3. ASSUME ~Merging(L, w, HeaderOf(x))
          PROVE  Sized(u, w, x.body, HeaderOf(x).length)
      <4>1. Whole(L, t, w, x.body) /\ Sized(t, w, x.body, HeaderOf(x).length)
        BY <3>1, <3>3 DEF Got
      <4>2. x.body.pieces = Firsts(w.pieces) /\ ~x.body.filtered
        BY <3>2, <4>1 DEF Whole
      <4> QED BY <1>4, <2>1, <3>2, <3>3, <4>1, <4>2, Completed
    <3>4. Got(L, m, u, w, x)
      BY <2>1, <2>2, <3>1, <3>3 DEF Got
    <3> QED BY <1>3, <2>4, <3>4 DEF Filled
  <2> QED BY <2>3, <2>4
<1>8. Right(L, m, u, w, x)
  BY <1>4, <1>5, <1>6, <1>7 DEF Right
<1> QED BY <1>1, <1>8

\* The last status, as a layer that had captured it hands it on.
LEMMA HeldStatus ==
  ASSUME NEW L, NEW m, NEW t \in {"subfilter", "brotli"}, NEW w, NEW x, t \in L,
         Right(L, m, t, w, x)
  PROVE  /\ ~w.refused /\ w.heads \in Seq({"ok", "error"}) /\ w.heads # <<>>
         /\ Len(w.own) = Len(w.heads) /\ w.left \in {Any, 0}
         /\ Holder(L, t) = t /\ Captured(L, t, w, x) /\ x.code[t] = Last(w.heads)
         /\ Last(w.heads) \in {"ok", "error"} /\ Last(w.heads) \in Statuses
         /\ Last(w.heads) # "none" /\ Last(w.heads) # "info"
         /\ "gzip" \notin L => Kept(L, m, t, w, x)
         /\ Buffers(L)
<1>1. Holder(L, t) = t /\ t # "client" /\ t # "handler" /\ Buffers(L)
  BY DEF Holder, Buffers
<1>2. /\ ~w.refused /\ w.heads \in Seq({"ok", "error"}) /\ w.heads # <<>>
      /\ Len(w.own) = Len(w.heads) /\ w.left \in {Any, 0}
  BY <1>1 DEF Right, Refused, Turn
<1>3. Last(w.heads) \in {"ok", "error"}
  BY <1>2, Lasts
<1>4. Captured(L, t, w, x) /\ x.code[t] = Last(w.heads)
  BY <1>1, <1>2 DEF Right, Told, Captured
<1>5. "gzip" \notin L => Kept(L, m, t, w, x)
  BY <1>1, <1>2 DEF Right, Filled
<1> QED BY <1>1, <1>2, <1>3, <1>4, <1>5 DEF Statuses

\* The body after the status, in one write.
LEMMA GivesBody ==
  ASSUME NEW L, NEW x \in Response, NEW y, NEW b \in Body,
         x.status # "none", x.fixed <=> "headers" \in L,
         y = SendBody(L, x, b)
  PROVE  /\ y \in Response /\ y.header = x.header
         /\ y.status = x.status /\ y.logged = x.logged /\ (y.fixed <=> "headers" \in L) /\ y.sent = x.sent
         /\ x.body = Empty =>
              IF Within(b, x.sent.length) THEN y.body = b /\ y.cut = x.cut ELSE y.body = Empty
<1>1. BodySent(L, x, b, y)
  BY SendBodies
<1>2. HeaderOf(x) = x.sent
  BY DEF HeaderOf
<1>3. /\ y \in Response /\ y.header = x.header
      /\ y.status = x.status /\ y.logged = x.logged /\ (y.fixed <=> "headers" \in L) /\ y.sent = x.sent
      /\ IF Within(Join(x.body, b), x.sent.length) THEN y.body = Join(x.body, b) /\ y.cut = x.cut
         ELSE y.body = x.body
  BY <1>1, <1>2 DEF BodySent
<1>4. Join(Empty, b) = b
  BY Joins
<1> QED BY <1>3, <1>4

\* Subfilter hands on the status and the replaced body, with its length.
LEMMA SubFilters ==
  ASSUME NEW L \in SUBSET Layers, NEW m, NEW x \in Response, NEW w \in Words, "subfilter" \in L,
         Right(L, m, "subfilter", w, x)
  PROVE  LET b == [x.buf["subfilter"] EXCEPT !.filtered = TRUE]
             z == [x EXCEPT !.header.length = << Size(b) >>]
             y == WriteHeader(L, z, "subfilter", z.code["subfilter"])
             v == Write(L, y, "subfilter", b)
         IN  v \in Response /\ Right(L, m, Outward(L, "subfilter"), w, v)
<1>1. PICK b : b = [x.buf["subfilter"] EXCEPT !.filtered = TRUE]
  OBVIOUS
<1>2. PICK z : z = [x EXCEPT !.header.length = << Size(b) >>]
  OBVIOUS
<1>3. PICK y : y = WriteHeader(L, z, "subfilter", z.code["subfilter"])
  OBVIOUS
<1>4. PICK v : v = Write(L, y, "subfilter", b)
  OBVIOUS
<1> SUFFICES v \in Response /\ Right(L, m, Outward(L, "subfilter"), w, v)
  BY <1>1, <1>2, <1>3, <1>4
<1>5. PICK s : s = Last(w.heads)
  OBVIOUS
<1>6. /\ ~w.refused /\ w.heads \in Seq({"ok", "error"}) /\ w.heads # <<>>
      /\ Len(w.own) = Len(w.heads) /\ w.left \in {Any, 0}
      /\ x.code["subfilter"] = s /\ s \in Statuses /\ s # "none" /\ s # "info"
      /\ x.status = "none" /\ ~x.fixed /\ x.logged = "ok"
      /\ "gzip" \notin L => Kept(L, m, "subfilter", w, x)
      /\ Buffers(L) /\ Holder(L, "subfilter") = "subfilter"
  BY <1>5, HeldStatus DEF Captured
<1>7. PICK c : c = x.buf["subfilter"]
  OBVIOUS
<1>8. /\ c \in Body /\ b \in Body /\ b.pieces = c.pieces /\ b.codings = c.codings /\ b.filtered
      /\ x.buf["brotli"] \in Body
  <2>1. c \in Body /\ x.buf["brotli"] \in Body
    BY <1>7, Parts, Ranks
  <2>2. b = [c EXCEPT !.filtered = TRUE]
    BY <1>1, <1>7
  <2> QED BY <2>1, <2>2 DEF Body
<1>9. /\ z \in Response /\ z.header \in Header /\ z.header.length = << Size(b) >>
      /\ z.header.coding = x.header.coding
      /\ z.buf = x.buf /\ z.code = x.code /\ ~z.fixed /\ z.logged = "ok"
      /\ z.status = "none" /\ z.body = x.body /\ z.cut = x.cut
  <2>1. PICK n : n = << Size(b) >>
    OBVIOUS
  <2>2. n \in Seq(Lengths)
    <3>1. Len(b.pieces) \in Nat /\ b.filtered \in BOOLEAN
      BY <1>8 DEF Body
    <3>2. Size(b) \in Lengths
      BY <3>1 DEF Size, Lengths
    <3> QED BY <2>1, <3>2
  <2>3. PICK h : h = [x.header EXCEPT !.length = n]
    OBVIOUS
  <2>4. h \in Header /\ h.length = n /\ h.coding = x.header.coding /\ z = [x EXCEPT !.header = h]
    BY <1>2, <2>1, <2>2, <2>3, LengthSet
  <2>5. HeaderChanged(x, h, z)
    BY <2>4, HeaderSet
  <2> QED BY <1>6, <2>1, <2>4, <2>5 DEF HeaderChanged
<1>10. PICK u : u = Outward(L, "subfilter")
  OBVIOUS
<1>11. /\ u = IF "gzip" \in L THEN "gzip" ELSE IF "brotli" \in L THEN "brotli" ELSE "end"
      /\ Holder(L, u) = IF "brotli" \in L THEN "brotli" ELSE "client"
  BY <1>10, Outwards DEF Holder
<1>12. Turn(L, u, w, v)
  BY <1>6, <1>11 DEF Turn
<1>13. ASSUME "gzip" \notin L
      PROVE  /\ b.pieces = Firsts(w.pieces) /\ b.codings = <<>>
             /\ x.body = Empty /\ ~x.cut /\ x.buf["brotli"] = Empty
             /\ Coded(L, m, w, b, z.header) /\ Within(b, z.header.length)
             /\ Sized(u, w, b, z.header.length)
  <2>1. Kept(L, m, "subfilter", w, x)
    BY <1>6, <1>13
  <2>2. /\ c.pieces = Firsts(w.pieces) /\ c.codings = <<>> /\ Coded(L, m, w, c, x.header)
        /\ x.body = Empty /\ ~x.cut /\ x.buf["brotli"] = Empty
    BY <1>6, <1>7, <2>1 DEF Kept, Whole
  <2>3. Coded(L, m, w, b, z.header)
    BY <1>8, <1>9, <2>2 DEF Coded
  <2>4. Within(b, z.header.length)
    BY <1>8, <1>9, <2>2, OwnLength
  <2>5. Sized(u, w, b, z.header.length)
    BY <1>9, <1>11 DEF Sized
  <2> QED BY <1>8, <2>2, <2>3, <2>4, <2>5
<1> SUFFICES v \in Response /\ Told(L, u, w, v) /\ ("gzip" \notin L => Filled(L, m, u, w, v))
  BY <1>6, <1>10, <1>12 DEF Right
<1>14. y = WriteHeader(L, z, "subfilter", s)
  BY <1>6, <1>9, <1>3
<1>15. "brotli" \in Layers /\ "gzip" \in Layers
  BY Ranks
<1>16. CASE "brotli" \in L
  <2>1. y = [z EXCEPT !.code["brotli"] = s]
    BY <1>16, <1>14, StatusGoes
  <2>2. StatusHeld(z, "brotli", s, y)
    BY <1>6, <1>9, <1>15, <2>1, TakesStatus
  <2>3. PICK k \in {"gzip", "brotli"} : v = [y EXCEPT !.buf[k] = Join(@, b)] /\ ("gzip" \notin L => k = "brotli")
    <3>1. CASE "gzip" \in L
      BY <1>4, <3>1, BodyGoes
    <3>2. CASE "gzip" \notin L
      BY <1>16, <1>4, <3>2, BodyGoes
    <3> QED BY <3>1, <3>2
  <2>4. BodyHeld(y, k, b, v)
    <3>1. y \in Response /\ k \in Layers
      BY <1>15, <2>2 DEF StatusHeld
    <3> QED BY <1>8, <2>3, <3>1, TakesBody
  <2>5. /\ v \in Response /\ v.code["brotli"] = s /\ v.header = z.header /\ ~v.fixed /\ v.logged = "ok"
        /\ v.status = "none" /\ v.body = x.body /\ v.cut = x.cut
        /\ v.buf[k] = Join(x.buf[k], b)
    <3>1. /\ y.code["brotli"] = s /\ y.header = z.header /\ y.buf = x.buf /\ ~y.fixed /\ y.logged = "ok"
          /\ y.status = "none" /\ y.body = x.body /\ y.cut = x.cut
      BY <1>9, <2>2 DEF StatusHeld
    <3> QED BY <2>4, <3>1 DEF BodyHeld
  <2>6. Told(L, u, w, v)
    BY <1>5, <1>6, <1>11, <1>16, <2>5 DEF Told, Captured
  <2>7. ASSUME "gzip" \notin L PROVE Filled(L, m, u, w, v)
    <3>1. Holder(L, u) = "brotli" /\ v.buf["brotli"] = b
      <4>1. Join(Empty, b) = b
        BY <1>8, Joins
      <4> QED BY <1>11, <1>13, <1>16, <2>3, <2>5, <2>7, <4>1
    <3>2. Whole(L, u, w, b)
      BY <1>8, <1>13, <2>7, <3>1 DEF Whole
    <3>3. Kept(L, m, u, w, v)
      BY <1>13, <2>5, <2>7, <3>1, <3>2 DEF Kept
    <3> QED BY <3>1, <3>3 DEF Filled
  <2> QED BY <2>5, <2>6, <2>7
<1>17. CASE "brotli" \notin L
  <2>1. y = SendHeader(L, z, s)
    BY <1>17, <1>14, StatusGoes
  <2>2. /\ y \in Response
        /\ y.status = s /\ y.logged = s /\ (y.fixed <=> "headers" \in L) /\ y.sent = z.header
        /\ y.header = z.header /\ y.buf = z.buf /\ y.code = z.code /\ y.body = z.body /\ y.cut = z.cut
    <3>1. HeadSent(L, z, s, y)
      BY <1>6, <1>9, <2>1, Heads
    <3> QED BY <1>6, <1>9, <3>1 DEF HeadSent
  <2>3. Holder(L, u) = "client"
    BY <1>11, <1>17
  <2>4. CASE "gzip" \in L
    <3>1. v = [y EXCEPT !.buf["gzip"] = Join(@, b)]
      BY <1>4, <2>4, BodyGoes
    <3>2. BodyHeld(y, "gzip", b, v)
      BY <1>8, <1>15, <2>2, <3>1, TakesBody
    <3>3. v \in Response /\ v.status = s /\ v.logged = s /\ (v.fixed <=> "headers" \in L)
      BY <2>2, <3>2 DEF BodyHeld
    <3> QED BY <1>5, <1>6, <2>3, <2>4, <3>3 DEF Told
  <2>5. CASE "gzip" \notin L
    <3>1. v = SendBody(L, y, b)
      BY <1>17, <1>4, <2>5, BodyGoes
    <3>2. /\ v \in Response /\ v.header = y.header
          /\ v.status = s /\ v.logged = s /\ (v.fixed <=> "headers" \in L) /\ v.sent = z.header
          /\ y.body = Empty =>
               IF Within(b, z.header.length) THEN v.body = b /\ v.cut = y.cut ELSE v.body = Empty
      BY <1>6, <1>8, <2>2, <3>1, GivesBody
    <3>3. Told(L, u, w, v)
      BY <1>5, <1>6, <2>3, <3>2 DEF Told
    <3>4. v.body = b /\ ~v.cut
      BY <1>9, <1>13, <2>2, <2>5, <3>2
    <3>5. HeaderOf(v) = z.header
      BY <1>6, <3>2 DEF HeaderOf
    <3>6. Whole(L, u, w, b)
      BY <1>8, <1>13, <2>3, <2>5 DEF Whole
    <3>7. u = "end"
      BY <1>11, <1>17, <2>5
    <3>8. Got(L, m, u, w, v)
      BY <1>13, <2>5, <3>4, <3>5, <3>6, <3>7 DEF Got
    <3>9. Filled(L, m, u, w, v)
      BY <2>3, <3>8 DEF Filled
    <3> QED BY <3>2, <3>3, <3>9
  <2> QED BY <2>4, <2>5
<1> QED BY <1>16, <1>17

\* Gzip hands on the coded body; the status went around it.
LEMMA Gzips ==
  ASSUME NEW L \in SUBSET Layers, NEW m, NEW x \in Response, NEW w \in Words, "gzip" \in L,
         Right(L, m, "gzip", w, x)
  PROVE  LET z == [x EXCEPT !.header = [coding |-> << "gzip" >>, length |-> <<>>]]
             v == Write(L, z, "gzip", [z.buf["gzip"] EXCEPT !.codings = Append(@, "gzip")])
         IN  v \in Response /\ Right(L, m, Outward(L, "gzip"), w, v)
<1>1. PICK z : z = [x EXCEPT !.header = [coding |-> << "gzip" >>, length |-> <<>>]]
  OBVIOUS
<1>2. PICK b : b = [z.buf["gzip"] EXCEPT !.codings = Append(@, "gzip")]
  OBVIOUS
<1>3. PICK v : v = Write(L, z, "gzip", b)
  OBVIOUS
<1> SUFFICES v \in Response /\ Right(L, m, Outward(L, "gzip"), w, v)
  BY <1>1, <1>2, <1>3
<1>4. ~w.refused /\ w.heads \in Seq({"ok", "error"}) /\ w.heads # <<>> /\ Told(L, "gzip", w, x)
      /\ Len(w.own) = Len(w.heads) /\ w.left \in {Any, 0}
  BY DEF Right, Refused, Turn
<1>5. PICK h : h = [coding |-> << "gzip" >>, length |-> <<>>]
  OBVIOUS
<1>6. h \in Header
  <2>1. <<"gzip">> \in Seq(Codings) /\ <<>> \in Seq(Lengths)
    BY DEF Codings
  <2> QED BY <1>5, <2>1 DEF Header
<1>7. HeaderChanged(x, h, z)
  BY <1>5, <1>6, <1>1, HeaderSet
<1>8. /\ z \in Response /\ z.buf = x.buf /\ z.code = x.code /\ (z.fixed <=> x.fixed)
      /\ z.logged = x.logged /\ z.status = x.status
  BY <1>7 DEF HeaderChanged
<1>9. b \in Body
  <2>1. PICK c : c = z.buf["gzip"]
    OBVIOUS
  <2>2. c \in Body
    BY <1>8, <2>1, Parts, Ranks
  <2>3. c.codings \in Seq(Codings) /\ "gzip" \in Codings
    BY <2>2 DEF Body, Codings
  <2>4. PICK q : q = Append(c.codings, "gzip")
    OBVIOUS
  <2>5. q \in Seq(Codings)
    BY <2>3, <2>4
  <2>6. b = [c EXCEPT !.codings = q]
    BY <1>2, <2>1, <2>2, <2>4 DEF Body
  <2> QED BY <2>2, <2>5, <2>6 DEF Body
<1>10. PICK u : u = Outward(L, "gzip")
  OBVIOUS
<1>11. u = (IF "brotli" \in L THEN "brotli" ELSE "end") /\ Holder(L, u) = Holder(L, "gzip")
  BY <1>10, Outwards DEF Holder
<1>12. Turn(L, u, w, v)
  BY <1>4, <1>11 DEF Turn
<1>13. Told(L, u, w, z)
  BY <1>4, <1>8, <1>11, ToldSame
<1> SUFFICES v \in Response /\ Told(L, u, w, v)
  BY <1>4, <1>10, <1>12 DEF Right
<1>14. CASE "brotli" \in L
  <2>1. v = [z EXCEPT !.buf["brotli"] = Join(@, b)]
    BY <1>14, <1>3, BodyGoes
  <2>2. BodyHeld(z, "brotli", b, v)
    <3>1. "brotli" \in Layers
      BY Ranks
    <3> QED BY <1>8, <1>9, <2>1, <3>1, TakesBody
  <2>3. /\ v \in Response /\ v.code = z.code /\ (v.fixed <=> z.fixed) /\ v.logged = z.logged
        /\ v.status = z.status
    BY <2>2 DEF BodyHeld
  <2> QED BY <1>13, <2>3, ToldSame
<1>15. CASE "brotli" \notin L
  <2>1. v = SendBody(L, z, b) /\ Holder(L, u) = "client"
    BY <1>11, <1>15, <1>3, BodyGoes DEF Holder
  <2>2. BodySent(L, z, b, v)
    BY <1>8, <1>9, <2>1, SendBodies
  <2>3. /\ v \in Response
        /\ z.status # "none" /\ ("headers" \in L => z.fixed) =>
             v.status = z.status /\ v.logged = z.logged /\ (v.fixed <=> z.fixed)
    BY <2>2 DEF BodySent
  <2>4. Last(w.heads) # "none" /\ w.heads[1] # "none"
    BY <1>4, Lasts
  <2>5. CASE Buffers(L)
    BY <1>13, <2>1, <2>3, <2>4, <2>5 DEF Told
  <2>6. CASE ~Buffers(L)
    BY <1>4, <1>13, <2>1, <2>3, <2>4, <2>6 DEF Told, Direct
  <2> QED BY <2>5, <2>6
<1> QED BY <1>14, <1>15

\* Brotli hands on the status and the body, coded or as it was: the client has all
\* that was not merged.
LEMMA Brotlis ==
  ASSUME NEW L \in SUBSET Layers, NEW m, NEW x \in Response, NEW w \in Words,
         NEW coded \in BOOLEAN, coded <=> "brotli" \in m,
         "brotli" \in L, Right(L, m, "brotli", w, x)
  PROVE  LET z == IF coded THEN [x EXCEPT !.header = [coding |-> << "br" >>, length |-> <<>>]] ELSE x
             b == IF coded THEN [z.buf["brotli"] EXCEPT !.codings = Append(@, "br")]
                  ELSE z.buf["brotli"]
             v == Write(L, WriteHeader(L, z, "brotli", z.code["brotli"]), "brotli", b)
         IN  v \in Response /\ Right(L, m, Outward(L, "brotli"), w, v)
<1>1. PICK z : z = IF coded THEN [x EXCEPT !.header = [coding |-> << "br" >>, length |-> <<>>]] ELSE x
  OBVIOUS
<1>2. PICK b : b = IF coded THEN [z.buf["brotli"] EXCEPT !.codings = Append(@, "br")]
                   ELSE z.buf["brotli"]
  OBVIOUS
<1>3. PICK y : y = WriteHeader(L, z, "brotli", z.code["brotli"])
  OBVIOUS
<1>4. PICK v : v = Write(L, y, "brotli", b)
  OBVIOUS
<1>5. Outward(L, "brotli") = "end" /\ Holder(L, "end") = "client"
  BY Outwards DEF Holder
<1> SUFFICES v \in Response /\ Right(L, m, "end", w, v)
  BY <1>1, <1>2, <1>3, <1>4, <1>5
<1>6. PICK s : s = Last(w.heads)
  OBVIOUS
<1>7. /\ ~w.refused /\ w.heads \in Seq({"ok", "error"}) /\ w.heads # <<>>
      /\ Len(w.own) = Len(w.heads) /\ w.left \in {Any, 0}
      /\ x.code["brotli"] = s /\ s \in Statuses /\ s # "none" /\ s # "info"
      /\ x.status = "none" /\ ~x.fixed /\ x.logged = "ok"
      /\ "gzip" \notin L => Kept(L, m, "brotli", w, x)
      /\ Buffers(L) /\ Holder(L, "brotli") = "brotli"
  BY <1>6, HeldStatus DEF Captured
<1>8. PICK c : c = x.buf["brotli"]
  OBVIOUS
<1>9. c \in Body
  BY <1>8, Parts, Ranks
<1>10. "gzip" \notin L =>
         /\ x.body = Empty /\ ~x.cut /\ Coded(L, m, w, c, x.header)
         /\ c.pieces = Firsts(w.pieces) /\ (c.filtered <=> "subfilter" \in L)
         /\ c.codings = <<>>
         /\ Merging(L, w, x.header) \/ Sized("brotli", w, c, x.header.length)
  BY <1>7, <1>8 DEF Kept, Whole
<1>11. /\ z \in Response /\ z.buf = x.buf /\ z.code = x.code /\ ~z.fixed
       /\ z.status = "none" /\ z.body = x.body /\ z.cut = x.cut
       /\ b \in Body /\ b.pieces = c.pieces /\ (b.filtered <=> c.filtered)
       /\ "gzip" \notin L =>
            /\ Coded(L, m, w, b, z.header)
            /\ z.header.length = <<>> \/ b.codings = <<>>
            /\ Merging(L, w, z.header) \/ z.header.length \in {<<>>, << Size(b) >>}
  <2>1. CASE coded
    <3>1. PICK h : h = [coding |-> <<"br">>, length |-> <<>>]
      OBVIOUS
    <3>2. h \in Header /\ h.coding = <<"br">> /\ h.length = <<>>
      <4>1. <<"br">> \in Seq(Codings) /\ <<>> \in Seq(Lengths)
        BY DEF Codings
      <4> QED BY <3>1, <4>1 DEF Header
    <3>3. z = [x EXCEPT !.header = h]
      BY <1>1, <2>1, <3>1
    <3>4. HeaderChanged(x, h, z)
      BY <3>2, <3>3, HeaderSet
    <3>5. /\ z \in Response /\ z.header = h /\ z.buf = x.buf /\ z.code = x.code /\ ~z.fixed
          /\ z.status = "none" /\ z.body = x.body /\ z.cut = x.cut
      BY <1>7, <3>4 DEF HeaderChanged
    <3>6. PICK q : q = Append(c.codings, "br")
      OBVIOUS
    <3>7. q \in Seq(Codings)
      BY <1>9, <3>6 DEF Body, Codings
    <3>8. b = [c EXCEPT !.codings = q]
      BY <1>2, <1>8, <1>9, <2>1, <3>5, <3>6 DEF Body
    <3>9. b \in Body /\ b.pieces = c.pieces /\ (b.filtered <=> c.filtered) /\ b.codings = q
      BY <1>9, <3>7, <3>8 DEF Body
    <3>10. ASSUME "gzip" \notin L PROVE Coded(L, m, w, b, h)
      <4>1. q = Append(<<>>, "br")
        BY <1>10, <3>6, <3>10
      <4>2. b.codings = <<"br">>
        BY <3>9, <4>1
      <4>3. CASE \E k \in DOMAIN w.own : w.own[k] # <<>>
        BY <2>1, <4>3 DEF Coded, Recoding
      <4>4. CASE \A k \in DOMAIN w.own : w.own[k] = <<>>
        <5>1. <<>> \o <<"br">> = <<"br">>
          OBVIOUS
        <5> QED BY <3>2, <4>2, <4>4, <5>1 DEF Coded
      <4> QED BY <4>3, <4>4
    <3> QED BY <3>2, <3>5, <3>9, <3>10
  <2>2. CASE ~coded
    <3>1. z = x /\ b = c
      BY <1>1, <1>2, <1>8, <2>2
    <3> QED BY <1>7, <1>9, <1>10, <3>1 DEF Sized
  <2> QED BY <2>1, <2>2
<1>12. /\ y \in Response
       /\ y.status = s /\ y.logged = s /\ (y.fixed <=> "headers" \in L) /\ y.sent = z.header
       /\ y.body = x.body /\ y.cut = x.cut
  <2>1. y = SendHeader(L, z, s)
    BY <1>3, <1>7, <1>11, StatusGoes
  <2>2. HeadSent(L, z, s, y)
    BY <1>7, <1>11, <2>1, Heads
  <2> QED BY <1>7, <1>11, <2>2 DEF HeadSent
<1>13. /\ v \in Response
       /\ v.status = s /\ v.logged = s /\ (v.fixed <=> "headers" \in L) /\ v.sent = z.header
       /\ y.body = Empty =>
            IF Within(b, z.header.length) THEN v.body = b /\ v.cut = y.cut ELSE v.body = Empty
  <2>1. v = SendBody(L, y, b)
    BY <1>4, BodyGoes
  <2>2. y.status # "none"
    BY <1>7, <1>12
  <2> QED BY <1>11, <1>12, <2>1, <2>2, GivesBody
<1>14. Turn(L, "end", w, v)
  BY <1>7 DEF Turn
<1>15. Told(L, "end", w, v)
  BY <1>5, <1>6, <1>7, <1>13 DEF Told
<1>16. ASSUME "gzip" \notin L PROVE Filled(L, m, "end", w, v)
  <2>1. HeaderOf(v) = z.header
    BY <1>7, <1>13 DEF HeaderOf
  <2>2. /\ IF Within(b, z.header.length) THEN v.body = b /\ ~v.cut ELSE v.body = Empty
        /\ z.header.length = <<>> => Within(b, z.header.length)
    BY <1>10, <1>12, <1>13, <1>16 DEF Within
  <2>3. Coded(L, m, w, v.body, z.header)
    <3>1. CASE v.body = b
      BY <1>11, <1>16, <3>1
    <3>2. CASE v.body # b
      <4>1. v.body = Empty /\ b.codings = <<>>
        BY <1>11, <1>16, <2>2, <3>2
      <4>2. v.body.codings = b.codings
        BY <4>1 DEF Empty
      <4> QED BY <1>11, <1>16, <4>2 DEF Coded
    <3> QED BY <3>1, <3>2
  <2>4. ASSUME ~Merging(L, w, z.header)
        PROVE  ~v.cut /\ Whole(L, "end", w, v.body) /\ Sized("end", w, v.body, z.header.length)
    <3>1. z.header.length \in {<<>>, << Size(b) >>}
      BY <1>11, <1>16, <2>4
    <3>2. Within(b, z.header.length)
      <4>1. CASE z.header.length = <<>>
        BY <4>1 DEF Within
      <4>2. CASE z.header.length # <<>>
        BY <1>11, <1>16, <3>1, <4>2, OwnLength
      <4> QED BY <4>1, <4>2
    <3>3. v.body = b /\ ~v.cut
      BY <2>2, <3>2
    <3>4. Whole(L, "end", w, b)
      BY <1>5, <1>10, <1>11, <1>16 DEF Whole
    <3> QED BY <3>1, <3>3, <3>4 DEF Sized
  <2>5. Got(L, m, "end", w, v)
    BY <2>1, <2>3, <2>4 DEF Got
  <2> QED BY <1>5, <2>5 DEF Filled
<1> QED BY <1>7, <1>13, <1>14, <1>15, <1>16 DEF Right

\* net/http sends the header if nobody has, and the body is of the length sent.
LEMMA Backs ==
  ASSUME NEW L \in SUBSET Layers, NEW m, NEW x \in Response, NEW w \in Words,
         Right(L, m, "end", w, x)
  PROVE  /\ Close(x) \in Response /\ Right(L, m, "end", w, Close(x))
         /\ Close(x).status # "none"
<1>1. PICK z : z = Commit(x, "ok")
  OBVIOUS
<1>2. PICK d \in BOOLEAN :
        d <=> z.cut \/ \E k \in DOMAIN z.sent.length : z.sent.length[k] # Size(z.body)
  OBVIOUS
<1>3. PICK y : y = Close(x)
  OBVIOUS
<1>4. Committed(x, z)
  BY <1>1, Commits
<1>5. /\ z \in Response /\ z.header = x.header /\ z.logged = x.logged /\ (z.fixed <=> x.fixed)
      /\ z.body = x.body /\ z.cut = x.cut /\ z.sent = HeaderOf(x) /\ z.status # "none"
      /\ x.status # "none" => z.status = x.status /\ z.sent = x.sent
  BY <1>4 DEF Committed, HeaderOf
<1>6. y = [z EXCEPT !.cut = d]
  <2>1. z.cut \in BOOLEAN
    BY <1>5, Parts
  <2>2. d = (z.cut \/ \E k \in DOMAIN z.sent.length : z.sent.length[k] # Size(z.body))
    BY <1>2, <2>1
  <2> QED BY <1>1, <1>3, <2>2 DEF Close
<1>7. /\ y \in Response /\ y.header = x.header /\ y.logged = x.logged /\ (y.fixed <=> x.fixed)
      /\ y.body = x.body /\ y.sent = HeaderOf(x) /\ y.status # "none" /\ y.cut = d
      /\ x.status # "none" => y.status = x.status /\ y.sent = x.sent
  BY <1>5, <1>6 DEF Response
<1>8. ASSUME ~x.cut, HeaderOf(x).length \in {<<>>, << Size(x.body) >>} PROVE ~y.cut
  <2>1. \A k \in DOMAIN z.sent.length : z.sent.length[k] = Size(z.body)
    <3>1. PICK n, l : n = Size(x.body) /\ l = HeaderOf(x).length
      OBVIOUS
    <3>2. l = <<>> \/ l = << n >>
      BY <1>8, <3>1
    <3>3. \A k \in DOMAIN l : l[k] = n
      BY <3>2
    <3> QED BY <1>5, <3>1, <3>3
  <2> QED BY <1>2, <1>5, <1>7, <1>8, <2>1
<1>9. /\ w.heads \in Seq({"ok", "error"}) /\ w.heads # <<>> /\ Holder(L, "end") = "client"
      /\ Len(w.own) = Len(w.heads) /\ w.left \in {Any, 0}
  BY DEF Right, Turn, Holder
<1>10. Turn(L, "end", w, y)
  BY <1>9 DEF Right, Turn
<1>11. ASSUME w.refused PROVE Refused("end", w, y)
  <2>1. Refused("end", w, x)
    BY <1>11 DEF Right
  <2>2. HeaderOf(x).length = <<>> /\ HeaderOf(x) = x.sent
    BY <2>1 DEF Refused, HeaderOf, Nothing
  <2>3. ~y.cut
    BY <1>8, <2>1, <2>2 DEF Refused
  <2> QED BY <1>7, <2>1, <2>3 DEF Refused
<1>12. ASSUME ~w.refused PROVE Told(L, "end", w, y)
  <2>1. Last(w.heads) # "none" /\ w.heads[1] # "none"
    BY <1>9, Lasts
  <2>2. Told(L, "end", w, x)
    BY <1>12 DEF Right
  <2>3. CASE Buffers(L)
    BY <1>7, <1>9, <2>1, <2>2, <2>3 DEF Told
  <2>4. CASE ~Buffers(L)
    BY <1>7, <1>9, <2>1, <2>2, <2>4 DEF Told, Direct
  <2> QED BY <2>3, <2>4
<1>13. ASSUME ~w.refused, "gzip" \notin L PROVE Filled(L, m, "end", w, y)
  <2>1. Got(L, m, "end", w, x)
    BY <1>9, <1>13 DEF Right, Filled
  <2>2. HeaderOf(y) = HeaderOf(x)
    BY <1>7 DEF HeaderOf
  <2>3. ASSUME ~Merging(L, w, HeaderOf(x))
        PROVE  ~y.cut /\ Whole(L, "end", w, x.body) /\ Sized("end", w, x.body, HeaderOf(x).length)
    BY <1>8, <2>1, <2>3 DEF Got, Sized
  <2>4. Got(L, m, "end", w, y)
    BY <1>7, <2>1, <2>2, <2>3 DEF Got
  <2> QED BY <1>9, <2>4 DEF Filled
<1> QED BY <1>3, <1>7, <1>10, <1>11, <1>12, <1>13 DEF Right

-----------------------------------------------------------------------------
\* What the invariant says of one request.
LEMMA OneRequest ==
  ASSUME ChainInv, NEW r \in Chained
  PROVE  /\ layers[r] \in SUBSET Layers /\ resp[r] \in Response /\ said[r] \in Words
         /\ Right(layers[r], matches[r], step[r], said[r], resp[r]) /\ Through(r)
<1>1. layers[r] \in LayerSets /\ resp[r] \in Response /\ said[r] \in Words
  BY DEF ChainInv, ChainTypeOK, Words
<1> QED BY <1>1, LayersAssumption DEF ChainInv

\* A request whose writers are right after its step; the others rest.
LEMMA OneMoves ==
  ASSUME ChainInv, TrackerInv', UNCHANGED <<layers, matches>>, \A q \in Chained : Through(q)',
         NEW r \in Chained, NEW u, NEW v \in Words, NEW y \in Response,
         step' = [step EXCEPT ![r] = u], said' = [said EXCEPT ![r] = v],
         resp' = [resp EXCEPT ![r] = y],
         Right(layers[r], matches[r], u, v, y)
  PROVE  ChainInv'
<1>1. /\ layers \in [Chained -> LayerSets] /\ matches \in [Chained -> SUBSET {"brotli", "gzip"}]
      /\ step \in [Chained -> DOMAIN Rank \cup {"end"}]
      /\ resp \in [Chained -> Response] /\ said \in [Chained -> Words]
  BY DEF ChainInv, ChainTypeOK, Words
<1>2. u \in DOMAIN Rank \cup {"end"}
  <2>1. layers[r] \in SUBSET Layers
    BY OneRequest
  <2> QED BY <2>1, Ranks DEF Right, Turn
<1>3. ChainTypeOK'
  <2>1. /\ step' \in [Chained -> DOMAIN Rank \cup {"end"}]
        /\ resp' \in [Chained -> Response] /\ said' \in [Chained -> Words]
    BY <1>1, <1>2
  <2> QED BY <1>1, <2>1 DEF ChainTypeOK, TrackerInv, Words
<1>4. ASSUME NEW q \in Chained PROVE Right(layers'[q], matches'[q], step'[q], said'[q], resp'[q])
  <2>1. CASE q = r
    <3>1. /\ layers'[q] = layers[r] /\ matches'[q] = matches[r]
          /\ step'[q] = u /\ said'[q] = v /\ resp'[q] = y
      BY <1>1, <2>1
    <3> QED BY <3>1
  <2>2. CASE q # r
    <3>1. /\ layers'[q] = layers[q] /\ matches'[q] = matches[q]
          /\ step'[q] = step[q] /\ said'[q] = said[q] /\ resp'[q] = resp[q]
      BY <1>1, <2>2
    <3> QED BY <3>1, OneRequest
  <2> QED BY <2>1, <2>2
<1> QED BY <1>3, <1>4 DEF ChainInv

\* The invariant holds at the start,
LEMMA ChainStarts == ChainInit => ChainInv
<1> SUFFICES ASSUME ChainInit PROVE ChainInv
  OBVIOUS
<1>1. TrackerInv
  BY TrackerStarts DEF ChainInit
<1>2. PICK w : w = Silent
  OBVIOUS
<1>3. w \in Words
  <2>1. <<>> \in Seq(Statuses) /\ <<>> \in Seq(Seq(Codings)) /\ 0 \in 0 .. MaxPieces
        /\ Any \in Any .. MaxPieces
    BY PiecesAssumption DEF Any
  <2> QED BY <1>2, <2>1 DEF Words, Silent
<1>4. Fresh \in Response
  <2>1. /\ Nothing \in Header /\ Empty \in Body
    BY DEF Nothing, Header, Empty, Body
  <2>2. [l \in Layers |-> Empty] \in [Layers -> Body]
        /\ [l \in Layers |-> "none"] \in [Layers -> Statuses] /\ "none" \in Statuses /\ "ok" \in Statuses
    BY <2>1 DEF Statuses
  <2> QED BY <2>1, <2>2 DEF Fresh, Response
<1>5. /\ step = [r \in Chained |-> "handler"] /\ resp = [r \in Chained |-> Fresh]
      /\ said = [r \in Chained |-> w]
  BY <1>2 DEF ChainInit
<1>6. ChainTypeOK
  <2>1. "handler" \in DOMAIN Rank
    BY Ranks
  <2>2. /\ step \in [Chained -> DOMAIN Rank \cup {"end"}]
        /\ resp \in [Chained -> Response] /\ said \in [Chained -> Words]
    BY <1>3, <1>4, <1>5, <2>1
  <2> QED BY <1>1, <2>2 DEF ChainInit, ChainTypeOK, TrackerInv, Words
<1>7. ASSUME NEW r \in Chained PROVE Right(layers[r], matches[r], step[r], said[r], resp[r]) /\ Through(r)
  <2>1. step[r] = "handler" /\ said[r] = w /\ resp[r] = Fresh
    BY <1>5
  <2>2. at[r] = "out"
    BY DEF ChainInit, TrackerInit, Chained
  <2> QED BY <1>2, <2>1, <2>2, FreshRight DEF Through
<1> QED BY <1>1, <1>6, <1>7 DEF ChainInv

\* A request leaves its handler from the last layer, or panics.
LEMMA AllThrough ==
  ASSUME ChainInv, ChainNext
  PROVE  \A q \in Chained : Through(q)'
<1>1. at \in [Requests -> {"out", "started", "active", "in", "done", "inactive", "over"}]
  BY DEF ChainInv, ChainTypeOK, TrackerTypeOK
<1>2. Chained \subseteq Requests /\ Others \cap Chained = {}
  BY DEF Chained
<1> SUFFICES ASSUME NEW q \in Chained PROVE Through(q)'
  OBVIOUS
<1>3. Through(q)
  BY OneRequest
<1>4. ASSUME NEW r \in Chained, Handle(r) \/ Unwinding(r) PROVE Through(q)'
  <2>1. CASE Panic(r)
    BY <1>1, <1>2, <1>3, <2>1 DEF Panic, Unwind, Through
  <2>2. CASE Back(r)
    <3>1. PICK y : y = Close(resp[r])
      OBVIOUS
    <3>2. y.status # "none"
      <4>1. step[r] = "end"
        BY <2>2 DEF Back
      <4> QED BY <3>1, <4>1, OneRequest, Backs
    <3>3. /\ at' = [at EXCEPT ![r] = "done"] /\ lost' = lost /\ step' = step /\ step[r] = "end"
          /\ resp' = [resp EXCEPT ![r] = y]
      BY <2>2, <3>1 DEF Back, Leave
    <3>4. resp \in [Chained -> Response]
      BY DEF ChainInv, ChainTypeOK
    <3> QED BY <1>1, <1>2, <1>3, <3>2, <3>3, <3>4 DEF Through
  <2>3. CASE ~Panic(r) /\ ~Back(r)
    <3>1. /\ at' = at /\ lost' = lost /\ at[r] = "in"
          /\ \A p \in Chained \ {r} : step'[p] = step[p] /\ resp'[p] = resp[p]
      <4>1. CASE Handle(r)
        BY <1>4, <2>3, <4>1 DEF Handle, Refuse, Inform, Piece, FailAgain, Return, AnswerAgain, Answer, Answers, Says, Handling, trackerVars,
           ChainInv, ChainTypeOK
      <4>2. CASE Unwinding(r)
        BY <1>4, <2>3, <4>2 DEF Unwinding, SubFilter, Gzip, Brotli, Finish, trackerVars, ChainInv, ChainTypeOK
      <4> QED BY <1>4, <4>1, <4>2
    <3> QED BY <1>3, <3>1 DEF Through
  <2> QED BY <2>1, <2>2, <2>3
<1>5. ASSUME Tracking, UNCHANGED <<layers, matches, step, resp, said>> PROVE Through(q)'
  <2>1. CASE \E r \in Requests : Track(r)
    <3>1. PICK r \in Requests : Track(r)
      BY <2>1
    <3>2. lost' = lost /\ \A p \in Requests \ {r} : at'[p] = at[p]
      BY <1>1, <3>1 DEF Track, StartRequests, StartActive, StartWriting, DoneActive, DoneWriting, Move
    <3>3. \/ at[r] \in {"out", "started", "active"} /\ at'[r] \notin {"done", "inactive", "over"}
          \/ at[r] \in {"done", "inactive"}
      BY <1>1, <3>1 DEF Track, StartRequests, StartActive, StartWriting, DoneActive, DoneWriting, Move
    <3> QED BY <1>2, <1>3, <1>5, <3>2, <3>3 DEF Through
  <2>2. CASE \E r \in Others : Leave(r) \/ Unwind(r)
    <3>1. PICK r \in Others : Leave(r) \/ Unwind(r)
      BY <2>2
    <3>2. at'[q] = at[q] /\ (q \in lost' <=> q \in lost)
      BY <1>1, <1>2, <3>1 DEF Leave, Unwind
    <3> QED BY <1>3, <1>5, <3>2 DEF Through
  <2>3. CASE Page
    <3>1. at' = at /\ lost' = lost
      BY <2>3 DEF Page, LoadActive, LoadRequests, LoadWriting, Show
    <3> QED BY <1>3, <1>5, <3>1 DEF Through
  <2> QED BY <1>5, <2>1, <2>2, <2>3 DEF Tracking
<1> QED BY <1>4, <1>5 DEF ChainNext

\* A step of the handler,
LEMMA HandlerMoves ==
  ASSUME ChainInv, TrackerInv', \A q \in Chained : Through(q)',
         NEW r \in Chained, Handle(r)
  PROVE  ChainInv'
<1>1. /\ layers[r] \in SUBSET Layers /\ resp[r] \in Response /\ said[r] \in Words
      /\ Right(layers[r], matches[r], step[r], said[r], resp[r])
  BY OneRequest
<1>2. resp \in [Chained -> Response] /\ said \in [Chained -> Words]
  BY DEF ChainInv, ChainTypeOK, Words
<1>3. step \in [Chained -> DOMAIN Rank \cup {"end"}]
  BY DEF ChainInv, ChainTypeOK
<1> DEFINE L == layers[r]
           m == matches[r]
           x == resp[r]
           w == said[r]
<1>4. CASE Refuse(r)
  <2>1. PICK y : y = [Log(x, "error") EXCEPT !.body.pieces = <<1>>]
    OBVIOUS
  <2>2. PICK v : v = [Silent EXCEPT !.heads = <<"error">>, !.own = << <<>> >>, !.pieces = 1,
                                    !.refused = TRUE]
    OBVIOUS
  <2>3. /\ step[r] = "handler" /\ w.heads = <<>> /\ ~w.info
        /\ resp' = [resp EXCEPT ![r] = y] /\ said' = [said EXCEPT ![r] = v]
        /\ step' = [step EXCEPT ![r] = "end"] /\ UNCHANGED <<layers, matches>>
    BY <1>2, <1>4, <2>1, <2>2 DEF Refuse, Handling, Says
  <2>4. v \in Words
    <3>1. /\ <<"error">> \in Seq(Statuses) /\ << <<>> >> \in Seq(Seq(Codings))
          /\ 1 \in 0 .. MaxPieces /\ Any \in Any .. MaxPieces
      BY PiecesAssumption DEF Statuses, Any
    <3> QED BY <2>2, <3>1 DEF Words, Silent
  <2>5. Right(L, m, "handler", w, x)
    BY <1>1, <2>3
  <2> HIDE DEF L, m, x, w
  <2>6. y \in Response /\ Right(L, m, "end", v, y)
    <3>1. L \in SUBSET Layers /\ x \in Response /\ w \in Words
      BY <1>1 DEF L, x, w
    <3> QED BY <2>1, <2>2, <2>3, <2>5, <3>1, Refuses
  <2> QED BY <2>3, <2>4, <2>6, OneMoves DEF L, m
<1>5. CASE Inform(r)
  <2>1. PICK y : y = WriteHeader(L, x, "handler", "info")
    OBVIOUS
  <2>2. PICK v : v = [w EXCEPT !.info = TRUE]
    OBVIOUS
  <2>3. /\ step[r] = "handler" /\ w.heads = <<>> /\ ~w.info
        /\ resp' = [resp EXCEPT ![r] = y] /\ said' = [said EXCEPT ![r] = v]
        /\ step' = [step EXCEPT ![r] = "handler"] /\ UNCHANGED <<layers, matches>>
    BY <1>2, <1>3, <1>5, <2>1, <2>2 DEF Inform, Handling, Says
  <2>4. v \in Words
    BY <1>1, <2>2 DEF Words
  <2>5. Right(L, m, "handler", w, x)
    BY <1>1, <2>3
  <2> HIDE DEF L, m, x, w
  <2>6. y \in Response /\ Right(L, m, "handler", v, y)
    <3>1. L \in SUBSET Layers /\ x \in Response /\ w \in Words
      BY <1>1 DEF L, x, w
    <3> QED BY <2>1, <2>2, <2>3, <2>5, <3>1, Informs
  <2> QED BY <2>3, <2>4, <2>6, OneMoves DEF L, m
<1>6. ASSUME NEW s \in {"ok", "error"}, NEW own \in Seq(Codings),
             NEW n \in {Any} \cup 1 .. MaxPieces,
             step[r] = "handler", w.heads = <<>> \/ w.heads = << "error" >>, Answers(r, s, own, n)
      PROVE  ChainInv'
  <2>1. PICK y : y = WriteHeader(L, Announce(x, own, n), "handler", s)
    OBVIOUS
  <2>2. PICK v : v = [w EXCEPT !.heads = Append(@, s), !.own = Append(@, own), !.left = n]
    OBVIOUS
  <2>3. /\ resp' = [resp EXCEPT ![r] = y] /\ said' = [said EXCEPT ![r] = v]
        /\ step' = [step EXCEPT ![r] = "handler"] /\ UNCHANGED <<layers, matches>>
    BY <1>2, <1>3, <1>6, <2>1, <2>2 DEF Answers, Says
  <2>4. v \in Words
    <3>1. Append(w.heads, s) \in Seq(Statuses) /\ Append(w.own, own) \in Seq(Seq(Codings))
      BY <1>1 DEF Words, Statuses
    <3>2. n \in Any .. MaxPieces
      BY PiecesAssumption DEF Any
    <3> QED BY <1>1, <2>2, <3>1, <3>2 DEF Words
  <2>5. Right(L, m, "handler", w, x)
    BY <1>1, <1>6
  <2> HIDE DEF L, m, x, w
  <2>6. y \in Response /\ Right(L, m, "handler", v, y)
    <3>1. L \in SUBSET Layers /\ x \in Response /\ w \in Words
      BY <1>1 DEF L, x, w
    <3> QED BY <1>6, <2>1, <2>2, <2>4, <2>5, <3>1, Announces
  <2> QED BY <1>6, <2>3, <2>4, <2>6, OneMoves DEF L, m
<1>7. CASE FailAgain(r)
  <2>1. PICK n : n = w.pieces + 1
    OBVIOUS
  <2>2. PICK z : z = WriteHeader(L, [x EXCEPT !.header.length = <<>>], "handler", "error")
    OBVIOUS
  <2>3. PICK y : y = Write(L, z, "handler", [Empty EXCEPT !.pieces = <<n>>])
    OBVIOUS
  <2>4. PICK v : v = [w EXCEPT !.heads = Append(@, "error"), !.own = Append(@, <<>>),
                               !.pieces = n, !.left = 0]
    OBVIOUS
  <2>5. /\ step[r] = "handler" /\ w.heads = << "error" >> /\ n <= MaxPieces
        /\ resp' = [resp EXCEPT ![r] = y] /\ said' = [said EXCEPT ![r] = v]
        /\ step' = [step EXCEPT ![r] = "handler"] /\ UNCHANGED <<layers, matches>>
    BY <1>2, <1>3, <1>7, <2>1, <2>2, <2>3, <2>4 DEF FailAgain, Handling, Says
  <2>6. v \in Words
    <3>1. Append(w.heads, "error") \in Seq(Statuses) /\ Append(w.own, <<>>) \in Seq(Seq(Codings))
      BY <1>1 DEF Words, Statuses
    <3>2. n \in 0 .. MaxPieces /\ 0 \in Any .. MaxPieces
      BY <1>1, <2>1, <2>5, PiecesAssumption DEF Words, Any
    <3> QED BY <1>1, <2>4, <3>1, <3>2 DEF Words
  <2>7. Right(L, m, "handler", w, x)
    BY <1>1, <2>5
  <2> HIDE DEF L, m, x, w
  <2>8. y \in Response /\ Right(L, m, "handler", v, y)
    <3>1. L \in SUBSET Layers /\ x \in Response /\ w \in Words
      BY <1>1 DEF L, x, w
    <3> QED BY <2>1, <2>2, <2>3, <2>4, <2>5, <2>6, <2>7, <3>1, Fails
  <2> QED BY <2>5, <2>6, <2>8, OneMoves DEF L, m
<1>8. CASE Piece(r)
  <2>1. PICK n : n = w.pieces + 1
    OBVIOUS
  <2>2. PICK y : y = Write(L, x, "handler", [Empty EXCEPT !.pieces = <<n>>])
    OBVIOUS
  <2>3. PICK v : v = [w EXCEPT !.pieces = n, !.left = IF @ = Any THEN Any ELSE @ - 1]
    OBVIOUS
  <2>4. /\ step[r] = "handler" /\ w.heads # <<>> /\ n <= MaxPieces /\ w.left # 0
        /\ resp' = [resp EXCEPT ![r] = y] /\ said' = [said EXCEPT ![r] = v]
        /\ step' = [step EXCEPT ![r] = "handler"] /\ UNCHANGED <<layers, matches>>
    BY <1>2, <1>3, <1>8, <2>1, <2>2, <2>3 DEF Piece, Handling, Says
  <2>5. v \in Words
    <3>1. n \in 0 .. MaxPieces
      BY <1>1, <2>1, <2>4, PiecesAssumption DEF Words
    <3>2. (IF w.left = Any THEN Any ELSE w.left - 1) \in Any .. MaxPieces
      BY <1>1, <2>4, PiecesAssumption DEF Words, Any
    <3> QED BY <1>1, <2>3, <3>1, <3>2 DEF Words
  <2>6. Right(L, m, "handler", w, x)
    BY <1>1, <2>4
  <2> HIDE DEF L, m, x, w
  <2>7. y \in Response /\ Right(L, m, "handler", v, y)
    <3>1. L \in SUBSET Layers /\ x \in Response /\ w \in Words
      BY <1>1 DEF L, x, w
    <3> QED BY <2>1, <2>2, <2>3, <2>4, <2>5, <2>6, <3>1, Continues
  <2> QED BY <2>4, <2>5, <2>7, OneMoves DEF L, m
<1>9. CASE Return(r)
  <2>1. /\ step[r] = "handler" /\ w.heads # <<>> /\ w.left \in {Any, 0}
        /\ resp' = [resp EXCEPT ![r] = x] /\ said' = [said EXCEPT ![r] = w]
        /\ step' = [step EXCEPT ![r] = Outward(L, "handler")] /\ UNCHANGED <<layers, matches>>
    BY <1>2, <1>9 DEF Return, Handling, Complete
  <2>2. Right(L, m, "handler", w, x)
    BY <1>1, <2>1
  <2>3. Right(L, m, Outward(L, "handler"), w, x)
    BY <1>1, <2>1, <2>2, PassesOn
  <2> QED BY <1>1, <2>1, <2>3, OneMoves
<1>10. CASE Panic(r)
  <2>1. /\ resp' = [resp EXCEPT ![r] = x] /\ said' = [said EXCEPT ![r] = w]
        /\ step' = [step EXCEPT ![r] = step[r]] /\ UNCHANGED <<layers, matches>>
    BY <1>2, <1>3, <1>10 DEF Panic
  <2> QED BY <1>1, <2>1, OneMoves
<1>11. ASSUME NEW s \in {"ok", "error"}, NEW own \in {<<>>, << "gzip" >>},
              NEW n \in {Any} \cup 1 .. MaxPieces,
              Answer(r, s, own, n) \/ AnswerAgain(r, s, own, n)
       PROVE  ChainInv'
  <2>1. own \in Seq(Codings)
    <3>1. <<"gzip">> \in Seq(Codings) /\ <<>> \in Seq(Codings)
      BY DEF Codings
    <3> QED BY <3>1
  <2>2. /\ step[r] = "handler" /\ (w.heads = <<>> \/ w.heads = << "error" >>)
        /\ Answers(r, s, own, n)
    BY <1>11 DEF Answer, AnswerAgain, Handling
  <2> QED BY <1>6, <2>1, <2>2
<1> QED BY <1>4, <1>5, <1>7, <1>8, <1>9, <1>10, <1>11 DEF Handle

\* and of a layer or of net/http.
LEMMA LayersMove ==
  ASSUME ChainInv, TrackerInv', \A q \in Chained : Through(q)',
         NEW r \in Chained, Unwinding(r)
  PROVE  ChainInv'
<1>1. /\ layers[r] \in SUBSET Layers /\ resp[r] \in Response /\ said[r] \in Words
      /\ Right(layers[r], matches[r], step[r], said[r], resp[r])
  BY OneRequest
<1>2. /\ resp \in [Chained -> Response] /\ said \in [Chained -> Words]
      /\ step \in [Chained -> DOMAIN Rank \cup {"end"}]
  BY DEF ChainInv, ChainTypeOK, Words
<1>3. step[r] # "handler" => /\ said[r].heads # <<>> /\ said[r].left \in {Any, 0}
                             /\ step[r] = "end" \/ step[r] \in layers[r]
  BY <1>1 DEF Right, Turn
<1>4. ASSUME NEW l \in {"subfilter", "gzip", "brotli"}, NEW y, Finish(r, l, y),
             y \in Response, Right(layers[r], matches[r], Outward(layers[r], l), said[r], y)
      PROVE  ChainInv'
  <2>1. /\ resp' = [resp EXCEPT ![r] = y] /\ said' = [said EXCEPT ![r] = said[r]]
        /\ step' = [step EXCEPT ![r] = Outward(layers[r], l)] /\ UNCHANGED <<layers, matches>>
    BY <1>2, <1>4 DEF Finish
  <2> QED BY <1>1, <1>4, <2>1, OneMoves
<1>5. CASE SubFilter(r)
  <2>1. step[r] = "subfilter"
    BY <1>5 DEF SubFilter, Finish
  <2>2. "subfilter" \in layers[r] /\ Right(layers[r], matches[r], "subfilter", said[r], resp[r])
    BY <1>1, <1>3, <2>1
  <2>3. PICK b : b = [resp[r].buf["subfilter"] EXCEPT !.filtered = TRUE]
    OBVIOUS
  <2>4. PICK z : z = [resp[r] EXCEPT !.header.length = <<Size(b)>>]
    OBVIOUS
  <2>5. PICK y : y = Write(layers[r], WriteHeader(layers[r], z, "subfilter", z.code["subfilter"]),
                           "subfilter", b)
    OBVIOUS
  <2>6. Finish(r, "subfilter", y)
    BY <1>5, <2>3, <2>4, <2>5 DEF SubFilter
  <2>7. y \in Response /\ Right(layers[r], matches[r], Outward(layers[r], "subfilter"), said[r], y)
    BY <1>1, <2>2, <2>3, <2>4, <2>5, SubFilters
  <2> QED BY <1>4, <2>6, <2>7
<1>6. CASE Gzip(r)
  <2>1. step[r] = "gzip"
    BY <1>6 DEF Gzip, Finish
  <2>2. /\ "gzip" \in layers[r] /\ said[r].heads # <<>> /\ said[r].left \in {Any, 0}
        /\ Right(layers[r], matches[r], "gzip", said[r], resp[r])
    BY <1>1, <1>3, <2>1
  <2>3. CASE "gzip" \notin matches[r]
    <3>1. Finish(r, "gzip", resp[r])
      BY <1>6, <2>3 DEF Gzip
    <3>2. Right(layers[r], matches[r], Outward(layers[r], "gzip"), said[r], resp[r])
      BY <1>1, <2>2, PassesOn
    <3> QED BY <1>1, <1>4, <3>1, <3>2
  <2>4. CASE "gzip" \in matches[r]
    <3>1. PICK z : z = [resp[r] EXCEPT !.header = [coding |-> <<"gzip">>, length |-> <<>>]]
      OBVIOUS
    <3>2. PICK y : y = Write(layers[r], z, "gzip", [z.buf["gzip"] EXCEPT !.codings = Append(@, "gzip")])
      OBVIOUS
    <3>3. Finish(r, "gzip", y)
      BY <1>6, <2>4, <3>1, <3>2 DEF Gzip
    <3>4. y \in Response /\ Right(layers[r], matches[r], Outward(layers[r], "gzip"), said[r], y)
      BY <1>1, <2>2, <3>1, <3>2, Gzips
    <3> QED BY <1>4, <3>3, <3>4
  <2> QED BY <2>3, <2>4
<1>7. CASE Brotli(r)
  <2>1. step[r] = "brotli"
    BY <1>7 DEF Brotli, Finish
  <2>2. "brotli" \in layers[r] /\ Right(layers[r], matches[r], "brotli", said[r], resp[r])
    BY <1>1, <1>3, <2>1
  <2>3. PICK coded \in BOOLEAN : coded <=> "brotli" \in matches[r]
    OBVIOUS
  <2>4. PICK z : z = IF coded THEN [resp[r] EXCEPT !.header = [coding |-> <<"br">>, length |-> <<>>]]
                     ELSE resp[r]
    OBVIOUS
  <2>5. PICK b : b = IF coded THEN [z.buf["brotli"] EXCEPT !.codings = Append(@, "br")]
                     ELSE z.buf["brotli"]
    OBVIOUS
  <2>6. PICK y : y = Write(layers[r], WriteHeader(layers[r], z, "brotli", z.code["brotli"]), "brotli", b)
    OBVIOUS
  <2>7. Finish(r, "brotli", y)
    BY <1>7, <2>3, <2>4, <2>5, <2>6 DEF Brotli
  <2>8. y \in Response /\ Right(layers[r], matches[r], Outward(layers[r], "brotli"), said[r], y)
    BY <1>1, <2>2, <2>3, <2>4, <2>5, <2>6, Brotlis
  <2> QED BY <1>4, <2>7, <2>8
<1>8. CASE Back(r)
  <2>1. PICK y : y = Close(resp[r])
    OBVIOUS
  <2>2. /\ resp' = [resp EXCEPT ![r] = y] /\ said' = [said EXCEPT ![r] = said[r]]
        /\ step' = [step EXCEPT ![r] = "end"] /\ UNCHANGED <<layers, matches>> /\ step[r] = "end"
    BY <1>2, <1>8, <2>1 DEF Back
  <2>3. y \in Response /\ Right(layers[r], matches[r], "end", said[r], y)
    BY <1>1, <2>1, <2>2, Backs
  <2> QED BY <1>1, <2>2, <2>3, OneMoves
<1> QED BY <1>5, <1>6, <1>7, <1>8 DEF Unwinding

\* and every step keeps it.
LEMMA ChainStep == ChainInv /\ [ChainNext]_chainVars => ChainInv'
<1> SUFFICES ASSUME ChainInv, [ChainNext]_chainVars PROVE ChainInv'
  OBVIOUS
<1>1. TrackerInv'
  BY TrackerStep DEF ChainInv
<1>2. ASSUME UNCHANGED <<layers, matches, step, resp, said>>, \A q \in Chained : Through(q)'
      PROVE  ChainInv'
  <2>1. ChainTypeOK'
    BY <1>1, <1>2 DEF ChainInv, ChainTypeOK, TrackerInv
  <2>2. \A r \in Chained : Right(layers'[r], matches'[r], step'[r], said'[r], resp'[r])
    BY <1>2, OneRequest
  <2> QED BY <1>1, <1>2, <2>1, <2>2 DEF ChainInv
<1>3. CASE ChainNext
  <2>1. \A q \in Chained : Through(q)'
    BY <1>3, AllThrough
  <2> QED BY <1>1, <1>2, <1>3, <2>1, HandlerMoves, LayersMove DEF ChainNext
<1>4. CASE UNCHANGED chainVars
  <2>1. \A q \in Chained : Through(q)'
    BY <1>4, OneRequest DEF Through, chainVars, trackerVars
  <2> QED BY <1>2, <1>4, <2>1 DEF chainVars
<1> QED BY <1>3, <1>4
-----------------------------------------------------------------------------
\* Through any layers and any interleaving of requests, what the writers hold
\* of a response is what the handler said.
THEOREM ChainInvariant == ChainSpec => []ChainInv
<1>1. ChainInit => ChainInv
  BY ChainStarts
<1>2. ChainInv /\ [ChainNext]_chainVars => ChainInv'
  BY ChainStep
<1> QED BY <1>1, <1>2, PTL DEF ChainSpec

\* Whatever the layers, the pieces and the requests, the state of the writers is
\* always of its type.
THEOREM ChainTyped == ChainSpec => []ChainTypeOK
<1>1. ChainInv => ChainTypeOK
  BY DEF ChainInv
<1> QED BY <1>1, ChainInvariant, PTL

\* A request that has been served is past its layers.
LEMMA ServedEnds ==
  ASSUME ChainInv, NEW r \in Chained, Served(r)
  PROVE  /\ Right(layers[r], matches[r], "end", said[r], resp[r]) /\ step[r] = "end"
         /\ said[r].heads \in Seq({"ok", "error"}) /\ said[r].heads # <<>>
         /\ Holder(layers[r], "end") = "client"
<1>1. step[r] = "end"
  BY OneRequest DEF Through, Served
<1>2. Right(layers[r], matches[r], "end", said[r], resp[r])
  BY <1>1, OneRequest
<1> QED BY <1>1, <1>2 DEF Right, Turn, Holder

\* The body arrives whole through any layers but gzip, whatever the sizes, unless
\* a coded answer is worked on or two answers are merged.
THEOREM BodyArrives == ChainSpec => []BodyDelivered
<1>1. ChainInv => BodyDelivered
  <2> SUFFICES ASSUME ChainInv, NEW r \in Chained, Served(r), ~Recoded(r), ~Merged(r),
                      ~("gzip" \in layers[r] /\ ~said[r].refused)
               PROVE  Delivered(r)
    BY DEF BodyDelivered
  <2>1. PICK L, m, w, x : L = layers[r] /\ m = matches[r] /\ w = said[r] /\ x = resp[r]
    OBVIOUS
  <2>2. Right(L, m, "end", w, x) /\ Holder(L, "end") = "client" /\ x.status # "none"
    BY <2>1, ServedEnds, OneRequest DEF Through, Served
  <2>3. CASE w.refused
    <3>1. Refused("end", w, x)
      BY <2>2, <2>3 DEF Right
    <3>2. PICK b : b = [Empty EXCEPT !.pieces = <<1>>]
      OBVIOUS
    <3>3. b.pieces = <<1>> /\ b.codings = <<>> /\ b.filtered = FALSE
      BY <3>2 DEF Empty
    <3>4. /\ x.body = b /\ ~x.cut /\ x.sent.coding = <<>> /\ w.pieces = 1 /\ w.own = << <<>> >>
      BY <3>1, <3>2 DEF Refused, Nothing
    <3>5. <<1>> = [i \in 1 .. 1 |-> i]
      BY Pieces DEF Firsts
    <3>6. x.body.pieces = [i \in 1 .. w.pieces |-> i]
      BY <3>3, <3>4, <3>5
    <3>7. \A k \in DOMAIN w.own : w.own[k] \o x.body.codings = x.sent.coding
      BY <3>3, <3>4
    <3> QED BY <2>1, <2>3, <3>3, <3>4, <3>6, <3>7 DEF Delivered
  <2>4. CASE ~w.refused
    <3>1. Got(L, m, "end", w, x)
      BY <2>1, <2>2, <2>4 DEF Right, Filled
    <3>2. HeaderOf(x) = x.sent
      BY <2>2 DEF HeaderOf
    <3>3. ~Recoding(L, m, w) /\ ~Merging(L, w, x.sent)
      BY <2>1 DEF Recoded, Recoding, Merged, Merging
    <3>4. /\ \A k \in DOMAIN w.own : w.own[k] \o x.body.codings = x.sent.coding
          /\ ~x.cut /\ Whole(L, "end", w, x.body)
      BY <3>1, <3>2, <3>3 DEF Got, Coded
    <3> QED BY <2>1, <2>2, <2>4, <3>4 DEF Delivered, Whole, Firsts
  <2> QED BY <2>3, <2>4
<1> QED BY <1>1, ChainInvariant, PTL

\* What the writers hold of a response that has been served and not dropped.
LEMMA ServedTold ==
  ASSUME ChainInv, NEW r \in Chained, Served(r), ~FinalDropped(r)
  PROVE  LET heads == said[r].heads
             x == resp[r]
         IN  /\ x.status = IF Buffered(r) THEN Last(heads) ELSE heads[1]
             /\ Buffered(r) \/ Len(heads) = 1 \/ "headers" \in layers[r] => x.logged = x.status
<1>1. PICK L, m, w, x : L = layers[r] /\ m = matches[r] /\ w = said[r] /\ x = resp[r]
  OBVIOUS
<1>2. /\ Right(L, m, "end", w, x) /\ Holder(L, "end") = "client"
      /\ w.heads \in Seq({"ok", "error"}) /\ w.heads # <<>>
  BY <1>1, ServedEnds
<1>3. Buffered(r) <=> Buffers(L) /\ ~w.refused
  BY <1>1 DEF Buffered, Buffers
<1>4. ~(w.info /\ "headers" \in L /\ ~Buffered(r))
  BY <1>1 DEF FinalDropped
<1> SUFFICES /\ x.status = IF Buffered(r) THEN Last(w.heads) ELSE w.heads[1]
             /\ Buffered(r) \/ Len(w.heads) = 1 \/ "headers" \in L => x.logged = x.status
  BY <1>1
<1>5. CASE w.refused
  <2>1. Refused("end", w, x)
    BY <1>2, <1>5 DEF Right
  <2> QED BY <1>3, <1>5, <2>1 DEF Refused
<1>6. CASE ~w.refused
  <2>1. Told(L, "end", w, x)
    BY <1>2, <1>6 DEF Right
  <2>2. CASE Buffers(L)
    BY <1>2, <1>3, <1>6, <2>1, <2>2 DEF Told
  <2>3. CASE ~Buffers(L)
    <3>1. /\ x.status = w.heads[1]
          /\ x.logged = IF "headers" \in L THEN w.heads[1] ELSE Last(w.heads)
      BY <1>2, <1>3, <1>4, <2>1, <2>3 DEF Told, Direct
    <3>2. Len(w.heads) = 1 => Last(w.heads) = w.heads[1]
      BY DEF Last
    <3> QED BY <1>3, <2>3, <3>1, <3>2
  <2> QED BY <2>2, <2>3
<1> QED BY <1>5, <1>6

\* The status the client gets is the handler's first, or its last if buffered.
THEOREM StatusArrives == ChainSpec => []StatusDelivered
<1>1. ChainInv => StatusDelivered
  BY ServedTold DEF StatusDelivered, Last
<1> QED BY <1>1, ChainInvariant, PTL

\* And the access log tells it.
THEOREM LogTells == ChainSpec => []LogTruthful
<1>1. ChainInv => LogTruthful
  BY ServedTold DEF LogTruthful
<1> QED BY <1>1, ChainInvariant, PTL
=============================================================================
