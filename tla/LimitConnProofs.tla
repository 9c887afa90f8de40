--------------------------- MODULE LimitConnProofs ---------------------------
(***************************************************************************)
(* Proofs about LimitConn for any finite set of requests, any hosts, ports *)
(* and locations and any positive limit.  The inductive invariant is       *)
(* LimitConn!IInv: the mutex is held by whoever is between Lock and        *)
(* Unlock, the counter equals the number of requests inside, and a request *)
(* that passed the test still has room when it increments.                 *)
(***************************************************************************)
EXTENDS LimitConn, FiniteSetTheorems, TLAPS

\* The default values of a handler's variables are of their type.
LEMMA AnyTyped == AnyLocation \in Locations /\ AnyHost \in Hosts
  BY PlacesAssumption DEF AnyLocation, AnyHost

\* The requests counted for a client are a finite set.
LEMMA HoldersFinite ==
  ASSUME NEW l, NEW h
  PROVE  /\ IsFiniteSet(Holders(l, h))
         /\ Cardinality(Holders(l, h)) \in Nat
<1>1. Holders(l, h) \in SUBSET Requests
  BY DEF Holders
<1>2. IsFiniteSet(Holders(l, h))
  BY <1>1, FS_Subset, RequestsAssumption
<1> QED BY <1>2, FS_CardinalityType

\* Init establishes the invariant.
LEMMA InitIInv == Init => IInv
<1> SUFFICES ASSUME Init PROVE IInv
  OBVIOUS
<1>1. TypeOK
  BY AnyTyped DEF Init, TypeOK, Steps
<1>2. \A l, h : Holders(l, h) = {} /\ Keepers(l, h) = {}
  BY DEF Init, Holders, Keepers
<1>3. MutexHeld
  BY DEF Init, MutexHeld, InCritical
<1>4. CountExact
  BY <1>2, FS_EmptySet DEF Init, CountExact
<1>5. RoomKept
  BY DEF Init, RoomKept
<1>6. LimitHolds
  BY <1>2, FS_EmptySet, LimitAssumption DEF LimitHolds
<1>7. EntriesExact
  BY <1>2 DEF Init, EntriesExact
<1> QED BY <1>1, <1>3, <1>4, <1>5, <1>6, <1>7 DEF IInv

\* A step that changes neither the counter nor who is counted, and leaves the
\* mutex discipline and the room of line 34 intact, preserves the invariant.
LEMMA QuietStep ==
  ASSUME IInv, TypeOK', MutexHeld', RoomKept', counts' = counts, keys' = keys,
         \A l \in Locations, h \in Hosts : Holders(l, h)' = Holders(l, h),
         \A l \in Locations, h \in Hosts : Keepers(l, h)' = Keepers(l, h)
  PROVE  IInv'
<1>1. CountExact'
  BY DEF IInv, CountExact
<1>2. LimitHolds'
  BY DEF IInv, LimitHolds
<1>3. EntriesExact'
  BY DEF IInv, EntriesExact
<1> QED BY <1>1, <1>2, <1>3 DEF IInv

\* Lines 39-40: the request joins those counted for its client, and there was
\* room for it because the mutex was held since the test.
LEMMA IncrementIInv ==
  ASSUME IInv, NEW r \in Requests, Increment(r),
         NEW L \in Locations, NEW H \in Hosts, L = loc[r], H = ip[r]
  PROVE  IInv'
<1>0. pc[r] = "inc" /\ mu[L] = r
  BY DEF IInv, TypeOK, Increment, Goto, MutexHeld, InCritical
<1>1. TypeOK'
  BY <1>0 DEF IInv, TypeOK, Increment, Goto, Unlock, Steps
<1>2. MutexHeld'
  BY <1>0, RequestsAssumption
     DEF IInv, TypeOK, MutexHeld, InCritical, Increment, Goto, Unlock
<1>3. /\ r \notin Holders(L, H)
      /\ Holders(L, H)' = Holders(L, H) \cup {r}
      /\ Keepers(L, H)' = Keepers(L, H) \cup {r}
  BY <1>0 DEF IInv, TypeOK, Holders, Keepers, Increment, Goto
<1>4. ASSUME NEW l \in Locations, NEW h \in Hosts, l # L \/ h # H
      PROVE  /\ Holders(l, h)' = Holders(l, h)
             /\ Keepers(l, h)' = Keepers(l, h)
             /\ counts'[l][h] = counts[l][h]
             /\ h \in keys'[l] <=> h \in keys[l]
  BY <1>0, <1>4 DEF IInv, TypeOK, Holders, Keepers, Increment, Goto
<1>5. /\ counts'[L][H] = counts[L][H] + 1
      /\ H \in keys'[L]
  BY <1>0 DEF IInv, TypeOK, Increment
<1>6. /\ Cardinality(Holders(L, H)') = Cardinality(Holders(L, H)) + 1
      /\ counts[L][H] = Cardinality(Holders(L, H))
  <2>1. IsFiniteSet(Holders(L, H))
    BY HoldersFinite
  <2>2. Cardinality(Holders(L, H) \cup {r}) = Cardinality(Holders(L, H)) + 1
    BY <1>3, <2>1, FS_AddElement
  <2> QED BY <1>3, <2>2 DEF IInv, CountExact
<1>7. CountExact'
  BY <1>4, <1>5, <1>6 DEF IInv, CountExact
<1>8. LimitHolds'
  <2>1. counts[L][H] < Limit
    BY <1>0 DEF IInv, RoomKept
  <2>2. Cardinality(Holders(L, H)') <= Limit
    BY <1>6, <2>1, LimitAssumption, HoldersFinite
  <2> QED BY <1>4, <2>2 DEF IInv, LimitHolds
<1>9. RoomKept'
  <2> SUFFICES ASSUME NEW q \in Requests, pc'[q] = "inc"
               PROVE  counts'[loc'[q]][ip'[q]] < Limit
    BY DEF RoomKept
  <2>1. q # r /\ pc[q] = "inc" /\ loc'[q] = loc[q] /\ ip'[q] = ip[q]
    BY <1>0 DEF IInv, TypeOK, Increment, Goto
  <2>2. loc[q] # L
    BY <1>0, <2>1 DEF IInv, MutexHeld, InCritical
  <2>3. loc[q] \in Locations /\ ip[q] \in Hosts
    BY DEF IInv, TypeOK
  <2> QED BY <1>4, <2>1, <2>2, <2>3 DEF IInv, RoomKept
<1>10. EntriesExact'
  BY <1>3, <1>4, <1>5 DEF IInv, EntriesExact
<1> QED BY <1>1, <1>2, <1>7, <1>8, <1>9, <1>10 DEF IInv

\* Line 44: the request leaves those counted for its client.
LEMMA DecrementIInv ==
  ASSUME IInv, NEW r \in Requests, Decrement(r),
         NEW L \in Locations, NEW H \in Hosts, L = loc[r], H = ip[r]
  PROVE  IInv'
<1>0. pc[r] = "dec" /\ mu[L] = r
  BY DEF IInv, TypeOK, Decrement, Goto, MutexHeld, InCritical
<1>1. TypeOK'
  BY <1>0 DEF IInv, TypeOK, Decrement, Goto, Steps
<1>2. MutexHeld'
  BY <1>0 DEF IInv, TypeOK, MutexHeld, InCritical, Decrement, Goto
<1>3. /\ r \in Holders(L, H)
      /\ Holders(L, H)' = Holders(L, H) \ {r}
      /\ r \in Keepers(L, H)
      /\ Keepers(L, H)' = Keepers(L, H)
  BY <1>0 DEF IInv, TypeOK, Holders, Keepers, Decrement, Goto
<1>4. ASSUME NEW l \in Locations, NEW h \in Hosts, l # L \/ h # H
      PROVE  /\ Holders(l, h)' = Holders(l, h)
             /\ Keepers(l, h)' = Keepers(l, h)
             /\ counts'[l][h] = counts[l][h]
             /\ h \in keys'[l] <=> h \in keys[l]
  BY <1>0, <1>4 DEF IInv, TypeOK, Holders, Keepers, Decrement, Goto
<1>5. /\ counts'[L][H] = counts[L][H] - 1
      /\ H \in keys'[L]
  BY <1>0 DEF IInv, TypeOK, Decrement
<1>6. /\ Cardinality(Holders(L, H)') = Cardinality(Holders(L, H)) - 1
      /\ counts[L][H] = Cardinality(Holders(L, H))
  <2>1. IsFiniteSet(Holders(L, H))
    BY HoldersFinite
  <2>2. Cardinality(Holders(L, H) \ {r}) = Cardinality(Holders(L, H)) - 1
    BY <1>3, <2>1, FS_RemoveElement
  <2> QED BY <1>3, <2>2 DEF IInv, CountExact
<1>7. CountExact'
  BY <1>4, <1>5, <1>6 DEF IInv, CountExact
<1>8. LimitHolds'
  <2>1. Cardinality(Holders(L, H)') <= Limit
    BY <1>0, <1>6, LimitAssumption, HoldersFinite DEF IInv, LimitHolds
  <2> QED BY <1>4, <2>1 DEF IInv, LimitHolds
<1>9. RoomKept'
  <2> SUFFICES ASSUME NEW q \in Requests, pc'[q] = "inc"
               PROVE  counts'[loc'[q]][ip'[q]] < Limit
    BY DEF RoomKept
  <2>1. q # r /\ pc[q] = "inc" /\ loc'[q] = loc[q] /\ ip'[q] = ip[q]
    BY <1>0 DEF IInv, TypeOK, Decrement, Goto
  <2>2. loc[q] # L
    BY <1>0, <2>1 DEF IInv, MutexHeld, InCritical
  <2>3. loc[q] \in Locations /\ ip[q] \in Hosts
    BY DEF IInv, TypeOK
  <2> QED BY <1>4, <2>1, <2>2, <2>3 DEF IInv, RoomKept
<1>10. EntriesExact'
  BY <1>3, <1>4, <1>5 DEF IInv, EntriesExact
<1> QED BY <1>1, <1>2, <1>7, <1>8, <1>9, <1>10 DEF IInv

\* Lines 45-48: the entry goes exactly when no other request keeps it.
LEMMA PurgeIInv ==
  ASSUME IInv, NEW r \in Requests, Purge(r),
         NEW L \in Locations, NEW H \in Hosts, L = loc[r], H = ip[r]
  PROVE  IInv'
<1>0. pc[r] = "purge" /\ mu[L] = r
  BY DEF IInv, TypeOK, Purge, Goto, MutexHeld, InCritical
<1>1. TypeOK'
  <2>1. /\ counts' \in [Locations -> [Hosts -> Int]]
        /\ keys' \in [Locations -> SUBSET Hosts]
    <3>1. CASE counts[L][H] <= 0
      <4>1. /\ counts' = [counts EXCEPT ![L][H] = 0]
            /\ keys' = [keys EXCEPT ![L] = @ \ {H}]
        BY <3>1 DEF Purge
      <4> QED BY <4>1 DEF IInv, TypeOK
    <3>2. CASE ~(counts[L][H] <= 0)
      BY <3>2 DEF IInv, TypeOK, Purge
    <3> QED BY <3>1, <3>2
  <2>2. /\ mu' \in [Locations -> Requests \cup {NoReq}]
        /\ pc' \in [Requests -> Steps]
        /\ loc' \in [Requests -> Locations]
        /\ ip' \in [Requests -> Hosts]
    BY AnyTyped DEF IInv, TypeOK, Purge, Goto, Unlock, Finish, Steps
  <2> QED BY <2>1, <2>2 DEF TypeOK
<1>2. MutexHeld'
  BY <1>0, RequestsAssumption
     DEF IInv, TypeOK, MutexHeld, InCritical, Purge, Goto, Unlock, Finish
<1>3. \A l \in Locations, h \in Hosts : Holders(l, h)' = Holders(l, h)
  BY <1>0 DEF IInv, TypeOK, Holders, Purge, Goto, Finish
<1>4. Keepers(L, H)' = Holders(L, H)
  <2>1. \A q \in Requests : pc[q] = "purge" /\ loc[q] = L => q = r
    BY <1>0 DEF IInv, MutexHeld, InCritical
  <2> QED BY <1>0, <2>1 DEF IInv, TypeOK, Holders, Keepers, Purge, Goto, Finish
<1>5. ASSUME NEW l \in Locations, NEW h \in Hosts, l # L \/ h # H
      PROVE  /\ Keepers(l, h)' = Keepers(l, h)
             /\ h \in keys'[l] <=> h \in keys[l]
  BY <1>0, <1>5 DEF IInv, TypeOK, Keepers, Purge, Goto, Finish
<1>6. counts[L][H] = Cardinality(Holders(L, H))
  BY <1>0 DEF IInv, CountExact
<1>7. counts' = counts
  <2>1. CASE counts[L][H] <= 0
    <3>1. counts[L][H] = 0
      BY <1>6, <2>1, HoldersFinite
    <3>2. counts' = [counts EXCEPT ![L][H] = 0]
      BY <2>1 DEF Purge
    <3> QED BY <1>0, <3>1, <3>2 DEF IInv, TypeOK
  <2>2. CASE ~(counts[L][H] <= 0)
    BY <2>2 DEF Purge
  <2> QED BY <2>1, <2>2
<1>8. CountExact' /\ LimitHolds'
  BY <1>3, <1>7 DEF IInv, CountExact, LimitHolds
<1>9. RoomKept'
  <2>1. \A q \in Requests : pc'[q] = "inc" =>
           pc[q] = "inc" /\ loc'[q] = loc[q] /\ ip'[q] = ip[q]
    BY <1>0 DEF IInv, TypeOK, Purge, Goto, Finish
  <2> QED BY <1>7, <2>1 DEF IInv, RoomKept
<1>10. H \in keys'[L] <=> Keepers(L, H)' # {}
  <2>1. r \in Keepers(L, H)
    BY <1>0 DEF Keepers
  <2>2. H \in keys[L]
    BY <1>0, <2>1 DEF IInv, EntriesExact
  <2>3. Cardinality(Holders(L, H)) = 0 <=> Holders(L, H) = {}
    BY HoldersFinite, FS_EmptySet
  <2>4. CASE counts[L][H] <= 0
    <3>1. Holders(L, H) = {}
      BY <1>6, <2>3, <2>4, HoldersFinite
    <3>2. H \notin keys'[L]
      BY <1>0, <2>4 DEF IInv, TypeOK, Purge
    <3> QED BY <1>4, <3>1, <3>2
  <2>5. CASE ~(counts[L][H] <= 0)
    <3>1. Holders(L, H) # {}
      BY <1>6, <2>3, <2>5
    <3>2. keys' = keys
      BY <2>5 DEF Purge
    <3> QED BY <1>4, <2>2, <3>1, <3>2
  <2> QED BY <2>4, <2>5
<1>11. EntriesExact'
  BY <1>5, <1>10 DEF IInv, EntriesExact
<1> QED BY <1>1, <1>2, <1>8, <1>9, <1>11 DEF IInv

\* The steps that leave the counter and the requests it counts alone.
LEMMA QuietIInv ==
  ASSUME IInv, NEW r \in Requests,
         \/ \E l \in Locations, a \in RemoteAddrs : Arrive(r, l, a)
         \/ LockAdmit(r) \/ Refuse(r) \/ Pass(r)
         \/ Return(r) \/ LockRelease(r) \/ Reply(r)
  PROVE  IInv'
<1>1. CASE \E l \in Locations, a \in RemoteAddrs : Arrive(r, l, a)
  <2> PICK l \in Locations, a \in RemoteAddrs : Arrive(r, l, a)
    BY <1>1
  <2>1. TypeOK'
    BY DEF IInv, TypeOK, Arrive, Goto, ExtractIP, RemoteAddrs, Steps
  <2>2. MutexHeld'
    BY RequestsAssumption DEF IInv, TypeOK, MutexHeld, InCritical, Arrive, Goto
  <2>3. RoomKept'
    BY DEF IInv, TypeOK, RoomKept, Arrive, Goto
  <2> QED BY <2>1, <2>2, <2>3, QuietStep
          DEF IInv, TypeOK, Holders, Keepers, Arrive, Goto
<1>2. CASE LockAdmit(r)
  <2>1. TypeOK'
    BY <1>2 DEF IInv, TypeOK, LockAdmit, Acquire, Goto, Steps
  <2>2. MutexHeld'
    BY <1>2, RequestsAssumption
       DEF IInv, TypeOK, MutexHeld, InCritical, LockAdmit, Acquire, Goto
  <2>3. RoomKept'
    BY <1>2 DEF IInv, TypeOK, RoomKept, LockAdmit, Goto
  <2> QED BY <1>2, <2>1, <2>2, <2>3, QuietStep
          DEF IInv, TypeOK, Holders, Keepers, LockAdmit, Goto
<1>3. CASE Refuse(r)
  <2>1. TypeOK'
    BY <1>3 DEF IInv, TypeOK, Refuse, Unlock, Goto, Steps
  <2>2. MutexHeld'
    BY <1>3, RequestsAssumption
       DEF IInv, TypeOK, MutexHeld, InCritical, Refuse, Unlock, Goto
  <2>3. RoomKept'
    BY <1>3 DEF IInv, TypeOK, RoomKept, Refuse, Goto
  <2> QED BY <1>3, <2>1, <2>2, <2>3, QuietStep
          DEF IInv, TypeOK, Holders, Keepers, Refuse, Goto
<1>4. CASE Pass(r)
  <2>1. TypeOK'
    BY <1>4 DEF IInv, TypeOK, Pass, Goto, Steps
  <2>2. MutexHeld'
    BY <1>4 DEF IInv, TypeOK, MutexHeld, InCritical, Pass, Goto
  <2>3. RoomKept'
    BY <1>4 DEF IInv, TypeOK, RoomKept, Pass, Goto
  <2> QED BY <1>4, <2>1, <2>2, <2>3, QuietStep
          DEF IInv, TypeOK, Holders, Keepers, Pass, Goto
<1>5. CASE Return(r)
  <2>1. TypeOK'
    BY <1>5 DEF IInv, TypeOK, Return, Goto, Steps
  <2>2. MutexHeld'
    BY <1>5 DEF IInv, TypeOK, MutexHeld, InCritical, Return, Goto
  <2>3. RoomKept'
    BY <1>5 DEF IInv, TypeOK, RoomKept, Return, Goto
  <2> QED BY <1>5, <2>1, <2>2, <2>3, QuietStep
          DEF IInv, TypeOK, Holders, Keepers, Return, Goto
<1>6. CASE LockRelease(r)
  <2>1. TypeOK'
    BY <1>6 DEF IInv, TypeOK, LockRelease, Acquire, Goto, Steps
  <2>2. MutexHeld'
    BY <1>6, RequestsAssumption
       DEF IInv, TypeOK, MutexHeld, InCritical, LockRelease, Acquire, Goto
  <2>3. RoomKept'
    BY <1>6 DEF IInv, TypeOK, RoomKept, LockRelease, Goto
  <2> QED BY <1>6, <2>1, <2>2, <2>3, QuietStep
          DEF IInv, TypeOK, Holders, Keepers, LockRelease, Goto
<1>7. CASE Reply(r)
  <2>1. TypeOK'
    BY <1>7, AnyTyped DEF IInv, TypeOK, Reply, Finish, Goto, Steps
  <2>2. MutexHeld'
    BY <1>7, RequestsAssumption
       DEF IInv, TypeOK, MutexHeld, InCritical, Reply, Finish, Goto
  <2>3. RoomKept'
    BY <1>7 DEF IInv, TypeOK, RoomKept, Reply, Finish, Goto
  <2> QED BY <1>7, <2>1, <2>2, <2>3, QuietStep
          DEF IInv, TypeOK, Holders, Keepers, Reply, Finish, Goto
<1> QED BY <1>1, <1>2, <1>3, <1>4, <1>5, <1>6, <1>7

\* Every step of every request preserves the invariant.
LEMMA NextIInv == IInv /\ [Next]_vars => IInv'
<1> SUFFICES ASSUME IInv, [Next]_vars PROVE IInv'
  OBVIOUS
<1>1. CASE Next
  <2> PICK r \in Requests :
        \/ \E l \in Locations, a \in RemoteAddrs : Arrive(r, l, a)
        \/ LockAdmit(r) \/ Return(r) \/ LockRelease(r) \/ Handle(r)
    BY <1>1 DEF Next
  <2>1. loc[r] \in Locations /\ ip[r] \in Hosts
    BY DEF IInv, TypeOK
  <2>2. CASE Increment(r)
    BY <2>1, <2>2, IncrementIInv
  <2>3. CASE Decrement(r)
    BY <2>1, <2>3, DecrementIInv
  <2>4. CASE Purge(r)
    BY <2>1, <2>4, PurgeIInv
  <2>5. CASE \/ \E l \in Locations, a \in RemoteAddrs : Arrive(r, l, a)
             \/ LockAdmit(r) \/ Refuse(r) \/ Pass(r)
             \/ Return(r) \/ LockRelease(r) \/ Reply(r)
    BY <2>5, QuietIInv
  <2> QED BY <2>2, <2>3, <2>4, <2>5 DEF Handle
<1>2. CASE UNCHANGED vars
  BY <1>2 DEF vars, IInv, TypeOK, MutexHeld, InCritical, CountExact, RoomKept,
              LimitHolds, EntriesExact, Holders, Keepers
<1> QED BY <1>1, <1>2

\* The invariant holds in every reachable state of the limiter.
THEOREM Invariance == Spec => []IInv
<1>1. Init => IInv
  BY InitIInv
<1>2. IInv /\ [Next]_vars => IInv'
  BY NextIInv
<1> QED BY <1>1, <1>2, PTL DEF Spec

\* The variables keep their types (limitconn.go, the fields of Limiter).
THEOREM TypeCorrect == Spec => []TypeOK
<1>1. IInv => TypeOK
  BY DEF IInv
<1> QED BY <1>1, Invariance, PTL

\* No interleaving lets more than Limit requests of a client into a location
\* (limitconn.go:33-40).
THEOREM LimitSafe == Spec => []LimitHolds
<1>1. IInv => LimitHolds
  BY DEF IInv
<1> QED BY <1>1, Invariance, PTL

\* The counter is the number of requests inside (limitconn.go:39, 44).
THEOREM CountSafe == Spec => []CountExact
<1>1. IInv => CountExact
  BY DEF IInv
<1> QED BY <1>1, Invariance, PTL

\* While the mutex is free the map holds the clients with a request inside and
\* no other (limitconn.go:45-47).
THEOREM EntriesSafe == Spec => []NoStaleEntries
<1>1. IInv => NoStaleEntries
  <2> SUFFICES ASSUME IInv, NEW l \in Locations, mu[l] = NoReq
               PROVE  keys[l] = {h \in Hosts : Holders(l, h) # {}}
    BY DEF NoStaleEntries
  <2>1. \A r \in Requests : ~(loc[r] = l /\ pc[r] = "purge")
    BY RequestsAssumption DEF IInv, MutexHeld, InCritical
  <2>2. \A h \in Hosts : Keepers(l, h) = Holders(l, h)
    BY <2>1 DEF Keepers, Holders
  <2>3. keys[l] \subseteq Hosts
    BY DEF IInv, TypeOK
  <2> QED BY <2>2, <2>3 DEF IInv, EntriesExact
<1> QED BY <1>1, Invariance, PTL

-----------------------------------------------------------------------------
\* The zones of the abstract limiter and who is inside them.
Zoned == Locations \X Hosts
Inside == [z \in Zoned |-> Holders(z[1], z[2])]
TurnedAway == {r \in Requests : pc[r] = "refused"}

\* A request is busy in the abstract limiter when it was refused or is counted.
LEMMA NotBusy ==
  ASSUME NEW r \in Requests, pc[r] \in {"inc", "check"}
  PROVE  r \notin Limiter!Busy
BY DEF Limiter!Busy, Holders

\* A step that moves no request in or out and turns none away is a stutter.
LEMMA Stutter ==
  ASSUME \A l \in Locations, h \in Hosts : Holders(l, h)' = Holders(l, h),
         TurnedAway' = TurnedAway
  PROVE  UNCHANGED Limiter!vars
<1>1. Inside' = Inside
  BY DEF Inside, Zoned
<1> QED BY <1>1 DEF Limiter!vars, Inside, Zoned, TurnedAway

\* Every step of the code is a step of the abstract limiter, or none.
LEMMA StepSimulation == IInv /\ [Next]_vars => [Limiter!Next]_(Limiter!vars)
<1> SUFFICES ASSUME IInv, [Next]_vars
             PROVE  [Limiter!Next]_(Limiter!vars)
  OBVIOUS
<1>0. CASE UNCHANGED vars
  BY <1>0, Stutter DEF vars, Holders, TurnedAway
<1>1. CASE Next
  <2> PICK r \in Requests :
        \/ \E l \in Locations, a \in RemoteAddrs : Arrive(r, l, a)
        \/ LockAdmit(r) \/ Return(r) \/ LockRelease(r) \/ Handle(r)
    BY <1>1 DEF Next
  <2> PICK L \in Locations, H \in Hosts : L = loc[r] /\ H = ip[r]
    BY DEF IInv, TypeOK
  <2> DEFINE z == <<L, H>>
  <2>0. z \in Zoned /\ z[1] = L /\ z[2] = H /\ Inside[z] = Holders(L, H)
    BY DEF Zoned, Inside
  <2>1. CASE Increment(r)
    <3>1. r \notin Limiter!Busy
      BY <2>1, NotBusy DEF Increment, Goto
    <3>2. Cardinality(Inside[z]) < Limit
      BY <2>0, <2>1 DEF IInv, CountExact, RoomKept, Increment, Goto
    <3>3. Inside' = [Inside EXCEPT ![z] = @ \cup {r}]
      <4>1. ASSUME NEW l \in Locations, NEW h \in Hosts
            PROVE  Holders(l, h)' = IF l = L /\ h = H THEN Holders(l, h) \cup {r}
                                    ELSE Holders(l, h)
        BY <2>1 DEF IInv, TypeOK, Holders, Increment, Goto
      <4>2. \A y \in Zoned : /\ y[1] \in Locations /\ y[2] \in Hosts
                             /\ y = z <=> y[1] = L /\ y[2] = H
        BY DEF Zoned
      <4>3. \A y \in Zoned :
               Holders(y[1], y[2])' = IF y = z THEN Inside[z] \cup {r} ELSE Inside[y]
        BY <2>0, <4>1, <4>2 DEF Inside
      <4> QED BY <2>0, <4>3 DEF Inside
    <3>4. TurnedAway' = TurnedAway
      BY <2>1 DEF IInv, TypeOK, TurnedAway, Increment, Goto
    <3>5. Limiter!Admit(r, z)
      BY <3>1, <3>2, <3>3, <3>4 DEF Limiter!Admit, Limiter!Cardinality, Cardinality, Inside, Zoned,
                                        TurnedAway
    <3> QED BY <2>0, <3>5 DEF Limiter!Next, Zoned
  <2>2. CASE Refuse(r)
    <3>1. r \notin Limiter!Busy
      BY <2>2, NotBusy DEF Refuse, Goto
    <3>2. Cardinality(Inside[z]) >= Limit
      BY <2>0, <2>2 DEF IInv, CountExact, Refuse
    <3>3. Inside' = Inside
      BY <2>2 DEF IInv, TypeOK, Inside, Zoned, Holders, Refuse, Goto
    <3>4. TurnedAway' = TurnedAway \cup {r}
      BY <2>2 DEF IInv, TypeOK, TurnedAway, Refuse, Goto
    <3>5. Limiter!Refuse(r, z)
      BY <3>1, <3>2, <3>3, <3>4 DEF Limiter!Refuse, Limiter!Cardinality, Cardinality, Inside, Zoned,
                                        TurnedAway
    <3> QED BY <2>0, <3>5 DEF Limiter!Next, Zoned
  <2>3. CASE Decrement(r)
    <3>1. r \in Inside[z]
      BY <2>0, <2>3 DEF Holders, Decrement, Goto
    <3>2. Inside' = [Inside EXCEPT ![z] = @ \ {r}]
      <4>1. ASSUME NEW l \in Locations, NEW h \in Hosts
            PROVE  Holders(l, h)' = IF l = L /\ h = H THEN Holders(l, h) \ {r}
                                    ELSE Holders(l, h)
        BY <2>3 DEF IInv, TypeOK, Holders, Decrement, Goto
      <4>2. \A y \in Zoned : /\ y[1] \in Locations /\ y[2] \in Hosts
                             /\ y = z <=> y[1] = L /\ y[2] = H
        BY DEF Zoned
      <4>3. \A y \in Zoned :
               Holders(y[1], y[2])' = IF y = z THEN Inside[z] \ {r} ELSE Inside[y]
        BY <2>0, <4>1, <4>2 DEF Inside
      <4> QED BY <2>0, <4>3 DEF Inside
    <3>3. TurnedAway' = TurnedAway
      BY <2>3 DEF IInv, TypeOK, TurnedAway, Decrement, Goto
    <3>4. Limiter!Leave(r, z)
      BY <3>1, <3>2, <3>3 DEF Limiter!Leave, Inside, Zoned, TurnedAway
    <3> QED BY <2>0, <3>4 DEF Limiter!Next, Zoned
  <2>4. CASE Reply(r)
    <3>1. r \in TurnedAway
      BY <2>4 DEF TurnedAway, Reply, Goto
    <3>2. TurnedAway' = TurnedAway \ {r}
      BY <2>4 DEF IInv, TypeOK, TurnedAway, Reply, Goto
    <3>3. Inside' = Inside
      BY <2>4 DEF IInv, TypeOK, Inside, Zoned, Holders, Reply, Goto, Finish
    <3>4. Limiter!Answer(r)
      BY <3>1, <3>2, <3>3 DEF Limiter!Answer, Inside, Zoned, TurnedAway
    <3> QED BY <3>4 DEF Limiter!Next
  <2>5. CASE \/ \E l \in Locations, a \in RemoteAddrs : Arrive(r, l, a)
             \/ LockAdmit(r) \/ Pass(r) \/ Return(r) \/ LockRelease(r)
    <3>1. \A l \in Locations, h \in Hosts : Holders(l, h)' = Holders(l, h)
      BY <2>5 DEF IInv, TypeOK, Holders, Arrive, LockAdmit, Pass, Return,
                  LockRelease, Goto
    <3>2. TurnedAway' = TurnedAway
      BY <2>5 DEF IInv, TypeOK, TurnedAway, Arrive, LockAdmit, Pass, Return,
                  LockRelease, Goto
    <3> QED BY <3>1, <3>2, Stutter
  <2>6. CASE Purge(r)
    <3>1. \A l \in Locations, h \in Hosts : Holders(l, h)' = Holders(l, h)
      BY <2>6 DEF IInv, TypeOK, Holders, Purge, Goto, Finish
    <3>2. TurnedAway' = TurnedAway
      BY <2>6 DEF IInv, TypeOK, TurnedAway, Purge, Goto
    <3> QED BY <3>1, <3>2, Stutter
  <2> QED BY <2>1, <2>2, <2>3, <2>4, <2>5, <2>6 DEF Handle
<1> QED BY <1>0, <1>1

\* The mutex, the map and the counter implement the abstract limiter
\* (limitconn.go:26-53).
THEOREM Refinement == Spec => ImplementsConnLimit
<1>1. Init => Limiter!Init
  BY DEF Init, Limiter!Init, Holders
<1>2. IInv /\ [Next]_vars => [Limiter!Next]_(Limiter!vars)
  BY StepSimulation
<1> QED BY <1>1, <1>2, Invariance, PTL DEF Spec, ImplementsConnLimit, Limiter!Spec
=============================================================================
