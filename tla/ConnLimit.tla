------------------------------ MODULE ConnLimit ------------------------------
(***************************************************************************)
(* What limit_conn promises, with no lock, no counter and no map: at any   *)
(* moment at most Limit requests of one client are inside a location, a    *)
(* client is refused only while its share is taken up, and a request that  *)
(* leaves gives its place back at once.  A "zone" is one client seen by    *)
(* one location.                                                           *)
(***************************************************************************)
EXTENDS Naturals, FiniteSets

CONSTANTS Requests,  \* the requests the server may be handling at once
          Zones,     \* what the limit applies to
          Limit      \* how many requests may be inside a zone

VARIABLES inside,    \* inside[z]: the requests that zone z has admitted
          refused    \* the requests turned away, not yet answered

vars == <<inside, refused>>

Busy == refused \cup UNION {inside[z] : z \in Zones}

TypeOK == /\ inside \in [Zones -> SUBSET Requests]
          /\ refused \subseteq Requests

Init == /\ inside = [z \in Zones |-> {}]
        /\ refused = {}

Admit(r, z) == /\ r \notin Busy
               /\ Cardinality(inside[z]) < Limit
               /\ inside' = [inside EXCEPT ![z] = @ \cup {r}]
               /\ UNCHANGED refused

Refuse(r, z) == /\ r \notin Busy
                /\ Cardinality(inside[z]) >= Limit
                /\ refused' = refused \cup {r}
                /\ UNCHANGED inside

Answer(r) == /\ r \in refused
             /\ refused' = refused \ {r}
             /\ UNCHANGED inside

Leave(r, z) == /\ r \in inside[z]
               /\ inside' = [inside EXCEPT ![z] = @ \ {r}]
               /\ UNCHANGED refused

Next == \E r \in Requests :
           \/ Answer(r)
           \/ \E z \in Zones : Admit(r, z) \/ Refuse(r, z) \/ Leave(r, z)

Spec == Init /\ [][Next]_vars
=============================================================================
