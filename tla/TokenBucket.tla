----------------------------- MODULE TokenBucket -----------------------------
(***************************************************************************)
(* What rate_limit gives each of its keys, with no map, no lock and no     *)
(* clock reading: one bucket, full from the start, into which tokens flow  *)
(* all the time, and each request is decided in one moment between its     *)
(* arrival and its answer, by what the bucket holds just then.             *)
(*                                                                         *)
(* It does not say what a key is: the limiter's is a connection, or a host *)
(* once realip has replaced the address, where the documents promise a     *)
(* bucket for each client IP.  And it allows a bucket that holds nothing,  *)
(* as the default burst of a rate below one token per second makes it.     *)
(***************************************************************************)
EXTENDS Integers

CONSTANTS Callers,  \* the requests being handled at once
          Keys,     \* what has a bucket of its own
          Unit      \* one token

VARIABLES refill,   \* what flows into a bucket in a unit of time
          size,     \* what it holds at most
          level,    \* level[k]: what it holds now
          call      \* call[c]: whose bucket the request asks, and the answer

vars == <<refill, size, level, call>>

Idle == <<>>

TypeOK == /\ refill \in Nat \ {0} /\ size \in Nat
          /\ level \in [Keys -> 0 .. size]
          /\ call \in [Callers -> {Idle} \cup (Keys \X {"asked", "granted", "denied"})]

Init == /\ refill \in Nat \ {0} /\ size \in Nat
        /\ level = [k \in Keys |-> size]
        /\ call = [c \in Callers |-> Idle]

\* Time passes.
Flow == /\ level' = [k \in Keys |->
                       IF level[k] + refill > size THEN size ELSE level[k] + refill]
        /\ UNCHANGED <<refill, size, call>>

Ask(c, k) == /\ call[c] = Idle
             /\ call' = [call EXCEPT ![c] = <<k, "asked">>]
             /\ UNCHANGED <<refill, size, level>>

Grant(c, k) == /\ call[c] = <<k, "asked">>
               /\ level[k] >= Unit
               /\ level' = [level EXCEPT ![k] = @ - Unit]
               /\ call' = [call EXCEPT ![c] = <<k, "granted">>]
               /\ UNCHANGED <<refill, size>>

Deny(c, k) == /\ call[c] = <<k, "asked">>
              /\ level[k] < Unit
              /\ call' = [call EXCEPT ![c] = <<k, "denied">>]
              /\ UNCHANGED <<refill, size, level>>

Reply(c, k) == /\ call[c] \in {<<k, "granted">>, <<k, "denied">>}
               /\ call' = [call EXCEPT ![c] = Idle]
               /\ UNCHANGED <<refill, size, level>>

Next == \/ Flow
        \/ \E c \in Callers, k \in Keys : Ask(c, k) \/ Grant(c, k) \/ Deny(c, k) \/ Reply(c, k)

Spec == Init /\ [][Next]_vars
=============================================================================
