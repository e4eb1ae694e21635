----------------------------- MODULE TokenBucket -----------------------------
(***************************************************************************)
(* What the write limiter promises its callers: each of them has a bucket  *)
(* of tokens that fills with time up to Capacity and gives up Cost units   *)
(* for every request that is let through.  No bucket is ever dropped and   *)
(* none has a clock of its own.                                            *)
(***************************************************************************)
EXTENDS Naturals

CONSTANTS Caller, Cost, Capacity

VARIABLES
  time,  \* units since the beginning
  level  \* what is in each caller's bucket

Init == time = 0 /\ level = [c \in Caller |-> Capacity]

\* A unit of time passes: every bucket that is not full gets a unit.
Refill ==
  /\ time' = time + 1
  /\ level' = [c \in Caller |->
                IF level[c] < Capacity THEN level[c] + 1 ELSE Capacity]

\* A request of c is let through.
Take(c) ==
  /\ level[c] >= Cost
  /\ level' = [level EXCEPT ![c] = @ - Cost]
  /\ UNCHANGED time

Next == Refill \/ \E c \in Caller : Take(c)

Spec == Init /\ [][Next]_<<time, level>>
=============================================================================
