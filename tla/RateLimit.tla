------------------------------ MODULE RateLimit ------------------------------
(***************************************************************************)
(* The write limiter of server/ratelimit.go: a token bucket per caller in  *)
(* a map, created by the caller's first request, refilled when it is asked *)
(* and not as time passes, and dropped by a sweep once it has been idle.   *)
(*                                                                         *)
(* Time is counted in the units in which a bucket refills: one unit of     *)
(* time is one unit in a bucket, and a request takes Cost of them.  The    *)
(* code's 15 requests a second, burst 30 and ten minutes are, for a unit   *)
(* of 1/15 second, Cost = 1, Capacity = 30 and TTL = 9000.                 *)
(*                                                                         *)
(* A behaviour is the life of one server process: the map is in memory and *)
(* a new process starts with an empty one.                                 *)
(***************************************************************************)
EXTENDS Naturals

CONSTANTS
  Caller,    \* what clientKey tells apart
  Cost,      \* units a request takes
  Capacity,  \* units a bucket holds: the burst
  TTL,       \* bucketIdleTTL, and the period of the sweep
  None,      \* no bucket, no sweep
  MaxTime    \* bound: the last moment looked at

ASSUME LimitAssumption ==
  /\ Cost \in Nat /\ Capacity \in Nat /\ TTL \in Nat /\ MaxTime \in Nat
  /\ 0 < Cost /\ Cost <= Capacity
\* An idle bucket is full long before it is dropped.
ASSUME IdleAssumption == Capacity <= TTL

Bucket == [level : 0..Capacity, at : Nat, lastSeen : Nat]

ASSUME NoneAssumption == None \notin Bucket \cup Nat

VARIABLES
  now,      \* the server's clock
  buckets,  \* rateLimiter.buckets
  cutoff,   \* of the sweep that waits for the lock
  window    \* an observer's: since when it has counted, and what was let through

limiter == <<now, buckets, cutoff, window>>

Window == [since : Nat, granted : [Caller -> Nat]]

LimiterTypeOK ==
  /\ now \in Nat
  /\ buckets \in [Caller -> Bucket \cup {None}]
  /\ cutoff \in Nat \cup {None}
  /\ window \in Window

Fresh(t) == [since |-> t, granted |-> [c \in Caller |-> 0]]

LimiterInit ==
  /\ now = 0
  /\ buckets = [c \in Caller |-> None]
  /\ cutoff = None
  /\ window = Fresh(0)

-----------------------------------------------------------------------------
(* rate.Limiter *)

\* What a bucket holds at time `now`: as much as has flowed in since it was
\* last written.
Level(b) == IF b.level + (now - b.at) <= Capacity
            THEN b.level + (now - b.at) ELSE Capacity

NewBucket == [level |-> Capacity, at |-> now, lastSeen |-> now]

\* The caller's bucket, created if the map has none.
BucketOfNone(c) == NewBucket \* mutant: the new bucket is not put in the map
BucketOf(c) == IF buckets[c] = None THEN NewBucket ELSE buckets[c]

-----------------------------------------------------------------------------
(* allow, under the mutex, for a request that changes something.           *)

Allowed(c) ==
  /\ Level(BucketOf(c)) >= Cost
  /\ buckets' = [buckets EXCEPT ![c] =
       [level |-> Level(BucketOf(c)) - Cost, at |-> now, lastSeen |-> now]]
  /\ window' = [window EXCEPT !.granted[c] = @ + 1]
  /\ UNCHANGED <<now, cutoff>>

\* The refused request, too, shows that the caller is there.
Refused(c) ==
  /\ Level(BucketOf(c)) < Cost
  /\ buckets' = [buckets EXCEPT ![c] = [BucketOf(c) EXCEPT !.lastSeen = now]]
  /\ UNCHANGED <<now, cutoff, window>>

-----------------------------------------------------------------------------
(* The sweep.  Its ticker first fires after TTL; how late the goroutine is *)
(* is open, and so is how long it waits for the mutex.                     *)

SweepStarts ==
  /\ cutoff = None /\ now >= TTL
  /\ cutoff' = now - TTL
  /\ UNCHANGED <<now, buckets, window>>

IdleNow(b) == b.lastSeen < now \* mutant: the period is not subtracted
Idle(b) == b.lastSeen < cutoff

Sweep ==
  /\ cutoff # None
  /\ buckets' = [c \in Caller |-> IF buckets[c] # None /\ Idle(buckets[c])
                                  THEN None ELSE buckets[c]]
  /\ cutoff' = None
  /\ UNCHANGED <<now, window>>

-----------------------------------------------------------------------------

Tick == /\ now < MaxTime /\ now' = now + 1
        /\ UNCHANGED <<buckets, cutoff, window>>

\* The observer starts to count again.
Observe == window' = Fresh(now) /\ UNCHANGED <<now, buckets, cutoff>>

LimiterNext ==
  \/ \E c \in Caller : Allowed(c) \/ Refused(c)
  \/ SweepStarts \/ Sweep \/ Tick \/ Observe

LimiterSpec == LimiterInit /\ [][LimiterNext]_limiter

-----------------------------------------------------------------------------
(* Properties. *)

\* Whenever somebody starts to count, from then on no caller gets more
\* requests through than a burst and what the rate allows for the time that
\* has passed, however often its bucket is dropped and made anew.
WithinRate ==
  \A c \in Caller :
    Cost * window.granted[c] <= Capacity + (now - window.since)

\* What makes WithinRate inductive: a bucket is never older than the last
\* request it saw, a sweep looks back by a whole period at least, and what
\* has been let through and what is left never exceed what has flowed in.
LimiterInvariant ==
  /\ LimiterTypeOK
  /\ window.since <= now
  /\ cutoff # None => cutoff + TTL <= now
  /\ \A c \in Caller :
       /\ buckets[c] # None =>
            buckets[c].at <= buckets[c].lastSeen /\ buckets[c].lastSeen <= now
       /\ Cost * window.granted[c] + Level(BucketOf(c))
            <= Capacity + (now - window.since)

\* Nobody can tell that buckets are made late, refilled late and dropped:
\* the limiter behaves as one whose buckets are always there.
Ideal == INSTANCE TokenBucket WITH
  time <- now,
  level <- [c \in Caller |-> Level(BucketOf(c))]
SweepIsInvisible == Ideal!Spec
=============================================================================
