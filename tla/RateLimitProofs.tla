--------------------------- MODULE RateLimitProofs ---------------------------
(***************************************************************************)
(* The limiter keeps its rate and behaves as buckets that are never        *)
(* dropped, for any number of callers and any sizes.                       *)
(***************************************************************************)
EXTENDS RateLimit, TLAPS

\* What a bucket holds is between nothing and its capacity.
LEMMA LevelType ==
  ASSUME LimiterTypeOK, NEW b \in Bucket, b.at <= now
  PROVE  Level(b) \in 0..Capacity
BY LimitAssumption DEF LimiterTypeOK, Bucket, Level

LEMMA NewBucketFull ==
  ASSUME LimiterTypeOK
  PROVE  NewBucket \in Bucket /\ NewBucket.at = now /\ Level(NewBucket) = Capacity
BY LimitAssumption DEF LimiterTypeOK, Bucket, NewBucket, Level

LEMMA BucketOfType ==
  ASSUME LimiterInvariant, NEW c \in Caller
  PROVE  /\ BucketOf(c) \in Bucket
         /\ BucketOf(c).at <= BucketOf(c).lastSeen
         /\ BucketOf(c).lastSeen <= now
         /\ Level(BucketOf(c)) \in 0..Capacity
<1>1. CASE buckets[c] = None
  BY <1>1, NewBucketFull, LimitAssumption
  DEF LimiterInvariant, LimiterTypeOK, BucketOf, NewBucket
<1>2. CASE buckets[c] # None
  <2>1. BucketOf(c) = buckets[c] /\ buckets[c] \in Bucket
    BY <1>2 DEF LimiterInvariant, LimiterTypeOK, BucketOf
  <2>2. BucketOf(c).at <= BucketOf(c).lastSeen /\ BucketOf(c).lastSeen <= now
    BY <1>2, <2>1 DEF LimiterInvariant
  <2>3. BucketOf(c).at <= now
    BY <2>1, <2>2 DEF LimiterInvariant, LimiterTypeOK, Bucket
  <2> QED BY <2>1, <2>2, <2>3, LevelType DEF LimiterInvariant
<1> QED BY <1>1, <1>2

-----------------------------------------------------------------------------
(* What each step does to the buckets, seen as if they were always there.  *)

LEMMA AllowedTakes ==
  ASSUME LimiterInvariant, NEW c \in Caller, Allowed(c)
  PROVE  /\ LimiterTypeOK'
         /\ Level(BucketOf(c))' = Level(BucketOf(c)) - Cost
         /\ \A d \in Caller \ {c} : Level(BucketOf(d))' = Level(BucketOf(d))
<1>1. PICK b \in Bucket :
        b = [level |-> Level(BucketOf(c)) - Cost, at |-> now, lastSeen |-> now]
  <2> DEFINE new == [level |-> Level(BucketOf(c)) - Cost, at |-> now, lastSeen |-> now]
  <2>1. Level(BucketOf(c)) - Cost \in 0..Capacity
    BY BucketOfType, LimitAssumption DEF Allowed
  <2>2. new \in Bucket
    BY <2>1 DEF LimiterInvariant, LimiterTypeOK, Bucket
  <2> QED BY <2>2
<1>2. buckets' = [buckets EXCEPT ![c] = b] /\ now' = now /\ cutoff' = cutoff
  BY <1>1 DEF Allowed
<1>3. window' \in Window
  BY DEF Allowed, LimiterInvariant, LimiterTypeOK, Window
<1>4. LimiterTypeOK'
  BY <1>1, <1>2, <1>3 DEF LimiterInvariant, LimiterTypeOK
<1>5. BucketOf(c)' = b
  BY <1>1, <1>2, NoneAssumption DEF BucketOf, LimiterInvariant, LimiterTypeOK
<1>6. Level(b)' = Level(BucketOf(c)) - Cost
  BY <1>1, <1>2, LimitAssumption DEF Level, Bucket, LimiterInvariant, LimiterTypeOK
<1>7. ASSUME NEW d \in Caller \ {c}
      PROVE  Level(BucketOf(d))' = Level(BucketOf(d))
  BY <1>2 DEF BucketOf, Level, NewBucket, LimiterInvariant, LimiterTypeOK
<1> QED BY <1>4, <1>5, <1>6, <1>7

LEMMA RefusedKeeps ==
  ASSUME LimiterInvariant, NEW c \in Caller, Refused(c)
  PROVE  /\ LimiterTypeOK'
         /\ \A d \in Caller : Level(BucketOf(d))' = Level(BucketOf(d))
<1>1. PICK b \in Bucket :
        /\ b = [BucketOf(c) EXCEPT !.lastSeen = now]
        /\ b.level = BucketOf(c).level /\ b.at = BucketOf(c).at
  <2> DEFINE new == [BucketOf(c) EXCEPT !.lastSeen = now]
  <2>1. /\ new \in Bucket
        /\ new.level = BucketOf(c).level /\ new.at = BucketOf(c).at
    BY BucketOfType DEF LimiterInvariant, LimiterTypeOK, Bucket
  <2> QED BY <2>1
<1>2. /\ buckets' = [buckets EXCEPT ![c] = b]
      /\ now' = now /\ cutoff' = cutoff /\ window' = window
  BY <1>1 DEF Refused
<1>3. LimiterTypeOK'
  BY <1>1, <1>2 DEF LimiterInvariant, LimiterTypeOK
<1>4. BucketOf(c)' = b
  BY <1>1, <1>2, NoneAssumption DEF BucketOf, LimiterInvariant, LimiterTypeOK
<1>5. Level(b)' = Level(BucketOf(c))
  BY <1>1, <1>2 DEF Level
<1>6. ASSUME NEW d \in Caller \ {c}
      PROVE  Level(BucketOf(d))' = Level(BucketOf(d))
  BY <1>2 DEF BucketOf, Level, NewBucket, LimiterInvariant, LimiterTypeOK
<1> QED BY <1>3, <1>4, <1>5, <1>6

\* An idle bucket is full: it has not been written for a period, and a
\* period is enough to fill it.
LEMMA IdleIsFull ==
  ASSUME LimiterInvariant, NEW c \in Caller, buckets[c] # None,
         cutoff # None, Idle(buckets[c])
  PROVE  Level(buckets[c]) = Capacity
<1>1. buckets[c] \in Bucket /\ now \in Nat /\ cutoff \in Nat
  BY DEF LimiterInvariant, LimiterTypeOK
<1>2. buckets[c].at <= buckets[c].lastSeen /\ cutoff + TTL <= now
  BY DEF LimiterInvariant
<1>3. now - buckets[c].at >= Capacity
  BY <1>1, <1>2, LimitAssumption, IdleAssumption DEF Idle, Bucket
<1> QED BY <1>1, <1>3, LimitAssumption DEF Level, Bucket

LEMMA SweepKeeps ==
  ASSUME LimiterInvariant, Sweep
  PROVE  /\ LimiterTypeOK'
         /\ \A d \in Caller : Level(BucketOf(d))' = Level(BucketOf(d))
<1>1. LimiterTypeOK'
  BY DEF Sweep, LimiterInvariant, LimiterTypeOK
<1>2. ASSUME NEW d \in Caller
      PROVE  Level(BucketOf(d))' = Level(BucketOf(d))
  <2>1. CASE buckets[d] # None /\ Idle(buckets[d])
    <3>1. Level(BucketOf(d)) = Capacity
      BY <2>1, IdleIsFull DEF BucketOf, Sweep
    <3>2. BucketOf(d)' = NewBucket'
      BY <2>1 DEF Sweep, BucketOf
    <3>3. Level(NewBucket)' = Capacity
      BY NewBucketFull DEF Sweep, Level, NewBucket, LimiterInvariant
    <3> QED BY <3>1, <3>2, <3>3
  <2>2. CASE ~ (buckets[d] # None /\ Idle(buckets[d]))
    BY <2>2 DEF Sweep, BucketOf, NewBucket, Level
  <2> QED BY <2>1, <2>2
<1> QED BY <1>1, <1>2

LEMMA TickRefills ==
  ASSUME LimiterInvariant, Tick
  PROVE  /\ LimiterTypeOK'
         /\ \A d \in Caller : Level(BucketOf(d))' =
              IF Level(BucketOf(d)) < Capacity THEN Level(BucketOf(d)) + 1
                                               ELSE Capacity
<1>1. LimiterTypeOK'
  BY DEF Tick, LimiterInvariant, LimiterTypeOK
<1>2. ASSUME NEW d \in Caller
      PROVE  Level(BucketOf(d))' =
               IF Level(BucketOf(d)) < Capacity THEN Level(BucketOf(d)) + 1
                                                ELSE Capacity
  <2>1. CASE buckets[d] = None
    BY <2>1, LimitAssumption
    DEF Tick, LimiterInvariant, LimiterTypeOK, BucketOf, NewBucket, Level
  <2>2. CASE buckets[d] # None
    <3>1. BucketOf(d) = buckets[d] /\ BucketOf(d)' = buckets[d]
      BY <2>2 DEF Tick, BucketOf
    <3>2. buckets[d] \in Bucket /\ buckets[d].at <= now
      BY <2>2, <3>1, BucketOfType DEF LimiterInvariant, LimiterTypeOK, Bucket
    <3> QED BY <3>1, <3>2, LimitAssumption
            DEF Tick, LimiterInvariant, LimiterTypeOK, Bucket, Level
  <2> QED BY <2>1, <2>2
<1> QED BY <1>1, <1>2

\* The observer's and the sweep's first step write no bucket.
LEMMA OthersKeep ==
  ASSUME LimiterInvariant, SweepStarts \/ Observe \/ UNCHANGED limiter
  PROVE  /\ LimiterTypeOK'
         /\ \A d \in Caller : Level(BucketOf(d))' = Level(BucketOf(d))
<1>1. now' = now /\ buckets' = buckets
  BY DEF SweepStarts, Observe, limiter
<1>2. LimiterTypeOK'
  BY LimitAssumption
  DEF SweepStarts, Observe, limiter, LimiterInvariant, LimiterTypeOK, Fresh, Window
<1> QED BY <1>1, <1>2 DEF BucketOf, NewBucket, Level

-----------------------------------------------------------------------------
(* The invariant. *)

LEMMA LimiterInvariantInit == LimiterInit => LimiterInvariant
<1> SUFFICES ASSUME LimiterInit PROVE LimiterInvariant
  OBVIOUS
<1>1. LimiterTypeOK
  BY DEF LimiterInit, LimiterTypeOK, Fresh, Window
<1>2. ASSUME NEW c \in Caller
      PROVE  Cost * window.granted[c] + Level(BucketOf(c))
               <= Capacity + (now - window.since)
  <2>1. window.granted[c] = 0 /\ window.since = 0 /\ now = 0
    BY DEF LimiterInit, Fresh
  <2>2. Level(BucketOf(c)) = Capacity
    BY <1>1, NewBucketFull DEF LimiterInit, BucketOf
  <2> QED BY <2>1, <2>2, LimitAssumption
<1> QED BY <1>1, <1>2 DEF LimiterInit, Fresh, LimiterInvariant, LimiterTypeOK

\* One request more takes Cost more.
LEMMA CostOfOneMore ==
  ASSUME NEW n \in Nat
  PROVE  Cost * n \in Nat /\ Cost * (n + 1) = Cost * n + Cost
BY LimitAssumption

\* The buckets are no older than their last request, and that is not later
\* than now.
Aged == \A c \in Caller : buckets[c] # None =>
          buckets[c].at <= buckets[c].lastSeen /\ buckets[c].lastSeen <= now

LEMMA AgedNext == LimiterInvariant /\ [LimiterNext]_limiter => Aged'
<1> SUFFICES ASSUME LimiterInvariant, [LimiterNext]_limiter PROVE Aged'
  OBVIOUS
<1>1. Aged
  BY DEF LimiterInvariant, Aged
<1>2. ASSUME NEW c \in Caller, Allowed(c) PROVE Aged'
  BY <1>1, <1>2 DEF Allowed, Aged, LimiterInvariant, LimiterTypeOK
<1>3. ASSUME NEW c \in Caller, Refused(c) PROVE Aged'
  <2>1. /\ BucketOf(c) \in Bucket /\ BucketOf(c).at <= BucketOf(c).lastSeen
        /\ BucketOf(c).lastSeen <= now /\ now \in Nat
    BY BucketOfType DEF LimiterInvariant, LimiterTypeOK
  <2>2. BucketOf(c).at <= now
    BY <2>1 DEF Bucket
  <2> QED BY <1>1, <1>3, <2>1, <2>2
          DEF Refused, Aged, LimiterInvariant, LimiterTypeOK, Bucket
<1>4. CASE SweepStarts \/ Observe \/ UNCHANGED limiter
  BY <1>1, <1>4 DEF SweepStarts, Observe, limiter, Aged
<1>5. CASE Sweep
  BY <1>1, <1>5 DEF Sweep, Aged
<1>6. CASE Tick
  BY <1>1, <1>6 DEF Tick, Aged, LimiterInvariant, LimiterTypeOK, Bucket
<1> QED BY <1>2, <1>3, <1>4, <1>5, <1>6 DEF LimiterNext

LEMMA LimiterInvariantNext ==
  LimiterInvariant /\ [LimiterNext]_limiter => LimiterInvariant'
<1> SUFFICES ASSUME LimiterInvariant, [LimiterNext]_limiter
             PROVE  LimiterInvariant'
  OBVIOUS
<1> DEFINE Kept(c) == Cost * window.granted[c] + Level(BucketOf(c))
                        <= Capacity + (now - window.since)
           Clock == window.since <= now /\ (cutoff # None => cutoff + TTL <= now)
<1>1. Aged'
  BY AgedNext
<1>2. LimiterTypeOK' /\ Clock' /\ (\A d \in Caller : Kept(d)')
      => LimiterInvariant'
  BY <1>1 DEF LimiterInvariant, Aged
<1>3. /\ now \in Nat /\ window.since \in Nat /\ Clock
      /\ \A d \in Caller : window.granted[d] \in Nat /\ Kept(d)
                           /\ Level(BucketOf(d)) \in 0..Capacity
  BY BucketOfType DEF LimiterInvariant, LimiterTypeOK, Window
<1> HIDE DEF Kept, Clock
<1>4. ASSUME NEW c \in Caller, Allowed(c) PROVE LimiterInvariant'
  <2>1. Clock'
    BY <1>3, <1>4 DEF Allowed, Clock
  <2>2. /\ window.granted[c]' = window.granted[c] + 1
        /\ \A d \in Caller \ {c} : window.granted[d]' = window.granted[d]
        /\ window.since' = window.since /\ now' = now
    BY <1>4 DEF Allowed, LimiterInvariant, LimiterTypeOK, Window
  <2>3. Kept(c)'
    <3>1. Cost * window.granted[c]' = Cost * window.granted[c] + Cost
      BY <1>3, <2>2, CostOfOneMore
    <3>2. Level(BucketOf(c))' = Level(BucketOf(c)) - Cost
      BY <1>4, AllowedTakes
    <3>3. Cost * window.granted[c] \in Nat
      BY <1>3, CostOfOneMore
    <3> QED BY <1>3, <2>2, <3>1, <3>2, <3>3, LimitAssumption DEF Kept
  <2>4. ASSUME NEW d \in Caller \ {c} PROVE Kept(d)'
    BY <1>3, <1>4, <2>2, AllowedTakes DEF Kept
  <2> QED BY <1>2, <1>4, <2>1, <2>3, <2>4, AllowedTakes
<1>5. ASSUME NEW c \in Caller, Refused(c) PROVE LimiterInvariant'
  <2>1. Clock'
    BY <1>3, <1>5 DEF Refused, Clock
  <2>2. ASSUME NEW d \in Caller PROVE Kept(d)'
    BY <1>3, <1>5, RefusedKeeps DEF Refused, Kept
  <2> QED BY <1>2, <1>5, <2>1, <2>2, RefusedKeeps
<1>6. CASE SweepStarts
  <2>1. Clock'
    BY <1>3, <1>6, LimitAssumption DEF SweepStarts, Clock
  <2>2. ASSUME NEW d \in Caller PROVE Kept(d)'
    BY <1>3, <1>6, OthersKeep DEF SweepStarts, Kept
  <2> QED BY <1>2, <1>6, <2>1, <2>2, OthersKeep
<1>7. CASE Sweep
  <2>1. Clock'
    BY <1>3, <1>7 DEF Sweep, Clock
  <2>2. ASSUME NEW d \in Caller PROVE Kept(d)'
    BY <1>3, <1>7, SweepKeeps DEF Sweep, Kept
  <2> QED BY <1>2, <1>7, <2>1, <2>2, SweepKeeps
<1>8. CASE Tick
  <2>1. Clock'
    BY <1>3, <1>8, LimitAssumption
    DEF Tick, Clock, LimiterInvariant, LimiterTypeOK
  <2>2. ASSUME NEW d \in Caller PROVE Kept(d)'
    <3>1. Level(BucketOf(d))' <= Level(BucketOf(d)) + 1
      BY <1>3, <1>8, TickRefills, LimitAssumption
    <3>2. Level(BucketOf(d))' \in Nat
      BY <1>3, <1>8, TickRefills, LimitAssumption
    <3>3. Cost * window.granted[d] \in Nat
      BY <1>3, CostOfOneMore
    <3>4. window' = window /\ now' = now + 1
      BY <1>8 DEF Tick
    <3> QED BY <1>3, <3>1, <3>2, <3>3, <3>4, LimitAssumption DEF Kept
  <2> QED BY <1>2, <1>8, <2>1, <2>2, TickRefills
<1>9. CASE Observe
  <2>1. Clock'
    BY <1>3, <1>9 DEF Observe, Fresh, Clock
  <2>2. ASSUME NEW d \in Caller PROVE Kept(d)'
    <3>1. window.granted[d]' = 0 /\ window.since' = now /\ now' = now
      BY <1>9 DEF Observe, Fresh
    <3>2. Level(BucketOf(d))' \in 0..Capacity
      BY <1>3, <1>9, OthersKeep, LimitAssumption
    <3> QED BY <1>3, <3>1, <3>2, LimitAssumption DEF Kept
  <2> QED BY <1>2, <1>9, <2>1, <2>2, OthersKeep
<1>10. CASE UNCHANGED limiter
  <2>1. Clock'
    BY <1>3, <1>10 DEF limiter, Clock
  <2>2. ASSUME NEW d \in Caller PROVE Kept(d)'
    BY <1>3, <1>10, OthersKeep DEF limiter, Kept
  <2> QED BY <1>2, <1>10, <2>1, <2>2, OthersKeep
<1> QED BY <1>4, <1>5, <1>6, <1>7, <1>8, <1>9, <1>10 DEF LimiterNext

\* LimiterInvariant holds in every reachable state: buckets are as old as
\* their requests, and requests let through and units left add up.
THEOREM BucketsAddUp == LimiterSpec => []LimiterInvariant
BY LimiterInvariantInit, LimiterInvariantNext, PTL DEF LimiterSpec

\* From whatever moment one counts, a caller gets no more through than a
\* burst and what flows in (mutationRatePerSec, mutationBurst).
THEOREM RateIsKept == LimiterSpec => []WithinRate
<1>1. LimiterInvariant => WithinRate
  <2> SUFFICES ASSUME LimiterInvariant, NEW c \in Caller
               PROVE  Cost * window.granted[c] <= Capacity + (now - window.since)
    BY DEF WithinRate
  <2>1. Cost * window.granted[c] + Level(BucketOf(c))
          <= Capacity + (now - window.since)
    BY DEF LimiterInvariant
  <2>2. /\ window.granted[c] \in Nat /\ Level(BucketOf(c)) \in 0..Capacity
        /\ now \in Nat /\ window.since \in Nat
    BY BucketOfType DEF LimiterInvariant, LimiterTypeOK, Window
  <2>3. Cost * window.granted[c] \in Nat
    BY <2>2, CostOfOneMore
  <2> QED BY <2>1, <2>2, <2>3, LimitAssumption
<1> QED BY <1>1, BucketsAddUp, PTL

-----------------------------------------------------------------------------
(* The refinement. *)

\* Dropping and remaking buckets implements buckets that are always there:
\* every step of the limiter is a step of TokenBucket or changes nothing.
THEOREM SweepingIsInvisible == LimiterSpec => SweepIsInvisible
<1> DEFINE full == [c \in Caller |-> Level(BucketOf(c))]
<1>1. LimiterInit => Ideal!Init
  BY LimiterInvariantInit, NewBucketFull
  DEF LimiterInit, LimiterInvariant, BucketOf, Ideal!Init
<1>2. ASSUME LimiterInvariant, [LimiterNext]_limiter
      PROVE  [Ideal!Next]_<<now, full>>
  <2>1. ASSUME NEW c \in Caller, Allowed(c) PROVE Ideal!Take(c)
    <3>1. Level(BucketOf(c)) >= Cost
      BY <2>1 DEF Allowed
    <3>2. full' = [full EXCEPT ![c] = @ - Cost]
      BY <1>2, <2>1, AllowedTakes
    <3> QED BY <2>1, <3>1, <3>2 DEF Allowed, Ideal!Take
  <2>2. ASSUME NEW c \in Caller, Refused(c) PROVE UNCHANGED <<now, full>>
    BY <1>2, <2>2, RefusedKeeps DEF Refused
  <2>3. CASE SweepStarts \/ Observe \/ UNCHANGED limiter
    BY <1>2, <2>3, OthersKeep DEF SweepStarts, Observe, limiter
  <2>4. CASE Sweep
    BY <1>2, <2>4, SweepKeeps DEF Sweep
  <2>5. CASE Tick
    BY <1>2, <2>5, TickRefills DEF Tick, Ideal!Next, Ideal!Refill
  <2> QED BY <1>2, <2>1, <2>2, <2>3, <2>4, <2>5
          DEF LimiterNext, Ideal!Next
<1> QED BY <1>1, <1>2, BucketsAddUp, PTL
        DEF LimiterSpec, SweepIsInvisible, Ideal!Spec
=============================================================================
