--------------------------- MODULE BreakdownProofs ---------------------------
(***************************************************************************)
(* The dialog creates a review at most once that it was told of and is     *)
(* never left waiting, whatever the model answers; and the limiter it goes *)
(* through keeps what RateLimitProofs shows of it.                         *)
(***************************************************************************)
EXTENDS Breakdown, RateLimitProofs, SequenceTheorems

-----------------------------------------------------------------------------
(* The limiter beside the dialog. *)

\* Every step of the dialog leaves the limiter alone or is a request to it.
LEMMA StepOfLimiter == [Next]_vars => [LimiterNext]_limiter
<1> SUFFICES ASSUME [Next]_vars PROVE [LimiterNext]_limiter
  OBVIOUS
<1>1. CASE Open \/ Close \/ Retry \/ Toggle \/ Submit \/ AskAnswered \/ AskFails
  BY <1>1 DEF Open, Close, Retry, Toggle, Submit, AskAnswered, AskFails
<1>2. CASE AskArrives
  BY <1>2, DialogAssumption DEF AskArrives, LimiterNext
<1>3. CASE \E i \in DOMAIN applies : ApplyArrives(i)
  BY <1>3, DialogAssumption DEF ApplyArrives, LimiterNext
<1>4. CASE \E i \in DOMAIN applies : ApplyAnswered(i) \/ ApplyLost(i)
  BY <1>4 DEF ApplyAnswered, ApplyLost
<1>5. CASE Elsewhere \/ UNCHANGED vars
  BY <1>5 DEF Elsewhere, vars
<1> QED BY <1>1, <1>2, <1>3, <1>4, <1>5 DEF Next

\* In the composed system the limiter behaves as it does by itself.
THEOREM LimiterBesideDialog == Spec => LimiterSpec
<1>1. Init => LimiterInit
  BY DEF Init
<1> QED BY <1>1, StepOfLimiter, PTL DEF Spec, LimiterSpec

\* What a caller gets through is bounded also when it comes from a dialog, and
\* dropped buckets stay invisible (rateLimiter.allow, sweep).
THEOREM LimiterUnderDialog ==
  Spec => []LimiterInvariant /\ []WithinRate /\ SweepIsInvisible
BY LimiterBesideDialog, BucketsAddUp, RateIsKept, SweepingIsInvisible, PTL

-----------------------------------------------------------------------------
(* The types. *)

LEMMA ReviewShape ==
  ASSUME NEW answer \in Answers
  PROVE  /\ Truncated(answer) \in Seq(Seq(Int))
         /\ Len(Truncated(answer)) \in 0..MaxSubtasks
         /\ DOMAIN Reviewed(Truncated(answer)) = 1..Len(Truncated(answer))
<1> DEFINE n == IF Len(answer) > MaxSubtasks THEN MaxSubtasks ELSE Len(answer)
<1>1. answer \in Seq(Seq(Int)) /\ MaxSubtasks \in Nat
  BY DialogAssumption
<1>2. n \in Nat /\ n <= Len(answer) /\ n <= MaxSubtasks
  BY <1>1, LenProperties
<1>3. SubSeq(answer, 1, n) \in Seq(Seq(Int)) /\ Len(SubSeq(answer, 1, n)) = n
  BY <1>1, <1>2, SubSeqProperties
<1>4. Truncated(answer) \in Seq(Seq(Int)) /\ Len(Truncated(answer)) = n
  BY <1>3 DEF Truncated
<1> QED BY <1>1, <1>2, <1>4, LenProperties DEF Reviewed

LEMMA RequestStays ==
  ASSUME NEW i \in DOMAIN applies, NEW r \in Request, applies \in Seq(Request),
         applies' = [applies EXCEPT ![i] = r]
  PROVE  /\ applies' \in Seq(Request) /\ Len(applies') = Len(applies)
         /\ DOMAIN applies' = DOMAIN applies
         /\ applies'[i] = r
         /\ \A j \in DOMAIN applies \ {i} : applies'[j] = applies[j]
BY ExceptSeq, LenProperties

LEMMA AppendStays ==
  ASSUME NEW r \in Request, applies \in Seq(Request),
         applies' = Append(applies, r)
  PROVE  /\ applies' \in Seq(Request) /\ Len(applies') = Len(applies) + 1
         /\ DOMAIN applies' = DOMAIN applies \cup {Len(applies')}
         /\ applies'[Len(applies')] = r
         /\ \A j \in DOMAIN applies : j < Len(applies') /\ applies'[j] = applies[j]
BY AppendProperties, LenProperties

\* What the three steps of a request make of it.
LEMMA ArrivesMakes ==
  ASSUME DialogTypeOK, NEW i \in DOMAIN applies, ApplyArrives(i),
         RequestOK(applies[i])
  PROVE  \E r \in Request :
           /\ applies' = [applies EXCEPT ![i] = r]
           /\ r.review = applies[i].review /\ r.by = applies[i].by
           /\ r.at # "over" /\ applies[i].at # "over"
           /\ RequestOK(r) /\ (Settled(applies[i]) => Settled(r))
<1>1. applies[i] \in Request /\ applies[i].at = "sent"
  BY ElementOfSeq, LenProperties DEF DialogTypeOK, ApplyArrives
<1>2. CASE Allowed(Me) /\ Valid(applies[i].body) /\
           \E at \in {"created", "refused"} :
             applies' = [applies EXCEPT ![i] =
               [@ EXCEPT !.at = at, !.body = << >>, !.made = TRUE,
                         !.told = applies[i].told /\ at = "created"]]
  <2>1. PICK at \in {"created", "refused"} :
             applies' = [applies EXCEPT ![i] =
               [@ EXCEPT !.at = at, !.body = << >>, !.made = TRUE,
                         !.told = applies[i].told /\ at = "created"]]
    BY <1>2
  <2> DEFINE r == [applies[i] EXCEPT !.at = at, !.body = << >>, !.made = TRUE,
                                     !.told = applies[i].told /\ at = "created"]
  <2>2. applies' = [applies EXCEPT ![i] = r]
    BY <2>1
  <2>3. /\ r \in Request /\ r.review = applies[i].review
        /\ r.by = applies[i].by /\ r.at # "over"
    BY <1>1 DEF Request
  <2>4. RequestOK(r) /\ (Settled(applies[i]) => Settled(r))
    BY <1>1 DEF RequestOK, Settled, Request
  <2> HIDE DEF r
  <2> QED BY <1>1, <2>2, <2>3, <2>4
<1>3. CASE applies' = [applies EXCEPT ![i] = [@ EXCEPT !.at = "refused", !.body = << >>]]
  <2> DEFINE r == [applies[i] EXCEPT !.at = "refused", !.body = << >>]
  <2>2. applies' = [applies EXCEPT ![i] = r]
    BY <1>3
  <2>3. /\ r \in Request /\ r.review = applies[i].review
        /\ r.by = applies[i].by /\ r.at # "over"
    BY <1>1 DEF Request
  <2>4. RequestOK(r) /\ (Settled(applies[i]) => Settled(r))
    BY <1>1 DEF RequestOK, Settled, Request
  <2> HIDE DEF r
  <2> QED BY <1>1, <2>2, <2>3, <2>4
<1> QED BY <1>2, <1>3 DEF ApplyArrives

LEMMA AnswerMakes ==
  ASSUME DialogTypeOK, NEW i \in DOMAIN applies, ApplyAnswered(i),
         RequestOK(applies[i])
  PROVE  \E r \in Request :
           /\ applies' = [applies EXCEPT ![i] = r]
           /\ r.review = applies[i].review
           /\ applies[i].at # "over" /\ RequestOK(r)
           /\ Settled(applies[i]) => Settled(r)
           /\ applies[i].at = "refused" => Settled(r)
<1>1. applies[i] \in Request /\ applies[i].at \in {"created", "refused"}
  BY ElementOfSeq, LenProperties DEF DialogTypeOK, ApplyAnswered
<1> DEFINE r == [applies[i] EXCEPT !.at = "over"]
<1>2. applies' = [applies EXCEPT ![i] = r]
  BY DEF ApplyAnswered
<1>3. r \in Request /\ r.review = applies[i].review
  BY <1>1 DEF Request
<1>4. /\ RequestOK(r) /\ (Settled(applies[i]) => Settled(r))
      /\ applies[i].at = "refused" => Settled(r)
  BY <1>1 DEF RequestOK, Settled, Request
<1> QED BY <1>1, <1>2, <1>3, <1>4

LEMMA LostMakes ==
  ASSUME DialogTypeOK, NEW i \in DOMAIN applies, ApplyLost(i),
         RequestOK(applies[i])
  PROVE  \E r \in Request :
           /\ applies' = [applies EXCEPT ![i] = r]
           /\ r.review = applies[i].review
           /\ RequestOK(r) /\ Settled(r)
<1>1. applies[i] \in Request
  BY ElementOfSeq, LenProperties DEF DialogTypeOK
<1> DEFINE r == [applies[i] EXCEPT !.by = 0, !.told = FALSE]
<1>2. applies' = [applies EXCEPT ![i] = r]
  BY DEF ApplyLost
<1>3. r \in Request /\ r.review = applies[i].review
  <2>1. 0 \in 0..MaxOpens
    BY DialogAssumption
  <2> QED BY <1>1, <2>1 DEF Request
<1>4. RequestOK(r) /\ Settled(r)
  BY <1>1 DEF RequestOK, Settled, Request
<1> HIDE DEF r
<1> QED BY <1>2, <1>3, <1>4

\* A request that changes so, changes nothing of what holds between two.
LEMMA PairsStay ==
  ASSUME DialogTypeOK, DialogInvariant,
         NEW i \in DOMAIN applies, NEW r \in Request,
         applies' = [applies EXCEPT ![i] = r], opened' = opened,
         r.review = applies[i].review, RequestOK(r),
         Settled(applies[i]) => Settled(r)
  PROVE  /\ applies' \in Seq(Request) /\ Len(applies') <= MaxApplies
         /\ \A j \in DOMAIN applies' : RequestOK(applies[j])'
         /\ \A j, k \in DOMAIN applies' :
              j < k /\ applies'[j].review = applies'[k].review => Settled(applies'[j])
<1>1. /\ applies' \in Seq(Request) /\ Len(applies') = Len(applies)
      /\ DOMAIN applies' = DOMAIN applies /\ applies'[i] = r
      /\ \A j \in DOMAIN applies \ {i} : applies'[j] = applies[j]
  BY RequestStays DEF DialogTypeOK
<1>2. \A j \in DOMAIN applies : RequestOK(applies'[j])
  BY <1>1 DEF DialogInvariant
<1>3. \A j \in DOMAIN applies' : RequestOK(applies[j])'
  BY <1>1, <1>2 DEF RequestOK
<1>4. \A j \in DOMAIN applies : /\ applies'[j].review = applies[j].review
                                /\ Settled(applies[j]) => Settled(applies'[j])
  BY <1>1
<1> QED BY <1>1, <1>3, <1>4 DEF DialogTypeOK, DialogInvariant

-----------------------------------------------------------------------------
(* The type invariant. *)

LEMMA DialogTypeInit == Init => DialogTypeOK
BY DialogAssumption, EmptySeq DEF Init, DialogTypeOK, Closed

\* The user's and the server's steps that send and answer no batch.
LEMMA ReviewTyped ==
  DialogTypeOK /\ (Open \/ Close \/ Retry \/ Toggle \/ AskArrives \/ AskAnswered \/ AskFails)
  => DialogTypeOK'
<1> SUFFICES ASSUME DialogTypeOK,
                    Open \/ Close \/ Retry \/ Toggle \/ AskArrives \/ AskAnswered \/ AskFails
             PROVE  DialogTypeOK'
  OBVIOUS
<1>1. applies' = applies
  BY DEF Open, Close, Retry, Toggle, AskArrives, AskAnswered, AskFails
<1>2. CASE Open
  BY <1>1, <1>2, DialogAssumption DEF Open, DialogTypeOK, Closed, Asking
<1>3. CASE Close \/ Retry \/ AskFails
  BY <1>1, <1>3 DEF Close, Retry, AskFails, DialogTypeOK, Closed, Asking, Failed
<1>4. CASE Toggle
  <2>1. PICK i \in DOMAIN modal.subs :
          modal' = [modal EXCEPT !.selected = IF i \in @ THEN @ \ {i} ELSE @ \cup {i}]
    BY <1>4 DEF Toggle
  <2>2. modal.subs \in Reviews /\ opened' = opened
    BY <1>4 DEF Toggle, DialogTypeOK
  <2>3. DOMAIN modal.subs \subseteq 1..MaxSubtasks
    <3>1. PICK answer \in Answers : modal.subs = Reviewed(Truncated(answer))
      BY <2>2 DEF Reviews
    <3>2. /\ DOMAIN modal.subs = 1..Len(Truncated(answer))
          /\ Len(Truncated(answer)) \in 0..MaxSubtasks
      BY <3>1, ReviewShape
    <3> QED BY <3>2, DialogAssumption
  <2> QED BY <1>1, <2>1, <2>2, <2>3 DEF DialogTypeOK
<1>5. CASE AskArrives
  BY <1>1, <1>5 DEF AskArrives, DialogTypeOK, Closed, Failed
<1>6. CASE AskAnswered
  <2>1. PICK answer \in Answers :
          modal' = IF Valid(Truncated(answer))
                   THEN [at |-> "reviewing", subs |-> Reviewed(Truncated(answer)),
                         selected |-> DOMAIN Truncated(answer)]
                   ELSE Failed
    BY <1>6 DEF AskAnswered
  <2>2. CASE Valid(Truncated(answer))
    <3> DEFINE batch == Truncated(answer)
    <3>1. batch \in Seq(Seq(Int)) /\ batch # << >> /\ Reviewed(batch) \in Reviews
      BY <2>2, ReviewShape DEF Reviews, Valid
    <3>2. /\ DOMAIN batch = 1..Len(batch) /\ DOMAIN Reviewed(batch) = 1..Len(batch)
          /\ Len(batch) \in 1..MaxSubtasks
      BY <3>1, ReviewShape, LenProperties, EmptySeq, DialogAssumption
    <3>3. Reviewed(batch) # << >>
      BY <3>2
    <3>4. 1..Len(batch) \subseteq 1..MaxSubtasks
      BY <3>2, DialogAssumption
    <3> QED BY <1>1, <1>6, <2>1, <2>2, <3>1, <3>2, <3>3, <3>4
            DEF AskAnswered, DialogTypeOK
  <2>3. CASE ~ Valid(Truncated(answer))
    BY <1>1, <1>6, <2>1, <2>3 DEF AskAnswered, DialogTypeOK, Failed, Closed
  <2> QED BY <2>2, <2>3
<1> QED BY <1>2, <1>3, <1>4, <1>5, <1>6

\* What is sent is a renumbering of what was shown.
LEMMA SubmitTyped ==
  ASSUME DialogTypeOK, DialogInvariant, Submit
  PROVE  /\ DialogTypeOK'
         /\ \E r \in Request :
              /\ applies' = Append(applies, r)
              /\ r.by = opened /\ r.review = opened /\ r.at = "sent"
              /\ RequestOK(r)
<1> DEFINE r == [by |-> opened, review |-> opened,
                 body |-> Remap(modal.subs, modal.selected),
                 at |-> "sent", made |-> FALSE, told |-> TRUE]
<1>1. modal.subs \in Reviews /\ opened \in 1..MaxOpens
  BY DialogAssumption DEF Submit, DialogTypeOK, DialogInvariant
<1>2. Remap(modal.subs, modal.selected) \in Bodies
  BY <1>1 DEF Bodies, DialogTypeOK
<1>3. r \in Request
  BY <1>1, <1>2, DialogAssumption DEF Request
<1>4. RequestOK(r)
  BY <1>1, DialogAssumption DEF RequestOK
<1>5. applies' = Append(applies, r)
  BY DEF Submit
<1>6. r.by = opened /\ r.review = opened /\ r.at = "sent"
  OBVIOUS
<1> HIDE DEF r
<1>7. applies' \in Seq(Request) /\ Len(applies') <= MaxApplies
  BY <1>3, <1>5, AppendStays, LenProperties, DialogAssumption DEF DialogTypeOK, Submit
<1>8. DialogTypeOK'
  BY <1>7 DEF DialogTypeOK, Submit
<1> QED BY <1>3, <1>4, <1>5, <1>6, <1>8

\* An answer shows the dialog again, closes it or leaves it as it is.
LEMMA AnswerTyped ==
  ASSUME DialogTypeOK, NEW i \in DOMAIN applies,
         applies' \in Seq(Request) /\ Len(applies') <= MaxApplies,
         opened' = opened, UNCHANGED modal \/ modal' = Closed \/ Error(i)
  PROVE  DialogTypeOK'
BY DEF DialogTypeOK, Error, Closed

-----------------------------------------------------------------------------
(* The dialog's invariant. *)

LEMMA DialogInvariantInit == Init => DialogInvariant
BY DEF Init, DialogInvariant, NeverLeftWaiting, Closed

\* The states between asking and sending.
Idling == modal.at \notin {"closed", "submitting"}

\* A dialog that is closed, stays where it is or moves among those states.
LEMMA ReviewKeeps ==
  ASSUME DialogTypeOK, DialogInvariant, applies' = applies, opened' = opened,
         \/ modal'.at = "closed" \/ modal'.at = modal.at
         \/ Idling /\ Idling'
  PROVE  DialogInvariant'
BY DEF DialogInvariant, NeverLeftWaiting, RequestOK, Idling

\* The next review is not one that anything has been made from.
LEMMA OpenKeeps == DialogTypeOK /\ DialogInvariant /\ Open => DialogInvariant'
<1> SUFFICES ASSUME DialogTypeOK, DialogInvariant, Open PROVE DialogInvariant'
  OBVIOUS
<1>1. applies' = applies /\ opened' = opened + 1 /\ modal'.at = "asking"
  BY DEF Open, Asking, Closed
<1>2. ASSUME NEW i \in DOMAIN applies
      PROVE  RequestOK(applies[i])' /\ applies[i].review # opened'
  <2>1. applies[i] \in Request
    BY ElementOfSeq, LenProperties DEF DialogTypeOK
  <2>2. applies[i].review \in Nat /\ opened \in Nat
    BY <2>1, DialogAssumption DEF DialogTypeOK, Request
  <2>3. RequestOK(applies[i])
    BY DEF DialogInvariant
  <2>4. applies[i].review < opened'
    BY <1>1, <2>2, <2>3 DEF RequestOK
  <2>5. RequestOK(applies[i])'
    BY <1>1, <2>2, <2>3, <2>4 DEF RequestOK
  <2> QED BY <1>1, <2>2, <2>4, <2>5
<1>3. opened' > 0
  BY <1>1, DialogAssumption DEF DialogTypeOK
<1> QED BY <1>1, <1>2, <1>3 DEF DialogInvariant, NeverLeftWaiting

\* What is sent is the first from its review, or those before it are settled.
LEMMA SubmitKeeps == DialogTypeOK /\ DialogInvariant /\ Submit => DialogInvariant'
<1> SUFFICES ASSUME DialogTypeOK, DialogInvariant, Submit PROVE DialogInvariant'
  OBVIOUS
<1> DEFINE n == Len(applies')
<1>1. PICK r \in Request :
        /\ applies' = Append(applies, r)
        /\ r.by = opened /\ r.review = opened /\ r.at = "sent" /\ RequestOK(r)
  BY SubmitTyped
<1>2. opened' = opened /\ modal.at = "reviewing" /\ modal'.at = "submitting"
  BY DEF Submit, DialogTypeOK
<1>3. /\ DOMAIN applies' = DOMAIN applies \cup {n} /\ applies'[n] = r
      /\ \A i \in DOMAIN applies : i < n /\ applies'[i] = applies[i]
  BY <1>1, AppendStays DEF DialogTypeOK
<1>4. n \notin DOMAIN applies /\ n \in Nat /\ DOMAIN applies \subseteq Nat
  BY <1>1, AppendStays, LenProperties DEF DialogTypeOK
<1> HIDE DEF n
<1>5. \A i \in DOMAIN applies' : RequestOK(applies[i])'
  BY <1>1, <1>2, <1>3 DEF DialogInvariant, RequestOK
<1>6. ASSUME NEW i \in DOMAIN applies', NEW j \in DOMAIN applies', i < j,
             applies'[i].review = applies'[j].review
      PROVE  Settled(applies'[i])
  <2>1. i \in DOMAIN applies
    BY <1>3, <1>4, <1>6
  <2>2. CASE j \in DOMAIN applies
    BY <1>3, <1>6, <2>1, <2>2 DEF DialogInvariant
  <2>3. CASE j = n
    BY <1>1, <1>2, <1>3, <1>6, <2>1, <2>3 DEF DialogInvariant
  <2> QED BY <1>3, <2>2, <2>3
<1>7. NeverLeftWaiting'
  BY <1>1, <1>2, <1>3 DEF NeverLeftWaiting
<1>8. opened' > 0
  BY <1>2 DEF DialogInvariant
<1> QED BY <1>2, <1>5, <1>6, <1>7, <1>8 DEF DialogInvariant

\* A request arrives: nothing at the dialog changes.
LEMMA ArrivesKeeps ==
  ASSUME DialogTypeOK, DialogInvariant, NEW i \in DOMAIN applies, ApplyArrives(i)
  PROVE  DialogTypeOK' /\ DialogInvariant'
<1>1. RequestOK(applies[i]) /\ modal' = modal /\ opened' = opened
  BY DEF DialogInvariant, ApplyArrives
<1>2. PICK r \in Request :
           /\ applies' = [applies EXCEPT ![i] = r]
           /\ r.review = applies[i].review /\ r.by = applies[i].by
           /\ r.at # "over" /\ applies[i].at # "over"
           /\ RequestOK(r) /\ (Settled(applies[i]) => Settled(r))
  BY <1>1, ArrivesMakes
<1>3. /\ applies' \in Seq(Request) /\ Len(applies') <= MaxApplies
      /\ \A j \in DOMAIN applies' : RequestOK(applies[j])'
      /\ \A j, k \in DOMAIN applies' :
           j < k /\ applies'[j].review = applies'[k].review => Settled(applies'[j])
  BY <1>1, <1>2, PairsStay
<1>4. /\ DOMAIN applies' = DOMAIN applies /\ applies'[i] = r
      /\ \A j \in DOMAIN applies \ {i} : applies'[j] = applies[j]
  BY <1>2, RequestStays DEF DialogTypeOK
<1>5. NeverLeftWaiting'
  BY <1>1, <1>2, <1>4 DEF NeverLeftWaiting, DialogInvariant
<1>6. Idling' => \A j \in DOMAIN applies' :
                   applies'[j].review = opened' => Settled(applies'[j])
  BY <1>1, <1>2, <1>4 DEF Idling, DialogInvariant
<1>7. modal'.at # "closed" => opened' > 0
  BY <1>1 DEF DialogInvariant
<1>8. DialogTypeOK'
  BY <1>1, <1>3, AnswerTyped
<1> QED BY <1>3, <1>5, <1>6, <1>7, <1>8 DEF DialogInvariant, Idling

\* A request that its dialog still waits for is the last from its review.
LEMMA AwaitedIsLast ==
  ASSUME DialogTypeOK, DialogInvariant, NEW i \in DOMAIN applies,
         applies[i].by # 0, applies[i].at # "over",
         NEW j \in DOMAIN applies, j # i, applies[j].review = applies[i].review
  PROVE  Settled(applies[j])
<1>1. ~ Settled(applies[i]) /\ i \in Nat /\ j \in Nat
  BY LenProperties DEF Settled, DialogTypeOK
<1>2. i < j \/ j < i
  BY <1>1
<1> QED BY <1>1, <1>2 DEF DialogInvariant

\* What the dialog makes of an answer or an error, once the request it is
\* about is settled.
LEMMA ErrorKeeps ==
  ASSUME DialogTypeOK, DialogInvariant, NEW i \in DOMAIN applies,
         NEW r \in Request, applies' = [applies EXCEPT ![i] = r],
         opened' = opened, r.review = applies[i].review, RequestOK(r),
         Settled(r), applies[i].by # 0, applies[i].at # "over", Error(i)
  PROVE  DialogTypeOK' /\ DialogInvariant'
<1>1. applies[i].by = applies[i].review
  BY DEF DialogInvariant, RequestOK
<1>2. /\ applies' \in Seq(Request) /\ Len(applies') <= MaxApplies
      /\ \A j \in DOMAIN applies' : RequestOK(applies[j])'
      /\ \A j, k \in DOMAIN applies' :
           j < k /\ applies'[j].review = applies'[k].review => Settled(applies'[j])
  BY PairsStay
<1>3. /\ DOMAIN applies' = DOMAIN applies /\ applies'[i] = r
      /\ \A j \in DOMAIN applies \ {i} : applies'[j] = applies[j]
  BY RequestStays DEF DialogTypeOK
<1>4. DialogTypeOK'
  BY <1>2, AnswerTyped
<1>5. CASE modal.at = "submitting" /\ applies[i].by = opened
  <2>1. modal'.at = "reviewing"
    BY <1>5 DEF Error, DialogTypeOK
  <2>2. ASSUME NEW j \in DOMAIN applies', applies'[j].review = opened'
        PROVE  Settled(applies'[j])
    <3>1. CASE j = i
      BY <1>3, <3>1
    <3>2. CASE j # i
      <4>1. j \in DOMAIN applies /\ applies'[j] = applies[j]
        BY <1>3, <3>2
      <4>2. applies[j].review = applies[i].review
        BY <1>1, <1>5, <2>2, <4>1
      <4> QED BY <3>2, <4>1, <4>2, AwaitedIsLast
    <3> QED BY <3>1, <3>2
  <2>3. opened' > 0
    BY <1>5 DEF DialogInvariant
  <2> QED BY <1>2, <1>4, <2>1, <2>2, <2>3 DEF DialogInvariant, NeverLeftWaiting
<1>6. CASE ~ (modal.at = "submitting" /\ applies[i].by = opened)
  <2>1. modal' = modal
    BY <1>6 DEF Error
  <2>2. NeverLeftWaiting'
    BY <1>3, <1>6, <2>1 DEF NeverLeftWaiting, DialogInvariant
  <2>3. Idling' => \A j \in DOMAIN applies' :
                     applies'[j].review = opened' => Settled(applies'[j])
    BY <1>3, <2>1 DEF Idling, DialogInvariant
  <2>4. modal'.at # "closed" => opened' > 0
    BY <2>1 DEF DialogInvariant
  <2> QED BY <1>2, <1>4, <2>2, <2>3, <2>4 DEF DialogInvariant, Idling
<1> QED BY <1>5, <1>6

LEMMA AnsweredKeeps ==
  ASSUME DialogTypeOK, DialogInvariant, NEW i \in DOMAIN applies, ApplyAnswered(i)
  PROVE  DialogTypeOK' /\ DialogInvariant'
<1>1. /\ RequestOK(applies[i]) /\ opened' = opened
      /\ applies[i].at \in {"created", "refused"}
  BY DEF DialogInvariant, ApplyAnswered
<1>2. PICK r \in Request :
           /\ applies' = [applies EXCEPT ![i] = r]
           /\ r.review = applies[i].review
           /\ applies[i].at # "over" /\ RequestOK(r)
           /\ Settled(applies[i]) => Settled(r)
           /\ applies[i].at = "refused" => Settled(r)
  BY <1>1, AnswerMakes
<1>3. /\ applies' \in Seq(Request) /\ Len(applies') <= MaxApplies
      /\ \A j \in DOMAIN applies' : RequestOK(applies[j])'
      /\ \A j, k \in DOMAIN applies' :
           j < k /\ applies'[j].review = applies'[k].review => Settled(applies'[j])
  BY <1>1, <1>2, PairsStay
<1>4. /\ DOMAIN applies' = DOMAIN applies /\ applies'[i] = r
      /\ \A j \in DOMAIN applies \ {i} : applies'[j] = applies[j]
  BY <1>2, RequestStays DEF DialogTypeOK
<1>5. CASE applies[i].by = 0
  <2>1. modal' = modal
    BY <1>5 DEF ApplyAnswered
  <2>2. DialogTypeOK'
    BY <1>1, <1>3, <2>1, AnswerTyped
  <2>3. modal'.at # "closed" => opened' > 0
    BY <1>1, <2>1 DEF DialogInvariant
  <2>4. NeverLeftWaiting'
    <3>1. modal.at = "submitting" => opened # 0
      BY DialogAssumption DEF DialogInvariant, DialogTypeOK
    <3> QED BY <1>1, <1>4, <1>5, <2>1, <3>1 DEF NeverLeftWaiting, DialogInvariant
  <2>5. Idling' => \A j \in DOMAIN applies' :
                     applies'[j].review = opened' => Settled(applies'[j])
    BY <1>1, <1>2, <1>4, <2>1 DEF Idling, DialogInvariant
  <2> QED BY <1>3, <2>2, <2>3, <2>4, <2>5 DEF DialogInvariant, Idling
<1>6. CASE applies[i].by # 0 /\ applies[i].at = "created"
  <2>1. modal' = Closed
    BY <1>6 DEF ApplyAnswered
  <2>2. DialogTypeOK'
    BY <1>1, <1>3, <2>1, AnswerTyped
  <2> QED BY <1>3, <2>1, <2>2 DEF DialogInvariant, NeverLeftWaiting, Closed
<1>7. CASE applies[i].by # 0 /\ applies[i].at = "refused"
  <2>1. Error(i)
    BY <1>7 DEF ApplyAnswered
  <2> QED BY <1>1, <1>2, <1>7, <2>1, ErrorKeeps
<1> QED BY <1>1, <1>5, <1>6, <1>7

LEMMA LostKeeps ==
  ASSUME DialogTypeOK, DialogInvariant, NEW i \in DOMAIN applies, ApplyLost(i)
  PROVE  DialogTypeOK' /\ DialogInvariant'
<1>1. /\ RequestOK(applies[i]) /\ opened' = opened
      /\ applies[i].by # 0 /\ applies[i].at # "over" /\ Error(i)
  BY DEF DialogInvariant, ApplyLost
<1>2. PICK r \in Request :
           /\ applies' = [applies EXCEPT ![i] = r]
           /\ r.review = applies[i].review
           /\ RequestOK(r) /\ Settled(r)
  BY <1>1, LostMakes
<1> QED BY <1>1, <1>2, ErrorKeeps

LEMMA DialogNext ==
  DialogTypeOK /\ DialogInvariant /\ [Next]_vars => DialogTypeOK' /\ DialogInvariant'
<1> SUFFICES ASSUME DialogTypeOK, DialogInvariant, [Next]_vars
             PROVE  DialogTypeOK' /\ DialogInvariant'
  OBVIOUS
<1>1. CASE Open
  BY <1>1, OpenKeeps, ReviewTyped
<1>2. CASE Close \/ Retry \/ Toggle \/ AskArrives \/ AskAnswered \/ AskFails
  <2>1. /\ applies' = applies /\ opened' = opened
        /\ \/ modal'.at = "closed" \/ modal'.at = modal.at
           \/ Idling /\ Idling'
    BY <1>2 DEF Close, Retry, Toggle, AskArrives, AskAnswered, AskFails,
                Closed, Asking, Failed, Idling, DialogTypeOK
  <2> QED BY <1>2, <2>1, ReviewKeeps, ReviewTyped
<1>3. CASE Submit
  BY <1>3, SubmitKeeps, SubmitTyped
<1>4. CASE \E i \in DOMAIN applies : ApplyArrives(i) \/ ApplyAnswered(i) \/ ApplyLost(i)
  BY <1>4, ArrivesKeeps, AnsweredKeeps, LostKeeps
<1>5. CASE Elsewhere \/ UNCHANGED vars
  <2>1. UNCHANGED dialog
    BY <1>5 DEF Elsewhere, vars
  <2> QED BY <2>1 DEF dialog, DialogTypeOK, DialogInvariant, NeverLeftWaiting, RequestOK
<1> QED BY <1>1, <1>2, <1>3, <1>4, <1>5 DEF Next

-----------------------------------------------------------------------------
(* The theorems. *)

\* What is shown for review is what the server made of an answer, and what is
\* sent is a renumbering of what was shown (remapSelectedSuggestions).
THEOREM BreakdownTyped == Spec => []TypeOK
<1>1. LimiterInvariant /\ DialogTypeOK => TypeOK
  BY DEF LimiterInvariant, TypeOK
<1> QED BY <1>1, LimiterUnderDialog, DialogTypeInit, DialogInvariantInit, DialogNext,
           PTL DEF Spec

\* A request whose answer its dialog still awaits, or of whose batch it was
\* told, is the last one made from its review (handleSubmit, applyBreakdown).
THEOREM DialogKeepsItsRequests == Spec => []DialogInvariant
BY DialogTypeInit, DialogInvariantInit, DialogNext, PTL DEF Spec

\* A review becomes two batches only if the dialog was not told of the first.
THEOREM ReviewCreatedOnce == Spec => []CreatedOnce
<1>1. DialogInvariant => CreatedOnce
  BY DEF DialogInvariant, CreatedOnce, Settled
<1> QED BY <1>1, DialogKeepsItsRequests, PTL

\* A dialog that shows `Creating' has a request on the way.
THEOREM DialogAwaitsAnAnswer == Spec => []NeverLeftWaiting
<1>1. DialogInvariant => NeverLeftWaiting
  BY DEF DialogInvariant
<1> QED BY <1>1, DialogKeepsItsRequests, PTL
=============================================================================
