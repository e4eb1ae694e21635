------------------------------ MODULE Breakdown ------------------------------
(***************************************************************************)
(* A task is broken down: the review dialog (BreakdownModal.tsx) asks the  *)
(* server for subtasks, which asks the model (ai.go) and checks what comes *)
(* back (validation.go); the user unchecks some and sends the rest         *)
(* (taskUtils.ts), which the server checks again and creates (handlers.go; *)
(* CreateTaskBatch itself is in TaskStore).  Both requests pass the write  *)
(* limiter, as do the other writes of the same caller.                     *)
(*                                                                         *)
(* A batch is the sequence of its subtasks' dependsOn lists, which are     *)
(* sequences of indices (from 1); a review's subtasks are told apart by    *)
(* their place in it.                                                      *)
(***************************************************************************)
EXTENDS RateLimit, Integers, Sequences, FiniteSets, SequencesExt, TLC

CONSTANTS
  Me,           \* the caller at whose screen the dialog is
  MaxSubtasks,  \* the longest batch the server takes, 10 in the code
  Answers,      \* batches the model may answer with
  Graphs,       \* batches on which the pure functions are compared
  MaxOpens,     \* bound: how often the dialog is opened
  MaxApplies    \* bound: how many batches are sent

ASSUME DialogAssumption ==
  /\ Me \in Caller /\ {MaxSubtasks, MaxOpens, MaxApplies} \subseteq Nat
  /\ Answers \subseteq Seq(Seq(Int))

VARIABLES
  modal,    \* BreakdownModal
  opened,   \* how often it has been opened: the number of the last one
  applies   \* the apply requests sent, in order

dialog == <<modal, opened, applies>>
vars == <<limiter, dialog>>

-----------------------------------------------------------------------------
(* validateSuggestions *)

\* The loop over dependsOn: no index out of range, not its own, each once.
InRange(batch) ==
  \A i \in DOMAIN batch :
    \A j \in DOMAIN batch[i] : batch[i][j] \in DOMAIN batch \ {i}

Deduped(list) ==
  FoldLeft(LAMBDA seen, d : IF d \in ToSet(seen) THEN seen ELSE Append(seen, d),
           << >>, list)

\* What the server answers the dialog with.
Reviewed(batch) == [i \in DOMAIN batch |-> Deduped(batch[i])]

\* The depth-first walk from i: whether it has met a node on its own stack,
\* and the mark of every node.
Marking(batch) ==
  [cycle : BOOLEAN, mark : [DOMAIN batch -> {"unvisited", "inStack", "done"}]]
WalkVisited(batch) == \* mutant: one mark for "inStack" and "done"
  LET walk[i \in DOMAIN batch, w \in Marking(batch)] ==
        IF w.mark[i] = "unvisited"
        THEN FoldLeft(LAMBDA v, d : walk[d, v],
                      [w EXCEPT !.mark[i] = "done"], batch[i])
        ELSE [w EXCEPT !.cycle = TRUE]
  IN walk
Walk(batch) ==
  LET walk[i \in DOMAIN batch, w \in Marking(batch)] ==
        CASE w.cycle \/ w.mark[i] = "done" -> w
          [] ~ w.cycle /\ w.mark[i] = "inStack" -> [w EXCEPT !.cycle = TRUE]
          [] OTHER ->
               LET below == FoldLeft(LAMBDA v, d : walk[d, v],
                                     [w EXCEPT !.mark[i] = "inStack"], batch[i]) IN
               IF below.cycle THEN below ELSE [below EXCEPT !.mark[i] = "done"]
  IN walk

HasCycle(batch) ==
  FoldLeft(LAMBDA w, i : Walk(batch)[i, w],
           [cycle |-> FALSE, mark |-> [i \in DOMAIN batch |-> "unvisited"]],
           [i \in DOMAIN batch |-> i]).cycle

ValidEmpty(batch) == \* mutant: an empty batch passes
  /\ Len(batch) <= MaxSubtasks
  /\ InRange(batch)
  /\ ~ HasCycle(Reviewed(batch))
Valid(batch) ==
  /\ batch # << >> /\ Len(batch) <= MaxSubtasks
  /\ InRange(batch)
  /\ ~ HasCycle(Reviewed(batch))

\* What the server makes of the model's answer: at most MaxSubtasks of it.
Truncated(batch) ==
  SubSeq(batch, 1, IF Len(batch) > MaxSubtasks THEN MaxSubtasks ELSE Len(batch))

-----------------------------------------------------------------------------
(* remapSelectedSuggestions *)

\* The place the kept suggestion d gets.
NewIndexOld(selected, d) == d \* mutant: the old place
NewIndex(selected, d) == Cardinality({i \in selected : i <= d})

Remap(batch, selected) ==
  LET kept == SetToSortSeq(selected, <) IN
  [n \in DOMAIN kept |->
    LET list == SelectSeq(batch[kept[n]], LAMBDA d : d \in selected) IN
    [j \in DOMAIN list |-> NewIndex(selected, list[j])]]

-----------------------------------------------------------------------------
(* The dialog. *)

Closed == [at |-> "closed", subs |-> << >>, selected |-> {}]

Asking == [Closed EXCEPT !.at = "asking"]

\* What can be shown for review, and what can be sent of it.
Reviews == {Reviewed(batch) : batch \in {b \in {Truncated(a) : a \in Answers} : Valid(b)}}

Bodies == UNION {{Remap(subs, selected) : selected \in SUBSET DOMAIN subs} : subs \in Reviews}

\* An apply request: the dialog that waits for its answer (0: none any
\* more), the review it was made from, what was sent (forgotten once the
\* server has read it), how far it is, whether its batch has been created,
\* and whether the dialog was told what became of it.
Request == [by : 0..MaxOpens, review : 1..MaxOpens, body : Bodies \cup {<< >>},
            at : {"sent", "created", "refused", "over"},
            made : BOOLEAN, told : BOOLEAN]

DialogTypeOK ==
  /\ opened \in 0..MaxOpens
  /\ modal \in [at : {"closed", "asking", "thinking", "failed", "reviewing", "submitting"},
                subs : Reviews \cup {<< >>}, selected : SUBSET (1..MaxSubtasks)]
  /\ modal.selected \subseteq DOMAIN modal.subs
  /\ modal.subs # << >> <=> modal.at \in {"reviewing", "submitting"}
  /\ applies \in Seq(Request) /\ Len(applies) <= MaxApplies

TypeOK == LimiterTypeOK /\ DialogTypeOK

Init == LimiterInit /\ modal = Closed /\ opened = 0 /\ applies = << >>

\* The panel's button; the dialog asks as soon as it is there.
Open ==
  /\ modal.at = "closed" /\ opened < MaxOpens
  /\ modal' = Asking /\ opened' = opened + 1
  /\ UNCHANGED <<limiter, applies>>

\* Cancel, the cross or a click beside it, also while an answer is awaited:
\* what the model says is ignored then, what has been sent is not called back.
Close ==
  /\ modal.at # "closed"
  /\ modal' = Closed
  /\ UNCHANGED <<limiter, opened, applies>>

Retry ==
  /\ modal.at = "failed"
  /\ modal' = Asking
  /\ UNCHANGED <<limiter, opened, applies>>

Toggle ==
  /\ modal.at \in {"reviewing", "submitting"}
  /\ \E i \in DOMAIN modal.subs :
       modal' = [modal EXCEPT !.selected = IF i \in @ THEN @ \ {i} ELSE @ \cup {i}]
  /\ UNCHANGED <<limiter, opened, applies>>

-----------------------------------------------------------------------------
(* POST /breakdown *)

Failed == [Closed EXCEPT !.at = "failed"]

AskArrives ==
  /\ modal.at = "asking"
  /\ \/ Allowed(Me) /\ modal' = [modal EXCEPT !.at = "thinking"]
     \/ Refused(Me) /\ modal' = Failed
  /\ UNCHANGED <<opened, applies>>

\* BreakdownTask has an answer that is used, or the handler answers 502.
AskAnswered ==
  /\ modal.at = "thinking"
  /\ \E answer \in Answers :
       LET batch == Truncated(answer) IN
       modal' = IF Valid(batch)
                THEN [at |-> "reviewing", subs |-> Reviewed(batch),
                      selected |-> DOMAIN batch]
                ELSE Failed
  /\ UNCHANGED <<limiter, opened, applies>>

\* No key, no model, a refusal, no task any more, or no connection.
AskFails ==
  /\ modal.at \in {"asking", "thinking"}
  /\ modal' = Failed
  /\ UNCHANGED <<limiter, opened, applies>>

-----------------------------------------------------------------------------
(* POST /breakdown/apply *)

\* handleSubmit; the button is disabled while it waits for an answer.
SubmitTwice == \* mutant: the button is not disabled
  /\ modal.at \in {"reviewing", "submitting"}
  /\ modal.selected # {} /\ Len(applies) < MaxApplies
  /\ modal' = [modal EXCEPT !.at = "submitting"]
  /\ applies' = Append(applies,
       [by |-> opened, review |-> opened,
        body |-> Remap(modal.subs, modal.selected),
        at |-> "sent", made |-> FALSE, told |-> TRUE])
  /\ UNCHANGED <<limiter, opened>>
Submit ==
  /\ modal.at = "reviewing"
  /\ modal.selected # {} /\ Len(applies) < MaxApplies
  /\ modal' = [modal EXCEPT !.at = "submitting"]
  /\ applies' = Append(applies,
       [by |-> opened, review |-> opened,
        body |-> Remap(modal.subs, modal.selected),
        at |-> "sent", made |-> FALSE, told |-> TRUE])
  /\ UNCHANGED <<limiter, opened>>

\* CreateTaskBatch commits, and may still report an error; or it is refused:
\* by the limiter, for its body, because the parent is gone.
ApplyArrives(i) ==
  /\ applies[i].at = "sent"
  /\ \/ /\ Allowed(Me) /\ Valid(applies[i].body)
        /\ \E at \in {"created", "refused"} :
             applies' = [applies EXCEPT ![i] =
               [@ EXCEPT !.at = at, !.body = << >>, !.made = TRUE,
                         !.told = applies[i].told /\ at = "created"]]
     \/ /\ Allowed(Me) \/ Refused(Me)
        /\ applies' = [applies EXCEPT ![i] = [@ EXCEPT !.at = "refused", !.body = << >>]]
  /\ UNCHANGED <<modal, opened>>

\* The dialog shows an error again if it is the one that sent the request.
ErrorKeepsWaiting(i) == UNCHANGED modal \* mutant: setSubmitting(false) is missing
Error(i) ==
  modal' = IF modal.at = "submitting" /\ applies[i].by = opened
           THEN [modal EXCEPT !.at = "reviewing"] ELSE modal

\* The answer.  onClose is the panel's, so the answer to a dialog that has
\* been closed meanwhile closes the one that is open now.
ApplyAnswered(i) ==
  /\ applies[i].at \in {"created", "refused"}
  /\ applies' = [applies EXCEPT ![i].at = "over"]
  /\ CASE applies[i].by = 0 -> UNCHANGED modal
       [] applies[i].by # 0 /\ applies[i].at = "created" -> modal' = Closed
       [] OTHER -> Error(i)
  /\ UNCHANGED <<limiter, opened>>

\* The connection fails: the dialog gives up, the request may still arrive.
ApplyLost(i) ==
  /\ applies[i].by # 0 /\ applies[i].at # "over"
  /\ applies' = [applies EXCEPT ![i] = [@ EXCEPT !.by = 0, !.told = FALSE]]
  /\ Error(i)
  /\ UNCHANGED <<limiter, opened>>

-----------------------------------------------------------------------------

\* The other requests the limiter sees, and what it does by itself.
Elsewhere == LimiterNext /\ UNCHANGED dialog

Next ==
  \/ Open \/ Close \/ Retry \/ Toggle \/ Submit
  \/ AskArrives \/ AskAnswered \/ AskFails
  \/ \E i \in DOMAIN applies : ApplyArrives(i) \/ ApplyAnswered(i) \/ ApplyLost(i)
  \/ Elsewhere

Spec == Init /\ [][Next]_vars

-----------------------------------------------------------------------------
(* Properties. *)

\* The pure functions depend on no state: they are compared with what they
\* are for where every behaviour starts.

Follows(batch) == {e \in (DOMAIN batch) \X (DOMAIN batch) : e[2] \in ToSet(batch[e[1]])}

\* A batch is accepted exactly when it can be created: its indices are those
\* of other subtasks, and the subtasks can be put in an order in which every
\* one comes after those it depends on.  (validateSuggestions' walk.)
ValidIsExact ==
  Init => \A batch \in Graphs :
    Valid(batch) <=>
      /\ Len(batch) \in 1..MaxSubtasks
      /\ \A i \in DOMAIN batch : ToSet(batch[i]) \subseteq DOMAIN batch
      /\ \E order \in Permutations(DOMAIN batch) :
           \A e \in Follows(batch) : order[e[2]] < order[e[1]]

\* Whatever is unchecked in a valid review, the server accepts the rest and
\* the rest depends on each other as shown, in the order shown.
\* (remapSelectedSuggestions: "the server only ever sees a self-consistent
\* batch".)
RemapKeepsReview ==
  Init => \A batch \in Graphs : Valid(batch) =>
    \A selected \in SUBSET DOMAIN batch \ {{}} :
      LET body == Remap(batch, selected) IN
      /\ Valid(body)
      /\ \E kept \in [DOMAIN body -> selected] :
           /\ \A m, n \in DOMAIN body : m < n => kept[m] < kept[n]
           /\ {<<kept[e[1]], kept[e[2]]>> : e \in Follows(body)}
                = Follows(batch) \cap (selected \X selected)

\* A review is created twice only if the dialog was not told of the first
\* time: the connection failed under it, or Commit reported an error.
CreatedOnce ==
  \A i, j \in DOMAIN applies :
    i < j /\ applies[i].review = applies[j].review /\ applies[j].made
    => ~ applies[i].made \/ ~ applies[i].told

\* A dialog that shows `Creating' waits for an answer that is still to come:
\* no refusal, failure or late answer to another dialog leaves it there.
NeverLeftWaiting ==
  modal.at = "submitting" =>
    \E i \in DOMAIN applies : applies[i].by = opened /\ applies[i].at # "over"

\* What makes both inductive: a request whose answer is awaited or whose
\* batch the dialog was told of is the last one made from its review.
Settled(request) ==
  /\ request.by = 0 \/ request.at = "over"
  /\ request.told => ~ request.made

RequestOK(request) ==
  /\ request.review <= opened /\ request.by \in {0, request.review}
  /\ request.by = 0 => ~ request.told
  /\ request.at = "sent" => ~ request.made
  /\ request.at = "refused" => ~ (request.made /\ request.told)

DialogInvariant ==
  /\ modal.at # "closed" => opened > 0
  /\ \A i \in DOMAIN applies : RequestOK(applies[i])
  /\ \A i, j \in DOMAIN applies :
       i < j /\ applies[i].review = applies[j].review => Settled(applies[i])
  /\ modal.at \notin {"closed", "submitting"} =>
       \A i \in DOMAIN applies : applies[i].review = opened => Settled(applies[i])
  /\ NeverLeftWaiting
=============================================================================
