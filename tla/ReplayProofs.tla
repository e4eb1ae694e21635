---------------------------- MODULE ReplayProofs ----------------------------
(***************************************************************************)
(* Proof that the log of a project of TaskStore shows its tables: whatever *)
(* transactions run at the same time, a client that applies the events in  *)
(* their order shows the rows, the edges and the comments there are.       *)
(*                                                                         *)
(* First what one event does to what a client shows, then what the events  *)
(* of one operation do to it, one lemma per operation: together they are   *)
(* the step that matters, the commit.  The other statements commit nothing *)
(* and keep ReplayInvariant because what a transaction has written, has    *)
(* recorded and is going to record go on agreeing.                         *)
(***************************************************************************)
EXTENDS RowsProofs, SequenceTheorems

-----------------------------------------------------------------------------
(* Replaying a log, event by event. *)

\* A set of naturals with 0 and every successor has them all: else i |-> i + 1
\* would map its part up to a missing n into that part without 0, one to one.
LEMMA Induction ==
  ASSUME NEW S \in SUBSET Nat, 0 \in S, \A n \in S : n + 1 \in S
  PROVE  S = Nat
<1> SUFFICES ASSUME NEW n \in Nat, n \notin S PROVE FALSE
  OBVIOUS
<1> DEFINE T == S \cap 0..n
           f == [i \in T |-> i + 1]
<1>1. IsFiniteSet(T)
  <2>1. IsFiniteSet(0..n) /\ T \in SUBSET (0..n)
    BY FS_Interval
  <2> HIDE DEF T
  <2> QED
    BY <2>1, FS_Subset
<1>2. 0 \in T
  OBVIOUS
<1>3. f \in Injection(T, T \ {0})
  BY DEF Injection, IsInjective
<1> HIDE DEF T, f
<1>4. /\ Cardinality(T) \in Nat /\ IsFiniteSet(T \ {0})
      /\ Cardinality(T \ {0}) = Cardinality(T) - 1
  BY <1>1, <1>2, FS_CardinalityType, FS_RemoveElement
<1>5. Cardinality(T) <= Cardinality(T \ {0})
  BY <1>3, <1>4, FS_Injection
<1> QED
  BY <1>4, <1>5

\* The recursion of Views defines a function.
LEMMA ViewsStep ==
  ASSUME NEW log, Len(log) \in Nat
  PROVE  /\ Views(log)[0] = EmptyView
         /\ \A n \in 1..Len(log) :
              Views(log)[n] = ApplyEvent(Views(log)[n - 1], log[n])
<1> DEFINE Sol(f, m) == f = [n \in 0..m |->
             IF n = 0 THEN EmptyView ELSE ApplyEvent(f[n - 1], log[n])]
           S == {m \in Nat : \E f : Sol(f, m)}
<1>1. 0 \in S
  <2> DEFINE f == [n \in 0..0 |-> EmptyView]
  <2>1. Sol(f, 0)
    OBVIOUS
  <2> QED
    BY <2>1
<1>2. ASSUME NEW m \in S PROVE m + 1 \in S
  <2>1. PICK f : Sol(f, m)
    OBVIOUS
  <2>2. m \in Nat /\ DOMAIN f = 0..m
    BY <2>1
  <2> DEFINE g == [n \in 0..(m + 1) |->
                     IF n = m + 1 THEN ApplyEvent(f[m], log[m + 1]) ELSE f[n]]
  <2>3. ASSUME NEW n \in 0..(m + 1)
        PROVE  g[n] = IF n = 0 THEN EmptyView ELSE ApplyEvent(g[n - 1], log[n])
    <3>1. CASE n = m + 1
      <4>1. g[m] = f[m] /\ g[n] = ApplyEvent(f[m], log[m + 1])
        BY <2>2, <3>1
      <4> QED
        BY <2>2, <3>1, <4>1
    <3>2. CASE n # m + 1
      <4>1. n \in 0..m /\ g[n] = f[n] /\ (n # 0 => g[n - 1] = f[n - 1])
        BY <2>2, <3>2
      <4>2. f[n] = IF n = 0 THEN EmptyView ELSE ApplyEvent(f[n - 1], log[n])
        BY <2>1, <4>1
      <4> QED
        BY <4>1, <4>2
    <3> QED
      BY <3>1, <3>2
  <2>4. Sol(g, m + 1)
    BY <2>3
  <2> HIDE DEF Sol, g
  <2> QED
    BY <2>2, <2>4
<1>3. S = Nat
  <2> HIDE DEF S
  <2>1. S \in SUBSET Nat
    BY DEF S
  <2> QED
    BY <1>1, <1>2, <2>1, Induction
<1>4. \E f : Sol(f, Len(log))
  BY <1>3
<1>5. Sol(Views(log), Len(log))
  BY <1>4 DEF Views
<1> HIDE DEF S
<1> QED
  BY <1>5

\* The views after the events two logs begin with are the same.
LEMMA SameViews ==
  ASSUME NEW log, NEW more, Len(log) \in Nat, Len(more) \in Nat, Len(log) <= Len(more),
         \A i \in 1..Len(log) : more[i] = log[i]
  PROVE  Views(more)[Len(log)] = Replay(log)
<1> DEFINE N == Len(log)
           S == {n \in Nat : n <= N => Views(more)[n] = Views(log)[n]}
<1>1. 0 \in S
  BY ViewsStep
<1>2. ASSUME NEW n \in S PROVE n + 1 \in S
  <2> SUFFICES ASSUME n + 1 <= N PROVE Views(more)[n + 1] = Views(log)[n + 1]
    OBVIOUS
  <2>1. n \in Nat /\ n + 1 \in 1..N /\ n + 1 \in 1..Len(more) /\ (n + 1) - 1 = n
    OBVIOUS
  <2>2. Views(more)[n] = Views(log)[n] /\ more[n + 1] = log[n + 1]
    BY <2>1
  <2>3. Views(log)[n + 1] = ApplyEvent(Views(log)[n], log[n + 1])
    BY <2>1, ViewsStep
  <2>4. Views(more)[n + 1] = ApplyEvent(Views(more)[n], more[n + 1])
    BY <2>1, ViewsStep
  <2> QED
    BY <2>2, <2>3, <2>4
<1>3. S = Nat
  <2> HIDE DEF S
  <2>1. S \in SUBSET Nat
    BY DEF S
  <2> QED
    BY <1>1, <1>2, <2>1, Induction
<1> QED
  BY <1>3 DEF Replay
-----------------------------------------------------------------------------
(* What one event does to a view: v shows project p of the tables s, and the *)
(* view after the event shows p of the tables s2.                            *)

\* s and s2 have the same rows of p.
SameBoard(s, s2, p) ==
  /\ s2.name = s.name
  /\ \A k \in Task : k \in Live(s2, p) <=> k \in Live(s, p)
  /\ \A k \in Live(s, p) : s2.tasks[k] = s.tasks[k]
  /\ \A c \in Comment :
       IF s.comments[c] \in Live(s, p) THEN s2.comments[c] = s.comments[c]
       ELSE s2.comments[c] \notin Live(s, p)
  /\ \A e \in Edge : e[1] \in Live(s, p) => (e \in s2.deps <=> e \in s.deps)
  /\ s.used \subseteq s2.used

LEMMA SameBoardShown ==
  ASSUME NEW v, NEW p, NEW s, NEW s2, Shows(v, p, s), SameBoard(s, s2, p),
         s2.deps \subseteq Edge
  PROVE  Shows(v, p, s2)
<1>1. v \in View /\ v.name \in {None, s2.name}
  BY DEF Shows, SameBoard
<1>2. \A k \in Task : v.tasks[k] = IF k \in Live(s2, p) THEN s2.tasks[k] ELSE None
  BY DEF Shows, SameBoard
<1>3. Live(s, p) = Live(s2, p)
  BY DEF SameBoard, Live
<1>4. \A c \in Comment :
        v.comments[c] = IF s2.comments[c] \in Live(s2, p) THEN s2.comments[c] ELSE None
  BY <1>3 DEF Shows, SameBoard
<1>5. \A e \in s2.deps : e[1] \in Live(s2, p) => e \in v.deps
  BY <1>3 DEF Shows, SameBoard
<1>6. \A e \in v.deps :
        /\ e[1] \in Live(s2, p) /\ e[2] \in s2.used
        /\ e[2] \in Live(s2, p) => e \in s2.deps
        /\ "CreateTaskBatch" \notin Kinds => e[2] \in Live(s2, p)
  <2>1. v.deps \subseteq Edge
    BY <1>1 DEF View
  <2> QED
    BY <1>3, <2>1 DEF Shows, SameBoard
<1> QED
  BY <1>1, <1>2, <1>4, <1>5, <1>6 DEF Shows

\* s2 is s with the tasks `new` of p, their rows, and edges that start at them.
Grows(s, s2, p, new, rows, add) ==
  /\ \A k \in new : /\ k \in Task /\ k \notin s.used
                    /\ rows[k] \in TaskRow /\ rows[k].project = p
  /\ add \subseteq Edge /\ \A e \in add : e[1] \in new /\ e[2] \in new \cup Live(s, p)
  /\ \A k \in Task : s.tasks[k] # None => k \in s.used
  /\ \A e \in s.deps : e[1] \in s.used
  /\ \A c \in Comment : s.comments[c] \notin new
  /\ s2.name = s.name /\ s2.comments = s.comments /\ s.used \cup new \subseteq s2.used
  /\ \A k \in Task : s2.tasks[k] = IF k \in new THEN rows[k] ELSE s.tasks[k]
  /\ s2.deps = s.deps \cup add

\* w is the view v with them.
GrownTo(w, v, new, rows, add) ==
  /\ w \in View /\ w.name = v.name /\ w.comments = v.comments
  /\ \A k \in Task : w.tasks[k] = IF k \in new THEN rows[k] ELSE v.tasks[k]
  /\ w.deps = v.deps \cup add

LEMMA GrownShown ==
  ASSUME NEW v, NEW p, NEW s, NEW s2, NEW w, NEW new, NEW rows, NEW add,
         Shows(v, p, s), Grows(s, s2, p, new, rows, add), GrownTo(w, v, new, rows, add)
  PROVE  Shows(w, p, s2)
<1>1. \A k \in new : rows[k] # None
  BY NoneAssumption DEF TaskRow, Grows
<1>2. Live(s2, p) = Live(s, p) \cup new /\ Live(s, p) \cap new = {}
      /\ Live(s, p) \subseteq s.used
  BY <1>1 DEF Live, Grows
<1>3. w \in View /\ w.name \in {None, s2.name}
  BY DEF Shows, Grows, GrownTo
<1>4. \A k \in Task : w.tasks[k] = IF k \in Live(s2, p) THEN s2.tasks[k] ELSE None
  BY <1>2 DEF Shows, Grows, GrownTo
<1>5. \A c \in Comment :
        w.comments[c] = IF s2.comments[c] \in Live(s2, p) THEN s2.comments[c] ELSE None
  BY <1>2 DEF Shows, Grows, GrownTo
<1>6. \A e \in s2.deps : e[1] \in Live(s2, p) => e \in w.deps
  BY <1>2 DEF Shows, Grows, GrownTo
<1>7. \A e \in w.deps :
        /\ e[1] \in Live(s2, p) /\ e[2] \in s2.used
        /\ e[2] \in Live(s2, p) => e \in s2.deps
        /\ "CreateTaskBatch" \notin Kinds => e[2] \in Live(s2, p)
  BY <1>2 DEF Shows, Grows, GrownTo
<1> QED
  BY <1>3, <1>4, <1>5, <1>6, <1>7 DEF Shows

\* task.created: the view of a new task.
LEMMA CreatedView ==
  ASSUME NEW v \in View, NEW k \in Task, v.tasks[k] = None, NEW row \in TaskRow,
         NEW ds \in SUBSET Task, NEW b,
         b = [type |-> "task.created", task |-> k, row |-> row, deps |-> ds]
  PROVE  /\ ApplyEvent(v, b) \in View
         /\ ApplyEvent(v, b).name = v.name /\ ApplyEvent(v, b).comments = v.comments
         /\ \A j \in Task : ApplyEvent(v, b).tasks[j] = IF j = k THEN row ELSE v.tasks[j]
         /\ ApplyEvent(v, b).deps = v.deps \cup ({k} \X ds)
<1> DEFINE w == ApplyEvent(v, b)
           tasks2 == [v.tasks EXCEPT ![k] = row]
           deps2 == v.deps \cup ({k} \X ds)
<1>1. w = [v EXCEPT !.tasks = tasks2, !.deps = deps2]
  BY DEF ApplyEvent, View
<1>2. /\ w.name = v.name /\ w.comments = v.comments
      /\ w.tasks = tasks2 /\ w.deps = deps2
  BY <1>1 DEF View
<1>3. tasks2 \in [Task -> TaskRow \cup {None}] /\ deps2 \subseteq Edge
  BY DEF View, Edge
<1>4. \A j \in Task : tasks2[j] = IF j = k THEN row ELSE v.tasks[j]
  BY DEF View
<1> HIDE DEF tasks2, deps2
<1>5. w \in View
  BY <1>1, <1>3 DEF View
<1> HIDE DEF w
<1>6. w.tasks = tasks2 /\ w.deps = v.deps \cup ({k} \X ds)
  BY <1>2 DEF deps2
<1>7. w = ApplyEvent(v, b)
  BY DEF w
<1> QED
  BY <1>2, <1>4, <1>5, <1>6, <1>7

\* task.updated: the fields the patch has.
LEMMA UpdatedShown ==
  ASSUME NEW v, NEW p, NEW s, NEW s2, Shows(v, p, s), s.tasks \in [Task -> TaskRow \cup {None}],
         NEW k \in Live(s, p), NEW b, b.type = "task.updated", b.task = k,
         b.title \in Text \cup {None}, b.status \in Status \cup {None},
         s2.name = s.name, s2.comments = s.comments, s2.deps = s.deps,
         s.used \subseteq s2.used,
         \A j \in Task : s2.tasks[j] = IF j = k THEN PatchedRow(b, s.tasks[k]) ELSE s.tasks[j]
  PROVE  Shows(ApplyEvent(v, b), p, s2)
<1> DEFINE w == ApplyEvent(v, b)
           row == PatchedRow(b, s.tasks[k])
           tasks2 == [v.tasks EXCEPT ![k] = row]
<1>1. k \in Task /\ s.tasks[k] \in TaskRow /\ s.tasks[k].project = p
  BY DEF Live
<1>2. row \in TaskRow /\ row.project = p
  BY <1>1 DEF PatchedRow, Patched, TaskRow
<1>3. row # None
  BY <1>2, NoneAssumption DEF TaskRow
<1>4. v \in View /\ v.tasks[k] = s.tasks[k]
  BY <1>1 DEF Shows
<1>5. s.tasks[k] # None
  BY DEF Live
<1>6. w = [v EXCEPT !.tasks = tasks2]
  BY <1>4, <1>5 DEF ApplyEvent
<1>7. /\ \A j \in Task : s2.tasks[j] = IF j = k THEN row ELSE s.tasks[j]
      /\ tasks2 \in [Task -> TaskRow \cup {None}]
      /\ \A j \in Task : tasks2[j] = IF j = k THEN row ELSE v.tasks[j]
  BY <1>1, <1>2, <1>4 DEF View
<1> HIDE DEF row, tasks2
<1>8. /\ w.name = v.name /\ w.tasks = tasks2 /\ w.deps = v.deps
      /\ w.comments = v.comments /\ w \in View
  BY <1>4, <1>6, <1>7 DEF View
<1>9. w = ApplyEvent(v, b)
  OBVIOUS
<1> HIDE DEF w
<1>10. Live(s2, p) = Live(s, p)
  BY <1>1, <1>2, <1>3, <1>5, <1>7 DEF Live
<1>11. \A j \in Task : w.tasks[j] = IF j \in Live(s2, p) THEN s2.tasks[j] ELSE None
  BY <1>7, <1>8, <1>10 DEF Shows
<1>12. Shows(w, p, s2)
  BY <1>8, <1>10, <1>11 DEF Shows
<1> QED
  BY <1>9, <1>12

\* task.dependencies_changed: the new list, of which the tasks that are still
\* there are edges.
LEMMA ChangedShown ==
  ASSUME NEW v, NEW p, NEW s, NEW s2, Shows(v, p, s),
         NEW k \in Live(s, p), NEW ds \in SUBSET Task, ds \subseteq s2.used,
         "CreateTaskBatch" \notin Kinds => ds \subseteq Live(s, p),
         NEW b, b = [type |-> "task.dependencies_changed", task |-> k, dependsOn |-> ds],
         s2.name = s.name, s2.comments = s.comments, s2.tasks = s.tasks,
         s.used \subseteq s2.used, s2.deps \subseteq Edge,
         \A e \in Edge : e[1] # k => (e \in s2.deps <=> e \in s.deps),
         \A e \in s2.deps : e[1] = k => e[2] \in ds,
         \A d \in ds : d \in Live(s, p) => <<k, d>> \in s2.deps
  PROVE  Shows(ApplyEvent(v, b), p, s2)
<1> DEFINE w == ApplyEvent(v, b)
           deps2 == {e \in v.deps : e[1] # k} \cup ({k} \X ds)
<1>1. k \in Task /\ v \in View /\ v.tasks[k] # None
  BY DEF Live, Shows
<1>2. w = [v EXCEPT !.deps = deps2]
  BY <1>1 DEF ApplyEvent
<1>3. deps2 \subseteq Edge
  BY <1>1 DEF View, Edge
<1>4. \A e : e \in deps2 <=> \/ e \in v.deps /\ e[1] # k
                             \/ \E d \in ds : e = <<k, d>>
  OBVIOUS
<1> HIDE DEF deps2
<1>5. /\ w.name = v.name /\ w.tasks = v.tasks /\ w.deps = deps2
      /\ w.comments = v.comments /\ w \in View
  BY <1>1, <1>2, <1>3 DEF View
<1>6. w = ApplyEvent(v, b)
  OBVIOUS
<1> HIDE DEF w
<1>7. Live(s2, p) = Live(s, p)
  BY DEF Live
<1>8. ASSUME NEW e \in s2.deps, e[1] \in Live(s2, p) PROVE e \in w.deps
  <2>1. e \in Edge
    OBVIOUS
  <2>2. CASE e[1] = k
    <3>1. e = <<k, e[2]>> /\ e[2] \in ds
      BY <2>1, <2>2 DEF Edge
    <3> QED
      BY <1>4, <1>5, <3>1
  <2>3. CASE e[1] # k
    BY <1>4, <1>5, <1>7, <1>8, <2>1, <2>3 DEF Shows
  <2> QED
    BY <2>2, <2>3
<1>9. ASSUME NEW e \in w.deps
      PROVE  /\ e[1] \in Live(s2, p) /\ e[2] \in s2.used
             /\ e[2] \in Live(s2, p) => e \in s2.deps
             /\ "CreateTaskBatch" \notin Kinds => e[2] \in Live(s2, p)
  <2>1. CASE e \in v.deps /\ e[1] # k
    <3>1. e \in Edge
      BY <1>1, <2>1 DEF View
    <3>2. /\ e[1] \in Live(s, p) /\ e[2] \in s.used
          /\ e[2] \in Live(s, p) => e \in s.deps
          /\ "CreateTaskBatch" \notin Kinds => e[2] \in Live(s, p)
      BY <2>1 DEF Shows
    <3> QED
      BY <1>7, <2>1, <3>1, <3>2
  <2>2. CASE \E d \in ds : e = <<k, d>>
    BY <1>7, <2>2
  <2> QED
    BY <1>4, <1>5, <1>9, <2>1, <2>2
<1>10. Shows(w, p, s2)
  BY <1>5, <1>7, <1>8, <1>9 DEF Shows
<1> QED
  BY <1>6, <1>10

\* task.deleted: what the row takes with it.
LEMMA DeletedShown ==
  ASSUME NEW v, NEW p, NEW s, NEW s2, Shows(v, p, s),
         NEW k \in Live(s, p), NEW read \in SUBSET Task,
         \A e \in s.deps : e[2] = k => e[1] \in read,
         NEW b, b = [type |-> "task.deleted", task |-> k, removedFromDependenciesOf |-> read],
         s2.name = s.name, s.used \subseteq s2.used, s2.deps \subseteq Edge,
         \A j \in Task : s2.tasks[j] = IF j = k THEN None ELSE s.tasks[j],
         \A e \in Edge : e \in s2.deps <=> e \in s.deps /\ k \notin {e[1], e[2]},
         \A c \in Comment : \/ s2.comments[c] = s.comments[c]
                            \/ s.comments[c] = k /\ s2.comments[c] = None
  PROVE  Shows(ApplyEvent(v, b), p, s2)
<1> DEFINE w == ApplyEvent(v, b)
           tasks2 == [v.tasks EXCEPT ![k] = None]
           deps2 == {e \in v.deps : e[1] # k} \ (read \X {k})
           notes == [c \in Comment |-> IF v.comments[c] = k THEN None ELSE v.comments[c]]
<1>1. k \in Task /\ v \in View
  BY DEF Live, Shows
<1>2. w = [v EXCEPT !.tasks = tasks2, !.deps = deps2, !.comments = notes]
  BY <1>1 DEF ApplyEvent
<1>3. /\ tasks2 \in [Task -> TaskRow \cup {None}] /\ deps2 \subseteq Edge
      /\ notes \in [Comment -> Task \cup {None}]
      /\ \A j \in Task : tasks2[j] = IF j = k THEN None ELSE v.tasks[j]
      /\ \A c \in Comment : notes[c] = IF v.comments[c] = k THEN None ELSE v.comments[c]
  BY <1>1 DEF View
<1>4. ASSUME NEW e PROVE e \in deps2 <=> e \in v.deps /\ k \notin {e[1], e[2]}
  <2>1. CASE e \in v.deps /\ e[2] = k
    <3>1. e \in Edge
      BY <1>1, <2>1 DEF View
    <3>2. e \in s.deps
      BY <2>1 DEF Shows
    <3>3. e[1] \in read
      BY <2>1, <3>2
    <3>4. e = <<e[1], k>>
      BY <2>1, <3>1 DEF Edge
    <3> QED
      BY <2>1, <3>3, <3>4
  <2>2. CASE e \in v.deps /\ e[2] # k
    BY <2>2
  <2> QED
    BY <2>1, <2>2
<1> HIDE DEF tasks2, deps2, notes
<1>5. /\ w.name = v.name /\ w.tasks = tasks2 /\ w.deps = deps2
      /\ w.comments = notes /\ w \in View
  BY <1>1, <1>2, <1>3 DEF View
<1>6. w = ApplyEvent(v, b)
  OBVIOUS
<1> HIDE DEF w
<1>7. \A j : j \in Live(s2, p) <=> j \in Live(s, p) /\ j # k
  BY <1>1 DEF Live
<1>8. \A j \in Task : w.tasks[j] = IF j \in Live(s2, p) THEN s2.tasks[j] ELSE None
  BY <1>3, <1>5, <1>7 DEF Shows
<1>9. ASSUME NEW c \in Comment
      PROVE  w.comments[c] = IF s2.comments[c] \in Live(s2, p) THEN s2.comments[c] ELSE None
  <2>1. v.comments[c] = IF s.comments[c] \in Live(s, p) THEN s.comments[c] ELSE None
    BY DEF Shows
  <2>2. None \notin Live(s2, p)
    BY NoneAssumption DEF Live
  <2>3. CASE s2.comments[c] = s.comments[c]
    BY <1>3, <1>5, <1>7, <2>1, <2>3
  <2>4. CASE s.comments[c] = k /\ s2.comments[c] = None
    BY <1>3, <1>5, <2>1, <2>2, <2>4
  <2> QED
    BY <2>3, <2>4
<1>10. \A e \in s2.deps : e[1] \in Live(s2, p) => e \in w.deps
  BY <1>4, <1>5, <1>7 DEF Shows
<1>11. ASSUME NEW e \in w.deps
       PROVE  /\ e[1] \in Live(s2, p) /\ e[2] \in s2.used
              /\ e[2] \in Live(s2, p) => e \in s2.deps
              /\ "CreateTaskBatch" \notin Kinds => e[2] \in Live(s2, p)
  <2>1. e \in v.deps /\ k \notin {e[1], e[2]}
    BY <1>4, <1>5
  <2>2. e \in Edge
    BY <1>1, <2>1 DEF View
  <2>3. /\ e[1] \in Live(s, p) /\ e[2] \in s.used
        /\ e[2] \in Live(s, p) => e \in s.deps
        /\ "CreateTaskBatch" \notin Kinds => e[2] \in Live(s, p)
    BY <2>1 DEF Shows
  <2> QED
    BY <1>7, <2>1, <2>2, <2>3
<1>12. Shows(w, p, s2)
  <2>1. w.name \in {None, s2.name}
    BY <1>5 DEF Shows
  <2> QED
    BY <1>5, <1>8, <1>9, <1>10, <1>11, <2>1 DEF Shows
<1> QED
  BY <1>6, <1>12

\* comment.added and comment.deleted.
LEMMA CommentShown ==
  ASSUME NEW v, NEW p, NEW s, NEW s2, Shows(v, p, s),
         NEW c \in Comment, NEW k \in Task, NEW note, NEW b, NEW type,
         b = [type |-> type, comment |-> c, task |-> k],
         \/ type = "comment.added" /\ note = k /\ k \in Live(s, p)
         \/ type = "comment.deleted" /\ note = None,
         s2.name = s.name, s.used \subseteq s2.used, s2.tasks = s.tasks, s2.deps = s.deps,
         \A d \in Comment : s2.comments[d] = IF d = c THEN note ELSE s.comments[d]
  PROVE  Shows(ApplyEvent(v, b), p, s2)
<1> DEFINE w == ApplyEvent(v, b)
           notes == [v.comments EXCEPT ![c] = note]
<1>1. v \in View
  BY DEF Shows
<1>2. w = [v EXCEPT !.comments = notes]
  <2>1. CASE type = "comment.added" /\ note = k
    BY <2>1 DEF ApplyEvent
  <2>2. CASE type = "comment.deleted" /\ note = None
    BY <2>2 DEF ApplyEvent
  <2> QED
    BY <2>1, <2>2
<1>3. /\ notes \in [Comment -> Task \cup {None}]
      /\ \A d \in Comment : notes[d] = IF d = c THEN note ELSE v.comments[d]
  BY <1>1 DEF View
<1> HIDE DEF notes
<1>4. /\ w.name = v.name /\ w.tasks = v.tasks /\ w.deps = v.deps
      /\ w.comments = notes /\ w \in View
  BY <1>1, <1>2, <1>3 DEF View
<1>5. w = ApplyEvent(v, b)
  OBVIOUS
<1> HIDE DEF w
<1>6. Live(s2, p) = Live(s, p) /\ None \notin Live(s, p)
  BY NoneAssumption DEF Live
<1>7. \A d \in Comment :
        w.comments[d] = IF s2.comments[d] \in Live(s2, p) THEN s2.comments[d] ELSE None
  BY <1>3, <1>4, <1>6 DEF Shows
<1>8. Shows(w, p, s2)
  BY <1>4, <1>6, <1>7 DEF Shows
<1> QED
  BY <1>5, <1>8

\* project.updated.
LEMMA RenamedShown ==
  ASSUME NEW v, NEW p, NEW s, NEW s2, Shows(v, p, s), NEW name \in Text,
         NEW b, b = [type |-> "project.updated", name |-> name], s2.name = name,
         s.used \subseteq s2.used, s2.tasks = s.tasks, s2.deps = s.deps,
         s2.comments = s.comments
  PROVE  Shows(ApplyEvent(v, b), p, s2)
<1> DEFINE w == ApplyEvent(v, b)
<1>1. v \in View
  BY DEF Shows
<1>2. w = [v EXCEPT !.name = name]
  BY DEF ApplyEvent
<1>3. /\ w.name = name /\ w.tasks = v.tasks /\ w.deps = v.deps
      /\ w.comments = v.comments /\ w \in View
  BY <1>1, <1>2 DEF View
<1> HIDE DEF w
<1>4. Live(s2, p) = Live(s, p)
  BY DEF Live
<1>5. Shows(w, p, s2)
  BY <1>3, <1>4 DEF Shows
<1> QED
  BY <1>5 DEF w

-----------------------------------------------------------------------------
(* What a block of events does. *)

\* u is v with the first m of the new tasks ids, task by task and edge by edge.
Grown(u, v, ids, puts, lists, m) ==
  /\ u \in View /\ u.name = v.name /\ u.comments = v.comments
  /\ \A k \in Task : u.tasks[k] = IF \E j \in 1..m : ids[j] = k THEN puts[k]
                                  ELSE v.tasks[k]
  /\ \A e : e \in u.deps <=> \/ e \in v.deps
                             \/ \E j \in 1..m : e \in {ids[j]} \X lists[j]

\* e creates k, which v does not show, with its row in puts and the list ds.
Creation(e, v, k, puts, ds) ==
  /\ k \in Task /\ v.tasks[k] = None /\ puts[k] \in TaskRow /\ ds \in SUBSET Task
  /\ e = [type |-> "task.created", task |-> k, row |-> puts[k], deps |-> ds]

\* The events of a breakdown's tasks, one after the other.
LEMMA CreatedViews ==
  ASSUME NEW n \in Nat, NEW base \in Nat, NEW view, NEW v, v \in View, view[base] = v,
         NEW ids, NEW puts, NEW lists, NEW b,
         \A i \in 1..n : Creation(b[i], v, ids[i], puts, lists[i]),
         \A i, j \in 1..n : ids[i] = ids[j] => i = j,
         \A i \in 1..n : view[base + i] = ApplyEvent(view[base + (i - 1)], b[i])
  PROVE  Grown(view[base + n], v, ids, puts, lists, n)
<1> DEFINE S == {m \in Nat : m <= n => Grown(view[base + m], v, ids, puts, lists, m)}
<1>1. 0 \in S
  BY DEF Grown
<1>2. ASSUME NEW m \in S PROVE m + 1 \in S
  <2> SUFFICES ASSUME m + 1 <= n
               PROVE  Grown(view[base + (m + 1)], v, ids, puts, lists, m + 1)
    OBVIOUS
  <2> DEFINE u == view[base + m]
             k == ids[m + 1]
             w == view[base + (m + 1)]
  <2>1. m \in Nat /\ m + 1 \in 1..n /\ (m + 1) - 1 = m /\ Grown(u, v, ids, puts, lists, m)
    OBVIOUS
  <2>2. w = ApplyEvent(u, b[m + 1])
    BY <2>1
  <2>3. /\ k \in Task /\ v.tasks[k] = None /\ puts[k] \in TaskRow
        /\ lists[m + 1] \in SUBSET Task
        /\ b[m + 1] = [type |-> "task.created", task |-> k, row |-> puts[k],
                       deps |-> lists[m + 1]]
    BY <2>1 DEF Creation
  <2>4. \A j \in 1..m : ids[j] # k
    <3> SUFFICES ASSUME NEW j \in 1..m, ids[j] = ids[m + 1] PROVE FALSE
      OBVIOUS
    <3>1. j \in 1..n /\ j # m + 1
      BY <2>1
    <3> QED
      BY <2>1, <3>1
  <2>5. \A j : j \in 1..(m + 1) <=> j \in 1..m \/ j = m + 1
    BY <2>1
  <2> HIDE DEF u, k, w, S
  <2>6. u \in View /\ u.tasks[k] = None
    BY <2>1, <2>3, <2>4 DEF Grown
  <2>7. /\ w \in View /\ w.name = u.name /\ w.comments = u.comments
        /\ \A j \in Task : w.tasks[j] = IF j = k THEN puts[k] ELSE u.tasks[j]
        /\ w.deps = u.deps \cup ({k} \X lists[m + 1])
    <3> DEFINE c == b[m + 1]
               row == puts[k]
               ds == lists[m + 1]
    <3>1. /\ w = ApplyEvent(u, c) /\ row \in TaskRow /\ ds \in SUBSET Task
          /\ c = [type |-> "task.created", task |-> k, row |-> row, deps |-> ds]
      BY <2>2, <2>3
    <3> HIDE DEF c, row, ds
    <3>3. k \in Task /\ u \in View /\ u.tasks[k] = None
      BY <2>3, <2>6
    <3>2. /\ ApplyEvent(u, c) \in View
          /\ ApplyEvent(u, c).name = u.name /\ ApplyEvent(u, c).comments = u.comments
          /\ \A j \in Task : ApplyEvent(u, c).tasks[j] = IF j = k THEN row ELSE u.tasks[j]
          /\ ApplyEvent(u, c).deps = u.deps \cup ({k} \X ds)
      BY <3>1, <3>3, CreatedView, SMTT(30)
    <3> QED
      BY <3>1, <3>2 DEF row, ds
  <2>8. ids[m + 1] = k
    BY DEF k
  <2>9. ASSUME NEW j \in Task
        PROVE  w.tasks[j] = IF \E i \in 1..(m + 1) : ids[i] = j THEN puts[j]
                            ELSE v.tasks[j]
    <3>1. (\E i \in 1..(m + 1) : ids[i] = j) <=> j = k \/ \E i \in 1..m : ids[i] = j
      BY <2>5, <2>8
    <3>2. u.tasks[j] = IF \E i \in 1..m : ids[i] = j THEN puts[j] ELSE v.tasks[j]
      BY <2>1 DEF Grown
    <3>3. w.tasks[j] = IF j = k THEN puts[k] ELSE u.tasks[j]
      BY <2>7
    <3> QED
      BY <3>1, <3>2, <3>3
  <2>10. ASSUME NEW e
         PROVE  e \in w.deps <=> \/ e \in v.deps
                                 \/ \E j \in 1..(m + 1) : e \in {ids[j]} \X lists[j]
    <3>1. e \in u.deps <=> \/ e \in v.deps
                           \/ \E j \in 1..m : e \in {ids[j]} \X lists[j]
      BY <2>1 DEF Grown
    <3>2. e \in w.deps <=> e \in u.deps \/ e \in {ids[m + 1]} \X lists[m + 1]
      BY <2>7, <2>8
    <3> QED
      BY <2>5, <3>1, <3>2
  <2>11. w.name = v.name /\ w.comments = v.comments
    BY <2>1, <2>7 DEF Grown
  <2>12. Grown(w, v, ids, puts, lists, m + 1)
    BY <2>7, <2>9, <2>10, <2>11 DEF Grown
  <2> QED
    BY <2>12 DEF w
<1>3. S = Nat
  <2> HIDE DEF S
  <2>1. S \in SUBSET Nat
    BY DEF S
  <2> QED
    BY <1>1, <1>2, <2>1, Induction
<1> QED
  BY <1>3

-----------------------------------------------------------------------------
(* The log after a commit. *)

\* The seqs x has claimed: the ones from First(x) + 1 on.
First(x) == projects[x.project].lastSeq
Claimed(x) == IF x.lastSeq = 0 THEN 0 ELSE x.lastSeq - First(x)

\* x's claims follow First(x) without a gap.
Recording(x) ==
  /\ x.evs \subseteq Event /\ x.lastSeq \in Nat /\ x.out \in Seq(Body)
  /\ First(x) \in Nat /\ (x.lastSeq > 0 => First(x) < x.lastSeq)
  /\ \A i \in 1..Claimed(x) : \E e \in x.evs : e.seq = First(x) + i

\* x's block: the payloads of the events it has recorded, by seq, then the
\* ones it is going to record.
LEMMA BlockParts ==
  ASSUME NEW x, Recording(x)
  PROVE  /\ Claimed(x) \in Nat /\ Block(x) \in Seq(Body)
         /\ Len(Block(x)) = Claimed(x) + Len(x.out)
         /\ \A i \in 1..Claimed(x) :
              \E e \in x.evs : e.seq = First(x) + i /\ Block(x)[i] = e.body
         /\ \A j \in 1..Len(x.out) : Block(x)[Claimed(x) + j] = x.out[j]
<1> DEFINE c(i) == CHOOSE e \in x.evs : e.seq = First(x) + i
           n == Claimed(x)
           b == [i \in 1..n |-> c(i).body]
<1>1. n \in Nat
  BY DEF Claimed, Recording
<1>2. ASSUME NEW i \in 1..n
      PROVE  c(i) \in x.evs /\ c(i).seq = First(x) + i /\ c(i).body \in Body
  <2>1. c(i) \in x.evs /\ c(i).seq = First(x) + i
    BY DEF Recording
  <2> HIDE DEF c
  <2>2. c(i).body \in Body
    BY <2>1 DEF Event, Recording
  <2> QED
    BY <2>1, <2>2
<1>3. Block(x) = b \o x.out
  BY DEF Block, First, Claimed
<1> HIDE DEF c, n
<1>4. b \in [1..n -> Body] /\ \A i \in 1..n : b[i] = c(i).body
  BY <1>2
<1> HIDE DEF b
<1>5. b \in Seq(Body) /\ Len(b) = n
  BY <1>1, <1>4
<1>6. /\ Block(x) \in Seq(Body) /\ Len(Block(x)) = n + Len(x.out)
      /\ \A i \in 1..n : Block(x)[i] = b[i]
      /\ \A j \in 1..Len(x.out) : Block(x)[n + j] = x.out[j]
  <2>1. PICK o : o = x.out /\ o \in Seq(Body)
    BY DEF Recording
  <2>2. /\ b \o o \in Seq(Body) /\ Len(b \o o) = Len(b) + Len(o)
        /\ \A i \in 1..Len(b) + Len(o) :
             (b \o o)[i] = IF i <= Len(b) THEN b[i] ELSE o[i - Len(b)]
    BY <1>5, <2>1, ConcatProperties
  <2>3. Len(o) \in Nat
    BY <2>1
  <2>4. \A i \in 1..n : (b \o o)[i] = b[i]
    BY <1>1, <1>5, <2>2, <2>3
  <2>5. ASSUME NEW j \in 1..Len(o) PROVE (b \o o)[n + j] = o[j]
    <3>1. n + j \in 1..n + Len(o) /\ ~ (n + j <= n) /\ n + j - n = j
      BY <1>1, <2>3
    <3> QED
      BY <1>5, <2>2, <3>1
  <2> QED
    BY <1>3, <1>5, <2>1, <2>2, <2>4, <2>5
<1> QED
  BY <1>1, <1>2, <1>4, <1>6 DEF n

LEMMA RecordedAll ==
  ASSUME NEW x, x.evs \subseteq Event, x.lastSeq \in Nat, x.out = << >>,
         First(x) \in Nat, x.lastSeq > 0 => First(x) < x.lastSeq,
         \A i \in 1..Claimed(x) : \E e \in x.evs : e.seq = First(x) + i
  PROVE  /\ Claimed(x) \in Nat /\ Block(x) \in Seq(Body) /\ Len(Block(x)) = Claimed(x)
         /\ \A i \in 1..Claimed(x) :
              \E e \in x.evs : e.seq = First(x) + i /\ Block(x)[i] = e.body
<1>1. x.out \in Seq(Body) /\ Len(x.out) = 0
  OBVIOUS
<1>2. /\ Claimed(x) \in Nat /\ Block(x) \in Seq(Body)
      /\ Len(Block(x)) = Claimed(x) + Len(x.out)
      /\ \A i \in 1..Claimed(x) :
           \E e \in x.evs : e.seq = First(x) + i /\ Block(x)[i] = e.body
  BY <1>1, BlockParts DEF Recording
<1> QED
  BY <1>1, <1>2

\* The log of the project t writes to is the old one, then t's block.
LEMMA CommitBlock ==
  ASSUME Inv, Inv', NEW t \in Txn, Commit(t), txn[t].out = << >>,
         NEW p \in Project, p = txn[t].project, projects'[p] # None,
         NEW log, log = LogOf(p), NEW more, more = LogIn(events', p, projects'[p].lastSeq)
  PROVE  /\ log \in Seq(Body) /\ more \in Seq(Body) /\ Block(txn[t]) \in Seq(Body)
         /\ Len(more) = Len(log) + Len(Block(txn[t]))
         /\ \A i \in 1..Len(log) : more[i] = log[i]
         /\ \A i \in 1..Len(Block(txn[t])) : more[Len(log) + i] = Block(txn[t])[i]
<1> DEFINE base == projects[p].lastSeq
           last == projects'[p].lastSeq
           x == txn[t]
           n == Claimed(x)
<1>1. /\ x \in TxnState /\ ClaimsOK(x)
  BY AtFacts DEF Commit
<1>2. x.evs \subseteq Event /\ x.lastSeq \in Nat
  BY <1>1 DEF TxnState
<1>3. projects[p] # None /\ p \notin x.del
  BY CommitProjects
<1>4. /\ base \in Nat
      /\ last = IF x.lastSeq = 0 THEN base ELSE x.lastSeq
  <2>1. projects[p] \in ProjectRow
    BY <1>3 DEF Inv, TypeOK
  <2> QED
    BY <1>2, <1>3, <2>1, CommitProjects DEF ProjectRow
<1>5. /\ x.lastSeq > 0 => base < x.lastSeq
      /\ \A i \in 1..n : \E e \in x.evs : e.seq = base + i
      /\ \A e, f \in x.evs : e.seq = f.seq => e = f
      /\ \A e \in x.evs : e.project = p
  <2>1. CASE x.lastSeq = 0
    BY <1>1, <1>2, <2>1 DEF ClaimsOK, Claimed
  <2>2. CASE x.lastSeq > 0
    <3>1. /\ base < x.lastSeq
          /\ \A i \in (base + 1)..x.lastSeq : \E e \in x.evs : e.seq = i
          /\ \A e, f \in x.evs : e.seq = f.seq => e = f
          /\ \A e \in x.evs : e.project = p
      BY <1>1, <2>2 DEF ClaimsOK
    <3>2. \A i \in 1..n : base + i \in (base + 1)..x.lastSeq
      BY <1>2, <1>4, <2>2, <3>1 DEF Claimed, First
    <3> QED
      BY <3>1, <3>2
  <2> QED
    BY <1>2, <2>1, <2>2
<1>6. /\ \A e \in x.evs : e \in events'
      /\ \A e \in events : e.project = p => e \in events'
  BY <1>3 DEF Commit
<1>7. /\ \A i \in 1..base : \E e \in events : e.project = p /\ e.seq = i
      /\ \A i \in 1..last : \E e \in events' : e.project = p /\ e.seq = i
  BY <1>3 DEF Inv, LogInvariant, GaplessLog
<1>8. events \in SUBSET Event /\ events' \in SUBSET Event
  BY DEF Inv, TypeOK
<1>9. SeqIsKey(events) /\ SeqIsKey(events')
  BY KeyKept
<1>10. log = LogIn(events, p, base) /\ more = LogIn(events', p, last)
  BY DEF LogOf, LogIn
<1>11. /\ x.project = p /\ x.out = << >> /\ base = First(x)
       /\ n = Claimed(x) /\ n = IF x.lastSeq = 0 THEN 0 ELSE x.lastSeq - base
  BY DEF First, Claimed
<1> HIDE DEF last, x, base, n
<1>12. /\ n \in Nat /\ Block(x) \in Seq(Body) /\ Len(Block(x)) = n
       /\ \A i \in 1..n : \E e \in x.evs : e.seq = base + i /\ Block(x)[i] = e.body
  BY <1>2, <1>4, <1>5, <1>11, RecordedAll
<1>13. last = base + n /\ last \in Nat
  BY <1>2, <1>4, <1>5, <1>11
<1>14. log \in Seq(Body) /\ Len(log) = base
  BY <1>4, <1>7, <1>8, <1>10, LogType
<1>15. more \in Seq(Body) /\ Len(more) = last
  BY <1>7, <1>8, <1>10, <1>13, LogType
<1>16. \A i \in 1..base : more[i] = log[i]
  <2>1. Keeps(events', events, p, base)
    BY <1>6, <1>7 DEF Keeps
  <2>2. base <= last
    BY <1>4, <1>12, <1>13
  <2> QED
    BY <1>4, <1>9, <1>10, <1>13, <2>1, <2>2, SameLog
<1>17. ASSUME NEW i \in 1..n PROVE more[base + i] = Block(x)[i]
  <2>1. PICK e \in x.evs : e.seq = base + i /\ Block(x)[i] = e.body
    BY <1>12
  <2>2. e \in events' /\ e.project = p /\ base + i \in 1..last
    BY <1>4, <1>5, <1>6, <1>12, <1>13
  <2> QED
    BY <1>9, <1>10, <1>13, <2>1, <2>2, LogAt
<1> QED
  BY <1>12, <1>13, <1>14, <1>15, <1>16, <1>17 DEF x

\* Replaying it: the view of the old log, then one view for every event of t.
LEMMA CommitViews ==
  ASSUME Inv, Inv', NEW t \in Txn, Commit(t), txn[t].out = << >>,
         NEW p \in Project, p = txn[t].project, projects'[p] # None,
         NEW b, b = Block(txn[t])
  PROVE  \E n \in Nat : \E view :
           /\ view[n] = Replay(LogOf(p))
           /\ \A i \in 1..Len(b) : view[n + i] = ApplyEvent(view[n + (i - 1)], b[i])
           /\ Replay(LogIn(events', p, projects'[p].lastSeq)) = view[n + Len(b)]
           /\ b \in Seq(Body)
<1> DEFINE log == LogOf(p)
           more == LogIn(events', p, projects'[p].lastSeq)
           view == Views(more)
           n == Len(log)
<1>1. /\ log \in Seq(Body) /\ more \in Seq(Body) /\ b \in Seq(Body)
      /\ Len(more) = n + Len(b)
      /\ \A i \in 1..n : more[i] = log[i]
      /\ \A i \in 1..Len(b) : more[n + i] = b[i]
  BY CommitBlock
<1> HIDE DEF log, more
<1>2. n \in Nat /\ Len(b) \in Nat /\ Len(more) \in Nat
  BY <1>1
<1>3. view[n] = Replay(log)
  BY <1>1, <1>2, SameViews
<1>4. ASSUME NEW i \in 1..Len(b) PROVE view[n + i] = ApplyEvent(view[n + (i - 1)], b[i])
  <2>1. n + i \in 1..Len(more) /\ (n + i) - 1 = n + (i - 1)
    BY <1>1, <1>2
  <2>2. view[n + i] = ApplyEvent(view[(n + i) - 1], more[n + i])
    BY <1>2, <2>1, ViewsStep
  <2> QED
    BY <1>1, <2>1, <2>2
<1>5. Replay(more) = view[n + Len(b)]
  BY <1>1 DEF Replay
<1>6. /\ view[n] = Replay(LogOf(p))
      /\ Replay(LogIn(events', p, projects'[p].lastSeq)) = view[n + Len(b)]
  BY <1>3, <1>5 DEF log, more
<1> HIDE DEF view, n
<1> QED
  BY <1>1, <1>2, <1>4, <1>6

-----------------------------------------------------------------------------
(* The project a commit writes to: the block turns the view of its tables    *)
(* before the commit into the view of its tables after it.                   *)

Replays(view, n, b) == \A i \in 1..Len(b) : view[n + i] = ApplyEvent(view[n + (i - 1)], b[i])

LEMMA ReplayOne ==
  ASSUME NEW view, NEW n \in Nat, NEW b, Replays(view, n, <<b>>)
  PROVE  view[n + Len(<<b>>)] = ApplyEvent(view[n], b)
<1>1. Len(<<b>>) = 1 /\ 1 \in 1..Len(<<b>>) /\ <<b>>[1] = b /\ n + (1 - 1) = n
  OBVIOUS
<1> QED
  BY <1>1 DEF Replays

LEMMA ReplayTwo ==
  ASSUME NEW view, NEW n \in Nat, NEW b, NEW c, Replays(view, n, Append(<<b>>, c))
  PROVE  view[n + Len(Append(<<b>>, c))] = ApplyEvent(ApplyEvent(view[n], b), c)
<1> DEFINE q == Append(<<b>>, c)
<1>1. /\ Len(q) = 2 /\ 1 \in 1..Len(q) /\ 2 \in 1..Len(q) /\ q[1] = b /\ q[2] = c
      /\ n + (1 - 1) = n /\ n + (2 - 1) = n + 1
  OBVIOUS
<1>2. Replays(view, n, q)
  OBVIOUS
<1> HIDE DEF q
<1>3. view[n + 1] = ApplyEvent(view[n], b) /\ view[n + 2] = ApplyEvent(view[n + 1], c)
  BY <1>1, <1>2 DEF Replays
<1> QED
  BY <1>1, <1>3 DEF q

\* What a committing transaction knows.
LEMMA CommitKnows ==
  ASSUME Inv, RowsInvariant, ReplayInvariant, NEW t \in Txn, Commit(t), NEW x, x = txn[t]
  PROVE  /\ x \in TxnState /\ x.pc = "commit" /\ x.req \in Request
         /\ RequestOK(x) /\ ShapeOK(x) /\ ClaimsOK(x)
         /\ WritesOK(x) /\ DeletesOK(x) /\ ReadsOK(x)
         /\ RecordsOK(x) /\ ChangesOK(x) /\ KnowsOK(x)
         /\ Ending(x) /\ Says(x, Block(x)) /\ x.out = << >> /\ Adding(x) = x.addDeps
<1>1. /\ x \in TxnState /\ x.pc = "commit" /\ x.req \in Request
      /\ RequestOK(x) /\ ShapeOK(x) /\ ClaimsOK(x)
      /\ WritesOK(x) /\ DeletesOK(x) /\ ReadsOK(x)
  BY AtRows, AtFacts DEF Commit
<1>2. RecordsOK(x) /\ ChangesOK(x) /\ KnowsOK(x)
  BY <1>1 DEF ReplayInvariant
<1>3. Ending(x)
  BY <1>1 DEF Ending
<1>4. Says(x, Block(x)) /\ x.out = << >> /\ x.pending = << >>
  BY <1>1, <1>2, <1>3 DEF RecordsOK
<1>5. Adding(x) = x.addDeps
  BY <1>4 DEF Adding, ToSet
<1> QED
  BY <1>1, <1>2, <1>3, <1>4, <1>5

\* The tables s before t's commit and s2 after it, as far as p's events speak
\* of them.
Writes(t, p, s, s2) ==
  LET x == txn[t] IN
  /\ s = Tables(p)
  /\ s2.tasks = [k \in Task |-> TaskSeen(t, k)]
  /\ s2.deps = (deps \ x.del) \cup x.addDeps
  /\ s2.comments = [c \in Comment |-> CommentAfter(t, c)]
  /\ s2.used = used \cup ToSet(x.fresh) \cup ({x.comment} \ {None})
  /\ s2.name = IF p = x.project /\ x.req.kind = "UpdateProject" /\ x.lastSeq > 0
               THEN x.req.name ELSE projects[p].name

\* What every transaction's commit can rely on in the tables.
LEMMA TablesOK ==
  ASSUME Inv, RowsInvariant, ReplayInvariant, NEW p \in Project, NEW s, s = Tables(p)
  PROVE  /\ s.tasks = tasks /\ s.deps = deps /\ s.comments = comments /\ s.used = used
         /\ s.name = projects[p].name
         /\ tasks \in [Task -> TaskRow \cup {None}] /\ deps \subseteq Edge
         /\ comments \in [Comment -> Task \cup {None}]
         /\ \A k \in Task : tasks[k] # None => k \in used
         /\ \A c \in Comment : comments[c] # None => c \in used /\ comments[c] \in used
         /\ \A e \in deps : /\ e[1] \in Task /\ e[2] \in Task
                            /\ e[1] \in used /\ e[2] \in used
                            /\ \A q : e[1] \in Live(s, q) <=> e[2] \in Live(s, q)
         /\ \A q : \A k : k \in Live(s, q) <=> k \in Task /\ tasks[k] # None
                                               /\ tasks[k].project = q
<1>1. /\ s.tasks = tasks /\ s.deps = deps /\ s.comments = comments /\ s.used = used
      /\ s.name = projects[p].name
  BY DEF Tables
<1>2. /\ tasks \in [Task -> TaskRow \cup {None}] /\ deps \subseteq Edge
      /\ comments \in [Comment -> Task \cup {None}]
  BY DEF Inv, TypeOK
<1>3. \A q : \A k : k \in Live(s, q) <=> k \in Task /\ tasks[k] # None
                                         /\ tasks[k].project = q
  BY <1>1 DEF Live
<1>4. \A k \in Task : tasks[k] # None => k \in used
  BY DEF RowsInvariant, IdsUsedOnce
<1>5. \A c \in Comment : comments[c] # None => c \in used /\ comments[c] \in used
  BY DEF ReplayInvariant, CommentIdsUsedOnce
<1>6. ASSUME NEW e \in deps
      PROVE  /\ e[1] \in Task /\ e[2] \in Task /\ e[1] \in used /\ e[2] \in used
             /\ \A q : e[1] \in Live(s, q) <=> e[2] \in Live(s, q)
  <2>1. e[1] \in Task /\ e[2] \in Task
    BY <1>2 DEF Edge
  <2>2. /\ tasks[e[1]] # None /\ tasks[e[2]] # None
        /\ tasks[e[1]].project = tasks[e[2]].project
    BY DEF RowsInvariant, DependenciesWithinProject
  <2> QED
    BY <1>3, <1>4, <2>1, <2>2
<1> QED
  BY <1>1, <1>2, <1>3, <1>4, <1>5, <1>6

LEMMA CreateTaskShown ==
  ASSUME Inv, RowsInvariant, ReplayInvariant, NEW t \in Txn, Commit(t),
         txn[t].req.kind = "CreateTask", NEW p \in Project, p = txn[t].project,
         NEW s, NEW s2, Writes(t, p, s, s2), NEW b, b = Block(txn[t]),
         NEW n \in Nat, NEW view, Replays(view, n, b), Shows(view[n], p, s)
  PROVE  Shows(view[n + Len(b)], p, s2)
<1>1. PICK x : x = txn[t]
  OBVIOUS
<1> DEFINE r == x.req
           k == x.fresh[1]
           row == CreatedRow(r)
           ds == ToSet(r.deps)
           e == [type |-> "task.created", task |-> k, row |-> row, deps |-> ds]
           v == view[n]
           w == ApplyEvent(v, e)
           puts == [j \in Task |-> IF j = k THEN row ELSE None]
           add == {k} \X ds
<1>2. /\ x \in TxnState /\ r \in Request /\ r.kind = "CreateTask"
      /\ RequestOK(x) /\ ShapeOK(x) /\ WritesOK(x) /\ DeletesOK(x) /\ ChangesOK(x)
      /\ Ending(x) /\ Says(x, b) /\ Adding(x) = x.addDeps
  BY <1>1, CommitKnows
<1>3. /\ r.project \in Project /\ r.title \in Text /\ r.status \in Status /\ ds \subseteq Task
  BY <1>2, RequestFields, ToSetType
<1>4. b = <<e>>
  BY <1>2 DEF Says
<1>5. /\ x.project = r.project /\ x.puts = puts /\ x.del = {} /\ x.addDeps = add
  BY <1>2 DEF ChangesOK
<1>6. row \in TaskRow /\ row.project = p
  BY <1>1, <1>3, <1>5 DEF CreatedRow, TaskRow
<1>7. k \in Task /\ k \in ToSet(x.fresh) /\ ToSet(x.fresh) = {k}
  <2>1. x.fresh \in Seq(Task) /\ Len(x.fresh) = 1
    BY <1>2 DEF TxnState, RequestOK
  <2> QED
    BY <2>1 DEF ToSet
<1>8. k \notin used
  BY <1>1, <1>7 DEF RowsInvariant, IdsUsedOnce
<1>9. x.comment = None
  BY <1>2 DEF ShapeOK
<1>10. view[n + Len(b)] = w
  BY <1>4, ReplayOne
<1>11. row # None
  BY <1>6, NoneAssumption DEF TaskRow
<1>12. \A j \in Task : puts[j] = IF j = k THEN row ELSE None
  OBVIOUS
<1>13. e = [type |-> "task.created", task |-> k, row |-> row, deps |-> ds]
  OBVIOUS
<1> HIDE DEF e, row, k, puts, w, v
<1>14. /\ s.tasks = tasks /\ s.deps = deps /\ s.comments = comments /\ s.used = used
       /\ s.name = projects[p].name
       /\ \A j \in Task : tasks[j] # None => j \in used
       /\ \A c \in Comment : comments[c] # None => comments[c] \in used
       /\ \A f \in deps : f[1] \in used
       /\ \A j : j \in Live(s, p) <=> j \in Task /\ tasks[j] # None /\ tasks[j].project = p
       /\ comments \in [Comment -> Task \cup {None}]
  BY TablesOK DEF Writes
<1>15. Shows(v, p, s)
  BY DEF v
<1>16. v \in View /\ v.tasks[k] = None
  BY <1>7, <1>8, <1>14, <1>15 DEF Shows
<1>17. /\ w \in View /\ w.name = v.name /\ w.comments = v.comments
       /\ \A j \in Task : w.tasks[j] = IF j = k THEN row ELSE v.tasks[j]
       /\ w.deps = v.deps \cup add
  BY <1>3, <1>6, <1>7, <1>13, <1>16, CreatedView DEF w
<1>18. /\ s2.name = s.name /\ s2.used = s.used \cup {k}
       /\ s2.deps = s.deps \cup add
       /\ \A j \in Task : s2.tasks[j] = IF j = k THEN row ELSE s.tasks[j]
  BY <1>1, <1>2, <1>5, <1>7, <1>9, <1>11, <1>12, <1>14 DEF Writes, TaskSeen
<1>19. s2.comments = s.comments
  BY <1>1, <1>5, <1>9, <1>14, NoneAssumption DEF Writes, CommentAfter
<1>20. ASSUME NEW f \in add PROVE f[1] = k /\ f[2] \in {k} \cup Live(s, p)
  <2>1. f[1] = k /\ f[2] \in Task /\ Linked(x, f[2])
    BY <1>2, <1>3, <1>5 DEF WritesOK
  <2> QED
    BY <1>1, <1>5, <1>12, <1>14, <2>1 DEF Linked
<1>21. add \in SUBSET Edge
  BY <1>3, <1>7 DEF Edge
<1> HIDE DEF add
<1>22. Shows(w, p, s2)
  <2> DEFINE new == {k}
             rows == [j \in {k} |-> row]
  <2>1. \A j : j \in new <=> j = k
    OBVIOUS
  <2>2. \A j \in new : rows[j] = row
    OBVIOUS
  <2> HIDE DEF new, rows
  <2>3. Grows(s, s2, p, new, rows, add)
    BY <1>6, <1>7, <1>8, <1>14, <1>18, <1>19, <1>20, <1>21, <2>1, <2>2,
       NoneAssumption DEF Grows
  <2>4. GrownTo(w, v, new, rows, add)
    BY <1>17, <2>1, <2>2 DEF GrownTo
  <2> QED
    BY <1>15, <2>3, <2>4, GrownShown
<1> QED
  BY <1>10, <1>22

LEMMA UpdateTaskShown ==
  ASSUME Inv, RowsInvariant, ReplayInvariant, NEW t \in Txn, Commit(t),
         txn[t].req.kind = "UpdateTask", NEW p \in Project, p = txn[t].project,
         NEW s, NEW s2, Writes(t, p, s, s2), NEW b, b = Block(txn[t]),
         NEW n \in Nat, NEW view, Replays(view, n, b), Shows(view[n], p, s)
  PROVE  Shows(view[n + Len(b)], p, s2)
<1>1. PICK x : x = txn[t]
  OBVIOUS
<1> DEFINE r == x.req
           k == r.task
           ds == ToSet(r.deps)
           row == PatchedRow(r, tasks[k])
           e == [type |-> "task.updated", task |-> k, title |-> r.title, status |-> r.status]
           f == [type |-> "task.dependencies_changed", task |-> k, dependsOn |-> ds]
           first == IF r.title = None /\ r.status = None THEN << >> ELSE <<e>>
           s1 == [name |-> s.name, tasks |-> s2.tasks, deps |-> s.deps,
                  comments |-> s.comments, used |-> s.used]
           v == view[n]
<1>2. /\ x \in TxnState /\ r \in Request /\ r.kind = "UpdateTask" /\ x.pc = "commit"
      /\ ShapeOK(x) /\ WritesOK(x) /\ ReadsOK(x) /\ ChangesOK(x)
      /\ Ending(x) /\ Says(x, b) /\ Adding(x) = x.addDeps
  BY <1>1, CommitKnows
<1>3. /\ k \in Task /\ r.title \in Text \cup {None} /\ r.status \in Status \cup {None}
      /\ r.deps \in Seq(Task) \cup {None}
  BY <1>2, RequestFields
<1>4. b = IF r.deps = None THEN first ELSE Append(first, f)
  BY <1>2 DEF Says
<1>5. \A j \in Task : x.puts[j] = IF j = k THEN row ELSE None
  BY <1>2 DEF ChangesOK
<1>6. tasks[k] # None /\ tasks[k].project = p
  BY <1>1, <1>2 DEF ReadsOK
<1>7. /\ s.tasks = tasks /\ s.deps = deps /\ s.comments = comments /\ s.used = used
      /\ s.name = projects[p].name
      /\ tasks \in [Task -> TaskRow \cup {None}] /\ deps \subseteq Edge
      /\ \A j \in Task : tasks[j] # None => j \in used
      /\ \A j : j \in Live(s, p) <=> j \in Task /\ tasks[j] # None /\ tasks[j].project = p
      /\ comments \in [Comment -> Task \cup {None}]
  BY TablesOK DEF Writes
<1>8. x.del \subseteq Edge /\ x.comment = None
  BY <1>2 DEF ShapeOK, ChangesOK
<1>9. row \in TaskRow /\ row # None
  BY <1>3, <1>6, <1>7, NoneAssumption DEF PatchedRow, Patched, TaskRow
<1>10. \A j \in Task : s2.tasks[j] = IF j = k THEN row ELSE s.tasks[j]
  <2>1. \A j \in Task : j \notin x.del
    BY <1>8, IdAssumption DEF Edge
  <2> HIDE DEF row
  <2> QED
    BY <1>1, <1>5, <1>7, <1>9, <2>1 DEF Writes, TaskSeen
<1>11. /\ s2.comments = s.comments /\ s2.name = s.name /\ s.used \subseteq s2.used
       /\ s2.deps = (deps \ x.del) \cup x.addDeps
       /\ s2.tasks = [j \in Task |-> s2.tasks[j]]
  <2>1. \A c \in Comment : c \notin x.del /\ c # x.comment
    BY <1>8, IdAssumption, NoneAssumption DEF Edge
  <2> QED
    BY <1>1, <1>2, <1>7, <2>1 DEF Writes, CommentAfter
<1>12. k \in Live(s, p) /\ Shows(v, p, s)
  BY <1>3, <1>6, <1>7
<1>13. Live(s1, p) = Live(s, p) /\ s1.used = s.used /\ s1.deps = s.deps
       /\ s1.tasks = s2.tasks /\ s1.name = s.name /\ s1.comments = s.comments
  <2>1. row.project = p
    BY <1>6 DEF PatchedRow
  <2> HIDE DEF row
  <2> QED
    BY <1>3, <1>6, <1>7, <1>9, <1>10, <2>1 DEF Live
<1>14. k = r.task /\ PatchedRow(r, tasks[k]) = row
  OBVIOUS
<1> HIDE DEF row, s1, k, v
<1>15. r.title = None /\ r.status = None => Shows(v, p, s1)
  <2> SUFFICES ASSUME r.title = None, r.status = None PROVE Shows(v, p, s1)
    OBVIOUS
  <2>1. row = tasks[k]
    BY <1>3, <1>6, <1>7, <1>14 DEF PatchedRow, Patched, TaskRow
  <2>2. \A j \in Task : s1.tasks[j] = s.tasks[j]
    BY <1>7, <1>10, <1>13, <2>1
  <2>3. SameBoard(s, s1, p)
    BY <1>7, <1>13, <2>2, NoneAssumption DEF SameBoard, Live
  <2> QED
    BY <1>7, <1>12, <1>13, <2>3, SameBoardShown
<1>16. r.title # None \/ r.status # None => Shows(ApplyEvent(v, e), p, s1)
  <2>1. \A j \in Task : s1.tasks[j] = IF j = k THEN PatchedRow(e, s.tasks[k]) ELSE s.tasks[j]
    BY <1>7, <1>10, <1>13, <1>14 DEF PatchedRow
  <2>2. /\ e.type = "task.updated" /\ e.task = k
        /\ e.title \in Text \cup {None} /\ e.status \in Status \cup {None}
    BY <1>3
  <2>3. s.tasks \in [Task -> TaskRow \cup {None}]
    BY <1>7
  <2> HIDE DEF e
  <2> QED
    BY <1>12, <1>13, <2>1, <2>2, <2>3, UpdatedShown
<1>17. ASSUME NEW u, Shows(u, p, s1), r.deps # None PROVE Shows(ApplyEvent(u, f), p, s2)
  <2>1. /\ x.addDeps = {k} \X ds /\ x.del \subseteq {g \in Edge : g[1] = k}
        /\ {g \in deps : g[1] = k} \subseteq x.del
    BY <1>2, <1>17 DEF ChangesOK, k
  <2>2. ds \subseteq Task
    BY <1>3, <1>17, ToSetType
  <2>3. ASSUME NEW d \in ds PROVE d \in Live(s, p)
    <3>1. <<k, d>> \in x.addDeps
      BY <2>1
    <3>2. Linked(x, d)
      BY <1>2, <3>1 DEF WritesOK
    <3> QED
      BY <1>1, <1>3, <1>5, <1>6, <1>7, <2>2, <3>2 DEF Linked
  <2>4. \A d \in ds : d \in s2.used /\ d \in Live(s1, p)
    BY <1>7, <1>11, <1>13, <2>3
  <2>5. \A g \in Edge : g[1] # k => (g \in s2.deps <=> g \in s1.deps)
    BY <1>7, <1>11, <1>13, <2>1
  <2>6. \A g \in s2.deps : g[1] = k => g[2] \in ds
    BY <1>11, <2>1
  <2>7. \A d \in ds : <<k, d>> \in s2.deps
    BY <1>11, <2>1
  <2>8. s2.deps \subseteq Edge
    BY <1>2, <1>7, <1>11 DEF TxnState
  <2>9. f = [type |-> "task.dependencies_changed", task |-> k, dependsOn |-> ds]
    OBVIOUS
  <2> HIDE DEF ds, f
  <2> QED
    BY <1>11, <1>12, <1>13, <1>17, <2>2, <2>4, <2>5, <2>6, <2>7, <2>8, <2>9, ChangedShown
<1>18. r.deps = None => \A u : Shows(u, p, s1) => Shows(u, p, s2)
  <2> SUFFICES ASSUME r.deps = None, NEW u, Shows(u, p, s1) PROVE Shows(u, p, s2)
    OBVIOUS
  <2>1. s2.deps = s1.deps
    BY <1>2, <1>11, <1>13, <1>7 DEF ChangesOK
  <2>2. Live(s2, p) = Live(s1, p)
    BY <1>13 DEF Live
  <2>3. SameBoard(s1, s2, p)
    BY <1>11, <1>13, <2>1, <2>2 DEF SameBoard
  <2> QED
    BY <1>7, <1>13, <2>1, <2>3, SameBoardShown
<1>19. CASE r.title = None /\ r.status = None /\ r.deps = None
  <2>1. b = << >>
    BY <1>4, <1>19
  <2>2. view[n + Len(b)] = v
    BY <2>1 DEF v
  <2> QED
    BY <1>15, <1>18, <1>19, <2>2
<1>20. CASE (r.title # None \/ r.status # None) /\ r.deps = None
  <2>1. b = <<e>>
    BY <1>4, <1>20
  <2> HIDE DEF e
  <2>2. view[n + Len(b)] = ApplyEvent(v, e)
    BY <2>1, ReplayOne DEF v
  <2> QED
    BY <1>16, <1>18, <1>20, <2>2
<1>21. CASE r.title = None /\ r.status = None /\ r.deps # None
  <2>1. b = <<f>>
    BY <1>4, <1>21
  <2> HIDE DEF f
  <2>2. view[n + Len(b)] = ApplyEvent(v, f)
    BY <2>1, ReplayOne DEF v
  <2> QED
    BY <1>15, <1>17, <1>21, <2>2
<1>22. CASE (r.title # None \/ r.status # None) /\ r.deps # None
  <2> HIDE DEF e, f
  <2>1. b = Append(<<e>>, f)
    BY <1>4, <1>22
  <2>2. view[n + Len(b)] = ApplyEvent(ApplyEvent(v, e), f)
    BY <2>1, ReplayTwo DEF v
  <2> QED
    BY <1>16, <1>17, <1>22, <2>2
<1> QED
  BY <1>19, <1>20, <1>21, <1>22

LEMMA DeleteTaskShown ==
  ASSUME Inv, RowsInvariant, ReplayInvariant, NEW t \in Txn, Commit(t),
         txn[t].req.kind = "DeleteTask", NEW p \in Project, p = txn[t].project,
         NEW s, NEW s2, Writes(t, p, s, s2), NEW b, b = Block(txn[t]),
         NEW n \in Nat, NEW view, Replays(view, n, b), Shows(view[n], p, s)
  PROVE  Shows(view[n + Len(b)], p, s2)
<1>1. PICK x : x = txn[t]
  OBVIOUS
<1> DEFINE k == x.req.task
           read == x.read
           e == [type |-> "task.deleted", task |-> k, removedFromDependenciesOf |-> read]
           v == view[n]
<1>2. /\ x \in TxnState /\ x.req \in Request /\ x.req.kind = "DeleteTask" /\ x.pc = "commit"
      /\ ShapeOK(x) /\ DeletesOK(x) /\ ReadsOK(x) /\ ChangesOK(x) /\ KnowsOK(x)
      /\ Ending(x) /\ Says(x, b)
  BY <1>1, CommitKnows
<1>3. k \in Task /\ tasks[k] # None /\ tasks[k].project = p /\ read \in SUBSET Task
  BY <1>1, <1>2, RequestFields DEF ReadsOK, TxnState
<1>4. /\ s.tasks = tasks /\ s.deps = deps /\ s.comments = comments /\ s.used = used
      /\ s.name = projects[p].name /\ deps \subseteq Edge
      /\ \A j : j \in Live(s, p) <=> j \in Task /\ tasks[j] # None /\ tasks[j].project = p
      /\ comments \in [Comment -> Task \cup {None}]
  BY TablesOK DEF Writes
<1>5. Shows(v, p, s) /\ k \in Live(s, p)
  BY <1>3, <1>4
<1>6. /\ Task \cap x.del = {k} /\ x.addDeps = {} /\ x.comment = None
      /\ \A j \in Task : x.puts[j] = None
  BY <1>2 DEF ShapeOK, DeletesOK, ChangesOK
<1>7. \A j \in Task : s2.tasks[j] = IF j = k THEN None ELSE s.tasks[j]
  BY <1>1, <1>3, <1>4, <1>6 DEF Writes, TaskSeen
<1>8. ASSUME NEW g \in Edge PROVE g \in s2.deps <=> g \in s.deps /\ k \notin {g[1], g[2]}
  <2>1. g \in deps /\ k \in {g[1], g[2]} => g \in x.del
    BY <1>2, <1>3, <1>6 DEF DeletesOK
  <2>2. g \in x.del => k \in {g[1], g[2]}
    BY <1>2 DEF ChangesOK
  <2>3. g \in s2.deps <=> g \in deps /\ g \notin x.del
    BY <1>1, <1>6 DEF Writes
  <2> QED
    BY <1>4, <2>1, <2>2, <2>3
<1>9. ASSUME NEW c \in Comment
      PROVE  \/ s2.comments[c] = s.comments[c]
             \/ s.comments[c] = k /\ s2.comments[c] = None
  <2>1. s2.comments[c] = IF c \in x.del THEN None ELSE comments[c]
    BY <1>1, <1>6, NoneAssumption DEF Writes, CommentAfter
  <2>2. c \in x.del => comments[c] \in x.del \cup {None}
    BY <1>2 DEF ChangesOK
  <2> QED
    BY <1>4, <1>6, <2>1, <2>2
<1>10. /\ s2.name = s.name /\ s.used \subseteq s2.used /\ s2.deps \subseteq Edge
  BY <1>1, <1>2, <1>4, <1>6 DEF Writes
<1>11. \A g \in s.deps : g[2] = k => g[1] \in read
  BY <1>2, <1>4 DEF KnowsOK, Dependents
<1>12. b = <<e>> /\ e = [type |-> "task.deleted", task |-> k,
                         removedFromDependenciesOf |-> read]
  BY <1>2 DEF Says
<1> HIDE DEF e, k, v, read
<1>13. view[n + Len(b)] = ApplyEvent(v, e)
  BY <1>12, ReplayOne DEF v
<1>14. Shows(ApplyEvent(v, e), p, s2)
  BY <1>3, <1>5, <1>7, <1>8, <1>9, <1>10, <1>11, <1>12, DeletedShown
<1> QED
  BY <1>13, <1>14

LEMMA CreateCommentShown ==
  ASSUME Inv, RowsInvariant, ReplayInvariant, NEW t \in Txn, Commit(t),
         txn[t].req.kind = "CreateComment", NEW p \in Project, p = txn[t].project,
         NEW s, NEW s2, Writes(t, p, s, s2), NEW b, b = Block(txn[t]),
         NEW n \in Nat, NEW view, Replays(view, n, b), Shows(view[n], p, s)
  PROVE  Shows(view[n + Len(b)], p, s2)
<1>1. PICK x : x = txn[t]
  OBVIOUS
<1> DEFINE k == x.req.task
           c == x.comment
           e == [type |-> "comment.added", comment |-> c, task |-> k]
           v == view[n]
<1>2. /\ x \in TxnState /\ x.req \in Request /\ x.req.kind = "CreateComment"
      /\ RequestOK(x) /\ ChangesOK(x) /\ Ending(x) /\ Says(x, b)
      /\ Adding(x) = x.addDeps
  BY <1>1, CommitKnows
<1>3. k \in Task /\ c \in Comment
  BY <1>2, RequestFields DEF RequestOK
<1>4. /\ s.tasks = tasks /\ s.deps = deps /\ s.comments = comments /\ s.used = used
      /\ s.name = projects[p].name /\ tasks \in [Task -> TaskRow \cup {None}]
      /\ \A j : j \in Live(s, p) <=> j \in Task /\ tasks[j] # None /\ tasks[j].project = p
      /\ comments \in [Comment -> Task \cup {None}]
  BY TablesOK DEF Writes
<1>5. /\ x.addDeps = {} /\ x.del = {} /\ Linked(x, k)
      /\ \A j \in Task : x.puts[j] = None
  BY <1>2 DEF ChangesOK
<1>6. k \in Live(s, p) /\ Shows(v, p, s)
  BY <1>1, <1>3, <1>4, <1>5 DEF Linked
<1>7. s2.tasks = s.tasks
  <2>1. \A j \in Task : TaskSeen(t, j) = tasks[j]
    BY <1>1, <1>5 DEF TaskSeen
  <2> QED
    BY <1>4, <2>1 DEF Writes
<1>8. s2.name = s.name /\ s.used \subseteq s2.used /\ s2.deps = s.deps
  BY <1>1, <1>2, <1>4, <1>5 DEF Writes
<1>9. \A d \in Comment : s2.comments[d] = IF d = c THEN k ELSE s.comments[d]
  BY <1>1, <1>4, <1>5 DEF Writes, CommentAfter
<1>10. b = <<e>> /\ e = [type |-> "comment.added", comment |-> c, task |-> k]
  BY <1>2 DEF Says
<1> HIDE DEF e, k, c, v
<1>11. view[n + Len(b)] = ApplyEvent(v, e)
  BY <1>10, ReplayOne DEF v
<1>12. Shows(ApplyEvent(v, e), p, s2)
  BY <1>3, <1>6, <1>7, <1>8, <1>9, <1>10, CommentShown
<1> QED
  BY <1>11, <1>12

LEMMA DeleteCommentShown ==
  ASSUME Inv, RowsInvariant, ReplayInvariant, NEW t \in Txn, Commit(t),
         txn[t].req.kind = "DeleteComment", NEW p \in Project, p = txn[t].project,
         NEW s, NEW s2, Writes(t, p, s, s2), NEW b, b = Block(txn[t]),
         NEW n \in Nat, NEW view, Replays(view, n, b), Shows(view[n], p, s)
  PROVE  Shows(view[n + Len(b)], p, s2)
<1>1. PICK x : x = txn[t]
  OBVIOUS
<1> DEFINE c == x.req.comment
           v == view[n]
<1>2. /\ x \in TxnState /\ x.req \in Request /\ x.req.kind = "DeleteComment"
      /\ ShapeOK(x) /\ ChangesOK(x) /\ Ending(x) /\ Says(x, b) /\ Adding(x) = x.addDeps
  BY <1>1, CommitKnows
<1>3. c \in Comment
  BY <1>2, RequestFields
<1>4. /\ s.tasks = tasks /\ s.deps = deps /\ s.comments = comments /\ s.used = used
      /\ s.name = projects[p].name /\ tasks \in [Task -> TaskRow \cup {None}]
      /\ deps \subseteq Edge /\ comments \in [Comment -> Task \cup {None}]
  BY TablesOK DEF Writes
<1>5. /\ x.addDeps = {} /\ x.del = {c} /\ x.comment = None
      /\ \A j \in Task : x.puts[j] = None
  BY <1>2 DEF ChangesOK, ShapeOK
<1>6. s2.tasks = s.tasks
  <2>1. \A j \in Task : TaskSeen(t, j) = tasks[j]
    BY <1>1, <1>3, <1>5, IdAssumption DEF TaskSeen
  <2> QED
    BY <1>4, <2>1 DEF Writes
<1>7. s2.name = s.name /\ s.used \subseteq s2.used
  BY <1>1, <1>2, <1>4 DEF Writes
<1>8. s2.deps = s.deps
  <2>1. c \notin deps
    BY <1>3, <1>4, IdAssumption DEF Edge
  <2> QED
    BY <1>1, <1>4, <1>5, <2>1 DEF Writes
<1>9. \A d \in Comment : s2.comments[d] = IF d = c THEN None ELSE s.comments[d]
  BY <1>1, <1>4, <1>5, NoneAssumption DEF Writes, CommentAfter
<1>10. PICK k \in Task : b = <<[type |-> "comment.deleted", comment |-> c, task |-> k]>>
  BY <1>2 DEF Says
<1> DEFINE e == [type |-> "comment.deleted", comment |-> c, task |-> k]
<1>11. b = <<e>> /\ e = [type |-> "comment.deleted", comment |-> c, task |-> k]
  BY <1>10
<1>12. Shows(v, p, s)
  OBVIOUS
<1> HIDE DEF e, c, v
<1>13. view[n + Len(b)] = ApplyEvent(v, e)
  BY <1>11, ReplayOne DEF v
<1>14. Shows(ApplyEvent(v, e), p, s2)
  BY <1>3, <1>6, <1>7, <1>8, <1>9, <1>11, <1>12, CommentShown
<1> QED
  BY <1>13, <1>14

LEMMA UpdateProjectShown ==
  ASSUME Inv, RowsInvariant, ReplayInvariant, NEW t \in Txn, Commit(t),
         txn[t].req.kind = "UpdateProject", NEW p \in Project, p = txn[t].project,
         projects[p] # None, NEW s, NEW s2, Writes(t, p, s, s2), NEW b, b = Block(txn[t]),
         NEW n \in Nat, NEW view, Replays(view, n, b), Shows(view[n], p, s)
  PROVE  Shows(view[n + Len(b)], p, s2)
<1>1. PICK x : x = txn[t]
  OBVIOUS
<1> DEFINE name == x.req.name
           e == [type |-> "project.updated", name |-> name]
           v == view[n]
<1>2. /\ x \in TxnState /\ x.req \in Request /\ x.req.kind = "UpdateProject"
      /\ RequestOK(x) /\ ShapeOK(x) /\ ClaimsOK(x) /\ ChangesOK(x) /\ Ending(x)
      /\ Says(x, b) /\ x.out = << >> /\ Adding(x) = x.addDeps
  BY <1>1, CommitKnows
<1>3. /\ s.tasks = tasks /\ s.deps = deps /\ s.comments = comments /\ s.used = used
      /\ s.name = projects[p].name /\ tasks \in [Task -> TaskRow \cup {None}]
      /\ comments \in [Comment -> Task \cup {None}]
  BY TablesOK DEF Writes
<1>4. /\ x.addDeps = {} /\ x.del = {} /\ x.comment = None
      /\ \A j \in Task : x.puts[j] = None
  BY <1>2 DEF ChangesOK, ShapeOK
<1>5. s2.tasks = s.tasks
  <2>1. \A j \in Task : TaskSeen(t, j) = tasks[j]
    BY <1>1, <1>4 DEF TaskSeen
  <2> QED
    BY <1>3, <2>1 DEF Writes
<1>6. s.used \subseteq s2.used /\ s2.deps = s.deps
  BY <1>1, <1>3, <1>4 DEF Writes
<1>7. s2.comments = s.comments
  <2>1. \A d \in Comment : CommentAfter(t, d) = comments[d]
    BY <1>1, <1>4, NoneAssumption DEF CommentAfter
  <2> QED
    BY <1>3, <2>1 DEF Writes
<1>8. Len(b) \in Nat /\ Len(b) = Claimed(x)
  <2>1. First(x) \in Nat
    BY <1>1, <1>2 DEF Inv, TypeOK, ProjectRow, First
  <2>2. /\ x.evs \subseteq Event /\ x.lastSeq \in Nat
        /\ x.lastSeq > 0 => First(x) < x.lastSeq
        /\ x.lastSeq > 0 =>
             \A i \in (First(x) + 1)..x.lastSeq : \E f \in x.evs : f.seq = i
    BY <1>2 DEF TxnState, ClaimsOK, First
  <2>3. ASSUME NEW i \in 1..Claimed(x) PROVE \E f \in x.evs : f.seq = First(x) + i
    <3>1. x.lastSeq > 0 /\ First(x) + i \in (First(x) + 1)..x.lastSeq
      BY <2>1, <2>2 DEF Claimed
    <3> QED
      BY <2>2, <3>1
  <2> QED
    BY <1>1, <1>2, <2>1, <2>2, <2>3, RecordedAll
<1>9. x.lastSeq > 0 <=> b # << >>
  <2>1. x.lastSeq \in Nat /\ First(x) \in Nat /\ (x.lastSeq > 0 => First(x) < x.lastSeq)
    BY <1>1, <1>2 DEF TxnState, ClaimsOK, First, Inv, TypeOK, ProjectRow
  <2>2. x.lastSeq > 0 <=> Len(b) # 0
    BY <1>8, <2>1 DEF Claimed
  <2>3. b = << >> \/ Len(b) = 1
    BY <1>2 DEF Says
  <2> QED
    BY <2>2, <2>3
<1>10. CASE name = None
  <2>1. b = << >>
    BY <1>2, <1>10 DEF Says
  <2>2. s2.name = s.name
    BY <1>1, <1>3, <1>9, <2>1 DEF Writes
  <2>3. Live(s2, p) = Live(s, p)
    BY <1>5 DEF Live
  <2>4. SameBoard(s, s2, p)
    BY <1>3, <1>5, <1>6, <1>7, <2>2, <2>3 DEF SameBoard
  <2>5. s2.deps \subseteq Edge
    BY <1>3, <1>6 DEF Inv, TypeOK
  <2>6. view[n + Len(b)] = view[n]
    BY <2>1
  <2> QED
    BY <2>4, <2>5, <2>6, SameBoardShown
<1>11. CASE name # None
  <2>1. b = <<e>> /\ e = [type |-> "project.updated", name |-> name]
    BY <1>2, <1>11 DEF Says
  <2>2. name \in Text
    BY <1>2, <1>11, RequestFields
  <2>3. s2.name = name
    BY <1>1, <1>2, <1>9, <2>1 DEF Writes
  <2>4. Shows(v, p, s)
    OBVIOUS
  <2> HIDE DEF e, name, v
  <2>5. view[n + Len(b)] = ApplyEvent(v, e)
    BY <2>1, ReplayOne DEF v
  <2>6. Shows(ApplyEvent(v, e), p, s2)
    BY <1>5, <1>6, <1>7, <2>1, <2>2, <2>3, <2>4, RenamedShown
  <2> QED
    BY <2>5, <2>6
<1> QED
  BY <1>10, <1>11

\* What a breakdown writes: its tasks, each once, and the edges among them.
LEMMA BatchWrites ==
  ASSUME NEW x, x \in TxnState, x.req \in Request, x.req.kind = "CreateTaskBatch",
         x.project \in Project, RequestOK(x),
         \A i, j \in DOMAIN x.fresh : x.fresh[i] = x.fresh[j] => i = j
  PROVE  /\ Len(x.fresh) \in Nat /\ DOMAIN x.fresh = 1..Len(x.fresh)
         /\ \A i \in 1..Len(x.fresh) :
              /\ x.fresh[i] \in Task /\ x.fresh[i] \in ToSet(x.fresh)
              /\ BatchPuts(x)[x.fresh[i]] = BatchRow(x, i)
              /\ BatchRow(x, i) \in TaskRow /\ BatchRow(x, i).project = x.project
              /\ BatchDeps(x, i) \in SUBSET ToSet(x.fresh)
         /\ \A k \in Task : BatchPuts(x)[k] # None <=> k \in ToSet(x.fresh)
         /\ \A k \in ToSet(x.fresh) : /\ k \in Task /\ BatchPuts(x)[k] \in TaskRow
                                      /\ BatchPuts(x)[k].project = x.project
         /\ \A e : e \in BatchEdges(x) <=>
                     \E i \in 1..Len(x.fresh) : e \in {x.fresh[i]} \X BatchDeps(x, i)
         /\ BatchEnds(x) \subseteq ToSet(x.fresh)
<1> DEFINE ids == x.fresh
           n == Len(ids)
           subs == x.req.subs
<1>1. /\ ids \in Seq(Task) /\ n \in Nat /\ DOMAIN ids = 1..n /\ n = Len(subs)
      /\ subs \in Seq([title : Text, dependsOn : SUBSET Nat])
      /\ \A i \in 1..n : subs[i].dependsOn \subseteq 1..n
  <2>1. subs \in Seq([title : Text, dependsOn : SUBSET Nat])
    BY RequestFields
  <2>2. ids \in Seq(Task)
    BY DEF TxnState
  <2>3. n = Len(subs) /\ \A i \in 1..Len(subs) : subs[i].dependsOn \subseteq 1..Len(subs)
    BY DEF RequestOK
  <2> HIDE DEF subs, ids
  <2> QED
    BY <2>1, <2>2, <2>3
<1>2. \A k : k \in ToSet(ids) <=> \E i \in 1..n : k = ids[i]
  BY <1>1 DEF ToSet
<1>3. ASSUME NEW i \in 1..n
      PROVE  /\ ids[i] \in Task /\ ids[i] \in ToSet(ids)
             /\ BatchPuts(x)[ids[i]] = BatchRow(x, i)
             /\ BatchRow(x, i) \in TaskRow /\ BatchRow(x, i).project = x.project
             /\ BatchDeps(x, i) \in SUBSET ToSet(ids)
  <2>1. ids[i] \in Task /\ ids[i] \in ToSet(ids)
    BY <1>1, <1>2
  <2>2. \A j \in DOMAIN ids : ids[j] = ids[i] => j = i
    BY <1>1
  <2>3. (CHOOSE j \in DOMAIN ids : ids[j] = ids[i]) = i
    BY <1>1, <2>2
  <2>4. BatchPuts(x)[ids[i]] = BatchRow(x, i)
    BY <2>1, <2>3 DEF BatchPuts
  <2>5. subs[i].title \in Text
    <3> DEFINE S == [title : Text, dependsOn : SUBSET Nat]
    <3>1. subs \in Seq(S) /\ i \in 1..Len(subs)
      BY <1>1
    <3> HIDE DEF subs, S
    <3>2. subs[i] \in S
      BY <3>1
    <3> USE DEF S
    <3> QED
      BY <3>2
  <2>6. BatchRow(x, i) \in TaskRow /\ BatchRow(x, i).project = x.project
    BY <2>5, StatusAssumption DEF BatchRow, TaskRow
  <2>7. BatchDeps(x, i) \in SUBSET ToSet(ids)
    BY <1>1, <1>2 DEF BatchDeps
  <2> QED
    BY <2>1, <2>4, <2>6, <2>7
<1>4. ASSUME NEW k \in Task PROVE BatchPuts(x)[k] # None <=> k \in ToSet(ids)
  <2>1. CASE k \in ToSet(ids)
    <3>1. PICK i \in 1..n : k = ids[i]
      BY <1>2, <2>1
    <3>2. BatchPuts(x)[k] \in TaskRow
      BY <1>3, <3>1
    <3> QED
      BY <2>1, <3>2, NoneAssumption DEF TaskRow
  <2>2. CASE k \notin ToSet(ids)
    BY <2>2 DEF BatchPuts
  <2> QED
    BY <2>1, <2>2
<1>5. ASSUME NEW k \in ToSet(ids)
      PROVE  k \in Task /\ BatchPuts(x)[k] \in TaskRow /\ BatchPuts(x)[k].project = x.project
  <2>1. PICK i \in 1..n : k = ids[i]
    BY <1>2
  <2> QED
    BY <1>3, <2>1
<1>6. \A e : e \in BatchEdges(x) <=>
               \E i \in 1..n : e \in {ids[i]} \X BatchDeps(x, i)
  BY <1>1 DEF BatchEdges
<1>7. BatchEnds(x) \subseteq ToSet(ids)
  BY <1>1, <1>2 DEF BatchEnds, Terminals
<1> QED
  BY <1>1, <1>3, <1>4, <1>5, <1>6, <1>7

LEMMA CreateTaskBatchShown ==
  ASSUME Inv, RowsInvariant, NamesInvariant, ReplayInvariant, NEW t \in Txn, Commit(t),
         txn[t].req.kind = "CreateTaskBatch", NEW p \in Project, p = txn[t].project,
         NEW s, NEW s2, Writes(t, p, s, s2), NEW b, b = Block(txn[t]),
         NEW n \in Nat, NEW view, Replays(view, n, b), Shows(view[n], p, s)
  PROVE  Shows(view[n + Len(b)], p, s2)
<1>1. PICK x : x = txn[t]
  OBVIOUS
<1> DEFINE k == x.req.task
           ids == x.fresh
           m == Len(ids)
           new == ToSet(ids)
           puts == BatchPuts(x)
           lists == [i \in 1..m |-> BatchDeps(x, i)]
           add == BatchEdges(x)
           ds == x.read \cup BatchEnds(x)
           e == [type |-> "task.dependencies_changed", task |-> k, dependsOn |-> ds]
           s1 == [name |-> s.name, tasks |-> s2.tasks, deps |-> s.deps \cup add,
                  comments |-> s.comments, used |-> s2.used]
           v == view[n]
           w == view[n + m]
<1>2. /\ x \in TxnState /\ x.req \in Request /\ x.req.kind = "CreateTaskBatch"
      /\ x.pc = "commit" /\ RequestOK(x) /\ ShapeOK(x) /\ ReadsOK(x)
      /\ ChangesOK(x) /\ KnowsOK(x) /\ Ending(x) /\ Says(x, b) /\ Adding(x) = x.addDeps
  BY <1>1, CommitKnows
<1>3. k \in Task /\ tasks[k] # None /\ tasks[k].project = p /\ x.read \in SUBSET Task
  BY <1>1, <1>2, RequestFields DEF ReadsOK, TxnState
<1>4. BlockOK(x)
  BY <1>1, <1>2 DEF NamesInvariant
<1>5. /\ m \in Nat /\ DOMAIN ids = 1..m
      /\ \A i \in 1..m :
           /\ ids[i] \in Task /\ ids[i] \in new /\ puts[ids[i]] = BatchRow(x, i)
           /\ BatchRow(x, i) \in TaskRow /\ BatchRow(x, i).project = p
           /\ BatchDeps(x, i) \in SUBSET new
      /\ \A j \in Task : puts[j] # None <=> j \in new
      /\ \A j \in new : j \in Task /\ puts[j] \in TaskRow /\ puts[j].project = p
      /\ \A g : g \in add <=> \E i \in 1..m : g \in {ids[i]} \X BatchDeps(x, i)
      /\ BatchEnds(x) \subseteq new
  <2>1. \A i, j \in DOMAIN ids : ids[i] = ids[j] => i = j
    BY <1>4 DEF BlockOK
  <2> QED
    BY <1>1, <1>2, <2>1, BatchWrites
<1>6. \A i, j \in 1..m : ids[i] = ids[j] => i = j
  BY <1>4, <1>5 DEF BlockOK
<1>7. /\ x.puts = puts /\ x.del = {} /\ x.addDeps = add \cup ({k} \X BatchEnds(x))
      /\ x.comment = None
  BY <1>2 DEF ChangesOK, ShapeOK
<1>8. /\ DirectDeps(k) \subseteq x.read
      /\ \A d \in x.read : d \in used /\ (tasks[d] # None => <<k, d>> \in deps)
  BY <1>2 DEF KnowsOK
<1>9. \A j \in new : j \notin used
  BY <1>1 DEF RowsInvariant, IdsUsedOnce
<1>10. /\ s.tasks = tasks /\ s.deps = deps /\ s.comments = comments /\ s.used = used
       /\ s.name = projects[p].name /\ deps \subseteq Edge
       /\ \A j \in Task : tasks[j] # None => j \in used
       /\ \A c \in Comment : comments[c] # None => comments[c] \in used
       /\ \A f \in deps : f[1] \in used
       /\ \A j : j \in Live(s, p) <=> j \in Task /\ tasks[j] # None /\ tasks[j].project = p
       /\ comments \in [Comment -> Task \cup {None}]
  BY TablesOK DEF Writes
<1>11. /\ s2.tasks = [j \in Task |-> TaskSeen(t, j)] /\ s2.comments = s.comments
       /\ s2.name = s.name /\ s2.used = used \cup new
       /\ s2.deps = (deps \cup add) \cup ({k} \X BatchEnds(x))
  <2>1. \A c \in Comment : CommentAfter(t, c) = comments[c]
    BY <1>1, <1>7, NoneAssumption DEF CommentAfter
  <2> QED
    BY <1>1, <1>2, <1>7, <1>10, <2>1 DEF Writes
<1>12. \A j \in Task : s2.tasks[j] = IF j \in new THEN puts[j] ELSE s.tasks[j]
  BY <1>1, <1>5, <1>7, <1>10, <1>11 DEF TaskSeen
<1>13. add \subseteq Edge /\ \A g \in add : g[1] \in new /\ g[2] \in new
  <2> SUFFICES ASSUME NEW g \in add PROVE g \in Edge /\ g[1] \in new /\ g[2] \in new
    OBVIOUS
  <2>1. PICK i \in 1..m : g \in {ids[i]} \X BatchDeps(x, i)
    BY <1>5
  <2>2. /\ g = <<g[1], g[2]>> /\ g[1] = ids[i] /\ g[2] \in BatchDeps(x, i)
    BY <2>1
  <2>3. g[1] \in new /\ g[2] \in new
    BY <1>5, <2>2
  <2>4. g[1] \in Task /\ g[2] \in Task
    BY <1>5, <2>3
  <2> QED
    BY <2>2, <2>3, <2>4 DEF Edge
<1>14. /\ \A i \in 1..m :
            b[i] = [type |-> "task.created", task |-> ids[i], row |-> puts[ids[i]],
                    deps |-> lists[i]]
       /\ Len(b) = m + 1 /\ b[m + 1] = e
  <2> DEFINE created == [i \in 1..m |->
                           [type |-> "task.created", task |-> ids[i],
                            row |-> BatchRow(x, i), deps |-> BatchDeps(x, i)]]
  <2>1. b = Append(created, e)
    BY <1>2, <1>5 DEF Says
  <2>2. \A i \in 1..m : created[i] = [type |-> "task.created", task |-> ids[i],
                                      row |-> puts[ids[i]], deps |-> lists[i]]
    BY <1>5
  <2> HIDE DEF e
  <2>3. /\ DOMAIN created = 1..m
        /\ created = [i \in 1..m |-> created[i]]
    OBVIOUS
  <2> HIDE DEF created
  <2>4. created \in Seq({created[i] : i \in 1..m}) /\ Len(created) = m
    BY <1>5, <2>3
  <2>5. /\ Len(b) = m + 1 /\ b[m + 1] = e /\ \A i \in 1..m : b[i] = created[i]
    BY <1>5, <2>1, <2>4
  <2> QED
    BY <2>2, <2>5
<1>15. Shows(v, p, s)
  OBVIOUS
<1>16. view[n] = v /\ w = view[n + m] /\ e = [type |-> "task.dependencies_changed",
                                              task |-> k, dependsOn |-> ds]
       /\ lists = [i \in 1..m |-> BatchDeps(x, i)]
  OBVIOUS
<1>17. /\ s1.name = s.name /\ s1.tasks = s2.tasks /\ s1.deps = s.deps \cup add
       /\ s1.comments = s.comments /\ s1.used = s2.used
  OBVIOUS
<1>18. ds = x.read \cup BatchEnds(x)
  OBVIOUS
<1> HIDE DEF k, ids, m, new, puts, lists, add, ds, e, s1, v, w
<1>19. Grown(w, v, ids, puts, lists, m)
  <2>1. v \in View
    BY <1>15 DEF Shows
  <2>2. ASSUME NEW i \in 1..m PROVE Creation(b[i], v, ids[i], puts, lists[i])
    <3>1. ids[i] \in Task /\ ids[i] \in new /\ puts[ids[i]] \in TaskRow
      BY <1>5
    <3>2. ids[i] \notin Live(s, p)
      BY <1>9, <1>10, <3>1
    <3>3. v.tasks[ids[i]] = None
      BY <1>15, <3>1, <3>2 DEF Shows
    <3>4. lists[i] \in SUBSET Task
      BY <1>5, <1>16
    <3> QED
      BY <1>14, <3>1, <3>3, <3>4 DEF Creation
  <2>3. \A i \in 1..m : view[n + i] = ApplyEvent(view[n + (i - 1)], b[i])
    BY <1>5, <1>14 DEF Replays
  <2> QED
    BY <1>5, <1>6, <1>16, <2>1, <2>2, <2>3, CreatedViews
<1>20. Shows(w, p, s1)
  <2>1. GrownTo(w, v, new, puts, add)
    <3>1. ASSUME NEW j \in Task
          PROVE  w.tasks[j] = IF j \in new THEN puts[j] ELSE v.tasks[j]
      <4>1. j \in new <=> \E i \in 1..m : ids[i] = j
        BY <1>5 DEF ToSet, new
      <4> QED
        BY <1>19, <4>1 DEF Grown
    <3>2. w.deps = v.deps \cup add
      <4>1. \A g : (\E i \in 1..m : g \in {ids[i]} \X lists[i]) <=> g \in add
        BY <1>5, <1>16
      <4> QED
        BY <1>19, <4>1 DEF Grown
    <3> QED
      BY <1>19, <3>1, <3>2 DEF Grown, GrownTo
  <2>2. Grows(s, s1, p, new, puts, add)
    <3>1. \A c \in Comment : s.comments[c] \notin new
      BY <1>5, <1>9, <1>10, NoneAssumption
    <3> QED
      BY <1>5, <1>9, <1>10, <1>11, <1>12, <1>13, <1>17, <3>1 DEF Grows
  <2> QED
    BY <1>15, <2>1, <2>2, GrownShown
<1>21. Live(s1, p) = {j \in Task : j \in new \/ j \in Live(s, p)}
  <2>1. \A j \in new : puts[j] # None
    BY <1>5
  <2> QED
    BY <1>5, <1>9, <1>10, <1>12, <1>17, <2>1 DEF Live
<1>22. k \in Live(s1, p) /\ k \notin new
  BY <1>3, <1>9, <1>10, <1>21 DEF k
<1>23. ds \in SUBSET Task /\ ds \subseteq s2.used
  BY <1>3, <1>5, <1>8, <1>11, <1>18
<1>24. s2.deps \subseteq Edge
  BY <1>2, <1>7, <1>10, <1>11 DEF TxnState
<1>25. \A g \in Edge : g[1] # k => (g \in s2.deps <=> g \in s1.deps)
  BY <1>10, <1>11, <1>17
<1>26. ASSUME NEW g \in s2.deps, g[1] = k PROVE g[2] \in ds
  <2>1. g \in deps => g[2] \in x.read
    BY <1>8, <1>26 DEF DirectDeps
  <2>2. g \notin add
    BY <1>13, <1>22, <1>26
  <2> QED
    BY <1>11, <1>18, <2>1, <2>2
<1>27. ASSUME NEW d \in ds, d \in Live(s1, p) PROVE <<k, d>> \in s2.deps
  <2>1. CASE d \in BatchEnds(x)
    BY <1>11, <2>1
  <2>2. CASE d \in x.read
    <3>1. d \in Live(s, p)
      BY <1>8, <1>9, <1>21, <1>27, <2>2
    <3> QED
      BY <1>8, <1>10, <1>11, <2>2, <3>1 DEF k
  <2> QED
    BY <1>18, <2>1, <2>2
<1>28. x.req.kind \in Kinds
  BY <1>2 DEF Request
<1>29. Shows(ApplyEvent(w, e), p, s2)
  <2>1. s2.name = s1.name /\ s2.comments = s1.comments /\ s2.tasks = s1.tasks
        /\ s1.used \subseteq s2.used
    BY <1>11, <1>17
  <2>2. "CreateTaskBatch" \in Kinds
    BY <1>2, <1>28
  <2> QED
    BY <1>16, <1>20, <1>22, <1>23, <1>24, <1>25, <1>26, <1>27, <2>1, <2>2, ChangedShown
<1>30. view[n + Len(b)] = ApplyEvent(w, e)
  <2>1. m + 1 \in 1..Len(b) /\ n + ((m + 1) - 1) = n + m
    BY <1>5, <1>14
  <2>2. view[n + (m + 1)] = ApplyEvent(view[n + ((m + 1) - 1)], b[m + 1])
    BY <2>1 DEF Replays
  <2> QED
    BY <1>14, <1>16, <2>1, <2>2
<1> QED
  BY <1>29, <1>30

-----------------------------------------------------------------------------
(* The boards after a commit. *)

LEMMA CommitWrites ==
  ASSUME Inv, NEW t \in Txn, Commit(t), NEW p \in Project, p = txn[t].project,
         projects'[p] # None
  PROVE  Writes(t, p, Tables(p), Tables(p)') /\ projects[p] # None
<1>1. p \notin txn[t].del /\ projects[p] # None
  BY CommitProjects
<1>2. projects'[p] = ProjectAfter(t, p)
  BY DEF Commit
<1>3. txn[t].lastSeq \in Nat
  BY DEF Inv, TypeOK, TxnState
<1>4. projects'[p].name = IF txn[t].req.kind = "UpdateProject" /\ txn[t].lastSeq > 0
                          THEN txn[t].req.name ELSE projects[p].name
  <2>1. CASE txn[t].lastSeq > 0
    BY <1>1, <1>2, <2>1 DEF ProjectAfter
  <2>2. CASE ~ (txn[t].lastSeq > 0)
    BY <1>1, <1>2, <2>2 DEF ProjectAfter
  <2> QED
    BY <2>1, <2>2
<1>5. Tables(p)' = [name |-> projects'[p].name, tasks |-> tasks', deps |-> deps',
                    comments |-> comments', used |-> used']
  BY DEF Tables
<1>6. /\ tasks' = [k \in Task |-> TaskSeen(t, k)] /\ deps' = DepsSeen(t)
      /\ comments' = [c \in Comment |-> CommentAfter(t, c)]
      /\ used' = used \cup ToSet(txn[t].fresh) \cup ({txn[t].comment} \ {None})
  BY DEF Commit
<1> QED
  BY <1>1, <1>4, <1>5, <1>6 DEF Writes, DepsSeen

\* The board of the project t has written to: what t recorded shows it.
LEMMA OwnBoardShown ==
  ASSUME Inv, Inv', RowsInvariant, NamesInvariant, ReplayInvariant, NEW t \in Txn,
         Commit(t), NEW p \in Project, p = txn[t].project, projects'[p] # None,
         txn[t].req.kind # "DeleteProject"
  PROVE  Shows(Replay(LogOf(p)), p, Tables(p))'
<1>1. PICK s, s2 : s = Tables(p) /\ s2 = Tables(p)'
  OBVIOUS
<1>2. Writes(t, p, s, s2) /\ projects[p] # None
  BY <1>1, CommitWrites
<1>3. PICK b : b = Block(txn[t])
  OBVIOUS
<1>4. txn[t].out = << >>
  BY CommitKnows
<1>5. PICK n \in Nat :
        \E view : /\ view[n] = Replay(LogOf(p))
                  /\ Replays(view, n, b)
                  /\ Replay(LogIn(events', p, projects'[p].lastSeq)) = view[n + Len(b)]
  BY <1>3, <1>4, CommitViews DEF Replays
<1>6. PICK view : /\ view[n] = Replay(LogOf(p))
                  /\ Replays(view, n, b)
                  /\ Replay(LogIn(events', p, projects'[p].lastSeq)) = view[n + Len(b)]
  BY <1>5
<1>7. Shows(view[n], p, s)
  BY <1>1, <1>2, <1>6 DEF ReplayInvariant
<1>8. txn[t].req.kind \in {"CreateTask", "UpdateTask", "DeleteTask", "CreateTaskBatch",
                           "CreateComment", "DeleteComment", "UpdateProject"}
  <2>1. txn[t].req \in Request
    BY CommitKnows
  <2> QED
    BY <2>1 DEF Request
<1>9. Shows(view[n + Len(b)], p, s2)
  <2>1. CASE txn[t].req.kind = "CreateTask"
    BY <1>2, <1>3, <1>6, <1>7, <2>1, CreateTaskShown
  <2>2. CASE txn[t].req.kind = "UpdateTask"
    BY <1>2, <1>3, <1>6, <1>7, <2>2, UpdateTaskShown
  <2>3. CASE txn[t].req.kind = "DeleteTask"
    BY <1>2, <1>3, <1>6, <1>7, <2>3, DeleteTaskShown
  <2>4. CASE txn[t].req.kind = "CreateTaskBatch"
    BY <1>2, <1>3, <1>6, <1>7, <2>4, CreateTaskBatchShown
  <2>5. CASE txn[t].req.kind = "CreateComment"
    BY <1>2, <1>3, <1>6, <1>7, <2>5, CreateCommentShown
  <2>6. CASE txn[t].req.kind = "DeleteComment"
    BY <1>2, <1>3, <1>6, <1>7, <2>6, DeleteCommentShown
  <2>7. CASE txn[t].req.kind = "UpdateProject"
    BY <1>2, <1>3, <1>6, <1>7, <2>7, UpdateProjectShown
  <2> QED
    BY <1>8, <2>1, <2>2, <2>3, <2>4, <2>5, <2>6, <2>7
<1>10. Replay(LogOf(p))' = Replay(LogIn(events', p, projects'[p].lastSeq))
  <2>1. LogOf(p)' = LogIn(events', p, projects'[p].lastSeq)
    BY DEF LogOf, LogIn
  <2> QED
    BY <2>1 DEF Replay, Views, ApplyEvent, EmptyView, PatchedRow, Patched
<1>11. PICK w : w = Replay(LogIn(events', p, projects'[p].lastSeq))
  OBVIOUS
<1>12. Shows(w, p, s2)
  BY <1>6, <1>9, <1>11
<1>13. Replay(LogOf(p))' = w
  BY <1>10, <1>11
<1> QED
  BY <1>1, <1>12, <1>13 DEF Shows, Live, View

\* t's writes stay in its own project, or in one that goes.
LEMMA OtherBoardSame ==
  ASSUME Inv, RowsInvariant, ReplayInvariant, NEW t \in Txn, Commit(t),
         NEW p \in Project, projects'[p] # None,
         p # txn[t].project \/ txn[t].req.kind = "DeleteProject"
  PROVE  SameBoard(Tables(p), Tables(p)', p) /\ projects'[p] = projects[p]
<1>1. PICK x : x = txn[t]
  OBVIOUS
<1>2. PICK s, s2 : s = Tables(p) /\ s2 = Tables(p)'
  OBVIOUS
<1>3. /\ x \in TxnState /\ x.pc = "commit" /\ x.req \in Request
      /\ RequestOK(x) /\ ShapeOK(x) /\ WritesOK(x) /\ DeletesOK(x) /\ ReadsOK(x)
      /\ ChangesOK(x) /\ KnowsOK(x) /\ Ending(x) /\ Adding(x) = x.addDeps
  BY <1>1, CommitKnows
<1>4. p \notin x.del /\ projects'[p] = projects[p]
  BY <1>1, <1>3, CommitProjects DEF RequestOK
<1>5. /\ s.tasks = tasks /\ s.deps = deps /\ s.comments = comments /\ s.used = used
      /\ s.name = projects[p].name
      /\ tasks \in [Task -> TaskRow \cup {None}] /\ deps \subseteq Edge
      /\ comments \in [Comment -> Task \cup {None}]
      /\ \A k \in Task : tasks[k] # None => k \in used
      /\ \A c \in Comment : comments[c] # None => c \in used
      /\ \A e \in deps : e[1] \in Live(s, p) <=> e[2] \in Live(s, p)
      /\ \A k : k \in Live(s, p) <=> k \in Task /\ tasks[k] # None /\ tasks[k].project = p
  BY <1>2, TablesOK
<1>6. /\ s2.tasks = [k \in Task |-> TaskSeen(t, k)]
      /\ s2.deps = (deps \ x.del) \cup x.addDeps
      /\ s2.comments = [c \in Comment |-> CommentAfter(t, c)]
      /\ used \subseteq s2.used /\ s2.name = s.name
  <2>1. s2 = [name |-> projects'[p].name, tasks |-> tasks', deps |-> deps',
              comments |-> comments', used |-> used']
    BY <1>2 DEF Tables
  <2> QED
    BY <1>1, <1>4, <1>5, <2>1 DEF Commit, DepsSeen
<1>7. ASSUME NEW k \in Task \cap x.del PROVE k \notin Live(s, p)
  <2>1. x.req.kind \in {"DeleteTask", "DeleteProject"}
    BY <1>3 DEF DeletesOK
  <2>2. CASE x.req.kind = "DeleteTask"
    BY <1>1, <1>3, <1>5, <2>2 DEF ChangesOK, ReadsOK
  <2>3. CASE x.req.kind = "DeleteProject"
    BY <1>3, <1>4, <1>5, <2>3 DEF ChangesOK
  <2> QED
    BY <2>1, <2>2, <2>3
<1>8. ASSUME NEW k \in Task, x.puts[k] # None
      PROVE  x.puts[k].project # p /\ k \notin Live(s, p)
  <2>1. x.puts[k].project = x.project /\ x.req.kind # "DeleteProject"
    BY <1>3, <1>8 DEF WritesOK, DeletesOK
  <2>2. CASE k \in ToSet(x.fresh)
    <3>1. k \notin used
      BY <1>1, <2>2 DEF RowsInvariant, IdsUsedOnce
    <3> QED
      BY <1>1, <1>5, <2>1, <3>1
  <2>3. CASE x.req.kind = "UpdateTask" /\ k = x.req.task
    BY <1>1, <1>3, <1>5, <2>1, <2>3 DEF ReadsOK
  <2> QED
    BY <1>3, <1>8, <2>2, <2>3 DEF WritesOK
<1>9. ASSUME NEW k \in Task, Linked(x, k), x.req.kind # "DeleteProject"
      PROVE  k \notin Live(s, p)
  BY <1>1, <1>5, <1>8, <1>9 DEF Linked
<1>10. None \notin Live(s, p)
  BY <1>5, NoneAssumption
<1>11. ASSUME NEW k \in Task
       PROVE  /\ k \in Live(s2, p) <=> k \in Live(s, p)
              /\ k \in Live(s, p) => s2.tasks[k] = s.tasks[k]
  <2>1. s2.tasks[k] = IF k \in x.del THEN None
                      ELSE IF x.puts[k] # None THEN x.puts[k] ELSE tasks[k]
    BY <1>1, <1>6 DEF TaskSeen
  <2>2. k \in Live(s2, p) <=> s2.tasks[k] # None /\ s2.tasks[k].project = p
    BY DEF Live
  <2> QED
    BY <1>5, <1>7, <1>8, <2>1, <2>2
<1>12. ASSUME NEW c \in Comment
       PROVE  IF s.comments[c] \in Live(s, p) THEN s2.comments[c] = s.comments[c]
              ELSE s2.comments[c] \notin Live(s, p)
  <2>1. s2.comments[c] = IF c \in x.del THEN None
                         ELSE IF c = x.comment THEN x.req.task ELSE comments[c]
    BY <1>1, <1>6 DEF CommentAfter
  <2>2. CASE c \in x.del
    <3>1. CASE x.req.kind = "DeleteComment"
      <4>1. c = x.req.comment /\ OnBoard(x, c)
        BY <1>3, <2>2, <3>1 DEF ChangesOK, KnowsOK
      <4> QED
        BY <1>1, <1>5, <1>10, <2>1, <2>2, <3>1, <4>1 DEF OnBoard
    <3>2. CASE x.req.kind \in {"DeleteTask", "DeleteProject"}
      <4>1. comments[c] \in x.del \cup {None}
        BY <1>3, <2>2, <3>2 DEF ChangesOK
      <4> QED
        BY <1>5, <1>7, <1>10, <2>1, <2>2, <4>1
    <3>3. CASE x.req.kind \in {"CreateTask", "CreateTaskBatch", "CreateComment",
                               "UpdateProject"}
      BY <1>3, <2>2, <3>3 DEF ChangesOK
    <3>4. CASE x.req.kind = "UpdateTask"
      <4>1. c \in Edge
        BY <1>3, <2>2, <3>4 DEF ChangesOK
      <4> QED
        BY <4>1, IdAssumption DEF Edge
    <3> QED
      BY <1>3, <3>1, <3>2, <3>3, <3>4 DEF Request
  <2>3. CASE c \notin x.del /\ c = x.comment
    <3>1. x.req.kind = "CreateComment"
      BY <1>3, <2>3, NoneAssumption DEF ShapeOK
    <3>2. x.req.task \in Task /\ Linked(x, x.req.task)
      BY <1>3, <3>1, RequestFields DEF ChangesOK
    <3>3. comments[c] = None
      BY <1>1, <1>5, <2>3 DEF ReplayInvariant, CommentIdsUsedOnce
    <3> QED
      BY <1>5, <1>9, <1>10, <2>1, <2>3, <3>1, <3>2, <3>3
  <2>4. CASE c \notin x.del /\ c # x.comment
    BY <1>5, <2>1, <2>4
  <2> QED
    BY <2>2, <2>3, <2>4
<1>13. ASSUME NEW e \in Edge, e[1] \in Live(s, p)
       PROVE  e \in s2.deps <=> e \in s.deps
  <2>1. e[1] \in Task /\ e[2] \in Task
    BY DEF Edge
  <2>2. e \notin x.addDeps
    <3> SUFFICES ASSUME e \in x.addDeps PROVE FALSE
      OBVIOUS
    <3>1. Linked(x, e[1]) /\ x.req.kind # "DeleteProject"
      BY <1>3 DEF WritesOK, DeletesOK
    <3> QED
      BY <1>9, <1>13, <2>1, <3>1
  <2>3. ASSUME e \in deps, e \in x.del PROVE FALSE
    <3>1. e[2] \in Live(s, p)
      BY <1>5, <1>13, <2>3
    <3>2. e[1] \notin x.del /\ e[2] \notin x.del
      BY <1>7, <1>13, <2>1, <3>1
    <3>3. CASE x.req.kind = "UpdateTask"
      <4>1. e[1] = x.req.task
        BY <1>3, <2>3, <3>3 DEF ChangesOK
      <4> QED
        BY <1>1, <1>3, <1>5, <1>13, <3>3, <4>1 DEF ReadsOK
    <3>4. CASE x.req.kind = "DeleteTask"
      <4>1. x.req.task \in {e[1], e[2]} /\ x.req.task \in x.del
        BY <1>3, <2>3, <3>4 DEF ChangesOK
      <4> QED
        BY <3>2, <4>1
    <3>5. CASE x.req.kind = "DeleteProject"
      BY <1>3, <2>3, <3>2, <3>5 DEF ChangesOK
    <3>6. CASE x.req.kind \in {"CreateTask", "CreateTaskBatch", "CreateComment",
                               "UpdateProject"}
      BY <1>3, <2>3, <3>6 DEF ChangesOK
    <3>7. CASE x.req.kind = "DeleteComment"
      <4>1. e = x.req.comment /\ x.req.comment \in Comment
        BY <1>3, <2>3, <3>7, RequestFields DEF ChangesOK
      <4> QED
        BY <4>1, IdAssumption DEF Edge
    <3> QED
      BY <1>3, <3>3, <3>4, <3>5, <3>6, <3>7 DEF Request
  <2> QED
    BY <1>5, <1>6, <2>2, <2>3
<1>14. SameBoard(s, s2, p)
  BY <1>5, <1>6, <1>11, <1>12, <1>13 DEF SameBoard, Live
<1> QED
  BY <1>2, <1>4, <1>14

LEMMA OtherBoardShown ==
  ASSUME Inv, Inv', RowsInvariant, ReplayInvariant, NEW t \in Txn, Commit(t),
         NEW p \in Project, projects'[p] # None,
         p # txn[t].project \/ txn[t].req.kind = "DeleteProject"
  PROVE  Shows(Replay(LogOf(p)), p, Tables(p))'
<1>1. PICK s, s2 : s = Tables(p) /\ s2 = Tables(p)'
  OBVIOUS
<1>2. SameBoard(s, s2, p) /\ projects'[p] = projects[p]
  BY <1>1, OtherBoardSame
<1>3. Shows(Replay(LogOf(p)), p, s)
  BY <1>1, <1>2 DEF ReplayInvariant
<1>4. s2.deps \subseteq Edge
  <2>1. deps' \subseteq Edge
    BY DEF Inv, TypeOK
  <2>2. s2.deps = deps'
    BY <1>1 DEF Tables
  <2> QED
    BY <2>1, <2>2
<1>5. PICK log : log = LogOf(p)
  OBVIOUS
<1>6. LogOf(p)' = log
  <2>1. p \notin txn[t].del
    BY CommitProjects
  <2>2. ~ (txn[t].lastSeq > 0 /\ p = txn[t].project)
    BY CommitKnows DEF RequestOK
  <2>3. LogBar'[p] = LogBar[p]
    BY <2>1, <2>2, CommitKeepsLog
  <2>4. LogBar[p] = LogOf(p) /\ LogBar'[p] = LogOf(p)'
    BY <1>2 DEF LogBar
  <2> QED
    BY <1>5, <2>3, <2>4
<1>7. Shows(Replay(log), p, s2)
  BY <1>2, <1>3, <1>4, <1>5, SameBoardShown
<1>8. Replay(LogOf(p))' = Replay(log)
  BY <1>6 DEF Replay, Views, ApplyEvent, EmptyView, PatchedRow, Patched
<1> QED
  BY <1>1, <1>7, <1>8 DEF Shows, Live, View

-----------------------------------------------------------------------------
(* What the other transactions rely on stands when t commits. *)

\* A task with an id in use, which u may have locked.
LEMMA CommitHeld ==
  ASSUME Inv, RowsInvariant, ReplayInvariant, NEW t \in Txn, Commit(t),
         NEW u \in Txn, u # t, NEW k \in Task, k \in used
  PROVE  /\ tasks'[k] # None =>
              tasks[k] # None /\ k \notin txn[t].del /\ tasks'[k].project = tasks[k].project
         /\ tasks[k] # None /\ Holds(txn[u], k, Mode) =>
              tasks'[k] # None /\ tasks'[k].project = tasks[k].project
         /\ Holds(txn[u], k, {"update"}) =>
              /\ tasks'[k] = tasks[k]
              /\ \A e \in deps' : k \in {e[1], e[2]} => e \in deps
              /\ \A d \in Task :
                   <<k, d>> \in deps /\ d \notin txn[t].del => <<k, d>> \in deps'
<1>1. PICK x : x = txn[t]
  OBVIOUS
<1>2. /\ x \in TxnState /\ x.req \in Request /\ x.pc = "commit"
      /\ WritesOK(x) /\ DeletesOK(x) /\ ReadsOK(x) /\ ChangesOK(x) /\ Ending(x)
      /\ Adding(x) = x.addDeps
  BY <1>1, CommitKnows
<1>3. k \notin ToSet(x.fresh)
  BY <1>1 DEF RowsInvariant, IdsUsedOnce
<1>4. k \in x.del \/ x.puts[k] # None => Holds(x, k, {"update"})
  <2>1. k \in x.del => Holds(x, k, {"update"})
    BY <1>2 DEF DeletesOK
  <2>2. x.puts[k] # None => x.req.kind = "UpdateTask" /\ k = x.req.task
    BY <1>2, <1>3 DEF WritesOK
  <2> QED
    BY <1>2, <2>1, <2>2 DEF ReadsOK
<1>5. Holds(x, k, {"update"}) => Holds(x, k, Mode)
  BY DEF Holds, Mode
<1>6. Holds(txn[u], k, {"update"}) => ~ Holds(x, k, Mode)
  BY <1>1, HoldsAlone
<1>7. Holds(txn[u], k, Mode) => ~ Holds(x, k, {"update"})
  BY <1>1, HoldsAlone
<1>8. tasks'[k] # None =>
        tasks[k] # None /\ k \notin x.del /\ tasks'[k].project = tasks[k].project
  BY <1>1, <1>3, CommitTasks
<1>9. tasks[k] # None /\ Holds(txn[u], k, Mode) =>
        tasks'[k] # None /\ tasks'[k].project = tasks[k].project
  BY <1>1, <1>4, <1>7, CommitTasks
<1>10. ASSUME Holds(txn[u], k, {"update"})
       PROVE  /\ tasks'[k] = tasks[k]
              /\ \A e \in deps' : k \in {e[1], e[2]} => e \in deps
              /\ \A d \in Task :
                   <<k, d>> \in deps /\ d \notin x.del => <<k, d>> \in deps'
  <2>1. tasks'[k] = TaskSeen(t, k) /\ deps' = (deps \ x.del) \cup x.addDeps
    BY <1>1 DEF Commit, DepsSeen
  <2>2. tasks'[k] = tasks[k]
    BY <1>1, <1>4, <1>5, <1>6, <1>10, <2>1 DEF TaskSeen
  <2>3. ASSUME NEW e \in x.addDeps, k \in {e[1], e[2]} PROVE FALSE
    <3>1. Linked(x, k)
      BY <1>2, <2>3 DEF WritesOK
    <3>2. Holds(x, k, Mode)
      BY <1>4, <1>5, <3>1 DEF Linked
    <3> QED
      BY <1>6, <1>10, <3>2
  <2>4. ASSUME NEW d \in Task, <<k, d>> \in deps, <<k, d>> \in x.del, d \notin x.del
        PROVE  FALSE
    <3> DEFINE e == <<k, d>>
    <3>1. e \in Edge /\ e[1] = k /\ e[2] = d /\ e \in x.del
      BY <2>4 DEF Edge
    <3>2. k \notin x.del
      BY <1>4, <1>5, <1>6, <1>10
    <3> HIDE DEF e
    <3>3. CASE x.req.kind = "UpdateTask"
      <4>1. k = x.req.task
        BY <1>2, <3>1, <3>3 DEF ChangesOK
      <4>2. Holds(x, k, {"update"})
        BY <1>2, <3>3, <4>1 DEF ReadsOK
      <4> QED
        BY <1>5, <1>6, <1>10, <4>2
    <3>4. CASE x.req.kind \in {"DeleteTask", "DeleteProject"}
      <4>1. e[1] \in x.del \/ e[2] \in x.del
        BY <1>2, <3>1, <3>4 DEF ChangesOK
      <4> QED
        BY <2>4, <3>1, <3>2, <4>1
    <3>5. CASE x.req.kind \in {"CreateTask", "CreateTaskBatch", "CreateComment",
                               "UpdateProject"}
      BY <1>2, <3>1, <3>5 DEF ChangesOK
    <3>6. CASE x.req.kind = "DeleteComment"
      <4>1. e = x.req.comment /\ x.req.comment \in Comment
        BY <1>2, <3>1, <3>6, RequestFields DEF ChangesOK
      <4> QED
        BY <3>1, <4>1, IdAssumption DEF Edge
    <3> QED
      BY <1>2, <3>3, <3>4, <3>5, <3>6 DEF Request
  <2> QED
    BY <2>1, <2>2, <2>3, <2>4
<1> QED
  BY <1>1, <1>8, <1>9, <1>10

\* A comment with an id in use can only go.
LEMMA CommitOldComment ==
  ASSUME Inv, ReplayInvariant, NEW t \in Txn, Commit(t), NEW c \in Comment, c \in used
  PROVE  comments'[c] \in {None, comments[c]}
<1>1. comments'[c] = CommentAfter(t, c)
  BY DEF Commit
<1>2. c # txn[t].comment
  BY DEF ReplayInvariant, CommentIdsUsedOnce
<1> QED
  BY <1>1, <1>2 DEF CommentAfter

LEMMA CommitOthersRecord ==
  ASSUME Inv, ReplayInvariant, NEW t \in Txn, Commit(t),
         NEW u \in Txn, u # t, txn[u].pc # "idle"
  PROVE  RecordsOK(txn[u])'
<1>1. PICK x : x = txn[u]
  OBVIOUS
<1>2. txn'[u] = x
  BY <1>1 DEF Commit, Inv, TypeOK
<1>3. RecordsOK(x) /\ ClaimsOK(x) /\ x \in TxnState
  BY <1>1 DEF ReplayInvariant, Inv, LogInvariant, TypeOK
<1>4. x.lastSeq > 0 => projects'[x.project].lastSeq = projects[x.project].lastSeq
  <2> SUFFICES ASSUME x.lastSeq > 0
               PROVE  projects'[x.project].lastSeq = projects[x.project].lastSeq
    OBVIOUS
  <2>1. PICK p \in Project : p = x.project
    BY <1>3 DEF ClaimsOK
  <2>2. Holds(x, p, {"noKeyUpdate", "update"})
    BY <1>3, <2>1 DEF ClaimsOK
  <2>3. ~ Holds(txn[t], p, {"noKeyUpdate", "update"})
    <3> SUFFICES ASSUME Holds(txn[t], p, {"noKeyUpdate", "update"}) PROVE FALSE
      OBVIOUS
    <3>1. PICK l \in txn[t].locks, m \in txn[u].locks :
            /\ l.row = p /\ l.mode \in {"noKeyUpdate", "update"}
            /\ m.row = p /\ m.mode \in {"noKeyUpdate", "update"}
      BY <1>1, <2>2 DEF Holds
    <3>2. Conflict(l.mode, m.mode)
      BY <3>1 DEF Conflict
    <3> QED
      BY <3>1, <3>2 DEF Inv, LogInvariant, LocksExclusive
  <2>4. projects'[p] = projects[p]
    <3>1. ~ Holds(txn[t], p, {"update"})
      BY <2>3 DEF Holds
    <3> QED
      BY <2>3, <3>1, CommitProjects
  <2> QED
    BY <2>1, <2>4
<1>5. Block(x)' = Block(x)
  <2>1. CASE x.lastSeq > 0
    <3>1. projects'[x.project].lastSeq = projects[x.project].lastSeq
      BY <1>4, <2>1
    <3> QED
      BY <3>1 DEF Block
  <2>2. CASE x.lastSeq = 0
    <3>1. Block(x)' = << >> \o x.out
      BY <2>2 DEF Block
    <3>2. Block(x) = << >> \o x.out
      BY <2>2 DEF Block
    <3> QED
      BY <3>1, <3>2
  <2> QED
    BY <1>3, <2>1, <2>2 DEF TxnState
<1>6. PICK b : b = Block(x)
  OBVIOUS
<1>7. Block(x)' = b
  BY <1>5, <1>6
<1>8. Ending(x) \/ x.pc = "deleteComment" => Says(x, b)
  BY <1>3, <1>6 DEF RecordsOK
<1> QED
  BY <1>2, <1>3, <1>7, <1>8 DEF RecordsOK, Ending

LEMMA CommitOthersChange ==
  ASSUME Inv, RowsInvariant, ReplayInvariant, NEW t \in Txn, Commit(t),
         NEW u \in Txn, u # t, txn[u].pc # "idle"
  PROVE  ChangesOK(txn[u])'
<1>1. PICK x : x = txn[u]
  OBVIOUS
<1>2. txn'[u] = x
  BY <1>1 DEF Commit, Inv, TypeOK
<1> DEFINE r == x.req
<1>3. /\ ChangesOK(x) /\ x \in TxnState /\ DeletesOK(x) /\ ReadsOK(x)
  BY <1>1 DEF ReplayInvariant, RowsInvariant, Inv, TypeOK
<1>4. r \in Request
  BY <1>1, <1>3 DEF TxnState, Inv, LogInvariant, ShapeOK
<1>5. \A k \in Task : tasks[k] # None => k \in used
  BY DEF RowsInvariant, IdsUsedOnce
<1>6. ASSUME Ending(x), r.kind = "UpdateTask"
      PROVE  /\ tasks'[r.task] = tasks[r.task]
             /\ \A e \in deps' : e[1] = r.task => e \in deps
  <2>1. r.task \in Task /\ tasks[r.task] # None /\ Holds(x, r.task, {"update"})
    BY <1>3, <1>4, <1>6, RequestFields DEF ReadsOK, Ending
  <2> QED
    BY <1>1, <1>5, <2>1, CommitHeld
<1>7. ASSUME Ending(x), r.kind = "CreateComment" PROVE Linked(x, r.task)'
  <2>1. r.task \in Task /\ Linked(x, r.task)
    BY <1>3, <1>4, <1>7, RequestFields DEF ChangesOK
  <2>2. CASE x.puts[r.task] # None
    BY <2>2 DEF Linked
  <2>3. CASE tasks[r.task] # None /\ tasks[r.task].project = x.project
             /\ Holds(x, r.task, Mode)
    <3>1. tasks'[r.task] # None /\ tasks'[r.task].project = tasks[r.task].project
      BY <1>1, <1>5, <2>1, <2>3, CommitHeld
    <3> QED
      BY <2>3, <3>1 DEF Linked, Holds
  <2> QED
    BY <2>1, <2>2, <2>3 DEF Linked
<1>8. ASSUME Ending(x), r.kind = "DeleteProject", NEW k \in Task \cap x.del
      PROVE  tasks'[k] # None /\ tasks'[k].project = r.project
  <2>1. tasks[k] # None /\ tasks[k].project = r.project
    BY <1>3, <1>8 DEF ChangesOK
  <2>2. Holds(x, k, {"update"})
    BY <1>3, <1>8 DEF DeletesOK
  <2>3. Holds(x, k, Mode)
    BY <2>2 DEF Holds, Mode
  <2> QED
    BY <1>1, <1>5, <2>1, <2>3, CommitHeld
<1>9. ASSUME Ending(x), r.kind \in {"DeleteTask", "DeleteProject"},
             NEW c \in Comment \cap x.del
      PROVE  c \in used' /\ comments'[c] \in x.del \cup {None}
  <2>1. c \in used /\ comments[c] \in x.del \cup {None}
    BY <1>3, <1>9 DEF ChangesOK
  <2>2. used \subseteq used'
    BY DEF Commit
  <2> QED
    BY <2>1, <2>2, CommitOldComment
<1>10. (~ Ending(x) /\ ~ (r.kind = "CreateTaskBatch" /\ x.pc = "validate")) => Unwritten(x)
  BY <1>3 DEF ChangesOK
<1>11. ChangesOK(x)'
  BY <1>3, <1>6, <1>7, <1>8, <1>9, <1>10 DEF ChangesOK, Ending
<1> QED
  BY <1>2, <1>11 DEF ChangesOK, Linked, Holds

LEMMA CommitOthersKnow ==
  ASSUME Inv, RowsInvariant, ReplayInvariant, NEW t \in Txn, Commit(t),
         NEW u \in Txn, u # t, txn[u].pc # "idle"
  PROVE  KnowsOK(txn[u])'
<1>1. PICK x : x = txn[u]
  OBVIOUS
<1>2. txn'[u] = x
  BY <1>1 DEF Commit, Inv, TypeOK
<1> DEFINE r == x.req
           k == x.req.task
<1>3. /\ KnowsOK(x) /\ x \in TxnState /\ ReadsOK(x)
  BY <1>1 DEF ReplayInvariant, RowsInvariant, Inv, TypeOK
<1>4. r \in Request
  BY <1>1, <1>3 DEF TxnState, Inv, LogInvariant, ShapeOK
<1>5. \A j \in Task : tasks[j] # None => j \in used
  BY DEF RowsInvariant, IdsUsedOnce
<1>6. used \subseteq used'
  BY DEF Commit
<1>7. ASSUME r.kind \in {"UpdateTask", "DeleteTask", "CreateTaskBatch"}, x.pc # "lock"
      PROVE  /\ k \in Task /\ tasks'[k] = tasks[k]
             /\ \A e \in deps' : k \in {e[1], e[2]} => e \in deps
             /\ \A d \in Task :
                  <<k, d>> \in deps /\ d \notin txn[t].del => <<k, d>> \in deps'
  <2>1. k \in Task /\ tasks[k] # None /\ Holds(x, k, {"update"})
    BY <1>3, <1>4, <1>7, RequestFields DEF ReadsOK
  <2> QED
    BY <1>1, <1>5, <2>1, CommitHeld
<1>8. ASSUME r.kind = "UpdateTask", x.pc \in {"validate", "complete", "write"}
      PROVE  x.current = tasks'[k]
  BY <1>3, <1>7, <1>8 DEF KnowsOK
<1>9. ASSUME r.kind = "DeleteTask", x.pc # "lock"
      PROVE  Dependents(k)' \subseteq x.read
  BY <1>3, <1>7, <1>9 DEF KnowsOK, Dependents
<1>10. ASSUME r.kind = "CreateTaskBatch", x.pc # "lock"
       PROVE  /\ DirectDeps(k)' \subseteq x.read
              /\ \A d \in x.read : d \in used' /\ (tasks'[d] # None => <<k, d>> \in deps')
  <2>1. DirectDeps(k)' \subseteq x.read
    BY <1>3, <1>7, <1>10 DEF KnowsOK, DirectDeps
  <2>2. ASSUME NEW d \in x.read PROVE d \in used' /\ (tasks'[d] # None => <<k, d>> \in deps')
    <3>1. d \in Task /\ d \in used /\ (tasks[d] # None => <<k, d>> \in deps)
      BY <1>3, <1>10 DEF KnowsOK, TxnState
    <3>2. tasks'[d] # None => tasks[d] # None /\ d \notin txn[t].del
      BY <3>1, CommitHeld
    <3> QED
      BY <1>6, <1>7, <1>10, <3>1, <3>2
  <2> QED
    BY <2>1, <2>2
<1>11. ASSUME r.kind = "CreateComment", x.pc = "insertComment"
       PROVE  MayLink(x, k)'
  <2>1. k \in Task /\ MayLink(x, k)
    BY <1>3, <1>4, <1>11, RequestFields DEF KnowsOK
  <2>2. CASE x.puts[k] # None
    BY <2>2 DEF MayLink
  <2>3. CASE k \in used /\ (tasks[k] # None => tasks[k].project = x.project)
    <3>1. tasks'[k] # None => tasks[k] # None /\ tasks'[k].project = tasks[k].project
      BY <2>1, <2>3, CommitHeld
    <3> QED
      BY <1>6, <2>3, <3>1 DEF MayLink
  <2> QED
    BY <2>1, <2>2, <2>3 DEF MayLink
<1>12. ASSUME r.kind = "DeleteComment", x.pc # "resolve"
       PROVE  OnBoard(x, r.comment)'
  <2> DEFINE c == r.comment
  <2>1. c \in Comment /\ OnBoard(x, c)
    BY <1>3, <1>4, <1>12, RequestFields DEF KnowsOK
  <2>2. ASSUME NEW j \in Task, comments'[c] = j, tasks'[j] # None
        PROVE  tasks'[j].project = x.project
    <3>1. comments[c] = j
      BY <2>1, <2>2, CommitOldComment, NoneAssumption DEF OnBoard
    <3>2. j \in used
      BY <2>1, <3>1, NoneAssumption DEF ReplayInvariant, CommentIdsUsedOnce
    <3>3. tasks[j] # None /\ tasks'[j].project = tasks[j].project
      BY <2>2, <3>2, CommitHeld
    <3> QED
      BY <2>1, <3>1, <3>3 DEF OnBoard
  <2> QED
    BY <1>6, <2>1, <2>2 DEF OnBoard
<1>13. KnowsOK(x)'
  BY <1>8, <1>9, <1>10, <1>11, <1>12 DEF KnowsOK
<1> QED
  BY <1>2, <1>13 DEF KnowsOK, MayLink, OnBoard

LEMMA CommitCommentIds ==
  ASSUME Inv, Inv', RowsInvariant, ReplayInvariant, NEW t \in Txn, Commit(t)
  PROVE  CommentIdsUsedOnce'
<1>1. PICK x : x = txn[t]
  OBVIOUS
<1>2. /\ x \in TxnState /\ x.req \in Request /\ RequestOK(x) /\ ShapeOK(x)
      /\ ChangesOK(x) /\ Ending(x)
  BY <1>1, CommitKnows
<1>3. used' = used \cup ToSet(x.fresh) \cup ({x.comment} \ {None})
  BY <1>1 DEF Commit
<1>4. ASSUME NEW c \in Comment, comments'[c] # None PROVE {c, comments'[c]} \subseteq used'
  <2>1. comments'[c] = CommentAfter(t, c)
    BY DEF Commit
  <2>2. CASE comments'[c] = comments[c]
    BY <1>3, <1>4, <2>2 DEF ReplayInvariant, CommentIdsUsedOnce
  <2>3. CASE c = x.comment /\ comments'[c] = x.req.task
    <3>1. x.req.kind = "CreateComment"
      BY <1>2, <2>3, NoneAssumption DEF ShapeOK
    <3>2. x.req.task \in Task /\ Linked(x, x.req.task) /\ \A k \in Task : x.puts[k] = None
      BY <1>2, <3>1, RequestFields DEF ChangesOK
    <3>3. x.req.task \in used
      BY <3>2 DEF Linked, RowsInvariant, IdsUsedOnce
    <3> QED
      BY <1>3, <2>3, <3>3, NoneAssumption
  <2> QED
    BY <1>1, <1>4, <2>1, <2>2, <2>3 DEF CommentAfter
<1>5. None \notin used'
  BY NoneAssumption DEF Inv, TypeOK
<1>6. ASSUME NEW u \in Txn
      PROVE  /\ txn'[u].comment \notin used'
             /\ \/ u # t /\ txn'[u].comment = txn[u].comment
                \/ txn'[u].comment = None
  <2>1. CASE u = t
    <3>1. txn'[u].comment = None
      BY <2>1 DEF Commit, Idle, Inv, TypeOK
    <3> QED
      BY <1>5, <3>1
  <2>2. CASE u # t
    <3>1. txn'[u] = txn[u]
      BY <2>2 DEF Commit, Inv, TypeOK
    <3>2. txn[u].comment \notin used /\ (x.comment # None => txn[u].comment # x.comment)
      BY <1>1, <2>2 DEF ReplayInvariant, CommentIdsUsedOnce
    <3>3. txn[u].comment \in Comment \cup {None}
      BY DEF Inv, TypeOK, TxnState
    <3>4. ToSet(x.fresh) \subseteq Task
      BY <1>2, ToSetType DEF TxnState
    <3>5. txn[u].comment \notin ToSet(x.fresh)
      BY <3>3, <3>4, IdAssumption, NoneAssumption
    <3> QED
      BY <1>3, <2>2, <3>1, <3>2, <3>5
  <2> QED
    BY <2>1, <2>2
<1>7. ASSUME NEW u \in Txn, NEW w \in Txn, u # w, txn'[u].comment # None
      PROVE  txn'[u].comment # txn'[w].comment
  BY <1>6, <1>7 DEF ReplayInvariant, CommentIdsUsedOnce
<1> QED
  BY <1>4, <1>6, <1>7 DEF CommentIdsUsedOnce

LEMMA CommitReplay ==
  ASSUME Inv, Inv', RowsInvariant, NamesInvariant, ReplayInvariant, NEW t \in Txn, Commit(t)
  PROVE  ReplayInvariant'
<1>1. ASSUME NEW p \in Project, projects'[p] # None
      PROVE  Shows(Replay(LogOf(p)), p, Tables(p))'
  BY <1>1, OwnBoardShown, OtherBoardShown
<1>2. ASSUME NEW u \in Txn, txn'[u].pc # "idle"
      PROVE  (RecordsOK(txn[u]) /\ ChangesOK(txn[u]) /\ KnowsOK(txn[u]))'
  <2>1. txn'[u] = IF u = t THEN Idle ELSE txn[u]
    BY DEF Commit, Inv, TypeOK
  <2>2. u # t /\ txn[u].pc # "idle"
    BY <1>2, <2>1 DEF Idle
  <2> QED
    BY <2>2, CommitOthersRecord, CommitOthersChange, CommitOthersKnow
<1> QED
  BY <1>1, <1>2, CommitCommentIds DEF ReplayInvariant

-----------------------------------------------------------------------------
(* One statement: t goes from txn[t] to y, nothing is committed. *)

Faithful(x) == RecordsOK(x) /\ ChangesOK(x) /\ KnowsOK(x)

\* Faithful speaks of the tables and of its argument alone.
LEMMA FaithfulKept ==
  ASSUME NEW x, Faithful(x), projects' = projects, tasks' = tasks, deps' = deps,
         comments' = comments, used' = used
  PROVE  Faithful(x)'
<1>1. Block(x)' = Block(x)
  BY DEF Block
<1>2. PICK b : b = Block(x)
  OBVIOUS
<1>3. Says(x, b) = Says(x, b)'
  BY DEF Says, BatchRow, BatchDeps, BatchEnds, Terminals, CreatedRow
<1>4. RecordsOK(x)'
  BY <1>1, <1>2, <1>3 DEF Faithful, RecordsOK, Ending
<1>5. ChangesOK(x)'
  BY DEF Faithful, ChangesOK, Ending, Linked, Holds, Unwritten
<1>6. KnowsOK(x)'
  BY DEF Faithful, KnowsOK, Dependents, DirectDeps, MayLink, OnBoard
<1> QED
  BY <1>4, <1>5, <1>6 DEF Faithful

LEMMA ReplayKept ==
  ASSUME NEW p, NEW log, LogOf(p)' = log
  PROVE  Replay(LogOf(p))' = Replay(log)
BY DEF Replay, Views, ApplyEvent, EmptyView, PatchedRow, Patched

LEMMA BoardKept ==
  ASSUME NEW p, Shows(Replay(LogOf(p)), p, Tables(p)), projects'[p] = projects[p],
         tasks' = tasks, deps' = deps, comments' = comments, used' = used, events' = events
  PROVE  Shows(Replay(LogOf(p)), p, Tables(p))'
<1>1. PICK w, s : w = Replay(LogOf(p)) /\ s = Tables(p)
  OBVIOUS
<1>2. PICK log : log = LogOf(p)
  OBVIOUS
<1>3. Replay(LogOf(p))' = w
  <2>1. LogOf(p)' = log
    BY <1>2 DEF LogOf
  <2>2. Replay(LogOf(p))' = Replay(log)
    BY <2>1, ReplayKept
  <2> QED
    BY <1>1, <1>2, <2>2
<1>4. Tables(p)' = s
  BY <1>1 DEF Tables
<1>5. Shows(w, p, s)
  BY <1>1
<1> QED
  BY <1>3, <1>4, <1>5 DEF Shows, Live, View

LEMMA GoReplay ==
  ASSUME Inv, ReplayInvariant, NEW t \in Txn, NEW y, Go(t, y),
         y.comment \in {txn[t].comment, None} \cup FreshComments,
         y.pc # "idle" => Faithful(y)
  PROVE  ReplayInvariant'
<1>1. /\ txn' = [txn EXCEPT ![t] = y] /\ comments' = comments /\ deps' = deps
      /\ projects' = projects /\ tasks' = tasks /\ events' = events /\ used' = used
  BY DEF Go
<1>2. ASSUME NEW u \in Txn PROVE txn'[u] = IF u = t THEN y ELSE txn[u]
  BY <1>1 DEF Inv, TypeOK
<1>3. ASSUME NEW u \in Txn, txn'[u].pc # "idle"
      PROVE  (RecordsOK(txn[u]) /\ ChangesOK(txn[u]) /\ KnowsOK(txn[u]))'
  <2>1. PICK v : v = txn'[u]
    OBVIOUS
  <2>2. Faithful(v)
    BY <1>2, <1>3, <2>1 DEF ReplayInvariant, Faithful
  <2>3. Faithful(v)'
    BY <1>1, <2>2, FaithfulKept
  <2> QED
    BY <2>1, <2>3 DEF Faithful
<1>4. CommentIdsUsedOnce'
  <2>1. None \notin used
    BY NoneAssumption DEF Inv, TypeOK
  <2>2. \A u \in Txn :
          \/ txn'[u].comment \in {txn[u].comment, None}
          \/ u = t /\ txn'[u].comment \in FreshComments
    BY <1>2
  <2>3. \A u \in Txn : txn'[u].comment \notin used'
    BY <1>1, <2>1, <2>2 DEF ReplayInvariant, CommentIdsUsedOnce, FreshComments
  <2>4. ASSUME NEW u \in Txn, NEW v \in Txn, u # v, txn'[u].comment # None
        PROVE  txn'[u].comment # txn'[v].comment
    <3>1. \A w \in Txn : txn[w].comment \notin FreshComments
      BY DEF FreshComments
    <3> QED
      BY <2>2, <2>4, <3>1 DEF ReplayInvariant, CommentIdsUsedOnce
  <2>5. \A c \in Comment : comments'[c] # None => {c, comments'[c]} \subseteq used'
    BY <1>1 DEF ReplayInvariant, CommentIdsUsedOnce
  <2> QED
    BY <2>3, <2>4, <2>5 DEF CommentIdsUsedOnce
<1>5. ASSUME NEW p \in Project, projects'[p] # None
      PROVE  Shows(Replay(LogOf(p)), p, Tables(p))'
  BY <1>1, <1>5, BoardKept DEF ReplayInvariant
<1> QED
  BY <1>3, <1>4, <1>5 DEF ReplayInvariant

LEMMA RollbackReplay ==
  ASSUME Inv, ReplayInvariant, NEW t \in Txn, Rollback(t)
  PROVE  ReplayInvariant'
<1>1. Idle.pc = "idle" /\ Idle.comment = None
  BY DEF Idle
<1> QED
  BY <1>1, GoReplay DEF Rollback

LEMMA AtReplay ==
  ASSUME Inv, RowsInvariant, ReplayInvariant, NEW t \in Txn, NEW kinds, NEW pc,
         pc # "idle", At(t, kinds, pc)
  PROVE  /\ txn[t] \in TxnState /\ txn[t].pc = pc
         /\ txn[t].req \in Request /\ txn[t].req.kind \in kinds
         /\ RequestOK(txn[t]) /\ ShapeOK(txn[t])
         /\ ReadsOK(txn[t]) /\ ChangesOK(txn[t]) /\ KnowsOK(txn[t])
BY AtRows DEF ReplayInvariant

\* A statement that only reads, before the operation has written anything.
LEMMA QuietReplay ==
  ASSUME Inv, ReplayInvariant, NEW t \in Txn, NEW y, Go(t, y), SameRows(y, t),
         y.comment = txn[t].comment, Unwritten(txn[t]), KnowsOK(y),
         ~ Ending(y), y.pc # "deleteComment",
         y.req.kind # "CreateTaskBatch" \/ y.pc # "validate"
  PROVE  ReplayInvariant'
<1>1. Unwritten(y)
  BY DEF Unwritten, SameRows
<1>2. ChangesOK(y)
  BY <1>1 DEF ChangesOK
<1>3. RecordsOK(y)
  BY DEF RecordsOK, Ending
<1> QED
  BY <1>2, <1>3, GoReplay DEF Faithful

LEMMA CreateTaskValidateReplay ==
  ASSUME Inv, RowsInvariant, ReplayInvariant, NEW t \in Txn, CreateTaskValidate(t)
  PROVE  ReplayInvariant'
<1> DEFINE r == txn[t].req
           y == [txn[t] EXCEPT !.project = r.project, !.pc = "insertTask"]
<1>1. At(t, {"CreateTask"}, "validate") /\ (Rollback(t) \/ Go(t, y))
  BY DEF CreateTaskValidate
<1>2. /\ txn[t] \in TxnState /\ txn[t].pc = "validate" /\ r.kind = "CreateTask"
      /\ ChangesOK(txn[t])
  BY <1>1, AtReplay
<1>3. Unwritten(txn[t])
  BY <1>2 DEF ChangesOK, Ending
<1>4. /\ SameRows(y, t) /\ y.comment = txn[t].comment /\ y.req = r /\ y.pc = "insertTask"
  BY <1>2 DEF SameRows, TxnState
<1> HIDE DEF y
<1>5. KnowsOK(y)
  BY <1>2, <1>4 DEF KnowsOK
<1> QED
  BY <1>1, <1>2, <1>3, <1>4, <1>5, QuietReplay, RollbackReplay DEF Ending

LEMMA UpdateTaskLockReplay ==
  ASSUME Inv, RowsInvariant, ReplayInvariant, NEW t \in Txn, UpdateTaskLock(t)
  PROVE  ReplayInvariant'
<1> DEFINE r == txn[t].req
           row == tasks[r.task]
           pc == CASE r.deps # None -> "validate"
                   [] r.deps = None /\ r.status = "done" -> "complete"
                   [] OTHER -> "write"
           y == [Locked(t) EXCEPT !.current = row, !.project = row.project,
                                  !.read = DirectDeps(r.task), !.pc = pc]
<1>1. At(t, {"UpdateTask"}, "lock") /\ (Rollback(t) \/ Go(t, y))
  BY DEF UpdateTaskLock
<1>2. /\ txn[t] \in TxnState /\ txn[t].pc = "lock" /\ r.kind = "UpdateTask"
      /\ ChangesOK(txn[t])
  BY <1>1, AtReplay
<1>3. Unwritten(txn[t])
  BY <1>2 DEF ChangesOK, Ending
<1>4. pc \in {"validate", "complete", "write"}
  OBVIOUS
<1>5. Locked(t) = [txn[t] EXCEPT !.locks = txn[t].locks \cup Needs(t)]
  BY <1>2, LockedFields
<1> HIDE DEF pc, row
<1>6. /\ SameRows(y, t) /\ y.comment = txn[t].comment /\ y.req = r /\ y.pc = pc
      /\ y.current = row
  BY <1>2, <1>5 DEF SameRows, TxnState
<1> HIDE DEF y
<1>7. KnowsOK(y)
  BY <1>2, <1>6 DEF KnowsOK, row
<1> QED
  BY <1>1, <1>2, <1>3, <1>4, <1>6, <1>7, QuietReplay, RollbackReplay DEF Ending

LEMMA UpdateTaskCheckReplay ==
  ASSUME Inv, RowsInvariant, ReplayInvariant, NEW t \in Txn,
         UpdateTaskValidate(t) \/ UpdateTaskComplete(t)
  PROVE  ReplayInvariant'
<1> DEFINE r == txn[t].req
           Quiet(y) == /\ SameRows(y, t) /\ y.comment = txn[t].comment /\ y.req = r
                       /\ y.pc \in {"complete", "write"} /\ y.current = txn[t].current
<1>1. /\ At(t, {"UpdateTask"}, "validate") \/ At(t, {"UpdateTask"}, "complete")
      /\ Rollback(t) \/ \E y : Go(t, y) /\ (txn[t] \in TxnState => Quiet(y))
  <2>1. CASE UpdateTaskValidate(t)
    <3> DEFINE pc == IF r.status = "done" THEN "complete" ELSE "write"
               y == [txn[t] EXCEPT !.read = ToSet(r.deps), !.pc = pc]
    <3>1. At(t, {"UpdateTask"}, "validate") /\ (Rollback(t) \/ Go(t, y))
      BY <2>1 DEF UpdateTaskValidate
    <3>2. txn[t] \in TxnState => Quiet(y)
      BY DEF SameRows, TxnState
    <3> HIDE DEF y, Quiet
    <3> QED
      BY <3>1, <3>2
  <2>2. CASE UpdateTaskComplete(t)
    <3> DEFINE y == [txn[t] EXCEPT !.pc = "write"]
    <3>1. At(t, {"UpdateTask"}, "complete") /\ (Rollback(t) \/ Go(t, y))
      BY <2>2 DEF UpdateTaskComplete
    <3>2. txn[t] \in TxnState => Quiet(y)
      BY DEF SameRows, TxnState
    <3> HIDE DEF y, Quiet
    <3> QED
      BY <3>1, <3>2
  <2> QED
    BY <2>1, <2>2
<1>2. /\ txn[t] \in TxnState /\ txn[t].pc \in {"validate", "complete"}
      /\ r.kind = "UpdateTask" /\ ChangesOK(txn[t]) /\ KnowsOK(txn[t])
  BY <1>1, AtReplay
<1>3. Unwritten(txn[t])
  BY <1>2 DEF ChangesOK, Ending
<1>4. ASSUME NEW y, Go(t, y), Quiet(y) PROVE ReplayInvariant'
  <2>1. KnowsOK(y)
    BY <1>2, <1>4 DEF KnowsOK
  <2> QED
    BY <1>2, <1>3, <1>4, <2>1, QuietReplay DEF Ending
<1> QED
  BY <1>1, <1>2, <1>4, RollbackReplay

LEMMA DeleteTaskLockReplay ==
  ASSUME Inv, RowsInvariant, ReplayInvariant, NEW t \in Txn, DeleteTaskLock(t)
  PROVE  ReplayInvariant'
<1> DEFINE r == txn[t].req
           k == r.task
           y == [Locked(t) EXCEPT !.project = tasks[k].project,
                                  !.read = Dependents(k), !.pc = "cascade"]
<1>1. At(t, {"DeleteTask"}, "lock") /\ (Rollback(t) \/ Go(t, y))
  BY DEF DeleteTaskLock
<1>2. /\ txn[t] \in TxnState /\ txn[t].pc = "lock" /\ r.kind = "DeleteTask"
      /\ ChangesOK(txn[t])
  BY <1>1, AtReplay
<1>3. Unwritten(txn[t])
  BY <1>2 DEF ChangesOK, Ending
<1>4. Locked(t) = [txn[t] EXCEPT !.locks = txn[t].locks \cup Needs(t)]
  BY <1>2, LockedFields
<1>5. /\ SameRows(y, t) /\ y.comment = txn[t].comment /\ y.req = r /\ y.pc = "cascade"
      /\ y.read = Dependents(k)
  BY <1>2, <1>4 DEF SameRows, TxnState
<1> HIDE DEF y
<1>6. KnowsOK(y)
  BY <1>2, <1>5 DEF KnowsOK
<1> QED
  BY <1>1, <1>2, <1>3, <1>5, <1>6, QuietReplay, RollbackReplay DEF Ending

LEMMA BatchLockReplay ==
  ASSUME Inv, RowsInvariant, ReplayInvariant, NEW t \in Txn, BatchLock(t)
  PROVE  ReplayInvariant'
<1> DEFINE r == txn[t].req
           k == r.task
           y == [Locked(t) EXCEPT !.project = tasks[k].project,
                                  !.read = DirectDeps(k), !.pc = "insertTask"]
<1>1. At(t, {"CreateTaskBatch"}, "lock") /\ (Rollback(t) \/ Go(t, y))
  BY DEF BatchLock
<1>2. /\ txn[t] \in TxnState /\ txn[t].pc = "lock" /\ r.kind = "CreateTaskBatch"
      /\ ChangesOK(txn[t])
  BY <1>1, AtReplay
<1>3. Unwritten(txn[t])
  BY <1>2 DEF ChangesOK, Ending
<1>4. Locked(t) = [txn[t] EXCEPT !.locks = txn[t].locks \cup Needs(t)]
  BY <1>2, LockedFields
<1>5. /\ SameRows(y, t) /\ y.comment = txn[t].comment /\ y.req = r /\ y.pc = "insertTask"
      /\ y.read = DirectDeps(k)
  BY <1>2, <1>4 DEF SameRows, TxnState
<1> HIDE DEF y
<1>6. ASSUME NEW d \in DirectDeps(k) PROVE d \in used /\ <<k, d>> \in deps
  <2>1. PICK e \in deps : e[1] = k /\ e[2] = d
    BY DEF DirectDeps
  <2>2. e = <<k, d>> /\ d \in Task
    BY <2>1 DEF Inv, TypeOK, Edge
  <2>3. tasks[d] # None
    BY <2>1 DEF RowsInvariant, DependenciesWithinProject
  <2> QED
    BY <2>1, <2>2, <2>3 DEF RowsInvariant, IdsUsedOnce
<1>7. KnowsOK(y)
  BY <1>2, <1>5, <1>6 DEF KnowsOK
<1> QED
  BY <1>1, <1>2, <1>3, <1>5, <1>7, QuietReplay, RollbackReplay DEF Ending

LEMMA CreateCommentResolveReplay ==
  ASSUME Inv, RowsInvariant, ReplayInvariant, NEW t \in Txn, CreateCommentResolve(t)
  PROVE  ReplayInvariant'
<1> DEFINE r == txn[t].req
           k == r.task
           y == [txn[t] EXCEPT !.project = tasks[k].project, !.pc = "insertComment"]
<1>1. /\ At(t, {"CreateComment"}, "resolve")
      /\ Rollback(t) \/ (tasks[k] # None /\ Go(t, y))
  BY DEF CreateCommentResolve
<1>2. /\ txn[t] \in TxnState /\ txn[t].pc = "resolve" /\ r.kind = "CreateComment"
      /\ r \in Request /\ ChangesOK(txn[t])
  BY <1>1, AtReplay
<1>3. Unwritten(txn[t]) /\ k \in Task
  BY <1>2, RequestFields DEF ChangesOK, Ending
<1>4. /\ SameRows(y, t) /\ y.comment = txn[t].comment /\ y.req = r
      /\ y.pc = "insertComment" /\ y.project = tasks[k].project
  BY <1>2 DEF SameRows, TxnState
<1> HIDE DEF y
<1>5. CASE tasks[k] # None /\ Go(t, y)
  <2>1. MayLink(y, k)
    BY <1>3, <1>4, <1>5 DEF MayLink, RowsInvariant, IdsUsedOnce
  <2>2. KnowsOK(y)
    BY <1>2, <1>4, <2>1 DEF KnowsOK
  <2> QED
    BY <1>2, <1>3, <1>4, <1>5, <2>2, QuietReplay DEF Ending
<1> QED
  BY <1>1, <1>5, RollbackReplay

LEMMA DeleteProjectLockReplay ==
  ASSUME Inv, RowsInvariant, ReplayInvariant, NEW t \in Txn, DeleteProjectLock(t)
  PROVE  ReplayInvariant'
<1> DEFINE y == [Locked(t) EXCEPT !.pc = "cascade"]
<1>1. At(t, {"DeleteProject"}, "lockProject") /\ (Rollback(t) \/ Go(t, y))
  BY DEF DeleteProjectLock
<1>2. /\ txn[t] \in TxnState /\ txn[t].pc = "lockProject"
      /\ txn[t].req.kind = "DeleteProject" /\ ChangesOK(txn[t])
  BY <1>1, AtReplay
<1>3. Unwritten(txn[t])
  BY <1>2 DEF ChangesOK, Ending
<1>4. Locked(t) = [txn[t] EXCEPT !.locks = txn[t].locks \cup Needs(t)]
  BY <1>2, LockedFields
<1>5. /\ SameRows(y, t) /\ y.comment = txn[t].comment /\ y.req = txn[t].req
      /\ y.pc = "cascade"
  BY <1>2, <1>4 DEF SameRows, TxnState
<1> HIDE DEF y
<1>6. KnowsOK(y)
  BY <1>2, <1>5 DEF KnowsOK
<1> QED
  BY <1>1, <1>2, <1>3, <1>5, <1>6, QuietReplay, RollbackReplay DEF Ending

-----------------------------------------------------------------------------
(* The statement with which an operation ends. *)

LEMMA EndReplay ==
  ASSUME Inv, Inv', ReplayInvariant, NEW t \in Txn, NEW y, Go(t, y), Ending(y),
         y.comment = txn[t].comment, y.lastSeq = 0,
         y.pc = "commit" => y.out = << >> /\ y.pending = << >>,
         Says(y, y.out), ChangesOK(y), KnowsOK(y)
  PROVE  ReplayInvariant'
<1>1. txn'[t] = y
  BY DEF Go, Inv, TypeOK
<1>2. y.out \in Seq(Body)
  BY <1>1 DEF Inv, TypeOK, TxnState
<1>3. Block(y) = << >> \o y.out
  BY DEF Block
<1>4. << >> \o y.out = y.out
  BY <1>2
<1>5. RecordsOK(y)
  BY <1>3, <1>4 DEF RecordsOK
<1> QED
  BY <1>5, GoReplay DEF Faithful

LEMMA EndKnows ==
  ASSUME NEW x, NEW y, KnowsOK(x), x.pc \notin {"lock", "resolve"}, Ending(y),
         y.req = x.req, y.read = x.read, y.project = x.project
  PROVE  KnowsOK(y)
BY DEF KnowsOK, OnBoard, Ending

\* insertDependencies for one task.
LEMMA EdgesTo ==
  ASSUME NEW k, NEW ds
  PROVE  ToSet([i \in DOMAIN ds |-> <<k, ds[i]>>]) = {k} \X ToSet(ds)
<1> DEFINE edges == [i \in DOMAIN ds |-> <<k, ds[i]>>]
<1>1. ASSUME NEW e \in ToSet(edges) PROVE e \in {k} \X ToSet(ds)
  <2>1. PICK i \in DOMAIN edges : e = edges[i]
    BY DEF ToSet
  <2>2. i \in DOMAIN ds /\ e = <<k, ds[i]>>
    BY <2>1
  <2> QED
    BY <2>2 DEF ToSet
<1>2. ASSUME NEW e \in {k} \X ToSet(ds) PROVE e \in ToSet(edges)
  <2>1. PICK d \in ToSet(ds) : e = <<k, d>>
    OBVIOUS
  <2>2. PICK i \in DOMAIN ds : d = ds[i]
    BY DEF ToSet
  <2>3. i \in DOMAIN edges /\ edges[i] = e
    BY <2>1, <2>2
  <2> QED
    BY <2>3 DEF ToSet
<1> QED
  BY <1>1, <1>2

LEMMA CreateTaskInsertReplay ==
  ASSUME Inv, Inv', RowsInvariant, ReplayInvariant, NEW t \in Txn, CreateTaskInsert(t)
  PROVE  ReplayInvariant'
<1> DEFINE r == txn[t].req
           k == txn[t].fresh[1]
           row == [project |-> r.project, title |-> r.title,
                   status |-> r.status]
           edges == [i \in DOMAIN r.deps |-> <<k, r.deps[i]>>]
           out == <<[type |-> "task.created", task |-> k, row |-> row,
                     deps |-> ToSet(r.deps)]>>
           puts == [txn[t].puts EXCEPT ![k] = row]
           x == [Locked(t) EXCEPT !.puts = [@ EXCEPT ![k] = row],
                                  !.pending = edges, !.out = out]
           y == Continue(x)
<1>1. At(t, {"CreateTask"}, "insertTask") /\ (Rollback(t) \/ Go(t, y))
  BY DEF CreateTaskInsert
<1>2. /\ txn[t] \in TxnState /\ txn[t].pc = "insertTask"
      /\ r \in Request /\ r.kind = "CreateTask"
      /\ ShapeOK(txn[t]) /\ ReadsOK(txn[t]) /\ ChangesOK(txn[t]) /\ KnowsOK(txn[t])
  BY <1>1, AtReplay
<1>3. Unwritten(txn[t]) /\ txn[t].lastSeq = 0 /\ txn[t].project = r.project
  BY <1>2 DEF ChangesOK, Ending, ShapeOK, ReadsOK
<1>4. ToSet(edges) = {k} \X ToSet(r.deps)
  BY EdgesTo
<1>5. puts = [j \in Task |-> IF j = k THEN row ELSE None]
  BY <1>2, <1>3 DEF TxnState, Unwritten
<1>6. Locked(t) = [txn[t] EXCEPT !.locks = txn[t].locks \cup Needs(t)]
  BY <1>2, LockedFields
<1> HIDE DEF row, edges, out, k
<1>7. /\ y.req = r /\ y.fresh = txn[t].fresh /\ y.comment = txn[t].comment
      /\ y.puts = puts /\ y.pending = edges /\ y.addDeps = {} /\ y.del = {}
      /\ y.project = r.project /\ y.read = txn[t].read /\ y.lastSeq = 0 /\ y.out = out
      /\ Ending(y) /\ (y.pc = "commit" => out = << >> /\ edges = << >>)
  BY <1>2, <1>3, <1>6 DEF TxnState, Continue, Unwritten, Ending
<1> HIDE DEF y, puts
<1>8. Says(y, y.out)
  BY <1>2, <1>7 DEF Says, out, row, k, CreatedRow
<1>9. ChangesOK(y)
  BY <1>2, <1>4, <1>5, <1>7 DEF ChangesOK, Adding, row, k, CreatedRow
<1>10. KnowsOK(y)
  BY <1>2, <1>3, <1>7, EndKnows
<1> QED
  BY <1>1, <1>7, <1>8, <1>9, <1>10, EndReplay, RollbackReplay

LEMMA UpdateTaskWriteReplay ==
  ASSUME Inv, Inv', RowsInvariant, ReplayInvariant, NEW t \in Txn, UpdateTaskWrite(t)
  PROVE  ReplayInvariant'
<1> DEFINE r == txn[t].req
           row == PatchedRow(r, txn[t].current)
           updated == IF r.title = None /\ r.status = None THEN << >>
                      ELSE <<[type |-> "task.updated", task |-> r.task,
                              title |-> r.title, status |-> r.status]>>
           both == Append(updated,
                     [type |-> "task.dependencies_changed", task |-> r.task,
                      dependsOn |-> ToSet(r.deps)])
           old == {e \in deps : e[1] = r.task}
           edges == [i \in DOMAIN r.deps |-> <<r.task, r.deps[i]>>]
           puts == [txn[t].puts EXCEPT ![r.task] = row]
           write == [Locked(t) EXCEPT !.puts = [@ EXCEPT ![r.task] = row]]
           x == Continue([write EXCEPT !.out = updated])
           y == Continue([write EXCEPT !.del = old, !.pending = edges, !.out = both])
<1>1. /\ At(t, {"UpdateTask"}, "write")
      /\ \/ r.deps = None /\ Go(t, x)
         \/ r.deps # None /\ Go(t, y)
  BY DEF UpdateTaskWrite
<1>2. /\ txn[t] \in TxnState /\ txn[t].pc = "write"
      /\ r \in Request /\ r.kind = "UpdateTask"
      /\ ShapeOK(txn[t]) /\ ReadsOK(txn[t]) /\ ChangesOK(txn[t]) /\ KnowsOK(txn[t])
  BY <1>1, AtReplay
<1>3. Unwritten(txn[t]) /\ txn[t].lastSeq = 0 /\ r.task \in Task
  BY <1>2, RequestFields DEF ChangesOK, Ending, ShapeOK
<1>4. row = PatchedRow(r, tasks[r.task])
  BY <1>2 DEF KnowsOK
<1>5. puts = [j \in Task |-> IF j = r.task THEN row ELSE None]
  BY <1>2, <1>3 DEF TxnState, Unwritten
<1>6. ToSet(edges) = {r.task} \X ToSet(r.deps)
  BY EdgesTo
<1>7. old \subseteq {e \in Edge : e[1] = r.task}
  BY DEF Inv, TypeOK
<1>8. Locked(t) = [txn[t] EXCEPT !.locks = txn[t].locks \cup Needs(t)]
  BY <1>2, LockedFields
<1> HIDE DEF row, updated, both, old, edges
<1>9. /\ x.req = r /\ x.comment = txn[t].comment /\ x.puts = puts /\ x.pending = << >>
      /\ x.addDeps = {} /\ x.del = {} /\ x.project = txn[t].project
      /\ x.read = txn[t].read /\ x.lastSeq = 0 /\ x.out = updated
      /\ Ending(x) /\ (x.pc = "commit" => updated = << >>)
  BY <1>2, <1>3, <1>8 DEF TxnState, Continue, Unwritten, Ending
<1>10. /\ y.req = r /\ y.comment = txn[t].comment /\ y.puts = puts /\ y.pending = edges
       /\ y.addDeps = {} /\ y.del = old /\ y.project = txn[t].project
       /\ y.read = txn[t].read /\ y.lastSeq = 0 /\ y.out = both
       /\ Ending(y) /\ (y.pc = "commit" => both = << >> /\ edges = << >>)
  BY <1>2, <1>3, <1>8 DEF TxnState, Continue, Unwritten, Ending
<1> HIDE DEF x, y, puts
<1>11. CASE r.deps = None /\ Go(t, x)
  <2>1. Says(x, x.out)
    BY <1>2, <1>9, <1>11 DEF Says, updated
  <2>2. Adding(x) = {}
    BY <1>9 DEF Adding, ToSet
  <2>3. ChangesOK(x)
    BY <1>2, <1>4, <1>5, <1>9, <1>11, <2>2 DEF ChangesOK
  <2>4. KnowsOK(x)
    BY <1>2, <1>9, EndKnows
  <2> QED
    BY <1>9, <1>11, <2>1, <2>3, <2>4, EndReplay
<1>12. CASE r.deps # None /\ Go(t, y)
  <2>1. Says(y, y.out)
    BY <1>2, <1>10, <1>12 DEF Says, updated, both
  <2>2. Adding(y) = {r.task} \X ToSet(r.deps)
    BY <1>6, <1>10 DEF Adding
  <2>3. ChangesOK(y)
    BY <1>2, <1>4, <1>5, <1>7, <1>10, <1>12, <2>2 DEF ChangesOK, old
  <2>4. KnowsOK(y)
    BY <1>2, <1>10, EndKnows
  <2> QED
    BY <1>10, <1>12, <2>1, <2>3, <2>4, EndReplay
<1> QED
  BY <1>1, <1>11, <1>12

\* What a deletion removes besides the task itself.
LEMMA CascadeParts ==
  ASSUME Inv, ReplayInvariant, NEW k \in Task
  PROVE  /\ \A e \in Edge \cap TaskCascade(k) : e \in deps /\ k \in {e[1], e[2]}
         /\ \A c \in Comment \cap TaskCascade(k) : c \in used /\ comments[c] = k
<1>1. \A e \in Edge \cap TaskCascade(k) : e \in deps /\ k \in {e[1], e[2]}
  BY IdAssumption DEF TaskCascade, Edge
<1>2. ASSUME NEW c \in Comment \cap TaskCascade(k) PROVE c \in used /\ comments[c] = k
  <2>1. c # k /\ c \notin deps
    BY IdAssumption DEF Inv, TypeOK, Edge
  <2>2. comments[c] = k
    BY <1>2, <2>1 DEF TaskCascade
  <2> QED
    BY <2>2, NoneAssumption DEF ReplayInvariant, CommentIdsUsedOnce
<1> QED
  BY <1>1, <1>2

LEMMA DeleteTaskCascadeReplay ==
  ASSUME Inv, Inv', RowsInvariant, ReplayInvariant, NEW t \in Txn, DeleteTaskCascade(t)
  PROVE  ReplayInvariant'
<1> DEFINE r == txn[t].req
           k == r.task
           out == <<[type |-> "task.deleted", task |-> k,
                     removedFromDependenciesOf |-> txn[t].read]>>
           del == TaskCascade(k)
           y == Continue([Locked(t) EXCEPT !.del = del, !.out = out])
<1>1. At(t, {"DeleteTask"}, "cascade") /\ Go(t, y)
  BY DEF DeleteTaskCascade
<1>2. /\ txn[t] \in TxnState /\ txn[t].pc = "cascade"
      /\ r \in Request /\ r.kind = "DeleteTask"
      /\ ShapeOK(txn[t]) /\ ChangesOK(txn[t]) /\ KnowsOK(txn[t])
  BY <1>1, AtReplay
<1>3. Unwritten(txn[t]) /\ txn[t].lastSeq = 0 /\ k \in Task
  BY <1>2, RequestFields DEF ChangesOK, Ending, ShapeOK
<1>4. Locked(t) = [txn[t] EXCEPT !.locks = txn[t].locks \cup Needs(t)]
  BY <1>2, LockedFields
<1> HIDE DEF out, del
<1>5. /\ y.req = r /\ y.comment = txn[t].comment /\ y.del = del /\ y.pending = << >>
      /\ y.project = txn[t].project /\ y.read = txn[t].read /\ y.lastSeq = 0
      /\ y.out = out /\ Ending(y) /\ (y.pc = "commit" => out = << >>)
  BY <1>2, <1>3, <1>4 DEF TxnState, Continue, Unwritten, Ending
<1> HIDE DEF y
<1>6. Says(y, y.out)
  BY <1>2, <1>5 DEF Says, out
<1>7. /\ Task \cap del = {k}
      /\ \A e \in Edge \cap del : k \in {e[1], e[2]}
      /\ \A c \in Comment \cap del : c \in used /\ comments[c] = k /\ k \in del
  BY <1>3, CascadeRows, CascadeParts DEF del
<1>8. ChangesOK(y)
  BY <1>2, <1>5, <1>7 DEF ChangesOK
<1>9. KnowsOK(y)
  BY <1>2, <1>5, EndKnows
<1> QED
  BY <1>1, <1>5, <1>6, <1>8, <1>9, EndReplay

LEMMA DeleteProjectCascadeReplay ==
  ASSUME Inv, Inv', RowsInvariant, ReplayInvariant, NEW t \in Txn, DeleteProjectCascade(t)
  PROVE  ReplayInvariant'
<1> DEFINE r == txn[t].req
           p == r.project
           del == {p} \cup ProjectCascade(p)
           y == Continue([Locked(t) EXCEPT !.del = del])
<1>1. At(t, {"DeleteProject"}, "cascade") /\ Go(t, y)
  BY DEF DeleteProjectCascade
<1>2. /\ txn[t] \in TxnState /\ txn[t].pc = "cascade"
      /\ r \in Request /\ r.kind = "DeleteProject"
      /\ RequestOK(txn[t]) /\ ShapeOK(txn[t]) /\ ChangesOK(txn[t]) /\ KnowsOK(txn[t])
  BY <1>1, AtReplay
<1>3. /\ Unwritten(txn[t]) /\ txn[t].lastSeq = 0 /\ p \in Project
      /\ txn[t].out = << >>
  BY <1>2, RequestFields DEF ChangesOK, Ending, ShapeOK, RequestOK
<1>4. Locked(t) = [txn[t] EXCEPT !.locks = txn[t].locks \cup Needs(t)]
  BY <1>2, LockedFields
<1> HIDE DEF del
<1>5. /\ y.req = r /\ y.comment = txn[t].comment /\ y.del = del /\ y.pending = << >>
      /\ y.project = txn[t].project /\ y.read = txn[t].read /\ y.lastSeq = 0
      /\ y.out = << >> /\ Ending(y)
  BY <1>2, <1>3, <1>4 DEF TxnState, Continue, Unwritten, Ending
<1> HIDE DEF y
<1>6. Says(y, y.out)
  BY <1>2, <1>5 DEF Says
<1>7. ASSUME NEW w \in del, w # p
      PROVE  \E k \in Task : /\ tasks[k] # None /\ tasks[k].project = p
                             /\ w \in TaskCascade(k) /\ k \in del
  <2>1. PICK k \in TasksOf(p) : w \in TaskCascade(k)
    BY <1>7 DEF del, ProjectCascade
  <2>2. k \in TaskCascade(k)
    BY DEF TaskCascade
  <2> QED
    BY <2>1, <2>2 DEF del, ProjectCascade, TasksOf
<1>8. ASSUME NEW k \in Task, tasks[k] # None, tasks[k].project = p PROVE k \in del
  BY <1>8 DEF del, ProjectCascade, TaskCascade, TasksOf
<1>9. ASSUME NEW j \in Task \cap del PROVE tasks[j] # None /\ tasks[j].project = p
  <2>1. j # p
    BY <1>3, IdAssumption
  <2>2. PICK k \in Task : tasks[k] # None /\ tasks[k].project = p /\ j \in TaskCascade(k)
    BY <1>7, <1>9, <2>1
  <2>3. j = k
    BY <2>2, CascadeRows
  <2> QED
    BY <2>2, <2>3
<1>10. ASSUME NEW e \in Edge \cap del PROVE e[1] \in del /\ e[2] \in del
  <2>1. e # p
    BY <1>3, IdAssumption DEF Edge
  <2>2. PICK k \in Task : tasks[k] # None /\ tasks[k].project = p /\ e \in TaskCascade(k)
    BY <1>7, <1>10, <2>1
  <2>3. e \in deps /\ k \in {e[1], e[2]} /\ e[1] \in Task /\ e[2] \in Task
    BY <2>2, CascadeParts DEF Edge
  <2>4. tasks[e[1]] # None /\ tasks[e[2]] # None /\ tasks[e[1]].project = tasks[e[2]].project
    BY <2>3 DEF RowsInvariant, DependenciesWithinProject
  <2> QED
    BY <1>8, <2>2, <2>3, <2>4
<1>11. ASSUME NEW c \in Comment \cap del PROVE c \in used /\ comments[c] \in del
  <2>1. c # p
    BY <1>3, IdAssumption
  <2>2. PICK k \in Task : k \in del /\ c \in TaskCascade(k)
    BY <1>7, <1>11, <2>1
  <2> QED
    BY <2>2, CascadeParts
<1>12. p \in del
  BY DEF del
<1>13. ChangesOK(y)
  BY <1>2, <1>5, <1>9, <1>10, <1>11, <1>12 DEF ChangesOK
<1>14. KnowsOK(y)
  BY <1>2, <1>5, EndKnows
<1> QED
  BY <1>1, <1>5, <1>6, <1>13, <1>14, EndReplay

LEMMA CreateCommentInsertReplay ==
  ASSUME Inv, Inv', RowsInvariant, ReplayInvariant, NEW t \in Txn, CreateCommentInsert(t)
  PROVE  ReplayInvariant'
<1> DEFINE r == txn[t].req
           k == r.task
           out == <<[type |-> "comment.added", comment |-> txn[t].comment,
                     task |-> k]>>
           y == Continue([Locked(t) EXCEPT !.out = out])
<1>1. /\ At(t, {"CreateComment"}, "insertComment")
      /\ Rollback(t) \/ (tasks[k] # None /\ Go(t, y))
  BY DEF CreateCommentInsert
<1>2. /\ txn[t] \in TxnState /\ txn[t].pc = "insertComment"
      /\ r \in Request /\ r.kind = "CreateComment"
      /\ ShapeOK(txn[t]) /\ ChangesOK(txn[t]) /\ KnowsOK(txn[t])
  BY <1>1, AtReplay
<1>3. Unwritten(txn[t]) /\ txn[t].lastSeq = 0 /\ k \in Task
  BY <1>2, RequestFields DEF ChangesOK, Ending, ShapeOK
<1>4. Locked(t) = [txn[t] EXCEPT !.locks = txn[t].locks \cup Needs(t)]
  BY <1>2, LockedFields
<1> HIDE DEF out
<1>5. /\ SameRows(y, t) /\ y.req = r /\ y.comment = txn[t].comment
      /\ y.locks = txn[t].locks \cup Needs(t)
      /\ y.project = txn[t].project /\ y.read = txn[t].read /\ y.lastSeq = 0
      /\ y.out = out /\ Ending(y) /\ (y.pc = "commit" => out = << >>)
  BY <1>2, <1>3, <1>4 DEF SameRows, TxnState, Continue, Ending
<1> HIDE DEF y
<1>6. Says(y, y.out)
  BY <1>2, <1>5 DEF Says, out
<1>7. Unwritten(y) /\ Adding(y) = {}
  BY <1>3, <1>5 DEF Unwritten, SameRows, Adding, ToSet
<1>8. ASSUME tasks[k] # None PROVE Linked(y, k)
  <2>1. Needs(t) = Locks({k}, "keyShare")
    BY <1>2 DEF Needs
  <2>2. Holds(y, k, {"keyShare"})
    BY <1>5, <2>1, HoldsNeeded
  <2>3. Holds(y, k, Mode)
    BY <2>2 DEF Holds, Mode
  <2>4. MayLink(txn[t], k)
    BY <1>2 DEF KnowsOK
  <2>5. tasks[k].project = y.project
    BY <1>3, <1>5, <1>8, <2>4 DEF MayLink, Unwritten
  <2> QED
    BY <1>8, <2>3, <2>5 DEF Linked
<1>9. tasks[k] # None => ChangesOK(y)
  BY <1>2, <1>5, <1>7, <1>8 DEF ChangesOK, Unwritten
<1>10. KnowsOK(y)
  BY <1>2, <1>5, EndKnows
<1>11. y.pc = "commit" => y.out = << >> /\ y.pending = << >>
  BY <1>5, <1>7 DEF Unwritten
<1> QED
  BY <1>1, <1>5, <1>6, <1>9, <1>10, <1>11, EndReplay, RollbackReplay

LEMMA DeleteCommentResolveReplay ==
  ASSUME Inv, Inv', RowsInvariant, ReplayInvariant, NEW t \in Txn, DeleteCommentResolve(t)
  PROVE  ReplayInvariant'
<1> DEFINE r == txn[t].req
           c == r.comment
           k == comments[c]
           out == <<[type |-> "comment.deleted", comment |-> c, task |-> k]>>
           y == [txn[t] EXCEPT !.project = tasks[k].project, !.out = out,
                               !.pc = "deleteComment"]
<1>1. /\ At(t, {"DeleteComment"}, "resolve")
      /\ Rollback(t) \/ (k # None /\ tasks[k] # None /\ Go(t, y))
  BY DEF DeleteCommentResolve
<1>2. /\ txn[t] \in TxnState /\ txn[t].pc = "resolve"
      /\ r \in Request /\ r.kind = "DeleteComment"
      /\ ShapeOK(txn[t]) /\ ChangesOK(txn[t])
  BY <1>1, AtReplay
<1>3. Unwritten(txn[t]) /\ txn[t].lastSeq = 0 /\ c \in Comment
  BY <1>2, RequestFields DEF ChangesOK, Ending, ShapeOK
<1>4. k \in Task \cup {None}
  BY <1>3 DEF Inv, TypeOK
<1> HIDE DEF k, out
<1>5. /\ SameRows(y, t) /\ y.req = r /\ y.comment = txn[t].comment
      /\ y.project = tasks[k].project /\ y.lastSeq = 0 /\ y.out = out
      /\ y.pc = "deleteComment"
  BY <1>2, <1>3 DEF SameRows, TxnState
<1> HIDE DEF y
<1>6. CASE k # None /\ tasks[k] # None /\ Go(t, y)
  <2>1. Says(y, y.out)
    BY <1>2, <1>4, <1>5, <1>6 DEF Says, out
  <2>2. ChangesOK(y)
    BY <1>2, <1>3, <1>5 DEF ChangesOK, Ending, Unwritten, SameRows
  <2>3. c \in used
    BY <1>3, <1>6 DEF ReplayInvariant, CommentIdsUsedOnce, k
  <2>4. KnowsOK(y)
    BY <1>2, <1>5, <2>3 DEF KnowsOK, OnBoard, k
  <2>5. txn'[t] = y
    BY <1>6 DEF Go, Inv, TypeOK
  <2>6. y.out \in Seq(Body)
    BY <2>5 DEF Inv, TypeOK, TxnState
  <2>7. Block(y) = << >> \o y.out
    BY <1>5 DEF Block
  <2>8. << >> \o y.out = y.out
    BY <2>6
  <2>9. RecordsOK(y)
    BY <1>5, <2>1, <2>7, <2>8 DEF RecordsOK
  <2> QED
    BY <1>5, <1>6, <2>2, <2>4, <2>9, GoReplay DEF Faithful
<1> QED
  BY <1>1, <1>6, RollbackReplay

LEMMA DeleteCommentRowReplay ==
  ASSUME Inv, Inv', RowsInvariant, ReplayInvariant, NEW t \in Txn, DeleteCommentRow(t)
  PROVE  ReplayInvariant'
<1> DEFINE r == txn[t].req
           y == Continue([Locked(t) EXCEPT !.del = {r.comment}])
<1>1. At(t, {"DeleteComment"}, "deleteComment") /\ Go(t, y)
  BY DEF DeleteCommentRow
<1>2. /\ txn[t] \in TxnState /\ txn[t].pc = "deleteComment"
      /\ r \in Request /\ r.kind = "DeleteComment"
      /\ ShapeOK(txn[t]) /\ ChangesOK(txn[t]) /\ KnowsOK(txn[t]) /\ RecordsOK(txn[t])
  BY <1>1, AtReplay DEF ReplayInvariant
<1>3. Unwritten(txn[t]) /\ txn[t].lastSeq = 0
  BY <1>2 DEF ChangesOK, Ending, ShapeOK
<1>4. Locked(t) = [txn[t] EXCEPT !.locks = txn[t].locks \cup Needs(t)]
  BY <1>2, LockedFields
<1>5. /\ y.req = r /\ y.comment = txn[t].comment /\ y.puts = txn[t].puts
      /\ y.addDeps = {} /\ y.pending = << >> /\ y.del = {r.comment}
      /\ y.project = txn[t].project /\ y.read = txn[t].read /\ y.lastSeq = 0
      /\ y.out = txn[t].out /\ Ending(y) /\ (y.pc = "commit" => txn[t].out = << >>)
  BY <1>2, <1>3, <1>4 DEF TxnState, Continue, Unwritten, Ending
<1> HIDE DEF y
<1>6. Says(y, y.out)
  <2>1. Block(txn[t]) = << >> \o txn[t].out
    BY <1>3 DEF Block
  <2>2. << >> \o txn[t].out = txn[t].out
    BY <1>2 DEF TxnState
  <2>3. Says(txn[t], txn[t].out)
    BY <1>2, <2>1, <2>2 DEF RecordsOK
  <2> QED
    BY <1>2, <1>5, <2>3 DEF Says
<1>7. Adding(y) = {}
  BY <1>5 DEF Adding, ToSet
<1>8. ChangesOK(y)
  BY <1>2, <1>3, <1>5, <1>7 DEF ChangesOK, Unwritten
<1>9. KnowsOK(y)
  BY <1>2, <1>5, EndKnows
<1> QED
  BY <1>1, <1>5, <1>6, <1>8, <1>9, EndReplay

LEMMA UpdateProjectLockReplay ==
  ASSUME Inv, Inv', RowsInvariant, ReplayInvariant, NEW t \in Txn, UpdateProjectLock(t)
  PROVE  ReplayInvariant'
<1> DEFINE r == txn[t].req
           out == IF r.name = None THEN << >>
                  ELSE <<[type |-> "project.updated", name |-> r.name]>>
           y == Continue([Locked(t) EXCEPT !.project = r.project, !.out = out])
<1>1. At(t, {"UpdateProject"}, "lockProject") /\ (Rollback(t) \/ Go(t, y))
  BY DEF UpdateProjectLock
<1>2. /\ txn[t] \in TxnState /\ txn[t].pc = "lockProject"
      /\ r \in Request /\ r.kind = "UpdateProject"
      /\ ShapeOK(txn[t]) /\ ChangesOK(txn[t])
  BY <1>1, AtReplay
<1>3. Unwritten(txn[t]) /\ txn[t].lastSeq = 0
  BY <1>2 DEF ChangesOK, Ending, ShapeOK
<1>4. Locked(t) = [txn[t] EXCEPT !.locks = txn[t].locks \cup Needs(t)]
  BY <1>2, LockedFields
<1> HIDE DEF out
<1>5. /\ SameRows(y, t) /\ y.req = r /\ y.comment = txn[t].comment
      /\ y.project = r.project /\ y.lastSeq = 0
      /\ y.out = out /\ Ending(y) /\ (y.pc = "commit" => out = << >>)
  BY <1>2, <1>3, <1>4 DEF SameRows, TxnState, Continue, Ending
<1> HIDE DEF y
<1>6. Says(y, y.out)
  BY <1>2, <1>5 DEF Says, out
<1>7. Unwritten(y) /\ Adding(y) = {}
  BY <1>3, <1>5 DEF Unwritten, SameRows, Adding, ToSet
<1>8. ChangesOK(y)
  BY <1>2, <1>5, <1>7 DEF ChangesOK, Unwritten
<1>9. KnowsOK(y)
  BY <1>2, <1>5 DEF KnowsOK
<1>10. y.pc = "commit" => y.out = << >> /\ y.pending = << >>
  BY <1>5, <1>7 DEF Unwritten
<1> QED
  BY <1>1, <1>5, <1>6, <1>8, <1>9, <1>10, EndReplay, RollbackReplay

-----------------------------------------------------------------------------
(* CreateTaskBatch *)

LEMMA BatchInsertReplay ==
  ASSUME Inv, RowsInvariant, ReplayInvariant, NEW t \in Txn, BatchInsert(t)
  PROVE  ReplayInvariant'
<1> DEFINE r == txn[t].req
           ids == txn[t].fresh
           puts == [k \in Task |->
                      IF k \in ToSet(ids)
                      THEN BatchRow(txn[t], CHOOSE i \in DOMAIN ids : ids[i] = k)
                      ELSE txn[t].puts[k]]
           edges == UNION {{ids[i]} \X BatchDeps(txn[t], i) : i \in DOMAIN ids}
           y == [Locked(t) EXCEPT !.puts = puts, !.addDeps = edges,
                                  !.pc = "validate"]
<1>1. /\ At(t, {"CreateTaskBatch"}, "insertTask")
      /\ Go(t, [Locked(t) EXCEPT
           !.puts = [k \in Task |->
                       IF k \in ToSet(ids)
                       THEN BatchRow(txn[t], CHOOSE i \in DOMAIN ids : ids[i] = k)
                       ELSE @[k]],
           !.addDeps = edges, !.pc = "validate"])
  BY DEF BatchInsert
<1>2. /\ txn[t] \in TxnState /\ txn[t].pc = "insertTask"
      /\ r \in Request /\ r.kind = "CreateTaskBatch"
      /\ ChangesOK(txn[t]) /\ KnowsOK(txn[t])
  BY <1>1, AtReplay
<1>3. Unwritten(txn[t])
  BY <1>2 DEF ChangesOK, Ending
<1>4. Locked(t) = [txn[t] EXCEPT !.locks = txn[t].locks \cup Needs(t)]
  BY <1>2, LockedFields
<1>5. Go(t, y)
  <2>1. Locked(t).puts = txn[t].puts
    BY <1>2, <1>4 DEF TxnState
  <2> QED
    BY <1>1, <2>1
<1> HIDE DEF puts, edges
<1>6. /\ y.req = r /\ y.fresh = ids /\ y.comment = txn[t].comment
      /\ y.project = txn[t].project /\ y.read = txn[t].read
      /\ y.puts = puts /\ y.addDeps = edges /\ y.pending = << >> /\ y.del = {}
      /\ y.pc = "validate"
  BY <1>2, <1>3, <1>4 DEF TxnState, Unwritten
<1> HIDE DEF y
<1>7. \A i : BatchRow(y, i) = BatchRow(txn[t], i) /\ BatchDeps(y, i) = BatchDeps(txn[t], i)
  BY <1>6 DEF BatchRow, BatchDeps
<1>8. y.puts = BatchPuts(y)
  BY <1>3, <1>6, <1>7 DEF BatchPuts, puts, Unwritten
<1>9. Adding(y) = BatchEdges(y)
  <2>1. BatchEdges(y) = edges
    BY <1>6, <1>7 DEF BatchEdges, edges
  <2>2. ToSet(y.pending) = {}
    BY <1>6 DEF ToSet
  <2> QED
    BY <1>6, <2>1, <2>2 DEF Adding
<1>10. ChangesOK(y)
  BY <1>2, <1>6, <1>8, <1>9 DEF ChangesOK, Ending
<1>11. KnowsOK(y)
  BY <1>2, <1>6 DEF KnowsOK
<1>12. RecordsOK(y)
  BY <1>6 DEF RecordsOK, Ending
<1> QED
  BY <1>5, <1>6, <1>10, <1>11, <1>12, GoReplay DEF Faithful

\* A set listed as a sequence has all its elements in it.
LEMMA SetToSeqAll ==
  ASSUME NEW S, IsFiniteSet(S)
  PROVE  /\ SetToSeq(S) \in Seq(S)
         /\ \A s \in S : \E i \in DOMAIN SetToSeq(S) : SetToSeq(S)[i] = s
<1> DEFINE n == Cardinality(S)
           f == SetToSeq(S)
<1>1. n \in Nat /\ ExistsBijection(1..n, S)
  BY FS_CardinalityType
<1>2. PICK g \in Bijection(1..n, S) : TRUE
  BY <1>1 DEF ExistsBijection
<1>3. g \in [1..n -> S] /\ IsInjective(g)
  BY <1>2 DEF Bijection, Injection, IsInjective
<1>4. f \in [1..n -> S] /\ IsInjective(f)
  BY <1>3 DEF SetToSeq
<1> HIDE DEF f
<1>5. f \in Injection(1..n, S)
  BY <1>4 DEF Injection, IsInjective
<1>6. Cardinality(1..n) = n
  BY <1>1, FS_Interval
<1>7. f \in Surjection(1..n, S)
  BY <1>5, <1>6, FS_Injection
<1>8. \A s \in S : \E i \in 1..n : f[i] = s
  BY <1>7 DEF Surjection
<1>9. f \in Seq(S)
  BY <1>1, <1>4
<1> QED
  BY <1>4, <1>8, <1>9 DEF f

LEMMA BatchValidateReplay ==
  ASSUME Inv, Inv', RowsInvariant, ReplayInvariant, NEW t \in Txn, BatchValidate(t)
  PROVE  ReplayInvariant'
<1> DEFINE r == txn[t].req
           ids == txn[t].fresh
           last == SetToSeq(Terminals(r.subs))
           added == [i \in DOMAIN last |-> <<r.task, ids[last[i]]>>]
           list == txn[t].read \cup {ids[last[i]] : i \in DOMAIN last}
           created == [i \in DOMAIN ids |->
                         [type |-> "task.created", task |-> ids[i],
                          row |-> BatchRow(txn[t], i), deps |-> BatchDeps(txn[t], i)]]
           out == BatchEvents(created, [type |-> "task.dependencies_changed",
                                        task |-> r.task, dependsOn |-> list])
           y == Continue([txn[t] EXCEPT !.pending = added, !.out = out])
<1>1. /\ At(t, {"CreateTaskBatch"}, "validate")
      /\ Rollback(t) \/ Go(t, y)
  BY DEF BatchValidate
<1>2. /\ txn[t] \in TxnState /\ txn[t].pc = "validate"
      /\ r \in Request /\ r.kind = "CreateTaskBatch"
      /\ RequestOK(txn[t]) /\ ShapeOK(txn[t]) /\ ChangesOK(txn[t]) /\ KnowsOK(txn[t])
  <2>1. At(t, {"CreateTaskBatch"}, "validate")
    <3> HIDE DEF y
    <3> QED
      BY <1>1
  <2> QED
    BY <2>1, AtReplay
<1>3. /\ txn[t].lastSeq = 0 /\ txn[t].puts = BatchPuts(txn[t]) /\ txn[t].del = {}
      /\ Adding(txn[t]) = BatchEdges(txn[t]) /\ txn[t].pending = << >>
  BY <1>2 DEF ChangesOK, ShapeOK
<1>4. Len(r.subs) \in Nat
  BY <1>2 DEF RequestOK, TxnState
<1>5. /\ list = txn[t].read \cup BatchEnds(txn[t])
      /\ ToSet(added) = {r.task} \X BatchEnds(txn[t])
  <2>1. last = SetToSeq(Terminals(r.subs))
    OBVIOUS
  <2> HIDE DEF last
  <2>2. \A d : d \in BatchEnds(txn[t]) <=> \E i \in DOMAIN last : d = ids[last[i]]
    <3>1. IsFiniteSet(1..Len(r.subs))
      BY <1>4, FS_Interval
    <3>2. Terminals(r.subs) \in SUBSET (1..Len(r.subs))
      BY DEF Terminals
    <3>3. IsFiniteSet(Terminals(r.subs))
      BY <3>1, <3>2, FS_Subset
    <3>4. /\ last \in Seq(Terminals(r.subs))
          /\ \A s \in Terminals(r.subs) : \E i \in DOMAIN last : last[i] = s
      BY <2>1, <3>3, SetToSeqAll
    <3>5. \A i \in DOMAIN last : last[i] \in Terminals(r.subs)
      BY <3>4
    <3>6. \A d : d \in BatchEnds(txn[t]) <=> \E s \in Terminals(r.subs) : d = ids[s]
      BY DEF BatchEnds
    <3> QED
      BY <3>4, <3>5, <3>6
  <2>3. list = txn[t].read \cup BatchEnds(txn[t])
    BY <2>2
  <2> DEFINE ds == [i \in DOMAIN last |-> ids[last[i]]]
  <2>4. added = [i \in DOMAIN ds |-> <<r.task, ds[i]>>]
    OBVIOUS
  <2>5. ToSet(ds) = BatchEnds(txn[t])
    BY <2>2 DEF ToSet
  <2> HIDE DEF added, ds
  <2>6. ToSet(added) = {r.task} \X ToSet(ds)
    BY <2>4, EdgesTo
  <2> QED
    BY <2>3, <2>5, <2>6
<1> HIDE DEF last, added, list, out
<1>6. /\ y.req = r /\ y.fresh = ids /\ y.comment = txn[t].comment
      /\ y.project = txn[t].project /\ y.read = txn[t].read
      /\ y.puts = txn[t].puts /\ y.addDeps = txn[t].addDeps /\ y.pending = added
      /\ y.del = txn[t].del /\ y.lastSeq = 0 /\ y.out = out /\ Ending(y)
      /\ (y.pc = "commit" => out = << >> /\ added = << >>)
  BY <1>2, <1>3 DEF TxnState, Continue, Ending
<1> HIDE DEF y
<1>7. /\ \A i : BatchRow(y, i) = BatchRow(txn[t], i) /\ BatchDeps(y, i) = BatchDeps(txn[t], i)
      /\ BatchEnds(y) = BatchEnds(txn[t])
  BY <1>6 DEF BatchRow, BatchDeps, BatchEnds
<1>8. BatchPuts(y) = BatchPuts(txn[t]) /\ BatchEdges(y) = BatchEdges(txn[t])
  BY <1>6, <1>7 DEF BatchPuts, BatchEdges
<1>9. Adding(y) = BatchEdges(y) \cup ({r.task} \X BatchEnds(y))
  <2>1. txn[t].addDeps = BatchEdges(y)
    <3>1. ToSet(txn[t].pending) = {}
      BY <1>3 DEF ToSet
    <3> QED
      BY <1>3, <1>8, <3>1 DEF Adding
  <2> QED
    BY <1>5, <1>6, <1>7, <2>1 DEF Adding
<1>10. Says(y, y.out)
  BY <1>2, <1>5, <1>6, <1>7 DEF Says, out, BatchEvents
<1>11. ChangesOK(y)
  BY <1>2, <1>3, <1>6, <1>8, <1>9 DEF ChangesOK, Ending
<1>12. KnowsOK(y)
  BY <1>2, <1>6, EndKnows
<1> QED
  BY <1>1, <1>6, <1>10, <1>11, <1>12, EndReplay, RollbackReplay

-----------------------------------------------------------------------------
(* The statements every operation shares. *)

\* What x's operation says and writes does not depend on how far it is with
\* its edges and its events.
LEMMA SaysKept ==
  ASSUME NEW x, NEW y, y.req = x.req, y.fresh = x.fresh, y.comment = x.comment,
         y.project = x.project, y.read = x.read, NEW b, Says(x, b)
  PROVE  Says(y, b)
BY DEF Says, BatchRow, BatchDeps, BatchEnds

LEMMA ChangesKept ==
  ASSUME NEW x, NEW y, ChangesOK(x), Ending(x), Ending(y),
         y.req = x.req, y.fresh = x.fresh, y.project = x.project, y.read = x.read,
         y.puts = x.puts, y.del = x.del, Adding(y) = Adding(x), x.locks \subseteq y.locks
  PROVE  ChangesOK(y)
<1>1. /\ BatchPuts(y) = BatchPuts(x) /\ BatchEdges(y) = BatchEdges(x)
      /\ BatchEnds(y) = BatchEnds(x)
  BY DEF BatchPuts, BatchEdges, BatchEnds, BatchRow, BatchDeps
<1>2. \A k : Linked(x, k) => Linked(y, k)
  BY DEF Linked, Holds
<1>3. y.pc # "validate"
  BY DEF Ending
<1> QED
  BY <1>1, <1>2, <1>3 DEF ChangesOK, Ending

LEMMA InsertDependencyReplay ==
  ASSUME Inv, Inv', RowsInvariant, ReplayInvariant, NEW t \in Txn, InsertDependency(t)
  PROVE  ReplayInvariant'
<1> DEFINE pending == txn[t].pending
           e == Head(pending)
           add == txn[t].addDeps \cup {e}
           rest == Tail(pending)
           y == Continue([Locked(t) EXCEPT !.addDeps = add, !.pending = rest])
<1>1. /\ At(t, Kinds, "insertDeps")
      /\ Rollback(t) \/ Go(t, Continue([Locked(t) EXCEPT !.addDeps = @ \cup {e},
                                                         !.pending = Tail(@)]))
  BY DEF InsertDependency
<1>2. /\ txn[t] \in TxnState /\ txn[t].pc = "insertDeps" /\ ShapeOK(txn[t])
      /\ RecordsOK(txn[t]) /\ ChangesOK(txn[t]) /\ KnowsOK(txn[t])
  BY <1>1, AtReplay DEF ReplayInvariant
<1>3. /\ pending \in Seq(Edge) /\ pending # << >> /\ txn[t].lastSeq = 0 /\ Ending(txn[t])
      /\ txn[t].out \in Seq(Body)
  BY <1>2 DEF ShapeOK, TxnState, Ending
<1>4. ToSet(pending) = {e} \cup ToSet(rest)
  <2>1. /\ e = pending[1] /\ 1 \in DOMAIN pending
        /\ \A i \in DOMAIN rest : i + 1 \in DOMAIN pending /\ rest[i] = pending[i + 1]
    BY <1>3
  <2>2. \A i \in DOMAIN pending : i # 1 => i - 1 \in DOMAIN rest /\ rest[i - 1] = pending[i]
    BY <1>3
  <2> HIDE DEF e, rest, pending
  <2>3. \A f \in ToSet(pending) : f \in {e} \cup ToSet(rest)
    BY <2>1, <2>2 DEF ToSet
  <2>4. \A f \in {e} \cup ToSet(rest) : f \in ToSet(pending)
    BY <2>1 DEF ToSet
  <2> QED
    BY <2>3, <2>4
<1>5. Locked(t) = [txn[t] EXCEPT !.locks = txn[t].locks \cup Needs(t)]
  BY <1>2, LockedFields
<1>6. Rollback(t) \/ Go(t, y)
  <2>1. Locked(t).addDeps = txn[t].addDeps /\ Locked(t).pending = txn[t].pending
    BY <1>2, <1>5 DEF TxnState
  <2> QED
    BY <1>1, <2>1
<1> HIDE DEF e, add, rest
<1>7. /\ y.req = txn[t].req /\ y.fresh = txn[t].fresh /\ y.comment = txn[t].comment
      /\ y.project = txn[t].project /\ y.read = txn[t].read
      /\ y.puts = txn[t].puts /\ y.pending = rest /\ y.addDeps = add
      /\ y.del = txn[t].del /\ y.locks = txn[t].locks \cup Needs(t)
      /\ y.lastSeq = 0 /\ y.out = txn[t].out /\ Ending(y)
      /\ (y.pc = "commit" => rest = << >> /\ txn[t].out = << >>)
  BY <1>2, <1>3, <1>5 DEF TxnState, Continue, Ending
<1> HIDE DEF y, pending
<1>8. Adding(y) = Adding(txn[t])
  BY <1>4, <1>7 DEF Adding, add, pending
<1>9. ChangesOK(y)
  BY <1>2, <1>3, <1>7, <1>8, ChangesKept
<1>10. KnowsOK(y)
  BY <1>2, <1>7, EndKnows
<1>11. Says(y, y.out)
  <2>1. Block(txn[t]) = << >> \o txn[t].out
    BY <1>3 DEF Block
  <2>2. << >> \o txn[t].out = txn[t].out
    BY <1>3
  <2>3. Says(txn[t], txn[t].out)
    BY <1>2, <1>3, <2>1, <2>2 DEF RecordsOK
  <2> QED
    BY <1>7, <2>3, SaysKept
<1> QED
  BY <1>6, <1>7, <1>9, <1>10, <1>11, EndReplay, RollbackReplay

\* y is x when it has recorded its next event, e.
RecordsNext(x, e, y) ==
  /\ Recording(x) /\ x.out # << >>
  /\ \A f \in x.evs : f.seq <= First(x) + Claimed(x)
  /\ \A f, g \in x.evs : f.seq = g.seq => f = g
  /\ e \in Event /\ e.seq = First(x) + Claimed(x) + 1 /\ e.body = Head(x.out)
  /\ y.project = x.project /\ y.lastSeq = e.seq
  /\ y.evs = x.evs \cup {e} /\ y.out = Tail(x.out)

\* Recording its next event moves a payload from what x is going to record to
\* what it has recorded.
LEMMA RecordedSame ==
  ASSUME NEW x, NEW e, NEW y, RecordsNext(x, e, y)
  PROVE  Block(y) = Block(x)
<1> DEFINE base == First(x)
           n == Claimed(x)
           m == Len(x.out)
<1>1. n \in Nat /\ base \in Nat /\ m \in Nat /\ m > 0 /\ x.out \in Seq(Body)
  BY DEF Claimed, Recording, RecordsNext
<1>2. First(y) = base /\ Claimed(y) = n + 1
  <2>1. First(y) = base
    BY DEF First, RecordsNext
  <2>2. y.lastSeq = base + n + 1
    BY DEF RecordsNext
  <2> HIDE DEF base, n
  <2> QED
    BY <1>1, <2>1, <2>2 DEF Claimed
<1>3. /\ Block(x) \in Seq(Body) /\ Len(Block(x)) = n + m
      /\ \A i \in 1..n : \E f \in x.evs : f.seq = base + i /\ Block(x)[i] = f.body
      /\ \A j \in 1..m : Block(x)[n + j] = x.out[j]
  BY BlockParts DEF RecordsNext
<1>4. /\ y.out \in Seq(Body) /\ Len(y.out) = m - 1 /\ Head(x.out) = x.out[1]
      /\ \A j \in 1..(m - 1) : y.out[j] = x.out[j + 1]
  BY <1>1 DEF RecordsNext
<1>5. /\ e \in Event /\ e.seq = base + n + 1 /\ e.body = Head(x.out)
      /\ y.evs = x.evs \cup {e} /\ y.lastSeq = base + n + 1
      /\ x.evs \subseteq Event
      /\ \A f \in x.evs : f.seq <= base + n
      /\ \A f, g \in x.evs : f.seq = g.seq => f = g
  BY DEF RecordsNext, Recording
<1> HIDE DEF base, n, m
<1>6. ASSUME NEW i \in 1..(n + 1) PROVE \E f \in y.evs : f.seq = base + i
  <2>1. CASE i = n + 1
    <3>1. e.seq = base + i
      BY <1>1, <1>5, <2>1
    <3> QED
      BY <1>5, <3>1
  <2>2. CASE i \in 1..n
    <3>1. PICK f \in x.evs : f.seq = base + i
      BY <2>2, <1>3
    <3> QED
      BY <1>5, <3>1
  <2> QED
    BY <1>1, <2>1, <2>2
<1>7. Recording(y)
  <2>1. y.evs \subseteq Event /\ y.lastSeq \in Nat /\ First(y) < y.lastSeq
    BY <1>1, <1>2, <1>5
  <2>2. \A i \in 1..Claimed(y) : \E f \in y.evs : f.seq = First(y) + i
    BY <1>2, <1>6
  <2>3. y.out \in Seq(Body) /\ First(y) \in Nat
    BY <1>1, <1>2, <1>4
  <2> QED
    BY <2>1, <2>2, <2>3 DEF Recording
<1>8. /\ Block(y) \in Seq(Body) /\ Len(Block(y)) = (n + 1) + (m - 1)
      /\ \A i \in 1..(n + 1) :
           \E f \in y.evs : f.seq = base + i /\ Block(y)[i] = f.body
      /\ \A j \in 1..(m - 1) : Block(y)[n + 1 + j] = y.out[j]
  <2>1. /\ Block(y) \in Seq(Body) /\ Len(Block(y)) = Claimed(y) + Len(y.out)
        /\ \A i \in 1..Claimed(y) :
             \E f \in y.evs : f.seq = First(y) + i /\ Block(y)[i] = f.body
        /\ \A j \in 1..Len(y.out) : Block(y)[Claimed(y) + j] = y.out[j]
    BY <1>7, BlockParts
  <2> QED
    BY <1>2, <1>4, <2>1
<1>9. ASSUME NEW i \in 1..(n + m) PROVE Block(y)[i] = Block(x)[i]
  <2>1. CASE i \in 1..n
    <3>1. PICK f \in x.evs : f.seq = base + i /\ Block(x)[i] = f.body
      BY <1>3, <2>1
    <3>2. i \in 1..(n + 1)
      BY <1>1, <2>1
    <3>3. PICK g \in y.evs : g.seq = base + i /\ Block(y)[i] = g.body
      BY <1>8, <3>2
    <3>4. g # e
      BY <1>1, <1>5, <2>1, <3>3
    <3> QED
      BY <1>5, <3>1, <3>3, <3>4
  <2>2. CASE i = n + 1
    <3>1. i \in 1..(n + 1)
      BY <1>1, <2>2
    <3>2. PICK g \in y.evs : g.seq = base + i /\ Block(y)[i] = g.body
      BY <1>8, <3>1
    <3>3. g = e
      BY <1>1, <1>5, <2>2, <3>2
    <3>4. 1 \in 1..m
      BY <1>1
    <3>5. Block(x)[n + 1] = x.out[1]
      BY <1>3, <3>4
    <3> QED
      BY <1>4, <1>5, <2>2, <3>2, <3>3, <3>5
  <2>3. CASE i \in (n + 2)..(n + m)
    <3>1. PICK j \in 1..(m - 1) : i = n + 1 + j
      <4>1. i - n - 1 \in 1..(m - 1) /\ i = n + 1 + (i - n - 1)
        BY <1>1, <2>3
      <4> QED
        BY <4>1
    <3>2. Block(y)[i] = x.out[j + 1]
      BY <1>4, <1>8, <3>1
    <3>3. j + 1 \in 1..m /\ i = n + (j + 1)
      BY <1>1, <3>1
    <3> QED
      BY <1>3, <3>2, <3>3
  <2> QED
    BY <1>1, <2>1, <2>2, <2>3
<1>10. Len(Block(y)) = Len(Block(x)) /\ Len(Block(x)) = n + m
  BY <1>1, <1>3, <1>8
<1>11. \A i \in 1..Len(Block(y)) : Block(y)[i] = Block(x)[i]
  BY <1>9, <1>10
<1> QED
  BY <1>3, <1>8, <1>10, <1>11, SeqEqual

LEMMA RecordEventReplay ==
  ASSUME Inv, Inv', RowsInvariant, ReplayInvariant, NEW t \in Txn, RecordEvent(t)
  PROVE  ReplayInvariant'
<1> DEFINE p == txn[t].project
           last == txn[t].lastSeq
           base == projects[p].lastSeq
           seq == 1 + IF last = 0 THEN base ELSE last
           e == [project |-> p, seq |-> seq, body |-> Head(txn[t].out)]
           evs == txn[t].evs \cup {e}
           rest == Tail(txn[t].out)
           y == Continue([Locked(t) EXCEPT !.lastSeq = seq, !.evs = evs, !.out = rest])
<1>1. /\ At(t, Kinds, "record")
      /\ \/ Rollback(t)
         \/ /\ projects[p] # None
            /\ Go(t, Continue([Locked(t) EXCEPT
                 !.lastSeq = seq, !.evs = @ \cup {e}, !.out = Tail(@)]))
  BY DEF RecordEvent
<1>2. /\ txn[t] \in TxnState /\ txn[t].pc = "record" /\ ShapeOK(txn[t])
      /\ ClaimsOK(txn[t])
      /\ RecordsOK(txn[t]) /\ ChangesOK(txn[t]) /\ KnowsOK(txn[t])
  BY <1>1, AtReplay, AtFacts DEF ReplayInvariant
<1>3. /\ p \in Project /\ txn[t].out \in Seq(Body) /\ txn[t].out # << >>
      /\ txn[t].pending = << >> /\ last \in Nat /\ txn[t].evs \subseteq Event
      /\ Ending(txn[t])
  BY <1>2 DEF ShapeOK, TxnState, Ending
<1>4. Locked(t) = [txn[t] EXCEPT !.locks = txn[t].locks \cup Needs(t)]
  BY <1>2, LockedFields
<1>5. CASE projects[p] # None /\ Go(t, Continue([Locked(t) EXCEPT
             !.lastSeq = seq, !.evs = @ \cup {e}, !.out = Tail(@)]))
  <2>1. Go(t, y)
    <3>1. Locked(t).evs = txn[t].evs /\ Locked(t).out = txn[t].out
      BY <1>2, <1>4 DEF TxnState
    <3> QED
      BY <1>5, <3>1
  <2>2. base \in Nat
    BY <1>3, <1>5 DEF Inv, TypeOK, ProjectRow
  <2>3. /\ last = 0 => txn[t].evs = {}
        /\ last > 0 =>
             /\ base < last
             /\ \A f \in txn[t].evs : f.seq \in (base + 1)..last
             /\ \A i \in (base + 1)..last : \E f \in txn[t].evs : f.seq = i
             /\ \A f, g \in txn[t].evs : f.seq = g.seq => f = g
    BY <1>2 DEF ClaimsOK
  <2>4. PICK x : x = txn[t]
    OBVIOUS
  <2>5. First(x) = base /\ Claimed(x) = IF last = 0 THEN 0 ELSE last - base
    BY <2>4 DEF First, Claimed
  <2> HIDE DEF base
  <2>6. /\ First(x) \in Nat /\ Claimed(x) \in Nat /\ seq = First(x) + Claimed(x) + 1
        /\ seq \in Nat /\ seq > 0 /\ x.lastSeq = last
        /\ x.lastSeq > 0 => First(x) < x.lastSeq
    <3>1. CASE last = 0
      BY <2>2, <2>4, <2>5, <3>1
    <3>2. CASE last > 0
      BY <1>3, <2>2, <2>3, <2>4, <2>5, <3>2
    <3> QED
      BY <1>3, <3>1, <3>2
  <2>7. /\ \A i \in 1..Claimed(x) : \E f \in x.evs : f.seq = First(x) + i
        /\ \A f \in x.evs : f.seq <= First(x) + Claimed(x)
        /\ \A f, g \in x.evs : f.seq = g.seq => f = g
        /\ x.lastSeq = 0 => x.evs = {}
    <3>1. CASE last = 0
      BY <2>3, <2>4, <2>5, <3>1
    <3>2. CASE last > 0
      <4>1. \A i \in 1..Claimed(x) : base + i \in (base + 1)..last
        BY <1>3, <2>2, <2>3, <2>5, <3>2
      <4>2. \A i \in 1..Claimed(x) : \E f \in x.evs : f.seq = First(x) + i
        BY <2>3, <2>4, <2>5, <3>2, <4>1
      <4>3. First(x) + Claimed(x) = last
        BY <1>3, <2>2, <2>5, <3>2
      <4>4. \A f \in x.evs : f.seq <= last
        BY <1>3, <2>2, <2>3, <2>4, <3>2
      <4> QED
        BY <2>3, <2>4, <3>2, <4>2, <4>3, <4>4
    <3> QED
      BY <1>3, <3>1, <3>2
  <2>8. e \in Event /\ e.seq = seq /\ e.body = Head(x.out)
    <3>1. Head(txn[t].out) \in Body
      BY <1>3
    <3> HIDE DEF seq
    <3> QED
      BY <1>3, <2>4, <2>6, <3>1 DEF Event
  <2> HIDE DEF seq, e
  <2>9. /\ y.req = x.req /\ y.fresh = x.fresh /\ y.comment = x.comment
        /\ y.project = x.project /\ y.read = x.read
        /\ y.puts = x.puts /\ y.pending = << >> /\ y.addDeps = x.addDeps
        /\ y.del = x.del /\ x.locks \subseteq y.locks
        /\ y.lastSeq = seq /\ y.evs = x.evs \cup {e} /\ y.out = Tail(x.out)
        /\ Ending(y) /\ (y.pc = "commit" => y.out = << >>)
    BY <1>2, <1>3, <1>4, <2>4 DEF TxnState, Continue, Ending
  <2> HIDE DEF y
  <2>10. Block(y) = Block(x)
    <3>1. Recording(x)
      BY <1>3, <2>4, <2>6, <2>7 DEF Recording
    <3>2. RecordsNext(x, e, y)
      BY <1>3, <2>4, <2>6, <2>7, <2>8, <2>9, <3>1 DEF RecordsNext
    <3> QED
      BY <3>2, RecordedSame
  <2>11. Says(x, Block(x))
    BY <1>2, <1>3, <2>4 DEF RecordsOK
  <2>12. RecordsOK(y)
    <3>1. Says(y, Block(x))
      BY <2>9, <2>11, SaysKept
    <3> QED
      BY <2>9, <2>10, <3>1 DEF RecordsOK
  <2>13. ChangesOK(y)
    <3>1. Adding(y) = Adding(x)
      BY <1>3, <2>4, <2>9 DEF Adding
    <3> QED
      BY <1>2, <1>3, <2>4, <2>9, <3>1, ChangesKept
  <2>14. KnowsOK(y)
    BY <1>2, <2>4, <2>9, EndKnows
  <2> QED
    BY <2>1, <2>4, <2>9, <2>12, <2>13, <2>14, GoReplay DEF Faithful
<1> QED
  BY <1>1, <1>5, RollbackReplay

-----------------------------------------------------------------------------
(* A request arrives, a project is created. *)

LEMMA BeginReplay ==
  ASSUME Inv, ReplayInvariant, NEW t \in Txn, NEW r \in Request, Begin(t, r)
  PROVE  ReplayInvariant'
<1>1. PICK ids \in [1..NewTasks(r) -> FreshTasks],
           c \in IF r.kind = "CreateComment" THEN FreshComments ELSE {None} :
        Go(t, [Idle EXCEPT !.req = r, !.pc = FirstPC(r.kind),
                           !.fresh = ids, !.comment = c])
  BY DEF Begin
<1> DEFINE x == [Idle EXCEPT !.req = r, !.pc = FirstPC(r.kind),
                             !.fresh = ids, !.comment = c]
<1>2. /\ x.req = r /\ x.pc = FirstPC(r.kind) /\ x.comment = c /\ Unwritten(x)
  BY DEF Idle, Unwritten
<1> HIDE DEF x
<1>3. r.kind \in {"CreateTask", "UpdateTask", "DeleteTask", "CreateTaskBatch",
                  "CreateComment", "DeleteComment", "UpdateProject",
                  "DeleteProject"}
  BY DEF Request
<1>4. /\ x.pc \in {"validate", "lock", "resolve", "lockProject"}
      /\ r.kind \in {"UpdateTask", "DeleteTask", "CreateTaskBatch"} => x.pc = "lock"
      /\ r.kind \in {"CreateComment", "DeleteComment"} => x.pc = "resolve"
  BY <1>2, <1>3 DEF FirstPC
<1>5. RecordsOK(x)
  BY <1>4 DEF RecordsOK, Ending
<1>6. ChangesOK(x)
  BY <1>2, <1>4 DEF ChangesOK, Ending
<1>7. KnowsOK(x)
  BY <1>2, <1>4 DEF KnowsOK
<1>8. x.comment \in {None} \cup FreshComments
  BY <1>2
<1>9. Go(t, x)
  BY <1>1 DEF x
<1> QED
  BY <1>5, <1>6, <1>7, <1>8, <1>9, GoReplay DEF Faithful

\* What an open transaction says and knows does not change when p comes into
\* being.
LEMMA CreateProjectFaithful ==
  ASSUME Inv, RowsInvariant, NEW p \in Project, NEW name \in Text, CreateProject(p, name),
         NEW t \in Txn, NEW x, x = txn[t], Faithful(x)
  PROVE  Faithful(x)'
<1>1. /\ projects' = [projects EXCEPT ![p] = [name |-> name, lastSeq |-> 0]]
      /\ used' = used \cup {p} /\ p \notin used
      /\ tasks' = tasks /\ deps' = deps /\ comments' = comments
  BY DEF CreateProject
<1>2. projects[p] = None
  BY <1>1 DEF Inv, LogInvariant
<1>3. Block(x)' = Block(x)
  <2>1. CASE x.lastSeq = 0
    <3>1. Block(x) = << >> \o x.out
      BY <2>1 DEF Block
    <3>2. Block(x)' = << >> \o x.out
      BY <2>1 DEF Block
    <3> QED
      BY <3>1, <3>2
  <2>2. CASE x.lastSeq # 0
    <3>1. x.lastSeq \in Nat
      BY DEF Inv, TypeOK, TxnState
    <3>2. x.project \in Project /\ projects[x.project] # None
      BY <2>2, <3>1 DEF Inv, LogInvariant, ClaimsOK
    <3>3. projects'[x.project] = projects[x.project]
      BY <1>1, <1>2, <3>2 DEF Inv, TypeOK
    <3> QED
      BY <3>3 DEF Block
  <2> QED
    BY <2>1, <2>2
<1>4. PICK b : b = Block(x)
  OBVIOUS
<1>5. Says(x, b) = Says(x, b)'
  BY DEF Says, BatchRow, BatchDeps, BatchEnds, Terminals, CreatedRow
<1>6. RecordsOK(x)'
  BY <1>3, <1>4, <1>5 DEF Faithful, RecordsOK, Ending
<1>7. ChangesOK(x)'
  BY <1>1 DEF Faithful, ChangesOK, Ending, Linked, Holds, Unwritten
<1>8. KnowsOK(x)'
  BY <1>1 DEF Faithful, KnowsOK, Dependents, DirectDeps, MayLink, OnBoard
<1> QED
  BY <1>6, <1>7, <1>8 DEF Faithful

\* A new project shows nothing and has an empty log.
LEMMA NewBoardShown ==
  ASSUME Inv, Inv', RowsInvariant, RowsInvariant', NEW p \in Project, NEW name \in Text,
         CreateProject(p, name)
  PROVE  Shows(Replay(LogOf(p)), p, Tables(p))'
<1>1. /\ projects'[p] = [name |-> name, lastSeq |-> 0] /\ p \notin used
      /\ tasks' = tasks /\ deps' = deps /\ comments' = comments
  BY DEF CreateProject, Inv, TypeOK
<1>2. projects[p] = None
  BY <1>1 DEF Inv, LogInvariant
<1>3. PICK w, s : w = Replay(LogOf(p))' /\ s = Tables(p)'
  OBVIOUS
<1>4. s.tasks = tasks /\ s.deps = deps /\ s.comments = comments
  BY <1>1, <1>3 DEF Tables
<1>5. Live(s, p) = {}
  BY <1>2, <1>4 DEF Live, RowsInvariant
<1>6. w = EmptyView
  <2>1. LogOf(p)' = << >>
    <3>1. LogOf(p)' = [i \in 1..0 |-> (CHOOSE e \in events' : e.project = p /\ e.seq = i).body]
      BY <1>1 DEF LogOf
    <3>2. 1..0 = {}
      OBVIOUS
    <3> QED
      BY <3>1, <3>2
  <2>2. Len(<< >>) = 0
    OBVIOUS
  <2>3. Views(<< >>)[0] = EmptyView
    BY <2>2, ViewsStep
  <2> QED
    BY <1>3, <2>1, <2>2, <2>3, ReplayKept DEF Replay
<1>7. None \notin Task
  BY NoneAssumption
<1>8. /\ w.name = None /\ w.deps = {}
      /\ w.tasks = [k \in Task |-> None] /\ w.comments = [c \in Comment |-> None]
      /\ w \in View
  BY <1>6 DEF EmptyView, View
<1>9. Shows(w, p, s)
  BY <1>5, <1>8 DEF Shows
<1> QED
  BY <1>3, <1>9 DEF Shows, Live, View

LEMMA CreateProjectReplay ==
  ASSUME Inv, Inv', RowsInvariant, RowsInvariant', ReplayInvariant,
         NEW p \in Project, NEW name \in Text, CreateProject(p, name)
  PROVE  ReplayInvariant'
<1>1. /\ projects' = [projects EXCEPT ![p] = [name |-> name, lastSeq |-> 0]]
      /\ used' = used \cup {p} /\ events' = events /\ txn' = txn
      /\ tasks' = tasks /\ deps' = deps /\ comments' = comments
  BY DEF CreateProject
<1>2. ASSUME NEW u \in Txn, txn'[u].pc # "idle"
      PROVE  (RecordsOK(txn[u]) /\ ChangesOK(txn[u]) /\ KnowsOK(txn[u]))'
  <2>1. PICK v : v = txn[u]
    OBVIOUS
  <2>2. Faithful(v)'
    BY <1>1, <1>2, <2>1, CreateProjectFaithful DEF ReplayInvariant, Faithful
  <2> QED
    BY <1>1, <2>1, <2>2 DEF Faithful
<1>3. CommentIdsUsedOnce'
  <2>1. \A u \in Txn : txn[u].comment # p
    BY IdAssumption, NoneAssumption DEF Inv, TypeOK, TxnState
  <2> QED
    BY <1>1, <2>1 DEF ReplayInvariant, CommentIdsUsedOnce
<1>4. ASSUME NEW q \in Project, projects'[q] # None, q # p
      PROVE  Shows(Replay(LogOf(q)), q, Tables(q))'
  <2>1. projects'[q] = projects[q]
    BY <1>1, <1>4 DEF Inv, TypeOK
  <2>2. PICK s, s2, log : s = Tables(q) /\ s2 = Tables(q)' /\ log = LogOf(q)
    OBVIOUS
  <2>3. /\ s2.name = s.name /\ s2.tasks = s.tasks /\ s2.deps = s.deps /\ s2.deps = deps
        /\ s2.comments = s.comments /\ s.used \subseteq s2.used
    BY <1>1, <2>1, <2>2 DEF Tables
  <2>4. SameBoard(s, s2, q)
    BY <2>3 DEF SameBoard, Live
  <2>5. Shows(Replay(log), q, s)
    BY <1>4, <2>1, <2>2 DEF ReplayInvariant
  <2>6. s2.deps \subseteq Edge
    BY <2>3 DEF Inv, TypeOK
  <2>7. Shows(Replay(log), q, s2)
    BY <2>4, <2>5, <2>6, SameBoardShown
  <2>8. LogOf(q)' = log
    BY <1>1, <2>1, <2>2 DEF LogOf
  <2>9. Replay(LogOf(q))' = Replay(log)
    BY <2>8, ReplayKept
  <2> QED
    BY <2>2, <2>7, <2>9 DEF Shows, Live, View
<1> QED
  BY <1>2, <1>3, <1>4, NewBoardShown DEF ReplayInvariant

-----------------------------------------------------------------------------
(* The theorems. *)

LEMMA FailReplay ==
  ASSUME Inv, ReplayInvariant, NEW t \in Txn, Fail(t) \/ DeadlockVictim(t)
  PROVE  ReplayInvariant'
BY RollbackReplay DEF Fail, DeadlockVictim

LEMMA StatementReplay ==
  ASSUME Inv, Inv', RowsInvariant, NamesInvariant, ReplayInvariant,
         NEW t \in Txn, Statement(t)
  PROVE  ReplayInvariant'
<1>1. CASE CreateTaskValidate(t) \/ CreateTaskInsert(t)
  BY <1>1, CreateTaskValidateReplay, CreateTaskInsertReplay
<1>2. CASE UpdateTaskLock(t) \/ UpdateTaskValidate(t)
           \/ UpdateTaskComplete(t) \/ UpdateTaskWrite(t)
  BY <1>2, UpdateTaskLockReplay, UpdateTaskCheckReplay, UpdateTaskWriteReplay
<1>3. CASE DeleteTaskLock(t) \/ DeleteTaskCascade(t)
  BY <1>3, DeleteTaskLockReplay, DeleteTaskCascadeReplay
<1>4. CASE BatchLock(t) \/ BatchInsert(t) \/ BatchValidate(t)
  BY <1>4, BatchLockReplay, BatchInsertReplay, BatchValidateReplay
<1>5. CASE CreateCommentResolve(t) \/ CreateCommentInsert(t)
           \/ DeleteCommentResolve(t) \/ DeleteCommentRow(t)
  BY <1>5, CreateCommentResolveReplay, CreateCommentInsertReplay,
     DeleteCommentResolveReplay, DeleteCommentRowReplay
<1>6. CASE UpdateProjectLock(t) \/ DeleteProjectLock(t) \/ DeleteProjectCascade(t)
  BY <1>6, UpdateProjectLockReplay, DeleteProjectLockReplay, DeleteProjectCascadeReplay
<1>7. CASE InsertDependency(t) \/ RecordEvent(t) \/ Commit(t) \/ DeadlockVictim(t)
  BY <1>7, InsertDependencyReplay, RecordEventReplay, CommitReplay, FailReplay
<1> QED
  BY <1>1, <1>2, <1>3, <1>4, <1>5, <1>6, <1>7 DEF Statement

LEMMA InitReplay == Init => ReplayInvariant
<1> SUFFICES ASSUME Init PROVE ReplayInvariant
  OBVIOUS
<1>1. Idle.pc = "idle" /\ Idle.comment = None
  BY DEF Idle
<1>2. CommentIdsUsedOnce
  BY <1>1 DEF Init, CommentIdsUsedOnce
<1> QED
  BY <1>1, <1>2 DEF Init, ReplayInvariant

LEMMA NextReplay ==
  /\ Inv /\ Inv' /\ RowsInvariant /\ RowsInvariant' /\ NamesInvariant
  /\ ReplayInvariant /\ [Next]_vars
  => ReplayInvariant'
<1> SUFFICES ASSUME Inv, Inv', RowsInvariant, RowsInvariant', NamesInvariant,
                    ReplayInvariant, [Next]_vars
             PROVE  ReplayInvariant'
  OBVIOUS
<1>1. CASE \E p \in Project, name \in Text : CreateProject(p, name)
  BY <1>1, CreateProjectReplay
<1>2. ASSUME NEW t \in Txn, \E r \in Request : Begin(t, r)
      PROVE  ReplayInvariant'
  BY <1>2, BeginReplay
<1>3. ASSUME NEW t \in Txn, Statement(t)
      PROVE  ReplayInvariant'
  BY <1>3, StatementReplay
<1>4. ASSUME NEW t \in Txn, Fail(t)
      PROVE  ReplayInvariant'
  BY <1>4, FailReplay
<1>5. CASE UNCHANGED vars
  <2>1. CommentIdsUsedOnce'
    BY <1>5 DEF vars, ReplayInvariant, CommentIdsUsedOnce
  <2>2. ASSUME NEW p \in Project, projects'[p] # None
        PROVE  Shows(Replay(LogOf(p)), p, Tables(p))'
    BY <1>5, <2>2, BoardKept DEF vars, ReplayInvariant
  <2>3. ASSUME NEW u \in Txn, txn'[u].pc # "idle"
        PROVE  (RecordsOK(txn[u]) /\ ChangesOK(txn[u]) /\ KnowsOK(txn[u]))'
    <3>1. PICK v : v = txn[u]
      OBVIOUS
    <3>2. Faithful(v)
      BY <1>5, <2>3, <3>1 DEF vars, ReplayInvariant, Faithful
    <3>3. Faithful(v)'
      BY <1>5, <3>2, FaithfulKept DEF vars
    <3> QED
      BY <1>5, <3>1, <3>3 DEF vars, Faithful
  <2> QED
    BY <2>1, <2>2, <2>3 DEF ReplayInvariant
<1> QED
  BY <1>1, <1>2, <1>3, <1>4, <1>5 DEF Next

\* The log of every project shows its tables, and what each open transaction
\* has recorded or will record is what it has written: what makes the next
\* theorems inductive.
THEOREM LogShowsTables == Spec => []ReplayInvariant
BY InitInv, NextInv, InitRows, NextRows, InitNames, NextNames, InitReplay, NextReplay,
   PTL DEF Spec

LEMMA ShownMatches ==
  ASSUME Inv, RowsInvariant, ReplayInvariant, NEW p \in Project, projects[p] # None,
         NEW v, v = Replay(LogOf(p))
  PROVE  /\ BoardMatches(p, v, {e \in v.deps : v.tasks[e[2]] # None})
         /\ "CreateTaskBatch" \notin Kinds => BoardMatches(p, v, v.deps)
<1>1. PICK s : s = Tables(p)
  OBVIOUS
<1>2. /\ Shows(v, p, s) /\ s.name = projects[p].name /\ s.tasks = tasks
      /\ s.deps = deps /\ s.comments = comments
  BY <1>1 DEF ReplayInvariant, Tables
<1>3. Live(s, p) = TasksOf(p)
  BY <1>2 DEF Live, TasksOf
<1>4. /\ v.tasks \in [Task -> TaskRow \cup {None}] /\ v.deps \subseteq Edge
      /\ v.comments \in [Comment -> Task \cup {None}]
  BY <1>2 DEF Shows, View
<1>5. v.tasks = [k \in Task |-> IF k \in TasksOf(p) THEN tasks[k] ELSE None]
  BY <1>2, <1>3, <1>4 DEF Shows
<1>6. v.comments = [c \in Comment |-> IF comments[c] \in TasksOf(p)
                                      THEN comments[c] ELSE None]
  BY <1>2, <1>3, <1>4 DEF Shows
<1>7. \A k \in Task : v.tasks[k] # None <=> k \in TasksOf(p)
  BY <1>5 DEF TasksOf
<1>8. \A e \in deps : e \in Edge /\ (e[1] \in TasksOf(p) => e[2] \in TasksOf(p))
  BY DEF Inv, TypeOK, Edge, TasksOf, RowsInvariant, DependenciesWithinProject
<1>9. {e \in v.deps : v.tasks[e[2]] # None} = {e \in deps : e[1] \in TasksOf(p)}
  BY <1>2, <1>3, <1>4, <1>7, <1>8 DEF Shows, Edge
<1>10. "CreateTaskBatch" \notin Kinds => v.deps = {e \in deps : e[1] \in TasksOf(p)}
  BY <1>2, <1>3, <1>4, <1>8 DEF Shows, Edge
<1>11. v.name \in {None, projects[p].name}
  BY <1>2 DEF Shows
<1> QED
  BY <1>5, <1>6, <1>9, <1>10, <1>11 DEF BoardMatches

\* A client that applies the whole committed log of a project shows exactly
\* the project's rows: whatever mutations ran at once, none was left out of
\* the log, recorded with a stale payload, or written over by another (but
\* for a dependency a breakdown may name on a task that is gone).
THEOREM LogMatchesLive == Spec => []LogMatchesLiveTasks
<1>1. Inv /\ RowsInvariant /\ ReplayInvariant => LogMatchesLiveTasks
  BY ShownMatches DEF LogMatchesLiveTasks
<1> QED
  BY <1>1, InitInv, NextInv, RowsStayConsistent, LogShowsTables, PTL DEF Spec

\* Without breakdowns the dependencies a client shows are the rows' as well.
THEOREM LogMatchesWithoutBreakdowns ==
  ASSUME "CreateTaskBatch" \notin Kinds
  PROVE  Spec => []LogMatchesTables
<1>1. Inv /\ RowsInvariant /\ ReplayInvariant => LogMatchesTables
  BY ShownMatches DEF LogMatchesTables
<1> QED
  BY <1>1, InitInv, NextInv, RowsStayConsistent, LogShowsTables, PTL DEF Spec
=============================================================================
