----------------------------- MODULE RowsProofs -----------------------------
(***************************************************************************)
(* Proofs that TaskStore keeps every dependency within its project, both   *)
(* ends of every edge existing and being tasks of one project, and that    *)
(* its log speaks of no task it has not created: whatever validations,     *)
(* insertions, deletions and cascades run at the same time, a client that  *)
(* replays the log is told of a task first.                                *)
(***************************************************************************)
EXTENDS TaskStoreProofs

Rows(x) == WritesOK(x) /\ DeletesOK(x) /\ ReadsOK(x)

-----------------------------------------------------------------------------
(* One statement: t goes from txn[t] to x, nothing is committed. *)

\* Rows speaks of the tables and of its argument alone.
LEMMA SameTables ==
  ASSUME NEW x, Rows(x),
         projects' = projects, tasks' = tasks, deps' = deps, used' = used
  PROVE  Rows(x)'
<1>1. WritesOK(x)'
  BY DEF Rows, WritesOK, MayLink, Linked, Holds
<1>2. DeletesOK(x)'
  BY DEF Rows, DeletesOK, TasksOf, Holds
<1>3. ReadsOK(x)'
  BY DEF Rows, ReadsOK, MayLink, Holds, Unwritten
<1> QED
  BY <1>1, <1>2, <1>3 DEF Rows

\* What t writes and holds is its own: nobody else's rows are affected.
LEMMA GoRows ==
  ASSUME Inv, RowsInvariant, NEW t \in Txn, NEW x, Go(t, x),
         x.fresh = txn[t].fresh \/ ToSet(x.fresh) = {},
         x.pc # "idle" => Rows(x)
  PROVE  RowsInvariant'
<1>1. /\ txn' = [txn EXCEPT ![t] = x]
      /\ projects' = projects /\ tasks' = tasks /\ deps' = deps /\ used' = used
  BY DEF Go
<1>2. ASSUME NEW u \in Txn PROVE txn'[u] = IF u = t THEN x ELSE txn[u]
  BY <1>1 DEF Inv, TypeOK
<1>3. ASSUME NEW u \in Txn PROVE ToSet(txn'[u].fresh) \subseteq ToSet(txn[u].fresh)
  BY <1>2
<1>4. IdsUsedOnce'
  BY <1>1, <1>3 DEF RowsInvariant, IdsUsedOnce
<1>5. ASSUME NEW u \in Txn, txn'[u].pc # "idle" PROVE Rows(txn'[u])
  BY <1>2, <1>5 DEF RowsInvariant, Rows
<1>6. ASSUME NEW u \in Txn, txn'[u].pc # "idle"
      PROVE  (WritesOK(txn[u]) /\ DeletesOK(txn[u]) /\ ReadsOK(txn[u]))'
  <2>1. PICK v : v = txn'[u]
    OBVIOUS
  <2>2. Rows(v)'
    BY <1>1, <1>5, <1>6, <2>1, SameTables
  <2> QED
    BY <2>1, <2>2 DEF Rows
<1>7. DependenciesWithinProject'
  BY <1>1 DEF RowsInvariant, DependenciesWithinProject
<1>8. \A k \in Task : tasks'[k] # None => projects'[tasks'[k].project] # None
  BY <1>1 DEF RowsInvariant
<1> QED
  BY <1>4, <1>6, <1>7, <1>8 DEF RowsInvariant

LEMMA RollbackRows ==
  ASSUME Inv, RowsInvariant, NEW t \in Txn, Rollback(t)
  PROVE  RowsInvariant'
<1>1. Idle.pc = "idle" /\ ToSet(Idle.fresh) = {}
  BY DEF Idle, ToSet
<1> QED
  BY <1>1, GoRows DEF Rollback

\* What t knows where one of its statements runs.
LEMMA AtRows ==
  ASSUME Inv, RowsInvariant, NEW t \in Txn, NEW kinds, NEW pc, pc # "idle",
         At(t, kinds, pc)
  PROVE  /\ txn[t] \in TxnState
         /\ txn[t].pc = pc
         /\ txn[t].req \in Request
         /\ txn[t].req.kind \in kinds
         /\ RequestOK(txn[t]) /\ ShapeOK(txn[t])
         /\ WritesOK(txn[t]) /\ DeletesOK(txn[t]) /\ ReadsOK(txn[t])
BY AtFacts DEF RowsInvariant

\* y is what t's statement makes of its state, up to the rows it writes.
Follows(y, t) ==
  /\ y.req = txn[t].req /\ y.fresh = txn[t].fresh
  /\ txn[t].locks \subseteq y.locks

\* What t wrote before.
SameRows(y, t) ==
  /\ y.puts = txn[t].puts /\ y.addDeps = txn[t].addDeps
  /\ y.pending = txn[t].pending /\ y.del = txn[t].del

\* A statement that writes no row may still learn its project, if nothing is
\* written yet.
LEMMA QuietRows ==
  ASSUME Inv, RowsInvariant, NEW t \in Txn, txn[t].pc # "idle", NEW y, Go(t, y),
         Follows(y, t), SameRows(y, t), ReadsOK(y),
         y.project = txn[t].project \/ Unwritten(txn[t])
  PROVE  RowsInvariant'
<1>1. WritesOK(txn[t]) /\ DeletesOK(txn[t])
  BY DEF RowsInvariant
<1>2. WritesOK(y)
  <2>1. CASE y.project = txn[t].project
    <3>1. \A d : MayLink(txn[t], d) => MayLink(y, d)
      BY <2>1 DEF MayLink, SameRows
    <3>2. \A d : Linked(txn[t], d) => Linked(y, d)
      BY <2>1 DEF Linked, Holds, Follows, SameRows
    <3> QED
      BY <1>1, <2>1, <3>1, <3>2 DEF WritesOK, Holds, Follows, SameRows
  <2>2. CASE Unwritten(txn[t])
    BY <2>2 DEF WritesOK, Unwritten, SameRows
  <2> QED
    BY <2>1, <2>2
<1>3. DeletesOK(y)
  BY <1>1 DEF DeletesOK, Holds, Follows, SameRows
<1> QED
  BY <1>2, <1>3, GoRows DEF Rows, Follows

\* An operation other than a deletion deletes no task and no project.
LEMMA NothingDeleted ==
  ASSUME NEW y, y.req.kind \notin {"DeleteTask", "DeleteProject"},
         y.del \cap (Project \cup Task) = {}
  PROVE  DeletesOK(y)
BY DEF DeletesOK

\* At the shared end only the lock on the operation's own task matters.
LEMMA EndReads ==
  ASSUME NEW x, NEW y, ReadsOK(x), x.pc # "lock", y.req = x.req,
         x.locks \subseteq y.locks,
         y.project = x.project
           \/ x.req.kind \notin {"UpdateTask", "DeleteTask", "CreateTaskBatch"},
         y.pc \in {"insertDeps", "record", "commit"}
  PROVE  ReadsOK(y)
BY DEF ReadsOK, Holds

\* A dependency that passes validation may be linked.
LEMMA ValidMayLink ==
  ASSUME Inv, RowsInvariant, NEW t \in Txn, NEW k, NEW p, NEW ds,
         ValidDependencies(t, k, p, ds), NEW d \in ds, d \in Task,
         NEW y, y.puts = txn[t].puts, y.project = p
  PROVE  MayLink(y, d)
<1>1. TaskSeen(t, d) # None /\ TaskSeen(t, d).project = p
  BY DEF ValidDependencies
<1>2. CASE txn[t].puts[d] # None
  BY <1>2 DEF MayLink
<1>3. CASE txn[t].puts[d] = None
  <2>1. tasks[d] # None /\ tasks[d].project = p
    BY <1>1, <1>3 DEF TaskSeen
  <2> QED
    BY <2>1 DEF MayLink, RowsInvariant, IdsUsedOnce
<1> QED
  BY <1>2, <1>3

\* A transaction that writes more rows of its project and keeps its locks may
\* link what it could, and its edges stay linked.
LEMMA LinksGrow ==
  ASSUME NEW x, x.addDeps \subseteq Edge, WritesOK(x), NEW y, y.project = x.project,
         \A k \in Task : x.puts[k] # None => y.puts[k] # None,
         x.locks \subseteq y.locks
  PROVE  /\ \A d \in Task : MayLink(x, d) => MayLink(y, d)
         /\ \A e \in x.addDeps : Linked(y, e[1]) /\ Linked(y, e[2])
<1>1. \A d \in Task : MayLink(x, d) => MayLink(y, d)
  BY DEF MayLink
<1>2. \A d \in Task : Linked(x, d) => Linked(y, d)
  BY DEF Linked, Holds
<1>3. \A e \in x.addDeps : e[1] \in Task /\ e[2] \in Task
  BY DEF Edge
<1> QED
  BY <1>1, <1>2, <1>3 DEF WritesOK

\* The state of t with its statement's locks, field by field.
LEMMA LockedFields ==
  ASSUME NEW t \in Txn, txn[t] \in TxnState
  PROVE  Locked(t) = [txn[t] EXCEPT !.locks = txn[t].locks \cup Needs(t)]
BY DEF Locked, TxnState

LEMMA HoldsNeeded ==
  ASSUME NEW t, NEW y, Needs(t) \subseteq y.locks, NEW rows, NEW mode,
         Needs(t) = Locks(rows, mode), NEW w \in rows
  PROVE  Holds(y, w, {mode})
<1> DEFINE l == [row |-> w, mode |-> mode]
<1>1. l \in y.locks
  BY DEF Locks
<1>2. l.row = w /\ l.mode \in {mode}
  OBVIOUS
<1> QED
  BY <1>1, <1>2 DEF Holds

-----------------------------------------------------------------------------
(* CreateTask *)

LEMMA CreateTaskValidateRows ==
  ASSUME Inv, RowsInvariant, NEW t \in Txn, CreateTaskValidate(t)
  PROVE  RowsInvariant'
<1> DEFINE r == txn[t].req
           k == txn[t].fresh[1]
           x == [txn[t] EXCEPT !.project = r.project, !.pc = "insertTask"]
<1>1. /\ At(t, {"CreateTask"}, "validate")
      /\ \/ Rollback(t)
         \/ ValidDependencies(t, k, r.project, ToSet(r.deps)) /\ Go(t, x)
  BY DEF CreateTaskValidate
<1>2. /\ txn[t] \in TxnState /\ txn[t].pc = "validate"
      /\ r \in Request /\ r.kind = "CreateTask"
      /\ ReadsOK(txn[t])
  BY <1>1, AtRows
<1>3. Unwritten(txn[t])
  BY <1>2 DEF ReadsOK
<1>4. ToSet(r.deps) \subseteq Task
  BY <1>2, RequestFields, ToSetType
<1>5. CASE ValidDependencies(t, k, r.project, ToSet(r.deps)) /\ Go(t, x)
  <2>1. /\ Follows(x, t) /\ SameRows(x, t) /\ x.puts = txn[t].puts
        /\ x.project = r.project /\ x.pc = "insertTask" /\ x.req = r
    BY <1>2 DEF Follows, SameRows, TxnState
  <2> HIDE DEF x, k
  <2>2. \A d \in ToSet(r.deps) : MayLink(x, d)
    BY <1>4, <1>5, <2>1, ValidMayLink
  <2>3. ReadsOK(x)
    BY <1>2, <2>1, <2>2 DEF ReadsOK
  <2> QED
    BY <1>2, <1>3, <1>5, <2>1, <2>3, QuietRows
<1> QED
  BY <1>1, <1>5, RollbackRows

LEMMA CreateTaskInsertRows ==
  ASSUME Inv, RowsInvariant, NEW t \in Txn, CreateTaskInsert(t)
  PROVE  RowsInvariant'
<1> DEFINE r == txn[t].req
           k == txn[t].fresh[1]
           row == [project |-> r.project, title |-> r.title,
                   status |-> r.status]
           edges == [i \in DOMAIN r.deps |-> <<k, r.deps[i]>>]
           out == <<[type |-> "task.created", task |-> k, row |-> row,
                     deps |-> ToSet(r.deps)]>>
           puts == [txn[t].puts EXCEPT ![k] = row]
           x == [Locked(t) EXCEPT !.puts = [@ EXCEPT ![k] = row],
                                  !.pending = edges, !.out = out]
           y == Continue(x)
<1>1. /\ At(t, {"CreateTask"}, "insertTask")
      /\ Rollback(t) \/ (projects[r.project] # None /\ Go(t, y))
  BY DEF CreateTaskInsert
<1>2. /\ txn[t] \in TxnState /\ txn[t].pc = "insertTask"
      /\ r \in Request /\ r.kind = "CreateTask"
      /\ RequestOK(txn[t]) /\ ShapeOK(txn[t])
      /\ WritesOK(txn[t]) /\ DeletesOK(txn[t]) /\ ReadsOK(txn[t])
  BY <1>1, AtRows
<1>3. /\ txn[t].project = r.project /\ r.project \in Project
      /\ \A d \in ToSet(r.deps) : MayLink(txn[t], d)
  BY <1>2, RequestFields DEF ReadsOK
<1>4. k \in Task /\ k \in ToSet(txn[t].fresh)
  <2>1. txn[t].fresh \in Seq(Task)
    BY <1>2 DEF TxnState
  <2>2. Len(txn[t].fresh) = 1
    BY <1>2 DEF RequestOK
  <2> QED
    BY <2>1, <2>2 DEF ToSet
<1>5. row \in TaskRow /\ row.project = r.project
  BY <1>2, RequestFields DEF TaskRow
<1>6. \A i \in DOMAIN edges : edges[i] = <<k, r.deps[i]>> /\ r.deps[i] \in ToSet(r.deps)
  BY DEF ToSet
<1>7. /\ puts[k] = row /\ row # None
      /\ \A j \in Task : j # k => puts[j] = txn[t].puts[j]
  BY <1>2, <1>4, <1>5, NoneAssumption DEF TxnState, TaskRow
<1> HIDE DEF row, edges, out
<1>8. Locked(t) = [txn[t] EXCEPT !.locks = txn[t].locks \cup Needs(t)]
  BY <1>2, LockedFields
<1>9. /\ Follows(y, t) /\ y.req = r /\ y.fresh = txn[t].fresh
      /\ y.puts = puts /\ y.pending = edges /\ y.addDeps = txn[t].addDeps
      /\ y.del = txn[t].del /\ y.project = txn[t].project
      /\ y.locks = txn[t].locks \cup Needs(t)
      /\ y.pc \in {"insertDeps", "record", "commit"}
  BY <1>2, <1>8 DEF Follows, TxnState, Continue
<1> HIDE DEF y, puts, k
<1>10. CASE projects[r.project] # None /\ Go(t, y)
  <2>1. Holds(y, r.project, Mode)
    <3>1. Needs(t) = Locks({r.project}, "keyShare")
      BY <1>2, <1>3 DEF Needs, TaskLock
    <3>2. Holds(y, r.project, {"keyShare"})
      BY <1>9, <3>1, HoldsNeeded
    <3> QED
      BY <3>2 DEF Holds, Mode
  <2>2. ASSUME NEW j \in Task, y.puts[j] # None
        PROVE  /\ y.puts[j].project = y.project
               /\ \/ /\ j \in ToSet(y.fresh)
                     /\ projects[y.project] # None /\ Holds(y, y.project, Mode)
                  \/ y.req.kind = "UpdateTask" /\ j = y.req.task
    <3>1. CASE j = k
      BY <1>3, <1>4, <1>5, <1>7, <1>9, <1>10, <2>1, <3>1
    <3>2. CASE j # k
      BY <1>2, <1>3, <1>7, <1>9, <1>10, <2>1, <2>2, <3>2 DEF WritesOK
    <3> QED
      BY <3>1, <3>2
  <2>3. /\ \A d \in Task : MayLink(txn[t], d) => MayLink(y, d)
        /\ \A e \in txn[t].addDeps : Linked(y, e[1]) /\ Linked(y, e[2])
    <3>1. \A j \in Task : txn[t].puts[j] # None => y.puts[j] # None
      BY <1>7, <1>9
    <3> QED
      BY <1>2, <1>9, <3>1, LinksGrow DEF TxnState, Follows
  <2>4. \A d \in ToSet(r.deps) : MayLink(y, d)
    BY <1>2, <1>3, <2>3, RequestFields, ToSetType
  <2>5. ASSUME NEW i \in DOMAIN y.pending
        PROVE  MayLink(y, y.pending[i][1]) /\ MayLink(y, y.pending[i][2])
    <3>1. y.pending[i][1] = k /\ y.pending[i][2] = r.deps[i] /\ r.deps[i] \in ToSet(r.deps)
      BY <1>6, <1>9
    <3>2. MayLink(y, k)
      BY <1>7, <1>9 DEF MayLink
    <3> QED
      BY <2>4, <3>1, <3>2
  <2>6. \A e \in y.addDeps : Linked(y, e[1]) /\ Linked(y, e[2])
    BY <1>9, <2>3
  <2>7. WritesOK(y)
    BY <2>2, <2>5, <2>6 DEF WritesOK
  <2>8. DeletesOK(y)
    BY <1>2, <1>9, NothingDeleted DEF DeletesOK
  <2>9. ReadsOK(y)
    BY <1>2, <1>9, EndReads
  <2> QED
    BY <1>9, <1>10, <2>7, <2>8, <2>9, GoRows DEF Rows
<1> QED
  BY <1>1, <1>10, RollbackRows

-----------------------------------------------------------------------------
(* UpdateTask *)

LEMMA UpdateTaskLockRows ==
  ASSUME Inv, RowsInvariant, NEW t \in Txn, UpdateTaskLock(t)
  PROVE  RowsInvariant'
<1> DEFINE r == txn[t].req
           row == tasks[r.task]
           pc == CASE r.deps # None -> "validate"
                   [] r.deps = None /\ r.status = "done" -> "complete"
                   [] OTHER -> "write"
           x == [Locked(t) EXCEPT !.current = row, !.project = row.project,
                                  !.read = DirectDeps(r.task), !.pc = pc]
<1>1. /\ At(t, {"UpdateTask"}, "lock")
      /\ Rollback(t) \/ (row # None /\ Go(t, x))
  BY DEF UpdateTaskLock
<1>2. /\ txn[t] \in TxnState /\ txn[t].pc = "lock"
      /\ r \in Request /\ r.kind = "UpdateTask" /\ Unwritten(txn[t])
  BY <1>1, AtRows DEF ReadsOK
<1>3. pc \in {"validate", "complete", "write"} /\ (r.deps # None => pc = "validate")
  OBVIOUS
<1>4. Locked(t) = [txn[t] EXCEPT !.locks = txn[t].locks \cup Needs(t)]
  BY <1>2, LockedFields
<1> HIDE DEF pc, row
<1>5. /\ Follows(x, t) /\ SameRows(x, t) /\ x.req = r /\ x.pc = pc
      /\ x.current = row /\ x.project = row.project
      /\ x.locks = txn[t].locks \cup Needs(t)
  BY <1>2, <1>4 DEF Follows, SameRows, TxnState
<1> HIDE DEF x
<1>6. CASE row # None /\ Go(t, x)
  <2>1. Holds(x, r.task, {"update"})
    BY <1>2, <1>5, HoldsNeeded DEF Needs, TaskLock
  <2>2. ReadsOK(x)
    BY <1>2, <1>3, <1>5, <1>6, <2>1 DEF ReadsOK, row
  <2> QED
    BY <1>2, <1>5, <1>6, <2>2, QuietRows
<1> QED
  BY <1>1, <1>6, RollbackRows

LEMMA UpdateTaskValidateRows ==
  ASSUME Inv, RowsInvariant, NEW t \in Txn, UpdateTaskValidate(t)
  PROVE  RowsInvariant'
<1> DEFINE r == txn[t].req
           ds == ToSet(r.deps)
           pc == IF r.status = "done" THEN "complete" ELSE "write"
           x == [txn[t] EXCEPT !.read = ds, !.pc = pc]
<1>1. /\ At(t, {"UpdateTask"}, "validate")
      /\ \/ Rollback(t)
         \/ ValidDependencies(t, r.task, txn[t].project, ds) /\ Go(t, x)
  BY DEF UpdateTaskValidate
<1>2. /\ txn[t] \in TxnState /\ txn[t].pc = "validate"
      /\ r \in Request /\ r.kind = "UpdateTask" /\ r.deps # None
      /\ ReadsOK(txn[t])
  BY <1>1, AtRows DEF RequestOK
<1>3. ds \subseteq Task
  BY <1>2, RequestFields, ToSetType
<1>4. pc \in {"complete", "write"}
  OBVIOUS
<1> HIDE DEF pc
<1>5. /\ Follows(x, t) /\ SameRows(x, t) /\ x.req = r /\ x.pc = pc
      /\ x.current = txn[t].current /\ x.project = txn[t].project
      /\ x.locks = txn[t].locks /\ x.puts = txn[t].puts
  BY <1>2 DEF Follows, SameRows, TxnState
<1> HIDE DEF x
<1>6. CASE ValidDependencies(t, r.task, txn[t].project, ds) /\ Go(t, x)
  <2>1. \A d \in ds : MayLink(x, d)
    <3> HIDE DEF ds
    <3> QED
      BY <1>3, <1>5, <1>6, ValidMayLink
  <2>2. ReadsOK(x)
    BY <1>2, <1>4, <1>5, <2>1 DEF ReadsOK, Holds
  <2> QED
    BY <1>2, <1>5, <1>6, <2>2, QuietRows
<1> QED
  BY <1>1, <1>6, RollbackRows

LEMMA UpdateTaskCompleteRows ==
  ASSUME Inv, RowsInvariant, NEW t \in Txn, UpdateTaskComplete(t)
  PROVE  RowsInvariant'
<1> DEFINE x == [txn[t] EXCEPT !.pc = "write"]
<1>1. /\ At(t, {"UpdateTask"}, "complete")
      /\ Rollback(t) \/ Go(t, x)
  BY DEF UpdateTaskComplete
<1>2. /\ txn[t] \in TxnState /\ txn[t].pc = "complete"
      /\ txn[t].req.kind = "UpdateTask" /\ ReadsOK(txn[t])
  BY <1>1, AtRows
<1>3. /\ Follows(x, t) /\ SameRows(x, t) /\ x.req = txn[t].req /\ x.pc = "write"
      /\ x.current = txn[t].current /\ x.project = txn[t].project
      /\ x.locks = txn[t].locks /\ x.puts = txn[t].puts
  BY <1>2 DEF Follows, SameRows, TxnState
<1> HIDE DEF x
<1>4. ReadsOK(x)
  BY <1>2, <1>3 DEF ReadsOK, Holds, MayLink
<1> QED
  BY <1>1, <1>2, <1>3, <1>4, QuietRows, RollbackRows

\* The row goes back to its project; the edges made stay within it.
LEMMA UpdateTaskWriteRows ==
  ASSUME Inv, RowsInvariant, NEW t \in Txn, UpdateTaskWrite(t)
  PROVE  RowsInvariant'
<1> DEFINE r == txn[t].req
           row == PatchedRow(r, txn[t].current)
           updated == IF r.title = None /\ r.status = None THEN << >>
                      ELSE <<[type |-> "task.updated", task |-> r.task,
                              title |-> r.title, status |-> r.status]>>
           both == Append(updated,
                     [type |-> "task.dependencies_changed", task |-> r.task,
                      dependsOn |-> ToSet(r.deps)])
           old == {e \in deps : e[1] = r.task}
           edges == [i \in DOMAIN r.deps |-> <<r.task, r.deps[i]>>]
           puts == [txn[t].puts EXCEPT ![r.task] = row]
           write == [Locked(t) EXCEPT !.puts = [@ EXCEPT ![r.task] = row]]
           x == Continue([write EXCEPT !.out = updated])
           y == Continue([write EXCEPT !.del = old, !.pending = edges, !.out = both])
<1>1. /\ At(t, {"UpdateTask"}, "write")
      /\ \/ r.deps = None /\ Go(t, x)
         \/ r.deps # None /\ Go(t, y)
  BY DEF UpdateTaskWrite
<1>2. /\ txn[t] \in TxnState /\ txn[t].pc = "write"
      /\ r \in Request /\ r.kind = "UpdateTask"
      /\ RequestOK(txn[t]) /\ WritesOK(txn[t]) /\ DeletesOK(txn[t])
      /\ ReadsOK(txn[t])
  BY <1>1, AtRows
<1>3. /\ r.task \in Task /\ r.title \in Text \cup {None}
      /\ r.status \in Status \cup {None} /\ r.deps \in Seq(Task) \cup {None}
      /\ txn[t].current \in TaskRow
  BY <1>2, RequestFields DEF RequestOK
<1>4. row \in TaskRow /\ row.project = txn[t].project
  BY <1>2, <1>3 DEF TaskRow, PatchedRow, Patched, ReadsOK
<1>5. /\ puts[r.task] = row /\ row # None
      /\ \A j \in Task : j # r.task => puts[j] = txn[t].puts[j]
  BY <1>2, <1>3, <1>4, NoneAssumption DEF TxnState, TaskRow
<1>6. old \cap (Project \cup Task) = {}
  BY IdAssumption DEF Inv, TypeOK, Edge
<1>7. \A i \in DOMAIN edges : edges[i] = <<r.task, r.deps[i]>> /\ r.deps[i] \in ToSet(r.deps)
  BY DEF ToSet
<1> HIDE DEF row, updated, both, old, edges
<1>8. Locked(t) = [txn[t] EXCEPT !.locks = txn[t].locks \cup Needs(t)]
  BY <1>2, LockedFields
<1>9. /\ Follows(x, t) /\ x.req = r /\ x.fresh = txn[t].fresh
      /\ x.puts = puts /\ x.pending = txn[t].pending /\ x.addDeps = txn[t].addDeps
      /\ x.del = txn[t].del /\ x.project = txn[t].project
      /\ x.pc \in {"insertDeps", "record", "commit"}
  BY <1>2, <1>8 DEF Follows, TxnState, Continue
<1>10. /\ Follows(y, t) /\ y.req = r /\ y.fresh = txn[t].fresh
       /\ y.puts = puts /\ y.pending = edges /\ y.addDeps = txn[t].addDeps
       /\ y.del = old /\ y.project = txn[t].project
       /\ y.pc \in {"insertDeps", "record", "commit"}
  BY <1>2, <1>8 DEF Follows, TxnState, Continue
<1> HIDE DEF x, y, puts
<1>11. ASSUME NEW z, Follows(z, t), z.req = r, z.fresh = txn[t].fresh,
              z.puts = puts, z.addDeps = txn[t].addDeps,
              z.del \cap (Project \cup Task) = {}, z.project = txn[t].project,
              z.pc \in {"insertDeps", "record", "commit"},
              z.pending = txn[t].pending \/ (r.deps # None /\ z.pending = edges)
       PROVE  Rows(z)
  <2>1. ASSUME NEW j \in Task, z.puts[j] # None
        PROVE  /\ z.puts[j].project = z.project
               /\ \/ /\ j \in ToSet(z.fresh)
                     /\ projects[z.project] # None /\ Holds(z, z.project, Mode)
                  \/ z.req.kind = "UpdateTask" /\ j = z.req.task
    <3>1. CASE j = r.task
      BY <1>2, <1>4, <1>5, <1>11, <3>1
    <3>2. CASE j # r.task
      BY <1>2, <1>5, <1>11, <2>1, <3>2 DEF WritesOK, Holds, Follows
    <3> QED
      BY <3>1, <3>2
  <2>2. /\ \A d \in Task : MayLink(txn[t], d) => MayLink(z, d)
        /\ \A e \in txn[t].addDeps : Linked(z, e[1]) /\ Linked(z, e[2])
    <3>1. \A j \in Task : txn[t].puts[j] # None => z.puts[j] # None
      BY <1>5, <1>11
    <3> QED
      BY <1>2, <1>11, <3>1, LinksGrow DEF TxnState, Follows
  <2>3. ASSUME NEW i \in DOMAIN z.pending
        PROVE  MayLink(z, z.pending[i][1]) /\ MayLink(z, z.pending[i][2])
    <3>1. CASE z.pending = txn[t].pending
      <4>1. /\ MayLink(txn[t], z.pending[i][1]) /\ MayLink(txn[t], z.pending[i][2])
        BY <1>2, <3>1 DEF WritesOK
      <4>2. z.pending[i][1] \in Task /\ z.pending[i][2] \in Task
        BY <1>2, <3>1 DEF TxnState, Edge
      <4> QED
        BY <2>2, <4>1, <4>2
    <3>2. CASE r.deps # None /\ z.pending = edges
      <4>1. /\ z.pending[i][1] = r.task /\ z.pending[i][2] = r.deps[i]
            /\ r.deps[i] \in ToSet(r.deps)
        BY <1>7, <3>2
      <4>2. MayLink(z, r.task)
        BY <1>5, <1>11 DEF MayLink
      <4>3. ToSet(r.deps) \subseteq Task
        BY <1>3, <3>2, ToSetType
      <4>4. \A d \in ToSet(r.deps) : MayLink(txn[t], d)
        BY <1>2, <3>2 DEF ReadsOK
      <4> QED
        BY <2>2, <4>1, <4>2, <4>3, <4>4
    <3> QED
      BY <1>11, <3>1, <3>2
  <2>4. \A e \in z.addDeps : Linked(z, e[1]) /\ Linked(z, e[2])
    BY <1>11, <2>2
  <2>5. WritesOK(z)
    BY <2>1, <2>3, <2>4 DEF WritesOK
  <2>6. DeletesOK(z)
    BY <1>2, <1>11, NothingDeleted
  <2>7. ReadsOK(z)
    BY <1>2, <1>11, EndReads DEF Follows
  <2> QED
    BY <2>5, <2>6, <2>7 DEF Rows
<1>12. CASE r.deps = None /\ Go(t, x)
  <2>1. x.del \cap (Project \cup Task) = {}
    BY <1>2, <1>9 DEF DeletesOK
  <2>2. Rows(x)
    BY <1>9, <1>11, <2>1
  <2> QED
    BY <1>9, <1>12, <2>2, GoRows
<1>13. CASE r.deps # None /\ Go(t, y)
  <2>1. Rows(y)
    BY <1>6, <1>10, <1>11, <1>13
  <2> QED
    BY <1>10, <1>13, <2>1, GoRows
<1> QED
  BY <1>1, <1>12, <1>13

-----------------------------------------------------------------------------
(* DeleteTask *)

LEMMA DeleteTaskLockRows ==
  ASSUME Inv, RowsInvariant, NEW t \in Txn, DeleteTaskLock(t)
  PROVE  RowsInvariant'
<1> DEFINE k == txn[t].req.task
           x == [Locked(t) EXCEPT !.project = tasks[k].project,
                                  !.read = Dependents(k), !.pc = "cascade"]
<1>1. /\ At(t, {"DeleteTask"}, "lock")
      /\ Rollback(t) \/ (tasks[k] # None /\ Go(t, x))
  BY DEF DeleteTaskLock
<1>2. /\ txn[t] \in TxnState /\ txn[t].pc = "lock"
      /\ txn[t].req.kind = "DeleteTask" /\ Unwritten(txn[t])
  BY <1>1, AtRows DEF ReadsOK
<1>3. Locked(t) = [txn[t] EXCEPT !.locks = txn[t].locks \cup Needs(t)]
  BY <1>2, LockedFields
<1>4. /\ Follows(x, t) /\ SameRows(x, t) /\ x.req = txn[t].req
      /\ x.pc = "cascade" /\ x.project = tasks[k].project
      /\ x.locks = txn[t].locks \cup Needs(t)
  BY <1>2, <1>3 DEF Follows, SameRows, TxnState
<1> HIDE DEF x
<1>5. CASE tasks[k] # None /\ Go(t, x)
  <2>1. Holds(x, k, {"update"})
    BY <1>2, <1>4, HoldsNeeded DEF Needs, TaskLock
  <2>2. ReadsOK(x)
    BY <1>2, <1>4, <1>5, <2>1 DEF ReadsOK
  <2> QED
    BY <1>2, <1>4, <1>5, <2>2, QuietRows
<1> QED
  BY <1>1, <1>5, RollbackRows

\* The only task among the rows that go with k is k.
LEMMA CascadeRows ==
  ASSUME Inv, NEW k \in Task
  PROVE  /\ Task \cap TaskCascade(k) = {k}
         /\ Project \cap TaskCascade(k) = {}
         /\ \A e \in deps : k \in {e[1], e[2]} => e \in TaskCascade(k)
<1>1. Task \cap TaskCascade(k) = {k}
  BY IdAssumption DEF TaskCascade, Inv, TypeOK, Edge
<1>2. Project \cap TaskCascade(k) = {}
  BY CascadeType
<1>3. \A e \in deps : k \in {e[1], e[2]} => e \in TaskCascade(k)
  BY DEF TaskCascade
<1> QED
  BY <1>1, <1>2, <1>3

LEMMA DeleteTaskCascadeRows ==
  ASSUME Inv, RowsInvariant, NEW t \in Txn, DeleteTaskCascade(t)
  PROVE  RowsInvariant'
<1> DEFINE k == txn[t].req.task
           out == <<[type |-> "task.deleted", task |-> k,
                     removedFromDependenciesOf |-> txn[t].read]>>
           del == TaskCascade(k)
           y == Continue([Locked(t) EXCEPT !.del = del, !.out = out])
<1>1. At(t, {"DeleteTask"}, "cascade") /\ Go(t, y)
  BY DEF DeleteTaskCascade
<1>2. /\ txn[t] \in TxnState /\ txn[t].pc = "cascade"
      /\ txn[t].req \in Request /\ txn[t].req.kind = "DeleteTask"
      /\ WritesOK(txn[t]) /\ DeletesOK(txn[t]) /\ ReadsOK(txn[t])
  BY <1>1, AtRows
<1>3. k \in Task /\ tasks[k] # None /\ k \in used
  BY <1>2, RequestFields DEF ReadsOK, RowsInvariant, IdsUsedOnce
<1>4. Locked(t) = [txn[t] EXCEPT !.locks = txn[t].locks \cup Needs(t)]
  BY <1>2, LockedFields
<1> HIDE DEF out, del
<1>5. /\ Follows(y, t) /\ y.req = txn[t].req /\ y.fresh = txn[t].fresh
      /\ y.puts = txn[t].puts /\ y.pending = txn[t].pending
      /\ y.addDeps = txn[t].addDeps
      /\ y.del = del /\ y.project = txn[t].project
      /\ y.locks = txn[t].locks \cup Needs(t)
      /\ y.pc \in {"insertDeps", "record", "commit"}
  BY <1>2, <1>4 DEF Follows, TxnState, Continue
<1> HIDE DEF y
<1>6. WritesOK(y)
  BY <1>2, <1>5 DEF WritesOK, DeletesOK
<1>7. DeletesOK(y)
  <2>1. Holds(y, k, {"update"})
    <3>1. Needs(t) = Locks(del, "update") /\ k \in del
      BY <1>2 DEF Needs, TaskLock, del, TaskCascade
    <3> QED
      BY <1>5, <3>1, HoldsNeeded
  <2> QED
    BY <1>2, <1>3, <1>5, <2>1, CascadeRows DEF DeletesOK, del
<1>8. ReadsOK(y)
  BY <1>2, <1>5, EndReads DEF Follows
<1> QED
  BY <1>1, <1>5, <1>6, <1>7, <1>8, GoRows DEF Rows

-----------------------------------------------------------------------------
(* CreateTaskBatch *)

LEMMA BatchLockRows ==
  ASSUME Inv, RowsInvariant, NEW t \in Txn, BatchLock(t)
  PROVE  RowsInvariant'
<1> DEFINE k == txn[t].req.task
           x == [Locked(t) EXCEPT !.project = tasks[k].project,
                                  !.read = DirectDeps(k),
                                  !.pc = "insertTask"]
<1>1. /\ At(t, {"CreateTaskBatch"}, "lock")
      /\ Rollback(t) \/ (tasks[k] # None /\ Go(t, x))
  BY DEF BatchLock
<1>2. /\ txn[t] \in TxnState /\ txn[t].pc = "lock"
      /\ txn[t].req.kind = "CreateTaskBatch" /\ Unwritten(txn[t])
  BY <1>1, AtRows DEF ReadsOK
<1>3. Locked(t) = [txn[t] EXCEPT !.locks = txn[t].locks \cup Needs(t)]
  BY <1>2, LockedFields
<1>4. /\ Follows(x, t) /\ SameRows(x, t) /\ x.req = txn[t].req
      /\ x.pc = "insertTask" /\ x.project = tasks[k].project
      /\ x.locks = txn[t].locks \cup Needs(t)
  BY <1>2, <1>3 DEF Follows, SameRows, TxnState
<1> HIDE DEF x
<1>5. CASE tasks[k] # None /\ Go(t, x)
  <2>1. Holds(x, k, {"update"})
    BY <1>2, <1>4, HoldsNeeded DEF Needs, TaskLock
  <2>2. ReadsOK(x)
    BY <1>2, <1>4, <1>5, <2>1 DEF ReadsOK
  <2> QED
    BY <1>2, <1>4, <1>5, <2>2, QuietRows
<1> QED
  BY <1>1, <1>5, RollbackRows

\* The subtasks are new tasks of the locked parent's project, which the
\* foreign key keeps; the edges among them join new tasks only.
LEMMA BatchInsertRows ==
  ASSUME Inv, RowsInvariant, NEW t \in Txn, BatchInsert(t)
  PROVE  RowsInvariant'
<1> DEFINE ids == txn[t].fresh
           puts == [k \in Task |->
                      IF k \in ToSet(ids)
                      THEN BatchRow(txn[t], CHOOSE i \in DOMAIN ids : ids[i] = k)
                      ELSE txn[t].puts[k]]
           edges == UNION {{ids[i]} \X BatchDeps(txn[t], i) : i \in DOMAIN ids}
           x == [Locked(t) EXCEPT !.puts = puts, !.addDeps = edges,
                                  !.pc = "validate"]
<1>1. /\ At(t, {"CreateTaskBatch"}, "insertTask")
      /\ Go(t, [Locked(t) EXCEPT
           !.puts = [k \in Task |->
                       IF k \in ToSet(ids)
                       THEN BatchRow(txn[t], CHOOSE i \in DOMAIN ids : ids[i] = k)
                       ELSE @[k]],
           !.addDeps = edges, !.pc = "validate"])
  BY DEF BatchInsert
<1>2. /\ txn[t] \in TxnState /\ txn[t].pc = "insertTask"
      /\ txn[t].req \in Request /\ txn[t].req.kind = "CreateTaskBatch"
      /\ RequestOK(txn[t]) /\ txn[t].project \in Project
      /\ WritesOK(txn[t]) /\ DeletesOK(txn[t]) /\ ReadsOK(txn[t])
  BY <1>1, AtRows DEF ShapeOK
<1>3. \A k \in ToSet(ids) :
        k \in Task /\ puts[k] # None /\ puts[k].project = txn[t].project
  <2> SUFFICES ASSUME NEW k \in ToSet(ids)
               PROVE  k \in Task /\ puts[k] # None /\ puts[k].project = txn[t].project
    OBVIOUS
  <2>1. PICK i \in DOMAIN ids : ids[i] = k
    BY DEF ToSet
  <2>2. (CHOOSE j \in DOMAIN ids : ids[j] = k) \in DOMAIN ids
    BY <2>1
  <2> DEFINE row == BatchRow(txn[t], CHOOSE j \in DOMAIN ids : ids[j] = k)
  <2>3. k \in Task /\ row \in TaskRow
    BY <1>2, <2>1, <2>2, BatchTypes
  <2>4. row.project = txn[t].project
    BY DEF BatchRow
  <2>5. puts[k] = row
    BY <2>3
  <2> HIDE DEF row, puts
  <2> QED
    BY <2>3, <2>4, <2>5, NoneAssumption DEF TaskRow
<1>4. \A k \in Task : k \notin ToSet(ids) => puts[k] = txn[t].puts[k]
  OBVIOUS
<1>5. \A e \in edges : e[1] \in ToSet(ids) /\ e[2] \in ToSet(ids)
  <2> SUFFICES ASSUME NEW i \in DOMAIN ids, NEW d \in BatchDeps(txn[t], i)
               PROVE  ids[i] \in ToSet(ids) /\ d \in ToSet(ids)
    OBVIOUS
  <2>1. PICK j \in txn[t].req.subs[i].dependsOn : d = ids[j]
    BY DEF BatchDeps
  <2>2. /\ txn[t].req.subs[i].dependsOn \subseteq 1..Len(txn[t].req.subs)
        /\ DOMAIN ids = 1..Len(txn[t].req.subs)
    BY <1>2 DEF RequestOK, TxnState
  <2> QED
    BY <2>1, <2>2 DEF ToSet
<1>6. Locked(t) = [txn[t] EXCEPT !.locks = txn[t].locks \cup Needs(t)]
  BY <1>2, LockedFields
<1>7. Go(t, x)
  <2>1. Locked(t).puts = txn[t].puts
    BY <1>2, <1>6 DEF TxnState
  <2> HIDE DEF edges, ids
  <2> QED
    BY <1>1, <2>1
<1> HIDE DEF puts, edges
<1>8. /\ Follows(x, t) /\ x.req = txn[t].req /\ x.fresh = ids
      /\ x.puts = puts /\ x.pending = txn[t].pending /\ x.addDeps = edges
      /\ x.del = txn[t].del /\ x.project = txn[t].project
      /\ x.locks = txn[t].locks \cup Needs(t) /\ x.pc = "validate"
  BY <1>2, <1>6 DEF Follows, TxnState
<1> HIDE DEF x
<1>9. /\ tasks[txn[t].req.task] # None
      /\ tasks[txn[t].req.task].project = txn[t].project
      /\ Holds(txn[t], txn[t].req.task, {"update"})
  BY <1>2 DEF ReadsOK
<1>10. projects[x.project] # None /\ Holds(x, x.project, Mode)
  <2>1. projects[txn[t].project] # None
    BY <1>2, <1>9, RequestFields DEF RowsInvariant
  <2>2. Needs(t) = Locks({txn[t].project}, "keyShare")
    BY <1>2 DEF Needs, TaskLock
  <2>3. Holds(x, txn[t].project, {"keyShare"})
    BY <1>8, <2>2, HoldsNeeded
  <2> QED
    BY <1>8, <2>1, <2>3 DEF Holds, Mode
<1>11. WritesOK(x)
  <2>1. ASSUME NEW k \in Task, x.puts[k] # None
        PROVE  /\ x.puts[k].project = x.project
               /\ \/ /\ k \in ToSet(x.fresh)
                     /\ projects[x.project] # None /\ Holds(x, x.project, Mode)
                  \/ x.req.kind = "UpdateTask" /\ k = x.req.task
    <3>1. CASE k \in ToSet(ids)
      BY <1>3, <1>8, <1>10, <3>1
    <3>2. CASE k \notin ToSet(ids)
      BY <1>2, <1>4, <1>8, <2>1, <3>2 DEF WritesOK
    <3> QED
      BY <3>1, <3>2
  <2>2. \A d \in Task : MayLink(txn[t], d) => MayLink(x, d)
    <3>1. \A k \in Task : txn[t].puts[k] # None => x.puts[k] # None
      BY <1>3, <1>4, <1>8
    <3> QED
      BY <1>2, <1>8, <3>1, LinksGrow DEF TxnState, Follows
  <2>3. ASSUME NEW i \in DOMAIN x.pending
        PROVE  MayLink(x, x.pending[i][1]) /\ MayLink(x, x.pending[i][2])
    <3>1. /\ MayLink(txn[t], x.pending[i][1]) /\ MayLink(txn[t], x.pending[i][2])
      BY <1>2, <1>8 DEF WritesOK
    <3>2. x.pending[i][1] \in Task /\ x.pending[i][2] \in Task
      BY <1>2, <1>8 DEF TxnState, Edge
    <3> QED
      BY <2>2, <3>1, <3>2
  <2>4. \A e \in x.addDeps : Linked(x, e[1]) /\ Linked(x, e[2])
    BY <1>3, <1>5, <1>8 DEF Linked
  <2> QED
    BY <2>1, <2>3, <2>4 DEF WritesOK
<1>12. DeletesOK(x)
  BY <1>2, <1>8, NothingDeleted DEF DeletesOK
<1>13. ReadsOK(x)
  BY <1>2, <1>8, <1>9 DEF ReadsOK, Holds
<1> QED
  BY <1>7, <1>8, <1>11, <1>12, <1>13, GoRows DEF Rows

LEMMA BatchValidateRows ==
  ASSUME Inv, RowsInvariant, NEW t \in Txn, BatchValidate(t)
  PROVE  RowsInvariant'
<1> DEFINE r == txn[t].req
           ids == txn[t].fresh
           last == SetToSeq(Terminals(r.subs))
           added == [i \in DOMAIN last |-> <<r.task, ids[last[i]]>>]
           list == txn[t].read \cup {ids[last[i]] : i \in DOMAIN last}
           created == [i \in DOMAIN ids |->
                         [type |-> "task.created", task |-> ids[i],
                          row |-> BatchRow(txn[t], i), deps |-> BatchDeps(txn[t], i)]]
           out == BatchEvents(created, [type |-> "task.dependencies_changed",
                                        task |-> r.task, dependsOn |-> list])
           y == Continue([txn[t] EXCEPT !.pending = added, !.out = out])
<1>1. /\ At(t, {"CreateTaskBatch"}, "validate")
      /\ \/ Rollback(t)
         \/ ValidDependencies(t, r.task, txn[t].project, list) /\ Go(t, y)
  BY DEF BatchValidate
<1>2. At(t, {"CreateTaskBatch"}, "validate")
  <2> HIDE DEF list, y
  <2> QED
    BY <1>1
<1>3. /\ txn[t] \in TxnState /\ txn[t].pc = "validate"
      /\ r \in Request /\ r.kind = "CreateTaskBatch" /\ RequestOK(txn[t])
      /\ WritesOK(txn[t]) /\ DeletesOK(txn[t]) /\ ReadsOK(txn[t])
  BY <1>2, AtRows
<1>4. r.task \in Task
  BY <1>3, RequestFields
<1>5. ids \in Seq(Task) /\ DOMAIN ids = 1..Len(r.subs) /\ Len(r.subs) \in Nat
  BY <1>3 DEF RequestOK, TxnState
<1>6. \A i \in DOMAIN last : ids[last[i]] \in Task
  <2>1. Terminals(r.subs) \in SUBSET (1..Len(r.subs))
    BY DEF Terminals
  <2>2. IsFiniteSet(Terminals(r.subs))
    <3>1. IsFiniteSet(1..Len(r.subs))
      BY <1>5, FS_Interval
    <3> QED
      BY <2>1, <3>1, FS_Subset
  <2>3. last \in Seq(Terminals(r.subs))
    BY <2>2, SetToSeqType
  <2>4. \A i \in DOMAIN last : last[i] \in 1..Len(r.subs)
    <3> HIDE DEF last
    <3> QED
      BY <2>1, <2>3
  <2> HIDE DEF last
  <2> QED
    BY <1>5, <2>4
<1>7. \A i \in DOMAIN added :
        /\ added[i] = <<r.task, ids[last[i]]>>
        /\ ids[last[i]] \in Task /\ ids[last[i]] \in list
  BY <1>6
<1> HIDE DEF last, added, list, out
<1>8. /\ Follows(y, t) /\ y.req = r /\ y.fresh = ids
      /\ y.puts = txn[t].puts /\ y.pending = added
      /\ y.addDeps = txn[t].addDeps /\ y.locks = txn[t].locks
      /\ y.del = txn[t].del /\ y.project = txn[t].project
      /\ y.pc \in {"insertDeps", "record", "commit"}
  BY <1>3 DEF Follows, TxnState, Continue
<1> HIDE DEF y
<1>9. CASE ValidDependencies(t, r.task, txn[t].project, list) /\ Go(t, y)
  <2>1. MayLink(y, r.task)
    BY <1>3, <1>4, <1>8 DEF ReadsOK, MayLink, RowsInvariant, IdsUsedOnce
  <2>2. ASSUME NEW i \in DOMAIN y.pending
        PROVE  MayLink(y, y.pending[i][1]) /\ MayLink(y, y.pending[i][2])
    BY <1>7, <1>8, <1>9, <2>1, ValidMayLink
  <2>3. WritesOK(y)
    BY <1>3, <1>8, <2>2 DEF WritesOK, Linked, Holds
  <2>4. DeletesOK(y)
    BY <1>3, <1>8, NothingDeleted DEF DeletesOK
  <2>5. ReadsOK(y)
    BY <1>3, <1>8, EndReads
  <2> QED
    BY <1>8, <1>9, <2>3, <2>4, <2>5, GoRows DEF Rows
<1> QED
  BY <1>1, <1>9, RollbackRows

-----------------------------------------------------------------------------
(* CreateComment, DeleteComment: comments are no rows of the invariant. *)

LEMMA CreateCommentRows ==
  ASSUME Inv, RowsInvariant, NEW t \in Txn,
         CreateCommentResolve(t) \/ CreateCommentInsert(t)
  PROVE  RowsInvariant'
<1> DEFINE k == txn[t].req.task
           out == <<[type |-> "comment.added", comment |-> txn[t].comment,
                     task |-> k]>>
           x == [txn[t] EXCEPT !.project = tasks[k].project, !.pc = "insertComment"]
           y == Continue([Locked(t) EXCEPT !.out = out])
<1>1. CASE CreateCommentResolve(t)
  <2>1. /\ At(t, {"CreateComment"}, "resolve")
        /\ Rollback(t) \/ Go(t, x)
    BY <1>1 DEF CreateCommentResolve
  <2>2. /\ txn[t] \in TxnState /\ txn[t].pc = "resolve"
        /\ txn[t].req.kind = "CreateComment" /\ Unwritten(txn[t])
    BY <2>1, AtRows DEF ReadsOK
  <2>3. /\ Follows(x, t) /\ SameRows(x, t) /\ x.req = txn[t].req
        /\ x.pc = "insertComment"
    BY <2>2 DEF Follows, SameRows, TxnState
  <2> HIDE DEF x
  <2>4. ReadsOK(x)
    BY <2>2, <2>3 DEF ReadsOK
  <2> QED
    BY <2>1, <2>2, <2>3, <2>4, QuietRows, RollbackRows
<1>2. CASE CreateCommentInsert(t)
  <2>1. /\ At(t, {"CreateComment"}, "insertComment")
        /\ Rollback(t) \/ Go(t, y)
    BY <1>2 DEF CreateCommentInsert
  <2>2. /\ txn[t] \in TxnState /\ txn[t].pc = "insertComment"
        /\ ReadsOK(txn[t])
    BY <2>1, AtRows
  <2>3. Locked(t) = [txn[t] EXCEPT !.locks = txn[t].locks \cup Needs(t)]
    BY <2>2, LockedFields
  <2> HIDE DEF out
  <2>4. /\ Follows(y, t) /\ SameRows(y, t) /\ y.req = txn[t].req
        /\ y.project = txn[t].project /\ y.pc \in {"insertDeps", "record", "commit"}
    BY <2>2, <2>3 DEF Follows, SameRows, TxnState, Continue
  <2> HIDE DEF y
  <2>5. ReadsOK(y)
    BY <2>2, <2>4, EndReads DEF Follows
  <2> QED
    BY <2>1, <2>2, <2>4, <2>5, QuietRows, RollbackRows
<1> QED
  BY <1>1, <1>2

LEMMA DeleteCommentRows ==
  ASSUME Inv, RowsInvariant, NEW t \in Txn,
         DeleteCommentResolve(t) \/ DeleteCommentRow(t)
  PROVE  RowsInvariant'
<1> DEFINE c == txn[t].req.comment
           k == comments[c]
           out == <<[type |-> "comment.deleted", comment |-> c, task |-> k]>>
           x == [txn[t] EXCEPT !.project = tasks[k].project, !.out = out,
                               !.pc = "deleteComment"]
           y == Continue([Locked(t) EXCEPT !.del = {c}])
<1>1. CASE DeleteCommentResolve(t)
  <2>1. /\ At(t, {"DeleteComment"}, "resolve")
        /\ Rollback(t) \/ Go(t, x)
    BY <1>1 DEF DeleteCommentResolve
  <2>2. /\ txn[t] \in TxnState /\ txn[t].pc = "resolve"
        /\ txn[t].req.kind = "DeleteComment" /\ Unwritten(txn[t])
    <3>1. ReadsOK(txn[t])
      BY <2>1, AtRows
    <3>2. txn[t] \in TxnState /\ txn[t].pc = "resolve"
          /\ txn[t].req.kind = "DeleteComment"
      BY <2>1, AtRows
    <3> QED
      BY <3>1, <3>2 DEF ReadsOK
  <2> HIDE DEF out
  <2>3. /\ Follows(x, t) /\ SameRows(x, t) /\ x.req = txn[t].req
        /\ x.pc = "deleteComment"
    BY <2>2 DEF Follows, SameRows, TxnState
  <2> HIDE DEF x
  <2>4. ReadsOK(x)
    BY <2>2, <2>3 DEF ReadsOK
  <2> QED
    BY <2>1, <2>2, <2>3, <2>4, QuietRows, RollbackRows
<1>2. CASE DeleteCommentRow(t)
  <2>1. At(t, {"DeleteComment"}, "deleteComment") /\ Go(t, y)
    BY <1>2 DEF DeleteCommentRow
  <2>2. /\ txn[t] \in TxnState /\ txn[t].pc = "deleteComment"
        /\ txn[t].req \in Request /\ txn[t].req.kind = "DeleteComment"
        /\ WritesOK(txn[t]) /\ ReadsOK(txn[t])
    BY <2>1, AtRows
  <2>3. {c} \cap (Project \cup Task) = {}
    BY <2>2, RequestFields, IdAssumption
  <2>4. Locked(t) = [txn[t] EXCEPT !.locks = txn[t].locks \cup Needs(t)]
    BY <2>2, LockedFields
  <2>5. /\ Follows(y, t) /\ y.req = txn[t].req /\ y.fresh = txn[t].fresh
        /\ y.puts = txn[t].puts /\ y.pending = txn[t].pending
        /\ y.addDeps = txn[t].addDeps /\ y.del = {c}
        /\ y.project = txn[t].project /\ y.pc \in {"insertDeps", "record", "commit"}
    BY <2>2, <2>4 DEF Follows, TxnState, Continue
  <2> HIDE DEF y
  <2>6. WritesOK(y)
    <3>1. \A d : MayLink(txn[t], d) => MayLink(y, d)
      BY <2>5 DEF MayLink
    <3>2. \A d : Linked(txn[t], d) => Linked(y, d)
      BY <2>5 DEF Linked, Holds, Follows
    <3> QED
      BY <2>2, <2>5, <3>1, <3>2 DEF WritesOK, Holds, Follows
  <2>7. DeletesOK(y)
    BY <2>2, <2>3, <2>5, NothingDeleted
  <2>8. ReadsOK(y)
    BY <2>2, <2>5, EndReads DEF Follows
  <2> QED
    BY <2>1, <2>5, <2>6, <2>7, <2>8, GoRows DEF Rows
<1> QED
  BY <1>1, <1>2

-----------------------------------------------------------------------------
(* UpdateProject, DeleteProject *)

LEMMA UpdateProjectLockRows ==
  ASSUME Inv, RowsInvariant, NEW t \in Txn, UpdateProjectLock(t)
  PROVE  RowsInvariant'
<1> DEFINE r == txn[t].req
           out == IF r.name = None THEN << >>
                  ELSE <<[type |-> "project.updated", name |-> r.name]>>
           y == Continue([Locked(t) EXCEPT !.project = r.project, !.out = out])
<1>1. /\ At(t, {"UpdateProject"}, "lockProject")
      /\ Rollback(t) \/ Go(t, y)
  BY DEF UpdateProjectLock
<1>2. /\ txn[t] \in TxnState /\ txn[t].pc = "lockProject"
      /\ r.kind = "UpdateProject" /\ ReadsOK(txn[t]) /\ Unwritten(txn[t])
  BY <1>1, AtRows DEF ReadsOK
<1>3. Locked(t) = [txn[t] EXCEPT !.locks = txn[t].locks \cup Needs(t)]
  BY <1>2, LockedFields
<1> HIDE DEF out
<1>4. /\ Follows(y, t) /\ SameRows(y, t) /\ y.req = r
      /\ y.pc \in {"insertDeps", "record", "commit"}
  BY <1>2, <1>3 DEF Follows, SameRows, TxnState, Continue
<1> HIDE DEF y
<1>5. ReadsOK(y)
  BY <1>2, <1>4, EndReads DEF Follows
<1> QED
  BY <1>1, <1>2, <1>4, <1>5, QuietRows, RollbackRows

LEMMA DeleteProjectLockRows ==
  ASSUME Inv, RowsInvariant, NEW t \in Txn, DeleteProjectLock(t)
  PROVE  RowsInvariant'
<1> DEFINE p == txn[t].req.project
           x == [Locked(t) EXCEPT !.pc = "cascade"]
<1>1. /\ At(t, {"DeleteProject"}, "lockProject")
      /\ Rollback(t) \/ Go(t, x)
  BY DEF DeleteProjectLock
<1>2. /\ txn[t] \in TxnState /\ txn[t].pc = "lockProject"
      /\ txn[t].req.kind = "DeleteProject" /\ Unwritten(txn[t])
  BY <1>1, AtRows DEF ReadsOK
<1>3. Locked(t) = [txn[t] EXCEPT !.locks = txn[t].locks \cup Needs(t)]
  BY <1>2, LockedFields
<1>4. /\ Follows(x, t) /\ SameRows(x, t) /\ x.req = txn[t].req
      /\ x.pc = "cascade" /\ x.locks = txn[t].locks \cup Needs(t)
  BY <1>2, <1>3 DEF Follows, SameRows, TxnState
<1> HIDE DEF x
<1>5. Holds(x, p, {"update"})
  BY <1>2, <1>4, HoldsNeeded DEF Needs, TaskLock
<1>6. ReadsOK(x)
  BY <1>2, <1>4, <1>5 DEF ReadsOK
<1> QED
  BY <1>1, <1>2, <1>4, <1>6, QuietRows, RollbackRows

\* The cascade takes every task of the project, locked, with its edges.
LEMMA DeleteProjectCascadeRows ==
  ASSUME Inv, RowsInvariant, NEW t \in Txn, DeleteProjectCascade(t)
  PROVE  RowsInvariant'
<1> DEFINE p == txn[t].req.project
           del == {p} \cup ProjectCascade(p)
           y == Continue([Locked(t) EXCEPT !.del = del])
<1>1. At(t, {"DeleteProject"}, "cascade") /\ Go(t, y)
  BY DEF DeleteProjectCascade
<1>2. /\ txn[t] \in TxnState /\ txn[t].pc = "cascade"
      /\ txn[t].req \in Request /\ txn[t].req.kind = "DeleteProject"
      /\ WritesOK(txn[t]) /\ DeletesOK(txn[t]) /\ ReadsOK(txn[t])
  BY <1>1, AtRows
<1>3. p \in Project /\ p \notin Task
  BY <1>2, RequestFields, IdAssumption
<1>4. Locked(t) = [txn[t] EXCEPT !.locks = txn[t].locks \cup Needs(t)]
  BY <1>2, LockedFields
<1>5. ASSUME NEW k \in Task, k \in del
      PROVE  k \in TasksOf(p)
  <2>1. PICK j \in TasksOf(p) : k \in TaskCascade(j)
    BY <1>3, <1>5 DEF ProjectCascade
  <2>2. j \in Task
    BY DEF TasksOf
  <2>3. k = j
    BY <2>1, <2>2, CascadeRows
  <2> QED
    BY <2>3
<1>6. \A k \in TasksOf(p) : TaskCascade(k) \subseteq del /\ k \in del
  BY DEF ProjectCascade, TaskCascade
<1>7. ASSUME NEW q \in Project, q \in del
      PROVE  q = p
  <2>1. \A j \in TasksOf(p) : q \notin TaskCascade(j)
    BY CascadeRows DEF TasksOf
  <2> QED
    BY <1>7, <2>1 DEF ProjectCascade
<1>8. Needs(t) = Locks(del, "update")
  BY <1>2 DEF Needs, TaskLock
<1> HIDE DEF del
<1>9. /\ Follows(y, t) /\ y.req = txn[t].req /\ y.fresh = txn[t].fresh
      /\ y.puts = txn[t].puts /\ y.pending = txn[t].pending
      /\ y.addDeps = txn[t].addDeps
      /\ y.del = del /\ y.locks = txn[t].locks \cup Needs(t)
      /\ y.project = txn[t].project /\ y.pc \in {"insertDeps", "record", "commit"}
  BY <1>2, <1>4 DEF Follows, TxnState, Continue
<1> HIDE DEF y
<1>10. WritesOK(y)
  BY <1>2, <1>9 DEF WritesOK, DeletesOK
<1>11. DeletesOK(y)
  <2>1. ASSUME NEW k \in Task, k \in del
        PROVE  /\ k \in used /\ Holds(y, k, {"update"})
               /\ \A e \in deps : k \in {e[1], e[2]} => e \in del
    <3>1. k \in TasksOf(p)
      BY <1>5, <2>1
    <3>2. k \in used
      BY <3>1 DEF TasksOf, RowsInvariant, IdsUsedOnce
    <3>3. Holds(y, k, {"update"})
      BY <1>8, <1>9, <2>1, HoldsNeeded
    <3>4. \A e \in deps : k \in {e[1], e[2]} => e \in del
      BY <1>6, <3>1, CascadeRows
    <3> QED
      BY <3>2, <3>3, <3>4
  <2>2. \A q \in Project \cap del : TasksOf(q) \subseteq del
    BY <1>6, <1>7
  <2> QED
    BY <1>2, <1>9, <2>1, <2>2 DEF DeletesOK
<1>12. ReadsOK(y)
  BY <1>2, <1>9, EndReads DEF Follows
<1> QED
  BY <1>1, <1>9, <1>10, <1>11, <1>12, GoRows DEF Rows

-----------------------------------------------------------------------------
(* The statements every operation shares. *)

\* The foreign keys: both ends exist and are locked until t ends.
LEMMA InsertDependencyRows ==
  ASSUME Inv, RowsInvariant, NEW t \in Txn, InsertDependency(t)
  PROVE  RowsInvariant'
<1> DEFINE pending == txn[t].pending
           e == Head(pending)
           add == txn[t].addDeps \cup {e}
           rest == Tail(pending)
           y == Continue([Locked(t) EXCEPT !.addDeps = add, !.pending = rest])
<1>1. /\ At(t, Kinds, "insertDeps")
      /\ \/ Rollback(t)
         \/ /\ EdgeAllowed(t, e)
            /\ Go(t, Continue([Locked(t) EXCEPT !.addDeps = @ \cup {e},
                                                !.pending = Tail(@)]))
  BY DEF InsertDependency
<1>2. /\ txn[t] \in TxnState /\ txn[t].pc = "insertDeps"
      /\ ShapeOK(txn[t]) /\ WritesOK(txn[t]) /\ DeletesOK(txn[t])
      /\ ReadsOK(txn[t])
  BY <1>1, AtRows
<1>3. pending \in Seq(Edge) /\ pending # << >>
  BY <1>2 DEF ShapeOK, TxnState
<1>4. /\ 1 \in DOMAIN pending /\ e = pending[1] /\ e \in Edge
      /\ e[1] \in Task /\ e[2] \in Task
  BY <1>3 DEF Edge
<1>5. \A i \in DOMAIN rest : i + 1 \in DOMAIN pending /\ rest[i] = pending[i + 1]
  BY <1>3
<1>6. Locked(t) = [txn[t] EXCEPT !.locks = txn[t].locks \cup Needs(t)]
  BY <1>2, LockedFields
<1>7. Rollback(t) \/ (EdgeAllowed(t, e) /\ Go(t, y))
  <2>1. Locked(t).addDeps = txn[t].addDeps /\ Locked(t).pending = txn[t].pending
    BY <1>2, <1>6 DEF TxnState
  <2> QED
    BY <1>1, <2>1
<1>8. Needs(t) = Locks({e[1], e[2]}, "keyShare")
  BY <1>2 DEF Needs, TaskLock
<1>9. MayLink(txn[t], e[1]) /\ MayLink(txn[t], e[2])
  BY <1>2, <1>4 DEF WritesOK
<1> HIDE DEF e, add, rest
<1>10. /\ Follows(y, t) /\ y.req = txn[t].req /\ y.fresh = txn[t].fresh
       /\ y.puts = txn[t].puts /\ y.pending = rest /\ y.addDeps = add
       /\ y.del = txn[t].del /\ y.locks = txn[t].locks \cup Needs(t)
       /\ y.project = txn[t].project /\ y.pc \in {"insertDeps", "record", "commit"}
  BY <1>2, <1>6 DEF Follows, TxnState, Continue
<1> HIDE DEF y
<1>11. CASE EdgeAllowed(t, e) /\ Go(t, y)
  <2>1. ASSUME NEW d \in Task, d \in {e[1], e[2]}
        PROVE  Linked(y, d)
    <3>1. MayLink(txn[t], d) /\ TaskSeen(t, d) # None
      BY <1>9, <1>11, <2>1 DEF EdgeAllowed
    <3>2. Holds(y, d, Mode)
      <4>1. Holds(y, d, {"keyShare"})
        BY <1>8, <1>10, <2>1, HoldsNeeded
      <4> QED
        BY <4>1 DEF Holds, Mode
    <3> QED
      BY <1>10, <3>1, <3>2 DEF MayLink, Linked, TaskSeen
  <2>2. \A f \in txn[t].addDeps : Linked(y, f[1]) /\ Linked(y, f[2])
    BY <1>2, <1>10 DEF WritesOK, Linked, Holds, Follows
  <2>3. \A f \in y.addDeps : Linked(y, f[1]) /\ Linked(y, f[2])
    BY <1>4, <1>10, <2>1, <2>2 DEF add
  <2>4. ASSUME NEW i \in DOMAIN y.pending
        PROVE  MayLink(y, y.pending[i][1]) /\ MayLink(y, y.pending[i][2])
    <3>1. i + 1 \in DOMAIN pending /\ y.pending[i] = pending[i + 1]
      BY <1>5, <1>10
    <3> QED
      BY <1>2, <1>10, <3>1 DEF WritesOK, MayLink
  <2>5. WritesOK(y)
    BY <1>2, <1>10, <2>3, <2>4 DEF WritesOK, Holds, Follows
  <2>6. txn[t].req.kind \notin {"DeleteTask", "DeleteProject"}
    BY <1>2, <1>3 DEF DeletesOK
  <2>7. DeletesOK(y)
    BY <1>2, <1>10, <2>6, NothingDeleted DEF DeletesOK
  <2>8. ReadsOK(y)
    BY <1>2, <1>10, EndReads DEF Follows
  <2> QED
    BY <1>10, <1>11, <2>5, <2>7, <2>8, GoRows DEF Rows
<1> QED
  BY <1>7, <1>11, RollbackRows

LEMMA RecordEventRows ==
  ASSUME Inv, RowsInvariant, NEW t \in Txn, RecordEvent(t)
  PROVE  RowsInvariant'
<1> DEFINE p == txn[t].project
           seq == 1 + IF txn[t].lastSeq = 0 THEN projects[p].lastSeq
                      ELSE txn[t].lastSeq
           e == [project |-> p, seq |-> seq, body |-> Head(txn[t].out)]
           y == Continue([Locked(t) EXCEPT !.lastSeq = seq, !.evs = @ \cup {e},
                                           !.out = Tail(@)])
<1>1. At(t, Kinds, "record") /\ (Rollback(t) \/ Go(t, y))
  BY DEF RecordEvent
<1>2. txn[t] \in TxnState /\ txn[t].pc = "record" /\ ReadsOK(txn[t])
  BY <1>1, AtRows
<1>3. Locked(t) = [txn[t] EXCEPT !.locks = txn[t].locks \cup Needs(t)]
  BY <1>2, LockedFields
<1> HIDE DEF seq, e
<1>4. /\ Follows(y, t) /\ SameRows(y, t) /\ y.req = txn[t].req
      /\ y.project = txn[t].project /\ y.pc \in {"insertDeps", "record", "commit"}
  BY <1>2, <1>3 DEF Follows, SameRows, TxnState, Continue
<1> HIDE DEF y
<1>5. ReadsOK(y)
  BY <1>2, <1>4, EndReads DEF Follows
<1> QED
  BY <1>1, <1>2, <1>4, <1>5, QuietRows, RollbackRows

-----------------------------------------------------------------------------
(* Commit *)

\* A commit moves no task to another project, and the tasks it adds are new
\* ones of a project it keeps in place.
LEMMA CommitTasks ==
  ASSUME Inv, RowsInvariant, NEW t \in Txn, Commit(t), NEW k \in Task
  PROVE  /\ txn[t].puts[k] # None =>
              k \notin txn[t].del /\ tasks'[k] = txn[t].puts[k]
              /\ tasks'[k].project = txn[t].project
         /\ tasks[k] # None /\ k \notin txn[t].del =>
              tasks'[k] # None /\ tasks'[k].project = tasks[k].project
         /\ tasks'[k] # None =>
              \/ /\ tasks[k] # None /\ k \notin txn[t].del
                 /\ tasks'[k].project = tasks[k].project
              \/ /\ k \in ToSet(txn[t].fresh) /\ txn[t].puts[k] # None
                 /\ tasks'[k].project = txn[t].project
                 /\ projects[txn[t].project] # None
                 /\ Holds(txn[t], txn[t].project, Mode)
                 /\ txn[t].req.kind \notin {"DeleteTask", "DeleteProject"}
<1>1. /\ txn[t].pc = "commit"
      /\ WritesOK(txn[t]) /\ DeletesOK(txn[t]) /\ ReadsOK(txn[t])
  BY AtRows DEF Commit
<1>2. tasks'[k] = TaskSeen(t, k)
  BY DEF Commit
<1>3. CASE txn[t].puts[k] # None
  <2>1. txn[t].req.kind \notin {"DeleteTask", "DeleteProject"} /\ k \notin txn[t].del
    BY <1>1, <1>3 DEF DeletesOK
  <2>2. tasks'[k] = txn[t].puts[k] /\ tasks'[k].project = txn[t].project
    BY <1>1, <1>2, <1>3, <2>1 DEF TaskSeen, WritesOK
  <2>3. CASE /\ k \in ToSet(txn[t].fresh)
             /\ projects[txn[t].project] # None
             /\ Holds(txn[t], txn[t].project, Mode)
    <3>1. tasks[k] = None
      BY <2>3 DEF RowsInvariant, IdsUsedOnce
    <3> QED
      BY <1>3, <2>1, <2>2, <2>3, <3>1
  <2>4. CASE txn[t].req.kind = "UpdateTask" /\ k = txn[t].req.task
    <3>1. tasks[k] # None /\ tasks[k].project = txn[t].project
      BY <1>1, <2>4 DEF ReadsOK
    <3> QED
      BY <1>3, <2>1, <2>2, <3>1
  <2> QED
    BY <1>1, <1>3, <2>3, <2>4 DEF WritesOK
<1>4. CASE txn[t].puts[k] = None
  BY <1>2, <1>4 DEF TaskSeen
<1> QED
  BY <1>3, <1>4

\* A row another transaction holds for itself is not one t holds.
LEMMA HoldsAlone ==
  ASSUME Inv, NEW t \in Txn, NEW u \in Txn, t # u, NEW w,
         Holds(txn[t], w, {"update"}), Holds(txn[u], w, Mode)
  PROVE  FALSE
<1>1. PICK l \in txn[t].locks, m \in txn[u].locks :
        l.row = w /\ l.mode = "update" /\ m.row = w /\ m.mode \in Mode
  BY DEF Holds
<1>2. Conflict(l.mode, m.mode)
  BY <1>1 DEF Conflict, Mode
<1> QED
  BY <1>1, <1>2 DEF Inv, LogInvariant, LocksExclusive

LEMMA CommitIds ==
  ASSUME Inv, RowsInvariant, NEW t \in Txn, Commit(t)
  PROVE  IdsUsedOnce'
<1>1. /\ used' = used \cup ToSet(txn[t].fresh) \cup ({txn[t].comment} \ {None})
      /\ txn' = [txn EXCEPT ![t] = Idle]
  BY DEF Commit
<1>2. txn[t].comment \in Comment \cup {None} /\ \A u \in Txn : txn[u].fresh \in Seq(Task)
  BY DEF Inv, TypeOK, TxnState
<1>3. \A u \in Txn : ToSet(txn[u].fresh) \subseteq Task
  BY <1>2, ToSetType
<1>4. ASSUME NEW u \in Txn
      PROVE  txn'[u] = IF u = t THEN Idle ELSE txn[u]
  BY <1>1 DEF Inv, TypeOK
<1>5. ToSet(Idle.fresh) = {}
  BY DEF Idle, ToSet
<1>6. \A k \in Task : tasks'[k] # None => k \in used'
  BY <1>1, CommitTasks DEF RowsInvariant, IdsUsedOnce
<1>7. ASSUME NEW u \in Txn PROVE ToSet(txn'[u].fresh) \cap used' = {}
  <2>1. CASE u = t
    BY <1>4, <1>5, <2>1
  <2>2. CASE u # t
    <3>1. /\ ToSet(txn[u].fresh) \cap used = {}
          /\ ToSet(txn[u].fresh) \cap ToSet(txn[t].fresh) = {}
      BY <2>2 DEF RowsInvariant, IdsUsedOnce
    <3>2. ToSet(txn[u].fresh) \cap ({txn[t].comment} \ {None}) = {}
      BY <1>2, <1>3, IdAssumption
    <3> QED
      BY <1>1, <1>4, <2>2, <3>1, <3>2
  <2> QED
    BY <2>1, <2>2
<1>8. ASSUME NEW u \in Txn, NEW v \in Txn, u # v
      PROVE  ToSet(txn'[u].fresh) \cap ToSet(txn'[v].fresh) = {}
  BY <1>4, <1>5, <1>8 DEF RowsInvariant, IdsUsedOnce
<1> QED
  BY <1>6, <1>7, <1>8 DEF IdsUsedOnce

\* No task loses its project: t deletes a project with its tasks, and what t
\* inserts it holds the project for.
LEMMA CommitProjectsKept ==
  ASSUME Inv, RowsInvariant, NEW t \in Txn, Commit(t), NEW k \in Task,
         tasks'[k] # None
  PROVE  projects'[tasks'[k].project] # None
<1>1. DeletesOK(txn[t])
  BY AtRows DEF Commit
<1>2. tasks'[k] \in TaskRow
  BY CommitType DEF TypeOK
<1> DEFINE p == tasks'[k].project
<1>3. p \in Project
  BY <1>2 DEF TaskRow
<1>4. projects[p] # None /\ p \notin txn[t].del
  <2>1. CASE /\ tasks[k] # None /\ k \notin txn[t].del
             /\ tasks'[k].project = tasks[k].project
    <3>1. projects[p] # None
      BY <2>1 DEF RowsInvariant
    <3>2. k \in TasksOf(p)
      BY <2>1 DEF TasksOf
    <3> QED
      BY <1>1, <1>3, <2>1, <3>1, <3>2 DEF DeletesOK
  <2>2. CASE /\ tasks'[k].project = txn[t].project
             /\ projects[txn[t].project] # None
             /\ txn[t].req.kind \notin {"DeleteTask", "DeleteProject"}
    BY <1>1, <1>3, <2>2 DEF DeletesOK
  <2> QED
    BY <2>1, <2>2, CommitTasks
<1> HIDE DEF p
<1>5. projects'[p] \in ProjectRow \/ projects'[p] = projects[p]
  BY <1>3, <1>4, CommitProjects
<1> QED
  BY <1>4, <1>5, NoneAssumption DEF p, ProjectRow

LEMMA CommitDependencies ==
  ASSUME Inv, RowsInvariant, NEW t \in Txn, Commit(t)
  PROVE  DependenciesWithinProject'
<1>1. /\ WritesOK(txn[t]) /\ DeletesOK(txn[t]) /\ txn[t] \in TxnState
  BY AtRows DEF Commit
<1>2. deps' = (deps \ txn[t].del) \cup txn[t].addDeps
  BY DEF Commit, DepsSeen
<1>3. ASSUME NEW e \in deps'
      PROVE  /\ tasks'[e[1]] # None /\ tasks'[e[2]] # None
             /\ tasks'[e[1]].project = tasks'[e[2]].project
  <2>1. e[1] \in Task /\ e[2] \in Task
    BY <1>1, <1>2 DEF Inv, TypeOK, TxnState, Edge
  <2>2. CASE e \in txn[t].addDeps
    <3>1. ASSUME NEW d \in Task, Linked(txn[t], d)
          PROVE  tasks'[d] # None /\ tasks'[d].project = txn[t].project
      <4>1. d \notin txn[t].del
        BY <1>1, <2>2 DEF DeletesOK
      <4> QED
        BY <3>1, <4>1, CommitTasks DEF Linked
    <3>2. Linked(txn[t], e[1]) /\ Linked(txn[t], e[2])
      BY <1>1, <2>2 DEF WritesOK
    <3> QED
      BY <2>1, <3>1, <3>2
  <2>3. CASE e \in deps /\ e \notin txn[t].del
    <3>1. e[1] \notin txn[t].del /\ e[2] \notin txn[t].del
      BY <1>1, <2>1, <2>3 DEF DeletesOK
    <3>2. /\ tasks[e[1]] # None /\ tasks[e[2]] # None
          /\ tasks[e[1]].project = tasks[e[2]].project
      BY <2>3 DEF RowsInvariant, DependenciesWithinProject
    <3> QED
      BY <2>1, <3>1, <3>2, CommitTasks
  <2> QED
    BY <1>2, <2>2, <2>3
<1> QED
  BY <1>3 DEF DependenciesWithinProject

\* What another open transaction relies on stands: the rows it holds are
\* still there, and no row it may come to link has another project.
LEMMA CommitOthers ==
  ASSUME Inv, RowsInvariant, NEW t \in Txn, Commit(t), NEW u \in Txn, u # t,
         txn[u].pc # "idle"
  PROVE  (WritesOK(txn[u]) /\ DeletesOK(txn[u]) /\ ReadsOK(txn[u]))'
<1>1. /\ WritesOK(txn[t]) /\ DeletesOK(txn[t]) /\ ReadsOK(txn[t])
      /\ txn[t].pc = "commit" /\ ClaimsOK(txn[t])
  BY AtRows, AtFacts DEF Commit
<1>2. /\ WritesOK(txn[u]) /\ DeletesOK(txn[u]) /\ ReadsOK(txn[u])
      /\ ClaimsOK(txn[u]) /\ txn[u] \in TxnState
  BY DEF RowsInvariant, Inv, LogInvariant, TypeOK
<1>3. /\ txn'[u] = txn[u] /\ used \subseteq used'
      /\ deps' = (deps \ txn[t].del) \cup txn[t].addDeps
  BY DEF Commit, DepsSeen, Inv, TypeOK
<1>4. ASSUME NEW d \in Task, tasks[d] # None, Holds(txn[u], d, Mode)
      PROVE  tasks'[d] # None /\ tasks'[d].project = tasks[d].project
  <2>1. d \notin txn[t].del
    BY <1>1, <1>4, HoldsAlone DEF DeletesOK
  <2> QED
    BY <1>4, <2>1, CommitTasks
<1>5. ASSUME NEW d \in Task, MayLink(txn[u], d)
      PROVE  MayLink(txn[u], d)'
  <2>1. CASE txn[u].puts[d] # None
    BY <1>3, <2>1 DEF MayLink
  <2>2. CASE d \in used /\ (tasks[d] # None => tasks[d].project = txn[u].project)
    <3>1. d \notin ToSet(txn[t].fresh)
      BY <2>2 DEF RowsInvariant, IdsUsedOnce
    <3>2. tasks'[d] # None => tasks[d] # None /\ tasks'[d].project = tasks[d].project
      BY <3>1, CommitTasks
    <3> QED
      BY <1>3, <2>2, <3>2 DEF MayLink
  <2> QED
    BY <1>5, <2>1, <2>2 DEF MayLink
<1>6. ASSUME NEW d \in Task, Linked(txn[u], d)
      PROVE  Linked(txn[u], d)'
  BY <1>3, <1>4, <1>6 DEF Linked, Holds
<1>7. ASSUME NEW p \in Project, projects[p] # None, Holds(txn[u], p, Mode)
      PROVE  projects'[p] # None
  <2>1. p \notin txn[t].del
    BY <1>1, <1>7, HoldsAlone DEF ClaimsOK
  <2> QED
    BY <1>7, <2>1, CommitProjects, NoneAssumption DEF ProjectRow
<1>8. WritesOK(txn[u])'
  <2>1. ASSUME NEW k \in Task, txn[u].puts[k] # None
        PROVE  /\ txn[u].puts[k].project = txn[u].project
               /\ \/ /\ k \in ToSet(txn[u].fresh)
                     /\ projects'[txn[u].project] # None
                     /\ Holds(txn[u], txn[u].project, Mode)
                  \/ txn[u].req.kind = "UpdateTask" /\ k = txn[u].req.task
    <3>1. txn[u].puts[k] \in TaskRow /\ txn[u].puts[k].project \in Project
      BY <1>2, <2>1 DEF TxnState, TaskRow
    <3> QED
      BY <1>2, <1>7, <2>1, <3>1 DEF WritesOK
  <2>2. ASSUME NEW i \in DOMAIN txn[u].pending
        PROVE  /\ MayLink(txn[u], txn[u].pending[i][1])'
               /\ MayLink(txn[u], txn[u].pending[i][2])'
    <3>1. txn[u].pending[i][1] \in Task /\ txn[u].pending[i][2] \in Task
      BY <1>2 DEF TxnState, Edge
    <3>2. MayLink(txn[u], txn[u].pending[i][1]) /\ MayLink(txn[u], txn[u].pending[i][2])
      BY <1>2 DEF WritesOK
    <3> DEFINE d == txn[u].pending[i]
    <3>3. d' = d
      BY <1>3
    <3> QED
      BY <1>3, <1>5, <3>1, <3>2 DEF MayLink
  <2>3. ASSUME NEW e \in txn[u].addDeps
        PROVE  Linked(txn[u], e[1])' /\ Linked(txn[u], e[2])'
    <3>1. e[1] \in Task /\ e[2] \in Task
      BY <1>2 DEF TxnState, Edge
    <3>2. Linked(txn[u], e[1]) /\ Linked(txn[u], e[2])
      BY <1>2 DEF WritesOK
    <3> QED
      BY <1>6, <3>1, <3>2
  <2> QED
    BY <1>3, <2>1, <2>2, <2>3 DEF WritesOK, MayLink, Linked, Holds
<1>9. DeletesOK(txn[u])'
  <2>1. ASSUME NEW k \in Task \cap txn[u].del, NEW e \in deps', k \in {e[1], e[2]}
        PROVE  e \in txn[u].del
    <3>1. k \in used /\ Holds(txn[u], k, {"update"})
      BY <1>2 DEF DeletesOK
    <3>2. CASE e \in deps
      BY <1>2, <2>1, <3>2 DEF DeletesOK
    <3>3. CASE e \in txn[t].addDeps
      <4>1. Linked(txn[t], k)
        BY <1>1, <2>1, <3>3 DEF WritesOK
      <4>2. Holds(txn[t], k, Mode)
        <5>1. CASE txn[t].puts[k] # None
          <6>1. k \notin ToSet(txn[t].fresh)
            BY <3>1 DEF RowsInvariant, IdsUsedOnce
          <6>2. txn[t].req.kind = "UpdateTask" /\ k = txn[t].req.task
            BY <1>1, <5>1, <6>1 DEF WritesOK
          <6>3. Holds(txn[t], k, {"update"})
            BY <1>1, <6>2 DEF ReadsOK
          <6> QED
            BY <6>3 DEF Holds, Mode
        <5>2. CASE txn[t].puts[k] = None
          BY <4>1, <5>2 DEF Linked
        <5> QED
          BY <5>1, <5>2
      <4> QED
        BY <3>1, <4>2, HoldsAlone
    <3> QED
      BY <1>3, <2>1, <3>2, <3>3
  <2>2. ASSUME NEW p \in Project \cap txn[u].del, NEW k \in Task,
               tasks'[k] # None, tasks'[k].project = p
        PROVE  k \in txn[u].del
    <3>1. Holds(txn[u], p, {"update"})
      BY <1>2 DEF ClaimsOK
    <3>2. ~ Holds(txn[t], p, Mode)
      BY <3>1, HoldsAlone
    <3>3. tasks[k] # None /\ tasks[k].project = p
      BY <2>2, <3>2, CommitTasks
    <3> QED
      BY <1>2, <3>3 DEF DeletesOK, TasksOf
  <2> QED
    BY <1>2, <1>3, <2>1, <2>2 DEF DeletesOK, TasksOf, Holds
<1>10. ReadsOK(txn[u])'
  <2>1. txn[u].req \in Request
    BY <1>2 DEF Inv, LogInvariant, ShapeOK, TxnState
  <2>2. txn[u].req.kind \in {"UpdateTask", "DeleteTask", "CreateTaskBatch"}
          /\ txn[u].pc # "lock" =>
            /\ tasks'[txn[u].req.task] # None
            /\ tasks'[txn[u].req.task].project = txn[u].project
            /\ Holds(txn[u], txn[u].req.task, {"update"})
    <3> SUFFICES ASSUME txn[u].req.kind \in {"UpdateTask", "DeleteTask", "CreateTaskBatch"},
                        txn[u].pc # "lock"
                 PROVE  /\ tasks'[txn[u].req.task] # None
                        /\ tasks'[txn[u].req.task].project = txn[u].project
                        /\ Holds(txn[u], txn[u].req.task, {"update"})
      OBVIOUS
    <3>1. txn[u].req.task \in Task
      BY <2>1, RequestFields
    <3>2. /\ tasks[txn[u].req.task] # None
          /\ tasks[txn[u].req.task].project = txn[u].project
          /\ Holds(txn[u], txn[u].req.task, {"update"})
      BY <1>2 DEF ReadsOK
    <3>3. Holds(txn[u], txn[u].req.task, Mode)
      BY <3>2 DEF Holds, Mode
    <3> QED
      BY <1>4, <3>1, <3>2, <3>3
  <2>3. (\/ txn[u].req.kind = "CreateTask" /\ txn[u].pc = "insertTask"
         \/ txn[u].req.kind = "UpdateTask" /\ txn[u].pc \in {"complete", "write"} /\ txn[u].req.deps # None)
        => \A d \in ToSet(txn[u].req.deps) : d \in Task /\ MayLink(txn[u], d)'
    <3> SUFFICES ASSUME
                   \/ txn[u].req.kind = "CreateTask" /\ txn[u].pc = "insertTask"
                   \/ txn[u].req.kind = "UpdateTask" /\ txn[u].pc \in {"complete", "write"} /\ txn[u].req.deps # None
                 PROVE \A d \in ToSet(txn[u].req.deps) : d \in Task /\ MayLink(txn[u], d)'
      OBVIOUS
    <3>1. txn[u].req.deps \in Seq(Task)
      BY <2>1, RequestFields
    <3>2. ToSet(txn[u].req.deps) \subseteq Task
      BY <3>1, ToSetType
    <3>3. \A d \in ToSet(txn[u].req.deps) : MayLink(txn[u], d)
      BY <1>2 DEF ReadsOK
    <3> QED
      BY <1>5, <3>2, <3>3
  <2> QED
    BY <1>2, <1>3, <2>2, <2>3 DEF ReadsOK, Unwritten, Holds, MayLink
<1> QED
  BY <1>8, <1>9, <1>10

LEMMA CommitRows ==
  ASSUME Inv, RowsInvariant, NEW t \in Txn, Commit(t)
  PROVE  RowsInvariant'
<1>1. ASSUME NEW u \in Txn, txn'[u].pc # "idle"
      PROVE  (WritesOK(txn[u]) /\ DeletesOK(txn[u]) /\ ReadsOK(txn[u]))'
  <2>1. txn'[u] = IF u = t THEN Idle ELSE txn[u]
    BY DEF Commit, Inv, TypeOK
  <2>2. u # t /\ txn[u].pc # "idle"
    BY <1>1, <2>1 DEF Idle
  <2> QED
    BY <2>2, CommitOthers
<1> QED
  BY <1>1, CommitIds, CommitProjectsKept, CommitDependencies DEF RowsInvariant

-----------------------------------------------------------------------------
(* A request arrives, a project is created. *)

LEMMA BeginRows ==
  ASSUME Inv, RowsInvariant, NEW t \in Txn, NEW r \in Request, Begin(t, r)
  PROVE  RowsInvariant'
<1>1. PICK ids \in [1..NewTasks(r) -> FreshTasks],
           c \in IF r.kind = "CreateComment" THEN FreshComments ELSE {None} :
        Go(t, [Idle EXCEPT !.req = r, !.pc = FirstPC(r.kind),
                           !.fresh = ids, !.comment = c])
  BY DEF Begin
<1> DEFINE x == [Idle EXCEPT !.req = r, !.pc = FirstPC(r.kind),
                             !.fresh = ids, !.comment = c]
<1>2. /\ x.req = r /\ x.pc = FirstPC(r.kind) /\ x.fresh = ids
      /\ Unwritten(x)
  BY DEF Idle, Unwritten
<1>3. txn' = [txn EXCEPT ![t] = x] /\ UNCHANGED <<projects, tasks, deps, used>>
  BY <1>1 DEF Go
<1> HIDE DEF x
<1>4. r.kind \in {"CreateTask", "UpdateTask", "DeleteTask", "CreateTaskBatch",
                  "CreateComment", "DeleteComment", "UpdateProject",
                  "DeleteProject"}
  BY DEF Request
<1>5. WritesOK(x)
  BY <1>2 DEF WritesOK, Unwritten
<1>6. DeletesOK(x)
  BY <1>2 DEF DeletesOK, Unwritten
<1>7. ReadsOK(x)
  BY <1>2, <1>4 DEF ReadsOK, FirstPC
<1>8. ToSet(ids) \subseteq FreshTasks
  BY DEF ToSet
<1>9. ASSUME NEW u \in Txn PROVE txn'[u] = IF u = t THEN x ELSE txn[u]
  BY <1>3 DEF Inv, TypeOK
<1>10. IdsUsedOnce'
  <2>1. \A k \in Task : tasks'[k] # None => k \in used'
    BY <1>3 DEF RowsInvariant, IdsUsedOnce
  <2>2. ASSUME NEW u \in Txn PROVE ToSet(txn'[u].fresh) \cap used' = {}
    BY <1>2, <1>3, <1>8, <1>9 DEF RowsInvariant, IdsUsedOnce, FreshTasks
  <2>3. ASSUME NEW u \in Txn, NEW v \in Txn, u # v
        PROVE  ToSet(txn'[u].fresh) \cap ToSet(txn'[v].fresh) = {}
    <3>1. \A w \in Txn : ToSet(ids) \cap ToSet(txn[w].fresh) = {}
      BY <1>8 DEF FreshTasks
    <3> QED
      BY <1>2, <1>9, <2>3, <3>1 DEF RowsInvariant, IdsUsedOnce
  <2> QED
    BY <2>1, <2>2, <2>3 DEF IdsUsedOnce
<1>11. ASSUME NEW u \in Txn, txn'[u].pc # "idle"
       PROVE  (WritesOK(txn[u]) /\ DeletesOK(txn[u]) /\ ReadsOK(txn[u]))'
  <2>1. PICK v : v = txn'[u]
    OBVIOUS
  <2>2. Rows(v)
    BY <1>5, <1>6, <1>7, <1>9, <1>11, <2>1 DEF RowsInvariant, Rows
  <2>3. Rows(v)'
    BY <1>3, <2>2, SameTables
  <2> QED
    BY <2>1, <2>3 DEF Rows
<1>12. DependenciesWithinProject'
  BY <1>3 DEF RowsInvariant, DependenciesWithinProject
<1>13. \A k \in Task : tasks'[k] # None => projects'[tasks'[k].project] # None
  BY <1>3 DEF RowsInvariant
<1> QED
  BY <1>10, <1>11, <1>12, <1>13 DEF RowsInvariant

LEMMA CreateProjectRows ==
  ASSUME Inv, RowsInvariant, NEW p \in Project, NEW name \in Text,
         CreateProject(p, name)
  PROVE  RowsInvariant'
<1> DEFINE row == [name |-> name, lastSeq |-> 0]
<1>1. /\ projects' = [projects EXCEPT ![p] = row]
      /\ used' = used \cup {p}
      /\ UNCHANGED <<tasks, deps, txn>>
  BY DEF CreateProject
<1>2. row # None
  BY NoneAssumption DEF ProjectRow
<1>3. \A q \in Project : projects[q] # None => projects'[q] # None
  BY <1>1, <1>2 DEF Inv, TypeOK
<1> HIDE DEF row
<1>4. ASSUME NEW u \in Txn PROVE ToSet(txn[u].fresh) \subseteq Task
  BY ToSetType DEF Inv, TypeOK, TxnState
<1>5. IdsUsedOnce'
  BY <1>1, <1>4, IdAssumption DEF RowsInvariant, IdsUsedOnce
<1>6. ASSUME NEW u \in Txn, txn'[u].pc # "idle"
      PROVE  (WritesOK(txn[u]) /\ DeletesOK(txn[u]) /\ ReadsOK(txn[u]))'
  <2>1. /\ WritesOK(txn[u]) /\ DeletesOK(txn[u]) /\ ReadsOK(txn[u])
        /\ txn[u] \in TxnState
    BY <1>1, <1>6 DEF RowsInvariant, Inv, TypeOK
  <2>2. WritesOK(txn[u])'
    <3>1. \A k \in Task : txn[u].puts[k] # None => txn[u].puts[k].project \in Project
      BY <2>1 DEF TxnState, TaskRow
    <3> QED
      BY <1>1, <1>3, <2>1, <3>1 DEF WritesOK, MayLink, Linked, Holds
  <2>3. DeletesOK(txn[u])'
    BY <1>1, <2>1 DEF DeletesOK, TasksOf, Holds
  <2>4. ReadsOK(txn[u])'
    BY <1>1, <2>1 DEF ReadsOK, MayLink, Holds, Unwritten
  <2> QED
    BY <2>2, <2>3, <2>4
<1>7. DependenciesWithinProject'
  BY <1>1 DEF RowsInvariant, DependenciesWithinProject
<1>8. ASSUME NEW k \in Task, tasks'[k] # None
      PROVE  projects'[tasks'[k].project] # None
  <2>1. tasks[k] # None /\ tasks[k].project \in Project
    BY <1>1, <1>8 DEF Inv, TypeOK, TaskRow
  <2> QED
    BY <1>1, <1>3, <2>1 DEF RowsInvariant
<1> QED
  BY <1>5, <1>6, <1>7, <1>8 DEF RowsInvariant

-----------------------------------------------------------------------------
(* The theorems. *)

LEMMA FailRows ==
  ASSUME Inv, RowsInvariant, NEW t \in Txn, Fail(t) \/ DeadlockVictim(t)
  PROVE  RowsInvariant'
BY RollbackRows DEF Fail, DeadlockVictim

LEMMA StatementRows ==
  ASSUME Inv, RowsInvariant, NEW t \in Txn, Statement(t)
  PROVE  RowsInvariant'
<1>1. CASE CreateTaskValidate(t) \/ CreateTaskInsert(t)
  BY <1>1, CreateTaskValidateRows, CreateTaskInsertRows
<1>2. CASE UpdateTaskLock(t) \/ UpdateTaskValidate(t)
           \/ UpdateTaskComplete(t) \/ UpdateTaskWrite(t)
  BY <1>2, UpdateTaskLockRows, UpdateTaskValidateRows, UpdateTaskCompleteRows,
     UpdateTaskWriteRows
<1>3. CASE DeleteTaskLock(t) \/ DeleteTaskCascade(t)
  BY <1>3, DeleteTaskLockRows, DeleteTaskCascadeRows
<1>4. CASE BatchLock(t) \/ BatchInsert(t) \/ BatchValidate(t)
  BY <1>4, BatchLockRows, BatchInsertRows, BatchValidateRows
<1>5. CASE CreateCommentResolve(t) \/ CreateCommentInsert(t)
           \/ DeleteCommentResolve(t) \/ DeleteCommentRow(t)
  BY <1>5, CreateCommentRows, DeleteCommentRows
<1>6. CASE UpdateProjectLock(t) \/ DeleteProjectLock(t)
           \/ DeleteProjectCascade(t)
  BY <1>6, UpdateProjectLockRows, DeleteProjectLockRows,
     DeleteProjectCascadeRows
<1>7. CASE InsertDependency(t) \/ RecordEvent(t) \/ Commit(t)
           \/ DeadlockVictim(t)
  BY <1>7, InsertDependencyRows, RecordEventRows, CommitRows, FailRows
<1> QED
  BY <1>1, <1>2, <1>3, <1>4, <1>5, <1>6, <1>7 DEF Statement

LEMMA InitRows == Init => RowsInvariant
<1> SUFFICES ASSUME Init PROVE RowsInvariant
  OBVIOUS
<1>1. Idle.pc = "idle" /\ ToSet(Idle.fresh) = {}
  BY DEF Idle, ToSet
<1>2. IdsUsedOnce
  BY <1>1 DEF Init, IdsUsedOnce
<1>3. DependenciesWithinProject
  BY DEF Init, DependenciesWithinProject
<1> QED
  BY <1>1, <1>2, <1>3 DEF Init, RowsInvariant

LEMMA NextRows == Inv /\ RowsInvariant /\ [Next]_vars => RowsInvariant'
<1> SUFFICES ASSUME Inv, RowsInvariant, [Next]_vars PROVE RowsInvariant'
  OBVIOUS
<1>1. CASE \E p \in Project, name \in Text : CreateProject(p, name)
  BY <1>1, CreateProjectRows
<1>2. ASSUME NEW t \in Txn, \E r \in Request : Begin(t, r)
      PROVE  RowsInvariant'
  BY <1>2, BeginRows
<1>3. ASSUME NEW t \in Txn, Statement(t)
      PROVE  RowsInvariant'
  BY <1>3, StatementRows
<1>4. ASSUME NEW t \in Txn, Fail(t)
      PROVE  RowsInvariant'
  BY <1>4, FailRows
<1>5. CASE UNCHANGED vars
  <2>1. /\ IdsUsedOnce' /\ DependenciesWithinProject'
        /\ \A k \in Task : tasks'[k] # None => projects'[tasks'[k].project] # None
    BY <1>5 DEF vars, RowsInvariant, IdsUsedOnce, DependenciesWithinProject
  <2>2. ASSUME NEW u \in Txn, txn'[u].pc # "idle"
        PROVE  (WritesOK(txn[u]) /\ DeletesOK(txn[u]) /\ ReadsOK(txn[u]))'
    <3>1. PICK v : v = txn'[u]
      OBVIOUS
    <3>2. Rows(v)
      BY <1>5, <2>2, <3>1 DEF vars, RowsInvariant, Rows
    <3>3. Rows(v)'
      BY <1>5, <3>2, SameTables DEF vars
    <3> QED
      BY <3>1, <3>3 DEF Rows
  <2> QED
    BY <2>1, <2>2 DEF RowsInvariant
<1> QED
  BY <1>1, <1>2, <1>3, <1>4, <1>5 DEF Next

\* What every open transaction has read, locked and written keeps the rows
\* consistent when it commits: what makes the next theorem inductive.
THEOREM RowsStayConsistent == Spec => []RowsInvariant
BY InitInv, NextInv, InitRows, NextRows, PTL DEF Spec

\* Whatever validations, inserts, deletions and cascades run at once, both
\* ends of every edge exist and are of one project: the row locks and foreign
\* keys make up for what validateDependencies reads without a lock.
THEOREM DependenciesStayInProject == Spec => []DependenciesWithinProject
<1>1. RowsInvariant => DependenciesWithinProject
  BY DEF RowsInvariant
<1> QED
  BY <1>1, RowsStayConsistent, PTL

-----------------------------------------------------------------------------
(* The names in the log. *)

InOrder(x) == BlockOK(x) /\ ReadsTold(x)

-----------------------------------------------------------------------------
(* One statement: t goes from txn[t] to x, nothing is committed. *)

\* InOrder speaks of the tables and of its argument alone, and wants no more
\* than that the log still creates what it did.
LEMMA ToldKept ==
  ASSUME NEW x, InOrder(x), used \subseteq used',
         \A d : Told(x.project, d) => Told(x.project, d)'
  PROVE  InOrder(x)'
<1>1. BlockOK(x)'
  BY DEF InOrder, BlockOK, Makes, Recorded
<1>2. ReadsTold(x)'
  BY DEF InOrder, ReadsTold, Makes, Recorded
<1> QED
  BY <1>1, <1>2 DEF InOrder

LEMMA SameLogs ==
  ASSUME NEW x, InOrder(x), projects' = projects, events' = events, used' = used
  PROVE  InOrder(x)'
<1>1. \A d : Told(x.project, d) => Told(x.project, d)'
  BY DEF Told
<1> QED
  BY <1>1, ToldKept

LEMMA GoNames ==
  ASSUME Inv, NamesInvariant, NEW t \in Txn, NEW x, Go(t, x),
         x.pc # "idle" => InOrder(x)
  PROVE  NamesInvariant'
<1>1. /\ txn' = [txn EXCEPT ![t] = x]
      /\ projects' = projects /\ tasks' = tasks /\ events' = events /\ used' = used
  BY DEF Go
<1>2. ASSUME NEW u \in Txn PROVE txn'[u] = IF u = t THEN x ELSE txn[u]
  BY <1>1 DEF Inv, TypeOK
<1>3. ASSUME NEW u \in Txn, txn'[u].pc # "idle"
      PROVE  (BlockOK(txn[u]) /\ ReadsTold(txn[u]))'
  <2>1. PICK v : v = txn'[u]
    OBVIOUS
  <2>2. InOrder(v)
    BY <1>2, <1>3, <2>1 DEF NamesInvariant, InOrder
  <2>3. InOrder(v)'
    BY <1>1, <2>2, SameLogs
  <2> QED
    BY <2>1, <2>3 DEF InOrder
<1>4. NoForwardReference'
  BY <1>1 DEF NamesInvariant, NoForwardReference
<1>5. \A k \in Task : tasks'[k] # None => Told(tasks[k].project, k)'
  BY <1>1 DEF NamesInvariant, Told
<1>6. \A e \in events', d \in Task : Creates(e.body, d) => d \in used'
  BY <1>1 DEF NamesInvariant
<1> QED
  BY <1>3, <1>4, <1>5, <1>6 DEF NamesInvariant

LEMMA RollbackNames ==
  ASSUME Inv, NamesInvariant, NEW t \in Txn, Rollback(t)
  PROVE  NamesInvariant'
<1>1. Idle.pc = "idle"
  BY DEF Idle
<1> QED
  BY <1>1, GoNames DEF Rollback

LEMMA AtNames ==
  ASSUME Inv, NamesInvariant, NEW t \in Txn, NEW kinds, NEW pc, pc # "idle",
         At(t, kinds, pc)
  PROVE  /\ BlockOK(txn[t]) /\ ReadsTold(txn[t])
         /\ txn[t] \in TxnState /\ txn[t].pc = pc
         /\ txn[t].req \in Request /\ txn[t].req.kind \in kinds
         /\ RequestOK(txn[t]) /\ ShapeOK(txn[t])
BY AtFacts DEF NamesInvariant

\* y has the events of x.
SameEvents(y, x) == y.fresh = x.fresh /\ y.evs = x.evs /\ y.out = x.out

\* A transaction that has no event yet may learn its project.
LEMMA BlockKept ==
  ASSUME NEW x, NEW y, BlockOK(x), SameEvents(y, x),
         y.project = x.project \/ (x.evs = {} /\ x.out = << >>)
  PROVE  BlockOK(y)
<1>1. \A d : (Recorded(x, d) <=> Recorded(y, d)) /\ (Makes(x, d) <=> Makes(y, d))
  BY DEF Recorded, Makes, SameEvents
<1>2. CASE y.project = x.project
  BY <1>1, <1>2 DEF BlockOK, SameEvents
<1>3. CASE x.evs = {} /\ x.out = << >>
  <2>1. {e.body : e \in y.evs} \cup ToSet(y.out) = {}
    BY <1>3 DEF SameEvents, ToSet
  <2> QED
    BY <1>1, <1>3, <2>1 DEF BlockOK, SameEvents
<1> QED
  BY <1>2, <1>3

LEMMA QuietNames ==
  ASSUME Inv, NamesInvariant, NEW t \in Txn, txn[t].pc # "idle", NEW y, Go(t, y),
         SameEvents(y, txn[t]),
         y.project = txn[t].project \/ (txn[t].evs = {} /\ txn[t].out = << >>),
         ReadsTold(y)
  PROVE  NamesInvariant'
<1>1. BlockOK(txn[t])
  BY DEF NamesInvariant
<1>2. BlockOK(y)
  BY <1>1, BlockKept
<1> QED
  BY <1>2, GoNames DEF InOrder

\* Events that create nothing and speak of what the log has created.
LEMMA ToldEvents ==
  ASSUME NEW x, NEW y, BlockOK(x), y.fresh = x.fresh, y.evs = {},
         \A i \in DOMAIN y.out :
           /\ y.out[i].type # "task.created"
           /\ \A d \in TasksNamed(y.out[i]) : Told(y.project, d)
  PROVE  BlockOK(y)
<1>1. \A d : ~ Recorded(y, d) /\ ~ Makes(y, d)
  BY DEF Recorded, Makes, Creates
<1>2. \A b \in {e.body : e \in y.evs} \cup ToSet(y.out) : b.type # "task.created"
  BY DEF ToSet
<1> QED
  BY <1>1, <1>2 DEF BlockOK, Creates

\* y is about to run the statements every operation ends with.
AtEnd(y) == /\ y.pc \in {"insertDeps", "record", "commit"}
            /\ y.pc = "commit" => y.out = << >>

\* At the shared end what was read stays told, and every task written must be
\* told or made.
LEMMA EndTold ==
  ASSUME NEW x, NEW y, ReadsTold(x), x.pc # "lock", y.req = x.req, y.read = x.read,
         y.project = x.project, AtEnd(y),
         \A k \in Task : y.puts[k] # None => Told(y.project, k) \/ Makes(y, k)
  PROVE  ReadsTold(y)
BY DEF ReadsTold, AtEnd

\* A task that passes validation is told, if the transaction has written none.
LEMMA ValidTold ==
  ASSUME Inv, NamesInvariant, NEW t \in Txn, NEW k, NEW p, NEW ds,
         ValidDependencies(t, k, p, ds), NEW d \in ds, d \in Task,
         txn[t].puts[d] = None
  PROVE  Told(p, d)
<1>1. TaskSeen(t, d) # None /\ TaskSeen(t, d).project = p
  BY DEF ValidDependencies
<1>2. tasks[d] # None /\ tasks[d].project = p
  BY <1>1 DEF TaskSeen
<1> QED
  BY <1>2 DEF NamesInvariant

\* What a task depends on, and what depends on it, is told.
LEMMA NeighboursTold ==
  ASSUME Inv, RowsInvariant, NamesInvariant, NEW k \in Task, tasks[k] # None
  PROVE  /\ Told(tasks[k].project, k) /\ tasks[k].project \in used
         /\ \A d \in DirectDeps(k) \cup Dependents(k) : Told(tasks[k].project, d)
<1>1. Told(tasks[k].project, k)
  BY DEF NamesInvariant
<1>2. tasks[k].project \in used
  <2>1. tasks[k].project \in Project
    BY DEF Inv, TypeOK, TaskRow
  <2> QED
    BY <2>1 DEF RowsInvariant, Inv, LogInvariant
<1>3. ASSUME NEW d \in DirectDeps(k) \cup Dependents(k)
      PROVE  Told(tasks[k].project, d)
  <2>1. PICK e \in deps : {d, k} = {e[1], e[2]}
    BY <1>3 DEF DirectDeps, Dependents
  <2>2. e[1] \in Task /\ e[2] \in Task
    BY DEF Inv, TypeOK, Edge
  <2>3. /\ d \in Task /\ tasks[d] # None /\ tasks[d].project = tasks[k].project
    BY <2>1, <2>2 DEF RowsInvariant, DependenciesWithinProject
  <2> QED
    BY <2>3 DEF NamesInvariant
<1> QED
  BY <1>1, <1>2, <1>3

-----------------------------------------------------------------------------
(* CreateTask *)

LEMMA CreateTaskValidateNames ==
  ASSUME Inv, NamesInvariant, NEW t \in Txn, CreateTaskValidate(t)
  PROVE  NamesInvariant'
<1> DEFINE r == txn[t].req
           k == txn[t].fresh[1]
           x == [txn[t] EXCEPT !.project = r.project, !.pc = "insertTask"]
<1>1. /\ At(t, {"CreateTask"}, "validate")
      /\ \/ Rollback(t)
         \/ ValidDependencies(t, k, r.project, ToSet(r.deps)) /\ Go(t, x)
  BY DEF CreateTaskValidate
<1>2. /\ txn[t] \in TxnState /\ txn[t].pc = "validate"
      /\ r \in Request /\ r.kind = "CreateTask"
      /\ ReadsTold(txn[t]) /\ ShapeOK(txn[t])
  BY <1>1, AtNames
<1>3. /\ txn[t].evs = {} /\ txn[t].out = << >> /\ r.project \in used
      /\ \A j \in Task : txn[t].puts[j] = None
  BY <1>2 DEF ReadsTold, ShapeOK
<1>4. ToSet(r.deps) \subseteq Task
  BY <1>2, RequestFields, ToSetType
<1>5. CASE ValidDependencies(t, k, r.project, ToSet(r.deps)) /\ Go(t, x)
  <2>1. /\ SameEvents(x, txn[t]) /\ x.puts = txn[t].puts
        /\ x.project = r.project /\ x.pc = "insertTask" /\ x.req = r
    BY <1>2 DEF SameEvents, TxnState
  <2> HIDE DEF x, k
  <2>2. \A d \in ToSet(r.deps) : Told(r.project, d)
    BY <1>3, <1>4, <1>5, ValidTold
  <2>3. ReadsTold(x)
    BY <1>2, <1>3, <2>1, <2>2 DEF ReadsTold, SameEvents
  <2> QED
    BY <1>2, <1>3, <1>5, <2>1, <2>3, QuietNames
<1> QED
  BY <1>1, <1>5, RollbackNames

LEMMA CreateTaskInsertNames ==
  ASSUME Inv, NamesInvariant, NEW t \in Txn, CreateTaskInsert(t)
  PROVE  NamesInvariant'
<1> DEFINE r == txn[t].req
           k == txn[t].fresh[1]
           row == [project |-> r.project, title |-> r.title,
                   status |-> r.status]
           edges == [i \in DOMAIN r.deps |-> <<k, r.deps[i]>>]
           b == [type |-> "task.created", task |-> k, row |-> row,
                 deps |-> ToSet(r.deps)]
           puts == [txn[t].puts EXCEPT ![k] = row]
           x == [Locked(t) EXCEPT !.puts = [@ EXCEPT ![k] = row],
                                  !.pending = edges, !.out = <<b>>]
           y == Continue(x)
<1>1. /\ At(t, {"CreateTask"}, "insertTask")
      /\ Rollback(t) \/ Go(t, y)
  BY DEF CreateTaskInsert
<1>2. At(t, {"CreateTask"}, "insertTask")
  <2> HIDE DEF y
  <2> QED
    BY <1>1
<1>3. /\ txn[t] \in TxnState /\ txn[t].pc = "insertTask"
      /\ r \in Request /\ r.kind = "CreateTask"
      /\ BlockOK(txn[t]) /\ ReadsTold(txn[t])
      /\ RequestOK(txn[t]) /\ ShapeOK(txn[t])
  BY <1>2, AtNames
<1>4. /\ txn[t].evs = {}
      /\ \A d \in ToSet(r.deps) : Told(txn[t].project, d)
      /\ \A j \in Task : txn[t].puts[j] = None
  BY <1>3 DEF ReadsTold, ShapeOK
<1>5. k \in Task /\ k \in ToSet(txn[t].fresh)
  <2>1. txn[t].fresh \in Seq(Task)
    BY <1>3 DEF TxnState
  <2>2. Len(txn[t].fresh) = 1
    BY <1>3 DEF RequestOK
  <2> QED
    BY <2>1, <2>2 DEF ToSet
<1>6. /\ b.type = "task.created" /\ b.task = k /\ b.deps = ToSet(r.deps)
      /\ \A j \in Task : j # k => puts[j] = txn[t].puts[j]
  BY <1>3, <1>5 DEF TxnState
<1> HIDE DEF row, edges, b
<1>7. Locked(t) = [txn[t] EXCEPT !.locks = txn[t].locks \cup Needs(t)]
  BY <1>3, LockedFields
<1>8. /\ y.req = r /\ y.fresh = txn[t].fresh /\ y.evs = txn[t].evs
      /\ y.out = <<b>> /\ y.puts = puts /\ y.project = txn[t].project
      /\ y.read = txn[t].read /\ AtEnd(y)
  BY <1>3, <1>7 DEF TxnState, Continue, AtEnd
<1> HIDE DEF y, puts, k
<1>9. CASE Go(t, y)
  <2>1. DOMAIN y.out = {1} /\ y.out[1] = b /\ ToSet(y.out) = {b}
    BY <1>8 DEF ToSet
  <2>2. \A d : (Makes(y, d) <=> d = k) /\ ~ Recorded(y, d)
    BY <1>4, <1>6, <1>8, <2>1 DEF Makes, Recorded, Creates
  <2>3. BlockOK(y)
    BY <1>3, <1>4, <1>5, <1>6, <1>8, <2>1, <2>2 DEF BlockOK
  <2>4. ReadsTold(y)
    BY <1>3, <1>4, <1>6, <1>8, <2>2, EndTold
  <2> QED
    BY <1>9, <2>3, <2>4, GoNames DEF InOrder
<1> QED
  BY <1>1, <1>9, RollbackNames

-----------------------------------------------------------------------------
(* UpdateTask *)

LEMMA UpdateTaskLockNames ==
  ASSUME Inv, RowsInvariant, NamesInvariant, NEW t \in Txn, UpdateTaskLock(t)
  PROVE  NamesInvariant'
<1> DEFINE r == txn[t].req
           row == tasks[r.task]
           pc == CASE r.deps # None -> "validate"
                   [] r.deps = None /\ r.status = "done" -> "complete"
                   [] OTHER -> "write"
           x == [Locked(t) EXCEPT !.current = row, !.project = row.project,
                                  !.read = DirectDeps(r.task), !.pc = pc]
<1>1. /\ At(t, {"UpdateTask"}, "lock")
      /\ Rollback(t) \/ (row # None /\ Go(t, x))
  BY DEF UpdateTaskLock
<1>2. /\ txn[t] \in TxnState /\ txn[t].pc = "lock"
      /\ r \in Request /\ r.kind = "UpdateTask"
      /\ ReadsTold(txn[t]) /\ ShapeOK(txn[t])
  BY <1>1, AtNames
<1>3. /\ txn[t].evs = {} /\ txn[t].out = << >>
      /\ \A j \in Task : txn[t].puts[j] = None
  BY <1>2 DEF ReadsTold, ShapeOK
<1>4. pc \in {"validate", "complete", "write"} /\ (r.deps # None => pc = "validate")
  OBVIOUS
<1>5. Locked(t) = [txn[t] EXCEPT !.locks = txn[t].locks \cup Needs(t)]
  BY <1>2, LockedFields
<1>6. r.task \in Task
  BY <1>2, RequestFields
<1> HIDE DEF pc, row
<1>7. /\ SameEvents(x, txn[t]) /\ x.puts = txn[t].puts /\ x.req = r /\ x.pc = pc
      /\ x.project = row.project
  BY <1>2, <1>5 DEF SameEvents, TxnState
<1> HIDE DEF x
<1>8. CASE row # None /\ Go(t, x)
  <2>1. Told(row.project, r.task) /\ row.project \in used
    BY <1>6, <1>8, NeighboursTold DEF row
  <2>2. ReadsTold(x)
    BY <1>2, <1>3, <1>4, <1>7, <2>1 DEF ReadsTold, SameEvents
  <2> QED
    BY <1>2, <1>3, <1>7, <1>8, <2>2, QuietNames
<1> QED
  BY <1>1, <1>8, RollbackNames

LEMMA UpdateTaskValidateNames ==
  ASSUME Inv, NamesInvariant, NEW t \in Txn, UpdateTaskValidate(t)
  PROVE  NamesInvariant'
<1> DEFINE r == txn[t].req
           ds == ToSet(r.deps)
           pc == IF r.status = "done" THEN "complete" ELSE "write"
           x == [txn[t] EXCEPT !.read = ds, !.pc = pc]
<1>1. /\ At(t, {"UpdateTask"}, "validate")
      /\ \/ Rollback(t)
         \/ ValidDependencies(t, r.task, txn[t].project, ds) /\ Go(t, x)
  BY DEF UpdateTaskValidate
<1>2. /\ txn[t] \in TxnState /\ txn[t].pc = "validate"
      /\ r \in Request /\ r.kind = "UpdateTask" /\ r.deps # None
      /\ ReadsTold(txn[t])
  BY <1>1, AtNames DEF RequestOK
<1>3. ds \subseteq Task
  BY <1>2, RequestFields, ToSetType
<1>4. pc \in {"complete", "write"}
  OBVIOUS
<1> HIDE DEF pc
<1>5. /\ SameEvents(x, txn[t]) /\ x.puts = txn[t].puts /\ x.req = r /\ x.pc = pc
      /\ x.project = txn[t].project
  BY <1>2 DEF SameEvents, TxnState
<1> HIDE DEF x
<1>6. CASE ValidDependencies(t, r.task, txn[t].project, ds) /\ Go(t, x)
  <2>1. \A j \in Task : txn[t].puts[j] = None
    BY <1>2 DEF ReadsTold
  <2>2. \A d \in ds : Told(txn[t].project, d)
    <3> HIDE DEF ds
    <3> QED
      BY <1>3, <1>6, <2>1, ValidTold
  <2>3. ReadsTold(x)
    BY <1>2, <1>4, <1>5, <2>1, <2>2 DEF ReadsTold, SameEvents
  <2> QED
    BY <1>2, <1>5, <1>6, <2>3, QuietNames
<1> QED
  BY <1>1, <1>6, RollbackNames

LEMMA UpdateTaskCompleteNames ==
  ASSUME Inv, NamesInvariant, NEW t \in Txn, UpdateTaskComplete(t)
  PROVE  NamesInvariant'
<1> DEFINE x == [txn[t] EXCEPT !.pc = "write"]
<1>1. /\ At(t, {"UpdateTask"}, "complete")
      /\ Rollback(t) \/ Go(t, x)
  BY DEF UpdateTaskComplete
<1>2. /\ txn[t] \in TxnState /\ txn[t].pc = "complete"
      /\ txn[t].req.kind = "UpdateTask" /\ ReadsTold(txn[t])
  BY <1>1, AtNames
<1>3. /\ SameEvents(x, txn[t]) /\ x.puts = txn[t].puts /\ x.req = txn[t].req
      /\ x.pc = "write" /\ x.project = txn[t].project
  BY <1>2 DEF SameEvents, TxnState
<1> HIDE DEF x
<1>4. ReadsTold(x)
  BY <1>2, <1>3 DEF ReadsTold, SameEvents
<1> QED
  BY <1>1, <1>2, <1>3, <1>4, QuietNames, RollbackNames

LEMMA UpdateTaskWriteNames ==
  ASSUME Inv, NamesInvariant, NEW t \in Txn, UpdateTaskWrite(t)
  PROVE  NamesInvariant'
<1> DEFINE r == txn[t].req
           row == PatchedRow(r, txn[t].current)
           b == [type |-> "task.updated", task |-> r.task,
                 title |-> r.title, status |-> r.status]
           c == [type |-> "task.dependencies_changed", task |-> r.task,
                 dependsOn |-> ToSet(r.deps)]
           updated == IF r.title = None /\ r.status = None THEN << >> ELSE <<b>>
           both == Append(updated, c)
           old == {e \in deps : e[1] = r.task}
           edges == [i \in DOMAIN r.deps |-> <<r.task, r.deps[i]>>]
           puts == [txn[t].puts EXCEPT ![r.task] = row]
           write == [Locked(t) EXCEPT !.puts = [@ EXCEPT ![r.task] = row]]
           x == Continue([write EXCEPT !.out = updated])
           y == Continue([write EXCEPT !.del = old, !.pending = edges, !.out = both])
<1>1. /\ At(t, {"UpdateTask"}, "write")
      /\ \/ r.deps = None /\ Go(t, x)
         \/ r.deps # None /\ Go(t, y)
  BY DEF UpdateTaskWrite
<1>2. At(t, {"UpdateTask"}, "write")
  <2> HIDE DEF x, y
  <2> QED
    BY <1>1
<1>3. /\ txn[t] \in TxnState /\ txn[t].pc = "write"
      /\ r \in Request /\ r.kind = "UpdateTask"
      /\ BlockOK(txn[t]) /\ ReadsTold(txn[t]) /\ ShapeOK(txn[t])
  BY <1>2, AtNames
<1>4. /\ txn[t].evs = {} /\ Told(txn[t].project, r.task)
      /\ r.deps # None => \A d \in ToSet(r.deps) : Told(txn[t].project, d)
      /\ \A j \in Task : txn[t].puts[j] = None
  BY <1>3 DEF ReadsTold, ShapeOK
<1>5. /\ b.type = "task.updated" /\ TasksNamed(b) = {r.task}
      /\ c.type = "task.dependencies_changed"
      /\ TasksNamed(c) = {r.task} \cup ToSet(r.deps)
  BY DEF TasksNamed
<1>6. \A j \in Task : j # r.task => puts[j] = txn[t].puts[j]
  BY <1>3 DEF TxnState
<1> HIDE DEF row, b, c, old, edges
<1>7. /\ \A i \in DOMAIN updated : updated[i] = b
      /\ \A i \in DOMAIN both : both[i] \in {b, c}
  OBVIOUS
<1> HIDE DEF updated, both
<1>8. Locked(t) = [txn[t] EXCEPT !.locks = txn[t].locks \cup Needs(t)]
  BY <1>3, LockedFields
<1>9. /\ x.req = r /\ x.fresh = txn[t].fresh /\ x.evs = txn[t].evs
      /\ x.out = updated /\ x.puts = puts /\ x.project = txn[t].project
      /\ x.read = txn[t].read /\ AtEnd(x)
  BY <1>3, <1>8 DEF TxnState, Continue, AtEnd
<1>10. /\ y.req = r /\ y.fresh = txn[t].fresh /\ y.evs = txn[t].evs
       /\ y.out = both /\ y.puts = puts /\ y.project = txn[t].project
       /\ y.read = txn[t].read /\ AtEnd(y)
  BY <1>3, <1>8 DEF TxnState, Continue, AtEnd
<1> HIDE DEF x, y, puts
<1>11. ASSUME NEW z, z.req = r, z.fresh = txn[t].fresh, z.evs = txn[t].evs,
              z.puts = puts, z.project = txn[t].project, z.read = txn[t].read,
              AtEnd(z),
              \A i \in DOMAIN z.out :
                z.out[i] = b \/ (r.deps # None /\ z.out[i] = c)
       PROVE  InOrder(z)
  <2>1. ASSUME NEW i \in DOMAIN z.out
        PROVE  /\ z.out[i].type # "task.created"
               /\ \A d \in TasksNamed(z.out[i]) : Told(z.project, d)
    BY <1>4, <1>5, <1>11
  <2>2. BlockOK(z)
    BY <1>3, <1>4, <1>11, <2>1, ToldEvents
  <2>3. \A k \in Task : z.puts[k] # None => Told(z.project, k)
    BY <1>4, <1>6, <1>11
  <2>4. ReadsTold(z)
    BY <1>3, <1>11, <2>3, EndTold
  <2> QED
    BY <2>2, <2>4 DEF InOrder
<1>12. CASE r.deps = None /\ Go(t, x)
  <2>1. InOrder(x)
    BY <1>7, <1>9, <1>11
  <2> QED
    BY <1>12, <2>1, GoNames
<1>13. CASE r.deps # None /\ Go(t, y)
  <2>1. InOrder(y)
    BY <1>7, <1>10, <1>11, <1>13
  <2> QED
    BY <1>13, <2>1, GoNames
<1> QED
  BY <1>1, <1>12, <1>13

-----------------------------------------------------------------------------
(* DeleteTask *)

LEMMA DeleteTaskLockNames ==
  ASSUME Inv, RowsInvariant, NamesInvariant, NEW t \in Txn, DeleteTaskLock(t)
  PROVE  NamesInvariant'
<1> DEFINE k == txn[t].req.task
           x == [Locked(t) EXCEPT !.project = tasks[k].project,
                                  !.read = Dependents(k), !.pc = "cascade"]
<1>1. /\ At(t, {"DeleteTask"}, "lock")
      /\ Rollback(t) \/ (tasks[k] # None /\ Go(t, x))
  BY DEF DeleteTaskLock
<1>2. /\ txn[t] \in TxnState /\ txn[t].pc = "lock"
      /\ txn[t].req \in Request /\ txn[t].req.kind = "DeleteTask"
      /\ ReadsTold(txn[t]) /\ ShapeOK(txn[t])
  BY <1>1, AtNames
<1>3. /\ txn[t].evs = {} /\ txn[t].out = << >>
      /\ \A j \in Task : txn[t].puts[j] = None
  BY <1>2 DEF ReadsTold, ShapeOK
<1>4. k \in Task
  BY <1>2, RequestFields
<1>5. Locked(t) = [txn[t] EXCEPT !.locks = txn[t].locks \cup Needs(t)]
  BY <1>2, LockedFields
<1>6. /\ SameEvents(x, txn[t]) /\ x.puts = txn[t].puts /\ x.req = txn[t].req
      /\ x.pc = "cascade" /\ x.project = tasks[k].project /\ x.read = Dependents(k)
  BY <1>2, <1>5 DEF SameEvents, TxnState
<1> HIDE DEF x
<1>7. CASE tasks[k] # None /\ Go(t, x)
  <2>1. /\ Told(tasks[k].project, k) /\ tasks[k].project \in used
        /\ \A d \in Dependents(k) : Told(tasks[k].project, d)
    BY <1>4, <1>7, NeighboursTold
  <2>2. ReadsTold(x)
    BY <1>2, <1>3, <1>6, <2>1 DEF ReadsTold, SameEvents
  <2> QED
    BY <1>2, <1>3, <1>6, <1>7, <2>2, QuietNames
<1> QED
  BY <1>1, <1>7, RollbackNames

LEMMA DeleteTaskCascadeNames ==
  ASSUME Inv, NamesInvariant, NEW t \in Txn, DeleteTaskCascade(t)
  PROVE  NamesInvariant'
<1> DEFINE k == txn[t].req.task
           b == [type |-> "task.deleted", task |-> k,
                 removedFromDependenciesOf |-> txn[t].read]
           y == Continue([Locked(t) EXCEPT !.del = TaskCascade(k), !.out = <<b>>])
<1>1. At(t, {"DeleteTask"}, "cascade") /\ Go(t, y)
  BY DEF DeleteTaskCascade
<1>2. /\ txn[t] \in TxnState /\ txn[t].pc = "cascade"
      /\ txn[t].req.kind = "DeleteTask"
      /\ BlockOK(txn[t]) /\ ReadsTold(txn[t]) /\ ShapeOK(txn[t])
  BY <1>1, AtNames
<1>3. /\ txn[t].evs = {} /\ \A j \in Task : txn[t].puts[j] = None
      /\ \A d \in {k} \cup txn[t].read : Told(txn[t].project, d)
  BY <1>2 DEF ReadsTold, ShapeOK
<1>4. b.type = "task.deleted" /\ TasksNamed(b) = {k} \cup txn[t].read
  BY DEF TasksNamed
<1>5. Locked(t) = [txn[t] EXCEPT !.locks = txn[t].locks \cup Needs(t)]
  BY <1>2, LockedFields
<1> HIDE DEF b
<1>6. /\ y.req = txn[t].req /\ y.fresh = txn[t].fresh /\ y.evs = txn[t].evs
      /\ y.out = <<b>> /\ y.puts = txn[t].puts /\ y.project = txn[t].project
      /\ y.read = txn[t].read /\ AtEnd(y)
  BY <1>2, <1>5 DEF TxnState, Continue, AtEnd
<1> HIDE DEF y
<1>7. BlockOK(y)
  <2>1. \A i \in DOMAIN y.out : y.out[i] = b
    BY <1>6
  <2> QED
    BY <1>2, <1>3, <1>4, <1>6, <2>1, ToldEvents
<1>8. ReadsTold(y)
  BY <1>2, <1>3, <1>6, EndTold
<1> QED
  BY <1>1, <1>7, <1>8, GoNames DEF InOrder

-----------------------------------------------------------------------------
(* Comments *)

LEMMA CreateCommentNames ==
  ASSUME Inv, RowsInvariant, NamesInvariant, NEW t \in Txn,
         CreateCommentResolve(t) \/ CreateCommentInsert(t)
  PROVE  NamesInvariant'
<1> DEFINE k == txn[t].req.task
           b == [type |-> "comment.added", comment |-> txn[t].comment, task |-> k]
           x == [txn[t] EXCEPT !.project = tasks[k].project, !.pc = "insertComment"]
           y == Continue([Locked(t) EXCEPT !.out = <<b>>])
<1>1. CASE CreateCommentResolve(t)
  <2>1. /\ At(t, {"CreateComment"}, "resolve")
        /\ Rollback(t) \/ (tasks[k] # None /\ Go(t, x))
    BY <1>1 DEF CreateCommentResolve
  <2>2. /\ txn[t] \in TxnState /\ txn[t].pc = "resolve"
        /\ txn[t].req \in Request /\ txn[t].req.kind = "CreateComment"
        /\ ReadsTold(txn[t]) /\ ShapeOK(txn[t])
    BY <2>1, AtNames
  <2>3. /\ txn[t].evs = {} /\ txn[t].out = << >>
        /\ \A j \in Task : txn[t].puts[j] = None
    BY <2>2 DEF ReadsTold, ShapeOK
  <2>4. k \in Task
    BY <2>2, RequestFields
  <2>5. /\ SameEvents(x, txn[t]) /\ x.req = txn[t].req /\ x.puts = txn[t].puts
        /\ x.pc = "insertComment" /\ x.project = tasks[k].project
    BY <2>2 DEF SameEvents, TxnState
  <2> HIDE DEF x
  <2>6. CASE tasks[k] # None /\ Go(t, x)
    <3>1. Told(tasks[k].project, k) /\ tasks[k].project \in used
      BY <2>4, <2>6, NeighboursTold
    <3>2. ReadsTold(x)
      BY <2>2, <2>3, <2>5, <3>1 DEF ReadsTold, SameEvents
    <3> QED
      BY <2>2, <2>3, <2>5, <2>6, <3>2, QuietNames
  <2> QED
    BY <2>1, <2>6, RollbackNames
<1>2. CASE CreateCommentInsert(t)
  <2>1. /\ At(t, {"CreateComment"}, "insertComment")
        /\ Rollback(t) \/ Go(t, y)
    BY <1>2 DEF CreateCommentInsert
  <2>2. /\ txn[t] \in TxnState /\ txn[t].pc = "insertComment"
        /\ txn[t].req.kind = "CreateComment"
        /\ BlockOK(txn[t]) /\ ReadsTold(txn[t]) /\ ShapeOK(txn[t])
    BY <2>1, AtNames
  <2>3. /\ txn[t].evs = {} /\ \A j \in Task : txn[t].puts[j] = None
        /\ Told(txn[t].project, k)
    BY <2>2 DEF ReadsTold, ShapeOK
  <2>4. b.type = "comment.added" /\ TasksNamed(b) = {k}
    BY DEF TasksNamed
  <2>5. Locked(t) = [txn[t] EXCEPT !.locks = txn[t].locks \cup Needs(t)]
    BY <2>2, LockedFields
  <2> HIDE DEF b
  <2>6. /\ y.req = txn[t].req /\ y.fresh = txn[t].fresh /\ y.evs = txn[t].evs
        /\ y.out = <<b>> /\ y.puts = txn[t].puts /\ y.project = txn[t].project
        /\ y.read = txn[t].read /\ AtEnd(y)
    BY <2>2, <2>5 DEF TxnState, Continue, AtEnd
  <2> HIDE DEF y
  <2>7. BlockOK(y)
    <3>1. \A i \in DOMAIN y.out : y.out[i] = b
      BY <2>6
    <3> QED
      BY <2>2, <2>3, <2>4, <2>6, <3>1, ToldEvents
  <2>8. ReadsTold(y)
    BY <2>2, <2>3, <2>6, EndTold
  <2> QED
    BY <2>1, <2>7, <2>8, GoNames, RollbackNames DEF InOrder
<1> QED
  BY <1>1, <1>2

LEMMA DeleteCommentNames ==
  ASSUME Inv, RowsInvariant, NamesInvariant, NEW t \in Txn,
         DeleteCommentResolve(t) \/ DeleteCommentRow(t)
  PROVE  NamesInvariant'
<1> DEFINE c == txn[t].req.comment
           k == comments[c]
           b == [type |-> "comment.deleted", comment |-> c, task |-> k]
           x == [txn[t] EXCEPT !.project = tasks[k].project, !.out = <<b>>,
                               !.pc = "deleteComment"]
           y == Continue([Locked(t) EXCEPT !.del = {c}])
<1>1. CASE DeleteCommentResolve(t)
  <2>1. /\ At(t, {"DeleteComment"}, "resolve")
        /\ Rollback(t) \/ (k # None /\ tasks[k] # None /\ Go(t, x))
    BY <1>1 DEF DeleteCommentResolve
  <2>2. /\ txn[t] \in TxnState /\ txn[t].pc = "resolve"
        /\ txn[t].req \in Request /\ txn[t].req.kind = "DeleteComment"
        /\ BlockOK(txn[t]) /\ ReadsTold(txn[t]) /\ ShapeOK(txn[t])
    BY <2>1, AtNames
  <2>3. txn[t].evs = {} /\ \A j \in Task : txn[t].puts[j] = None
    BY <2>2 DEF ReadsTold, ShapeOK
  <2>4. k # None => k \in Task
    BY <2>2, RequestFields DEF Inv, TypeOK
  <2>5. b.type = "comment.deleted" /\ TasksNamed(b) = {k}
    BY DEF TasksNamed
  <2> HIDE DEF b
  <2>6. /\ x.fresh = txn[t].fresh /\ x.evs = txn[t].evs /\ x.out = <<b>>
        /\ x.req = txn[t].req /\ x.puts = txn[t].puts
        /\ x.pc = "deleteComment" /\ x.project = tasks[k].project
    BY <2>2 DEF TxnState
  <2> HIDE DEF x
  <2>7. CASE k # None /\ tasks[k] # None /\ Go(t, x)
    <3>1. Told(tasks[k].project, k) /\ tasks[k].project \in used
      BY <2>4, <2>7, NeighboursTold
    <3>2. BlockOK(x)
      <4>1. \A i \in DOMAIN x.out : x.out[i] = b
        BY <2>6
      <4> QED
        BY <2>2, <2>3, <2>5, <2>6, <3>1, <4>1, ToldEvents
    <3>3. ReadsTold(x)
      BY <2>2, <2>3, <2>6, <3>1 DEF ReadsTold
    <3> QED
      BY <2>7, <3>2, <3>3, GoNames DEF InOrder
  <2> QED
    BY <2>1, <2>7, RollbackNames
<1>2. CASE DeleteCommentRow(t)
  <2>1. At(t, {"DeleteComment"}, "deleteComment") /\ Go(t, y)
    BY <1>2 DEF DeleteCommentRow
  <2>2. /\ txn[t] \in TxnState /\ txn[t].pc = "deleteComment"
        /\ txn[t].req.kind = "DeleteComment" /\ ReadsTold(txn[t])
    BY <2>1, AtNames
  <2>3. \A j \in Task : txn[t].puts[j] = None
    BY <2>2 DEF ReadsTold
  <2>4. Locked(t) = [txn[t] EXCEPT !.locks = txn[t].locks \cup Needs(t)]
    BY <2>2, LockedFields
  <2>5. /\ y.req = txn[t].req /\ SameEvents(y, txn[t])
        /\ y.puts = txn[t].puts /\ y.project = txn[t].project
        /\ y.read = txn[t].read /\ AtEnd(y)
    BY <2>2, <2>4 DEF SameEvents, TxnState, Continue, AtEnd
  <2> HIDE DEF y
  <2>6. ReadsTold(y)
    BY <2>2, <2>3, <2>5, EndTold
  <2> QED
    BY <2>1, <2>2, <2>5, <2>6, QuietNames
<1> QED
  BY <1>1, <1>2

-----------------------------------------------------------------------------
(* UpdateProject, DeleteProject *)

LEMMA UpdateProjectLockNames ==
  ASSUME Inv, NamesInvariant, NEW t \in Txn, UpdateProjectLock(t)
  PROVE  NamesInvariant'
<1> DEFINE r == txn[t].req
           b == [type |-> "project.updated", name |-> r.name]
           out == IF r.name = None THEN << >> ELSE <<b>>
           y == Continue([Locked(t) EXCEPT !.project = r.project, !.out = out])
<1>1. /\ At(t, {"UpdateProject"}, "lockProject")
      /\ Rollback(t) \/ (projects[r.project] # None /\ Go(t, y))
  BY DEF UpdateProjectLock
<1>2. /\ txn[t] \in TxnState /\ txn[t].pc = "lockProject"
      /\ r \in Request /\ r.kind = "UpdateProject"
      /\ BlockOK(txn[t]) /\ ReadsTold(txn[t]) /\ ShapeOK(txn[t])
  BY <1>1, AtNames
<1>3. /\ txn[t].evs = {} /\ \A j \in Task : txn[t].puts[j] = None
  BY <1>2 DEF ReadsTold, ShapeOK
<1>4. r.project \in Project
  BY <1>2, RequestFields
<1>5. b.type = "project.updated" /\ TasksNamed(b) = {}
  BY DEF TasksNamed
<1> HIDE DEF b
<1>6. \A i \in DOMAIN out : out[i] = b
  OBVIOUS
<1>7. Locked(t) = [txn[t] EXCEPT !.locks = txn[t].locks \cup Needs(t)]
  BY <1>2, LockedFields
<1> HIDE DEF out
<1>8. /\ y.req = r /\ y.fresh = txn[t].fresh /\ y.evs = txn[t].evs
      /\ y.out = out /\ y.puts = txn[t].puts /\ y.project = r.project
      /\ AtEnd(y)
  BY <1>2, <1>7 DEF TxnState, Continue, AtEnd
<1> HIDE DEF y
<1>9. BlockOK(y)
  BY <1>2, <1>3, <1>5, <1>6, <1>8, ToldEvents
<1>10. CASE projects[r.project] # None /\ Go(t, y)
  <2>1. r.project \in used
    BY <1>4, <1>10 DEF Inv, LogInvariant
  <2>2. ReadsTold(y)
    BY <1>2, <1>3, <1>8, <2>1 DEF ReadsTold, AtEnd
  <2> QED
    BY <1>9, <1>10, <2>2, GoNames DEF InOrder
<1> QED
  BY <1>1, <1>10, RollbackNames

LEMMA DeleteProjectNames ==
  ASSUME Inv, NamesInvariant, NEW t \in Txn,
         DeleteProjectLock(t) \/ DeleteProjectCascade(t)
  PROVE  NamesInvariant'
<1> DEFINE p == txn[t].req.project
           x == [Locked(t) EXCEPT !.pc = "cascade"]
           y == Continue([Locked(t) EXCEPT !.del = {p} \cup ProjectCascade(p)])
<1>1. CASE DeleteProjectLock(t)
  <2>1. /\ At(t, {"DeleteProject"}, "lockProject")
        /\ Rollback(t) \/ Go(t, x)
    BY <1>1 DEF DeleteProjectLock
  <2>2. /\ txn[t] \in TxnState /\ txn[t].pc = "lockProject"
        /\ txn[t].req.kind = "DeleteProject" /\ ReadsTold(txn[t])
    BY <2>1, AtNames
  <2>3. Locked(t) = [txn[t] EXCEPT !.locks = txn[t].locks \cup Needs(t)]
    BY <2>2, LockedFields
  <2>4. /\ x.req = txn[t].req /\ SameEvents(x, txn[t]) /\ x.puts = txn[t].puts
        /\ x.project = txn[t].project /\ x.pc = "cascade"
    BY <2>2, <2>3 DEF SameEvents, TxnState
  <2> HIDE DEF x
  <2>5. ReadsTold(x)
    BY <2>2, <2>4 DEF ReadsTold, SameEvents
  <2> QED
    BY <2>1, <2>2, <2>4, <2>5, QuietNames, RollbackNames
<1>2. CASE DeleteProjectCascade(t)
  <2>1. At(t, {"DeleteProject"}, "cascade") /\ Go(t, y)
    BY <1>2 DEF DeleteProjectCascade
  <2>2. /\ txn[t] \in TxnState /\ txn[t].pc = "cascade"
        /\ txn[t].req.kind = "DeleteProject" /\ ReadsTold(txn[t])
    BY <2>1, AtNames
  <2>3. \A j \in Task : txn[t].puts[j] = None
    BY <2>2 DEF ReadsTold
  <2>4. Locked(t) = [txn[t] EXCEPT !.locks = txn[t].locks \cup Needs(t)]
    BY <2>2, LockedFields
  <2>5. /\ y.req = txn[t].req /\ SameEvents(y, txn[t])
        /\ y.puts = txn[t].puts /\ y.project = txn[t].project
        /\ y.read = txn[t].read /\ AtEnd(y)
    BY <2>2, <2>4 DEF SameEvents, TxnState, Continue, AtEnd
  <2> HIDE DEF y
  <2>6. ReadsTold(y)
    BY <2>2, <2>3, <2>5, EndTold
  <2> QED
    BY <2>1, <2>2, <2>5, <2>6, QuietNames
<1> QED
  BY <1>1, <1>2

-----------------------------------------------------------------------------
(* CreateTaskBatch *)

LEMMA BatchLockNames ==
  ASSUME Inv, RowsInvariant, NamesInvariant, NEW t \in Txn, BatchLock(t)
  PROVE  NamesInvariant'
<1> DEFINE k == txn[t].req.task
           x == [Locked(t) EXCEPT !.project = tasks[k].project,
                                  !.read = DirectDeps(k),
                                  !.pc = "insertTask"]
<1>1. /\ At(t, {"CreateTaskBatch"}, "lock")
      /\ Rollback(t) \/ (tasks[k] # None /\ Go(t, x))
  BY DEF BatchLock
<1>2. /\ txn[t] \in TxnState /\ txn[t].pc = "lock"
      /\ txn[t].req \in Request /\ txn[t].req.kind = "CreateTaskBatch"
      /\ ReadsTold(txn[t]) /\ ShapeOK(txn[t])
  BY <1>1, AtNames
<1>3. /\ txn[t].evs = {} /\ txn[t].out = << >>
      /\ \A j \in Task : txn[t].puts[j] # None => j \in ToSet(txn[t].fresh)
  BY <1>2 DEF ReadsTold, ShapeOK
<1>4. k \in Task
  BY <1>2, RequestFields
<1>5. Locked(t) = [txn[t] EXCEPT !.locks = txn[t].locks \cup Needs(t)]
  BY <1>2, LockedFields
<1>6. /\ SameEvents(x, txn[t]) /\ x.puts = txn[t].puts /\ x.req = txn[t].req
      /\ x.pc = "insertTask" /\ x.project = tasks[k].project
      /\ x.read = DirectDeps(k)
  BY <1>2, <1>5 DEF SameEvents, TxnState
<1> HIDE DEF x
<1>7. CASE tasks[k] # None /\ Go(t, x)
  <2>1. /\ Told(tasks[k].project, k) /\ tasks[k].project \in used
        /\ \A d \in DirectDeps(k) : Told(tasks[k].project, d)
    BY <1>4, <1>7, NeighboursTold
  <2>2. ReadsTold(x)
    BY <1>2, <1>3, <1>6, <2>1 DEF ReadsTold, SameEvents
  <2> QED
    BY <1>2, <1>3, <1>6, <1>7, <2>2, QuietNames
<1> QED
  BY <1>1, <1>7, RollbackNames

LEMMA BatchInsertNames ==
  ASSUME Inv, NamesInvariant, NEW t \in Txn, BatchInsert(t)
  PROVE  NamesInvariant'
<1> DEFINE ids == txn[t].fresh
           puts == [k \in Task |->
                      IF k \in ToSet(ids)
                      THEN BatchRow(txn[t], CHOOSE i \in DOMAIN ids : ids[i] = k)
                      ELSE txn[t].puts[k]]
           edges == UNION {{ids[i]} \X BatchDeps(txn[t], i) : i \in DOMAIN ids}
           x == [Locked(t) EXCEPT !.puts = puts, !.addDeps = edges,
                                  !.pc = "validate"]
<1>1. /\ At(t, {"CreateTaskBatch"}, "insertTask")
      /\ Go(t, [Locked(t) EXCEPT
           !.puts = [k \in Task |->
                       IF k \in ToSet(ids)
                       THEN BatchRow(txn[t], CHOOSE i \in DOMAIN ids : ids[i] = k)
                       ELSE @[k]],
           !.addDeps = edges, !.pc = "validate"])
  BY DEF BatchInsert
<1>2. /\ txn[t] \in TxnState /\ txn[t].pc = "insertTask"
      /\ txn[t].req.kind = "CreateTaskBatch" /\ ReadsTold(txn[t])
  BY <1>1, AtNames
<1>3. \A k \in Task : puts[k] # None => k \in ToSet(ids)
  <2>1. \A k \in Task : k \notin ToSet(ids) => puts[k] = txn[t].puts[k]
    OBVIOUS
  <2>2. \A k \in Task : txn[t].puts[k] # None => k \in ToSet(ids)
    BY <1>2 DEF ReadsTold
  <2> HIDE DEF puts
  <2> QED
    BY <2>1, <2>2
<1>4. Locked(t) = [txn[t] EXCEPT !.locks = txn[t].locks \cup Needs(t)]
  BY <1>2, LockedFields
<1>5. Go(t, x)
  <2>1. Locked(t).puts = txn[t].puts
    BY <1>2, <1>4 DEF TxnState
  <2> HIDE DEF edges, ids
  <2> QED
    BY <1>1, <2>1
<1> HIDE DEF puts, edges
<1>6. /\ SameEvents(x, txn[t]) /\ x.req = txn[t].req /\ x.puts = puts
      /\ x.project = txn[t].project /\ x.read = txn[t].read /\ x.pc = "validate"
  BY <1>2, <1>4 DEF SameEvents, TxnState
<1> HIDE DEF x
<1>7. ReadsTold(x)
  BY <1>2, <1>3, <1>6 DEF ReadsTold, SameEvents
<1> QED
  BY <1>2, <1>5, <1>6, <1>7, QuietNames

\* A block that creates each new task and then speaks of them and of told ones.
LEMMA CreatingBlock ==
  ASSUME NEW x, NEW y, BlockOK(x), y.fresh = x.fresh, y.evs = {},
         NEW n \in Nat, DOMAIN x.fresh = 1..n, DOMAIN y.out = 1..(n + 1),
         \A i \in 1..n : /\ y.out[i].type = "task.created"
                         /\ y.out[i].task = x.fresh[i]
                         /\ y.out[i].deps \subseteq ToSet(x.fresh),
         y.out[n + 1].type # "task.created",
         \A d \in TasksNamed(y.out[n + 1]) :
           Told(y.project, d) \/ d \in ToSet(x.fresh)
  PROVE  BlockOK(y) /\ \A d : d \in ToSet(x.fresh) => Makes(y, d)
<1>1. \A i \in DOMAIN y.out : i \in 1..n \/ i = n + 1
  OBVIOUS
<1>2. \A d : ~ Recorded(y, d)
  BY DEF Recorded
<1>3. \A d : \A i \in DOMAIN y.out : Creates(y.out[i], d) <=> (i \in 1..n /\ x.fresh[i] = d)
  BY <1>1 DEF Creates
<1>4. ASSUME NEW d, d \in ToSet(x.fresh)
      PROVE  \E j \in 1..n : j \in DOMAIN y.out /\ Creates(y.out[j], d)
  <2>1. PICK j \in 1..n : x.fresh[j] = d
    BY <1>4 DEF ToSet
  <2> QED
    BY <1>3, <2>1
<1>5. \A d : Makes(y, d) <=> d \in ToSet(x.fresh)
  <2>1. ASSUME NEW d, NEW i \in DOMAIN y.out, Creates(y.out[i], d)
        PROVE  d \in ToSet(x.fresh)
    <3>1. i \in 1..n /\ x.fresh[i] = d
      BY <1>3, <2>1
    <3> QED
      BY <3>1 DEF ToSet
  <2>2. \A d : Makes(y, d) <=> \E i \in DOMAIN y.out : Creates(y.out[i], d)
    BY <1>2 DEF Makes
  <2> QED
    BY <1>4, <2>1, <2>2
<1>6. \A i, j \in DOMAIN y.fresh : y.fresh[i] = y.fresh[j] => i = j
  BY DEF BlockOK
<1>7. \A d \in Task : \A i, j \in DOMAIN y.out :
        Creates(y.out[i], d) /\ Creates(y.out[j], d) => i = j
  <2> SUFFICES ASSUME NEW d \in Task, NEW i \in DOMAIN y.out, NEW j \in DOMAIN y.out,
                      Creates(y.out[i], d), Creates(y.out[j], d)
               PROVE  i = j
    OBVIOUS
  <2>1. i \in 1..n /\ x.fresh[i] = d
    BY <1>3
  <2>2. j \in 1..n /\ x.fresh[j] = d
    BY <1>3
  <2> QED
    BY <1>6, <2>1, <2>2
<1>8. \A b \in {e.body : e \in y.evs} \cup ToSet(y.out) :
        b.type = "task.created" => \A d \in b.deps : Makes(y, d)
  BY <1>1, <1>5 DEF ToSet
<1>9. ASSUME NEW i \in DOMAIN y.out, y.out[i].type # "task.created",
             NEW d \in TasksNamed(y.out[i])
      PROVE  \/ Told(y.project, d)
             \/ \E j \in DOMAIN y.out : j < i /\ Creates(y.out[j], d)
  <2>1. i = n + 1
    BY <1>1, <1>9
  <2>2. CASE d \in ToSet(x.fresh)
    BY <1>4, <2>1, <2>2
  <2> QED
    BY <1>9, <2>1, <2>2
<1> QED
  BY <1>2, <1>5, <1>6, <1>7, <1>8, <1>9 DEF BlockOK

LEMMA BatchValidateNames ==
  ASSUME Inv, NamesInvariant, NEW t \in Txn, BatchValidate(t)
  PROVE  NamesInvariant'
<1> DEFINE r == txn[t].req
           ids == txn[t].fresh
           n == Len(r.subs)
           last == SetToSeq(Terminals(r.subs))
           added == [i \in DOMAIN last |-> <<r.task, ids[last[i]]>>]
           list == txn[t].read \cup {ids[last[i]] : i \in DOMAIN last}
           created == [i \in DOMAIN ids |->
                         [type |-> "task.created", task |-> ids[i],
                          row |-> BatchRow(txn[t], i), deps |-> BatchDeps(txn[t], i)]]
           changed == [type |-> "task.dependencies_changed",
                       task |-> r.task, dependsOn |-> list]
           out == BatchEvents(created, changed)
           y == Continue([txn[t] EXCEPT !.pending = added, !.out = out])
<1>1. /\ At(t, {"CreateTaskBatch"}, "validate")
      /\ Rollback(t) \/ Go(t, y)
  BY DEF BatchValidate
<1>2. At(t, {"CreateTaskBatch"}, "validate")
  <2> HIDE DEF y
  <2> QED
    BY <1>1
<1>3. /\ txn[t] \in TxnState /\ txn[t].pc = "validate"
      /\ r \in Request /\ r.kind = "CreateTaskBatch" /\ RequestOK(txn[t])
      /\ BlockOK(txn[t]) /\ ReadsTold(txn[t]) /\ ShapeOK(txn[t])
  BY <1>2, AtNames
<1>4. /\ ids \in Seq(Task) /\ DOMAIN ids = 1..n /\ n \in Nat
      /\ \A i \in 1..n : r.subs[i].dependsOn \subseteq 1..n
  BY <1>3 DEF RequestOK, TxnState
<1>5. /\ txn[t].evs = {} /\ Told(txn[t].project, r.task)
      /\ \A d \in txn[t].read : Told(txn[t].project, d)
      /\ \A k \in Task : txn[t].puts[k] # None => k \in ToSet(ids)
  BY <1>3 DEF ReadsTold, ShapeOK
<1>6. \A i \in DOMAIN last : ids[last[i]] \in ToSet(ids)
  <2>1. Terminals(r.subs) \in SUBSET (1..n)
    BY DEF Terminals
  <2>2. IsFiniteSet(Terminals(r.subs))
    <3>1. IsFiniteSet(1..n)
      BY <1>4, FS_Interval
    <3> QED
      BY <2>1, <3>1, FS_Subset
  <2>3. last \in Seq(Terminals(r.subs))
    BY <2>2, SetToSeqType
  <2>4. \A i \in DOMAIN last : last[i] \in 1..n
    <3> HIDE DEF last
    <3> QED
      BY <2>1, <2>3
  <2> HIDE DEF last
  <2> QED
    BY <1>4, <2>4 DEF ToSet
<1>7. \A i \in 1..n : BatchDeps(txn[t], i) \subseteq ToSet(ids)
  BY <1>4 DEF BatchDeps, ToSet
<1>8. /\ changed.type = "task.dependencies_changed"
      /\ TasksNamed(changed) = {r.task} \cup list
  BY DEF TasksNamed
<1>9. \A d \in TasksNamed(changed) : Told(txn[t].project, d) \/ d \in ToSet(ids)
  <2>1. \A d \in {ids[last[i]] : i \in DOMAIN last} : d \in ToSet(ids)
    BY <1>6
  <2> HIDE DEF changed, last
  <2> QED
    BY <1>5, <1>8, <2>1
<1>10. /\ DOMAIN created = 1..n
       /\ \A i \in 1..n : /\ created[i].type = "task.created"
                          /\ created[i].task = ids[i]
                          /\ created[i].deps = BatchDeps(txn[t], i)
  BY <1>4
<1>11. created \in Seq({created[i] : i \in 1..n})
  <2>1. created = [i \in 1..n |-> created[i]]
    BY <1>4
  <2> HIDE DEF created
  <2>2. created \in [1..n -> {created[i] : i \in 1..n}]
    BY <2>1
  <2> QED
    BY <1>4, <2>2
<1> HIDE DEF last, added, list, changed, created
<1>12. /\ DOMAIN out = 1..(n + 1) /\ out[n + 1] = changed
       /\ \A i \in 1..n : out[i] = created[i]
  <2>1. Len(created) = n
    BY <1>4, <1>10, <1>11
  <2> QED
    BY <1>4, <1>11, <2>1 DEF BatchEvents
<1> HIDE DEF out
<1>13. /\ y.req = r /\ y.fresh = ids /\ y.evs = txn[t].evs
       /\ y.out = out /\ y.puts = txn[t].puts /\ y.project = txn[t].project
       /\ y.read = txn[t].read /\ AtEnd(y)
  BY <1>3 DEF TxnState, Continue, AtEnd
<1> HIDE DEF y
<1>14. BlockOK(y) /\ \A d : d \in ToSet(ids) => Makes(y, d)
  <2>1. \A i \in 1..n : /\ y.out[i].type = "task.created"
                        /\ y.out[i].task = txn[t].fresh[i]
                        /\ y.out[i].deps \subseteq ToSet(txn[t].fresh)
    BY <1>7, <1>10, <1>12, <1>13
  <2>2. y.out[n + 1] = changed
    BY <1>12, <1>13
  <2> HIDE DEF r, n
  <2> QED
    BY <1>3, <1>4, <1>5, <1>8, <1>9, <1>12, <1>13, <2>1, <2>2, CreatingBlock
<1>15. ReadsTold(y)
  BY <1>3, <1>5, <1>13, <1>14, EndTold
<1> QED
  BY <1>1, <1>14, <1>15, GoNames, RollbackNames DEF InOrder

-----------------------------------------------------------------------------
(* InsertDependency, RecordEvent *)

LEMMA InsertDependencyNames ==
  ASSUME Inv, NamesInvariant, NEW t \in Txn, InsertDependency(t)
  PROVE  NamesInvariant'
<1> DEFINE e == Head(txn[t].pending)
           add == txn[t].addDeps \cup {e}
           rest == Tail(txn[t].pending)
           y == Continue([Locked(t) EXCEPT !.addDeps = add, !.pending = rest])
<1>1. /\ At(t, Kinds, "insertDeps")
      /\ \/ Rollback(t)
         \/ Go(t, Continue([Locked(t) EXCEPT !.addDeps = @ \cup {e},
                                             !.pending = Tail(@)]))
  BY DEF InsertDependency
<1>2. /\ txn[t] \in TxnState /\ txn[t].pc = "insertDeps" /\ ReadsTold(txn[t])
  BY <1>1, AtNames
<1>3. Locked(t) = [txn[t] EXCEPT !.locks = txn[t].locks \cup Needs(t)]
  BY <1>2, LockedFields
<1>4. Rollback(t) \/ Go(t, y)
  <2>1. Locked(t).addDeps = txn[t].addDeps /\ Locked(t).pending = txn[t].pending
    BY <1>2, <1>3 DEF TxnState
  <2> QED
    BY <1>1, <2>1
<1> HIDE DEF e, add, rest
<1>5. /\ SameEvents(y, txn[t]) /\ y.req = txn[t].req /\ y.puts = txn[t].puts
      /\ y.project = txn[t].project /\ y.read = txn[t].read
      /\ AtEnd(y)
  BY <1>2, <1>3 DEF SameEvents, TxnState, Continue, AtEnd
<1> HIDE DEF y
<1>6. \A k : Makes(txn[t], k) => Makes(y, k)
  BY <1>5 DEF SameEvents, Makes, Recorded
<1>7. \A k \in Task : txn[t].puts[k] # None => Told(txn[t].project, k) \/ Makes(txn[t], k)
  BY <1>2 DEF ReadsTold
<1>8. ReadsTold(y)
  BY <1>2, <1>5, <1>6, <1>7, EndTold
<1> QED
  BY <1>2, <1>4, <1>5, <1>8, QuietNames, RollbackNames

\* Moving the head of the block to the recorded events leaves what it creates
\* and in which order.
LEMMA RecordedBlock ==
  ASSUME NEW x, NEW y, BlockOK(x), x.out \in Seq(Body), x.out # << >>,
         y.fresh = x.fresh, y.project = x.project, NEW e, e.body = Head(x.out),
         y.evs = x.evs \cup {e}, y.out = Tail(x.out),
         \A f \in x.evs : f.seq < e.seq
  PROVE  BlockOK(y) /\ \A d : Makes(x, d) <=> Makes(y, d)
<1>1. /\ 1 \in DOMAIN x.out /\ e.body = x.out[1]
      /\ \A i \in DOMAIN y.out : i + 1 \in DOMAIN x.out /\ y.out[i] = x.out[i + 1]
      /\ \A i \in DOMAIN x.out : i \in Nat /\ (i = 1 \/ i - 1 \in DOMAIN y.out)
      /\ \A i \in DOMAIN y.out : i \in Nat /\ i > 0
  OBVIOUS
<1>2. \A d : Recorded(y, d) <=> Recorded(x, d) \/ Creates(x.out[1], d)
  BY <1>1 DEF Recorded
<1>3. ASSUME NEW i \in DOMAIN x.out, i # 1
      PROVE  i - 1 \in DOMAIN y.out /\ y.out[i - 1] = x.out[i]
  <2>1. i \in Nat /\ i - 1 \in DOMAIN y.out
    BY <1>1, <1>3
  <2>2. y.out[i - 1] = x.out[(i - 1) + 1]
    BY <1>1, <2>1
  <2> QED
    BY <2>1, <2>2
<1>4. \A d : Makes(x, d) <=> Makes(y, d)
  BY <1>1, <1>2, <1>3 DEF Makes
<1>5. \A i, j \in DOMAIN y.fresh : y.fresh[i] = y.fresh[j] => i = j
  BY DEF BlockOK
<1>6. \A d \in Task : Makes(y, d) => d \in ToSet(y.fresh)
  BY <1>4 DEF BlockOK
<1>7. \A d \in Task : \A f, g \in y.evs :
        Creates(f.body, d) /\ Creates(g.body, d) => f = g
  <2>1. ASSUME NEW d \in Task, NEW f \in x.evs, Creates(f.body, d), Creates(e.body, d)
        PROVE  FALSE
    BY <1>1, <2>1 DEF BlockOK, Recorded
  <2>2. \A d \in Task : \A f, g \in x.evs :
          Creates(f.body, d) /\ Creates(g.body, d) => f = g
    BY DEF BlockOK
  <2> QED
    BY <2>1, <2>2
<1>8. ASSUME NEW d \in Task, NEW i \in DOMAIN y.out, NEW j \in DOMAIN y.out,
             Creates(y.out[i], d), Creates(y.out[j], d)
      PROVE  i = j /\ ~ Recorded(y, d)
  <2>1. /\ i + 1 \in DOMAIN x.out /\ Creates(x.out[i + 1], d)
        /\ j + 1 \in DOMAIN x.out /\ Creates(x.out[j + 1], d)
        /\ i \in Nat /\ j \in Nat /\ i > 0
    BY <1>1, <1>8
  <2>2. \A a, b \in DOMAIN x.out :
          Creates(x.out[a], d) /\ Creates(x.out[b], d) => a = b /\ ~ Recorded(x, d)
    BY DEF BlockOK
  <2>3. i + 1 = j + 1 /\ ~ Recorded(x, d)
    BY <2>1, <2>2
  <2>4. ~ Creates(x.out[1], d)
    <3>1. 1 \in DOMAIN x.out
      BY <1>1
    <3>2. Creates(x.out[1], d) => i + 1 = 1
      BY <2>1, <2>2, <3>1
    <3> QED
      BY <2>1, <3>2
  <2> QED
    BY <1>2, <2>1, <2>3, <2>4
<1>9. ASSUME NEW b \in {f.body : f \in y.evs} \cup ToSet(y.out),
             b.type = "task.created", NEW d \in b.deps
      PROVE  Told(y.project, d) \/ Makes(y, d)
  <2>1. b \in {f.body : f \in x.evs} \cup ToSet(x.out)
    BY <1>1 DEF ToSet
  <2> QED
    BY <1>4, <1>9, <2>1 DEF BlockOK
<1>10. ASSUME NEW f \in y.evs, f.body.type # "task.created", NEW d \in TasksNamed(f.body)
       PROVE  \/ Told(y.project, d)
              \/ \E g \in y.evs : g.seq < f.seq /\ Creates(g.body, d)
  <2>1. CASE f \in x.evs
    BY <1>10, <2>1 DEF BlockOK
  <2>2. CASE f = e
    <3>1. \/ Told(x.project, d) \/ Recorded(x, d)
          \/ \E j \in DOMAIN x.out : j < 1 /\ Creates(x.out[j], d)
      BY <1>1, <1>10, <2>2 DEF BlockOK
    <3>2. \A j \in DOMAIN x.out : ~ (j < 1)
      OBVIOUS
    <3> QED
      BY <2>2, <3>1, <3>2 DEF Recorded
  <2> QED
    BY <2>1, <2>2
<1>11. ASSUME NEW i \in DOMAIN y.out, y.out[i].type # "task.created",
              NEW d \in TasksNamed(y.out[i])
       PROVE  \/ Told(y.project, d) \/ Recorded(y, d)
              \/ \E j \in DOMAIN y.out : j < i /\ Creates(y.out[j], d)
  <2>1. i + 1 \in DOMAIN x.out /\ y.out[i] = x.out[i + 1] /\ i \in Nat
    BY <1>1
  <2>2. \/ Told(x.project, d) \/ Recorded(x, d)
        \/ \E j \in DOMAIN x.out : j < i + 1 /\ Creates(x.out[j], d)
    BY <1>11, <2>1 DEF BlockOK
  <2>3. ASSUME NEW j \in DOMAIN x.out, j < i + 1, Creates(x.out[j], d)
        PROVE  Recorded(y, d) \/ \E k \in DOMAIN y.out : k < i /\ Creates(y.out[k], d)
    <3>1. CASE j = 1
      BY <1>2, <2>3, <3>1
    <3>2. CASE j - 1 \in DOMAIN y.out /\ y.out[j - 1] = x.out[j]
      <4>1. j - 1 < i
        BY <1>1, <2>1, <2>3
      <4> QED
        BY <2>3, <3>2, <4>1
    <3> QED
      BY <1>3, <3>1, <3>2
  <2> QED
    BY <1>2, <2>2, <2>3
<1> QED
  BY <1>4, <1>5, <1>6, <1>7, <1>8, <1>9, <1>10, <1>11 DEF BlockOK

LEMMA RecordEventNames ==
  ASSUME Inv, NamesInvariant, NEW t \in Txn, RecordEvent(t)
  PROVE  NamesInvariant'
<1> DEFINE p == txn[t].project
           last == txn[t].lastSeq
           seq == 1 + IF last = 0 THEN projects[p].lastSeq ELSE last
           e == [project |-> p, seq |-> seq, body |-> Head(txn[t].out)]
           evs == txn[t].evs \cup {e}
           rest == Tail(txn[t].out)
           y == Continue([Locked(t) EXCEPT !.lastSeq = seq, !.evs = evs,
                                           !.out = rest])
<1>1. /\ At(t, Kinds, "record")
      /\ \/ Rollback(t)
         \/ Go(t, Continue([Locked(t) EXCEPT
              !.lastSeq = seq, !.evs = @ \cup {e}, !.out = Tail(@)]))
  BY DEF RecordEvent
<1>2. /\ txn[t] \in TxnState /\ txn[t].pc = "record"
      /\ BlockOK(txn[t]) /\ ReadsTold(txn[t]) /\ ShapeOK(txn[t])
  BY <1>1, AtNames
<1>3. /\ txn[t].out \in Seq(Body) /\ txn[t].out # << >>
      /\ last \in Nat /\ ClaimsOK(txn[t])
  BY <1>2 DEF ShapeOK, TxnState, Inv, LogInvariant
<1>4. e.body = Head(txn[t].out) /\ e.seq = seq
  OBVIOUS
<1>5. \A f \in txn[t].evs : f.seq < seq
  <2>1. CASE last = 0
    BY <1>3, <2>1 DEF ClaimsOK
  <2>2. CASE last > 0
    <3>1. seq = last + 1
      <4> HIDE DEF last
      <4> QED
        BY <1>3, <2>2
    <3> HIDE DEF seq
    <3>2. /\ projects[p].lastSeq \in Nat
          /\ \A f \in txn[t].evs : f.seq \in (projects[p].lastSeq + 1)..last
      <4>1. p \in Project /\ projects[p] # None
        BY <1>3, <2>2 DEF ClaimsOK
      <4>2. projects[p].lastSeq \in Nat
        BY <4>1 DEF Inv, TypeOK, ProjectRow
      <4> QED
        BY <1>3, <2>2, <4>2 DEF ClaimsOK
    <3> QED
      BY <1>3, <3>1, <3>2
  <2> QED
    BY <1>3, <2>1, <2>2
<1>6. Locked(t) = [txn[t] EXCEPT !.locks = txn[t].locks \cup Needs(t)]
  BY <1>2, LockedFields
<1>7. Rollback(t) \/ Go(t, y)
  <2>1. Locked(t).evs = txn[t].evs /\ Locked(t).out = txn[t].out
    BY <1>2, <1>6 DEF TxnState
  <2> HIDE DEF seq, e
  <2> QED
    BY <1>1, <2>1
<1> HIDE DEF seq, evs, rest
<1>8. /\ y.req = txn[t].req /\ y.fresh = txn[t].fresh /\ y.evs = evs
      /\ y.out = rest /\ y.puts = txn[t].puts /\ y.project = p
      /\ y.read = txn[t].read /\ AtEnd(y)
  BY <1>2, <1>6 DEF TxnState, Continue, AtEnd
<1> HIDE DEF y, e, last
<1>9. BlockOK(y) /\ \A d : Makes(txn[t], d) <=> Makes(y, d)
  <2>1. y.evs = txn[t].evs \cup {e} /\ y.out = Tail(txn[t].out)
    BY <1>8 DEF evs, rest
  <2>2. \A f \in txn[t].evs : f.seq < e.seq
    BY <1>4, <1>5
  <2> QED
    BY <1>2, <1>3, <1>4, <1>8, <2>1, <2>2, RecordedBlock
<1>10. \A k \in Task : txn[t].puts[k] # None => Told(txn[t].project, k) \/ Makes(txn[t], k)
  BY <1>2 DEF ReadsTold
<1>11. ReadsTold(y)
  BY <1>2, <1>8, <1>9, <1>10, EndTold
<1> QED
  BY <1>7, <1>9, <1>11, GoNames, RollbackNames DEF InOrder

-----------------------------------------------------------------------------
(* Commit *)

\* What t commits: the logs of the projects it does not delete, and its own
\* events, which follow the log of a project that it keeps.
LEMMA CommitFacts ==
  ASSUME Inv, NamesInvariant, NEW t \in Txn, Commit(t)
  PROVE  /\ BlockOK(txn[t]) /\ ReadsTold(txn[t])
         /\ txn[t].pc = "commit" /\ txn[t].evs \subseteq Event
         /\ \A d : Makes(txn[t], d) <=> Recorded(txn[t], d)
         /\ events' = {e \in events : e.project \notin txn[t].del} \cup txn[t].evs
         /\ \A p \in Project : projects'[p] # None =>
              projects[p] # None /\ p \notin txn[t].del
         /\ \A e \in txn[t].evs :
              /\ e.project = txn[t].project /\ e.project \in Project
              /\ projects[e.project] # None /\ e.project \notin txn[t].del
              /\ \A f \in events : f.project = e.project => f.seq < e.seq
<1>1. /\ txn[t] \in TxnState /\ txn[t].pc = "commit" /\ RequestOK(txn[t])
      /\ BlockOK(txn[t]) /\ ReadsTold(txn[t]) /\ ClaimsOK(txn[t])
  BY AtFacts, AtNames DEF Commit
<1>2. txn[t].evs \subseteq Event /\ txn[t].lastSeq \in Nat
  BY <1>1 DEF TxnState
<1>3. txn[t].out = << >>
  BY <1>1 DEF ReadsTold
<1>4. \A d : Makes(txn[t], d) <=> Recorded(txn[t], d)
  BY <1>3 DEF Makes
<1>5. events' = {e \in events : e.project \notin txn[t].del} \cup txn[t].evs
  BY DEF Commit
<1>6. ASSUME NEW p \in Project, projects'[p] # None
      PROVE  projects[p] # None /\ p \notin txn[t].del
  BY <1>6, CommitProjects
<1>7. ASSUME NEW e \in txn[t].evs
      PROVE  /\ e.project = txn[t].project /\ e.project \in Project
             /\ projects[e.project] # None /\ e.project \notin txn[t].del
             /\ \A f \in events : f.project = e.project => f.seq < e.seq
  <2>1. txn[t].lastSeq > 0
    BY <1>1, <1>2 DEF ClaimsOK
  <2>2. /\ txn[t].project \in Project /\ projects[txn[t].project] # None
        /\ e.project = txn[t].project
        /\ e.seq \in (projects[txn[t].project].lastSeq + 1)..txn[t].lastSeq
    BY <1>1, <2>1 DEF ClaimsOK
  <2>3. e.project \notin txn[t].del
    BY <1>1, <2>1, <2>2 DEF ClaimsOK, RequestOK
  <2>4. projects[e.project].lastSeq \in Nat
    BY <2>2 DEF Inv, TypeOK, ProjectRow
  <2>5. \A f \in events : f.project = e.project =>
          f.seq \in 1..projects[e.project].lastSeq
    BY <2>2 DEF Inv, LogInvariant, GaplessLog
  <2>6. \A f \in events : f.project = e.project => f.seq < e.seq
    BY <2>2, <2>4, <2>5
  <2> QED
    BY <2>2, <2>3, <2>6
<1> QED
  BY <1>1, <1>2, <1>4, <1>5, <1>6, <1>7

\* No log forgets what it created.
LEMMA CommitToldKept ==
  ASSUME Inv, NamesInvariant, NEW t \in Txn, Commit(t), NEW p, NEW d, Told(p, d)
  PROVE  Told(p, d)'
<1> SUFFICES ASSUME p \in Project, projects'[p] # None
             PROVE  \E e \in events' : e.project = p /\ Creates(e.body, d)
  BY DEF Told
<1>1. projects[p] # None /\ p \notin txn[t].del
  BY CommitFacts
<1>2. PICK e \in events : e.project = p /\ Creates(e.body, d)
  BY <1>1 DEF Told
<1> QED
  BY <1>1, <1>2, CommitFacts

\* NoForwardReference without the sets.
LEMMA NoForwardFacts ==
  ASSUME NoForwardReference
  PROVE  /\ \A d : \A e, f \in events :
              /\ e.project = f.project /\ f.seq < e.seq
              => ~ (Creates(e.body, d) /\ Creates(f.body, d))
         /\ \A e \in events : e.body.type = "task.created" =>
              \A d \in e.body.deps :
                \E f \in events : f.project = e.project /\ Creates(f.body, d)
         /\ \A e \in events : e.body.type # "task.created" =>
              \A d \in TasksNamed(e.body) :
                \E f \in events : f.project = e.project /\ f.seq < e.seq
                                  /\ Creates(f.body, d)
BY DEF NoForwardReference, Creates

\* What t's events speak of, the log or t itself created first.
LEMMA CommitNoForward ==
  ASSUME Inv, RowsInvariant, NamesInvariant, NEW t \in Txn, Commit(t)
  PROVE  NoForwardReference'
<1> DEFINE p == txn[t].project
           evs == txn[t].evs
<1>1. /\ BlockOK(txn[t]) /\ evs \subseteq Event
      /\ \A d : Makes(txn[t], d) <=> Recorded(txn[t], d)
      /\ events' = {e \in events : e.project \notin txn[t].del} \cup evs
  BY CommitFacts
<1>2. ASSUME NEW e \in evs
      PROVE  /\ e.project = p /\ p \in Project
             /\ projects[p] # None /\ p \notin txn[t].del
             /\ \A f \in events : f.project = p => f.seq < e.seq
  BY CommitFacts
<1>3. events \subseteq Event
  BY DEF Inv, TypeOK
<1>4. \A e, f \in events' : e.seq \in Nat /\ f.seq \in Nat
  BY <1>1, <1>3 DEF Event
<1>5. ASSUME NEW e \in events', NEW f \in events', e.project = f.project,
             f.seq < e.seq, NEW d, Creates(e.body, d), Creates(f.body, d)
      PROVE  FALSE
  <2>1. CASE e \in events /\ f \in events
    BY <1>5, <2>1, NoForwardFacts DEF NamesInvariant
  <2>2. CASE e \in events /\ f \in evs
    <3>1. e.seq < f.seq
      BY <1>2, <1>5, <2>2
    <3> QED
      BY <1>4, <1>5, <3>1
  <2>3. CASE e \in evs
    <3>1. d \in Task
      BY <1>1, <1>5, <2>3 DEF Event, Body, Creates
    <3>2. d \in ToSet(txn[t].fresh)
      BY <1>1, <1>5, <2>3, <3>1 DEF BlockOK, Recorded
    <3>3. CASE f \in events
      <4>1. d \in used
        BY <1>5, <3>1, <3>3 DEF NamesInvariant
      <4> QED
        BY <3>2, <4>1 DEF RowsInvariant, IdsUsedOnce
    <3>4. CASE f \in evs
      <4>1. e = f
        BY <1>1, <1>5, <2>3, <3>1, <3>4 DEF BlockOK
      <4> QED
        BY <1>4, <1>5, <4>1
    <3> QED
      BY <1>1, <3>3, <3>4
  <2> QED
    BY <1>1, <2>1, <2>2, <2>3
<1>6. ASSUME NEW d, Told(p, d), evs # {}
      PROVE  \E f \in events' : f \in events /\ f.project = p /\ Creates(f.body, d)
  <2>1. p \in Project /\ projects[p] # None /\ p \notin txn[t].del
    BY <1>2, <1>6
  <2>2. PICK f \in events : f.project = p /\ Creates(f.body, d)
    BY <1>6, <2>1 DEF Told
  <2> QED
    BY <1>1, <2>1, <2>2
<1>7. ASSUME NEW e \in events', e.body.type = "task.created", NEW d \in e.body.deps
      PROVE  \E f \in events' : f.project = e.project /\ Creates(f.body, d)
  <2>1. CASE e \in events /\ e.project \notin txn[t].del
    <3>1. PICK f \in events : f.project = e.project /\ Creates(f.body, d)
      BY <1>7, <2>1, NoForwardFacts DEF NamesInvariant
    <3> QED
      BY <1>1, <2>1, <3>1
  <2>2. CASE e \in evs
    <3>1. Told(p, d) \/ Recorded(txn[t], d)
      BY <1>1, <1>7, <2>2 DEF BlockOK
    <3>2. CASE Recorded(txn[t], d)
      BY <1>1, <1>2, <2>2, <3>2 DEF Recorded
    <3> QED
      BY <1>2, <1>6, <2>2, <3>1, <3>2
  <2> QED
    BY <1>1, <2>1, <2>2
<1>8. ASSUME NEW e \in events', e.body.type # "task.created",
             NEW d \in TasksNamed(e.body)
      PROVE  \E f \in events' : /\ f.project = e.project /\ f.seq < e.seq
                                /\ Creates(f.body, d)
  <2>1. CASE e \in events /\ e.project \notin txn[t].del
    <3>1. PICK f \in events : /\ f.project = e.project /\ f.seq < e.seq
                              /\ Creates(f.body, d)
      BY <1>8, <2>1, NoForwardFacts DEF NamesInvariant
    <3> QED
      BY <1>1, <2>1, <3>1
  <2>2. CASE e \in evs
    <3>1. \/ Told(p, d)
          \/ \E f \in evs : f.seq < e.seq /\ Creates(f.body, d)
      BY <1>1, <1>8, <2>2 DEF BlockOK
    <3>2. CASE Told(p, d)
      BY <1>2, <1>6, <2>2, <3>2
    <3>3. CASE \E f \in evs : f.seq < e.seq /\ Creates(f.body, d)
      BY <1>1, <1>2, <2>2, <3>3
    <3> QED
      BY <3>1, <3>2, <3>3
  <2> QED
    BY <1>1, <2>1, <2>2
<1> HIDE DEF p, evs
<1> QED
  BY <1>5, <1>7, <1>8 DEF NoForwardReference, Creates

LEMMA CommitNames ==
  ASSUME Inv, RowsInvariant, NamesInvariant, NEW t \in Txn, Commit(t)
  PROVE  NamesInvariant'
<1>1. /\ BlockOK(txn[t]) /\ ReadsTold(txn[t]) /\ txn[t].pc = "commit"
      /\ \A d : Makes(txn[t], d) <=> Recorded(txn[t], d)
      /\ events' = {e \in events : e.project \notin txn[t].del} \cup txn[t].evs
      /\ \A e \in txn[t].evs : e.project = txn[t].project
  BY CommitFacts
<1>2. ToSet(txn[t].fresh) \subseteq used' /\ used \subseteq used'
  BY DEF Commit
<1>3. ASSUME NEW k \in Task, tasks'[k] # None
      PROVE  Told(tasks[k].project, k)'
  <2>1. PICK p : p = tasks'[k].project
    OBVIOUS
  <2>2. Told(p, k)'
    <3>1. CASE tasks[k] # None /\ tasks'[k].project = tasks[k].project
      <4>1. Told(p, k)
        BY <2>1, <3>1 DEF NamesInvariant
      <4> QED
        BY <4>1, CommitToldKept
    <3>2. CASE txn[t].puts[k] # None /\ tasks'[k].project = txn[t].project
      <4>1. Told(txn[t].project, k) \/ Recorded(txn[t], k)
        BY <1>1, <3>2 DEF ReadsTold
      <4>2. CASE Told(txn[t].project, k)
        BY <2>1, <3>2, <4>2, CommitToldKept
      <4>3. CASE Recorded(txn[t], k)
        BY <1>1, <2>1, <3>2, <4>3 DEF Recorded, Told
      <4> QED
        BY <4>1, <4>2, <4>3
    <3> QED
      BY <1>3, <3>1, <3>2, CommitTasks
  <2> QED
    BY <2>1, <2>2 DEF Told
<1>4. ASSUME NEW e \in events', NEW d \in Task, Creates(e.body, d)
      PROVE  d \in used'
  <2>1. CASE e \in events
    BY <1>2, <1>4, <2>1 DEF NamesInvariant
  <2>2. CASE e \in txn[t].evs
    <3>1. Recorded(txn[t], d)
      BY <1>4, <2>2 DEF Recorded
    <3> QED
      BY <1>1, <1>2, <3>1 DEF BlockOK
  <2> QED
    BY <1>1, <2>1, <2>2
<1>5. ASSUME NEW u \in Txn, txn'[u].pc # "idle"
      PROVE  (BlockOK(txn[u]) /\ ReadsTold(txn[u]))'
  <2>1. PICK v : v = txn'[u]
    OBVIOUS
  <2>2. txn'[u] = IF u = t THEN Idle ELSE txn[u]
    BY DEF Commit, Inv, TypeOK
  <2>3. InOrder(v)
    BY <1>5, <2>1, <2>2 DEF Idle, NamesInvariant, InOrder
  <2>4. \A d : Told(v.project, d) => Told(v.project, d)'
    BY CommitToldKept
  <2>5. InOrder(v)'
    BY <1>2, <2>3, <2>4, ToldKept
  <2> QED
    BY <2>1, <2>5 DEF InOrder
<1> QED
  BY <1>3, <1>4, <1>5, CommitNoForward DEF NamesInvariant

-----------------------------------------------------------------------------
(* A request arrives, a project is created. *)

LEMMA BeginNames ==
  ASSUME Inv, NamesInvariant, NEW t \in Txn, NEW r \in Request, Begin(t, r)
  PROVE  NamesInvariant'
<1>1. PICK ids \in [1..NewTasks(r) -> FreshTasks],
           c \in IF r.kind = "CreateComment" THEN FreshComments ELSE {None} :
        /\ IsInjective(ids)
        /\ Go(t, [Idle EXCEPT !.req = r, !.pc = FirstPC(r.kind),
                              !.fresh = ids, !.comment = c])
  BY DEF Begin
<1> DEFINE x == [Idle EXCEPT !.req = r, !.pc = FirstPC(r.kind),
                             !.fresh = ids, !.comment = c]
<1>2. /\ x.req = r /\ x.pc = FirstPC(r.kind) /\ x.fresh = ids
      /\ x.project = None /\ x.out = << >> /\ x.evs = {}
      /\ \A k \in Task : x.puts[k] = None
  BY DEF Idle
<1> HIDE DEF x
<1>3. r.kind \in {"CreateTask", "UpdateTask", "DeleteTask", "CreateTaskBatch",
                  "CreateComment", "DeleteComment", "UpdateProject",
                  "DeleteProject"}
  BY DEF Request
<1>4. \A i, j \in DOMAIN x.fresh : x.fresh[i] = x.fresh[j] => i = j
  BY <1>1, <1>2 DEF IsInjective
<1>5. BlockOK(x)
  <2>1. \A d : ~ Recorded(x, d) /\ ~ Makes(x, d)
    BY <1>2 DEF Recorded, Makes
  <2>2. {e.body : e \in x.evs} \cup ToSet(x.out) = {}
    BY <1>2 DEF ToSet
  <2> QED
    BY <1>2, <1>4, <2>1, <2>2 DEF BlockOK
<1>6. r.kind = "CreateTask" => r.project \in used
  BY DEF Begin, Names
<1>7. ReadsTold(x)
  BY <1>2, <1>3, <1>6 DEF ReadsTold, FirstPC
<1> QED
  BY <1>1, <1>5, <1>7, GoNames DEF InOrder, x

LEMMA CreateProjectNames ==
  ASSUME Inv, RowsInvariant, NamesInvariant, NEW p \in Project, NEW name \in Text,
         CreateProject(p, name)
  PROVE  NamesInvariant'
<1>1. /\ projects' = [projects EXCEPT ![p] = [name |-> name, lastSeq |-> 0]]
      /\ used' = used \cup {p} /\ p \notin used
      /\ tasks' = tasks /\ events' = events /\ txn' = txn
  BY DEF CreateProject
<1>2. ASSUME NEW q, q # p, NEW d, Told(q, d)
      PROVE  Told(q, d)'
  <2>1. q \in Project => projects'[q] = projects[q]
    BY <1>1, <1>2 DEF Inv, TypeOK
  <2> QED
    BY <1>1, <1>2, <2>1 DEF Told
<1>3. projects[p] = None
  BY <1>1 DEF Inv, LogInvariant
<1>4. ASSUME NEW k \in Task, tasks'[k] # None
      PROVE  Told(tasks[k].project, k)'
  <2>1. PICK q : q = tasks'[k].project
    OBVIOUS
  <2>2. q # p /\ Told(q, k)
    BY <1>1, <1>3, <1>4, <2>1 DEF RowsInvariant, NamesInvariant
  <2>3. Told(q, k)'
    BY <1>2, <2>2
  <2> QED
    BY <2>1, <2>3 DEF Told
<1>5. ASSUME NEW u \in Txn, txn'[u].pc # "idle"
      PROVE  (BlockOK(txn[u]) /\ ReadsTold(txn[u]))'
  <2>1. PICK v : v = txn'[u]
    OBVIOUS
  <2>2. InOrder(v)
    BY <1>1, <1>5, <2>1 DEF NamesInvariant, InOrder
  <2>3. v.project # p
    BY <1>1, <2>2, NoneAssumption DEF InOrder, ReadsTold
  <2>4. InOrder(v)'
    BY <1>1, <1>2, <2>2, <2>3, ToldKept
  <2> QED
    BY <2>1, <2>4 DEF InOrder
<1>6. NoForwardReference'
  BY <1>1 DEF NamesInvariant, NoForwardReference
<1>7. \A e \in events', d \in Task : Creates(e.body, d) => d \in used'
  BY <1>1 DEF NamesInvariant
<1> QED
  BY <1>4, <1>5, <1>6, <1>7 DEF NamesInvariant

-----------------------------------------------------------------------------
(* The theorems. *)

LEMMA FailNames ==
  ASSUME Inv, NamesInvariant, NEW t \in Txn, Fail(t) \/ DeadlockVictim(t)
  PROVE  NamesInvariant'
BY RollbackNames DEF Fail, DeadlockVictim

LEMMA StatementNames ==
  ASSUME Inv, RowsInvariant, NamesInvariant, NEW t \in Txn, Statement(t)
  PROVE  NamesInvariant'
<1>1. CASE CreateTaskValidate(t) \/ CreateTaskInsert(t)
  BY <1>1, CreateTaskValidateNames, CreateTaskInsertNames
<1>2. CASE UpdateTaskLock(t) \/ UpdateTaskValidate(t)
           \/ UpdateTaskComplete(t) \/ UpdateTaskWrite(t)
  BY <1>2, UpdateTaskLockNames, UpdateTaskValidateNames, UpdateTaskCompleteNames,
     UpdateTaskWriteNames
<1>3. CASE DeleteTaskLock(t) \/ DeleteTaskCascade(t)
  BY <1>3, DeleteTaskLockNames, DeleteTaskCascadeNames
<1>4. CASE BatchLock(t) \/ BatchInsert(t) \/ BatchValidate(t)
  BY <1>4, BatchLockNames, BatchInsertNames, BatchValidateNames
<1>5. CASE CreateCommentResolve(t) \/ CreateCommentInsert(t)
           \/ DeleteCommentResolve(t) \/ DeleteCommentRow(t)
  BY <1>5, CreateCommentNames, DeleteCommentNames
<1>6. CASE UpdateProjectLock(t) \/ DeleteProjectLock(t)
           \/ DeleteProjectCascade(t)
  BY <1>6, UpdateProjectLockNames, DeleteProjectNames
<1>7. CASE InsertDependency(t) \/ RecordEvent(t) \/ Commit(t)
           \/ DeadlockVictim(t)
  BY <1>7, InsertDependencyNames, RecordEventNames, CommitNames, FailNames
<1> QED
  BY <1>1, <1>2, <1>3, <1>4, <1>5, <1>6, <1>7 DEF Statement

LEMMA InitNames == Init => NamesInvariant
<1> SUFFICES ASSUME Init PROVE NamesInvariant
  OBVIOUS
<1>1. Idle.pc = "idle"
  BY DEF Idle
<1>2. NoForwardReference
  BY DEF Init, NoForwardReference
<1> QED
  BY <1>1, <1>2 DEF Init, NamesInvariant

LEMMA NextNames ==
  Inv /\ RowsInvariant /\ NamesInvariant /\ [Next]_vars => NamesInvariant'
<1> SUFFICES ASSUME Inv, RowsInvariant, NamesInvariant, [Next]_vars
             PROVE  NamesInvariant'
  OBVIOUS
<1>1. CASE \E p \in Project, name \in Text : CreateProject(p, name)
  BY <1>1, CreateProjectNames
<1>2. ASSUME NEW t \in Txn, \E r \in Request : Begin(t, r)
      PROVE  NamesInvariant'
  BY <1>2, BeginNames
<1>3. ASSUME NEW t \in Txn, Statement(t)
      PROVE  NamesInvariant'
  BY <1>3, StatementNames
<1>4. ASSUME NEW t \in Txn, Fail(t)
      PROVE  NamesInvariant'
  BY <1>4, FailNames
<1>5. CASE UNCHANGED vars
  <2>1. /\ NoForwardReference'
        /\ \A k \in Task : tasks'[k] # None => Told(tasks[k].project, k)'
        /\ \A e \in events', d \in Task : Creates(e.body, d) => d \in used'
    BY <1>5 DEF vars, NamesInvariant, NoForwardReference, Told
  <2>2. ASSUME NEW u \in Txn, txn'[u].pc # "idle"
        PROVE  (BlockOK(txn[u]) /\ ReadsTold(txn[u]))'
    <3>1. PICK v : v = txn'[u]
      OBVIOUS
    <3>2. InOrder(v)
      BY <1>5, <2>2, <3>1 DEF vars, NamesInvariant, InOrder
    <3>3. InOrder(v)'
      BY <1>5, <3>2, SameLogs DEF vars
    <3> QED
      BY <3>1, <3>3 DEF InOrder
  <2> QED
    BY <2>1, <2>2 DEF NamesInvariant
<1> QED
  BY <1>1, <1>2, <1>3, <1>4, <1>5 DEF Next

\* Every task is in the log of its project, and the events an open transaction
\* has recorded or will record speak only of what that log or their own block
\* has created: what makes the next theorem inductive.
THEOREM LogKnowsEveryTask == Spec => []NamesInvariant
BY InitInv, NextInv, InitRows, NextRows, InitNames, NextNames, PTL DEF Spec

\* Whatever mutations, breakdowns and deletions run at once, no committed log
\* patches, deletes or comments a task before it creates it, creates one
\* twice, or lets a new task depend on one it never creates.
THEOREM NoTaskBeforeItsCreation == Spec => []NoForwardReference
<1>1. NamesInvariant => NoForwardReference
  BY DEF NamesInvariant
<1> QED
  BY <1>1, LogKnowsEveryTask, PTL
=============================================================================
