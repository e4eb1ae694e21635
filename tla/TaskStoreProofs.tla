-------------------------- MODULE TaskStoreProofs --------------------------
(***************************************************************************)
(* Proofs about TaskStore, for every value of its constants: the types of  *)
(* its state, that a project's log has no gap and no duplicate, and that   *)
(* the store implements EventLog: what any number of interleaved           *)
(* transactions do to the tables is, to a reader of a project's log, a     *)
(* block of events appended in one step, the log of a new project, the end *)
(* of a deleted one's, or nothing.                                         *)
(***************************************************************************)
EXTENDS TaskStore, FiniteSetTheorems, TLAPS

Inv == TypeOK /\ LogInvariant

-----------------------------------------------------------------------------
(* Operators on sequences and records. *)

\* A transaction's next edges and payloads are made element by element.
LEMMA MapIsSeq ==
  ASSUME NEW S, NEW T, NEW s \in Seq(S), NEW f,
         f = [i \in DOMAIN s |-> f[i]],
         \A i \in DOMAIN s : f[i] \in T
  PROVE  f \in Seq(T)
<1>1. DOMAIN s = 1..Len(s) /\ Len(s) \in Nat
  OBVIOUS
<1>2. f \in [1..Len(s) -> T]
  BY <1>1
<1> QED
  BY <1>1, <1>2

LEMMA SeqElement ==
  ASSUME NEW S, NEW s \in Seq(S), NEW i \in 1..Len(s)
  PROVE  s[i] \in S
OBVIOUS

\* The set of a sequence's elements (ToSet) lies in their type.
LEMMA ToSetType ==
  ASSUME NEW S, NEW s \in Seq(S)
  PROVE  ToSet(s) \subseteq S
BY DEF ToSet

\* Conflicts between lock modes do not depend on who asks.
LEMMA ConflictSymmetric ==
  ASSUME NEW m, NEW n PROVE Conflict(m, n) <=> Conflict(n, m)
BY DEF Conflict

\* A lock held with a mode that conflicts with itself and with its like is
\* held by one transaction.
LEMMA HoldersConflict ==
  ASSUME NEW m \in {"noKeyUpdate", "update"}, NEW n \in {"noKeyUpdate", "update"}
  PROVE  Conflict(m, n)
BY DEF Conflict

LEMMA IdleType == Idle \in TxnState
<1>1. << >> \in Seq(Task) /\ << >> \in Seq(Edge) /\ << >> \in Seq(Body)
  OBVIOUS
<1>2. [k \in Task |-> None] \in [Task -> TaskRow \cup {None}]
  OBVIOUS
<1> QED
  BY <1>1, <1>2 DEF Idle, TxnState, PC

-----------------------------------------------------------------------------
(* One statement: t goes from txn[t] to x, nothing is committed. *)

\* The lock discipline survives a statement that keeps or drops its locks, or
\* takes what it needs while nobody it conflicts with holds it.
LEMMA GoLocks ==
  ASSUME NEW t \in Txn, NEW x, txn \in [Txn -> TxnState], LocksExclusive,
         txn' = [txn EXCEPT ![t] = x],
         \/ x.locks \subseteq txn[t].locks
         \/ WaitsFor(t) = {} /\ x.locks \subseteq txn[t].locks \cup Needs(t)
  PROVE  LocksExclusive'
<1>1. txn' = [txn EXCEPT ![t] = x]
  OBVIOUS
<1>2. \A u \in Txn \ {t} : \A l \in x.locks, m \in txn[u].locks :
        l.row = m.row => ~ Conflict(l.mode, m.mode)
  <2> SUFFICES ASSUME NEW u \in Txn \ {t}, NEW l \in x.locks,
                      NEW m \in txn[u].locks, l.row = m.row
               PROVE  ~ Conflict(l.mode, m.mode)
    OBVIOUS
  <2>1. CASE l \in txn[t].locks
    BY <2>1 DEF LocksExclusive
  <2>2. CASE l \notin txn[t].locks
    <3>1. WaitsFor(t) = {} /\ l \in Needs(t)
      BY <2>2
    <3>2. ~ Conflict(m.mode, l.mode)
      BY <3>1 DEF WaitsFor
    <3> QED
      BY <3>2, ConflictSymmetric
  <2> QED
    BY <2>1, <2>2
<1>3. ASSUME NEW u \in Txn, NEW v \in Txn, u # v,
             NEW l \in txn'[u].locks, NEW m \in txn'[v].locks, l.row = m.row
      PROVE  ~ Conflict(l.mode, m.mode)
  <2>1. CASE u = t
    BY <1>1, <1>2, <1>3, <2>1
  <2>2. CASE v = t
    <3>1. ~ Conflict(m.mode, l.mode)
      BY <1>1, <1>2, <1>3, <2>2
    <3> QED
      BY <3>1, ConflictSymmetric
  <2>3. CASE u # t /\ v # t
    BY <1>1, <1>3, <2>3 DEF LocksExclusive
  <2> QED
    BY <2>1, <2>2, <2>3
<1> QED
  BY <1>3 DEF LocksExclusive

\* The invariant survives a statement that leaves its transaction in order.
LEMMA GoStep ==
  ASSUME Inv, NEW t \in Txn, NEW x \in TxnState, ShapeOK(x), ClaimsOK(x),
         Go(t, x),
         \/ x.locks \subseteq txn[t].locks
         \/ WaitsFor(t) = {} /\ x.locks \subseteq txn[t].locks \cup Needs(t)
  PROVE  Inv'
<1>1. /\ txn' = [txn EXCEPT ![t] = x]
      /\ UNCHANGED <<projects, tasks, deps, comments, events, used>>
  BY DEF Go
<1>2. TypeOK'
  BY <1>1 DEF Inv, TypeOK
<1>3. LocksExclusive'
  BY <1>1, GoLocks DEF Inv, TypeOK, LogInvariant
<1>4. ASSUME NEW u \in Txn
      PROVE  ShapeOK(txn'[u]) /\ (ClaimsOK(txn[u]))'
  <2>1. CASE u = t
    <3>1. txn'[u] = x
      BY <1>1, <2>1 DEF Inv, TypeOK
    <3> QED
      BY <1>1, <3>1 DEF ClaimsOK
  <2>2. CASE u # t
    <3>1. txn'[u] = txn[u]
      BY <1>1, <2>2 DEF Inv, TypeOK
    <3>2. ShapeOK(txn[u]) /\ ClaimsOK(txn[u])
      BY DEF Inv, LogInvariant
    <3> QED
      BY <1>1, <3>1, <3>2 DEF ClaimsOK
  <2> QED
    BY <2>1, <2>2
<1>5. GaplessLog'
  BY <1>1 DEF Inv, LogInvariant, GaplessLog
<1>6. \A p \in Project : projects'[p] # None => p \in used'
  BY <1>1 DEF Inv, LogInvariant
<1> QED
  BY <1>2, <1>3, <1>4, <1>5, <1>6 DEF Inv, LogInvariant

LEMMA IdleOK == ShapeOK(Idle) /\ ClaimsOK(Idle)
<1>1. ShapeOK(Idle)
  BY DEF ShapeOK, Idle
<1>2. ClaimsOK(Idle)
  BY DEF ClaimsOK, Idle
<1> QED
  BY <1>1, <1>2

LEMMA RollbackStep ==
  ASSUME Inv, NEW t \in Txn, Rollback(t)
  PROVE  Inv'
<1>1. Idle.locks \subseteq txn[t].locks
  BY DEF Idle
<1> QED
  BY <1>1, IdleType, IdleOK, GoStep DEF Rollback

-----------------------------------------------------------------------------
(* What the statements have in common. *)

\* A request has the fields of its kind.
LEMMA RequestFields ==
  ASSUME NEW r \in Request
  PROVE  /\ r.kind = "CreateTask" =>
              /\ r.project \in Project /\ r.title \in Text
              /\ r.status \in Status /\ r.deps \in Seq(Task)
         /\ r.kind = "UpdateTask" =>
              /\ r.task \in Task /\ r.title \in Text \cup {None}
              /\ r.status \in Status \cup {None}
              /\ r.deps \in Seq(Task) \cup {None}
         /\ r.kind \in {"DeleteTask", "CreateTaskBatch", "CreateComment"} =>
              r.task \in Task
         /\ r.kind = "CreateTaskBatch" =>
              r.subs \in Seq([title : Text, dependsOn : SUBSET Nat])
         /\ r.kind = "DeleteComment" => r.comment \in Comment
         /\ r.kind \in {"UpdateProject", "DeleteProject"} =>
              r.project \in Project
         /\ r.kind = "UpdateProject" => r.name \in Text \cup {None}
BY DepListsAssumption, BatchesAssumption DEF Request

\* The request a statement works on, and the state it starts from.
LEMMA AtFacts ==
  ASSUME Inv, NEW t \in Txn, NEW kinds, NEW pc, pc # "idle", At(t, kinds, pc)
  PROVE  /\ txn[t] \in TxnState
         /\ txn[t].pc = pc
         /\ txn[t].req \in Request
         /\ txn[t].req.kind \in kinds
         /\ WaitsFor(t) = {}
         /\ ShapeOK(txn[t]) /\ RequestOK(txn[t]) /\ ClaimsOK(txn[t])
<1>1. txn[t] \in TxnState
  BY DEF Inv, TypeOK
<1>2. ShapeOK(txn[t]) /\ ClaimsOK(txn[t])
  BY DEF Inv, LogInvariant
<1>3. txn[t].pc = pc /\ txn[t].req.kind \in kinds /\ WaitsFor(t) = {}
  BY DEF At
<1>4. RequestOK(txn[t]) /\ txn[t].req # None
  BY <1>2, <1>3 DEF ShapeOK
<1>5. txn[t].req \in Request
  BY <1>1, <1>4 DEF TxnState
<1> QED
  BY <1>1, <1>2, <1>3, <1>4, <1>5

LEMMA LocksType ==
  ASSUME NEW rows \in SUBSET Row, NEW mode \in Mode
  PROVE  Locks(rows, mode) \in SUBSET Lock
BY DEF Locks, Lock

\* Having taken its locks a transaction differs only in them.
LEMMA LockedFacts ==
  ASSUME NEW t \in Txn, txn[t] \in TxnState, Needs(t) \in SUBSET Lock
  PROVE  /\ Locked(t) \in TxnState
         /\ Locked(t).locks = txn[t].locks \cup Needs(t)
         /\ Locked(t) = [txn[t] EXCEPT !.locks = txn[t].locks \cup Needs(t)]
BY DEF Locked, TxnState

LEMMA ContinueFacts ==
  ASSUME NEW x \in TxnState
  PROVE  /\ Continue(x) \in TxnState
         /\ Continue(x).pc \in {"insertDeps", "record", "commit"}
         /\ Continue(x) = [x EXCEPT !.pc = Continue(x).pc]
         /\ Continue(x).pc = "insertDeps" => x.pending # << >>
         /\ Continue(x).pc = "record" => x.out # << >> /\ x.pending = << >>
         /\ x.pending # << >> => Continue(x).pc = "insertDeps"
         /\ x.out # << >> => Continue(x).pc # "commit"
BY DEF Continue, TxnState, PC

\* Going on to the next edge, event or the commit leaves t in order.
LEMMA ContinueStep ==
  ASSUME Inv, NEW t \in Txn, NEW x \in TxnState, Go(t, Continue(x)),
         WaitsFor(t) = {}, x.locks \subseteq txn[t].locks \cup Needs(t),
         ClaimsOK(x), RequestOK(x), x.req # None,
         x.comment # None => x.req.kind = "CreateComment",
         x.pending # << >> \/ x.out # << >> => x.project \in Project,
         x.pending # << >> => x.lastSeq = 0 /\ x.evs = {}
  PROVE  Inv'
<1> DEFINE y == Continue(x)
<1>1. /\ y \in TxnState
      /\ y.pc \in {"insertDeps", "record", "commit"}
      /\ y = [x EXCEPT !.pc = y.pc]
      /\ y.pc = "insertDeps" => x.pending # << >>
      /\ y.pc = "record" => x.out # << >> /\ x.pending = << >>
  BY ContinueFacts
<1> HIDE DEF y
<1>2. /\ y.req = x.req /\ y.fresh = x.fresh /\ y.comment = x.comment
      /\ y.project = x.project /\ y.current = x.current /\ y.out = x.out
      /\ y.pending = x.pending /\ y.lastSeq = x.lastSeq /\ y.evs = x.evs
      /\ y.locks = x.locks /\ y.del = x.del
  BY <1>1 DEF TxnState
<1>3. RequestOK(y)
  BY <1>1, <1>2 DEF RequestOK
<1>4. ShapeOK(y)
  BY <1>1, <1>2, <1>3 DEF ShapeOK
<1>5. ClaimsOK(y)
  BY <1>2 DEF ClaimsOK, Holds
<1>6. Go(t, y)
  BY DEF y
<1> QED
  BY <1>1, <1>2, <1>4, <1>5, <1>6, GoStep

\* Before its first claim a transaction stays in order whatever it does to
\* rows other than projects.
LEMMA ClaimsKept ==
  ASSUME NEW x, NEW y, ClaimsOK(x), y.lastSeq = 0, y.evs = {},
         x.locks \subseteq y.locks, x.req = y.req,
         \A p \in Project : p \in y.del =>
           \/ p \in x.del
           \/ /\ y.req.kind = "DeleteProject" /\ p = y.req.project
              /\ Holds(y, p, {"update"})
  PROVE  ClaimsOK(y)
BY DEF ClaimsOK, Holds

\* Rows of other tables are no project's.
LEMMA OtherRows ==
  ASSUME NEW w \in Task \cup Comment \cup Edge
  PROVE  w \notin Project /\ w \in Row
BY IdAssumption DEF Row, Edge

\* x is t's state after a statement that claims no seq, up to the fields the
\* statement writes.
After(x, t) ==
  /\ x \in TxnState
  /\ x.req = txn[t].req /\ x.fresh = txn[t].fresh
  /\ x.comment = txn[t].comment
  /\ x.lastSeq = txn[t].lastSeq /\ x.evs = txn[t].evs
  /\ x.locks = txn[t].locks \cup Needs(t)

\* t is at a statement of its own operation, and it can run.
OwnStatement(t) ==
  /\ txn[t].pc \notin {"idle", "record", "commit"}
  /\ txn[t].req \in Request
  /\ WaitsFor(t) = {}

\* A statement that only reads and locks: the transaction is not yet at its
\* shared end, and knows its project and task where the next one needs them.
LEMMA ReadStep ==
  ASSUME Inv, NEW t \in Txn, NEW x, After(x, t), OwnStatement(t),
         Go(t, x), x.del = txn[t].del,
         x.pc \notin {"idle", "insertDeps", "record", "commit"},
         \/ x.pc \in {"lock", "resolve", "lockProject"}
         \/ x.pc = "validate" /\ txn[t].req.kind = "CreateTask"
         \/ x.pc = "cascade" /\ txn[t].req.kind = "DeleteProject"
         \/ x.project \in Project,
         txn[t].req.kind = "UpdateTask" =>
           /\ x.project \in Project /\ x.current \in TaskRow
           /\ x.pc = "validate" => x.req.deps # None,
         txn[t].req.kind = "UpdateProject" => x.out = txn[t].out,
         txn[t].req.kind = "DeleteProject" => x.pending = txn[t].pending /\ x.out = txn[t].out
  PROVE  Inv'
<1>1. /\ txn[t].pc \notin {"idle", "record", "commit"}
      /\ txn[t].req \in Request
      /\ WaitsFor(t) = {}
      /\ ShapeOK(txn[t]) /\ RequestOK(txn[t]) /\ ClaimsOK(txn[t])
  BY DEF OwnStatement, Inv, LogInvariant, ShapeOK
<1>2. x.lastSeq = 0 /\ x.evs = {} /\ txn[t].req # None
  BY <1>1 DEF After, ShapeOK
<1>3. RequestOK(x)
  BY <1>1, <1>2 DEF RequestOK, After
<1>4. ShapeOK(x)
  BY <1>1, <1>2, <1>3 DEF ShapeOK, After
<1>5. ClaimsOK(x)
  BY <1>1, <1>2, ClaimsKept DEF After
<1> QED
  BY <1>1, <1>4, <1>5, GoStep DEF After

\* The last statement of an operation's own: what is left are edges, events
\* and the commit.
LEMMA WriteStep ==
  ASSUME Inv, NEW t \in Txn, NEW x, After(x, t), OwnStatement(t),
         Go(t, Continue(x)),
         \A p \in Project : p \in x.del =>
           \/ p \in txn[t].del
           \/ /\ txn[t].req.kind = "DeleteProject" /\ p = txn[t].req.project
              /\ [row |-> p, mode |-> "update"] \in Needs(t),
         x.pc = txn[t].pc, x.current = txn[t].current,
         x.project \in Project \/ txn[t].req.kind = "DeleteProject",
         txn[t].req.kind = "UpdateProject" /\ x.out # << >> => x.req.name \in Text,
         txn[t].req.kind = "DeleteProject" => x.pending = << >> /\ x.out = << >>
  PROVE  Inv'
<1>1. /\ txn[t].pc \notin {"idle", "record", "commit"}
      /\ txn[t].req \in Request
      /\ WaitsFor(t) = {}
      /\ ShapeOK(txn[t]) /\ RequestOK(txn[t]) /\ ClaimsOK(txn[t])
  BY DEF OwnStatement, Inv, LogInvariant, ShapeOK
<1>2. x.lastSeq = 0 /\ x.evs = {} /\ txn[t].req # None
  BY <1>1 DEF After, ShapeOK
<1>3. RequestOK(x)
  BY <1>1, <1>2 DEF RequestOK, After
<1>4. ASSUME NEW p \in Project, p \in x.del
      PROVE  \/ p \in txn[t].del
             \/ /\ x.req.kind = "DeleteProject" /\ p = x.req.project
                /\ Holds(x, p, {"update"})
  <2> DEFINE l == [row |-> p, mode |-> "update"]
  <2>1. CASE p \in txn[t].del
    BY <2>1
  <2>2. CASE /\ txn[t].req.kind = "DeleteProject" /\ p = txn[t].req.project
             /\ l \in Needs(t)
    <3>1. l \in x.locks /\ x.req.kind = "DeleteProject" /\ p = x.req.project
      BY <2>2 DEF After
    <3>2. l.row = p /\ l.mode \in {"update"}
      OBVIOUS
    <3> QED
      BY <3>1, <3>2 DEF Holds
  <2> QED
    BY <1>4, <2>1, <2>2
<1>5. ClaimsOK(x)
  BY <1>1, <1>2, <1>4, ClaimsKept DEF After
<1>6. x.comment # None => x.req.kind = "CreateComment"
  BY <1>1 DEF ShapeOK, After
<1>7. x.pending # << >> \/ x.out # << >> => x.project \in Project
  BY <1>1
<1> QED
  BY <1>1, <1>2, <1>3, <1>5, <1>6, <1>7, ContinueStep DEF After

-----------------------------------------------------------------------------
(* CreateTask *)

LEMMA CreateTaskValidateStep ==
  ASSUME Inv, NEW t \in Txn, CreateTaskValidate(t)
  PROVE  Inv'
<1> DEFINE x == [txn[t] EXCEPT !.project = txn[t].req.project,
                               !.pc = "insertTask"]
<1>1. At(t, {"CreateTask"}, "validate") /\ (Rollback(t) \/ Go(t, x))
  BY DEF CreateTaskValidate
<1>2. /\ txn[t] \in TxnState /\ txn[t].pc = "validate"
      /\ txn[t].req \in Request /\ txn[t].req.kind = "CreateTask"
      /\ OwnStatement(t)
  BY <1>1, AtFacts DEF OwnStatement
<1>3. txn[t].req.project \in Project
  BY <1>2, RequestFields
<1>4. Needs(t) = {}
  BY <1>2 DEF Needs, TaskLock
<1>5. After(x, t) /\ x.del = txn[t].del /\ x.pc = "insertTask"
      /\ x.project \in Project
  BY <1>2, <1>3, <1>4 DEF After, TxnState, PC
<1> HIDE DEF x
<1> QED
  BY <1>1, <1>2, <1>5, ReadStep, RollbackStep

LEMMA CreateTaskInsertStep ==
  ASSUME Inv, NEW t \in Txn, CreateTaskInsert(t)
  PROVE  Inv'
<1> DEFINE r == txn[t].req
           k == txn[t].fresh[1]
           row == [project |-> r.project, title |-> r.title,
                   status |-> r.status]
           edges == [i \in DOMAIN r.deps |-> <<k, r.deps[i]>>]
           body == [type |-> "task.created", task |-> k, row |-> row,
                    deps |-> ToSet(r.deps)]
           out == <<body>>
           puts == [txn[t].puts EXCEPT ![k] = row]
           x == [Locked(t) EXCEPT !.puts = puts, !.pending = edges,
                                  !.out = out]
<1>1. /\ At(t, {"CreateTask"}, "insertTask")
      /\ Rollback(t) \/ Go(t, Continue([Locked(t) EXCEPT
             !.puts = [@ EXCEPT ![k] = row],
             !.pending = edges,
             !.out = out]))
  BY DEF CreateTaskInsert
<1>2. /\ txn[t] \in TxnState /\ txn[t].pc = "insertTask"
      /\ txn[t].req \in Request /\ txn[t].req.kind = "CreateTask"
      /\ ShapeOK(txn[t]) /\ RequestOK(txn[t]) /\ OwnStatement(t)
  BY <1>1, AtFacts DEF OwnStatement
<1>3. /\ r.project \in Project /\ r.title \in Text
      /\ r.status \in Status /\ r.deps \in Seq(Task)
  BY <1>2, RequestFields
<1>4. txn[t].project \in Project
  BY <1>2 DEF ShapeOK
<1>5. Needs(t) = Locks({txn[t].project}, "keyShare")
  BY <1>2 DEF Needs, TaskLock
<1>6. Needs(t) \in SUBSET Lock
  BY <1>4, <1>5, LocksType DEF Row, Mode
<1>7. k \in Task
  BY <1>2 DEF RequestOK, TxnState
<1>8. row \in TaskRow
  BY <1>3 DEF TaskRow
<1>9. edges \in Seq(Edge)
  BY <1>3, <1>7, MapIsSeq DEF Edge
<1>10. body \in Body
  BY <1>3, <1>7, <1>8, ToSetType DEF Body
<1>11. out \in Seq(Body)
  BY <1>10
<1>12. puts \in [Task -> TaskRow \cup {None}]
  BY <1>2, <1>7, <1>8 DEF TxnState
<1>13. /\ Locked(t) \in TxnState
       /\ Locked(t) = [txn[t] EXCEPT !.locks = txn[t].locks \cup Needs(t)]
  BY <1>2, <1>6, LockedFacts
<1> HIDE DEF edges, body, out, puts, row, k
<1>14. /\ After(x, t) /\ x.project = txn[t].project /\ x.del = txn[t].del
       /\ x.pc = "insertTask" /\ x.current = txn[t].current
  BY <1>2, <1>9, <1>11, <1>12, <1>13 DEF After, TxnState
<1>15. Rollback(t) \/ Go(t, Continue(x))
  BY <1>1, <1>2, <1>13 DEF puts, TxnState
<1> HIDE DEF x
<1>16. CASE Rollback(t)
  BY <1>16, RollbackStep
<1>17. CASE Go(t, Continue(x))
  BY <1>2, <1>4, <1>14, <1>17, WriteStep
<1> QED
  BY <1>15, <1>16, <1>17

-----------------------------------------------------------------------------
(* UpdateTask *)

LEMMA UpdateTaskLockStep ==
  ASSUME Inv, NEW t \in Txn, UpdateTaskLock(t)
  PROVE  Inv'
<1> DEFINE r == txn[t].req
           row == tasks[r.task]
           pc == CASE r.deps # None -> "validate"
                   [] r.deps = None /\ r.status = "done" -> "complete"
                   [] OTHER -> "write"
           x == [Locked(t) EXCEPT !.current = row, !.project = row.project,
                                  !.read = DirectDeps(r.task), !.pc = pc]
<1>1. /\ At(t, {"UpdateTask"}, "lock")
      /\ Rollback(t) \/ (row # None /\ Go(t, x))
  BY DEF UpdateTaskLock
<1>2. /\ txn[t] \in TxnState /\ txn[t].pc = "lock"
      /\ r \in Request /\ r.kind = "UpdateTask" /\ OwnStatement(t)
  BY <1>1, AtFacts DEF OwnStatement
<1>3. r.task \in Task
  BY <1>2, RequestFields
<1>4. Needs(t) = Locks({r.task}, "update")
  BY <1>2 DEF Needs, TaskLock
<1>5. Needs(t) \in SUBSET Lock
  BY <1>3, <1>4, LocksType DEF Row, Mode
<1>6. DirectDeps(r.task) \subseteq Task
  BY DEF Inv, TypeOK, DirectDeps, Edge
<1>7. pc \in {"validate", "complete", "write"} /\ (pc = "validate" => r.deps # None)
  OBVIOUS
<1>8. /\ Locked(t) \in TxnState
      /\ Locked(t) = [txn[t] EXCEPT !.locks = txn[t].locks \cup Needs(t)]
  BY <1>2, <1>5, LockedFacts
<1>9. CASE Rollback(t)
  BY <1>9, RollbackStep
<1>10. CASE row # None /\ Go(t, x)
  <2>1. row \in TaskRow /\ row.project \in Project
    BY <1>3, <1>10 DEF Inv, TypeOK, TaskRow
  <2> HIDE DEF pc, row
  <2>2. /\ After(x, t) /\ x.del = txn[t].del /\ x.pc = pc
        /\ x.project \in Project /\ x.current \in TaskRow /\ x.req = r
    <3>1. x \in TxnState
      BY <1>6, <1>7, <1>8, <2>1 DEF TxnState, PC
    <3>2. /\ x.req = r /\ x.fresh = txn[t].fresh /\ x.comment = txn[t].comment
          /\ x.lastSeq = txn[t].lastSeq /\ x.evs = txn[t].evs
          /\ x.locks = txn[t].locks \cup Needs(t)
          /\ x.del = txn[t].del /\ x.pc = pc
          /\ x.project = row.project /\ x.current = row
      BY <1>2, <1>8 DEF TxnState
    <3> QED
      BY <2>1, <3>1, <3>2 DEF After
  <2> HIDE DEF x
  <2> QED
    BY <1>2, <1>7, <1>10, <2>2, ReadStep
<1> QED
  BY <1>1, <1>9, <1>10

LEMMA UpdateTaskValidateStep ==
  ASSUME Inv, NEW t \in Txn, UpdateTaskValidate(t)
  PROVE  Inv'
<1> DEFINE r == txn[t].req
           pc == IF r.status = "done" THEN "complete" ELSE "write"
           x == [txn[t] EXCEPT !.read = ToSet(r.deps), !.pc = pc]
<1>1. /\ At(t, {"UpdateTask"}, "validate")
      /\ Rollback(t) \/ Go(t, x)
  BY DEF UpdateTaskValidate
<1>2. /\ txn[t] \in TxnState /\ txn[t].pc = "validate"
      /\ r \in Request /\ r.kind = "UpdateTask" /\ OwnStatement(t)
      /\ txn[t].project \in Project /\ txn[t].current \in TaskRow
      /\ r.deps # None
  BY <1>1, AtFacts DEF OwnStatement, RequestOK
<1>3. r.deps \in Seq(Task)
  BY <1>2, RequestFields
<1>4. ToSet(r.deps) \subseteq Task
  BY <1>3, ToSetType
<1>5. Needs(t) = {}
  BY <1>2 DEF Needs, TaskLock
<1>6. pc \in {"complete", "write"}
  OBVIOUS
<1> HIDE DEF pc
<1>7. /\ After(x, t) /\ x.del = txn[t].del /\ x.pc = pc
      /\ x.project \in Project /\ x.current \in TaskRow
  BY <1>2, <1>4, <1>5, <1>6 DEF After, TxnState, PC
<1> HIDE DEF x
<1> QED
  BY <1>1, <1>2, <1>6, <1>7, ReadStep, RollbackStep

LEMMA UpdateTaskCompleteStep ==
  ASSUME Inv, NEW t \in Txn, UpdateTaskComplete(t)
  PROVE  Inv'
<1> DEFINE x == [txn[t] EXCEPT !.pc = "write"]
<1>1. /\ At(t, {"UpdateTask"}, "complete")
      /\ Rollback(t) \/ Go(t, x)
  BY DEF UpdateTaskComplete
<1>2. /\ txn[t] \in TxnState /\ txn[t].pc = "complete"
      /\ txn[t].req.kind = "UpdateTask" /\ OwnStatement(t)
      /\ txn[t].project \in Project /\ txn[t].current \in TaskRow
  BY <1>1, AtFacts DEF OwnStatement, RequestOK
<1>3. Needs(t) = {}
  BY <1>2 DEF Needs, TaskLock
<1>4. /\ After(x, t) /\ x.del = txn[t].del /\ x.pc = "write"
      /\ x.project \in Project /\ x.current \in TaskRow
  BY <1>2, <1>3 DEF After, TxnState, PC
<1> HIDE DEF x
<1> QED
  BY <1>1, <1>2, <1>4, ReadStep, RollbackStep

LEMMA UpdateTaskWriteStep ==
  ASSUME Inv, NEW t \in Txn, UpdateTaskWrite(t)
  PROVE  Inv'
<1> DEFINE r == txn[t].req
           row == PatchedRow(r, txn[t].current)
           updated == IF r.title = None /\ r.status = None THEN << >>
                      ELSE <<[type |-> "task.updated", task |-> r.task,
                              title |-> r.title, status |-> r.status]>>
           changed == [type |-> "task.dependencies_changed", task |-> r.task,
                       dependsOn |-> ToSet(r.deps)]
           both == Append(updated, changed)
           old == {e \in deps : e[1] = r.task}
           edges == [i \in DOMAIN r.deps |-> <<r.task, r.deps[i]>>]
           puts == [txn[t].puts EXCEPT ![r.task] = row]
           x == [Locked(t) EXCEPT !.puts = puts, !.out = updated]
           y == [Locked(t) EXCEPT !.puts = puts, !.del = old,
                                  !.pending = edges, !.out = both]
<1>1. /\ At(t, {"UpdateTask"}, "write")
      /\ \/ /\ r.deps = None
            /\ Go(t, Continue([[Locked(t) EXCEPT
                 !.puts = [@ EXCEPT ![r.task] = row]] EXCEPT !.out = updated]))
         \/ /\ r.deps # None
            /\ Go(t, Continue([[Locked(t) EXCEPT
                 !.puts = [@ EXCEPT ![r.task] = row]] EXCEPT
                 !.del = old, !.pending = edges, !.out = both]))
  BY DEF UpdateTaskWrite
<1>2. /\ txn[t] \in TxnState /\ txn[t].pc = "write"
      /\ r \in Request /\ r.kind = "UpdateTask" /\ OwnStatement(t)
      /\ txn[t].project \in Project /\ txn[t].current \in TaskRow
  <2> HIDE DEF row, updated, both, old, edges
  <2>1. /\ txn[t] \in TxnState /\ txn[t].pc = "write" /\ r \in Request
        /\ r.kind = "UpdateTask" /\ WaitsFor(t) = {} /\ RequestOK(txn[t])
    BY <1>1, AtFacts
  <2> QED
    BY <2>1 DEF OwnStatement, RequestOK
<1>3. /\ r.task \in Task /\ r.title \in Text \cup {None}
      /\ r.status \in Status \cup {None} /\ r.deps \in Seq(Task) \cup {None}
  BY <1>2, RequestFields
<1>4. old \subseteq Edge
  BY DEF Inv, TypeOK
<1>5. Needs(t) \in SUBSET Lock
  <2>1. Needs(t) = Locks(old, "update") \/ Needs(t) = {}
    BY <1>2 DEF Needs, TaskLock
  <2> QED
    BY <1>4, <2>1, LocksType DEF Row, Mode
<1>6. row \in TaskRow
  BY <1>2, <1>3 DEF TaskRow, PatchedRow, Patched
<1>7. puts \in [Task -> TaskRow \cup {None}]
  BY <1>2, <1>3, <1>6 DEF TxnState
<1>8. updated \in Seq(Body)
  <2>1. CASE r.title = None /\ r.status = None
    BY <2>1
  <2>2. CASE ~ (r.title = None /\ r.status = None)
    <3> DEFINE b == [type |-> "task.updated", task |-> r.task,
                     title |-> r.title, status |-> r.status]
    <3>1. b \in Body
      BY <1>3 DEF Body
    <3>2. <<b>> \in Seq(Body)
      BY <3>1
    <3> QED
      BY <2>2, <3>2
  <2> QED
    BY <2>1, <2>2
<1>9. /\ Locked(t) \in TxnState
      /\ Locked(t) = [txn[t] EXCEPT !.locks = txn[t].locks \cup Needs(t)]
  BY <1>2, <1>5, LockedFacts
<1>10. CASE r.deps = None
  <2> HIDE DEF updated, row, changed, both, old, edges
  <2>1. Go(t, Continue(x))
    BY <1>1, <1>2, <1>9, <1>10 DEF TxnState
  <2> HIDE DEF puts
  <2>2. /\ After(x, t) /\ x.project = txn[t].project /\ x.del = txn[t].del
        /\ x.pc = txn[t].pc /\ x.current = txn[t].current
    BY <1>2, <1>7, <1>8, <1>9 DEF After, TxnState
  <2> HIDE DEF x
  <2> QED
    BY <1>2, <2>1, <2>2, WriteStep
<1>11. CASE r.deps # None
  <2>1. r.deps \in Seq(Task)
    BY <1>3, <1>11
  <2>2. edges \in Seq(Edge)
    BY <1>3, <2>1, MapIsSeq DEF Edge
  <2>3. changed \in Body
    BY <1>3, <2>1, ToSetType DEF Body
  <2>4. both \in Seq(Body)
    BY <1>8, <2>3
  <2> HIDE DEF updated, row, changed, both, old, edges
  <2>5. Go(t, Continue(y))
    BY <1>1, <1>2, <1>9, <1>11 DEF TxnState
  <2> HIDE DEF puts
  <2>6. old \in SUBSET Row
    BY <1>4 DEF Row
  <2>7. /\ After(y, t) /\ y.project = txn[t].project /\ y.del = old
        /\ y.pc = txn[t].pc /\ y.current = txn[t].current
    BY <1>2, <1>7, <1>9, <2>2, <2>4, <2>6 DEF After, TxnState
  <2>8. \A p \in Project : p \notin old
    BY <1>4, OtherRows
  <2> HIDE DEF y
  <2> QED
    BY <1>2, <2>5, <2>7, <2>8, WriteStep
<1> QED
  BY <1>10, <1>11

-----------------------------------------------------------------------------
(* DeleteTask *)

\* The rows a deleted task takes with it are of the tables below projects.
LEMMA CascadeType ==
  ASSUME Inv, NEW k \in Task
  PROVE  /\ TaskCascade(k) \subseteq Task \cup Edge \cup Comment
         /\ TaskCascade(k) \in SUBSET Row
         /\ \A p \in Project : p \notin TaskCascade(k)
<1>1. TaskCascade(k) \subseteq Task \cup Edge \cup Comment
  BY DEF Inv, TypeOK, TaskCascade
<1>2. TaskCascade(k) \in SUBSET Row
  BY <1>1 DEF Row
<1>3. \A p \in Project : p \notin TaskCascade(k)
  BY <1>1, OtherRows
<1> QED
  BY <1>1, <1>2, <1>3

LEMMA DeleteTaskLockStep ==
  ASSUME Inv, NEW t \in Txn, DeleteTaskLock(t)
  PROVE  Inv'
<1> DEFINE k == txn[t].req.task
           project == tasks[k].project
           x == [Locked(t) EXCEPT !.project = project,
                                  !.read = Dependents(k), !.pc = "cascade"]
<1>1. /\ At(t, {"DeleteTask"}, "lock")
      /\ Rollback(t) \/ (tasks[k] # None /\ Go(t, x))
  BY DEF DeleteTaskLock
<1>2. /\ txn[t] \in TxnState /\ txn[t].pc = "lock"
      /\ txn[t].req \in Request /\ txn[t].req.kind = "DeleteTask"
      /\ OwnStatement(t)
  BY <1>1, AtFacts DEF OwnStatement
<1>3. k \in Task
  BY <1>2, RequestFields
<1>4. Needs(t) = Locks({k}, "update")
  BY <1>2 DEF Needs, TaskLock
<1>5. Needs(t) \in SUBSET Lock
  BY <1>3, <1>4, LocksType DEF Row, Mode
<1>6. Dependents(k) \subseteq Task
  BY DEF Inv, TypeOK, Dependents, Edge
<1>7. /\ Locked(t) \in TxnState
      /\ Locked(t) = [txn[t] EXCEPT !.locks = txn[t].locks \cup Needs(t)]
  BY <1>2, <1>5, LockedFacts
<1>8. CASE Rollback(t)
  BY <1>8, RollbackStep
<1>9. CASE tasks[k] # None /\ Go(t, x)
  <2>1. project \in Project
    BY <1>3, <1>9 DEF Inv, TypeOK, TaskRow
  <2> HIDE DEF project
  <2>2. /\ After(x, t) /\ x.del = txn[t].del /\ x.pc = "cascade"
        /\ x.project \in Project
    BY <1>2, <1>6, <1>7, <2>1 DEF After, TxnState, PC
  <2> HIDE DEF x
  <2> QED
    BY <1>2, <1>9, <2>2, ReadStep
<1> QED
  BY <1>1, <1>8, <1>9

LEMMA DeleteTaskCascadeStep ==
  ASSUME Inv, NEW t \in Txn, DeleteTaskCascade(t)
  PROVE  Inv'
<1> DEFINE k == txn[t].req.task
           body == [type |-> "task.deleted", task |-> k,
                    removedFromDependenciesOf |-> txn[t].read]
           out == <<body>>
           del == TaskCascade(k)
           x == [Locked(t) EXCEPT !.del = del, !.out = out]
<1>1. At(t, {"DeleteTask"}, "cascade") /\ Go(t, Continue(x))
  BY DEF DeleteTaskCascade
<1>2. /\ txn[t] \in TxnState /\ txn[t].pc = "cascade"
      /\ txn[t].req \in Request /\ txn[t].req.kind = "DeleteTask"
      /\ OwnStatement(t) /\ txn[t].project \in Project
  BY <1>1, AtFacts DEF OwnStatement, RequestOK
<1>3. k \in Task
  BY <1>2, RequestFields
<1>4. /\ del \in SUBSET Row
      /\ \A p \in Project : p \notin del
  BY <1>3, CascadeType
<1>5. Needs(t) = Locks(del, "update")
  BY <1>2 DEF Needs, TaskLock
<1>6. Needs(t) \in SUBSET Lock
  BY <1>4, <1>5, LocksType DEF Mode
<1>7. body \in Body
  BY <1>2, <1>3 DEF Body, TxnState
<1>8. out \in Seq(Body)
  BY <1>7
<1>9. /\ Locked(t) \in TxnState
      /\ Locked(t) = [txn[t] EXCEPT !.locks = txn[t].locks \cup Needs(t)]
  BY <1>2, <1>6, LockedFacts
<1> HIDE DEF body, out, del
<1>10. /\ After(x, t) /\ x.project = txn[t].project /\ x.del = del
       /\ x.pc = txn[t].pc /\ x.current = txn[t].current
  BY <1>2, <1>4, <1>8, <1>9 DEF After, TxnState
<1> HIDE DEF x
<1> QED
  BY <1>1, <1>2, <1>4, <1>10, WriteStep

-----------------------------------------------------------------------------
(* CreateTaskBatch *)

LEMMA BatchLockStep ==
  ASSUME Inv, NEW t \in Txn, BatchLock(t)
  PROVE  Inv'
<1> DEFINE k == txn[t].req.task
           project == tasks[k].project
           x == [Locked(t) EXCEPT !.project = project,
                                  !.read = DirectDeps(k),
                                  !.pc = "insertTask"]
<1>1. /\ At(t, {"CreateTaskBatch"}, "lock")
      /\ Rollback(t) \/ (tasks[k] # None /\ Go(t, x))
  BY DEF BatchLock
<1>2. /\ txn[t] \in TxnState /\ txn[t].pc = "lock"
      /\ txn[t].req \in Request /\ txn[t].req.kind = "CreateTaskBatch"
      /\ OwnStatement(t)
  BY <1>1, AtFacts DEF OwnStatement
<1>3. k \in Task
  BY <1>2, RequestFields
<1>4. Needs(t) = Locks({k}, "update")
  BY <1>2 DEF Needs, TaskLock
<1>5. Needs(t) \in SUBSET Lock
  BY <1>3, <1>4, LocksType DEF Row, Mode
<1>6. DirectDeps(k) \subseteq Task
  BY DEF Inv, TypeOK, DirectDeps, Edge
<1>7. /\ Locked(t) \in TxnState
      /\ Locked(t) = [txn[t] EXCEPT !.locks = txn[t].locks \cup Needs(t)]
  BY <1>2, <1>5, LockedFacts
<1>8. CASE Rollback(t)
  BY <1>8, RollbackStep
<1>9. CASE tasks[k] # None /\ Go(t, x)
  <2>1. project \in Project
    BY <1>3, <1>9 DEF Inv, TypeOK, TaskRow
  <2> HIDE DEF project
  <2>2. /\ After(x, t) /\ x.del = txn[t].del /\ x.pc = "insertTask"
        /\ x.project \in Project
    BY <1>2, <1>6, <1>7, <2>1 DEF After, TxnState, PC
  <2> HIDE DEF x
  <2> QED
    BY <1>2, <1>9, <2>2, ReadStep
<1> QED
  BY <1>1, <1>8, <1>9

\* The rows and edges of a batch's subtasks are those of new tasks.
LEMMA BatchTypes ==
  ASSUME NEW t \in Txn, txn[t] \in TxnState, txn[t].req \in Request,
         txn[t].req.kind = "CreateTaskBatch", RequestOK(txn[t]),
         txn[t].project \in Project, NEW i \in DOMAIN txn[t].fresh
  PROVE  /\ txn[t].fresh[i] \in Task
         /\ BatchRow(txn[t], i) \in TaskRow
         /\ BatchDeps(txn[t], i) \subseteq Task
<1> DEFINE n == Len(txn[t].fresh)
<1>1. /\ txn[t].fresh \in Seq(Task)
      /\ txn[t].req.subs \in Seq([title : Text, dependsOn : SUBSET Nat])
  BY RequestFields DEF TxnState
<1>2. /\ DOMAIN txn[t].fresh = 1..n
      /\ n = Len(txn[t].req.subs)
      /\ txn[t].req.subs[i] \in [title : Text, dependsOn : SUBSET Nat]
      /\ txn[t].req.subs[i].dependsOn \subseteq 1..n
  <2> DEFINE subs == txn[t].req.subs
  <2>1. /\ n = Len(subs)
        /\ \A j \in 1..Len(subs) : subs[j].dependsOn \subseteq 1..Len(subs)
    BY DEF RequestOK
  <2>2. DOMAIN txn[t].fresh = 1..n
    BY <1>1
  <2>3. subs \in Seq([title : Text, dependsOn : SUBSET Nat])
    BY <1>1
  <2> HIDE DEF subs, n
  <2>4. i \in 1..Len(subs)
    BY <2>1, <2>2
  <2>5. subs[i] \in [title : Text, dependsOn : SUBSET Nat]
    BY <2>3, <2>4, SeqElement
  <2>6. subs[i].dependsOn \subseteq 1..n
    BY <2>1, <2>4
  <2> QED
    BY <2>1, <2>2, <2>5, <2>6 DEF subs
<1>3. \A j \in 1..n : txn[t].fresh[j] \in Task
  BY <1>1
<1>4. BatchRow(txn[t], i) \in TaskRow
  BY <1>2, StatusAssumption DEF BatchRow, TaskRow
<1>5. BatchDeps(txn[t], i) \subseteq Task
  BY <1>2, <1>3 DEF BatchDeps
<1> QED
  BY <1>2, <1>3, <1>4, <1>5

LEMMA BatchInsertStep ==
  ASSUME Inv, NEW t \in Txn, BatchInsert(t)
  PROVE  Inv'
<1> DEFINE ids == txn[t].fresh
           puts == [k \in Task |->
                      IF k \in ToSet(ids)
                      THEN BatchRow(txn[t], CHOOSE i \in DOMAIN ids : ids[i] = k)
                      ELSE txn[t].puts[k]]
           edges == UNION {{ids[i]} \X BatchDeps(txn[t], i) : i \in DOMAIN ids}
           x == [Locked(t) EXCEPT !.puts = puts, !.addDeps = edges,
                                  !.pc = "validate"]
<1>1. /\ At(t, {"CreateTaskBatch"}, "insertTask")
      /\ Go(t, [Locked(t) EXCEPT
           !.puts = [k \in Task |->
                       IF k \in ToSet(ids)
                       THEN BatchRow(txn[t], CHOOSE i \in DOMAIN ids : ids[i] = k)
                       ELSE @[k]],
           !.addDeps = edges, !.pc = "validate"])
  BY DEF BatchInsert
<1>2. /\ txn[t] \in TxnState /\ txn[t].pc = "insertTask"
      /\ txn[t].req \in Request /\ txn[t].req.kind = "CreateTaskBatch"
      /\ OwnStatement(t) /\ RequestOK(txn[t]) /\ txn[t].project \in Project
  BY <1>1, AtFacts DEF OwnStatement, ShapeOK
<1>3. Needs(t) = Locks({txn[t].project}, "keyShare")
  BY <1>2 DEF Needs, TaskLock
<1>4. Needs(t) \in SUBSET Lock
  BY <1>2, <1>3, LocksType DEF Row, Mode
<1>5. puts \in [Task -> TaskRow \cup {None}]
  <2> SUFFICES ASSUME NEW k \in Task
               PROVE  puts[k] \in TaskRow \cup {None}
    OBVIOUS
  <2>1. CASE k \in ToSet(ids)
    <3>1. PICK i \in DOMAIN ids : ids[i] = k
      BY <2>1 DEF ToSet
    <3>2. (CHOOSE j \in DOMAIN ids : ids[j] = k) \in DOMAIN ids
      BY <3>1
    <3>3. BatchRow(txn[t], CHOOSE j \in DOMAIN ids : ids[j] = k) \in TaskRow
      BY <1>2, <3>2, BatchTypes
    <3> QED
      BY <2>1, <3>3
  <2>2. CASE k \notin ToSet(ids)
    BY <1>2, <2>2 DEF TxnState
  <2> QED
    BY <2>1, <2>2
<1>6. edges \subseteq Edge
  <2>1. \A i \in DOMAIN ids : ids[i] \in Task /\ BatchDeps(txn[t], i) \subseteq Task
    BY <1>2, BatchTypes
  <2> QED
    BY <2>1 DEF Edge
<1>7. /\ Locked(t) \in TxnState
      /\ Locked(t) = [txn[t] EXCEPT !.locks = txn[t].locks \cup Needs(t)]
  BY <1>2, <1>4, LockedFacts
<1>8. Go(t, x)
  <2>1. Locked(t).puts = txn[t].puts
    BY <1>2, <1>7 DEF TxnState
  <2> HIDE DEF edges, ids
  <2> QED
    BY <1>1, <2>1
<1> HIDE DEF puts, edges
<1>9. /\ After(x, t) /\ x.del = txn[t].del /\ x.pc = "validate"
      /\ x.project \in Project
  BY <1>2, <1>5, <1>6, <1>7 DEF After, TxnState, PC
<1> HIDE DEF x
<1> QED
  BY <1>2, <1>8, <1>9, ReadStep

\* A finite set is listed by SetToSeq.
LEMMA SetToSeqType ==
  ASSUME NEW S, IsFiniteSet(S)
  PROVE  SetToSeq(S) \in Seq(S)
<1> DEFINE n == Cardinality(S)
<1>1. n \in Nat /\ ExistsBijection(1..n, S)
  BY FS_CardinalityType
<1>2. PICK f \in Bijection(1..n, S) : TRUE
  BY <1>1 DEF ExistsBijection
<1>3. f \in [1..n -> S] /\ IsInjective(f)
  BY <1>2 DEF Bijection, Injection, IsInjective
<1>4. SetToSeq(S) \in [1..n -> S]
  BY <1>3 DEF SetToSeq
<1> QED
  BY <1>1, <1>4

LEMMA BatchValidateStep ==
  ASSUME Inv, NEW t \in Txn, BatchValidate(t)
  PROVE  Inv'
<1> DEFINE r == txn[t].req
           ids == txn[t].fresh
           last == SetToSeq(Terminals(r.subs))
           added == [i \in DOMAIN last |-> <<r.task, ids[last[i]]>>]
           list == txn[t].read \cup {ids[last[i]] : i \in DOMAIN last}
           created == [i \in DOMAIN ids |->
                         [type |-> "task.created", task |-> ids[i],
                          row |-> BatchRow(txn[t], i), deps |-> BatchDeps(txn[t], i)]]
           changed == [type |-> "task.dependencies_changed",
                       task |-> r.task, dependsOn |-> list]
           out == BatchEvents(created, changed)
           x == [txn[t] EXCEPT !.pending = added, !.out = out]
<1>1. /\ At(t, {"CreateTaskBatch"}, "validate")
      /\ Rollback(t) \/ Go(t, Continue(x))
  BY DEF BatchValidate
<1>2. /\ txn[t] \in TxnState /\ txn[t].pc = "validate"
      /\ r \in Request /\ r.kind = "CreateTaskBatch"
      /\ OwnStatement(t) /\ RequestOK(txn[t]) /\ txn[t].project \in Project
      /\ Len(ids) = Len(r.subs)
  <2>1. /\ txn[t] \in TxnState /\ txn[t].pc = "validate"
        /\ r \in Request /\ r.kind = "CreateTaskBatch"
        /\ OwnStatement(t) /\ RequestOK(txn[t])
    <3> HIDE DEF x
    <3> QED
      BY <1>1, AtFacts DEF OwnStatement
  <2>2. txn[t].project \in Project
    BY <2>1 DEF RequestOK
  <2>3. Len(ids) = Len(r.subs)
    BY <2>1 DEF RequestOK
  <2> QED
    BY <2>1, <2>2, <2>3
<1>3. r.task \in Task /\ r.subs \in Seq([title : Text, dependsOn : SUBSET Nat])
  BY <1>2, RequestFields
<1>4. ids \in Seq(Task) /\ DOMAIN ids = 1..Len(ids) /\ Len(ids) \in Nat
  BY <1>2 DEF TxnState
<1>5. last \in Seq(1..Len(ids))
  <2>1. Terminals(r.subs) \in SUBSET (1..Len(ids))
    BY <1>2 DEF Terminals
  <2>2. IsFiniteSet(1..Len(ids))
    BY <1>4, FS_Interval
  <2>3. IsFiniteSet(Terminals(r.subs))
    BY <2>1, <2>2, FS_Subset
  <2>4. last \in Seq(Terminals(r.subs))
    BY <2>3, SetToSeqType
  <2> HIDE DEF last, ids
  <2> QED
    BY <2>1, <2>4
<1>6. \A i \in DOMAIN last : ids[last[i]] \in Task
  <2> HIDE DEF last, ids
  <2> QED
    BY <1>4, <1>5
<1>7. added \in Seq(Edge)
  <2> HIDE DEF last
  <2>1. \A i \in DOMAIN last : added[i] \in Edge
    BY <1>3, <1>6 DEF Edge
  <2> QED
    BY <1>5, <2>1, MapIsSeq
<1>8. created \in Seq(Body)
  <2>1. ASSUME NEW i \in DOMAIN ids PROVE created[i] \in Body
    <3>1. /\ ids[i] \in Task /\ BatchRow(txn[t], i) \in TaskRow
          /\ BatchDeps(txn[t], i) \subseteq Task
      BY <1>2, BatchTypes
    <3> QED
      BY <3>1 DEF Body
  <2> QED
    BY <1>4, <2>1, MapIsSeq
<1>9. changed \in Body
  <2>1. list \subseteq Task
    BY <1>2, <1>6 DEF TxnState
  <2> HIDE DEF list
  <2> QED
    BY <1>3, <2>1 DEF Body
<1>10. out \in Seq(Body)
  <2> HIDE DEF created, changed
  <2> QED
    BY <1>8, <1>9 DEF BatchEvents
<1>11. Needs(t) = {}
  BY <1>2 DEF Needs, TaskLock
<1> HIDE DEF added, out
<1>12. /\ After(x, t) /\ x.project = txn[t].project /\ x.del = txn[t].del
       /\ x.pc = txn[t].pc /\ x.current = txn[t].current
  BY <1>2, <1>7, <1>10, <1>11 DEF After, TxnState
<1> HIDE DEF x
<1>13. CASE Rollback(t)
  BY <1>13, RollbackStep
<1>14. CASE Go(t, Continue(x))
  BY <1>2, <1>12, <1>14, WriteStep
<1> QED
  BY <1>1, <1>13, <1>14

-----------------------------------------------------------------------------
(* CreateComment, DeleteComment *)

LEMMA CreateCommentResolveStep ==
  ASSUME Inv, NEW t \in Txn, CreateCommentResolve(t)
  PROVE  Inv'
<1> DEFINE k == txn[t].req.task
           project == tasks[k].project
           x == [txn[t] EXCEPT !.project = project, !.pc = "insertComment"]
<1>1. /\ At(t, {"CreateComment"}, "resolve")
      /\ Rollback(t) \/ (tasks[k] # None /\ Go(t, x))
  BY DEF CreateCommentResolve
<1>2. /\ txn[t] \in TxnState /\ txn[t].pc = "resolve"
      /\ txn[t].req \in Request /\ txn[t].req.kind = "CreateComment"
      /\ OwnStatement(t)
  BY <1>1, AtFacts DEF OwnStatement
<1>3. k \in Task
  BY <1>2, RequestFields
<1>4. Needs(t) = {}
  BY <1>2 DEF Needs, TaskLock
<1>5. CASE Rollback(t)
  BY <1>5, RollbackStep
<1>6. CASE tasks[k] # None /\ Go(t, x)
  <2>1. project \in Project
    BY <1>3, <1>6 DEF Inv, TypeOK, TaskRow
  <2> HIDE DEF project
  <2>2. /\ After(x, t) /\ x.del = txn[t].del /\ x.pc = "insertComment"
        /\ x.project \in Project
    BY <1>2, <1>4, <2>1 DEF After, TxnState, PC
  <2> HIDE DEF x
  <2> QED
    BY <1>2, <1>6, <2>2, ReadStep
<1> QED
  BY <1>1, <1>5, <1>6

LEMMA CreateCommentInsertStep ==
  ASSUME Inv, NEW t \in Txn, CreateCommentInsert(t)
  PROVE  Inv'
<1> DEFINE k == txn[t].req.task
           body == [type |-> "comment.added", comment |-> txn[t].comment,
                    task |-> k]
           out == <<body>>
           x == [Locked(t) EXCEPT !.out = out]
<1>1. /\ At(t, {"CreateComment"}, "insertComment")
      /\ Rollback(t) \/ Go(t, Continue(x))
  BY DEF CreateCommentInsert
<1>2. /\ txn[t] \in TxnState /\ txn[t].pc = "insertComment"
      /\ txn[t].req \in Request /\ txn[t].req.kind = "CreateComment"
      /\ OwnStatement(t) /\ txn[t].project \in Project
      /\ txn[t].comment \in Comment
  BY <1>1, AtFacts DEF OwnStatement, RequestOK, ShapeOK
<1>3. k \in Task
  BY <1>2, RequestFields
<1>4. Needs(t) = Locks({k}, "keyShare")
  BY <1>2 DEF Needs, TaskLock
<1>5. Needs(t) \in SUBSET Lock
  BY <1>3, <1>4, LocksType DEF Row, Mode
<1>6. body \in Body
  BY <1>2, <1>3 DEF Body
<1>7. out \in Seq(Body)
  BY <1>6
<1>8. /\ Locked(t) \in TxnState
      /\ Locked(t) = [txn[t] EXCEPT !.locks = txn[t].locks \cup Needs(t)]
  BY <1>2, <1>5, LockedFacts
<1> HIDE DEF body, out
<1>9. /\ After(x, t) /\ x.project = txn[t].project /\ x.del = txn[t].del
      /\ x.pc = txn[t].pc /\ x.current = txn[t].current
  BY <1>2, <1>7, <1>8 DEF After, TxnState
<1> HIDE DEF x
<1>10. CASE Rollback(t)
  BY <1>10, RollbackStep
<1>11. CASE Go(t, Continue(x))
  BY <1>2, <1>9, <1>11, WriteStep
<1> QED
  BY <1>1, <1>10, <1>11

LEMMA DeleteCommentResolveStep ==
  ASSUME Inv, NEW t \in Txn, DeleteCommentResolve(t)
  PROVE  Inv'
<1> DEFINE c == txn[t].req.comment
           k == comments[c]
           project == tasks[k].project
           body == [type |-> "comment.deleted", comment |-> c, task |-> k]
           out == <<body>>
           x == [txn[t] EXCEPT !.project = project, !.out = out,
                               !.pc = "deleteComment"]
<1>1. /\ At(t, {"DeleteComment"}, "resolve")
      /\ Rollback(t) \/ (k # None /\ tasks[k] # None /\ Go(t, x))
  BY DEF DeleteCommentResolve
<1>2. /\ txn[t] \in TxnState /\ txn[t].pc = "resolve"
      /\ txn[t].req \in Request /\ txn[t].req.kind = "DeleteComment"
      /\ OwnStatement(t)
  BY <1>1, AtFacts DEF OwnStatement
<1>3. c \in Comment
  BY <1>2, RequestFields
<1>4. Needs(t) = {}
  BY <1>2 DEF Needs, TaskLock
<1>5. CASE Rollback(t)
  BY <1>5, RollbackStep
<1>6. CASE k # None /\ tasks[k] # None /\ Go(t, x)
  <2>1. k \in Task
    BY <1>3, <1>6 DEF Inv, TypeOK
  <2>2. project \in Project
    BY <1>6, <2>1 DEF Inv, TypeOK, TaskRow
  <2>3. body \in Body
    BY <1>3, <2>1 DEF Body
  <2>4. out \in Seq(Body)
    BY <2>3
  <2> HIDE DEF project, body, out
  <2>5. /\ After(x, t) /\ x.del = txn[t].del /\ x.pc = "deleteComment"
        /\ x.project \in Project
    BY <1>2, <1>4, <2>2, <2>4 DEF After, TxnState, PC
  <2> HIDE DEF x
  <2> QED
    BY <1>2, <1>6, <2>5, ReadStep
<1> QED
  BY <1>1, <1>5, <1>6

LEMMA DeleteCommentRowStep ==
  ASSUME Inv, NEW t \in Txn, DeleteCommentRow(t)
  PROVE  Inv'
<1> DEFINE c == txn[t].req.comment
           x == [Locked(t) EXCEPT !.del = {c}]
<1>1. At(t, {"DeleteComment"}, "deleteComment") /\ Go(t, Continue(x))
  BY DEF DeleteCommentRow
<1>2. /\ txn[t] \in TxnState /\ txn[t].pc = "deleteComment"
      /\ txn[t].req \in Request /\ txn[t].req.kind = "DeleteComment"
      /\ OwnStatement(t) /\ txn[t].project \in Project
  BY <1>1, AtFacts DEF OwnStatement, ShapeOK
<1>3. c \in Comment
  BY <1>2, RequestFields
<1>4. Needs(t) = Locks({d \in {c} : comments[d] # None}, "update")
  BY <1>2 DEF Needs, TaskLock
<1>5. {d \in {c} : comments[d] # None} \in SUBSET Row
  BY <1>3 DEF Row
<1>6. Needs(t) \in SUBSET Lock
  BY <1>4, <1>5, LocksType DEF Mode
<1>7. /\ Locked(t) \in TxnState
      /\ Locked(t) = [txn[t] EXCEPT !.locks = txn[t].locks \cup Needs(t)]
  BY <1>2, <1>6, LockedFacts
<1>8. c \notin Project /\ c \in Row
  BY <1>3, OtherRows
<1>9. /\ After(x, t) /\ x.project = txn[t].project /\ x.del = {c}
      /\ x.pc = txn[t].pc /\ x.current = txn[t].current
  BY <1>2, <1>7, <1>8 DEF After, TxnState
<1> HIDE DEF x
<1> QED
  BY <1>1, <1>2, <1>8, <1>9, WriteStep

-----------------------------------------------------------------------------
(* UpdateProject, DeleteProject *)

LEMMA UpdateProjectLockStep ==
  ASSUME Inv, NEW t \in Txn, UpdateProjectLock(t)
  PROVE  Inv'
<1> DEFINE r == txn[t].req
           body == [type |-> "project.updated", name |-> r.name]
           out == IF r.name = None THEN << >> ELSE <<body>>
           x == [Locked(t) EXCEPT !.project = r.project, !.out = out]
<1>1. /\ At(t, {"UpdateProject"}, "lockProject")
      /\ Rollback(t) \/ Go(t, Continue(x))
  BY DEF UpdateProjectLock
<1>2. /\ txn[t] \in TxnState /\ txn[t].pc = "lockProject"
      /\ r \in Request /\ r.kind = "UpdateProject" /\ OwnStatement(t)
  BY <1>1, AtFacts DEF OwnStatement
<1>3. r.project \in Project /\ r.name \in Text \cup {None}
  BY <1>2, RequestFields
<1>4. Needs(t) = Locks({r.project}, "update")
  BY <1>2 DEF Needs, TaskLock
<1>5. Needs(t) \in SUBSET Lock
  BY <1>3, <1>4, LocksType DEF Row, Mode
<1>6. out \in Seq(Body) /\ (out # << >> => r.name \in Text)
  <2>1. CASE r.name = None
    BY <2>1
  <2>2. CASE r.name # None
    <3>1. body \in Body
      BY <1>3, <2>2 DEF Body
    <3>2. <<body>> \in Seq(Body)
      BY <3>1
    <3> QED
      BY <1>3, <2>2, <3>2
  <2> QED
    BY <2>1, <2>2
<1>7. /\ Locked(t) \in TxnState
      /\ Locked(t) = [txn[t] EXCEPT !.locks = txn[t].locks \cup Needs(t)]
  BY <1>2, <1>5, LockedFacts
<1> HIDE DEF out
<1>8. /\ After(x, t) /\ x.project \in Project /\ x.del = txn[t].del
      /\ x.pc = txn[t].pc /\ x.current = txn[t].current /\ x.out = out
      /\ x.req = r
  BY <1>2, <1>3, <1>6, <1>7 DEF After, TxnState
<1> HIDE DEF x
<1>9. CASE Rollback(t)
  BY <1>9, RollbackStep
<1>10. CASE Go(t, Continue(x))
  BY <1>2, <1>6, <1>8, <1>10, WriteStep
<1> QED
  BY <1>1, <1>9, <1>10

LEMMA DeleteProjectLockStep ==
  ASSUME Inv, NEW t \in Txn, DeleteProjectLock(t)
  PROVE  Inv'
<1> DEFINE p == txn[t].req.project
           x == [Locked(t) EXCEPT !.pc = "cascade"]
<1>1. /\ At(t, {"DeleteProject"}, "lockProject")
      /\ Rollback(t) \/ Go(t, x)
  BY DEF DeleteProjectLock
<1>2. /\ txn[t] \in TxnState /\ txn[t].pc = "lockProject"
      /\ txn[t].req \in Request /\ txn[t].req.kind = "DeleteProject"
      /\ OwnStatement(t)
  BY <1>1, AtFacts DEF OwnStatement
<1>3. p \in Project
  BY <1>2, RequestFields
<1>4. Needs(t) = Locks({p}, "update")
  BY <1>2 DEF Needs, TaskLock
<1>5. Needs(t) \in SUBSET Lock
  BY <1>3, <1>4, LocksType DEF Row, Mode
<1>6. /\ Locked(t) \in TxnState
      /\ Locked(t) = [txn[t] EXCEPT !.locks = txn[t].locks \cup Needs(t)]
  BY <1>2, <1>5, LockedFacts
<1>7. /\ After(x, t) /\ x.del = txn[t].del /\ x.pc = "cascade"
      /\ x.pending = txn[t].pending /\ x.out = txn[t].out
  <2>1. x \in TxnState
    BY <1>6 DEF TxnState, PC
  <2>2. /\ x.req = txn[t].req /\ x.fresh = txn[t].fresh
        /\ x.comment = txn[t].comment /\ x.lastSeq = txn[t].lastSeq
        /\ x.evs = txn[t].evs /\ x.locks = txn[t].locks \cup Needs(t)
        /\ x.del = txn[t].del /\ x.pc = "cascade"
        /\ x.pending = txn[t].pending /\ x.out = txn[t].out
    BY <1>2, <1>6 DEF TxnState
  <2> QED
    BY <2>1, <2>2 DEF After
<1> HIDE DEF x
<1>8. CASE Rollback(t)
  BY <1>8, RollbackStep
<1>9. CASE Go(t, x)
  BY <1>2, <1>7, <1>9, ReadStep
<1> QED
  BY <1>1, <1>8, <1>9

LEMMA DeleteProjectCascadeStep ==
  ASSUME Inv, NEW t \in Txn, DeleteProjectCascade(t)
  PROVE  Inv'
<1> DEFINE p == txn[t].req.project
           del == {p} \cup ProjectCascade(p)
           x == [Locked(t) EXCEPT !.del = del]
<1>1. At(t, {"DeleteProject"}, "cascade") /\ Go(t, Continue(x))
  BY DEF DeleteProjectCascade
<1>2. /\ txn[t] \in TxnState /\ txn[t].pc = "cascade"
      /\ txn[t].req \in Request /\ txn[t].req.kind = "DeleteProject"
      /\ OwnStatement(t) /\ txn[t].pending = << >> /\ txn[t].out = << >>
  BY <1>1, AtFacts DEF OwnStatement, RequestOK
<1>3. p \in Project
  BY <1>2, RequestFields
<1>4. del \in SUBSET Row /\ \A q \in Project : q \in del => q = p
  <2>1. \A k \in Task : /\ TaskCascade(k) \in SUBSET Row
                        /\ \A q \in Project : q \notin TaskCascade(k)
    BY CascadeType
  <2>2. \A w \in ProjectCascade(p) : w \in Row /\ w \notin Project
    BY <2>1 DEF ProjectCascade, TasksOf
  <2>3. p \in Row
    BY <1>3 DEF Row
  <2> QED
    BY <2>2, <2>3
<1>5. Needs(t) = Locks(del, "update")
  BY <1>2 DEF Needs, TaskLock
<1>6. Needs(t) \in SUBSET Lock
  BY <1>4, <1>5, LocksType DEF Mode
<1>7. [row |-> p, mode |-> "update"] \in Needs(t)
  BY <1>5 DEF Locks
<1>8. /\ Locked(t) \in TxnState
      /\ Locked(t) = [txn[t] EXCEPT !.locks = txn[t].locks \cup Needs(t)]
  BY <1>2, <1>6, LockedFacts
<1> HIDE DEF del
<1>9. /\ After(x, t) /\ x.project = txn[t].project /\ x.del = del
      /\ x.pc = txn[t].pc /\ x.current = txn[t].current
      /\ x.pending = << >> /\ x.out = << >>
  BY <1>2, <1>4, <1>8 DEF After, TxnState
<1> HIDE DEF x
<1>10. \A q \in Project : q \in x.del =>
         q = txn[t].req.project /\ [row |-> q, mode |-> "update"] \in Needs(t)
  BY <1>4, <1>7, <1>9
<1> QED
  BY <1>1, <1>2, <1>9, <1>10, WriteStep

-----------------------------------------------------------------------------
(* The statements every operation shares. *)

LEMMA InsertDependencyStep ==
  ASSUME Inv, NEW t \in Txn, InsertDependency(t)
  PROVE  Inv'
<1> DEFINE e == Head(txn[t].pending)
           ends == {e[1], e[2]}
           add == txn[t].addDeps \cup {e}
           rest == Tail(txn[t].pending)
           x == [Locked(t) EXCEPT !.addDeps = add, !.pending = rest]
<1>1. /\ At(t, Kinds, "insertDeps")
      /\ \/ Rollback(t)
         \/ Go(t, Continue([Locked(t) EXCEPT !.addDeps = @ \cup {e},
                                             !.pending = Tail(@)]))
  BY DEF InsertDependency
<1>2. /\ txn[t] \in TxnState /\ txn[t].pc = "insertDeps"
      /\ OwnStatement(t) /\ RequestOK(txn[t]) /\ ShapeOK(txn[t])
  BY <1>1, AtFacts DEF OwnStatement
<1>3. txn[t].pending \in Seq(Edge) /\ txn[t].pending # << >>
  BY <1>2 DEF ShapeOK, TxnState
<1>4. e \in Edge /\ rest \in Seq(Edge)
  BY <1>3
<1>5. ends \subseteq Task
  BY <1>4 DEF Edge
<1>6. Needs(t) = Locks(ends, "keyShare")
  BY <1>2 DEF Needs, TaskLock
<1>7. Needs(t) \in SUBSET Lock
  BY <1>5, <1>6, LocksType DEF Row, Mode
<1>8. /\ Locked(t) \in TxnState
      /\ Locked(t) = [txn[t] EXCEPT !.locks = txn[t].locks \cup Needs(t)]
  BY <1>2, <1>7, LockedFacts
<1>9. Rollback(t) \/ Go(t, Continue(x))
  <2>1. /\ Locked(t).addDeps = txn[t].addDeps
        /\ Locked(t).pending = txn[t].pending
    BY <1>2, <1>8 DEF TxnState
  <2> QED
    BY <1>1, <2>1
<1>10. add \subseteq Edge
  BY <1>2, <1>4 DEF TxnState
<1>11. /\ txn[t].project \in Project
       /\ txn[t].req.kind # "DeleteProject"
       /\ txn[t].req.kind = "UpdateProject" /\ txn[t].out # << >> =>
            txn[t].req.name \in Text
  <2>1. txn[t].project \in Project
    BY <1>2 DEF ShapeOK
  <2>2. /\ txn[t].req.kind # "DeleteProject"
        /\ txn[t].req.kind = "UpdateProject" /\ txn[t].out # << >> =>
             txn[t].req.name \in Text
    BY <1>2, <1>3 DEF RequestOK
  <2> QED
    BY <2>1, <2>2
<1> HIDE DEF e, add, rest
<1>12. /\ After(x, t) /\ x.project = txn[t].project /\ x.del = txn[t].del
       /\ x.pc = txn[t].pc /\ x.current = txn[t].current
       /\ x.out = txn[t].out /\ x.req = txn[t].req
  <2>1. x \in TxnState
    BY <1>4, <1>8, <1>10 DEF TxnState
  <2>2. /\ x.req = txn[t].req /\ x.fresh = txn[t].fresh
        /\ x.comment = txn[t].comment /\ x.lastSeq = txn[t].lastSeq
        /\ x.evs = txn[t].evs /\ x.locks = txn[t].locks \cup Needs(t)
        /\ x.project = txn[t].project /\ x.del = txn[t].del
        /\ x.pc = txn[t].pc /\ x.current = txn[t].current
        /\ x.out = txn[t].out
    BY <1>4, <1>8 DEF TxnState
  <2> QED
    BY <2>1, <2>2 DEF After
<1> HIDE DEF x
<1>13. CASE Rollback(t)
  BY <1>13, RollbackStep
<1>14. CASE Go(t, Continue(x))
  BY <1>2, <1>11, <1>12, <1>14, WriteStep
<1> QED
  BY <1>9, <1>13, <1>14

\* Claiming the next seq: the project row is locked, so what follows the
\* transaction's own last_seq, or the committed one, is free.
LEMMA RecordEventStep ==
  ASSUME Inv, NEW t \in Txn, RecordEvent(t)
  PROVE  Inv'
<1> DEFINE p == txn[t].project
           last == txn[t].lastSeq
           seq == 1 + IF last = 0 THEN projects[p].lastSeq ELSE last
           body == Head(txn[t].out)
           e == [project |-> p, seq |-> seq, body |-> body]
           evs == txn[t].evs \cup {e}
           rest == Tail(txn[t].out)
           x == [Locked(t) EXCEPT !.lastSeq = seq, !.evs = evs, !.out = rest]
<1>1. /\ At(t, Kinds, "record")
      /\ \/ Rollback(t)
         \/ /\ projects[p] # None
            /\ Go(t, Continue([Locked(t) EXCEPT
                 !.lastSeq = seq, !.evs = @ \cup {e}, !.out = Tail(@)]))
  BY DEF RecordEvent
<1>2. /\ txn[t] \in TxnState /\ txn[t].pc = "record" /\ txn[t].req \in Request
      /\ WaitsFor(t) = {} /\ RequestOK(txn[t]) /\ ShapeOK(txn[t])
      /\ ClaimsOK(txn[t])
  BY <1>1, AtFacts
<1>3. /\ p \in Project /\ txn[t].out \in Seq(Body) /\ txn[t].out # << >>
      /\ txn[t].pending = << >> /\ last \in Nat /\ txn[t].req # None
      /\ txn[t].comment # None => txn[t].req.kind = "CreateComment"
      /\ txn[t].evs \subseteq Event
  BY <1>2 DEF ShapeOK, TxnState
<1>4. Needs(t) = Locks({p}, "noKeyUpdate")
  BY <1>2 DEF Needs, TaskLock
<1>5. Needs(t) \in SUBSET Lock
  BY <1>3, <1>4, LocksType DEF Row, Mode
<1>6. /\ Locked(t) \in TxnState
      /\ Locked(t) = [txn[t] EXCEPT !.locks = txn[t].locks \cup Needs(t)]
  BY <1>2, <1>5, LockedFacts
<1>7. CASE Rollback(t)
  BY <1>7, RollbackStep
<1>8. CASE projects[p] # None /\ Go(t, Continue([Locked(t) EXCEPT
             !.lastSeq = seq, !.evs = @ \cup {e}, !.out = Tail(@)]))
  <2> DEFINE base == projects[p].lastSeq
  <2>1. Go(t, Continue(x))
    <3>1. Locked(t).evs = txn[t].evs /\ Locked(t).out = txn[t].out
      BY <1>2, <1>6 DEF TxnState
    <3> QED
      BY <1>8, <3>1
  <2>2. base \in Nat
    BY <1>3, <1>8 DEF Inv, TypeOK, ProjectRow
  <2>3. body \in Body /\ rest \in Seq(Body)
    BY <1>3
  <2>4. /\ seq \in Nat /\ seq > 0
        /\ last = 0 => seq = base + 1
        /\ last # 0 => seq = last + 1
    <3> HIDE DEF last, base
    <3>1. CASE last = 0
      BY <2>2, <3>1 DEF base
    <3>2. CASE last # 0
      BY <1>3, <3>2
    <3> QED
      BY <3>1, <3>2
  <2>5. e \in Event /\ evs \subseteq Event
    BY <1>3, <2>3, <2>4 DEF Event
  <2> HIDE DEF seq, evs, rest, body
  <2>6. /\ x \in TxnState
        /\ x.req = txn[t].req /\ x.fresh = txn[t].fresh
        /\ x.comment = txn[t].comment /\ x.project = p
        /\ x.current = txn[t].current
        /\ x.pending = << >> /\ x.del = txn[t].del /\ x.pc = "record"
        /\ x.lastSeq = seq /\ x.evs = evs /\ x.out = rest
        /\ x.locks = txn[t].locks \cup Needs(t)
    BY <1>2, <1>3, <1>6, <2>3, <2>4, <2>5 DEF TxnState
  <2> HIDE DEF x
  <2>7. Holds(x, p, {"noKeyUpdate", "update"})
    <3> DEFINE l == [row |-> p, mode |-> "noKeyUpdate"]
    <3>1. l \in Needs(t)
      BY <1>4 DEF Locks
    <3>2. l.row = p /\ l.mode = "noKeyUpdate"
      OBVIOUS
    <3> QED
      BY <2>6, <3>1, <3>2 DEF Holds
  <2>8. /\ base < seq
        /\ \A f \in evs : f.project = p /\ f.seq \in (base + 1)..seq
        /\ \A i \in (base + 1)..seq : \E f \in evs : f.seq = i
        /\ \A f, g \in evs : f.seq = g.seq => f = g
    <3>1. e.project = p /\ e.seq = seq
      OBVIOUS
    <3> HIDE DEF e
    <3>2. CASE last = 0
      <4>1. evs = {e} /\ seq = base + 1
        BY <1>2, <2>4, <3>2 DEF ClaimsOK, evs
      <4> QED
        BY <2>2, <3>1, <4>1
    <3>3. CASE last # 0
      <4>1. /\ seq = last + 1 /\ last > 0 /\ base < last
            /\ \A f \in txn[t].evs : f.project = p /\ f.seq \in (base + 1)..last
            /\ \A i \in (base + 1)..last : \E f \in txn[t].evs : f.seq = i
            /\ \A f, g \in txn[t].evs : f.seq = g.seq => f = g
        BY <1>2, <1>3, <2>4, <3>3 DEF ClaimsOK
      <4>2. \A f \in evs : f = e \/ f \in txn[t].evs
        BY DEF evs
      <4>3. \A f \in txn[t].evs : f.seq # seq
        BY <1>3, <2>2, <4>1
      <4>4. \A f \in evs : f.project = p /\ f.seq \in (base + 1)..seq
        BY <1>3, <2>2, <3>1, <4>1, <4>2
      <4>5. \A i \in (base + 1)..seq : \E f \in evs : f.seq = i
        <5> SUFFICES ASSUME NEW i \in (base + 1)..seq
                     PROVE  \E f \in evs : f.seq = i
          OBVIOUS
        <5>1. CASE i = seq
          BY <3>1, <5>1 DEF evs
        <5>2. CASE i # seq
          <6>1. i \in (base + 1)..last
            BY <1>3, <2>2, <4>1, <5>2
          <6> QED
            BY <4>1, <6>1 DEF evs
        <5> QED
          BY <5>1, <5>2
      <4>6. \A f, g \in evs : f.seq = g.seq => f = g
        BY <3>1, <4>1, <4>2, <4>3
      <4> QED
        BY <1>3, <2>2, <4>1, <4>4, <4>5, <4>6
    <3> QED
      BY <3>2, <3>3
  <2>9. txn[t].req.kind # "DeleteProject"
    BY <1>2, <1>3 DEF RequestOK
  <2>10. \A q \in Project : q \notin x.del
    BY <1>2, <2>6, <2>9 DEF ClaimsOK
  <2>11. ClaimsOK(x)
    BY <1>3, <1>8, <2>4, <2>6, <2>7, <2>8, <2>10 DEF ClaimsOK
  <2>12. RequestOK(x)
    BY <1>2, <1>3, <2>6, <2>9 DEF RequestOK
  <2> QED
    BY <1>2, <1>3, <2>1, <2>6, <2>11, <2>12, ContinueStep
<1> QED
  BY <1>1, <1>7, <1>8

\* A transaction that fails, or is the victim of a deadlock, rolls back.
LEMMA FailStep ==
  ASSUME Inv, NEW t \in Txn, Fail(t) \/ DeadlockVictim(t)
  PROVE  Inv'
BY RollbackStep DEF Fail, DeadlockVictim

-----------------------------------------------------------------------------
(* Commit *)

\* What a commit does to the row of a project: nothing, unless the
\* transaction holds it; and a project it appends to gets its last seq.
LEMMA CommitProjects ==
  ASSUME Inv, NEW t \in Txn, Commit(t), NEW p \in Project
  PROVE  /\ p \in txn[t].del =>
              projects'[p] = None /\ Holds(txn[t], p, {"update"})
         /\ p \notin txn[t].del /\ txn[t].lastSeq > 0 /\ p = txn[t].project =>
              /\ projects'[p] \in ProjectRow
              /\ projects'[p].lastSeq = txn[t].lastSeq
              /\ projects[p] # None
              /\ Holds(txn[t], p, {"noKeyUpdate", "update"})
         /\ p \notin txn[t].del /\ ~ (txn[t].lastSeq > 0 /\ p = txn[t].project) =>
              projects'[p] = projects[p]
<1>1. /\ txn[t] \in TxnState /\ txn[t].req \in Request
      /\ RequestOK(txn[t]) /\ ClaimsOK(txn[t])
  BY AtFacts DEF Commit
<1>2. projects'[p] = ProjectAfter(t, p)
  BY DEF Commit
<1>3. CASE p \in txn[t].del
  <2>1. projects'[p] = None
    BY <1>2, <1>3 DEF ProjectAfter
  <2>2. Holds(txn[t], p, {"update"})
    BY <1>1, <1>3 DEF ClaimsOK
  <2> QED
    BY <1>3, <2>1, <2>2
<1>4. CASE p \notin txn[t].del /\ txn[t].lastSeq > 0 /\ p = txn[t].project
  <2> DEFINE name == IF txn[t].req.kind = "UpdateProject" THEN txn[t].req.name
                     ELSE projects[p].name
  <2>1. projects'[p] = [name |-> name, lastSeq |-> txn[t].lastSeq]
    BY <1>2, <1>4 DEF ProjectAfter
  <2>2. projects[p] # None /\ Holds(txn[t], p, {"noKeyUpdate", "update"})
    BY <1>1, <1>4 DEF ClaimsOK
  <2>3. name \in Text
    <3>1. CASE txn[t].req.kind = "UpdateProject"
      BY <1>1, <1>4, <3>1 DEF RequestOK
    <3>2. CASE txn[t].req.kind # "UpdateProject"
      BY <2>2, <3>2 DEF Inv, TypeOK, ProjectRow
    <3> QED
      BY <3>1, <3>2
  <2>4. txn[t].lastSeq \in Nat
    BY <1>1 DEF TxnState
  <2> HIDE DEF name
  <2> QED
    BY <1>4, <2>1, <2>2, <2>3, <2>4 DEF ProjectRow
<1>5. CASE p \notin txn[t].del /\ ~ (txn[t].lastSeq > 0 /\ p = txn[t].project)
  <2>1. projects'[p] = projects[p]
    BY <1>2, <1>5 DEF ProjectAfter
  <2> QED
    BY <1>5, <2>1
<1> QED
  BY <1>3, <1>4, <1>5

LEMMA CommitType ==
  ASSUME Inv, NEW t \in Txn, Commit(t)
  PROVE  TypeOK'
<1>1. /\ txn[t] \in TxnState /\ txn[t].req \in Request
      /\ ShapeOK(txn[t]) /\ ClaimsOK(txn[t])
  BY AtFacts DEF Commit
<1>2. /\ txn[t].fresh \in Seq(Task) /\ txn[t].comment \in Comment \cup {None}
      /\ txn[t].puts \in [Task -> TaskRow \cup {None}]
      /\ txn[t].addDeps \subseteq Edge /\ txn[t].evs \subseteq Event
      /\ txn[t].lastSeq \in Nat
  BY <1>1 DEF TxnState
<1>3. projects' \in [Project -> ProjectRow \cup {None}]
  <2>1. projects' = [p \in Project |-> ProjectAfter(t, p)]
    BY DEF Commit
  <2>2. ASSUME NEW p \in Project PROVE projects'[p] \in ProjectRow \cup {None}
    BY CommitProjects DEF Inv, TypeOK
  <2> QED
    BY <2>1, <2>2
<1>4. tasks' \in [Task -> TaskRow \cup {None}]
  <2>1. ASSUME NEW k \in Task PROVE TaskSeen(t, k) \in TaskRow \cup {None}
    BY <1>2 DEF TaskSeen, Inv, TypeOK
  <2> QED
    BY <2>1 DEF Commit
<1>5. deps' \subseteq Edge
  BY <1>2 DEF Commit, DepsSeen, Inv, TypeOK
<1>6. comments' \in [Comment -> Task \cup {None}]
  <2>1. ASSUME NEW c \in Comment PROVE CommentAfter(t, c) \in Task \cup {None}
    <3>1. CASE c \in txn[t].del
      BY <3>1 DEF CommentAfter
    <3>2. CASE c \notin txn[t].del /\ c = txn[t].comment
      <4>1. txn[t].req.kind = "CreateComment"
        BY <1>1, <3>2, NoneAssumption DEF ShapeOK
      <4>2. txn[t].req.task \in Task
        BY <1>1, <4>1, RequestFields
      <4> QED
        BY <3>2, <4>2 DEF CommentAfter
    <3>3. CASE c \notin txn[t].del /\ c # txn[t].comment
      BY <3>3 DEF CommentAfter, Inv, TypeOK
    <3> QED
      BY <3>1, <3>2, <3>3
  <2> QED
    BY <2>1 DEF Commit
<1>7. events' \subseteq Event
  BY <1>2 DEF Commit, Inv, TypeOK
<1>8. used' \subseteq Project \cup Task \cup Comment
  BY <1>2, ToSetType DEF Commit, Inv, TypeOK
<1>9. txn' \in [Txn -> TxnState]
  BY IdleType DEF Commit, Inv, TypeOK
<1> QED
  BY <1>3, <1>4, <1>5, <1>6, <1>7, <1>8, <1>9 DEF TypeOK

\* The claims of the others stand: whoever holds claims in a project holds
\* its row, and so t, which committed, did not touch it.
LEMMA CommitClaims ==
  ASSUME Inv, NEW t \in Txn, Commit(t), NEW u \in Txn, u # t
  PROVE  ClaimsOK(txn[u])'
<1>1. txn'[u] = txn[u] /\ txn[u] \in TxnState
  BY DEF Commit, Inv, TypeOK
<1>2. ClaimsOK(txn[u])
  BY DEF Inv, LogInvariant
<1> DEFINE p == txn[u].project
<1>3. txn[u].lastSeq > 0 => p \in Project /\ projects'[p] = projects[p]
  <2> SUFFICES ASSUME txn[u].lastSeq > 0
               PROVE  p \in Project /\ projects'[p] = projects[p]
    OBVIOUS
  <2>1. p \in Project /\ Holds(txn[u], p, {"noKeyUpdate", "update"})
    BY <1>2 DEF ClaimsOK
  <2>2. ~ Holds(txn[t], p, {"noKeyUpdate", "update"})
    BY <2>1, HoldersConflict DEF Holds, Inv, LogInvariant, LocksExclusive
  <2>3. ~ Holds(txn[t], p, {"update"})
    BY <2>2 DEF Holds
  <2> QED
    BY <2>1, <2>2, <2>3, CommitProjects
<1> HIDE DEF p
<1> QED
  BY <1>1, <1>2, <1>3 DEF ClaimsOK, Holds, p

LEMMA CommitGapless ==
  ASSUME Inv, NEW t \in Txn, Commit(t)
  PROVE  GaplessLog'
<1> SUFFICES ASSUME NEW p \in Project
             PROVE  /\ projects'[p] = None => \A e \in events' : e.project # p
                    /\ projects'[p] # None =>
                         /\ \A e \in events' : e.project = p =>
                              e.seq \in 1..projects'[p].lastSeq
                         /\ \A i \in 1..projects'[p].lastSeq :
                              \E e \in events' : e.project = p /\ e.seq = i
                    /\ \A e, f \in events' :
                         e.project = p /\ f.project = p /\ e.seq = f.seq => e = f
  BY DEF GaplessLog
<1>1. /\ txn[t] \in TxnState /\ RequestOK(txn[t]) /\ ClaimsOK(txn[t])
  BY AtFacts DEF Commit
<1>2. events' = {e \in events : e.project \notin txn[t].del} \cup txn[t].evs
  BY DEF Commit
<1>3. \A e \in txn[t].evs : txn[t].lastSeq > 0 /\ e.project = txn[t].project
  BY <1>1 DEF ClaimsOK, TxnState
<1>4. /\ projects[p] = None => \A e \in events : e.project # p
      /\ projects[p] # None =>
           /\ \A e \in events : e.project = p => e.seq \in 1..projects[p].lastSeq
           /\ \A i \in 1..projects[p].lastSeq :
                \E e \in events : e.project = p /\ e.seq = i
      /\ \A e, f \in events :
           e.project = p /\ f.project = p /\ e.seq = f.seq => e = f
  BY DEF Inv, LogInvariant, GaplessLog
<1>5. CASE p \in txn[t].del
  <2>1. txn[t].lastSeq = 0
    BY <1>1, <1>5 DEF ClaimsOK, RequestOK
  <2>2. \A e \in events' : e.project # p
    BY <1>2, <1>3, <1>5, <2>1
  <2>3. projects'[p] = None
    BY <1>5, CommitProjects
  <2> QED
    BY <2>2, <2>3
<1>6. CASE p \notin txn[t].del /\ txn[t].lastSeq > 0 /\ p = txn[t].project
  <2> DEFINE base == projects[p].lastSeq
             last == txn[t].lastSeq
             evs == txn[t].evs
  <2>1. projects'[p] # None /\ projects'[p].lastSeq = last /\ projects[p] # None
    BY <1>6, CommitProjects, NoneAssumption DEF ProjectRow
  <2>2. base \in Nat /\ last \in Nat
    BY <1>1, <2>1 DEF Inv, TypeOK, ProjectRow, TxnState
  <2>3. /\ base < last
        /\ \A e \in evs : e.project = p /\ e.seq \in (base + 1)..last
        /\ \A i \in (base + 1)..last : \E e \in evs : e.seq = i
        /\ \A e, f \in evs : e.seq = f.seq => e = f
    BY <1>1, <1>6 DEF ClaimsOK
  <2>4. /\ \A e \in events : e.project = p => e.seq \in 1..base
        /\ \A i \in 1..base : \E e \in events : e.project = p /\ e.seq = i
    BY <1>4, <2>1
  <2>5. \A e \in events' : e.project = p => e \in events \/ e \in evs
    BY <1>2
  <2>6. \A e : e \in evs \/ (e \in events /\ e.project = p) => e \in events'
    BY <1>2, <1>6
  <2> HIDE DEF base, last, evs
  <2>7. \A e \in events' : e.project = p => e.seq \in 1..last
    BY <2>2, <2>3, <2>4, <2>5
  <2>8. ASSUME NEW i \in 1..last
        PROVE  \E e \in events' : e.project = p /\ e.seq = i
    <3>1. CASE i \in 1..base
      BY <2>4, <2>6, <3>1
    <3>2. CASE i \notin 1..base
      <4>1. i \in (base + 1)..last
        BY <2>2, <3>2
      <4> QED
        BY <2>3, <2>6, <4>1
    <3> QED
      BY <3>1, <3>2
  <2>9. ASSUME NEW e \in events', NEW f \in events', e.project = p,
               f.project = p, e.seq = f.seq
        PROVE  e = f
    <3>1. CASE e \in events /\ f \in events
      BY <1>4, <2>9, <3>1
    <3>2. CASE e \in evs /\ f \in evs
      BY <2>3, <2>9, <3>2
    <3>3. CASE e \in events /\ f \in evs
      BY <2>2, <2>3, <2>4, <2>9, <3>3
    <3>4. CASE e \in evs /\ f \in events
      BY <2>2, <2>3, <2>4, <2>9, <3>4
    <3> QED
      BY <2>5, <2>9, <3>1, <3>2, <3>3, <3>4
  <2> QED
    BY <2>1, <2>7, <2>8, <2>9
<1>7. CASE p \notin txn[t].del /\ ~ (txn[t].lastSeq > 0 /\ p = txn[t].project)
  <2>1. projects'[p] = projects[p]
    BY <1>7, CommitProjects
  <2>2. \A e : e \in events' /\ e.project = p <=> e \in events /\ e.project = p
    BY <1>2, <1>3, <1>7
  <2> QED
    BY <1>4, <2>1, <2>2
<1> QED
  BY <1>5, <1>6, <1>7

LEMMA CommitStep ==
  ASSUME Inv, NEW t \in Txn, Commit(t)
  PROVE  Inv'
<1>1. txn' = [txn EXCEPT ![t] = Idle]
  BY DEF Commit
<1>2. TypeOK'
  BY CommitType
<1>3. LocksExclusive'
  <2>1. Idle.locks \subseteq txn[t].locks
    BY DEF Idle
  <2> QED
    BY <1>1, <2>1, GoLocks DEF Inv, TypeOK, LogInvariant
<1>4. ASSUME NEW u \in Txn PROVE ShapeOK(txn'[u]) /\ ClaimsOK(txn[u])'
  <2>1. CASE u = t
    <3>1. txn'[u] = Idle
      BY <1>1, <2>1 DEF Inv, TypeOK
    <3>2. ClaimsOK(txn[u])'
      BY <3>1 DEF ClaimsOK, Idle
    <3> QED
      BY <3>1, <3>2, IdleOK
  <2>2. CASE u # t
    <3>1. txn'[u] = txn[u]
      BY <1>1, <2>2 DEF Inv, TypeOK
    <3> QED
      BY <2>2, <3>1, CommitClaims DEF Inv, LogInvariant
  <2> QED
    BY <2>1, <2>2
<1>5. \A p \in Project : projects'[p] # None => p \in used'
  <2>1. \A p \in Project : projects'[p] # None => projects[p] # None
    BY CommitProjects
  <2> QED
    BY <2>1 DEF Commit, Inv, LogInvariant
<1> QED
  BY <1>2, <1>3, <1>4, <1>5, CommitGapless DEF Inv, LogInvariant

-----------------------------------------------------------------------------
(* A request arrives, a project is created. *)

LEMMA BeginStep ==
  ASSUME Inv, NEW t \in Txn, NEW r \in Request, Begin(t, r)
  PROVE  Inv'
<1>1. PICK ids \in [1..NewTasks(r) -> FreshTasks],
           c \in IF r.kind = "CreateComment" THEN FreshComments ELSE {None} :
        Go(t, [Idle EXCEPT !.req = r, !.pc = FirstPC(r.kind),
                           !.fresh = ids, !.comment = c])
  BY DEF Begin
<1> DEFINE pc == FirstPC(r.kind)
           x == [Idle EXCEPT !.req = r, !.pc = pc, !.fresh = ids, !.comment = c]
<1>2. r.kind \in {"CreateTask", "UpdateTask", "DeleteTask", "CreateTaskBatch",
                  "CreateComment", "DeleteComment", "UpdateProject",
                  "DeleteProject"}
  BY DEF Request
<1>3. pc \in {"validate", "lock", "resolve", "lockProject"}
      /\ (pc = "validate" => r.kind = "CreateTask")
  BY <1>2 DEF FirstPC
<1>4. r.kind = "CreateTaskBatch" =>
        /\ Len(r.subs) \in Nat
        /\ \A i \in 1..Len(r.subs) : r.subs[i].dependsOn \subseteq 1..Len(r.subs)
  <2>1. r.kind = "CreateTaskBatch" =>
          r.subs \in Seq([title : Text, dependsOn : SUBSET Nat])
    BY RequestFields
  <2>2. r.kind = "CreateTaskBatch" =>
          \A i \in 1..Len(r.subs) : r.subs[i].dependsOn \subseteq 1..Len(r.subs)
    BY DEF Begin, ValidSuggestions
  <2> QED
    BY <2>1, <2>2
<1>5. /\ NewTasks(r) \in Nat
      /\ r.kind = "CreateTask" => NewTasks(r) = 1
      /\ r.kind = "CreateTaskBatch" => NewTasks(r) = Len(r.subs)
  BY <1>4 DEF NewTasks
<1>6. ids \in Seq(Task) /\ Len(ids) = NewTasks(r)
  <2>1. FreshTasks \subseteq Task
    BY DEF FreshTasks
  <2> QED
    BY <1>5, <2>1
<1>7. /\ c \in Comment \cup {None}
      /\ r.kind = "CreateComment" => c \in Comment
      /\ r.kind # "CreateComment" => c = None
  BY DEF FreshComments
<1> HIDE DEF pc
<1>8. /\ x \in TxnState
      /\ x.req = r /\ x.pc = pc /\ x.fresh = ids /\ x.comment = c
      /\ x.out = << >> /\ x.pending = << >> /\ x.lastSeq = 0 /\ x.evs = {}
      /\ x.del = {} /\ x.locks = {}
  <2>1. Idle \in TxnState
    BY IdleType
  <2>2. pc \in PC
    BY <1>3 DEF PC
  <2>3. x = [Idle EXCEPT !.req = r, !.pc = pc, !.fresh = ids, !.comment = c]
    OBVIOUS
  <2>4. /\ Idle.out = << >> /\ Idle.pending = << >> /\ Idle.lastSeq = 0
        /\ Idle.evs = {} /\ Idle.del = {} /\ Idle.locks = {}
    BY DEF Idle
  <2> QED
    BY <1>6, <1>7, <2>1, <2>2, <2>4 DEF TxnState
<1>9. Go(t, x)
  BY <1>1 DEF pc
<1> HIDE DEF x
<1>10. r # None
  BY NoRequestAssumption
<1>11. RequestOK(x)
  BY <1>3, <1>4, <1>5, <1>6, <1>7, <1>8 DEF RequestOK
<1>12. ShapeOK(x)
  BY <1>3, <1>7, <1>8, <1>10, <1>11 DEF ShapeOK
<1>13. ClaimsOK(x)
  BY <1>8 DEF ClaimsOK
<1> QED
  BY <1>8, <1>9, <1>12, <1>13, GoStep

LEMMA CreateProjectStep ==
  ASSUME Inv, NEW p \in Project, NEW name \in Text, CreateProject(p, name)
  PROVE  Inv'
<1> DEFINE row == [name |-> name, lastSeq |-> 0]
<1>1. /\ p \notin used /\ projects' = [projects EXCEPT ![p] = row]
      /\ used' = used \cup {p}
      /\ UNCHANGED <<tasks, deps, comments, events, txn>>
  BY DEF CreateProject
<1>2. row \in ProjectRow
  BY DEF ProjectRow
<1>3. TypeOK'
  BY <1>1, <1>2 DEF Inv, TypeOK
<1>4. projects[p] = None /\ \A e \in events : e.project # p
  BY <1>1 DEF Inv, LogInvariant, GaplessLog
<1>5. \A q \in Project \ {p} : projects'[q] = projects[q]
  BY <1>1 DEF Inv, TypeOK
<1>6. projects'[p] = row /\ row.lastSeq = 0 /\ row # None
  BY <1>1, <1>2, NoneAssumption DEF Inv, TypeOK, ProjectRow
<1> HIDE DEF row
<1>7. LocksExclusive'
  BY <1>1 DEF Inv, LogInvariant, LocksExclusive
<1>8. ASSUME NEW u \in Txn PROVE ShapeOK(txn'[u]) /\ ClaimsOK(txn[u])'
  <2>1. ShapeOK(txn[u]) /\ ClaimsOK(txn[u])
    BY DEF Inv, LogInvariant
  <2>2. txn[u].lastSeq > 0 => /\ txn[u].project \in Project \ {p}
                              /\ projects'[txn[u].project] = projects[txn[u].project]
    BY <1>4, <1>5, <2>1 DEF ClaimsOK
  <2> QED
    BY <1>1, <2>1, <2>2 DEF ClaimsOK, Holds
<1>9. GaplessLog'
  <2>1. ASSUME NEW q \in Project \ {p}
        PROVE  /\ projects'[q] = None => \A e \in events' : e.project # q
               /\ projects'[q] # None =>
                    /\ \A e \in events' : e.project = q =>
                         e.seq \in 1..projects'[q].lastSeq
                    /\ \A i \in 1..projects'[q].lastSeq :
                         \E e \in events' : e.project = q /\ e.seq = i
               /\ \A e, f \in events' :
                    e.project = q /\ f.project = q /\ e.seq = f.seq => e = f
    BY <1>1, <1>5 DEF Inv, LogInvariant, GaplessLog
  <2>2. /\ \A e \in events' : e.project # p
        /\ 1..projects'[p].lastSeq = {}
    BY <1>1, <1>4, <1>6
  <2> QED
    BY <2>1, <2>2 DEF GaplessLog
<1>10. \A q \in Project : projects'[q] # None => q \in used'
  BY <1>1, <1>5 DEF Inv, LogInvariant
<1> QED
  BY <1>3, <1>7, <1>8, <1>9, <1>10 DEF Inv, LogInvariant

-----------------------------------------------------------------------------
(* The theorems. *)

LEMMA StatementStep ==
  ASSUME Inv, NEW t \in Txn, Statement(t)
  PROVE  Inv'
<1>1. CASE CreateTaskValidate(t) \/ CreateTaskInsert(t)
  BY <1>1, CreateTaskValidateStep, CreateTaskInsertStep
<1>2. CASE UpdateTaskLock(t) \/ UpdateTaskValidate(t)
           \/ UpdateTaskComplete(t) \/ UpdateTaskWrite(t)
  BY <1>2, UpdateTaskLockStep, UpdateTaskValidateStep, UpdateTaskCompleteStep,
     UpdateTaskWriteStep
<1>3. CASE DeleteTaskLock(t) \/ DeleteTaskCascade(t)
  BY <1>3, DeleteTaskLockStep, DeleteTaskCascadeStep
<1>4. CASE BatchLock(t) \/ BatchInsert(t) \/ BatchValidate(t)
  BY <1>4, BatchLockStep, BatchInsertStep, BatchValidateStep
<1>5. CASE CreateCommentResolve(t) \/ CreateCommentInsert(t)
           \/ DeleteCommentResolve(t) \/ DeleteCommentRow(t)
  BY <1>5, CreateCommentResolveStep, CreateCommentInsertStep,
     DeleteCommentResolveStep, DeleteCommentRowStep
<1>6. CASE UpdateProjectLock(t) \/ DeleteProjectLock(t)
           \/ DeleteProjectCascade(t)
  BY <1>6, UpdateProjectLockStep, DeleteProjectLockStep,
     DeleteProjectCascadeStep
<1>7. CASE InsertDependency(t) \/ RecordEvent(t) \/ Commit(t)
           \/ DeadlockVictim(t)
  BY <1>7, InsertDependencyStep, RecordEventStep, CommitStep, FailStep
<1> QED
  BY <1>1, <1>2, <1>3, <1>4, <1>5, <1>6, <1>7 DEF Statement

LEMMA InitInv == Init => Inv
<1> SUFFICES ASSUME Init PROVE Inv
  OBVIOUS
<1>1. TypeOK
  BY IdleType DEF Init, TypeOK
<1>2. LocksExclusive
  BY DEF Init, LocksExclusive, Idle
<1>3. \A t \in Txn : ShapeOK(txn[t]) /\ ClaimsOK(txn[t])
  BY IdleOK DEF Init
<1>4. GaplessLog
  BY DEF Init, GaplessLog
<1>5. \A p \in Project : projects[p] # None => p \in used
  BY DEF Init
<1> QED
  BY <1>1, <1>2, <1>3, <1>4, <1>5 DEF Inv, LogInvariant

LEMMA NextInv == Inv /\ [Next]_vars => Inv'
<1> SUFFICES ASSUME Inv, [Next]_vars PROVE Inv'
  OBVIOUS
<1>1. CASE \E p \in Project, name \in Text : CreateProject(p, name)
  BY <1>1, CreateProjectStep
<1>2. ASSUME NEW t \in Txn, \E r \in Request : Begin(t, r)
      PROVE  Inv'
  BY <1>2, BeginStep
<1>3. ASSUME NEW t \in Txn, Statement(t)
      PROVE  Inv'
  BY <1>3, StatementStep
<1>4. ASSUME NEW t \in Txn, Fail(t)
      PROVE  Inv'
  BY <1>4, FailStep
<1>5. CASE UNCHANGED vars
  BY <1>5 DEF vars, Inv, TypeOK, LogInvariant, LocksExclusive, ClaimsOK,
     GaplessLog
<1> QED
  BY <1>1, <1>2, <1>3, <1>4, <1>5 DEF Next

\* Every reachable state has its types, whatever the sets of ids, clients'
\* requests and open transactions.
THEOREM TypeCorrect == Spec => []TypeOK
<1>1. Inv => TypeOK
  BY DEF Inv
<1> QED
  BY <1>1, InitInv, NextInv, PTL DEF Spec

\* The lock discipline of the statements, the state of every open
\* transaction and the log: what makes the next theorem inductive.
THEOREM ClaimsFollowLog == Spec => []LogInvariant
<1>1. Inv => LogInvariant
  BY DEF Inv
<1> QED
  BY <1>1, InitInv, NextInv, PTL DEF Spec

\* Any number of transactions, interleaved at every statement, failing or
\* deadlocking anywhere, leave each project's log with the seqs 1 to last_seq,
\* each exactly once (recordEvent in events.go).
THEOREM LogHasNoGaps == Spec => []GaplessLog
<1>1. Inv => GaplessLog
  BY DEF Inv, LogInvariant
<1> QED
  BY <1>1, InitInv, NextInv, PTL DEF Spec
-----------------------------------------------------------------------------
(* Reading the log off the rows of events. *)

\* LogOf, with the table and the length made explicit.
LogIn(rows, p, n) ==
  [i \in 1..n |-> (CHOOSE e \in rows : e.project = p /\ e.seq = i).body]

\* (project, seq) is a key of the table.
SeqIsKey(rows) ==
  \A f, g \in rows : f.project = g.project /\ f.seq = g.seq => f = g

\* Where (project, seq) is a key, the payload in the log is that of the row
\* that is there.
LEMMA LogAt ==
  ASSUME NEW rows, SeqIsKey(rows), NEW p, NEW n \in Nat, NEW i \in 1..n,
         NEW e \in rows, e.project = p, e.seq = i
  PROVE  LogIn(rows, p, n)[i] = e.body
<1> DEFINE c == CHOOSE f \in rows : f.project = p /\ f.seq = i
<1>1. LogIn(rows, p, n)[i] = c.body
  BY DEF LogIn
<1>2. c \in rows /\ c.project = p /\ c.seq = i
  OBVIOUS
<1> HIDE DEF c
<1>3. c = e
  BY <1>2 DEF SeqIsKey
<1> QED
  BY <1>1, <1>3

\* `old` has a row for each of the first n seqs of p, and `new` has them all.
Keeps(new, old, p, n) ==
  /\ \A i \in 1..n : \E e \in old : e.project = p /\ e.seq = i
  /\ \A e \in old : e.project = p => e \in new

\* Two tables in which (project, seq) is a key give the same log where they
\* have the same rows.
LEMMA SameLog ==
  ASSUME NEW old, SeqIsKey(old), NEW new, SeqIsKey(new),
         NEW p, NEW n \in Nat, NEW m \in Nat, n <= m, Keeps(new, old, p, n)
  PROVE  \A i \in 1..n : LogIn(new, p, m)[i] = LogIn(old, p, n)[i]
<1> SUFFICES ASSUME NEW i \in 1..n
             PROVE  LogIn(new, p, m)[i] = LogIn(old, p, n)[i]
  OBVIOUS
<1>1. PICK e \in old : e.project = p /\ e.seq = i
  BY DEF Keeps
<1>2. e \in new /\ i \in 1..m
  BY <1>1 DEF Keeps
<1>3. LogIn(new, p, m)[i] = e.body
  BY <1>1, <1>2, LogAt
<1>4. LogIn(old, p, n)[i] = e.body
  BY <1>1, LogAt
<1> QED
  BY <1>3, <1>4

\* (project, seq) is a key of the events table, before a step and after it.
LEMMA KeyKept ==
  ASSUME Inv, Inv'
  PROVE  SeqIsKey(events) /\ SeqIsKey(events')
<1>1. Inv => SeqIsKey(events)
  BY DEF Inv, TypeOK, Event, SeqIsKey, LogInvariant, GaplessLog
<1>2. Inv' => SeqIsKey(events')
  BY DEF Inv, TypeOK, Event, SeqIsKey, LogInvariant, GaplessLog
<1> QED
  BY <1>1, <1>2

\* A project that exists has a sequence of payloads for a log, of the length
\* of its last_seq.
LEMMA LogType ==
  ASSUME NEW rows \in SUBSET Event, NEW p, NEW n \in Nat,
         \A i \in 1..n : \E e \in rows : e.project = p /\ e.seq = i
  PROVE  /\ LogIn(rows, p, n) \in Seq(Body)
         /\ Len(LogIn(rows, p, n)) = n
<1>1. ASSUME NEW i \in 1..n
      PROVE  (CHOOSE e \in rows : e.project = p /\ e.seq = i).body \in Body
  <2> DEFINE c == CHOOSE e \in rows : e.project = p /\ e.seq = i
  <2>1. c \in rows
    OBVIOUS
  <2> HIDE DEF c
  <2>2. c.body \in Body
    BY <2>1 DEF Event
  <2> QED
    BY <2>2 DEF c
<1>2. LogIn(rows, p, n) \in [1..n -> Body]
  BY <1>1 DEF LogIn
<1> QED
  BY <1>2

\* The refinement mapping.
LogBar == [p \in Project |-> IF projects[p] = None THEN None ELSE LogOf(p)]

LEMMA LogBarIs ==
  ASSUME NEW p \in Project
  PROVE  /\ LogBar[p] = IF projects[p] = None THEN None
                        ELSE LogIn(events, p, projects[p].lastSeq)
         /\ LogBar'[p] = IF projects'[p] = None THEN None
                         ELSE LogIn(events', p, projects'[p].lastSeq)
BY DEF LogBar, LogOf, LogIn

-----------------------------------------------------------------------------
(* One step of the store is one of the log, or none. *)

\* Every statement but a COMMIT leaves the committed rows alone.
LEMMA OnlyCommitsWrite ==
  ASSUME NEW t \in Txn,
         \/ Statement(t) /\ ~ Commit(t)
         \/ Fail(t)
         \/ \E r \in Request : Begin(t, r)
  PROVE  UNCHANGED <<projects, tasks, deps, comments, events, used>>
<1>1. CASE CreateTaskValidate(t) \/ CreateTaskInsert(t)
  BY <1>1 DEF CreateTaskValidate, CreateTaskInsert, Go, Rollback
<1>2. CASE UpdateTaskLock(t) \/ UpdateTaskValidate(t)
           \/ UpdateTaskComplete(t) \/ UpdateTaskWrite(t)
  BY <1>2 DEF UpdateTaskLock, UpdateTaskValidate, UpdateTaskComplete,
     UpdateTaskWrite, Go, Rollback
<1>3. CASE DeleteTaskLock(t) \/ DeleteTaskCascade(t)
  BY <1>3 DEF DeleteTaskLock, DeleteTaskCascade, Go, Rollback
<1>4. CASE BatchLock(t) \/ BatchInsert(t) \/ BatchValidate(t)
  BY <1>4 DEF BatchLock, BatchInsert, BatchValidate, Go, Rollback
<1>5. CASE CreateCommentResolve(t) \/ CreateCommentInsert(t)
           \/ DeleteCommentResolve(t) \/ DeleteCommentRow(t)
  BY <1>5 DEF CreateCommentResolve, CreateCommentInsert, DeleteCommentResolve,
     DeleteCommentRow, Go, Rollback
<1>6. CASE UpdateProjectLock(t) \/ DeleteProjectLock(t)
           \/ DeleteProjectCascade(t)
  BY <1>6 DEF UpdateProjectLock, DeleteProjectLock, DeleteProjectCascade, Go,
     Rollback
<1>7. CASE InsertDependency(t) \/ RecordEvent(t)
  BY <1>7 DEF InsertDependency, RecordEvent, Go, Rollback
<1>8. CASE DeadlockVictim(t) \/ Fail(t)
  BY <1>8 DEF DeadlockVictim, Fail, Go, Rollback
<1>9. CASE \E r \in Request : Begin(t, r)
  BY <1>9 DEF Begin, Go
<1> QED
  BY <1>1, <1>2, <1>3, <1>4, <1>5, <1>6, <1>7, <1>8, <1>9 DEF Statement

\* The log of a project that t neither deletes nor writes to is as it was.
LEMMA CommitKeepsLog ==
  ASSUME Inv, Inv', NEW t \in Txn, Commit(t), NEW p \in Project,
         p \notin txn[t].del, ~ (txn[t].lastSeq > 0 /\ p = txn[t].project)
  PROVE  LogBar'[p] = LogBar[p]
<1>1. projects'[p] = projects[p]
  BY CommitProjects
<1>2. CASE projects[p] = None
  BY <1>1, <1>2, LogBarIs
<1>3. CASE projects[p] # None
  <2> DEFINE n == projects[p].lastSeq
  <2>1. n \in Nat
    BY <1>3 DEF Inv, TypeOK, ProjectRow
  <2>2. Keeps(events', events, p, n)
    <3>1. \A i \in 1..n : \E e \in events : e.project = p /\ e.seq = i
      BY <1>3 DEF Inv, LogInvariant, GaplessLog
    <3>2. \A e \in events : e.project = p => e \in events'
      BY DEF Commit
    <3> QED
      BY <3>1, <3>2 DEF Keeps
  <2>3. SeqIsKey(events) /\ SeqIsKey(events')
    BY KeyKept
  <2>4. LogBar[p] = LogIn(events, p, n) /\ LogBar'[p] = LogIn(events', p, n)
    BY <1>1, <1>3, LogBarIs
  <2> HIDE DEF n
  <2>5. \A i \in 1..n : LogIn(events', p, n)[i] = LogIn(events, p, n)[i]
    BY <2>1, <2>2, <2>3, SameLog
  <2>6. LogIn(events', p, n) = LogIn(events, p, n)
    BY <2>5 DEF LogIn
  <2> QED
    BY <2>4, <2>6
<1> QED
  BY <1>2, <1>3

\* The log of the project t has claimed seqs in grows at its end.
LEMMA CommitAppends ==
  ASSUME Inv, Inv', NEW t \in Txn, Commit(t), NEW p \in Project,
         p \notin txn[t].del, txn[t].lastSeq > 0, p = txn[t].project
  PROVE  /\ LogBar[p] # None /\ LogBar[p] \in Seq(Body)
         /\ LogBar'[p] \in Seq(Body)
         /\ Len(LogBar'[p]) > Len(LogBar[p])
         /\ SubSeq(LogBar'[p], 1, Len(LogBar[p])) = LogBar[p]
<1> DEFINE n == projects[p].lastSeq
           m == projects'[p].lastSeq
<1>1. /\ projects[p] # None /\ projects'[p] # None
      /\ n \in Nat /\ m \in Nat /\ m = txn[t].lastSeq /\ n < m
  <2>1. /\ projects'[p] \in ProjectRow /\ m = txn[t].lastSeq
        /\ projects[p] # None
    BY CommitProjects
  <2>2. n < txn[t].lastSeq
    BY AtFacts DEF Commit, ClaimsOK
  <2> QED
    BY <2>1, <2>2, NoneAssumption DEF Inv, TypeOK, ProjectRow
<1>2. /\ \A i \in 1..n : \E e \in events : e.project = p /\ e.seq = i
      /\ \A i \in 1..m : \E e \in events' : e.project = p /\ e.seq = i
  BY <1>1 DEF Inv, LogInvariant, GaplessLog
<1>3. \A e \in events : e.project = p => e \in events'
  BY DEF Commit
<1>4. events \in SUBSET Event /\ events' \in SUBSET Event
  BY DEF Inv, TypeOK
<1>5. LogBar[p] = LogIn(events, p, n) /\ LogBar'[p] = LogIn(events', p, m)
  BY <1>1, LogBarIs
<1> HIDE DEF n, m
<1>6. LogIn(events, p, n) \in Seq(Body) /\ Len(LogIn(events, p, n)) = n
  BY <1>1, <1>2, <1>4, LogType
<1>7. LogIn(events', p, m) \in Seq(Body) /\ Len(LogIn(events', p, m)) = m
  BY <1>1, <1>2, <1>4, LogType
<1>8. n \in Nat /\ m \in Nat /\ n <= m
  BY <1>1
<1>9. \A i \in 1..n : LogIn(events', p, m)[i] = LogIn(events, p, n)[i]
  <2>1. Keeps(events', events, p, n)
    BY <1>2, <1>3 DEF Keeps
  <2>2. SeqIsKey(events) /\ SeqIsKey(events')
    BY KeyKept
  <2> QED
    BY <1>8, <2>1, <2>2, SameLog
<1> DEFINE old == LogIn(events, p, n)
           new == LogIn(events', p, m)
<1>10. /\ old \in Seq(Body) /\ Len(old) = n /\ new \in Seq(Body) /\ Len(new) = m
       /\ \A i \in 1..n : new[i] = old[i]
  BY <1>6, <1>7, <1>9
<1> HIDE DEF old, new
<1>11. SubSeq(new, 1, n) = old
  BY <1>8, <1>10
<1>12. old # None
  BY <1>10, NoLogAssumption
<1> QED
  BY <1>1, <1>5, <1>10, <1>11, <1>12 DEF old, new

LEMMA CommitImplements ==
  ASSUME Inv, Inv', NEW t \in Txn, Commit(t)
  PROVE  [Promise!Next]_LogBar
<1>1. /\ txn[t] \in TxnState /\ txn[t].req \in Request
      /\ RequestOK(txn[t]) /\ ClaimsOK(txn[t])
  BY AtFacts DEF Commit
<1>2. CASE \E p \in Project : p \in txn[t].del /\ LogBar[p] # None
  <2>1. PICK p \in Project : p \in txn[t].del /\ LogBar[p] # None
    BY <1>2
  <2>2. \A q \in Project : q \in txn[t].del => q = p
    BY <1>1, <2>1 DEF ClaimsOK
  <2>3. ~ (txn[t].lastSeq > 0)
    BY <1>1, <2>1 DEF ClaimsOK, RequestOK
  <2>4. LogBar'[p] = None
    BY <2>1, CommitProjects, LogBarIs
  <2>5. \A q \in Project \ {p} : LogBar'[q] = LogBar[q]
    BY <2>2, <2>3, CommitKeepsLog
  <2>6. LogBar' = [LogBar EXCEPT ![p] = None] /\ LogBar[p] # None
    BY <2>1, <2>4, <2>5 DEF LogBar
  <2>7. Promise!DeleteProject(p)
    BY <2>6 DEF Promise!DeleteProject, LogBar
  <2> QED
    BY <2>7 DEF Promise!Next
<1>3. CASE /\ \A p \in Project : p \in txn[t].del => LogBar[p] = None
           /\ txn[t].lastSeq > 0 /\ txn[t].project \notin txn[t].del
  <2>1. PICK p \in Project : /\ p = txn[t].project /\ txn[t].lastSeq > 0
                             /\ p \notin txn[t].del
    BY <1>1, <1>3 DEF ClaimsOK
  <2>2. /\ LogBar[p] # None /\ LogBar'[p] \in Seq(Body)
        /\ Len(LogBar'[p]) > Len(LogBar[p])
        /\ SubSeq(LogBar'[p], 1, Len(LogBar[p])) = LogBar[p]
    BY <2>1, CommitAppends
  <2>3. ASSUME NEW q \in Project \ {p} PROVE LogBar'[q] = LogBar[q]
    <3>1. CASE q \in txn[t].del
      BY <1>3, <3>1, CommitProjects, LogBarIs
    <3>2. CASE q \notin txn[t].del
      BY <2>1, <3>2, CommitKeepsLog
    <3> QED
      BY <3>1, <3>2
  <2>4. LogBar' = [LogBar EXCEPT ![p] = LogBar'[p]]
    BY <2>1, <2>3 DEF LogBar
  <2>5. Promise!AppendBlock(p)
    BY <2>1, <2>2, <2>4 DEF Promise!AppendBlock, LogBar
  <2> QED
    BY <2>1, <2>5 DEF Promise!Next
<1>4. CASE /\ \A p \in Project : p \in txn[t].del => LogBar[p] = None
           /\ ~ (txn[t].lastSeq > 0) \/ txn[t].project \in txn[t].del
  <2>1. ~ (txn[t].lastSeq > 0)
    BY <1>1, <1>4 DEF ClaimsOK, RequestOK
  <2>2. ASSUME NEW q \in Project PROVE LogBar'[q] = LogBar[q]
    <3>1. CASE q \in txn[t].del
      BY <1>4, <3>1, CommitProjects, LogBarIs
    <3>2. CASE q \notin txn[t].del
      BY <2>1, <3>2, CommitKeepsLog
    <3> QED
      BY <3>1, <3>2
  <2>3. LogBar' = LogBar
    BY <2>2 DEF LogBar
  <2> QED
    BY <2>3
<1> QED
  BY <1>2, <1>3, <1>4

LEMMA CreateProjectImplements ==
  ASSUME Inv, Inv', NEW p \in Project, NEW name \in Text, CreateProject(p, name)
  PROVE  Promise!CreateProject(p)
<1> DEFINE row == [name |-> name, lastSeq |-> 0]
<1>1. projects' = [projects EXCEPT ![p] = row] /\ events' = events
  BY DEF CreateProject
<1>2. projects[p] = None
  BY DEF CreateProject, Inv, LogInvariant
<1>3. row # None
  BY NoneAssumption
<1>4. projects'[p] = row /\ \A q \in Project \ {p} : projects'[q] = projects[q]
  BY <1>1 DEF Inv, TypeOK
<1>5. LogBar[p] = None
  BY <1>2, LogBarIs
<1>6. LogBar'[p] = << >>
  <2>1. LogBar'[p] = LogIn(events', p, 0)
    BY <1>3, <1>4, LogBarIs
  <2> QED
    BY <2>1 DEF LogIn
<1>7. ASSUME NEW q \in Project \ {p} PROVE LogBar'[q] = LogBar[q]
  BY <1>1, <1>4, LogBarIs
<1>8. LogBar' = [LogBar EXCEPT ![p] = << >>] /\ LogBar[p] = None
  BY <1>5, <1>6, <1>7 DEF LogBar
<1> QED
  BY <1>8 DEF Promise!CreateProject, LogBar

LEMMA StepImplements == Inv /\ Inv' /\ [Next]_vars => [Promise!Next]_LogBar
<1> SUFFICES ASSUME Inv, Inv', [Next]_vars PROVE [Promise!Next]_LogBar
  OBVIOUS
<1>1. UNCHANGED <<projects, tasks, deps, comments, events, used>>
        => LogBar' = LogBar
  BY DEF LogBar, LogOf
<1>2. CASE \E p \in Project, name \in Text : CreateProject(p, name)
  BY <1>2, CreateProjectImplements DEF Promise!Next
<1>3. ASSUME NEW t \in Txn, \E r \in Request : Begin(t, r)
      PROVE  [Promise!Next]_LogBar
  BY <1>1, <1>3, OnlyCommitsWrite
<1>4. ASSUME NEW t \in Txn, Statement(t)
      PROVE  [Promise!Next]_LogBar
  BY <1>1, <1>4, OnlyCommitsWrite, CommitImplements
<1>5. ASSUME NEW t \in Txn, Fail(t)
      PROVE  [Promise!Next]_LogBar
  BY <1>1, <1>5, OnlyCommitsWrite
<1>6. CASE UNCHANGED vars
  BY <1>1, <1>6 DEF vars
<1> QED
  BY <1>2, <1>3, <1>4, <1>5, <1>6 DEF Next

\* The committed logs are the ones EventLog promises: every transaction that
\* commits appends a contiguous block at the end of one log, in one step;
\* nothing that was logged is rewritten, reordered or removed; a project's
\* log appears empty with the project and goes with it (recordEvent in
\* events.go, the transactions of store.go).
THEOREM Implementation == Spec => ImplementsEventLog
<1>1. Init => Promise!Init
  BY DEF Init, Promise!Init
<1>2. Inv /\ Inv' /\ [Next]_vars
        => [Promise!Next]_([p \in Project |->
             IF projects[p] = None THEN None ELSE LogOf(p)])
  BY StepImplements DEF LogBar
<1> QED
  BY <1>1, <1>2, InitInv, NextInv, PTL DEF Spec, ImplementsEventLog, Promise!Spec
=============================================================================
