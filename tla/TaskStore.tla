----------------------------- MODULE TaskStore -----------------------------
(***************************************************************************)
(* The task board's store (server/store.go, validation.go, events.go) over *)
(* Postgres: every mutation is a transaction of several SQL statements,    *)
(* any number of them run at once, one per HTTP handler goroutine.         *)
(*                                                                         *)
(* Postgres runs them at READ COMMITTED, its default and the one db.go     *)
(* leaves in force: a statement sees what is committed when it starts and  *)
(* the writes of its own transaction.  So one action below is one          *)
(* statement, or several of which at most one can be told apart by another *)
(* transaction; the committed rows are the variables projects, tasks,      *)
(* deps, comments and events; what a transaction has written and not yet   *)
(* committed is in its record txn[t].  Row locks are explicit, because the *)
(* code relies on them (SELECT ... FOR UPDATE, the UPDATE of last_seq, the *)
(* key-share locks of the foreign keys): a statement that needs a lock     *)
(* another transaction holds in a conflicting mode is not enabled until    *)
(* that transaction ends.                                                  *)
(***************************************************************************)
EXTENDS Integers, Sequences, FiniteSets, SequencesExt

CONSTANTS
  Project, Task, Comment,  \* ids: gen_random_uuid() never hands one out twice
  Text,        \* what a title or a project name can be
  Status,      \* the task statuses a client sends
  DepLists,    \* the dependency lists a client sends
  Batches,     \* the subtask lists a client applies
  Kinds,       \* the operations clients call
  Txn,         \* the transactions that can be open at once (the pool)
  MaxSeq,      \* bound: no operation starts once a log is this long
  None         \* absent: no row, or a field the patch leaves out

ASSUME StatusAssumption == {"todo", "done"} \subseteq Status
ASSUME DepListsAssumption == DepLists \subseteq Seq(Task)
ASSUME BatchesAssumption ==
  Batches \subseteq Seq([title : Text, dependsOn : SUBSET Nat])
ASSUME MaxSeqAssumption == MaxSeq \in Nat
ASSUME TxnAssumption == IsFiniteSet(Txn) /\ IsFiniteSet(Task)
ASSUME IdAssumption == \* rows of different tables are different rows
  /\ Project \cap (Task \cup Comment) = {}
  /\ Task \cap Comment = {}
  /\ (Project \cup Task \cup Comment) \cap (Task \X Task) = {}
ASSUME NoneAssumption ==
  /\ None \notin Project \cup Task \cup Comment \cup Text \cup Status
  /\ None \notin Seq(Task)
  /\ None \notin [name : Text, lastSeq : Nat]
  /\ None \notin [project : Project, title : Text, status : Status]

VARIABLES
  projects,  \* rows of projects: name and last_seq
  tasks,     \* rows of tasks; configuration and assigned_to go with title
  deps,      \* rows of task_dependencies: <<task_id, depends_on_task_id>>
  comments,  \* rows of comments: the task each is on
  events,    \* rows of events
  used,      \* every id ever committed: the ones a client may name
  txn        \* the open transactions

vars == <<projects, tasks, deps, comments, events, used, txn>>

-----------------------------------------------------------------------------
(* Requests, events and the state of a transaction. *)

ProjectRow == [name : Text, lastSeq : Nat]
TaskRow == [project : Project, title : Text, status : Status]
Edge == Task \X Task
Row == Project \cup Task \cup Comment \cup Edge

\* Postgres row locks: FOR UPDATE (also taken by DELETE), FOR NO KEY UPDATE
\* (an UPDATE that leaves the key alone), FOR KEY SHARE (a foreign key check).
Mode == {"update", "noKeyUpdate", "keyShare"}
Lock == [row : Row, mode : Mode]

Request ==
  { r \in
      [kind : {"CreateTask"}, project : Project, title : Text,
         status : Status, deps : DepLists]
      \cup [kind : {"UpdateTask"}, task : Task, title : Text \cup {None},
              status : Status \cup {None}, deps : DepLists \cup {None}]
      \cup [kind : {"DeleteTask"}, task : Task]
      \cup [kind : {"CreateTaskBatch"}, task : Task, subs : Batches]
      \cup [kind : {"CreateComment"}, task : Task]
      \cup [kind : {"DeleteComment"}, comment : Comment]
      \cup [kind : {"UpdateProject"}, project : Project,
              name : Text \cup {None}]
      \cup [kind : {"DeleteProject"}, project : Project] : r.kind \in Kinds }

ASSUME NoRequestAssumption == None \notin Request

\* The payloads of events.go.
Body ==
  [type : {"task.created"}, task : Task, row : TaskRow, deps : SUBSET Task]
  \cup [type : {"task.updated"}, task : Task, title : Text \cup {None},
          status : Status \cup {None}]
  \cup [type : {"task.dependencies_changed"}, task : Task,
          dependsOn : SUBSET Task]
  \cup [type : {"task.deleted"}, task : Task,
          removedFromDependenciesOf : SUBSET Task]
  \cup [type : {"comment.added", "comment.deleted"}, comment : Comment,
          task : Task]
  \cup [type : {"project.updated"}, name : Text]

ASSUME NoLogAssumption == None \notin Seq(Body)

Event == [project : Project, seq : Nat, body : Body]

\* The statement a transaction runs next.
PC == {"idle", "validate", "insertTask", "lock", "complete", "write",
       "resolve", "insertComment", "deleteComment", "lockProject",
       "cascade", "insertDeps", "record", "commit"}

TxnState ==
  [req : Request \cup {None}, pc : PC,
   fresh : Seq(Task),                 \* the ids its INSERTs will return
   comment : Comment \cup {None},
   project : Project \cup {None},     \* the project it resolved
   current : TaskRow \cup {None},     \* the task row it read
   read : SUBSET Task,                \* the dependency column it read
   puts : [Task -> TaskRow \cup {None}],  \* tasks inserted or updated
   addDeps : SUBSET Edge,
   del : SUBSET Row,                  \* rows deleted, of any table
   pending : Seq(Edge),               \* edges insertDependencies has left
   out : Seq(Body),                   \* payloads recordEvent has left
   lastSeq : Nat,                     \* its version of last_seq, 0 if none
   evs : SUBSET Event,                \* rows inserted into events
   locks : SUBSET Lock]

Idle ==
  [req |-> None, pc |-> "idle", fresh |-> << >>, comment |-> None,
   project |-> None, current |-> None, read |-> {},
   puts |-> [k \in Task |-> None], addDeps |-> {}, del |-> {},
   pending |-> << >>, out |-> << >>, lastSeq |-> 0, evs |-> {}, locks |-> {}]

TypeOK ==
  /\ projects \in [Project -> ProjectRow \cup {None}]
  /\ tasks \in [Task -> TaskRow \cup {None}]
  /\ deps \subseteq Edge
  /\ comments \in [Comment -> Task \cup {None}]
  /\ events \subseteq Event
  /\ used \subseteq Project \cup Task \cup Comment
  /\ txn \in [Txn -> TxnState]

Init ==
  /\ projects = [p \in Project |-> None]
  /\ tasks = [k \in Task |-> None]
  /\ deps = {}
  /\ comments = [c \in Comment |-> None]
  /\ events = {}
  /\ used = {}
  /\ txn = [t \in Txn |-> Idle]

-----------------------------------------------------------------------------
(* What a statement of transaction t sees, and the locks it takes. *)

TaskSeen(t, k) ==
  CASE k \in txn[t].del -> None
    [] k \notin txn[t].del /\ txn[t].puts[k] # None -> txn[t].puts[k]
    [] OTHER -> tasks[k]

DepsSeen(t) == (deps \ txn[t].del) \cup txn[t].addDeps

DirectDeps(k) == {e[2] : e \in {x \in deps : x[1] = k}}

Dependents(k) == {e[1] : e \in {x \in deps : x[2] = k}}

\* The tasks reachable from the set `from` along `edges`, `from` included.
Reach(edges, from) ==
  LET n == Cardinality(Task)
      step[i \in 0..n] ==
        IF i = 0 THEN from
        ELSE step[i-1] \cup {e[2] : e \in {x \in edges : x[1] \in step[i-1]}}
  IN  step[n]

\* What ON DELETE CASCADE removes with task k: its edges in both directions
\* and its comments.
TaskCascade(k) == {k} \cup {e \in deps : e[1] = k \/ e[2] = k}
                      \cup {c \in Comment : comments[c] = k}

TasksOf(p) == {k \in Task : tasks[k] # None /\ tasks[k].project = p}

ProjectCascade(p) == UNION {TaskCascade(k) : k \in TasksOf(p)}

Locks(rows, mode) == {[row |-> w, mode |-> mode] : w \in rows}

\* SELECT ... FOR UPDATE of a task's row.
TaskLockShared(k) == Locks({k}, "keyShare")  \* mutant: does not exclude writers
TaskLock(k) == Locks({k}, "update")

\* The row locks the next statement of t takes (or, at a foreign key, has
\* Postgres take).
Needs(t) ==
  LET x == txn[t] IN
  CASE x.pc = "lock" -> TaskLock(x.req.task)
    [] x.pc = "write" /\ x.req.deps # None ->
         Locks({e \in deps : e[1] = x.req.task}, "update")
    [] x.pc = "insertTask" -> Locks({x.project}, "keyShare")
    [] x.pc = "insertDeps" ->
         Locks({Head(x.pending)[1], Head(x.pending)[2]}, "keyShare")
    [] x.pc = "insertComment" -> Locks({x.req.task}, "keyShare")
    [] x.pc = "deleteComment" ->
         Locks({c \in {x.req.comment} : comments[c] # None}, "update")
    [] x.pc = "lockProject" -> Locks({x.req.project}, "update")
    [] x.pc = "cascade" /\ x.req.kind = "DeleteTask" ->
         Locks(TaskCascade(x.req.task), "update")
    [] x.pc = "cascade" /\ x.req.kind = "DeleteProject" ->
         Locks({x.req.project} \cup ProjectCascade(x.req.project), "update")
    [] x.pc = "record" -> Locks({x.project}, "noKeyUpdate")
    [] OTHER -> {}

Conflict(m, n) == /\ {m, n} # {"keyShare"}
                  /\ {m, n} # {"keyShare", "noKeyUpdate"}

\* The transactions t waits for: they hold a lock its statement conflicts with.
WaitsFor(t) ==
  {u \in Txn \ {t} : \E l \in txn[u].locks, n \in Needs(t) :
                        l.row = n.row /\ Conflict(l.mode, n.mode)}

\* t has waited long enough to be on a cycle of waits, and the detector runs.
InDeadlock(t) ==
  LET n == Cardinality(Txn)
      chain[i \in 0..n] ==
        IF i = 0 THEN WaitsFor(t)
        ELSE chain[i-1] \cup UNION {WaitsFor(u) : u \in chain[i-1]}
  IN  t \in chain[n]

-----------------------------------------------------------------------------
(* How a statement ends. *)

\* t goes on in state x; nothing is committed.
Go(t, x) == /\ txn' = [txn EXCEPT ![t] = x]
            /\ UNCHANGED <<projects, tasks, deps, comments, events, used>>

\* An error return: the deferred tx.Rollback undoes and unlocks everything.
RollbackKeepsLocks(t) == \* mutant: the connection goes back to the pool as it is
  Go(t, [Idle EXCEPT !.locks = txn[t].locks])
Rollback(t) == Go(t, Idle)

\* t's statement can run: no other transaction holds what it needs.
At(t, kinds, pc) == /\ txn[t].pc = pc
                    /\ txn[t].req.kind \in kinds
                    /\ WaitsFor(t) = {}

\* t's state once its statement has its locks, which it keeps to the end.
LockedForStatement(t) == txn[t]  \* mutant: unlocked when the statement ends
Locked(t) == [txn[t] EXCEPT !.locks = @ \cup Needs(t)]

\* What every operation ends with: insertDependencies, recordEvent, Commit.
Continue(x) ==
  [x EXCEPT !.pc = CASE x.pending # << >> -> "insertDeps"
                     [] x.pending = << >> /\ x.out # << >> -> "record"
                     [] OTHER -> "commit"]

-----------------------------------------------------------------------------
(* validation.go *)

\* validateDependencies: each dependency is another task of the project, and
\* none of them leads back to k along the edges of the project's tasks.
ValidDependenciesShallow(t, k, p, ds) == \* mutant: one step of the walk
  /\ k \notin ds
  /\ \A d \in ds : TaskSeen(t, d) # None /\ TaskSeen(t, d).project = p
  /\ \A e \in DepsSeen(t) : e[1] \in ds => e[2] # k
ValidDependenciesAnywhere(t, k, p, ds) == \* mutant: of any project
  /\ k \notin Reach(DepsSeen(t), ds)
  /\ \A d \in ds : TaskSeen(t, d) # None
ValidDependencies(t, k, p, ds) ==
  /\ k \notin ds
  /\ \A d \in ds : TaskSeen(t, d) # None /\ TaskSeen(t, d).project = p
  /\ k \notin Reach({e \in DepsSeen(t) : /\ TaskSeen(t, e[1]) # None
                                         /\ TaskSeen(t, e[1]).project = p}, ds)

\* validateCanComplete: a dependency whose row is gone does not count.
CanCompleteStored(t, ds) == \* mutant: looks at the list the patch replaces
  \A d \in DirectDeps(txn[t].req.task) : tasks[d].status = "done"
CanComplete(t, ds) ==
  \A d \in ds : TaskSeen(t, d) # None => TaskSeen(t, d).status = "done"

\* validateSuggestions on the index graph: in range, no self-references,
\* acyclic.  (Sizes, titles and priorities are payload.)
ValidSuggestions(subs) ==
  LET n == Len(subs)
      step[i \in 0..n] == \* the indices whose dependencies are all cleared
        IF i = 0 THEN {}
        ELSE {j \in 1..n : subs[j].dependsOn \subseteq step[i-1]}
  IN  /\ n > 0
      /\ \A j \in 1..n : subs[j].dependsOn \subseteq (1..n) \ {j}
      /\ step[n] = 1..n

-----------------------------------------------------------------------------
(* Operations: the request arrives. *)

FirstPC(kind) ==
  CASE kind = "CreateTask" -> "validate"
    [] kind \in {"UpdateTask", "DeleteTask", "CreateTaskBatch"} -> "lock"
    [] kind \in {"CreateComment", "DeleteComment"} -> "resolve"
    [] kind \in {"UpdateProject", "DeleteProject"} -> "lockProject"

\* The ids a client can name: it got them from the server.
Names(r) ==
  CASE r.kind = "CreateTask" -> {r.project} \cup ToSet(r.deps)
    [] r.kind = "UpdateTask" /\ r.deps # None -> {r.task} \cup ToSet(r.deps)
    [] r.kind = "UpdateTask" /\ r.deps = None -> {r.task}
    [] r.kind \in {"DeleteTask", "CreateTaskBatch", "CreateComment"} -> {r.task}
    [] r.kind = "DeleteComment" -> {r.comment}
    [] r.kind \in {"UpdateProject", "DeleteProject"} -> {r.project}

NewTasks(r) == CASE r.kind = "CreateTask" -> 1
                 [] r.kind = "CreateTaskBatch" -> Len(r.subs)
                 [] OTHER -> 0

\* Ids not in use: never committed, and not another transaction's.
FreshTasks == Task \ (used \cup UNION {ToSet(txn[t].fresh) : t \in Txn})

FreshComments == Comment \ (used \cup {txn[t].comment : t \in Txn})

Begin(t, r) ==
  /\ txn[t].pc = "idle"
  /\ Names(r) \subseteq used
  /\ \A p \in Project : projects[p] # None => projects[p].lastSeq < MaxSeq
  /\ r.kind = "CreateTaskBatch" => ValidSuggestions(r.subs)
  /\ \E ids \in [1..NewTasks(r) -> FreshTasks],
        c \in IF r.kind = "CreateComment" THEN FreshComments ELSE {None} :
       /\ IsInjective(ids)
       /\ Go(t, [Idle EXCEPT !.req = r, !.pc = FirstPC(r.kind),
                             !.fresh = ids, !.comment = c])

\* CreateProject: a single statement, outside the event log.
CreateProjectUpsert(p, name) == \* mutant: on an id in use, starts it again
  /\ "CreateProject" \in Kinds
  /\ projects' = [projects EXCEPT ![p] = [name |-> name, lastSeq |-> 0]]
  /\ used' = used \cup {p}
  /\ UNCHANGED <<tasks, deps, comments, events, txn>>
CreateProject(p, name) ==
  /\ "CreateProject" \in Kinds
  /\ p \notin used
  /\ projects' = [projects EXCEPT ![p] = [name |-> name, lastSeq |-> 0]]
  /\ used' = used \cup {p}
  /\ UNCHANGED <<tasks, deps, comments, events, txn>>

-----------------------------------------------------------------------------
(* CreateTask: validateDependencies, INSERT INTO tasks. *)

CreateTaskValidate(t) ==
  /\ At(t, {"CreateTask"}, "validate")
  /\ LET r == txn[t].req
         k == txn[t].fresh[1] IN
     \/ /\ ~ ValidDependencies(t, k, r.project, ToSet(r.deps))
        /\ Rollback(t)
     \/ /\ ValidDependencies(t, k, r.project, ToSet(r.deps))
        /\ Go(t, [txn[t] EXCEPT !.project = r.project, !.pc = "insertTask"])

CreateTaskInsert(t) ==
  /\ At(t, {"CreateTask"}, "insertTask")
  /\ LET r == txn[t].req
         k == txn[t].fresh[1]
         row == [project |-> r.project, title |-> r.title, status |-> r.status]
     IN
     \/ projects[r.project] = None /\ Rollback(t)
     \/ /\ projects[r.project] # None
        /\ Go(t, Continue([Locked(t) EXCEPT
             !.puts = [@ EXCEPT ![k] = row],
             !.pending = [i \in DOMAIN r.deps |-> <<k, r.deps[i]>>],
             !.out = <<[type |-> "task.created", task |-> k, row |-> row,
                        deps |-> ToSet(r.deps)]>>]))

-----------------------------------------------------------------------------
(* UpdateTask *)

PatchedOverwrite(v, old) == v  \* mutant: writes the absent field
Patched(v, old) == IF v = None THEN old ELSE v

\* A task's row with the title and the status r has for it, if any.
PatchedRow(r, row) ==
  [project |-> row.project, title |-> Patched(r.title, row.title),
   status |-> Patched(r.status, row.status)]

\* SELECT ... FOR UPDATE, then the aggregate read of the row and its edges
\* (which the lock lets only shrink, so the read is not a step of its own).
UpdateTaskLock(t) ==
  /\ At(t, {"UpdateTask"}, "lock")
  /\ LET r == txn[t].req IN
     \/ tasks[r.task] = None /\ Rollback(t)
     \/ /\ tasks[r.task] # None
        /\ Go(t, [Locked(t) EXCEPT
             !.current = tasks[r.task],
             !.project = tasks[r.task].project,
             !.read = DirectDeps(r.task),
             !.pc = CASE r.deps # None -> "validate"
                      [] r.deps = None /\ r.status = "done" -> "complete"
                      [] OTHER -> "write"])

UpdateTaskValidate(t) ==
  /\ At(t, {"UpdateTask"}, "validate")
  /\ LET r == txn[t].req
         ds == ToSet(r.deps) IN
     \/ ~ ValidDependencies(t, r.task, txn[t].project, ds) /\ Rollback(t)
     \/ /\ ValidDependencies(t, r.task, txn[t].project, ds)
        /\ Go(t, [txn[t] EXCEPT
             !.read = ds,
             !.pc = IF r.status = "done" THEN "complete" ELSE "write"])

UpdateTaskComplete(t) ==
  /\ At(t, {"UpdateTask"}, "complete")
  /\ \/ ~ CanComplete(t, txn[t].read) /\ Rollback(t)
     \/ CanComplete(t, txn[t].read) /\ Go(t, [txn[t] EXCEPT !.pc = "write"])

\* UPDATE tasks writes every column back, patched or as read; with a
\* dependency patch, DELETE FROM task_dependencies of the old list.
UpdateTaskWrite(t) ==
  /\ At(t, {"UpdateTask"}, "write")
  /\ LET r == txn[t].req
         row == PatchedRow(r, txn[t].current)
         updated == IF r.title = None /\ r.status = None THEN << >>
                    ELSE <<[type |-> "task.updated", task |-> r.task,
                            title |-> r.title, status |-> r.status]>>
         write == [Locked(t) EXCEPT !.puts = [@ EXCEPT ![r.task] = row]]
     IN
     \/ /\ r.deps = None
        /\ Go(t, Continue([write EXCEPT !.out = updated]))
     \/ /\ r.deps # None
        /\ Go(t, Continue([write EXCEPT
             !.del = {e \in deps : e[1] = r.task},
             !.pending = [i \in DOMAIN r.deps |-> <<r.task, r.deps[i]>>],
             !.out = Append(updated,
                       [type |-> "task.dependencies_changed", task |-> r.task,
                        dependsOn |-> ToSet(r.deps)])]))

-----------------------------------------------------------------------------
(* DeleteTask: lock and read the dependents, DELETE with its cascades. *)

DeleteTaskLock(t) ==
  /\ At(t, {"DeleteTask"}, "lock")
  /\ LET k == txn[t].req.task IN
     \/ tasks[k] = None /\ Rollback(t)
     \/ /\ tasks[k] # None
        /\ Go(t, [Locked(t) EXCEPT !.project = tasks[k].project,
                                   !.read = Dependents(k), !.pc = "cascade"])

DeleteTaskCascade(t) ==
  /\ At(t, {"DeleteTask"}, "cascade")
  /\ LET k == txn[t].req.task IN
     Go(t, Continue([Locked(t) EXCEPT
       !.del = TaskCascade(k),
       !.out = <<[type |-> "task.deleted", task |-> k,
                  removedFromDependenciesOf |-> txn[t].read]>>]))

-----------------------------------------------------------------------------
(* CreateTaskBatch *)

\* The batch's terminal subtasks: no other subtask depends on them.
TerminalsLast(subs) == {Len(subs)}  \* mutant: as if subs were a chain
Terminals(subs) ==
  {i \in 1..Len(subs) : \A j \in 1..Len(subs) : i \notin subs[j].dependsOn}

BatchRow(x, i) == [project |-> x.project, title |-> x.req.subs[i].title,
                   status |-> "todo"]

BatchDeps(x, i) == {x.fresh[j] : j \in x.req.subs[i].dependsOn}

BatchLock(t) ==
  /\ At(t, {"CreateTaskBatch"}, "lock")
  /\ LET k == txn[t].req.task IN
     \/ tasks[k] = None /\ Rollback(t)
     \/ /\ tasks[k] # None
        /\ Go(t, [Locked(t) EXCEPT !.project = tasks[k].project,
                                   !.read = DirectDeps(k),
                                   !.pc = "insertTask"])

\* The INSERTs of the subtasks and of the edges among them: after the first
\* one no other transaction can make the rest wait.
BatchInsert(t) ==
  /\ At(t, {"CreateTaskBatch"}, "insertTask")
  /\ LET ids == txn[t].fresh IN
     Go(t, [Locked(t) EXCEPT
       !.puts = [k \in Task |->
                   IF k \in ToSet(ids)
                   THEN BatchRow(txn[t], CHOOSE i \in DOMAIN ids : ids[i] = k)
                   ELSE @[k]],
       !.addDeps = UNION {{ids[i]} \X BatchDeps(txn[t], i) : i \in DOMAIN ids},
       !.pc = "validate"])

\* The batch's events: its tasks in the order they were made, then the parent.
BatchEventsParentFirst(created, changed) == <<changed>> \o created  \* mutant
BatchEvents(created, changed) == Append(created, changed)

\* The parent's new list is the one read under its lock plus the terminals;
\* only the terminals are inserted (in an order nobody can observe).
BatchValidate(t) ==
  /\ At(t, {"CreateTaskBatch"}, "validate")
  /\ LET x == txn[t]
         r == x.req
         ids == x.fresh
         last == SetToSeq(Terminals(r.subs))
         added == [i \in DOMAIN last |-> <<r.task, ids[last[i]]>>]
         list == x.read \cup {ids[last[i]] : i \in DOMAIN last}
         created == [i \in DOMAIN ids |->
                       [type |-> "task.created", task |-> ids[i],
                        row |-> BatchRow(x, i), deps |-> BatchDeps(x, i)]]
     IN
     \/ ~ ValidDependencies(t, r.task, x.project, list) /\ Rollback(t)
     \/ /\ ValidDependencies(t, r.task, x.project, list)
        /\ Go(t, Continue([x EXCEPT
             !.pending = added,
             !.out = BatchEvents(created,
                       [type |-> "task.dependencies_changed",
                        task |-> r.task, dependsOn |-> list])]))

-----------------------------------------------------------------------------
(* CreateComment, DeleteComment: an unlocked read resolves the project. *)

CreateCommentResolve(t) ==
  /\ At(t, {"CreateComment"}, "resolve")
  /\ LET k == txn[t].req.task IN
     \/ tasks[k] = None /\ Rollback(t)
     \/ /\ tasks[k] # None
        /\ Go(t, [txn[t] EXCEPT !.project = tasks[k].project,
                                !.pc = "insertComment"])

CreateCommentInsert(t) ==
  /\ At(t, {"CreateComment"}, "insertComment")
  /\ LET k == txn[t].req.task IN
     \/ tasks[k] = None /\ Rollback(t)
     \/ /\ tasks[k] # None
        /\ Go(t, Continue([Locked(t) EXCEPT
             !.out = <<[type |-> "comment.added",
                        comment |-> txn[t].comment, task |-> k]>>]))

DeleteCommentResolve(t) ==
  /\ At(t, {"DeleteComment"}, "resolve")
  /\ LET c == txn[t].req.comment
         k == comments[c]
         found == k # None /\ tasks[k] # None IN
     \/ ~ found /\ Rollback(t)
     \/ /\ found
        /\ Go(t, [txn[t] EXCEPT
             !.project = tasks[k].project,
             !.out = <<[type |-> "comment.deleted", comment |-> c, task |-> k]>>,
             !.pc = "deleteComment"])

\* The code does not look at the number of rows: a comment another
\* transaction has deleted meanwhile gets its comment.deleted all the same.
DeleteCommentRow(t) ==
  /\ At(t, {"DeleteComment"}, "deleteComment")
  /\ Go(t, Continue([Locked(t) EXCEPT !.del = {txn[t].req.comment}]))

-----------------------------------------------------------------------------
(* UpdateProject, DeleteProject *)

UpdateProjectLock(t) ==
  /\ At(t, {"UpdateProject"}, "lockProject")
  /\ LET r == txn[t].req IN
     \/ projects[r.project] = None /\ Rollback(t)
     \/ /\ projects[r.project] # None
        /\ Go(t, Continue([Locked(t) EXCEPT
             !.project = r.project,
             !.out = IF r.name = None THEN << >>
                     ELSE <<[type |-> "project.updated", name |-> r.name]>>]))

\* DELETE FROM projects: the row first, then the cascades, which wait for
\* whatever transactions still hold the project's rows.
DeleteProjectLock(t) ==
  /\ At(t, {"DeleteProject"}, "lockProject")
  /\ LET p == txn[t].req.project IN
     \/ projects[p] = None /\ Rollback(t)
     \/ projects[p] # None /\ Go(t, [Locked(t) EXCEPT !.pc = "cascade"])

DeleteProjectCascade(t) ==
  /\ At(t, {"DeleteProject"}, "cascade")
  /\ LET p == txn[t].req.project IN
     Go(t, Continue([Locked(t) EXCEPT !.del = {p} \cup ProjectCascade(p)]))

-----------------------------------------------------------------------------
(* The statements every operation shares. *)

\* The constraints of task_dependencies: the primary key refuses a duplicate
\* edge, the foreign keys an end that is gone.
EdgeAllowedNoForeignKey(t, e) == e \notin DepsSeen(t)  \* mutant
EdgeAllowed(t, e) ==
  e \notin DepsSeen(t) /\ TaskSeen(t, e[1]) # None /\ TaskSeen(t, e[2]) # None

\* insertDependencies, one INSERT of its loop.
InsertDependency(t) ==
  /\ At(t, Kinds, "insertDeps")
  /\ LET e == Head(txn[t].pending) IN
     \/ ~ EdgeAllowed(t, e) /\ Rollback(t)
     \/ /\ EdgeAllowed(t, e)
        /\ Go(t, Continue([Locked(t) EXCEPT !.addDeps = @ \cup {e},
                                            !.pending = Tail(@)]))

RecordEventFromRow(t) == \* mutant: the committed last_seq, not t's version
  /\ At(t, Kinds, "record")
  /\ LET x == txn[t]
         seq == 1 + projects[x.project].lastSeq IN
     /\ projects[x.project] # None
     /\ Go(t, Continue([Locked(t) EXCEPT
          !.lastSeq = seq,
          !.evs = @ \cup {[project |-> x.project, seq |-> seq,
                           body |-> Head(x.out)]},
          !.out = Tail(@)]))

\* recordEvent: UPDATE projects SET last_seq = last_seq + 1 ... RETURNING,
\* on the newest version of the row, and the INSERT of the event.
RecordEvent(t) ==
  /\ At(t, Kinds, "record")
  /\ LET x == txn[t]
         seq == 1 + IF x.lastSeq = 0 THEN projects[x.project].lastSeq
                    ELSE x.lastSeq IN
     \/ projects[x.project] = None /\ Rollback(t)
     \/ /\ projects[x.project] # None
        /\ Go(t, Continue([Locked(t) EXCEPT
             !.lastSeq = seq,
             !.evs = @ \cup {[project |-> x.project, seq |-> seq,
                              body |-> Head(x.out)]},
             !.out = Tail(@)]))

\* The rows of `projects` once t has committed.  Its own version of last_seq
\* goes with the new name if it is an UpdateProject that changed one.
ProjectAfterSeqOnly(t, p) == \* mutant: the old name goes with the new last_seq
  LET x == txn[t] IN
  CASE p \in x.del -> None
    [] p \notin x.del /\ p = x.project /\ x.lastSeq > 0 ->
         [projects[p] EXCEPT !.lastSeq = x.lastSeq]
    [] OTHER -> projects[p]
ProjectAfter(t, p) ==
  LET x == txn[t] IN
  CASE p \in x.del -> None
    [] p \notin x.del /\ p = x.project /\ x.lastSeq > 0 ->
         [name |-> IF x.req.kind = "UpdateProject" THEN x.req.name
                   ELSE projects[p].name,
          lastSeq |-> x.lastSeq]
    [] OTHER -> projects[p]

CommentAfter(t, c) ==
  CASE c \in txn[t].del -> None
    [] c \notin txn[t].del /\ c = txn[t].comment -> txn[t].req.task
    [] OTHER -> comments[c]

Commit(t) ==
  /\ At(t, Kinds, "commit")
  /\ projects' = [p \in Project |-> ProjectAfter(t, p)]
  /\ tasks' = [k \in Task |-> TaskSeen(t, k)]
  /\ deps' = DepsSeen(t)
  /\ comments' = [c \in Comment |-> CommentAfter(t, c)]
  /\ events' = {e \in events : e.project \notin txn[t].del} \cup txn[t].evs
  /\ used' = used \cup ToSet(txn[t].fresh) \cup ({txn[t].comment} \ {None})
  /\ txn' = [txn EXCEPT ![t] = Idle]

\* The connection breaks, the request's context is cancelled or the server
\* stops: Postgres rolls back.
Fail(t) == txn[t].pc # "idle" /\ Rollback(t)

\* Postgres aborts a transaction it finds on a cycle of waits.
DeadlockVictim(t) == txn[t].pc # "idle" /\ InDeadlock(t) /\ Rollback(t)

Statement(t) ==
  \/ CreateTaskValidate(t) \/ CreateTaskInsert(t)
  \/ UpdateTaskLock(t) \/ UpdateTaskValidate(t) \/ UpdateTaskComplete(t)
  \/ UpdateTaskWrite(t)
  \/ DeleteTaskLock(t) \/ DeleteTaskCascade(t)
  \/ BatchLock(t) \/ BatchInsert(t) \/ BatchValidate(t)
  \/ CreateCommentResolve(t) \/ CreateCommentInsert(t)
  \/ DeleteCommentResolve(t) \/ DeleteCommentRow(t)
  \/ UpdateProjectLock(t) \/ DeleteProjectLock(t) \/ DeleteProjectCascade(t)
  \/ InsertDependency(t) \/ RecordEvent(t) \/ Commit(t)
  \/ DeadlockVictim(t)

Next ==
  \/ \E p \in Project, name \in Text : CreateProject(p, name)
  \/ \E t \in Txn : \/ \E r \in Request : Begin(t, r)
                    \/ Statement(t)
                    \/ Fail(t)

Spec == Init /\ [][Next]_vars

\* Waiters are served (Postgres queues them in order), so a statement that is
\* enabled again and again runs.  No client has to call, nothing has to fail.
Fairness == \A t \in Txn : SF_vars(Statement(t))

-----------------------------------------------------------------------------
(* Properties. *)

\* The committed log of p, by seq.
LogOf(p) == [i \in 1..projects[p].lastSeq |->
               (CHOOSE e \in events : e.project = p /\ e.seq = i).body]

\* What a client that knows nothing becomes by applying event b to what it
\* shows (applyEvent in ProjectDetail.tsx; a task's list is its edges).  The
\* board ignores comment events, which make the panel fetch its comments anew
\* (TaskPanel.tsx): this reader keeps them by the events, too.
ApplyEvent(v, b) ==
  CASE b.type = "task.created" /\ v.tasks[b.task] = None ->
         [v EXCEPT !.tasks = [@ EXCEPT ![b.task] = b.row],
                   !.deps = @ \cup ({b.task} \X b.deps)]
    [] b.type = "task.updated" /\ v.tasks[b.task] # None ->
         [v EXCEPT !.tasks = [@ EXCEPT ![b.task] = PatchedRow(b, v.tasks[b.task])]]
    [] b.type = "task.dependencies_changed" /\ v.tasks[b.task] # None ->
         [v EXCEPT !.deps = {e \in @ : e[1] # b.task}
                              \cup ({b.task} \X b.dependsOn)]
    [] b.type = "task.deleted" ->
         [v EXCEPT !.tasks = [@ EXCEPT ![b.task] = None],
                   !.deps = {e \in @ : e[1] # b.task}
                      \ (b.removedFromDependenciesOf \X {b.task}),
                   !.comments = [c \in Comment |->
                                   IF @[c] = b.task THEN None ELSE @[c]]]
    [] b.type = "comment.added" ->
         [v EXCEPT !.comments = [@ EXCEPT ![b.comment] = b.task]]
    [] b.type = "comment.deleted" ->
         [v EXCEPT !.comments = [@ EXCEPT ![b.comment] = None]]
    [] b.type = "project.updated" -> [v EXCEPT !.name = b.name]
    [] OTHER -> v

EmptyView == [name |-> None, tasks |-> [k \in Task |-> None], deps |-> {},
              comments |-> [c \in Comment |-> None]]

\* The view after each prefix of the log.
Views(log) ==
  LET view[n \in 0..Len(log)] ==
        IF n = 0 THEN EmptyView ELSE ApplyEvent(view[n-1], log[n])
  IN  view

Replay(log) == Views(log)[Len(log)]

\* Every project's log holds the seqs 1 to last_seq, each once: a mutation
\* that fails or rolls back burns none, no two transactions claim the same.
\* (recordEvent, and the tests of store_test.go on gapless logs.)
GaplessLog ==
  \A p \in Project :
    /\ projects[p] = None => \A e \in events : e.project # p
    /\ projects[p] # None =>
         /\ \A e \in events : e.project = p => e.seq \in 1..projects[p].lastSeq
         /\ \A i \in 1..projects[p].lastSeq :
              \E e \in events : e.project = p /\ e.seq = i
    /\ \A e, f \in events :
         e.project = p /\ f.project = p /\ e.seq = f.seq => e = f

\* Project p as the tables have it is what v shows, and its edges.
BoardMatches(p, v, edges) ==
  /\ v.name \in {None, projects[p].name}
  /\ v.tasks = [k \in Task |-> IF k \in TasksOf(p) THEN tasks[k] ELSE None]
  /\ edges = {e \in deps : e[1] \in TasksOf(p)}
  /\ v.comments = [c \in Comment |-> IF comments[c] \in TasksOf(p)
                                     THEN comments[c] ELSE None]

\* A client that applies the whole log of a project shows what its tables
\* hold: no committed write is missing from the log, no payload is stale, no
\* column is written back over another transaction's change.
LogMatchesTables ==
  \A p \in Project : projects[p] # None =>
    LET v == Replay(LogOf(p)) IN BoardMatches(p, v, v.deps)

\* The same, but for dependencies on tasks the client no longer shows, which
\* the log of a breakdown may name (CreateTaskBatch reads its parent's list
\* before it validates it).
LogMatchesLiveTasks ==
  \A p \in Project : projects[p] # None =>
    LET v == Replay(LogOf(p)) IN
    BoardMatches(p, v, {e \in v.deps : v.tasks[e[2]] # None})

\* Event body b creates task d.
Creates(b, d) == b.type = "task.created" /\ b.task = d

\* The tasks an event other than a creation speaks of.
TasksNamed(b) ==
  CASE b.type = "task.dependencies_changed" -> {b.task} \cup b.dependsOn
    [] b.type = "task.deleted" -> {b.task} \cup b.removedFromDependenciesOf
    [] b.type \in {"task.updated", "comment.added", "comment.deleted"} -> {b.task}
    [] OTHER -> {}

\* The log of a task's project creates it once, before any other event speaks
\* of it, so a client that replays patches, deletes and comments on tasks it
\* has been told of.  A new task may depend on one that follows it in its own
\* batch, never on one the log does not create at all.
NoForwardReference ==
  \A e \in events :
    LET created == {f \in events : f.project = e.project /\ f.body.type = "task.created"}
        earlier == {f \in created : f.seq < e.seq} IN
    IF e.body.type = "task.created"
    THEN /\ \A f \in earlier : f.body.task # e.body.task
         /\ e.body.deps \subseteq {f.body.task : f \in created}
    ELSE TasksNamed(e.body) \subseteq {f.body.task : f \in earlier}

\* Every edge joins two existing tasks of one project: validation and the
\* foreign keys hold up against deletions that run at the same time.
DependenciesWithinProject ==
  \A e \in deps : /\ tasks[e[1]] # None /\ tasks[e[2]] # None
                  /\ tasks[e[1]].project = tasks[e[2]].project

\* No task depends on itself, directly or through others.
Acyclic == \A k \in Task : k \notin Reach(deps, DirectDeps(k))

\* No task depends on itself and no two on each other, whatever runs at once:
\* a patch holds its task's row to the end, and an edge to that task needs it
\* too, so two patches that name each other's task deadlock.
NoMutualDependency == \A e \in deps : <<e[2], e[1]>> \notin deps

\* A task becomes done only when everything it depends on is done.
CompletedAfterDependencies ==
  [][\A k \in Task :
       /\ tasks[k] # None /\ tasks'[k] # None
       /\ tasks[k].status # "done" /\ tasks'[k].status = "done"
       => \A e \in deps' : e[1] = k => tasks'[e[2]].status = "done"]_vars

\* When a breakdown commits, its parent depends, directly or not, on every
\* subtask: the parent is the finish line whatever happened meanwhile.
ParentIsFinishLine ==
  [][\A t \in Txn :
       txn[t].req # None /\ txn[t].pc = "commit" /\ txn'[t].pc = "idle"
       /\ txn[t].req.kind = "CreateTaskBatch" /\ deps' # deps
       => ToSet(txn[t].fresh) \subseteq Reach(deps', {txn[t].req.task})]_vars

\* The log as its readers are promised it.
Promise == INSTANCE EventLog WITH
  Gone <- None,
  log <- [p \in Project |-> IF projects[p] = None THEN None ELSE LogOf(p)]
ImplementsEventLog == Promise!Spec

\* Every operation ends, committed or rolled back: no wait for a lock and no
\* cycle of waits lasts for ever.
EveryOperationEnds ==
  \A t \in Txn : txn[t].pc # "idle" ~> txn[t].pc = "idle"

-----------------------------------------------------------------------------
(* What makes GaplessLog inductive (TaskStoreProofs). *)

\* No two open transactions hold conflicting locks on a row.
LocksExclusive ==
  \A t, u \in Txn : t # u =>
    \A l \in txn[t].locks, m \in txn[u].locks :
      l.row = m.row => ~ Conflict(l.mode, m.mode)

Holds(x, row, modes) == \E l \in x.locks : l.row = row /\ l.mode \in modes

\* What a transaction knows by the kind of its operation.
RequestOK(x) ==
  /\ x.req.kind = "CreateTask" => Len(x.fresh) = 1
  /\ x.req.kind = "CreateTaskBatch" =>
       /\ Len(x.fresh) = Len(x.req.subs)
       /\ \A i \in 1..Len(x.req.subs) :
            x.req.subs[i].dependsOn \subseteq 1..Len(x.req.subs)
       /\ x.pc \in {"insertTask", "validate"} => x.project \in Project
  /\ x.req.kind = "CreateComment" => x.comment \in Comment
  /\ x.req.kind = "UpdateTask" /\ x.pc \in {"validate", "complete", "write"} =>
       x.project \in Project /\ x.current \in TaskRow
  /\ x.req.kind = "UpdateTask" /\ x.pc = "validate" => x.req.deps # None
  /\ x.req.kind = "DeleteTask" /\ x.pc = "cascade" => x.project \in Project
  /\ x.req.kind = "UpdateProject" /\ (x.out # << >> \/ x.lastSeq > 0) =>
       x.req.name \in Text
  /\ x.req.kind = "DeleteProject" =>
       x.pending = << >> /\ x.out = << >> /\ x.lastSeq = 0

\* What a transaction knows at each statement.
ShapeOK(x) ==
  /\ x.pc \notin {"record", "commit"} => x.lastSeq = 0 /\ x.evs = {}
  /\ x.pc = "insertDeps" => x.pending # << >>
  /\ x.pc = "record" => x.out # << >> /\ x.pending = << >>
  /\ x.pc \in {"complete", "write", "insertTask", "insertComment",
               "deleteComment", "insertDeps", "record"} => x.project \in Project
  /\ x.comment # None => x.req.kind = "CreateComment"
  /\ x.pc # "idle" => x.req # None
  /\ x.pc # "idle" => RequestOK(x)

\* The seqs a transaction has claimed follow last_seq without a gap, and it
\* holds the project row from the first claim on.
ClaimsOK(x) ==
  /\ x.lastSeq = 0 => x.evs = {}
  /\ x.lastSeq > 0 =>
       /\ x.project \in Project
       /\ projects[x.project] # None
       /\ Holds(x, x.project, {"noKeyUpdate", "update"})
       /\ projects[x.project].lastSeq < x.lastSeq
       /\ \A e \in x.evs :
            /\ e.project = x.project
            /\ e.seq \in (projects[x.project].lastSeq + 1)..x.lastSeq
       /\ \A i \in (projects[x.project].lastSeq + 1)..x.lastSeq :
            \E e \in x.evs : e.seq = i
       /\ \A e, f \in x.evs : e.seq = f.seq => e = f
  /\ \A p \in Project : p \in x.del =>
       /\ x.req.kind = "DeleteProject" /\ p = x.req.project
       /\ Holds(x, p, {"update"})

LogInvariant ==
  /\ LocksExclusive
  /\ \A t \in Txn : ShapeOK(txn[t]) /\ ClaimsOK(txn[t])
  /\ \A p \in Project : projects[p] # None => p \in used
  /\ GaplessLog

-----------------------------------------------------------------------------
(* What makes DependenciesWithinProject inductive (RowsProofs). *)

\* An id is handed out once.
IdsUsedOnce ==
  /\ \A k \in Task : tasks[k] # None => k \in used
  /\ \A t \in Txn : ToSet(txn[t].fresh) \cap used = {}
  /\ \A t, u \in Txn : t # u => ToSet(txn[t].fresh) \cap ToSet(txn[u].fresh) = {}

\* d is or was a task of x's project, or x made it one: whatever row has the
\* id d when x's statement looks is of that project.
MayLink(x, d) ==
  \/ x.puts[d] # None
  \/ d \in used /\ (tasks[d] # None => tasks[d].project = x.project)

\* d stays a task of x's project until x ends.
Linked(x, d) ==
  \/ x.puts[d] # None
  \/ /\ tasks[d] # None /\ tasks[d].project = x.project
     /\ Holds(x, d, Mode)

\* The rows x has written are of its project, new or locked.
WritesOK(x) ==
  /\ \A k \in Task : x.puts[k] # None =>
       /\ x.puts[k].project = x.project
       /\ \/ /\ k \in ToSet(x.fresh)
             /\ projects[x.project] # None /\ Holds(x, x.project, Mode)
          \/ x.req.kind = "UpdateTask" /\ k = x.req.task
  /\ \A i \in DOMAIN x.pending :
       MayLink(x, x.pending[i][1]) /\ MayLink(x, x.pending[i][2])
  /\ \A e \in x.addDeps : Linked(x, e[1]) /\ Linked(x, e[2])

\* The rows x has deleted go with all that refers to them.
DeletesOK(x) ==
  /\ x.del \cap (Project \cup Task) # {} => x.req.kind \in {"DeleteTask", "DeleteProject"}
  /\ x.req.kind \in {"DeleteTask", "DeleteProject"} =>
       /\ x.addDeps = {} /\ x.pending = << >>
       /\ \A k \in Task : x.puts[k] = None
  /\ \A k \in Task \cap x.del :
       /\ k \in used /\ Holds(x, k, {"update"})
       /\ \A e \in deps : k \in {e[1], e[2]} => e \in x.del
  /\ \A p \in Project \cap x.del : TasksOf(p) \subseteq x.del

\* x has touched no row yet.
Unwritten(x) ==
  /\ \A k \in Task : x.puts[k] = None
  /\ x.addDeps = {} /\ x.pending = << >> /\ x.del = {}

\* What x has read and checked, as far as it can rely on it.
ReadsOK(x) ==
  /\ \/ x.pc \in {"lock", "resolve", "lockProject"}
     \/ x.pc = "validate" /\ x.req.kind = "CreateTask"
     => Unwritten(x)
  /\ x.req.kind \in {"UpdateTask", "DeleteTask", "CreateTaskBatch"} /\ x.pc # "lock" =>
       /\ tasks[x.req.task] # None /\ tasks[x.req.task].project = x.project
       /\ Holds(x, x.req.task, {"update"})
  /\ x.req.kind = "UpdateTask" /\ x.pc \in {"validate", "complete", "write"} =>
       x.current.project = x.project
  /\ x.req.kind = "CreateTask" /\ x.pc = "insertTask" => x.project = x.req.project
  /\ \/ x.req.kind = "CreateTask" /\ x.pc = "insertTask"
     \/ x.req.kind = "UpdateTask" /\ x.pc \in {"complete", "write"} /\ x.req.deps # None
     => \A d \in ToSet(x.req.deps) : MayLink(x, d)
  /\ x.req.kind = "DeleteProject" /\ x.pc = "cascade" =>
       Holds(x, x.req.project, {"update"})

\* Every task's project exists, every edge joins tasks of one project, and
\* what the open transactions are about to commit keeps it so.
RowsInvariant ==
  /\ IdsUsedOnce
  /\ \A k \in Task : tasks[k] # None => projects[tasks[k].project] # None
  /\ DependenciesWithinProject
  /\ \A t \in Txn : txn[t].pc # "idle" =>
       WritesOK(txn[t]) /\ DeletesOK(txn[t]) /\ ReadsOK(txn[t])

-----------------------------------------------------------------------------
(* What makes NoForwardReference inductive (RowsProofs). *)

\* The log of p, if p still has one, creates d.
Told(p, d) ==
  p \in Project /\ projects[p] # None =>
    \E e \in events : e.project = p /\ Creates(e.body, d)

\* x creates d: by an event it has recorded or by one it is going to record.
Recorded(x, d) == \E e \in x.evs : Creates(e.body, d)
Makes(x, d) == Recorded(x, d) \/ \E i \in DOMAIN x.out : Creates(x.out[i], d)

\* x creates only its own new tasks, each once, and names no task in an event
\* before the log has it.
BlockOK(x) ==
  /\ \A i, j \in DOMAIN x.fresh : x.fresh[i] = x.fresh[j] => i = j
  /\ \A d \in Task : Makes(x, d) => d \in ToSet(x.fresh)
  /\ \A d \in Task : \A e, f \in x.evs : Creates(e.body, d) /\ Creates(f.body, d) => e = f
  /\ \A d \in Task : \A i, j \in DOMAIN x.out :
       Creates(x.out[i], d) /\ Creates(x.out[j], d) => i = j /\ ~ Recorded(x, d)
  /\ \A b \in {e.body : e \in x.evs} \cup ToSet(x.out) :
       b.type = "task.created" => \A d \in b.deps : Told(x.project, d) \/ Makes(x, d)
  /\ \A e \in x.evs : e.body.type # "task.created" =>
       \A d \in TasksNamed(e.body) :
         \/ Told(x.project, d)
         \/ \E f \in x.evs : f.seq < e.seq /\ Creates(f.body, d)
  /\ \A i \in DOMAIN x.out : x.out[i].type # "task.created" =>
       \A d \in TasksNamed(x.out[i]) :
         \/ Told(x.project, d) \/ Recorded(x, d)
         \/ \E j \in DOMAIN x.out : j < i /\ Creates(x.out[j], d)

\* What x has read and checked is in the log, and what it has written is or
\* will be.
ReadsTold(x) ==
  /\ x.project # None => x.project \in used
  /\ x.req.kind \in {"UpdateTask", "DeleteTask", "CreateTaskBatch"} /\ x.pc # "lock" =>
       Told(x.project, x.req.task)
  /\ x.req.kind \in {"DeleteTask", "CreateTaskBatch"} /\ x.pc # "lock" =>
       \A d \in x.read : Told(x.project, d)
  /\ \/ x.req.kind = "CreateTask" /\ x.pc = "insertTask"
     \/ x.req.kind = "UpdateTask" /\ x.pc \in {"complete", "write"} /\ x.req.deps # None
     => \A d \in ToSet(x.req.deps) : Told(x.project, d)
  /\ x.req.kind = "CreateComment" /\ x.pc = "insertComment" =>
       Told(x.project, x.req.task)
  /\ x.req.kind = "CreateTask" /\ x.pc = "validate" => x.req.project \in used
  /\ x.pc \notin {"deleteComment", "insertDeps", "record"} => x.out = << >>
  /\ \A k \in Task : x.puts[k] # None =>
       IF x.pc \in {"insertDeps", "record", "commit"}
       THEN Told(x.project, k) \/ Makes(x, k)
       ELSE x.req.kind = "CreateTaskBatch" /\ k \in ToSet(x.fresh)

\* Every task is in the log of its project, and what the open transactions
\* are about to commit keeps it so.
NamesInvariant ==
  /\ NoForwardReference
  /\ \A k \in Task : tasks[k] # None => Told(tasks[k].project, k)
  /\ \A e \in events, d \in Task : Creates(e.body, d) => d \in used
  /\ \A t \in Txn : txn[t].pc # "idle" => BlockOK(txn[t]) /\ ReadsTold(txn[t])

-----------------------------------------------------------------------------
(* What makes LogMatchesTables inductive (ReplayProofs). *)

View == [name : Text \cup {None}, tasks : [Task -> TaskRow \cup {None}],
         deps : SUBSET Edge, comments : [Comment -> Task \cup {None}]]

\* The tables, as far as p's events speak of them.
Tables(p) == [name |-> projects[p].name, tasks |-> tasks, deps |-> deps,
              comments |-> comments, used |-> used]

Live(s, p) == {k \in Task : s.tasks[k] # None /\ s.tasks[k].project = p}

\* v is project p as the tables s have it, but for dependencies on tasks that
\* are gone, which a breakdown may have told of.
Shows(v, p, s) ==
  /\ v \in View
  /\ v.name \in {None, s.name}
  /\ \A k \in Task : v.tasks[k] = IF k \in Live(s, p) THEN s.tasks[k] ELSE None
  /\ \A c \in Comment :
       v.comments[c] = IF s.comments[c] \in Live(s, p) THEN s.comments[c] ELSE None
  /\ \A e \in s.deps : e[1] \in Live(s, p) => e \in v.deps
  /\ \A e \in v.deps :
       /\ e[1] \in Live(s, p) /\ e[2] \in s.used
       /\ e[2] \in Live(s, p) => e \in s.deps
       /\ "CreateTaskBatch" \notin Kinds => e[2] \in Live(s, p)

\* x has run the statements of its own operation.
Ending(x) == x.pc \in {"insertDeps", "record", "commit"}

\* The rows it writes, and the edges it has inserted or is going to insert.
CreatedRow(r) == [project |-> r.project, title |-> r.title, status |-> r.status]
BatchPuts(x) ==
  [k \in Task |-> IF k \in ToSet(x.fresh)
                  THEN BatchRow(x, CHOOSE i \in DOMAIN x.fresh : x.fresh[i] = k)
                  ELSE None]
BatchEdges(x) == UNION {{x.fresh[i]} \X BatchDeps(x, i) : i \in DOMAIN x.fresh}
BatchEnds(x) == {x.fresh[i] : i \in Terminals(x.req.subs)}
Adding(x) == x.addDeps \cup ToSet(x.pending)

\* b is what x's operation records, from its first event to its last.
Says(x, b) ==
  LET r == x.req IN
  /\ r.kind = "CreateTask" =>
       b = <<[type |-> "task.created", task |-> x.fresh[1], row |-> CreatedRow(r),
              deps |-> ToSet(r.deps)]>>
  /\ r.kind = "UpdateTask" =>
       LET updated == IF r.title = None /\ r.status = None THEN << >>
                      ELSE <<[type |-> "task.updated", task |-> r.task,
                              title |-> r.title, status |-> r.status]>>
       IN  b = IF r.deps = None THEN updated
               ELSE Append(updated, [type |-> "task.dependencies_changed",
                                     task |-> r.task, dependsOn |-> ToSet(r.deps)])
  /\ r.kind = "DeleteTask" =>
       b = <<[type |-> "task.deleted", task |-> r.task,
              removedFromDependenciesOf |-> x.read]>>
  /\ r.kind = "CreateTaskBatch" =>
       b = Append([i \in DOMAIN x.fresh |->
                     [type |-> "task.created", task |-> x.fresh[i],
                      row |-> BatchRow(x, i), deps |-> BatchDeps(x, i)]],
                  [type |-> "task.dependencies_changed", task |-> r.task,
                   dependsOn |-> x.read \cup BatchEnds(x)])
  /\ r.kind = "CreateComment" =>
       b = <<[type |-> "comment.added", comment |-> x.comment, task |-> r.task]>>
  /\ r.kind = "DeleteComment" =>
       \E k \in Task :
         b = <<[type |-> "comment.deleted", comment |-> r.comment, task |-> k]>>
  /\ r.kind = "UpdateProject" =>
       b = IF r.name = None THEN << >>
           ELSE <<[type |-> "project.updated", name |-> r.name]>>
  /\ r.kind = "DeleteProject" => b = << >>

\* What x has recorded, right after the log of its project, and what it is
\* going to record.
Block(x) ==
  LET base == projects[x.project].lastSeq
      n == IF x.lastSeq = 0 THEN 0 ELSE x.lastSeq - base
  IN  [i \in 1..n |-> (CHOOSE e \in x.evs : e.seq = base + i).body] \o x.out

RecordsOK(x) ==
  /\ Ending(x) \/ x.pc = "deleteComment" => Says(x, Block(x))
  /\ x.pc = "commit" => x.out = << >> /\ x.pending = << >>

\* The comment c, once it has been committed, is on a task of x's project.
OnBoard(x, c) ==
  /\ c \in used
  /\ \A k \in Task : comments[c] = k /\ tasks[k] # None => tasks[k].project = x.project

\* What x writes is what its operation says.
ChangesOK(x) ==
  LET r == x.req
      nothing == \A k \in Task : x.puts[k] = None IN
  /\ ~ Ending(x) /\ ~ (r.kind = "CreateTaskBatch" /\ x.pc = "validate") => Unwritten(x)
  /\ r.kind = "CreateTaskBatch" /\ (Ending(x) \/ x.pc = "validate") =>
       /\ x.puts = BatchPuts(x) /\ x.del = {}
       /\ x.pc = "validate" => x.pending = << >>
       /\ Adding(x) = IF x.pc = "validate" THEN BatchEdges(x)
                      ELSE BatchEdges(x) \cup ({r.task} \X BatchEnds(x))
  /\ Ending(x) =>
     /\ r.kind = "CreateTask" =>
          /\ x.project = r.project
          /\ x.puts = [k \in Task |-> IF k = x.fresh[1] THEN CreatedRow(r) ELSE None]
          /\ Adding(x) = {x.fresh[1]} \X ToSet(r.deps) /\ x.del = {}
     /\ r.kind = "UpdateTask" =>
          /\ x.puts = [k \in Task |-> IF k = r.task THEN PatchedRow(r, tasks[k]) ELSE None]
          /\ r.deps = None => Adding(x) = {} /\ x.del = {}
          /\ r.deps # None =>
               /\ Adding(x) = {r.task} \X ToSet(r.deps)
               /\ x.del \subseteq {e \in Edge : e[1] = r.task}
               /\ {e \in deps : e[1] = r.task} \subseteq x.del
     /\ r.kind \in {"CreateComment", "DeleteComment", "UpdateProject"} =>
          nothing /\ Adding(x) = {}
     /\ r.kind = "CreateComment" => x.del = {} /\ Linked(x, r.task)
     /\ r.kind = "DeleteComment" => x.del = {r.comment}
     /\ r.kind = "UpdateProject" => x.del = {} /\ x.project = r.project
     /\ r.kind = "DeleteTask" => Task \cap x.del = {r.task}
     /\ r.kind = "DeleteProject" =>
          /\ r.project \in x.del
          /\ \A k \in Task \cap x.del : tasks[k] # None /\ tasks[k].project = r.project
     /\ r.kind \in {"DeleteTask", "DeleteProject"} =>
          /\ \A e \in Edge \cap x.del :
               IF r.kind = "DeleteTask" THEN r.task \in {e[1], e[2]}
               ELSE e[1] \in x.del /\ e[2] \in x.del
          /\ \A c \in Comment \cap x.del : c \in used /\ comments[c] \in x.del \cup {None}

\* What x has read, as far as it can rely on it.
KnowsOK(x) ==
  LET r == x.req IN
  /\ r.kind = "UpdateTask" /\ x.pc \in {"validate", "complete", "write"} =>
       x.current = tasks[r.task]
  /\ r.kind = "DeleteTask" /\ x.pc # "lock" => Dependents(r.task) \subseteq x.read
  /\ r.kind = "CreateTaskBatch" /\ x.pc # "lock" =>
       /\ DirectDeps(r.task) \subseteq x.read
       /\ \A d \in x.read : d \in used /\ (tasks[d] # None => <<r.task, d>> \in deps)
  /\ r.kind = "CreateComment" /\ x.pc = "insertComment" => MayLink(x, r.task)
  /\ r.kind = "DeleteComment" /\ x.pc # "resolve" => OnBoard(x, r.comment)

CommentIdsUsedOnce ==
  /\ \A c \in Comment : comments[c] # None => {c, comments[c]} \subseteq used
  /\ \A t \in Txn : txn[t].comment \notin used
  /\ \A t, u \in Txn : t # u /\ txn[t].comment # None => txn[t].comment # txn[u].comment

\* The log of every project shows its tables, and what the open transactions
\* are about to commit keeps it so.
ReplayInvariant ==
  /\ CommentIdsUsedOnce
  /\ \A p \in Project : projects[p] # None => Shows(Replay(LogOf(p)), p, Tables(p))
  /\ \A t \in Txn : txn[t].pc # "idle" =>
       RecordsOK(txn[t]) /\ ChangesOK(txn[t]) /\ KnowsOK(txn[t])

-----------------------------------------------------------------------------
(* What makes Acyclic and CompletedAfterDependencies inductive, as far as  *)
(* they hold with several transactions (GraphProofs).                      *)

\* What was true of x's request when it arrived still is.
AcceptedOK(x) ==
  /\ Names(x.req) \subseteq used
  /\ x.req.kind = "CreateTaskBatch" => ValidSuggestions(x.req.subs)

RequestsAccepted == \A t \in Txn : txn[t].pc # "idle" => AcceptedOK(txn[t])

\* No path leads back from the list x has validated.
PathsOK(x) ==
  LET r == x.req IN
  r.kind = "UpdateTask" /\ r.deps # None /\ x.pc \notin {"lock", "validate"} =>
    r.task \notin Reach(deps, ToSet(r.deps))

PathsInvariant == Acyclic /\ \A t \in Txn : txn[t].pc # "idle" => PathsOK(txn[t])

\* Nor does an edge, which alone no other transaction can add meanwhile.
PairsOK(x) ==
  LET r == x.req IN
  r.kind = "UpdateTask" /\ r.deps # None /\ x.pc \notin {"lock", "validate"} =>
    \A d \in ToSet(r.deps) : d # r.task /\ <<d, r.task>> \notin deps

PairsInvariant ==
  NoMutualDependency /\ \A t \in Txn : txn[t].pc # "idle" => PairsOK(txn[t])

\* The tasks that patch r leaves its task depending on.
ListOf(r) == IF r.deps = None THEN DirectDeps(r.task) ELSE ToSet(r.deps)

\* What the task x is completing depends on is done, once x has looked.
StatusesOK(x) ==
  LET r == x.req IN
  r.kind = "UpdateTask" /\ r.status = "done" =>
    /\ x.pc = "complete" => ListOf(r) \subseteq x.read
    /\ x.pc \notin {"lock", "validate", "complete"} =>
         \A d \in ListOf(r) : tasks[d] # None => tasks[d].status = "done"

StatusesInvariant == \A t \in Txn : txn[t].pc # "idle" => StatusesOK(txn[t])

\* The patches that can undo what another transaction has just checked.
PatchesDependencies(x) == x.req # None /\ x.req.kind = "UpdateTask" /\ x.req.deps # None
PatchesStatus(x) == x.req # None /\ x.req.kind = "UpdateTask" /\ x.req.status # None

OneDependencyPatch ==
  \A t, u \in Txn :
    PatchesDependencies(txn[t]) /\ PatchesDependencies(txn[u]) => t = u
OneStatusPatch ==
  \A t, u \in Txn : PatchesStatus(txn[t]) /\ PatchesStatus(txn[u]) => t = u
=============================================================================
