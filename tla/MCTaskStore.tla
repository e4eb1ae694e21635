---------------------------- MODULE MCTaskStore ----------------------------
(***************************************************************************)
(* Small instances of TaskStore for TLC.                                   *)
(*                                                                         *)
(* Spec starts from an empty database.  SeededSpec starts later, from what *)
(* a client has built there one request at a time: project p1, and its     *)
(* tasks SeedTasks with the edges of one of the graphs SeedDeps, in any of *)
(* the statuses SeedStatus (CreateTask takes the one it is given and       *)
(* checks no dependency for it), and the comments SeedComments on the      *)
(* first of them.                                                          *)
(***************************************************************************)
EXTENDS TaskStore, TLC

CONSTANTS p1, word, k1, k2, k3, c1,
          SeedTasks, SeedDeps, SeedStatus, SeedComments

NoList == {<< >>}
ShortLists == NoList \cup {<<k>> : k \in Task}

NoTasks == << >>
TwoTasks == <<k1, k2>>
ThreeTasks == <<k1, k2, k3>>
NoComments == << >>
OneComment == <<c1>>
NoDeps == {{}}
OneDep == {{<<k2, k1>>}}
AtMostOneDep == NoDeps \cup OneDep
TwoDeps == {{<<k2, k1>>, <<k3, k2>>}}

NoBatch == {}
Chain == <<[title |-> word, dependsOn |-> {}], [title |-> word, dependsOn |-> {1}]>>
Pair == <<[title |-> word, dependsOn |-> {}], [title |-> word, dependsOn |-> {}]>>
Loop == <<[title |-> word, dependsOn |-> {2}], [title |-> word, dependsOn |-> {1}]>>
Forward == <<[title |-> word, dependsOn |-> {2}], [title |-> word, dependsOn |-> {}]>>
SomeBatches == {Chain, Pair, Forward, Loop}
OneSubtask == {<<[title |-> word, dependsOn |-> {}]>>}

Symmetric == Permutations(Txn)

IdsSymmetric == Symmetric \cup Permutations(Project) \cup Permutations(Task)

SeededInit ==
  \E st \in [ToSet(SeedTasks) -> SeedStatus], graph \in SeedDeps :
    LET row(k) == [project |-> p1, title |-> word, status |-> st[k]]
        n == Len(SeedTasks)
        m == Len(SeedComments) IN
    /\ projects = [p \in Project |->
                     IF p = p1 THEN [name |-> word, lastSeq |-> n + m] ELSE None]
    /\ tasks = [k \in Task |-> IF k \in ToSet(SeedTasks) THEN row(k) ELSE None]
    /\ deps = graph
    /\ comments = [c \in Comment |->
                     IF c \in ToSet(SeedComments) THEN SeedTasks[1] ELSE None]
    /\ events = {[project |-> p1, seq |-> i,
                  body |-> [type |-> "task.created", task |-> SeedTasks[i],
                            row |-> row(SeedTasks[i]),
                            deps |-> {e[2] : e \in {f \in graph :
                                              f[1] = SeedTasks[i]}}]]
                   : i \in 1..n}
                \cup {[project |-> p1, seq |-> n + i,
                       body |-> [type |-> "comment.added",
                                 comment |-> SeedComments[i], task |-> SeedTasks[1]]]
                      : i \in 1..m}
    /\ used = {p1} \cup ToSet(SeedTasks) \cup ToSet(SeedComments)
    /\ txn = [t \in Txn |-> Idle]

SeededSpec == SeededInit /\ [][Next]_vars

FairSeededSpec == SeededSpec /\ Fairness

\* SeededSpec, but no two open transactions patch dependencies, and no two
\* patch statuses.
PatchesApartSpec == SeededInit /\ [][Next /\ OneDependencyPatch' /\ OneStatusPatch']_vars
=============================================================================
