---------------------------- MODULE GraphProofs ----------------------------
(***************************************************************************)
(* Proofs about the dependency graph of TaskStore: which operations at     *)
(* once can close a cycle or complete a task before its dependencies, and  *)
(* that none can keep a breakdown's parent from being its finish line.     *)
(*                                                                         *)
(* A walk along the edges is reasoned about by the sets the edges do not   *)
(* lead out of: k is not reached exactly if there is such a set, with the  *)
(* start and without k.  Each way to write edges is then a way to make     *)
(* such a set out of the ones there were.                                  *)
(***************************************************************************)
EXTENDS ReplayProofs

-----------------------------------------------------------------------------
(* Walks and the sets they do not leave. *)

\* A function on 0..n may be defined by recursion.
LEMMA Recursion ==
  ASSUME NEW n \in Nat, NEW X, NEW a \in X, NEW g \in [X -> X]
  PROVE  \E f \in [0..n -> X] : f[0] = a /\ \A i \in 1..n : f[i] = g[f[i - 1]]
<1> DEFINE Sol(f, m) == f[0] = a /\ \A i \in 1..m : f[i] = g[f[i - 1]]
           S == {m \in Nat : \E f \in [0..m -> X] : Sol(f, m)}
<1>1. 0 \in S
  <2>1. [i \in 0..0 |-> a] \in [0..0 -> X] /\ Sol([i \in 0..0 |-> a], 0)
    OBVIOUS
  <2> QED
    BY <2>1
<1>2. ASSUME NEW m \in S PROVE m + 1 \in S
  <2>1. m \in Nat
    OBVIOUS
  <2>2. PICK f \in [0..m -> X] : Sol(f, m)
    OBVIOUS
  <2> DEFINE h == [i \in 0..(m + 1) |-> IF i = m + 1 THEN g[f[m]] ELSE f[i]]
  <2>3. h \in [0..(m + 1) -> X] /\ h[0] = a
    BY <2>1, <2>2
  <2>4. ASSUME NEW i \in 1..(m + 1) PROVE h[i] = g[h[i - 1]]
    <3>1. CASE i = m + 1
      BY <2>1, <3>1
    <3>2. CASE i # m + 1
      <4>1. i \in 1..m /\ h[i] = f[i] /\ h[i - 1] = f[i - 1]
        BY <2>1, <3>2
      <4> QED
        BY <2>2, <4>1
    <3> QED
      BY <3>1, <3>2
  <2>5. Sol(h, m + 1)
    BY <2>3, <2>4
  <2> HIDE DEF Sol, h
  <2> QED
    BY <2>1, <2>3, <2>5
<1>3. S = Nat
  <2> HIDE DEF S
  <2>1. S \in SUBSET Nat
    BY DEF S
  <2> QED
    BY <1>1, <1>2, <2>1, Induction
<1> QED
  BY <1>3

\* The ends of the edges that start in S.
Successors(edges, S) == {e[2] : e \in {x \in edges : x[1] \in S}}

\* The edges do not lead out of C.
Closed(edges, C) == \A e \in edges : e[1] \in C => e[2] \in C

\* The steps of the walk.
Walk(step, n, edges, from) ==
  /\ step[0] = from
  /\ \A i \in 1..n : step[i] = step[i - 1] \cup Successors(edges, step[i - 1])

LEMMA ReachWalk ==
  ASSUME NEW edges \in SUBSET Edge, NEW from \in SUBSET Task
  PROVE  \E step \in [0..Cardinality(Task) -> SUBSET Task] :
           /\ Walk(step, Cardinality(Task), edges, from)
           /\ Reach(edges, from) = step[Cardinality(Task)]
<1> DEFINE n == Cardinality(Task)
           g == [S \in SUBSET Task |-> S \cup Successors(edges, S)]
<1>1. n \in Nat
  BY TxnAssumption, FS_CardinalityType
<1> HIDE DEF n
<1>2. g \in [SUBSET Task -> SUBSET Task]
  BY DEF Successors, Edge
<1>3. \A S \in SUBSET Task : g[S] = S \cup Successors(edges, S)
  OBVIOUS
<1> HIDE DEF g
<1> DEFINE Sol(f) == f = [i \in 0..n |->
             IF i = 0 THEN from
             ELSE f[i-1] \cup {e[2] : e \in {x \in edges : x[1] \in f[i-1]}}]
<1>4. PICK f \in [0..n -> SUBSET Task] : f[0] = from /\ \A i \in 1..n : f[i] = g[f[i - 1]]
  <2>1. PICK X : X = SUBSET Task
    OBVIOUS
  <2>2. from \in X /\ g \in [X -> X]
    BY <1>2, <2>1
  <2> HIDE DEF Sol
  <2>3. \E f \in [0..n -> X] : f[0] = from /\ \A i \in 1..n : f[i] = g[f[i - 1]]
    BY <1>1, <2>2, Recursion, SMTT(60)
  <2> QED
    BY <2>1, <2>3
<1>5. \A i \in 1..n : f[i] = f[i - 1] \cup Successors(edges, f[i - 1])
  <2> SUFFICES ASSUME NEW i \in 1..n PROVE f[i] = f[i - 1] \cup Successors(edges, f[i - 1])
    OBVIOUS
  <2>1. f[i - 1] \in SUBSET Task /\ f[i] = g[f[i - 1]]
    BY <1>1, <1>4
  <2> QED
    BY <1>3, <2>1
<1>6. Sol(f)
  <2>1. \A i \in 0..n : f[i] = IF i = 0 THEN from
                               ELSE f[i-1] \cup {e[2] : e \in {x \in edges : x[1] \in f[i-1]}}
    BY <1>1, <1>4, <1>5 DEF Successors
  <2> QED
    BY <2>1
<1>7. PICK step : step = CHOOSE h : Sol(h)
  OBVIOUS
<1>8. Sol(step)
  BY <1>6, <1>7
<1>9. Reach(edges, from) = step[n]
  BY <1>7 DEF Reach, n
<1>10. step[0] = from
  BY <1>1, <1>8
<1>11. \A i \in 1..n : step[i] = step[i - 1] \cup Successors(edges, step[i - 1])
  <2> SUFFICES ASSUME NEW i \in 1..n
               PROVE  step[i] = step[i - 1] \cup Successors(edges, step[i - 1])
    OBVIOUS
  <2>1. i \in 0..n /\ i # 0
    BY <1>1
  <2>2. step[i] = step[i-1] \cup {e[2] : e \in {x \in edges : x[1] \in step[i-1]}}
    BY <1>8, <2>1
  <2> QED
    BY <2>2 DEF Successors
<1>12. \A i \in 0..n : step[i] \in SUBSET Task
  <2> DEFINE S == {i \in Nat : i <= n => step[i] \in SUBSET Task}
  <2>1. 0 \in S
    BY <1>10
  <2>2. ASSUME NEW i \in S PROVE i + 1 \in S
    <3>1. CASE i + 1 <= n
      <4>1. i + 1 \in 1..n /\ i <= n /\ (i + 1) - 1 = i
        BY <1>1, <3>1
      <4>2. step[i + 1] = step[i] \cup Successors(edges, step[i])
        BY <1>11, <4>1
      <4>3. step[i] \in SUBSET Task
        BY <4>1
      <4>4. step[i] \cup Successors(edges, step[i]) \in SUBSET Task
        BY <4>3 DEF Successors, Edge
      <4> QED
        BY <4>2, <4>4
    <3> QED
      BY <3>1
  <2>3. S = Nat
    <3> HIDE DEF S
    <3>1. S \in SUBSET Nat
      BY DEF S
    <3> QED
      BY <2>1, <2>2, <3>1, Induction
  <2> QED
    BY <1>1, <2>3
<1>13. step \in [0..n -> SUBSET Task]
  <2>1. DOMAIN step = 0..n /\ step = [i \in DOMAIN step |-> step[i]]
    BY <1>8
  <2> HIDE DEF Sol
  <2> QED
    BY <1>12, <2>1
<1> HIDE DEF Sol
<1> QED
  BY <1>9, <1>10, <1>11, <1>13 DEF Walk, n

\* A walk arrives somewhere new at each step or is over.
LEMMA ReachClosed ==
  ASSUME NEW edges \in SUBSET Edge, NEW from \in SUBSET Task
  PROVE  /\ Reach(edges, from) \in SUBSET Task /\ from \subseteq Reach(edges, from)
         /\ Closed(edges, Reach(edges, from))
<1> DEFINE n == Cardinality(Task)
<1>1. n \in Nat
  BY TxnAssumption, FS_CardinalityType
<1>2. PICK step \in [0..n -> SUBSET Task] :
        Walk(step, n, edges, from) /\ Reach(edges, from) = step[n]
  BY ReachWalk
<1> HIDE DEF n
<1> DEFINE Over(i) == Closed(edges, step[i]) \/ Cardinality(step[i]) >= i
           S == {i \in Nat : i <= n => from \subseteq step[i] /\ Over(i)}
<1>3. \A i \in 0..n : /\ step[i] \in SUBSET Task /\ IsFiniteSet(step[i])
                      /\ Cardinality(step[i]) \in Nat
  BY <1>1, TxnAssumption, FS_Subset, FS_CardinalityType
<1>4. 0 \in S
  BY <1>1, <1>2, <1>3 DEF Walk
<1>5. ASSUME NEW i \in S PROVE i + 1 \in S
  <2> SUFFICES ASSUME i + 1 <= n
               PROVE  from \subseteq step[i + 1] /\ Over(i + 1)
    OBVIOUS
  <2>1. /\ i \in 0..n /\ i + 1 \in 0..n /\ i + 1 \in 1..n /\ (i + 1) - 1 = i
        /\ from \subseteq step[i] /\ Over(i)
    BY <1>1
  <2>2. step[i + 1] = step[i] \cup Successors(edges, step[i])
    BY <1>2, <2>1 DEF Walk
  <2>3. CASE Closed(edges, step[i])
    <3>1. step[i + 1] = step[i]
      BY <2>2, <2>3 DEF Closed, Successors
    <3> QED
      BY <2>1, <2>3, <3>1
  <2>4. CASE ~ Closed(edges, step[i])
    <3>1. PICK e \in edges : e[1] \in step[i] /\ e[2] \notin step[i]
      BY <2>4 DEF Closed
    <3>2. e[2] \in step[i + 1] /\ step[i] \cup {e[2]} \subseteq step[i + 1]
      BY <2>2, <3>1 DEF Successors
    <3>3. Cardinality(step[i] \cup {e[2]}) = Cardinality(step[i]) + 1
      <4>1. PICK T, k : T = step[i] /\ k = e[2]
        OBVIOUS
      <4>2. IsFiniteSet(T) /\ k \notin T
        BY <1>3, <2>1, <3>1, <4>1
      <4>3. Cardinality(T \cup {k}) = Cardinality(T) + 1
        BY <4>2, FS_AddElement
      <4> QED
        BY <4>1, <4>3
    <3>4. Cardinality(step[i] \cup {e[2]}) <= Cardinality(step[i + 1])
      BY <1>3, <2>1, <3>2, FS_Subset
    <3>5. Cardinality(step[i]) >= i
      BY <2>1, <2>4
    <3>6. Cardinality(step[i + 1]) >= i + 1
      BY <1>3, <2>1, <3>3, <3>4, <3>5
    <3> QED
      BY <2>1, <3>2, <3>6
  <2> QED
    BY <2>3, <2>4
<1>6. S = Nat
  <2> HIDE DEF S
  <2>1. S \in SUBSET Nat
    BY DEF S
  <2> QED
    BY <1>4, <1>5, <2>1, Induction
<1>7. from \subseteq step[n] /\ Over(n)
  BY <1>1, <1>6
<1>8. Closed(edges, step[n])
  <2> SUFFICES ASSUME Cardinality(step[n]) >= n PROVE Closed(edges, step[n])
    BY <1>7
  <2>1. step[n] \in SUBSET Task /\ Cardinality(step[n]) <= n /\ Cardinality(step[n]) \in Nat
    BY <1>1, <1>3, TxnAssumption, FS_Subset DEF n
  <2>2. Cardinality(step[n]) = Cardinality(Task)
    BY <1>1, <2>1 DEF n
  <2>3. step[n] = Task
    BY <2>1, <2>2, TxnAssumption, FS_Subset
  <2> QED
    BY <2>3 DEF Closed, Edge
<1> QED
  BY <1>1, <1>2, <1>3, <1>7, <1>8

\* A walk does not leave a set the edges do not lead out of.
LEMMA ReachLeast ==
  ASSUME NEW edges \in SUBSET Edge, NEW from \in SUBSET Task, NEW C,
         from \subseteq C, Closed(edges, C)
  PROVE  Reach(edges, from) \subseteq C
<1> DEFINE n == Cardinality(Task)
<1>1. n \in Nat
  BY TxnAssumption, FS_CardinalityType
<1>2. PICK step \in [0..n -> SUBSET Task] :
        Walk(step, n, edges, from) /\ Reach(edges, from) = step[n]
  BY ReachWalk
<1> HIDE DEF n
<1> DEFINE S == {i \in Nat : i <= n => step[i] \subseteq C}
<1>3. 0 \in S
  BY <1>1, <1>2 DEF Walk
<1>4. ASSUME NEW i \in S PROVE i + 1 \in S
  <2> SUFFICES ASSUME i + 1 <= n PROVE step[i + 1] \subseteq C
    OBVIOUS
  <2>1. i + 1 \in 1..n /\ (i + 1) - 1 = i /\ step[i] \subseteq C
    BY <1>1
  <2>2. step[i + 1] = step[i] \cup Successors(edges, step[i])
    BY <1>2, <2>1 DEF Walk
  <2> QED
    BY <2>1, <2>2 DEF Closed, Successors
<1>5. S = Nat
  <2> HIDE DEF S
  <2>1. S \in SUBSET Nat
    BY DEF S
  <2> QED
    BY <1>3, <1>4, <2>1, Induction
<1> QED
  BY <1>1, <1>2, <1>5

\* C has all of `from` and not k, and the edges do not lead out of it.
Avoids(C, edges, from, k) ==
  C \in SUBSET Task /\ from \subseteq C /\ Closed(edges, C) /\ k \notin C

LEMMA NotReached ==
  ASSUME NEW edges \in SUBSET Edge, NEW from \in SUBSET Task, NEW k
  PROVE  k \notin Reach(edges, from) <=> \E C : Avoids(C, edges, from, k)
<1>1. ASSUME k \notin Reach(edges, from) PROVE \E C : Avoids(C, edges, from, k)
  BY <1>1, ReachClosed DEF Avoids
<1>2. ASSUME NEW C, Avoids(C, edges, from, k) PROVE k \notin Reach(edges, from)
  BY <1>2, ReachLeast DEF Avoids
<1> QED
  BY <1>1, <1>2

-----------------------------------------------------------------------------
(* Writing edges without closing a cycle. *)

Loopless(edges) == \A k \in Task : k \notin Reach(edges, Successors(edges, {k}))

LEMMA AcyclicIs ==
  ASSUME deps \subseteq Edge
  PROVE  /\ Acyclic <=> Loopless(deps)
         /\ \A k : DirectDeps(k) = Successors(deps, {k})
<1>1. \A k : DirectDeps(k) = Successors(deps, {k})
  BY DEF DirectDeps, Successors
<1> QED
  BY <1>1 DEF Acyclic, Loopless

LEMMA SuccessorsType ==
  ASSUME NEW edges \in SUBSET Edge, NEW S
  PROVE  Successors(edges, S) \in SUBSET Task
BY DEF Successors, Edge

LEMMA LooplessIs ==
  ASSUME NEW edges \in SUBSET Edge
  PROVE  Loopless(edges) <=>
           \A k \in Task : \E C : Avoids(C, edges, Successors(edges, {k}), k)
<1>1. ASSUME NEW k \in Task
      PROVE  k \notin Reach(edges, Successors(edges, {k}))
               <=> \E C : Avoids(C, edges, Successors(edges, {k}), k)
  BY SuccessorsType, NotReached
<1> QED
  BY <1>1 DEF Loopless

\* Deletions close no cycle.
LEMMA FewerEdges ==
  ASSUME NEW edges \in SUBSET Edge, Loopless(edges), NEW fewer \in SUBSET edges
  PROVE  Loopless(fewer)
<1>1. ASSUME NEW k \in Task PROVE \E C : Avoids(C, fewer, Successors(fewer, {k}), k)
  <2>1. PICK C : Avoids(C, edges, Successors(edges, {k}), k)
    BY LooplessIs
  <2>2. Avoids(C, fewer, Successors(fewer, {k}), k)
    BY <2>1 DEF Avoids, Closed, Successors
  <2> QED
    BY <2>2
<1> QED
  BY <1>1, LooplessIs

\* k gets the list `list`, from which no path led back to it.
LEMMA ListReplaced ==
  ASSUME NEW edges \in SUBSET Edge, Loopless(edges), NEW k \in Task, NEW list,
         NEW D, Avoids(D, edges, list, k), NEW new \in SUBSET Edge,
         \A e \in new : (e[1] = k /\ e[2] \in list) \/ (e \in edges /\ e[1] # k)
  PROVE  Loopless(new)
<1>1. ASSUME NEW j \in Task PROVE \E C : Avoids(C, new, Successors(new, {j}), j)
  <2>1. PICK C : Avoids(C, edges, Successors(edges, {j}), j)
    BY LooplessIs
  <2>2. CASE j = k
    <3>1. Avoids(D, new, Successors(new, {j}), j)
      BY <2>2 DEF Avoids, Closed, Successors
    <3> QED
      BY <3>1
  <2>3. CASE j # k /\ k \notin C
    <3>1. Avoids(C, new, Successors(new, {j}), j)
      BY <2>1, <2>3 DEF Avoids, Closed, Successors
    <3> QED
      BY <3>1
  <2>4. CASE j # k /\ j \in D
    <3>1. \A e \in edges : e[1] = j => e[2] \in C \cap D
      BY <2>1, <2>4 DEF Avoids, Closed, Successors
    <3>2. Successors(new, {j}) \subseteq C \cap D
      BY <2>4, <3>1 DEF Successors
    <3>3. Closed(new, C \cap D)
      BY <2>1 DEF Avoids, Closed
    <3>4. Avoids(C \cap D, new, Successors(new, {j}), j)
      BY <2>1, <3>2, <3>3 DEF Avoids
    <3> QED
      BY <3>4
  <2>5. CASE j # k /\ j \notin D /\ k \in C
    <3>1. Successors(new, {j}) \subseteq C \cup D
      BY <2>1, <2>5 DEF Avoids, Successors
    <3>2. Closed(new, C \cup D)
      BY <2>1 DEF Avoids, Closed
    <3>3. Avoids(C \cup D, new, Successors(new, {j}), j)
      BY <2>1, <2>5, <3>1, <3>2 DEF Avoids
    <3> QED
      BY <3>3
  <2> QED
    BY <2>2, <2>3, <2>4, <2>5
<1> QED
  BY <1>1, LooplessIs

\* A task k that nothing depends on gets dependencies, none of them k.
LEMMA SourceAdded ==
  ASSUME NEW edges \in SUBSET Edge, Loopless(edges), NEW k \in Task,
         \A e \in edges : e[2] # k, NEW new \in SUBSET Edge,
         \A e \in new : e \in edges \/ (e[1] = k /\ e[2] # k)
  PROVE  Loopless(new)
<1>1. ASSUME NEW j \in Task PROVE \E C : Avoids(C, new, Successors(new, {j}), j)
  <2>1. PICK C : Avoids(C, edges, Successors(edges, {j}), j)
    BY LooplessIs
  <2>2. CASE j = k
    <3>1. Avoids(Task \ {k}, new, Successors(new, {j}), j)
      BY <2>2 DEF Avoids, Closed, Successors, Edge
    <3> QED
      BY <3>1
  <2>3. CASE j # k
    <3>1. Successors(new, {j}) \subseteq C \ {k}
      BY <2>1, <2>3 DEF Avoids, Successors
    <3>2. Closed(new, C \ {k})
      BY <2>1 DEF Avoids, Closed
    <3>3. Avoids(C \ {k}, new, Successors(new, {j}), j)
      BY <2>1, <3>1, <3>2 DEF Avoids
    <3> QED
      BY <3>3
  <2> QED
    BY <2>2, <2>3
<1> QED
  BY <1>1, LooplessIs

-----------------------------------------------------------------------------
(* The layers of a breakdown: a subtask is in one once all it depends on is  *)
(* in the one before.                                                        *)

Layers(step, n, before) ==
  /\ step[0] = {} /\ step[n] = 1..n
  /\ \A i \in 1..n : step[i] = {j \in 1..n : before[j] \subseteq step[i - 1]}

LEMMA SuggestionLayers ==
  ASSUME NEW subs, Len(subs) \in Nat, ValidSuggestions(subs),
         NEW before, \A j \in 1..Len(subs) : before[j] = subs[j].dependsOn
  PROVE  /\ \E step \in [0..Len(subs) -> SUBSET (1..Len(subs))] :
              Layers(step, Len(subs), before)
         /\ \A j \in 1..Len(subs) : before[j] \in SUBSET (1..Len(subs))
<1> DEFINE n == Len(subs)
           g == [S \in SUBSET (1..n) |-> {j \in 1..n : subs[j].dependsOn \subseteq S}]
           Sol(f) == f = [i \in 0..n |->
             IF i = 0 THEN {}
             ELSE {j \in 1..n : subs[j].dependsOn \subseteq f[i-1]}]
<1>1. g \in [SUBSET (1..n) -> SUBSET (1..n)]
  OBVIOUS
<1>2. \A S \in SUBSET (1..n) : g[S] = {j \in 1..n : subs[j].dependsOn \subseteq S}
  OBVIOUS
<1> HIDE DEF g
<1>3. PICK f \in [0..n -> SUBSET (1..n)] :
        f[0] = {} /\ \A i \in 1..n : f[i] = g[f[i - 1]]
  <2>1. PICK X, a, m, h : X = SUBSET (1..n) /\ a = {} /\ m = n /\ h = g
    OBVIOUS
  <2>2. m \in Nat
    BY <2>1
  <2>3. a \in X
    BY <2>1
  <2>4. h \in [X -> X]
    BY <1>1, <2>1
  <2> HIDE DEF Sol, n
  <2>5. \E f \in [0..m -> X] : f[0] = a /\ \A i \in 1..m : f[i] = h[f[i - 1]]
    BY ONLY <2>2, <2>3, <2>4, Recursion, SMTT(60)
  <2> QED
    BY <2>1, <2>5
<1>4. Sol(f)
  <2>1. ASSUME NEW i \in 1..n
        PROVE  f[i] = {j \in 1..n : subs[j].dependsOn \subseteq f[i-1]}
    <3>1. f[i - 1] \in SUBSET (1..n) /\ f[i] = g[f[i - 1]]
      BY <1>3
    <3> QED
      BY <1>2, <3>1
  <2>2. \A i \in 0..n : f[i] = IF i = 0 THEN {}
                               ELSE {j \in 1..n : subs[j].dependsOn \subseteq f[i-1]}
    BY <1>3, <2>1
  <2> QED
    BY <2>2
<1>5. PICK step : step = CHOOSE h : Sol(h)
  OBVIOUS
<1>6. Sol(step)
  BY <1>4, <1>5
<1>7. step[n] = 1..n /\ \A j \in 1..n : subs[j].dependsOn \subseteq (1..n) \ {j}
  BY <1>5 DEF ValidSuggestions
<1>8. step[0] = {}
  BY <1>6
<1>9. \A i \in 1..n : step[i] = {j \in 1..n : before[j] \subseteq step[i - 1]}
  <2> SUFFICES ASSUME NEW i \in 1..n
               PROVE  step[i] = {j \in 1..n : before[j] \subseteq step[i - 1]}
    OBVIOUS
  <2>1. i \in 0..n /\ i # 0
    OBVIOUS
  <2>2. step[i] = {j \in 1..n : subs[j].dependsOn \subseteq step[i-1]}
    BY <1>6, <2>1
  <2> HIDE DEF Sol
  <2> QED
    BY <2>2
<1>10. step \in [0..n -> SUBSET (1..n)]
  <2>1. DOMAIN step = 0..n /\ step = [i \in DOMAIN step |-> step[i]]
    BY <1>6
  <2> HIDE DEF Sol
  <2>2. \A i \in 0..n : i = 0 \/ i \in 1..n
    OBVIOUS
  <2>3. \A i \in 0..n : step[i] \in SUBSET (1..n)
    BY <1>8, <1>9, <2>2
  <2> QED
    BY <2>1, <2>3
<1> HIDE DEF Sol
<1> QED
  BY <1>7, <1>8, <1>9, <1>10 DEF Layers

LEMMA LayersGrow ==
  ASSUME NEW n \in Nat, NEW before, NEW step, Layers(step, n, before),
         NEW i \in 1..n
  PROVE  step[i - 1] \subseteq step[i]
<1> DEFINE S == {m \in Nat : m < n => step[m] \subseteq step[m + 1]}
<1>1. 0 \in S
  BY DEF Layers
<1>2. ASSUME NEW m \in S PROVE m + 1 \in S
  <2> SUFFICES ASSUME m + 1 < n PROVE step[m + 1] \subseteq step[(m + 1) + 1]
    OBVIOUS
  <2>1. /\ m + 1 \in 1..n /\ (m + 1) + 1 \in 1..n
        /\ (m + 1) - 1 = m /\ ((m + 1) + 1) - 1 = m + 1 /\ m < n
    OBVIOUS
  <2>2. step[m] \subseteq step[m + 1]
    BY <2>1
  <2>3. /\ step[m + 1] = {j \in 1..n : before[j] \subseteq step[m]}
        /\ step[(m + 1) + 1] = {j \in 1..n : before[j] \subseteq step[m + 1]}
    BY <2>1 DEF Layers
  <2> HIDE DEF S
  <2> QED
    BY <2>2, <2>3
<1>3. S = Nat
  <2> HIDE DEF S
  <2>1. S \in SUBSET Nat
    BY DEF S
  <2> QED
    BY <1>1, <1>2, <2>1, Induction
<1>4. i - 1 \in Nat /\ i - 1 < n /\ (i - 1) + 1 = i
  OBVIOUS
<1> QED
  BY <1>3, <1>4

\* Every subtask is first in some layer.
LEMMA LayerOf ==
  ASSUME NEW n \in Nat, NEW before, NEW step, Layers(step, n, before),
         NEW a \in 1..n
  PROVE  \E m \in 1..n : a \in step[m] /\ a \notin step[m - 1]
<1> SUFFICES ASSUME \A m \in 1..n : a \in step[m] => a \in step[m - 1]
             PROVE  FALSE
  OBVIOUS
<1> DEFINE S == {m \in Nat : m <= n => a \notin step[m]}
<1>1. 0 \in S
  BY DEF Layers
<1>2. ASSUME NEW m \in S PROVE m + 1 \in S
  <2> SUFFICES ASSUME m + 1 <= n PROVE a \notin step[m + 1]
    OBVIOUS
  <2>1. m + 1 \in 1..n /\ (m + 1) - 1 = m /\ m <= n
    OBVIOUS
  <2> QED
    BY <2>1
<1>3. S = Nat
  <2> HIDE DEF S
  <2>1. S \in SUBSET Nat
    BY DEF S
  <2> QED
    BY <1>1, <1>2, <2>1, Induction
<1> QED
  BY <1>3 DEF Layers

\* What has every subtask no other depends on, and with a subtask all it
\* depends on, has every subtask: else what it lacks would be left over after
\* each layer.
LEMMA FromTheEnds ==
  ASSUME NEW n \in Nat, NEW before, NEW step, Layers(step, n, before),
         NEW W, \A i \in 1..n : (\A j \in 1..n : i \notin before[j]) => i \in W,
         \A j \in 1..n : j \in W => \A i \in before[j] : i \in W
  PROVE  \A i \in 1..n : i \in W
<1> SUFFICES ASSUME NEW a \in 1..n, a \notin W PROVE FALSE
  OBVIOUS
<1> DEFINE S == {m \in Nat : m <= n => \E i \in 1..n : i \notin W /\ i \notin step[m]}
<1>1. 0 \in S
  BY DEF Layers
<1>2. ASSUME NEW m \in S PROVE m + 1 \in S
  <2> SUFFICES ASSUME m + 1 <= n
               PROVE  \E i \in 1..n : i \notin W /\ i \notin step[m + 1]
    OBVIOUS
  <2>1. m + 1 \in 1..n /\ (m + 1) - 1 = m /\ m <= n
    OBVIOUS
  <2>2. PICK i \in 1..n : i \notin W /\ i \notin step[m]
    BY <2>1
  <2>3. PICK j \in 1..n : i \in before[j] /\ j \notin W
    BY <2>2
  <2>4. step[m + 1] = {k \in 1..n : before[k] \subseteq step[m]}
    BY <2>1 DEF Layers
  <2>5. j \notin step[m + 1]
    BY <2>2, <2>3, <2>4
  <2> QED
    BY <2>3, <2>5
<1>3. S = Nat
  <2> HIDE DEF S
  <2>1. S \in SUBSET Nat
    BY DEF S
  <2> QED
    BY <1>1, <1>2, <2>1, Induction
<1> QED
  BY <1>3 DEF Layers

\* Tasks ids nothing knew of get edges among them by layers, and edges from
\* the others to them.
LEMMA LayersAdded ==
  ASSUME NEW edges \in SUBSET Edge, Loopless(edges), NEW n \in Nat,
         NEW before \in [1..n -> SUBSET (1..n)], NEW step, Layers(step, n, before),
         NEW ids, \A i \in 1..n : ids[i] \in Task,
         \A i, j \in 1..n : ids[i] = ids[j] => i = j,
         \A e \in edges, i \in 1..n : e[1] # ids[i],
         NEW new \in SUBSET Edge,
         \A e \in new : e \in edges \/
           /\ \E j \in 1..n : e[2] = ids[j]
           /\ \A i \in 1..n : e[1] = ids[i] => \E j \in before[i] : e[2] = ids[j]
  PROVE  Loopless(new)
<1> DEFINE F == {ids[i] : i \in 1..n}
<1>1. ASSUME NEW k \in Task, k \notin F
      PROVE  \E C : Avoids(C, new, Successors(new, {k}), k)
  <2>1. PICK C : Avoids(C, edges, Successors(edges, {k}), k)
    BY LooplessIs
  <2>2. C \cup F \in SUBSET Task /\ k \notin C \cup F
    BY <1>1, <2>1 DEF Avoids
  <2>3. \A e \in new : (e \in edges /\ e[1] \notin F) \/ e[2] \in F
    OBVIOUS
  <2> HIDE DEF F
  <2>4. Closed(new, C \cup F)
    BY <2>1, <2>3 DEF Avoids, Closed
  <2>5. Successors(new, {k}) \subseteq C \cup F
    BY <2>1, <2>3 DEF Avoids, Successors
  <2>6. Avoids(C \cup F, new, Successors(new, {k}), k)
    BY <2>2, <2>4, <2>5 DEF Avoids
  <2> QED
    BY <2>6
<1>2. ASSUME NEW a \in 1..n
      PROVE  \E C : Avoids(C, new, Successors(new, {ids[a]}), ids[a])
  <2>1. PICK m \in 1..n : a \in step[m] /\ a \notin step[m - 1]
    BY LayerOf
  <2> DEFINE T == step[m - 1]
             C == {ids[i] : i \in T}
  <2>2. T \subseteq 1..n
    <3>1. m - 1 = 0 \/ m - 1 \in 1..n
      OBVIOUS
    <3> QED
      BY <3>1 DEF Layers
  <2>3. before[a] \subseteq T
    BY <2>1 DEF Layers
  <2>4. ASSUME NEW i \in T PROVE before[i] \subseteq T
    <3>1. m - 1 \in 1..n
      BY <2>4 DEF Layers
    <3>2. before[i] \subseteq step[(m - 1) - 1]
      BY <2>4, <3>1 DEF Layers
    <3>3. step[(m - 1) - 1] \subseteq step[m - 1]
      BY <3>1, LayersGrow
    <3> QED
      BY <3>2, <3>3
  <2>5. a \notin T
    BY <2>1
  <2> HIDE DEF T
  <2>6. C \in SUBSET Task /\ ids[a] \notin C
    BY <2>2, <2>5
  <2>7. \A e \in new : \A i \in 1..n : e[1] = ids[i] => \E j \in before[i] : e[2] = ids[j]
    OBVIOUS
  <2>8. Successors(new, {ids[a]}) \subseteq C
    BY <2>3, <2>7 DEF Successors
  <2>9. Closed(new, C)
    BY <2>2, <2>4, <2>7 DEF Closed
  <2>10. Avoids(C, new, Successors(new, {ids[a]}), ids[a])
    BY <2>6, <2>8, <2>9 DEF Avoids
  <2> QED
    BY <2>10
<1>3. \A k \in Task : \E C : Avoids(C, new, Successors(new, {k}), k)
  BY <1>1, <1>2
<1> QED
  BY <1>3, LooplessIs

-----------------------------------------------------------------------------
(* What a statement that commits nothing makes of its transaction. *)

LEMMA GoIs ==
  ASSUME Inv, NEW t \in Txn, NEW y, Go(t, y)
  PROVE  txn'[t] = y /\ \A u \in Txn : u # t => txn'[u] = txn[u]
BY DEF Go, Inv, TypeOK

LEMMA ContinueReq ==
  ASSUME NEW z, DOMAIN z = DOMAIN Idle
  PROVE  /\ Continue(z).req = z.req
         /\ Continue(z).pc \in {"insertDeps", "record", "commit"}
BY DEF Continue, Idle

\* What x is still to check.
Checking(x) == x.pc \in {"lock", "validate", "complete"}

\* t goes on with its request, or gives up.
Carries(t) ==
  \/ txn'[t] = Idle
  \/ /\ txn'[t].req = txn[t].req
     /\ txn[t].req.kind = "UpdateTask" => ~ Checking(txn[t]) /\ ~ Checking(txn'[t])

LEMMA OtherStatements ==
  ASSUME Inv, NEW t \in Txn, Statement(t) \/ Fail(t), ~ Commit(t),
         ~ UpdateTaskLock(t), ~ UpdateTaskValidate(t), ~ UpdateTaskComplete(t)
  PROVE  Carries(t)
<1>1. txn[t] \in TxnState /\ DOMAIN txn[t] = DOMAIN Idle /\ txn \in [Txn -> TxnState]
  BY DEF Inv, TypeOK, TxnState, Idle
<1>2. ASSUME Rollback(t) PROVE Carries(t)
  BY <1>2, GoIs DEF Rollback, Carries
<1>3. ASSUME NEW z, Go(t, Continue(z)), DOMAIN z = DOMAIN Idle, z.req = txn[t].req,
             txn[t].req.kind = "UpdateTask" => ~ Checking(txn[t])
      PROVE  Carries(t)
  <2>1. txn'[t] = Continue(z)
    BY <1>3, GoIs
  <2> QED
    BY <1>3, <2>1, ContinueReq DEF Carries, Checking
<1>4. ASSUME NEW z, Go(t, z), z.req = txn[t].req, txn[t].req.kind # "UpdateTask"
      PROVE  Carries(t)
  BY <1>4, GoIs DEF Carries
<1>5. DOMAIN Locked(t) = DOMAIN Idle /\ Locked(t).req = txn[t].req
  BY <1>1 DEF Locked, Idle
<1>6. CASE CreateTaskValidate(t)
  <2>1. /\ txn[t].req.kind # "UpdateTask"
        /\ Rollback(t) \/ Go(t, [txn[t] EXCEPT !.project = txn[t].req.project,
                                               !.pc = "insertTask"])
    BY <1>6 DEF CreateTaskValidate, At
  <2>2. [txn[t] EXCEPT !.project = txn[t].req.project, !.pc = "insertTask"].req = txn[t].req
    BY <1>1 DEF Idle
  <2> QED
    BY <1>2, <1>4, <2>1, <2>2
<1>7. CASE CreateTaskInsert(t)
  <2> DEFINE z(a, b, c) == [Locked(t) EXCEPT !.puts = a, !.pending = b, !.out = c]
  <2>1. \A a, b, c : DOMAIN z(a, b, c) = DOMAIN Idle /\ z(a, b, c).req = txn[t].req
    BY <1>5 DEF Idle
  <2>2. /\ txn[t].req.kind # "UpdateTask"
        /\ Rollback(t) \/ \E a, b, c : Go(t, Continue(z(a, b, c)))
    BY <1>7 DEF CreateTaskInsert, At
  <2> HIDE DEF z
  <2> QED
    BY <1>2, <1>3, <2>1, <2>2
<1>8. CASE UpdateTaskWrite(t)
  <2> DEFINE w(a) == [Locked(t) EXCEPT !.puts = a]
             z(a, b) == [w(a) EXCEPT !.out = b]
             y(a, b, c, d) == [w(a) EXCEPT !.del = c, !.pending = d, !.out = b]
  <2>1. \A a, b, c, d : /\ DOMAIN z(a, b) = DOMAIN Idle /\ z(a, b).req = txn[t].req
                        /\ DOMAIN y(a, b, c, d) = DOMAIN Idle
                        /\ y(a, b, c, d).req = txn[t].req
    BY <1>5 DEF Idle
  <2>2. /\ ~ Checking(txn[t])
        /\ \/ \E a, b : Go(t, Continue(z(a, b)))
           \/ \E a, b, c, d : Go(t, Continue(y(a, b, c, d)))
    BY <1>8 DEF UpdateTaskWrite, At, Checking
  <2> HIDE DEF y, z
  <2> QED
    BY <1>3, <2>1, <2>2
<1>9. CASE DeleteTaskLock(t) \/ BatchLock(t)
  <2> DEFINE z(a, b, c) == [Locked(t) EXCEPT !.project = a, !.read = b, !.pc = c]
  <2>1. \A a, b, c : z(a, b, c).req = txn[t].req
    BY <1>1, <1>5 DEF Idle
  <2>2. /\ txn[t].req.kind # "UpdateTask"
        /\ Rollback(t) \/ \E a, b, c : Go(t, z(a, b, c))
    BY <1>9 DEF DeleteTaskLock, BatchLock, At
  <2> HIDE DEF z
  <2> QED
    BY <1>2, <1>4, <2>1, <2>2
<1>10. CASE DeleteTaskCascade(t)
  <2> DEFINE z(a, b) == [Locked(t) EXCEPT !.del = a, !.out = b]
  <2>1. \A a, b : DOMAIN z(a, b) = DOMAIN Idle /\ z(a, b).req = txn[t].req
    BY <1>5 DEF Idle
  <2>2. /\ txn[t].req.kind # "UpdateTask"
        /\ Rollback(t) \/ \E a, b : Go(t, Continue(z(a, b)))
    BY <1>10 DEF DeleteTaskCascade, At
  <2> HIDE DEF z
  <2> QED
    BY <1>2, <1>3, <2>1, <2>2
<1>11. CASE BatchInsert(t)
  <2> DEFINE z(a, b, c) == [Locked(t) EXCEPT !.puts = a, !.addDeps = b, !.pc = c]
  <2>1. \A a, b, c : z(a, b, c).req = txn[t].req
    BY <1>1, <1>5 DEF Idle
  <2>2. /\ txn[t].req.kind # "UpdateTask"
        /\ Rollback(t) \/ \E a, b, c : Go(t, z(a, b, c))
    BY <1>11 DEF BatchInsert, At
  <2> HIDE DEF z
  <2> QED
    BY <1>2, <1>4, <2>1, <2>2
<1>12. CASE BatchValidate(t)
  <2> DEFINE z(a, b) == [txn[t] EXCEPT !.pending = a, !.out = b]
  <2>1. \A a, b : DOMAIN z(a, b) = DOMAIN Idle /\ z(a, b).req = txn[t].req
    BY <1>1 DEF Idle
  <2>2. /\ txn[t].req.kind # "UpdateTask"
        /\ Rollback(t) \/ \E a, b : Go(t, Continue(z(a, b)))
    BY <1>12 DEF BatchValidate, At
  <2> HIDE DEF z
  <2> QED
    BY <1>2, <1>3, <2>1, <2>2
<1>13. CASE CreateCommentResolve(t)
  <2> DEFINE z(a, b) == [txn[t] EXCEPT !.project = a, !.pc = b]
  <2>1. \A a, b : z(a, b).req = txn[t].req
    BY <1>1, <1>5 DEF Idle
  <2>2. /\ txn[t].req.kind # "UpdateTask"
        /\ Rollback(t) \/ \E a, b : Go(t, z(a, b))
    BY <1>13 DEF CreateCommentResolve, At
  <2> HIDE DEF z
  <2> QED
    BY <1>2, <1>4, <2>1, <2>2
<1>14. CASE CreateCommentInsert(t)
  <2> DEFINE z(a) == [Locked(t) EXCEPT !.out = a]
  <2>1. \A a : DOMAIN z(a) = DOMAIN Idle /\ z(a).req = txn[t].req
    BY <1>5 DEF Idle
  <2>2. /\ txn[t].req.kind # "UpdateTask"
        /\ Rollback(t) \/ \E a : Go(t, Continue(z(a)))
    BY <1>14 DEF CreateCommentInsert, At
  <2> HIDE DEF z
  <2> QED
    BY <1>2, <1>3, <2>1, <2>2
<1>15. CASE DeleteCommentResolve(t)
  <2> DEFINE z(a, b, c) == [txn[t] EXCEPT !.project = a, !.out = b, !.pc = c]
  <2>1. \A a, b, c : z(a, b, c).req = txn[t].req
    BY <1>1, <1>5 DEF Idle
  <2>2. /\ txn[t].req.kind # "UpdateTask"
        /\ Rollback(t) \/ \E a, b, c : Go(t, z(a, b, c))
    BY <1>15 DEF DeleteCommentResolve, At
  <2> HIDE DEF z
  <2> QED
    BY <1>2, <1>4, <2>1, <2>2
<1>16. CASE DeleteCommentRow(t) \/ DeleteProjectCascade(t)
  <2> DEFINE z(a) == [Locked(t) EXCEPT !.del = a]
  <2>1. \A a : DOMAIN z(a) = DOMAIN Idle /\ z(a).req = txn[t].req
    BY <1>5 DEF Idle
  <2>2. /\ txn[t].req.kind # "UpdateTask"
        /\ Rollback(t) \/ \E a : Go(t, Continue(z(a)))
    BY <1>16 DEF DeleteCommentRow, DeleteProjectCascade, At
  <2> HIDE DEF z
  <2> QED
    BY <1>2, <1>3, <2>1, <2>2
<1>17. CASE UpdateProjectLock(t)
  <2> DEFINE z(a, b) == [Locked(t) EXCEPT !.project = a, !.out = b]
  <2>1. \A a, b : DOMAIN z(a, b) = DOMAIN Idle /\ z(a, b).req = txn[t].req
    BY <1>5 DEF Idle
  <2>2. /\ txn[t].req.kind # "UpdateTask"
        /\ Rollback(t) \/ \E a, b : Go(t, Continue(z(a, b)))
    BY <1>17 DEF UpdateProjectLock, At
  <2> HIDE DEF z
  <2> QED
    BY <1>2, <1>3, <2>1, <2>2
<1>18. CASE DeleteProjectLock(t)
  <2> DEFINE z(a) == [Locked(t) EXCEPT !.pc = a]
  <2>1. \A a : z(a).req = txn[t].req
    BY <1>1, <1>5 DEF Idle
  <2>2. /\ txn[t].req.kind # "UpdateTask"
        /\ Rollback(t) \/ \E a : Go(t, z(a))
    BY <1>18 DEF DeleteProjectLock, At
  <2> HIDE DEF z
  <2> QED
    BY <1>2, <1>4, <2>1, <2>2
<1>19. CASE InsertDependency(t)
  <2> DEFINE z(a, b) == [Locked(t) EXCEPT !.addDeps = a, !.pending = b]
  <2>1. \A a, b : DOMAIN z(a, b) = DOMAIN Idle /\ z(a, b).req = txn[t].req
    BY <1>5 DEF Idle
  <2>2. /\ ~ Checking(txn[t])
        /\ Rollback(t) \/ \E a, b : Go(t, Continue(z(a, b)))
    BY <1>19 DEF InsertDependency, At, Checking
  <2> HIDE DEF z
  <2> QED
    BY <1>2, <1>3, <2>1, <2>2
<1>20. CASE RecordEvent(t)
  <2> DEFINE z(a, b, c) == [Locked(t) EXCEPT !.lastSeq = a, !.evs = b, !.out = c]
  <2>1. \A a, b, c : DOMAIN z(a, b, c) = DOMAIN Idle /\ z(a, b, c).req = txn[t].req
    BY <1>5 DEF Idle
  <2>2. /\ ~ Checking(txn[t])
        /\ Rollback(t) \/ \E a, b, c : Go(t, Continue(z(a, b, c)))
    BY <1>20 DEF RecordEvent, At, Checking
  <2> HIDE DEF z
  <2> QED
    BY <1>2, <1>3, <2>1, <2>2
<1>21. CASE DeadlockVictim(t) \/ Fail(t)
  BY <1>2, <1>21 DEF DeadlockVictim, Fail
<1> QED
  BY <1>6, <1>7, <1>8, <1>9, <1>10, <1>11, <1>12, <1>13, <1>14, <1>15, <1>16, <1>17, <1>18, <1>19, <1>20, <1>21 DEF Statement

LEMMA UpdateTaskGoes ==
  ASSUME Inv, NEW t \in Txn, NEW r, r = txn[t].req
  PROVE  /\ UpdateTaskLock(t) =>
              /\ r.kind = "UpdateTask" /\ txn[t].pc = "lock"
              /\ \/ txn'[t] = Idle
                 \/ /\ txn'[t].req = r /\ txn'[t].read = DirectDeps(r.task)
                    /\ txn'[t].pc = CASE r.deps # None -> "validate"
                                      [] r.deps = None /\ r.status = "done" -> "complete"
                                      [] OTHER -> "write"
         /\ UpdateTaskValidate(t) =>
              /\ r.kind = "UpdateTask" /\ txn[t].pc = "validate"
              /\ \/ txn'[t] = Idle
                 \/ /\ ValidDependencies(t, r.task, txn[t].project, ToSet(r.deps))
                    /\ txn'[t].req = r /\ txn'[t].read = ToSet(r.deps)
                    /\ txn'[t].pc = IF r.status = "done" THEN "complete" ELSE "write"
         /\ UpdateTaskComplete(t) =>
              /\ r.kind = "UpdateTask" /\ txn[t].pc = "complete"
              /\ \/ txn'[t] = Idle
                 \/ /\ CanComplete(t, txn[t].read)
                    /\ txn'[t].req = r /\ txn'[t].pc = "write"
<1>1. txn[t] \in TxnState /\ DOMAIN txn[t] = DOMAIN Idle
  BY DEF Inv, TypeOK, TxnState, Idle
<1>2. DOMAIN Locked(t) = DOMAIN Idle /\ Locked(t).req = txn[t].req
  BY <1>1 DEF Locked, Idle
<1>3. Rollback(t) => txn'[t] = Idle
  BY GoIs DEF Rollback
<1>4. ASSUME UpdateTaskLock(t), txn'[t] # Idle
      PROVE  /\ txn'[t].req = r /\ txn'[t].read = DirectDeps(r.task)
             /\ txn'[t].pc = CASE r.deps # None -> "validate"
                               [] r.deps = None /\ r.status = "done" -> "complete"
                               [] OTHER -> "write"
  <2> DEFINE pc == CASE r.deps # None -> "validate"
                     [] r.deps = None /\ r.status = "done" -> "complete"
                     [] OTHER -> "write"
             z == [Locked(t) EXCEPT
                    !.current = tasks[r.task], !.project = tasks[r.task].project,
                    !.read = DirectDeps(r.task), !.pc = pc]
  <2>1. Rollback(t) \/ Go(t, z)
    BY <1>4 DEF UpdateTaskLock
  <2>2. z.req = r /\ z.read = DirectDeps(r.task) /\ z.pc = pc
    BY <1>2 DEF Idle
  <2> HIDE DEF z, pc
  <2>3. txn'[t] = z
    BY <1>3, <1>4, <2>1, GoIs
  <2> QED
    BY <2>2, <2>3 DEF pc
<1>5. ASSUME UpdateTaskValidate(t), txn'[t] # Idle
      PROVE  /\ ValidDependencies(t, r.task, txn[t].project, ToSet(r.deps))
             /\ txn'[t].req = r /\ txn'[t].read = ToSet(r.deps)
             /\ txn'[t].pc = IF r.status = "done" THEN "complete" ELSE "write"
  <2> DEFINE pc == IF r.status = "done" THEN "complete" ELSE "write"
             z == [txn[t] EXCEPT !.read = ToSet(r.deps), !.pc = pc]
  <2>1. \/ Rollback(t)
        \/ ValidDependencies(t, r.task, txn[t].project, ToSet(r.deps)) /\ Go(t, z)
    BY <1>5 DEF UpdateTaskValidate
  <2>2. z.req = r /\ z.read = ToSet(r.deps) /\ z.pc = pc
    BY <1>1 DEF Idle
  <2> HIDE DEF z, pc
  <2>3. txn'[t] = z /\ ValidDependencies(t, r.task, txn[t].project, ToSet(r.deps))
    BY <1>3, <1>5, <2>1, GoIs
  <2> QED
    BY <2>2, <2>3 DEF pc
<1>6. ASSUME UpdateTaskComplete(t), txn'[t] # Idle
      PROVE  /\ CanComplete(t, txn[t].read)
             /\ txn'[t].req = r /\ txn'[t].pc = "write"
  <2> DEFINE z == [txn[t] EXCEPT !.pc = "write"]
  <2>1. Rollback(t) \/ (CanComplete(t, txn[t].read) /\ Go(t, z))
    BY <1>6 DEF UpdateTaskComplete
  <2>2. z.req = r /\ z.pc = "write"
    BY <1>1 DEF Idle
  <2> HIDE DEF z
  <2>3. txn'[t] = z /\ CanComplete(t, txn[t].read)
    BY <1>3, <1>6, <2>1, GoIs
  <2> QED
    BY <2>2, <2>3
<1>7. /\ UpdateTaskLock(t) => At(t, {"UpdateTask"}, "lock")
      /\ UpdateTaskValidate(t) => At(t, {"UpdateTask"}, "validate")
      /\ UpdateTaskComplete(t) => At(t, {"UpdateTask"}, "complete")
  BY DEF UpdateTaskLock, UpdateTaskValidate, UpdateTaskComplete
<1>8. \A kinds, pc : At(t, kinds, pc) => txn[t].req.kind \in kinds /\ txn[t].pc = pc
  BY DEF At
<1>9. /\ UpdateTaskLock(t) => r.kind = "UpdateTask" /\ txn[t].pc = "lock"
      /\ UpdateTaskValidate(t) => r.kind = "UpdateTask" /\ txn[t].pc = "validate"
      /\ UpdateTaskComplete(t) => r.kind = "UpdateTask" /\ txn[t].pc = "complete"
  BY <1>7, <1>8
<1> QED
  BY <1>4, <1>5, <1>6, <1>9

\* No statement changes another transaction.
LEMMA StatementGoesElsewhere ==
  ASSUME Inv, NEW t \in Txn, Statement(t) \/ Fail(t), ~ Commit(t),
         NEW u \in Txn, u # t
  PROVE  txn'[u] = txn[u]
<1>1. ASSUME NEW y, Go(t, y) PROVE txn'[u] = txn[u]
  BY <1>1, GoIs
<1>2. CASE CreateTaskValidate(t) \/ CreateTaskInsert(t)
  BY <1>1, <1>2 DEF CreateTaskValidate, CreateTaskInsert, Rollback
<1>3. CASE UpdateTaskLock(t) \/ UpdateTaskValidate(t)
           \/ UpdateTaskComplete(t) \/ UpdateTaskWrite(t)
  BY <1>1, <1>3 DEF UpdateTaskLock, UpdateTaskValidate, UpdateTaskComplete,
     UpdateTaskWrite, Rollback
<1>4. CASE DeleteTaskLock(t) \/ DeleteTaskCascade(t)
  BY <1>1, <1>4 DEF DeleteTaskLock, DeleteTaskCascade, Rollback
<1>5. CASE BatchLock(t) \/ BatchInsert(t) \/ BatchValidate(t)
  BY <1>1, <1>5 DEF BatchLock, BatchInsert, BatchValidate, Rollback
<1>6. CASE CreateCommentResolve(t) \/ CreateCommentInsert(t)
           \/ DeleteCommentResolve(t) \/ DeleteCommentRow(t)
  BY <1>1, <1>6 DEF CreateCommentResolve, CreateCommentInsert, DeleteCommentResolve,
     DeleteCommentRow, Rollback
<1>7. CASE UpdateProjectLock(t) \/ DeleteProjectLock(t) \/ DeleteProjectCascade(t)
  BY <1>1, <1>7 DEF UpdateProjectLock, DeleteProjectLock, DeleteProjectCascade, Rollback
<1>8. CASE InsertDependency(t) \/ RecordEvent(t)
  BY <1>1, <1>8 DEF InsertDependency, RecordEvent, Rollback
<1>9. CASE DeadlockVictim(t) \/ Fail(t)
  BY <1>1, <1>9 DEF DeadlockVictim, Fail, Rollback
<1> QED
  BY <1>2, <1>3, <1>4, <1>5, <1>6, <1>7, <1>8, <1>9 DEF Statement

\* A request is only replaced by none.
LEMMA StatementReq ==
  ASSUME Inv, NEW t \in Txn, Statement(t) \/ Fail(t), ~ Commit(t)
  PROVE  txn'[t] = Idle \/ txn'[t].req = txn[t].req
<1>1. PICK r : r = txn[t].req
  OBVIOUS
<1> QED
  BY <1>1, OtherStatements, UpdateTaskGoes DEF Carries

LEMMA StatementOpen ==
  ASSUME NEW t \in Txn, Statement(t) \/ Fail(t)
  PROVE  txn[t].pc # "idle"
<1>1. ASSUME NEW kinds, NEW pc, pc # "idle", At(t, kinds, pc) PROVE txn[t].pc # "idle"
  BY <1>1 DEF At
<1>2. CASE DeadlockVictim(t) \/ Fail(t)
  BY <1>2 DEF DeadlockVictim, Fail
<1>3. CASE Statement(t) /\ ~ DeadlockVictim(t)
  BY <1>1, <1>3 DEF Statement, CreateTaskValidate, CreateTaskInsert, UpdateTaskLock,
     UpdateTaskValidate, UpdateTaskComplete, UpdateTaskWrite, DeleteTaskLock,
     DeleteTaskCascade, BatchLock, BatchInsert, BatchValidate, CreateCommentResolve,
     CreateCommentInsert, DeleteCommentResolve, DeleteCommentRow, UpdateProjectLock,
     DeleteProjectLock, DeleteProjectCascade, InsertDependency, RecordEvent, Commit
<1> QED
  BY <1>2, <1>3

LEMMA BeginIs ==
  ASSUME Inv, NEW t \in Txn, NEW r \in Request, Begin(t, r)
  PROVE  txn'[t].req = r /\ txn'[t].pc = FirstPC(r.kind)
<1> DEFINE z(ids, c) == [Idle EXCEPT !.req = r, !.pc = FirstPC(r.kind),
                                     !.fresh = ids, !.comment = c]
<1>1. \A ids, c : z(ids, c).req = r /\ z(ids, c).pc = FirstPC(r.kind)
  BY DEF Idle
<1>2. \E ids, c : Go(t, z(ids, c))
  BY DEF Begin
<1> HIDE DEF z
<1> QED
  BY <1>1, <1>2, GoIs

\* One step, to the tables and to the open transactions.
LEMMA StepTables ==
  ASSUME [Next]_vars
  PROVE  (tasks' = tasks /\ deps' = deps) \/ \E t \in Txn : Commit(t)
<1>1. CASE \E p \in Project, name \in Text : CreateProject(p, name)
  BY <1>1 DEF CreateProject
<1>2. ASSUME NEW t \in Txn, \/ Statement(t) /\ ~ Commit(t)
                            \/ Fail(t)
                            \/ \E r \in Request : Begin(t, r)
      PROVE  tasks' = tasks /\ deps' = deps
  BY <1>2, OnlyCommitsWrite
<1>3. CASE UNCHANGED vars
  BY <1>3 DEF vars
<1> QED
  BY <1>1, <1>2, <1>3 DEF Next

LEMMA StepUsed ==
  ASSUME [Next]_vars
  PROVE  used \subseteq used'
<1>1. CASE \E p \in Project, name \in Text : CreateProject(p, name)
  BY <1>1 DEF CreateProject
<1>2. ASSUME NEW t \in Txn, \/ Statement(t) /\ ~ Commit(t)
                            \/ Fail(t)
                            \/ \E r \in Request : Begin(t, r)
      PROVE  used \subseteq used'
  BY <1>2, OnlyCommitsWrite
<1>3. ASSUME NEW t \in Txn, Commit(t) PROVE used \subseteq used'
  BY <1>3 DEF Commit
<1>4. CASE UNCHANGED vars
  BY <1>4 DEF vars
<1> QED
  BY <1>1, <1>2, <1>3, <1>4 DEF Next

LEMMA StepTxn ==
  ASSUME Inv, [Next]_vars, NEW u \in Txn, txn'[u].pc # "idle"
  PROVE  \/ txn'[u] = txn[u]
         \/ \E r \in Request : Begin(u, r)
         \/ /\ Statement(u) /\ ~ Commit(u) /\ txn[u].pc # "idle"
            /\ txn'[u] # Idle /\ txn'[u].req = txn[u].req
<1>1. txn'[u] # Idle
  BY DEF Idle
<1>2. ASSUME NEW t \in Txn, NEW r \in Request, Begin(t, r), t # u
      PROVE  txn'[u] = txn[u]
  BY <1>2, GoIs DEF Begin
<1>3. ASSUME NEW t \in Txn, Commit(t)
      PROVE  txn'[t] = Idle /\ (t # u => txn'[u] = txn[u])
  BY <1>3 DEF Commit, Inv, TypeOK
<1>4. ASSUME NEW t \in Txn, Statement(t) \/ Fail(t), ~ Commit(t), t # u
      PROVE  txn'[u] = txn[u]
  BY <1>4, StatementGoesElsewhere
<1>5. Fail(u) => txn'[u] = Idle
  BY GoIs DEF Fail, Rollback
<1>6. CASE \E p \in Project, name \in Text : CreateProject(p, name)
  BY <1>6 DEF CreateProject
<1>7. CASE UNCHANGED vars
  BY <1>7 DEF vars
<1> QED
  BY <1>1, <1>2, <1>3, <1>4, <1>5, <1>6, <1>7, StatementReq, StatementOpen DEF Next

-----------------------------------------------------------------------------
(* A request is valid as long as it is served. *)

LEMMA AcceptedKept ==
  ASSUME NEW x, AcceptedOK(x), NEW y, y.req = x.req, used \subseteq used'
  PROVE  AcceptedOK(y)'
<1>1. Names(y.req) \subseteq used'
  BY DEF AcceptedOK
<1>2. PICK names, valid : names = Names(y.req) /\ valid = ValidSuggestions(y.req.subs)
  OBVIOUS
<1>3. Names(y.req)' = names
  BY <1>2 DEF Names
<1>4. ValidSuggestions(y.req.subs)' = valid
  BY <1>2 DEF ValidSuggestions
<1>5. y.req.kind = "CreateTaskBatch" => valid
  BY <1>2 DEF AcceptedOK
<1> QED
  BY <1>1, <1>2, <1>3, <1>4, <1>5 DEF AcceptedOK

LEMMA InitAccepted == Init => RequestsAccepted
BY DEF Init, Idle, RequestsAccepted

LEMMA NextAccepted == Inv /\ RequestsAccepted /\ [Next]_vars => RequestsAccepted'
<1> SUFFICES ASSUME Inv, RequestsAccepted, [Next]_vars, NEW u \in Txn,
                    txn'[u].pc # "idle"
             PROVE  AcceptedOK(txn[u])'
  BY DEF RequestsAccepted
<1>1. used \subseteq used'
  BY StepUsed
<1>2. PICK y : y = txn'[u]
  OBVIOUS
<1>3. CASE txn'[u] = txn[u] \/ (txn[u].pc # "idle" /\ txn'[u].req = txn[u].req)
  <2>1. AcceptedOK(txn[u]) /\ y.req = txn[u].req
    BY <1>2, <1>3 DEF RequestsAccepted
  <2>2. PICK x : x = txn[u]
    OBVIOUS
  <2>3. AcceptedOK(y)'
    BY <1>1, <2>1, <2>2, AcceptedKept
  <2> QED
    BY <1>2, <2>3 DEF AcceptedOK
<1>4. ASSUME NEW r \in Request, Begin(u, r) PROVE AcceptedOK(txn[u])'
  <2>1. y.req = r
    BY <1>2, <1>4, BeginIs
  <2>2. AcceptedOK(y)
    BY <1>4, <2>1 DEF Begin, AcceptedOK
  <2>3. AcceptedOK(y)'
    BY <1>1, <2>2, AcceptedKept
  <2> QED
    BY <1>2, <2>3 DEF AcceptedOK
<1> QED
  BY <1>3, <1>4, StepTxn

-----------------------------------------------------------------------------
(* The edges a commit leaves. *)

LEMMA EdgesUsed ==
  ASSUME Inv, RowsInvariant
  PROVE  \A e \in deps : e \in Edge /\ e[1] \in used /\ e[2] \in used
<1> SUFFICES ASSUME NEW e \in deps PROVE e \in Edge /\ e[1] \in used /\ e[2] \in used
  OBVIOUS
<1>1. e \in Edge /\ e[1] \in Task /\ e[2] \in Task
  BY DEF Inv, TypeOK, Edge
<1>2. tasks[e[1]] # None /\ tasks[e[2]] # None
  BY DEF RowsInvariant, DependenciesWithinProject
<1> QED
  BY <1>1, <1>2 DEF RowsInvariant, IdsUsedOnce

\* All a transaction knows when it commits.
Committing(t, x, r) ==
  /\ t \in Txn /\ Commit(t) /\ x = txn[t] /\ r = x.req
  /\ x \in TxnState /\ r \in Request /\ RequestOK(x) /\ ReadsOK(x) /\ DeletesOK(x)
  /\ ChangesOK(x) /\ AcceptedOK(x) /\ Adding(x) = x.addDeps /\ Ending(x)
  /\ \A i, j \in DOMAIN x.fresh : x.fresh[i] = x.fresh[j] => i = j
  /\ ToSet(x.fresh) \cap used = {} /\ x.pc = "commit"
  /\ deps' = (deps \ x.del) \cup x.addDeps
  /\ tasks' = [k \in Task |-> TaskSeen(t, k)]

LEMMA CommitStart ==
  ASSUME Inv, RowsInvariant, NamesInvariant, ReplayInvariant, RequestsAccepted,
         NEW t \in Txn, Commit(t)
  PROVE  Committing(t, txn[t], txn[t].req)
<1>1. PICK x : x = txn[t]
  OBVIOUS
<1>2. /\ x \in TxnState /\ x.req \in Request /\ RequestOK(x) /\ ReadsOK(x)
      /\ DeletesOK(x) /\ ChangesOK(x) /\ Adding(x) = x.addDeps /\ Ending(x)
      /\ x.pc = "commit"
  BY <1>1, CommitKnows
<1>3. AcceptedOK(x)
  BY <1>1, <1>2 DEF RequestsAccepted
<1>4. \A i, j \in DOMAIN x.fresh : x.fresh[i] = x.fresh[j] => i = j
  BY <1>1, CommitFacts DEF BlockOK
<1>5. ToSet(x.fresh) \cap used = {}
  BY <1>1 DEF RowsInvariant, IdsUsedOnce
<1>6. deps' = (deps \ x.del) \cup x.addDeps /\ tasks' = [k \in Task |-> TaskSeen(t, k)]
  BY <1>1 DEF Commit, DepsSeen
<1> QED
  BY <1>1, <1>2, <1>3, <1>4, <1>5, <1>6 DEF Committing

LEMMA CreateTaskEdges ==
  ASSUME NEW t, NEW x, NEW r, Committing(t, x, r), r.kind = "CreateTask"
  PROVE  /\ x.fresh[1] \in Task /\ x.fresh[1] \notin used
         /\ \A e \in deps' : e \in deps \/ (e[1] = x.fresh[1] /\ e[2] \in used)
<1>1. x.fresh \in Seq(Task) /\ Len(x.fresh) = 1
  BY DEF Committing, TxnState, RequestOK
<1>2. x.fresh[1] \in Task /\ x.fresh[1] \in ToSet(x.fresh)
  BY <1>1 DEF ToSet
<1>3. x.fresh[1] \notin used
  BY <1>2 DEF Committing
<1>4. x.addDeps = {x.fresh[1]} \X ToSet(r.deps)
  BY DEF Committing, ChangesOK
<1>5. ToSet(r.deps) \subseteq used
  BY DEF Committing, AcceptedOK, Names
<1>6. \A e \in x.addDeps : e[1] = x.fresh[1] /\ e[2] \in used
  BY <1>4, <1>5
<1>7. \A e \in deps' : e \in deps \/ e \in x.addDeps
  BY DEF Committing
<1> QED
  BY <1>2, <1>3, <1>6, <1>7

LEMMA BatchCommitEdges ==
  ASSUME NEW t, NEW x, NEW r, Committing(t, x, r), r.kind = "CreateTaskBatch"
  PROVE  /\ r.task \in used /\ x.del = {}
         /\ x.addDeps = BatchEdges(x) \cup ({r.task} \X BatchEnds(x))
         /\ deps' = deps \cup BatchEdges(x) \cup ({r.task} \X BatchEnds(x))
<1>1. r.task \in used
  BY DEF Committing, AcceptedOK, Names
<1>2. x.del = {} /\ x.addDeps = BatchEdges(x) \cup ({r.task} \X BatchEnds(x))
  BY DEF Committing, ChangesOK
<1>3. deps' = (deps \ x.del) \cup x.addDeps
  BY DEF Committing
<1> QED
  BY <1>1, <1>2, <1>3

LEMMA PatchEdges ==
  ASSUME NEW t, NEW x, NEW r, Committing(t, x, r), PatchesDependencies(x)
  PROVE  /\ r.kind = "UpdateTask" /\ r.deps # None
         /\ \A e \in deps' : \/ e \in deps /\ e[1] # r.task
                             \/ e[1] = r.task /\ e[2] \in ToSet(r.deps)
<1>1. r.kind = "UpdateTask" /\ r.deps # None
  BY DEF Committing, PatchesDependencies
<1>2. x.addDeps = {r.task} \X ToSet(r.deps) /\ {e \in deps : e[1] = r.task} \subseteq x.del
  BY <1>1 DEF Committing, ChangesOK
<1>3. deps' = (deps \ x.del) \cup x.addDeps
  BY DEF Committing
<1> QED
  BY <1>1, <1>2, <1>3

LEMMA OtherEdges ==
  ASSUME NEW t, NEW x, NEW r, Committing(t, x, r), ~ PatchesDependencies(x),
         r.kind \notin {"CreateTask", "CreateTaskBatch"}
  PROVE  deps' \subseteq deps
<1>1. r.kind \in {"UpdateTask", "DeleteTask", "CreateComment", "DeleteComment",
                  "UpdateProject", "DeleteProject"}
  BY DEF Committing, Request
<1>2. CASE r.kind = "UpdateTask"
  <2>1. r.deps = None
    BY <1>2, NoRequestAssumption DEF PatchesDependencies, Committing
  <2>2. x.addDeps = {}
    BY <1>2, <2>1 DEF Committing, ChangesOK
  <2> QED
    BY <2>2 DEF Committing
<1>3. CASE r.kind \in {"CreateComment", "DeleteComment", "UpdateProject"}
  <2>1. x.addDeps = {}
    BY <1>3 DEF Committing, ChangesOK
  <2> QED
    BY <2>1 DEF Committing
<1>4. CASE r.kind \in {"DeleteTask", "DeleteProject"}
  <2>1. x.addDeps = {}
    BY <1>4 DEF Committing, DeletesOK
  <2> QED
    BY <2>1 DEF Committing
<1> QED
  BY <1>1, <1>2, <1>3, <1>4

Indexed(x, r, n, ids, before) ==
  n = Len(x.fresh) /\ ids = x.fresh /\ before = [j \in 1..n |-> r.subs[j].dependsOn]

\* A breakdown by its indices: what each subtask is to wait for, and the
\* edges between the ids they got.
LEMMA BatchIndices ==
  ASSUME NEW t, NEW x, NEW r, Committing(t, x, r), r.kind = "CreateTaskBatch",
         NEW n, NEW ids, NEW before, Indexed(x, r, n, ids, before)
  PROVE  /\ n \in Nat /\ DOMAIN ids = 1..n /\ \A i \in 1..n : ids[i] \in Task
         /\ ToSet(ids) = {ids[i] : i \in 1..n}
         /\ \A i, j \in 1..n : ids[i] = ids[j] => i = j
         /\ before \in [1..n -> SUBSET (1..n)]
         /\ \E step : Layers(step, n, before)
         /\ \A e : e \in BatchEdges(x) <=>
                     \E i \in 1..n : \E j \in before[i] : e = <<ids[i], ids[j]>>
         /\ \A i \in 1..n : (\A j \in 1..n : i \notin before[j]) => ids[i] \in BatchEnds(x)
         /\ \A k \in BatchEnds(x) : \E i \in 1..n : k = ids[i]
<1>0. n = Len(x.fresh) /\ ids = x.fresh /\ before = [j \in 1..n |-> r.subs[j].dependsOn]
  BY DEF Indexed
<1>1. /\ ids \in Seq(Task) /\ n \in Nat /\ DOMAIN ids = 1..n /\ n = Len(r.subs)
      /\ ValidSuggestions(r.subs) /\ x.req = r
  BY <1>0 DEF Committing, TxnState, RequestOK, AcceptedOK
<1>2. \A i, j \in 1..n : ids[i] = ids[j] => i = j
  BY <1>0, <1>1 DEF Committing
<1>3. \A i \in 1..n : ids[i] \in Task
  BY <1>1
<1>4. ToSet(ids) = {ids[i] : i \in 1..n}
  BY <1>1 DEF ToSet
<1>5. (\E step : Layers(step, n, before)) /\ \A j \in 1..n : before[j] \in SUBSET (1..n)
  <2>1. Len(r.subs) \in Nat /\ \A j \in 1..Len(r.subs) : before[j] = r.subs[j].dependsOn
    BY <1>0, <1>1
  <2>2. PICK subs : subs = r.subs
    OBVIOUS
  <2> QED
    BY <1>1, <2>1, <2>2, SuggestionLayers
<1>6. \A i \in 1..n : BatchDeps(x, i) = {ids[j] : j \in before[i]}
  BY <1>0, <1>1 DEF BatchDeps
<1>7. BatchEdges(x) = UNION {{ids[i]} \X BatchDeps(x, i) : i \in 1..n}
  BY <1>0, <1>1 DEF BatchEdges
<1>8. \A e : e \in BatchEdges(x) <=>
               \E i \in 1..n : \E j \in before[i] : e = <<ids[i], ids[j]>>
  BY <1>6, <1>7
<1>9. BatchEnds(x) = {ids[i] : i \in Terminals(r.subs)}
  BY <1>0, <1>1 DEF BatchEnds
<1>10. \A i : i \in Terminals(r.subs) <=>
                i \in 1..n /\ \A j \in 1..n : i \notin before[j]
  BY <1>0, <1>1 DEF Terminals
<1>11. before \in [1..n -> SUBSET (1..n)]
  BY <1>0, <1>5
<1>12. (\A i \in 1..n : (\A j \in 1..n : i \notin before[j]) => ids[i] \in BatchEnds(x))
       /\ \A k \in BatchEnds(x) : \E i \in 1..n : k = ids[i]
  BY <1>9, <1>10
<1> QED
  BY <1>1, <1>2, <1>3, <1>4, <1>5, <1>8, <1>11, <1>12

-----------------------------------------------------------------------------
(* Acyclic, while no two transactions patch dependencies. *)

\* A commit closes no cycle, if what it has validated still holds.
LEMMA CommitAcyclic ==
  ASSUME Inv, Inv', RowsInvariant, NamesInvariant, ReplayInvariant, RequestsAccepted,
         PathsInvariant, NEW t \in Txn, Commit(t)
  PROVE  Acyclic'
<1>1. PICK x, r : x = txn[t] /\ r = x.req
  OBVIOUS
<1>2. Committing(t, x, r)
  BY <1>1, CommitStart
<1>3. PICK old, new : old = deps /\ new = deps'
  OBVIOUS
<1>4. old \in SUBSET Edge /\ new \in SUBSET Edge
  BY <1>3 DEF Inv, TypeOK
<1>5. Loopless(old)
  BY <1>3, <1>4, AcyclicIs DEF PathsInvariant
<1>6. \A e \in old : e \in Edge /\ e[1] \in used /\ e[2] \in used
  BY <1>3, EdgesUsed
<1>7. Loopless(new)
  <2>1. CASE r.kind = "CreateTask"
    <3>1. /\ x.fresh[1] \in Task /\ x.fresh[1] \notin used
          /\ \A e \in new : e \in old \/ (e[1] = x.fresh[1] /\ e[2] \in used)
      BY <1>2, <1>3, <2>1, CreateTaskEdges
    <3>2. PICK k \in Task : k = x.fresh[1]
      BY <3>1
    <3> QED
      BY <1>4, <1>5, <1>6, <3>1, <3>2, SourceAdded
  <2>2. CASE r.kind = "CreateTaskBatch"
    <3>1. PICK n, ids, before : Indexed(x, r, n, ids, before)
      BY DEF Indexed
    <3>2. /\ n \in Nat /\ \A i \in 1..n : ids[i] \in Task
          /\ ToSet(ids) = {ids[i] : i \in 1..n}
          /\ \A i, j \in 1..n : ids[i] = ids[j] => i = j
          /\ before \in [1..n -> SUBSET (1..n)]
          /\ \E step : Layers(step, n, before)
          /\ \A e : e \in BatchEdges(x) <=>
                      \E i \in 1..n : \E j \in before[i] : e = <<ids[i], ids[j]>>
          /\ \A k \in BatchEnds(x) : \E i \in 1..n : k = ids[i]
      BY <1>2, <2>2, <3>1, BatchIndices
    <3>3. r.task \in used /\ new = old \cup BatchEdges(x) \cup ({r.task} \X BatchEnds(x))
      BY <1>2, <1>3, <2>2, BatchCommitEdges
    <3>4. \A i \in 1..n : ids[i] \notin used
      BY <1>2, <3>1, <3>2 DEF Committing, Indexed
    <3>5. \A e \in old, i \in 1..n : e[1] # ids[i]
      BY <1>6, <3>4
    <3>6. ASSUME NEW e \in new, e \notin old
          PROVE  /\ \E j \in 1..n : e[2] = ids[j]
                 /\ \A i \in 1..n : e[1] = ids[i] => \E j \in before[i] : e[2] = ids[j]
      <4>1. CASE e \in BatchEdges(x)
        BY <3>2, <4>1
      <4>2. CASE e \in {r.task} \X BatchEnds(x)
        BY <3>2, <3>3, <3>4, <4>2
      <4> QED
        BY <3>3, <3>6, <4>1, <4>2
    <3>7. PICK step : Layers(step, n, before)
      BY <3>2
    <3>8. \A e \in new : e \in old \/
            /\ \E j \in 1..n : e[2] = ids[j]
            /\ \A i \in 1..n : e[1] = ids[i] => \E j \in before[i] : e[2] = ids[j]
      BY <3>6
    <3> QED
      BY <1>4, <1>5, <3>2, <3>5, <3>7, <3>8, LayersAdded
  <2>3. CASE PatchesDependencies(x)
    <3>1. /\ r.kind = "UpdateTask" /\ r.deps # None
          /\ \A e \in new : \/ e \in old /\ e[1] # r.task
                            \/ e[1] = r.task /\ e[2] \in ToSet(r.deps)
      BY <1>2, <1>3, <2>3, PatchEdges
    <3>2. PathsOK(x) /\ x.pc = "commit"
      BY <1>1, <1>2 DEF PathsInvariant, Committing
    <3>3. r.task \notin Reach(old, ToSet(r.deps))
      BY <1>1, <1>3, <3>1, <3>2 DEF PathsOK
    <3>4. r.task \in Task /\ r.deps \in Seq(Task)
      BY <1>2, <3>1, RequestFields DEF Committing
    <3>5. ToSet(r.deps) \in SUBSET Task
      BY <3>4, ToSetType
    <3>6. PICK D : Avoids(D, old, ToSet(r.deps), r.task)
      BY <1>4, <3>3, <3>5, NotReached
    <3>7. PICK k, list : k \in Task /\ k = r.task /\ list = ToSet(r.deps)
      BY <3>4
    <3> QED
      BY <1>4, <1>5, <3>1, <3>6, <3>7, ListReplaced
  <2>4. CASE ~ PatchesDependencies(x) /\ r.kind \notin {"CreateTask", "CreateTaskBatch"}
    <3>1. new \in SUBSET old
      BY <1>2, <1>3, <2>4, OtherEdges
    <3> QED
      BY <1>4, <1>5, <3>1, FewerEdges
  <2> QED
    BY <2>1, <2>2, <2>3, <2>4
<1>8. \A k : DirectDeps(k)' = Successors(new, {k})
  BY <1>3 DEF DirectDeps, Successors
<1>9. \A k, from : Reach(deps, from)' = Reach(new, from)
  BY <1>3 DEF Reach
<1> QED
  BY <1>3, <1>7, <1>8, <1>9 DEF Acyclic, Loopless

\* Another transaction's commit opens no path back from a list that has been
\* validated, but for a dependency patch.
LEMMA CommitPaths ==
  ASSUME Inv, Inv', RowsInvariant, NamesInvariant, ReplayInvariant, RequestsAccepted,
         NEW t \in Txn, Commit(t), ~ PatchesDependencies(txn[t]),
         NEW k \in used, NEW list, list \in SUBSET Task, list \subseteq used,
         k \notin Reach(deps, list)
  PROVE  k \notin Reach(deps', list)
<1>1. PICK x, r : x = txn[t] /\ r = x.req
  OBVIOUS
<1>2. Committing(t, x, r)
  BY <1>1, CommitStart
<1>3. PICK old, new : old = deps /\ new = deps'
  OBVIOUS
<1>4. old \in SUBSET Edge /\ new \in SUBSET Edge
  BY <1>3 DEF Inv, TypeOK
<1>5. PICK C : Avoids(C, old, list, k)
  BY <1>3, <1>4, NotReached
<1>6. \A e \in old : e \in Edge /\ e[1] \in used /\ e[2] \in used
  BY <1>3, EdgesUsed
<1>7. \E D : Avoids(D, new, list, k)
  <2>1. CASE r.kind = "CreateTask"
    <3>1. /\ x.fresh[1] \in Task /\ x.fresh[1] \notin used
          /\ \A e \in new : e \in old \/ (e[1] = x.fresh[1] /\ e[2] \in used)
      BY <1>2, <1>3, <2>1, CreateTaskEdges
    <3>2. PICK f : f = x.fresh[1]
      OBVIOUS
    <3>3. Closed(new, C \ {f})
      BY <1>5, <1>6, <3>1, <3>2 DEF Avoids, Closed
    <3>4. Avoids(C \ {f}, new, list, k)
      BY <1>5, <3>1, <3>2, <3>3 DEF Avoids
    <3> QED
      BY <3>4
  <2>2. CASE r.kind = "CreateTaskBatch"
    <3>1. PICK n, ids, before : Indexed(x, r, n, ids, before)
      BY DEF Indexed
    <3>2. /\ \A i \in 1..n : ids[i] \in Task
          /\ ToSet(ids) = {ids[i] : i \in 1..n}
          /\ before \in [1..n -> SUBSET (1..n)]
          /\ \A e : e \in BatchEdges(x) <=>
                      \E i \in 1..n : \E j \in before[i] : e = <<ids[i], ids[j]>>
          /\ \A j \in BatchEnds(x) : \E i \in 1..n : j = ids[i]
      BY <1>2, <2>2, <3>1, BatchIndices
    <3>3. new = old \cup BatchEdges(x) \cup ({r.task} \X BatchEnds(x))
      BY <1>2, <1>3, <2>2, BatchCommitEdges
    <3>4. PICK F : F = ToSet(ids)
      OBVIOUS
    <3>5. F \in SUBSET Task /\ F \cap used = {}
      BY <1>2, <3>1, <3>2, <3>4 DEF Committing, Indexed
    <3>6. \A e \in new : e \in old \/ e[2] \in F
      BY <3>2, <3>3, <3>4
    <3>7. Closed(new, C \cup F)
      BY <1>5, <1>6, <3>5, <3>6 DEF Avoids, Closed
    <3>8. Avoids(C \cup F, new, list, k)
      BY <1>5, <3>5, <3>7 DEF Avoids
    <3> QED
      BY <3>8
  <2>3. CASE r.kind \notin {"CreateTask", "CreateTaskBatch"}
    <3>1. new \subseteq old
      BY <1>1, <1>2, <1>3, <2>3, OtherEdges
    <3>2. Avoids(C, new, list, k)
      BY <1>5, <3>1 DEF Avoids, Closed
    <3> QED
      BY <3>2
  <2> QED
    BY <2>1, <2>2, <2>3
<1> QED
  BY <1>3, <1>4, <1>7, NotReached

\* The list an open dependency patch brings.
LEMMA PatchList ==
  ASSUME Inv, RequestsAccepted, NEW u \in Txn, txn[u].pc # "idle",
         NEW r, r = txn[u].req, r.kind = "UpdateTask"
  PROVE  /\ r \in Request /\ r.task \in Task /\ r.task \in used
         /\ r.deps # None => ToSet(r.deps) \in SUBSET Task /\ ToSet(r.deps) \subseteq used
<1>1. r \in Request
  <2>1. txn[u] \in TxnState /\ ShapeOK(txn[u])
    BY DEF Inv, TypeOK, LogInvariant
  <2> QED
    BY <2>1 DEF TxnState, ShapeOK
<1>2. r.task \in Task /\ r.deps \in Seq(Task) \cup {None}
  BY <1>1, RequestFields
<1>3. Names(r) \subseteq used
  BY DEF RequestsAccepted, AcceptedOK
<1>4. r.task \in used /\ (r.deps # None => ToSet(r.deps) \subseteq used)
  BY <1>3 DEF Names
<1>5. r.deps # None => ToSet(r.deps) \in SUBSET Task
  BY <1>2, ToSetType
<1> QED
  BY <1>1, <1>2, <1>4, <1>5

\* UpdateTaskValidate walks the project's edges: no others lead out of it.
LEMMA ValidatedPaths ==
  ASSUME Inv, RowsInvariant, ReplayInvariant, RequestsAccepted,
         NEW t \in Txn, NEW r, r = txn[t].req, r.kind = "UpdateTask", r.deps # None,
         txn[t].pc = "validate",
         ValidDependencies(t, r.task, txn[t].project, ToSet(r.deps))
  PROVE  r.task \notin Reach(deps, ToSet(r.deps))
<1> DEFINE p == txn[t].project
           ds == ToSet(r.deps)
           own == {e \in deps : tasks[e[1]] # None /\ tasks[e[1]].project = p}
<1>1. ds \in SUBSET Task /\ deps \in SUBSET Edge /\ own \in SUBSET Edge
  BY PatchList DEF Inv, TypeOK
<1>2. Unwritten(txn[t])
  BY DEF ReplayInvariant, ChangesOK, Ending
<1>3. DepsSeen(t) = deps /\ \A k \in Task : TaskSeen(t, k) = tasks[k]
  BY <1>2 DEF Unwritten, DepsSeen, TaskSeen
<1>4. {e \in DepsSeen(t) : TaskSeen(t, e[1]) # None /\ TaskSeen(t, e[1]).project = p} = own
  BY <1>1, <1>3 DEF Edge
<1>5. /\ \A d \in ds : tasks[d] # None /\ tasks[d].project = p
      /\ r.task \notin Reach(own, ds)
  BY <1>1, <1>3, <1>4 DEF ValidDependencies
<1> HIDE DEF own, ds, p
<1>6. PICK C : Avoids(C, own, ds, r.task)
  BY <1>1, <1>5, NotReached
<1>7. Avoids(C \cap TasksOf(p), deps, ds, r.task)
  <2>1. ds \subseteq C \cap TasksOf(p)
    BY <1>1, <1>5, <1>6 DEF Avoids, TasksOf
  <2>2. Closed(deps, C \cap TasksOf(p))
    <3> SUFFICES ASSUME NEW e \in deps, e[1] \in C, e[1] \in TasksOf(p)
                 PROVE  e[2] \in C /\ e[2] \in TasksOf(p)
      BY DEF Closed
    <3>1. e \in own
      BY DEF own, TasksOf
    <3>2. e[2] \in C
      BY <1>6, <3>1 DEF Avoids, Closed
    <3>3. e[2] \in Task /\ tasks[e[2]] # None /\ tasks[e[1]].project = tasks[e[2]].project
      BY <1>1 DEF Edge, RowsInvariant, DependenciesWithinProject
    <3> QED
      BY <3>2, <3>3 DEF TasksOf
  <2> QED
    BY <1>6, <2>1, <2>2 DEF Avoids
<1> QED
  BY <1>1, <1>7, NotReached DEF ds

LEMMA InitPaths == Init => PathsInvariant
<1> SUFFICES ASSUME Init PROVE PathsInvariant
  OBVIOUS
<1>1. deps = {} /\ \A t \in Txn : txn[t].pc = "idle"
  BY DEF Init, Idle
<1>2. deps \in SUBSET Edge
  BY <1>1
<1>3. ASSUME NEW k \in Task PROVE k \notin Reach(deps, DirectDeps(k))
  <2>1. DirectDeps(k) = {}
    BY <1>1 DEF DirectDeps
  <2>2. Avoids({}, deps, {}, k)
    BY <1>1 DEF Avoids, Closed
  <2>3. {} \in SUBSET Task
    OBVIOUS
  <2> QED
    BY <1>2, <2>1, <2>2, <2>3, NotReached
<1> QED
  BY <1>1, <1>3 DEF PathsInvariant, Acyclic

\* A patch that has passed validation stays valid, whatever the step.
LEMMA NextPathsOK ==
  ASSUME Inv, Inv', RowsInvariant, NamesInvariant, ReplayInvariant, RequestsAccepted,
         OneDependencyPatch, PathsInvariant, [Next]_vars, NEW u \in Txn,
         txn'[u].pc \notin {"idle", "lock", "validate"}, NEW r, r = txn'[u].req,
         r.kind = "UpdateTask", r.deps # None
  PROVE  r.task \notin Reach(deps', ToSet(r.deps))
<1>1. CASE txn'[u] = txn[u]
  <2>1. r.task \notin Reach(deps, ToSet(r.deps))
    BY <1>1 DEF PathsInvariant, PathsOK
  <2>2. ASSUME NEW t \in Txn, Commit(t)
        PROVE  r.task \notin Reach(deps', ToSet(r.deps))
    <3>1. t # u
      BY <2>2 DEF Commit, Inv, TypeOK, Idle
    <3>2. PatchesDependencies(txn[u])
      <4>1. txn[u].req # None
        BY <1>1 DEF Inv, LogInvariant, ShapeOK
      <4> QED
        BY <1>1, <4>1 DEF PatchesDependencies
    <3>3. ~ PatchesDependencies(txn[t])
      BY <3>1, <3>2 DEF OneDependencyPatch
    <3>4. /\ r.task \in used /\ ToSet(r.deps) \in SUBSET Task
          /\ ToSet(r.deps) \subseteq used
      BY <1>1, PatchList
    <3> QED
      BY <2>1, <2>2, <3>3, <3>4, CommitPaths
  <2> QED
    BY <2>1, <2>2, StepTables
<1>2. ASSUME NEW q \in Request, Begin(u, q) PROVE FALSE
  BY <1>2, BeginIs DEF FirstPC
<1>3. CASE /\ Statement(u) /\ ~ Commit(u) /\ txn[u].pc # "idle"
           /\ txn'[u] # Idle /\ txn'[u].req = txn[u].req
  <2>1. deps' = deps
    BY <1>3, OnlyCommitsWrite
  <2>2. r = txn[u].req
    BY <1>3
  <2>3. CASE txn[u].pc \notin {"lock", "validate"}
    <3>1. r.task \notin Reach(deps, ToSet(r.deps))
      BY <1>3, <2>2, <2>3 DEF PathsInvariant, PathsOK
    <3> QED
      BY <2>1, <3>1
  <2>4. CASE UpdateTaskValidate(u)
    <3>1. /\ txn[u].pc = "validate"
          /\ ValidDependencies(u, r.task, txn[u].project, ToSet(r.deps))
      BY <1>3, <2>2, <2>4, UpdateTaskGoes
    <3>2. r.task \notin Reach(deps, ToSet(r.deps))
      BY <2>2, <3>1, ValidatedPaths
    <3> QED
      BY <2>1, <3>2
  <2>5. UpdateTaskLock(u) => txn'[u].pc = "validate"
    BY <1>3, <2>2, UpdateTaskGoes
  <2>6. UpdateTaskComplete(u) => txn[u].pc = "complete"
    BY <2>2, UpdateTaskGoes
  <2>7. CASE ~ UpdateTaskLock(u) /\ ~ UpdateTaskValidate(u) /\ ~ UpdateTaskComplete(u)
    <3>1. Carries(u)
      BY <1>3, <2>7, OtherStatements
    <3>2. ~ Checking(txn[u])
      BY <1>3, <2>2, <3>1 DEF Carries
    <3> QED
      BY <2>3, <3>2 DEF Checking
  <2> QED
    BY <2>3, <2>4, <2>5, <2>6, <2>7
<1> QED
  BY <1>1, <1>2, <1>3, StepTxn

LEMMA NextPaths ==
  /\ Inv /\ Inv' /\ RowsInvariant /\ NamesInvariant /\ ReplayInvariant
  /\ RequestsAccepted /\ OneDependencyPatch /\ PathsInvariant /\ [Next]_vars
  => PathsInvariant'
<1> SUFFICES ASSUME Inv, Inv', RowsInvariant, NamesInvariant, ReplayInvariant,
                    RequestsAccepted, OneDependencyPatch, PathsInvariant, [Next]_vars
             PROVE  PathsInvariant'
  OBVIOUS
<1>1. Acyclic'
  <2>1. CASE deps' = deps
    BY <2>1 DEF PathsInvariant, Acyclic, Reach, DirectDeps
  <2> QED
    BY <2>1, StepTables, CommitAcyclic
<1>2. ASSUME NEW u \in Txn, txn'[u].pc # "idle" PROVE PathsOK(txn[u])'
  <2>1. PICK r : r = txn'[u].req
    OBVIOUS
  <2>2. ASSUME txn'[u].pc \notin {"lock", "validate"}, r.kind = "UpdateTask",
               r.deps # None
        PROVE  r.task \notin Reach(deps', ToSet(r.deps))
    BY <1>2, <2>1, <2>2, NextPathsOK
  <2>3. \A from : Reach(deps, from)' = Reach(deps', from)
    BY DEF Reach
  <2>4. ToSet(r.deps)' = ToSet(r.deps)
    BY DEF ToSet
  <2> QED
    BY <2>1, <2>2, <2>3, <2>4 DEF PathsOK
<1> QED
  BY <1>1, <1>2 DEF PathsInvariant

\* What a request named when it arrived is still an id that was handed out,
\* and a breakdown that was valid still is.
THEOREM RequestsStayValid == Spec => []RequestsAccepted
BY InitInv, NextInv, InitAccepted, NextAccepted, PTL DEF Spec

\* Two dependency patches at once can close a cycle (each is validated before
\* the other commits); nothing else can.  As long as at most one is open the
\* graph stays acyclic, whatever creations, breakdowns and deletions go on
\* beside it, and no path leads back from a list it has validated.
THEOREM ValidatedListsStayValid == Spec /\ []OneDependencyPatch => []PathsInvariant
BY InitInv, NextInv, RowsStayConsistent, LogKnowsEveryTask, LogShowsTables,
   RequestsStayValid, InitPaths, NextPaths, PTL DEF Spec

\* So a cycle takes two open dependency patches.
THEOREM CyclesNeedTwoDependencyPatches == Spec /\ []OneDependencyPatch => []Acyclic
<1>1. PathsInvariant => Acyclic
  BY DEF PathsInvariant
<1> QED
  BY <1>1, ValidatedListsStayValid, PTL

-----------------------------------------------------------------------------
(* Pairs of tasks, however many transactions patch dependencies. *)

\* No edge comes to a task or goes from it while a patch in another
\* transaction has its row.
LEMMA CommitLists ==
  ASSUME Inv, RowsInvariant, RequestsAccepted,
         NEW t, NEW x, NEW r, Committing(t, x, r),
         NEW u \in Txn, u # t, txn[u].pc \notin {"idle", "lock"},
         NEW q, q = txn[u].req, q.kind = "UpdateTask",
         NEW e \in deps', NEW k \in {e[1], e[2]}, k = q.task
  PROVE  e \in deps
<1>1. Holds(txn[u], k, {"update"}) /\ k \in used /\ k \in Task
  BY PatchList DEF RowsInvariant, ReadsOK
<1>2. t \in Txn /\ x = txn[t] /\ x.req = r /\ x.pc = "commit"
  BY DEF Committing
<1>3. ~ Holds(x, k, Mode)
  BY <1>1, <1>2, HoldsAlone
<1>4. x.puts[k] = None
  <2>1. CASE k \in ToSet(x.fresh)
    BY <1>1, <2>1 DEF Committing
  <2>2. CASE r.kind = "UpdateTask" /\ k = r.task
    <3>1. Holds(x, k, {"update"})
      BY <1>2, <2>2 DEF Committing, ReadsOK
    <3> QED
      BY <1>3, <3>1 DEF Holds, Mode
  <2> QED
    BY <1>1, <1>2, <2>1, <2>2 DEF RowsInvariant, WritesOK
<1>5. ~ Linked(x, k)
  BY <1>3, <1>4 DEF Linked
<1>6. e \notin x.addDeps
  BY <1>2, <1>5 DEF RowsInvariant, WritesOK
<1> QED
  BY <1>6 DEF Committing

\* No two subtasks of a breakdown wait for each other.
LEMMA LayersOneWay ==
  ASSUME NEW n \in Nat, NEW before \in [1..n -> SUBSET (1..n)], NEW step,
         Layers(step, n, before), NEW i \in 1..n, NEW j \in before[i]
  PROVE  i \notin before[j]
<1> SUFFICES ASSUME i \in before[j] PROVE FALSE
  OBVIOUS
<1>1. j \in 1..n
  OBVIOUS
<1>2. PICK m \in 1..n : i \in step[m] /\ i \notin step[m - 1]
  BY LayerOf
<1>3. j \in step[m - 1]
  BY <1>2 DEF Layers
<1>4. PICK l \in 1..n : l = m - 1
  BY <1>2, <1>3 DEF Layers
<1>5. i \in step[l - 1]
  BY <1>1, <1>3, <1>4 DEF Layers
<1>6. step[l - 1] \subseteq step[l]
  BY LayersGrow
<1> QED
  BY <1>2, <1>4, <1>5, <1>6

LEMMA CommitPairs ==
  ASSUME Inv, Inv', RowsInvariant, NamesInvariant, ReplayInvariant, RequestsAccepted,
         PairsInvariant, NEW t \in Txn, Commit(t)
  PROVE  NoMutualDependency'
<1>1. PICK x, r : x = txn[t] /\ r = x.req
  OBVIOUS
<1>2. Committing(t, x, r)
  BY <1>1, CommitStart
<1>3. deps \in SUBSET Edge /\ deps' \in SUBSET Edge
  BY DEF Inv, TypeOK
<1>4. \A e \in deps : e[1] \in used /\ e[2] \in used
  BY EdgesUsed
<1>5. SUFFICES ASSUME NEW a \in Task, NEW b \in Task,
                      <<a, b>> \in deps', <<b, a>> \in deps'
               PROVE  FALSE
  BY <1>3 DEF NoMutualDependency, Edge
<1>6. <<a, b>> \notin deps \/ <<b, a>> \notin deps
  BY DEF PairsInvariant, NoMutualDependency
<1>7. CASE r.kind = "CreateTask"
  <2>1. /\ x.fresh[1] \notin used
        /\ \A e \in deps' : e \in deps \/ (e[1] = x.fresh[1] /\ e[2] \in used)
    BY <1>2, <1>7, CreateTaskEdges
  <2> QED
    BY <1>4, <1>5, <1>6, <2>1
<1>8. CASE r.kind = "CreateTaskBatch"
  <2>1. PICK n, ids, before : Indexed(x, r, n, ids, before)
    BY DEF Indexed
  <2>2. /\ n \in Nat /\ ToSet(ids) = {ids[i] : i \in 1..n}
        /\ \A i, j \in 1..n : ids[i] = ids[j] => i = j
        /\ before \in [1..n -> SUBSET (1..n)]
        /\ \E step : Layers(step, n, before)
        /\ \A e : e \in BatchEdges(x) <=>
                    \E i \in 1..n : \E j \in before[i] : e = <<ids[i], ids[j]>>
        /\ \A k \in BatchEnds(x) : \E i \in 1..n : k = ids[i]
    BY <1>2, <1>8, <2>1, BatchIndices
  <2>3. /\ r.task \in used
        /\ deps' = deps \cup BatchEdges(x) \cup ({r.task} \X BatchEnds(x))
    BY <1>2, <1>8, BatchCommitEdges
  <2>4. \A i \in 1..n : ids[i] \notin used
    BY <1>2, <2>1, <2>2 DEF Committing, Indexed
  <2>5. PICK step : Layers(step, n, before)
    BY <2>2
  <2>6. ASSUME NEW c, NEW d, <<c, d>> \in BatchEdges(x), <<d, c>> \in deps'
        PROVE  FALSE
    <3>1. PICK i \in 1..n : \E j \in before[i] : <<c, d>> = <<ids[i], ids[j]>>
      BY <2>2, <2>6
    <3>2. PICK j \in before[i] : c = ids[i] /\ d = ids[j]
      BY <3>1
    <3>3. j \in 1..n /\ c \notin used /\ d \notin used
      BY <2>2, <2>4, <3>2
    <3>4. <<d, c>> \in BatchEdges(x)
      BY <1>4, <2>3, <2>6, <3>3
    <3>5. PICK i2 \in 1..n : \E j2 \in before[i2] : <<d, c>> = <<ids[i2], ids[j2]>>
      BY <2>2, <3>4
    <3>6. PICK j2 \in before[i2] : d = ids[i2] /\ c = ids[j2]
      BY <3>5
    <3>7. i2 = j /\ j2 = i
      BY <2>2, <3>2, <3>3, <3>6
    <3> QED
      BY <2>2, <2>5, <3>6, <3>7, LayersOneWay
  <2>7. ASSUME NEW d \in BatchEnds(x), <<d, r.task>> \in deps'
        PROVE  FALSE
    <3>1. d \notin used
      BY <2>2, <2>4
    <3>2. <<d, r.task>> \in BatchEdges(x)
      BY <1>4, <2>3, <2>7, <3>1
    <3> QED
      BY <2>2, <2>3, <2>4, <3>2
  <2>8. ASSUME NEW e \in deps', e \notin deps
        PROVE  e \in BatchEdges(x) \/ \E d \in BatchEnds(x) : e = <<r.task, d>>
    BY <2>3, <2>8
  <2>9. ASSUME NEW c \in Task, NEW d \in Task, <<c, d>> \in deps', <<c, d>> \notin deps,
               <<d, c>> \in deps'
        PROVE  FALSE
    <3>1. CASE <<c, d>> \in BatchEdges(x)
      BY <2>6, <2>9, <3>1
    <3>2. CASE \E y \in BatchEnds(x) : <<c, d>> = <<r.task, y>>
      BY <2>7, <2>9, <3>2
    <3> QED
      BY <2>8, <2>9, <3>1, <3>2
  <2> QED
    BY <1>5, <1>6, <2>9
<1>9. CASE PatchesDependencies(x)
  <2>1. /\ r.kind = "UpdateTask" /\ r.deps # None
        /\ \A e \in deps' : \/ e \in deps /\ e[1] # r.task
                            \/ e[1] = r.task /\ e[2] \in ToSet(r.deps)
    BY <1>2, <1>9, PatchEdges
  <2>2. PairsOK(x) /\ x.pc = "commit"
    BY <1>1, <1>2 DEF PairsInvariant, Committing
  <2>3. \A d \in ToSet(r.deps) : d # r.task /\ <<d, r.task>> \notin deps
    BY <1>1, <2>1, <2>2 DEF PairsOK
  <2>4. ASSUME NEW c \in Task, NEW d \in Task, <<c, d>> \in deps', <<c, d>> \notin deps,
               <<d, c>> \in deps'
        PROVE  FALSE
    <3>1. c = r.task /\ d \in ToSet(r.deps)
      BY <2>1, <2>4
    <3>2. <<d, c>> \in deps \/ d = r.task
      BY <2>1, <2>4
    <3> QED
      BY <2>3, <3>1, <3>2
  <2> QED
    BY <1>5, <1>6, <2>4
<1>10. CASE ~ PatchesDependencies(x) /\ r.kind \notin {"CreateTask", "CreateTaskBatch"}
  BY <1>2, <1>5, <1>6, <1>10, OtherEdges
<1> QED
  BY <1>7, <1>8, <1>9, <1>10

\* A list that names no task depending on its own does not come to, whatever
\* the step.
LEMMA NextPairsOK ==
  ASSUME Inv, RowsInvariant, NamesInvariant, ReplayInvariant, RequestsAccepted,
         PairsInvariant, [Next]_vars, NEW u \in Txn,
         txn'[u].pc \notin {"idle", "lock", "validate"}, NEW r, r = txn'[u].req,
         r.kind = "UpdateTask", r.deps # None, NEW d \in ToSet(r.deps)
  PROVE  d # r.task /\ <<d, r.task>> \notin deps'
<1>1. CASE txn'[u] = txn[u]
  <2>1. d # r.task /\ <<d, r.task>> \notin deps
    BY <1>1 DEF PairsInvariant, PairsOK
  <2>2. ASSUME NEW t \in Txn, Commit(t), <<d, r.task>> \in deps'
        PROVE  FALSE
    <3>1. t # u
      BY <2>2 DEF Commit, Inv, TypeOK, Idle
    <3>2. PICK x, q : x = txn[t] /\ q = x.req
      OBVIOUS
    <3>3. Committing(t, x, q)
      BY <2>2, <3>2, CommitStart
    <3>4. PICK e : e = <<d, r.task>>
      OBVIOUS
    <3>5. e \in deps' /\ r.task \in {e[1], e[2]}
      BY <2>2, <3>4
    <3>6. e \in deps
      BY <1>1, <3>1, <3>3, <3>5, CommitLists
    <3> QED
      BY <2>1, <3>4, <3>6
  <2> QED
    BY <2>1, <2>2, StepTables
<1>2. ASSUME NEW q \in Request, Begin(u, q) PROVE FALSE
  BY <1>2, BeginIs DEF FirstPC
<1>3. CASE /\ Statement(u) /\ ~ Commit(u) /\ txn[u].pc # "idle"
           /\ txn'[u] # Idle /\ txn'[u].req = txn[u].req
  <2>1. deps' = deps /\ r = txn[u].req
    BY <1>3, OnlyCommitsWrite
  <2>2. CASE txn[u].pc \notin {"lock", "validate"}
    BY <1>3, <2>1, <2>2 DEF PairsInvariant, PairsOK
  <2>3. CASE UpdateTaskValidate(u)
    <3>1. /\ txn[u].pc = "validate"
          /\ ValidDependencies(u, r.task, txn[u].project, ToSet(r.deps))
      BY <1>3, <2>1, <2>3, UpdateTaskGoes
    <3>2. r.task \notin Reach(deps, ToSet(r.deps))
      BY <2>1, <3>1, ValidatedPaths
    <3>3. ToSet(r.deps) \in SUBSET Task /\ deps \in SUBSET Edge
      BY <1>3, <2>1, PatchList DEF Inv, TypeOK
    <3>4. PICK C : Avoids(C, deps, ToSet(r.deps), r.task)
      BY <3>2, <3>3, NotReached
    <3> QED
      BY <2>1, <3>4 DEF Avoids, Closed
  <2>4. UpdateTaskLock(u) => txn'[u].pc = "validate"
    BY <1>3, <2>1, UpdateTaskGoes
  <2>5. UpdateTaskComplete(u) => txn[u].pc = "complete"
    BY <2>1, UpdateTaskGoes
  <2>6. CASE ~ UpdateTaskLock(u) /\ ~ UpdateTaskValidate(u) /\ ~ UpdateTaskComplete(u)
    <3>1. Carries(u)
      BY <1>3, <2>6, OtherStatements
    <3>2. ~ Checking(txn[u])
      BY <1>3, <2>1, <3>1 DEF Carries
    <3> QED
      BY <2>2, <3>2 DEF Checking
  <2> QED
    BY <2>2, <2>3, <2>4, <2>5, <2>6
<1> QED
  BY <1>1, <1>2, <1>3, StepTxn

LEMMA NextPairs ==
  /\ Inv /\ Inv' /\ RowsInvariant /\ NamesInvariant /\ ReplayInvariant
  /\ RequestsAccepted /\ PairsInvariant /\ [Next]_vars
  => PairsInvariant'
<1> SUFFICES ASSUME Inv, Inv', RowsInvariant, NamesInvariant, ReplayInvariant,
                    RequestsAccepted, PairsInvariant, [Next]_vars
             PROVE  PairsInvariant'
  OBVIOUS
<1>1. NoMutualDependency'
  <2>1. CASE deps' = deps
    BY <2>1 DEF PairsInvariant, NoMutualDependency
  <2> QED
    BY <2>1, StepTables, CommitPairs
<1>2. ASSUME NEW u \in Txn, txn'[u].pc # "idle" PROVE PairsOK(txn[u])'
  <2>1. PICK r : r = txn'[u].req
    OBVIOUS
  <2>2. ASSUME txn'[u].pc \notin {"lock", "validate"}, r.kind = "UpdateTask",
               r.deps # None
        PROVE  \A d \in ToSet(r.deps) : d # r.task /\ <<d, r.task>> \notin deps'
    BY <1>2, <2>1, <2>2, NextPairsOK
  <2> QED
    BY <2>1, <2>2 DEF PairsOK, ToSet
<1> QED
  BY <1>1, <1>2 DEF PairsInvariant

\* No two tasks ever depend on each other and none on itself, however many
\* dependency patches are open: unlike a longer cycle, a pair is kept out by
\* the row locks that validation and the edge INSERTs leave behind.
THEOREM NoPairDependsOnEachOther == Spec => []PairsInvariant /\ []NoMutualDependency
<1>1. PairsInvariant => NoMutualDependency
  BY DEF PairsInvariant
<1>2. Init => PairsInvariant
  BY DEF Init, Idle, PairsInvariant, NoMutualDependency
<1> QED
  BY <1>1, <1>2, InitInv, NextInv, RowsStayConsistent, LogKnowsEveryTask,
     LogShowsTables, RequestsStayValid, NextPairs, PTL DEF Spec

-----------------------------------------------------------------------------
(* Completion, while no two transactions patch statuses. *)

\* Only a status patch changes the status of a task there already was.
LEMMA CommitStatuses ==
  ASSUME Inv, NEW t, NEW x, NEW r, Committing(t, x, r), ~ PatchesStatus(x),
         NEW d \in Task, d \in used, tasks'[d] # None
  PROVE  tasks[d] # None /\ tasks'[d].status = tasks[d].status
<1>1. x \in TxnState /\ x = txn[t] /\ x.req = r /\ r \in Request /\ x.fresh \in Seq(Task)
  BY DEF Committing, TxnState
<1>2. /\ d \notin x.del
      /\ tasks'[d] = IF x.puts[d] # None THEN x.puts[d] ELSE tasks[d]
  BY <1>1 DEF Committing, TaskSeen
<1>3. d \notin ToSet(x.fresh)
  BY DEF Committing
<1>4. r.kind \in {"CreateTask", "UpdateTask", "DeleteTask", "CreateTaskBatch",
                  "CreateComment", "DeleteComment", "UpdateProject", "DeleteProject"}
  BY <1>1 DEF Request
<1>5. CASE r.kind = "CreateTask"
  <2>1. x.puts = [k \in Task |-> IF k = x.fresh[1] THEN CreatedRow(r) ELSE None]
    BY <1>1, <1>5 DEF Committing, ChangesOK
  <2>2. x.fresh[1] \in ToSet(x.fresh)
    BY <1>1, <1>5 DEF Committing, RequestOK, ToSet
  <2> QED
    BY <1>2, <1>3, <2>1, <2>2
<1>6. CASE r.kind = "CreateTaskBatch"
  <2>1. x.puts = BatchPuts(x)
    BY <1>1, <1>6 DEF Committing, ChangesOK
  <2> QED
    BY <1>2, <1>3, <2>1 DEF BatchPuts
<1>7. CASE r.kind = "UpdateTask"
  <2>1. x.puts = [k \in Task |-> IF k = r.task THEN PatchedRow(r, tasks[k]) ELSE None]
    BY <1>1, <1>7 DEF Committing, ChangesOK
  <2>2. r.status = None
    BY <1>1, <1>7, NoRequestAssumption DEF PatchesStatus
  <2>3. tasks[r.task] # None
    BY <1>1, <1>7 DEF Committing, ReadsOK
  <2>4. PatchedRow(r, tasks[d]).status = tasks[d].status
    BY <2>2 DEF PatchedRow, Patched
  <2> QED
    BY <1>2, <2>1, <2>3, <2>4
<1>8. CASE r.kind \in {"CreateComment", "DeleteComment", "UpdateProject"}
  <2>1. x.puts[d] = None
    BY <1>1, <1>8 DEF Committing, ChangesOK
  <2> QED
    BY <1>2, <2>1
<1>9. CASE r.kind \in {"DeleteTask", "DeleteProject"}
  <2>1. x.puts[d] = None
    BY <1>1, <1>9 DEF Committing, DeletesOK
  <2> QED
    BY <1>2, <2>1
<1> QED
  BY <1>4, <1>5, <1>6, <1>7, <1>8, <1>9

LEMMA ListUsed ==
  ASSUME Inv, RowsInvariant, RequestsAccepted, NEW u \in Txn, txn[u].pc # "idle",
         NEW r, r = txn[u].req, r.kind = "UpdateTask"
  PROVE  ListOf(r) \subseteq Task /\ ListOf(r) \subseteq used
<1>1. CASE r.deps # None
  BY <1>1, PatchList DEF ListOf
<1>2. CASE r.deps = None
  <2>1. \A e \in deps : e[2] \in Task /\ e[2] \in used
    BY EdgesUsed DEF Edge
  <2> QED
    BY <1>2, <2>1 DEF ListOf, DirectDeps
<1> QED
  BY <1>1, <1>2

LEMMA InitStatuses == Init => StatusesInvariant
BY DEF Init, Idle, StatusesInvariant

\* What a completion has read and checked still holds, whatever the step.
LEMMA NextStatusesOK ==
  ASSUME Inv, Inv', RowsInvariant, NamesInvariant, ReplayInvariant, RequestsAccepted,
         OneStatusPatch, StatusesInvariant, [Next]_vars, NEW u \in Txn,
         txn'[u].pc \notin {"idle", "lock", "validate"}, NEW r, r = txn'[u].req,
         r.kind = "UpdateTask", r.status = "done"
  PROVE  /\ txn'[u].pc = "complete" => ListOf(r)' \subseteq txn'[u].read
         /\ txn'[u].pc # "complete" =>
              \A d \in ListOf(r)' : tasks'[d] # None => tasks'[d].status = "done"
<1>1. CASE txn'[u] = txn[u]
  <2>1. /\ txn[u].pc = "complete" => ListOf(r) \subseteq txn[u].read
        /\ txn[u].pc # "complete" =>
             \A d \in ListOf(r) : tasks[d] # None => tasks[d].status = "done"
    BY <1>1 DEF StatusesInvariant, StatusesOK, ListOf
  <2>2. CASE tasks' = tasks /\ deps' = deps
    <3>1. ListOf(r)' = ListOf(r)
      BY <2>2 DEF ListOf, DirectDeps, ToSet
    <3> QED
      BY <1>1, <2>1, <2>2, <3>1
  <2>3. ASSUME NEW t \in Txn, Commit(t)
        PROVE  /\ ListOf(r)' \subseteq ListOf(r)
               /\ \A d \in ListOf(r) : tasks'[d] # None =>
                    tasks[d] # None /\ tasks'[d].status = tasks[d].status
    <3>1. t # u
      BY <2>3 DEF Commit, Inv, TypeOK, Idle
    <3>2. PatchesStatus(txn[u])
      <4>1. txn[u].req # None
        BY <1>1 DEF Inv, LogInvariant, ShapeOK
      <4>2. r.status # None
        BY NoneAssumption, StatusAssumption
      <4> QED
        BY <1>1, <4>1, <4>2 DEF PatchesStatus
    <3>3. ~ PatchesStatus(txn[t])
      BY <3>1, <3>2 DEF OneStatusPatch
    <3>4. Committing(t, txn[t], txn[t].req)
      BY <2>3, CommitStart
    <3>5. \A d \in ListOf(r) : d \in Task /\ d \in used
      BY <1>1, ListUsed
    <3>6. \A d \in ListOf(r) : tasks'[d] # None =>
            tasks[d] # None /\ tasks'[d].status = tasks[d].status
      BY <3>3, <3>4, <3>5, CommitStatuses
    <3>7. ASSUME NEW e \in deps', e[1] = r.task PROVE e \in deps
      BY <1>1, <3>1, <3>4, <3>7, CommitLists
    <3>8. ListOf(r)' \subseteq ListOf(r)
      BY <3>7 DEF ListOf, DirectDeps, ToSet
    <3> QED
      BY <3>6, <3>8
  <2> QED
    BY <1>1, <2>1, <2>2, <2>3, StepTables
<1>2. ASSUME NEW q \in Request, Begin(u, q) PROVE FALSE
  BY <1>2, BeginIs DEF FirstPC
<1>3. CASE /\ Statement(u) /\ ~ Commit(u) /\ txn[u].pc # "idle"
           /\ txn'[u] # Idle /\ txn'[u].req = txn[u].req
  <2>1. deps' = deps /\ tasks' = tasks
    BY <1>3, OnlyCommitsWrite
  <2>2. r = txn[u].req /\ ListOf(r)' = ListOf(r)
    BY <1>3, <2>1 DEF ListOf, DirectDeps, ToSet
  <2>3. CASE UpdateTaskLock(u)
    <3>1. /\ txn'[u].read = DirectDeps(r.task)
          /\ txn'[u].pc = CASE r.deps # None -> "validate"
                            [] r.deps = None /\ r.status = "done" -> "complete"
                            [] OTHER -> "write"
      BY <1>3, <2>2, <2>3, UpdateTaskGoes
    <3>2. r.deps = None /\ txn'[u].pc = "complete"
      BY <3>1
    <3> QED
      BY <2>2, <3>1, <3>2 DEF ListOf
  <2>4. CASE UpdateTaskValidate(u)
    <3>1. /\ txn[u].pc = "validate" /\ txn'[u].read = ToSet(r.deps)
          /\ txn'[u].pc = "complete"
      BY <1>3, <2>2, <2>4, UpdateTaskGoes
    <3>2. r.deps # None
      BY <2>2, <3>1 DEF Inv, LogInvariant, ShapeOK, RequestOK
    <3> QED
      BY <2>2, <3>1, <3>2 DEF ListOf
  <2>5. CASE UpdateTaskComplete(u)
    <3>1. /\ txn[u].pc = "complete" /\ CanComplete(u, txn[u].read)
          /\ txn'[u].pc = "write"
      BY <1>3, <2>2, <2>5, UpdateTaskGoes
    <3>2. ListOf(r) \subseteq txn[u].read /\ ListOf(r) \subseteq Task
      BY <1>3, <2>2, <3>1, ListUsed DEF StatusesInvariant, StatusesOK, ListOf
    <3>3. Unwritten(txn[u])
      BY <1>3, <2>2, <3>1 DEF ReplayInvariant, ChangesOK, Ending
    <3>4. \A d \in Task : TaskSeen(u, d) = tasks[d]
      BY <3>3 DEF Unwritten, TaskSeen
    <3>5. \A d \in ListOf(r) : tasks[d] # None => tasks[d].status = "done"
      BY <3>1, <3>2, <3>4 DEF CanComplete
    <3> QED
      BY <2>1, <2>2, <3>1, <3>5
  <2>6. CASE ~ UpdateTaskLock(u) /\ ~ UpdateTaskValidate(u) /\ ~ UpdateTaskComplete(u)
    <3>1. Carries(u)
      BY <1>3, <2>6, OtherStatements
    <3>2. ~ Checking(txn[u]) /\ ~ Checking(txn'[u])
      BY <1>3, <2>2, <3>1 DEF Carries
    <3>3. \A d \in ListOf(r) : tasks[d] # None => tasks[d].status = "done"
      BY <1>3, <2>2, <3>2 DEF StatusesInvariant, StatusesOK, ListOf, Checking
    <3> QED
      BY <2>1, <2>2, <3>2, <3>3 DEF Checking
  <2> QED
    BY <2>3, <2>4, <2>5, <2>6
<1> QED
  BY <1>1, <1>2, <1>3, StepTxn

LEMMA NextStatuses ==
  /\ Inv /\ Inv' /\ RowsInvariant /\ NamesInvariant /\ ReplayInvariant
  /\ RequestsAccepted /\ OneStatusPatch /\ StatusesInvariant /\ [Next]_vars
  => StatusesInvariant'
<1> SUFFICES ASSUME Inv, Inv', RowsInvariant, NamesInvariant, ReplayInvariant,
                    RequestsAccepted, OneStatusPatch, StatusesInvariant, [Next]_vars,
                    NEW u \in Txn, txn'[u].pc # "idle"
             PROVE  StatusesOK(txn[u])'
  BY DEF StatusesInvariant
<1>1. PICK r : r = txn'[u].req
  OBVIOUS
<1>2. ASSUME txn'[u].pc \notin {"lock", "validate"}, r.kind = "UpdateTask",
             r.status = "done"
      PROVE  /\ txn'[u].pc = "complete" => ListOf(r)' \subseteq txn'[u].read
             /\ txn'[u].pc # "complete" =>
                  \A d \in ListOf(r)' : tasks'[d] # None => tasks'[d].status = "done"
  BY <1>1, <1>2, NextStatusesOK
<1> QED
  BY <1>1, <1>2 DEF StatusesOK, ListOf

LEMMA CompletionStep ==
  ASSUME Inv, Inv', RowsInvariant, RowsInvariant', NamesInvariant, ReplayInvariant,
         RequestsAccepted, StatusesInvariant, [Next]_vars, NEW k \in Task,
         tasks[k] # None, tasks'[k] # None,
         tasks[k].status # "done", tasks'[k].status = "done"
  PROVE  \A e \in deps' : e[1] = k => tasks'[e[2]].status = "done"
<1>1. PICK t \in Txn : Commit(t)
  BY StepTables
<1>2. PICK x, r : x = txn[t] /\ r = x.req
  OBVIOUS
<1>3. Committing(t, x, r)
  BY <1>1, <1>2, CommitStart
<1>4. k \in used
  BY DEF RowsInvariant, IdsUsedOnce
<1>5. PatchesStatus(x)
  BY <1>3, <1>4, CommitStatuses
<1>6. r.kind = "UpdateTask" /\ r.status # None /\ r.deps \in Seq(Task) \cup {None}
  BY <1>2, <1>3, <1>5, RequestFields DEF PatchesStatus, Committing
<1>7. \A d \in Task : tasks'[d] # None =>
        tasks'[d] = IF d = r.task THEN PatchedRow(r, tasks[d]) ELSE tasks[d]
  <2>1. x.puts = [d \in Task |-> IF d = r.task THEN PatchedRow(r, tasks[d]) ELSE None]
    BY <1>2, <1>3, <1>6 DEF Committing, ChangesOK
  <2>2. \A d \in Task : tasks'[d] # None =>
          tasks'[d] = IF x.puts[d] # None THEN x.puts[d] ELSE tasks[d]
    BY <1>3 DEF Committing, TaskSeen
  <2>3. tasks[r.task] \in TaskRow
    BY <1>2, <1>3, <1>6, RequestFields DEF Committing, ReadsOK, Inv, TypeOK
  <2>4. PatchedRow(r, tasks[r.task]) \in TaskRow
    BY <1>3, <1>6, <2>3, RequestFields DEF Committing, PatchedRow, Patched, TaskRow
  <2>5. PatchedRow(r, tasks[r.task]) # None
    BY <2>4, NoneAssumption DEF TaskRow
  <2> QED
    BY <2>1, <2>2, <2>5
<1>8. k = r.task /\ r.status = "done"
  <2>1. k = r.task
    BY <1>7
  <2>2. PatchedRow(r, tasks[k]).status = r.status
    BY <1>6 DEF PatchedRow, Patched
  <2>3. tasks'[k] = PatchedRow(r, tasks[k])
    BY <1>7, <2>1
  <2> QED
    BY <2>1, <2>2, <2>3
<1>9. \A d \in ListOf(r) : tasks[d] # None => tasks[d].status = "done"
  <2>1. StatusesOK(x) /\ x.pc = "commit"
    BY <1>2, <1>3 DEF StatusesInvariant, Committing
  <2> QED
    BY <1>2, <1>6, <1>8, <2>1 DEF StatusesOK, ListOf
<1>10. ASSUME NEW e \in deps', e[1] = k PROVE tasks'[e[2]].status = "done"
  <2>1. e[2] \in Task /\ tasks'[e[2]] # None
    BY DEF Inv, TypeOK, Edge, RowsInvariant, DependenciesWithinProject
  <2>2. e[2] \in ListOf(r)
    <3>1. CASE r.deps = None
      <4>1. ~ PatchesDependencies(x)
        BY <1>2, <3>1 DEF PatchesDependencies
      <4>2. e \in deps
        BY <1>3, <1>6, <4>1, OtherEdges
      <4> QED
        BY <1>8, <1>10, <3>1, <4>2 DEF ListOf, DirectDeps
    <3>2. CASE r.deps # None
      <4>1. PatchesDependencies(x)
        BY <1>2, <1>5, <1>6, <3>2 DEF PatchesDependencies, PatchesStatus
      <4> QED
        BY <1>3, <1>8, <1>10, <3>2, <4>1, PatchEdges DEF ListOf
    <3> QED
      BY <3>1, <3>2
  <2>3. CASE e[2] = k
    BY <2>3
  <2>4. CASE e[2] # k
    BY <1>7, <1>8, <1>9, <2>1, <2>2, <2>4
  <2> QED
    BY <2>3, <2>4
<1> QED
  BY <1>10

\* As long as at most one status patch is open, what a completion has checked
\* holds until it commits, whatever dependency patches, creations, breakdowns
\* and deletions go on beside it.
THEOREM CheckedStatusesStayDone == Spec /\ []OneStatusPatch => []StatusesInvariant
BY InitInv, NextInv, RowsStayConsistent, LogKnowsEveryTask, LogShowsTables,
   RequestsStayValid, InitStatuses, NextStatuses, PTL DEF Spec

\* Two status patches at once can complete a task whose dependency is being
\* reopened; nothing else can.
THEOREM CompletionNeedsTwoStatusPatches ==
  Spec /\ []OneStatusPatch => CompletedAfterDependencies
<1>1. /\ Inv /\ Inv' /\ RowsInvariant /\ RowsInvariant' /\ NamesInvariant
      /\ ReplayInvariant /\ RequestsAccepted /\ StatusesInvariant /\ [Next]_vars
      => [\A k \in Task :
            /\ tasks[k] # None /\ tasks'[k] # None
            /\ tasks[k].status # "done" /\ tasks'[k].status = "done"
            => \A e \in deps' : e[1] = k => tasks'[e[2]].status = "done"]_vars
  BY CompletionStep
<1> QED
  BY <1>1, InitInv, NextInv, RowsStayConsistent, LogKnowsEveryTask, LogShowsTables,
     RequestsStayValid, CheckedStatusesStayDone, PTL DEF Spec, CompletedAfterDependencies

-----------------------------------------------------------------------------
(* The finish line. *)

LEMMA BatchLeadsEverywhere ==
  ASSUME Inv, Inv', RowsInvariant, NamesInvariant, ReplayInvariant, RequestsAccepted,
         NEW t \in Txn, Commit(t), txn[t].req.kind = "CreateTaskBatch"
  PROVE  ToSet(txn[t].fresh) \subseteq Reach(deps', {txn[t].req.task})
<1>1. PICK x, r, new : x = txn[t] /\ r = x.req /\ new = deps'
  OBVIOUS
<1>2. Committing(t, x, r) /\ r.kind = "CreateTaskBatch"
  BY <1>1, CommitStart
<1>3. PICK n, ids, before : Indexed(x, r, n, ids, before)
  BY DEF Indexed
<1>4. /\ n \in Nat /\ ToSet(ids) = {ids[i] : i \in 1..n}
      /\ before \in [1..n -> SUBSET (1..n)]
      /\ \E step : Layers(step, n, before)
      /\ \A e : e \in BatchEdges(x) <=>
                  \E i \in 1..n : \E j \in before[i] : e = <<ids[i], ids[j]>>
      /\ \A i \in 1..n : (\A j \in 1..n : i \notin before[j]) => ids[i] \in BatchEnds(x)
  BY <1>2, <1>3, BatchIndices
<1>5. BatchEdges(x) \subseteq new /\ {r.task} \X BatchEnds(x) \subseteq new
  BY <1>1, <1>2, BatchCommitEdges
<1>6. new \in SUBSET Edge /\ {r.task} \in SUBSET Task
  BY <1>1, <1>2, RequestFields DEF Inv, TypeOK, Committing
<1>7. PICK R : R = Reach(new, {r.task})
  OBVIOUS
<1>8. r.task \in R /\ Closed(new, R)
  BY <1>6, <1>7, ReachClosed
<1> DEFINE W == {i \in 1..n : ids[i] \in R}
<1>9. ASSUME NEW i \in 1..n, \A j \in 1..n : i \notin before[j] PROVE i \in W
  <2>1. <<r.task, ids[i]>> \in new
    BY <1>4, <1>5, <1>9
  <2> QED
    BY <1>8, <2>1 DEF Closed
<1>10. ASSUME NEW j \in 1..n, j \in W, NEW i \in before[j] PROVE i \in W
  <2>1. i \in 1..n
    BY <1>4
  <2>2. <<ids[j], ids[i]>> \in new
    BY <1>4, <1>5
  <2> QED
    BY <1>8, <1>10, <2>1, <2>2 DEF Closed
<1>11. \A i \in 1..n : i \in W
  <2> HIDE DEF W
  <2> QED
    BY <1>4, <1>9, <1>10, FromTheEnds
<1>12. ToSet(x.fresh) \subseteq R
  BY <1>3, <1>4, <1>11 DEF Indexed
<1> QED
  BY <1>1, <1>7, <1>12

\* Whatever went on while it was applied, the parent of a breakdown depends,
\* directly or not, on all its subtasks: it cannot be completed before them.
THEOREM ParentStaysFinishLine == Spec => ParentIsFinishLine
<1>1. ASSUME Inv, Inv', RowsInvariant, NamesInvariant, ReplayInvariant,
             RequestsAccepted, [Next]_vars, NEW t \in Txn,
             txn[t].pc = "commit", txn'[t].pc = "idle",
             txn[t].req.kind = "CreateTaskBatch", deps' # deps
      PROVE  ToSet(txn[t].fresh) \subseteq Reach(deps', {txn[t].req.task})
  <2>1. PICK u \in Txn : Commit(u)
    BY <1>1, StepTables
  <2>2. u = t
    BY <1>1, <2>1 DEF Commit, Inv, TypeOK
  <2> QED
    BY <1>1, <2>1, <2>2, BatchLeadsEverywhere
<1>2. /\ Inv /\ Inv' /\ RowsInvariant /\ NamesInvariant /\ ReplayInvariant
      /\ RequestsAccepted /\ [Next]_vars
      => [\A t \in Txn :
            txn[t].req # None /\ txn[t].pc = "commit" /\ txn'[t].pc = "idle"
            /\ txn[t].req.kind = "CreateTaskBatch" /\ deps' # deps
            => ToSet(txn[t].fresh) \subseteq Reach(deps', {txn[t].req.task})]_vars
  BY <1>1
<1> QED
  BY <1>2, InitInv, NextInv, RowsStayConsistent, LogKnowsEveryTask, LogShowsTables,
     RequestsStayValid, PTL DEF Spec, ParentIsFinishLine
=============================================================================
