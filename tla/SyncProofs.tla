----------------------------- MODULE SyncProofs -----------------------------
(***************************************************************************)
(* Proofs about Sync, for any tasks, page, queue and network size, any     *)
(* refreshes and any mix of failures: the types of its state, that a gap   *)
(* in what a tab has got is being filled, and, when refreshes do not       *)
(* overlap, that the events after lastSeq lead its board to what the log   *)
(* says.  What ApplyAll computes is shown by induction; that the naturals  *)
(* have one follows from the pigeonhole principle for finite sets.         *)
(***************************************************************************)
EXTENDS Sync, FiniteSetTheorems, TLAPS

-----------------------------------------------------------------------------
(* Naturals. *)

\* A set of naturals with 0 and every successor has them all: else i |-> i + 1
\* would map its part up to a missing n into that part without 0, one to one.
LEMMA Induction ==
  ASSUME NEW S \in SUBSET Nat, 0 \in S, \A n \in S : n + 1 \in S
  PROVE  S = Nat
<1> SUFFICES ASSUME NEW n \in Nat, n \notin S PROVE FALSE
  OBVIOUS
<1> DEFINE T == S \cap 0..n
           f == [i \in T |-> i + 1]
<1>1. IsFiniteSet(T)
  <2>1. IsFiniteSet(0..n) /\ T \in SUBSET (0..n)
    BY FS_Interval
  <2> HIDE DEF T
  <2> QED
    BY <2>1, FS_Subset
<1>2. 0 \in T
  OBVIOUS
<1>3. f \in Injection(T, T \ {0})
  BY DEF Injection, IsInjective
<1> HIDE DEF T, f
<1>4. /\ Cardinality(T) \in Nat /\ IsFiniteSet(T \ {0})
      /\ Cardinality(T \ {0}) = Cardinality(T) - 1
  BY <1>1, <1>2, FS_CardinalityType, FS_RemoveElement
<1>5. Cardinality(T) <= Cardinality(T \ {0})
  BY <1>3, <1>4, FS_Injection
<1> QED
  BY <1>4, <1>5

LEMMA MaxIs ==
  ASSUME NEW S \in SUBSET Nat, S # {}, NEW n \in Nat, \A x \in S : x <= n
  PROVE  Max(S) \in S /\ \A x \in S : x <= Max(S)
<1>1. \E x \in S : \A y \in S : x >= y
  <2> SUFFICES ASSUME \A x \in S : \E y \in S : ~ (x >= y) PROVE FALSE
    OBVIOUS
  <2> DEFINE U == {i \in Nat : \E x \in S : x >= i}
  <2>1. 0 \in U /\ \A i \in U : i + 1 \in U
    <3>1. 0 \in U
      <4>1. PICK x \in S : TRUE
        OBVIOUS
      <4> QED
        BY <4>1
    <3>2. ASSUME NEW i \in U PROVE i + 1 \in U
      <4>1. PICK x \in S : x >= i
        OBVIOUS
      <4>2. PICK y \in S : ~ (x >= y)
        OBVIOUS
      <4>3. y >= i + 1
        BY <4>1, <4>2
      <4> QED
        BY <4>3
    <3> QED
      BY <3>1, <3>2
  <2>2. U \in SUBSET Nat
    OBVIOUS
  <2> HIDE DEF U
  <2>3. n + 1 \in U
    BY <2>1, <2>2, Induction
  <2> QED
    BY <2>3 DEF U
<1> QED
  BY <1>1 DEF Max

LEMMA TwoMaxMin ==
  ASSUME NEW a \in Nat, NEW b \in Nat
  PROVE  /\ Max({a, b}) \in {a, b} /\ Max({a, b}) >= a /\ Max({a, b}) >= b
         /\ Min({a, b}) \in {a, b} /\ Min({a, b}) <= a /\ Min({a, b}) <= b
<1>1. \E x \in {a, b} : \A y \in {a, b} : x >= y
  OBVIOUS
<1>2. \E x \in {a, b} : \A y \in {a, b} : x <= y
  OBVIOUS
<1> QED
  BY <1>1, <1>2 DEF Max, Min

-----------------------------------------------------------------------------
(* What ApplyAll computes. *)

\* f is `after` of ApplyAll, as far as n.
UpTo(f, n, es, board, a) ==
  f = [i \in 0..n |-> IF i < a THEN board ELSE Apply(es, f[i - 1], i)]

LEMMA UpToUnique ==
  ASSUME NEW es, NEW board, NEW a \in Nat \ {0}, NEW n \in Nat, NEW m \in Nat, NEW f, NEW g,
         UpTo(f, n, es, board, a), UpTo(g, m, es, board, a)
  PROVE  \A i \in 0..n : i <= m => f[i] = g[i]
<1> DEFINE S == {i \in Nat : i <= n /\ i <= m => f[i] = g[i]}
<1>1. 0 \in S
  BY DEF UpTo
<1>2. ASSUME NEW i \in S PROVE i + 1 \in S
  <2> SUFFICES ASSUME i + 1 <= n, i + 1 <= m PROVE f[i + 1] = g[i + 1]
    OBVIOUS
  <2>1. f[i] = g[i]
    OBVIOUS
  <2>2. i + 1 \in 0..n /\ i + 1 \in 0..m /\ (i + 1) - 1 = i
    OBVIOUS
  <2>3. /\ f[i + 1] = IF i + 1 < a THEN board ELSE Apply(es, f[(i + 1) - 1], i + 1)
        /\ g[i + 1] = IF i + 1 < a THEN board ELSE Apply(es, g[(i + 1) - 1], i + 1)
    BY <2>2 DEF UpTo
  <2> QED
    BY <2>1, <2>2, <2>3
<1>3. S = Nat
  <2>1. S \in SUBSET Nat
    OBVIOUS
  <2> HIDE DEF S
  <2> QED
    BY <1>1, <1>2, <2>1, Induction
<1> QED
  BY <1>3

LEMMA UpToExists ==
  ASSUME NEW es, NEW board, NEW a \in Nat \ {0}
  PROVE  \A n \in Nat : \E f : UpTo(f, n, es, board, a)
<1> DEFINE S == {n \in Nat : \E f : UpTo(f, n, es, board, a)}
<1>1. 0 \in S
  <2>1. UpTo([i \in 0..0 |-> board], 0, es, board, a)
    BY DEF UpTo
  <2> QED
    BY <2>1
<1>2. ASSUME NEW n \in S PROVE n + 1 \in S
  <2>1. PICK f : UpTo(f, n, es, board, a)
    OBVIOUS
  <2> DEFINE g == [i \in 0..(n + 1) |->
                     IF i < a THEN board
                     ELSE IF i = n + 1 THEN Apply(es, f[n], i) ELSE f[i]]
  <2>2. ASSUME NEW i \in 0..(n + 1)
        PROVE  g[i] = IF i < a THEN board ELSE Apply(es, g[i - 1], i)
    <3>1. CASE i < a
      BY <3>1
    <3>2. CASE i >= a
      <4>1. i - 1 \in 0..n /\ n \in 0..n
        BY <3>2
      <4>2. g[i - 1] = f[i - 1]
        <5>1. CASE i - 1 < a
          BY <2>1, <4>1, <5>1 DEF UpTo
        <5>2. CASE i - 1 >= a
          BY <4>1, <5>2
        <5> QED
          BY <4>1, <5>1, <5>2
      <4>3. CASE i = n + 1
        <5>1. g[i] = Apply(es, f[n], i) /\ i - 1 = n
          BY <3>2, <4>3
        <5> QED
          BY <3>2, <4>2, <5>1
      <4>4. CASE i # n + 1
        <5>1. i \in 0..n /\ g[i] = f[i]
          BY <3>2, <4>4
        <5>2. f[i] = Apply(es, f[i - 1], i)
          BY <2>1, <3>2, <5>1 DEF UpTo
        <5> QED
          BY <3>2, <4>2, <5>1, <5>2
      <4> QED
        BY <4>3, <4>4
    <3> QED
      BY <3>1, <3>2
  <2>3. DOMAIN g = 0..(n + 1) /\ g = [i \in DOMAIN g |-> g[i]]
    OBVIOUS
  <2> HIDE DEF g
  <2>4. UpTo(g, n + 1, es, board, a)
    BY <2>2, <2>3 DEF UpTo
  <2> QED
    BY <2>4
<1>3. S = Nat
  <2>1. S \in SUBSET Nat
    OBVIOUS
  <2> HIDE DEF S
  <2> QED
    BY <1>1, <1>2, <2>1, Induction
<1> QED
  BY <1>3

\* The recursion of ApplyAll, unfolded once.
LEMMA ApplyAllIs ==
  \A es, board : \A a \in Nat \ {0}, b \in Nat :
    /\ (b < a => ApplyAll(es, board, a, b) = board)
    /\ (b >= a => ApplyAll(es, board, a, b) = Apply(es, ApplyAll(es, board, a, b - 1), b))
<1> TAKE es, board
<1> TAKE a \in Nat \ {0}, b \in Nat
<1> DEFINE fcn(n) == CHOOSE f : UpTo(f, n, es, board, a)
           h == [i \in Nat |-> fcn(i)[i]]
           after == CHOOSE g : g = [i \in Nat |-> IF i < a THEN board
                                                  ELSE Apply(es, g[i - 1], i)]
<1>1. \A n \in Nat : UpTo(fcn(n), n, es, board, a)
  BY UpToExists
<1> HIDE DEF fcn
<1>2. ASSUME NEW i \in Nat
      PROVE  h[i] = IF i < a THEN board ELSE Apply(es, h[i - 1], i)
  <2>1. i \in 0..i /\ h[i] = fcn(i)[i]
    OBVIOUS
  <2>2. fcn(i)[i] = IF i < a THEN board ELSE Apply(es, fcn(i)[i - 1], i)
    BY <1>1, <2>1 DEF UpTo
  <2>3. CASE i >= a
    <3>1. i - 1 \in Nat /\ i - 1 \in 0..i /\ i - 1 <= i - 1
      BY <2>3
    <3>2. fcn(i)[i - 1] = fcn(i - 1)[i - 1]
      BY <1>1, <3>1, UpToUnique
    <3> QED
      BY <2>1, <2>2, <3>1, <3>2
  <2> QED
    BY <2>1, <2>2, <2>3
<1>3. h = [i \in Nat |-> IF i < a THEN board ELSE Apply(es, h[i - 1], i)]
  <2>1. h = [i \in Nat |-> h[i]]
    OBVIOUS
  <2> HIDE DEF h
  <2> QED
    BY <1>2, <2>1
<1> HIDE DEF h
<1>4. after = [i \in Nat |-> IF i < a THEN board ELSE Apply(es, after[i - 1], i)]
  BY <1>3
<1>5. ApplyAll(es, board, a, b) = after[b]
  BY DEF ApplyAll
<1>6. b >= a => ApplyAll(es, board, a, b - 1) = after[b - 1]
  BY DEF ApplyAll
<1> HIDE DEF after
<1> QED
  BY <1>4, <1>5, <1>6

\* In particular, without events nothing happens.
LEMMA ApplyNone ==
  ASSUME NEW a \in Nat \ {0}, NEW b \in Nat, b < a
  PROVE  \A es, board : ApplyAll(es, board, a, b) = board
<1> TAKE es, board
<1>1. \A c \in Nat \ {0}, d \in Nat :
        /\ (d < c => ApplyAll(es, board, c, d) = board)
        /\ (d >= c => ApplyAll(es, board, c, d) = Apply(es, ApplyAll(es, board, c, d - 1), d))
  BY ApplyAllIs
<1>2. b < a => ApplyAll(es, board, a, b) = board
  BY <1>1
<1> QED
  BY <1>2

-----------------------------------------------------------------------------
(* Boards. *)

LEMMA ApplyIs ==
  ASSUME NEW es \in Seq(LogEvent), NEW i \in DOMAIN es, NEW board \in Board, NEW k \in Task
  PROVE  /\ Apply(es, board, i) \in Board
         /\ Apply(es, board, i)[k] =
              IF es[i].task # k \/ (es[i].type = "created" /\ board[k] # 0)
                                \/ (es[i].type = "updated" /\ board[k] = 0) THEN board[k]
              ELSE IF es[i].type = "deleted" THEN 0 ELSE i
<1>1. /\ es[i] \in LogEvent /\ i \in Nat /\ board \in [Task -> Nat]
      /\ es[i].task \in Task /\ es[i].type \in {"created", "updated", "deleted"}
  <2>1. es[i] \in LogEvent /\ i \in Nat
    OBVIOUS
  <2> QED
    BY <2>1 DEF LogEvent, Board
<1> DEFINE e == es[i]
           set == [board EXCEPT ![e.task] = i]
           zero == [board EXCEPT ![e.task] = 0]
<1>2. /\ set \in [Task -> Nat] /\ zero \in [Task -> Nat]
      /\ set[k] = IF k = e.task THEN i ELSE board[k]
      /\ zero[k] = IF k = e.task THEN 0 ELSE board[k]
  BY <1>1
<1>3. Apply(es, board, i) = CASE e.type = "created" /\ board[e.task] = 0 -> set
                              [] e.type = "updated" /\ board[e.task] # 0 -> set
                              [] e.type = "deleted" -> zero
                              [] OTHER -> board
  BY DEF Apply
<1> HIDE DEF set, zero
<1>4. CASE e.type = "created"
  <2>1. Apply(es, board, i) = IF board[e.task] = 0 THEN set ELSE board
    BY <1>3, <1>4
  <2> QED
    BY <1>1, <1>2, <1>4, <2>1 DEF Board
<1>5. CASE e.type = "updated"
  <2>1. Apply(es, board, i) = IF board[e.task] # 0 THEN set ELSE board
    BY <1>3, <1>5
  <2> QED
    BY <1>1, <1>2, <1>5, <2>1 DEF Board
<1>6. CASE e.type = "deleted"
  <2>1. Apply(es, board, i) = zero
    BY <1>3, <1>6
  <2> QED
    BY <1>1, <1>2, <1>6, <2>1 DEF Board
<1> QED
  BY <1>1, <1>4, <1>5, <1>6

LEMMA ApplyAllType ==
  ASSUME NEW es \in Seq(LogEvent), NEW board \in Board, NEW a \in Nat \ {0}
  PROVE  \A b \in 0..Len(es) : ApplyAll(es, board, a, b) \in Board
<1> DEFINE S == {b \in Nat : b <= Len(es) => ApplyAll(es, board, a, b) \in Board}
<1>0. Len(es) \in Nat /\ DOMAIN es = 1..Len(es)
  OBVIOUS
<1>1. 0 \in S
  <2>1. \A gs : ApplyAll(gs, board, a, 0) = board
    <3>1. 0 \in Nat /\ 0 < a
      OBVIOUS
    <3> QED
      BY <3>1, ApplyNone
  <2> QED
    BY <2>1
<1>2. ASSUME NEW b \in S PROVE b + 1 \in S
  <2> SUFFICES ASSUME b + 1 <= Len(es) PROVE ApplyAll(es, board, a, b + 1) \in Board
    OBVIOUS
  <2>1. /\ ApplyAll(es, board, a, b) \in Board /\ b + 1 \in DOMAIN es
        /\ b + 1 \in Nat /\ (b + 1) - 1 = b
    BY <1>0
  <2>2. /\ b + 1 < a => ApplyAll(es, board, a, b + 1) = board
        /\ b + 1 >= a => ApplyAll(es, board, a, b + 1) =
                           Apply(es, ApplyAll(es, board, a, b), b + 1)
    <3>1. \A gs : /\ b + 1 < a => ApplyAll(gs, board, a, b + 1) = board
                  /\ b + 1 >= a => ApplyAll(gs, board, a, b + 1) =
                                     Apply(gs, ApplyAll(gs, board, a, (b + 1) - 1), b + 1)
      BY <2>1, ApplyAllIs
    <3> QED
      BY <2>1, <3>1
  <2>3. es[b + 1].task \in Task
    <3>1. es[b + 1] \in LogEvent
      BY <2>1
    <3> QED
      BY <3>1 DEF LogEvent
  <2>4. Apply(es, ApplyAll(es, board, a, b), b + 1) \in Board
    BY <2>1, <2>3, ApplyIs
  <2>5. a \in Nat
    OBVIOUS
  <2> QED
    BY <2>1, <2>2, <2>4, <2>5
<1>3. S = Nat
  <2>1. S \in SUBSET Nat
    OBVIOUS
  <2> HIDE DEF S
  <2> QED
    BY <1>1, <1>2, <2>1, Induction
<1> QED
  BY <1>0, <1>3

\* What a log holds later does not matter.
LEMMA ApplyAllPrefix ==
  ASSUME NEW es \in Seq(LogEvent), NEW fs \in Seq(LogEvent), Len(es) <= Len(fs),
         \A i \in DOMAIN es : fs[i] = es[i], NEW board \in Board, NEW a \in Nat \ {0}
  PROVE  \A b \in 0..Len(es) : ApplyAll(fs, board, a, b) = ApplyAll(es, board, a, b)
<1> DEFINE S == {b \in Nat : b <= Len(es) =>
                   ApplyAll(fs, board, a, b) = ApplyAll(es, board, a, b)}
<1>0. Len(es) \in Nat /\ DOMAIN es = 1..Len(es)
  OBVIOUS
<1>1. 0 \in S
  <2>1. \A gs : ApplyAll(gs, board, a, 0) = board
    <3>1. 0 \in Nat /\ 0 < a
      OBVIOUS
    <3> QED
      BY <3>1, ApplyNone
  <2> QED
    BY <2>1
<1>2. ASSUME NEW b \in S PROVE b + 1 \in S
  <2> SUFFICES ASSUME b + 1 <= Len(es)
               PROVE  ApplyAll(fs, board, a, b + 1) = ApplyAll(es, board, a, b + 1)
    OBVIOUS
  <2>1. /\ ApplyAll(fs, board, a, b) = ApplyAll(es, board, a, b)
        /\ fs[b + 1] = es[b + 1] /\ (b + 1) - 1 = b
    BY <1>0
  <2>2. \A gs : /\ b + 1 < a => ApplyAll(gs, board, a, b + 1) = board
                /\ b + 1 >= a => ApplyAll(gs, board, a, b + 1) =
                                   Apply(gs, ApplyAll(gs, board, a, (b + 1) - 1), b + 1)
    <3>1. b + 1 \in Nat
      OBVIOUS
    <3> QED
      BY <3>1, ApplyAllIs
  <2>3. \A x : Apply(fs, x, b + 1) = Apply(es, x, b + 1)
    BY <2>1 DEF Apply
  <2>4. CASE b + 1 < a
    BY <2>2, <2>4
  <2>5. CASE b + 1 >= a
    <3>1. /\ ApplyAll(fs, board, a, b + 1) = Apply(fs, ApplyAll(es, board, a, b), b + 1)
          /\ ApplyAll(es, board, a, b + 1) = Apply(es, ApplyAll(es, board, a, b), b + 1)
      BY <2>1, <2>2, <2>5
    <3> QED
      BY <2>3, <3>1
  <2> QED
    BY <2>4, <2>5
<1>3. S = Nat
  <2>1. S \in SUBSET Nat
    OBVIOUS
  <2> HIDE DEF S
  <2> QED
    BY <1>1, <1>2, <2>1, Induction
<1> QED
  BY <1>0, <1>3

LEMMA ContentIs ==
  ASSUME NEW es \in Seq(LogEvent)
  PROVE  /\ EmptyBoard \in Board
         /\ \A n \in 0..Len(es) : Content(es, n) \in Board
         /\ Content(es, 0) = EmptyBoard
         /\ \A n \in DOMAIN es : Content(es, n) = Apply(es, Content(es, n - 1), n)
<1>1. EmptyBoard \in Board
  BY DEF EmptyBoard, Board
<1>2. \A n \in 0..Len(es) : Content(es, n) \in Board
  BY <1>1, ApplyAllType DEF Content
<1>3. Content(es, 0) = EmptyBoard
  <2>1. 0 \in Nat /\ 1 \in Nat \ {0} /\ 0 < 1
    OBVIOUS
  <2>2. ApplyAll(es, EmptyBoard, 1, 0) = EmptyBoard
    BY <2>1, ApplyNone
  <2> QED
    BY <2>2 DEF Content
<1>4. ASSUME NEW n \in DOMAIN es
      PROVE  Content(es, n) = Apply(es, Content(es, n - 1), n)
  <2>1. n \in Nat /\ n >= 1 /\ 1 \in Nat \ {0}
    OBVIOUS
  <2> QED
    BY <2>1, ApplyAllIs DEF Content
<1> QED
  BY <1>1, <1>2, <1>3, <1>4

\* What event i of a log that fits does to the tasks.
LEMMA EventDoes ==
  ASSUME NEW es \in Seq(LogEvent), LogFits(es), NEW i \in DOMAIN es, NEW k \in Task
  PROVE  Content(es, i)[k] = IF es[i].task # k THEN Content(es, i - 1)[k]
                             ELSE IF es[i].type = "deleted" THEN 0 ELSE i
<1>1. /\ Content(es, i - 1) \in Board /\ Content(es, i) = Apply(es, Content(es, i - 1), i)
      /\ es[i].type \in {"created", "updated", "deleted"}
  <2>1. i - 1 \in 0..Len(es) /\ es[i] \in LogEvent
    OBVIOUS
  <2> QED
    BY <2>1, ContentIs DEF LogEvent
<1>2. es[i].type = "created" <=> Content(es, i - 1)[es[i].task] = 0
  BY DEF LogFits
<1> QED
  BY <1>1, <1>2, ApplyIs

-----------------------------------------------------------------------------
(* A board that shows every task as it was at some seq from a on. *)

LEMMA ShownNext ==
  ASSUME NEW es \in Seq(LogEvent), LogFits(es), NEW i \in DOMAIN es, NEW board \in Board,
         ShownFrom(es, board, i - 1)
  PROVE  ShownFrom(es, Apply(es, board, i), i)
<1> SUFFICES ASSUME NEW k \in Task
             PROVE  \E j \in i..Len(es) : Apply(es, board, i)[k] = Content(es, j)[k]
  BY DEF ShownFrom
<1>1. PICK j \in (i - 1)..Len(es) : board[k] = Content(es, j)[k]
  BY DEF ShownFrom
<1>2. /\ i \in i..Len(es) /\ i \in Nat /\ i # 0 /\ es[i] \in LogEvent
      /\ j \in Int /\ j # i - 1 => j \in i..Len(es)
      /\ es[i].type \in {"created", "updated", "deleted"}
  <2>1. es[i] \in LogEvent /\ i \in 1..Len(es) /\ Len(es) \in Nat
    OBVIOUS
  <2> QED
    BY <2>1 DEF LogEvent
<1>3. Content(es, i)[k] = IF es[i].task # k THEN Content(es, i - 1)[k]
                          ELSE IF es[i].type = "deleted" THEN 0 ELSE i
  BY EventDoes
<1>4. Apply(es, board, i)[k] =
        IF es[i].task # k \/ (es[i].type = "created" /\ board[k] # 0)
                          \/ (es[i].type = "updated" /\ board[k] = 0) THEN board[k]
        ELSE IF es[i].type = "deleted" THEN 0 ELSE i
  BY ApplyIs
<1>5. CASE Apply(es, board, i)[k] = Content(es, i)[k]
  BY <1>2, <1>5
<1>6. CASE Apply(es, board, i)[k] # Content(es, i)[k]
  <2>1. Apply(es, board, i)[k] = board[k]
    BY <1>3, <1>4, <1>6
  <2>2. j # i - 1
    <3> SUFFICES ASSUME j = i - 1 PROVE FALSE
      OBVIOUS
    <3>1. board[k] = Content(es, i - 1)[k]
      BY <1>1
    <3>2. es[i].task = k
      BY <1>3, <1>6, <2>1, <3>1
    <3>3. es[i].type = "created" <=> Content(es, i - 1)[es[i].task] = 0
      BY DEF LogFits
    <3> QED
      BY <1>2, <1>3, <1>4, <1>6, <3>1, <3>2, <3>3
  <2> QED
    BY <1>1, <1>2, <2>1, <2>2
<1> QED
  BY <1>5, <1>6

LEMMA ShownAfter ==
  ASSUME NEW es \in Seq(LogEvent), LogFits(es), NEW board \in Board, NEW a \in Nat,
         ShownFrom(es, board, a), NEW b \in a..Len(es)
  PROVE  ShownFrom(es, ApplyAll(es, board, a + 1, b), b)
<1> DEFINE S == {n \in Nat : a <= n /\ n <= Len(es) =>
                   ShownFrom(es, ApplyAll(es, board, a + 1, n), n)}
<1>0. Len(es) \in Nat /\ DOMAIN es = 1..Len(es) /\ a + 1 \in Nat \ {0}
  OBVIOUS
<1>1. ASSUME NEW n \in Nat, n <= a, a <= n PROVE n \in S
  <2>1. n = a /\ n < a + 1
    BY <1>1
  <2>2. \A gs : ApplyAll(gs, board, a + 1, n) = board
    <3>1. a + 1 \in Nat \ {0} /\ n \in Nat
      OBVIOUS
    <3> QED
      BY <2>1, <3>1, ApplyNone
  <2> QED
    BY <2>1, <2>2
<1>2. 0 \in S
  BY <1>1
<1>3. ASSUME NEW n \in S PROVE n + 1 \in S
  <2>1. CASE n + 1 <= a
    BY <1>1, <2>1
  <2>2. CASE a <= n
    <3> SUFFICES ASSUME n + 1 <= Len(es)
                 PROVE  ShownFrom(es, ApplyAll(es, board, a + 1, n + 1), n + 1)
      OBVIOUS
    <3>1. /\ ShownFrom(es, ApplyAll(es, board, a + 1, n), n)
          /\ n + 1 \in DOMAIN es /\ (n + 1) - 1 = n /\ n \in 0..Len(es)
          /\ n + 1 >= a + 1 /\ n + 1 \in Nat
      BY <1>0, <2>2
    <3>2. ApplyAll(es, board, a + 1, n) \in Board
      BY <1>0, <3>1, ApplyAllType
    <3>3. ApplyAll(es, board, a + 1, n + 1) = Apply(es, ApplyAll(es, board, a + 1, n), n + 1)
      <4>1. ApplyAll(es, board, a + 1, n + 1) =
              Apply(es, ApplyAll(es, board, a + 1, (n + 1) - 1), n + 1)
        BY <1>0, <3>1, ApplyAllIs
      <4> QED
        BY <3>1, <4>1
    <3> QED
      BY <3>1, <3>2, <3>3, ShownNext
  <2> QED
    BY <2>1, <2>2
<1>4. S = Nat
  <2>1. S \in SUBSET Nat
    OBVIOUS
  <2> HIDE DEF S
  <2> QED
    BY <1>2, <1>3, <2>1, Induction
<1> QED
  BY <1>0, <1>4

\* At the end of the log only the tasks themselves are left to show.
LEMMA ShownLast ==
  ASSUME NEW es \in Seq(LogEvent), NEW board \in Board, ShownFrom(es, board, Len(es))
  PROVE  board = Content(es, Len(es))
<1>1. Len(es) \in 0..Len(es) /\ Content(es, Len(es)) \in [Task -> Nat] /\ board \in [Task -> Nat]
  BY ContentIs DEF Board
<1>2. \A k \in Task : board[k] = Content(es, Len(es))[k]
  <2> SUFFICES ASSUME NEW k \in Task PROVE board[k] = Content(es, Len(es))[k]
    OBVIOUS
  <2>1. PICK j \in Len(es)..Len(es) : board[k] = Content(es, j)[k]
    BY DEF ShownFrom
  <2>2. j = Len(es)
    OBVIOUS
  <2> QED
    BY <2>1, <2>2
<1> QED
  BY <1>1, <1>2

-----------------------------------------------------------------------------
(* The log grows by events that fit. *)

LEMMA LogFitsNext ==
  ASSUME NEW es \in Seq(LogEvent), LogFits(es), NEW e \in LogEvent, Possible(es, e)
  PROVE  LogFits(Append(es, e))
<1> DEFINE n == Len(es)
           new == Append(es, e)
           k == e.task
<1>1. /\ n \in Nat /\ DOMAIN es = 1..n /\ Len(new) = n + 1 /\ DOMAIN new = 1..(n + 1)
      /\ new \in Seq(LogEvent) /\ new[n + 1] = e /\ \A i \in DOMAIN es : new[i] = es[i]
      /\ DOMAIN new = DOMAIN es \cup {n + 1}
  OBVIOUS
<1>2. k \in Task /\ e.type \in {"created", "updated", "deleted"}
  BY DEF LogEvent
<1> HIDE DEF new, n
<1>3. \A i \in 0..n : Content(new, i) = Content(es, i)
  BY <1>1, ContentIs, ApplyAllPrefix DEF Content, n
<1>4. /\ Created(new) = IF e.type = "created" THEN Created(es) \cup {k} ELSE Created(es)
      /\ Deleted(new) = IF e.type = "deleted" THEN Deleted(es) \cup {k} ELSE Deleted(es)
  <2>1. /\ Created(new) = {new[i].task : i \in {j \in DOMAIN new : new[j].type = "created"}}
        /\ Deleted(new) = {new[i].task : i \in {j \in DOMAIN new : new[j].type = "deleted"}}
    BY DEF Created, Deleted
  <2>2. \A i : i \in DOMAIN new <=> i \in DOMAIN es \/ i = n + 1
    BY <1>1
  <2>3. CASE e.type = "created"
    <3>1. Created(new) = Created(es) \cup {k}
      BY <1>1, <2>1, <2>2, <2>3 DEF Created
    <3>2. Deleted(new) = Deleted(es)
      BY <1>1, <2>1, <2>2, <2>3 DEF Deleted
    <3> QED
      BY <2>3, <3>1, <3>2
  <2>4. CASE e.type = "deleted"
    <3>1. Created(new) = Created(es)
      BY <1>1, <2>1, <2>2, <2>4 DEF Created
    <3>2. Deleted(new) = Deleted(es) \cup {k}
      BY <1>1, <2>1, <2>2, <2>4 DEF Deleted
    <3> QED
      BY <2>4, <3>1, <3>2
  <2>5. CASE e.type \notin {"created", "deleted"}
    <3>1. Created(new) = Created(es)
      BY <1>1, <2>1, <2>2, <2>5 DEF Created
    <3>2. Deleted(new) = Deleted(es)
      BY <1>1, <2>1, <2>2, <2>5 DEF Deleted
    <3> QED
      BY <2>5, <3>1, <3>2
  <2> QED
    BY <2>3, <2>4, <2>5
<1>5. /\ Deleted(es) \subseteq Created(es)
      /\ \A l \in Task : Content(es, n)[l] # 0 <=> l \in Existing(es)
      /\ \A i \in DOMAIN es : es[i].type = "created" <=> Content(es, i - 1)[es[i].task] = 0
  BY DEF LogFits, n
<1>6. e.type = "created" <=> Content(es, n)[k] = 0
  BY <1>2, <1>5 DEF Possible, Existing
<1>7. \A i \in DOMAIN new : new[i].type = "created" <=> Content(new, i - 1)[new[i].task] = 0
  <2>1. ASSUME NEW i \in DOMAIN es
        PROVE  new[i].type = "created" <=> Content(new, i - 1)[new[i].task] = 0
    <3>1. i - 1 \in 0..n
      BY <1>1
    <3> QED
      BY <1>1, <1>3, <1>5, <3>1
  <2>2. new[n + 1].type = "created" <=> Content(new, (n + 1) - 1)[new[n + 1].task] = 0
    <3>1. (n + 1) - 1 = n /\ n \in 0..n
      BY <1>1
    <3> QED
      BY <1>1, <1>3, <1>6, <3>1
  <2> QED
    BY <1>1, <2>1, <2>2
<1>8. Deleted(new) \subseteq Created(new)
  BY <1>2, <1>4, <1>5 DEF Possible, Existing
<1>9. ASSUME NEW l \in Task
      PROVE  Content(new, n + 1)[l] # 0 <=> l \in Existing(new)
  <2>1. Content(new, n + 1) = Apply(new, Content(es, n), n + 1) /\ Content(es, n) \in Board
    <3>1. n + 1 \in DOMAIN new /\ (n + 1) - 1 = n /\ n \in 0..n
      BY <1>1
    <3>2. Content(new, n + 1) = Apply(new, Content(new, (n + 1) - 1), n + 1)
      BY <1>1, <3>1, ContentIs
    <3>3. Content(es, n) \in Board
      BY <3>1, ContentIs DEF n
    <3> QED
      BY <1>3, <3>1, <3>2, <3>3
  <2>2. Content(new, n + 1)[l] =
          IF k # l \/ (e.type = "created" /\ Content(es, n)[l] # 0)
                   \/ (e.type = "updated" /\ Content(es, n)[l] = 0) THEN Content(es, n)[l]
          ELSE IF e.type = "deleted" THEN 0 ELSE n + 1
    BY <1>1, <2>1, ApplyIs
  <2>3. CASE k # l
    BY <1>4, <1>5, <2>2, <2>3 DEF Existing
  <2>4. CASE k = l
    <3>1. Content(new, n + 1)[l] = IF e.type = "deleted" THEN 0 ELSE n + 1
      BY <1>2, <1>6, <2>2, <2>4
    <3>2. n + 1 # 0
      BY <1>1
    <3> QED
      BY <1>2, <1>4, <1>5, <2>4, <3>1, <3>2 DEF Existing, Possible
  <2> QED
    BY <2>3, <2>4
<1>10. LogFits(new)
  BY <1>1, <1>7, <1>8, <1>9 DEF LogFits
<1> QED
  BY <1>10 DEF new

\* A longer log leaves what the board shows as it was.
LEMMA ShownLonger ==
  ASSUME NEW es \in Seq(LogEvent), NEW fs \in Seq(LogEvent), Len(es) <= Len(fs),
         \A i \in DOMAIN es : fs[i] = es[i],
         NEW board, NEW a \in Nat, ShownFrom(es, board, a)
  PROVE  ShownFrom(fs, board, a)
<1> SUFFICES ASSUME NEW k \in Task
             PROVE  \E j \in a..Len(fs) : board[k] = Content(fs, j)[k]
  BY DEF ShownFrom
<1>1. PICK j \in a..Len(es) : board[k] = Content(es, j)[k]
  BY DEF ShownFrom
<1>2. j \in a..Len(fs) /\ j \in 0..Len(es)
  OBVIOUS
<1>3. Content(fs, j) = Content(es, j)
  BY <1>2, ContentIs, ApplyAllPrefix DEF Content
<1> QED
  BY <1>1, <1>2, <1>3

-----------------------------------------------------------------------------
(* The invariant, by the parts that steps leave alone. *)

GapOK(x) ==
  /\ \A s \in x.pending : x.loading \/ s > x.lastSeq + 1
  /\ x.pending # {} /\ ~ x.loading => x.fetch.at # "idle"

TabOK(x) ==
  /\ x \in TabState /\ x.lastSeq <= Len(log) /\ x.pending \subseteq Seqs
  /\ AnswersOK(x) /\ GapOK(x) /\ (Overlap = {} => ViewOK(x))

Others ==
  /\ handlers \subseteq Seq(Seqs) \ {<< >>}
  /\ {link, registered, viewing, lost} \subseteq BOOLEAN
  /\ toServer \in Seq(Nat)
  /\ replay \in Seq(Seqs) /\ queue \in Seq(Seqs)
  /\ Len(queue) <= QueueSize + Network
  /\ cache \in CachedList \cup {NoCache} /\ cache.upTo <= Len(log) /\ cache.etag <= cache.upTo
  /\ faults \in 0..MaxFaults

Inv ==
  /\ log \in Seq(LogEvent) /\ (Overlap = {} => LogFits(log))
  /\ TabOK(tab) /\ Others

LEMMA TabStep ==
  ASSUME Inv, UNCHANGED log, TabOK(tab'), Others'
  PROVE  Inv'
<1>1. TabOK(tab)'
  BY DEF TabOK, Seqs, AnswersOK, GapOK, ViewOK, Waits
<1> QED
  BY <1>1 DEF Inv

LEMMA WireStep ==
  ASSUME Inv, UNCHANGED <<log, tab>>, Others'
  PROVE  Inv'
<1>1. TabOK(tab')
  BY DEF Inv
<1> QED
  BY <1>1, TabStep

-----------------------------------------------------------------------------
(* processBuffer. *)

\* The buffer of c is worked off in d.
Worked(c, d) ==
  /\ d \in TabState /\ d.lastSeq \in c.lastSeq..Len(log) /\ d.pending \subseteq Seqs
  /\ \A s \in d.pending : s > d.lastSeq + 1
  /\ d.pending # {} => d.fetch.at # "idle"
  /\ d.board = ApplyAll(log, c.board, c.lastSeq + 1, d.lastSeq)
  /\ d.loading = c.loading /\ d.subscribed = c.subscribed /\ d.refresh = c.refresh
  /\ \/ d.fetch = c.fetch
     \/ c.fetch.at = "idle" /\ d.fetch = [at |-> "sent", from |-> d.lastSeq, upTo |-> 0]

LEMMA BufferWorked ==
  ASSUME log \in Seq(LogEvent), NEW c \in TabState, c.lastSeq <= Len(log),
         c.pending \subseteq Seqs
  PROVE  Worked(c, ProcessBuffer(c))
<1> DEFINE ahead == {s \in c.pending : s > c.lastSeq}
           reached == {n \in {c.lastSeq} \cup ahead : (c.lastSeq + 1)..n \subseteq ahead}
           upTo == Max(reached)
           left == {s \in ahead : s > upTo}
           board == ApplyAll(log, c.board, c.lastSeq + 1, upTo)
           request == [at |-> "sent", from |-> upTo, upTo |-> 0]
           fetch == IF left # {} /\ c.fetch.at = "idle" THEN request ELSE c.fetch
           d == [c EXCEPT !.board = board, !.lastSeq = upTo, !.pending = left,
                          !.fetch = fetch]
<1>1. /\ c.lastSeq \in Nat /\ c.board \in Board /\ c.fetch \in Fetch
      /\ Len(log) \in Nat /\ Seqs = 1..Len(log)
  BY DEF TabState, Seqs
<1>2. /\ ahead \subseteq Seqs /\ c.lastSeq \in reached /\ reached \subseteq 0..Len(log)
      /\ reached \subseteq {c.lastSeq} \cup ahead
  BY <1>1
<1>3. upTo \in reached /\ \A n \in reached : n <= upTo
  <2>1. reached \in SUBSET Nat /\ reached # {} /\ \A n \in reached : n <= Len(log)
    BY <1>1, <1>2
  <2> HIDE DEF reached
  <2> QED
    BY <1>1, <2>1, MaxIs
<1>4. upTo \in Nat /\ upTo \in c.lastSeq..Len(log) /\ (c.lastSeq + 1)..upTo \subseteq ahead
  <2>1. upTo >= c.lastSeq /\ upTo \in 0..Len(log)
    BY <1>2, <1>3
  <2>2. (c.lastSeq + 1)..upTo \subseteq ahead
    BY <1>3
  <2> HIDE DEF upTo
  <2> QED
    BY <1>1, <2>1, <2>2
<1>5. \A s \in left : s > upTo + 1
  <2> SUFFICES ASSUME upTo + 1 \in ahead PROVE FALSE
    <3> HIDE DEF upTo, ahead
    <3> QED
      BY <1>1, <1>2, <1>4
  <2>1. (c.lastSeq + 1)..(upTo + 1) \subseteq ahead
    <3> HIDE DEF upTo, ahead
    <3> QED
      BY <1>1, <1>4
  <2>2. upTo + 1 \in reached
    BY <2>1
  <2> HIDE DEF upTo, reached
  <2> QED
    BY <1>3, <1>4, <2>2
<1>6. left \subseteq Seqs /\ left \in SUBSET Nat
  BY <1>1, <1>2
<1>7. board \in Board
  <2>1. c.lastSeq + 1 \in Nat \ {0} /\ upTo \in 0..Len(log)
    <3> HIDE DEF upTo
    <3> QED
      BY <1>1, <1>4
  <2> HIDE DEF upTo
  <2> QED
    BY <1>1, <2>1, ApplyAllType
<1>8. fetch \in Fetch /\ (left # {} => fetch.at # "idle")
      /\ (fetch = c.fetch \/ (c.fetch.at = "idle" /\ fetch = request))
  <2>1. request \in Fetch /\ request.at = "sent"
    BY <1>4 DEF Fetch
  <2> HIDE DEF left, request
  <2> QED
    BY <1>1, <2>1
<1>9. ProcessBuffer(c) = d
  BY DEF ProcessBuffer
<1> HIDE DEF board, fetch, left, upTo
<1>10. /\ d \in TabState /\ d.board = board /\ d.lastSeq = upTo /\ d.pending = left
       /\ d.fetch = fetch /\ d.loading = c.loading /\ d.subscribed = c.subscribed
       /\ d.refresh = c.refresh
  BY <1>4, <1>6, <1>7, <1>8 DEF TabState
<1> HIDE DEF d
<1>11. /\ d.board = ApplyAll(log, c.board, c.lastSeq + 1, d.lastSeq)
       /\ (d.fetch = c.fetch \/ (c.fetch.at = "idle" /\
             d.fetch = [at |-> "sent", from |-> d.lastSeq, upTo |-> 0]))
  BY <1>8, <1>10 DEF board
<1> QED
  BY <1>4, <1>5, <1>6, <1>8, <1>9, <1>10, <1>11 DEF Worked

\* After an event, an answer or a snapshot has changed the tab to c.
LEMMA WorkedOK ==
  ASSUME log \in Seq(LogEvent), NEW c \in TabState, NEW d, Worked(c, d),
         AnswersOK(c),
         Overlap = {} => LogFits(log) /\ ViewOK(c) /\ \A r \in Refreshes : ~ Waits(c, r)
  PROVE  TabOK(d)
<1>1. /\ c.lastSeq \in Nat /\ Len(log) \in Nat /\ d.lastSeq \in c.lastSeq..Len(log)
      /\ d.lastSeq \in Nat /\ c.board \in Board
  BY DEF Worked, TabState
<1>2. d.fetch.upTo <= Len(log)
  BY <1>1 DEF Worked, AnswersOK
<1>3. AnswersOK(d)
  BY <1>2 DEF AnswersOK, Worked
<1>4. GapOK(d)
  BY DEF GapOK, Worked
<1>5. ASSUME Overlap = {} PROVE ViewOK(d)
  <2>1. LogFits(log) /\ ViewOK(c) /\ \A r \in Refreshes : ~ Waits(c, r)
    BY <1>5
  <2>2. ShownFrom(log, d.board, d.lastSeq)
    BY <1>1, <2>1, ShownAfter DEF Worked, ViewOK
  <2>3. \A r \in Refreshes : ~ Waits(d, r)
    BY <2>1 DEF Worked, Waits
  <2>4. d.fetch.at # "idle" => d.fetch.from <= d.lastSeq
    <3>1. CASE d.fetch = c.fetch
      <4>1. c.fetch.at # "idle" => c.fetch.from <= c.lastSeq
        BY <2>1 DEF ViewOK
      <4>2. c.fetch.from \in Nat
        BY DEF TabState, Fetch
      <4> QED
        BY <1>1, <3>1, <4>1, <4>2
    <3>2. CASE d.fetch = [at |-> "sent", from |-> d.lastSeq, upTo |-> 0]
      BY <1>1, <3>2
    <3> QED
      BY <3>1, <3>2 DEF Worked
  <2> QED
    BY <2>2, <2>3, <2>4 DEF ViewOK
<1> QED
  BY <1>1, <1>3, <1>4, <1>5 DEF TabOK, Worked

-----------------------------------------------------------------------------
(* Steps of the tab. *)

LEMMA TabFacts ==
  ASSUME Inv
  PROVE  /\ log \in Seq(LogEvent) /\ Len(log) \in Nat /\ Seqs = 1..Len(log)
         /\ tab \in TabState /\ tab.lastSeq \in Nat /\ tab.lastSeq <= Len(log)
         /\ tab.pending \subseteq Seqs /\ tab.board \in Board /\ tab.fetch \in Fetch
         /\ tab.loading \in BOOLEAN /\ tab.subscribed \in BOOLEAN
         /\ tab.refresh \in [Refreshes -> Refresh]
         /\ AnswersOK(tab) /\ GapOK(tab)
         /\ (Overlap = {} => LogFits(log) /\ ViewOK(tab))
BY DEF Inv, TabOK, TabState, Seqs

LEMMA DeliverStep ==
  ASSUME Inv, Deliver
  PROVE  Inv'
<1> DEFINE s == Head(queue)
           c == [tab EXCEPT !.pending = tab.pending \cup {s}]
<1>1. /\ queue \in Seq(Seqs) /\ queue # << >> /\ queue' = Tail(queue)
      /\ UNCHANGED <<log, handlers, registered, viewing, replay, link, toServer, cache, faults, lost>>
      /\ tab' = CASE s <= tab.lastSeq -> tab
                  [] s > tab.lastSeq /\ tab.loading -> c
                  [] OTHER -> ProcessBuffer(c)
  BY DEF Inv, Others, Deliver, server, fails
<1>2. s \in Seqs /\ s \in Nat /\ queue' \in Seq(Seqs) /\ Len(queue') = Len(queue) - 1
      /\ Len(queue) \in Nat
  <2>1. s \in Seqs /\ queue' \in Seq(Seqs) /\ Len(queue') = Len(queue) - 1 /\ Len(queue) \in Nat
    BY <1>1
  <2> QED
    BY <2>1 DEF Seqs
<1>3. Others'
  <2>1. QueueSize \in Nat /\ Network \in Nat
    BY SizeAssumption
  <2>2. Len(queue') <= QueueSize + Network
    BY <1>2, <2>1 DEF Inv, Others
  <2> QED
    BY <1>1, <1>2, <2>2 DEF Inv, Others, Seqs
<1>4. /\ c \in TabState /\ c.pending = tab.pending \cup {s} /\ c.lastSeq = tab.lastSeq
      /\ c.board = tab.board /\ c.loading = tab.loading /\ c.fetch = tab.fetch
      /\ c.refresh = tab.refresh
  BY <1>2, TabFacts DEF TabState
<1> HIDE DEF c, s
<1>5. AnswersOK(c) /\ (Overlap = {} => LogFits(log) /\ ViewOK(c))
  BY <1>4, TabFacts DEF AnswersOK, ViewOK, Waits
<1>6. CASE s <= tab.lastSeq
  <2>1. tab' = tab
    <3>1. ~ (s > tab.lastSeq)
      BY <1>2, <1>6, TabFacts
    <3> QED
      BY <1>1, <1>6, <3>1
  <2> QED
    BY <1>1, <1>3, <2>1, WireStep
<1>7. CASE s > tab.lastSeq /\ tab.loading
  <2>1. tab' = c
    <3>1. ~ (s <= tab.lastSeq)
      BY <1>2, <1>7, TabFacts
    <3> QED
      BY <1>1, <1>7, <3>1
  <2>2. GapOK(c)
    BY <1>4, <1>7 DEF GapOK
  <2>3. TabOK(c)
    BY <1>2, <1>4, <1>5, <2>2, TabFacts DEF TabOK
  <2> QED
    BY <1>1, <1>3, <2>1, <2>3, TabStep
<1>8. CASE s > tab.lastSeq /\ ~ tab.loading
  <2>1. tab' = ProcessBuffer(c)
    <3>1. ~ (s <= tab.lastSeq)
      BY <1>2, <1>8, TabFacts
    <3> QED
      BY <1>1, <1>8, <3>1
  <2>2. Worked(c, ProcessBuffer(c))
    BY <1>2, <1>4, TabFacts, BufferWorked
  <2>3. Overlap = {} => \A r \in Refreshes : ~ Waits(c, r)
    BY <1>4, <1>5, <1>8 DEF ViewOK
  <2>4. TabOK(ProcessBuffer(c))
    BY <1>4, <1>5, <2>2, <2>3, TabFacts, WorkedOK
  <2> QED
    BY <1>1, <1>3, <2>1, <2>4, TabStep
<1> QED
  BY <1>2, <1>6, <1>7, <1>8, TabFacts

LEMMA FetchAnsweredStep ==
  ASSUME Inv, FetchAnswered
  PROVE  Inv'
<1> DEFINE upTo == Min({Len(log), tab.fetch.from + Page})
           fetch == [tab.fetch EXCEPT !.at = "answered", !.upTo = upTo]
           x == [tab EXCEPT !.fetch = fetch]
<1>1. /\ tab.fetch.at = "sent" /\ tab' = x
      /\ UNCHANGED <<log, handlers, registered, viewing, replay, link, toServer, queue,
                     cache, faults, lost>>
  BY TabFacts DEF FetchAnswered, server, wire, fails, TabState, Fetch
<1>2. upTo \in Nat /\ upTo <= Len(log)
  <2>1. tab.fetch.from + Page \in Nat /\ Len(log) \in Nat
    BY TabFacts, SizeAssumption DEF Fetch
  <2> QED
    BY <2>1, TwoMaxMin
<1> HIDE DEF upTo
<1>3. fetch \in Fetch /\ fetch.at = "answered" /\ fetch.upTo = upTo /\ fetch.from = tab.fetch.from
  BY <1>2, TabFacts DEF Fetch
<1> HIDE DEF fetch
<1>4. /\ x \in TabState /\ x.pending = tab.pending /\ x.lastSeq = tab.lastSeq
      /\ x.board = tab.board /\ x.loading = tab.loading /\ x.fetch = fetch
      /\ x.refresh = tab.refresh
  BY <1>3, TabFacts DEF TabState
<1> HIDE DEF x
<1>5. AnswersOK(x) /\ GapOK(x)
  BY <1>2, <1>3, <1>4, TabFacts DEF AnswersOK, GapOK
<1>6. Overlap = {} => ViewOK(x)
  BY <1>1, <1>3, <1>4, TabFacts DEF ViewOK, Waits
<1>7. TabOK(x)
  BY <1>4, <1>5, <1>6, TabFacts DEF TabOK
<1>8. Others'
  BY <1>1 DEF Inv, Others, Seqs
<1> QED
  BY <1>1, <1>7, <1>8, TabStep

\* The answer is applied from lastSeq on, if it starts there or before.
LEMMA FetchLandsStep ==
  ASSUME Inv, FetchLands
  PROVE  Inv'
<1> DEFINE f == tab.fetch
           from == Max({f.from, tab.lastSeq})
           to == Max({tab.lastSeq, f.upTo})
           board == ApplyAll(log, tab.board, 1 + from, f.upTo)
           c == [tab EXCEPT !.board = board, !.lastSeq = to, !.fetch = NoFetch]
<1>1. /\ f.at = "answered" /\ tab' = ProcessBuffer(c)
      /\ UNCHANGED <<log, handlers, registered, viewing, replay, link, toServer, queue,
                     cache, faults, lost>>
  BY DEF FetchLands, server, wire, fails
<1>2. f.from \in Nat /\ f.upTo \in Nat /\ f.upTo <= Len(log) /\ f.upTo \in 0..Len(log)
  <2>1. f.from \in Nat /\ f.upTo \in Nat /\ f.upTo <= Len(log)
    BY TabFacts DEF Fetch, AnswersOK
  <2> HIDE DEF f
  <2> QED
    BY <2>1, TabFacts
<1>3. /\ from \in Nat /\ from >= tab.lastSeq /\ (f.from <= tab.lastSeq => from = tab.lastSeq)
      /\ to \in Nat /\ to <= Len(log) /\ to >= tab.lastSeq
      /\ (f.upTo <= tab.lastSeq => to = tab.lastSeq) /\ (f.upTo > tab.lastSeq => to = f.upTo)
  <2> HIDE DEF f
  <2>1. /\ from \in {f.from, tab.lastSeq} /\ from >= f.from /\ from >= tab.lastSeq
        /\ to \in {tab.lastSeq, f.upTo} /\ to >= f.upTo /\ to >= tab.lastSeq
    BY <1>2, TabFacts, TwoMaxMin
  <2> HIDE DEF from, to
  <2> QED
    BY <1>2, <2>1, TabFacts
<1> HIDE DEF f, from, to
<1>4. board \in Board
  BY <1>2, <1>3, TabFacts, ApplyAllType
<1>5. /\ NoFetch \in Fetch /\ NoFetch.at = "idle" /\ NoFetch.upTo = 0
  BY DEF NoFetch, Fetch
<1>6. /\ c \in TabState /\ c.pending = tab.pending /\ c.lastSeq = to
      /\ c.board = board /\ c.loading = tab.loading /\ c.fetch = NoFetch
      /\ c.refresh = tab.refresh
  <2> HIDE DEF board
  <2> QED
    BY <1>3, <1>4, <1>5, TabFacts DEF TabState
<1> HIDE DEF c
<1>7. AnswersOK(c)
  BY <1>5, <1>6, TabFacts DEF AnswersOK
<1>8. ASSUME Overlap = {} PROVE LogFits(log) /\ ViewOK(c) /\ \A r \in Refreshes : ~ Waits(c, r)
  <2>1. LogFits(log) /\ ViewOK(tab)
    BY <1>8, TabFacts
  <2>2. from = tab.lastSeq
    BY <1>1, <1>3, <2>1 DEF ViewOK, f
  <2>3. ShownFrom(log, tab.board, tab.lastSeq)
    BY <2>1 DEF ViewOK
  <2>4. ShownFrom(log, board, to)
    <3>1. CASE f.upTo > tab.lastSeq
      <4>1. to = f.upTo /\ to \in tab.lastSeq..Len(log) /\ 1 + from = tab.lastSeq + 1
        BY <1>2, <1>3, <2>2, <3>1, TabFacts
      <4> QED
        BY <2>1, <2>3, <4>1, TabFacts, ShownAfter
    <3>2. CASE f.upTo <= tab.lastSeq
      <4>1. to = tab.lastSeq /\ f.upTo < 1 + from /\ 1 + from \in Nat \ {0}
        BY <1>2, <1>3, <3>2, TabFacts
      <4>2. board = tab.board
        BY <1>2, <4>1, ApplyNone
      <4> QED
        BY <2>3, <4>1, <4>2
    <3> QED
      BY <1>2, <3>1, <3>2, TabFacts
  <2>5. \A r \in Refreshes : ~ Waits(c, r)
    BY <1>1, <1>6, <2>1 DEF ViewOK, Waits, f
  <2> QED
    BY <1>5, <1>6, <2>1, <2>4, <2>5 DEF ViewOK
<1>9. Worked(c, ProcessBuffer(c))
  BY <1>3, <1>6, TabFacts, BufferWorked
<1>10. TabOK(ProcessBuffer(c))
  BY <1>6, <1>7, <1>8, <1>9, TabFacts, WorkedOK
<1>11. Others'
  BY <1>1 DEF Inv, Others, Seqs
<1> QED
  BY <1>1, <1>10, <1>11, TabStep

\* A failed gap request is sent again if it is still wanted.
LEMMA FetchFailsStep ==
  ASSUME Inv, FetchFails
  PROVE  Inv'
<1> DEFINE c == [tab EXCEPT !.fetch = NoFetch]
<1>1. /\ tab.fetch.at # "idle" /\ tab' = ProcessBuffer(c) /\ faults < MaxFaults
      /\ faults' = faults + 1
      /\ UNCHANGED <<log, handlers, registered, viewing, replay, link, toServer, queue,
                     cache, lost>>
  BY DEF FetchFails, Fault, server, wire
<1>2. /\ NoFetch \in Fetch /\ NoFetch.at = "idle" /\ NoFetch.upTo = 0
  BY DEF NoFetch, Fetch
<1>3. /\ c \in TabState /\ c.pending = tab.pending /\ c.lastSeq = tab.lastSeq
      /\ c.board = tab.board /\ c.loading = tab.loading /\ c.fetch = NoFetch
      /\ c.refresh = tab.refresh
  BY <1>2, TabFacts DEF TabState
<1> HIDE DEF c
<1>4. AnswersOK(c)
  BY <1>2, <1>3, TabFacts DEF AnswersOK
<1>5. Overlap = {} => LogFits(log) /\ ViewOK(c) /\ \A r \in Refreshes : ~ Waits(c, r)
  BY <1>1, <1>2, <1>3, TabFacts DEF ViewOK, Waits
<1>6. Worked(c, ProcessBuffer(c))
  BY <1>3, TabFacts, BufferWorked
<1>7. TabOK(ProcessBuffer(c))
  BY <1>3, <1>4, <1>5, <1>6, TabFacts, WorkedOK
<1>8. Others'
  BY <1>1, BoundAssumption DEF Inv, Others, Seqs
<1> QED
  BY <1>1, <1>7, <1>8, TabStep

-----------------------------------------------------------------------------
(* Steps of a refresh. *)

\* What refresh r becomes, and nothing else but `loading` and the board.
LEMMA RefreshType ==
  ASSUME Inv, NEW r \in Refreshes, NEW new \in Refresh
  PROVE  /\ [tab.refresh EXCEPT ![r] = new] \in [Refreshes -> Refresh]
         /\ [tab.refresh EXCEPT ![r] = new][r] = new
         /\ \A q \in Refreshes : q # r => [tab.refresh EXCEPT ![r] = new][q] = tab.refresh[q]
         /\ tab.refresh[r] \in Refresh
         /\ tab.refresh[r].reads \in Seq(Nat)
<1>1. tab.refresh \in [Refreshes -> Refresh]
  BY TabFacts
<1>2. tab.refresh[r] \in Refresh
  BY <1>1
<1> QED
  BY <1>1, <1>2 DEF Refresh

\* Refresh r of x goes on: it waits for `new` now.
GoesOn(r, x, new) ==
  /\ r \in Refreshes /\ new \in Refresh /\ new.at \in {"tasks", "list", "land"}
  /\ Waits(tab, r)
  /\ x = [tab EXCEPT !.refresh = [tab.refresh EXCEPT ![r] = new]]
  /\ new.at = "tasks" => Len(new.reads) = 1 /\ new.reads[1] <= Len(log)
  /\ new.at # "tasks" => Len(new.reads) = 2 /\ new.reads[1] <= new.reads[2]
                         /\ new.reads[2] <= Len(log)

LEMMA GoesOnOK ==
  ASSUME Inv, NEW r, NEW x, NEW new, GoesOn(r, x, new)
  PROVE  TabOK(x)
<1> DEFINE refresh == [tab.refresh EXCEPT ![r] = new]
<1>1. /\ refresh \in [Refreshes -> Refresh] /\ refresh[r] = new /\ r \in Refreshes
      /\ \A q \in Refreshes : q # r => refresh[q] = tab.refresh[q]
  BY RefreshType DEF GoesOn
<1>2. x = [tab EXCEPT !.refresh = refresh]
  BY DEF GoesOn
<1> HIDE DEF refresh
<1>3. /\ x \in TabState /\ x.pending = tab.pending /\ x.lastSeq = tab.lastSeq
      /\ x.board = tab.board /\ x.loading = tab.loading /\ x.fetch = tab.fetch
      /\ x.refresh = refresh
  BY <1>1, <1>2, TabFacts DEF TabState
<1>4. AnswersOK(x)
  <2>1. AnswersOK(tab)
    BY TabFacts
  <2>2. ASSUME NEW q \in Refreshes
        PROVE  LET reads == x.refresh[q].reads IN
               /\ x.refresh[q].at = "tasks" => Len(reads) = 1 /\ reads[1] <= Len(log)
               /\ x.refresh[q].at \in {"list", "land"} =>
                    Len(reads) = 2 /\ reads[1] <= reads[2] /\ reads[2] <= Len(log)
    <3>1. CASE q = r
      <4>1. x.refresh[q] = new
        BY <1>1, <1>3, <3>1
      <4> QED
        BY <4>1 DEF GoesOn
    <3>2. CASE q # r
      <4>1. x.refresh[q] = tab.refresh[q]
        BY <1>1, <1>3, <3>2
      <4> QED
        BY <2>1, <4>1 DEF AnswersOK
    <3> QED
      BY <3>1, <3>2
  <2>3. x.fetch.upTo <= Len(log)
    BY <1>3, <2>1 DEF AnswersOK
  <2> QED
    BY <2>2, <2>3 DEF AnswersOK
<1>5. GapOK(x)
  BY <1>3, TabFacts DEF GapOK
<1>6. ASSUME Overlap = {} PROVE ViewOK(x)
  <2>1. ViewOK(tab)
    BY <1>6, TabFacts
  <2>2. \A q \in Refreshes : Waits(x, q) => Waits(tab, q)
    BY <1>1, <1>3 DEF Waits, GoesOn
  <2> QED
    BY <1>3, <2>1, <2>2 DEF ViewOK
<1> QED
  BY <1>3, <1>4, <1>5, <1>6, TabFacts DEF TabOK

LEMMA RefreshCalledStep ==
  ASSUME Inv, NEW r \in Refreshes, RefreshCalled(r)
  PROVE  Inv'
<1> DEFINE refresh == [tab.refresh EXCEPT ![r] = Called]
           x == [tab EXCEPT !.loading = TRUE, !.refresh = refresh]
<1>1. /\ tab.refresh[r].at = "idle" /\ ("refresh" \in Overlap \/ ~ tab.loading)
      /\ ("fetch" \in Overlap \/ tab.fetch.at = "idle")
      /\ tab' = x
      /\ UNCHANGED <<log, handlers, registered, viewing, replay, link, toServer, queue,
                     cache, faults, lost>>
  BY TabFacts DEF RefreshCalled, server, wire, fails, TabState
<1>2. Called \in Refresh /\ Called.at = "project"
  BY DEF Called, Refresh
<1>3. /\ refresh \in [Refreshes -> Refresh] /\ refresh[r] = Called
      /\ \A q \in Refreshes : q # r => refresh[q] = tab.refresh[q]
  BY <1>2, RefreshType
<1> HIDE DEF refresh
<1>4. /\ x \in TabState /\ x.pending = tab.pending /\ x.lastSeq = tab.lastSeq
      /\ x.board = tab.board /\ x.loading = TRUE /\ x.fetch = tab.fetch
      /\ x.refresh = refresh
  BY <1>3, TabFacts DEF TabState
<1> HIDE DEF x
<1>5. AnswersOK(x)
  <2>1. AnswersOK(tab)
    BY TabFacts
  <2>2. x.refresh[r].at = "project" /\ \A q \in Refreshes : q # r => x.refresh[q] = tab.refresh[q]
    BY <1>2, <1>3, <1>4
  <2> QED
    BY <1>4, <2>1, <2>2 DEF AnswersOK
<1>6. GapOK(x)
  BY <1>4 DEF GapOK
<1>7. ASSUME Overlap = {} PROVE ViewOK(x)
  <2>1. ViewOK(tab) /\ tab.fetch.at = "idle" /\ ~ tab.loading
    BY <1>1, <1>7, TabFacts
  <2>2. \A q \in Refreshes : Waits(x, q) => q = r
    BY <1>3, <1>4, <2>1 DEF ViewOK, Waits
  <2> QED
    BY <1>4, <2>1, <2>2 DEF ViewOK
<1>8. TabOK(x)
  BY <1>4, <1>5, <1>6, <1>7, TabFacts DEF TabOK
<1>9. Others'
  BY <1>1 DEF Inv, Others, Seqs
<1> QED
  BY <1>1, <1>8, <1>9, TabStep

LEMMA ProjectAnsweredStep ==
  ASSUME Inv, NEW r \in Refreshes, ProjectAnswered(r)
  PROVE  Inv'
<1> DEFINE new == [at |-> "tasks", reads |-> <<Len(log)>>]
           x == [tab EXCEPT !.refresh = [tab.refresh EXCEPT ![r] = new]]
<1>1. /\ tab.refresh[r].at = "project" /\ tab' = x
      /\ UNCHANGED <<log, handlers, registered, viewing, replay, link, toServer, queue,
                     cache, faults, lost>>
  BY TabFacts DEF ProjectAnswered, server, wire, fails, TabState
<1>2. /\ new \in Refresh /\ new.at = "tasks" /\ Len(new.reads) = 1
      /\ new.reads[1] <= Len(log)
  <2>1. /\ Len(log) \in Nat /\ <<Len(log)>> \in Seq(Nat) /\ Len(<<Len(log)>>) = 1
        /\ <<Len(log)>>[1] = Len(log)
    BY TabFacts
  <2> QED
    BY <2>1 DEF Refresh
<1>3. GoesOn(r, x, new)
  BY <1>1, <1>2 DEF GoesOn, Waits
<1>4. Others'
  BY <1>1 DEF Inv, Others, Seqs
<1> QED
  BY <1>1, <1>3, <1>4, GoesOnOK, TabStep

LEMMA ReadAppended ==
  ASSUME NEW reads, NEW n, reads \in Seq(Nat), n \in Nat, Len(reads) = 1
  PROVE  /\ Append(reads, n) \in Seq(Nat) /\ Len(Append(reads, n)) = 2
         /\ Append(reads, n)[1] = reads[1] /\ Append(reads, n)[2] = n
<1> DEFINE S == Nat
<1>1. reads \in Seq(S) /\ n \in S
  OBVIOUS
<1>2. /\ Append(reads, n) \in Seq(S) /\ Len(Append(reads, n)) = Len(reads) + 1
      /\ Append(reads, n)[Len(reads) + 1] = n
      /\ \A i \in 1..Len(reads) : Append(reads, n)[i] = reads[i]
  <2> HIDE DEF S
  <2> QED
    BY ONLY <1>1
<1> QED
  BY <1>2

LEMMA ListTasksStep ==
  ASSUME Inv, NEW r \in Refreshes, ListTasks(r)
  PROVE  Inv'
<1> DEFINE reads == tab.refresh[r].reads
           upTo == IF cache.etag = Len(log) THEN cache.upTo ELSE Len(log)
           at == IF cache.etag = Len(log) THEN "land" ELSE "list"
           new == [at |-> at, reads |-> Append(reads, upTo)]
           x == [tab EXCEPT !.refresh = [tab.refresh EXCEPT ![r] = new]]
<1>1. /\ tab.refresh[r].at = "tasks"
      /\ UNCHANGED <<log, handlers, registered, viewing, replay, link, toServer, queue,
                     cache, faults, lost>>
  BY DEF ListTasks, server, wire, fails
<1>2. tab' = x
  <2>1. CASE cache.etag = Len(log)
    <3>1. new = [at |-> "land", reads |-> Append(reads, cache.upTo)]
      BY <2>1
    <3> QED
      BY <2>1, <3>1, TabFacts DEF ListTasks, TabState
  <2>2. CASE cache.etag # Len(log)
    <3>1. new = [at |-> "list", reads |-> Append(reads, Len(log))]
      BY <2>2
    <3> QED
      BY <2>2, <3>1, TabFacts DEF ListTasks, TabState
  <2> QED
    BY <2>1, <2>2
<1>3. reads \in Seq(Nat) /\ Len(reads) = 1 /\ reads[1] <= Len(log) /\ reads[1] \in Nat
  <2>1. Called \in Refresh
    BY DEF Called, Refresh
  <2>2. reads \in Seq(Nat) /\ Len(reads) = 1 /\ reads[1] <= Len(log)
    BY <1>1, <2>1, TabFacts, RefreshType DEF AnswersOK
  <2> QED
    BY <2>2
<1>4. upTo \in Nat /\ upTo <= Len(log) /\ upTo >= Len(log)
  <2>1. cache.upTo \in Nat /\ cache.upTo <= Len(log) /\ cache.etag <= cache.upTo
    BY DEF Inv, Others, CachedList, NoCache
  <2> QED
    BY <2>1, TabFacts
<1> HIDE DEF reads, upTo
<1>5. /\ Append(reads, upTo) \in Seq(Nat) /\ Len(Append(reads, upTo)) = 2
      /\ Append(reads, upTo)[1] = reads[1] /\ Append(reads, upTo)[2] = upTo
  BY <1>3, <1>4, ReadAppended
<1>6. at \in {"list", "land"}
  OBVIOUS
<1> HIDE DEF at
<1>7. /\ new \in Refresh /\ new.at \in {"list", "land"} /\ Len(new.reads) = 2
      /\ new.reads[1] <= new.reads[2] /\ new.reads[2] <= Len(log)
  <2>1. new \in Refresh
    BY <1>5, <1>6 DEF Refresh
  <2> QED
    BY <1>3, <1>4, <1>5, <1>6, <2>1, TabFacts
<1> HIDE DEF new
<1>8. GoesOn(r, x, new)
  BY <1>1, <1>7 DEF GoesOn, Waits
<1>9. Others'
  BY <1>1 DEF Inv, Others, Seqs
<1> QED
  BY <1>1, <1>2, <1>8, <1>9, GoesOnOK, TabStep

LEMMA ListAnsweredStep ==
  ASSUME Inv, NEW r \in Refreshes, ListAnswered(r)
  PROVE  Inv'
<1> DEFINE reads == tab.refresh[r].reads
           list == Listed(reads[2])
           new == [at |-> "land", reads |-> <<reads[1], list.upTo>>]
           x == [tab EXCEPT !.refresh = [tab.refresh EXCEPT ![r] = new]]
<1>1. /\ tab.refresh[r].at = "list" /\ tab' = x
      /\ cache' = IF MayAsk(r) THEN list ELSE NoCache
      /\ UNCHANGED <<log, handlers, registered, viewing, replay, link, toServer, queue,
                     faults, lost>>
  BY TabFacts DEF ListAnswered, server, wire, fails, TabState
<1>2. /\ reads[1] \in Nat /\ reads[2] \in Nat /\ reads[1] <= reads[2] /\ reads[2] <= Len(log)
  <2>1. Called \in Refresh
    BY DEF Called, Refresh
  <2>2. /\ reads \in Seq(Nat) /\ Len(reads) = 2 /\ reads[1] <= reads[2]
        /\ reads[2] <= Len(log)
    BY <1>1, <2>1, TabFacts, RefreshType DEF AnswersOK
  <2> QED
    BY <2>2
<1>3. list \in CachedList /\ list.etag = reads[2] /\ list.upTo = Len(log)
  BY <1>2, TabFacts DEF Listed, CachedList
<1> HIDE DEF reads, list
<1>4. /\ new \in Refresh /\ new.at = "land" /\ Len(new.reads) = 2
      /\ new.reads[1] <= new.reads[2] /\ new.reads[2] <= Len(log)
  <2>1. /\ Len(log) \in Nat /\ <<reads[1], Len(log)>> \in Seq(Nat)
        /\ Len(<<reads[1], Len(log)>>) = 2
    BY <1>2, TabFacts
  <2> QED
    BY <1>2, <1>3, <2>1 DEF Refresh
<1> HIDE DEF new
<1>5. GoesOn(r, x, new)
  BY <1>1, <1>4 DEF GoesOn, Waits
<1>6. cache' \in CachedList \cup {NoCache} /\ cache'.upTo <= Len(log) /\ cache'.etag <= cache'.upTo
  <2>1. NoCache.upTo <= Len(log) /\ NoCache.etag <= NoCache.upTo
    BY TabFacts DEF NoCache
  <2> QED
    BY <1>1, <1>2, <1>3, <2>1, TabFacts
<1>7. Others'
  BY <1>1, <1>6 DEF Inv, Others, Seqs
<1> QED
  BY <1>1, <1>5, <1>7, GoesOnOK, TabStep

\* The snapshot is of two seqs, the later one for the tasks.
LEMMA RefreshLandsStep ==
  ASSUME Inv, NEW r \in Refreshes, RefreshLands(r)
  PROVE  Inv'
<1> DEFINE reads == tab.refresh[r].reads
           board == Content(log, reads[2])
           done == [at |-> "done", reads |-> << >>]
           refresh == [tab.refresh EXCEPT ![r] = done]
           c == [tab EXCEPT !.board = board, !.lastSeq = reads[1], !.subscribed = TRUE,
                            !.loading = FALSE, !.refresh = refresh]
<1>1. /\ tab.refresh[r].at = "land" /\ tab' = ProcessBuffer(c)
      /\ toServer' = (IF tab.subscribed THEN toServer ELSE Append(toServer, reads[1]))
      /\ UNCHANGED <<log, handlers, registered, viewing, replay, link, queue, cache,
                     faults, lost>>
  BY TabFacts DEF RefreshLands, Snapshot, server, fails, TabState
<1>2. /\ reads[1] \in Nat /\ reads[2] \in Nat /\ reads[1] <= reads[2] /\ reads[2] <= Len(log)
  <2>1. Called \in Refresh
    BY DEF Called, Refresh
  <2>2. /\ reads \in Seq(Nat) /\ Len(reads) = 2 /\ reads[1] <= reads[2]
        /\ reads[2] <= Len(log)
    BY <1>1, <2>1, TabFacts, RefreshType DEF AnswersOK
  <2> QED
    BY <2>2
<1> HIDE DEF reads
<1>3. reads[1] <= Len(log) /\ reads[2] \in 0..Len(log) /\ reads[2] \in reads[1]..Len(log)
  BY <1>2, TabFacts
<1>4. board \in Board
  BY <1>3, TabFacts, ContentIs
<1>5. done \in Refresh /\ done.at = "done"
  BY DEF Refresh
<1> HIDE DEF done
<1>6. /\ refresh \in [Refreshes -> Refresh] /\ refresh[r] = done
      /\ \A q \in Refreshes : q # r => refresh[q] = tab.refresh[q]
  BY <1>5, RefreshType
<1> HIDE DEF refresh
<1>7. /\ c \in TabState /\ c.pending = tab.pending /\ c.lastSeq = reads[1]
      /\ c.board = board /\ c.loading = FALSE /\ c.fetch = tab.fetch
      /\ c.refresh = refresh
  <2> HIDE DEF board
  <2> QED
    BY <1>2, <1>4, <1>6, TabFacts DEF TabState
<1> HIDE DEF c
<1>8. AnswersOK(c)
  <2>1. AnswersOK(tab)
    BY TabFacts
  <2>2. c.refresh[r].at = "done" /\ \A q \in Refreshes : q # r => c.refresh[q] = tab.refresh[q]
    BY <1>5, <1>6, <1>7
  <2> QED
    BY <1>7, <2>1, <2>2 DEF AnswersOK
<1>9. ASSUME Overlap = {} PROVE LogFits(log) /\ ViewOK(c) /\ \A q \in Refreshes : ~ Waits(c, q)
  <2>1. LogFits(log) /\ ViewOK(tab) /\ Waits(tab, r)
    BY <1>1, <1>9, TabFacts DEF Waits
  <2>2. \A q \in Refreshes : ~ Waits(c, q)
    BY <1>5, <1>6, <1>7, <2>1 DEF ViewOK, Waits
  <2>3. c.fetch.at = "idle"
    BY <1>7, <2>1 DEF ViewOK
  <2>4. ShownFrom(log, c.board, c.lastSeq)
    BY <1>3, <1>7 DEF ShownFrom
  <2> QED
    BY <2>1, <2>2, <2>3, <2>4 DEF ViewOK
<1>10. Worked(c, ProcessBuffer(c))
  BY <1>3, <1>7, TabFacts, BufferWorked
<1>11. TabOK(ProcessBuffer(c))
  BY <1>7, <1>8, <1>9, <1>10, TabFacts, WorkedOK
<1>12. toServer' \in Seq(Nat)
  BY <1>1, <1>2 DEF Inv, Others
<1>13. Others'
  BY <1>1, <1>12 DEF Inv, Others, Seqs
<1> QED
  BY <1>1, <1>11, <1>13, TabStep

LEMMA RefreshFailsStep ==
  ASSUME Inv, NEW r \in Refreshes, RefreshFails(r)
  PROVE  Inv'
<1> DEFINE done == [at |-> IF tab.refresh[r].at = "project" THEN "failed" ELSE "done",
                    reads |-> << >>]
           refresh == [tab.refresh EXCEPT ![r] = done]
           c == [tab EXCEPT !.loading = FALSE, !.refresh = refresh]
<1>1. /\ tab.refresh[r].at \in {"project", "tasks", "list", "land"}
      /\ tab' = ProcessBuffer(c) /\ faults < MaxFaults /\ faults' = faults + 1
      /\ lost' = (lost \/ r = Mount)
      /\ UNCHANGED <<log, handlers, registered, viewing, replay, link, toServer, queue, cache>>
  BY TabFacts DEF RefreshFails, Fault, server, wire, TabState
<1>2. done \in Refresh /\ done.at \in {"failed", "done"}
  BY DEF Refresh
<1> HIDE DEF done
<1>3. /\ refresh \in [Refreshes -> Refresh] /\ refresh[r] = done
      /\ \A q \in Refreshes : q # r => refresh[q] = tab.refresh[q]
  BY <1>2, RefreshType
<1> HIDE DEF refresh
<1>4. /\ c \in TabState /\ c.pending = tab.pending /\ c.lastSeq = tab.lastSeq
      /\ c.board = tab.board /\ c.loading = FALSE /\ c.fetch = tab.fetch
      /\ c.refresh = refresh
  BY <1>3, TabFacts DEF TabState
<1> HIDE DEF c
<1>5. AnswersOK(c)
  <2>1. AnswersOK(tab)
    BY TabFacts
  <2>2. /\ c.refresh[r].at \in {"failed", "done"}
        /\ \A q \in Refreshes : q # r => c.refresh[q] = tab.refresh[q]
    BY <1>2, <1>3, <1>4
  <2> QED
    BY <1>4, <2>1, <2>2 DEF AnswersOK
<1>6. ASSUME Overlap = {} PROVE LogFits(log) /\ ViewOK(c) /\ \A q \in Refreshes : ~ Waits(c, q)
  <2>1. LogFits(log) /\ ViewOK(tab) /\ Waits(tab, r)
    BY <1>1, <1>6, TabFacts DEF Waits
  <2>2. \A q \in Refreshes : ~ Waits(c, q)
    BY <1>2, <1>3, <1>4, <2>1 DEF ViewOK, Waits
  <2> QED
    BY <1>4, <2>1, <2>2 DEF ViewOK
<1>7. Worked(c, ProcessBuffer(c))
  BY <1>4, TabFacts, BufferWorked
<1>8. TabOK(ProcessBuffer(c))
  BY <1>4, <1>5, <1>6, <1>7, TabFacts, WorkedOK
<1>9. Others'
  <2>1. lost' \in BOOLEAN
    BY <1>1 DEF Inv, Others
  <2>2. faults' \in 0..MaxFaults
    BY <1>1, BoundAssumption DEF Inv, Others
  <2> QED
    BY <1>1, <2>1, <2>2 DEF Inv, Others, Seqs
<1> QED
  BY <1>1, <1>8, <1>9, TabStep

-----------------------------------------------------------------------------
(* Steps of the connection. *)

LEMMA WireFacts ==
  ASSUME Inv, UNCHANGED log
  PROVE  /\ Others /\ Seqs' = Seqs /\ tab.lastSeq \in Nat /\ Len(log) \in Nat
         /\ << >> \in Seq(Seqs) /\ << >> \in Seq(Nat) /\ Len(<< >>) = 0
         /\ QueueSize \in Nat /\ Network \in Nat
BY TabFacts, SizeAssumption DEF Inv, Seqs

LEMMA OpenStep ==
  ASSUME Inv, Open
  PROVE  Inv'
<1>1. /\ link' = TRUE
      /\ UNCHANGED <<log, handlers, registered, viewing, replay, queue, tab, cache, faults, lost>>
  BY DEF Open, server, fails
<1>2. PICK kept \in {toServer, << >>} :
        toServer' = IF tab.subscribed THEN Append(kept, tab.lastSeq) ELSE kept
  BY DEF Open
<1>3. kept \in Seq(Nat) /\ Append(kept, tab.lastSeq) \in Seq(Nat)
  <2>1. kept \in Seq(Nat)
    BY <1>1, <1>2, WireFacts DEF Others
  <2> QED
    BY <1>1, <2>1, WireFacts
<1>4. toServer' \in Seq(Nat)
  BY <1>2, <1>3
<1>5. Others'
  BY <1>1, <1>4, WireFacts DEF Others
<1> QED
  BY <1>1, <1>5, WireStep

LEMMA FocusStep ==
  ASSUME Inv, Focus
  PROVE  Inv'
<1>1. /\ toServer' = <<tab.lastSeq>>
      /\ UNCHANGED <<log, handlers, registered, viewing, replay, link, queue, tab, cache,
                     faults, lost>>
  BY DEF Focus, server, fails
<1>2. toServer' \in Seq(Nat)
  BY <1>1, WireFacts
<1>3. Others'
  BY <1>1, <1>2, WireFacts DEF Others
<1> QED
  BY <1>1, <1>3, WireStep

LEMMA RegisterStep ==
  ASSUME Inv, Register
  PROVE  Inv'
<1>1. /\ registered' = TRUE
      /\ UNCHANGED <<log, handlers, viewing, replay, link, toServer, queue, tab, cache,
                     faults, lost>>
  BY DEF Register, wire, fails
<1>2. Others'
  BY <1>1, WireFacts DEF Others
<1> QED
  BY <1>1, <1>2, WireStep

\* The seqs to replay are of events there are.
LEMMA SetViewingStep ==
  ASSUME Inv, SetViewing
  PROVE  Inv'
<1> DEFINE after == Head(toServer)
           upTo == IF viewing THEN after ELSE Min({Len(log), after + Page})
           n == upTo - after
<1>1. /\ toServer # << >> /\ toServer' = Tail(toServer) /\ viewing' = TRUE
      /\ replay' = [i \in 1..n |-> after + i]
      /\ lost' = IF viewing THEN lost ELSE upTo < Len(log)
      /\ UNCHANGED <<log, handlers, registered, link, queue, tab, cache, faults>>
  BY DEF SetViewing
<1>2. after \in Nat /\ toServer' \in Seq(Nat)
  <2>1. toServer \in Seq(Nat)
    BY <1>1, WireFacts DEF Others
  <2> QED
    BY <1>1, <2>1
<1> HIDE DEF after
<1>3. upTo \in Nat /\ (viewing \/ upTo <= Len(log))
  <2>1. after + Page \in Nat /\ Len(log) \in Nat
    BY <1>1, <1>2, WireFacts, SizeAssumption
  <2> QED
    BY <1>2, <2>1, TwoMaxMin
<1>4. \A i \in 1..n : after + i \in Seqs
  <2>1. \A i \in 1..n : after + i \in Nat /\ after + i >= 1 /\ after + i <= upTo
    <3> HIDE DEF upTo
    <3> QED
      BY <1>2, <1>3
  <2>2. CASE viewing
    <3>1. n = 0
      BY <1>2, <2>2
    <3> QED
      BY <3>1
  <2>3. CASE ~ viewing
    <3>1. upTo <= Len(log) /\ Len(log) \in Nat
      BY <1>1, <1>3, <2>3, WireFacts
    <3> HIDE DEF upTo
    <3> QED
      BY <1>3, <2>1, <3>1 DEF Seqs
  <2> QED
    BY <2>2, <2>3
<1>5. replay' \in Seq(Seqs)
  <2>1. CASE n \in Nat
    <3> HIDE DEF n
    <3> QED
      BY <1>1, <1>4, <2>1
  <2>2. CASE n \notin Nat
    <3>1. 1..n = {}
      <4> HIDE DEF upTo
      <4> QED
        BY <1>2, <1>3, <2>2
    <3>2. replay' = << >>
      <4> HIDE DEF n
      <4> QED
        BY <1>1, <3>1
    <3> QED
      BY <1>1, <3>2, WireFacts
  <2> QED
    BY <2>1, <2>2
<1>6. lost' \in BOOLEAN
  <2> HIDE DEF upTo
  <2>1. (upTo < Len(log)) \in BOOLEAN /\ lost \in BOOLEAN
    BY <1>1, WireFacts DEF Others
  <2> QED
    BY <1>1, <2>1
<1>7. Others'
  BY <1>1, <1>2, <1>5, <1>6, WireFacts DEF Others
<1> QED
  BY <1>1, <1>7, WireStep

LEMMA CloseStep ==
  ASSUME Inv, Close, UNCHANGED <<log, tab, cache, lost>>,
         handlers' \subseteq Seq(Seqs) \ {<< >>}, faults' \in 0..MaxFaults
  PROVE  Inv'
<1>1. /\ link' = FALSE /\ registered' = FALSE /\ viewing' = FALSE
      /\ toServer' = << >> /\ replay' = << >> /\ queue' = << >>
  BY DEF Close
<1>2. toServer' \in Seq(Nat) /\ replay' \in Seq(Seqs) /\ queue' \in Seq(Seqs)
  BY <1>1, WireFacts
<1>3. Len(queue') <= QueueSize + Network
  <2>1. Len(queue') = 0 /\ QueueSize + Network \in Nat
    BY <1>1, WireFacts
  <2> QED
    BY <2>1
<1>4. Others'
  BY <1>1, <1>2, <1>3, WireFacts DEF Others
<1> QED
  BY <1>4, WireStep

LEMMA SendStep ==
  ASSUME Inv, NEW s \in Seqs, NEW rest \in Seq(Seqs), Send(s, rest),
         UNCHANGED <<log, tab, cache, fails>>, handlers' \subseteq Seq(Seqs) \ {<< >>}
  PROVE  Inv'
<1>1. UNCHANGED <<log, tab, cache, faults, lost>>
  BY DEF fails
<1>2. queue \in Seq(Seqs) /\ Len(queue) \in Nat
  BY <1>1, WireFacts DEF Others
<1>3. Append(queue, s) \in Seq(Seqs) /\ Len(Append(queue, s)) = Len(queue) + 1
  BY <1>2
<1>4. CASE /\ ~ registered /\ replay' = rest
           /\ UNCHANGED <<wire, registered, viewing>>
  <2>1. Others'
    BY <1>1, <1>4, WireFacts DEF Others, wire
  <2> QED
    BY <1>1, <2>1, WireStep
<1>5. CASE /\ Len(queue) < QueueSize + Network /\ queue' = Append(queue, s) /\ replay' = rest
           /\ UNCHANGED <<link, toServer, registered, viewing>>
  <2>1. Len(queue') <= QueueSize + Network
    BY <1>1, <1>2, <1>3, <1>5, WireFacts
  <2>2. queue' \in Seq(Seqs)
    BY <1>3, <1>5
  <2>3. Others'
    BY <1>1, <1>5, <2>1, <2>2, WireFacts DEF Others
  <2> QED
    BY <1>1, <2>3, WireStep
<1>6. CASE Close
  <2>1. faults' \in 0..MaxFaults
    BY <1>1, WireFacts DEF Others
  <2> QED
    BY <1>1, <1>6, <2>1, CloseStep
<1> QED
  BY <1>4, <1>5, <1>6 DEF Send

LEMMA ReplayToStep ==
  ASSUME Inv, ReplayTo
  PROVE  Inv'
<1>1. /\ replay # << >> /\ Send(Head(replay), Tail(replay))
      /\ UNCHANGED <<log, tab, cache, fails, handlers>>
  BY DEF ReplayTo
<1>2. replay \in Seq(Seqs) /\ handlers \subseteq Seq(Seqs) \ {<< >>}
  BY <1>1, WireFacts DEF Others
<1>3. Head(replay) \in Seqs /\ Tail(replay) \in Seq(Seqs)
  BY <1>1, <1>2
<1> QED
  BY <1>1, <1>2, <1>3, SendStep

LEMMA BroadcastStep ==
  ASSUME Inv, NEW h \in handlers, Broadcast(h)
  PROVE  Inv'
<1>1. /\ handlers' = (handlers \ {h}) \cup ({Tail(h)} \ {<< >>})
      /\ Send(Head(h), replay) /\ UNCHANGED <<log, tab, cache, fails>>
  BY DEF Broadcast
<1>2. replay \in Seq(Seqs) /\ handlers \subseteq Seq(Seqs) \ {<< >>}
  BY <1>1, WireFacts DEF Others
<1>3. h \in Seq(Seqs) /\ h # << >>
  BY <1>2
<1>4. Head(h) \in Seqs /\ Tail(h) \in Seq(Seqs)
  BY <1>3
<1>5. handlers' \subseteq Seq(Seqs) \ {<< >>}
  BY <1>1, <1>2, <1>4
<1> QED
  BY <1>1, <1>2, <1>4, <1>5, SendStep

LEMMA DropStep ==
  ASSUME Inv, Drop
  PROVE  Inv'
<1>1. /\ Close /\ faults < MaxFaults /\ faults' = faults + 1
      /\ UNCHANGED <<log, handlers, tab, cache, lost>>
  BY DEF Drop, Fault
<1>2. Others
  BY <1>1, WireFacts
<1>3. faults' \in 0..MaxFaults
  BY <1>1, <1>2, BoundAssumption DEF Others
<1>4. handlers' \subseteq Seq(Seqs) \ {<< >>}
  BY <1>1, <1>2 DEF Others
<1> QED
  BY <1>1, <1>3, <1>4, CloseStep

LEMMA CrashStep ==
  ASSUME Inv, Crash
  PROVE  Inv'
<1>1. /\ Close /\ faults < MaxFaults /\ faults' = faults + 1 /\ handlers' = {}
      /\ UNCHANGED <<log, tab, cache, lost>>
  BY DEF Crash, Fault
<1>2. Others
  BY <1>1, WireFacts
<1>3. faults' \in 0..MaxFaults
  BY <1>1, <1>2, BoundAssumption DEF Others
<1>4. handlers' \subseteq Seq(Seqs) \ {<< >>}
  BY <1>1, <1>2 DEF Others
<1> QED
  BY <1>1, <1>3, <1>4, CloseStep

LEMMA ReplayFailsStep ==
  ASSUME Inv, ReplayFails
  PROVE  Inv'
<1>1. /\ faults < MaxFaults /\ faults' = faults + 1 /\ toServer # << >>
      /\ toServer' = Tail(toServer) /\ viewing' = TRUE /\ lost' = TRUE
      /\ UNCHANGED <<log, handlers, registered, replay, link, queue, tab, cache>>
  BY DEF ReplayFails, Fault
<1>2. toServer' \in Seq(Nat)
  <2>1. toServer \in Seq(Nat)
    BY <1>1, WireFacts DEF Others
  <2> QED
    BY <1>1, <2>1
<1>3. Others'
  <2>1. Others /\ Seqs' = Seqs
    BY <1>1, WireFacts
  <2>2. faults' \in 0..MaxFaults
    BY <1>1, <2>1, BoundAssumption DEF Others
  <2> QED
    BY <1>1, <1>2, <2>1, <2>2 DEF Others
<1> QED
  BY <1>1, <1>3, WireStep

-----------------------------------------------------------------------------
(* Commits. *)

LEMMA OneMore ==
  ASSUME NEW S, NEW s \in Seq(S), NEW e \in S
  PROVE  /\ <<e>> \in Seq(S) /\ Len(<<e>>) = 1 /\ DOMAIN <<e>> = 1..1
         /\ s \o <<e>> = Append(s, e) /\ Append(s, e) \in Seq(S)
         /\ Len(Append(s, e)) = Len(s) + 1 /\ Len(s) \in Nat /\ DOMAIN s = 1..Len(s)
         /\ \A i \in DOMAIN s : Append(s, e)[i] = s[i]
OBVIOUS

LEMMA Concatenated ==
  ASSUME NEW S, NEW s \in Seq(S), NEW t \in Seq(S)
  PROVE  /\ s \o t \in Seq(S) /\ Len(s \o t) = Len(s) + Len(t) /\ Len(s) \in Nat
         /\ \A i \in 1..(Len(s) + Len(t)) :
              (s \o t)[i] = IF i <= Len(s) THEN s[i] ELSE t[i - Len(s)]
OBVIOUS

LEMMA TwoMore ==
  ASSUME NEW S, NEW s \in Seq(S), NEW b \in S \X S
  PROVE  /\ b[1] \in S /\ b[2] \in S /\ DOMAIN b = 1..2
         /\ s \o b = Append(Append(s, b[1]), b[2])
<1>1. PICK d \in S, e \in S : b = <<d, e>>
  OBVIOUS
<1>2. /\ b \in Seq(S) /\ Len(b) = 2 /\ DOMAIN b = 1..2 /\ b[1] = d /\ b[2] = e
  BY <1>1
<1> DEFINE t == Append(s, d)
           u == Append(t, e)
           c == s \o b
<1>3. /\ t \in Seq(S) /\ Len(t) = Len(s) + 1 /\ t[Len(s) + 1] = d
      /\ \A i \in 1..Len(s) : t[i] = s[i]
  OBVIOUS
<1>4. /\ c \in Seq(S) /\ Len(c) = Len(s) + 2 /\ Len(s) \in Nat
      /\ c[Len(s) + 1] = b[1] /\ c[Len(s) + 2] = b[2] /\ \A i \in 1..Len(s) : c[i] = s[i]
  <2>1. c \in Seq(S) /\ Len(c) = Len(s) + 2 /\ Len(s) \in Nat
    <3>1. c \in Seq(S) /\ Len(c) = Len(s) + Len(b) /\ Len(s) \in Nat
      BY <1>2, Concatenated
    <3> QED
      BY <1>2, <3>1
  <2>2. \A i \in 1..(Len(s) + Len(b)) : c[i] = IF i <= Len(s) THEN s[i] ELSE b[i - Len(s)]
    BY <1>2, Concatenated
  <2> HIDE DEF c
  <2>3. \A i \in 1..Len(s) : c[i] = s[i]
    BY <1>2, <2>1, <2>2
  <2>4. c[Len(s) + 1] = b[1]
    <3>1. Len(s) + 1 \in 1..(Len(s) + Len(b)) /\ ~ (Len(s) + 1 <= Len(s)) /\ Len(s) + 1 - Len(s) = 1
      BY <1>2, <2>1
    <3> QED
      BY <2>2, <3>1
  <2>5. c[Len(s) + 2] = b[2]
    <3>1. Len(s) + 2 \in 1..(Len(s) + Len(b)) /\ ~ (Len(s) + 2 <= Len(s)) /\ Len(s) + 2 - Len(s) = 2
      BY <1>2, <2>1
    <3> QED
      BY <2>2, <3>1
  <2> QED
    BY <2>1, <2>3, <2>4, <2>5
<1> HIDE DEF t, c
<1>5. /\ u \in Seq(S) /\ Len(u) = Len(t) + 1 /\ u[Len(t) + 1] = e
      /\ \A i \in 1..Len(t) : u[i] = t[i]
  BY <1>3
<1> HIDE DEF u
<1>6. c = u
  <2>1. Len(c) = Len(u) /\ Len(t) = Len(s) + 1 /\ Len(s) \in Nat
    BY <1>3, <1>4, <1>5
  <2>2. ASSUME NEW i \in 1..Len(c) PROVE c[i] = u[i]
    <3>1. CASE i \in 1..Len(s)
      <4>1. i \in 1..Len(t)
        BY <2>1, <3>1
      <4> QED
        BY <1>3, <1>4, <1>5, <3>1, <4>1
    <3>2. CASE i = Len(s) + 1
      <4>1. i \in 1..Len(t)
        BY <2>1, <3>2
      <4>2. c[i] = d
        BY <1>2, <1>4, <3>2
      <4>3. u[i] = t[i] /\ t[i] = d
        BY <1>3, <1>5, <3>2, <4>1
      <4> QED
        BY <4>2, <4>3
    <3>3. CASE i = Len(s) + 2
      <4>1. i = Len(t) + 1
        BY <2>1, <3>3
      <4>2. c[i] = e
        BY <1>2, <1>4, <3>3
      <4>3. u[i] = e
        BY <1>5, <4>1
      <4> QED
        BY <4>2, <4>3
    <3> QED
      BY <1>4, <3>1, <3>2, <3>3
  <2> QED
    BY <1>4, <1>5, <2>1, <2>2
<1> QED
  BY <1>2, <1>6 DEF c, t, u

\* A block makes the log longer, by events that fit.
LEMMA BlockFits ==
  ASSUME log \in Seq(LogEvent), NEW b \in Blocks
  PROVE  /\ log \o b \in Seq(LogEvent) /\ \A i \in DOMAIN log : (log \o b)[i] = log[i]
         /\ \E n \in {1, 2} : DOMAIN b = 1..n /\ Len(log \o b) = Len(log) + n
         /\ Len(log) \in Nat
         /\ LogFits(log) => LogFits(log \o b)
<1>1. CASE \E e \in LogEvent : Possible(log, e) /\ b = <<e>>
  <2>1. PICK e \in LogEvent : Possible(log, e) /\ b = <<e>>
    BY <1>1
  <2>2. /\ DOMAIN b = 1..1 /\ log \o b = Append(log, e) /\ Append(log, e) \in Seq(LogEvent)
        /\ Len(log \o b) = Len(log) + 1 /\ Len(log) \in Nat
        /\ \A i \in DOMAIN log : (log \o b)[i] = log[i]
    BY <2>1, OneMore
  <2>3. LogFits(log) => LogFits(log \o b)
    BY <2>1, <2>2, LogFitsNext
  <2> QED
    BY <2>2, <2>3
<1>2. CASE b \in LogEvent \X LogEvent /\ Possible(log, b[1]) /\ Possible(Append(log, b[1]), b[2])
  <2>1. /\ b[1] \in LogEvent /\ b[2] \in LogEvent /\ DOMAIN b = 1..2
        /\ log \o b = Append(Append(log, b[1]), b[2])
    BY <1>2, TwoMore
  <2>2. PICK d \in LogEvent, e \in LogEvent : d = b[1] /\ e = b[2]
    BY <2>1
  <2>3. PICK mid \in Seq(LogEvent) : mid = Append(log, d)
    <3>1. Append(log, d) \in Seq(LogEvent)
      BY OneMore
    <3> QED
      BY <3>1
  <2>4. /\ Len(mid) = Len(log) + 1 /\ Len(log) \in Nat /\ DOMAIN log = 1..Len(log)
        /\ \A i \in DOMAIN log : mid[i] = log[i]
        /\ DOMAIN log \subseteq DOMAIN mid /\ (LogFits(log) => LogFits(mid))
    <3>1. /\ Len(mid) = Len(log) + 1 /\ Len(log) \in Nat /\ DOMAIN log = 1..Len(log)
          /\ \A i \in DOMAIN log : mid[i] = log[i] /\ DOMAIN mid = 1..Len(mid)
      BY <2>2, <2>3, OneMore
    <3>2. LogFits(log) => LogFits(mid)
      BY <1>2, <2>2, <2>3, LogFitsNext
    <3> QED
      BY <3>1, <3>2
  <2>5. /\ Len(log \o b) = Len(mid) + 1 /\ log \o b \in Seq(LogEvent)
        /\ \A i \in DOMAIN mid : (log \o b)[i] = mid[i]
        /\ (LogFits(mid) => LogFits(log \o b))
    <3>1. log \o b = Append(mid, e) /\ Possible(mid, e)
      BY <1>2, <2>1, <2>2, <2>3
    <3> QED
      BY <3>1, OneMore, LogFitsNext
  <2>6. Len(log \o b) = Len(log) + 2
    BY <2>4, <2>5
  <2> QED
    BY <2>1, <2>4, <2>5, <2>6
<1> QED
  BY <1>1, <1>2 DEF Blocks

\* The log has got longer, and nothing else but what is to be broadcast and
\* the failures has changed.
Grown ==
  /\ log' \in Seq(LogEvent) /\ Len(log) <= Len(log') /\ Len(log) \in Nat /\ Len(log') \in Nat
  /\ \A i \in DOMAIN log : log'[i] = log[i]
  /\ LogFits(log) => LogFits(log')
  /\ handlers' \subseteq Seq(Seqs') \ {<< >>} /\ lost' \in BOOLEAN /\ faults' \in 0..MaxFaults
  /\ UNCHANGED <<registered, viewing, replay, link, toServer, queue, tab, cache>>

LEMMA SeqsGrow ==
  ASSUME NEW A, NEW B, A \subseteq B
  PROVE  Seq(A) \subseteq Seq(B)
<1> SUFFICES ASSUME NEW s \in Seq(A) PROVE s \in Seq(B)
  OBVIOUS
<1>1. Len(s) \in Nat /\ s = [i \in 1..Len(s) |-> s[i]] /\ \A i \in 1..Len(s) : s[i] \in B
  OBVIOUS
<1> QED
  BY <1>1

LEMMA GrownStep ==
  ASSUME Inv, Grown
  PROVE  Inv'
<1>1. Seqs \subseteq Seqs'
  BY DEF Seqs, Grown
<1>2. /\ replay' \in Seq(Seqs') /\ queue' \in Seq(Seqs')
  BY <1>1, SeqsGrow DEF Inv, Others, Grown
<1>3. cache'.upTo <= Len(log') /\ cache' \in CachedList \cup {NoCache}
  <2>1. cache.upTo \in Nat /\ cache.upTo <= Len(log)
    BY DEF Inv, Others, CachedList, NoCache
  <2> QED
    BY <2>1 DEF Grown, Inv, Others
<1>4. Others'
  BY <1>2, <1>3 DEF Inv, Others, Grown
<1>5. AnswersOK(tab)'
  <2>1. tab.fetch.upTo <= Len(log')
    BY TabFacts DEF AnswersOK, Grown, Fetch
  <2>2. ASSUME NEW r \in Refreshes
        PROVE  LET reads == tab.refresh[r].reads IN
               /\ tab.refresh[r].at = "tasks" => Len(reads) = 1 /\ reads[1] <= Len(log')
               /\ tab.refresh[r].at \in {"list", "land"} =>
                    Len(reads) = 2 /\ reads[1] <= reads[2] /\ reads[2] <= Len(log')
    <3> DEFINE reads == tab.refresh[r].reads
    <3>1. Called \in Refresh
      BY DEF Called, Refresh
    <3>2. reads \in Seq(Nat)
      BY <3>1, RefreshType
    <3>3. /\ tab.refresh[r].at = "tasks" => Len(reads) = 1 /\ reads[1] <= Len(log)
          /\ tab.refresh[r].at \in {"list", "land"} =>
               Len(reads) = 2 /\ reads[1] <= reads[2] /\ reads[2] <= Len(log)
      BY TabFacts DEF AnswersOK
    <3> HIDE DEF reads
    <3>4. /\ Len(reads) = 1 => reads[1] \in Nat
          /\ Len(reads) = 2 => reads[2] \in Nat
      BY <3>2
    <3>5. \A n \in Nat : n <= Len(log) => n <= Len(log')
      BY DEF Grown
    <3>6. /\ tab.refresh[r].at = "tasks" => Len(reads) = 1 /\ reads[1] <= Len(log')
          /\ tab.refresh[r].at \in {"list", "land"} =>
               Len(reads) = 2 /\ reads[1] <= reads[2] /\ reads[2] <= Len(log')
      BY <3>3, <3>4, <3>5
    <3> QED
      BY <3>6 DEF reads
  <2> QED
    BY <2>1, <2>2 DEF AnswersOK, Grown
<1>6. ASSUME Overlap = {} PROVE LogFits(log') /\ ViewOK(tab)'
  <2>1. LogFits(log) /\ ViewOK(tab)
    BY <1>6, TabFacts
  <2>2. ShownFrom(log', tab.board, tab.lastSeq)
    BY <2>1, TabFacts, ShownLonger DEF ViewOK, Grown
  <2> QED
    BY <2>1, <2>2 DEF ViewOK, Waits, Grown
<1>7. TabOK(tab)'
  <2>1. tab'.lastSeq <= Len(log') /\ tab' \in TabState /\ tab'.pending \subseteq Seqs'
    BY <1>1, TabFacts DEF Grown
  <2>2. GapOK(tab)'
    BY TabFacts DEF GapOK, Grown
  <2> QED
    BY <1>5, <1>6, <2>1, <2>2 DEF TabOK
<1>8. log' \in Seq(LogEvent) /\ (Overlap = {} => LogFits(log'))
  BY <1>6 DEF Grown
<1> QED
  BY <1>4, <1>7, <1>8 DEF Inv

LEMMA CommitStep ==
  ASSUME Inv, Commit
  PROVE  Inv'
<1>1. PICK b \in Blocks :
        /\ log' = log \o b
        /\ handlers' = handlers \cup {[i \in DOMAIN b |-> Len(log) + i]}
  BY DEF Commit
<1>2. UNCHANGED <<registered, viewing, replay, link, toServer, queue, tab, cache, faults, lost>>
  BY DEF Commit, wire, fails
<1>3. PICK n \in {1, 2} : DOMAIN b = 1..n /\ Len(log') = Len(log) + n
  BY <1>1, TabFacts, BlockFits
<1>4. Seqs \subseteq Seqs' /\ Len(log) \in Nat /\ n \in Nat /\ n # 0
  BY <1>3, TabFacts DEF Seqs
<1>5. [i \in 1..n |-> Len(log) + i] \in Seq(Seqs') \ {<< >>}
  <2> DEFINE h == [i \in 1..n |-> Len(log) + i]
  <2>1. \A i \in 1..n : Len(log) + i \in Seqs'
    BY <1>3, <1>4 DEF Seqs
  <2>2. h \in Seq(Seqs') /\ Len(h) = n
    BY <1>4, <2>1
  <2> HIDE DEF h
  <2>3. h # << >>
    BY <1>4, <2>2
  <2> QED
    BY <2>2, <2>3 DEF h
<1>6. handlers \subseteq Seq(Seqs') \ {<< >>}
  BY <1>4, SeqsGrow DEF Inv, Others
<1>7. handlers' \subseteq Seq(Seqs') \ {<< >>}
  BY <1>1, <1>3, <1>5, <1>6
<1>8. Grown
  <2>1. /\ log' \in Seq(LogEvent) /\ \A i \in DOMAIN log : log'[i] = log[i]
        /\ (LogFits(log) => LogFits(log'))
    BY <1>1, TabFacts, BlockFits
  <2>2. Len(log) <= Len(log') /\ Len(log') \in Nat
    BY <1>3, <1>4
  <2>3. lost' \in BOOLEAN /\ faults' \in 0..MaxFaults
    BY <1>2 DEF Inv, Others
  <2> QED
    BY <1>2, <1>4, <1>7, <2>1, <2>2, <2>3 DEF Grown
<1> QED
  BY <1>8, GrownStep

LEMMA CommitUnreportedStep ==
  ASSUME Inv, CommitUnreported
  PROVE  Inv'
<1>1. PICK b \in Blocks : log' = log \o b
  BY DEF CommitUnreported
<1>2. /\ UNCHANGED <<handlers, registered, viewing, replay, link, toServer, queue, tab, cache>>
      /\ lost' = TRUE /\ faults < MaxFaults /\ faults' = faults + 1
  BY DEF CommitUnreported, Fault, wire, server
<1>3. PICK n \in {1, 2} : Len(log') = Len(log) + n
  BY <1>1, TabFacts, BlockFits
<1>4. Seqs \subseteq Seqs' /\ Len(log) \in Nat /\ n \in Nat
  BY <1>3, TabFacts DEF Seqs
<1>5. handlers' \subseteq Seq(Seqs') \ {<< >>}
  BY <1>2, <1>4, SeqsGrow DEF Inv, Others
<1>6. Grown
  <2>1. /\ log' \in Seq(LogEvent) /\ \A i \in DOMAIN log : log'[i] = log[i]
        /\ (LogFits(log) => LogFits(log'))
    BY <1>1, TabFacts, BlockFits
  <2>2. Len(log) <= Len(log') /\ Len(log') \in Nat
    BY <1>3, <1>4
  <2>3. lost' \in BOOLEAN /\ faults' \in 0..MaxFaults
    BY <1>2, BoundAssumption DEF Inv, Others
  <2> QED
    BY <1>2, <1>4, <1>5, <2>1, <2>2, <2>3 DEF Grown
<1> QED
  BY <1>6, GrownStep

-----------------------------------------------------------------------------
(* The invariant holds. *)

LEMMA InitInv ==
  ASSUME Init
  PROVE  Inv
<1> DEFINE refresh == [r \in Refreshes |-> IF r = Mount THEN Called ELSE NotCalled]
<1>1. /\ log = << >> /\ handlers = {} /\ link = TRUE /\ registered = TRUE /\ viewing = FALSE
      /\ toServer = << >> /\ replay = << >> /\ queue = << >> /\ cache = NoCache
      /\ faults = 0 /\ lost = FALSE
      /\ tab = [board |-> EmptyBoard, lastSeq |-> 0, pending |-> {}, loading |-> TRUE,
                subscribed |-> FALSE, fetch |-> NoFetch, refresh |-> refresh]
  BY DEF Init
<1>2. << >> \in Seq(LogEvent) /\ << >> \in Seq(Nat) /\ << >> \in Seq(Seqs) /\ Len(<< >>) = 0
      /\ DOMAIN << >> = {}
  OBVIOUS
<1>3. NoFetch \in Fetch /\ NoFetch.at = "idle" /\ NoFetch.upTo = 0
  BY DEF NoFetch, Fetch
<1>4. /\ refresh \in [Refreshes -> Refresh]
      /\ \A r \in Refreshes : refresh[r].at \in {"idle", "project"}
      /\ \A r \in Refreshes : refresh[r].at = "project" => r = Mount
  BY DEF Called, NotCalled, Refresh
<1> HIDE DEF refresh
<1>5. EmptyBoard \in Board /\ Content(<< >>, 0) = EmptyBoard
  BY <1>2, ContentIs
<1>6. /\ tab \in TabState /\ tab.lastSeq = 0 /\ tab.pending = {} /\ tab.loading = TRUE
      /\ tab.board = EmptyBoard /\ tab.fetch = NoFetch /\ tab.refresh = refresh
  <2>1. 0 \in Nat /\ {} \in SUBSET Nat /\ TRUE \in BOOLEAN /\ FALSE \in BOOLEAN
    OBVIOUS
  <2> QED
    BY <1>1, <1>3, <1>4, <1>5, <2>1 DEF TabState
<1>7. LogFits(log)
  <2>1. Created(log) = {} /\ Deleted(log) = {}
    BY <1>1, <1>2 DEF Created, Deleted
  <2>2. \A k \in Task : Content(log, Len(log))[k] = 0
    BY <1>1, <1>2, <1>5 DEF EmptyBoard
  <2> QED
    BY <1>1, <1>2, <2>1, <2>2 DEF LogFits, Existing
<1>8. ViewOK(tab)
  <2>1. ShownFrom(log, EmptyBoard, 0)
    <3>1. 0 \in 0..Len(log) /\ Content(log, 0) = EmptyBoard
      BY <1>1, <1>2, <1>5
    <3> QED
      BY <3>1 DEF ShownFrom
  <2>2. \A r \in Refreshes : Waits(tab, r) => r = Mount
    BY <1>4, <1>6 DEF Waits
  <2> QED
    BY <1>3, <1>6, <2>1, <2>2 DEF ViewOK
<1>9. TabOK(tab)
  <2>1. AnswersOK(tab)
    BY <1>1, <1>2, <1>3, <1>4, <1>6 DEF AnswersOK
  <2>2. GapOK(tab)
    BY <1>6 DEF GapOK
  <2>3. tab.lastSeq <= Len(log) /\ tab.pending \subseteq Seqs
    BY <1>1, <1>2, <1>6
  <2> QED
    BY <1>6, <1>8, <2>1, <2>2, <2>3 DEF TabOK
<1>10. Others
  <2>1. /\ NoCache.upTo = 0 /\ NoCache.etag <= NoCache.upTo /\ 0 \in 0..MaxFaults
        /\ Len(queue) <= QueueSize + Network /\ NoCache.upTo <= Len(log)
    <3>1. QueueSize + Network \in Nat /\ Len(queue) = 0
      BY <1>1, <1>2, SizeAssumption
    <3>2. Len(log) = 0
      BY <1>1, <1>2
    <3> QED
      BY <3>1, <3>2, BoundAssumption DEF NoCache
  <2> QED
    BY <1>1, <1>2, <2>1 DEF Others
<1> QED
  BY <1>1, <1>2, <1>7, <1>9, <1>10 DEF Inv

LEMMA StepInv ==
  ASSUME Inv, [Next]_vars
  PROVE  Inv'
<1>1. CASE Next
  <2>1. CASE Commit
    BY <2>1, CommitStep
  <2>2. CASE Deliver
    BY <2>2, DeliverStep
  <2>3. CASE FetchAnswered
    BY <2>3, FetchAnsweredStep
  <2>4. CASE FetchLands
    BY <2>4, FetchLandsStep
  <2>5. CASE Focus
    BY <2>5, FocusStep
  <2>6. CASE Open
    BY <2>6, OpenStep
  <2>7. CASE Register
    BY <2>7, RegisterStep
  <2>8. CASE SetViewing
    BY <2>8, SetViewingStep
  <2>9. CASE ReplayTo
    BY <2>9, ReplayToStep
  <2>10. CASE \E h \in handlers : Broadcast(h)
    BY <2>10, BroadcastStep
  <2>11. ASSUME NEW r \in Refreshes, RefreshCalled(r) \/ ProjectAnswered(r) \/ ListTasks(r)
                  \/ ListAnswered(r) \/ RefreshLands(r) \/ RefreshFails(r)
         PROVE  Inv'
    BY <2>11, RefreshCalledStep, ProjectAnsweredStep, ListTasksStep, ListAnsweredStep,
       RefreshLandsStep, RefreshFailsStep
  <2>12. CASE Drop
    BY <2>12, DropStep
  <2>13. CASE Crash
    BY <2>13, CrashStep
  <2>14. CASE FetchFails
    BY <2>14, FetchFailsStep
  <2>15. CASE ReplayFails
    BY <2>15, ReplayFailsStep
  <2>16. CASE CommitUnreported
    BY <2>16, CommitUnreportedStep
  <2> QED
    BY <1>1, <2>1, <2>2, <2>3, <2>4, <2>5, <2>6, <2>7, <2>8, <2>9, <2>10, <2>11, <2>12,
       <2>13, <2>14, <2>15, <2>16 DEF Next
<1>2. CASE UNCHANGED vars
  <2>1. /\ UNCHANGED <<log, handlers, registered, viewing, replay, link, toServer, queue, tab,
                       cache, faults, lost>>
    BY <1>2 DEF vars, server, wire, fails
  <2>2. Others'
    BY <2>1, WireFacts DEF Others
  <2> QED
    BY <2>1, <2>2, WireStep
<1> QED
  BY <1>1, <1>2

LEMMA InvAlways == Spec => []Inv
<1>1. Init => Inv
  BY InitInv
<1>2. Inv /\ [Next]_vars => Inv'
  BY StepInv
<1> QED
  BY <1>1, <1>2, PTL DEF Spec

-----------------------------------------------------------------------------
(* What follows from it. *)

\* The state of the log, the handlers, the hub, the wire and the tab has its
\* type: what is to be broadcast, replayed or applied are seqs of events that
\* are committed, and no more messages are on their way than fit.
THEOREM TypeCorrect == Spec => []TypeOK
<1>1. Inv => TypeOK
  BY DEF Inv, TabOK, Others, TypeOK
<1> QED
  BY <1>1, InvAlways, PTL

\* processBuffer leaves only events beyond a gap that a request is out to
\* fill, whatever order events, answers and snapshots come in.
THEOREM GapFilled == Spec => []GapIsBeingFilled
<1>1. Inv => GapIsBeingFilled
  BY DEF Inv, TabOK, GapOK, GapIsBeingFilled
<1> QED
  BY <1>1, InvAlways, PTL

\* The answers to a tab's requests are from the log, and the list in the
\* browser's cache is no older than its ETag; without overlaps, every task on
\* the board is as it was at some seq from lastSeq on.
THEOREM Inductive == Spec => []SyncInvariant
<1>1. Inv => SyncInvariant
  BY DEF Inv, TabOK, Others, SyncInvariant
<1> QED
  BY <1>1, InvAlways, PTL

\* The events after lastSeq lead the board to what the log says, if no task
\* is created during a refresh or a gap request (see Overlap).
THEOREM CatchesUp ==
  ASSUME Overlap = {}
  PROVE  Spec => []ViewCatchesUp
<1>1. ASSUME Inv PROVE ViewCatchesUp
  <2>1. /\ log \in Seq(LogEvent) /\ tab.board \in Board /\ tab.lastSeq \in Nat
        /\ tab.lastSeq <= Len(log) /\ Len(log) \in Nat
        /\ LogFits(log) /\ ShownFrom(log, tab.board, tab.lastSeq)
    BY <1>1, TabFacts DEF ViewOK
  <2> DEFINE board == ApplyAll(log, tab.board, tab.lastSeq + 1, Len(log))
  <2>2. Len(log) \in tab.lastSeq..Len(log) /\ Len(log) \in 0..Len(log)
        /\ tab.lastSeq + 1 \in Nat \ {0}
    BY <2>1
  <2>3. board \in Board
    BY <2>1, <2>2, ApplyAllType
  <2>4. ShownFrom(log, board, Len(log))
    BY <2>1, <2>2, ShownAfter
  <2> HIDE DEF board
  <2>5. board = Content(log, Len(log))
    BY <2>1, <2>3, <2>4, ShownLast
  <2> QED
    BY <2>5 DEF ViewCatchesUp, board
<1>2. Inv => ViewCatchesUp
  BY <1>1
<1> QED
  BY <1>2, InvAlways, PTL
=============================================================================
