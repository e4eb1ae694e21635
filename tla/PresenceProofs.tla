--------------------------- MODULE PresenceProofs ---------------------------
(***************************************************************************)
(* Proofs about Presence, for any tabs, projects, names and tasks: the     *)
(* types of its state, that the hub follows what a tab says it shows, and  *)
(* that the last roster a tab got is the hub's.                            *)
(***************************************************************************)
EXTENDS Presence, FiniteSetTheorems, TLAPS

Inv == TypeOK /\ FollowInvariant /\ RosterInvariant

-----------------------------------------------------------------------------
(* Sequences. *)

LEMMA SeqExcept ==
  ASSUME NEW S, NEW s \in Seq(S), NEW i \in DOMAIN s, NEW e \in S
  PROVE  /\ [s EXCEPT ![i] = e] \in Seq(S)
         /\ DOMAIN [s EXCEPT ![i] = e] = DOMAIN s
         /\ [s EXCEPT ![i] = e][i] = e
         /\ \A j \in DOMAIN s : j # i => [s EXCEPT ![i] = e][j] = s[j]
<1>1. DOMAIN s = 1..Len(s) /\ Len(s) \in Nat
  OBVIOUS
<1>2. [s EXCEPT ![i] = e] \in [1..Len(s) -> S]
  BY <1>1
<1> QED
  BY <1>1, <1>2

LEMMA SeqWider ==
  ASSUME NEW S, NEW T, S \subseteq T, NEW s \in Seq(S)
  PROVE  s \in Seq(T)
OBVIOUS

LEMMA AppendFacts ==
  ASSUME NEW S, NEW s \in Seq(S), NEW e \in S
  PROVE  /\ Append(s, e) \in Seq(S)
         /\ Len(Append(s, e)) = Len(s) + 1
         /\ DOMAIN Append(s, e) = DOMAIN s \cup {Len(s) + 1}
         /\ Append(s, e)[Len(s) + 1] = e
         /\ \A i \in DOMAIN s : Append(s, e)[i] = s[i] /\ i <= Len(s)
         /\ Append(s, e) # << >>
OBVIOUS

LEMMA ConcatFacts ==
  ASSUME NEW S, NEW s \in Seq(S), NEW e \in S
  PROVE  s \o <<e>> = Append(s, e) /\ s \o << >> = s
OBVIOUS

LEMMA TailFacts ==
  ASSUME NEW S, NEW s \in Seq(S), s # << >>
  PROVE  /\ Head(s) \in S /\ Head(s) = s[1] /\ 1 \in DOMAIN s
         /\ Tail(s) \in Seq(S)
         /\ \A i \in DOMAIN Tail(s) : i + 1 \in DOMAIN s /\ Tail(s)[i] = s[i + 1]
         /\ \A i \in DOMAIN s : i = 1 \/ i - 1 \in DOMAIN Tail(s)
         /\ DOMAIN s \subseteq Nat \ {0}
OBVIOUS

\* What is left of a sequence, in its order.
LEMMA RemoveAtFacts ==
  ASSUME NEW S, NEW s \in Seq(S), NEW n \in DOMAIN s
  PROVE  /\ RemoveAt(s, n) \in Seq(S)
         /\ Len(RemoveAt(s, n)) = Len(s) - 1
         /\ \A i \in DOMAIN RemoveAt(s, n) :
              RemoveAt(s, n)[i] = s[IF i < n THEN i ELSE i + 1]
<1> DEFINE a == SubSeq(s, 1, n - 1)
           b == SubSeq(s, n + 1, Len(s))
<1>1. n \in 1..Len(s) /\ Len(s) \in Nat /\ n \in Nat
  OBVIOUS
<1>2. a \in Seq(S) /\ Len(a) = n - 1 /\ \A i \in 1..(n - 1) : a[i] = s[i]
  BY <1>1
<1>3. b \in Seq(S) /\ Len(b) = Len(s) - n /\ \A i \in 1..(Len(s) - n) : b[i] = s[n + i]
  BY <1>1
<1> HIDE DEF a, b
<1>4. a \o b \in Seq(S) /\ Len(a \o b) = Len(s) - 1
  BY <1>1, <1>2, <1>3
<1>5. ASSUME NEW i \in DOMAIN (a \o b)
      PROVE  (a \o b)[i] = s[IF i < n THEN i ELSE i + 1]
  <2>1. i \in 1..(Len(s) - 1)
    BY <1>1, <1>4, <1>5
  <2>2. CASE i < n
    <3>1. i \in 1..(n - 1)
      BY <1>1, <2>1, <2>2
    <3> QED
      BY <1>1, <1>2, <1>3, <2>2, <3>1
  <2>3. CASE ~ (i < n)
    <3>1. i - (n - 1) \in 1..(Len(s) - n) /\ n + (i - (n - 1)) = i + 1
      BY <1>1, <2>1, <2>3
    <3>2. (a \o b)[i] = b[i - (n - 1)]
      BY <1>1, <1>2, <1>3, <2>1, <2>3
    <3> QED
      BY <1>3, <2>3, <3>1, <3>2
  <2> QED
    BY <2>2, <2>3
<1> QED
  BY <1>4, <1>5 DEF RemoveAt, a, b

-----------------------------------------------------------------------------
(* What is on the way to the hub. *)

LEMMA MessageTypes ==
  /\ \A p \in Project \cup {Nothing}, k \in Task \cup {Nothing} :
       Viewing(p, k) \in Message /\ Viewing(p, k).type = "viewing"
  /\ \A n \in Name : Renaming(n) \in Message /\ Renaming(n).type = "rename"
  /\ \A m \in Message : m.type \in {"viewing", "rename"}
BY DEF Viewing, Renaming, Message

\* The message said last has the last word; the others keep theirs.
LEMMA SaidLast ==
  ASSUME NEW said \in Seq(Message), NEW m \in Message
  PROVE  /\ LastSaid(Append(said, m), m)
         /\ ~ NoneSaid(Append(said, m), m.type)
         /\ \A type : type # m.type =>
              (NoneSaid(Append(said, m), type) <=> NoneSaid(said, type))
         /\ \A o \in Message : o.type # m.type /\ LastSaid(said, o)
              => LastSaid(Append(said, m), o)
<1> DEFINE s == Append(said, m)
           l == Len(said) + 1
<1>1. /\ DOMAIN s = DOMAIN said \cup {l} /\ s[l] = m
      /\ \A i \in DOMAIN said : s[i] = said[i] /\ i <= l
      /\ l <= l
  OBVIOUS
<1> HIDE DEF s, l
<1>2. LastSaid(s, m)
  BY <1>1 DEF LastSaid
<1>3. ~ NoneSaid(s, m.type)
  BY <1>1 DEF NoneSaid
<1>4. ASSUME NEW type, type # m.type
      PROVE  NoneSaid(s, type) <=> NoneSaid(said, type)
  BY <1>1, <1>4 DEF NoneSaid
<1>5. ASSUME NEW o \in Message, o.type # m.type, LastSaid(said, o)
      PROVE  LastSaid(s, o)
  <2>1. PICK i \in DOMAIN said :
          said[i] = o /\ \A j \in DOMAIN said : said[j].type = o.type => j <= i
    BY <1>5 DEF LastSaid
  <2> QED
    BY <1>1, <1>5, <2>1 DEF LastSaid
<1> QED
  BY <1>2, <1>3, <1>4, <1>5 DEF s

LEMMA SayView ==
  ASSUME NEW conn \in Conn, NEW y \in Conn,
         NEW p \in Project \cup {Nothing}, NEW k \in Task \cup {Nothing},
         y.toServer = Append(conn.toServer, Viewing(p, k)), y.name = conn.name
  PROVE  /\ LastView(y, p, k)
         /\ \A n \in Name : LastName(conn, n) => LastName(y, n)
<1>1. conn.toServer \in Seq(Message)
  BY DEF Conn
<1>2. Viewing(p, k) \in Message /\ Viewing(p, k).type = "viewing"
  BY MessageTypes
<1>3. LastView(y, p, k)
  BY <1>1, <1>2, SaidLast DEF LastView
<1>4. NoneSaid(y.toServer, "rename") <=> NoneSaid(conn.toServer, "rename")
  BY <1>1, <1>2, SaidLast
<1>5. ASSUME NEW n \in Name, LastName(conn, n)
      PROVE  LastName(y, n)
  <2>1. Renaming(n) \in Message /\ Renaming(n).type = "rename"
    BY MessageTypes
  <2>2. LastSaid(conn.toServer, Renaming(n)) => LastSaid(y.toServer, Renaming(n))
    BY <1>1, <1>2, <2>1, SaidLast
  <2> QED
    BY <1>4, <1>5, <2>2 DEF LastName
<1> QED
  BY <1>3, <1>5

LEMMA SayName ==
  ASSUME NEW conn \in Conn, NEW y \in Conn, NEW n \in Name,
         y.toServer = Append(conn.toServer, Renaming(n)),
         y.project = conn.project, y.task = conn.task
  PROVE  /\ LastName(y, n)
         /\ \A p \in Project \cup {Nothing}, k \in Task \cup {Nothing} :
              LastView(conn, p, k) => LastView(y, p, k)
<1>1. conn.toServer \in Seq(Message)
  BY DEF Conn
<1>2. Renaming(n) \in Message /\ Renaming(n).type = "rename"
  BY MessageTypes
<1>3. LastName(y, n)
  BY <1>1, <1>2, SaidLast DEF LastName
<1>4. NoneSaid(y.toServer, "viewing") <=> NoneSaid(conn.toServer, "viewing")
  BY <1>1, <1>2, SaidLast
<1>5. ASSUME NEW p \in Project \cup {Nothing}, NEW k \in Task \cup {Nothing},
             LastView(conn, p, k)
      PROVE  LastView(y, p, k)
  <2>1. Viewing(p, k) \in Message /\ Viewing(p, k).type = "viewing"
    BY MessageTypes
  <2>2. LastSaid(conn.toServer, Viewing(p, k)) => LastSaid(y.toServer, Viewing(p, k))
    BY <1>1, <1>2, <2>1, SaidLast
  <2> QED
    BY <1>4, <1>5, <2>2 DEF LastView
<1> QED
  BY <1>3, <1>5

\* Reading the first message leaves the last one of each type the last.
LEMMA SaidTail ==
  ASSUME NEW said \in Seq(Message), said # << >>, NEW o \in Message,
         LastSaid(said, o)
  PROVE  \/ LastSaid(Tail(said), o) /\ ~ NoneSaid(Tail(said), o.type)
         \/ Head(said) = o /\ NoneSaid(Tail(said), o.type)
<1> DEFINE s == Tail(said)
<1>1. /\ Head(said) = said[1] /\ 1 \in DOMAIN said
      /\ \A i \in DOMAIN s : i + 1 \in DOMAIN said /\ s[i] = said[i + 1]
      /\ \A i \in DOMAIN said : i = 1 \/ i - 1 \in DOMAIN s
      /\ DOMAIN said \subseteq Nat \ {0} /\ DOMAIN s \subseteq Nat \ {0}
  OBVIOUS
<1> HIDE DEF s
<1>2. PICK i \in DOMAIN said :
        said[i] = o /\ \A j \in DOMAIN said : said[j].type = o.type => j <= i
  BY DEF LastSaid
<1>3. CASE i = 1
  <2>1. NoneSaid(s, o.type)
    <3> SUFFICES ASSUME NEW j \in DOMAIN s, s[j].type = o.type PROVE FALSE
      BY DEF NoneSaid
    <3>1. j + 1 \in DOMAIN said /\ said[j + 1].type = o.type /\ j \in Nat \ {0}
      BY <1>1
    <3>2. j + 1 <= i
      BY <1>2, <3>1
    <3> QED
      BY <1>3, <3>1, <3>2
  <2> QED
    BY <1>1, <1>2, <1>3, <2>1 DEF s
<1>4. CASE i # 1
  <2>1. i - 1 \in DOMAIN s /\ i \in Nat
    BY <1>1, <1>4
  <2>2. s[i - 1] = o
    BY <1>1, <1>2, <2>1
  <2>3. \A j \in DOMAIN s : s[j].type = o.type => j <= i - 1
    <3> SUFFICES ASSUME NEW j \in DOMAIN s, s[j].type = o.type PROVE j <= i - 1
      OBVIOUS
    <3>1. j + 1 \in DOMAIN said /\ said[j + 1].type = o.type /\ j \in Nat
      BY <1>1
    <3>2. j + 1 <= i
      BY <1>2, <3>1
    <3> QED
      BY <2>1, <3>1, <3>2
  <2> QED
    BY <2>1, <2>2, <2>3 DEF LastSaid, NoneSaid, s
<1> QED
  BY <1>3, <1>4

LEMMA NoneSaidTail ==
  ASSUME NEW said \in Seq(Message), said # << >>, NEW type, NoneSaid(said, type)
  PROVE  NoneSaid(Tail(said), type) /\ Head(said).type # type
BY TailFacts DEF NoneSaid

\* What the hub has read counts as what was said last.
LEMMA ReadMessage ==
  ASSUME NEW conn \in Conn, NEW y \in Conn, NEW m,
         conn.toServer # << >>, m = Head(conn.toServer),
         y.toServer = Tail(conn.toServer),
         m.type = "viewing" =>
           y.project = m.project /\ y.task = m.task /\ y.name = conn.name,
         m.type = "rename" =>
           y.name = m.name /\ y.project = conn.project /\ y.task = conn.task
  PROVE  /\ \A p \in Project \cup {Nothing}, k \in Task \cup {Nothing} :
              LastView(conn, p, k) => LastView(y, p, k)
         /\ \A n \in Name : LastName(conn, n) => LastName(y, n)
<1>1. conn.toServer \in Seq(Message) /\ m \in Message
  BY DEF Conn
<1>2. m.type \in {"viewing", "rename"}
  BY <1>1, MessageTypes
<1>3. ASSUME NEW p \in Project \cup {Nothing}, NEW k \in Task \cup {Nothing},
             LastView(conn, p, k)
      PROVE  LastView(y, p, k)
  <2>1. Viewing(p, k) \in Message /\ Viewing(p, k).type = "viewing"
    BY MessageTypes
  <2>2. CASE NoneSaid(conn.toServer, "viewing")
    <3>1. NoneSaid(y.toServer, "viewing") /\ m.type # "viewing"
      BY <1>1, <2>2, NoneSaidTail
    <3>2. conn.project = p /\ conn.task = k
      BY <1>3, <2>2 DEF LastView
    <3> QED
      BY <1>2, <3>1, <3>2 DEF LastView
  <2>3. CASE ~ NoneSaid(conn.toServer, "viewing")
    <3>1. LastSaid(conn.toServer, Viewing(p, k))
      BY <1>3, <2>3 DEF LastView
    <3>2. \/ LastSaid(y.toServer, Viewing(p, k)) /\ ~ NoneSaid(y.toServer, "viewing")
          \/ m = Viewing(p, k) /\ NoneSaid(y.toServer, "viewing")
      BY <1>1, <2>1, <3>1, SaidTail
    <3>3. CASE LastSaid(y.toServer, Viewing(p, k)) /\ ~ NoneSaid(y.toServer, "viewing")
      BY <3>3 DEF LastView
    <3>4. CASE m = Viewing(p, k) /\ NoneSaid(y.toServer, "viewing")
      <4>1. y.project = p /\ y.task = k
        BY <3>4 DEF Viewing
      <4> QED
        BY <3>4, <4>1 DEF LastView
    <3> QED
      BY <3>2, <3>3, <3>4
  <2> QED
    BY <2>2, <2>3
<1>4. ASSUME NEW n \in Name, LastName(conn, n)
      PROVE  LastName(y, n)
  <2>1. Renaming(n) \in Message /\ Renaming(n).type = "rename"
    BY MessageTypes
  <2>2. CASE NoneSaid(conn.toServer, "rename")
    <3>1. NoneSaid(y.toServer, "rename") /\ m.type # "rename"
      BY <1>1, <2>2, NoneSaidTail
    <3>2. conn.name = n
      BY <1>4, <2>2 DEF LastName
    <3> QED
      BY <1>2, <3>1, <3>2 DEF LastName
  <2>3. CASE ~ NoneSaid(conn.toServer, "rename")
    <3>1. LastSaid(conn.toServer, Renaming(n))
      BY <1>4, <2>3 DEF LastName
    <3>2. \/ LastSaid(y.toServer, Renaming(n)) /\ ~ NoneSaid(y.toServer, "rename")
          \/ m = Renaming(n) /\ NoneSaid(y.toServer, "rename")
      BY <1>1, <2>1, <3>1, SaidTail
    <3>3. CASE LastSaid(y.toServer, Renaming(n)) /\ ~ NoneSaid(y.toServer, "rename")
      BY <3>3 DEF LastName
    <3>4. CASE m = Renaming(n) /\ NoneSaid(y.toServer, "rename")
      <4>1. y.name = n
        BY <3>4 DEF Renaming
      <4> QED
        BY <3>4, <4>1 DEF LastName
    <3> QED
      BY <3>2, <3>3, <3>4
  <2> QED
    BY <2>2, <2>3
<1> QED
  BY <1>3, <1>4

-----------------------------------------------------------------------------
(* Rosters. *)

\* Whatever views a project is registered with the hub.
LEMMA ViewersAre ==
  ASSUME NEW C \in Seq(Conn), NEW p \in Project,
         \A c \in DOMAIN C : C[c].at \in {"connecting", "gone"} => C[c].project = Nothing
  PROVE  {d \in {c \in DOMAIN C : C[c].at \in {"open", "broken"}} : C[d].project = p}
           = {d \in DOMAIN C : C[d].project = p}
<1> SUFFICES ASSUME NEW d \in DOMAIN C, C[d].project = p
             PROVE  C[d].at \in {"open", "broken"}
  OBVIOUS
<1>1. p # Nothing
  BY NameAssumption
<1>2. C[d] \in Conn
  OBVIOUS
<1>3. C[d].at \in {"connecting", "open", "broken", "gone"}
  BY <1>2 DEF Conn
<1> QED
  BY <1>1, <1>3

LEMMA RosterType ==
  ASSUME conns \in Seq(Conn), NEW p \in Project
  PROVE  Roster(p) \in SUBSET Card
<1> SUFFICES ASSUME NEW c \in {d \in Registered : conns[d].project = p}
             PROVE  [client |-> conns[c].tab, name |-> conns[c].name,
                     task |-> conns[c].task] \in Card
  BY DEF Roster
<1>1. c \in DOMAIN conns
  BY DEF Registered
<1>2. conns[c] \in Conn
  BY <1>1
<1> QED
  BY <1>2 DEF Conn, Card

\* A step that leaves p's viewers as they are leaves its roster as it is.
LEMMA RosterKept ==
  ASSUME ViewersRegistered, conns \in Seq(Conn), NEW p \in Project,
         ViewersRegistered', conns' \in Seq(Conn),
         \A d \in DOMAIN conns : conns[d].project = p =>
           /\ d \in DOMAIN conns' /\ conns'[d].project = p
           /\ conns'[d].tab = conns[d].tab /\ conns'[d].name = conns[d].name
           /\ conns'[d].task = conns[d].task,
         \A d \in DOMAIN conns' : conns'[d].project = p =>
           d \in DOMAIN conns /\ conns[d].project = p
  PROVE  Roster(p)' = Roster(p)
<1> DEFINE D == {d \in DOMAIN conns : conns[d].project = p}
           card(d) == [client |-> conns[d].tab, name |-> conns[d].name,
                       task |-> conns[d].task]
<1>1. Roster(p) = {card(d) : d \in D}
  <2>1. {d \in Registered : conns[d].project = p} = D
    BY ViewersAre DEF ViewersRegistered, Registered
  <2> QED
    BY <2>1 DEF Roster
<1>2. Roster(p)' = {[client |-> conns'[c].tab, name |-> conns'[c].name,
                     task |-> conns'[c].task] : c \in D}
  <2>1. {d \in Registered' : conns'[d].project = p} = {d \in DOMAIN conns' : conns'[d].project = p}
    BY ViewersAre DEF ViewersRegistered, Registered
  <2>2. {d \in DOMAIN conns' : conns'[d].project = p} = D
    OBVIOUS
  <2> QED
    BY <2>1, <2>2 DEF Roster
<1>3. \A d \in D : [client |-> conns'[d].tab, name |-> conns'[d].name,
                    task |-> conns'[d].task] = card(d)
  OBVIOUS
<1> HIDE DEF D, card
<1> QED
  BY <1>1, <1>2, <1>3

-----------------------------------------------------------------------------
(* Steps of a tab. *)

\* A tab without a connection gets one that knows nothing but its name.
LEMMA ConnectedFacts ==
  ASSUME Inv, NEW t \in Tab
  PROVE  /\ Connected(t) \in Seq(Conn)
         /\ Link(t) \in DOMAIN Connected(t) /\ Link(t) \in Nat \ {0}
         /\ DOMAIN conns \subseteq DOMAIN Connected(t)
         /\ \A d \in DOMAIN Connected(t) : d # Link(t) => d \in DOMAIN conns
         /\ \A d \in DOMAIN conns : Connected(t)[d] = conns[d]
         /\ tab[t].link # 0 => Link(t) = tab[t].link /\ Connected(t) = conns
         /\ tab[t].link = 0 => /\ Link(t) \notin DOMAIN conns
                               /\ Connected(t)[Link(t)] = NewConn(t)
                               /\ Connected(t)[Link(t)].at = "connecting"
         /\ Connected(t)[Link(t)] \in Conn
         /\ Connected(t)[Link(t)].tab = t
         /\ Connected(t)[Link(t)].at \in {"connecting", "open"}
         /\ Connected(t)[Link(t)].at = "connecting" =>
              /\ Connected(t)[Link(t)].project = Nothing
              /\ Connected(t)[Link(t)].queue = << >>
         /\ Follows(tab[t], Connected(t)[Link(t)])
<1>1. tab[t] \in TabState /\ conns \in Seq(Conn)
  BY DEF Inv, TypeOK
<1>2. CASE tab[t].link # 0
  <2>1. Link(t) = tab[t].link /\ Connected(t) = conns
    BY <1>2 DEF Link, Connected
  <2>2. /\ tab[t].link \in DOMAIN conns /\ conns[tab[t].link].tab = t
        /\ conns[tab[t].link].at \in {"connecting", "open"}
    BY <1>2 DEF Inv, TypeOK
  <2>3. Follows(tab[t], conns[tab[t].link])
    BY <1>2 DEF Inv, FollowInvariant
  <2>4. conns[tab[t].link].at = "connecting" =>
          conns[tab[t].link].project = Nothing /\ conns[tab[t].link].queue = << >>
    BY <2>2 DEF Inv, RosterInvariant, ViewersRegistered
  <2>5. conns[tab[t].link] \in Conn /\ tab[t].link \in Nat
    BY <1>1, <2>2
  <2> QED
    BY <1>1, <1>2, <2>1, <2>2, <2>3, <2>4, <2>5
<1>3. CASE tab[t].link = 0
  <2> DEFINE n == NewConn(t)
             c == Len(conns) + 1
  <2>1. Link(t) = c /\ Connected(t) = Append(conns, n)
    BY <1>3 DEF Link, Connected
  <2>2. n \in Conn
    BY <1>1 DEF NewConn, Conn, TabState
  <2>3. /\ n.tab = t /\ n.name = tab[t].name /\ n.project = Nothing
        /\ n.task = Nothing /\ n.at = "connecting" /\ n.toServer = << >>
        /\ n.queue = << >>
    BY DEF NewConn
  <2>4. n = NewConn(t)
    OBVIOUS
  <2> HIDE DEF n
  <2>5. /\ Append(conns, n) \in Seq(Conn)
        /\ c \in DOMAIN Append(conns, n) /\ c \in Nat \ {0} /\ c \notin DOMAIN conns
        /\ \A d \in DOMAIN Append(conns, n) : d # c => d \in DOMAIN conns
        /\ \A d \in DOMAIN conns : d \in DOMAIN Append(conns, n) /\ Append(conns, n)[d] = conns[d]
        /\ Append(conns, n)[c] = n
    BY <1>1, <2>2
  <2>6. Follows(tab[t], n)
    <3>1. NoneSaid(n.toServer, "viewing") /\ NoneSaid(n.toServer, "rename")
      BY <2>3 DEF NoneSaid
    <3>2. LastName(n, tab[t].name)
      BY <2>3, <3>1 DEF LastName
    <3>3. LastView(n, Nothing, Nothing)
      BY <2>3, <3>1 DEF LastView
    <3> QED
      BY <2>3, <3>2, <3>3 DEF Follows
  <2> HIDE DEF c
  <2> QED
    BY <1>3, <2>1, <2>2, <2>3, <2>4, <2>5, <2>6
<1> QED
  BY <1>2, <1>3

\* A tab goes to x and its connection, made for it if need be, to y.
OwnStep(t, x, y) ==
  LET c == Link(t)
      conn == Connected(t)[c]
  IN
  /\ x \in TabState /\ y \in Conn
  /\ conns' = [Connected(t) EXCEPT ![c] = y]
  /\ tab' = [tab EXCEPT ![t] = x]
  /\ UNCHANGED <<hands, overtaken>>
  /\ steps' \in 0..MaxSteps /\ faults' \in 0..MaxFaults
  /\ y.tab = t /\ y.loop = conn.loop /\ y.project = conn.project
  /\ y.project # Nothing => y.name = conn.name /\ y.task = conn.task
  /\ y.at \in {"connecting", "gone"} => y.project = Nothing /\ y.queue = << >>
  /\ x.link # 0 => x.link = c /\ y.at \in {"connecting", "open"} /\ Follows(x, y)
  /\ x.subscribed \/ x.loading => x.view # Nothing
  /\ x.view # Nothing => x.heard \subseteq {x.view}
  /\ \A p \in Project, R \in SUBSET Card :
       (tab[t].link # 0 /\ conn.at = "open" => UpToDate(tab[t], conn.queue, p, R))
       => (x.link # 0 /\ y.at = "open" => UpToDate(x, y.queue, p, R))

\* The rosters, the loops and the other tabs are as they were.
LEMMA LinkStep ==
  ASSUME Inv, NEW t \in Tab, NEW x, NEW y, OwnStep(t, x, y)
  PROVE  Inv'
<1> DEFINE c == Link(t)
           conn == Connected(t)[c]
<1> USE DEF OwnStep
<1> DEFINE C == Connected(t)
<1>1. /\ C \in Seq(Conn) /\ c \in DOMAIN C /\ c \in Nat \ {0}
      /\ DOMAIN conns \subseteq DOMAIN C
      /\ \A d \in DOMAIN C : d # c => d \in DOMAIN conns
      /\ \A d \in DOMAIN conns : C[d] = conns[d]
      /\ tab[t].link # 0 => c = tab[t].link /\ C = conns
      /\ tab[t].link = 0 => c \notin DOMAIN conns /\ C[c] = NewConn(t)
      /\ conn = C[c] /\ C[c].tab = t
  BY ConnectedFacts
<1>2. conns' = [C EXCEPT ![c] = y]
  OBVIOUS
<1> HIDE DEF C
<1>3. /\ conns' \in Seq(Conn) /\ DOMAIN conns' = DOMAIN C
      /\ conns'[c] = y
      /\ \A d \in DOMAIN conns : d # c => conns'[d] = conns[d]
  <2>1. C \in Seq(Conn) /\ c \in DOMAIN C /\ y \in Conn
    BY <1>1
  <2>2. /\ [C EXCEPT ![c] = y] \in Seq(Conn)
        /\ DOMAIN [C EXCEPT ![c] = y] = DOMAIN C
        /\ [C EXCEPT ![c] = y][c] = y
        /\ \A d \in DOMAIN C : d # c => [C EXCEPT ![c] = y][d] = C[d]
    BY ONLY <2>1, SeqExcept
  <2> QED
    BY <1>1, <1>2, <2>2
<1>4. tab \in [Tab -> TabState] /\ conns \in Seq(Conn)
  BY DEF Inv, TypeOK
<1>5. tab'[t] = x /\ \A u \in Tab \ {t} : tab'[u] = tab[u]
  BY <1>4
<1>6. ASSUME NEW u \in Tab \ {t}, tab[u].link # 0
      PROVE  /\ tab[u].link \in DOMAIN conns /\ tab[u].link \in DOMAIN conns'
             /\ conns'[tab[u].link] = conns[tab[u].link]
             /\ conns[tab[u].link].tab = u
             /\ conns[tab[u].link].at \in {"connecting", "open"}
  <2>1. /\ tab[u].link \in DOMAIN conns /\ conns[tab[u].link].tab = u
        /\ conns[tab[u].link].at \in {"connecting", "open"}
    BY <1>6 DEF Inv, TypeOK
  <2>2. tab[u].link # c
    BY <1>1, <2>1
  <2> QED
    BY <1>1, <1>3, <2>1, <2>2
<1>7. TypeOK'
  <2>1. tab' \in [Tab -> TabState]
    BY <1>4
  <2>2. ASSUME NEW u \in Tab, tab'[u].link # 0
        PROVE  /\ tab'[u].link \in DOMAIN conns'
               /\ conns'[tab'[u].link].tab = u
               /\ conns'[tab'[u].link].at \in {"connecting", "open"}
    BY <1>1, <1>3, <1>5, <1>6, <2>2
  <2>3. hands \in Seq(Hand)
    BY DEF Inv, TypeOK
  <2>4. Hand \subseteq Hand'
    BY <1>1, <1>3 DEF Hand
  <2>5. hands' \in Seq(Hand')
    BY <2>3, <2>4, SeqWider
  <2> QED
    BY <1>3, <2>1, <2>2, <2>5 DEF Inv, TypeOK
<1>8. FollowInvariant'
  BY <1>3, <1>5, <1>6 DEF Inv, FollowInvariant
<1>9. RosterInvariant'
  <2>1. ViewersRegistered'
    <3> SUFFICES ASSUME NEW d \in DOMAIN conns', conns'[d].at \in {"connecting", "gone"}
                 PROVE  conns'[d].project = Nothing /\ conns'[d].queue = << >>
      BY DEF ViewersRegistered
    <3>1. CASE d = c
      BY <1>3, <3>1
    <3>2. CASE d # c
      BY <1>1, <1>3, <3>2 DEF Inv, RosterInvariant, ViewersRegistered
    <3> QED
      BY <3>1, <3>2
  <2>2. ASSUME NEW p \in Project
        PROVE  Roster(p)' = Roster(p)
    <3>1. p # Nothing
      BY NameAssumption
    <3>2. c \notin DOMAIN conns => conn.project = Nothing
      BY <1>1 DEF NewConn
    <3>3. c \in DOMAIN conns => conns[c] = conn
      BY <1>1
    <3>4. \A d \in DOMAIN conns : conns[d].project = p =>
            /\ d \in DOMAIN conns' /\ conns'[d].project = p
            /\ conns'[d].tab = conns[d].tab /\ conns'[d].name = conns[d].name
            /\ conns'[d].task = conns[d].task
      BY <1>1, <1>3, <3>1, <3>3
    <3>5. \A d \in DOMAIN conns' : conns'[d].project = p =>
            d \in DOMAIN conns /\ conns[d].project = p
      BY <1>1, <1>3, <3>1, <3>2, <3>3
    <3> QED
      BY <1>3, <1>4, <2>1, <3>4, <3>5, RosterKept DEF Inv, RosterInvariant
  <2>3. ASSUME NEW p \in Project, ~ InLoop(p)'
        PROVE  ~ InLoop(p)
    <3> SUFFICES ASSUME NEW d \in DOMAIN conns, p \in ToSet(conns[d].loop) PROVE FALSE
      BY DEF InLoop
    <3>1. d \in DOMAIN conns' /\ conns'[d].loop = conns[d].loop
      BY <1>1, <1>3
    <3> QED
      BY <2>3, <3>1 DEF InLoop
  <2>4. ASSUME NEW p \in Project, ~ InLoop(p)'
        PROVE  HandsOK(p)'
    BY <2>2, <2>3, <2>4 DEF Inv, RosterInvariant, HandsOK
  <2>5. ASSUME NEW p \in Project, ~ InLoop(p)', ~ InHand(p)', p \notin overtaken', NEW u \in Tab
        PROVE  QueueOK(u, p)'
    <3>1. QueueOK(u, p) /\ QueueOK(t, p)
      <4>1. ~ InHand(p) /\ p \notin overtaken /\ ~ InLoop(p)
        BY <2>3, <2>5 DEF InHand
      <4> QED
        BY <4>1 DEF Inv, RosterInvariant
    <3>2. Roster(p) \in SUBSET Card
      BY <1>4, RosterType
    <3>3. CASE u = t
      <4>1. tab[t].link # 0 /\ conn.at = "open" => UpToDate(tab[t], conn.queue, p, Roster(p))
        BY <1>1, <3>1 DEF QueueOK
      <4>2. x.link # 0 /\ y.at = "open" => UpToDate(x, y.queue, p, Roster(p))
        BY <3>2, <4>1
      <4>3. x.link # 0 => conns'[x.link] = y
        BY <1>3
      <4> QED
        BY <1>5, <2>2, <3>3, <4>2, <4>3 DEF QueueOK
    <3>4. CASE u # t
      <4>1. tab'[u] = tab[u]
        BY <1>5, <3>4
      <4>2. tab[u].link # 0 => conns'[tab[u].link] = conns[tab[u].link]
        BY <1>6, <3>4
      <4>3. Roster(p)' = Roster(p)
        BY <2>2
      <4> QED
        BY <3>1, <4>1, <4>2, <4>3 DEF QueueOK
    <3> QED
      BY <3>3, <3>4
  <2>6. \A u \in Tab : tab'[u].view # Nothing => tab'[u].heard \subseteq {tab'[u].view}
    BY <1>5 DEF Inv, RosterInvariant
  <2> QED
    BY <2>1, <2>4, <2>5, <2>6 DEF RosterInvariant
<1> QED
  BY <1>7, <1>8, <1>9 DEF Inv

\* The bounded counters of a step.
LEMMA Counters ==
  ASSUME Inv
  PROVE  /\ User => steps' \in 0..MaxSteps /\ faults' \in 0..MaxFaults
                    /\ hands' = hands /\ overtaken' = overtaken
         /\ Quiet => steps' \in 0..MaxSteps /\ faults' \in 0..MaxFaults
         /\ Fault => steps' \in 0..MaxSteps /\ faults' \in 0..MaxFaults
BY BoundAssumption DEF User, Quiet, Fault, Inv, TypeOK

\* What a tab knows of itself.
LEMMA TabFacts ==
  ASSUME Inv, NEW t \in Tab
  PROVE  /\ tab[t] \in TabState
         /\ tab[t].subscribed \/ tab[t].loading => tab[t].view # Nothing
         /\ tab[t].view # Nothing => tab[t].heard \subseteq {tab[t].view}
BY DEF Inv, TypeOK, FollowInvariant, RosterInvariant

\* A tab that has left the rosters it heard of, or keeps them with its queue,
\* shows what it showed.
LEMMA StillUpToDate ==
  ASSUME NEW x, NEW y, NEW queue, NEW p, NEW roster,
         y.heard = {} \/ (y.heard = x.heard /\ y.shown = x.shown),
         UpToDate(x, queue, p, roster)
  PROVE  UpToDate(y, queue, p, roster)
BY DEF UpToDate

\* What a tab says last, the hub will know last.
LEMMA SaysStep ==
  ASSUME Inv, NEW t \in Tab, NEW s \in TabState, NEW m \in Message, Says(t, s, m),
         UNCHANGED <<hands, overtaken>>,
         steps' \in 0..MaxSteps, faults' \in 0..MaxFaults,
         s.subscribed \/ s.loading => s.view # Nothing,
         \/ s.heard = {}
         \/ s.heard = tab[t].heard /\ s.shown = tab[t].shown /\ s.view = tab[t].view,
         \/ /\ m.type = "viewing" /\ s.name = tab[t].name
            /\ \/ s.stray
               \/ m = Viewing(IF s.subscribed THEN s.view ELSE Nothing,
                              IF s.subscribed THEN s.task ELSE Nothing)
         \/ /\ m = Renaming(s.name)
            /\ s.stray = tab[t].stray /\ s.subscribed = tab[t].subscribed
            /\ s.view = tab[t].view /\ s.task = tab[t].task
  PROVE  Inv'
<1> DEFINE c == Link(t)
           C == Connected(t)
           conn == C[c]
           x == [s EXCEPT !.link = c]
           y == [conn EXCEPT !.toServer = Append(conn.toServer, m)]
<1>1. /\ C \in Seq(Conn) /\ c \in DOMAIN C /\ c \in Nat \ {0}
      /\ conn \in Conn /\ conn.tab = t /\ conn.at \in {"connecting", "open"}
      /\ conn.at = "connecting" => conn.project = Nothing /\ conn.queue = << >>
      /\ Follows(tab[t], conn)
      /\ tab[t].link = 0 => conn = NewConn(t)
  BY ConnectedFacts
<1>2. /\ conns' = [C EXCEPT ![c] = y] /\ tab' = [tab EXCEPT ![t] = x]
  BY <1>1 DEF Says
<1>3. /\ x \in TabState /\ x.link = c /\ x.name = s.name /\ x.stray = s.stray
      /\ x.subscribed = s.subscribed /\ x.view = s.view /\ x.task = s.task
      /\ x.loading = s.loading
      /\ x.heard = s.heard /\ x.shown = s.shown
  BY <1>1 DEF TabState
<1>4. y \in Conn
  <2>1. Append(conn.toServer, m) \in Seq(Message)
    BY <1>1, AppendFacts DEF Conn
  <2> HIDE DEF conn
  <2> QED
    BY <1>1, <2>1 DEF Conn
<1>5. /\ y.toServer = Append(conn.toServer, m) /\ y.tab = conn.tab
      /\ y.name = conn.name /\ y.project = conn.project /\ y.task = conn.task
      /\ y.at = conn.at /\ y.loop = conn.loop /\ y.queue = conn.queue
  <2> HIDE DEF conn
  <2> QED
    BY <1>1 DEF Conn
<1> HIDE DEF x, y
<1>6. Follows(x, y)
  <2>1. tab[t] \in TabState
    BY DEF Inv, TypeOK
  <2>2. /\ s.name \in Name /\ s.view \in Project \cup {Nothing} /\ s.task \in Task \cup {Nothing}
        /\ s.subscribed \in BOOLEAN /\ s.stray \in BOOLEAN
    BY DEF TabState
  <2>3. LastName(conn, tab[t].name)
    BY <1>1 DEF Follows
  <2>4. CASE m.type = "viewing" /\ s.name = tab[t].name
             /\ \/ s.stray
                \/ m = Viewing(IF s.subscribed THEN s.view ELSE Nothing,
                               IF s.subscribed THEN s.task ELSE Nothing)
    <3>1. PICK p \in Project \cup {Nothing}, k \in Task \cup {Nothing} : m = Viewing(p, k)
      BY <2>4 DEF Message, Viewing
    <3>2. LastName(y, s.name)
      BY <1>1, <1>4, <1>5, <2>2, <2>3, <2>4, <3>1, SayView
    <3>3. m = Viewing(IF s.subscribed THEN s.view ELSE Nothing,
                      IF s.subscribed THEN s.task ELSE Nothing)
            => LastView(y, IF s.subscribed THEN s.view ELSE Nothing,
                           IF s.subscribed THEN s.task ELSE Nothing)
      <4>1. \A q \in Project \cup {Nothing}, l \in Task \cup {Nothing} :
              m = Viewing(q, l) => LastView(y, q, l)
        BY <1>1, <1>4, <1>5, SayView
      <4> QED
        BY <2>2, <4>1
    <3> QED
      BY <1>3, <2>4, <3>2, <3>3 DEF Follows
  <2>5. CASE /\ m = Renaming(s.name)
             /\ s.stray = tab[t].stray /\ s.subscribed = tab[t].subscribed
             /\ s.view = tab[t].view /\ s.task = tab[t].task
    <3>1. LastName(y, s.name)
      BY <1>1, <1>4, <1>5, <2>2, <2>5, SayName
    <3>2. \A p \in Project \cup {Nothing}, k \in Task \cup {Nothing} :
            LastView(conn, p, k) => LastView(y, p, k)
      BY <1>1, <1>4, <1>5, <2>2, <2>5, SayName
    <3>3. \/ s.stray
          \/ conn.at = "connecting" /\ s.subscribed
          \/ LastView(conn, IF s.subscribed THEN s.view ELSE Nothing,
                            IF s.subscribed THEN s.task ELSE Nothing)
      BY <1>1, <2>5 DEF Follows
    <3> QED
      BY <1>3, <1>5, <2>2, <3>1, <3>2, <3>3 DEF Follows
  <2> QED
    BY <2>4, <2>5
<1>7. \A p \in Project, R \in SUBSET Card :
        (tab[t].link # 0 /\ conn.at = "open" => UpToDate(tab[t], conn.queue, p, R))
        => (x.link # 0 /\ y.at = "open" => UpToDate(x, y.queue, p, R))
  <2> SUFFICES ASSUME NEW p \in Project, NEW R \in SUBSET Card,
                      tab[t].link # 0 /\ conn.at = "open"
                        => UpToDate(tab[t], conn.queue, p, R),
                      y.at = "open"
               PROVE  UpToDate(x, y.queue, p, R)
    OBVIOUS
  <2>1. tab[t].link # 0
    BY <1>1, <1>5 DEF NewConn
  <2> QED
    BY <1>3, <1>5, <2>1, StillUpToDate
<1>8. /\ y.tab = t /\ y.loop = conn.loop /\ y.project = conn.project
      /\ y.project # Nothing => y.name = conn.name /\ y.task = conn.task
      /\ y.at \in {"connecting", "gone"} => y.project = Nothing /\ y.queue = << >>
      /\ x.link # 0 => x.link = c /\ y.at \in {"connecting", "open"} /\ Follows(x, y)
      /\ x.subscribed \/ x.loading => x.view # Nothing
      /\ x.view # Nothing => x.heard \subseteq {x.view}
  BY <1>1, <1>3, <1>5, <1>6, TabFacts
<1>9. OwnStep(t, x, y)
  BY <1>2, <1>3, <1>4, <1>7, <1>8 DEF OwnStep
<1> QED
  BY <1>9, LinkStep

LEMMA OpenProjectStep ==
  ASSUME Inv, NEW t \in Tab, NEW p \in Project, OpenProject(t, p)
  PROVE  Inv'
<1> DEFINE c == Link(t)
           conn == Connected(t)[c]
           x == [tab[t] EXCEPT !.link = c, !.view = p, !.loading = TRUE,
                               !.shown = NoRosters, !.heard = {}]
<1>1. /\ Connected(t) \in Seq(Conn) /\ c \in DOMAIN Connected(t) /\ c \in Nat \ {0}
      /\ conn \in Conn /\ conn.tab = t /\ conn.at \in {"connecting", "open"}
      /\ conn.at = "connecting" => conn.project = Nothing /\ conn.queue = << >>
      /\ Follows(tab[t], conn)
  BY ConnectedFacts
<1>2. tab[t].view = Nothing /\ conns' = Connected(t) /\ tab' = [tab EXCEPT ![t] = x] /\ User
  BY DEF OpenProject
<1>3. tab[t] \in TabState /\ ~ tab[t].subscribed
  BY <1>2, TabFacts
<1>4. /\ x \in TabState /\ x.link = c /\ x.heard = {} /\ x.view = p
      /\ x.name = tab[t].name /\ x.stray = tab[t].stray
      /\ x.subscribed = tab[t].subscribed /\ x.task = tab[t].task
  BY <1>1, <1>3 DEF TabState, NoRosters
<1>5. conns' = [Connected(t) EXCEPT ![c] = conn]
  BY <1>1, <1>2
<1> HIDE DEF x, conn
<1>6. Follows(x, conn)
  BY <1>1, <1>3, <1>4 DEF Follows
<1>7. \A q \in Project, R \in SUBSET Card :
        (tab[t].link # 0 /\ conn.at = "open" => UpToDate(tab[t], conn.queue, q, R))
        => (x.link # 0 /\ conn.at = "open" => UpToDate(x, conn.queue, q, R))
  <2> SUFFICES ASSUME NEW q \in Project, NEW R \in SUBSET Card,
                      tab[t].link # 0 /\ conn.at = "open"
                        => UpToDate(tab[t], conn.queue, q, R),
                      conn.at = "open"
               PROVE  UpToDate(x, conn.queue, q, R)
    OBVIOUS
  <2>1. tab[t].link # 0
    BY ConnectedFacts DEF conn
  <2> QED
    BY <1>4, <2>1, StillUpToDate
<1>8. OwnStep(t, x, conn)
  BY <1>1, <1>2, <1>3, <1>4, <1>5, <1>6, <1>7, Counters, NameAssumption DEF OwnStep, conn
<1> QED
  BY <1>8, LinkStep

LEMMA LeaveProjectStep ==
  ASSUME Inv, NEW t \in Tab, LeaveProject(t)
  PROVE  Inv'
<1> DEFINE p == tab[t].view
           s == [tab[t] EXCEPT !.view = Nothing, !.loading = FALSE, !.subscribed = FALSE,
                               !.task = Nothing, !.shown = NoRosters, !.heard = {},
                               !.left[p] = IF tab[t].loading THEN @ + 1 ELSE @,
                               !.stray = FALSE]
<1>1. p # Nothing /\ Says(t, s, Viewing(Nothing, Nothing)) /\ User
  BY DEF LeaveProject
<1>2. tab[t] \in TabState
  BY TabFacts
<1>3. p \in Project /\ tab[t].left \in [Project -> Nat]
  BY <1>1, <1>2 DEF TabState
<1>4. [tab[t].left EXCEPT ![p] = IF tab[t].loading THEN @ + 1 ELSE @] \in [Project -> Nat]
  BY <1>3
<1>5. /\ s \in TabState /\ s.heard = {} /\ s.view = Nothing /\ ~ s.subscribed
      /\ ~ s.loading /\ s.task = Nothing /\ s.name = tab[t].name
  BY <1>2, <1>4 DEF TabState, NoRosters
<1>6. Viewing(Nothing, Nothing) \in Message /\ Viewing(Nothing, Nothing).type = "viewing"
  BY MessageTypes
<1> HIDE DEF s
<1> QED
  BY <1>1, <1>5, <1>6, Counters, SaysStep

LEMMA RenameStep ==
  ASSUME Inv, NEW t \in Tab, NEW n \in Name, Rename(t, n)
  PROVE  Inv'
<1> DEFINE s == [tab[t] EXCEPT !.name = n]
<1>1. Says(t, s, Renaming(n)) /\ User
  BY DEF Rename
<1>2. /\ tab[t] \in TabState
      /\ tab[t].subscribed \/ tab[t].loading => tab[t].view # Nothing
  BY TabFacts
<1>3. /\ s \in TabState /\ s.heard = tab[t].heard /\ s.shown = tab[t].shown
      /\ s.view = tab[t].view /\ s.subscribed = tab[t].subscribed
      /\ s.task = tab[t].task /\ s.name = n /\ s.stray = tab[t].stray
      /\ s.subscribed = tab[t].subscribed /\ s.loading = tab[t].loading
  BY <1>2 DEF TabState
<1>4. Renaming(n) \in Message
  BY MessageTypes
<1> HIDE DEF s
<1> QED
  BY <1>1, <1>2, <1>3, <1>4, Counters, SaysStep

LEMMA SubscribeStep ==
  ASSUME Inv, NEW t \in Tab, Subscribe(t)
  PROVE  Inv'
<1> DEFINE s == [tab[t] EXCEPT !.loading = FALSE, !.subscribed = TRUE, !.stray = FALSE]
<1>1. /\ tab[t].loading /\ Says(t, s, Viewing(tab[t].view, tab[t].task)) /\ Quiet
      /\ UNCHANGED <<hands, overtaken>>
  BY DEF Subscribe
<1>2. tab[t] \in TabState /\ tab[t].view # Nothing
  BY <1>1, TabFacts
<1>3. /\ s \in TabState /\ s.heard = tab[t].heard /\ s.shown = tab[t].shown
      /\ s.view = tab[t].view /\ s.subscribed
      /\ s.task = tab[t].task /\ s.name = tab[t].name
  BY <1>2 DEF TabState
<1>4. /\ Viewing(tab[t].view, tab[t].task) \in Message
      /\ Viewing(tab[t].view, tab[t].task).type = "viewing"
  BY <1>2, MessageTypes DEF TabState
<1> HIDE DEF s
<1> QED
  BY <1>1, <1>2, <1>3, <1>4, Counters, SaysStep

LEMMA StraySubscribeStep ==
  ASSUME Inv, NEW t \in Tab, NEW p \in Project, StraySubscribe(t, p)
  PROVE  Inv'
<1> DEFINE s == [tab[t] EXCEPT !.left[p] = @ - 1, !.stray = TRUE]
<1>1. /\ tab[t].left[p] > 0 /\ Says(t, s, Viewing(p, Nothing)) /\ Quiet
      /\ UNCHANGED <<hands, overtaken>>
  BY DEF StraySubscribe
<1>2. /\ tab[t] \in TabState
      /\ tab[t].subscribed \/ tab[t].loading => tab[t].view # Nothing
  BY TabFacts
<1>3. [tab[t].left EXCEPT ![p] = @ - 1] \in [Project -> Nat]
  BY <1>1, <1>2 DEF TabState
<1>4. /\ s \in TabState /\ s.heard = tab[t].heard /\ s.shown = tab[t].shown
      /\ s.view = tab[t].view /\ s.subscribed = tab[t].subscribed
      /\ s.loading = tab[t].loading
      /\ s.task = tab[t].task /\ s.name = tab[t].name /\ s.stray
  BY <1>2, <1>3 DEF TabState
<1>5. Viewing(p, Nothing) \in Message /\ Viewing(p, Nothing).type = "viewing"
  BY MessageTypes
<1> HIDE DEF s
<1> QED
  BY <1>1, <1>2, <1>4, <1>5, Counters, SaysStep

LEMMA ConnectStep ==
  ASSUME Inv, NEW t \in Tab, Connect(t)
  PROVE  Inv'
<1> DEFINE c == Link(t)
           conn == Connected(t)[c]
           x == [tab[t] EXCEPT !.link = c]
<1>1. /\ Connected(t) \in Seq(Conn) /\ c \in DOMAIN Connected(t) /\ c \in Nat \ {0}
      /\ conn \in Conn /\ conn.tab = t /\ conn.at = "connecting"
      /\ conn.project = Nothing /\ conn.queue = << >>
      /\ Follows(tab[t], conn)
  BY ConnectedFacts DEF Connect
<1>2. /\ conns' = Connected(t) /\ tab' = [tab EXCEPT ![t] = x] /\ Quiet
      /\ UNCHANGED <<hands, overtaken>>
  BY DEF Connect
<1>3. /\ tab[t] \in TabState
      /\ tab[t].subscribed \/ tab[t].loading => tab[t].view # Nothing
      /\ tab[t].view # Nothing => tab[t].heard \subseteq {tab[t].view}
  BY TabFacts
<1>4. /\ x \in TabState /\ x.link = c /\ x.heard = tab[t].heard /\ x.view = tab[t].view
      /\ x.name = tab[t].name /\ x.stray = tab[t].stray /\ x.loading = tab[t].loading
      /\ x.subscribed = tab[t].subscribed /\ x.task = tab[t].task
  BY <1>1, <1>3 DEF TabState
<1>5. conns' = [Connected(t) EXCEPT ![c] = conn]
  BY <1>1, <1>2
<1> HIDE DEF x, conn
<1>6. Follows(x, conn)
  BY <1>1, <1>4 DEF Follows
<1>7. OwnStep(t, x, conn)
  BY <1>1, <1>2, <1>3, <1>4, <1>5, <1>6, Counters DEF OwnStep, conn
<1> QED
  BY <1>7, LinkStep

\* What has been said before the connection opened comes before what the
\* effect on `connected` says.
LEMMA OpenedStep ==
  ASSUME Inv, NEW t \in Tab, Opened(t)
  PROVE  Inv'
<1> DEFINE c == tab[t].link
           conn == conns[c]
           x == [tab[t] EXCEPT !.heard = {}, !.stray = tab[t].stray /\ ~ tab[t].subscribed]
           y == [conn EXCEPT !.at = "open", !.toServer = conn.toServer \o ConnectedEffect(t)]
<1>1. c # 0 /\ conn.at = "connecting" /\ Quiet /\ UNCHANGED <<hands, overtaken>>
  BY DEF Opened
<1>2. /\ Connected(t) = conns /\ Link(t) = c /\ c \in DOMAIN conns /\ conns \in Seq(Conn)
      /\ conn \in Conn /\ conn.tab = t
      /\ conn.project = Nothing /\ conn.queue = << >>
      /\ Follows(tab[t], conn)
  BY <1>1, ConnectedFacts
<1>3. /\ tab \in [Tab -> TabState] /\ tab[t] \in TabState
      /\ tab[t].subscribed \/ tab[t].loading => tab[t].view # Nothing
  BY TabFacts DEF Inv, TypeOK
<1>4. conns' = [conns EXCEPT ![c] = y] /\ tab' = [tab EXCEPT ![t] = x]
  BY <1>2, <1>3 DEF Opened
<1>5. /\ x \in TabState /\ x.link = c /\ x.heard = {} /\ x.view = tab[t].view
      /\ x.name = tab[t].name /\ x.loading = tab[t].loading
      /\ x.stray = (tab[t].stray /\ ~ tab[t].subscribed)
      /\ x.subscribed = tab[t].subscribed /\ x.task = tab[t].task
  BY <1>3 DEF TabState
<1>6. /\ tab[t].view \in Project \cup {Nothing} /\ tab[t].task \in Task \cup {Nothing}
      /\ tab[t].name \in Name /\ conn.toServer \in Seq(Message)
  BY <1>2, <1>3 DEF TabState, Conn
<1>7. /\ tab[t].subscribed =>
           conn.toServer \o ConnectedEffect(t)
             = Append(conn.toServer, Viewing(tab[t].view, tab[t].task))
      /\ ~ tab[t].subscribed => conn.toServer \o ConnectedEffect(t) = conn.toServer
      /\ conn.toServer \o ConnectedEffect(t) \in Seq(Message)
  <2>1. Viewing(tab[t].view, tab[t].task) \in Message
    BY <1>6, MessageTypes
  <2>2. conn.toServer \o <<Viewing(tab[t].view, tab[t].task)>>
          = Append(conn.toServer, Viewing(tab[t].view, tab[t].task))
    BY <1>6, <2>1, ConcatFacts
  <2>3. conn.toServer \o << >> = conn.toServer
    BY <1>6, <2>1, ConcatFacts
  <2>4. Append(conn.toServer, Viewing(tab[t].view, tab[t].task)) \in Seq(Message)
    BY <1>6, <2>1, AppendFacts
  <2> HIDE DEF conn
  <2> QED
    BY <1>6, <2>2, <2>3, <2>4 DEF ConnectedEffect
<1>8. /\ y \in Conn /\ y.at = "open" /\ y.tab = t /\ y.loop = conn.loop
      /\ y.toServer = conn.toServer \o ConnectedEffect(t)
      /\ y.project = Nothing /\ y.name = conn.name /\ y.task = conn.task /\ y.queue = << >>
  <2> HIDE DEF conn
  <2> QED
    BY <1>2, <1>7 DEF Conn
<1> HIDE DEF x, y, conn, c
<1>9. Follows(x, y)
  <2>1. LastName(conn, tab[t].name)
    BY <1>2 DEF Follows
  <2>2. CASE tab[t].subscribed
    <3>1. y.toServer = Append(conn.toServer, Viewing(tab[t].view, tab[t].task))
      BY <1>7, <1>8, <2>2
    <3>2. conn \in Conn /\ y \in Conn /\ y.name = conn.name
      BY <1>2, <1>8
    <3>3. LastView(y, tab[t].view, tab[t].task) /\ LastName(y, tab[t].name)
      BY <1>6, <2>1, <3>1, <3>2, SayView
    <3> QED
      BY <1>5, <2>2, <3>3 DEF Follows
  <2>3. CASE ~ tab[t].subscribed
    <3>1. y.toServer = conn.toServer
      BY <1>7, <1>8, <2>3
    <3>2. tab[t].stray \/ LastView(conn, Nothing, Nothing)
      BY <1>2, <2>3 DEF Follows
    <3>3. LastName(y, tab[t].name)
      BY <1>8, <2>1, <3>1 DEF LastName
    <3>4. LastView(conn, Nothing, Nothing) => LastView(y, Nothing, Nothing)
      BY <1>2, <1>8, <3>1 DEF LastView
    <3> QED
      BY <1>5, <2>3, <3>2, <3>3, <3>4 DEF Follows
  <2> QED
    BY <2>2, <2>3
<1>10. \A p \in Project, R \in SUBSET Card : UpToDate(x, y.queue, p, R)
  BY <1>5, <1>8 DEF UpToDate
<1>11. OwnStep(t, x, y)
  BY <1>1, <1>2, <1>3, <1>4, <1>5, <1>8, <1>9, <1>10, Counters DEF OwnStep, conn, c
<1> QED
  BY <1>11, LinkStep

\* Taking a roster from the queue, and showing it if the view is one of its
\* project or of all, keeps what is shown as true as it was.
LEMMA DeliverQueue ==
  ASSUME NEW queue \in Seq([project : Project, roster : SUBSET Card]), queue # << >>,
         NEW m, m = Head(queue), NEW x \in TabState, NEW y,
         \/ /\ y.shown = [x.shown EXCEPT ![m.project] = m.roster]
            /\ y.heard = x.heard \cup {m.project}
         \/ m.project \notin x.heard /\ y.heard = x.heard /\ y.shown = x.shown,
         NEW p \in Project, NEW R, UpToDate(x, queue, p, R)
  PROVE  UpToDate(y, Tail(queue), p, R)
<1> DEFINE rest == Tail(queue)
           mine == {i \in DOMAIN queue : queue[i].project = p}
           left == {i \in DOMAIN rest : rest[i].project = p}
<1>1. /\ m \in [project : Project, roster : SUBSET Card] /\ m = queue[1] /\ 1 \in DOMAIN queue
      /\ \A i \in DOMAIN rest : i + 1 \in DOMAIN queue /\ rest[i] = queue[i + 1]
      /\ \A i \in DOMAIN queue : i = 1 \/ i - 1 \in DOMAIN rest
      /\ DOMAIN queue \subseteq Nat \ {0}
      /\ rest \in Seq([project : Project, roster : SUBSET Card])
  <2> DEFINE S == [project : Project, roster : SUBSET Card]
  <2>1. queue \in Seq(S) /\ queue # << >> /\ m = Head(queue)
    OBVIOUS
  <2> HIDE DEF S
  <2>2. /\ m \in S /\ m = queue[1] /\ 1 \in DOMAIN queue /\ rest \in Seq(S)
        /\ \A i \in DOMAIN rest : i + 1 \in DOMAIN queue /\ rest[i] = queue[i + 1]
        /\ \A i \in DOMAIN queue : i = 1 \/ i - 1 \in DOMAIN rest
        /\ DOMAIN queue \subseteq Nat \ {0}
    BY ONLY <2>1, TailFacts
  <2> QED
    BY <2>2 DEF S
<1> SUFFICES UpToDate(y, rest, p, R)
  OBVIOUS
<1>0. DOMAIN rest \subseteq Nat \ {0}
  <2> HIDE DEF rest
  <2> QED
    BY <1>1
<1> HIDE DEF rest
<1>2. x.shown \in [Project -> SUBSET Card] /\ m.project \in Project
  BY <1>1 DEF TabState
<1>3. UpToDate(y, rest, p, R) <=> IF left = {} THEN p \in y.heard => y.shown[p] = R
                                  ELSE \E i \in left : rest[i].roster = R /\ \A j \in left : j <= i
  BY DEF UpToDate
<1>4. CASE mine = {}
  <2>1. left = {} /\ m.project # p
    BY <1>1, <1>4
  <2>2. p \in x.heard => x.shown[p] = R
    BY <1>4 DEF UpToDate
  <2>3. p \in y.heard => y.shown[p] = R
    BY <1>2, <2>1, <2>2
  <2> QED
    BY <1>3, <2>1, <2>3
<1>5. CASE mine # {}
  <2>1. PICK i \in mine : queue[i].roster = R /\ \A j \in mine : j <= i
    BY <1>5 DEF UpToDate
  <2>2. CASE i = 1
    <3>1. left = {}
      <4> SUFFICES ASSUME NEW j \in left PROVE FALSE
        OBVIOUS
      <4>1. j + 1 \in mine /\ j \in Nat \ {0}
        BY <1>0, <1>1
      <4>2. j + 1 <= 1
        BY <2>1, <2>2, <4>1
      <4> QED
        BY <4>1, <4>2
    <3>2. m.project = p /\ m.roster = R
      BY <1>1, <2>1, <2>2
    <3>3. p \in y.heard => y.shown[p] = R
      BY <1>2, <3>2
    <3> QED
      BY <1>3, <3>1, <3>3
  <2>3. CASE i # 1
    <3>1. i \in Nat /\ i - 1 \in DOMAIN rest
      BY <1>1, <2>3
    <3>2. rest[i - 1] = queue[i]
      BY <1>1, <3>1
    <3>3. i - 1 \in left /\ rest[i - 1].roster = R
      BY <2>1, <3>1, <3>2
    <3>4. \A j \in left : j <= i - 1
      <4> SUFFICES ASSUME NEW j \in left PROVE j <= i - 1
        OBVIOUS
      <4>1. j + 1 \in mine /\ j \in Nat
        BY <1>0, <1>1
      <4>2. j + 1 <= i
        BY <2>1, <4>1
      <4> QED
        BY <3>1, <4>1, <4>2
    <3> QED
      BY <1>3, <3>3, <3>4
  <2> QED
    BY <2>2, <2>3
<1> QED
  BY <1>4, <1>5

LEMMA DeliverStep ==
  ASSUME Inv, NEW t \in Tab, Deliver(t)
  PROVE  Inv'
<1> DEFINE c == tab[t].link
           conn == conns[c]
           m == Head(conn.queue)
           x == IF tab[t].view \in {Nothing, m.project}
                THEN [tab[t] EXCEPT !.shown = [tab[t].shown EXCEPT ![m.project] = m.roster],
                                    !.heard = tab[t].heard \cup {m.project}]
                ELSE tab[t]
           y == [conn EXCEPT !.queue = Tail(conn.queue)]
<1>1. c # 0 /\ conn.queue # << >> /\ Quiet /\ UNCHANGED <<hands, overtaken>>
  BY DEF Deliver
<1>2. /\ Connected(t) = conns /\ Link(t) = c /\ c \in DOMAIN conns /\ conns \in Seq(Conn)
      /\ conn \in Conn /\ conn.tab = t /\ conn.at \in {"connecting", "open"}
      /\ conn.at = "connecting" => conn.project = Nothing /\ conn.queue = << >>
      /\ Follows(tab[t], conn)
  BY <1>1, ConnectedFacts
<1>3. /\ tab \in [Tab -> TabState] /\ tab[t] \in TabState
      /\ tab[t].subscribed \/ tab[t].loading => tab[t].view # Nothing
      /\ tab[t].view # Nothing => tab[t].heard \subseteq {tab[t].view}
  BY TabFacts DEF Inv, TypeOK
<1>4. conns' = [conns EXCEPT ![c] = y] /\ tab' = [tab EXCEPT ![t] = x]
  <2>1. conns' = [conns EXCEPT ![c] = y]
    BY <1>2 DEF Deliver
  <2>2. CASE tab[t].view \in {Nothing, m.project}
    BY <1>3, <2>2 DEF Deliver
  <2>3. CASE tab[t].view \notin {Nothing, m.project}
    BY <1>3, <2>3 DEF Deliver
  <2> QED
    BY <2>1, <2>2, <2>3
<1>5. conn.queue \in Seq([project : Project, roster : SUBSET Card])
  <2> HIDE DEF conn
  <2> QED
    BY <1>2 DEF Conn
<1>6. m \in [project : Project, roster : SUBSET Card] /\ Tail(conn.queue) \in Seq([project : Project, roster : SUBSET Card])
  BY <1>1, <1>5, TailFacts
<1> HIDE DEF m
<1>7. /\ x \in TabState /\ x.link = c /\ x.view = tab[t].view
      /\ x.name = tab[t].name /\ x.loading = tab[t].loading /\ x.stray = tab[t].stray
      /\ x.subscribed = tab[t].subscribed /\ x.task = tab[t].task
      /\ x.view # Nothing => x.heard \subseteq {x.view}
      /\ \/ /\ x.shown = [tab[t].shown EXCEPT ![m.project] = m.roster]
            /\ x.heard = tab[t].heard \cup {m.project}
         \/ m.project \notin tab[t].heard /\ x.heard = tab[t].heard /\ x.shown = tab[t].shown
  <2>1. [tab[t].shown EXCEPT ![m.project] = m.roster] \in [Project -> SUBSET Card]
    BY <1>3, <1>6 DEF TabState
  <2>2. CASE tab[t].view \in {Nothing, m.project}
    BY <1>3, <1>6, <2>1, <2>2 DEF TabState
  <2>3. CASE tab[t].view \notin {Nothing, m.project}
    BY <1>3, <2>3
  <2> QED
    BY <2>2, <2>3
<1>8. /\ y \in Conn /\ y.at = conn.at /\ y.tab = t /\ y.loop = conn.loop
      /\ y.toServer = conn.toServer /\ y.queue = Tail(conn.queue)
      /\ y.project = conn.project /\ y.name = conn.name /\ y.task = conn.task
  <2> HIDE DEF conn
  <2> QED
    BY <1>2, <1>6 DEF Conn
<1> HIDE DEF x, y, conn, c
<1>9. Follows(x, y)
  BY <1>2, <1>7, <1>8 DEF Follows, LastName, LastView
<1>10. \A p \in Project, R \in SUBSET Card :
        (tab[t].link # 0 /\ conn.at = "open" => UpToDate(tab[t], conn.queue, p, R))
        => (x.link # 0 /\ y.at = "open" => UpToDate(x, y.queue, p, R))
  <2> SUFFICES ASSUME NEW p \in Project, NEW R \in SUBSET Card,
                      UpToDate(tab[t], conn.queue, p, R)
               PROVE  UpToDate(x, y.queue, p, R)
    BY <1>1, <1>8 DEF c
  <2>1. tab[t] \in TabState /\ conn.queue # << >> /\ y.queue = Tail(conn.queue)
    BY <1>1, <1>3, <1>8
  <2>2. m = Head(conn.queue)
    BY DEF m
  <2>3. \/ /\ x.shown = [tab[t].shown EXCEPT ![m.project] = m.roster]
           /\ x.heard = tab[t].heard \cup {m.project}
        \/ m.project \notin tab[t].heard /\ x.heard = tab[t].heard /\ x.shown = tab[t].shown
    BY <1>7
  <2>4. UpToDate(x, Tail(conn.queue), p, R)
    BY <1>5, <2>1, <2>2, <2>3, DeliverQueue
  <2> QED
    BY <2>1, <2>4
<1>11. OwnStep(t, x, y)
  BY <1>1, <1>2, <1>3, <1>4, <1>7, <1>8, <1>9, <1>10, Counters DEF OwnStep, conn, c
<1> QED
  BY <1>11, LinkStep

LEMMA DropStep ==
  ASSUME Inv, NEW t \in Tab, Drop(t)
  PROVE  Inv'
<1> DEFINE c == tab[t].link
           conn == conns[c]
           x == Unlinked(t)
           y == IF conn.at = "open" THEN [conn EXCEPT !.at = "broken", !.queue = << >>]
                ELSE [conn EXCEPT !.at = "gone", !.toServer = << >>, !.name = FirstName]
<1>1. c # 0 /\ Fault /\ UNCHANGED <<hands, overtaken>>
  BY DEF Drop
<1>2. /\ Connected(t) = conns /\ Link(t) = c /\ c \in DOMAIN conns /\ conns \in Seq(Conn)
      /\ conn \in Conn /\ conn.tab = t /\ conn.at \in {"connecting", "open"}
      /\ conn.at = "connecting" => conn.project = Nothing /\ conn.queue = << >>
  BY <1>1, ConnectedFacts
<1>3. /\ tab[t] \in TabState
      /\ tab[t].subscribed \/ tab[t].loading => tab[t].view # Nothing
      /\ tab[t].view # Nothing => tab[t].heard \subseteq {tab[t].view}
  BY TabFacts
<1>4. conns' = [conns EXCEPT ![c] = y] /\ tab' = [tab EXCEPT ![t] = x]
  BY <1>2 DEF Drop
<1>5. /\ x \in TabState /\ x.link = 0 /\ x.heard = tab[t].heard /\ x.view = tab[t].view
      /\ x.loading = tab[t].loading
      /\ x.subscribed = tab[t].subscribed /\ x.task = tab[t].task
  BY <1>3 DEF TabState, Unlinked
<1>6. /\ y \in Conn /\ y.tab = t /\ y.loop = conn.loop /\ y.project = conn.project
      /\ y.project # Nothing => y.name = conn.name /\ y.task = conn.task
      /\ y.at \in {"connecting", "gone"} => y.project = Nothing /\ y.queue = << >>
  <2> HIDE DEF conn
  <2> DEFINE broken == [conn EXCEPT !.at = "broken", !.queue = << >>]
             gone == [conn EXCEPT !.at = "gone", !.toServer = << >>, !.name = FirstName]
  <2>0. << >> \in Seq(Message) /\ << >> \in Seq([project : Project, roster : SUBSET Card])
    OBVIOUS
  <2>1. CASE conn.at = "open"
    <3>1. y = broken
      BY <2>1
    <3>2. /\ broken \in Conn /\ broken.tab = conn.tab /\ broken.loop = conn.loop
          /\ broken.project = conn.project /\ broken.name = conn.name
          /\ broken.task = conn.task /\ broken.at = "broken"
      BY <1>2, <2>0 DEF Conn
    <3> QED
      BY <1>2, <3>1, <3>2
  <2>2. CASE conn.at # "open"
    <3>1. y = gone
      BY <2>2
    <3>2. /\ gone \in Conn /\ gone.tab = conn.tab /\ gone.loop = conn.loop
          /\ gone.project = conn.project /\ gone.queue = conn.queue
      BY <1>2, <2>0, NameAssumption DEF Conn
    <3> QED
      BY <1>2, <2>2, <3>1, <3>2
  <2> QED
    BY <2>1, <2>2
<1> HIDE DEF x, y
<1>7. OwnStep(t, x, y)
  BY <1>1, <1>2, <1>3, <1>4, <1>5, <1>6, Counters DEF OwnStep
<1> QED
  BY <1>7, LinkStep

\* What a tab does without a word: the hub would be told the same of it.
LEMMA SilentStep ==
  ASSUME Inv, NEW t \in Tab, NEW x \in TabState, tab' = [tab EXCEPT ![t] = x],
         UNCHANGED <<conns, hands, overtaken>>,
         steps' \in 0..MaxSteps, faults' \in 0..MaxFaults,
         x.link = tab[t].link, x.view = tab[t].view, x.subscribed = tab[t].subscribed,
         x.name = tab[t].name, x.stray = tab[t].stray,
         x.heard = tab[t].heard, x.shown = tab[t].shown,
         x.loading => x.view # Nothing,
         x.subscribed => x.task = tab[t].task
  PROVE  Inv'
<1>1. tab \in [Tab -> TabState] /\ tab' \in [Tab -> TabState]
  BY DEF Inv, TypeOK
<1>2. ASSUME NEW u \in Tab
      PROVE  /\ tab'[u].link = tab[u].link /\ tab'[u].view = tab[u].view
             /\ tab'[u].subscribed = tab[u].subscribed
             /\ tab'[u].subscribed => tab'[u].task = tab[u].task
             /\ tab'[u].name = tab[u].name /\ tab'[u].stray = tab[u].stray
             /\ tab'[u].heard = tab[u].heard /\ tab'[u].shown = tab[u].shown
             /\ tab'[u].subscribed \/ tab'[u].loading => tab'[u].view # Nothing
  <2>1. tab'[u] = IF u = t THEN x ELSE tab[u]
    BY <1>1
  <2> QED
    BY <2>1, TabFacts
<1>3. TypeOK'
  BY <1>1, <1>2 DEF Inv, TypeOK, Hand
<1>4. FollowInvariant'
  <2> SUFFICES ASSUME NEW u \in Tab
               PROVE  /\ tab'[u].subscribed \/ tab'[u].loading => tab'[u].view # Nothing
                      /\ tab'[u].link # 0 => Follows(tab'[u], conns'[tab'[u].link])
    BY DEF FollowInvariant
  <2>1. tab[u].link # 0 => Follows(tab[u], conns[tab[u].link])
    BY DEF Inv, FollowInvariant
  <2> QED
    BY <1>2, <2>1 DEF Follows
<1>5. \A p \in Project : /\ InLoop(p)' = InLoop(p) /\ InHand(p)' = InHand(p)
                         /\ Roster(p)' = Roster(p) /\ HandsOK(p)' = HandsOK(p)
  BY DEF InLoop, InHand, Roster, Registered, HandsOK
<1>6. ASSUME NEW u \in Tab, NEW p \in Project, QueueOK(u, p)
      PROVE  QueueOK(u, p)'
  <2>1. tab[u].link # 0 /\ conns[tab[u].link].at = "open"
          => UpToDate(tab'[u], conns[tab[u].link].queue, p, Roster(p))
    BY <1>2, <1>6, StillUpToDate DEF QueueOK
  <2>2. conns' = conns /\ tab'[u].link = tab[u].link /\ Roster(p)' = Roster(p)
    BY <1>2, <1>5
  <2> QED
    BY <2>1, <2>2 DEF QueueOK
<1>7. RosterInvariant'
  BY <1>2, <1>5, <1>6 DEF Inv, RosterInvariant, ViewersRegistered
<1> QED
  BY <1>3, <1>4, <1>7 DEF Inv

LEMMA SelectTaskStep ==
  ASSUME Inv, NEW t \in Tab, NEW k \in Task \cup {Nothing}, SelectTask(t, k)
  PROVE  Inv'
<1>1. tab[t] \in TabState /\ User
  BY TabFacts DEF SelectTask
<1>2. CASE tab[t].subscribed
  <2> DEFINE s == [tab[t] EXCEPT !.task = k, !.stray = FALSE]
  <2>1. Says(t, s, Viewing(tab[t].view, k)) /\ tab[t].view # Nothing
    BY <1>2, TabFacts DEF SelectTask
  <2>2. /\ s \in TabState /\ s.heard = tab[t].heard /\ s.shown = tab[t].shown
        /\ s.view = tab[t].view /\ s.subscribed = tab[t].subscribed
        /\ s.task = k /\ s.name = tab[t].name
    BY <1>1 DEF TabState
  <2>3. Viewing(tab[t].view, k) \in Message /\ Viewing(tab[t].view, k).type = "viewing"
    BY <1>1, MessageTypes DEF TabState
  <2> HIDE DEF s
  <2> QED
    BY <1>1, <1>2, <2>1, <2>2, <2>3, Counters, SaysStep
<1>3. CASE ~ tab[t].subscribed
  <2> DEFINE x == [tab[t] EXCEPT !.task = k]
  <2>1. tab' = [tab EXCEPT ![t] = x] /\ conns' = conns /\ tab[t].view # Nothing
    BY <1>3 DEF SelectTask
  <2>2. /\ x \in TabState /\ x.link = tab[t].link /\ x.view = tab[t].view
        /\ x.subscribed = tab[t].subscribed /\ x.name = tab[t].name
        /\ x.stray = tab[t].stray /\ x.heard = tab[t].heard /\ x.shown = tab[t].shown
    BY <1>1 DEF TabState
  <2> HIDE DEF x
  <2> QED
    BY <1>1, <1>3, <2>1, <2>2, Counters, SilentStep DEF User
<1> QED
  BY <1>2, <1>3

\* A refresh that fails, or is asked for again.
LEMMA LoadingStep ==
  ASSUME Inv, NEW t \in Tab, RefreshFails(t) \/ RefreshAgain(t)
  PROVE  Inv'
<1>1. PICK b \in BOOLEAN :
        tab' = [tab EXCEPT ![t] = [tab[t] EXCEPT !.loading = b]]
  BY DEF RefreshFails, RefreshAgain
<1> DEFINE x == [tab[t] EXCEPT !.loading = b]
<1>2. /\ UNCHANGED <<conns, hands, overtaken>> /\ tab[t].view # Nothing
      /\ steps' \in 0..MaxSteps /\ faults' \in 0..MaxFaults
  BY Counters, TabFacts DEF RefreshFails, RefreshAgain
<1>3. /\ x \in TabState /\ x.link = tab[t].link /\ x.view = tab[t].view
      /\ x.subscribed = tab[t].subscribed /\ x.name = tab[t].name
      /\ x.stray = tab[t].stray /\ x.heard = tab[t].heard /\ x.shown = tab[t].shown
      /\ x.task = tab[t].task
  BY TabFacts DEF TabState
<1> HIDE DEF x
<1> QED
  BY <1>1, <1>2, <1>3, SilentStep DEF x

-----------------------------------------------------------------------------
(* Steps of the hub. *)

\* The loop of connection c leaves it as y.
HubStep(c, y) ==
  /\ c \in DOMAIN conns /\ y \in Conn
  /\ conns' = [conns EXCEPT ![c] = y]
  /\ UNCHANGED <<tab, overtaken>> /\ Quiet
  /\ y.tab = conns[c].tab
  /\ \/ y.at = conns[c].at /\ y.queue = conns[c].queue
     \/ conns[c].at = "broken" /\ y.at = "gone"
  /\ y.at \in {"connecting", "gone"} => y.project = Nothing /\ y.queue = << >>
  /\ \A t \in Tab : Follows(tab[t], conns[c]) /\ y.at # "gone" => Follows(tab[t], y)

LEMMA HubStepFacts ==
  ASSUME Inv, NEW c, NEW y, HubStep(c, y)
  PROVE  /\ conns \in Seq(Conn) /\ conns' \in Seq(Conn) /\ DOMAIN conns' = DOMAIN conns
         /\ conns'[c] = y
         /\ \A d \in DOMAIN conns : d # c => conns'[d] = conns[d]
         /\ \A t \in Tab : tab[t].link # 0 =>
              /\ tab[t].link \in DOMAIN conns
              /\ tab[t].link = c => y.at = conns[c].at /\ y.queue = conns[c].queue
              /\ conns'[tab[t].link].at = conns[tab[t].link].at
              /\ conns'[tab[t].link].queue = conns[tab[t].link].queue
         /\ Hand' = Hand
         /\ FollowInvariant' /\ ViewersRegistered'
<1>1. conns \in Seq(Conn) /\ c \in DOMAIN conns /\ y \in Conn
  BY DEF Inv, TypeOK, HubStep
<1>2. /\ [conns EXCEPT ![c] = y] \in Seq(Conn)
      /\ DOMAIN [conns EXCEPT ![c] = y] = DOMAIN conns
      /\ [conns EXCEPT ![c] = y][c] = y
      /\ \A d \in DOMAIN conns : d # c => [conns EXCEPT ![c] = y][d] = conns[d]
  BY ONLY <1>1, SeqExcept
<1>3. /\ conns' \in Seq(Conn) /\ DOMAIN conns' = DOMAIN conns /\ conns'[c] = y
      /\ \A d \in DOMAIN conns : d # c => conns'[d] = conns[d]
  BY <1>2 DEF HubStep
<1>4. ASSUME NEW t \in Tab, tab[t].link # 0
      PROVE  /\ tab[t].link \in DOMAIN conns
             /\ conns[tab[t].link].at \in {"connecting", "open"}
             /\ tab[t].link = c => y.at = conns[c].at /\ y.queue = conns[c].queue
             /\ conns'[tab[t].link].at = conns[tab[t].link].at
             /\ conns'[tab[t].link].queue = conns[tab[t].link].queue
  <2>1. /\ tab[t].link \in DOMAIN conns
        /\ conns[tab[t].link].at \in {"connecting", "open"}
    BY <1>4 DEF Inv, TypeOK
  <2>2. tab[t].link = c => y.at = conns[c].at /\ y.queue = conns[c].queue
    BY <2>1 DEF HubStep
  <2> QED
    BY <1>3, <2>1, <2>2
<1>5. FollowInvariant'
  <2>1. ASSUME NEW t \in Tab, tab[t].link # 0
        PROVE  Follows(tab[t], conns'[tab[t].link])
    <3>1. Follows(tab[t], conns[tab[t].link])
      BY <2>1 DEF Inv, FollowInvariant
    <3>2. CASE tab[t].link = c
      BY <1>3, <1>4, <2>1, <3>1, <3>2 DEF HubStep
    <3>3. CASE tab[t].link # c
      BY <1>3, <1>4, <2>1, <3>1, <3>3
    <3> QED
      BY <3>2, <3>3
  <2>2. tab' = tab
    BY DEF HubStep
  <2> QED
    BY <2>1, <2>2 DEF Inv, FollowInvariant
<1>6. ViewersRegistered'
  <2> SUFFICES ASSUME NEW d \in DOMAIN conns, conns'[d].at \in {"connecting", "gone"}
               PROVE  conns'[d].project = Nothing /\ conns'[d].queue = << >>
    BY <1>3 DEF ViewersRegistered
  <2>1. CASE d = c
    BY <1>3, <2>1 DEF HubStep
  <2>2. CASE d # c
    BY <1>3, <2>2 DEF Inv, RosterInvariant, ViewersRegistered
  <2> QED
    BY <2>1, <2>2
<1>7. Hand' = Hand
  BY <1>3 DEF Hand
<1> QED
  BY <1>1, <1>3, <1>4, <1>5, <1>6, <1>7

LEMMA HubStepTypes ==
  ASSUME Inv, NEW c, NEW y, HubStep(c, y), hands' \in Seq(Hand),
         \A i, j \in DOMAIN hands' : hands'[i].by = hands'[j].by => i = j
  PROVE  TypeOK'
<1>1. tab' = tab /\ overtaken' = overtaken /\ Quiet
  BY DEF HubStep
<1>2. /\ conns' \in Seq(Conn) /\ DOMAIN conns' = DOMAIN conns /\ Hand' = Hand
      /\ conns'[c] = y
      /\ \A d \in DOMAIN conns : d # c => conns'[d] = conns[d]
  BY HubStepFacts
<1>3. ASSUME NEW t \in Tab, tab[t].link # 0
      PROVE  /\ tab[t].link \in DOMAIN conns'
             /\ conns'[tab[t].link].tab = t
             /\ conns'[tab[t].link].at \in {"connecting", "open"}
  <2>1. /\ tab[t].link \in DOMAIN conns /\ conns[tab[t].link].tab = t
        /\ conns[tab[t].link].at \in {"connecting", "open"}
    BY <1>3 DEF Inv, TypeOK
  <2>2. conns'[tab[t].link].at = conns[tab[t].link].at
    BY <1>3, HubStepFacts
  <2>3. conns'[tab[t].link].tab = conns[tab[t].link].tab
    BY <1>2, <2>1 DEF HubStep
  <2> QED
    BY <1>2, <2>1, <2>2, <2>3
<1>4. steps' \in 0..MaxSteps /\ faults' \in 0..MaxFaults
  BY <1>1, Counters
<1> QED
  BY <1>1, <1>2, <1>3, <1>4 DEF Inv, TypeOK

\* A message read, or a connection given up: every project whose roster may
\* have changed is one the loop has still to tell about.
LEMMA HubChange ==
  ASSUME Inv, NEW c, NEW y, HubStep(c, y), hands' = hands,
         conns[c].loop = << >>,
         \A p \in Project : conns[c].project = p \/ y.project = p => p \in ToSet(y.loop)
  PROVE  Inv'
<1>1. tab' = tab /\ overtaken' = overtaken /\ c \in DOMAIN conns
  BY DEF HubStep
<1>2. /\ conns \in Seq(Conn) /\ conns' \in Seq(Conn) /\ DOMAIN conns' = DOMAIN conns
      /\ conns'[c] = y
      /\ \A d \in DOMAIN conns : d # c => conns'[d] = conns[d]
      /\ FollowInvariant' /\ ViewersRegistered'
  BY HubStepFacts
<1>3. TypeOK'
  BY HubStepTypes DEF Inv, TypeOK
<1>4. ASSUME NEW p \in Project, ~ InLoop(p)'
      PROVE  /\ ~ InLoop(p) /\ Roster(p)' = Roster(p) /\ HandsOK(p)'
             /\ ~ InHand(p)' /\ p \notin overtaken' => \A t \in Tab : QueueOK(t, p)'
  <2>1. p \notin ToSet(y.loop)
    BY <1>1, <1>2, <1>4 DEF InLoop
  <2>2. ~ InLoop(p)
    <3> SUFFICES ASSUME NEW d \in DOMAIN conns, p \in ToSet(conns[d].loop) PROVE FALSE
      BY DEF InLoop
    <3>1. d # c
      BY DEF ToSet
    <3> QED
      BY <1>2, <1>4, <3>1 DEF InLoop
  <2>3. Roster(p)' = Roster(p)
    <3>1. conns[c].project # p /\ y.project # p
      BY <2>1
    <3>2. \A d \in DOMAIN conns : conns[d].project = p =>
            /\ d \in DOMAIN conns' /\ conns'[d].project = p
            /\ conns'[d].tab = conns[d].tab /\ conns'[d].name = conns[d].name
            /\ conns'[d].task = conns[d].task
      BY <1>2, <3>1
    <3>3. \A d \in DOMAIN conns' : conns'[d].project = p =>
            d \in DOMAIN conns /\ conns[d].project = p
      BY <1>2, <3>1
    <3> QED
      BY <1>2, <3>2, <3>3, RosterKept DEF Inv, RosterInvariant
  <2>4. HandsOK(p)'
    BY <2>2, <2>3 DEF Inv, RosterInvariant, HandsOK
  <2>5. ASSUME ~ InHand(p)', p \notin overtaken', NEW t \in Tab
        PROVE  QueueOK(t, p)'
    <3>1. QueueOK(t, p)
      BY <1>1, <2>2, <2>5 DEF Inv, RosterInvariant, InHand
    <3>2. tab[t].link # 0 =>
            /\ conns'[tab[t].link].at = conns[tab[t].link].at
            /\ conns'[tab[t].link].queue = conns[tab[t].link].queue
      BY HubStepFacts
    <3> QED
      BY <1>1, <2>3, <3>1, <3>2 DEF QueueOK
  <2> QED
    BY <2>2, <2>3, <2>4, <2>5
<1>5. RosterInvariant'
  BY <1>1, <1>2, <1>4 DEF Inv, RosterInvariant
<1> QED
  BY <1>2, <1>3, <1>5 DEF Inv

\* The projects a loop tells about are those whose rosters may have changed.
LEMMA ChangedIs ==
  ASSUME NEW old \in Project \cup {Nothing}, NEW new \in Project \cup {Nothing}
  PROVE  /\ Changed(old, new) \in Seq(Project)
         /\ ToSet(Changed(old, new)) = {old, new} \ {Nothing}
<1>1. Nothing \notin Project
  BY NameAssumption
<1>2. CASE old \notin {Nothing, new} /\ new # Nothing
  <2> DEFINE s == Append(<<old>>, new)
  <2>1. <<old>> \in Seq(Project) /\ new \in Project
    BY <1>2
  <2>2. Changed(old, new) = s
    BY <1>2, <2>1, ConcatFacts DEF Changed
  <2>3. s \in Seq(Project) /\ DOMAIN s = {1, 2} /\ s[1] = old /\ s[2] = new
    BY <2>1
  <2> HIDE DEF s
  <2>4. ToSet(s) = {old, new}
    BY <2>3 DEF ToSet
  <2> QED
    BY <1>2, <2>2, <2>3, <2>4
<1>3. CASE old \notin {Nothing, new} /\ new = Nothing
  <2>1. Changed(old, new) = <<old>>
    BY <1>3 DEF Changed
  <2>2. ToSet(<<old>>) = {old}
    BY DEF ToSet
  <2> QED
    BY <1>3, <2>1, <2>2
<1>4. CASE old \in {Nothing, new} /\ new # Nothing
  <2>1. Changed(old, new) = <<new>>
    BY <1>4 DEF Changed
  <2>2. ToSet(<<new>>) = {new}
    BY DEF ToSet
  <2> QED
    BY <1>4, <2>1, <2>2
<1>5. CASE old \in {Nothing, new} /\ new = Nothing
  <2>1. Changed(old, new) = << >>
    BY <1>5 DEF Changed
  <2>2. ToSet(<< >>) = {}
    BY DEF ToSet
  <2> QED
    BY <1>5, <2>1, <2>2
<1> QED
  BY <1>2, <1>3, <1>4, <1>5

LEMMA ReadStep ==
  ASSUME Inv, NEW c \in DOMAIN conns, Read(c)
  PROVE  Inv'
<1> DEFINE conn == conns[c]
           m == Head(conn.toServer)
           rest == [conn EXCEPT !.toServer = Tail(conn.toServer)]
           y == IF m.type = "viewing" THEN SetViewing(rest, m) ELSE SetName(rest, m)
<1>1. /\ conn.toServer # << >> /\ conn.loop = << >> /\ conn.at \in {"open", "broken"}
      /\ conns' = [conns EXCEPT ![c] = y] /\ hands' = hands
      /\ UNCHANGED <<tab, overtaken>> /\ Quiet
  BY DEF Read, Idle, Registered
<1>2. conn \in Conn
  BY DEF Inv, TypeOK
<1> HIDE DEF conn
<1>3. m \in Message /\ Tail(conn.toServer) \in Seq(Message)
  BY <1>1, <1>2, TailFacts DEF Conn
<1>4. /\ m.type \in {"viewing", "rename"}
      /\ m.type = "viewing" => m.project \in Project \cup {Nothing} /\ m.task \in Task \cup {Nothing}
      /\ m.type = "rename" => m.name \in Name
  BY <1>3 DEF Message
<1>5. /\ rest \in Conn /\ rest.toServer = Tail(conn.toServer) /\ rest.project = conn.project
      /\ rest.task = conn.task /\ rest.name = conn.name /\ rest.tab = conn.tab
      /\ rest.at = conn.at /\ rest.queue = conn.queue
  BY <1>2, <1>3 DEF Conn
<1>6. conn.project \in Project \cup {Nothing}
  BY <1>2 DEF Conn
<1> HIDE DEF m, rest
<1>7. /\ y \in Conn /\ y.toServer = Tail(conn.toServer) /\ y.tab = conn.tab
      /\ y.at = conn.at /\ y.queue = conn.queue
      /\ m.type = "viewing" =>
           y.project = m.project /\ y.task = m.task /\ y.name = conn.name
      /\ m.type = "rename" =>
           y.name = m.name /\ y.project = conn.project /\ y.task = conn.task
      /\ ToSet(y.loop) = {conn.project, y.project} \ {Nothing}
  <2>1. CASE m.type = "viewing"
    <3> DEFINE loop == Changed(conn.project, m.project)
    <3>1. loop \in Seq(Project) /\ ToSet(loop) = {conn.project, m.project} \ {Nothing}
      BY <1>4, <1>6, <2>1, ChangedIs
    <3>2. y = [rest EXCEPT !.project = m.project, !.task = m.task, !.loop = loop]
      BY <1>5, <2>1 DEF SetViewing
    <3> HIDE DEF y, loop
    <3> QED
      BY <1>4, <1>5, <2>1, <3>1, <3>2 DEF Conn
  <2>2. CASE m.type = "rename"
    <3> DEFINE loop == Changed(Nothing, conn.project)
    <3>1. loop \in Seq(Project) /\ ToSet(loop) = {Nothing, conn.project} \ {Nothing}
      BY <1>6, ChangedIs
    <3>2. y = [rest EXCEPT !.name = m.name, !.loop = loop]
      BY <1>5, <2>2 DEF SetName
    <3> HIDE DEF y, loop
    <3> QED
      BY <1>4, <1>5, <2>2, <3>1, <3>2 DEF Conn
  <2> QED
    BY <1>4, <2>1, <2>2
<1> HIDE DEF y
<1>8. ASSUME NEW t \in Tab, Follows(tab[t], conn)
      PROVE  Follows(tab[t], y)
  <2>1. tab[t] \in TabState
    BY TabFacts
  <2>2. /\ tab[t].name \in Name /\ tab[t].view \in Project \cup {Nothing}
        /\ tab[t].task \in Task \cup {Nothing}
    BY <2>1 DEF TabState
  <2>3. LastName(conn, tab[t].name) => LastName(y, tab[t].name)
    BY <1>1, <1>2, <1>7, <2>2, ReadMessage DEF m
  <2>4. \A p \in Project \cup {Nothing}, k \in Task \cup {Nothing} :
          LastView(conn, p, k) => LastView(y, p, k)
    BY <1>1, <1>2, <1>7, ReadMessage DEF m
  <2> QED
    BY <1>7, <1>8, <2>2, <2>3, <2>4 DEF Follows
<1>9. HubStep(c, y)
  BY <1>1, <1>7, <1>8 DEF HubStep, conn
<1>10. \A p \in Project : conn.project = p \/ y.project = p => p \in ToSet(y.loop)
  BY <1>7, NameAssumption
<1> QED
  BY <1>1, <1>9, <1>10, HubChange DEF conn

LEMMA UnregisterStep ==
  ASSUME Inv, NEW c \in DOMAIN conns, Unregister(c)
  PROVE  Inv'
<1> DEFINE conn == conns[c]
           loop == Changed(conn.project, Nothing)
           y == [NewConn(conn.tab) EXCEPT !.name = FirstName, !.at = "gone", !.loop = loop]
<1>1. /\ conn.at = "broken" /\ conn.loop = << >> /\ hands' = hands
      /\ conns' = [conns EXCEPT ![c] = y]
      /\ UNCHANGED <<tab, overtaken>> /\ Quiet
  BY DEF Unregister, Idle
<1>2. conn \in Conn
  BY DEF Inv, TypeOK
<1>3. conn.tab \in Tab /\ conn.project \in Project \cup {Nothing}
  BY <1>2 DEF Conn
<1>4. loop \in Seq(Project) /\ ToSet(loop) = {conn.project, Nothing} \ {Nothing}
  BY <1>3, ChangedIs
<1> HIDE DEF loop, conn
<1>5. << >> \in Seq(Message) /\ << >> \in Seq([project : Project, roster : SUBSET Card])
  OBVIOUS
<1>6. /\ y \in Conn /\ y.tab = conn.tab /\ y.at = "gone" /\ y.project = Nothing
      /\ y.queue = << >> /\ y.loop = loop
  BY <1>3, <1>4, <1>5, NameAssumption DEF NewConn, Conn
<1> HIDE DEF y
<1>7. HubStep(c, y)
  BY <1>1, <1>6 DEF HubStep, conn
<1>8. \A p \in Project : conn.project = p \/ y.project = p => p \in ToSet(y.loop)
  BY <1>4, <1>6, NameAssumption
<1> QED
  BY <1>1, <1>7, <1>8, HubChange DEF conn

\* The roster read is the true one, and it is read last.
LEMMA ReadRosterStep ==
  ASSUME Inv, NEW c \in DOMAIN conns, ReadRoster(c)
  PROVE  Inv'
<1> DEFINE conn == conns[c]
           p == Head(conn.loop)
           hand == [by |-> c, project |-> p, roster |-> Roster(p), late |-> FALSE]
           y == [conn EXCEPT !.loop = Tail(conn.loop)]
<1>1. /\ conn.loop # << >> /\ ~ Sending(c) /\ hands' = Append(hands, hand)
      /\ conns' = [conns EXCEPT ![c] = y]
      /\ UNCHANGED <<tab, overtaken>> /\ Quiet
  BY DEF ReadRoster
<1>2. conn \in Conn /\ conns \in Seq(Conn) /\ hands \in Seq(Hand)
  BY DEF Inv, TypeOK
<1>3. conn.loop \in Seq(Project)
  BY <1>2 DEF Conn
<1>4. /\ p \in Project /\ Tail(conn.loop) \in Seq(Project) /\ p \in ToSet(conn.loop)
      /\ \A q \in Project : q # p /\ q \in ToSet(conn.loop) => q \in ToSet(Tail(conn.loop))
  <2>1. p \in Project /\ p = conn.loop[1] /\ 1 \in DOMAIN conn.loop /\ Tail(conn.loop) \in Seq(Project)
    BY <1>1, <1>3, TailFacts
  <2>2. ASSUME NEW q \in Project, q # p, q \in ToSet(conn.loop)
        PROVE  q \in ToSet(Tail(conn.loop))
    <3>1. PICK i \in DOMAIN conn.loop : conn.loop[i] = q
      BY <2>2 DEF ToSet
    <3>2. i # 1 /\ i \in Nat
      BY <1>3, <2>1, <2>2, <3>1
    <3>3. /\ \A j \in DOMAIN Tail(conn.loop) : Tail(conn.loop)[j] = conn.loop[j + 1]
          /\ \A j \in DOMAIN conn.loop : j = 1 \/ j - 1 \in DOMAIN Tail(conn.loop)
      <4> HIDE DEF conn
      <4> QED
        BY <1>1, <1>3, TailFacts
    <3>4. i - 1 \in DOMAIN Tail(conn.loop) /\ (i - 1) + 1 = i
      BY <3>2, <3>3
    <3> QED
      BY <3>1, <3>3, <3>4 DEF ToSet
  <2> QED
    BY <2>1, <2>2 DEF ToSet
<1>5. hand \in Hand
  BY <1>2, <1>4, RosterType DEF Hand
<1> HIDE DEF conn, p
<1>6. /\ y \in Conn /\ y.tab = conn.tab /\ y.at = conn.at /\ y.project = conn.project
      /\ y.queue = conn.queue /\ y.loop = Tail(conn.loop) /\ y.name = conn.name
      /\ y.task = conn.task /\ y.toServer = conn.toServer
  BY <1>2, <1>4 DEF Conn
<1> HIDE DEF y
<1>7. HubStep(c, y)
  <2>1. y.at \in {"connecting", "gone"} => y.project = Nothing /\ y.queue = << >>
    BY <1>6 DEF Inv, RosterInvariant, ViewersRegistered, conn
  <2>2. \A t \in Tab : Follows(tab[t], conn) => Follows(tab[t], y)
    BY <1>6 DEF Follows, LastName, LastView
  <2> QED
    BY <1>1, <1>6, <2>1, <2>2 DEF HubStep, conn
<1>8. /\ tab' = tab /\ overtaken' = overtaken /\ conns' \in Seq(Conn)
      /\ DOMAIN conns' = DOMAIN conns /\ conns'[c] = y
      /\ \A d \in DOMAIN conns : d # c => conns'[d] = conns[d]
      /\ FollowInvariant' /\ ViewersRegistered' /\ Hand' = Hand
  BY <1>1, <1>7, HubStepFacts
<1>9. /\ hands' \in Seq(Hand)
      /\ DOMAIN hands' = DOMAIN hands \cup {Len(hands) + 1}
      /\ hands'[Len(hands) + 1] = hand
      /\ \A i \in DOMAIN hands : hands'[i] = hands[i] /\ i <= Len(hands)
      /\ DOMAIN hands = 1..Len(hands) /\ Len(hands) \in Nat
  BY <1>1, <1>2, <1>5, AppendFacts
<1>10. TypeOK'
  <2>1. \A i \in DOMAIN hands : hands[i].by # c
    BY <1>1 DEF Sending
  <2>2. \A i, j \in DOMAIN hands : hands[i].by = hands[j].by => i = j
    BY DEF Inv, TypeOK
  <2>3. \A i, j \in DOMAIN hands' : hands'[i].by = hands'[j].by => i = j
    BY <1>9, <2>1, <2>2
  <2> QED
    BY <1>7, <1>9, <2>3, HubStepTypes
<1>11. ASSUME NEW q \in Project
       PROVE  Roster(q)' = Roster(q)
  <2>1. \A d \in DOMAIN conns : conns[d].project = q =>
          /\ d \in DOMAIN conns' /\ conns'[d].project = q
          /\ conns'[d].tab = conns[d].tab /\ conns'[d].name = conns[d].name
          /\ conns'[d].task = conns[d].task
    BY <1>6, <1>8 DEF conn
  <2>2. \A d \in DOMAIN conns' : conns'[d].project = q =>
          d \in DOMAIN conns /\ conns[d].project = q
    BY <1>6, <1>8 DEF conn
  <2> QED
    BY <1>2, <1>8, <2>1, <2>2, RosterKept DEF Inv, RosterInvariant
<1>12. ASSUME NEW q \in Project, ~ InLoop(q)', q # p
       PROVE  ~ InLoop(q)
  <2> SUFFICES ASSUME NEW d \in DOMAIN conns, q \in ToSet(conns[d].loop) PROVE FALSE
    BY DEF InLoop
  <2>1. q \in ToSet(conns'[d].loop)
    BY <1>4, <1>6, <1>8, <1>12 DEF conn
  <2> QED
    BY <1>8, <1>12, <2>1 DEF InLoop
<1>13. ASSUME NEW q \in Project, ~ InLoop(q)'
       PROVE  HandsOK(q)'
  <2> SUFFICES ASSUME NEW i \in DOMAIN hands', hands'[i].project = q
               PROVE  \/ hands'[i].roster = Roster(q) \/ hands'[i].late
                      \/ \E j \in DOMAIN hands' :
                           j > i /\ hands'[j].project = q /\ hands'[j].roster = Roster(q)
    BY <1>11 DEF HandsOK
  <2>1. CASE i = Len(hands) + 1
    BY <1>9, <2>1
  <2>2. CASE i \in DOMAIN hands /\ q = p
    <3>1. Len(hands) + 1 > i
      BY <1>9, <2>2
    <3> QED
      BY <1>9, <2>2, <3>1
  <2>3. CASE i \in DOMAIN hands /\ q # p
    <3>1. HandsOK(q)
      BY <1>12, <1>13, <2>3 DEF Inv, RosterInvariant
    <3> QED
      BY <1>9, <2>3, <3>1 DEF HandsOK
  <2> QED
    BY <1>9, <2>1, <2>2, <2>3
<1>14. ASSUME NEW q \in Project, ~ InLoop(q)', ~ InHand(q)', q \notin overtaken', NEW t \in Tab
       PROVE  QueueOK(t, q)'
  <2>1. q # p
    BY <1>9, <1>14 DEF InHand
  <2>2. ~ InHand(q)
    BY <1>9, <1>14 DEF InHand
  <2>3. QueueOK(t, q)
    BY <1>8, <1>12, <1>14, <2>1, <2>2 DEF Inv, RosterInvariant
  <2>4. tab[t].link # 0 =>
          /\ conns'[tab[t].link].at = conns[tab[t].link].at
          /\ conns'[tab[t].link].queue = conns[tab[t].link].queue
    BY <1>7, HubStepFacts
  <2>5. Roster(q)' = Roster(q)
    BY <1>11
  <2> QED
    BY <1>8, <2>3, <2>4, <2>5 DEF QueueOK
<1>15. RosterInvariant'
  BY <1>8, <1>13, <1>14 DEF Inv, RosterInvariant
<1> QED
  BY <1>8, <1>10, <1>15 DEF Inv

\* A roster sent of p, or of another project with p's still true.
LEMMA BroadcastQueue ==
  ASSUME NEW queue \in Seq([project : Project, roster : SUBSET Card]),
         NEW m \in [project : Project, roster : SUBSET Card],
         NEW x, NEW p, NEW R,
         IF m.project = p THEN m.roster = R ELSE UpToDate(x, queue, p, R)
  PROVE  UpToDate(x, Append(queue, m), p, R)
<1> DEFINE l == Len(queue) + 1
           new == Append(queue, m)
<1>1. /\ DOMAIN new = DOMAIN queue \cup {l} /\ new[l] = m /\ l <= l
      /\ \A i \in DOMAIN queue : new[i] = queue[i] /\ i <= l
  OBVIOUS
<1> SUFFICES UpToDate(x, new, p, R)
  OBVIOUS
<1> HIDE DEF new, l
<1>2. CASE m.project = p
  BY <1>1, <1>2 DEF UpToDate
<1>3. CASE m.project # p
  <2>1. {i \in DOMAIN new : new[i].project = p} = {i \in DOMAIN queue : queue[i].project = p}
    BY <1>1, <1>3
  <2>2. UpToDate(x, queue, p, R)
    BY <1>3
  <2> QED
    BY <1>1, <2>1, <2>2 DEF UpToDate
<1> QED
  BY <1>2, <1>3

LEMMA BroadcastStep ==
  ASSUME Inv, NEW i \in DOMAIN hands, Broadcast(i)
  PROVE  Inv'
<1> DEFINE h == hands[i]
           p == h.project
           m == [project |-> p, roster |-> h.roster]
           sent(c) == [conns[c] EXCEPT !.queue = Append(conns[c].queue, m)]
           mark(j) == [hands[j] EXCEPT !.late =
                         hands[j].late \/ (j < i /\ hands[j].project = p
                                             /\ hands[j].roster # h.roster)]
           old(j) == IF j < i THEN j ELSE j + 1
<1>1. /\ conns' = [c \in DOMAIN conns |-> IF conns[c].at = "open" THEN sent(c) ELSE conns[c]]
      /\ hands' = RemoveAt([j \in DOMAIN hands |-> mark(j)], i)
      /\ overtaken' = IF h.late THEN overtaken \cup {p} ELSE overtaken \ {p}
      /\ tab' = tab /\ Quiet
  BY DEF Broadcast
<1>2. /\ hands \in Seq(Hand) /\ conns \in Seq(Conn) /\ h \in Hand
      /\ overtaken \subseteq Project /\ tab \in [Tab -> TabState]
  BY DEF Inv, TypeOK
<1>3. /\ p \in Project /\ h.roster \in SUBSET Card /\ h.late \in BOOLEAN
      /\ m \in [project : Project, roster : SUBSET Card]
      /\ m.project = p /\ m.roster = h.roster
  BY <1>2 DEF Hand
<1> HIDE DEF h, p, m
<1>4. ASSUME NEW c \in DOMAIN conns
      PROVE  /\ conns'[c] \in Conn /\ conns'[c].tab = conns[c].tab
             /\ conns'[c].name = conns[c].name /\ conns'[c].project = conns[c].project
             /\ conns'[c].task = conns[c].task /\ conns'[c].at = conns[c].at
             /\ conns'[c].toServer = conns[c].toServer /\ conns'[c].loop = conns[c].loop
             /\ conns'[c].queue = IF conns[c].at = "open" THEN Append(conns[c].queue, m)
                                  ELSE conns[c].queue
  <2>1. conns'[c] = IF conns[c].at = "open" THEN sent(c) ELSE conns[c]
    BY <1>1
  <2>2. conns[c] \in Conn
    BY <1>2
  <2>3. conns[c].queue \in Seq([project : Project, roster : SUBSET Card])
    BY <2>2 DEF Conn
  <2>4. Append(conns[c].queue, m) \in Seq([project : Project, roster : SUBSET Card])
    BY <1>3, <2>3
  <2>5. /\ sent(c) \in Conn /\ sent(c).tab = conns[c].tab
        /\ sent(c).name = conns[c].name /\ sent(c).project = conns[c].project
        /\ sent(c).task = conns[c].task /\ sent(c).at = conns[c].at
        /\ sent(c).toServer = conns[c].toServer /\ sent(c).loop = conns[c].loop
        /\ sent(c).queue = Append(conns[c].queue, m)
    BY <2>2, <2>4 DEF Conn
  <2> HIDE DEF sent
  <2> QED
    BY <2>1, <2>2, <2>5
<1>5. conns' \in Seq(Conn) /\ DOMAIN conns' = DOMAIN conns
  <2>1. DOMAIN conns' = DOMAIN conns
    BY <1>1
  <2>2. DOMAIN conns = 1..Len(conns) /\ Len(conns) \in Nat
    BY <1>2
  <2>3. conns' \in [1..Len(conns) -> Conn]
    BY <1>1, <1>4, <2>1, <2>2
  <2> QED
    BY <2>1, <2>2, <2>3
<1>6. ASSUME NEW j \in DOMAIN hands
      PROVE  /\ mark(j) \in Hand /\ mark(j).by = hands[j].by
             /\ mark(j).project = hands[j].project /\ mark(j).roster = hands[j].roster
             /\ mark(j).late = (hands[j].late \/ (j < i /\ hands[j].project = p
                                                    /\ hands[j].roster # h.roster))
  <2>1. hands[j] \in Hand
    BY <1>2
  <2> QED
    BY <2>1 DEF Hand
<1> HIDE DEF mark
<1>7. /\ [j \in DOMAIN hands |-> mark(j)] \in Seq(Hand)
      /\ DOMAIN [j \in DOMAIN hands |-> mark(j)] = DOMAIN hands
      /\ Len([j \in DOMAIN hands |-> mark(j)]) = Len(hands)
      /\ \A j \in DOMAIN hands : [k \in DOMAIN hands |-> mark(k)][j] = mark(j)
  <2>1. DOMAIN hands = 1..Len(hands) /\ Len(hands) \in Nat
    BY <1>2
  <2>2. [j \in DOMAIN hands |-> mark(j)] \in [1..Len(hands) -> Hand]
    BY <1>6, <2>1
  <2> QED
    BY <2>1, <2>2
<1>8. /\ hands' \in Seq(Hand) /\ Len(hands') = Len(hands) - 1
      /\ DOMAIN hands = 1..Len(hands) /\ Len(hands) \in Nat /\ i \in 1..Len(hands)
      /\ DOMAIN hands' = 1..(Len(hands) - 1)
      /\ \A n \in DOMAIN hands' :
           old(n) \in DOMAIN hands \ {i} /\ hands'[n] = mark(old(n))
  <2> DEFINE s == [j \in DOMAIN hands |-> mark(j)]
  <2>1. s \in Seq(Hand) /\ i \in DOMAIN s /\ Len(s) = Len(hands) /\ hands' = RemoveAt(s, i)
    BY <1>1, <1>7
  <2>2. \A j \in DOMAIN hands : s[j] = mark(j)
    BY <1>7
  <2> HIDE DEF s
  <2>3. /\ hands' \in Seq(Hand) /\ Len(hands') = Len(s) - 1
        /\ \A n \in DOMAIN hands' : hands'[n] = s[old(n)]
    BY <2>1, RemoveAtFacts
  <2>4. DOMAIN hands = 1..Len(hands) /\ Len(hands) \in Nat /\ i \in 1..Len(hands)
    BY <1>2
  <2>5. DOMAIN hands' = 1..(Len(hands) - 1)
    BY <2>1, <2>3, <2>4
  <2>6. \A n \in DOMAIN hands' : old(n) \in DOMAIN hands \ {i}
    BY <2>4, <2>5
  <2> QED
    BY <2>1, <2>2, <2>3, <2>4, <2>5, <2>6
<1>9. /\ \A j \in DOMAIN hands \ {i} : \E n \in DOMAIN hands' : old(n) = j
      /\ \A n, k \in DOMAIN hands' : (old(n) = old(k) => n = k) /\ (old(n) < old(k) => n < k)
  <2>1. ASSUME NEW j \in DOMAIN hands \ {i}
        PROVE  \E n \in DOMAIN hands' : old(n) = j
    <3>1. CASE j < i
      <4>1. j \in DOMAIN hands' /\ old(j) = j
        BY <1>8, <2>1, <3>1
      <4> QED
        BY <4>1
    <3>2. CASE ~ (j < i)
      <4>1. j - 1 \in DOMAIN hands' /\ old(j - 1) = j
        BY <1>8, <2>1, <3>2
      <4> QED
        BY <4>1
    <3> QED
      BY <3>1, <3>2
  <2>2. \A n, k \in DOMAIN hands' : (old(n) = old(k) => n = k) /\ (old(n) < old(k) => n < k)
    BY <1>8
  <2> QED
    BY <2>1, <2>2
<1> HIDE DEF old
<1>10. Hand' = Hand
  BY <1>5 DEF Hand
<1>11. ASSUME NEW t \in Tab, tab[t].link # 0
       PROVE  /\ tab[t].link \in DOMAIN conns
              /\ conns[tab[t].link].tab = t
              /\ conns[tab[t].link].at \in {"connecting", "open"}
  BY <1>11 DEF Inv, TypeOK
<1>12. TypeOK'
  <2>1. \A n, k \in DOMAIN hands' : hands'[n].by = hands'[k].by => n = k
    <3>1. \A a, b \in DOMAIN hands : hands[a].by = hands[b].by => a = b
      BY DEF Inv, TypeOK
    <3> QED
      BY <1>6, <1>8, <1>9, <3>1
  <2>2. overtaken' \subseteq Project
    BY <1>1, <1>2, <1>3
  <2>3. \A t \in Tab : tab'[t].link # 0 =>
          /\ tab'[t].link \in DOMAIN conns'
          /\ conns'[tab'[t].link].tab = t
          /\ conns'[tab'[t].link].at \in {"connecting", "open"}
    BY <1>1, <1>4, <1>5, <1>11
  <2>4. steps' \in 0..MaxSteps /\ faults' \in 0..MaxFaults
    BY <1>1, Counters
  <2> QED
    BY <1>1, <1>2, <1>5, <1>8, <1>10, <2>1, <2>2, <2>3, <2>4 DEF TypeOK
<1>13. FollowInvariant'
  <2>1. ASSUME NEW t \in Tab, tab[t].link # 0
        PROVE  Follows(tab[t], conns'[tab[t].link])
    <3>1. Follows(tab[t], conns[tab[t].link])
      BY <2>1 DEF Inv, FollowInvariant
    <3> QED
      BY <1>4, <1>11, <2>1, <3>1 DEF Follows, LastName, LastView
  <2> QED
    BY <1>1, <2>1 DEF Inv, FollowInvariant
<1>14. ViewersRegistered'
  <2>1. ASSUME NEW c \in DOMAIN conns, conns'[c].at \in {"connecting", "gone"}
        PROVE  conns'[c].project = Nothing /\ conns'[c].queue = << >>
    <3>1. conns[c].at \in {"connecting", "gone"}
      BY <1>4, <2>1
    <3>2. conns[c].project = Nothing /\ conns[c].queue = << >>
      BY <3>1 DEF Inv, RosterInvariant, ViewersRegistered
    <3> QED
      BY <1>4, <3>1, <3>2
  <2> QED
    BY <1>5, <2>1 DEF ViewersRegistered
<1>15. ASSUME NEW q \in Project
       PROVE  Roster(q)' = Roster(q)
  BY <1>2, <1>4, <1>5, <1>14, RosterKept DEF Inv, RosterInvariant
<1>16. ASSUME NEW q \in Project, ~ InLoop(q)'
       PROVE  ~ InLoop(q)
  BY <1>4, <1>5, <1>16 DEF InLoop
<1>17. ASSUME NEW q \in Project, ~ InLoop(q)'
       PROVE  HandsOK(q)'
  <2> SUFFICES ASSUME NEW n \in DOMAIN hands', hands'[n].project = q
               PROVE  \/ hands'[n].roster = Roster(q) \/ hands'[n].late
                      \/ \E k \in DOMAIN hands' :
                           k > n /\ hands'[k].project = q /\ hands'[k].roster = Roster(q)
    BY <1>15 DEF HandsOK
  <2> DEFINE j == old(n)
  <2>1. j \in DOMAIN hands /\ j # i /\ hands'[n] = mark(j) /\ hands[j].project = q
    BY <1>6, <1>8
  <2>2. /\ hands'[n].roster = hands[j].roster
        /\ hands'[n].late = (hands[j].late \/ (j < i /\ hands[j].project = p
                                                 /\ hands[j].roster # h.roster))
    BY <1>6, <2>1
  <2> HIDE DEF j
  <2>3. \/ hands[j].roster = Roster(q) \/ hands[j].late
        \/ \E k \in DOMAIN hands :
             k > j /\ hands[k].project = q /\ hands[k].roster = Roster(q)
    BY <1>16, <1>17, <2>1 DEF Inv, RosterInvariant, HandsOK
  <2>4. CASE hands[j].roster = Roster(q) \/ hands[j].late
    BY <2>2, <2>4
  <2>5. ASSUME NEW k \in DOMAIN hands, k > j, hands[k].project = q, hands[k].roster = Roster(q)
        PROVE  \/ hands'[n].roster = Roster(q) \/ hands'[n].late
               \/ \E l \in DOMAIN hands' :
                    l > n /\ hands'[l].project = q /\ hands'[l].roster = Roster(q)
    <3>1. CASE k = i
      <4>1. j < i
        BY <1>8, <2>1, <2>5, <3>1
      <4> QED
        BY <2>1, <2>2, <2>5, <3>1, <4>1 DEF h, p
    <3>2. CASE k # i
      <4>1. PICK l \in DOMAIN hands' : old(l) = k
        BY <1>9, <3>2
      <4>2. l > n
        <5>1. old(n) < old(l)
          BY <1>8, <2>1, <2>5, <4>1 DEF j
        <5>2. n < l
          BY <1>9, <5>1
        <5> QED
          BY <1>8, <5>2
      <4>3. hands'[l].project = q /\ hands'[l].roster = Roster(q)
        BY <1>6, <1>8, <2>5, <4>1
      <4> QED
        BY <4>2, <4>3
    <3> QED
      BY <3>1, <3>2
  <2> QED
    BY <2>3, <2>4, <2>5
<1>18. ASSUME NEW q \in Project, ~ InLoop(q)', ~ InHand(q)', q \notin overtaken', NEW t \in Tab
       PROVE  QueueOK(t, q)'
  <2>1. \A j \in DOMAIN hands \ {i} : hands[j].project # q
    <3> SUFFICES ASSUME NEW j \in DOMAIN hands \ {i}, hands[j].project = q PROVE FALSE
      OBVIOUS
    <3>1. PICK n \in DOMAIN hands' : old(n) = j
      BY <1>9
    <3>2. hands'[n].project = q
      BY <1>6, <1>8, <3>1
    <3> QED
      BY <1>18, <3>2 DEF InHand
  <2> SUFFICES ASSUME tab[t].link # 0, conns'[tab[t].link].at = "open"
               PROVE  UpToDate(tab[t], conns'[tab[t].link].queue, q, Roster(q))
    BY <1>1, <1>15 DEF QueueOK
  <2>2. /\ conns[tab[t].link] \in Conn /\ conns[tab[t].link].at = "open"
        /\ conns'[tab[t].link].queue = Append(conns[tab[t].link].queue, m)
    <3> DEFINE d == tab[t].link
    <3>1. d \in DOMAIN conns
      BY <1>11
    <3> HIDE DEF d
    <3>2. conns[d] \in Conn
      BY <1>2, <3>1
    <3>3. conns'[d].at = conns[d].at
      BY <1>4, <3>1
    <3>4. conns[d].at = "open"
      BY <3>3 DEF d
    <3>5. conns'[d].queue = Append(conns[d].queue, m)
      BY <1>4, <3>1, <3>4
    <3> QED
      BY <3>2, <3>4, <3>5 DEF d
  <2>3. conns[tab[t].link].queue \in Seq([project : Project, roster : SUBSET Card])
    BY <2>2 DEF Conn
  <2>4. CASE q = p
    <3>1. ~ h.late
      BY <1>1, <1>18, <2>4
    <3>2. h.roster = Roster(q)
      <4>1. HandsOK(q)
        BY <1>16, <1>18 DEF Inv, RosterInvariant
      <4>2. \A j \in DOMAIN hands : j > i => hands[j].project # q
        BY <1>8, <2>1
      <4> QED
        BY <2>4, <3>1, <4>1, <4>2 DEF HandsOK, h, p
    <3>3. m.project = q /\ m.roster = Roster(q)
      BY <2>4, <3>2 DEF m
    <3>4. UpToDate(tab[t], Append(conns[tab[t].link].queue, m), q, Roster(q))
      BY <1>3, <2>3, <3>3, BroadcastQueue
    <3> QED
      BY <2>2, <3>4
  <2>5. CASE q # p
    <3>1. ~ InHand(q) /\ q \notin overtaken
      BY <1>1, <1>18, <2>1, <2>5 DEF InHand, h, p
    <3>2. QueueOK(t, q)
      BY <1>16, <1>18, <3>1 DEF Inv, RosterInvariant
    <3>3. UpToDate(tab[t], conns[tab[t].link].queue, q, Roster(q))
      BY <2>2, <3>2 DEF QueueOK
    <3>4. m.project # q
      BY <2>5 DEF m
    <3>5. UpToDate(tab[t], Append(conns[tab[t].link].queue, m), q, Roster(q))
      BY <1>3, <2>3, <3>3, <3>4, BroadcastQueue
    <3> QED
      BY <2>2, <3>5
  <2> QED
    BY <2>4, <2>5
<1>19. RosterInvariant'
  BY <1>1, <1>14, <1>17, <1>18 DEF Inv, RosterInvariant
<1> QED
  BY <1>12, <1>13, <1>19 DEF Inv

-----------------------------------------------------------------------------
(* The server stops. *)

LEMMA CrashStep ==
  ASSUME Inv, Crash
  PROVE  Inv'
<1> DEFINE x(t) == Unlinked(t)
           y(c) == [NewConn(conns[c].tab) EXCEPT !.name = FirstName, !.at = "gone"]
<1>1. /\ conns' = [c \in DOMAIN conns |-> y(c)]
      /\ tab' = [t \in Tab |-> x(t)]
      /\ hands' = << >> /\ overtaken' = overtaken
      /\ steps' \in 0..MaxSteps /\ faults' \in 0..MaxFaults
  BY Counters DEF Crash
<1>2. conns \in Seq(Conn) /\ overtaken \subseteq Project /\ tab \in [Tab -> TabState]
  BY DEF Inv, TypeOK
<1>3. ASSUME NEW t \in Tab
      PROVE  /\ x(t) \in TabState /\ x(t).link = 0
             /\ x(t).view = tab[t].view /\ x(t).loading = tab[t].loading
             /\ x(t).subscribed = tab[t].subscribed /\ x(t).task = tab[t].task
             /\ x(t).heard = tab[t].heard
  <2>1. tab[t] \in TabState
    BY <1>2
  <2> QED
    BY <2>1 DEF TabState, Unlinked
<1>4. ASSUME NEW c \in DOMAIN conns
      PROVE  /\ y(c) \in Conn /\ y(c).project = Nothing
             /\ y(c).queue = << >> /\ y(c).loop = << >>
  <2>1. conns[c] \in Conn
    BY <1>2
  <2>2. conns[c].tab \in Tab
    BY <2>1 DEF Conn
  <2>3. /\ << >> \in Seq(Message) /\ << >> \in Seq(Project)
        /\ << >> \in Seq([project : Project, roster : SUBSET Card])
    OBVIOUS
  <2> QED
    BY <2>2, <2>3, NameAssumption DEF NewConn, Conn
<1> HIDE DEF x, y
<1>5. \A t \in Tab : tab'[t] = x(t)
  BY <1>1
<1>6. DOMAIN conns' = DOMAIN conns /\ \A c \in DOMAIN conns : conns'[c] = y(c)
  BY <1>1
<1>7. conns' \in Seq(Conn)
  <2>1. DOMAIN conns = 1..Len(conns) /\ Len(conns) \in Nat
    BY <1>2
  <2>2. conns' \in [1..Len(conns) -> Conn]
    BY <1>1, <1>4, <2>1
  <2> QED
    BY <2>1, <2>2
<1>8. TypeOK'
  <2>1. tab' \in [Tab -> TabState]
    BY <1>1, <1>3
  <2>2. hands' \in Seq(Hand') /\ DOMAIN hands' = {}
    BY <1>1
  <2> QED
    BY <1>1, <1>2, <1>3, <1>5, <1>7, <2>1, <2>2 DEF TypeOK
<1>9. FollowInvariant'
  <2>1. ASSUME NEW t \in Tab
        PROVE  /\ tab[t].subscribed \/ tab[t].loading => tab[t].view # Nothing
    BY TabFacts
  <2> QED
    BY <1>3, <1>5, <2>1 DEF FollowInvariant
<1>10. RosterInvariant'
  <2>1. ViewersRegistered'
    BY <1>4, <1>6 DEF ViewersRegistered
  <2>2. \A t \in Tab : tab[t].view # Nothing => tab[t].heard \subseteq {tab[t].view}
    BY TabFacts
  <2>3. \A p \in Project : HandsOK(p)' /\ \A t \in Tab : QueueOK(t, p)'
    BY <1>1, <1>3, <1>5 DEF HandsOK, QueueOK
  <2> QED
    BY <1>3, <1>5, <2>1, <2>2, <2>3 DEF RosterInvariant
<1> QED
  BY <1>8, <1>9, <1>10 DEF Inv

-----------------------------------------------------------------------------
(* The first state: tab number c has connection c. *)

LEMMA TabNoFacts ==
  /\ TabNo \in [1..Cardinality(Tab) -> Tab] /\ Cardinality(Tab) \in Nat
  /\ \A c, d \in DOMAIN TabNo : TabNo[c] = TabNo[d] => c = d
  /\ \A t \in Tab : \E c \in DOMAIN TabNo : TabNo[c] = t
<1> DEFINE n == Cardinality(Tab)
<1>1. n \in Nat /\ IsFiniteSet(Tab)
  BY TabAssumption, FS_CardinalityType
<1>2. PICK f : ExistsBijection(1..n, Tab) /\ f \in Bijection(1..n, Tab)
  <2>1. ExistsBijection(1..n, Tab)
    BY TabAssumption, FS_CardinalityType
  <2> QED
    BY <2>1 DEF ExistsBijection
<1>3. f \in [1..n -> Tab] /\ \A a, b \in 1..n : f[a] = f[b] => a = b
  BY <1>2 DEF Bijection, Injection, IsInjective
<1>4. IsInjective(f)
  BY <1>3 DEF IsInjective
<1>5. TabNo \in [1..n -> Tab] /\ IsInjective(TabNo)
  BY <1>3, <1>4 DEF TabNo
<1>6. \A c, d \in DOMAIN TabNo : TabNo[c] = TabNo[d] => c = d
  BY <1>5 DEF IsInjective
<1>7. \A t \in Tab : \E c \in DOMAIN TabNo : TabNo[c] = t
  <2>1. IsFiniteSet(1..n) /\ Cardinality(1..n) = n
    BY <1>1, FS_Interval
  <2>2. TabNo \in Injection(1..n, Tab)
    BY <1>5, <1>6 DEF Injection, IsInjective
  <2>3. TabNo \in Surjection(1..n, Tab)
    BY <1>1, <2>1, <2>2, FS_Injection
  <2> QED
    BY <1>5, <2>3 DEF Surjection
<1> QED
  BY <1>1, <1>5, <1>6, <1>7

LEMMA InitInv == Init => Inv
<1> SUFFICES ASSUME Init PROVE Inv
  OBVIOUS
<1> DEFINE n == Cardinality(Tab)
           no(t) == CHOOSE c \in DOMAIN TabNo : TabNo[c] = t
           first(t) == [view |-> FirstView(t), loading |-> FALSE, subscribed |-> t \in OnBoard,
                        task |-> Nothing, name |-> FirstName, left |-> [p \in Project |-> 0],
                        link |-> no(t),
                        shown |-> [p \in Project |->
                                     {FirstCard(u) : u \in {v \in OnBoard : p = FirstView(t)}}],
                        heard |-> {FirstView(t)} \ {Nothing}, stray |-> FALSE]
           made(c) == [tab |-> TabNo[c], name |-> FirstName, project |-> FirstView(TabNo[c]),
                       task |-> Nothing, at |-> "open", toServer |-> << >>, loop |-> << >>,
                       queue |-> << >>]
<1>1. /\ TabNo \in [1..n -> Tab] /\ n \in Nat /\ DOMAIN TabNo = 1..n
      /\ \A c, d \in DOMAIN TabNo : TabNo[c] = TabNo[d] => c = d
      /\ \A t \in Tab : \E c \in DOMAIN TabNo : TabNo[c] = t
  BY TabNoFacts
<1>2. \A t \in Tab : no(t) \in DOMAIN TabNo /\ TabNo[no(t)] = t /\ no(t) \in Nat \ {0}
  <2> SUFFICES ASSUME NEW t \in Tab
               PROVE  no(t) \in DOMAIN TabNo /\ TabNo[no(t)] = t /\ no(t) \in Nat \ {0}
    OBVIOUS
  <2>1. no(t) \in DOMAIN TabNo /\ TabNo[no(t)] = t
    BY <1>1
  <2> QED
    BY <1>1, <2>1
<1> HIDE DEF no
<1>3. /\ tab = [t \in Tab |-> first(t)] /\ conns = [c \in DOMAIN TabNo |-> made(c)]
      /\ hands = << >> /\ overtaken = {} /\ steps = 0 /\ faults = 0
  BY DEF Init, no
<1>4. /\ OnBoard \subseteq Tab /\ FirstBoard \in Project /\ FirstName \in Name
      /\ Nothing \notin Project \cup Task /\ MaxSteps \in Nat /\ MaxFaults \in Nat
  BY NameAssumption, StartAssumption, BoundAssumption
<1>5. \A t : /\ FirstView(t) \in Project \cup {Nothing}
             /\ t \in OnBoard => FirstView(t) = FirstBoard
             /\ t \notin OnBoard => FirstView(t) = Nothing
             /\ FirstView(t) = Nothing => t \notin OnBoard
  BY <1>4 DEF FirstView
<1>6. ASSUME NEW t \in Tab
      PROVE  /\ tab[t] \in TabState /\ tab[t].view = FirstView(t) /\ tab[t].loading = FALSE
             /\ tab[t].subscribed = (t \in OnBoard) /\ tab[t].task = Nothing
             /\ tab[t].name = FirstName /\ tab[t].link = no(t)
             /\ tab[t].heard = {FirstView(t)} \ {Nothing} /\ tab[t].stray = FALSE
             /\ \A p \in Project : tab[t].shown[p] =
                  {FirstCard(u) : u \in {v \in OnBoard : p = FirstView(t)}}
  <2>1. tab[t] = first(t)
    BY <1>3
  <2>2. \A u \in OnBoard : FirstCard(u) \in Card
    BY <1>4 DEF FirstCard, Card
  <2>3. [p \in Project |-> {FirstCard(u) : u \in {v \in OnBoard : p = FirstView(t)}}]
          \in [Project -> SUBSET Card]
    BY <2>2
  <2>4. /\ first(t).view = FirstView(t) /\ first(t).loading = FALSE
        /\ first(t).subscribed = (t \in OnBoard) /\ first(t).task = Nothing
        /\ first(t).name = FirstName /\ first(t).link = no(t)
        /\ first(t).heard = {FirstView(t)} \ {Nothing} /\ first(t).stray = FALSE
        /\ \A p \in Project : first(t).shown[p] =
             {FirstCard(u) : u \in {v \in OnBoard : p = FirstView(t)}}
    OBVIOUS
  <2>5. first(t) \in TabState
    BY <1>2, <1>4, <1>5, <2>3 DEF TabState
  <2> HIDE DEF first
  <2> QED
    BY <2>1, <2>4, <2>5
<1>7. ASSUME NEW c \in DOMAIN TabNo
      PROVE  /\ conns[c] \in Conn /\ conns[c].tab = TabNo[c] /\ conns[c].name = FirstName
             /\ conns[c].project = FirstView(TabNo[c]) /\ conns[c].task = Nothing
             /\ conns[c].at = "open" /\ conns[c].toServer = << >>
             /\ conns[c].loop = << >> /\ conns[c].queue = << >>
  <2>1. conns[c] = made(c)
    BY <1>3
  <2>2. TabNo[c] \in Tab
    BY <1>1
  <2>3. /\ << >> \in Seq(Message) /\ << >> \in Seq(Project)
        /\ << >> \in Seq([project : Project, roster : SUBSET Card])
    OBVIOUS
  <2>4. made(c) \in Conn
    BY <1>4, <1>5, <2>2, <2>3 DEF Conn
  <2> QED
    BY <2>1, <2>4
<1> HIDE DEF first, made
<1>8. DOMAIN conns = DOMAIN TabNo /\ conns \in Seq(Conn)
  <2>1. DOMAIN conns = DOMAIN TabNo
    BY <1>3
  <2>2. conns \in [1..n -> Conn]
    BY <1>1, <1>3, <1>7, <2>1
  <2> QED
    BY <1>1, <2>1, <2>2
<1>9. TypeOK
  <2>1. tab \in [Tab -> TabState]
    BY <1>3, <1>6
  <2>2. hands \in Seq(Hand) /\ DOMAIN hands = {}
    BY <1>3
  <2> QED
    <3>1. \A t \in Tab : /\ tab[t].link \in DOMAIN conns
                         /\ conns[tab[t].link].tab = t /\ conns[tab[t].link].at = "open"
      <4> SUFFICES ASSUME NEW t \in Tab
                   PROVE  /\ tab[t].link \in DOMAIN conns
                          /\ conns[tab[t].link].tab = t /\ conns[tab[t].link].at = "open"
        OBVIOUS
      <4>1. no(t) \in DOMAIN TabNo /\ TabNo[no(t)] = t /\ tab[t].link = no(t)
        BY <1>2, <1>6
      <4>2. conns[no(t)].tab = t /\ conns[no(t)].at = "open"
        BY <1>7, <4>1
      <4> QED
        BY <1>8, <4>1, <4>2
    <3>2. /\ \A i, j \in DOMAIN hands : hands[i].by = hands[j].by => i = j
          /\ overtaken \subseteq Project /\ steps \in 0..MaxSteps /\ faults \in 0..MaxFaults
      BY <1>3, <1>4, <2>2
    <3> QED
      BY <2>1, <2>2, <1>8, <3>1, <3>2 DEF TypeOK
<1>10. FollowInvariant
  <2> SUFFICES ASSUME NEW t \in Tab
               PROVE  Follows(tab[t], conns[tab[t].link])
    BY <1>5, <1>6 DEF FollowInvariant
  <2>1. no(t) \in DOMAIN TabNo /\ TabNo[no(t)] = t
    BY <1>2
  <2>2. DOMAIN conns[no(t)].toServer = {}
    BY <1>7, <2>1
  <2>3. LastName(conns[no(t)], tab[t].name)
    BY <1>6, <1>7, <2>1, <2>2 DEF LastName, NoneSaid
  <2>4. LastView(conns[no(t)], IF tab[t].subscribed THEN tab[t].view ELSE Nothing,
                               IF tab[t].subscribed THEN tab[t].task ELSE Nothing)
    <3>1. NoneSaid(conns[no(t)].toServer, "viewing")
      BY <2>2 DEF NoneSaid
    <3>2. /\ conns[no(t)].project = FirstView(t) /\ conns[no(t)].task = Nothing
          /\ tab[t].view = FirstView(t) /\ tab[t].task = Nothing
          /\ tab[t].subscribed = (t \in OnBoard)
      BY <1>6, <1>7, <2>1
    <3>3. (IF tab[t].subscribed THEN tab[t].view ELSE Nothing) = FirstView(t)
      BY <1>5, <3>2
    <3> QED
      BY <3>1, <3>2, <3>3 DEF LastView
  <2> QED
    BY <1>6, <2>3, <2>4 DEF Follows
<1>11. \A p \in Project : Roster(p) = {FirstCard(u) : u \in {v \in OnBoard : p = FirstView(v)}}
  <2> SUFFICES ASSUME NEW p \in Project
               PROVE  Roster(p) = {FirstCard(u) : u \in {v \in OnBoard : p = FirstView(v)}}
    OBVIOUS
  <2> DEFINE card(c) == [client |-> conns[c].tab, name |-> conns[c].name,
                         task |-> conns[c].task]
             viewing == {d \in Registered : conns[d].project = p}
             viewers == {v \in OnBoard : p = FirstView(v)}
  <2>1. Registered = DOMAIN TabNo
    BY <1>7, <1>8 DEF Registered
  <2>2. \A c \in DOMAIN TabNo : card(c) = FirstCard(TabNo[c])
    BY <1>7 DEF FirstCard
  <2>3. \A c \in viewing : TabNo[c] \in viewers
    BY <1>1, <1>4, <1>5, <1>7, <2>1
  <2>4. \A v \in viewers : no(v) \in viewing /\ TabNo[no(v)] = v
    BY <1>2, <1>4, <1>7, <2>1
  <2>5. {card(c) : c \in viewing} = {FirstCard(u) : u \in viewers}
    <3> HIDE DEF card, viewers
    <3>1. \A c \in viewing : card(c) = FirstCard(TabNo[c])
      BY <2>1, <2>2
    <3> HIDE DEF viewing
    <3> QED
      BY <2>3, <2>4, <3>1
  <2> QED
    BY <2>5 DEF Roster
<1>12. RosterInvariant
  <2>1. ViewersRegistered
    BY <1>7, <1>8 DEF ViewersRegistered
  <2>2. \A p \in Project : HandsOK(p)
    BY <1>3 DEF HandsOK
  <2>3. ASSUME NEW p \in Project, NEW t \in Tab
        PROVE  QueueOK(t, p)
    <3>1. DOMAIN conns[tab[t].link].queue = {}
      <4>1. no(t) \in DOMAIN TabNo /\ tab[t].link = no(t)
        BY <1>2, <1>6
      <4>2. conns[no(t)].queue = << >>
        BY <1>7, <4>1
      <4> QED
        BY <4>1, <4>2
    <3>2. p \in tab[t].heard => tab[t].shown[p] = Roster(p)
      <4> SUFFICES ASSUME p \in tab[t].heard PROVE tab[t].shown[p] = Roster(p)
        OBVIOUS
      <4>1. p = FirstView(t) /\ p = FirstBoard
        <5>1. p \in {FirstView(t)} \ {Nothing}
          BY <1>6
        <5>2. p = FirstView(t) /\ FirstView(t) # Nothing
          BY <5>1
        <5> QED
          BY <1>5, <5>2
      <4>2. {v \in OnBoard : p = FirstView(t)} = {v \in OnBoard : p = FirstView(v)}
        BY <1>5, <4>1
      <4>3. tab[t].shown[p] = {FirstCard(u) : u \in {v \in OnBoard : p = FirstView(v)}}
        BY <1>6, <4>2
      <4> QED
        BY <1>11, <4>3
    <3> QED
      BY <3>1, <3>2 DEF QueueOK, UpToDate
  <2> QED
    BY <1>6, <2>1, <2>2, <2>3 DEF RosterInvariant
<1> QED
  BY <1>9, <1>10, <1>12 DEF Inv

-----------------------------------------------------------------------------
(* The theorems. *)

LEMMA StepInv == Inv /\ [Next]_vars => Inv'
<1> SUFFICES ASSUME Inv, [Next]_vars PROVE Inv'
  OBVIOUS
<1>1. ASSUME NEW t \in Tab, Subscribe(t) PROVE Inv'
  BY <1>1, SubscribeStep
<1>2. ASSUME NEW t \in Tab, Connect(t) PROVE Inv'
  BY <1>2, ConnectStep
<1>3. ASSUME NEW t \in Tab, Opened(t) PROVE Inv'
  BY <1>3, OpenedStep
<1>4. ASSUME NEW t \in Tab, Deliver(t) PROVE Inv'
  BY <1>4, DeliverStep
<1>5. ASSUME NEW c \in DOMAIN conns, Read(c) PROVE Inv'
  BY <1>5, ReadStep
<1>6. ASSUME NEW c \in DOMAIN conns, Unregister(c) PROVE Inv'
  BY <1>6, UnregisterStep
<1>7. ASSUME NEW c \in DOMAIN conns, ReadRoster(c) PROVE Inv'
  BY <1>7, ReadRosterStep
<1>8. ASSUME NEW i \in DOMAIN hands, Broadcast(i) PROVE Inv'
  BY <1>8, BroadcastStep
<1>9. ASSUME NEW t \in Tab, NEW p \in Project, OpenProject(t, p) PROVE Inv'
  BY <1>9, OpenProjectStep
<1>10. ASSUME NEW t \in Tab, NEW p \in Project, StraySubscribe(t, p) PROVE Inv'
  BY <1>10, StraySubscribeStep
<1>11. ASSUME NEW t \in Tab, LeaveProject(t) PROVE Inv'
  BY <1>11, LeaveProjectStep
<1>12. ASSUME NEW t \in Tab, NEW k \in Task \cup {Nothing}, SelectTask(t, k) PROVE Inv'
  BY <1>12, SelectTaskStep
<1>13. ASSUME NEW t \in Tab, NEW n \in Name, Rename(t, n) PROVE Inv'
  BY <1>13, RenameStep
<1>14. ASSUME NEW t \in Tab, Drop(t) PROVE Inv'
  BY <1>14, DropStep
<1>15. ASSUME NEW t \in Tab, RefreshFails(t) \/ RefreshAgain(t) PROVE Inv'
  BY <1>15, LoadingStep
<1>16. CASE Crash
  BY <1>16, CrashStep
<1>17. CASE UNCHANGED vars
  <2>1. UNCHANGED <<tab, conns, hands, overtaken, steps, faults>>
    BY <1>17 DEF vars
  <2>2. TypeOK' = TypeOK
    BY <2>1 DEF TypeOK, Hand
  <2>3. FollowInvariant' = FollowInvariant
    BY <2>1 DEF FollowInvariant
  <2>4. RosterInvariant' = RosterInvariant
    BY <2>1 DEF RosterInvariant, ViewersRegistered, InLoop, InHand, HandsOK, QueueOK,
                Roster, Registered
  <2> QED
    BY <2>2, <2>3, <2>4 DEF Inv
<1> QED
  BY <1>1, <1>2, <1>3, <1>4, <1>5, <1>6, <1>7, <1>8, <1>9, <1>10, <1>11, <1>12, <1>13,
     <1>14, <1>15, <1>16, <1>17 DEF Next, Progress

\* What the queues and the last message say of a tab with nothing on the way.
LEMMA InvFollows == Inv => HubFollowsTab
<1> SUFFICES ASSUME Inv, NEW t \in Tab, tab[t].link # 0,
                    conns[tab[t].link].at = "open",
                    conns[tab[t].link].toServer = << >>
             PROVE  /\ conns[tab[t].link].name = tab[t].name
                    /\ \/ tab[t].stray
                       \/ /\ conns[tab[t].link].project =
                               IF tab[t].subscribed THEN tab[t].view ELSE Nothing
                          /\ conns[tab[t].link].task =
                               IF tab[t].subscribed THEN tab[t].task ELSE Nothing
  BY DEF HubFollowsTab
<1> DEFINE conn == conns[tab[t].link]
<1>1. Follows(tab[t], conn)
  BY DEF Inv, FollowInvariant
<1>2. DOMAIN conn.toServer = {}
  OBVIOUS
<1>3. NoneSaid(conn.toServer, "viewing") /\ NoneSaid(conn.toServer, "rename")
  BY <1>2 DEF NoneSaid
<1> QED
  BY <1>1, <1>3 DEF Follows, LastName, LastView

LEMMA InvRoster == Inv => LastRosterIsTrue
<1> SUFFICES ASSUME Inv, NEW t \in Tab, tab[t].link # 0,
                    NEW p \in tab[t].heard \ overtaken, ~ UnderWay(t, p),
                    conns[tab[t].link].at # "connecting"
             PROVE  tab[t].shown[p] = Roster(p)
  BY DEF LastRosterIsTrue
<1>1. tab[t] \in TabState /\ conns[tab[t].link].at = "open"
  BY DEF Inv, TypeOK
<1>2. p \in Project
  BY <1>1 DEF TabState
<1>3. ~ InLoop(p) /\ ~ InHand(p)
  BY DEF UnderWay, InLoop, InHand
<1>4. UpToDate(tab[t], conns[tab[t].link].queue, p, Roster(p))
  BY <1>1, <1>2, <1>3 DEF Inv, RosterInvariant, QueueOK
<1>5. {i \in DOMAIN conns[tab[t].link].queue :
         conns[tab[t].link].queue[i].project = p} = {}
  BY DEF UnderWay
<1> QED
  BY <1>4, <1>5 DEF UpToDate

LEMMA InvAlways == Spec => []Inv
BY InitInv, StepInv, PTL DEF Spec

\* Tabs, connections, rosters in hand and queues have their types: a tab's
\* connection is its own and not one that is gone (live.ts), and a read loop
\* has one roster in hand at a time (broadcastPresence in hub.go).
THEOREM TypeCorrect == Spec => []TypeOK
BY InvAlways, PTL DEF Inv

\* What a tab has sent over its connection and the hub has still to read ends
\* where the tab is, under its name, through moves, renames, failed refreshes
\* and reconnections (live.ts, ProjectDetail.tsx).
THEOREM TabsSpeakUp == Spec => []FollowInvariant
BY InvAlways, PTL DEF Inv

\* With nothing on the way the hub has a tab viewing what the tab shows.
THEOREM HubFollows == Spec => []HubFollowsTab
BY InvFollows, InvAlways, PTL

\* A change of who is on a board is followed, in its read loop, in hand or in
\* every viewer's queue, by a roster that has it (broadcastPresence in hub.go).
THEOREM RostersKeepUp == Spec => []RosterInvariant
BY InvAlways, PTL DEF Inv

\* The last roster a tab got is the hub's, with none under way or overtaken.
THEOREM RosterTrue == Spec => []LastRosterIsTrue
BY InvRoster, InvAlways, PTL
=============================================================================
