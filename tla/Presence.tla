------------------------------ MODULE Presence ------------------------------
(***************************************************************************)
(* Who is viewing what: a tab tells the hub which project and task it      *)
(* shows (App.tsx, ProjectDetail.tsx over live.ts), the hub keeps that per *)
(* connection and sends every connection the new roster of a project       *)
(* whenever somebody joins, leaves, moves or is renamed (hub.go), and a    *)
(* tab shows the roster of its project or, on the project list, of all of  *)
(* them (useWsEvents.ts).                                                  *)
(*                                                                         *)
(* Each connection's read loop is a goroutine of its own.  The events that *)
(* travel over the same connections are in Sync.  A send queue that is     *)
(* full closes the connection, which is one of the ways to break here.     *)
(***************************************************************************)
EXTENDS Naturals, Sequences, FiniteSets, SequencesExt

CONSTANTS
  Tab,       \* browser tabs, each with a clientId of its own
  Project,
  Name,      \* display names
  Task,      \* what a tab may open on a board
  Nothing,   \* "": no project, no task
  FirstName, \* the name a tab starts with
  OnBoard,   \* the tabs that start with a board
  FirstBoard, \* the board they start with
  MaxSteps,  \* bound: how often the users do something
  MaxFaults  \* bound: how many failures there are

ASSUME NameAssumption == FirstName \in Name /\ Nothing \notin Project \cup Task
ASSUME TabAssumption == IsFiniteSet(Tab)
ASSUME StartAssumption == OnBoard \subseteq Tab /\ FirstBoard \in Project
ASSUME BoundAssumption == {MaxSteps, MaxFaults} \subseteq Nat

VARIABLES
  tab,       \* what each tab shows and knows
  conns,     \* the WebSockets, in the order in which tabs made them
  hands,     \* rosters read under the hub's lock and not yet sent, as read
  overtaken, \* projects whose last roster was sent after a later, other one
  steps, faults

vars == <<tab, conns, hands, overtaken, steps, faults>>

-----------------------------------------------------------------------------
(* Rosters and messages. *)

Card == [client : Tab, name : Name, task : Task \cup {Nothing}]

Viewing(p, k) == [type |-> "viewing", project |-> p, task |-> k]
Renaming(n) == [type |-> "rename", name |-> n]

Message == [type : {"viewing"}, project : Project \cup {Nothing}, task : Task \cup {Nothing}]
           \cup [type : {"rename"}, name : Name]

\* hub.clients has a connection until its read loop has noticed the break.
Registered == {c \in DOMAIN conns : conns[c].at \in {"open", "broken"}}

\* The roster that broadcastPresence reads.  The code's is a list: while the
\* hub still has a tab's old connection beside its new one, both entries of
\* the tab are in it, which are one here if they say the same.
Roster(p) ==
  {[client |-> conns[c].tab, name |-> conns[c].name, task |-> conns[c].task] :
     c \in {d \in Registered : conns[d].project = p}}

NoRosters == [p \in Project |-> {}]

-----------------------------------------------------------------------------
(* A tab: its view, whether it waits for the board's refresh, whether that *)
(* has subscribed it, the refreshes of boards it has left, the rosters it  *)
(* shows.  An observer's: the projects whose roster came over the present  *)
(* connection, and whether the last thing it said was that of a board it   *)
(* has left.                                                               *)

TabState == [view : Project \cup {Nothing}, loading : BOOLEAN, subscribed : BOOLEAN,
             task : Task \cup {Nothing}, name : Name, left : [Project -> Nat],
             link : Nat, shown : [Project -> SUBSET Card],
             heard : SUBSET Project, stray : BOOLEAN]

Conn == [tab : Tab, name : Name, project : Project \cup {Nothing},
         task : Task \cup {Nothing}, at : {"connecting", "open", "broken", "gone"},
         toServer : Seq(Message), loop : Seq(Project),
         queue : Seq([project : Project, roster : SUBSET Card])]

Hand == [by : DOMAIN conns, project : Project, roster : SUBSET Card, late : BOOLEAN]

TypeOK ==
  /\ tab \in [Tab -> TabState]
  /\ conns \in Seq(Conn)
  /\ \A t \in Tab : tab[t].link # 0 =>
       /\ tab[t].link \in DOMAIN conns
       /\ conns[tab[t].link].tab = t
       /\ conns[tab[t].link].at \in {"connecting", "open"}
  /\ hands \in Seq(Hand)
  /\ \A i, j \in DOMAIN hands : hands[i].by = hands[j].by => i = j
  /\ overtaken \subseteq Project
  /\ steps \in 0..MaxSteps /\ faults \in 0..MaxFaults

\* A WebSocket as it is made: the name is in its URL.
NewConn(t) == [tab |-> t, name |-> tab[t].name, project |-> Nothing, task |-> Nothing,
               at |-> "connecting", toServer |-> << >>, loop |-> << >>, queue |-> << >>]

\* OnBoard show FirstBoard, the others the project list; all has settled.
TabNo == CHOOSE f \in [1..Cardinality(Tab) -> Tab] : IsInjective(f)

FirstView(t) == IF t \in OnBoard THEN FirstBoard ELSE Nothing
FirstCard(t) == [client |-> t, name |-> FirstName, task |-> Nothing]

Init ==
  /\ tab = [t \in Tab |->
       [view |-> FirstView(t), loading |-> FALSE, subscribed |-> t \in OnBoard,
        task |-> Nothing, name |-> FirstName, left |-> [p \in Project |-> 0],
        link |-> CHOOSE c \in DOMAIN TabNo : TabNo[c] = t,
        shown |-> [p \in Project |-> {FirstCard(u) : u \in {v \in OnBoard : p = FirstView(t)}}],
        heard |-> {FirstView(t)} \ {Nothing}, stray |-> FALSE]]
  /\ conns = [c \in DOMAIN TabNo |->
       [tab |-> TabNo[c], name |-> FirstName, project |-> FirstView(TabNo[c]),
        task |-> Nothing, at |-> "open", toServer |-> << >>, loop |-> << >>,
        queue |-> << >>]]
  /\ hands = << >> /\ overtaken = {}
  /\ steps = 0 /\ faults = 0

\* connect(), which does nothing if there is a WebSocket.
Link(t) == IF tab[t].link # 0 THEN tab[t].link ELSE Len(conns) + 1
Connected(t) == IF tab[t].link # 0 THEN conns ELSE Append(conns, NewConn(t))

\* send(): what is sent before the connection is open waits for it.
Says(t, state, message) ==
  /\ conns' = [Connected(t) EXCEPT ![Link(t)].toServer = Append(@, message)]
  /\ tab' = [tab EXCEPT ![t] = [state EXCEPT !.link = Link(t)]]

User == steps < MaxSteps /\ steps' = steps + 1 /\ UNCHANGED <<hands, overtaken, faults>>

\* ProjectDetail is mounted; its hooks connect.
OpenProject(t, p) ==
  /\ tab[t].view = Nothing /\ User
  /\ conns' = Connected(t)
  /\ tab' = [tab EXCEPT ![t] = [@ EXCEPT !.link = Link(t), !.view = p, !.loading = TRUE,
                                         !.shown = NoRosters, !.heard = {}]]

\* onBack: ProjectList is mounted, and App says that nothing is viewed.
LeaveProject(t) ==
  LET p == tab[t].view IN
  /\ p # Nothing /\ User
  /\ Says(t, [tab[t] EXCEPT !.view = Nothing, !.loading = FALSE, !.subscribed = FALSE,
                            !.task = Nothing, !.shown = NoRosters, !.heard = {},
                            !.left[p] = IF tab[t].loading THEN @ + 1 ELSE @,
                            !.stray = FALSE],
          Viewing(Nothing, Nothing))

\* A task is opened or closed on the board; before it has subscribed, when
\* its refresh has failed and it shows what events have brought, in silence.
SelectTask(t, k) ==
  /\ tab[t].task # k /\ User
  /\ \/ /\ tab[t].subscribed
        /\ Says(t, [tab[t] EXCEPT !.task = k, !.stray = FALSE], Viewing(tab[t].view, k))
     \/ /\ tab[t].view # Nothing /\ ~ tab[t].subscribed /\ ~ tab[t].loading
        /\ tab' = [tab EXCEPT ![t].task = k]
        /\ UNCHANGED conns

Rename(t, n) ==
  /\ tab[t].name # n /\ User
  /\ Says(t, [tab[t] EXCEPT !.name = n], Renaming(n))

Quiet == UNCHANGED <<steps, faults>>

\* The board's refresh lands: the tab subscribes.
SubscribeSilently(t) == \* mutant: setViewing is left to the effects
  /\ tab[t].loading
  /\ tab' = [tab EXCEPT ![t].loading = FALSE, ![t].subscribed = TRUE]
  /\ UNCHANGED <<conns, hands, overtaken>> /\ Quiet
Subscribe(t) ==
  /\ tab[t].loading
  /\ Says(t, [tab[t] EXCEPT !.loading = FALSE, !.subscribed = TRUE, !.stray = FALSE],
          Viewing(tab[t].view, tab[t].task))
  /\ UNCHANGED <<hands, overtaken>> /\ Quiet

\* So does that of a board that is no longer shown.
StraySubscribe(t, p) ==
  /\ tab[t].left[p] > 0
  /\ Says(t, [tab[t] EXCEPT !.left[p] = @ - 1, !.stray = TRUE], Viewing(p, Nothing))
  /\ UNCHANGED <<hands, overtaken>> /\ Quiet

-----------------------------------------------------------------------------
(* Connections. *)

\* The reconnect timer, or the first hook that subscribes.
Connect(t) ==
  /\ tab[t].link = 0
  /\ conns' = Connected(t) /\ tab' = [tab EXCEPT ![t].link = Link(t)]
  /\ UNCHANGED <<hands, overtaken>> /\ Quiet

\* What the effect on `connected` sends.
SilentEffect(t) == << >> \* mutant: the effect is missing
ConnectedEffect(t) ==
  IF tab[t].subscribed THEN <<Viewing(tab[t].view, tab[t].task)>> ELSE << >>

\* The handshake is done: the hub has the connection, and the tab sees it
\* open, sends what waited for it and, if it has subscribed, what it views.
Opened(t) ==
  LET c == tab[t].link IN
  /\ c # 0 /\ conns[c].at = "connecting"
  /\ conns' = [conns EXCEPT
       ![c].at = "open",
       ![c].toServer = @ \o ConnectedEffect(t)]
  /\ tab' = [tab EXCEPT ![t].heard = {}, ![t].stray = @ /\ ~ tab[t].subscribed]
  /\ UNCHANGED <<hands, overtaken>> /\ Quiet

\* The tab gets a roster.  A board takes its own project's only.
Deliver(t) ==
  LET c == tab[t].link IN
  /\ c # 0 /\ conns[c].queue # << >>
  /\ conns' = [conns EXCEPT ![c].queue = Tail(@)]
  /\ LET m == Head(conns[c].queue) IN
     tab' = IF tab[t].view \in {Nothing, m.project}
            THEN [tab EXCEPT ![t].shown[m.project] = m.roster,
                             ![t].heard = @ \cup {m.project}]
            ELSE tab
  /\ UNCHANGED <<hands, overtaken>> /\ Quiet

-----------------------------------------------------------------------------
(* The hub: one read loop per connection.                                  *)

\* The loop is inside broadcastPresence, between the read and the send.
SendingElsewhere(c) == FALSE \* mutant: the roster is sent by a goroutine of its own
Sending(c) == \E i \in DOMAIN hands : hands[i].by = c

\* What the loop's last message asked for is done.
Idle(c) == conns[c].loop = << >> /\ ~ Sending(c)

\* The projects whose rosters have changed: the old, then the new.
ChangedNewOnly(old, new) == \* mutant: the old project's viewers are not told
  IF new # Nothing THEN <<new>> ELSE << >>
Changed(old, new) ==
  (IF old \notin {Nothing, new} THEN <<old>> ELSE << >>)
  \o (IF new # Nothing THEN <<new>> ELSE << >>)

SetViewing(conn, m) ==
  [conn EXCEPT !.project = m.project, !.task = m.task,
               !.loop = Changed(conn.project, m.project)]

SetName(conn, m) ==
  [conn EXCEPT !.name = m.name, !.loop = Changed(Nothing, conn.project)]

Read(c) ==
  /\ c \in Registered /\ Idle(c) /\ conns[c].toServer # << >>
  /\ LET m == Head(conns[c].toServer)
         rest == [conns[c] EXCEPT !.toServer = Tail(@)] IN
     conns' = [conns EXCEPT ![c] =
       IF m.type = "viewing" THEN SetViewing(rest, m) ELSE SetName(rest, m)]
  /\ UNCHANGED <<tab, hands, overtaken>> /\ Quiet

\* The read loop of a broken connection ends, with some of what was sent
\* over it unread.
Unregister(c) ==
  /\ conns[c].at = "broken" /\ Idle(c)
  /\ conns' = [conns EXCEPT ![c] =
       [NewConn(conns[c].tab) EXCEPT !.name = FirstName, !.at = "gone",
                                     !.loop = Changed(conns[c].project, Nothing)]]
  /\ UNCHANGED <<tab, hands, overtaken>> /\ Quiet

\* broadcastPresence reads the roster ...
ReadRoster(c) ==
  /\ conns[c].loop # << >> /\ ~ Sending(c)
  /\ LET p == Head(conns[c].loop) IN
     hands' = Append(hands, [by |-> c, project |-> p, roster |-> Roster(p), late |-> FALSE])
  /\ conns' = [conns EXCEPT ![c].loop = Tail(@)]
  /\ UNCHANGED <<tab, overtaken>> /\ Quiet

\* ... and sends it, by which time others may have read and sent a later one.
Broadcast(i) ==
  LET h == hands[i] IN
  /\ conns' = [c \in DOMAIN conns |->
       IF conns[c].at = "open"
       THEN [conns[c] EXCEPT !.queue =
              Append(@, [project |-> h.project, roster |-> h.roster])]
       ELSE conns[c]]
  /\ hands' = RemoveAt([j \in DOMAIN hands |->
                [hands[j] EXCEPT !.late =
                   @ \/ (j < i /\ hands[j].project = h.project
                               /\ hands[j].roster # h.roster)]], i)
  /\ overtaken' = IF h.late THEN overtaken \cup {h.project}
                  ELSE overtaken \ {h.project}
  /\ UNCHANGED tab /\ Quiet

-----------------------------------------------------------------------------
(* Failures. *)

Fault == faults < MaxFaults /\ faults' = faults + 1 /\ UNCHANGED steps

Unlinked(t) == [tab[t] EXCEPT !.link = 0, !.stray = FALSE]

\* A connection breaks, or cannot be made.  The hub notices later.
Drop(t) ==
  LET c == tab[t].link IN
  /\ c # 0 /\ Fault
  /\ conns' = [conns EXCEPT ![c] =
       IF @.at = "open" THEN [@ EXCEPT !.at = "broken", !.queue = << >>]
       ELSE [@ EXCEPT !.at = "gone", !.toServer = << >>, !.name = FirstName]]
  /\ tab' = [tab EXCEPT ![t] = Unlinked(t)]
  /\ UNCHANGED <<hands, overtaken>>

\* The server stops, with all that it knew.
Crash ==
  /\ Fault
  /\ conns' = [c \in DOMAIN conns |->
       [NewConn(conns[c].tab) EXCEPT !.name = FirstName, !.at = "gone"]]
  /\ tab' = [t \in Tab |-> Unlinked(t)]
  /\ hands' = << >>
  /\ UNCHANGED overtaken

\* The board's refresh fails: the tab is in no roster.
RefreshFails(t) ==
  /\ tab[t].loading /\ Fault
  /\ tab' = [tab EXCEPT ![t].loading = FALSE]
  /\ UNCHANGED <<conns, hands, overtaken>>

\* A task is created on that board, which refreshes it again.  (The refresh
\* of a board that has subscribed says nothing.)
RefreshAgain(t) ==
  /\ tab[t].view # Nothing /\ ~ tab[t].subscribed /\ ~ tab[t].loading
  /\ tab' = [tab EXCEPT ![t].loading = TRUE]
  /\ UNCHANGED <<conns, hands, overtaken>> /\ Quiet

-----------------------------------------------------------------------------

Progress ==
  \/ \E t \in Tab : Subscribe(t) \/ Connect(t) \/ Opened(t) \/ Deliver(t)
  \/ \E c \in DOMAIN conns : Read(c) \/ Unregister(c) \/ ReadRoster(c)
  \/ \E i \in DOMAIN hands : Broadcast(i)

Next ==
  \/ Progress
  \/ \E t \in Tab :
       \/ \E p \in Project : OpenProject(t, p) \/ StraySubscribe(t, p)
       \/ LeaveProject(t)
       \/ \E k \in Task \cup {Nothing} : SelectTask(t, k)
       \/ \E n \in Name : Rename(t, n)
       \/ Drop(t) \/ RefreshFails(t) \/ RefreshAgain(t)
  \/ Crash

Spec == Init /\ [][Next]_vars

\* The tabs' timers and callbacks fire, requests are answered, goroutines
\* run: something of it happens as long as anything can.
FairSpec == Spec /\ WF_vars(Progress)

-----------------------------------------------------------------------------
(* Properties. *)

\* Once the server has read what a tab has sent over its connection, the hub
\* has it viewing what it shows, under its name, after moves, renames and
\* reconnections in any order; unless a board that was left before it had
\* loaded had the last word (ProjectDetail.tsx:75).
HubFollowsTab ==
  \A t \in Tab :
    LET c == tab[t].link IN
    c # 0 /\ conns[c].at = "open" /\ conns[c].toServer = << >> =>
      /\ conns[c].name = tab[t].name
      /\ tab[t].stray \/
           /\ conns[c].project = IF tab[t].subscribed THEN tab[t].view ELSE Nothing
           /\ conns[c].task = IF tab[t].subscribed THEN tab[t].task ELSE Nothing

\* The roster a tab got last is the hub's, unless a newer one is still to be
\* read, sent or delivered or has been overtaken on its way (hub.go:281).
UnderWay(t, p) ==
  \/ \E c \in DOMAIN conns : p \in ToSet(conns[c].loop)
  \/ \E i \in DOMAIN hands : hands[i].project = p
  \/ \E i \in DOMAIN conns[tab[t].link].queue : conns[tab[t].link].queue[i].project = p

LastRosterIsTrue ==
  \A t \in Tab : tab[t].link # 0 =>
    \A p \in tab[t].heard \ overtaken :
      UnderWay(t, p) \/ conns[tab[t].link].at = "connecting"
      \/ tab[t].shown[p] = Roster(p)

\* When users have stopped, every board ends up showing exactly the tabs that
\* show it, with their names and tasks: nobody who lost his connection or the
\* server is missing, no broken connection stays.
Viewers(p) == {[client |-> t, name |-> tab[t].name, task |-> tab[t].task] :
                 t \in {u \in Tab : tab[u].subscribed /\ tab[u].view = p}}

Settled ==
  \A t \in Tab : tab[t].subscribed =>
    tab[t].shown[tab[t].view] = Viewers(tab[t].view)

PresenceSettles ==
  <>[](Settled \/ overtaken # {} \/ \E t \in Tab : tab[t].stray)

-----------------------------------------------------------------------------
(* What makes HubFollowsTab and LastRosterIsTrue inductive (PresenceProofs).*)

\* m is the last message of its type on the way.
NoneSaid(said, type) == \A i \in DOMAIN said : said[i].type # type
LastSaid(said, m) ==
  \E i \in DOMAIN said : /\ said[i] = m
                         /\ \A j \in DOMAIN said : said[j].type = m.type => j <= i

\* The hub will have the connection viewing k on p, and under the name n,
\* once it has read what is on the way to it.
LastView(conn, p, k) ==
  IF NoneSaid(conn.toServer, "viewing") THEN conn.project = p /\ conn.task = k
  ELSE LastSaid(conn.toServer, Viewing(p, k))

LastName(conn, n) ==
  IF NoneSaid(conn.toServer, "rename") THEN conn.name = n
  ELSE LastSaid(conn.toServer, Renaming(n))

\* A tab that has subscribed before its connection opens speaks up then.
Follows(x, conn) ==
  /\ LastName(conn, x.name)
  /\ \/ x.stray
     \/ conn.at = "connecting" /\ x.subscribed
     \/ LastView(conn, IF x.subscribed THEN x.view ELSE Nothing,
                       IF x.subscribed THEN x.task ELSE Nothing)

FollowInvariant ==
  \A t \in Tab :
    /\ tab[t].subscribed \/ tab[t].loading => tab[t].view # Nothing
    /\ tab[t].link # 0 => Follows(tab[t], conns[tab[t].link])

\* Only connections the hub has view anything, and only open ones are sent to.
ViewersRegistered ==
  \A c \in DOMAIN conns : conns[c].at \in {"connecting", "gone"} =>
    conns[c].project = Nothing /\ conns[c].queue = << >>

\* p's roster has changed and the loop that changed it has not read it yet.
InLoop(p) == \E c \in DOMAIN conns : p \in ToSet(conns[c].loop)

\* The roster read last is true; one that is not is late or goes out before
\* one that is.
HandsOK(p) ==
  \A i \in DOMAIN hands : hands[i].project = p =>
    \/ hands[i].roster = Roster(p) \/ hands[i].late
    \/ \E j \in DOMAIN hands :
         j > i /\ hands[j].project = p /\ hands[j].roster = Roster(p)

\* What x shows of p is `roster` once the queue is delivered.
UpToDate(x, queue, p, roster) ==
  LET mine == {i \in DOMAIN queue : queue[i].project = p} IN
  IF mine = {} THEN p \in x.heard => x.shown[p] = roster
  ELSE \E i \in mine : queue[i].roster = roster /\ \A j \in mine : j <= i

QueueOK(t, p) ==
  tab[t].link # 0 /\ conns[tab[t].link].at = "open" =>
    UpToDate(tab[t], conns[tab[t].link].queue, p, Roster(p))

InHand(p) == \E i \in DOMAIN hands : hands[i].project = p

RosterInvariant ==
  /\ ViewersRegistered
  /\ \A t \in Tab : tab[t].view # Nothing => tab[t].heard \subseteq {tab[t].view}
  /\ \A p \in Project : ~ InLoop(p) =>
       /\ HandsOK(p)
       /\ ~ InHand(p) /\ p \notin overtaken => \A t \in Tab : QueueOK(t, p)
=============================================================================
