-------------------------------- MODULE Sync --------------------------------
(***************************************************************************)
(* How one browser tab keeps a project's board in step with its event log: *)
(* the HTTP handlers that broadcast what they committed (server/handlers.go*)
(* over the hub of server/hub.go), the tab's WebSocket (client live.ts)    *)
(* and the sync logic of ProjectDetail.tsx.                                *)
(*                                                                         *)
(* The log grows as EventLog says and TaskStore makes sure: by the block   *)
(* of a committed transaction.  Events are about tasks that are created,   *)
(* patched and deleted; a board shows for every task the seq of the last   *)
(* event that wrote it, 0 for a task it does not show.  A tab has one      *)
(* connection at a time, and tabs share nothing but the log, so one tab is *)
(* enough.                                                                 *)
(***************************************************************************)
EXTENDS Integers, Sequences, FiniteSets, FiniteSetsExt, SequencesExt

CONSTANTS
  Task,       \* the ids of the project's tasks
  Page,       \* ListEventsSince answers with at most this many events
  QueueSize,  \* capacity of a connection's send queue
  Network,    \* messages the network holds on their way to the tab
  Refreshes,  \* the refresh() calls: the mount's, then one per created task
  Mount,      \* the first of them
  Overlap,    \* what the user may create a task during
  Faults,     \* what may fail
  MaxEvents,  \* bound: no transaction begins once the log is this long
  MaxFaults   \* bound: how many failures there are

ASSUME SizeAssumption == {Page, QueueSize} \subseteq Nat \ {0} /\ Network \in Nat
ASSUME BoundAssumption == {MaxEvents, MaxFaults} \subseteq Nat
ASSUME RefreshAssumption ==
  Mount \in Refreshes /\ IsFiniteSet(Refreshes) /\ Overlap \subseteq {"refresh", "fetch"}
ASSUME FaultAssumption ==
  Faults \subseteq {"drop", "crash", "fetch", "refresh", "replay", "commit"}

VARIABLES
  log,        \* the committed events, the one with seq i at place i
  handlers,   \* per committed request, the seqs it has still to broadcast
  link,       \* the tab's WebSocket is open
  registered, \* the hub knows the connection
  viewing,    \* the hub has the project as what the connection views
  toServer,   \* `viewing` messages on their way, each with its lastSeq
  replay,     \* what replayTo has still to enqueue
  queue,      \* seqs on their way to the tab: send queue and network
  tab,        \* the state of ProjectDetail
  cache,      \* the task list in the browser's cache: its ETag and its body
  faults,     \* how many failures there have been
  lost        \* events were withheld from the tab, and no full replay came since

server == <<handlers, registered, viewing, replay>>
wire == <<link, toServer, queue>>
fails == <<faults, lost>>
vars == <<log, server, wire, tab, cache, fails>>

Seqs == 1..Len(log)

-----------------------------------------------------------------------------
(* Boards. *)

LogEvent == [type : {"created", "updated", "deleted"}, task : Task]

Board == [Task -> Nat]

EmptyBoard == [k \in Task |-> 0]

\* applyEvent on the i-th of es: a task the board has is not created again,
\* one it lacks is neither patched nor deleted.
Apply(es, board, i) ==
  LET k == es[i].task IN
  CASE es[i].type = "created" /\ board[k] = 0 -> [board EXCEPT ![k] = i]
    [] es[i].type = "updated" /\ board[k] # 0 -> [board EXCEPT ![k] = i]
    [] es[i].type = "deleted" -> [board EXCEPT ![k] = 0]
    [] OTHER -> board

\* `board` after the events of es from seq a to seq b.
ApplyAll(es, board, a, b) ==
  LET after[i \in Nat] == IF i < a THEN board ELSE Apply(es, after[i - 1], i)
  IN  after[b]

\* The tasks of the project when its log es had n events.
Content(es, n) == ApplyAll(es, EmptyBoard, 1, n)

-----------------------------------------------------------------------------
(* The tab. *)

\* A refresh() call: what it awaits, and the seqs at which the server read
\* what it was asked for.
Refresh == [at : {"idle", "project", "tasks", "list", "land", "done", "failed"},
            reads : Seq(Nat)]

NotCalled == [at |-> "idle", reads |-> << >>]
Called == [at |-> "project", reads |-> << >>]

\* A task list with the ETag it came with; the body is that of seq upTo.
CachedList == [etag : Nat, upTo : Nat]
NoCache == [etag |-> -1, upTo |-> 0]

\* A fillGap request: `from` is the lastSeq it was sent with, `upTo` the last
\* seq of its answer.
Fetch == [at : {"idle", "sent", "answered"}, from : Nat, upTo : Nat]

NoFetch == [at |-> "idle", from |-> 0, upTo |-> 0]

TabState == [board : Board, lastSeq : Nat, pending : SUBSET Nat, loading : BOOLEAN,
             subscribed : BOOLEAN, fetch : Fetch, refresh : [Refreshes -> Refresh]]

TypeOK ==
  /\ log \in Seq(LogEvent)
  /\ handlers \subseteq Seq(Seqs) \ {<< >>}
  /\ {link, registered, viewing, lost} \subseteq BOOLEAN
  /\ toServer \in Seq(Nat)
  /\ replay \in Seq(Seqs) /\ queue \in Seq(Seqs)
  /\ Len(queue) <= QueueSize + Network
  /\ tab \in TabState /\ tab.lastSeq <= Len(log) /\ tab.pending \subseteq Seqs
  /\ cache \in CachedList \cup {NoCache} /\ cache.upTo <= Len(log)
  /\ faults \in 0..MaxFaults

\* The project is opened over a connection the tab already has.
Init ==
  /\ log = << >>
  /\ handlers = {}
  /\ link = TRUE /\ registered = TRUE /\ viewing = FALSE
  /\ toServer = << >> /\ replay = << >> /\ queue = << >>
  /\ tab = [board |-> EmptyBoard, lastSeq |-> 0, pending |-> {},
            loading |-> TRUE, subscribed |-> FALSE, fetch |-> NoFetch,
            refresh |-> [r \in Refreshes |->
                          IF r = Mount THEN Called ELSE NotCalled]]
  /\ cache = NoCache
  /\ faults = 0 /\ lost = FALSE

\* processBuffer: drops what lastSeq covers, applies what follows it without
\* a gap, and fetches the gap before the rest unless a fetch is in flight.
ProcessBufferKeepsStale(c) == \* mutant: without the filter
  LET upTo == Max({n \in {c.lastSeq} \cup c.pending :
                     (c.lastSeq + 1)..n \subseteq c.pending})
      left == {s \in c.pending : s > upTo \/ s <= c.lastSeq}
  IN  [c EXCEPT !.board = ApplyAll(log, @, c.lastSeq + 1, upTo),
                !.lastSeq = upTo,
                !.pending = left,
                !.fetch = IF left # {} /\ @.at = "idle"
                          THEN [at |-> "sent", from |-> upTo, upTo |-> 0]
                          ELSE @]
ProcessBuffer(c) ==
  LET ahead == {s \in c.pending : s > c.lastSeq}
      upTo == Max({n \in {c.lastSeq} \cup ahead :
                     (c.lastSeq + 1)..n \subseteq ahead})
      left == {s \in ahead : s > upTo}
  IN  [c EXCEPT !.board = ApplyAll(log, @, c.lastSeq + 1, upTo),
                !.lastSeq = upTo,
                !.pending = left,
                !.fetch = IF left # {} /\ @.at = "idle"
                          THEN [at |-> "sent", from |-> upTo, upTo |-> 0]
                          ELSE @]

\* The handler of live.ts's messages: old ones are ignored, the others are
\* buffered, and the buffer is worked off unless a snapshot is loading.
Deliver ==
  /\ queue # << >>
  /\ queue' = Tail(queue)
  /\ LET s == Head(queue)
         buffered == [tab EXCEPT !.pending = @ \cup {s}] IN
     tab' = CASE s <= tab.lastSeq -> tab
              [] s > tab.lastSeq /\ tab.loading -> buffered
              [] OTHER -> ProcessBuffer(buffered)
  /\ UNCHANGED <<log, server, link, toServer, cache, fails>>

\* listEvents answers a fillGap.
FetchAnswered ==
  /\ tab.fetch.at = "sent"
  /\ tab' = [tab EXCEPT !.fetch.at = "answered",
                        !.fetch.upTo = Min({Len(log), tab.fetch.from + Page})]
  /\ UNCHANGED <<log, server, wire, cache, fails>>

\* The answer arrives: its events beyond lastSeq are applied, wherever
\* lastSeq has got to meanwhile.
FetchLandsOnce == \* mutant: without processBuffer, which asks for the next page
  /\ tab.fetch.at = "answered"
  /\ LET f == tab.fetch IN
     tab' = [tab EXCEPT
              !.board = ApplyAll(log, @, 1 + Max({f.from, tab.lastSeq}), f.upTo),
              !.lastSeq = Max({@, f.upTo}),
              !.fetch = NoFetch]
  /\ UNCHANGED <<log, server, wire, cache, fails>>
FetchLands ==
  /\ tab.fetch.at = "answered"
  /\ LET f == tab.fetch IN
     tab' = ProcessBuffer([tab EXCEPT
              !.board = ApplyAll(log, @, 1 + Max({f.from, tab.lastSeq}), f.upTo),
              !.lastSeq = Max({@, f.upTo}),
              !.fetch = NoFetch])
  /\ UNCHANGED <<log, server, wire, cache, fails>>

\* What a refresh shows: the project's lastSeq, read first, and the tasks.
SnapshotTasksFirst(r) == \* mutant: the tasks are read before the project
  [lastSeq |-> r.reads[2], board |-> Content(log, r.reads[1])]
Snapshot(r) == [lastSeq |-> r.reads[1], board |-> Content(log, r.reads[2])]

\* onCreated: the user has created a task on the board, which is shown once
\* the mount has the project.
RefreshCalled(r) ==
  /\ tab.refresh[r].at = "idle"
  /\ "refresh" \in Overlap \/ ~ tab.loading
  /\ "fetch" \in Overlap \/ tab.fetch.at = "idle"
  /\ tab.refresh[Mount].at \notin {"project", "failed"}
  /\ tab' = [tab EXCEPT !.loading = TRUE, !.refresh[r] = Called]
  /\ UNCHANGED <<log, server, wire, cache, fails>>

\* getProject: the server reads what has been committed.
ProjectAnswered(r) ==
  /\ tab.refresh[r].at = "project"
  /\ tab' = [tab EXCEPT !.refresh[r] = [at |-> "tasks", reads |-> <<Len(log)>>]]
  /\ UNCHANGED <<log, server, wire, cache, fails>>

\* listTasks reads lastSeq first.  The browser has sent the ETag of the list
\* it has, and is told to use that list if it is still the same ...
ListTasks(r) ==
  /\ tab.refresh[r].at = "tasks"
  /\ tab' = [tab EXCEPT !.refresh[r] =
       IF cache.etag = Len(log) THEN [at |-> "land", reads |-> Append(@.reads, cache.upTo)]
       ELSE [at |-> "list", reads |-> Append(@.reads, Len(log))]]
  /\ UNCHANGED <<log, server, wire, cache, fails>>

\* ... or gets the tasks, which are read now, under that ETag.
ListedLate(etag) == [etag |-> Len(log), upTo |-> etag] \* mutant: the ETag is read last
Listed(etag) == [etag |-> etag, upTo |-> Len(log)]

\* The cached list matters as long as another refresh may ask for it.
MayAsk(r) == \E q \in Refreshes \ {r} : tab.refresh[q].at \in {"idle", "project", "tasks"}

ListAnswered(r) ==
  /\ tab.refresh[r].at = "list"
  /\ LET new == Listed(tab.refresh[r].reads[2]) IN
     /\ tab' = [tab EXCEPT !.refresh[r] =
                 [at |-> "land", reads |-> <<@.reads[1], new.upTo>>]]
     /\ cache' = IF MayAsk(r) THEN new ELSE NoCache
  /\ UNCHANGED <<log, server, wire, fails>>

\* The snapshot replaces the board and lastSeq; the first one subscribes.
RefreshLands(r) ==
  /\ tab.refresh[r].at = "land"
  /\ LET new == Snapshot(tab.refresh[r]) IN
     /\ tab' = ProcessBuffer([tab EXCEPT
                 !.board = new.board, !.lastSeq = new.lastSeq,
                 !.subscribed = TRUE, !.loading = FALSE,
                 !.refresh[r] = [at |-> "done", reads |-> << >>]])
     /\ toServer' = IF tab.subscribed THEN toServer
                    ELSE Append(toServer, new.lastSeq)
  /\ UNCHANGED <<log, server, link, queue, cache, fails>>

-----------------------------------------------------------------------------
(* The connection. *)

\* A connection is gone with all that is on its way; what the hub still does
\* for it reaches nobody.
Close ==
  /\ link' = FALSE /\ registered' = FALSE /\ viewing' = FALSE
  /\ toServer' = << >> /\ replay' = << >> /\ queue' = << >>

\* enqueue, by a broadcast or by replayTo, which has `rest` left: a full
\* send queue, whatever of it the network has taken, closes the connection.
SendUnbounded(s, rest) == \* mutant: the queue has no limit
  /\ queue' = IF registered THEN Append(queue, s) ELSE queue
  /\ replay' = rest
  /\ UNCHANGED <<link, toServer, registered, viewing>>
Send(s, rest) ==
  \/ /\ ~ registered
     /\ replay' = rest
     /\ UNCHANGED <<wire, registered, viewing>>
  \/ /\ registered /\ Len(queue) < QueueSize + Network
     /\ queue' = Append(queue, s)
     /\ replay' = rest
     /\ UNCHANGED <<link, toServer, registered, viewing>>
  \/ registered /\ Len(queue) >= QueueSize /\ Close

\* live.ts reconnects.  A `viewing` sent meanwhile waits for the connection,
\* unless an attempt in between failed; the effect on `connected` sends the
\* current lastSeq once the tab has subscribed.
OpenNoResubscribe == \* mutant: without the effect
  /\ ~ link /\ link' = TRUE
  /\ UNCHANGED <<log, server, toServer, queue, tab, cache, fails>>
Open ==
  /\ ~ link /\ link' = TRUE
  /\ \E kept \in {toServer, << >>} :
       toServer' = IF tab.subscribed THEN Append(kept, tab.lastSeq) ELSE kept
  /\ UNCHANGED <<log, server, queue, tab, cache, fails>>

\* The user opens or closes a task.  A tab that does so again and again
\* sends nothing new, so one message at a time is enough; one to a hub that
\* has the project already is about presence only.
Focus ==
  /\ tab.subscribed /\ toServer = << >> /\ ~ viewing
  /\ toServer' = <<tab.lastSeq>>
  /\ UNCHANGED <<log, server, link, queue, tab, cache, fails>>

\* ServeWS, after the handshake the tab has seen.
Register ==
  /\ link /\ ~ registered /\ registered' = TRUE
  /\ UNCHANGED <<log, handlers, viewing, replay, wire, tab, cache, fails>>

\* setViewing: only the first message of a connection that names the project
\* is answered with the events after its lastSeq, one page of them: nobody
\* asks for the rest.
SetViewing ==
  /\ registered /\ replay = << >> /\ toServer # << >>
  /\ toServer' = Tail(toServer)
  /\ viewing' = TRUE
  /\ LET after == Head(toServer)
         upTo == IF viewing THEN after ELSE Min({Len(log), after + Page}) IN
     /\ replay' = [i \in 1..(upTo - after) |-> after + i]
     /\ lost' = IF viewing THEN lost ELSE upTo < Len(log)
  /\ UNCHANGED <<log, handlers, registered, link, queue, tab, cache, faults>>

ReplayTo ==
  /\ replay # << >>
  /\ Send(Head(replay), Tail(replay))
  /\ UNCHANGED <<log, handlers, tab, cache, fails>>

-----------------------------------------------------------------------------
(* The other clients' requests. *)

Created(es) == {es[i].task : i \in {j \in DOMAIN es : es[j].type = "created"}}

Deleted(es) == {es[i].task : i \in {j \in DOMAIN es : es[j].type = "deleted"}}

Existing(es) == Created(es) \ Deleted(es)

Possible(es, e) == IF e.type = "created" THEN e.task \notin Created(es)
                   ELSE e.task \in Existing(es)

\* The events of one transaction: a breakdown or a patch makes several.
Blocks == {<<e>> : e \in {x \in LogEvent : Possible(log, x)}}
          \cup {b \in LogEvent \X LogEvent :
                  Possible(log, b[1]) /\ Possible(Append(log, b[1]), b[2])}

Commit ==
  /\ Len(log) < MaxEvents
  /\ \E b \in Blocks :
       /\ log' = log \o b
       /\ handlers' = handlers \cup {[i \in DOMAIN b |-> Len(log) + i]}
  /\ UNCHANGED <<registered, viewing, replay, wire, tab, cache, fails>>

\* broadcastEvents, one BroadcastEvent of its loop.  Requests that have
\* committed overtake each other on the way to the hub.
Broadcast(h) ==
  /\ h \in handlers
  /\ handlers' = (handlers \ {h}) \cup ({Tail(h)} \ {<< >>})
  /\ Send(Head(h), replay)
  /\ UNCHANGED <<log, tab, cache, fails>>

-----------------------------------------------------------------------------
(* Failures. *)

Fault(kind) ==
  kind \in Faults /\ faults < MaxFaults /\ faults' = faults + 1

\* The connection breaks: network, pongWait, writeTimeout.
Drop ==
  /\ link /\ Fault("drop")
  /\ Close
  /\ UNCHANGED <<log, handlers, tab, cache, lost>>

\* The server stops: committed events are never broadcast.
Crash ==
  /\ Fault("crash")
  /\ Close
  /\ handlers' = {}
  /\ UNCHANGED <<log, tab, cache, lost>>

\* A fillGap request fails; the buffer still has its gap, so the next one
\* is sent at once.
FetchFails ==
  /\ Fault("fetch") /\ tab.fetch.at # "idle"
  /\ tab' = ProcessBuffer([tab EXCEPT !.fetch = NoFetch])
  /\ UNCHANGED <<log, server, wire, cache, lost>>

\* A request of a refresh fails.  If it was the mount's, nothing asks again.
RefreshFails(r) ==
  /\ Fault("refresh") /\ tab.refresh[r].at \in {"project", "tasks", "list", "land"}
  /\ tab' = ProcessBuffer([tab EXCEPT
              !.loading = FALSE,
              !.refresh[r] = [at |-> IF @.at = "project" THEN "failed" ELSE "done",
                              reads |-> << >>]])
  /\ lost' = (lost \/ r = Mount)
  /\ UNCHANGED <<log, server, wire, cache>>

\* The query of replayTo fails: it is logged and not repeated.
ReplayFails ==
  /\ Fault("replay") /\ registered /\ ~ viewing
  /\ replay = << >> /\ toServer # << >>
  /\ toServer' = Tail(toServer)
  /\ viewing' = TRUE /\ lost' = TRUE
  /\ UNCHANGED <<log, handlers, registered, replay, link, queue, tab, cache>>

\* A Commit that Postgres has done is reported as an error, because the
\* request's context ended: its events are never broadcast.
CommitUnreported ==
  /\ Fault("commit") /\ Len(log) < MaxEvents
  /\ \E b \in Blocks : log' = log \o b
  /\ lost' = TRUE
  /\ UNCHANGED <<server, wire, tab, cache>>

Next ==
  \/ Commit \/ Deliver \/ FetchAnswered \/ FetchLands
  \/ Focus \/ Open \/ Register \/ SetViewing \/ ReplayTo
  \/ \E h \in handlers : Broadcast(h)
  \/ \E r \in Refreshes : \/ RefreshCalled(r) \/ ProjectAnswered(r) \/ ListTasks(r)
                          \/ ListAnswered(r) \/ RefreshLands(r) \/ RefreshFails(r)
  \/ Drop \/ Crash \/ FetchFails \/ ReplayFails \/ CommitUnreported

Spec == Init /\ [][Next]_vars

\* Goroutines run, requests are answered, the tab's timers and callbacks
\* fire.  A writer that gets a message again and again writes one (Deliver is
\* disabled when a full queue closes the connection).  Nobody has to commit,
\* to open or create a task or to fail.
Fairness ==
  /\ SF_vars(Deliver)
  /\ WF_vars(FetchAnswered \/ FetchLands)
  /\ WF_vars(Open \/ Register \/ SetViewing \/ ReplayTo)
  /\ WF_vars(\E h \in handlers : Broadcast(h))
  /\ WF_vars(\E r \in Refreshes : ProjectAnswered(r) \/ ListTasks(r)
                               \/ ListAnswered(r) \/ RefreshLands(r))

FairSpec == Spec /\ Fairness

-----------------------------------------------------------------------------
(* Properties. *)

\* Whatever order events, answers and snapshots came in, the board is right
\* once the events after lastSeq have been applied to it: nothing it counts
\* as seen is missing, and what it shows too early is put right by then.
ViewCatchesUp ==
  ApplyAll(log, tab.board, tab.lastSeq + 1, Len(log)) = Content(log, Len(log))

\* Outside a snapshot, buffered events are beyond a gap that a request is
\* already out to fill: no stale or forgotten entry stays in the buffer.
GapIsBeingFilled ==
  /\ \A s \in tab.pending : tab.loading \/ s > tab.lastSeq + 1
  /\ tab.pending # {} /\ ~ tab.loading => tab.fetch.at # "idle"

\* A tab ends up showing what the log says, after dropped connections, full
\* queues, server restarts and failed catch-up requests, unless a failure of
\* a kind that nothing retries has left it waiting for the next live event.
Synced == tab.lastSeq = Len(log) /\ tab.board = Content(log, Len(log))
Converges == <>[](Synced \/ lost)

\* An event that reaches the buffer is applied in the end, and so are all
\* before it, also those that were withheld: by a replay that failed or was
\* cut, or by a commit that was not reported.  However many pages the gap
\* takes and however often a request for one fails, fillGap goes on.
BufferedIsApplied ==
  \A s \in 1..(MaxEvents + 1) : s \in tab.pending ~> tab.lastSeq >= s

-----------------------------------------------------------------------------
(* What makes TypeOK and ViewCatchesUp inductive (SyncProofs).             *)

\* The answers the tab x waits for are from the log, and the tasks of a
\* snapshot were read after the seq it claims.
AnswersOK(x) ==
  /\ x.fetch.upTo <= Len(log)
  /\ \A r \in Refreshes :
       LET reads == x.refresh[r].reads IN
       /\ x.refresh[r].at = "tasks" => Len(reads) = 1 /\ reads[1] <= Len(log)
       /\ x.refresh[r].at \in {"list", "land"} =>
            Len(reads) = 2 /\ reads[1] <= reads[2] /\ reads[2] <= Len(log)

\* Exactly the tasks the project lacks are created.
LogFits(es) ==
  /\ \A i \in DOMAIN es : es[i].type = "created" <=> Content(es, i - 1)[es[i].task] = 0
  /\ \A k \in Task : Content(es, Len(es))[k] # 0 <=> k \in Existing(es)
  /\ Deleted(es) \subseteq Created(es)

\* Every task on the board is as it was at some seq from a on.
ShownFrom(es, board, a) ==
  \A k \in Task : \E j \in a..Len(es) : board[k] = Content(es, j)[k]

\* The one refresh there is buffers, and no gap request is ahead of lastSeq.
Waits(x, r) == x.refresh[r].at \in {"project", "tasks", "list", "land"}

ViewOK(x) ==
  /\ ShownFrom(log, x.board, x.lastSeq)
  /\ \A r \in Refreshes : Waits(x, r) => x.loading /\ x.fetch.at = "idle"
  /\ \A r, q \in Refreshes : Waits(x, r) /\ Waits(x, q) => r = q
  /\ x.fetch.at # "idle" => x.fetch.from <= x.lastSeq

SyncInvariant ==
  /\ cache.etag <= cache.upTo /\ AnswersOK(tab)
  /\ Overlap = {} => LogFits(log) /\ ViewOK(tab)
=============================================================================
