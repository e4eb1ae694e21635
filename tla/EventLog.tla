------------------------------ MODULE EventLog ------------------------------
(***************************************************************************)
(* What the event log promises its readers (server/events.go, the doc of   *)
(* recordEvent, and the `last_seq` column of `projects`): every project    *)
(* has one log; a mutation that commits appends a contiguous block of one  *)
(* or more events at its end, atomically; nothing in a log is ever         *)
(* rewritten, reordered or removed, except that deleting the project       *)
(* erases its whole log; and a mutation that fails leaves no trace.        *)
(*                                                                         *)
(* TaskStore implements this specification, with `log` read off the rows   *)
(* of `events` (see LogOf in TaskStore).                                   *)
(***************************************************************************)
EXTENDS Naturals, Sequences

CONSTANTS Project,  \* the project ids
          Body,     \* what an event can say
          Gone      \* the log of a project that does not exist; no sequence

VARIABLE log        \* log[p]: the events of p, the one with seq i at place i

Init == log = [p \in Project |-> Gone]

\* projects.last_seq starts at 0: a new project has an empty log.
CreateProject(p) ==
  /\ log[p] = Gone
  /\ log' = [log EXCEPT ![p] = << >>]

\* One committed mutation: all of its events, at the end, in one step.
AppendBlock(p) ==
  /\ log[p] # Gone
  /\ log'[p] \in Seq(Body)
  /\ Len(log'[p]) > Len(log[p])
  /\ SubSeq(log'[p], 1, Len(log[p])) = log[p]
  /\ log' = [log EXCEPT ![p] = log'[p]]

\* ON DELETE CASCADE erases the log with its project.
DeleteProject(p) ==
  /\ log[p] # Gone
  /\ log' = [log EXCEPT ![p] = Gone]

Next == \E p \in Project : CreateProject(p) \/ AppendBlock(p) \/ DeleteProject(p)

Spec == Init /\ [][Next]_log
=============================================================================
