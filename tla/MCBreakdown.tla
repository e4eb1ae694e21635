----------------------------- MODULE MCBreakdown -----------------------------
(***************************************************************************)
(* A small instance of Breakdown for TLC.                                  *)
(***************************************************************************)
EXTENDS Breakdown

\* One that is used, with a repeated index, and three that are refused: an
\* empty one, a cycle, and one that names an index behind the cut.
FewAnswers ==
  {<< >>, << <<2, 2>>, << >> >>, << <<2>>, <<1>> >>,
   << <<4>>, << >>, << >>, << >> >>}

\* Lists over 1..n, in order, and one that repeats an index.
Lists(n) == {SetToSortSeq(s, <) : s \in SUBSET (1..n)} \cup {<<1, 2, 1>>}

\* All batches of up to three subtasks with an index out of range among
\* those they may name, and some of four, which is one too many.
AllGraphs ==
  UNION {[1..n -> Lists(n + 1)] : n \in 0..2}
  \cup [1..3 -> Lists(4)]
  \cup [1..4 -> {<< >>, <<1>>, <<2, 3>>, <<4>>, <<1, 2, 3>>}]
=============================================================================
