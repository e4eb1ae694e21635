SPECIFICATION Spec
CONSTANTS
  Caller = {c1}
  Me = c1
  Cost = 1
  Capacity = 2
  TTL = 2
  MaxTime = 3
  None = None
  MaxSubtasks = 3
  Answers <- FewAnswers
  Graphs <- AllGraphs
  MaxOpens = 2
  MaxApplies = 2
INVARIANTS TypeOK LimiterInvariant WithinRate CreatedOnce NeverLeftWaiting DialogInvariant ValidIsExact RemapKeepsReview
PROPERTIES SweepIsInvisible
CHECK_DEADLOCK FALSE
