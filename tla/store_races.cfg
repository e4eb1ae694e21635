SPECIFICATION SeededSpec
CONSTANTS
  Project = {p1}
  Task = {k1, k2, k3}
  Comment = {c1, c2}
  Text = {word, other}
  Status = {"todo", "done"}
  DepLists <- ShortLists
  Batches <- NoBatch
  Kinds = {"CreateTask", "UpdateTask", "DeleteTask", "CreateComment", "DeleteComment", "UpdateProject", "DeleteProject"}
  Txn = {t1, t2}
  MaxSeq = 4
  None = None
  p1 = p1
  word = word
  k1 = k1
  k2 = k2
  k3 = k3
  c1 = c1
  SeedTasks <- TwoTasks
  SeedDeps <- OneDep
  SeedStatus = {"todo", "done"}
  SeedComments <- OneComment
INVARIANTS LogInvariant LogMatchesTables ReplayInvariant
SYMMETRY Symmetric
CHECK_DEADLOCK FALSE
