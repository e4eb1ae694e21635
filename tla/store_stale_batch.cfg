SPECIFICATION SeededSpec
CONSTANTS
  Project = {p1}
  Task = {k1, k2, k3, k4}
  Comment = {}
  Text = {word}
  Status = {"todo", "done"}
  DepLists <- NoList
  Batches <- SomeBatches
  Kinds = {"CreateTaskBatch", "DeleteTask"}
  Txn = {t1, t2}
  MaxSeq = 3
  None = None
  p1 = p1
  word = word
  k1 = k1
  k2 = k2
  k3 = k3
  c1 = c1
  SeedTasks <- TwoTasks
  SeedDeps <- OneDep
  SeedStatus = {"todo", "done"}
  SeedComments <- NoComments
INVARIANTS LogMatchesTables
SYMMETRY Symmetric
CHECK_DEADLOCK FALSE
