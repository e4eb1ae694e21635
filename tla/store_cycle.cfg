SPECIFICATION SeededSpec
CONSTANTS
  Project = {p1}
  Task = {k1, k2, k3}
  Comment = {}
  Text = {word}
  Status = {"todo", "done"}
  DepLists <- ShortLists
  Batches <- NoBatch
  Kinds = {"UpdateTask"}
  Txn = {t1, t2}
  MaxSeq = 4
  None = None
  p1 = p1
  word = word
  k1 = k1
  k2 = k2
  k3 = k3
  c1 = c1
  SeedTasks <- ThreeTasks
  SeedDeps <- OneDep
  SeedStatus = {"todo", "done"}
  SeedComments <- NoComments
INVARIANTS Acyclic
SYMMETRY Symmetric
CHECK_DEADLOCK FALSE
