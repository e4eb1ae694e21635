SPECIFICATION FairSeededSpec
CONSTANTS
  Project = {p1}
  Task = {k1, k2}
  Comment = {}
  Text = {word}
  Status = {"todo", "done"}
  DepLists <- ShortLists
  Batches <- NoBatch
  Kinds = {"UpdateTask", "DeleteTask", "DeleteProject"}
  Txn = {t1, t2}
  MaxSeq = 3
  None = None
  p1 = p1
  word = word
  k1 = k1
  k2 = k2
  k3 = k3
  c1 = c1
  SeedTasks <- TwoTasks
  SeedDeps <- AtMostOneDep
  SeedStatus = {"todo"}
  SeedComments <- NoComments
INVARIANTS NoMutualDependency
PROPERTIES EveryOperationEnds
CHECK_DEADLOCK FALSE
