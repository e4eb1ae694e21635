SPECIFICATION Spec
CONSTANTS
  Project = {p1, p2}
  Task = {k1, k2, k3}
  Comment = {}
  Text = {word}
  Status = {"todo", "done"}
  DepLists <- ShortLists
  Batches <- SomeBatches
  Kinds = {"CreateProject", "CreateTask", "UpdateTask", "DeleteTask", "CreateTaskBatch", "DeleteProject"}
  Txn = {t1, t2}
  MaxSeq = 2
  None = None
  p1 = p1
  word = word
  k1 = k1
  k2 = k2
  k3 = k3
  c1 = c1
  SeedTasks <- NoTasks
  SeedDeps <- NoDeps
  SeedStatus = {"todo", "done"}
  SeedComments <- NoComments
INVARIANTS TypeOK GaplessLog NoForwardReference RowsInvariant NamesInvariant ReplayInvariant LogMatchesLiveTasks DependenciesWithinProject
PROPERTIES ImplementsEventLog ParentIsFinishLine
SYMMETRY IdsSymmetric
CHECK_DEADLOCK FALSE
