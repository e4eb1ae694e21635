SPECIFICATION Spec
CONSTANTS
  Task = {k1}
  Page = 5
  QueueSize = 1
  Network = 1
  Refreshes = {r1, r2}
  Mount = r1
  Overlap = {"refresh"}
  Faults = {}
  MaxEvents = 3
  MaxFaults = 0
INVARIANTS ViewCatchesUp
CHECK_DEADLOCK FALSE
