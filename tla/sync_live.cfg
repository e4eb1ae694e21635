SPECIFICATION FairSpec
CONSTANTS
  Task = {k1}
  Page = 1
  QueueSize = 1
  Network = 1
  Refreshes = {r1}
  Mount = r1
  Overlap = {}
  Faults = {"drop", "crash", "fetch", "refresh", "replay", "commit"}
  MaxEvents = 2
  MaxFaults = 2
PROPERTIES Converges BufferedIsApplied
CHECK_DEADLOCK FALSE
