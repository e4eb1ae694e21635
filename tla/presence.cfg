SPECIFICATION FairSpec
CONSTANTS
  Tab = {t1, t2}
  Project = {p1, p2}
  Name = {n1, n2}
  Nothing = Nothing
  Task = {k1}
  FirstName = n1
  OnBoard = {t1}
  FirstBoard = p1
  MaxSteps = 2
  MaxFaults = 1
INVARIANTS TypeOK HubFollowsTab LastRosterIsTrue FollowInvariant RosterInvariant
PROPERTIES PresenceSettles
CHECK_DEADLOCK FALSE
