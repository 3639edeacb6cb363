SPECIFICATION FairSpec
CONSTANTS
  l1 = l1
  l2 = l2
  Lanes <- MCLanes
  Forking = {l1}
  Resuming = {l1}
  MaxSessions = 2
INVARIANTS NoStrayKill LeavesNothing OrphansFound
PROPERTY AttemptEnds
CHECK_DEADLOCK FALSE
