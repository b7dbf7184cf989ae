SPECIFICATION FairSpec
CONSTANTS
  Period = 2
  Timeout = 3
  KillAfter = 1
  MaxLag = 8
INVARIANTS NoFalseAbort StopJoins KilledInTime
PROPERTIES StuckIsKilled
CHECK_DEADLOCK FALSE
