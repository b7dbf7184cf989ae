SPECIFICATION FairSpec
CONSTANTS
  c1 = c1  c2 = c2  ping = ping  pong = pong  job = job  news = news  none = none
  Functions <- MCFunctions
  KeyOf <- MCKeyOf
  None <- none
  MaxRouters = 2
  Calls <- MCCalls
  Timed <- MCTimed
  MaxCalls = 1
INVARIANTS TypeOK ServesTheDeclared RunsTheDeclared FailuresAreOwn BroadcastReachesAll
PROPERTIES ImplementsContract TimedCallsEnd
CHECK_DEADLOCK FALSE
