SPECIFICATION FairSpec
CONSTANTS
  Order <- MCOrder
  Amqp <- MCAmqp
  Scenarios <- MCScenarios
INVARIANTS ReleasesAll ActiveIsConnected NoLeftoverTasks
PROPERTY SignalEnds
CHECK_DEADLOCK FALSE
