SPECIFICATION Spec
CONSTANTS
  c1 = c1  c2 = c2  p1 = p1  r1 = r1
  manager = manager  noTask = noTask
  Calls <- MCOneCall
  Pubs <- MCPubs
  Served <- MCServed
  Manager <- manager
  NoTask <- noTask
  Timed <- MCOneCall
  TellsCancel = TRUE
  MaxGen = 3
INVARIANTS TypeOK LockDiscipline ExchangePresent LossReported NoPhantomCancellation

PROPERTIES FutureSettledOnce ImplementsContract
