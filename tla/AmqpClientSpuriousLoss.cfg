SPECIFICATION Spec
CONSTANTS
  c1 = c1  c2 = c2  p1 = p1  r1 = r1
  manager = manager  noTask = noTask
  Calls <- MCCalls
  Pubs <- MCNone
  Served <- MCServed
  Manager <- manager
  NoTask <- noTask
  Timed <- MCTimed
  TellsCancel = TRUE
  MaxGen = 2
PROPERTIES LostOnlyWithConnection
