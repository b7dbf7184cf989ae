SPECIFICATION Spec
CONSTANTS
  c1 = c1  c2 = c2  p1 = p1  r1 = r1
  manager = manager  noTask = noTask
  Calls <- MCOneCall
  Pubs <- MCNone
  Served <- MCNone
  Manager <- manager
  NoTask <- noTask
  Timed <- MCNone
  TellsCancel = TRUE
  MaxGen = 2
PROPERTIES ConnectMakesReady
