SPECIFICATION Spec
CONSTANTS
  s1 = s1  s2 = s2  t1 = t1  t2 = t2  noServer = noServer  nothing = nothing
  ping = ping  sum = sum  job = job  news = news
  Servers <- MCServers
  NoServer <- noServer
  Names <- MCNames
  KindOf <- MCKindOf
  Tasks <- MCOneTask
  Nothing <- nothing
  MaxRaises = 1
INVARIANTS ActivateSubscribesAll
