SPECIFICATION Spec
CONSTANTS
  t1 = t1  t2 = t2  local = local  net = net  none = none
  Tasks <- MCTasks
  Namespaces <- MCNamespaces
  Loopback <- MCLoopback
  Depth <- MCDepth
  None <- none
  MaxCalls = 3
INVARIANTS ChainIsCallPath DepthBounded TraceIsWhereItRaised OneRootPerTrace FramesOfOneHop
SYMMETRY Symmetric
