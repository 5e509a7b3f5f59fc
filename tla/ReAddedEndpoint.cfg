SPECIFICATION Spec
CONSTANTS
  p1 = p1
  p2 = p2
  c1 = c1
  c2 = c2
  x1 = x1
  h1 = h1
  Proc <- OneProc
  Cluster <- OneCluster
  Context <- OneContext
  ClusterOf <- OtherName
  Host <- OneHost
  Value = {1, 2}
  NoValue = NoValue
  Faults = {}
  MaxFaults = 0
  MaxCommands = 2
PROPERTY SavedAsMeant
CHECK_DEADLOCK FALSE
