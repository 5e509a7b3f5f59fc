SPECIFICATION Spec
CONSTANTS
  p1 = p1
  p2 = p2
  c1 = c1
  c2 = c2
  x1 = x1
  h1 = h1
  Proc <- TwoProcs
  Cluster <- TwoClusters
  Context <- TwoClusters
  ClusterOf <- SameName
  Host <- OneHost
  Value = {1, 2}
  NoValue = NoValue
  Faults = {"kill", "fail", "tear"}
  MaxFaults = 1
  MaxCommands = 3
INVARIANTS Exclusive SourcesResolve
PROPERTIES SavedAsMeant EndpointsKept
CHECK_DEADLOCK FALSE
