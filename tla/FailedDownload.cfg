SPECIFICATION Spec
CONSTANTS
  f1 = f1
  f2 = f2
  r1 = r1
  r2 = r2
  a = a
  b = b
  h = h
  k = k
  File <- OneClusterFiles
  Report <- NoReports
  Source <- OneCluster
  SourceOf <- OneClusterOf
  NameOf <- Unique
  KeyOf <- Unique
  NoSource = NoSource
  Faults = {"short"}
  Cuts = {"stub", "cut", "torn"}
  MaxFaults = 1
  MaxRecords = 3
  Disciplined = TRUE
INVARIANT NothingLost
