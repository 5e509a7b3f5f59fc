SPECIFICATION Spec
CONSTANTS
  f1 = f1
  f2 = f2
  r1 = r1
  r2 = r2
  a = a
  b = b
  h = h
  k = k
  File <- OneClusterFiles
  Report <- NoReports
  Source <- TwoClusters
  SourceOf <- TwoClustersOf
  NameOf <- Unique
  KeyOf <- Unique
  NoSource = NoSource
  Faults = {"kill", "short", "skip", "refuse", "lose", "late", "save"}
  Cuts = {"stub", "torn"}
  MaxFaults = 2
  MaxRecords = 3
  Disciplined = FALSE
INVARIANTS NothingLost PushedIsAccepted
PROPERTIES CommittedUntilDropped ImplementsCustody
