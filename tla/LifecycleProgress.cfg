SPECIFICATION FairSpec
CONSTANTS
  f1 = f1
  f2 = f2
  r1 = r1
  r2 = r2
  a = a
  b = b
  h = h
  k = k
  File <- OneClusterFiles
  Report <- NoReports
  Source <- TwoClusters
  SourceOf <- TwoClustersOf
  NameOf <- Unique
  KeyOf <- Unique
  NoSource = NoSource
  Faults = {"kill", "skip", "refuse", "lose", "late", "save"}
  Cuts = {}
  MaxFaults = 1
  MaxRecords = 3
  Disciplined = TRUE
PROPERTIES EventuallyDelivered EventuallyReleased
