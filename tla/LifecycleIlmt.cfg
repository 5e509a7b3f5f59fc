SPECIFICATION Spec
CONSTANTS
  f1 = f1
  f2 = f2
  r1 = r1
  r2 = r2
  a = a
  b = b
  h = h
  k = k
  File <- MixedFiles
  Report <- MixedReports
  Source <- MixedSources
  SourceOf <- MixedSourceOf
  NameOf <- OneReportName
  KeyOf <- OneReportName
  NoSource = NoSource
  Faults = {"kill", "short", "skip", "refuse", "lose", "late", "save"}
  Cuts = {"stub", "torn"}
  MaxFaults = 1
  MaxRecords = 2
  Disciplined = FALSE
SYMMETRY HostsExchanged
INVARIANTS LedgerInv NothingLost RecordsHaveEntries
PROPERTIES OnlyPullForgetsAPush DryPushTakesNoAction ImplementsCustody
