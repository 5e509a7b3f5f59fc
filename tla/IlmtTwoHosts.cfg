SPECIFICATION Spec
CONSTANTS
  h1 = h1
  h2 = h2
  Host <- TwoHosts
  LastDay = 4
  Dates = {}
  Midnight = FALSE
  Faults = {"skip"}
  MaxFaults = 1
INVARIANT NoDaySkipped
