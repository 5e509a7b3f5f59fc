SPECIFICATION FetchSpec
CONSTANTS
  h1 = h1
  p1 = p1
  p2 = p2
  p3 = p3
  b1 = b1
  b2 = b2
  Host <- OneHost
  LastDay = 5
  Dates = {}
  Midnight = FALSE
  Faults = {"kill", "skip", "save"}
  MaxFaults = 2
  Product <- ThreeProducts
  Bundle <- TwoBundles
  NoBundle = NoBundle
  Assigned <- TwoAlone
  Limit = 2
  MaxMoves = 1
INVARIANTS FetchTypeOK NoDaySkipped DayCounted
PROPERTIES EventuallyCaughtUp ImplementsPull
