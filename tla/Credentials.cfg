SPECIFICATION FairSpec
CONSTANTS
  c1 = c1
  c2 = c2
  Cluster <- TwoClusters
  NoCluster = NoCluster
  Life = 3
  MaxAge = 2
  Astray <- TwoClusters
  MaxFaults = 2
INVARIANTS TypeOK RefusalExplained OwnTokens
PROPERTY EveryoneServed
