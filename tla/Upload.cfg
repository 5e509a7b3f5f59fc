SPECIFICATION RepeatedSpec
CONSTANTS
  f1 = f1
  f2 = f2
  File <- TwoFiles
  NoFile = NoFile
  Steps = 4
  Allowed <- SomeFaults
INVARIANTS TypeOK PushedWasSent OutageIsHidden Accounted
PROPERTIES PushedOnce EveryPushEnds EventuallyPushed ImplementsPush
