SPECIFICATION Spec
CONSTANTS
  f1 = f1
  f2 = f2
  File <- TwoFiles
  NoFile = NoFile
  Steps = 4
  Allowed <- SlowPush
INVARIANT PushedIsStored
