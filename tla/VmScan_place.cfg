SPECIFICATION FairSpec
CONSTANTS
  N = 2
  M = 2
  Vmi = {1, 2}
  NsOf <- Spread
  Confs <- MaySuspend
  MaxMoves = 2
  MaxFaults = 1
  NoFile = NoFile
  Sent = Sent
  Stray = Stray
INVARIANT NonViolatedListsNothing
PROPERTIES
  VerdictIsThatOfTheTail
  ImplementsLifecycle
  PlacementIsReported
  MigrationsSettle
