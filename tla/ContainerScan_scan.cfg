SPECIFICATION FairSpec
CONSTANTS
  a = a
  b = b
  N = 3
  M = 2
  Pod = {a, b}
  PodOf <- PodOf3
  NsOf <- NsOf2
  Confs <- Toggled
  MaxChanges = 1
  MaxFaults = 0
  MaxEdits = 1
  NoFile = NoFile
  Sent = Sent
  Stray = Stray
CHECK_DEADLOCK FALSE
INVARIANT NeverForgotten
PROPERTIES
  VerdictIsOfTheFirstFailure
  ListFollowsTheLastContainer
  FailureIsReported
  RecoveryIsReported
