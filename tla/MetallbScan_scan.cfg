SPECIFICATION FairSpec
CONSTANTS
  s1 = s1
  s2 = s2
  n1 = n1
  a1 = a1
  Node = {n1}
  NodeOf <- SameNode
  Ad = {a1}
  AdOf <- SameAd
  Svc = {s1, s2}
  Endpoints = 1
  Events <- Several
  AtFirst <- Some
  MayChange = {"services", "rolling"}
  Confs <- Pausing
  MaxChanges = 1
  MaxFaults = 0
INVARIANT NeverForgotten
PROPERTIES
  FailingChecksAreListed
  HealedChecksAreDropped
  FailureIsReported
  RecoveryIsReported
