SPECIFICATION Spec
CONSTANTS
  a = a
  b = b
  N = 2
  M = 1
  Pod = {a}
  PodOf <- OnePod
  NsOf <- OneNamespace
  Confs <- Alerting
  MaxChanges = 2
  MaxFaults = 1
  MaxEdits = 0
  NoFile = NoFile
  Sent = Sent
  Stray = Stray
INVARIANTS
  TypeOK
  FiringsAccounted
  ResolvedWasFired
