SPECIFICATION Spec
CONSTANTS
  N = 2
  M = 1
  Vmi = {1, 2}
  NsOf <- OneNamespace
  Confs <- Silent
  MaxMoves = 0
  MaxFaults = 0
  NoFile = NoFile
  Sent = Sent
  Stray = Stray
PROPERTY SuccessFoundNone
