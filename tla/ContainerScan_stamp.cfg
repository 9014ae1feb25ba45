SPECIFICATION Spec
CONSTANTS
  a = a
  b = b
  N = 3
  M = 2
  Pod = {a, b}
  PodOf <- PodOf3
  NsOf <- NsOf2
  Confs <- Silent
  MaxChanges = 0
  MaxFaults = 0
  MaxEdits = 0
  NoFile = NoFile
  Sent = Sent
  Stray = Stray
PROPERTY StampMeansNoFailure
