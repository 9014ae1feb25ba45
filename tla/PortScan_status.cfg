SPECIFICATION Spec
CONSTANTS
  N = 3
  File = {1, 2, 3}
  FileOf <- OwnFiles
  Malformed = {3}
  Confs <- Edited
  MaxOutages = 2
  MaxFaults = 0
  MaxEdits = 2
  NoFile = NoFile
  Sent = Sent
  Stray = Stray
CHECK_DEADLOCK FALSE
INVARIANT NeverForgotten
PROPERTIES
  SuccessMeansAllAnswered
  LaterScanStoresWhatItFound
  NoOutageDropped
  ImplementsLifecycle
