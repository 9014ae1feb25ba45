SPECIFICATION FairSpec
CONSTANTS
  N = 2
  File = {1, 2}
  FileOf <- OwnFiles
  Malformed = {}
  Confs <- Channels
  MaxOutages = 2
  MaxFaults = 1
  MaxEdits = 0
  NoFile = NoFile
  Sent = Sent
  Stray = Stray
PROPERTIES
  DownIsReported
  UpIsReported
