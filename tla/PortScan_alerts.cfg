SPECIFICATION Spec
CONSTANTS
  N = 2
  File = {1, 2}
  FileOf <- OwnFiles
  Malformed = {}
  Confs <- AllOn
  MaxOutages = 2
  MaxFaults = 2
  MaxEdits = 0
  NoFile = NoFile
  Sent = Sent
  Stray = Stray
INVARIANTS
  TypeOK
  FiringsAccounted
  SuppressionJustified
  MailsAccounted
