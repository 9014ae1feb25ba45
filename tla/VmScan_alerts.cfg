SPECIFICATION Spec
CONSTANTS
  N = 2
  M = 1
  Vmi = {1, 2}
  NsOf <- OneNamespace
  Confs <- AllOn
  MaxMoves = 3
  MaxFaults = 1
  NoFile = NoFile
  Sent = Sent
  Stray = Stray
INVARIANTS
  TypeOK
  FiringsAccounted
  SuppressionJustified
  MailsAccounted
