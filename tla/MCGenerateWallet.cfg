SPECIFICATION Spec
CONSTANTS
  Procs = {p1, p2}
  ChainIDs = {c1, c2}
  WalletIDs = {a, b}
  Imported = Imported
  None = None
CHECK_DEADLOCK FALSE
SYMMETRY Symmetry
INVARIANTS
  FileStaysWhole
  FundedKeyIsKept
PROPERTY CompletedIsSaved
