SPECIFICATION Spec
CONSTANTS
  Transfers = {t1, t2}
  Relays = {r1}
  NonceFails = TRUE
  FirstNonce = 0
  GasPrices = {1, 2}
CHECK_DEADLOCK FALSE
SYMMETRY Symmetry
INVARIANTS
  RevertsOnlyAfterLoss
  SentOnce
  SoleUserNeverRejected
PROPERTY PromiseSpec
