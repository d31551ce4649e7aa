SPECIFICATION Spec
CONSTANTS
  Transfers = {t1, t2}
  Relays = {r1, r2}
SYMMETRY Symmetry
CHECK_DEADLOCK FALSE
INVARIANTS
  SentOnce
  SoleUserRejectedAfterLoss
PROPERTIES
  RefusedForPending
  PromiseSpec
