SPECIFICATION FairDistributeSpec
CONSTANTS
  Wallets = {s, w1, w2}
  Sender = s
  Minimums = {3, 9}
  Funds = {0, 4, 30}
  Holdings = {0, 1, 2, 4, 9}
  Word = 8
  MaxRuns = 2
CHECK_DEADLOCK FALSE
INVARIANTS
  CompletedMeansFunded
PROPERTIES
  NeverOverfunded
  CompletedFundsEventually
