SPECIFICATION LiveSpec
CONSTANTS
  Loggers = {g1, g2}
  Runner = Runner
  MaxCalls = 1
  MaxTexts = 1
  Torn = Torn
  None = None
CHECK_DEADLOCK FALSE
INVARIANTS ShownInFileOrder FiledIsShown ViewportHasLogs
PROPERTIES CallsReturn LastStatusIsShown
