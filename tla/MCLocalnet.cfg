SPECIFICATION Spec
CONSTANTS
  Calls = {1, 2}
  Timeout = 3
  Interval = 2
  RetryWait = 1
  Retries = 2
  MaxSlot = 1
CHECK_DEADLOCK FALSE
INVARIANTS ReturnedIsReady LeftoversAreGone PollIsBounded
PROPERTIES SpinUpReturns
