SPECIFICATION ScriptSpec
CONSTANTS
  Packets = {p1, p2, p3, p4}
  Clients = {w1, w2, main}
  Main = main
  QueueSize = 2
  SelfRelay = FALSE
  MaxLeaked = 4
  NumPackets = 2
  MaxRetries = 3
  ChanSize = 3
  NoOne = NoOne
  Background = Background
SYMMETRY Symmetry
CHECK_DEADLOCK FALSE
INVARIANTS
  ClosedIsFinal
  ProgressIsMonotone
  ProgressIsTrue
  DoneMeansRelayed
