SPECIFICATION ScriptSpec
CONSTANTS
  Packets = {p1, p2, p3}
  Clients = {w1, main}
  Main = main
  QueueSize = 2
  SelfRelay = TRUE
  MaxLeaked = 4
  NumPackets = 3
  MaxRetries = 1
  ChanSize = 4
  NoOne = NoOne
  Background = Background
CHECK_DEADLOCK FALSE
INVARIANT DoneMeansRelayed
