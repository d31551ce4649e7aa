SPECIFICATION ScriptSpec
CONSTANTS
  Packets = {p1}
  Clients = {w1, main}
  Main = main
  QueueSize = 2
  SelfRelay = TRUE
  MaxLeaked = 4
  NumPackets = 1
  MaxRetries = 1
  ChanSize = 4
  NoOne = NoOne
  Background = Background
CHECK_DEADLOCK FALSE
INVARIANT CompletedMeansSuccess
