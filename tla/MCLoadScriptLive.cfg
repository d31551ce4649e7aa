SPECIFICATION FairScriptSpec
CONSTANTS
  Packets = {p1, p2}
  Clients = {w1, w2, main}
  Main = main
  QueueSize = 1
  SelfRelay = TRUE
  MaxLeaked = 4
  NumPackets = 1
  MaxRetries = 2
  ChanSize = 1
  NoOne = NoOne
  Background = Background
CHECK_DEADLOCK FALSE
PROPERTIES
  FlushIsComplete
  MainEnds
