SPECIFICATION FairSpec
CONSTANTS
  Packets = {p1, p2, p3}
  Clients = {g1, g2}
  QueueSize = 2
  SelfRelay = FALSE
  MaxLeaked = 1
  NoOne = NoOne
  Background = Background
INVARIANTS
  PacketPlacement
  CompletedAreReceived
PROPERTIES
  FlushWaitIsComplete
  LedgerSpec
  CallsReturn
  BatchesFinish
