SPECIFICATION Spec
CONSTANTS
  c1 = c1
  c2 = c2
  Clients = {c1, c2}
  Counterparty <- Swapped
  Port = Port
  Empty = Empty
  MaxTxs = 2
  MaxMsgs = 2
CHECK_DEADLOCK FALSE
INVARIANTS ParsedIsSent SeenIsReceived RelayedIsReceived
  TransferredIsAcked
