CONSTANTS
  c1 = c1
  c2 = c2
  Clients = {c1, c2}
  Gateway = Gateway
  NoClient = NoClient
  ByteUs = 8
  SlotsPerGateway = 2
  DefaultSlots = 2
  TableSize = 5
  NewClientCap = 3
  ClientFrame = 6
  ClientTxStart = 2
  ClientTxDuration = 2
  MaxDelayWithoutTx = 4
  RetrySlots = {5}
  MaxFrame = 6
  WrapSlots = 8
  MayReset = {c1, c2, Gateway}
  MaxResets = 1
SPECIFICATION TimelySpec
PROPERTY SpeaksAgain
