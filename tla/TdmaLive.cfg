CONSTANTS
  c1 = c1
  c2 = c2
  Clients = {c1, c2}
  Gateway = Gateway
  NoClient = NoClient
  ByteUs = 8
  SlotsPerGateway = 2
  DefaultSlots = 2
  TableSize = 5
  NewClientCap = 3
  ClientFrame = 6
  ClientTxStart = 2
  ClientTxDuration = 2
  MaxDelayWithoutTx = 3
  RetrySlots = {4, 5}
  MaxFrame = 6
  WrapSlots = 8
  MayReset = {c1}
  MaxResets = 1
SPECIFICATION FairSpec
PROPERTY Settles
