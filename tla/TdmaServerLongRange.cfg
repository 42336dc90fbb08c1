CONSTANTS
  c1 = c1
  c2 = c2
  c3 = c3
  c4 = c4
  Clients = {c1, c2}
  Gateway = Gateway
  NoClient = NoClient
  Packets <- MCPackets
  ByteUs = 64
  SlotsPerGateway = 3
  DefaultSlots = 3
  TableSize = 5
  NewClientCap = 5
  TxCap = 2
SPECIFICATION Spec
PROPERTY TurnsAnswerSomebody
