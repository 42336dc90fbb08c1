CONSTANTS
  c1 = c1
  Clients = {c1}
  Packets <- ShortAndLong
  ByteUs = 64
  TxCap = 4
  DefaultFrame = 6
  DefaultTxStart = 2
  DefaultTxDuration = 2
  MaxDelayWithoutTx = 4
  RetrySlots = {4, 5}
  MaxFrame = 6
  WrapSlots = 8
  AnnouncedTables <- GatewayTables
  AnnouncedFrames = {2, 3}
  AppTables <- PartTimeTables
SPECIFICATION FairSpec
INVARIANTS TypeOK OffIsTimed
PROPERTIES
  ReceiverStaysOn KeepsTheConnection FlushSendsAll AsksUntilRegistered
  HearsAgain
