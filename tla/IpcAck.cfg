CONSTANTS
  IpcPackets = 3
SPECIFICATION IpcSpec
INVARIANT AckIsOfLatest
