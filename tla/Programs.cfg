CONSTANTS
  Size = 3
  Data = {a, b}
  NoData = NoData
  IpcPackets = 3
  Preempt = FALSE
  Wrap = 4
  Delays = {2}
  Periods = {2}
  TickWrap = 16
  Timeout = 3
  CheckPeriod = 2
  Payloads <- MCPayloads
  Checksums <- MCChecksums
  BufferSize = 6
  LhWrap = 14
  RotorPeriod = 7
  SecondSweep = 3
  SweepPeriod = 8
  Threshold = 2
  MaxValidTime = 7
  LhSize = 2
  MaxSweeps = 7
  AccTop = 1
  DoublesTop = 1
  MaxOverflows = 2
SPECIFICATION ProgramsSpec
INVARIANTS
  TypeOK IndexInv SearchSeesUnlessFull
  IpcTypeOK CallbackReadsWhole NewestReachesCallback ReturnsFulfilled
  RxListens PacketsHandedOver DelayWakes AlarmKept
  NeverRunsAway FramesGetThrough SweepsApart ReadsEveryStep
PROPERTIES RefinesFifo CallsReturn
