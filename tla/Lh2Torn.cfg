CONSTANTS
  LhWrap = 14
  RotorPeriod = 7
  SecondSweep = 3
  SweepPeriod = 8
  Threshold = 2
  MaxValidTime = 7
  LhSize = 2
  MaxSweeps = 7
SPECIFICATION Lh2Spec
INVARIANT BitsKeepTheirTime
