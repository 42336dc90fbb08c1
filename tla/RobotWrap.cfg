CONSTANTS
  TickWrap = 32
  Timeout = 6
  CheckPeriod = 4
SPECIFICATION RobotSpec
INVARIANT StopsWhenSilent
