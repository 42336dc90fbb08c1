CONSTANTS
  Wrap = 5
  Delays = {1, 2}
  Periods = {2, 3}
SPECIFICATION TimersSpec
INVARIANT DelayIsBounded
