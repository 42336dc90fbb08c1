CONSTANTS
  AccTop = 1
  DoublesTop = 1
  MaxOverflows = 3
SPECIFICATION QdecSpec
INVARIANT ReadsWholeTotal
