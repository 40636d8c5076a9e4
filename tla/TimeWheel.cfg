SPECIFICATION Spec
CONSTANTS
  Nil = Nil
  Jobs = {j1, j2}
  SlotNum = 3
  Interval = 2
  Delays <- MCDelays
  Periods <- MCPeriods
  MaxTicks = 6
INVARIANTS
  TypeOK
  IndexAgrees
  StopWaitsForLoop
PROPERTIES
  RefinesTimer
CHECK_DEADLOCK FALSE
