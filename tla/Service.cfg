SPECIFICATION FairSpec
CONSTANTS
  Nil = Nil
  Callers = {a, b}
  Jobs = {good, bad}
  BadJobs = {bad}
  SlotNum = 2
  Interval = 1
  Delays = {1}
  MaxStarts = 2
  MaxTicks = 3
INVARIANTS
  TypeOK
  LoadedJobsAreHeld
  FlagTellsWheel
  PanicNeedsTwoStarts
PROPERTIES
  CallsReturn
CHECK_DEADLOCK FALSE
