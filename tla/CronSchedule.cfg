SPECIFICATION Spec
CONSTANTS
  Nil = Nil
  Lost = Lost
  Nodes = {n1, n2, n3}
  Interval = 2
  Period = 9
  RunTimes = {0, 5}
  TTL = 10
  MaxTime = 32
INVARIANTS
  TypeOK
  FiresOnTime
  OnlyBriefTriggersRepeat
  EveryOccurrenceTriggered
  NoOccurrenceMissed
PROPERTIES
  RefinesTimer
CHECK_DEADLOCK FALSE
