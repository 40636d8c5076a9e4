SPECIFICATION Spec
CONSTANTS
  Nil = Nil
  Lost = Lost
  Nodes = {n1, n2}
  Interval = 2
  Period = 9
  RunTimes = {0, 1}
  TTL = 10
  MaxTime = 48
INVARIANTS
  OncePerOccurrence
CHECK_DEADLOCK FALSE
