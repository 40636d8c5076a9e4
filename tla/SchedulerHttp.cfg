SPECIFICATION FairSpec
CONSTANTS
  Nil = Nil
  Nodes = {n1}
  Jobs = {j1}
  Requests = {r1}
  Callbacks = {c1}
  Crons = {good}
  ValidCrons = {good}
  Callers = {"http"}
  Ops = {"create", "pause", "resume", "delete"}
  Faults = {}
PROPERTIES
  RunningJobTriggers
CHECK_DEADLOCK FALSE
