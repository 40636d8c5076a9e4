SPECIFICATION Spec
CONSTANTS
  Nil = Nil
  Nodes = {n1}
  Jobs = {j1}
  Requests = {r1}
  Callbacks = {c1}
  Crons = {good}
  ValidCrons = {good}
  Callers = {"local"}
  Ops = {"create", "pause", "resume", "delete"}
  Faults = {}
INVARIANTS
  RemovedJobStaysRemoved
CHECK_DEADLOCK FALSE
