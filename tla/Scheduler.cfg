SPECIFICATION FairSpec
CONSTANTS
  Nil = Nil
  Nodes = {n1, n2}
  Jobs = {j1}
  Requests = {r1}
  Callbacks = {c1, c2}
  Crons = {good, bad}
  ValidCrons = {good}
  Callers = {"local"}
  Ops = {"create", "update", "pause", "resume", "delete", "executor"}
  Faults = {"panic", "db", "redis", "ttl", "crash", "stop"}
INVARIANTS
  TypeOK
  RunningJobIsScheduled
  StoppedJobIsUnscheduled
  TriggerIsExclusive
  KeyIsAccountedFor
PROPERTIES
  RefinesLease
  ServedJobTriggers
CHECK_DEADLOCK FALSE
