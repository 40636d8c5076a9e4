SPECIFICATION Spec
CONSTANTS
  Nil = Nil
  Executors = {e1, e2}
  Jobs = {j1}
  Requests = {r1}
  Ops = {"createExecutor", "createJob", "updateJob", "setJobStatus", "deleteJob"}
  Faults = {"db"}
PROPERTIES
  StatusCanBeSet
CHECK_DEADLOCK FALSE
