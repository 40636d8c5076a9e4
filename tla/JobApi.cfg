SPECIFICATION Spec
CONSTANTS
  Nil = Nil
  Executors = {e1, e2}
  Jobs = {j1}
  Requests = {r1, r2}
  Ops = {"createExecutor", "updateExecutor", "setExecutorStatus", "deleteExecutor",
         "createJob", "updateJob", "setJobStatus", "deleteJob"}
  Faults = {"db"}
SYMMETRY Symmetry
INVARIANTS
  TypeOK
  ClientErrorLeavesNothing
CHECK_DEADLOCK FALSE
