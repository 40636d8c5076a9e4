SPECIFICATION FairSpec
CONSTANTS
  Nil = Nil
  Triggers = {t1, t2}
  Executors = {e1, e2}
  Faults = {"db", "panic", "crash", "silent"}
INVARIANTS
  TypeOK
  ExecutionIsLogged
  LogTellsOutcome
  SuccessIsLogged
PROPERTIES
  StatusMovesForward
  ExecutionGetsOutcome
CHECK_DEADLOCK FALSE
