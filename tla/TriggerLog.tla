----------------------------- MODULE TriggerLog -----------------------------
(***************************************************************************)
(* TriggerService.TriggerJob and the job_log row it writes through         *)
(* LogService and LogRepository.                                           *)
(*                                                                         *)
(* The triggers are those of one job.  Each makes a row of its own, which  *)
(* names the job and the executor the trigger found in the job it was      *)
(* given, and then takes the row through its states with one database call *)
(* after the other.  The calls of several triggers interleave with each    *)
(* other, with the job's move to another executor, and with the deletion   *)
(* of the job or of an executor, which deletes the rows that name it by    *)
(* cascade.  Nothing spans two calls: TriggerJob opens no transaction, and *)
(* an error it meets half-way undoes nothing.                              *)
(***************************************************************************)
EXTENDS Integers

CONSTANTS
  Triggers,   \* calls of TriggerJob for the job
  Executors,  \* the executors the job has had or may get
  Faults,     \* subset of {"db", "panic", "crash", "silent"}
  Nil

Final  == {"success", "failed"}
Status == {"pending", "running"} \cup Final

ASSUME FaultAssumption == Faults \subseteq {"db", "panic", "crash", "silent"}
ASSUME NilAssumption   == Nil \notin Status \cup Executors

VARIABLES
  job,        \* the executor in the row of the job, or Nil when there is no such row
  executors,  \* the executors whose row exists
  row,        \* row[t]: the status of the log row of t, or Nil
  pc,         \* pc[t]: the call t makes next
  caller,     \* caller[t]: the HTTP "handler" or the scheduler's "callback"
  executor,   \* executor[t]: the executorID TriggerJob was called with
  outcome,    \* outcome[t]: what run returned: "none" yet, "ok", "error" or "silent"
  answer,     \* answer[t]: what TriggerJob returned: "none" yet, "ok" or "error"
  failed      \* history: the triggers that met a fault

tables == <<job, executors>>
call   == <<caller, executor>>
vars   == <<tables, row, pc, call, outcome, answer, failed>>

Init ==
  /\ job \in Executors
  /\ executors = Executors
  /\ row = [t \in Triggers |-> Nil]
  /\ pc = [t \in Triggers |-> "idle"]
  /\ caller = [t \in Triggers |-> "callback"]
  /\ executor = [t \in Triggers |-> Nil]
  /\ outcome = [t \in Triggers |-> "none"]
  /\ answer = [t \in Triggers |-> "none"]
  /\ failed = {}

-----------------------------------------------------------------------------
GoTo(t, next) == pc' = [pc EXCEPT ![t] = next] /\ UNCHANGED answer

Return(t, result) ==
  /\ pc' = [pc EXCEPT ![t] = "done"]
  /\ answer' = [answer EXCEPT ![t] = result]

\* An UPDATE by id: one that matches no row is not an error.
Write(t, status) ==
  row' = IF row[t] = Nil THEN row ELSE [row EXCEPT ![t] = status]

\* The rows that the row of t names by its foreign keys exist.
Referenced(t) == job # Nil /\ executor[t] \in executors

(* The handler has read the job before it calls TriggerJob; the callback     *)
(* holds the row its ScheduleJob was given, of a job that may be gone or     *)
(* may have had any other executor at the time.                              *)
Begin(t, by) ==
  /\ pc[t] = "idle"
  /\ caller' = [caller EXCEPT ![t] = by]
  /\ \E e \in Executors :
       /\ by = "handler" => e = job
       /\ executor' = [executor EXCEPT ![t] = e]
  /\ GoTo(t, "create")
  /\ UNCHANGED <<tables, row, outcome, failed>>

(* Create.  The foreign keys refuse a row whose job or executor is gone. *)
Create(t) ==
  /\ pc[t] = "create"
  /\ IF Referenced(t)
       THEN row' = [row EXCEPT ![t] = "pending"] /\ GoTo(t, "read")
       ELSE UNCHANGED row /\ Return(t, "error")
  /\ UNCHANGED <<tables, call, outcome, failed>>

(* MarkRunning reads the row ... *)
MarkRunningRead(t) ==
  /\ pc[t] = "read"
  /\ IF row[t] # Nil THEN GoTo(t, "start") ELSE Return(t, "error")
  /\ UNCHANGED <<tables, row, call, outcome, failed>>

(* ... and writes it back with the status and the start time set. *)
MarkRunningWrite(t) ==
  /\ pc[t] = "start"
  /\ Write(t, "running")
  /\ GoTo(t, "run")
  /\ UNCHANGED <<tables, call, outcome, failed>>

(* run returns nil or an error; the handler's always returns nil.  The text  *)
(* of an error may be empty.                                                 *)
Run(t) ==
  /\ pc[t] = "run"
  /\ \E result \in {"ok", "error"} \cup (Faults \cap {"silent"}) :
       /\ caller[t] = "handler" => result = "ok"
       /\ outcome' = [outcome EXCEPT ![t] = result]
  /\ GoTo(t, "end")
  /\ UNCHANGED <<tables, row, call, failed>>

MarkSuccess(t) ==
  /\ pc[t] = "end" /\ outcome[t] = "ok"
  /\ Write(t, "success")
  /\ Return(t, "ok")
  /\ UNCHANGED <<tables, call, outcome, failed>>

(* Mutants of MarkFailed: a status outside the enumeration is written; a      *)
(* failure is taken for a success; nothing is written.                       *)
MarkFailedRaw(t) ==
  /\ pc[t] = "end" /\ outcome[t] \in {"error", "silent"}
  /\ Write(t, outcome[t])
  /\ Return(t, "error")
  /\ UNCHANGED <<tables, call, outcome, failed>>

MarkFailedAsSuccess(t) ==
  /\ pc[t] = "end" /\ outcome[t] \in {"error", "silent"}
  /\ Write(t, "success")
  /\ Return(t, "error")
  /\ UNCHANGED <<tables, call, outcome, failed>>

ReturnUnmarked(t) ==
  /\ pc[t] = "end" /\ outcome[t] \in {"error", "silent"}
  /\ Return(t, "error")
  /\ UNCHANGED <<tables, row, call, outcome, failed>>

(* MarkFailed refuses an empty message, and its answer is ignored. *)
MarkFailed(t) ==
  /\ pc[t] = "end" /\ outcome[t] \in {"error", "silent"}
  /\ IF outcome[t] = "error" THEN Write(t, "failed") ELSE UNCHANGED row
  /\ Return(t, "error")
  /\ UNCHANGED <<tables, call, outcome, failed>>

-----------------------------------------------------------------------------
(* Mutants of DbFails: an error of MarkRunning is ignored; one of             *)
(* MarkSuccess is ignored; TriggerJob runs once more after an error.         *)
DbFailsBeforeRun(t) ==
  /\ "db" \in Faults
  /\ pc[t] \in {"read", "start"}
  /\ GoTo(t, "run")
  /\ UNCHANGED <<tables, row, call, outcome, failed>>

DbFailsUnnoticed(t) ==
  /\ "db" \in Faults
  /\ pc[t] = "end" /\ outcome[t] = "ok"
  /\ Return(t, "ok")
  /\ UNCHANGED <<tables, row, call, outcome, failed>>

DbFailsAndRetries(t) ==
  /\ "db" \in Faults
  /\ pc[t] = "end" /\ outcome[t] = "ok"
  /\ Write(t, "success")
  /\ GoTo(t, "read")
  /\ UNCHANGED <<tables, call, outcome, failed>>

(* A database call fails, its context being done or its connection lost,     *)
(* before or after the statement took effect.  TriggerJob returns the error  *)
(* (the one of run, if run failed).                                          *)
DbFails(t) ==
  /\ "db" \in Faults
  /\ pc[t] \in {"create", "read", "start", "end"}
  /\ \/ UNCHANGED row
     \/ pc[t] = "create" /\ Referenced(t) /\ row' = [row EXCEPT ![t] = "pending"]
     \/ pc[t] = "start" /\ Write(t, "running")
     \/ pc[t] = "end" /\ outcome[t] = "ok" /\ Write(t, "success")
     \/ pc[t] = "end" /\ outcome[t] = "error" /\ Write(t, "failed")
  /\ Return(t, "error")
  /\ failed' = failed \cup {t}
  /\ UNCHANGED <<tables, call, outcome>>

(* run panics, and safeRun or the Recovery middleware recovers far above     *)
(* TriggerJob; or the process ends.                                          *)
Die(t) ==
  /\ \/ "panic" \in Faults /\ pc[t] = "run"
     \/ "crash" \in Faults /\ pc[t] \notin {"idle", "done"}
  /\ GoTo(t, "done")
  /\ failed' = failed \cup {t}
  /\ UNCHANGED <<tables, row, call, outcome>>

(* PUT /job/:id names another executor; the rows keep the one they have. *)
MoveJob(e) ==
  /\ job # Nil /\ e \in executors
  /\ job' = e
  /\ UNCHANGED <<executors, row, pc, call, outcome, answer, failed>>

DeleteJob ==
  /\ job # Nil
  /\ job' = Nil
  /\ row' = [t \in Triggers |-> Nil]
  /\ UNCHANGED <<executors, pc, call, outcome, answer, failed>>

(* An executor takes along its jobs, with their rows, and the rows that name *)
(* it, also those of a job that has moved to another executor since.         *)
DeleteExecutor(e) ==
  /\ e \in executors
  /\ executors' = executors \ {e}
  /\ job' = IF job = e THEN Nil ELSE job
  /\ row' = [t \in Triggers |-> IF e \in {job, executor[t]} THEN Nil ELSE row[t]]
  /\ UNCHANGED <<pc, call, outcome, answer, failed>>

-----------------------------------------------------------------------------
TriggerStep(t) ==
  \/ Create(t) \/ MarkRunningRead(t) \/ MarkRunningWrite(t)
  \/ Run(t) \/ MarkSuccess(t) \/ MarkFailed(t)

Next ==
  \/ \E t \in Triggers :
       \/ \E by \in {"handler", "callback"} : Begin(t, by)
       \/ TriggerStep(t) \/ DbFails(t) \/ Die(t)
  \/ DeleteJob
  \/ \E e \in Executors : MoveJob(e) \/ DeleteExecutor(e)

Spec == Init /\ [][Next]_vars

\* A goroutine that can run does run, its calls return, and so does run.
StepFairness(t) == WF_vars(TriggerStep(t))

Fairness == \A t \in Triggers : StepFairness(t)

FairSpec == Spec /\ Fairness

-----------------------------------------------------------------------------
TypeOK ==
  /\ job \in executors \cup {Nil}
  /\ executors \in SUBSET Executors
  /\ row \in [Triggers -> Status \cup {Nil}]
  /\ pc \in [Triggers -> {"idle", "create", "read", "start", "run", "end", "done"}]
  /\ caller \in [Triggers -> {"handler", "callback"}]
  /\ executor \in [Triggers -> Executors \cup {Nil}]
  /\ outcome \in [Triggers -> {"none", "ok", "error", "silent"}]
  /\ answer \in [Triggers -> {"none", "ok", "error"}]
  /\ failed \in SUBSET Triggers

(* The log is complete: from the moment run is entered, and whatever fails   *)
(* afterwards, the job's log has a row for the execution, no longer pending, *)
(* as long as the job and the executor the row names exist.                  *)
ExecutionIsLogged ==
  \A t \in Triggers :
    (Referenced(t) /\ (pc[t] \in {"run", "end"} \/ outcome[t] # "none")) =>
      row[t] \in {"running"} \cup Final

(* The log does not lie: a row says success or failed only of an execution   *)
(* that ended that way, also when TriggerJob could not tell its caller so.   *)
LogTellsOutcome ==
  \A t \in Triggers :
    /\ row[t] = "success" => outcome[t] = "ok"
    /\ row[t] = "failed" => outcome[t] = "error"

(* A caller that TriggerJob answered with a nil error finds the execution    *)
(* logged as a success, unless the job or the executor the row names has     *)
(* been deleted since.                                                       *)
SuccessIsLogged ==
  \A t \in Triggers : (answer[t] = "ok" /\ Referenced(t)) => row[t] = "success"

(* A row moves from pending to running to its final status and never back;   *)
(* it goes only with its job or with the executor it names, and does not     *)
(* come back.                                                                *)
Rank(status) ==
  CASE status = Nil -> 0 [] status = "pending" -> 1 [] status = "running" -> 2
    [] OTHER -> 3

StatusMovesForward ==
  [][\A t \in Triggers :
       /\ row'[t] # Nil => (row'[t] = row[t] \/ Rank(row'[t]) = Rank(row[t]) + 1)
       /\ (row[t] # Nil /\ row'[t] = Nil) => ~Referenced(t)']_vars

(* An execution that meets no fault, and whose error has a text, is logged   *)
(* with its outcome in the end, unless the job or the executor its row names *)
(* is deleted.                                                               *)
GetsOutcome(t) ==
  pc[t] = "run" ~> (row[t] \in Final \/ ~Referenced(t) \/ t \in failed \/ outcome[t] = "silent")

ExecutionGetsOutcome == \A t \in Triggers : GetsOutcome(t)
=============================================================================
