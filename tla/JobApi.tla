------------------------------- MODULE JobApi -------------------------------
(***************************************************************************)
(* The HTTP API that writes job_executor and job_info: binding of the      *)
(* payload, the checks of the services, one SQL statement, and for a job   *)
(* that becomes running the calls that follow it (whose effect on the      *)
(* wheels is the subject of JobScheduler).  Requests run side by side; the *)
(* tables are tied by a foreign key with ON DELETE CASCADE.                *)
(*                                                                         *)
(* Of a payload the model keeps what the answers and the scheduler depend  *)
(* on.  A status is an int8: 2 stands for any that is neither 0 nor 1.  A  *)
(* cron expression is "good", "bad" (not empty, but NextDelay cannot parse *)
(* it) or "blank".                                                         *)
(***************************************************************************)
EXTENDS Integers

CONSTANTS
  Executors,  \* ids the database can assign to executors, each at most once
  Jobs,       \* ids the database can assign to jobs, each at most once
  Requests,   \* requests that may be in progress at once
  Ops,        \* the operations requested
  Faults,     \* subset of {"db"}
  Nil

CreateOps   == {"createExecutor", "createJob"}
UpdateOps   == {"updateExecutor", "updateJob"}
StatusOps   == {"setExecutorStatus", "setJobStatus"}
DeleteOps   == {"deleteExecutor", "deleteJob"}
ExecutorOps == {"createExecutor", "updateExecutor", "setExecutorStatus", "deleteExecutor"}

ASSUME ChoiceAssumption ==
  /\ Ops \subseteq CreateOps \cup UpdateOps \cup StatusOps \cup DeleteOps
  /\ Faults \subseteq {"db"}

JobStatus      == {0, 1}   \* paused, running
ExecutorStatus == {0, 1}   \* disabled, enabled

JobRow == [executor : Executors, cron : {"good", "bad"}, status : JobStatus]

Body == [executor : Executors, cron : {"good", "bad", "blank"}, status : {0, 1, 2}]

ASSUME IdAssumption == Executors \cap Jobs = {}
ASSUME NilAssumption == Nil \notin JobRow /\ Nil \notin ExecutorStatus /\ Nil \notin Executors \cup Jobs

VARIABLES
  executor,  \* executor[e]: the status in the row of e, or Nil
  job,       \* job[j]: the row of j, or Nil
  fresh,     \* ids not yet assigned
  req        \* req[r]: the request of r: its operation and payload, the step it
             \* is at or its answer (pc), and whether it changed a row (wrote)

vars == <<executor, job, fresh, req>>

Answers == {"2xx", "400", "404", "500"}

Request ==
  [op : CreateOps \cup UpdateOps \cup StatusOps \cup DeleteOps,
   id : Executors \cup Jobs \cup {Nil}, body : Body,
   pc : {"write", "read", "schedule"} \cup Answers, wrote : BOOLEAN]

\* init_db.sql leaves some executors, all enabled; the jobs are left to come.
Init ==
  /\ executor \in [Executors -> {1, Nil}]
  /\ job = [j \in Jobs |-> Nil]
  /\ fresh = Jobs \cup {e \in Executors : executor[e] = Nil}
  /\ req = [r \in Requests |-> Nil]

-----------------------------------------------------------------------------
\* An absent or zero status does not pass binding:"required".
BindsStatus(body) == body.status # 0

AcceptsAnything(op, body) == TRUE   \* mutant of Accepts

\* The validators of the two services.
ValidJob(body)      == body.cron # "blank" /\ body.status \in JobStatus
ValidExecutor(body) == body.status \in ExecutorStatus

\* What ShouldBindJSON and the validators let through.
Accepts(op, body) ==
  CASE op \in DeleteOps -> TRUE
    [] op = "setJobStatus" -> BindsStatus(body) /\ body.status \in JobStatus
    [] op = "setExecutorStatus" -> BindsStatus(body) /\ body.status \in ExecutorStatus
    [] op \in {"createJob", "updateJob"} -> ValidJob(body)
    [] OTHER -> ValidExecutor(body)

\* The payload fields an operation carries; the others are left as in Empty.
Empty == [executor |-> CHOOSE e \in Executors : TRUE, cron |-> "good", status |-> 0]

Carries(op, body) ==
  /\ op \notin {"createJob", "updateJob"} => body = [Empty EXCEPT !.status = body.status]
  /\ op \in DeleteOps => body = Empty

\* The request at a step with that payload, or answered, its payload done with.
AtStep(request, pc, body) ==
  [request EXCEPT !.pc = pc, !.body = IF pc \in Answers THEN Empty ELSE body]

(* A request arrives, for an id that exists, did exist or never will. *)
Receive(r, op, id, body) ==
  /\ req[r] # Nil => req[r].pc \in Answers
  /\ Carries(op, body)
  /\ IF op \in CreateOps THEN id = Nil
     ELSE id \in (IF op \in ExecutorOps THEN Executors ELSE Jobs)
  /\ req' = [req EXCEPT ![r] =
       AtStep([op |-> op, id |-> id, body |-> body, wrote |-> FALSE, pc |-> "write"],
              IF Accepts(op, body) THEN "write" ELSE "400", body)]
  /\ UNCHANGED <<executor, job, fresh>>

\* How the services pass on an error of a repository.
RepoErr(notFound) == IF notFound THEN "404" ELSE "500"

At(r, op) == req[r] # Nil /\ req[r].pc = "write" /\ req[r].op = op

\* The end of a statement: on to the next call or to the answer, or to a 500
\* because the connection fails after it took effect.
Reply(r, id, next) ==
  \E pc \in {next} \cup (IF "db" \in Faults THEN {"500"} ELSE {}) :
    req' = [req EXCEPT ![r] =
              [AtStep(@, pc, @.body) EXCEPT !.id = id,
                 !.wrote = (executor' # executor \/ job' # job)]]

-----------------------------------------------------------------------------
\* GORM gives a zero status the default of its column, 1.
StoredStatus(status) == IF status = 0 THEN 1 ELSE status

CreateExecutor(r, e) ==
  /\ At(r, "createExecutor") /\ e \in fresh
  /\ fresh' = fresh \ {e}
  /\ executor' = [executor EXCEPT ![e] = StoredStatus(req[r].body.status)]
  /\ UNCHANGED job
  /\ Reply(r, e, "2xx")

\* An UPDATE that matches no row is not an error; Updates skips a zero status.
UpdatesStatus(e, status) ==
  executor' = IF executor[e] = Nil \/ status = 0 THEN executor
              ELSE [executor EXCEPT ![e] = status]

UpdateExecutor(r) ==
  /\ At(r, "updateExecutor")
  /\ UpdatesStatus(req[r].id, req[r].body.status)
  /\ UNCHANGED <<job, fresh>>
  /\ Reply(r, req[r].id, "2xx")

SetExecutorStatus(r) ==
  /\ At(r, "setExecutorStatus")
  /\ LET e == req[r].id IN
       executor' = IF executor[e] = Nil THEN executor
                   ELSE [executor EXCEPT ![e] = req[r].body.status]
  /\ UNCHANGED <<job, fresh>>
  /\ Reply(r, req[r].id, "2xx")

\* The jobs that are left when an executor is deleted.
JobsLeft(e) == [j \in Jobs |-> IF job[j] # Nil /\ job[j].executor = e THEN Nil ELSE job[j]]

DeleteExecutor(r) ==
  /\ At(r, "deleteExecutor")
  /\ executor' = [executor EXCEPT ![req[r].id] = Nil]
  /\ job' = JobsLeft(req[r].id)
  /\ UNCHANGED fresh
  /\ Reply(r, req[r].id, "2xx")

-----------------------------------------------------------------------------
(* The row is stored; a running job is then scheduled.  The foreign key      *)
(* refuses an executor that does not exist.                                  *)
CreateJob(r, j) ==
  /\ At(r, "createJob") /\ j \in fresh
  /\ LET body == req[r].body IN
       IF executor[body.executor] # Nil
         THEN /\ fresh' = fresh \ {j}
              /\ job' = [job EXCEPT ![j] = [executor |-> body.executor, cron |-> body.cron,
                                            status |-> body.status]]
              /\ UNCHANGED executor
              /\ Reply(r, j, IF body.status = 1 THEN "schedule" ELSE "2xx")
         ELSE /\ UNCHANGED <<executor, job, fresh>>
              /\ Reply(r, Nil, RepoErr(FALSE))

\* A row with the fields of a payload that Updates does not skip.
Merged(row, body) ==
  [executor |-> body.executor, cron |-> body.cron,
   status |-> IF body.status = 0 THEN row.status ELSE body.status]

UpdateJob(r) ==
  /\ At(r, "updateJob")
  /\ UNCHANGED <<executor, fresh>>
  /\ LET j    == req[r].id
         body == req[r].body
     IN IF job[j] = Nil
          THEN UNCHANGED job /\ Reply(r, j, "2xx")
        ELSE IF executor[body.executor] = Nil
          THEN UNCHANGED job /\ Reply(r, j, RepoErr(FALSE))
        ELSE job' = [job EXCEPT ![j] = Merged(@, body)] /\ Reply(r, j, "2xx")

(* UpdateStatus: the row is written before it is known to exist. *)
SetJobStatus(r) ==
  /\ At(r, "setJobStatus")
  /\ LET j == req[r].id IN
       job' = IF job[j] = Nil THEN job
              ELSE [job EXCEPT ![j].status = req[r].body.status]
  /\ UNCHANGED <<executor, fresh>>
  /\ Reply(r, req[r].id, IF req[r].body.status = 1 THEN "read" ELSE "2xx")

(* Mutant of ReadBack: GetByID is given the executor's id for the job's, and  *)
(* finds nothing.                                                            *)
ReadBackOther(r) ==
  /\ req[r] # Nil /\ req[r].pc = "read"
  /\ req' = [req EXCEPT ![r] = AtStep(@, "404", Empty)]
  /\ UNCHANGED <<executor, job, fresh>>

(* ... and is read back for its cron expression. *)
ReadBack(r) ==
  /\ req[r] # Nil /\ req[r].pc = "read"
  /\ req' = [req EXCEPT ![r] =
       IF job[@.id] = Nil THEN AtStep(@, RepoErr(TRUE), Empty)
       ELSE AtStep(@, "schedule", [@.body EXCEPT !.cron = job[req[r].id].cron])]
  /\ UNCHANGED <<executor, job, fresh>>

\* parseSchedule; the handlers check only that an expression is not blank.
Parses(cron) == cron = "good"

(* ScheduleJob: an expression it cannot parse is an internal error, and so is *)
(* a wheel that does not run or has the job already (see JobScheduler).      *)
ScheduleJob(r) ==
  /\ req[r] # Nil /\ req[r].pc = "schedule"
  /\ \E pc \in {"500"} \cup (IF Parses(req[r].body.cron) THEN {"2xx"} ELSE {}) :
       req' = [req EXCEPT ![r] = AtStep(@, pc, Empty)]
  /\ UNCHANGED <<executor, job, fresh>>

DeleteJob(r) ==
  /\ At(r, "deleteJob")
  /\ job' = [job EXCEPT ![req[r].id] = Nil]
  /\ UNCHANGED <<executor, fresh>>
  /\ Reply(r, req[r].id, "2xx")

(* A database call fails before it took effect, or is refused (an app name   *)
(* that another executor has).                                               *)
DbFails(r) ==
  /\ "db" \in Faults
  /\ req[r] # Nil /\ req[r].pc \in {"write", "read"}
  /\ req' = [req EXCEPT ![r] = AtStep(@, RepoErr(FALSE), Empty)]
  /\ UNCHANGED <<executor, job, fresh>>

-----------------------------------------------------------------------------
Next ==
  \E r \in Requests :
    \/ \E op \in Ops, id \in Executors \cup Jobs \cup {Nil}, body \in Body :
         Receive(r, op, id, body)
    \/ \E e \in Executors : CreateExecutor(r, e)
    \/ UpdateExecutor(r) \/ SetExecutorStatus(r) \/ DeleteExecutor(r)
    \/ \E j \in Jobs : CreateJob(r, j)
    \/ UpdateJob(r) \/ SetJobStatus(r) \/ ReadBack(r) \/ ScheduleJob(r) \/ DeleteJob(r)
    \/ DbFails(r)

Spec == Init /\ [][Next]_vars

-----------------------------------------------------------------------------
TypeOK ==
  /\ executor \in [Executors -> ExecutorStatus \cup {Nil}]
  /\ job \in [Jobs -> JobRow \cup {Nil}]
  /\ fresh \in SUBSET (Executors \cup Jobs)
  /\ req \in [Requests -> Request \cup {Nil}]

(* A client that is told the request was wrong (400) or that its subject does *)
(* not exist (404) has changed nothing that is still there, whatever other   *)
(* requests did meanwhile.                                                   *)
ClientErrorLeavesNothing ==
  \A r \in Requests :
    (req[r] # Nil /\ req[r].pc \in {"400", "404"} /\ req[r].wrote) =>
      req[r].id \in Jobs /\ job[req[r].id] = Nil

(* A client may set a status to any value it has: the route of a job is there *)
(* to start and to pause it (job_handler.go, line 218), that of an executor  *)
(* to enable and to disable it (executor_handler.go, line 183).              *)
StatusCanBeSet ==
  [][\A r \in Requests, op \in StatusOps, id \in Executors \cup Jobs, body \in Body :
       (Receive(r, op, id, body) /\ body.status \in JobStatus) => req'[r].pc # "400"]_vars
=============================================================================
