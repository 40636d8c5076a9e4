----------------------------- MODULE JobApiProofs -----------------------------
(* What JobApi promises of the two tables and of the answers, for any number *)
(* of executors, jobs and requests, and with failing database calls.         *)
EXTENDS JobApi, TLAPS

(* The inductive invariant: types; a request that is under way has passed    *)
(* the checks and names a row of the right table; an id in use is not fresh, *)
(* so a row that is gone stays gone.                                         *)
Sound(q) ==
  q # Nil =>
    /\ q.pc = "write" => Accepts(q.op, q.body)
    /\ q.pc = "read" => q.op = "setJobStatus"
    /\ (q.pc \in {"write", "read"} /\ q.op \notin CreateOps) =>
         q.id \in (IF q.op \in ExecutorOps THEN Executors ELSE Jobs)
    /\ (q.pc \in {"write", "400"}) => ~q.wrote
    /\ (q.pc \in {"read", "404"} /\ q.wrote) => (q.id \in Jobs /\ q.id \notin fresh)
    /\ (q.pc = "404" /\ q.wrote) => job[q.id] = Nil

InUse ==
  /\ \A e \in Executors : executor[e] # Nil => e \notin fresh
  /\ \A j \in Jobs : job[j] # Nil => j \notin fresh

ApiInv == TypeOK /\ (\A r \in Requests : Sound(req[r])) /\ InUse

-----------------------------------------------------------------------------
(* A request that goes on to a step, or is answered, stays a request. *)
LEMMA AtStepIsRequest ==
  ASSUME NEW q \in Request, NEW pc \in {"write", "read", "schedule"} \cup Answers, NEW body \in Body
  PROVE  LET p == AtStep(q, pc, body) IN
           /\ p \in Request
           /\ p.op = q.op /\ p.id = q.id /\ p.pc = pc /\ p.wrote = q.wrote
           /\ pc \notin Answers => p.body = body
<1>1. Empty \in Body
  <2>1. body.executor \in Executors
    BY DEF Body
  <2>2. (CHOOSE e \in Executors : TRUE) \in Executors
    BY <2>1
  <2> QED BY <2>2 DEF Empty, Body
<1>2. (IF pc \in Answers THEN Empty ELSE body) \in Body
  BY <1>1
<1> QED BY <1>2 DEF AtStep, Request

(* A request that only moves on by itself, the tables being left alone. *)
LEMMA StepKeepsInv ==
  ASSUME ApiInv, UNCHANGED <<executor, job, fresh>>,
         NEW r \in Requests, NEW q \in Request \cup {Nil},
         req' = [req EXCEPT ![r] = q], Sound(q)
  PROVE  ApiInv'
<1>1. TypeOK'
  BY DEF ApiInv, TypeOK
<1>2. ASSUME NEW s \in Requests PROVE Sound(req[s])'
  <2>1. CASE s = r
    <3>1. req'[s] = q
      BY <2>1 DEF ApiInv, TypeOK
    <3> QED BY <3>1 DEF Sound
  <2>2. CASE s # r
    <3>1. req'[s] = req[s]
      BY <2>2 DEF ApiInv, TypeOK
    <3> QED BY <3>1 DEF ApiInv, Sound
  <2> QED BY <2>1, <2>2
<1> QED BY <1>1, <1>2 DEF ApiInv, InUse

(* The end of a statement. *)
LEMMA ReplyIsRequest ==
  ASSUME TypeOK, NEW r \in Requests, req[r] # Nil,
         NEW id \in Executors \cup Jobs \cup {Nil}, NEW next \in {"read", "schedule", "2xx", "500"},
         Reply(r, id, next)
  PROVE  \E q \in Request :
           /\ req' = [req EXCEPT ![r] = q]
           /\ q.op = req[r].op /\ q.id = id /\ q.pc \in {next, "500"}
           /\ q.wrote = (executor' # executor \/ job' # job)
<1>1. PICK pc \in {next, "500"} :
        req' = [req EXCEPT ![r] = [AtStep(req[r], pc, req[r].body) EXCEPT !.id = id,
                                     !.wrote = (executor' # executor \/ job' # job)]]
  BY DEF Reply, TypeOK
<1> DEFINE p == AtStep(req[r], pc, req[r].body)
           w == (executor' # executor \/ job' # job)
           q == [p EXCEPT !.id = id, !.wrote = w]
<1>2. req[r] \in Request /\ req[r].body \in Body
  BY DEF TypeOK, Request
<1>3. pc \in {"write", "read", "schedule"} \cup Answers
  BY DEF Answers
<1>4. p \in Request /\ p.op = req[r].op /\ p.pc = pc
  BY <1>2, <1>3, AtStepIsRequest
<1>5. w \in BOOLEAN
  OBVIOUS
<1> HIDE DEF p, w
<1>6. q \in Request /\ q.op = p.op /\ q.id = id /\ q.pc = p.pc /\ q.wrote = w
  BY <1>4, <1>5 DEF Request
<1>7. req' = [req EXCEPT ![r] = q]
  BY <1>1 DEF p, w
<1> QED BY <1>4, <1>6, <1>7 DEF w

(* A statement and its answer: it is enough to look at the tables. *)
LEMMA StatementKeepsInv ==
  ASSUME ApiInv, NEW r \in Requests, req[r] # Nil, req[r].pc = "write",
         NEW id \in Executors \cup Jobs \cup {Nil}, NEW next \in {"read", "schedule", "2xx", "500"},
         Reply(r, id, next),
         next = "read" => req[r].op = "setJobStatus" /\ id \in Jobs,
         next = "read" /\ job' # job => id \notin fresh',
         next = "read" => executor' = executor,
         executor' \in [Executors -> ExecutorStatus \cup {Nil}],
         job' \in [Jobs -> JobRow \cup {Nil}],
         fresh' \subseteq fresh,
         \A j \in Jobs : j \notin fresh /\ job[j] = Nil => job'[j] = Nil,
         InUse'
  PROVE  ApiInv'
<1>1. PICK q \in Request :
        /\ req' = [req EXCEPT ![r] = q]
        /\ q.op = req[r].op /\ q.id = id /\ q.pc \in {next, "500"}
        /\ q.wrote = (executor' # executor \/ job' # job)
  BY ReplyIsRequest DEF ApiInv
<1>2. TypeOK'
  BY <1>1 DEF ApiInv, TypeOK
<1>3. ASSUME NEW s \in Requests PROVE Sound(req[s])'
  <2>1. CASE s = r
    <3>1. req'[s] = q
      BY <1>1, <2>1 DEF ApiInv, TypeOK
    <3>2. "setJobStatus" \notin CreateOps /\ "setJobStatus" \notin ExecutorOps
      BY DEF CreateOps, ExecutorOps
    <3>3. CASE q.pc = "read"
      <4>1. next = "read"
        BY <1>1, <3>3
      <4>2. q.wrote => job' # job
        BY <1>1, <4>1
      <4> QED BY <1>1, <3>1, <3>2, <3>3, <4>1, <4>2 DEF Sound
    <3>4. CASE q.pc # "read"
      <4>1. q.pc \notin {"write", "400", "404", "read"}
        BY <1>1, <3>4
      <4> QED BY <3>1, <4>1 DEF Sound
    <3> QED BY <3>3, <3>4
  <2>2. CASE s # r
    <3>1. req'[s] = req[s] /\ Sound(req[s])
      BY <1>1, <2>2 DEF ApiInv, TypeOK
    <3> QED BY <3>1 DEF Sound
  <2> QED BY <2>1, <2>2
<1> QED BY <1>2, <1>3 DEF ApiInv

-----------------------------------------------------------------------------
LEMMA InitInv == Init => ApiInv
<1> SUFFICES ASSUME Init PROVE ApiInv
  OBVIOUS
<1>1. TypeOK
  BY DEF Init, TypeOK, ExecutorStatus
<1>2. \A r \in Requests : Sound(req[r])
  BY DEF Init, Sound
<1>3. InUse
  BY IdAssumption DEF Init, InUse
<1> QED BY <1>1, <1>2, <1>3 DEF ApiInv

LEMMA ReceiveKeepsInv ==
  ASSUME ApiInv, NEW r \in Requests, NEW op \in Ops,
         NEW id \in Executors \cup Jobs \cup {Nil}, NEW body \in Body, Receive(r, op, id, body)
  PROVE  ApiInv'
<1> DEFINE new == [op |-> op, id |-> id, body |-> body, wrote |-> FALSE, pc |-> "write"]
           pc == IF Accepts(op, body) THEN "write" ELSE "400"
           q == AtStep(new, pc, body)
<1>1. new \in Request
  BY ChoiceAssumption DEF Request
<1>2. /\ q \in Request /\ q.op = op /\ q.id = id /\ q.pc = pc /\ ~q.wrote
      /\ pc = "write" => q.body = body
  <2>1. pc \in {"write", "read", "schedule"} \cup Answers /\ (pc = "write" => pc \notin Answers)
    BY DEF Answers
  <2>2. new.op = op /\ new.id = id /\ new.wrote = FALSE
    OBVIOUS
  <2> HIDE DEF new, pc
  <2> QED BY <1>1, <2>1, <2>2, AtStepIsRequest
<1>3. req' = [req EXCEPT ![r] = q] /\ UNCHANGED <<executor, job, fresh>>
  BY DEF Receive
<1>4. op \notin CreateOps => id \in (IF op \in ExecutorOps THEN Executors ELSE Jobs)
  BY DEF Receive
<1>5. pc = "write" => Accepts(op, body)
  OBVIOUS
<1>6. pc \in {"write", "400"}
  OBVIOUS
<1> HIDE DEF q, pc
<1>7. Sound(q)
  <2>1. CASE pc = "write"
    BY <1>2, <1>4, <1>5, <2>1 DEF Sound
  <2>2. CASE pc = "400"
    BY <1>2, <2>2 DEF Sound
  <2> QED BY <1>6, <2>1, <2>2
<1> QED BY <1>2, <1>3, <1>7, StepKeepsInv

(* The requests that write job_executor. *)
LEMMA ExecutorRequestsKeepInv ==
  ASSUME ApiInv, NEW r \in Requests,
         \/ \E e \in Executors : CreateExecutor(r, e)
         \/ UpdateExecutor(r) \/ SetExecutorStatus(r) \/ DeleteExecutor(r)
  PROVE  ApiInv'
<1>1. TypeOK /\ InUse /\ Sound(req[r])
  BY DEF ApiInv
<1>2. ASSUME NEW e \in Executors, CreateExecutor(r, e) PROVE ApiInv'
  <2>1. /\ At(r, "createExecutor") /\ fresh' = fresh \ {e} /\ job' = job
        /\ executor' = [executor EXCEPT ![e] = StoredStatus(req[r].body.status)]
        /\ Reply(r, e, "2xx")
    BY <1>2 DEF CreateExecutor
  <2>2. StoredStatus(req[r].body.status) \in ExecutorStatus
    <3>1. req[r].body.status \in {0, 1}
      BY <1>1, <2>1 DEF At, Sound, Accepts, ValidExecutor, ExecutorStatus,
           DeleteOps
    <3> QED BY <3>1 DEF StoredStatus, ExecutorStatus
  <2>3. executor' \in [Executors -> ExecutorStatus \cup {Nil}] /\ job' \in [Jobs -> JobRow \cup {Nil}]
    BY <1>1, <2>1, <2>2 DEF TypeOK
  <2>4. InUse'
    BY <1>1, <2>1, <2>2, NilAssumption DEF InUse, TypeOK, JobRow
  <2> QED BY <2>1, <2>3, <2>4, StatementKeepsInv DEF At
<1>3. CASE UpdateExecutor(r)
  <2>1. At(r, "updateExecutor") /\ job' = job /\ fresh' = fresh /\ Reply(r, req[r].id, "2xx")
    BY <1>3 DEF UpdateExecutor
  <2>2. req[r].body.status \in ExecutorStatus /\ req[r].id \in Executors
    BY <1>1, <2>1 DEF At, Sound, Accepts, ValidExecutor, DeleteOps, CreateOps, ExecutorOps
  <2>3. /\ executor' \in [Executors -> ExecutorStatus \cup {Nil}] /\ job' \in [Jobs -> JobRow \cup {Nil}]
        /\ \A e \in Executors : executor'[e] = Nil <=> executor[e] = Nil
    BY <1>1, <1>3, <2>1, <2>2, NilAssumption DEF UpdateExecutor, UpdatesStatus, TypeOK
  <2>4. InUse'
    BY <1>1, <2>1, <2>3 DEF InUse, TypeOK, JobRow
  <2> QED BY <2>1, <2>2, <2>3, <2>4, StatementKeepsInv DEF At
<1>4. CASE SetExecutorStatus(r)
  <2>1. At(r, "setExecutorStatus") /\ job' = job /\ fresh' = fresh /\ Reply(r, req[r].id, "2xx")
    BY <1>4 DEF SetExecutorStatus
  <2>2. req[r].body.status \in ExecutorStatus /\ req[r].id \in Executors
    BY <1>1, <2>1 DEF At, Sound, Accepts, DeleteOps, CreateOps, ExecutorOps
  <2>3. /\ executor' \in [Executors -> ExecutorStatus \cup {Nil}] /\ job' \in [Jobs -> JobRow \cup {Nil}]
        /\ \A e \in Executors : executor'[e] = Nil <=> executor[e] = Nil
    BY <1>1, <1>4, <2>1, <2>2, NilAssumption DEF SetExecutorStatus, TypeOK
  <2>4. InUse'
    BY <1>1, <2>1, <2>3 DEF InUse, TypeOK, JobRow
  <2> QED BY <2>1, <2>2, <2>3, <2>4, StatementKeepsInv DEF At
<1>5. CASE DeleteExecutor(r)
  <2>1. /\ At(r, "deleteExecutor") /\ job' = JobsLeft(req[r].id) /\ fresh' = fresh
        /\ executor' = [executor EXCEPT ![req[r].id] = Nil]
        /\ Reply(r, req[r].id, "2xx")
    BY <1>5 DEF DeleteExecutor
  <2>2. req[r].id \in Executors
    BY <1>1, <2>1 DEF At, Sound, CreateOps, ExecutorOps
  <2>3. /\ executor' \in [Executors -> ExecutorStatus \cup {Nil}]
        /\ job' \in [Jobs -> JobRow \cup {Nil}]
        /\ \A j \in Jobs : job'[j] # Nil => job'[j] = job[j] /\ job[j] # Nil /\ job[j].executor # req[r].id
    BY <1>1, <2>1, <2>2 DEF JobsLeft, TypeOK
  <2>4. InUse'
    BY <1>1, <2>1, <2>2, <2>3 DEF InUse, TypeOK, JobRow
  <2>5. \A j \in Jobs : j \notin fresh /\ job[j] = Nil => job'[j] = Nil
    BY <2>3
  <2> QED BY <2>1, <2>2, <2>3, <2>4, <2>5, StatementKeepsInv DEF At
<1> QED BY <1>2, <1>3, <1>4, <1>5

(* The requests that write job_info. *)
LEMMA JobRequestsKeepInv ==
  ASSUME ApiInv, NEW r \in Requests,
         \/ \E j \in Jobs : CreateJob(r, j)
         \/ UpdateJob(r) \/ SetJobStatus(r) \/ DeleteJob(r)
  PROVE  ApiInv'
<1>1. TypeOK /\ InUse /\ Sound(req[r])
  BY DEF ApiInv
<1>2. ASSUME NEW j \in Jobs, CreateJob(r, j) PROVE ApiInv'
  <2> DEFINE body == req[r].body
             row == [executor |-> body.executor, cron |-> body.cron, status |-> body.status]
  <2>1. At(r, "createJob") /\ j \in fresh
    BY <1>2 DEF CreateJob
  <2>2. CASE executor[body.executor] # Nil
    <3>1. /\ fresh' = fresh \ {j} /\ executor' = executor
          /\ job' = [job EXCEPT ![j] = row]
          /\ Reply(r, j, IF body.status = 1 THEN "schedule" ELSE "2xx")
      BY <1>2, <2>2 DEF CreateJob
    <3>2. body \in Body /\ body.cron # "blank" /\ body.status \in JobStatus
      BY <1>1, <2>1 DEF At, TypeOK, Request, Sound, Accepts, ValidJob, DeleteOps
    <3>3. row \in JobRow /\ row.executor = body.executor
      BY <3>2 DEF Body, JobRow
    <3> HIDE DEF row
    <3>4. job' \in [Jobs -> JobRow \cup {Nil}]
      BY <1>1, <3>1, <3>3 DEF TypeOK
    <3>5. InUse'
      BY <1>1, <2>2, <3>1, <3>3 DEF InUse, TypeOK
    <3>6. \A i \in Jobs : i \notin fresh /\ job[i] = Nil => job'[i] = Nil
      BY <1>1, <2>1, <3>1 DEF TypeOK
    <3> QED BY <1>1, <2>1, <3>1, <3>4, <3>5, <3>6, StatementKeepsInv DEF At, TypeOK
  <2>3. CASE executor[body.executor] = Nil
    <3>1. executor' = executor /\ job' = job /\ fresh' = fresh /\ Reply(r, Nil, "500")
      BY <1>2, <2>3 DEF CreateJob, RepoErr
    <3>2. InUse'
      BY <1>1, <3>1 DEF InUse
    <3> QED BY <1>1, <2>1, <3>1, <3>2, StatementKeepsInv DEF At, TypeOK
  <2> QED BY <2>2, <2>3
<1>3. CASE UpdateJob(r)
  <2> DEFINE j == req[r].id
             body == req[r].body
  <2>1. At(r, "updateJob") /\ executor' = executor /\ fresh' = fresh
    BY <1>3 DEF UpdateJob
  <2>2. j \in Jobs /\ body \in Body /\ body.cron # "blank" /\ body.status \in JobStatus
    BY <1>1, <2>1 DEF At, TypeOK, Request, Sound, Accepts, ValidJob, DeleteOps, CreateOps, ExecutorOps
  <2>3. PICK next \in {"2xx", "500"} : Reply(r, j, next)
    BY <1>3 DEF UpdateJob, RepoErr
  <2>4. \/ job' = job
        \/ /\ job[j] # Nil /\ executor[body.executor] # Nil
           /\ job' = [job EXCEPT ![j] = Merged(job[j], body)]
    BY <1>1, <1>3, <2>2 DEF UpdateJob, TypeOK
  <2>5. job[j] # Nil => Merged(job[j], body) \in JobRow /\ Merged(job[j], body).executor = body.executor
    BY <1>1, <2>2 DEF TypeOK, Merged, JobRow, Body, JobStatus
  <2>6. /\ job' \in [Jobs -> JobRow \cup {Nil}]
        /\ \A i \in Jobs : job[i] = Nil => job'[i] = Nil
    BY <1>1, <2>2, <2>4, <2>5 DEF TypeOK
  <2>7. InUse'
    BY <1>1, <2>1, <2>2, <2>4, <2>5, <2>6 DEF InUse, TypeOK
  <2> QED BY <1>1, <2>1, <2>2, <2>3, <2>6, <2>7, StatementKeepsInv DEF At, TypeOK
<1>4. CASE SetJobStatus(r)
  <2> DEFINE j == req[r].id
             status == req[r].body.status
  <2>1. /\ At(r, "setJobStatus") /\ executor' = executor /\ fresh' = fresh
        /\ job' = IF job[j] = Nil THEN job ELSE [job EXCEPT ![j].status = status]
        /\ Reply(r, j, IF status = 1 THEN "read" ELSE "2xx")
    BY <1>4 DEF SetJobStatus
  <2>2. j \in Jobs /\ status \in JobStatus
    BY <1>1, <2>1 DEF At, Sound, Accepts, DeleteOps, CreateOps, ExecutorOps
  <2>3. job[j] # Nil => [job[j] EXCEPT !.status = status] \in JobRow
                        /\ [job[j] EXCEPT !.status = status].executor = job[j].executor
    BY <1>1, <2>2 DEF TypeOK, JobRow
  <2>4. /\ job' \in [Jobs -> JobRow \cup {Nil}]
        /\ \A i \in Jobs : job[i] = Nil => job'[i] = Nil
        /\ \A i \in Jobs : job[i] # Nil /\ job'[i] # Nil => job'[i].executor = job[i].executor
    BY <1>1, <2>1, <2>2, <2>3 DEF TypeOK
  <2>5. InUse'
    BY <1>1, <2>1, <2>4 DEF InUse
  <2>6. job' # job => j \notin fresh
    BY <1>1, <2>1, <2>2 DEF InUse
  <2> QED BY <1>1, <2>1, <2>2, <2>4, <2>5, <2>6, StatementKeepsInv DEF At, TypeOK
<1>5. CASE DeleteJob(r)
  <2>1. /\ At(r, "deleteJob") /\ executor' = executor /\ fresh' = fresh
        /\ job' = [job EXCEPT ![req[r].id] = Nil]
        /\ Reply(r, req[r].id, "2xx")
    BY <1>5 DEF DeleteJob
  <2>2. req[r].id \in Jobs
    BY <1>1, <2>1 DEF At, Sound, CreateOps, ExecutorOps
  <2>3. /\ job' \in [Jobs -> JobRow \cup {Nil}]
        /\ \A i \in Jobs : job'[i] # Nil => job'[i] = job[i] /\ job[i] # Nil
    BY <1>1, <2>1, <2>2 DEF TypeOK
  <2>4. InUse'
    BY <1>1, <2>1, <2>3 DEF InUse
  <2> QED BY <1>1, <2>1, <2>2, <2>3, <2>4, StatementKeepsInv DEF At, TypeOK
<1> QED BY <1>2, <1>3, <1>4, <1>5

(* The steps that leave the tables alone. *)
LEMMA OtherStepsKeepInv ==
  ASSUME ApiInv, NEW r \in Requests, ReadBack(r) \/ ScheduleJob(r) \/ DbFails(r)
  PROVE  ApiInv'
<1> DEFINE id == req[r].id
<1>1. req[r] \in Request /\ Sound(req[r]) /\ req[r] # Nil /\ req[r].body \in Body
  BY DEF ApiInv, TypeOK, ReadBack, ScheduleJob, DbFails, Request
<1>2. UNCHANGED <<executor, job, fresh>>
  BY DEF ReadBack, ScheduleJob, DbFails
<1>3. Empty \in Body
  <2>1. (CHOOSE e \in Executors : TRUE) \in Executors
    BY <1>1 DEF Body
  <2> QED BY <2>1 DEF Empty, Body
<1>4. CASE ReadBack(r)
  <2>1. req[r].pc = "read" /\ id \in Jobs
    BY <1>1, <1>4 DEF ReadBack, Sound, CreateOps, ExecutorOps
  <2>2. CASE job[id] = Nil
    <3> DEFINE q == AtStep(req[r], "404", Empty)
    <3>1. req' = [req EXCEPT ![r] = q]
      BY <1>4, <2>2 DEF ReadBack, RepoErr
    <3>2. q \in Request /\ q.id = id /\ q.pc = "404" /\ q.wrote = req[r].wrote
      <4>1. "404" \in {"write", "read", "schedule"} \cup Answers
        BY DEF Answers
      <4> QED BY <1>1, <1>3, <4>1, AtStepIsRequest
    <3>3. Sound(q)
      BY <1>1, <2>1, <2>2, <3>2 DEF Sound
    <3> HIDE DEF q
    <3> QED BY <1>2, <3>1, <3>2, <3>3, StepKeepsInv
  <2>3. CASE job[id] # Nil
    <3> DEFINE body == [req[r].body EXCEPT !.cron = job[id].cron]
               q == AtStep(req[r], "schedule", body)
    <3>1. req' = [req EXCEPT ![r] = q]
      BY <1>4, <2>3 DEF ReadBack
    <3>2. body \in Body
      BY <1>1, <2>1, <2>3 DEF ApiInv, TypeOK, JobRow, Body
    <3> HIDE DEF body
    <3>3. q \in Request /\ q.pc = "schedule"
      BY <1>1, <3>2, AtStepIsRequest DEF Answers
    <3>4. Sound(q)
      BY <3>3 DEF Sound
    <3> HIDE DEF q
    <3> QED BY <1>2, <3>1, <3>3, <3>4, StepKeepsInv
  <2> QED BY <2>2, <2>3
<1>5. CASE ScheduleJob(r) \/ DbFails(r)
  <2>1. PICK pc \in {"2xx", "500"} : req' = [req EXCEPT ![r] = AtStep(req[r], pc, Empty)]
    BY <1>1, <1>5 DEF ScheduleJob, DbFails, RepoErr, ApiInv, TypeOK
  <2> DEFINE q == AtStep(req[r], pc, Empty)
  <2>2. q \in Request /\ q.pc = pc
    <3>1. pc \in {"write", "read", "schedule"} \cup Answers
      BY DEF Answers
    <3> QED BY <1>1, <1>3, <3>1, AtStepIsRequest
  <2>3. Sound(q)
    BY <2>2 DEF Sound
  <2> HIDE DEF q
  <2>4. req' = [req EXCEPT ![r] = q]
    BY <2>1 DEF q
  <2> QED BY <1>2, <2>2, <2>3, <2>4, StepKeepsInv
<1> QED BY <1>4, <1>5

LEMMA ApiInvHolds == Spec => []ApiInv
<1>1. ApiInv /\ [Next]_vars => ApiInv'
  <2> SUFFICES ASSUME ApiInv, [Next]_vars PROVE ApiInv'
    OBVIOUS
  <2>1. CASE Next
    BY <2>1, ReceiveKeepsInv, ExecutorRequestsKeepInv, JobRequestsKeepInv, OtherStepsKeepInv DEF Next
  <2>2. CASE UNCHANGED vars
    BY <2>2 DEF vars, ApiInv, TypeOK, Sound, InUse
  <2> QED BY <2>1, <2>2
<1> QED BY <1>1, InitInv, PTL DEF Spec

-----------------------------------------------------------------------------
(* Every variable keeps its type. *)
THEOREM Typing == Spec => []TypeOK
<1>1. ApiInv => TypeOK
  BY DEF ApiInv
<1> QED BY <1>1, ApiInvHolds, PTL

(* A request that was answered 400 or 404 has left nothing in the tables. *)
THEOREM ClientErrorsAreHarmless == Spec => []ClientErrorLeavesNothing
<1>1. ApiInv => ClientErrorLeavesNothing
  BY DEF ApiInv, Sound, ClientErrorLeavesNothing
<1> QED BY <1>1, ApiInvHolds, PTL
=============================================================================
