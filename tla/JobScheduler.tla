---------------------------- MODULE JobScheduler ----------------------------
(***************************************************************************)
(* JobService and ScheduleService on the nodes of a cluster, over the      *)
(* job_info table they share, each node's own time wheel and the Redis     *)
(* trigger lock: who puts a job into a wheel, who takes it out, and what a *)
(* fired callback does before it schedules itself again.                   *)
(*                                                                         *)
(* A request of JobService begins with its write to the database and goes  *)
(* on with calls to the scheduler; requests, callbacks and the wheels'     *)
(* ticks interleave between those steps.  The wheel is the one TimeWheel   *)
(* refines, without its clock: an entry may fire at any later time.        *)
(***************************************************************************)
EXTENDS Integers, FiniteSets

CONSTANTS
  Nodes,       \* server processes
  Jobs,        \* ids the database can assign, each at most once
  Requests,    \* requests that may be in progress at once
  Callbacks,   \* callback goroutines that may be in progress at once
  Crons,       \* cron expressions that pass validateJobPayload
  ValidCrons,  \* those that NextDelay can parse
  Callers,     \* subset of {"local", "http"}: whose context a request carries
  Ops,         \* subset of {"create", "update", "pause", "resume", "delete", "executor"}
  Faults,      \* subset of {"panic", "db", "redis", "ttl", "crash", "stop"}
  Nil          \* no row, entry, request, callback or token

ASSUME CronAssumption   == ValidCrons \subseteq Crons
ASSUME ChoiceAssumption ==
  /\ Callers \subseteq {"local", "http"}
  /\ Ops \subseteq {"create", "update", "pause", "resume", "delete", "executor"}
  /\ Faults \subseteq {"panic", "db", "redis", "ttl", "crash", "stop"}

Row == [status : {"paused", "running"}, cron : Crons]

\* What a wheel holds for a job: the closure of ScheduleJob, with the job row
\* and the context it captured.  `live` is FALSE for the context of an HTTP
\* request, which net/http cancels when the handler returns; that is long over
\* when the entry fires, at least one tick after AddJob.
Entry == [cron : Crons, live : BOOLEAN]

Request == [job : Jobs, node : Nodes, caller : {"local", "http"}, cron : Crons \cup {Nil},
            pc : {"remove", "read", "add"}]

Callback == [job : Jobs, node : Nodes, cron : Crons, live : BOOLEAN,
             pc : {"lock", "trigger", "unlock", "rearm"}]

Orphan == "orphan"   \* a token nobody will present again

ASSUME NilAssumption ==
  /\ Nil \notin Row /\ Nil \notin Entry /\ Nil \notin Request /\ Nil \notin Callback
  /\ Nil \notin Callbacks /\ Orphan \notin Callbacks /\ Nil # Orphan /\ Nil \notin Crons

VARIABLES
  db,      \* db[j]: the row of j in job_info, or Nil
  fresh,   \* ids not yet assigned
  node,    \* node[n]: "down", "loading" (in Start), "up" or "stopping" (wheel stopped)
  batch,   \* batch[n][j]: the cron of j as Start of n has read it and not yet loaded, or Nil
  wheel,   \* wheel[n][j]: the entry of j in the wheel of n, or Nil
  req,     \* req[r]: a request between two of its steps, or Nil
  cb,      \* cb[c]: a fired callback between two of its steps, or Nil
  key,     \* key[j]: whose token the Redis key of j holds, or Nil
  late,    \* history: the callbacks that still trigger though the TTL of their key ended
  stray    \* history: <<n, j>> when something changed what the table says of j, or
           \* what n holds of it, and left the other as it was

vars == <<db, fresh, node, batch, wheel, req, cb, key, late, stray>>

Init ==
  /\ db = [j \in Jobs |-> Nil]
  /\ fresh = Jobs
  /\ node = [n \in Nodes |-> "down"]
  /\ batch = [n \in Nodes |-> [j \in Jobs |-> Nil]]
  /\ wheel = [n \in Nodes |-> [j \in Jobs |-> Nil]]
  /\ req = [r \in Requests |-> Nil]
  /\ cb = [c \in Callbacks |-> Nil]
  /\ key = [j \in Jobs |-> Nil]
  /\ late = {}
  /\ stray = {}

-----------------------------------------------------------------------------
IsRunning(j) == db[j] # Nil /\ db[j].status = "running"

Schedulable(j) == IsRunning(j) /\ db[j].cron \in ValidCrons

InFlight(n, j) == \E c \in Callbacks : cb[c] # Nil /\ cb[c].node = n /\ cb[c].job = j

\* n has j in its wheel, or something that is still to put it there.
Holds(n, j) == wheel[n][j] # Nil \/ InFlight(n, j) \/ batch[n][j] # Nil

Busy(j) == \E r \in Requests : req[r] # Nil /\ req[r].job = j

\* ScheduleJob's effect on the wheel of n: nothing when the cron expression
\* does not parse, the wheel is stopped, or the job is already in it.
Schedule(n, j, cron, live) ==
  wheel' = IF cron \in ValidCrons /\ node[n] = "up" /\ wheel[n][j] = Nil
             THEN [wheel EXCEPT ![n][j] = [cron |-> cron, live |-> live]]
             ELSE wheel

\* Every node may part with the table on the jobs js.
AllStray(js) == stray' = stray \cup (Nodes \X js)

\* Of all nodes, those of ns part with the table on j.
StrayOnly(j, ns) == stray' = {x \in stray : x[2] # j} \cup (ns \X {j})

-----------------------------------------------------------------------------
(* JobService: the first step of each request is its database write.       *)
Accepts(r, n, op) == op \in Ops /\ req[r] = Nil /\ node[n] = "up"

CreateJob(r, n, j, row, caller) ==
  /\ Accepts(r, n, "create") /\ j \in fresh
  /\ fresh' = fresh \ {j}
  /\ db' = [db EXCEPT ![j] = row]
  /\ req' = IF row.status = "running"
              THEN [req EXCEPT ![r] = [job |-> j, node |-> n, caller |-> caller,
                                       cron |-> row.cron, pc |-> "add"]]
              ELSE req
  /\ UNCHANGED <<node, batch, wheel, cb, key, late, stray>>

(* A write that took effect, but whose answer was lost: the request ends. *)
CreateUnanswered(n, j, row) ==
  /\ "db" \in Faults /\ "create" \in Ops /\ node[n] = "up" /\ j \in fresh
  /\ fresh' = fresh \ {j}
  /\ db' = [db EXCEPT ![j] = row]
  /\ AllStray({j})
  /\ UNCHANGED <<node, batch, wheel, req, cb, key, late>>

\* GORM's Updates skips zero fields, so the status "paused" (0) is not written.
\* No scheduler is told.
UpdateJob(n, j, row) ==
  /\ "update" \in Ops /\ node[n] = "up" /\ db[j] # Nil
  /\ db' = [db EXCEPT ![j] =
              [status |-> IF row.status = "running" THEN "running" ELSE @.status,
               cron |-> row.cron]]
  /\ IF Schedulable(j)' /\ ~Schedulable(j) THEN AllStray({j}) ELSE UNCHANGED stray
  /\ UNCHANGED <<fresh, node, batch, wheel, req, cb, key, late>>

\* Mutant of SetStatus: an upsert, which makes a row of the id and the status.
UpsertStatus(j, status) ==
  db' = [db EXCEPT ![j] = [status |-> status, cron |-> IF @ = Nil THEN Nil ELSE @.cron]]

\* UpdateStatus: an UPDATE that matches no row is not an error.  A pause has no
\* HTTP caller: the status 0 does not pass the `required` binding.
SetStatus(j, status) ==
  db' = IF db[j] = Nil THEN db ELSE [db EXCEPT ![j].status = status]

\* Mutant of PauseJob: the scheduler is not told.
PauseRowOnly(r, n, j) ==
  /\ Accepts(r, n, "pause") /\ j \notin fresh
  /\ SetStatus(j, "paused")
  /\ UNCHANGED <<fresh, node, batch, wheel, req, cb, key, late, stray>>

PauseJob(r, n, j) ==
  /\ Accepts(r, n, "pause") /\ j \notin fresh
  /\ SetStatus(j, "paused")
  /\ req' = [req EXCEPT ![r] = [job |-> j, node |-> n, caller |-> "local",
                                cron |-> Nil, pc |-> "remove"]]
  /\ UNCHANGED <<fresh, node, batch, wheel, cb, key, late, stray>>

ResumeJob(r, n, j, caller) ==
  /\ Accepts(r, n, "resume") /\ j \notin fresh
  /\ SetStatus(j, "running")
  /\ req' = [req EXCEPT ![r] = [job |-> j, node |-> n, caller |-> caller,
                                cron |-> Nil, pc |-> "read"]]
  /\ UNCHANGED <<fresh, node, batch, wheel, cb, key, late, stray>>

DeleteJob(r, n, j) ==
  /\ Accepts(r, n, "delete") /\ j \notin fresh
  /\ db' = [db EXCEPT ![j] = Nil]
  /\ req' = [req EXCEPT ![r] = [job |-> j, node |-> n, caller |-> "local",
                                cron |-> Nil, pc |-> "remove"]]
  /\ UNCHANGED <<fresh, node, batch, wheel, cb, key, late, stray>>

(* An executor is deleted: the rows of its jobs go by ON DELETE CASCADE, and *)
(* ExecutorService knows no scheduler.                                       *)
DeleteExecutor(n, js) ==
  /\ "executor" \in Ops /\ node[n] = "up"
  /\ js # {} /\ \A j \in js : db[j] # Nil
  /\ db' = [j \in Jobs |-> IF j \in js THEN Nil ELSE db[j]]
  /\ AllStray(js)
  /\ UNCHANGED <<fresh, node, batch, wheel, req, cb, key, late>>

(* The last step of a pause or a delete: RemoveJob on this node's wheel.     *)
(* The other nodes keep what they hold, and so does a callback of this one.  *)
RemoveFromWheel(r) ==
  /\ req[r] # Nil /\ req[r].pc = "remove"
  /\ LET j == req[r].job
         n == req[r].node
     IN /\ wheel' = [wheel EXCEPT ![n][j] = Nil]
        /\ IF IsRunning(j) THEN UNCHANGED stray
           ELSE StrayOnly(j, {m \in Nodes : IF m = n THEN InFlight(n, j) ELSE Holds(m, j)})
  /\ req' = [req EXCEPT ![r] = Nil]
  /\ UNCHANGED <<db, fresh, node, batch, cb, key, late>>

(* A resume reads the row back; without one it answers ErrJobNotFound. *)
ReadBack(r) ==
  /\ req[r] # Nil /\ req[r].pc = "read"
  /\ req' = [req EXCEPT ![r] =
               IF db[req[r].job] = Nil THEN Nil
               ELSE [@ EXCEPT !.cron = db[req[r].job].cron, !.pc = "add"]]
  /\ UNCHANGED <<db, fresh, node, batch, wheel, cb, key, late, stray>>

(* The answer of the write is lost, or GetByID fails: the request ends with  *)
(* its write done.                                                           *)
DbFails(r) ==
  /\ "db" \in Faults
  /\ req[r] # Nil /\ req[r].pc \in {"remove", "read"}
  /\ req' = [req EXCEPT ![r] = Nil]
  /\ AllStray({req[r].job})
  /\ UNCHANGED <<db, fresh, node, batch, wheel, cb, key, late>>

(* The last step of a create or a resume: ScheduleJob with the row it has.   *)
(* A node that does not hold the job learns nothing of it.                   *)
AddToWheel(r) ==
  /\ req[r] # Nil /\ req[r].pc = "add"
  /\ LET j == req[r].job
         n == req[r].node
     IN /\ Schedule(n, j, req[r].cron, req[r].caller = "local")
        /\ IF Schedulable(j)
             THEN StrayOnly(j, {m \in Nodes : IF m = n THEN req[r].cron \notin ValidCrons
                                              ELSE ~Holds(m, j)})
             ELSE UNCHANGED stray
  /\ req' = [req EXCEPT ![r] = Nil]
  /\ UNCHANGED <<db, fresh, node, batch, cb, key, late>>

-----------------------------------------------------------------------------
(* The wheel of n fires the entry of j. *)
Fire(n, j, c) ==
  /\ node[n] = "up" /\ wheel[n][j] # Nil /\ cb[c] = Nil
  /\ wheel' = [wheel EXCEPT ![n][j] = Nil]
  /\ cb' = [cb EXCEPT ![c] = [job |-> j, node |-> n, cron |-> wheel[n][j].cron,
                              live |-> wheel[n][j].live, pc |-> "lock"]]
  /\ UNCHANGED <<db, fresh, node, batch, req, key, late, stray>>

At(c, pc) == cb[c] # Nil /\ cb[c].pc = pc
GoTo(c, pc) == cb' = [cb EXCEPT ![c].pc = pc]

\* Mutant of AcquireLock: SET without NX.
SetLock(c) ==
  /\ At(c, "lock") /\ cb[c].live
  /\ key' = [key EXCEPT ![cb[c].job] = c]
  /\ GoTo(c, "trigger")
  /\ UNCHANGED <<db, fresh, node, batch, wheel, req, late, stray>>

\* Mutant of SkipTrigger: the callback returns where it does not get the lock.
SkipAndReturn(c) ==
  /\ At(c, "lock")
  /\ ~cb[c].live \/ key[cb[c].job] # Nil
  /\ cb' = [cb EXCEPT ![c] = Nil]
  /\ UNCHANGED <<db, fresh, node, batch, wheel, req, key, late, stray>>

(* triggerWithDistributedLock: SetNX answers that the key is taken, or sets it; *)
(* under a cancelled context, or when Redis fails, Lock returns an error.       *)
AcquireLock(c) ==
  /\ At(c, "lock") /\ cb[c].live /\ key[cb[c].job] = Nil
  /\ key' = [key EXCEPT ![cb[c].job] = c]
  /\ GoTo(c, "trigger")
  /\ UNCHANGED <<db, fresh, node, batch, wheel, req, late, stray>>

SkipTrigger(c) ==
  /\ At(c, "lock")
  /\ ~cb[c].live \/ key[cb[c].job] # Nil
  /\ GoTo(c, "rearm")
  /\ UNCHANGED <<db, fresh, node, batch, wheel, req, key, late, stray>>

(* Redis fails, before or after it has set the key. *)
LockFails(c) ==
  /\ "redis" \in Faults
  /\ At(c, "lock") /\ cb[c].live
  /\ \/ UNCHANGED key
     \/ /\ key[cb[c].job] = Nil
        /\ key' = [key EXCEPT ![cb[c].job] = Orphan]
  /\ GoTo(c, "rearm")
  /\ UNCHANGED <<db, fresh, node, batch, wheel, req, late, stray>>

Trigger(c) ==
  /\ At(c, "trigger")
  /\ GoTo(c, "unlock")
  /\ UNCHANGED <<db, fresh, node, batch, wheel, req, key, late, stray>>

\* unlockScript deletes the key only if it holds the token of c; when the call
\* fails, the token stays and nobody presents it again.
Release(c) ==
  \E left \in {Nil} \cup (IF "redis" \in Faults THEN {Orphan} ELSE {}) :
    key' = [key EXCEPT ![cb[c].job] = IF @ = c THEN left ELSE @]

\* Mutant of TriggerPanics: the unlock is not deferred.
PanicKeepsLock(c) ==
  /\ "panic" \in Faults
  /\ At(c, "trigger")
  /\ cb' = [cb EXCEPT ![c] = Nil]
  /\ stray' = stray \cup {<<cb[c].node, cb[c].job>>}
  /\ UNCHANGED <<db, fresh, node, batch, wheel, req, key>>
  /\ late' = late \ {c}

(* onTrigger panics: the deferred unlock runs and safeRun recovers, so the   *)
(* callback ends there and the job is not scheduled again.                   *)
TriggerPanics(c) ==
  /\ "panic" \in Faults
  /\ At(c, "trigger")
  /\ Release(c)
  /\ cb' = [cb EXCEPT ![c] = Nil]
  /\ stray' = stray \cup {<<cb[c].node, cb[c].job>>}
  /\ late' = late \ {c}
  /\ UNCHANGED <<db, fresh, node, batch, wheel, req>>

(* The deferred UnlockBestEffort. *)
Unlock(c) ==
  /\ At(c, "unlock")
  /\ Release(c)
  /\ GoTo(c, "rearm")
  /\ late' = late \ {c}
  /\ UNCHANGED <<db, fresh, node, batch, wheel, req, stray>>

(* The callback schedules itself again with the row and context it captured. *)
Rearm(c) ==
  /\ At(c, "rearm")
  /\ Schedule(cb[c].node, cb[c].job, cb[c].cron, cb[c].live)
  /\ cb' = [cb EXCEPT ![c] = Nil]
  /\ UNCHANGED <<db, fresh, node, batch, req, key, late, stray>>

\* Mutant of KeyExpires: the key has no TTL.
KeyStays(j) ==
  /\ key[j] = Orphan
  /\ UNCHANGED vars

(* The TTL ends: always for a token nobody will present, and under the fault *)
(* "ttl" for one whose trigger outlasts it (nothing calls Refresh).          *)
KeyExpires(j) ==
  /\ key[j] = Orphan \/ (key[j] # Nil /\ "ttl" \in Faults)
  /\ key' = [key EXCEPT ![j] = Nil]
  /\ late' = late \cup (Callbacks \cap {key[j]})
  /\ UNCHANGED <<db, fresh, node, batch, wheel, req, cb, stray>>

-----------------------------------------------------------------------------
(* main: scheduleService.Start starts the wheel, reads the running jobs ...  *)
BootRead(n) ==
  /\ node[n] = "down"
  /\ node' = [node EXCEPT ![n] = "loading"]
  /\ batch' = [batch EXCEPT ![n] =
                 [j \in Jobs |-> IF IsRunning(j) THEN db[j].cron ELSE Nil]]
  /\ stray' = {x \in stray : x[1] # n}
  /\ UNCHANGED <<db, fresh, wheel, req, cb, key, late>>

(* ... and loads them; one that cannot be scheduled makes Start fail, and    *)
(* main exits.                                                               *)
BootFill(n) ==
  /\ node[n] = "loading"
  /\ IF \E j \in Jobs : batch[n][j] # Nil /\ batch[n][j] \notin ValidCrons
       THEN node' = [node EXCEPT ![n] = "down"] /\ UNCHANGED wheel
       ELSE /\ node' = [node EXCEPT ![n] = "up"]
            /\ wheel' = [wheel EXCEPT ![n] =
                 [j \in Jobs |-> IF batch[n][j] = Nil THEN Nil
                                 ELSE [cron |-> batch[n][j], live |-> TRUE]]]
  /\ batch' = [batch EXCEPT ![n] = [j \in Jobs |-> Nil]]
  /\ UNCHANGED <<db, fresh, req, cb, key, late, stray>>

(* Shutdown has waited for the requests; Stop stops the wheel, not the       *)
(* callbacks it has launched.                                                *)
Stop(n) ==
  /\ "stop" \in Faults
  /\ node[n] = "up"
  /\ \A r \in Requests : req[r] # Nil => req[r].node # n
  /\ node' = [node EXCEPT ![n] = "stopping"]
  /\ UNCHANGED <<db, fresh, batch, wheel, req, cb, key, late, stray>>

(* The process ends, by a crash or at the end of main; what its requests     *)
(* have written is not passed on.                                            *)
Exit(n) ==
  /\ node[n] = "stopping" \/ (node[n] \in {"loading", "up"} /\ "crash" \in Faults)
  /\ node' = [node EXCEPT ![n] = "down"]
  /\ batch' = [batch EXCEPT ![n] = [j \in Jobs |-> Nil]]
  /\ wheel' = [wheel EXCEPT ![n] = [j \in Jobs |-> Nil]]
  /\ req' = [r \in Requests |-> IF req[r] # Nil /\ req[r].node = n THEN Nil ELSE req[r]]
  /\ cb' = [c \in Callbacks |-> IF cb[c] # Nil /\ cb[c].node = n THEN Nil ELSE cb[c]]
  /\ key' = [j \in Jobs |->
               IF key[j] \in Callbacks /\ cb[key[j]] # Nil /\ cb[key[j]].node = n
                 THEN Orphan ELSE key[j]]
  /\ AllStray({j \in Jobs : \E r \in Requests :
                  req[r] # Nil /\ req[r].node = n /\ req[r].job = j})
  /\ late' = {c \in late : cb'[c] # Nil}
  /\ UNCHANGED <<db, fresh>>

-----------------------------------------------------------------------------
RequestStep(r) == RemoveFromWheel(r) \/ ReadBack(r) \/ AddToWheel(r)

CallbackStep(c) == AcquireLock(c) \/ SkipTrigger(c) \/ Trigger(c) \/ Unlock(c) \/ Rearm(c)

Next ==
  \/ \E r \in Requests, n \in Nodes, j \in Jobs :
       \/ \E row \in Row, caller \in Callers : CreateJob(r, n, j, row, caller)
       \/ PauseJob(r, n, j)
       \/ \E caller \in Callers : ResumeJob(r, n, j, caller)
       \/ DeleteJob(r, n, j)
  \/ \E n \in Nodes, j \in Jobs, row \in Row :
       UpdateJob(n, j, row) \/ CreateUnanswered(n, j, row)
  \/ \E n \in Nodes, js \in SUBSET Jobs : DeleteExecutor(n, js)
  \/ \E r \in Requests : RequestStep(r) \/ DbFails(r)
  \/ \E n \in Nodes, j \in Jobs, c \in Callbacks : Fire(n, j, c)
  \/ \E c \in Callbacks : CallbackStep(c) \/ LockFails(c) \/ TriggerPanics(c)
  \/ \E j \in Jobs : KeyExpires(j)
  \/ \E n \in Nodes : BootRead(n) \/ BootFill(n) \/ Stop(n) \/ Exit(n)

Spec == Init /\ [][Next]_vars

\* Goroutines that can run do run, the wheel of a node that is up keeps
\* ticking, and Redis ends a TTL.  No request, fault or restart has to happen.
RequestFairness(r) == WF_vars(RequestStep(r))
CallbackFairness(c) == WF_vars(CallbackStep(c))
WheelFairness(n, j) == WF_vars(\E c \in Callbacks : Fire(n, j, c))
TTLFairness(j) == WF_vars(KeyExpires(j))

Fairness ==
  /\ \A r \in Requests : RequestFairness(r)
  /\ \A c \in Callbacks : CallbackFairness(c)
  /\ \A n \in Nodes, j \in Jobs : WheelFairness(n, j)
  /\ \A j \in Jobs : TTLFairness(j)

FairSpec == Spec /\ Fairness

-----------------------------------------------------------------------------
TypeOK ==
  /\ db \in [Jobs -> Row \cup {Nil}]
  /\ fresh \in SUBSET Jobs
  /\ node \in [Nodes -> {"down", "loading", "up", "stopping"}]
  /\ batch \in [Nodes -> [Jobs -> Crons \cup {Nil}]]
  /\ wheel \in [Nodes -> [Jobs -> Entry \cup {Nil}]]
  /\ req \in [Requests -> Request \cup {Nil}]
  /\ cb \in [Callbacks -> Callback \cup {Nil}]
  /\ key \in [Jobs -> Callbacks \cup {Nil, Orphan}]
  /\ late \in SUBSET Callbacks
  /\ stray \in SUBSET (Nodes \X Jobs)

\* The nodes that are up schedule j if it should run, and none holds it if it
\* should not.  Where it is stray nothing is said.
IsScheduled(j) ==
  \A n \in Nodes :
    (node[n] = "up" /\ Schedulable(j) /\ ~Busy(j) /\ <<n, j>> \notin stray) =>
      (wheel[n][j] # Nil \/ InFlight(n, j))

IsUnscheduled(j) ==
  \A n \in Nodes :
    (~IsRunning(j) /\ ~Busy(j) /\ <<n, j>> \notin stray) => ~Holds(n, j)

(* No lost job: a running job that no request is working on is in the wheel  *)
(* of a node that is up, or a callback of it is still going to put it back.  *)
(* Only a stray one may not be: the node was not told (another node served   *)
(* the create or resume, or it was an update), the request failed half-way,  *)
(* or the trigger panicked.                                                  *)
RunningJobIsScheduled == \A j \in Jobs : IsScheduled(j)

(* No zombie job: one that is paused or deleted, and that no request is      *)
(* working on, is in no wheel and nothing is going to put it there.  Only a  *)
(* stray one may be: another node served the pause or delete, a callback of  *)
(* it was running then, its executor was deleted, or the request failed      *)
(* half-way.                                                                 *)
StoppedJobIsUnscheduled == \A j \in Jobs : IsUnscheduled(j)

(* "removed job should not trigger" (schedule_service_test.go, line 122): a  *)
(* pause or a delete that has been answered leaves nothing behind that would *)
(* trigger the job again.                                                    *)
RemovedJobStaysRemoved ==
  \A n \in Nodes, j \in Jobs :
    (~IsRunning(j) /\ ~Busy(j) /\ ~InFlight(n, j)) => wheel[n][j] = Nil

InTrigger(c, j) == (At(c, "trigger") \/ At(c, "unlock")) /\ cb[c].job = j

(* At most one callback in the cluster triggers a job at a time, but for     *)
(* those whose trigger has outlasted its TTL; and when such a one gives up   *)
(* its lock at last, it takes nothing from the callback that has it now.     *)
Relies(c, j) == InTrigger(c, j) /\ c \notin late

TriggerIsExclusive ==
  \A j \in Jobs : \A c, d \in Callbacks :
    (Relies(c, j) /\ Relies(d, j)) => c = d

(* No token is left behind: the key of a job holds the token of a callback   *)
(* that is triggering that very job and has still to release it, or one that *)
(* a crash or a failure of Redis has left to the TTL.  Neither a panic nor a  *)
(* trigger that outlasts its TTL leaves another.                             *)
KeyIsAccountedFor ==
  \A j \in Jobs, c \in Callbacks : key[j] = c => InTrigger(c, j)

KeyLease(j) == INSTANCE Lease
                 WITH Clients <- Callbacks, Nobody <- Nil, Lost <- Orphan,
                      owner <- key[j], relying <- {c \in Callbacks : Relies(c, j)}

(* The triggers use the keys as RedisLock gives them: a key passes from one  *)
(* callback to another only through nobody, and none is cleared under a      *)
(* callback that triggers within its TTL.                                    *)
RefinesLease ==
  /\ \A j \in Jobs : KeyLease(j)!Init
  /\ [][\A j \in Jobs : [KeyLease(j)!Next]_(KeyLease(j)!vars)]_vars

Triggered(j) == \E c \in Callbacks : At(c, "unlock") /\ cb[c].job = j

\* What may come between a callback and its trigger again and again: a lock that
\* could have been taken and fails, a panic, and a process that ends (and leaves
\* its keys behind).
FaultStep ==
  \/ \E c \in Callbacks : (LockFails(c) /\ key[cb[c].job] = Nil) \/ TriggerPanics(c)
  \/ \E n \in Nodes : Exit(n)

(* A job that stays running with a cron expression that parses, on a node    *)
(* that stays up, is triggered again and again once Redis, the triggers and  *)
(* the processes no longer fail, whatever has happened before: a crash that  *)
(* left its key in Redis, an unlock that was lost, a trigger that outlasted  *)
(* its TTL, a restart, a pause and a resume.  Excepted is a stray job.  It   *)
(* speaks of callers whose context outlives the call (Callers = {"local"});  *)
(* RunningJobTriggers shows the others.                                      *)
ServedJobTriggers ==
  <>[][~FaultStep]_vars =>
  \A n \in Nodes, j \in Jobs :
    (<>[](node[n] = "up" /\ Schedulable(j) /\ <<n, j>> \notin stray)) => []<>Triggered(j)

(* "running job should be scheduled on create" (service_lifecycle_test.go,   *)
(* line 129), and a job created over HTTP is as running as any other.        *)
RunningJobTriggers ==
  \A n \in Nodes, j \in Jobs :
    (<>[](node[n] = "up" /\ Schedulable(j))) => []<>Triggered(j)
=============================================================================
