------------------------- MODULE JobSchedulerProofs -------------------------
(* Theorems about JobScheduler for every number of nodes, jobs, requests and *)
(* callbacks: its types; that its triggers exclude one another and use their *)
(* keys as leases, one whose TTL has ended excepted; and that the job table  *)
(* and the wheels agree while no two requests work on the same job.          *)
EXTENDS JobScheduler, TLAPS

LEMMA ScheduleType ==
  ASSUME TypeOK, NEW n \in Nodes, NEW j \in Jobs, NEW cron \in Crons \cup {Nil},
         NEW live \in BOOLEAN, Schedule(n, j, cron, live)
  PROVE  wheel' \in [Nodes -> [Jobs -> Entry \cup {Nil}]]
<1>1. CASE cron \in ValidCrons /\ node[n] = "up" /\ wheel[n][j] = Nil
  <2>1. [cron |-> cron, live |-> live] \in Entry
    BY <1>1, CronAssumption DEF Entry
  <2> QED BY <1>1, <2>1 DEF TypeOK, Schedule
<1>2. CASE ~(cron \in ValidCrons /\ node[n] = "up" /\ wheel[n][j] = Nil)
  BY <1>2 DEF TypeOK, Schedule
<1> QED BY <1>1, <1>2

(* The steps of a request. *)
LEMMA RequestType ==
  ASSUME TypeOK, NEW r \in Requests, RequestStep(r) \/ DbFails(r)
  PROVE  TypeOK'
<1> USE NilAssumption
<1>1. CASE RemoveFromWheel(r)
  <2>1. req[r] \in Request
    BY <1>1 DEF TypeOK, RemoveFromWheel
  <2>2. stray' \in SUBSET (Nodes \X Jobs)
    BY <1>1, <2>1 DEF TypeOK, RemoveFromWheel, StrayOnly, Request
  <2> QED BY <1>1, <2>1, <2>2 DEF TypeOK, RemoveFromWheel, Request
<1>2. CASE ReadBack(r)
  <2>1. req[r] \in Request
    BY <1>2 DEF TypeOK, ReadBack
  <2>2. CASE db[req[r].job] = Nil
    BY <1>2, <2>2 DEF TypeOK, ReadBack
  <2>3. CASE db[req[r].job] # Nil
    <3>1. db[req[r].job].cron \in Crons
      BY <2>1, <2>3 DEF TypeOK, Request, Row
    <3>2. [req[r] EXCEPT !.cron = db[req[r].job].cron, !.pc = "add"] \in Request
      BY <2>1, <3>1 DEF Request
    <3> QED BY <1>2, <2>3, <3>2 DEF TypeOK, ReadBack
  <2> QED BY <2>2, <2>3
<1>3. CASE AddToWheel(r)
  <2>1. req[r] \in Request
    BY <1>3 DEF TypeOK, AddToWheel
  <2>2. (req[r].caller = "local") \in BOOLEAN
    OBVIOUS
  <2>3. wheel' \in [Nodes -> [Jobs -> Entry \cup {Nil}]]
    BY <1>3, <2>1, <2>2, ScheduleType DEF AddToWheel, Request
  <2>4. stray' \in SUBSET (Nodes \X Jobs)
    BY <1>3, <2>1 DEF TypeOK, AddToWheel, StrayOnly, Request
  <2> QED BY <1>3, <2>3, <2>4 DEF TypeOK, AddToWheel
<1>4. CASE DbFails(r)
  <2>1. req[r] \in Request
    BY <1>4 DEF TypeOK, DbFails
  <2> QED BY <1>4, <2>1 DEF TypeOK, DbFails, AllStray, Request
<1> QED BY <1>1, <1>2, <1>3, <1>4 DEF RequestStep

(* The steps of a callback. *)
LEMMA GoToType ==
  ASSUME TypeOK, NEW c \in Callbacks, NEW pc \in {"lock", "trigger", "unlock", "rearm"},
         NEW at, At(c, at), GoTo(c, pc)
  PROVE  cb[c] \in Callback /\ cb' \in [Callbacks -> Callback \cup {Nil}]
<1>1. cb[c] \in Callback
  BY DEF TypeOK, At
<1>2. [cb[c] EXCEPT !.pc = pc] \in Callback
  BY <1>1 DEF Callback
<1> QED BY <1>1, <1>2 DEF TypeOK, GoTo

LEMMA CallbackType ==
  ASSUME TypeOK, NEW c \in Callbacks,
         CallbackStep(c) \/ LockFails(c) \/ TriggerPanics(c)
  PROVE  TypeOK'
<1> USE NilAssumption
<1>1. CASE AcquireLock(c)
  <2>1. cb[c] \in Callback /\ cb' \in [Callbacks -> Callback \cup {Nil}]
    BY <1>1, GoToType DEF AcquireLock
  <2> QED BY <1>1, <2>1 DEF TypeOK, AcquireLock, Callback
<1>2. CASE SkipTrigger(c)
  <2>1. cb' \in [Callbacks -> Callback \cup {Nil}]
    BY <1>2, GoToType DEF SkipTrigger
  <2> QED BY <1>2, <2>1 DEF TypeOK, SkipTrigger
<1>3. CASE LockFails(c)
  <2>1. cb[c] \in Callback /\ cb' \in [Callbacks -> Callback \cup {Nil}]
    BY <1>3, GoToType DEF LockFails
  <2> QED BY <1>3, <2>1 DEF TypeOK, LockFails, Callback
<1>4. CASE Trigger(c)
  <2>1. cb' \in [Callbacks -> Callback \cup {Nil}]
    BY <1>4, GoToType DEF Trigger
  <2> QED BY <1>4, <2>1 DEF TypeOK, Trigger
<1>5. ASSUME Release(c), At(c, "trigger") \/ At(c, "unlock")
      PROVE  key' \in [Jobs -> Callbacks \cup {Nil, Orphan}]
  BY <1>5 DEF TypeOK, Release, At, Callback
<1>6. CASE TriggerPanics(c)
  <2>1. cb[c] \in Callback
    BY <1>6 DEF TypeOK, TriggerPanics, At
  <2> QED BY <1>5, <1>6, <2>1 DEF TypeOK, TriggerPanics, Callback
<1>7. CASE Unlock(c)
  <2>1. cb' \in [Callbacks -> Callback \cup {Nil}]
    BY <1>7, GoToType DEF Unlock
  <2> QED BY <1>5, <1>7, <2>1 DEF TypeOK, Unlock
<1>8. CASE Rearm(c)
  <2>1. cb[c] \in Callback
    BY <1>8 DEF TypeOK, Rearm, At
  <2>2. wheel' \in [Nodes -> [Jobs -> Entry \cup {Nil}]]
    BY <1>8, <2>1, ScheduleType DEF Rearm, Callback
  <2> QED BY <1>8, <2>2 DEF TypeOK, Rearm
<1> QED BY <1>1, <1>2, <1>3, <1>4, <1>6, <1>7, <1>8 DEF CallbackStep

(* Every variable keeps its type. *)
THEOREM Typing == Spec => []TypeOK
<1> USE NilAssumption, CronAssumption
<1>1. Init => TypeOK
  BY DEF Init, TypeOK
<1>2. TypeOK /\ [Next]_vars => TypeOK'
  <2> SUFFICES ASSUME TypeOK, [Next]_vars PROVE TypeOK'
    OBVIOUS
  <2>1. ASSUME NEW r \in Requests, NEW n \in Nodes, NEW j \in Jobs, NEW row \in Row,
               NEW caller \in Callers, CreateJob(r, n, j, row, caller)
        PROVE  TypeOK'
    BY <2>1, ChoiceAssumption DEF TypeOK, CreateJob, Request, Row
  <2>2. ASSUME NEW j \in Jobs, NEW status \in {"paused", "running"}, SetStatus(j, status)
        PROVE  db' \in [Jobs -> Row \cup {Nil}]
    BY <2>2 DEF TypeOK, SetStatus, Row
  <2>3. ASSUME NEW r \in Requests, NEW n \in Nodes, NEW j \in Jobs, PauseJob(r, n, j)
        PROVE  TypeOK'
    BY <2>2, <2>3 DEF TypeOK, PauseJob, Request
  <2>4. ASSUME NEW r \in Requests, NEW n \in Nodes, NEW j \in Jobs, NEW caller \in Callers,
               ResumeJob(r, n, j, caller)
        PROVE  TypeOK'
    BY <2>2, <2>4, ChoiceAssumption DEF TypeOK, ResumeJob, Request
  <2>5. ASSUME NEW r \in Requests, NEW n \in Nodes, NEW j \in Jobs, DeleteJob(r, n, j)
        PROVE  TypeOK'
    BY <2>5 DEF TypeOK, DeleteJob, Request
  <2>6. ASSUME NEW n \in Nodes, NEW j \in Jobs, NEW row \in Row, UpdateJob(n, j, row)
        PROVE  TypeOK'
    BY <2>6 DEF TypeOK, UpdateJob, AllStray, Row
  <2>7. ASSUME NEW n \in Nodes, NEW j \in Jobs, NEW c \in Callbacks, Fire(n, j, c)
        PROVE  TypeOK'
    <3>1. wheel[n][j] \in Entry
      BY <2>7 DEF TypeOK, Fire
    <3> QED BY <2>7, <3>1 DEF TypeOK, Fire, Entry, Callback
  <2>8. ASSUME NEW j \in Jobs, KeyExpires(j) PROVE TypeOK'
    BY <2>8 DEF TypeOK, KeyExpires
  <2>9. ASSUME NEW n \in Nodes, BootRead(n) PROVE TypeOK'
    <3>1. \A j \in Jobs : IsRunning(j) => db[j].cron \in Crons
      BY DEF TypeOK, IsRunning, Row
    <3> QED BY <2>9, <3>1 DEF TypeOK, BootRead
  <2>14. ASSUME NEW n \in Nodes, BootFill(n) PROVE TypeOK'
    <3>1. CASE UNCHANGED wheel
      BY <2>14, <3>1 DEF TypeOK, BootFill
    <3>2. CASE wheel' = [wheel EXCEPT ![n] =
                 [j \in Jobs |-> IF batch[n][j] = Nil THEN Nil
                                 ELSE [cron |-> batch[n][j], live |-> TRUE]]]
      <4>1. ASSUME NEW j \in Jobs, batch[n][j] # Nil
            PROVE  [cron |-> batch[n][j], live |-> TRUE] \in Entry
        BY <4>1 DEF TypeOK, Entry
      <4> QED BY <2>14, <3>2, <4>1 DEF TypeOK, BootFill
    <3> QED BY <2>14, <3>1, <3>2 DEF BootFill
  <2>10. ASSUME NEW n \in Nodes, Stop(n) PROVE TypeOK'
    BY <2>10 DEF TypeOK, Stop
  <2>11. ASSUME NEW n \in Nodes, Exit(n) PROVE TypeOK'
    BY <2>11 DEF TypeOK, Exit, AllStray
  <2>12. ASSUME NEW n \in Nodes, NEW js \in SUBSET Jobs, DeleteExecutor(n, js)
         PROVE  TypeOK'
    BY <2>12 DEF TypeOK, DeleteExecutor, AllStray
  <2>15. ASSUME NEW n \in Nodes, NEW j \in Jobs, NEW row \in Row, CreateUnanswered(n, j, row)
         PROVE  TypeOK'
    BY <2>15 DEF TypeOK, CreateUnanswered, AllStray
  <2>13. CASE UNCHANGED vars
    BY <2>13 DEF TypeOK, vars
  <2> QED BY <2>1, <2>3, <2>4, <2>5, <2>6, <2>7, <2>8, <2>9, <2>10, <2>11, <2>12,
             <2>13, <2>14, <2>15, RequestType, CallbackType DEF Next
<1> QED BY <1>1, <1>2, PTL DEF Spec

-----------------------------------------------------------------------------
(* GoTo moves one callback on and leaves what it is about.                  *)
LEMMA SameStage ==
  ASSUME TypeOK, NEW c \in Callbacks, NEW p \in {"lock", "trigger", "unlock", "rearm"},
         cb[c] # Nil, cb' = [cb EXCEPT ![c].pc = p]
  PROVE  /\ \A d \in Callbacks : d # c => cb'[d] = cb[d]
         /\ cb'[c] # Nil /\ cb'[c].node = cb[c].node /\ cb'[c].job = cb[c].job
         /\ cb'[c].cron = cb[c].cron
<1> USE NilAssumption
<1>1. cb[c] \in Callback
  BY DEF TypeOK
<1>2. cb'[c] = [cb[c] EXCEPT !.pc = p] /\ cb'[c] \in Callback
  BY <1>1 DEF TypeOK, Callback
<1> QED BY <1>1, <1>2 DEF TypeOK, Callback

(* What a step may do to callbacks and keys. *)
LEMMA CallbacksAndKeys ==
  ASSUME Next
  PROVE  \/ UNCHANGED <<cb, key, late>>
         \/ \E n \in Nodes, j \in Jobs, c \in Callbacks : Fire(n, j, c)
         \/ \E c \in Callbacks : CallbackStep(c) \/ LockFails(c) \/ TriggerPanics(c)
         \/ \E j \in Jobs : KeyExpires(j)
         \/ \E n \in Nodes : Exit(n)
<1>1. ASSUME NEW r \in Requests, NEW n \in Nodes, NEW j \in Jobs,
             \/ \E row \in Row, caller \in Callers : CreateJob(r, n, j, row, caller)
             \/ PauseJob(r, n, j)
             \/ \E caller \in Callers : ResumeJob(r, n, j, caller)
             \/ DeleteJob(r, n, j)
      PROVE  UNCHANGED <<cb, key, late>>
  BY <1>1 DEF CreateJob, PauseJob, ResumeJob, DeleteJob
<1>2. ASSUME \/ \E n \in Nodes, j \in Jobs, row \in Row :
                  UpdateJob(n, j, row) \/ CreateUnanswered(n, j, row)
             \/ \E n \in Nodes, js \in SUBSET Jobs : DeleteExecutor(n, js)
      PROVE  UNCHANGED <<cb, key, late>>
  BY <1>2 DEF UpdateJob, CreateUnanswered, DeleteExecutor
<1>3. ASSUME NEW r \in Requests, RequestStep(r) \/ DbFails(r)
      PROVE  UNCHANGED <<cb, key, late>>
  BY <1>3 DEF RequestStep, RemoveFromWheel, ReadBack, AddToWheel, DbFails
<1>4. ASSUME NEW n \in Nodes, BootRead(n) \/ BootFill(n) \/ Stop(n)
      PROVE  UNCHANGED <<cb, key, late>>
  BY <1>4 DEF BootRead, BootFill, Stop
<1> QED BY <1>1, <1>2, <1>3, <1>4 DEF Next

(* Where a callback may go next: it never goes back, and it stays about the  *)
(* same job.                                                                 *)
Moves == {<<"lock", "trigger">>, <<"lock", "rearm">>, <<"trigger", "unlock">>, <<"unlock", "rearm">>}

LEMMA CallbackMoves ==
  ASSUME TypeOK, [Next]_vars, NEW c \in Callbacks, cb[c] # Nil
  PROVE  \/ cb'[c] \in {cb[c], Nil}
         \/ /\ cb'[c] # Nil /\ cb'[c].job = cb[c].job
            /\ <<cb[c].pc, cb'[c].pc>> \in Moves
<1> USE NilAssumption
<1>1. ASSUME NEW d \in Callbacks, NEW at, NEW p \in {"lock", "trigger", "unlock", "rearm"},
             At(d, at), GoTo(d, p), <<at, p>> \in Moves
      PROVE  \/ cb'[c] = cb[c]
             \/ /\ cb'[c] # Nil /\ cb'[c].job = cb[c].job
                /\ <<cb[c].pc, cb'[c].pc>> \in Moves
  <2>1. CASE d = c
    <3>1. cb[c] \in Callback /\ cb[c].pc = at
      BY <1>1, <2>1 DEF TypeOK, At
    <3>2. cb'[c].pc = p
      BY <1>1, <2>1, <3>1 DEF GoTo, TypeOK, Callback
    <3> QED BY <1>1, <2>1, <3>1, <3>2, SameStage DEF GoTo
  <2>2. CASE d # c
    BY <1>1, <2>2 DEF GoTo, TypeOK
  <2> QED BY <2>1, <2>2
<1>2. ASSUME NEW d \in Callbacks, CallbackStep(d) \/ LockFails(d)
      PROVE  \/ cb'[c] \in {cb[c], Nil}
             \/ /\ cb'[c] # Nil /\ cb'[c].job = cb[c].job
                /\ <<cb[c].pc, cb'[c].pc>> \in Moves
  <2>1. CASE AcquireLock(d) \/ SkipTrigger(d) \/ LockFails(d)
    BY <1>1, <2>1 DEF AcquireLock, SkipTrigger, LockFails, Moves
  <2>2. CASE Trigger(d) \/ Unlock(d)
    BY <1>1, <2>2 DEF Trigger, Unlock, Moves
  <2>3. CASE Rearm(d)
    BY <2>3 DEF Rearm, TypeOK
  <2> QED BY <1>2, <2>1, <2>2, <2>3 DEF CallbackStep
<1>3. ASSUME NEW d \in Callbacks, TriggerPanics(d) PROVE cb'[c] \in {cb[c], Nil}
  BY <1>3 DEF TriggerPanics, TypeOK
<1>4. ASSUME NEW n \in Nodes, NEW j \in Jobs, NEW d \in Callbacks, Fire(n, j, d)
      PROVE  cb'[c] = cb[c]
  BY <1>4 DEF Fire, TypeOK
<1>5. ASSUME \E j \in Jobs : KeyExpires(j) PROVE cb'[c] = cb[c]
  BY <1>5 DEF KeyExpires
<1>6. ASSUME NEW n \in Nodes, Exit(n) PROVE cb'[c] \in {cb[c], Nil}
  BY <1>6 DEF Exit
<1>7. CASE UNCHANGED vars
  BY <1>7 DEF vars
<1> QED BY <1>2, <1>3, <1>4, <1>5, <1>6, <1>7, CallbacksAndKeys

(* A token is replaced by none, or by an orphan of the same owner. *)
LEMMA KeyMoves ==
  ASSUME TypeOK, [Next]_vars, NEW j \in Jobs, key[j] # Nil
  PROVE  key'[j] \in {key[j], Nil, Orphan}
<1> USE NilAssumption
<1>1. ASSUME NEW d \in Callbacks, CallbackStep(d) \/ LockFails(d) \/ TriggerPanics(d)
      PROVE  key'[j] \in {key[j], Nil, Orphan}
  <2>1. CASE AcquireLock(d)
    <3>1. cb[d] \in Callback
      BY <2>1 DEF AcquireLock, At, TypeOK
    <3> QED BY <2>1, <3>1 DEF AcquireLock, TypeOK, Callback
  <2>2. CASE SkipTrigger(d) \/ Trigger(d) \/ Rearm(d)
    BY <2>2 DEF SkipTrigger, Trigger, Rearm
  <2>3. CASE LockFails(d)
    BY <2>3 DEF LockFails, TypeOK
  <2>4. ASSUME Release(d) PROVE key'[j] \in {key[j], Nil, Orphan}
    BY <2>4 DEF Release, TypeOK
  <2>5. CASE Unlock(d) \/ TriggerPanics(d)
    BY <2>4, <2>5 DEF Unlock, TriggerPanics
  <2> QED BY <1>1, <2>1, <2>2, <2>3, <2>5 DEF CallbackStep
<1>2. ASSUME \E n \in Nodes, i \in Jobs, d \in Callbacks : Fire(n, i, d) PROVE key'[j] = key[j]
  BY <1>2 DEF Fire
<1>3. ASSUME \E i \in Jobs : KeyExpires(i) PROVE key'[j] \in {key[j], Nil}
  BY <1>3 DEF KeyExpires, TypeOK
<1>4. ASSUME \E n \in Nodes : Exit(n) PROVE key'[j] \in {key[j], Orphan}
  BY <1>4 DEF Exit
<1>5. CASE UNCHANGED vars
  BY <1>5 DEF vars
<1> QED BY <1>1, <1>2, <1>3, <1>4, <1>5, CallbacksAndKeys

(* Whatever fails, a key holds the token of a callback that is triggering    *)
(* that job and will release it, or one left to its TTL.                     *)
THEOREM NoTokenLeftBehind == Spec => []KeyIsAccountedFor
<1> USE NilAssumption
<1>1. Init => KeyIsAccountedFor
  BY DEF Init, KeyIsAccountedFor
<1>2. TypeOK /\ TypeOK' /\ KeyIsAccountedFor /\ [Next]_vars => KeyIsAccountedFor'
  <2> SUFFICES ASSUME TypeOK, TypeOK', KeyIsAccountedFor, [Next]_vars,
                      NEW j \in Jobs, NEW c \in Callbacks, key'[j] = c
               PROVE  InTrigger(c, j)'
    BY DEF KeyIsAccountedFor
  <2>1. ASSUME key[j] = c PROVE InTrigger(c, j) /\ cb[c] \in Callback /\ cb[c].job = j
    BY <2>1 DEF KeyIsAccountedFor, InTrigger, At, TypeOK
  <2>2. ASSUME key[j] = c, cb'[c] = cb[c] PROVE InTrigger(c, j)'
    BY <2>1, <2>2 DEF InTrigger, At
  <2>3. ASSUME NEW d \in Callbacks, AcquireLock(d) PROVE InTrigger(c, j)'
    <3>1. cb[d] \in Callback /\ cb'[d].pc = "trigger" /\ cb'[d].job = cb[d].job /\ cb'[d] # Nil
      <4>1. cb[d] \in Callback
        BY <2>3 DEF AcquireLock, At, TypeOK
      <4>2. cb'[d].pc = "trigger"
        BY <2>3, <4>1 DEF AcquireLock, GoTo, TypeOK, Callback
      <4>3. cb'[d].job = cb[d].job /\ cb'[d] # Nil
        BY <2>3, SameStage DEF AcquireLock, At, GoTo
      <4> QED BY <4>1, <4>2, <4>3
    <3>2. CASE cb[d].job = j
      BY <2>3, <3>1, <3>2 DEF AcquireLock, InTrigger, At, TypeOK
    <3>3. CASE cb[d].job # j
      BY <2>1, <2>2, <2>3, <3>1, <3>3 DEF AcquireLock, GoTo, TypeOK
    <3> QED BY <3>2, <3>3
  <2>4. ASSUME NEW d \in Callbacks, SkipTrigger(d) \/ LockFails(d) PROVE InTrigger(c, j)'
    <3>1. key[j] = c
      BY <2>4 DEF SkipTrigger, LockFails, TypeOK
    <3>2. d # c
      BY <2>1, <2>4, <3>1 DEF SkipTrigger, LockFails, InTrigger, At
    <3> QED BY <2>2, <2>4, <3>1, <3>2 DEF SkipTrigger, LockFails, GoTo, TypeOK
  <2>5. ASSUME NEW d \in Callbacks, Trigger(d) PROVE InTrigger(c, j)'
    <3>1. key[j] = c
      BY <2>5 DEF Trigger
    <3>2. CASE d = c
      <4>1. cb[c] \in Callback /\ cb[c].job = j
        BY <2>1, <3>1
      <4>2. cb'[c].pc = "unlock"
        BY <2>5, <3>2, <4>1 DEF Trigger, GoTo, TypeOK, Callback
      <4>3. cb'[c].job = cb[c].job /\ cb'[c] # Nil
        BY <2>5, <3>2, SameStage DEF Trigger, At, GoTo
      <4> QED BY <4>1, <4>2, <4>3 DEF InTrigger, At
    <3>3. CASE d # c
      BY <2>2, <2>5, <3>1, <3>3 DEF Trigger, GoTo, TypeOK
    <3> QED BY <3>2, <3>3
  <2>6. ASSUME NEW d \in Callbacks, Release(d) PROVE key[j] = c /\ d # c
    <3>1. key[j] = c
      BY <2>6 DEF Release, TypeOK
    <3>2. CASE d = c
      BY <2>1, <2>6, <3>1, <3>2 DEF Release, TypeOK
    <3> QED BY <3>1, <3>2
  <2>7. ASSUME NEW d \in Callbacks, Unlock(d) \/ TriggerPanics(d) PROVE InTrigger(c, j)'
    <3>1. key[j] = c /\ d # c
      BY <2>6, <2>7 DEF Unlock, TriggerPanics
    <3> QED BY <2>2, <2>7, <3>1 DEF Unlock, TriggerPanics, GoTo, TypeOK
  <2>8. ASSUME NEW d \in Callbacks, Rearm(d) PROVE InTrigger(c, j)'
    <3>1. key[j] = c
      BY <2>8 DEF Rearm
    <3>2. d # c
      BY <2>1, <2>8, <3>1 DEF Rearm, InTrigger, At
    <3> QED BY <2>2, <2>8, <3>1, <3>2 DEF Rearm, TypeOK
  <2>9. ASSUME NEW n \in Nodes, NEW i \in Jobs, NEW d \in Callbacks, Fire(n, i, d)
        PROVE  InTrigger(c, j)'
    <3>1. key[j] = c
      BY <2>9 DEF Fire
    <3>2. d # c
      BY <2>1, <2>9, <3>1 DEF Fire, InTrigger, At
    <3> QED BY <2>2, <2>9, <3>1, <3>2 DEF Fire, TypeOK
  <2>10. ASSUME NEW i \in Jobs, KeyExpires(i) PROVE InTrigger(c, j)'
    BY <2>2, <2>10 DEF KeyExpires, TypeOK
  <2>11. ASSUME NEW n \in Nodes, Exit(n) PROVE InTrigger(c, j)'
    <3>1. key[j] = c
      BY <2>11 DEF Exit
    <3>2. cb'[c] = cb[c]
      BY <2>1, <2>11, <3>1 DEF Exit, InTrigger, At
    <3> QED BY <2>2, <3>1, <3>2
  <2>12. CASE UNCHANGED <<cb, key, late>>
    BY <2>2, <2>12
  <2> QED BY <2>3, <2>4, <2>5, <2>7, <2>8, <2>9, <2>10, <2>11, <2>12, CallbacksAndKeys
          DEF CallbackStep, vars
<1> QED BY <1>1, <1>2, Typing, PTL DEF Spec

-----------------------------------------------------------------------------
(* A callback that triggers a job within its TTL holds its key, so two cannot. *)
HolderHasKey ==
  \A c \in Callbacks, j \in Jobs : Relies(c, j) => key[j] = c

(* The key of a callback that triggers within its TTL stays its own, whatever *)
(* crashes, panics, failures of Redis, restarts and TTLs that end under other *)
(* triggers come about.                                                       *)
THEOREM Holding == Spec => []HolderHasKey
<1> USE NilAssumption
<1>1. Init => HolderHasKey
  BY DEF Init, HolderHasKey, Relies, InTrigger, At
<1>2. TypeOK /\ HolderHasKey /\ [Next]_vars => HolderHasKey'
  <2> SUFFICES ASSUME TypeOK, HolderHasKey, [Next]_vars PROVE HolderHasKey'
    OBVIOUS
  <2> USE DEF HolderHasKey, Relies, InTrigger, At
  <2>1. CASE UNCHANGED <<cb, key, late>>
    BY <2>1
  <2>2. ASSUME NEW r \in Requests, NEW n \in Nodes, NEW j \in Jobs,
               \/ \E row \in Row, caller \in Callers : CreateJob(r, n, j, row, caller)
               \/ PauseJob(r, n, j)
               \/ \E caller \in Callers : ResumeJob(r, n, j, caller)
               \/ DeleteJob(r, n, j)
        PROVE  HolderHasKey'
    BY <2>1, <2>2 DEF CreateJob, PauseJob, ResumeJob, DeleteJob
  <2>3. ASSUME NEW n \in Nodes, NEW j \in Jobs, NEW row \in Row,
               UpdateJob(n, j, row) \/ CreateUnanswered(n, j, row)
        PROVE  HolderHasKey'
    BY <2>1, <2>3 DEF UpdateJob, CreateUnanswered
  <2>4. ASSUME NEW r \in Requests, RequestStep(r) \/ DbFails(r) PROVE HolderHasKey'
    BY <2>1, <2>4 DEF RequestStep, RemoveFromWheel, ReadBack, AddToWheel, DbFails
  <2>5. ASSUME NEW n \in Nodes, NEW j \in Jobs, NEW c \in Callbacks, Fire(n, j, c)
        PROVE  HolderHasKey'
    BY <2>5 DEF TypeOK, Fire
  <2>6. ASSUME NEW c \in Callbacks, AcquireLock(c) PROVE HolderHasKey'
    <3>1. cb[c] \in Callback
      BY <2>6 DEF TypeOK, AcquireLock
    <3> QED BY <2>6, <3>1 DEF TypeOK, AcquireLock, GoTo, Callback
  <2>7. ASSUME NEW c \in Callbacks, SkipTrigger(c) PROVE HolderHasKey'
    BY <2>7 DEF TypeOK, SkipTrigger, GoTo, Callback
  <2>8. ASSUME NEW c \in Callbacks, LockFails(c) PROVE HolderHasKey'
    <3>1. cb[c] \in Callback /\ cb[c].job \in Jobs
      BY <2>8 DEF TypeOK, LockFails, Callback
    <3>2. \A d \in Callbacks : d # c => cb'[d] = cb[d]
      BY <2>8 DEF TypeOK, LockFails, GoTo
    <3>3. cb'[c].pc = "rearm"
      BY <2>8, <3>1 DEF TypeOK, LockFails, GoTo, Callback
    <3>6. UNCHANGED late
      BY <2>8 DEF LockFails
    <3>4. CASE UNCHANGED key
      BY <3>2, <3>3, <3>4, <3>6
    <3>5. CASE key[cb[c].job] = Nil /\ key' = [key EXCEPT ![cb[c].job] = Orphan]
      BY <3>1, <3>2, <3>3, <3>5, <3>6 DEF TypeOK
    <3> QED BY <2>8, <3>4, <3>5 DEF LockFails
  <2>9. ASSUME NEW c \in Callbacks, Trigger(c) PROVE HolderHasKey'
    BY <2>9 DEF TypeOK, Trigger, GoTo, Callback
  <2>10. ASSUME NEW c \in Callbacks, Release(c), cb[c] \in Callback,
                NEW d \in Callbacks, NEW j \in Jobs, d # c, key[j] = d
         PROVE  key'[j] = d
    BY <2>10 DEF TypeOK, Release, Callback
  <2>11. ASSUME NEW c \in Callbacks, TriggerPanics(c) PROVE HolderHasKey'
    <3>1. cb[c] \in Callback
      BY <2>11 DEF TypeOK, TriggerPanics
    <3> QED BY <2>10, <2>11, <3>1 DEF TypeOK, TriggerPanics
  <2>12. ASSUME NEW c \in Callbacks, Unlock(c) PROVE HolderHasKey'
    <3>1. cb[c] \in Callback
      BY <2>12 DEF TypeOK, Unlock
    <3>2. \A d \in Callbacks : d # c => cb'[d] = cb[d]
      BY <2>12 DEF TypeOK, Unlock, GoTo
    <3>3. cb'[c].pc = "rearm"
      BY <2>12, <3>1 DEF TypeOK, Unlock, GoTo, Callback
    <3> QED BY <2>10, <2>12, <3>1, <3>2, <3>3 DEF Unlock
  <2>13. ASSUME NEW c \in Callbacks, Rearm(c) PROVE HolderHasKey'
    BY <2>13 DEF TypeOK, Rearm
  <2>14. ASSUME NEW j \in Jobs, KeyExpires(j) PROVE HolderHasKey'
    BY <2>14 DEF TypeOK, KeyExpires
  <2>15. ASSUME NEW n \in Nodes, BootRead(n) \/ BootFill(n) \/ Stop(n)
         PROVE  HolderHasKey'
    BY <2>1, <2>15 DEF BootRead, BootFill, Stop
  <2>16. ASSUME NEW n \in Nodes, Exit(n) PROVE HolderHasKey'
    BY <2>16 DEF TypeOK, Exit
  <2>17. ASSUME NEW n \in Nodes, NEW js \in SUBSET Jobs, DeleteExecutor(n, js)
         PROVE  HolderHasKey'
    BY <2>1, <2>17 DEF DeleteExecutor
  <2>18. CASE UNCHANGED vars
    BY <2>1, <2>18 DEF vars
  <2> QED BY <2>2, <2>3, <2>4, <2>5, <2>6, <2>7, <2>8, <2>9, <2>11, <2>12, <2>13,
             <2>14, <2>15, <2>16, <2>17, <2>18 DEF Next, CallbackStep
<1> QED BY <1>1, <1>2, Typing, PTL DEF Spec

(* Then at most one callback in the cluster triggers a job within its TTL.   *)
THEOREM Exclusion == Spec => []TriggerIsExclusive
<1>1. HolderHasKey => TriggerIsExclusive
  BY DEF HolderHasKey, TriggerIsExclusive
<1> QED BY <1>1, Holding, PTL

\* A callback whose TTL has ended is still triggering.
LateTriggers == \A c \in late : At(c, "trigger") \/ At(c, "unlock")

LEMMA LateOnes == Spec => []LateTriggers
<1> USE NilAssumption DEF LateTriggers, At
<1>1. Init => LateTriggers
  BY DEF Init
<1>2. TypeOK /\ KeyIsAccountedFor /\ LateTriggers /\ [Next]_vars => LateTriggers'
  <2> SUFFICES ASSUME TypeOK, KeyIsAccountedFor, LateTriggers, [Next]_vars PROVE LateTriggers'
    OBVIOUS
  <2>1. CASE UNCHANGED <<cb, key, late>>
    BY <2>1
  <2>2. ASSUME NEW n \in Nodes, NEW j \in Jobs, NEW c \in Callbacks, Fire(n, j, c)
        PROVE  LateTriggers'
    BY <2>2 DEF Fire, TypeOK
  <2>3. ASSUME NEW c \in Callbacks, NEW p \in {"lock", "trigger", "unlock", "rearm"},
               cb[c] # Nil, GoTo(c, p), late' \subseteq late,
               c \in late' => p \in {"trigger", "unlock"}
        PROVE  LateTriggers'
    <3>1. /\ \A d \in Callbacks : d # c => cb'[d] = cb[d]
          /\ cb'[c] # Nil
      BY <2>3, SameStage DEF GoTo
    <3>2. cb'[c].pc = p
      BY <2>3 DEF GoTo, TypeOK, Callback
    <3> QED BY <2>3, <3>1, <3>2 DEF TypeOK
  <2>4. ASSUME NEW c \in Callbacks, AcquireLock(c) \/ SkipTrigger(c) \/ LockFails(c)
        PROVE  LateTriggers'
    BY <2>3, <2>4 DEF AcquireLock, SkipTrigger, LockFails
  <2>5. ASSUME NEW c \in Callbacks, Trigger(c) \/ Unlock(c) PROVE LateTriggers'
    BY <2>3, <2>5 DEF Trigger, Unlock
  <2>6. ASSUME NEW c \in Callbacks, TriggerPanics(c) \/ Rearm(c) PROVE LateTriggers'
    <3>1. \A d \in Callbacks : d # c => cb'[d] = cb[d]
      BY <2>6 DEF TriggerPanics, Rearm, TypeOK
    <3>2. late' = late \ {c}
      BY <2>6 DEF TriggerPanics, Rearm
    <3>3. late \subseteq Callbacks
      BY DEF TypeOK
    <3> QED BY <3>1, <3>2, <3>3
  <2>7. ASSUME NEW j \in Jobs, KeyExpires(j) PROVE LateTriggers'
    BY <2>7 DEF KeyExpires, KeyIsAccountedFor, InTrigger
  <2>8. ASSUME NEW n \in Nodes, Exit(n) PROVE LateTriggers'
    BY <2>8 DEF Exit, TypeOK
  <2> QED BY <2>1, <2>2, <2>4, <2>5, <2>6, <2>7, <2>8, CallbacksAndKeys DEF CallbackStep, vars
<1> QED BY <1>1, <1>2, Typing, NoTokenLeftBehind, PTL DEF Spec

(* And the triggers of each job use its key as a lease.                      *)
THEOREM Refinement == Spec => RefinesLease
<1> USE NilAssumption
<1> DEFINE Relying(j) == {c \in Callbacks : Relies(c, j)}
           Same(j)    == key'[j] = key[j] /\ Relying(j)' = Relying(j)
           LeaseStep(j) ==
             \/ Same(j)
             \/ \E c \in Callbacks : /\ key[j] = Nil /\ key'[j] = c
                                     /\ Relying(j)' = Relying(j) \cup {c}
             \/ key[j] = Nil /\ key'[j] = Orphan /\ Relying(j)' = Relying(j)
             \/ /\ key[j] # Nil /\ key'[j] \in {Nil, Orphan}
                /\ Relying(j)' = Relying(j) \ {key[j]}
<1>1. Init => \A j \in Jobs : KeyLease(j)!Init
  BY DEF Init, KeyLease!Init, Relies, InTrigger, At
<1>2. ASSUME NEW j \in Jobs, LeaseStep(j)
      PROVE  [KeyLease(j)!Next]_(KeyLease(j)!vars)
  BY <1>2 DEF KeyLease!Next, KeyLease!vars, KeyLease!Take, KeyLease!TakeLost, KeyLease!End
<1>3. ASSUME TypeOK, HolderHasKey, LateTriggers, KeyIsAccountedFor, Next,
             NEW j \in Jobs PROVE LeaseStep(j)
  <2> USE <1>3
  <2>1. CASE UNCHANGED <<cb, key, late>>
    BY <2>1 DEF Relies, InTrigger, At
  <2>2. ASSUME \/ \E r \in Requests, n \in Nodes, i \in Jobs :
                    \/ \E row \in Row, caller \in Callers : CreateJob(r, n, i, row, caller)
                    \/ PauseJob(r, n, i)
                    \/ \E caller \in Callers : ResumeJob(r, n, i, caller)
                    \/ DeleteJob(r, n, i)
               \/ \E n \in Nodes, i \in Jobs, row \in Row :
                    UpdateJob(n, i, row) \/ CreateUnanswered(n, i, row)
               \/ \E n \in Nodes, js \in SUBSET Jobs : DeleteExecutor(n, js)
               \/ \E r \in Requests : RequestStep(r) \/ DbFails(r)
               \/ \E n \in Nodes : BootRead(n) \/ BootFill(n) \/ Stop(n)
        PROVE  UNCHANGED <<cb, key, late>>
    <3>1. ASSUME NEW r \in Requests, NEW n \in Nodes, NEW i \in Jobs,
                 \/ \E row \in Row, caller \in Callers : CreateJob(r, n, i, row, caller)
                 \/ PauseJob(r, n, i)
                 \/ \E caller \in Callers : ResumeJob(r, n, i, caller)
                 \/ DeleteJob(r, n, i)
          PROVE  UNCHANGED <<cb, key, late>>
      BY <3>1 DEF CreateJob, PauseJob, ResumeJob, DeleteJob
    <3>2. ASSUME \/ \E n \in Nodes, i \in Jobs, row \in Row :
                      UpdateJob(n, i, row) \/ CreateUnanswered(n, i, row)
                 \/ \E n \in Nodes, js \in SUBSET Jobs : DeleteExecutor(n, js)
          PROVE  UNCHANGED <<cb, key, late>>
      BY <3>2 DEF UpdateJob, CreateUnanswered, DeleteExecutor
    <3>3. ASSUME NEW r \in Requests, RequestStep(r) \/ DbFails(r)
          PROVE  UNCHANGED <<cb, key, late>>
      BY <3>3 DEF RequestStep, RemoveFromWheel, ReadBack, AddToWheel, DbFails
    <3>4. ASSUME NEW n \in Nodes, BootRead(n) \/ BootFill(n) \/ Stop(n)
          PROVE  UNCHANGED <<cb, key, late>>
      BY <3>4 DEF BootRead, BootFill, Stop
    <3> QED BY <2>2, <3>1, <3>2, <3>3, <3>4
  <2>3. ASSUME NEW n \in Nodes, NEW i \in Jobs, NEW c \in Callbacks, Fire(n, i, c)
        PROVE  Same(j)
    <3>1. \A d \in Callbacks : d # c => cb'[d] = cb[d]
      BY <2>3 DEF Fire, TypeOK
    <3>2. cb[c] = Nil /\ cb'[c].pc = "lock" /\ UNCHANGED <<key, late>>
      BY <2>3 DEF Fire, TypeOK
    <3> QED BY <3>1, <3>2 DEF Relies, InTrigger, At
  <2>4. ASSUME NEW c \in Callbacks, NEW p \in {"lock", "trigger", "unlock", "rearm"},
               cb[c] # Nil, GoTo(c, p)
        PROVE  /\ \A d \in Callbacks \ {c} : InTrigger(d, j)' = InTrigger(d, j)
               /\ InTrigger(c, j)' <=> p \in {"trigger", "unlock"} /\ cb[c].job = j
    <3>1. /\ \A d \in Callbacks : d # c => cb'[d] = cb[d]
          /\ cb'[c] # Nil /\ cb'[c].job = cb[c].job
      BY <2>4, SameStage DEF GoTo
    <3>2. cb'[c].pc = p
      BY <2>4 DEF GoTo, TypeOK, Callback
    <3> QED BY <3>1, <3>2 DEF InTrigger, At
  <2>5. ASSUME NEW c \in Callbacks, AcquireLock(c) PROVE LeaseStep(j)
    <3>1. /\ \A d \in Callbacks \ {c} : InTrigger(d, j)' = InTrigger(d, j)
          /\ InTrigger(c, j)' <=> cb[c].job = j
          /\ ~InTrigger(c, j)
      BY <2>4, <2>5 DEF AcquireLock, InTrigger, At
    <3>4. late' = late /\ c \notin late
      BY <2>5 DEF AcquireLock, LateTriggers, At
    <3>2. CASE cb[c].job = j
      <4>1. key[j] = Nil /\ key'[j] = c
        BY <2>5, <3>2 DEF AcquireLock, TypeOK
      <4>2. Relying(j)' = Relying(j) \cup {c}
        BY <3>1, <3>2, <3>4 DEF Relies
      <4> QED BY <4>1, <4>2
    <3>3. CASE cb[c].job # j
      <4>1. key'[j] = key[j]
        BY <2>5, <3>3 DEF AcquireLock, TypeOK
      <4>2. Relying(j)' = Relying(j)
        BY <3>1, <3>3, <3>4 DEF Relies
      <4> QED BY <4>1, <4>2
    <3> QED BY <3>2, <3>3
  <2>6. ASSUME NEW c \in Callbacks, SkipTrigger(c) \/ Trigger(c) PROVE Same(j)
    <3>1. UNCHANGED <<key, late>>
      BY <2>6 DEF SkipTrigger, Trigger
    <3>2. \A d \in Callbacks : InTrigger(d, j)' = InTrigger(d, j)
      BY <2>4, <2>6 DEF SkipTrigger, Trigger, InTrigger, At
    <3> QED BY <3>1, <3>2 DEF Relies
  <2>7. ASSUME NEW c \in Callbacks, LockFails(c) PROVE LeaseStep(j)
    <3>1. \A d \in Callbacks : InTrigger(d, j)' = InTrigger(d, j)
      BY <2>4, <2>7 DEF LockFails, InTrigger, At
    <3>2. Relying(j)' = Relying(j)
      BY <2>7, <3>1 DEF LockFails, Relies
    <3>3. key'[j] = key[j] \/ (key[j] = Nil /\ key'[j] = Orphan)
      BY <2>7 DEF LockFails, TypeOK
    <3> QED BY <3>2, <3>3
  <2>8. ASSUME NEW c \in Callbacks, InTrigger(c, cb[c].job), cb[c].job \in Jobs, Release(c),
               late' = late \ {c},
               \A d \in Callbacks \ {c} : InTrigger(d, j)' = InTrigger(d, j),
               ~InTrigger(c, j)'
        PROVE  LeaseStep(j)
    <3>1. Relying(j)' = Relying(j) \ {c}
      BY <2>8 DEF Relies
    <3>2. CASE cb[c].job = j /\ key[j] = c
      <4>1. key'[j] \in {Nil, Orphan}
        BY <2>8, <3>2 DEF Release, TypeOK
      <4> QED BY <3>1, <3>2, <4>1
    <3>3. CASE ~(cb[c].job = j /\ key[j] = c)
      <4>1. key'[j] = key[j]
        BY <2>8, <3>3 DEF Release, TypeOK
      <4>2. c \notin Relying(j)
        BY <3>3 DEF Relies, InTrigger, HolderHasKey
      <4> QED BY <3>1, <4>1, <4>2
    <3> QED BY <3>2, <3>3
  <2>9. ASSUME NEW c \in Callbacks, Unlock(c) PROVE LeaseStep(j)
    <3>1. cb[c] \in Callback /\ InTrigger(c, cb[c].job) /\ cb[c].job \in Jobs
      BY <2>9 DEF Unlock, At, TypeOK, InTrigger, Callback
    <3>2. /\ \A d \in Callbacks \ {c} : InTrigger(d, j)' = InTrigger(d, j)
          /\ ~InTrigger(c, j)'
      BY <2>4, <2>9 DEF Unlock, At
    <3> QED BY <2>8, <2>9, <3>1, <3>2 DEF Unlock
  <2>10. ASSUME NEW c \in Callbacks, TriggerPanics(c) PROVE LeaseStep(j)
    <3>1. cb[c] \in Callback /\ InTrigger(c, cb[c].job) /\ cb[c].job \in Jobs
      BY <2>10 DEF TriggerPanics, At, TypeOK, InTrigger, Callback
    <3>2. \A d \in Callbacks : cb'[d] = IF d = c THEN Nil ELSE cb[d]
      BY <2>10 DEF TriggerPanics, TypeOK
    <3>3. /\ \A d \in Callbacks \ {c} : InTrigger(d, j)' = InTrigger(d, j)
          /\ ~InTrigger(c, j)'
      BY <3>2 DEF InTrigger, At
    <3> QED BY <2>8, <2>10, <3>1, <3>3 DEF TriggerPanics
  <2>11. ASSUME NEW c \in Callbacks, Rearm(c) PROVE Same(j)
    <3>1. \A d \in Callbacks : cb'[d] = IF d = c THEN Nil ELSE cb[d]
      BY <2>11 DEF Rearm, TypeOK
    <3>2. UNCHANGED <<key, late>> /\ ~InTrigger(c, j)
      BY <2>11 DEF Rearm, InTrigger, At
    <3>3. \A d \in Callbacks : InTrigger(d, j)' = InTrigger(d, j)
      BY <3>1, <3>2 DEF InTrigger, At
    <3> QED BY <3>2, <3>3 DEF Relies
  <2>12. ASSUME NEW i \in Jobs, KeyExpires(i) PROVE LeaseStep(j)
    <3>1. \A d \in Callbacks : InTrigger(d, j)' = InTrigger(d, j)
      BY <2>12 DEF KeyExpires, InTrigger, At
    <3>2. late' = late \cup (Callbacks \cap {key[i]})
      BY <2>12 DEF KeyExpires
    <3>3. CASE i = j
      <4>1. key[j] # Nil /\ key'[j] = Nil
        BY <2>12, <3>3 DEF KeyExpires, TypeOK
      <4>2. Relying(j)' = Relying(j) \ {key[j]}
        BY <3>1, <3>2, <3>3 DEF Relies
      <4> QED BY <4>1, <4>2
    <3>4. CASE i # j
      <4>1. key'[j] = key[j]
        BY <2>12, <3>4 DEF KeyExpires, TypeOK
      <4>2. key[i] \in Callbacks => ~InTrigger(key[i], j)
        BY <3>4 DEF KeyIsAccountedFor, InTrigger
      <4>3. Relying(j)' = Relying(j)
        BY <3>1, <3>2, <4>2 DEF Relies
      <4> QED BY <4>1, <4>3
    <3> QED BY <3>3, <3>4
  <2>13. ASSUME NEW n \in Nodes, Exit(n) PROVE LeaseStep(j)
    <3>1. \A c \in Callbacks :
            cb'[c] = IF cb[c] # Nil /\ cb[c].node = n THEN Nil ELSE cb[c]
      BY <2>13 DEF Exit
    <3>2. \A c \in Relying(j) : c = key[j]
      BY DEF HolderHasKey
    <3>5. late' = {c \in late : cb'[c] # Nil}
      BY <2>13 DEF Exit
    <3>3. CASE key[j] \in Callbacks /\ cb[key[j]] # Nil /\ cb[key[j]].node = n
      <4>1. key'[j] = Orphan
        BY <2>13, <3>3 DEF Exit
      <4>2. Relying(j)' = Relying(j) \ {key[j]}
        BY <3>1, <3>2, <3>3, <3>5 DEF Relies, InTrigger, At
      <4> QED BY <3>3, <4>1, <4>2
    <3>4. CASE ~(key[j] \in Callbacks /\ cb[key[j]] # Nil /\ cb[key[j]].node = n)
      <4>1. key'[j] = key[j]
        BY <2>13, <3>4 DEF Exit
      <4>2. \A c \in Callbacks : Relies(c, j)' = Relies(c, j)
        BY <3>1, <3>2, <3>4, <3>5 DEF Relies, InTrigger, At
      <4> QED BY <4>1, <4>2
    <3> QED BY <3>3, <3>4
  <2> QED BY <2>1, <2>2, <2>3, <2>5, <2>6, <2>7, <2>9, <2>10, <2>11, <2>12, <2>13
          DEF Next, CallbackStep
<1>4. TypeOK /\ HolderHasKey /\ LateTriggers /\ KeyIsAccountedFor /\ [Next]_vars
        => [\A j \in Jobs : [KeyLease(j)!Next]_(KeyLease(j)!vars)]_vars
  BY <1>2, <1>3
<1> QED BY <1>1, <1>4, Typing, Holding, LateOnes, NoTokenLeftBehind, PTL DEF Spec, RefinesLease

-----------------------------------------------------------------------------
(* What goes on comes to an end.  tlapm cannot prove an ENABLED: the theorems *)
(* below assume that a request or callback under way can take its next step  *)
(* and that Redis can end the TTL of an orphan; TLC finds this invariant.    *)
RequestEnabled(r) == req[r] # Nil => ENABLED <<RequestStep(r)>>_vars

CallbackEnabled(c) == cb[c] # Nil => ENABLED <<CallbackStep(c)>>_vars

TTLEnabled(j) == key[j] = Orphan => ENABLED <<KeyExpires(j)>>_vars

StepsEnabled ==
  /\ \A r \in Requests : RequestEnabled(r)
  /\ \A c \in Callbacks : CallbackEnabled(c)
  /\ \A j \in Jobs : TTLEnabled(j)

\* The four stages of a callback.
LEMMA CallbackEnds ==
  ASSUME NEW c \in Callbacks
  PROVE  Spec /\ CallbackFairness(c) /\ []CallbackEnabled(c) => (cb[c] # Nil ~> cb[c] = Nil)
<1> DEFINE Over == cb[c] = Nil
<1> USE NilAssumption
<1>1. TypeOK => At(c, "lock") \/ At(c, "trigger") \/ At(c, "unlock") \/ At(c, "rearm") \/ Over
  BY DEF TypeOK, At, Callback
<1>2. /\ TypeOK /\ At(c, "lock") /\ [Next]_vars => At(c, "lock")' \/ At(c, "trigger")' \/ At(c, "rearm")' \/ Over'
      /\ TypeOK /\ At(c, "trigger") /\ [Next]_vars => At(c, "trigger")' \/ At(c, "unlock")' \/ Over'
      /\ TypeOK /\ At(c, "unlock") /\ [Next]_vars => At(c, "unlock")' \/ At(c, "rearm")' \/ Over'
      /\ TypeOK /\ At(c, "rearm") /\ [Next]_vars => At(c, "rearm")' \/ Over'
  BY CallbackMoves DEF At, Moves
<1>3. /\ TypeOK /\ At(c, "lock") /\ <<Next /\ CallbackStep(c)>>_vars => At(c, "trigger")' \/ At(c, "rearm")'
      /\ TypeOK /\ At(c, "trigger") /\ <<Next /\ CallbackStep(c)>>_vars => At(c, "unlock")'
      /\ TypeOK /\ At(c, "unlock") /\ <<Next /\ CallbackStep(c)>>_vars => At(c, "rearm")'
      /\ TypeOK /\ At(c, "rearm") /\ <<Next /\ CallbackStep(c)>>_vars => Over'
  <2> SUFFICES ASSUME TypeOK, CallbackStep(c)
               PROVE  /\ At(c, "lock") => At(c, "trigger")' \/ At(c, "rearm")'
                      /\ At(c, "trigger") => At(c, "unlock")'
                      /\ At(c, "unlock") => At(c, "rearm")'
                      /\ At(c, "rearm") => Over'
    OBVIOUS
  <2>1. ASSUME NEW p \in {"lock", "trigger", "unlock", "rearm"}, cb[c] # Nil, GoTo(c, p)
        PROVE  At(c, p)'
    <3>1. cb'[c] # Nil
      BY <2>1, SameStage DEF GoTo
    <3>2. cb'[c].pc = p
      BY <2>1 DEF GoTo, TypeOK, Callback
    <3> QED BY <3>1, <3>2 DEF At
  <2>2. CASE AcquireLock(c) \/ SkipTrigger(c)
    BY <2>1, <2>2 DEF AcquireLock, SkipTrigger, At
  <2>3. CASE Trigger(c) \/ Unlock(c)
    BY <2>1, <2>3 DEF Trigger, Unlock, At
  <2>4. CASE Rearm(c)
    BY <2>4 DEF Rearm, At, TypeOK
  <2> QED BY <2>2, <2>3, <2>4 DEF CallbackStep
<1>4. CallbackEnabled(c) /\ ~Over => ENABLED <<CallbackStep(c)>>_vars
  BY DEF CallbackEnabled
<1>5. At(c, "lock") \/ At(c, "trigger") \/ At(c, "unlock") \/ At(c, "rearm") => ~Over
  BY DEF At
<1> QED BY <1>1, <1>2, <1>3, <1>4, <1>5, Typing, PTL DEF Spec, CallbackFairness

(* Every callback ends: it gets the lock or does not, triggers, releases the *)
(* lock and schedules its job again, panics or goes with its process.        *)
CallbacksEnd(c) == cb[c] # Nil ~> cb[c] = Nil

THEOREM EveryCallbackEnds ==
  FairSpec /\ []StepsEnabled => \A c \in Callbacks : CallbacksEnd(c)
<1>1. ASSUME NEW c \in Callbacks PROVE FairSpec /\ []StepsEnabled => CallbacksEnd(c)
  <2>1. Fairness => CallbackFairness(c)
    BY DEF Fairness
  <2>2. StepsEnabled => CallbackEnabled(c)
    BY DEF StepsEnabled
  <2> QED BY <2>1, <2>2, CallbackEnds, PTL DEF FairSpec, CallbacksEnd
<1> QED BY <1>1

\* The stages of a request.
LEMMA RequestMoves ==
  ASSUME TypeOK, [Next]_vars, NEW r \in Requests, req[r] # Nil
  PROVE  \/ req'[r] \in {req[r], Nil}
         \/ req'[r] # Nil /\ req[r].pc = "read" /\ req'[r].pc = "add"
<1> USE NilAssumption
<1>1. ASSUME NEW s \in Requests, NEW n \in Nodes, NEW j \in Jobs,
             \/ \E row \in Row, caller \in Callers : CreateJob(s, n, j, row, caller)
             \/ PauseJob(s, n, j)
             \/ \E caller \in Callers : ResumeJob(s, n, j, caller)
             \/ DeleteJob(s, n, j)
      PROVE  req'[r] = req[r]
  BY <1>1 DEF Accepts, CreateJob, PauseJob, ResumeJob, DeleteJob, TypeOK
<1>2. ASSUME \/ \E n \in Nodes, j \in Jobs, row \in Row :
                  UpdateJob(n, j, row) \/ CreateUnanswered(n, j, row)
             \/ \E n \in Nodes, js \in SUBSET Jobs : DeleteExecutor(n, js)
      PROVE  req'[r] = req[r]
  BY <1>2 DEF UpdateJob, CreateUnanswered, DeleteExecutor
<1>3. ASSUME NEW s \in Requests, RemoveFromWheel(s) \/ AddToWheel(s) \/ DbFails(s)
      PROVE  req'[r] \in {req[r], Nil}
  BY <1>3 DEF RemoveFromWheel, AddToWheel, DbFails, TypeOK
<1>4. ASSUME NEW s \in Requests, ReadBack(s)
      PROVE  \/ req'[r] \in {req[r], Nil}
             \/ req'[r] # Nil /\ req[r].pc = "read" /\ req'[r].pc = "add"
  <2>1. CASE s = r /\ db[req[r].job] # Nil
    <3>1. req[r] \in Request
      BY DEF TypeOK
    <3>2. db[req[r].job].cron \in Crons
      BY <2>1, <3>1 DEF TypeOK, Request, Row
    <3>3. req'[r] = [req[r] EXCEPT !.cron = db[req[r].job].cron, !.pc = "add"]
      BY <1>4, <2>1 DEF ReadBack, TypeOK
    <3>4. req'[r] \in Request /\ req'[r].pc = "add"
      BY <3>1, <3>2, <3>3 DEF Request
    <3> QED BY <1>4, <2>1, <3>4 DEF ReadBack
  <2>2. CASE ~(s = r /\ db[req[r].job] # Nil)
    BY <1>4, <2>2 DEF ReadBack, TypeOK
  <2> QED BY <2>1, <2>2
<1>5. ASSUME \/ \E n \in Nodes, j \in Jobs, c \in Callbacks : Fire(n, j, c)
             \/ \E c \in Callbacks : CallbackStep(c) \/ LockFails(c) \/ TriggerPanics(c)
             \/ \E j \in Jobs : KeyExpires(j)
      PROVE  req'[r] = req[r]
  BY <1>5 DEF Fire, CallbackStep, AcquireLock, SkipTrigger, Trigger, Unlock, Rearm,
              LockFails, TriggerPanics, KeyExpires
<1>6. ASSUME NEW n \in Nodes, BootRead(n) \/ BootFill(n) \/ Stop(n) \/ Exit(n)
      PROVE  req'[r] \in {req[r], Nil}
  BY <1>6 DEF BootRead, BootFill, Stop, Exit
<1>7. CASE UNCHANGED vars
  BY <1>7 DEF vars
<1> QED BY <1>1, <1>2, <1>3, <1>4, <1>5, <1>6, <1>7 DEF Next, RequestStep

LEMMA RequestEnds ==
  ASSUME NEW r \in Requests
  PROVE  Spec /\ RequestFairness(r) /\ []RequestEnabled(r) => (req[r] # Nil ~> req[r] = Nil)
<1> DEFINE Over == req[r] = Nil
           Reads == req[r] # Nil /\ req[r].pc = "read"
           Last == req[r] # Nil /\ req[r].pc \in {"remove", "add"}
<1> USE NilAssumption
<1>1. TypeOK => Reads \/ Last \/ Over
  BY DEF TypeOK, Request
<1>2. /\ TypeOK /\ Reads /\ [Next]_vars => Reads' \/ Last' \/ Over'
      /\ TypeOK /\ Last /\ [Next]_vars => Last' \/ Over'
  BY RequestMoves
<1>3. /\ TypeOK /\ Reads /\ <<Next /\ RequestStep(r)>>_vars => Last' \/ Over'
      /\ TypeOK /\ Last /\ <<Next /\ RequestStep(r)>>_vars => Over'
  <2> SUFFICES ASSUME TypeOK, RequestStep(r), Next
               PROVE  /\ Reads => Last' \/ Over'
                      /\ Last => Over'
    OBVIOUS
  <2>1. CASE ReadBack(r)
    <3>1. Reads /\ (Over' \/ req'[r] # req[r])
      <4>1. req[r] \in Request
        BY <2>1 DEF ReadBack, TypeOK
      <4>2. CASE db[req[r].job] # Nil
        <5>1. req'[r].pc = "add"
          BY <2>1, <4>1, <4>2 DEF ReadBack, TypeOK, Request
        <5> QED BY <2>1, <5>1 DEF ReadBack
      <4>3. CASE db[req[r].job] = Nil
        BY <2>1, <4>3 DEF ReadBack, TypeOK
      <4> QED BY <2>1, <4>2, <4>3 DEF ReadBack
    <3> QED BY <3>1, RequestMoves
  <2>2. CASE RemoveFromWheel(r) \/ AddToWheel(r)
    BY <2>2 DEF RemoveFromWheel, AddToWheel, TypeOK
  <2> QED BY <2>1, <2>2 DEF RequestStep
<1>4. RequestEnabled(r) /\ ~Over => ENABLED <<RequestStep(r)>>_vars
  BY DEF RequestEnabled
<1>5. Reads \/ Last => ~Over
  OBVIOUS
<1> QED BY <1>1, <1>2, <1>3, <1>4, <1>5, Typing, PTL DEF Spec, RequestFairness

(* Every request ends: no pause, resume, delete or create waits for another. *)
RequestsEnd(r) == req[r] # Nil ~> req[r] = Nil

THEOREM EveryRequestEnds ==
  FairSpec /\ []StepsEnabled => \A r \in Requests : RequestsEnd(r)
<1>1. ASSUME NEW r \in Requests PROVE FairSpec /\ []StepsEnabled => RequestsEnd(r)
  <2>1. Fairness => RequestFairness(r)
    BY DEF Fairness
  <2>2. StepsEnabled => RequestEnabled(r)
    BY DEF StepsEnabled
  <2> QED BY <2>1, <2>2, RequestEnds, PTL DEF FairSpec, RequestsEnd
<1> QED BY <1>1

LEMMA OrphanExpires ==
  ASSUME NEW j \in Jobs
  PROVE  Spec /\ TTLFairness(j) /\ []TTLEnabled(j) => (key[j] = Orphan ~> key[j] = Nil)
<1> USE NilAssumption
<1>1. TypeOK /\ key[j] = Orphan /\ [Next]_vars => (key[j] = Orphan)' \/ (key[j] = Nil)'
  BY KeyMoves
<1>2. TypeOK /\ key[j] = Orphan /\ <<Next /\ KeyExpires(j)>>_vars => (key[j] = Nil)'
  BY DEF KeyExpires, TypeOK
<1>3. TTLEnabled(j) /\ key[j] = Orphan => ENABLED <<KeyExpires(j)>>_vars
  BY DEF TTLEnabled
<1> QED BY <1>1, <1>2, <1>3, Typing, PTL DEF Spec, TTLFairness

(* No key stays taken for ever: whoever holds the trigger lock of a job, it   *)
(* becomes free again, by the deferred unlock or by its TTL.                  *)
KeysAreFreed(j, k) == key[j] = k ~> key[j] = Nil

LEMMA OrphanGoes ==
  ASSUME NEW j \in Jobs
  PROVE  FairSpec /\ []StepsEnabled => KeysAreFreed(j, Orphan)
<1>1. Fairness => TTLFairness(j)
  BY DEF Fairness
<1>2. StepsEnabled => TTLEnabled(j)
  BY DEF StepsEnabled
<1> QED BY <1>1, <1>2, OrphanExpires, PTL DEF FairSpec, KeysAreFreed

LEMMA TokenGoes ==
  ASSUME NEW j \in Jobs, NEW c \in Callbacks
  PROVE  FairSpec /\ []StepsEnabled => KeysAreFreed(j, c)
<1> DEFINE Its == key[j] = c
           Free == key[j] = Nil
           Lost == key[j] = Orphan
<1> USE NilAssumption
<1>1. TypeOK /\ Its /\ [Next]_vars => Its' \/ Free' \/ Lost'
  BY KeyMoves
<1>2. KeyIsAccountedFor /\ Its => cb[c] # Nil /\ ~(cb[c] = Nil)
  BY DEF KeyIsAccountedFor, InTrigger, At
<1>3. Fairness => CallbackFairness(c) /\ TTLFairness(j)
  BY DEF Fairness
<1>4. StepsEnabled => CallbackEnabled(c) /\ TTLEnabled(j)
  BY DEF StepsEnabled
<1> QED
  BY <1>1, <1>2, <1>3, <1>4, Typing, NoTokenLeftBehind, CallbackEnds, OrphanExpires, PTL
     DEF Spec, FairSpec, KeysAreFreed

THEOREM EveryKeyIsFreed ==
  FairSpec /\ []StepsEnabled =>
    \A j \in Jobs, k \in Callbacks \cup {Orphan} : KeysAreFreed(j, k)
<1>1. ASSUME NEW j \in Jobs, NEW k \in Callbacks \cup {Orphan}
      PROVE  FairSpec /\ []StepsEnabled => KeysAreFreed(j, k)
  <2>1. CASE k \in Callbacks
    BY <2>1, TokenGoes
  <2>2. CASE k = Orphan
    BY <2>2, OrphanGoes
  <2> QED BY <2>1, <2>2
<1> QED BY <1>1

-----------------------------------------------------------------------------
(* At most one request at a time works on j. *)
OneRequestOn(j) ==
  \A r, s \in Requests :
    (req[r] # Nil /\ req[s] # Nil /\ req[r].job = j /\ req[s].job = j) => r = s

\* What n holds of j agrees with a row that is not running, with one that is
\* schedulable; a stray pair need not.
Gone(n, j) == <<n, j>> \in stray \/ IsRunning(j) \/ ~Holds(n, j)
Kept(n, j) ==
  \/ <<n, j>> \in stray
  \/ ~Schedulable(j)
  \/ node[n] \notin {"loading", "up"}
  \/ Holds(n, j)

\* Requests are on nodes that are up and about ids that were assigned; only a
\* node in Start has a batch, only one whose wheel was started has entries and
\* callbacks, and their cron expressions parse.
Served ==
  /\ \A r \in Requests :
       req[r] # Nil => node[req[r].node] = "up" /\ req[r].job \notin fresh
  /\ \A j \in fresh : db[j] = Nil
  /\ \A n \in Nodes, j \in Jobs : batch[n][j] # Nil => node[n] = "loading"
  /\ \A n \in Nodes, j \in Jobs :
       wheel[n][j] # Nil => node[n] \in {"up", "stopping"} /\ wheel[n][j].cron \in ValidCrons
  /\ \A c \in Callbacks :
       cb[c] # Nil => node[cb[c].node] \in {"up", "stopping"} /\ cb[c].cron \in ValidCrons

Quiet(j) == ~Busy(j) => \A n \in Nodes : Gone(n, j) /\ Kept(n, j)

\* A pause or a delete has stopped its job; only an update revives it.
Removing(r) ==
  Schedulable(req[r].job) =>
    /\ <<req[r].node, req[r].job>> \in stray
    /\ \A n \in Nodes : Kept(n, req[r].job)

\* A resume has set its row running; only a deleted executor takes it away.
Reading(r) ==
  /\ db[req[r].job] # Nil => IsRunning(req[r].job)
  /\ \A n \in Nodes : Gone(n, req[r].job)

Adding(r) ==
  /\ IsRunning(req[r].job) \/ <<req[r].node, req[r].job>> \in stray
  /\ \A n \in Nodes : Gone(n, req[r].job)

Progress(r) ==
  /\ req[r].pc = "remove" => Removing(r)
  /\ req[r].pc = "read" => Reading(r)
  /\ req[r].pc = "add" => Adding(r)

InProgress(j) == \A r \in Requests : (req[r] # Nil /\ req[r].job = j) => Progress(r)

\* Served, and the table agrees with the nodes on j.
Agreement(j) == Served /\ Quiet(j) /\ InProgress(j)

\* What is known of the states before and after a step.
StepFacts(j) == TypeOK /\ TypeOK' /\ Agreement(j) /\ OneRequestOn(j) /\ OneRequestOn(j)'

\* Whatever else a step does, n and the table part no further on j in it.
NoWorse(n, j) ==
  \/ <<n, j>> \in stray'
  \/ /\ IsRunning(j) => IsRunning(j)'
     /\ Schedulable(j)' => Schedulable(j)
     /\ Holds(n, j)' => Holds(n, j)
     /\ node'[n] \in {"loading", "up"} =>
          node[n] \in {"loading", "up"} /\ (Holds(n, j) => Holds(n, j)')

(* A step that ends no request, or leaves its job stray, and makes nothing   *)
(* worse keeps the agreement.                                                *)
LEMMA NoWorseAgreement ==
  ASSUME NEW f \in Jobs, StepFacts(f), Served', stray \subseteq stray',
         \A r \in Requests : \/ req'[r] = req[r]
                             \/ req'[r] = Nil /\ \A n \in Nodes : <<n, req[r].job>> \in stray',
         \A j \in Jobs \ fresh : db'[j] # Nil =>
           db[j] # Nil /\ (IsRunning(j) => IsRunning(j)'),
         \A n \in Nodes, j \in Jobs : NoWorse(n, j)
  PROVE  Agreement(f)'
<1> USE NilAssumption DEF StepFacts
<1>1. Quiet(f)'
  <2> SUFFICES ASSUME ~Busy(f)', NEW n \in Nodes
               PROVE  Gone(n, f)' /\ Kept(n, f)'
    BY DEF Quiet
  <2>1. CASE Busy(f)
    <3>1. <<n, f>> \in stray'
      BY <2>1 DEF Busy
    <3> QED BY <3>1 DEF Gone, Kept
  <2>2. CASE ~Busy(f)
    <3>1. Gone(n, f) /\ Kept(n, f) /\ NoWorse(n, f)
      BY <2>2 DEF Agreement, Quiet
    <3> QED BY <3>1 DEF Gone, Kept, NoWorse
  <2> QED BY <2>1, <2>2
<1>2. InProgress(f)'
  <2> SUFFICES ASSUME NEW r \in Requests, req'[r] # Nil, req'[r].job = f
               PROVE  Progress(r)'
    BY DEF InProgress
  <2>1. req'[r] = req[r] /\ req[r] # Nil /\ req[r] \in Request
    BY DEF TypeOK
  <2> DEFINE j == req[r].job
             n == req[r].node
  <2>2. j \in Jobs /\ n \in Nodes /\ j \notin fresh
    BY <2>1 DEF Request, Agreement, Served
  <2>3. ASSUME NEW m \in Nodes
        PROVE  (Gone(m, j) => Gone(m, j)') /\ (Kept(m, j) => Kept(m, j)')
    BY <2>2, <2>3 DEF Gone, Kept, NoWorse
  <2>4. ASSUME Removing(r) PROVE Removing(r)'
    <3>1. ASSUME Schedulable(j)' PROVE Schedulable(j) \/ \A m \in Nodes : <<m, j>> \in stray'
      <4>1. ASSUME NEW m \in Nodes, ~Schedulable(j) PROVE <<m, j>> \in stray'
        BY <2>2, <3>1, <4>1 DEF NoWorse
      <4> QED BY <4>1
    <3> QED BY <2>1, <2>2, <2>3, <2>4, <3>1 DEF Removing, Kept
  <2>5. ASSUME Reading(r) PROVE Reading(r)'
    BY <2>1, <2>2, <2>3, <2>5 DEF Reading
  <2>6. ASSUME Adding(r) PROVE Adding(r)'
    <3>1. IsRunning(j)' \/ <<n, j>> \in stray'
      BY <2>1, <2>2, <2>6 DEF Adding, NoWorse
    <3> QED BY <2>1, <2>2, <2>3, <2>6, <3>1 DEF Adding
  <2> QED BY <2>1, <2>4, <2>5, <2>6 DEF Agreement, InProgress, Progress
<1> QED BY <1>1, <1>2 DEF Agreement

\* What no request of JobService does.
WheelStep ==
  \/ \E c \in Callbacks :
       \/ AcquireLock(c) \/ SkipTrigger(c) \/ LockFails(c) \/ Trigger(c) \/ Unlock(c)
       \/ TriggerPanics(c) \/ Rearm(c)
       \/ \E n \in Nodes, j \in Jobs : Fire(n, j, c)
  \/ \E n \in Nodes : BootFill(n) \/ Stop(n) \/ Exit(n)

(* The wheels and their callbacks serve nodes and ids as Served says.        *)
LEMMA WheelServed ==
  ASSUME NEW f \in Jobs, StepFacts(f), WheelStep
  PROVE  Served'
<1> USE NilAssumption DEF StepFacts
<1>1. ASSUME NEW c \in Callbacks,
             AcquireLock(c) \/ SkipTrigger(c) \/ LockFails(c) \/ Trigger(c) \/ Unlock(c)
      PROVE  Served'
  <2>1. PICK p \in {"lock", "trigger", "unlock", "rearm"} : cb' = [cb EXCEPT ![c].pc = p]
    BY <1>1 DEF AcquireLock, SkipTrigger, LockFails, Trigger, Unlock, GoTo
  <2>2. UNCHANGED <<db, fresh, node, batch, wheel, req>> /\ cb[c] # Nil
    BY <1>1 DEF AcquireLock, SkipTrigger, LockFails, Trigger, Unlock, At
  <2> QED BY <2>1, <2>2, SameStage DEF Agreement, Served
<1>2. ASSUME NEW c \in Callbacks, TriggerPanics(c) PROVE Served'
  BY <1>2 DEF Agreement, Served, TriggerPanics, TypeOK
<1>3. ASSUME NEW c \in Callbacks, Rearm(c) PROVE Served'
  <2>1. cb[c] \in Callback
    BY <1>3 DEF TypeOK, Rearm, At
  <2>2. ASSUME NEW n \in Nodes, NEW j \in Jobs, wheel'[n][j] # Nil
        PROVE  node[n] \in {"up", "stopping"} /\ wheel'[n][j].cron \in ValidCrons
    BY <1>3, <2>1, <2>2 DEF Agreement, Served, Rearm, Schedule, TypeOK, Callback
  <2> QED BY <1>3, <2>2 DEF Agreement, Served, Rearm, TypeOK
<1>4. ASSUME NEW c \in Callbacks, NEW n \in Nodes, NEW j \in Jobs, Fire(n, j, c)
      PROVE  Served'
  BY <1>4 DEF Agreement, Served, Fire, TypeOK
<1>5. ASSUME NEW n \in Nodes, BootFill(n) PROVE Served'
  <2>1. ASSUME NEW m \in Nodes, NEW j \in Jobs, wheel'[m][j] # Nil
        PROVE  node'[m] \in {"up", "stopping"} /\ wheel'[m][j].cron \in ValidCrons
    <3>1. CASE m # n
      BY <1>5, <2>1, <3>1 DEF Agreement, Served, BootFill, TypeOK
    <3>2. CASE m = n /\ wheel' = wheel
      BY <1>5, <2>1, <3>2 DEF Agreement, Served, BootFill, TypeOK
    <3>3. CASE m = n /\ wheel' # wheel
      <4>1. node'[n] = "up" /\ \A k \in Jobs : batch[n][k] # Nil => batch[n][k] \in ValidCrons
        BY <1>5, <3>3 DEF BootFill, TypeOK
      <4>2. wheel' = [wheel EXCEPT ![n] =
                        [k \in Jobs |-> IF batch[n][k] = Nil THEN Nil
                                        ELSE [cron |-> batch[n][k], live |-> TRUE]]]
        BY <1>5, <3>3 DEF BootFill
      <4>3. wheel'[n][j] = IF batch[n][j] = Nil THEN Nil
                           ELSE [cron |-> batch[n][j], live |-> TRUE]
        BY <4>2 DEF TypeOK
      <4> QED BY <2>1, <3>3, <4>1, <4>3
    <3> QED BY <3>1, <3>2, <3>3
  <2>2. node[n] = "loading" /\ \A m \in Nodes : m # n => node'[m] = node[m]
    BY <1>5 DEF BootFill, TypeOK
  <2>3. \A m \in Nodes, j \in Jobs : batch'[m][j] = IF m = n THEN Nil ELSE batch[m][j]
    BY <1>5 DEF BootFill, TypeOK
  <2>4. UNCHANGED <<db, fresh, req, cb>>
    BY <1>5 DEF BootFill
  <2>5. \A r \in Requests :
          req'[r] # Nil => node'[req'[r].node] = "up" /\ req'[r].job \notin fresh'
    BY <2>2, <2>4 DEF Agreement, Served, TypeOK, Request
  <2>6. ASSUME NEW c \in Callbacks, cb'[c] # Nil
        PROVE  node'[cb'[c].node] \in {"up", "stopping"} /\ cb'[c].cron \in ValidCrons
    <3>1. cb[c] \in Callback /\ cb'[c] = cb[c]
      BY <2>4, <2>6 DEF TypeOK
    <3>2. cb[c].node \in Nodes /\ node[cb[c].node] \in {"up", "stopping"}
      BY <2>6, <3>1 DEF Agreement, Served, Callback
    <3> QED BY <2>2, <2>6, <3>1, <3>2 DEF Agreement, Served
  <2> QED BY <2>1, <2>2, <2>3, <2>4, <2>5, <2>6 DEF Agreement, Served
<1>6. ASSUME NEW n \in Nodes, Stop(n) PROVE Served'
  <2>1. \A r \in Requests :
          req'[r] # Nil => node'[req'[r].node] = "up" /\ req'[r].job \notin fresh'
    BY <1>6 DEF Agreement, Served, Stop, TypeOK, Request
  <2>2. \A c \in Callbacks :
          cb'[c] # Nil => node'[cb'[c].node] \in {"up", "stopping"} /\ cb'[c].cron \in ValidCrons
    BY <1>6 DEF Agreement, Served, Stop, TypeOK, Callback
  <2> QED BY <1>6, <2>1, <2>2 DEF Agreement, Served, Stop, TypeOK
<1>7. ASSUME NEW n \in Nodes, Exit(n) PROVE Served'
  <2>1. \A r \in Requests :
          req'[r] # Nil => node'[req'[r].node] = "up" /\ req'[r].job \notin fresh'
    BY <1>7 DEF Agreement, Served, Exit, TypeOK, Request
  <2>2. \A c \in Callbacks :
          cb'[c] # Nil => node'[cb'[c].node] \in {"up", "stopping"} /\ cb'[c].cron \in ValidCrons
    BY <1>7 DEF Agreement, Served, Exit, TypeOK, Callback
  <2>3. \A m \in Nodes, j \in Jobs :
          /\ batch'[m][j] = IF m = n THEN Nil ELSE batch[m][j]
          /\ wheel'[m][j] = IF m = n THEN Nil ELSE wheel[m][j]
          /\ m # n => node'[m] = node[m]
    BY <1>7 DEF Exit, TypeOK
  <2>4. UNCHANGED <<db, fresh>>
    BY <1>7 DEF Exit
  <2> QED BY <2>1, <2>2, <2>3, <2>4 DEF Agreement, Served
<1> QED BY <1>1, <1>2, <1>3, <1>4, <1>5, <1>6, <1>7 DEF WheelStep

(* The wheels, their callbacks, the end of Start, Stop and Exit part the     *)
(* table and the wheels on nothing but stray jobs.                           *)
LEMMA WheelAgreement ==
  ASSUME NEW f \in Jobs, StepFacts(f), WheelStep
  PROVE  Agreement(f)'
<1> USE NilAssumption DEF StepFacts
<1>0. Served'
  BY WheelServed
<1>1. ASSUME NEW c \in Callbacks,
             AcquireLock(c) \/ SkipTrigger(c) \/ LockFails(c) \/ Trigger(c) \/ Unlock(c)
      PROVE  Agreement(f)'
  <2>1. PICK p \in {"lock", "trigger", "unlock", "rearm"} : cb' = [cb EXCEPT ![c].pc = p]
    BY <1>1 DEF AcquireLock, SkipTrigger, LockFails, Trigger, Unlock, GoTo
  <2>2. UNCHANGED <<db, fresh, node, batch, wheel, req, stray>> /\ cb[c] # Nil
    BY <1>1 DEF AcquireLock, SkipTrigger, LockFails, Trigger, Unlock, At
  <2>3. \A n \in Nodes, j \in Jobs : InFlight(n, j)' <=> InFlight(n, j)
    <3>1. /\ \A d \in Callbacks : d # c => cb'[d] = cb[d]
          /\ cb'[c] # Nil /\ cb'[c].node = cb[c].node /\ cb'[c].job = cb[c].job
      BY <2>1, <2>2, SameStage
    <3> QED BY <2>2, <3>1 DEF InFlight
  <2>4. \A n \in Nodes, j \in Jobs : NoWorse(n, j)
    BY <2>2, <2>3 DEF NoWorse, Holds, IsRunning, Schedulable
  <2> QED BY <1>0, <2>2, <2>4, NoWorseAgreement DEF IsRunning
<1>2. ASSUME NEW c \in Callbacks, TriggerPanics(c) PROVE Agreement(f)'
  <2>1. UNCHANGED <<db, fresh, node, batch, wheel, req>> /\ cb[c] # Nil
    BY <1>2 DEF TriggerPanics, At
  <2>2. ASSUME NEW n \in Nodes, NEW j \in Jobs, <<n, j>> # <<cb[c].node, cb[c].job>>
        PROVE  InFlight(n, j)' <=> InFlight(n, j)
    BY <1>2, <2>2 DEF InFlight, TriggerPanics, TypeOK
  <2>3. \A n \in Nodes, j \in Jobs : NoWorse(n, j)
    BY <1>2, <2>1, <2>2 DEF NoWorse, Holds, IsRunning, Schedulable, TriggerPanics
  <2> QED BY <1>0, <1>2, <2>1, <2>3, NoWorseAgreement DEF IsRunning, TriggerPanics
<1>3. ASSUME NEW c \in Callbacks, Rearm(c) PROVE Agreement(f)'
  <2>1. UNCHANGED <<db, fresh, node, batch, req, stray>> /\ cb[c] \in Callback
    BY <1>3 DEF Rearm, At, TypeOK
  <2> DEFINE k == cb[c].node
             i == cb[c].job
  <2>2. k \in Nodes /\ i \in Jobs /\ cb[c].cron \in ValidCrons
    BY <2>1 DEF Callback, Agreement, Served
  <2>3. /\ \A d \in Callbacks : d # c => cb'[d] = cb[d]
        /\ cb'[c] = Nil
    BY <1>3 DEF Rearm, TypeOK
  <2>4. ASSUME NEW n \in Nodes, NEW j \in Jobs, <<n, j>> # <<k, i>>
        PROVE  /\ InFlight(n, j)' <=> InFlight(n, j)
               /\ wheel'[n][j] = wheel[n][j]
    <3>1. wheel'[n][j] = wheel[n][j]
      BY <1>3, <2>2, <2>4 DEF Rearm, Schedule, TypeOK
    <3> QED BY <2>1, <2>3, <2>4, <3>1 DEF InFlight
  <2>5. InFlight(k, i)
    BY <2>1 DEF InFlight
  <2>6. node[k] = "up" => wheel'[k][i] # Nil
    <3>1. [cron |-> cb[c].cron, live |-> cb[c].live] \in Entry
      BY <2>1 DEF Callback, Entry
    <3>2. Schedule(k, i, cb[c].cron, cb[c].live)
      BY <1>3 DEF Rearm
    <3> QED BY <2>2, <3>1, <3>2 DEF Schedule, TypeOK
  <2>7. node[k] # "loading"
    BY <2>1, <2>2 DEF Agreement, Served
  <2>8. \A n \in Nodes, j \in Jobs : NoWorse(n, j)
    BY <2>1, <2>4, <2>5, <2>6, <2>7 DEF NoWorse, Holds, IsRunning, Schedulable
  <2> QED BY <1>0, <2>1, <2>8, NoWorseAgreement DEF IsRunning
<1>4. ASSUME NEW c \in Callbacks, NEW k \in Nodes, NEW i \in Jobs, Fire(k, i, c)
      PROVE  Agreement(f)'
  <2>1. UNCHANGED <<db, fresh, node, batch, req, stray>>
    BY <1>4 DEF Fire
  <2>2. /\ \A d \in Callbacks : d # c => cb'[d] = cb[d]
        /\ cb'[c].node = k /\ cb'[c].job = i /\ cb[c] = Nil
    BY <1>4 DEF Fire, TypeOK
  <2>3. ASSUME NEW n \in Nodes, NEW j \in Jobs, <<n, j>> # <<k, i>>
        PROVE  /\ InFlight(n, j)' <=> InFlight(n, j)
               /\ wheel'[n][j] = wheel[n][j]
    <3>1. wheel'[n][j] = wheel[n][j]
      BY <1>4, <2>3 DEF Fire, TypeOK
    <3> QED BY <2>2, <2>3, <3>1 DEF InFlight
  <2>4. wheel[k][i] # Nil
    BY <1>4 DEF Fire
  <2>5. InFlight(k, i)'
    <3>1. cb'[c] # Nil
      <4>1. wheel[k][i] \in Entry
        BY <2>4 DEF TypeOK
      <4>2. [job |-> i, node |-> k, cron |-> wheel[k][i].cron,
             live |-> wheel[k][i].live, pc |-> "lock"] \in Callback
        BY <4>1 DEF Entry, Callback
      <4> QED BY <1>4, <4>2 DEF Fire, TypeOK
    <3> QED BY <2>2, <3>1 DEF InFlight
  <2>6. \A n \in Nodes, j \in Jobs : NoWorse(n, j)
    BY <2>1, <2>3, <2>4, <2>5 DEF NoWorse, Holds, IsRunning, Schedulable
  <2> QED BY <1>0, <2>1, <2>6, NoWorseAgreement DEF IsRunning
<1>5. ASSUME NEW k \in Nodes, BootFill(k) PROVE Agreement(f)'
  <2>1. UNCHANGED <<db, fresh, req, cb, stray>> /\ node[k] = "loading"
    BY <1>5 DEF BootFill
  <2>2. ASSUME NEW n \in Nodes, NEW j \in Jobs
        PROVE  NoWorse(n, j)
    <3>1. InFlight(n, j)' <=> InFlight(n, j)
      BY <2>1 DEF InFlight
    <3>2. CASE n # k
      <4>1. node'[n] = node[n] /\ wheel'[n][j] = wheel[n][j] /\ batch'[n][j] = batch[n][j]
        BY <1>5, <3>2 DEF BootFill, TypeOK
      <4> QED BY <2>1, <3>1, <4>1 DEF NoWorse, Holds, IsRunning, Schedulable
    <3>3. CASE n = k /\ node'[k] = "down"
      <4>1. wheel' = wheel /\ batch'[n][j] = Nil
        BY <1>5, <3>3 DEF BootFill, TypeOK
      <4> QED BY <2>1, <3>1, <3>3, <4>1 DEF NoWorse, Holds, IsRunning, Schedulable
    <3>4. CASE n = k /\ node'[k] # "down"
      <4>1. wheel' = [wheel EXCEPT ![k] =
                        [i \in Jobs |-> IF batch[k][i] = Nil THEN Nil
                                        ELSE [cron |-> batch[k][i], live |-> TRUE]]]
        BY <1>5, <3>4 DEF BootFill, TypeOK
      <4>2. wheel'[n][j] = IF batch[n][j] = Nil THEN Nil
                           ELSE [cron |-> batch[n][j], live |-> TRUE]
        BY <3>4, <4>1 DEF TypeOK
      <4>3. batch[n][j] # Nil => [cron |-> batch[n][j], live |-> TRUE] # Nil
        <5>1. ASSUME batch[n][j] # Nil PROVE [cron |-> batch[n][j], live |-> TRUE] \in Entry
          BY <5>1 DEF TypeOK, Entry
        <5> QED BY <5>1
      <4>4. batch'[n][j] = Nil
        BY <1>5, <3>4 DEF BootFill, TypeOK
      <4>5. wheel[n][j] = Nil
        BY <2>1, <3>4 DEF Agreement, Served
      <4> QED BY <2>1, <3>1, <3>4, <4>2, <4>3, <4>4, <4>5
              DEF NoWorse, Holds, IsRunning, Schedulable
    <3> QED BY <3>2, <3>3, <3>4
  <2> QED BY <1>0, <2>1, <2>2, NoWorseAgreement DEF IsRunning
<1>6. ASSUME NEW k \in Nodes, Stop(k) PROVE Agreement(f)'
  <2>1. UNCHANGED <<db, fresh, batch, wheel, req, cb, stray>>
    BY <1>6 DEF Stop
  <2>2. \A n \in Nodes : node'[n] \in {"loading", "up"} => node[n] \in {"loading", "up"}
    BY <1>6 DEF Stop, TypeOK
  <2>3. \A n \in Nodes, j \in Jobs : NoWorse(n, j)
    BY <2>1, <2>2 DEF NoWorse, Holds, InFlight, IsRunning, Schedulable
  <2> QED BY <1>0, <2>1, <2>3, NoWorseAgreement DEF IsRunning
<1>7. ASSUME NEW k \in Nodes, Exit(k) PROVE Agreement(f)'
  <2>1. UNCHANGED <<db, fresh>> /\ stray \subseteq stray'
    BY <1>7 DEF Exit, AllStray
  <2>2. ASSUME NEW r \in Requests
        PROVE  \/ req'[r] = req[r]
               \/ req'[r] = Nil /\ \A n \in Nodes : <<n, req[r].job>> \in stray'
    <3>1. CASE req[r] # Nil /\ req[r].node = k
      <4>1. req[r].job \in Jobs
        BY <3>1 DEF TypeOK, Request
      <4> QED BY <1>7, <3>1, <4>1 DEF Exit, AllStray
    <3>2. CASE ~(req[r] # Nil /\ req[r].node = k)
      BY <1>7, <3>2 DEF Exit
    <3> QED BY <3>1, <3>2
  <2>3. ASSUME NEW n \in Nodes, NEW j \in Jobs PROVE NoWorse(n, j)
    <3>1. CASE n # k
      <4>1. node'[n] = node[n] /\ wheel'[n][j] = wheel[n][j] /\ batch'[n][j] = batch[n][j]
        BY <1>7, <3>1 DEF Exit, TypeOK
      <4>2. InFlight(n, j)' <=> InFlight(n, j)
        BY <1>7, <3>1 DEF InFlight, Exit
      <4> QED BY <2>1, <4>1, <4>2 DEF NoWorse, Holds, IsRunning, Schedulable
    <3>2. CASE n = k
      <4>1. node'[n] = "down" /\ wheel'[n][j] = Nil /\ batch'[n][j] = Nil
        BY <1>7, <3>2 DEF Exit, TypeOK
      <4>2. ~InFlight(n, j)'
        BY <1>7, <3>2 DEF InFlight, Exit
      <4> QED BY <2>1, <4>1, <4>2 DEF NoWorse, Holds, IsRunning, Schedulable
    <3> QED BY <3>1, <3>2
  <2> QED BY <1>0, <2>1, <2>2, <2>3, NoWorseAgreement DEF IsRunning
<1> QED BY <1>1, <1>2, <1>3, <1>4, <1>5, <1>6, <1>7 DEF WheelStep

\* What changes rows behind the scheduler's back, ends a request half-way, or
\* leaves all of this alone.
RowStep ==
  \/ \E n \in Nodes, j \in Jobs, row \in Row : UpdateJob(n, j, row) \/ CreateUnanswered(n, j, row)
  \/ \E n \in Nodes, js \in SUBSET Jobs : DeleteExecutor(n, js)
  \/ \E r \in Requests : DbFails(r)
  \/ UNCHANGED <<db, fresh, node, batch, wheel, req, cb, stray>>

(* So do the writes that tell no scheduler.                                  *)
LEMMA RowAgreement ==
  ASSUME NEW f \in Jobs, StepFacts(f), RowStep
  PROVE  Agreement(f)'
<1> USE NilAssumption DEF StepFacts
<1>1. ASSUME UNCHANGED <<node, batch, wheel, cb>>, stray \subseteq stray',
             NEW n \in Nodes, NEW j \in Jobs,
             \/ <<n, j>> \in stray'
             \/ /\ IsRunning(j) => IsRunning(j)'
                /\ Schedulable(j)' => Schedulable(j)
      PROVE  NoWorse(n, j)
  BY <1>1 DEF NoWorse, Holds, InFlight
<1>2. ASSUME NEW k \in Nodes, NEW i \in Jobs, NEW row \in Row, UpdateJob(k, i, row)
      PROVE  Agreement(f)'
  <2>1. UNCHANGED <<fresh, node, batch, wheel, req, cb>> /\ stray \subseteq stray'
    BY <1>2 DEF UpdateJob, AllStray
  <2>2. Served'
    BY <1>2, <2>1 DEF UpdateJob, Agreement, Served, TypeOK
  <2>3. ASSUME NEW j \in Jobs, j # i PROVE db'[j] = db[j]
    BY <1>2, <2>3 DEF UpdateJob, TypeOK
  <2>4. db[i] # Nil /\ db'[i] # Nil /\ (IsRunning(i) => IsRunning(i)')
    <3>1. db[i] \in Row
      BY <1>2 DEF UpdateJob, TypeOK
    <3>2. db'[i] = [status |-> IF row.status = "running" THEN "running" ELSE db[i].status,
                    cron |-> row.cron]
      BY <1>2 DEF UpdateJob, TypeOK
    <3>3. db'[i] \in Row
      BY <3>1, <3>2 DEF Row
    <3> QED BY <3>1, <3>2, <3>3 DEF IsRunning
  <2>5. \A n \in Nodes : <<n, i>> \in stray' \/ (Schedulable(i)' => Schedulable(i))
    BY <1>2 DEF UpdateJob, AllStray
  <2>6. \A n \in Nodes, j \in Jobs : NoWorse(n, j)
    BY <1>1, <2>1, <2>3, <2>4, <2>5 DEF IsRunning, Schedulable
  <2> QED BY <2>1, <2>2, <2>3, <2>4, <2>6, NoWorseAgreement DEF IsRunning
<1>3. ASSUME NEW k \in Nodes, NEW i \in Jobs, NEW row \in Row, CreateUnanswered(k, i, row)
      PROVE  Agreement(f)'
  <2>1. UNCHANGED <<node, batch, wheel, req, cb>> /\ stray \subseteq stray' /\ i \in fresh
    BY <1>3 DEF CreateUnanswered, AllStray
  <2>2. fresh' = fresh \ {i} /\ \A j \in Jobs : j # i => db'[j] = db[j]
    BY <1>3 DEF CreateUnanswered, TypeOK
  <2>3. Served'
    BY <2>1, <2>2 DEF Agreement, Served, TypeOK
  <2>4. \A n \in Nodes : <<n, i>> \in stray'
    BY <1>3 DEF CreateUnanswered, AllStray
  <2>5. \A n \in Nodes, j \in Jobs : NoWorse(n, j)
    BY <1>1, <2>1, <2>2, <2>4 DEF IsRunning, Schedulable
  <2> QED BY <2>1, <2>2, <2>3, <2>5, NoWorseAgreement DEF IsRunning
<1>4. ASSUME NEW k \in Nodes, NEW js \in SUBSET Jobs, DeleteExecutor(k, js)
      PROVE  Agreement(f)'
  <2>1. UNCHANGED <<fresh, node, batch, wheel, req, cb>> /\ stray \subseteq stray'
    BY <1>4 DEF DeleteExecutor, AllStray
  <2>2. \A j \in Jobs : db'[j] = IF j \in js THEN Nil ELSE db[j]
    BY <1>4 DEF DeleteExecutor
  <2>3. Served'
    BY <2>1, <2>2 DEF Agreement, Served, TypeOK
  <2>4. \A n \in Nodes, j \in js : <<n, j>> \in stray'
    BY <1>4 DEF DeleteExecutor, AllStray
  <2>5. \A n \in Nodes, j \in Jobs : NoWorse(n, j)
    BY <1>1, <2>1, <2>2, <2>4 DEF IsRunning, Schedulable
  <2> QED BY <2>1, <2>2, <2>3, <2>5, NoWorseAgreement DEF IsRunning
<1>5. ASSUME NEW s \in Requests, DbFails(s) PROVE Agreement(f)'
  <2>1. UNCHANGED <<db, fresh, node, batch, wheel, cb>> /\ stray \subseteq stray'
    BY <1>5 DEF DbFails, AllStray
  <2>2. \A r \in Requests : req'[r] = IF r = s THEN Nil ELSE req[r]
    BY <1>5 DEF DbFails, TypeOK
  <2>3. Served'
    BY <2>1, <2>2 DEF Agreement, Served
  <2>4. \A n \in Nodes : <<n, req[s].job>> \in stray'
    <3>1. req[s].job \in Jobs
      BY <1>5 DEF DbFails, TypeOK, Request
    <3> QED BY <1>5, <3>1 DEF DbFails, AllStray
  <2>5. \A n \in Nodes, j \in Jobs : NoWorse(n, j)
    BY <1>1, <2>1 DEF IsRunning, Schedulable
  <2> QED BY <2>1, <2>2, <2>3, <2>4, <2>5, NoWorseAgreement DEF IsRunning
<1>6. CASE UNCHANGED <<db, fresh, node, batch, wheel, req, cb, stray>>
  <2>1. Served'
    BY <1>6 DEF Agreement, Served
  <2>2. \A n \in Nodes, j \in Jobs : NoWorse(n, j)
    BY <1>1, <1>6 DEF IsRunning, Schedulable
  <2> QED BY <1>6, <2>1, <2>2, NoWorseAgreement DEF IsRunning
<1> QED BY <1>2, <1>3, <1>4, <1>5, <1>6 DEF RowStep

(* A step of request r on job i keeps the agreement on another job, and on i *)
(* if what it leaves of i agrees.                                            *)
LEMMA OneJobAgreement ==
  ASSUME NEW f \in Jobs, StepFacts(f), Served', NEW i \in Jobs, NEW r \in Requests,
         UNCHANGED node,
         \A j \in Jobs : j # i =>
           /\ db'[j] = db[j]
           /\ \A n \in Nodes : /\ Holds(n, j)' <=> Holds(n, j)
                               /\ <<n, j>> \in stray' <=> <<n, j>> \in stray,
         \A s \in Requests : s # r => req'[s] = req[s],
         req[r] # Nil => req[r].job = i,
         req'[r] # Nil => req'[r].job = i,
         req[r] # Nil \/ req'[r] # Nil,
         i = f /\ req'[r] = Nil => \A n \in Nodes : Gone(n, i)' /\ Kept(n, i)',
         i = f /\ req'[r] # Nil => Progress(r)'
  PROVE  Agreement(f)'
<1> USE NilAssumption DEF StepFacts
<1>1. CASE i = f
  <2>1. \A s \in Requests : (s # r /\ req'[s] # Nil) => req'[s].job # f
    BY <1>1 DEF OneRequestOn
  <2>2. Quiet(f)'
    BY <1>1 DEF Quiet, Busy
  <2>3. InProgress(f)'
    BY <1>1, <2>1 DEF InProgress
  <2> QED BY <2>2, <2>3 DEF Agreement
<1>2. CASE i # f
  <2>1. /\ db'[f] = db[f] /\ IsRunning(f)' = IsRunning(f) /\ Schedulable(f)' = Schedulable(f)
        /\ \A n \in Nodes : Gone(n, f)' = Gone(n, f) /\ Kept(n, f)' = Kept(n, f)
    BY <1>2 DEF IsRunning, Schedulable, Gone, Kept
  <2>2. Busy(f)' <=> Busy(f)
    BY <1>2 DEF Busy
  <2>3. Quiet(f)'
    BY <2>1, <2>2 DEF Agreement, Quiet
  <2>4. ASSUME NEW s \in Requests, req'[s] # Nil, req'[s].job = f PROVE Progress(s)'
    <3>1. req'[s] = req[s] /\ req[s].node \in Nodes /\ s # r
      BY <1>2, <2>4 DEF TypeOK, Request
    <3>2. Progress(s)
      BY <2>4, <3>1 DEF Agreement, InProgress
    <3>3. <<req[s].node, f>> \in stray' <=> <<req[s].node, f>> \in stray
      BY <1>2, <3>1
    <3> QED BY <2>1, <2>4, <3>1, <3>2, <3>3 DEF Progress, Removing, Reading, Adding
  <2> QED BY <2>3, <2>4 DEF Agreement, InProgress
<1> QED BY <1>1, <1>2

(* The write of a pause or a delete leaves its job to be removed.            *)
LEMMA PauseAgreement ==
  ASSUME NEW f \in Jobs, StepFacts(f), NEW r \in Requests, NEW k \in Nodes, NEW i \in Jobs,
         PauseJob(r, k, i) \/ DeleteJob(r, k, i)
  PROVE  Agreement(f)'
<1> USE NilAssumption DEF StepFacts
<1> DEFINE new == [job |-> i, node |-> k, caller |-> "local", cron |-> Nil, pc |-> "remove"]
<1>1. /\ UNCHANGED <<fresh, node, batch, wheel, cb, stray>>
      /\ req[r] = Nil /\ node[k] = "up" /\ i \notin fresh
      /\ req' = [req EXCEPT ![r] = new]
  BY DEF PauseJob, DeleteJob, Accepts
<1>2. /\ req'[r] = new /\ new # Nil
      /\ \A s \in Requests : s # r => req'[s] = req[s]
  <2>1. new \in Request
    BY DEF Request
  <2> QED BY <1>1, <2>1 DEF TypeOK
<1>3. /\ \A j \in Jobs : j # i => db'[j] = db[j]
      /\ \A j \in fresh : db'[j] = Nil
      /\ ~IsRunning(i)'
  <2>1. CASE db' = [db EXCEPT ![i] = Nil]
    BY <1>1, <2>1 DEF TypeOK, Agreement, Served, IsRunning
  <2>2. CASE db[i] = Nil /\ db' = db
    BY <1>1, <2>2 DEF TypeOK, Agreement, Served, IsRunning
  <2>3. CASE db[i] # Nil /\ db' = [db EXCEPT ![i].status = "paused"]
    <3>1. db[i] \in Row
      BY <2>3 DEF TypeOK
    <3>2. db'[i].status = "paused"
      BY <2>3, <3>1 DEF TypeOK, Row
    <3> QED BY <1>1, <2>3, <3>2 DEF TypeOK, Agreement, Served, IsRunning
  <2> QED BY <2>1, <2>2, <2>3 DEF PauseJob, DeleteJob, SetStatus
<1>4. Served'
  BY <1>1, <1>2, <1>3 DEF Agreement, Served
<1>5. \A n \in Nodes, j \in Jobs : Holds(n, j)' <=> Holds(n, j)
  BY <1>1 DEF Holds, InFlight
<1>6. Progress(r)'
  BY <1>2, <1>3 DEF Progress, Removing, Schedulable
<1> QED BY <1>1, <1>2, <1>3, <1>4, <1>5, <1>6, OneJobAgreement

(* The write of a resume leaves its job to be read and scheduled.            *)
LEMMA ResumeAgreement ==
  ASSUME NEW f \in Jobs, StepFacts(f), NEW r \in Requests, NEW k \in Nodes, NEW i \in Jobs,
         NEW caller \in Callers, ResumeJob(r, k, i, caller)
  PROVE  Agreement(f)'
<1> USE NilAssumption DEF StepFacts
<1> DEFINE new == [job |-> i, node |-> k, caller |-> caller, cron |-> Nil, pc |-> "read"]
<1>1. /\ UNCHANGED <<fresh, node, batch, wheel, cb, stray>>
      /\ req[r] = Nil /\ node[k] = "up" /\ i \notin fresh
      /\ req' = [req EXCEPT ![r] = new]
  BY DEF ResumeJob, Accepts
<1>2. /\ req'[r] = new /\ new # Nil
      /\ \A s \in Requests : s # r => req'[s] = req[s]
  <2>1. new \in Request
    BY ChoiceAssumption DEF Request
  <2> QED BY <1>1, <2>1 DEF TypeOK
<1>3. /\ \A j \in Jobs : j # i => db'[j] = db[j]
      /\ \A j \in fresh : db'[j] = Nil
      /\ (db[i] = Nil /\ db'[i] = Nil) \/ IsRunning(i)'
  <2>1. CASE db[i] = Nil /\ db' = db
    BY <1>1, <2>1 DEF TypeOK, Agreement, Served, IsRunning
  <2>2. CASE db[i] # Nil /\ db' = [db EXCEPT ![i].status = "running"]
    <3>1. db[i] \in Row
      BY <2>2 DEF TypeOK
    <3>2. db'[i].status = "running" /\ db'[i] \in Row
      BY <2>2, <3>1 DEF TypeOK, Row
    <3>3. IsRunning(i)'
      BY <3>2 DEF IsRunning
    <3>4. \A j \in Jobs : j # i => db'[j] = db[j]
      BY <2>2 DEF TypeOK
    <3> QED BY <1>1, <3>3, <3>4 DEF TypeOK, Agreement, Served
  <2> QED BY <2>1, <2>2 DEF ResumeJob, SetStatus
<1>4. Served'
  BY <1>1, <1>2, <1>3 DEF Agreement, Served
<1>5. \A n \in Nodes, j \in Jobs : Holds(n, j)' <=> Holds(n, j)
  BY <1>1 DEF Holds, InFlight
<1>6. i = f => ~Busy(i)
  <2>1. ASSUME i = f, NEW s \in Requests, req[s] # Nil, req[s].job = i PROVE FALSE
    <3>1. s # r /\ req'[s] # Nil /\ req'[s].job = i
      BY <1>1, <1>2, <2>1
    <3> QED BY <1>2, <2>1, <3>1 DEF OneRequestOn
  <2> QED BY <2>1 DEF Busy
<1>7. i = f => \A n \in Nodes : Gone(n, i)'
  <2> SUFFICES ASSUME i = f PROVE \A n \in Nodes : Gone(n, i)'
    OBVIOUS
  <2>1. \A n \in Nodes : Gone(n, i)
    BY <1>6 DEF Agreement, Quiet
  <2>2. IsRunning(i) => IsRunning(i)'
    BY <1>3 DEF IsRunning
  <2> QED BY <1>1, <1>5, <2>1, <2>2 DEF Gone
<1>8. i = f => Progress(r)'
  BY <1>2, <1>3, <1>7 DEF Progress, Reading
<1> QED BY <1>1, <1>2, <1>3, <1>4, <1>5, <1>8, OneJobAgreement

(* The write of a create leaves a running job to be scheduled.               *)
LEMMA CreateAgreement ==
  ASSUME NEW f \in Jobs, StepFacts(f), NEW r \in Requests, NEW k \in Nodes, NEW i \in Jobs,
         NEW row \in Row, NEW caller \in Callers, CreateJob(r, k, i, row, caller)
  PROVE  Agreement(f)'
<1> USE NilAssumption DEF StepFacts
<1>1. /\ UNCHANGED <<node, batch, wheel, cb, stray>>
      /\ req[r] = Nil /\ node[k] = "up" /\ i \in fresh
      /\ fresh' = fresh \ {i}
      /\ db' = [db EXCEPT ![i] = row]
  BY DEF CreateJob, Accepts
<1>2. /\ \A j \in Jobs : j # i => db'[j] = db[j]
      /\ \A j \in fresh' : db'[j] = Nil
      /\ db'[i] = row
  BY <1>1 DEF TypeOK, Agreement, Served
<1>3. \A n \in Nodes, j \in Jobs : Holds(n, j)' <=> Holds(n, j)
  BY <1>1 DEF Holds, InFlight
<1>4. CASE row.status = "running"
  <2> DEFINE new == [job |-> i, node |-> k, caller |-> caller, cron |-> row.cron,
                     pc |-> "add"]
  <2>1. /\ req'[r] = new /\ new # Nil
        /\ \A s \in Requests : s # r => req'[s] = req[s]
    <3>1. new \in Request
      BY ChoiceAssumption DEF Request, Row
    <3> QED BY <1>4, <3>1 DEF TypeOK, CreateJob
  <2>2. Served'
    BY <1>1, <1>2, <2>1 DEF Agreement, Served
  <2>3. IsRunning(i)'
    BY <1>2, <1>4 DEF IsRunning
  <2>4. Progress(r)'
    BY <2>1, <2>3 DEF Progress, Adding, Gone
  <2> QED BY <1>1, <1>2, <1>3, <2>1, <2>2, <2>4, OneJobAgreement
<1>5. CASE row.status # "running"
  <2>1. UNCHANGED req
    BY <1>5 DEF CreateJob
  <2>2. Served'
    BY <1>1, <1>2, <2>1 DEF Agreement, Served
  <2>3. ~IsRunning(i) /\ ~IsRunning(i)' /\ ~Schedulable(i)'
    BY <1>1, <1>2, <1>5 DEF IsRunning, Schedulable, Agreement, Served
  <2>4. ASSUME NEW n \in Nodes, NEW j \in Jobs PROVE NoWorse(n, j)
    <3>1. CASE j = i
      BY <1>1, <1>3, <2>3, <3>1 DEF NoWorse
    <3>2. CASE j # i
      BY <1>1, <1>2, <1>3, <3>2 DEF NoWorse, IsRunning, Schedulable
    <3> QED BY <3>1, <3>2
  <2> QED BY <1>1, <1>2, <2>1, <2>2, <2>4, NoWorseAgreement DEF IsRunning
<1> QED BY <1>4, <1>5

(* A pause or a delete ends with its node not holding the job.               *)
LEMMA RemoveAgreement ==
  ASSUME NEW f \in Jobs, StepFacts(f), NEW r \in Requests, NEW i \in Jobs, NEW k \in Nodes,
         i = req[r].job, k = req[r].node, RemoveFromWheel(r)
  PROVE  Agreement(f)'
<1> USE NilAssumption DEF StepFacts
<1>1. /\ UNCHANGED <<db, fresh, node, batch, cb>>
      /\ req[r] # Nil /\ req[r].pc = "remove" /\ i \in Jobs /\ k \in Nodes
  BY DEF RemoveFromWheel, TypeOK, Request
<1>2. \A s \in Requests : req'[s] = IF s = r THEN Nil ELSE req[s]
  BY DEF RemoveFromWheel, TypeOK
<1>3. \A n \in Nodes, j \in Jobs :
        wheel'[n][j] = IF n = k /\ j = i THEN Nil ELSE wheel[n][j]
  BY <1>1 DEF RemoveFromWheel, TypeOK
<1>4. Served'
  BY <1>1, <1>2, <1>3 DEF Agreement, Served
<1>5. \A n \in Nodes, j \in Jobs : InFlight(n, j)' <=> InFlight(n, j)
  BY <1>1 DEF InFlight
<1>6. \A n \in Nodes, j \in Jobs : (n # k \/ j # i) => (Holds(n, j)' <=> Holds(n, j))
  BY <1>1, <1>3, <1>5 DEF Holds
<1>7. Holds(k, i)' <=> InFlight(k, i)
  <2>1. batch[k][i] = Nil
    BY <1>1 DEF Agreement, Served
  <2> QED BY <1>1, <1>3, <1>5, <2>1 DEF Holds
<1>8. \A j \in Jobs : IsRunning(j)' = IsRunning(j) /\ Schedulable(j)' = Schedulable(j)
  BY <1>1 DEF IsRunning, Schedulable
<1>9. \A n \in Nodes, j \in Jobs : j # i => (<<n, j>> \in stray' <=> <<n, j>> \in stray)
  BY <1>1 DEF RemoveFromWheel, StrayOnly
<1>10. ASSUME i = f, NEW n \in Nodes PROVE Gone(n, i)' /\ Kept(n, i)'
  <2>1. CASE IsRunning(i)
    <3>1. UNCHANGED stray
      BY <2>1 DEF RemoveFromWheel
    <3>2. Removing(r)
      BY <1>1, <1>10 DEF Agreement, InProgress, Progress
    <3>3. CASE ~Schedulable(i)
      BY <1>1, <1>8, <2>1, <3>3 DEF Gone, Kept
    <3>4. CASE Schedulable(i)
      <4>1. Kept(n, i) /\ <<k, i>> \in stray
        BY <3>2, <3>4 DEF Removing
      <4> QED BY <1>1, <1>6, <1>8, <2>1, <3>1, <4>1 DEF Gone, Kept
    <3> QED BY <3>3, <3>4
  <2>2. CASE ~IsRunning(i)
    <3>1. <<n, i>> \in stray' <=> IF n = k THEN InFlight(k, i) ELSE Holds(n, i)
      BY <1>1, <2>2 DEF RemoveFromWheel, StrayOnly
    <3>2. ~Schedulable(i)
      BY <2>2 DEF Schedulable
    <3> QED BY <1>1, <1>6, <1>7, <1>8, <3>1, <3>2 DEF Gone, Kept
  <2> QED BY <2>1, <2>2
<1> QED BY <1>1, <1>2, <1>4, <1>6, <1>9, <1>10, OneJobAgreement

(* A resume finds a running row, or none.                                    *)
LEMMA ReadAgreement ==
  ASSUME NEW f \in Jobs, StepFacts(f), NEW r \in Requests, NEW i \in Jobs, NEW k \in Nodes,
         i = req[r].job, k = req[r].node, ReadBack(r)
  PROVE  Agreement(f)'
<1> USE NilAssumption DEF StepFacts
<1> DEFINE new == [req[r] EXCEPT !.cron = db[i].cron, !.pc = "add"]
<1>1. /\ UNCHANGED <<db, fresh, node, batch, wheel, cb, stray>>
      /\ req[r] # Nil /\ req[r].pc = "read" /\ req[r] \in Request /\ i \in Jobs
  BY DEF ReadBack, TypeOK, Request
<1>2. \A s \in Requests :
        req'[s] = IF s # r THEN req[s] ELSE IF db[i] = Nil THEN Nil ELSE new
  BY DEF ReadBack, TypeOK
<1>3. \A n \in Nodes, j \in Jobs : Holds(n, j)' <=> Holds(n, j)
  BY <1>1 DEF Holds, InFlight
<1>4. \A j \in Jobs : IsRunning(j)' = IsRunning(j) /\ Schedulable(j)' = Schedulable(j)
  BY <1>1 DEF IsRunning, Schedulable
<1>5. i = f => Reading(r)
  BY <1>1 DEF Agreement, InProgress, Progress
<1>6. new.job = i /\ new.node = req[r].node /\ new.pc = "add"
  BY <1>1 DEF Request
<1>7. Served'
  <2>1. ASSUME NEW s \in Requests, req'[s] # Nil
        PROVE  node'[req'[s].node] = "up" /\ req'[s].job \notin fresh'
    <3>1. req[s] # Nil /\ req'[s].node = req[s].node /\ req'[s].job = req[s].job
      BY <1>1, <1>2, <1>6, <2>1
    <3> QED BY <1>1, <3>1 DEF Agreement, Served
  <2> QED BY <1>1, <2>1 DEF Agreement, Served
<1>8. i = f => \A n \in Nodes : Gone(n, i)'
  BY <1>1, <1>3, <1>4, <1>5 DEF Reading, Gone
<1>9. req'[r] = Nil => \A n \in Nodes : Kept(n, i)'
  <2>1. CASE db[i] = Nil
    BY <1>1, <2>1 DEF Kept, Schedulable, IsRunning
  <2>2. CASE db[i] # Nil
    <3>1. db[i] \in Row
      BY <1>1, <2>2 DEF TypeOK
    <3>2. new \in Request
      BY <1>1, <3>1 DEF Request, Row
    <3> QED BY <1>2, <2>2, <3>2
  <2> QED BY <2>1, <2>2
<1>10. i = f /\ req'[r] # Nil => Progress(r)'
  BY <1>1, <1>2, <1>4, <1>5, <1>6, <1>8 DEF Progress, Adding, Reading
<1>11. i = f /\ req'[r] = Nil => \A n \in Nodes : Gone(n, i)' /\ Kept(n, i)'
  BY <1>8, <1>9
<1>12. req'[r] # Nil => req'[r].job = i
  BY <1>2, <1>6
<1>13. \A s \in Requests : s # r => req'[s] = req[s]
  BY <1>2
<1>14. \A j \in Jobs : j # i =>
         /\ db'[j] = db[j]
         /\ \A n \in Nodes : /\ Holds(n, j)' <=> Holds(n, j)
                             /\ <<n, j>> \in stray' <=> <<n, j>> \in stray
  BY <1>1, <1>3
<1> HIDE DEF new, StepFacts
<1> QED BY <1>1, <1>7, <1>10, <1>11, <1>12, <1>13, <1>14, OneJobAgreement

(* A create or a resume ends with its node holding the job.                  *)
LEMMA AddAgreement ==
  ASSUME NEW f \in Jobs, StepFacts(f), NEW r \in Requests, NEW i \in Jobs, NEW k \in Nodes,
         i = req[r].job, k = req[r].node, AddToWheel(r)
  PROVE  Agreement(f)'
<1> USE NilAssumption DEF StepFacts
<1> DEFINE entry == [cron |-> req[r].cron, live |-> req[r].caller = "local"]
<1>1. /\ UNCHANGED <<db, fresh, node, batch, cb>>
      /\ req[r] # Nil /\ req[r].pc = "add" /\ i \in Jobs /\ k \in Nodes
  BY DEF AddToWheel, TypeOK, Request
<1>2. \A s \in Requests : req'[s] = IF s = r THEN Nil ELSE req[s]
  BY DEF AddToWheel, TypeOK
<1>3. Schedule(k, i, req[r].cron, req[r].caller = "local")
  BY DEF AddToWheel
<1>4. node[k] = "up" /\ batch[k][i] = Nil
  BY <1>1 DEF Agreement, Served
<1>5. /\ \A n \in Nodes, j \in Jobs : (n # k \/ j # i) => wheel'[n][j] = wheel[n][j]
      /\ \/ wheel'[k][i] = wheel[k][i]
         \/ wheel'[k][i] = entry /\ req[r].cron \in ValidCrons
      /\ req[r].cron \in ValidCrons => wheel'[k][i] # Nil
  <2>1. req[r].cron \in ValidCrons => entry \in Entry
    BY CronAssumption DEF Entry
  <2> QED BY <1>1, <1>3, <1>4, <2>1 DEF Schedule, TypeOK
<1>6. Served'
  <2>1. ASSUME NEW n \in Nodes, NEW j \in Jobs, wheel'[n][j] # Nil
        PROVE  node'[n] \in {"up", "stopping"} /\ wheel'[n][j].cron \in ValidCrons
    BY <1>1, <1>4, <1>5, <2>1 DEF Agreement, Served
  <2> QED BY <1>1, <1>2, <2>1 DEF Agreement, Served
<1>7. \A n \in Nodes, j \in Jobs : InFlight(n, j)' <=> InFlight(n, j)
  BY <1>1 DEF InFlight
<1>8. \A n \in Nodes, j \in Jobs : (n # k \/ j # i) => (Holds(n, j)' <=> Holds(n, j))
  BY <1>1, <1>5, <1>7 DEF Holds
<1>9. \A j \in Jobs : IsRunning(j)' = IsRunning(j) /\ Schedulable(j)' = Schedulable(j)
  BY <1>1 DEF IsRunning, Schedulable
<1>10. \A n \in Nodes, j \in Jobs : j # i => (<<n, j>> \in stray' <=> <<n, j>> \in stray)
  BY <1>1 DEF AddToWheel, StrayOnly
<1>11. i = f => Adding(r)
  BY <1>1 DEF Agreement, InProgress, Progress
<1>12. ASSUME i = f, NEW n \in Nodes PROVE Gone(n, i)' /\ Kept(n, i)'
  <2>1. CASE Schedulable(i)
    <3>1. IsRunning(i)'
      BY <1>1, <1>9, <2>1 DEF Schedulable
    <3>2. <<n, i>> \in stray' <=> IF n = k THEN req[r].cron \notin ValidCrons
                                  ELSE ~Holds(n, i)
      BY <1>1, <2>1 DEF AddToWheel, StrayOnly
    <3>3. n = k => (<<n, i>> \in stray' \/ Holds(n, i)')
      BY <1>5, <3>2 DEF Holds
    <3> QED BY <1>8, <1>1, <3>1, <3>2, <3>3 DEF Gone, Kept
  <2>2. CASE ~Schedulable(i)
    <3>1. UNCHANGED stray
      BY <2>2 DEF AddToWheel
    <3>2. ~Schedulable(i)'
      BY <1>1, <1>9, <2>2
    <3> QED BY <1>1, <1>8, <1>9, <1>11, <1>12, <3>1, <3>2 DEF Adding, Gone, Kept
  <2> QED BY <2>1, <2>2
<1> QED BY <1>1, <1>2, <1>6, <1>8, <1>10, <1>12, OneJobAgreement

(* Start has every running job before it.                                    *)
LEMMA BootAgreement ==
  ASSUME NEW f \in Jobs, StepFacts(f), NEW k \in Nodes, BootRead(k)
  PROVE  Agreement(f)'
<1> USE NilAssumption DEF StepFacts
<1>1. UNCHANGED <<db, fresh, wheel, req, cb>> /\ node[k] = "down"
  BY DEF BootRead
<1>2. /\ \A n \in Nodes : node'[n] = IF n = k THEN "loading" ELSE node[n]
      /\ \A n \in Nodes, j \in Jobs :
           batch'[n][j] = IF n # k THEN batch[n][j]
                          ELSE IF IsRunning(j) THEN db[j].cron ELSE Nil
      /\ \A n \in Nodes, j \in Jobs : <<n, j>> \in stray' <=> n # k /\ <<n, j>> \in stray
  BY DEF BootRead, TypeOK
<1>3. \A j \in Jobs : IsRunning(j)' = IsRunning(j) /\ Schedulable(j)' = Schedulable(j)
  BY <1>1 DEF IsRunning, Schedulable
<1>4. \A r \in Requests :
        req[r] # Nil => req[r].node \in Nodes /\ req[r].node # k /\ req[r].job \in Jobs
  <2>1. \A r \in Requests : req[r] # Nil => req[r].node \in Nodes /\ req[r].job \in Jobs
    BY DEF TypeOK, Request
  <2> QED BY <1>1, <2>1 DEF Agreement, Served
<1>5. \A c \in Callbacks : cb[c] # Nil => cb[c].node \in Nodes /\ cb[c].node # k
  <2>1. \A c \in Callbacks : cb[c] # Nil => cb[c].node \in Nodes
    BY DEF TypeOK, Callback
  <2> QED BY <1>1, <2>1 DEF Agreement, Served
<1>6. Served'
  BY <1>1, <1>2, <1>4, <1>5 DEF Agreement, Served
<1>7. ASSUME NEW n \in Nodes, NEW j \in Jobs
      PROVE  /\ Gone(n, j) => Gone(n, j)'
             /\ Kept(n, j) => Kept(n, j)'
  <2>1. InFlight(n, j)' <=> InFlight(n, j)
    BY <1>1 DEF InFlight
  <2>2. CASE n # k
    BY <1>1, <1>2, <1>3, <2>1, <2>2 DEF Gone, Kept, Holds
  <2>3. CASE n = k
    <3>1. wheel'[n][j] = Nil /\ ~InFlight(n, j)'
      BY <1>1, <1>5, <2>1, <2>3 DEF InFlight, Agreement, Served
    <3>2. IsRunning(j) => db[j] \in Row
      BY DEF IsRunning, TypeOK
    <3>3. batch'[n][j] # Nil <=> IsRunning(j)
      BY <1>2, <2>3, <3>2 DEF Row
    <3> QED BY <1>3, <3>1, <3>3 DEF Gone, Kept, Holds, Schedulable
  <2> QED BY <2>2, <2>3
<1>8. Quiet(f)'
  BY <1>1, <1>7 DEF Agreement, Quiet, Busy
<1>9. InProgress(f)'
  <2> SUFFICES ASSUME NEW r \in Requests, req[r] # Nil, req[r].job = f PROVE Progress(r)'
    BY <1>1 DEF InProgress
  <2>1. Progress(r)
    BY DEF Agreement, InProgress
  <2> QED BY <1>1, <1>2, <1>3, <1>4, <1>7, <2>1
          DEF Progress, Removing, Reading, Adding
<1> QED BY <1>6, <1>8, <1>9 DEF Agreement

(* So every step keeps the agreement on f.                                   *)
LEMMA AgreementStep ==
  ASSUME NEW f \in Jobs, StepFacts(f), [Next]_vars
  PROVE  Agreement(f)'
<1>1. ASSUME NEW r \in Requests, NEW n \in Nodes, NEW j \in Jobs,
             \/ \E row \in Row, caller \in Callers : CreateJob(r, n, j, row, caller)
             \/ PauseJob(r, n, j)
             \/ \E caller \in Callers : ResumeJob(r, n, j, caller)
             \/ DeleteJob(r, n, j)
      PROVE  Agreement(f)'
  BY <1>1, CreateAgreement, PauseAgreement, ResumeAgreement
<1>2. ASSUME NEW r \in Requests, RequestStep(r) PROVE Agreement(f)'
  <2>1. PICK i \in Jobs, k \in Nodes : i = req[r].job /\ k = req[r].node
    BY <1>2 DEF RequestStep, RemoveFromWheel, ReadBack, AddToWheel, StepFacts,
                TypeOK, Request
  <2> QED BY <1>2, <2>1, RemoveAgreement, ReadAgreement, AddAgreement DEF RequestStep
<1>3. CASE RowStep
  BY <1>3, RowAgreement
<1>4. CASE WheelStep
  BY <1>4, WheelAgreement
<1>5. ASSUME NEW n \in Nodes, BootRead(n) PROVE Agreement(f)'
  BY <1>5, BootAgreement
<1>6. (\E j \in Jobs : KeyExpires(j)) \/ UNCHANGED vars => RowStep
  BY DEF KeyExpires, vars, RowStep
<1>7. ASSUME NEW c \in Callbacks, CallbackStep(c) \/ LockFails(c) \/ TriggerPanics(c)
      PROVE  WheelStep
  BY <1>7 DEF CallbackStep, WheelStep
<1>8. ASSUME NEW n \in Nodes, NEW j \in Jobs, NEW c \in Callbacks, Fire(n, j, c)
      PROVE  WheelStep
  BY <1>8 DEF WheelStep
<1>9. ASSUME NEW n \in Nodes, BootFill(n) \/ Stop(n) \/ Exit(n) PROVE WheelStep
  BY <1>9 DEF WheelStep
<1>10. ASSUME \/ \E n \in Nodes, j \in Jobs, row \in Row :
                   UpdateJob(n, j, row) \/ CreateUnanswered(n, j, row)
              \/ \E n \in Nodes, js \in SUBSET Jobs : DeleteExecutor(n, js)
              \/ \E r \in Requests : DbFails(r)
       PROVE  RowStep
  BY <1>10 DEF RowStep
<1> QED BY <1>1, <1>2, <1>3, <1>4, <1>5, <1>6, <1>7, <1>8, <1>9, <1>10 DEF Next

LEMMA AgreementStart ==
  ASSUME NEW f \in Jobs, Init
  PROVE  Agreement(f)
<1> USE NilAssumption
<1>1. Served /\ InProgress(f)
  BY DEF Init, Served, InProgress
<1>2. ASSUME NEW n \in Nodes PROVE ~IsRunning(f) /\ ~Schedulable(f) /\ ~Holds(n, f)
  BY DEF Init, IsRunning, Schedulable, Holds, InFlight
<1> QED BY <1>1, <1>2 DEF Agreement, Quiet, Gone, Kept

LEMMA AgreementSchedules ==
  ASSUME NEW j \in Jobs, Agreement(j)
  PROVE  IsScheduled(j) /\ IsUnscheduled(j)
<1>1. ASSUME NEW n \in Nodes, ~Busy(j), <<n, j>> \notin stray, node[n] = "up", Schedulable(j)
      PROVE  wheel[n][j] # Nil \/ InFlight(n, j)
  <2>1. Kept(n, j)
    BY <1>1 DEF Agreement, Quiet
  <2>2. batch[n][j] = Nil
    BY <1>1 DEF Agreement, Served
  <2> QED BY <1>1, <2>1, <2>2 DEF Kept, Holds
<1>2. ASSUME NEW n \in Nodes, ~Busy(j), <<n, j>> \notin stray, ~IsRunning(j)
      PROVE  ~Holds(n, j)
  <2>1. Gone(n, j)
    BY <1>2 DEF Agreement, Quiet
  <2> QED BY <1>2, <2>1 DEF Gone
<1> QED BY <1>1, <1>2 DEF IsScheduled, IsUnscheduled

(* The table and the nodes agree on a job while at most one request at a    *)
(* time works on that job: as long as it is running, it is in the wheel of   *)
(* every node that is up, or a callback of it is about to put it there; once *)
(* it is paused or deleted, it is in no wheel and on no way back into one.   *)
(* Only where it is stray this may fail.  It holds for any number of nodes,  *)
(* other jobs, requests and callbacks, whatever requests overlap on other    *)
(* jobs, and under every fault.                                              *)
THEOREM JobByJob ==
  ASSUME NEW j \in Jobs
  PROVE  Spec /\ []OneRequestOn(j) => [](IsScheduled(j) /\ IsUnscheduled(j))
<1>1. Init => Agreement(j)
  BY AgreementStart
<1>2. TypeOK /\ TypeOK' /\ Agreement(j) /\ OneRequestOn(j) /\ OneRequestOn(j)' /\ [Next]_vars
        => Agreement(j)'
  BY AgreementStep DEF StepFacts
<1>3. Agreement(j) => IsScheduled(j) /\ IsUnscheduled(j)
  BY AgreementSchedules
<1> QED BY <1>1, <1>2, <1>3, Typing, PTL DEF Spec

\* All jobs at once.
OneRequestPerJob == \A j \in Jobs : OneRequestOn(j)
AllAgree == \A j \in Jobs : Agreement(j)

LEMMA AllAgreed == Spec /\ []OneRequestPerJob => []AllAgree
<1>1. Init => AllAgree
  BY AgreementStart DEF AllAgree
<1>2. TypeOK /\ TypeOK' /\ AllAgree /\ OneRequestPerJob /\ OneRequestPerJob' /\ [Next]_vars
        => AllAgree'
  <2> SUFFICES ASSUME TypeOK, TypeOK', AllAgree, OneRequestPerJob, OneRequestPerJob',
                      [Next]_vars, NEW f \in Jobs
               PROVE  Agreement(f)'
    BY DEF AllAgree
  <2>1. StepFacts(f)
    BY DEF StepFacts, AllAgree, OneRequestPerJob
  <2> QED BY <2>1, AgreementStep
<1> QED BY <1>1, <1>2, Typing, PTL DEF Spec

(* No running job is lost.                                                   *)
THEOREM Scheduled == Spec /\ []OneRequestPerJob => []RunningJobIsScheduled
<1>1. AllAgree => RunningJobIsScheduled
  BY AgreementSchedules DEF AllAgree, RunningJobIsScheduled
<1> QED BY <1>1, AllAgreed, PTL

(* No stopped job is left.                                                   *)
THEOREM Unscheduled == Spec /\ []OneRequestPerJob => []StoppedJobIsUnscheduled
<1>1. AllAgree => StoppedJobIsUnscheduled
  BY AgreementSchedules DEF AllAgree, StoppedJobIsUnscheduled
<1> QED BY <1>1, AllAgreed, PTL
=============================================================================
