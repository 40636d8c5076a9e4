--------------------------- MODULE TriggerLogProofs ---------------------------
(***************************************************************************)
(* The safety invariants of TriggerLog, for any number of triggers and any *)
(* set of faults.                                                          *)
(***************************************************************************)
EXTENDS TriggerLog, TLAPS

(* What the call a trigger makes next says about its row and its outcome. *)
RowFollowsCall ==
  \A t \in Triggers :
    /\ pc[t] \in {"idle", "create"} => row[t] = Nil
    /\ pc[t] \in {"read", "start"} => row[t] \in {"pending", Nil}
    /\ pc[t] \in {"run", "end"} => row[t] \in {"running", Nil}
    /\ (Referenced(t) /\ pc[t] \in {"read", "start", "run", "end"}) => row[t] # Nil

OutcomeFollowsCall ==
  \A t \in Triggers :
    /\ pc[t] = "end" <=> (outcome[t] # "none" /\ pc[t] # "done")
    /\ answer[t] = "ok" => pc[t] = "done"

\* No row outlives what it names.
NoOrphanRow == \A t \in Triggers : row[t] # Nil => Referenced(t)

IndInv ==
  /\ TypeOK
  /\ RowFollowsCall
  /\ OutcomeFollowsCall
  /\ NoOrphanRow
  /\ ExecutionIsLogged
  /\ LogTellsOutcome
  /\ SuccessIsLogged

LEMMA InitIndInv == Init => IndInv
  BY NilAssumption
     DEF Init, IndInv, TypeOK, RowFollowsCall, OutcomeFollowsCall, NoOrphanRow,
         ExecutionIsLogged, LogTellsOutcome, SuccessIsLogged, Status, Final, Referenced

(* A step of trigger t leaves the other triggers alone and keeps the         *)
(* invariant: one case per action.                                           *)
LEMMA StepIndInv == IndInv /\ [Next]_vars => IndInv'
<1> SUFFICES ASSUME IndInv, [Next]_vars PROVE IndInv'
  OBVIOUS
<1> USE NilAssumption
<1> USE DEF IndInv, TypeOK, RowFollowsCall, OutcomeFollowsCall, NoOrphanRow,
            ExecutionIsLogged, LogTellsOutcome, SuccessIsLogged,
            Status, Final, GoTo, Return, Write, tables, call, Referenced
<1>1. ASSUME NEW t \in Triggers, NEW by \in {"handler", "callback"}, Begin(t, by)
      PROVE  IndInv'
  BY <1>1 DEF Begin
<1>2. ASSUME NEW t \in Triggers, Create(t) PROVE IndInv'
  <2>1. CASE Referenced(t)
    BY <1>2, <2>1 DEF Create
  <2>2. CASE ~Referenced(t)
    BY <1>2, <2>2 DEF Create
  <2> QED BY <2>1, <2>2
<1>3. ASSUME NEW t \in Triggers, MarkRunningRead(t) PROVE IndInv'
  <2>1. CASE row[t] # Nil
    BY <1>3, <2>1 DEF MarkRunningRead
  <2>2. CASE row[t] = Nil
    BY <1>3, <2>2 DEF MarkRunningRead
  <2> QED BY <2>1, <2>2
<1>4. ASSUME NEW t \in Triggers, MarkRunningWrite(t) PROVE IndInv'
  <2>1. CASE row[t] # Nil
    BY <1>4, <2>1 DEF MarkRunningWrite
  <2>2. CASE row[t] = Nil
    BY <1>4, <2>2 DEF MarkRunningWrite
  <2> QED BY <2>1, <2>2
<1>5. ASSUME NEW t \in Triggers, Run(t) PROVE IndInv'
  BY <1>5 DEF Run
<1>6. ASSUME NEW t \in Triggers, MarkSuccess(t) PROVE IndInv'
  <2>1. CASE row[t] # Nil
    BY <1>6, <2>1 DEF MarkSuccess
  <2>2. CASE row[t] = Nil
    BY <1>6, <2>2 DEF MarkSuccess
  <2> QED BY <2>1, <2>2
<1>7. ASSUME NEW t \in Triggers, MarkFailed(t) PROVE IndInv'
  <2>1. CASE outcome[t] = "error" /\ row[t] # Nil
    BY <1>7, <2>1 DEF MarkFailed
  <2>2. CASE outcome[t] # "error" \/ row[t] = Nil
    BY <1>7, <2>2 DEF MarkFailed
  <2> QED BY <2>1, <2>2
<1>8. ASSUME NEW t \in Triggers, DbFails(t) PROVE IndInv'
  <2>1. CASE UNCHANGED row
    BY <1>8, <2>1 DEF DbFails
  <2>2. CASE pc[t] = "create" /\ Referenced(t) /\ row' = [row EXCEPT ![t] = "pending"]
    BY <1>8, <2>2 DEF DbFails
  <2>3. CASE pc[t] = "start" /\ Write(t, "running")
    BY <1>8, <2>3 DEF DbFails
  <2>4. CASE pc[t] = "end" /\ outcome[t] = "ok" /\ Write(t, "success")
    BY <1>8, <2>4 DEF DbFails
  <2>5. CASE pc[t] = "end" /\ outcome[t] = "error" /\ Write(t, "failed")
    BY <1>8, <2>5 DEF DbFails
  <2> QED BY <1>8, <2>1, <2>2, <2>3, <2>4, <2>5 DEF DbFails
<1>9. ASSUME NEW t \in Triggers, Die(t) PROVE IndInv'
  BY <1>9 DEF Die
<1>10. CASE DeleteJob
  BY <1>10 DEF DeleteJob
<1>11. ASSUME NEW e \in Executors, MoveJob(e) PROVE IndInv'
  BY <1>11 DEF MoveJob
<1>12. ASSUME NEW e \in Executors, DeleteExecutor(e) PROVE IndInv'
  BY <1>12 DEF DeleteExecutor
<1>13. CASE UNCHANGED vars
  BY <1>13 DEF vars
<1> QED
  BY <1>1, <1>2, <1>3, <1>4, <1>5, <1>6, <1>7, <1>8, <1>9, <1>10, <1>11, <1>12, <1>13
     DEF Next, TriggerStep

LEMMA IndInvHolds == Spec => []IndInv
  BY InitIndInv, StepIndInv, PTL DEF Spec

(* The variables keep their types. *)
THEOREM Typing == Spec => []TypeOK
  BY IndInvHolds, PTL DEF IndInv

(* Every execution has a row in the log as long as the job and the executor  *)
(* it names exist: nothing that fails between Create and the end of          *)
(* TriggerJob loses it.                                                      *)
THEOREM CompleteLog == Spec => []ExecutionIsLogged
  BY IndInvHolds, PTL DEF IndInv

(* A row that says success or failed tells how its execution ended. *)
THEOREM TruthfulLog == Spec => []LogTellsOutcome
  BY IndInvHolds, PTL DEF IndInv

(* A nil error of TriggerJob means a success in the log, or a row deleted    *)
(* with its job or its executor.                                             *)
THEOREM AnsweredSuccess == Spec => []SuccessIsLogged
  BY IndInvHolds, PTL DEF IndInv

(* The status of a row only ever moves forward, by one state at a time, and  *)
(* the row goes only with its job or its executor.                           *)
THEOREM ForwardStatus == Spec => StatusMovesForward
<1> DEFINE Forward ==
      \A t \in Triggers :
        /\ row'[t] # Nil => (row'[t] = row[t] \/ Rank(row'[t]) = Rank(row[t]) + 1)
        /\ (row[t] # Nil /\ row'[t] = Nil) => ~Referenced(t)'
<1>1. IndInv /\ [Next]_vars => [Forward]_vars
  <2> SUFFICES ASSUME IndInv, Next PROVE Forward
    OBVIOUS
  <2> USE NilAssumption
  <2> USE DEF IndInv, TypeOK, RowFollowsCall, NoOrphanRow, Status, Final,
              GoTo, Return, Write, tables, call, Referenced, Rank
  <2>1. ASSUME NEW t \in Triggers, Create(t) PROVE Forward
    BY <2>1 DEF Create
  <2>2. ASSUME NEW t \in Triggers, MarkRunningWrite(t) PROVE Forward
    BY <2>2 DEF MarkRunningWrite
  <2>3. ASSUME NEW t \in Triggers, MarkSuccess(t) PROVE Forward
    BY <2>3 DEF MarkSuccess
  <2>4. ASSUME NEW t \in Triggers, MarkFailed(t) PROVE Forward
    BY <2>4 DEF MarkFailed
  <2>5. ASSUME NEW t \in Triggers, DbFails(t) PROVE Forward
    BY <2>5 DEF DbFails
  <2>6. CASE DeleteJob
    BY <2>6 DEF DeleteJob
  <2>7. ASSUME NEW e \in Executors, DeleteExecutor(e) PROVE Forward
    BY <2>7 DEF DeleteExecutor
  <2>8. CASE UNCHANGED row
    BY <2>8
  <2> QED
    BY <2>1, <2>2, <2>3, <2>4, <2>5, <2>6, <2>7, <2>8
       DEF Next, TriggerStep, Begin, MarkRunningRead, Run, Die, MoveJob
<1> QED
  BY <1>1, IndInvHolds, PTL DEF Spec, StatusMovesForward

-----------------------------------------------------------------------------
(* An execution under way can always take its next step.  tlapm cannot prove *)
(* an ENABLED; TLC finds this predicate invariant.                           *)
ReadyStepEnabled(t) == pc[t] \in {"run", "end"} => ENABLED <<TriggerStep(t)>>_vars

ReadyStepsEnabled == \A t \in Triggers : ReadyStepEnabled(t)

\* One execution: run returns, and the call after it writes the outcome.
LEMMA OneGetsOutcome ==
  ASSUME NEW t \in Triggers
  PROVE  Spec /\ StepFairness(t) /\ []ReadyStepEnabled(t) => GetsOutcome(t)
<1> DEFINE Running == pc[t] = "run"
           Ending == pc[t] = "end"
           Settled == row[t] \in Final \/ ~Referenced(t) \/ t \in failed \/ outcome[t] = "silent"
<1> USE NilAssumption
<1> USE DEF IndInv, TypeOK, RowFollowsCall, OutcomeFollowsCall, Status, Final,
            GoTo, Return, Write, tables, call, Referenced
<1>1. IndInv /\ Running /\ [Next]_vars => Running' \/ Ending' \/ Settled'
  <2> SUFFICES ASSUME IndInv, Running, [Next]_vars, pc'[t] # "run"
               PROVE  Ending' \/ Settled'
    OBVIOUS
  <2>1. ASSUME NEW u \in Triggers, TriggerStep(u) PROVE Ending'
    BY <2>1 DEF TriggerStep, Create, MarkRunningRead, MarkRunningWrite, Run, MarkSuccess, MarkFailed
  <2>2. ASSUME NEW u \in Triggers,
               DbFails(u) \/ Die(u) \/ \E by \in {"handler", "callback"} : Begin(u, by)
        PROVE  Settled'
    BY <2>2 DEF DbFails, Die, Begin
  <2>3. ASSUME NEW e \in Executors PROVE ~MoveJob(e) /\ ~DeleteExecutor(e)
    BY DEF MoveJob, DeleteExecutor
  <2>4. ~DeleteJob /\ ~UNCHANGED vars
    BY DEF DeleteJob, vars
  <2> QED BY <2>1, <2>2, <2>3, <2>4 DEF Next
<1>2. IndInv /\ Running /\ <<Next /\ TriggerStep(t)>>_vars => Ending' \/ Settled'
  BY DEF TriggerStep, Create, MarkRunningRead, MarkRunningWrite, Run, MarkSuccess, MarkFailed
<1>3. IndInv /\ Ending /\ [Next]_vars => Ending' \/ Settled'
  <2> SUFFICES ASSUME IndInv, Ending, [Next]_vars, pc'[t] # "end"
               PROVE  Settled'
    OBVIOUS
  <2>1. ASSUME NEW u \in Triggers, TriggerStep(u) PROVE Settled'
    <3>1. u = t /\ (MarkSuccess(t) \/ MarkFailed(t))
      BY <2>1 DEF TriggerStep, Create, MarkRunningRead, MarkRunningWrite, Run, MarkSuccess, MarkFailed
    <3> QED BY <3>1 DEF MarkSuccess, MarkFailed
  <2>2. ASSUME NEW u \in Triggers,
               DbFails(u) \/ Die(u) \/ \E by \in {"handler", "callback"} : Begin(u, by)
        PROVE  Settled'
    BY <2>2 DEF DbFails, Die, Begin
  <2>3. ASSUME NEW e \in Executors PROVE ~MoveJob(e) /\ ~DeleteExecutor(e)
    BY DEF MoveJob, DeleteExecutor
  <2>4. ~DeleteJob /\ ~UNCHANGED vars
    BY DEF DeleteJob, vars
  <2> QED BY <2>1, <2>2, <2>3, <2>4 DEF Next
<1>4. IndInv /\ Ending /\ <<Next /\ TriggerStep(t)>>_vars => Settled'
  <2> SUFFICES ASSUME IndInv, Ending, TriggerStep(t) PROVE Settled'
    OBVIOUS
  <2>1. MarkSuccess(t) \/ MarkFailed(t)
    BY DEF TriggerStep, Create, MarkRunningRead, MarkRunningWrite, Run
  <2> QED BY <2>1 DEF MarkSuccess, MarkFailed
<1>5. (Running \/ Ending) /\ ReadyStepEnabled(t) => ENABLED <<TriggerStep(t)>>_vars
  BY DEF ReadyStepEnabled
<1> QED
  BY <1>1, <1>2, <1>3, <1>4, <1>5, IndInvHolds, PTL DEF Spec, StepFairness, GetsOutcome

(* Every execution whose row is not deleted, that meets no fault and whose   *)
(* error has a text is logged with its outcome in the end.                   *)
THEOREM OutcomeIsLogged == FairSpec /\ []ReadyStepsEnabled => ExecutionGetsOutcome
<1>1. ASSUME NEW t \in Triggers PROVE FairSpec /\ []ReadyStepsEnabled => GetsOutcome(t)
  <2>1. Fairness => StepFairness(t)
    BY DEF Fairness
  <2>2. ReadyStepsEnabled => ReadyStepEnabled(t)
    BY DEF ReadyStepsEnabled
  <2> QED BY <2>1, <2>2, OneGetsOutcome, PTL DEF FairSpec
<1> QED BY <1>1 DEF ExecutionGetsOutcome
===============================================================================
