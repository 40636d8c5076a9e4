----------------------- MODULE ServiceLifecycleProofs -----------------------
(* Theorems about ServiceLifecycle for any callers, jobs and calls.  The     *)
(* service moves its wheel by the wheel's own operations only, so all that   *)
(* TimeWheelProofs has proved of TimeWheel holds of it.                      *)
EXTENDS ServiceLifecycle, TLAPS

WheelFacts == INSTANCE TimeWheelProofs WITH Periods <- {}

(* A step of the service is a step of its wheel, or leaves it alone.         *)
LEMMA WheelSteps == [Next]_vars => [Wheel!Next]_(Wheel!vars)
<1> SUFFICES ASSUME [Next]_vars PROVE Wheel!Next \/ UNCHANGED wheelVars
  BY DEF wheelVars, Wheel!vars, Wheel!wheelVars, Wheel!lifeVars
<1>1. ASSUME NEW j \in Jobs, Accepted(j) PROVE Wheel!Next
  BY <1>1 DEF Accepted, Wheel!Next
<1>2. ASSUME NEW c \in Callers,
             StartCall(c) \/ StopCall(c) \/ ContextEnds(c) \/ ListJobs(c) \/ StartReturns(c)
      PROVE  UNCHANGED wheelVars
  BY <1>2 DEF StartCall, StopCall, ContextEnds, ListJobs, StartReturns
<1>3. ASSUME NEW c \in Callers, WheelStart(c) \/ WheelStop(c) \/ StopReturns(c)
      PROVE  Wheel!Next \/ UNCHANGED wheelVars
  BY <1>3 DEF WheelStart, WheelStop, StopReturns, Wheel!Next
<1>4. ASSUME NEW c \in Callers, NEW j \in Jobs, LoadJob(c, j)
      PROVE  Wheel!Next \/ UNCHANGED wheelVars
  BY <1>1, <1>4 DEF LoadJob
<1>5. ASSUME NEW j \in Jobs, Rearm(j) \/ CallbackEnds(j) \/ CallbackPanics(j) PROVE Wheel!Next
  BY <1>1, <1>5 DEF Rearm, CallbackEnds, CallbackPanics, Wheel!Next
<1>6. CASE Loop
  BY <1>6 DEF Loop, Wheel!Next
<1>7. CASE UNCHANGED vars
  BY <1>7 DEF vars
<1> QED BY <1>2, <1>3, <1>4, <1>5, <1>6, <1>7 DEF Next, CallStep

(* The service uses the wheel as TimeWheel specifies it.                     *)
THEOREM Composition == Spec => Wheel!Spec
<1>1. Init => Wheel!Init
  BY DEF Init
<1> QED BY <1>1, WheelSteps, PTL DEF Spec, Wheel!Spec

LEMMA SameWheel == Wheel!Spec => WheelFacts!Spec
<1>1. Wheel!Init => WheelFacts!Init
  BY DEF Wheel!Init, WheelFacts!Init, Wheel!Pos, WheelFacts!Pos
<1>2. [Wheel!Next]_(Wheel!vars) => [WheelFacts!Next]_(WheelFacts!vars)
  <2> USE DEF Wheel!vars, WheelFacts!vars, Wheel!wheelVars, WheelFacts!wheelVars,
              Wheel!lifeVars, WheelFacts!lifeVars
  <2>1. Wheel!Start => WheelFacts!Start
    BY DEF Wheel!Start, WheelFacts!Start
  <2>2. Wheel!StopBegin => WheelFacts!StopBegin
    BY DEF Wheel!StopBegin, WheelFacts!StopBegin
  <2>3. Wheel!StopReturn => WheelFacts!StopReturn
    BY DEF Wheel!StopReturn, WheelFacts!StopReturn
  <2>4. Wheel!LoopExit => WheelFacts!LoopExit
    BY DEF Wheel!LoopExit, WheelFacts!LoopExit
  <2>5. Wheel!Tick => WheelFacts!Tick
    BY DEF Wheel!Tick, WheelFacts!Tick, Wheel!Pos, WheelFacts!Pos, Wheel!Stored,
           WheelFacts!Stored, Wheel!Cancelled, WheelFacts!Cancelled, Wheel!Expired,
           WheelFacts!Expired, Wheel!Renewed, WheelFacts!Renewed, Wheel!RenewTicks,
           WheelFacts!RenewTicks, Wheel!DurationToTicks, WheelFacts!DurationToTicks,
           Wheel!SlotAfter, WheelFacts!SlotAfter, Wheel!RoundsAfter, WheelFacts!RoundsAfter,
           Wheel!MayBeRevisited, WheelFacts!MayBeRevisited, Wheel!SlotEntryAfterTick,
           WheelFacts!SlotEntryAfterTick, Wheel!IndexAfterTick, WheelFacts!IndexAfterTick
  <2>6. ASSUME NEW j \in Jobs, NEW d \in Delays, Wheel!AddJob(j, d)
        PROVE  WheelFacts!AddJob(j, d)
    BY <2>6 DEF Wheel!AddJob, WheelFacts!AddJob, Wheel!AddTask, WheelFacts!AddTask,
           Wheel!DurationToTicks, WheelFacts!DurationToTicks,
           Wheel!SlotAfter, WheelFacts!SlotAfter, Wheel!RoundsAfter, WheelFacts!RoundsAfter
  <2>7. ASSUME NEW j \in Jobs, Wheel!RemoveJob(j) PROVE WheelFacts!RemoveJob(j)
    BY <2>7 DEF Wheel!RemoveJob, WheelFacts!RemoveJob
  <2>8. ASSUME NEW j \in Jobs, Wheel!RunCallback(j) PROVE WheelFacts!RunCallback(j)
    BY <2>8 DEF Wheel!RunCallback, WheelFacts!RunCallback
  <2> QED BY <2>1, <2>2, <2>3, <2>4, <2>5, <2>6, <2>7, <2>8 DEF Wheel!Next, WheelFacts!Next
<1> QED BY <1>1, <1>2, PTL DEF Wheel!Spec, WheelFacts!Spec

\* What is known of the wheel; the last conjunct is IndexAgrees where a tick
\* needs it.
WheelInv ==
  /\ Wheel!TypeOK
  /\ WheelFacts!LifecycleInv
  /\ \A j \in Jobs, p \in Wheel!Pos : slots[p][j] # Nil => ~slots[p][j].cancelled

LEMMA WheelInvHolds == Spec => []WheelInv
<1> USE WheelAssumption, NilAssumption
<1>1. {} \subseteq Int
  OBVIOUS
<1>2. Nil \notin WheelFacts!Task
  BY DEF Wheel!Task, WheelFacts!Task
<1>3. WheelFacts!Spec => []WheelFacts!TypeOK
  BY <1>1, <1>2, WheelFacts!Typing
<1>4. WheelFacts!Spec => []WheelFacts!LifecycleInv
  BY <1>1, <1>2, WheelFacts!LifecycleInvHolds
<1>5. WheelFacts!Spec => []WheelFacts!IndexAgrees
  BY <1>1, <1>2, WheelFacts!IndexAgreement
<1>6. WheelFacts!TypeOK /\ WheelFacts!LifecycleInv /\ WheelFacts!IndexAgrees => WheelInv
  BY DEF WheelInv, WheelFacts!TypeOK, Wheel!TypeOK, WheelFacts!Pos, Wheel!Pos,
         WheelFacts!Task, Wheel!Task, WheelFacts!IndexAgrees
<1> QED BY <1>3, <1>4, <1>5, <1>6, Composition, SameWheel, PTL

-----------------------------------------------------------------------------
Call == [pc : {"idle", "wheelStart", "list", "load", "wheelStop", "wait"},
         listed : SUBSET Jobs, todo : SUBSET Jobs, failed : BOOLEAN, live : BOOLEAN]

\* The types of what the service adds to the wheel.
ServiceType ==
  /\ started \in BOOLEAN /\ orderly \in BOOLEAN
  /\ call \in [Callers -> Call]
  /\ rearmed \in [Jobs -> Nat]
  /\ starts \in Nat
  /\ promised \in SUBSET Jobs /\ panicked \in SUBSET Jobs

LEMMA ServiceTyping == Spec => []ServiceType
<1>1. Idle \in Call
  BY DEF Idle, Call
<1>2. Init => ServiceType
  <2> SUFFICES ASSUME Init PROVE ServiceType
    OBVIOUS
  <2>1. call \in [Callers -> Call] /\ rearmed \in [Jobs -> Nat]
    BY <1>1 DEF Init
  <2>2. starts \in Nat /\ promised \in SUBSET Jobs /\ panicked \in SUBSET Jobs
    BY DEF Init
  <2>3. started \in BOOLEAN /\ orderly \in BOOLEAN
    BY Zenon DEF Init
  <2> QED BY <2>1, <2>2, <2>3 DEF ServiceType
<1>3. ServiceType /\ [Next]_vars => ServiceType'
  <2> SUFFICES ASSUME ServiceType, [Next]_vars PROVE ServiceType'
    OBVIOUS
  <2> USE DEF ServiceType
  <2>1. ASSUME NEW c \in Callers, NEW pc \in {"wheelStart", "wheelStop"}, Begins(c, pc)
        PROVE  started' \in BOOLEAN /\ orderly' \in BOOLEAN /\ call' \in [Callers -> Call]
    BY <2>1 DEF Begins, Call
  <2>2. ASSUME NEW c \in Callers, StartCall(c) \/ StopCall(c) PROVE ServiceType'
    BY <2>1, <2>2 DEF StartCall, StopCall
  <2>3. ASSUME NEW c \in Callers, Answers(c) PROVE call' \in [Callers -> Call]
    BY <1>1, <2>3 DEF Answers
  <2>4. ASSUME NEW c \in Callers, WheelStart(c) \/ WheelStop(c) \/ StopReturns(c)
        PROVE  ServiceType'
    BY <2>3, <2>4 DEF WheelStart, WheelStop, StopReturns, Call
  <2>5. ASSUME NEW c \in Callers, ListJobs(c) PROVE ServiceType'
    <3>1. UNCHANGED <<started, rearmed, starts, orderly, promised, panicked>>
      BY <2>5 DEF ListJobs
    <3>2. ASSUME NEW js \in SUBSET Jobs,
                 call' = [call EXCEPT ![c].pc = "load", ![c].listed = js, ![c].todo = js]
          PROVE  call' \in [Callers -> Call]
      <4>1. call[c] \in Call
        OBVIOUS
      <4>2. [call[c] EXCEPT !.pc = "load", !.listed = js, !.todo = js] \in Call
        BY <4>1 DEF Call
      <4> QED BY <3>2, <4>1, <4>2 DEF Call
    <3> QED BY <2>3, <2>5, <3>1, <3>2 DEF ListJobs
  <2>6. ASSUME NEW c \in Callers, NEW j \in Jobs, LoadJob(c, j) PROVE ServiceType'
    <3>1. call[c] \in Call /\ UNCHANGED <<started, rearmed, starts, orderly, promised, panicked>>
      BY <2>6 DEF LoadJob
    <3>2. CASE call' = [call EXCEPT ![c].todo = @ \ {j}]
      BY <3>1, <3>2 DEF Call
    <3>3. CASE call' = [call EXCEPT ![c].todo = @ \ {j}, ![c].failed = TRUE]
      BY <3>1, <3>3 DEF Call
    <3> QED BY <2>6, <3>2, <3>3 DEF LoadJob
  <2>7. ASSUME NEW c \in Callers, StartReturns(c) PROVE ServiceType'
    BY <2>3, <2>7 DEF StartReturns, Owed, Call
  <2>8. ASSUME NEW c \in Callers, ContextEnds(c) PROVE ServiceType'
    BY <2>8 DEF ContextEnds, Call
  <2>9. ASSUME NEW j \in Jobs, Rearm(j) PROVE ServiceType'
    BY <2>9 DEF Rearm
  <2>10. ASSUME NEW j \in Jobs, CallbackEnds(j) \/ CallbackPanics(j) PROVE ServiceType'
    BY <2>10 DEF CallbackEnds, CallbackPanics
  <2>11. Loop \/ UNCHANGED vars => UNCHANGED serviceVars
    BY DEF Loop, vars
  <2>12. UNCHANGED serviceVars => ServiceType'
    BY DEF serviceVars
  <2> QED BY <2>2, <2>4, <2>5, <2>6, <2>7, <2>8, <2>9, <2>10, <2>11, <2>12
          DEF Next, CallStep
<1> QED BY <1>2, <1>3, PTL DEF Spec

(* Every state has the types TypeOK states.                                  *)
THEOREM Typing == Spec => []TypeOK
<1>1. WheelInv /\ ServiceType => TypeOK
  BY DEF WheelInv, ServiceType, TypeOK, Call
<1> QED BY <1>1, WheelInvHolds, ServiceTyping, PTL

-----------------------------------------------------------------------------
(* What the flag, the calls and the wheel's life have to do with each other. *)
lifeVars == <<running, stopClosed, doneClosed, loops, stopper, crashed>>

\* One Start is in its way to the wheel at most until the flag is taken twice.
OnceInv ==
  /\ starts = 0 => /\ ~running /\ ~stopClosed
                   /\ \A c \in Callers : call[c].pc # "wheelStart"
  /\ starts <= 1 =>
       /\ \A c, d \in Callers :
            (call[c].pc = "wheelStart" /\ call[d].pc = "wheelStart") => c = d
       /\ running \/ stopClosed => \A c \in Callers : call[c].pc # "wheelStart"
       /\ stopClosed => ~running

Orderly ==
  /\ \A c, d \in Callers : (call[c].pc # "idle" /\ call[d].pc # "idle") => c = d
  /\ \A c \in Callers :
       /\ call[c].pc = "wheelStart" => started /\ ~running /\ loops = 0
       /\ call[c].pc \in {"list", "load"} => started /\ running
       /\ call[c].pc = "wheelStop" => ~started /\ running
       /\ call[c].pc = "wait" => ~started /\ ~running
  /\ (\A c \in Callers : call[c].pc = "idle") =>
       (started <=> running) /\ (~started => loops = 0)

FlagInv == OnceInv /\ (orderly /\ ~crashed => Orderly)

\* A step that leaves the wheel's life and the flag alone may only move a call
\* on from the reading of the jobs.
LEMMA QuietStep ==
  ASSUME ServiceType, FlagInv, UNCHANGED <<lifeVars, started, starts, orderly>>,
         \/ UNCHANGED call
         \/ \E c \in Callers :
              /\ \A d \in Callers : d # c => call'[d] = call[d]
              /\ call[c].pc \in {"list", "load"}
              /\ call'[c].pc \in {"idle", "list", "load"}
  PROVE  FlagInv'
<1>1. OnceInv'
  BY DEF FlagInv, OnceInv, lifeVars
<1>2. CASE UNCHANGED call
  BY <1>1, <1>2 DEF FlagInv, Orderly, lifeVars
<1>3. ASSUME NEW c \in Callers,
             \A d \in Callers : d # c => call'[d] = call[d],
             call[c].pc \in {"list", "load"},
             call'[c].pc \in {"idle", "list", "load"},
             Orderly
      PROVE  Orderly'
  <2>1. started /\ running /\ \A d \in Callers : d # c => call'[d].pc = "idle"
    BY <1>3 DEF Orderly
  <2> QED BY <1>3, <2>1 DEF Orderly, lifeVars
<1> QED BY <1>1, <1>2, <1>3 DEF FlagInv, lifeVars

LEMMA FlagInvHolds == Spec => []FlagInv
<1>1. Init => FlagInv
  BY DEF Init, FlagInv, OnceInv, Orderly, Idle, Wheel!Init
<1>2. WheelInv /\ ServiceType /\ FlagInv /\ [Next]_vars => FlagInv'
  <2> SUFFICES ASSUME WheelInv, ServiceType, FlagInv, [Next]_vars PROVE FlagInv'
    OBVIOUS
  <2>1. ASSUME NEW c \in Callers, StartCall(c) PROVE FlagInv'
    <3>1. /\ UNCHANGED lifeVars /\ started' = TRUE /\ ~started
          /\ starts' = starts + 1 /\ starts \in Nat
          /\ orderly' = (orderly /\ \A d \in Callers : call[d].pc = "idle")
      BY <2>1 DEF StartCall, Begins, wheelVars, lifeVars, ServiceType
    <3>2. /\ \A d \in Callers : d # c => call'[d] = call[d]
          /\ call'[c].pc = "wheelStart"
      BY <2>1 DEF StartCall, Begins, ServiceType, Call
    <3>3. OnceInv'
      BY <3>1, <3>2 DEF FlagInv, OnceInv, lifeVars
    <3>4. ASSUME orderly', ~crashed' PROVE Orderly'
      BY <3>1, <3>2, <3>4 DEF FlagInv, Orderly, lifeVars
    <3> QED BY <3>3, <3>4 DEF FlagInv
  <2>2. ASSUME NEW c \in Callers, StopCall(c) PROVE FlagInv'
    <3>1. /\ UNCHANGED <<lifeVars, starts>> /\ started' = FALSE /\ started
          /\ orderly' = (orderly /\ \A d \in Callers : call[d].pc = "idle")
      BY <2>2 DEF StopCall, Begins, wheelVars, lifeVars, ServiceType
    <3>2. /\ \A d \in Callers : d # c => call'[d] = call[d]
          /\ call'[c].pc = "wheelStop"
      BY <2>2 DEF StopCall, Begins, ServiceType, Call
    <3>3. OnceInv'
      BY <3>1, <3>2 DEF FlagInv, OnceInv, lifeVars
    <3>4. ASSUME orderly', ~crashed' PROVE Orderly'
      BY <3>1, <3>2, <3>4 DEF FlagInv, Orderly, lifeVars
    <3> QED BY <3>3, <3>4 DEF FlagInv
  <2>3. ASSUME NEW c \in Callers, WheelStart(c) PROVE FlagInv'
    <3>1. /\ \A d \in Callers : d # c => call'[d] = call[d]
          /\ call[c].pc = "wheelStart"
          /\ UNCHANGED <<started, starts, orderly>>
      BY <2>3 DEF WheelStart, At, Answers, ServiceType
    <3>2. CASE running /\ Answers(c) /\ UNCHANGED wheelVars
      <4>1. call'[c].pc = "idle" /\ UNCHANGED lifeVars
        BY <3>2 DEF Answers, Idle, ServiceType, wheelVars, lifeVars
      <4>2. OnceInv'
        BY <3>1, <4>1 DEF FlagInv, OnceInv, lifeVars
      <4> QED BY <3>1, <3>2, <4>1, <4>2 DEF FlagInv, Orderly, lifeVars
    <3>3. CASE Wheel!Start /\ call' = [call EXCEPT ![c].pc = "list"]
      <4>1. call'[c].pc = "list" /\ running'
        BY <3>3 DEF ServiceType, Call, Wheel!Start
      <4>2. UNCHANGED <<stopClosed, crashed>>
        BY <3>3 DEF Wheel!Start
      <4>3. OnceInv'
        BY <3>1, <4>1, <4>2 DEF FlagInv, OnceInv, ServiceType
      <4> QED BY <3>1, <4>1, <4>2, <4>3 DEF FlagInv, Orderly
    <3> QED BY <2>3, <3>2, <3>3 DEF WheelStart
  <2>4. ASSUME NEW c \in Callers, WheelStop(c) PROVE FlagInv'
    <3>1. /\ \A d \in Callers : d # c => call'[d] = call[d]
          /\ call[c].pc = "wheelStop"
          /\ UNCHANGED <<started, starts, orderly>>
      BY <2>4 DEF WheelStop, At, Answers, ServiceType
    <3>2. CASE ~running /\ Answers(c) /\ UNCHANGED wheelVars
      <4>1. call'[c].pc = "idle" /\ UNCHANGED lifeVars
        BY <3>2 DEF Answers, Idle, ServiceType, wheelVars, lifeVars
      <4>2. OnceInv'
        BY <3>1, <4>1 DEF FlagInv, OnceInv, lifeVars
      <4> QED BY <3>1, <3>2, <4>1, <4>2 DEF FlagInv, Orderly, lifeVars
    <3>3. CASE Wheel!StopBegin /\ call' = [call EXCEPT ![c].pc = "wait"]
      <4>1. call'[c].pc = "wait" /\ running /\ ~crashed
        BY <3>3 DEF ServiceType, Call, Wheel!StopBegin
      <4>2. CASE stopClosed
        <5>1. crashed' /\ UNCHANGED <<running, stopClosed>>
          BY <3>3, <4>2 DEF Wheel!StopBegin
        <5>2. OnceInv'
          BY <3>1, <4>1, <5>1 DEF FlagInv, OnceInv
        <5> QED BY <5>1, <5>2 DEF FlagInv
      <4>3. CASE ~stopClosed
        <5>1. stopClosed' /\ ~running' /\ ~crashed'
          BY <3>3, <4>1, <4>3 DEF Wheel!StopBegin
        <5>2. OnceInv'
          BY <3>1, <4>1, <5>1 DEF FlagInv, OnceInv
        <5> QED BY <3>1, <4>1, <5>1, <5>2 DEF FlagInv, Orderly
      <4> QED BY <4>2, <4>3
    <3> QED BY <2>4, <3>2, <3>3 DEF WheelStop
  <2>5. ASSUME NEW c \in Callers, StopReturns(c) PROVE FlagInv'
    <3>1. /\ \A d \in Callers : d # c => call'[d] = call[d]
          /\ call[c].pc = "wait" /\ call'[c].pc = "idle"
          /\ UNCHANGED <<started, starts, orderly, running, stopClosed, loops, crashed>>
          /\ doneClosed /\ ~crashed
      BY <2>5 DEF StopReturns, At, Answers, Idle, ServiceType, Wheel!StopReturn
    <3>2. OnceInv'
      BY <3>1 DEF FlagInv, OnceInv
    <3>3. ~running => loops = 0
      BY <3>1 DEF WheelInv, WheelFacts!LifecycleInv
    <3> QED BY <3>1, <3>2, <3>3 DEF FlagInv, Orderly
  <2>6. ASSUME NEW c \in Callers,
               \/ ListJobs(c) \/ StartReturns(c) \/ ContextEnds(c)
               \/ \E j \in Jobs : LoadJob(c, j)
        PROVE  FlagInv'
    <3>1. UNCHANGED <<lifeVars, started, starts, orderly>>
      BY <2>6 DEF ListJobs, StartReturns, ContextEnds, LoadJob, Accepted, Wheel!AddJob,
                  Wheel!AddTask, Wheel!lifeVars, wheelVars, lifeVars
    <3>2. /\ \A d \in Callers : d # c => call'[d] = call[d]
          /\ call[c].pc \in {"list", "load"}
          /\ call'[c].pc \in {"idle", "list", "load"}
      <4> USE DEF ServiceType, Call, At
      <4>1. CASE Answers(c) /\ call[c].pc \in {"list", "load"}
        BY <4>1 DEF Answers, Idle
      <4>2. CASE ContextEnds(c)
        BY <4>2 DEF ContextEnds
      <4>3. ASSUME NEW j \in Jobs, LoadJob(c, j)
            PROVE  /\ \A d \in Callers : d # c => call'[d] = call[d]
                   /\ call[c].pc = "load" /\ call'[c].pc = "load"
        <5>1. CASE call' = [call EXCEPT ![c].todo = @ \ {j}]
          BY <4>3, <5>1 DEF LoadJob
        <5>2. CASE call' = [call EXCEPT ![c].todo = @ \ {j}, ![c].failed = TRUE]
          BY <4>3, <5>2 DEF LoadJob
        <5> QED BY <4>3, <5>1, <5>2 DEF LoadJob
      <4>4. ASSUME NEW js \in SUBSET Jobs, call[c].pc = "list",
                   call' = [call EXCEPT ![c].pc = "load", ![c].listed = js, ![c].todo = js]
            PROVE  (\A d \in Callers : d # c => call'[d] = call[d]) /\ call'[c].pc = "load"
        BY <4>4
      <4> QED BY <2>6, <4>1, <4>2, <4>3, <4>4 DEF ListJobs, StartReturns
    <3> QED BY <3>1, <3>2, QuietStep
  <2>7. CASE \/ \E j \in Jobs : Rearm(j) \/ CallbackEnds(j) \/ CallbackPanics(j)
             \/ Loop /\ Wheel!Tick
             \/ UNCHANGED vars
    <3>1. UNCHANGED <<lifeVars, started, starts, orderly, call>>
      BY <2>7 DEF Rearm, CallbackEnds, CallbackPanics, Accepted, Wheel!AddJob, Wheel!AddTask,
                  Wheel!RunCallback, Wheel!Tick, Wheel!lifeVars, Loop, serviceVars, vars,
                  wheelVars, lifeVars
    <3> QED BY <3>1, QuietStep
  <2>8. CASE Loop /\ Wheel!LoopExit
    <3>1. /\ UNCHANGED <<started, starts, orderly, call, running, stopClosed>>
          /\ loops # 0 /\ ~crashed
      BY <2>8 DEF Loop, serviceVars, Wheel!LoopExit, WheelInv, Wheel!TypeOK
    <3>2. OnceInv'
      BY <3>1 DEF FlagInv, OnceInv
    <3> QED BY <3>1, <3>2 DEF FlagInv, Orderly
  <2> QED BY <2>1, <2>2, <2>3, <2>4, <2>5, <2>6, <2>7, <2>8 DEF Next, CallStep, Loop
<1> QED BY <1>1, <1>2, WheelInvHolds, ServiceTyping, PTL DEF Spec

(* When calls do not overlap, the flag tells whether the wheel runs.         *)
THEOREM FlagIsTrue == Spec => []FlagTellsWheel
<1>1. FlagInv => FlagTellsWheel
  BY DEF FlagInv, Orderly, FlagTellsWheel
<1> QED BY <1>1, FlagInvHolds, PTL

(* A service that is started once does not panic, whatever calls overlap.    *)
THEOREM OneStartIsSafe == Spec => []PanicNeedsTwoStarts
<1>1. WheelInv /\ ServiceType /\ FlagInv => PanicNeedsTwoStarts
  BY DEF WheelInv, WheelFacts!LifecycleInv, WheelFacts!PanicNeedsRestart, ServiceType,
         FlagInv, OnceInv, PanicNeedsTwoStarts
<1> QED BY <1>1, WheelInvHolds, ServiceTyping, FlagInvHolds, PTL

-----------------------------------------------------------------------------
\* A job that parses and is held, unless a trigger of it has panicked.
Safe(j) == j \notin BadJobs /\ (Held(j) \/ j \in panicked)

\* A callback that has put its job back has not ended.
RearmedAreLaunched == \A j \in Jobs : rearmed[j] <= launched[j]

\* What a load has come to: what it has taken is in the wheel, but for what
\* it has reported.
Loading(c) ==
  /\ call[c].todo \subseteq call[c].listed
  /\ \A j \in call[c].listed \ call[c].todo :
       Safe(j) \/ (call[c].failed /\ (j \in BadJobs \/ ~call[c].live))

LoadInv ==
  /\ RearmedAreLaunched
  /\ ~stopClosed /\ ~crashed =>
       /\ \A j \in promised : Safe(j)
       /\ promised # {} => running
       /\ \A c \in Callers : call[c].pc \in {"list", "load"} => running
       /\ \A c \in Callers : call[c].pc = "load" => Loading(c)

\* A wheel whose channels are open has not been stopped.
LEMMA StillRunning ==
  ASSUME WheelInv, [Next]_vars, ~stopClosed', ~crashed'
  PROVE  ~stopClosed /\ ~crashed /\ (running => running')
<1>1. [Wheel!Next]_(Wheel!vars)
  BY WheelSteps
<1>2. CASE UNCHANGED Wheel!vars
  BY <1>2 DEF Wheel!vars, Wheel!lifeVars
<1>3. ASSUME NEW j \in Jobs, NEW d \in Int, Wheel!AddTask(j, d, FALSE, 0)
      PROVE  ~stopClosed /\ ~crashed /\ (running => running')
  BY <1>3 DEF Wheel!AddTask, Wheel!lifeVars
<1>4. CASE Wheel!StopBegin
  BY <1>4 DEF Wheel!StopBegin
<1>5. CASE Wheel!Start \/ Wheel!StopReturn \/ Wheel!LoopExit \/ Wheel!Tick
  BY <1>5 DEF Wheel!Start, Wheel!StopReturn, Wheel!LoopExit, Wheel!Tick, Wheel!lifeVars
<1>6. ASSUME NEW j \in Jobs, Wheel!RemoveJob(j) \/ Wheel!RunCallback(j)
      PROVE  ~stopClosed /\ ~crashed /\ (running => running')
  BY <1>6 DEF Wheel!RemoveJob, Wheel!RunCallback, Wheel!lifeVars
<1> QED BY <1>1, <1>2, <1>3, <1>4, <1>5, <1>6, WheelAssumption DEF Wheel!Next, Wheel!AddJob

\* A job put into the wheel is in it, and nothing else moves.
LEMMA AcceptedIsIn ==
  ASSUME WheelInv, NEW j \in Jobs, Accepted(j)
  PROVE  /\ Safe(j)' /\ UNCHANGED launched
         /\ \A i \in Jobs : i # j => taskIndex'[i] = taskIndex[i]
<1>1. PICK d \in Delays : Wheel!AddJob(j, d)
  BY DEF Accepted
<1> DEFINE q == Wheel!SlotAfter(Wheel!DurationToTicks(d))
<1>2. taskIndex' = [taskIndex EXCEPT ![j] = q] /\ UNCHANGED launched
  BY <1>1 DEF Wheel!AddJob, Wheel!AddTask
<1>3. currentPos \in Int /\ d \in Int /\ SlotNum \in Nat \ {0} /\ Interval \in Nat \ {0}
  BY WheelAssumption DEF WheelInv, Wheel!TypeOK, Wheel!Pos
<1>4. Wheel!DurationToTicks(d) \in Int
  BY <1>3 DEF Wheel!DurationToTicks
<1>5. q \in Int
  BY <1>3, <1>4 DEF Wheel!SlotAfter
<1>6. taskIndex \in [Jobs -> Wheel!Pos \cup {Nil}]
  BY DEF WheelInv, Wheel!TypeOK
<1>7. taskIndex'[j] # Nil /\ \A i \in Jobs : i # j => taskIndex'[i] = taskIndex[i]
  BY <1>2, <1>5, <1>6, NilAssumption
<1> QED BY <1>2, <1>7 DEF Safe, Held, Accepted

\* A tick takes a job out of the wheel only with its callback started.
LEMMA TickHolds ==
  ASSUME WheelInv, ServiceType, RearmedAreLaunched, Wheel!Tick, UNCHANGED serviceVars
  PROVE  RearmedAreLaunched' /\ \A j \in Jobs : Held(j) => Held(j)'
<1>1. /\ launched \in [Jobs -> Nat] /\ rearmed \in [Jobs -> Nat]
      /\ rearmed' = rearmed /\ currentPos \in Wheel!Pos
      /\ \A j \in Jobs : rearmed[j] <= launched[j]
  BY DEF WheelInv, Wheel!TypeOK, ServiceType, serviceVars, RearmedAreLaunched
<1>2. ASSUME NEW j \in Jobs
      PROVE  rearmed'[j] <= launched'[j] /\ (Held(j) => Held(j)')
  <2>1. /\ launched'[j] = launched[j] + (IF Wheel!Expired(j) THEN 1 ELSE 0)
        /\ taskIndex'[j] = Wheel!IndexAfterTick(j)
    BY DEF Wheel!Tick
  <2>2. ~Wheel!Cancelled(j)
    BY <1>1 DEF WheelInv, Wheel!Cancelled, Wheel!Stored
  <2>3. CASE Wheel!Expired(j)
    BY <1>1, <2>1, <2>3 DEF Held
  <2>4. CASE ~Wheel!Expired(j)
    <3>1. taskIndex'[j] = taskIndex[j]
      BY <2>1, <2>2, <2>4 DEF Wheel!IndexAfterTick, Wheel!Renewed
    <3> QED BY <1>1, <2>1, <2>4, <3>1 DEF Held
  <2> QED BY <2>3, <2>4
<1> QED BY <1>2 DEF RearmedAreLaunched

\* In a running wheel a job that is held stays held.
LEMMA SafeStays ==
  ASSUME WheelInv, ServiceType, RearmedAreLaunched, [Next]_vars
  PROVE  /\ RearmedAreLaunched'
         /\ running => \A j \in Jobs : Safe(j) => Safe(j)'
<1>1. /\ launched \in [Jobs -> Nat] /\ rearmed \in [Jobs -> Nat]
      /\ \A j \in Jobs : rearmed[j] <= launched[j]
  BY DEF WheelInv, Wheel!TypeOK, ServiceType, RearmedAreLaunched
<1>2. CASE UNCHANGED <<taskIndex, launched, rearmed, panicked>>
  BY <1>2 DEF RearmedAreLaunched, Safe, Held
<1>3. ASSUME NEW i \in Jobs, Accepted(i), UNCHANGED panicked,
             \/ UNCHANGED rearmed
             \/ launched[i] > rearmed[i] /\ rearmed' = [rearmed EXCEPT ![i] = @ + 1]
      PROVE  RearmedAreLaunched' /\ \A j \in Jobs : Safe(j) => Safe(j)'
  <2>1. /\ Safe(i)' /\ UNCHANGED launched
        /\ \A j \in Jobs : j # i => taskIndex'[j] = taskIndex[j] /\ rearmed'[j] = rearmed[j]
    BY <1>1, <1>3, AcceptedIsIn
  <2> QED BY <1>1, <1>3, <2>1 DEF RearmedAreLaunched, Safe, Held
<1>4. ASSUME NEW i \in Jobs, CallbackEnds(i)
      PROVE  RearmedAreLaunched' /\ (running => \A j \in Jobs : Safe(j) => Safe(j)')
  <2>1. /\ launched[i] > 0 /\ launched' = [launched EXCEPT ![i] = @ - 1]
        /\ UNCHANGED <<taskIndex, panicked>>
    BY <1>4 DEF CallbackEnds, Wheel!RunCallback, Wheel!wheelVars
  <2>2. CASE rearmed[i] > 0 /\ rearmed' = [rearmed EXCEPT ![i] = @ - 1]
    BY <1>1, <2>1, <2>2 DEF RearmedAreLaunched, Safe, Held
  <2>3. CASE launched[i] > rearmed[i] /\ Refused(i) /\ UNCHANGED rearmed
    BY <1>1, <2>1, <2>3 DEF RearmedAreLaunched, Safe, Held, Refused
  <2> QED BY <1>4, <2>2, <2>3 DEF CallbackEnds
<1>5. ASSUME NEW c \in Callers, NEW j \in Jobs, LoadJob(c, j)
      PROVE  \/ Accepted(j) /\ UNCHANGED <<rearmed, panicked>>
             \/ UNCHANGED <<taskIndex, launched, rearmed, panicked>>
  BY <1>5 DEF LoadJob, wheelVars
<1>6. ASSUME NEW c \in Callers,
             \/ StartCall(c) \/ StopCall(c) \/ ContextEnds(c) \/ ListJobs(c)
             \/ StartReturns(c) \/ WheelStart(c) \/ WheelStop(c) \/ StopReturns(c)
      PROVE  UNCHANGED <<taskIndex, launched, rearmed, panicked>>
  BY <1>6 DEF StartCall, StopCall, ContextEnds, ListJobs, StartReturns, WheelStart,
              WheelStop, StopReturns, wheelVars, Wheel!Start, Wheel!StopBegin,
              Wheel!StopReturn, Wheel!wheelVars
<1>7. Wheel!LoopExit /\ UNCHANGED serviceVars => UNCHANGED <<taskIndex, launched, rearmed, panicked>>
  BY DEF Wheel!LoopExit, Wheel!wheelVars, serviceVars
<1>8. Wheel!Tick /\ UNCHANGED serviceVars =>
        RearmedAreLaunched' /\ \A j \in Jobs : Safe(j) => Safe(j)'
  BY TickHolds DEF Safe, serviceVars
<1>9. UNCHANGED vars => UNCHANGED <<taskIndex, launched, rearmed, panicked>>
  BY DEF vars, wheelVars, serviceVars
<1>10. ASSUME NEW i \in Jobs, Rearm(i)
       PROVE  /\ Accepted(i) /\ UNCHANGED panicked
              /\ launched[i] > rearmed[i] /\ rearmed' = [rearmed EXCEPT ![i] = @ + 1]
  BY <1>10 DEF Rearm
<1>11. ASSUME NEW c \in Callers, NEW i \in Jobs, LoadJob(c, i)
       PROVE  RearmedAreLaunched' /\ (running => \A j \in Jobs : Safe(j) => Safe(j)')
  <2>1. CASE Accepted(i) /\ UNCHANGED <<rearmed, panicked>>
    BY <1>3, <2>1
  <2> QED BY <1>2, <1>5, <1>11, <2>1
<1>12. ASSUME NEW i \in Jobs, Rearm(i)
       PROVE  RearmedAreLaunched' /\ (running => \A j \in Jobs : Safe(j) => Safe(j)')
  BY <1>3, <1>10, <1>12
<1>13. Loop => RearmedAreLaunched' /\ (running => \A j \in Jobs : Safe(j) => Safe(j)')
  BY <1>2, <1>7, <1>8 DEF Loop
<1>14. ASSUME NEW i \in Jobs, CallbackPanics(i)
       PROVE  RearmedAreLaunched' /\ (running => \A j \in Jobs : Safe(j) => Safe(j)')
  <2>1. /\ launched[i] > rearmed[i] /\ launched' = [launched EXCEPT ![i] = @ - 1]
        /\ UNCHANGED <<taskIndex, rearmed>> /\ panicked' = panicked \cup {i}
    BY <1>14 DEF CallbackPanics, Wheel!RunCallback, Wheel!wheelVars
  <2> QED BY <1>1, <2>1 DEF RearmedAreLaunched, Safe, Held
<1>15. CASE Next
  BY <1>2, <1>4, <1>6, <1>11, <1>12, <1>13, <1>14, <1>15 DEF Next, CallStep
<1> QED BY <1>2, <1>9, <1>15

LEMMA LoadInvHolds == Spec => []LoadInv
<1>1. Init => LoadInv
  BY DEF Init, LoadInv, RearmedAreLaunched, Idle, Wheel!Init
<1>2. WheelInv /\ ServiceType /\ LoadInv /\ [Next]_vars => LoadInv'
  <2> SUFFICES ASSUME WheelInv, ServiceType, LoadInv, [Next]_vars PROVE LoadInv'
    OBVIOUS
  <2>1. RearmedAreLaunched' /\ (running => \A j \in Jobs : Safe(j) => Safe(j)')
    BY SafeStays DEF LoadInv
  <2> SUFFICES ASSUME ~stopClosed', ~crashed'
      PROVE  /\ \A j \in promised' : Safe(j)'
             /\ promised' # {} => running'
             /\ \A c \in Callers : call'[c].pc \in {"list", "load"} => running'
             /\ \A c \in Callers : call'[c].pc = "load" => Loading(c)'
    BY <2>1 DEF LoadInv
  <2>2. ~stopClosed /\ ~crashed /\ (running => running')
    BY StillRunning
  <2>3. /\ \A j \in promised : Safe(j) /\ running
        /\ \A c \in Callers : call[c].pc \in {"list", "load"} => running
        /\ \A c \in Callers : call[c].pc = "load" => Loading(c)
        /\ promised \subseteq Jobs /\ call \in [Callers -> Call]
    BY <2>2 DEF LoadInv, ServiceType
  <2>4. \A j \in promised : Safe(j)' /\ running'
    BY <2>1, <2>2, <2>3
  <2>5. \A c \in Callers : call[c].pc \in {"list", "load"} => running /\ running'
    BY <2>2, <2>3
  \* A call that stays where it is, or only finds its context done.
  <2>6. ASSUME NEW c \in Callers, call[c].pc = "load", call'[c].listed = call[c].listed,
               call'[c].todo = call[c].todo, call'[c].failed = call[c].failed,
               ~call[c].live => ~call'[c].live
        PROVE  Loading(c)'
    BY <2>1, <2>3, <2>5, <2>6 DEF Loading, Call
  <2>7. CASE UNCHANGED <<call, promised>>
    BY <2>3, <2>4, <2>5, <2>6, <2>7
  <2>8. ASSUME NEW c \in Callers, \A d \in Callers : d # c => call'[d] = call[d],
               \/ UNCHANGED promised
               \/ call[c].pc = "load" /\ promised' = promised \cup Owed(c) /\ call[c].todo = {},
               call'[c].pc \in {"list", "load"} => running',
               call'[c].pc = "load" => Loading(c)'
        PROVE  /\ \A j \in promised' : Safe(j)'
               /\ promised' # {} => running'
               /\ \A d \in Callers : call'[d].pc \in {"list", "load"} => running'
               /\ \A d \in Callers : call'[d].pc = "load" => Loading(d)'
    <3>1. \A d \in Callers : call'[d].pc = "load" => Loading(d)'
      BY <2>6, <2>8
    <3>2. \A d \in Callers : call'[d].pc \in {"list", "load"} => running'
      BY <2>5, <2>8
    <3>3. CASE UNCHANGED promised
      BY <2>4, <3>1, <3>2, <3>3
    <3>4. CASE call[c].pc = "load" /\ promised' = promised \cup Owed(c) /\ call[c].todo = {}
      <4>1. Loading(c) /\ running /\ running' /\ call[c] \in Call
        BY <2>3, <2>5, <3>4
      <4>2. \A j \in Owed(c) : j \in Jobs /\ Safe(j)
        BY <3>4, <4>1 DEF Loading, Owed, Call
      <4> QED BY <2>1, <2>4, <3>1, <3>2, <3>4, <4>1, <4>2
    <3> QED BY <2>8, <3>3, <3>4
  <2> DEFINE Goal == /\ \A j \in promised' : Safe(j)'
                     /\ promised' # {} => running'
                     /\ \A d \in Callers : call'[d].pc \in {"list", "load"} => running'
                     /\ \A d \in Callers : call'[d].pc = "load" => Loading(d)'
  <2>9. ASSUME NEW c \in Callers, StartCall(c) \/ StopCall(c) PROVE Goal
    <3>1. /\ \A d \in Callers : d # c => call'[d] = call[d]
          /\ call'[c].pc \in {"wheelStart", "wheelStop"} /\ UNCHANGED promised
      BY <2>3, <2>9 DEF StartCall, StopCall, Begins, Call
    <3> QED BY <2>8, <3>1
  <2>10. ASSUME NEW c \in Callers, Answers(c)
         PROVE  (\A d \in Callers : d # c => call'[d] = call[d]) /\ call'[c].pc = "idle"
    BY <2>3, <2>10 DEF Answers, Idle
  <2>11. ASSUME NEW c \in Callers, WheelStart(c) PROVE Goal
    <3>1. CASE Answers(c)
      BY <2>8, <2>10, <2>11, <3>1 DEF WheelStart
    <3>2. CASE Wheel!Start /\ call' = [call EXCEPT ![c].pc = "list"]
      <4>1. /\ \A d \in Callers : d # c => call'[d] = call[d]
            /\ call'[c].pc = "list" /\ running'
        BY <2>3, <3>2 DEF Call, Wheel!Start
      <4> QED BY <2>8, <2>11, <4>1 DEF WheelStart
    <3> QED BY <2>11, <3>1, <3>2 DEF WheelStart
  <2>12. ASSUME NEW c \in Callers, WheelStop(c) \/ StopReturns(c) PROVE Goal
    <3>1. CASE Answers(c)
      BY <2>8, <2>10, <2>12, <3>1 DEF WheelStop, StopReturns
    <3>2. CASE call' = [call EXCEPT ![c].pc = "wait"]
      <4>1. /\ \A d \in Callers : d # c => call'[d] = call[d]
            /\ call'[c].pc = "wait"
        BY <2>3, <3>2 DEF Call
      <4> QED BY <2>8, <2>12, <4>1 DEF WheelStop, StopReturns
    <3> QED BY <2>12, <3>1, <3>2 DEF WheelStop, StopReturns
  <2>13. ASSUME NEW c \in Callers, ListJobs(c) PROVE Goal
    <3>1. CASE Answers(c)
      BY <2>8, <2>10, <2>13, <3>1 DEF ListJobs
    <3>2. ASSUME NEW js \in SUBSET Jobs,
                 call' = [call EXCEPT ![c].pc = "load", ![c].listed = js, ![c].todo = js]
          PROVE  Goal
      <4>1. /\ \A d \in Callers : d # c => call'[d] = call[d]
            /\ call'[c].pc = "load" /\ call'[c].listed = js /\ call'[c].todo = js
        BY <2>3, <3>2 DEF Call
      <4>2. Loading(c)'
        BY <4>1 DEF Loading
      <4>3. call[c].pc = "list" /\ UNCHANGED promised
        BY <2>13 DEF ListJobs, At
      <4> QED BY <2>5, <2>8, <4>1, <4>2, <4>3
    <3> QED BY <2>13, <3>1, <3>2 DEF ListJobs
  <2>14. ASSUME NEW c \in Callers, NEW i \in Jobs, LoadJob(c, i) PROVE Goal
    <3>1. call[c].pc = "load" /\ i \in call[c].todo /\ UNCHANGED promised
      BY <2>14 DEF LoadJob, At
    <3>2. Loading(c) /\ running /\ running' /\ call[c] \in Call
      BY <2>3, <2>5, <3>1
    <3>3. CASE Accepted(i) /\ call' = [call EXCEPT ![c].todo = @ \ {i}]
      <4>1. /\ \A d \in Callers : d # c => call'[d] = call[d]
            /\ call'[c] = [call[c] EXCEPT !.todo = call[c].todo \ {i}]
        BY <2>3, <3>3
      <4>2. /\ call'[c].pc = "load" /\ call'[c].listed = call[c].listed
            /\ call'[c].todo = call[c].todo \ {i}
            /\ call'[c].failed = call[c].failed /\ call'[c].live = call[c].live
        BY <3>1, <3>2, <4>1 DEF Call
      <4>3. Safe(i)'
        BY <3>3, AcceptedIsIn
      <4>4. Loading(c)'
        BY <2>1, <3>2, <4>2, <4>3 DEF Loading, Call
      <4> QED BY <2>8, <3>1, <3>2, <4>1, <4>4
    <3>4. CASE /\ ~call[c].live \/ Refused(i)
               /\ call' = [call EXCEPT ![c].todo = @ \ {i}, ![c].failed = TRUE]
      <4>1. /\ \A d \in Callers : d # c => call'[d] = call[d]
            /\ call'[c] = [call[c] EXCEPT !.todo = call[c].todo \ {i}, !.failed = TRUE]
        BY <2>3, <3>4
      <4>2. /\ call'[c].pc = "load" /\ call'[c].listed = call[c].listed
            /\ call'[c].todo = call[c].todo \ {i}
            /\ call'[c].failed /\ call'[c].live = call[c].live
        BY <3>1, <3>2, <4>1 DEF Call
      <4>3. Safe(i) \/ i \in BadJobs \/ ~call[c].live
        BY <3>2, <3>4 DEF Refused, Safe, Held
      <4>4. Loading(c)'
        BY <2>1, <3>2, <4>2, <4>3 DEF Loading, Call
      <4> QED BY <2>8, <3>1, <3>2, <4>1, <4>4
    <3> QED BY <2>14, <3>3, <3>4 DEF LoadJob
  <2>15. ASSUME NEW c \in Callers, StartReturns(c) PROVE Goal
    BY <2>8, <2>10, <2>15 DEF StartReturns, At
  <2>16. ASSUME NEW c \in Callers, ContextEnds(c) PROVE Goal
    <3>1. /\ \A d \in Callers : d # c => call'[d] = call[d]
          /\ call'[c] = [call[c] EXCEPT !.live = FALSE] /\ UNCHANGED promised
          /\ call[c] \in Call
      BY <2>3, <2>16 DEF ContextEnds
    <3>2. /\ call'[c].pc = call[c].pc /\ call'[c].listed = call[c].listed
          /\ call'[c].todo = call[c].todo /\ call'[c].failed = call[c].failed
          /\ ~call'[c].live
      BY <3>1 DEF Call
    <3> QED BY <2>5, <2>6, <2>8, <3>1, <3>2
  <2>17. CASE \/ \E j \in Jobs : Rearm(j) \/ CallbackEnds(j) \/ CallbackPanics(j)
              \/ Loop \/ UNCHANGED vars
    BY <2>7, <2>17 DEF Rearm, CallbackEnds, CallbackPanics, Loop, serviceVars, vars
  <2> QED BY <2>9, <2>11, <2>12, <2>13, <2>14, <2>15, <2>16, <2>17 DEF Next, CallStep
<1> QED BY <1>1, <1>2, WheelInvHolds, ServiceTyping, PTL DEF Spec

(* No job of a load that has answered is lost while the wheel runs, but by a *)
(* panic of its own trigger.                                                 *)
THEOREM LoadedStay == Spec => []LoadedJobsAreHeld
<1>1. LoadInv => LoadedJobsAreHeld
  BY DEF LoadInv, Safe, LoadedJobsAreHeld
<1> QED BY <1>1, LoadInvHolds, PTL

-----------------------------------------------------------------------------
(* Stop always has a loop to wait for.                                       *)
WaitInv ==
  ~crashed =>
    /\ stopClosed => doneClosed \/ loops > 0
    /\ \A c \in Callers : call[c].pc = "wait" => stopClosed /\ stopper = "waiting"
    /\ \A c, d \in Callers : (call[c].pc = "wait" /\ call[d].pc = "wait") => c = d

\* Steps that leave the wheel's life alone and bring no call to its wait.
LEMMA NobodyNewWaits ==
  ASSUME WaitInv, UNCHANGED lifeVars,
         \A c \in Callers : call'[c].pc = "wait" => call[c].pc = "wait"
  PROVE  WaitInv'
BY DEF WaitInv, lifeVars

LEMMA WaitInvHolds == Spec => []WaitInv
<1>1. Init => WaitInv
  BY DEF Init, WaitInv, Idle, Wheel!Init
<1>2. WheelInv /\ ServiceType /\ WaitInv /\ [Next]_vars => WaitInv'
  <2> SUFFICES ASSUME WheelInv, ServiceType, WaitInv, [Next]_vars PROVE WaitInv'
    OBVIOUS
  <2>1. ASSUME NEW c \in Callers, Answers(c)
        PROVE  /\ call'[c].pc = "idle"
               /\ \A d \in Callers : d # c => call'[d] = call[d]
    BY <2>1 DEF Answers, Idle, ServiceType
  <2>2. ASSUME NEW c \in Callers,
               \/ StartCall(c) \/ StopCall(c) \/ ContextEnds(c) \/ ListJobs(c) \/ StartReturns(c)
        PROVE  WaitInv'
    <3>1. UNCHANGED lifeVars
      BY <2>2 DEF StartCall, StopCall, ContextEnds, ListJobs, StartReturns, wheelVars, lifeVars
    <3>2. \A d \in Callers : call'[d].pc = "wait" => call[d].pc = "wait"
      <4>1. CASE Answers(c)
        BY <2>1, <4>1
      <4>2. CASE StartCall(c) \/ StopCall(c)
        BY <4>2 DEF StartCall, StopCall, Begins, ServiceType, Call
      <4>3. CASE ContextEnds(c)
        BY <4>3 DEF ContextEnds, ServiceType, Call
      <4>4. ASSUME NEW js \in SUBSET Jobs,
                   call' = [call EXCEPT ![c].pc = "load", ![c].listed = js, ![c].todo = js]
            PROVE  \A d \in Callers : call'[d].pc = "wait" => call[d].pc = "wait"
        BY <4>4 DEF ServiceType, Call
      <4> QED BY <2>2, <4>1, <4>2, <4>3, <4>4 DEF ListJobs, StartReturns
    <3> QED BY <3>1, <3>2, NobodyNewWaits
  <2>3. ASSUME NEW c \in Callers, WheelStart(c) PROVE WaitInv'
    <3>1. CASE Answers(c) /\ UNCHANGED wheelVars
      BY <2>1, <3>1, NobodyNewWaits DEF wheelVars, lifeVars
    <3>2. CASE Wheel!Start /\ call' = [call EXCEPT ![c].pc = "list"]
      BY <3>2 DEF WaitInv, Wheel!Start, ServiceType, Call, WheelInv, Wheel!TypeOK
    <3> QED BY <2>3, <3>1, <3>2 DEF WheelStart
  <2>4. ASSUME NEW c \in Callers, NEW j \in Jobs, LoadJob(c, j) PROVE WaitInv'
    <3>1. UNCHANGED lifeVars
      BY <2>4 DEF LoadJob, Accepted, Wheel!AddJob, Wheel!AddTask, Wheel!lifeVars, wheelVars, lifeVars
    <3>2. \A d \in Callers : call'[d].pc = "wait" => call[d].pc = "wait"
      BY <2>4 DEF LoadJob, ServiceType, Call
    <3> QED BY <3>1, <3>2, NobodyNewWaits
  <2>5. ASSUME NEW c \in Callers, WheelStop(c) PROVE WaitInv'
    <3>1. CASE Answers(c) /\ UNCHANGED wheelVars
      BY <2>1, <3>1, NobodyNewWaits DEF wheelVars, lifeVars
    <3>2. CASE Wheel!StopBegin /\ call' = [call EXCEPT ![c].pc = "wait"]
      <4>1. CASE stopClosed
        BY <3>2, <4>1 DEF WaitInv, Wheel!StopBegin
      <4>2. CASE ~stopClosed
        <5>1. /\ \A d \in Callers : d # c => call'[d] = call[d]
              /\ call'[c].pc = "wait"
          BY <3>2 DEF ServiceType, Call
        <5>2. stopClosed' /\ stopper' = "waiting" /\ loops' = loops /\ running /\ ~crashed
          BY <3>2, <4>2 DEF Wheel!StopBegin
        <5>3. loops = 1
          BY <4>2, <5>2 DEF WheelInv, WheelFacts!LifecycleInv
        <5>4. \A d \in Callers : call[d].pc # "wait"
          BY <4>2, <5>2 DEF WaitInv
        <5> QED BY <5>1, <5>2, <5>3, <5>4 DEF WaitInv
      <4> QED BY <4>1, <4>2
    <3> QED BY <2>5, <3>1, <3>2 DEF WheelStop
  <2>6. ASSUME NEW c \in Callers, StopReturns(c) PROVE WaitInv'
    <3>1. call[c].pc = "wait" /\ Wheel!StopReturn /\ Answers(c)
      BY <2>6 DEF StopReturns, At
    <3>2. \A d \in Callers : call'[d].pc # "wait"
      BY <2>1, <3>1 DEF WaitInv, Wheel!StopReturn
    <3> QED BY <3>1, <3>2 DEF WaitInv, Wheel!StopReturn
  <2>7. CASE Loop
    <3>1. CASE Wheel!Tick
      BY <2>7, <3>1, NobodyNewWaits DEF Loop, Wheel!Tick, Wheel!lifeVars, lifeVars, serviceVars
    <3>2. CASE Wheel!LoopExit
      BY <2>7, <3>2 DEF Loop, Wheel!LoopExit, WaitInv, serviceVars
    <3> QED BY <2>7, <3>1, <3>2 DEF Loop
  <2>8. ASSUME NEW j \in Jobs, Rearm(j) \/ CallbackEnds(j) \/ CallbackPanics(j) PROVE WaitInv'
    <3>1. UNCHANGED <<lifeVars, call>>
      BY <2>8 DEF Rearm, CallbackEnds, CallbackPanics, Accepted, Wheel!AddJob, Wheel!AddTask,
                  Wheel!RunCallback, Wheel!lifeVars, lifeVars
    <3> QED BY <3>1, NobodyNewWaits
  <2>9. CASE UNCHANGED vars
    BY <2>9, NobodyNewWaits DEF vars, wheelVars, serviceVars, lifeVars
  <2> QED BY <2>2, <2>3, <2>4, <2>5, <2>6, <2>7, <2>8, <2>9 DEF Next, CallStep
<1> QED BY <1>1, <1>2, WheelInvHolds, ServiceTyping, PTL DEF Spec

(* A Stop never waits in vain: only one waits at a time, and either doneCh is *)
(* closed or a loop that will take stopCh and close it is still there.        *)
StopFindsALoop ==
  \A c \in Callers : At(c, "wait") =>
    /\ stopper = "waiting"
    /\ doneClosed \/ (stopClosed /\ loops > 0)
    /\ \A d \in Callers : At(d, "wait") => d = c

THEOREM NoStopWaitsInVain == Spec => []StopFindsALoop
<1>1. WaitInv => StopFindsALoop
  BY DEF WaitInv, StopFindsALoop, At
<1> QED BY <1>1, WaitInvHolds, PTL

(* The fair steps of a Stop and of the loop it waits for can be taken where   *)
(* the proof needs them: the prover cannot evaluate ENABLED, TLC can.         *)
StopEnabled(c) ==
  At(c, "wheelStop") \/ (At(c, "wait") /\ doneClosed) => ENABLED <<CallStep(c)>>_vars

LoopEnabled == ~crashed /\ loops > 0 /\ stopClosed => ENABLED <<LoopLeaves>>_vars

StepsEnabled == LoopEnabled /\ \A c \in Callers : StopEnabled(c)

\* What a step does to the pc of a call that stops the wheel.
LEMMA StopMoves ==
  ASSUME ServiceType, [Next]_vars, NEW c \in Callers, call[c].pc \in {"wheelStop", "wait"}
  PROVE  \/ call'[c] = call[c]
         \/ call[c].pc = "wheelStop" /\ WheelStop(c)
         \/ call[c].pc = "wait" /\ StopReturns(c)
<1>1. ASSUME NEW d \in Callers, StartCall(d) \/ StopCall(d)
      PROVE  call'[c] = call[c]
  BY <1>1 DEF StartCall, StopCall, Begins, At, ServiceType
<1>2. ASSUME NEW d \in Callers, WheelStart(d) \/ ListJobs(d) \/ StartReturns(d) \/ ContextEnds(d)
      PROVE  call'[c] = call[c]
  BY <1>2 DEF WheelStart, ListJobs, StartReturns, ContextEnds, Answers, At, ServiceType
<1>3. ASSUME NEW d \in Callers, NEW j \in Jobs, LoadJob(d, j) PROVE call'[c] = call[c]
  BY <1>3 DEF LoadJob, At, ServiceType
<1>4. ASSUME NEW d \in Callers, d # c, WheelStop(d) \/ StopReturns(d) PROVE call'[c] = call[c]
  BY <1>4 DEF WheelStop, StopReturns, Answers, ServiceType
<1>5. WheelStop(c) => call[c].pc = "wheelStop"
  BY DEF WheelStop, At
<1>6. StopReturns(c) => call[c].pc = "wait"
  BY DEF StopReturns, At
<1>7. (\E j \in Jobs : Rearm(j) \/ CallbackEnds(j) \/ CallbackPanics(j)) \/ Loop \/ UNCHANGED vars => call'[c] = call[c]
  BY DEF Rearm, CallbackEnds, CallbackPanics, Loop, serviceVars, vars
<1> QED BY <1>1, <1>2, <1>3, <1>4, <1>5, <1>6, <1>7 DEF Next, CallStep

\* doneCh stays closed.
LEMMA DoneStays == [Next]_vars /\ doneClosed => doneClosed'
<1> SUFFICES ASSUME [Wheel!Next]_(Wheel!vars), doneClosed PROVE doneClosed'
  BY WheelSteps
<1> QED BY DEF Wheel!Next, Wheel!Start, Wheel!StopBegin, Wheel!StopReturn, Wheel!LoopExit,
               Wheel!Tick, Wheel!AddJob, Wheel!AddRecurringJob, Wheel!AddTask, Wheel!RemoveJob,
               Wheel!RunCallback, Wheel!vars, Wheel!wheelVars, Wheel!lifeVars

(* Stop returns: it is refused, or the loop it waits for is there, takes the *)
(* closed stopCh and closes doneCh -- unless the process goes down.          *)
StopsReturn(c) == call[c].pc \in {"wheelStop", "wait"} ~> (call[c].pc = "idle" \/ crashed)

LEMMA OneStopReturns ==
  ASSUME NEW c \in Callers
  PROVE  Spec /\ CallFairness(c) /\ LoopFairness /\ []StopEnabled(c) /\ []LoopEnabled
           => StopsReturn(c)
<1> DEFINE Inv == WheelInv /\ ServiceType /\ WaitInv
           Stopping == At(c, "wheelStop")
           Waiting == At(c, "wait") /\ ~doneClosed
           Released == At(c, "wait") /\ doneClosed
           Over == call[c].pc = "idle" \/ crashed
<1>1. Inv /\ [Next]_vars =>
        /\ Stopping => Stopping' \/ Waiting' \/ Released' \/ Over'
        /\ Waiting => Waiting' \/ Released' \/ Over'
        /\ Released => Released' \/ Over'
  <2> SUFFICES ASSUME Inv, [Next]_vars, Stopping \/ Waiting \/ Released
               PROVE  /\ Stopping => Stopping' \/ Waiting' \/ Released' \/ Over'
                      /\ Waiting => Waiting' \/ Released' \/ Over'
                      /\ Released => Released' \/ Over'
    OBVIOUS
  <2>1. CASE call'[c] = call[c]
    BY <2>1, DoneStays DEF At
  <2>2. CASE call[c].pc = "wheelStop" /\ WheelStop(c)
    <3>1. call'[c].pc \in {"idle", "wait"}
      BY <2>2 DEF WheelStop, Answers, Idle, ServiceType, Call
    <3> QED BY <2>2, <3>1 DEF At
  <2>3. CASE call[c].pc = "wait" /\ StopReturns(c)
    BY <2>3 DEF StopReturns, Answers, Idle, ServiceType
  <2> QED BY <2>1, <2>2, <2>3, StopMoves DEF At
<1>2. Inv /\ Stopping /\ <<Next /\ CallStep(c)>>_vars => Waiting' \/ Released' \/ Over'
  <2> SUFFICES ASSUME Inv, Stopping, CallStep(c) PROVE call'[c].pc \in {"idle", "wait"}
    BY DEF At
  <2>1. WheelStop(c)
    BY DEF CallStep, WheelStart, ListJobs, StartReturns, LoadJob, StopReturns, At
  <2> QED BY <2>1 DEF WheelStop, Answers, Idle, ServiceType, Call
<1>3. Inv /\ Released /\ <<Next /\ CallStep(c)>>_vars => Over'
  <2> SUFFICES ASSUME Inv, Released, CallStep(c) PROVE Over'
    OBVIOUS
  <2>1. StopReturns(c)
    BY DEF CallStep, WheelStart, ListJobs, StartReturns, LoadJob, WheelStop, At
  <2> QED BY <2>1 DEF StopReturns, Answers, Idle, ServiceType
<1>4. Inv /\ Waiting /\ <<Next /\ LoopLeaves>>_vars => Released' \/ Over'
  BY DEF LoopLeaves, Wheel!LoopExit, serviceVars, At
<1>5. Inv /\ Waiting => ~crashed /\ loops > 0 /\ stopClosed
  BY DEF WaitInv, At
<1>6. /\ Stopping \/ Released => (StopEnabled(c) => ENABLED <<CallStep(c)>>_vars)
      /\ ~crashed /\ loops > 0 /\ stopClosed => (LoopEnabled => ENABLED <<LoopLeaves>>_vars)
  BY DEF StopEnabled, LoopEnabled
<1>7. call[c].pc \in {"wheelStop", "wait"} => Stopping \/ Waiting \/ Released \/ Over
  BY DEF At
<1> QED
  BY <1>1, <1>2, <1>3, <1>4, <1>5, <1>6, <1>7, WheelInvHolds, ServiceTyping, WaitInvHolds, PTL
     DEF Spec, CallFairness, LoopFairness, StopsReturn

THEOREM EveryStopReturns == FairSpec /\ []StepsEnabled => \A c \in Callers : StopsReturn(c)
<1>1. ASSUME NEW c \in Callers PROVE FairSpec /\ []StepsEnabled => StopsReturn(c)
  <2>1. Fairness => CallFairness(c) /\ LoopFairness
    BY DEF Fairness
  <2>2. StepsEnabled => StopEnabled(c) /\ LoopEnabled
    BY DEF StepsEnabled
  <2> QED BY <2>1, <2>2, OneStopReturns, PTL DEF FairSpec
<1> QED BY <1>1

-----------------------------------------------------------------------------
(* Whatever calls of Start and Stop run, a job that a Start or a callback has *)
(* put in the wheel fires at the first tick at which its delay has passed.    *)
THEOREM ServiceIsATimer == Spec => WheelFacts!RefinesTimer
<1> USE WheelAssumption, NilAssumption
<1>1. {} \subseteq Int
  OBVIOUS
<1>2. Nil \notin WheelFacts!Task
  BY DEF Wheel!Task, WheelFacts!Task
<1>3. WheelFacts!NoFullTurn
  BY DEF WheelFacts!NoFullTurn
<1>4. WheelFacts!Spec => WheelFacts!RefinesTimer
  BY <1>1, <1>2, <1>3, WheelFacts!Refinement
<1> QED BY <1>4, Composition, SameWheel, PTL
=============================================================================
