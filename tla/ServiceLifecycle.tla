-------------------------- MODULE ServiceLifecycle --------------------------
(***************************************************************************)
(* Start and Stop of ScheduleService over the time wheel it drives.        *)
(*                                                                         *)
(* s.mu guards the flag `started` and is unlocked before the wheel is      *)
(* started or stopped and before the running jobs are read and put into    *)
(* it one by one, so calls of several goroutines interleave between those  *)
(* steps, with each other, with the wheel's loop and with its callbacks.   *)
(* The wheel's own steps are those of TimeWheel.                           *)
(***************************************************************************)
EXTENDS Integers

CONSTANTS
  Callers,    \* goroutines that call Start and Stop
  Jobs,       \* ids of jobs
  BadJobs,    \* those whose cron expression NextDelay refuses
  SlotNum, Interval, Delays,   \* of the wheel, and what NextDelay gives
  MaxStarts,  \* bound: how many Starts may take the flag
  MaxTicks,   \* bound: how many ticks the wheel may process
  Nil

ASSUME BadJobsAssumption == BadJobs \subseteq Jobs
ASSUME WheelAssumption ==
  /\ SlotNum \in Nat \ {0} /\ Interval \in Nat \ {0}
  /\ Delays \subseteq Int /\ MaxTicks \in Nat

VARIABLES
  slots, taskIndex, currentPos, running, stopClosed, doneClosed, loops, stopper,
  launched, crashed, now,   \* of TimeWheel
  started,   \* the service's flag
  call,      \* call[c]: the call of c that is in progress, or Idle
  rearmed,   \* rearmed[j]: launched callbacks of j that have put j back and not ended
  starts,    \* history: Starts that have taken the flag
  orderly,   \* history: no call began while another one was in progress
  promised,  \* history: the jobs an answered Start is to have scheduled
  panicked   \* history: the jobs of which a trigger has panicked

Wheel == INSTANCE TimeWheel WITH Periods <- {}

ASSUME NilAssumption == Nil \notin Wheel!Task /\ Nil \notin Int

wheelVars   == <<slots, taskIndex, currentPos, running, stopClosed, doneClosed, loops,
                 stopper, launched, crashed, now>>
serviceVars == <<started, call, rearmed, starts, orderly, promised,
                 panicked>>
vars        == <<wheelVars, serviceVars>>

Idle == [pc |-> "idle", listed |-> {}, todo |-> {}, failed |-> FALSE, live |-> TRUE]

Init ==
  /\ Wheel!Init
  /\ started = FALSE
  /\ call = [c \in Callers |-> Idle]
  /\ rearmed = [j \in Jobs |-> 0]
  /\ starts = 0
  /\ orderly = TRUE
  /\ promised = {}
  /\ panicked = {}

At(c, pc) == ~crashed /\ call[c].pc = pc

\* c takes the flag over.  A call that finds the flag as it wants it answers
\* nil at once and changes nothing.
Begins(c, pc) ==
  /\ At(c, "idle")
  /\ started' = ~started
  /\ call' = [call EXCEPT ![c].pc = pc]
  /\ orderly' = (orderly /\ \A d \in Callers : call[d].pc = "idle")

Answers(c) == call' = [call EXCEPT ![c] = Idle]

-----------------------------------------------------------------------------
(* Start: the flag, ... *)
StartCall(c) ==
  /\ ~started /\ starts < MaxStarts
  /\ Begins(c, "wheelStart")
  /\ starts' = starts + 1
  /\ UNCHANGED <<wheelVars, rearmed, promised, panicked>>

(* ... timeWheel.Start, which refuses a wheel that runs, ... *)
WheelStart(c) ==
  /\ At(c, "wheelStart")
  /\ \/ /\ running
        /\ Answers(c)
        /\ UNCHANGED wheelVars
     \/ /\ Wheel!Start
        /\ call' = [call EXCEPT ![c].pc = "list"]
  /\ UNCHANGED <<started, rearmed, starts, orderly, promised, panicked>>

(* ... and LoadRunningJobs: the running rows, or an error, ... *)
ListJobs(c) ==
  /\ At(c, "list")
  /\ \/ Answers(c)
     \/ \E js \in SUBSET Jobs :
          call' = [call EXCEPT ![c].pc = "load", ![c].listed = js, ![c].todo = js]
  /\ UNCHANGED <<wheelVars, started, rearmed, starts, orderly, promised, panicked>>

\* ScheduleJob adds j to the wheel; it refuses a cron expression it cannot
\* parse, and the wheel an id it holds and any id when it does not run.
Accepted(j) == j \notin BadJobs /\ \E d \in Delays : Wheel!AddJob(j, d)

Refused(j) == j \in BadJobs \/ ~running \/ taskIndex[j] # Nil

\* Mutant of LoadJob: the first job that fails ends the load.
LoadUntilFailure(c, j) ==
  /\ At(c, "load") /\ j \in call[c].todo
  /\ \/ /\ call[c].live /\ Accepted(j)
        /\ call' = [call EXCEPT ![c].todo = @ \ {j}]
     \/ /\ ~call[c].live \/ Refused(j)
        /\ call' = [call EXCEPT ![c].todo = {}, ![c].failed = TRUE]
        /\ UNCHANGED wheelVars
  /\ UNCHANGED <<started, rearmed, starts, orderly, promised, panicked>>

(* ... which loadJobsToWheel takes one by one; a job that fails, or finds    *)
(* the context done, does not keep the others from being tried.              *)
LoadJob(c, j) ==
  /\ At(c, "load") /\ j \in call[c].todo
  /\ \/ /\ call[c].live /\ Accepted(j)
        /\ call' = [call EXCEPT ![c].todo = @ \ {j}]
     \/ /\ ~call[c].live \/ Refused(j)
        /\ call' = [call EXCEPT ![c].todo = @ \ {j}, ![c].failed = TRUE]
        /\ UNCHANGED wheelVars
  /\ UNCHANGED <<started, rearmed, starts, orderly, promised, panicked>>

\* What Start owes its caller: on nil every job it has read, on an error all
\* but those that do not parse, unless its context was done.
Owed(c) == IF ~call[c].failed THEN call[c].listed
           ELSE IF call[c].live THEN call[c].listed \ BadJobs ELSE {}

\* Mutant of StartReturns: a failed load gives the flag back.
StartGivesBack(c) ==
  /\ At(c, "load") /\ call[c].todo = {}
  /\ Answers(c)
  /\ promised' = promised \cup Owed(c)
  /\ started' = (started /\ ~call[c].failed)
  /\ UNCHANGED <<wheelVars, rearmed, starts, orderly, panicked>>

StartReturns(c) ==
  /\ At(c, "load") /\ call[c].todo = {}
  /\ Answers(c)
  /\ promised' = promised \cup Owed(c)
  /\ UNCHANGED <<wheelVars, started, rearmed, starts, orderly, panicked>>

(* The caller's context ends. *)
ContextEnds(c) ==
  /\ At(c, "list") \/ At(c, "load")
  /\ call[c].live
  /\ call' = [call EXCEPT ![c].live = FALSE]
  /\ UNCHANGED <<wheelVars, started, rearmed, starts, orderly, promised, panicked>>

-----------------------------------------------------------------------------
(* Stop: the flag, ... *)
StopCall(c) ==
  /\ started
  /\ Begins(c, "wheelStop")
  /\ UNCHANGED <<wheelVars, rearmed, starts, promised, panicked>>

(* ... timeWheel.Stop, which refuses a wheel that does not run, ... *)
WheelStop(c) ==
  /\ At(c, "wheelStop")
  /\ \/ /\ ~running
        /\ Answers(c)
        /\ UNCHANGED wheelVars
     \/ /\ Wheel!StopBegin
        /\ call' = [call EXCEPT ![c].pc = "wait"]
  /\ UNCHANGED <<started, rearmed, starts, orderly, promised, panicked>>

\* Mutant of StopReturns: nobody waits for the loop.
StopDoesNotWait(c) ==
  /\ At(c, "wait")
  /\ Answers(c)
  /\ UNCHANGED <<wheelVars, started, rearmed, starts, orderly, promised, panicked>>

(* ... and its wait for the loop. *)
StopReturns(c) ==
  /\ At(c, "wait")
  /\ Wheel!StopReturn
  /\ Answers(c)
  /\ UNCHANGED <<started, rearmed, starts, orderly, promised, panicked>>

-----------------------------------------------------------------------------
(* The loop of the wheel. *)
Loop ==
  /\ Wheel!Tick \/ Wheel!LoopExit
  /\ UNCHANGED serviceVars

(* A callback of j has triggered and puts j back; ... *)
Rearm(j) ==
  /\ launched[j] > rearmed[j]
  /\ Accepted(j)
  /\ rearmed' = [rearmed EXCEPT ![j] = @ + 1]
  /\ UNCHANGED <<started, call, starts, orderly, promised, panicked>>

(* ... it ends when it has done so, or when ScheduleJob refuses. *)
CallbackEnds(j) ==
  /\ Wheel!RunCallback(j)
  /\ \/ /\ rearmed[j] > 0
        /\ rearmed' = [rearmed EXCEPT ![j] = @ - 1]
     \/ /\ launched[j] > rearmed[j] /\ Refused(j)
        /\ UNCHANGED rearmed
  /\ UNCHANGED <<started, call, starts, orderly, promised, panicked>>

(* A trigger panics: safeRun recovers it, and the callback ends without      *)
(* having put j back.                                                        *)
CallbackPanics(j) ==
  /\ launched[j] > rearmed[j]
  /\ Wheel!RunCallback(j)
  /\ panicked' = panicked \cup {j}
  /\ UNCHANGED <<started, call, rearmed, starts, orderly, promised>>

-----------------------------------------------------------------------------
CallStep(c) ==
  \/ WheelStart(c) \/ ListJobs(c) \/ StartReturns(c)
  \/ \E j \in Jobs : LoadJob(c, j)
  \/ WheelStop(c) \/ StopReturns(c)

Next ==
  \/ \E c \in Callers : StartCall(c) \/ StopCall(c) \/ ContextEnds(c) \/ CallStep(c)
  \/ \E j \in Jobs : Rearm(j) \/ CallbackEnds(j) \/ CallbackPanics(j)
  \/ Loop

Spec == Init /\ [][Next]_vars

\* A call goes on, and the loop takes its closed stopCh sooner or later.
CallFairness(c) == WF_vars(CallStep(c))
LoopLeaves      == Wheel!LoopExit /\ UNCHANGED serviceVars
LoopFairness    == WF_vars(LoopLeaves)

Fairness == (\A c \in Callers : CallFairness(c)) /\ LoopFairness

FairSpec == Spec /\ Fairness

-----------------------------------------------------------------------------
TypeOK ==
  /\ Wheel!TypeOK
  /\ started \in BOOLEAN /\ orderly \in BOOLEAN
  /\ call \in [Callers -> [pc : {"idle", "wheelStart", "list", "load", "wheelStop", "wait"},
                           listed : SUBSET Jobs, todo : SUBSET Jobs,
                           failed : BOOLEAN, live : BOOLEAN]]
  /\ rearmed \in [Jobs -> Nat]
  /\ starts \in Nat
  /\ promised \in SUBSET Jobs /\ panicked \in SUBSET Jobs

\* j is in the wheel, or a callback of it is still to put it back.
Held(j) == taskIndex[j] # Nil \/ launched[j] > rearmed[j]

(* What Start loads stays scheduled: until the wheel is stopped, every job   *)
(* of a Start that answered nil, and every one that parses of a Start that   *)
(* answered an error because of the others, is in the wheel or about to be   *)
(* put back, however ticks, callbacks and other calls run meanwhile.  Only a *)
(* trigger of its own that panics takes a job out of the schedule: safeRun   *)
(* recovers the panic above the call of ScheduleJob (time_wheel.go:251).     *)
LoadedJobsAreHeld == (~stopClosed /\ ~crashed) => \A j \in promised \ panicked : Held(j)

(* When calls do not overlap, the flag tells what the wheel does: after each *)
(* call, also one that failed, a started service has a running wheel, and a  *)
(* stopped one has no loop left that would fire a job.                       *)
FlagTellsWheel ==
  (orderly /\ ~crashed /\ \A c \in Callers : call[c].pc = "idle") =>
    /\ started <=> running
    /\ ~started => loops = 0

(* Whatever calls overlap, the wheel's channels are closed twice, and the    *)
(* process goes down, only in a service that was started twice.              *)
PanicNeedsTwoStarts == crashed => starts >= 2

(* Every call returns: none waits for a loop that is not there, or for       *)
(* another call.                                                             *)
CallsReturn ==
  \A c \in Callers : call[c].pc # "idle" ~> (call[c].pc = "idle" \/ crashed)
=============================================================================
