------------------------------ MODULE TimeWheel ------------------------------
(***************************************************************************)
(* The hashed timing wheel of pkg/timer/time_wheel.go.                     *)
(*                                                                         *)
(* Every method runs under tw.mu, so a method is one action, except Stop,  *)
(* which unlocks before it waits for the loop goroutine to close doneCh.   *)
(* The loop goroutine takes a tick or leaves; a launched callback is a     *)
(* goroutine of its own that runs at any later time.                       *)
(*                                                                         *)
(* Durations are integers in some unit; Interval is the wheel's interval   *)
(* in that unit.  `now` is a history variable, the number of ticks the     *)
(* loop has processed: no guard but the bound MaxTicks reads it.           *)
(***************************************************************************)
EXTENDS Integers

CONSTANTS
  Jobs,       \* the job ids (the empty id is refused by addTask)
  SlotNum,    \* number of slots
  Interval,   \* length of a tick
  Delays,     \* delays passed to AddJob
  Periods,    \* intervals passed to AddRecurringJob
  MaxTicks,   \* bound: how many ticks a behaviour may process
  Nil         \* a missing map entry

ASSUME SlotNumAssumption  == SlotNum \in Nat \ {0}
ASSUME IntervalAssumption == Interval \in Nat \ {0}
ASSUME InputAssumption    == Delays \subseteq Int /\ Periods \subseteq Int
ASSUME BoundAssumption    == MaxTicks \in Nat

Pos == 0 .. SlotNum - 1

\* A task object.  Its callback is identified by the job id it is stored under.
Task == [rounds : Nat, interval : Int, recurring : BOOLEAN, cancelled : BOOLEAN]

ASSUME NilAssumption == Nil \notin Task /\ Nil \notin Int

VARIABLES
  slots,       \* slots[p][j]: the task stored for j in slot p, or Nil
  taskIndex,   \* taskIndex[j]: the slot the index names for j, or Nil
  currentPos,  \* the slot the next tick processes
  running,
  stopClosed,  \* stopCh is closed; both channels are made once, by NewTimeWheel
  doneClosed,  \* doneCh is closed
  loops,       \* number of live loop goroutines
  stopper,     \* the last caller of Stop: "none", "waiting" or "returned"
  launched,    \* launched[j]: callbacks of j started by a tick and not finished
  crashed,     \* an unrecovered panic has ended the process
  now          \* history: ticks processed

wheelVars == <<slots, taskIndex, currentPos>>
lifeVars  == <<running, stopClosed, doneClosed, loops, stopper, crashed>>
vars      == <<wheelVars, lifeVars, launched, now>>

-----------------------------------------------------------------------------
(* durationToTicks: rounded up to whole ticks, and never less than one.     *)
DurationToTicks(d) ==
  IF d <= 0 THEN 1
  ELSE (d \div Interval) + (IF d % Interval # 0 THEN 1 ELSE 0)

\* Where and with how many rounds a task of that many ticks is stored.
SlotAfterUnwrapped(ticks) == currentPos + ticks              \* mutant of SlotAfter

SlotAfter(ticks)   == (currentPos + ticks) % SlotNum
RoundsAfter(ticks) == ticks \div SlotNum

Init ==
  /\ slots = [p \in Pos |-> [j \in Jobs |-> Nil]]
  /\ taskIndex = [j \in Jobs |-> Nil]
  /\ currentPos = 0
  /\ running = FALSE /\ stopClosed = FALSE /\ doneClosed = FALSE
  /\ loops = 0
  /\ stopper = "none"
  /\ launched = [j \in Jobs |-> 0]
  /\ crashed = FALSE
  /\ now = 0

-----------------------------------------------------------------------------
(* Start.  A wheel that was stopped is started again on its closed channels. *)
Start ==
  /\ ~crashed /\ ~running
  /\ running' = TRUE
  /\ loops' = loops + 1
  /\ UNCHANGED <<wheelVars, stopClosed, doneClosed, stopper, crashed, launched, now>>

(* Mutant of StopBegin: it closes doneCh too, which is the loop's to close. *)
StopClosesBoth ==
  /\ ~crashed /\ running
  /\ stopClosed' = TRUE /\ doneClosed' = TRUE
  /\ running' = FALSE
  /\ stopper' = "waiting"
  /\ crashed' = stopClosed
  /\ UNCHANGED <<wheelVars, loops, launched, now>>

(* Stop up to its unlock.  Closing a closed channel panics. *)
StopBegin ==
  /\ ~crashed /\ running
  /\ IF stopClosed
       THEN /\ crashed' = TRUE
            /\ UNCHANGED <<running, stopClosed, stopper>>
       ELSE /\ stopClosed' = TRUE
            /\ running' = FALSE
            /\ stopper' = "waiting"
            /\ UNCHANGED crashed
  /\ UNCHANGED <<wheelVars, doneClosed, loops, launched, now>>

(* Mutant of StopReturn: Stop does not wait for the loop. *)
StopReturnAtOnce ==
  /\ ~crashed /\ stopper = "waiting"
  /\ stopper' = "returned"
  /\ UNCHANGED <<wheelVars, running, stopClosed, doneClosed, loops, crashed, launched, now>>

(* <-tw.doneCh, after which Stop returns nil. *)
StopReturn ==
  /\ ~crashed /\ stopper = "waiting" /\ doneClosed
  /\ stopper' = "returned"
  /\ UNCHANGED <<wheelVars, running, stopClosed, doneClosed, loops, crashed, launched, now>>

(* Mutant of LoopExit: the loop leaves without close(doneCh). *)
LoopExitSilently ==
  /\ ~crashed /\ loops > 0 /\ stopClosed
  /\ loops' = loops - 1
  /\ UNCHANGED <<wheelVars, running, stopClosed, doneClosed, stopper, crashed, launched, now>>

(* The loop goroutine chooses stopCh and runs its deferred close(doneCh). *)
LoopExit ==
  /\ ~crashed /\ loops > 0 /\ stopClosed
  /\ loops' = loops - 1
  /\ doneClosed' = TRUE
  /\ crashed' = doneClosed
  /\ UNCHANGED <<wheelVars, running, stopClosed, stopper, launched, now>>

-----------------------------------------------------------------------------
(* addTask, for a delay that is not negative and an id that is not indexed. *)
AddTask(j, delay, recurring, interval) ==
  /\ ~crashed
  /\ delay >= 0
  /\ running
  /\ taskIndex[j] = Nil
  /\ LET ticks == DurationToTicks(delay)
         task  == [rounds |-> RoundsAfter(ticks), interval |-> interval,
                   recurring |-> recurring, cancelled |-> FALSE]
     IN /\ slots' = [slots EXCEPT ![SlotAfter(ticks)][j] = task]
        /\ taskIndex' = [taskIndex EXCEPT ![j] = SlotAfter(ticks)]
  /\ UNCHANGED <<currentPos, lifeVars, launched, now>>

AddJob(j, delay) == AddTask(j, delay, FALSE, 0)

AddRecurringJob(j, interval) ==
  /\ interval > 0
  /\ AddTask(j, interval, TRUE, interval)

(* Mutant of RemoveJob: the task stays in its slot. *)
RemoveJobFromIndex(j) ==
  /\ ~crashed
  /\ taskIndex[j] # Nil
  /\ taskIndex' = [taskIndex EXCEPT ![j] = Nil]
  /\ UNCHANGED <<slots, currentPos, lifeVars, launched, now>>

(* RemoveJob, for an indexed id.  The task object it marks cancelled is the *)
(* one it deletes from the slot, so the mark outlives it nowhere.           *)
RemoveJob(j) ==
  /\ ~crashed
  /\ taskIndex[j] # Nil
  /\ slots' = [slots EXCEPT ![taskIndex[j]][j] = Nil]
  /\ taskIndex' = [taskIndex EXCEPT ![j] = Nil]
  /\ UNCHANGED <<currentPos, lifeVars, launched, now>>

-----------------------------------------------------------------------------
(* tick: the tasks of the current slot are dropped, counted down or fired,  *)
(* and a recurring one is stored again before the position advances.        *)
Stored(j)    == slots[currentPos][j] # Nil
Cancelled(j) == Stored(j) /\ slots[currentPos][j].cancelled
Expired(j)   == Stored(j) /\ ~Cancelled(j) /\ slots[currentPos][j].rounds = 0
Renewed(j)   == Expired(j) /\ slots[currentPos][j].recurring
\* Mutant of RenewTicks: a tick is added, as if the current one were not over.
RenewTicksLate(j) == DurationToTicks(slots[currentPos][j].interval) + 1

RenewTicks(j) == DurationToTicks(slots[currentPos][j].interval)

\* A task stored again in the very map the loop ranges over: Go may or may
\* not visit the new entry in the same loop.
MayBeRevisited == {j \in Jobs : Renewed(j) /\ SlotAfter(RenewTicks(j)) = currentPos}

SlotEntryAfterTick(p, j, revisited) ==
  IF Renewed(j) /\ p = SlotAfter(RenewTicks(j))
    THEN [slots[currentPos][j] EXCEPT !.rounds =
            RoundsAfter(RenewTicks(j)) - (IF j \in revisited THEN 1 ELSE 0)]
  ELSE IF p # currentPos \/ ~Stored(j) THEN slots[p][j]
  ELSE IF Cancelled(j) \/ Expired(j) THEN Nil
  ELSE [slots[p][j] EXCEPT !.rounds = @ - 1]

IndexAfterTick(j) ==
  IF Renewed(j) THEN SlotAfter(RenewTicks(j))
  ELSE IF Cancelled(j) \/ Expired(j) THEN Nil
  ELSE taskIndex[j]

Tick ==
  /\ ~crashed /\ loops > 0
  /\ now < MaxTicks
  /\ \E revisited \in SUBSET MayBeRevisited :
       slots' = [p \in Pos |-> [j \in Jobs |-> SlotEntryAfterTick(p, j, revisited)]]
  /\ taskIndex' = [j \in Jobs |-> IndexAfterTick(j)]
  /\ launched' = [j \in Jobs |-> launched[j] + (IF Expired(j) THEN 1 ELSE 0)]
  /\ currentPos' = (currentPos + 1) % SlotNum
  /\ now' = now + 1
  /\ UNCHANGED lifeVars

(* safeRun: the callback returns, or panics and the panic is recovered. *)
RunCallback(j) ==
  /\ ~crashed /\ launched[j] > 0
  /\ launched' = [launched EXCEPT ![j] = @ - 1]
  /\ UNCHANGED <<wheelVars, lifeVars, now>>

-----------------------------------------------------------------------------
Next ==
  \/ Start \/ StopBegin \/ StopReturn \/ LoopExit \/ Tick
  \/ \E j \in Jobs :
       \/ \E d \in Delays : AddJob(j, d)
       \/ \E d \in Periods : AddRecurringJob(j, d)
       \/ RemoveJob(j)
       \/ RunCallback(j)

Spec == Init /\ [][Next]_vars

-----------------------------------------------------------------------------
TypeOK ==
  /\ slots \in [Pos -> [Jobs -> Task \cup {Nil}]]
  /\ taskIndex \in [Jobs -> Pos \cup {Nil}]
  /\ currentPos \in Pos
  /\ running \in BOOLEAN /\ stopClosed \in BOOLEAN /\ doneClosed \in BOOLEAN
  /\ loops \in Nat
  /\ stopper \in {"none", "waiting", "returned"}
  /\ launched \in [Jobs -> Nat]
  /\ crashed \in BOOLEAN
  /\ now \in Nat

(* The index and the slot maps always name the same place: a job sits in at *)
(* most the one slot taskIndex gives, and no stored task is cancelled, so   *)
(* RemoveJob misses nothing and the cancelled branch of tick is dead code.  *)
IndexAgrees ==
  \A j \in Jobs, p \in Pos :
    /\ slots[p][j] # Nil <=> taskIndex[j] = p
    /\ slots[p][j] # Nil => ~slots[p][j].cancelled

(* The tick at which the task of j fires, read off its slot and its rounds. *)
Distance(p) == IF p >= currentPos THEN p - currentPos ELSE p - currentPos + SlotNum

DueAt(p, j) == now + 1 + Distance(p) + slots[p][j].rounds * SlotNum

Due == [j \in Jobs |->
          IF taskIndex[j] = Nil THEN 0 ELSE DueAt(taskIndex[j], j)]

Period == [j \in Jobs |->
             IF taskIndex[j] = Nil \/ ~slots[taskIndex[j]][j].recurring THEN 0
             ELSE DurationToTicks(slots[taskIndex[j]][j].interval)]

(* "Stop gracefully stops the wheel and waits for loop exit" (line 96): once *)
(* Stop has returned, and unless Start was called again, no loop goroutine   *)
(* is left to process a tick.                                                *)
StopWaitsForLoop == (stopper = "returned" /\ ~running /\ ~crashed) => loops = 0

(* A recurring task is never further from its next run than its interval and *)
(* the part of a tick that was already running when it was added.            *)
RecurringWithinInterval ==
  \A j \in Jobs : Period[j] > 0 => Due[j] <= now + 1 + Period[j]

(* Start and Stop answer a call in the wrong state with an error (lines 80   *)
(* and 96).  They close a channel twice, and panic, only when Start has been *)
(* called on a wheel that was stopped.                                       *)
PanicNeedsRestart == crashed => stopClosed /\ running

-----------------------------------------------------------------------------
\* No recurring interval is a whole number of turns of the wheel.
NoFullTurn == \A d \in Periods : DurationToTicks(d) % SlotNum # 0

\* What the wheel promises: see DeadlineTimer.
Timer == INSTANCE DeadlineTimer
           WITH due <- Due, period <- Period,
                DelayTicks  <- {DurationToTicks(d) : d \in Delays},
                PeriodTicks <- {DurationToTicks(d) : d \in Periods}

(* Every accepted job fires at the first tick at which its whole delay has   *)
(* passed, once, unless removed before; a recurring one every interval.      *)
RefinesTimer == Timer!Spec
=============================================================================
