----------------------------- MODULE CronSchedule -----------------------------
(***************************************************************************)
(* When the nodes of a cluster trigger one running job: cron occurrences   *)
(* (pkg/cron), the delay handed to the wheel, the wheel's rounding to its  *)
(* ticks, the trigger lock and the re-scheduling after each firing.        *)
(*                                                                         *)
(* All nodes read the same clock, in some unit; their wheels have the same *)
(* interval but tick at different phases, as they were started at          *)
(* different times.  Occurrences are the multiples of Period.  Making and  *)
(* taking the lock, and giving it back, may fail.  Assumed of the          *)
(* environment: every tick is processed on time, a callback asks for the   *)
(* lock at the tick that fires it, no trigger panics or outlasts the       *)
(* lock's TTL, and no node stops.                                          *)
(***************************************************************************)
EXTENDS Integers

CONSTANTS
  Nodes,
  Interval,   \* length of a tick
  Period,     \* distance of two occurrences of the job's cron expression
  RunTimes,   \* how long a trigger may take
  TTL,        \* when the key of the lock expires after it was set
  MaxTime,    \* bound: where the clock stops
  Nil,
  Lost        \* the record of a lock that nobody will give back

ASSUME IntervalAssumption == Interval \in Nat \ {0}
ASSUME PeriodAssumption   == Period \in Nat \ {0}
ASSUME RunTimesAssumption == TTL \in Nat \ {0} /\ RunTimes \subseteq 0 .. TTL
ASSUME BoundAssumption    == MaxTime \in Nat
ASSUME NilAssumption      == Nil # Lost /\ {Nil, Lost} \cap Nodes = {}

VARIABLES
  clock,
  phase,    \* phase[n]: the wheel of n ticks at phase[n] + k * Interval
  pc,       \* pc[n]: "down", "waiting" in the wheel, "running" its trigger or "skipped"
  for,      \* for[n]: the occurrence n waits for, or fired for
  at,       \* at[n]: when the entry of n fires, or when its trigger ends
  lock,     \* the node that holds the trigger lock, Lost or Nil
  until,    \* when the key of the lock expires, 0 if it is not set
  done,     \* history: the occurrences triggered
  doubled,  \* history: the occurrences triggered more than once
  brief,    \* history: the occurrences some trigger of which took less than two ticks
  failed,   \* history: the occurrences not triggered by a node as its call of
            \*   the lock failed, or met the key that a failed call had left
  missed    \* history: the nodes that were re-scheduled past an occurrence

lockVars == <<lock, until>>
history  == <<done, doubled, brief, failed>>
vars == <<clock, phase, pc, for, at, lockVars, history, missed>>

-----------------------------------------------------------------------------
\* Mutant of NextRun: counted from now, not on the grid of the expression.
NextRunFromNow(time) == time + Period

(* NextRun: the first occurrence after a time, not at it.  NextDelay is then *)
(* never 0, and its minDelay is not used.                                    *)
NextRun(time) == Period * (time \div Period + 1)

NextDelay(time) == NextRun(time) - time

(* The delay in ticks, rounded up. *)
DurationToTicks(d) ==
  IF d <= 0 THEN 1 ELSE (d \div Interval) + (IF d % Interval # 0 THEN 1 ELSE 0)

\* The first tick of n after a time.
NextTick(n, time) == time + Interval - ((time - phase[n]) % Interval)

\* Mutants of DueTime: the running tick is taken for a whole one; a tick too many.
DueTimeEarly(n, delay) == NextTick(n, clock) + Interval * (DurationToTicks(delay) - 1)
DueTimeLate(n, delay) == NextTick(n, clock) + Interval * (DurationToTicks(delay) + 1)

\* The tick at which a wheel fires an entry it is given now (see DeadlineTimer).
DueTime(n, delay) == NextTick(n, clock) + Interval * DurationToTicks(delay)

Init ==
  /\ clock = 0
  /\ phase \in [Nodes -> 0 .. Interval - 1]
  /\ pc = [n \in Nodes |-> "down"]
  /\ for = [n \in Nodes |-> 0]
  /\ at = [n \in Nodes |-> 0]
  /\ lock = Nil /\ until = 0
  /\ done = {} /\ doubled = {} /\ brief = {} /\ failed = {}
  /\ missed = {}

-----------------------------------------------------------------------------
(* ScheduleJob with time.Now(). *)
Schedule(n) ==
  /\ pc' = [pc EXCEPT ![n] = "waiting"]
  /\ for' = [for EXCEPT ![n] = NextRun(clock)]
  /\ at' = [at EXCEPT ![n] = DueTime(n, NextDelay(clock))]

(* Start loads the job into the wheel of a node. *)
Load(n) ==
  /\ pc[n] = "down"
  /\ Schedule(n)
  /\ UNCHANGED <<clock, phase, lockVars, history, missed>>

\* n triggers the job, which takes it some time.
Trigger(n) ==
  /\ pc' = [pc EXCEPT ![n] = "running"]
  /\ lock' = n /\ until' = clock + TTL
  /\ done' = done \cup {for[n]}
  /\ doubled' = doubled \cup (done \cap {for[n]})
  /\ \E d \in RunTimes :
       /\ at' = [at EXCEPT ![n] = clock + d]
       /\ brief' = IF d < 2 * Interval THEN brief \cup {for[n]} ELSE brief
  /\ UNCHANGED failed

\* n does not; whether that is a failure depends on the lock.
Skip(n, failure) ==
  /\ pc' = [pc EXCEPT ![n] = "skipped"]
  /\ failed' = IF failure THEN failed \cup {for[n]} ELSE failed
  /\ UNCHANGED <<at, done, doubled, brief>>

\* Mutant of Fire: the lock is not asked for.
FireUnlocked(n) ==
  /\ pc[n] = "waiting" /\ clock = at[n]
  /\ Trigger(n)
  /\ UNCHANGED <<clock, phase, for, missed>>

(* The entry fires: the callback triggers the job if it gets the lock. *)
Fire(n) ==
  /\ pc[n] = "waiting" /\ clock = at[n]
  /\ \/ lock = Nil /\ Trigger(n)
     \/ lock # Nil /\ Skip(n, lock = Lost) /\ UNCHANGED lockVars
  /\ UNCHANGED <<clock, phase, for, missed>>

(* The entry fires, and making or taking the lock is answered with an error: *)
(* no trigger.  The server may have set the key for all that.                *)
LockFails(n) ==
  /\ pc[n] = "waiting" /\ clock = at[n]
  /\ Skip(n, TRUE)
  /\ \/ UNCHANGED lockVars
     \/ lock = Nil /\ lock' = Lost /\ until' = clock + TTL
  /\ UNCHANGED <<clock, phase, for, missed>>

\* Redis drops the key that nobody gave back.
Expire ==
  /\ lock = Lost /\ clock = until
  /\ lock' = Nil /\ until' = 0
  /\ UNCHANGED <<clock, phase, pc, for, at, history, missed>>

\* Mutant of Rearm: the lock is kept.
RearmLocked(n) ==
  /\ pc[n] \in {"running", "skipped"} /\ clock = at[n]
  /\ Schedule(n)
  /\ missed' = IF NextRun(clock) = for[n] + Period THEN missed ELSE missed \cup {n}
  /\ UNCHANGED <<clock, phase, lockVars, history>>

(* The trigger ends: unlock, whose error is ignored, then ScheduleJob with   *)
(* the time it is now.                                                       *)
Rearm(n) ==
  /\ pc[n] \in {"running", "skipped"} /\ clock = at[n]
  /\ IF pc[n] = "running"
       THEN \/ lock' = Nil /\ until' = 0
            \/ lock' = Lost /\ UNCHANGED until
       ELSE UNCHANGED lockVars
  /\ Schedule(n)
  /\ missed' = IF NextRun(clock) = for[n] + Period THEN missed ELSE missed \cup {n}
  /\ UNCHANGED <<clock, phase, history>>

(* Time passes, but not past what is due. *)
Pass ==
  /\ clock < MaxTime
  /\ \A n \in Nodes : pc[n] # "down" => clock < at[n]
  /\ lock = Lost => clock < until
  /\ clock' = clock + 1
  /\ UNCHANGED <<phase, pc, for, at, lockVars, history, missed>>

Next ==
  \/ \E n \in Nodes : Load(n) \/ Fire(n) \/ LockFails(n) \/ Rearm(n)
  \/ Expire \/ Pass

Spec == Init /\ [][Next]_vars

-----------------------------------------------------------------------------
Occurrences == {time \in Nat : time % Period = 0}

TypeOK ==
  /\ clock \in Nat
  /\ phase \in [Nodes -> 0 .. Interval - 1]
  /\ pc \in [Nodes -> {"down", "waiting", "running", "skipped"}]
  /\ for \in [Nodes -> Occurrences]
  /\ at \in [Nodes -> Nat]
  /\ lock \in Nodes \cup {Nil, Lost}
  /\ until \in Nat
  /\ done \subseteq Occurrences
  /\ doubled \subseteq Occurrences
  /\ brief \subseteq Occurrences
  /\ failed \subseteq Occurrences
  /\ missed \in SUBSET Nodes

(* A job fires after its occurrence, never before or at it, and less than    *)
(* two ticks after: the rounding up of the delay and the tick that was       *)
(* already running when the entry was added.                                 *)
FiresOnTime ==
  \A n \in Nodes :
    pc[n] = "waiting" => for[n] < at[n] /\ at[n] < for[n] + 2 * Interval

(* Every occurrence is triggered by one node only ("TestScheduleService_-    *)
(* DistributedLockAvoidsDuplicateTrigger", schedule_service_test.go, line    *)
(* 217).                                                                     *)
OncePerOccurrence == doubled = {}

(* The lock de-duplicates long triggers, but not brief ones: an occurrence   *)
(* is triggered a second time only if one of its triggers took less than two *)
(* ticks, which is more than the nodes' firings for it are ever apart.       *)
OnlyBriefTriggersRepeat == doubled \subseteq brief

(* A node that is refused the lock can rely on the occurrence being          *)
(* triggered by the node that holds it, not on an earlier one still running, *)
(* but for those at which a call of the lock failed.                         *)
SkippedIsCovered == \A n \in Nodes : pc[n] = "skipped" => for[n] \in done \cup failed

(* Once the cluster has triggered the job, no occurrence is left out: each    *)
(* later one is triggered by some node less than two ticks after it, also    *)
(* when the nodes were started at different times and refuse each other the  *)
(* lock; unless a node's call of the lock for it failed, or met the key left *)
(* by one that did.                                                          *)
EveryOccurrenceTriggered ==
  \A o \in done : \A next \in o .. clock - 2 * Interval :
    next % Period = 0 => next \in done \cup failed

(* A node is never re-scheduled past an occurrence.                          *)
NoOccurrenceMissed == missed = {}

-----------------------------------------------------------------------------
\* What the last three need: a trigger (or none) fits between two occurrences.
RunsFit == \A d \in RunTimes \cup {0} : 2 * Interval + d <= Period

-----------------------------------------------------------------------------
\* How many ticks of n there are after time 0 and up to a time.
TickNo(n, time) ==
  ((time - phase[n]) \div Interval) - ((0 - phase[n]) \div Interval)

\* The wheel of n as a DeadlineTimer of one job, n's entry; a run of it lasts
\* until the callback asks for the lock.
Timer(n) == INSTANCE DeadlineTimer
  WITH Jobs <- {n},
       DelayTicks <- {DurationToTicks(d) : d \in 1 .. Period}, PeriodTicks <- {},
       due <- [m \in {n} |-> IF pc[n] = "waiting" /\ clock < at[n] THEN TickNo(n, at[n]) ELSE 0],
       period <- [m \in {n} |-> 0],
       launched <- [m \in {n} |-> IF pc[n] = "waiting" /\ clock = at[n] THEN 1 ELSE 0],
       now <- TickNo(n, clock)

(* Every node's entries fire at the tick the wheel gives them: DueTime is what *)
(* TimeWheel is shown to implement.                                          *)
RefinesTimer ==
  /\ \A n \in Nodes : Timer(n)!Init
  /\ [][\A n \in Nodes : [Timer(n)!Next]_(Timer(n)!vars)]_vars

LockLease == INSTANCE Lease
               WITH Clients <- Nodes, Nobody <- Nil,
                    owner <- lock, relying <- {n \in Nodes : pc[n] = "running"}

(* The trigger lock is used as RedisLock gives it.                           *)
RefinesLease == LockLease!Spec
=============================================================================
