---------------------------- MODULE DeadlineTimer ----------------------------
(***************************************************************************)
(* What a timer with a tick promises, without slots, rounds or positions:  *)
(* every job carries the number of the tick at which it fires.  A delay of *)
(* k ticks given after tick `now` is over, in real time, only by tick      *)
(* now + k + 1, because part of the running tick has already gone by.      *)
(***************************************************************************)
EXTENDS Integers

CONSTANTS
  Jobs,
  DelayTicks,   \* delays of one-time jobs, in ticks
  PeriodTicks   \* intervals of recurring jobs, in ticks

VARIABLES
  due,       \* due[j]: the tick at which j fires, 0 when j is not scheduled
  period,    \* period[j]: ticks between two runs of a recurring j, else 0
  launched,  \* launched[j]: runs of j that have begun and not ended
  now        \* the ticks that have passed

vars == <<due, period, launched, now>>

Init ==
  /\ due = [j \in Jobs |-> 0]
  /\ period = [j \in Jobs |-> 0]
  /\ launched = [j \in Jobs |-> 0]
  /\ now = 0

Schedule(j, ticks, every) ==
  /\ due[j] = 0
  /\ due' = [due EXCEPT ![j] = now + ticks + 1]
  /\ period' = [period EXCEPT ![j] = every]
  /\ UNCHANGED <<launched, now>>

Cancel(j) ==
  /\ due[j] # 0
  /\ due' = [due EXCEPT ![j] = 0]
  /\ period' = [period EXCEPT ![j] = 0]
  /\ UNCHANGED <<launched, now>>

\* One tick: exactly the jobs due at it begin a run.
Advance ==
  /\ now' = now + 1
  /\ launched' = [j \in Jobs |-> launched[j] + (IF due[j] = now' THEN 1 ELSE 0)]
  /\ due' = [j \in Jobs |->
               IF due[j] # now' THEN due[j]
               ELSE IF period[j] = 0 THEN 0
               ELSE now' + period[j]]
  /\ UNCHANGED period

Finish(j) ==
  /\ launched[j] > 0
  /\ launched' = [launched EXCEPT ![j] = @ - 1]
  /\ UNCHANGED <<due, period, now>>

Next ==
  \/ Advance
  \/ \E j \in Jobs :
       \/ Cancel(j)
       \/ Finish(j)
       \/ \E ticks \in DelayTicks : Schedule(j, ticks, 0)
       \/ \E ticks \in PeriodTicks : Schedule(j, ticks, ticks)

Spec == Init /\ [][Next]_vars
=============================================================================
