-------------------------- MODULE CronScheduleProofs --------------------------
(* Firing times and trigger de-duplication of CronSchedule, for any nodes,   *)
(* any wheel interval, any distance of the occurrences and any clock.        *)
EXTENDS CronSchedule, TLAPS

(* Division with a positive divisor. *)
LEMMA DivMod ==
  ASSUME NEW a \in Nat, NEW n \in Nat \ {0}
  PROVE  /\ a \div n \in Nat /\ a % n \in 0 .. n - 1
         /\ a = n * (a \div n) + (a % n)
  OBVIOUS

LEMMA ModRange ==
  ASSUME NEW a \in Int, NEW n \in Nat \ {0}
  PROVE  a % n \in 0 .. n - 1
  OBVIOUS

(* Multiples of n that are less than n apart are the same. *)
LEMMA SameMultiple ==
  ASSUME NEW n \in Nat \ {0}, NEW i \in Int, NEW j \in Int,
         n * i < n * j + n, n * j < n * i + n
  PROVE  i = j
<1>1. n * (j + 1) = n * j + n /\ n * (i + 1) = n * i + n
  OBVIOUS
<1>2. CASE i >= j + 1
  <2>1. n * i >= n * (j + 1)
    BY <1>2
  <2> QED BY <1>1, <2>1
<1>3. CASE j >= i + 1
  <2>1. n * j >= n * (i + 1)
    BY <1>3
  <2> QED BY <1>1, <2>1
<1> QED BY <1>2, <1>3

LEMMA MultipleHasNoRest ==
  ASSUME NEW n \in Nat \ {0}, NEW i \in Nat, n * i \in Nat
  PROVE  (n * i) % n = 0
<1> DEFINE a == n * i
           q == a \div n
           r == a % n
<1>1. q \in Nat /\ r \in 0 .. n - 1 /\ a = n * q + r
  BY DivMod
<1> HIDE DEF q, r
<1>2. n * q \in Int /\ n * i = n * q + r
  BY <1>1
<1>3. n * i < n * q + n /\ n * q < n * i + n
  BY <1>1, <1>2
<1>4. q = i
  BY <1>1, <1>3, SameMultiple
<1>5. r = 0
  BY <1>1, <1>2, <1>4
<1> QED BY <1>5 DEF r

-----------------------------------------------------------------------------
(* NextRun returns an occurrence that lies after the time it is given, at    *)
(* most one period after it.                                                 *)
LEMMA NextRunIsNext ==
  ASSUME NEW time \in Nat
  PROVE  /\ \E k \in Nat : NextRun(time) = Period * k
         /\ NextRun(time) \in Nat
         /\ NextRun(time) \in Occurrences
         /\ time < NextRun(time) /\ NextRun(time) <= time + Period
<1> DEFINE q == time \div Period
           r == time % Period
<1>1. q \in Nat /\ r \in 0 .. Period - 1 /\ time = Period * q + r
  BY PeriodAssumption, DivMod
<1>2. NextRun(time) = Period * (q + 1)
  BY DEF NextRun
<1> HIDE DEF q, r
<1>3. Period * (q + 1) = Period * q + Period /\ Period * q \in Int
  BY <1>1, PeriodAssumption
<1>4. \E k \in Nat : NextRun(time) = Period * k
  <2>1. q + 1 \in Nat
    BY <1>1
  <2> QED BY <1>2, <2>1
<1>5. NextRun(time) \in Nat /\ time < NextRun(time) /\ NextRun(time) <= time + Period
  <2> DEFINE w == Period * q
  <2>1. w \in Int /\ time = w + r /\ NextRun(time) = w + Period
    BY <1>1, <1>2, <1>3
  <2> HIDE DEF w
  <2> QED BY <1>1, <2>1, PeriodAssumption
<1>6. NextRun(time) \in Occurrences
  BY <1>4, <1>5, MultipleHasNoRest, PeriodAssumption DEF Occurrences
<1> QED BY <1>4, <1>5, <1>6

(* ... and the one that follows an occurrence, within its period. *)
LEMMA NextRunFollows ==
  ASSUME NEW time \in Nat, NEW k \in Nat,
         Period * k < time, time < Period * k + Period
  PROVE  NextRun(time) = Period * k + Period
<1>1. PICK j \in Nat : NextRun(time) = Period * j
  BY NextRunIsNext
<1>2. time < NextRun(time) /\ NextRun(time) <= time + Period
  BY NextRunIsNext
<1>3. Period * (k + 1) = Period * k + Period /\ Period * k \in Int /\ Period * j \in Int
  BY PeriodAssumption
<1>4. k + 1 = j
  <2>1. Period * (k + 1) < Period * j + Period /\ Period * j < Period * (k + 1) + Period
    BY <1>1, <1>2, <1>3, PeriodAssumption
  <2> QED BY <2>1, SameMultiple, PeriodAssumption
<1> QED BY <1>1, <1>3, <1>4

(* The wheel fires an entry after the occurrence its delay was computed for, *)
(* and less than two ticks after it.                                         *)
LEMMA DueAfterOccurrence ==
  ASSUME TypeOK, NEW n \in Nodes
  PROVE  LET due == DueTime(n, NextDelay(clock)) IN
           due \in Nat /\ NextRun(clock) < due /\ due < NextRun(clock) + 2 * Interval
<1> DEFINE delay == NextDelay(clock)
           q == delay \div Interval
           r == delay % Interval
           s == (clock - phase[n]) % Interval
<1>1. clock \in Nat /\ clock - phase[n] \in Int
  BY IntervalAssumption DEF TypeOK
<1>2. /\ NextRun(clock) \in Nat /\ delay \in Nat \ {0}
      /\ NextRun(clock) = clock + delay
  BY <1>1, NextRunIsNext DEF NextDelay
<1>3. q \in Nat /\ r \in 0 .. Interval - 1 /\ delay = Interval * q + r
  <2> HIDE DEF delay
  <2> QED BY <1>2, IntervalAssumption, DivMod
<1>4. s \in 0 .. Interval - 1
  BY <1>1, IntervalAssumption, ModRange
<1>5. DurationToTicks(delay) = IF r # 0 THEN q + 1 ELSE q
  BY <1>2, <1>3 DEF DurationToTicks
<1>6. DueTime(n, delay) = clock + Interval - s + Interval * DurationToTicks(delay)
  BY DEF DueTime, NextTick
<1> HIDE DEF delay, q, r, s
<1>7. Interval * (q + 1) = Interval * q + Interval /\ Interval * q \in Int
  BY <1>3, IntervalAssumption
<1>8. /\ delay <= Interval * DurationToTicks(delay)
      /\ Interval * DurationToTicks(delay) < delay + Interval
      /\ Interval * DurationToTicks(delay) \in Int
  BY <1>3, <1>5, <1>7, IntervalAssumption
<1>9. DueTime(n, delay) \in Nat /\ NextRun(clock) < DueTime(n, delay)
      /\ DueTime(n, delay) < NextRun(clock) + 2 * Interval
  <2> DEFINE w == Interval * DurationToTicks(delay)
  <2>1. delay <= w /\ w < delay + Interval /\ w \in Int
    BY <1>8
  <2>2. DueTime(n, delay) = clock + Interval - s + w
    BY <1>6
  <2> HIDE DEF w
  <2> QED BY <1>1, <1>2, <1>4, <2>1, <2>2, IntervalAssumption
<1> QED BY <1>9 DEF delay

-----------------------------------------------------------------------------
(* What a firing does: the node triggers the job, or it does not.            *)
Triggers(n, d) ==
  /\ lock = Nil /\ lock' = n /\ until' = clock + TTL
  /\ pc' = [pc EXCEPT ![n] = "running"]
  /\ at' = [at EXCEPT ![n] = clock + d]
  /\ done' = done \cup {for[n]}
  /\ doubled' = doubled \cup (done \cap {for[n]})
  /\ brief' = IF d < 2 * Interval THEN brief \cup {for[n]} ELSE brief
  /\ failed' = failed

Skips(n) ==
  /\ lock' = lock \/ (lock = Nil /\ lock' = Lost)
  /\ until' = until \/ until' = clock + TTL
  /\ pc' = [pc EXCEPT ![n] = "skipped"]
  /\ at' = at /\ done' = done /\ doubled' = doubled /\ brief' = brief
  /\ failed' = failed \cup {for[n]} \/ (failed' = failed /\ lock \notin {Nil, Lost})

LEMMA Firing ==
  ASSUME TypeOK, NEW n \in Nodes, Fire(n) \/ LockFails(n)
  PROVE  /\ pc[n] = "waiting" /\ clock = at[n]
         /\ clock' = clock /\ phase' = phase /\ for' = for /\ missed' = missed
         /\ Skips(n) \/ \E d \in RunTimes : Triggers(n, d)
<1>1. CASE Fire(n) /\ lock = Nil
  <2>1. PICK d \in RunTimes :
          /\ at' = [at EXCEPT ![n] = clock + d]
          /\ brief' = IF d < 2 * Interval THEN brief \cup {for[n]} ELSE brief
    BY <1>1 DEF Fire, Trigger
  <2>2. Triggers(n, d)
    BY <1>1, <2>1 DEF Fire, Trigger, Triggers
  <2> QED BY <1>1, <2>2 DEF Fire
<1>2. CASE Fire(n) /\ lock # Nil
  BY <1>2 DEF Fire, Skip, Skips, lockVars
<1>3. CASE LockFails(n)
  BY <1>3 DEF LockFails, Skip, Skips, lockVars
<1> QED BY <1>1, <1>2, <1>3

-----------------------------------------------------------------------------
(* Every variable keeps its type. *)
THEOREM Typing == Spec => []TypeOK
<1> USE IntervalAssumption, PeriodAssumption, RunTimesAssumption
<1>1. Init => TypeOK
  BY DEF Init, TypeOK, Occurrences
<1>2. TypeOK /\ [Next]_vars => TypeOK'
  <2> SUFFICES ASSUME TypeOK, [Next]_vars PROVE TypeOK'
    OBVIOUS
  <2>1. ASSUME NEW n \in Nodes, Schedule(n)
        PROVE  /\ pc' \in [Nodes -> {"down", "waiting", "running", "skipped"}]
               /\ for' \in [Nodes -> Occurrences] /\ at' \in [Nodes -> Nat]
    <3>1. NextRun(clock) \in Occurrences /\ DueTime(n, NextDelay(clock)) \in Nat
      BY NextRunIsNext, DueAfterOccurrence DEF TypeOK
    <3> QED BY <2>1, <3>1 DEF Schedule, TypeOK
  <2>2. ASSUME NEW n \in Nodes, Load(n) PROVE TypeOK'
    BY <2>1, <2>2 DEF Load, TypeOK, lockVars, history
  <2>3. ASSUME NEW n \in Nodes, Fire(n) \/ LockFails(n) PROVE TypeOK'
    <3>1. ASSUME NEW d \in RunTimes, Triggers(n, d) PROVE TypeOK'
      <4>1. clock + d \in Nat /\ clock + TTL \in Nat /\ for[n] \in Occurrences
        BY DEF TypeOK
      <4>2. UNCHANGED <<clock, phase, for, missed>>
        BY <2>3, Firing
      <4>3. pc' \in [Nodes -> {"down", "waiting", "running", "skipped"}] /\ at' \in [Nodes -> Nat]
        BY <3>1, <4>1 DEF TypeOK, Triggers
      <4>4. /\ done' \subseteq Occurrences /\ doubled' \subseteq Occurrences
            /\ brief' \subseteq Occurrences /\ failed' \subseteq Occurrences
        BY <3>1, <4>1 DEF TypeOK, Triggers
      <4> QED BY <3>1, <4>1, <4>2, <4>3, <4>4 DEF TypeOK, Triggers
    <3>2. CASE Skips(n)
      <4>1. clock + TTL \in Nat
        BY DEF TypeOK
      <4> QED BY <2>3, <3>2, <4>1, Firing DEF TypeOK, Skips
    <3> QED BY <2>3, <3>1, <3>2, Firing
  <2>4. ASSUME NEW n \in Nodes, Rearm(n) PROVE TypeOK'
    BY <2>1, <2>4 DEF Rearm, TypeOK, lockVars, history
  <2>5. CASE Pass
    BY <2>5 DEF Pass, TypeOK, lockVars, history
  <2>6. CASE UNCHANGED vars \/ Expire
    BY <2>6 DEF vars, Expire, TypeOK, lockVars, history
  <2> QED BY <2>2, <2>3, <2>4, <2>5, <2>6 DEF Next
<1> QED BY <1>1, <1>2, PTL DEF Spec

-----------------------------------------------------------------------------
(* The inductive invariant that needs nothing of the trigger durations: when *)
(* the entry of a node is due and for which occurrence, and who holds the    *)
(* lock.                                                                     *)
Waits(n) ==
  /\ pc[n] # "down" => clock <= at[n]
  /\ pc[n] = "waiting" => for[n] < at[n] /\ at[n] < for[n] + 2 * Interval
  /\ \E k \in Nat : for[n] = Period * k

Fired(n) ==
  /\ pc[n] \in {"running", "skipped"} => for[n] < clock
  /\ pc[n] = "skipped" => at[n] = clock /\ clock < for[n] + 2 * Interval
  /\ pc[n] = "running" <=> lock = n
  /\ pc[n] = "running" => for[n] \in done

DoneIsPast == \A o \in done : o < clock

Timed == (\A n \in Nodes : Waits(n) /\ Fired(n)) /\ DoneIsPast

(* ScheduleJob makes a node wait for the next occurrence. *)
LEMMA ScheduleWaits ==
  ASSUME TypeOK, NEW n \in Nodes, Schedule(n)
  PROVE  /\ pc'[n] = "waiting"
         /\ clock < for'[n] /\ for'[n] < at'[n] /\ at'[n] < for'[n] + 2 * Interval
         /\ clock <= at'[n] /\ at'[n] \in Nat /\ for'[n] \in Nat
         /\ \E k \in Nat : for'[n] = Period * k
         /\ \A m \in Nodes : m # n => pc'[m] = pc[m] /\ for'[m] = for[m] /\ at'[m] = at[m]
<1>1. /\ pc' = [pc EXCEPT ![n] = "waiting"]
      /\ for' = [for EXCEPT ![n] = NextRun(clock)]
      /\ at' = [at EXCEPT ![n] = DueTime(n, NextDelay(clock))]
  BY DEF Schedule
<1>2. clock < NextRun(clock) /\ NextRun(clock) \in Nat /\ \E k \in Nat : NextRun(clock) = Period * k
  BY NextRunIsNext DEF TypeOK
<1> QED BY <1>1, <1>2, DueAfterOccurrence DEF TypeOK

LEMMA TimedHolds == Spec => []Timed
<1> USE IntervalAssumption, PeriodAssumption, RunTimesAssumption, NilAssumption
<1>1. Init => Timed
  <2>1. Period * 0 = 0 /\ 0 \in Nat
    OBVIOUS
  <2> QED BY <2>1 DEF Init, Timed, Waits, Fired, DoneIsPast
<1>2. TypeOK /\ TypeOK' /\ Timed /\ [Next]_vars => Timed'
  <2> SUFFICES ASSUME TypeOK, TypeOK', Timed, [Next]_vars PROVE Timed'
    OBVIOUS
  <2>1. ASSUME NEW n \in Nodes, Load(n) PROVE Timed'
    <3>1. /\ pc[n] = "down" /\ Schedule(n)
          /\ clock' = clock /\ lock' = lock /\ done' = done
      BY <2>1 DEF Load, lockVars, history
    <3>2. ASSUME NEW m \in Nodes PROVE Waits(m)' /\ Fired(m)'
      <4>1. CASE m = n
        <5>1. lock # n
          BY <3>1 DEF Timed, Fired
        <5>2. Waits(n)'
          BY <3>1, ScheduleWaits DEF Waits
        <5>3. Fired(n)'
          BY <3>1, <5>1, ScheduleWaits DEF Fired
        <5> QED BY <4>1, <5>2, <5>3
      <4>2. CASE m # n
        <5>1. pc'[m] = pc[m] /\ for'[m] = for[m] /\ at'[m] = at[m]
          BY <3>1, <4>2, ScheduleWaits
        <5> QED BY <3>1, <5>1 DEF Timed, Waits, Fired
      <4> QED BY <4>1, <4>2
    <3> QED BY <3>1, <3>2 DEF Timed, DoneIsPast
  <2>2. ASSUME NEW n \in Nodes, Fire(n) \/ LockFails(n) PROVE Timed'
    <3>1. /\ pc[n] = "waiting" /\ clock = at[n]
          /\ clock' = clock /\ for' = for
          /\ for[n] < clock /\ clock < for[n] + 2 * Interval
      BY <2>2, Firing DEF Timed, Waits
    <3>2. ASSUME NEW d \in RunTimes, Triggers(n, d) PROVE Timed'
      <4>1. /\ lock = Nil /\ lock' = n /\ pc' = [pc EXCEPT ![n] = "running"]
            /\ at' = [at EXCEPT ![n] = clock + d] /\ done' = done \cup {for[n]}
        BY <3>2 DEF Triggers
      <4>2. d \in Nat /\ clock \in Nat
        BY DEF TypeOK
      <4>3. ASSUME NEW m \in Nodes PROVE Waits(m)'
        <5>1. CASE m = n
          <6>1. at'[n] = clock + d /\ pc'[n] = "running" /\ clock <= clock + d
            BY <4>1, <4>2 DEF TypeOK
          <6>2. \E k \in Nat : for[n] = Period * k
            BY DEF Timed, Waits
          <6> QED BY <3>1, <5>1, <6>1, <6>2 DEF Waits
        <5>2. CASE m # n
          BY <3>1, <4>1, <5>2 DEF Timed, Waits, TypeOK
        <5> QED BY <5>1, <5>2
      <4>4. ASSUME NEW m \in Nodes PROVE Fired(m)'
        BY <3>1, <4>1, <4>2 DEF Timed, Fired, TypeOK
      <4>5. DoneIsPast'
        BY <3>1, <4>1 DEF Timed, DoneIsPast
      <4> QED BY <4>3, <4>4, <4>5 DEF Timed
    <3>3. CASE Skips(n)
      <4>1. /\ pc' = [pc EXCEPT ![n] = "skipped"]
            /\ at' = at /\ done' = done
            /\ \A m \in Nodes : lock' = m <=> lock = m
        BY <3>3 DEF Skips
      <4>2. ASSUME NEW m \in Nodes PROVE Waits(m)' /\ Fired(m)'
        BY <3>1, <4>1 DEF Timed, Waits, Fired, TypeOK
      <4> QED BY <3>1, <4>1, <4>2 DEF Timed, DoneIsPast
    <3> QED BY <2>2, <3>2, <3>3, Firing
  <2>3. ASSUME NEW n \in Nodes, Rearm(n) PROVE Timed'
    <3>1. /\ pc[n] \in {"running", "skipped"} /\ Schedule(n)
          /\ clock' = clock /\ done' = done
          /\ IF pc[n] = "running" THEN lock' \in {Nil, Lost} ELSE lock' = lock
      BY <2>3 DEF Rearm, lockVars, history
    <3>2. ASSUME NEW m \in Nodes PROVE Waits(m)' /\ Fired(m)'
      <4>1. CASE m = n
        <5>1. lock' # n
          BY <3>1 DEF Timed, Fired
        <5>2. Waits(n)'
          BY <3>1, ScheduleWaits DEF Waits
        <5>3. Fired(n)'
          BY <3>1, <5>1, ScheduleWaits DEF Fired
        <5> QED BY <4>1, <5>2, <5>3
      <4>2. CASE m # n
        <5>1. lock' = m <=> lock = m
          BY <3>1, <4>2 DEF Timed, Fired, TypeOK
        <5>2. pc'[m] = pc[m] /\ for'[m] = for[m] /\ at'[m] = at[m]
          BY <3>1, <4>2, ScheduleWaits
        <5> QED BY <3>1, <5>1, <5>2 DEF Timed, Waits, Fired
      <4> QED BY <4>1, <4>2
    <3> QED BY <3>1, <3>2 DEF Timed, DoneIsPast
  <2>4. CASE Pass
    <3>1. /\ clock' = clock + 1
          /\ \A n \in Nodes : pc[n] # "down" => clock < at[n]
          /\ UNCHANGED <<phase, pc, for, at, lock, done>>
      BY <2>4 DEF Pass, lockVars, history
    <3>2. ASSUME NEW m \in Nodes PROVE Waits(m)' /\ Fired(m)'
      <4>1. Waits(m)'
        <5>1. for'[m] = for[m] /\ at'[m] = at[m] /\ pc'[m] = pc[m]
          BY <3>1
        <5>2. pc[m] # "down" => clock' <= at[m]
          <6>1. clock \in Nat /\ at[m] \in Nat
            BY DEF TypeOK
          <6> QED BY <3>1, <6>1
        <5> QED BY <5>1, <5>2 DEF Timed, Waits
      <4>2. Fired(m)'
        <5>1. pc[m] # "skipped"
          BY <3>1 DEF Timed, Fired, TypeOK
        <5>2. for[m] \in Nat /\ clock \in Nat
          BY DEF TypeOK, Occurrences
        <5> QED BY <3>1, <5>1, <5>2 DEF Timed, Fired
      <4> QED BY <4>1, <4>2
    <3>3. DoneIsPast'
      BY <3>1 DEF Timed, DoneIsPast, TypeOK, Occurrences
    <3> QED BY <3>2, <3>3 DEF Timed
  <2>5. CASE UNCHANGED vars
    BY <2>5 DEF vars, lockVars, history, Timed, Waits, Fired, DoneIsPast
  <2>6. CASE Expire
    <3>1. /\ UNCHANGED <<clock, pc, for, at, done>>
          /\ \A m \in Nodes : lock # m /\ lock' # m
      BY <2>6 DEF Expire, history
    <3> QED BY <3>1 DEF Timed, Waits, Fired, DoneIsPast
  <2> QED BY <2>1, <2>2, <2>3, <2>4, <2>5, <2>6 DEF Next
<1> QED BY <1>1, <1>2, Typing, PTL DEF Spec

(* A job fires after its occurrence and less than two ticks after it, on     *)
(* every node, whenever its wheel was started.                               *)
THEOREM FiringIsOnTime == Spec => []FiresOnTime
<1>1. Timed => FiresOnTime
  BY DEF Timed, Waits, FiresOnTime
<1> QED BY <1>1, TimedHolds, PTL

-----------------------------------------------------------------------------
(* If a trigger fits between two occurrences, it ends before the next one,   *)
(* and whoever fires while it runs does so for the same occurrence.          *)
Punctual ==
  /\ \A n \in Nodes : pc[n] = "running" => at[n] < for[n] + Period
  /\ \A n \in Nodes : pc[n] = "skipped" => for[n] \in done \cup failed
  /\ missed = {}

LEMMA PunctualHolds == ASSUME RunsFit PROVE Spec => []Punctual
<1> USE IntervalAssumption, PeriodAssumption, RunTimesAssumption, NilAssumption
<1>0. 2 * Interval <= Period
  BY DEF RunsFit
<1>1. Init => Punctual
  BY DEF Init, Punctual
<1>2. TypeOK /\ TypeOK' /\ Timed /\ Punctual /\ [Next]_vars => Punctual'
  <2> SUFFICES ASSUME TypeOK, TypeOK', Timed, Punctual, [Next]_vars PROVE Punctual'
    OBVIOUS
  <2>1. ASSUME NEW n \in Nodes, Load(n) PROVE Punctual'
    <3>1. Schedule(n) /\ done' = done /\ failed' = failed /\ missed' = missed
      BY <2>1 DEF Load, history
    <3>2. ASSUME NEW m \in Nodes PROVE /\ pc'[m] = "running" => at'[m] < for'[m] + Period
                                       /\ pc'[m] = "skipped" => for'[m] \in done' \cup failed'
      BY <3>1, ScheduleWaits DEF Punctual
    <3> QED BY <3>1, <3>2 DEF Punctual
  <2>2. ASSUME NEW n \in Nodes, Fire(n) \/ LockFails(n) PROVE Punctual'
    <3>1. /\ pc[n] = "waiting" /\ clock = at[n]
          /\ clock' = clock /\ for' = for /\ missed' = missed
          /\ for[n] < clock /\ clock < for[n] + 2 * Interval
      BY <2>2, Firing DEF Timed, Waits
    <3>2. ASSUME NEW d \in RunTimes, Triggers(n, d) PROVE Punctual'
      <4>1. /\ pc' = [pc EXCEPT ![n] = "running"] /\ at' = [at EXCEPT ![n] = clock + d]
            /\ done' = done \cup {for[n]} /\ failed' = failed
        BY <3>2 DEF Triggers
      <4>2. d \in Nat /\ 2 * Interval + d <= Period /\ clock \in Nat /\ for[n] \in Nat
        BY DEF TypeOK, RunsFit, Occurrences
      <4>3. at'[n] = clock + d /\ clock + d < for[n] + Period
        BY <3>1, <4>1, <4>2 DEF TypeOK
      <4>4. ASSUME NEW m \in Nodes
            PROVE  /\ pc'[m] = "running" => at'[m] < for'[m] + Period
                   /\ pc'[m] = "skipped" => for'[m] \in done' \cup failed'
        BY <3>1, <4>1, <4>3 DEF Punctual, TypeOK
      <4> QED BY <3>1, <4>4 DEF Punctual
    <3>3. CASE Skips(n) /\ failed' = failed \cup {for[n]}
      <4>1. pc' = [pc EXCEPT ![n] = "skipped"] /\ at' = at /\ done' = done
        BY <3>3 DEF Skips
      <4> QED BY <3>1, <3>3, <4>1 DEF Punctual, TypeOK
    <3>4. CASE Skips(n) /\ failed' = failed /\ lock \notin {Nil, Lost}
      <4>1. pc' = [pc EXCEPT ![n] = "skipped"] /\ at' = at /\ done' = done
        BY <3>4 DEF Skips
      <4>2. lock \in Nodes /\ pc[lock] = "running"
        BY <3>4 DEF TypeOK, Timed, Fired
      <4>3. /\ for[lock] \in done /\ for[lock] < clock
            /\ clock <= at[lock] /\ at[lock] < for[lock] + Period
        BY <4>2 DEF Timed, Waits, Fired, Punctual
      <4>4. PICK i \in Nat : for[n] = Period * i
        BY DEF Timed, Waits
      <4>5. PICK j \in Nat : for[lock] = Period * j
        BY <4>2 DEF Timed, Waits
      <4>6. for[n] < for[lock] + Period /\ for[lock] < for[n] + Period
        <5>1. for[n] \in Nat /\ for[lock] \in Nat /\ clock \in Nat /\ at[lock] \in Nat
          BY <4>2 DEF TypeOK, Occurrences
        <5> QED BY <5>1, <3>1, <4>3, <1>0
      <4>7. i = j
        <5>1. Period * i < Period * j + Period /\ Period * j < Period * i + Period
          BY <4>4, <4>5, <4>6
        <5> QED BY <5>1, SameMultiple
      <4>8. for[n] \in done
        BY <4>3, <4>4, <4>5, <4>7
      <4> QED BY <3>1, <3>4, <4>1, <4>8 DEF Punctual, TypeOK
    <3> QED BY <2>2, <3>2, <3>3, <3>4, Firing DEF Skips
  <2>3. ASSUME NEW n \in Nodes, Rearm(n) PROVE Punctual'
    <3>1. /\ pc[n] \in {"running", "skipped"} /\ clock = at[n] /\ Schedule(n)
          /\ clock' = clock /\ done' = done /\ failed' = failed
          /\ missed' = IF NextRun(clock) = for[n] + Period THEN missed ELSE missed \cup {n}
      BY <2>3 DEF Rearm, history
    <3>2. PICK k \in Nat : for[n] = Period * k
      BY DEF Timed, Waits
    <3>3. for[n] < clock /\ clock < for[n] + Period
      <4>1. for[n] \in Nat /\ clock \in Nat
        BY DEF TypeOK, Occurrences
      <4>2. CASE pc[n] = "running"
        BY <3>1, <4>1, <4>2 DEF Timed, Fired, Punctual
      <4>3. CASE pc[n] = "skipped"
        BY <3>1, <4>1, <4>3, <1>0 DEF Timed, Fired
      <4> QED BY <3>1, <4>2, <4>3
    <3>4. NextRun(clock) = for[n] + Period
      <4>1. clock \in Nat /\ Period * k < clock /\ clock < Period * k + Period
        BY <3>2, <3>3 DEF TypeOK
      <4>2. NextRun(clock) = Period * k + Period
        BY <4>1, NextRunFollows
      <4> QED BY <3>2, <4>2
    <3>5. ASSUME NEW m \in Nodes PROVE /\ pc'[m] = "running" => at'[m] < for'[m] + Period
                                       /\ pc'[m] = "skipped" => for'[m] \in done' \cup failed'
      BY <3>1, ScheduleWaits DEF Punctual
    <3> QED BY <3>1, <3>4, <3>5 DEF Punctual
  <2>4. CASE Pass
    BY <2>4 DEF Pass, history, Punctual
  <2>5. CASE UNCHANGED vars \/ Expire
    BY <2>5 DEF vars, Expire, history, Punctual
  <2> QED BY <2>1, <2>2, <2>3, <2>4, <2>5 DEF Next
<1> QED BY <1>1, <1>2, Typing, TimedHolds, PTL DEF Spec

(* If every trigger fits between two occurrences, re-scheduling after it     *)
(* never jumps over one.                                                     *)
THEOREM NothingIsMissed == ASSUME RunsFit PROVE Spec => []NoOccurrenceMissed
<1>1. Punctual => NoOccurrenceMissed
  BY DEF Punctual, NoOccurrenceMissed
<1> QED BY <1>1, PunctualHolds, PTL

(* ... and a node that is refused the lock is refused it by a node that      *)
(* triggers the job for the same occurrence.                                 *)
THEOREM SkippingIsSafe == ASSUME RunsFit PROVE Spec => []SkippedIsCovered
<1>1. Punctual => SkippedIsCovered
  BY DEF Punctual, SkippedIsCovered
<1> QED BY <1>1, PunctualHolds, PTL

-----------------------------------------------------------------------------
(* A node that still waits for an occurrence that was triggered, but by long *)
(* triggers only, will find the lock taken.                                  *)
Long == done \ brief

Covered ==
  /\ doubled \subseteq brief
  /\ \A m \in Nodes : (pc[m] = "waiting" /\ for[m] \in Long) =>
       \E n \in Nodes : pc[n] = "running" /\ at[m] < at[n]

LEMMA CoveredHolds == Spec => []Covered
<1> USE IntervalAssumption, RunTimesAssumption, NilAssumption
<1>1. Init => Covered
  BY DEF Init, Covered
<1>2. TypeOK /\ TypeOK' /\ Timed /\ Covered /\ [Next]_vars => Covered'
  <2> SUFFICES ASSUME TypeOK, TypeOK', Timed, Covered, [Next]_vars PROVE Covered'
    OBVIOUS
  <2>1. ASSUME NEW n \in Nodes, Load(n) PROVE Covered'
    <3>1. pc[n] = "down" /\ Schedule(n) /\ UNCHANGED <<done, doubled, brief>>
      BY <2>1 DEF Load, history
    <3>2. for'[n] \notin done
      BY <3>1, ScheduleWaits DEF Timed, DoneIsPast, TypeOK
    <3>3. ASSUME NEW m \in Nodes, pc'[m] = "waiting", for'[m] \in Long'
          PROVE  \E o \in Nodes : pc'[o] = "running" /\ at'[m] < at'[o]
      <4>1. m # n /\ pc[m] = "waiting" /\ for[m] \in Long /\ at'[m] = at[m]
        BY <3>1, <3>2, <3>3, ScheduleWaits DEF Long
      <4>2. PICK o \in Nodes : pc[o] = "running" /\ at[m] < at[o]
        BY <4>1 DEF Covered
      <4> QED BY <3>1, <4>1, <4>2, ScheduleWaits
    <3> QED BY <3>1, <3>3 DEF Covered
  <2>2. ASSUME NEW n \in Nodes, Fire(n) \/ LockFails(n) PROVE Covered'
    <3>1. pc[n] = "waiting" /\ clock = at[n] /\ for' = for
      BY <2>2, Firing
    <3>2. ASSUME NEW d \in RunTimes, Triggers(n, d) PROVE Covered'
      <4>1. /\ lock = Nil /\ pc' = [pc EXCEPT ![n] = "running"]
            /\ at' = [at EXCEPT ![n] = clock + d]
            /\ done' = done \cup {for[n]}
            /\ doubled' = doubled \cup (done \cap {for[n]})
            /\ brief' = IF d < 2 * Interval THEN brief \cup {for[n]} ELSE brief
        BY <3>2 DEF Triggers
      <4>2. \A m \in Nodes : pc[m] = "waiting" => for[m] \notin Long
        BY <4>1 DEF Covered, Timed, Fired
      <4>3. doubled' \subseteq brief'
        BY <3>1, <4>1, <4>2 DEF Covered, Long
      <4>4. ASSUME NEW m \in Nodes, pc'[m] = "waiting", for'[m] \in Long'
            PROVE  pc'[n] = "running" /\ at'[m] < at'[n]
        <5>1. m # n /\ pc[m] = "waiting" /\ at'[m] = at[m] /\ at'[n] = clock + d
              /\ pc'[n] = "running"
          BY <4>1, <4>4 DEF TypeOK
        <5>2. for[m] = for[n] /\ ~(d < 2 * Interval)
          BY <3>1, <4>1, <4>2, <4>4, <5>1 DEF Long
        <5>3. at[m] < for[n] + 2 * Interval /\ for[n] < clock
          BY <3>1, <5>1, <5>2 DEF Timed, Waits
        <5>4. at[m] \in Nat /\ for[n] \in Nat /\ clock \in Nat /\ d \in Nat
          BY DEF TypeOK, Occurrences
        <5> QED BY <5>1, <5>2, <5>3, <5>4
      <4> QED BY <4>3, <4>4 DEF Covered
    <3>3. CASE Skips(n)
      <4>1. /\ pc' = [pc EXCEPT ![n] = "skipped"]
            /\ at' = at /\ UNCHANGED <<done, doubled, brief>>
        BY <3>3 DEF Skips
      <4>2. ASSUME NEW m \in Nodes, pc'[m] = "waiting", for'[m] \in Long'
            PROVE  \E o \in Nodes : pc'[o] = "running" /\ at'[m] < at'[o]
        <5>1. pc[m] = "waiting" /\ for[m] \in Long
          BY <3>1, <4>1, <4>2 DEF TypeOK, Long
        <5>2. PICK o \in Nodes : pc[o] = "running" /\ at[m] < at[o]
          BY <5>1 DEF Covered
        <5> QED BY <3>1, <4>1, <5>2 DEF TypeOK
      <4> QED BY <4>1, <4>2 DEF Covered
    <3> QED BY <2>2, <3>2, <3>3, Firing
  <2>3. ASSUME NEW n \in Nodes, Rearm(n) PROVE Covered'
    <3>1. /\ pc[n] \in {"running", "skipped"} /\ clock = at[n] /\ Schedule(n)
          /\ UNCHANGED <<done, doubled, brief>>
      BY <2>3 DEF Rearm, history
    <3>2. for'[n] \notin done
      BY <3>1, ScheduleWaits DEF Timed, DoneIsPast, TypeOK
    <3>3. ASSUME NEW m \in Nodes, pc'[m] = "waiting", for'[m] \in Long'
          PROVE  \E o \in Nodes : pc'[o] = "running" /\ at'[m] < at'[o]
      <4>1. m # n /\ pc[m] = "waiting" /\ for[m] \in Long /\ at'[m] = at[m]
        BY <3>1, <3>2, <3>3, ScheduleWaits DEF Long
      <4>2. PICK o \in Nodes : pc[o] = "running" /\ at[m] < at[o]
        BY <4>1 DEF Covered
      <4>3. o # n
        BY <3>1, <4>1, <4>2 DEF Timed, Waits, TypeOK
      <4> QED BY <3>1, <4>1, <4>2, <4>3, ScheduleWaits
    <3> QED BY <3>1, <3>3 DEF Covered
  <2>4. CASE Pass
    BY <2>4 DEF Pass, history, Covered, Long
  <2>5. CASE UNCHANGED vars \/ Expire
    BY <2>5 DEF vars, Expire, history, Covered, Long
  <2> QED BY <2>1, <2>2, <2>3, <2>4, <2>5 DEF Next
<1> QED BY <1>1, <1>2, Typing, TimedHolds, PTL DEF Spec

(* However many nodes fire for an occurrence, at whatever phases, and        *)
(* whatever calls of the lock fail: the lock lets it be triggered a second   *)
(* time only if a trigger of it took less than two ticks.                    *)
THEOREM LockDeduplicates == Spec => []OnlyBriefTriggersRepeat
<1>1. Covered => OnlyBriefTriggersRepeat
  BY DEF Covered, OnlyBriefTriggersRepeat
<1> QED BY <1>1, CoveredHolds, PTL

-----------------------------------------------------------------------------
(* Nothing between two occurrences is left out.  An occurrence after one     *)
(* that was triggered is triggered, or failed for some node, or some node    *)
(* has yet to come to it.                                                    *)
NextOf(n) == IF pc[n] = "waiting" THEN for[n] ELSE for[n] + Period

Awaited(o) == \E n \in Nodes : pc[n] # "down" /\ NextOf(n) <= o

NoGap ==
  \A a \in done : \A o \in Occurrences : a < o => o \in done \cup failed \/ Awaited(o)

(* Two occurrences are a period apart, or more. *)
LEMMA OccurrencesApart ==
  ASSUME NEW a \in Occurrences, NEW o \in Occurrences, a < o
  PROVE  a + Period <= o
<1> USE PeriodAssumption
<1>1. PICK i \in Nat : a = Period * i
  <2>1. a = Period * (a \div Period) + (a % Period) /\ a \div Period \in Nat
    BY DivMod DEF Occurrences
  <2> QED BY <2>1 DEF Occurrences
<1>2. PICK j \in Nat : o = Period * j
  <2>1. o = Period * (o \div Period) + (o % Period) /\ o \div Period \in Nat
    BY DivMod DEF Occurrences
  <2> QED BY <2>1 DEF Occurrences
<1>3. a \in Nat /\ o \in Nat
  BY DEF Occurrences
<1>4. CASE o < a + Period
  <2>1. Period * i < Period * j + Period /\ Period * j < Period * i + Period
    BY <1>1, <1>2, <1>3, <1>4
  <2>2. i = j
    BY <2>1, SameMultiple
  <2> QED BY <1>1, <1>2, <1>3, <2>2
<1> QED BY <1>3, <1>4

LEMMA NoGapHolds == ASSUME RunsFit PROVE Spec => []NoGap
<1> USE IntervalAssumption, PeriodAssumption, NilAssumption
<1>1. Init => NoGap
  BY DEF Init, NoGap
<1>2. TypeOK /\ TypeOK' /\ Punctual /\ Punctual' /\ NoGap /\ [Next]_vars => NoGap'
  <2> SUFFICES ASSUME TypeOK, TypeOK', Punctual, Punctual', NoGap, [Next]_vars,
                      NEW a \in done', NEW o \in Occurrences, a < o,
                      o \notin done' \cup failed'
               PROVE  Awaited(o)'
    BY DEF NoGap
  <2>1. \A n \in Nodes : for[n] \in Occurrences /\ for[n] \in Nat
    BY DEF TypeOK, Occurrences
  <2>2. ASSUME NEW n \in Nodes, Load(n) PROVE Awaited(o)'
    <3>1. done' = done /\ failed' = failed /\ pc[n] = "down" /\ Schedule(n)
      BY <2>2 DEF Load, history
    <3>2. PICK m \in Nodes : pc[m] # "down" /\ NextOf(m) <= o
      BY <3>1 DEF NoGap, Awaited
    <3>3. m # n /\ pc'[m] = pc[m] /\ for'[m] = for[m]
      BY <3>1, <3>2, ScheduleWaits
    <3> QED BY <3>2, <3>3 DEF Awaited, NextOf
  <2>3. ASSUME NEW n \in Nodes, Fire(n) \/ LockFails(n) PROVE Awaited(o)'
    <3>1. /\ pc[n] = "waiting" /\ for' = for
          /\ \A m \in Nodes : m # n => pc'[m] = pc[m]
          /\ pc'[n] \in {"running", "skipped"}
          /\ failed \subseteq failed'
      BY <2>3, Firing DEF Triggers, Skips, TypeOK
    <3>2. /\ done \subseteq done' /\ done' \subseteq done \cup {for[n]}
          /\ for[n] \in done' \cup failed'
      <4>1. ASSUME NEW d \in RunTimes, Triggers(n, d)
            PROVE  for[n] \in done' /\ done' = done \cup {for[n]}
        BY <4>1 DEF Triggers
      <4>2. CASE Skips(n)
        <5>1. done' = done /\ pc'[n] = "skipped"
          BY <4>2 DEF Skips, TypeOK
        <5> QED BY <3>1, <5>1 DEF Punctual
      <4> QED BY <2>3, <4>1, <4>2, Firing
    <3>3. for[n] < o => Awaited(o)'
      <4>1. for[n] < o => for[n] + Period <= o
        BY <2>1, OccurrencesApart
      <4> QED BY <3>1, <4>1 DEF Awaited, NextOf
    <3>4. CASE a \in done
      <4>1. PICK m \in Nodes : pc[m] # "down" /\ NextOf(m) <= o
        BY <3>1, <3>2, <3>4 DEF NoGap, Awaited
      <4>2. CASE m = n
        <5>1. for[n] <= o /\ for[n] # o
          BY <3>1, <3>2, <4>1, <4>2 DEF NextOf
        <5> QED BY <5>1, <3>3, <2>1 DEF Occurrences
      <4>3. CASE m # n
        BY <3>1, <4>1, <4>3 DEF Awaited, NextOf
      <4> QED BY <4>2, <4>3
    <3> QED BY <3>2, <3>3, <3>4
  <2>4. ASSUME NEW n \in Nodes, Rearm(n) PROVE Awaited(o)'
    <3>1. /\ done' = done /\ failed' = failed /\ pc[n] \in {"running", "skipped"} /\ Schedule(n)
          /\ missed' = IF NextRun(clock) = for[n] + Period THEN missed ELSE missed \cup {n}
      BY <2>4 DEF Rearm, history
    <3>2. PICK m \in Nodes : pc[m] # "down" /\ NextOf(m) <= o
      BY <3>1 DEF NoGap, Awaited
    <3>3. pc'[n] = "waiting" /\ for'[n] = for[n] + Period
      <4>1. NextRun(clock) = for[n] + Period
        BY <3>1 DEF Punctual
      <4> QED BY <3>1, <4>1, ScheduleWaits DEF Schedule, TypeOK
    <3>4. CASE m = n
      BY <3>1, <3>2, <3>3, <3>4 DEF Awaited, NextOf
    <3>5. CASE m # n
      <4>1. pc'[m] = pc[m] /\ for'[m] = for[m]
        BY <3>1, <3>5, ScheduleWaits
      <4> QED BY <3>2, <4>1 DEF Awaited, NextOf
    <3> QED BY <3>4, <3>5
  <2>5. CASE Pass
    BY <2>5 DEF Pass, history, NoGap, Awaited, NextOf
  <2>6. CASE UNCHANGED vars \/ Expire
    BY <2>6 DEF vars, Expire, history, NoGap, Awaited, NextOf
  <2> QED BY <2>2, <2>3, <2>4, <2>5, <2>6 DEF Next
<1> QED BY <1>1, <1>2, Typing, PunctualHolds, PTL DEF Spec

(* If every trigger fits between two occurrences, then, from the first one   *)
(* the cluster triggers, each occurrence is triggered less than two ticks    *)
(* after it, for any number of nodes started at any time, but for those at   *)
(* which a call of the lock failed.                                          *)
THEOREM EveryOccurrenceIsTriggered ==
  ASSUME RunsFit PROVE Spec => []EveryOccurrenceTriggered
<1> USE IntervalAssumption, PeriodAssumption
<1>1. TypeOK /\ Timed /\ Punctual /\ NoGap => EveryOccurrenceTriggered
  <2> SUFFICES ASSUME TypeOK, Timed, Punctual, NoGap, NEW a \in done,
                      NEW o \in a .. clock - 2 * Interval, o % Period = 0,
                      o \notin done \cup failed
               PROVE  FALSE
    BY DEF EveryOccurrenceTriggered
  <2>1. clock \in Nat /\ a \in Nat /\ o \in Nat /\ o + 2 * Interval <= clock
    BY DEF TypeOK, Occurrences
  <2>2. o \in Occurrences /\ a < o
    BY <2>1 DEF Occurrences
  <2>3. PICK n \in Nodes : pc[n] # "down" /\ NextOf(n) <= o
    BY <2>2 DEF NoGap, Awaited
  <2>4. for[n] \in Nat /\ at[n] \in Nat /\ clock <= at[n]
    BY <2>3 DEF TypeOK, Occurrences, Timed, Waits
  <2>5. CASE pc[n] = "waiting"
    BY <2>1, <2>3, <2>4, <2>5 DEF NextOf, Timed, Waits
  <2>6. CASE pc[n] # "waiting"
    \* it has fired for an earlier occurrence and is still at it
    <3>1. pc[n] \in {"running", "skipped"} /\ for[n] + Period <= o
      BY <2>3, <2>6 DEF NextOf, TypeOK
    <3>2. CASE pc[n] = "running"
      BY <2>1, <2>4, <3>1, <3>2 DEF Punctual
    <3>3. CASE pc[n] = "skipped"
      <4>1. clock < for[n] + 2 * Interval
        BY <3>3 DEF Timed, Fired
      <4> QED BY <2>1, <2>4, <3>1, <4>1
    <3> QED BY <3>1, <3>2, <3>3
  <2> QED BY <2>5, <2>6
<1> QED BY <1>1, Typing, TimedHolds, PunctualHolds, NoGapHolds, PTL

(* From the first firing on a node's occurrences only go forward: it never   *)
(* waits for, nor fires for, one it has already fired for.                   *)
NeverBack == [][\A n \in Nodes :
                  (pc[n] \notin {"down", "waiting"} /\ pc'[n] = "waiting") => for[n] < for'[n]]_vars

THEOREM OccurrencesGoForward == Spec => NeverBack
<1> USE IntervalAssumption, PeriodAssumption
<1>1. TypeOK /\ Timed /\ [Next]_vars =>
        [\A n \in Nodes :
           (pc[n] \notin {"down", "waiting"} /\ pc'[n] = "waiting") => for[n] < for'[n]]_vars
  <2> SUFFICES ASSUME TypeOK, Timed, Next, NEW n \in Nodes,
                      pc[n] \notin {"down", "waiting"}, pc'[n] = "waiting"
               PROVE  for[n] < for'[n]
    BY DEF vars
  <2>1. for[n] \in Nat /\ clock \in Nat /\ for[n] < clock
    BY DEF TypeOK, Occurrences, Timed, Fired
  <2>2. ASSUME NEW m \in Nodes, Load(m) \/ Rearm(m) PROVE for[n] < for'[n]
    <3>1. Schedule(m) /\ (m = n => pc[n] # "down")
      BY <2>2 DEF Load, Rearm
    <3>2. m = n
      BY <3>1, ScheduleWaits
    <3> QED BY <2>1, <3>1, <3>2, ScheduleWaits
  <2>3. ASSUME NEW m \in Nodes, Fire(m) \/ LockFails(m) PROVE FALSE
    BY <2>3, Firing DEF Triggers, Skips, TypeOK
  <2>4. CASE Pass \/ Expire
    BY <2>4 DEF Pass, Expire
  <2> QED BY <2>2, <2>3, <2>4 DEF Next
<1> QED BY <1>1, Typing, TimedHolds, PTL DEF Spec, NeverBack

-----------------------------------------------------------------------------
(* The trigger lock is a lease: a node triggers only while the lock is on    *)
(* record for it, and the record passes from node to node through nobody.    *)
THEOREM LockIsALease == Spec => RefinesLease
<1> USE NilAssumption
<1> DEFINE Running == {n \in Nodes : pc[n] = "running"}
<1>1. Init => LockLease!Init
  BY DEF Init, LockLease!Init
<1>2. TypeOK /\ Timed /\ [Next]_vars => [LockLease!Next]_(LockLease!vars)
  <2> SUFFICES ASSUME TypeOK, Timed, [Next]_vars
               PROVE  LockLease!Next \/ UNCHANGED <<lock, Running>>
    BY DEF LockLease!vars
  <2>1. ASSUME NEW n \in Nodes, Load(n) PROVE UNCHANGED <<lock, Running>>
    BY <2>1 DEF Load, Schedule, lockVars, TypeOK
  <2>2. ASSUME NEW n \in Nodes, Fire(n) \/ LockFails(n)
        PROVE  LockLease!Next \/ UNCHANGED <<lock, Running>>
    <3>1. ASSUME NEW d \in RunTimes, Triggers(n, d) PROVE LockLease!Next
      <4>1. lock = Nil /\ lock' = n /\ Running' = Running \cup {n}
        BY <3>1 DEF Triggers, TypeOK
      <4> QED BY <4>1 DEF LockLease!Next, LockLease!Take
    <3>2. CASE Skips(n)
      <4>1. Running' = Running /\ (lock' = lock \/ (lock = Nil /\ lock' = Lost))
        BY <2>2, <3>2, Firing DEF Skips, TypeOK
      <4> QED BY <4>1 DEF LockLease!Next, LockLease!TakeLost
    <3> QED BY <2>2, <3>1, <3>2, Firing
  <2>3. ASSUME NEW n \in Nodes, Rearm(n) PROVE LockLease!Next \/ UNCHANGED <<lock, Running>>
    <3>1. Running' = Running \ {n}
      BY <2>3 DEF Rearm, Schedule, TypeOK
    <3>2. CASE pc[n] = "running"
      <4>1. lock = n /\ lock' \in {Nil, Lost}
        BY <2>3, <3>2 DEF Rearm, Timed, Fired
      <4>2. LockLease!End
        BY <3>1, <4>1 DEF LockLease!End
      <4> QED BY <4>1, <4>2 DEF LockLease!Next
    <3>3. CASE pc[n] # "running"
      BY <2>3, <3>1, <3>3 DEF Rearm, lockVars
    <3> QED BY <3>2, <3>3
  <2>4. CASE Pass \/ UNCHANGED vars
    BY <2>4 DEF Pass, vars, lockVars
  <2>5. CASE Expire
    <3>1. lock = Lost /\ lock' = Nil /\ Running' = Running \ {Lost}
      BY <2>5 DEF Expire
    <3>2. LockLease!End
      BY <3>1 DEF LockLease!End
    <3> QED BY <3>1, <3>2 DEF LockLease!Next
  <2> QED BY <2>1, <2>2, <2>3, <2>4, <2>5 DEF Next
<1> QED BY <1>1, <1>2, Typing, TimedHolds, PTL DEF Spec, RefinesLease, LockLease!Spec

-----------------------------------------------------------------------------
(* Division of a number that may be negative. *)
LEMMA DivModInt ==
  ASSUME NEW a \in Int, NEW n \in Nat \ {0}
  PROVE  /\ a \div n \in Int /\ a % n \in 0 .. n - 1
         /\ a = n * (a \div n) + (a % n)
  OBVIOUS

LEMMA Quotient ==
  ASSUME NEW n \in Nat \ {0}, NEW q \in Int, NEW r \in 0 .. n - 1,
         NEW a \in Int, a = n * q + r
  PROVE  a \div n = q /\ a % n = r
<1> DEFINE p == a \div n
           s == a % n
<1>1. p \in Int /\ s \in 0 .. n - 1 /\ a = n * p + s
  BY DivModInt
<1> HIDE DEF p, s
<1>2. n * p \in Int /\ n * q \in Int
  BY <1>1
<1>3. n * p < n * q + n /\ n * q < n * p + n
  BY <1>1, <1>2
<1>4. p = q
  BY <1>1, <1>3, SameMultiple
<1>5. s = r
  BY <1>1, <1>2, <1>4
<1> QED BY <1>4, <1>5 DEF p, s

\* The time is a tick of n's wheel.
IsTick(n, time) == (time - phase[n]) % Interval = 0

(* From one point in time to the next there is one tick or none. *)
LEMMA TickNoStep ==
  ASSUME TypeOK, NEW n \in Nodes, NEW time \in Nat
  PROVE  /\ TickNo(n, time) \in Nat
         /\ TickNo(n, time + 1) = TickNo(n, time) + (IF IsTick(n, time + 1) THEN 1 ELSE 0)
<1> USE IntervalAssumption
<1> DEFINE a == time - phase[n]
           q == a \div Interval
           r == a % Interval
           b == (0 - phase[n]) \div Interval
           c == (0 - phase[n]) % Interval
<1>1. phase[n] \in Nat /\ a \in Int /\ 0 - phase[n] \in Int
  BY DEF TypeOK
<1>2. q \in Int /\ r \in 0 .. Interval - 1 /\ a = Interval * q + r
  <2> HIDE DEF a
  <2> QED BY <1>1, DivModInt
<1>3. b \in Int /\ c \in 0 .. Interval - 1 /\ 0 - phase[n] = Interval * b + c
  BY <1>1, DivModInt
<1>4. TickNo(n, time) = q - b
  BY DEF TickNo
<1>5. TickNo(n, time + 1) = ((a + 1) \div Interval) - b /\ (IsTick(n, time + 1) <=> (a + 1) % Interval = 0)
  <2> DEFINE x == (time + 1) - phase[n]
  <2>1. x = a + 1
    BY <1>1
  <2>2. TickNo(n, time + 1) = (x \div Interval) - b
    BY DEF TickNo
  <2>3. IsTick(n, time + 1) <=> x % Interval = 0
    BY DEF IsTick
  <2> HIDE DEF x, a, b
  <2> QED BY <2>1, <2>2, <2>3
<1>6. a >= 0 - phase[n]
  BY <1>1
<1> HIDE DEF a, q, r, b, c
<1>7. Interval * (q + 1) = Interval * q + Interval /\ Interval * q \in Int /\ Interval * b \in Int
  BY <1>2, <1>3
<1>8. b <= q
  <2>1. CASE q + 1 <= b
    <3>1. Interval * (q + 1) <= Interval * b
      BY <1>2, <1>3, <2>1
    <3> QED BY <1>1, <1>2, <1>3, <1>6, <1>7, <3>1
  <2> QED BY <1>2, <1>3, <2>1
<1>9. CASE r + 1 < Interval
  <2>1. (a + 1) \div Interval = q /\ (a + 1) % Interval = r + 1
    <3> DEFINE x == a + 1
               y == r + 1
    <3>1. x \in Int /\ y \in 0 .. Interval - 1 /\ x = Interval * q + y
      BY <1>1, <1>2, <1>7, <1>9
    <3> HIDE DEF x, y
    <3>2. x \div Interval = q /\ x % Interval = y
      BY <1>2, <3>1, Quotient
    <3> QED BY <3>2 DEF x, y
  <2>2. r + 1 # 0
    BY <1>2
  <2> QED BY <1>2, <1>3, <1>4, <1>5, <1>8, <2>1, <2>2
<1>10. CASE r + 1 = Interval
  <2>1. (a + 1) \div Interval = q + 1 /\ (a + 1) % Interval = 0
    <3>1. 0 \in 0 .. Interval - 1 /\ a + 1 = Interval * (q + 1) + 0 /\ q + 1 \in Int /\ a + 1 \in Int
      BY <1>1, <1>2, <1>7, <1>10
    <3> QED BY <3>1, Quotient
  <2> QED BY <1>2, <1>3, <1>4, <1>5, <1>8, <2>1
<1> QED BY <1>2, <1>9, <1>10

(* Two ticks with the same number are the same tick. *)
LEMMA SameTick ==
  ASSUME TypeOK, NEW n \in Nodes, NEW t \in Nat, NEW u \in Nat,
         IsTick(n, t), IsTick(n, u), TickNo(n, t) = TickNo(n, u)
  PROVE  t = u
<1> USE IntervalAssumption
<1> DEFINE a == t - phase[n]
           b == u - phase[n]
           base == (0 - phase[n]) \div Interval
<1>1. phase[n] \in Nat /\ a \in Int /\ b \in Int /\ 0 - phase[n] \in Int
  BY DEF TypeOK
<1>2. a % Interval = 0 /\ b % Interval = 0
  BY DEF IsTick
<1>3. (a \div Interval) - base = (b \div Interval) - base
  BY DEF TickNo
<1>4. base \in Int
  BY <1>1, DivModInt
<1>5. a = b
  <2> HIDE DEF a, b, base
  <2>1. /\ a \div Interval \in Int /\ a = Interval * (a \div Interval) + (a % Interval)
        /\ b \div Interval \in Int /\ b = Interval * (b \div Interval) + (b % Interval)
    BY <1>1, DivModInt
  <2>2. a \div Interval = b \div Interval
    BY <1>3, <1>4, <2>1
  <2> QED BY <1>2, <2>1, <2>2
<1> QED BY <1>1, <1>5

(* ScheduleJob gives the wheel a delay in ticks, and the entry fires at the  *)
(* tick that is so many after the next one.                                  *)
LEMMA ScheduleTick ==
  ASSUME TypeOK, NEW n \in Nodes, Schedule(n)
  PROVE  LET ticks == DurationToTicks(NextDelay(clock)) IN
           /\ NextDelay(clock) \in 1 .. Period
           /\ IsTick(n, at'[n]) /\ TickNo(n, at'[n]) = TickNo(n, clock) + ticks + 1
<1> USE IntervalAssumption, PeriodAssumption
<1> DEFINE k == DurationToTicks(NextDelay(clock))
           a == clock - phase[n]
           q == a \div Interval
           s == a % Interval
           base == (0 - phase[n]) \div Interval
<1>1. clock \in Nat /\ phase[n] \in Nat /\ a \in Int /\ 0 - phase[n] \in Int
  BY DEF TypeOK
<1>2. NextDelay(clock) \in 1 .. Period
  BY <1>1, NextRunIsNext DEF NextDelay
<1>3. k \in Nat
  <2>1. NextDelay(clock) \div Interval \in Nat
    BY <1>2, DivMod
  <2> QED BY <2>1 DEF DurationToTicks
<1>4. q \in Int /\ s \in 0 .. Interval - 1 /\ a = Interval * q + s
  <2> HIDE DEF a
  <2> QED BY <1>1, DivModInt
<1>5. base \in Int
  BY <1>1, DivModInt
<1>6. at'[n] = clock + Interval - s + Interval * k
  BY DEF Schedule, DueTime, NextTick, TypeOK
<1>7. TickNo(n, clock) = q - base
  BY DEF TickNo
<1> HIDE DEF k, q, s, base
<1>8. Interval * (q + 1 + k) = Interval * q + Interval + Interval * k
      /\ Interval * q \in Int /\ Interval * k \in Int
  BY <1>3, <1>4
<1>9. at'[n] - phase[n] = Interval * (q + 1 + k) + 0
  BY <1>1, <1>4, <1>6, <1>8
<1>10. (at'[n] - phase[n]) \div Interval = q + 1 + k /\ (at'[n] - phase[n]) % Interval = 0
  <2> DEFINE x == at'[n] - phase[n]
             y == q + 1 + k
  <2>1. 0 \in 0 .. Interval - 1 /\ y \in Int /\ x \in Int
    BY <1>1, <1>3, <1>4, <1>6, <1>8
  <2>2. x = Interval * y + 0
    BY <1>9
  <2> HIDE DEF x, y
  <2>3. x \div Interval = y /\ x % Interval = 0
    BY <2>1, <2>2, Quotient
  <2> QED BY <2>3 DEF x, y
<1>11. TickNo(n, at'[n]) = TickNo(n, clock) + k + 1
  BY <1>3, <1>4, <1>5, <1>7, <1>10 DEF TickNo, base
<1> QED BY <1>2, <1>10, <1>11 DEF IsTick, k

\* Entries are due at ticks of their wheel.
OnTicks == \A n \in Nodes : pc[n] = "waiting" => IsTick(n, at[n])

LEMMA OnTicksHolds == Spec => []OnTicks
<1>1. Init => OnTicks
  BY DEF Init, OnTicks
<1>2. TypeOK /\ OnTicks /\ [Next]_vars => OnTicks'
  <2> SUFFICES ASSUME TypeOK, OnTicks, [Next]_vars, NEW m \in Nodes, pc'[m] = "waiting"
               PROVE  IsTick(m, at[m])'
    BY DEF OnTicks
  <2>1. ASSUME NEW n \in Nodes, Load(n) \/ Rearm(n) PROVE IsTick(m, at[m])'
    <3>1. Schedule(n) /\ phase' = phase
      BY <2>1 DEF Load, Rearm
    <3>2. m = n => IsTick(m, at'[m])
      BY <3>1, ScheduleTick
    <3>3. m # n => pc'[m] = pc[m] /\ at'[m] = at[m]
      BY <3>1, ScheduleWaits
    <3> QED BY <3>1, <3>2, <3>3 DEF IsTick, OnTicks
  <2>2. ASSUME NEW n \in Nodes, Fire(n) \/ LockFails(n) PROVE IsTick(m, at[m])'
    <3>1. phase' = phase /\ pc[m] = "waiting" /\ at'[m] = at[m]
      BY <2>2, Firing DEF Triggers, Skips, TypeOK
    <3> QED BY <3>1 DEF IsTick, OnTicks
  <2>3. CASE Pass \/ Expire \/ UNCHANGED vars
    BY <2>3 DEF Pass, Expire, vars, IsTick, OnTicks
  <2> QED BY <2>1, <2>2, <2>3 DEF Next
<1> QED BY <1>1, <1>2, Typing, PTL DEF Spec

\* What the node's entry is to the abstract timer.
TimerDue(n) == IF pc[n] = "waiting" /\ clock < at[n] THEN TickNo(n, at[n]) ELSE 0
TimerRuns(n) == IF pc[n] = "waiting" /\ clock = at[n] THEN 1 ELSE 0

(* Every node's wheel keeps to the times an ideal timer with its ticks would *)
(* fire at: the due times the model computes are those that TimeWheel is     *)
(* shown to keep.                                                            *)
THEOREM WheelsAreTimers == Spec => RefinesTimer
<1> USE IntervalAssumption, PeriodAssumption
<1> DEFINE Same(n) == UNCHANGED <<TimerDue(n), TimerRuns(n), TickNo(n, clock)>>
<1>1. Init => \A n \in Nodes : Timer(n)!Init
  <2> SUFFICES ASSUME Init, NEW n \in Nodes PROVE Timer(n)!Init
    OBVIOUS
  <2>1. pc[n] = "down" /\ clock = 0 /\ phase[n] \in Int
    BY DEF Init
  <2>2. TickNo(n, clock) = 0
    <3>1. (0 - phase[n]) \div Interval \in Int
      BY <2>1, DivModInt
    <3> QED BY <2>1, <3>1 DEF TickNo
  <2> QED BY <2>1, <2>2 DEF Timer!Init
<1>2. ASSUME NEW n \in Nodes, Same(n) PROVE [Timer(n)!Next]_(Timer(n)!vars)
  BY <1>2 DEF Timer!vars, TimerDue, TimerRuns
<1>3. ASSUME TypeOK, TypeOK', Timed, OnTicks, Next, NEW n \in Nodes
      PROVE  [Timer(n)!Next]_(Timer(n)!vars)
  <2> USE <1>3
  <2>1. ASSUME NEW m \in Nodes, Load(m) \/ Rearm(m) PROVE [Timer(n)!Next]_(Timer(n)!vars)
    <3>1. Schedule(m) /\ phase' = phase /\ clock' = clock /\ pc[m] # "waiting"
      BY <2>1 DEF Load, Rearm
    <3>2. CASE m = n
      <4> DEFINE ticks == DurationToTicks(NextDelay(clock))
      <4>1. /\ pc'[n] = "waiting" /\ clock < at'[n]
            /\ TickNo(n, at'[n]) = TickNo(n, clock) + ticks + 1
            /\ ticks \in {DurationToTicks(d) : d \in 1 .. Period}
        <5>1. clock < at'[n]
          <6>1. clock \in Nat /\ at'[n] \in Nat /\ for'[n] \in Nat
            BY DEF TypeOK, Occurrences
          <6> QED BY <3>1, <3>2, <6>1, ScheduleWaits
        <5> QED BY <3>1, <3>2, <5>1, ScheduleWaits, ScheduleTick
      <4>2. /\ TimerDue(n) = 0 /\ TimerDue(n)' = TickNo(n, clock) + ticks + 1
            /\ TimerRuns(n) = 0 /\ TimerRuns(n)' = 0
            /\ TickNo(n, clock)' = TickNo(n, clock)
        <5>1. TickNo(n, at[n])' = TickNo(n, at'[n]) /\ TickNo(n, clock)' = TickNo(n, clock)
          BY <3>1 DEF TickNo
        <5>2. clock' < at'[n] /\ clock' # at'[n]
          BY <3>1, <4>1 DEF TypeOK
        <5> HIDE DEF ticks
        <5> QED BY <3>1, <3>2, <4>1, <5>1, <5>2 DEF TimerDue, TimerRuns
      <4> HIDE DEF ticks
      <4>3. Timer(n)!Schedule(n, ticks, 0)
        BY <4>2 DEF Timer!Schedule, TimerDue, TimerRuns
      <4> QED BY <4>1, <4>3 DEF Timer!Next
    <3>3. CASE m # n
      <4>1. pc'[n] = pc[n] /\ at'[n] = at[n]
        BY <3>1, <3>3, ScheduleWaits
      <4>2. Same(n)
        BY <3>1, <4>1 DEF TimerDue, TimerRuns, TickNo
      <4> QED BY <1>2, <4>2
    <3> QED BY <3>2, <3>3
  <2>2. ASSUME NEW m \in Nodes, Fire(m) \/ LockFails(m)
        PROVE  [Timer(n)!Next]_(Timer(n)!vars)
    <3>1. /\ pc[m] = "waiting" /\ clock = at[m] /\ phase' = phase /\ clock' = clock
          /\ \A o \in Nodes : pc'[o] # "waiting" \/ pc'[o] = pc[o]
          /\ \A o \in Nodes : o # m => pc'[o] = pc[o] /\ at'[o] = at[o]
          /\ pc'[m] # "waiting"
      BY <2>2, Firing DEF Triggers, Skips, TypeOK
    <3>2. TickNo(n, clock)' = TickNo(n, clock)
      BY <3>1 DEF TickNo
    <3>3. CASE m = n
      <4>1. /\ TimerDue(n) = 0 /\ TimerDue(n)' = 0
            /\ TimerRuns(n) = 1 /\ TimerRuns(n)' = 0
        <5>1. ~(clock < at[n])
          BY <3>1, <3>3 DEF TypeOK
        <5> QED BY <3>1, <3>3, <5>1 DEF TimerDue, TimerRuns
      <4>2. Timer(n)!Finish(n)
        BY <3>2, <4>1 DEF Timer!Finish, TimerDue, TimerRuns
      <4> QED BY <4>2 DEF Timer!Next
    <3>4. CASE m # n
      <4>1. Same(n)
        BY <3>1, <3>2, <3>4 DEF TimerDue, TimerRuns, TickNo
      <4> QED BY <1>2, <4>1
    <3> QED BY <3>3, <3>4
  <2>3. CASE Pass
    <3>1. /\ clock' = clock + 1 /\ UNCHANGED <<phase, pc, at>>
          /\ pc[n] = "waiting" => clock < at[n]
          /\ clock \in Nat /\ at[n] \in Nat
      BY <2>3 DEF Pass, TypeOK
    <3>2. /\ TickNo(n, clock)' = TickNo(n, clock + 1) /\ TickNo(n, clock) \in Nat
          /\ TickNo(n, clock + 1) = TickNo(n, clock) + (IF IsTick(n, clock + 1) THEN 1 ELSE 0)
      <4>1. TickNo(n, clock)' = TickNo(n, clock + 1)
        BY <3>1 DEF TickNo
      <4> QED BY <3>1, <4>1, TickNoStep
    <3>3. TickNo(n, at[n])' = TickNo(n, at[n])
      BY <3>1 DEF TickNo
    <3>4. TimerRuns(n) = 0
      BY <3>1 DEF TimerRuns
    <3>5. CASE pc[n] = "waiting" /\ at[n] = clock + 1
      <4>1. IsTick(n, clock + 1)
        BY <3>5 DEF OnTicks
      <4>2. /\ TickNo(n, clock)' = TickNo(n, clock) + 1
            /\ TimerDue(n) = TickNo(n, clock)' /\ TimerDue(n)' = 0 /\ TimerRuns(n)' = 1
        BY <3>1, <3>2, <3>5, <4>1 DEF TimerDue, TimerRuns
      <4>3. Timer(n)!Advance
        BY <3>2, <3>4, <4>2 DEF Timer!Advance, TimerDue, TimerRuns
      <4> QED BY <4>3 DEF Timer!Next
    <3>6. CASE ~(pc[n] = "waiting" /\ at[n] = clock + 1)
      <4>1. TimerDue(n)' = TimerDue(n) /\ TimerRuns(n)' = 0
        BY <3>1, <3>3, <3>6 DEF TimerDue, TimerRuns
      <4>2. CASE IsTick(n, clock + 1)
        <5>1. TickNo(n, clock)' = TickNo(n, clock) + 1
          BY <3>2, <4>2
        <5>2. TimerDue(n) # TickNo(n, clock)'
          <6>1. CASE pc[n] = "waiting"
            <7>1. IsTick(n, at[n]) /\ at[n] # clock + 1
              BY <3>6, <6>1 DEF OnTicks
            <7>2. TickNo(n, at[n]) # TickNo(n, clock + 1)
              BY <3>1, <4>2, <7>1, SameTick
            <7> QED BY <3>1, <3>2, <6>1, <7>2 DEF TimerDue
          <6>2. CASE pc[n] # "waiting"
            BY <3>2, <5>1, <6>2 DEF TimerDue
          <6> QED BY <6>1, <6>2
        <5>3. Timer(n)!Advance
          BY <3>2, <3>4, <4>1, <5>1, <5>2 DEF Timer!Advance, TimerDue, TimerRuns
        <5> QED BY <5>3 DEF Timer!Next
      <4>3. CASE ~IsTick(n, clock + 1)
        <5>1. Same(n)
          BY <3>2, <3>4, <4>1, <4>3
        <5> QED BY <1>2, <5>1
      <4> QED BY <4>2, <4>3
    <3> QED BY <3>5, <3>6
  <2>4. CASE Expire
    <3>1. Same(n)
      BY <2>4 DEF Expire, TimerDue, TimerRuns, TickNo
    <3> QED BY <1>2, <3>1
  <2> QED BY <2>1, <2>2, <2>3, <2>4 DEF Next
<1>4. TypeOK /\ TypeOK' /\ Timed /\ OnTicks /\ [Next]_vars
        => [\A n \in Nodes : [Timer(n)!Next]_(Timer(n)!vars)]_vars
  BY <1>2, <1>3
<1> QED BY <1>1, <1>4, Typing, TimedHolds, OnTicksHolds, PTL DEF Spec, RefinesTimer
=============================================================================
