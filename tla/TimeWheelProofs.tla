--------------------------- MODULE TimeWheelProofs ---------------------------
(* Theorems about TimeWheel for every wheel size, interval and job set.     *)
EXTENDS TimeWheel, TLAPS

-----------------------------------------------------------------------------
(* Arithmetic of the slot computation in addTask and tick.                  *)

(* Go's a / n and a % n on integers that are not negative. *)
LEMMA DivMod ==
  ASSUME NEW a \in Nat, NEW n \in Nat \ {0}
  PROVE  /\ a \div n \in Nat
         /\ a % n \in 0 .. n - 1
         /\ a = n * (a \div n) + (a % n)
OBVIOUS

(* Quotient and remainder are unique. *)
LEMMA DivModUnique ==
  ASSUME NEW n \in Nat \ {0}, NEW q \in Int, NEW r \in 0 .. n - 1,
         NEW s \in Int, NEW t \in 0 .. n - 1, n * q + r = n * s + t
  PROVE  q = s /\ r = t
<1>1. n * (q - s) = t - r
  OBVIOUS
<1>2. ~(q - s >= 1)
  <2>1. q - s >= 1 => n * (q - s) >= n
    OBVIOUS
  <2> QED BY <1>1, <2>1
<1>3. ~(s - q >= 1)
  <2>1. s - q >= 1 => n * (s - q) >= n
    OBVIOUS
  <2>2. n * (s - q) = r - t
    BY <1>1
  <2> QED BY <2>1, <2>2
<1> QED BY <1>2, <1>3

(* A step of k slots from slot c, taken modulo the number of slots. *)
LEMMA WrapAround ==
  ASSUME NEW n \in Nat \ {0}, NEW c \in 0 .. n - 1, NEW k \in Nat
  PROVE  (c + k) % n = IF c + (k % n) < n THEN c + (k % n) ELSE c + (k % n) - n
<1> DEFINE q == k \div n
           r == k % n
           s == (c + k) \div n
           t == (c + k) % n
<1>1. q \in Nat /\ r \in 0 .. n - 1 /\ k = n * q + r
  BY DivMod
<1>2. s \in Nat /\ t \in 0 .. n - 1 /\ c + k = n * s + t
  <2>1. c + k \in Nat
    OBVIOUS
  <2> QED BY <2>1, DivMod
<1> HIDE DEF q, r, s, t
<1>3. CASE c + r < n
  <2>1. n * q + (c + r) = n * s + t /\ c + r \in 0 .. n - 1
    BY <1>1, <1>2, <1>3
  <2>2. c + r = t
    BY <2>1, <1>1, <1>2, DivModUnique
  <2> QED BY <2>2, <1>3 DEF r, t
<1>4. CASE c + r >= n
  <2> DEFINE q1 == q + 1
             r1 == c + r - n
  <2>1. n * q1 = n * q + n
    BY <1>1
  <2>2. n * q1 + r1 = n * s + t /\ q1 \in Int /\ r1 \in 0 .. n - 1
    BY <1>1, <1>2, <1>4, <2>1
  <2> HIDE DEF q1, r1
  <2>3. s \in Int
    BY <1>2
  <2>4. q1 = s /\ r1 = t
    BY <2>2, <2>3, <1>2, DivModUnique
  <2> QED BY <2>4, <1>4, <1>1 DEF r, t, r1
<1> QED BY <1>1, <1>3, <1>4

(* durationToTicks never returns less than one tick. *)
LEMMA TicksPositive ==
  ASSUME NEW d \in Int
  PROVE  DurationToTicks(d) \in Nat \ {0}
<1>1. CASE d <= 0
  BY <1>1 DEF DurationToTicks
<1>2. CASE d > 0
  <2>0. d \in Nat
    BY <1>2
  <2>1. /\ d \div Interval \in Nat
        /\ d % Interval \in 0 .. Interval - 1
        /\ d = Interval * (d \div Interval) + (d % Interval)
    BY <2>0, IntervalAssumption, DivMod
  <2>2. d \div Interval = 0 => d % Interval # 0
    BY <2>1, <1>2, IntervalAssumption
  <2> QED BY <2>1, <2>2, <1>2 DEF DurationToTicks
<1> QED BY <1>1, <1>2

(* durationToTicks rounds up: that many ticks cover the delay, and one tick  *)
(* less would not.                                                           *)
THEOREM TicksCoverDelay ==
  ASSUME NEW d \in Nat \ {0}
  PROVE  /\ d <= Interval * DurationToTicks(d)
         /\ Interval * (DurationToTicks(d) - 1) < d
<1> DEFINE q == d \div Interval
           r == d % Interval
<1>1. q \in Nat /\ r \in 0 .. Interval - 1 /\ d = Interval * q + r
  BY IntervalAssumption, DivMod
<1>2. DurationToTicks(d) = IF r # 0 THEN q + 1 ELSE q
  BY <1>1, IntervalAssumption DEF DurationToTicks
<1> HIDE DEF q, r
<1>3. Interval * (q + 1) = Interval * q + Interval /\ Interval * (q - 1) = Interval * q - Interval
  BY <1>1, IntervalAssumption
<1> QED BY <1>1, <1>2, <1>3, IntervalAssumption

(* The slot and the rounds addTask and tick choose are worth the ticks asked *)
(* for: the distance to the slot plus the whole turns is their number.       *)
LEMMA Placement ==
  ASSUME currentPos \in Pos, NEW ticks \in Nat \ {0}
  PROVE  /\ SlotAfter(ticks) \in Pos
         /\ RoundsAfter(ticks) \in Nat
         /\ Distance(SlotAfter(ticks)) + RoundsAfter(ticks) * SlotNum = ticks
         /\ SlotAfter(ticks) = currentPos <=> ticks % SlotNum = 0
         /\ SlotAfter(ticks) = currentPos => RoundsAfter(ticks) >= 1
<1> DEFINE q == ticks \div SlotNum
           r == ticks % SlotNum
<1>1. q \in Nat /\ r \in 0 .. SlotNum - 1 /\ ticks = SlotNum * q + r
  BY SlotNumAssumption, DivMod
<1>2. SlotAfter(ticks) = IF currentPos + r < SlotNum THEN currentPos + r
                         ELSE currentPos + r - SlotNum
  BY SlotNumAssumption, WrapAround DEF SlotAfter, Pos
<1>3. RoundsAfter(ticks) = q
  BY DEF RoundsAfter
<1> HIDE DEF q, r
<1>4. SlotAfter(ticks) \in Pos /\ Distance(SlotAfter(ticks)) = r
  BY <1>1, <1>2, SlotNumAssumption DEF Pos, Distance
<1>5. SlotAfter(ticks) = currentPos <=> r = 0
  BY <1>1, <1>2, SlotNumAssumption DEF Pos
<1>6. r = 0 => q >= 1
  BY <1>1, SlotNumAssumption
<1> QED BY <1>1, <1>3, <1>4, <1>5, <1>6, SlotNumAssumption DEF r

-----------------------------------------------------------------------------
(* Type correctness. *)

LEMMA AddTaskType ==
  ASSUME TypeOK, NEW j \in Jobs, NEW delay \in Int, NEW recurring \in BOOLEAN,
         NEW interval \in Int, AddTask(j, delay, recurring, interval)
  PROVE  TypeOK'
<1> DEFINE ticks == DurationToTicks(delay)
<1>1. ticks \in Nat \ {0}
  BY TicksPositive
<1> HIDE DEF ticks
<1>2. SlotAfter(ticks) \in Pos /\ RoundsAfter(ticks) \in Nat
  BY <1>1, Placement DEF TypeOK
<1>3. [rounds |-> RoundsAfter(ticks), interval |-> interval,
       recurring |-> recurring, cancelled |-> FALSE] \in Task
  BY <1>2 DEF Task
<1>4. slots' \in [Pos -> [Jobs -> Task \cup {Nil}]]
  BY <1>2, <1>3 DEF TypeOK, AddTask, ticks
<1>5. taskIndex' \in [Jobs -> Pos \cup {Nil}]
  BY <1>2 DEF TypeOK, AddTask, ticks
<1> QED BY <1>4, <1>5 DEF TypeOK, AddTask, lifeVars

(* What tick leaves in a slot is a task or nothing: rounds never go below 0. *)
LEMMA TickEntryType ==
  ASSUME TypeOK, NEW p \in Pos, NEW j \in Jobs, NEW revisited \in SUBSET MayBeRevisited
  PROVE  SlotEntryAfterTick(p, j, revisited) \in Task \cup {Nil}
<1>1. CASE Renewed(j) /\ p = SlotAfter(RenewTicks(j))
  <2>1. slots[currentPos][j] \in Task
    BY <1>1 DEF TypeOK, Renewed, Expired, Stored
  <2>2. RenewTicks(j) \in Nat \ {0}
    BY <2>1, TicksPositive DEF Task, RenewTicks
  <2>3. RoundsAfter(RenewTicks(j)) \in Nat
    BY <2>2, Placement DEF TypeOK
  <2>4. j \in revisited => RoundsAfter(RenewTicks(j)) >= 1
    BY <2>2, Placement DEF TypeOK, MayBeRevisited
  <2>5. RoundsAfter(RenewTicks(j)) - (IF j \in revisited THEN 1 ELSE 0) \in Nat
    BY <2>3, <2>4
  <2> QED BY <1>1, <2>1, <2>5 DEF SlotEntryAfterTick, Task
<1>2. CASE ~(Renewed(j) /\ p = SlotAfter(RenewTicks(j))) /\ (p # currentPos \/ ~Stored(j))
  BY <1>2 DEF SlotEntryAfterTick, TypeOK
<1>3. CASE /\ ~(Renewed(j) /\ p = SlotAfter(RenewTicks(j)))
           /\ p = currentPos /\ Stored(j)
           /\ ~Cancelled(j) /\ ~Expired(j)
  <2>1. slots[p][j] \in Task /\ slots[p][j].rounds # 0
    BY <1>3 DEF TypeOK, Stored, Cancelled, Expired
  <2>2. slots[p][j].rounds - 1 \in Nat
    BY <2>1 DEF Task
  <2> QED BY <1>3, <2>1, <2>2 DEF SlotEntryAfterTick, Task
<1> QED BY <1>1, <1>2, <1>3 DEF SlotEntryAfterTick

LEMMA TickType ==
  ASSUME TypeOK, Tick
  PROVE  TypeOK'
<1>1. slots' \in [Pos -> [Jobs -> Task \cup {Nil}]]
  <2>1. PICK revisited \in SUBSET MayBeRevisited :
          slots' = [p \in Pos |-> [j \in Jobs |-> SlotEntryAfterTick(p, j, revisited)]]
    BY DEF Tick
  <2> QED BY <2>1, TickEntryType
<1>2. taskIndex' \in [Jobs -> Pos \cup {Nil}]
  <2>1. ASSUME NEW j \in Jobs PROVE IndexAfterTick(j) \in Pos \cup {Nil}
    <3>1. CASE Renewed(j)
      <4>1. slots[currentPos][j] \in Task
        BY <3>1 DEF TypeOK, Renewed, Expired, Stored
      <4>2. RenewTicks(j) \in Nat \ {0}
        BY <4>1, TicksPositive DEF Task, RenewTicks
      <4> QED BY <3>1, <4>2, Placement DEF IndexAfterTick, TypeOK
    <3>2. CASE ~Renewed(j)
      BY <3>2 DEF IndexAfterTick, TypeOK
    <3> QED BY <3>1, <3>2
  <2> QED BY <2>1 DEF Tick
<1>3. launched' \in [Jobs -> Nat]
  BY DEF TypeOK, Tick
<1>4. currentPos' \in Pos
  BY SlotNumAssumption, WrapAround DEF TypeOK, Tick, Pos
<1> QED BY <1>1, <1>2, <1>3, <1>4 DEF TypeOK, Tick, lifeVars

LEMMA InitType == Init => TypeOK
<1>1. Init => currentPos \in Pos
  BY SlotNumAssumption DEF Init, Pos
<1>2. Init => slots \in [Pos -> [Jobs -> Task \cup {Nil}]]
  BY DEF Init
<1>3. Init => taskIndex \in [Jobs -> Pos \cup {Nil}]
  BY DEF Init
<1>4. Init => launched \in [Jobs -> Nat] /\ loops \in Nat /\ now \in Nat
  BY DEF Init
<1>5. Init => running \in BOOLEAN /\ stopClosed \in BOOLEAN /\ doneClosed \in BOOLEAN /\ crashed \in BOOLEAN
  BY DEF Init
<1>6. Init => stopper \in {"none", "waiting", "returned"}
  BY DEF Init
<1> QED BY <1>1, <1>2, <1>3, <1>4, <1>5, <1>6 DEF TypeOK

(* Every variable keeps its type for every wheel. *)
THEOREM Typing == Spec => []TypeOK
<1>1. Init => TypeOK
  BY InitType
<1>2. TypeOK /\ [Next]_vars => TypeOK'
  <2> SUFFICES ASSUME TypeOK, [Next]_vars PROVE TypeOK'
    OBVIOUS
  <2>1. CASE Start
    BY <2>1 DEF TypeOK, Start, wheelVars
  <2>2. CASE StopBegin
    BY <2>2 DEF TypeOK, StopBegin, wheelVars
  <2>3. CASE StopReturn
    BY <2>3 DEF TypeOK, StopReturn, wheelVars
  <2>4. CASE LoopExit
    BY <2>4 DEF TypeOK, LoopExit, wheelVars
  <2>5. CASE Tick
    BY <2>5, TickType
  <2>6. ASSUME NEW j \in Jobs, NEW d \in Delays, AddJob(j, d) PROVE TypeOK'
    <3>1. AddTask(j, d, FALSE, 0)
      BY <2>6, Zenon DEF AddJob
    <3>2. d \in Int /\ 0 \in Int /\ FALSE \in BOOLEAN
      BY InputAssumption
    <3> QED BY <3>1, <3>2, AddTaskType, Zenon
  <2>7. ASSUME NEW j \in Jobs, NEW d \in Periods, AddRecurringJob(j, d) PROVE TypeOK'
    BY <2>7, AddTaskType, InputAssumption DEF AddRecurringJob
  <2>8. ASSUME NEW j \in Jobs, RemoveJob(j) PROVE TypeOK'
    BY <2>8 DEF TypeOK, RemoveJob, lifeVars
  <2>9. ASSUME NEW j \in Jobs, RunCallback(j) PROVE TypeOK'
    BY <2>9 DEF TypeOK, RunCallback, wheelVars, lifeVars
  <2>10. CASE UNCHANGED vars
    BY <2>10 DEF TypeOK, vars, wheelVars, lifeVars
  <2> QED BY <2>1, <2>2, <2>3, <2>4, <2>5, <2>6, <2>7, <2>8, <2>9, <2>10 DEF Next
<1> QED BY <1>1, <1>2, PTL DEF Spec

-----------------------------------------------------------------------------
(* The index and the slots agree. *)

\* The invariant the proofs below carry: every stored recurring interval is
\* one that AddRecurringJob was given.
PeriodsKnown ==
  \A j \in Jobs, p \in Pos :
    (slots[p][j] # Nil /\ slots[p][j].recurring) => slots[p][j].interval \in Periods

IndInv == TypeOK /\ IndexAgrees /\ PeriodsKnown

LEMMA AddTaskIndInv ==
  ASSUME IndInv, NEW j \in Jobs, NEW delay \in Int, NEW recurring \in BOOLEAN,
         NEW interval \in Int, AddTask(j, delay, recurring, interval),
         recurring => interval \in Periods
  PROVE  IndInv'
<1> DEFINE ticks == DurationToTicks(delay)
           task  == [rounds |-> RoundsAfter(ticks), interval |-> interval,
                     recurring |-> recurring, cancelled |-> FALSE]
<1>1. TypeOK'
  BY AddTaskType DEF IndInv
<1>2. SlotAfter(ticks) \in Pos /\ RoundsAfter(ticks) \in Nat
  BY TicksPositive, Placement DEF IndInv, TypeOK
<1>3. task \in Task
  BY <1>2 DEF Task
<1>4. /\ task # Nil /\ ~task.cancelled /\ task.interval = interval
      /\ task.recurring => interval \in Periods
  BY <1>3, NilAssumption
<1>5. slots' = [slots EXCEPT ![SlotAfter(ticks)][j] = task]
  BY DEF AddTask
<1>6. taskIndex' = [taskIndex EXCEPT ![j] = SlotAfter(ticks)] /\ taskIndex[j] = Nil
  BY DEF AddTask
<1> HIDE DEF ticks, task
<1>7. ASSUME NEW i \in Jobs, NEW p \in Pos
      PROVE  /\ slots'[p][i] = IF i = j /\ p = SlotAfter(ticks) THEN task ELSE slots[p][i]
             /\ taskIndex'[i] = IF i = j THEN SlotAfter(ticks) ELSE taskIndex[i]
             /\ taskIndex[j] # p
  BY <1>2, <1>5, <1>6, NilAssumption DEF IndInv, TypeOK, Pos
<1>8. IndexAgrees'
  BY <1>4, <1>7 DEF IndInv, IndexAgrees
<1>9. PeriodsKnown'
  BY <1>4, <1>7 DEF IndInv, PeriodsKnown
<1> QED BY <1>1, <1>8, <1>9 DEF IndInv

LEMMA RemoveJobIndInv ==
  ASSUME IndInv, NEW j \in Jobs, RemoveJob(j), TypeOK'
  PROVE  IndInv'
<1>1. ASSUME NEW i \in Jobs, NEW p \in Pos
      PROVE  /\ slots'[p][i] = IF i = j /\ p = taskIndex[j] THEN Nil ELSE slots[p][i]
             /\ taskIndex'[i] = IF i = j THEN Nil ELSE taskIndex[i]
             /\ p # Nil
  BY NilAssumption DEF IndInv, TypeOK, RemoveJob, Pos
<1> QED BY <1>1 DEF IndInv, IndexAgrees, PeriodsKnown

LEMMA TickIndInv ==
  ASSUME IndInv, Tick, TypeOK'
  PROVE  IndInv'
<1>0. PICK revisited \in SUBSET MayBeRevisited :
      slots' = [p \in Pos |-> [j \in Jobs |-> SlotEntryAfterTick(p, j, revisited)]]
  BY DEF Tick
<1>1. ASSUME NEW j \in Jobs, NEW p \in Pos
      PROVE  /\ slots'[p][j] # Nil <=> taskIndex'[j] = p
             /\ slots'[p][j] # Nil =>
                  /\ ~slots'[p][j].cancelled
                  /\ slots'[p][j].recurring => slots'[p][j].interval \in Periods
  <2>1. /\ slots'[p][j] = SlotEntryAfterTick(p, j, revisited)
        /\ taskIndex'[j] = IndexAfterTick(j)
    BY <1>0 DEF Tick
  <2>2. /\ currentPos \in Pos /\ p # Nil
        /\ slots[p][j] \in Task \cup {Nil}
        /\ slots[currentPos][j] \in Task \cup {Nil}
    <3>1. p # Nil
      BY NilAssumption DEF Pos
    <3> QED BY <3>1 DEF IndInv, TypeOK
  <2>3. ~Cancelled(j)
    BY <2>2 DEF IndInv, IndexAgrees, Cancelled, Stored
  <2>4. Stored(j) <=> taskIndex[j] = currentPos
    BY <2>2 DEF IndInv, IndexAgrees, Stored
  <2>5. CASE Renewed(j)
    <3>1. slots[currentPos][j] \in Task
      BY <2>2, <2>5 DEF Renewed, Expired, Stored
    <3>2. CASE p = SlotAfter(RenewTicks(j))
      <4> DEFINE n == RoundsAfter(RenewTicks(j)) - (IF j \in revisited THEN 1 ELSE 0)
      <4>1. slots'[p][j] = [slots[currentPos][j] EXCEPT !.rounds = n]
        BY <2>1, <2>5, <3>2 DEF SlotEntryAfterTick
      <4> HIDE DEF n
      <4>2. /\ slots'[p][j].cancelled = slots[currentPos][j].cancelled
            /\ slots'[p][j].recurring = slots[currentPos][j].recurring
            /\ slots'[p][j].interval = slots[currentPos][j].interval
        BY <3>1, <4>1 DEF Task
      <4>3. slots'[p][j] # Nil
        <5>2. RenewTicks(j) \in Nat \ {0}
          BY <3>1, TicksPositive DEF Task, RenewTicks
        <5>3. RoundsAfter(RenewTicks(j)) \in Nat
          BY <5>2, Placement DEF IndInv, TypeOK
        <5>4. j \in revisited => RoundsAfter(RenewTicks(j)) >= 1
          BY <5>2, Placement DEF IndInv, TypeOK, MayBeRevisited
        <5>5. n \in Nat
          BY <5>3, <5>4 DEF n
        <5>6. slots'[p][j] \in Task
          BY <5>5, <3>1, <4>1 DEF Task
        <5> QED BY <5>6, NilAssumption
      <4>4. slots[currentPos][j].interval \in Periods
        BY <2>2, <2>5 DEF IndInv, PeriodsKnown, Renewed, Expired, Stored
      <4>5. ~slots[currentPos][j].cancelled
        BY <2>3, <2>5 DEF Renewed, Expired, Cancelled
      <4> QED BY <2>1, <2>5, <3>2, <4>2, <4>3, <4>4, <4>5 DEF IndexAfterTick
    <3>3. CASE p # SlotAfter(RenewTicks(j))
      <4>1. slots'[p][j] = Nil
        <5>1. p # currentPos => slots[p][j] = Nil
          BY <2>2, <2>4, <2>5 DEF IndInv, IndexAgrees, Renewed, Expired
        <5> QED BY <2>1, <2>5, <3>3, <5>1 DEF SlotEntryAfterTick, Renewed, Expired
      <4> QED BY <2>1, <2>5, <3>3, <4>1 DEF IndexAfterTick
    <3> QED BY <3>2, <3>3
  <2>6. CASE Expired(j) /\ ~Renewed(j)
    <3>1. slots'[p][j] = Nil
      BY <2>1, <2>2, <2>4, <2>6 DEF SlotEntryAfterTick, IndInv, IndexAgrees, Expired
    <3> QED BY <2>1, <2>2, <2>6, <3>1 DEF IndexAfterTick
  <2>7. CASE ~Expired(j)
    <3>1. ~Renewed(j)
      BY <2>7 DEF Renewed
    <3>2. taskIndex'[j] = taskIndex[j]
      BY <2>1, <2>3, <2>7, <3>1 DEF IndexAfterTick
    <3>3. CASE p = currentPos /\ Stored(j)
      <4>1. slots'[p][j] = [slots[p][j] EXCEPT !.rounds = @ - 1] /\ slots[p][j] \in Task
        BY <2>1, <2>2, <2>3, <2>7, <3>1, <3>3 DEF SlotEntryAfterTick, Stored
      <4>2. slots[p][j].rounds # 0
        BY <2>3, <2>7, <3>3 DEF Expired
      <4>3. slots'[p][j] \in Task
        BY <4>1, <4>2 DEF Task
      <4>4. /\ slots'[p][j] # Nil
            /\ slots'[p][j].cancelled = slots[p][j].cancelled
            /\ slots'[p][j].recurring = slots[p][j].recurring
            /\ slots'[p][j].interval = slots[p][j].interval
        BY <4>1, <4>3, NilAssumption DEF Task
      <4>5. taskIndex[j] = p /\ slots[p][j] # Nil
        BY <2>4, <3>3 DEF Stored
      <4> QED BY <3>2, <4>4, <4>5 DEF IndInv, IndexAgrees, PeriodsKnown
    <3>4. CASE p # currentPos \/ ~Stored(j)
      <4>1. slots'[p][j] = slots[p][j]
        BY <2>1, <3>1, <3>4 DEF SlotEntryAfterTick
      <4> QED BY <3>2, <4>1 DEF IndInv, IndexAgrees, PeriodsKnown
    <3> QED BY <3>3, <3>4
  <2> QED BY <2>5, <2>6, <2>7
<1> QED BY <1>1 DEF IndInv, IndexAgrees, PeriodsKnown

LEMMA IndInvHolds == Spec => []IndInv
<1>1. Init => IndInv
  <2>1. Init => TypeOK
    BY InitType
  <2>2. ASSUME Init, NEW j \in Jobs, NEW p \in Pos PROVE slots[p][j] = Nil /\ taskIndex[j] # p
    BY <2>2, NilAssumption DEF Init, Pos
  <2> QED BY <2>1, <2>2 DEF IndInv, IndexAgrees, PeriodsKnown
<1>2. IndInv /\ TypeOK' /\ [Next]_vars => IndInv'
  <2> SUFFICES ASSUME IndInv, TypeOK', [Next]_vars PROVE IndInv'
    OBVIOUS
  <2>1. CASE Tick
    BY <2>1, TickIndInv
  <2>2. ASSUME NEW j \in Jobs, NEW d \in Delays, AddJob(j, d) PROVE IndInv'
    <3>1. AddTask(j, d, FALSE, 0)
      BY <2>2, Zenon DEF AddJob
    <3>2. d \in Int /\ 0 \in Int /\ FALSE \in BOOLEAN
      BY InputAssumption
    <3> QED BY <3>1, <3>2, AddTaskIndInv, Zenon
  <2>3. ASSUME NEW j \in Jobs, NEW d \in Periods, AddRecurringJob(j, d) PROVE IndInv'
    BY <2>3, AddTaskIndInv, InputAssumption DEF AddRecurringJob
  <2>4. ASSUME NEW j \in Jobs, RemoveJob(j) PROVE IndInv'
    BY <2>4, RemoveJobIndInv
  <2>5. CASE UNCHANGED <<slots, taskIndex>>
    BY <2>5 DEF IndInv, IndexAgrees, PeriodsKnown
  <2>6. CASE Start \/ StopBegin \/ StopReturn \/ LoopExit \/ UNCHANGED vars
    BY <2>5, <2>6 DEF Start, StopBegin, StopReturn, LoopExit, vars, wheelVars
  <2>7. ASSUME NEW j \in Jobs, RunCallback(j) PROVE IndInv'
    BY <2>5, <2>7 DEF RunCallback, wheelVars
  <2> QED BY <2>1, <2>2, <2>3, <2>4, <2>6, <2>7 DEF Next
<1> QED BY <1>1, <1>2, Typing, PTL DEF Spec

(* In every reachable state the index names the one slot that holds a job.  *)
THEOREM IndexAgreement == Spec => []IndexAgrees
<1>1. IndInv => IndexAgrees
  BY DEF IndInv
<1> QED BY <1>1, IndInvHolds, PTL
-----------------------------------------------------------------------------
(* Stop waits for the loop, and nothing panics before a restart. *)

\* Until a stopped wheel is started again it has one loop from Start to the
\* closing of doneCh, and Stop returns only after that.
LifecycleInv ==
  /\ PanicNeedsRestart
  /\ ~crashed =>
    /\ ~stopClosed => /\ loops = IF running THEN 1 ELSE 0
                      /\ ~doneClosed /\ stopper = "none"
    /\ (stopClosed /\ ~running) => loops = IF doneClosed THEN 0 ELSE 1
    /\ stopper = "returned" => doneClosed

LEMMA LifecycleInvHolds == Spec => []LifecycleInv
<1>1. Init => LifecycleInv
  BY DEF Init, LifecycleInv, PanicNeedsRestart
<1>2. TypeOK /\ LifecycleInv /\ [Next]_vars => LifecycleInv'
  <2> SUFFICES ASSUME TypeOK, LifecycleInv, [Next]_vars PROVE LifecycleInv'
    OBVIOUS
  <2> USE DEF LifecycleInv, PanicNeedsRestart
  <2>1. CASE Start
    BY <2>1 DEF Start, TypeOK
  <2>2. CASE StopBegin
    BY <2>2 DEF StopBegin, TypeOK
  <2>3. CASE StopReturn
    BY <2>3 DEF StopReturn, TypeOK
  <2>4. CASE LoopExit
    BY <2>4 DEF LoopExit, TypeOK
  <2>5. CASE UNCHANGED lifeVars
    BY <2>5 DEF lifeVars
  <2>6. CASE Tick
    BY <2>5, <2>6 DEF Tick
  <2>7. ASSUME NEW j \in Jobs, NEW d \in Delays, AddJob(j, d) PROVE LifecycleInv'
    BY <2>5, <2>7 DEF AddJob, AddTask
  <2>8. ASSUME NEW j \in Jobs, NEW d \in Periods, AddRecurringJob(j, d) PROVE LifecycleInv'
    BY <2>5, <2>8 DEF AddRecurringJob, AddTask
  <2>9. ASSUME NEW j \in Jobs, RemoveJob(j) \/ RunCallback(j) PROVE LifecycleInv'
    BY <2>5, <2>9 DEF RemoveJob, RunCallback
  <2>10. CASE UNCHANGED vars
    BY <2>5, <2>10 DEF vars
  <2> QED BY <2>1, <2>2, <2>3, <2>4, <2>6, <2>7, <2>8, <2>9, <2>10 DEF Next
<1> QED BY <1>1, <1>2, Typing, PTL DEF Spec

(* A Stop that has returned left no loop goroutine behind. *)
THEOREM StopWaits == Spec => []StopWaitsForLoop
<1>1. TypeOK /\ LifecycleInv => StopWaitsForLoop
  BY DEF TypeOK, LifecycleInv, StopWaitsForLoop
<1> QED BY <1>1, LifecycleInvHolds, Typing, PTL

(* Calls of Start and Stop in any order and at any time end the process only *)
(* once a stopped wheel has been started again.                              *)
THEOREM OnlyRestartPanics == Spec => []PanicNeedsRestart
<1>1. LifecycleInv => PanicNeedsRestart
  BY DEF LifecycleInv
<1> QED BY <1>1, LifecycleInvHolds, PTL

-----------------------------------------------------------------------------
(* The tick at which a job fires. *)

(* Whole turns push a task past the current turn and nothing else does. *)
LEMMA TurnsAreFar ==
  ASSUME NEW n \in Nat \ {0}, NEW r \in Nat
  PROVE  r * n \in Nat /\ (r * n = 0 <=> r = 0) /\ (r - 1) * n = r * n - n
OBVIOUS

(* What Due and Period say of an indexed and of a missing job. *)
LEMMA DueOfStored ==
  ASSUME IndInv, NEW j \in Jobs
  PROVE  /\ taskIndex[j] = Nil => Due[j] = 0 /\ Period[j] = 0
         /\ \A p \in Pos : taskIndex[j] = p =>
              /\ slots[p][j] \in Task
              /\ Due[j] = now + 1 + Distance(p) + slots[p][j].rounds * SlotNum
              /\ Due[j] > now
              /\ Due[j] \in Nat
              /\ Period[j] = IF slots[p][j].recurring
                               THEN DurationToTicks(slots[p][j].interval) ELSE 0
         /\ Due[j] = 0 <=> taskIndex[j] = Nil
         /\ Due[j] = now + 1 <=> Expired(j)
<1>1. taskIndex[j] \in Pos \cup {Nil} /\ Nil \notin Pos
  BY NilAssumption DEF IndInv, TypeOK, Pos
<1>2. taskIndex[j] = Nil => Due[j] = 0 /\ Period[j] = 0
  BY DEF Due, Period
<1>3. ASSUME NEW p \in Pos, taskIndex[j] = p
      PROVE  /\ slots[p][j] \in Task
             /\ Due[j] = now + 1 + Distance(p) + slots[p][j].rounds * SlotNum
             /\ Due[j] > now
             /\ Due[j] \in Nat
             /\ Period[j] = IF slots[p][j].recurring
                              THEN DurationToTicks(slots[p][j].interval) ELSE 0
             /\ Due[j] = now + 1 <=> p = currentPos /\ slots[p][j].rounds = 0
  <2>1. slots[p][j] \in Task
    BY <1>3 DEF IndInv, TypeOK, IndexAgrees
  <2>2. Due[j] = now + 1 + Distance(p) + slots[p][j].rounds * SlotNum
    BY <1>1, <1>3 DEF Due, DueAt
  <2>3. Distance(p) \in Nat /\ (Distance(p) = 0 <=> p = currentPos)
    BY SlotNumAssumption DEF IndInv, TypeOK, Pos, Distance
  <2>4. /\ slots[p][j].rounds * SlotNum \in Nat
        /\ slots[p][j].rounds * SlotNum = 0 <=> slots[p][j].rounds = 0
    BY <2>1, SlotNumAssumption, TurnsAreFar DEF Task
  <2>5. Period[j] = IF slots[p][j].recurring
                      THEN DurationToTicks(slots[p][j].interval) ELSE 0
    BY <1>1, <1>3 DEF Period
  <2>6. now \in Nat
    BY DEF IndInv, TypeOK
  <2> QED BY <2>1, <2>2, <2>3, <2>4, <2>5, <2>6
<1>4. Expired(j) <=> taskIndex[j] = currentPos /\ slots[currentPos][j].rounds = 0
  BY DEF IndInv, TypeOK, IndexAgrees, Expired, Cancelled, Stored
<1>5. now \in Nat /\ currentPos \in Pos
  BY DEF IndInv, TypeOK
<1>6. taskIndex[j] = Nil => ~Expired(j)
  BY <1>1, <1>4, <1>5
<1> QED BY <1>1, <1>2, <1>3, <1>4, <1>5, <1>6

(* addTask promises the first tick at which the whole delay has passed. *)
LEMMA AddTaskDue ==
  ASSUME IndInv, IndInv', NEW j \in Jobs, NEW delay \in Int, NEW recurring \in BOOLEAN,
         NEW interval \in Int, AddTask(j, delay, recurring, interval)
  PROVE  /\ Due[j] = 0
         /\ Due' = [Due EXCEPT ![j] = now + DurationToTicks(delay) + 1]
         /\ Period' = [Period EXCEPT ![j] =
                         IF recurring THEN DurationToTicks(interval) ELSE 0]
<1> DEFINE ticks == DurationToTicks(delay)
           task  == [rounds |-> RoundsAfter(ticks), interval |-> interval,
                     recurring |-> recurring, cancelled |-> FALSE]
           q == SlotAfter(ticks)
<1>1. /\ q \in Pos /\ RoundsAfter(ticks) \in Nat
      /\ Distance(q) + RoundsAfter(ticks) * SlotNum = ticks
      /\ ticks \in Nat
  BY TicksPositive, Placement DEF IndInv, TypeOK
<1>2. /\ slots' = [slots EXCEPT ![q][j] = task]
      /\ taskIndex' = [taskIndex EXCEPT ![j] = q]
      /\ taskIndex[j] = Nil
      /\ currentPos' = currentPos /\ now' = now
  BY DEF AddTask
<1>3. task.rounds = RoundsAfter(ticks) /\ task.recurring = recurring /\ task.interval = interval
  OBVIOUS
<1> HIDE DEF ticks, task, q
<1>4. ASSUME NEW i \in Jobs
      PROVE  /\ taskIndex'[i] = IF i = j THEN q ELSE taskIndex[i]
             /\ \A p \in Pos : slots'[p][i] = IF i = j /\ p = q THEN task ELSE slots[p][i]
  BY <1>1, <1>2 DEF IndInv, TypeOK
<1>5. \A p \in Pos : Distance(p)' = Distance(p)
  BY <1>2 DEF Distance
<1>6. taskIndex \in [Jobs -> Pos \cup {Nil}] /\ Nil \notin Pos /\ now \in Nat
  BY NilAssumption DEF IndInv, TypeOK, Pos
<1>7. Due[j] = 0
  BY <1>2 DEF Due
<1>8. ASSUME NEW i \in Jobs, i # j PROVE Due'[i] = Due[i] /\ Period'[i] = Period[i]
  BY <1>2, <1>4, <1>5, <1>6, <1>8 DEF Due, DueAt, Period
<1>9. Due'[j] = now + ticks + 1
  <2>1. Due'[j] = now + 1 + Distance(q) + RoundsAfter(ticks) * SlotNum
    BY <1>1, <1>2, <1>3, <1>4, <1>5, <1>6 DEF Due, DueAt
  <2>2. Distance(q) \in Int /\ RoundsAfter(ticks) * SlotNum \in Int
    BY <1>1, SlotNumAssumption DEF IndInv, TypeOK, Pos, Distance
  <2> QED BY <1>1, <1>6, <2>1, <2>2
<1>10. Period'[j] = IF recurring THEN DurationToTicks(interval) ELSE 0
  BY <1>1, <1>3, <1>4, <1>6 DEF Period
<1>11. Due' = [Due EXCEPT ![j] = now + ticks + 1]
  BY <1>8, <1>9 DEF Due
<1>12. Period' = [Period EXCEPT ![j] = IF recurring THEN DurationToTicks(interval) ELSE 0]
  BY <1>8, <1>10 DEF Period
<1> QED BY <1>7, <1>11, <1>12 DEF ticks

(* The two entry points: a one-time and a recurring job. *)
LEMMA AddJobDue ==
  ASSUME IndInv, IndInv', NEW j \in Jobs, NEW d \in Delays, AddJob(j, d)
  PROVE  /\ Due[j] = 0 /\ launched' = launched /\ now' = now
         /\ Due' = [Due EXCEPT ![j] = now + DurationToTicks(d) + 1]
         /\ Period' = [Period EXCEPT ![j] = 0]
<1>1. AddTask(j, d, FALSE, 0)
  BY Zenon DEF AddJob
<1>2. d \in Int /\ 0 \in Int /\ FALSE \in BOOLEAN
  BY InputAssumption
<1>3. /\ Due[j] = 0
      /\ Due' = [Due EXCEPT ![j] = now + DurationToTicks(d) + 1]
      /\ Period' = [Period EXCEPT ![j] = IF FALSE THEN DurationToTicks(0) ELSE 0]
  BY <1>1, <1>2, AddTaskDue, Zenon
<1> QED BY <1>1, <1>3 DEF AddTask

LEMMA AddRecurringJobDue ==
  ASSUME IndInv, IndInv', NEW j \in Jobs, NEW d \in Periods, AddRecurringJob(j, d)
  PROVE  /\ Due[j] = 0 /\ launched' = launched /\ now' = now
         /\ Due' = [Due EXCEPT ![j] = now + DurationToTicks(d) + 1]
         /\ Period' = [Period EXCEPT ![j] = DurationToTicks(d)]
<1>1. AddTask(j, d, TRUE, d)
  BY Zenon DEF AddRecurringJob
<1>2. d \in Int /\ TRUE \in BOOLEAN
  BY InputAssumption
<1>3. /\ Due[j] = 0
      /\ Due' = [Due EXCEPT ![j] = now + DurationToTicks(d) + 1]
      /\ Period' = [Period EXCEPT ![j] = IF TRUE THEN DurationToTicks(d) ELSE 0]
  BY <1>1, <1>2, AddTaskDue, Zenon
<1> QED BY <1>1, <1>3 DEF AddTask

LEMMA RemoveJobDue ==
  ASSUME IndInv, NEW j \in Jobs, RemoveJob(j)
  PROVE  /\ Due[j] # 0
         /\ Due' = [Due EXCEPT ![j] = 0]
         /\ Period' = [Period EXCEPT ![j] = 0]
<1>1. Due[j] # 0
  BY DueOfStored DEF RemoveJob
<1>2. ASSUME NEW i \in Jobs
      PROVE  /\ taskIndex'[i] = IF i = j THEN Nil ELSE taskIndex[i]
             /\ i # j => \A p \in Pos : slots'[p][i] = slots[p][i]
  BY NilAssumption DEF IndInv, TypeOK, RemoveJob, Pos
<1>3. taskIndex \in [Jobs -> Pos \cup {Nil}] /\ currentPos' = currentPos /\ now' = now
  BY DEF IndInv, TypeOK, RemoveJob
<1>4. ASSUME NEW i \in Jobs, i # j PROVE Due'[i] = Due[i] /\ Period'[i] = Period[i]
  BY <1>2, <1>3, <1>4 DEF Due, DueAt, Distance, Period
<1>5. Due'[j] = 0 /\ Period'[j] = 0
  BY <1>2 DEF Due, Period
<1> QED BY <1>1, <1>4, <1>5 DEF Due, Period
LEMMA DistanceAfterTick ==
  ASSUME IndInv, Tick, NEW p \in Pos
  PROVE  Distance(p)' = IF p = currentPos THEN SlotNum - 1 ELSE Distance(p) - 1
<1>1. currentPos \in 0 .. SlotNum - 1 /\ SlotNum \in Nat \ {0}
  BY SlotNumAssumption DEF IndInv, TypeOK, Pos
<1>2. currentPos' = (currentPos + 1) % SlotNum
  BY DEF Tick
<1>3. currentPos' = IF currentPos + 1 < SlotNum THEN currentPos + 1 ELSE 0
  BY <1>1, <1>2
<1> QED BY <1>1, <1>3 DEF Distance, Pos

\* By how much a recurring job of k ticks may be late: when it is stored again in
\* the slot it was fired from, the tick may or may not count its rounds down.
Slack(k) == IF k % SlotNum = 0 THEN SlotNum ELSE 0

(* A tick fires exactly the jobs that are due at it, and gives a recurring   *)
(* one its next run a whole interval later, or a turn after that.            *)
LEMMA TickDueOrLate ==
  ASSUME IndInv, IndInv', Tick, NEW j \in Jobs
  PROVE  /\ Due[j] # now + 1 => Due'[j] = Due[j]
         /\ Due[j] = now + 1 /\ Period[j] = 0 => Due'[j] = 0
         /\ Due[j] = now + 1 /\ Period[j] # 0 =>
              Due'[j] \in {now + 1 + Period[j], now + 1 + Period[j] + Slack(Period[j])}
         /\ Period'[j] = Period[j]
<1>0. PICK revisited \in SUBSET MayBeRevisited :
      slots' = [p \in Pos |-> [i \in Jobs |-> SlotEntryAfterTick(p, i, revisited)]]
  BY DEF Tick
<1>1. /\ \A p \in Pos : slots'[p][j] = SlotEntryAfterTick(p, j, revisited)
      /\ taskIndex'[j] = IndexAfterTick(j)
      /\ now' = now + 1
  BY <1>0 DEF Tick
<1>2. /\ currentPos \in Pos /\ taskIndex[j] \in Pos \cup {Nil} /\ Nil \notin Pos
      /\ now \in Nat /\ SlotNum \in Nat \ {0}
  BY NilAssumption, SlotNumAssumption DEF IndInv, TypeOK, Pos
<1>3. ~Cancelled(j) /\ (Stored(j) <=> taskIndex[j] = currentPos)
  BY <1>2 DEF IndInv, IndexAgrees, Cancelled, Stored
<1>4. \A p \in Pos : taskIndex'[j] = p =>
         /\ Due'[j] = now' + 1 + Distance(p)' + slots'[p][j].rounds * SlotNum
         /\ Period'[j] = IF slots'[p][j].recurring
                           THEN DurationToTicks(slots'[p][j].interval) ELSE 0
  BY <1>2 DEF Due, DueAt, Period
<1>5. taskIndex'[j] = Nil => Due'[j] = 0 /\ Period'[j] = 0
  BY DEF Due, Period
<1>6. CASE taskIndex[j] = Nil
  <2>1. ~Stored(j) /\ ~Expired(j) /\ ~Renewed(j)
    BY <1>2, <1>3, <1>6 DEF Expired, Renewed
  <2>2. taskIndex'[j] = Nil
    BY <1>1, <1>3, <1>6, <2>1 DEF IndexAfterTick
  <2> QED BY <1>2, <1>5, <1>6, <2>2, DueOfStored
<1>7. ASSUME NEW p \in Pos, taskIndex[j] = p, ~Expired(j)
      PROVE  Due'[j] = Due[j] /\ Due[j] # now + 1 /\ Period'[j] = Period[j]
  <2>1. ~Renewed(j)
    BY <1>7 DEF Renewed
  <2>2. taskIndex'[j] = p
    BY <1>1, <1>3, <1>7, <2>1 DEF IndexAfterTick
  <2>3. slots[p][j] \in Task /\ slots[p][j].rounds \in Nat /\ Distance(p) \in Int
    BY <1>2, <1>7, DueOfStored DEF Task, Distance, Pos
  <2>4. CASE p # currentPos
    <3>1. slots'[p][j] = slots[p][j]
      BY <1>1, <2>1, <2>4 DEF SlotEntryAfterTick
    <3>2. Distance(p)' = Distance(p) - 1
      BY <2>4, DistanceAfterTick
    <3>3. slots[p][j].rounds * SlotNum \in Nat
      BY <1>2, <2>3, TurnsAreFar
    <3> QED BY <1>1, <1>2, <1>4, <1>7, <2>2, <2>3, <3>1, <3>2, <3>3, DueOfStored
  <2>5. CASE p = currentPos
    <3>1. slots'[p][j] = [slots[p][j] EXCEPT !.rounds = @ - 1]
      BY <1>1, <1>3, <1>7, <2>1, <2>5 DEF SlotEntryAfterTick
    <3>2. /\ slots'[p][j].rounds = slots[p][j].rounds - 1
          /\ slots'[p][j].recurring = slots[p][j].recurring
          /\ slots'[p][j].interval = slots[p][j].interval
      BY <2>3, <3>1 DEF Task
    <3>3. Distance(p)' = SlotNum - 1 /\ Distance(p) = 0
      BY <1>2, <2>5, DistanceAfterTick DEF Distance, Pos
    <3>4. /\ slots[p][j].rounds * SlotNum \in Nat
          /\ (slots[p][j].rounds - 1) * SlotNum = slots[p][j].rounds * SlotNum - SlotNum
      BY <1>2, <2>3, TurnsAreFar
    <3> QED BY <1>1, <1>2, <1>4, <1>7, <2>2, <3>2, <3>3, <3>4, DueOfStored
  <2> QED BY <2>4, <2>5
<1>8. CASE Expired(j) /\ ~Renewed(j)
  <2>1. taskIndex'[j] = Nil
    BY <1>1, <1>8 DEF IndexAfterTick
  <2>2. taskIndex[j] = currentPos /\ ~slots[currentPos][j].recurring
    BY <1>3, <1>8 DEF Expired, Renewed
  <2>3. Period[j] = 0 /\ Due[j] = now + 1
    BY <1>2, <1>8, <2>2, DueOfStored
  <2> QED BY <1>5, <2>1, <2>3
<1>9. CASE Renewed(j)
  <2> DEFINE t == slots[currentPos][j]
             ticks == DurationToTicks(t.interval)
  <2>1. /\ taskIndex[j] = currentPos /\ t.recurring /\ Expired(j)
        /\ t \in Task /\ t.interval \in Periods
    BY <1>2, <1>3, <1>9, DueOfStored DEF Expired, Renewed, IndInv, PeriodsKnown, Stored
  <2>2. ticks \in Nat \ {0}
    BY <2>1, TicksPositive DEF Task
  <2>3. PICK q \in Pos :
          /\ q = SlotAfter(ticks)
          /\ RoundsAfter(ticks) \in Nat
          /\ Distance(q) + RoundsAfter(ticks) * SlotNum = ticks
          /\ q = currentPos <=> ticks % SlotNum = 0
    BY <1>2, <2>2, Placement
  <2> DEFINE cut == IF j \in revisited THEN 1 ELSE 0
             rounds == RoundsAfter(ticks)
  <2>4. cut \in {0, 1} /\ (q # currentPos => cut = 0)
    BY <2>3 DEF MayBeRevisited, RenewTicks
  <2>5. taskIndex'[j] = q
    BY <1>1, <1>9, <2>3 DEF IndexAfterTick, RenewTicks
  <2>6. slots'[q][j] = [t EXCEPT !.rounds = rounds - cut]
    BY <1>1, <1>9, <2>3 DEF SlotEntryAfterTick, RenewTicks
  <2>7. /\ slots'[q][j].rounds = rounds - cut
        /\ slots'[q][j].recurring = t.recurring
        /\ slots'[q][j].interval = t.interval
    <3> HIDE DEF t, rounds, cut
    <3> QED BY <2>1, <2>6 DEF Task
  <2>8. Distance(q)' = IF q = currentPos THEN SlotNum - 1 ELSE Distance(q) - 1
    BY <2>3, DistanceAfterTick
  <2>9. Due[j] = now + 1 /\ Period[j] = ticks
    BY <1>2, <2>1, DueOfStored
  <2>10. /\ Due'[j] = now' + 1 + Distance(q)' + (rounds - cut) * SlotNum
         /\ Period'[j] = ticks
    BY <1>4, <2>1, <2>3, <2>5, <2>7
  <2>11. Due'[j] \in {now + 1 + ticks, now + 1 + ticks + Slack(ticks)}
    <3> DEFINE dist == Distance(q)
               k == ticks
               turns == rounds * SlotNum
    <3>1. /\ dist + turns = k /\ turns \in Int /\ dist \in Int /\ k \in Nat
          /\ (rounds - cut) * SlotNum = turns - cut * SlotNum
      BY <1>2, <2>2, <2>3, <2>4 DEF Distance, Pos
    <3>2. q = currentPos <=> k % SlotNum = 0
      BY <2>3
    <3>3. CASE q # currentPos
      <4>1. cut * SlotNum = 0
        BY <1>2, <2>4, <3>3
      <4>2. Due'[j] = (now + 1) + 1 + (dist - 1) + (turns - 0)
        BY <1>1, <2>8, <2>10, <3>1, <3>3, <4>1
      <4> HIDE DEF dist, k, turns
      <4>3. Due'[j] = now + 1 + k
        BY <1>2, <3>1, <4>2
      <4> QED BY <4>3 DEF k
    <3>4. CASE q = currentPos
      <4>1. Slack(k) = SlotNum /\ dist = 0
        BY <1>2, <3>2, <3>4, SlotNumAssumption DEF Slack, Distance, Pos
      <4>2. Due'[j] = (now + 1) + 1 + (SlotNum - 1) + (turns - cut * SlotNum)
        BY <1>1, <2>8, <2>10, <3>1, <3>4
      <4>3. cut * SlotNum \in {0, SlotNum}
        BY <1>2, <2>4
      <4> HIDE DEF dist, k, turns, cut
      <4>4. Due'[j] = now + 1 + k \/ Due'[j] = now + 1 + k + SlotNum
        BY <1>2, <3>1, <4>1, <4>2, <4>3
      <4> QED BY <4>1, <4>4 DEF k
    <3> QED BY <3>3, <3>4
  <2> QED BY <2>2, <2>9, <2>10, <2>11
<1> QED BY <1>2, <1>6, <1>7, <1>8, <1>9

\* The period of an indexed recurring job is one that AddRecurringJob was given.
LEMMA PeriodOfPeriods ==
  ASSUME IndInv, NEW j \in Jobs
  PROVE  /\ Period[j] \in Nat
         /\ Period[j] # 0 => \E d \in Periods : Period[j] = DurationToTicks(d)
<1>1. CASE taskIndex[j] = Nil
  BY <1>1 DEF Period
<1>2. ASSUME NEW p \in Pos, taskIndex[j] = p
      PROVE  /\ Period[j] \in Nat
             /\ Period[j] # 0 => \E d \in Periods : Period[j] = DurationToTicks(d)
  <2>1. /\ slots[p][j] \in Task /\ slots[p][j] # Nil
        /\ Period[j] = IF slots[p][j].recurring THEN DurationToTicks(slots[p][j].interval) ELSE 0
    BY <1>2, DueOfStored DEF IndInv, IndexAgrees
  <2>2. DurationToTicks(slots[p][j].interval) \in Nat
    BY <2>1, TicksPositive DEF Task
  <2>3. slots[p][j].recurring => slots[p][j].interval \in Periods
    BY <2>1 DEF IndInv, PeriodsKnown
  <2> QED BY <2>1, <2>2, <2>3
<1> QED BY <1>1, <1>2 DEF IndInv, TypeOK

\* No interval is a whole number of turns: the next run is on time.
LEMMA TickDue ==
  ASSUME IndInv, IndInv', Tick, NoFullTurn, NEW j \in Jobs
  PROVE  /\ Due'[j] = IF Due[j] # now + 1 THEN Due[j]
                      ELSE IF Period[j] = 0 THEN 0
                      ELSE now + 1 + Period[j]
         /\ Period'[j] = Period[j]
<1>1. Period[j] # 0 => Slack(Period[j]) = 0
  BY PeriodOfPeriods DEF NoFullTurn, Slack
<1>2. Period[j] \in Nat /\ now \in Nat
  BY PeriodOfPeriods DEF IndInv, TypeOK
<1> QED BY <1>1, <1>2, TickDueOrLate

LEMMA DueUnchanged ==
  ASSUME UNCHANGED <<wheelVars, now>>
  PROVE  Due' = Due /\ Period' = Period
BY DEF wheelVars, Due, DueAt, Distance, Period

LEMMA DueDomain == DOMAIN Due = Jobs /\ DOMAIN Period = Jobs
BY DEF Due, Period

(* A recurring task, whatever its interval, is never further from its next   *)
(* run than its interval and the running tick, plus one turn of the wheel if *)
(* the interval is a whole number of turns.                                  *)
RecurringAtMostATurnLate ==
  \A j \in Jobs : Period[j] > 0 => Due[j] <= now + 1 + Period[j] + Slack(Period[j])

THEOREM RecurringNotLost == Spec => []RecurringAtMostATurnLate
<1>1. Init => RecurringAtMostATurnLate
  BY DEF Init, RecurringAtMostATurnLate, Period
<1>2. IndInv /\ IndInv' /\ RecurringAtMostATurnLate /\ [Next]_vars => RecurringAtMostATurnLate'
  <2> SUFFICES ASSUME IndInv, IndInv', RecurringAtMostATurnLate, [Next]_vars,
                      NEW j \in Jobs, Period'[j] > 0
               PROVE  Due'[j] <= now' + 1 + Period'[j] + Slack(Period'[j])
    BY DEF RecurringAtMostATurnLate
  <2>0. /\ now \in Nat /\ now' \in Nat
        /\ Period[j] > 0 => Due[j] <= now + 1 + Period[j] + Slack(Period[j])
    BY DEF IndInv, TypeOK, RecurringAtMostATurnLate
  <2>1. CASE UNCHANGED <<wheelVars, now>>
    BY <2>0, <2>1, DueUnchanged
  <2>2. CASE Start \/ StopBegin \/ StopReturn \/ LoopExit \/ UNCHANGED vars
    BY <2>1, <2>2 DEF Start, StopBegin, StopReturn, LoopExit, vars
  <2>3. CASE Tick
    <3>1. Period[j] \in Nat /\ Due[j] \in Nat /\ now' = now + 1
      BY <2>3, PeriodOfPeriods, DueOfStored DEF Tick, IndInv, TypeOK
    <3>2. Slack(Period[j]) \in Nat
      BY SlotNumAssumption DEF Slack
    <3>3. Period'[j] = Period[j] /\ Period[j] # 0
      BY <2>3, <3>1, TickDueOrLate
    <3>4. CASE Due[j] # now + 1
      <4>1. Due'[j] = Due[j]
        BY <2>3, <3>4, TickDueOrLate
      <4> QED BY <2>0, <3>1, <3>2, <3>3, <4>1
    <3>5. CASE Due[j] = now + 1
      <4>1. Due'[j] \in {now + 1 + Period[j], now + 1 + Period[j] + Slack(Period[j])}
        BY <2>3, <3>3, <3>5, TickDueOrLate
      <4> QED BY <2>0, <3>1, <3>2, <3>3, <4>1
    <3> QED BY <3>4, <3>5
  <2>4. ASSUME NEW i \in Jobs, NEW d \in Delays, AddJob(i, d)
        PROVE  Due'[j] <= now' + 1 + Period'[j] + Slack(Period'[j])
    <3>1. /\ Due' = [Due EXCEPT ![i] = now + DurationToTicks(d) + 1]
          /\ Period' = [Period EXCEPT ![i] = 0] /\ now' = now
      BY <2>4, AddJobDue
    <3>2. i # j /\ Due'[j] = Due[j] /\ Period'[j] = Period[j]
      BY <3>1, DueDomain
    <3> QED BY <2>0, <3>1, <3>2
  <2>5. ASSUME NEW i \in Jobs, NEW d \in Periods, AddRecurringJob(i, d)
        PROVE  Due'[j] <= now' + 1 + Period'[j] + Slack(Period'[j])
    <3>1. /\ Due' = [Due EXCEPT ![i] = now + DurationToTicks(d) + 1]
          /\ Period' = [Period EXCEPT ![i] = DurationToTicks(d)] /\ now' = now
      BY <2>5, AddRecurringJobDue
    <3>2. DurationToTicks(d) \in Nat /\ Slack(DurationToTicks(d)) \in Nat
      BY InputAssumption, SlotNumAssumption, TicksPositive DEF Slack
    <3>3. CASE i = j
      BY <2>0, <3>1, <3>2, <3>3, DueDomain
    <3>4. CASE i # j
      BY <2>0, <3>1, <3>4, DueDomain
    <3> QED BY <3>3, <3>4
  <2>6. ASSUME NEW i \in Jobs, RemoveJob(i)
        PROVE  Due'[j] <= now' + 1 + Period'[j] + Slack(Period'[j])
    <3>1. /\ Due' = [Due EXCEPT ![i] = 0] /\ Period' = [Period EXCEPT ![i] = 0]
          /\ now' = now
      BY <2>6, RemoveJobDue DEF RemoveJob
    <3>2. i # j
      BY <3>1, DueDomain
    <3> QED BY <2>0, <3>1, <3>2, DueDomain
  <2>7. ASSUME NEW i \in Jobs, RunCallback(i)
        PROVE  Due'[j] <= now' + 1 + Period'[j] + Slack(Period'[j])
    BY <2>1, <2>7 DEF RunCallback
  <2> QED BY <2>2, <2>3, <2>4, <2>5, <2>6, <2>7 DEF Next
<1> QED BY <1>1, <1>2, IndInvHolds, PTL DEF Spec

(* If no interval is a whole number of turns, none is late.                  *)
THEOREM RecurringOnTime ==
  ASSUME NoFullTurn
  PROVE  Spec => []RecurringWithinInterval
<1>1. IndInv /\ RecurringAtMostATurnLate => RecurringWithinInterval
  <2> SUFFICES ASSUME IndInv, RecurringAtMostATurnLate, NEW j \in Jobs, Period[j] > 0
               PROVE  Due[j] <= now + 1 + Period[j]
    BY DEF RecurringWithinInterval
  <2>1. Slack(Period[j]) = 0 /\ Period[j] \in Nat /\ now \in Nat
    BY PeriodOfPeriods DEF NoFullTurn, Slack, IndInv, TypeOK
  <2> QED BY <2>1 DEF RecurringAtMostATurnLate
<1> QED BY <1>1, RecurringNotLost, IndInvHolds, PTL

-----------------------------------------------------------------------------
(* A one-time job waits for the tick it was given, fires at that tick, once,  *)
(* and is gone; only RemoveJob takes it away before.  This needs nothing of   *)
(* the intervals of the recurring jobs the wheel holds beside it.             *)
Waits(j) == Due'[j] = Due[j] /\ Period'[j] = 0 /\ launched'[j] <= launched[j] /\ now' < Due[j]
Fires(j) == now' = Due[j] /\ launched'[j] = launched[j] + 1 /\ Due'[j] = 0

OneTimeOnTime ==
  [][\A j \in Jobs : (Due[j] # 0 /\ Period[j] = 0) => Waits(j) \/ Fires(j) \/ RemoveJob(j)]_vars

THEOREM OneTimeJobsOnTime == Spec => OneTimeOnTime
<1>1. IndInv /\ IndInv' /\ [Next]_vars =>
        \A j \in Jobs : (Due[j] # 0 /\ Period[j] = 0) => Waits(j) \/ Fires(j) \/ RemoveJob(j)
  <2> SUFFICES ASSUME IndInv, IndInv', [Next]_vars, NEW j \in Jobs, Due[j] # 0, Period[j] = 0
               PROVE  Waits(j) \/ Fires(j) \/ RemoveJob(j)
    OBVIOUS
  <2>0. now \in Nat /\ Due[j] \in Nat /\ Due[j] > now /\ launched \in [Jobs -> Nat]
    BY DueOfStored DEF IndInv, TypeOK
  <2>1. ASSUME Due'[j] = Due[j], Period'[j] = Period[j], now' = now, launched'[j] <= launched[j]
        PROVE  Waits(j)
    BY <2>0, <2>1 DEF Waits
  <2>2. CASE Start \/ StopBegin \/ StopReturn \/ LoopExit \/ UNCHANGED vars
    BY <2>0, <2>1, <2>2, DueUnchanged DEF Start, StopBegin, StopReturn, LoopExit, vars
  <2>3. CASE Tick
    <3>1. now' = now + 1 /\ launched'[j] = launched[j] + (IF Expired(j) THEN 1 ELSE 0)
      BY <2>3 DEF Tick
    <3>2. Due[j] = now + 1 <=> Expired(j)
      BY DueOfStored
    <3>3. CASE Due[j] # now + 1
      BY <2>0, <2>3, <3>1, <3>2, <3>3, TickDueOrLate DEF Waits
    <3>4. CASE Due[j] = now + 1
      BY <2>0, <2>3, <3>1, <3>2, <3>4, TickDueOrLate DEF Fires
    <3> QED BY <3>3, <3>4
  <2>4. ASSUME NEW i \in Jobs, NEW d \in Delays, AddJob(i, d) PROVE Waits(j)
    BY <2>0, <2>1, <2>4, AddJobDue, DueDomain
  <2>5. ASSUME NEW i \in Jobs, NEW d \in Periods, AddRecurringJob(i, d) PROVE Waits(j)
    BY <2>0, <2>1, <2>5, AddRecurringJobDue, DueDomain
  <2>6. ASSUME NEW i \in Jobs, i # j, RemoveJob(i) PROVE Waits(j)
    <3>1. now' = now /\ launched' = launched
      BY <2>6 DEF RemoveJob
    <3>2. Due' = [Due EXCEPT ![i] = 0] /\ Period' = [Period EXCEPT ![i] = 0]
      BY <2>6, RemoveJobDue
    <3>3. Due'[j] = Due[j] /\ Period'[j] = Period[j]
      BY <2>6, <3>2, DueDomain
    <3> QED BY <2>0, <2>1, <3>1, <3>3
  <2>7. ASSUME NEW i \in Jobs, RunCallback(i) PROVE Waits(j)
    BY <2>0, <2>1, <2>7, DueUnchanged DEF RunCallback
  <2> QED BY <2>2, <2>3, <2>4, <2>5, <2>6, <2>7 DEF Next
<1> QED BY <1>1, IndInvHolds, PTL DEF Spec, OneTimeOnTime

-----------------------------------------------------------------------------
(* The wheel implements DeadlineTimer: whatever its number of slots, every   *)
(* accepted job fires once, at the first tick at which its whole delay has   *)
(* passed, and again every interval if it is recurring.                      *)
THEOREM Refinement ==
  ASSUME NoFullTurn
  PROVE  Spec => RefinesTimer
<1>1. Init => Timer!Init
  BY DEF Init, Timer!Init, Due, Period
<1>2. IndInv /\ IndInv' /\ [Next]_vars => [Timer!Next]_(Timer!vars)
  <2> SUFFICES ASSUME IndInv, IndInv', [Next]_vars
               PROVE  Timer!Next \/ UNCHANGED Timer!vars
    BY DEF Timer!vars
  <2> USE DEF Timer!vars
  <2>1. CASE UNCHANGED <<wheelVars, launched, now>>
    BY <2>1, DueUnchanged
  <2>2. CASE Start \/ StopBegin \/ StopReturn \/ LoopExit \/ UNCHANGED vars
    BY <2>1, <2>2 DEF Start, StopBegin, StopReturn, LoopExit, vars
  <2>3. CASE Tick
    <3>1. now' = now + 1
      BY <2>3 DEF Tick
    <3>2. \A j \in Jobs :
            /\ Due'[j] = IF Due[j] # now + 1 THEN Due[j]
                         ELSE IF Period[j] = 0 THEN 0 ELSE now + 1 + Period[j]
            /\ Period'[j] = Period[j]
      BY <2>3, TickDue
    <3>3. \A j \in Jobs : Due[j] = now + 1 <=> Expired(j)
      BY DueOfStored
    <3>4. launched' = [j \in Jobs |-> launched[j] + (IF Due[j] = now' THEN 1 ELSE 0)]
      BY <2>3, <3>1, <3>3 DEF Tick
    <3>5. Due' = [j \in Jobs |-> IF Due[j] # now' THEN Due[j]
                                 ELSE IF Period[j] = 0 THEN 0 ELSE now' + Period[j]]
      BY <3>1, <3>2 DEF Due
    <3>6. Period' = Period
      BY <3>2 DEF Period
    <3> QED BY <3>1, <3>4, <3>5, <3>6 DEF Timer!Advance, Timer!Next
  <2>4. ASSUME NEW j \in Jobs, NEW d \in Delays, AddJob(j, d) PROVE Timer!Next
    <3>1. Timer!Schedule(j, DurationToTicks(d), 0)
      BY <2>4, AddJobDue DEF Timer!Schedule
    <3> QED BY <3>1 DEF Timer!Next
  <2>5. ASSUME NEW j \in Jobs, NEW d \in Periods, AddRecurringJob(j, d) PROVE Timer!Next
    <3>1. Timer!Schedule(j, DurationToTicks(d), DurationToTicks(d))
      BY <2>5, AddRecurringJobDue DEF Timer!Schedule
    <3> QED BY <3>1 DEF Timer!Next
  <2>6. ASSUME NEW j \in Jobs, RemoveJob(j) PROVE Timer!Next
    <3>1. Timer!Cancel(j)
      BY <2>6, RemoveJobDue DEF RemoveJob, Timer!Cancel
    <3> QED BY <3>1 DEF Timer!Next
  <2>7. ASSUME NEW j \in Jobs, RunCallback(j) PROVE Timer!Next
    <3>1. Timer!Finish(j)
      BY <2>7, DueUnchanged DEF RunCallback, Timer!Finish
    <3> QED BY <3>1 DEF Timer!Next
  <2> QED BY <2>2, <2>3, <2>4, <2>5, <2>6, <2>7 DEF Next
<1> QED BY <1>1, <1>2, IndInvHolds, PTL DEF Spec, RefinesTimer, Timer!Spec
=============================================================================
