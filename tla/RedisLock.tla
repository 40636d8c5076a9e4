------------------------------ MODULE RedisLock ------------------------------
(***************************************************************************)
(* The distributed lock of pkg/lock/redis_lock.go on one Redis key.        *)
(*                                                                         *)
(* A handle (RedisLock value) draws its token when it is made and is used  *)
(* for one Lock, any number of Refresh calls and one Unlock, as            *)
(* triggerWithDistributedLock uses it.  A call travels as a command: the   *)
(* server runs it at some later time, also after the caller has given up,  *)
(* the answer may be lost, and the Redis client may send it once more.     *)
(* Time is counted in milliseconds or multiples of them (Refresh cuts its  *)
(* ttl to whole milliseconds, and makes one of less than one); expiry      *)
(* counts down.                                                            *)
(***************************************************************************)
EXTENDS Integers, FiniteSets

CONSTANTS
  Handles,      \* lock handles, each with a token of its own
  TTL,          \* the ttl the handles were made with, which Lock uses
  RefreshTTLs,  \* the ttls that calls of Refresh are given
  MaxTTL,       \* the greatest of them all
  Attempts,     \* bound: how often the Redis client sends a command
  MaxSent,      \* bound: how many commands are on their way at a time
  Nil

ASSUME TTLAssumption ==
  /\ MaxTTL \in Nat /\ TTL \in 1 .. MaxTTL
  /\ RefreshTTLs \subseteq Int /\ \A t \in RefreshTTLs : t <= MaxTTL
ASSUME AttemptsAssumption == Attempts \in Nat \ {0}
ASSUME NilAssumption      == Nil \notin Handles

Operations == {"lock", "refresh", "unlock"}
Command == [handle : Handles, op : Operations, ttl : 0 .. MaxTTL, attempt : 1 .. Attempts]

VARIABLES
  key,      \* the handle whose token is the value of the key, or Nil
  expiry,   \* time until the key expires; 0 when it is not set
  pc,       \* pc[h]: "new", the call h is in, "held" or "done"
  ttl,      \* ttl[h]: the ttl of the call h is in, 0 for Unlock and between calls
  attempt,  \* attempt[h]: how often the current command has been sent
  sent,     \* commands the server has not run yet
  answer,   \* answer[h]: the answer h has not read yet: "yes", "no" or "none"
  shortest, \* shortest[h]: the shortest ttl that h has called Refresh with
  timer,    \* timer[h]: how long h may count on its call, if that succeeds
  safe      \* safe[h]: how long the caller may rely on its last successful call

serverVars == <<key, expiry>>
callVars   == <<pc, ttl, attempt>>
vars == <<serverVars, callVars, sent, answer, shortest, timer, safe>>

Init ==
  /\ key = Nil /\ expiry = 0
  /\ pc = [h \in Handles |-> "new"]
  /\ ttl = [h \in Handles |-> 0]
  /\ attempt = [h \in Handles |-> 1]
  /\ sent = {}
  /\ answer = [h \in Handles |-> "none"]
  /\ shortest = [h \in Handles |-> MaxTTL]
  /\ timer = [h \in Handles |-> 0]
  /\ safe = [h \in Handles |-> 0]

-----------------------------------------------------------------------------
\* A command goes out.
Send(h, op, time, n) ==
  /\ Cardinality(sent) < MaxSent
  /\ sent' = sent \cup {[handle |-> h, op |-> op, ttl |-> time, attempt |-> n]}
  /\ attempt' = [attempt EXCEPT ![h] = n]
  /\ answer' = [answer EXCEPT ![h] = "none"]
  /\ UNCHANGED serverVars

(* The caller of Lock, Refresh and Unlock. *)
Begin(h, op, time) ==
  /\ pc' = [pc EXCEPT ![h] = op]
  /\ ttl' = [ttl EXCEPT ![h] = time]
  /\ Send(h, op, time, 1)

Lock(h) ==
  /\ pc[h] = "new"
  /\ Begin(h, "lock", TTL)
  /\ timer' = [timer EXCEPT ![h] = TTL]
  /\ UNCHANGED <<shortest, safe>>

Min2(a, b) == IF a < b THEN a ELSE b

(* Refresh sets the expiry to the ttl it is given, which may be less than    *)
(* what is left; and so may each of its commands that is still on the way,   *)
(* however late.  So a caller may never count on more than the shortest ttl  *)
(* it has used.  A ttl that is not positive is refused: nothing happens.     *)
Refresh(h, time) ==
  /\ pc[h] = "held" /\ time > 0
  /\ Begin(h, "refresh", time)
  /\ shortest' = [shortest EXCEPT ![h] = Min2(@, time)]
  /\ timer' = [timer EXCEPT ![h] = shortest'[h]]
  /\ safe' = [safe EXCEPT ![h] = Min2(@, time)]

Unlock(h) ==
  /\ pc[h] = "held"
  /\ Begin(h, "unlock", 0)
  /\ UNCHANGED <<shortest, timer, safe>>

\* No answer came: the Redis client sends the command once more.
Resend(h) ==
  /\ pc[h] \in Operations /\ attempt[h] < Attempts
  /\ Send(h, pc[h], ttl[h], attempt[h] + 1)
  /\ UNCHANGED <<pc, ttl, shortest, timer, safe>>

\* What belongs to the call only is forgotten.
EndCall(h) ==
  /\ ttl' = [ttl EXCEPT ![h] = 0]
  /\ attempt' = [attempt EXCEPT ![h] = 1]
  /\ answer' = [answer EXCEPT ![h] = "none"]
  /\ timer' = [timer EXCEPT ![h] = 0]

\* Lock and Unlock end; a Refresh leaves the lock held, for longer if it succeeded.
Return(h, succeeded) ==
  /\ pc' = [pc EXCEPT ![h] =
              IF @ = "refresh" \/ (@ = "lock" /\ succeeded) THEN "held" ELSE "done"]
  /\ safe' = [safe EXCEPT ![h] =
                IF pc[h] # "unlock" /\ succeeded THEN timer[h]
                ELSE IF pc[h] = "refresh" THEN @ ELSE 0]
  /\ EndCall(h)
  /\ UNCHANGED <<serverVars, sent, shortest>>

Receive(h) ==
  /\ pc[h] \in Operations /\ answer[h] # "none"
  /\ Return(h, answer[h] = "yes")

\* The context is done or the connection fails: an error is returned.
GiveUp(h) ==
  /\ pc[h] \in Operations
  /\ Return(h, FALSE)

\* The process of the holder dies, whatever it is doing.
Crash(h) ==
  /\ pc[h] \notin {"new", "done"}
  /\ pc' = [pc EXCEPT ![h] = "done"]
  /\ safe' = [safe EXCEPT ![h] = 0]
  /\ EndCall(h)
  /\ UNCHANGED <<serverVars, sent, shortest>>

-----------------------------------------------------------------------------
(* The server runs a command.  Its answer reaches the caller only if that   *)
(* still waits for this very attempt.                                       *)
Answer(m, succeeded) ==
  /\ sent' = sent \ {m}
  /\ answer' = IF /\ pc[m.handle] = m.op /\ ttl[m.handle] = m.ttl
                  /\ attempt[m.handle] = m.attempt
                 THEN [answer EXCEPT ![m.handle] = IF succeeded THEN "yes" ELSE "no"]
                 ELSE answer
  /\ UNCHANGED <<callVars, shortest, timer, safe>>

\* Mutants of ServeSetNX: SET key token PX ttl, whoever holds it; SET key
\* token NX, without a TTL.
ServeSet(m) ==
  /\ m.op = "lock"
  /\ key' = m.handle /\ expiry' = m.ttl
  /\ Answer(m, TRUE)

ServeSetNXForever(m) ==
  /\ m.op = "lock"
  /\ IF key = Nil THEN key' = m.handle /\ expiry' = 0 ELSE UNCHANGED serverVars
  /\ Answer(m, key = Nil)

\* SET key token NX PX ttl
ServeSetNX(m) ==
  /\ m.op = "lock"
  /\ IF key = Nil THEN key' = m.handle /\ expiry' = m.ttl ELSE UNCHANGED serverVars
  /\ Answer(m, key = Nil)

\* Mutant of ServeRefresh: the ttl is added to what is left of the last one.
ServeRefreshAdding(m) ==
  /\ m.op = "refresh"
  /\ IF key = m.handle THEN expiry' = expiry + m.ttl /\ UNCHANGED key ELSE UNCHANGED serverVars
  /\ Answer(m, key = m.handle)

\* refreshScript
ServeRefresh(m) ==
  /\ m.op = "refresh"
  /\ IF key = m.handle THEN expiry' = m.ttl /\ UNCHANGED key ELSE UNCHANGED serverVars
  /\ Answer(m, key = m.handle)

\* Mutant of ServeUnlock: DEL key, whoever holds it.
ServeDel(m) ==
  /\ m.op = "unlock"
  /\ key' = Nil /\ expiry' = 0
  /\ Answer(m, key # Nil)

\* unlockScript
ServeUnlock(m) ==
  /\ m.op = "unlock"
  /\ IF key = m.handle THEN key' = Nil /\ expiry' = 0 ELSE UNCHANGED serverVars
  /\ Answer(m, key = m.handle)

\* A command is lost on its way.
Lose(m) ==
  /\ sent' = sent \ {m}
  /\ UNCHANGED <<serverVars, callVars, answer, shortest, timer, safe>>

\* One unit of time: Redis drops a key whose time is up.
Tick ==
  /\ \/ expiry > 0
     \/ \E h \in Handles : timer[h] > 0 \/ safe[h] > 0
  /\ expiry' = IF expiry > 0 THEN expiry - 1 ELSE 0
  /\ key' = IF expiry = 1 THEN Nil ELSE key
  /\ timer' = [h \in Handles |-> IF timer[h] > 0 THEN timer[h] - 1 ELSE 0]
  /\ safe' = [h \in Handles |-> IF safe[h] > 0 THEN safe[h] - 1 ELSE 0]
  /\ UNCHANGED <<callVars, sent, answer, shortest>>

-----------------------------------------------------------------------------
Serve(m) == ServeSetNX(m) \/ ServeRefresh(m) \/ ServeUnlock(m)

Next ==
  \/ \E h \in Handles :
       \/ Lock(h) \/ (\E time \in RefreshTTLs : Refresh(h, time)) \/ Unlock(h)
       \/ Resend(h) \/ Receive(h) \/ GiveUp(h) \/ Crash(h)
  \/ \E m \in sent : Serve(m) \/ Lose(m)
  \/ Tick

Spec == Init /\ [][Next]_vars

-----------------------------------------------------------------------------
TypeOK ==
  /\ key \in Handles \cup {Nil}
  /\ expiry \in 0 .. MaxTTL
  /\ pc \in [Handles -> Operations \cup {"new", "held", "done"}]
  /\ ttl \in [Handles -> 0 .. MaxTTL]
  /\ attempt \in [Handles -> 1 .. Attempts]
  /\ sent \in SUBSET Command
  /\ answer \in [Handles -> {"none", "yes", "no"}]
  /\ shortest \in [Handles -> 1 .. MaxTTL]
  /\ timer \in [Handles -> 0 .. MaxTTL]
  /\ safe \in [Handles -> 0 .. MaxTTL]

(* A caller that counts its TTL from the moment it called Lock, or from a    *)
(* Refresh the shortest ttl it has used there, may rely on the lock until    *)
(* then: Redis holds its token, whatever happens to its own and the other    *)
(* handles' late, repeated or lost commands ("prevents removing another's    *)
(* lock", redis_lock.go line 16).                                            *)
HolderIsSafe ==
  \A h \in Handles : (pc[h] \in {"held", "refresh"} /\ safe[h] > 0) => key = h

\* The handles that may rely on the lock.
Relying == {h \in Handles : pc[h] \in {"held", "refresh"} /\ safe[h] > 0}

(* Mutual exclusion: no two handles may rely on the lock at the same time.   *)
MutualExclusion ==
  \A g, h \in Handles :
    (/\ pc[g] \in {"held", "refresh"} /\ safe[g] > 0
     /\ pc[h] \in {"held", "refresh"} /\ safe[h] > 0) => g = h

(* No token stays in Redis for ever, also if the holder dies, its Unlock      *)
(* never arrives, or its Lock is run after it gave up: a key that is set has *)
(* an expiry to come, and each unit of time brings it nearer.                *)
KeyHasExpiry == key # Nil <=> expiry > 0

KeyLease == INSTANCE Lease
              WITH Clients <- Handles, Nobody <- Nil, Lost <- Nil,
                   owner <- key, relying <- Relying

(* The key is a lease: it passes from one handle to another only through     *)
(* nobody, and is not cleared under one that may still rely on it, however   *)
(* its commands and those of the others are repeated, late or lost.          *)
RefinesLease == KeyLease!Spec
=============================================================================
