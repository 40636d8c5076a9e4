--------------------------- MODULE RedisLockProofs ---------------------------
(* Mutual exclusion of RedisLock, for any number of handles, any TTL and any *)
(* number of repeated commands.                                              *)
EXTENDS RedisLock, TLAPS

(* Every variable keeps its type. *)
THEOREM Typing == Spec => []TypeOK
<1> USE TTLAssumption, AttemptsAssumption
<1>1. Init => TypeOK
  BY DEF Init, TypeOK
<1>2. TypeOK /\ [Next]_vars => TypeOK'
  <2> SUFFICES ASSUME TypeOK, [Next]_vars PROVE TypeOK'
    OBVIOUS
  <2>1. ASSUME NEW h \in Handles, Lock(h) \/ Unlock(h) PROVE TypeOK'
    BY <2>1 DEF TypeOK, Lock, Unlock, Begin, Send, serverVars, callVars, Command, Operations
  <2>2. ASSUME NEW h \in Handles, NEW time \in RefreshTTLs, Refresh(h, time) PROVE TypeOK'
    <3>1. time \in 1 .. MaxTTL
      BY <2>2 DEF Refresh
    <3> QED BY <2>2, <3>1 DEF TypeOK, Refresh, Begin, Send, Min2, serverVars, callVars, Command, Operations
  <2>3. ASSUME NEW h \in Handles, Resend(h) PROVE TypeOK'
    BY <2>3 DEF TypeOK, Resend, Send, serverVars, callVars, Command
  <2>4. ASSUME NEW h \in Handles, Receive(h) PROVE TypeOK'
    BY <2>4 DEF TypeOK, Receive, Return, EndCall, serverVars, callVars
  <2>5. ASSUME NEW h \in Handles, GiveUp(h) PROVE TypeOK'
    BY <2>5 DEF TypeOK, GiveUp, Return, EndCall, serverVars, callVars
  <2>6. ASSUME NEW h \in Handles, Crash(h) PROVE TypeOK'
    BY <2>6 DEF TypeOK, Crash, EndCall, serverVars, callVars
  <2>7. ASSUME NEW m \in sent, Serve(m) PROVE TypeOK'
    <3>1. m \in Command
      BY DEF TypeOK
    <3>2. CASE ServeSetNX(m)
      BY <3>1, <3>2 DEF TypeOK, ServeSetNX, Answer, serverVars, callVars, Command
    <3>3. CASE ServeRefresh(m)
      BY <3>1, <3>3 DEF TypeOK, ServeRefresh, Answer, serverVars, callVars, Command
    <3>4. CASE ServeUnlock(m)
      BY <3>1, <3>4 DEF TypeOK, ServeUnlock, Answer, serverVars, callVars, Command
    <3> QED BY <2>7, <3>2, <3>3, <3>4 DEF Serve
  <2>8. ASSUME NEW m \in sent, Lose(m) PROVE TypeOK'
    BY <2>8 DEF TypeOK, Lose, serverVars, callVars
  <2>9. CASE Tick
    BY <2>9 DEF TypeOK, Tick, callVars
  <2>10. CASE UNCHANGED vars
    BY <2>10 DEF TypeOK, vars, serverVars, callVars
  <2> QED BY <2>1, <2>2, <2>3, <2>4, <2>5, <2>6, <2>7, <2>8, <2>9, <2>10 DEF Next
<1> QED BY <1>1, <1>2, PTL DEF Spec

-----------------------------------------------------------------------------
(* The inductive invariant: what a caller may rely on is backed by Redis for *)
(* at least as long, also while a positive answer is on its way; it is no    *)
(* more than any Refresh command on its way would leave of the expiry; and   *)
(* an Unlock command exists only for a handle that has given the lock up.    *)
Backed(h, time) == time > 0 => (key = h /\ expiry >= time)

LeaseInv ==
  /\ \A h \in Handles :
       /\ pc[h] \in {"held", "refresh"} => Backed(h, safe[h])
       /\ (pc[h] \in {"lock", "refresh"} /\ answer[h] = "yes") => Backed(h, timer[h])
       /\ timer[h] <= shortest[h] /\ safe[h] <= shortest[h]
       /\ pc[h] = "new" => safe[h] = 0 /\ shortest[h] = MaxTTL
       /\ pc[h] \in {"lock", "refresh"} => timer[h] <= ttl[h]
       /\ pc[h] = "lock" => ttl[h] = TTL
       /\ pc[h] = "refresh" => shortest[h] <= ttl[h]
  /\ \A m \in sent :
       /\ m.op = "unlock" => pc[m.handle] \in {"unlock", "done"}
       /\ m.op = "lock" => m.ttl = TTL
       /\ m.op = "refresh" => m.ttl >= shortest[m.handle]

LEMMA LeaseInvHolds == Spec => []LeaseInv
<1> USE TTLAssumption, NilAssumption DEF Backed
<1>1. Init => LeaseInv
  BY DEF Init, LeaseInv
<1>2. TypeOK /\ LeaseInv /\ [Next]_vars => LeaseInv'
  <2> SUFFICES ASSUME TypeOK, LeaseInv, [Next]_vars PROVE LeaseInv'
    OBVIOUS
  <2>1. ASSUME NEW h \in Handles, Lock(h) PROVE LeaseInv'
    <3>1. UNCHANGED <<key, expiry, shortest, safe>>
      BY <2>1 DEF Lock, Begin, Send, serverVars
    <3>2. \A g \in Handles :
            IF g = h THEN /\ pc[g] = "new" /\ pc'[g] = "lock" /\ ttl'[g] = TTL
                          /\ timer'[g] = TTL /\ answer'[g] = "none"
                     ELSE /\ pc'[g] = pc[g] /\ ttl'[g] = ttl[g]
                          /\ timer'[g] = timer[g] /\ answer'[g] = answer[g]
      BY <2>1 DEF TypeOK, Lock, Begin, Send
    <3>3. \A m \in sent' :
            m \in sent \/ (m.handle = h /\ m.op = "lock" /\ m.ttl = TTL)
      BY <2>1 DEF Lock, Begin, Send
    <3>4. TTL <= shortest[h]
      BY <2>1 DEF LeaseInv, Lock
    <3> QED BY <3>1, <3>2, <3>3, <3>4 DEF TypeOK, LeaseInv, Command
  <2>2. ASSUME NEW h \in Handles, NEW time \in RefreshTTLs, Refresh(h, time) PROVE LeaseInv'
    <3>1. time \in 1 .. MaxTTL
      BY <2>2 DEF Refresh
    <3> QED BY <2>2, <3>1 DEF TypeOK, LeaseInv, Refresh, Begin, Send, Min2, serverVars, callVars, Command
  <2>3. ASSUME NEW h \in Handles, Unlock(h) PROVE LeaseInv'
    BY <2>3 DEF TypeOK, LeaseInv, Unlock, Begin, Send, serverVars, callVars, Command
  <2>4. ASSUME NEW h \in Handles, Resend(h) PROVE LeaseInv'
    BY <2>4 DEF TypeOK, LeaseInv, Resend, Send, serverVars, callVars, Command, Operations
  <2>5. ASSUME NEW h \in Handles, Receive(h) PROVE LeaseInv'
    BY <2>5 DEF TypeOK, LeaseInv, Receive, Return, EndCall, serverVars, callVars, Command, Operations
  <2>6. ASSUME NEW h \in Handles, GiveUp(h) PROVE LeaseInv'
    BY <2>6 DEF TypeOK, LeaseInv, GiveUp, Return, EndCall, serverVars, callVars, Command, Operations
  <2>7. ASSUME NEW h \in Handles, Crash(h) PROVE LeaseInv'
    BY <2>7 DEF TypeOK, LeaseInv, Crash, EndCall, serverVars, callVars, Command
  <2>8. ASSUME NEW m \in sent, ServeSetNX(m) PROVE LeaseInv'
    BY <2>8 DEF TypeOK, LeaseInv, ServeSetNX, Answer, serverVars, callVars, Command
  <2>9. ASSUME NEW m \in sent, ServeRefresh(m) PROVE LeaseInv'
    BY <2>9 DEF TypeOK, LeaseInv, ServeRefresh, Answer, serverVars, callVars, Command
  <2>10. ASSUME NEW m \in sent, ServeUnlock(m) PROVE LeaseInv'
    BY <2>10 DEF TypeOK, LeaseInv, ServeUnlock, Answer, serverVars, callVars, Command
  <2>11. ASSUME NEW m \in sent, Lose(m) PROVE LeaseInv'
    BY <2>11 DEF TypeOK, LeaseInv, Lose, serverVars, callVars
  <2>12. CASE Tick
    BY <2>12 DEF TypeOK, LeaseInv, Tick, callVars
  <2>13. CASE UNCHANGED vars
    BY <2>13 DEF LeaseInv, vars, serverVars, callVars
  <2> QED BY <2>1, <2>2, <2>3, <2>4, <2>5, <2>6, <2>7, <2>8, <2>9, <2>10, <2>11,
             <2>12, <2>13 DEF Next, Serve
<1> QED BY <1>1, <1>2, Typing, PTL DEF Spec

(* As long as a caller counts its TTL from the start of its call, Redis      *)
(* holds its token, whatever late or repeated commands other handles have on *)
(* their way.                                                                *)
THEOREM HolderSafety == Spec => []HolderIsSafe
<1>1. TypeOK /\ LeaseInv => HolderIsSafe
  BY DEF TypeOK, LeaseInv, Backed, HolderIsSafe
<1> QED BY <1>1, LeaseInvHolds, Typing, PTL

(* No two handles may rely on the lock at the same time. *)
THEOREM Exclusion == Spec => []MutualExclusion
<1>1. HolderIsSafe => MutualExclusion
  BY DEF HolderIsSafe, MutualExclusion
<1> QED BY <1>1, HolderSafety, PTL

-----------------------------------------------------------------------------
(* A key that is set has an expiry to come: no lock outlives its TTL unless a *)
(* Refresh of its own token renews it.                                       *)
THEOREM KeyAlwaysExpires == Spec => []KeyHasExpiry
<1> USE TTLAssumption, NilAssumption
<1>1. Init => KeyHasExpiry
  BY DEF Init, KeyHasExpiry
<1>2. TypeOK /\ LeaseInv /\ KeyHasExpiry /\ [Next]_vars => KeyHasExpiry'
  <2> SUFFICES ASSUME TypeOK, LeaseInv, KeyHasExpiry, [Next]_vars PROVE KeyHasExpiry'
    OBVIOUS
  <2>1. ASSUME NEW h \in Handles,
               \/ Lock(h) \/ (\E time \in RefreshTTLs : Refresh(h, time)) \/ Unlock(h)
               \/ Resend(h) \/ Receive(h) \/ GiveUp(h) \/ Crash(h)
        PROVE  KeyHasExpiry'
    BY <2>1 DEF KeyHasExpiry, Lock, Refresh, Unlock, Begin, Send, Resend, Receive, GiveUp, Crash,
                Return, serverVars, callVars
  <2>2. ASSUME NEW m \in sent, ServeSetNX(m) PROVE KeyHasExpiry'
    <3>1. m.handle \in Handles /\ m.ttl \in Nat /\ m.ttl > 0
      BY <2>2 DEF TypeOK, LeaseInv, Command, ServeSetNX
    <3> QED BY <2>2, <3>1 DEF KeyHasExpiry, ServeSetNX, serverVars, callVars
  <2>3. ASSUME NEW m \in sent, ServeRefresh(m) PROVE KeyHasExpiry'
    <3>1. m.handle \in Handles /\ m.ttl \in Nat /\ m.ttl > 0
      BY <2>3 DEF TypeOK, LeaseInv, Command, ServeRefresh
    <3> QED BY <2>3, <3>1 DEF KeyHasExpiry, ServeRefresh, serverVars, callVars
  <2>4. ASSUME NEW m \in sent, ServeUnlock(m) PROVE KeyHasExpiry'
    BY <2>4 DEF KeyHasExpiry, ServeUnlock, serverVars, callVars
  <2>5. ASSUME NEW m \in sent, Lose(m) PROVE KeyHasExpiry'
    BY <2>5 DEF KeyHasExpiry, Lose, serverVars, callVars
  <2>6. CASE Tick
    BY <2>6 DEF TypeOK, KeyHasExpiry, Tick
  <2>7. CASE UNCHANGED vars
    BY <2>7 DEF KeyHasExpiry, vars, serverVars, callVars
  <2> QED BY <2>1, <2>2, <2>3, <2>4, <2>5, <2>6, <2>7 DEF Next, Serve
<1> QED BY <1>1, <1>2, Typing, LeaseInvHolds, PTL DEF Spec

-----------------------------------------------------------------------------
(* The key implements a lease: each step of the lock is one of the lease, or *)
(* leaves the owner and those who rely on it as they are.                    *)
THEOREM Refinement == Spec => RefinesLease
<1> USE TTLAssumption, NilAssumption
<1> DEFINE Step == KeyLease!Next \/ UNCHANGED KeyLease!vars
<1>1. Init => KeyLease!Init
  BY DEF Init, KeyLease!Init, Relying
<1>2. TypeOK /\ LeaseInv /\ HolderIsSafe /\ [Next]_vars => [KeyLease!Next]_(KeyLease!vars)
  <2> SUFFICES ASSUME TypeOK, LeaseInv, HolderIsSafe, [Next]_vars PROVE Step
    BY DEF KeyLease!vars
  <2>1. Relying \subseteq Handles /\ (\A h \in Relying : key = h)
    BY DEF Relying, HolderIsSafe
  \* The key stays, and no one relies on it who did not.
  <2>2. ASSUME UNCHANGED key, Relying' \subseteq Relying PROVE Step
    <3>1. Relying' = Relying \ (Relying \ Relying')
      BY <2>2
    <3>2. KeyLease!Quit(Relying \ Relying')
      BY <2>2, <3>1 DEF KeyLease!Quit
    <3> QED BY <3>2 DEF KeyLease!Next
  \* The key stays, and its handle relies on it from now on.
  <2>3. ASSUME NEW h \in Handles, UNCHANGED key, key = h, Relying' = Relying \cup {h}
        PROVE  Step
    BY <2>3 DEF KeyLease!Rely, KeyLease!Next
  <2>4. ASSUME NEW h \in Handles,
               \/ Lock(h) \/ (\E time \in RefreshTTLs : Refresh(h, time)) \/ Unlock(h)
               \/ Resend(h) \/ Crash(h)
        PROVE  Step
    <3>1. UNCHANGED key
      BY <2>4 DEF Lock, Refresh, Unlock, Begin, Send, Resend, Crash, serverVars
    <3>2. CASE \E time \in RefreshTTLs : Refresh(h, time)
      <4>1. PICK time \in RefreshTTLs : Refresh(h, time)
        BY <3>2
      <4>2. \A g \in Handles :
              IF g = h THEN pc[g] = "held" /\ safe'[g] \in Int /\ safe'[g] <= safe[g]
                       ELSE pc'[g] = pc[g] /\ safe'[g] = safe[g]
        BY <4>1 DEF TypeOK, Refresh, Begin, Min2
      <4>3. Relying' \subseteq Relying
        BY <4>2 DEF TypeOK, Relying
      <4> QED BY <2>2, <3>1, <4>3
    <3>3. CASE Lock(h) \/ Unlock(h) \/ Resend(h) \/ Crash(h)
      <4>1. Relying' \subseteq Relying
        BY <3>3 DEF TypeOK, Relying, Lock, Unlock, Begin, Send, Resend, Crash, EndCall
      <4> QED BY <2>2, <3>1, <4>1
    <3> QED BY <2>4, <3>2, <3>3
  <2>5. ASSUME NEW h \in Handles, GiveUp(h) PROVE Step
    <3>1. Relying' \subseteq Relying
      BY <2>5 DEF TypeOK, Relying, GiveUp, Return, EndCall, serverVars, callVars
    <3> QED BY <2>2, <2>5, <3>1 DEF GiveUp, Return, EndCall, serverVars, callVars
  <2>6. ASSUME NEW h \in Handles, Receive(h) PROVE Step
    <3>1. CASE Relying' \subseteq Relying
      BY <2>2, <2>6, <3>1 DEF Receive, Return, EndCall, serverVars, callVars
    <3>2. CASE ~(Relying' \subseteq Relying)
      <4>1. \A g \in Handles : g # h => (g \in Relying' <=> g \in Relying)
        BY <2>6 DEF TypeOK, Relying, Receive, Return, EndCall, serverVars, callVars
      <4>2. h \in Relying' /\ h \notin Relying
        BY <2>1, <3>2, <4>1 DEF Relying
      <4>3. Relying' = Relying \cup {h}
        BY <2>1, <4>1, <4>2 DEF Relying
      <4>4. pc[h] \in {"lock", "refresh"} /\ answer[h] = "yes" /\ timer[h] > 0
        BY <2>6, <4>2 DEF TypeOK, Relying, Receive, Return, EndCall, serverVars, callVars
      <4>5. key = h
        BY <4>4 DEF LeaseInv, Backed
      <4> QED BY <2>3, <2>6, <4>3, <4>5 DEF Receive, Return, EndCall, serverVars, callVars
    <3> QED BY <3>1, <3>2
  <2>7. ASSUME NEW m \in sent, Serve(m) PROVE Step
    <3>1. m.handle \in Handles
      BY DEF TypeOK, Command
    <3>2. UNCHANGED Relying
      BY <2>7 DEF Relying, Serve, ServeSetNX, ServeRefresh, ServeUnlock, Answer, callVars
    <3>3. CASE UNCHANGED key
      BY <2>2, <3>2, <3>3
    <3>4. CASE ServeSetNX(m) /\ key = Nil
      <4>1. KeyLease!Take(m.handle)
        BY <3>2, <3>4 DEF ServeSetNX, KeyLease!Take
      <4> QED BY <3>1, <4>1 DEF KeyLease!Next
    <3>5. CASE ServeUnlock(m) /\ key = m.handle
      <4>1. m.handle \notin Relying
        BY <3>1, <3>5 DEF LeaseInv, Relying, ServeUnlock
      <4>2. KeyLease!End
        BY <3>2, <3>5, <4>1 DEF ServeUnlock, KeyLease!End
      <4> QED BY <3>1, <3>5, <4>2 DEF KeyLease!Next
    <3> QED BY <2>7, <3>3, <3>4, <3>5 DEF Serve, ServeSetNX, ServeRefresh, ServeUnlock, serverVars, callVars
  <2>8. ASSUME NEW m \in sent, Lose(m) PROVE Step
    <3>1. UNCHANGED <<key, Relying>>
      BY <2>8 DEF Lose, serverVars, callVars, Relying
    <3> QED BY <2>2, <3>1
  <2>9. CASE Tick
    <3>1. Relying' \subseteq Relying
      BY <2>9 DEF TypeOK, Relying, Tick, callVars
    <3>2. CASE UNCHANGED key
      BY <2>2, <3>1, <3>2
    <3>3. CASE key' # key
      <4>1. expiry = 1 /\ key' = Nil /\ key # Nil
        BY <2>9, <3>3 DEF Tick
      <4>2. Relying' = {}
        <5> SUFFICES ASSUME NEW h \in Handles, h \in Relying' PROVE FALSE
          BY DEF Relying
        <5>1. h \in Relying /\ pc[h] \in {"held", "refresh"} /\ safe[h] > 1
          BY <2>9, <3>1 DEF TypeOK, Relying, Tick, callVars
        <5>2. expiry >= safe[h]
          BY <5>1 DEF LeaseInv, Backed, TypeOK
        <5> QED BY <4>1, <5>1, <5>2 DEF TypeOK
      <4>3. Relying \ {key} = {}
        BY <2>1
      <4>4. KeyLease!End
        BY <4>1, <4>2, <4>3 DEF KeyLease!End
      <4> QED BY <4>1, <4>4 DEF KeyLease!Next
    <3> QED BY <3>2, <3>3
  <2>10. CASE UNCHANGED vars
    <3>1. UNCHANGED <<key, Relying>>
      BY <2>10 DEF vars, serverVars, callVars, Relying
    <3> QED BY <2>2, <3>1
  <2> QED BY <2>4, <2>5, <2>6, <2>7, <2>8, <2>9, <2>10 DEF Next
<1> QED BY <1>1, <1>2, Typing, LeaseInvHolds, HolderSafety, PTL
     DEF Spec, RefinesLease, KeyLease!Spec

-----------------------------------------------------------------------------
\* h has ended and no command of it, first or repeated, is on its way.
Gone(h) == pc[h] = "done" /\ \A m \in sent : m.handle # h

(* Once a handle is done with and its last late command has been run or is   *)
(* lost, it never takes the key again nor prolongs it: what is left of its   *)
(* TTL is the last that the other handles have to wait for.                  *)
GoneStaysGone ==
  [][\A h \in Handles : Gone(h) =>
       Gone(h)' /\ (key' = h => key = h /\ expiry' <= expiry)]_vars

THEOREM TheGoneStayGone == Spec => GoneStaysGone
<1> DEFINE Step(h) == Gone(h)' /\ (key' = h => key = h /\ expiry' <= expiry)
<1>1. TypeOK /\ [Next]_vars => [\A h \in Handles : Gone(h) => Step(h)]_vars
  <2> SUFFICES ASSUME TypeOK, [Next]_vars, NEW h \in Handles, Gone(h) PROVE Step(h)
    OBVIOUS
  <2> USE NilAssumption DEF Gone, TypeOK
  <2>1. ASSUME NEW g \in Handles, Lock(g) \/ (\E time \in RefreshTTLs : Refresh(g, time)) \/ Unlock(g) \/ Resend(g) PROVE Step(h)
    <3>1. g # h /\ UNCHANGED serverVars
      BY <2>1 DEF Lock, Refresh, Unlock, Resend, Begin, Send, Operations
    <3>2. pc'[h] = pc[h]
      BY <2>1, <3>1 DEF Lock, Refresh, Unlock, Resend, Begin, Send
    <3>3. \A m \in sent' : m \in sent \/ m.handle = g
      BY <2>1 DEF Lock, Refresh, Unlock, Resend, Begin, Send
    <3> QED BY <3>1, <3>2, <3>3 DEF serverVars, callVars
  <2>2. ASSUME NEW g \in Handles, Receive(g) \/ GiveUp(g) \/ Crash(g) PROVE Step(h)
    BY <2>2 DEF Receive, GiveUp, Crash, Return, Operations, serverVars, callVars
  <2>3. ASSUME NEW m \in sent, Serve(m) \/ Lose(m) PROVE Step(h)
    <3>1. m.handle # h /\ sent' = sent \ {m} /\ UNCHANGED pc
      BY <2>3 DEF Serve, Lose, ServeSetNX, ServeRefresh, ServeUnlock, Answer, callVars
    <3>2. key' = h => key = h /\ expiry' = expiry
      BY <2>3, <3>1 DEF Serve, Lose, ServeSetNX, ServeRefresh, ServeUnlock, serverVars, callVars
    <3> QED BY <3>1, <3>2
  <2>4. CASE Tick
    BY <2>4 DEF Tick, callVars
  <2>5. CASE UNCHANGED vars
    BY <2>5 DEF vars, serverVars, callVars
  <2> QED BY <2>1, <2>2, <2>3, <2>4, <2>5 DEF Next
<1> QED BY <1>1, Typing, PTL DEF Spec, GoneStaysGone
=============================================================================
