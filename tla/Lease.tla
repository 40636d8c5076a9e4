-------------------------------- MODULE Lease --------------------------------
(***************************************************************************)
(* What a lock with a TTL promises: there is one owner on record at most,  *)
(* a client relies on the lock only while it is the owner, and the record  *)
(* changes hands only through nobody.  RedisLock implements this with a    *)
(* key and a TTL; JobScheduler's triggers rest on it, job by job.          *)
(***************************************************************************)
CONSTANTS
  Clients,  \* those who may take the lock
  Nobody,   \* the record of a free lock
  Lost      \* the record of an owner that cannot be told any more

VARIABLES
  owner,    \* the owner on record, Nobody or Lost
  relying   \* the clients that rely on being the owner

vars == <<owner, relying>>

Init == owner = Nobody /\ relying = {}

\* The client learns of it at once, later or never.
Take(c) ==
  /\ owner = Nobody
  /\ owner' = c
  /\ relying' \in {relying, relying \cup {c}}

TakeLost ==
  /\ owner = Nobody
  /\ owner' = Lost
  /\ UNCHANGED relying

Rely(c) ==
  /\ owner = c
  /\ relying' = relying \cup {c}
  /\ UNCHANGED owner

\* Clients stop relying on it, whatever the record says.
Quit(cs) ==
  /\ relying' = relying \ cs
  /\ UNCHANGED owner

\* The record is cleared, or nobody will answer for it: an owner that still
\* relied on it would rely on nothing.
End ==
  /\ owner' \in {Nobody, Lost}
  /\ relying' = relying \ {owner}

Next ==
  \/ \E c \in Clients : Take(c) \/ Rely(c)
  \/ TakeLost
  \/ \E cs \in SUBSET relying : Quit(cs)
  \/ owner # Nobody /\ End

Spec == Init /\ [][Next]_vars
=============================================================================
