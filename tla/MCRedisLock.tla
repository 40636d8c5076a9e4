----------------------------- MODULE MCRedisLock -----------------------------
(* Symmetry for the safety run of RedisLock. *)
EXTENDS RedisLock, TLC

Symmetry == Permutations(Handles)
=============================================================================
