--------------------------- MODULE MCRedisSession ---------------------------
(* RedisSession for TLC: the host's threads are interchangeable. *)
EXTENDS RedisSession, TLC

ThreadSymmetry == Permutations(Threads)
=============================================================================
