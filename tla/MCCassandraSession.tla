------------------------- MODULE MCCassandraSession -------------------------
(* CassandraSession for TLC: threads and driver sessions are interchangeable. *)
EXTENDS CassandraSession, TLC

ThreadSessionSymmetry == Permutations(Threads) \cup Permutations(Sessions)
=============================================================================
