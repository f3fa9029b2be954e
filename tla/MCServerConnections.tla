------------------------ MODULE MCServerConnections ------------------------
(* Two threads that are alike. *)
EXTENDS ServerConnections, TLC

Symmetry == Permutations(Threads)
=============================================================================
