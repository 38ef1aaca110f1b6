---------------------------- MODULE MCDBConnPool ----------------------------
(* Instances of DBConnPool for TLC.                                         *)
EXTENDS DBConnPool, TLC

Symmetry == Permutations(Threads) \cup Permutations(Conns)
=============================================================================
