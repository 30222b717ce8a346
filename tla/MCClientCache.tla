---------------------------- MODULE MCClientCache ---------------------------
(***************************************************************************)
(* Goroutines that start and stop one instance and call Config on it, in   *)
(* any order.                                                              *)
(***************************************************************************)
EXTENDS ClientCache, TLC

Symmetry == Permutations(Threads)

=============================================================================
