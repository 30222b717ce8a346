------------------------------- MODULE MCPool -------------------------------
(***************************************************************************)
(* Small pools for TLC.                                                    *)
(***************************************************************************)
EXTENDS Pool, TLC

\* Goroutines are interchangeable; no liveness property is checked with it.
Symmetry == Permutations(Threads)

=============================================================================
