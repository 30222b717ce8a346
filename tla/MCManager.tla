----------------------------- MODULE MCManager -----------------------------
(***************************************************************************)
(* One goroutine that initializes and shuts down, and clients.             *)
(***************************************************************************)
EXTENDS Manager, TLC

\* Clients are interchangeable; no liveness property is checked with it.
Symmetry == Permutations(Clients)

=============================================================================
