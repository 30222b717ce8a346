---------------------------- MODULE MCKubeStack ----------------------------
(***************************************************************************)
(* Stacks of one process that compete for a few ports.                     *)
(***************************************************************************)
EXTENDS KubeStack, TLC

OneRegistry == [o \in Owners |-> 1]

\* Owners of one registry and the port numbers are interchangeable; no
\* liveness property is checked with it.
Symmetry == Permutations(PortNos) \cup Permutations(Owners)

=============================================================================
