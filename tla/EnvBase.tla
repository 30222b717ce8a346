------------------------------ MODULE EnvBase ------------------------------
(***************************************************************************)
(* What the pool, the instances and the manager of package core have in    *)
(* common: the goroutines that call them and the instances they work on.   *)
(*                                                                         *)
(* An Instance is named by the index the pool passes to its factory; the   *)
(* random part of its ID is left out, because the index alone is unique.   *)
(***************************************************************************)
EXTENDS Integers, Sequences, FiniteSets

CONSTANTS
    Threads,     \* the goroutines that call the library
    MaxIdx       \* bound: how many instances a pool may create over its life

ASSUME ThreadsAssumption == IsFiniteSet(Threads)
ASSUME MaxIdxAssumption == MaxIdx \in Nat

Instances == 0 .. (MaxIdx - 1)

NoInst == -1

=============================================================================
