----------------------------- MODULE StopBudget -----------------------------
(***************************************************************************)
(* The time a Stop of an instance has: what module KubeStack's Stop of a   *)
(* stack and module Process's Stop of a process are called with.           *)
(***************************************************************************)
EXTENDS Integers

CONSTANTS
    Millisecond,    \* the floor of effectiveStopTimeout and drainReserve
    StopTimeout,    \* i.cfg.StopTimeout and b.stopTimeout
    Remaining       \* ticks to the deadline of the context of a Stop

ASSUME TimeoutsAssumption ==
    {Millisecond, StopTimeout} \subseteq Nat \ {0} /\ Remaining \subseteq Int

MinOf(a, b) == IF a < b THEN a ELSE b

\* Fault: a deadline that has passed is handed on.
effectiveStopTimeout_Unclamped(remaining) == MinOf(StopTimeout, remaining)

(* The timeout of Instance.Stop; the deadline may have passed.             *)
effectiveStopTimeout(remaining) ==
    LET t == MinOf(StopTimeout, remaining) IN IF t <= 0 THEN Millisecond ELSE t

=============================================================================
