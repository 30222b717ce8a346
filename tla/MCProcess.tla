----------------------------- MODULE MCProcess -----------------------------
(***************************************************************************)
(* Deadlines that have passed, and timeouts of one tick and below, at and  *)
(* above the sum of grace period and drain budget.                         *)
(***************************************************************************)
EXTENDS Process

Deadlines == -1 .. 12

=============================================================================
