----------------------------- MODULE MCCrdCache -----------------------------
(* A directory in which an instance of a definition comes before it, and   *)
(* one without files.                                                      *)
EXTENDS CrdCache

InstanceFirst == [f \in {1, 2} |-> IF f = 1 THEN {2} ELSE {}]
FullOrEmpty == {Empty, [f \in Files |-> CHOOSE v \in Versions : TRUE]}
=============================================================================
