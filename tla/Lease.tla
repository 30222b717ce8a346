------------------------------- MODULE Lease --------------------------------
(***************************************************************************)
(* What k8senv promises its callers, without pool, processes or databases: *)
(* an item (an instance) is leased to one caller at a time, no data of an  *)
(* earlier tenant is in it when a lease begins, and no clean-up touches it *)
(* while the lease lasts.                                                  *)
(*                                                                         *)
(* A lease is a pair of an item and a token.  leases has those that have   *)
(* not been given back and past those that have; dirty[i] says that i      *)
(* holds a tenant's data.                                                  *)
(***************************************************************************)
EXTENDS Naturals

CONSTANTS
    Items,    \* what is leased
    Tokens    \* names of leases, natural numbers

VARIABLES leases, past, dirty

leaseVars == <<leases, past, dirty>>

LeaseInit ==
    /\ leases = {}
    /\ past = {}
    /\ dirty = [i \in Items |-> FALSE]

Leased(i) == \E l \in leases : l[1] = i

(* A lease begins, with a token newer than those of earlier leases.        *)
Grant(i, k) ==
    /\ leases' = leases \cup {<<i, k>>}
    /\ ~Leased(i)
    /\ ~dirty[i]
    /\ \A p \in past : p[1] = i => p[2] < k
    /\ UNCHANGED <<past, dirty>>

(* The tenant changes the data of the item, perhaps back to what it was.   *)
Write(i) ==
    /\ Leased(i)
    /\ dirty' \in {[dirty EXCEPT ![i] = d] : d \in BOOLEAN}
    /\ UNCHANGED <<leases, past>>

(* A lease ends.                                                           *)
GiveBack(l) ==
    /\ leases' = leases \ {l}
    /\ past' = past \cup {l}
    /\ UNCHANGED dirty

(* The data of an item that nobody leases is removed.                      *)
Wipe(i) ==
    /\ ~Leased(i)
    /\ dirty' = [dirty EXCEPT ![i] = FALSE]
    /\ UNCHANGED <<leases, past>>

LeaseNext ==
    \/ \E i \in Items, k \in Tokens : Grant(i, k)
    \/ \E l \in leases : GiveBack(l)
    \/ \E i \in Items : Write(i) \/ Wipe(i)

LeaseSpec == LeaseInit /\ [][LeaseNext]_leaseVars

=============================================================================
