--------------------------- MODULE ManagerProofs ----------------------------
(***************************************************************************)
(* The kinds of steps of ManagerMoves keep the parts of its invariant, for *)
(* any number of goroutines and instances and any size of the pool: the    *)
(* frames of a goroutine stay linked, an instance has one holder, what is  *)
(* stopped has left circulation, what runs is accounted for, and no data   *)
(* of one caller is on its way to another.                                 *)
(***************************************************************************)
EXTENDS ManagerMoves

-----------------------------------------------------------------------------
(* A goroutine outside the pool and the instances.                         *)
LEMMA Outside ==
    ASSUME NEW t \in Threads, Linked(t)
    PROVE  /\ mpc[t] \notin PoolCalls => ppc[t] = "idle"
           /\ mpc[t] # "aStarting" => spc[t] = "no"
           /\ mpc[t] \notin PoolCalls \cup StopCalls \cup {"sStop"} =>
                 \A i \in Instances : xpc[<<t, i>>] = "no"
<1>1. mpc[t] \notin PoolCalls => ppc[t] = "idle"
  BY Zenon DEF Linked
<1>2. mpc[t] # "aStarting" => spc[t] = "no"
  BY Zenon DEF Linked
<1>3. ASSUME mpc[t] \notin PoolCalls \cup StopCalls \cup {"sStop"}, NEW i \in Instances
      PROVE  xpc[<<t, i>>] = "no"
  <2>1. ppc[t] = "idle" /\ "idle" \notin StopPC
    BY <1>1, <1>3, Zenon DEF StopPC
  <2> QED
    BY <1>3, <2>1, Zenon DEF Linked, Ending
<1> QED
  BY <1>1, <1>2, <1>3, Zenon

(* Such a frame is linked.                                                 *)
Unattached(t) ==
    /\ ppc[t] = "idle"
    /\ spc[t] # "no" => mpc[t] = "aStarting" /\ sinst[t] = minst[t]
    /\ \A i \in Instances : xpc[<<t, i>>] = "no"
    /\ mpc[t] \in HolderPC \cup StopCalls => minst[t] \in Instances

LEMMA OutsideLinked ==
    ASSUME NEW t, Unattached(t)'
    PROVE  Linked(t)'
<1>1. ~Presents(t)'
  BY Zenon DEF Unattached, Presents
<1> QED
  BY <1>1, Zenon DEF Unattached, Linked

LEMMA LinkManagerMoves ==
    ASSUME MgrTypes, PoolFacts, Link, NEW t \in Threads,
           \/ LocalMove(t) \/ GrantMove(t) \/ TakeMove(t) \/ WipeMove(t)
           \/ StartMove(t) \/ ReceiveMove(t) \/ LeaveMove(t) \/ GiveUpMove(t)
    PROVE  Linked(t)'
<1> SUFFICES Unattached(t)'
  BY OutsideLinked, Zenon
<1>1. Linked(t)
  BY Zenon DEF Link
<1>2. mpc[t] \in HolderPC \cup StopCalls => minst[t] \in Instances
  BY <1>1, Zenon DEF Linked
<1>3. CASE LocalMove(t)
  <2>1. UNCHANGED <<ppc, spc, sinst, xpc>>
    BY <1>3, Zenon DEF LocalMove, poolVars, instVars, startFrame, stopFrame
  <2>2. mpc[t] \notin PoolCalls \cup StopCalls \cup {"sStop"} /\ mpc[t] # "aStarting"
    BY <1>3, PlacesApart, Zenon DEF LocalMove
  <2>3. mpc'[t] \in HolderPC \cup StopCalls => minst'[t] \in Instances
    BY <1>2, <1>3, PlacesApart, Zenon DEF LocalMove
  <2> QED
    BY <1>1, <2>1, <2>2, <2>3, Outside, Zenon DEF Unattached
<1>4. CASE GrantMove(t)
  <2>1. mpc[t] \notin PoolCalls \cup StopCalls \cup {"sStop"}
    BY <1>4, PlacesApart, Zenon DEF GrantMove, HolderPC
  <2>2. UNCHANGED <<ppc, xpc>> /\ spc'[t] = "no" /\ mpc'[t] \notin HolderPC \cup StopCalls
    BY <1>4, RestingPlaces, PlacesApart, Zenon DEF GrantMove, poolVars
  <2> QED
    BY <1>1, <2>1, <2>2, Outside, Zenon DEF Unattached
<1>5. CASE TakeMove(t)
  <2>1. UNCHANGED <<ppc, spc, sinst, xpc>>
    BY <1>5, Zenon DEF TakeMove, poolVars, instVars, startFrame, stopFrame
  <2>2. mpc[t] \notin PoolCalls \cup StopCalls \cup {"sStop"} /\ mpc[t] # "aStarting"
    BY <1>5, RestingPlaces, PlacesApart, Zenon DEF TakeMove
  <2>3. minst'[t] \in Instances
    BY <1>5, Zenon DEF TakeMove, Held, MgrTypes
  <2> QED
    BY <1>1, <2>1, <2>2, <2>3, Outside, Zenon DEF Unattached
<1>6. CASE WipeMove(t)
  <2>1. UNCHANGED <<ppc, spc, sinst, xpc>>
    BY <1>6, Zenon DEF WipeMove, poolVars, instVars, startFrame, stopFrame
  <2>2. mpc[t] \in HolderPC /\ mpc[t] # "aStarting"
    BY <1>6, Zenon DEF WipeMove, HolderPC
  <2>3. minst'[t] \in Instances
    BY <1>2, <1>6, <2>2, Zenon DEF WipeMove
  <2> QED
    BY <1>1, <2>1, <2>2, <2>3, Outside, PlacesApart, Zenon DEF Unattached
<1>7. CASE StartMove(t)
  <2>1. UNCHANGED <<ppc, xpc>> /\ mpc'[t] = "aStarting" /\ sinst'[t] = minst'[t]
    BY <1>7, Zenon DEF StartMove, poolVars
  <2>2. mpc[t] \in HolderPC /\ mpc[t] # "aStarting"
    BY <1>7, Zenon DEF StartMove, HolderPC
  <2>3. minst'[t] \in Instances
    BY <1>2, <1>7, <2>2, Zenon DEF StartMove
  <2> QED
    BY <1>1, <2>1, <2>2, <2>3, Outside, PlacesApart, Zenon DEF Unattached
<1>8. CASE ReceiveMove(t) \/ LeaveMove(t)
  <2>1. UNCHANGED <<spc, sinst, xpc>> /\ ppc'[t] = "idle"
    BY <1>8, Zenon DEF ReceiveMove, LeaveMove, instVars, startFrame, stopFrame
  <2>2. mpc[t] \in PoolCalls /\ mpc[t] # "sStop" /\ mpc[t] \notin StopCalls
    BY <1>8, PlacesApart, Zenon DEF ReceiveMove, LeaveMove, PoolCalls, StopCalls
  <2>3. ppc[t] \notin StopPC
    <3>1. CASE LeaveMove(t)
      BY <3>1, Zenon DEF LeaveMove, StopPC
    <3>2. CASE ReceiveMove(t)
      BY <3>2, Zenon DEF ReceiveMove, StopPC, Presents
    <3> QED
      BY <1>8, <3>1, <3>2, Zenon
  <2>4. mpc'[t] \in HolderPC \cup StopCalls => minst'[t] \in Instances
    BY <1>1, <1>8, PlacesApart, Zenon DEF ReceiveMove, LeaveMove, Linked
  <2>5. spc[t] = "no" /\ \A i \in Instances : xpc[<<t, i>>] = "no"
    BY <1>1, <2>2, <2>3, PlacesApart, Zenon DEF Linked, Ending
  <2> QED
    BY <2>1, <2>4, <2>5, Zenon DEF Unattached
<1>9. CASE GiveUpMove(t)
  <2>1. UNCHANGED <<ppc, spc, sinst, xpc>> /\ minst'[t] = minst[t]
    BY <1>9, Zenon DEF GiveUpMove, instVars, startFrame, stopFrame
  <2>2. mpc[t] \in HolderPC /\ mpc[t] # "aStarting"
    BY <1>9, Zenon DEF GiveUpMove, HolderPC
  <2> QED
    BY <1>1, <1>2, <2>1, <2>2, Outside, PlacesApart, Zenon DEF Unattached
<1> QED
  BY <1>3, <1>4, <1>5, <1>6, <1>7, <1>8, <1>9, Zenon

(* A goroutine inside the pool.                                            *)
PoolLinked(t) ==
    /\ mpc[t] \in PoolCalls
    /\ ppc[t] \in {"select", "lock", "factory", "mark", "slotStop", "stopRet"} => mpc[t] = "aWait"
    /\ ppc[t] \in {"release", "relLock", "relStop"} => mpc[t] = "rPool"
    /\ ppc[t] \in {"fail", "failStop"} => mpc[t] \in {"aFailed", "rFailed"}
    /\ ppc[t] \in {"close", "closeCh"} => mpc[t] = "sClose"
    /\ ppc[t] = "slot" => mpc[t] # "sClose"
    /\ ppc[t] \in {"slot", "stopRet"} /\ mpc[t] = "aWait" => pret[t] # "ok"
    /\ Presents(t) => pinst[t] \in Instances

LEMMA InsideLinked ==
    ASSUME NEW t, PoolLinked(t)', spc'[t] = "no", \A i \in Instances : xpc'[<<t, i>>] = "no"
    PROVE  Linked(t)'
<1>1. mpc'[t] \notin HolderPC \cup StopCalls
  BY PlacesApart, Zenon DEF PoolLinked
<1> QED
  BY <1>1, Zenon DEF PoolLinked, Linked

LEMMA InsidePool ==
    ASSUME NEW t, Linked(t), ppc[t] # "idle"
    PROVE  /\ PoolLinked(t) /\ spc[t] = "no"
           /\ ppc[t] \notin StopPC => \A i \in Instances : xpc[<<t, i>>] = "no"
<1>1. mpc[t] \in PoolCalls
  BY Zenon DEF Linked
<1>2. mpc[t] # "aStarting" /\ mpc[t] # "sStop" /\ mpc[t] \notin StopCalls
  BY <1>1, PlacesApart, Zenon
<1>3. PoolLinked(t)
  BY <1>1, Zenon DEF Linked, PoolLinked
<1>4. spc[t] = "no"
  BY <1>2, Zenon DEF Linked
<1>5. ppc[t] \notin StopPC => \A i \in Instances : xpc[<<t, i>>] = "no"
  BY <1>2, Zenon DEF Linked, Ending
<1> QED
  BY <1>3, <1>4, <1>5, Zenon

LEMMA LinkPoolMoves ==
    ASSUME PoolFacts, Link, NEW t \in Threads, PoolMove(t)
    PROVE  Linked(t)'
<1>1. ppc[t] # "idle" /\ ppc[t] \notin StopPC
  BY Zenon DEF PoolMove, QuietMove, PopMove, ReserveMove, FactoryErrMove, RegisterMove,
     MarkMove, CasMove, PushMove, CloseMove, SlotStopMove, StopPC
<1>2. UNCHANGED <<mpc, minst, spc, xpc>>
  BY Zenon DEF PoolMove, QuietMove, PopMove, ReserveMove, FactoryErrMove, RegisterMove,
     MarkMove, CasMove, PushMove, CloseMove, SlotStopMove, mgrVars, mgrFrame, instVars,
     startFrame, stopFrame
<1>3. PoolLinked(t) /\ spc[t] = "no" /\ \A i \in Instances : xpc[<<t, i>>] = "no"
  BY <1>1, InsidePool, Zenon DEF Link
<1>4. ppc[t] \in OnInstance => pinst[t] \in Instances
  BY Zenon DEF PoolFacts
<1> SUFFICES PoolLinked(t)'
  BY <1>2, <1>3, InsideLinked, Zenon
<1> USE <1>2, <1>3 DEF PoolLinked, Presents
<1>5. CASE QuietMove(t)
  BY <1>5 DEF QuietMove, PoolCalls
<1>6. CASE PopMove(t) \/ ReserveMove(t) \/ FactoryErrMove(t)
  BY <1>6 DEF PopMove, ReserveMove, FactoryErrMove
<1>7. CASE RegisterMove(t) \/ SlotStopMove(t)
  BY <1>7 DEF RegisterMove, SlotStopMove
<1>8. CASE MarkMove(t)
  BY <1>4, <1>8 DEF MarkMove, OnInstance
<1>9. CASE CasMove(t)
  BY <1>9, Zenon DEF CasMove
<1>10. CASE PushMove(t) \/ CloseMove(t)
  BY <1>10, Zenon DEF PushMove, CloseMove
<1> QED
  BY <1>5, <1>6, <1>7, <1>8, <1>9, <1>10, Zenon DEF PoolMove

LEMMA LinkCallMoves ==
    ASSUME PoolFacts, InstTypeOK, Link, NEW t \in Threads,
           \/ WriteMove(t) \/ EnterMove(t) \/ PresentMove(t) \/ StopMove(t) \/ GiveUpDoneMove(t)
           \/ PoolStopMove(t) \/ StopAllMove(t) \/ ReturnMove(t) \/ InstMove(t)
    PROVE  Linked(t)'
<1>1. Linked(t)
  BY Zenon DEF Link
<1>2. CASE WriteMove(t)
  BY <1>1, <1>2, Zenon DEF WriteMove, Linked, Presents, Ending, mgrFrame, poolVars, instVars,
     startFrame, stopFrame
<1>3. CASE EnterMove(t)
  <2>1. UNCHANGED <<spc, xpc>>
    BY <1>3, Zenon DEF EnterMove, instVars, startFrame, stopFrame
  <2>2. spc[t] = "no" /\ \A i \in Instances : xpc[<<t, i>>] = "no"
    BY <1>1, <1>3, Outside, PlacesApart, Zenon DEF EnterMove
  <2>3. PoolLinked(t)'
    BY <1>3, Zenon DEF EnterMove, PoolLinked, Presents, PoolCalls
  <2> QED
    BY <2>1, <2>2, <2>3, InsideLinked, Zenon
<1>4. CASE PresentMove(t)
  <2>1. mpc[t] \in HolderPC
    BY <1>4, Zenon DEF PresentMove, HolderPC
  <2>2. UNCHANGED xpc /\ spc'[t] = "no" /\ \A i \in Instances : xpc[<<t, i>>] = "no"
    BY <1>1, <1>4, <2>1, Outside, PlacesApart, Zenon DEF PresentMove
  <2>3. pinst'[t] \in Instances
    BY <1>1, <1>4, <2>1, Zenon DEF PresentMove, Linked
  <2>4. PoolLinked(t)'
    BY <1>4, <2>3, Zenon DEF PresentMove, PoolLinked, Presents, PoolCalls
  <2> QED
    BY <2>2, <2>4, InsideLinked, Zenon
<1>5. CASE StopMove(t)
  <2>1. UNCHANGED <<mpc, minst, ppc, pinst, pret>>
    BY <1>5, Zenon DEF StopMove, mgrVars, mgrFrame, poolVars
  <2>2. PICK j \in Instances : Ending(t, j) /\ StopCall(t, {j})
    BY <1>5, Zenon DEF StopMove
  <2>3. UNCHANGED <<spc, sinst>> /\ \A i \in Instances : xpc'[<<t, i>>] # "no" =>
            Ending(t, i) \/ xpc[<<t, i>>] # "no"
    <3>1. /\ spc' = spc /\ sinst' = sinst
          /\ \A i \in Instances : xpc'[<<t, i>>] = IF i \in {j} THEN "lock" ELSE xpc[<<t, i>>]
      BY <2>2, StopCallFrame, Zenon
    <3> QED
      BY <2>2, <3>1, Zenon
  <2> QED
    BY <1>1, <2>1, <2>3, Zenon DEF Linked, Presents, Ending
<1>6. CASE GiveUpDoneMove(t) \/ ReturnMove(t)
  <2>1. mpc[t] \in StopCalls \cup {"sStop"} /\ mpc'[t] = "idle" /\ UNCHANGED ppc /\ StopConsume(t)
    BY <1>6, Zenon DEF GiveUpDoneMove, ReturnMove, poolVars
  <2>2. ppc[t] = "idle" /\ spc[t] = "no"
    BY <1>1, <2>1, Outside, PlacesApart, Zenon
  <2>3. Unattached(t)'
    <3>1. spc' = spc /\ \A i \in Instances : xpc'[<<t, i>>] = "no"
      BY <2>1, StopConsumeFrame, Zenon
    <3> QED
      BY <2>1, <2>2, <3>1, RestingPlaces, PlacesApart, Zenon DEF Unattached
  <2> QED
    BY <2>3, OutsideLinked, Zenon
<1>7. CASE PoolStopMove(t)
  <2>1. UNCHANGED <<mpc, pret>> /\ ppc[t] \in StopPC /\ StopConsume(t)
        /\ ppc'[t] = IF ppc[t] = "stopRet" THEN "ret" ELSE "slot"
    BY <1>7, Zenon DEF PoolStopMove, mgrVars, mgrFrame
  <2>2. PoolLinked(t) /\ spc[t] = "no"
    BY <1>1, <2>1, InsidePool, Zenon DEF StopPC
  <2>3. PoolLinked(t)'
    BY <2>1, <2>2 DEF PoolLinked, Presents, StopPC
  <2> QED
    BY <2>1, <2>2, <2>3, StopConsumeFrame, InsideLinked, Zenon
<1>8. CASE StopAllMove(t)
  <2>1. /\ mpc[t] = "sClose" /\ ppc[t] = "ret" /\ mpc'[t] = "sStop" /\ ppc'[t] = "idle"
        /\ StopCall(t, all)
    BY <1>8, Zenon DEF StopAllMove
  <2>2. spc[t] = "no"
    BY <1>1, <2>1, Outside, Zenon
  <2>3. spc'[t] = "no"
    BY <2>1, <2>2, StopCallFrame, Zenon
  <2>4. ~Presents(t)' /\ mpc'[t] \notin HolderPC \cup StopCalls
    BY <2>1, PlacesApart, Zenon DEF Presents
  <2> QED
    BY <2>1, <2>3, <2>4, Zenon DEF Linked
<1>9. CASE InstMove(t)
  <2>1. UNCHANGED <<mpc, minst, ppc, pinst, pret, sinst>>
    BY <1>9, Zenon DEF InstMove, mgrVars, mgrFrame, poolVars
  <2>2. /\ spc'[t] # "no" => spc[t] # "no"
        /\ \A i \in Instances : xpc'[<<t, i>>] # "no" => xpc[<<t, i>>] # "no"
    <3>1. spc'[t] # "no" => spc[t] # "no"
      BY <1>9, Zenon DEF InstMove
    <3>2. ASSUME NEW i \in Instances PROVE xpc'[<<t, i>>] # "no" => xpc[<<t, i>>] # "no"
      <4>1. \A u \in Threads, j \in Instances :
               /\ xpc'[<<u, j>>] # "no" => xpc[<<u, j>>] # "no"
               /\ xpc[<<u, j>>] = "lock" => xpc'[<<u, j>>] = "lock" \/ stack'[j] = None
               /\ xpc'[<<u, j>>] \in {"clear", "close", "kill", "done"} =>
                     xpc[<<u, j>>] \in {"clear", "close", "kill", "done"} \/ stack'[j] = None
        BY <1>9, Zenon DEF InstMove
      <4> QED
        BY <4>1, Zenon
    <3> QED
      BY <3>1, <3>2, Zenon
  <2> QED
    BY <1>1, <2>1, <2>2, Zenon DEF Linked, Presents, Ending
<1> QED
  BY <1>2, <1>3, <1>4, <1>5, <1>6, <1>7, <1>8, <1>9, Zenon

LEMMA LinkStep ==
    ASSUME MgrTypes, PoolFacts, InstTypeOK, Link, NEW t \in Threads, Move(t),
           MgrOthers(t), PoolOthers(t), CallOthers(t)
    PROVE  Link'
<1> SUFFICES ASSUME NEW u \in Threads PROVE Linked(u)'
  BY Zenon DEF Link
<1>1. CASE u # t
  <2>1. /\ mpc'[u] = mpc[u] /\ minst'[u] = minst[u]
        /\ ppc'[u] = ppc[u] /\ pinst'[u] = pinst[u] /\ pret'[u] = pret[u]
        /\ spc'[u] = spc[u] /\ sinst'[u] = sinst[u]
        /\ \A i \in Instances : xpc'[<<u, i>>] = xpc[<<u, i>>]
    BY <1>1, Zenon DEF MgrOthers, PoolOthers, CallOthers
  <2>2. Linked(u)
    BY Zenon DEF Link
  <2> QED
    BY <2>1, <2>2, LinkedKept, Zenon
<1>2. Linked(t)'
  BY LinkManagerMoves, LinkPoolMoves, LinkCallMoves, Zenon DEF Move, MgrMove
<1> QED
  BY <1>1, <1>2, Zenon

-----------------------------------------------------------------------------
(* Holders.  All steps but five keep who has what.                         *)
SameHolders ==
    /\ issued' = issued /\ released' = released /\ gen' = gen
    /\ \A u \in Threads, i \in Instances, k \in Nat : Has(u, i, k)' <=> Has(u, i, k)

LEMMA OthersHave ==
    ASSUME NEW t, MgrOthers(t), PoolOthers(t)
    PROVE  \A u \in Threads : u # t => \A i, k : Has(u, i, k)' <=> Has(u, i, k)
<1> SUFFICES ASSUME NEW u \in Threads, u # t
             PROVE  \A i, k : Has(u, i, k)' <=> Has(u, i, k)
  BY Zenon
<1>1. /\ mpc'[u] = mpc[u] /\ minst'[u] = minst[u] /\ mtok'[u] = mtok[u]
      /\ ppc'[u] = ppc[u] /\ pinst'[u] = pinst[u] /\ ptok'[u] = ptok[u] /\ pret'[u] = pret[u]
  BY Zenon DEF MgrOthers, PoolOthers
<1> QED
  BY <1>1, Zenon DEF Has, Presents

LEMMA HasSame ==
    ASSUME NEW t \in Threads, Linked(t), Linked(t)', PoolFacts,
           \/ LocalMove(t) \/ WriteMove(t) \/ WipeMove(t) \/ EnterMove(t) \/ PresentMove(t)
           \/ ReceiveMove(t) \/ LeaveMove(t) \/ StartMove(t)
    PROVE  /\ \A i, k : Has(t, i, k)' <=> Has(t, i, k)
           /\ issued' = issued /\ released' = released /\ gen' = gen
<1>1. mpc[t] \notin PoolCalls => ~Presents(t)
  BY Outside, Zenon DEF Presents
<1>2. CASE LocalMove(t)
  <2>1. UNCHANGED <<issued, released, gen, ppc, pinst, ptok, pret>>
    BY <1>2, Zenon DEF LocalMove, apiVars, poolVars, poolShared
  <2>2. ~Presents(t) /\ ~Presents(t)'
    BY <1>1, <1>2, <2>1, PlacesApart, Zenon DEF LocalMove, Presents, PoolCalls
  <2>3. \A i, k : Has(t, i, k)' <=> Has(t, i, k)
    BY <1>2, <2>2, PlacesApart, Zenon DEF LocalMove, Has
  <2> QED
    BY <2>1, <2>3, Zenon
<1>3. CASE WriteMove(t)
  BY <1>3, Zenon DEF WriteMove, mgrFrame, poolVars, poolShared, Has, Presents
<1>4. CASE WipeMove(t)
  <2>1. UNCHANGED <<issued, released, gen, ppc, pinst, ptok, pret>>
    BY <1>4, Zenon DEF WipeMove, poolVars, poolShared
  <2>2. mpc[t] \in HolderPC /\ mpc'[t] \in HolderPC /\ minst'[t] = minst[t] /\ mtok'[t] = mtok[t]
    BY <1>4, Zenon DEF WipeMove, HolderPC
  <2>3. ~Presents(t) /\ ~Presents(t)'
    BY <1>1, <2>1, <2>2, PlacesApart, Zenon DEF Presents, PoolCalls
  <2>4. \A i, k : Has(t, i, k)' <=> Has(t, i, k)
    BY <2>2, <2>3, Zenon DEF Has
  <2> QED
    BY <2>1, <2>4, Zenon
<1>5. CASE EnterMove(t)
  <2>1. UNCHANGED <<issued, released, gen>>
    BY <1>5, Zenon DEF EnterMove, apiVars
  <2>2. ~Presents(t) /\ ~Presents(t)' /\ mpc[t] \notin HolderPC /\ mpc'[t] \notin HolderPC
    BY <1>5, PlacesApart, Zenon DEF EnterMove, Presents, PoolCalls
  <2> QED
    BY <2>1, <2>2, Zenon DEF Has
<1>6. CASE PresentMove(t)
  <2>1. UNCHANGED <<issued, released, gen>>
    BY <1>6, Zenon DEF PresentMove, apiVars, poolShared
  <2>2. mpc[t] \in HolderPC /\ ppc[t] = "idle" /\ mpc'[t] \notin HolderPC
    BY <1>6, PlacesApart, Zenon DEF PresentMove, HolderPC, PoolCalls
  <2>3. ~Presents(t) /\ Presents(t)' /\ pinst'[t] = minst[t] /\ ptok'[t] = mtok[t]
    BY <1>6, Zenon DEF PresentMove, Presents
  <2>4. \A i, k : Has(t, i, k)' <=> Has(t, i, k)
    BY <2>2, <2>3, Zenon DEF Has
  <2> QED
    BY <2>1, <2>4, Zenon
<1>7. CASE ReceiveMove(t)
  <2>1. UNCHANGED <<issued, released, gen>>
    BY <1>7, Zenon DEF ReceiveMove, apiVars, poolShared
  <2>2. Presents(t) /\ mpc[t] \notin HolderPC /\ mpc'[t] \in HolderPC /\ ~Presents(t)'
    BY <1>7, PlacesApart, Zenon DEF ReceiveMove, HolderPC, PoolCalls, Presents
  <2>3. minst'[t] = pinst[t] /\ mtok'[t] = ptok[t]
    BY <1>7, Zenon DEF ReceiveMove
  <2>4. \A i, k : Has(t, i, k)' <=> Has(t, i, k)
    BY <2>2, <2>3, Zenon DEF Has
  <2> QED
    BY <2>1, <2>4, Zenon
<1>8. CASE LeaveMove(t)
  <2>1. UNCHANGED <<issued, released, gen>>
    BY <1>8, Zenon DEF LeaveMove, apiVars, poolShared
  <2>2. ~Presents(t) /\ ~Presents(t)' /\ mpc[t] \notin HolderPC /\ mpc'[t] \notin HolderPC
    BY <1>8, PlacesApart, Zenon DEF LeaveMove, Presents
  <2> QED
    BY <2>1, <2>2, Zenon DEF Has
<1>9. CASE StartMove(t)
  <2>1. UNCHANGED <<issued, released, gen, ppc, pinst, ptok, pret>>
    BY <1>9, Zenon DEF StartMove, apiVars, poolVars, poolShared
  <2>2. mpc[t] \in HolderPC /\ mpc'[t] \in HolderPC /\ minst'[t] = minst[t] /\ mtok'[t] = mtok[t]
    BY <1>9, Zenon DEF StartMove, HolderPC
  <2>3. ~Presents(t) /\ ~Presents(t)'
    BY <1>1, <2>1, <2>2, PlacesApart, Zenon DEF Presents, PoolCalls
  <2>4. \A i, k : Has(t, i, k)' <=> Has(t, i, k)
    BY <2>2, <2>3, Zenon DEF Has
  <2> QED
    BY <2>1, <2>4, Zenon
<1> QED
  BY <1>2, <1>3, <1>4, <1>5, <1>6, <1>7, <1>8, <1>9, Zenon

LEMMA HasSameStops ==
    ASSUME NEW t \in Threads, Linked(t), PoolFacts,
           \/ StopMove(t) \/ GiveUpDoneMove(t) \/ PoolStopMove(t) \/ StopAllMove(t)
           \/ ReturnMove(t) \/ InstMove(t)
    PROVE  /\ \A i, k : Has(t, i, k)' <=> Has(t, i, k)
           /\ issued' = issued /\ released' = released /\ gen' = gen
<1>1. CASE StopMove(t) \/ InstMove(t)
  <2>1. UNCHANGED <<mgrVars, poolVars>>
    BY <1>1, Zenon DEF StopMove, InstMove
  <2> QED
    BY <2>1, Zenon DEF mgrVars, apiVars, mgrFrame, poolVars, poolShared, Has, Presents
<1>2. CASE GiveUpDoneMove(t) \/ ReturnMove(t)
  <2>1. UNCHANGED <<issued, released, gen, ppc>>
    BY <1>2, Zenon DEF GiveUpDoneMove, ReturnMove, apiVars, poolVars, poolShared
  <2>2. mpc[t] \in StopCalls \cup {"sStop"} /\ mpc'[t] = "idle"
    BY <1>2, Zenon DEF GiveUpDoneMove, ReturnMove
  <2>3. ~Presents(t) /\ ~Presents(t)' /\ mpc[t] \notin HolderPC /\ mpc'[t] \notin HolderPC
    <3>1. ppc[t] = "idle"
      BY <2>2, Outside, PlacesApart, Zenon
    <3> QED
      BY <2>1, <2>2, <3>1, PlacesApart, RestingPlaces, Zenon DEF Presents
  <2> QED
    BY <2>1, <2>3, Zenon DEF Has
<1>3. CASE PoolStopMove(t)
  <2>1. UNCHANGED <<issued, released, gen, mpc, minst, mtok, pret>>
    BY <1>3, Zenon DEF PoolStopMove, mgrVars, apiVars, mgrFrame, poolShared
  <2>2. ppc[t] \in StopPC /\ ppc'[t] \in {"ret", "slot"} /\ (ppc'[t] = "ret" => ppc[t] = "stopRet")
    BY <1>3, Zenon DEF PoolStopMove
  <2>3. PoolLinked(t)
    BY <2>2, InsidePool, Zenon DEF StopPC
  <2>4. ~Presents(t) /\ mpc[t] \notin HolderPC
    BY <2>2, <2>3, PlacesApart, Zenon DEF StopPC, Presents, PoolLinked
  <2>5. ~Presents(t)'
    BY <2>1, <2>2, <2>3, Zenon DEF Presents, PoolLinked
  <2> QED
    BY <2>1, <2>4, <2>5, Zenon DEF Has
<1>4. CASE StopAllMove(t)
  <2>1. UNCHANGED <<issued, released, gen>>
    BY <1>4, Zenon DEF StopAllMove, apiVars, poolShared
  <2>2. ~Presents(t) /\ ~Presents(t)' /\ mpc[t] \notin HolderPC /\ mpc'[t] \notin HolderPC
    BY <1>4, PlacesApart, Zenon DEF StopAllMove, Presents, PoolCalls
  <2> QED
    BY <2>1, <2>2, Zenon DEF Has
<1> QED
  BY <1>1, <1>2, <1>3, <1>4, Zenon

LEMMA HasSamePool ==
    ASSUME NEW t \in Threads, Linked(t), PoolFacts,
           \/ QuietMove(t) \/ PopMove(t) \/ ReserveMove(t) \/ FactoryErrMove(t)
           \/ RegisterMove(t) \/ PushMove(t) \/ CloseMove(t) \/ SlotStopMove(t)
    PROVE  /\ \A i, k : Has(t, i, k)' <=> Has(t, i, k)
           /\ issued' = issued /\ released' = released /\ gen' = gen
<1>1. UNCHANGED <<issued, released, gen, mpc>>
  BY Zenon DEF QuietMove, PopMove, ReserveMove, FactoryErrMove, RegisterMove, PushMove,
     CloseMove, SlotStopMove, mgrVars, apiVars, mgrFrame
<1>2. ppc[t] \notin {"idle", "ret", "release", "fail"}
  BY Zenon DEF QuietMove, PopMove, ReserveMove, FactoryErrMove, RegisterMove, PushMove,
     CloseMove, SlotStopMove
<1>3. ~Presents(t) /\ mpc[t] \notin HolderPC
  BY <1>2, PlacesApart, Zenon DEF Presents, Linked
<1>4. ~Presents(t)'
  <2>1. CASE QuietMove(t)
    BY <1>1, <2>1, Zenon DEF QuietMove, Presents
  <2>2. CASE PopMove(t) \/ ReserveMove(t) \/ FactoryErrMove(t) \/ RegisterMove(t)
    BY <2>2, Zenon DEF PopMove, ReserveMove, FactoryErrMove, RegisterMove, Presents
  <2>3. CASE PushMove(t) \/ CloseMove(t) \/ SlotStopMove(t)
    BY <2>3, Zenon DEF PushMove, CloseMove, SlotStopMove, Presents
  <2> QED
    BY <2>1, <2>2, <2>3, Zenon
<1> QED
  BY <1>1, <1>3, <1>4, Zenon DEF Has

HolderMove(t) ==
    GrantMove(t) \/ TakeMove(t) \/ GiveUpMove(t) \/ MarkMove(t) \/ CasMove(t)

LEMMA HolderMoves ==
    ASSUME PoolFacts, Link, Link', NEW t \in Threads, Move(t),
           MgrOthers(t), PoolOthers(t)
    PROVE  SameHolders \/ HolderMove(t)
<1> SUFFICES ASSUME ~HolderMove(t) PROVE SameHolders
  BY Zenon
<1>1. Linked(t) /\ Linked(t)'
  BY Zenon DEF Link
<1>2. /\ \A i, k : Has(t, i, k)' <=> Has(t, i, k)
      /\ issued' = issued /\ released' = released /\ gen' = gen
  BY <1>1, HasSame, HasSameStops, HasSamePool, Zenon DEF HolderMove, Move, MgrMove, PoolMove
<1>3. \A u \in Threads : u # t => \A i, k : Has(u, i, k)' <=> Has(u, i, k)
  BY OthersHave, Zenon
<1> QED
  BY <1>2, <1>3, Zenon DEF SameHolders

(* A generation that is advanced.                                          *)
LEMMA Advanced ==
    ASSUME gen \in [Instances -> Nat], NEW j \in Instances, gen' = [gen EXCEPT ![j] = @ + 1]
    PROVE  /\ gen'[j] = gen[j] + 1 /\ (IsBusy(j)' <=> ~IsBusy(j))
           /\ \A i \in Instances : i # j => gen'[i] = gen[i] /\ (IsBusy(i)' <=> IsBusy(i))
           /\ \A i \in Instances : gen[i] <= gen'[i]
<1>1. gen'[j] = gen[j] + 1 /\ gen[j] \in Nat
  OBVIOUS
<1>2. \A i \in Instances : i # j => gen'[i] = gen[i]
  BY Zenon
<1>3. \A i \in Instances : gen[i] <= gen'[i]
  BY <1>1, <1>2
<1> QED
  BY <1>1, <1>2, <1>3 DEF IsBusy

LEMMA BusySame ==
    ASSUME gen' = gen
    PROVE  \A i : IsBusy(i)' <=> IsBusy(i)
  BY Zenon DEF IsBusy

LEMMA WrappedSame ==
    ASSUME issued' = issued, released' = released
    PROVE  Held' = Held /\ \A i : Wrapped(i)' <=> Wrapped(i)
  BY Zenon DEF Held, Wrapped

(* The acquisition of t, and of nobody else.                               *)
Sole(t, i, k) ==
    /\ gen[i] = k /\ IsBusy(i) /\ ~Wrapped(i) /\ Has(t, i, k)
    /\ \A u \in Threads, j \in Instances, n \in Nat :
          Has(u, j, n) => (u = t <=> j = i)

LEMMA OneAcquisition ==
    ASSUME MgrTypes, PoolTypeOK, Link, NEW t \in Threads, NEW i \in Instances, NEW k \in Nat,
           NEW j \in Instances, NEW n \in Nat, Has(t, i, k), Has(t, j, n)
    PROVE  i = j /\ k = n
<1>1. mpc[t] \in HolderPC => ~Presents(t)
  BY Outside, PlacesApart, Zenon DEF Link, Presents
<1> QED
  BY <1>1, Zenon DEF Has

LEMMA SoleHolder ==
    ASSUME MgrTypes, PoolTypeOK, Link, HasOK, NEW t \in Threads,
           NEW i \in Instances, NEW k \in Nat, Has(t, i, k)
    PROVE  Sole(t, i, k)
<1>1. gen[i] = k /\ IsBusy(i) /\ ~Wrapped(i)
  BY Zenon DEF HasOK
<1>2. ASSUME NEW u \in Threads, NEW j \in Instances, NEW n \in Nat, Has(u, j, n)
      PROVE  u = t <=> j = i
  <2>1. CASE u = t
    BY <1>2, <2>1, OneAcquisition, Zenon
  <2>2. CASE j = i
    <3>1. n = gen[i]
      BY <1>2, <2>2, Zenon DEF HasOK
    <3> QED
      BY <1>1, <1>2, <2>2, <3>1, Zenon DEF HasOK
  <2> QED
    BY <2>1, <2>2, Zenon
<1> QED
  BY <1>1, <1>2, Zenon DEF Sole

(* The acquisition of the holder goes to the caller, and comes back.       *)
LEMMA GrantHolders ==
    ASSUME MgrTypes, PoolFacts, Link, Link', Holders, NEW t \in Threads, GrantMove(t),
           MgrOthers(t), PoolOthers(t)
    PROVE  HeldOK' /\ HasOK' /\ BusyHeld'
<1> DEFINE i == minst[t]
           k == mtok[t]
<1>1. mpc[t] \in HolderPC /\ mpc'[t] = "idle" /\ mpc'[t] \notin HolderPC
  BY RestingPlaces, PlacesApart, Zenon DEF GrantMove, HolderPC
<1>2. i \in Instances /\ k \in Nat /\ Has(t, i, k)
  BY <1>1, HolderCurrent, Zenon DEF Holders
<1>3. Sole(t, i, k)
  BY <1>2, SoleHolder, Zenon DEF Holders, PoolFacts
<1>4. issued' = issued \cup {<<i, k>>} /\ released' = released /\ gen' = gen /\ ppc' = ppc
  BY Zenon DEF GrantMove, poolVars, poolShared
<1>5. <<i, k>> \notin released
  <2>1. Coming(t, i) /\ gen[i] = k
    BY <1>3, Zenon DEF GrantMove, Granting, Coming, Sole
  <2>2. ASSUME <<i, k>> \in issued PROVE FALSE
    <3>1. \A u \in Threads : Coming(u, i) => k < gen[i]
      BY <2>2 DEF Holders, NewTokens
    <3> QED
      BY <1>2, <2>1, <3>1
  <2> QED
    BY <2>2, Zenon DEF MgrTypes
<1>6. Held' = Held \cup {<<i, k>>}
  BY <1>4, <1>5, Zenon DEF Held
<1>7. \A j : IsBusy(j)' <=> IsBusy(j)
  BY <1>4, BusySame, Zenon
<1>8. HeldOK'
  <2>1. \A w \in Held : gen[w[1]] = w[2] /\ IsBusy(w[1])
    BY Zenon DEF HeldOK, Holders
  <2>2. gen[i] = k /\ IsBusy(i)
    BY <1>3, Zenon DEF Sole
  <2> QED
    BY <1>4, <1>6, <1>7, <2>1, <2>2 DEF HeldOK
<1>9. \A j : Wrapped(j)' <=> Wrapped(j) \/ j = i
  <2>1. <<i, k>>[1] = i
    OBVIOUS
  <2> QED
    BY <1>6, <2>1, Zenon DEF Wrapped
<1>10. \A u \in Threads, j \in Instances, n \in Nat : Has(u, j, n)' <=> u # t /\ Has(u, j, n)
  <2>1. ppc[t] = "idle"
    BY <1>1, Outside, PlacesApart, Zenon DEF Link
  <2>2. \A j, n : ~Has(t, j, n)'
    BY <1>1, <1>4, <2>1, Zenon DEF Has, Presents
  <2>3. \A u \in Threads : u # t => \A j, n : Has(u, j, n)' <=> Has(u, j, n)
    BY OthersHave, Zenon
  <2> QED
    BY <2>2, <2>3, Zenon
<1>11. HasOK'
  <2> SUFFICES ASSUME NEW u \in Threads, NEW j \in Instances, NEW n \in Nat, Has(u, j, n)'
               PROVE  /\ gen'[j] = n /\ IsBusy(j)' /\ ~Wrapped(j)'
                      /\ \A v \in Threads : Has(v, j, n)' => v = u
    BY Zenon DEF HasOK
  <2>1. u # t /\ Has(u, j, n)
    BY <1>10, Zenon
  <2>2. j # i
    BY <1>3, <2>1, Zenon DEF Sole
  <2>3. gen[j] = n /\ IsBusy(j) /\ ~Wrapped(j) /\ \A v \in Threads : Has(v, j, n) => v = u
    BY <2>1, Zenon DEF HasOK, Holders
  <2> QED
    BY <1>4, <1>7, <1>9, <1>10, <2>2, <2>3, Zenon
<1>12. BusyHeld'
  <2> SUFFICES ASSUME NEW j \in Instances, IsBusy(j)'
               PROVE  Wrapped(j)' \/ \E u \in Threads : Has(u, j, gen[j])'
    BY <1>4, Zenon DEF BusyHeld
  <2>1. gen[j] \in Nat
    BY Zenon DEF PoolFacts, PoolTypeOK
  <2>2. CASE j = i
    BY <1>9, <2>2, Zenon
  <2>3. CASE j # i
    <3>1. Wrapped(j) \/ \E u \in Threads : Has(u, j, gen[j])
      BY <1>7, Zenon DEF BusyHeld, Holders
    <3> QED
      BY <1>2, <1>3, <1>4, <1>9, <1>10, <2>1, <2>3, <3>1, Zenon DEF Sole
  <2> QED
    BY <2>2, <2>3, Zenon
<1> QED
  BY <1>8, <1>11, <1>12, Zenon

LEMMA TakeHolders ==
    ASSUME MgrTypes, PoolFacts, Link, Link', Holders, NEW t \in Threads, TakeMove(t),
           MgrOthers(t), PoolOthers(t)
    PROVE  HeldOK' /\ HasOK' /\ BusyHeld'
<1>1. PICK w \in Held : minst'[t] = w[1] /\ mtok'[t] = w[2] /\ released' = released \cup {w}
  BY Zenon DEF TakeMove
<1> DEFINE i == w[1]
           k == w[2]
<1>2. i \in Instances /\ k \in Nat /\ w = <<i, k>>
  BY <1>1, HeldTypes, Zenon
<1>3. gen[i] = k /\ IsBusy(i)
  BY <1>1, Zenon DEF Holders, HeldOK
<1>4. issued' = issued /\ gen' = gen /\ ppc' = ppc /\ mpc[t] = "idle" /\ mpc'[t] \in HolderPC
  BY Zenon DEF TakeMove, poolVars, poolShared, HolderPC
<1>5. Held' = Held \ {w}
  BY <1>1, <1>4, Zenon DEF Held
<1>6. ASSUME NEW v \in Held, v[1] = i PROVE v = w
  <2>1. v[2] = gen[v[1]]
    BY Zenon DEF Holders, HeldOK
  <2>2. v = <<v[1], v[2]>>
    BY HeldTypes, Zenon
  <2> QED
    BY <1>2, <1>3, <1>6, <2>1, <2>2, Zenon
<1>7. ~Wrapped(i)' /\ \A j : j # i => (Wrapped(j)' <=> Wrapped(j))
  BY <1>5, <1>6, Zenon DEF Wrapped
<1>8. \A j : IsBusy(j)' <=> IsBusy(j)
  BY <1>4, BusySame, Zenon
<1>9. ppc[t] = "idle" /\ mpc[t] \notin HolderPC
  BY <1>4, Outside, RestingPlaces, PlacesApart, Zenon DEF Link
<1>10. \A j, n : (Has(t, j, n)' <=> j = i /\ n = k) /\ ~Has(t, j, n)
  BY <1>1, <1>4, <1>9, Zenon DEF Has, Presents
<1>11. \A u \in Threads : u # t => \A j, n : Has(u, j, n)' <=> Has(u, j, n)
  BY OthersHave, Zenon
<1>12. \A u \in Threads, n \in Nat : ~Has(u, i, n)
  BY <1>1, <1>2, Zenon DEF HasOK, Holders, Wrapped
<1>13. HeldOK'
  BY <1>4, <1>5, <1>8, Zenon DEF HeldOK, Holders
<1>14. HasOK'
  <2> SUFFICES ASSUME NEW u \in Threads, NEW j \in Instances, NEW n \in Nat, Has(u, j, n)'
               PROVE  /\ gen'[j] = n /\ IsBusy(j)' /\ ~Wrapped(j)'
                      /\ \A v \in Threads : Has(v, j, n)' => v = u
    BY Zenon DEF HasOK
  <2>1. CASE u = t
    BY <1>3, <1>4, <1>7, <1>8, <1>10, <1>11, <1>12, <2>1, Zenon
  <2>2. CASE u # t
    <3>1. Has(u, j, n)
      BY <1>11, <2>2, Zenon
    <3>2. j # i
      BY <1>12, <3>1, Zenon
    <3>3. gen[j] = n /\ IsBusy(j) /\ ~Wrapped(j) /\ \A v \in Threads : Has(v, j, n) => v = u
      BY <3>1, Zenon DEF HasOK, Holders
    <3> QED
      BY <1>4, <1>7, <1>8, <1>10, <1>11, <3>2, <3>3, Zenon
  <2> QED
    BY <2>1, <2>2, Zenon
<1>15. BusyHeld'
  <2> SUFFICES ASSUME NEW j \in Instances, IsBusy(j)'
               PROVE  Wrapped(j)' \/ \E u \in Threads : Has(u, j, gen[j])'
    BY <1>4, Zenon DEF BusyHeld
  <2>1. gen[j] \in Nat
    BY Zenon DEF PoolFacts, PoolTypeOK
  <2>2. CASE j = i
    <3>1. Has(t, j, gen[j])'
      BY <1>3, <1>4, <1>10, <2>2, Zenon
    <3> QED
      BY <3>1, Zenon
  <2>3. CASE j # i
    <3>1. Wrapped(j) \/ \E u \in Threads : Has(u, j, gen[j])
      BY <1>8, Zenon DEF BusyHeld, Holders
    <3>2. ASSUME NEW u \in Threads, Has(u, j, gen[j])
          PROVE  Has(u, j, gen[j])'
      BY <1>4, <1>10, <1>11, <2>1, <3>2, Zenon
    <3> QED
      BY <1>7, <2>3, <3>1, <3>2, Zenon
  <2> QED
    BY <2>2, <2>3, Zenon
<1> QED
  BY <1>13, <1>14, <1>15, Zenon

(* An acquisition ends, and one begins.                                    *)
LEMMA EndHolders ==
    ASSUME MgrTypes, PoolFacts, Link, Holders, NEW t \in Threads,
           NEW i \in Instances, NEW k \in Nat, Has(t, i, k),
           gen' = [gen EXCEPT ![i] = @ + 1], issued' = issued, released' = released,
           \A j, n : ~Has(t, j, n)', MgrOthers(t), PoolOthers(t)
    PROVE  HeldOK' /\ HasOK' /\ BusyHeld'
<1>1. Sole(t, i, k)
  BY SoleHolder, Zenon DEF Holders, PoolFacts
<1>2. gen \in [Instances -> Nat]
  BY Zenon DEF PoolFacts, PoolTypeOK
<1>3. ~IsBusy(i)' /\ \A j \in Instances : j # i => gen'[j] = gen[j] /\ (IsBusy(j)' <=> IsBusy(j))
  BY <1>1, <1>2, Advanced, Zenon DEF Sole
<1>4. Held' = Held /\ \A j : Wrapped(j)' <=> Wrapped(j)
  BY WrappedSame, Zenon
<1>5. \A u \in Threads : u # t => \A j, n : Has(u, j, n)' <=> Has(u, j, n)
  BY OthersHave, Zenon
<1>6. HeldOK'
  <2> SUFFICES ASSUME NEW w \in Held PROVE gen'[w[1]] = w[2] /\ IsBusy(w[1])'
    BY <1>4, Zenon DEF HeldOK
  <2>1. w[1] \in Instances /\ gen[w[1]] = w[2] /\ IsBusy(w[1])
    BY HeldTypes, Zenon DEF HeldOK, Holders
  <2>2. w[1] # i
    BY <1>1, Zenon DEF Sole, Wrapped
  <2> QED
    BY <1>3, <2>1, <2>2, Zenon
<1>7. HasOK'
  <2> SUFFICES ASSUME NEW u \in Threads, NEW j \in Instances, NEW n \in Nat, Has(u, j, n)'
               PROVE  /\ gen'[j] = n /\ IsBusy(j)' /\ ~Wrapped(j)'
                      /\ \A v \in Threads : Has(v, j, n)' => v = u
    BY Zenon DEF HasOK
  <2>1. u # t /\ Has(u, j, n)
    BY <1>5, Zenon
  <2>2. j # i
    BY <1>1, <2>1, Zenon DEF Sole
  <2>3. gen[j] = n /\ IsBusy(j) /\ ~Wrapped(j) /\ \A v \in Threads : Has(v, j, n) => v = u
    BY <2>1, Zenon DEF HasOK, Holders
  <2> QED
    BY <1>3, <1>4, <1>5, <2>2, <2>3, Zenon
<1>8. BusyHeld'
  <2> SUFFICES ASSUME NEW j \in Instances, IsBusy(j)'
               PROVE  Wrapped(j)' \/ \E u \in Threads : Has(u, j, gen[j])'
    BY Zenon DEF BusyHeld
  <2>1. j # i /\ gen'[j] = gen[j] /\ IsBusy(j) /\ gen[j] \in Nat
    BY <1>2, <1>3, Zenon
  <2>2. Wrapped(j) \/ \E u \in Threads : Has(u, j, gen[j])
    BY <2>1, Zenon DEF BusyHeld, Holders
  <2>3. ASSUME NEW u \in Threads, Has(u, j, gen[j])
        PROVE  Has(u, j, gen[j])'
    <3>1. u # t
      BY <1>1, <2>1, <2>3, Zenon DEF Sole
    <3> QED
      BY <1>5, <2>1, <2>3, <3>1, Zenon
  <2> QED
    BY <1>4, <2>2, <2>3, Zenon
<1> QED
  BY <1>6, <1>7, <1>8, Zenon

LEMMA BeginHolders ==
    ASSUME MgrTypes, PoolFacts, Link, Holders, NEW t \in Threads,
           NEW i \in Instances, ~IsBusy(i), gen' = [gen EXCEPT ![i] = @ + 1],
           issued' = issued, released' = released, \A j, n : ~Has(t, j, n),
           \A j, n : Has(t, j, n)' <=> j = i /\ n = gen[i] + 1, MgrOthers(t), PoolOthers(t)
    PROVE  HeldOK' /\ HasOK' /\ BusyHeld'
<1>1. gen \in [Instances -> Nat]
  BY Zenon DEF PoolFacts, PoolTypeOK
<1>2. /\ IsBusy(i)' /\ gen'[i] = gen[i] + 1
      /\ \A j \in Instances : j # i => gen'[j] = gen[j] /\ (IsBusy(j)' <=> IsBusy(j))
  BY <1>1, Advanced, Zenon
<1>3. ~Wrapped(i) /\ \A u \in Threads, n \in Nat : ~Has(u, i, n)
  <2>1. ~Wrapped(i)
    BY Zenon DEF Wrapped, Holders, HeldOK
  <2> QED
    BY <2>1, Zenon DEF Holders, HasOK
<1>4. Held' = Held /\ \A j : Wrapped(j)' <=> Wrapped(j)
  BY WrappedSame, Zenon
<1>5. \A u \in Threads : u # t => \A j, n : Has(u, j, n)' <=> Has(u, j, n)
  BY OthersHave, Zenon
<1>6. HeldOK'
  <2> SUFFICES ASSUME NEW w \in Held PROVE gen'[w[1]] = w[2] /\ IsBusy(w[1])'
    BY <1>4, Zenon DEF HeldOK
  <2>1. w[1] \in Instances /\ gen[w[1]] = w[2] /\ IsBusy(w[1])
    BY HeldTypes, Zenon DEF HeldOK, Holders
  <2>2. w[1] # i
    BY <1>3, Zenon DEF Wrapped
  <2> QED
    BY <1>2, <2>1, <2>2, Zenon
<1>7. HasOK'
  <2> SUFFICES ASSUME NEW u \in Threads, NEW j \in Instances, NEW n \in Nat, Has(u, j, n)'
               PROVE  /\ gen'[j] = n /\ IsBusy(j)' /\ ~Wrapped(j)'
                      /\ \A v \in Threads : Has(v, j, n)' => v = u
    BY Zenon DEF HasOK
  <2>1. CASE u = t
    <3>1. j = i /\ n = gen[i] + 1
      BY <2>1, Zenon
    <3> QED
      BY <1>2, <1>3, <1>4, <1>5, <2>1, <3>1, Zenon
  <2>2. CASE u # t
    <3>1. Has(u, j, n)
      BY <1>5, <2>2, Zenon
    <3>2. j # i
      BY <1>3, <3>1, Zenon
    <3>3. gen[j] = n /\ IsBusy(j) /\ ~Wrapped(j) /\ \A v \in Threads : Has(v, j, n) => v = u
      BY <3>1, Zenon DEF HasOK, Holders
    <3> QED
      BY <1>2, <1>4, <1>5, <3>2, <3>3, Zenon
  <2> QED
    BY <2>1, <2>2, Zenon
<1>8. BusyHeld'
  <2> SUFFICES ASSUME NEW j \in Instances, IsBusy(j)'
               PROVE  Wrapped(j)' \/ \E u \in Threads : Has(u, j, gen[j])'
    BY Zenon DEF BusyHeld
  <2>1. CASE j = i
    <3>1. Has(t, j, gen[j])'
      BY <1>2, <2>1, Zenon
    <3> QED
      BY <3>1, Zenon
  <2>2. CASE j # i
    <3>1. gen'[j] = gen[j] /\ IsBusy(j) /\ gen[j] \in Nat
      BY <1>1, <1>2, <2>2, Zenon
    <3>2. Wrapped(j) \/ \E u \in Threads : Has(u, j, gen[j])
      BY <3>1, Zenon DEF BusyHeld, Holders
    <3>3. ASSUME NEW u \in Threads, Has(u, j, gen[j])
          PROVE  Has(u, j, gen[j])'
      BY <1>5, <3>1, <3>3, Zenon
    <3> QED
      BY <1>4, <3>2, <3>3, Zenon
  <2> QED
    BY <2>1, <2>2, Zenon
<1> QED
  BY <1>6, <1>7, <1>8, Zenon

(* The five steps, in these terms.                                         *)
LEMMA EndMoves ==
    ASSUME MgrTypes, PoolFacts, Link, Holders, NEW t \in Threads, GiveUpMove(t) \/ CasMove(t)
    PROVE  \E i \in Instances, k \in Nat :
              /\ Has(t, i, k) /\ gen' = [gen EXCEPT ![i] = @ + 1]
              /\ issued' = issued /\ released' = released /\ \A j, n : ~Has(t, j, n)'
              /\ Ending(t, i)' \/ (ppc'[t] = "relLock" /\ pinst'[t] = i)
<1>1. Linked(t)
  BY Zenon DEF Link
<1>2. CASE GiveUpMove(t)
  <2>1. mpc[t] \in HolderPC /\ mpc'[t] \in StopCalls /\ minst'[t] = minst[t]
        /\ gen' = [gen EXCEPT ![minst[t]] = @ + 1] /\ ppc' = ppc
    BY <1>2, Zenon DEF GiveUpMove, HolderPC
  <2>2. ppc[t] = "idle"
    BY <1>1, <2>1, Outside, PlacesApart, Zenon
  <2>3. Has(t, minst[t], mtok[t]) /\ minst[t] \in Instances /\ mtok[t] \in Nat
    BY <2>1, HolderCurrent, Zenon DEF Holders
  <2>4. \A j, n : ~Has(t, j, n)'
    BY <2>1, <2>2, PlacesApart, Zenon DEF Has, Presents
  <2>5. issued' = issued /\ released' = released
    BY <1>2, Zenon DEF GiveUpMove, apiVars
  <2>6. Ending(t, minst[t])'
    BY <2>1, Zenon DEF Ending
  <2> QED
    BY <2>1, <2>3, <2>4, <2>5, <2>6, Zenon
<1>3. CASE CasMove(t)
  <2>1. /\ ppc[t] \in {"release", "fail"} /\ ppc'[t] \in {"relLock", "failStop"}
        /\ gen' = [gen EXCEPT ![pinst[t]] = @ + 1] /\ pinst' = pinst
    BY <1>3, Zenon DEF CasMove
  <2>2. mpc' = mpc /\ issued' = issued /\ released' = released
    BY <1>3, Zenon DEF CasMove, mgrVars, mgrFrame, apiVars
  <2>3. Has(t, pinst[t], ptok[t]) /\ pinst[t] \in Instances /\ ptok[t] \in Nat
    BY <2>1, PoolFrameTypes, Zenon DEF Has, Presents, PoolFacts, OnInstance
  <2>4. mpc[t] \notin HolderPC
    BY <1>1, <2>1, PlacesApart, Zenon DEF Linked
  <2>5. \A j, n : ~Has(t, j, n)'
    BY <2>1, <2>2, <2>4, Zenon DEF Has, Presents
  <2>6. Ending(t, pinst[t])' \/ (ppc'[t] = "relLock" /\ pinst'[t] = pinst[t])
    BY <2>1, Zenon DEF Ending, StopPC
  <2> QED
    BY <2>1, <2>2, <2>3, <2>5, <2>6, Zenon
<1> QED
  BY <1>2, <1>3, Zenon

LEMMA BeginMoves ==
    ASSUME PoolFacts, Link, NEW t \in Threads, MarkMove(t)
    PROVE  /\ pinst[t] \in Instances /\ ~IsBusy(pinst[t])
           /\ gen' = [gen EXCEPT ![pinst[t]] = @ + 1] /\ issued' = issued /\ released' = released
           /\ \A j, n : ~Has(t, j, n)
           /\ \A j, n : Has(t, j, n)' <=> j = pinst[t] /\ n = gen[pinst[t]] + 1
<1>1. ppc[t] = "mark" /\ ppc'[t] = "ret" /\ pret'[t] = "ok" /\ pinst' = pinst
      /\ ptok'[t] = gen[pinst[t]] + 1 /\ gen' = [gen EXCEPT ![pinst[t]] = @ + 1]
  BY Zenon DEF MarkMove
<1>2. mpc' = mpc /\ issued' = issued /\ released' = released
  BY Zenon DEF MarkMove, mgrVars, mgrFrame, apiVars
<1>3. mpc[t] = "aWait" /\ mpc[t] \notin HolderPC
  BY <1>1, Zenon DEF Link, Linked, HolderPC
<1>4. pinst[t] \in Instances
  BY <1>1, Zenon DEF PoolFacts, OnInstance
<1>5. ~IsBusy(pinst[t])
  BY <1>1, <1>4, Zenon DEF PoolFacts, Exclusive, InHand, LivePC
<1>6. \A j, n : ~Has(t, j, n)
  BY <1>1, <1>3, Zenon DEF Has, Presents
<1>7. \A j, n : Has(t, j, n)' <=> j = pinst[t] /\ n = gen[pinst[t]] + 1
  BY <1>1, <1>2, <1>3, Zenon DEF Has, Presents
<1> QED
  BY <1>1, <1>2, <1>4, <1>5, <1>6, <1>7, Zenon

LEMMA SameHolding ==
    ASSUME PoolFacts, Holders, SameHolders
    PROVE  HeldOK' /\ HasOK' /\ BusyHeld'
<1>1. gen' = gen /\ issued' = issued /\ released' = released
  BY Zenon DEF SameHolders
<1>2. \A u \in Threads, i \in Instances, k \in Nat : Has(u, i, k)' <=> Has(u, i, k)
  BY Zenon DEF SameHolders
<1>3. \A i : IsBusy(i)' <=> IsBusy(i)
  BY <1>1, BusySame, Zenon
<1>4. Held' = Held /\ \A i : Wrapped(i)' <=> Wrapped(i)
  BY <1>1, WrappedSame, Zenon
<1>5. HeldOK'
  BY <1>1, <1>3, <1>4, Zenon DEF Holders, HeldOK
<1>6. HasOK'
  <2> SUFFICES ASSUME NEW u \in Threads, NEW j \in Instances, NEW n \in Nat, Has(u, j, n)'
               PROVE  /\ gen'[j] = n /\ IsBusy(j)' /\ ~Wrapped(j)'
                      /\ \A v \in Threads : Has(v, j, n)' => v = u
    BY Zenon DEF HasOK
  <2>1. gen[j] = n /\ IsBusy(j) /\ ~Wrapped(j) /\ \A v \in Threads : Has(v, j, n) => v = u
    BY <1>2, Zenon DEF HasOK, Holders
  <2> QED
    BY <1>1, <1>2, <1>3, <1>4, <2>1, Zenon
<1>7. BusyHeld'
  <2> SUFFICES ASSUME NEW j \in Instances, IsBusy(j)'
               PROVE  Wrapped(j)' \/ \E u \in Threads : Has(u, j, gen[j])'
    BY Zenon DEF BusyHeld
  <2>1. gen[j] \in Nat
    BY Zenon DEF PoolFacts, PoolTypeOK
  <2>2. Wrapped(j) \/ \E u \in Threads : Has(u, j, gen[j])
    BY <1>3, Zenon DEF BusyHeld, Holders
  <2>3. ASSUME NEW u \in Threads, Has(u, j, gen[j])
        PROVE  Has(u, j, gen[j])'
    BY <1>1, <1>2, <2>1, <2>3, Zenon
  <2> QED
    BY <1>4, <2>2, <2>3, Zenon
<1> QED
  BY <1>5, <1>6, <1>7, Zenon

LEMMA HoldersStep ==
    ASSUME MgrTypes, PoolFacts, Link, Link', Holders, NEW t \in Threads, Move(t),
           MgrOthers(t), PoolOthers(t)
    PROVE  HeldOK' /\ HasOK' /\ BusyHeld'
<1>1. CASE SameHolders
  BY <1>1, SameHolding, Zenon
<1>2. CASE GrantMove(t)
  BY <1>2, GrantHolders, Zenon
<1>3. CASE TakeMove(t)
  BY <1>3, TakeHolders, Zenon
<1>4. CASE GiveUpMove(t) \/ CasMove(t)
  <2>1. PICK i \in Instances, k \in Nat :
              /\ Has(t, i, k) /\ gen' = [gen EXCEPT ![i] = @ + 1]
              /\ issued' = issued /\ released' = released /\ \A j, n : ~Has(t, j, n)'
    BY <1>4, EndMoves, Zenon
  <2> QED
    BY <2>1, EndHolders, Zenon
<1>5. CASE MarkMove(t)
  BY <1>5, BeginMoves, BeginHolders, Zenon
<1> QED
  BY <1>1, <1>2, <1>3, <1>4, <1>5, HolderMoves, Zenon DEF HolderMove

(* What will be handed out next.                                           *)
LEMMA ComingAtRest ==
    ASSUME NEW t, mpc'[t] = mpc[t], minst'[t] = minst[t],
           \A i, k : Has(t, i, k)' => Has(t, i, k)
    PROVE  \A i : Coming(t, i)' => Coming(t, i)
<1> SUFFICES ASSUME NEW i, mpc[t] = "aWait", Presents(t)', pinst'[t] = i
             PROVE  Presents(t) /\ pinst[t] = i
  BY Zenon DEF Coming
<1>1. \E k : Has(t, i, k)'
  BY Zenon DEF Has
<1>2. \E k : Has(t, i, k)
  BY <1>1, Zenon
<1>3. mpc[t] \notin HolderPC
  BY Zenon DEF HolderPC
<1> QED
  BY <1>2, <1>3, Zenon DEF Has

LEMMA ComingMoves ==
    ASSUME MgrTypes, PoolFacts, Link, Link', Holders, NEW t \in Threads, Move(t)
    PROVE  (\A i : Coming(t, i)' => Coming(t, i)) \/ MarkMove(t)
<1> SUFFICES ASSUME ~MarkMove(t) PROVE \A i : Coming(t, i)' => Coming(t, i)
  BY Zenon
<1>1. Linked(t) /\ Linked(t)'
  BY Zenon DEF Link
<1>2. CASE LocalMove(t)
  <2>1. mpc'[t] # "aWait"
    BY <1>2, PlacesApart, Zenon DEF LocalMove, PoolCalls
  <2>2. mpc'[t] \in Granting => mpc[t] \in Granting /\ minst'[t] = minst[t]
    <3>1. Granting \subseteq HolderPC
      BY Zenon DEF Granting, HolderPC
    <3> QED
      BY <1>2, <3>1, PlacesApart, Zenon DEF LocalMove
  <2> QED
    BY <2>1, <2>2, Zenon DEF Coming
<1>3. CASE GrantMove(t) \/ TakeMove(t) \/ WipeMove(t) \/ PresentMove(t)
  BY <1>3, Zenon DEF GrantMove, TakeMove, WipeMove, PresentMove, Coming, Granting
<1>4. CASE GiveUpMove(t) \/ GiveUpDoneMove(t) \/ StopAllMove(t) \/ ReturnMove(t)
  BY <1>4, Zenon DEF GiveUpMove, GiveUpDoneMove, StopAllMove, ReturnMove, StopCalls, Coming, Granting
<1>5. CASE LeaveMove(t)
  <2>1. mpc'[t] \notin Granting /\ mpc'[t] # "aWait"
    BY <1>5, Zenon DEF LeaveMove, Resting, InitPC, Granting
  <2> QED
    BY <2>1, Zenon DEF Coming
<1>6. CASE EnterMove(t)
  BY <1>6, Zenon DEF EnterMove, Coming, Granting, Presents
<1>7. CASE ReceiveMove(t)
  BY <1>7, Zenon DEF ReceiveMove, Coming
<1>8. CASE StartMove(t)
  BY <1>8, Zenon DEF StartMove, Coming, Granting
<1>9. CASE WriteMove(t) \/ StopMove(t) \/ PoolStopMove(t) \/ InstMove(t) \/ PoolMove(t)
  <2>1. mpc' = mpc /\ minst' = minst
    BY <1>9, Zenon DEF WriteMove, StopMove, PoolStopMove, InstMove, PoolMove, QuietMove, PopMove,
       ReserveMove, FactoryErrMove, RegisterMove, MarkMove, CasMove, PushMove, CloseMove,
       SlotStopMove, mgrVars, mgrFrame
  <2>2. \A i, k : Has(t, i, k)' => Has(t, i, k)
    <3>1. CASE CasMove(t)
      BY <3>1, EndMoves, Zenon
    <3>2. CASE ~CasMove(t)
      BY <1>1, <1>9, <3>2, HasSame, HasSameStops, HasSamePool, Zenon DEF PoolMove
    <3> QED
      BY <3>1, <3>2, Zenon
  <2> QED
    BY <2>1, <2>2, ComingAtRest, Zenon
<1> QED
  BY <1>2, <1>3, <1>4, <1>5, <1>6, <1>7, <1>8, <1>9, Zenon DEF Move, MgrMove

LEMMA OthersComing ==
    ASSUME NEW t, MgrOthers(t), PoolOthers(t)
    PROVE  \A u \in Threads : u # t => \A i : Coming(u, i)' <=> Coming(u, i)
  BY Zenon DEF MgrOthers, PoolOthers, Coming, Presents

(* Who has what is coming has it.                                          *)
LEMMA ComingHas ==
    ASSUME MgrTypes, PoolTypeOK, NEW t \in Threads, NEW i, Coming(t, i)
    PROVE  \E k \in Nat : Has(t, i, k)
<1>1. Granting \subseteq HolderPC
  BY Zenon DEF Granting, HolderPC
<1>2. mtok[t] \in Nat /\ ptok[t] \in Nat
  BY Zenon DEF MgrTypes, PoolTypeOK
<1> QED
  BY <1>1, <1>2, Zenon DEF Coming, Has

LEMMA NewTokensStep ==
    ASSUME MgrTypes, PoolFacts, Link, Link', Holders, NEW t \in Threads, Move(t),
           MgrOthers(t), PoolOthers(t)
    PROVE  NewTokens'
<1>1. gen \in [Instances -> Nat] /\ \A w \in issued : w[1] \in Instances /\ w[2] \in Nat
  BY Zenon DEF PoolFacts, PoolTypeOK, MgrTypes
<1>2. \A w \in issued : w[2] <= gen[w[1]] /\ \A u \in Threads : Coming(u, w[1]) => w[2] < gen[w[1]]
  BY Zenon DEF Holders, NewTokens
<1>3. \A u \in Threads : u # t => \A i : Coming(u, i)' <=> Coming(u, i)
  BY OthersComing, Zenon
<1>4. \/ \A u \in Threads, i \in Instances : Coming(u, i)' => Coming(u, i)
      \/ MarkMove(t)
  BY <1>3, ComingMoves, Zenon
<1>5. CASE MarkMove(t)
  <2> DEFINE i == pinst[t]
  <2>1. i \in Instances /\ gen' = [gen EXCEPT ![i] = @ + 1] /\ issued' = issued
    BY <1>5, BeginMoves, Zenon
  <2>2. \A j \in Instances : gen[j] <= gen'[j]
    BY <1>1, <2>1, Advanced, Zenon
  <2>3. gen'[i] = gen[i] + 1
    BY <1>1, <2>1, Advanced, Zenon
  <2>4. \A u \in Threads, j \in Instances : Coming(u, j)' => Coming(u, j) \/ j = i
    <3>1. \A j : Coming(t, j)' => j = i
      <4>1. mpc[t] = "aWait" /\ mpc' = mpc /\ pinst' = pinst
        BY <1>5, Zenon DEF MarkMove, mgrVars, mgrFrame, Link, Linked
      <4> QED
        BY <4>1, Zenon DEF Coming, Granting
    <3> QED
      BY <1>3, <3>1, Zenon
  <2> SUFFICES ASSUME NEW w \in issued
               PROVE  w[2] <= gen'[w[1]] /\ \A u \in Threads : Coming(u, w[1])' => w[2] < gen'[w[1]]
    BY <2>1, Zenon DEF NewTokens
  <2>5. w[1] \in Instances /\ w[2] \in Nat /\ gen[w[1]] \in Nat /\ gen'[w[1]] \in Nat
    BY <1>1, <2>1
  <2>6. w[2] <= gen'[w[1]]
    BY <1>2, <2>2, <2>5
  <2>7. ASSUME NEW u \in Threads, Coming(u, w[1])' PROVE w[2] < gen'[w[1]]
    <3>1. Coming(u, w[1]) \/ w[1] = i
      BY <2>4, <2>5, <2>7, Zenon
    <3> HIDE DEF i
    <3> QED
      BY <1>2, <2>2, <2>3, <2>5, <3>1
  <2> QED
    BY <2>6, <2>7, Zenon
<1>6. CASE ~MarkMove(t)
  <2>1. \A u \in Threads, i \in Instances : Coming(u, i)' => Coming(u, i)
    BY <1>4, <1>6, Zenon
  <2>2. \A i \in Instances : gen'[i] \in Nat /\ gen[i] <= gen'[i]
    <3>1. CASE gen' = gen
      BY <1>1, <3>1
    <3>2. ASSUME NEW i \in Instances, gen' = [gen EXCEPT ![i] = @ + 1]
          PROVE  \A j \in Instances : gen'[j] \in Nat /\ gen[j] <= gen'[j]
      BY <1>1, <3>2
    <3>3. CASE GrantMove(t) \/ TakeMove(t)
      <4>1. gen' = gen
        BY <3>3, Zenon DEF GrantMove, TakeMove, poolVars, poolShared
      <4> QED
        BY <3>1, <4>1, Zenon
    <3> QED
      BY <1>6, <3>1, <3>2, <3>3, HolderMoves, EndMoves, Zenon DEF HolderMove, SameHolders
  <2>3. CASE issued' = issued
    <3> SUFFICES ASSUME NEW w \in issued
                 PROVE  w[2] <= gen'[w[1]] /\ \A u \in Threads : Coming(u, w[1])' => w[2] < gen'[w[1]]
      BY <2>3, Zenon DEF NewTokens
    <3>1. w[1] \in Instances /\ w[2] \in Nat /\ gen[w[1]] \in Nat
      BY <1>1
    <3>2. w[2] <= gen'[w[1]]
      BY <1>2, <2>2, <3>1
    <3>3. ASSUME NEW u \in Threads, Coming(u, w[1])' PROVE w[2] < gen'[w[1]]
      <4>1. Coming(u, w[1])
        BY <2>1, <3>1, <3>3, Zenon
      <4> QED
        BY <1>2, <2>2, <3>1, <4>1
    <3> QED
      BY <3>2, <3>3, Zenon
  <2>4. CASE GrantMove(t)
    <3>1. mpc[t] \in HolderPC /\ mpc'[t] = "idle"
      BY <2>4, Zenon DEF GrantMove, HolderPC
    <3>2. PICK i \in Instances, k \in Nat :
              i = minst[t] /\ k = mtok[t] /\ gen[i] = k /\ Has(t, i, k)
      BY <3>1, HolderCurrent, Zenon DEF Holders
    <3>3. Sole(t, i, k)
      BY <3>2, SoleHolder, Zenon DEF Holders, PoolFacts
    <3>4. \A u \in Threads : ~Coming(u, i)'
      <4>1. ~Coming(t, i)'
        BY <3>1, Zenon DEF Coming, Granting
      <4>2. ASSUME NEW u \in Threads, Coming(u, i)' PROVE u = t
        <5>1. Coming(u, i)
          BY <2>1, <3>2, <4>2, Zenon
        <5>2. PICK n \in Nat : Has(u, i, n)
          <6>1. PoolTypeOK
            BY Zenon DEF PoolFacts
          <6> QED
            BY <5>1, <6>1, ComingHas, Zenon
        <5> QED
          BY <3>2, <3>3, <5>2, Zenon DEF Sole
      <4> QED
        BY <4>1, <4>2, Zenon
    <3>5. issued' = issued \cup {<<i, k>>} /\ gen' = gen
      BY <2>4, <3>2, Zenon DEF GrantMove, poolVars, poolShared
    <3>6. \A w \in issued : \A u \in Threads : Coming(u, w[1])' => w[2] < gen[w[1]]
      BY <1>1, <1>2, <2>1, Zenon
    <3>7. <<i, k>>[1] = i /\ <<i, k>>[2] = k
      OBVIOUS
    <3>8. k <= gen[i]
      BY <3>2
    <3>9. \A w \in issued' : w[2] <= gen[w[1]]
      BY <1>2, <3>5, <3>7, <3>8, Zenon
    <3>10. \A w \in issued' : \A u \in Threads : Coming(u, w[1])' => w[2] < gen[w[1]]
      BY <3>4, <3>5, <3>6, <3>7, Zenon
    <3> QED
      BY <3>5, <3>9, <3>10, Zenon DEF NewTokens
  <2> QED
    BY <1>6, <2>3, <2>4, HolderMoves, EndMoves, Zenon DEF HolderMove, SameHolders, TakeMove
<1> QED
  BY <1>5, <1>6, Zenon

(* Instances become busy in markAcquired, and stop being busy when their   *)
(* holder gives them back or up.                                           *)
LEMMA BusyKinds ==
    ASSUME MgrTypes, PoolFacts, Link, Link', Holders, NEW t \in Threads, Move(t),
           MgrOthers(t), PoolOthers(t), NEW i \in Instances
    PROVE  /\ IsBusy(i)' => IsBusy(i) \/ (ppc[t] = "mark" /\ pinst[t] = i)
           /\ IsBusy(i) => \/ IsBusy(i)'
                           \/ Ending(t, i)'
                           \/ ppc'[t] = "relLock" /\ pinst'[t] = i
           /\ MarkMove(t) => IsBusy(pinst[t])'
<1>1. gen \in [Instances -> Nat]
  BY Zenon DEF PoolFacts, PoolTypeOK
<1>2. CASE gen' = gen /\ ~MarkMove(t)
  BY <1>2, BusySame, Zenon
<1>3. CASE GiveUpMove(t) \/ CasMove(t)
  <2>1. PICK j \in Instances, k \in Nat :
              /\ Has(t, j, k) /\ gen' = [gen EXCEPT ![j] = @ + 1]
              /\ Ending(t, j)' \/ (ppc'[t] = "relLock" /\ pinst'[t] = j)
    BY <1>3, EndMoves, Zenon
  <2>2. /\ IsBusy(j)' <=> ~IsBusy(j)
        /\ i # j => (IsBusy(i)' <=> IsBusy(i))
    BY <1>1, <2>1, Advanced, Zenon
  <2>3. IsBusy(j)
    BY <2>1, Zenon DEF Holders, HasOK
  <2>4. ~MarkMove(t)
    <3>1. ASSUME MarkMove(t), GiveUpMove(t) PROVE FALSE
      <4>1. mpc[t] \in {"aGiveUp", "rGiveUp"} /\ ppc[t] = "mark"
        BY <3>1, Zenon DEF GiveUpMove, MarkMove
      <4> QED
        BY <4>1, Zenon DEF Link, Linked
    <3> QED
      BY <1>3, <3>1, Zenon DEF MarkMove, CasMove
  <2> QED
    BY <2>1, <2>2, <2>3, <2>4, Zenon
<1>4. CASE MarkMove(t)
  <2>1. ppc[t] = "mark" /\ pinst[t] \in Instances /\ ~IsBusy(pinst[t])
        /\ gen' = [gen EXCEPT ![pinst[t]] = @ + 1] /\ pinst' = pinst
    BY <1>4, BeginMoves, Zenon DEF MarkMove
  <2>2. PICK j \in Instances : j = pinst[t]
    BY <2>1, Zenon
  <2>3. IsBusy(j)' /\ (i # j => (IsBusy(i)' <=> IsBusy(i)))
    BY <1>1, <2>1, <2>2, Advanced, Zenon
  <2>4. IsBusy(pinst[t])'
    BY <2>1, <2>2, <2>3, Zenon DEF IsBusy
  <2> QED
    BY <2>1, <2>2, <2>3, <2>4, Zenon
<1>5. CASE GrantMove(t) \/ TakeMove(t)
  <2>1. gen' = gen /\ ppc' = ppc
    BY <1>5, Zenon DEF GrantMove, TakeMove, poolVars, poolShared
  <2>2. ~MarkMove(t)
    BY <2>1, Zenon DEF MarkMove
  <2> QED
    BY <1>2, <2>1, <2>2, Zenon
<1> QED
  BY <1>2, <1>3, <1>4, <1>5, HolderMoves, Zenon DEF HolderMove, SameHolders

(* What has left circulation stays out.                                    *)
LEMMA GoneStays ==
    ASSUME MgrTypes, PoolFacts, Link, Link', Holders, NEW t \in Threads, Move(t),
           MgrOthers(t), PoolOthers(t), NEW i \in Instances, Gone(i)
    PROVE  Gone(i)'
<1>1. ~IsBusy(i)'
  BY BusyKinds, Zenon DEF Gone
<1>2. ~OnStack(i)'
  BY StackKinds, Zenon DEF Gone
<1>3. (i < nextIdx)' /\ i # nextIdx
  <2>1. i < nextIdx /\ i \in Nat /\ nextIdx \in Nat /\ nextIdx' \in Nat /\ nextIdx <= nextIdx'
    <3>1. i \in Nat
      BY IndexNat, Zenon
    <3>2. i < nextIdx
      BY Zenon DEF Gone
    <3>3. nextIdx \in Nat /\ nextIdx' \in Nat /\ nextIdx <= nextIdx'
      BY PoolGrows, Zenon DEF PoolFacts
    <3> QED
      BY <3>1, <3>2, <3>3, Zenon
  <2> QED
    BY <2>1, SMT
<1>4. ASSUME NEW u \in Threads, ppc'[u] \in {"factory", "mark", "relLock"}, pinst'[u] = i
      PROVE  FALSE
  <2>1. CASE u = t
    BY <1>3, <1>4, <2>1, HandKinds, Zenon DEF Gone
  <2>2. CASE u # t
    BY <1>4, <2>2, Zenon DEF Gone, PoolOthers
  <2> QED
    BY <2>1, <2>2, Zenon
<1> QED
  BY <1>1, <1>2, <1>3, <1>4, Zenon DEF Gone

LEMMA EndingGone ==
    ASSUME MgrTypes, PoolFacts, Link, Link', Holders, NEW t \in Threads, Move(t),
           MgrOthers(t), PoolOthers(t), NEW i \in Instances, Ending(t, i)', ~Ending(t, i)
    PROVE  Gone(i)'
<1> USE DEF PoolFacts
<1>1. SUFFICES /\ ~IsBusy(i)' /\ ~OnStack(i)' /\ i < nextIdx
               /\ ppc'[t] \notin {"factory", "mark", "relLock"}
               /\ \A u \in Threads : u # t => ~InHand(u, i)
  <2>1. (i < nextIdx)'
    <3>1. i \in Nat
      BY IndexNat, Zenon
    <3>2. nextIdx \in Nat /\ nextIdx' \in Nat /\ nextIdx <= nextIdx'
      BY PoolGrows, Zenon
    <3> QED
      BY <1>1, <3>1, <3>2, SMT
  <2> QED
    BY <1>1, <2>1, Zenon DEF Gone, PoolOthers, InHand, LivePC
<1>2. CASE GiveUpMove(t) \/ CasMove(t)
  <2>1. PICK j \in Instances, k \in Nat : Has(t, j, k) /\ gen' = [gen EXCEPT ![j] = @ + 1]
    BY <1>2, EndMoves, Zenon
  <2>2. i = j
    <3>1. CASE GiveUpMove(t)
      <4>1. minst[t] = i /\ mpc[t] \in HolderPC
        BY <3>1, EndingKinds, HolderPlaces, Zenon DEF GiveUpMove, CasMove, PushMove, SlotStopMove, HolderPC
      <4> QED
        BY <2>1, <4>1, Outside, PlacesApart, Zenon DEF Has, Presents, Link, Linked
    <3>2. CASE CasMove(t)
      <4>1. pinst[t] = i /\ ppc[t] \in {"release", "fail"}
        BY <3>2, EndingKinds, Zenon DEF GiveUpMove, CasMove, PushMove, SlotStopMove
      <4> QED
        BY <2>1, <4>1, PlacesApart, Zenon DEF Has, Link, Linked
    <3> QED
      BY <1>2, <3>1, <3>2, Zenon
  <2>3. IsBusy(i)
    BY <2>1, <2>2, Zenon DEF Holders, HasOK
  <2>4. ~IsBusy(i)'
    BY <2>1, <2>2, <2>3, PoolFrameTypes, Advanced, Zenon
  <2>5. ~OnStack(i) /\ \A u \in Threads : ~InHand(u, i)
    BY <2>3, Zenon DEF Exclusive
  <2>6. free' = free
    BY <1>2, Zenon DEF GiveUpMove, CasMove
  <2>7. i < nextIdx
    BY <2>3, Zenon DEF AllTracked
  <2>8. ppc'[t] \notin {"factory", "mark", "relLock"}
    <3>1. CASE GiveUpMove(t)
      <4>1. mpc[t] \in HolderPC /\ ppc' = ppc
        BY <3>1, Zenon DEF GiveUpMove, HolderPC
      <4>2. ppc[t] = "idle"
        BY <4>1, Outside, PlacesApart, Zenon DEF Link
      <4> QED
        BY <4>1, <4>2, Zenon
    <3>2. CASE CasMove(t)
      BY <3>2, EndingKinds, Zenon DEF GiveUpMove, CasMove, PushMove, SlotStopMove
    <3> QED
      BY <1>2, <3>1, <3>2, Zenon
  <2> QED
    BY <2>4, <2>5, <2>6, <2>7, <2>8, Zenon DEF OnStack
<1>3. CASE PushMove(t) /\ free' = free /\ ppc'[t] = "relStop" /\ pinst[t] = i
  <2>1. InHand(t, i) /\ gen' = gen
    BY <1>3, Zenon DEF PushMove, InHand, LivePC
  <2>2. ~IsBusy(i) /\ ~OnStack(i) /\ i < nextIdx /\ \A u \in Threads : InHand(u, i) => u = t
    BY <2>1, Zenon DEF Exclusive
  <2> QED
    BY <1>3, <2>1, <2>2, BusySame, Zenon DEF OnStack
<1>4. CASE SlotStopMove(t) /\ pinst[t] = i
  <2>1. InHand(t, i) /\ gen' = gen /\ free' = free /\ ppc'[t] = "stopRet"
    BY <1>4, Zenon DEF SlotStopMove, InHand, LivePC
  <2>2. ~IsBusy(i) /\ ~OnStack(i) /\ i < nextIdx /\ \A u \in Threads : InHand(u, i) => u = t
    BY <2>1, Zenon DEF Exclusive
  <2> QED
    BY <2>1, <2>2, BusySame, Zenon DEF OnStack
<1> QED
  BY <1>2, <1>3, <1>4, EndingKinds, Zenon
LEMMA StopsGoneStep ==
    ASSUME MgrTypes, PoolFacts, InstTypeOK, Link, Link', Holders, StopsGone, ClosedOK,
           NEW t \in Threads, Move(t), MgrOthers(t), PoolOthers(t), CallOthers(t)
    PROVE  StopsGone'
<1>1. SUFFICES ASSUME NEW u \in Threads, NEW i \in Instances
               PROVE  /\ Ending(u, i)' => Gone(i)'
                      /\ xpc'[<<u, i>>] # "no" => closed' \/ Gone(i)'
  BY Zenon DEF StopsGone
<1>2. (Gone(i) => Gone(i)') /\ (closed => closed')
  BY GoneStays, PoolGrows, Zenon DEF PoolFacts
<1>3. CASE u # t
  <2>1. Ending(u, i)' <=> Ending(u, i)
    BY <1>3, Zenon DEF Ending, MgrOthers, PoolOthers
  <2>2. xpc'[<<u, i>>] = xpc[<<u, i>>]
    BY <1>3, Zenon DEF CallOthers
  <2> QED
    BY <1>2, <2>1, <2>2, Zenon DEF StopsGone
<1>4. CASE u = t
  <2>1. Ending(t, i)' => Gone(i)'
    BY <1>2, EndingGone, Zenon DEF StopsGone
  <2>2. ASSUME xpc'[<<t, i>>] # "no" PROVE closed' \/ Gone(i)'
    <3>1. CASE xpc[<<t, i>>] # "no" \/ Ending(t, i)
      BY <1>2, <3>1, Zenon DEF StopsGone
    <3>2. CASE StopAllMove(t)
      BY <1>2, <3>2, Zenon DEF StopAllMove, ClosedOK
    <3> QED
      BY <2>2, <3>1, <3>2, StopKinds, Zenon
  <2> QED
    BY <1>4, <2>1, <2>2, Zenon
<1> QED
  BY <1>3, <1>4, Zenon

-----------------------------------------------------------------------------
(* What a caller holds is secluded.                                        *)
LEMMA WrappedSecluded ==
    ASSUME MgrTypes, PoolFacts, Holders, NEW i \in Instances, Wrapped(i)
    PROVE  Secluded(i)
<1>1. IsBusy(i)
  BY Zenon DEF Wrapped, Holders, HeldOK
<1>2. ~OnStack(i) /\ i < nextIdx
  BY <1>1, Zenon DEF PoolFacts, Exclusive, AllTracked
<1>3. \A u \in Threads, k \in Nat : ~Has(u, i, k)
  BY Zenon DEF Holders, HasOK
<1>4. SUFFICES ASSUME NEW u \in Threads
               PROVE  /\ ~Coming(u, i)
                      /\ pinst[u] = i => ppc[u] \notin {"factory", "mark", "release", "relLock"}
                      /\ minst[u] = i => mpc[u] \notin {"rInc", "rState"}
  BY <1>2, <1>4, Zenon DEF Secluded
<1>5. ~Coming(u, i)
  BY <1>3, ComingHas, Zenon DEF PoolFacts
<1>6. pinst[u] = i => ppc[u] \notin {"factory", "mark", "relLock"}
  BY <1>1, Zenon DEF PoolFacts, Exclusive, InHand, LivePC
<1>7. mtok[u] \in Nat /\ ptok[u] \in Nat
  BY Zenon DEF MgrTypes, PoolFacts, PoolTypeOK
<1>8. pinst[u] = i => ppc[u] # "release"
  BY <1>3, <1>7, Zenon DEF Has, Presents
<1>9. minst[u] = i => mpc[u] \notin {"rInc", "rState"}
  BY <1>3, <1>7, Zenon DEF Has, HolderPC
<1> QED
  BY <1>5, <1>6, <1>8, <1>9, Zenon

LEMMA SecludedKept ==
    ASSUME MgrTypes, PoolFacts, Link, Link', Holders, StartedHeld,
           NEW t \in Threads, Move(t), MgrOthers(t), PoolOthers(t),
           NEW i \in Instances, Secluded(i), ~(WipeMove(t) /\ minst[t] = i)
    PROVE  Secluded(i)'
<1>1. closed => closed'
  BY PoolGrows, Zenon DEF PoolFacts
<1>2. ~OnStack(i)'
  BY StackKinds, Zenon DEF Secluded
<1>3. (i < nextIdx)' /\ i # nextIdx
  <2>1. i < nextIdx /\ i \in Nat /\ nextIdx \in Nat /\ nextIdx' \in Nat /\ nextIdx <= nextIdx'
    <3>1. i \in Nat /\ i < nextIdx
      BY IndexNat, Zenon DEF Secluded
    <3>2. nextIdx \in Nat /\ nextIdx' \in Nat /\ nextIdx <= nextIdx'
      BY PoolGrows, Zenon DEF PoolFacts
    <3> QED
      BY <3>1, <3>2, Zenon
  <2> QED
    BY <2>1, SMT
<1>4. ~Coming(t, i)'
  <2>1. CASE MarkMove(t)
    <3>1. ppc[t] = "mark" /\ mpc' = mpc /\ pinst' = pinst
      BY <2>1, Zenon DEF MarkMove, mgrVars, mgrFrame
    <3>2. mpc[t] = "aWait" /\ pinst[t] # i
      BY <3>1, Zenon DEF Link, Linked, Secluded
    <3> QED
      BY <3>1, <3>2, Zenon DEF Coming, Granting
  <2>2. CASE ~MarkMove(t)
    <3>1. \A j : Coming(t, j)' => Coming(t, j)
      BY <2>2, ComingMoves, Zenon
    <3> QED
      BY <3>1, Zenon DEF Secluded
  <2> QED
    BY <2>1, <2>2, Zenon
<1>5. pinst'[t] = i => ppc'[t] \notin {"factory", "mark"}
  <2>1. SUFFICES ASSUME pinst'[t] = i, ppc'[t] \in {"factory", "mark"} PROVE FALSE
    BY Zenon
  <2>2. \/ ppc[t] \in {"factory", "mark"} /\ pinst[t] = i
        \/ OnStack(i)
    BY <1>3, <2>1, HandKinds, Zenon
  <2> QED
    BY <2>2, Zenon DEF Secluded
<1>6. pinst'[t] = i /\ ppc'[t] = "relLock" => closed'
  <2>1. SUFFICES ASSUME pinst'[t] = i, ppc'[t] = "relLock" PROVE closed
    BY <1>1, Zenon
  <2>2. \/ ppc[t] \in {"release", "relLock"} /\ pinst[t] = i
        \/ OnStack(i)
    BY <1>3, <2>1, HandKinds, Zenon
  <2> QED
    BY <2>2, Zenon DEF Secluded
<1>7. pinst'[t] = i /\ ppc'[t] = "release" => closed'
  <2>1. SUFFICES ASSUME pinst'[t] = i, ppc'[t] = "release" PROVE closed
    BY <1>1, Zenon
  <2> QED
    BY <2>1, EnterReleaseKinds, Zenon DEF Secluded
<1>8. minst'[t] = i /\ mpc'[t] \in {"rInc", "rState"} => closed'
  <2>1. SUFFICES ASSUME minst'[t] = i, mpc'[t] \in {"rInc", "rState"} PROVE closed
    BY <1>1, Zenon
  <2>2. \/ mpc[t] \in {"rInc", "rState"} /\ minst[t] = i
        \/ mpc[t] = "rStarted" /\ ~started[minst[t]]
    BY <2>1, PurgedKinds, Zenon
  <2> QED
    BY <2>2, Zenon DEF Secluded, StartedHeld
<1>9. ASSUME NEW u \in Threads
      PROVE  /\ ~Coming(u, i)'
             /\ pinst'[u] = i =>
                   /\ ppc'[u] \notin {"factory", "mark"}
                   /\ ppc'[u] \in {"release", "relLock"} => closed'
             /\ minst'[u] = i /\ mpc'[u] \in {"rInc", "rState"} => closed'
  <2>1. CASE u = t
    BY <1>4, <1>5, <1>6, <1>7, <1>8, <2>1, Zenon
  <2>2. CASE u # t
    <3>1. ~Coming(u, i)'
      BY <2>2, OthersComing, Zenon DEF Secluded
    <3> QED
      BY <1>1, <2>2, <3>1, Zenon DEF Secluded, MgrOthers, PoolOthers
  <2> QED
    BY <2>1, <2>2, Zenon
<1> QED
  BY <1>2, <1>3, <1>9, Zenon DEF Secluded

LEMMA CleanStep ==
    ASSUME MgrTypes, PoolFacts, Link, Link', Holders, StartedHeld, Clean,
           NEW t \in Threads, Move(t), MgrOthers(t), PoolOthers(t)
    PROVE  Clean'
<1>1. SUFFICES ASSUME NEW i \in Instances, dirty'[i] PROVE Secluded(i)'
  BY Zenon DEF Clean
<1>2. Secluded(i) /\ ~(WipeMove(t) /\ minst[t] = i)
  <2>1. CASE dirty[i] /\ ~(WipeMove(t) /\ minst[t] = i)
    BY <2>1, Zenon DEF Clean
  <2>2. CASE WriteMove(t) /\ \E w \in Held : w[1] = i
    <3>1. Secluded(i)
      BY <2>2, WrappedSecluded, Zenon DEF Wrapped
    <3>2. ~WipeMove(t)
      BY <2>2, Zenon DEF WriteMove, WipeMove, mgrFrame
    <3> QED
      BY <3>1, <3>2, Zenon
  <2> QED
    BY <1>1, <2>1, <2>2, DirtyKinds, Zenon
<1> QED
  BY <1>2, SecludedKept, Zenon

-----------------------------------------------------------------------------
(* What runs.  A goroutine that has an instance in hand puts it on the     *)
(* free stack, hands it out or stops it.                                   *)
LEMMA HandLeft ==
    ASSUME MgrTypes, PoolFacts, Link, Link', Holders, NEW t \in Threads, Move(t),
           MgrOthers(t), PoolOthers(t), NEW i \in Instances, InHand(t, i), i \in all
    PROVE  \/ InHand(t, i)' \/ Ending(t, i)' \/ OnStack(i)' \/ IsBusy(i)'
           \/ ppc[t] = "factory"
           \/ PoolStopMove(t)
<1>1. ppc[t] \in {"factory", "mark", "slotStop", "relLock", "relStop", "failStop"} /\ pinst[t] = i
  BY Zenon DEF InHand, LivePC
<1>2. CASE ppc' = ppc /\ pinst' = pinst
  BY <1>2, Zenon DEF InHand
<1>3. CASE MarkMove(t)
  <2>1. IsBusy(pinst[t])'
    BY <1>3, BusyKinds, Zenon
  <2> QED
    BY <1>1, <1>3, <2>1, Zenon DEF MarkMove, IsBusy
<1>4. CASE PushMove(t)
  BY <1>1, <1>4, Zenon DEF PushMove, Ending, StopPC
<1>5. CASE SlotStopMove(t)
  BY <1>1, <1>5, Zenon DEF SlotStopMove, Ending, StopPC
<1>6. CASE PoolMove(t) /\ ~MarkMove(t) /\ ~PushMove(t) /\ ~SlotStopMove(t)
  BY <1>1, <1>6, Zenon DEF PoolMove, QuietMove, PopMove, ReserveMove, FactoryErrMove, RegisterMove,
     CasMove, CloseMove
<1>7. CASE \/ EnterMove(t) \/ PresentMove(t) \/ ReceiveMove(t) \/ LeaveMove(t) \/ StopAllMove(t)
  BY <1>1, <1>7, Zenon DEF EnterMove, PresentMove, ReceiveMove, LeaveMove, StopAllMove, Presents
<1>8. CASE \/ LocalMove(t) \/ GrantMove(t) \/ WriteMove(t) \/ TakeMove(t) \/ WipeMove(t)
           \/ GiveUpDoneMove(t) \/ ReturnMove(t) \/ StartMove(t) \/ StopMove(t) \/ InstMove(t)
  <2>1. UNCHANGED poolVars
    BY <1>8, Zenon DEF LocalMove, GrantMove, WriteMove, TakeMove, WipeMove, GiveUpDoneMove,
       ReturnMove, StartMove, StopMove, InstMove
  <2> QED
    BY <1>2, <2>1, PoolParts, Zenon
<1>9. CASE GiveUpMove(t)
  BY <1>2, <1>9, Zenon DEF GiveUpMove
<1> QED
  BY <1>3, <1>4, <1>5, <1>6, <1>7, <1>8, <1>9, Zenon DEF Move, MgrMove

(* Who is in charge stays so, or hands the instance on.                    *)
LEMMA ChargeKept ==
    ASSUME MgrTypes, PoolFacts, Link, Link', Holders, Accounted, NEW t \in Threads, Move(t),
           MgrOthers(t), PoolOthers(t), CallOthers(t),
           NEW i \in Instances, i \in all, stack[i] # None, stack'[i] # None,
           NEW u \in Threads, InCharge(u, i)
    PROVE  OnStack(i)' \/ IsBusy(i)' \/ InCharge(u, i)'
<1>1. CASE u # t
  <2>1. InHand(u, i)' <=> InHand(u, i)
    BY <1>1, Zenon DEF InHand, PoolOthers
  <2>2. Ending(u, i)' <=> Ending(u, i)
    BY <1>1, Zenon DEF Ending, MgrOthers, PoolOthers
  <2>3. xpc'[<<u, i>>] = xpc[<<u, i>>] /\ mpc'[u] = mpc[u] /\ ppc'[u] = ppc[u]
    BY <1>1, Zenon DEF MgrOthers, PoolOthers, CallOthers
  <2> QED
    BY <2>1, <2>2, <2>3, Zenon DEF InCharge
<1>2. CASE u = t
  <2>1. Ending(t, i) => xpc[<<t, i>>] # "done"
    BY Zenon DEF Accounted
  <2>2. CASE Ending(t, i)
    BY <1>2, <2>1, <2>2, EndingLeft, Zenon DEF InCharge
  <2>3. CASE InHand(t, i) /\ ~Ending(t, i)
    <3>1. ppc[t] # "factory"
      BY <2>3, Zenon DEF Accounted, InHand
    <3>2. ~PoolStopMove(t)
      BY <2>3, Zenon DEF PoolStopMove, Ending, InHand
    <3> QED
      BY <1>2, <2>3, <3>1, <3>2, HandLeft, Zenon DEF InCharge
  <2>4. CASE xpc[<<t, i>>] = "lock"
    BY <1>2, <2>4, StopLeft, Zenon DEF InCharge
  <2>5. CASE mpc[t] = "sClose" /\ ppc[t] \in {"closeCh", "ret"}
    BY <1>2, <2>5, ClosingLeft, StopLeft, Zenon DEF InCharge
  <2> QED
    BY <1>2, <2>2, <2>3, <2>4, <2>5, Zenon DEF InCharge
<1> QED
  BY <1>1, <1>2, Zenon

LEMMA AccountedStep ==
    ASSUME MgrTypes, PoolFacts, PoolFacts', InstInv, Link, Link', Holders, StopsGone, Accounted,
           NEW t \in Threads, Move(t), MgrOthers(t), PoolOthers(t), CallOthers(t)
    PROVE  Accounted'
<1>1. all \subseteq all'
  BY PoolGrows, Zenon DEF PoolFacts
<1>2. ASSUME NEW i \in Instances, stack'[i] # None, stack[i] = None
      PROVE  IsBusy(i) /\ InstMove(t)
  <2>1. InstMove(t)
    BY <1>2, InstKept, Zenon
  <2>2. \E v \in Threads : spc[v] # "no" /\ sinst[v] = i
    <3>1. stack'[i] # None =>
             stack[i] # None \/ \E v \in Threads : spc[v] # "no" /\ sinst[v] = i
      BY <2>1, Zenon DEF InstMove
    <3> QED
      BY <1>2, <3>1, Zenon
  <2> QED
    BY <2>1, <2>2, StartersHold, Zenon DEF Holders
<1>3. ASSUME NEW i \in Instances, stack'[i] # None
      PROVE  i \in all' /\ (OnStack(i)' \/ IsBusy(i)' \/ \E u \in Threads : InCharge(u, i)')
  <2>1. CASE stack[i] = None
    <3>1. IsBusy(i) /\ i \in all
      BY <1>2, <1>3, <2>1, Zenon DEF PoolFacts, AllTracked
    <3>2. gen' = gen
      BY <1>2, <1>3, <2>1, PoolParts, Zenon DEF InstMove
    <3> QED
      BY <1>1, <3>1, <3>2, BusySame, Zenon
  <2>2. CASE stack[i] # None
    <3>1. i \in all /\ (OnStack(i) \/ IsBusy(i) \/ \E u \in Threads : InCharge(u, i))
      BY <2>2, Zenon DEF Accounted
    <3>2. CASE OnStack(i)
      <4>1. CASE ppc'[t] = "mark" /\ pinst'[t] = i
        <5>1. InCharge(t, i)'
          BY <4>1, Zenon DEF InCharge, InHand, LivePC
        <5> QED
          BY <1>1, <3>1, <5>1, Zenon
      <4>2. CASE CloseMove(t)
        <5>1. ppc[t] = "close" /\ ppc'[t] = "closeCh" /\ mpc' = mpc
          BY <4>2, Zenon DEF CloseMove, mgrVars, mgrFrame
        <5>2. mpc[t] = "sClose"
          BY <5>1, Zenon DEF Link, Linked
        <5>3. InCharge(t, i)'
          BY <5>1, <5>2, Zenon DEF InCharge
        <5> QED
          BY <1>1, <3>1, <5>3, Zenon
      <4> QED
        BY <1>1, <3>1, <3>2, <4>1, <4>2, StackKinds, Zenon
    <3>3. CASE IsBusy(i)
      <4>1. CASE Ending(t, i)' \/ (ppc'[t] = "relLock" /\ pinst'[t] = i)
        <5>1. InCharge(t, i)'
          BY <4>1, Zenon DEF InCharge, InHand, LivePC
        <5> QED
          BY <1>1, <3>1, <5>1, Zenon
      <4> QED
        BY <1>1, <3>1, <3>3, <4>1, BusyKinds, Zenon
    <3>4. CASE \E u \in Threads : InCharge(u, i)
      <4>1. PICK u \in Threads : InCharge(u, i)
        BY <3>4, Zenon
      <4>2. OnStack(i)' \/ IsBusy(i)' \/ InCharge(u, i)'
        BY <1>3, <2>2, <3>1, <4>1, ChargeKept, Zenon
      <4> QED
        BY <1>1, <3>1, <4>2, Zenon
    <3> QED
      BY <3>1, <3>2, <3>3, <3>4, Zenon
  <2> QED
    BY <2>1, <2>2, Zenon
<1>4. ASSUME NEW i \in Instances, NEW u \in Threads, Ending(u, i),
             xpc[<<u, i>>] \in {"clear", "close", "kill", "done"}
      PROVE  stack'[i] = None
  <2>1. stack[i] = None /\ ~IsBusy(i)
    BY <1>4, Zenon DEF Accounted, StopsGone, Gone
  <2> QED
    BY <1>2, <2>1, Zenon
<1>5. ASSUME NEW i \in Instances, NEW u \in Threads, Ending(u, i)',
             xpc'[<<u, i>>] \in {"clear", "close", "kill", "done"}
      PROVE  stack'[i] = None
  <2>1. CASE u # t
    <3>1. Ending(u, i)
      BY <1>5, <2>1, Zenon DEF Ending, MgrOthers, PoolOthers
    <3>2. xpc'[<<u, i>>] = xpc[<<u, i>>]
      BY <2>1, Zenon DEF CallOthers
    <3> QED
      BY <1>4, <1>5, <3>1, <3>2, Zenon
  <2>2. CASE u = t
    <3>1. CASE xpc[<<t, i>>] \in {"clear", "close", "kill", "done"}
      <4>1. Ending(t, i) \/ mpc[t] = "sStop"
        BY <3>1, Zenon DEF Link, Linked
      <4>2. CASE Ending(t, i)
        BY <1>4, <3>1, <4>2, Zenon
      <4>3. CASE mpc[t] = "sStop"
        <5>1. ppc[t] = "idle"
          BY <4>3, PlacesApart, Outside, Zenon DEF Link
        <5>2. Ending(t, i)'
          BY <1>5, <2>2, Zenon
        <5>3. ~Ending(t, i)
          BY <4>3, <5>1, PlacesApart, Zenon DEF Ending, StopPC
        <5>4. ~GiveUpMove(t)
          BY <4>3, Zenon DEF GiveUpMove
        <5>5. ~CasMove(t) /\ ~PushMove(t) /\ ~SlotStopMove(t)
          BY <5>1, Zenon DEF CasMove, PushMove, SlotStopMove
        <5> QED
          BY <5>2, <5>3, <5>4, <5>5, EndingKinds, Zenon
      <4> QED
        BY <4>1, <4>2, <4>3, Zenon
    <3> QED
      BY <1>5, <2>2, <3>1, StopLeft, Zenon
  <2> QED
    BY <2>1, <2>2, Zenon
<1>6. ASSUME NEW u \in Threads, ppc'[u] = "factory"
      PROVE  pinst'[u] \notin all'
  <2>1. CASE u # t
    <3>1. ppc[u] = "factory" /\ pinst'[u] = pinst[u] /\ pinst[u] \notin all
      BY <1>6, <2>1, Zenon DEF PoolOthers, Accounted
    <3>2. CASE RegisterMove(t)
      <4>1. ppc[t] = "factory" /\ all' = all \cup {pinst[t]}
        BY <3>2, Zenon DEF RegisterMove
      <4>2. pinst[t] \in Instances /\ InHand(t, pinst[t])
        BY <4>1, Zenon DEF PoolFacts, OnInstance, InHand, LivePC
      <4>3. pinst[u] # pinst[t]
        BY <2>1, <3>1, <4>2, Zenon DEF PoolFacts, Exclusive, InHand, LivePC
      <4> QED
        BY <3>1, <4>1, <4>3, Zenon
    <3>3. all' = all \/ RegisterMove(t)
      BY AllKinds, Zenon
    <3>4. CASE all' = all
      BY <3>1, <3>4, Zenon
    <3> QED
      BY <3>2, <3>3, <3>4, Zenon
  <2>2. CASE u = t
    <3>1. pinst'[t] \in Instances
      BY <1>6, <2>2, Zenon DEF PoolFacts, OnInstance
    <3>2. all' = all
      BY <1>6, <2>2, AllKinds, Zenon DEF RegisterMove
    <3>3. PICK i \in Instances : i = pinst'[t]
      BY <3>1, Zenon
    <3>4. \/ ppc[t] = "factory" /\ pinst[t] = i
          \/ i = nextIdx
      <4>1. ppc'[t] \in {"factory", "mark", "relLock"} /\ pinst'[t] = i
        BY <1>6, <2>2, <3>3, Zenon
      <4>2. \/ ppc[t] = ppc'[t] /\ pinst[t] = i
            \/ ppc'[t] \in {"mark", "relLock"}
            \/ i = nextIdx
        BY <4>1, HandKinds, Zenon
      <4> QED
        BY <1>6, <2>2, <4>2, Zenon
    <3>5. nextIdx \notin all
      <4>1. nextIdx \in Nat
        BY PoolGrows, Zenon DEF PoolFacts
      <4>2. \A j \in all : j < nextIdx
        BY Zenon DEF PoolFacts, AllTracked
      <4>3. ~(nextIdx < nextIdx)
        BY <4>1, SMT
      <4> QED
        BY <4>2, <4>3, Zenon
    <3> QED
      BY <2>2, <3>2, <3>3, <3>4, <3>5, Zenon DEF Accounted
  <2> QED
    BY <2>1, <2>2, Zenon
<1> QED
  BY <1>3, <1>5, <1>6, Zenon DEF Accounted

=============================================================================
