------------------------- MODULE ManagerStepProofs --------------------------
(***************************************************************************)
(* Every step of module Manager is of one of the kinds of ManagerMoves,    *)
(* for any number of goroutines and instances and any size of the pool;    *)
(* and the parts of the invariant that are about the manager's own fields, *)
(* which the kinds leave open, are kept by its steps.                      *)
(***************************************************************************)
EXTENDS Manager, ManagerMoves

Step(t) == MgrStep(t) \/ PoolInner(t) \/ InstInner(t) \/ Calls(t) \/ Deadlines(t)

-----------------------------------------------------------------------------
LEMMA ToMoves ==
    ASSUME MgrTypes, NEW t \in Threads, NEW p, To(t, p)
    PROVE  mpc'[t] = p /\ minst'[t] = minst[t] /\ mtok'[t] = mtok[t] /\ MgrOthers(t)
  BY Zenon DEF MgrTypes, To, MgrOthers

LEMMA DoneMoves ==
    ASSUME MgrTypes, NEW t \in Threads, Done(t)
    PROVE  mpc'[t] = "idle" /\ MgrOthers(t)
  BY Zenon DEF MgrTypes, Done, MgrOthers

LEMMA RestingSteps ==
    ASSUME MgrTypes, NEW t \in Threads,
           \/ InitCall(t) \/ InitStore(t) \/ InitPool(t) \/ InitErr(t) \/ InitRollback(t)
           \/ InitReady(t) \/ AcqCall(t) \/ ShutCall(t) \/ ShutLoad(t) \/ ShutDrained(t)
           \/ ShutDrainTimeout(t)
           \/ AcqPool(t) /\ ~poolSet
           \/ ShutPool(t) /\ ~poolSet
           \/ \E w \in released : RelCall(t, w)
           \/ mpc[t] = "rDecYes" /\ RelDec(t)
           \/ mpc[t] = "rSigYes" /\ RelSignal(t)
    PROVE  LocalMove(t) /\ MgrOthers(t)
<1>1. SUFFICES /\ UNCHANGED <<apiVars, poolVars, instVars>>
               /\ mpc[t] \in Resting
               /\ Done(t) \/ \E p \in Resting : To(t, p)
  BY ToMoves, DoneMoves, RestingPlaces, Zenon DEF LocalMove
<1>2. CASE InitCall(t)
  BY <1>2, RestingPlaces, Zenon DEF InitCall
<1>3. CASE InitStore(t) \/ InitPool(t) \/ InitErr(t)
  BY <1>3, RestingPlaces, Zenon DEF InitStore, InitPool, InitErr
<1>4. CASE InitRollback(t) \/ InitReady(t)
  BY <1>4, RestingPlaces, Zenon DEF InitRollback, InitReady
<1>5. CASE AcqCall(t)
  BY <1>5, RestingPlaces, Zenon DEF AcqCall
<1>6. CASE ShutCall(t) \/ ShutLoad(t)
  BY <1>6, RestingPlaces, Zenon DEF ShutCall, ShutLoad
<1>7. CASE ShutDrained(t) \/ ShutDrainTimeout(t)
  BY <1>7, RestingPlaces, Zenon DEF ShutDrained, ShutDrainTimeout
<1>8. CASE AcqPool(t) /\ ~poolSet
  BY <1>8, RestingPlaces, Zenon DEF AcqPool
<1>9. CASE ShutPool(t) /\ ~poolSet
  BY <1>9, RestingPlaces, Zenon DEF ShutPool
<1>10. CASE \E w \in released : RelCall(t, w)
  BY <1>10, RestingPlaces, Zenon DEF RelCall, apiVars
<1>11. CASE mpc[t] = "rDecYes" /\ RelDec(t)
  BY <1>11, RestingPlaces, Zenon DEF RelDec, RelNext
<1>12. CASE mpc[t] = "rSigYes" /\ RelSignal(t)
  BY <1>12, RestingPlaces, Zenon DEF RelSignal, RelNext
<1> QED
  BY <1>2, <1>3, <1>4, <1>5, <1>6, <1>7, <1>8, <1>9, <1>10, <1>11, <1>12, Zenon

LEMMA HolderSteps ==
    ASSUME MgrTypes, Link, HasOK, NEW t \in Threads,
           \/ AcqRecheck(t) \/ RelToken(t) \/ RelStarted(t) \/ RelPurgeNil(t) \/ RelPurgeErr(t)
           \/ RelInc(t)
           \/ RelState(t) /\ mpc'[t] = "rDecNo"
           \/ mpc[t] = "rDecNo" /\ RelDec(t)
           \/ mpc[t] = "rSigNo" /\ RelSignal(t)
    PROVE  LocalMove(t) /\ MgrOthers(t)
<1>1. SUFFICES /\ UNCHANGED <<apiVars, poolVars, instVars>>
               /\ \E p \in HolderPC \ {"aStarting"} :
                     /\ To(t, p)
                     /\ mpc[t] \in HolderPC \ {"aStarting"}
                     /\ p \in Granting => mpc[t] \in Granting
                     /\ p \in {"rToken", "rStarted"} => mpc[t] \in {"rToken", "rStarted"}
                     /\ p \in {"rInc", "rState"} =>
                           \/ mpc[t] \in {"rInc", "rState"}
                           \/ mpc[t] = "rStarted" /\ ~started[minst[t]]
  BY ToMoves, Zenon DEF LocalMove
<1>2. CASE AcqRecheck(t)
  BY <1>2, HolderPlaces, Zenon DEF AcqRecheck, Granting
<1>3. CASE RelToken(t)
  <2>1. gen[minst[t]] = mtok[t]
    BY <1>3, HolderPlaces, HolderCurrent, Zenon DEF RelToken
  <2> QED
    BY <1>3, <2>1, HolderPlaces, Zenon DEF RelToken, Granting
<1>4. CASE RelStarted(t)
  BY <1>4, HolderPlaces, Zenon DEF RelStarted, Granting
<1>5. CASE RelPurgeNil(t) \/ RelPurgeErr(t)
  BY <1>5, HolderPlaces, Zenon DEF RelPurgeNil, RelPurgeErr, Granting
<1>6. CASE RelInc(t)
  BY <1>6, HolderPlaces, Zenon DEF RelInc, Granting
<1>7. CASE RelState(t) /\ mpc'[t] = "rDecNo"
  <2>1. To(t, "rPool") => mpc'[t] = "rPool"
    BY ToMoves, Zenon
  <2> QED
    BY <1>7, <2>1, HolderPlaces, Zenon DEF RelState, Granting
<1>8. CASE mpc[t] = "rDecNo" /\ RelDec(t)
  BY <1>8, HolderPlaces, Zenon DEF RelDec, RelNext, Granting
<1>9. CASE mpc[t] = "rSigNo" /\ RelSignal(t)
  BY <1>9, HolderPlaces, Zenon DEF RelSignal, RelNext, Granting
<1> QED
  BY <1>2, <1>3, <1>4, <1>5, <1>6, <1>7, <1>8, <1>9, Zenon

(* Steps that hand an acquisition over.                                    *)
LEMMA GrantSteps ==
    ASSUME MgrTypes, InstTypeOK, PoolTypeOK, Link, StartedHeld, NEW t \in Threads,
           \/ AcqStarted(t) /\ started[minst[t]]
           \/ AcqStartRet(t) /\ sok[t]
    PROVE  GrantMove(t) /\ MgrOthers(t)
<1>1. ASSUME HandOut(t)
      PROVE  /\ mpc'[t] = "idle" /\ MgrOthers(t)
             /\ issued' = issued \cup {<<minst[t], mtok[t]>>} /\ UNCHANGED <<released, dirty>>
  BY <1>1, DoneMoves, Zenon DEF HandOut
<1>2. CASE AcqStarted(t) /\ started[minst[t]]
  <2>1. HandOut(t) /\ UNCHANGED instVars /\ UNCHANGED poolVars /\ mpc[t] = "aStarted"
    BY <1>2, Zenon DEF AcqStarted
  <2>2. spc[t] = "no"
    BY <2>1, Zenon DEF Link, Linked
  <2> QED
    BY <1>1, <1>2, <2>1, <2>2, InstParts, Zenon DEF GrantMove
<1>3. CASE AcqStartRet(t) /\ sok[t]
  <2>1. HandOut(t) /\ StartConsume(t) /\ UNCHANGED poolVars /\ mpc[t] = "aStarting"
    BY <1>3, Zenon DEF AcqStartRet
  <2>2. spc[t] = "done"
    BY <2>1, Zenon DEF StartConsume
  <2>3. sinst[t] = minst[t]
    BY <2>2, Zenon DEF Link, Linked
  <2>4. closed \/ started[minst[t]]
    BY <1>3, <2>2, <2>3, Zenon DEF StartedHeld
  <2> QED
    BY <1>1, <2>1, <2>4, StartConsumeFrame, Zenon DEF GrantMove
<1> QED
  BY <1>2, <1>3, Zenon

LEMMA WrapperSteps ==
    ASSUME MgrTypes, NEW t \in Threads
    PROVE  /\ \A w \in issued : Use(t, w) => WriteMove(t) /\ MgrOthers(t)
           /\ \A w \in issued : RelCall(t, w) /\ w \notin released => TakeMove(t) /\ MgrOthers(t)
           /\ RelPurged(t) => WipeMove(t) /\ MgrOthers(t)
<1>1. ASSUME NEW w \in issued, Use(t, w) PROVE WriteMove(t) /\ MgrOthers(t)
  <2>1. /\ w \in Held /\ dirty' = [dirty EXCEPT ![w[1]] = TRUE]
        /\ UNCHANGED <<issued, released, mgrFrame, poolVars, instVars>>
    BY <1>1, Zenon DEF Use, Held
  <2>2. UNCHANGED <<mpc, minst, mtok>>
    BY <2>1, Zenon DEF mgrFrame
  <2> QED
    BY <2>1, <2>2, Zenon DEF WriteMove, MgrOthers
<1>2. ASSUME NEW w \in issued, RelCall(t, w), w \notin released PROVE TakeMove(t) /\ MgrOthers(t)
  <2>1. /\ mpc[t] = "idle" /\ w \in Held /\ released' = released \cup {w}
        /\ mpc' = [mpc EXCEPT ![t] = "rToken"] /\ minst' = [minst EXCEPT ![t] = w[1]]
        /\ mtok' = [mtok EXCEPT ![t] = w[2]]
        /\ UNCHANGED <<issued, dirty, poolVars, instVars>>
    BY <1>2, Zenon DEF RelCall, Held
  <2> QED
    BY <2>1, Zenon DEF MgrTypes, TakeMove, MgrOthers
<1>3. ASSUME RelPurged(t) PROVE WipeMove(t) /\ MgrOthers(t)
  BY <1>3, ToMoves, Zenon DEF RelPurged, WipeMove
<1> QED
  BY <1>1, <1>2, <1>3, Zenon

LEMMA EnterSteps ==
    ASSUME MgrTypes, PoolTypeOK, NEW t \in Threads,
           poolSet, AcqPool(t) \/ ShutPool(t)
    PROVE  EnterMove(t) /\ MgrOthers(t)
<1>1. CASE AcqPool(t) /\ poolSet
  <2>1. mpc[t] = "aPool" /\ AcquireCall(t) /\ To(t, "aWait") /\ UNCHANGED <<apiVars, instVars>>
    BY <1>1, Zenon DEF AcqPool
  <2>2. /\ ppc[t] = "idle" /\ ppc'[t] = "select"
        /\ UNCHANGED <<free, all, nextIdx, closed, gen, lost, pinst, ptok, pret>>
    BY <2>1, PoolFrameTypes, Zenon DEF AcquireCall, Goto
  <2> QED
    BY <2>1, <2>2, ToMoves, RestingPlaces, Zenon DEF EnterMove
<1>2. CASE ShutPool(t) /\ poolSet
  <2>1. mpc[t] = "sPool" /\ CloseCall(t) /\ To(t, "sClose") /\ UNCHANGED <<apiVars, instVars>>
    BY <1>2, Zenon DEF ShutPool
  <2>2. /\ ppc[t] = "idle" /\ ppc'[t] = "close"
        /\ UNCHANGED <<free, all, nextIdx, closed, gen, lost, pinst, ptok, pret>>
    BY <2>1, PoolFrameTypes, Zenon DEF CloseCall, Goto, poolShared
  <2> QED
    BY <2>1, <2>2, ToMoves, RestingPlaces, Zenon DEF EnterMove
<1> QED
  BY <1>1, <1>2, Zenon

LEMMA PresentSteps ==
    ASSUME MgrTypes, PoolTypeOK, InstTypeOK, Link, SetUp, NEW t \in Threads,
           \/ AcqStartRet(t) /\ ~sok[t]
           \/ RelFail(t)
           \/ RelState(t) /\ mpc'[t] # "rDecNo"
    PROVE  PresentMove(t) /\ MgrOthers(t)
<1>1. CASE AcqStartRet(t) /\ ~sok[t]
  <2>1. /\ mpc[t] = "aStarting" /\ StartConsume(t) /\ ReleaseCall(t, minst[t], mtok[t], "fail")
        /\ To(t, "aFailed") /\ UNCHANGED apiVars
    BY <1>1, Zenon DEF AcqStartRet
  <2>2. /\ ppc[t] = "idle" /\ ppc'[t] = "fail" /\ pinst'[t] = minst[t] /\ ptok'[t] = mtok[t]
        /\ UNCHANGED poolShared
    BY <2>1, ReleaseFrame, Zenon
  <2>3. mpc'[t] = "aFailed" /\ MgrOthers(t)
    BY <2>1, ToMoves, Zenon
  <2> QED
    BY <2>1, <2>2, <2>3, StartConsumeFrame, Zenon DEF PresentMove
<1>2. ASSUME mpc[t] \in {"rFail", "rState"}, UNCHANGED instVars
      PROVE  spc'[t] = "no" /\ UNCHANGED <<started, stack, running, xpc>>
  BY <1>2, InstParts, Zenon DEF Link, Linked
<1>3. CASE RelFail(t)
  <2>1. poolSet
    BY <1>3, Zenon DEF SetUp, RelFail, InitPC
  <2>2. /\ mpc[t] = "rFail" /\ ReleaseCall(t, minst[t], mtok[t], "fail")
        /\ To(t, "rFailed") /\ UNCHANGED apiVars /\ UNCHANGED instVars
    BY <1>3, <2>1, Zenon DEF RelFail
  <2>3. /\ ppc[t] = "idle" /\ ppc'[t] = "fail" /\ pinst'[t] = minst[t] /\ ptok'[t] = mtok[t]
        /\ UNCHANGED poolShared
    BY <2>2, ReleaseFrame, Zenon
  <2>4. mpc'[t] = "rFailed" /\ MgrOthers(t)
    BY <2>2, ToMoves, Zenon
  <2> QED
    BY <1>2, <2>2, <2>3, <2>4, Zenon DEF PresentMove
<1>4. CASE RelState(t) /\ mpc'[t] # "rDecNo"
  <2>1. To(t, "rDecNo") => mpc'[t] = "rDecNo"
    BY ToMoves, Zenon
  <2>2. /\ mpc[t] = "rState" /\ ReleaseCall(t, minst[t], mtok[t], "release")
        /\ To(t, "rPool") /\ UNCHANGED apiVars /\ UNCHANGED instVars
    BY <1>4, <2>1, Zenon DEF RelState
  <2>3. /\ ppc[t] = "idle" /\ ppc'[t] = "release" /\ pinst'[t] = minst[t] /\ ptok'[t] = mtok[t]
        /\ UNCHANGED poolShared
    BY <2>2, ReleaseFrame, Zenon
  <2>4. mpc'[t] = "rPool" /\ MgrOthers(t)
    BY <2>2, ToMoves, Zenon
  <2> QED
    BY <1>2, <2>2, <2>3, <2>4, Zenon DEF PresentMove
<1> QED
  BY <1>1, <1>3, <1>4, Zenon

LEMMA ReturnSteps ==
    ASSUME MgrTypes, PoolTypeOK, NEW t \in Threads,
           AcqPoolRet(t) \/ AcqFailedRet(t) \/ RelFailedRet(t) \/ RelPoolRet(t)
    PROVE  (ReceiveMove(t) \/ LeaveMove(t)) /\ MgrOthers(t)
<1>1. PoolConsume(t) /\ UNCHANGED apiVars /\ UNCHANGED instVars
  BY Zenon DEF AcqPoolRet, AcqFailedRet, RelFailedRet, RelPoolRet
<1>2. ppc[t] = "ret" /\ ppc'[t] = "idle" /\ UNCHANGED poolShared
  BY <1>1, ConsumeFrame, Zenon
<1>3. CASE AcqPoolRet(t) /\ pret[t] = "ok"
  <2>1. /\ mpc[t] = "aWait" /\ mpc' = [mpc EXCEPT ![t] = "aRecheck"]
        /\ minst' = [minst EXCEPT ![t] = pinst[t]] /\ mtok' = [mtok EXCEPT ![t] = ptok[t]]
    BY <1>3, Zenon DEF AcqPoolRet
  <2>2. mpc'[t] = "aRecheck" /\ minst'[t] = pinst[t] /\ mtok'[t] = ptok[t] /\ MgrOthers(t)
    BY <2>1, Zenon DEF MgrTypes, MgrOthers
  <2>3. Presents(t)
    BY <1>2, <1>3, <2>1, Zenon DEF Presents
  <2> QED
    BY <1>1, <1>2, <2>1, <2>2, <2>3, Zenon DEF ReceiveMove
<1>4. CASE AcqPoolRet(t) /\ pret[t] # "ok"
  <2>1. mpc[t] = "aWait" /\ Done(t)
    BY <1>4, Zenon DEF AcqPoolRet
  <2>2. ~Presents(t) /\ mpc[t] \in PoolCalls \ {"sClose"}
    BY <1>2, <1>4, <2>1, Zenon DEF Presents, PoolCalls
  <2> QED
    BY <1>1, <1>2, <2>1, <2>2, DoneMoves, RestingPlaces, Zenon DEF LeaveMove
<1>5. CASE AcqFailedRet(t) \/ RelFailedRet(t) \/ RelPoolRet(t)
  <2>1. mpc[t] \in {"aFailed", "rFailed", "rPool"} /\ (Done(t) \/ To(t, "rDecYes"))
    BY <1>5, Zenon DEF AcqFailedRet, RelFailedRet, RelPoolRet
  <2>2. ~Presents(t) /\ mpc[t] \in PoolCalls \ {"sClose"}
    BY <1>2, <2>1, Zenon DEF Presents, PoolCalls
  <2> QED
    BY <1>1, <1>2, <2>1, <2>2, DoneMoves, ToMoves, RestingPlaces, Zenon DEF LeaveMove
<1> QED
  BY <1>3, <1>4, <1>5, Zenon

LEMMA StopSteps ==
    ASSUME MgrTypes, PoolTypeOK, Link, HasOK, NEW t \in Threads
    PROVE  /\ GiveUp(t) => GiveUpMove(t) /\ MgrOthers(t)
           /\ GiveUpStopped(t) => GiveUpDoneMove(t) /\ MgrOthers(t)
           /\ ShutStopAll(t) => StopAllMove(t) /\ MgrOthers(t)
           /\ ShutReturn(t) => ReturnMove(t) /\ MgrOthers(t)
<1>1. ASSUME GiveUp(t) PROVE GiveUpMove(t) /\ MgrOthers(t)
  <2>1. /\ mpc[t] \in {"aGiveUp", "rGiveUp"} /\ Abandon(t, minst[t], mtok[t])
        /\ \E p \in StopCalls : To(t, p)
        /\ UNCHANGED apiVars /\ UNCHANGED instVars
    BY <1>1, Zenon DEF GiveUp, StopCalls
  <2>2. gen[minst[t]] = mtok[t]
    BY <2>1, HolderPlaces, HolderCurrent, Zenon
  <2>3. /\ gen' = [gen EXCEPT ![minst[t]] = @ + 1]
        /\ UNCHANGED <<free, all, nextIdx, closed, ppc, pinst, ptok, pret>>
    BY <2>1, <2>2, Zenon DEF Abandon
  <2> QED
    BY <2>1, <2>3, ToMoves, Zenon DEF GiveUpMove
<1>2. ASSUME GiveUpStopped(t) PROVE GiveUpDoneMove(t) /\ MgrOthers(t)
  BY <1>2, DoneMoves, Zenon DEF GiveUpStopped, GiveUpDoneMove, StopCalls
<1>3. ASSUME ShutStopAll(t) PROVE StopAllMove(t) /\ MgrOthers(t)
  BY <1>3, ToMoves, ConsumeFrame, Zenon DEF ShutStopAll, StopAllMove
<1>4. ASSUME ShutReturn(t) PROVE ReturnMove(t) /\ MgrOthers(t)
  BY <1>4, DoneMoves, Zenon DEF ShutReturn, ReturnMove
<1> QED
  BY <1>1, <1>2, <1>3, <1>4, Zenon

LEMMA InstCallSteps ==
    ASSUME MgrTypes, PoolFacts, InstTypeOK, Link, NEW t \in Threads
    PROVE  /\ AcqStarted(t) /\ ~started[minst[t]] => StartMove(t) /\ MgrOthers(t)
           /\ GiveUpStop(t) \/ PoolStops(t) => StopMove(t) /\ MgrOthers(t)
           /\ PoolStopped(t) => PoolStopMove(t) /\ MgrOthers(t)
<1>1. ASSUME AcqStarted(t), ~started[minst[t]] PROVE StartMove(t) /\ MgrOthers(t)
  <2>1. /\ mpc[t] = "aStarted" /\ StartCall(t, minst[t]) /\ To(t, "aStarting")
        /\ UNCHANGED apiVars /\ UNCHANGED poolVars
    BY <1>1, Zenon DEF AcqStarted
  <2>2. /\ spc'[t] = "lock" /\ sinst'[t] = minst[t]
        /\ UNCHANGED <<started, stack, running, xpc>>
    BY <2>1, StartFrameTypes, Zenon DEF StartCall, stopFrame
  <2> QED
    BY <2>1, <2>2, ToMoves, Zenon DEF StartMove
<1>2. ASSUME GiveUpStop(t) \/ PoolStops(t) PROVE StopMove(t) /\ MgrOthers(t)
  <2>1. CASE GiveUpStop(t)
    <3>1. mpc[t] \in StopCalls /\ StopCall(t, {minst[t]}) /\ UNCHANGED <<mgrVars, poolVars>>
      BY <2>1, Zenon DEF GiveUpStop, StopCalls
    <3>2. minst[t] \in Instances /\ Ending(t, minst[t])
      BY <3>1, Zenon DEF Link, Linked, Ending
    <3> QED
      BY <3>1, <3>2, QuietManager, Zenon DEF StopMove
  <2>2. CASE PoolStops(t)
    <3>1. ppc[t] \in StopPC /\ StopCall(t, {pinst[t]}) /\ UNCHANGED <<mgrVars, poolVars>>
      BY <2>2, Zenon DEF PoolStops
    <3>2. pinst[t] \in Instances /\ Ending(t, pinst[t])
      BY <3>1, Zenon DEF PoolFacts, OnInstance, StopPC, Ending
    <3> QED
      BY <3>1, <3>2, QuietManager, Zenon DEF StopMove
  <2> QED
    BY <1>2, <2>1, <2>2, Zenon
<1>3. ASSUME PoolStopped(t) PROVE PoolStopMove(t) /\ MgrOthers(t)
  <2>1. /\ ppc[t] \in StopPC /\ xpc[<<t, pinst[t]>>] = "done" /\ StopConsume(t)
        /\ PoolStopDone(t) /\ UNCHANGED mgrVars
    BY <1>3, Zenon DEF PoolStopped
  <2>2. /\ ppc'[t] = IF ppc[t] = "stopRet" THEN "ret" ELSE "slot"
        /\ UNCHANGED <<poolShared, pinst, ptok, pret>>
    BY <2>1, PoolFrameTypes, Zenon DEF PoolStopDone, PoolFacts
  <2> QED
    BY <2>1, <2>2, QuietManager, Zenon DEF PoolStopMove
<1> QED
  BY <1>1, <1>2, <1>3, Zenon

-----------------------------------------------------------------------------
(* A step of the manager is, for the pool and for the instances, a step of *)
(* their own or none: what they keep by themselves is kept here.           *)
ActiveInPool(t) ==
    \/ AcqPool(t) \/ AcqPoolRet(t) \/ AcqStartRet(t) \/ AcqFailedRet(t) \/ GiveUp(t)
    \/ PoolStopped(t) \/ RelFail(t) \/ RelFailedRet(t) \/ RelState(t) \/ RelPoolRet(t)
    \/ ShutPool(t) \/ ShutStopAll(t) \/ PoolInner(t)
    \/ AcquireCtxDone(t) \/ AcquireFactoryErr(t)

ActiveInInst(t) ==
    \/ AcqStarted(t) \/ AcqStartRet(t) \/ GiveUpStop(t) \/ GiveUpStopped(t) \/ PoolStops(t)
    \/ PoolStopped(t) \/ ShutStopAll(t) \/ ShutReturn(t) \/ InstInner(t)

LEMMA PassivePool ==
    ASSUME NEW t, Step(t), ~ActiveInPool(t)
    PROVE  UNCHANGED poolVars
<1>1. CASE MgrStep(t)
  <2>1. CASE InitStore(t) \/ InitPool(t) \/ InitErr(t) \/ InitRollback(t) \/ InitReady(t)
    BY <2>1, Zenon DEF InitStore, InitPool, InitErr, InitRollback, InitReady
  <2>2. CASE AcqRecheck(t) \/ AcqStarted(t) \/ GiveUpStop(t) \/ GiveUpStopped(t) \/ PoolStops(t)
    BY <2>2, Zenon DEF AcqRecheck, AcqStarted, GiveUpStop, GiveUpStopped, PoolStops
  <2>3. CASE RelToken(t) \/ RelStarted(t) \/ RelPurgeNil(t) \/ RelPurged(t) \/ RelPurgeErr(t)
    BY <2>3, Zenon DEF RelToken, RelStarted, RelPurgeNil, RelPurged, RelPurgeErr
  <2>4. CASE RelInc(t) \/ RelDec(t) \/ RelSignal(t)
    BY <2>4, Zenon DEF RelInc, RelDec, RelSignal
  <2>5. CASE ShutLoad(t) \/ ShutDrained(t) \/ ShutReturn(t)
    BY <2>5, Zenon DEF ShutLoad, ShutDrained, ShutReturn
  <2> QED
    BY <1>1, <2>1, <2>2, <2>3, <2>4, <2>5, Zenon DEF MgrStep, ActiveInPool
<1>2. CASE InstInner(t)
  BY <1>2, Zenon DEF InstInner
<1>3. CASE Calls(t)
  BY <1>3, Zenon DEF Calls, InitCall, AcqCall, ShutCall, Use, RelCall
<1>4. CASE Deadlines(t)
  BY <1>4, Zenon DEF Deadlines, ActiveInPool, ShutDrainTimeout
<1> QED
  BY <1>1, <1>2, <1>3, <1>4, Zenon DEF Step, ActiveInPool

LEMMA PassiveInst ==
    ASSUME NEW t, Step(t), ~ActiveInInst(t)
    PROVE  UNCHANGED instVars
<1>1. CASE MgrStep(t)
  <2>1. CASE InitStore(t) \/ InitPool(t) \/ InitErr(t) \/ InitRollback(t) \/ InitReady(t)
    BY <2>1, Zenon DEF InitStore, InitPool, InitErr, InitRollback, InitReady
  <2>2. CASE AcqPool(t) \/ AcqPoolRet(t) \/ AcqRecheck(t) \/ AcqFailedRet(t) \/ GiveUp(t)
    BY <2>2, Zenon DEF AcqPool, AcqPoolRet, AcqRecheck, AcqFailedRet, GiveUp
  <2>3. CASE RelToken(t) \/ RelStarted(t) \/ RelPurgeNil(t) \/ RelPurged(t) \/ RelPurgeErr(t)
    BY <2>3, Zenon DEF RelToken, RelStarted, RelPurgeNil, RelPurged, RelPurgeErr
  <2>4. CASE RelFail(t) \/ RelFailedRet(t) \/ RelInc(t) \/ RelState(t) \/ RelPoolRet(t)
    BY <2>4, Zenon DEF RelFail, RelFailedRet, RelInc, RelState, RelPoolRet
  <2>5. CASE RelDec(t) \/ RelSignal(t) \/ ShutLoad(t) \/ ShutDrained(t) \/ ShutPool(t)
    BY <2>5, Zenon DEF RelDec, RelSignal, ShutLoad, ShutDrained, ShutPool
  <2> QED
    BY <1>1, <2>1, <2>2, <2>3, <2>4, <2>5, Zenon DEF MgrStep, ActiveInInst
<1>2. CASE PoolInner(t)
  BY <1>2, Zenon DEF PoolInner
<1>3. CASE Calls(t)
  BY <1>3, Zenon DEF Calls, InitCall, AcqCall, ShutCall, Use, RelCall
<1>4. CASE Deadlines(t)
  BY <1>4, Zenon DEF Deadlines, ShutDrainTimeout
<1> QED
  BY <1>1, <1>2, <1>3, <1>4, Zenon DEF Step, ActiveInInst

LEMMA PoolPart ==
    ASSUME MgrTypes, PoolTypeOK, Link, NEW t \in Threads, Step(t)
    PROVE  PoolOwnStep(t) \/ UNCHANGED poolVars
<1>1. ASSUME mpc[t] \in HolderPC, Issued(minst[t], mtok[t])
      PROVE  minst[t] \in Instances /\ mtok[t] \in 1 .. gen[minst[t]]
  <2>1. minst[t] \in Instances /\ mtok[t] \in Nat /\ gen[minst[t]] \in Nat
    BY <1>1, PoolFrameTypes, Zenon DEF MgrTypes, Link, Linked
  <2> QED
    BY <1>1, <2>1 DEF Issued
<1>2. ASSUME mpc[t] \in HolderPC, NEW p \in {"fail", "release"},
             ReleaseCall(t, minst[t], mtok[t], p)
      PROVE  PoolOwnStep(t)
  <2>1. Issued(minst[t], mtok[t])
    BY <1>2, Zenon DEF ReleaseCall
  <2> QED
    BY <1>1, <1>2, <2>1, Zenon DEF PoolOwnStep, PoolEnv
<1>3. CASE AcqPool(t) \/ ShutPool(t)
  BY <1>3, Zenon DEF AcqPool, ShutPool, PoolOwnStep, PoolEnv
<1>4. CASE AcqPoolRet(t) \/ AcqFailedRet(t) \/ RelFailedRet(t) \/ RelPoolRet(t) \/ ShutStopAll(t)
  BY <1>4, Zenon DEF AcqPoolRet, AcqFailedRet, RelFailedRet, RelPoolRet, ShutStopAll,
                     PoolOwnStep, PoolEnv
<1>5. CASE AcqStartRet(t)
  <2>1. mpc[t] \in HolderPC
    BY <1>5, Zenon DEF AcqStartRet, HolderPC
  <2> QED
    BY <1>2, <1>5, <2>1, Zenon DEF AcqStartRet
<1>6. CASE RelFail(t) \/ RelState(t)
  <2>1. mpc[t] \in HolderPC
    BY <1>6, Zenon DEF RelFail, RelState, HolderPC
  <2> QED
    BY <1>2, <1>6, <2>1, Zenon DEF RelFail, RelState
<1>7. CASE GiveUp(t)
  <2>1. mpc[t] \in HolderPC /\ Abandon(t, minst[t], mtok[t])
    BY <1>7, Zenon DEF GiveUp, HolderPC
  <2>2. Issued(minst[t], mtok[t])
    BY <2>1, Zenon DEF Abandon
  <2> QED
    BY <1>1, <2>1, <2>2, Zenon DEF PoolOwnStep, PoolEnv
<1>8. CASE PoolStopped(t) \/ PoolInner(t)
  BY <1>8, Zenon DEF PoolStopped, PoolInner, PoolOwnStep
<1>9. CASE AcquireCtxDone(t) \/ AcquireFactoryErr(t)
  BY <1>9, Zenon DEF PoolOwnStep, PoolEnv
<1> QED
  BY <1>3, <1>4, <1>5, <1>6, <1>7, <1>8, <1>9, PassivePool, Zenon DEF ActiveInPool

LEMMA InstPart ==
    ASSUME MgrTypes, PoolFacts, Link, NEW t \in Threads, Step(t)
    PROVE  InstStep(t) \/ UNCHANGED instVars
<1>1. all \subseteq Instances
  BY Zenon DEF PoolFacts, PoolTypeOK
<1>2. CASE AcqStarted(t)
  <2>1. minst[t] \in Instances
    BY <1>2, Zenon DEF AcqStarted, HolderPC, Link, Linked
  <2> QED
    BY <1>2, <2>1, Zenon DEF AcqStarted, InstStep
<1>3. CASE AcqStartRet(t)
  BY <1>3, Zenon DEF AcqStartRet, InstStep
<1>4. CASE GiveUpStop(t) \/ PoolStops(t)
  <2>1. PICK i \in Instances : StopCall(t, {i})
    <3>1. CASE GiveUpStop(t)
      BY <3>1, Zenon DEF GiveUpStop, StopCalls, Link, Linked
    <3>2. CASE PoolStops(t)
      BY <3>2, Zenon DEF PoolStops, StopPC, PoolFacts, OnInstance
    <3> QED
      BY <1>4, <3>1, <3>2, Zenon
  <2>2. {i} \in SUBSET Instances
    BY Zenon
  <2> QED
    BY <2>1, <2>2, Zenon DEF InstStep
<1>5. CASE GiveUpStopped(t) \/ PoolStopped(t) \/ ShutReturn(t)
  BY <1>5, Zenon DEF GiveUpStopped, PoolStopped, ShutReturn, InstStep
<1>6. CASE ShutStopAll(t)
  BY <1>1, <1>6, Zenon DEF ShutStopAll, InstStep
<1>7. CASE InstInner(t)
  <2>1. StartLaunch(t) => \E s \in Stacks : s \notin running[sinst[t]] /\ Launched(t, s)
    BY Zenon DEF StartLaunch, Fresh
  <2> QED
    BY <1>7, <2>1, Zenon DEF InstInner, StartStep, StopStep, InstStep
<1> QED
  BY <1>2, <1>3, <1>4, <1>5, <1>6, <1>7, PassiveInst, Zenon DEF ActiveInInst

(* Every step is of one of the kinds.                                      *)
MoveOf(t) == Move(t) /\ MgrOthers(t)

LEMMA MoveOfManager ==
    ASSUME MgrTypes, PoolFacts, InstInv, Link, HasOK, StartedHeld, SetUp,
           NEW t \in Threads, MgrStep(t)
    PROVE  MoveOf(t)
<1>1. PoolTypeOK /\ InstTypeOK
  BY Zenon DEF PoolFacts, InstInv
<1>2. CASE InitStore(t) \/ InitPool(t) \/ InitErr(t) \/ InitRollback(t) \/ InitReady(t)
  BY <1>2, RestingSteps, Zenon DEF MoveOf, Move, MgrMove
<1>3. CASE AcqPool(t) \/ ShutPool(t)
  BY <1>1, <1>3, RestingSteps, EnterSteps, Zenon DEF MoveOf, Move, MgrMove
<1>4. CASE AcqPoolRet(t) \/ AcqFailedRet(t) \/ RelFailedRet(t) \/ RelPoolRet(t)
  BY <1>1, <1>4, ReturnSteps, Zenon DEF MoveOf, Move, MgrMove
<1>5. CASE AcqRecheck(t) \/ RelToken(t) \/ RelStarted(t) \/ RelPurgeNil(t) \/ RelPurgeErr(t) \/ RelInc(t)
  BY <1>5, HolderSteps, Zenon DEF MoveOf, Move, MgrMove
<1>6. CASE AcqStarted(t)
  BY <1>1, <1>6, GrantSteps, InstCallSteps, Zenon DEF MoveOf, Move, MgrMove
<1>7. CASE AcqStartRet(t)
  BY <1>1, <1>7, GrantSteps, PresentSteps, Zenon DEF MoveOf, Move, MgrMove
<1>8. CASE GiveUp(t) \/ GiveUpStopped(t) \/ ShutStopAll(t) \/ ShutReturn(t)
  BY <1>1, <1>8, StopSteps, Zenon DEF MoveOf, Move, MgrMove
<1>9. CASE GiveUpStop(t) \/ PoolStops(t) \/ PoolStopped(t)
  BY <1>1, <1>9, InstCallSteps, Zenon DEF MoveOf, Move
<1>10. CASE RelPurged(t)
  BY <1>10, WrapperSteps, Zenon DEF MoveOf, Move, MgrMove
<1>11. CASE RelFail(t) \/ RelState(t)
  BY <1>1, <1>11, HolderSteps, PresentSteps, Zenon DEF MoveOf, Move, MgrMove
<1>12. CASE RelDec(t)
  BY <1>12, RestingSteps, HolderSteps, Zenon DEF MoveOf, Move, MgrMove, RelDec
<1>13. CASE RelSignal(t)
  BY <1>13, RestingSteps, HolderSteps, Zenon DEF MoveOf, Move, MgrMove, RelSignal
<1>14. CASE ShutLoad(t) \/ ShutDrained(t)
  BY <1>14, RestingSteps, Zenon DEF MoveOf, Move, MgrMove
<1> QED
  BY <1>2, <1>3, <1>4, <1>5, <1>6, <1>7, <1>8, <1>9, <1>10, <1>11, <1>12, <1>13, <1>14, Zenon
     DEF MgrStep

LEMMA MoveOfStep ==
    ASSUME MgrTypes, PoolFacts, InstInv, Link, HasOK, StartedHeld, SetUp,
           NEW t \in Threads, Step(t)
    PROVE  Move(t) /\ MgrOthers(t) /\ PoolOthers(t) /\ CallOthers(t)
<1>1. PoolTypeOK /\ InstTypeOK
  BY Zenon DEF PoolFacts, InstInv
<1>2. PoolOthers(t)
  BY <1>1, PoolPart, PoolOthersKept, Zenon
<1>3. CallOthers(t)
  BY <1>1, InstPart, CallOthersKept, Zenon
<1> SUFFICES MoveOf(t)
  BY <1>2, <1>3, Zenon DEF MoveOf
<1>4. CASE PoolInner(t)
  <2>1. PoolStep(t) /\ UNCHANGED <<mgrVars, instVars>> /\ UNCHANGED mgrVars
    BY <1>4, Zenon DEF PoolInner
  <2>2. PoolMove(t)
    BY <2>1, QuietSteps, AcquireSteps, ReleaseSteps, Zenon DEF PoolStep, PoolMove
  <2> QED
    BY <2>1, <2>2, QuietManager, Zenon DEF MoveOf, Move
<1>5. CASE InstInner(t)
  <2>1. UNCHANGED <<mgrVars, poolVars>> /\ UNCHANGED mgrVars
    BY <1>5, Zenon DEF InstInner
  <2>2. InstMove(t)
    BY <1>5, <2>1, StartSteps, StopStageSteps, Zenon DEF InstInner
  <2> QED
    BY <2>1, <2>2, QuietManager, Zenon DEF MoveOf, Move
<1>6. CASE Calls(t)
  <2>1. CASE InitCall(t) \/ AcqCall(t) \/ ShutCall(t)
    BY <2>1, RestingSteps, Zenon DEF MoveOf, Move, MgrMove
  <2>2. ASSUME NEW w \in issued, Use(t, w) \/ RelCall(t, w)
        PROVE  MoveOf(t)
    BY <2>2, RestingSteps, WrapperSteps, Zenon DEF MoveOf, Move, MgrMove
  <2> QED
    BY <1>6, <2>1, <2>2, Zenon DEF Calls
<1>7. CASE Deadlines(t)
  <2>1. CASE ShutDrainTimeout(t)
    BY <2>1, RestingSteps, Zenon DEF MoveOf, Move, MgrMove
  <2>2. CASE (AcquireCtxDone(t) \/ AcquireFactoryErr(t)) /\ UNCHANGED <<mgrVars, instVars>>
    <3>1. UNCHANGED mgrVars
      BY <2>2, Zenon
    <3>2. PoolMove(t)
      BY <2>2, QuietSteps, AcquireSteps, Zenon DEF PoolMove
    <3> QED
      BY <3>1, <3>2, QuietManager, Zenon DEF MoveOf, Move
  <2> QED
    BY <1>7, <2>1, <2>2, Zenon DEF Deadlines
<1> QED
  BY <1>4, <1>5, <1>6, <1>7, MoveOfManager, Zenon DEF Step

-----------------------------------------------------------------------------
(* The types.                                                              *)
FrameTypes ==
    /\ mpc \in [Threads -> MgrPC] /\ minst \in [Threads -> Instances \cup {NoInst}]
    /\ mtok \in [Threads -> Nat]

SharedTypes ==
    /\ state \in States /\ poolSet \in BOOLEAN /\ inflightDone \in BOOLEAN
    /\ initMu \in Threads \cup {NoThread} /\ sdReturned \in BOOLEAN

ApiTypes ==
    /\ issued \subseteq Instances \X Nat /\ released \subseteq issued
    /\ dirty \in [Instances -> BOOLEAN]

LEMMA TypesSplit ==
    /\ MgrTypes <=> FrameTypes /\ SharedTypes /\ ApiTypes
    /\ MgrTypes' <=> FrameTypes' /\ SharedTypes' /\ ApiTypes'
  BY Zenon DEF MgrTypes, FrameTypes, SharedTypes, ApiTypes

LEMMA MgrPlaces ==
    /\ InitPC \subseteq MgrPC /\ AcquirePC \subseteq MgrPC /\ ReleasePC \subseteq MgrPC
    /\ ShutdownPC \subseteq MgrPC /\ HolderPC \subseteq MgrPC /\ "idle" \in MgrPC
  BY Zenon DEF MgrPC, HolderPC, AcquirePC, ReleasePC

LEMMA FrameTypeMoves ==
    ASSUME FrameTypes, NEW t \in Threads
    PROVE  /\ \A p \in MgrPC : To(t, p) => FrameTypes'
           /\ Done(t) => FrameTypes'
           /\ UNCHANGED mgrFrame => FrameTypes'
<1>1. ASSUME NEW p \in MgrPC, To(t, p) PROVE FrameTypes'
  BY <1>1, Zenon DEF To, FrameTypes
<1>2. CASE Done(t)
  BY <1>2, MgrPlaces DEF Done, FrameTypes
<1>3. CASE UNCHANGED mgrFrame
  BY <1>3, Zenon DEF mgrFrame, FrameTypes
<1> QED
  BY <1>1, <1>2, <1>3, Zenon

LEMMA FrameTypesStep ==
    ASSUME FrameTypes, ApiTypes, PoolTypeOK, NEW t \in Threads, Step(t)
    PROVE  FrameTypes'
<1>1. CASE Calls(t)
  <2>1. CASE InitCall(t) \/ AcqCall(t) \/ ShutCall(t)
    <3>1. "iStore" \in MgrPC /\ "aPool" \in MgrPC /\ "sLoad" \in MgrPC
      BY Zenon DEF MgrPC, InitPC, AcquirePC, ShutdownPC
    <3> QED
      BY <2>1, <3>1, FrameTypeMoves, Zenon DEF InitCall, AcqCall, ShutCall
  <2>2. ASSUME NEW w \in issued, Use(t, w) PROVE FrameTypes'
    BY <2>2, FrameTypeMoves, Zenon DEF Use
  <2>3. ASSUME NEW w \in issued, RelCall(t, w) PROVE FrameTypes'
    <3>1. w[1] \in Instances /\ w[2] \in Nat /\ "rToken" \in MgrPC
      BY Zenon DEF ApiTypes, MgrPC, ReleasePC
    <3> QED
      BY <2>3, <3>1, FrameTypeMoves, Zenon DEF RelCall, FrameTypes
  <2> QED
    BY <1>1, <2>1, <2>2, <2>3, Zenon DEF Calls
<1>2. CASE InitStore(t) \/ InitPool(t) \/ InitErr(t) \/ InitRollback(t) \/ InitReady(t)
  <2>1. "iDo" \in MgrPC /\ "iReady" \in MgrPC /\ "iRollback" \in MgrPC
    BY Zenon DEF MgrPC, InitPC
  <2> QED
    BY <1>2, <2>1, FrameTypeMoves, Zenon
       DEF InitStore, InitPool, InitErr, InitRollback, InitReady
<1>3. CASE AcqPoolRet(t)
  <2>1. pinst[t] \in Instances \cup {NoInst} /\ ptok[t] \in Nat /\ "aRecheck" \in MgrPC
    BY PoolFrameTypes, Zenon DEF MgrPC, AcquirePC
  <2> QED
    BY <1>3, <2>1, FrameTypeMoves, Zenon DEF AcqPoolRet, FrameTypes
<1>4. CASE \/ AcqPool(t) \/ AcqRecheck(t) \/ AcqStarted(t) \/ AcqStartRet(t) \/ AcqFailedRet(t)
           \/ GiveUp(t)
  <2>1. AcquirePC \subseteq MgrPC /\ "rStop" \in MgrPC
    BY Zenon DEF MgrPC, ReleasePC
  <2>2. CASE AcqPool(t) \/ AcqStarted(t) \/ AcqStartRet(t) \/ AcqFailedRet(t)
    BY <2>1, <2>2, FrameTypeMoves, Zenon
       DEF AcqPool, AcqStarted, AcqStartRet, AcqFailedRet, AcquirePC, HandOut
  <2>3. CASE AcqRecheck(t)
    BY <2>1, <2>3, FrameTypeMoves, Zenon DEF AcqRecheck, AcquirePC
  <2>4. CASE GiveUp(t)
    BY <2>1, <2>4, FrameTypeMoves, Zenon DEF GiveUp, AcquirePC
  <2> QED
    BY <1>4, <2>2, <2>3, <2>4, Zenon
<1>5. CASE GiveUpStop(t) \/ GiveUpStopped(t) \/ PoolStops(t) \/ PoolStopped(t)
  BY <1>5, FrameTypeMoves, Zenon DEF GiveUpStop, GiveUpStopped, PoolStops, PoolStopped, mgrVars
<1>6. CASE \/ RelToken(t) \/ RelStarted(t) \/ RelPurgeNil(t) \/ RelPurged(t) \/ RelPurgeErr(t)
           \/ RelFail(t) \/ RelFailedRet(t) \/ RelInc(t) \/ RelState(t) \/ RelPoolRet(t)
           \/ RelDec(t) \/ RelSignal(t)
  <2>1. ReleasePC \subseteq MgrPC
    BY MgrPlaces
  <2>2. CASE RelToken(t) \/ RelStarted(t) \/ RelPurgeNil(t)
    BY <2>1, <2>2, FrameTypeMoves, Zenon DEF RelToken, RelStarted, RelPurgeNil, ReleasePC
  <2>3. CASE RelPurged(t) \/ RelPurgeErr(t) \/ RelFail(t) \/ RelFailedRet(t)
    BY <2>1, <2>3, FrameTypeMoves, Zenon
       DEF RelPurged, RelPurgeErr, RelFail, RelFailedRet, ReleasePC
  <2>4. CASE RelInc(t) \/ RelState(t) \/ RelPoolRet(t)
    BY <2>1, <2>4, FrameTypeMoves, Zenon DEF RelInc, RelState, RelPoolRet, ReleasePC
  <2>5. CASE RelDec(t) \/ RelSignal(t)
    BY <2>1, <2>5, FrameTypeMoves, Zenon DEF RelDec, RelSignal, RelNext, ReleasePC
  <2> QED
    BY <1>6, <2>2, <2>3, <2>4, <2>5, Zenon
<1>7. CASE \/ ShutLoad(t) \/ ShutDrained(t) \/ ShutPool(t) \/ ShutStopAll(t) \/ ShutReturn(t)
           \/ ShutDrainTimeout(t)
  <2>1. ShutdownPC \subseteq MgrPC
    BY MgrPlaces
  <2> QED
    BY <1>7, <2>1, FrameTypeMoves, Zenon DEF ShutLoad, ShutDrained, ShutPool, ShutStopAll,
       ShutReturn, ShutDrainTimeout, ShutdownPC
<1>8. CASE UNCHANGED mgrVars
  BY <1>8, FrameTypeMoves, Zenon DEF mgrVars
<1>9. CASE MgrStep(t)
  BY <1>2, <1>3, <1>4, <1>5, <1>6, <1>7, <1>9, Zenon DEF MgrStep
<1> QED
  BY <1>1, <1>7, <1>8, <1>9, Zenon DEF Step, PoolInner, InstInner, Deadlines

(* Only these steps touch the fields of the manager.                       *)
LEMMA SharedSteps ==
    ASSUME NEW t, Step(t)
    PROVE  \/ UNCHANGED <<mgrShared, sdReturned>>
           \/ InitCall(t) \/ InitStore(t) \/ InitPool(t) \/ InitErr(t) \/ InitRollback(t)
           \/ InitReady(t) \/ RelInc(t) \/ RelDec(t) \/ RelSignal(t)
           \/ ShutCall(t) \/ ShutLoad(t) \/ ShutPool(t) \/ ShutReturn(t)
<1>1. CASE UNCHANGED mgrVars
  BY <1>1, Zenon DEF mgrVars
<1>2. CASE Calls(t)
  BY <1>2, Zenon DEF Calls, AcqCall, Use, RelCall
<1>3. CASE AcqPool(t) \/ AcqPoolRet(t) \/ AcqRecheck(t) \/ AcqStarted(t) \/ AcqStartRet(t)
  BY <1>3, Zenon DEF AcqPool, AcqPoolRet, AcqRecheck, AcqStarted, AcqStartRet
<1>4. CASE AcqFailedRet(t) \/ GiveUp(t) \/ GiveUpStopped(t) \/ RelToken(t) \/ RelStarted(t)
  BY <1>4, Zenon DEF AcqFailedRet, GiveUp, GiveUpStopped, RelToken, RelStarted
<1>5. CASE GiveUpStop(t) \/ PoolStops(t) \/ PoolStopped(t)
  BY <1>1, <1>5, Zenon DEF GiveUpStop, PoolStops, PoolStopped
<1>6. CASE RelPurgeNil(t) \/ RelPurged(t) \/ RelPurgeErr(t) \/ RelFail(t) \/ RelFailedRet(t)
  BY <1>6, Zenon DEF RelPurgeNil, RelPurged, RelPurgeErr, RelFail, RelFailedRet
<1>7. CASE RelState(t) \/ RelPoolRet(t) \/ ShutDrained(t) \/ ShutStopAll(t) \/ ShutDrainTimeout(t)
  BY <1>7, Zenon DEF RelState, RelPoolRet, ShutDrained, ShutStopAll, ShutDrainTimeout
<1>8. CASE MgrStep(t)
  BY <1>3, <1>4, <1>5, <1>6, <1>7, <1>8, Zenon DEF MgrStep
<1> QED
  BY <1>1, <1>2, <1>7, <1>8, Zenon DEF Step, PoolInner, InstInner, Deadlines

LEMMA SharedTypesStep ==
    ASSUME SharedTypes, NEW t \in Threads, Step(t)
    PROVE  SharedTypes'
<1>1. CASE UNCHANGED <<mgrShared, sdReturned>>
  BY <1>1, Zenon DEF mgrShared, SharedTypes
<1>2. CASE InitCall(t) \/ InitStore(t) \/ InitPool(t) \/ InitErr(t) \/ InitRollback(t)
  BY <1>2, Zenon DEF InitCall, InitStore, InitPool, InitErr, InitRollback, SharedTypes, States
<1>3. CASE InitReady(t) \/ RelInc(t) \/ RelDec(t)
  BY <1>3, Zenon DEF InitReady, RelInc, RelDec, SharedTypes, States
<1>4. CASE RelSignal(t) \/ ShutLoad(t)
  BY <1>4, Zenon DEF RelSignal, ShutLoad, SharedTypes
<1>5. CASE ShutCall(t) \/ ShutPool(t) \/ ShutReturn(t)
  BY <1>5, Zenon DEF ShutCall, ShutPool, ShutReturn, SharedTypes, States, mgrShared
<1> QED
  BY <1>1, <1>2, <1>3, <1>4, <1>5, SharedSteps, Zenon

LEMMA MgrTypesStep ==
    ASSUME MgrTypes, PoolTypeOK, Link, NEW t \in Threads, Step(t), Move(t)
    PROVE  MgrTypes'
<1>1. ApiTypes'
  <2>1. CASE UNCHANGED apiVars
    BY <2>1, Zenon DEF apiVars, MgrTypes, ApiTypes
  <2>2. CASE GrantMove(t)
    <3>1. minst[t] \in Instances /\ mtok[t] \in Nat
      BY <2>2, Zenon DEF GrantMove, HolderPC, Link, Linked, MgrTypes
    <3> QED
      BY <2>2, <3>1 DEF GrantMove, MgrTypes, ApiTypes
  <2>3. CASE WriteMove(t)
    BY <2>3, Zenon DEF WriteMove, MgrTypes, ApiTypes
  <2>4. CASE TakeMove(t)
    BY <2>4, Zenon DEF TakeMove, MgrTypes, ApiTypes, Held
  <2>5. CASE WipeMove(t)
    BY <2>5, Zenon DEF WipeMove, MgrTypes, ApiTypes
  <2> QED
    BY <2>1, <2>2, <2>3, <2>4, <2>5, ApiUnchanged, Zenon
<1> QED
  BY <1>1, TypesSplit, FrameTypesStep, SharedTypesStep, Zenon

-----------------------------------------------------------------------------
(* The state of the manager.  Initialize, the call of Shutdown, and        *)
(* everything else, which leaves state, pool and initMu alone.             *)
PlainMove(t) ==
    /\ state' = state /\ poolSet' = poolSet /\ initMu' = initMu
    /\ mpc'[t] \in GivingUp => mpc[t] \in GivingUp \/ state = "shuttingDown"
    /\ \/ mpc'[t] = mpc[t]
       \/ mpc[t] \notin InitPC /\ mpc'[t] = "idle"
       \/ mpc[t] \in AcquirePC \cup ReleasePC /\ mpc'[t] \in AcquirePC \cup ReleasePC
       \/ mpc[t] = "idle" /\ poolSet /\ mpc'[t] \in {"aPool", "rToken"}
       \/ /\ mpc[t] \in ShutdownPC /\ mpc'[t] \in ShutdownPC
          /\ poolSet \/ mpc'[t] \in {"sDrain", "sPool"}

Initializing(t) ==
    \/ InitCall(t) /\ state \notin {"ready", "shuttingDown"}
    \/ InitStore(t) \/ InitPool(t) \/ InitErr(t) \/ InitRollback(t) \/ InitReady(t)

LEMMA PlainCalls ==
    ASSUME MgrTypes, PoolFacts, Holders, SetUp, NEW t \in Threads,
           Calls(t) \/ UNCHANGED mgrVars, ~ShutCall(t), ~Initializing(t)
    PROVE  PlainMove(t)
<1>1. CASE UNCHANGED mgrVars
  BY <1>1, Zenon DEF mgrVars, mgrShared, mgrFrame, PlainMove
<1>2. CASE InitCall(t) /\ state \in {"ready", "shuttingDown"}
  BY <1>2, DoneMoves, Zenon DEF InitCall, PlainMove
<1>3. CASE AcqCall(t)
  <2>1. state' = state /\ poolSet' = poolSet /\ initMu' = initMu /\ mpc[t] = "idle"
    BY <1>3, Zenon DEF AcqCall, mgrShared
  <2>2. mpc'[t] = "idle" \/ (state = "ready" /\ mpc'[t] = "aPool")
    BY <1>3, DoneMoves, ToMoves, Zenon DEF AcqCall
  <2>3. state = "ready" => poolSet
    BY Zenon DEF SetUp
  <2> QED
    BY <2>1, <2>2, <2>3, Zenon DEF PlainMove, GivingUp
<1>4. ASSUME NEW w \in issued, Use(t, w) PROVE PlainMove(t)
  BY <1>4, Zenon DEF Use, mgrShared, mgrFrame, PlainMove
<1>5. ASSUME NEW w \in issued, RelCall(t, w) PROVE PlainMove(t)
  <2>1. state' = state /\ poolSet' = poolSet /\ initMu' = initMu /\ mpc[t] = "idle"
    BY <1>5, Zenon DEF RelCall, mgrShared
  <2>2. mpc'[t] = "idle" \/ (w \in Held /\ mpc'[t] = "rToken")
    BY <1>5, DoneMoves, Zenon DEF RelCall, Held, MgrTypes
  <2>3. w \in Held => poolSet
    BY NoPool, Zenon
  <2> QED
    BY <2>1, <2>2, <2>3, Zenon DEF PlainMove, GivingUp
<1> QED
  BY <1>1, <1>2, <1>3, <1>4, <1>5, Zenon DEF Calls, Initializing, InitCall

LEMMA PlainAcquire ==
    ASSUME MgrTypes, PoolFacts, NEW t \in Threads,
           \/ AcqPool(t) \/ AcqPoolRet(t) \/ AcqRecheck(t) \/ AcqStarted(t) \/ AcqStartRet(t)
           \/ AcqFailedRet(t) \/ GiveUp(t) \/ GiveUpStopped(t)
    PROVE  PlainMove(t)
<1>0. ASSUME state' = state, poolSet' = poolSet, initMu' = initMu,
             mpc[t] \in AcquirePC \cup ReleasePC, mpc'[t] \in AcquirePC \cup ReleasePC \cup {"idle"},
             mpc'[t] \in GivingUp => mpc[t] \in GivingUp \/ state = "shuttingDown"
      PROVE  PlainMove(t)
  BY <1>0, Zenon DEF PlainMove, AcquirePC, ReleasePC, InitPC
<1>1. state' = state /\ poolSet' = poolSet /\ initMu' = initMu
  BY Zenon DEF AcqPool, AcqPoolRet, AcqRecheck, AcqStarted, AcqStartRet, AcqFailedRet, GiveUp,
     GiveUpStopped, mgrShared
<1>2. CASE AcqPool(t) \/ AcqPoolRet(t)
  <2>1. mpc[t] \in {"aPool", "aWait"} /\ mpc'[t] \in {"aWait", "aRecheck", "idle"}
    BY <1>2, DoneMoves, ToMoves, Zenon DEF AcqPool, AcqPoolRet, MgrTypes
  <2> QED
    BY <1>0, <1>1, <2>1, Zenon DEF AcquirePC, GivingUp
<1>3. CASE AcqRecheck(t)
  <2>1. mpc[t] = "aRecheck"
        /\ mpc'[t] = IF state = "shuttingDown" THEN "aGiveUp" ELSE "aStarted"
    BY <1>3, ToMoves, Zenon DEF AcqRecheck
  <2> QED
    BY <1>0, <1>1, <2>1, Zenon DEF AcquirePC, GivingUp
<1>4. CASE AcqStarted(t) \/ AcqStartRet(t) \/ AcqFailedRet(t)
  <2>1. mpc[t] \in {"aStarted", "aStarting", "aFailed"} /\ mpc'[t] \in {"aStarting", "aFailed", "idle"}
    BY <1>4, DoneMoves, ToMoves, Zenon DEF AcqStarted, AcqStartRet, AcqFailedRet, HandOut
  <2> QED
    BY <1>0, <1>1, <2>1, Zenon DEF AcquirePC, GivingUp
<1>5. CASE GiveUp(t) \/ GiveUpStopped(t)
  <2>1. /\ mpc[t] \in {"aGiveUp", "rGiveUp", "aStop", "rStop"}
        /\ mpc'[t] \in {"aStop", "rStop", "idle"}
    BY <1>5, DoneMoves, ToMoves, Zenon DEF GiveUp, GiveUpStopped
  <2> QED
    BY <1>0, <1>1, <2>1, Zenon DEF AcquirePC, ReleasePC, GivingUp
<1> QED
  BY <1>2, <1>3, <1>4, <1>5, Zenon

LEMMA PlainRelease ==
    ASSUME MgrTypes, PoolFacts, SetUp, NEW t \in Threads,
           \/ RelToken(t) \/ RelStarted(t) \/ RelPurgeNil(t) \/ RelPurged(t) \/ RelPurgeErr(t)
           \/ RelFail(t) \/ RelFailedRet(t) \/ RelInc(t) \/ RelState(t) \/ RelPoolRet(t)
           \/ RelDec(t) \/ RelSignal(t)
    PROVE  PlainMove(t)
<1>0. ASSUME state' = state, poolSet' = poolSet, initMu' = initMu,
             mpc[t] \in ReleasePC, mpc'[t] \in ReleasePC \cup {"idle"},
             mpc'[t] \in GivingUp => mpc[t] \in GivingUp \/ state = "shuttingDown"
      PROVE  PlainMove(t)
  BY <1>0, Zenon DEF PlainMove, ReleasePC, InitPC
<1>1. state' = state /\ poolSet' = poolSet /\ initMu' = initMu
  BY Zenon DEF RelToken, RelStarted, RelPurgeNil, RelPurged, RelPurgeErr, RelFail, RelFailedRet,
     RelInc, RelState, RelPoolRet, RelDec, RelSignal, mgrShared
<1>2. CASE RelToken(t) \/ RelStarted(t) \/ RelPurgeNil(t)
  <2>1. /\ mpc[t] \in {"rToken", "rStarted", "rPurge"}
        /\ mpc'[t] \in {"rStarted", "rPurge", "rInc", "rFail", "rExec", "idle"}
    BY <1>2, DoneMoves, ToMoves, Zenon DEF RelToken, RelStarted, RelPurgeNil
  <2> QED
    BY <1>0, <1>1, <2>1, Zenon DEF ReleasePC, GivingUp
<1>3. CASE RelPurged(t) \/ RelPurgeErr(t) \/ RelFail(t) \/ RelFailedRet(t)
  <2>1. /\ mpc[t] \in {"rExec", "rFail", "rFailed"}
        /\ mpc'[t] \in {"rInc", "rFail", "rFailed", "idle"}
    BY <1>3, DoneMoves, ToMoves, Zenon DEF RelPurged, RelPurgeErr, RelFail, RelFailedRet
  <2> QED
    BY <1>0, <1>1, <2>1, Zenon DEF ReleasePC, GivingUp
<1>4. CASE RelInc(t) \/ RelPoolRet(t)
  <2>1. mpc[t] \in {"rInc", "rPool"} /\ mpc'[t] \in {"rState", "rDecYes"}
    BY <1>4, ToMoves, Zenon DEF RelInc, RelPoolRet
  <2> QED
    BY <1>0, <1>1, <2>1, Zenon DEF ReleasePC, GivingUp
<1>5. CASE RelState(t)
  <2>1. mpc[t] = "rState" /\ mpc'[t] \in {"rDecNo", "rPool"}
    BY <1>5, ToMoves, Zenon DEF RelState
  <2>2. poolSet
    BY <2>1, Zenon DEF SetUp, InitPC
  <2>3. To(t, "rPool") => mpc'[t] = "rPool"
    BY ToMoves, Zenon
  <2>4. mpc'[t] = "rDecNo" => state = "shuttingDown"
    BY <1>5, <2>2, <2>3, Zenon DEF RelState
  <2> QED
    BY <1>0, <1>1, <2>1, <2>4, Zenon DEF ReleasePC, GivingUp
<1>6. CASE RelDec(t) \/ RelSignal(t)
  <2>1. \/ mpc[t] \in {"rDecYes", "rSigYes"} /\ mpc'[t] \in {"rSigYes", "idle"}
        \/ mpc[t] \in {"rDecNo", "rSigNo"} /\ mpc'[t] \in {"rSigNo", "rGiveUp"}
    BY <1>6, DoneMoves, ToMoves, Zenon DEF RelDec, RelSignal, RelNext
  <2>2. mpc[t] \in ReleasePC /\ mpc'[t] \in ReleasePC \cup {"idle"}
    BY <2>1, Zenon DEF ReleasePC
  <2>3. mpc'[t] \in GivingUp => mpc[t] \in GivingUp
    BY <2>1, Zenon DEF GivingUp
  <2> QED
    BY <1>0, <1>1, <2>2, <2>3, Zenon
<1> QED
  BY <1>2, <1>3, <1>4, <1>5, <1>6, Zenon

LEMMA PlainShutdown ==
    ASSUME MgrTypes, PoolFacts, SetUp, NEW t \in Threads,
           \/ ShutLoad(t) \/ ShutDrained(t) \/ ShutDrainTimeout(t) \/ ShutPool(t)
           \/ ShutStopAll(t) \/ ShutReturn(t)
    PROVE  PlainMove(t)
<1>1. state' = state /\ poolSet' = poolSet /\ initMu' = initMu
  BY Zenon DEF ShutLoad, ShutDrained, ShutDrainTimeout, ShutPool, ShutStopAll, ShutReturn, mgrShared
<1>2. /\ mpc[t] \in ShutdownPC
      /\ mpc'[t] \in {"idle", "sDrain", "sPool"} \/ (poolSet /\ mpc'[t] \in {"sClose", "sStop"})
  <2>1. CASE ShutLoad(t) \/ ShutDrained(t) \/ ShutDrainTimeout(t) \/ ShutReturn(t)
    BY <2>1, DoneMoves, ToMoves, Zenon DEF ShutLoad, ShutDrained, ShutDrainTimeout, ShutReturn,
       ShutdownPC
  <2>2. CASE ShutPool(t)
    BY <2>2, DoneMoves, ToMoves, Zenon DEF ShutPool, ShutdownPC
  <2>3. CASE ShutStopAll(t)
    <3>1. mpc[t] = "sClose" /\ mpc'[t] = "sStop"
      BY <2>3, ToMoves, Zenon DEF ShutStopAll
    <3> QED
      BY <3>1, Zenon DEF SetUp, InitPC, ShutdownPC
  <2> QED
    BY <2>1, <2>2, <2>3, Zenon
<1> QED
  BY <1>1, <1>2, Zenon DEF PlainMove, ShutdownPC, InitPC, GivingUp

LEMMA PlainSteps ==
    ASSUME MgrTypes, PoolFacts, Holders, SetUp, NEW t \in Threads, Step(t)
    PROVE  PlainMove(t) \/ ShutCall(t) \/ Initializing(t)
<1>1. CASE Calls(t) \/ UNCHANGED mgrVars
  BY <1>1, PlainCalls, Zenon
<1>2. CASE MgrStep(t)
  <2>1. CASE GiveUpStop(t) \/ PoolStops(t) \/ PoolStopped(t)
    BY <1>1, <2>1, Zenon DEF GiveUpStop, PoolStops, PoolStopped
  <2> QED
    BY <1>2, <2>1, PlainAcquire, PlainRelease, PlainShutdown, Zenon DEF MgrStep, Initializing
<1>3. CASE Deadlines(t)
  BY <1>1, <1>3, PlainShutdown, Zenon DEF Deadlines
<1> QED
  BY <1>1, <1>2, <1>3, Zenon DEF Step, PoolInner, InstInner

(* The one goroutine inside Initialize.                                    *)
LEMMA OneInitializer ==
    ASSUME MgrTypes, SetUp, NEW t \in Threads, Initializing(t), MgrOthers(t)
    PROVE  /\ \A u \in Threads : u # t => mpc[u] \notin InitPC /\ mpc'[u] = mpc[u]
           /\ InitReady(t) \/ ~poolSet
           /\ InitReady(t) => poolSet
<1>1. CASE InitCall(t) /\ state \notin {"ready", "shuttingDown"}
  <2>1. initMu = NoThread /\ mpc[t] = "idle"
    BY <1>1, Zenon DEF InitCall
  <2>2. \A u \in Threads : mpc[u] \notin InitPC
    BY <2>1, NamesApart, Zenon DEF SetUp
  <2>3. ~poolSet
    BY <1>1, <2>2, Zenon DEF SetUp, InitPC
  <2>4. ~InitReady(t)
    BY <2>1, Zenon DEF InitReady
  <2> QED
    BY <2>2, <2>3, <2>4, Zenon DEF MgrOthers
<1>2. CASE InitStore(t) \/ InitPool(t) \/ InitErr(t) \/ InitRollback(t) \/ InitReady(t)
  <2>1. mpc[t] \in InitPC
    BY <1>2, Zenon DEF InitStore, InitPool, InitErr, InitRollback, InitReady, InitPC
  <2>2. \A u \in Threads : u # t => mpc[u] \notin InitPC
    BY <2>1, Zenon DEF SetUp
  <2>3. InitReady(t) \/ ~poolSet
    BY <1>2, Zenon DEF InitStore, InitPool, InitErr, InitRollback, SetUp
  <2>4. InitReady(t) => poolSet
    BY Zenon DEF InitReady, SetUp
  <2> QED
    BY <2>2, <2>3, <2>4, Zenon DEF MgrOthers
<1> QED
  BY <1>1, <1>2, Zenon DEF Initializing

LEMMA PoolStaysSet ==
    ASSUME MgrTypes, PoolFacts, Holders, SetUp, NEW t \in Threads, Step(t), MgrOthers(t)
    PROVE  poolSet => poolSet'
<1>1. CASE PlainMove(t) \/ ShutCall(t)
  BY <1>1, Zenon DEF PlainMove, ShutCall
<1>2. CASE Initializing(t)
  BY <1>2, OneInitializer, Zenon DEF InitReady
<1> QED
  BY <1>1, <1>2, PlainSteps, Zenon

(* Where Initialize stands after the step.                                 *)
SetUpFrames ==
    /\ \A t \in Threads :
          /\ mpc[t] \in InitPC => initMu = t
          /\ mpc[t] = "iReady" => poolSet
          /\ poolSet => mpc[t] \notin {"iStore", "iDo", "iRollback"}
          /\ ~poolSet => mpc[t] \in {"idle", "sLoad", "sDrain", "sPool"} \cup InitPC
    /\ state = "ready" => poolSet
    /\ poolSet => \/ state \in {"ready", "shuttingDown"}
                  \/ \E t \in Threads : mpc[t] = "iReady"

LEMMA InitUndisturbed ==
    ASSUME MgrTypes, NEW t \in Threads, PlainMove(t) \/ ShutCall(t), MgrOthers(t)
    PROVE  \A u \in Threads : mpc[u] \in InitPC \/ mpc'[u] \in InitPC => mpc'[u] = mpc[u]
<1>1. mpc[t] \in InitPC \/ mpc'[t] \in InitPC => mpc'[t] = mpc[t]
  <2>1. CASE PlainMove(t)
    BY <2>1, Zenon DEF PlainMove, InitPC, AcquirePC, ReleasePC, ShutdownPC
  <2>2. CASE ShutCall(t)
    <3>1. mpc[t] = "idle" /\ mpc'[t] = "sLoad"
      BY <2>2, ToMoves, Zenon DEF ShutCall
    <3> QED
      BY <3>1, Zenon DEF InitPC
  <2> QED
    BY <2>1, <2>2, Zenon
<1> QED
  BY <1>1, Zenon DEF MgrOthers

LEMMA SetUpPlain ==
    ASSUME MgrTypes, SetUpFrames, NEW t \in Threads, PlainMove(t) \/ ShutCall(t), MgrOthers(t)
    PROVE  SetUpFrames'
<1>1. /\ poolSet' = poolSet /\ initMu' = initMu
      /\ state' = state \/ state' = "shuttingDown"
  BY Zenon DEF PlainMove, ShutCall
<1>3. \A u \in Threads : mpc[u] \in InitPC \/ mpc'[u] \in InitPC => mpc'[u] = mpc[u]
  BY InitUndisturbed, Zenon
<1>4. ~poolSet => mpc'[t] \in {"idle", "sLoad", "sDrain", "sPool"} \cup InitPC
  <2>1. CASE PlainMove(t)
    <3>1. ~poolSet => mpc[t] \notin AcquirePC \cup ReleasePC
      BY Zenon DEF SetUpFrames, InitPC, AcquirePC, ReleasePC
    <3> QED
      BY <2>1, <3>1, Zenon DEF PlainMove, SetUpFrames
  <2>2. CASE ShutCall(t)
    BY <2>2, ToMoves, Zenon DEF ShutCall
  <2> QED
    BY <2>1, <2>2, Zenon
<1>5. ASSUME NEW u \in Threads
      PROVE  /\ mpc'[u] \in InitPC => initMu' = u
             /\ mpc'[u] = "iReady" => poolSet'
             /\ poolSet' => mpc'[u] \notin {"iStore", "iDo", "iRollback"}
             /\ ~poolSet' => mpc'[u] \in {"idle", "sLoad", "sDrain", "sPool"} \cup InitPC
  <2>1. CASE mpc'[u] \in InitPC
    BY <1>1, <1>3, <2>1, Zenon DEF SetUpFrames
  <2>2. CASE mpc'[u] \notin InitPC
    <3>1. ~poolSet => mpc'[u] \in {"idle", "sLoad", "sDrain", "sPool"} \cup InitPC
      BY <1>4, Zenon DEF SetUpFrames, MgrOthers
    <3> QED
      BY <1>1, <2>2, <3>1, Zenon DEF InitPC
  <2> QED
    BY <2>1, <2>2, Zenon
<1>6. state' = "ready" => poolSet'
  BY <1>1, Zenon DEF SetUpFrames
<1>7. poolSet' => \/ state' \in {"ready", "shuttingDown"}
                  \/ \E u \in Threads : mpc'[u] = "iReady"
  <2>1. \A u \in Threads : mpc[u] = "iReady" => mpc'[u] = "iReady"
    BY <1>3, Zenon DEF InitPC
  <2> QED
    BY <1>1, <2>1, Zenon DEF SetUpFrames
<1> QED
  BY <1>5, <1>6, <1>7, Zenon DEF SetUpFrames

LEMMA SetUpInitialize ==
    ASSUME MgrTypes, SetUp, NEW t \in Threads, Initializing(t), MgrOthers(t)
    PROVE  SetUpFrames'
<1>1. /\ \A u \in Threads : u # t => mpc[u] \notin InitPC /\ mpc'[u] = mpc[u]
      /\ InitReady(t) \/ ~poolSet
      /\ InitReady(t) => poolSet
  BY OneInitializer, Zenon
<1>2. CASE InitReady(t)
  <2>1. state' = "ready" /\ poolSet' /\ mpc'[t] = "idle"
    BY <1>1, <1>2, DoneMoves, Zenon DEF InitReady
  <2> QED
    BY <1>1, <2>1, Zenon DEF SetUpFrames, InitPC
<1>3. CASE InitPool(t)
  <2>1. poolSet' /\ mpc'[t] = "iReady" /\ initMu' = initMu /\ mpc[t] \in InitPC
    BY <1>3, ToMoves, Zenon DEF InitPool, InitPC
  <2>2. initMu = t
    BY <2>1, Zenon DEF SetUp
  <2> QED
    BY <1>1, <2>1, <2>2, Zenon DEF SetUpFrames, InitPC
<1>4. CASE ~InitReady(t) /\ ~InitPool(t)
  <2>1. ~poolSet' /\ ~poolSet /\ state' # "ready"
    <3>1. state # "ready"
      BY <1>1, <1>4, Zenon DEF SetUp
    <3>2. CASE InitCall(t)
      BY <1>1, <1>4, <3>1, <3>2, Zenon DEF InitCall
    <3>3. CASE InitStore(t) \/ InitRollback(t)
      BY <1>1, <1>4, <3>3 DEF InitStore, InitRollback
    <3>4. CASE InitErr(t)
      BY <1>1, <1>4, <3>1, <3>4 DEF InitErr
    <3> QED
      BY <1>4, <3>2, <3>3, <3>4, Zenon DEF Initializing
  <2>2. mpc'[t] \in {"idle", "iStore", "iDo", "iRollback"}
    BY <1>4, ToMoves, DoneMoves, Zenon DEF Initializing, InitCall, InitStore, InitErr, InitRollback
  <2>3. mpc'[t] # "idle" => initMu' = t
    <3>1. CASE InitCall(t)
      BY <1>4, <3>1, DoneMoves, Zenon DEF InitCall
    <3>2. CASE InitStore(t) \/ InitErr(t)
      BY <3>2, Zenon DEF InitStore, InitErr, SetUp, InitPC
    <3>3. CASE InitRollback(t)
      BY <3>3, DoneMoves, Zenon DEF InitRollback
    <3> QED
      BY <1>4, <3>1, <3>2, <3>3, Zenon DEF Initializing
  <2>4. \A u \in Threads : u # t => mpc'[u] \in {"idle", "sLoad", "sDrain", "sPool"}
    BY <1>1, <2>1, Zenon DEF SetUp
  <2> QED
    BY <2>1, <2>2, <2>3, <2>4, Zenon DEF SetUpFrames, InitPC
<1> QED
  BY <1>2, <1>3, <1>4, Zenon

LEMMA SetUpStep ==
    ASSUME MgrTypes, PoolFacts, Link, Holders, SetUp, NEW t \in Threads, Step(t), Move(t),
           MgrOthers(t)
    PROVE  SetUp'
<1>1. SetUpFrames'
  <2>1. SetUpFrames
    BY Zenon DEF SetUp, SetUpFrames
  <2> QED
    BY <2>1, PlainSteps, SetUpPlain, SetUpInitialize, Zenon
<1>2. ~poolSet' => all' = {}
  <2>1. CASE RegisterMove(t)
    <3>1. mpc[t] = "aWait"
      BY <2>1, Zenon DEF RegisterMove, Link, Linked
    <3>2. poolSet
      BY <3>1, Zenon DEF SetUp, InitPC
    <3> QED
      BY <3>2, PoolStaysSet, Zenon
  <2>2. CASE all' = all
    BY <2>2, PoolStaysSet, Zenon DEF SetUp
  <2> QED
    BY <2>1, <2>2, AllKinds, Zenon
<1> QED
  BY <1>1, <1>2, Zenon DEF SetUp, SetUpFrames

LEMMA InitializePlaces ==
    ASSUME MgrTypes, NEW t \in Threads, Initializing(t)
    PROVE  /\ mpc[t] \in InitPC \/ state \notin {"ready", "shuttingDown"}
           /\ mpc'[t] \in InitPC \cup {"idle"}
           /\ state' = state \/ state' # "shuttingDown"
           /\ sdReturned' = sdReturned
<1>1. CASE InitCall(t) /\ state \notin {"ready", "shuttingDown"}
  BY <1>1, ToMoves, Zenon DEF InitCall, InitPC
<1>2. CASE InitStore(t) \/ InitPool(t) \/ InitErr(t)
  BY <1>2, ToMoves, Zenon DEF InitStore, InitPool, InitErr, InitPC
<1>3. CASE InitRollback(t) \/ InitReady(t)
  BY <1>3, DoneMoves, Zenon DEF InitRollback, InitReady, InitPC
<1> QED
  BY <1>1, <1>2, <1>3, Zenon DEF Initializing

LEMMA FinalStep ==
    ASSUME SerialInit, MgrTypes, PoolFacts, Link, Holders, ClosedOK, SetUp, Final,
           NEW t \in Threads, Step(t), Move(t), MgrOthers(t)
    PROVE  Final'
<1>0. PlainMove(t) \/ ShutCall(t) \/ Initializing(t)
  BY PlainSteps, Zenon
<1>1. state = "shuttingDown" =>
         state' = "shuttingDown" /\ poolSet' = poolSet /\ ~Initializing(t)
  <2>1. state = "shuttingDown" => ~Initializing(t)
    BY InitializePlaces, Zenon DEF Final
  <2> QED
    BY <1>0, <2>1, Zenon DEF PlainMove, ShutCall
<1>2. ASSUME state' = "shuttingDown", NEW u \in Threads, mpc'[u] \in InitPC PROVE FALSE
  <2>1. CASE Initializing(t)
    BY <1>1, <1>2, <2>1, InitializePlaces, Zenon
  <2>2. CASE PlainMove(t)
    <3>1. state = "shuttingDown" /\ mpc[u] \in InitPC
      BY <1>2, <2>2, InitUndisturbed, Zenon DEF PlainMove
    <3> QED
      BY <3>1, Zenon DEF Final
  <2>3. CASE ShutCall(t)
    <3>1. mpc[u] \in InitPC
      BY <1>2, <2>3, InitUndisturbed, Zenon
    <3> QED
      BY <2>3, <3>1, Zenon DEF ShutCall
  <2> QED
    BY <1>0, <2>1, <2>2, <2>3, Zenon
<1>3. ASSUME NEW u \in Threads, mpc'[u] \in ShutdownPC \cup GivingUp PROVE state' = "shuttingDown"
  <2>1. CASE mpc[u] \in ShutdownPC \cup GivingUp
    BY <1>1, <2>1, Zenon DEF Final
  <2>2. CASE u # t
    BY <1>3, <2>1, <2>2, Zenon DEF MgrOthers
  <2>3. CASE u = t /\ PlainMove(t)
    <3>1. CASE mpc'[t] \in GivingUp
      BY <1>1, <2>1, <2>3, <3>1, Zenon DEF PlainMove
    <3>2. CASE mpc'[t] \in ShutdownPC
      <4>1. mpc'[t] \notin AcquirePC \cup ReleasePC \cup {"idle"}
        BY <3>2, Zenon DEF ShutdownPC, AcquirePC, ReleasePC
      <4>2. mpc[t] \in ShutdownPC
        BY <2>3, <3>2, <4>1, Zenon DEF PlainMove, AcquirePC, ReleasePC
      <4> QED
        BY <2>1, <2>3, <4>2, Zenon
    <3> QED
      BY <1>3, <2>3, <3>1, <3>2, Zenon
  <2>4. CASE ShutCall(t)
    BY <2>4, Zenon DEF ShutCall
  <2>5. CASE u = t /\ Initializing(t)
    <3>1. mpc'[t] \in InitPC \cup {"idle"}
      BY <2>5, InitializePlaces, Zenon
    <3> QED
      BY <1>3, <2>5, <3>1, Zenon DEF InitPC, ShutdownPC, GivingUp
  <2> QED
    BY <1>0, <2>2, <2>3, <2>4, <2>5, Zenon
<1>4. closed' \/ lost' # 0 => state' = "shuttingDown"
  <2>1. CASE CloseMove(t)
    <3>1. mpc[t] = "sClose"
      BY <2>1, Zenon DEF CloseMove, Link, Linked
    <3>2. mpc[t] \in ShutdownPC
      BY <3>1, Zenon DEF ShutdownPC
    <3> QED
      BY <1>1, <3>2, Zenon DEF Final
  <2>2. CASE GiveUpMove(t)
    <3>1. mpc[t] \in GivingUp
      BY <2>2, Zenon DEF GiveUpMove, GivingUp
    <3> QED
      BY <1>1, <3>1, Zenon DEF Final
  <2>3. CASE closed' = closed /\ lost' = lost
    BY <1>1, <2>3, Zenon DEF Final
  <2> QED
    BY <2>1, <2>2, <2>3, ClosedKinds, Zenon
<1>5. sdReturned' => state' = "shuttingDown" /\ (closed' \/ ~poolSet')
  <2>1. closed => closed'
    BY PoolGrows, Zenon DEF PoolFacts
  <2>2. CASE sdReturned' = sdReturned
    BY <1>1, <2>1, <2>2, Zenon DEF Final
  <2>3. CASE ShutReturn(t)
    <3>1. mpc[t] = "sStop" /\ mpc[t] \in ShutdownPC
      BY <2>3, Zenon DEF ShutReturn, ShutdownPC
    <3> QED
      BY <1>1, <2>1, <3>1, Zenon DEF Final, ClosedOK
  <2>4. CASE ShutPool(t) /\ ~poolSet
    <3>1. mpc[t] \in ShutdownPC
      BY <2>4, Zenon DEF ShutPool, ShutdownPC
    <3> QED
      BY <1>1, <2>4, <3>1, Zenon DEF Final
  <2>5. CASE ShutPool(t) /\ poolSet
    BY <2>2, <2>5, Zenon DEF ShutPool
  <2>6. CASE UNCHANGED <<mgrShared, sdReturned>>
    BY <2>2, <2>6, Zenon
  <2>7. CASE InitCall(t) \/ RelInc(t) \/ RelDec(t) \/ RelSignal(t) \/ ShutCall(t) \/ ShutLoad(t)
    BY <2>2, <2>7, Zenon DEF InitCall, RelInc, RelDec, RelSignal, ShutCall, ShutLoad
  <2>8. CASE InitStore(t) \/ InitPool(t) \/ InitErr(t) \/ InitRollback(t) \/ InitReady(t)
    BY <2>2, <2>8, Zenon DEF InitStore, InitPool, InitErr, InitRollback, InitReady
  <2> QED
    BY <2>3, <2>4, <2>5, <2>6, <2>7, <2>8, SharedSteps, Zenon
<1> QED
  BY <1>2, <1>3, <1>4, <1>5, Zenon DEF Final

-----------------------------------------------------------------------------
(* The count of releases under way.                                        *)
InTry == {"rState", "rPool", "rDecYes", "rDecNo"}

CountedIn(t) == inflight' = inflight /\ (mpc'[t] \in InTry <=> mpc[t] \in InTry)

LEMMA UncountedSteps ==
    ASSUME MgrTypes, NEW t \in Threads,
           \/ Calls(t) \/ UNCHANGED mgrVars
           \/ InitStore(t) \/ InitPool(t) \/ InitErr(t) \/ InitRollback(t) \/ InitReady(t)
           \/ ShutLoad(t) \/ ShutDrained(t) \/ ShutDrainTimeout(t) \/ ShutPool(t)
           \/ ShutStopAll(t) \/ ShutReturn(t)
    PROVE  CountedIn(t)
<1>0. ASSUME inflight' = inflight, mpc[t] \notin InTry, mpc'[t] \notin InTry PROVE CountedIn(t)
  BY <1>0, Zenon DEF CountedIn
<1>1. CASE UNCHANGED mgrVars
  BY <1>1, Zenon DEF mgrVars, mgrShared, mgrFrame, CountedIn
<1>2. CASE InitCall(t) \/ AcqCall(t) \/ ShutCall(t)
  <2>1. inflight' = inflight /\ mpc[t] = "idle" /\ mpc'[t] \in {"idle", "iStore", "aPool", "sLoad"}
    BY <1>2, ToMoves, DoneMoves, Zenon DEF InitCall, AcqCall, ShutCall, mgrShared
  <2> QED
    BY <1>0, <2>1, Zenon DEF InTry
<1>3. ASSUME NEW w \in issued, Use(t, w) PROVE CountedIn(t)
  BY <1>3, Zenon DEF Use, mgrShared, mgrFrame, CountedIn
<1>4. ASSUME NEW w \in issued, RelCall(t, w) PROVE CountedIn(t)
  <2>1. inflight' = inflight /\ mpc[t] = "idle" /\ mpc'[t] \in {"idle", "rToken"}
    BY <1>4, DoneMoves, Zenon DEF RelCall, mgrShared, MgrTypes
  <2> QED
    BY <1>0, <2>1, Zenon DEF InTry
<1>5. CASE InitStore(t) \/ InitPool(t) \/ InitErr(t) \/ InitRollback(t) \/ InitReady(t)
  <2>1. inflight' = inflight /\ mpc[t] \in InitPC /\ mpc'[t] \in {"idle", "iDo", "iReady", "iRollback"}
    BY <1>5, ToMoves, DoneMoves, Zenon DEF InitStore, InitPool, InitErr, InitRollback, InitReady,
       InitPC
  <2> QED
    BY <1>0, <2>1, Zenon DEF InTry, InitPC
<1>6. CASE \/ ShutLoad(t) \/ ShutDrained(t) \/ ShutDrainTimeout(t) \/ ShutPool(t)
           \/ ShutStopAll(t) \/ ShutReturn(t)
  <2>1. inflight' = inflight
    BY <1>6, Zenon DEF ShutLoad, ShutDrained, ShutDrainTimeout, ShutPool, ShutStopAll, ShutReturn,
       mgrShared
  <2>2. mpc[t] \in ShutdownPC /\ mpc'[t] \in {"idle", "sDrain", "sPool", "sClose", "sStop"}
    BY <1>6, ToMoves, DoneMoves, Zenon DEF ShutLoad, ShutDrained, ShutDrainTimeout, ShutPool,
       ShutStopAll, ShutReturn, ShutdownPC
  <2> QED
    BY <1>0, <2>1, <2>2, Zenon DEF InTry, ShutdownPC
<1> QED
  BY <1>1, <1>2, <1>3, <1>4, <1>5, <1>6, Zenon DEF Calls

LEMMA CountedSteps ==
    ASSUME MgrTypes, NEW t \in Threads, MgrStep(t), ~RelInc(t), ~RelDec(t)
    PROVE  CountedIn(t)
<1>0. ASSUME inflight' = inflight, mpc[t] \notin InTry, mpc'[t] \notin InTry PROVE CountedIn(t)
  BY <1>0, Zenon DEF CountedIn
<1>1. CASE GiveUpStop(t) \/ PoolStops(t) \/ PoolStopped(t)
  BY <1>1, UncountedSteps, Zenon DEF GiveUpStop, PoolStops, PoolStopped
<1>2. CASE \/ AcqPool(t) \/ AcqPoolRet(t) \/ AcqRecheck(t) \/ AcqStarted(t) \/ AcqStartRet(t)
           \/ AcqFailedRet(t)
  <2>1. inflight' = inflight
    BY <1>2, Zenon DEF AcqPool, AcqPoolRet, AcqRecheck, AcqStarted, AcqStartRet, AcqFailedRet, mgrShared
  <2>2. mpc[t] \in AcquirePC
    BY <1>2, Zenon DEF AcqPool, AcqPoolRet, AcqRecheck, AcqStarted, AcqStartRet, AcqFailedRet, AcquirePC
  <2>3. CASE AcqRecheck(t)
    <3>1. mpc'[t] \in {"aGiveUp", "aStarted"}
      BY <2>3, ToMoves, Zenon DEF AcqRecheck
    <3> QED
      BY <1>0, <2>1, <2>2, <3>1, Zenon DEF InTry, AcquirePC
  <2>4. CASE ~AcqRecheck(t)
    <3>1. mpc'[t] \in {"idle", "aWait", "aRecheck", "aStarting", "aFailed"}
      BY <1>2, <2>4, ToMoves, DoneMoves, Zenon DEF AcqPool, AcqPoolRet, AcqStarted, AcqStartRet,
         AcqFailedRet, HandOut, MgrTypes
    <3> QED
      BY <1>0, <2>1, <2>2, <3>1, Zenon DEF InTry, AcquirePC
  <2> QED
    BY <2>3, <2>4, Zenon
<1>3. CASE GiveUp(t) \/ GiveUpStopped(t)
  <2>1. /\ inflight' = inflight
        /\ mpc[t] \in {"aGiveUp", "rGiveUp", "aStop", "rStop"}
        /\ mpc'[t] \in {"aStop", "rStop", "idle"}
    BY <1>3, DoneMoves, ToMoves, Zenon DEF GiveUp, GiveUpStopped, mgrShared
  <2> QED
    BY <1>0, <2>1, Zenon DEF InTry
<1>4. CASE \/ RelToken(t) \/ RelStarted(t) \/ RelPurgeNil(t) \/ RelPurged(t) \/ RelPurgeErr(t)
  <2>1. inflight' = inflight /\ mpc[t] \in {"rToken", "rStarted", "rPurge", "rExec"}
    BY <1>4, Zenon DEF RelToken, RelStarted, RelPurgeNil, RelPurged, RelPurgeErr, mgrShared
  <2>2. mpc'[t] \in {"rStarted", "rPurge", "rInc", "rFail", "rExec", "idle"}
    BY <1>4, DoneMoves, ToMoves, Zenon DEF RelToken, RelStarted, RelPurgeNil, RelPurged, RelPurgeErr
  <2> QED
    BY <1>0, <2>1, <2>2, Zenon DEF InTry
<1>5. CASE RelFail(t) \/ RelFailedRet(t) \/ RelSignal(t)
  <2>1. /\ inflight' = inflight /\ mpc[t] \in {"rFail", "rFailed", "rSigYes", "rSigNo"}
        /\ mpc'[t] \in {"rFailed", "rGiveUp", "idle"}
    BY <1>5, DoneMoves, ToMoves, Zenon DEF RelFail, RelFailedRet, RelSignal, RelNext, mgrShared
  <2> QED
    BY <1>0, <2>1, Zenon DEF InTry
<1>6. CASE RelState(t) \/ RelPoolRet(t)
  <2>1. /\ inflight' = inflight /\ mpc[t] \in {"rState", "rPool"}
        /\ mpc'[t] \in {"rPool", "rDecYes", "rDecNo"}
    BY <1>6, ToMoves, Zenon DEF RelState, RelPoolRet, mgrShared
  <2> QED
    BY <2>1, Zenon DEF CountedIn, InTry
<1> QED
  BY <1>1, <1>2, <1>3, <1>4, <1>5, <1>6, UncountedSteps, Zenon DEF MgrStep

LEMMA InflightKinds ==
    ASSUME MgrTypes, NEW t \in Threads, Step(t), MgrOthers(t)
    PROVE  /\ Releasing' \ {t} = Releasing \ {t}
           /\ \/ inflight' = inflight /\ (t \in Releasing' <=> t \in Releasing)
              \/ inflight' = inflight + 1 /\ t \notin Releasing /\ t \in Releasing'
              \/ inflight' = inflight - 1 /\ t \in Releasing /\ t \notin Releasing'
<1>1. \A u \in Threads : (u \in Releasing <=> mpc[u] \in InTry)
                         /\ (u \in Releasing' <=> mpc'[u] \in InTry)
  BY Zenon DEF Releasing, InTry
<1>2. Releasing' \ {t} = Releasing \ {t}
  BY Zenon DEF Releasing, MgrOthers
<1>3. CASE CountedIn(t)
  BY <1>1, <1>2, <1>3, Zenon DEF CountedIn
<1>4. CASE RelInc(t)
  <2>1. inflight' = inflight + 1 /\ mpc[t] \notin InTry /\ mpc'[t] \in InTry
    BY <1>4, ToMoves, Zenon DEF RelInc, InTry
  <2> QED
    BY <1>1, <1>2, <2>1, Zenon
<1>5. CASE RelDec(t)
  <2>1. inflight' = inflight - 1 /\ mpc[t] \in InTry
    BY <1>5, Zenon DEF RelDec, InTry
  <2>2. mpc'[t] \in {"rSigYes", "rSigNo", "rGiveUp", "idle"}
    BY <1>5, ToMoves, DoneMoves, Zenon DEF RelDec, RelNext
  <2>3. mpc'[t] \notin InTry
    BY <2>2, Zenon DEF InTry
  <2> QED
    BY <1>1, <1>2, <2>1, <2>3, Zenon
<1> QED
  BY <1>3, <1>4, <1>5, UncountedSteps, CountedSteps, Zenon
     DEF Step, PoolInner, InstInner, Deadlines

LEMMA MgrInitially ==
    ASSUME Init
    PROVE  MgrInv /\ Final /\ Releasing = {}
<1>1. MgrTypes
  <2>1. /\ state \in States /\ poolSet \in BOOLEAN /\ inflightDone \in BOOLEAN /\ sdReturned \in BOOLEAN
        /\ initMu \in Threads \cup {NoThread} /\ released \subseteq issued
        /\ issued \subseteq Instances \X Nat
    BY Zenon DEF Init, States
  <2>2. dirty \in [Instances -> BOOLEAN] /\ minst \in [Threads -> Instances \cup {NoInst}]
    BY Zenon DEF Init
  <2>3. mtok \in [Threads -> Nat]
    BY SMT DEF Init
  <2>4. mpc \in [Threads -> MgrPC]
    BY MgrPlaces, Zenon DEF Init
  <2> QED
    BY <2>1, <2>2, <2>3, <2>4, Zenon DEF MgrTypes
<1>2. /\ issued = {} /\ released = {} /\ Held = {}
      /\ state = "created" /\ poolSet = FALSE /\ sdReturned = FALSE
      /\ closed = FALSE /\ lost = 0 /\ all = {} /\ free = <<>>
  BY Zenon DEF Init, PoolInit, Held
<1>3. \A t \in Threads : mpc[t] = "idle" /\ ppc[t] = "idle" /\ spc[t] = "no"
                         /\ \A i \in Instances : xpc[<<t, i>>] = "no"
  BY SMT DEF Init, PoolInit, InstInit
<1>4. \A i \in Instances : gen[i] = 0 /\ stack[i] = None /\ running[i] = {} /\ dirty[i] = FALSE
  BY SMT DEF Init, PoolInit, InstInit
<1>5. \A i \in Instances : ~IsBusy(i)
  BY <1>4, SMT DEF IsBusy
<1>6. \A t \in Threads : ~Presents(t) /\ \A i \in Instances : ~Ending(t, i) /\ ~Coming(t, i)
  BY <1>3, Zenon DEF Presents, Ending, Coming, StopCalls, StopPC, Granting
<1>7. \A t \in Threads, i \in Instances, k \in Nat : ~Has(t, i, k)
  BY <1>3, <1>6, Zenon DEF Has, HolderPC
<1>8. Link
  <2>1. ASSUME NEW t \in Threads PROVE Linked(t)
    BY <1>3, <1>6, Zenon DEF Linked, HolderPC, StopCalls
  <2> QED
    BY <2>1, Zenon DEF Link
<1>9. Holders
  BY <1>2, <1>5, <1>7, Zenon DEF Holders, HeldOK, HasOK, BusyHeld, NewTokens
<1>10. StopsGone
  BY <1>3, <1>6, Zenon DEF StopsGone
<1>11. ClosedOK
  BY <1>2, <1>3, Zenon DEF ClosedOK
<1>12. OneStack
  BY <1>4, Zenon DEF OneStack
<1>13. StartedHeld
  BY <1>2, <1>3, Zenon DEF StartedHeld
<1>14. Clean
  BY <1>4, Zenon DEF Clean
<1>15. Accounted
  BY <1>3, <1>4, <1>6, Zenon DEF Accounted
<1>16. SetUp
  BY <1>2, <1>3, Zenon DEF SetUp, InitPC
<1>17. Final
  BY <1>2, <1>3, Zenon DEF Final, InitPC, ShutdownPC, GivingUp
<1>18. Releasing = {}
  BY <1>3, Zenon DEF Releasing
<1> QED
  BY <1>1, <1>8, <1>9, <1>10, <1>11, <1>12, <1>13, <1>14, <1>15, <1>16, <1>17, <1>18, Zenon DEF MgrInv

-----------------------------------------------------------------------------
(* What the invariant says.  With no call under way nobody is inside the   *)
(* pool or an instance.                                                    *)
LEMMA IdleFrames ==
    ASSUME Link, Idle, NEW t \in Threads
    PROVE  /\ mpc[t] = "idle" /\ ppc[t] = "idle" /\ spc[t] = "no"
           /\ \A i \in Instances :
                 /\ xpc[<<t, i>>] = "no" /\ ~InCharge(t, i)
                 /\ \A k \in Nat : ~Has(t, i, k)
<1>1. mpc[t] = "idle" /\ Linked(t)
  BY Zenon DEF Idle, Link
<1>2. ppc[t] = "idle" /\ spc[t] = "no"
  BY <1>1, Zenon DEF Linked, PoolCalls
<1>3. ASSUME NEW i \in Instances PROVE ~Ending(t, i) /\ ~InHand(t, i) /\ xpc[<<t, i>>] = "no"
  BY <1>1, <1>2, Zenon DEF Linked, Ending, InHand, StopCalls, StopPC, LivePC
<1>4. ASSUME NEW i \in Instances PROVE ~InCharge(t, i)
  BY <1>1, <1>3, Zenon DEF InCharge
<1>5. ASSUME NEW i \in Instances, NEW k \in Nat PROVE ~Has(t, i, k)
  BY <1>1, <1>2, Zenon DEF Has, Presents, HolderPC
<1> QED
  BY <1>1, <1>2, <1>3, <1>4, <1>5, Zenon

(* The holder of an instance is the only one.                              *)
LEMMA HoldersOne ==
    ASSUME MgrTypes, Link, Holders
    PROVE  OneHolder
<1>1. HeldOK /\ HasOK
  BY Zenon DEF Holders
<1>2. ASSUME NEW t \in Threads, mpc[t] \in HolderPC
      PROVE  minst[t] \in Instances /\ mtok[t] \in Nat /\ Has(t, minst[t], mtok[t])
  BY <1>2, Zenon DEF MgrTypes, Link, Linked, Has
<1>3. ASSUME NEW t \in Threads, mpc[t] \in HolderPC
      PROVE  gen[minst[t]] = mtok[t] /\ ~Wrapped(minst[t])
  BY <1>1, <1>2, <1>3, Zenon DEF HasOK
<1>4. ASSUME NEW t \in Threads, mpc[t] \in HolderPC PROVE <<minst[t], mtok[t]>> \notin Held
  BY <1>3, <1>4, SMT DEF Wrapped
<1>5. ASSUME NEW t \in Threads, NEW u \in Threads, mpc[t] \in HolderPC, mpc[u] \in HolderPC,
             minst[u] = minst[t]
      PROVE  u = t
  <2>1. mtok[u] = mtok[t]
    BY <1>3, <1>5, Zenon
  <2>2. Has(t, minst[t], mtok[t]) /\ Has(u, minst[t], mtok[t])
    BY <1>2, <1>5, <2>1, Zenon
  <2> QED
    BY <1>1, <1>2, <1>5, <2>2, Zenon DEF HasOK
<1> QED
  BY <1>1, <1>3, <1>4, <1>5, Zenon DEF OneHolder, HeldOK

(* What is left running after Shutdown has an owner.                       *)
LEMMA NothingLeft ==
    ASSUME MgrInv, InstInv, PoolTypeOK, Final
    PROVE  ShutdownLeavesNothing
<1>1. SUFFICES ASSUME sdReturned, Idle, NEW i \in Instances,
                      running[i] # {} \/ openH[i] # {}
               PROVE  \E w \in Held : w[1] = i
  BY Zenon DEF ShutdownLeavesNothing
<1>2. Link /\ BusyHeld /\ ClosedOK /\ Accounted /\ SetUp
  BY Zenon DEF MgrInv, Holders
<1>3. InstTypeOK /\ FramesOK /\ Owned(i) /\ Complete(i)
  BY <1>1, Zenon DEF InstInv
<1>4. gen[i] \in Nat
  BY <1>1, Zenon DEF PoolTypeOK
<1>5. \A s \in running[i] \cup openH[i] : s # None
  <2>1. running[i] \subseteq Stacks /\ openH[i] \subseteq Stacks
    BY <1>3, Zenon DEF InstTypeOK
  <2> QED
    BY <2>1, StacksAssumption, SMT DEF None
<1>6. stack[i] # None
  <2>1. \A t \in Threads :
           /\ spc[t] = "no" /\ xpc[<<t, i>>] = "no"
           /\ sref[t] = None /\ xstack[<<t, i>>] = None /\ xpurge[<<t, i>>] = None
    BY <1>1, <1>2, <1>3, IdleFrames, SMT DEF FramesOK
  <2>2. \A s \in running[i] : stack[i] = s
    BY <1>3, <1>5, <2>1, Zenon DEF Owned
  <2>3. \A h \in openH[i] : purge[i] = h
    <3>1. \A h \in openH[i] : purge[i] = h \/ \E t \in Threads : xpurge[<<t, i>>] = h
      BY <1>3, Zenon DEF Complete
    <3> QED
      BY <1>5, <2>1, <3>1, Zenon
  <2>4. CASE running[i] # {}
    BY <1>5, <2>2, <2>4, Zenon
  <2>5. CASE openH[i] # {}
    BY <1>3, <1>5, <2>3, <2>5, Zenon DEF Complete
  <2> QED
    BY <1>1, <2>4, <2>5, Zenon
<1>7. i \in all /\ (OnStack(i) \/ IsBusy(i))
  BY <1>1, <1>2, <1>6, IdleFrames, Zenon DEF Accounted
<1>8. closed
  BY <1>1, <1>2, <1>7, Zenon DEF Final, SetUp
<1>9. ~OnStack(i)
  BY <1>2, <1>8, SMT DEF ClosedOK, OnStack
<1> QED
  BY <1>1, <1>2, <1>4, <1>7, <1>9, IdleFrames, Zenon DEF BusyHeld, Wrapped

(* Only Initialize stores another state over Shutdown's.                   *)
LEMMA ShutdownStays ==
    ASSUME MgrTypes, PoolFacts, Holders, SetUp, Final, NEW t \in Threads, Step(t),
           state = "shuttingDown"
    PROVE  state' = "shuttingDown"
<1>1. PlainMove(t) \/ ShutCall(t) \/ Initializing(t)
  BY PlainSteps, Zenon
<1>2. CASE PlainMove(t)
  BY <1>2, Zenon DEF PlainMove
<1>3. CASE ShutCall(t)
  BY <1>3, Zenon DEF ShutCall
<1>4. CASE Initializing(t)
  BY <1>4, InitializePlaces, Zenon DEF Final, Initializing
<1> QED
  BY <1>1, <1>2, <1>3, <1>4, Zenon

-----------------------------------------------------------------------------
(* The tokens in use are tokens of Lease.                                  *)
TokensFit == \A i \in Instances : IsBusy(i) => gen[i] <= 2 * MaxAcquires

(* The wrappers are leases.  Acquire's are granted ...                     *)
LEMMA GrantMaps ==
    ASSUME MgrInv, TokensFit, NEW t \in Threads, GrantMove(t)
    PROVE  L!LeaseNext
<1> DEFINE i == minst[t]
           k == mtok[t]
<1>1. MgrTypes /\ Link /\ HasOK /\ NewTokens /\ Clean
  BY Zenon DEF MgrInv, Holders
<1>2. mpc[t] \in HolderPC /\ Coming(t, i)
  BY Zenon DEF GrantMove, HolderPC, Coming, Granting
<1>3. i \in Instances /\ k \in Nat /\ gen[i] = k /\ IsBusy(i) /\ ~Wrapped(i)
  BY <1>1, <1>2, HolderCurrent, Zenon
<1>4. \A w \in issued : w[1] = i => w[2] < k
  BY <1>1, <1>2, <1>3, Zenon DEF NewTokens
<1>5. ~dirty[i]
  BY <1>1, <1>2, <1>3, Zenon DEF Clean, Secluded
<1>6. k \in 1 .. 2 * MaxAcquires
  <2>1. k <= 2 * MaxAcquires
    BY <1>3, Zenon DEF TokensFit
  <2>2. k % 2 = 1
    BY <1>3, Zenon DEF IsBusy
  <2>3. k # 0
    BY <2>2, SMT
  <2> HIDE DEF k
  <2> QED
    BY <1>3, <2>1, <2>3, MaxAcquiresAssumption, SMT
<1>7. released \subseteq issued /\ issued' = issued \cup {<<i, k>>} /\ UNCHANGED <<released, dirty>>
  BY <1>1, Zenon DEF MgrTypes, GrantMove
<1>8. <<i, k>> \notin issued
  <2>1. SUFFICES ASSUME <<i, k>> \in issued PROVE FALSE
    OBVIOUS
  <2>2. k < k
    BY <1>4, <2>1, SMT
  <2> HIDE DEF k
  <2> QED
    BY <1>3, <2>2, SMT
<1>9. Held' = Held \cup {<<i, k>>}
  BY <1>7, <1>8, Zenon DEF Held
<1>10. ~L!Leased(i)
  BY <1>3, Zenon DEF Wrapped, L!Leased
<1>11. \A p \in released : p[1] = i => p[2] < k
  BY <1>4, <1>7, Zenon
<1> HIDE DEF i, k
<1>12. L!Grant(i, k)
  BY <1>5, <1>7, <1>9, <1>10, <1>11, Zenon DEF L!Grant
<1> QED
  BY <1>3, <1>6, <1>12, Zenon DEF L!LeaseNext

(* ... the caller writes, Release gives them back, and the purge wipes.    *)
LEMMA WriteMaps ==
    ASSUME MgrInv, NEW t \in Threads, WriteMove(t)
    PROVE  L!LeaseNext
<1>1. PICK w \in Held : dirty' = [dirty EXCEPT ![w[1]] = TRUE]
  BY Zenon DEF WriteMove
<1>2. w[1] \in Instances
  BY <1>1, SMT DEF MgrInv, MgrTypes, Held
<1>3. issued' = issued /\ released' = released /\ Held' = Held
  BY Zenon DEF WriteMove, Held
<1>4. L!Leased(w[1])
  BY <1>1, Zenon DEF L!Leased
<1>5. dirty' \in {[dirty EXCEPT ![w[1]] = d] : d \in BOOLEAN}
  BY <1>1, Zenon
<1>6. L!Write(w[1])
  BY <1>3, <1>4, <1>5, Zenon DEF L!Write
<1> QED
  BY <1>2, <1>6, Zenon DEF L!LeaseNext

LEMMA TakeMaps ==
    ASSUME MgrInv, NEW t \in Threads, TakeMove(t)
    PROVE  L!LeaseNext
<1>1. PICK w \in Held : released' = released \cup {w}
  BY Zenon DEF TakeMove
<1>2. UNCHANGED <<issued, dirty>>
  BY Zenon DEF TakeMove
<1>3. Held' = Held \ {w}
  BY <1>1, <1>2, Zenon DEF Held
<1>4. L!GiveBack(w)
  BY <1>1, <1>2, <1>3, Zenon DEF L!GiveBack
<1> QED
  BY <1>1, <1>4, Zenon DEF L!LeaseNext

LEMMA WipeMaps ==
    ASSUME MgrInv, NEW t \in Threads, WipeMove(t)
    PROVE  L!LeaseNext
<1>1. MgrTypes /\ Link /\ HasOK /\ mpc[t] \in HolderPC
  BY Zenon DEF MgrInv, Holders, WipeMove, HolderPC
<1>2. minst[t] \in Instances /\ ~Wrapped(minst[t])
  BY <1>1, HolderCurrent, Zenon
<1>3. ~L!Leased(minst[t])
  BY <1>2, Zenon DEF Wrapped, L!Leased
<1>4. Held' = Held /\ released' = released /\ dirty' = [dirty EXCEPT ![minst[t]] = FALSE]
  BY Zenon DEF WipeMove, Held
<1>5. L!Wipe(minst[t])
  BY <1>3, <1>4, Zenon DEF L!Wipe
<1> QED
  BY <1>2, <1>5, Zenon DEF L!LeaseNext

LEMMA MoveMaps ==
    ASSUME MgrInv, TokensFit, NEW t \in Threads, Move(t)
    PROVE  L!LeaseNext \/ UNCHANGED L!leaseVars
<1>1. ASSUME UNCHANGED apiVars PROVE UNCHANGED L!leaseVars
  BY <1>1, Zenon DEF apiVars, Held, L!leaseVars
<1>2. UNCHANGED apiVars \/ GrantMove(t) \/ WriteMove(t) \/ TakeMove(t) \/ WipeMove(t)
  BY ApiUnchanged, Zenon
<1> QED
  BY <1>1, <1>2, GrantMaps, WriteMaps, TakeMaps, WipeMaps, Zenon

LEMMA StutterMaps == UNCHANGED vars => UNCHANGED L!leaseVars
  BY Zenon DEF vars, mgrVars, apiVars, Held, L!leaseVars

LEMMA InitMaps == Init => L!LeaseInit
  BY Zenon DEF Init, Held, L!LeaseInit

=============================================================================
