------------------------------ MODULE Manager ------------------------------
(***************************************************************************)
(* internal/core/manager.go composed with the pool and the instances, seen *)
(* through the public API of k8senv.go.                                    *)
(*                                                                         *)
(* Goroutines call Initialize, Acquire, Release and Shutdown.  A call into *)
(* the pool or into an instance is the matching action of module Pool or   *)
(* Instance conjoined with the step of the manager, and the goroutine goes *)
(* on here when the frame there has returned, so that pool and instances   *)
(* change only by actions of those modules.                                *)
(***************************************************************************)
EXTENDS ManagerState

Init ==
    /\ PoolInit
    /\ InstInit
    /\ state = "created"
    /\ poolSet = FALSE
    /\ inflight = 0
    /\ inflightDone = FALSE
    /\ initMu = NoThread
    /\ issued = {}
    /\ released = {}
    /\ dirty = [i \in Instances |-> FALSE]
    /\ sdReturned = FALSE
    /\ mpc = [t \in Threads |-> "idle"]
    /\ minst = [t \in Threads |-> NoInst]
    /\ mtok = [t \in Threads |-> 0]

To(t, place) ==
    /\ mpc' = [mpc EXCEPT ![t] = place]
    /\ UNCHANGED <<minst, mtok>>

(* The API call of t returns.                                              *)
Done(t) ==
    /\ mpc' = [mpc EXCEPT ![t] = "idle"]
    /\ minst' = [minst EXCEPT ![t] = NoInst]
    /\ mtok' = [mtok EXCEPT ![t] = 0]

-----------------------------------------------------------------------------
(* Initialize: initMu is held until the call returns.                      *)
InitCall(t) ==
    /\ t \in Starters
    /\ mpc[t] = "idle"
    /\ initMu = NoThread
    /\ IF state \in {"ready", "shuttingDown"}
       THEN Done(t) /\ UNCHANGED initMu
       ELSE To(t, "iStore") /\ initMu' = t
    /\ UNCHANGED <<state, poolSet, inflight, inflightDone, apiVars, sdReturned,
                   poolVars, instVars>>

InitStore(t) ==
    /\ mpc[t] = "iStore"
    /\ state' = "initializing"
    /\ To(t, "iDo")
    /\ UNCHANGED <<poolSet, inflight, inflightDone, initMu, apiVars, sdReturned,
                   poolVars, instVars>>

(* doInitialize stores the new pool as its last step.                      *)
InitPool(t) ==
    /\ mpc[t] = "iDo"
    /\ poolSet' = TRUE
    /\ To(t, "iReady")
    /\ UNCHANGED <<state, inflight, inflightDone, initMu, apiVars, sdReturned,
                   poolVars, instVars>>

(* doInitialize fails before that (base directory, CRD cache), so the loop *)
(* that stops the instances of a partial pool has none to stop.            *)
InitErr(t) ==
    /\ mpc[t] = "iDo"
    /\ poolSet' = FALSE
    /\ To(t, "iRollback")
    /\ UNCHANGED <<state, inflight, inflightDone, initMu, apiVars, sdReturned,
                   poolVars, instVars>>

InitRollback(t) ==
    /\ mpc[t] = "iRollback"
    /\ state' = "created"
    /\ initMu' = NoThread
    /\ Done(t)
    /\ UNCHANGED <<poolSet, inflight, inflightDone, apiVars, sdReturned,
                   poolVars, instVars>>

InitReady(t) ==
    /\ mpc[t] = "iReady"
    /\ state' = "ready"
    /\ initMu' = NoThread
    /\ Done(t)
    /\ UNCHANGED <<poolSet, inflight, inflightDone, apiVars, sdReturned,
                   poolVars, instVars>>

-----------------------------------------------------------------------------
(* Bound: the pool's limit on calls of Acquire, looked at before one is    *)
(* begun, so that none is cut off by it.                                   *)
CallsLeft == calls + Cardinality({t \in Threads : mpc[t] = "aPool"}) < MaxAcquires

(* Acquire starts with a look at the state.                                *)
AcqCall(t) ==
    /\ t \in Clients
    /\ mpc[t] = "idle"
    /\ IF state = "ready" THEN CallsLeft /\ To(t, "aPool") ELSE Done(t)
    /\ UNCHANGED <<mgrShared, apiVars, sdReturned, poolVars, instVars>>

AcqPool(t) ==
    /\ mpc[t] = "aPool"
    /\ IF poolSet
       THEN AcquireCall(t) /\ To(t, "aWait")
       ELSE Done(t) /\ UNCHANGED poolVars
    /\ UNCHANGED <<mgrShared, apiVars, sdReturned, instVars>>

AcqPoolRet(t) ==
    /\ mpc[t] = "aWait"
    /\ PoolConsume(t)
    /\ IF pret[t] = "ok"
       THEN /\ mpc' = [mpc EXCEPT ![t] = "aRecheck"]
            /\ minst' = [minst EXCEPT ![t] = pinst[t]]
            /\ mtok' = [mtok EXCEPT ![t] = ptok[t]]
       ELSE Done(t)
    /\ UNCHANGED <<mgrShared, apiVars, sdReturned, instVars>>

(* Shutdown may have begun while the pool was waited for.                  *)
AcqRecheck(t) ==
    /\ mpc[t] = "aRecheck"
    /\ To(t, IF state = "shuttingDown" THEN "aGiveUp" ELSE "aStarted")
    /\ UNCHANGED <<mgrShared, apiVars, sdReturned, poolVars, instVars>>

HandOut(t) ==
    /\ issued' = issued \cup {<<minst[t], mtok[t]>>}
    /\ Done(t)
    /\ UNCHANGED <<released, dirty>>

(* A running instance is handed out, another one is started first.         *)
AcqStarted(t) ==
    /\ mpc[t] = "aStarted"
    /\ IF started[minst[t]]
       THEN HandOut(t) /\ UNCHANGED instVars
       ELSE StartCall(t, minst[t]) /\ To(t, "aStarting") /\ UNCHANGED apiVars
    /\ UNCHANGED <<mgrShared, sdReturned, poolVars>>

\* Fault: a failed start returns its error without ReleaseFailed.
AcqStartRet_Leak(t) ==
    /\ mpc[t] = "aStarting"
    /\ StartConsume(t)
    /\ IF sok[t] THEN HandOut(t) ELSE Done(t) /\ UNCHANGED apiVars
    /\ UNCHANGED <<mgrShared, sdReturned, poolVars>>

(* The start succeeds, or the instance goes to ReleaseFailed.              *)
AcqStartRet(t) ==
    /\ mpc[t] = "aStarting"
    /\ StartConsume(t)
    /\ IF sok[t]
       THEN HandOut(t) /\ UNCHANGED poolVars
       ELSE /\ ReleaseCall(t, minst[t], mtok[t], "fail")
            /\ To(t, "aFailed")
            /\ UNCHANGED apiVars
    /\ UNCHANGED <<mgrShared, sdReturned>>

AcqFailedRet(t) ==
    /\ mpc[t] = "aFailed"
    /\ PoolConsume(t)
    /\ Done(t)
    /\ UNCHANGED <<mgrShared, apiVars, sdReturned, instVars>>

-----------------------------------------------------------------------------
\* Fault: the instance is given up and left to Shutdown to stop.
GiveUp_NoStop(t) ==
    /\ mpc[t] \in {"aGiveUp", "rGiveUp"}
    /\ Abandon(t, minst[t], mtok[t])
    /\ Done(t)
    /\ UNCHANGED <<mgrShared, apiVars, sdReturned, instVars>>

(* stopInstanceDuringShutdown, from Acquire or from ReleaseToPool: release *)
(* the token without the slot, then stop the instance.                     *)
GiveUp(t) ==
    /\ mpc[t] \in {"aGiveUp", "rGiveUp"}
    /\ Abandon(t, minst[t], mtok[t])
    /\ To(t, IF mpc[t] = "aGiveUp" THEN "aStop" ELSE "rStop")
    /\ UNCHANGED <<mgrShared, apiVars, sdReturned, instVars>>

GiveUpStop(t) ==
    /\ mpc[t] \in {"aStop", "rStop"}
    /\ StopCall(t, {minst[t]})
    /\ UNCHANGED <<mgrVars, poolVars>>

GiveUpStopped(t) ==
    /\ mpc[t] \in {"aStop", "rStop"}
    /\ xpc[<<t, minst[t]>>] = "done"
    /\ StopConsume(t)
    /\ Done(t)
    /\ UNCHANGED <<mgrShared, apiVars, sdReturned, poolVars>>

(* stopInstanceBestEffort, from inside a Pool method.                      *)
PoolStops(t) ==
    /\ ppc[t] \in StopPC
    /\ StopCall(t, {pinst[t]})
    /\ UNCHANGED <<mgrVars, poolVars>>

PoolStopped(t) ==
    /\ ppc[t] \in StopPC
    /\ xpc[<<t, pinst[t]>>] = "done"
    /\ StopConsume(t)
    /\ PoolStopDone(t)
    /\ UNCHANGED mgrVars

-----------------------------------------------------------------------------
(* Between Acquire and Release the holder writes through the API server.   *)
Use(t, w) ==
    /\ t \in Clients
    /\ mpc[t] = "idle"
    /\ w \in issued \ released
    /\ started[w[1]]
    /\ ~dirty[w[1]]
    /\ dirty' = [dirty EXCEPT ![w[1]] = TRUE]
    /\ UNCHANGED <<mgrShared, issued, released, sdReturned, mgrFrame, poolVars,
                   instVars>>

\* Fault: the wrapper's released flag is set and not looked at.
RelCall_Unguarded(t, w) ==
    /\ t \in Clients
    /\ mpc[t] = "idle"
    /\ w \in issued
    /\ released' = released \cup {w}
    /\ mpc' = [mpc EXCEPT ![t] = "rToken"]
    /\ minst' = [minst EXCEPT ![t] = w[1]]
    /\ mtok' = [mtok EXCEPT ![t] = w[2]]
    /\ UNCHANGED <<mgrShared, issued, dirty, sdReturned, poolVars, instVars>>

(* Release of a wrapper, by any goroutine and as often as it likes: only   *)
(* the first passes the wrapper's released flag.                           *)
RelCall(t, w) ==
    /\ t \in Clients
    /\ mpc[t] = "idle"
    /\ w \in issued
    /\ IF w \in released
       THEN Done(t) /\ UNCHANGED released
       ELSE /\ released' = released \cup {w}
            /\ mpc' = [mpc EXCEPT ![t] = "rToken"]
            /\ minst' = [minst EXCEPT ![t] = w[1]]
            /\ mtok' = [mtok EXCEPT ![t] = w[2]]
    /\ UNCHANGED <<mgrShared, issued, dirty, sdReturned, poolVars, instVars>>

(* Instance.Release: a stale token panics before anything is touched.      *)
RelToken(t) ==
    /\ mpc[t] = "rToken"
    /\ IF gen[minst[t]] = mtok[t] THEN To(t, "rStarted") ELSE Done(t)
    /\ UNCHANGED <<mgrShared, apiVars, sdReturned, poolVars, instVars>>

(* releasePurge: nothing to purge in a stopped instance ...                *)
RelStarted(t) ==
    /\ mpc[t] = "rStarted"
    /\ To(t, IF started[minst[t]] THEN "rPurge" ELSE "rInc")
    /\ UNCHANGED <<mgrShared, apiVars, sdReturned, poolVars, instVars>>

(* ... a nil handle is an error; i.purge is read here without a lock ...   *)
RelPurgeNil(t) ==
    /\ mpc[t] = "rPurge"
    /\ To(t, IF purge[minst[t]] = None THEN "rFail" ELSE "rExec")
    /\ UNCHANGED <<mgrShared, apiVars, sdReturned, poolVars, instVars>>

(* ... and once more for the DELETE, which needs an open handle ...        *)
RelPurged(t) ==
    /\ mpc[t] = "rExec"
    /\ purge[minst[t]] \in openH[minst[t]]
    /\ dirty' = [dirty EXCEPT ![minst[t]] = FALSE]
    /\ To(t, "rInc")
    /\ UNCHANGED <<mgrShared, issued, released, sdReturned, poolVars, instVars>>

\* Fault: a purge that failed is only logged.
RelPurgeErr_Ignored(t) ==
    /\ mpc[t] = "rExec"
    /\ To(t, "rInc")
    /\ UNCHANGED <<mgrShared, apiVars, sdReturned, poolVars, instVars>>

(* ... may fail, and panics on a handle that has become nil (the guard     *)
(* guardReleasePanic then calls ReleaseFailed before it panics again).     *)
RelPurgeErr(t) ==
    /\ mpc[t] = "rExec"
    /\ To(t, "rFail")
    /\ UNCHANGED <<mgrShared, apiVars, sdReturned, poolVars, instVars>>

RelFail(t) ==
    /\ mpc[t] = "rFail"
    /\ IF poolSet
       THEN ReleaseCall(t, minst[t], mtok[t], "fail") /\ To(t, "rFailed")
       ELSE Done(t) /\ UNCHANGED poolVars
    /\ UNCHANGED <<mgrShared, apiVars, sdReturned, instVars>>

RelFailedRet(t) ==
    /\ mpc[t] = "rFailed"
    /\ PoolConsume(t)
    /\ Done(t)
    /\ UNCHANGED <<mgrShared, apiVars, sdReturned, instVars>>

\* Fault: the release is not counted in.
RelInc_Missing(t) ==
    /\ mpc[t] = "rInc"
    /\ To(t, "rState")
    /\ UNCHANGED <<mgrShared, apiVars, sdReturned, poolVars, instVars>>

(* tryReleaseToPool: count in, look at the state, release, count out.      *)
RelInc(t) ==
    /\ mpc[t] = "rInc"
    /\ inflight' = inflight + 1
    /\ To(t, "rState")
    /\ UNCHANGED <<state, poolSet, inflightDone, initMu, apiVars, sdReturned,
                   poolVars, instVars>>

RelState(t) ==
    /\ mpc[t] = "rState"
    /\ IF state = "shuttingDown" \/ ~poolSet
       THEN To(t, "rDecNo") /\ UNCHANGED poolVars
       ELSE ReleaseCall(t, minst[t], mtok[t], "release") /\ To(t, "rPool")
    /\ UNCHANGED <<mgrShared, apiVars, sdReturned, instVars>>

RelPoolRet(t) ==
    /\ mpc[t] = "rPool"
    /\ PoolConsume(t)
    /\ To(t, "rDecYes")
    /\ UNCHANGED <<mgrShared, apiVars, sdReturned, instVars>>

RelNext(t, yes) == IF yes THEN Done(t) ELSE To(t, "rGiveUp")

(* The deferred decrement: who brings the counter to zero looks at the     *)
(* state and wakes Shutdown.                                               *)
RelDec(t) ==
    /\ mpc[t] \in {"rDecYes", "rDecNo"}
    /\ inflight' = inflight - 1
    /\ IF inflight - 1 = 0
       THEN To(t, IF mpc[t] = "rDecYes" THEN "rSigYes" ELSE "rSigNo")
       ELSE RelNext(t, mpc[t] = "rDecYes")
    /\ UNCHANGED <<state, poolSet, inflightDone, initMu, apiVars, sdReturned,
                   poolVars, instVars>>

\* Fault: nobody is woken when the counter drops to zero.
RelSignal_Silent(t) ==
    /\ mpc[t] \in {"rSigYes", "rSigNo"}
    /\ RelNext(t, mpc[t] = "rSigYes")
    /\ UNCHANGED <<mgrShared, apiVars, sdReturned, poolVars, instVars>>

RelSignal(t) ==
    /\ mpc[t] \in {"rSigYes", "rSigNo"}
    /\ inflightDone' = (inflightDone \/ state = "shuttingDown")
    /\ RelNext(t, mpc[t] = "rSigYes")
    /\ UNCHANGED <<state, poolSet, inflight, initMu, apiVars, sdReturned,
                   poolVars, instVars>>

-----------------------------------------------------------------------------
(* Shutdown stores its state first and then waits for the releases that    *)
(* were under way.                                                         *)
ShutCall(t) ==
    /\ t \in Closers
    /\ mpc[t] = "idle"
    /\ SerialInit => \A u \in Threads : mpc[u] \notin InitPC
    /\ state' = "shuttingDown"
    /\ To(t, "sLoad")
    /\ UNCHANGED <<poolSet, inflight, inflightDone, initMu, apiVars, sdReturned,
                   poolVars, instVars>>

ShutLoad(t) ==
    /\ mpc[t] = "sLoad"
    /\ inflightDone' = (inflightDone \/ inflight = 0)
    /\ To(t, "sDrain")
    /\ UNCHANGED <<state, poolSet, inflight, initMu, apiVars, sdReturned,
                   poolVars, instVars>>

ShutDrained(t) ==
    /\ mpc[t] = "sDrain"
    /\ inflightDone
    /\ To(t, "sPool")
    /\ UNCHANGED <<mgrShared, apiVars, sdReturned, poolVars, instVars>>

ShutDrainTimeout(t) ==
    /\ mpc[t] = "sDrain"
    /\ To(t, "sPool")
    /\ UNCHANGED <<mgrShared, apiVars, sdReturned, poolVars, instVars>>

ShutPool(t) ==
    /\ mpc[t] = "sPool"
    /\ IF poolSet
       THEN CloseCall(t) /\ To(t, "sClose") /\ UNCHANGED sdReturned
       ELSE Done(t) /\ sdReturned' = TRUE /\ UNCHANGED poolVars
    /\ UNCHANGED <<mgrShared, apiVars, instVars>>

(* The pool is closed: stop every instance it ever created, in parallel.   *)
ShutStopAll(t) ==
    /\ mpc[t] = "sClose"
    /\ PoolConsume(t)
    /\ StopCall(t, all)
    /\ To(t, "sStop")
    /\ UNCHANGED <<mgrShared, apiVars, sdReturned>>

ShutReturn(t) ==
    /\ mpc[t] = "sStop"
    /\ StopConsume(t)
    /\ Done(t)
    /\ sdReturned' = TRUE
    /\ UNCHANGED <<mgrShared, apiVars, poolVars>>

-----------------------------------------------------------------------------
MgrStep(t) ==
    \/ InitStore(t) \/ InitPool(t) \/ InitErr(t) \/ InitRollback(t) \/ InitReady(t)
    \/ AcqPool(t) \/ AcqPoolRet(t) \/ AcqRecheck(t) \/ AcqStarted(t)
    \/ AcqStartRet(t) \/ AcqFailedRet(t)
    \/ GiveUp(t) \/ GiveUpStop(t) \/ GiveUpStopped(t) \/ PoolStops(t) \/ PoolStopped(t)
    \/ RelToken(t) \/ RelStarted(t) \/ RelPurgeNil(t) \/ RelPurged(t)
    \/ RelPurgeErr(t) \/ RelFail(t) \/ RelFailedRet(t) \/ RelInc(t) \/ RelState(t)
    \/ RelPoolRet(t) \/ RelDec(t) \/ RelSignal(t)
    \/ ShutLoad(t) \/ ShutDrained(t) \/ ShutPool(t) \/ ShutStopAll(t) \/ ShutReturn(t)

(* Steps inside the pool and the instances.                                *)
PoolInner(t) == PoolStep(t) /\ UNCHANGED <<mgrVars, instVars>>
InstInner(t) ==
    /\ StartStep(t) \/ \E i \in Instances : StopStep(t, i)
    /\ UNCHANGED <<mgrVars, poolVars>>

(* New calls, and deadlines that may or may not expire.                    *)
Calls(t) ==
    \/ InitCall(t) \/ AcqCall(t) \/ ShutCall(t)
    \/ \E w \in issued : Use(t, w) \/ RelCall(t, w)

Deadlines(t) ==
    \/ ShutDrainTimeout(t)
    \/ /\ AcquireCtxDone(t) \/ AcquireFactoryErr(t)
       /\ UNCHANGED <<mgrVars, instVars>>

Next ==
    \E t \in Threads :
        MgrStep(t) \/ PoolInner(t) \/ InstInner(t) \/ Calls(t) \/ Deadlines(t)

Spec == Init /\ [][Next]_vars

(* Goroutines inside a call keep running.  Nobody has to call anything and *)
(* no deadline has to expire, neither of a context nor of the drain timer. *)
(* A sync.Mutex starves nobody, so who waits for startMu gets it even when *)
(* others lock and unlock it for ever: fairness inside Start and Stop is   *)
(* strong.                                                                 *)
FairSpec ==
    /\ Spec
    /\ \A t \in Threads : WF_vars(MgrStep(t) \/ PoolInner(t)) /\ SF_vars(InstInner(t))

-----------------------------------------------------------------------------
TypeOK ==
    /\ PoolTypeOK
    /\ InstTypeOK
    /\ state \in States
    /\ poolSet \in BOOLEAN
    /\ inflight \in Nat
    /\ inflightDone \in BOOLEAN
    /\ initMu \in Threads \cup {NoThread}
    /\ issued \subseteq Instances \X Nat
    /\ released \subseteq issued
    /\ dirty \in [Instances -> BOOLEAN]
    /\ sdReturned \in BOOLEAN
    /\ mpc \in [Threads -> MgrPC]
    /\ minst \in [Threads -> Instances \cup {NoInst}]
    /\ mtok \in [Threads -> Nat]

(* An instance has one holder, and the holder's token is current: the      *)
(* wrapper of a caller who has not released yet, or one goroutine inside   *)
(* Acquire or Release.  So no panic for a stale token can be reached       *)
(* through the public API (instance.go:668-689), and the two-layer guard   *)
(* of instanceWrapper.Release suffices.                                    *)
OneHolder ==
    /\ \A w \in Held : gen[w[1]] = w[2]
    /\ \A t \in Threads :
          mpc[t] \in HolderPC =>
              /\ gen[minst[t]] = mtok[t]
              /\ <<minst[t], mtok[t]>> \notin Held
              /\ \A u \in Threads :
                    mpc[u] \in HolderPC /\ minst[u] = minst[t] => u = t

(* Until Shutdown every slot comes back: when no call is under way, the    *)
(* semaphore lacks exactly one token per wrapper still held, whatever      *)
(* starts, purges, factories and contexts have failed on the way.          *)
CapacityRestored ==
    Bounded /\ Idle /\ state # "shuttingDown" => sem + Cardinality(Held) = MaxSize

(* No process is left behind: once a Shutdown has returned and no call is  *)
(* under way, only instances whose wrapper was never released may run,     *)
(* however Acquire and Release overlapped with the Shutdown.               *)
ShutdownLeavesNothing ==
    sdReturned /\ Idle =>
        \A i \in Instances :
            running[i] # {} \/ openH[i] # {} => \E w \in Held : w[1] = i

(* Manager, pool, instances and wrappers together implement Lease: however *)
(* calls overlap and whatever fails, an instance that Acquire hands out is *)
(* nobody else's and purged, its token is new, and no purge runs on it     *)
(* until its wrapper is released.                                          *)
L == INSTANCE Lease WITH
        Items <- Instances,
        Tokens <- 1 .. 2 * MaxAcquires,
        leases <- Held,
        past <- released

ImplementsLease == L!LeaseSpec

(* Before Shutdown an instance never has two stacks, which would share its *)
(* data directory and database file: no Start launches one while a Stop is *)
(* still ending its predecessor, although Stop unlocks startMu first       *)
(* (instance.go:548-571).                                                  *)
OneStackPerDir ==
    state # "shuttingDown" => \A i \in Instances : Cardinality(running[i]) <= 1

(* Shutdown is the last state: nothing leaves it (manager.go:459-464).     *)
ShutdownIsFinal == [][state = "shuttingDown" => state' = "shuttingDown"]_vars

(* After Shutdown has returned nothing is handed out (manager.go:270-273). *)
NoHandOutAfterShutdown == [][sdReturned => issued' = issued]_vars

(* The unsynchronised reads of i.purge in Release are safe                 *)
(* (instance.go:150-152): the handle found not to be nil is still there    *)
(* when its purge method is called.                                        *)
NoReleasePanic ==
    \A t \in Threads : mpc[t] = "rExec" => purge[minst[t]] # None

(* Shutdown returns, without the help of its drain timer or of anybody who *)
(* still holds a wrapper: no wake-up of inflightDone is missed.            *)
ShutdownReturns ==
    \A t \in Threads : mpc[t] = "sLoad" ~> mpc[t] = "idle"

(* Acquire calls blocked in the pool return once Shutdown has begun,       *)
(* without a deadline.                                                     *)
ShutdownUnblocks ==
    \A t \in Threads :
        mpc[t] = "aWait" /\ state = "shuttingDown" ~> mpc[t] = "idle"

=============================================================================
