-------------------------------- MODULE Pool --------------------------------
(***************************************************************************)
(* internal/core/pool.go, together with the generation counter of          *)
(* instance.go that makes an acquisition a token.                          *)
(*                                                                         *)
(* Every goroutine t has a frame: ppc[t] is the place it has reached in a  *)
(* Pool method, pinst[t] and ptok[t] the instance and the token the method *)
(* works on, pret[t] what it returns.  One action is one atomic step of    *)
(* the code: a channel operation, an atomic operation, or a critical       *)
(* section of p.mu (nothing inside one blocks, and p.mu protects all that  *)
(* one touches).                                                           *)
(*                                                                         *)
(* The callers are as wild as Go lets them be: any goroutine may call      *)
(* Release or ReleaseFailed with any token ever issued, twice, late or     *)
(* concurrently, and Close at any time.                                    *)
(***************************************************************************)
EXTENDS EnvBase

CONSTANTS
    MaxSize,       \* p.maxSize; 0 is the unbounded pool
    MaxAcquires    \* bound: how often Acquire is called in a behaviour

ASSUME MaxSizeAssumption == MaxSize \in Nat
ASSUME MaxAcquiresAssumption == MaxAcquires \in Nat

VARIABLES
    sem,       \* tokens in p.sem (0 for an unbounded pool)
    free,      \* p.free, the LIFO stack
    all,       \* p.all (its order is never used)
    nextIdx,   \* p.nextIdx
    closed,    \* p.closed
    closeCh,   \* p.closeCh has been closed
    gen,       \* the generation counter of every instance
    calls,     \* how many times Acquire has been called (for the bound)
    lost,      \* ghost: slots whose holder gave up the instance for good
    ppc, pinst, ptok, pret

poolShared == <<sem, free, all, nextIdx, closed, closeCh, gen, calls, lost>>
poolVars == <<poolShared, ppc, pinst, ptok, pret>>

Bounded == MaxSize > 0

\* An odd generation is an acquired instance (Instance.IsBusy).
IsBusy(i) == gen[i] % 2 = 1

Busy == {i \in Instances : IsBusy(i)}

(* Places at which the goroutine holds a slot of the semaphore.            *)
SlotPC == {"lock", "factory", "mark", "slotStop", "relLock", "relStop",
           "failStop", "slot"}

(* Places at which it also has an instance that may be running.            *)
LivePC == {"factory", "mark", "relLock", "relStop", "failStop"}

(* Places from which stopInstanceBestEffort is called.                     *)
StopPC == {"stopRet", "relStop", "failStop"}

PoolPC == SlotPC \cup StopPC
            \cup {"idle", "select", "release", "fail", "close", "closeCh", "ret"}

PoolRet == {"none", "ok", "ErrPoolClosed", "ctx", "factory", "stale", "full"}

SlotThreads == {t \in Threads : ppc[t] \in SlotPC}
LiveThreads == {t \in Threads : ppc[t] \in LivePC}

-----------------------------------------------------------------------------
(* NewPool: the semaphore is filled with maxSize tokens.                   *)
PoolInit ==
    /\ sem = MaxSize
    /\ free = <<>>
    /\ all = {}
    /\ nextIdx = 0
    /\ closed = FALSE
    /\ closeCh = FALSE
    /\ gen = [i \in Instances |-> 0]
    /\ calls = 0
    /\ lost = 0
    /\ ppc = [t \in Threads |-> "idle"]
    /\ pinst = [t \in Threads |-> NoInst]
    /\ ptok = [t \in Threads |-> 0]
    /\ pret = [t \in Threads |-> "none"]

(* The frame of t moves to a place; the method returns with a result.      *)
Goto(t, place) ==
    /\ ppc' = [ppc EXCEPT ![t] = place]
    /\ UNCHANGED <<pinst, ptok, pret>>

Return(t, result) ==
    /\ ppc' = [ppc EXCEPT ![t] = "ret"]
    /\ pret' = [pret EXCEPT ![t] = result]
    /\ UNCHANGED <<pinst, ptok>>

(* The caller goes on with what a finished method returned.                *)
PoolConsume(t) ==
    /\ ppc[t] = "ret"
    /\ ppc' = [ppc EXCEPT ![t] = "idle"]
    /\ pret' = [pret EXCEPT ![t] = "none"]
    /\ pinst' = [pinst EXCEPT ![t] = NoInst]
    /\ ptok' = [ptok EXCEPT ![t] = 0]
    /\ UNCHANGED poolShared

-----------------------------------------------------------------------------
(* Acquire.                                                                *)
AcquireCall(t) ==
    /\ ppc[t] = "idle"
    /\ calls < MaxAcquires
    /\ calls' = calls + 1
    /\ Goto(t, "select")
    /\ UNCHANGED <<sem, free, all, nextIdx, closed, closeCh, gen, lost>>

(* The context is done, on entry or while waiting for a slot.              *)
AcquireCtxDone(t) ==
    /\ ppc[t] = "select"
    /\ Return(t, "ctx")
    /\ UNCHANGED poolShared

\* Fault: the receive from the semaphore does not wait.
AcquireSlot_NoWait(t) ==
    /\ ppc[t] = "select"
    /\ sem' = IF Bounded THEN sem - 1 ELSE sem
    /\ Goto(t, "lock")
    /\ UNCHANGED <<free, all, nextIdx, closed, closeCh, gen, calls, lost>>

\* Fault: the semaphore is looked at but no token is taken.
AcquireSlot_Peek(t) ==
    /\ ppc[t] = "select"
    /\ Bounded => sem > 0
    /\ Goto(t, "lock")
    /\ UNCHANGED poolShared

(* A slot of a bounded pool; an unbounded pool has no semaphore.           *)
AcquireSlot(t) ==
    /\ ppc[t] = "select"
    /\ Bounded => sem > 0
    /\ sem' = IF Bounded THEN sem - 1 ELSE sem
    /\ Goto(t, "lock")
    /\ UNCHANGED <<free, all, nextIdx, closed, closeCh, gen, calls, lost>>

(* The pool was closed while Acquire waited for a slot.                    *)
AcquireClosed(t) ==
    /\ ppc[t] = "select"
    /\ closeCh
    /\ Return(t, "ErrPoolClosed")
    /\ UNCHANGED poolShared

(* The first critical section finds the pool closed ...                    *)
AcquireLockClosed(t) ==
    /\ ppc[t] = "lock"
    /\ closed
    /\ ppc' = [ppc EXCEPT ![t] = "slot"]
    /\ pret' = [pret EXCEPT ![t] = "ErrPoolClosed"]
    /\ UNCHANGED <<poolShared, pinst, ptok>>

\* Fault: the top of the free stack is read and not removed.
AcquirePop_Keep(t) ==
    /\ ppc[t] = "lock"
    /\ ~closed
    /\ free # <<>>
    /\ pinst' = [pinst EXCEPT ![t] = free[Len(free)]]
    /\ ppc' = [ppc EXCEPT ![t] = "mark"]
    /\ UNCHANGED <<poolShared, ptok, pret>>

(* ... or pops the instance released last ...                              *)
AcquirePop(t) ==
    /\ ppc[t] = "lock"
    /\ ~closed
    /\ free # <<>>
    /\ pinst' = [pinst EXCEPT ![t] = free[Len(free)]]
    /\ free' = SubSeq(free, 1, Len(free) - 1)
    /\ ppc' = [ppc EXCEPT ![t] = "mark"]
    /\ UNCHANGED <<sem, all, nextIdx, closed, closeCh, gen, calls, lost,
                   ptok, pret>>

(* ... or reserves an index for a new instance.                            *)
AcquireReserve(t) ==
    /\ ppc[t] = "lock"
    /\ ~closed
    /\ free = <<>>
    /\ nextIdx < MaxIdx
    /\ pinst' = [pinst EXCEPT ![t] = nextIdx]
    /\ nextIdx' = nextIdx + 1
    /\ ppc' = [ppc EXCEPT ![t] = "factory"]
    /\ UNCHANGED <<sem, free, all, closed, closeCh, gen, calls, lost,
                   ptok, pret>>

\* Fault: a failing factory keeps the slot.
AcquireFactoryErr_Leak(t) ==
    /\ ppc[t] = "factory"
    /\ Return(t, "factory")
    /\ UNCHANGED poolShared

(* The factory fails: the index is consumed, the slot goes back.           *)
AcquireFactoryErr(t) ==
    /\ ppc[t] = "factory"
    /\ ppc' = [ppc EXCEPT ![t] = "slot"]
    /\ pret' = [pret EXCEPT ![t] = "factory"]
    /\ UNCHANGED <<poolShared, pinst, ptok>>

\* Fault: the new instance is not appended to p.all.
AcquireRegister_Forget(t) ==
    /\ ppc[t] = "factory"
    /\ Goto(t, IF closed THEN "slotStop" ELSE "mark")
    /\ UNCHANGED poolShared

(* The factory succeeds: the second critical section registers the         *)
(* instance in any case and looks at closed again.                         *)
AcquireRegister(t) ==
    /\ ppc[t] = "factory"
    /\ all' = all \cup {pinst[t]}
    /\ Goto(t, IF closed THEN "slotStop" ELSE "mark")
    /\ UNCHANGED <<sem, free, nextIdx, closed, closeCh, gen, calls, lost>>

(* markAcquired, outside p.mu: the new generation is the token.            *)
AcquireMark(t) ==
    /\ ppc[t] = "mark"
    /\ gen' = [gen EXCEPT ![pinst[t]] = @ + 1]
    /\ ptok' = [ptok EXCEPT ![t] = gen[pinst[t]] + 1]
    /\ ppc' = [ppc EXCEPT ![t] = "ret"]
    /\ pret' = [pret EXCEPT ![t] = "ok"]
    /\ UNCHANGED <<sem, free, all, nextIdx, closed, closeCh, calls, lost, pinst>>

-----------------------------------------------------------------------------
(* returnSlot never blocks: a full semaphore drops the token after Close   *)
(* and panics otherwise.                                                   *)
ReturnSlot(t, after, result) ==
    /\ sem' = IF Bounded /\ sem < MaxSize THEN sem + 1 ELSE sem
    /\ IF Bounded /\ sem >= MaxSize /\ ~closeCh
       THEN /\ ppc' = [ppc EXCEPT ![t] = "ret"]
            /\ pret' = [pret EXCEPT ![t] = "full"]
       ELSE /\ ppc' = [ppc EXCEPT ![t] = after]
            /\ pret' = [pret EXCEPT ![t] = result]
    /\ UNCHANGED <<free, all, nextIdx, closed, closeCh, gen, calls, lost,
                   pinst, ptok>>

(* The last thing Release, ReleaseFailed and a failed Acquire do.          *)
SlotBack(t) ==
    /\ ppc[t] = "slot"
    /\ ReturnSlot(t, "ret", pret[t])

(* Acquire found the pool closed after the factory call: the slot goes     *)
(* back first, then the instance is stopped.                               *)
SlotBackThenStop(t) ==
    /\ ppc[t] = "slotStop"
    /\ ReturnSlot(t, "stopRet", "ErrPoolClosed")

(* stopInstanceBestEffort has returned, whatever the outcome.              *)
PoolStopDone(t) ==
    /\ ppc[t] \in StopPC
    /\ ppc' = [ppc EXCEPT ![t] = IF ppc[t] = "stopRet" THEN "ret" ELSE "slot"]
    /\ UNCHANGED <<poolShared, pinst, ptok, pret>>

-----------------------------------------------------------------------------
(* Tokens a caller can have: odd generations some Acquire has returned.    *)
Issued(i, k) == k % 2 = 1 /\ k <= gen[i]

ReleaseCall(t, i, k, place) ==
    /\ ppc[t] = "idle"
    /\ Issued(i, k)
    /\ ppc' = [ppc EXCEPT ![t] = place]
    /\ pinst' = [pinst EXCEPT ![t] = i]
    /\ ptok' = [ptok EXCEPT ![t] = k]
    /\ UNCHANGED <<poolShared, pret>>

\* Fault: the generation is advanced without comparing the token.
MustRelease_AnyToken(t, after) ==
    /\ gen' = [gen EXCEPT ![pinst[t]] = @ + 1]
    /\ ppc' = [ppc EXCEPT ![t] = after]
    /\ pret' = [pret EXCEPT ![t] = "ok"]
    /\ UNCHANGED <<sem, free, all, nextIdx, closed, closeCh, calls, lost, pinst, ptok>>

(* mustRelease: compare-and-swap the token to the next even generation,    *)
(* panic when the token is stale.                                          *)
MustRelease(t, after) ==
    LET i == pinst[t]
        current == gen[i] = ptok[t]
    IN  /\ gen' = IF current THEN [gen EXCEPT ![i] = @ + 1] ELSE gen
        /\ ppc' = [ppc EXCEPT ![t] = IF current THEN after ELSE "ret"]
        /\ pret' = [pret EXCEPT ![t] = IF current THEN "ok" ELSE "stale"]
        /\ UNCHANGED <<sem, free, all, nextIdx, closed, closeCh, calls, lost,
                       pinst, ptok>>

ReleaseCAS(t) ==
    /\ ppc[t] = "release"
    /\ MustRelease(t, "relLock")

(* Release pushes onto the free stack, or stops the instance if the pool   *)
(* is closed.                                                              *)
ReleasePush(t) ==
    /\ ppc[t] = "relLock"
    /\ free' = IF closed THEN free ELSE Append(free, pinst[t])
    /\ Goto(t, IF closed THEN "relStop" ELSE "slot")
    /\ UNCHANGED <<sem, all, nextIdx, closed, closeCh, gen, calls, lost>>

\* Fault: a failed instance goes back onto the free stack.
ReleaseFailedCAS_Requeue(t) ==
    /\ ppc[t] = "fail"
    /\ gen[pinst[t]] = ptok[t]
    /\ gen' = [gen EXCEPT ![pinst[t]] = @ + 1]
    /\ free' = Append(free, pinst[t])
    /\ ppc' = [ppc EXCEPT ![t] = "failStop"]
    /\ pret' = [pret EXCEPT ![t] = "ok"]
    /\ UNCHANGED <<sem, all, nextIdx, closed, closeCh, calls, lost, pinst, ptok>>

(* ReleaseFailed: the instance is stopped and never becomes free again.    *)
ReleaseFailedCAS(t) ==
    /\ ppc[t] = "fail"
    /\ MustRelease(t, "failStop")

(* The manager may also give an acquisition up without returning its slot  *)
(* (stopInstanceDuringShutdown): it calls mustRelease directly.            *)
Abandon(t, i, k) ==
    /\ ppc[t] = "idle"
    /\ Issued(i, k)
    /\ gen' = IF gen[i] = k THEN [gen EXCEPT ![i] = @ + 1] ELSE gen
    /\ lost' = IF gen[i] = k THEN lost + 1 ELSE lost
    /\ UNCHANGED <<sem, free, all, nextIdx, closed, closeCh, calls,
                   ppc, pinst, ptok, pret>>

-----------------------------------------------------------------------------
(* Close: one critical section, then closeCh.                              *)
CloseCall(t) ==
    /\ ppc[t] = "idle"
    /\ Goto(t, "close")
    /\ UNCHANGED poolShared

CloseMark(t) ==
    /\ ppc[t] = "close"
    /\ closed' = TRUE
    /\ free' = <<>>
    /\ Goto(t, "closeCh")
    /\ UNCHANGED <<sem, all, nextIdx, closeCh, gen, calls, lost>>

\* Fault: Close does not close the channel.
CloseChannel_Silent(t) ==
    /\ ppc[t] = "closeCh"
    /\ Return(t, "ok")
    /\ UNCHANGED poolShared

CloseChannel(t) ==
    /\ ppc[t] = "closeCh"
    /\ closeCh' = (closeCh \/ Bounded)
    /\ Return(t, "ok")
    /\ UNCHANGED <<sem, free, all, nextIdx, closed, gen, calls, lost>>

-----------------------------------------------------------------------------
(* Steps inside a Pool method, except those decided by the environment.    *)
PoolStep(t) ==
    \/ AcquireSlot(t) \/ AcquireClosed(t) \/ AcquireLockClosed(t)
    \/ AcquirePop(t) \/ AcquireReserve(t) \/ AcquireRegister(t)
    \/ AcquireMark(t) \/ SlotBack(t) \/ SlotBackThenStop(t)
    \/ ReleaseCAS(t) \/ ReleasePush(t) \/ ReleaseFailedCAS(t)
    \/ CloseMark(t) \/ CloseChannel(t)

(* Calls, returns, and what may fail.                                      *)
PoolEnv(t) ==
    \/ AcquireCall(t) \/ CloseCall(t) \/ PoolConsume(t)
    \/ AcquireCtxDone(t) \/ AcquireFactoryErr(t)
    \/ \E i \in Instances : \E k \in 1 .. gen[i] :
          \/ ReleaseCall(t, i, k, "release")
          \/ ReleaseCall(t, i, k, "fail")
          \/ Abandon(t, i, k)

PoolNext == \E t \in Threads : PoolStep(t) \/ PoolStopDone(t) \/ PoolEnv(t)

PoolSpec == PoolInit /\ [][PoolNext]_poolVars

-----------------------------------------------------------------------------
PoolTypeOK ==
    /\ sem \in 0 .. MaxSize
    /\ free \in Seq(Instances)
    /\ all \subseteq Instances
    /\ nextIdx \in 0 .. MaxIdx
    /\ closed \in BOOLEAN
    /\ closeCh \in BOOLEAN
    /\ gen \in [Instances -> Nat]
    /\ calls \in 0 .. MaxAcquires
    /\ lost \in Nat
    /\ ppc \in [Threads -> PoolPC]
    /\ pinst \in [Threads -> Instances \cup {NoInst}]
    /\ ptok \in [Threads -> Nat]
    /\ pret \in [Threads -> PoolRet]

(* Where an instance can be: idle on the free stack, acquired, or in the   *)
(* hands of one goroutine on the way between the two.                      *)
InHand(t, i) == ppc[t] \in LivePC \cup {"slotStop"} /\ pinst[t] = i
OnStack(i) == \E n \in 1 .. Len(free) : free[n] = i

(* No instance is ever in two places: not twice on the free stack, not     *)
(* free while a caller has it, not with two callers.  This is what lets    *)
(* Acquire call markAcquired after p.mu is unlocked (pool.go:150-153).     *)
Exclusive ==
    /\ \A m, n \in 1 .. Len(free) : free[m] = free[n] => m = n
    /\ \A i \in Instances : OnStack(i) => ~IsBusy(i)
    /\ \A t \in Threads, i \in Instances :
          InHand(t, i) => /\ ~IsBusy(i)
                          /\ ~OnStack(i)
                          /\ \A u \in Threads : InHand(u, i) => u = t

(* Every slot of a bounded pool is in the semaphore, with a goroutine      *)
(* inside a method, with an acquired instance, or was given up by the      *)
(* manager: no error path of Acquire, Release or ReleaseFailed loses one   *)
(* or returns one twice.                                                   *)
SlotConservation ==
    Bounded => sem + Cardinality(SlotThreads) + Cardinality(Busy) + lost = MaxSize

(* returnSlot never finds the semaphore full (pool.go:268-281), not even   *)
(* after Close and however often callers release the same acquisition.     *)
NeverFull ==
    Bounded => \A t \in Threads : ppc[t] \in {"slot", "slotStop"} => sem < MaxSize

(* Never more than maxSize instances that may be running: free, acquired,  *)
(* being created, or being handed back or stopped.                         *)
LiveBound ==
    Bounded => Len(free) + Cardinality(Busy) + Cardinality(LiveThreads) <= MaxSize

(* Every instance that can be running is in p.all, where Shutdown finds    *)
(* it; an index still on its way through the factory is in nobody's hands. *)
AllTracked ==
    /\ \A i \in Instances : IsBusy(i) \/ OnStack(i) => i \in all
    /\ \A t \in Threads : ppc[t] \in LivePC \ {"factory"} => pinst[t] \in all
    /\ \A i \in all : i < nextIdx

(* A generation leaves an odd value only for the next one, and only by a   *)
(* caller that presents exactly that value.                                *)
HolderReleases ==
    \A i \in Instances :
        /\ gen'[i] \in {gen[i], gen[i] + 1}
        /\ gen'[i] # gen[i] /\ IsBusy(i) /\ lost' = lost =>
             \E t \in Threads : /\ pinst[t] = i
                                /\ ptok[t] = gen[i]
                                /\ ppc[t] \in {"release", "fail"}

(* A stale token releases nothing: it is the holder of an acquisition that *)
(* ends it, by Release or ReleaseFailed, and no double or late call of     *)
(* another (the compare-and-swap of instance.go's mustRelease).            *)
OnlyHolderReleases == [][HolderReleases]_poolVars

=============================================================================
