---------------------------- MODULE ManagerMoves ----------------------------
(***************************************************************************)
(* The inductive invariant of internal/core/manager.go composed with the   *)
(* pool and the instances, and the kinds its steps come in: each says what *)
(* a step of goroutine t does to the places of its frames, to the wrappers *)
(* and to the instances.  ManagerStepProofs shows every step of module     *)
(* Manager to be of one of the kinds, ManagerProofs that the kinds keep    *)
(* the invariant.  What the pool keeps on its own (PoolFacts) is proved in *)
(* PoolProofs, and SystemProofs puts the three together.                   *)
(***************************************************************************)
EXTENDS ManagerState, InstanceInv, TLAPS

(* Places of the manager at which a goroutine has called into the pool, at *)
(* which it waits for Stops, and at which it has no instance.              *)
PoolCalls == {"aWait", "aFailed", "rFailed", "rPool", "sClose"}
StopCalls == {"aStop", "rStop"}
Resting == {"idle"} \cup InitPC \cup {"aPool", "rDecYes", "rSigYes", "sLoad", "sDrain", "sPool"}

(* Places at which the instance will be handed out next.                   *)
Granting == {"aRecheck", "aStarted", "aStarting"}

(* What the pool guarantees by itself.                                     *)
OnInstance == {"factory", "mark", "slotStop", "relLock", "relStop", "failStop",
               "release", "fail", "stopRet"}

PoolFacts ==
    /\ PoolTypeOK /\ Exclusive /\ AllTracked /\ NeverFull
    /\ \A t \in Threads : ppc[t] \in OnInstance => pinst[t] \in Instances
    /\ \A t \in Threads, i \in Instances : InHand(t, i) => i < nextIdx

MgrTypes ==
    /\ state \in States /\ poolSet \in BOOLEAN /\ inflightDone \in BOOLEAN
    /\ initMu \in Threads \cup {NoThread}
    /\ issued \subseteq Instances \X Nat /\ released \subseteq issued
    /\ dirty \in [Instances -> BOOLEAN] /\ sdReturned \in BOOLEAN
    /\ mpc \in [Threads -> MgrPC]
    /\ minst \in [Threads -> Instances \cup {NoInst}] /\ mtok \in [Threads -> Nat]

(* The pool frame of t is that of an acquisition: Acquire is about to      *)
(* return it, or Release or ReleaseFailed has not compared its token yet.  *)
Presents(t) ==
    \/ ppc[t] \in {"release", "fail"}
    \/ ppc[t] = "ret" /\ mpc[t] = "aWait" /\ pret[t] = "ok"

(* t holds the acquisition k of i inside Acquire or Release; the caller    *)
(* has it in a wrapper.                                                    *)
Has(t, i, k) ==
    \/ mpc[t] \in HolderPC /\ minst[t] = i /\ mtok[t] = k
    \/ Presents(t) /\ pinst[t] = i /\ ptok[t] = k

Wrapped(i) == \E w \in Held : w[1] = i

(* t has taken i out of circulation and stops it.                          *)
Ending(t, i) ==
    \/ mpc[t] \in StopCalls /\ minst[t] = i
    \/ ppc[t] \in StopPC /\ pinst[t] = i

(* The frame of t in the manager calls the frames it has in the pool and   *)
(* in the instances.                                                       *)
Linked(t) ==
    /\ mpc[t] \in HolderPC \cup StopCalls => minst[t] \in Instances
    /\ ppc[t] # "idle" => mpc[t] \in PoolCalls
    /\ ppc[t] \in {"select", "lock", "factory", "mark", "slotStop", "stopRet"} => mpc[t] = "aWait"
    /\ ppc[t] \in {"release", "relLock", "relStop"} => mpc[t] = "rPool"
    /\ ppc[t] \in {"fail", "failStop"} => mpc[t] \in {"aFailed", "rFailed"}
    /\ ppc[t] \in {"close", "closeCh"} => mpc[t] = "sClose"
    /\ ppc[t] = "slot" => mpc[t] # "sClose"
    /\ ppc[t] \in {"slot", "stopRet"} /\ mpc[t] = "aWait" => pret[t] # "ok"
    /\ Presents(t) => pinst[t] \in Instances
    /\ spc[t] # "no" => mpc[t] = "aStarting" /\ sinst[t] = minst[t]
    /\ \A i \in Instances : xpc[<<t, i>>] # "no" => Ending(t, i) \/ mpc[t] = "sStop"

Link == \A t \in Threads : Linked(t)

(* Nobody but its holder has an instance, the holder's token is current,   *)
(* and a busy instance has a holder.                                       *)
HeldOK == \A w \in Held : gen[w[1]] = w[2] /\ IsBusy(w[1])

HasOK ==
    \A t \in Threads, i \in Instances, k \in Nat :
        Has(t, i, k) =>
            /\ gen[i] = k /\ IsBusy(i) /\ ~Wrapped(i)
            /\ \A u \in Threads : Has(u, i, k) => u = t

BusyHeld ==
    \A i \in Instances :
        IsBusy(i) => Wrapped(i) \/ \E t \in Threads : Has(t, i, gen[i])

(* The acquisition t has of i will be handed out next; it is a new one.    *)
Coming(t, i) ==
    \/ mpc[t] \in Granting /\ minst[t] = i
    \/ mpc[t] = "aWait" /\ Presents(t) /\ pinst[t] = i

NewTokens ==
    \A w \in issued :
        /\ w[2] <= gen[w[1]]
        /\ \A t \in Threads : Coming(t, w[1]) => w[2] < gen[w[1]]

(* i has left circulation: the pool will not hand it out any more.         *)
Gone(i) ==
    /\ ~IsBusy(i) /\ ~OnStack(i) /\ i < nextIdx
    /\ \A t \in Threads : ppc[t] \in {"factory", "mark", "relLock"} => pinst[t] # i

(* Before the pool is closed, only such an instance is stopped.            *)
StopsGone ==
    \A t \in Threads, i \in Instances :
        /\ Ending(t, i) => Gone(i)
        /\ xpc[<<t, i>>] # "no" => closed \/ Gone(i)

(* Close has taken effect when it returns, and empties the free stack.     *)
ClosedOK ==
    /\ closed => free = <<>>
    /\ \A t \in Threads :
          /\ mpc[t] = "sStop" => closed
          /\ mpc[t] = "sClose" /\ ppc[t] \in {"closeCh", "ret"} => closed

OneStack == ~closed => \A i \in Instances : \A r, s \in running[i] : r = s

(* Before the pool is closed, a wrapper's instance runs.                   *)
StartedHeld ==
    ~closed =>
        /\ \A w \in Held : started[w[1]]
        /\ \A t \in Threads : mpc[t] \in {"rToken", "rStarted"} => started[minst[t]]
        /\ \A t \in Threads : spc[t] = "done" /\ sok[t] => started[sinst[t]]

(* An instance with user data is not on its way to another caller.         *)
Secluded(i) ==
    /\ ~OnStack(i) /\ i < nextIdx
    /\ \A t \in Threads :
          /\ ~Coming(t, i)
          /\ pinst[t] = i =>
                /\ ppc[t] \notin {"factory", "mark"}
                /\ ppc[t] \in {"release", "relLock"} => closed
          /\ minst[t] = i /\ mpc[t] \in {"rInc", "rState"} => closed

Clean == \A i \in Instances : dirty[i] => Secluded(i)

(* Somebody will still stop, or hand on, an instance that runs.            *)
InCharge(t, i) ==
    \/ InHand(t, i) \/ Ending(t, i)
    \/ xpc[<<t, i>>] = "lock"
    \/ mpc[t] = "sClose" /\ ppc[t] \in {"closeCh", "ret"}

Accounted ==
    /\ \A i \in Instances : stack[i] # None =>
          i \in all /\ (OnStack(i) \/ IsBusy(i) \/ \E t \in Threads : InCharge(t, i))
    /\ \A t \in Threads, i \in Instances :
          Ending(t, i) /\ xpc[<<t, i>>] \in {"clear", "close", "kill", "done"} => stack[i] = None
    /\ \A t \in Threads : ppc[t] = "factory" => pinst[t] \notin all

(* Initialize: who is inside holds initMu, and a pool once set stays set.  *)
SetUp ==
    /\ \A t \in Threads :
          /\ mpc[t] \in InitPC => initMu = t
          /\ mpc[t] = "iReady" => poolSet
          /\ poolSet => mpc[t] \notin {"iStore", "iDo", "iRollback"}
          /\ ~poolSet => mpc[t] \in {"idle", "sLoad", "sDrain", "sPool"} \cup InitPC
    /\ state = "ready" => poolSet
    /\ poolSet => \/ state \in {"ready", "shuttingDown"}
                  \/ \E t \in Threads : mpc[t] = "iReady"
    /\ ~poolSet => all = {}

(* Shutdown is final when no Initialize overlaps with it.                  *)
GivingUp == {"aGiveUp", "aStop", "rDecNo", "rSigNo", "rGiveUp", "rStop"}

Final ==
    /\ state = "shuttingDown" => \A t \in Threads : mpc[t] \notin InitPC
    /\ \A t \in Threads : mpc[t] \in ShutdownPC \cup GivingUp => state = "shuttingDown"
    /\ closed \/ lost # 0 => state = "shuttingDown"
    /\ sdReturned => state = "shuttingDown" /\ (closed \/ ~poolSet)

(* m.inflight counts the goroutines in tryReleaseToPool.                   *)
Releasing == {t \in Threads : mpc[t] \in {"rState", "rPool", "rDecYes", "rDecNo"}}
InflightCounts == inflight = Cardinality(Releasing)

Holders == HeldOK /\ HasOK /\ BusyHeld /\ NewTokens

MgrInv ==
    /\ MgrTypes /\ Link /\ Holders /\ StopsGone /\ ClosedOK /\ OneStack /\ StartedHeld
    /\ Clean /\ Accounted /\ SetUp

-----------------------------------------------------------------------------
(* The kinds of steps.  A step of t leaves the frames of the others alone. *)
MgrOthers(t) ==
    \A u \in Threads : u # t =>
        mpc'[u] = mpc[u] /\ minst'[u] = minst[u] /\ mtok'[u] = mtok[u]

PoolOthers(t) ==
    \A u \in Threads : u # t =>
        /\ ppc'[u] = ppc[u] /\ pinst'[u] = pinst[u]
        /\ ptok'[u] = ptok[u] /\ pret'[u] = pret[u]

CallOthers(t) ==
    \A u \in Threads : u # t =>
        /\ spc'[u] = spc[u] /\ sinst'[u] = sinst[u] /\ sok'[u] = sok[u]
        /\ \A i \in Instances : xpc'[<<u, i>>] = xpc[<<u, i>>]

(* The manager alone: t keeps the acquisition it has, or has none.         *)
LocalMove(t) ==
    /\ UNCHANGED <<apiVars, poolVars, instVars>>
    /\ \/ mpc[t] \in Resting /\ mpc'[t] \in Resting
       \/ /\ mpc[t] \in HolderPC \ {"aStarting"} /\ mpc'[t] \in HolderPC \ {"aStarting"}
          /\ minst'[t] = minst[t] /\ mtok'[t] = mtok[t]
          /\ mpc'[t] \in Granting => mpc[t] \in Granting
          /\ mpc'[t] \in {"rToken", "rStarted"} => mpc[t] \in {"rToken", "rStarted"}
          /\ mpc'[t] \in {"rInc", "rState"} =>
                \/ mpc[t] \in {"rInc", "rState"}
                \/ mpc[t] = "rStarted" /\ ~started[minst[t]]

(* The wrapper: handed out, written through, taken back, purged.           *)
GrantMove(t) ==
    /\ mpc[t] \in {"aStarted", "aStarting"} /\ mpc'[t] = "idle"
    /\ issued' = issued \cup {<<minst[t], mtok[t]>>}
    /\ closed \/ started[minst[t]]
    /\ spc'[t] = "no"
    /\ UNCHANGED <<released, dirty, poolVars, started, stack, running, xpc>>

WriteMove(t) ==
    /\ \E w \in Held : dirty' = [dirty EXCEPT ![w[1]] = TRUE]
    /\ UNCHANGED <<issued, released, mgrFrame, poolVars, instVars>>

TakeMove(t) ==
    /\ mpc[t] = "idle" /\ mpc'[t] = "rToken"
    /\ \E w \in Held : minst'[t] = w[1] /\ mtok'[t] = w[2] /\ released' = released \cup {w}
    /\ UNCHANGED <<issued, dirty, poolVars, instVars>>

WipeMove(t) ==
    /\ mpc[t] = "rExec" /\ mpc'[t] = "rInc"
    /\ minst'[t] = minst[t] /\ mtok'[t] = mtok[t]
    /\ dirty' = [dirty EXCEPT ![minst[t]] = FALSE]
    /\ UNCHANGED <<issued, released, poolVars, instVars>>

(* Calls into the pool and returns from it.                                *)
EnterMove(t) ==
    /\ mpc[t] \in Resting /\ ppc[t] = "idle"
    /\ \/ mpc'[t] = "aWait" /\ ppc'[t] = "select"
       \/ mpc'[t] = "sClose" /\ ppc'[t] = "close"
    /\ UNCHANGED <<apiVars, free, all, nextIdx, closed, gen, lost, pinst, ptok, pret, instVars>>

PresentMove(t) ==
    /\ ppc[t] = "idle"
    /\ \/ mpc[t] = "rState" /\ mpc'[t] = "rPool" /\ ppc'[t] = "release"
       \/ /\ mpc[t] \in {"aStarting", "rFail"} /\ mpc'[t] \in {"aFailed", "rFailed"}
          /\ ppc'[t] = "fail"
    /\ pinst'[t] = minst[t] /\ ptok'[t] = mtok[t] /\ spc'[t] = "no"
    /\ UNCHANGED <<apiVars, poolShared, started, stack, running, xpc>>

ReceiveMove(t) ==
    /\ mpc[t] = "aWait" /\ Presents(t) /\ mpc'[t] = "aRecheck" /\ ppc'[t] = "idle"
    /\ minst'[t] = pinst[t] /\ mtok'[t] = ptok[t]
    /\ UNCHANGED <<apiVars, poolShared, instVars>>

LeaveMove(t) ==
    /\ mpc[t] \in PoolCalls \ {"sClose"} /\ ppc[t] = "ret" /\ ~Presents(t)
    /\ mpc'[t] \in Resting /\ ppc'[t] = "idle"
    /\ UNCHANGED <<apiVars, poolShared, instVars>>

(* Stops.                                                                  *)
GiveUpMove(t) ==
    /\ mpc[t] \in {"aGiveUp", "rGiveUp"} /\ mpc'[t] \in StopCalls /\ minst'[t] = minst[t]
    /\ gen' = [gen EXCEPT ![minst[t]] = @ + 1]
    /\ UNCHANGED <<apiVars, free, all, nextIdx, closed, ppc, pinst, ptok, pret, instVars>>

StopMove(t) ==
    /\ \E i \in Instances : Ending(t, i) /\ StopCall(t, {i})
    /\ UNCHANGED <<mgrVars, poolVars>>

GiveUpDoneMove(t) ==
    /\ mpc[t] \in StopCalls /\ mpc'[t] = "idle"
    /\ xpc[<<t, minst[t]>>] = "done" /\ StopConsume(t)
    /\ UNCHANGED <<apiVars, poolVars>>

PoolStopMove(t) ==
    /\ ppc[t] \in StopPC /\ ppc'[t] = IF ppc[t] = "stopRet" THEN "ret" ELSE "slot"
    /\ xpc[<<t, pinst[t]>>] = "done" /\ StopConsume(t)
    /\ UNCHANGED <<mgrVars, poolShared, pinst, ptok, pret>>

StopAllMove(t) ==
    /\ mpc[t] = "sClose" /\ ppc[t] = "ret" /\ mpc'[t] = "sStop" /\ ppc'[t] = "idle"
    /\ StopCall(t, all)
    /\ UNCHANGED <<apiVars, poolShared>>

ReturnMove(t) ==
    /\ mpc[t] = "sStop" /\ mpc'[t] = "idle"
    /\ StopConsume(t)
    /\ UNCHANGED <<apiVars, poolVars>>

(* Start is called, and steps inside Start and Stop.                       *)
StartMove(t) ==
    /\ mpc[t] = "aStarted" /\ mpc'[t] = "aStarting"
    /\ minst'[t] = minst[t] /\ mtok'[t] = mtok[t]
    /\ spc'[t] = "lock" /\ sinst'[t] = minst[t]
    /\ UNCHANGED <<apiVars, poolVars, started, stack, running, xpc>>

InstMove(t) ==
    /\ UNCHANGED <<mgrVars, poolVars, sinst>>
    /\ \A u \in Threads :
          /\ spc'[u] # "no" => spc[u] # "no"
          /\ spc'[u] = "done" /\ sok'[u] => started'[sinst[u]] \/ (spc[u] = "done" /\ sok[u])
    /\ \A u \in Threads, i \in Instances :
          /\ xpc'[<<u, i>>] # "no" => xpc[<<u, i>>] # "no"
          /\ xpc[<<u, i>>] = "lock" => xpc'[<<u, i>>] = "lock" \/ stack'[i] = None
          /\ xpc'[<<u, i>>] \in {"clear", "close", "kill", "done"} =>
                xpc[<<u, i>>] \in {"clear", "close", "kill", "done"} \/ stack'[i] = None
    /\ \A i \in Instances :
          /\ started[i] => started'[i] \/ \E u \in Threads : xpc[<<u, i>>] = "clear"
          /\ stack'[i] # None =>
                stack[i] # None \/ \E u \in Threads : spc[u] # "no" /\ sinst[u] = i
          /\ \/ running'[i] \subseteq running[i]
             \/ /\ \E u \in Threads : spc[u] = "launch" /\ sinst[u] = i
                /\ \E s \in Stacks : running'[i] = running[i] \cup {s}

(* Steps inside the pool.                                                  *)
QuietMove(t) ==
    /\ \/ ppc[t] = "select" /\ ppc'[t] \in {"lock", "ret"}
       \/ ppc[t] = "lock" /\ ppc'[t] = "slot"
       \/ ppc[t] \in {"slot", "closeCh"} /\ ppc'[t] = "ret"
    /\ ppc'[t] # "lock" /\ mpc[t] = "aWait" => pret'[t] # "ok"
    /\ UNCHANGED <<mgrVars, instVars, free, all, nextIdx, closed, gen, lost, pinst, ptok>>

PopMove(t) ==
    /\ ppc[t] = "lock" /\ ppc'[t] = "mark"
    /\ pinst'[t] \in Instances /\ OnStack(pinst'[t])
    /\ \A i \in Instances : /\ OnStack(i)' => OnStack(i)
                            /\ OnStack(i) => OnStack(i)' \/ pinst'[t] = i
    /\ ~closed
    /\ UNCHANGED <<mgrVars, instVars, all, nextIdx, closed, gen, lost>>

ReserveMove(t) ==
    /\ ppc[t] = "lock" /\ ppc'[t] = "factory"
    /\ pinst'[t] = nextIdx /\ nextIdx' = nextIdx + 1
    /\ UNCHANGED <<mgrVars, instVars, free, all, closed, gen, lost>>

FactoryErrMove(t) ==
    /\ ppc[t] = "factory" /\ ppc'[t] = "slot" /\ pret'[t] = "factory"
    /\ UNCHANGED <<mgrVars, instVars, free, all, nextIdx, closed, gen, lost, pinst, ptok>>

RegisterMove(t) ==
    /\ ppc[t] = "factory" /\ ppc'[t] \in {"mark", "slotStop"}
    /\ all' = all \cup {pinst[t]}
    /\ UNCHANGED <<mgrVars, instVars, free, nextIdx, closed, gen, lost, pinst, ptok, pret>>

MarkMove(t) ==
    /\ ppc[t] = "mark" /\ ppc'[t] = "ret" /\ pret'[t] = "ok"
    /\ gen' = [gen EXCEPT ![pinst[t]] = @ + 1] /\ ptok'[t] = gen[pinst[t]] + 1
    /\ UNCHANGED <<mgrVars, instVars, free, all, nextIdx, closed, lost, pinst>>

CasMove(t) ==
    /\ \/ ppc[t] = "release" /\ ppc'[t] = "relLock"
       \/ ppc[t] = "fail" /\ ppc'[t] = "failStop"
    /\ gen[pinst[t]] = ptok[t] /\ gen' = [gen EXCEPT ![pinst[t]] = @ + 1]
    /\ UNCHANGED <<mgrVars, instVars, free, all, nextIdx, closed, lost, pinst, ptok>>

PushMove(t) ==
    /\ ppc[t] = "relLock"
    /\ \/ /\ ~closed /\ ppc'[t] = "slot"
          /\ \A i \in Instances : OnStack(i)' <=> OnStack(i) \/ pinst[t] = i
       \/ closed /\ ppc'[t] = "relStop" /\ UNCHANGED free
    /\ UNCHANGED <<mgrVars, instVars, all, nextIdx, closed, gen, lost, pinst, ptok, pret>>

CloseMove(t) ==
    /\ ppc[t] = "close" /\ ppc'[t] = "closeCh"
    /\ closed' = TRUE /\ free' = <<>>
    /\ UNCHANGED <<mgrVars, instVars, all, nextIdx, gen, lost, pinst, ptok, pret>>

SlotStopMove(t) ==
    /\ ppc[t] = "slotStop" /\ ppc'[t] = "stopRet" /\ pret'[t] = "ErrPoolClosed"
    /\ UNCHANGED <<mgrVars, instVars, free, all, nextIdx, closed, gen, lost, pinst, ptok>>

MgrMove(t) ==
    \/ LocalMove(t) \/ GrantMove(t) \/ WriteMove(t) \/ TakeMove(t) \/ WipeMove(t)
    \/ EnterMove(t) \/ PresentMove(t) \/ ReceiveMove(t) \/ LeaveMove(t)
    \/ GiveUpMove(t) \/ GiveUpDoneMove(t) \/ StopAllMove(t) \/ ReturnMove(t) \/ StartMove(t)

PoolMove(t) ==
    \/ QuietMove(t) \/ PopMove(t) \/ ReserveMove(t) \/ FactoryErrMove(t) \/ RegisterMove(t)
    \/ MarkMove(t) \/ CasMove(t) \/ PushMove(t) \/ CloseMove(t) \/ SlotStopMove(t)

Move(t) ==
    MgrMove(t) \/ PoolMove(t) \/ StopMove(t) \/ PoolStopMove(t) \/ InstMove(t)

-----------------------------------------------------------------------------
(* Names and places that differ.                                           *)
LEMMA NamesApart == None \notin Stacks /\ NoThread \notin Threads
  BY StacksAssumption, NoThreadAssumption DEF None

(* The places, sorted.                                                     *)
LEMMA RestingPlaces ==
    /\ "idle" \in Resting /\ "aPool" \in Resting /\ "rDecYes" \in Resting
    /\ "rSigYes" \in Resting /\ "sLoad" \in Resting /\ "sDrain" \in Resting /\ "sPool" \in Resting
    /\ "iStore" \in Resting /\ "iDo" \in Resting /\ "iRollback" \in Resting /\ "iReady" \in Resting
  BY Zenon DEF Resting, InitPC

LEMMA HolderPlaces ==
    {"aRecheck", "aGiveUp", "aStarted", "rToken", "rStarted", "rPurge", "rExec", "rFail",
     "rInc", "rState", "rDecNo", "rSigNo", "rGiveUp"} \subseteq HolderPC \ {"aStarting"}
  BY Zenon DEF HolderPC

(* A holder's token is current.                                            *)
LEMMA HolderCurrent ==
    ASSUME MgrTypes, Link, HasOK, NEW t \in Threads, mpc[t] \in HolderPC
    PROVE  minst[t] \in Instances /\ mtok[t] \in Nat /\ Has(t, minst[t], mtok[t])
           /\ gen[minst[t]] = mtok[t] /\ IsBusy(minst[t]) /\ ~Wrapped(minst[t])
<1>1. minst[t] \in Instances /\ mtok[t] \in Nat
  BY Zenon DEF MgrTypes, Link, Linked
<1>2. Has(t, minst[t], mtok[t])
  BY Zenon DEF Has
<1> QED
  BY <1>1, <1>2, Zenon DEF HasOK

(* The frames of t in the pool, one field at a time.                       *)
LEMMA PoolFrameTypes ==
    ASSUME PoolTypeOK
    PROVE  /\ ppc \in [Threads -> PoolPC] /\ pinst \in [Threads -> Instances \cup {NoInst}]
           /\ ptok \in [Threads -> Nat] /\ pret \in [Threads -> PoolRet]
           /\ gen \in [Instances -> Nat] /\ free \in Seq(Instances) /\ all \subseteq Instances
  BY Zenon DEF PoolTypeOK

LEMMA StartFrameTypes ==
    ASSUME InstTypeOK
    PROVE  /\ spc \in [Threads -> StartPC] /\ sinst \in [Threads -> Instances \cup {NoInst}]
           /\ sok \in [Threads -> BOOLEAN]
  BY Zenon DEF InstTypeOK

LEMMA ConsumeFrame ==
    ASSUME PoolTypeOK, NEW t \in Threads, PoolConsume(t)
    PROVE  ppc[t] = "ret" /\ ppc'[t] = "idle" /\ UNCHANGED poolShared
  BY PoolFrameTypes, Zenon DEF PoolConsume

LEMMA ReleaseFrame ==
    ASSUME PoolTypeOK, NEW t \in Threads, NEW i, NEW k, NEW p, ReleaseCall(t, i, k, p)
    PROVE  /\ ppc[t] = "idle" /\ ppc'[t] = p /\ pinst'[t] = i /\ ptok'[t] = k
           /\ UNCHANGED poolShared
  BY PoolFrameTypes, Zenon DEF ReleaseCall

LEMMA StartConsumeFrame ==
    ASSUME InstTypeOK, NEW t \in Threads, StartConsume(t)
    PROVE  spc'[t] = "no" /\ UNCHANGED <<started, stack, running, xpc>>
  BY StartFrameTypes, Zenon DEF StartConsume, stopFrame

LEMMA InstParts ==
    UNCHANGED instVars => UNCHANGED <<started, stack, running, xpc, spc, sinst, sok>>
  BY Zenon DEF instVars, startFrame, stopFrame

LEMMA PoolParts ==
    UNCHANGED poolVars =>
        /\ UNCHANGED poolShared
        /\ UNCHANGED <<free, all, nextIdx, closed, gen, lost, ppc, pinst, ptok, pret>>
  BY Zenon DEF poolVars, poolShared

LEMMA QuietManager ==
    ASSUME UNCHANGED mgrVars, NEW t
    PROVE  UNCHANGED <<mpc, minst, mtok, issued, released, dirty>> /\ MgrOthers(t)
  BY Zenon DEF mgrVars, mgrFrame, apiVars, MgrOthers

(* The free stack.                                                         *)
LEMMA StackMoves ==
    ASSUME free \in Seq(Instances)
    PROVE  /\ free # <<>> =>
                /\ free[Len(free)] \in Instances /\ OnStack(free[Len(free)])
                /\ free' = SubSeq(free, 1, Len(free) - 1) =>
                      \A i \in Instances :
                          /\ OnStack(i)' => OnStack(i)
                          /\ OnStack(i) => OnStack(i)' \/ free[Len(free)] = i
           /\ \A j \in Instances : free' = Append(free, j) =>
                \A i \in Instances : OnStack(i)' <=> OnStack(i) \/ j = i
           /\ free' = <<>> => \A i : ~OnStack(i)'
<1>1. Len(free) \in Nat /\ \A n \in 1 .. Len(free) : free[n] \in Instances
  OBVIOUS
<1>2. ASSUME free # <<>>
      PROVE  /\ free[Len(free)] \in Instances /\ OnStack(free[Len(free)])
             /\ free' = SubSeq(free, 1, Len(free) - 1) =>
                  \A i \in Instances :
                      /\ OnStack(i)' => OnStack(i)
                      /\ OnStack(i) => OnStack(i)' \/ free[Len(free)] = i
  BY <1>1, <1>2 DEF OnStack
<1>3. ASSUME NEW j \in Instances, free' = Append(free, j), NEW i \in Instances
      PROVE  OnStack(i)' <=> OnStack(i) \/ j = i
  BY <1>1, <1>3 DEF OnStack
<1>4. ASSUME free' = <<>>, NEW i PROVE ~OnStack(i)'
  BY <1>4 DEF OnStack
<1> QED
  BY <1>2, <1>3, <1>4, Zenon

LEMMA QuietSteps ==
    ASSUME MgrTypes, PoolFacts, Link, NEW t \in Threads, UNCHANGED <<mgrVars, instVars>>,
           \/ AcquireSlot(t) \/ AcquireClosed(t) \/ AcquireCtxDone(t) \/ AcquireLockClosed(t)
           \/ SlotBack(t) \/ CloseChannel(t)
    PROVE  QuietMove(t)
<1>1. PoolTypeOK
  BY Zenon DEF PoolFacts
<1>2. ASSUME NEW r, Return(t, r)
      PROVE  ppc'[t] = "ret" /\ pret'[t] = r /\ UNCHANGED <<pinst, ptok>>
  BY <1>1, <1>2, PoolFrameTypes, Zenon DEF Return
<1>3. CASE AcquireSlot(t)
  <2>1. /\ ppc[t] = "select" /\ ppc'[t] = "lock"
        /\ UNCHANGED <<free, all, nextIdx, closed, gen, lost, pinst, ptok>>
    BY <1>1, <1>3, PoolFrameTypes, Zenon DEF AcquireSlot, Goto
  <2> QED
    BY <2>1, Zenon DEF QuietMove
<1>4. CASE AcquireClosed(t) \/ AcquireCtxDone(t)
  <2>1. /\ ppc[t] = "select" /\ (Return(t, "ErrPoolClosed") \/ Return(t, "ctx"))
        /\ UNCHANGED <<free, all, nextIdx, closed, gen, lost>>
    BY <1>4, Zenon DEF AcquireClosed, AcquireCtxDone, poolShared
  <2>2. ppc'[t] = "ret" /\ pret'[t] \in {"ErrPoolClosed", "ctx"} /\ UNCHANGED <<pinst, ptok>>
    BY <1>2, <2>1, Zenon
  <2> QED
    BY <2>1, <2>2, Zenon DEF QuietMove
<1>5. CASE AcquireLockClosed(t)
  <2>1. /\ ppc[t] = "lock" /\ ppc'[t] = "slot" /\ pret'[t] = "ErrPoolClosed"
        /\ UNCHANGED <<free, all, nextIdx, closed, gen, lost, pinst, ptok>>
    BY <1>1, <1>5, PoolFrameTypes, Zenon DEF AcquireLockClosed, poolShared
  <2> QED
    BY <2>1, Zenon DEF QuietMove
<1>6. CASE SlotBack(t)
  <2>1. /\ ppc[t] = "slot" /\ ppc'[t] = "ret" /\ pret'[t] \in {"full", pret[t]}
        /\ UNCHANGED <<free, all, nextIdx, closed, gen, lost, pinst, ptok>>
    BY <1>1, <1>6, PoolFrameTypes, Zenon DEF SlotBack, ReturnSlot
  <2>2. mpc[t] = "aWait" => pret[t] # "ok"
    BY <2>1, Zenon DEF Link, Linked
  <2> QED
    BY <2>1, <2>2, Zenon DEF QuietMove
<1>7. CASE CloseChannel(t)
  <2>1. /\ ppc[t] = "closeCh" /\ Return(t, "ok")
        /\ UNCHANGED <<free, all, nextIdx, closed, gen, lost>>
    BY <1>7, Zenon DEF CloseChannel
  <2>2. mpc[t] = "sClose"
    BY <2>1, Zenon DEF Link, Linked
  <2> QED
    BY <1>2, <2>1, <2>2, Zenon DEF QuietMove
<1> QED
  BY <1>3, <1>4, <1>5, <1>6, <1>7, Zenon

LEMMA AcquireSteps ==
    ASSUME PoolFacts, NEW t \in Threads, UNCHANGED <<mgrVars, instVars>>
    PROVE  /\ AcquirePop(t) => PopMove(t)
           /\ AcquireReserve(t) => ReserveMove(t)
           /\ AcquireFactoryErr(t) => FactoryErrMove(t)
           /\ AcquireRegister(t) => RegisterMove(t)
           /\ AcquireMark(t) => MarkMove(t)
<1>1. PoolTypeOK
  BY Zenon DEF PoolFacts
<1>2. ASSUME AcquirePop(t) PROVE PopMove(t)
  <2>1. /\ ppc[t] = "lock" /\ ppc'[t] = "mark" /\ ~closed /\ free # <<>>
        /\ pinst'[t] = free[Len(free)] /\ free' = SubSeq(free, 1, Len(free) - 1)
        /\ UNCHANGED <<all, nextIdx, closed, gen, lost>>
    BY <1>1, <1>2, PoolFrameTypes, Zenon DEF AcquirePop
  <2>2. free \in Seq(Instances)
    BY <1>1, PoolFrameTypes, Zenon
  <2> QED
    BY <2>1, <2>2, StackMoves, Zenon DEF PopMove
<1>3. ASSUME AcquireReserve(t) PROVE ReserveMove(t)
  BY <1>1, <1>3, PoolFrameTypes, Zenon DEF AcquireReserve, ReserveMove
<1>4. ASSUME AcquireFactoryErr(t) PROVE FactoryErrMove(t)
  BY <1>1, <1>4, PoolFrameTypes, Zenon DEF AcquireFactoryErr, FactoryErrMove, poolShared
<1>5. ASSUME AcquireRegister(t) PROVE RegisterMove(t)
  BY <1>1, <1>5, PoolFrameTypes, Zenon DEF AcquireRegister, Goto, RegisterMove
<1>6. ASSUME AcquireMark(t) PROVE MarkMove(t)
  BY <1>1, <1>6, PoolFrameTypes, Zenon DEF AcquireMark, MarkMove
<1> QED
  BY <1>2, <1>3, <1>4, <1>5, <1>6, Zenon

LEMMA ReleaseSteps ==
    ASSUME MgrTypes, PoolFacts, Link, HasOK, NEW t \in Threads, UNCHANGED <<mgrVars, instVars>>
    PROVE  /\ ReleaseCAS(t) \/ ReleaseFailedCAS(t) => CasMove(t)
           /\ ReleasePush(t) => PushMove(t)
           /\ CloseMark(t) => CloseMove(t)
           /\ SlotBackThenStop(t) => SlotStopMove(t)
<1>1. PoolTypeOK
  BY Zenon DEF PoolFacts
<1>2. ASSUME ReleaseCAS(t) \/ ReleaseFailedCAS(t) PROVE CasMove(t)
  <2>1. ppc[t] \in {"release", "fail"}
    BY <1>2, Zenon DEF ReleaseCAS, ReleaseFailedCAS
  <2>2. pinst[t] \in Instances /\ ptok[t] \in Nat /\ Has(t, pinst[t], ptok[t])
    BY <1>1, <2>1, PoolFrameTypes, Zenon DEF Link, Linked, Presents, Has
  <2>3. gen[pinst[t]] = ptok[t]
    BY <2>2, Zenon DEF HasOK
  <2>4. ASSUME NEW p, MustRelease(t, p)
        PROVE  /\ ppc'[t] = p /\ gen' = [gen EXCEPT ![pinst[t]] = @ + 1]
               /\ UNCHANGED <<free, all, nextIdx, closed, lost, pinst, ptok>>
    BY <1>1, <2>3, <2>4, PoolFrameTypes, Zenon DEF MustRelease
  <2> QED
    BY <1>2, <2>3, <2>4, Zenon DEF ReleaseCAS, ReleaseFailedCAS, CasMove
<1>3. ASSUME ReleasePush(t) PROVE PushMove(t)
  <2>1. /\ ppc[t] = "relLock" /\ ppc'[t] = (IF closed THEN "relStop" ELSE "slot")
        /\ free' = IF closed THEN free ELSE Append(free, pinst[t])
        /\ UNCHANGED <<all, nextIdx, closed, gen, lost, pinst, ptok, pret>>
    BY <1>1, <1>3, PoolFrameTypes, Zenon DEF ReleasePush, Goto
  <2>2. free \in Seq(Instances) /\ pinst[t] \in Instances
    BY <1>1, <2>1, PoolFrameTypes, Zenon DEF PoolFacts, OnInstance
  <2>3. CASE closed
    BY <2>1, <2>3, Zenon DEF PushMove
  <2>4. CASE ~closed
    <3>1. \A i \in Instances : OnStack(i)' <=> OnStack(i) \/ pinst[t] = i
      BY <2>1, <2>2, <2>4, StackMoves, Zenon
    <3> QED
      BY <2>1, <2>4, <3>1, Zenon DEF PushMove
  <2> QED
    BY <2>3, <2>4, Zenon
<1>4. ASSUME CloseMark(t) PROVE CloseMove(t)
  BY <1>1, <1>4, PoolFrameTypes, Zenon DEF CloseMark, Goto, CloseMove
<1>5. ASSUME SlotBackThenStop(t) PROVE SlotStopMove(t)
  <2>1. ppc[t] = "slotStop" /\ ReturnSlot(t, "stopRet", "ErrPoolClosed")
    BY <1>5, Zenon DEF SlotBackThenStop
  <2>2. Bounded => sem < MaxSize
    BY <2>1, Zenon DEF PoolFacts, NeverFull
  <2>3. ~(Bounded /\ sem >= MaxSize)
    BY <1>1, <2>2, MaxSizeAssumption DEF PoolTypeOK
  <2> QED
    BY <1>1, <2>1, <2>3, PoolFrameTypes, Zenon DEF ReturnSlot, SlotStopMove
<1> QED
  BY <1>2, <1>3, <1>4, <1>5, Zenon

(* Steps inside Start: no Stop moves.                                      *)
LEMMA StartSteps ==
    ASSUME InstInv, NEW t \in Threads, UNCHANGED <<mgrVars, poolVars>>, StartStep(t)
    PROVE  InstMove(t)
<1>1. /\ spc \in [Threads -> StartPC] /\ sok \in [Threads -> BOOLEAN]
      /\ started \in [Instances -> BOOLEAN] /\ stack \in [Instances -> Stacks \cup {None}]
      /\ running \in [Instances -> SUBSET Stacks]
  BY Zenon DEF InstInv, InstTypeOK
<1>2. spc[t] # "no"
  BY Zenon DEF StartStep, StartAlready, StartLock, StartLaunch, StartLaunchErr, StartInstall,
               StartPublish, StartTeardown
<1>3. sinst[t] \in Instances
  BY <1>2, Zenon DEF InstInv, FramesOK
<1>4. ASSUME UNCHANGED <<sinst, xpc>>,
             \A u \in Threads : u # t => spc'[u] = spc[u] /\ sok'[u] = sok[u],
             spc'[t] = "done" /\ sok'[t] => started'[sinst[t]],
             \A i \in Instances :
                 /\ started[i] => started'[i]
                 /\ stack'[i] # None => stack[i] # None \/ sinst[t] = i
                 /\ \/ running'[i] \subseteq running[i]
                    \/ /\ spc[t] = "launch" /\ sinst[t] = i
                       /\ \E s \in Stacks : running'[i] = running[i] \cup {s}
      PROVE  InstMove(t)
  <2>1. \A u \in Threads :
            /\ spc'[u] # "no" => spc[u] # "no"
            /\ spc'[u] = "done" /\ sok'[u] => started'[sinst[u]] \/ (spc[u] = "done" /\ sok[u])
    BY <1>2, <1>4, Zenon
  <2>2. \A i \in Instances :
            /\ started[i] => started'[i] \/ \E u \in Threads : xpc[<<u, i>>] = "clear"
            /\ stack'[i] # None =>
                  stack[i] # None \/ \E u \in Threads : spc[u] # "no" /\ sinst[u] = i
            /\ \/ running'[i] \subseteq running[i]
               \/ /\ \E u \in Threads : spc[u] = "launch" /\ sinst[u] = i
                  /\ \E s \in Stacks : running'[i] = running[i] \cup {s}
    BY <1>2, <1>4, Zenon
  <2>3. UNCHANGED <<sinst, xpc>>
    BY <1>4, Zenon
  <2> QED
    BY <2>1, <2>2, <2>3, Zenon DEF InstMove
<1>5. ASSUME NEW ok, StartReturns(t, ok)
      PROVE  /\ spc'[t] = "done" /\ sok'[t] = ok /\ UNCHANGED sinst
             /\ \A u \in Threads : u # t => spc'[u] = spc[u] /\ sok'[u] = sok[u]
  BY <1>1, <1>5, Zenon DEF StartReturns
<1>6. CASE StartAlready(t)
  <2>1. /\ StartReturns(t, TRUE) /\ started[sinst[t]]
        /\ UNCHANGED <<started, stack, running, xpc>>
    BY <1>6, Zenon DEF StartAlready, stopFrame
  <2> QED
    BY <1>4, <1>5, <2>1, Zenon
<1>7. CASE StartLock(t)
  <2>1. /\ spc' = [spc EXCEPT ![t] = "launch"]
        /\ UNCHANGED <<sok, sinst, started, stack, running, xpc>>
    BY <1>7, Zenon DEF StartLock, stopFrame
  <2>2. spc'[t] = "launch" /\ \A u \in Threads : u # t => spc'[u] = spc[u]
    BY <1>1, <2>1, Zenon
  <2> QED
    BY <1>4, <2>1, <2>2, Zenon
<1>8. CASE StartLaunch(t)
  <2>1. PICK s \in Stacks : Launched(t, s)
    BY <1>8, Zenon DEF StartLaunch
  <2>2. /\ spc[t] = "launch" /\ spc' = [spc EXCEPT ![t] = "verify"]
        /\ running' = [running EXCEPT ![sinst[t]] = @ \cup {s}]
        /\ UNCHANGED <<sok, sinst, started, stack, xpc>>
    BY <2>1, Zenon DEF Launched, stopFrame
  <2>3. spc'[t] = "verify" /\ \A u \in Threads : u # t => spc'[u] = spc[u]
    BY <1>1, <2>2, Zenon
  <2>4. \A i \in Instances : \/ running'[i] \subseteq running[i]
                             \/ sinst[t] = i /\ running'[i] = running[i] \cup {s}
    BY <1>1, <1>3, <2>2, Zenon
  <2> QED
    BY <1>4, <2>2, <2>3, <2>4, Zenon
<1>9. CASE StartLaunchErr(t)
  <2>1. StartReturns(t, FALSE) /\ UNCHANGED <<started, stack, running, xpc>>
    BY <1>9, Zenon DEF StartLaunchErr, stopFrame
  <2> QED
    BY <1>4, <1>5, <2>1, Zenon
<1>10. CASE StartInstall(t)
  <2>1. /\ stack' = [stack EXCEPT ![sinst[t]] = sref[t]] /\ spc' = [spc EXCEPT ![t] = "publish"]
        /\ UNCHANGED <<sok, sinst, started, running, xpc>>
    BY <1>10, Zenon DEF StartInstall, stopFrame
  <2>2. spc'[t] = "publish" /\ \A u \in Threads : u # t => spc'[u] = spc[u]
    BY <1>1, <2>1, Zenon
  <2>3. \A i \in Instances : sinst[t] # i => stack'[i] = stack[i]
    BY <1>1, <1>3, <2>1, Zenon
  <2> QED
    BY <1>4, <2>1, <2>2, <2>3, Zenon
<1>12. CASE StartPublish(t)
  <2>1. /\ StartReturns(t, TRUE) /\ UNCHANGED <<stack, running, xpc>>
        /\ started' = [started EXCEPT ![sinst[t]] = TRUE]
    BY <1>12, Zenon DEF StartPublish, stopFrame
  <2>2. started'[sinst[t]] /\ \A i \in Instances : started[i] => started'[i]
    BY <1>1, <1>3, <2>1, Zenon
  <2> QED
    BY <1>4, <1>5, <2>1, <2>2, Zenon
<1>11. CASE StartTeardown(t)
  <2>1. /\ running' = [running EXCEPT ![sinst[t]] = @ \ {sref[t]}]
        /\ UNCHANGED <<started, stack, xpc>>
        /\ \/ StartReturns(t, FALSE)
           \/ spc' = [spc EXCEPT ![t] = "launch"] /\ UNCHANGED <<sinst, sok>>
    BY <1>11, Zenon DEF StartTeardown, stopFrame
  <2>2. \A i \in Instances : running'[i] \subseteq running[i]
    BY <1>1, <1>3, <2>1, Zenon
  <2>3. /\ UNCHANGED sinst
        /\ \A u \in Threads : u # t => spc'[u] = spc[u] /\ sok'[u] = sok[u]
        /\ ~(spc'[t] = "done" /\ sok'[t])
    BY <1>1, <1>5, <2>1, Zenon
  <2> QED
    BY <1>4, <2>1, <2>2, <2>3, Zenon
<1> QED
  BY <1>6, <1>7, <1>8, <1>9, <1>10, <1>11, <1>12, Zenon DEF StartStep

(* Steps inside Stop: no Start moves.                                      *)
LEMMA StopStageSteps ==
    ASSUME InstInv, NEW t \in Threads, UNCHANGED <<mgrVars, poolVars>>,
           NEW j \in Instances, StopStep(t, j)
    PROVE  InstMove(t)
<1>1. /\ xpc \in [Threads \X Instances -> StopStages]
      /\ started \in [Instances -> BOOLEAN] /\ stack \in [Instances -> Stacks \cup {None}]
      /\ running \in [Instances -> SUBSET Stacks]
  BY Zenon DEF InstInv, InstTypeOK
<1>2. /\ UNCHANGED <<spc, sinst, sok>>
      /\ \E p \in {"clear", "close", "kill", "done"} : xpc' = [xpc EXCEPT ![<<t, j>>] = p]
  BY ZenonT(30) DEF StopStep, StopExtract, StopUnpublish, StopClosePurge, StopKill, startFrame
<1>3. /\ xpc'[<<t, j>>] \in {"clear", "close", "kill", "done"}
      /\ \A u \in Threads, i \in Instances : <<u, i>> # <<t, j>> => xpc'[<<u, i>>] = xpc[<<u, i>>]
  BY <1>1, <1>2, Zenon
<1>4. \/ xpc[<<t, j>>] = "lock" /\ stack'[j] = None
      \/ xpc[<<t, j>>] \in {"clear", "close", "kill"}
  BY <1>1, Zenon DEF StopStep, StopExtract, StopUnpublish, StopClosePurge, StopKill
<1>5. \A u \in Threads, i \in Instances :
         /\ xpc'[<<u, i>>] # "no" => xpc[<<u, i>>] # "no"
         /\ xpc[<<u, i>>] = "lock" => xpc'[<<u, i>>] = "lock" \/ stack'[i] = None
         /\ xpc'[<<u, i>>] \in {"clear", "close", "kill", "done"} =>
               xpc[<<u, i>>] \in {"clear", "close", "kill", "done"} \/ stack'[i] = None
  <2>1. SUFFICES ASSUME NEW u \in Threads, NEW i \in Instances
                 PROVE  /\ xpc'[<<u, i>>] # "no" => xpc[<<u, i>>] # "no"
                        /\ xpc[<<u, i>>] = "lock" => xpc'[<<u, i>>] = "lock" \/ stack'[i] = None
                        /\ xpc'[<<u, i>>] \in {"clear", "close", "kill", "done"} =>
                              xpc[<<u, i>>] \in {"clear", "close", "kill", "done"} \/ stack'[i] = None
    BY Zenon
  <2>2. CASE <<u, i>> = <<t, j>>
    <3>1. u = t /\ i = j
      BY <2>2, Zenon
    <3> QED
      BY <1>3, <1>4, <3>1, Zenon
  <2>3. CASE <<u, i>> # <<t, j>>
    BY <1>3, <2>3, Zenon
  <2> QED
    BY <2>2, <2>3, Zenon
<1>6. \A i \in Instances :
         /\ started[i] => started'[i] \/ \E u \in Threads : xpc[<<u, i>>] = "clear"
         /\ stack'[i] # None => stack[i] # None
         /\ running'[i] \subseteq running[i]
  <2>1. CASE StopExtract(t, j)
    <3>1. UNCHANGED <<started, running>> /\ stack' = [stack EXCEPT ![j] = None]
      BY <2>1, Zenon DEF StopExtract
    <3> QED
      BY <1>1, <3>1, Zenon
  <2>4. CASE StopUnpublish(t, j)
    <3>1. /\ xpc[<<t, j>>] = "clear" /\ UNCHANGED <<stack, running>>
          /\ started' = [started EXCEPT ![j] = FALSE]
      BY <2>4, Zenon DEF StopUnpublish
    <3> QED
      BY <1>1, <3>1, Zenon
  <2>2. CASE StopClosePurge(t, j)
    <3>1. UNCHANGED <<running, started, stack>>
      BY <2>2, Zenon DEF StopClosePurge
    <3> QED
      BY <3>1, Zenon
  <2>3. CASE StopKill(t, j)
    <3>1. /\ running' = [running EXCEPT ![j] = @ \ {xstack[<<t, j>>]}]
          /\ UNCHANGED <<started, stack>>
      BY <2>3, Zenon DEF StopKill
    <3> QED
      BY <1>1, <3>1, Zenon
  <2> QED
    BY <2>1, <2>2, <2>3, <2>4, Zenon DEF StopStep
<1> QED
  BY <1>2, <1>5, <1>6, Zenon DEF InstMove

PoolOwnStep(t) == PoolStep(t) \/ PoolStopDone(t) \/ PoolEnv(t)

LEMMA PoolOthersKept ==
    ASSUME PoolTypeOK, NEW t \in Threads, PoolOwnStep(t) \/ UNCHANGED poolVars
    PROVE  PoolOthers(t)
<1> USE PoolFrameTypes
<1>1. CASE AcquireSlot(t) \/ AcquireClosed(t) \/ AcquireLockClosed(t) \/ AcquirePop(t)
  BY <1>1, Zenon DEF AcquireSlot, AcquireClosed, AcquireLockClosed, AcquirePop, Goto, Return,
                     PoolOthers
<1>2. CASE AcquireReserve(t) \/ AcquireRegister(t) \/ AcquireMark(t)
  BY <1>2, Zenon DEF AcquireReserve, AcquireRegister, AcquireMark, Goto, PoolOthers
<1>3. CASE SlotBack(t) \/ SlotBackThenStop(t)
  BY <1>3, Zenon DEF SlotBack, SlotBackThenStop, ReturnSlot, PoolOthers
<1>4. CASE ReleaseCAS(t) \/ ReleaseFailedCAS(t)
  BY <1>4, Zenon DEF ReleaseCAS, ReleaseFailedCAS, MustRelease, PoolOthers
<1>5. CASE ReleasePush(t) \/ CloseMark(t) \/ CloseChannel(t) \/ PoolStopDone(t)
  BY <1>5, Zenon DEF ReleasePush, CloseMark, CloseChannel, PoolStopDone, Goto, Return, PoolOthers
<1>6. CASE AcquireCall(t) \/ CloseCall(t) \/ PoolConsume(t)
  BY <1>6, Zenon DEF AcquireCall, CloseCall, PoolConsume, Goto, PoolOthers
<1>7. CASE AcquireCtxDone(t) \/ AcquireFactoryErr(t)
  BY <1>7, Zenon DEF AcquireCtxDone, AcquireFactoryErr, Return, PoolOthers
<1>8. ASSUME NEW i, NEW k, NEW p, ReleaseCall(t, i, k, p)
      PROVE  PoolOthers(t)
  BY <1>8, Zenon DEF ReleaseCall, PoolOthers
<1>9. ASSUME NEW i, NEW k, Abandon(t, i, k)
      PROVE  PoolOthers(t)
  BY <1>9, Zenon DEF Abandon, PoolOthers
<1>10. CASE UNCHANGED poolVars
  BY <1>10, Zenon DEF poolVars, PoolOthers
<1>11. CASE PoolStep(t)
  BY <1>1, <1>2, <1>3, <1>4, <1>5, <1>11, Zenon DEF PoolStep
<1>12. CASE PoolEnv(t)
  BY <1>6, <1>7, <1>8, <1>9, <1>12, Zenon DEF PoolEnv
<1> QED
  BY <1>5, <1>10, <1>11, <1>12, Zenon DEF PoolOwnStep

LEMMA CallOthersKept ==
    ASSUME InstTypeOK, NEW t \in Threads, InstStep(t) \/ UNCHANGED instVars
    PROVE  CallOthers(t)
<1>1. /\ spc \in [Threads -> StartPC] /\ sinst \in [Threads -> Instances \cup {NoInst}]
      /\ sok \in [Threads -> BOOLEAN] /\ xpc \in [Threads \X Instances -> StopStages]
  BY Zenon DEF InstTypeOK
<1>2. \A u \in Threads, i \in Instances : <<u, i>> \in Threads \X Instances
  BY Zenon
<1>3. ASSUME NEW i, StartCall(t, i) PROVE CallOthers(t)
  BY <1>1, <1>3, Zenon DEF StartCall, stopFrame, CallOthers
<1>4. CASE StartAlready(t) \/ StartLock(t) \/ StartLaunchErr(t)
  BY <1>1, <1>4, Zenon DEF StartAlready, StartLock, StartLaunchErr, StartReturns, stopFrame,
                           CallOthers
<1>5. CASE StartInstall(t) \/ StartPublish(t) \/ StartTeardown(t) \/ StartConsume(t)
  BY <1>1, <1>5, Zenon DEF StartInstall, StartPublish, StartTeardown, StartConsume, StartReturns, stopFrame,
                           CallOthers
<1>6. ASSUME NEW s, Launched(t, s) PROVE CallOthers(t)
  BY <1>1, <1>6, Zenon DEF Launched, stopFrame, CallOthers
<1>7. ASSUME NEW insts, StopCall(t, insts) PROVE CallOthers(t)
  BY <1>2, <1>7 DEF StopCall, startFrame, CallOthers
<1>8. CASE StopConsume(t)
  BY <1>2, <1>8 DEF StopConsume, startFrame, CallOthers
<1>9. ASSUME NEW i \in Instances,
             StopExtract(t, i) \/ StopUnpublish(t, i) \/ StopClosePurge(t, i) \/ StopKill(t, i)
      PROVE  CallOthers(t)
  BY <1>1, <1>2, <1>9 DEF StopExtract, StopUnpublish, StopClosePurge, StopKill, startFrame, CallOthers
<1>10. CASE UNCHANGED instVars
  BY <1>10, Zenon DEF instVars, startFrame, stopFrame, CallOthers
<1> QED
  BY <1>3, <1>4, <1>5, <1>6, <1>7, <1>8, <1>9, <1>10, Zenon DEF InstStep

LEMMA ApiUnchanged ==
    ASSUME NEW t, Move(t)
    PROVE  UNCHANGED apiVars \/ GrantMove(t) \/ WriteMove(t) \/ TakeMove(t) \/ WipeMove(t)
<1>1. CASE MgrMove(t)
  BY <1>1, Zenon DEF MgrMove, LocalMove, EnterMove, PresentMove, ReceiveMove, LeaveMove,
     GiveUpMove, GiveUpDoneMove, StopAllMove, ReturnMove, StartMove
<1>2. CASE UNCHANGED mgrVars
  BY <1>2, Zenon DEF mgrVars
<1>3. CASE PoolMove(t)
  BY <1>2, <1>3, Zenon DEF PoolMove, QuietMove, PopMove, ReserveMove, FactoryErrMove,
     RegisterMove, MarkMove, CasMove, PushMove, CloseMove, SlotStopMove
<1> QED
  BY <1>1, <1>2, <1>3, Zenon DEF Move, StopMove, PoolStopMove, InstMove

LEMMA HeldTypes ==
    ASSUME MgrTypes
    PROVE  \A w \in Held : w[1] \in Instances /\ w[2] \in Nat /\ w = <<w[1], w[2]>>
  BY DEF MgrTypes, Held

(* What the kinds of steps do to the fields of the pool.                   *)
LEMMA PoolFieldsKept ==
    ASSUME NEW t, Move(t), ~PoolMove(t), ~GiveUpMove(t)
    PROVE  free' = free /\ all' = all /\ nextIdx' = nextIdx /\ closed' = closed /\ gen' = gen
<1>1. CASE UNCHANGED poolShared \/ UNCHANGED poolVars
  BY <1>1, Zenon DEF poolShared, poolVars
<1>2. CASE EnterMove(t)
  BY <1>2, Zenon DEF EnterMove
<1>3. CASE MgrMove(t) /\ ~EnterMove(t)
  BY <1>1, <1>3, Zenon DEF MgrMove, LocalMove, GrantMove, WriteMove, TakeMove, WipeMove,
     PresentMove, ReceiveMove, LeaveMove, GiveUpDoneMove, StopAllMove, ReturnMove, StartMove
<1>4. CASE StopMove(t) \/ PoolStopMove(t) \/ InstMove(t)
  BY <1>1, <1>4, Zenon DEF StopMove, PoolStopMove, InstMove
<1> QED
  BY <1>2, <1>3, <1>4, Zenon DEF Move

LEMMA PoolGrows ==
    ASSUME PoolTypeOK, NEW t, Move(t)
    PROVE  /\ closed => closed'
           /\ all \subseteq all'
           /\ nextIdx \in Nat /\ nextIdx' \in Nat /\ nextIdx <= nextIdx'
<1>1. nextIdx \in Nat
  BY MaxIdxAssumption DEF PoolTypeOK
<1>2. CASE ~PoolMove(t)
  <2>1. closed' = closed /\ all' = all /\ nextIdx' = nextIdx
    BY <1>2, PoolFieldsKept, Zenon DEF GiveUpMove
  <2> QED
    BY <1>1, <2>1
<1>3. CASE PoolMove(t)
  <2>1. closed => closed'
    BY <1>3, Zenon DEF PoolMove, QuietMove, PopMove, ReserveMove, FactoryErrMove, RegisterMove,
       MarkMove, CasMove, PushMove, CloseMove, SlotStopMove
  <2>2. all \subseteq all'
    BY <1>3, Zenon DEF PoolMove, QuietMove, PopMove, ReserveMove, FactoryErrMove, RegisterMove,
       MarkMove, CasMove, PushMove, CloseMove, SlotStopMove
  <2>3. nextIdx' = nextIdx \/ nextIdx' = nextIdx + 1
    BY <1>3, Zenon DEF PoolMove, QuietMove, PopMove, ReserveMove, FactoryErrMove, RegisterMove,
       MarkMove, CasMove, PushMove, CloseMove, SlotStopMove
  <2> QED
    BY <1>1, <2>1, <2>2, <2>3
<1> QED
  BY <1>2, <1>3, Zenon

LEMMA AllKinds ==
    ASSUME NEW t, Move(t)
    PROVE  all' = all \/ RegisterMove(t)
<1>1. CASE ~PoolMove(t)
  BY <1>1, PoolFieldsKept, Zenon DEF GiveUpMove
<1>2. CASE PoolMove(t)
  BY <1>2, Zenon DEF PoolMove, QuietMove, PopMove, ReserveMove, FactoryErrMove, MarkMove, CasMove,
     PushMove, CloseMove, SlotStopMove
<1> QED
  BY <1>1, <1>2, Zenon

(* Nobody has a pool, or anything from it, before it is set.               *)
LEMMA NoPool ==
    ASSUME MgrTypes, PoolFacts, Holders, SetUp, ~poolSet
    PROVE  Held = {}
<1>1. ASSUME NEW w \in Held PROVE FALSE
  <2>1. w[1] \in Instances /\ IsBusy(w[1])
    BY HeldTypes, Zenon DEF Holders, HeldOK
  <2> QED
    BY <2>1, Zenon DEF PoolFacts, AllTracked, SetUp
<1> QED
  BY <1>1, Zenon

(* Close and the giving up of slots.                                       *)
LEMMA ClosedKinds ==
    ASSUME NEW t, Move(t)
    PROVE  /\ closed' = closed \/ CloseMove(t)
           /\ lost' = lost \/ GiveUpMove(t)
<1>1. CASE ~PoolMove(t) /\ ~GiveUpMove(t)
  <2>1. closed' = closed
    BY <1>1, PoolFieldsKept, Zenon
  <2>2. lost' = lost
    BY <1>1, Zenon DEF Move, MgrMove, LocalMove, GrantMove, WriteMove, TakeMove, WipeMove,
       EnterMove, PresentMove, ReceiveMove, LeaveMove, GiveUpDoneMove, StopAllMove, ReturnMove,
       StartMove, StopMove, PoolStopMove, InstMove, poolVars, poolShared
  <2> QED
    BY <2>1, <2>2, Zenon
<1>2. CASE PoolMove(t)
  BY <1>2, Zenon DEF PoolMove, QuietMove, PopMove, ReserveMove, FactoryErrMove, RegisterMove,
     MarkMove, CasMove, PushMove, CloseMove, SlotStopMove
<1>3. CASE GiveUpMove(t)
  BY <1>3, Zenon DEF GiveUpMove
<1> QED
  BY <1>1, <1>2, <1>3, Zenon

(* Outside the calls no place is one of a call.                            *)
LEMMA PlacesApart ==
    /\ \A p \in Resting : p \notin HolderPC \cup StopCalls \cup PoolCalls \cup {"sStop"}
    /\ \A p \in HolderPC : p \notin StopCalls \cup PoolCalls \cup {"sStop"}
    /\ \A p \in StopCalls : p \notin PoolCalls \cup {"sStop"}
    /\ "sStop" \notin PoolCalls /\ "aStarting" \in HolderPC
  BY Zenon DEF Resting, HolderPC, StopCalls, PoolCalls, InitPC

-----------------------------------------------------------------------------
(* What the kinds of steps can change, and the parts of the invariant that *)
(* follow from that alone.  Stops that are called, and that have returned. *)
LEMMA StopCallFrame ==
    ASSUME NEW t \in Threads, NEW insts, StopCall(t, insts)
    PROVE  /\ started' = started /\ stack' = stack /\ running' = running
           /\ spc' = spc /\ sinst' = sinst /\ sok' = sok
           /\ \A i \in Instances :
                 xpc'[<<t, i>>] = IF i \in insts THEN "lock" ELSE xpc[<<t, i>>]
<1>1. \A i \in Instances : <<t, i>> \in Threads \X Instances
  BY Zenon
<1>2. UNCHANGED <<started, stack, running, spc, sinst, sok>>
  BY Zenon DEF StopCall, startFrame
<1> QED
  BY <1>1, <1>2 DEF StopCall


LEMMA StopConsumeFrame ==
    ASSUME NEW t \in Threads, StopConsume(t)
    PROVE  /\ started' = started /\ stack' = stack /\ running' = running
           /\ spc' = spc /\ sinst' = sinst /\ sok' = sok
           /\ \A i \in Instances : xpc[<<t, i>>] \in {"no", "done"}
           /\ \A i \in Instances : xpc'[<<t, i>>] = "no"
<1>1. \A i \in Instances : <<t, i>> \in Threads \X Instances
  BY Zenon
<1>2. UNCHANGED <<started, stack, running, spc, sinst, sok>>
  BY Zenon DEF StopConsume, startFrame
<1> QED
  BY <1>1, <1>2 DEF StopConsume

(* The free stack grows in Release and shrinks in Acquire and Close.       *)
LEMMA StackKinds ==
    ASSUME PoolFacts, NEW t, Move(t), NEW i \in Instances
    PROVE  /\ OnStack(i)' => OnStack(i) \/ (ppc[t] = "relLock" /\ ~closed /\ pinst[t] = i)
           /\ OnStack(i) => \/ OnStack(i)'
                            \/ ppc'[t] = "mark" /\ pinst'[t] = i
                            \/ CloseMove(t)
           /\ PushMove(t) /\ pinst[t] = i => OnStack(i)' \/ ppc'[t] = "relStop"
<1>1. free' = free => (OnStack(i)' <=> OnStack(i))
  BY Zenon DEF OnStack
<1>2. CASE ~PoolMove(t)
  <2>1. free' = free /\ ~PushMove(t)
    BY <1>2, PoolFieldsKept, Zenon DEF GiveUpMove, PoolMove
  <2> QED
    BY <1>1, <2>1, Zenon
<1>3. CASE PopMove(t)
  BY <1>3, Zenon DEF PopMove, PushMove
<1>4. CASE PushMove(t)
  BY <1>1, <1>4, Zenon DEF PushMove
<1>5. CASE CloseMove(t)
  <2>1. ~OnStack(i)'
    BY <1>5, StackMoves, Zenon DEF CloseMove, PoolFacts, PoolTypeOK
  <2> QED
    BY <1>5, <2>1, Zenon DEF CloseMove, PushMove
<1>6. CASE PoolMove(t) /\ ~PopMove(t) /\ ~PushMove(t) /\ ~CloseMove(t)
  <2>1. free' = free
    BY <1>6, Zenon DEF PoolMove, QuietMove, ReserveMove, FactoryErrMove, RegisterMove, MarkMove,
       CasMove, SlotStopMove
  <2> QED
    BY <1>1, <1>6, <2>1, Zenon
<1> QED
  BY <1>2, <1>3, <1>4, <1>5, <1>6, Zenon

(* A goroutine gets an instance in hand from the free stack, as a new      *)
(* index, or from its holder.                                              *)
LEMMA HandKinds ==
    ASSUME PoolFacts, Holders, NEW t \in Threads, Move(t), NEW i \in Instances,
           ppc'[t] \in {"factory", "mark", "relLock"}, pinst'[t] = i
    PROVE  \/ ppc[t] = ppc'[t] /\ pinst[t] = i
           \/ ppc[t] = "factory" /\ ppc'[t] = "mark" /\ pinst[t] = i
           \/ ppc[t] = "lock" /\ ppc'[t] = "mark" /\ OnStack(i)
           \/ ReserveMove(t) /\ i = nextIdx
           \/ ppc[t] = "release" /\ ppc'[t] = "relLock" /\ pinst[t] = i /\ IsBusy(i)
<1>1. CASE ppc' = ppc /\ pinst' = pinst
  BY <1>1, Zenon
<1>2. CASE PoolMove(t) /\ ~CasMove(t)
  BY <1>2, Zenon DEF PoolMove, QuietMove, PopMove, ReserveMove, FactoryErrMove, RegisterMove,
     MarkMove, PushMove, CloseMove, SlotStopMove
<1>3. CASE CasMove(t)
  <2>1. ppc[t] = "release" /\ ppc'[t] = "relLock" /\ pinst[t] = i
    BY <1>3, Zenon DEF CasMove
  <2>2. ptok[t] \in Nat
    BY PoolFrameTypes, Zenon DEF PoolFacts
  <2>3. Has(t, i, ptok[t])
    BY <2>1, Zenon DEF Has, Presents
  <2> QED
    BY <2>1, <2>2, <2>3, Zenon DEF Holders, HasOK
<1>4. CASE \/ EnterMove(t) \/ PresentMove(t) \/ ReceiveMove(t) \/ LeaveMove(t) \/ StopAllMove(t)
           \/ PoolStopMove(t)
  BY <1>4, Zenon DEF EnterMove, PresentMove, ReceiveMove, LeaveMove, StopAllMove, PoolStopMove
<1>5. CASE \/ LocalMove(t) \/ GrantMove(t) \/ WriteMove(t) \/ TakeMove(t) \/ WipeMove(t)
           \/ GiveUpDoneMove(t) \/ ReturnMove(t) \/ StartMove(t) \/ StopMove(t) \/ InstMove(t)
  <2>1. UNCHANGED poolVars
    BY <1>5, Zenon DEF LocalMove, GrantMove, WriteMove, TakeMove, WipeMove, GiveUpDoneMove,
       ReturnMove, StartMove, StopMove, InstMove
  <2> QED
    BY <1>1, <2>1, PoolParts, Zenon
<1>6. CASE GiveUpMove(t)
  BY <1>1, <1>6, Zenon DEF GiveUpMove
<1> QED
  BY <1>2, <1>3, <1>4, <1>5, <1>6, Zenon DEF Move, MgrMove

(* An instance that was busy, or in hand for being stopped, is gone when   *)
(* its end begins.                                                         *)
LEMMA EndingKinds ==
    ASSUME Link, NEW t \in Threads, Move(t), NEW i \in Instances, Ending(t, i)'
    PROVE  \/ Ending(t, i)
           \/ GiveUpMove(t) /\ minst[t] = i
           \/ CasMove(t) /\ ppc'[t] = "failStop" /\ pinst[t] = i
           \/ /\ PushMove(t) /\ closed /\ free' = free /\ ppc'[t] = "relStop" /\ pinst[t] = i
           \/ SlotStopMove(t) /\ pinst[t] = i
<1>1. CASE mpc' = mpc /\ minst' = minst /\ ppc' = ppc /\ pinst' = pinst
  BY <1>1, Zenon DEF Ending
<1>2. CASE PoolMove(t)
  <2>1. mpc' = mpc /\ minst' = minst
    BY <1>2, Zenon DEF PoolMove, QuietMove, PopMove, ReserveMove, FactoryErrMove, RegisterMove,
       MarkMove, CasMove, PushMove, CloseMove, SlotStopMove, mgrVars, mgrFrame
  <2>2. CASE mpc'[t] \in StopCalls /\ minst'[t] = i
    BY <2>1, <2>2, Zenon DEF Ending
  <2>3. CASE ppc'[t] \in StopPC /\ pinst'[t] = i
    BY <1>2, <2>3, Zenon DEF PoolMove, QuietMove, PopMove, ReserveMove, FactoryErrMove,
       RegisterMove, MarkMove, CasMove, PushMove, CloseMove, SlotStopMove, StopPC
  <2> QED
    BY <2>2, <2>3, Zenon DEF Ending
<1>3. CASE StopMove(t) \/ InstMove(t) \/ WriteMove(t)
  <2>1. UNCHANGED poolVars /\ UNCHANGED mgrFrame
    BY <1>3, Zenon DEF StopMove, InstMove, WriteMove, mgrVars
  <2> QED
    BY <1>1, <2>1, PoolParts, Zenon DEF mgrFrame
<1>4. CASE PoolStopMove(t)
  <2>1. mpc' = mpc /\ minst' = minst /\ ppc'[t] \notin StopPC
    BY <1>4, Zenon DEF PoolStopMove, mgrVars, mgrFrame, StopPC
  <2> QED
    BY <2>1, Zenon DEF Ending
<1>5. CASE LocalMove(t) \/ GrantMove(t) \/ TakeMove(t) \/ WipeMove(t)
           \/ GiveUpDoneMove(t) \/ ReturnMove(t) \/ StartMove(t)
  <2>1. UNCHANGED poolVars /\ mpc'[t] \notin StopCalls
    BY <1>5, PlacesApart, RestingPlaces, HolderPlaces, Zenon DEF LocalMove, GrantMove, TakeMove, WipeMove,
       GiveUpDoneMove, ReturnMove, StartMove, StopCalls
  <2> QED
    BY <2>1, PoolParts, Zenon DEF Ending
<1>6. CASE EnterMove(t) \/ PresentMove(t) \/ ReceiveMove(t) \/ LeaveMove(t) \/ StopAllMove(t)
  <2>1. ppc'[t] \notin StopPC /\ mpc'[t] \notin StopCalls
    BY <1>6, PlacesApart, Zenon DEF EnterMove, PresentMove, ReceiveMove, LeaveMove, StopAllMove,
       StopPC, StopCalls
  <2> QED
    BY <2>1, Zenon DEF Ending
<1>7. CASE GiveUpMove(t)
  <2>1. mpc[t] \in HolderPC /\ minst'[t] = minst[t] /\ ppc' = ppc /\ pinst' = pinst
    BY <1>7, HolderPlaces, Zenon DEF GiveUpMove
  <2> QED
    BY <1>7, <2>1, Zenon DEF Ending
<1> QED
  BY <1>2, <1>3, <1>4, <1>5, <1>6, <1>7, Zenon DEF Move, MgrMove

(* Stop is called for an instance that is being ended, or for all.         *)
LEMMA StopKinds ==
    ASSUME InstTypeOK, NEW t \in Threads, Move(t), NEW i \in Instances, xpc'[<<t, i>>] # "no"
    PROVE  \/ xpc[<<t, i>>] # "no"
           \/ StopMove(t) /\ Ending(t, i) /\ xpc'[<<t, i>>] = "lock"
           \/ StopAllMove(t) /\ i \in all /\ xpc'[<<t, i>>] = "lock"
<1>1. CASE xpc' = xpc
  BY <1>1, Zenon
<1>2. CASE StopMove(t)
  <2>1. PICK j \in Instances : Ending(t, j) /\ StopCall(t, {j})
    BY <1>2, Zenon DEF StopMove
  <2>2. xpc'[<<t, i>>] = IF i \in {j} THEN "lock" ELSE xpc[<<t, i>>]
    BY <2>1, StopCallFrame, Zenon
  <2>3. CASE i = j
    BY <1>2, <2>1, <2>2, <2>3, Zenon
  <2>4. CASE i # j
    BY <2>2, <2>4, Zenon
  <2> QED
    BY <2>3, <2>4, Zenon
<1>3. CASE StopAllMove(t)
  <2>1. StopCall(t, all)
    BY <1>3, Zenon DEF StopAllMove
  <2>2. xpc'[<<t, i>>] = IF i \in all THEN "lock" ELSE xpc[<<t, i>>]
    BY <2>1, StopCallFrame
  <2> QED
    BY <1>3, <2>2, Zenon
<1>4. CASE GiveUpDoneMove(t) \/ PoolStopMove(t) \/ ReturnMove(t)
  <2>1. xpc'[<<t, i>>] = "no"
    BY <1>4, StopConsumeFrame, Zenon DEF GiveUpDoneMove, PoolStopMove, ReturnMove
  <2> QED
    BY <2>1, Zenon
<1>5. CASE InstMove(t)
  BY <1>5 DEF InstMove
<1>6. CASE PoolMove(t)
  <2>1. UNCHANGED instVars
    BY <1>6, Zenon DEF PoolMove, QuietMove, PopMove, ReserveMove, FactoryErrMove, RegisterMove,
       MarkMove, CasMove, PushMove, CloseMove, SlotStopMove
  <2> QED
    BY <1>1, <2>1, InstParts, Zenon
<1>7. CASE \/ LocalMove(t) \/ WriteMove(t) \/ TakeMove(t) \/ WipeMove(t) \/ EnterMove(t)
           \/ ReceiveMove(t) \/ LeaveMove(t) \/ GiveUpMove(t)
  <2>1. UNCHANGED instVars
    BY <1>7, Zenon DEF LocalMove, WriteMove, TakeMove, WipeMove, EnterMove, ReceiveMove,
       LeaveMove, GiveUpMove
  <2> QED
    BY <1>1, <2>1, InstParts, Zenon
<1>8. CASE GrantMove(t) \/ PresentMove(t) \/ StartMove(t)
  BY <1>1, <1>8, Zenon DEF GrantMove, PresentMove, StartMove
<1> QED
  BY <1>2, <1>3, <1>4, <1>5, <1>6, <1>7, <1>8, Zenon DEF Move, MgrMove


LEMMA ClosedOKStep ==
    ASSUME PoolFacts, ClosedOK, Link, NEW t \in Threads, Move(t), MgrOthers(t), PoolOthers(t)
    PROVE  ClosedOK'
<1> USE DEF ClosedOK
<1>0. closed => closed'
  BY PoolGrows, Zenon DEF PoolFacts
<1>1. closed' => free' = <<>>
  <2>1. CASE free' = free /\ closed' = closed
    BY <2>1, Zenon
  <2>2. CASE CloseMove(t) \/ PopMove(t)
    BY <2>2, Zenon DEF CloseMove, PopMove
  <2>3. CASE PushMove(t)
    BY <2>3, Zenon DEF PushMove
  <2>4. CASE ~PoolMove(t)
    BY <2>1, <2>4, PoolFieldsKept, Zenon DEF GiveUpMove
  <2>5. CASE \/ QuietMove(t) \/ ReserveMove(t) \/ FactoryErrMove(t) \/ RegisterMove(t)
             \/ MarkMove(t) \/ CasMove(t) \/ SlotStopMove(t)
    BY <2>1, <2>5, Zenon DEF QuietMove, ReserveMove, FactoryErrMove, RegisterMove, MarkMove,
       CasMove, SlotStopMove
  <2> QED
    BY <2>2, <2>3, <2>4, <2>5, Zenon DEF PoolMove
<1>2. mpc'[t] = "sStop" => closed
  <2>1. CASE mpc'[t] = mpc[t]
    BY <2>1, Zenon
  <2>2. CASE StopAllMove(t)
    BY <2>2, Zenon DEF StopAllMove
  <2>3. CASE MgrMove(t) /\ ~WriteMove(t) /\ ~StopAllMove(t)
    <3>1. mpc'[t] # "sStop"
      BY <2>3, PlacesApart, Zenon DEF MgrMove, LocalMove, GrantMove, TakeMove, WipeMove,
         EnterMove, PresentMove, ReceiveMove, LeaveMove, GiveUpMove, GiveUpDoneMove, ReturnMove,
         StartMove, StopCalls
    <3> QED
      BY <3>1, Zenon
  <2>4. CASE PoolMove(t) \/ StopMove(t) \/ PoolStopMove(t) \/ InstMove(t)
    <3>1. UNCHANGED mgrVars
      BY <2>4, Zenon DEF PoolMove, QuietMove, PopMove, ReserveMove, FactoryErrMove, RegisterMove,
         MarkMove, CasMove, PushMove, CloseMove, SlotStopMove, StopMove, PoolStopMove, InstMove
    <3> QED
      BY <2>1, <3>1, Zenon DEF mgrVars, mgrFrame
  <2>5. CASE WriteMove(t)
    BY <2>1, <2>5, Zenon DEF WriteMove, mgrFrame
  <2> QED
    BY <2>2, <2>3, <2>4, <2>5, Zenon DEF Move
<1>3. mpc'[t] = "sClose" /\ ppc'[t] \in {"closeCh", "ret"} => closed'
  <2>1. CASE mpc'[t] = mpc[t] /\ ppc'[t] = ppc[t]
    BY <1>0, <2>1, Zenon
  <2>2. CASE MgrMove(t) /\ ~WriteMove(t)
    <3>1. mpc'[t] # "sClose" \/ ppc'[t] = "close"
      BY <2>2, PlacesApart, Zenon DEF MgrMove, LocalMove, GrantMove, TakeMove, WipeMove,
         EnterMove, PresentMove, ReceiveMove, LeaveMove, GiveUpMove, GiveUpDoneMove, ReturnMove,
         StartMove, StopAllMove, StopCalls, PoolCalls
    <3> QED
      BY <3>1, Zenon
  <2>3. CASE StopMove(t) \/ InstMove(t) \/ WriteMove(t)
    <3>1. UNCHANGED mgrFrame /\ UNCHANGED poolVars
      BY <2>3, Zenon DEF StopMove, InstMove, WriteMove, mgrVars
    <3> QED
      BY <2>1, <3>1, PoolParts, Zenon DEF mgrFrame
  <2>4. CASE PoolStopMove(t)
    <3>1. mpc' = mpc /\ ppc[t] \in StopPC
      BY <2>4, Zenon DEF PoolStopMove, mgrVars, mgrFrame
    <3>2. mpc[t] # "sClose"
      BY <3>1, Zenon DEF Link, Linked, StopPC
    <3> QED
      BY <3>1, <3>2, Zenon
  <2>5. CASE CloseMove(t)
    BY <2>5, Zenon DEF CloseMove
  <2>6. CASE PoolMove(t) /\ ~CloseMove(t)
    <3>1. mpc' = mpc
      BY <2>6, Zenon DEF PoolMove, QuietMove, PopMove, ReserveMove, FactoryErrMove, RegisterMove,
         MarkMove, CasMove, PushMove, SlotStopMove, mgrVars, mgrFrame
    <3>2. CASE ppc[t] = "closeCh"
      BY <1>0, <3>1, <3>2, Zenon
    <3>3. CASE ppc[t] # "closeCh" /\ ppc'[t] \in {"closeCh", "ret"}
      <4>1. ppc[t] \in {"select", "slot", "mark"}
        BY <2>6, <3>3, Zenon DEF PoolMove, QuietMove, PopMove, ReserveMove, FactoryErrMove,
           RegisterMove, MarkMove, CasMove, PushMove, SlotStopMove
      <4>2. mpc[t] # "sClose"
        BY <4>1, Zenon DEF Link, Linked
      <4> QED
        BY <3>1, <4>2, Zenon
    <3> QED
      BY <3>2, <3>3, Zenon
  <2> QED
    BY <2>2, <2>3, <2>4, <2>5, <2>6, Zenon DEF Move
<1>4. ASSUME NEW u \in Threads
      PROVE  /\ mpc'[u] = "sStop" => closed'
             /\ mpc'[u] = "sClose" /\ ppc'[u] \in {"closeCh", "ret"} => closed'
  <2>1. CASE u = t
    BY <1>0, <1>2, <1>3, <2>1, Zenon
  <2>2. CASE u # t
    BY <1>0, <2>2, Zenon DEF MgrOthers, PoolOthers
  <2> QED
    BY <2>1, <2>2, Zenon
<1> QED
  BY <1>1, <1>4, Zenon

(* Only a step inside Start or Stop changes what runs.                     *)
LEMMA InstKept ==
    ASSUME NEW t \in Threads, Move(t), ~InstMove(t)
    PROVE  /\ started' = started /\ stack' = stack /\ running' = running
           /\ spc'[t] = "done" => spc[t] = "done" /\ sinst'[t] = sinst[t] /\ sok'[t] = sok[t]
<1>1. CASE UNCHANGED instVars
  BY <1>1, InstParts, Zenon
<1>2. CASE PoolMove(t)
  BY <1>1, <1>2, Zenon DEF PoolMove, QuietMove, PopMove, ReserveMove, FactoryErrMove, RegisterMove,
     MarkMove, CasMove, PushMove, CloseMove, SlotStopMove
<1>3. CASE \/ LocalMove(t) \/ WriteMove(t) \/ TakeMove(t) \/ WipeMove(t) \/ EnterMove(t)
           \/ ReceiveMove(t) \/ LeaveMove(t) \/ GiveUpMove(t)
  BY <1>1, <1>3, Zenon DEF LocalMove, WriteMove, TakeMove, WipeMove, EnterMove, ReceiveMove,
     LeaveMove, GiveUpMove
<1>4. CASE GrantMove(t) \/ PresentMove(t) \/ StartMove(t)
  BY <1>4, Zenon DEF GrantMove, PresentMove, StartMove
<1>5. ASSUME NEW insts, StopCall(t, insts)
      PROVE  started' = started /\ stack' = stack /\ running' = running
             /\ spc' = spc /\ sinst' = sinst /\ sok' = sok
  BY <1>5, Zenon DEF StopCall, startFrame
<1>6. CASE StopMove(t)
  BY <1>5, <1>6, Zenon DEF StopMove
<1>7. CASE StopAllMove(t)
  <2>1. StopCall(t, all)
    BY <1>7, Zenon DEF StopAllMove
  <2>2. started' = started /\ stack' = stack /\ running' = running
        /\ spc' = spc /\ sinst' = sinst /\ sok' = sok
    BY <1>5, <2>1
  <2> QED
    BY <2>2, Zenon
<1>8. CASE GiveUpDoneMove(t) \/ PoolStopMove(t) \/ ReturnMove(t)
  BY <1>8, StopConsumeFrame, Zenon DEF GiveUpDoneMove, PoolStopMove, ReturnMove
<1> QED
  BY <1>2, <1>3, <1>4, <1>6, <1>7, <1>8, Zenon DEF Move, MgrMove

(* Who starts an instance holds it, so that nobody is stopping it.         *)
LEMMA StartersHold ==
    ASSUME MgrTypes, Link, HasOK, NEW u \in Threads, spc[u] # "no"
    PROVE  mpc[u] = "aStarting" /\ sinst[u] \in Instances /\ IsBusy(sinst[u])
           /\ sinst[u] = minst[u]
<1>1. mpc[u] = "aStarting" /\ sinst[u] = minst[u]
  BY Zenon DEF Link, Linked
<1>2. mpc[u] \in HolderPC
  BY <1>1, PlacesApart, Zenon
<1> QED
  BY <1>1, <1>2, HolderCurrent, Zenon

LEMMA OneStackStep ==
    ASSUME MgrTypes, PoolFacts, InstInv, Link, Holders, StopsGone, OneStack,
           NEW t \in Threads, Move(t)
    PROVE  OneStack'
<1>1. SUFFICES ASSUME ~closed', NEW i \in Instances, NEW r \in running'[i], NEW s \in running'[i]
               PROVE  r = s
  BY Zenon DEF OneStack
<1>2. ~closed /\ \A p, q \in running[i] : p = q
  BY <1>1, PoolGrows, Zenon DEF PoolFacts, OneStack
<1>3. CASE running'[i] \subseteq running[i]
  BY <1>2, <1>3, Zenon
<1>4. CASE ~InstMove(t)
  BY <1>3, <1>4, InstKept, Zenon
<1>5. CASE InstMove(t) /\ ~(running'[i] \subseteq running[i])
  <2>1. PICK u \in Threads : spc[u] = "launch" /\ sinst[u] = i
    BY <1>5 DEF InstMove
  <2>2. PICK q \in Stacks : running'[i] = running[i] \cup {q}
    BY <1>5 DEF InstMove
  <2>3. IsBusy(i)
    BY <2>1, StartersHold, Zenon DEF Holders
  <2>4. \A v \in Threads : xpc[<<v, i>>] = "no"
    BY <1>2, <2>3, Zenon DEF StopsGone, Gone
  <2>5. StartHolds(u, i)
    BY <2>1, Zenon DEF StartHolds
  <2>6. startMu[i] = u
    BY <2>5, Zenon DEF InstInv, MuOK
  <2>7. stack[i] = None
    BY <2>1, <2>5, Zenon DEF InstInv, Phase
  <2>8. ASSUME NEW p \in running[i] PROVE FALSE
    <3>1. p \in Stacks /\ p # None
      BY <2>8, NamesApart, Zenon DEF InstInv, InstTypeOK
    <3>2. \A v \in Threads : xstack[<<v, i>>] # p
      BY <2>4, <3>1, Zenon DEF InstInv, FramesOK
    <3>3. ASSUME NEW v \in Threads, sref[v] = p, sinst[v] = i PROVE FALSE
      <4>1. spc[v] = "verify"
        BY <3>1, <3>3, Zenon DEF InstInv, FramesOK
      <4>2. startMu[i] = v
        BY <3>3, <4>1, Zenon DEF InstInv, MuOK, StartHolds
      <4> QED
        BY <2>1, <2>6, <4>1, <4>2, Zenon
    <3> QED
      BY <2>7, <2>8, <3>1, <3>2, <3>3, Zenon DEF InstInv, Owned
  <2> QED
    BY <2>2, <2>8, <1>1, Zenon
<1> QED
  BY <1>3, <1>4, <1>5, Zenon

(* Before Close, an acquired instance that runs goes on running.           *)
LEMMA StartedKept ==
    ASSUME StopsGone, NEW t \in Threads, Move(t), ~closed,
           NEW i \in Instances, IsBusy(i), started[i]
    PROVE  started'[i]
<1>1. CASE ~InstMove(t)
  BY <1>1, InstKept, Zenon
<1>2. CASE InstMove(t)
  <2>1. started'[i] \/ \E u \in Threads : xpc[<<u, i>>] = "clear"
    BY <1>2 DEF InstMove
  <2> QED
    BY <2>1, Zenon DEF StopsGone, Gone
<1> QED
  BY <1>1, <1>2, Zenon

LEMMA HeldKinds ==
    ASSUME NEW t \in Threads, Move(t), NEW w \in Held'
    PROVE  w \in Held \/ (GrantMove(t) /\ w = <<minst[t], mtok[t]>>)
<1>1. CASE issued' = issued /\ released \subseteq released'
  BY <1>1, Zenon DEF Held
<1>2. CASE GrantMove(t)
  BY <1>2, Zenon DEF GrantMove, Held
<1>3. CASE UNCHANGED apiVars
  BY <1>1, <1>3, Zenon DEF apiVars
<1>4. CASE WriteMove(t) \/ TakeMove(t) \/ WipeMove(t)
  BY <1>1, <1>4, Zenon DEF WriteMove, TakeMove, WipeMove
<1>5. CASE PoolMove(t) \/ StopMove(t) \/ PoolStopMove(t) \/ InstMove(t)
  <2>1. UNCHANGED mgrVars
    BY <1>5, Zenon DEF PoolMove, QuietMove, PopMove, ReserveMove, FactoryErrMove, RegisterMove,
       MarkMove, CasMove, PushMove, CloseMove, SlotStopMove, StopMove, PoolStopMove, InstMove
  <2> QED
    BY <1>3, <2>1, Zenon DEF mgrVars
<1>6. CASE \/ LocalMove(t) \/ EnterMove(t) \/ PresentMove(t) \/ ReceiveMove(t) \/ LeaveMove(t)
           \/ GiveUpMove(t) \/ GiveUpDoneMove(t) \/ StopAllMove(t) \/ ReturnMove(t) \/ StartMove(t)
  BY <1>3, <1>6, Zenon DEF LocalMove, EnterMove, PresentMove, ReceiveMove, LeaveMove, GiveUpMove,
     GiveUpDoneMove, StopAllMove, ReturnMove, StartMove
<1> QED
  BY <1>2, <1>4, <1>5, <1>6, Zenon DEF Move, MgrMove

LEMMA ReleaseKinds ==
    ASSUME NEW t \in Threads, Move(t), mpc'[t] \in {"rToken", "rStarted"}
    PROVE  \/ mpc[t] \in {"rToken", "rStarted"} /\ minst'[t] = minst[t]
           \/ \E w \in Held : minst'[t] = w[1]
<1>0. mpc'[t] \in HolderPC /\ mpc'[t] \notin Granting
  BY Zenon DEF HolderPC, Granting
<1>1. CASE UNCHANGED mgrFrame
  BY <1>1, Zenon DEF mgrFrame
<1>2. CASE TakeMove(t)
  BY <1>2, Zenon DEF TakeMove
<1>3. CASE LocalMove(t)
  BY <1>0, <1>3, PlacesApart, Zenon DEF LocalMove
<1>4. CASE PoolMove(t) \/ StopMove(t) \/ PoolStopMove(t) \/ InstMove(t) \/ WriteMove(t)
  <2>1. UNCHANGED mgrFrame
    BY <1>4, Zenon DEF PoolMove, QuietMove, PopMove, ReserveMove, FactoryErrMove, RegisterMove,
       MarkMove, CasMove, PushMove, CloseMove, SlotStopMove, StopMove, PoolStopMove, InstMove,
       WriteMove, mgrVars
  <2> QED
    BY <1>1, <2>1, Zenon
<1>5. CASE \/ GrantMove(t) \/ WipeMove(t) \/ EnterMove(t) \/ PresentMove(t) \/ ReceiveMove(t)
           \/ LeaveMove(t) \/ GiveUpMove(t) \/ GiveUpDoneMove(t) \/ StopAllMove(t)
           \/ ReturnMove(t) \/ StartMove(t)
  BY <1>0, <1>5, PlacesApart, Zenon DEF GrantMove, WipeMove, EnterMove, PresentMove, ReceiveMove,
     LeaveMove, GiveUpMove, GiveUpDoneMove, StopAllMove, ReturnMove, StartMove, StopCalls
<1> QED
  BY <1>2, <1>3, <1>4, <1>5, Zenon DEF Move, MgrMove

LEMMA StartedHeldStep ==
    ASSUME MgrTypes, PoolFacts, InstTypeOK, Link, Holders, StopsGone, StartedHeld,
           NEW t \in Threads, Move(t), MgrOthers(t), CallOthers(t)
    PROVE  StartedHeld'
<1>1. SUFFICES ASSUME ~closed'
               PROVE  /\ \A w \in Held' : started'[w[1]]
                      /\ \A u \in Threads :
                            /\ mpc'[u] \in {"rToken", "rStarted"} => started'[minst'[u]]
                            /\ spc'[u] = "done" /\ sok'[u] => started'[sinst'[u]]
  BY Zenon DEF StartedHeld
<1>2. ~closed
  BY <1>1, PoolGrows, Zenon DEF PoolFacts
<1>3. ASSUME NEW w \in Held PROVE started'[w[1]]
  <2>1. w[1] \in Instances /\ IsBusy(w[1]) /\ started[w[1]]
    BY <1>2, HeldTypes, Zenon DEF Holders, HeldOK, StartedHeld
  <2> QED
    BY <1>2, <2>1, StartedKept, Zenon
<1>4. ASSUME NEW w \in Held' PROVE started'[w[1]]
  <2>1. CASE w \in Held
    BY <1>3, <2>1, Zenon
  <2>2. CASE GrantMove(t) /\ w = <<minst[t], mtok[t]>>
    <3>1. w[1] = minst[t]
      BY <2>2
    <3> QED
      BY <1>2, <2>2, <3>1, Zenon DEF GrantMove
  <2> QED
    BY <1>4, <2>1, <2>2, HeldKinds, Zenon
<1>5. ASSUME NEW u \in Threads, mpc[u] \in {"rToken", "rStarted"} PROVE started'[minst[u]]
  <2>1. mpc[u] \in HolderPC
    BY <1>5, Zenon DEF HolderPC
  <2>2. minst[u] \in Instances /\ IsBusy(minst[u]) /\ started[minst[u]]
    BY <1>2, <1>5, <2>1, HolderCurrent, Zenon DEF Holders, StartedHeld
  <2> QED
    BY <1>2, <2>2, StartedKept, Zenon
<1>6. ASSUME NEW u \in Threads, mpc'[u] \in {"rToken", "rStarted"} PROVE started'[minst'[u]]
  <2>1. CASE u = t
    BY <1>3, <1>5, <1>6, <2>1, ReleaseKinds, Zenon
  <2>2. CASE u # t
    BY <1>5, <1>6, <2>2, Zenon DEF MgrOthers
  <2> QED
    BY <2>1, <2>2, Zenon
<1>7. ASSUME NEW u \in Threads, spc[u] = "done", sok[u] PROVE started'[sinst[u]]
  <2>1. sinst[u] \in Instances /\ IsBusy(sinst[u]) /\ started[sinst[u]]
    BY <1>2, <1>7, StartersHold, Zenon DEF Holders, StartedHeld
  <2> QED
    BY <1>2, <2>1, StartedKept, Zenon
<1>8. ASSUME NEW u \in Threads, spc'[u] = "done", sok'[u] PROVE started'[sinst'[u]]
  <2>1. CASE InstMove(t)
    <3>1. sinst'[u] = sinst[u] /\ (started'[sinst[u]] \/ (spc[u] = "done" /\ sok[u]))
      BY <1>8, <2>1 DEF InstMove
    <3> QED
      BY <1>7, <3>1, Zenon
  <2>2. CASE ~InstMove(t) /\ u = t
    BY <1>7, <1>8, <2>2, InstKept, Zenon
  <2>3. CASE u # t
    BY <1>7, <1>8, <2>3, Zenon DEF CallOthers
  <2> QED
    BY <2>1, <2>2, <2>3, Zenon
<1> QED
  BY <1>4, <1>6, <1>8, Zenon

(* User data.                                                              *)
LEMMA DirtyKinds ==
    ASSUME MgrTypes, Link, NEW t \in Threads, Move(t), NEW i \in Instances, dirty'[i]
    PROVE  \/ dirty[i] /\ ~(WipeMove(t) /\ minst[t] = i)
           \/ WriteMove(t) /\ \E w \in Held : w[1] = i
<1>0. dirty \in [Instances -> BOOLEAN]
  BY Zenon DEF MgrTypes
<1>1. CASE dirty' = dirty /\ ~WipeMove(t)
  BY <1>1, Zenon
<1>2. CASE WipeMove(t)
  <2>1. dirty' = [dirty EXCEPT ![minst[t]] = FALSE]
    BY <1>2, Zenon DEF WipeMove
  <2>2. minst[t] # i /\ dirty'[i] = dirty[i]
    BY <1>0, <2>1, Zenon
  <2> QED
    BY <2>2, Zenon
<1>3. CASE WriteMove(t)
  <2>1. PICK w \in Held : dirty' = [dirty EXCEPT ![w[1]] = TRUE]
    BY <1>3, Zenon DEF WriteMove
  <2>2. CASE w[1] = i
    BY <1>3, <2>2, Zenon
  <2>3. CASE w[1] # i
    <3>1. dirty'[i] = dirty[i]
      BY <1>0, <2>1, <2>3, Zenon
    <3>2. ~WipeMove(t)
      BY <1>3, Zenon DEF WriteMove, WipeMove, mgrFrame
    <3> QED
      BY <3>1, <3>2, Zenon
  <2> QED
    BY <2>2, <2>3, Zenon
<1>4. CASE Move(t) /\ ~WipeMove(t) /\ ~WriteMove(t)
  <2>1. dirty' = dirty
    BY <1>4, Zenon DEF Move, MgrMove, PoolMove, QuietMove, PopMove, ReserveMove, FactoryErrMove,
       RegisterMove, MarkMove, CasMove, PushMove, CloseMove, SlotStopMove, StopMove, PoolStopMove,
       InstMove, LocalMove, GrantMove, TakeMove, EnterMove, PresentMove, ReceiveMove, LeaveMove,
       GiveUpMove, GiveUpDoneMove, StopAllMove, ReturnMove, StartMove, mgrVars, apiVars
  <2> QED
    BY <1>1, <1>4, <2>1, Zenon
<1> QED
  BY <1>2, <1>3, <1>4, Zenon

(* A release enters the pool from tryReleaseToPool.                        *)
LEMMA EnterReleaseKinds ==
    ASSUME NEW t \in Threads, Move(t), ppc'[t] = "release"
    PROVE  \/ ppc[t] = "release" /\ pinst'[t] = pinst[t]
           \/ mpc[t] = "rState" /\ pinst'[t] = minst[t]
<1>1. CASE ppc' = ppc /\ pinst' = pinst
  BY <1>1, Zenon
<1>2. CASE PoolMove(t)
  BY <1>2, Zenon DEF PoolMove, QuietMove, PopMove, ReserveMove, FactoryErrMove, RegisterMove,
     MarkMove, CasMove, PushMove, CloseMove, SlotStopMove
<1>3. CASE \/ EnterMove(t) \/ PresentMove(t) \/ ReceiveMove(t) \/ LeaveMove(t) \/ StopAllMove(t)
           \/ PoolStopMove(t)
  BY <1>3, Zenon DEF EnterMove, PresentMove, ReceiveMove, LeaveMove, StopAllMove, PoolStopMove
<1>4. CASE \/ LocalMove(t) \/ GrantMove(t) \/ WriteMove(t) \/ TakeMove(t) \/ WipeMove(t)
           \/ GiveUpDoneMove(t) \/ ReturnMove(t) \/ StartMove(t) \/ StopMove(t) \/ InstMove(t)
  <2>1. UNCHANGED poolVars
    BY <1>4, Zenon DEF LocalMove, GrantMove, WriteMove, TakeMove, WipeMove, GiveUpDoneMove,
       ReturnMove, StartMove, StopMove, InstMove
  <2> QED
    BY <1>1, <2>1, PoolParts, Zenon
<1>5. CASE GiveUpMove(t)
  BY <1>1, <1>5, Zenon DEF GiveUpMove
<1> QED
  BY <1>2, <1>3, <1>4, <1>5, Zenon DEF Move, MgrMove

(* Release comes to tryReleaseToPool with a purged instance, or one that   *)
(* is not running.                                                         *)
LEMMA PurgedKinds ==
    ASSUME NEW t \in Threads, Move(t), mpc'[t] \in {"rInc", "rState"}
    PROVE  \/ mpc[t] \in {"rInc", "rState"} /\ minst'[t] = minst[t]
           \/ mpc[t] = "rStarted" /\ ~started[minst[t]] /\ minst'[t] = minst[t]
           \/ WipeMove(t) /\ minst'[t] = minst[t]
<1>0. mpc'[t] \in HolderPC /\ mpc'[t] \notin Granting
  BY Zenon DEF HolderPC, Granting
<1>1. CASE UNCHANGED mgrFrame
  BY <1>1, Zenon DEF mgrFrame
<1>2. CASE WipeMove(t)
  BY <1>2, Zenon DEF WipeMove
<1>3. CASE LocalMove(t)
  BY <1>0, <1>3, PlacesApart, Zenon DEF LocalMove
<1>4. CASE PoolMove(t) \/ StopMove(t) \/ PoolStopMove(t) \/ InstMove(t) \/ WriteMove(t)
  <2>1. UNCHANGED mgrFrame
    BY <1>4, Zenon DEF PoolMove, QuietMove, PopMove, ReserveMove, FactoryErrMove, RegisterMove,
       MarkMove, CasMove, PushMove, CloseMove, SlotStopMove, StopMove, PoolStopMove, InstMove,
       WriteMove, mgrVars
  <2> QED
    BY <1>1, <2>1, Zenon
<1>5. CASE \/ GrantMove(t) \/ TakeMove(t) \/ EnterMove(t) \/ PresentMove(t) \/ ReceiveMove(t)
           \/ LeaveMove(t) \/ GiveUpMove(t) \/ GiveUpDoneMove(t) \/ StopAllMove(t)
           \/ ReturnMove(t) \/ StartMove(t)
  BY <1>0, <1>5, PlacesApart, Zenon DEF GrantMove, TakeMove, EnterMove, PresentMove, ReceiveMove,
     LeaveMove, GiveUpMove, GiveUpDoneMove, StopAllMove, ReturnMove, StartMove, StopCalls
<1> QED
  BY <1>2, <1>3, <1>4, <1>5, Zenon DEF Move, MgrMove

(* The end of an instance is over when its Stop has returned.              *)
LEMMA EndingLeft ==
    ASSUME Link, NEW t \in Threads, Move(t), NEW i \in Instances, Ending(t, i)
    PROVE  \/ Ending(t, i)'
           \/ xpc[<<t, i>>] = "done"
<1>1. CASE mpc[t] \in StopCalls /\ minst[t] = i
  <2>1. CASE UNCHANGED mgrFrame
    BY <1>1, <2>1, Zenon DEF Ending, mgrFrame
  <2>2. CASE GiveUpDoneMove(t)
    BY <1>1, <2>2, Zenon DEF GiveUpDoneMove
  <2>3. CASE PoolMove(t) \/ StopMove(t) \/ PoolStopMove(t) \/ InstMove(t) \/ WriteMove(t)
    <3>1. UNCHANGED mgrFrame
      BY <2>3, Zenon DEF PoolMove, QuietMove, PopMove, ReserveMove, FactoryErrMove, RegisterMove,
         MarkMove, CasMove, PushMove, CloseMove, SlotStopMove, StopMove, PoolStopMove, InstMove,
         WriteMove, mgrVars
    <3> QED
      BY <2>1, <3>1, Zenon
  <2>4. CASE MgrMove(t) /\ ~GiveUpDoneMove(t) /\ ~WriteMove(t)
    <3>1. mpc[t] \notin StopCalls
      BY <2>4, PlacesApart, Zenon DEF MgrMove, LocalMove, GrantMove, TakeMove, WipeMove, EnterMove,
         PresentMove, ReceiveMove, LeaveMove, GiveUpMove, StopAllMove, ReturnMove, StartMove,
         StopCalls
    <3> QED
      BY <1>1, <3>1, Zenon
  <2> QED
    BY <2>2, <2>3, <2>4, Zenon DEF Move
<1>2. CASE ppc[t] \in StopPC /\ pinst[t] = i
  <2>1. CASE ppc' = ppc /\ pinst' = pinst
    BY <1>2, <2>1, Zenon DEF Ending
  <2>2. CASE PoolStopMove(t)
    BY <1>2, <2>2, Zenon DEF PoolStopMove
  <2>3. CASE PoolMove(t)
    BY <1>2, <2>3, Zenon DEF PoolMove, QuietMove, PopMove, ReserveMove, FactoryErrMove, RegisterMove,
       MarkMove, CasMove, PushMove, CloseMove, SlotStopMove, StopPC
  <2>4. CASE \/ EnterMove(t) \/ PresentMove(t) \/ ReceiveMove(t) \/ LeaveMove(t) \/ StopAllMove(t)
    BY <1>2, <2>4, Zenon DEF EnterMove, PresentMove, ReceiveMove, LeaveMove, StopAllMove,
       Presents, StopPC
  <2>5. CASE \/ LocalMove(t) \/ GrantMove(t) \/ WriteMove(t) \/ TakeMove(t) \/ WipeMove(t)
             \/ GiveUpDoneMove(t) \/ ReturnMove(t) \/ StartMove(t) \/ StopMove(t) \/ InstMove(t)
    <3>1. UNCHANGED poolVars
      BY <2>5, Zenon DEF LocalMove, GrantMove, WriteMove, TakeMove, WipeMove, GiveUpDoneMove,
         ReturnMove, StartMove, StopMove, InstMove
    <3> QED
      BY <2>1, <3>1, PoolParts, Zenon
  <2>6. CASE GiveUpMove(t)
    BY <2>1, <2>6, Zenon DEF GiveUpMove
  <2> QED
    BY <2>2, <2>3, <2>4, <2>5, <2>6, Zenon DEF Move, MgrMove
<1> QED
  BY <1>1, <1>2, Zenon DEF Ending

(* The Stops of t.                                                         *)
LEMMA StopLeft ==
    ASSUME NEW t \in Threads, Move(t), NEW i \in Instances
    PROVE  /\ xpc[<<t, i>>] = "lock" => xpc'[<<t, i>>] = "lock" \/ stack'[i] = None
           /\ xpc'[<<t, i>>] \in {"clear", "close", "kill", "done"} =>
                 \/ xpc[<<t, i>>] \in {"clear", "close", "kill", "done"}
                 \/ stack'[i] = None
           /\ StopAllMove(t) /\ i \in all => xpc'[<<t, i>>] = "lock"
<1>1. CASE xpc' = xpc /\ ~StopAllMove(t)
  BY <1>1, Zenon
<1>2. CASE InstMove(t)
  <2>1. ~StopAllMove(t)
    BY <1>2, Zenon DEF InstMove, StopAllMove, mgrVars, mgrFrame
  <2> QED
    BY <1>2, <2>1 DEF InstMove
<1>3. ASSUME NEW insts, StopCall(t, insts)
      PROVE  xpc'[<<t, i>>] = IF i \in insts THEN "lock" ELSE xpc[<<t, i>>]
  BY <1>3, StopCallFrame, Zenon
<1>4. CASE StopAllMove(t)
  <2>1. StopCall(t, all)
    BY <1>4, Zenon DEF StopAllMove
  <2>2. xpc'[<<t, i>>] = IF i \in all THEN "lock" ELSE xpc[<<t, i>>]
    BY <1>3, <2>1
  <2> QED
    BY <2>2, Zenon
<1>5. CASE StopMove(t)
  <2>1. PICK j \in Instances : StopCall(t, {j})
    BY <1>5, Zenon DEF StopMove
  <2>2. xpc'[<<t, i>>] = "lock" \/ xpc'[<<t, i>>] = xpc[<<t, i>>]
    BY <1>3, <2>1, Zenon
  <2>3. ~StopAllMove(t)
    BY <1>5, Zenon DEF StopMove, StopAllMove, mgrVars, mgrFrame
  <2> QED
    BY <2>2, <2>3, Zenon
<1>6. CASE GiveUpDoneMove(t) \/ PoolStopMove(t) \/ ReturnMove(t)
  <2>1. xpc[<<t, i>>] \in {"no", "done"} /\ xpc'[<<t, i>>] = "no"
    BY <1>6, StopConsumeFrame, Zenon DEF GiveUpDoneMove, PoolStopMove, ReturnMove
  <2> QED
    BY <1>4, <2>1, Zenon
<1>7. CASE PoolMove(t)
  <2>1. UNCHANGED instVars /\ UNCHANGED mgrVars
    BY <1>7, Zenon DEF PoolMove, QuietMove, PopMove, ReserveMove, FactoryErrMove, RegisterMove,
       MarkMove, CasMove, PushMove, CloseMove, SlotStopMove
  <2>2. ~StopAllMove(t)
    BY <2>1, Zenon DEF StopAllMove, mgrVars, mgrFrame
  <2> QED
    BY <1>1, <2>1, <2>2, InstParts, Zenon
<1>8. CASE \/ LocalMove(t) \/ WriteMove(t) \/ TakeMove(t) \/ WipeMove(t) \/ EnterMove(t)
           \/ ReceiveMove(t) \/ LeaveMove(t) \/ GiveUpMove(t)
  <2>1. UNCHANGED instVars
    BY <1>8, Zenon DEF LocalMove, WriteMove, TakeMove, WipeMove, EnterMove, ReceiveMove,
       LeaveMove, GiveUpMove
  <2> QED
    BY <1>1, <1>4, <2>1, InstParts, Zenon
<1>9. CASE GrantMove(t) \/ PresentMove(t) \/ StartMove(t)
  BY <1>1, <1>4, <1>9, Zenon DEF GrantMove, PresentMove, StartMove
<1> QED
  BY <1>2, <1>4, <1>5, <1>6, <1>7, <1>8, <1>9, Zenon DEF Move, MgrMove

(* A Shutdown that has closed the pool calls Stop for all instances.       *)
LEMMA ClosingLeft ==
    ASSUME Link, NEW t \in Threads, Move(t), mpc[t] = "sClose", ppc[t] \in {"closeCh", "ret"}
    PROVE  \/ mpc'[t] = "sClose" /\ ppc'[t] \in {"closeCh", "ret"}
           \/ StopAllMove(t)
<1>1. CASE MgrMove(t) /\ ~WriteMove(t)
  BY <1>1, PlacesApart, Zenon DEF MgrMove, LocalMove, GrantMove, TakeMove, WipeMove, EnterMove,
     PresentMove, ReceiveMove, LeaveMove, GiveUpMove, GiveUpDoneMove, ReturnMove, StartMove,
     PoolCalls
<1>2. CASE PoolMove(t)
  BY <1>2, Zenon DEF PoolMove, QuietMove, PopMove, ReserveMove, FactoryErrMove, RegisterMove,
     MarkMove, CasMove, PushMove, CloseMove, SlotStopMove, mgrVars, mgrFrame
<1>3. CASE StopMove(t) \/ InstMove(t) \/ WriteMove(t)
  <2>1. UNCHANGED mgrFrame /\ UNCHANGED poolVars
    BY <1>3, Zenon DEF StopMove, InstMove, WriteMove, mgrVars
  <2> QED
    BY <2>1, PoolParts, Zenon DEF mgrFrame
<1>4. CASE PoolStopMove(t)
  BY <1>4, Zenon DEF PoolStopMove, StopPC
<1> QED
  BY <1>1, <1>2, <1>3, <1>4, Zenon DEF Move

LEMMA IndexNat == \A i \in Instances : i \in Nat
  BY MaxIdxAssumption DEF Instances

(* The frames of u are linked as before when nothing of them changes.      *)
LEMMA LinkedKept ==
    ASSUME NEW u \in Threads, Linked(u),
           mpc'[u] = mpc[u], minst'[u] = minst[u],
           ppc'[u] = ppc[u], pinst'[u] = pinst[u], pret'[u] = pret[u],
           spc'[u] = spc[u], sinst'[u] = sinst[u],
           \A i \in Instances : xpc'[<<u, i>>] = xpc[<<u, i>>]
    PROVE  Linked(u)'
<1>1. mpc'[u] \in HolderPC \cup StopCalls => minst'[u] \in Instances
  BY Zenon DEF Linked
<1>2. /\ ppc'[u] # "idle" => mpc'[u] \in PoolCalls
      /\ ppc'[u] \in {"select", "lock", "factory", "mark", "slotStop", "stopRet"} =>
            mpc'[u] = "aWait"
  BY Zenon DEF Linked
<1>3. /\ ppc'[u] \in {"release", "relLock", "relStop"} => mpc'[u] = "rPool"
      /\ ppc'[u] \in {"fail", "failStop"} => mpc'[u] \in {"aFailed", "rFailed"}
  BY Zenon DEF Linked
<1>4. /\ ppc'[u] \in {"close", "closeCh"} => mpc'[u] = "sClose"
      /\ ppc'[u] = "slot" => mpc'[u] # "sClose"
      /\ ppc'[u] \in {"slot", "stopRet"} /\ mpc'[u] = "aWait" => pret'[u] # "ok"
  BY Zenon DEF Linked
<1>5. Presents(u)' => pinst'[u] \in Instances
  <2>1. Presents(u)' => Presents(u)
    BY Zenon DEF Presents
  <2> QED
    BY <2>1, Zenon DEF Linked
<1>6. spc'[u] # "no" => mpc'[u] = "aStarting" /\ sinst'[u] = minst'[u]
  BY Zenon DEF Linked
<1>7. ASSUME NEW i \in Instances, xpc'[<<u, i>>] # "no"
      PROVE  Ending(u, i)' \/ mpc'[u] = "sStop"
  <2>1. Ending(u, i) \/ mpc[u] = "sStop"
    BY <1>7, Zenon DEF Linked
  <2>2. Ending(u, i) => Ending(u, i)'
    BY Zenon DEF Ending
  <2> QED
    BY <2>1, <2>2, Zenon
<1> QED
  BY <1>1, <1>2, <1>3, <1>4, <1>5, <1>6, <1>7, Zenon DEF Linked

(* A step that changes nothing.                                            *)
LEMMA MgrStutter ==
    ASSUME MgrInv, UNCHANGED vars
    PROVE  MgrInv' /\ (Final => Final') /\ Releasing' = Releasing
<1>1. /\ UNCHANGED <<state, poolSet, inflight, inflightDone, initMu, issued, released, dirty>>
      /\ UNCHANGED <<sdReturned, mpc, minst, mtok, poolVars, instVars>>
  BY Zenon DEF vars, mgrVars, mgrShared, apiVars, mgrFrame
<1>2. /\ UNCHANGED <<free, all, nextIdx, closed, gen, lost, ppc, pinst, ptok, pret>>
      /\ UNCHANGED <<started, stack, running, xpc, spc, sinst, sok>>
  BY <1>1, PoolParts, InstParts, Zenon
<1>3. Held' = Held
  BY <1>1, Zenon DEF Held
<1>4. \A i \in Instances : (IsBusy(i)' <=> IsBusy(i)) /\ (OnStack(i)' <=> OnStack(i))
                           /\ (Wrapped(i)' <=> Wrapped(i))
  BY <1>2, <1>3, Zenon DEF IsBusy, OnStack, Wrapped
<1>5. \A t \in Threads : Presents(t)' <=> Presents(t)
  BY <1>1, <1>2, Zenon DEF Presents
<1>6. \A t \in Threads, i \in Instances :
         /\ (Ending(t, i)' <=> Ending(t, i)) /\ (Coming(t, i)' <=> Coming(t, i))
         /\ (InCharge(t, i)' <=> InCharge(t, i))
         /\ \A k \in Nat : Has(t, i, k)' <=> Has(t, i, k)
  <2> TAKE t \in Threads, i \in Instances
  <2>1. Ending(t, i)' <=> Ending(t, i)
    BY <1>1, <1>2, Zenon DEF Ending
  <2>2. Coming(t, i)' <=> Coming(t, i)
    BY <1>1, <1>2, <1>5, Zenon DEF Coming
  <2>3. InCharge(t, i)' <=> InCharge(t, i)
    BY <1>1, <1>2, <2>1, Zenon DEF InCharge, InHand
  <2>4. \A k \in Nat : Has(t, i, k)' <=> Has(t, i, k)
    BY <1>1, <1>2, <1>5, Zenon DEF Has
  <2> QED
    BY <2>1, <2>2, <2>3, <2>4, Zenon
<1>7. \A i \in Instances : (Gone(i)' <=> Gone(i)) /\ (Secluded(i)' <=> Secluded(i))
  BY <1>1, <1>2, <1>4, <1>6, Zenon DEF Gone, Secluded
<1>8. MgrTypes' /\ ClosedOK' /\ SetUp' /\ (Final => Final') /\ Releasing' = Releasing
  BY <1>1, <1>2, Zenon DEF MgrInv, MgrTypes, ClosedOK, SetUp, Final, Releasing
<1>9. ASSUME NEW t \in Threads, Linked(t) PROVE Linked(t)'
  <2>1. /\ mpc'[t] = mpc[t] /\ minst'[t] = minst[t]
        /\ ppc'[t] = ppc[t] /\ pinst'[t] = pinst[t] /\ pret'[t] = pret[t]
        /\ spc'[t] = spc[t] /\ sinst'[t] = sinst[t]
        /\ \A i \in Instances : xpc'[<<t, i>>] = xpc[<<t, i>>]
    BY <1>1, <1>2, Zenon
  <2> QED
    BY <1>9, <2>1, LinkedKept, Zenon
<1>10. Link' /\ StopsGone' /\ OneStack'
  BY <1>2, <1>6, <1>7, <1>9, Zenon DEF MgrInv, Link, StopsGone, OneStack
<1>11. \A w \in Held : w[1] \in Instances
  BY SMT DEF MgrInv, MgrTypes, Held
<1>12. HeldOK' /\ BusyHeld'
  <2>1. HeldOK'
    <3>1. ASSUME NEW w \in Held PROVE gen'[w[1]] = w[2] /\ IsBusy(w[1])'
      <4>1. gen[w[1]] = w[2] /\ IsBusy(w[1])
        BY Zenon DEF MgrInv, Holders, HeldOK
      <4>2. w[1] \in Instances
        BY <1>11, Zenon
      <4> QED
        BY <1>2, <1>4, <4>1, <4>2, Zenon
    <3> QED
      BY <1>3, <3>1, Zenon DEF HeldOK
  <2>2. BusyHeld'
    <3>1. \A t \in Threads, i \in Instances : Has(t, i, gen[i])' <=> Has(t, i, gen[i])
      <4> TAKE t \in Threads, i \in Instances
      <4>1. /\ mpc'[t] = mpc[t] /\ minst'[t] = minst[t] /\ mtok'[t] = mtok[t]
            /\ pinst'[t] = pinst[t] /\ ptok'[t] = ptok[t] /\ gen'[i] = gen[i]
        BY <1>1, <1>2, Zenon
      <4> QED
        BY <1>5, <4>1, Zenon DEF Has
    <3> QED
      BY <1>4, <3>1, Zenon DEF MgrInv, Holders, BusyHeld
  <2> QED
    BY <2>1, <2>2, Zenon
<1>13. HasOK'
  BY <1>2, <1>4, <1>6, Zenon DEF MgrInv, Holders, HasOK
<1>14. NewTokens'
  <2>1. \A w \in issued : w[1] \in Instances
    BY SMT DEF MgrInv, MgrTypes
  <2> QED
    BY <1>1, <1>2, <1>6, <2>1, SMT DEF MgrInv, Holders, NewTokens
<1>15. StartedHeld'
  BY <1>1, <1>2, <1>3, Zenon DEF MgrInv, StartedHeld
<1>16. Clean'
  BY <1>1, <1>7, Zenon DEF MgrInv, Clean
<1>17. Accounted'
  BY <1>2, <1>4, <1>6, Zenon DEF MgrInv, Accounted
<1> QED
  BY <1>8, <1>10, <1>12, <1>13, <1>14, <1>15, <1>16, <1>17, Zenon DEF MgrInv, Holders

=============================================================================
