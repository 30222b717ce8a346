---------------------------- MODULE StackProofs -----------------------------
(***************************************************************************)
(* Proofs about what an instance starts: the ports and processes of the    *)
(* stacks (internal/netutil/port.go, internal/kubestack/stack.go) for any  *)
(* number of stacks, registries and ports and every number of retries; how *)
(* stopWithDone of internal/process ends one process, for every length of  *)
(* its timers and every deadline; and the database between two leases, for *)
(* any objects, system namespaces, cached database and number of writes.   *)
(***************************************************************************)
EXTENDS Process, KubeStack, Purge, SequenceTheorems, TLAPS

(* One process (module Process).                                           *)

(* The timers of a Stop, and what bounds it: a timer that is set is not    *)
(* negative, and what has passed and what is left of the timeout never add *)
(* up to more than the whole.                                              *)
Whole == MaxOf(timeout, drainReserve(timeout))

TimerTypes ==
    /\ timeout \in Nat
    /\ killIn \in Int /\ waitIn \in Int
    /\ elapsed \in Nat

TimeInv ==
    /\ TimerTypes
    /\ pc \in {"idle", "wait", "drain"}
    /\ pc # "idle" => timeout > 0 /\ waitIn >= 0
    /\ pc = "wait" => elapsed + waitIn <= Timer(mainBudget(timeout))
    /\ pc = "drain" => elapsed + waitIn <= Whole
    /\ elapsed <= Whole

(* The drain budget is positive, and a timeout without it is what is left  *)
(* for the main wait.                                                      *)
LEMMA DrainReserve ==
    ASSUME NEW t \in Nat
    PROVE  drainReserve(t) \in Nat \ {0}
<1>1. t \div 2 \in Int
  OBVIOUS
<1>2. KillDrainBudget \in Nat \ {0} /\ Millisecond \in Nat \ {0}
  BY PeriodsAssumption, TimeoutsAssumption, Zenon
<1> QED
  BY <1>1, <1>2 DEF drainReserve, MinOf

LEMMA MainBudget ==
    ASSUME NEW t \in Nat
    PROVE  /\ mainBudget(t) \in Int
           /\ Timer(mainBudget(t)) \in Nat
           /\ Timer(mainBudget(t)) + drainReserve(t) <= MaxOf(t, drainReserve(t))
BY DrainReserve DEF mainBudget, Timer, MaxOf

(* The grace period is clamped: the kill timer is not later than the main  *)
(* one.                                                                    *)
LEMMA Grace ==
    ASSUME NEW t \in Nat
    PROVE  Timer(grace(t)) \in 0 .. Timer(mainBudget(t))
<1>1. TermGracePeriod \in Nat
  BY PeriodsAssumption, Zenon
<1>2. mainBudget(t) \in Int
  BY MainBudget, Zenon
<1> QED
  BY <1>1, <1>2 DEF grace, Timer, MaxOf, MinOf

LEMMA EffectiveTimeout ==
    ASSUME NEW r \in Remaining
    PROVE  effectiveStopTimeout(r) \in Nat \ {0}
<1>1. r \in Int /\ StopTimeout \in Nat \ {0} /\ Millisecond \in Nat \ {0}
  BY TimeoutsAssumption, Zenon
<1> QED
  BY <1>1 DEF effectiveStopTimeout, MinOf

(* Every Stop, by a caller or by Close, has a positive timeout.            *)
LEMMA Begins ==
    ASSUME Close \/ \E r \in Remaining : Stop(r)
    PROVE  \/ \E t \in Nat \ {0}, byClose \in BOOLEAN : StopBegin(t, byClose)
           \/ \E t \in Nat \ {0} : StopNothing(t)
           \/ UNCHANGED <<cmd, os, done, pc, timeout, timers, killed, elapsed, result, gaveUp>>
<1>1. ASSUME Close
      PROVE  \/ StopBegin(StopTimeout, TRUE)
             \/ UNCHANGED <<cmd, os, done, pc, timeout, timers, killed, elapsed, result, gaveUp>>
  BY <1>1, Zenon DEF Close
<1>2. ASSUME NEW r \in Remaining, Stop(r)
      PROVE  \E t \in Nat \ {0} : StopNothing(t) \/ StopBegin(t, FALSE)
  BY <1>2, EffectiveTimeout, Zenon DEF Stop
<1>3. StopTimeout \in Nat \ {0}
  BY TimeoutsAssumption, Zenon
<1> QED
  BY <1>1, <1>2, <1>3, Zenon

-----------------------------------------------------------------------------
LEMMA TimeInit == ProcInit => TimeInv
<1>1. SUFFICES ASSUME ProcInit PROVE TimeInv
  BY Zenon
<1>2. TimerTypes /\ pc = "idle" /\ elapsed = 0 /\ timeout = 0
  BY <1>1 DEF ProcInit, TimerTypes, Off
<1>3. drainReserve(timeout) \in Nat
  BY <1>2, DrainReserve, Zenon
<1> QED
  BY <1>2, <1>3 DEF TimeInv, Whole, MaxOf

LEMMA TimeStep == TimeInv /\ [ProcNext]_procVars => TimeInv'
<1>1. SUFFICES ASSUME TimeInv, [ProcNext]_procVars PROVE TimeInv'
  BY Zenon
<1>2. /\ TimerTypes /\ pc \in {"idle", "wait", "drain"} /\ elapsed <= Whole
      /\ drainReserve(timeout) \in Nat \ {0}
  BY <1>1, DrainReserve, Zenon DEF TimeInv, TimerTypes
<1>3. ASSUME UNCHANGED <<pc, timeout, timers, elapsed>>
      PROVE  TimeInv'
  BY <1>1, <1>3, Zenon DEF TimeInv, TimerTypes, timers, Whole, drainReserve, mainBudget
<1>4. ASSUME NEW t \in Nat \ {0}, NEW byClose \in BOOLEAN, StopBegin(t, byClose)
      PROVE  TimeInv'
  <2>1. /\ timeout' = t /\ elapsed' = 0
        /\ \/ pc' = "drain" /\ killIn' = Off /\ waitIn' = Timer(t)
           \/ pc' = "wait" /\ killIn' = Timer(grace(t)) /\ waitIn' = Timer(mainBudget(t))
    BY <1>4, Zenon DEF StopBegin
  <2>2. /\ drainReserve(t) \in Nat \ {0}
        /\ Timer(mainBudget(t)) \in Nat
        /\ Timer(grace(t)) \in Nat
        /\ Timer(t) = t
    BY DrainReserve, MainBudget, Grace DEF Timer, MaxOf
  <2>3. Whole' = MaxOf(t, drainReserve(t)) /\ mainBudget(timeout)' = mainBudget(t)
    BY <2>1, Zenon DEF Whole, mainBudget, drainReserve
  <2>4. TimerTypes'
    BY <2>1, <2>2 DEF TimerTypes, Off
  <2>5. Whole' \in Nat /\ Whole' >= t
    BY <2>2, <2>3 DEF MaxOf
  <2>6. (pc = "wait" => elapsed + waitIn <= Timer(mainBudget(timeout)))'
    BY <2>1, <2>2, <2>3
  <2> QED
    BY <2>1, <2>2, <2>4, <2>5, <2>6 DEF TimeInv
<1>11. ASSUME NEW t \in Nat \ {0}, StopNothing(t)
       PROVE  TimeInv'
  <2>1. pc' = "idle" /\ timeout' = t /\ elapsed' = 0 /\ UNCHANGED <<killIn, waitIn>>
    BY <1>11, Zenon DEF StopNothing, timers
  <2>2. Whole' = MaxOf(t, drainReserve(t)) /\ drainReserve(t) \in Nat
    BY <2>1, DrainReserve, Zenon DEF Whole, drainReserve
  <2> QED
    BY <1>2, <2>1, <2>2 DEF TimeInv, TimerTypes, MaxOf
<1>5. ASSUME StopDone \/ DrainExpired
      PROVE  TimeInv'
  <2>1. pc' = "idle" /\ killIn' = Off /\ waitIn' = Off /\ UNCHANGED <<timeout, elapsed>>
    BY <1>5, Zenon DEF StopDone, DrainExpired, StopReturns
  <2>2. Whole' = Whole
    BY <2>1, Zenon DEF Whole, drainReserve
  <2> QED
    BY <1>2, <2>1, <2>2 DEF TimeInv, TimerTypes, Off
<1>6. ASSUME Kill
      PROVE  TimeInv'
  <2>1. killIn' = Off /\ UNCHANGED <<pc, timeout, waitIn, elapsed>>
    BY <1>6, Zenon DEF Kill
  <2>2. Whole' = Whole /\ mainBudget(timeout)' = mainBudget(timeout)
    BY <2>1, Zenon DEF Whole, drainReserve, mainBudget
  <2> QED
    BY <1>1, <2>1, <2>2 DEF TimeInv, TimerTypes, Off
<1>7. ASSUME MainExpired
      PROVE  TimeInv'
  <2>1. /\ pc = "wait" /\ waitIn = 0
        /\ pc' = "drain" /\ waitIn' = drainReserve(timeout)
        /\ UNCHANGED <<timeout, killIn, elapsed>>
    BY <1>7, Zenon DEF MainExpired
  <2>2. Whole' = Whole
    BY <2>1, Zenon DEF Whole, drainReserve
  <2>3. elapsed + drainReserve(timeout) <= Whole
    <3>1. elapsed <= Timer(mainBudget(timeout)) /\ timeout \in Nat /\ elapsed \in Nat
      BY <1>1, <2>1 DEF TimeInv, TimerTypes
    <3>2. /\ Timer(mainBudget(timeout)) \in Nat
          /\ Timer(mainBudget(timeout)) + drainReserve(timeout) <= Whole
      BY <3>1, MainBudget, Zenon DEF Whole
    <3>3. Whole \in Nat
      BY <1>2, <3>1, Zenon DEF Whole, MaxOf
    <3> QED
      BY <1>2, <3>1, <3>2, <3>3
  <2>4. timeout > 0
    BY <1>1, <2>1, Zenon DEF TimeInv
  <2> QED
    BY <1>2, <2>1, <2>2, <2>3, <2>4 DEF TimeInv, TimerTypes
<1>8. ASSUME Tick
      PROVE  TimeInv'
  <2>1. /\ pc # "idle" /\ waitIn # 0
        /\ killIn' \in {killIn - 1, killIn} /\ waitIn' = waitIn - 1
        /\ elapsed' = elapsed + 1
        /\ UNCHANGED <<pc, timeout>>
    BY <1>8, Zenon DEF Tick
  <2>2. Whole' = Whole /\ mainBudget(timeout)' = mainBudget(timeout)
    BY <2>1, Zenon DEF Whole, drainReserve, mainBudget
  <2>3. /\ timeout > 0 /\ waitIn >= 0
        /\ pc = "wait" => elapsed + waitIn <= Timer(mainBudget(timeout))
        /\ pc = "drain" => elapsed + waitIn <= Whole
    BY <1>1, <2>1, Zenon DEF TimeInv
  <2>4. /\ timeout \in Nat /\ killIn \in Int /\ waitIn \in Int /\ elapsed \in Nat
        /\ Whole \in Nat
    BY <1>2, Zenon DEF TimerTypes, Whole, MaxOf
  <2>5. Timer(mainBudget(timeout)) \in Nat /\ Timer(mainBudget(timeout)) <= Whole
    BY <1>2, <2>4, MainBudget DEF Whole
  <2>6. TimerTypes'
    BY <2>1, <2>4 DEF TimerTypes
  <2>7. elapsed' <= Whole'
    BY <1>2, <2>1, <2>2, <2>3, <2>4, <2>5
  <2>8. (pc = "wait" => elapsed + waitIn <= Timer(mainBudget(timeout)))'
    BY <2>1, <2>2, <2>3, <2>4, <2>5
  <2> QED
    BY <1>2, <2>1, <2>2, <2>3, <2>4, <2>6, <2>7, <2>8 DEF TimeInv
<1>9. ASSUME SetupAndStart \/ (\E s \in {"ok", "signal", "other"} : ProcExit(s)) \/ Reap \/ Deliver
      PROVE  UNCHANGED <<pc, timeout, timers, elapsed>>
  BY <1>9, Zenon DEF SetupAndStart, ProcExit, Reap, Deliver
<1>10. CASE Close \/ \E r \in Remaining : Stop(r)
  BY <1>3, <1>4, <1>10, <1>11, Begins, Zenon
<1> QED
  BY <1>1, <1>3, <1>5, <1>6, <1>7, <1>8, <1>9, <1>10, Zenon DEF ProcNext, procVars

(* Stop blocks no longer than its timeout, whatever the timeout and the    *)
(* periods are: the drain after SIGKILL comes out of it, up to the floor   *)
(* of one millisecond (process.go:95-97, 158-160).                         *)
THEOREM StopWithinTimeout == ProcSpec => []WithinTimeout
<1>1. TimeInv => WithinTimeout
  BY Zenon DEF TimeInv, WithinTimeout, Whole
<1> QED
  BY <1>1, TimeInit, TimeStep, PTL DEF ProcSpec

-----------------------------------------------------------------------------
(* Where the exit of the process is, and where its SIGKILL.  In the main   *)
(* wait the kill timer is set and not later than the main timer; in the    *)
(* drain it is due, if it has not fired, so that time stands still until   *)
(* it has.  A process that is not started, or no longer, has been waited   *)
(* for or given up.                                                        *)
KillPending ==
    \/ killed
    \/ os \in {"exited", "reaped"}
    \/ pc = "wait" /\ killIn \in 0 .. waitIn
    \/ pc = "drain" /\ killIn = 0 /\ waitIn > 0

ExitInv ==
    /\ os \in {"none", "running", "exited", "reaped"}
    /\ killed \in BOOLEAN
    /\ cmd => os # "none"
    /\ ~cmd => os \in {"none", "reaped"} \/ gaveUp
    /\ os = "none" => pc = "idle"
    /\ done # "empty" => os = "reaped"
    /\ pc # "idle" => KillPending
    /\ StopTruthful
    /\ GivenUpAfterKill

ExitParts == <<cmd, os, done, pc, timers, killed, result, gaveUp>>

LEMMA ExitInit == ProcInit => ExitInv
BY Zenon DEF ProcInit, ExitInv, StopTruthful, GivenUpAfterKill

LEMMA ExitStep == TimeInv /\ ExitInv /\ [ProcNext]_procVars => ExitInv'
<1>1. SUFFICES ASSUME TimeInv, ExitInv, [ProcNext]_procVars PROVE ExitInv'
  BY Zenon
<1>2. /\ timeout \in Nat /\ killIn \in Int /\ waitIn \in Int
      /\ pc \in {"idle", "wait", "drain"}
      /\ drainReserve(timeout) \in Nat \ {0}
  BY <1>1, DrainReserve, Zenon DEF TimeInv, TimerTypes
<1>3. /\ os \in {"none", "running", "exited", "reaped"}
      /\ killed \in BOOLEAN
      /\ ~cmd => os \in {"none", "reaped"} \/ gaveUp
      /\ os = "none" => pc = "idle"
      /\ done # "empty" => os = "reaped"
      /\ pc # "idle" => KillPending
  BY <1>1, Zenon DEF ExitInv
<1>4. ASSUME UNCHANGED ExitParts
      PROVE  ExitInv'
  BY <1>1, <1>4, Zenon DEF ExitInv, ExitParts, timers, KillPending, StopTruthful, GivenUpAfterKill
<1>5. ASSUME SetupAndStart \/ (\E s \in {"ok", "signal", "other"} : ProcExit(s)) \/ Reap \/ Deliver
      PROVE  ExitInv'
  <2>1. /\ UNCHANGED <<pc, killIn, waitIn, killed, gaveUp>>
        /\ cmd' = TRUE \/ (cmd' = cmd /\ os # "none")
        /\ result' = "none" \/ (result' = result /\ os # "none")
        /\ os' \in {"running", "exited", "reaped"}
        /\ os \in {"exited", "reaped"} => os' \in {os, "reaped"}
        /\ done' # "empty" => os' = "reaped"
    BY <1>3, <1>5, Zenon DEF SetupAndStart, ProcExit, Reap, Deliver, timers
  <2>2. os \notin {"exited", "reaped"} => os = "none" \/ os' = "exited" \/ os' = os
    BY <1>3, <1>5, Zenon DEF SetupAndStart, ProcExit, Reap, Deliver
  <2>3. (pc # "idle" => KillPending)'
    BY <1>3, <2>1, Zenon DEF KillPending
  <2>4. StopTruthful' /\ GivenUpAfterKill'
    BY <1>1, <2>1, <2>2, Zenon DEF ExitInv, StopTruthful, GivenUpAfterKill
  <2>5. (~cmd => os \in {"none", "reaped"} \/ gaveUp)'
    <3>1. CASE cmd' = TRUE
      BY <3>1, Zenon
    <3>2. CASE cmd' = cmd /\ os # "none"
      BY <1>3, <2>1, <3>2, Zenon
    <3> QED
      BY <2>1, <3>1, <3>2, Zenon
  <2> QED
    BY <1>3, <2>1, <2>3, <2>4, <2>5, Zenon DEF ExitInv
<1>6. ASSUME NEW t \in Nat \ {0}, NEW byClose \in BOOLEAN, StopBegin(t, byClose)
      PROVE  ExitInv'
  <2>1. /\ cmd /\ result' = "none"
        /\ UNCHANGED <<cmd, os, done, killed, gaveUp>>
        /\ \/ os = "reaped"
           \/ pc' = "wait" /\ killIn' = Timer(grace(t)) /\ waitIn' = Timer(mainBudget(t))
    BY <1>6, Zenon DEF StopBegin
  <2>2. KillPending'
    BY <2>1, Grace, Zenon DEF KillPending
  <2> QED
    BY <1>1, <2>1, <2>2, Zenon DEF ExitInv, StopTruthful, GivenUpAfterKill
<1>13. ASSUME NEW t \in Nat \ {0}, StopNothing(t)
       PROVE  ExitInv'
  <2>1. /\ pc = "idle" /\ ~cmd /\ result' = "nil"
        /\ UNCHANGED <<cmd, os, done, pc, killed, gaveUp>>
    BY <1>13, Zenon DEF StopNothing
  <2> QED
    BY <1>3, <2>1, Zenon DEF ExitInv, StopTruthful, GivenUpAfterKill
<1>7. ASSUME StopDone
      PROVE  ExitInv'
  <2>1. /\ done = "full" /\ done' = "taken" /\ pc' = "idle" /\ cmd' = FALSE
        /\ result' \in {"nil", "exitErr"}
        /\ UNCHANGED <<os, killed>>
    BY <1>7, Zenon DEF StopDone, StopReturns, expectSignalExit
  <2> QED
    BY <1>3, <2>1, Zenon DEF ExitInv, StopTruthful, GivenUpAfterKill
<1>8. ASSUME DrainExpired
      PROVE  ExitInv'
  <2>1. /\ pc = "drain" /\ waitIn = 0 /\ pc' = "idle" /\ cmd' = FALSE
        /\ result' = "timeout" /\ gaveUp'
        /\ UNCHANGED <<os, done, killed>>
    BY <1>8, Zenon DEF DrainExpired, StopReturns
  <2>2. killed \/ os \in {"exited", "reaped"}
    BY <1>3, <2>1 DEF KillPending
  <2> QED
    BY <1>3, <2>1, <2>2, Zenon DEF ExitInv, StopTruthful, GivenUpAfterKill
<1>9. ASSUME Kill
      PROVE  ExitInv'
  <2>1. killed' = TRUE /\ UNCHANGED <<cmd, os, done, pc, result, gaveUp>>
    BY <1>9, Zenon DEF Kill
  <2> QED
    BY <1>1, <2>1, Zenon DEF ExitInv, StopTruthful, GivenUpAfterKill, KillPending
<1>10. ASSUME MainExpired
      PROVE  ExitInv'
  <2>1. /\ pc = "wait" /\ waitIn = 0
        /\ pc' = "drain" /\ waitIn' = drainReserve(timeout)
        /\ UNCHANGED <<cmd, os, done, killIn, killed, result, gaveUp>>
    BY <1>10, Zenon DEF MainExpired
  <2>2. KillPending'
    BY <1>2, <1>3, <2>1 DEF KillPending
  <2> QED
    BY <1>1, <2>1, <2>2, Zenon DEF ExitInv, StopTruthful, GivenUpAfterKill
<1>11. ASSUME Tick
      PROVE  ExitInv'
  <2>1. /\ killIn # 0 /\ waitIn # 0
        /\ killIn' = IF killIn > 0 THEN killIn - 1 ELSE killIn
        /\ waitIn' = waitIn - 1
        /\ UNCHANGED <<cmd, os, done, pc, killed, result, gaveUp>>
    BY <1>11, Zenon DEF Tick
  <2>2. (pc # "idle" => KillPending)'
    BY <1>2, <1>3, <2>1 DEF KillPending
  <2> QED
    BY <1>1, <2>1, <2>2, Zenon DEF ExitInv, StopTruthful, GivenUpAfterKill
<1>12. CASE Close \/ \E r \in Remaining : Stop(r)
  BY <1>4, <1>6, <1>12, <1>13, Begins, Zenon DEF ExitParts
<1> QED
  BY <1>1, <1>4, <1>5, <1>7, <1>8, <1>9, <1>10, <1>11, <1>12, Zenon DEF ProcNext, procVars, ExitParts

LEMMA ExitInvariant == ProcSpec => []ExitInv
BY TimeInit, TimeStep, ExitInit, ExitStep, PTL DEF ProcSpec

(* For every deadline and period, Stop reports success, or an exit status, *)
(* only of a process that was never started or has been waited for, or of  *)
(* which an earlier Stop has already said that it was given up             *)
(* (base.go:65-67, 79-81; process.go:158-174).                             *)
THEOREM StopIsTruthful == ProcSpec => []StopTruthful
<1>1. ExitInv => StopTruthful
  BY Zenon DEF ExitInv
<1> QED
  BY <1>1, ExitInvariant, PTL

(* Stop gives a process up only after SIGKILL: whatever the timeout and    *)
(* the grace period, the clamp of process.go:187-191 makes the kill timer  *)
(* fire before the drain is over.                                          *)
THEOREM StopGivesUpAfterKill == ProcSpec => []GivenUpAfterKill
<1>1. ExitInv => GivenUpAfterKill
  BY Zenon DEF ExitInv
<1> QED
  BY <1>1, ExitInvariant, PTL

-----------------------------------------------------------------------------
(* Stacks and ports (modules KubeStack and Ports).                         *)

(* What holds of one owner at every place of StartWithRetry, Start, Stop   *)
(* and AllocatePortPair: which of its ports it has, and whether goroutines *)
(* or processes of the stack may be there.                                 *)
Bare == {"idle", "attempt", "judge", "gone"}
Owning == {"create", "run", "up", "stopApi", "stopKine", "relKine"}

PlaceOK(o) ==
    /\ apc[o] # "no" <=> kpc[o] = "ports"
    /\ lst[o] # NoPort <=> apc[o] \in {"reserve", "close"}
    /\ apc[o] # "undo" => tries[o] < MaxPortRetries
    /\ kpc[o] \in Bare \/ apc[o] = "err" => kport[o] = NoPort /\ aport[o] = NoPort
    /\ apc[o] \in {"listen", "reserve", "close", "undo"} => aport[o] = NoPort
    /\ kpc[o] \in Owning \/ apc[o] = "ok" => kport[o] # NoPort /\ aport[o] # NoPort
    /\ kpc[o] = "relApi" => kport[o] = NoPort

ProcOK(o) ==
    /\ \A c \in Procs : gpc[<<o, c>>] # "no" => kpc[o] = "run"
    /\ \A c \in Procs :
          pst[<<o, c>>] # "none" => kpc[o] \in {"run", "up", "stopApi", "stopKine"}
    /\ kpc[o] = "stopKine" => pst[<<o, "api">>] = "none"

(* What AllocatePortPair and stopProcesses do to the ports, on one owner.  *)
PortsStep(o) ==
    \/ AllocCall(o) \/ AllocStep(o) \/ (\E p \in PortNos : Listen(o, p))
    \/ AllocConsume(o)
    \/ kpc[o] = "relKine" /\ ReleaseKinePort(o)
    \/ kpc[o] = "relApi" /\ ReleaseAPIPort(o)

(* Stack.Stop with a timeout it accepts.                                   *)
StopGo(o) ==
    /\ kpc[o] = "up"
    /\ To(o, "stopApi")
    /\ UNCHANGED <<attempt, why, gpc, pst, orphan, portVars>>

(* A step of owner o, its goroutines and its processes.                    *)
StackMove(o) ==
    \/ RetryCall(o) \/ StopGo(o) \/ StackStep(o)
    \/ \E c \in Procs : GroupStep(o, c) \/ Bind(o, c) \/ Exit(o, c)

-----------------------------------------------------------------------------
(* Stop never refuses: effectiveStopTimeout leaves it a millisecond, also  *)
(* when the deadline has passed (instance.go:597-606, stack.go:506-508).   *)
LEMMA StopAccepted ==
    ASSUME NEW o \in Owners, NEW r \in Remaining, StopCall(o, r)
    PROVE  StopGo(o)
<1>1. ~(effectiveStopTimeout(r) <= 0)
  BY EffectiveTimeout
<1> QED
  BY <1>1, Zenon DEF StopCall, StopGo

LEMMA AllocPlaces ==
    {"no", "listen", "reserve", "close", "undo", "ok", "err"} \subseteq AllocPC
BY Zenon DEF AllocPC

LEMMA PortsTypeStep ==
    ASSUME PortsTypeOK, NEW o \in Owners, PlaceOK(o), PortsStep(o)
    PROVE  PortsTypeOK'
<1>1. /\ ports \in [Regs -> SUBSET PortNos] /\ Reg[o] \in Regs
      /\ lst \in [Owners -> MaybePort] /\ apc \in [Owners -> AllocPC]
      /\ tries \in [Owners -> 0 .. MaxPortRetries]
      /\ kport \in [Owners -> MaybePort] /\ aport \in [Owners -> MaybePort]
  BY Zenon DEF PortsTypeOK, Regs
<1>2. NoPort \in MaybePort /\ \A p \in PortNos : p \in MaybePort
  BY Zenon DEF MaybePort
<1>3. 0 \in 0 .. MaxPortRetries
  BY PortRetriesAssumption
<1>4. ASSUME NEW p, ports' = [ports EXCEPT ![Reg[o]] = @ \ {p}]
      PROVE  ports' \in [Regs -> SUBSET PortNos]
  BY <1>1, <1>4, Zenon
<1>5. ASSUME NEW place \in {"no", "listen", "reserve", "close", "undo", "ok", "err"},
             AllocTo(o, place)
      PROVE  apc' \in [Owners -> AllocPC]
  BY <1>1, <1>5, AllocPlaces, Zenon DEF AllocTo
<1>6. CASE AllocCall(o) \/ ListenErr(o) \/ AllocConsume(o)
  <2>1. UNCHANGED <<ports, lst, tries, kport, aport>>
    BY <1>6, Zenon DEF AllocCall, ListenErr, AllocConsume
  <2>2. apc' \in [Owners -> AllocPC]
    BY <1>5, <1>6, Zenon DEF AllocCall, ListenErr, AllocConsume
  <2> QED
    BY <1>1, <2>1, <2>2, Zenon DEF PortsTypeOK
<1>7. ASSUME NEW p \in PortNos, Listen(o, p)
      PROVE  PortsTypeOK'
  <2>1. lst' \in [Owners -> MaybePort]
    BY <1>1, <1>2, <1>7, Zenon DEF Listen
  <2>2. apc' \in [Owners -> AllocPC]
    BY <1>5, <1>7, Zenon DEF Listen
  <2> QED
    BY <1>1, <1>7, <2>1, <2>2, Zenon DEF PortsTypeOK, Listen
<1>8. CASE Reserve(o)
  <2>1. lst[o] \in PortNos /\ tries[o] < MaxPortRetries
    BY <1>1, <1>8, Zenon DEF Reserve, PlaceOK, MaybePort
  <2>2. ports' \in [Regs -> SUBSET PortNos]
    <3>1. ports' = [ports EXCEPT ![Reg[o]] = @ \cup {lst[o]}]
      BY <1>8, Zenon DEF Reserve
    <3> QED
      BY <1>1, <2>1, <3>1, Zenon
  <2>3. lst' \in [Owners -> MaybePort]
    BY <1>1, <1>2, <1>8, Zenon DEF Reserve
  <2>4. tries[o] + 1 \in 0 .. MaxPortRetries
    BY <1>1, <2>1, PortRetriesAssumption
  <2>5. tries' \in [Owners -> 0 .. MaxPortRetries]
    BY <1>1, <2>4, <1>8, Zenon DEF Reserve
  <2>6. \E place \in {"close", "listen", "undo"} : AllocTo(o, place)
    BY <1>8, Zenon DEF Reserve
  <2>7. apc' \in [Owners -> AllocPC]
    BY <1>5, <2>6, Zenon
  <2> QED
    BY <1>1, <1>8, <2>2, <2>3, <2>5, <2>7, Zenon DEF PortsTypeOK, Reserve
<1>9. CASE ListenerClose(o)
  <2>1. lst' \in [Owners -> MaybePort] /\ tries' \in [Owners -> 0 .. MaxPortRetries]
    BY <1>1, <1>2, <1>3, <1>9, Zenon DEF ListenerClose
  <2>2. lst[o] \in MaybePort
    BY <1>1, Zenon
  <2>3. kport' \in [Owners -> MaybePort] /\ aport' \in [Owners -> MaybePort]
    BY <1>1, <2>2, <1>9, Zenon DEF ListenerClose
  <2>4. apc' \in [Owners -> AllocPC]
    BY <1>5, <1>9, Zenon DEF ListenerClose
  <2> QED
    BY <1>1, <1>9, <2>1, <2>3, <2>4, Zenon DEF PortsTypeOK, ListenerClose
<1>10. CASE ListenerCloseErr(o)
  <2>1. ports' \in [Regs -> SUBSET PortNos]
    BY <1>4, <1>10, Zenon DEF ListenerCloseErr
  <2>2. lst' \in [Owners -> MaybePort]
    BY <1>1, <1>2, <1>10, Zenon DEF ListenerCloseErr
  <2>3. apc' \in [Owners -> AllocPC]
    BY <1>5, <1>10, Zenon DEF ListenerCloseErr
  <2> QED
    BY <1>1, <1>10, <2>1, <2>2, <2>3, Zenon DEF PortsTypeOK, ListenerCloseErr
<1>11. CASE AllocUndo(o)
  <2>1. ports' \in [Regs -> SUBSET PortNos]
    BY <1>4, <1>11, Zenon DEF AllocUndo
  <2>2. kport' \in [Owners -> MaybePort] /\ tries' \in [Owners -> 0 .. MaxPortRetries]
    BY <1>1, <1>2, <1>3, <1>11, Zenon DEF AllocUndo
  <2>3. apc' \in [Owners -> AllocPC]
    BY <1>5, <1>11, Zenon DEF AllocUndo
  <2> QED
    BY <1>1, <1>11, <2>1, <2>2, <2>3, Zenon DEF PortsTypeOK, AllocUndo
<1>12. CASE ReleaseKinePort(o) \/ ReleaseAPIPort(o)
  <2>1. ports' \in [Regs -> SUBSET PortNos]
    BY <1>4, <1>12, Zenon DEF ReleaseKinePort, ReleaseAPIPort
  <2>2. kport' \in [Owners -> MaybePort] /\ aport' \in [Owners -> MaybePort]
    BY <1>1, <1>2, <1>12, Zenon DEF ReleaseKinePort, ReleaseAPIPort
  <2> QED
    BY <1>1, <1>12, <2>1, <2>2, Zenon DEF PortsTypeOK, ReleaseKinePort, ReleaseAPIPort
<1> QED
  BY <1>6, <1>7, <1>8, <1>9, <1>10, <1>11, <1>12, Zenon DEF PortsStep, AllocStep

-----------------------------------------------------------------------------
LEMMA StackPlaces ==
    /\ {"idle", "attempt", "ports", "create", "run", "up", "stopApi", "stopKine",
        "relKine", "relApi", "judge", "gone"} \subseteq StackPC
    /\ {"no", "start", "wait", "ok", "err"} \subseteq GroupPC
    /\ {"none", "spawned", "bound", "exited"} \subseteq ProcState
BY Zenon DEF StackPC, GroupPC, ProcState

LEMMA StackTypeStep ==
    ASSUME StackTypeOK, PortsTypeOK', NEW o \in Owners, PlaceOK(o), ProcOK(o), StackMove(o)
    PROVE  StackTypeOK'
<1>1. /\ kpc \in [Owners -> StackPC]
      /\ attempt \in [Owners -> 0 .. MaxRetries]
      /\ why \in [Owners -> Reasons \cup {"none"}]
      /\ gpc \in [Owners \X Procs -> GroupPC]
      /\ pst \in [Owners \X Procs -> ProcState]
      /\ orphan \in [Owners -> SUBSET PortNos]
  BY Zenon DEF StackTypeOK
<1>2. ASSUME NEW place \in StackPC, To(o, place)
      PROVE  kpc' \in [Owners -> StackPC]
  BY <1>1, <1>2, Zenon DEF To
<1>3. ASSUME NEW reasons \in SUBSET Reasons, FailsFor(o, reasons)
      PROVE  why' \in [Owners -> Reasons \cup {"none"}]
  BY <1>1, <1>3, Zenon DEF FailsFor
<1>4. ASSUME UNCHANGED <<attempt, why, gpc, pst, orphan>>,
             UNCHANGED kpc \/ \E place \in StackPC : To(o, place)
      PROVE  StackTypeOK'
  BY <1>1, <1>2, <1>4, Zenon DEF StackTypeOK
<1>5. ASSUME NEW g \in GroupPC, gpc' = [x \in Owners \X Procs |-> IF x[1] = o THEN g ELSE gpc[x]]
      PROVE  gpc' \in [Owners \X Procs -> GroupPC]
  BY <1>1, <1>5, Zenon
<1>6. ASSUME NEW c \in Procs, NEW g \in GroupPC, gpc' = [gpc EXCEPT ![<<o, c>>] = g]
      PROVE  gpc' \in [Owners \X Procs -> GroupPC]
  BY <1>1, <1>6, Zenon
<1>7. ASSUME NEW c \in Procs, NEW s \in ProcState, pst' = [pst EXCEPT ![<<o, c>>] = s]
      PROVE  pst' \in [Owners \X Procs -> ProcState]
  BY <1>1, <1>7, Zenon
<1>8. CASE AttemptPorts(o) \/ StopGo(o) \/ FreeKinePort(o) \/ FreeAPIPort(o) \/ Allocate(o)
  BY <1>4, <1>8, StackPlaces, Zenon DEF AttemptPorts, StopGo, FreeKinePort,
     FreeAPIPort, Allocate, stackVars
<1>9. CASE RetryCall(o) \/ Judge(o) \/ Cancel(o)
  <2>1. kpc' \in [Owners -> StackPC]
    BY <1>2, <1>9, StackPlaces, Zenon DEF RetryCall, Judge, Cancel
  <2>2. attempt' \in [Owners -> 0 .. MaxRetries]
    <3>1. 1 \in 0 .. MaxRetries /\ 0 \in 0 .. MaxRetries
      BY MaxRetriesAssumption
    <3>2. attempt[o] >= MaxRetries \/ attempt[o] + 1 \in 0 .. MaxRetries
      BY <1>1, MaxRetriesAssumption
    <3> QED
      BY <1>1, <1>9, <3>1, <3>2, Zenon DEF RetryCall, Judge, Cancel
  <2>3. why' \in [Owners -> Reasons \cup {"none"}]
    BY <1>1, <1>9, Zenon DEF RetryCall, Judge, Cancel
  <2>4. orphan' \in [Owners -> SUBSET PortNos]
    BY <1>1, <1>9, Zenon DEF RetryCall, Judge, Cancel
  <2> QED
    BY <1>1, <1>9, <2>1, <2>2, <2>3, <2>4, Zenon DEF RetryCall, Judge, Cancel, StackTypeOK
<1>10. CASE AttemptErr(o) \/ Allocated(o) \/ CreateErr(o)
  <2>1. kpc' \in [Owners -> StackPC]
    BY <1>2, <1>10, StackPlaces, Zenon DEF AttemptErr, Allocated, CreateErr
  <2>2. {"ctx", "permanent", "other"} \in SUBSET Reasons /\ {"permanent", "other"} \in SUBSET Reasons
    BY Zenon DEF Reasons
  <2>3. why' \in [Owners -> Reasons \cup {"none"}]
    BY <1>1, <1>3, <2>2, <1>10, Zenon DEF AttemptErr, Allocated, CreateErr
  <2> QED
    BY <1>1, <1>10, <2>1, <2>3, Zenon DEF AttemptErr, Allocated, CreateErr, StackTypeOK
<1>11. CASE Create(o) \/ Join(o)
  <2>1. kpc' \in [Owners -> StackPC]
    BY <1>2, <1>11, StackPlaces, Zenon DEF Create, Join
  <2>2. gpc' \in [Owners \X Procs -> GroupPC]
    BY <1>5, <1>11, StackPlaces, Zenon DEF Create, Join
  <2> QED
    BY <1>1, <1>11, <2>1, <2>2, Zenon DEF Create, Join, StackTypeOK
<1>12. ASSUME NEW c \in Procs, NEW place \in {"stopApi", "stopKine"}, NEW next \in StackPC,
              StopProcess(o, c, place, next)
       PROVE  StackTypeOK'
  <2>1. kpc' \in [Owners -> StackPC]
    BY <1>2, <1>12, Zenon DEF StopProcess
  <2>2. pst' \in [Owners \X Procs -> ProcState]
    BY <1>7, <1>12, StackPlaces, Zenon DEF StopProcess
  <2>3. PortOf(o, c) \in PortNos
    <3>1. kpc[o] \in Owning
      BY <1>12, Zenon DEF StopProcess, Owning
    <3>2. kport[o] \in MaybePort \ {NoPort} /\ aport[o] \in MaybePort \ {NoPort}
      BY <3>1, Zenon DEF PlaceOK, StackTypeOK, PortsTypeOK
    <3> QED
      BY <3>2, Zenon DEF PortOf, MaybePort
  <2>4. orphan' = orphan \/ orphan' = [orphan EXCEPT ![o] = @ \cup {PortOf(o, c)}]
    BY <1>12, Zenon DEF StopProcess
  <2>5. orphan' \in [Owners -> SUBSET PortNos]
    BY <1>1, <2>3, <2>4
  <2> QED
    BY <1>1, <1>12, <2>1, <2>2, <2>5, Zenon DEF StopProcess, StackTypeOK
<1>13. CASE StopAPIServer(o) \/ StopKine(o)
  BY <1>12, <1>13, StackPlaces, Zenon DEF StopAPIServer, StopKine, Procs
<1>14. ASSUME NEW c \in Procs, GroupStep(o, c)
       PROVE  StackTypeOK'
  <2>1. gpc' \in [Owners \X Procs -> GroupPC]
    BY <1>6, <1>14, StackPlaces, Zenon DEF GroupStep, Launch, LaunchErr, WaitReady, WaitErr, GroupFails
  <2>2. pst' \in [Owners \X Procs -> ProcState]
    BY <1>1, <1>7, <1>14, StackPlaces, Zenon DEF GroupStep, Launch, LaunchErr, WaitReady, WaitErr
  <2>3. {"permanent", "other"} \in SUBSET Reasons
        /\ {"timeout", "ctx"} \cup {"exited"} \in SUBSET Reasons
        /\ {"timeout", "ctx"} \cup {} \in SUBSET Reasons
    BY Zenon DEF Reasons
  <2>4. why' \in [Owners -> Reasons \cup {"none"}]
    BY <1>1, <1>3, <2>3, <1>14, Zenon DEF GroupStep, Launch, LaunchErr, WaitReady, WaitErr, GroupFails
  <2> QED
    BY <1>1, <1>14, <2>1, <2>2, <2>4, Zenon DEF GroupStep, Launch, LaunchErr,
       WaitReady, WaitErr, StackTypeOK
<1>15. ASSUME NEW c \in Procs, Bind(o, c) \/ Exit(o, c)
       PROVE  StackTypeOK'
  <2>1. pst' \in [Owners \X Procs -> ProcState]
    BY <1>7, <1>15, StackPlaces, Zenon DEF Bind, Exit
  <2> QED
    BY <1>1, <1>15, <2>1, Zenon DEF Bind, Exit, StackTypeOK
<1> QED
  BY <1>8, <1>9, <1>10, <1>11, <1>13, <1>14, <1>15, ZenonT(30) DEF StackMove, StackStep

-----------------------------------------------------------------------------
(* An owner changes nothing of the others but, if they share one, what is  *)
(* in the registry.                                                        *)
SamePorts(u) ==
    /\ lst'[u] = lst[u] /\ apc'[u] = apc[u] /\ tries'[u] = tries[u]
    /\ kport'[u] = kport[u] /\ aport'[u] = aport[u]

SameProcs(u) ==
    \A c \in Procs : gpc'[<<u, c>>] = gpc[<<u, c>>] /\ pst'[<<u, c>>] = pst[<<u, c>>]

LEMMA OthersPorts ==
    ASSUME PortsTypeOK, NEW o \in Owners, PortsStep(o), NEW u \in Owners, u # o
    PROVE  SamePorts(u)
<1>1. /\ lst \in [Owners -> MaybePort] /\ apc \in [Owners -> AllocPC]
      /\ tries \in [Owners -> 0 .. MaxPortRetries]
      /\ kport \in [Owners -> MaybePort] /\ aport \in [Owners -> MaybePort]
  BY Zenon DEF PortsTypeOK
<1>2. CASE AllocCall(o) \/ ListenErr(o) \/ AllocConsume(o)
  BY <1>1, <1>2, Zenon DEF AllocCall, ListenErr, AllocConsume, AllocTo, SamePorts
<1>3. CASE \E p \in PortNos : Listen(o, p)
  BY <1>1, <1>3, Zenon DEF Listen, AllocTo, SamePorts
<1>4. CASE Reserve(o)
  BY <1>1, <1>4, Zenon DEF Reserve, AllocTo, SamePorts
<1>5. CASE ListenerClose(o)
  BY <1>1, <1>5, Zenon DEF ListenerClose, AllocTo, SamePorts
<1>6. CASE ListenerCloseErr(o) \/ AllocUndo(o)
  BY <1>1, <1>6, Zenon DEF ListenerCloseErr, AllocUndo, AllocTo, SamePorts
<1>7. CASE ReleaseKinePort(o) \/ ReleaseAPIPort(o)
  BY <1>1, <1>7, Zenon DEF ReleaseKinePort, ReleaseAPIPort, SamePorts
<1> QED
  BY <1>2, <1>3, <1>4, <1>5, <1>6, <1>7, Zenon DEF PortsStep, AllocStep

(* Every step of an owner is one of these, seen from its ports.            *)
LEMMA PortsOrNot ==
    ASSUME NEW o \in Owners, StackMove(o)
    PROVE  PortsStep(o) \/ UNCHANGED portVars
<1>1. CASE RetryCall(o) \/ AttemptErr(o) \/ Create(o) \/ CreateErr(o) \/ Join(o)
           \/ StopGo(o) \/ StopAPIServer(o) \/ StopKine(o) \/ Judge(o) \/ Cancel(o)
  BY <1>1, Zenon DEF RetryCall, AttemptErr, Create, CreateErr, Join, StopGo,
     StopAPIServer, StopKine, StopProcess, Judge, Cancel
<1>2. CASE AttemptPorts(o) \/ Allocate(o) \/ Allocated(o) \/ FreeKinePort(o) \/ FreeAPIPort(o)
  BY <1>2, Zenon DEF AttemptPorts, Allocate, Allocated, FreeKinePort, FreeAPIPort, PortsStep
<1>3. ASSUME NEW c \in Procs, GroupStep(o, c) \/ Bind(o, c) \/ Exit(o, c)
      PROVE  UNCHANGED portVars
  BY <1>3, Zenon DEF GroupStep, Launch, LaunchErr, WaitReady, WaitErr, Bind, Exit
<1> QED
  BY <1>1, <1>2, <1>3, ZenonT(30) DEF StackMove, StackStep

LEMMA OthersStack ==
    ASSUME StackTypeOK, NEW o \in Owners, StackMove(o), NEW u \in Owners, u # o
    PROVE  kpc'[u] = kpc[u] /\ SameProcs(u)
<1>1. /\ kpc \in [Owners -> StackPC]
      /\ gpc \in [Owners \X Procs -> GroupPC]
      /\ pst \in [Owners \X Procs -> ProcState]
  BY Zenon DEF StackTypeOK
<1>2. CASE Allocate(o)
  BY <1>2, Zenon DEF Allocate, stackVars, SameProcs
<1>3. CASE RetryCall(o) \/ AttemptPorts(o) \/ AttemptErr(o) \/ CreateErr(o) \/ StopGo(o)
  BY <1>1, <1>3, Zenon DEF RetryCall, AttemptPorts, AttemptErr, CreateErr, StopGo, To, SameProcs
<1>4. CASE Allocated(o) \/ FreeKinePort(o) \/ FreeAPIPort(o) \/ Judge(o) \/ Cancel(o)
  BY <1>1, <1>4, Zenon DEF Allocated, FreeKinePort, FreeAPIPort, Judge, Cancel, To, SameProcs
<1>5. CASE Create(o) \/ Join(o)
  BY <1>1, <1>5, Zenon DEF Create, Join, To, SameProcs
<1>6. CASE StopAPIServer(o) \/ StopKine(o)
  BY <1>1, <1>6, Zenon DEF StopAPIServer, StopKine, StopProcess, To, SameProcs
<1>7. ASSUME NEW c \in Procs, Launch(o, c) \/ LaunchErr(o, c) \/ WaitReady(o, c) \/ WaitErr(o, c)
      PROVE  kpc'[u] = kpc[u] /\ SameProcs(u)
  BY <1>1, <1>7, Zenon DEF Launch, LaunchErr, WaitReady, WaitErr, GroupFails, SameProcs
<1>8. ASSUME NEW c \in Procs, Bind(o, c) \/ Exit(o, c)
      PROVE  kpc'[u] = kpc[u] /\ SameProcs(u)
  BY <1>1, <1>8, Zenon DEF Bind, Exit, SameProcs
<1> QED
  BY <1>2, <1>3, <1>4, <1>5, <1>6, <1>7, <1>8, ZenonT(30) DEF StackMove, StackStep, GroupStep

LEMMA OthersKept ==
    ASSUME StackTypeOK, NEW o \in Owners, StackMove(o),
           NEW u \in Owners, u # o, PlaceOK(u), ProcOK(u)
    PROVE  PlaceOK(u)' /\ ProcOK(u)'
<1>1. kpc'[u] = kpc[u] /\ SameProcs(u)
  BY OthersStack, Zenon
<1>2. PortsTypeOK
  BY Zenon DEF StackTypeOK
<1>3. SamePorts(u)
  BY <1>2, PortsOrNot, OthersPorts, Zenon DEF portVars, SamePorts
<1>4. PlaceOK(u)'
  BY <1>1, <1>3, Zenon DEF PlaceOK, SamePorts
<1>5. ProcOK(u)'
  BY <1>1, Zenon DEF ProcOK, SameProcs, Procs
<1> QED
  BY <1>4, <1>5, Zenon

(* The owner that moves: what PlaceOK says of its ports follows it.        *)
LEMMA OwnPlace ==
    ASSUME StackTypeOK, NEW o \in Owners, PlaceOK(o), ProcOK(o), StackMove(o)
    PROVE  PlaceOK(o)'
<1>1. /\ lst \in [Owners -> MaybePort] /\ apc \in [Owners -> AllocPC]
      /\ tries \in [Owners -> 0 .. MaxPortRetries]
      /\ kport \in [Owners -> MaybePort] /\ aport \in [Owners -> MaybePort]
      /\ kpc \in [Owners -> StackPC]
  BY Zenon DEF StackTypeOK, PortsTypeOK
<1>2. ASSUME UNCHANGED <<lst, apc, tries, kport, aport>>, kpc[o] # "ports", kpc'[o] # "ports",
             \/ kpc'[o] = kpc[o]
             \/ kpc[o] \in Owning /\ kpc'[o] \in Owning
             \/ kpc[o] \in Bare /\ kpc'[o] \in Bare
      PROVE  PlaceOK(o)'
  BY <1>2, Zenon DEF PlaceOK, Owning, Bare
<1>3. CASE RetryCall(o) \/ AttemptErr(o) \/ Judge(o) \/ Cancel(o)
  BY <1>1, <1>2, <1>3, Zenon DEF RetryCall, AttemptErr, Judge, Cancel, To, portVars, Bare
<1>4. CASE Create(o) \/ CreateErr(o) \/ Join(o) \/ StopGo(o)
  BY <1>1, <1>2, <1>4, Zenon DEF Create, CreateErr, Join, StopGo, To, portVars, Owning
<1>5. CASE StopAPIServer(o) \/ StopKine(o)
  BY <1>1, <1>2, <1>5, Zenon DEF StopAPIServer, StopKine, StopProcess, To, portVars, Owning
<1>6. ASSUME NEW c \in Procs, GroupStep(o, c) \/ Bind(o, c) \/ Exit(o, c)
      PROVE  PlaceOK(o)'
  <2>1. UNCHANGED <<kpc, lst, apc, tries, kport, aport>>
    BY <1>6, Zenon DEF GroupStep, Launch, LaunchErr, WaitReady, WaitErr, Bind, Exit, portVars
  <2> QED
    BY <2>1, Zenon DEF PlaceOK
<1>7. CASE AttemptPorts(o)
  BY <1>1, <1>7, Zenon DEF AttemptPorts, AllocCall, AllocTo, To, PlaceOK, Bare, Owning
<1>8. CASE Allocated(o)
  BY <1>1, <1>8, Zenon DEF Allocated, AllocConsume, AllocTo, To, PlaceOK, Bare, Owning
<1>9. CASE FreeKinePort(o) \/ FreeAPIPort(o)
  BY <1>1, <1>9, Zenon DEF FreeKinePort, FreeAPIPort, ReleaseKinePort, ReleaseAPIPort, To,
     PlaceOK, Bare, Owning
<1>10. CASE Allocate(o)
  <2>1. kpc' = kpc
    BY <1>10, Zenon DEF Allocate, stackVars
  <2>2. CASE ListenErr(o)
    BY <1>1, <2>1, <2>2, Zenon DEF ListenErr, AllocTo, PlaceOK, Bare, Owning
  <2>3. ASSUME NEW p \in PortNos, Listen(o, p)
        PROVE  PlaceOK(o)'
    BY <1>1, <2>1, <2>3, NoPortAssumption, Zenon DEF Listen, AllocTo, PlaceOK, Bare, Owning
  <2>4. CASE Reserve(o)
    <3>1. tries[o] < MaxPortRetries /\ lst[o] # NoPort
      BY <2>4, Zenon DEF Reserve, PlaceOK
    <3>2. apc[o] = "reserve" /\ UNCHANGED <<kport, aport>>
      BY <2>4, Zenon DEF Reserve
    <3>3. CASE lst[o] \notin ports[Reg[o]]
      <4>1. AllocTo(o, "close") /\ UNCHANGED <<lst, tries>>
        BY <2>4, <3>3, Zenon DEF Reserve
      <4> QED
        BY <1>1, <2>1, <3>1, <3>2, <4>1, Zenon DEF AllocTo, PlaceOK, Bare, Owning
    <3>4. CASE lst[o] \in ports[Reg[o]]
      <4>1. \/ tries[o] + 1 < MaxPortRetries /\ AllocTo(o, "listen")
            \/ AllocTo(o, "undo")
        BY <2>4, <3>4, Zenon DEF Reserve
      <4>2. lst' = [lst EXCEPT ![o] = NoPort] /\ tries' = [tries EXCEPT ![o] = @ + 1]
        BY <2>4, <3>4, Zenon DEF Reserve
      <4> QED
        BY <1>1, <2>1, <3>2, <4>1, <4>2, Zenon DEF AllocTo, PlaceOK, Bare, Owning
    <3> QED
      BY <3>3, <3>4, Zenon
  <2>5. CASE ListenerClose(o)
    <3>1. /\ apc[o] = "close" /\ lst'[o] = NoPort /\ tries'[o] = 0
          /\ \/ kport'[o] = lst[o] /\ aport' = aport /\ apc'[o] = "listen"
             \/ kport[o] # NoPort /\ kport' = kport /\ aport'[o] = lst[o] /\ apc'[o] = "ok"
      BY <1>1, <2>5, Zenon DEF ListenerClose, AllocTo
    <3>2. lst[o] # NoPort /\ tries'[o] < MaxPortRetries
      <4>1. 0 < MaxPortRetries
        BY PortRetriesAssumption, SMT
      <4> QED
        BY <3>1, <4>1, Zenon DEF PlaceOK
    <3>3. CASE kport'[o] = lst[o] /\ aport' = aport /\ apc'[o] = "listen"
      BY <2>1, <3>1, <3>2, <3>3, Zenon DEF PlaceOK, Bare, Owning
    <3>4. CASE kport[o] # NoPort /\ kport' = kport /\ aport'[o] = lst[o] /\ apc'[o] = "ok"
      BY <2>1, <3>1, <3>2, <3>4, Zenon DEF PlaceOK, Bare, Owning
    <3> QED
      BY <3>1, <3>3, <3>4, Zenon
  <2>6. CASE ListenerCloseErr(o) \/ AllocUndo(o)
    <3>1. CASE ListenerCloseErr(o)
      BY <1>1, <2>1, <3>1, Zenon DEF ListenerCloseErr, AllocTo, PlaceOK, Bare, Owning
    <3>2. CASE AllocUndo(o)
      <4>1. 0 < MaxPortRetries
        BY PortRetriesAssumption, SMT
      <4> QED
        BY <1>1, <2>1, <3>2, <4>1, Zenon DEF AllocUndo, AllocTo, PlaceOK, Bare, Owning
    <3> QED
      BY <2>6, <3>1, <3>2, Zenon
  <2> QED
    BY <1>10, <2>2, <2>3, <2>4, <2>5, <2>6, Zenon DEF Allocate, AllocStep
<1> QED
  BY <1>3, <1>4, <1>5, <1>6, <1>7, <1>8, <1>9, <1>10, ZenonT(30) DEF StackMove, StackStep

(* ... and so does what ProcOK says of its goroutines and processes.       *)
LEMMA OwnProcs ==
    ASSUME StackTypeOK, NEW o \in Owners, PlaceOK(o), ProcOK(o), StackMove(o)
    PROVE  ProcOK(o)'
<1>1. /\ kpc \in [Owners -> StackPC]
      /\ gpc \in [Owners \X Procs -> GroupPC]
      /\ pst \in [Owners \X Procs -> ProcState]
  BY Zenon DEF StackTypeOK
<1>2. "kine" \in Procs /\ "api" \in Procs /\ \A c \in Procs : c = "kine" \/ c = "api"
  BY Zenon DEF Procs
<1>3. ASSUME UNCHANGED <<gpc, pst>>,
             \/ kpc'[o] = kpc[o]
             \/ kpc[o] \notin {"run", "up", "stopApi", "stopKine"} /\ kpc'[o] # "stopKine"
             \/ kpc[o] = "up" /\ kpc'[o] = "stopApi"
      PROVE  ProcOK(o)'
  BY <1>2, <1>3, Zenon DEF ProcOK
<1>4. CASE RetryCall(o) \/ AttemptPorts(o) \/ AttemptErr(o) \/ Allocated(o) \/ CreateErr(o)
  BY <1>1, <1>3, <1>4, Zenon DEF RetryCall, AttemptPorts, AttemptErr, Allocated, CreateErr, To
<1>5. CASE StopGo(o) \/ FreeKinePort(o) \/ FreeAPIPort(o) \/ Judge(o) \/ Cancel(o)
  BY <1>1, <1>3, <1>5, Zenon DEF StopGo, FreeKinePort, FreeAPIPort, Judge, Cancel, To
<1>6. CASE Allocate(o)
  BY <1>3, <1>6, Zenon DEF Allocate, stackVars
<1>7. CASE Create(o)
  BY <1>1, <1>2, <1>7, Zenon DEF Create, To, ProcOK
<1>8. CASE Join(o)
  BY <1>1, <1>2, <1>8, Zenon DEF Join, To, ProcOK
<1>9. CASE StopAPIServer(o)
  BY <1>1, <1>2, <1>9, Zenon DEF StopAPIServer, StopProcess, To, ProcOK
<1>10. CASE StopKine(o)
  BY <1>1, <1>2, <1>10, Zenon DEF StopKine, StopProcess, To, ProcOK
<1>11. ASSUME NEW c \in Procs, GroupStep(o, c)
       PROVE  ProcOK(o)'
  <2>1. gpc[<<o, c>>] # "no" /\ kpc[o] = "run"
    BY <1>11, Zenon DEF GroupStep, Launch, LaunchErr, WaitReady, WaitErr, ProcOK
  <2>2. kpc' = kpc
    BY <1>11, Zenon DEF GroupStep, Launch, LaunchErr, WaitReady, WaitErr
  <2> QED
    BY <2>1, <2>2, Zenon DEF ProcOK
<1>12. ASSUME NEW c \in Procs, Bind(o, c) \/ Exit(o, c)
       PROVE  ProcOK(o)'
  <2>1. /\ pst[<<o, c>>] # "none" /\ UNCHANGED <<kpc, gpc>>
        /\ \A d \in Procs : d # c => pst'[<<o, d>>] = pst[<<o, d>>]
    BY <1>1, <1>12, Zenon DEF Bind, Exit
  <2> QED
    BY <1>2, <2>1, Zenon DEF ProcOK
<1> QED
  BY <1>4, <1>5, <1>6, <1>7, <1>8, <1>9, <1>10, <1>11, <1>12, ZenonT(30)
     DEF StackMove, StackStep

-----------------------------------------------------------------------------
PlaceInv == StackTypeOK /\ \A o \in Owners : PlaceOK(o) /\ ProcOK(o)

LEMMA PlaceInit == Init => PlaceInv
<1>1. SUFFICES ASSUME Init PROVE PlaceInv
  BY Zenon
<1>2. 0 \in 0 .. MaxPortRetries /\ 0 \in 0 .. MaxRetries /\ 0 < MaxPortRetries
  BY PortRetriesAssumption, MaxRetriesAssumption
<1>3. PortsTypeOK
  BY <1>1, <1>2, AllocPlaces, Zenon DEF Init, PortsInit, PortsTypeOK, MaybePort
<1>4. StackTypeOK
  BY <1>1, <1>2, <1>3, StackPlaces, Zenon DEF Init, StackTypeOK
<1>5. ASSUME NEW o \in Owners PROVE PlaceOK(o) /\ ProcOK(o)
  BY <1>1, <1>2, Zenon DEF Init, PortsInit, PlaceOK, ProcOK, Bare, Owning
<1> QED
  BY <1>4, <1>5, Zenon DEF PlaceInv

LEMMA PlaceStep == PlaceInv /\ [Next]_vars => PlaceInv'
<1>1. SUFFICES ASSUME PlaceInv, [Next]_vars PROVE PlaceInv'
  BY Zenon
<1>2. CASE UNCHANGED vars
  <2>1. UNCHANGED <<ports, lst, apc, tries, kport, aport, kpc, attempt, why, gpc, pst, orphan>>
    BY <1>2, Zenon DEF vars, portVars, stackVars
  <2>2. StackTypeOK'
    BY <1>1, <2>1, Zenon DEF PlaceInv, StackTypeOK, PortsTypeOK
  <2>3. ASSUME NEW o \in Owners PROVE PlaceOK(o)' /\ ProcOK(o)'
    <3>1. PlaceOK(o)'
      BY <1>1, <2>1, Zenon DEF PlaceInv, PlaceOK
    <3>2. ProcOK(o)'
      BY <1>1, <2>1, Zenon DEF PlaceInv, ProcOK
    <3> QED
      BY <3>1, <3>2, Zenon
  <2> QED
    BY <2>2, <2>3, Zenon DEF PlaceInv
<1>3. ASSUME NEW o \in Owners, StackMove(o)
      PROVE  PlaceInv'
  <2>1. StackTypeOK /\ PortsTypeOK /\ \A u \in Owners : PlaceOK(u) /\ ProcOK(u)
    BY <1>1, Zenon DEF PlaceInv, StackTypeOK
  <2>2. PortsTypeOK'
    <3>1. CASE UNCHANGED portVars
      BY <2>1, <3>1, Zenon DEF portVars, PortsTypeOK
    <3> QED
      BY <1>3, <2>1, <3>1, PortsOrNot, PortsTypeStep, Zenon
  <2>3. StackTypeOK'
    BY <1>3, <2>1, <2>2, StackTypeStep, Zenon
  <2>4. PlaceOK(o)' /\ ProcOK(o)'
    BY <1>3, <2>1, OwnPlace, OwnProcs, Zenon
  <2>5. \A u \in Owners : u # o => PlaceOK(u)' /\ ProcOK(u)'
    BY <1>3, <2>1, OthersKept, Zenon
  <2> QED
    BY <2>3, <2>4, <2>5, Zenon DEF PlaceInv
<1> QED
  BY <1>1, <1>2, <1>3, StopAccepted, Zenon DEF Next, StackMove

LEMMA PlaceInvariant == Spec => []PlaceInv
BY PlaceInit, PlaceStep, PTL DEF Spec

(* Type correctness, the counters of attempts and of ports tried included, *)
(* for every number of stacks, ports and retries.                          *)
THEOREM StackTypeCorrect == Spec => []StackTypeOK
<1>1. PlaceInv => StackTypeOK
  BY Zenon DEF PlaceInv
<1> QED
  BY <1>1, PlaceInvariant, PTL

-----------------------------------------------------------------------------
(* RegistryExact and PortsDistinct, port by port.                          *)
HeldExact ==
    \A r \in Regs, p \in PortNos :
        p \in ports[r] <=> \E o \in Owners : Reg[o] = r /\ p \in HeldPorts(o)

HeldApart ==
    \A o, u \in Owners : u # o /\ Reg[u] = Reg[o] => HeldPorts(u) \cap HeldPorts(o) = {}

PairApart(o) ==
    /\ kport[o] # NoPort => kport[o] # aport[o]
    /\ apc[o] = "close" => lst[o] \notin {kport[o], aport[o]}

LEMMA Holds ==
    ASSUME NEW o \in Owners, NEW p
    PROVE  p \in HeldPorts(o) <=>
               /\ p # NoPort
               /\ p = kport[o] \/ p = aport[o] \/ (apc[o] = "close" /\ p = lst[o])
BY Zenon DEF HeldPorts

LEMMA HoldsNext ==
    ASSUME NEW o \in Owners, NEW p
    PROVE  p \in HeldPorts(o)' <=>
               /\ p # NoPort
               /\ p = kport'[o] \/ p = aport'[o] \/ (apc'[o] = "close" /\ p = lst'[o])
BY Zenon DEF HeldPorts

LEMMA PortKept ==
    ASSUME HeldExact, HeldApart, ports' = ports,
           \A u \in Owners : HeldPorts(u)' = HeldPorts(u)
    PROVE  HeldExact' /\ HeldApart'
BY DEF HeldExact, HeldApart

LEMMA PortTaken ==
    ASSUME PortsTypeOK, HeldExact, HeldApart, NEW o \in Owners, NEW p \in PortNos,
           p \notin ports[Reg[o]],
           ports' = [ports EXCEPT ![Reg[o]] = @ \cup {p}],
           HeldPorts(o)' = HeldPorts(o) \cup {p},
           \A u \in Owners : u # o => HeldPorts(u)' = HeldPorts(u)
    PROVE  HeldExact' /\ HeldApart'
<1>1. ports \in [Regs -> SUBSET PortNos] /\ \A u \in Owners : Reg[u] \in Regs
  BY Zenon DEF PortsTypeOK, Regs
<1>2. \A r \in Regs : ports'[r] = IF r = Reg[o] THEN ports[r] \cup {p} ELSE ports[r]
  BY <1>1, Zenon
<1>3. \A u \in Owners : Reg[u] = Reg[o] => p \notin HeldPorts(u)
  BY <1>1, Zenon DEF HeldExact
<1>4. HeldExact'
  <2>1. SUFFICES ASSUME NEW r \in Regs, NEW q \in PortNos
                 PROVE  q \in ports'[r] <=> \E u \in Owners : Reg[u] = r /\ q \in HeldPorts(u)'
    BY Zenon DEF HeldExact
  <2>2. q \in ports[r] <=> \E u \in Owners : Reg[u] = r /\ q \in HeldPorts(u)
    BY Zenon DEF HeldExact
  <2> QED
    BY <1>2, <2>2
<1>5. HeldApart'
  <2>1. SUFFICES ASSUME NEW v \in Owners, NEW u \in Owners, u # v, Reg[u] = Reg[v]
                 PROVE  HeldPorts(u)' \cap HeldPorts(v)' = {}
    BY Zenon DEF HeldApart
  <2>2. HeldPorts(u) \cap HeldPorts(v) = {}
    BY <2>1, Zenon DEF HeldApart
  <2> QED
    BY <1>3, <2>1, <2>2, Zenon
<1> QED
  BY <1>4, <1>5, Zenon

LEMMA PortDropped ==
    ASSUME PortsTypeOK, HeldExact, HeldApart, NEW o \in Owners, NEW p,
           p \in HeldPorts(o) \/ p = NoPort,
           ports' = [ports EXCEPT ![Reg[o]] = @ \ {p}],
           HeldPorts(o)' = HeldPorts(o) \ {p},
           \A u \in Owners : u # o => HeldPorts(u)' = HeldPorts(u)
    PROVE  HeldExact' /\ HeldApart'
<1>1. ports \in [Regs -> SUBSET PortNos] /\ \A u \in Owners : Reg[u] \in Regs
  BY Zenon DEF PortsTypeOK, Regs
<1>2. \A r \in Regs : ports'[r] = IF r = Reg[o] THEN ports[r] \ {p} ELSE ports[r]
  BY <1>1, Zenon
<1>3. \A u \in Owners : u # o /\ Reg[u] = Reg[o] => p \notin HeldPorts(u)
  <2>1. \A u \in Owners : NoPort \notin HeldPorts(u)
    BY Holds, Zenon
  <2> QED
    BY <2>1, Zenon DEF HeldApart
<1>4. HeldExact'
  <2>1. SUFFICES ASSUME NEW r \in Regs, NEW q \in PortNos
                 PROVE  q \in ports'[r] <=> \E u \in Owners : Reg[u] = r /\ q \in HeldPorts(u)'
    BY Zenon DEF HeldExact
  <2>2. q \in ports[r] <=> \E u \in Owners : Reg[u] = r /\ q \in HeldPorts(u)
    BY Zenon DEF HeldExact
  <2> QED
    BY <1>2, <1>3, <2>2
<1>5. HeldApart'
  <2>1. SUFFICES ASSUME NEW v \in Owners, NEW u \in Owners, u # v, Reg[u] = Reg[v]
                 PROVE  HeldPorts(u)' \cap HeldPorts(v)' = {}
    BY Zenon DEF HeldApart
  <2>2. HeldPorts(u) \cap HeldPorts(v) = {}
    BY <2>1, Zenon DEF HeldApart
  <2> QED
    BY <2>1, <2>2, Zenon
<1> QED
  BY <1>4, <1>5, Zenon

RegInv == HeldExact /\ HeldApart /\ \A o \in Owners : PairApart(o)

(* Every step of AllocatePortPair and every Release keeps the registry     *)
(* exact: it takes a port, drops one, or touches neither the registry nor  *)
(* what the owner holds.                                                   *)
LEMMA RegOwn ==
    ASSUME PortsTypeOK, HeldExact, HeldApart, NEW o \in Owners, PlaceOK(o), PairApart(o),
           PortsStep(o)
    PROVE  HeldExact' /\ HeldApart' /\ PairApart(o)'
<1>1. /\ lst \in [Owners -> MaybePort] /\ apc \in [Owners -> AllocPC]
      /\ kport \in [Owners -> MaybePort] /\ aport \in [Owners -> MaybePort]
  BY Zenon DEF PortsTypeOK
<1>2. \A u \in Owners : u # o => HeldPorts(u)' = HeldPorts(u)
  <2>1. ASSUME NEW u \in Owners, u # o PROVE HeldPorts(u)' = HeldPorts(u)
    <3>1. SamePorts(u)
      BY <2>1, OthersPorts, Zenon
    <3> QED
      BY <3>1, Zenon DEF SamePorts, HeldPorts
  <2> QED
    BY <2>1, Zenon
<1>3. ASSUME ports' = ports, HeldPorts(o)' = HeldPorts(o)
      PROVE  HeldExact' /\ HeldApart'
  BY <1>2, <1>3, PortKept, Zenon
<1>4. CASE AllocCall(o) \/ ListenErr(o) \/ AllocConsume(o)
  <2>1. /\ UNCHANGED <<ports, lst, kport, aport>>
        /\ apc[o] # "close" /\ apc'[o] # "close"
    BY <1>1, <1>4, Zenon DEF AllocCall, ListenErr, AllocConsume, AllocTo
  <2>2. HeldPorts(o)' = HeldPorts(o) /\ PairApart(o)'
    BY <2>1, Zenon DEF HeldPorts, PairApart
  <2> QED
    BY <1>3, <2>1, <2>2, Zenon
<1>5. ASSUME NEW p \in PortNos, Listen(o, p)
      PROVE  HeldExact' /\ HeldApart' /\ PairApart(o)'
  <2>1. /\ UNCHANGED <<ports, kport, aport>>
        /\ apc[o] # "close" /\ apc'[o] # "close"
    BY <1>1, <1>5, Zenon DEF Listen, AllocTo
  <2>2. HeldPorts(o)' = HeldPorts(o) /\ PairApart(o)'
    BY <2>1, Zenon DEF HeldPorts, PairApart
  <2> QED
    BY <1>3, <2>1, <2>2, Zenon
<1>6. CASE Reserve(o)
  <2>1. /\ apc[o] = "reserve" /\ UNCHANGED <<kport, aport>>
        /\ ports' = [ports EXCEPT ![Reg[o]] = @ \cup {lst[o]}]
    BY <1>6, Zenon DEF Reserve
  <2>2. CASE lst[o] \in ports[Reg[o]]
    <3>1. ports' = ports
      BY <2>1, <2>2, Zenon DEF PortsTypeOK
    <3>2. apc'[o] # "close"
      BY <1>1, <1>6, <2>2, Zenon DEF Reserve, AllocTo
    <3>3. HeldPorts(o)' = HeldPorts(o) /\ PairApart(o)'
      BY <2>1, <3>2, Zenon DEF HeldPorts, PairApart
    <3> QED
      BY <1>3, <3>1, <3>3, Zenon
  <2>3. CASE lst[o] \notin ports[Reg[o]]
    <3>1. apc'[o] = "close" /\ lst' = lst
      BY <1>1, <1>6, <2>3, Zenon DEF Reserve, AllocTo
    <3>2. lst[o] \in PortNos
      BY <1>1, <2>1, Zenon DEF PlaceOK, MaybePort
    <3>3. HeldPorts(o)' = HeldPorts(o) \cup {lst[o]}
      BY <2>1, <3>1, <3>2, NoPortAssumption, Zenon DEF HeldPorts
    <3>4. HeldExact' /\ HeldApart'
      BY <1>2, <2>1, <2>3, <3>2, <3>3, PortTaken, Zenon
    <3>5. PairApart(o)'
      <4>1. lst[o] \notin HeldPorts(o)
        BY <2>3, <3>2, Zenon DEF HeldExact, Regs
      <4> QED
        BY <2>1, <3>1, <3>2, <4>1, NoPortAssumption, Holds, Zenon DEF PairApart
    <3> QED
      BY <3>4, <3>5, Zenon
  <2> QED
    BY <2>2, <2>3, Zenon
<1>7. CASE ListenerClose(o)
  <2>1. /\ apc[o] = "close" /\ apc'[o] # "close" /\ ports' = ports
        /\ \/ kport[o] = NoPort /\ kport'[o] = lst[o] /\ aport' = aport
           \/ kport[o] # NoPort /\ kport' = kport /\ aport'[o] = lst[o]
    BY <1>1, <1>7, Zenon DEF ListenerClose, AllocTo
  <2>2. aport[o] = NoPort /\ lst[o] # NoPort
    BY <2>1, Zenon DEF PlaceOK
  <2>3. HeldPorts(o)' = HeldPorts(o)
    BY <2>1, <2>2, Zenon DEF HeldPorts
  <2>4. PairApart(o)'
    BY <2>1, <2>2, Zenon DEF PairApart
  <2> QED
    BY <1>3, <2>1, <2>3, <2>4, Zenon
<1>8. CASE ListenerCloseErr(o)
  <2>1. /\ apc[o] = "close" /\ apc'[o] # "close" /\ UNCHANGED <<kport, aport>>
        /\ ports' = [ports EXCEPT ![Reg[o]] = @ \ {lst[o]}]
    BY <1>1, <1>8, Zenon DEF ListenerCloseErr, AllocTo
  <2>2. lst[o] # NoPort /\ lst[o] \notin {kport[o], aport[o]}
    BY <2>1, Zenon DEF PlaceOK, PairApart
  <2>3. lst[o] \in HeldPorts(o) /\ HeldPorts(o)' = HeldPorts(o) \ {lst[o]}
    BY <2>1, <2>2, Zenon DEF HeldPorts
  <2>4. HeldExact' /\ HeldApart'
    BY <1>2, <2>1, <2>3, PortDropped, Zenon
  <2>5. PairApart(o)'
    BY <2>1, Zenon DEF PairApart
  <2> QED
    BY <2>4, <2>5, Zenon
<1>9. CASE AllocUndo(o) \/ (kpc[o] = "relKine" /\ ReleaseKinePort(o))
  <2>1. /\ apc[o] # "close" /\ apc'[o] # "close" /\ UNCHANGED aport /\ kport'[o] = NoPort
        /\ ports' = [ports EXCEPT ![Reg[o]] = @ \ {kport[o]}]
    BY <1>1, <1>9, Zenon DEF AllocUndo, ReleaseKinePort, AllocTo, PlaceOK
  <2>2. kport[o] \in HeldPorts(o) \/ kport[o] = NoPort
    BY <2>1, Zenon DEF HeldPorts
  <2>3. HeldPorts(o)' = HeldPorts(o) \ {kport[o]}
    BY <2>1, Zenon DEF HeldPorts, PairApart
  <2>4. HeldExact' /\ HeldApart'
    BY <1>2, <2>1, <2>2, <2>3, PortDropped, Zenon
  <2>5. PairApart(o)'
    BY <2>1, Zenon DEF PairApart
  <2> QED
    BY <2>4, <2>5, Zenon
<1>10. CASE kpc[o] = "relApi" /\ ReleaseAPIPort(o)
  <2>1. /\ apc[o] # "close" /\ apc'[o] # "close" /\ UNCHANGED kport /\ aport'[o] = NoPort
        /\ kport[o] = NoPort
        /\ ports' = [ports EXCEPT ![Reg[o]] = @ \ {aport[o]}]
    BY <1>1, <1>10, Zenon DEF ReleaseAPIPort, PlaceOK
  <2>2. aport[o] \in HeldPorts(o) \/ aport[o] = NoPort
    BY <2>1, Zenon DEF HeldPorts
  <2>3. HeldPorts(o)' = HeldPorts(o) \ {aport[o]}
    BY <2>1, Zenon DEF HeldPorts
  <2>4. HeldExact' /\ HeldApart'
    BY <1>2, <2>1, <2>2, <2>3, PortDropped, Zenon
  <2>5. PairApart(o)'
    BY <2>1, Zenon DEF PairApart
  <2> QED
    BY <2>4, <2>5, Zenon
<1> QED
  BY <1>4, <1>5, <1>6, <1>7, <1>8, <1>9, <1>10, Zenon DEF PortsStep, AllocStep

LEMMA RegInit == Init => RegInv
<1>1. SUFFICES ASSUME Init PROVE RegInv
  BY Zenon
<1>2. /\ \A r \in Regs : ports[r] = {}
      /\ \A o \in Owners : kport[o] = NoPort /\ aport[o] = NoPort /\ apc[o] = "no"
  BY <1>1, Zenon DEF Init, PortsInit
<1>3. \A o \in Owners : HeldPorts(o) = {}
  BY <1>2, Zenon DEF HeldPorts
<1> QED
  BY <1>2, <1>3, Zenon DEF RegInv, HeldExact, HeldApart, PairApart

LEMMA RegStep == PlaceInv /\ RegInv /\ [Next]_vars => RegInv'
<1>1. SUFFICES ASSUME PlaceInv, RegInv, [Next]_vars PROVE RegInv'
  BY Zenon
<1>2. ASSUME UNCHANGED portVars
      PROVE  RegInv'
  <2>1. \A u \in Owners : HeldPorts(u)' = HeldPorts(u) /\ PairApart(u)'
    BY <1>1, <1>2, Zenon DEF RegInv, portVars, PairApart, HeldPorts
  <2> QED
    BY <1>1, <1>2, <2>1, PortKept, Zenon DEF RegInv, portVars
<1>3. CASE UNCHANGED vars
  BY <1>2, <1>3, Zenon DEF vars
<1>4. ASSUME NEW o \in Owners, PortsStep(o)
      PROVE  RegInv'
  <2>1. PortsTypeOK /\ PlaceOK(o) /\ HeldExact /\ HeldApart /\ \A u \in Owners : PairApart(u)
    BY <1>1, Zenon DEF PlaceInv, StackTypeOK, RegInv
  <2>2. HeldExact' /\ HeldApart' /\ PairApart(o)'
    BY <1>4, <2>1, RegOwn, Zenon
  <2>3. ASSUME NEW u \in Owners, u # o PROVE PairApart(u)'
    <3>1. SamePorts(u)
      BY <1>4, <2>1, <2>3, OthersPorts, Zenon
    <3> QED
      BY <2>1, <3>1, Zenon DEF SamePorts, PairApart
  <2> QED
    BY <2>2, <2>3, Zenon DEF RegInv
<1> QED
  BY <1>1, <1>2, <1>3, <1>4, PortsOrNot, StopAccepted, Zenon DEF Next, StackMove

LEMMA RegInvariant == Spec => []RegInv
BY PlaceInit, PlaceStep, RegInit, RegStep, PTL DEF Spec

(* A registry holds exactly the ports of its owners, for any number of     *)
(* them: no error path of AllocatePortPair, of a failed Start or of Stop   *)
(* leaks a port, and none gives back a port that is still somebody's.      *)
THEOREM PortRegistryExact == Spec => []RegistryExact
<1>1. PlaceInv /\ RegInv => RegistryExact
  <2>1. SUFFICES ASSUME PlaceInv, RegInv, NEW r \in Regs
                 PROVE  ports[r] = UNION {HeldPorts(o) : o \in {u \in Owners : Reg[u] = r}}
    BY Zenon DEF RegistryExact
  <2>2. ports[r] \subseteq PortNos
    BY <2>1, Zenon DEF PlaceInv, StackTypeOK, PortsTypeOK
  <2>3. \A o \in Owners : HeldPorts(o) \subseteq PortNos
    BY <2>1 DEF PlaceInv, StackTypeOK, PortsTypeOK, HeldPorts, MaybePort
  <2>4. \A p \in PortNos : p \in ports[r] <=> \E o \in Owners : Reg[o] = r /\ p \in HeldPorts(o)
    BY <2>1, Zenon DEF RegInv, HeldExact
  <2> QED
    BY <2>2, <2>3, <2>4, Zenon
<1> QED
  BY <1>1, PlaceInvariant, RegInvariant, PTL

(* AllocatePortPair returns two distinct ports, never one that another     *)
(* stack of the same process still has (port.go:19-25).                    *)
THEOREM PortPairsDistinct == Spec => []PortsDistinct
<1>1. RegInv => PortsDistinct
  BY Zenon DEF RegInv, HeldApart, PairApart, PortsDistinct
<1> QED
  BY <1>1, RegInvariant, PTL

(* No process outlives the attempt that started it, except one whose stop  *)
(* has failed, and none runs on a port that its registry does not hold,    *)
(* however many stacks start, fail and stop at a time.                     *)
THEOREM NoProcessStrays == Spec => []NoStrayProcess
<1>1. PlaceInv /\ RegInv => NoStrayProcess
  <2>1. SUFFICES ASSUME PlaceInv, RegInv, NEW o \in Owners, NEW c \in Procs,
                        pst[<<o, c>>] # "none"
                 PROVE  /\ kpc[o] \in {"run", "up", "stopApi", "stopKine"}
                        /\ PortOf(o, c) \in ports[Reg[o]]
    BY Zenon DEF NoStrayProcess
  <2>2. kpc[o] \in {"run", "up", "stopApi", "stopKine"}
    BY <2>1, Zenon DEF PlaceInv, ProcOK
  <2>3. kport[o] # NoPort /\ aport[o] # NoPort
    BY <2>1, <2>2, Zenon DEF PlaceInv, PlaceOK, Owning
  <2>4. PortOf(o, c) \in HeldPorts(o)
    BY <2>3, Zenon DEF PortOf, HeldPorts
  <2>5. PortOf(o, c) \in PortNos /\ Reg[o] \in Regs
    BY <2>1, <2>3, Zenon DEF PlaceInv, StackTypeOK, PortsTypeOK, MaybePort, PortOf, Regs
  <2> QED
    BY <2>1, <2>2, <2>4, <2>5, Zenon DEF RegInv, HeldExact
<1> QED
  BY <1>1, PlaceInvariant, RegInvariant, PTL

-----------------------------------------------------------------------------
(* The ports of processes that could not be stopped.                       *)

(* A process of u, stopped in vain or not, is bound to p.                  *)
OnSocket(u, p) ==
    \/ p \in orphan[u]
    \/ \E c \in Procs : pst[<<u, c>>] = "bound" /\ PortOf(u, c) = p

(* The kernel gives a socket once: no probe listens where a process does.  *)
ProbeFree ==
    \A o, u \in Owners, p \in PortNos : lst[o] = p => ~OnSocket(u, p)

OrphanInv == ProbeFree /\ OrphanPortsAvoided

Ending == {"stopKine", "relKine", "relApi"}

(* What a step may do to the ports of u that no process is bound to ...    *)
PortsCalm(u) ==
    /\ lst'[u] \in {lst[u], NoPort}
    /\ HeldPorts(u)' \subseteq HeldPorts(u) \cup {lst[u]}
    /\ kpc'[u] = kpc[u] \/ kpc[u] \notin Ending \/ kpc'[u] \in Ending \/ HeldPorts(u)' = {}

(* ... and to those a process is bound to.                                 *)
SocketsCalm(u) ==
    /\ orphan'[u] \subseteq orphan[u]
    /\ \A c \in Procs : pst'[<<u, c>>] = "bound" =>
           pst[<<u, c>>] = "bound" /\ PortOf(u, c)' = PortOf(u, c)

LEMMA CalmStep ==
    ASSUME PlaceInv, OrphanInv, \A u \in Owners : PortsCalm(u) /\ SocketsCalm(u)
    PROVE  OrphanInv'
<1>1. ASSUME NEW u \in Owners, NEW p, OnSocket(u, p)' PROVE OnSocket(u, p)
  BY <1>1, Zenon DEF OnSocket, SocketsCalm
<1>2. ProbeFree'
  <2>1. SUFFICES ASSUME NEW o \in Owners, NEW u \in Owners, NEW p \in PortNos, lst'[o] = p
                 PROVE  ~OnSocket(u, p)'
    BY Zenon DEF ProbeFree
  <2>2. lst[o] = p
    BY <2>1, NoPortAssumption, Zenon DEF PortsCalm
  <2> QED
    BY <1>1, <2>2, Zenon DEF OrphanInv, ProbeFree
<1>3. OrphanPortsAvoided'
  <2>1. SUFFICES ASSUME NEW u \in Owners, NEW o \in Owners, Reg[u] = Reg[o], NEW p,
                        p \in orphan'[u], p \in HeldPorts(o)'
                 PROVE  o = u /\ kpc'[o] \in Ending
    BY Zenon DEF OrphanPortsAvoided, Ending
  <2>2. p \in orphan[u] /\ p \in PortNos
    BY <2>1, Zenon DEF SocketsCalm, PlaceInv, StackTypeOK
  <2>3. p # lst[o]
    BY <2>2, Zenon DEF OrphanInv, ProbeFree, OnSocket
  <2>4. p \in HeldPorts(o)
    BY <2>1, <2>3, Zenon DEF PortsCalm
  <2>5. o = u /\ kpc[o] \in Ending
    BY <2>1, <2>2, <2>4, Zenon DEF OrphanInv, OrphanPortsAvoided, Ending
  <2> QED
    BY <2>1, <2>5, Zenon DEF PortsCalm
<1> QED
  BY <1>2, <1>3, Zenon DEF OrphanInv

(* The others of a step of o, as long as their orphans are left alone.     *)
LEMMA OthersCalm ==
    ASSUME PlaceInv, NEW o \in Owners, StackMove(o), NEW u \in Owners, u # o,
           orphan'[u] = orphan[u]
    PROVE  PortsCalm(u) /\ SocketsCalm(u)
<1>1. kpc'[u] = kpc[u] /\ SameProcs(u)
  BY OthersStack, Zenon DEF PlaceInv
<1>2. SamePorts(u)
  BY PortsOrNot, OthersPorts, Zenon DEF PlaceInv, StackTypeOK, portVars, SamePorts
<1>3. PortsCalm(u)
  BY <1>1, <1>2, Zenon DEF PortsCalm, SamePorts, HeldPorts
<1>4. SocketsCalm(u)
  BY <1>1, <1>2, Zenon DEF SocketsCalm, SameProcs, SamePorts, PortOf
<1> QED
  BY <1>3, <1>4, Zenon

(* The steps of AllocatePortPair but Listen, and the two releases: no      *)
(* process of o is there.                                                  *)
LEMMA AllocCalm ==
    ASSUME PlaceInv, NEW o \in Owners, UNCHANGED <<pst, orphan>>,
           \/ AllocStep(o) /\ kpc' = kpc
           \/ AttemptPorts(o) \/ Allocated(o) \/ FreeKinePort(o) \/ FreeAPIPort(o)
    PROVE  PortsCalm(o) /\ SocketsCalm(o)
<1>1. /\ lst \in [Owners -> MaybePort] /\ apc \in [Owners -> AllocPC]
      /\ kport \in [Owners -> MaybePort] /\ aport \in [Owners -> MaybePort]
      /\ kpc \in [Owners -> StackPC] /\ PlaceOK(o) /\ ProcOK(o)
  BY Zenon DEF PlaceInv, StackTypeOK, PortsTypeOK
<1>2. kpc[o] \in {"attempt", "ports", "relKine", "relApi"}
  BY <1>1, Zenon DEF PlaceOK, AllocStep, ListenErr, Reserve, ListenerClose, ListenerCloseErr,
     AllocUndo, AttemptPorts, Allocated, FreeKinePort, FreeAPIPort
<1>3. SocketsCalm(o)
  BY <1>1, <1>2, Zenon DEF ProcOK, SocketsCalm
<1>4. CASE ListenErr(o) \/ Reserve(o) \/ ListenerClose(o) \/ ListenerCloseErr(o) \/ AllocUndo(o)
  <2>1. lst'[o] \in {lst[o], NoPort}
    BY <1>1, <1>4, Zenon DEF ListenErr, Reserve, ListenerClose, ListenerCloseErr, AllocUndo
  <2>2. kpc[o] \notin Ending
    BY <1>1, <1>4, Zenon DEF PlaceOK, ListenErr, Reserve, ListenerClose, ListenerCloseErr,
       AllocUndo, Ending
  <2>3. kport'[o] \in {kport[o], lst[o], NoPort} /\ aport'[o] \in {aport[o], lst[o], NoPort}
    BY <1>1, <1>4, Zenon DEF ListenErr, Reserve, ListenerClose, ListenerCloseErr, AllocUndo
  <2>4. ASSUME NEW p, p \in HeldPorts(o)' PROVE p \in HeldPorts(o) \cup {lst[o]}
    <3>1. p # NoPort /\ (p = kport'[o] \/ p = aport'[o] \/ p = lst'[o])
      BY <2>4, HoldsNext, Zenon
    <3>2. p \in {kport[o], aport[o], lst[o]}
      BY <2>1, <2>3, <3>1, Zenon
    <3> QED
      BY <3>1, <3>2, Holds, Zenon
  <2> QED
    BY <1>3, <2>1, <2>2, <2>4, Zenon DEF PortsCalm
<1>5. CASE AttemptPorts(o) \/ Allocated(o) \/ FreeKinePort(o) \/ FreeAPIPort(o)
  <2>1. /\ lst' = lst /\ apc'[o] # "close"
        /\ kport'[o] \in {kport[o], NoPort} /\ aport'[o] \in {aport[o], NoPort}
    BY <1>1, <1>5, Zenon DEF AttemptPorts, Allocated, FreeKinePort, FreeAPIPort, AllocCall,
       AllocConsume, AllocTo, ReleaseKinePort, ReleaseAPIPort, PlaceOK
  <2>2. HeldPorts(o)' \subseteq HeldPorts(o)
    BY <2>1, Holds, HoldsNext, Zenon
  <2>3. CASE FreeAPIPort(o)
    <3>1. kport'[o] = NoPort /\ aport'[o] = NoPort
      BY <1>1, <2>3, Zenon DEF FreeAPIPort, ReleaseAPIPort, PlaceOK
    <3>2. HeldPorts(o)' = {}
      BY <2>1, <3>1, HoldsNext, Zenon
    <3> QED
      BY <1>3, <2>1, <2>2, <3>2, Zenon DEF PortsCalm
  <2>4. CASE AttemptPorts(o) \/ Allocated(o) \/ FreeKinePort(o)
    <3>1. kpc[o] \notin Ending \/ kpc'[o] \in Ending
      BY <1>1, <2>4, Zenon DEF AttemptPorts, Allocated, FreeKinePort, To, Ending
    <3> QED
      BY <1>3, <2>1, <2>2, <3>1, Zenon DEF PortsCalm
  <2> QED
    BY <1>5, <2>3, <2>4, Zenon
<1> QED
  BY <1>4, <1>5, Zenon DEF AllocStep

(* The steps that touch no port and bind none.                             *)
LEMMA QuietCalm ==
    ASSUME PlaceInv, NEW o \in Owners,
           \/ RetryCall(o) \/ AttemptErr(o) \/ Create(o) \/ CreateErr(o) \/ Join(o) \/ StopGo(o)
           \/ Judge(o) \/ Cancel(o)
           \/ \E c \in Procs : GroupStep(o, c) \/ Exit(o, c)
    PROVE  /\ PortsCalm(o) /\ SocketsCalm(o)
           /\ \A u \in Owners : u # o => orphan'[u] = orphan[u]
<1>1. /\ kpc \in [Owners -> StackPC] /\ pst \in [Owners \X Procs -> ProcState]
      /\ orphan \in [Owners -> SUBSET PortNos]
  BY Zenon DEF PlaceInv, StackTypeOK
<1>2. ASSUME UNCHANGED portVars, kpc'[o] = kpc[o] \/ kpc[o] \notin Ending
      PROVE  PortsCalm(o)
  BY <1>2, Zenon DEF PortsCalm, HeldPorts, portVars
<1>3. ASSUME UNCHANGED portVars, orphan'[o] \subseteq orphan[o],
             \A c \in Procs : pst'[<<o, c>>] = "bound" => pst[<<o, c>>] = "bound"
      PROVE  SocketsCalm(o)
  BY <1>3, Zenon DEF SocketsCalm, PortOf, portVars
<1>4. CASE RetryCall(o) \/ AttemptErr(o) \/ Create(o) \/ CreateErr(o) \/ Join(o) \/ StopGo(o)
           \/ Judge(o)
  <2>1. UNCHANGED <<pst, orphan>> /\ UNCHANGED portVars /\ kpc[o] \notin Ending
    BY <1>4, Zenon DEF RetryCall, AttemptErr, Create, CreateErr, Join, StopGo, Judge, Ending
  <2> QED
    BY <1>2, <1>3, <2>1, Zenon
<1>5. CASE Cancel(o)
  <2>1. UNCHANGED pst /\ UNCHANGED portVars /\ kpc[o] \notin Ending
    BY <1>5, Zenon DEF Cancel, Ending
  <2>2. orphan'[o] = {} /\ \A u \in Owners : u # o => orphan'[u] = orphan[u]
    BY <1>1, <1>5, Zenon DEF Cancel
  <2> QED
    BY <1>2, <1>3, <2>1, <2>2, Zenon
<1>6. ASSUME NEW c \in Procs, GroupStep(o, c) \/ Exit(o, c)
      PROVE  /\ PortsCalm(o) /\ SocketsCalm(o)
             /\ \A u \in Owners : u # o => orphan'[u] = orphan[u]
  <2>1. UNCHANGED <<kpc, orphan>> /\ UNCHANGED portVars
    BY <1>6, Zenon DEF GroupStep, Launch, LaunchErr, WaitReady, WaitErr, Exit
  <2>2. pst' = pst \/ \E s \in {"spawned", "exited"} : pst' = [pst EXCEPT ![<<o, c>>] = s]
    BY <1>6, Zenon DEF GroupStep, Launch, LaunchErr, WaitReady, WaitErr, Exit
  <2>3. \A d \in Procs : pst'[<<o, d>>] = "bound" => pst[<<o, d>>] = "bound"
    BY <1>1, <2>2, Zenon
  <2> QED
    BY <1>2, <1>3, <2>1, <2>3, Zenon
<1> QED
  BY <1>4, <1>5, <1>6, Zenon

(* A probe listens, or a process binds, where nobody does.                 *)
LEMMA ListenStep ==
    ASSUME PlaceInv, OrphanInv, NEW o \in Owners, NEW p \in PortNos, ~Bound(p), Listen(o, p),
           UNCHANGED stackVars
    PROVE  OrphanInv'
<1>1. /\ lst \in [Owners -> MaybePort] /\ apc \in [Owners -> AllocPC]
  BY Zenon DEF PlaceInv, StackTypeOK, PortsTypeOK
<1>2. /\ UNCHANGED <<kport, aport, kpc, pst, orphan>>
      /\ lst' = [lst EXCEPT ![o] = p] /\ apc' = [apc EXCEPT ![o] = "reserve"]
      /\ apc[o] = "listen"
  BY Zenon DEF Listen, AllocTo, stackVars
<1>3. \A u \in Owners, q \in PortNos : OnSocket(u, q)' <=> OnSocket(u, q)
  BY <1>2, Zenon DEF OnSocket, PortOf
<1>4. \A u \in Owners : ~OnSocket(u, p)
  BY Zenon DEF Bound, OnSocket
<1>5. ProbeFree'
  BY <1>1, <1>2, <1>3, <1>4, Zenon DEF OrphanInv, ProbeFree
<1>6. \A u \in Owners : HeldPorts(u)' = HeldPorts(u)
  <2>1. \A u \in Owners : apc'[u] = "close" <=> apc[u] = "close"
    BY <1>1, <1>2, Zenon
  <2>2. \A u \in Owners : apc[u] = "close" => lst'[u] = lst[u]
    BY <1>1, <1>2, Zenon
  <2> QED
    BY <1>2, <2>1, <2>2, Zenon DEF HeldPorts
<1>7. OrphanPortsAvoided'
  BY <1>2, <1>6, Zenon DEF OrphanInv, OrphanPortsAvoided
<1> QED
  BY <1>5, <1>7, Zenon DEF OrphanInv

LEMMA BindStep ==
    ASSUME PlaceInv, OrphanInv, NEW o \in Owners, NEW c \in Procs, Bind(o, c)
    PROVE  OrphanInv'
<1>1. /\ pst \in [Owners \X Procs -> ProcState]
      /\ UNCHANGED <<lst, apc, kport, aport, kpc, orphan>>
  BY Zenon DEF PlaceInv, StackTypeOK, Bind, portVars
<1>2. ASSUME NEW u \in Owners, NEW d \in Procs, pst'[<<u, d>>] = "bound",
             pst[<<u, d>>] # "bound"
      PROVE  ~Bound(PortOf(u, d))
  <2>1. <<u, d>> = <<o, c>>
    BY <1>1, <1>2, Zenon DEF Bind
  <2>2. u = o /\ d = c
    BY <2>1, Zenon
  <2>3. pst'[<<o, c>>] = IF Bound(PortOf(o, c)) THEN "exited" ELSE "bound"
    BY <1>1, Zenon DEF Bind
  <2> QED
    BY <1>2, <2>2, <2>3, Zenon
<1>3. ASSUME NEW v \in Owners, NEW u \in Owners, NEW p \in PortNos, lst[v] = p
      PROVE  ~OnSocket(u, p)'
  <2>1. ~OnSocket(u, p) /\ Bound(p)
    BY <1>3, Zenon DEF OrphanInv, ProbeFree, Bound
  <2> QED
    BY <1>1, <1>2, <2>1, Zenon DEF OnSocket, PortOf
<1>4. ProbeFree'
  BY <1>1, <1>3, Zenon DEF ProbeFree
<1>5. OrphanPortsAvoided'
  BY <1>1, Zenon DEF OrphanInv, OrphanPortsAvoided, HeldPorts
<1> QED
  BY <1>4, <1>5, Zenon DEF OrphanInv

(* A stop that fails leaves a port that is still the stack's own.          *)
LEMMA StopProcessStep ==
    ASSUME PlaceInv, RegInv, OrphanInv, NEW o \in Owners, NEW c \in Procs,
           NEW place \in {"stopApi", "stopKine"}, NEW next \in Ending,
           StopProcess(o, c, place, next)
    PROVE  OrphanInv'
<1>1. /\ pst \in [Owners \X Procs -> ProcState] /\ orphan \in [Owners -> SUBSET PortNos]
      /\ kpc \in [Owners -> StackPC] /\ PlaceOK(o)
      /\ UNCHANGED <<lst, apc, kport, aport>>
  BY Zenon DEF PlaceInv, StackTypeOK, StopProcess, portVars
<1>2. kpc'[o] \in Ending /\ \A u \in Owners : u # o => kpc'[u] = kpc[u]
  BY <1>1, Zenon DEF StopProcess, To
<1>3. ASSUME NEW u \in Owners, NEW p, p \in orphan'[u], p \notin orphan[u]
      PROVE  u = o /\ p = PortOf(o, c) /\ pst[<<o, c>>] = "bound"
  <2>1. pst[<<o, c>>] = "bound" /\ orphan' = [orphan EXCEPT ![o] = @ \cup {PortOf(o, c)}]
    BY <1>3, Zenon DEF StopProcess
  <2>2. u = o
    BY <1>1, <1>3, <2>1, Zenon
  <2>3. orphan'[o] = orphan[o] \cup {PortOf(o, c)}
    BY <1>1, <2>1, Zenon
  <2> QED
    BY <1>3, <2>1, <2>2, <2>3, Zenon
<1>4. \A u \in Owners, d \in Procs : pst'[<<u, d>>] = "bound" => pst[<<u, d>>] = "bound"
  <2>1. pst' = [pst EXCEPT ![<<o, c>>] = "none"]
    BY Zenon DEF StopProcess
  <2> QED
    BY <1>1, <2>1, Zenon
<1>5. ASSUME NEW u \in Owners, NEW p, OnSocket(u, p)' PROVE OnSocket(u, p)
  BY <1>1, <1>3, <1>4, <1>5, Zenon DEF OnSocket, PortOf
<1>6. ProbeFree'
  BY <1>1, <1>5, Zenon DEF OrphanInv, ProbeFree
<1>7. \A u \in Owners : HeldPorts(u)' = HeldPorts(u)
  BY <1>1, Zenon DEF HeldPorts
<1>8. PortOf(o, c) \in HeldPorts(o)
  <2>1. kpc[o] \in Owning
    BY Zenon DEF StopProcess, Owning
  <2> QED
    BY <1>1, <2>1, Zenon DEF PlaceOK, PortOf, HeldPorts
<1>9. OrphanPortsAvoided'
  <2>1. SUFFICES ASSUME NEW u \in Owners, NEW v \in Owners, Reg[u] = Reg[v], NEW p,
                        p \in orphan'[u], p \in HeldPorts(v)'
                 PROVE  v = u /\ kpc'[v] \in Ending
    BY Zenon DEF OrphanPortsAvoided, Ending
  <2>4. p \in HeldPorts(v)
    BY <1>7, <2>1, Zenon
  <2>2. CASE p \in orphan[u]
    <3>1. v = u /\ kpc[v] \in Ending
      BY <2>1, <2>2, <2>4, Zenon DEF OrphanInv, OrphanPortsAvoided, Ending
    <3> QED
      BY <1>2, <3>1, Zenon
  <2>3. CASE p \notin orphan[u]
    <3>1. u = o /\ p \in HeldPorts(u)
      BY <1>3, <1>8, <2>1, <2>3, Zenon
    <3>2. v = u
      BY <2>1, <2>4, <3>1, Zenon DEF RegInv, HeldApart
    <3> QED
      BY <1>2, <3>1, <3>2, Zenon
  <2> QED
    BY <2>2, <2>3, Zenon
<1> QED
  BY <1>6, <1>9, Zenon DEF OrphanInv

LEMMA OrphanInit == Init => OrphanInv
<1>1. SUFFICES ASSUME Init PROVE OrphanInv
  BY Zenon
<1>2. \A u \in Owners : lst[u] = NoPort /\ orphan[u] = {}
  BY <1>1, Zenon DEF Init, PortsInit
<1> QED
  BY <1>2, NoPortAssumption, Zenon DEF OrphanInv, ProbeFree, OrphanPortsAvoided

LEMMA OrphanStep == PlaceInv /\ RegInv /\ OrphanInv /\ [Next]_vars => OrphanInv'
<1>1. SUFFICES ASSUME PlaceInv, RegInv, OrphanInv, [Next]_vars PROVE OrphanInv'
  BY Zenon
<1>2. CASE UNCHANGED vars
  <2>1. /\ UNCHANGED <<lst, kpc, pst, orphan, kport, aport>>
        /\ \A u \in Owners : HeldPorts(u)' = HeldPorts(u)
    BY <1>2, Zenon DEF vars, portVars, stackVars, HeldPorts
  <2>2. \A u \in Owners : PortsCalm(u) /\ SocketsCalm(u)
    BY <2>1, Zenon DEF PortsCalm, SocketsCalm, PortOf
  <2> QED
    BY <1>1, <2>2, CalmStep, Zenon
<1>3. ASSUME NEW o \in Owners, StackMove(o)
      PROVE  OrphanInv'
  <2>1. ASSUME PortsCalm(o), SocketsCalm(o), \A u \in Owners : u # o => orphan'[u] = orphan[u]
        PROVE  OrphanInv'
    BY <1>1, <1>3, <2>1, OthersCalm, CalmStep, Zenon
  <2>2. CASE Allocate(o)
    <3>1. UNCHANGED <<pst, orphan>> /\ kpc' = kpc
      BY <2>2, Zenon DEF Allocate, stackVars
    <3>2. CASE AllocStep(o)
      BY <1>1, <2>1, <3>1, <3>2, AllocCalm, Zenon
    <3>3. CASE \E p \in PortNos : ~Bound(p) /\ Listen(o, p)
      BY <1>1, <2>2, <3>3, ListenStep, Zenon DEF Allocate
    <3> QED
      BY <2>2, <3>2, <3>3, Zenon DEF Allocate
  <2>3. CASE AttemptPorts(o) \/ Allocated(o) \/ FreeKinePort(o) \/ FreeAPIPort(o)
    <3>1. UNCHANGED <<pst, orphan>>
      BY <2>3, Zenon DEF AttemptPorts, Allocated, FreeKinePort, FreeAPIPort
    <3> QED
      BY <1>1, <2>1, <2>3, <3>1, AllocCalm, Zenon
  <2>4. CASE StopAPIServer(o) \/ StopKine(o)
    BY <1>1, <2>4, StopProcessStep, Zenon DEF StopAPIServer, StopKine, Ending, Procs
  <2>5. CASE \E c \in Procs : Bind(o, c)
    BY <1>1, <2>5, BindStep, Zenon
  <2>6. CASE \/ RetryCall(o) \/ AttemptErr(o) \/ Create(o) \/ CreateErr(o) \/ Join(o) \/ StopGo(o)
             \/ Judge(o) \/ Cancel(o)
             \/ \E c \in Procs : GroupStep(o, c) \/ Exit(o, c)
    BY <1>1, <2>1, <2>6, QuietCalm, Zenon
  <2> QED
    BY <1>3, <2>2, <2>3, <2>4, <2>5, <2>6, ZenonT(30) DEF StackMove, StackStep
<1> QED
  BY <1>1, <1>2, <1>3, StopAccepted, Zenon DEF Next, StackMove

(* No stack is given a port that a process of the same registry is still   *)
(* bound to after a failed stop, its own earlier attempts' included, for   *)
(* any number of stacks: stopProcesses releases the port at once, and it   *)
(* is the probe of tryAllocate that keeps it out of use until the process  *)
(* is dead (stack.go:519-529, port.go:68-72).                              *)
THEOREM NoOrphanPortReused == Spec => []OrphanPortsAvoided
<1>1. OrphanInv => OrphanPortsAvoided
  BY Zenon DEF OrphanInv
<1> QED
  BY <1>1, PlaceInit, PlaceStep, RegInit, RegStep, OrphanInit, OrphanStep, PTL DEF Spec

-----------------------------------------------------------------------------
(* The database and its purge (module Purge).                              *)

(* All rows up to the baseline are the API server's own, and until the     *)
(* first lease all rows are.  Between leases a tenant's rows are left in   *)
(* the system namespaces only.                                             *)
PurgeInv ==
    /\ PurgeTypeOK
    /\ ConnectionsOwned
    /\ \A r \in table : r.id <= baseline => r.by = "system"
    /\ phase \in {"poll", "query", "prepare"} => \A r \in table : r.by = "system"
    /\ phase = "free" => \A r \in table : r.by = "system" \/ OfSystem(r.obj)
    /\ phase = "held" => acquired >= 1

-----------------------------------------------------------------------------
LEMMA PhaseNames ==
    {"poll", "query", "prepare", "free", "held", "purge", "failed"} \subseteq Phases
BY Zenon DEF Phases

LEMMA Bounds ==
    /\ MaxNamespaceRetries \in Nat \ {0} /\ BaselineQueryRetries \in Nat \ {0}
    /\ MaxId \in Nat \ {0} /\ MaxLeases \in Nat \ {0}
BY PurgeAssumption, Zenon

LEMMA TwoSegments ==
    ASSUME NEW a, NEW b
    PROVE  (<<a>> \o <<>>) \o <<b>> = <<a, b>>
<1> DEFINE S == {a, b}
<1>1. <<a>> \in Seq(S) /\ <<b>> \in Seq(S) /\ <<a, b>> \in Seq(S)
  OBVIOUS
<1>2. <<a>> \o <<>> = <<a>>
  BY <1>1, ConcatEmptySeq, Zenon
<1>3. /\ Len(<<a>> \o <<b>>) = 2 /\ <<a>> \o <<b>> \in Seq(S)
      /\ (<<a>> \o <<b>>)[1] = a /\ (<<a>> \o <<b>>)[2] = b
  BY <1>1
<1>4. Len(<<a, b>>) = 2 /\ <<a, b>>[1] = a /\ <<a, b>>[2] = b
  BY Zenon
<1>5. \A i \in 1 .. 2 : (<<a>> \o <<b>>)[i] = <<a, b>>[i]
  BY <1>3, <1>4
<1>6. <<a>> \o <<b>> = <<a, b>>
  BY <1>1, <1>3, <1>4, <1>5, SeqEqual, Zenon
<1> QED
  BY <1>2, <1>6, Zenon

(* The filter on paths spares exactly what is in or of a system namespace. *)
LEMMA SparedIsSystem ==
    ASSUME NEW o \in Objects
    PROVE  spared(Path(o)) <=> OfSystem(o)
<1> DEFINE n == Len(o.prefix)
<1>1. /\ o.prefix \in Seq(STRING) /\ n \in Nat /\ n >= 1
      /\ o.ns \in STRING /\ o.name \in STRING
      /\ o = [prefix |-> o.prefix, ns |-> o.ns, name |-> o.name]
  BY ObjectsAssumption
<1>2. \A k \in 1 .. n : o.prefix[k] \notin SystemNamespaces
  BY ObjectsAssumption, Zenon
<1>3. CASE o.ns = NoNamespace
  <2>1. /\ Len(Path(o)) = n + 1 /\ Path(o)[n + 1] = o.name
        /\ \A k \in 1 .. n : Path(o)[k] = o.prefix[k]
    BY <1>1, <1>3 DEF Path
  <2>2. ASSUME NEW ns \in SystemNamespaces, Path(o) = <<"namespaces", ns>>
        PROVE  o = NamespaceObject(ns)
    <3>1. /\ Len(<<"namespaces", ns>>) = 2
          /\ <<"namespaces", ns>>[1] = "namespaces" /\ <<"namespaces", ns>>[2] = ns
      BY Zenon
    <3>2. n + 1 = 2 /\ Path(o)[1] = "namespaces" /\ Path(o)[2] = ns
      BY <2>1, <2>2, <3>1, Zenon
    <3>3. n = 1
      <4>1. \A m \in Nat : m + 1 = 2 => m = 1
        OBVIOUS
      <4> QED
        BY <1>1, <3>2, <4>1, Zenon
    <3>4. o.name = ns /\ o.prefix[1] = "namespaces"
      BY <2>1, <3>2, <3>3
    <3>5. o.prefix = <<"namespaces">>
      BY <1>1, <3>3, <3>4
    <3> QED
      BY <1>1, <1>3, <3>4, <3>5, Zenon DEF NamespaceObject
  <2>3. ASSUME NEW ns \in SystemNamespaces, o = NamespaceObject(ns)
        PROVE  Path(o) = <<"namespaces", ns>>
    <3>1. o.prefix = <<"namespaces">> /\ o.name = ns
      BY <2>3, Zenon DEF NamespaceObject
    <3>2. Path(o) = (<<"namespaces">> \o <<>>) \o <<ns>>
      BY <1>3, <3>1, Zenon DEF Path
    <3> QED
      BY <3>2, TwoSegments, Zenon
  <2>4. \A ns \in SystemNamespaces, k \in 1 .. Len(Path(o)) - 1 : Path(o)[k] # ns
    BY <1>1, <1>2, <2>1
  <2>5. o.ns \notin SystemNamespaces
    BY <1>3, ObjectsAssumption, Zenon
  <2> QED
    BY <2>2, <2>3, <2>4, <2>5, Zenon DEF spared, OfSystem
<1>4. CASE o.ns # NoNamespace
  <2>1. /\ Len(Path(o)) = n + 2 /\ Path(o)[n + 1] = o.ns
        /\ \A k \in 1 .. n : Path(o)[k] = o.prefix[k]
    BY <1>1, <1>4 DEF Path
  <2>2. \A ns \in SystemNamespaces : Path(o) # <<"namespaces", ns>> /\ o # NamespaceObject(ns)
    BY <1>1, <1>4, <2>1 DEF NamespaceObject
  <2>3. ASSUME NEW ns \in SystemNamespaces
        PROVE  (\E k \in 1 .. Len(Path(o)) - 1 : Path(o)[k] = ns) <=> o.ns = ns
    BY <1>1, <1>2, <2>1
  <2> QED
    BY <2>2, <2>3, Zenon DEF spared, OfSystem
<1> QED
  BY <1>3, <1>4, Zenon

-----------------------------------------------------------------------------
(* A write inserts one row, with an id greater than all before it.         *)
LEMMA InsertEffect ==
    ASSUME PurgeTypeOK, NEW o \in Objects, NEW by \in {"system", "tenant"}, NEW d \in BOOLEAN,
           InsertRow(o, by, d), baseline' = baseline
    PROVE  \E x \in Rows :
               /\ x.id = lastId + 1 /\ x.obj = o /\ x.by = by /\ x.deleted = d
               /\ table' = table \cup {x} /\ lastId' = lastId + 1 /\ lastId' \in 1 .. MaxId
               /\ baseline \in Nat /\ baseline < x.id
               /\ \A r \in table : r.id \in Nat /\ r.id < x.id
<1> DEFINE x == [id |-> lastId + 1, obj |-> o, by |-> by, deleted |-> d]
<1>1. /\ lastId \in Nat /\ baseline \in Nat /\ baseline <= lastId /\ lastId < MaxId
      /\ lastId' = lastId + 1
  BY Bounds DEF PurgeTypeOK, InsertRow
<1>2. lastId + 1 \in 1 .. MaxId
  BY <1>1, Bounds
<1>3. x \in Rows
  BY <1>2, Zenon DEF Rows
<1>4. table' = table \cup {x}
  BY <1>1, Zenon DEF InsertRow
<1>5. \A r \in table : r.id \in Nat /\ r.id <= lastId
  BY Bounds DEF PurgeTypeOK, Rows
<1>6. \A r \in table : r.id \in Nat /\ r.id < x.id
  BY <1>1, <1>5
<1>7. baseline < x.id
  BY <1>1
<1> QED
  BY <1>1, <1>2, <1>3, <1>4, <1>6, <1>7, Zenon

LEMMA InsertTypes ==
    ASSUME PurgeTypeOK, NEW o \in Objects, NEW by \in {"system", "tenant"}, NEW d \in BOOLEAN,
           InsertRow(o, by, d),
           UNCHANGED <<baseline, hasCache, phase, startTry, openTry, conns, acquired>>
    PROVE  PurgeTypeOK'
<1>1. PICK x \in Rows : /\ x.id = lastId + 1 /\ table' = table \cup {x} /\ lastId' = lastId + 1
                        /\ lastId' \in 1 .. MaxId
                        /\ \A r \in table : r.id \in Nat /\ r.id < x.id
  BY InsertEffect, Zenon
<1>2. lastId \in Nat /\ baseline \in 0 .. lastId
  BY Bounds DEF PurgeTypeOK
<1>3. lastId' \in 0 .. MaxId /\ baseline' \in 0 .. lastId'
  BY <1>1, <1>2, Bounds
<1>4. table' \subseteq Rows
  BY <1>1, Zenon DEF PurgeTypeOK
<1>5. \A r \in table' : r.id <= lastId'
  BY <1>1, <1>2
<1>6. \A r, q \in table' : r.id = q.id => r = q
  <2>1. \A r \in table : r.id # x.id
    BY <1>1, <1>2
  <2> QED
    BY <1>1, <2>1, Zenon DEF PurgeTypeOK
<1> QED
  BY <1>3, <1>4, <1>5, <1>6, Zenon DEF PurgeTypeOK

-----------------------------------------------------------------------------
LEMMA CacheRowsFit ==
    /\ CachedTable \subseteq Rows /\ CachedId \in 0 .. MaxId
    /\ \A r \in CachedTable : r.id \in Nat /\ r.id <= CachedId /\ r.by = "system"
    /\ \A r, q \in CachedTable : r.id = q.id => r = q
<1>1. CachedId \in Nat /\ CachedId <= MaxId /\ CachedId \in 0 .. MaxId
  BY CachedAssumption, Bounds
<1>2. \A r \in CachedTable : r.id \in 1 .. CachedId /\ r.by = "system"
  BY CachedAssumption, Zenon
<1>3. 1 .. CachedId \subseteq 1 .. MaxId
  BY <1>1, Bounds
<1>4. ASSUME NEW r \in CachedTable PROVE r \in Rows
  <2>1. /\ r = [id |-> r.id, obj |-> r.obj, by |-> r.by, deleted |-> r.deleted]
        /\ r.obj \in Objects /\ r.deleted \in BOOLEAN
    BY CachedAssumption, Zenon
  <2>2. r.id \in 1 .. MaxId /\ r.by \in {"system", "tenant"}
    BY <1>2, <1>3, Zenon
  <2>3. [id |-> r.id, obj |-> r.obj, by |-> r.by, deleted |-> r.deleted] \in Rows
    BY <2>1, <2>2, Zenon DEF Rows
  <2> QED
    BY <2>1, <2>3, Zenon
<1>5. \A r \in CachedTable : r.id \in Nat /\ r.id <= CachedId
  BY <1>1, <1>2
<1> QED
  BY <1>1, <1>2, <1>4, <1>5, CachedAssumption, Zenon

(* A torn-down attempt leaves a database without a row of a tenant.        *)
LEMMA TeardownKeeps ==
    ASSUME PurgeInv, phase \in {"poll", "query", "prepare"}, Teardown, conns' = 0
    PROVE  PurgeInv'
<1>1. /\ phase' \in {"poll", "failed"} /\ baseline' = 0 /\ openTry' = 0
      /\ UNCHANGED <<hasCache, acquired>>
  BY Zenon DEF Teardown
<1>2. startTry' \in 1 .. MaxNamespaceRetries
  <2>1. startTry \in 1 .. MaxNamespaceRetries /\ MaxNamespaceRetries \in Nat
    BY Bounds, Zenon DEF PurgeInv, PurgeTypeOK
  <2>2. startTry' = startTry \/ (startTry < MaxNamespaceRetries /\ startTry' = startTry + 1)
    BY Zenon DEF Teardown
  <2> QED
    BY <2>1, <2>2
<1>3. \/ table' = table /\ lastId' = lastId
      \/ table' = CachedTable /\ lastId' = CachedId
  BY Zenon DEF Teardown
<1>4. /\ table' \subseteq Rows /\ lastId' \in 0 .. MaxId
      /\ \A r \in table' : r.id <= lastId' /\ r.by = "system"
      /\ \A r, q \in table' : r.id = q.id => r = q
  BY <1>3, CacheRowsFit, Zenon DEF PurgeInv, PurgeTypeOK
<1>5. baseline' \in 0 .. lastId'
  BY <1>1, <1>4, Bounds
<1>6. openTry' \in 0 .. BaselineQueryRetries - 1 /\ conns' \in Nat
  BY <1>1, Bounds
<1>7. phase' \in Phases /\ phase' \notin {"free", "held"}
  BY <1>1, Zenon DEF Phases
<1>8. PurgeTypeOK'
  BY <1>1, <1>2, <1>4, <1>5, <1>6, <1>7, Zenon DEF PurgeInv, PurgeTypeOK
<1>9. ConnectionsOwned'
  BY <1>1, Zenon DEF ConnectionsOwned
<1> QED
  BY <1>4, <1>7, <1>8, <1>9, Zenon DEF PurgeInv

-----------------------------------------------------------------------------
LEMMA PurgeInitially == PurgeInit => PurgeInv
<1>1. SUFFICES ASSUME PurgeInit PROVE PurgeInv
  BY Zenon
<1>2. /\ phase = "poll" /\ baseline = 0 /\ openTry = 0 /\ conns = 0 /\ acquired = 0 /\ startTry = 1
      /\ hasCache \in BOOLEAN
  BY <1>1, Zenon DEF PurgeInit
<1>3. \/ table = CachedTable /\ lastId = CachedId
      \/ table = {} /\ lastId = 0
  BY <1>1, Zenon DEF PurgeInit
<1>4. 0 \in 0 .. MaxId
  BY Bounds
<1>5. /\ table \subseteq Rows /\ lastId \in 0 .. MaxId
      /\ \A r \in table : r.id <= lastId /\ r.by = "system"
      /\ \A r, q \in table : r.id = q.id => r = q
  BY <1>3, <1>4, CacheRowsFit, Zenon
<1>6. /\ baseline \in 0 .. lastId /\ startTry \in 1 .. MaxNamespaceRetries
      /\ openTry \in 0 .. BaselineQueryRetries - 1 /\ conns \in Nat /\ acquired \in 0 .. MaxLeases
  BY <1>2, <1>5, Bounds
<1>7. PurgeTypeOK
  BY <1>2, <1>5, <1>6, PhaseNames, Zenon DEF PurgeTypeOK
<1>8. ConnectionsOwned /\ phase \notin {"free", "held"}
  BY <1>2, Zenon DEF ConnectionsOwned
<1> QED
  BY <1>5, <1>7, <1>8, Zenon DEF PurgeInv

(* Steps that touch neither the rows nor the baseline.                     *)
LEMMA PhaseStep ==
    ASSUME PurgeInv, UNCHANGED <<table, lastId, baseline, hasCache, startTry>>,
           phase' \in Phases, openTry' \in 0 .. BaselineQueryRetries - 1, conns' \in Nat,
           acquired' \in 0 .. MaxLeases, ConnectionsOwned',
           phase' \in {"poll", "query", "prepare"} => phase \in {"poll", "query", "prepare"},
           phase' = "free" => phase \in {"prepare", "free"},
           phase' = "held" => acquired' >= 1
    PROVE  PurgeInv'
<1>1. PurgeTypeOK'
  BY Zenon DEF PurgeInv, PurgeTypeOK
<1>2. /\ \A r \in table' : r.id <= baseline' => r.by = "system"
      /\ phase' \in {"poll", "query", "prepare"} => \A r \in table' : r.by = "system"
      /\ phase' = "free" => \A r \in table' : r.by = "system" \/ OfSystem(r.obj)
  BY Zenon DEF PurgeInv
<1> QED
  BY <1>1, <1>2, Zenon DEF PurgeInv

(* Writes, of the API server at any time and of a tenant during a lease.   *)
LEMMA WriteStep ==
    ASSUME PurgeInv, NEW o \in Objects, NEW by \in {"system", "tenant"}, NEW d \in BOOLEAN,
           InsertRow(o, by, d), by = "tenant" => phase = "held",
           UNCHANGED <<baseline, hasCache, phase, startTry, openTry, conns, acquired>>
    PROVE  PurgeInv'
<1>1. PurgeTypeOK
  BY Zenon DEF PurgeInv
<1>2. PICK x \in Rows :
               /\ x.id = lastId + 1 /\ x.obj = o /\ x.by = by /\ x.deleted = d
               /\ table' = table \cup {x} /\ lastId' = lastId + 1 /\ lastId' \in 1 .. MaxId
               /\ baseline \in Nat /\ baseline < x.id
               /\ \A r \in table : r.id \in Nat /\ r.id < x.id
  <2>1. baseline' = baseline
    BY Zenon
  <2> QED
    BY <1>1, <2>1, InsertEffect
<1>3. ~(x.id <= baseline)
  <2>1. x.id \in Nat
    BY <1>1, <1>2, Bounds DEF PurgeTypeOK
  <2> QED
    BY <1>2, <2>1
<1>4. phase \in {"poll", "query", "prepare", "free"} => x.by = "system"
  BY <1>2, Zenon
<1>5. /\ \A r \in table' : r.id <= baseline' => r.by = "system"
      /\ phase' \in {"poll", "query", "prepare"} => \A r \in table' : r.by = "system"
      /\ phase' = "free" => \A r \in table' : r.by = "system" \/ OfSystem(r.obj)
  BY <1>2, <1>3, <1>4, Zenon DEF PurgeInv
<1>6. PurgeTypeOK'
  BY <1>1, InsertTypes, Zenon
<1> QED
  BY <1>5, <1>6, Zenon DEF PurgeInv, ConnectionsOwned

-----------------------------------------------------------------------------
LEMMA PurgeInvStep == PurgeInv /\ [PurgeNext]_purgeVars => PurgeInv'
<1>1. SUFFICES ASSUME PurgeInv, [PurgeNext]_purgeVars PROVE PurgeInv'
  BY Zenon
<1>2. /\ PurgeTypeOK /\ phase \in Phases /\ openTry \in 0 .. BaselineQueryRetries - 1
      /\ acquired \in 0 .. MaxLeases /\ ConnectionsOwned /\ conns \in Nat
  BY <1>1, Zenon DEF PurgeInv, PurgeTypeOK
<1>3. CASE UNCHANGED purgeVars
  <2>1. /\ UNCHANGED <<table, lastId, baseline, hasCache, startTry>>
        /\ UNCHANGED <<phase, openTry, conns, acquired>>
    BY <1>3, Zenon DEF purgeVars
  <2>2. ConnectionsOwned' /\ (phase' = "held" => acquired' >= 1)
    BY <1>1, <1>2, <2>1, Zenon DEF PurgeInv, ConnectionsOwned
  <2> QED
    BY <1>1, <1>2, <2>1, <2>2, PhaseStep, Zenon
<1>4. CASE PollOK
  <2>1. /\ phase = "poll" /\ phase' = "query" /\ openTry' = 0 /\ conns' = conns + 1
        /\ UNCHANGED <<table, lastId, baseline, hasCache, startTry, acquired>>
    BY <1>4, Zenon DEF PollOK
  <2>2. ConnectionsOwned' /\ conns' \in Nat /\ openTry' \in 0 .. BaselineQueryRetries - 1
    BY <1>2, <2>1, Bounds DEF ConnectionsOwned
  <2> QED
    BY <1>1, <1>2, <2>1, <2>2, PhaseStep, PhaseNames, Zenon
<1>5. CASE PollTimeout
  <2>1. phase = "poll" /\ Teardown /\ conns' = 0
    BY <1>2, <1>5, Zenon DEF PollTimeout, ConnectionsOwned
  <2> QED
    BY <1>1, <2>1, TeardownKeeps, Zenon
<1>6. CASE OpenFails
  <2>1. phase \in {"query", "prepare"} /\ Teardown /\ conns' = conns - 1
    BY <1>6, Zenon DEF OpenFails
  <2>2. conns' = 0
    BY <1>2, <2>1 DEF ConnectionsOwned
  <2> QED
    BY <1>1, <2>1, <2>2, TeardownKeeps, Zenon
<1>7. CASE BaselineRead
  <2>1. /\ phase = "query" /\ phase' = "prepare" /\ baseline' \in {0} \cup {r.id : r \in table}
        /\ UNCHANGED <<table, lastId, hasCache, startTry, openTry, conns, acquired>>
    BY <1>7, Zenon DEF BaselineRead
  <2>2. baseline' \in 0 .. lastId'
    <3>1. lastId \in Nat /\ \A r \in table : r.id \in Nat /\ r.id <= lastId
      BY <1>2, Bounds DEF PurgeTypeOK, Rows
    <3> QED
      BY <2>1, <3>1
  <2>3. PurgeTypeOK'
    BY <1>2, <2>1, <2>2, PhaseNames, Zenon DEF PurgeTypeOK
  <2>4. \A r \in table' : r.by = "system"
    BY <1>1, <2>1, Zenon DEF PurgeInv
  <2>5. ConnectionsOwned' /\ phase' \notin {"free", "held"}
    BY <1>2, <2>1, Zenon DEF ConnectionsOwned
  <2> QED
    BY <2>3, <2>4, <2>5, Zenon DEF PurgeInv
<1>8. CASE BaselineBusy
  <2>1. /\ phase = "query" /\ openTry < BaselineQueryRetries - 1 /\ openTry' = openTry + 1
        /\ UNCHANGED <<table, lastId, baseline, hasCache, phase, startTry, conns, acquired>>
    BY <1>8, Zenon DEF BaselineBusy
  <2>2. ConnectionsOwned' /\ openTry' \in 0 .. BaselineQueryRetries - 1
    BY <1>2, <2>1, Bounds DEF ConnectionsOwned
  <2> QED
    BY <1>1, <1>2, <2>1, <2>2, PhaseStep, Zenon
<1>9. CASE OpenPurgeHandle
  <2>1. /\ phase = "prepare" /\ phase' = "free"
        /\ UNCHANGED <<table, lastId, baseline, hasCache, startTry, openTry, conns, acquired>>
    BY <1>9, Zenon DEF OpenPurgeHandle
  <2>2. ConnectionsOwned'
    BY <1>2, <2>1, Zenon DEF ConnectionsOwned
  <2> QED
    BY <1>1, <1>2, <2>1, <2>2, PhaseStep, PhaseNames, Zenon
<1>10. CASE Acquire
  <2>1. /\ phase = "free" /\ phase' = "held" /\ acquired < MaxLeases /\ acquired' = acquired + 1
        /\ UNCHANGED <<table, lastId, baseline, hasCache, startTry, openTry, conns>>
    BY <1>10, Zenon DEF Acquire
  <2>2. ConnectionsOwned' /\ acquired' \in 0 .. MaxLeases /\ acquired' >= 1
    BY <1>2, <2>1, Bounds DEF ConnectionsOwned
  <2> QED
    BY <1>1, <1>2, <2>1, <2>2, PhaseStep, PhaseNames, Zenon
<1>11. CASE Release
  <2>1. /\ phase = "held" /\ phase' = "purge"
        /\ UNCHANGED <<table, lastId, baseline, hasCache, startTry, openTry, conns, acquired>>
    BY <1>11, Zenon DEF Release
  <2>2. ConnectionsOwned'
    BY <1>2, <2>1, Zenon DEF ConnectionsOwned
  <2> QED
    BY <1>1, <1>2, <2>1, <2>2, PhaseStep, PhaseNames, Zenon
<1>12. CASE PurgeOK
  <2>1. /\ phase = "purge" /\ phase' = "free" /\ table' = afterPurge
        /\ UNCHANGED <<lastId, baseline, hasCache, startTry, openTry, conns, acquired>>
    BY <1>12, Zenon DEF PurgeOK
  <2>2. table' \subseteq table
    BY <2>1, Zenon DEF afterPurge
  <2>3. PurgeTypeOK'
    BY <1>2, <2>1, <2>2, PhaseNames, Zenon DEF PurgeTypeOK
  <2>4. \A r \in table' : r.by = "system" \/ OfSystem(r.obj)
    <3>1. \A r \in table : r.obj \in Objects
      BY <1>2, Zenon DEF PurgeTypeOK, Rows
    <3> QED
      BY <1>1, <2>1, <3>1, SparedIsSystem, Zenon DEF PurgeInv, afterPurge
  <2>5. \A r \in table' : r.id <= baseline' => r.by = "system"
    BY <1>1, <2>1, <2>2, Zenon DEF PurgeInv
  <2>6. ConnectionsOwned' /\ phase' \notin {"poll", "query", "prepare", "held"}
    BY <1>2, <2>1, Zenon DEF ConnectionsOwned
  <2> QED
    BY <2>3, <2>4, <2>5, <2>6, Zenon DEF PurgeInv
<1>13. CASE PurgeErr
  <2>1. /\ phase = "purge" /\ phase' = "failed" /\ conns' = conns - 1
        /\ UNCHANGED <<table, lastId, baseline, hasCache, startTry, openTry, acquired>>
    BY <1>13, Zenon DEF PurgeErr
  <2>2. ConnectionsOwned' /\ conns' \in Nat
    BY <1>2, <2>1 DEF ConnectionsOwned
  <2> QED
    BY <1>1, <1>2, <2>1, <2>2, PhaseStep, PhaseNames, Zenon
<1>14. ASSUME NEW o \in SystemObjects, SystemWrite(o) PROVE PurgeInv'
  <2>1. /\ InsertRow(o, "system", FALSE)
        /\ UNCHANGED <<baseline, hasCache, phase, startTry, openTry, conns, acquired>>
    BY <1>14, Zenon DEF SystemWrite
  <2>2. o \in Objects
    BY CachedAssumption, Zenon
  <2> QED
    BY <1>1, <2>1, <2>2, WriteStep, Zenon
<1>15. ASSUME NEW o \in Objects, TenantPut(o) \/ TenantDelete(o) PROVE PurgeInv'
  <2>1. PICK d \in BOOLEAN : InsertRow(o, "tenant", d)
    BY <1>15, Zenon DEF TenantPut, TenantDelete
  <2>2. /\ phase = "held"
        /\ UNCHANGED <<baseline, hasCache, phase, startTry, openTry, conns, acquired>>
    BY <1>15, Zenon DEF TenantPut, TenantDelete
  <2> QED
    BY <1>1, <2>1, <2>2, WriteStep, Zenon
<1> QED
  BY <1>1, <1>3, <1>4, <1>5, <1>6, <1>7, <1>8, <1>9, <1>10, <1>11, <1>12, <1>13, <1>14, <1>15, Zenon
     DEF PurgeNext

LEMMA PurgeAlways == PurgeSpec => []PurgeInv
BY PurgeInitially, PurgeInvStep, PTL DEF PurgeSpec

(* The rows of the database, their ids and the counters stay in their      *)
(* ranges, and no two rows have the same id.                               *)
THEOREM PurgeTypeCorrect == PurgeSpec => []PurgeTypeOK
<1>1. PurgeInv => PurgeTypeOK
  BY Zenon DEF PurgeInv
<1> QED
  BY <1>1, PurgeAlways, PTL

(* openPurgeHandle, teardownFailedAttempt and failRelease never leak a     *)
(* connection to the database.                                             *)
THEOREM ConnectionsAreOwned == PurgeSpec => []ConnectionsOwned
<1>1. PurgeInv => ConnectionsOwned
  BY Zenon DEF PurgeInv
<1> QED
  BY <1>1, PurgeAlways, PTL

-----------------------------------------------------------------------------
(* From "purge" an instance becomes free only by a purge that succeeds.    *)
LEMMA PurgeFrees ==
    ASSUME [PurgeNext]_purgeVars, phase = "purge", phase' = "free"
    PROVE  PurgeOK
BY Zenon DEF PurgeNext, purgeVars, PollOK, PollTimeout, BaselineRead, BaselineBusy, OpenFails,
       OpenPurgeHandle, Acquire, Release, PurgeErr, SystemWrite, TenantPut, TenantDelete

(* The rows of an object that a purge keeps.                               *)
LEMMA KeptRows ==
    ASSUME PurgeInv, PurgeOK, NEW o \in Objects
    PROVE  \A r : r \in table' /\ r.obj = o
                  <=> r \in table /\ r.obj = o /\ (OfSystem(o) \/ r.id <= baseline)
<1>1. table' = {r \in table : r.id <= baseline \/ spared(Path(r.obj))}
  BY Zenon DEF PurgeOK, afterPurge
<1>2. spared(Path(o)) <=> OfSystem(o)
  BY SparedIsSystem, Zenon
<1> QED
  BY <1>1, <1>2, Zenon

(* The DELETE of a purge, with its filter on the paths, undoes exactly     *)
(* what was written outside the system namespaces since the instance       *)
(* started.                                                                *)
THEOREM PurgeIsExact == PurgeSpec => PurgeExact
<1> DEFINE m(o) == IF OfSystem(o) THEN lastId ELSE baseline
           Exact == phase = "purge" /\ phase' = "free" =>
                       \A o \in Objects :
                           LastRow(o, lastId)' =
                               LastRow(o, IF OfSystem(o) THEN lastId ELSE baseline)
<1>1. ASSUME PurgeInv, [PurgeNext]_purgeVars PROVE [Exact]_purgeVars
  <2>1. SUFFICES ASSUME phase = "purge", phase' = "free", NEW o \in Objects
                 PROVE  LastRow(o, lastId)' = LastRow(o, m(o))
    BY Zenon
  <2>2. PurgeOK
    BY <1>1, <2>1, PurgeFrees, Zenon
  <2>3. \A r : r \in table' /\ r.obj = o
               <=> r \in table /\ r.obj = o /\ (OfSystem(o) \/ r.id <= baseline)
    BY <1>1, <2>2, KeptRows, Zenon
  <2>4. lastId' = lastId
    BY <2>2, Zenon DEF PurgeOK
  <2>5. \A r \in table : r.id <= lastId
    BY <1>1, Zenon DEF PurgeInv, PurgeTypeOK
  <2>6. \A r : r \in table' /\ r.obj = o /\ r.id <= lastId'
               <=> r \in table /\ r.obj = o /\ r.id <= m(o)
    BY <2>3, <2>4, <2>5, Zenon
  <2>7. LastRow(o, lastId)' =
            {r \in table' : /\ r.obj = o /\ r.id <= lastId'
                            /\ \A q \in table' : q.obj = o /\ q.id <= lastId' => q.id <= r.id}
    BY Zenon DEF LastRow
  <2>8. LastRow(o, m(o)) =
            {r \in table : /\ r.obj = o /\ r.id <= m(o)
                           /\ \A q \in table : q.obj = o /\ q.id <= m(o) => q.id <= r.id}
    BY Zenon DEF LastRow
  <2> HIDE DEF m
  <2> QED
    BY <2>6, <2>7, <2>8, Zenon
<1> QED
  BY <1>1, PurgeAlways, PTL DEF PurgeSpec, PurgeExact

-----------------------------------------------------------------------------
(* The state of the lease specification, as the refinement maps it.        *)
Dirty == \E o \in Objects : TenantData(o)
Clean == phase \in {"poll", "query", "prepare", "free"} => ~Dirty
Held == IF phase = "held" THEN {<<0, acquired>>} ELSE {}
Past == {<<0, k>> : k \in 1 .. IF phase = "held" THEN acquired - 1 ELSE acquired}

LEMMA MapStutter ==
    ASSUME Held' = Held, Past' = Past, Dirty' = Dirty
    PROVE  UNCHANGED D!leaseVars
BY Zenon DEF D!leaseVars, Held, Past, Dirty

(* Between leases nothing of a tenant is left outside the system           *)
(* namespaces.                                                             *)
LEMMA NoData == PurgeInv => Clean
<1>1. SUFFICES ASSUME PurgeInv, phase \in {"poll", "query", "prepare", "free"},
                      NEW o \in Objects, TenantData(o)
               PROVE  FALSE
  BY Zenon DEF Clean, Dirty
<1>2. PICK r \in table : r.obj = o /\ r.by = "tenant" /\ ~OfSystem(o)
  BY <1>1, Zenon DEF TenantData, LastRow
<1>3. r.by # "system"
  BY <1>2, Zenon
<1> QED
  BY <1>1, <1>2, <1>3, Zenon DEF PurgeInv

LEMMA NoDataNext == PurgeInv' => Clean'
BY NoData, PTL

LEMMA SameData ==
    ASSUME UNCHANGED <<table, lastId, baseline>>
    PROVE  Dirty' = Dirty
BY DEF Dirty, TenantData, Visible, LastRow

(* Acquire begins a lease ...                                              *)
LEMMA MapGrant ==
    ASSUME phase = "free", phase' = "held", acquired \in Nat, acquired' = acquired + 1,
           acquired' \in 1 .. MaxLeases, ~Dirty, Dirty' = Dirty
    PROVE  D!LeaseNext
<1>1. Held = {} /\ Held' = {<<0, acquired'>>}
  BY Zenon DEF Held
<1>2. Past' = Past /\ \A p \in Past : p[2] < acquired'
  BY DEF Past
<1>3. D!Grant(0, acquired')
  BY <1>1, <1>2, Zenon DEF D!Grant, D!Leased, Held, Past, Dirty
<1> QED
  BY <1>3, Zenon DEF D!LeaseNext

(* ... Release ends it ...                                                 *)
LEMMA MapGiveBack ==
    ASSUME phase = "held", phase' = "purge", acquired \in Nat \ {0}, acquired' = acquired,
           Dirty' = Dirty
    PROVE  D!LeaseNext
<1>1. Held = {<<0, acquired>>} /\ Held' = {}
  BY Zenon DEF Held
<1>2. Past' = Past \cup {<<0, acquired>>}
  <2>1. 1 .. acquired = (1 .. acquired - 1) \cup {acquired}
    OBVIOUS
  <2> QED
    BY <2>1, Zenon DEF Past
<1>3. D!GiveBack(<<0, acquired>>)
  BY <1>1, <1>2, Zenon DEF D!GiveBack, Held, Past, Dirty
<1>4. <<0, acquired>> \in IF phase = "held" THEN {<<0, acquired>>} ELSE {}
  BY Zenon
<1> QED
  BY <1>3, <1>4, Zenon DEF D!LeaseNext, D!GiveBack

(* ... and in between the tenant and the API server write.                 *)
LEMMA MapWrite ==
    ASSUME phase = "held", UNCHANGED <<phase, acquired>>
    PROVE  D!LeaseNext
<1>1. Held = {<<0, acquired>>} /\ Held' = Held /\ Past' = Past
  BY Zenon DEF Held, Past
<1>2. D!Leased(0)
  BY <1>1, Zenon DEF D!Leased, Held
<1>3. D!Write(0)
  BY <1>1, <1>2, Zenon DEF D!Write, Held, Past, Dirty
<1> QED
  BY <1>3, Zenon DEF D!LeaseNext

(* What is left of a tenant's data is removed while nobody has a lease.    *)
LEMMA MapWipe ==
    ASSUME phase # "held", phase' # "held", acquired' = acquired, ~Dirty'
    PROVE  D!LeaseNext
<1>1. Held = {} /\ Held' = Held /\ Past' = Past
  BY Zenon DEF Held, Past
<1>2. D!Wipe(0)
  BY <1>1, Zenon DEF D!Wipe, D!Leased, Held, Past, Dirty
<1> QED
  BY <1>2, Zenon DEF D!LeaseNext

-----------------------------------------------------------------------------
(* A write of the API server between Release and the purge can only        *)
(* replace what a tenant has left.                                         *)
LEMMA SystemWriteCleans ==
    ASSUME PurgeInv, NEW o \in Objects, InsertRow(o, "system", FALSE), baseline' = baseline
    PROVE  Dirty' => Dirty
<1>1. PICK x \in Rows :
               /\ x.id = lastId + 1 /\ x.obj = o /\ x.by = "system" /\ x.deleted = FALSE
               /\ table' = table \cup {x} /\ lastId' = lastId + 1 /\ lastId' \in 1 .. MaxId
               /\ baseline \in Nat /\ baseline < x.id
               /\ \A r \in table : r.id \in Nat /\ r.id < x.id
  BY InsertEffect, Zenon DEF PurgeInv
<1>2. lastId \in Nat /\ x.id \in Nat /\ \A r \in table : r.id <= lastId
  BY <1>1, Bounds DEF PurgeInv, PurgeTypeOK
<1>3. ~(x.id <= baseline) /\ x.id <= lastId' /\ \A r \in table : ~(x.id <= r.id)
  BY <1>1, <1>2
<1>4. SUFFICES ASSUME NEW p \in Objects, TenantData(p)' PROVE TenantData(p)
  BY Zenon DEF Dirty
<1>5. PICK r \in table' : /\ r.obj = p /\ r.by = "tenant" /\ r.id <= lastId'
                          /\ ~r.deleted \/ Visible(p, baseline)'
                          /\ \A q \in table' : q.obj = p /\ q.id <= lastId' => q.id <= r.id
  BY <1>4, Zenon DEF TenantData, LastRow
<1>6. r \in table /\ r # x
  <2>1. r # x
    BY <1>1, <1>5, Zenon
  <2> QED
    BY <1>1, <1>5, <2>1, Zenon
<1>7. p # o
  BY <1>1, <1>3, <1>5, <1>6, Zenon
<1>8. r \in LastRow(p, lastId)
  <2>1. \A q \in table : q.id <= lastId'
    BY <1>1, <1>2
  <2> QED
    BY <1>1, <1>2, <1>5, <1>6, <2>1, Zenon DEF LastRow
<1>9. Visible(p, baseline)' => Visible(p, baseline)
  BY <1>1, <1>7, Zenon DEF Visible, LastRow
<1>10. ~OfSystem(p)
  BY <1>4, Zenon DEF TenantData
<1> QED
  BY <1>5, <1>8, <1>9, <1>10, Zenon DEF TenantData

LEMMA PurgeInitMaps == PurgeInit => D!LeaseInit
<1>1. SUFFICES ASSUME PurgeInit PROVE D!LeaseInit
  BY Zenon
<1>2. PurgeInv /\ phase = "poll" /\ acquired = 0
  BY <1>1, PurgeInitially, Zenon DEF PurgeInit
<1>3. ~Dirty
  BY <1>2, NoData, Zenon DEF Clean
<1>4. Held = {}
  BY <1>2, Zenon DEF Held
<1>5. Past = {}
  <2>1. 1 .. 0 = {}
    BY SMT
  <2> QED
    BY <1>2, <2>1, Zenon DEF Past
<1>6. [i \in {0} |-> Dirty] = [i \in {0} |-> FALSE]
  <2>1. Dirty = FALSE
    BY <1>3 DEF Dirty
  <2> QED
    BY <2>1, Zenon
<1> QED
  BY <1>4, <1>5, <1>6, Zenon DEF D!LeaseInit, Held, Past, Dirty

LEMMA PurgeStepMaps ==
    ASSUME PurgeInv, [PurgeNext]_purgeVars
    PROVE  D!LeaseNext \/ UNCHANGED D!leaseVars
<1>1. /\ PurgeTypeOK /\ Clean /\ acquired \in Nat /\ MaxLeases \in Nat
      /\ phase = "held" => acquired \in Nat \ {0}
  <2>1. /\ PurgeTypeOK /\ Clean /\ MaxLeases \in Nat \ {0} /\ acquired \in 0 .. MaxLeases
        /\ phase = "held" => acquired >= 1
    BY NoData, Bounds, Zenon DEF PurgeInv, PurgeTypeOK
  <2>2. MaxLeases \in Nat /\ acquired \in Nat /\ (acquired >= 1 => acquired \in Nat \ {0})
    BY <2>1, SMT
  <2> QED
    BY <2>1, <2>2, Zenon
<1>2. Clean'
  BY PurgeInvStep, NoDataNext, Zenon
<1>3. ASSUME phase # "held", phase' # "held", acquired' = acquired, Dirty' = Dirty
      PROVE  UNCHANGED D!leaseVars
  <2>1. Held' = Held /\ Past' = Past
    BY <1>3, Zenon DEF Held, Past
  <2> QED
    BY <1>3, <2>1, MapStutter, Zenon
<1>4. CASE UNCHANGED purgeVars
  <2>1. UNCHANGED <<table, lastId, baseline>> /\ UNCHANGED <<phase, acquired>>
    BY <1>4, Zenon DEF purgeVars
  <2>2. Held' = Held /\ Past' = Past
    BY <2>1, Zenon DEF Held, Past
  <2> QED
    BY <2>1, <2>2, SameData, MapStutter, Zenon
<1>5. CASE PollOK \/ PollTimeout \/ BaselineRead \/ BaselineBusy \/ OpenFails \/ OpenPurgeHandle
  <2>1. /\ phase \in {"poll", "query", "prepare"} /\ acquired' = acquired
        /\ phase' \in {"poll", "query", "prepare", "free", "failed"}
    BY <1>5, Zenon DEF PollOK, PollTimeout, Teardown, BaselineRead, BaselineBusy, OpenFails, OpenPurgeHandle
  <2>2. ~Dirty
    BY <1>1, <2>1, Zenon DEF Clean
  <2>3. CASE phase' # "failed"
    <3>1. ~Dirty'
      BY <1>2, <2>1, <2>3, Zenon DEF Clean
    <3> QED
      BY <2>1, <3>1, MapWipe, Zenon
  <2>4. CASE phase' = "failed"
    <3>1. table' = table /\ lastId' = lastId
      BY <1>5, <2>1, <2>4, Zenon DEF PollOK, PollTimeout, Teardown, BaselineRead, BaselineBusy, OpenFails,
                              OpenPurgeHandle
    <3>2. ~Dirty'
      <4>1. SUFFICES ASSUME NEW o \in Objects, TenantData(o)' PROVE FALSE
        BY Zenon DEF Dirty
      <4>2. PICK r \in table : r.by = "tenant"
        BY <3>1, <4>1, Zenon DEF TenantData, LastRow
      <4>3. r.by # "system"
        BY <4>2, Zenon
      <4> QED
        BY <2>1, <4>3, Zenon DEF PurgeInv
    <3> QED
      BY <2>1, <2>4, <3>2, MapWipe, Zenon
  <2> QED
    BY <2>3, <2>4, Zenon
<1>6. CASE Acquire
  <2>1. /\ phase = "free" /\ phase' = "held" /\ acquired < MaxLeases /\ acquired' = acquired + 1
        /\ UNCHANGED <<table, lastId, baseline>>
    BY <1>6, Zenon DEF Acquire
  <2>2. acquired' \in 1 .. MaxLeases
    BY <1>1, <2>1
  <2>3. ~Dirty
    BY <1>1, <2>1, Zenon DEF Clean
  <2> QED
    BY <1>1, <2>1, <2>2, <2>3, SameData, MapGrant, Zenon
<1>7. CASE Release
  <2>1. /\ phase = "held" /\ phase' = "purge" /\ acquired' = acquired
        /\ UNCHANGED <<table, lastId, baseline>>
    BY <1>7, Zenon DEF Release
  <2> QED
    BY <1>1, <2>1, SameData, MapGiveBack, Zenon
<1>8. CASE PurgeOK
  <2>1. phase = "purge" /\ phase' = "free" /\ acquired' = acquired
    BY <1>8, Zenon DEF PurgeOK
  <2>2. ~Dirty'
    BY <1>2, <2>1, Zenon DEF Clean
  <2> QED
    BY <2>1, <2>2, MapWipe, Zenon
<1>9. CASE PurgeErr
  <2>1. /\ phase = "purge" /\ phase' = "failed" /\ acquired' = acquired
        /\ UNCHANGED <<table, lastId, baseline>>
    BY <1>9, Zenon DEF PurgeErr
  <2> QED
    BY <1>3, <2>1, SameData, Zenon
<1>10. ASSUME NEW o \in Objects, TenantPut(o) \/ TenantDelete(o) PROVE D!LeaseNext
  <2>1. phase = "held" /\ UNCHANGED <<phase, acquired>>
    BY <1>10, Zenon DEF TenantPut, TenantDelete
  <2> QED
    BY <2>1, MapWrite, Zenon
<1>11. ASSUME NEW o \in SystemObjects, SystemWrite(o)
       PROVE  D!LeaseNext \/ UNCHANGED D!leaseVars
  <2>1. /\ InsertRow(o, "system", FALSE) /\ baseline' = baseline
        /\ UNCHANGED <<phase, acquired>>
    BY <1>11, Zenon DEF SystemWrite
  <2>2. CASE phase = "held"
    BY <2>1, <2>2, MapWrite, Zenon
  <2>3. CASE phase # "held"
    <3>1. o \in Objects
      BY CachedAssumption, Zenon
    <3>2. Dirty' => Dirty
      BY <2>1, <3>1, SystemWriteCleans, Zenon
    <3>3. CASE Dirty'
      <4>1. Dirty' = Dirty
        BY <3>2, <3>3, Zenon DEF Dirty
      <4> QED
        BY <1>3, <2>1, <2>3, <4>1, Zenon
    <3>4. CASE ~Dirty'
      BY <2>1, <2>3, <3>4, MapWipe, Zenon
    <3> QED
      BY <3>3, <3>4, Zenon
  <2> QED
    BY <2>2, <2>3, Zenon
<1> QED
  BY <1>4, <1>5, <1>6, <1>7, <1>8, <1>9, <1>10, <1>11, Zenon DEF PurgeNext

(* The log of kine, the baseline and the purge implement the lease that    *)
(* callers see: an instance is handed out only while no earlier tenant's   *)
(* data can be seen in it, and is purged only while nobody holds it.       *)
THEOREM DatabaseIsLease == PurgeSpec => DatabaseImplementsLease
<1>1. PurgeInv /\ [PurgeNext]_purgeVars => [D!LeaseNext]_(D!leaseVars)
  BY PurgeStepMaps, Zenon
<1> QED
  BY <1>1, PurgeInitMaps, PurgeAlways, PTL DEF PurgeSpec, DatabaseImplementsLease, D!LeaseSpec

=============================================================================
