------------------------------ MODULE Process ------------------------------
(***************************************************************************)
(* internal/process: one kine or kube-apiserver process, from              *)
(* SetupAndStart through stopWithDone to Close.                            *)
(*                                                                         *)
(* Time passes in ticks.  A timer is the number of ticks until it fires,   *)
(* or Off; a timer that is due fires before time goes on, so that bounds   *)
(* on the time a call takes are those of the code, without the delays of   *)
(* the scheduler.                                                          *)
(***************************************************************************)
EXTENDS StopBudget

CONSTANTS
    TermGracePeriod,    \* termGracePeriod
    KillDrainBudget     \* killDrainBudget

ASSUME PeriodsAssumption == {TermGracePeriod, KillDrainBudget} \subseteq Nat \ {0}

VARIABLES
    cmd,        \* b.cmd, b.waitDone and b.exited are set
    logs,       \* b.logFiles is set
    os,         \* the operating system process
    status,     \* its exit status, as expectSignalExit tells it apart
    done,       \* the channel b.waitDone
    pc,         \* the place in Stop or Close
    closing,    \* Stop was called by Close
    timeout,    \* the argument of Stop
    killIn, waitIn,    \* killTimer; totalTimer, then the timer of drainDone
    killed,     \* SIGKILL has been sent
    elapsed,    \* ghost: ticks since Stop was called
    result,     \* what Stop returned
    gaveUp      \* ghost: a Stop of this process has reported a timeout

timers == <<killIn, waitIn>>
procVars == <<cmd, logs, os, status, done, pc, closing, timeout, timers, killed,
          elapsed, result, gaveUp>>

Off == -1

MaxOf(a, b) == IF a < b THEN b ELSE a

(* The part of a timeout kept for draining after SIGKILL.                  *)
drainReserve(t) ==
    LET reserve == MinOf(KillDrainBudget, t \div 2)
    IN  IF reserve <= 0 THEN Millisecond ELSE reserve

\* Fault: the drain comes on top of the timeout.
mainBudget_Whole(t) == t

mainBudget(t) == t - drainReserve(t)

\* Fault: the grace period is not clamped.
grace_Unclamped(t) == TermGracePeriod

grace(t) == MinOf(TermGracePeriod, mainBudget(t))

(* A timer for a negative time fires at once.                              *)
Timer(d) == MaxOf(d, 0)

ProcInit ==
    /\ cmd = FALSE
    /\ logs = FALSE
    /\ os = "none"
    /\ status = "none"
    /\ done = "empty"
    /\ pc = "idle"
    /\ closing = FALSE
    /\ timeout = 0
    /\ killIn = Off
    /\ waitIn = Off
    /\ killed = FALSE
    /\ elapsed = 0
    /\ result = "none"
    /\ gaveUp = FALSE

-----------------------------------------------------------------------------
(* SetupAndStart, of a process that is not started: log files, the         *)
(* process, and the goroutine that waits for it.  When it fails it leaves  *)
(* nothing behind.                                                         *)
SetupAndStart ==
    /\ pc = "idle"
    /\ os = "none"
    /\ ~cmd
    /\ cmd' = TRUE
    /\ logs' = TRUE
    /\ os' = "running"
    /\ result' = "none"
    /\ UNCHANGED <<status, done, pc, closing, timeout, timers, killed, elapsed, gaveUp>>

(* The process exits: by itself, on SIGTERM or, in any case, on SIGKILL.   *)
ProcExit(s) ==
    /\ os = "running"
    /\ s = "signal" => pc # "idle" \/ killed
    /\ os' = "exited"
    /\ status' = s
    /\ UNCHANGED <<cmd, logs, done, pc, closing, timeout, timers, killed, elapsed, result, gaveUp>>

(* cmd.Wait collects the process; from here on signals to it fail.         *)
Reap ==
    /\ os = "exited"
    /\ os' = "reaped"
    /\ UNCHANGED <<cmd, logs, status, done, pc, closing, timeout, timers, killed, elapsed, result,
                   gaveUp>>

(* The error of cmd.Wait goes into the channel, which has room for it.     *)
Deliver ==
    /\ os = "reaped"
    /\ done = "empty"
    /\ done' = "full"
    /\ UNCHANGED <<cmd, logs, os, status, pc, closing, timeout, timers, killed, elapsed, result,
                   gaveUp>>

-----------------------------------------------------------------------------
(* Stop of a started process: SIGTERM, which fails if the process has      *)
(* already been waited for.                                                *)
StopBegin(t, byClose) ==
    /\ pc = "idle"
    /\ cmd
    /\ closing' = byClose
    /\ timeout' = t
    /\ elapsed' = 0
    /\ result' = "none"
    /\ IF os = "reaped"
       THEN pc' = "drain" /\ killIn' = Off /\ waitIn' = Timer(t)
       ELSE pc' = "wait" /\ killIn' = Timer(grace(t)) /\ waitIn' = Timer(mainBudget(t))
    /\ UNCHANGED <<cmd, logs, os, status, done, killed, gaveUp>>

(* Stop of a process that was not started, or was stopped before, returns  *)
(* nil at once: also when that earlier Stop gave the process up.           *)
StopNothing(t) ==
    /\ pc = "idle"
    /\ ~cmd
    /\ timeout' = t
    /\ elapsed' = 0
    /\ result' = "nil"
    /\ UNCHANGED <<cmd, logs, os, status, done, pc, closing, timers, killed, gaveUp>>

Stop(remaining) ==
    LET t == effectiveStopTimeout(remaining) IN StopNothing(t) \/ StopBegin(t, FALSE)

(* Close of a process that was not stopped stops it first.                 *)
Close ==
    \/ StopBegin(StopTimeout, TRUE)
    \/ /\ pc = "idle"
       /\ ~cmd
       /\ logs
       /\ logs' = FALSE
       /\ UNCHANGED <<cmd, os, status, done, pc, closing, timeout, timers, killed,
                      elapsed, result, gaveUp>>

(* Stop returns: the references are cleared whatever the outcome, and      *)
(* killTimer is stopped.                                                   *)
StopReturns(r) ==
    /\ result' = r
    /\ gaveUp' = (gaveUp \/ r = "timeout")
    /\ cmd' = FALSE
    /\ logs' = (logs /\ ~closing)
    /\ closing' = FALSE
    /\ killIn' = Off
    /\ waitIn' = Off
    /\ pc' = "idle"

(* expectSignalExit: a clean exit and one by signal are successful stops.  *)
expectSignalExit(s) == IF s \in {"ok", "signal"} THEN "nil" ELSE "exitErr"

(* The result of Wait arrives, while Stop waits or drains.                 *)
StopDone ==
    /\ pc \in {"wait", "drain"}
    /\ done = "full"
    /\ done' = "taken"
    /\ StopReturns(expectSignalExit(status))
    /\ UNCHANGED <<os, status, timeout, killed, elapsed>>

(* killTimer fires.                                                        *)
Kill ==
    /\ killIn = 0
    /\ killIn' = Off
    /\ killed' = TRUE
    /\ UNCHANGED <<cmd, logs, os, status, done, pc, closing, timeout, waitIn,
                   elapsed, result, gaveUp>>

(* totalTimer fires: drain the channel with the reserve.                   *)
MainExpired ==
    /\ pc = "wait"
    /\ waitIn = 0
    /\ pc' = "drain"
    /\ waitIn' = drainReserve(timeout)
    /\ UNCHANGED <<cmd, logs, os, status, done, closing, timeout, killIn, killed,
                   elapsed, result, gaveUp>>

\* Fault: a drain that timed out is reported as a successful stop.
DrainExpired_Nil ==
    /\ pc = "drain"
    /\ waitIn = 0
    /\ StopReturns("nil")
    /\ UNCHANGED <<os, status, done, timeout, killed, elapsed>>

(* The drain times out; an exit that was not collected stays in the        *)
(* channel's buffer.                                                       *)
DrainExpired ==
    /\ pc = "drain"
    /\ waitIn = 0
    /\ StopReturns("timeout")
    /\ UNCHANGED <<os, status, done, timeout, killed, elapsed>>

Tick ==
    /\ pc # "idle"
    /\ killIn # 0
    /\ waitIn # 0
    /\ killIn' = IF killIn > 0 THEN killIn - 1 ELSE killIn
    /\ waitIn' = waitIn - 1
    /\ elapsed' = elapsed + 1
    /\ UNCHANGED <<cmd, logs, os, status, done, pc, closing, timeout, killed, result, gaveUp>>

ProcNext ==
    \/ SetupAndStart \/ Close \/ \E r \in Remaining : Stop(r)
    \/ \E s \in {"ok", "signal", "other"} : ProcExit(s)
    \/ Reap \/ Deliver \/ StopDone \/ Kill \/ MainExpired \/ DrainExpired \/ Tick

ProcSpec == ProcInit /\ [][ProcNext]_procVars

(* Time goes on, Stop runs, and a process that was sent SIGKILL exits.     *)
ProcFairSpec ==
    /\ ProcSpec
    /\ WF_procVars(StopDone \/ Kill \/ MainExpired \/ DrainExpired \/ Tick)
    /\ WF_procVars(killed /\ ProcExit("signal"))

-----------------------------------------------------------------------------
(* A process that may still run is not passed over in silence: when Stop   *)
(* returns nil or an exit error, the process was never started or has been *)
(* waited for, unless an earlier Stop has given it up and said so (of such *)
(* a process a second Stop returns nil, base.go:65-67).                    *)
StopTruthful == result \in {"nil", "exitErr"} => os \in {"none", "reaped"} \/ gaveUp

(* Stop gives a process up only after SIGKILL, or because the process had  *)
(* already exited when it was called: the grace period is clamped so that  *)
(* the kill timer fires before the drain is over (process.go:187-191).     *)
GivenUpAfterKill == result = "timeout" => killed \/ os # "running"

(* Stop blocks no longer than its timeout: the drain after SIGKILL is      *)
(* carved out of it (process.go:95-97, 158-160).  Only for the shortest    *)
(* timeout, half of which is nothing, the drain takes its floor.           *)
WithinTimeout == elapsed <= MaxOf(timeout, drainReserve(timeout))

(* A started process that is being stopped exits, even one that ignores    *)
(* SIGTERM.                                                                *)
StopKills == pc = "wait" ~> os # "running"

=============================================================================
