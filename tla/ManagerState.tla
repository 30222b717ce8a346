---------------------------- MODULE ManagerState ----------------------------
(***************************************************************************)
(* The state of internal/core/manager.go, of the wrappers it hands out and *)
(* of the goroutines inside its calls; the steps are in module Manager.    *)
(*                                                                         *)
(* mpc[t] is the place goroutine t has reached in Initialize, Acquire,     *)
(* Release or Shutdown.  A wrapper handed to a caller is the pair          *)
(* <<instance, token>>: issued collects them, released those whose         *)
(* released flag is set.  dirty[i] says that the database of i holds user  *)
(* data.                                                                   *)
(***************************************************************************)
EXTENDS Pool, Instance

CONSTANTS
    Starters, Clients, Closers,    \* who calls Initialize, Acquire and
                                   \* Release, Shutdown
    SerialInit    \* no Shutdown is called while an Initialize is running

ASSUME RolesAssumption == Starters \cup Clients \cup Closers \subseteq Threads
ASSUME SerialInitAssumption == SerialInit \in BOOLEAN

VARIABLES
    state,           \* m.state
    poolSet,         \* m.pool is not nil
    inflight,        \* m.inflight
    inflightDone,    \* m.inflightDone has been closed
    initMu,          \* the goroutine that holds m.initMu
    issued, released, dirty,
    sdReturned,      \* ghost: some Shutdown has returned
    mpc, minst, mtok

mgrShared == <<state, poolSet, inflight, inflightDone, initMu>>
apiVars == <<issued, released, dirty>>
mgrFrame == <<mpc, minst, mtok>>
mgrVars == <<mgrShared, apiVars, sdReturned, mgrFrame>>
vars == <<mgrVars, poolVars, instVars>>

States == {"created", "initializing", "ready", "shuttingDown"}

InitPC == {"iStore", "iDo", "iRollback", "iReady"}
AcquirePC == {"aPool", "aWait", "aRecheck", "aGiveUp", "aStop", "aStarted",
              "aStarting", "aFailed"}
ReleasePC == {"rToken", "rStarted", "rPurge", "rExec", "rFail", "rFailed",
              "rInc", "rState", "rPool", "rDecYes", "rDecNo", "rSigYes",
              "rSigNo", "rGiveUp", "rStop"}
ShutdownPC == {"sLoad", "sDrain", "sPool", "sClose", "sStop"}
MgrPC == {"idle"} \cup InitPC \cup AcquirePC \cup ReleasePC \cup ShutdownPC

(* The wrappers not released yet, and no call under way.                   *)
Held == issued \ released
Idle == \A t \in Threads : mpc[t] = "idle"

(* Places at which a goroutine, inside Acquire or Release, is the holder   *)
(* of the acquisition <<minst, mtok>>.                                     *)
HolderPC == {"aRecheck", "aGiveUp", "aStarted", "aStarting", "rToken",
             "rStarted", "rPurge", "rExec", "rFail", "rInc", "rState",
             "rDecNo", "rSigNo", "rGiveUp"}

=============================================================================
