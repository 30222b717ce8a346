------------------------------ MODULE KubeStack ------------------------------
(***************************************************************************)
(* internal/kubestack/stack.go: StartWithRetry and Stop of stacks that     *)
(* share the registry of ports, with the start and the readiness checks of *)
(* kine and kube-apiserver.                                                *)
(*                                                                         *)
(* kpc[o] is the place of owner o in StartWithRetry, Start or Stop, and    *)
(* gpc[<<o, c>>] that of the errgroup goroutine that runs startAndWait for *)
(* process c.  pst[<<o, c>>] is the operating system process itself:       *)
(* spawned, bound to its port, or exited.  How a process is stopped is the *)
(* subject of module Process; here a stop succeeds, or times out and       *)
(* leaves the process to the cancellation of its context (orphan).         *)
(***************************************************************************)
EXTENDS Ports, StopBudget

CONSTANT MaxRetries    \* the maxRetries argument of StartWithRetry

ASSUME MaxRetriesAssumption == MaxRetries \in Nat \ {0}

VARIABLES kpc, attempt, why, gpc, pst,
    orphan    \* the ports still bound by processes whose stop has failed

stackVars == <<kpc, attempt, why, gpc, pst, orphan>>
vars == <<portVars, stackVars>>

Procs == {"kine", "api"}

StackPC == {"idle", "attempt", "ports", "create", "run", "up", "stopApi",
            "stopKine", "relKine", "relApi", "judge", "gone"}
GroupPC == {"no", "start", "wait", "ok", "err"}
ProcState == {"none", "spawned", "bound", "exited"}

(* The first error of an attempt: a process that died, a readiness check   *)
(* that timed out, the caller's context, any other error that is in        *)
(* permanentStartErrors (a missing file), or none of these.                *)
Reasons == {"exited", "timeout", "ctx", "permanent", "other"}

IsPermanent(w) == w \in {"timeout", "ctx", "permanent"}

PortOf(o, c) == IF c = "kine" THEN kport[o] ELSE aport[o]

(* The sockets the kernel knows: probe listeners, processes, orphans.      *)
Bound(p) ==
    \E o \in Owners :
        \/ lst[o] = p
        \/ p \in orphan[o]
        \/ \E c \in Procs : pst[<<o, c>>] = "bound" /\ PortOf(o, c) = p

Init ==
    /\ PortsInit
    /\ kpc = [o \in Owners |-> "idle"]
    /\ attempt = [o \in Owners |-> 0]
    /\ why = [o \in Owners |-> "none"]
    /\ gpc = [x \in Owners \X Procs |-> "no"]
    /\ pst = [x \in Owners \X Procs |-> "none"]
    /\ orphan = [o \in Owners |-> {}]

To(o, place) == kpc' = [kpc EXCEPT ![o] = place]

FailsFor(o, reasons) == \E w \in reasons : why' = [why EXCEPT ![o] = w]

-----------------------------------------------------------------------------
RetryCall(o) ==
    /\ kpc[o] = "idle"
    /\ attempt' = [attempt EXCEPT ![o] = 1]
    /\ To(o, "attempt")
    /\ UNCHANGED <<why, gpc, pst, orphan, portVars>>

(* Every attempt begins with a fresh Stack and a look at readyCtx ...      *)
AttemptPorts(o) ==
    /\ kpc[o] = "attempt"
    /\ AllocCall(o)
    /\ To(o, "ports")
    /\ UNCHANGED <<attempt, why, gpc, pst, orphan>>

(* ... which is done, or the directory of the database cannot be made.     *)
AttemptErr(o) ==
    /\ kpc[o] = "attempt"
    /\ FailsFor(o, {"ctx", "permanent", "other"})
    /\ To(o, "judge")
    /\ UNCHANGED <<attempt, gpc, pst, orphan, portVars>>

\* Fault: a port is taken without asking the kernel for it.
Allocate_Unprobed(o) ==
    /\ AllocStep(o) \/ \E p \in PortNos : Listen(o, p)
    /\ UNCHANGED stackVars

(* AllocatePortPair, step by step.                                         *)
Allocate(o) ==
    /\ AllocStep(o) \/ \E p \in PortNos : ~Bound(p) /\ Listen(o, p)
    /\ UNCHANGED stackVars

Allocated(o) ==
    /\ kpc[o] = "ports"
    /\ AllocConsume(o)
    /\ IF apc[o] = "ok"
       THEN To(o, "create") /\ UNCHANGED why
       ELSE To(o, "judge") /\ FailsFor(o, {"permanent", "other"})
    /\ UNCHANGED <<attempt, gpc, pst, orphan>>

(* createProcesses: both process objects and the kubeconfig file; from     *)
(* here on the deferred cleanup runs on every error.                       *)
Create(o) ==
    /\ kpc[o] = "create"
    /\ gpc' = [x \in Owners \X Procs |-> IF x[1] = o THEN "start" ELSE gpc[x]]
    /\ To(o, "run")
    /\ UNCHANGED <<attempt, why, pst, orphan, portVars>>

CreateErr(o) ==
    /\ kpc[o] = "create"
    /\ FailsFor(o, {"permanent", "other"})
    /\ To(o, "stopApi")
    /\ UNCHANGED <<attempt, gpc, pst, orphan, portVars>>

-----------------------------------------------------------------------------
(* The two goroutines of startAndWaitForReady.  The first error cancels    *)
(* gCtx and is the one that g.Wait returns.                                *)
GroupFails(o, c, reasons) ==
    /\ gpc' = [gpc EXCEPT ![<<o, c>>] = "err"]
    /\ IF why[o] = "none" THEN FailsFor(o, reasons) ELSE UNCHANGED why

Launch(o, c) ==
    /\ gpc[<<o, c>>] = "start"
    /\ pst' = [pst EXCEPT ![<<o, c>>] = "spawned"]
    /\ gpc' = [gpc EXCEPT ![<<o, c>>] = "wait"]
    /\ UNCHANGED <<kpc, attempt, why, orphan, portVars>>

LaunchErr(o, c) ==
    /\ gpc[<<o, c>>] = "start"
    /\ GroupFails(o, c, {"permanent", "other"})
    /\ UNCHANGED <<kpc, attempt, pst, orphan, portVars>>

(* WaitReady: the port of the process answers.  A TCP dial is all that is  *)
(* asked of kine; the API server must answer /livez.  That the process has *)
(* exited is looked at before, so it may have exited since.                *)
KineAnswers(o) == Bound(kport[o])
LivezAnswers(o) == \E u \in Owners : pst[<<u, "api">>] = "bound" /\ aport[u] = aport[o]

WaitReady(o, c) ==
    /\ gpc[<<o, c>>] = "wait"
    /\ IF c = "kine" THEN KineAnswers(o) ELSE LivezAnswers(o)
    /\ gpc' = [gpc EXCEPT ![<<o, c>>] = "ok"]
    /\ UNCHANGED <<kpc, attempt, why, pst, orphan, portVars>>

(* It has exited, the timeout is over, or a context is done.               *)
WaitErr(o, c) ==
    /\ gpc[<<o, c>>] = "wait"
    /\ GroupFails(o, c, {"timeout", "ctx"}
                          \cup (IF pst[<<o, c>>] = "exited" THEN {"exited"} ELSE {}))
    /\ UNCHANGED <<kpc, attempt, pst, orphan, portVars>>

\* Fault: an error of the group returns without the cleanup.
Join_NoCleanup(o) ==
    /\ kpc[o] = "run"
    /\ \A c \in Procs : gpc[<<o, c>>] \in {"ok", "err"}
    /\ gpc' = [x \in Owners \X Procs |-> IF x[1] = o THEN "no" ELSE gpc[x]]
    /\ To(o, IF why[o] = "none" THEN "up" ELSE "judge")
    /\ UNCHANGED <<attempt, why, pst, orphan, portVars>>

(* g.Wait returns.                                                         *)
Join(o) ==
    /\ kpc[o] = "run"
    /\ \A c \in Procs : gpc[<<o, c>>] \in {"ok", "err"}
    /\ gpc' = [x \in Owners \X Procs |-> IF x[1] = o THEN "no" ELSE gpc[x]]
    /\ To(o, IF why[o] = "none" THEN "up" ELSE "stopApi")
    /\ UNCHANGED <<attempt, why, pst, orphan, portVars>>

-----------------------------------------------------------------------------
(* The operating system's side: a process binds its port, or finds it in   *)
(* use and exits; and it may exit at any time.                             *)
Bind(o, c) ==
    /\ pst[<<o, c>>] = "spawned"
    /\ pst' = [pst EXCEPT ![<<o, c>>] = IF Bound(PortOf(o, c)) THEN "exited" ELSE "bound"]
    /\ UNCHANGED <<kpc, attempt, why, gpc, orphan, portVars>>

Exit(o, c) ==
    /\ pst[<<o, c>>] \in {"spawned", "bound"}
    /\ pst' = [pst EXCEPT ![<<o, c>>] = "exited"]
    /\ UNCHANGED <<kpc, attempt, why, gpc, orphan, portVars>>

-----------------------------------------------------------------------------
(* Stop refuses a timeout that is not positive.  Instance.Stop has dropped *)
(* the stack by then and cancels the context of its processes: they die,   *)
(* and nobody releases the ports.                                          *)
StopRefused(o) ==
    /\ pst' = [x \in Owners \X Procs |-> IF x[1] = o THEN "none" ELSE pst[x]]
    /\ orphan' = [orphan EXCEPT ![o] =
                     @ \cup {PortOf(o, c) : c \in {d \in Procs : pst[<<o, d>>] = "bound"}}]
    /\ kport' = [kport EXCEPT ![o] = NoPort]
    /\ aport' = [aport EXCEPT ![o] = NoPort]
    /\ To(o, "gone")
    /\ UNCHANGED <<attempt, why, gpc, ports, lst, apc, tries>>

(* Stop of a started stack, by Instance.Stop.                              *)
StopCall(o, remaining) ==
    /\ kpc[o] = "up"
    /\ IF effectiveStopTimeout(remaining) <= 0
       THEN StopRefused(o)
       ELSE To(o, "stopApi") /\ UNCHANGED <<attempt, why, gpc, pst, orphan, portVars>>

(* StopCloseAndNil: the pointer is cleared whether or not the process      *)
(* could be stopped.                                                       *)
StopProcess(o, c, place, next) ==
    /\ kpc[o] = place
    /\ pst' = [pst EXCEPT ![<<o, c>>] = "none"]
    /\ \/ UNCHANGED orphan
       \/ /\ pst[<<o, c>>] = "bound"
          /\ orphan' = [orphan EXCEPT ![o] = @ \cup {PortOf(o, c)}]
    /\ To(o, next)
    /\ UNCHANGED <<attempt, why, gpc, portVars>>

(* stopProcesses, after a failed Start as in Stop: the API server, kine,   *)
(* the ports.                                                              *)
StopAPIServer(o) == StopProcess(o, "api", "stopApi", "stopKine")
StopKine(o) == StopProcess(o, "kine", "stopKine", "relKine")

FreeKinePort(o) ==
    /\ kpc[o] = "relKine"
    /\ ReleaseKinePort(o)
    /\ To(o, "relApi")
    /\ UNCHANGED <<attempt, why, gpc, pst, orphan>>

FreeAPIPort(o) ==
    /\ kpc[o] = "relApi"
    /\ ReleaseAPIPort(o)
    /\ To(o, IF why[o] = "none" THEN "gone" ELSE "judge")
    /\ UNCHANGED <<attempt, why, gpc, pst, orphan>>

\* Fault: one attempt too many.
Judge_OffByOne(o) ==
    /\ kpc[o] = "judge"
    /\ IF IsPermanent(why[o]) \/ attempt[o] > MaxRetries
       THEN To(o, "gone") /\ UNCHANGED attempt
       ELSE To(o, "attempt") /\ attempt' = [attempt EXCEPT ![o] = @ + 1]
    /\ why' = [why EXCEPT ![o] = "none"]
    /\ UNCHANGED <<gpc, pst, orphan, portVars>>

(* A transient error is retried with a new stack.                          *)
Judge(o) ==
    /\ kpc[o] = "judge"
    /\ IF IsPermanent(why[o]) \/ attempt[o] >= MaxRetries
       THEN To(o, "gone") /\ UNCHANGED attempt
       ELSE To(o, "attempt") /\ attempt' = [attempt EXCEPT ![o] = @ + 1]
    /\ why' = [why EXCEPT ![o] = "none"]
    /\ UNCHANGED <<gpc, pst, orphan, portVars>>

(* StartWithRetry has failed or Stop has returned: the caller cancels the  *)
(* process context, which kills what was left.                             *)
Cancel(o) ==
    /\ kpc[o] = "gone"
    /\ orphan' = [orphan EXCEPT ![o] = {}]
    /\ attempt' = [attempt EXCEPT ![o] = 0]
    /\ To(o, "idle")
    /\ UNCHANGED <<why, gpc, pst, portVars>>

-----------------------------------------------------------------------------
(* Steps of the library's goroutines.                                      *)
StackStep(o) ==
    \/ AttemptPorts(o) \/ AttemptErr(o) \/ Allocate(o) \/ Allocated(o)
    \/ Create(o) \/ CreateErr(o) \/ Join(o)
    \/ StopAPIServer(o) \/ StopKine(o) \/ FreeKinePort(o) \/ FreeAPIPort(o)
    \/ Judge(o) \/ Cancel(o)

GroupStep(o, c) == Launch(o, c) \/ LaunchErr(o, c) \/ WaitReady(o, c) \/ WaitErr(o, c)

Next ==
    \E o \in Owners :
        \/ RetryCall(o) \/ StackStep(o) \/ \E r \in Remaining : StopCall(o, r)
        \/ \E c \in Procs : GroupStep(o, c) \/ Bind(o, c) \/ Exit(o, c)

Spec == Init /\ [][Next]_vars

-----------------------------------------------------------------------------
StackTypeOK ==
    /\ PortsTypeOK
    /\ kpc \in [Owners -> StackPC]
    /\ attempt \in [Owners -> 0 .. MaxRetries]
    /\ why \in [Owners -> Reasons \cup {"none"}]
    /\ gpc \in [Owners \X Procs -> GroupPC]
    /\ pst \in [Owners \X Procs -> ProcState]
    /\ orphan \in [Owners -> SUBSET PortNos]

(* A process runs only under a stack that is starting, up or being         *)
(* stopped, and only with its port registered: when StartWithRetry returns *)
(* an error or begins another attempt, no process of an earlier one is     *)
(* left that it still could have stopped.                                  *)
NoStrayProcess ==
    \A o \in Owners, c \in Procs :
        pst[<<o, c>>] # "none" =>
            /\ kpc[o] \in {"run", "up", "stopApi", "stopKine"}
            /\ PortOf(o, c) \in ports[Reg[o]]

(* The ports of a process that could not be stopped are released with the  *)
(* rest (stack.go:527), while it is still bound to them: until it has been *)
(* killed no stack of this process, a later attempt of its own included,   *)
(* gets one of them, because every port is probed first.                   *)
OrphanPortsAvoided ==
    \A u, o \in Owners : Reg[u] = Reg[o] =>
        \A p \in orphan[u] \cap HeldPorts(o) :
            o = u /\ kpc[o] \in {"stopKine", "relKine", "relApi"}

=============================================================================
