------------------------------ MODULE Instance ------------------------------
(***************************************************************************)
(* Start and Stop of internal/core/instance.go: the life of the process    *)
(* stacks of every instance, under startMu.                                *)
(*                                                                         *)
(* A stack (kine + kube-apiserver, kubestack.Stack) is a member of Stacks, *)
(* fresh when it is launched; the purge handle opened for it and the       *)
(* cancel function of its process context bear its name.  running[i] is    *)
(* the set of stacks of i whose processes live, and openH[i] the set of    *)
(* open purge handles on its database: both belong to the operating        *)
(* system, the rest of the state is in memory.                             *)
(*                                                                         *)
(* A goroutine has one frame for Start and one per instance for Stop,      *)
(* because stopAllInstances stops all instances in parallel.  The cache of *)
(* clients, which Stop and a torn-down attempt also clear, is added by     *)
(* module ClientCache.                                                     *)
(***************************************************************************)
EXTENDS EnvBase

CONSTANTS
    Stacks,                \* names for stacks (positive numbers)
    MaxNamespaceRetries    \* maxNamespaceRetries (3 in the code)

ASSUME StacksAssumption == Stacks \subseteq Nat \ {0}
ASSUME RetriesAssumption == MaxNamespaceRetries \in Nat \ {0}

VARIABLES
    started,    \* i.started
    stack,      \* i.stack and i.cancel, set and cleared together
    purge,      \* i.purge
    startMu,    \* the goroutine that holds i.startMu over several steps
    running, openH,
    spc, sinst, sref, attempt, sok,    \* frames of Start
    xpc, xstack, xpurge                \* frames of Stop

startFrame == <<spc, sinst, sref, attempt, sok>>
stopFrame == <<xpc, xstack, xpurge>>
instVars == <<started, stack, purge, startMu, running, openH, startFrame, stopFrame>>

None == 0          \* a nil stack or purge handle
NoThread == "none"

ASSUME NoThreadAssumption == NoThread \notin Threads

StartPC == {"no", "lock", "launch", "verify", "publish", "done"}
StopStages == {"no", "lock", "clear", "close", "kill", "done"}

(* Two stretches under startMu that others can look into, because they     *)
(* read started without it: Stop has taken the references out but not yet  *)
(* cleared started, Start has installed them but not yet set it.           *)
Clearing(t, i) == xpc[<<t, i>>] = "clear"
Publishing(t, i) == spc[t] = "publish" /\ sinst[t] = i

(* Stop has taken these references out of the instance and not yet dealt   *)
(* with them.                                                              *)
HasStack(t, i) == xpc[<<t, i>>] \in {"clear", "close", "kill"} /\ xstack[<<t, i>>] # None
HasPurge(t, i) == xpc[<<t, i>>] \in {"clear", "close"} /\ xpurge[<<t, i>>] # None
Verifying(t, i) == spc[t] = "verify" /\ sinst[t] = i

InstInit ==
    /\ started = [i \in Instances |-> FALSE]
    /\ stack = [i \in Instances |-> None]
    /\ purge = [i \in Instances |-> None]
    /\ startMu = [i \in Instances |-> NoThread]
    /\ running = [i \in Instances |-> {}]
    /\ openH = [i \in Instances |-> {}]
    /\ spc = [t \in Threads |-> "no"]
    /\ sinst = [t \in Threads |-> NoInst]
    /\ sref = [t \in Threads |-> None]
    /\ attempt = [t \in Threads |-> 0]
    /\ sok = [t \in Threads |-> FALSE]
    /\ xpc = [p \in Threads \X Instances |-> "no"]
    /\ xstack = [p \in Threads \X Instances |-> None]
    /\ xpurge = [p \in Threads \X Instances |-> None]

-----------------------------------------------------------------------------
(* Start.                                                                  *)
StartCall(t, i) ==
    /\ spc[t] = "no"
    /\ spc' = [spc EXCEPT ![t] = "lock"]
    /\ sinst' = [sinst EXCEPT ![t] = i]
    /\ UNCHANGED <<started, stack, purge, startMu, running, openH,
                   sref, attempt, sok, stopFrame>>

StartReturns(t, ok) ==
    /\ spc' = [spc EXCEPT ![t] = "done"]
    /\ sok' = [sok EXCEPT ![t] = ok]
    /\ sref' = [sref EXCEPT ![t] = None]
    /\ attempt' = [attempt EXCEPT ![t] = 0]
    /\ UNCHANGED sinst

(* startMu is free and the instance already runs.                          *)
StartAlready(t) ==
    /\ spc[t] = "lock"
    /\ startMu[sinst[t]] = NoThread
    /\ started[sinst[t]]
    /\ StartReturns(t, TRUE)
    /\ UNCHANGED <<started, stack, purge, startMu, running, openH, stopFrame>>

\* Fault: startMu is unlocked before doStart runs.
StartLock_Early(t) ==
    /\ spc[t] = "lock"
    /\ startMu[sinst[t]] = NoThread
    /\ ~started[sinst[t]]
    /\ spc' = [spc EXCEPT ![t] = "launch"]
    /\ attempt' = [attempt EXCEPT ![t] = 1]
    /\ UNCHANGED <<started, stack, purge, startMu, running, openH, sinst, sref, sok,
                   stopFrame>>

(* startMu is free and is held from here to the end of doStart.            *)
StartLock(t) ==
    /\ spc[t] = "lock"
    /\ startMu[sinst[t]] = NoThread
    /\ ~started[sinst[t]]
    /\ startMu' = [startMu EXCEPT ![sinst[t]] = t]
    /\ spc' = [spc EXCEPT ![t] = "launch"]
    /\ attempt' = [attempt EXCEPT ![t] = 1]
    /\ UNCHANGED <<started, stack, purge, running, openH, sinst, sref, sok,
                   stopFrame>>

(* StartWithRetry returned s, a stack whose readiness checks passed.       *)
Launched(t, s) ==
    /\ spc[t] = "launch"
    /\ running' = [running EXCEPT ![sinst[t]] = @ \cup {s}]
    /\ sref' = [sref EXCEPT ![t] = s]
    /\ spc' = [spc EXCEPT ![t] = "verify"]
    /\ UNCHANGED <<started, stack, purge, startMu, openH, sinst, attempt, sok,
                   stopFrame>>

(* The least name that is not in use.                                      *)
Fresh(s, used) == s \notin used /\ \A r \in Stacks : r < s => r \in used

StartLaunch(t) ==
    /\ spc[t] = "launch"
    /\ \E s \in Stacks : Fresh(s, running[sinst[t]]) /\ Launched(t, s)

\* Fault: a failed start returns with startMu locked.
StartLaunchErr_Locked(t) ==
    /\ spc[t] = "launch"
    /\ StartReturns(t, FALSE)
    /\ UNCHANGED <<started, stack, purge, startMu, running, openH, stopFrame>>

(* The data directory cannot be made or StartWithRetry gives up: it has    *)
(* stopped what it started, and the error is final.                        *)
StartLaunchErr(t) ==
    /\ spc[t] = "launch"
    /\ startMu' = [startMu EXCEPT ![sinst[t]] = NoThread]
    /\ StartReturns(t, FALSE)
    /\ UNCHANGED <<started, stack, purge, running, openH, stopFrame>>

(* openPurgeHandle: a connection to the database of i, named after s;      *)
(* purgeHandle.Close gives it back, and does nothing without one.          *)
openPurgeHandle(i, s) == openH' = [openH EXCEPT ![i] = @ \cup {s}]
closePurgeHandle(i, s) == openH' = [openH EXCEPT ![i] = @ \ {s}]

(* The system namespaces exist and the purge handle opens: the handle and  *)
(* the stack are installed ...                                             *)
StartInstall(t) ==
    LET i == sinst[t] IN
    /\ spc[t] = "verify"
    /\ purge' = [purge EXCEPT ![i] = sref[t]]
    /\ openPurgeHandle(i, sref[t])
    /\ stack' = [stack EXCEPT ![i] = sref[t]]
    /\ sref' = [sref EXCEPT ![t] = None]
    /\ spc' = [spc EXCEPT ![t] = "publish"]
    /\ UNCHANGED <<started, startMu, running, sinst, attempt, sok, stopFrame>>

(* ... and then started is set, and startMu unlocked.                      *)
StartPublish(t) ==
    LET i == sinst[t] IN
    /\ spc[t] = "publish"
    /\ started' = [started EXCEPT ![i] = TRUE]
    /\ startMu' = [startMu EXCEPT ![i] = NoThread]
    /\ StartReturns(t, TRUE)
    /\ UNCHANGED <<stack, purge, running, openH, stopFrame>>

\* Fault: one attempt too many.
StartTeardown_OffByOne(t) ==
    /\ spc[t] = "verify"
    /\ running' = [running EXCEPT ![sinst[t]] = @ \ {sref[t]}]
    /\ spc' = [spc EXCEPT ![t] = "launch"]
    /\ attempt[t] <= MaxNamespaceRetries
    /\ attempt' = [attempt EXCEPT ![t] = @ + 1]
    /\ sref' = [sref EXCEPT ![t] = None]
    /\ UNCHANGED <<started, stack, purge, startMu, openH, sinst, sok, stopFrame>>

(* waitForSystemNamespaces or openPurgeHandle fails: the attempt is torn   *)
(* down, and tried again until the retries are used up.                    *)
StartTeardown(t) ==
    LET i == sinst[t] IN
    /\ spc[t] = "verify"
    /\ running' = [running EXCEPT ![i] = @ \ {sref[t]}]
    /\ IF attempt[t] < MaxNamespaceRetries
       THEN /\ spc' = [spc EXCEPT ![t] = "launch"]
            /\ attempt' = [attempt EXCEPT ![t] = @ + 1]
            /\ sref' = [sref EXCEPT ![t] = None]
            /\ UNCHANGED <<sinst, sok, startMu>>
       ELSE /\ StartReturns(t, FALSE)
            /\ startMu' = [startMu EXCEPT ![i] = NoThread]
    /\ UNCHANGED <<started, stack, purge, openH, stopFrame>>

(* The caller goes on.                                                     *)
StartConsume(t) ==
    /\ spc[t] = "done"
    /\ spc' = [spc EXCEPT ![t] = "no"]
    /\ sinst' = [sinst EXCEPT ![t] = NoInst]
    /\ sok' = [sok EXCEPT ![t] = FALSE]
    /\ UNCHANGED <<started, stack, purge, startMu, running, openH,
                   sref, attempt, stopFrame>>

-----------------------------------------------------------------------------
(* Stop, called for one instance or, by stopAllInstances, for several in   *)
(* parallel.  Every caller passes a fresh context, so the check of ctx.Err *)
(* at its start never fires.                                               *)
StopCall(t, insts) ==
    /\ \A i \in insts : xpc[<<t, i>>] = "no"
    /\ xpc' = [p \in Threads \X Instances |->
                 IF p[1] = t /\ p[2] \in insts THEN "lock" ELSE xpc[p]]
    /\ UNCHANGED <<started, stack, purge, startMu, running, openH, startFrame,
                   xstack, xpurge>>

\* Faults of Stop's critical section: i.stack is cleared before it is read,
\* or is not cleared.
StopExtract_Lose(t, i) ==
    /\ xpc[<<t, i>>] = "lock"
    /\ startMu[i] = NoThread
    /\ startMu' = [startMu EXCEPT ![i] = t]
    /\ xpurge' = [xpurge EXCEPT ![<<t, i>>] = purge[i]]
    /\ stack' = [stack EXCEPT ![i] = None]
    /\ purge' = [purge EXCEPT ![i] = None]
    /\ xpc' = [xpc EXCEPT ![<<t, i>>] = "clear"]
    /\ UNCHANGED <<started, running, openH, startFrame, xstack>>

StopExtract_Keep(t, i) ==
    /\ xpc[<<t, i>>] = "lock"
    /\ startMu[i] = NoThread
    /\ startMu' = [startMu EXCEPT ![i] = t]
    /\ xstack' = [xstack EXCEPT ![<<t, i>>] = stack[i]]
    /\ xpurge' = [xpurge EXCEPT ![<<t, i>>] = purge[i]]
    /\ purge' = [purge EXCEPT ![i] = None]
    /\ xpc' = [xpc EXCEPT ![<<t, i>>] = "clear"]
    /\ UNCHANGED <<started, stack, running, openH, startFrame>>

(* Under startMu the references are taken out; stack and cancel are read   *)
(* and written under startMu only, so one step does for their stores ...   *)
StopExtract(t, i) ==
    /\ xpc[<<t, i>>] = "lock"
    /\ startMu[i] = NoThread
    /\ startMu' = [startMu EXCEPT ![i] = t]
    /\ xstack' = [xstack EXCEPT ![<<t, i>>] = stack[i]]
    /\ xpurge' = [xpurge EXCEPT ![<<t, i>>] = purge[i]]
    /\ stack' = [stack EXCEPT ![i] = None]
    /\ purge' = [purge EXCEPT ![i] = None]
    /\ xpc' = [xpc EXCEPT ![<<t, i>>] = "clear"]
    /\ UNCHANGED <<started, running, openH, startFrame>>

\* Fault: started is left set.
StopUnpublish_StillStarted(t, i) ==
    /\ xpc[<<t, i>>] = "clear"
    /\ startMu' = [startMu EXCEPT ![i] = NoThread]
    /\ xpc' = [xpc EXCEPT ![<<t, i>>] = "close"]
    /\ UNCHANGED <<started, stack, purge, running, openH, startFrame, xstack, xpurge>>

(* ... and only then started is cleared, and startMu unlocked.             *)
StopUnpublish(t, i) ==
    /\ xpc[<<t, i>>] = "clear"
    /\ started' = [started EXCEPT ![i] = FALSE]
    /\ startMu' = [startMu EXCEPT ![i] = NoThread]
    /\ xpc' = [xpc EXCEPT ![<<t, i>>] = "close"]
    /\ UNCHANGED <<stack, purge, running, openH, startFrame, xstack, xpurge>>

(* Outside the lock: close the purge handle, if there was one ...          *)
StopClosePurge(t, i) ==
    /\ xpc[<<t, i>>] = "close"
    /\ closePurgeHandle(i, xpurge[<<t, i>>])
    /\ xpurge' = [xpurge EXCEPT ![<<t, i>>] = None]
    /\ xpc' = [xpc EXCEPT ![<<t, i>>] = IF xstack[<<t, i>>] = None THEN "done" ELSE "kill"]
    /\ UNCHANGED <<started, stack, purge, startMu, running, startFrame, xstack>>

(* ... then stop the processes; canceling their context afterwards kills   *)
(* what did not stop in time, so both outcomes end the stack.              *)
StopKill(t, i) ==
    /\ xpc[<<t, i>>] = "kill"
    /\ running' = [running EXCEPT ![i] = @ \ {xstack[<<t, i>>]}]
    /\ xstack' = [xstack EXCEPT ![<<t, i>>] = None]
    /\ xpc' = [xpc EXCEPT ![<<t, i>>] = "done"]
    /\ UNCHANGED <<started, stack, purge, startMu, openH, startFrame, xpurge>>

(* All the Stops of a call have returned and the caller goes on.           *)
StopConsume(t) ==
    /\ \A i \in Instances : xpc[<<t, i>>] \in {"no", "done"}
    /\ xpc' = [p \in Threads \X Instances |-> IF p[1] = t THEN "no" ELSE xpc[p]]
    /\ UNCHANGED <<started, stack, purge, startMu, running, openH, startFrame,
                   xstack, xpurge>>

-----------------------------------------------------------------------------
(* Start goes on; how an attempt ends is up to the processes.              *)
StartStep(t) ==
    \/ StartAlready(t) \/ StartLock(t) \/ StartLaunch(t) \/ StartLaunchErr(t)
    \/ StartInstall(t) \/ StartPublish(t) \/ StartTeardown(t)

StopStep(t, i) ==
    StopExtract(t, i) \/ StopUnpublish(t, i) \/ StopClosePurge(t, i) \/ StopKill(t, i)

-----------------------------------------------------------------------------
InstTypeOK ==
    /\ started \in [Instances -> BOOLEAN]
    /\ stack \in [Instances -> Stacks \cup {None}]
    /\ purge \in [Instances -> Stacks \cup {None}]
    /\ startMu \in [Instances -> Threads \cup {NoThread}]
    /\ running \in [Instances -> SUBSET Stacks]
    /\ openH \in [Instances -> SUBSET Stacks]
    /\ spc \in [Threads -> StartPC]
    /\ sinst \in [Threads -> Instances \cup {NoInst}]
    /\ sref \in [Threads -> Stacks \cup {None}]
    /\ attempt \in [Threads -> 0 .. MaxNamespaceRetries]
    /\ sok \in [Threads -> BOOLEAN]
    /\ xpc \in [Threads \X Instances -> StopStages]
    /\ xstack \in [Threads \X Instances -> Stacks \cup {None}]
    /\ xpurge \in [Threads \X Instances -> Stacks \cup {None}]

(* No process is orphaned: whatever runs is the installed stack, or a      *)
(* stack some Start is verifying, or one some Stop has taken out and will  *)
(* still stop; and what is referenced so still runs (stopped only once).   *)
StackOwned ==
    \A i \in Instances, s \in Stacks :
        s \in running[i] <=>
            \/ stack[i] = s
            \/ \E t \in Threads : Verifying(t, i) /\ sref[t] = s
            \/ \E t \in Threads : HasStack(t, i) /\ xstack[<<t, i>>] = s

(* A stack has one owner: two Stops never stop the same stack, and the     *)
(* installed stack is never one that is being stopped or still verified.   *)
SingleOwner ==
    \A i \in Instances, t \in Threads :
        /\ HasStack(t, i) =>
              /\ stack[i] # xstack[<<t, i>>]
              /\ \A u \in Threads : HasStack(u, i) /\ xstack[<<u, i>>] = xstack[<<t, i>>]
                                      => u = t
        /\ Verifying(t, i) =>
              /\ stack[i] # sref[t]
              /\ \A u \in Threads : HasStack(u, i) => xstack[<<u, i>>] # sref[t]

(* What started tells those who read it without startMu (Config, Release,  *)
(* Acquire): when it is set there is a stack with its purge handle, unless *)
(* a Stop is between taking them out and clearing started; when it is not  *)
(* set there is none, unless a Start is about to set it.  Whoever has      *)
(* startMu sees neither exception.  And purge handles do not leak.         *)
StartedComplete ==
    \A i \in Instances :
        /\ startMu[i] = NoThread => (started[i] <=> stack[i] # None)
        /\ started[i] => stack[i] # None \/ \E t \in Threads : Clearing(t, i)
        /\ stack[i] # None => started[i] \/ \E t \in Threads : Publishing(t, i)
        /\ stack[i] = purge[i]
        /\ \A h \in Stacks :
              h \in openH[i] <=> \/ purge[i] = h
                                 \/ \E t \in Threads : HasPurge(t, i) /\ xpurge[<<t, i>>] = h

(* A Stop that has been called returns, even when it has to wait for a     *)
(* Start that holds startMu through all its attempts.                      *)
StopReturns ==
    \A t \in Threads, i \in Instances : xpc[<<t, i>>] = "lock" ~> xpc[<<t, i>>] = "done"

=============================================================================
