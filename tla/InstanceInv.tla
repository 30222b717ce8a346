---------------------------- MODULE InstanceInv -----------------------------
(***************************************************************************)
(* The inductive invariant of Start and Stop of internal/core/instance.go, *)
(* in the parts that InstanceProofs shows their steps to preserve, and     *)
(* those steps: the manager's proofs use the first and take the second     *)
(* among their own.                                                        *)
(***************************************************************************)
EXTENDS Instance

(* startMu is held by a Start from its test of started to its end, and by  *)
(* a Stop until it has cleared started; by one of the two.                 *)
StartHolds(t, i) == spc[t] \in {"launch", "verify", "publish"} /\ sinst[t] = i

MuOK ==
    \A i \in Instances, t \in Threads :
        /\ startMu[i] = t <=> StartHolds(t, i) \/ Clearing(t, i)
        /\ ~(StartHolds(t, i) /\ Clearing(t, i))

(* The frames: a Start that is not over has an instance, and a stack while *)
(* it verifies one; a Stop has taken the stack and its handle together.    *)
FramesOK ==
    /\ \A t \in Threads :
          /\ spc[t] # "no" => sinst[t] \in Instances
          /\ sref[t] # None <=> spc[t] = "verify"
    /\ \A t \in Threads, i \in Instances :
          /\ xstack[<<t, i>>] # None => xpc[<<t, i>>] \in {"clear", "close", "kill"}
          /\ xpurge[<<t, i>>] = IF xpc[<<t, i>>] \in {"clear", "close"} THEN xstack[<<t, i>>] ELSE None

(* The owners of a stack of i: the instance, a Start and some Stops.       *)
Owned(i) ==
    /\ \A s \in running[i] :
          \/ stack[i] = s
          \/ \E t \in Threads : sref[t] = s /\ sinst[t] = i
          \/ \E t \in Threads : xstack[<<t, i>>] = s
    /\ stack[i] # None => stack[i] \in running[i]
    /\ \A t \in Threads : sref[t] # None /\ sinst[t] = i => sref[t] \in running[i]
    /\ \A t \in Threads : xstack[<<t, i>>] # None => xstack[<<t, i>>] \in running[i]

Apart(i) ==
    /\ \A t \in Threads : xstack[<<t, i>>] # None =>
          /\ stack[i] # xstack[<<t, i>>]
          /\ \A u \in Threads : xstack[<<u, i>>] = xstack[<<t, i>>] => u = t
    /\ \A t \in Threads : sref[t] # None /\ sinst[t] = i =>
          \A u \in Threads : xstack[<<u, i>>] # sref[t]

(* How started and the stack agree when startMu is free, and what the one  *)
(* who holds it has made of them.                                          *)
Phase(i) ==
    /\ startMu[i] = NoThread => (started[i] <=> stack[i] # None)
    /\ \A t \in Threads :
          /\ StartHolds(t, i) => ~started[i] /\ (stack[i] # None <=> spc[t] = "publish")
          /\ Clearing(t, i) => stack[i] = None

(* The purge handles: the one of the stack, and those Stops have yet to    *)
(* close.                                                                  *)
Complete(i) ==
    /\ stack[i] = purge[i]
    /\ \A h \in openH[i] : purge[i] = h \/ \E t \in Threads : xpurge[<<t, i>>] = h
    /\ purge[i] # None => purge[i] \in openH[i]
    /\ \A t \in Threads : xpurge[<<t, i>>] # None => xpurge[<<t, i>>] \in openH[i]

InstInv ==
    /\ InstTypeOK /\ MuOK /\ FramesOK
    /\ \A i \in Instances : Owned(i) /\ Apart(i) /\ Complete(i) /\ Phase(i)

(* A step of Start or Stop on behalf of t.                                 *)
InstStep(t) ==
    \/ \E i \in Instances : StartCall(t, i)
    \/ StartAlready(t) \/ StartLock(t) \/ StartLaunchErr(t)
    \/ \E s \in Stacks : s \notin running[sinst[t]] /\ Launched(t, s)
    \/ StartInstall(t) \/ StartPublish(t) \/ StartTeardown(t) \/ StartConsume(t)
    \/ \E insts \in SUBSET Instances : StopCall(t, insts)
    \/ \E i \in Instances :
          StopExtract(t, i) \/ StopUnpublish(t, i) \/ StopClosePurge(t, i) \/ StopKill(t, i)
    \/ StopConsume(t)

=============================================================================
