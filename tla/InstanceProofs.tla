-------------------------- MODULE InstanceProofs ----------------------------
(***************************************************************************)
(* What Start and Stop of internal/core/instance.go keep true of the       *)
(* stacks and purge handles of an instance, whoever calls them in whatever *)
(* order: for any set of goroutines, any number of instances and any way   *)
(* of naming a launched stack that is not the name of a running one.  The  *)
(* specifications that compose Instance take these steps among others.     *)
(***************************************************************************)
EXTENDS InstanceInv, TLAPS

-----------------------------------------------------------------------------
LEMMA InstPlaces ==
    /\ {"no", "lock", "launch", "verify", "publish", "done"} \subseteq StartPC
    /\ {"no", "lock", "clear", "close", "kill", "done"} \subseteq StopStages
BY Zenon DEF StartPC, StopStages

LEMMA InstNames ==
    /\ None \notin Stacks
    /\ NoInst \notin Instances
    /\ NoThread \notin Threads
BY StacksAssumption, NoThreadAssumption, MaxIdxAssumption DEF None, NoInst, Instances

LEMMA InstInitially == InstInit => InstInv
<1>1. SUFFICES ASSUME InstInit PROVE InstInv
  BY Zenon
<1>2. InstTypeOK
  <2>1. attempt \in [Threads -> 0 .. MaxNamespaceRetries]
    BY <1>1, RetriesAssumption DEF InstInit
  <2>2. running \in [Instances -> SUBSET Stacks] /\ openH \in [Instances -> SUBSET Stacks]
    BY <1>1, Zenon DEF InstInit
  <2> QED
    BY <1>1, <2>1, <2>2, InstPlaces, Zenon DEF InstInit, InstTypeOK
<1>3. MuOK
  BY <1>1, InstNames, Zenon DEF InstInit, MuOK, StartHolds, Clearing
<1>4. FramesOK
  BY <1>1, Zenon DEF InstInit, FramesOK
<1>5. \A i \in Instances : Owned(i) /\ Apart(i) /\ Complete(i) /\ Phase(i)
  BY <1>1, InstNames, Zenon DEF InstInit, Owned, Apart, Complete, Phase, StartHolds, Clearing
<1> QED
  BY <1>2, <1>3, <1>4, <1>5, Zenon DEF InstInv

(* The three properties, from the invariant.                               *)
LEMMA InstProperties ==
    ASSUME InstInv
    PROVE  StackOwned /\ SingleOwner /\ StartedComplete
<1>1. FramesOK
  BY Zenon DEF InstInv
<1>2. \A t \in Threads, i \in Instances :
         /\ HasStack(t, i) <=> xstack[<<t, i>>] # None
         /\ HasPurge(t, i) <=> xpurge[<<t, i>>] # None
         /\ Verifying(t, i) <=> sref[t] # None /\ sinst[t] = i
  BY <1>1, Zenon DEF FramesOK, HasStack, HasPurge, Verifying
<1>3. ASSUME NEW i \in Instances PROVE Owned(i) /\ Apart(i) /\ Complete(i) /\ Phase(i)
  BY Zenon DEF InstInv
<1>4. StackOwned
  <2>1. SUFFICES ASSUME NEW i \in Instances, NEW s \in Stacks
                 PROVE  s \in running[i] <=>
                            \/ stack[i] = s
                            \/ \E t \in Threads : Verifying(t, i) /\ sref[t] = s
                            \/ \E t \in Threads : HasStack(t, i) /\ xstack[<<t, i>>] = s
    BY Zenon DEF StackOwned
  <2>2. s # None /\ Owned(i)
    BY <1>3, InstNames, Zenon
  <2>3. \A t \in Threads : /\ HasStack(t, i) <=> xstack[<<t, i>>] # None
                           /\ Verifying(t, i) <=> sref[t] # None /\ sinst[t] = i
    BY <1>2, Zenon
  <2>4. ASSUME s \in running[i]
        PROVE  \/ stack[i] = s
               \/ \E t \in Threads : Verifying(t, i) /\ sref[t] = s
               \/ \E t \in Threads : HasStack(t, i) /\ xstack[<<t, i>>] = s
    BY <2>2, <2>3, <2>4, Zenon DEF Owned
  <2>5. stack[i] = s => s \in running[i]
    BY <2>2, Zenon DEF Owned
  <2>6. \A t \in Threads : Verifying(t, i) /\ sref[t] = s => s \in running[i]
    BY <2>2, <2>3, Zenon DEF Owned
  <2>7. \A t \in Threads : HasStack(t, i) /\ xstack[<<t, i>>] = s => s \in running[i]
    BY <2>2, <2>3, Zenon DEF Owned
  <2> QED
    BY <2>4, <2>5, <2>6, <2>7, Zenon
<1>5. SingleOwner
  <2>1. SUFFICES ASSUME NEW i \in Instances, NEW t \in Threads
                 PROVE  /\ HasStack(t, i) =>
                              /\ stack[i] # xstack[<<t, i>>]
                              /\ \A u \in Threads :
                                    HasStack(u, i) /\ xstack[<<u, i>>] = xstack[<<t, i>>] => u = t
                        /\ Verifying(t, i) =>
                              /\ stack[i] # sref[t]
                              /\ \A u \in Threads : HasStack(u, i) => xstack[<<u, i>>] # sref[t]
    BY Zenon DEF SingleOwner
  <2>2. Verifying(t, i) => stack[i] = None
    <3>1. Verifying(t, i) => StartHolds(t, i) /\ spc[t] # "publish"
      BY Zenon DEF Verifying, StartHolds
    <3> QED
      BY <1>3, <3>1, Zenon DEF Phase
  <2> QED
    BY <1>2, <1>3, <2>2 DEF Apart
<1>6. StartedComplete
  <2>1. SUFFICES ASSUME NEW i \in Instances
                 PROVE  /\ startMu[i] = NoThread => (started[i] <=> stack[i] # None)
                        /\ started[i] => stack[i] # None \/ \E t \in Threads : Clearing(t, i)
                        /\ stack[i] # None => started[i] \/ \E t \in Threads : Publishing(t, i)
                        /\ stack[i] = purge[i]
                        /\ \A h \in Stacks :
                              h \in openH[i] <=>
                                  \/ purge[i] = h
                                  \/ \E t \in Threads : HasPurge(t, i) /\ xpurge[<<t, i>>] = h
    BY Zenon DEF StartedComplete
  <2>2. Complete(i) /\ Phase(i)
    BY <1>3, Zenon
  <2>4. startMu[i] = NoThread \/ \E t \in Threads : StartHolds(t, i) \/ Clearing(t, i)
    BY Zenon DEF InstInv, InstTypeOK, MuOK
  <2>5. /\ started[i] => stack[i] # None \/ \E t \in Threads : Clearing(t, i)
        /\ stack[i] # None => started[i] \/ \E t \in Threads : Publishing(t, i)
    BY <2>2, <2>4, Zenon DEF Phase, StartHolds, Publishing
  <2>3. ASSUME NEW h \in Stacks
        PROVE  h \in openH[i] <=> \/ purge[i] = h
                                  \/ \E t \in Threads : HasPurge(t, i) /\ xpurge[<<t, i>>] = h
    <3>1. h # None /\ \A t \in Threads : HasPurge(t, i) <=> xpurge[<<t, i>>] # None
      BY <1>2, InstNames, Zenon
    <3>2. ASSUME h \in openH[i]
          PROVE  purge[i] = h \/ \E t \in Threads : HasPurge(t, i) /\ xpurge[<<t, i>>] = h
      BY <2>2, <3>1, <3>2, Zenon DEF Complete
    <3>3. purge[i] = h => h \in openH[i]
      BY <2>2, <3>1, Zenon DEF Complete
    <3>4. \A t \in Threads : xpurge[<<t, i>>] = h => h \in openH[i]
      BY <2>2, <3>1, Zenon DEF Complete
    <3> QED
      BY <3>2, <3>3, <3>4, Zenon
  <2> QED
    BY <2>2, <2>3, <2>5, Zenon DEF Complete, Phase
<1> QED
  BY <1>4, <1>5, <1>6, Zenon

-----------------------------------------------------------------------------
LEMMA InstTypesStep ==
    ASSUME InstTypeOK, FramesOK, NEW t \in Threads, InstStep(t)
    PROVE  InstTypeOK'
<1>1. /\ started \in [Instances -> BOOLEAN] /\ stack \in [Instances -> Stacks \cup {None}]
      /\ purge \in [Instances -> Stacks \cup {None}]
      /\ startMu \in [Instances -> Threads \cup {NoThread}]
      /\ running \in [Instances -> SUBSET Stacks] /\ openH \in [Instances -> SUBSET Stacks]
      /\ spc \in [Threads -> StartPC] /\ sinst \in [Threads -> Instances \cup {NoInst}]
      /\ sref \in [Threads -> Stacks \cup {None}]
      /\ attempt \in [Threads -> 0 .. MaxNamespaceRetries] /\ sok \in [Threads -> BOOLEAN]
      /\ xpc \in [Threads \X Instances -> StopStages]
      /\ xstack \in [Threads \X Instances -> Stacks \cup {None}]
      /\ xpurge \in [Threads \X Instances -> Stacks \cup {None}]
  BY Zenon DEF InstTypeOK
<1>2. 0 \in 0 .. MaxNamespaceRetries /\ 1 \in 0 .. MaxNamespaceRetries
  BY RetriesAssumption
<1>3. ASSUME NEW ok \in BOOLEAN, StartReturns(t, ok)
      PROVE
         /\ spc' \in [Threads -> StartPC] /\ sinst' \in [Threads -> Instances \cup {NoInst}]
         /\ sref' \in [Threads -> Stacks \cup {None}]
         /\ attempt' \in [Threads -> 0 .. MaxNamespaceRetries] /\ sok' \in [Threads -> BOOLEAN]
  BY <1>1, <1>2, <1>3, InstPlaces, Zenon DEF StartReturns
<1>4. ASSUME NEW i \in Instances, StartCall(t, i) PROVE InstTypeOK'
  BY <1>1, <1>4, InstPlaces, Zenon DEF StartCall, InstTypeOK, stopFrame
<1>5. CASE StartAlready(t)
  BY <1>1, <1>3, <1>5, Zenon DEF StartAlready, InstTypeOK, stopFrame
<1>6. CASE StartLock(t)
  BY <1>1, <1>2, <1>6, InstPlaces, Zenon DEF StartLock, InstTypeOK, stopFrame
<1>7. CASE StartLaunchErr(t)
  BY <1>1, <1>3, <1>7, Zenon DEF StartLaunchErr, InstTypeOK, stopFrame
<1>8. CASE \E s \in Stacks : Launched(t, s)
  <2>1. PICK s \in Stacks : Launched(t, s)
    BY <1>8, Zenon
  <2>2. running' \in [Instances -> SUBSET Stacks]
    BY <1>1, <2>1, Zenon DEF Launched
  <2> QED
    BY <1>1, <2>1, <2>2, InstPlaces, Zenon DEF Launched, InstTypeOK, stopFrame
<1>9. CASE StartInstall(t)
  <2>1. sref[t] \in Stacks
    BY <1>1, <1>9, Zenon DEF StartInstall, FramesOK
  <2>2. openH' \in [Instances -> SUBSET Stacks]
    BY <1>1, <1>9, <2>1, Zenon DEF StartInstall, openPurgeHandle
  <2> QED
    BY <1>1, <1>9, <2>1, <2>2, InstPlaces, Zenon DEF StartInstall, InstTypeOK, stopFrame
<1>10. CASE StartTeardown(t)
  <2>1. running' \in [Instances -> SUBSET Stacks]
    BY <1>1, <1>10, Zenon DEF StartTeardown
  <2>2. CASE attempt[t] < MaxNamespaceRetries
    <3>1. attempt' = [attempt EXCEPT ![t] = @ + 1]
      BY <1>10, <2>2, Zenon DEF StartTeardown
    <3>2. attempt' \in [Threads -> 0 .. MaxNamespaceRetries]
      BY <1>1, <2>2, <3>1, RetriesAssumption
    <3> QED
      BY <1>1, <1>10, <2>1, <2>2, <3>2, InstPlaces, Zenon DEF StartTeardown, InstTypeOK, stopFrame
  <2>3. CASE ~(attempt[t] < MaxNamespaceRetries)
    BY <1>1, <1>3, <1>10, <2>1, <2>3, Zenon DEF StartTeardown, InstTypeOK, stopFrame
  <2> QED
    BY <2>2, <2>3, Zenon
<1>11. CASE StartConsume(t)
  BY <1>1, <1>11, InstPlaces, Zenon DEF StartConsume, InstTypeOK, stopFrame
<1>12. ASSUME NEW insts \in SUBSET Instances, StopCall(t, insts) PROVE InstTypeOK'
  BY <1>1, <1>12, InstPlaces, Zenon DEF StopCall, InstTypeOK, startFrame
<1>13. CASE StopConsume(t)
  BY <1>1, <1>13, InstPlaces, Zenon DEF StopConsume, InstTypeOK, startFrame
<1>14. ASSUME NEW i \in Instances, StopExtract(t, i) PROVE InstTypeOK'
  <2>1. stack[i] \in Stacks \cup {None} /\ purge[i] \in Stacks \cup {None}
    BY <1>1, Zenon
  <2> QED
    BY <1>1, <1>14, <2>1, InstPlaces, Zenon DEF StopExtract, InstTypeOK, startFrame
<1>15. ASSUME NEW i \in Instances, StopClosePurge(t, i) PROVE InstTypeOK'
  <2>1. openH' \in [Instances -> SUBSET Stacks]
    BY <1>1, <1>15, Zenon DEF StopClosePurge, closePurgeHandle
  <2> QED
    BY <1>1, <1>15, <2>1, InstPlaces, Zenon DEF StopClosePurge, InstTypeOK, startFrame
<1>16. ASSUME NEW i \in Instances, StopKill(t, i) PROVE InstTypeOK'
  <2>1. running' \in [Instances -> SUBSET Stacks]
    BY <1>1, <1>16, Zenon DEF StopKill
  <2> QED
    BY <1>1, <1>16, <2>1, InstPlaces, Zenon DEF StopKill, InstTypeOK, startFrame
<1>17. CASE StartPublish(t)
  BY <1>1, <1>3, <1>17, Zenon DEF StartPublish, InstTypeOK, stopFrame
<1>18. ASSUME NEW i \in Instances, StopUnpublish(t, i) PROVE InstTypeOK'
  BY <1>1, <1>18, InstPlaces, Zenon DEF StopUnpublish, InstTypeOK, startFrame
<1> QED
  BY <1>4, <1>5, <1>6, <1>7, <1>8, <1>9, <1>10, <1>11, <1>12, <1>13, <1>14, <1>15, <1>16, <1>17,
     <1>18, ZenonT(30) DEF InstStep

(* What becomes of startMu: it is left alone, taken or released.           *)
SameHolds(u, i) == (StartHolds(u, i)' <=> StartHolds(u, i)) /\ (Clearing(u, i)' <=> Clearing(u, i))

LEMMA MuSame ==
    ASSUME MuOK, startMu' = startMu, \A u \in Threads, i \in Instances : SameHolds(u, i)
    PROVE  MuOK'
BY Zenon DEF MuOK, SameHolds

LEMMA MuTake ==
    ASSUME InstTypeOK, MuOK, NEW t \in Threads, NEW j \in Instances, startMu[j] = NoThread,
           startMu' = [startMu EXCEPT ![j] = t], StartHolds(t, j)' <=> ~Clearing(t, j)',
           \A u \in Threads, i \in Instances : u # t \/ i # j => SameHolds(u, i)
    PROVE  MuOK'
<1>1. startMu \in [Instances -> Threads \cup {NoThread}] /\ NoThread \notin Threads
  BY InstNames, Zenon DEF InstTypeOK
<1>2. ASSUME NEW i \in Instances, NEW u \in Threads
      PROVE  /\ startMu'[i] = u <=> StartHolds(u, i)' \/ Clearing(u, i)'
             /\ ~(StartHolds(u, i)' /\ Clearing(u, i)')
  <2>1. CASE i # j
    BY <1>1, <2>1, Zenon DEF MuOK, SameHolds
  <2>2. CASE i = j /\ u = t
    BY <1>1, <2>2, Zenon
  <2>3. CASE i = j /\ u # t
    BY <1>1, <2>3, Zenon DEF MuOK, SameHolds
  <2> QED
    BY <2>1, <2>2, <2>3, Zenon
<1> QED
  BY <1>2, Zenon DEF MuOK

LEMMA MuFree ==
    ASSUME InstTypeOK, MuOK, NEW t \in Threads, NEW j \in Instances, startMu[j] = t,
           startMu' = [startMu EXCEPT ![j] = NoThread], ~StartHolds(t, j)', ~Clearing(t, j)',
           \A u \in Threads, i \in Instances : u # t \/ i # j => SameHolds(u, i)
    PROVE  MuOK'
<1>1. startMu \in [Instances -> Threads \cup {NoThread}] /\ NoThread \notin Threads
  BY InstNames, Zenon DEF InstTypeOK
<1>2. ASSUME NEW i \in Instances, NEW u \in Threads
      PROVE  /\ startMu'[i] = u <=> StartHolds(u, i)' \/ Clearing(u, i)'
             /\ ~(StartHolds(u, i)' /\ Clearing(u, i)')
  <2>1. CASE i # j
    BY <1>1, <2>1, Zenon DEF MuOK, SameHolds
  <2>2. CASE i = j /\ u = t
    BY <1>1, <2>2, Zenon
  <2>3. CASE i = j /\ u # t
    BY <1>1, <2>3, Zenon DEF MuOK, SameHolds
  <2> QED
    BY <2>1, <2>2, <2>3, Zenon
<1> QED
  BY <1>2, Zenon DEF MuOK

(* A Start that holds startMu, or a Stop, is the only one to.              *)
LEMMA MuHeld ==
    ASSUME MuOK, NEW t \in Threads, NEW i \in Instances, StartHolds(t, i) \/ Clearing(t, i)
    PROVE  /\ startMu[i] = t /\ startMu[i] # NoThread
           /\ \A u \in Threads : StartHolds(u, i) \/ Clearing(u, i) => u = t
BY InstNames, Zenon DEF MuOK

(* The steps of Start and Stop, by what they write: the places, the owner  *)
(* of startMu, and the stack and the purge handle of one instance.         *)
LEMMA MuStartStep ==
    ASSUME InstTypeOK, MuOK, FramesOK, NEW t \in Threads,
           \/ \E i \in Instances : StartCall(t, i)
           \/ StartAlready(t) \/ StartLock(t) \/ StartLaunchErr(t) \/ StartConsume(t)
           \/ \E s \in Stacks : Launched(t, s)
           \/ StartInstall(t) \/ StartPublish(t) \/ StartTeardown(t)
    PROVE  MuOK'
<1>1. /\ startMu \in [Instances -> Threads \cup {NoThread}]
      /\ spc \in [Threads -> StartPC] /\ sinst \in [Threads -> Instances \cup {NoInst}]
      /\ InstTypeOK
  BY Zenon DEF InstTypeOK
<1>2. \A u \in Threads, i \in Instances : Clearing(u, i)' <=> Clearing(u, i)
  <2>1. UNCHANGED stopFrame
    BY ZenonT(30) DEF StartCall, StartAlready, StartLock, StartLaunchErr, StartConsume, Launched,
       StartInstall, StartPublish, StartTeardown
  <2> QED
    BY <2>1, Zenon DEF stopFrame, Clearing
<1>3. ASSUME NEW p, spc' = [spc EXCEPT ![t] = p], UNCHANGED sinst
      PROVE  /\ \A u \in Threads, i \in Instances : u # t \/ i # sinst[t] => SameHolds(u, i)
             /\ p \in {"launch", "verify", "publish"} => StartHolds(t, sinst[t])'
             /\ p \notin {"launch", "verify", "publish"} => ~StartHolds(t, sinst[t])'
  BY <1>1, <1>2, <1>3, Zenon DEF SameHolds, StartHolds
<1>4. ASSUME UNCHANGED startMu,
             spc[t] \in {"launch", "verify", "publish"} <=> spc'[t] \in {"launch", "verify", "publish"},
             sinst'[t] = sinst[t] \/ spc[t] \notin {"launch", "verify", "publish"},
             \A u \in Threads \ {t} : spc'[u] = spc[u] /\ sinst'[u] = sinst[u]
      PROVE  MuOK'
  <2>1. \A u \in Threads, i \in Instances : SameHolds(u, i)
    BY <1>2, <1>4, Zenon DEF SameHolds, StartHolds
  <2> QED
    BY <1>4, <2>1, MuSame, Zenon
<1>5. ASSUME spc[t] \in {"launch", "verify", "publish"}, startMu' = [startMu EXCEPT ![sinst[t]] = NoThread],
             spc' = [spc EXCEPT ![t] = "done"], UNCHANGED sinst
      PROVE  MuOK'
  <2>1. sinst[t] \in Instances /\ StartHolds(t, sinst[t])
    BY <1>5, Zenon DEF FramesOK, StartHolds
  <2>2. startMu[sinst[t]] = t /\ ~Clearing(t, sinst[t])
    BY <2>1, Zenon DEF MuOK
  <2>3. "done" \notin {"launch", "verify", "publish"}
    BY Zenon
  <2>4. /\ \A u \in Threads, i \in Instances : u # t \/ i # sinst[t] => SameHolds(u, i)
        /\ ~StartHolds(t, sinst[t])' /\ sinst' = sinst
    BY <1>3, <1>5, <2>3, Zenon
  <2>5. PICK j \in Instances : j = sinst[t]
    BY <2>1, Zenon
  <2>6. ~StartHolds(t, j)'
    BY <2>4, <2>5, Zenon DEF StartHolds
  <2> QED
    BY <1>1, <1>2, <1>5, <2>2, <2>4, <2>5, <2>6, MuFree, Zenon
<1>6. CASE \/ \E i \in Instances : StartCall(t, i)
           \/ StartAlready(t) \/ StartConsume(t)
           \/ \E s \in Stacks : Launched(t, s)
           \/ StartInstall(t)
  <2>1. CASE \E i \in Instances : StartCall(t, i)
    BY <1>1, <1>4, <2>1, Zenon DEF StartCall
  <2>2. CASE StartAlready(t)
    BY <1>1, <1>4, <2>2, Zenon DEF StartAlready, StartReturns
  <2>3. CASE StartConsume(t)
    BY <1>1, <1>4, <2>3, Zenon DEF StartConsume
  <2>4. CASE \E s \in Stacks : Launched(t, s)
    BY <1>1, <1>4, <2>4, Zenon DEF Launched
  <2>5. CASE StartInstall(t)
    BY <1>1, <1>4, <2>5, Zenon DEF StartInstall
  <2> QED
    BY <1>6, <2>1, <2>2, <2>3, <2>4, <2>5, Zenon
<1>7. CASE StartLock(t)
  <2>1. sinst[t] \in Instances
    BY <1>7, Zenon DEF StartLock, FramesOK
  <2>2. ~Clearing(t, sinst[t])
    BY <1>7, <2>1, InstNames, Zenon DEF StartLock, MuOK
  <2>3. /\ \A u \in Threads, i \in Instances : u # t \/ i # sinst[t] => SameHolds(u, i)
        /\ StartHolds(t, sinst[t])' /\ sinst' = sinst
    BY <1>3, <1>7, Zenon DEF StartLock
  <2>4. PICK j \in Instances : j = sinst[t]
    BY <2>1, Zenon
  <2>5. StartHolds(t, j)'
    BY <2>3, <2>4, Zenon DEF StartHolds
  <2>6. startMu[j] = NoThread /\ startMu' = [startMu EXCEPT ![j] = t]
    BY <1>7, <2>4, Zenon DEF StartLock
  <2> QED
    BY <1>1, <1>2, <2>2, <2>3, <2>4, <2>5, <2>6, MuTake, Zenon
<1>8. CASE StartLaunchErr(t) \/ StartPublish(t)
  BY <1>5, <1>8, Zenon DEF StartLaunchErr, StartPublish, StartReturns
<1>9. CASE StartTeardown(t)
  <2>1. CASE attempt[t] < MaxNamespaceRetries
    BY <1>1, <1>4, <1>9, <2>1, Zenon DEF StartTeardown
  <2>2. CASE ~(attempt[t] < MaxNamespaceRetries)
    BY <1>5, <1>9, <2>2, Zenon DEF StartTeardown, StartReturns
  <2> QED
    BY <2>1, <2>2, Zenon
<1> QED
  BY <1>6, <1>7, <1>8, <1>9, ZenonT(30)

LEMMA MuStopStep ==
    ASSUME InstTypeOK, MuOK, NEW t \in Threads,
           \/ \E insts \in SUBSET Instances : StopCall(t, insts)
           \/ \E i \in Instances :
                 StopExtract(t, i) \/ StopUnpublish(t, i) \/ StopClosePurge(t, i) \/ StopKill(t, i)
           \/ StopConsume(t)
    PROVE  MuOK'
<1>1. xpc \in [Threads \X Instances -> StopStages] /\ InstTypeOK
  BY Zenon DEF InstTypeOK
<1>2. \A u \in Threads, i \in Instances : StartHolds(u, i)' <=> StartHolds(u, i)
  <2>1. UNCHANGED startFrame
    BY ZenonT(30) DEF StopCall, StopExtract, StopUnpublish, StopClosePurge, StopKill, StopConsume
  <2> QED
    BY <2>1, Zenon DEF startFrame, StartHolds
<1>3. ASSUME UNCHANGED startMu,
             \A u \in Threads, i \in Instances : xpc'[<<u, i>>] = "clear" <=> xpc[<<u, i>>] = "clear"
      PROVE  MuOK'
  <2>1. \A u \in Threads, i \in Instances : SameHolds(u, i)
    BY <1>2, <1>3, Zenon DEF SameHolds, Clearing
  <2> QED
    BY <1>3, <2>1, MuSame, Zenon
<1>4. CASE \E insts \in SUBSET Instances : StopCall(t, insts)
  <2>1. PICK insts \in SUBSET Instances : StopCall(t, insts)
    BY <1>4, Zenon
  <2>2. \A u \in Threads, i \in Instances :
           \/ xpc'[<<u, i>>] = xpc[<<u, i>>]
           \/ xpc'[<<u, i>>] = "lock" /\ xpc[<<u, i>>] = "no"
    BY <2>1, Zenon DEF StopCall
  <2> QED
    BY <1>3, <2>1, <2>2, Zenon DEF StopCall
<1>5. CASE StopConsume(t)
  <2>1. \A u \in Threads, i \in Instances :
           \/ xpc'[<<u, i>>] = xpc[<<u, i>>]
           \/ xpc'[<<u, i>>] = "no" /\ xpc[<<u, i>>] \in {"no", "done"}
    BY <1>5, Zenon DEF StopConsume
  <2> QED
    BY <1>3, <1>5, <2>1, Zenon DEF StopConsume
<1>6. ASSUME NEW j \in Instances, StopClosePurge(t, j) \/ StopKill(t, j) PROVE MuOK'
  <2>1. /\ xpc[<<t, j>>] # "clear" /\ xpc'[<<t, j>>] # "clear" /\ UNCHANGED startMu
        /\ \A u \in Threads, i \in Instances : u # t \/ i # j => xpc'[<<u, i>>] = xpc[<<u, i>>]
    BY <1>1, <1>6, Zenon DEF StopClosePurge, StopKill
  <2> QED
    BY <1>3, <2>1, Zenon
<1>7. ASSUME NEW j \in Instances, StopExtract(t, j) \/ StopUnpublish(t, j)
      PROVE  \A u \in Threads, i \in Instances : u # t \/ i # j => SameHolds(u, i)
  <2>1. \A u \in Threads, i \in Instances : u # t \/ i # j => xpc'[<<u, i>>] = xpc[<<u, i>>]
    BY <1>1, <1>7, Zenon DEF StopExtract, StopUnpublish
  <2> QED
    BY <1>2, <2>1, Zenon DEF SameHolds, Clearing
<1>8. ASSUME NEW j \in Instances, StopExtract(t, j) PROVE MuOK'
  <2>1. Clearing(t, j)'
    BY <1>1, <1>8, Zenon DEF StopExtract, Clearing
  <2>2. ~StartHolds(t, j)
    BY <1>8, InstNames, Zenon DEF StopExtract, MuOK
  <2>3. startMu[j] = NoThread /\ startMu' = [startMu EXCEPT ![j] = t]
    BY <1>8, Zenon DEF StopExtract
  <2> QED
    BY <1>1, <1>2, <1>7, <1>8, <2>1, <2>2, <2>3, MuTake, Zenon
<1>9. ASSUME NEW j \in Instances, StopUnpublish(t, j) PROVE MuOK'
  <2>1. ~Clearing(t, j)'
    BY <1>1, <1>9, Zenon DEF StopUnpublish, Clearing
  <2>2. ~StartHolds(t, j) /\ startMu[j] = t
    BY <1>9, Zenon DEF StopUnpublish, MuOK, Clearing
  <2>3. startMu' = [startMu EXCEPT ![j] = NoThread]
    BY <1>9, Zenon DEF StopUnpublish
  <2> QED
    BY <1>1, <1>2, <1>7, <1>9, <2>1, <2>2, <2>3, MuFree, Zenon
<1> QED
  BY <1>4, <1>5, <1>6, <1>8, <1>9, ZenonT(30)

LEMMA FramesStep ==
    ASSUME InstTypeOK, FramesOK, \A i \in Instances : stack[i] = purge[i],
           NEW t \in Threads, InstStep(t)
    PROVE  FramesOK'
<1>1. /\ spc \in [Threads -> StartPC] /\ sinst \in [Threads -> Instances \cup {NoInst}]
      /\ sref \in [Threads -> Stacks \cup {None}]
      /\ xpc \in [Threads \X Instances -> StopStages]
      /\ xstack \in [Threads \X Instances -> Stacks \cup {None}]
      /\ xpurge \in [Threads \X Instances -> Stacks \cup {None}]
  BY Zenon DEF InstTypeOK
<1>3. ASSUME UNCHANGED startFrame,
             \A u \in Threads, i \in Instances :
                /\ xstack'[<<u, i>>] # None => xpc'[<<u, i>>] \in {"clear", "close", "kill"}
                /\ xpurge'[<<u, i>>] = IF xpc'[<<u, i>>] \in {"clear", "close"}
                                       THEN xstack'[<<u, i>>] ELSE None
      PROVE  FramesOK'
  BY <1>3, Zenon DEF FramesOK, startFrame
<1>4. ASSUME UNCHANGED stopFrame,
             \A u \in Threads : /\ spc'[u] # "no" => sinst'[u] \in Instances
                                /\ sref'[u] # None <=> spc'[u] = "verify"
      PROVE  FramesOK'
  BY <1>4, Zenon DEF FramesOK, stopFrame
<1>20. ASSUME NEW i \in Instances, UNCHANGED startFrame,
              \A p \in Threads \X Instances : p # <<t, i>> =>
                 xpc'[p] = xpc[p] /\ xstack'[p] = xstack[p] /\ xpurge'[p] = xpurge[p],
              xstack'[<<t, i>>] # None => xpc'[<<t, i>>] \in {"clear", "close", "kill"},
              xpurge'[<<t, i>>] = IF xpc'[<<t, i>>] \in {"clear", "close"}
                                  THEN xstack'[<<t, i>>] ELSE None
       PROVE  FramesOK'
  <2>1. ASSUME NEW u \in Threads, NEW k \in Instances
        PROVE  /\ xstack'[<<u, k>>] # None => xpc'[<<u, k>>] \in {"clear", "close", "kill"}
               /\ xpurge'[<<u, k>>] = IF xpc'[<<u, k>>] \in {"clear", "close"}
                                      THEN xstack'[<<u, k>>] ELSE None
    <3>1. CASE <<u, k>> = <<t, i>>
      BY <1>20, <3>1, Zenon
    <3>2. CASE <<u, k>> # <<t, i>>
      <4>1. /\ xpc'[<<u, k>>] = xpc[<<u, k>>] /\ xstack'[<<u, k>>] = xstack[<<u, k>>]
            /\ xpurge'[<<u, k>>] = xpurge[<<u, k>>]
        BY <1>20, <3>2, Zenon
      <4> QED
        BY <4>1, Zenon DEF FramesOK
    <3> QED
      BY <3>1, <3>2, Zenon
  <2>2. \A u \in Threads, k \in Instances :
           /\ xstack'[<<u, k>>] # None => xpc'[<<u, k>>] \in {"clear", "close", "kill"}
           /\ xpurge'[<<u, k>>] = IF xpc'[<<u, k>>] \in {"clear", "close"}
                                  THEN xstack'[<<u, k>>] ELSE None
    BY <2>1, Zenon
  <2>3. UNCHANGED startFrame
    BY <1>20, Zenon
  <2> QED
    BY <1>3, <2>2, <2>3, Zenon
<1>5. CASE \E i \in Instances : StartCall(t, i)
  <2>1. PICK i \in Instances : StartCall(t, i)
    BY <1>5, Zenon
  <2>2. /\ spc[t] = "no" /\ spc'[t] = "lock" /\ sinst'[t] = i
        /\ \A u \in Threads \ {t} : spc'[u] = spc[u] /\ sinst'[u] = sinst[u]
        /\ sref' = sref /\ UNCHANGED stopFrame
    BY <1>1, <2>1, Zenon DEF StartCall
  <2>3. ASSUME NEW u \in Threads
        PROVE  /\ spc'[u] # "no" => sinst'[u] \in Instances
               /\ sref'[u] # None <=> spc'[u] = "verify"
    BY <2>2, Zenon DEF FramesOK
  <2> QED
    BY <1>4, <2>2, <2>3, Zenon
<1>6. CASE StartAlready(t)
  BY <1>1, <1>4, <1>6, Zenon DEF StartAlready, StartReturns, FramesOK
<1>7. CASE StartLock(t)
  BY <1>1, <1>4, <1>7, Zenon DEF StartLock, FramesOK
<1>8. CASE StartLaunchErr(t)
  BY <1>1, <1>4, <1>8, Zenon DEF StartLaunchErr, StartReturns, FramesOK
<1>9. CASE \E s \in Stacks : Launched(t, s)
  <2>1. PICK s \in Stacks : Launched(t, s)
    BY <1>9, Zenon
  <2>2. s # None
    BY InstNames, Zenon
  <2> QED
    BY <1>1, <1>4, <2>1, <2>2, Zenon DEF Launched, FramesOK
<1>10. CASE StartInstall(t)
  BY <1>1, <1>4, <1>10, Zenon DEF StartInstall, FramesOK
<1>18. CASE StartPublish(t)
  BY <1>1, <1>4, <1>18, Zenon DEF StartPublish, StartReturns, FramesOK
<1>11. CASE StartTeardown(t)
  <2>1. /\ spc[t] = "verify" /\ sref' = [sref EXCEPT ![t] = None] /\ UNCHANGED <<sinst, stopFrame>>
        /\ spc' = [spc EXCEPT ![t] = "launch"] \/ spc' = [spc EXCEPT ![t] = "done"]
    BY <1>11, Zenon DEF StartTeardown, StartReturns
  <2> QED
    BY <1>1, <1>4, <2>1, Zenon DEF FramesOK
<1>12. CASE StartConsume(t)
  BY <1>1, <1>4, <1>12, Zenon DEF StartConsume, FramesOK
<1>13. CASE \E insts \in SUBSET Instances : StopCall(t, insts)
  <2>1. PICK insts \in SUBSET Instances : StopCall(t, insts)
    BY <1>13, Zenon
  <2>2. UNCHANGED <<startFrame, xstack, xpurge>>
    BY <2>1, Zenon DEF StopCall
  <2>3. \A u \in Threads, i \in Instances :
           \/ xpc'[<<u, i>>] = xpc[<<u, i>>]
           \/ xpc'[<<u, i>>] = "lock" /\ xpc[<<u, i>>] = "no"
    BY <2>1, Zenon DEF StopCall
  <2> QED
    BY <1>3, <2>2, <2>3 DEF FramesOK
<1>14. CASE StopConsume(t)
  <2>1. UNCHANGED <<startFrame, xstack, xpurge>>
    BY <1>14, Zenon DEF StopConsume
  <2>2. \A u \in Threads, i \in Instances :
           \/ xpc'[<<u, i>>] = xpc[<<u, i>>]
           \/ xpc'[<<u, i>>] = "no" /\ xpc[<<u, i>>] \in {"no", "done"}
    BY <1>14, Zenon DEF StopConsume
  <2> QED
    BY <1>3, <2>1, <2>2 DEF FramesOK
<1>15. ASSUME NEW i \in Instances, StopExtract(t, i) PROVE FramesOK'
  <2>1. /\ xstack' = [xstack EXCEPT ![<<t, i>>] = stack[i]]
        /\ xpurge' = [xpurge EXCEPT ![<<t, i>>] = purge[i]]
        /\ xpc' = [xpc EXCEPT ![<<t, i>>] = "clear"]
        /\ UNCHANGED startFrame
    BY <1>15, Zenon DEF StopExtract
  <2>2. stack[i] = purge[i]
    BY Zenon
  <2>3. xpc'[<<t, i>>] = "clear" /\ xpurge'[<<t, i>>] = xstack'[<<t, i>>]
    BY <1>1, <2>1, <2>2, Zenon
  <2> QED
    BY <1>1, <1>20, <2>1, <2>3, Zenon
<1>19. ASSUME NEW i \in Instances, StopUnpublish(t, i) PROVE FramesOK'
  <2>1. /\ xpc[<<t, i>>] = "clear" /\ xpc' = [xpc EXCEPT ![<<t, i>>] = "close"]
        /\ UNCHANGED <<startFrame, xstack, xpurge>>
    BY <1>19, Zenon DEF StopUnpublish
  <2>2. xpc'[<<t, i>>] = "close" /\ xpurge[<<t, i>>] = xstack[<<t, i>>]
    BY <1>1, <2>1, Zenon DEF FramesOK
  <2> QED
    BY <1>1, <1>20, <2>1, <2>2, Zenon
<1>16. ASSUME NEW i \in Instances, StopClosePurge(t, i) PROVE FramesOK'
  <2>1. /\ xpc[<<t, i>>] = "close"
        /\ xpurge' = [xpurge EXCEPT ![<<t, i>>] = None]
        /\ xpc' = [xpc EXCEPT ![<<t, i>>] = IF xstack[<<t, i>>] = None THEN "done" ELSE "kill"]
        /\ UNCHANGED <<startFrame, xstack>>
    BY <1>16, Zenon DEF StopClosePurge
  <2>2. /\ xpc'[<<t, i>>] = IF xstack[<<t, i>>] = None THEN "done" ELSE "kill"
        /\ xpurge'[<<t, i>>] = None
    BY <1>1, <2>1, Zenon
  <2> QED
    BY <1>1, <1>20, <2>1, <2>2, Zenon
<1>17. ASSUME NEW i \in Instances, StopKill(t, i) PROVE FramesOK'
  <2>1. /\ xpc[<<t, i>>] = "kill"
        /\ xstack' = [xstack EXCEPT ![<<t, i>>] = None]
        /\ xpc' = [xpc EXCEPT ![<<t, i>>] = "done"]
        /\ UNCHANGED <<startFrame, xpurge>>
    BY <1>17, Zenon DEF StopKill
  <2>2. xpc'[<<t, i>>] = "done" /\ xstack'[<<t, i>>] = None /\ xpurge'[<<t, i>>] = None
    BY <1>1, <2>1, Zenon DEF FramesOK
  <2> QED
    BY <1>1, <1>20, <2>1, <2>2, Zenon
<1> QED
  BY <1>5, <1>6, <1>7, <1>8, <1>9, <1>10, <1>11, <1>12, <1>13, <1>14, <1>15, <1>16, <1>17,
     <1>18, <1>19, ZenonT(30) DEF InstStep

-----------------------------------------------------------------------------
(* A step that leaves the owners of the stacks of i as they are, and one   *)
(* that leaves its purge handles as they are.                              *)
SameOwners(i) ==
    /\ running'[i] = running[i] /\ stack'[i] = stack[i]
    /\ \A u \in Threads :
          /\ xstack'[<<u, i>>] = xstack[<<u, i>>]
          /\ \/ sref'[u] = sref[u] /\ sinst'[u] = sinst[u]
             \/ /\ sref[u] = None \/ sinst[u] # i
                /\ sref'[u] = None \/ sinst'[u] # i

SameHandles(i) ==
    /\ stack'[i] = stack[i] /\ purge'[i] = purge[i] /\ openH'[i] = openH[i]
    /\ \A u \in Threads : xpurge'[<<u, i>>] = xpurge[<<u, i>>]

LEMMA OwnersKept ==
    ASSUME InstTypeOK, NEW i \in Instances, SameOwners(i), Owned(i), Apart(i)
    PROVE  Owned(i)' /\ Apart(i)'
<1>1. running[i] \subseteq Stacks /\ None \notin Stacks
  BY InstNames, Zenon DEF InstTypeOK
<1>2. Owned(i)'
  <2>1. ASSUME NEW s \in running[i]
        PROVE  \/ stack'[i] = s
               \/ \E u \in Threads : sref'[u] = s /\ sinst'[u] = i
               \/ \E u \in Threads : xstack'[<<u, i>>] = s
    <3>1. CASE stack[i] = s
      BY <3>1, Zenon DEF SameOwners
    <3>2. ASSUME NEW u \in Threads, sref[u] = s, sinst[u] = i
          PROVE  sref'[u] = s /\ sinst'[u] = i
      BY <1>1, <3>2, Zenon DEF SameOwners
    <3>3. ASSUME NEW u \in Threads, xstack[<<u, i>>] = s
          PROVE  xstack'[<<u, i>>] = s
      BY <3>3, Zenon DEF SameOwners
    <3> QED
      BY <3>1, <3>2, <3>3, Zenon DEF Owned
  <2>2. \A u \in Threads : sref'[u] # None /\ sinst'[u] = i => sref'[u] \in running[i]
    BY Zenon DEF SameOwners, Owned
  <2>3. running'[i] = running[i] /\ stack'[i] = stack[i]
    BY Zenon DEF SameOwners
  <2>4. \A u \in Threads : xstack'[<<u, i>>] # None => xstack'[<<u, i>>] \in running[i]
    BY Zenon DEF SameOwners, Owned
  <2> QED
    BY <2>1, <2>2, <2>3, <2>4, Zenon DEF Owned
<1>3. Apart(i)'
  <2>1. \A u \in Threads : sref'[u] # None /\ sinst'[u] = i =>
           sref'[u] = sref[u] /\ sinst[u] = i
    BY Zenon DEF SameOwners
  <2> QED
    BY <2>1 DEF SameOwners, Apart
<1> QED
  BY <1>2, <1>3, Zenon

LEMMA HandlesKept ==
    ASSUME NEW i \in Instances, SameHandles(i), Complete(i)
    PROVE  Complete(i)'
<1>1. \A h \in openH[i] : purge'[i] = h \/ \E u \in Threads : xpurge'[<<u, i>>] = h
  BY Zenon DEF SameHandles, Complete
<1>2. \A u \in Threads : xpurge'[<<u, i>>] # None => xpurge'[<<u, i>>] \in openH[i]
  BY Zenon DEF SameHandles, Complete
<1> QED
  BY <1>1, <1>2, Zenon DEF SameHandles, Complete

(* The steps that give a stack to nobody and take it from nobody.          *)
LEMMA QuietStep ==
    ASSUME InstTypeOK, FramesOK, NEW t \in Threads,
           \/ \E i \in Instances : StartCall(t, i)
           \/ StartAlready(t) \/ StartLock(t) \/ StartLaunchErr(t) \/ StartPublish(t)
           \/ StartConsume(t)
           \/ \E insts \in SUBSET Instances : StopCall(t, insts)
           \/ \E j \in Instances : StopUnpublish(t, j)
           \/ StopConsume(t),
           NEW i \in Instances
    PROVE  SameOwners(i) /\ SameHandles(i)
<1>1. /\ spc \in [Threads -> StartPC] /\ sinst \in [Threads -> Instances \cup {NoInst}]
      /\ sref \in [Threads -> Stacks \cup {None}]
  BY Zenon DEF InstTypeOK
<1>2. \A u \in Threads : sref[u] # None <=> spc[u] = "verify"
  BY Zenon DEF FramesOK
<1>3. UNCHANGED <<stack, purge, running, openH, xstack, xpurge>>
  BY ZenonT(30) DEF StartCall, StartAlready, StartLock, StartLaunchErr, StartPublish, StartConsume,
     StopCall, StopUnpublish, StopConsume, stopFrame
<1>4. \A u \in Threads :
         \/ sref'[u] = sref[u] /\ sinst'[u] = sinst[u]
         \/ sref[u] = None /\ sref'[u] = None
  <2>1. CASE \E j \in Instances : StartCall(t, j)
    BY <1>1, <1>2, <2>1, Zenon DEF StartCall
  <2>2. CASE StartAlready(t) \/ StartLaunchErr(t) \/ StartPublish(t)
    BY <1>1, <1>2, <2>2, Zenon DEF StartAlready, StartLaunchErr, StartPublish, StartReturns
  <2>3. CASE StartLock(t)
    BY <2>3, Zenon DEF StartLock
  <2>4. CASE StartConsume(t)
    BY <1>1, <1>2, <2>4, Zenon DEF StartConsume
  <2>5. CASE \/ \E insts \in SUBSET Instances : StopCall(t, insts)
             \/ \E j \in Instances : StopUnpublish(t, j)
             \/ StopConsume(t)
    <3>1. UNCHANGED <<sref, sinst>>
      BY <2>5, Zenon DEF StopCall, StopUnpublish, StopConsume, startFrame
    <3> QED
      BY <3>1, Zenon
  <2> QED
    BY <2>1, <2>2, <2>3, <2>4, <2>5, Zenon
<1> QED
  BY <1>3, <1>4, Zenon DEF SameOwners, SameHandles

LEMMA LaunchStep ==
    ASSUME InstInv, NEW t \in Threads, NEW s \in Stacks, s \notin running[sinst[t]], Launched(t, s),
           NEW i \in Instances
    PROVE  Owned(i)' /\ Apart(i)' /\ Complete(i)'
<1>1. /\ running \in [Instances -> SUBSET Stacks] /\ sinst \in [Threads -> Instances \cup {NoInst}]
      /\ sref \in [Threads -> Stacks \cup {None}] /\ InstTypeOK
  BY Zenon DEF InstInv, InstTypeOK
<1>2. Owned(i) /\ Apart(i) /\ Complete(i) /\ None \notin Stacks
  BY InstNames, Zenon DEF InstInv
<1>3. /\ running' = [running EXCEPT ![sinst[t]] = @ \cup {s}] /\ sref' = [sref EXCEPT ![t] = s]
      /\ spc[t] = "launch"
      /\ UNCHANGED <<stack, purge, openH, sinst, xstack, xpurge>>
  BY Zenon DEF Launched, stopFrame
<1>4. Complete(i)'
  <2>1. SameHandles(i)
    BY <1>3, Zenon DEF SameHandles
  <2> QED
    BY <1>2, <2>1, HandlesKept, Zenon
<1>5. CASE sinst[t] # i
  <2>1. SameOwners(i)
    BY <1>1, <1>3, <1>5, Zenon DEF SameOwners
  <2> QED
    BY <1>1, <1>2, <1>4, <2>1, OwnersKept, Zenon
<1>6. CASE sinst[t] = i
  <2>1. /\ running'[i] = running[i] \cup {s} /\ sref'[t] = s
        /\ \A u \in Threads \ {t} : sref'[u] = sref[u]
    BY <1>1, <1>3, <1>6, Zenon
  <2>2. sref[t] = None
    BY <1>3, Zenon DEF InstInv, FramesOK
  <2>3. running[i] \subseteq Stacks
    BY <1>1, Zenon
  <2>4. Owned(i)'
    <3>1. ASSUME NEW r \in running'[i]
          PROVE  \/ stack'[i] = r
                 \/ \E u \in Threads : sref'[u] = r /\ sinst'[u] = i
                 \/ \E u \in Threads : xstack'[<<u, i>>] = r
      <4>1. CASE r = s
        BY <1>3, <1>6, <2>1, <4>1, Zenon
      <4>2. CASE r # s
        <5>1. r \in running[i] /\ r # None
          BY <1>2, <2>1, <2>3, <4>2, Zenon
        <5>2. ASSUME NEW u \in Threads, sref[u] = r, sinst[u] = i
              PROVE  sref'[u] = r /\ sinst'[u] = i
          BY <1>3, <2>1, <2>2, <5>1, <5>2, Zenon
        <5> QED
          BY <1>2, <1>3, <5>1, <5>2, Zenon DEF Owned
      <4> QED
        BY <4>1, <4>2, Zenon
    <3>2. \A u \in Threads : sref'[u] # None /\ sinst'[u] = i => sref'[u] \in running'[i]
      BY <1>2, <1>3, <2>1, Zenon DEF Owned
    <3> QED
      BY <1>2, <1>3, <2>1, <3>1, <3>2, Zenon DEF Owned
  <2>5. Apart(i)'
    <3>1. \A u \in Threads : xstack[<<u, i>>] # s
      BY <1>2, <1>6, Zenon DEF Owned
    <3> QED
      BY <1>2, <1>3, <2>1, <3>1 DEF Apart
  <2> QED
    BY <1>4, <2>4, <2>5, Zenon
<1> QED
  BY <1>5, <1>6, Zenon

LEMMA InstallStep ==
    ASSUME InstInv, NEW t \in Threads, StartInstall(t), NEW i \in Instances
    PROVE  Owned(i)' /\ Apart(i)' /\ Complete(i)'
<1>1. /\ stack \in [Instances -> Stacks \cup {None}]
      /\ purge \in [Instances -> Stacks \cup {None}] /\ openH \in [Instances -> SUBSET Stacks]
      /\ running \in [Instances -> SUBSET Stacks]
      /\ sref \in [Threads -> Stacks \cup {None}] /\ InstTypeOK
  BY Zenon DEF InstInv, InstTypeOK
<1>2. Owned(i) /\ Apart(i) /\ Complete(i) /\ Phase(i) /\ None \notin Stacks
  BY InstNames, Zenon DEF InstInv
<1>3. /\ purge' = [purge EXCEPT ![sinst[t]] = sref[t]]
      /\ openH' = [openH EXCEPT ![sinst[t]] = @ \cup {sref[t]}]
      /\ stack' = [stack EXCEPT ![sinst[t]] = sref[t]]
      /\ sref' = [sref EXCEPT ![t] = None]
      /\ spc[t] = "verify"
      /\ UNCHANGED <<running, sinst, xstack, xpurge>>
  BY Zenon DEF StartInstall, openPurgeHandle, stopFrame
<1>4. CASE sinst[t] # i
  <2>1. SameOwners(i)
    BY <1>1, <1>3, <1>4, Zenon DEF SameOwners
  <2>2. SameHandles(i)
    BY <1>1, <1>3, <1>4, Zenon DEF SameHandles
  <2> QED
    BY <1>1, <1>2, <2>1, <2>2, OwnersKept, HandlesKept, Zenon
<1>5. CASE sinst[t] = i
  <2>1. StartHolds(t, i) /\ sref[t] # None
    BY <1>3, <1>5, Zenon DEF InstInv, StartHolds, FramesOK
  <2>2. stack[i] = None /\ purge[i] = None
    BY <1>2, <1>3, <2>1, Zenon DEF Complete, Phase
  <2>3. /\ purge'[i] = sref[t] /\ openH'[i] = openH[i] \cup {sref[t]} /\ stack'[i] = sref[t]
        /\ sref'[t] = None
        /\ \A u \in Threads \ {t} : sref'[u] = sref[u]
    BY <1>1, <1>3, <1>5, Zenon
  <2>4. running[i] \subseteq Stacks /\ openH[i] \subseteq Stacks
    BY <1>1, Zenon
  <2>5. Owned(i)'
    <3>1. ASSUME NEW r \in running[i]
          PROVE  \/ stack'[i] = r
                 \/ \E u \in Threads : sref'[u] = r /\ sinst'[u] = i
                 \/ \E u \in Threads : xstack'[<<u, i>>] = r
      <4>1. stack[i] # r
        BY <1>2, <2>2, <2>4, Zenon
      <4>2. ASSUME NEW u \in Threads, sref[u] = r, sinst[u] = i
            PROVE  \/ stack'[i] = r
                   \/ \E v \in Threads : sref'[v] = r /\ sinst'[v] = i
        BY <1>3, <2>3, <4>2, Zenon
      <4> QED
        BY <1>2, <1>3, <4>1, <4>2, Zenon DEF Owned
    <3>2. sref[t] \in running[i]
      BY <1>2, <1>5, <2>1, Zenon DEF Owned
    <3> QED
      BY <1>2, <1>3, <2>3, <3>1, <3>2, Zenon DEF Owned
  <2>6. Apart(i)'
    <3>1. \A u \in Threads : xstack[<<u, i>>] # sref[t]
      BY <1>2, <1>5, <2>1, Zenon DEF Apart
    <3> QED
      BY <1>2, <1>3, <2>3, <3>1 DEF Apart
  <2>7. Complete(i)'
    <3>1. ASSUME NEW h \in openH'[i]
          PROVE  purge'[i] = h \/ \E u \in Threads : xpurge'[<<u, i>>] = h
      <4>1. h = sref[t] \/ (h \in openH[i] /\ purge[i] # h)
        BY <1>2, <2>2, <2>3, <2>4, Zenon
      <4> QED
        BY <1>2, <1>3, <2>3, <4>1, Zenon DEF Complete
    <3>2. \A u \in Threads : xpurge'[<<u, i>>] # None => xpurge'[<<u, i>>] \in openH'[i]
      BY <1>2, <1>3, <2>3, Zenon DEF Complete
    <3> QED
      BY <2>1, <2>3, <3>1, <3>2, Zenon DEF Complete
  <2> QED
    BY <2>5, <2>6, <2>7, Zenon
<1> QED
  BY <1>4, <1>5, Zenon

LEMMA TeardownStep ==
    ASSUME InstInv, NEW t \in Threads, StartTeardown(t), NEW i \in Instances
    PROVE  Owned(i)' /\ Apart(i)' /\ Complete(i)'
<1>1. /\ running \in [Instances -> SUBSET Stacks]
      /\ sref \in [Threads -> Stacks \cup {None}] /\ InstTypeOK
  BY Zenon DEF InstInv, InstTypeOK
<1>2. Owned(i) /\ Apart(i) /\ Complete(i) /\ Phase(i) /\ None \notin Stacks
  BY InstNames, Zenon DEF InstInv
<1>3. /\ running' = [running EXCEPT ![sinst[t]] = @ \ {sref[t]}]
      /\ sref' = [sref EXCEPT ![t] = None]
      /\ spc[t] = "verify"
      /\ UNCHANGED <<stack, purge, openH, sinst, xstack, xpurge>>
  BY Zenon DEF StartTeardown, StartReturns, stopFrame
<1>4. Complete(i)'
  <2>1. SameHandles(i)
    BY <1>1, <1>3, Zenon DEF SameHandles
  <2> QED
    BY <1>2, <2>1, HandlesKept, Zenon
<1>5. CASE sinst[t] # i
  <2>1. SameOwners(i)
    BY <1>1, <1>3, <1>5, Zenon DEF SameOwners
  <2> QED
    BY <1>1, <1>2, <1>4, <2>1, OwnersKept, Zenon
<1>6. CASE sinst[t] = i
  <2>1. StartHolds(t, i) /\ sref[t] # None
    BY <1>3, <1>6, Zenon DEF InstInv, StartHolds, FramesOK
  <2>2. \A u \in Threads : sref[u] # None /\ sinst[u] = i => u = t
    <3>1. \A u \in Threads : sref[u] # None /\ sinst[u] = i => StartHolds(u, i)
      BY Zenon DEF InstInv, StartHolds, FramesOK
    <3> QED
      BY <2>1, <3>1, MuHeld, Zenon DEF InstInv
  <2>3. stack[i] = None
    BY <1>2, <1>3, <2>1, Zenon DEF Phase
  <2>4. /\ running'[i] = running[i] \ {sref[t]} /\ sref'[t] = None
        /\ \A u \in Threads \ {t} : sref'[u] = sref[u]
    BY <1>1, <1>3, <1>6, Zenon
  <2>5. running[i] \subseteq Stacks
    BY <1>1, Zenon
  <2>6. Owned(i)'
    <3>1. ASSUME NEW r \in running'[i]
          PROVE  \E u \in Threads : xstack'[<<u, i>>] = r
      <4>1. r \in running[i] /\ r # sref[t] /\ r # None
        BY <1>2, <2>4, <2>5, Zenon
      <4>2. stack[i] # r /\ ~\E u \in Threads : sref[u] = r /\ sinst[u] = i
        BY <2>2, <2>3, <4>1, Zenon
      <4> QED
        BY <1>2, <1>3, <4>1, <4>2, Zenon DEF Owned
    <3>2. \A u \in Threads : xstack[<<u, i>>] # sref[t]
      BY <1>2, <1>6, <2>1, Zenon DEF Apart
    <3>3. \A u \in Threads : xstack'[<<u, i>>] # None => xstack'[<<u, i>>] \in running'[i]
      BY <1>2, <1>3, <2>4, <3>2, Zenon DEF Owned
    <3>4. \A u \in Threads : ~(sref'[u] # None /\ sinst'[u] = i)
      BY <1>3, <2>2, <2>4, Zenon
    <3> QED
      BY <1>3, <2>3, <3>1, <3>3, <3>4, Zenon DEF Owned
  <2>7. Apart(i)'
    BY <1>2, <1>3, <2>2, <2>4, Zenon DEF Apart
  <2> QED
    BY <1>4, <2>6, <2>7, Zenon
<1> QED
  BY <1>5, <1>6, Zenon

LEMMA ExtractStep ==
    ASSUME InstInv, NEW t \in Threads, NEW j \in Instances, StopExtract(t, j), NEW i \in Instances
    PROVE  Owned(i)' /\ Apart(i)' /\ Complete(i)'
<1>1. /\ stack \in [Instances -> Stacks \cup {None}]
      /\ purge \in [Instances -> Stacks \cup {None}]
      /\ xstack \in [Threads \X Instances -> Stacks \cup {None}]
      /\ xpurge \in [Threads \X Instances -> Stacks \cup {None}]
      /\ running \in [Instances -> SUBSET Stacks] /\ openH \in [Instances -> SUBSET Stacks]
      /\ InstTypeOK
  BY Zenon DEF InstInv, InstTypeOK
<1>2. Owned(i) /\ Apart(i) /\ Complete(i) /\ None \notin Stacks
  BY InstNames, Zenon DEF InstInv
<1>3. /\ xstack' = [xstack EXCEPT ![<<t, j>>] = stack[j]]
      /\ xpurge' = [xpurge EXCEPT ![<<t, j>>] = purge[j]]
      /\ stack' = [stack EXCEPT ![j] = None]
      /\ purge' = [purge EXCEPT ![j] = None]
      /\ xpc[<<t, j>>] = "lock" /\ startMu[j] = NoThread
      /\ UNCHANGED <<running, openH, sinst, sref>>
  BY Zenon DEF StopExtract, startFrame
<1>4. CASE i # j
  <2>1. SameOwners(i)
    BY <1>1, <1>3, <1>4, Zenon DEF SameOwners
  <2>2. SameHandles(i)
    BY <1>1, <1>3, <1>4, Zenon DEF SameHandles
  <2> QED
    BY <1>1, <1>2, <1>3, <2>1, <2>2, OwnersKept, HandlesKept, Zenon
<1>5. CASE i = j
  <2>1. xstack[<<t, i>>] = None /\ xpurge[<<t, i>>] = None
    BY <1>3, <1>5, Zenon DEF InstInv, FramesOK
  <2>2. /\ xstack'[<<t, i>>] = stack[i] /\ xpurge'[<<t, i>>] = purge[i]
        /\ \A u \in Threads \ {t} : /\ xstack'[<<u, i>>] = xstack[<<u, i>>]
                                    /\ xpurge'[<<u, i>>] = xpurge[<<u, i>>]
        /\ stack'[i] = None /\ purge'[i] = None
    BY <1>1, <1>3, <1>5, Zenon
  <2>3. running[i] \subseteq Stacks /\ openH[i] \subseteq Stacks
    BY <1>1, Zenon
  <2>4. \A u \in Threads : ~(sref[u] # None /\ sinst[u] = i)
    <3>1. \A u \in Threads : sref[u] # None /\ sinst[u] = i => StartHolds(u, i)
      BY Zenon DEF InstInv, StartHolds, FramesOK
    <3> QED
      BY <1>3, <1>5, <3>1, MuHeld, Zenon DEF InstInv
  <2>5. Owned(i)'
    <3>1. ASSUME NEW r \in running[i]
          PROVE  \E u \in Threads : xstack'[<<u, i>>] = r
      <4>1. r # None
        BY <1>2, <2>3, Zenon
      <4>2. CASE stack[i] = r
        BY <2>2, <4>2, Zenon
      <4>3. ASSUME NEW u \in Threads, xstack[<<u, i>>] = r
            PROVE  \E v \in Threads : xstack'[<<v, i>>] = r
        BY <2>1, <2>2, <4>1, <4>3, Zenon
      <4> QED
        BY <1>2, <2>4, <4>1, <4>2, <4>3, Zenon DEF Owned
    <3>2. \A u \in Threads : xstack'[<<u, i>>] # None => xstack'[<<u, i>>] \in running[i]
      BY <1>2, <2>2, Zenon DEF Owned
    <3> QED
      BY <1>3, <2>2, <2>4, <3>1, <3>2, Zenon DEF Owned
  <2>6. Apart(i)'
    <3>1. ASSUME NEW u \in Threads, NEW v \in Threads,
                 xstack'[<<u, i>>] # None, xstack'[<<v, i>>] = xstack'[<<u, i>>]
          PROVE  v = u
      BY <1>2, <2>2, <3>1 DEF Apart
    <3> QED
      BY <1>3, <2>2, <2>4, <3>1, Zenon DEF Apart
  <2>7. Complete(i)'
    <3>1. ASSUME NEW h \in openH[i]
          PROVE  \E u \in Threads : xpurge'[<<u, i>>] = h
      <4>1. h # None
        BY <1>2, <2>3, Zenon
      <4>2. CASE purge[i] = h
        BY <2>2, <4>2, Zenon
      <4>3. ASSUME NEW u \in Threads, xpurge[<<u, i>>] = h
            PROVE  \E v \in Threads : xpurge'[<<v, i>>] = h
        BY <2>1, <2>2, <4>1, <4>3, Zenon
      <4> QED
        BY <1>2, <4>2, <4>3, Zenon DEF Complete
    <3>2. \A u \in Threads : xpurge'[<<u, i>>] # None => xpurge'[<<u, i>>] \in openH[i]
      BY <1>2, <2>2, Zenon DEF Complete
    <3> QED
      BY <1>3, <2>2, <3>1, <3>2, Zenon DEF Complete
  <2> QED
    BY <2>5, <2>6, <2>7, Zenon
<1> QED
  BY <1>4, <1>5, Zenon

LEMMA CloseStep ==
    ASSUME InstInv, NEW t \in Threads, NEW j \in Instances, StopClosePurge(t, j), NEW i \in Instances
    PROVE  Owned(i)' /\ Apart(i)' /\ Complete(i)'
<1>1. /\ xpurge \in [Threads \X Instances -> Stacks \cup {None}]
      /\ openH \in [Instances -> SUBSET Stacks] /\ InstTypeOK
  BY Zenon DEF InstInv, InstTypeOK
<1>2. Owned(i) /\ Apart(i) /\ Complete(i) /\ None \notin Stacks
  BY InstNames, Zenon DEF InstInv
<1>3. /\ openH' = [openH EXCEPT ![j] = @ \ {xpurge[<<t, j>>]}]
      /\ xpurge' = [xpurge EXCEPT ![<<t, j>>] = None]
      /\ xpc[<<t, j>>] = "close"
      /\ UNCHANGED <<stack, purge, running, sinst, sref, xstack>>
  BY Zenon DEF StopClosePurge, closePurgeHandle, startFrame
<1>4. Owned(i)' /\ Apart(i)'
  <2>1. SameOwners(i)
    BY <1>3, Zenon DEF SameOwners
  <2> QED
    BY <1>1, <1>2, <2>1, OwnersKept, Zenon
<1>5. CASE i # j
  <2>1. SameHandles(i)
    BY <1>1, <1>3, <1>5, Zenon DEF SameHandles
  <2> QED
    BY <1>2, <1>3, <1>4, <2>1, HandlesKept, Zenon
<1>6. CASE i = j
  <2>1. /\ openH'[i] = openH[i] \ {xpurge[<<t, i>>]} /\ xpurge'[<<t, i>>] = None
        /\ \A u \in Threads \ {t} : xpurge'[<<u, i>>] = xpurge[<<u, i>>]
    BY <1>1, <1>3, <1>6, Zenon
  <2>2. openH[i] \subseteq Stacks
    BY <1>1, Zenon
  <2>3. /\ xpurge[<<t, i>>] # None => purge[i] # xpurge[<<t, i>>]
        /\ \A u \in Threads \ {t} : xpurge[<<u, i>>] # None => xpurge[<<u, i>>] # xpurge[<<t, i>>]
    <3>1. \A u \in Threads : xpurge[<<u, i>>] # None => xpurge[<<u, i>>] = xstack[<<u, i>>]
      BY Zenon DEF InstInv, FramesOK
    <3>2. stack[i] = purge[i]
      BY <1>2, Zenon DEF Complete
    <3> QED
      BY <1>2, <3>1, <3>2, Zenon DEF Apart
  <2>4. ASSUME NEW h \in openH'[i]
        PROVE  purge'[i] = h \/ \E u \in Threads : xpurge'[<<u, i>>] = h
    <3>1. h \in openH[i] /\ h # xpurge[<<t, i>>]
      BY <2>1, Zenon
    <3>2. ASSUME NEW u \in Threads, xpurge[<<u, i>>] = h PROVE xpurge'[<<u, i>>] = h
      BY <2>1, <3>1, <3>2, Zenon
    <3> QED
      BY <1>2, <1>3, <3>1, <3>2, Zenon DEF Complete
  <2>5. \A u \in Threads : xpurge'[<<u, i>>] # None => xpurge'[<<u, i>>] \in openH'[i]
    BY <1>2, <2>1, <2>3, Zenon DEF Complete
  <2>6. purge'[i] # None => purge'[i] \in openH'[i]
    BY <1>2, <1>3, <2>1, <2>2, <2>3, Zenon DEF Complete
  <2>7. Complete(i)'
    BY <1>2, <1>3, <2>4, <2>5, <2>6, Zenon DEF Complete
  <2> QED
    BY <1>4, <2>7, Zenon
<1> QED
  BY <1>5, <1>6, Zenon

LEMMA KillStep ==
    ASSUME InstInv, NEW t \in Threads, NEW j \in Instances, StopKill(t, j), NEW i \in Instances
    PROVE  Owned(i)' /\ Apart(i)' /\ Complete(i)'
<1>1. /\ xstack \in [Threads \X Instances -> Stacks \cup {None}]
      /\ running \in [Instances -> SUBSET Stacks] /\ InstTypeOK
  BY Zenon DEF InstInv, InstTypeOK
<1>2. Owned(i) /\ Apart(i) /\ Complete(i) /\ None \notin Stacks
  BY InstNames, Zenon DEF InstInv
<1>3. /\ running' = [running EXCEPT ![j] = @ \ {xstack[<<t, j>>]}]
      /\ xstack' = [xstack EXCEPT ![<<t, j>>] = None]
      /\ UNCHANGED <<stack, purge, openH, sinst, sref, xpurge>>
  BY Zenon DEF StopKill, startFrame
<1>4. Complete(i)'
  <2>1. SameHandles(i)
    BY <1>3, Zenon DEF SameHandles
  <2> QED
    BY <1>2, <1>3, <2>1, HandlesKept, Zenon
<1>5. CASE i # j
  <2>1. SameOwners(i)
    BY <1>1, <1>3, <1>5, Zenon DEF SameOwners
  <2> QED
    BY <1>1, <1>2, <1>4, <2>1, OwnersKept, Zenon
<1>6. CASE i = j
  <2>1. /\ running'[i] = running[i] \ {xstack[<<t, i>>]} /\ xstack'[<<t, i>>] = None
        /\ \A u \in Threads \ {t} : xstack'[<<u, i>>] = xstack[<<u, i>>]
    BY <1>1, <1>3, <1>6, Zenon
  <2>2. running[i] \subseteq Stacks
    BY <1>1, Zenon
  <2>3. Owned(i)'
    <3>1. ASSUME NEW r \in running'[i]
          PROVE  \/ stack'[i] = r
                 \/ \E u \in Threads : sref'[u] = r /\ sinst'[u] = i
                 \/ \E u \in Threads : xstack'[<<u, i>>] = r
      <4>1. r \in running[i] /\ r # xstack[<<t, i>>]
        BY <2>1, Zenon
      <4>2. ASSUME NEW u \in Threads, xstack[<<u, i>>] = r PROVE xstack'[<<u, i>>] = r
        BY <2>1, <4>1, <4>2, Zenon
      <4> QED
        BY <1>2, <1>3, <4>1, <4>2, Zenon DEF Owned
    <3>2. xstack[<<t, i>>] = None => xstack[<<t, i>>] \notin running[i]
      BY <1>2, <2>2, Zenon
    <3>3. stack'[i] # None => stack'[i] \in running'[i]
      BY <1>2, <1>3, <2>1, Zenon DEF Owned, Apart
    <3>4. \A u \in Threads : sref'[u] # None /\ sinst'[u] = i => sref'[u] \in running'[i]
      BY <1>2, <1>3, <2>1 DEF Owned, Apart
    <3>5. \A u \in Threads : xstack'[<<u, i>>] # None => xstack'[<<u, i>>] \in running'[i]
      BY <1>2, <1>3, <2>1, Zenon DEF Owned, Apart
    <3> QED
      BY <3>1, <3>3, <3>4, <3>5, Zenon DEF Owned
  <2>4. Apart(i)'
    BY <1>2, <1>3, <2>1 DEF Apart
  <2> QED
    BY <1>4, <2>3, <2>4, Zenon
<1> QED
  BY <1>5, <1>6, Zenon

(* started and the stack agree when startMu is free, and in between the    *)
(* one who holds it knows what it has made of them.                        *)
LEMMA PhaseKept ==
    ASSUME NEW i \in Instances, Phase(i), startMu'[i] = startMu[i], started'[i] = started[i],
           stack'[i] = stack[i],
           \A u \in Threads : /\ StartHolds(u, i)' => /\ StartHolds(u, i)
                                                      /\ spc'[u] = "publish" <=> spc[u] = "publish"
                              /\ Clearing(u, i)' => Clearing(u, i)
    PROVE  Phase(i)'
BY Zenon DEF Phase

(* The steps on other instances, and those of one who does not hold it.    *)
LEMMA PhaseOthers ==
    ASSUME InstTypeOK, NEW t \in Threads, NEW i \in Instances, Phase(i),
           \/ \E j \in Instances : StartCall(t, j)
           \/ StartAlready(t) \/ StartConsume(t)
           \/ \E s \in Stacks : Launched(t, s)
           \/ /\ StartLock(t) \/ StartLaunchErr(t) \/ StartInstall(t) \/ StartPublish(t)
                 \/ StartTeardown(t)
              /\ sinst[t] # i
    PROVE  Phase(i)'
<1>1. /\ started \in [Instances -> BOOLEAN] /\ stack \in [Instances -> Stacks \cup {None}]
      /\ startMu \in [Instances -> Threads \cup {NoThread}]
      /\ spc \in [Threads -> StartPC] /\ sinst \in [Threads -> Instances \cup {NoInst}]
  BY Zenon DEF InstTypeOK
<1>2. \A u \in Threads : Clearing(u, i)' <=> Clearing(u, i)
  <2>1. UNCHANGED stopFrame
    BY ZenonT(30) DEF StartCall, StartAlready, StartLock, StartLaunchErr, StartConsume, Launched,
       StartInstall, StartPublish, StartTeardown
  <2> QED
    BY <2>1, Zenon DEF stopFrame, Clearing
<1>3. ASSUME NEW p, spc' = [spc EXCEPT ![t] = p], \A u \in Threads \ {t} : sinst'[u] = sinst[u],
             \/ p \notin {"launch", "verify", "publish"}
             \/ spc[t] = "launch" /\ p = "verify" /\ UNCHANGED sinst
             \/ sinst'[t] # i
      PROVE  \A u \in Threads : /\ StartHolds(u, i)' => /\ StartHolds(u, i)
                                                        /\ spc'[u] = "publish" <=> spc[u] = "publish"
                                /\ Clearing(u, i)' => Clearing(u, i)
  BY <1>1, <1>2, <1>3, Zenon DEF StartHolds
<1>4. CASE \E j \in Instances : StartCall(t, j)
  BY <1>1, <1>3, <1>4, PhaseKept, Zenon DEF StartCall
<1>5. CASE StartAlready(t)
  BY <1>1, <1>3, <1>5, PhaseKept, Zenon DEF StartAlready, StartReturns
<1>6. CASE StartConsume(t)
  BY <1>1, <1>3, <1>6, PhaseKept, Zenon DEF StartConsume
<1>7. CASE \E s \in Stacks : Launched(t, s)
  BY <1>1, <1>3, <1>7, PhaseKept, Zenon DEF Launched
<1>8. CASE StartLock(t) /\ sinst[t] # i
  BY <1>1, <1>3, <1>8, PhaseKept, Zenon DEF StartLock
<1>9. CASE StartLaunchErr(t) /\ sinst[t] # i
  BY <1>1, <1>3, <1>9, PhaseKept, Zenon DEF StartLaunchErr, StartReturns
<1>10. CASE StartInstall(t) /\ sinst[t] # i
  BY <1>1, <1>3, <1>10, PhaseKept, Zenon DEF StartInstall
<1>11. CASE StartPublish(t) /\ sinst[t] # i
  BY <1>1, <1>3, <1>11, PhaseKept, Zenon DEF StartPublish, StartReturns
<1>12. CASE StartTeardown(t) /\ sinst[t] # i
  <2>1. /\ startMu'[i] = startMu[i] /\ UNCHANGED <<started, stack, sinst>>
        /\ spc' = [spc EXCEPT ![t] = "launch"] \/ spc' = [spc EXCEPT ![t] = "done"]
    BY <1>1, <1>12, Zenon DEF StartTeardown, StartReturns
  <2> QED
    BY <1>1, <1>3, <1>12, <2>1, PhaseKept, Zenon
<1> QED
  BY <1>4, <1>5, <1>6, <1>7, <1>8, <1>9, <1>10, <1>11, <1>12, ZenonT(30)

(* The steps of a Start of this instance that takes startMu, or holds it.  *)
LEMMA PhaseStart ==
    ASSUME InstInv, NEW t \in Threads, NEW i \in Instances, sinst[t] = i,
           StartLock(t) \/ StartLaunchErr(t) \/ StartInstall(t) \/ StartPublish(t) \/ StartTeardown(t)
    PROVE  Phase(i)'
<1>1. /\ started \in [Instances -> BOOLEAN] /\ stack \in [Instances -> Stacks \cup {None}]
      /\ startMu \in [Instances -> Threads \cup {NoThread}]
      /\ spc \in [Threads -> StartPC] /\ sinst' = sinst
  <2>1. UNCHANGED sinst
    BY ZenonT(30) DEF StartLock, StartLaunchErr, StartInstall, StartPublish, StartTeardown, StartReturns
  <2> QED
    BY <2>1, Zenon DEF InstInv, InstTypeOK
<1>2. Phase(i) /\ MuOK /\ NoThread \notin Threads
  BY InstNames, Zenon DEF InstInv
<1>3. \A u \in Threads : Clearing(u, i)' <=> Clearing(u, i)
  <2>1. UNCHANGED stopFrame
    BY ZenonT(30) DEF StartLock, StartLaunchErr, StartInstall, StartPublish, StartTeardown
  <2> QED
    BY <2>1, Zenon DEF stopFrame, Clearing
<1>4. \A u \in Threads : u # t => ~StartHolds(u, i) /\ ~Clearing(u, i)
  <2>1. CASE StartLock(t)
    BY <1>2, <2>1, MuHeld, Zenon DEF StartLock
  <2>2. CASE StartHolds(t, i)
    BY <1>2, <2>2, MuHeld, Zenon
  <2> QED
    BY <2>1, <2>2, Zenon DEF StartHolds, StartLaunchErr, StartInstall, StartPublish, StartTeardown
<1>5. ~Clearing(t, i)
  <2>1. CASE StartLock(t)
    BY <1>2, <2>1, MuHeld, Zenon DEF StartLock
  <2>2. CASE StartHolds(t, i)
    BY <1>2, <2>2, Zenon DEF MuOK
  <2> QED
    BY <2>1, <2>2, Zenon DEF StartHolds, StartLaunchErr, StartInstall, StartPublish, StartTeardown
<1>12. ASSUME NEW p, spc' = [spc EXCEPT ![t] = p]
       PROVE  spc'[t] = p /\ \A u \in Threads : ~Clearing(u, i)' /\ (StartHolds(u, i)' => u = t)
  BY <1>1, <1>3, <1>4, <1>5, <1>12, Zenon DEF StartHolds
<1>6. ASSUME spc' = [spc EXCEPT ![t] = "done"], started'[i] <=> stack'[i] # None
      PROVE  Phase(i)'
  <2>1. \A u \in Threads : ~Clearing(u, i)' /\ ~StartHolds(u, i)'
    BY <1>6, <1>12, Zenon DEF StartHolds
  <2> QED
    BY <1>6, <2>1, Zenon DEF Phase
<1>13. ASSUME NEW p, spc' = [spc EXCEPT ![t] = p], startMu'[i] = t, ~started'[i],
              stack'[i] # None <=> p = "publish"
       PROVE  Phase(i)'
  <2>1. spc'[t] = p /\ \A u \in Threads : ~Clearing(u, i)' /\ (StartHolds(u, i)' => u = t)
    BY <1>12, <1>13, Zenon
  <2> QED
    BY <1>2, <1>13, <2>1, Zenon DEF Phase
<1>7. CASE StartLock(t)
  <2>1. ~started[i] /\ stack[i] = None
    BY <1>2, <1>7, Zenon DEF StartLock, Phase
  <2>2. startMu'[i] = t /\ spc' = [spc EXCEPT ![t] = "launch"] /\ UNCHANGED <<started, stack>>
    BY <1>1, <1>7, Zenon DEF StartLock
  <2> QED
    BY <1>13, <2>1, <2>2, Zenon
<1>8. CASE StartLaunchErr(t)
  <2>1. ~started[i] /\ stack[i] = None
    BY <1>2, <1>8, Zenon DEF StartLaunchErr, Phase, StartHolds
  <2>2. spc' = [spc EXCEPT ![t] = "done"] /\ UNCHANGED <<started, stack>>
    BY <1>8, Zenon DEF StartLaunchErr, StartReturns
  <2> QED
    BY <1>6, <2>1, <2>2, Zenon
<1>9. CASE StartInstall(t)
  <2>1. ~started[i] /\ StartHolds(t, i) /\ sref[t] # None
    BY <1>2, <1>9, Zenon DEF StartInstall, Phase, StartHolds, InstInv, FramesOK
  <2>2. startMu[i] = t
    BY <1>2, <2>1, MuHeld, Zenon
  <2>3. stack'[i] = sref[t] /\ spc' = [spc EXCEPT ![t] = "publish"] /\ UNCHANGED <<started, startMu>>
    BY <1>1, <1>9, Zenon DEF StartInstall
  <2> QED
    BY <1>13, <2>1, <2>2, <2>3, Zenon
<1>10. CASE StartPublish(t)
  <2>1. stack[i] # None
    BY <1>2, <1>10, Zenon DEF StartPublish, Phase, StartHolds
  <2>2. started'[i]
    BY <1>1, <1>10, Zenon DEF StartPublish
  <2> QED
    BY <1>6, <1>10, <2>1, <2>2, Zenon DEF StartPublish, StartReturns
<1>11. CASE StartTeardown(t)
  <2>1. ~started[i] /\ stack[i] = None /\ StartHolds(t, i) /\ UNCHANGED <<started, stack>>
    BY <1>2, <1>11, Zenon DEF StartTeardown, Phase, StartHolds
  <2>2. startMu[i] = t
    BY <1>2, <2>1, MuHeld, Zenon
  <2>3. CASE attempt[t] < MaxNamespaceRetries
    <3>1. UNCHANGED startMu /\ spc' = [spc EXCEPT ![t] = "launch"]
      BY <1>11, <2>3, Zenon DEF StartTeardown
    <3> QED
      BY <1>13, <2>1, <2>2, <3>1, Zenon
  <2>4. CASE ~(attempt[t] < MaxNamespaceRetries)
    <3>1. spc' = [spc EXCEPT ![t] = "done"]
      BY <1>11, <2>4, Zenon DEF StartTeardown, StartReturns
    <3> QED
      BY <1>6, <2>1, <3>1, Zenon
  <2> QED
    BY <2>3, <2>4, Zenon
<1> QED
  BY <1>7, <1>8, <1>9, <1>10, <1>11, Zenon

LEMMA PhaseStop ==
    ASSUME InstInv, NEW t \in Threads, NEW i \in Instances,
           \/ \E insts \in SUBSET Instances : StopCall(t, insts)
           \/ \E j \in Instances :
                 StopExtract(t, j) \/ StopUnpublish(t, j) \/ StopClosePurge(t, j) \/ StopKill(t, j)
           \/ StopConsume(t)
    PROVE  Phase(i)'
<1>1. /\ started \in [Instances -> BOOLEAN] /\ stack \in [Instances -> Stacks \cup {None}]
      /\ startMu \in [Instances -> Threads \cup {NoThread}]
      /\ xpc \in [Threads \X Instances -> StopStages]
  BY Zenon DEF InstInv, InstTypeOK
<1>2. Phase(i) /\ MuOK /\ NoThread \notin Threads
  BY InstNames, Zenon DEF InstInv
<1>3. UNCHANGED <<spc, sinst>> /\ \A u \in Threads : StartHolds(u, i)' <=> StartHolds(u, i)
  <2>1. UNCHANGED startFrame
    BY ZenonT(30) DEF StopCall, StopExtract, StopUnpublish, StopClosePurge, StopKill, StopConsume
  <2> QED
    BY <2>1, Zenon DEF startFrame, StartHolds
<1>4. ASSUME startMu'[i] = startMu[i], started'[i] = started[i], stack'[i] = stack[i],
             \A u \in Threads : xpc'[<<u, i>>] = "clear" => xpc[<<u, i>>] = "clear"
      PROVE  Phase(i)'
  BY <1>2, <1>3, <1>4, PhaseKept, Zenon DEF Clearing
<1>5. CASE \E insts \in SUBSET Instances : StopCall(t, insts)
  BY <1>4, <1>5, Zenon DEF StopCall
<1>6. CASE StopConsume(t)
  BY <1>4, <1>6, Zenon DEF StopConsume
<1>7. ASSUME NEW j \in Instances, StopClosePurge(t, j) \/ StopKill(t, j) PROVE Phase(i)'
  <2>1. /\ UNCHANGED <<startMu, started, stack>>
        /\ \A u \in Threads : xpc'[<<u, i>>] = "clear" => xpc[<<u, i>>] = "clear"
    BY <1>1, <1>7, Zenon DEF StopClosePurge, StopKill
  <2> QED
    BY <1>4, <2>1, Zenon
<1>8. ASSUME NEW j \in Instances, j # i, StopExtract(t, j) \/ StopUnpublish(t, j) PROVE Phase(i)'
  <2>1. /\ startMu'[i] = startMu[i] /\ started'[i] = started[i] /\ stack'[i] = stack[i]
        /\ \A u \in Threads : xpc'[<<u, i>>] = xpc[<<u, i>>]
    BY <1>1, <1>8, Zenon DEF StopExtract, StopUnpublish
  <2> QED
    BY <1>4, <2>1, Zenon
<1>9. CASE StopExtract(t, i)
  <2>1. startMu'[i] = t /\ stack'[i] = None /\ startMu[i] = NoThread
    BY <1>1, <1>9, Zenon DEF StopExtract
  <2>2. \A u \in Threads : ~StartHolds(u, i)
    BY <1>2, <2>1, MuHeld, Zenon
  <2> QED
    BY <1>2, <1>3, <2>1, <2>2, Zenon DEF Phase
<1>10. CASE StopUnpublish(t, i)
  <2>1. Clearing(t, i) /\ startMu'[i] = NoThread /\ ~started'[i] /\ stack' = stack
    BY <1>1, <1>10, Zenon DEF StopUnpublish, Clearing
  <2>2. \A u \in Threads : ~StartHolds(u, i)
    BY <1>2, <2>1, MuHeld, Zenon DEF MuOK
  <2>3. stack[i] = None
    BY <1>2, <2>1, Zenon DEF Phase
  <2> QED
    BY <1>3, <2>1, <2>2, <2>3, Zenon DEF Phase
<1> QED
  BY <1>5, <1>6, <1>7, <1>8, <1>9, <1>10, Zenon

LEMMA InstInvStep ==
    ASSUME InstInv, NEW t \in Threads, InstStep(t)
    PROVE  InstInv'
<1>1. InstTypeOK /\ MuOK /\ FramesOK /\ \A i \in Instances : stack[i] = purge[i]
  BY Zenon DEF InstInv, Complete
<1>2. InstTypeOK' /\ FramesOK'
  BY <1>1, InstTypesStep, FramesStep, Zenon
<1>4. \/ \/ \E i \in Instances : StartCall(t, i)
         \/ StartAlready(t) \/ StartLock(t) \/ StartLaunchErr(t) \/ StartConsume(t)
         \/ \E s \in Stacks : Launched(t, s)
         \/ StartInstall(t) \/ StartPublish(t) \/ StartTeardown(t)
      \/ \/ \E insts \in SUBSET Instances : StopCall(t, insts)
         \/ \E i \in Instances :
               StopExtract(t, i) \/ StopUnpublish(t, i) \/ StopClosePurge(t, i) \/ StopKill(t, i)
         \/ StopConsume(t)
  BY ZenonT(30) DEF InstStep
<1>5. MuOK'
  BY <1>1, <1>4, MuStartStep, MuStopStep, ZenonT(30)
<1>3. ASSUME NEW i \in Instances PROVE Owned(i)' /\ Apart(i)' /\ Complete(i)'
  <2>1. Owned(i) /\ Apart(i) /\ Complete(i)
    BY Zenon DEF InstInv
  <2>2. CASE \/ \E j \in Instances : StartCall(t, j)
             \/ StartAlready(t) \/ StartLock(t) \/ StartLaunchErr(t) \/ StartPublish(t)
             \/ StartConsume(t)
             \/ \E insts \in SUBSET Instances : StopCall(t, insts)
             \/ \E j \in Instances : StopUnpublish(t, j)
             \/ StopConsume(t)
    <3>1. SameOwners(i) /\ SameHandles(i)
      BY <1>1, <2>2, QuietStep, Zenon
    <3> QED
      BY <1>1, <2>1, <3>1, OwnersKept, HandlesKept, Zenon
  <2>3. CASE \E s \in Stacks : s \notin running[sinst[t]] /\ Launched(t, s)
    BY <2>3, LaunchStep, Zenon
  <2>4. CASE StartInstall(t)
    BY <2>4, InstallStep, Zenon
  <2>5. CASE StartTeardown(t)
    BY <2>5, TeardownStep, Zenon
  <2>6. CASE \E j \in Instances : StopExtract(t, j) \/ StopClosePurge(t, j) \/ StopKill(t, j)
    BY <2>6, ExtractStep, CloseStep, KillStep, Zenon
  <2> QED
    BY <2>2, <2>3, <2>4, <2>5, <2>6, ZenonT(30) DEF InstStep
<1>6. ASSUME NEW i \in Instances PROVE Phase(i)'
  <2>1. Phase(i)
    BY Zenon DEF InstInv
  <2>2. CASE sinst[t] = i /\ (StartLock(t) \/ StartLaunchErr(t) \/ StartInstall(t)
                                \/ StartPublish(t) \/ StartTeardown(t))
    BY <2>2, PhaseStart, Zenon
  <2>3. CASE \/ \E j \in Instances : StartCall(t, j)
             \/ StartAlready(t) \/ StartConsume(t)
             \/ \E s \in Stacks : Launched(t, s)
             \/ /\ StartLock(t) \/ StartLaunchErr(t) \/ StartInstall(t) \/ StartPublish(t)
                   \/ StartTeardown(t)
                /\ sinst[t] # i
    BY <1>1, <2>1, <2>3, PhaseOthers, Zenon
  <2>4. CASE \/ \E insts \in SUBSET Instances : StopCall(t, insts)
             \/ \E j \in Instances :
                   StopExtract(t, j) \/ StopUnpublish(t, j) \/ StopClosePurge(t, j) \/ StopKill(t, j)
             \/ StopConsume(t)
    BY <2>4, PhaseStop, Zenon
  <2> QED
    BY <1>4, <2>2, <2>3, <2>4, ZenonT(30)
<1> QED
  BY <1>2, <1>3, <1>5, <1>6, Zenon DEF InstInv

LEMMA InstInvStutter ==
    ASSUME InstInv, UNCHANGED instVars
    PROVE  InstInv'
<1>1. UNCHANGED <<started, stack, purge, startMu, running, openH, spc, sinst, sref, attempt, sok,
                  xpc, xstack, xpurge>>
  BY Zenon DEF instVars, startFrame, stopFrame
<1>2. InstTypeOK'
  BY <1>1, Zenon DEF InstInv, InstTypeOK
<1>3. MuOK' /\ FramesOK'
  BY <1>1 DEF InstInv, MuOK, FramesOK, StartHolds, Clearing
<1>4. ASSUME NEW i \in Instances PROVE Owned(i)' /\ Apart(i)' /\ Complete(i)'
  <2>1. SameOwners(i) /\ SameHandles(i)
    BY <1>1, Zenon DEF SameOwners, SameHandles
  <2> QED
    BY <2>1, OwnersKept, HandlesKept, Zenon DEF InstInv
<1>5. \A i \in Instances : Phase(i)'
  BY <1>1, Zenon DEF InstInv, Phase, StartHolds, Clearing
<1> QED
  BY <1>2, <1>3, <1>4, <1>5, Zenon DEF InstInv

(* A step of t leaves the Start of another goroutine where it is.          *)
LEMMA InstOthers ==
    ASSUME InstTypeOK, NEW t \in Threads, InstStep(t) \/ UNCHANGED instVars,
           NEW u \in Threads, u # t
    PROVE  spc'[u] = spc[u] /\ sinst'[u] = sinst[u] /\ sref'[u] = sref[u]
<1>1. /\ spc \in [Threads -> StartPC] /\ sinst \in [Threads -> Instances \cup {NoInst}]
      /\ sref \in [Threads -> Stacks \cup {None}]
  BY Zenon DEF InstTypeOK
<1>2. ASSUME NEW ok, StartReturns(t, ok)
      PROVE  spc'[u] = spc[u] /\ sinst'[u] = sinst[u] /\ sref'[u] = sref[u]
  BY <1>1, <1>2, Zenon DEF StartReturns
<1>3. CASE \E i \in Instances : StartCall(t, i)
  BY <1>1, <1>3, Zenon DEF StartCall
<1>4. CASE StartAlready(t) \/ StartLaunchErr(t) \/ StartPublish(t)
  BY <1>2, <1>4, Zenon DEF StartAlready, StartLaunchErr, StartPublish
<1>5. CASE StartLock(t)
  BY <1>1, <1>5, Zenon DEF StartLock
<1>6. CASE StartInstall(t) \/ \E s \in Stacks : Launched(t, s)
  BY <1>1, <1>6, Zenon DEF StartInstall, Launched
<1>7. CASE StartTeardown(t)
  <2>1. \/ StartReturns(t, FALSE)
        \/ /\ spc' = [spc EXCEPT ![t] = "launch"] /\ sref' = [sref EXCEPT ![t] = None]
           /\ UNCHANGED sinst
    BY <1>7, Zenon DEF StartTeardown
  <2> QED
    BY <1>1, <1>2, <2>1, Zenon
<1>8. CASE StartConsume(t)
  BY <1>1, <1>8, Zenon DEF StartConsume
<1>9. CASE \/ \E insts \in SUBSET Instances : StopCall(t, insts)
           \/ \E i \in Instances :
                 StopExtract(t, i) \/ StopUnpublish(t, i) \/ StopClosePurge(t, i) \/ StopKill(t, i)
           \/ StopConsume(t)
  <2>1. UNCHANGED <<spc, sinst, sref>>
    BY <1>9, ZenonT(30) DEF StopCall, StopExtract, StopUnpublish, StopClosePurge, StopKill,
       StopConsume, startFrame
  <2> QED
    BY <2>1, Zenon
<1>10. CASE UNCHANGED instVars
  <2>1. UNCHANGED <<spc, sinst, sref>>
    BY <1>10, Zenon DEF instVars, startFrame
  <2> QED
    BY <2>1, Zenon
<1> QED
  BY <1>3, <1>4, <1>5, <1>6, <1>7, <1>8, <1>9, <1>10, ZenonT(30) DEF InstStep

=============================================================================
