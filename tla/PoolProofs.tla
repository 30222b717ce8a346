----------------------------- MODULE PoolProofs -----------------------------
(***************************************************************************)
(* Proofs about the pool, for any number of goroutines, any maxSize and    *)
(* any bound on the instances and calls: types, exclusion and tracking,    *)
(* and on top of them the counting of slots and tokens.                    *)
(*                                                                         *)
(* Hypotheses are named and cited, and the types of the variables are      *)
(* handed to the steps in the weakest form they need: a leaf never sees    *)
(* the whole of PoolTypeOK unless it is about it.                          *)
(***************************************************************************)
EXTENDS Pool, FiniteSetTheorems, SequenceTheorems, TLAPS

(* Places at which the frame of a goroutine names an instance.             *)
InstPC == {"factory", "mark", "slotStop", "relLock", "relStop", "failStop",
           "release", "fail", "stopRet"}

(* The type invariant is inductive together with this: a method that works *)
(* on an instance has one, and a token presented for release was issued.   *)
Frames ==
    \A t \in Threads :
        /\ ppc[t] \in InstPC => pinst[t] \in Instances
        /\ ppc[t] \in {"release", "fail"} => Issued(pinst[t], ptok[t])

TypeInv == PoolTypeOK /\ Frames

LEMMA Places ==
    /\ {"idle", "select", "lock", "factory", "mark", "slotStop", "stopRet", "ret",
        "release", "fail", "relLock", "relStop", "failStop", "slot", "close", "closeCh"}
         \subseteq PoolPC
    /\ {"none", "ok", "ErrPoolClosed", "ctx", "factory", "stale", "full"} \subseteq PoolRet
  BY Zenon DEF PoolPC, PoolRet, SlotPC, StopPC

LEMMA TypeInvInit == PoolInit => TypeInv
<1>0. SUFFICES ASSUME PoolInit PROVE TypeInv
  BY Zenon
<1>1. free \in Seq(Instances)
  BY <1>0 DEF PoolInit
<1>2. ppc \in [Threads -> PoolPC] /\ pret \in [Threads -> PoolRet]
  BY <1>0, Places, Zenon DEF PoolInit
<1>3. sem \in 0 .. MaxSize /\ nextIdx \in 0 .. MaxIdx /\ calls \in 0 .. MaxAcquires
  BY <1>0, MaxSizeAssumption, MaxIdxAssumption, MaxAcquiresAssumption DEF PoolInit
<1>4. PoolTypeOK
  BY <1>0, <1>1, <1>2, <1>3, Zenon DEF PoolInit, PoolTypeOK
<1>5. Frames
  BY <1>0, Zenon DEF PoolInit, Frames, InstPC
<1> QED
  BY <1>4, <1>5, Zenon DEF TypeInv

(* A step that moves t to a place where it presents no token, and needs no *)
(* instance it does not have, keeps the frames well formed.                *)
LEMMA FramesKept ==
    ASSUME Frames, NEW t \in Threads, UNCHANGED ptok,
           \A u \in Threads : u # t => ppc'[u] = ppc[u] /\ pinst'[u] = pinst[u],
           \A i \in Instances, k \in Nat : Issued(i, k) => Issued(i, k)',
           ptok \in [Threads -> Nat],
           ppc'[t] \in InstPC => pinst'[t] \in Instances,
           ppc'[t] \notin {"release", "fail"}
    PROVE  Frames'
<1> SUFFICES ASSUME NEW u \in Threads
             PROVE  /\ ppc'[u] \in InstPC => pinst'[u] \in Instances
                    /\ ppc'[u] \in {"release", "fail"} => Issued(pinst[u], ptok[u])'
  BY Zenon DEF Frames
<1>1. CASE u = t
  BY <1>1, Zenon
<1>2. CASE u # t
  <2>1. ppc'[u] = ppc[u] /\ pinst'[u] = pinst[u] /\ ptok'[u] = ptok[u] /\ ptok[u] \in Nat
    BY <1>2, Zenon
  <2>2. /\ ppc[u] \in InstPC => pinst[u] \in Instances
        /\ ppc[u] \in {"release", "fail"} => Issued(pinst[u], ptok[u])
    BY Zenon DEF Frames
  <2>3. ppc[u] \in {"release", "fail"} => ppc[u] \in InstPC
    BY Zenon DEF InstPC
  <2>4. ppc[u] \in {"release", "fail"} => Issued(pinst[u], ptok[u])'
    <3> SUFFICES ASSUME ppc[u] \in {"release", "fail"} PROVE Issued(pinst[u], ptok[u])'
      BY Zenon
    <3>1. Issued(pinst[u], ptok[u]) /\ pinst[u] \in Instances
      BY <2>2, <2>3, Zenon
    <3> QED
      BY <2>1, <3>1, Zenon DEF Issued
  <2> QED
    BY <2>1, <2>2, <2>4, Zenon
<1> QED
  BY <1>1, <1>2, Zenon

(* Steps that only move the frame of one goroutine.                        *)
LEMMA TypeMove ==
    ASSUME TypeInv, NEW t \in Threads, NEW place \in PoolPC, NEW result \in PoolRet,
           ppc' = [ppc EXCEPT ![t] = place],
           pret' = pret \/ pret' = [pret EXCEPT ![t] = result],
           UNCHANGED <<poolShared, pinst, ptok>>,
           place \in InstPC => ppc[t] \in InstPC, place \notin {"release", "fail"}
    PROVE  TypeInv'
<1>1. /\ ppc \in [Threads -> PoolPC] /\ pret \in [Threads -> PoolRet]
      /\ ptok \in [Threads -> Nat]
  BY Zenon DEF TypeInv, PoolTypeOK
<1>2. ppc' \in [Threads -> PoolPC] /\ pret' \in [Threads -> PoolRet]
  BY <1>1, Zenon
<1>3. PoolTypeOK'
  BY <1>2, Zenon DEF TypeInv, PoolTypeOK, poolShared
<1>4. /\ \A u \in Threads : u # t => ppc'[u] = ppc[u] /\ pinst'[u] = pinst[u]
      /\ ppc'[t] = place /\ pinst'[t] = pinst[t]
  BY <1>1, Zenon
<1>5. Frames /\ (place \in InstPC => pinst[t] \in Instances)
  BY Zenon DEF TypeInv, Frames
<1>6. \A i \in Instances, k \in Nat : Issued(i, k) => Issued(i, k)'
  BY Zenon DEF Issued, poolShared
<1>7. Frames'
  BY <1>1, <1>4, <1>5, <1>6, FramesKept, Zenon
<1> QED
  BY <1>3, <1>7, Zenon DEF TypeInv

(* returnSlot keeps the semaphore within its capacity.                     *)
LEMMA TypeReturnSlot ==
    ASSUME TypeInv, NEW t \in Threads, NEW result \in PoolRet,
           NEW after \in {"ret", "stopRet"}, after = "stopRet" => ppc[t] \in InstPC,
           ReturnSlot(t, after, result)
    PROVE  TypeInv'
<1>1. /\ ppc \in [Threads -> PoolPC] /\ pret \in [Threads -> PoolRet]
      /\ ptok \in [Threads -> Nat] /\ sem \in 0 .. MaxSize
  BY Zenon DEF TypeInv, PoolTypeOK
<1>2. sem' \in 0 .. MaxSize
  BY <1>1, MaxSizeAssumption DEF ReturnSlot
<1>3. PICK place \in {"ret", after} : ppc' = [ppc EXCEPT ![t] = place]
  BY Zenon DEF ReturnSlot
<1>4. ppc' \in [Threads -> PoolPC]
  BY <1>1, <1>3, Places, Zenon
<1>5. pret' \in [Threads -> PoolRet]
  BY <1>1, Places, Zenon DEF ReturnSlot
<1>6. UNCHANGED <<free, all, nextIdx, closed, closeCh, gen, calls, lost, pinst, ptok>>
  BY Zenon DEF ReturnSlot
<1>7. PoolTypeOK'
  BY <1>2, <1>4, <1>5, <1>6, Zenon DEF TypeInv, PoolTypeOK
<1>8. /\ \A u \in Threads : u # t => ppc'[u] = ppc[u] /\ pinst'[u] = pinst[u]
      /\ ppc'[t] = place /\ pinst'[t] = pinst[t]
  BY <1>1, <1>3, <1>6, Zenon
<1>9. Frames /\ (place \in InstPC => pinst[t] \in Instances) /\ place \notin {"release", "fail"}
  BY <1>3, Zenon DEF TypeInv, Frames, InstPC
<1>10. \A i \in Instances, k \in Nat : Issued(i, k) => Issued(i, k)'
  BY <1>6, Zenon DEF Issued
<1>11. Frames'
  BY <1>1, <1>6, <1>8, <1>9, <1>10, FramesKept, Zenon
<1> QED
  BY <1>7, <1>11, Zenon DEF TypeInv

(* A generation only grows, so a token stays issued.                       *)
LEMMA IssuedStays ==
    ASSUME gen \in [Instances -> Nat], NEW i \in Instances,
           gen' = gen \/ gen' = [gen EXCEPT ![i] = gen[i] + 1]
    PROVE  /\ gen' \in [Instances -> Nat]
           /\ \A j \in Instances, k \in Nat : Issued(j, k) => Issued(j, k)'
<1>1. \A j \in Instances : gen[j] \in Nat /\ gen'[j] \in {gen[j], gen[j] + 1}
  BY Zenon
<1>2. \A m, n, k \in Nat : k <= m /\ n \in {m, m + 1} => k <= n
  OBVIOUS
<1>3. gen' \in [Instances -> Nat]
  OBVIOUS
<1> QED
  BY <1>1, <1>2, <1>3, Zenon DEF Issued

(* mustRelease, at both places it is called from.                          *)
LEMMA TypeMustRelease ==
    ASSUME TypeInv, NEW t \in Threads, ppc[t] \in {"release", "fail"},
           NEW after \in {"relLock", "failStop"}, MustRelease(t, after)
    PROVE  TypeInv'
<1>1. /\ ppc \in [Threads -> PoolPC] /\ pret \in [Threads -> PoolRet]
      /\ ptok \in [Threads -> Nat] /\ gen \in [Instances -> Nat]
  BY Zenon DEF TypeInv, PoolTypeOK
<1>2. pinst[t] \in Instances
  BY Zenon DEF TypeInv, Frames, InstPC
<1>3. gen' = gen \/ gen' = [gen EXCEPT ![pinst[t]] = gen[pinst[t]] + 1]
  BY Zenon DEF MustRelease
<1>4. PICK place \in {"ret", after} : ppc' = [ppc EXCEPT ![t] = place]
  BY Zenon DEF MustRelease
<1>5. ppc' \in [Threads -> PoolPC]
  BY <1>1, <1>4, Places, Zenon
<1>6. pret' \in [Threads -> PoolRet]
  BY <1>1, Places, Zenon DEF MustRelease
<1>7. UNCHANGED <<sem, free, all, nextIdx, closed, closeCh, calls, lost, pinst, ptok>>
  BY Zenon DEF MustRelease
<1>8. /\ gen' \in [Instances -> Nat]
      /\ \A i \in Instances, k \in Nat : Issued(i, k) => Issued(i, k)'
  BY <1>1, <1>2, <1>3, IssuedStays, Zenon
<1>9. PoolTypeOK'
  BY <1>5, <1>6, <1>7, <1>8, Zenon DEF TypeInv, PoolTypeOK
<1>10. /\ \A u \in Threads : u # t => ppc'[u] = ppc[u] /\ pinst'[u] = pinst[u]
       /\ ppc'[t] = place /\ pinst'[t] = pinst[t] /\ place \notin {"release", "fail"}
  BY <1>1, <1>4, <1>7, Zenon
<1>11. Frames'
  <2>1. Frames
    BY Zenon DEF TypeInv
  <2> QED
    BY <1>1, <1>2, <1>7, <1>8, <1>10, <2>1, FramesKept, Zenon
<1> QED
  BY <1>9, <1>11, Zenon DEF TypeInv

LEMMA TypeInvStep == TypeInv /\ [PoolNext]_poolVars => TypeInv'
<1>0. SUFFICES ASSUME TypeInv, [PoolNext]_poolVars PROVE TypeInv'
  BY Zenon
<1>1. /\ ppc \in [Threads -> PoolPC] /\ pret \in [Threads -> PoolRet]
      /\ pinst \in [Threads -> Instances \cup {NoInst}] /\ ptok \in [Threads -> Nat]
      /\ gen \in [Instances -> Nat] /\ free \in Seq(Instances)
  BY <1>0, Zenon DEF TypeInv, PoolTypeOK
<1>2. sem \in 0 .. MaxSize /\ nextIdx \in 0 .. MaxIdx /\ calls \in 0 .. MaxAcquires
  BY <1>0, Zenon DEF TypeInv, PoolTypeOK
<1>3. PoolTypeOK /\ Frames
  BY <1>0, Zenon DEF TypeInv
<1>4. ASSUME UNCHANGED gen
      PROVE  \A i \in Instances, k \in Nat : Issued(i, k) => Issued(i, k)'
  BY <1>4, Zenon DEF Issued
<1>5. CASE UNCHANGED poolVars
  BY <1>3, <1>5, Zenon DEF TypeInv, PoolTypeOK, Frames, Issued, poolVars, poolShared
<1>6. ASSUME NEW t \in Threads,
             \/ AcquireClosed(t) \/ AcquireLockClosed(t) \/ AcquireCtxDone(t)
             \/ AcquireFactoryErr(t) \/ CloseCall(t) \/ PoolStopDone(t)
      PROVE  TypeInv'
  <2>1. CASE AcquireClosed(t)
    BY <1>0, <2>1, Places, TypeMove, Zenon DEF AcquireClosed, Return, InstPC
  <2>2. CASE AcquireLockClosed(t)
    BY <1>0, <2>2, Places, TypeMove, Zenon DEF AcquireLockClosed, InstPC
  <2>3. CASE AcquireCtxDone(t)
    BY <1>0, <2>3, Places, TypeMove, Zenon DEF AcquireCtxDone, Return, InstPC
  <2>4. CASE AcquireFactoryErr(t)
    BY <1>0, <2>4, Places, TypeMove, Zenon DEF AcquireFactoryErr, InstPC
  <2>5. CASE CloseCall(t)
    BY <1>0, <2>5, Places, TypeMove, Zenon DEF CloseCall, Goto, InstPC
  <2>6. CASE PoolStopDone(t)
    BY <1>0, <2>6, Places, TypeMove, Zenon DEF PoolStopDone, StopPC, InstPC
  <2> QED
    BY <1>6, <2>1, <2>2, <2>3, <2>4, <2>5, <2>6, Zenon
<1>7. ASSUME NEW t \in Threads, AcquireSlot(t) PROVE TypeInv'
  <2>1. sem' \in 0 .. MaxSize
    BY <1>2, <1>7, MaxSizeAssumption DEF AcquireSlot, Bounded
  <2>2. ppc' = [ppc EXCEPT ![t] = "lock"] /\ UNCHANGED <<pinst, ptok, pret, gen>>
    BY <1>7, Zenon DEF AcquireSlot, Goto
  <2>3. ppc' \in [Threads -> PoolPC]
    BY <1>1, <2>2, Places, Zenon
  <2>4. PoolTypeOK'
    BY <1>3, <1>7, <2>1, <2>2, <2>3, Zenon DEF PoolTypeOK, AcquireSlot
  <2>5. Frames'
    BY <1>1, <1>3, <1>4, <2>2, FramesKept, Zenon DEF InstPC
  <2> QED
    BY <2>4, <2>5, Zenon DEF TypeInv
<1>8. ASSUME NEW t \in Threads, AcquirePop(t) PROVE TypeInv'
  <2>1. free # <<>> /\ free' = SubSeq(free, 1, Len(free) - 1)
    BY <1>8, Zenon DEF AcquirePop
  <2>2. free' \in Seq(Instances) /\ free[Len(free)] \in Instances
    BY <1>1, <2>1
  <2>3. /\ ppc' = [ppc EXCEPT ![t] = "mark"] /\ UNCHANGED <<ptok, pret, gen>>
        /\ pinst' = [pinst EXCEPT ![t] = free[Len(free)]]
    BY <1>8, Zenon DEF AcquirePop
  <2>4. /\ ppc' \in [Threads -> PoolPC]
        /\ pinst' \in [Threads -> Instances \cup {NoInst}]
    BY <1>1, <2>2, <2>3, Places, Zenon
  <2>5. PoolTypeOK'
    BY <1>3, <1>8, <2>2, <2>4, Zenon DEF PoolTypeOK, AcquirePop
  <2>6. Frames'
    BY <1>1, <1>3, <1>4, <2>2, <2>3, FramesKept, Zenon
  <2> QED
    BY <2>5, <2>6, Zenon DEF TypeInv
<1>9. ASSUME NEW t \in Threads, AcquireReserve(t) PROVE TypeInv'
  <2>1. nextIdx' \in 0 .. MaxIdx /\ nextIdx \in Instances
    BY <1>2, <1>9, MaxIdxAssumption DEF AcquireReserve, Instances
  <2>2. /\ ppc' = [ppc EXCEPT ![t] = "factory"] /\ UNCHANGED <<ptok, pret, gen>>
        /\ pinst' = [pinst EXCEPT ![t] = nextIdx]
    BY <1>9, Zenon DEF AcquireReserve
  <2>3. /\ ppc' \in [Threads -> PoolPC]
        /\ pinst' \in [Threads -> Instances \cup {NoInst}]
    BY <1>1, <2>1, <2>2, Places, Zenon
  <2>4. PoolTypeOK'
    BY <1>3, <1>9, <2>1, <2>3, Zenon DEF PoolTypeOK, AcquireReserve
  <2>5. Frames'
    BY <1>1, <1>3, <1>4, <2>1, <2>2, FramesKept, Zenon
  <2> QED
    BY <2>4, <2>5, Zenon DEF TypeInv
<1>10. ASSUME NEW t \in Threads, AcquireRegister(t) PROVE TypeInv'
  <2>1. pinst[t] \in Instances
    BY <1>3, <1>10, Zenon DEF AcquireRegister, Frames, InstPC
  <2>2. PICK place \in {"slotStop", "mark"} :
          ppc' = [ppc EXCEPT ![t] = place] /\ UNCHANGED <<pinst, ptok, pret, gen>>
    BY <1>10, Zenon DEF AcquireRegister, Goto
  <2>3. ppc' \in [Threads -> PoolPC] /\ all' \subseteq Instances
    BY <1>1, <1>3, <1>10, <2>1, <2>2, Places, Zenon DEF AcquireRegister, PoolTypeOK
  <2>4. PoolTypeOK'
    BY <1>3, <1>10, <2>2, <2>3, Zenon DEF PoolTypeOK, AcquireRegister
  <2>5. Frames'
    BY <1>1, <1>3, <1>4, <2>1, <2>2, FramesKept, Zenon
  <2> QED
    BY <2>4, <2>5, Zenon DEF TypeInv
<1>11. ASSUME NEW t \in Threads, AcquireMark(t) PROVE TypeInv'
  <2>1. pinst[t] \in Instances
    BY <1>3, <1>11, Zenon DEF AcquireMark, Frames, InstPC
  <2>2. /\ ppc' = [ppc EXCEPT ![t] = "ret"] /\ pret' = [pret EXCEPT ![t] = "ok"]
        /\ ptok' = [ptok EXCEPT ![t] = gen[pinst[t]] + 1] /\ UNCHANGED pinst
    BY <1>11, Zenon DEF AcquireMark
  <2>7. gen' = [gen EXCEPT ![pinst[t]] = gen[pinst[t]] + 1]
    BY <1>11, Zenon DEF AcquireMark
  <2>3. /\ ppc' \in [Threads -> PoolPC] /\ pret' \in [Threads -> PoolRet]
        /\ ptok' \in [Threads -> Nat]
    BY <1>1, <2>1, <2>2, Places
  <2>4. /\ gen' \in [Instances -> Nat]
        /\ \A i \in Instances, k \in Nat : Issued(i, k) => Issued(i, k)'
    BY <1>1, <2>1, <2>7, IssuedStays, Zenon
  <2>5. PoolTypeOK'
    BY <1>3, <1>11, <2>3, <2>4, Zenon DEF PoolTypeOK, AcquireMark
  <2>6. Frames'
    <3> SUFFICES ASSUME NEW u \in Threads
                 PROVE  /\ ppc'[u] \in InstPC => pinst'[u] \in Instances
                        /\ ppc'[u] \in {"release", "fail"} => Issued(pinst[u], ptok[u])'
      BY Zenon DEF Frames
    <3>1. CASE u = t
      BY <1>1, <2>2, <3>1, Zenon DEF InstPC
    <3>2. CASE u # t
      <4>1. /\ ppc'[u] = ppc[u] /\ pinst'[u] = pinst[u] /\ ptok'[u] = ptok[u]
            /\ ptok[u] \in Nat
        BY <1>1, <2>2, <3>2, Zenon
      <4>2. /\ ppc[u] \in InstPC => pinst[u] \in Instances
            /\ ppc[u] \in {"release", "fail"} =>
                 Issued(pinst[u], ptok[u]) /\ pinst[u] \in Instances
        BY <1>3, Zenon DEF Frames, InstPC
      <4> QED
        BY <2>4, <4>1, <4>2, Zenon DEF Issued
    <3> QED
      BY <3>1, <3>2, Zenon
  <2> QED
    BY <2>5, <2>6, Zenon DEF TypeInv
<1>12. ASSUME NEW t \in Threads, SlotBack(t) \/ SlotBackThenStop(t) PROVE TypeInv'
  <2>1. pret[t] \in PoolRet
    BY <1>1, Zenon
  <2> QED
    BY <1>0, <1>12, <2>1, Places, TypeReturnSlot, Zenon DEF SlotBack, SlotBackThenStop, InstPC
<1>13. ASSUME NEW t \in Threads, ReleaseCAS(t) \/ ReleaseFailedCAS(t) PROVE TypeInv'
  BY <1>0, <1>13, TypeMustRelease, Zenon DEF ReleaseCAS, ReleaseFailedCAS
<1>14. ASSUME NEW t \in Threads, ReleasePush(t) PROVE TypeInv'
  <2>1. pinst[t] \in Instances
    BY <1>3, <1>14, Zenon DEF ReleasePush, Frames, InstPC
  <2>2. free' \in Seq(Instances)
    BY <1>1, <1>14, <2>1 DEF ReleasePush
  <2>3. PICK place \in {"relStop", "slot"} :
          ppc' = [ppc EXCEPT ![t] = place] /\ UNCHANGED <<pinst, ptok, pret, gen>>
    BY <1>14, Zenon DEF ReleasePush, Goto
  <2>4. ppc' \in [Threads -> PoolPC]
    BY <1>1, <2>3, Places, Zenon
  <2>5. PoolTypeOK'
    BY <1>3, <1>14, <2>2, <2>3, <2>4, Zenon DEF PoolTypeOK, ReleasePush
  <2>6. Frames'
    BY <1>1, <1>3, <1>4, <2>1, <2>3, FramesKept, Zenon
  <2> QED
    BY <2>5, <2>6, Zenon DEF TypeInv
<1>15. ASSUME NEW t \in Threads, CloseMark(t) PROVE TypeInv'
  <2>1. ppc' = [ppc EXCEPT ![t] = "closeCh"] /\ UNCHANGED <<pinst, ptok, pret, gen>>
    BY <1>15, Zenon DEF CloseMark, Goto
  <2>2. ppc' \in [Threads -> PoolPC] /\ free' \in Seq(Instances) /\ closed' \in BOOLEAN
    BY <1>1, <1>15, <2>1, Places DEF CloseMark
  <2>3. PoolTypeOK'
    BY <1>3, <1>15, <2>1, <2>2, Zenon DEF PoolTypeOK, CloseMark
  <2>4. Frames'
    BY <1>1, <1>3, <1>4, <2>1, FramesKept, Zenon DEF InstPC
  <2> QED
    BY <2>3, <2>4, Zenon DEF TypeInv
<1>16. ASSUME NEW t \in Threads, CloseChannel(t) PROVE TypeInv'
  <2>1. /\ ppc' = [ppc EXCEPT ![t] = "ret"] /\ pret' = [pret EXCEPT ![t] = "ok"]
        /\ UNCHANGED <<pinst, ptok, gen>>
    BY <1>16, Zenon DEF CloseChannel, Return
  <2>2. ppc' \in [Threads -> PoolPC] /\ pret' \in [Threads -> PoolRet]
    BY <1>1, <2>1, Places, Zenon
  <2>3. closeCh' \in BOOLEAN
    BY <1>16, Zenon DEF CloseChannel
  <2>4. PoolTypeOK'
    BY <1>3, <1>16, <2>1, <2>2, <2>3, Zenon DEF PoolTypeOK, CloseChannel
  <2>5. Frames'
    BY <1>1, <1>3, <1>4, <2>1, FramesKept, Zenon DEF InstPC
  <2> QED
    BY <2>4, <2>5, Zenon DEF TypeInv
<1>17. ASSUME NEW t \in Threads, AcquireCall(t) PROVE TypeInv'
  <2>1. ppc' = [ppc EXCEPT ![t] = "select"] /\ UNCHANGED <<pinst, ptok, pret, gen>>
    BY <1>17, Zenon DEF AcquireCall, Goto
  <2>2. ppc' \in [Threads -> PoolPC]
    BY <1>1, <2>1, Places, Zenon
  <2>3. calls' \in 0 .. MaxAcquires
    BY <1>2, <1>17, MaxAcquiresAssumption DEF AcquireCall
  <2>4. PoolTypeOK'
    BY <1>3, <1>17, <2>1, <2>2, <2>3, Zenon DEF PoolTypeOK, AcquireCall
  <2>5. Frames'
    BY <1>1, <1>3, <1>4, <2>1, FramesKept, Zenon DEF InstPC
  <2> QED
    BY <2>4, <2>5, Zenon DEF TypeInv
<1>18. ASSUME NEW t \in Threads, PoolConsume(t) PROVE TypeInv'
  <2>1. /\ ppc' = [ppc EXCEPT ![t] = "idle"] /\ pret' = [pret EXCEPT ![t] = "none"]
        /\ pinst' = [pinst EXCEPT ![t] = NoInst] /\ ptok' = [ptok EXCEPT ![t] = 0]
        /\ UNCHANGED poolShared
    BY <1>18, Zenon DEF PoolConsume
  <2>2. /\ ppc' \in [Threads -> PoolPC] /\ pret' \in [Threads -> PoolRet]
        /\ pinst' \in [Threads -> Instances \cup {NoInst}] /\ ptok' \in [Threads -> Nat]
    BY <1>1, <2>1, Places, Zenon
  <2>3. PoolTypeOK'
    BY <1>3, <2>1, <2>2, Zenon DEF PoolTypeOK, poolShared
  <2>4. Frames'
    BY <1>1, <1>3, <2>1, Zenon DEF Frames, Issued, InstPC, poolShared
  <2> QED
    BY <2>3, <2>4, Zenon DEF TypeInv
<1>19. ASSUME NEW t \in Threads, NEW i \in Instances, NEW k \in 1 .. gen[i],
              NEW place \in {"release", "fail"}, ReleaseCall(t, i, k, place)
       PROVE  TypeInv'
  <2>1. k \in Nat
    BY <1>1
  <2>2. /\ ppc' = [ppc EXCEPT ![t] = place] /\ pinst' = [pinst EXCEPT ![t] = i]
        /\ ptok' = [ptok EXCEPT ![t] = k] /\ UNCHANGED <<poolShared, pret>>
        /\ Issued(i, k)
    BY <1>19, Zenon DEF ReleaseCall
  <2>3. /\ ppc' \in [Threads -> PoolPC]
        /\ pinst' \in [Threads -> Instances \cup {NoInst}] /\ ptok' \in [Threads -> Nat]
    BY <1>1, <2>1, <2>2, Places, Zenon
  <2>4. PoolTypeOK'
    BY <1>3, <2>2, <2>3, Zenon DEF PoolTypeOK, poolShared
  <2>5. Frames'
    BY <1>1, <1>3, <2>2, Zenon DEF Frames, Issued, poolShared
  <2> QED
    BY <2>4, <2>5, Zenon DEF TypeInv
<1>20. ASSUME NEW t \in Threads, NEW i \in Instances, NEW k \in 1 .. gen[i],
              Abandon(t, i, k)
       PROVE  TypeInv'
  <2>1. UNCHANGED <<sem, free, all, nextIdx, closed, closeCh, calls, ppc, pinst, ptok, pret>>
    BY <1>20, Zenon DEF Abandon
  <2>2. gen' = gen \/ gen' = [gen EXCEPT ![i] = gen[i] + 1]
    BY <1>20, Zenon DEF Abandon
  <2>3. lost \in Nat /\ lost' \in {lost, lost + 1}
    BY <1>3, <1>20, Zenon DEF Abandon, PoolTypeOK
  <2>4. lost' \in Nat
    BY <2>3
  <2>5. /\ gen' \in [Instances -> Nat]
        /\ \A j \in Instances, n \in Nat : Issued(j, n) => Issued(j, n)'
    BY <1>1, <2>2, IssuedStays, Zenon
  <2>6. PoolTypeOK'
    BY <1>3, <2>1, <2>4, <2>5, Zenon DEF PoolTypeOK
  <2>7. Frames'
    <3>1. \A u \in Threads : /\ ptok[u] \in Nat
                             /\ ppc[u] \in {"release", "fail"} => pinst[u] \in Instances
      BY <1>1, <1>3, Zenon DEF Frames, InstPC
    <3> QED
      BY <1>3, <2>1, <2>5, <3>1, Zenon DEF Frames, Issued
  <2> QED
    BY <2>6, <2>7, Zenon DEF TypeInv
<1>21. ASSUME NEW t \in Threads, PoolStep(t) PROVE TypeInv'
  BY <1>6, <1>7, <1>8, <1>9, <1>10, <1>11, <1>12, <1>13, <1>14, <1>15, <1>16, <1>21, ZenonT(30)
  DEF PoolStep
<1>22. ASSUME NEW t \in Threads, PoolEnv(t) PROVE TypeInv'
  BY <1>6, <1>17, <1>18, <1>19, <1>20, <1>22, ZenonT(30) DEF PoolEnv
<1> QED
  BY <1>0, <1>5, <1>6, <1>21, <1>22, ZenonT(30) DEF PoolNext

(* The pool's variables keep their types: in particular the semaphore      *)
(* never holds more tokens than it was made for.                           *)
THEOREM PoolTypeCorrect == PoolSpec => []PoolTypeOK
<1>1. PoolSpec => []TypeInv
  BY TypeInvInit, TypeInvStep, PTL DEF PoolSpec
<1> QED
  BY <1>1, PTL DEF TypeInv

-----------------------------------------------------------------------------
(* Exclusive access.                                                       *)

(* An index that was not handed to the factory yet is nobody's instance.   *)
FreshIndexes ==
    \A i \in Instances :
        i >= nextIdx => /\ gen[i] = 0
                        /\ ~OnStack(i)
                        /\ \A t \in Threads : ~InHand(t, i)

ExclInv == TypeInv /\ Exclusive /\ FreshIndexes

(* The types the steps below need, in their weakest form.                  *)
LEMMA LeanTypes ==
    ASSUME TypeInv
    PROVE  /\ ppc \in [Threads -> PoolPC] /\ pinst \in [Threads -> Instances \cup {NoInst}]
           /\ gen \in [Instances -> Nat] /\ free \in Seq(Instances) /\ nextIdx \in Nat
           /\ \A t \in Threads : ppc[t] \in InstPC => pinst[t] \in Instances
  BY MaxIdxAssumption DEF TypeInv, PoolTypeOK, Frames

LEMMA InstancesAreNat == \A i \in Instances : i \in Nat
  BY MaxIdxAssumption DEF Instances

(* An acquisition makes the generation odd, a release makes it even.       *)
LEMMA Parity ==
    \A n \in Nat : /\ n % 2 = 1 => (n + 1) % 2 # 1
                   /\ n % 2 # 1 => (n + 1) % 2 = 1
  OBVIOUS

(* What becomes of the free stack when Acquire pops it.                    *)
LEMMA PopStack ==
    ASSUME NEW S, NEW q \in Seq(S), q # <<>>
    PROVE  LET r == SubSeq(q, 1, Len(q) - 1) IN
           /\ r \in Seq(S)
           /\ Len(r) = Len(q) - 1
           /\ \A n \in 1 .. Len(r) : n \in 1 .. Len(q) /\ n # Len(q) /\ r[n] = q[n]
           /\ Len(q) \in 1 .. Len(q)
           /\ q[Len(q)] \in S
<1> DEFINE r == SubSeq(q, 1, Len(q) - 1)
<1>1. Len(q) \in Nat /\ Len(q) # 0 /\ \A n \in 1 .. Len(q) : q[n] \in S
  OBVIOUS
<1>2. \A n \in 1 .. Len(q) - 1 : q[n] \in S
  BY <1>1
<1>3. /\ r \in Seq(S)
      /\ Len(r) = IF 1 <= Len(q) - 1 THEN Len(q) - 1 - 1 + 1 ELSE 0
      /\ \A n \in 1 .. Len(q) - 1 - 1 + 1 : r[n] = q[1 + n - 1]
  <2>1. 1 \in Int /\ Len(q) - 1 \in Int
    BY <1>1
  <2> QED
    BY <1>2, <2>1, SubSeqProperties
<1>4. Len(r) = Len(q) - 1
  <2>1. \A l \in Nat : l # 0 => (IF 1 <= l - 1 THEN l - 1 - 1 + 1 ELSE 0) = l - 1
    OBVIOUS
  <2> QED
    BY <1>1, <1>3, <2>1, Zenon
<1>5. \A n \in 1 .. Len(q) - 1 : r[n] = q[n]
  <2> TAKE n \in 1 .. Len(q) - 1
  <2>1. n \in 1 .. Len(q) - 1 - 1 + 1 /\ 1 + n - 1 = n
    BY <1>1
  <2> QED
    BY <1>3, <2>1, Zenon
<1>6. \A n \in 1 .. Len(q) - 1 : n \in 1 .. Len(q) /\ n # Len(q)
  BY <1>1
<1>7. Len(q) \in 1 .. Len(q)
  BY <1>1
<1> QED
  BY <1>1, <1>3, <1>4, <1>5, <1>6, <1>7, Zenon

(* A step that leaves the stack and the generations alone and takes no     *)
(* instance in hand keeps the exclusion.                                   *)
LEMMA HandsOnlyShrink ==
    ASSUME Exclusive, FreshIndexes, UNCHANGED <<free, gen, nextIdx>>,
           \A u \in Threads, i \in Instances : InHand(u, i)' => InHand(u, i)
    PROVE  Exclusive' /\ FreshIndexes'
<1>1. \A i \in Instances : /\ OnStack(i)' <=> OnStack(i)
                           /\ IsBusy(i)' <=> IsBusy(i)
  BY Zenon DEF OnStack, IsBusy
<1>2. Exclusive'
  BY <1>1, Zenon DEF Exclusive
<1>3. FreshIndexes'
  BY <1>1, Zenon DEF FreshIndexes
<1> QED
  BY <1>2, <1>3, Zenon

(* A step that moves t to a place where it has no instance in hand.        *)
LEMMA HandsEmptied ==
    ASSUME Exclusive, FreshIndexes, UNCHANGED <<free, gen, nextIdx>>, NEW t \in Threads,
           \A u \in Threads : u # t => ppc'[u] = ppc[u] /\ pinst'[u] = pinst[u],
           ppc'[t] \notin LivePC \cup {"slotStop"}
    PROVE  Exclusive' /\ FreshIndexes'
<1>1. \A u \in Threads, i \in Instances : InHand(u, i)' => InHand(u, i)
  BY Zenon DEF InHand
<1> QED
  BY <1>1, HandsOnlyShrink, Zenon

(* The generation of i advances: i changes between acquired and not, and   *)
(* nothing else does.                                                      *)
LEMMA GenAdvances ==
    ASSUME gen \in [Instances -> Nat], NEW i \in Instances,
           gen' = [gen EXCEPT ![i] = gen[i] + 1]
    PROVE  /\ IsBusy(i)' <=> ~IsBusy(i)
           /\ \A j \in Instances : j # i => gen'[j] = gen[j] /\ (IsBusy(j)' <=> IsBusy(j))
<1>1. gen'[i] = gen[i] + 1 /\ gen[i] \in Nat /\ \A j \in Instances : j # i => gen'[j] = gen[j]
  BY Zenon
<1> QED
  BY <1>1, Parity, Zenon DEF IsBusy

(* An acquired instance, or one in somebody's hands, has been created.     *)
LEMMA Created ==
    ASSUME FreshIndexes, gen \in [Instances -> Nat], nextIdx \in Nat, NEW i \in Instances,
           IsBusy(i) \/ OnStack(i) \/ \E t \in Threads : InHand(t, i)
    PROVE  i < nextIdx
<1>1. i >= nextIdx => ~IsBusy(i)
  BY DEF FreshIndexes, IsBusy
<1>2. ~(i >= nextIdx)
  BY <1>1, Zenon DEF FreshIndexes
<1> QED
  BY <1>2, InstancesAreNat

(* The holder of i gives it up: nobody else has it, so at most t takes it. *)
LEMMA HolderGivesUp ==
    ASSUME Exclusive, FreshIndexes, gen \in [Instances -> Nat], nextIdx \in Nat,
           NEW i \in Instances, IsBusy(i), gen' = [gen EXCEPT ![i] = gen[i] + 1],
           UNCHANGED <<free, nextIdx>>, NEW t \in Threads,
           \A u \in Threads, j \in Instances : InHand(u, j)' => InHand(u, j) \/ (u = t /\ j = i)
    PROVE  Exclusive' /\ FreshIndexes'
<1>1. ~OnStack(i) /\ \A u \in Threads : ~InHand(u, i)
  BY Zenon DEF Exclusive
<1>2. /\ ~IsBusy(i)'
      /\ \A j \in Instances : j # i => gen'[j] = gen[j] /\ (IsBusy(j)' <=> IsBusy(j))
  BY GenAdvances, Zenon
<1>3. \A j \in Instances : OnStack(j)' <=> OnStack(j)
  BY Zenon DEF OnStack
<1>4. Exclusive'
  <2>1. \A m, n \in 1 .. Len(free') : free'[m] = free'[n] => m = n
    BY Zenon DEF Exclusive
  <2>2. \A j \in Instances : OnStack(j)' => ~IsBusy(j)'
    BY <1>2, <1>3, Zenon DEF Exclusive
  <2>3. \A u \in Threads, j \in Instances :
            InHand(u, j)' => /\ ~IsBusy(j)' /\ ~OnStack(j)'
                             /\ \A v \in Threads : InHand(v, j)' => v = u
    BY <1>1, <1>2, <1>3 DEF Exclusive
  <2> QED
    BY <2>1, <2>2, <2>3, Zenon DEF Exclusive
<1>5. i < nextIdx
  BY Created, Zenon
<1>6. FreshIndexes'
  <2> SUFFICES ASSUME NEW j \in Instances, j >= nextIdx
               PROVE  gen'[j] = 0 /\ ~OnStack(j)' /\ \A u \in Threads : ~InHand(u, j)'
    BY Zenon DEF FreshIndexes
  <2>1. j # i
    BY <1>5, InstancesAreNat
  <2> QED
    BY <1>2, <1>3, <2>1, Zenon DEF FreshIndexes
<1> QED
  BY <1>4, <1>6, Zenon

(* mustRelease takes the instance from its holder into the hands of the    *)
(* releasing goroutine, or does nothing when the token is stale.           *)
LEMMA MustReleaseTakes ==
    ASSUME ExclInv, NEW t \in Threads, ppc[t] \in {"release", "fail"},
           NEW after \in {"relLock", "failStop"}, MustRelease(t, after)
    PROVE  Exclusive' /\ FreshIndexes'
<1> DEFINE i == pinst[t]
<1>1. TypeInv /\ Exclusive /\ FreshIndexes
  BY Zenon DEF ExclInv
<1>2. /\ ppc \in [Threads -> PoolPC] /\ gen \in [Instances -> Nat] /\ nextIdx \in Nat
      /\ i \in Instances
  BY <1>1, LeanTypes, Zenon DEF InstPC
<1>3. Issued(i, ptok[t])
  BY <1>1, Zenon DEF TypeInv, Frames
<1>4. UNCHANGED <<free, nextIdx, pinst>> /\ \A u \in Threads : u # t => ppc'[u] = ppc[u]
  BY DEF MustRelease
<1>5. CASE gen[i] # ptok[t]
  <2>1. UNCHANGED gen /\ ppc'[t] = "ret"
    BY <1>2, <1>5, Zenon DEF MustRelease
  <2> QED
    BY <1>1, <1>4, <2>1, HandsEmptied, Zenon DEF LivePC
<1>6. CASE gen[i] = ptok[t]
  <2>1. IsBusy(i)
    BY <1>3, <1>6, Zenon DEF Issued, IsBusy
  <2>2. gen' = [gen EXCEPT ![i] = gen[i] + 1]
    BY <1>6, Zenon DEF MustRelease
  <2>3. \A u \in Threads, j \in Instances : InHand(u, j)' => InHand(u, j) \/ (u = t /\ j = i)
    BY <1>4, Zenon DEF InHand
  <2> HIDE DEF i
  <2> QED
    BY <1>1, <1>2, <1>4, <2>1, <2>2, <2>3, HolderGivesUp, Zenon
<1> QED
  BY <1>5, <1>6, Zenon

LEMMA ExclInit == PoolInit => Exclusive /\ FreshIndexes
<1>0. SUFFICES ASSUME PoolInit PROVE Exclusive /\ FreshIndexes
  BY Zenon
<1>1. \A i \in Instances : ~OnStack(i) /\ gen[i] = 0
  BY <1>0 DEF PoolInit, OnStack
<1>2. \A t \in Threads, i \in Instances : ~InHand(t, i)
  BY <1>0, Zenon DEF PoolInit, InHand, LivePC
<1>3. \A m, n \in 1 .. Len(free) : FALSE
  BY <1>0 DEF PoolInit
<1> QED
  BY <1>1, <1>2, <1>3, Zenon DEF Exclusive, FreshIndexes

LEMMA ExclStep == ExclInv /\ [PoolNext]_poolVars => Exclusive' /\ FreshIndexes'
<1>0. SUFFICES ASSUME ExclInv, [PoolNext]_poolVars PROVE Exclusive' /\ FreshIndexes'
  BY Zenon
<1>1. TypeInv /\ Exclusive /\ FreshIndexes
  BY <1>0, Zenon DEF ExclInv
<1>2. ppc \in [Threads -> PoolPC] /\ pinst \in [Threads -> Instances \cup {NoInst}]
  BY <1>1, LeanTypes, Zenon
<1>3. gen \in [Instances -> Nat] /\ free \in Seq(Instances) /\ nextIdx \in Nat
  BY <1>1, LeanTypes, Zenon
<1>4. \A t \in Threads : ppc[t] \in InstPC => pinst[t] \in Instances
  BY <1>1, LeanTypes, Zenon
<1>5. CASE UNCHANGED poolVars
  <2>1. UNCHANGED <<free, gen, nextIdx, ppc, pinst>>
    BY <1>5, Zenon DEF poolVars, poolShared
  <2> QED
    BY <1>1, <2>1, HandsOnlyShrink, Zenon DEF InHand
<1>6. ASSUME NEW t \in Threads,
             \/ AcquireCall(t) \/ AcquireCtxDone(t) \/ AcquireSlot(t) \/ AcquireClosed(t)
             \/ AcquireLockClosed(t) \/ AcquireFactoryErr(t) \/ CloseCall(t)
             \/ CloseChannel(t) \/ PoolConsume(t) \/ PoolStopDone(t)
             \/ SlotBack(t) \/ SlotBackThenStop(t)
      PROVE  Exclusive' /\ FreshIndexes'
  <2>1. UNCHANGED <<free, gen, nextIdx>>
    BY <1>6, Zenon
    DEF AcquireCall, AcquireCtxDone, AcquireSlot, AcquireClosed, AcquireLockClosed,
        AcquireFactoryErr, SlotBack, SlotBackThenStop, ReturnSlot,
        PoolStopDone, PoolConsume, CloseCall, CloseChannel, poolShared
  <2>2. PICK place \in {"select", "lock", "ret", "slot", "close", "idle", "stopRet"} :
          ppc' = [ppc EXCEPT ![t] = place]
    BY <1>6, Zenon
    DEF AcquireCall, AcquireCtxDone, AcquireSlot, AcquireClosed, AcquireLockClosed,
        AcquireFactoryErr, SlotBack, SlotBackThenStop, ReturnSlot,
        PoolStopDone, PoolConsume, CloseCall, CloseChannel, Goto, Return
  <2>3. \A u \in Threads : u # t => pinst'[u] = pinst[u]
    BY <1>2, <1>6, Zenon
    DEF AcquireCall, AcquireCtxDone, AcquireSlot, AcquireClosed, AcquireLockClosed,
        AcquireFactoryErr, SlotBack, SlotBackThenStop, ReturnSlot,
        PoolStopDone, PoolConsume, CloseCall, CloseChannel, Goto, Return
  <2>4. ppc'[t] \notin LivePC \cup {"slotStop"} /\ \A u \in Threads : u # t => ppc'[u] = ppc[u]
    BY <1>2, <2>2, Zenon DEF LivePC
  <2> QED
    BY <1>1, <2>1, <2>3, <2>4, HandsEmptied, Zenon
<1>7. ASSUME NEW t \in Threads, AcquireRegister(t) PROVE Exclusive' /\ FreshIndexes'
  <2>1. UNCHANGED <<free, gen, nextIdx, pinst>> /\ ppc[t] = "factory"
    BY <1>7, Zenon DEF AcquireRegister, Goto
  <2>2. \A u \in Threads : u # t => ppc'[u] = ppc[u]
    BY <1>2, <1>7, Zenon DEF AcquireRegister, Goto
  <2>3. \A u \in Threads, i \in Instances : InHand(u, i)' => InHand(u, i)
    BY <2>1, <2>2, Zenon DEF InHand, LivePC
  <2> QED
    BY <1>1, <2>1, <2>3, HandsOnlyShrink, Zenon
<1>8. ASSUME NEW t \in Threads, NEW i \in Instances, NEW k \in 1 .. gen[i],
             NEW place \in {"release", "fail"}, ReleaseCall(t, i, k, place)
      PROVE  Exclusive' /\ FreshIndexes'
  <2>1. UNCHANGED <<free, gen, nextIdx>>
    BY <1>8, Zenon DEF ReleaseCall, poolShared
  <2>2. ppc'[t] = place /\ \A u \in Threads : u # t => ppc'[u] = ppc[u] /\ pinst'[u] = pinst[u]
    BY <1>2, <1>8, Zenon DEF ReleaseCall
  <2> QED
    BY <1>1, <2>1, <2>2, HandsEmptied, Zenon DEF LivePC
<1>9. ASSUME NEW t \in Threads, AcquirePop(t) PROVE Exclusive' /\ FreshIndexes'
  <2>1. free # <<>> /\ free' = SubSeq(free, 1, Len(free) - 1) /\ UNCHANGED <<gen, nextIdx>>
    BY <1>9, Zenon DEF AcquirePop
  <2>2. /\ \A n \in 1 .. Len(free') :
              n \in 1 .. Len(free) /\ n # Len(free) /\ free'[n] = free[n]
        /\ Len(free) \in 1 .. Len(free)
        /\ free[Len(free)] \in Instances
    BY <1>3, <2>1, PopStack, Zenon
  <2>3. PICK i \in Instances : i = free[Len(free)]
    BY <2>2, Zenon
  <2>4. OnStack(i) /\ ~OnStack(i)' /\ \A j \in Instances : OnStack(j)' => OnStack(j)
    <3>1. \A n \in 1 .. Len(free') : free'[n] # i
      BY <1>1, <2>2, <2>3, Zenon DEF Exclusive
    <3> QED
      BY <2>2, <2>3, <3>1, Zenon DEF OnStack
  <2>5. ~IsBusy(i) /\ \A u \in Threads : ~InHand(u, i)
    BY <1>1, <2>4, Zenon DEF Exclusive
  <2>6. \A j \in Instances : IsBusy(j)' <=> IsBusy(j)
    BY <2>1, Zenon DEF IsBusy
  <2>7. \A u \in Threads, j \in Instances :
            InHand(u, j)' => (InHand(u, j) /\ u # t) \/ (u = t /\ j = i)
    BY <1>2, <1>9, <2>3, Zenon DEF AcquirePop, InHand
  <2>8. Exclusive'
    <3>1. \A m, n \in 1 .. Len(free') : free'[m] = free'[n] => m = n
      BY <1>1, <2>2, Zenon DEF Exclusive
    <3>2. \A j \in Instances : OnStack(j)' => ~IsBusy(j)'
      BY <1>1, <2>4, <2>6, Zenon DEF Exclusive
    <3>3. \A u \in Threads, j \in Instances :
              InHand(u, j)' => /\ ~IsBusy(j)' /\ ~OnStack(j)'
                               /\ \A v \in Threads : InHand(v, j)' => v = u
      BY <1>1, <2>4, <2>5, <2>6, <2>7 DEF Exclusive
    <3> QED
      BY <3>1, <3>2, <3>3, Zenon DEF Exclusive
  <2>9. i < nextIdx
    BY <1>1, <1>3, <2>4, Created, Zenon
  <2>10. FreshIndexes'
    <3>1. \A j \in Instances : j >= nextIdx => j # i
      BY <1>3, <2>9, InstancesAreNat
    <3> QED
      BY <1>1, <2>1, <2>4, <2>7, <3>1, Zenon DEF FreshIndexes
  <2> QED
    BY <2>8, <2>10, Zenon
<1>10. ASSUME NEW t \in Threads, AcquireReserve(t) PROVE Exclusive' /\ FreshIndexes'
  <2>1. /\ free = <<>> /\ UNCHANGED <<gen, free>> /\ nextIdx' = nextIdx + 1
        /\ nextIdx < MaxIdx
    BY <1>10, Zenon DEF AcquireReserve
  <2>2. nextIdx \in Instances
    BY <1>3, <2>1, MaxIdxAssumption DEF Instances
  <2>3. gen[nextIdx] = 0 /\ \A u \in Threads : ~InHand(u, nextIdx)
    BY <1>1, <1>3, <2>2 DEF FreshIndexes
  <2>4. \A j \in Instances : (IsBusy(j)' <=> IsBusy(j)) /\ ~OnStack(j)'
    BY <2>1 DEF IsBusy, OnStack
  <2>5. ~IsBusy(nextIdx)
    BY <2>3 DEF IsBusy
  <2>6. \A u \in Threads, j \in Instances :
            InHand(u, j)' => (InHand(u, j) /\ u # t) \/ (u = t /\ j = nextIdx)
    BY <1>2, <1>10, Zenon DEF AcquireReserve, InHand
  <2>7. Exclusive'
    <3>1. \A m, n \in 1 .. Len(free') : free'[m] = free'[n] => m = n
      BY <1>1, <2>1 DEF Exclusive
    <3>2. \A u \in Threads, j \in Instances :
              InHand(u, j)' => /\ ~IsBusy(j)' /\ ~OnStack(j)'
                               /\ \A v \in Threads : InHand(v, j)' => v = u
      BY <1>1, <2>3, <2>4, <2>5, <2>6 DEF Exclusive
    <3> QED
      BY <2>4, <3>1, <3>2, Zenon DEF Exclusive
  <2>8. \A j \in Instances : j >= nextIdx' => j >= nextIdx /\ j # nextIdx
    BY <1>3, <2>1, InstancesAreNat
  <2>9. FreshIndexes'
    BY <1>1, <2>1, <2>4, <2>6, <2>8, Zenon DEF FreshIndexes
  <2> QED
    BY <2>7, <2>9, Zenon
<1>11. ASSUME NEW t \in Threads, AcquireMark(t) PROVE Exclusive' /\ FreshIndexes'
  <2> DEFINE i == pinst[t]
  <2>1. ppc[t] = "mark" /\ UNCHANGED <<free, nextIdx, pinst>>
    BY <1>11, Zenon DEF AcquireMark
  <2>2. i \in Instances /\ InHand(t, i)
    BY <1>4, <2>1, Zenon DEF InstPC, InHand, LivePC
  <2>3. ~OnStack(i) /\ i < nextIdx /\ \A u \in Threads : InHand(u, i) => u = t
    BY <1>1, <1>3, <2>2, Created, Zenon DEF Exclusive
  <2>4. gen' = [gen EXCEPT ![i] = gen[i] + 1]
    BY <1>11, Zenon DEF AcquireMark
  <2>5. ppc'[t] = "ret" /\ \A u \in Threads : u # t => ppc'[u] = ppc[u]
    BY <1>2, <1>11, Zenon DEF AcquireMark
  <2>6. \A u \in Threads, j \in Instances : InHand(u, j)' => InHand(u, j) /\ u # t
    BY <2>1, <2>5, Zenon DEF InHand, LivePC
  <2> HIDE DEF i
  <2>7. \A j \in Instances : j # i => gen'[j] = gen[j] /\ (IsBusy(j)' <=> IsBusy(j))
    BY <1>3, <2>2, <2>4, GenAdvances, Zenon
  <2>8. \A j \in Instances : OnStack(j)' <=> OnStack(j)
    BY <2>1, Zenon DEF OnStack
  <2>9. Exclusive'
    <3>1. \A m, n \in 1 .. Len(free') : free'[m] = free'[n] => m = n
      BY <1>1, <2>1, Zenon DEF Exclusive
    <3>2. \A j \in Instances : OnStack(j)' => ~IsBusy(j)'
      BY <1>1, <2>3, <2>7, <2>8, Zenon DEF Exclusive
    <3>3. \A u \in Threads, j \in Instances :
              InHand(u, j)' => /\ ~IsBusy(j)' /\ ~OnStack(j)'
                               /\ \A v \in Threads : InHand(v, j)' => v = u
      BY <1>1, <2>3, <2>6, <2>7, <2>8, SMTT(20) DEF Exclusive
    <3> QED
      BY <3>1, <3>2, <3>3, Zenon DEF Exclusive
  <2>10. FreshIndexes'
    <3>1. \A j \in Instances : j >= nextIdx => j # i
      BY <1>3, <2>3, InstancesAreNat
    <3> QED
      BY <1>1, <2>1, <2>6, <2>7, <2>8, <3>1, Zenon DEF FreshIndexes
  <2> QED
    BY <2>9, <2>10, Zenon
<1>12. ASSUME NEW t \in Threads, ReleaseCAS(t) \/ ReleaseFailedCAS(t)
       PROVE  Exclusive' /\ FreshIndexes'
  BY <1>0, <1>12, MustReleaseTakes, Zenon DEF ReleaseCAS, ReleaseFailedCAS
<1>13. ASSUME NEW t \in Threads, ReleasePush(t) PROVE Exclusive' /\ FreshIndexes'
  <2> DEFINE i == pinst[t]
  <2>1. ppc[t] = "relLock" /\ UNCHANGED <<gen, nextIdx, pinst>>
    BY <1>13, Zenon DEF ReleasePush, Goto
  <2>2. i \in Instances /\ InHand(t, i)
    BY <1>4, <2>1, Zenon DEF InstPC, InHand, LivePC
  <2>3. \A u \in Threads : u # t => ppc'[u] = ppc[u]
    BY <1>2, <1>13, Zenon DEF ReleasePush, Goto
  <2>4. CASE closed
    <3>1. UNCHANGED free
      BY <1>13, <2>4, Zenon DEF ReleasePush
    <3>2. \A u \in Threads, j \in Instances : InHand(u, j)' => InHand(u, j)
      BY <2>1, <2>3, Zenon DEF InHand, LivePC
    <3> QED
      BY <1>1, <2>1, <3>1, <3>2, HandsOnlyShrink, Zenon
  <2>5. CASE ~closed
    <3>1. free' = Append(free, i) /\ ppc'[t] = "slot"
      BY <1>2, <1>13, <2>5, Zenon DEF ReleasePush, Goto
    <3>2. \A u \in Threads, j \in Instances : InHand(u, j)' => InHand(u, j) /\ u # t
      BY <2>1, <2>3, <3>1, Zenon DEF InHand, LivePC
    <3>3. /\ ~OnStack(i) /\ ~IsBusy(i) /\ i < nextIdx
          /\ \A u \in Threads : InHand(u, i) => u = t
      BY <1>1, <1>3, <2>2, Created, Zenon DEF Exclusive
    <3> HIDE DEF i
    <3>4. /\ Len(free') = Len(free) + 1 /\ Len(free) \in Nat
          /\ \A n \in 1 .. Len(free) : free'[n] = free[n]
          /\ free'[Len(free) + 1] = i
      <4>1. /\ Len(Append(free, i)) = Len(free) + 1 /\ Len(free) \in Nat
            /\ \A n \in 1 .. Len(free) : Append(free, i)[n] = free[n]
            /\ Append(free, i)[Len(free) + 1] = i
        BY <1>3, <2>2, AppendProperties
      <4> QED
        BY <3>1, <4>1, Zenon
    <3>5. \A n \in 1 .. Len(free') : n \in 1 .. Len(free) \/ n = Len(free) + 1
      BY <3>4
    <3>6. \A j \in Instances : OnStack(j)' => OnStack(j) \/ j = i
      BY <3>4, <3>5, Zenon DEF OnStack
    <3>7. \A j \in Instances : IsBusy(j)' <=> IsBusy(j)
      BY <2>1, Zenon DEF IsBusy
    <3>8. \A m, n \in 1 .. Len(free') : free'[m] = free'[n] => m = n
      <4>1. \A p \in 1 .. Len(free) : free[p] # i
        BY <3>3, Zenon DEF OnStack
      <4>2. \A m, n \in 1 .. Len(free) : free[m] = free[n] => m = n
        BY <1>1, Zenon DEF Exclusive
      <4> QED
        BY <3>4, <3>5, <4>1, <4>2, Zenon
    <3>9. \A u \in Threads, j \in Instances :
              InHand(u, j)' => /\ ~IsBusy(j)' /\ ~OnStack(j)'
                               /\ \A v \in Threads : InHand(v, j)' => v = u
      BY <1>1, <3>2, <3>3, <3>6, <3>7, SMTT(20) DEF Exclusive
    <3>10. \A j \in Instances : OnStack(j)' => ~IsBusy(j)'
      BY <1>1, <3>3, <3>6, <3>7, Zenon DEF Exclusive
    <3>11. Exclusive'
      BY <3>8, <3>9, <3>10, Zenon DEF Exclusive
    <3>12. \A j \in Instances : j >= nextIdx => j # i
      BY <1>3, <3>3, InstancesAreNat
    <3>13. FreshIndexes'
      BY <1>1, <2>1, <3>2, <3>6, <3>12, Zenon DEF FreshIndexes
    <3> QED
      BY <3>11, <3>13, Zenon
  <2> QED
    BY <2>4, <2>5, Zenon
<1>14. ASSUME NEW t \in Threads, NEW i \in Instances, NEW k \in 1 .. gen[i],
              Abandon(t, i, k)
       PROVE  Exclusive' /\ FreshIndexes'
  <2>1. UNCHANGED <<free, nextIdx, ppc, pinst>>
    BY <1>14, Zenon DEF Abandon
  <2>2. \A u \in Threads, j \in Instances : InHand(u, j)' => InHand(u, j)
    BY <2>1, Zenon DEF InHand
  <2>3. CASE gen[i] # k
    <3>1. UNCHANGED gen
      BY <1>14, <2>3, Zenon DEF Abandon
    <3> QED
      BY <1>1, <2>1, <2>2, <3>1, HandsOnlyShrink, Zenon
  <2>4. CASE gen[i] = k
    <3>1. gen' = [gen EXCEPT ![i] = gen[i] + 1]
      BY <1>14, <2>4, Zenon DEF Abandon
    <3>2. IsBusy(i)
      BY <1>14, <2>4, Zenon DEF Abandon, Issued, IsBusy
    <3> QED
      BY <1>1, <1>3, <2>1, <2>2, <3>1, <3>2, HolderGivesUp, Zenon
  <2> QED
    BY <2>3, <2>4, Zenon
<1>15. ASSUME NEW t \in Threads, CloseMark(t) PROVE Exclusive' /\ FreshIndexes'
  <2>1. UNCHANGED <<gen, nextIdx, pinst>> /\ free' = <<>>
    BY <1>15, Zenon DEF CloseMark, Goto
  <2>2. ppc'[t] = "closeCh" /\ \A u \in Threads : u # t => ppc'[u] = ppc[u]
    BY <1>2, <1>15, Zenon DEF CloseMark, Goto
  <2>3. \A j \in Instances : ~OnStack(j)' /\ (IsBusy(j)' <=> IsBusy(j))
    BY <2>1 DEF OnStack, IsBusy
  <2>4. \A u \in Threads, j \in Instances : InHand(u, j)' => InHand(u, j)
    BY <2>1, <2>2, Zenon DEF InHand, LivePC
  <2>5. \A m, n \in 1 .. Len(free') : free'[m] = free'[n] => m = n
    BY <2>1
  <2>6. Exclusive'
    BY <1>1, <2>3, <2>4, <2>5, Zenon DEF Exclusive
  <2>7. FreshIndexes'
    BY <1>1, <2>1, <2>3, <2>4, Zenon DEF FreshIndexes
  <2> QED
    BY <2>6, <2>7, Zenon
<1>16. ASSUME NEW t \in Threads, PoolStep(t) PROVE Exclusive' /\ FreshIndexes'
  BY <1>6, <1>7, <1>9, <1>10, <1>11, <1>12, <1>13, <1>15, <1>16, ZenonT(30) DEF PoolStep
<1>17. ASSUME NEW t \in Threads, PoolEnv(t) PROVE Exclusive' /\ FreshIndexes'
  BY <1>6, <1>8, <1>14, <1>17, ZenonT(30) DEF PoolEnv
<1> QED
  BY <1>0, <1>5, <1>6, <1>16, <1>17, ZenonT(30) DEF PoolNext

LEMMA ExclInvariant == PoolSpec => []ExclInv
<1>1. PoolInit => ExclInv
  BY TypeInvInit, ExclInit, Zenon DEF ExclInv
<1>2. ExclInv /\ [PoolNext]_poolVars => ExclInv'
  BY TypeInvStep, ExclStep, Zenon DEF ExclInv
<1> QED
  BY <1>1, <1>2, PTL DEF PoolSpec

(* The pool hands an instance to one caller at a time: it is never free    *)
(* twice, never free while acquired, never in the hands of two methods.    *)
THEOREM PoolExclusive == PoolSpec => []Exclusive
  BY ExclInvariant, PTL DEF ExclInv

-----------------------------------------------------------------------------
(* What Shutdown finds in p.all.                                           *)

TrackInv == ExclInv /\ AllTracked

(* What a step has to do to keep every running instance in p.all: an       *)
(* instance that becomes busy, free or held must be there already.         *)
LEMMA TrackedKept ==
    ASSUME AllTracked, NEW t \in Threads, nextIdx \in Nat, nextIdx' \in Nat,
           all \subseteq Instances, all \subseteq all', nextIdx <= nextIdx',
           \A i \in all' : i \in all \/ i < nextIdx',
           \A i \in Instances :
               IsBusy(i)' \/ OnStack(i)' => IsBusy(i) \/ OnStack(i) \/ i \in all',
           \A u \in Threads : u # t => ppc'[u] = ppc[u] /\ pinst'[u] = pinst[u],
           ppc'[t] \in LivePC \ {"factory"} => pinst'[t] \in all'
    PROVE  AllTracked'
<1>1. \A i \in Instances : IsBusy(i)' \/ OnStack(i)' => i \in all'
  BY Zenon DEF AllTracked
<1>2. \A u \in Threads : ppc'[u] \in LivePC \ {"factory"} => pinst'[u] \in all'
  BY Zenon DEF AllTracked
<1>3. \A i \in all' : i < nextIdx'
  <2>1. \A i \in all : i \in Nat /\ i < nextIdx
    BY InstancesAreNat, Zenon DEF AllTracked
  <2>2. \A i \in all : i < nextIdx'
    BY <2>1
  <2> QED
    BY <2>2, Zenon
<1> QED
  BY <1>1, <1>2, <1>3, Zenon DEF AllTracked

(* Steps that hand out and free nothing.                                   *)
LEMMA TrackedIdle ==
    ASSUME AllTracked, NEW t \in Threads, nextIdx \in Nat, nextIdx' \in Nat,
           all \subseteq Instances, nextIdx <= nextIdx', UNCHANGED <<all, gen>>,
           free' = free \/ free' = <<>>,
           \A u \in Threads : u # t => ppc'[u] = ppc[u] /\ pinst'[u] = pinst[u],
           ppc'[t] \notin LivePC \ {"factory"}
    PROVE  AllTracked'
<1>1. \A i \in Instances : (IsBusy(i)' => IsBusy(i)) /\ (OnStack(i)' => OnStack(i))
  BY DEF IsBusy, OnStack
<1> QED
  BY <1>1, TrackedKept, Zenon

LEMMA TrackInit == PoolInit => AllTracked
<1>0. SUFFICES ASSUME PoolInit PROVE AllTracked
  BY Zenon
<1>1. \A i \in Instances : ~IsBusy(i) /\ ~OnStack(i)
  BY <1>0 DEF PoolInit, IsBusy, OnStack
<1>2. all = {} /\ \A t \in Threads : ppc[t] \notin LivePC
  BY <1>0, Zenon DEF PoolInit, LivePC
<1> QED
  BY <1>1, <1>2, Zenon DEF AllTracked

(* mustRelease moves an acquired instance, which p.all has, to the hands   *)
(* of the releasing goroutine.                                             *)
LEMMA TrackMustRelease ==
    ASSUME TrackInv, NEW t \in Threads, ppc[t] \in {"release", "fail"},
           NEW after \in {"relLock", "failStop"}, MustRelease(t, after)
    PROVE  AllTracked'
<1>1. TypeInv /\ AllTracked /\ all \subseteq Instances
  BY Zenon DEF TrackInv, ExclInv, TypeInv, PoolTypeOK
<1>2. ppc \in [Threads -> PoolPC] /\ gen \in [Instances -> Nat] /\ nextIdx \in Nat
  BY <1>1, LeanTypes, Zenon
<1>3. pinst[t] \in Instances /\ Issued(pinst[t], ptok[t])
  BY <1>1, Zenon DEF TypeInv, Frames, InstPC
<1>4. UNCHANGED <<free, nextIdx, pinst, all>> /\ nextIdx <= nextIdx'
  BY <1>2 DEF MustRelease
<1>5. \A u \in Threads : u # t => ppc'[u] = ppc[u]
  BY <1>2, Zenon DEF MustRelease
<1>6. \A i \in Instances : OnStack(i)' => OnStack(i)
  BY <1>4, Zenon DEF OnStack
<1>7. CASE gen[pinst[t]] # ptok[t]
  <2>1. UNCHANGED gen /\ ppc'[t] = "ret"
    BY <1>2, <1>7, Zenon DEF MustRelease
  <2> QED
    BY <1>1, <1>2, <1>4, <1>5, <2>1, TrackedIdle, Zenon DEF LivePC
<1>8. CASE gen[pinst[t]] = ptok[t]
  <2>1. IsBusy(pinst[t])
    BY <1>3, <1>8, Zenon DEF Issued, IsBusy
  <2>2. gen' = [gen EXCEPT ![pinst[t]] = gen[pinst[t]] + 1]
    BY <1>8, Zenon DEF MustRelease
  <2>3. \A i \in Instances : IsBusy(i)' => IsBusy(i)
    BY <1>2, <1>3, <2>1, <2>2, GenAdvances, Zenon
  <2>4. pinst'[t] \in all'
    BY <1>1, <1>3, <1>4, <2>1, Zenon DEF AllTracked
  <2> QED
    BY <1>1, <1>2, <1>4, <1>5, <1>6, <2>3, <2>4, TrackedKept, Zenon
<1> QED
  BY <1>7, <1>8, Zenon

LEMMA TrackStep == TrackInv /\ [PoolNext]_poolVars => AllTracked'
<1>0. SUFFICES ASSUME TrackInv, [PoolNext]_poolVars PROVE AllTracked'
  BY Zenon
<1>1. TypeInv /\ Exclusive /\ FreshIndexes /\ AllTracked
  BY <1>0, Zenon DEF TrackInv, ExclInv
<1>2. /\ ppc \in [Threads -> PoolPC] /\ pinst \in [Threads -> Instances \cup {NoInst}]
      /\ \A t \in Threads : ppc[t] \in InstPC => pinst[t] \in Instances
  BY <1>1, LeanTypes, Zenon
<1>3. gen \in [Instances -> Nat] /\ free \in Seq(Instances) /\ nextIdx \in Nat
  BY <1>1, LeanTypes, Zenon
<1>4. AllTracked /\ nextIdx \in Nat /\ all \subseteq Instances
  BY <1>1, <1>3, Zenon DEF TypeInv, PoolTypeOK
<1>5. CASE UNCHANGED poolVars
  <2>1. UNCHANGED <<gen, free, all, nextIdx, ppc, pinst>>
    BY <1>5, Zenon DEF poolVars, poolShared
  <2> QED
    BY <1>4, <2>1, Zenon DEF AllTracked, IsBusy, OnStack
<1>6. ASSUME NEW t \in Threads,
             \/ AcquireCall(t) \/ AcquireCtxDone(t) \/ AcquireSlot(t) \/ AcquireClosed(t)
             \/ AcquireLockClosed(t) \/ AcquireFactoryErr(t) \/ CloseCall(t) \/ CloseMark(t)
             \/ CloseChannel(t) \/ PoolConsume(t) \/ PoolStopDone(t)
             \/ SlotBack(t) \/ SlotBackThenStop(t)
      PROVE  AllTracked'
  <2>1. UNCHANGED <<gen, all, nextIdx>> /\ (free' = free \/ free' = <<>>)
    BY <1>6, Zenon
    DEF AcquireCall, AcquireCtxDone, AcquireSlot, AcquireClosed, AcquireLockClosed,
        AcquireFactoryErr, SlotBack, SlotBackThenStop, ReturnSlot,
        PoolStopDone, PoolConsume, CloseCall, CloseMark, CloseChannel, poolShared
  <2>2. PICK place \in {"select", "lock", "ret", "slot", "close", "closeCh", "idle", "stopRet"} :
          ppc' = [ppc EXCEPT ![t] = place]
    BY <1>6, Zenon
    DEF AcquireCall, AcquireCtxDone, AcquireSlot, AcquireClosed, AcquireLockClosed,
        AcquireFactoryErr, SlotBack, SlotBackThenStop, ReturnSlot,
        PoolStopDone, PoolConsume, CloseCall, CloseMark, CloseChannel, Goto, Return
  <2>3. \A u \in Threads : u # t => pinst'[u] = pinst[u]
    BY <1>2, <1>6, Zenon
    DEF AcquireCall, AcquireCtxDone, AcquireSlot, AcquireClosed, AcquireLockClosed,
        AcquireFactoryErr, SlotBack, SlotBackThenStop, ReturnSlot,
        PoolStopDone, PoolConsume, CloseCall, CloseMark, CloseChannel, Goto, Return
  <2>4. ppc'[t] \notin LivePC \ {"factory"} /\ \A u \in Threads : u # t => ppc'[u] = ppc[u]
    BY <1>2, <2>2, Zenon DEF LivePC
  <2> QED
    BY <1>4, <2>1, <2>3, <2>4, TrackedIdle, SMTT(20)
<1>7. ASSUME NEW t \in Threads, NEW i \in Instances, NEW k \in 1 .. gen[i],
             NEW place \in {"release", "fail"}, ReleaseCall(t, i, k, place)
      PROVE  AllTracked'
  <2>1. UNCHANGED <<gen, free, all, nextIdx>>
    BY <1>7, Zenon DEF ReleaseCall, poolShared
  <2>2. ppc'[t] = place /\ \A u \in Threads : u # t => ppc'[u] = ppc[u] /\ pinst'[u] = pinst[u]
    BY <1>2, <1>7, Zenon DEF ReleaseCall
  <2> QED
    BY <1>4, <2>1, <2>2, TrackedIdle DEF LivePC
<1>8. ASSUME NEW t \in Threads, AcquireReserve(t) PROVE AllTracked'
  <2>1. UNCHANGED <<gen, free, all>> /\ nextIdx' \in Nat /\ nextIdx <= nextIdx'
    BY <1>3, <1>8 DEF AcquireReserve
  <2>2. ppc'[t] = "factory" /\ \A u \in Threads : u # t => ppc'[u] = ppc[u] /\ pinst'[u] = pinst[u]
    BY <1>2, <1>8, Zenon DEF AcquireReserve
  <2> QED
    BY <1>4, <2>1, <2>2, TrackedIdle, Zenon
<1>9. ASSUME NEW t \in Threads, AcquirePop(t) PROVE AllTracked'
  <2>1. UNCHANGED <<gen, all, nextIdx>> /\ free # <<>> /\ free' = SubSeq(free, 1, Len(free) - 1)
    BY <1>9, Zenon DEF AcquirePop
  <2>2. /\ \A n \in 1 .. Len(free') : n \in 1 .. Len(free) /\ free'[n] = free[n]
        /\ Len(free) \in 1 .. Len(free) /\ free[Len(free)] \in Instances
    BY <1>3, <2>1, PopStack, Zenon
  <2>3. /\ pinst'[t] = free[Len(free)]
        /\ \A u \in Threads : u # t => ppc'[u] = ppc[u] /\ pinst'[u] = pinst[u]
    BY <1>2, <1>9, Zenon DEF AcquirePop
  <2>4. \A i \in Instances : (IsBusy(i)' => IsBusy(i)) /\ (OnStack(i)' => OnStack(i))
    BY <2>1, <2>2, Zenon DEF IsBusy, OnStack
  <2>5. pinst'[t] \in all
    BY <1>4, <2>2, <2>3, Zenon DEF AllTracked, OnStack
  <2> QED
    BY <1>4, <2>1, <2>3, <2>4, <2>5, TrackedKept
<1>10. ASSUME NEW t \in Threads, AcquireRegister(t) PROVE AllTracked'
  <2>1. /\ UNCHANGED <<gen, free, nextIdx, pinst>> /\ ppc[t] = "factory"
        /\ all' = all \cup {pinst[t]}
    BY <1>10, Zenon DEF AcquireRegister, Goto
  <2>2. \A u \in Threads : u # t => ppc'[u] = ppc[u]
    BY <1>2, <1>10, Zenon DEF AcquireRegister, Goto
  <2>3. pinst[t] \in Instances /\ InHand(t, pinst[t])
    BY <1>2, <2>1, Zenon DEF InstPC, InHand, LivePC
  <2>4. pinst[t] < nextIdx
    BY <1>1, <1>3, <2>3, Created, Zenon
  <2>5. \A i \in Instances : (IsBusy(i)' => IsBusy(i)) /\ (OnStack(i)' => OnStack(i))
    BY <2>1, Zenon DEF IsBusy, OnStack
  <2> QED
    BY <1>4, <2>1, <2>2, <2>4, <2>5, TrackedKept
<1>11. ASSUME NEW t \in Threads, AcquireMark(t) PROVE AllTracked'
  <2>1. UNCHANGED <<free, all, nextIdx, pinst>> /\ ppc[t] = "mark"
    BY <1>11, Zenon DEF AcquireMark
  <2>2. ppc'[t] = "ret" /\ \A u \in Threads : u # t => ppc'[u] = ppc[u]
    BY <1>2, <1>11, Zenon DEF AcquireMark
  <2>3. pinst[t] \in Instances /\ pinst[t] \in all
    BY <1>2, <1>4, <2>1, Zenon DEF InstPC, LivePC, AllTracked
  <2>4. gen' = [gen EXCEPT ![pinst[t]] = gen[pinst[t]] + 1]
    BY <1>11, Zenon DEF AcquireMark
  <2>5. \A i \in Instances : IsBusy(i)' => IsBusy(i) \/ i \in all
    BY <1>3, <2>3, <2>4, GenAdvances, Zenon
  <2>6. \A i \in Instances : OnStack(i)' => OnStack(i)
    BY <2>1, Zenon DEF OnStack
  <2> QED
    BY <1>4, <2>1, <2>2, <2>3, <2>5, <2>6, TrackedKept, SMTT(20) DEF LivePC
<1>12. ASSUME NEW t \in Threads, ReleaseCAS(t) \/ ReleaseFailedCAS(t) PROVE AllTracked'
  BY <1>0, <1>12, TrackMustRelease, Zenon DEF ReleaseCAS, ReleaseFailedCAS
<1>13. ASSUME NEW t \in Threads, ReleasePush(t) PROVE AllTracked'
  <2>1. UNCHANGED <<gen, all, nextIdx, pinst>> /\ ppc[t] = "relLock"
    BY <1>13, Zenon DEF ReleasePush, Goto
  <2>2. \A u \in Threads : u # t => ppc'[u] = ppc[u]
    BY <1>2, <1>13, Zenon DEF ReleasePush, Goto
  <2>3. pinst[t] \in Instances /\ pinst[t] \in all
    BY <1>2, <1>4, <2>1, Zenon DEF InstPC, LivePC, AllTracked
  <2>4. \A i \in Instances : OnStack(i)' => OnStack(i) \/ i = pinst[t]
    <3>1. free' = free \/ free' = Append(free, pinst[t])
      BY <1>13, Zenon DEF ReleasePush
    <3>2. /\ Len(Append(free, pinst[t])) = Len(free) + 1 /\ Len(free) \in Nat
          /\ \A n \in 1 .. Len(free) : Append(free, pinst[t])[n] = free[n]
          /\ Append(free, pinst[t])[Len(free) + 1] = pinst[t]
      BY <1>3, <2>3, AppendProperties
    <3>3. \A n \in 1 .. Len(free) + 1 : n \in 1 .. Len(free) \/ n = Len(free) + 1
      BY <3>2
    <3> QED
      BY <3>1, <3>2, <3>3, Zenon DEF OnStack
  <2>5. \A i \in Instances : IsBusy(i)' => IsBusy(i)
    BY <2>1, Zenon DEF IsBusy
  <2> QED
    BY <1>4, <2>1, <2>2, <2>3, <2>4, <2>5, TrackedKept, SMTT(20)
<1>14. ASSUME NEW t \in Threads, NEW i \in Instances, NEW k \in 1 .. gen[i],
              Abandon(t, i, k)
       PROVE  AllTracked'
  <2>1. UNCHANGED <<free, all, nextIdx, ppc, pinst>>
    BY <1>14, Zenon DEF Abandon
  <2>2. \A j \in Instances : IsBusy(j)' => IsBusy(j)
    <3>1. CASE gen[i] # k
      BY <1>14, <3>1, Zenon DEF Abandon, IsBusy
    <3>2. CASE gen[i] = k
      <4>1. gen' = [gen EXCEPT ![i] = gen[i] + 1]
        BY <1>14, <3>2, Zenon DEF Abandon
      <4>2. IsBusy(i)
        BY <1>14, <3>2, Zenon DEF Abandon, Issued, IsBusy
      <4> QED
        BY <1>3, <4>1, <4>2, GenAdvances, Zenon
    <3> QED
      BY <3>1, <3>2, Zenon
  <2> QED
    BY <1>4, <2>1, <2>2, Zenon DEF AllTracked, OnStack
<1>15. ASSUME NEW t \in Threads, PoolStep(t) PROVE AllTracked'
  BY <1>6, <1>8, <1>9, <1>10, <1>11, <1>12, <1>13, <1>15, ZenonT(30) DEF PoolStep
<1>16. ASSUME NEW t \in Threads, PoolEnv(t) PROVE AllTracked'
  BY <1>6, <1>7, <1>14, <1>16, ZenonT(30) DEF PoolEnv
<1> QED
  BY <1>0, <1>5, <1>6, <1>15, <1>16, ZenonT(30) DEF PoolNext

(* Every instance that can be running is in p.all, so Shutdown, which      *)
(* walks p.all, can stop it; and p.all never names an index the pool has   *)
(* not handed out.                                                         *)
THEOREM PoolAllTracked == PoolSpec => []AllTracked
<1>1. PoolInit => TrackInv
  BY TypeInvInit, ExclInit, TrackInit, Zenon DEF TrackInv, ExclInv
<1>2. TrackInv /\ [PoolNext]_poolVars => TrackInv'
  BY TypeInvStep, ExclStep, TrackStep, Zenon DEF TrackInv, ExclInv
<1> QED
  BY <1>1, <1>2, PTL DEF PoolSpec, TrackInv

-----------------------------------------------------------------------------
(* A step advances at most one generation; when it ends an acquisition,    *)
(* the step is a release by the goroutine that presents the current token. *)
LEMMA HolderStep == ExclInv /\ [PoolNext]_poolVars => [HolderReleases]_poolVars
<1>0. SUFFICES ASSUME ExclInv, PoolNext PROVE HolderReleases
  BY Zenon
<1>1. TypeInv /\ Exclusive
  BY <1>0, Zenon DEF ExclInv
<1>2. /\ gen \in [Instances -> Nat]
      /\ \A t \in Threads : ppc[t] \in InstPC => pinst[t] \in Instances
  BY <1>1, LeanTypes, Zenon
<1>3. ASSUME UNCHANGED gen PROVE HolderReleases
  BY <1>3, Zenon DEF HolderReleases
<1>4. ASSUME NEW i \in Instances, gen' = [gen EXCEPT ![i] = gen[i] + 1],
             IsBusy(i) /\ lost' = lost =>
               \E t \in Threads : /\ pinst[t] = i /\ ptok[t] = gen[i]
                                  /\ ppc[t] \in {"release", "fail"}
      PROVE  HolderReleases
  <2>1. gen'[i] = gen[i] + 1 /\ \A j \in Instances : j # i => gen'[j] = gen[j]
    BY <1>2, <1>4, Zenon
  <2> QED
    BY <1>4, <2>1, Zenon DEF HolderReleases
<1>5. ASSUME NEW t \in Threads,
             \/ AcquireSlot(t) \/ AcquireClosed(t) \/ AcquireLockClosed(t) \/ AcquirePop(t)
             \/ AcquireReserve(t) \/ AcquireRegister(t) \/ SlotBack(t) \/ SlotBackThenStop(t)
             \/ ReleasePush(t) \/ CloseMark(t) \/ CloseChannel(t) \/ PoolStopDone(t)
             \/ AcquireCall(t) \/ CloseCall(t) \/ PoolConsume(t) \/ AcquireCtxDone(t)
             \/ AcquireFactoryErr(t)
      PROVE  HolderReleases
  <2>1. UNCHANGED gen
    BY <1>5, Zenon
    DEF AcquireSlot, AcquireClosed, AcquireLockClosed, AcquirePop, AcquireReserve,
        AcquireRegister, SlotBack, SlotBackThenStop, ReturnSlot, ReleasePush, CloseMark,
        CloseChannel, PoolStopDone, AcquireCall, CloseCall, PoolConsume, AcquireCtxDone,
        AcquireFactoryErr, poolShared
  <2> QED
    BY <1>3, <2>1, Zenon
<1>6. ASSUME NEW t \in Threads, NEW i \in Instances, NEW k \in 1 .. gen[i],
             \/ ReleaseCall(t, i, k, "release") \/ ReleaseCall(t, i, k, "fail")
             \/ Abandon(t, i, k)
      PROVE  HolderReleases
  <2>1. CASE ReleaseCall(t, i, k, "release") \/ ReleaseCall(t, i, k, "fail")
    BY <1>3, <2>1, Zenon DEF ReleaseCall, poolShared
  <2>2. CASE Abandon(t, i, k)
    <3>1. \/ UNCHANGED gen
          \/ gen' = [gen EXCEPT ![i] = gen[i] + 1] /\ lost' = lost + 1
      BY <2>2, Zenon DEF Abandon
    <3>2. lost \in Nat
      BY <1>1, Zenon DEF TypeInv, PoolTypeOK
    <3>3. lost' = lost + 1 => lost' # lost
      BY <3>2
    <3> QED
      BY <1>3, <1>4, <3>1, <3>3, Zenon
  <2> QED
    BY <1>6, <2>1, <2>2, Zenon
<1>7. ASSUME NEW t \in Threads, AcquireMark(t) PROVE HolderReleases
  <2>1. ppc[t] = "mark" /\ gen' = [gen EXCEPT ![pinst[t]] = gen[pinst[t]] + 1]
    BY <1>7, Zenon DEF AcquireMark
  <2>2. pinst[t] \in Instances /\ InHand(t, pinst[t])
    BY <1>2, <2>1, Zenon DEF InstPC, InHand, LivePC
  <2>3. ~IsBusy(pinst[t])
    BY <1>1, <2>2, Zenon DEF Exclusive
  <2> QED
    BY <1>4, <2>1, <2>2, <2>3, Zenon
<1>8. ASSUME NEW t \in Threads, ReleaseCAS(t) \/ ReleaseFailedCAS(t) PROVE HolderReleases
  <2>1. PICK after \in {"relLock", "failStop"} :
          ppc[t] \in {"release", "fail"} /\ MustRelease(t, after)
    BY <1>8, Zenon DEF ReleaseCAS, ReleaseFailedCAS
  <2>2. pinst[t] \in Instances
    BY <1>2, <2>1, Zenon DEF InstPC
  <2>3. \/ UNCHANGED gen
        \/ gen[pinst[t]] = ptok[t] /\ gen' = [gen EXCEPT ![pinst[t]] = gen[pinst[t]] + 1]
    BY <2>1, Zenon DEF MustRelease
  <2> QED
    BY <1>3, <1>4, <2>1, <2>2, <2>3, Zenon
<1>9. ASSUME NEW t \in Threads, PoolStep(t) PROVE HolderReleases
  BY <1>5, <1>7, <1>8, <1>9, ZenonT(30) DEF PoolStep
<1>10. ASSUME NEW t \in Threads, PoolEnv(t) PROVE HolderReleases
  BY <1>5, <1>6, <1>10, ZenonT(30) DEF PoolEnv
<1> QED
  BY <1>0, <1>5, <1>9, <1>10, ZenonT(30) DEF PoolNext

(* A token ends only the acquisition it was issued for: double, late and   *)
(* foreign Release and ReleaseFailed calls change no generation.           *)
THEOREM PoolOnlyHolderReleases == PoolSpec => OnlyHolderReleases
  BY ExclInvariant, HolderStep, PTL DEF PoolSpec, OnlyHolderReleases

-----------------------------------------------------------------------------
(* The slots of the semaphore: counting, on top of exclusion.              *)

(* Two finite sets that differ at most in x differ by x in cardinality.    *)
LEMMA MoveCounts ==
    ASSUME NEW A, NEW B, NEW x, IsFiniteSet(A), IsFiniteSet(B), A \ {x} = B \ {x}
    PROVE  /\ Cardinality(A) \in Nat
           /\ Cardinality(B) \in Nat
           /\ x \in A /\ x \notin B => Cardinality(B) = Cardinality(A) - 1
           /\ x \notin A /\ x \in B => Cardinality(B) = Cardinality(A) + 1
           /\ (x \in A <=> x \in B) => Cardinality(B) = Cardinality(A)
<1>1. Cardinality(A) \in Nat /\ Cardinality(B) \in Nat
  BY FS_CardinalityType, Zenon
<1>2. ASSUME x \in A, x \notin B PROVE Cardinality(B) = Cardinality(A) - 1
  <2>1. B = A \ {x}
    BY <1>2, Zenon
  <2> QED
    BY <1>2, <2>1, FS_RemoveElement, Zenon
<1>3. ASSUME x \notin A, x \in B PROVE Cardinality(B) = Cardinality(A) + 1
  <2>1. B = A \cup {x}
    BY <1>3, Zenon
  <2> QED
    BY <1>3, <2>1, FS_AddElement, Zenon
<1>4. ASSUME x \in A <=> x \in B PROVE Cardinality(B) = Cardinality(A)
  <2>1. B = A
    BY <1>4
  <2> QED
    BY <2>1, Zenon
<1> QED
  BY <1>1, <1>2, <1>3, <1>4, Zenon

LEMMA InstancesFinite == IsFiniteSet(Instances)
  BY FS_Interval, MaxIdxAssumption DEF Instances

(* What the conservation laws count is finite.                             *)
LEMMA Counted ==
    /\ IsFiniteSet(SlotThreads) /\ IsFiniteSet(LiveThreads) /\ IsFiniteSet(Busy)
    /\ Cardinality(SlotThreads) \in Nat
    /\ Cardinality(LiveThreads) \in Nat
    /\ Cardinality(Busy) \in Nat
<1>1. /\ SlotThreads \in SUBSET Threads /\ LiveThreads \in SUBSET Threads
      /\ Busy \in SUBSET Instances
  BY Zenon DEF SlotThreads, LiveThreads, Busy
<1>2. IsFiniteSet(SlotThreads) /\ IsFiniteSet(LiveThreads) /\ IsFiniteSet(Busy)
  BY <1>1, InstancesFinite, ThreadsAssumption, FS_Subset, Zenon
<1> QED
  BY <1>2, FS_CardinalityType, Zenon

LEMMA CountedNext ==
    /\ IsFiniteSet(SlotThreads') /\ IsFiniteSet(LiveThreads') /\ IsFiniteSet(Busy')
    /\ Cardinality(SlotThreads') \in Nat
    /\ Cardinality(LiveThreads') \in Nat
    /\ Cardinality(Busy') \in Nat
<1>1. /\ SlotThreads' \in SUBSET Threads /\ LiveThreads' \in SUBSET Threads
      /\ Busy' \in SUBSET Instances
  BY Zenon DEF SlotThreads, LiveThreads, Busy
<1>2. IsFiniteSet(SlotThreads') /\ IsFiniteSet(LiveThreads') /\ IsFiniteSet(Busy')
  BY <1>1, InstancesFinite, ThreadsAssumption, FS_Subset, Zenon
<1> QED
  BY <1>2, FS_CardinalityType, Zenon

(* What moving one goroutine does to the number of goroutines with a slot  *)
(* and with a live instance.                                               *)
LEMMA SlotMoves ==
    ASSUME NEW t \in Threads, \A u \in Threads : u # t => ppc'[u] = ppc[u]
    PROVE  /\ ppc[t] \in SlotPC /\ ppc'[t] \notin SlotPC
                => Cardinality(SlotThreads') = Cardinality(SlotThreads) - 1
           /\ ppc[t] \notin SlotPC /\ ppc'[t] \in SlotPC
                => Cardinality(SlotThreads') = Cardinality(SlotThreads) + 1
           /\ (ppc[t] \in SlotPC <=> ppc'[t] \in SlotPC)
                => Cardinality(SlotThreads') = Cardinality(SlotThreads)
<1>1. IsFiniteSet(SlotThreads) /\ IsFiniteSet(SlotThreads')
  BY Counted, CountedNext, Zenon
<1>2. SlotThreads \ {t} = SlotThreads' \ {t}
  BY Zenon DEF SlotThreads
<1>3. /\ t \in SlotThreads <=> ppc[t] \in SlotPC
      /\ t \in SlotThreads' <=> ppc'[t] \in SlotPC
  BY Zenon DEF SlotThreads
<1> QED
  BY <1>1, <1>2, <1>3, MoveCounts, Zenon

LEMMA LiveMoves ==
    ASSUME NEW t \in Threads, \A u \in Threads : u # t => ppc'[u] = ppc[u]
    PROVE  /\ ppc[t] \in LivePC /\ ppc'[t] \notin LivePC
                => Cardinality(LiveThreads') = Cardinality(LiveThreads) - 1
           /\ ppc[t] \notin LivePC /\ ppc'[t] \in LivePC
                => Cardinality(LiveThreads') = Cardinality(LiveThreads) + 1
           /\ (ppc[t] \in LivePC <=> ppc'[t] \in LivePC)
                => Cardinality(LiveThreads') = Cardinality(LiveThreads)
<1>1. IsFiniteSet(LiveThreads) /\ IsFiniteSet(LiveThreads')
  BY Counted, CountedNext, Zenon
<1>2. LiveThreads \ {t} = LiveThreads' \ {t}
  BY Zenon DEF LiveThreads
<1>3. /\ t \in LiveThreads <=> ppc[t] \in LivePC
      /\ t \in LiveThreads' <=> ppc'[t] \in LivePC
  BY Zenon DEF LiveThreads
<1> QED
  BY <1>1, <1>2, <1>3, MoveCounts, Zenon

(* Advancing a generation acquires a free instance or frees an acquired    *)
(* one.                                                                    *)
LEMMA BusyMoves ==
    ASSUME gen \in [Instances -> Nat], NEW i \in Instances,
           gen' = [gen EXCEPT ![i] = gen[i] + 1]
    PROVE  /\ IsBusy(i) => Cardinality(Busy') = Cardinality(Busy) - 1
           /\ ~IsBusy(i) => Cardinality(Busy') = Cardinality(Busy) + 1
<1>1. IsFiniteSet(Busy) /\ IsFiniteSet(Busy')
  BY Counted, CountedNext, Zenon
<1>2. /\ IsBusy(i)' <=> ~IsBusy(i)
      /\ \A j \in Instances : j # i => (IsBusy(j)' <=> IsBusy(j))
  BY GenAdvances, Zenon
<1>3. \A j \in Instances : (j \in Busy <=> IsBusy(j)) /\ (j \in Busy' <=> IsBusy(j)')
  BY Zenon DEF Busy, IsBusy
<1>4. Busy \subseteq Instances /\ Busy' \subseteq Instances
  BY Zenon DEF Busy
<1>5. Busy \ {i} = Busy' \ {i}
  BY <1>2, <1>3, <1>4, Zenon
<1>6. (i \in Busy <=> IsBusy(i)) /\ (i \in Busy' <=> ~IsBusy(i))
  BY <1>2, <1>3, Zenon
<1> QED
  BY <1>1, <1>5, <1>6, MoveCounts, Zenon

SlotInv == ExclInv /\ SlotConservation /\ LiveBound

(* The numbers the conservation laws add up.                               *)
LEMMA SlotNumbers ==
    ASSUME TypeInv
    PROVE  sem \in Nat /\ lost \in Nat /\ Len(free) \in Nat
  BY MaxSizeAssumption DEF TypeInv, PoolTypeOK

(* A method that is about to return a slot finds room for it.              *)
LEMMA RoomForSlot ==
    ASSUME TypeInv, SlotConservation, Bounded, NEW t \in Threads, ppc[t] \in SlotPC
    PROVE  sem < MaxSize
<1>1. sem \in Nat /\ lost \in Nat
  BY SlotNumbers, Zenon
<1>2. t \in SlotThreads
  BY Zenon DEF SlotThreads
<1>3. Cardinality(SlotThreads) # 0
  BY <1>2, Counted, FS_EmptySet, Zenon
<1>4. sem + Cardinality(SlotThreads) + Cardinality(Busy) + lost = MaxSize
  BY Zenon DEF SlotConservation
<1>5. \A s, c, b, l, m \in Nat : s + c + b + l = m /\ c # 0 => s < m
  OBVIOUS
<1> QED
  BY <1>1, <1>3, <1>4, <1>5, Counted, MaxSizeAssumption, Zenon

(* Steps that leave the acquired instances alone, and neither take nor     *)
(* return a slot, and take no instance.                                    *)
LEMMA SlotsKept ==
    ASSUME TypeInv, SlotConservation, LiveBound, Bounded, NEW t \in Threads,
           \A u \in Threads : u # t => ppc'[u] = ppc[u],
           UNCHANGED <<gen, sem, lost>>,
           Len(free') \in Nat, Len(free') <= Len(free),
           ppc'[t] \in SlotPC <=> ppc[t] \in SlotPC,
           ppc'[t] \in LivePC => ppc[t] \in LivePC
    PROVE  SlotConservation' /\ LiveBound'
<1>1. Busy' = Busy
  BY Zenon DEF Busy, IsBusy
<1>2. Len(free) \in Nat
  BY SlotNumbers, Zenon
<1>3. Cardinality(SlotThreads') = Cardinality(SlotThreads)
  BY SlotMoves, Zenon
<1>4. Cardinality(LiveThreads') <= Cardinality(LiveThreads)
  BY LiveMoves, Counted, CountedNext
<1>5. SlotConservation'
  BY <1>1, <1>3, Zenon DEF SlotConservation
<1>6. Len(free) + Cardinality(Busy) + Cardinality(LiveThreads) <= MaxSize
  BY Zenon DEF LiveBound
<1>7. Len(free') + Cardinality(Busy) + Cardinality(LiveThreads') <= MaxSize
  BY <1>2, <1>4, <1>6, Counted, CountedNext, MaxSizeAssumption, SMTT(20)
<1>8. LiveBound'
  BY <1>1, <1>7, Zenon DEF LiveBound
<1> QED
  BY <1>5, <1>8, Zenon

(* mustRelease turns an acquired instance into a slot in the hands of the  *)
(* releasing goroutine.                                                    *)
LEMMA MustReleaseCounts ==
    ASSUME SlotInv, Bounded, NEW t \in Threads, ppc[t] \in {"release", "fail"},
           NEW after \in {"relLock", "failStop"}, MustRelease(t, after)
    PROVE  SlotConservation' /\ LiveBound'
<1> DEFINE i == pinst[t]
<1>1. TypeInv /\ SlotConservation /\ LiveBound
  BY Zenon DEF SlotInv, ExclInv
<1>2. i \in Instances /\ gen \in [Instances -> Nat] /\ ppc \in [Threads -> PoolPC]
  BY <1>1, LeanTypes, Zenon DEF InstPC
<1>3. sem \in Nat /\ lost \in Nat /\ Len(free) \in Nat
  BY <1>1, SlotNumbers, Zenon
<1>4. UNCHANGED <<sem, lost, free>> /\ \A u \in Threads : u # t => ppc'[u] = ppc[u]
  BY <1>2, Zenon DEF MustRelease
<1>5. CASE gen[i] # ptok[t]
  <2>1. ppc'[t] = "ret" /\ UNCHANGED gen
    BY <1>2, <1>5, Zenon DEF MustRelease
  <2>2. (ppc'[t] \in SlotPC <=> ppc[t] \in SlotPC) /\ ppc'[t] \notin LivePC
    BY <2>1, Zenon DEF SlotPC, LivePC
  <2> QED
    BY <1>1, <1>3, <1>4, <2>1, <2>2, SlotsKept
<1>6. CASE gen[i] = ptok[t]
  <2>1. IsBusy(i)
    BY <1>1, <1>6, Zenon DEF TypeInv, Frames, Issued, IsBusy
  <2>2. gen' = [gen EXCEPT ![i] = gen[i] + 1]
    BY <1>6, Zenon DEF MustRelease
  <2>3. ppc'[t] = after
    BY <1>2, <1>6, Zenon DEF MustRelease
  <2> HIDE DEF i
  <2>4. Cardinality(Busy') = Cardinality(Busy) - 1
    BY <1>2, <2>1, <2>2, BusyMoves, Zenon
  <2>5. Cardinality(SlotThreads') = Cardinality(SlotThreads) + 1
    BY <1>4, <2>3, SlotMoves, Zenon DEF SlotPC
  <2>6. Cardinality(LiveThreads') = Cardinality(LiveThreads) + 1
    BY <1>4, <2>3, LiveMoves, Zenon DEF LivePC
  <2>7. SlotConservation'
    BY <1>1, <1>3, <1>4, <2>4, <2>5, Counted, CountedNext DEF SlotConservation
  <2>8. LiveBound'
    BY <1>1, <1>3, <1>4, <2>4, <2>6, Counted, CountedNext DEF LiveBound
  <2> QED
    BY <2>7, <2>8, Zenon
<1> QED
  BY <1>5, <1>6, Zenon

(* returnSlot puts one slot back.                                          *)
LEMMA ReturnSlotCounts ==
    ASSUME SlotInv, Bounded, NEW t \in Threads, ppc[t] \in {"slot", "slotStop"},
           NEW after \in {"ret", "stopRet"}, NEW result, ReturnSlot(t, after, result)
    PROVE  SlotConservation' /\ LiveBound'
<1>1. TypeInv /\ SlotConservation /\ LiveBound
  BY Zenon DEF SlotInv, ExclInv
<1>2. ppc \in [Threads -> PoolPC]
  BY <1>1, LeanTypes, Zenon
<1>3. sem \in Nat /\ lost \in Nat /\ Len(free) \in Nat
  BY <1>1, SlotNumbers, Zenon
<1>4. sem < MaxSize
  BY <1>1, RoomForSlot, Zenon DEF SlotPC
<1>5. sem' = sem + 1 /\ UNCHANGED <<gen, lost, free>>
  BY <1>4, Zenon DEF ReturnSlot
<1>6. ppc'[t] = after /\ \A u \in Threads : u # t => ppc'[u] = ppc[u]
  BY <1>2, <1>3, <1>4, MaxSizeAssumption DEF ReturnSlot
<1>7. Busy' = Busy
  BY <1>5, Zenon DEF Busy, IsBusy
<1>8. Cardinality(SlotThreads') = Cardinality(SlotThreads) - 1
  BY <1>6, SlotMoves, Zenon DEF SlotPC
<1>9. Cardinality(LiveThreads') = Cardinality(LiveThreads)
  BY <1>6, LiveMoves, Zenon DEF LivePC
<1>10. SlotConservation'
  BY <1>1, <1>3, <1>5, <1>7, <1>8, Counted, CountedNext, SMTT(20) DEF SlotConservation
<1>11. LiveBound'
  BY <1>1, <1>5, <1>7, <1>9, Zenon DEF LiveBound
<1> QED
  BY <1>10, <1>11, Zenon

(* Shutdown gives an acquisition up: the slot of its holder is lost.       *)
LEMMA AbandonCounts ==
    ASSUME TypeInv, SlotConservation, LiveBound, Cardinality(Busy') = Cardinality(Busy) - 1,
           lost' = lost + 1, UNCHANGED <<sem, free, ppc>>
    PROVE  SlotConservation' /\ LiveBound'
<1>1. SlotThreads' = SlotThreads /\ LiveThreads' = LiveThreads
  BY Zenon DEF SlotThreads, LiveThreads
<1>2. sem \in Nat /\ lost \in Nat /\ Len(free) \in Nat
  BY SlotNumbers, Zenon
<1>3. SlotConservation'
  BY <1>1, <1>2, Counted, SMTT(30) DEF SlotConservation
<1>4. LiveBound'
  BY <1>1, <1>2, Counted, MaxSizeAssumption DEF LiveBound
<1> QED
  BY <1>3, <1>4, Zenon

LEMMA SlotInit == PoolInit => SlotConservation /\ LiveBound
<1>0. SUFFICES ASSUME PoolInit PROVE SlotConservation /\ LiveBound
  BY Zenon
<1>1. SlotThreads = {} /\ LiveThreads = {} /\ Busy = {}
  BY <1>0 DEF PoolInit, SlotThreads, LiveThreads, SlotPC, LivePC, Busy, IsBusy
<1>2. Len(free) = 0 /\ sem = MaxSize /\ lost = 0
  BY <1>0, Zenon DEF PoolInit
<1>3. Cardinality({}) = 0
  BY FS_EmptySet, Zenon
<1> QED
  BY <1>1, <1>2, <1>3, MaxSizeAssumption DEF SlotConservation, LiveBound

LEMMA SlotStep == SlotInv /\ [PoolNext]_poolVars => SlotConservation' /\ LiveBound'
<1>0. SUFFICES ASSUME SlotInv, [PoolNext]_poolVars, Bounded
               PROVE  SlotConservation' /\ LiveBound'
  BY Zenon DEF SlotConservation, LiveBound, Bounded
<1>1. TypeInv /\ SlotConservation /\ LiveBound
  BY <1>0, Zenon DEF SlotInv, ExclInv
<1>2. ppc \in [Threads -> PoolPC] /\ gen \in [Instances -> Nat] /\ free \in Seq(Instances)
  BY <1>1, LeanTypes, Zenon
<1>3. \A t \in Threads : ppc[t] \in InstPC => pinst[t] \in Instances
  BY <1>1, LeanTypes, Zenon
<1>4. sem \in Nat /\ lost \in Nat /\ Len(free) \in Nat
  BY <1>1, SlotNumbers, Zenon
<1>5. CASE UNCHANGED poolVars
  <2>1. UNCHANGED <<sem, lost, free, gen, ppc>>
    BY <1>5, Zenon DEF poolVars, poolShared
  <2>2. SlotThreads' = SlotThreads /\ LiveThreads' = LiveThreads /\ Busy' = Busy
    BY <2>1, Zenon DEF SlotThreads, LiveThreads, Busy, IsBusy
  <2> QED
    BY <1>1, <2>1, <2>2, Zenon DEF SlotConservation, LiveBound
<1>6. ASSUME NEW t \in Threads,
             \/ AcquireCall(t) \/ AcquireCtxDone(t) \/ AcquireClosed(t)
             \/ AcquireLockClosed(t) \/ AcquireFactoryErr(t) \/ AcquireRegister(t)
             \/ PoolStopDone(t) \/ PoolConsume(t) \/ CloseCall(t) \/ CloseMark(t)
             \/ CloseChannel(t)
      PROVE  SlotConservation' /\ LiveBound'
  <2>1. UNCHANGED <<gen, sem, lost>> /\ (free' = free \/ free' = <<>>)
    BY <1>6, Zenon
    DEF AcquireCall, AcquireCtxDone, AcquireClosed, AcquireLockClosed,
        AcquireFactoryErr, AcquireRegister, PoolStopDone, PoolConsume,
        CloseCall, CloseMark, CloseChannel, poolShared
  <2>2. Len(free') \in Nat /\ Len(free') <= Len(free)
    BY <1>4, <2>1
  <2>3. \A u \in Threads : u # t => ppc'[u] = ppc[u]
    BY <1>2, <1>6, Zenon
    DEF AcquireCall, AcquireCtxDone, AcquireClosed, AcquireLockClosed,
        AcquireFactoryErr, AcquireRegister, PoolStopDone, PoolConsume,
        CloseCall, CloseMark, CloseChannel, Goto, Return
  <2>4. /\ ppc'[t] \in SlotPC <=> ppc[t] \in SlotPC
        /\ ppc'[t] \in LivePC => ppc[t] \in LivePC
    BY <1>2, <1>6, Zenon
    DEF AcquireCall, AcquireCtxDone, AcquireClosed, AcquireLockClosed,
        AcquireFactoryErr, AcquireRegister, PoolStopDone, PoolConsume,
        CloseCall, CloseMark, CloseChannel, Goto, Return, SlotPC, LivePC, StopPC
  <2> QED
    BY <1>0, <1>1, <2>1, <2>2, <2>3, <2>4, SlotsKept, Zenon
<1>7. ASSUME NEW t \in Threads, NEW i \in Instances, NEW k \in 1 .. gen[i],
             NEW place \in {"release", "fail"}, ReleaseCall(t, i, k, place)
      PROVE  SlotConservation' /\ LiveBound'
  <2>1. UNCHANGED <<gen, sem, lost, free>> /\ Len(free') <= Len(free)
    BY <1>4, <1>7 DEF ReleaseCall, poolShared
  <2>2. /\ \A u \in Threads : u # t => ppc'[u] = ppc[u]
        /\ ppc'[t] = place /\ ppc[t] = "idle"
    BY <1>2, <1>7, Zenon DEF ReleaseCall
  <2>3. (ppc'[t] \in SlotPC <=> ppc[t] \in SlotPC) /\ ppc'[t] \notin LivePC
    BY <2>2, Zenon DEF SlotPC, LivePC
  <2> QED
    BY <1>0, <1>1, <1>4, <2>1, <2>2, <2>3, SlotsKept, Zenon
<1>8. ASSUME NEW t \in Threads, AcquireSlot(t) PROVE SlotConservation' /\ LiveBound'
  <2>1. sem' = sem - 1 /\ UNCHANGED <<gen, lost, free>>
    BY <1>0, <1>8, Zenon DEF AcquireSlot
  <2>2. /\ \A u \in Threads : u # t => ppc'[u] = ppc[u]
        /\ ppc[t] = "select" /\ ppc'[t] = "lock"
    BY <1>2, <1>8, Zenon DEF AcquireSlot, Goto
  <2>3. Busy' = Busy
    BY <2>1, Zenon DEF Busy, IsBusy
  <2>4. Cardinality(SlotThreads') = Cardinality(SlotThreads) + 1
    BY <2>2, SlotMoves, Zenon DEF SlotPC
  <2>5. Cardinality(LiveThreads') = Cardinality(LiveThreads)
    BY <2>2, LiveMoves, Zenon DEF LivePC
  <2>6. SlotConservation'
    BY <1>1, <1>4, <2>1, <2>3, <2>4, Counted DEF SlotConservation
  <2>7. LiveBound'
    BY <1>1, <2>1, <2>3, <2>5, Zenon DEF LiveBound
  <2> QED
    BY <2>6, <2>7, Zenon
<1>9. ASSUME NEW t \in Threads, SlotBack(t) \/ SlotBackThenStop(t)
      PROVE  SlotConservation' /\ LiveBound'
  BY <1>0, <1>9, ReturnSlotCounts, Zenon DEF SlotBack, SlotBackThenStop
<1>10. ASSUME NEW t \in Threads, ReleaseCAS(t) \/ ReleaseFailedCAS(t)
       PROVE  SlotConservation' /\ LiveBound'
  BY <1>0, <1>10, MustReleaseCounts, Zenon DEF ReleaseCAS, ReleaseFailedCAS
<1>11. ASSUME NEW t \in Threads, AcquirePop(t) PROVE SlotConservation' /\ LiveBound'
  <2>1. UNCHANGED <<gen, sem, lost>>
    BY <1>11, Zenon DEF AcquirePop
  <2>2. /\ \A u \in Threads : u # t => ppc'[u] = ppc[u]
        /\ ppc[t] = "lock" /\ ppc'[t] = "mark"
    BY <1>2, <1>11, Zenon DEF AcquirePop
  <2>3. Len(free') = Len(free) - 1
    BY <1>2, <1>11, PopStack, Zenon DEF AcquirePop
  <2>4. Busy' = Busy
    BY <2>1, Zenon DEF Busy, IsBusy
  <2>5. Cardinality(SlotThreads') = Cardinality(SlotThreads)
    BY <2>2, SlotMoves, Zenon DEF SlotPC
  <2>6. Cardinality(LiveThreads') = Cardinality(LiveThreads) + 1
    BY <2>2, LiveMoves, Zenon DEF LivePC
  <2>7. SlotConservation'
    BY <1>1, <2>1, <2>4, <2>5, Zenon DEF SlotConservation
  <2>8. LiveBound'
    BY <1>1, <1>4, <2>3, <2>4, <2>6, Counted, SMTT(20) DEF LiveBound
  <2> QED
    BY <2>7, <2>8, Zenon
<1>12. ASSUME NEW t \in Threads, AcquireReserve(t) PROVE SlotConservation' /\ LiveBound'
  <2>1. UNCHANGED <<gen, sem, lost, free>> /\ free = <<>>
    BY <1>12, Zenon DEF AcquireReserve
  <2>2. /\ \A u \in Threads : u # t => ppc'[u] = ppc[u]
        /\ ppc[t] = "lock" /\ ppc'[t] = "factory"
    BY <1>2, <1>12, Zenon DEF AcquireReserve
  <2>3. Busy' = Busy
    BY <2>1, Zenon DEF Busy, IsBusy
  <2>4. Cardinality(SlotThreads') = Cardinality(SlotThreads)
    BY <2>2, SlotMoves, Zenon DEF SlotPC
  <2>5. SlotConservation'
    BY <1>1, <2>1, <2>3, <2>4, Zenon DEF SlotConservation
  <2>6. LiveThreads' \in SUBSET SlotThreads'
    BY Zenon DEF SlotThreads, LiveThreads, SlotPC, LivePC
  <2>7. Cardinality(LiveThreads') <= Cardinality(SlotThreads')
    BY <2>6, CountedNext, FS_Subset, Zenon
  <2>8. sem + Cardinality(SlotThreads') + Cardinality(Busy) + lost = MaxSize
    BY <1>0, <1>1, <2>4, Zenon DEF SlotConservation
  <2>9. Cardinality(Busy) + Cardinality(LiveThreads') <= MaxSize
    BY <1>4, <2>7, <2>8, Counted, CountedNext
  <2>10. Len(free') = 0
    BY <2>1, Zenon
  <2>11. LiveBound'
    BY <2>3, <2>9, <2>10, Counted, CountedNext, SMTT(20) DEF LiveBound
  <2> QED
    BY <2>5, <2>11, Zenon
<1>13. ASSUME NEW t \in Threads, AcquireMark(t) PROVE SlotConservation' /\ LiveBound'
  <2>1. UNCHANGED <<sem, lost, free>> /\ gen' = [gen EXCEPT ![pinst[t]] = gen[pinst[t]] + 1]
    BY <1>13, Zenon DEF AcquireMark
  <2>2. /\ \A u \in Threads : u # t => ppc'[u] = ppc[u]
        /\ ppc[t] = "mark" /\ ppc'[t] = "ret"
    BY <1>2, <1>13, Zenon DEF AcquireMark
  <2>3. pinst[t] \in Instances /\ InHand(t, pinst[t])
    BY <1>3, <2>2, Zenon DEF InstPC, InHand, LivePC
  <2>4. ~IsBusy(pinst[t])
    BY <1>0, <2>3, Zenon DEF SlotInv, ExclInv, Exclusive
  <2>5. Cardinality(Busy') = Cardinality(Busy) + 1
    BY <1>2, <2>1, <2>3, <2>4, BusyMoves, Zenon
  <2>6. Cardinality(SlotThreads') = Cardinality(SlotThreads) - 1
    BY <2>2, SlotMoves, Zenon DEF SlotPC
  <2>7. Cardinality(LiveThreads') = Cardinality(LiveThreads) - 1
    BY <2>2, LiveMoves, Zenon DEF LivePC
  <2>8. SlotConservation'
    <3>1. UNCHANGED <<sem, lost>>
      BY <2>1, Zenon
    <3> QED
      BY <1>1, <1>4, <2>5, <2>6, <3>1, Counted, SMTT(20) DEF SlotConservation
  <2>9. LiveBound'
    <3>1. UNCHANGED free
      BY <2>1, Zenon
    <3> QED
      BY <1>1, <1>4, <2>5, <2>7, <3>1, Counted, SMTT(20) DEF LiveBound
  <2> QED
    BY <2>8, <2>9, Zenon
<1>14. ASSUME NEW t \in Threads, ReleasePush(t) PROVE SlotConservation' /\ LiveBound'
  <2>1. UNCHANGED <<gen, sem, lost>> /\ ppc[t] = "relLock"
    BY <1>14, Zenon DEF ReleasePush, Goto
  <2>2. \A u \in Threads : u # t => ppc'[u] = ppc[u]
    BY <1>2, <1>14, Zenon DEF ReleasePush, Goto
  <2>3. CASE closed
    <3>1. UNCHANGED free /\ ppc'[t] = "relStop" /\ Len(free') <= Len(free)
      BY <1>2, <1>4, <1>14, <2>3 DEF ReleasePush, Goto
    <3>2. /\ ppc'[t] \in SlotPC <=> ppc[t] \in SlotPC
          /\ ppc'[t] \in LivePC => ppc[t] \in LivePC
      BY <2>1, <3>1, Zenon DEF SlotPC, LivePC
    <3> QED
      BY <1>0, <1>1, <1>4, <2>1, <2>2, <3>1, <3>2, SlotsKept, Zenon
  <2>4. CASE ~closed
    <3>1. pinst[t] \in Instances /\ free' = Append(free, pinst[t]) /\ ppc'[t] = "slot"
      BY <1>2, <1>3, <1>14, <2>1, <2>4, Zenon DEF ReleasePush, Goto, InstPC
    <3>2. Len(free') = Len(free) + 1
      BY <1>2, <3>1, AppendProperties, Zenon
    <3>3. Busy' = Busy
      BY <2>1, Zenon DEF Busy, IsBusy
    <3>4. Cardinality(SlotThreads') = Cardinality(SlotThreads)
      BY <2>1, <2>2, <3>1, SlotMoves, Zenon DEF SlotPC
    <3>5. Cardinality(LiveThreads') = Cardinality(LiveThreads) - 1
      BY <2>1, <2>2, <3>1, LiveMoves, Zenon DEF LivePC
    <3>6. SlotConservation'
      BY <1>1, <2>1, <3>3, <3>4, Zenon DEF SlotConservation
    <3>7. LiveBound'
      BY <1>1, <1>4, <3>2, <3>3, <3>5, Counted, SMTT(20) DEF LiveBound
    <3> QED
      BY <3>6, <3>7, Zenon
  <2> QED
    BY <2>3, <2>4, Zenon
<1>15. ASSUME NEW t \in Threads, NEW i \in Instances, NEW k \in 1 .. gen[i],
              Abandon(t, i, k)
       PROVE  SlotConservation' /\ LiveBound'
  <2>1. UNCHANGED <<sem, free, ppc>>
    BY <1>15, Zenon DEF Abandon
  <2>2. SlotThreads' = SlotThreads /\ LiveThreads' = LiveThreads
    BY <2>1, Zenon DEF SlotThreads, LiveThreads
  <2>3. CASE gen[i] # k
    <3>1. UNCHANGED <<gen, lost>>
      BY <1>15, <2>3, Zenon DEF Abandon
    <3>2. Busy' = Busy
      BY <3>1, Zenon DEF Busy, IsBusy
    <3> QED
      BY <1>1, <2>1, <2>2, <3>1, <3>2, Zenon DEF SlotConservation, LiveBound
  <2>4. CASE gen[i] = k
    <3>1. gen' = [gen EXCEPT ![i] = gen[i] + 1] /\ lost' = lost + 1
      BY <1>15, <2>4, Zenon DEF Abandon
    <3>2. IsBusy(i) /\ lost' = lost + 1
      BY <1>15, <2>4, Zenon DEF Abandon, Issued, IsBusy
    <3>3. Cardinality(Busy') = Cardinality(Busy) - 1
      BY <1>2, <3>1, <3>2, BusyMoves, Zenon
    <3> QED
      BY <1>1, <2>1, <3>2, <3>3, AbandonCounts, Zenon
  <2> QED
    BY <2>3, <2>4, Zenon
<1>16. ASSUME NEW t \in Threads, PoolStep(t) PROVE SlotConservation' /\ LiveBound'
  BY <1>6, <1>8, <1>9, <1>10, <1>11, <1>12, <1>13, <1>14, <1>16, ZenonT(30) DEF PoolStep
<1>17. ASSUME NEW t \in Threads, PoolEnv(t) PROVE SlotConservation' /\ LiveBound'
  BY <1>6, <1>7, <1>15, <1>17, ZenonT(30) DEF PoolEnv
<1> QED
  BY <1>0, <1>5, <1>6, <1>16, <1>17, ZenonT(30) DEF PoolNext

LEMMA SlotInvariant == PoolSpec => []SlotInv
<1>1. PoolInit => SlotInv
  BY TypeInvInit, ExclInit, SlotInit, Zenon DEF SlotInv, ExclInv
<1>2. SlotInv /\ [PoolNext]_poolVars => SlotInv'
  BY TypeInvStep, ExclStep, SlotStep, Zenon DEF SlotInv, ExclInv
<1> QED
  BY <1>1, <1>2, PTL DEF PoolSpec

(* No slot of a bounded pool is lost or duplicated on any path through     *)
(* Acquire, Release and ReleaseFailed, whatever tokens are presented.      *)
THEOREM PoolSlotConservation == PoolSpec => []SlotConservation
  BY SlotInvariant, PTL DEF SlotInv

(* returnSlot always finds room in the semaphore: the panic of             *)
(* pool.go:268-281 is unreachable.                                         *)
THEOREM PoolNeverFull == PoolSpec => []NeverFull
<1>1. SlotInv => NeverFull
  BY RoomForSlot, Zenon DEF SlotInv, ExclInv, NeverFull, SlotPC
<1> QED
  BY <1>1, SlotInvariant, PTL

(* At most maxSize instances are free, acquired or on the way between the  *)
(* two.                                                                    *)
THEOREM PoolLiveBound == PoolSpec => []LiveBound
  BY SlotInvariant, PTL DEF SlotInv

-----------------------------------------------------------------------------
(* Calls of Acquire that may still hand an instance out.                   *)
PendingPC == {"select", "lock", "factory", "mark"}
Pending == {t \in Threads : ppc[t] \in PendingPC}

(* A generation has advanced twice for every call of Acquire at most, so   *)
(* tokens are bounded by the number of calls.                              *)
TokenBound ==
    \A i \in Instances :
        /\ IsBusy(i) => gen[i] + 1 + 2 * Cardinality(Pending) <= 2 * calls
        /\ ~IsBusy(i) => gen[i] + 2 * Cardinality(Pending) <= 2 * calls

(* The kinds of steps that matter to it: a call begins, marks an instance, *)
(* or leaves without one; a token is released.                             *)
BeginStep(t) ==
    calls' = calls + 1 /\ gen' = gen /\ ppc[t] \notin PendingPC /\ ppc'[t] \in PendingPC

MarkStep(t) ==
    /\ calls' = calls /\ ppc[t] \in PendingPC /\ ppc'[t] \notin PendingPC
    /\ \E i \in Instances : ~IsBusy(i) /\ gen' = [gen EXCEPT ![i] = gen[i] + 1]

ReleaseStep(t) ==
    /\ calls' = calls /\ (ppc'[t] \in PendingPC <=> ppc[t] \in PendingPC)
    /\ \E i \in Instances : IsBusy(i) /\ gen' = [gen EXCEPT ![i] = gen[i] + 1]

KeepStep(t) ==
    calls' = calls /\ gen' = gen /\ (ppc'[t] \in PendingPC => ppc[t] \in PendingPC)

LEMMA TokenReleaseKinds ==
    ASSUME TypeInv, NEW t \in Threads, ppc[t] \in {"release", "fail"},
           NEW after \in {"relLock", "failStop"}, MustRelease(t, after)
    PROVE  ReleaseStep(t) \/ KeepStep(t)
<1>1. /\ pinst[t] \in Instances /\ gen \in [Instances -> Nat] /\ ppc \in [Threads -> PoolPC]
      /\ Issued(pinst[t], ptok[t])
  BY LeanTypes, Zenon DEF InstPC, TypeInv, Frames
<1>2. calls' = calls /\ ppc[t] \notin PendingPC /\ ppc'[t] \in {after, "ret"}
  BY <1>1, Zenon DEF MustRelease, PendingPC
<1>3. ppc'[t] \notin PendingPC
  BY <1>2, Zenon DEF PendingPC
<1>4. CASE gen[pinst[t]] = ptok[t]
  <2>1. IsBusy(pinst[t]) /\ gen' = [gen EXCEPT ![pinst[t]] = gen[pinst[t]] + 1]
    BY <1>1, <1>4, Zenon DEF MustRelease, Issued, IsBusy
  <2> QED
    BY <1>1, <1>2, <1>3, <2>1, Zenon DEF ReleaseStep
<1>5. CASE gen[pinst[t]] # ptok[t]
  BY <1>2, <1>3, <1>5, Zenon DEF MustRelease, KeepStep
<1> QED
  BY <1>4, <1>5, Zenon

LEMMA TokenKinds ==
    ASSUME ExclInv, NEW t \in Threads, PoolStep(t) \/ PoolStopDone(t) \/ PoolEnv(t)
    PROVE  /\ \A u \in Threads : u # t => ppc'[u] = ppc[u]
           /\ BeginStep(t) \/ MarkStep(t) \/ ReleaseStep(t) \/ KeepStep(t)
<1>1. TypeInv /\ Exclusive
  BY Zenon DEF ExclInv
<1>2. /\ ppc \in [Threads -> PoolPC] /\ gen \in [Instances -> Nat]
      /\ \A u \in Threads : ppc[u] \in InstPC => pinst[u] \in Instances
  BY <1>1, LeanTypes, Zenon
<1>3. \A u \in Threads : u # t => ppc'[u] = ppc[u]
  BY <1>2, Zenon DEF PoolStep, PoolStopDone, PoolEnv, AcquireSlot, AcquireClosed, AcquireLockClosed,
     AcquirePop, AcquireReserve, AcquireRegister, AcquireMark, SlotBack, SlotBackThenStop,
     ReleaseCAS, ReleasePush, ReleaseFailedCAS, CloseMark, CloseChannel, AcquireCall, CloseCall,
     PoolConsume, AcquireCtxDone, AcquireFactoryErr, ReleaseCall, Abandon, Goto, Return, ReturnSlot,
     MustRelease
<1>4. CASE AcquireSlot(t) \/ AcquirePop(t) \/ AcquireReserve(t) \/ AcquireRegister(t)
  <2>1. calls' = calls /\ gen' = gen /\ ppc[t] \in PendingPC
    BY <1>4, Zenon DEF AcquireSlot, AcquirePop, AcquireReserve, AcquireRegister, PendingPC
  <2> QED
    BY <1>3, <2>1, Zenon DEF KeepStep
<1>5. CASE \/ AcquireClosed(t) \/ AcquireLockClosed(t) \/ ReleasePush(t) \/ CloseMark(t)
           \/ CloseChannel(t) \/ CloseCall(t) \/ PoolConsume(t) \/ AcquireCtxDone(t)
           \/ AcquireFactoryErr(t)
  <2>1. calls' = calls /\ gen' = gen
    BY <1>5, Zenon DEF AcquireClosed, AcquireLockClosed, ReleasePush, CloseMark, CloseChannel,
       CloseCall, PoolConsume, AcquireCtxDone, AcquireFactoryErr, poolShared
  <2>2. ppc'[t] \in {"ret", "slot", "relStop", "closeCh", "close", "idle"}
    BY <1>2, <1>5, Zenon DEF AcquireClosed, AcquireLockClosed, ReleasePush, CloseMark, CloseChannel,
       CloseCall, PoolConsume, AcquireCtxDone, AcquireFactoryErr, Goto, Return
  <2>3. ppc'[t] \notin PendingPC
    BY <2>2, Zenon DEF PendingPC
  <2> QED
    BY <1>3, <2>1, <2>3, Zenon DEF KeepStep
<1>6. CASE SlotBack(t) \/ SlotBackThenStop(t) \/ PoolStopDone(t)
  <2>1. calls' = calls /\ gen' = gen
    BY <1>6, Zenon DEF SlotBack, SlotBackThenStop, PoolStopDone, ReturnSlot, poolShared
  <2>2. ppc'[t] \in {"ret", "slot", "stopRet"}
    BY <1>2, <1>6, Zenon DEF SlotBack, SlotBackThenStop, PoolStopDone, ReturnSlot
  <2>3. ppc'[t] \notin PendingPC
    BY <2>2, Zenon DEF PendingPC
  <2> QED
    BY <1>3, <2>1, <2>3, Zenon DEF KeepStep
<1>7. CASE ReleaseCAS(t) \/ ReleaseFailedCAS(t)
  <2>1. ReleaseStep(t) \/ KeepStep(t)
    BY <1>1, <1>7, TokenReleaseKinds, Zenon DEF ReleaseCAS, ReleaseFailedCAS
  <2> QED
    BY <1>3, <2>1, Zenon
<1>8. CASE AcquireMark(t)
  <2>1. pinst[t] \in Instances
    BY <1>2, <1>8, Zenon DEF AcquireMark, InstPC
  <2>2. ~IsBusy(pinst[t])
    BY <1>1, <1>8, <2>1, Zenon DEF AcquireMark, Exclusive, InHand, LivePC
  <2>3. calls' = calls /\ ppc[t] = "mark" /\ ppc'[t] = "ret"
        /\ gen' = [gen EXCEPT ![pinst[t]] = gen[pinst[t]] + 1]
    BY <1>2, <1>8, <2>1, Zenon DEF AcquireMark
  <2>4. MarkStep(t)
    BY <2>1, <2>2, <2>3, Zenon DEF MarkStep, PendingPC
  <2> QED
    BY <1>3, <2>4, Zenon
<1>9. CASE AcquireCall(t)
  <2>1. BeginStep(t)
    BY <1>2, <1>9, Zenon DEF AcquireCall, Goto, BeginStep, PendingPC
  <2> QED
    BY <1>3, <2>1, Zenon
<1>10. ASSUME NEW i \in Instances, NEW k \in 1 .. gen[i],
              ReleaseCall(t, i, k, "release") \/ ReleaseCall(t, i, k, "fail")
       PROVE  KeepStep(t)
  <2>1. calls' = calls /\ gen' = gen /\ ppc'[t] \in {"release", "fail"}
    BY <1>2, <1>10, Zenon DEF ReleaseCall, poolShared
  <2>2. ppc'[t] \notin PendingPC
    BY <2>1, Zenon DEF PendingPC
  <2> QED
    BY <2>1, <2>2, Zenon DEF KeepStep
<1>11. ASSUME NEW i \in Instances, NEW k \in 1 .. gen[i], Abandon(t, i, k)
       PROVE  ReleaseStep(t) \/ KeepStep(t)
  <2>1. calls' = calls /\ ppc' = ppc
    BY <1>11, Zenon DEF Abandon
  <2>2. CASE gen[i] = k
    <3>1. IsBusy(i) /\ gen' = [gen EXCEPT ![i] = gen[i] + 1]
      BY <1>2, <1>11, <2>2, Zenon DEF Abandon, Issued, IsBusy
    <3> QED
      BY <1>11, <2>1, <3>1, Zenon DEF ReleaseStep
  <2>3. CASE gen[i] # k
    BY <1>11, <2>1, <2>3, Zenon DEF Abandon, KeepStep
  <2> QED
    BY <2>2, <2>3, Zenon
<1>12. CASE PoolStep(t) \/ PoolStopDone(t)
  BY <1>4, <1>5, <1>6, <1>7, <1>8, <1>12, Zenon DEF PoolStep
<1>13. CASE PoolEnv(t)
  BY <1>3, <1>5, <1>9, <1>10, <1>11, <1>13, Zenon DEF PoolEnv
<1> QED
  BY <1>12, <1>13, Zenon

LEMMA PendingCounts ==
    /\ IsFiniteSet(Pending) /\ Cardinality(Pending) \in Nat
    /\ IsFiniteSet(Pending') /\ Cardinality(Pending') \in Nat
<1>1. Pending \subseteq Threads /\ Pending' \subseteq Threads
  BY Zenon DEF Pending
<1> QED
  BY <1>1, FS_Subset, FS_CardinalityType, ThreadsAssumption, Zenon

LEMMA TokenInit == PoolInit => TokenBound
<1>1. SUFFICES ASSUME PoolInit PROVE TokenBound
  BY Zenon
<1>2. Pending = {}
  BY <1>1, Zenon DEF PoolInit, Pending, PendingPC
<1>3. Cardinality(Pending) = 0
  BY <1>2, FS_EmptySet, Zenon
<1> QED
  BY <1>1, <1>3, SMT DEF PoolInit, TokenBound, IsBusy

LEMMA TokenStep == ExclInv /\ TokenBound /\ [PoolNext]_poolVars => TokenBound'
<1>1. SUFFICES ASSUME ExclInv, TokenBound, [PoolNext]_poolVars PROVE TokenBound'
  BY Zenon
<1>2. gen \in [Instances -> Nat] /\ calls \in Nat
  BY <1>1, MaxAcquiresAssumption, SMT DEF ExclInv, TypeInv, PoolTypeOK
<1>3. CASE UNCHANGED poolVars
  <2>1. gen' = gen /\ calls' = calls /\ ppc' = ppc
    BY <1>3, Zenon DEF poolVars, poolShared
  <2> QED
    BY <1>1, <2>1, Zenon DEF TokenBound, Pending, IsBusy
<1>4. ASSUME NEW t \in Threads, PoolStep(t) \/ PoolStopDone(t) \/ PoolEnv(t) PROVE TokenBound'
  <2>1. /\ \A u \in Threads : u # t => ppc'[u] = ppc[u]
        /\ BeginStep(t) \/ MarkStep(t) \/ ReleaseStep(t) \/ KeepStep(t)
    BY <1>1, <1>4, TokenKinds, Zenon
  <2>2. /\ t \in Pending <=> ppc[t] \in PendingPC
        /\ t \in Pending' <=> ppc'[t] \in PendingPC
        /\ Pending \ {t} = Pending' \ {t}
    BY <2>1, Zenon DEF Pending
  <2>3. /\ t \in Pending /\ t \notin Pending' => Cardinality(Pending') = Cardinality(Pending) - 1
        /\ t \notin Pending /\ t \in Pending' => Cardinality(Pending') = Cardinality(Pending) + 1
        /\ (t \in Pending <=> t \in Pending') => Cardinality(Pending') = Cardinality(Pending)
    BY <2>2, PendingCounts, MoveCounts, Zenon
  <2>4. PICK n \in Nat : n = Cardinality(Pending)
    BY PendingCounts, Zenon
  <2>5. PICK m \in Nat : m = Cardinality(Pending')
    BY PendingCounts, Zenon
  <2>6. SUFFICES ASSUME NEW i \in Instances
                 PROVE  /\ IsBusy(i)' => gen'[i] + 1 + 2 * m <= 2 * calls'
                        /\ ~IsBusy(i)' => gen'[i] + 2 * m <= 2 * calls'
    BY <2>5, Zenon DEF TokenBound
  <2>7. /\ gen[i] \in Nat
        /\ IsBusy(i) => gen[i] + 1 + 2 * n <= 2 * calls
        /\ ~IsBusy(i) => gen[i] + 2 * n <= 2 * calls
    BY <1>1, <1>2, <2>4, <2>6, Zenon DEF TokenBound
  <2>8. CASE BeginStep(t)
    <3>1. m = n + 1 /\ calls' = calls + 1 /\ gen' = gen /\ (IsBusy(i)' <=> IsBusy(i))
      BY <2>2, <2>3, <2>4, <2>5, <2>8, Zenon DEF BeginStep, IsBusy
    <3> QED
      BY <1>2, <2>7, <3>1, SMT
  <2>9. CASE KeepStep(t)
    <3>1. /\ m = n \/ m = n - 1
          /\ calls' = calls /\ gen' = gen /\ (IsBusy(i)' <=> IsBusy(i))
      BY <2>2, <2>3, <2>4, <2>5, <2>9, Zenon DEF KeepStep, IsBusy
    <3> QED
      BY <1>2, <2>7, <3>1, SMT
  <2>10. ASSUME NEW j \in Instances, gen' = [gen EXCEPT ![j] = gen[j] + 1]
         PROVE  /\ i # j => gen'[i] = gen[i] /\ (IsBusy(i)' <=> IsBusy(i))
                /\ i = j => gen'[i] = gen[i] + 1 /\ (IsBusy(i)' <=> ~IsBusy(i))
    BY <1>2, <2>6, <2>10, GenAdvances, Zenon
  <2>11. CASE MarkStep(t)
    <3>1. m = n - 1 /\ calls' = calls
      BY <2>2, <2>3, <2>4, <2>5, <2>11, Zenon DEF MarkStep
    <3>2. PICK j \in Instances : ~IsBusy(j) /\ gen' = [gen EXCEPT ![j] = gen[j] + 1]
      BY <2>11, Zenon DEF MarkStep
    <3>3. \/ gen'[i] = gen[i] /\ (IsBusy(i)' <=> IsBusy(i))
          \/ gen'[i] = gen[i] + 1 /\ ~IsBusy(i) /\ IsBusy(i)'
      BY <2>10, <3>2, Zenon
    <3> QED
      BY <1>2, <2>7, <3>1, <3>3, SMT
  <2>12. CASE ReleaseStep(t)
    <3>1. m = n /\ calls' = calls
      BY <2>2, <2>3, <2>4, <2>5, <2>12, Zenon DEF ReleaseStep
    <3>2. PICK j \in Instances : IsBusy(j) /\ gen' = [gen EXCEPT ![j] = gen[j] + 1]
      BY <2>12, Zenon DEF ReleaseStep
    <3>3. \/ gen'[i] = gen[i] /\ (IsBusy(i)' <=> IsBusy(i))
          \/ gen'[i] = gen[i] + 1 /\ IsBusy(i) /\ ~IsBusy(i)'
      BY <2>10, <3>2, Zenon
    <3> QED
      BY <1>2, <2>7, <3>1, <3>3, SMT
  <2> QED
    BY <2>1, <2>8, <2>9, <2>11, <2>12, Zenon
<1> QED
  BY <1>1, <1>3, <1>4, Zenon DEF PoolNext

=============================================================================
