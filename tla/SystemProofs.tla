---------------------------- MODULE SystemProofs ----------------------------
(***************************************************************************)
(* Theorems about the manager, the pool, the instances and the wrappers    *)
(* together (module Manager): the invariants of the three parts, proved    *)
(* one step at a time in PoolProofs, InstanceProofs, ManagerStepProofs and *)
(* ManagerProofs, need each other and are put together here.               *)
(***************************************************************************)
EXTENDS ManagerStepProofs, ManagerProofs, InstanceProofs, PoolProofs

PoolInv == TrackInv /\ SlotConservation /\ LiveBound /\ TokenBound

SystemInv == PoolInv /\ InstInv /\ MgrInv /\ InflightCounts

LEMMA PoolInvStep == PoolInv /\ [PoolNext]_poolVars => PoolInv'
<1>1. SUFFICES ASSUME PoolInv, [PoolNext]_poolVars PROVE PoolInv'
  BY Zenon
<1>2. TypeInv /\ ExclInv /\ TrackInv /\ SlotInv /\ TokenBound
  BY <1>1, Zenon DEF PoolInv, TrackInv, ExclInv, SlotInv
<1>3. /\ TypeInv' /\ Exclusive' /\ FreshIndexes' /\ AllTracked'
      /\ SlotConservation' /\ LiveBound' /\ TokenBound'
  BY <1>1, <1>2, TypeInvStep, ExclStep, TrackStep, SlotStep, TokenStep, Zenon
<1> QED
  BY <1>3, Zenon DEF PoolInv, TrackInv, ExclInv

LEMMA PoolFactsHold == PoolInv => PoolFacts
<1>1. SUFFICES ASSUME PoolInv PROVE PoolFacts
  BY Zenon
<1>2. TypeInv /\ Exclusive /\ FreshIndexes /\ AllTracked /\ SlotInv
  BY <1>1, Zenon DEF PoolInv, TrackInv, ExclInv, SlotInv
<1>3. PoolTypeOK /\ \A t \in Threads : ppc[t] \in OnInstance => pinst[t] \in Instances
  BY <1>2, Zenon DEF TypeInv, Frames, OnInstance, InstPC
<1>4. NeverFull
  BY <1>2, RoomForSlot, Zenon DEF SlotInv, ExclInv, NeverFull, SlotPC
<1>5. ASSUME NEW t \in Threads, NEW i \in Instances, InHand(t, i) PROVE i < nextIdx
  <2>1. ~(i >= nextIdx)
    BY <1>2, <1>5, Zenon DEF FreshIndexes
  <2> QED
    BY <1>3, <2>1, MaxIdxAssumption, SMT DEF PoolTypeOK, Instances
<1> QED
  BY <1>2, <1>3, <1>4, <1>5, Zenon DEF PoolFacts

LEMMA PoolFactsNext == PoolInv' => PoolFacts'
  BY PoolFactsHold, PTL

LEMMA SystemInit == Init => SystemInv /\ Final
<1>1. SUFFICES ASSUME Init PROVE SystemInv /\ Final
  BY Zenon
<1>2. PoolInit /\ InstInit /\ inflight = 0
  BY <1>1, Zenon DEF Init
<1>3. PoolInv
  BY <1>2, TypeInvInit, ExclInit, TrackInit, SlotInit, TokenInit, Zenon DEF PoolInv, TrackInv, ExclInv
<1>4. InstInv
  BY <1>2, InstInitially, Zenon
<1>5. MgrInv /\ Final /\ Releasing = {}
  BY <1>1, MgrInitially, Zenon
<1>6. InflightCounts
  BY <1>2, <1>5, FS_EmptySet, Zenon DEF InflightCounts
<1> QED
  BY <1>3, <1>4, <1>5, <1>6, Zenon DEF SystemInv

(* A step of goroutine t, and with it the kinds of steps it is one of.     *)
LEMMA SystemMove ==
    ASSUME SystemInv, NEW t \in Threads, Step(t)
    PROVE  /\ PoolFacts /\ PoolInv' /\ PoolFacts' /\ InstInv'
           /\ Move(t) /\ MgrOthers(t) /\ PoolOthers(t) /\ CallOthers(t)
<1>1. PoolInv /\ InstInv /\ MgrInv /\ PoolFacts
  BY PoolFactsHold, Zenon DEF SystemInv
<1>2. MgrTypes /\ PoolTypeOK /\ Link /\ HasOK /\ StartedHeld /\ SetUp
  BY <1>1, Zenon DEF MgrInv, Holders, PoolFacts
<1>3. PoolInv'
  <2>1. PoolOwnStep(t) \/ UNCHANGED poolVars
    BY <1>2, PoolPart, Zenon
  <2>2. [PoolNext]_poolVars
    BY <2>1, Zenon DEF PoolNext, PoolOwnStep
  <2> QED
    BY <1>1, <2>2, PoolInvStep, Zenon
<1>4. InstInv'
  <2>1. InstStep(t) \/ UNCHANGED instVars
    BY <1>1, <1>2, InstPart, Zenon
  <2> QED
    BY <1>1, <2>1, InstInvStep, InstInvStutter, Zenon
<1>5. Move(t) /\ MgrOthers(t) /\ PoolOthers(t) /\ CallOthers(t)
  BY <1>1, <1>2, MoveOfStep, Zenon
<1> QED
  BY <1>1, <1>3, <1>4, <1>5, PoolFactsNext, Zenon

LEMMA MgrInvStep ==
    ASSUME SystemInv, NEW t \in Threads, Step(t)
    PROVE  MgrInv'
<1>1. /\ PoolFacts /\ PoolFacts'
      /\ Move(t) /\ MgrOthers(t) /\ PoolOthers(t) /\ CallOthers(t)
  BY SystemMove, Zenon
<1>2. InstInv /\ InstTypeOK /\ PoolTypeOK
  BY <1>1, Zenon DEF SystemInv, InstInv, PoolFacts
<1>3. /\ MgrTypes /\ Link /\ Holders /\ StopsGone /\ ClosedOK /\ OneStack /\ StartedHeld
      /\ Clean /\ Accounted /\ SetUp
  BY Zenon DEF SystemInv, MgrInv
<1>4. MgrTypes' /\ Link'
  BY <1>1, <1>2, <1>3, MgrTypesStep, LinkStep, Zenon
<1>5. Holders'
  BY <1>1, <1>3, <1>4, HoldersStep, NewTokensStep, Zenon DEF Holders
<1>6. StopsGone' /\ ClosedOK'
  BY <1>1, <1>2, <1>3, <1>4, StopsGoneStep, ClosedOKStep, Zenon
<1>7. OneStack' /\ StartedHeld'
  BY <1>1, <1>2, <1>3, OneStackStep, StartedHeldStep, Zenon
<1>8. Clean' /\ Accounted'
  BY <1>1, <1>2, <1>3, <1>4, CleanStep, AccountedStep, Zenon
<1>9. SetUp'
  BY <1>1, <1>3, SetUpStep, Zenon
<1> QED
  BY <1>4, <1>5, <1>6, <1>7, <1>8, <1>9, Zenon DEF MgrInv

LEMMA InflightStep ==
    ASSUME MgrTypes, InflightCounts, NEW t \in Threads, Step(t), MgrOthers(t)
    PROVE  InflightCounts'
<1>1. IsFiniteSet(Releasing) /\ IsFiniteSet(Releasing')
  <2>1. Releasing \subseteq Threads /\ Releasing' \subseteq Threads
    BY Zenon DEF Releasing
  <2> QED
    BY <2>1, FS_Subset, ThreadsAssumption, Zenon
<1>2. /\ Releasing' \ {t} = Releasing \ {t}
      /\ \/ inflight' = inflight /\ (t \in Releasing' <=> t \in Releasing)
         \/ inflight' = inflight + 1 /\ t \notin Releasing /\ t \in Releasing'
         \/ inflight' = inflight - 1 /\ t \in Releasing /\ t \notin Releasing'
  BY InflightKinds, Zenon
<1>3. /\ t \in Releasing /\ t \notin Releasing' => Cardinality(Releasing') = Cardinality(Releasing) - 1
      /\ t \notin Releasing /\ t \in Releasing' => Cardinality(Releasing') = Cardinality(Releasing) + 1
      /\ (t \in Releasing <=> t \in Releasing') => Cardinality(Releasing') = Cardinality(Releasing)
  BY <1>1, <1>2, MoveCounts, Zenon
<1> QED
  BY <1>2, <1>3, Zenon DEF InflightCounts

LEMMA SystemStep ==
    SystemInv /\ [Next]_vars => SystemInv' /\ (SerialInit /\ Final => Final')
<1>1. SUFFICES ASSUME SystemInv, [Next]_vars
               PROVE  SystemInv' /\ (SerialInit /\ Final => Final')
  BY Zenon
<1>2. CASE UNCHANGED vars
  <2>1. MgrInv' /\ (Final => Final') /\ Releasing' = Releasing
    BY <1>1, <1>2, MgrStutter, Zenon DEF SystemInv
  <2>2. UNCHANGED poolVars /\ UNCHANGED instVars /\ UNCHANGED inflight
    BY <1>2, Zenon DEF vars, mgrVars, mgrShared
  <2>3. PoolInv' /\ InstInv'
    BY <1>1, <2>2, PoolInvStep, InstInvStutter, Zenon DEF SystemInv
  <2>4. InflightCounts'
    BY <1>1, <2>1, <2>2, Zenon DEF SystemInv, InflightCounts
  <2> QED
    BY <2>1, <2>3, <2>4, Zenon DEF SystemInv
<1>3. ASSUME NEW t \in Threads, Step(t)
      PROVE  SystemInv' /\ (SerialInit /\ Final => Final')
  <2>1. PoolFacts /\ PoolInv' /\ InstInv' /\ Move(t) /\ MgrOthers(t)
    BY <1>1, <1>3, SystemMove, Zenon
  <2>2. MgrInv'
    BY <1>1, <1>3, MgrInvStep, Zenon
  <2>3. MgrTypes /\ Link /\ Holders /\ ClosedOK /\ SetUp /\ InflightCounts
    BY <1>1, Zenon DEF SystemInv, MgrInv
  <2>4. InflightCounts'
    BY <1>3, <2>1, <2>3, InflightStep, Zenon
  <2>5. SerialInit /\ Final => Final'
    BY <1>3, <2>1, <2>3, FinalStep, Zenon
  <2> QED
    BY <2>1, <2>2, <2>4, <2>5, Zenon DEF SystemInv
<1> QED
  BY <1>1, <1>2, <1>3, Zenon DEF Next, Step

(* The invariant of the whole system holds, whatever overlaps and whatever *)
(* fails in Initialize, Acquire, Release and Shutdown.                     *)
THEOREM SystemInvariant == Spec => []SystemInv
<1>1. SystemInv /\ [Next]_vars => SystemInv'
  BY SystemStep, Zenon
<1> QED
  BY <1>1, SystemInit, PTL DEF Spec

(* When Initialize and Shutdown do not overlap, Shutdown's state stays,    *)
(* and the pool is closed only behind it.                                  *)
THEOREM FinalInvariant == ASSUME SerialInit PROVE Spec => []Final
<1>1. SystemInv /\ Final /\ [Next]_vars => Final'
  BY SystemStep, Zenon
<1> QED
  BY <1>1, SystemInit, SystemInvariant, PTL DEF Spec

-----------------------------------------------------------------------------
(* The type invariant of the manager with everything below it.             *)
THEOREM SystemTypeCorrect == Spec => []TypeOK
<1>1. SystemInv => TypeOK
  <2>1. SUFFICES ASSUME SystemInv PROVE TypeOK
    BY Zenon
  <2>2. PoolTypeOK /\ InstTypeOK /\ MgrTypes /\ InflightCounts
    BY <2>1, Zenon DEF SystemInv, PoolInv, TrackInv, ExclInv, TypeInv, InstInv, MgrInv
  <2>3. inflight \in Nat
    <3>1. Releasing \subseteq Threads
      BY Zenon DEF Releasing
    <3> QED
      BY <2>2, <3>1, FS_Subset, FS_CardinalityType, ThreadsAssumption, Zenon DEF InflightCounts
  <2> QED
    BY <2>2, <2>3, Zenon DEF TypeOK, MgrTypes
<1> QED
  BY <1>1, SystemInvariant, PTL

(* An instance has one holder, and the holder's token is current, whatever *)
(* Acquire, Release and Shutdown do at the same time: instance.go's panic  *)
(* for a stale token cannot be reached through the public API.             *)
THEOREM SystemOneHolder == Spec => []OneHolder
<1>1. SystemInv => OneHolder
  BY HoldersOne, Zenon DEF SystemInv, MgrInv
<1> QED
  BY <1>1, SystemInvariant, PTL

(* When no call is under way, wrappers and busy instances correspond.      *)
LEMMA IdleHeld ==
    ASSUME MgrInv, PoolTypeOK, IsFiniteSet(Busy), Idle
    PROVE  Cardinality(Held) = Cardinality(Busy)
<1>1. MgrTypes /\ Link /\ HeldOK /\ BusyHeld /\ gen \in [Instances -> Nat]
  BY Zenon DEF MgrInv, Holders, PoolTypeOK
<1>2. \A w \in Held : w \in Instances \X Nat /\ w[1] \in Instances /\ w = <<w[1], w[2]>>
  BY <1>1, SMT DEF MgrTypes, Held
<1> DEFINE f == [i \in Busy |-> <<i, gen[i]>>]
<1>3. ASSUME NEW i \in Busy PROVE <<i, gen[i]>> \in Held
  <2>1. i \in Instances /\ IsBusy(i)
    BY <1>3, Zenon DEF Busy
  <2>2. gen[i] \in Nat
    BY <1>1, <2>1, Zenon
  <2>3. Wrapped(i)
    BY <1>1, <2>1, <2>2, IdleFrames, Zenon DEF BusyHeld
  <2>4. PICK w \in Held : w[1] = i
    BY <2>3, Zenon DEF Wrapped
  <2>5. w[2] = gen[i]
    BY <1>1, <2>4, Zenon DEF HeldOK
  <2> QED
    BY <1>2, <2>4, <2>5, Zenon
<1>4. f \in [Busy -> Held]
  BY <1>3, Zenon
<1>5. \A i, j \in Busy : f[i] = f[j] => i = j
  BY SMT
<1>6. ASSUME NEW w \in Held PROVE \E i \in Busy : f[i] = w
  <2>1. w[1] \in Busy /\ gen[w[1]] = w[2]
    BY <1>1, <1>2, <1>6, Zenon DEF HeldOK, Busy
  <2>2. f[w[1]] = w
    BY <1>2, <1>6, <2>1, Zenon
  <2> QED
    BY <2>1, <2>2, Zenon
<1> HIDE DEF f
<1>7. f \in Bijection(Busy, Held)
  BY <1>4, <1>5, <1>6, Zenon DEF Bijection, Injection, Surjection, IsInjective
<1>8. ExistsBijection(Busy, Held)
  BY <1>7, Zenon DEF ExistsBijection
<1> QED
  BY <1>8, FS_Bijection, Zenon

(* Until Shutdown every slot comes back, if no Initialize overlaps with a  *)
(* Shutdown: with no call under way, p.sem lacks one token per wrapper     *)
(* that is still held, whatever starts, purges, factories and contexts     *)
(* have failed in Acquire and Release.                                     *)
THEOREM SystemCapacityRestored ==
    ASSUME SerialInit
    PROVE  Spec => []CapacityRestored
<1>1. SystemInv /\ Final => CapacityRestored
  <2>1. SUFFICES ASSUME SystemInv, Final, Bounded, Idle, state # "shuttingDown"
                 PROVE  sem + Cardinality(Held) = MaxSize
    BY Zenon DEF CapacityRestored
  <2>2. /\ TypeInv /\ Link
        /\ sem + Cardinality(SlotThreads) + Cardinality(Busy) + lost = MaxSize
    BY <2>1, Zenon DEF SystemInv, PoolInv, TrackInv, ExclInv, MgrInv, SlotConservation
  <2>3. lost = 0
    BY <2>1, Zenon DEF Final
  <2>4. SlotThreads = {}
    <3>1. \A t \in Threads : ppc[t] \notin SlotPC
      BY <2>1, <2>2, IdleFrames, Zenon DEF SlotPC
    <3> QED
      BY <3>1, Zenon DEF SlotThreads
  <2>5. Cardinality(Held) = Cardinality(Busy)
    BY <2>1, <2>2, IdleHeld, Counted, Zenon DEF SystemInv, TypeInv
  <2>6. Cardinality(SlotThreads) = 0
    BY <2>4, FS_EmptySet, Zenon
  <2>7. sem \in Nat /\ Cardinality(Busy) \in Nat
    BY <2>2, SlotNumbers, Counted, Zenon
  <2> QED
    BY <2>2, <2>3, <2>5, <2>6, <2>7, SMT
<1> QED
  BY <1>1, SystemInvariant, FinalInvariant, PTL

(* Shutdown leaves nothing running, if no Initialize overlaps with it:     *)
(* once it has returned and no call is under way, only instances whose     *)
(* wrapper was never released have processes or an open database.          *)
THEOREM SystemShutdownLeavesNothing ==
    ASSUME SerialInit
    PROVE  Spec => []ShutdownLeavesNothing
<1>1. SystemInv /\ Final => ShutdownLeavesNothing
  BY NothingLeft, Zenon DEF SystemInv, PoolInv, TrackInv, ExclInv, TypeInv
<1> QED
  BY <1>1, SystemInvariant, FinalInvariant, PTL

(* One stack, as a number.                                                 *)
LEMMA OneStackLeft ==
    ASSUME OneStack, Final
    PROVE  OneStackPerDir
<1>1. SUFFICES ASSUME state # "shuttingDown", NEW i \in Instances
               PROVE  Cardinality(running[i]) <= 1
  BY Zenon DEF OneStackPerDir
<1>2. \A r, s \in running[i] : r = s
  BY <1>1, Zenon DEF Final, OneStack
<1>3. CASE running[i] = {}
  <2>1. Cardinality(running[i]) = 0
    BY <1>3, FS_EmptySet, Zenon
  <2> QED
    BY <2>1, SMT
<1>4. CASE running[i] # {}
  <2>1. PICK s : s \in running[i]
    BY <1>4, Zenon
  <2>2. running[i] = {s}
    BY <1>2, <2>1, Zenon
  <2>3. Cardinality(running[i]) = 1
    BY <2>2, FS_Singleton, Zenon
  <2> QED
    BY <2>3, SMT
<1> QED
  BY <1>3, <1>4, Zenon

(* Before Shutdown an instance never has two stacks on its data directory, *)
(* if no Initialize overlaps with a Shutdown: no Start launches one while  *)
(* a Stop is still ending its predecessor, although Stop unlocks startMu   *)
(* first.                                                                  *)
THEOREM SystemOneStackPerDir ==
    ASSUME SerialInit
    PROVE  Spec => []OneStackPerDir
<1>1. SystemInv /\ Final => OneStackPerDir
  BY OneStackLeft, Zenon DEF SystemInv, MgrInv
<1> QED
  BY <1>1, SystemInvariant, FinalInvariant, PTL

(* Nothing leaves the state Shutdown stores (manager.go:459-464), if no    *)
(* Initialize overlaps with it; with such an overlap TLC shows one that    *)
(* does.                                                                   *)
THEOREM SystemShutdownIsFinal ==
    ASSUME SerialInit
    PROVE  Spec => ShutdownIsFinal
<1>1. SystemInv /\ Final /\ [Next]_vars => (state = "shuttingDown" => state' = "shuttingDown")
  <2>1. SUFFICES ASSUME SystemInv, Final, [Next]_vars, state = "shuttingDown"
                 PROVE  state' = "shuttingDown"
    BY Zenon
  <2>2. CASE UNCHANGED vars
    BY <2>1, <2>2, Zenon DEF vars, mgrVars, mgrShared
  <2>3. ASSUME NEW t \in Threads, Step(t) PROVE state' = "shuttingDown"
    <3>1. MgrTypes /\ PoolFacts /\ Holders /\ SetUp
      BY <2>1, <2>3, SystemMove, Zenon DEF SystemInv, MgrInv
    <3> QED
      BY <2>1, <2>3, <3>1, ShutdownStays, Zenon
  <2> QED
    BY <2>1, <2>2, <2>3, Zenon DEF Next, Step
<1> QED
  BY <1>1, SystemInvariant, FinalInvariant, PTL DEF Spec, ShutdownIsFinal

-----------------------------------------------------------------------------
(* No token of an instance is above twice the number of acquisitions.      *)
LEMMA TokensBounded == SystemInv => TokensFit
<1>1. SUFFICES ASSUME SystemInv, NEW i \in Instances, IsBusy(i)
               PROVE  gen[i] <= 2 * MaxAcquires
  BY Zenon DEF TokensFit
<1>2. TokenBound /\ calls \in Nat /\ calls <= MaxAcquires /\ gen[i] \in Nat
  BY <1>1, MaxAcquiresAssumption, SMT DEF SystemInv, PoolInv, TrackInv, ExclInv, TypeInv, PoolTypeOK
<1>3. gen[i] + 1 + 2 * Cardinality(Pending) <= 2 * calls
  BY <1>1, <1>2, Zenon DEF TokenBound
<1>4. Cardinality(Pending) \in Nat
  BY PendingCounts, Zenon
<1> QED
  BY <1>2, <1>3, <1>4, MaxAcquiresAssumption, SMT

LEMMA SystemStepMaps ==
    ASSUME SystemInv, [Next]_vars
    PROVE  L!LeaseNext \/ UNCHANGED L!leaseVars
<1>1. CASE UNCHANGED vars
  BY <1>1, StutterMaps, Zenon
<1>2. ASSUME NEW t \in Threads, Step(t) PROVE L!LeaseNext \/ UNCHANGED L!leaseVars
  <2>1. Move(t) /\ TokensFit /\ MgrInv
    BY <1>2, SystemMove, TokensBounded, Zenon DEF SystemInv
  <2> QED
    BY <2>1, MoveMaps, Zenon
<1> QED
  BY <1>1, <1>2, Zenon DEF Next, Step

(* Manager, pool, instances and wrappers implement Lease, whatever         *)
(* overlaps: an instance that Acquire hands out is nobody else's and       *)
(* purged, its token is new, and no purge runs on it until its wrapper is  *)
(* released.                                                               *)
THEOREM SystemIsLease == Spec => ImplementsLease
<1>1. SystemInv /\ [Next]_vars => [L!LeaseNext]_(L!leaseVars)
  BY SystemStepMaps, Zenon
<1> QED
  BY <1>1, InitMaps, SystemInvariant, PTL DEF Spec, ImplementsLease, L!LeaseSpec

=============================================================================
