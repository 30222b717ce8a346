# TLA+ specifications of k8senv

k8senv gives Go tests a pool of real kube-apiservers.  A `Manager` hands out
instances; an instance is a pair of operating system processes, kine (with a
SQLite database) and kube-apiserver, that is started on first use, purged when
it is released and reused by the next test.  What is hard to get right in it,
and hard to test, is concurrency: parallel tests, a shutdown that overlaps
them, processes that die, ports that are shared, several test binaries that
build one cache, a database that is purged behind the API server's back.  That
is what these modules are about.

All paths and line numbers below are relative to the repository; `PROJECT.json`
maps every definition to the lines it models.

## The system and its parts

| Part | Source | Module | State |
|---|---|---|---|
| Instance pool | `internal/core/pool.go` | `Pool` | modelled |
| Acquisition tokens | `internal/core/instance.go` (generation counter) | `Pool` | modelled |
| What callers are promised | `interfaces.go` | `Lease` (abstract) | modelled |
| Instance lifecycle | `internal/core/instance.go`, `namespace.go` | `Instance` | partly |
| Client cache | `casClientCache` and its callers in `internal/core/instance.go`, `namespace.go` | `ClientCache` | modelled |
| Manager | `internal/core/manager.go` | `Manager` | modelled |
| Public wrappers | `k8senv.go`, `interfaces.go` | `Manager` | partly |
| Purge | `internal/core/purge.go` | `Purge` (and its effect in `Instance`, `Manager`) | modelled |
| Port registry | `internal/netutil/port.go` | `Ports` | modelled |
| Process stack | `internal/kubestack/stack.go` | `KubeStack` | modelled |
| kine, kube-apiserver | `internal/kine`, `internal/apiserver`, `internal/process/wait.go` | `KubeStack` | partly |
| Stop sequence of a process | `internal/process` | `Process` | modelled |
| CRD cache | `internal/crdcache`, `internal/fileutil/copy.go` | `CrdCache` | modelled |
| CRD application | `internal/crdcache/apply.go` | `CrdCache` | partly |
| Singleton, options, configuration, errors, logging, test helpers | `k8senv.go`, `options.go`, ... | | not modelled |

How they interact: `Manager.Acquire` takes an instance from the pool (a
semaphore bounds the instances in use, a stack holds the free ones, a factory
makes new ones) and starts it; `Instance.Start` calls
`kubestack.StartWithRetry`, which takes two ports from the registry, starts
both processes and waits for them.  `Release` purges the database and returns
the instance to the pool; an error on the way stops it and gives its slot back
with `ReleaseFailed`.  `Shutdown` drains the releases, closes the pool and
stops every instance.  `Initialize` builds or finds the CRD cache first.

## Modules

`EnvBase` declares the goroutines (`Threads`) and instances (`0 .. MaxIdx-1`).
A component keeps one frame per goroutine (its place in the code and its
locals), so that a module that calls it conjoins the component's actions with
its own.  `Manager` EXTENDS `Pool` and `Instance` in this way: a step of the
manager that calls into the pool is the pool's call action and the manager's
own part, and the steps inside the pool leave the manager alone.  (Its variables
and places are declared in `ManagerState`, so that what is proved about the
state alone does not depend on its steps.)  `KubeStack` EXTENDS `Ports`, and
`ClientCache` EXTENDS `Instance`, likewise.  `StopBudget` has the timeout of a
stop, which `KubeStack` and `Process` share.  Modules named `MC*` only define
values of constants and symmetry sets; definitions under a comment `Fault:` are
deliberate faults that some property must notice.  They are no part of a
specification.  The modules with proofs are listed under "What is proved".

**Lease.**  What the library promises, in four actions: a lease on an item is
granted, its holder writes, gives it back, and the item is wiped.  A grant needs
an item that nobody holds and that has no tenant's data, and a token newer than
all earlier ones for the item; a wipe needs an item that nobody holds.  Two
modules are shown to implement it by `INSTANCE Lease WITH`: `Manager`
(`ImplementsLease`: the leases are the wrappers that callers hold) and `Purge`
(`DatabaseImplementsLease`: one instance, whose `dirty` is computed from the rows
of its database).

**Pool.**  `sem` (tokens in the semaphore), `free`, `all`, `nextIdx`, `closed`,
`closeCh` and `gen` (the generation of every instance: odd while acquired, and
the token of an acquisition) are shared; `ppc`, `pinst`, `ptok`, `pret` are
frames; `lost` is a ghost for the slots of instances the manager keeps for good
during a shutdown.  An action is what happens between two points where another
goroutine may get in: waiting for the semaphore, a critical section of `p.mu`,
an atomic operation on the generation, a call of the factory.  In the pool's
own run callers also use tokens of earlier acquisitions.  `MaxSize` 0 is the
pool without a semaphore.

**Instance.**  `started`, `stack` (with its cancel function), `purge` and
`startMu` are the fields
of an instance, `running` and `openH` the stacks and purge handles that exist.
`Start` runs up to `MaxNamespaceRetries` attempts under `startMu`; a whole
`StartWithRetry` is one step here (module `KubeStack` is its inside).  `started`
and `purge` are also read without `startMu`, so the stores under it are steps:
`StartInstall` sets stack and handle and `StartPublish` sets `started`
(`instance.go:368-375`); `StopExtract` takes the fields out and clears the clients,
`StopUnpublish` clears `started` and unlocks (`instance.go:539-548`).  `Stop` closes
and kills after that.  A goroutine may stop several instances at once, as
`stopAllInstances` does.

**ClientCache.**  `clients` is the struct behind the atomic pointer,
`kubeconfig` the address in the file that every launch rewrites.  `Config` and
the client that `Start` polls with read the cache, read the file on a miss, and
store by compare-and-swap, each a step of its own; `Stop` and a failed attempt
clear the cache in their own steps.  An address is named after the stack that
serves it, so using an address of an old server shows.  The ghost `late` records
that a `Config` call was under way when the cache was last cleared, or began
between that and the store of `started` that follows it.

**Purge.**  `table` is kine's log, a set of rows with ids: writes and deletions
insert a row whose id (`lastId`) is greater than all before, and the row of a
name with the greatest id counts.  Ids are never given twice, also when the purge
has removed the last rows.  Start attempts with the polling for namespaces, the retry
loop and error paths of `openPurgeHandle`, tenants that create, update and
delete, writes of the API server at any time, and the `DELETE`.  Names are
sequences of path segments, so that `LIKE '%/<ns>/%'` is a segment that is not
the last.  kine and the tenants are external: modelled by what the statements of
`purge.go` presuppose of the table.

**ManagerState** and **Manager.**  `state`, `poolSet`, `inflight`, `inflightDone`,
`initMu`, and the wrappers that callers hold (`issued`, `released`).  The
database of an instance is `dirty` or not.  The unsynchronised reads of
`i.purge` in `Release` are two steps.  `SerialInit` says that the caller does
not call `Shutdown` until `Initialize` has returned; only the run that is about
this overlap gives it up.

**Ports** and **KubeStack.**  The kernel gives a probe listener any port that
nobody is bound to; `reserve` refuses one that the registry has; closing the
listener leaves a window until the process binds.  A stack starts its two
processes from two goroutines of an errgroup, each of which can fail to start,
die, time out or be cancelled by the other; the failed start is cleaned up, and
the attempt repeated unless the error is permanent.  A stop may fail and leave
the process, with its port bound, to the cancellation of its context.  `Stop`
refuses a timeout that is not positive; `Instance.Stop` has dropped the stack by
then, so a refusal would leave its ports registered for good (`StopRefused`).
`effectiveStopTimeout` keeps that from happening.

**Process.**  One process with time in ticks: the timeout that
`effectiveStopTimeout` makes of the caller's deadline (which may have passed),
SIGTERM, the kill timer, the main timer, the drain timer, the goroutine that
waits for the exit.  `Stop` of a process that was never started, or was stopped
before, returns nil at once (`StopNothing`, `base.go:79-81`), also when the earlier
`Stop` had to give the process up; the ghost `gaveUp` records that.

**CrdCache.**  Test binaries, which share nothing but files: the directory of
YAML files (edited meanwhile), the lock file with its inode, the cache files.
A build is a private set of objects that the API server accepts and
establishes; a binary may be killed anywhere.

## What is checked

Passing runs (distinct states on the bounds of the `.cfg`):

| Run | Asks | States |
|---|---|---|
| `pool` | one place per instance (`Exclusive`), slots conserved, semaphore never over-full, at most `maxSize` live instances, every instance known to `Instances()`, only the holder of the current token releases | 226,790 |
| `clients` | `Start`, `Stop` and `Config` in any order: no stack or handle is orphaned (`StackOwned`) or owned twice (`SingleOwner`), who sees `started` without the lock finds both unless a `Stop` is between its stores (`StartedComplete`), no client of an old server is used (`ClientsCurrent`), the swap loop of `Start` converges, no update of the cache is lost (`FieldsKept`) | 221,652 |
| `manager_safety` | one holder per instance; all slots come back; before `Shutdown` begins, no two stacks on one data directory (`OneStackPerDir`); after a `Shutdown` nothing runs that nobody holds; the manager implements `Lease` | 972,825 |
| `manager_live` | `Shutdown` returns without its drain timer and ends blocked calls of `Acquire`; `Stop` gets `startMu` from a `Start` under way | 23,322 |
| `stack_safety` | the registry is exact, also when the deadline of a stop has passed; ports distinct, no process forgotten, no port of a process that could not be stopped reused while it lives (`OrphanPortsAvoided`) | 373,093 |
| `process_stop` | `Stop`, also a second one, passes no process over in silence (`StopTruthful`), is bounded by its timeout, and kills, also when the deadline has passed | 2,652 |
| `purge` | a purge restores everything outside the system namespaces and touches nothing inside (`PurgeExact`); the database implements `Lease`; no connection leaks | 519,540 |
| `crd_cache` | a cache file is whole, holds what its name says, and is never replaced; `EnsureCache` returns whoever is killed or fails | 148,694 |

Runs that are expected to find a violation state what a comment of the
repository says, where the code does something else:

| Run | The text | What happens |
|---|---|---|
| `manager_final` | nothing leaves the state shutting-down (`manager.go:460-464`) | an overlapping `Initialize` stores `ready` over it (`manager.go:169`) |
| `manager_handout` | the recheck keeps `Acquire` from handing out after `Shutdown` (`manager.go:271-273`) | a whole `Shutdown` fits between recheck and `Start` |
| `manager_panic` | `i.purge` needs no synchronisation (`instance.go:150-152`) | `Shutdown`'s `Stop` clears it between two reads of a `Release` |
| `purge_cluster` | a release preserves "cluster-scoped resources" (`instance.go:652-654`) | the `DELETE` removes every row above the baseline that is not of a system namespace: a tenant's cluster-scoped objects go, and their changes to older ones are undone |

`PurgeExact` and the refinement of `Lease` state what the code does to
cluster-scoped objects; that is also what the next tenant needs, so it is the
comment that is out of step.

`ClientsCurrent` has a premise, `~late`.  Without it TLC finds what the comment
of `Config` (`instance.go:484`) calls a deliberate window: a `Config` call that
overlaps a `Stop` can store the old address after the cache was cleared, and a
later `Start` of the same instance polls the old server or is published with the
old config cached.  Until `Shutdown` the manager never gets there: an instance that
is stopped has left the pool and is not started again.  An `Acquire` that overlaps
`Shutdown` can start an instance that `Shutdown` has stopped (`manager_handout`),
and with it such a `Config` call matters.

`OneStackPerDir` is limited in the same way.  `Stop` unlocks `startMu` before it
ends the stack, so the `Start` of that schedule can run new processes in the
directory of old ones that are still being killed.  Before `Shutdown` it cannot
happen, which is what the property says.

Smaller differences between text and code that the models show, kept as
remarks:

* `stack.go:257-258` says that readiness timeouts are retried; the list of
  permanent errors has `context.DeadlineExceeded` (`stack.go:274`).
* A cluster-scoped object that the API server itself writes after the baseline
  was read is deleted or set back by the next purge, too (`PurgeExact`).
* `manager.go:386-388` says that `Shutdown` does not proceed while a release is
  in progress.  A release that has decremented `inflight` before the shutdown
  and looks at the state after it closes `inflightDone` although another one is
  inside the pool.  `ShutdownLeavesNothing` holds all the same: the pool's
  `closed` flag decides.
* `manager.go:245` and `interfaces.go:38` promise `ErrShuttingDown`; an
  `Acquire` that waits in the pool returns `ErrPoolClosed` (`pool.go:131`).
* `instance.go:526-527` says that the pool keeps `Start` and `Stop` apart;
  `Shutdown` stops instances that are being started.
* `pool.go:47` says that `maxSize` bounds the instances created.  Failed ones
  are replaced; `LiveBound`, on instances that may run, is what holds.
* `kine/process.go:152` takes a successful dial for kine's; the probe listener
  of another allocation may answer until kine has bound the port.
* `pool.go:274-275` says that `closeCh` is closed under `mu`; `Close` closes it
  after unlocking.  The branch it explains cannot be reached (`NeverFull`).

### Bounds

* `MaxIdx` 1 to 3 instances, 2 or 3 goroutines: exclusion, double release
  and ABA need two holders and one more generation; a third goroutine lets
  `Close` or a third caller overlap both.
* `MaxSize` 2 with three callers of the pool, 2 with two clients of the manager,
  and 1 in `manager_live` with a client that may call `Acquire` while it holds
  an instance: so `Acquire` blocks.  A pool without a semaphore (`MaxSize` 0)
  is covered by the proofs.
* `MaxAcquires` bounds the acquisitions of a run (and with them the
  generations): three for the pool, two for the manager, so that an instance
  is used, reused and failed.
* `Stacks` names the process stacks of an instance that exist at a time; a
  launch needs a name that is not in use.  Six for three goroutines on one
  instance and its cached addresses (a seventh is never needed), two in the
  manager's runs (a stack that is being stopped and a new
  one).
* `MaxNamespaceRetries` 2 in `clients` and `purge`, so that an attempt fails and
  another follows, and 1 in the manager's runs, where only the outcome of
  `Start` matters.  `MaxCASRetries` 3: `Start` never gets that far
  (`StartConverges`), an overlapping `Config` may.
* `MaxId` 5 with three rows of bootstrap in a cached database, `MaxLeases` 3,
  `BaselineQueryRetries` 3 as in the code: a tenant can change a bootstrapped
  object and create one, and two more tenants follow.  The objects include ones
  that bear the name of a system namespace without being in it.
* Two owners of stacks with four ports of one registry, `MaxPortRetries` and
  `MaxRetries` 2: a retry that succeeds, one that fails, and exhaustion occur.
  `Remaining` has a deadline that has passed and one that has not.
* Ticks in `MCProcess`: deadlines from one that has passed to one beyond grace
  period plus drain budget.  For a timeout of a single tick the bound is
  `drainReserve`'s floor, which is then longer (`process.go:104-110`);
  `WithinTimeout` says so.
* Two binaries, two files (an instance of a definition sorts before it), two
  versions, a directory that is full or empty at first and edited once at any
  time, three calls of `EnsureCache`: one more than binaries, so that one comes
  back after an error or a crash.  Three `Inodes`: a lock file gets a number that
  no open file and no path has.

Deadlock is not checked for `Process` (a process object is used up), `CrdCache`
(all calls have been made) and `Purge` (an instance that failed is never used
again).  In the other modules a
state in which nothing can happen is an error.

### Fairness

Weak fairness of the steps inside a call: a goroutine that is not blocked runs.
For the steps inside `Start` and `Stop` of an instance, which wait for `startMu`,
it is strong fairness: a `sync.Mutex` hands itself to a waiter that has been
passed over for a millisecond, so whoever waits for a mutex that is free again
and again gets it.
Nobody has to call anything, and no deadline has to expire: contexts and the
drain timer of `Shutdown` may, but the liveness properties do not depend on
them.  Process starts and readiness checks end, as each has a
timeout in the code.  In `Process` timers fire and a process exits after
SIGKILL.  In `CrdCache` a build ends, successfully or by its timeout
(`cfg.Timeout`); the wait for the lock ends only by the lock.

## What is proved

Every safety invariant, action property and refinement that a passing run checks
is also proved with TLAPS, for every value of the constants that the named
assumptions allow (any number of goroutines, instances, acquisitions, owners,
ports, binaries, files, objects, leases and retries; any size of the pool; every
length of a timer):

| Theorem | Says |
|---|---|
| `PoolTypeCorrect` | `PoolSpec => []PoolTypeOK` |
| `PoolExclusive` | `PoolSpec => []Exclusive`: an instance is free once, acquired, or in one goroutine's hands |
| `PoolAllTracked` | `PoolSpec => []AllTracked`: what can be running is in `p.all` |
| `PoolOnlyHolderReleases` | `PoolSpec => OnlyHolderReleases`: a stale token releases nothing |
| `PoolSlotConservation` | `PoolSpec => []SlotConservation`: every slot is accounted for |
| `PoolNeverFull` | `PoolSpec => []NeverFull`: the panic of `returnSlot` is unreachable |
| `PoolLiveBound` | `PoolSpec => []LiveBound`: never more than `maxSize` live instances |
| `SystemTypeCorrect` | `Spec => []TypeOK` of `Manager` |
| `SystemOneHolder` | `Spec => []OneHolder`: through the public API an instance has one holder, whose token is current |
| `SystemIsLease` | `Spec => ImplementsLease`: manager, pool, instances and wrappers refine `Lease` |
| `SystemCapacityRestored` | `SerialInit` implies `Spec => []CapacityRestored`: no slot leaks on any error path of `Acquire` and `Release` |
| `SystemShutdownLeavesNothing` | `SerialInit` implies `Spec => []ShutdownLeavesNothing`: after `Shutdown` only what a caller still holds runs |
| `SystemOneStackPerDir` | `SerialInit` implies `Spec => []OneStackPerDir`: before `Shutdown`, one stack per data directory |
| `SystemShutdownIsFinal` | `SerialInit` implies `Spec => ShutdownIsFinal`: without the overlap that `manager_final` shows, shutting down is final |
| `CacheTypeCorrect` | `CacheSpec => []CacheTypeOK` |
| `StacksAreOwned`, `OwnersAreSingle`, `StartedIsComplete` | `CacheSpec => []StackOwned`, `[]SingleOwner`, `[]StartedComplete`: whatever calls of `Start` and `Stop` overlap, no stack or purge handle is orphaned or stopped twice, and at every point between the stores of the two `started` is set without a stack only inside a `Stop`, a stack is there without it only inside a `Start` |
| `ClientsAreCurrent` | `CacheSpec => []ClientsCurrent`: no client of an old server, outside the window that `Config` documents, which lasts until `Stop` has cleared `started` |
| `StartDoesConverge` | `CacheSpec => []StartConverges`: one retry of the compare-and-swap suffices for `Start` |
| `FieldsAreKept` | `CacheSpec => FieldsKept`: no update of the cache is lost |
| `PurgeTypeCorrect`, `ConnectionsAreOwned` | `PurgeSpec => []PurgeTypeOK`, `[]ConnectionsOwned` |
| `PurgeIsExact` | `PurgeSpec => PurgeExact`: the `DELETE` undoes exactly what was written outside the system namespaces |
| `DatabaseIsLease` | `PurgeSpec => DatabaseImplementsLease`: the database of an instance refines `Lease` |
| `StackTypeCorrect`, `PortRegistryExact`, `PortPairsDistinct`, `NoProcessStrays` | `Spec => []StackTypeOK`, `[]RegistryExact`, `[]PortsDistinct`, `[]NoStrayProcess` of `KubeStack` |
| `NoOrphanPortReused` | `Spec => []OrphanPortsAvoided`: a port that a process is still bound to after a failed stop goes to no stack of the same registry |
| `StopWithinTimeout`, `StopIsTruthful`, `StopGivesUpAfterKill` | `ProcSpec => []WithinTimeout`, `[]StopTruthful`, `[]GivenUpAfterKill` of `Process` |
| `CacheIsSound`, `ResultIsUsable`, `CacheIsStable` | `Spec => []CacheSound`, `[]ResultUsable`, `CacheStable` of `CrdCache` |

None of the invariants is inductive as it stands.  The arguments:

* **Pool** (`PoolProofs`).  Layers, each of which includes the
  one before.  `TypeInv` adds to the types what a goroutine's place says of its
  frame.  `ExclInv` adds `Exclusive` and `FreshIndexes`, that an instance nobody has
  registered yet is nowhere: the factory's new instance must not already be on
  the stack or acquired.  `SlotInv` adds `SlotConservation` and `LiveBound`; it
  needs exclusion, as a slot is counted per acquired instance and per goroutine,
  and a step moves it from one to the other.  The counting uses the cardinality
  facts of `FiniteSetTheorems`, stated as lemmas about sets that gain or lose one
  element.  `TokenBound` bounds the generations by the calls of `Acquire`, which
  the refinement of `Lease` needs: its tokens come from a bounded set.
* **Instance** (`InstanceInv`, `InstanceProofs`).  `InstInv` says that `startMu` is held exactly
  by a `Start` between its test of `started` and its end or by a `Stop` between its
  stores (`StartHolds`, `MuOK`), that a `Stop` takes stack and handle together, what
  `started` and `stack` are while each of them has the mutex and while nobody has it
  (`Phase`), and, per instance, who the owners are (`Owned`, `Apart`, `Complete`).  It is shown to be preserved by every step of `Start` and
  `Stop` and by a launch that gives a stack any name not in use, so that the
  lemmas serve every specification that composes `Instance`.
* **Manager** with everything below it (`ManagerMoves`, `ManagerStepProofs`,
  `ManagerProofs`, `SystemProofs`); see the next section.
* **ClientCache** (`CacheProofs`).  `CacheInv` adds, per goroutine, its
  frame (`FrameOK`), the file it reads (`KubeOK`) and its part in the
  compare-and-swap (`Converge`): while a `Start` verifies, others can only set the
  config, and only once, so a lost swap of the config finds it set and the swap
  of the clientset is never lost.  Per instance, `Current` says what the cache
  holds at each stage of the `Start` that fills it, unless a `Config` call
  overlapped the last clearing.
* **Purge** (`StackProofs`).  `PurgeInv` says that all rows up to the baseline
  are the API server's own, that until the first lease all rows are, and that
  between leases a tenant's rows are left in system namespaces only.
  `SparedIsSystem`, that the filter on paths spares exactly the objects in or of
  a system namespace, carries both `PurgeIsExact` and the refinement.  For the
  refinement each step maps to a step of `Lease` or to none: `Acquire` grants,
  `Release` gives back, writes during a lease write, the purge wipes; a write of
  the API server between `Release` and the purge can only replace what a tenant
  has left, which is a wipe or nothing.
* **KubeStack** (`StackProofs`).  `PlaceOK` says which of its ports an owner
  has at every place of `StartWithRetry` and `AllocatePortPair`, `ProcOK` when its
  goroutines and processes may be there.  Both are about one owner and a step is
  about one owner, so the others come for free, except that two owners never hold
  the same port of a registry.  `StopAccepted`: the timeout is at least a
  millisecond, so `Stop` never refuses.  `NoOrphanPortReused` also needs `ProbeFree`,
  that no probe listens where a process is bound: the registry has forgotten the
  port, and only the kernel keeps it from being handed out.
* **Process** (`StackProofs`).  What has passed and what is left of the timeout
  never add up to more than the whole; the kill timer never exceeds the main one.
  A process without `cmd` was never started, has been waited for or was given up,
  which is why the nil of a second `Stop` hides nothing new.
* **CrdCache** (`CacheProofs`).  A binary that has the lock has locked the
  inode that the path names (`LockOK`) and no two have the same one
  (`LocksApart`), so what a builder did not find is still missing when it renames
  (`FileOK`); what it has applied is what it has hashed (`BuildOK`).

### The manager with the pool and the instances

The invariant is `SystemInv`: that of the pool, that of the instances, `MgrInv`
and `InflightCounts`.  The parts need each other.  A step of the composition is a
step that the pool or an instance allows only because the manager's frames name
instances and tokens that exist (`Link`); that carries the invariants of
`PoolProofs` and `InstanceProofs` over.  `MgrInv` in turn uses both at almost every
step: `Exclusive`, for one, is why nobody else has what `Acquire` has just been
given.  `MgrInv` (module `ManagerMoves`) has these conjuncts:

| Conjunct | Says | Needed for |
|---|---|---|
| `MgrTypes` | types of the manager's own variables | all |
| `Link` | which place of the manager a frame in the pool, in `Start` or in `Stop` belongs to | all |
| `HeldOK`, `HasOK`, `BusyHeld` | an acquired instance has exactly one holder, a wrapper or a goroutine inside `Acquire` or `Release`, with the current token | `OneHolder`, `CapacityRestored`, `ImplementsLease` |
| `NewTokens` | what is about to be handed out has a token newer than all handed out for it | `ImplementsLease` |
| `StopsGone` | until `Close`, what is being stopped has left circulation for good (`Gone`) | `OneStackPerDir` |
| `ClosedOK` | `Close` has emptied the free stack, and `Shutdown` stops instances only after it | `ShutdownLeavesNothing` |
| `OneStack`, `StartedHeld` | until `Close`, one stack runs per instance, and the instance of a wrapper is started | `OneStackPerDir`, `Clean` |
| `Clean` | an instance with a tenant's data is not free, nor on its way there or to another caller (`Secluded`) | `ImplementsLease` |
| `Accounted` | whatever is installed is in `p.all`, and is free, acquired, or in the charge of a goroutine that will stop it or hand it on | `ShutdownLeavesNothing` |
| `SetUp` | who is in `Initialize` has `initMu`; a pool once set stays | all |

`StartedHeld` is in it because of an early exit: `Release` does not purge an
instance that is not started.  That is right only if such an instance cannot have
a tenant's data and be handed out again, that is, if before `Close` the instance
of a wrapper is started.

`Final` is the part that needs `SerialInit`: when nobody calls `Initialize` and
`Shutdown` at the same time, an instance is given up and the pool closed only in
the state shutting-down, and that state stays.  The three properties that speak of
"before" or "after `Shutdown`" rest on it; types, `OneHolder` and the refinement
of `Lease` do not, so they hold for callers that do overlap the two.

The proof is in four modules.

* `ManagerMoves` defines the invariant and twenty-odd *kinds* of steps, each with
  what a step of goroutine `t` does to the places of its frames, to the wrappers
  and to the instances (`GrantMove`: a wrapper is handed out; `TakeMove`: it is
  given back; `PresentMove`: its token goes to the pool; `GiveUpMove`, `StopMove`,
  ...), and lemmas on what the kinds can change.
* `ManagerStepProofs` shows that every action of `Manager`, including the steps of
  `Pool` and `Instance` that it composes, is of one of the kinds; that the steps
  keep the conjuncts on the manager's own fields; and how the steps map to `Lease`:
  handing out grants, a tenant's use writes, the start of `Release` gives back, the
  purge wipes, all others map to no step.
* `ManagerProofs` shows that the kinds keep the other conjuncts.  It never looks at
  an action, so a change of the code that keeps the kinds leaves it alone.
* `SystemProofs` puts the parts together and derives the theorems.  Counting enters
  here: `m.inflight` is the number of releases inside `tryReleaseToPool`, and with
  no call under way the wrappers and the acquired instances correspond one to one.

Assumptions on the constants are named, in the module that declares them, and
only say what kind of value each is (a retry limit is positive, `None` names no
stack), with three that say more.  `ObjectsAssumption`: no resource or API group
has the name of a system namespace.  The filter `LIKE '%/<ns>/%'` needs it: the
objects of a resource named `default` would be spared.  `CachedAssumption`: the
cached database was made before there was a tenant.  `NeedsAssumption`: a
definition needs no other definition.  `SerialInit` is a premise of the theorems
that need it and no assumption.

Left to TLC:

* All liveness (`manager_live`, `StopKills`, `EnsureReturns`):
  it rests on fairness and `ENABLED`, which TLAPS does not handle.
* What a recursive definition computes for every input would need induction with
  an operator parameter.  The models avoid it where something is proved: the last
  row of an object is a set defined by its greatest id, not a search through a
  sequence.

## What is not modelled

* Contents of files, certificates, command lines, logging, wording of errors;
  options and validation, which are functions without state.
* The singleton of `NewManager`: one critical section around a pointer, with a
  reset that only tests call.
* `lastErr` of an instance, which nothing but `Err` reads.
* Death of a process after it became ready: the code does not supervise.
* The discovery mapper's lock and singleflight (`apply.go`): definitions are
  applied concurrently but only read the mapper, and the documents that may
  refresh it are applied one after the other, so no refresh is ever contended.
* kine and SQLite beyond what the purge presupposes: compaction, what becomes of
  the journal of a killed kine whose database is copied over, and of the
  database file of a kine that ended by SIGKILL (it counts as whole in
  `CrdCache`).
* A tenant's request that is still under way when its instance is purged: the
  purge relies on there being none (`purge.go:187-188`).
* Several port registries (test binaries) on one machine: only in the proofs, too
  large for TLC.
* That `StartWithRetry` returns: it does because its attempts are bounded
  (`StackTypeOK`) and every wait in one has a timeout.
