------------------------------- MODULE Purge --------------------------------
(***************************************************************************)
(* The database of one instance and the purge that makes it fit for the    *)
(* next tenant (internal/core/purge.go, namespace.go, releasePurge).       *)
(*                                                                         *)
(* kine keeps a log: every write inserts a row with a new, greater id, the *)
(* last row of a name is its state, a deletion is a row too.  table is the *)
(* set of rows, lastId the greatest id that was ever given, and baseline   *)
(* the id that openPurgeHandle has read.  A name is the path of an object, *)
(* a sequence of segments after "/registry".                               *)
(*                                                                         *)
(* The API server writes at any time while it runs, a tenant only while it *)
(* holds the instance.  kine's compaction is left out.                     *)
(***************************************************************************)
EXTENDS Naturals, Sequences

CONSTANTS
    SystemNamespaces,        \* systemNamespaces
    Objects,                 \* [prefix, ns, name] of what may be stored
    SystemObjects,           \* those the API server itself writes
    CachedTable, CachedId,   \* the rows in a cached database, their last id
    MaxNamespaceRetries,     \* maxNamespaceRetries (3 in the code)
    BaselineQueryRetries,    \* baselineQueryRetries (3 in the code)
    MaxId, MaxLeases         \* bounds: ids, acquisitions

ASSUME PurgeAssumption ==
    {MaxNamespaceRetries, BaselineQueryRetries, MaxId, MaxLeases} \subseteq Nat \ {0}

(* CopyData of kine gives a new instance a database that EnsureCache has   *)
(* made, before there is a tenant.                                         *)
ASSUME CachedAssumption ==
    /\ SystemObjects \subseteq Objects
    /\ CachedId \in 0 .. MaxId
    /\ CachedTable \subseteq
          [id : 1 .. CachedId, obj : Objects, by : {"system"}, deleted : BOOLEAN]
    /\ \A r, q \in CachedTable : r.id = q.id => r = q

VARIABLES
    table, lastId, baseline,
    hasCache,     \* CachedDBPath is set; never changes
    phase,        \* what the instance is doing
    startTry,     \* the loop of doStart
    openTry,      \* the retry loop of openPurgeHandle
    conns,        \* SQLite connections of this process to the database
    acquired      \* acquisitions so far

purgeVars == <<table, lastId, baseline, hasCache, phase, startTry, openTry, conns, acquired>>

NoNamespace == "none"    \* of a cluster-scoped object

(* A path begins with the resource, or its group and the resource: none of *)
(* them has the name of a system namespace.                                *)
ASSUME ObjectsAssumption ==
    /\ Objects \subseteq [prefix : Seq(STRING) \ {<<>>}, ns : STRING, name : STRING]
    /\ \A o \in Objects : \A k \in 1 .. Len(o.prefix) : o.prefix[k] \notin SystemNamespaces
    /\ NoNamespace \notin SystemNamespaces

Phases == {"poll", "query", "prepare", "free", "held", "purge", "failed"}
Rows == [id : 1 .. MaxId, obj : Objects, by : {"system", "tenant"}, deleted : BOOLEAN]

Path(o) == o.prefix \o (IF o.ns = NoNamespace THEN <<>> ELSE <<o.ns>>) \o <<o.name>>

NamespaceObject(ns) == [prefix |-> <<"namespaces">>, ns |-> NoNamespace, name |-> ns]

(* The last row of o up to the id n, if there is one.                      *)
LastRow(o, n) ==
    {r \in table : /\ r.obj = o /\ r.id <= n
                   /\ \A q \in table : q.obj = o /\ q.id <= n => q.id <= r.id}

Visible(o, n) == \E r \in LastRow(o, n) : ~r.deleted

InsertRow(o, by, deleted) ==
    /\ lastId < MaxId
    /\ lastId' = lastId + 1
    /\ table' = table \cup {[id |-> lastId', obj |-> o, by |-> by, deleted |-> deleted]}

PurgeInit ==
    /\ hasCache \in BOOLEAN
    /\ table = IF hasCache THEN CachedTable ELSE {}
    /\ lastId = IF hasCache THEN CachedId ELSE 0
    /\ baseline = 0
    /\ phase = "poll"
    /\ startTry = 1
    /\ openTry = 0
    /\ conns = 0
    /\ acquired = 0

-----------------------------------------------------------------------------
(* The API server bootstraps and renews its own objects.                   *)
SystemWrite(o) ==
    /\ phase # "failed"
    /\ InsertRow(o, "system", FALSE)
    /\ UNCHANGED <<baseline, hasCache, phase, startTry, openTry, conns, acquired>>

(* waitForSystemNamespaces has seen all system namespaces; openPurgeHandle *)
(* opens the database.                                                     *)
PollOK ==
    /\ phase = "poll"
    /\ \A ns \in SystemNamespaces : Visible(NamespaceObject(ns), lastId)
    /\ phase' = "query"
    /\ openTry' = 0
    /\ conns' = conns + 1
    /\ UNCHANGED <<table, lastId, baseline, hasCache, startTry, acquired>>

(* teardownFailedAttempt, and the next attempt, in which a new kine starts *)
(* on the old database or on a new copy of the cache; or the end of        *)
(* doStart, when the attempts are used up or StartWithRetry fails.         *)
Teardown ==
    /\ baseline' = 0
    /\ openTry' = 0
    /\ \/ /\ startTry < MaxNamespaceRetries
          /\ phase' = "poll"
          /\ startTry' = startTry + 1
          /\ table' = IF hasCache THEN CachedTable ELSE table
          /\ lastId' = IF hasCache THEN CachedId ELSE lastId
       \/ /\ phase' = "failed"
          /\ UNCHANGED <<startTry, table, lastId>>
    /\ UNCHANGED <<hasCache, acquired>>

(* The namespaces do not appear in time.                                   *)
PollTimeout ==
    /\ phase = "poll"
    /\ Teardown
    /\ UNCHANGED conns

(* SELECT COALESCE(MAX(id), 0) succeeds ...                                *)
BaselineRead ==
    /\ phase = "query"
    /\ baseline' \in {0} \cup {r.id : r \in table}
    /\ \A r \in table : r.id <= baseline'
    /\ phase' = "prepare"
    /\ UNCHANGED <<table, lastId, hasCache, startTry, openTry, conns, acquired>>

\* Fault: one attempt too many.
BaselineBusy_OffByOne ==
    /\ phase = "query"
    /\ openTry < BaselineQueryRetries
    /\ openTry' = openTry + 1
    /\ UNCHANGED <<table, lastId, baseline, hasCache, phase, startTry, conns, acquired>>

(* ... or meets SQLITE_BUSY and is tried again after a pause.              *)
BaselineBusy ==
    /\ phase = "query"
    /\ openTry < BaselineQueryRetries - 1
    /\ openTry' = openTry + 1
    /\ UNCHANGED <<table, lastId, baseline, hasCache, phase, startTry, conns, acquired>>

\* Fault: the connection is not closed when opening fails.
OpenFails_Leak ==
    /\ \/ phase = "query" /\ (openTry > 0 \/ openTry = BaselineQueryRetries - 1)
       \/ phase = "prepare"
    /\ Teardown
    /\ UNCHANGED conns

(* The query has failed for the last time, the context ends during a       *)
(* pause, or the DELETE cannot be prepared.                                *)
OpenFails ==
    /\ \/ phase = "query" /\ (openTry > 0 \/ openTry = BaselineQueryRetries - 1)
       \/ phase = "prepare"
    /\ conns' = conns - 1
    /\ Teardown

(* The handle is installed and the instance has started.                   *)
OpenPurgeHandle ==
    /\ phase = "prepare"
    /\ phase' = "free"
    /\ UNCHANGED <<table, lastId, baseline, hasCache, startTry, openTry, conns, acquired>>

-----------------------------------------------------------------------------
Acquire ==
    /\ phase = "free"
    /\ acquired < MaxLeases
    /\ phase' = "held"
    /\ acquired' = acquired + 1
    /\ UNCHANGED <<table, lastId, baseline, hasCache, startTry, openTry, conns>>

(* A tenant creates or updates an object, or deletes one; the API server   *)
(* lets nobody delete its namespaces.                                      *)
TenantPut(o) ==
    /\ phase = "held"
    /\ InsertRow(o, "tenant", FALSE)
    /\ UNCHANGED <<baseline, hasCache, phase, startTry, openTry, conns, acquired>>

TenantDelete(o) ==
    /\ phase = "held"
    /\ Visible(o, lastId)
    /\ o \notin {NamespaceObject(ns) : ns \in SystemNamespaces}
    /\ InsertRow(o, "tenant", TRUE)
    /\ UNCHANGED <<baseline, hasCache, phase, startTry, openTry, conns, acquired>>

Release ==
    /\ phase = "held"
    /\ phase' = "purge"
    /\ UNCHANGED <<table, lastId, baseline, hasCache, startTry, openTry, conns, acquired>>

\* Faults of the filter: the objects in system namespaces are not spared;
\* the pattern is '%/<ns>%', without the second slash.
spared_ExactOnly(path) == \E ns \in SystemNamespaces : path = <<"namespaces", ns>>
spared_NoSlash(path) ==
    \E ns \in SystemNamespaces :
        path = <<"namespaces", ns>> \/ \E k \in 1 .. Len(path) : path[k] = ns

(* The filter of buildPurgeDeleteQuery: the names of the system            *)
(* namespaces, and LIKE '%/<ns>/%', a segment that is not the last.        *)
spared(path) ==
    \E ns \in SystemNamespaces :
        path = <<"namespaces", ns>> \/ \E k \in 1 .. Len(path) - 1 : path[k] = ns

\* Fault: the comparison of the ids is off by one.
afterPurge_OffByOne == {r \in table : r.id <= baseline + 1 \/ spared(Path(r.obj))}

(* DELETE FROM kine WHERE id > baseline AND the filter.                    *)
afterPurge == {r \in table : r.id <= baseline \/ spared(Path(r.obj))}

(* Release purges; the instance is free again.                             *)
PurgeOK ==
    /\ phase = "purge"
    /\ table' = afterPurge
    /\ phase' = "free"
    /\ UNCHANGED <<lastId, baseline, hasCache, startTry, openTry, conns, acquired>>

(* The statement fails and changes nothing: failRelease removes the        *)
(* instance from the pool and stops it, which closes the handle.           *)
PurgeErr ==
    /\ phase = "purge"
    /\ phase' = "failed"
    /\ conns' = conns - 1
    /\ UNCHANGED <<table, lastId, baseline, hasCache, startTry, openTry, acquired>>

PurgeNext ==
    \/ PollOK \/ PollTimeout
    \/ BaselineRead \/ BaselineBusy \/ OpenFails \/ OpenPurgeHandle
    \/ Acquire \/ Release \/ PurgeOK \/ PurgeErr
    \/ \E o \in SystemObjects : SystemWrite(o)
    \/ \E o \in Objects : TenantPut(o) \/ TenantDelete(o)

PurgeSpec == PurgeInit /\ [][PurgeNext]_purgeVars

-----------------------------------------------------------------------------
PurgeTypeOK ==
    /\ table \subseteq Rows
    /\ lastId \in 0 .. MaxId
    /\ \A r \in table : r.id <= lastId
    /\ \A r, q \in table : r.id = q.id => r = q
    /\ baseline \in 0 .. lastId
    /\ hasCache \in BOOLEAN
    /\ phase \in Phases
    /\ startTry \in 1 .. MaxNamespaceRetries
    /\ openTry \in 0 .. BaselineQueryRetries - 1
    /\ conns \in Nat
    /\ acquired \in 0 .. MaxLeases

(* What an object's place says, without looking at its path.               *)
OfSystem(o) ==
    \/ o.ns \in SystemNamespaces
    \/ \E ns \in SystemNamespaces : o = NamespaceObject(ns)

(* Outside the system namespaces a tenant has left an object, or has       *)
(* deleted one that was there before the first tenant.                     *)
TenantData(o) ==
    /\ ~OfSystem(o)
    /\ \E r \in LastRow(o, lastId) : r.by = "tenant" /\ (~r.deleted \/ Visible(o, baseline))

(* What a lease means on the level of the database: over any number of     *)
(* tenants, attempts and API server writes, an instance is handed out only *)
(* while no earlier tenant's data can be seen outside the system           *)
(* namespaces, and it is purged only while nobody holds it.                *)
D == INSTANCE Lease WITH
        Items <- {0},
        Tokens <- 1 .. MaxLeases,
        leases <- IF phase = "held" THEN {<<0, acquired>>} ELSE {},
        past <- {<<0, k>> : k \in 1 .. IF phase = "held" THEN acquired - 1 ELSE acquired},
        dirty <- [i \in {0} |-> \E o \in Objects : TenantData(o)]

DatabaseImplementsLease == D!LeaseSpec

(* A purge touches nothing in or of a system namespace, and brings every   *)
(* other object back to its state when the instance started, undoing       *)
(* updates and deletions.  That includes cluster-scoped objects: what the  *)
(* comment of Release says of those is ClusterScopedPreserved.             *)
PurgeExact ==
    [][phase = "purge" /\ phase' = "free" =>
          \A o \in Objects :
              LastRow(o, lastId)' = LastRow(o, IF OfSystem(o) THEN lastId ELSE baseline)]_purgeVars

(* "cluster-scoped resources, and resources within system namespaces are   *)
(* preserved" (Release, instance.go:653-654): a purge keeps what a tenant  *)
(* has written to an object that is in no namespace and is not one.        *)
ClusterScopedPreserved ==
    [][phase = "purge" /\ phase' = "free" =>
          \A r \in table :
              /\ r.by = "tenant"
              /\ r.obj.ns = NoNamespace
              /\ r.obj.prefix # <<"namespaces">>
              => r \in table']_purgeVars

(* Connections do not leak: there is one while a handle is being opened or *)
(* is installed, and none after any failure.                               *)
ConnectionsOwned == conns = IF phase \in {"poll", "failed"} THEN 0 ELSE 1

=============================================================================
