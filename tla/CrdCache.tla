------------------------------ MODULE CrdCache ------------------------------
(***************************************************************************)
(* internal/crdcache: test binaries that share a cache directory and call  *)
(* EnsureCache, each with the same directory of YAML files, which somebody *)
(* may be editing.                                                         *)
(*                                                                         *)
(* A file holds one document, in one of several versions.  The hash of a   *)
(* set of files is the set itself: 64 bits of SHA-256 are taken to be      *)
(* without collisions.  The temporary kine and kube-apiserver of a binary  *)
(* are what they hold; how they start and stop is in module KubeStack.     *)
(***************************************************************************)
EXTENDS Integers, FiniteSets, FiniteSetsExt

CONSTANTS
    Binaries,       \* operating system processes that call EnsureCache
    NumFiles,       \* files of the directory, numbered in lexical order
    CRDs,           \* those that hold a CustomResourceDefinition
    Needs,          \* the definitions the document of a file is an instance of
    Versions,       \* versions of a file
    InitialDirs,    \* contents of the directory to begin with
    NoFile,         \* the file does not exist
    NoDB,           \* the database does not exist
    Inodes,         \* bound: inode numbers of lock files, 0 is none
    MaxCalls,       \* bound: calls of EnsureCache
    MaxEdits        \* bound: changes of the directory

Files == 1 .. NumFiles
Contents == [Files -> Versions \cup {NoFile}]
Empty == [f \in Files |-> NoFile]
Hashes == Contents \ {Empty}
Present(c) == {f \in Files : c[f] # NoFile}
DB == [objs : Contents, est : SUBSET CRDs, whole : BOOLEAN, by : Binaries \X Nat]

ASSUME FilesAssumption == NumFiles \in Nat \ {0} /\ CRDs \subseteq Files
ASSUME NeedsAssumption == Needs \in [Files -> SUBSET CRDs] /\ \A f \in CRDs : Needs[f] = {}
ASSUME AbsentAssumption == NoFile \notin Versions /\ NoDB \notin DB /\ 0 \notin Inodes
ASSUME DirsAssumption == InitialDirs \subseteq Contents

VARIABLES
    dir, edits,     \* the directory, and how often it has been changed
    cache,          \* the file cached-<hash>.db, for every hash
    lockFile,       \* the inode of cached-<hash>.db.lock, 0 if there is none
    fd, locked,     \* the inode a binary has open, and who has locked theirs
    pc, calls,      \* the place in EnsureCache, and the calls so far
    list,           \* paths that computeDirHash has yet to read
    files,          \* contents it has read
    kine,           \* the temporary stack runs
    objs, est,      \* objects in its database, and definitions established
    temp            \* the temporary file of CopyFile

dirVars == <<dir, edits>>
lockVars == <<lockFile, fd, locked>>
hashVars == <<list, files>>
stackVars == <<kine, objs, est>>
vars == <<dirVars, cache, lockVars, pc, calls, hashVars, stackVars, temp>>

Building == {"build", "crds", "others", "wait", "stop", "copy", "rename", "created"}
Hashed == {"stat", "open", "lock", "recheck", "ok"} \cup Building
Running == {"walk", "read", "stat", "open", "lock", "recheck"} \cup Building

To(b, place) == pc' = [pc EXCEPT ![b] = place]

(* A database file, as the temporary stack of b leaves it: a copy made     *)
(* while kine still writes may be torn.                                    *)
Snapshot(b) == [objs |-> objs[b], est |-> est[b], whole |-> ~kine[b], by |-> <<b, calls[b]>>]

Init ==
    /\ dir \in InitialDirs
    /\ edits = 0
    /\ cache = [h \in Hashes |-> NoDB]
    /\ lockFile = [h \in Hashes |-> 0]
    /\ fd = [b \in Binaries |-> 0]
    /\ locked = {}
    /\ pc = [b \in Binaries |-> "idle"]
    /\ calls = [b \in Binaries |-> 0]
    /\ list = [b \in Binaries |-> {}]
    /\ files = [b \in Binaries |-> Empty]
    /\ kine = [b \in Binaries |-> FALSE]
    /\ objs = [b \in Binaries |-> Empty]
    /\ est = [b \in Binaries |-> {}]
    /\ temp = [b \in Binaries |-> NoDB]

-----------------------------------------------------------------------------
(* EnsureCache is called by Initialize, again after an error, and by a     *)
(* binary that is run again after a crash.                                 *)
Call(b) ==
    /\ pc[b] \in {"idle", "err", "crashed"}
    /\ MapThenSumSet(LAMBDA c : calls[c], Binaries) < MaxCalls
    /\ calls' = [calls EXCEPT ![b] = @ + 1]
    /\ files' = [files EXCEPT ![b] = Empty]
    /\ To(b, "walk")
    /\ UNCHANGED <<dirVars, cache, lockVars, list, stackVars, temp>>

(* walkYAMLFiles; a directory without YAML files is an error.              *)
Walk(b) ==
    /\ pc[b] = "walk"
    /\ list' = [list EXCEPT ![b] = Present(dir)]
    /\ To(b, IF Present(dir) = {} THEN "err" ELSE "read")
    /\ UNCHANGED <<dirVars, cache, lockVars, calls, files, stackVars, temp>>

(* computeDirHash reads the files one after the other; one that has been   *)
(* removed since the walk is an error.                                     *)
ReadFile(b) ==
    LET f == Min(list[b]) IN
    /\ pc[b] = "read"
    /\ files' = [files EXCEPT ![b][f] = dir[f]]
    /\ list' = [list EXCEPT ![b] = IF dir[f] = NoFile THEN {} ELSE @ \ {f}]
    /\ To(b, IF dir[f] = NoFile THEN "err" ELSE IF list[b] = {f} THEN "stat" ELSE "read")
    /\ UNCHANGED <<dirVars, cache, lockVars, calls, stackVars, temp>>

Stat(b) ==
    /\ pc[b] = "stat"
    /\ To(b, IF cache[files[b]] # NoDB THEN "ok" ELSE "open")
    /\ UNCHANGED <<dirVars, cache, lockVars, calls, hashVars, stackVars, temp>>

-----------------------------------------------------------------------------
(* flock opens the lock file, and creates it with a new inode if there is  *)
(* none.                                                                   *)
FreeInodes == Inodes \ ({fd[b] : b \in Binaries} \cup {lockFile[h] : h \in Hashes})

OpenLock(b) ==
    LET h == files[b]
        n == IF lockFile[h] = 0 THEN CHOOSE i \in FreeInodes : TRUE ELSE lockFile[h] IN
    /\ pc[b] = "open"
    /\ lockFile[h] = 0 => FreeInodes # {}
    /\ lockFile' = [lockFile EXCEPT ![h] = n]
    /\ fd' = [fd EXCEPT ![b] = n]
    /\ To(b, "lock")
    /\ UNCHANGED <<dirVars, cache, locked, calls, hashVars, stackVars, temp>>

(* A poll of TryLockContext that succeeds.                                 *)
TryLock(b) ==
    /\ pc[b] = "lock"
    /\ \A c \in locked : fd[c] # fd[b]
    /\ locked' = locked \cup {b}
    /\ To(b, "recheck")
    /\ UNCHANGED <<dirVars, cache, lockFile, fd, calls, hashVars, stackVars, temp>>

\* Fault: the lock file is removed when the lock is released.
releaseFileLock_Remove(b) ==
    /\ lockFile' = IF b \in locked THEN [lockFile EXCEPT ![files[b]] = 0] ELSE lockFile
    /\ fd' = [fd EXCEPT ![b] = 0]
    /\ locked' = locked \ {b}

\* Fault: the lock is kept until the binary ends.
releaseFileLock_Keep(b) == UNCHANGED lockVars

(* The descriptor is closed, which unlocks; the lock file stays.           *)
releaseFileLock(b) ==
    /\ fd' = [fd EXCEPT ![b] = 0]
    /\ locked' = locked \ {b}
    /\ UNCHANGED lockFile

\* Fault: the cache is not looked at again under the lock.
Recheck_Skipped(b) ==
    /\ pc[b] = "recheck"
    /\ To(b, "build")
    /\ UNCHANGED lockVars
    /\ UNCHANGED <<dirVars, cache, calls, hashVars, stackVars, temp>>

Recheck(b) ==
    LET found == cache[files[b]] # NoDB IN
    /\ pc[b] = "recheck"
    /\ To(b, IF found THEN "ok" ELSE "build")
    /\ IF found THEN releaseFileLock(b) ELSE UNCHANGED lockVars
    /\ UNCHANGED <<dirVars, cache, calls, hashVars, stackVars, temp>>

-----------------------------------------------------------------------------
(* createCache, populateCache: a new directory and a new stack in it.      *)
StartStack(b) ==
    /\ pc[b] = "build"
    /\ kine' = [kine EXCEPT ![b] = TRUE]
    /\ objs' = [objs EXCEPT ![b] = Empty]
    /\ est' = [est EXCEPT ![b] = {}]
    /\ To(b, "crds")
    /\ UNCHANGED <<dirVars, cache, lockVars, calls, hashVars, temp>>

Unapplied(b) == Present(files[b]) \ Present(objs[b])

\* Fault: the file is read again when it is applied.
applyParsedDocument_Reread(b, f) == objs' = [objs EXCEPT ![b][f] = dir[f]]

applyParsedDocument(b, f) == objs' = [objs EXCEPT ![b][f] = files[b][f]]

(* Phase 1: the definitions, in parallel.                                  *)
ApplyCRD(b) ==
    /\ pc[b] = "crds"
    /\ \E f \in Unapplied(b) \cap CRDs : applyParsedDocument(b, f)
    /\ UNCHANGED <<dirVars, cache, lockVars, pc, calls, hashVars, kine, est, temp>>

ApplyWait(b) ==
    /\ pc[b] = "crds"
    /\ Unapplied(b) \cap CRDs = {}
    /\ To(b, "others")
    /\ UNCHANGED <<dirVars, cache, lockVars, calls, hashVars, stackVars, temp>>

(* discoverRESTMapping finds the kind of a document once its definition is *)
(* established; it refreshes the mapper until then, or fails.              *)
discoverRESTMapping(b, f) == Needs[f] \subseteq est[b]

(* Phase 2: the other documents, in the order of the files.                *)
ApplyOther(b) ==
    /\ pc[b] = "others"
    /\ Unapplied(b) # {}
    /\ discoverRESTMapping(b, Min(Unapplied(b)))
    /\ applyParsedDocument(b, Min(Unapplied(b)))
    /\ UNCHANGED <<dirVars, cache, lockVars, pc, calls, hashVars, kine, est, temp>>

ApplyDone(b) ==
    /\ pc[b] = "others"
    /\ Unapplied(b) = {}
    /\ To(b, "wait")
    /\ UNCHANGED <<dirVars, cache, lockVars, calls, hashVars, stackVars, temp>>

(* The API server establishes a definition it has accepted, some time.     *)
Establish(b) ==
    /\ kine[b]
    /\ \E f \in (CRDs \cap Present(objs[b])) \ est[b] : est' = [est EXCEPT ![b] = @ \cup {f}]
    /\ UNCHANGED <<dirVars, cache, lockVars, pc, calls, hashVars, kine, objs, temp>>

(* waitForCRDsEstablished                                                  *)
WaitEstablished(b) ==
    /\ pc[b] = "wait"
    /\ CRDs \cap Present(objs[b]) \subseteq est[b]
    /\ To(b, "stop")
    /\ UNCHANGED <<dirVars, cache, lockVars, calls, hashVars, stackVars, temp>>

(* stopStack, before the database is copied.                               *)
StopStack(b) ==
    /\ pc[b] = "stop"
    /\ kine' = [kine EXCEPT ![b] = FALSE]
    /\ To(b, "copy")
    /\ UNCHANGED <<dirVars, cache, lockVars, calls, hashVars, objs, est, temp>>

\* Fault: the database is copied straight to its place.
CopyData_InPlace(b) ==
    /\ pc[b] = "copy"
    /\ temp' = [temp EXCEPT ![b] = Snapshot(b)]
    /\ cache' = [cache EXCEPT ![files[b]] = [Snapshot(b) EXCEPT !.whole = FALSE]]
    /\ To(b, "rename")
    /\ UNCHANGED <<dirVars, lockVars, calls, hashVars, stackVars>>

(* CopyFile with Atomic: into a temporary file, synced and closed ...      *)
CopyData(b) ==
    /\ pc[b] = "copy"
    /\ temp' = [temp EXCEPT ![b] = Snapshot(b)]
    /\ To(b, "rename")
    /\ UNCHANGED <<dirVars, cache, lockVars, calls, hashVars, stackVars>>

(* ... which is renamed to the cache file.                                 *)
Rename(b) ==
    /\ pc[b] = "rename"
    /\ cache' = [cache EXCEPT ![files[b]] = temp[b]]
    /\ temp' = [temp EXCEPT ![b] = NoDB]
    /\ To(b, "created")
    /\ UNCHANGED <<dirVars, lockVars, calls, hashVars, stackVars>>

(* The deferred calls: the build directory is removed, the lock released.  *)
Created(b) ==
    /\ pc[b] = "created"
    /\ releaseFileLock(b)
    /\ To(b, "ok")
    /\ UNCHANGED <<dirVars, cache, calls, hashVars, stackVars, temp>>

\* Fault: errors of a build are logged only.
FailTo_Ignored(b) == IF pc[b] \in Building THEN "ok" ELSE "err"

FailTo(b) == "err"

(* Any step may fail, on I/O, a deadline or a document the API server      *)
(* rejects, closing the source after the rename included: the deferred     *)
(* calls stop the stack, remove the temporary file and release the lock,   *)
(* and EnsureCache returns the error.                                      *)
Fail(b) ==
    /\ pc[b] \in Running
    /\ releaseFileLock(b)
    /\ kine' = [kine EXCEPT ![b] = FALSE]
    /\ temp' = [temp EXCEPT ![b] = NoDB]
    /\ list' = [list EXCEPT ![b] = {}]
    /\ To(b, FailTo(b))
    /\ UNCHANGED <<dirVars, cache, calls, files, objs, est>>

-----------------------------------------------------------------------------
(* The binary is killed.  The kernel closes its descriptors; its build     *)
(* directory and temporary file stay, under names nobody uses again.       *)
Crash(b) ==
    /\ pc[b] \in Running
    /\ fd' = [fd EXCEPT ![b] = 0]
    /\ locked' = locked \ {b}
    /\ kine' = [kine EXCEPT ![b] = FALSE]
    /\ temp' = [temp EXCEPT ![b] = NoDB]
    /\ list' = [list EXCEPT ![b] = {}]
    /\ To(b, "crashed")
    /\ UNCHANGED <<dirVars, cache, lockFile, calls, files, objs, est>>

(* Somebody changes, adds or removes a file of the directory.              *)
Edit ==
    /\ edits < MaxEdits
    /\ edits' = edits + 1
    /\ \E f \in Files, v \in Versions \cup {NoFile} :
          dir[f] # v /\ dir' = [dir EXCEPT ![f] = v]
    /\ UNCHANGED <<cache, lockVars, pc, calls, hashVars, stackVars, temp>>

BuildStep(b) ==
    \/ StartStack(b) \/ ApplyCRD(b) \/ ApplyWait(b) \/ ApplyOther(b) \/ ApplyDone(b)
    \/ WaitEstablished(b) \/ StopStack(b) \/ CopyData(b) \/ Rename(b) \/ Created(b)

Step(b) ==
    \/ Walk(b) \/ ReadFile(b) \/ Stat(b) \/ OpenLock(b) \/ TryLock(b) \/ Recheck(b)
    \/ BuildStep(b)

Next ==
    \/ \E b \in Binaries : Call(b) \/ Step(b) \/ Establish(b) \/ Fail(b) \/ Crash(b)
    \/ Edit

Spec == Init /\ [][Next]_vars

(* A binary that is not killed goes on, and cfg.Timeout ends a build whose *)
(* documents are never served or established.  Nothing but the release of  *)
(* the lock ends the wait for it: the caller's context need not expire.    *)
FairSpec ==
    /\ Spec
    /\ \A b \in Binaries :
          /\ WF_vars(Step(b))
          /\ WF_vars(pc[b] \in Building /\ (BuildStep(b) \/ Fail(b)))

-----------------------------------------------------------------------------
(* Whatever crashes, fails, races or is edited meanwhile, a file at a      *)
(* cache path is a whole database that holds exactly the documents its     *)
(* name is the hash of, with every definition established: EnsureCache     *)
(* applies the bytes it has hashed, waits, and renames a finished copy.    *)
CacheSound ==
    \A h \in Hashes :
        cache[h] # NoDB =>
            /\ cache[h].objs = h
            /\ cache[h].est = CRDs \cap Present(h)
            /\ cache[h].whole

(* A binary to which EnsureCache has returned a path finds a cache there.  *)
ResultUsable == \A b \in Binaries : pc[b] = "ok" => cache[files[b]] # NoDB

(* A cache file is never replaced: instances of all binaries copy it while *)
(* others call EnsureCache, which looks again once it has the lock.        *)
CacheStable ==
    [][\A h \in Hashes : cache[h] # NoDB => cache'[h] = cache[h]]_vars

(* EnsureCache returns unless its binary is killed, whatever happens to    *)
(* the binary that has the lock.                                           *)
EnsureReturns ==
    \A b \in Binaries : pc[b] \in Running ~> pc[b] \notin Running

=============================================================================
