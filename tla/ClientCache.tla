---------------------------- MODULE ClientCache -----------------------------
(***************************************************************************)
(* The clients an Instance keeps (clientCache in internal/core/instance.go *)
(* and getOrBuildInternalClient in namespace.go), composed with its Start  *)
(* and Stop.  The cache is read and written without startMu, by copying    *)
(* and compare-and-swap, while Stop and a failed attempt clear it.         *)
(*                                                                         *)
(* An address stands for the port of an API server and bears the name of   *)
(* the stack that serves it; kubeconfig[i] is the address in the file.     *)
(* clients[i] is the immutable struct behind the pointer, with both fields *)
(* None for nil.  The swap compares values where the code compares         *)
(* pointers: where they differ, the retry of the code would load an equal  *)
(* value and store the same.                                               *)
(*                                                                         *)
(* A goroutine is in one call at a time.  A Config call is made by the     *)
(* holder of the instance, so the check of IsBusy passes.                  *)
(***************************************************************************)
EXTENDS Instance

CONSTANT MaxCASRetries    \* maxCASRetries (100 in the code)

ASSUME CASRetriesAssumption == MaxCASRetries \in Nat \ {0}

VARIABLES
    kubeconfig, clients,
    cpc,        \* step of waitForSystemNamespaces or of Config
    cinst,      \* the instance Config was called on
    addr,       \* the address this goroutine has written or read
    old, tries, \* locals of casClientCache
    late        \* ghost: a Config call was under way when the cache was cleared,
                \* or was begun before that Stop has cleared started

cacheFrame == <<cpc, cinst, addr, old, tries>>
cacheVars == <<instVars, kubeconfig, clients, cacheFrame, late>>

NoClients == [config |-> None, clientset |-> None]
Cache == [config : Stacks \cup {None}, clientset : Stacks \cup {None}]

CasPC == [config |-> "configCas", clientset |-> "clientsetCas"]
SwapPC == [config |-> "configSwap", clientset |-> "clientsetSwap"]
CachePC == {"no", "cliLoad", "cfgLoad", "cfgRead", "configCas", "configSwap",
            "clientsetCas", "clientsetSwap", "poll", "failed"}

InConfig(t) == cinst[t] # NoInst
Inst(t) == IF InConfig(t) THEN cinst[t] ELSE sinst[t]
Idle(t) == spc[t] = "no" /\ ~InConfig(t) /\ \A i \in Instances : xpc[<<t, i>>] = "no"

CacheInit ==
    /\ InstInit
    /\ kubeconfig = [i \in Instances |-> None]
    /\ clients = [i \in Instances |-> NoClients]
    /\ cpc = [t \in Threads |-> "no"]
    /\ cinst = [t \in Threads |-> NoInst]
    /\ addr = [t \in Threads |-> None]
    /\ old = [t \in Threads |-> NoClients]
    /\ tries = [t \in Threads |-> 0]
    /\ late = [i \in Instances |-> FALSE]

CacheGoto(t, pc) == cpc' = [cpc EXCEPT ![t] = pc]

(* i.clients.Store(nil).                                                   *)
ClearClients(i) ==
    /\ clients' = [clients EXCEPT ![i] = NoClients]
    /\ late' = [late EXCEPT ![i] = \E t \in Threads : cinst[t] = i]

(* The call of Config, or the use of the client by Start, is over.         *)
CacheReturn(t) ==
    /\ CacheGoto(t, "no")
    /\ cinst' = [cinst EXCEPT ![t] = NoInst]
    /\ addr' = [addr EXCEPT ![t] = None]
    /\ old' = [old EXCEPT ![t] = NoClients]
    /\ tries' = [tries EXCEPT ![t] = 0]

-----------------------------------------------------------------------------
(* Config, called while started is set: also between the two stores of a   *)
(* Stop, with the cache already empty and the old file still there.        *)
Config(t, i) ==
    /\ Idle(t)
    /\ started[i]
    /\ CacheGoto(t, "cfgLoad")
    /\ cinst' = [cinst EXCEPT ![t] = i]
    /\ late' = [late EXCEPT ![i] = @ \/ \E u \in Threads : Clearing(u, i)]
    /\ UNCHANGED <<instVars, kubeconfig, clients, addr, old, tries>>

(* The address of field f is in hand and cached: Config returns it, Start  *)
(* makes a clientset for it and then polls with that.                      *)
Have(t, f) ==
    IF InConfig(t)
    THEN CacheReturn(t)
    ELSE /\ CacheGoto(t, IF f = "config" THEN "clientsetCas" ELSE "poll")
         /\ old' = [old EXCEPT ![t] = NoClients]
         /\ tries' = [tries EXCEPT ![t] = 0]
         /\ UNCHANGED <<cinst, addr>>

(* getOrBuildInternalClient: a cached clientset is used as it is.          *)
InternalClient(t) ==
    /\ cpc[t] = "cliLoad"
    /\ IF clients[Inst(t)].clientset # None
       THEN /\ addr' = [addr EXCEPT ![t] = clients[Inst(t)].clientset]
            /\ CacheGoto(t, "poll")
       ELSE CacheGoto(t, "cfgLoad") /\ UNCHANGED addr
    /\ UNCHANGED <<instVars, kubeconfig, clients, cinst, old, tries, late>>

(* getOrBuildRestConfig: the cached config, or else the file is read.      *)
RestConfigHit(t) ==
    LET c == clients[Inst(t)].config IN
    /\ cpc[t] = "cfgLoad"
    /\ c # None
    /\ IF InConfig(t)
       THEN CacheReturn(t)
       ELSE /\ CacheGoto(t, CasPC["clientset"])
            /\ addr' = [addr EXCEPT ![t] = c]
            /\ UNCHANGED <<cinst, old, tries>>
    /\ UNCHANGED <<instVars, kubeconfig, clients, late>>

RestConfigMiss(t) ==
    /\ cpc[t] = "cfgLoad"
    /\ clients[Inst(t)].config = None
    /\ CacheGoto(t, "cfgRead")
    /\ UNCHANGED <<instVars, kubeconfig, clients, cinst, addr, old, tries, late>>

BuildConfig(t) ==
    /\ cpc[t] = "cfgRead"
    /\ addr' = [addr EXCEPT ![t] = kubeconfig[Inst(t)]]
    /\ CacheGoto(t, CasPC["config"])
    /\ UNCHANGED <<instVars, kubeconfig, clients, cinst, old, tries, late>>

(* An error of either function: Config returns it, Start tears down.       *)
CacheFail(t) ==
    IF InConfig(t)
    THEN CacheReturn(t)
    ELSE CacheGoto(t, "failed") /\ UNCHANGED <<cinst, addr, old, tries>>

(* The file cannot be read (it is being rewritten) or no client made.      *)
BuildErr(t) ==
    /\ cpc[t] \in {"cfgRead", "clientsetCas"}
    /\ tries[t] = 0
    /\ CacheFail(t)
    /\ UNCHANGED <<instVars, kubeconfig, clients, late>>

\* Fault: fn does not look whether the field is set.
CasLoad_Overwrite(t, f) ==
    /\ cpc[t] = CasPC[f]
    /\ old' = [old EXCEPT ![t] = clients[Inst(t)]]
    /\ CacheGoto(t, SwapPC[f])
    /\ UNCHANGED <<instVars, kubeconfig, clients, cinst, addr, tries, late>>

(* casClientCache, with the fn that sets field f: load the pointer, and    *)
(* leave the cache alone if another goroutine has set the field ...        *)
CasLoad(t, f) ==
    LET c == clients[Inst(t)] IN
    /\ cpc[t] = CasPC[f]
    /\ IF c[f] # None
       THEN Have(t, f)
       ELSE /\ old' = [old EXCEPT ![t] = c]
            /\ CacheGoto(t, SwapPC[f])
            /\ UNCHANGED <<cinst, addr, tries>>
    /\ UNCHANGED <<instVars, kubeconfig, clients, late>>

\* Fault: the pointer is stored without comparing it.
CasSwap_Store(t, f) ==
    /\ cpc[t] = SwapPC[f]
    /\ clients' = [clients EXCEPT ![Inst(t)] = [old[t] EXCEPT ![f] = addr[t]]]
    /\ Have(t, f)
    /\ UNCHANGED <<instVars, kubeconfig, late>>

(* ... swap it, if nobody has stored anything since ...                    *)
CasSwap(t, f) ==
    /\ cpc[t] = SwapPC[f]
    /\ clients[Inst(t)] = old[t]
    /\ clients' = [clients EXCEPT ![Inst(t)] = [old[t] EXCEPT ![f] = addr[t]]]
    /\ Have(t, f)
    /\ UNCHANGED <<instVars, kubeconfig, late>>

(* ... and otherwise try again, MaxCASRetries times in all.                *)
CasRetry(t, f) ==
    /\ cpc[t] = SwapPC[f]
    /\ clients[Inst(t)] # old[t]
    /\ IF tries[t] + 1 < MaxCASRetries
       THEN /\ CacheGoto(t, CasPC[f])
            /\ tries' = [tries EXCEPT ![t] = @ + 1]
            /\ old' = [old EXCEPT ![t] = NoClients]
            /\ UNCHANGED <<cinst, addr>>
       ELSE CacheFail(t)
    /\ UNCHANGED <<instVars, kubeconfig, clients, late>>

-----------------------------------------------------------------------------
(* Start and Stop, with what they do to the file and to the cache.         *)
NoCacheChange == UNCHANGED <<kubeconfig, clients, cacheFrame, late>>

(* Every attempt of StartWithRetry writes the address of its server before *)
(* it starts the processes.                                                *)
WriteKubeconfig(t) ==
    LET used == running[sinst[t]]
                  \cup UNION {{clients[i].config, clients[i].clientset} : i \in Instances}
                  \cup UNION {{addr[u], old[u].config, old[u].clientset} : u \in Threads}
    IN
    /\ spc[t] = "launch"
    /\ \E s \in Stacks :
          /\ Fresh(s, used)
          /\ kubeconfig' = [kubeconfig EXCEPT ![sinst[t]] = s]
          /\ addr' = [addr EXCEPT ![t] = s]
    /\ UNCHANGED <<instVars, clients, cpc, cinst, old, tries, late>>

(* The last of them succeeds and waitForSystemNamespaces is called ...     *)
LaunchAndWait(t) ==
    /\ addr[t] # None
    /\ Launched(t, addr[t])
    /\ CacheGoto(t, "cliLoad")
    /\ addr' = [addr EXCEPT ![t] = None]
    /\ UNCHANGED <<kubeconfig, clients, cinst, old, tries, late>>

(* ... or all fail.                                                        *)
LaunchFails(t) ==
    /\ StartLaunchErr(t)
    /\ addr' = [addr EXCEPT ![t] = None]
    /\ UNCHANGED <<kubeconfig, clients, cpc, cinst, old, tries, late>>

(* A live server answered the poll and the purge handle opened.            *)
VerifyAndInstall(t) ==
    /\ cpc[t] = "poll"
    /\ addr[t] \in running[sinst[t]]
    /\ StartInstall(t)
    /\ CacheReturn(t)
    /\ UNCHANGED <<kubeconfig, clients, late>>

\* Fault: the clients of the failed attempt are kept.
TeardownAttempt_KeepClients(t) ==
    /\ cpc[t] \in {"poll", "failed"}
    /\ StartTeardown(t)
    /\ CacheReturn(t)
    /\ UNCHANGED <<kubeconfig, clients, late>>

(* No client, no answer in time, or no purge handle: the clients of the    *)
(* failed attempt are dropped.                                             *)
TeardownAttempt(t) ==
    /\ cpc[t] \in {"poll", "failed"}
    /\ StartTeardown(t)
    /\ ClearClients(sinst[t])
    /\ CacheReturn(t)
    /\ UNCHANGED kubeconfig

\* Fault: Stop leaves the clients in the cache.
ExtractAndClear_KeepClients(t, i) ==
    /\ StopExtract(t, i)
    /\ NoCacheChange

(* Stop drops the clients in its critical section, after the references,   *)
(* which nobody here reads without startMu, and before it clears started.  *)
ExtractAndClear(t, i) ==
    /\ StopExtract(t, i)
    /\ ClearClients(i)
    /\ UNCHANGED <<kubeconfig, cacheFrame>>

StartWithClients(t) ==
    \/ WriteKubeconfig(t) \/ LaunchAndWait(t) \/ LaunchFails(t)
    \/ VerifyAndInstall(t) \/ TeardownAttempt(t) \/ InternalClient(t)
    \/ (StartAlready(t) \/ StartLock(t) \/ StartPublish(t) \/ StartConsume(t)) /\ NoCacheChange

StopWithClients(t, i) ==
    \/ ExtractAndClear(t, i)
    \/ (StopUnpublish(t, i) \/ StopClosePurge(t, i) \/ StopKill(t, i)) /\ NoCacheChange

CacheNext ==
    \E t \in Threads :
        \/ StartWithClients(t)
        \/ RestConfigHit(t) \/ RestConfigMiss(t) \/ BuildConfig(t) \/ BuildErr(t)
        \/ \E f \in DOMAIN NoClients : CasLoad(t, f) \/ CasSwap(t, f) \/ CasRetry(t, f)
        \/ \E i \in Instances : StopWithClients(t, i) \/ Config(t, i)
        \/ \E i \in Instances : Idle(t) /\ StartCall(t, i) /\ NoCacheChange
        \/ \E i \in Instances : Idle(t) /\ StopCall(t, {i}) /\ NoCacheChange
        \/ ~Idle(t) /\ StopConsume(t) /\ NoCacheChange

CacheSpec == CacheInit /\ [][CacheNext]_cacheVars

-----------------------------------------------------------------------------
CacheTypeOK ==
    /\ InstTypeOK
    /\ kubeconfig \in [Instances -> Stacks \cup {None}]
    /\ clients \in [Instances -> Cache]
    /\ cpc \in [Threads -> CachePC]
    /\ cinst \in [Threads -> Instances \cup {NoInst}]
    /\ addr \in [Threads -> Stacks \cup {None}]
    /\ old \in [Threads -> Cache]
    /\ tries \in [Threads -> 0 .. MaxCASRetries - 1]
    /\ late \in [Instances -> BOOLEAN]

(* Clients of a stopped server are never used again: unless a Config call  *)
(* was under way at the last clearing of the cache, or began in that Stop  *)
(* before started was cleared (the window the comment of Config            *)
(* describes), a started instance has both clients cached, both for the    *)
(* installed stack, and Start polls only the stack it launched.            *)
ClientsCurrent ==
    \A i \in Instances : ~late[i] =>
        /\ started[i] => clients[i] = [config |-> stack[i], clientset |-> stack[i]]
        /\ \A t \in Threads : Verifying(t, i) /\ cpc[t] = "poll" => addr[t] = sref[t]

(* "In practice a single retry suffices" (instance.go:444): Start stores    *)
(* its clients with one retry at most, whatever calls of Config overlap    *)
(* it, so that contention never makes it tear its stack down.              *)
StartConverges == \A t \in Threads : spc[t] = "verify" => tries[t] <= 1

(* No update of the cache is lost: a field that is set changes only when   *)
(* the whole cache is cleared, whatever calls overlap.                     *)
FieldsKept ==
    [][\A i \in Instances, f \in DOMAIN NoClients :
          clients[i][f] # None => \/ clients'[i][f] = clients[i][f]
                                  \/ clients'[i] = NoClients]_cacheVars

=============================================================================
