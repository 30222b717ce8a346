---------------------------- MODULE CacheProofs -----------------------------
(***************************************************************************)
(* Proofs about the two caches.  The clients an instance caches while      *)
(* Start and Stop change what they connect to (internal/core/instance.go), *)
(* for any number of goroutines, instances, attempts of a Start and        *)
(* retries of a compare-and-swap; and what EnsureCache of                  *)
(* internal/crdcache guarantees, for any number of binaries, files,        *)
(* versions, calls, crashes and edits.                                     *)
(***************************************************************************)
EXTENDS ClientCache, InstanceProofs, CrdCache

(* The client cache (module ClientCache).                                  *)

(* The frames of waitForSystemNamespaces and of Config.                    *)
FrameOK(t) ==
    /\ InConfig(t) => /\ spc[t] = "no"
                      /\ cpc[t] \in {"cfgLoad", "cfgRead", "configCas", "configSwap"}
    /\ cpc[t] = "no" <=> ~InConfig(t) /\ spc[t] # "verify"
    /\ cpc[t] = "no" /\ spc[t] # "launch" => addr[t] = None
    /\ cpc[t] \in {"configCas", "configSwap", "clientsetCas", "clientsetSwap", "poll"} =>
          addr[t] # None
    /\ cpc[t] \in {"no", "cliLoad", "cfgLoad", "cfgRead", "poll"} => tries[t] = 0
    /\ cpc[t] = "configSwap" => old[t].config = None
    /\ cpc[t] = "clientsetSwap" => old[t].clientset = None

(* The file names the stack that is launched or verified.                  *)
KubeOK(t) ==
    /\ spc[t] = "launch" /\ addr[t] # None =>
          addr[t] \notin running[sinst[t]] /\ kubeconfig[sinst[t]] = addr[t]
    /\ spc[t] = "verify" => kubeconfig[sinst[t]] = sref[t]
    /\ InConfig(t) => kubeconfig[cinst[t]] # None

(* Only the config of an instance that is being verified can be set by     *)
(* another goroutine, and only once: a lost swap of it finds it set, and   *)
(* the swap of the clientset is never lost.                                *)
Converge(t) ==
    spc[t] = "verify" =>
        LET c == clients[sinst[t]] IN
        /\ tries[t] <= 1
        /\ cpc[t] = "configCas" /\ tries[t] = 1 => c.config # None
        /\ cpc[t] = "configSwap" => tries[t] = 0 /\ old[t].clientset = c.clientset
        /\ cpc[t] \in {"clientsetCas", "clientsetSwap"} => tries[t] = 0 /\ c.config # None
        /\ cpc[t] = "clientsetSwap" => old[t] = c

ThreadOK(t) == FrameOK(t) /\ KubeOK(t) /\ Converge(t)

(* A Start that verifies i, unless a Config call has overlapped the last   *)
(* clearing: it alone fills the cache, with the stack it has launched.     *)
Stage(t, i) ==
    /\ cpc[t] \in {"cliLoad", "cfgLoad", "cfgRead", "configCas", "configSwap"} =>
          clients[i] = NoClients
    /\ cpc[t] \in {"configCas", "configSwap", "clientsetCas", "clientsetSwap", "poll"} =>
          addr[t] = sref[t]
    /\ cpc[t] = "configSwap" => old[t] = NoClients
    /\ cpc[t] \in {"clientsetCas", "clientsetSwap"} =>
          clients[i] = [config |-> sref[t], clientset |-> None]
    /\ cpc[t] = "poll" => clients[i] = [config |-> sref[t], clientset |-> sref[t]]

Current(i) ==
    /\ started[i] \/ stack[i] # None => kubeconfig[i] # None
    /\ ~late[i] =>
          /\ \A t \in Threads : cinst[t] = i => started[i] /\ stack[i] # None /\ cpc[t] = "cfgLoad"
          /\ stack[i] # None => clients[i] = [config |-> stack[i], clientset |-> stack[i]]
          /\ stack[i] = None /\ (\A t \in Threads : ~Verifying(t, i)) => clients[i] = NoClients
          /\ \A t \in Threads : Verifying(t, i) => Stage(t, i)

CacheInv ==
    /\ CacheTypeOK
    /\ InstInv
    /\ \A t \in Threads : ThreadOK(t)
    /\ \A i \in Instances : Current(i)

(* The steps that leave Start and Stop where they are, and those that      *)
(* leave the clients alone.                                                *)
ClientStep(t) ==
    \/ InternalClient(t) \/ RestConfigHit(t) \/ RestConfigMiss(t) \/ BuildConfig(t) \/ BuildErr(t)
    \/ \E f \in {"config", "clientset"} : CasLoad(t, f) \/ CasSwap(t, f) \/ CasRetry(t, f)
    \/ \E i \in Instances : Config(t, i)
    \/ WriteKubeconfig(t)

PlainStep(t) ==
    \/ StartAlready(t) \/ StartLock(t) \/ StartPublish(t) \/ StartConsume(t)
    \/ \E i \in Instances : StopUnpublish(t, i) \/ StopClosePurge(t, i) \/ StopKill(t, i)
    \/ \E i \in Instances : Idle(t) /\ StartCall(t, i)
    \/ \E i \in Instances : Idle(t) /\ StopCall(t, {i})
    \/ ~Idle(t) /\ StopConsume(t)

CacheStep(t) ==
    \/ ClientStep(t)
    \/ PlainStep(t) /\ NoCacheChange
    \/ LaunchAndWait(t) \/ LaunchFails(t) \/ VerifyAndInstall(t) \/ TeardownAttempt(t)
    \/ \E i \in Instances : ExtractAndClear(t, i)

-----------------------------------------------------------------------------
LEMMA Fields == DOMAIN NoClients = {"config", "clientset"}
BY Zenon DEF NoClients

LEMMA CacheSteps == CacheNext => \E t \in Threads : CacheStep(t)
<1>1. SUFFICES ASSUME NEW t \in Threads,
                      \/ StartWithClients(t)
                      \/ RestConfigHit(t) \/ RestConfigMiss(t) \/ BuildConfig(t) \/ BuildErr(t)
                      \/ \E f \in {"config", "clientset"} :
                            CasLoad(t, f) \/ CasSwap(t, f) \/ CasRetry(t, f)
                      \/ \E i \in Instances : StopWithClients(t, i) \/ Config(t, i)
                      \/ \E i \in Instances : Idle(t) /\ StartCall(t, i) /\ NoCacheChange
                      \/ \E i \in Instances : Idle(t) /\ StopCall(t, {i}) /\ NoCacheChange
                      \/ ~Idle(t) /\ StopConsume(t) /\ NoCacheChange
               PROVE  CacheStep(t)
  BY Fields, Zenon DEF CacheNext
<1>2. CASE StartWithClients(t)
  BY <1>2, Zenon DEF StartWithClients, CacheStep, ClientStep, PlainStep
<1>3. CASE \E i \in Instances : StopWithClients(t, i) \/ Config(t, i)
  BY <1>3, Zenon DEF StopWithClients, CacheStep, ClientStep, PlainStep
<1>4. CASE \/ RestConfigHit(t) \/ RestConfigMiss(t) \/ BuildConfig(t) \/ BuildErr(t)
           \/ \E f \in {"config", "clientset"} : CasLoad(t, f) \/ CasSwap(t, f) \/ CasRetry(t, f)
  BY <1>4, Zenon DEF CacheStep, ClientStep
<1>5. CASE \/ \E i \in Instances : Idle(t) /\ StartCall(t, i) /\ NoCacheChange
           \/ \E i \in Instances : Idle(t) /\ StopCall(t, {i}) /\ NoCacheChange
           \/ ~Idle(t) /\ StopConsume(t) /\ NoCacheChange
  BY <1>5, Zenon DEF CacheStep, PlainStep
<1> QED
  BY <1>1, <1>2, <1>3, <1>4, <1>5, Zenon

LEMMA CachePlaces ==
    {"no", "cliLoad", "cfgLoad", "cfgRead", "configCas", "configSwap", "clientsetCas",
     "clientsetSwap", "poll", "failed"} \subseteq CachePC
BY Zenon DEF CachePC

LEMMA CasPlaces ==
    /\ CasPC["config"] = "configCas" /\ CasPC["clientset"] = "clientsetCas"
    /\ SwapPC["config"] = "configSwap" /\ SwapPC["clientset"] = "clientsetSwap"
BY Zenon DEF CasPC, SwapPC

(* The values of the number of lost swaps that matter.                     *)
LEMMA SmallNumbers == 0 # 1 /\ 0 <= 1 /\ 1 <= 1 /\ 0 + 1 = 1
  BY SMT

(* Setting one field of a cache.                                           *)
LEMMA SetField ==
    ASSUME NEW c \in Cache, NEW f \in {"config", "clientset"}, NEW a \in Stacks \cup {None}
    PROVE  /\ [c EXCEPT ![f] = a] \in Cache
           /\ f = "config" => /\ [c EXCEPT ![f] = a].config = a
                              /\ [c EXCEPT ![f] = a].clientset = c.clientset
           /\ f = "clientset" => /\ [c EXCEPT ![f] = a].config = c.config
                                 /\ [c EXCEPT ![f] = a].clientset = a
BY Zenon DEF Cache

LEMMA CacheFields ==
    /\ NoClients \in Cache /\ NoClients.config = None /\ NoClients.clientset = None
    /\ \A c \in Cache : /\ c.config \in Stacks \cup {None} /\ c.clientset \in Stacks \cup {None}
                        /\ c["config"] = c.config /\ c["clientset"] = c.clientset
    /\ \A c, d \in Cache : c.config = d.config /\ c.clientset = d.clientset => c = d
    /\ \A a, b \in Stacks \cup {None} :
          /\ [config |-> a, clientset |-> b] \in Cache
          /\ [config |-> a, clientset |-> b].config = a
          /\ [config |-> a, clientset |-> b].clientset = b
BY DEF Cache, NoClients

(* On the level of Start and Stop.                                         *)
LEMMA CacheInstStep ==
    ASSUME CacheTypeOK, NEW t \in Threads, ThreadOK(t), CacheStep(t)
    PROVE  InstStep(t) \/ UNCHANGED instVars
<1>1. CASE ClientStep(t)
  BY <1>1, ZenonT(30) DEF ClientStep, InternalClient, RestConfigHit, RestConfigMiss, BuildConfig,
     BuildErr, CasLoad, CasSwap, CasRetry, Config, WriteKubeconfig
<1>2. CASE PlainStep(t)
  <2>1. \A i \in Instances : {i} \in SUBSET Instances
    BY Zenon
  <2> QED
    BY <1>2, <2>1, Zenon DEF PlainStep, InstStep
<1>3. CASE LaunchAndWait(t)
  <2>1. addr[t] # None /\ Launched(t, addr[t]) /\ spc[t] = "launch"
    BY <1>3, Zenon DEF LaunchAndWait, Launched
  <2>2. addr[t] \in Stacks
    BY <2>1, Zenon DEF CacheTypeOK
  <2>3. addr[t] \notin running[sinst[t]]
    BY <2>1, Zenon DEF ThreadOK, KubeOK
  <2> QED
    BY <2>1, <2>2, <2>3, Zenon DEF InstStep
<1>4. CASE LaunchFails(t) \/ VerifyAndInstall(t) \/ TeardownAttempt(t)
           \/ \E i \in Instances : ExtractAndClear(t, i)
  BY <1>4, Zenon DEF LaunchFails, VerifyAndInstall, TeardownAttempt, ExtractAndClear, InstStep
<1> QED
  BY <1>1, <1>2, <1>3, <1>4, Zenon DEF CacheStep

-----------------------------------------------------------------------------
LEMMA InstKnown ==
    ASSUME CacheTypeOK, InstInv, NEW t \in Threads, FrameOK(t), cpc[t] # "no"
    PROVE  Inst(t) \in Instances /\ (InConfig(t) \/ spc[t] = "verify")
<1>1. cinst[t] \in Instances \cup {NoInst}
  BY Zenon DEF CacheTypeOK
<1>2. spc[t] # "no" => sinst[t] \in Instances
  BY Zenon DEF InstInv, FramesOK
<1> QED
  BY <1>1, <1>2, Zenon DEF FrameOK, Inst, InConfig

LEMMA CacheTypesStep ==
    ASSUME CacheTypeOK, InstInv, NEW t \in Threads, FrameOK(t), CacheStep(t), InstTypeOK'
    PROVE  CacheTypeOK'
<1>1. /\ kubeconfig \in [Instances -> Stacks \cup {None}] /\ clients \in [Instances -> Cache]
      /\ cpc \in [Threads -> CachePC] /\ cinst \in [Threads -> Instances \cup {NoInst}]
      /\ addr \in [Threads -> Stacks \cup {None}] /\ old \in [Threads -> Cache]
      /\ tries \in [Threads -> 0 .. MaxCASRetries - 1] /\ late \in [Instances -> BOOLEAN]
  BY Zenon DEF CacheTypeOK
<1>2. 0 \in 0 .. MaxCASRetries - 1
  BY CASRetriesAssumption
<1>3. \A place \in CachePC : CacheGoto(t, place) => cpc' \in [Threads -> CachePC]
  BY <1>1, Zenon DEF CacheGoto
<1>4. /\ NoClients \in Cache
      /\ \A c \in Cache : c.config \in Stacks \cup {None} /\ c.clientset \in Stacks \cup {None}
  BY CacheFields, Zenon
<1>5. ASSUME CacheReturn(t)
      PROVE  /\ cpc' \in [Threads -> CachePC] /\ cinst' \in [Threads -> Instances \cup {NoInst}]
             /\ addr' \in [Threads -> Stacks \cup {None}] /\ old' \in [Threads -> Cache]
             /\ tries' \in [Threads -> 0 .. MaxCASRetries - 1]
  BY <1>1, <1>2, <1>3, <1>4, <1>5, CachePlaces, Zenon DEF CacheReturn
<1>6. ASSUME NEW f, Have(t, f)
      PROVE  /\ cpc' \in [Threads -> CachePC] /\ cinst' \in [Threads -> Instances \cup {NoInst}]
             /\ addr' \in [Threads -> Stacks \cup {None}] /\ old' \in [Threads -> Cache]
             /\ tries' \in [Threads -> 0 .. MaxCASRetries - 1]
  <2>1. CASE InConfig(t)
    BY <1>5, <1>6, <2>1, Zenon DEF Have
  <2>2. CASE ~InConfig(t)
    BY <1>1, <1>2, <1>3, <1>4, <1>6, <2>2, CachePlaces, Zenon DEF Have
  <2> QED
    BY <2>1, <2>2, Zenon
<1>7. ASSUME CacheFail(t)
      PROVE  /\ cpc' \in [Threads -> CachePC] /\ cinst' \in [Threads -> Instances \cup {NoInst}]
             /\ addr' \in [Threads -> Stacks \cup {None}] /\ old' \in [Threads -> Cache]
             /\ tries' \in [Threads -> 0 .. MaxCASRetries - 1]
  <2>1. CASE InConfig(t)
    BY <1>5, <1>7, <2>1, Zenon DEF CacheFail
  <2>2. CASE ~InConfig(t)
    BY <1>1, <1>3, <1>7, <2>2, CachePlaces, Zenon DEF CacheFail
  <2> QED
    BY <2>1, <2>2, Zenon
<1>8. ASSUME NEW i, ClearClients(i)
      PROVE  clients' \in [Instances -> Cache] /\ late' \in [Instances -> BOOLEAN]
  <2>1. (\E u \in Threads : cinst[u] = i) \in BOOLEAN
    BY Zenon
  <2> QED
    BY <1>1, <1>4, <1>8, <2>1, Zenon DEF ClearClients
<1>9. cpc[t] # "no" => clients[Inst(t)] \in Cache /\ kubeconfig[Inst(t)] \in Stacks \cup {None}
  BY <1>1, InstKnown, Zenon
<1>10. CASE InternalClient(t)
  <2>1. clients[Inst(t)].clientset \in Stacks \cup {None}
    BY <1>4, <1>9, <1>10, Zenon DEF InternalClient
  <2>2. addr' \in [Threads -> Stacks \cup {None}] /\ cpc' \in [Threads -> CachePC]
    BY <1>1, <1>3, <1>10, <2>1, CachePlaces, Zenon DEF InternalClient
  <2> QED
    BY <1>1, <1>10, <2>2, Zenon DEF InternalClient, CacheTypeOK
<1>11. CASE RestConfigHit(t)
  <2>1. clients[Inst(t)].config \in Stacks \cup {None}
    BY <1>4, <1>9, <1>11, Zenon DEF RestConfigHit
  <2>2. CASE InConfig(t)
    BY <1>1, <1>5, <1>11, <2>2, Zenon DEF RestConfigHit, CacheTypeOK
  <2>3. CASE ~InConfig(t)
    <3>1. cpc' \in [Threads -> CachePC]
      BY <1>3, <1>11, <2>3, CachePlaces, CasPlaces, Zenon DEF RestConfigHit
    <3>2. addr' \in [Threads -> Stacks \cup {None}]
      BY <1>1, <1>11, <2>1, <2>3, Zenon DEF RestConfigHit
    <3> QED
      BY <1>1, <1>11, <2>3, <3>1, <3>2, Zenon DEF RestConfigHit, CacheTypeOK
  <2> QED
    BY <2>2, <2>3, Zenon
<1>12. CASE RestConfigMiss(t)
  BY <1>1, <1>3, <1>12, CachePlaces, Zenon DEF RestConfigMiss, CacheTypeOK
<1>13. CASE BuildConfig(t)
  <2>1. kubeconfig[Inst(t)] \in Stacks \cup {None}
    BY <1>9, <1>13, Zenon DEF BuildConfig
  <2>2. cpc' \in [Threads -> CachePC]
    BY <1>3, <1>13, CachePlaces, CasPlaces, Zenon DEF BuildConfig
  <2> QED
    BY <1>1, <1>13, <2>1, <2>2, Zenon DEF BuildConfig, CacheTypeOK
<1>14. CASE BuildErr(t)
  BY <1>1, <1>7, <1>14, Zenon DEF BuildErr, CacheTypeOK
<1>15. ASSUME NEW f \in {"config", "clientset"}, CasLoad(t, f) \/ CasSwap(t, f) \/ CasRetry(t, f)
       PROVE  CacheTypeOK'
  <2>1. CasPC[f] \in CachePC \ {"no"} /\ SwapPC[f] \in CachePC \ {"no"}
    BY CasPlaces, Zenon DEF CachePC
  <2>2. CASE CasLoad(t, f)
    <3>1. clients[Inst(t)] \in Cache
      BY <1>9, <2>1, <2>2, Zenon DEF CasLoad
    <3>2. CASE clients[Inst(t)][f] # None
      BY <1>1, <1>6, <2>2, <3>2, Zenon DEF CasLoad, CacheTypeOK
    <3>3. CASE clients[Inst(t)][f] = None
      BY <1>1, <1>3, <2>1, <2>2, <3>1, <3>3, Zenon DEF CasLoad, CacheTypeOK
    <3> QED
      BY <3>2, <3>3, Zenon
  <2>3. CASE CasSwap(t, f)
    <3>1. [old[t] EXCEPT ![f] = addr[t]] \in Cache
      BY <1>1, SetField, Zenon
    <3>2. clients' \in [Instances -> Cache]
      BY <1>1, <2>3, <3>1, Zenon DEF CasSwap
    <3> QED
      BY <1>1, <1>6, <2>3, <3>2, Zenon DEF CasSwap, CacheTypeOK
  <2>4. CASE CasRetry(t, f)
    <3>1. CASE tries[t] + 1 < MaxCASRetries
      <4>1. tries' \in [Threads -> 0 .. MaxCASRetries - 1]
        BY <1>1, <2>4, <3>1, CASRetriesAssumption DEF CasRetry
      <4> QED
        BY <1>1, <1>3, <1>4, <2>1, <2>4, <3>1, <4>1, Zenon DEF CasRetry, CacheTypeOK
    <3>2. CASE ~(tries[t] + 1 < MaxCASRetries)
      BY <1>1, <1>7, <2>4, <3>2, Zenon DEF CasRetry, CacheTypeOK
    <3> QED
      BY <3>1, <3>2, Zenon
  <2> QED
    BY <1>15, <2>2, <2>3, <2>4, Zenon
<1>16. ASSUME NEW i \in Instances, Config(t, i) PROVE CacheTypeOK'
  <2>1. cpc' \in [Threads -> CachePC] /\ cinst' \in [Threads -> Instances \cup {NoInst}]
    BY <1>1, <1>3, <1>16, CachePlaces, Zenon DEF Config
  <2>2. late' \in [Instances -> BOOLEAN]
    BY <1>1, <1>16, Zenon DEF Config
  <2> QED
    BY <1>1, <1>16, <2>1, <2>2, Zenon DEF Config, CacheTypeOK
<1>17. CASE WriteKubeconfig(t)
  <2>1. PICK s \in Stacks : /\ kubeconfig' = [kubeconfig EXCEPT ![sinst[t]] = s]
                            /\ addr' = [addr EXCEPT ![t] = s]
    BY <1>17, Zenon DEF WriteKubeconfig
  <2> QED
    BY <1>1, <1>17, <2>1, Zenon DEF WriteKubeconfig, CacheTypeOK
<1>18. CASE NoCacheChange
  BY <1>1, <1>18, Zenon DEF NoCacheChange, cacheFrame, CacheTypeOK
<1>19. CASE LaunchAndWait(t)
  BY <1>1, <1>3, <1>19, CachePlaces, Zenon DEF LaunchAndWait, CacheTypeOK
<1>20. CASE LaunchFails(t)
  BY <1>1, <1>20, Zenon DEF LaunchFails, CacheTypeOK
<1>21. CASE VerifyAndInstall(t)
  BY <1>1, <1>5, <1>21, Zenon DEF VerifyAndInstall, CacheTypeOK
<1>22. CASE TeardownAttempt(t)
  BY <1>1, <1>5, <1>8, <1>22, Zenon DEF TeardownAttempt, CacheTypeOK
<1>23. ASSUME NEW i \in Instances, ExtractAndClear(t, i) PROVE CacheTypeOK'
  BY <1>1, <1>8, <1>23, Zenon DEF ExtractAndClear, cacheFrame, CacheTypeOK
<1> QED
  BY <1>10, <1>11, <1>12, <1>13, <1>14, <1>15, <1>16, <1>17, <1>18, <1>19, <1>20, <1>21, <1>22,
     <1>23, ZenonT(30) DEF CacheStep, ClientStep

-----------------------------------------------------------------------------
(* A step of t changes the frames of t only.                               *)
SameThread(u) ==
    /\ spc'[u] = spc[u] /\ sinst'[u] = sinst[u] /\ sref'[u] = sref[u]
    /\ cpc'[u] = cpc[u] /\ cinst'[u] = cinst[u] /\ addr'[u] = addr[u]
    /\ old'[u] = old[u] /\ tries'[u] = tries[u]

LEMMA SameOther ==
    ASSUME CacheTypeOK, NEW t \in Threads, ThreadOK(t), CacheStep(t), NEW u \in Threads, u # t
    PROVE  SameThread(u)
<1>1. /\ cpc \in [Threads -> CachePC] /\ cinst \in [Threads -> Instances \cup {NoInst}]
      /\ addr \in [Threads -> Stacks \cup {None}] /\ old \in [Threads -> Cache]
      /\ tries \in [Threads -> 0 .. MaxCASRetries - 1] /\ InstTypeOK
  BY Zenon DEF CacheTypeOK
<1>2. spc'[u] = spc[u] /\ sinst'[u] = sinst[u] /\ sref'[u] = sref[u]
  BY <1>1, CacheInstStep, InstOthers, Zenon
<1> DEFINE Kept == /\ cpc'[u] = cpc[u] /\ cinst'[u] = cinst[u] /\ addr'[u] = addr[u]
                   /\ old'[u] = old[u] /\ tries'[u] = tries[u]
<1> SUFFICES Kept
  BY <1>2, Zenon DEF SameThread
<1>3. CacheReturn(t) => Kept
  BY <1>1, Zenon DEF CacheReturn, CacheGoto
<1>4. ASSUME NEW f, Have(t, f) PROVE Kept
  BY <1>1, <1>3, <1>4, Zenon DEF Have, CacheGoto
<1>5. CacheFail(t) => Kept
  BY <1>1, <1>3, Zenon DEF CacheFail, CacheGoto
<1>6. CASE InternalClient(t) \/ RestConfigMiss(t) \/ BuildConfig(t)
  BY <1>1, <1>6, Zenon DEF InternalClient, RestConfigMiss, BuildConfig, CacheGoto
<1>7. CASE RestConfigHit(t)
  BY <1>1, <1>3, <1>7, Zenon DEF RestConfigHit, CacheGoto
<1>8. CASE BuildErr(t)
  BY <1>5, <1>8, Zenon DEF BuildErr
<1>9. ASSUME NEW f \in {"config", "clientset"}, CasLoad(t, f) \/ CasSwap(t, f) \/ CasRetry(t, f)
      PROVE  Kept
  BY <1>1, <1>4, <1>5, <1>9, Zenon DEF CasLoad, CasSwap, CasRetry, CacheGoto
<1>10. CASE \E i \in Instances : Config(t, i)
  BY <1>1, <1>10, Zenon DEF Config, CacheGoto
<1>11. CASE WriteKubeconfig(t)
  <2>1. PICK s : addr' = [addr EXCEPT ![t] = s] /\ UNCHANGED <<cpc, cinst, old, tries>>
    BY <1>11, Zenon DEF WriteKubeconfig
  <2> QED
    BY <1>1, <2>1, Zenon
<1>12. CASE NoCacheChange \/ \E i \in Instances : ExtractAndClear(t, i)
  <2>1. UNCHANGED <<cpc, cinst, addr, old, tries>>
    BY <1>12, Zenon DEF NoCacheChange, ExtractAndClear, cacheFrame
  <2> QED
    BY <2>1, Zenon
<1>13. CASE LaunchAndWait(t) \/ LaunchFails(t)
  BY <1>1, <1>13, Zenon DEF LaunchAndWait, LaunchFails, CacheGoto
<1>14. CASE VerifyAndInstall(t) \/ TeardownAttempt(t)
  BY <1>3, <1>14, Zenon DEF VerifyAndInstall, TeardownAttempt
<1> QED
  BY <1>6, <1>7, <1>8, <1>9, <1>10, <1>11, <1>12, <1>13, <1>14, ZenonT(30) DEF CacheStep, ClientStep

(* What a step of t can do to the cache of i, and to its file.             *)
Cleared(i) ==
    /\ clients'[i] = NoClients
    /\ late'[i] <=> \E u \in Threads : cinst[u] = i

LEMMA ClearsOne ==
    ASSUME CacheTypeOK, NEW i \in Instances, NEW j, ClearClients(j)
    PROVE  IF i = j THEN Cleared(i) ELSE clients'[i] = clients[i] /\ late'[i] = late[i]
<1>1. clients \in [Instances -> Cache] /\ late \in [Instances -> BOOLEAN]
  BY Zenon DEF CacheTypeOK
<1>2. CASE i = j
  <2>1. clients'[i] = NoClients
    BY <1>1, <1>2, Zenon DEF ClearClients
  <2>2. late' = [late EXCEPT ![i] = \E u \in Threads : cinst[u] = i]
    BY <1>2, Zenon DEF ClearClients
  <2>3. late'[i] = \E u \in Threads : cinst[u] = i
    BY <1>1, <2>2, Zenon
  <2> QED
    BY <1>2, <2>1, <2>3, Zenon DEF Cleared
<1>3. CASE i # j
  <2>1. clients'[i] = clients[i]
    BY <1>1, <1>3, Zenon DEF ClearClients
  <2>2. late'[i] = late[i]
    BY <1>1, <1>3, Zenon DEF ClearClients
  <2> QED
    BY <1>3, <2>1, <2>2, Zenon
<1> QED
  BY <1>2, <1>3, Zenon

LEMMA CacheMoves ==
    ASSUME CacheTypeOK, NEW t \in Threads, CacheStep(t), NEW i \in Instances
    PROVE  \/ clients'[i] = clients[i] /\ late'[i] = late[i]
           \/ Cleared(i) /\ TeardownAttempt(t) /\ sinst[t] = i
           \/ Cleared(i) /\ \E j \in Instances : i = j /\ ExtractAndClear(t, j)
           \/ Inst(t) = i /\ late'[i] = late[i] /\ \E f \in {"config", "clientset"} : CasSwap(t, f)
           \/ /\ clients'[i] = clients[i] /\ started[i]
              /\ late'[i] <=> late[i] \/ \E u \in Threads : Clearing(u, i)
<1>1. clients \in [Instances -> Cache] /\ late \in [Instances -> BOOLEAN]
  BY Zenon DEF CacheTypeOK
<1>2. ASSUME NEW j, ClearClients(j)
      PROVE  IF i = j THEN Cleared(i) ELSE clients'[i] = clients[i] /\ late'[i] = late[i]
  BY <1>2, ClearsOne
<1>3. CASE TeardownAttempt(t)
  BY <1>2, <1>3, Zenon DEF TeardownAttempt
<1>4. ASSUME NEW j \in Instances, ExtractAndClear(t, j)
      PROVE  IF i = j THEN Cleared(i) ELSE clients'[i] = clients[i] /\ late'[i] = late[i]
  BY <1>2, <1>4, Zenon DEF ExtractAndClear
<1>5. CASE \E j \in Instances : ExtractAndClear(t, j)
  <2>1. PICK j \in Instances : ExtractAndClear(t, j)
    BY <1>5, Zenon
  <2>2. IF i = j THEN Cleared(i) ELSE clients'[i] = clients[i] /\ late'[i] = late[i]
    BY <1>4, <2>1, Zenon
  <2>3. CASE i = j
    <3>1. Cleared(i)
      BY <2>2, <2>3, Zenon
    <3> QED
      BY <2>1, <2>3, <3>1, Zenon
  <2>4. CASE i # j
    <3>1. clients'[i] = clients[i] /\ late'[i] = late[i]
      BY <2>2, <2>4, Zenon
    <3> QED
      BY <3>1, Zenon
  <2> QED
    BY <2>3, <2>4, Zenon
<1>6. CASE \E f \in {"config", "clientset"} : CasSwap(t, f)
  <2>1. PICK f \in {"config", "clientset"} : CasSwap(t, f)
    BY <1>6, Zenon
  <2>2. late' = late /\ (Inst(t) # i => clients'[i] = clients[i])
    BY <1>1, <2>1, Zenon DEF CasSwap
  <2> QED
    BY <1>6, <2>2, Zenon
<1>7. CASE UNCHANGED <<clients, late>>
  BY <1>7, Zenon
<1>9. ASSUME NEW j \in Instances, Config(t, j)
      PROVE  \/ clients'[i] = clients[i] /\ late'[i] = late[i]
             \/ /\ clients'[i] = clients[i] /\ started[i]
                /\ late'[i] <=> late[i] \/ \E u \in Threads : Clearing(u, i)
  <2>1. /\ late' = [late EXCEPT ![j] = @ \/ \E u \in Threads : Clearing(u, j)]
        /\ clients' = clients /\ started[j]
    BY <1>9, Zenon DEF Config
  <2>2. CASE i = j
    <3>1. late'[i] = (late[i] \/ \E u \in Threads : Clearing(u, i))
      BY <1>1, <2>1, <2>2, Zenon
    <3> QED
      BY <2>1, <2>2, <3>1, Zenon
  <2>3. CASE i # j
    BY <1>1, <2>1, <2>3, Zenon
  <2> QED
    BY <2>2, <2>3, Zenon
<1>8. \/ TeardownAttempt(t)
      \/ \E j \in Instances : ExtractAndClear(t, j) \/ Config(t, j)
      \/ \E f \in {"config", "clientset"} : CasSwap(t, f)
      \/ UNCHANGED <<clients, late>>
  BY ZenonT(30) DEF CacheStep, ClientStep, NoCacheChange, InternalClient, RestConfigHit,
     RestConfigMiss, BuildConfig, BuildErr, CasLoad, CasRetry, WriteKubeconfig,
     LaunchAndWait, LaunchFails, VerifyAndInstall
<1> QED
  BY <1>3, <1>5, <1>6, <1>7, <1>8, <1>9, Zenon

LEMMA FileMoves ==
    ASSUME CacheTypeOK, InstInv, NEW t \in Threads, CacheStep(t), NEW i \in Instances
    PROVE  /\ \/ kubeconfig'[i] = kubeconfig[i]
              \/ WriteKubeconfig(t) /\ sinst[t] = i /\ kubeconfig'[i] \in Stacks
           /\ \/ running'[i] \subseteq running[i]
              \/ LaunchAndWait(t) /\ sinst[t] = i
<1>1. /\ kubeconfig \in [Instances -> Stacks \cup {None}]
      /\ running \in [Instances -> SUBSET Stacks]
  BY Zenon DEF CacheTypeOK, InstTypeOK
<1>2. CASE WriteKubeconfig(t)
  <2>1. PICK s \in Stacks : kubeconfig' = [kubeconfig EXCEPT ![sinst[t]] = s]
    BY <1>2, Zenon DEF WriteKubeconfig
  <2>2. running' = running
    BY <1>2, Zenon DEF WriteKubeconfig, instVars
  <2>3. kubeconfig'[i] = kubeconfig[i] \/ (sinst[t] = i /\ kubeconfig'[i] \in Stacks)
    BY <1>1, <2>1, Zenon
  <2> QED
    BY <1>2, <2>2, <2>3, Zenon
<1>3. CASE LaunchAndWait(t)
  <2>1. UNCHANGED kubeconfig /\ Launched(t, addr[t])
    BY <1>3, Zenon DEF LaunchAndWait
  <2>2. running'[i] \subseteq running[i] \/ sinst[t] = i
    BY <1>1, <2>1, Zenon DEF Launched
  <2> QED
    BY <1>3, <2>1, <2>2, Zenon
<1>4. CASE TeardownAttempt(t) \/ \E j \in Instances : StopKill(t, j) /\ NoCacheChange
  <2>1. UNCHANGED kubeconfig
    BY <1>4, Zenon DEF TeardownAttempt, NoCacheChange
  <2>2. PICK j, s : running' = [running EXCEPT ![j] = @ \ {s}]
    BY <1>4, Zenon DEF TeardownAttempt, StartTeardown, StopKill
  <2>3. running'[i] \subseteq running[i]
    BY <1>1, <2>2, Zenon
  <2> QED
    BY <2>1, <2>3, Zenon
<1>5. CASE UNCHANGED <<kubeconfig, running>>
  BY <1>5, Zenon
<1>6. CASE PlainStep(t) /\ NoCacheChange
  <2>1. UNCHANGED kubeconfig
    BY <1>6, Zenon DEF NoCacheChange
  <2>2. running' = running \/ \E j \in Instances : StopKill(t, j)
    BY <1>6, ZenonT(30) DEF PlainStep, StartAlready, StartLock, StartPublish, StartConsume, StopUnpublish,
       StopClosePurge, StartCall, StopCall, StopConsume
  <2> QED
    BY <1>4, <1>5, <1>6, <2>1, <2>2, Zenon
<1>7. CASE ClientStep(t) /\ ~WriteKubeconfig(t)
  <2>1. UNCHANGED <<kubeconfig, instVars>>
    BY <1>7, ZenonT(30) DEF ClientStep, InternalClient, RestConfigHit, RestConfigMiss, BuildConfig,
       BuildErr, CasLoad, CasSwap, CasRetry, Config
  <2> QED
    BY <1>5, <2>1, Zenon DEF instVars
<1>8. CASE LaunchFails(t) \/ VerifyAndInstall(t) \/ \E j \in Instances : ExtractAndClear(t, j)
  <2>1. UNCHANGED <<kubeconfig, running>>
    BY <1>8, Zenon DEF LaunchFails, StartLaunchErr, VerifyAndInstall, StartInstall,
       ExtractAndClear, StopExtract
  <2> QED
    BY <1>5, <2>1, Zenon
<1> QED
  BY <1>2, <1>3, <1>4, <1>6, <1>7, <1>8, Zenon DEF CacheStep

(* A goroutine whose frames stay the same, when no other goroutine touches *)
(* what its Start owns under startMu.                                      *)
LEMMA KeptThread ==
    ASSUME CacheInv, CacheTypeOK', NEW u \in Threads, SameThread(u),
           spc[u] = "launch" => /\ running'[sinst[u]] \subseteq running[sinst[u]]
                                /\ kubeconfig'[sinst[u]] = kubeconfig[sinst[u]],
           spc[u] = "verify" =>
              /\ kubeconfig'[sinst[u]] = kubeconfig[sinst[u]]
              /\ \/ clients'[sinst[u]] = clients[sinst[u]]
                 \/ /\ clients[sinst[u]].config = None /\ clients'[sinst[u]].config # None
                    /\ clients'[sinst[u]].clientset = clients[sinst[u]].clientset,
           InConfig(u) => kubeconfig'[cinst[u]] # None
    PROVE  ThreadOK(u)'
<1>1. FrameOK(u) /\ KubeOK(u) /\ Converge(u)
  BY Zenon DEF CacheInv, ThreadOK
<1>2. FrameOK(u)'
  BY <1>1, Zenon DEF SameThread, FrameOK, InConfig
<1>3. KubeOK(u)'
  BY <1>1, Zenon DEF SameThread, KubeOK, InConfig
<1>4. Converge(u)'
  BY <1>1, Zenon DEF SameThread, Converge
<1> QED
  BY <1>2, <1>3, <1>4, Zenon DEF ThreadOK

(* What a swap that succeeds leaves in the cache.                          *)
LEMMA SwapEffect ==
    ASSUME CacheTypeOK, InstInv, NEW t \in Threads, FrameOK(t), NEW f \in {"config", "clientset"},
           CasSwap(t, f)
    PROVE  LET c == clients[Inst(t)]
               d == clients'[Inst(t)]
           IN  /\ Inst(t) \in Instances /\ c \in Cache /\ d \in Cache /\ c = old[t]
               /\ f = "config" => /\ cpc[t] = "configSwap" /\ c.config = None
                                  /\ d.config = addr[t] /\ d.clientset = c.clientset
               /\ f = "clientset" => /\ cpc[t] = "clientsetSwap" /\ c.clientset = None
                                     /\ d.config = c.config /\ d.clientset = addr[t]
<1>1. clients \in [Instances -> Cache] /\ old \in [Threads -> Cache]
      /\ addr \in [Threads -> Stacks \cup {None}]
  BY Zenon DEF CacheTypeOK
<1>2. /\ cpc[t] = SwapPC[f] /\ clients[Inst(t)] = old[t]
      /\ clients' = [clients EXCEPT ![Inst(t)] = [old[t] EXCEPT ![f] = addr[t]]]
  BY Zenon DEF CasSwap
<1>3. cpc[t] = IF f = "config" THEN "configSwap" ELSE "clientsetSwap"
  BY <1>2, CasPlaces, Zenon
<1>4. Inst(t) \in Instances
  BY <1>3, InstKnown, Zenon
<1>5. clients'[Inst(t)] = [old[t] EXCEPT ![f] = addr[t]]
  BY <1>1, <1>2, <1>4, Zenon
<1>6. old[t] \in Cache /\ addr[t] \in Stacks \cup {None}
  BY <1>1, Zenon
<1>7. /\ f = "config" => old[t].config = None
      /\ f = "clientset" => old[t].clientset = None
  BY <1>3, Zenon DEF FrameOK
<1>8. /\ clients'[Inst(t)] \in Cache
      /\ f = "config" => /\ clients'[Inst(t)].config = addr[t]
                         /\ clients'[Inst(t)].clientset = old[t].clientset
      /\ f = "clientset" => /\ clients'[Inst(t)].config = old[t].config
                            /\ clients'[Inst(t)].clientset = addr[t]
  BY <1>5, <1>6, SetField
<1> QED
  BY <1>2, <1>3, <1>4, <1>6, <1>7, <1>8, Zenon

(* Nobody but the holder of startMu clears the cache of the instance it    *)
(* starts, writes its file, launches a stack for it or stores a clientset. *)
LEMMA StartAlone ==
    ASSUME CacheInv, NEW t \in Threads, CacheStep(t), NEW u \in Threads, SameThread(u),
           spc[u] \in {"launch", "verify"}, u # t \/ \E j \in Instances : ExtractAndClear(t, j)
    PROVE  /\ kubeconfig'[sinst[u]] = kubeconfig[sinst[u]]
           /\ running'[sinst[u]] \subseteq running[sinst[u]]
           /\ \/ clients'[sinst[u]] = clients[sinst[u]]
              \/ /\ clients[sinst[u]].config = None /\ clients'[sinst[u]].config # None
                 /\ clients'[sinst[u]].clientset = clients[sinst[u]].clientset
                 /\ cinst[t] = sinst[u] /\ cpc[t] = "configSwap"
           /\ late'[sinst[u]] = late[sinst[u]]
<1>1. CacheTypeOK /\ InstInv /\ FrameOK(t) /\ MuOK /\ FramesOK
  BY Zenon DEF CacheInv, ThreadOK, InstInv
<1>2. sinst[u] \in Instances /\ startMu[sinst[u]] = u /\ ~started[sinst[u]]
  <2>1. sinst[u] \in Instances /\ StartHolds(u, sinst[u])
    BY <1>1, Zenon DEF FramesOK, StartHolds
  <2>2. startMu[sinst[u]] = u
    BY <1>1, <2>1, Zenon DEF MuOK
  <2>3. Phase(sinst[u])
    BY <1>1, <2>1, Zenon DEF InstInv
  <2> QED
    BY <2>1, <2>2, <2>3, Zenon DEF Phase
<1>3. u # t => ~(spc[t] \in {"launch", "verify"} /\ sinst[t] = sinst[u])
  BY <1>1, <1>2, Zenon DEF MuOK, StartHolds
<1>4. ASSUME NEW j \in Instances, ExtractAndClear(t, j) PROVE j # sinst[u]
  <2>1. startMu[j] = NoThread
    BY <1>4, Zenon DEF ExtractAndClear, StopExtract
  <2> QED
    BY <1>2, <2>1, InstNames, Zenon
<1>5. CASE \E j \in Instances : ExtractAndClear(t, j)
  <2>1. PICK j \in Instances : ExtractAndClear(t, j)
    BY <1>5, Zenon
  <2>2. UNCHANGED <<kubeconfig, running>>
    BY <2>1, Zenon DEF ExtractAndClear, StopExtract
  <2>3. j # sinst[u]
    BY <1>4, <2>1, Zenon
  <2>4. ClearClients(j)
    BY <2>1, Zenon DEF ExtractAndClear
  <2>5. clients'[sinst[u]] = clients[sinst[u]] /\ late'[sinst[u]] = late[sinst[u]]
    BY <1>1, <1>2, <2>3, <2>4, ClearsOne, Zenon
  <2> QED
    BY <2>2, <2>5, Zenon
<1>6. CASE u # t
  <2>1. kubeconfig'[sinst[u]] = kubeconfig[sinst[u]]
    <3>1. ~(WriteKubeconfig(t) /\ sinst[t] = sinst[u])
      BY <1>3, <1>6, Zenon DEF WriteKubeconfig
    <3> QED
      BY <1>1, <1>2, <3>1, FileMoves, Zenon
  <2>2. running'[sinst[u]] \subseteq running[sinst[u]]
    <3>1. ~(LaunchAndWait(t) /\ sinst[t] = sinst[u])
      BY <1>3, <1>6, Zenon DEF LaunchAndWait, Launched
    <3> QED
      BY <1>1, <1>2, <3>1, FileMoves, Zenon
  <2>3. ~(TeardownAttempt(t) /\ sinst[t] = sinst[u])
    BY <1>3, <1>6, Zenon DEF TeardownAttempt, StartTeardown
  <2>4. ~\E j \in Instances : sinst[u] = j /\ ExtractAndClear(t, j)
    BY <1>4, Zenon
  <2>5. CASE clients'[sinst[u]] = clients[sinst[u]] /\ late'[sinst[u]] = late[sinst[u]]
    BY <2>1, <2>2, <2>5, Zenon
  <2>6. ASSUME NEW f \in {"config", "clientset"}, CasSwap(t, f), Inst(t) = sinst[u],
               late'[sinst[u]] = late[sinst[u]]
        PROVE  /\ clients[sinst[u]].config = None /\ clients'[sinst[u]].config # None
               /\ clients'[sinst[u]].clientset = clients[sinst[u]].clientset
               /\ cinst[t] = sinst[u] /\ cpc[t] = "configSwap"
    <3>1. f = "config" => /\ cpc[t] = "configSwap" /\ clients[sinst[u]].config = None
                          /\ clients'[sinst[u]].config = addr[t]
                          /\ clients'[sinst[u]].clientset = clients[sinst[u]].clientset
      BY <1>1, <2>6, SwapEffect, Zenon
    <3>2. f = "clientset" => cpc[t] = "clientsetSwap"
      BY <1>1, <2>6, SwapEffect, Zenon
    <3>3. cpc[t] # "no"
      BY <2>6, <3>1, <3>2, Zenon
    <3>4. InConfig(t)
      <4>1. InConfig(t) \/ spc[t] = "verify"
        BY <1>1, <3>3, InstKnown, Zenon
      <4> QED
        BY <1>3, <1>6, <2>6, <4>1, Zenon DEF Inst
    <3>5. f = "config" /\ cinst[t] = sinst[u]
      BY <1>1, <2>6, <3>2, <3>4, Zenon DEF FrameOK, Inst
    <3> QED
      BY <1>1, <3>1, <3>5, Zenon DEF FrameOK
  <2> QED
    BY <1>1, <1>2, <2>1, <2>2, <2>3, <2>4, <2>5, <2>6, CacheMoves, Zenon
<1> QED
  BY <1>5, <1>6, Zenon

LEMMA OtherThread ==
    ASSUME CacheInv, CacheTypeOK', NEW t \in Threads, CacheStep(t), NEW u \in Threads, SameThread(u),
           u # t \/ \E j \in Instances : ExtractAndClear(t, j)
    PROVE  ThreadOK(u)'
<1>1. CacheTypeOK /\ InstInv /\ KubeOK(u)
  BY Zenon DEF CacheInv, ThreadOK
<1>2. InConfig(u) => kubeconfig'[cinst[u]] # None
  <2>1. SUFFICES ASSUME InConfig(u) PROVE kubeconfig'[cinst[u]] # None
    BY Zenon
  <2>2. cinst[u] \in Instances
    BY <1>1, <2>1, Zenon DEF CacheTypeOK, InConfig
  <2> QED
    BY <1>1, <2>1, <2>2, FileMoves, InstNames, Zenon DEF KubeOK
<1>3. spc[u] \in {"launch", "verify"} =>
         /\ kubeconfig'[sinst[u]] = kubeconfig[sinst[u]]
         /\ running'[sinst[u]] \subseteq running[sinst[u]]
         /\ \/ clients'[sinst[u]] = clients[sinst[u]]
            \/ /\ clients[sinst[u]].config = None /\ clients'[sinst[u]].config # None
               /\ clients'[sinst[u]].clientset = clients[sinst[u]].clientset
  BY StartAlone, Zenon
<1>4. spc[u] = "launch" => /\ running'[sinst[u]] \subseteq running[sinst[u]]
                           /\ kubeconfig'[sinst[u]] = kubeconfig[sinst[u]]
  BY <1>3, Zenon
<1>5. spc[u] = "verify" =>
         /\ kubeconfig'[sinst[u]] = kubeconfig[sinst[u]]
         /\ \/ clients'[sinst[u]] = clients[sinst[u]]
            \/ /\ clients[sinst[u]].config = None /\ clients'[sinst[u]].config # None
               /\ clients'[sinst[u]].clientset = clients[sinst[u]].clientset
  BY <1>3, Zenon
<1> QED
  BY <1>2, <1>4, <1>5, KeptThread, Zenon

-----------------------------------------------------------------------------
(* What is known of the frames of t.                                       *)
LEMMA OwnFacts ==
    ASSUME CacheInv, NEW t \in Threads
    PROVE  /\ CacheTypeOK /\ InstInv /\ FrameOK(t) /\ KubeOK(t) /\ Converge(t)
           /\ spc[t] # "no" => sinst[t] \in Instances
           /\ sref[t] # None <=> spc[t] = "verify"
           /\ cpc[t] # "no" => /\ Inst(t) \in Instances /\ clients[Inst(t)] \in Cache
                               /\ InConfig(t) \/ (spc[t] = "verify" /\ Inst(t) = sinst[t])
           /\ ~InConfig(t) <=> cinst[t] = NoInst
<1>1. CacheTypeOK /\ InstInv /\ FrameOK(t) /\ KubeOK(t) /\ Converge(t)
  BY Zenon DEF CacheInv, ThreadOK
<1>2. clients \in [Instances -> Cache]
  BY Zenon DEF CacheInv, CacheTypeOK
<1>3. /\ spc[t] # "no" => sinst[t] \in Instances
      /\ sref[t] # None <=> spc[t] = "verify"
  BY <1>1, Zenon DEF InstInv, FramesOK
<1>4. cpc[t] # "no" => /\ Inst(t) \in Instances /\ clients[Inst(t)] \in Cache
                       /\ InConfig(t) \/ (spc[t] = "verify" /\ Inst(t) = sinst[t])
  BY <1>1, <1>2, InstKnown, Zenon DEF FrameOK, InConfig, Inst
<1>5. ~InConfig(t) <=> cinst[t] = NoInst
  BY Zenon DEF InConfig
<1> QED
  BY <1>1, <1>3, <1>4, <1>5, Zenon

LEMMA CacheFrames ==
    ASSUME CacheTypeOK
    PROVE  /\ cpc \in [Threads -> CachePC] /\ cinst \in [Threads -> Instances \cup {NoInst}]
           /\ addr \in [Threads -> Stacks \cup {None}] /\ old \in [Threads -> Cache]
           /\ tries \in [Threads -> 0 .. MaxCASRetries - 1] /\ clients \in [Instances -> Cache]
           /\ kubeconfig \in [Instances -> Stacks \cup {None}]
           /\ spc \in [Threads -> StartPC] /\ sinst \in [Threads -> Instances \cup {NoInst}]
           /\ sref \in [Threads -> Stacks \cup {None}] /\ running \in [Instances -> SUBSET Stacks]
BY Zenon DEF CacheTypeOK, InstTypeOK

(* A thread that is in neither Start nor Config.                            *)
LEMMA IdleThread ==
    ASSUME CacheInv, NEW t \in Threads,
           spc'[t] \in {"no", "lock", "publish", "done"}, cpc'[t] = "no", cinst'[t] = NoInst,
           addr'[t] = None, tries'[t] = 0
    PROVE  ThreadOK(t)'
BY Zenon DEF ThreadOK, FrameOK, KubeOK, Converge, InConfig

(* What a return from Config or from the client building resets.           *)
LEMMA ReturnedFrame ==
    ASSUME CacheInv, NEW t \in Threads, CacheReturn(t)
    PROVE  /\ cpc'[t] = "no" /\ cinst'[t] = NoInst /\ addr'[t] = None /\ old'[t] = NoClients
           /\ tries'[t] = 0
<1>1. /\ cpc \in [Threads -> CachePC] /\ cinst \in [Threads -> Instances \cup {NoInst}]
      /\ addr \in [Threads -> Stacks \cup {None}] /\ old \in [Threads -> Cache]
      /\ tries \in [Threads -> 0 .. MaxCASRetries - 1] /\ clients \in [Instances -> Cache]
      /\ kubeconfig \in [Instances -> Stacks \cup {None}]
      /\ spc \in [Threads -> StartPC] /\ sinst \in [Threads -> Instances \cup {NoInst}]
      /\ sref \in [Threads -> Stacks \cup {None}] /\ running \in [Instances -> SUBSET Stacks]
  BY CacheFrames, Zenon DEF CacheInv
<1> QED
  BY <1>1, Zenon DEF CacheReturn, CacheGoto

LEMMA ReturnedThread ==
    ASSUME CacheInv, NEW t \in Threads, InConfig(t), CacheReturn(t), UNCHANGED spc
    PROVE  ThreadOK(t)'
<1>1. CacheTypeOK /\ InstInv /\ FrameOK(t) /\ KubeOK(t) /\ Converge(t)
  BY OwnFacts, Zenon
<1> QED
  BY <1>1, IdleThread, ReturnedFrame, Zenon DEF FrameOK

LEMMA VerifyingThread ==
    ASSUME CacheInv, NEW t \in Threads,
           spc[t] = "verify", UNCHANGED <<spc, sinst, sref, kubeconfig>>, cinst'[t] = NoInst,
           cpc'[t] # "no", FrameOK(t)', Converge(t)'
    PROVE  ThreadOK(t)'
<1>1. CacheTypeOK /\ InstInv /\ FrameOK(t) /\ KubeOK(t) /\ Converge(t)
  BY OwnFacts, Zenon
<1> QED
  BY <1>1, Zenon DEF ThreadOK, KubeOK, InConfig

(* An error in building the clients: Config returns it, Start tears down.  *)
LEMMA FailedThread ==
    ASSUME CacheInv, NEW t \in Threads,
           CacheFail(t), UNCHANGED <<spc, sinst, sref, kubeconfig>>, cpc[t] # "no",
           spc[t] = "verify" => tries[t] = 0
    PROVE  ThreadOK(t)'
<1>1. /\ cpc \in [Threads -> CachePC] /\ cinst \in [Threads -> Instances \cup {NoInst}]
      /\ addr \in [Threads -> Stacks \cup {None}] /\ old \in [Threads -> Cache]
      /\ tries \in [Threads -> 0 .. MaxCASRetries - 1] /\ clients \in [Instances -> Cache]
      /\ kubeconfig \in [Instances -> Stacks \cup {None}]
      /\ spc \in [Threads -> StartPC] /\ sinst \in [Threads -> Instances \cup {NoInst}]
      /\ sref \in [Threads -> Stacks \cup {None}] /\ running \in [Instances -> SUBSET Stacks]
  BY CacheFrames, Zenon DEF CacheInv
<1>2. cpc[t] # "no" => /\ Inst(t) \in Instances /\ clients[Inst(t)] \in Cache
                       /\ InConfig(t) \/ (spc[t] = "verify" /\ Inst(t) = sinst[t])
  BY OwnFacts, Zenon
<1>3. ~InConfig(t) <=> cinst[t] = NoInst
  BY OwnFacts, Zenon
<1>4. CASE InConfig(t)
  BY ReturnedThread, <1>4, Zenon DEF CacheFail
<1>5. CASE ~InConfig(t)
  <2>1. cpc'[t] = "failed" /\ UNCHANGED <<cinst, addr, old, tries>>
    BY <1>1, <1>5, Zenon DEF CacheFail, CacheGoto
  <2>2. spc[t] = "verify" /\ cinst[t] = NoInst /\ tries[t] = 0
    BY <1>2, <1>3, <1>5, Zenon
  <2>3. FrameOK(t)' /\ Converge(t)'
    <3>1. FrameOK(t)'
      BY <2>1, <2>2, Zenon DEF FrameOK, InConfig
    <3>2. Converge(t)'
      BY <2>1, <2>2, SmallNumbers, Zenon DEF Converge
    <3> QED
      BY <3>1, <3>2, Zenon
  <2> QED
    BY VerifyingThread, <2>1, <2>2, <2>3, Zenon
<1> QED
  BY <1>4, <1>5, Zenon

(* The value a casCachedField attempt leaves is in hand.                    *)
LEMMA HavingThread ==
    ASSUME CacheInv, NEW t \in Threads,
           NEW f \in {"config", "clientset"}, Have(t, f), cpc[t] # "no",
           UNCHANGED <<spc, sinst, sref, kubeconfig>>, addr[t] # None,
           f = "config" => clients'[Inst(t)].config # None
    PROVE  ThreadOK(t)'
<1>1. /\ cpc \in [Threads -> CachePC] /\ cinst \in [Threads -> Instances \cup {NoInst}]
      /\ addr \in [Threads -> Stacks \cup {None}] /\ old \in [Threads -> Cache]
      /\ tries \in [Threads -> 0 .. MaxCASRetries - 1] /\ clients \in [Instances -> Cache]
      /\ kubeconfig \in [Instances -> Stacks \cup {None}]
      /\ spc \in [Threads -> StartPC] /\ sinst \in [Threads -> Instances \cup {NoInst}]
      /\ sref \in [Threads -> Stacks \cup {None}] /\ running \in [Instances -> SUBSET Stacks]
  BY CacheFrames, Zenon DEF CacheInv
<1>2. cpc[t] # "no" => /\ Inst(t) \in Instances /\ clients[Inst(t)] \in Cache
                       /\ InConfig(t) \/ (spc[t] = "verify" /\ Inst(t) = sinst[t])
  BY OwnFacts, Zenon
<1>3. ~InConfig(t) <=> cinst[t] = NoInst
  BY OwnFacts, Zenon
<1>4. CASE InConfig(t)
  BY ReturnedThread, <1>4, Zenon DEF Have
<1>5. CASE ~InConfig(t)
  <2>1. /\ cpc'[t] = IF f = "config" THEN "clientsetCas" ELSE "poll"
        /\ old'[t] = NoClients /\ tries'[t] = 0 /\ UNCHANGED <<cinst, addr>>
    BY <1>1, <1>5, Zenon DEF Have, CacheGoto
  <2>2. spc[t] = "verify" /\ cinst[t] = NoInst /\ Inst(t) = sinst[t]
    BY <1>2, <1>3, <1>5, Zenon
  <2>3. FrameOK(t)'
    BY <2>1, <2>2, Zenon DEF FrameOK, InConfig
  <2>4. Converge(t)'
    <3>1. f = "clientset" => cpc'[t] = "poll"
      BY <2>1, Zenon
    <3>2. f = "config" => cpc'[t] = "clientsetCas" /\ clients'[sinst'[t]].config # None
      BY <2>1, <2>2, Zenon
    <3> QED
      BY <2>1, <3>1, <3>2, SmallNumbers, Zenon DEF Converge
  <2> QED
    BY VerifyingThread, <2>1, <2>2, <2>3, <2>4, Zenon
<1> QED
  BY <1>4, <1>5, Zenon

LEMMA QuietThread ==
    ASSUME CacheInv, NEW t \in Threads,
           UNCHANGED <<cpc, cinst, addr, tries>>, spc[t] \in {"no", "lock", "publish", "done"}, ~InConfig(t),
           spc'[t] \in {"no", "lock", "launch", "done"}
    PROVE  ThreadOK(t)'
<1>1. CacheTypeOK /\ InstInv /\ FrameOK(t) /\ KubeOK(t) /\ Converge(t)
  BY OwnFacts, Zenon
<1>2. cpc[t] = "no" /\ addr[t] = None /\ tries[t] = 0
  BY <1>1, Zenon DEF FrameOK
<1>3. FrameOK(t)' /\ KubeOK(t)' /\ Converge(t)'
  BY <1>2, Zenon DEF FrameOK, KubeOK, Converge, InConfig
<1> QED
  BY <1>3, Zenon DEF ThreadOK

LEMMA OwnClientStep ==
    ASSUME CacheInv, CacheTypeOK', NEW t \in Threads,
           \/ InternalClient(t) \/ RestConfigHit(t) \/ RestConfigMiss(t)
           \/ BuildConfig(t) \/ BuildErr(t)
    PROVE  ThreadOK(t)'
<1>1. /\ cpc \in [Threads -> CachePC] /\ cinst \in [Threads -> Instances \cup {NoInst}]
      /\ addr \in [Threads -> Stacks \cup {None}] /\ old \in [Threads -> Cache]
      /\ tries \in [Threads -> 0 .. MaxCASRetries - 1] /\ clients \in [Instances -> Cache]
      /\ kubeconfig \in [Instances -> Stacks \cup {None}]
      /\ spc \in [Threads -> StartPC] /\ sinst \in [Threads -> Instances \cup {NoInst}]
      /\ sref \in [Threads -> Stacks \cup {None}] /\ running \in [Instances -> SUBSET Stacks]
  BY CacheFrames, Zenon DEF CacheInv
<1>2. CacheTypeOK /\ InstInv /\ FrameOK(t) /\ KubeOK(t) /\ Converge(t)
  BY OwnFacts, Zenon
<1>3. /\ spc[t] # "no" => sinst[t] \in Instances
      /\ sref[t] # None <=> spc[t] = "verify"
  BY OwnFacts, Zenon
<1>4. cpc[t] # "no" => /\ Inst(t) \in Instances /\ clients[Inst(t)] \in Cache
                       /\ InConfig(t) \/ (spc[t] = "verify" /\ Inst(t) = sinst[t])
  BY OwnFacts, Zenon
<1>5. ~InConfig(t) <=> cinst[t] = NoInst
  BY OwnFacts, Zenon
<1>6. CASE InternalClient(t)
  <2>1. cpc[t] = "cliLoad" /\ UNCHANGED <<spc, sinst, sref, kubeconfig, clients, cinst, old, tries>>
    BY <1>6, Zenon DEF InternalClient, instVars, startFrame
  <2>2. \/ cpc'[t] = "poll" /\ addr'[t] # None
        \/ cpc'[t] = "cfgLoad"
    BY <1>1, <1>6, Zenon DEF InternalClient, CacheGoto
  <2>3. spc[t] = "verify" /\ cinst[t] = NoInst /\ tries[t] = 0
    BY <1>2, <1>4, <1>5, <2>1, Zenon DEF FrameOK
  <2>4. FrameOK(t)' /\ Converge(t)'
    <3>1. FrameOK(t)'
      BY <2>1, <2>2, <2>3, Zenon DEF FrameOK, InConfig
    <3>2. Converge(t)'
      BY <2>1, <2>2, <2>3, SmallNumbers, Zenon DEF Converge
    <3> QED
      BY <3>1, <3>2, Zenon
  <2> QED
    BY VerifyingThread, <2>1, <2>2, <2>3, <2>4, Zenon
<1>7. CASE RestConfigHit(t)
  <2>1. cpc[t] = "cfgLoad" /\ UNCHANGED <<spc, sinst, sref, kubeconfig, clients>>
    BY <1>7, Zenon DEF RestConfigHit, instVars, startFrame
  <2>2. CASE InConfig(t)
    BY ReturnedThread, <1>7, <2>1, <2>2, Zenon DEF RestConfigHit
  <2>3. CASE ~InConfig(t)
    <3>1. /\ clients[sinst[t]].config # None /\ addr'[t] = clients[sinst[t]].config
          /\ cpc'[t] = "clientsetCas" /\ UNCHANGED <<cinst, old, tries>>
      BY <1>1, <1>7, <2>3, CasPlaces, Zenon DEF RestConfigHit, CacheGoto, Inst
    <3>2. spc[t] = "verify" /\ cinst[t] = NoInst /\ tries[t] = 0
      BY <1>2, <1>4, <1>5, <2>1, <2>3, Zenon DEF FrameOK
    <3>3. FrameOK(t)'
      BY <2>1, <3>1, <3>2, Zenon DEF FrameOK, InConfig
    <3>4. Converge(t)'
      BY <2>1, <3>1, <3>2, SmallNumbers, Zenon DEF Converge
    <3> QED
      BY VerifyingThread, <2>1, <3>1, <3>2, <3>3, <3>4, Zenon
  <2> QED
    BY <2>2, <2>3, Zenon
<1>8. CASE RestConfigMiss(t)
  <2>1. /\ cpc[t] = "cfgLoad" /\ cpc'[t] = "cfgRead"
        /\ UNCHANGED <<spc, sinst, sref, kubeconfig, clients, running, cinst, addr, old, tries>>
    BY <1>1, <1>8, Zenon DEF RestConfigMiss, CacheGoto, instVars, startFrame
  <2>2. FrameOK(t)' /\ KubeOK(t)' /\ Converge(t)'
    BY <1>2, <2>1, Zenon DEF FrameOK, KubeOK, Converge, InConfig
  <2> QED
    BY <2>2, Zenon DEF ThreadOK
<1>9. CASE BuildConfig(t)
  <2>1. /\ cpc[t] = "cfgRead" /\ cpc'[t] = "configCas" /\ addr'[t] = kubeconfig[Inst(t)]
        /\ UNCHANGED <<spc, sinst, sref, kubeconfig, clients, running, cinst, old, tries>>
    BY <1>1, <1>9, CasPlaces, Zenon DEF BuildConfig, CacheGoto, instVars, startFrame
  <2>2. addr'[t] # None
    BY <1>2, <1>3, <1>4, <2>1, Zenon DEF KubeOK, Inst
  <2>3. spc[t] # "launch"
    BY <1>2, <1>4, <2>1, Zenon DEF FrameOK
  <2>4. FrameOK(t)'
    BY <1>2, <2>1, <2>2, Zenon DEF FrameOK, InConfig
  <2>5. KubeOK(t)'
    BY <1>2, <2>1, <2>3, Zenon DEF KubeOK, InConfig
  <2>6. tries'[t] = 0
    BY <1>2, <2>1, Zenon DEF FrameOK
  <2>7. Converge(t)'
    BY <2>1, <2>6, SmallNumbers, Zenon DEF Converge
  <2> QED
    BY <2>4, <2>5, <2>7, Zenon DEF ThreadOK
<1>10. CASE BuildErr(t)
  <2>1. CacheFail(t) /\ UNCHANGED <<spc, sinst, sref, kubeconfig>> /\ tries[t] = 0
    BY <1>10, Zenon DEF BuildErr, instVars, startFrame
  <2>2. cpc[t] # "no"
    BY <1>10, Zenon DEF BuildErr
  <2> QED
    BY FailedThread, <2>1, <2>2, Zenon
<1> QED
  BY <1>6, <1>7, <1>8, <1>9, <1>10, Zenon

LEMMA OwnCasLoad ==
    ASSUME CacheInv, CacheTypeOK', NEW t \in Threads,
           \E f \in {"config", "clientset"} : CasLoad(t, f)
    PROVE  ThreadOK(t)'
<1>1. /\ cpc \in [Threads -> CachePC] /\ cinst \in [Threads -> Instances \cup {NoInst}]
      /\ addr \in [Threads -> Stacks \cup {None}] /\ old \in [Threads -> Cache]
      /\ tries \in [Threads -> 0 .. MaxCASRetries - 1] /\ clients \in [Instances -> Cache]
      /\ kubeconfig \in [Instances -> Stacks \cup {None}]
      /\ spc \in [Threads -> StartPC] /\ sinst \in [Threads -> Instances \cup {NoInst}]
      /\ sref \in [Threads -> Stacks \cup {None}] /\ running \in [Instances -> SUBSET Stacks]
  BY CacheFrames, Zenon DEF CacheInv
<1>2. CacheTypeOK /\ InstInv /\ FrameOK(t) /\ KubeOK(t) /\ Converge(t)
  BY OwnFacts, Zenon
<1>3. cpc[t] # "no" => /\ Inst(t) \in Instances /\ clients[Inst(t)] \in Cache
                       /\ InConfig(t) \/ (spc[t] = "verify" /\ Inst(t) = sinst[t])
  BY OwnFacts, Zenon
<1>4. ASSUME NEW f \in {"config", "clientset"}, CasLoad(t, f) PROVE ThreadOK(t)'
  <2>1. /\ cpc[t] = IF f = "config" THEN "configCas" ELSE "clientsetCas"
        /\ UNCHANGED <<spc, sinst, sref, running, kubeconfig, clients>>
    <3>1. cpc[t] = CasPC[f] /\ UNCHANGED <<spc, sinst, sref, running, kubeconfig, clients>>
      BY <1>4, Zenon DEF CasLoad, instVars, startFrame
    <3> QED
      BY <3>1, CasPlaces, Zenon
  <2>2. cpc[t] # "no" /\ addr[t] # None /\ clients[Inst(t)] \in Cache
    BY <1>2, <1>3, <2>1, Zenon DEF FrameOK
  <2>3. clients[Inst(t)][f] = IF f = "config" THEN clients[Inst(t)].config
                                             ELSE clients[Inst(t)].clientset
    BY <2>2, CacheFields, Zenon
  <2>4. CASE clients[Inst(t)][f] # None
    <3>1. Have(t, f)
      BY <1>4, <2>4, Zenon DEF CasLoad
    <3>2. f = "config" => clients'[Inst(t)].config # None
      BY <2>1, <2>3, <2>4, Zenon
    <3> QED
      BY HavingThread, <2>1, <2>2, <3>1, <3>2, Zenon
  <2>5. CASE clients[Inst(t)][f] = None
    <3>1. /\ old'[t] = clients[Inst(t)] /\ UNCHANGED <<cinst, addr, tries>>
          /\ cpc'[t] = IF f = "config" THEN "configSwap" ELSE "clientsetSwap"
      <4>1. /\ old' = [old EXCEPT ![t] = clients[Inst(t)]] /\ UNCHANGED <<cinst, addr, tries>>
            /\ cpc' = [cpc EXCEPT ![t] = SwapPC[f]]
        BY <1>4, <2>5, Zenon DEF CasLoad, CacheGoto
      <4> QED
        BY <1>1, <4>1, CasPlaces, Zenon
    <3>2. FrameOK(t)'
      BY <1>2, <2>1, <2>2, <2>3, <2>5, <3>1, Zenon DEF FrameOK, InConfig
    <3>3. KubeOK(t)'
      BY <1>2, <2>1, <3>1, Zenon DEF KubeOK, InConfig
    <3>4. Converge(t)'
      <4>1. SUFFICES ASSUME spc[t] = "verify" PROVE Converge(t)'
        BY <2>1, Zenon DEF Converge
      <4>2. Inst(t) = sinst[t]
        BY <1>2, <4>1, Zenon DEF FrameOK, Inst
      <4>3. tries[t] \in Nat
        BY <1>1, CASRetriesAssumption
      <4>4. tries[t] = 0
        <5>1. tries[t] = 0 \/ (tries[t] <= 1 /\ tries[t] # 1)
          BY <1>2, <2>1, <2>3, <2>5, <4>1, <4>2, Zenon DEF Converge
        <5> QED
          BY <4>3, <5>1, SMT
      <4>5. f = "clientset" => clients[sinst[t]].config # None
        BY <1>2, <2>1, <4>1, Zenon DEF Converge
      <4> QED
        BY <2>1, <3>1, <4>2, <4>4, <4>5, SmallNumbers, Zenon DEF Converge
    <3> QED
      BY <3>2, <3>3, <3>4, Zenon DEF ThreadOK
  <2> QED
    BY <2>4, <2>5, Zenon
<1> QED
  BY <1>4, Zenon

LEMMA OwnCasSwap ==
    ASSUME CacheInv, CacheTypeOK', NEW t \in Threads,
           \E f \in {"config", "clientset"} : CasSwap(t, f) \/ CasRetry(t, f)
    PROVE  ThreadOK(t)'
<1>1. /\ cpc \in [Threads -> CachePC] /\ cinst \in [Threads -> Instances \cup {NoInst}]
      /\ addr \in [Threads -> Stacks \cup {None}] /\ old \in [Threads -> Cache]
      /\ tries \in [Threads -> 0 .. MaxCASRetries - 1] /\ clients \in [Instances -> Cache]
      /\ kubeconfig \in [Instances -> Stacks \cup {None}]
      /\ spc \in [Threads -> StartPC] /\ sinst \in [Threads -> Instances \cup {NoInst}]
      /\ sref \in [Threads -> Stacks \cup {None}] /\ running \in [Instances -> SUBSET Stacks]
  BY CacheFrames, Zenon DEF CacheInv
<1>2. CacheTypeOK /\ InstInv /\ FrameOK(t) /\ KubeOK(t) /\ Converge(t)
  BY OwnFacts, Zenon
<1>3. /\ spc[t] # "no" => sinst[t] \in Instances
      /\ sref[t] # None <=> spc[t] = "verify"
  BY OwnFacts, Zenon
<1>4. ASSUME NEW f \in {"config", "clientset"}, CasSwap(t, f) PROVE ThreadOK(t)'
  <2>1. Have(t, f) /\ UNCHANGED <<spc, sinst, sref, kubeconfig>>
    BY <1>4, Zenon DEF CasSwap, instVars, startFrame
  <2>2. /\ f = "config" => cpc[t] = "configSwap" /\ clients'[Inst(t)].config = addr[t]
        /\ f = "clientset" => cpc[t] = "clientsetSwap"
    BY <1>2, <1>4, SwapEffect, Zenon
  <2>3. cpc[t] # "no" /\ addr[t] # None
    BY <1>2, <1>4, <2>2, Zenon DEF FrameOK
  <2> QED
    BY HavingThread, <1>4, <2>1, <2>2, <2>3, Zenon
<1>5. ASSUME NEW f \in {"config", "clientset"}, CasRetry(t, f) PROVE ThreadOK(t)'
  <2>1. /\ cpc[t] = IF f = "config" THEN "configSwap" ELSE "clientsetSwap"
        /\ clients[Inst(t)] # old[t]
        /\ UNCHANGED <<spc, sinst, sref, running, kubeconfig, clients>>
    <3>1. /\ cpc[t] = SwapPC[f] /\ clients[Inst(t)] # old[t]
          /\ UNCHANGED <<spc, sinst, sref, running, kubeconfig, clients>>
      BY <1>5, Zenon DEF CasRetry, instVars, startFrame
    <3> QED
      BY <3>1, CasPlaces, Zenon
  <2>2. spc[t] = "verify" => /\ Inst(t) = sinst[t] /\ f = "config" /\ tries[t] = 0
                             /\ clients[sinst[t]].config # None
    <3>1. SUFFICES ASSUME spc[t] = "verify"
                   PROVE  /\ Inst(t) = sinst[t] /\ f = "config" /\ tries[t] = 0
                          /\ clients[sinst[t]].config # None
      BY Zenon
    <3>2. Inst(t) = sinst[t]
      BY <1>2, <3>1, Zenon DEF FrameOK, Inst
    <3>3. f = "config"
      BY <1>2, <2>1, <3>1, <3>2, Zenon DEF Converge
    <3>4. tries[t] = 0 /\ old[t].clientset = clients[sinst[t]].clientset /\ old[t].config = None
      BY <1>2, <2>1, <3>1, <3>3, Zenon DEF Converge, FrameOK
    <3>5. old[t] \in Cache /\ clients[sinst[t]] \in Cache
      BY <1>1, <1>3, <3>1, Zenon
    <3>6. clients[sinst[t]] # old[t]
      BY <2>1, <3>2, Zenon
    <3>7. clients[sinst[t]].config # None
      <4>1. \A c, d \in Cache : c.config = d.config /\ c.clientset = d.clientset => c = d
        BY CacheFields, Zenon
      <4> QED
        BY <3>4, <3>5, <3>6, <4>1, Zenon
    <3> QED
      BY <3>2, <3>3, <3>4, <3>7, Zenon
  <2>3. CASE tries[t] + 1 < MaxCASRetries
    <3>1. /\ cpc' = [cpc EXCEPT ![t] = CasPC[f]] /\ tries' = [tries EXCEPT ![t] = @ + 1]
          /\ UNCHANGED <<cinst, addr>>
      BY <1>5, <2>3, Zenon DEF CasRetry, CacheGoto
    <3>2. /\ cpc'[t] = IF f = "config" THEN "configCas" ELSE "clientsetCas"
          /\ tries'[t] = tries[t] + 1
      BY <1>1, <3>1, CasPlaces, Zenon
    <3>3. FrameOK(t)'
      <4>1. addr'[t] # None
        BY <1>2, <2>1, <3>1, Zenon DEF FrameOK
      <4>2. InConfig(t) => spc[t] = "no" /\ f = "config"
        BY <1>2, <2>1, Zenon DEF FrameOK
      <4>3. InConfig(t) \/ spc[t] = "verify"
        BY <1>2, <2>1, Zenon DEF FrameOK
      <4>4. (InConfig(t)' <=> InConfig(t)) /\ spc'[t] = spc[t]
        BY <2>1, <3>1, Zenon DEF InConfig
      <4>5. InConfig(t)' => spc'[t] = "no" /\ cpc'[t] = "configCas"
        BY <3>2, <4>2, <4>4, Zenon
      <4>6. InConfig(t)' \/ spc'[t] = "verify"
        BY <4>3, <4>4, Zenon
      <4>7. cpc'[t] = "configCas" \/ cpc'[t] = "clientsetCas"
        BY <3>2, Zenon
      <4> QED
        BY <4>1, <4>5, <4>6, <4>7, Zenon DEF FrameOK
    <3>4. KubeOK(t)'
      BY <1>2, <2>1, <3>1, Zenon DEF KubeOK, InConfig
    <3>5. Converge(t)'
      <4>1. spc[t] = "verify" => cpc'[t] = "configCas" /\ tries'[t] = 1
        BY <2>2, <3>2, SmallNumbers, Zenon
      <4> QED
        BY <2>1, <2>2, <4>1, SmallNumbers, Zenon DEF Converge
    <3> QED
      BY <3>3, <3>4, <3>5, Zenon DEF ThreadOK
  <2>4. CASE ~(tries[t] + 1 < MaxCASRetries)
    <3>1. CacheFail(t)
      BY <1>5, <2>4, Zenon DEF CasRetry
    <3>2. cpc[t] # "no"
      BY <1>5, <2>1, Zenon
    <3> QED
      BY FailedThread, <2>1, <2>2, <3>1, <3>2, Zenon
  <2> QED
    BY <2>3, <2>4, Zenon
<1> QED
  BY <1>4, <1>5, Zenon

LEMMA OwnStartStep ==
    ASSUME CacheInv, CacheTypeOK', NEW t \in Threads,
           \/ WriteKubeconfig(t) \/ LaunchAndWait(t) \/ LaunchFails(t)
           \/ VerifyAndInstall(t) \/ TeardownAttempt(t)
           \/ \E i \in Instances : Config(t, i)
    PROVE  ThreadOK(t)'
<1>1. /\ cpc \in [Threads -> CachePC] /\ cinst \in [Threads -> Instances \cup {NoInst}]
      /\ addr \in [Threads -> Stacks \cup {None}] /\ old \in [Threads -> Cache]
      /\ tries \in [Threads -> 0 .. MaxCASRetries - 1] /\ clients \in [Instances -> Cache]
      /\ kubeconfig \in [Instances -> Stacks \cup {None}]
      /\ spc \in [Threads -> StartPC] /\ sinst \in [Threads -> Instances \cup {NoInst}]
      /\ sref \in [Threads -> Stacks \cup {None}] /\ running \in [Instances -> SUBSET Stacks]
  BY CacheFrames, Zenon DEF CacheInv
<1>2. CacheTypeOK /\ InstInv /\ FrameOK(t) /\ KubeOK(t) /\ Converge(t)
  BY OwnFacts, Zenon
<1>3. /\ spc[t] # "no" => sinst[t] \in Instances
      /\ sref[t] # None <=> spc[t] = "verify"
  BY OwnFacts, Zenon
<1>4. ~InConfig(t) <=> cinst[t] = NoInst
  BY OwnFacts, Zenon
<1>5. ASSUME NEW i \in Instances, Config(t, i) PROVE ThreadOK(t)'
  <2>1. /\ spc[t] = "no" /\ ~InConfig(t) /\ started[i]
        /\ UNCHANGED <<spc, sinst, sref, running, kubeconfig, addr, old, tries>>
    BY <1>5, Zenon DEF Config, Idle, instVars, startFrame
  <2>2. cpc'[t] = "cfgLoad" /\ cinst'[t] = i /\ i # NoInst
    BY <1>1, <1>5, InstNames, Zenon DEF Config, CacheGoto
  <2>3. cpc[t] = "no" /\ addr[t] = None /\ tries[t] = 0
    BY <1>2, <2>1, Zenon DEF FrameOK
  <2>4. kubeconfig[i] # None
    BY <2>1, Zenon DEF CacheInv, Current
  <2>5. FrameOK(t)' /\ KubeOK(t)' /\ Converge(t)'
    BY <2>1, <2>2, <2>3, <2>4, Zenon DEF FrameOK, KubeOK, Converge, InConfig
  <2> QED
    BY <2>5, Zenon DEF ThreadOK
<1>6. CASE WriteKubeconfig(t)
  <2>1. PICK s \in Stacks : /\ s \notin running[sinst[t]]
                            /\ kubeconfig' = [kubeconfig EXCEPT ![sinst[t]] = s]
                            /\ addr' = [addr EXCEPT ![t] = s]
    BY <1>6, Zenon DEF WriteKubeconfig, Fresh
  <2>2. spc[t] = "launch" /\ UNCHANGED <<spc, sinst, sref, running, cpc, cinst, old, tries>>
    BY <1>6, Zenon DEF WriteKubeconfig, instVars, startFrame
  <2>3. kubeconfig'[sinst[t]] = s /\ addr'[t] = s
    BY <1>1, <1>3, <2>1, <2>2, Zenon
  <2>4. cpc[t] = "no" /\ ~InConfig(t) /\ tries[t] = 0
    BY <1>2, <2>2, Zenon DEF FrameOK
  <2>5. FrameOK(t)' /\ KubeOK(t)' /\ Converge(t)'
    BY <2>1, <2>2, <2>3, <2>4, Zenon DEF FrameOK, KubeOK, Converge, InConfig
  <2> QED
    BY <2>5, Zenon DEF ThreadOK
<1>7. CASE LaunchAndWait(t)
  <2>1. /\ spc[t] = "launch" /\ addr[t] # None /\ cpc'[t] = "cliLoad" /\ addr'[t] = None
        /\ spc'[t] = "verify" /\ sref'[t] = addr[t]
        /\ UNCHANGED <<sinst, kubeconfig, clients, cinst, old, tries>>
    BY <1>1, <1>7, Zenon DEF LaunchAndWait, Launched, CacheGoto
  <2>2. ~InConfig(t) /\ tries[t] = 0 /\ kubeconfig[sinst[t]] = addr[t]
    BY <1>2, <2>1, Zenon DEF FrameOK, KubeOK
  <2>3. FrameOK(t)' /\ KubeOK(t)' /\ Converge(t)'
    <3>1. FrameOK(t)'
      BY <2>1, <2>2, Zenon DEF FrameOK, InConfig
    <3>2. KubeOK(t)'
      BY <2>1, <2>2, Zenon DEF KubeOK, InConfig
    <3>3. Converge(t)'
      BY <2>1, <2>2, SmallNumbers, Zenon DEF Converge
    <3> QED
      BY <3>1, <3>2, <3>3, Zenon
  <2> QED
    BY <2>3, Zenon DEF ThreadOK
<1>8. CASE LaunchFails(t)
  <2>1. /\ spc[t] = "launch" /\ spc'[t] = "done" /\ addr'[t] = None /\ UNCHANGED <<cpc, cinst, tries>>
    BY <1>1, <1>8, Zenon DEF LaunchFails, StartLaunchErr, StartReturns
  <2>2. cpc[t] = "no" /\ cinst[t] = NoInst /\ tries[t] = 0
    BY <1>2, <1>4, <2>1, Zenon DEF FrameOK
  <2> QED
    BY IdleThread, <2>1, <2>2, Zenon
<1>9. CASE VerifyAndInstall(t)
  <2>1. CacheReturn(t) /\ spc' = [spc EXCEPT ![t] = "publish"]
    BY <1>9, Zenon DEF VerifyAndInstall, StartInstall
  <2> QED
    BY <1>1, IdleThread, ReturnedFrame, <2>1, Zenon
<1>10. CASE TeardownAttempt(t)
  <2>1. CacheReturn(t) /\ StartTeardown(t)
    BY <1>10, Zenon DEF TeardownAttempt
  <2>2. spc'[t] = "done" \/ spc'[t] = "launch"
    <3>1. spc' = [spc EXCEPT ![t] = "launch"] \/ spc' = [spc EXCEPT ![t] = "done"]
      BY <2>1, Zenon DEF StartTeardown, StartReturns
    <3> QED
      BY <1>1, <3>1, Zenon
  <2> QED
    BY ReturnedFrame, <2>1, <2>2, Zenon DEF ThreadOK, FrameOK, KubeOK, Converge, InConfig
<1> QED
  BY <1>5, <1>6, <1>7, <1>8, <1>9, <1>10, Zenon

LEMMA OwnPlainStep ==
    ASSUME CacheInv, CacheTypeOK', NEW t \in Threads, CacheStep(t),
           \/ PlainStep(t) /\ NoCacheChange
           \/ \E i \in Instances : ExtractAndClear(t, i)
    PROVE  ThreadOK(t)'
<1>1. /\ cpc \in [Threads -> CachePC] /\ cinst \in [Threads -> Instances \cup {NoInst}]
      /\ addr \in [Threads -> Stacks \cup {None}] /\ old \in [Threads -> Cache]
      /\ tries \in [Threads -> 0 .. MaxCASRetries - 1] /\ clients \in [Instances -> Cache]
      /\ kubeconfig \in [Instances -> Stacks \cup {None}]
      /\ spc \in [Threads -> StartPC] /\ sinst \in [Threads -> Instances \cup {NoInst}]
      /\ sref \in [Threads -> Stacks \cup {None}] /\ running \in [Instances -> SUBSET Stacks]
  BY CacheFrames, Zenon DEF CacheInv
<1>2. CacheTypeOK /\ InstInv /\ FrameOK(t) /\ KubeOK(t) /\ Converge(t)
  BY OwnFacts, Zenon
<1>3. /\ spc[t] # "no" => sinst[t] \in Instances
      /\ sref[t] # None <=> spc[t] = "verify"
  BY OwnFacts, Zenon
<1>4. CASE PlainStep(t) /\ NoCacheChange
  <2>1. UNCHANGED <<kubeconfig, clients, cpc, cinst, addr, old, tries>>
    BY <1>4, Zenon DEF NoCacheChange, cacheFrame
  <2>2. CASE StartAlready(t) \/ StartLock(t) \/ StartPublish(t) \/ StartConsume(t)
             \/ \E i \in Instances : Idle(t) /\ StartCall(t, i)
    <3>1. /\ spc[t] \in {"no", "lock", "publish", "done"}
          /\ spc'[t] \in {"no", "lock", "launch", "done"}
          /\ InConfig(t) => spc[t] = "no"
      BY <1>1, <1>2, <2>2, Zenon DEF StartAlready, StartReturns, StartLock, StartPublish,
         StartConsume, StartCall, FrameOK
    <3>2. ~InConfig(t)
      BY <1>2, <2>2, Zenon DEF StartAlready, StartLock, StartPublish, StartConsume, Idle, FrameOK
    <3> QED
      BY QuietThread, <2>1, <3>1, <3>2, Zenon
  <2>3. CASE \/ \E i \in Instances : StopUnpublish(t, i) \/ StopClosePurge(t, i) \/ StopKill(t, i)
             \/ \E i \in Instances : Idle(t) /\ StopCall(t, {i})
             \/ ~Idle(t) /\ StopConsume(t)
    <3>1. UNCHANGED <<spc, sinst, sref>>
      BY <2>3, Zenon DEF StopUnpublish, StopClosePurge, StopKill, StopCall, StopConsume, startFrame
    <3>2. SameThread(t)
      BY <2>1, <3>1, Zenon DEF SameThread
    <3>3. InConfig(t) => kubeconfig'[cinst[t]] # None
      BY <1>2, <2>1, Zenon DEF KubeOK
    <3>4. spc[t] = "launch" => running'[sinst[t]] \subseteq running[sinst[t]]
      <4>1. ~(LaunchAndWait(t) /\ sinst[t] = sinst[t])
        BY <1>1, <3>1, Zenon DEF LaunchAndWait, Launched
      <4> QED
        BY <1>2, <1>3, <4>1, FileMoves, Zenon
    <3> QED
      BY <2>1, <3>2, <3>3, <3>4, KeptThread, Zenon
  <2> QED
    BY <1>4, <2>2, <2>3, Zenon DEF PlainStep
<1>5. ASSUME NEW i \in Instances, ExtractAndClear(t, i) PROVE ThreadOK(t)'
  <2>1. UNCHANGED <<spc, sinst, sref, cpc, cinst, addr, old, tries>>
    BY <1>5, Zenon DEF ExtractAndClear, StopExtract, startFrame, cacheFrame
  <2>2. SameThread(t)
    BY <2>1, Zenon DEF SameThread
  <2> QED
    BY <1>5, <2>2, OtherThread, Zenon
<1> QED
  BY <1>4, <1>5, Zenon

(* A step of t keeps what is known of t's own frames.                      *)
LEMMA OwnThread ==
    ASSUME CacheInv, CacheTypeOK', NEW t \in Threads, CacheStep(t)
    PROVE  ThreadOK(t)'
BY OwnClientStep, OwnCasLoad, OwnCasSwap, OwnStartStep, OwnPlainStep, ZenonT(30)
   DEF CacheStep, ClientStep

-----------------------------------------------------------------------------
(* What a step of t does to what startMu of i guards.                      *)
LEMMA InstMoves ==
    ASSUME CacheTypeOK, NEW t \in Threads, CacheStep(t), NEW i \in Instances
    PROVE  \/ started'[i] = started[i] /\ stack'[i] = stack[i]
           \/ sinst[t] = i /\ VerifyAndInstall(t) /\ started'[i] = started[i] /\ stack'[i] = sref[t]
           \/ sinst[t] = i /\ StartPublish(t) /\ started'[i] = TRUE /\ stack'[i] = stack[i]
           \/ /\ \E j \in Instances : i = j /\ ExtractAndClear(t, j)
              /\ started'[i] = started[i] /\ stack'[i] = None
           \/ StopUnpublish(t, i) /\ started'[i] = FALSE /\ stack'[i] = stack[i]
<1>1. started \in [Instances -> BOOLEAN] /\ stack \in [Instances -> Stacks \cup {None}]
  BY Zenon DEF CacheTypeOK, InstTypeOK
<1>2. CASE UNCHANGED <<started, stack>>
  BY <1>2, Zenon
<1>3. CASE ClientStep(t)
  <2>1. UNCHANGED instVars
    BY <1>3, ZenonT(30) DEF ClientStep, InternalClient, RestConfigHit, RestConfigMiss, BuildConfig,
       BuildErr, CasLoad, CasSwap, CasRetry, Config, WriteKubeconfig
  <2> QED
    BY <1>2, <2>1, Zenon DEF instVars
<1>4. CASE StartPublish(t)
  <2>1. started' = [started EXCEPT ![sinst[t]] = TRUE] /\ stack' = stack
    BY <1>4, Zenon DEF StartPublish
  <2>2. IF sinst[t] = i THEN started'[i] = TRUE ELSE started'[i] = started[i]
    BY <1>1, <2>1, Zenon
  <2> QED
    BY <1>4, <2>1, <2>2, Zenon
<1>5. ASSUME NEW j \in Instances, StopUnpublish(t, j)
      PROVE  \/ started'[i] = started[i] /\ stack'[i] = stack[i]
             \/ StopUnpublish(t, i) /\ started'[i] = FALSE /\ stack'[i] = stack[i]
  <2>1. started' = [started EXCEPT ![j] = FALSE] /\ stack' = stack
    BY <1>5, Zenon DEF StopUnpublish
  <2>2. IF i = j THEN started'[i] = FALSE ELSE started'[i] = started[i]
    BY <1>1, <2>1, Zenon
  <2> QED
    BY <1>5, <2>1, <2>2, Zenon
<1>6. CASE PlainStep(t) /\ ~StartPublish(t) /\ ~\E j \in Instances : StopUnpublish(t, j)
  <2>1. UNCHANGED <<started, stack>>
    BY <1>6, ZenonT(30) DEF PlainStep, StartAlready, StartLock, StartConsume, StopClosePurge,
       StopKill, StartCall, StopCall, StopConsume
  <2> QED
    BY <1>2, <2>1, Zenon
<1>7. CASE LaunchAndWait(t) \/ LaunchFails(t) \/ TeardownAttempt(t)
  <2>1. UNCHANGED <<started, stack>>
    BY <1>7, Zenon DEF LaunchAndWait, Launched, LaunchFails, StartLaunchErr, TeardownAttempt,
       StartTeardown
  <2> QED
    BY <1>2, <2>1, Zenon
<1>8. CASE VerifyAndInstall(t)
  <2>1. stack' = [stack EXCEPT ![sinst[t]] = sref[t]] /\ started' = started
    BY <1>8, Zenon DEF VerifyAndInstall, StartInstall
  <2>2. IF sinst[t] = i THEN stack'[i] = sref[t] ELSE stack'[i] = stack[i]
    BY <1>1, <2>1, Zenon
  <2> QED
    BY <1>8, <2>1, <2>2, Zenon
<1>9. ASSUME NEW j \in Instances, ExtractAndClear(t, j)
      PROVE  \/ started'[i] = started[i] /\ stack'[i] = stack[i]
             \/ i = j /\ started'[i] = started[i] /\ stack'[i] = None
  <2>1. stack' = [stack EXCEPT ![j] = None] /\ started' = started
    BY <1>9, Zenon DEF ExtractAndClear, StopExtract
  <2>2. IF i = j THEN stack'[i] = None ELSE stack'[i] = stack[i]
    BY <1>1, <2>1, Zenon
  <2> QED
    BY <2>1, <2>2, Zenon
<1> QED
  BY <1>3, <1>4, <1>5, <1>6, <1>7, <1>8, <1>9, ZenonT(30) DEF CacheStep

(* After a clearing that no Config call overlaps, i has no stack, its      *)
(* cache is empty, and nobody is about to fill it.                         *)
LEMMA ClearedStep ==
    ASSUME CacheInv, NEW t \in Threads, CacheStep(t), NEW i \in Instances, ~late'[i],
           \/ sinst[t] = i /\ TeardownAttempt(t)
           \/ \E j \in Instances : i = j /\ ExtractAndClear(t, j),
           started'[i] \/ stack'[i] # None => kubeconfig'[i] # None
    PROVE  Current(i)'
<1>1. /\ CacheTypeOK /\ InstInv /\ InstTypeOK /\ MuOK /\ FramesOK /\ Phase(i)
      /\ \A u \in Threads : ThreadOK(u)
  BY Zenon DEF CacheInv, InstInv
<1>2. /\ spc \in [Threads -> StartPC] /\ cinst \in [Threads -> Instances \cup {NoInst}]
      /\ sinst \in [Threads -> Instances \cup {NoInst}]
  BY <1>1, Zenon DEF InstTypeOK, CacheTypeOK
<1>3. \A u \in Threads : u # t => SameThread(u)
  BY <1>1, SameOther, Zenon
<1>4. CASE sinst[t] = i /\ TeardownAttempt(t)
  <2>1. spc[t] = "verify" /\ ClearClients(i) /\ CacheReturn(t) /\ StartTeardown(t)
    BY <1>4, Zenon DEF TeardownAttempt, StartTeardown
  <2>2. Cleared(i)
    BY <1>1, <2>1, ClearsOne, Zenon
  <2>3. \A u \in Threads : cinst'[u] # i
    <3>1. cinst'[t] # i
      BY <1>2, <2>1, InstNames, Zenon DEF CacheReturn
    <3>2. \A u \in Threads : cinst[u] # i
      BY <2>2, Zenon DEF Cleared
    <3> QED
      BY <1>3, <3>1, <3>2, Zenon DEF SameThread
  <2>4. StartHolds(t, i)
    BY <1>4, <2>1, Zenon DEF StartHolds
  <2>5. stack'[i] = None
    <3>1. stack[i] = None
      BY <1>1, <2>1, <2>4, Zenon DEF Phase
    <3>2. UNCHANGED stack
      BY <2>1, Zenon DEF StartTeardown
    <3> QED
      BY <3>1, <3>2, Zenon
  <2>6. ASSUME NEW u \in Threads, Verifying(u, i)' PROVE FALSE
    <3>1. CASE u = t
      BY <1>2, <2>1, <2>6, <3>1, Zenon DEF StartTeardown, StartReturns, Verifying
    <3>2. CASE u # t
      <4>1. StartHolds(u, i)
        BY <1>3, <2>6, <3>2, Zenon DEF SameThread, Verifying, StartHolds
      <4> QED
        BY <1>1, <2>4, <3>2, <4>1, MuHeld, Zenon
    <3> QED
      BY <3>1, <3>2, Zenon
  <2>7. clients'[i] = NoClients
    BY <2>2, Zenon DEF Cleared
  <2> QED
    BY <2>3, <2>5, <2>6, <2>7, Zenon DEF Current
<1>5. CASE \E j \in Instances : i = j /\ ExtractAndClear(t, j)
  <2>1. PICK j \in Instances : i = j /\ ExtractAndClear(t, j)
    BY <1>5, Zenon
  <2>2. /\ startMu[i] = NoThread /\ stack' = [stack EXCEPT ![i] = None] /\ ClearClients(i)
        /\ UNCHANGED <<spc, sinst, cinst>>
    BY <2>1, Zenon DEF ExtractAndClear, StopExtract, startFrame, cacheFrame
  <2>3. Cleared(i)
    BY <1>1, <2>2, ClearsOne, Zenon
  <2>4. \A u \in Threads : cinst'[u] # i
    BY <2>2, <2>3, Zenon DEF Cleared
  <2>5. stack'[i] = None
    BY <1>1, <2>2, Zenon DEF InstTypeOK
  <2>6. ASSUME NEW u \in Threads, Verifying(u, i)' PROVE FALSE
    <3>1. StartHolds(u, i)
      BY <2>2, <2>6, Zenon DEF Verifying, StartHolds
    <3> QED
      BY <1>1, <2>2, <3>1, MuHeld, Zenon
  <2>7. clients'[i] = NoClients
    BY <2>3, Zenon DEF Cleared
  <2> QED
    BY <2>4, <2>5, <2>6, <2>7, Zenon DEF Current
<1> QED
  BY <1>4, <1>5, Zenon

(* A Start goes through the stages of filling the cache of i.              *)
LEMMA OwnStage ==
    ASSUME CacheInv, CacheTypeOK', NEW t \in Threads, NEW i \in Instances, ~late[i],
           spc[t] = "verify", sinst[t] = i, ClientStep(t)
    PROVE  /\ Stage(t, i)'
           /\ UNCHANGED <<started, stack>>
           /\ cinst'[t] # i
<1>1. /\ cpc \in [Threads -> CachePC] /\ cinst \in [Threads -> Instances \cup {NoInst}]
      /\ addr \in [Threads -> Stacks \cup {None}] /\ old \in [Threads -> Cache]
      /\ tries \in [Threads -> 0 .. MaxCASRetries - 1] /\ clients \in [Instances -> Cache]
      /\ sref \in [Threads -> Stacks \cup {None}]
  BY Zenon DEF CacheInv, CacheTypeOK, InstTypeOK
<1>2. CacheTypeOK /\ InstInv /\ FrameOK(t) /\ KubeOK(t) /\ Converge(t) /\ Stage(t, i)
  BY Zenon DEF CacheInv, ThreadOK, Current, Verifying
<1>3. ~InConfig(t) /\ cinst[t] = NoInst /\ Inst(t) = i /\ NoInst # i /\ cpc[t] # "no"
  BY <1>2, InstNames, Zenon DEF FrameOK, Inst, InConfig
<1>4. UNCHANGED instVars
  BY ZenonT(30) DEF ClientStep, InternalClient, RestConfigHit, RestConfigMiss, BuildConfig,
     BuildErr, CasLoad, CasSwap, CasRetry, Config, WriteKubeconfig
<1>5. UNCHANGED <<started, stack, spc, sinst, sref>>
  BY <1>4, Zenon DEF instVars, startFrame
<1>6. sref[t] \in Stacks /\ sref[t] # None /\ kubeconfig[i] = sref[t]
  BY <1>1, <1>2, Zenon DEF InstInv, FramesOK, KubeOK
<1>7. NoClients.config = None /\ NoClients.clientset = None /\ NoClients \in Cache
  BY CacheFields, Zenon
<1>8. /\ [config |-> sref[t], clientset |-> None].config # None
      /\ [config |-> sref[t], clientset |-> None].clientset = None
  BY <1>6, Zenon
<1>9. ASSUME CacheFail(t) PROVE Stage(t, i)' /\ cinst'[t] # i
  <2>1. cpc'[t] = "failed" /\ cinst' = cinst
    BY <1>1, <1>3, <1>9, Zenon DEF CacheFail, CacheGoto
  <2> QED
    BY <1>3, <2>1, Zenon DEF Stage
<1>10. CASE InternalClient(t)
  <2>1. cpc[t] = "cliLoad" /\ clients[i] = NoClients
    BY <1>2, <1>10, Zenon DEF InternalClient, Stage
  <2>2. cpc'[t] = "cfgLoad" /\ UNCHANGED <<clients, cinst>>
    BY <1>1, <1>3, <1>7, <1>10, <2>1, Zenon DEF InternalClient, CacheGoto
  <2> QED
    BY <1>3, <1>5, <2>1, <2>2, Zenon DEF Stage
<1>11. CASE RestConfigHit(t)
  <2>1. cpc[t] = "cfgLoad" /\ clients[i].config # None
    BY <1>3, <1>11, Zenon DEF RestConfigHit
  <2> QED
    BY <1>2, <1>7, <2>1, Zenon DEF Stage
<1>12. CASE RestConfigMiss(t)
  <2>1. cpc[t] = "cfgLoad" /\ cpc'[t] = "cfgRead" /\ UNCHANGED <<clients, cinst>>
    BY <1>1, <1>12, Zenon DEF RestConfigMiss, CacheGoto
  <2> QED
    BY <1>2, <1>3, <1>5, <2>1, Zenon DEF Stage
<1>13. CASE BuildConfig(t)
  <2>1. /\ cpc[t] = "cfgRead" /\ cpc'[t] = "configCas" /\ addr'[t] = kubeconfig[i]
        /\ UNCHANGED <<clients, cinst>>
    BY <1>1, <1>3, <1>13, CasPlaces, Zenon DEF BuildConfig, CacheGoto
  <2> QED
    BY <1>2, <1>3, <1>5, <1>6, <2>1, Zenon DEF Stage
<1>14. CASE BuildErr(t)
  BY <1>5, <1>9, <1>14, Zenon DEF BuildErr
<1>15. ASSUME NEW f \in {"config", "clientset"}, CasLoad(t, f)
       PROVE  Stage(t, i)' /\ cinst'[t] # i
  <2>1. cpc[t] = IF f = "config" THEN "configCas" ELSE "clientsetCas"
    BY <1>15, CasPlaces, Zenon DEF CasLoad
  <2>2. clients[i][f] = None
    <3>1. clients[i] \in Cache
      BY <1>1, Zenon
    <3>2. clients[i]["config"] = clients[i].config /\ clients[i]["clientset"] = clients[i].clientset
      BY <3>1, CacheFields, Zenon
    <3> QED
      BY <1>2, <1>7, <1>8, <2>1, <3>2, Zenon DEF Stage
  <2>3. /\ old' = [old EXCEPT ![t] = clients[i]] /\ cpc' = [cpc EXCEPT ![t] = SwapPC[f]]
        /\ UNCHANGED <<cinst, addr, clients>>
    BY <1>3, <1>15, <2>2, Zenon DEF CasLoad, CacheGoto
  <2>4. old'[t] = clients[i] /\ cpc'[t] = IF f = "config" THEN "configSwap" ELSE "clientsetSwap"
    BY <1>1, <2>3, CasPlaces, Zenon
  <2>5. CASE f = "config"
    <3>1. cpc[t] = "configCas" /\ cpc'[t] = "configSwap"
      BY <2>1, <2>4, <2>5, Zenon
    <3>2. clients[i] = NoClients /\ addr[t] = sref[t]
      BY <1>2, <3>1, Zenon DEF Stage
    <3> QED
      BY <1>3, <1>5, <2>3, <2>4, <3>1, <3>2, Zenon DEF Stage
  <2>6. CASE f = "clientset"
    <3>1. cpc[t] = "clientsetCas" /\ cpc'[t] = "clientsetSwap"
      BY <2>1, <2>4, <2>6, Zenon
    <3>2. clients[i] = [config |-> sref[t], clientset |-> None] /\ addr[t] = sref[t]
      BY <1>2, <3>1, Zenon DEF Stage
    <3> QED
      BY <1>3, <1>5, <2>3, <3>1, <3>2, Zenon DEF Stage
  <2> QED
    BY <2>5, <2>6, Zenon
<1>16. ASSUME NEW f \in {"config", "clientset"}, CasSwap(t, f)
       PROVE  Stage(t, i)' /\ cinst'[t] # i
  <2>1. /\ cpc'[t] = IF f = "config" THEN "clientsetCas" ELSE "poll"
        /\ UNCHANGED <<cinst, addr>>
    BY <1>1, <1>3, <1>16, Zenon DEF CasSwap, Have, CacheGoto
  <2>2. /\ clients[i] \in Cache /\ clients'[i] \in Cache
        /\ f = "config" => /\ cpc[t] = "configSwap" /\ clients'[i].config = addr[t]
                           /\ clients'[i].clientset = clients[i].clientset
        /\ f = "clientset" => /\ cpc[t] = "clientsetSwap" /\ clients'[i].clientset = addr[t]
                              /\ clients'[i].config = clients[i].config
    BY <1>2, <1>3, <1>16, SwapEffect, Zenon
  <2>3. addr[t] = sref[t]
    BY <1>2, <2>2, Zenon DEF Stage
  <2>4. f = "config" => clients'[i] = [config |-> sref[t], clientset |-> None]
    <3>1. f = "config" => clients'[i].config = sref[t] /\ clients'[i].clientset = None
      BY <1>2, <1>7, <2>2, <2>3, Zenon DEF Stage
    <3> QED
      BY <1>6, <2>2, <3>1, Zenon DEF Cache
  <2>5. f = "clientset" => clients'[i] = [config |-> sref[t], clientset |-> sref[t]]
    <3>1. f = "clientset" => clients'[i].config = sref[t] /\ clients'[i].clientset = sref[t]
      <4>1. [config |-> sref[t], clientset |-> None].config = sref[t]
        BY Zenon
      <4>2. f = "clientset" => clients[i] = [config |-> sref[t], clientset |-> None]
        BY <1>2, <2>2, Zenon DEF Stage
      <4> QED
        BY <2>2, <2>3, <4>1, <4>2, Zenon
    <3> QED
      BY <1>6, <2>2, <3>1, ZenonT(30) DEF Cache
  <2> QED
    BY <1>3, <1>5, <2>1, <2>3, <2>4, <2>5, Zenon DEF Stage
<1>17. ASSUME NEW f \in {"config", "clientset"}, CasRetry(t, f) PROVE FALSE
  <2>1. /\ cpc[t] = IF f = "config" THEN "configSwap" ELSE "clientsetSwap"
        /\ clients[i] # old[t]
    BY <1>3, <1>17, CasPlaces, Zenon DEF CasRetry
  <2> QED
    BY <1>2, <2>1, Zenon DEF Stage, Converge
<1>18. \A j \in Instances : ~Config(t, j)
  BY Zenon DEF Config, Idle
<1>19. ~WriteKubeconfig(t)
  BY Zenon DEF WriteKubeconfig
<1>20. Stage(t, i)' /\ cinst'[t] # i
  BY <1>10, <1>11, <1>12, <1>13, <1>14, <1>15, <1>16, <1>17, <1>18, <1>19, ZenonT(30) DEF ClientStep
<1> QED
  BY <1>5, <1>20, Zenon

(* How a step of t enters and leaves the verifying of a Start.             *)
LEMMA OwnFrame ==
    ASSUME CacheInv, NEW t \in Threads, CacheStep(t)
    PROVE  /\ spc[t] = "verify" => \/ spc'[t] = "verify" /\ sinst'[t] = sinst[t]
                                   \/ VerifyAndInstall(t) \/ TeardownAttempt(t)
           /\ spc'[t] = "verify" => /\ sinst'[t] = sinst[t]
                                    /\ \/ spc[t] = "verify" /\ (ClientStep(t) \/ SameThread(t))
                                       \/ LaunchAndWait(t)
<1>1. /\ spc \in [Threads -> StartPC] /\ sinst \in [Threads -> Instances \cup {NoInst}]
  BY Zenon DEF CacheInv, CacheTypeOK, InstTypeOK
<1>2. CASE ClientStep(t)
  <2>1. UNCHANGED instVars
    BY <1>2, ZenonT(30) DEF ClientStep, InternalClient, RestConfigHit, RestConfigMiss, BuildConfig,
       BuildErr, CasLoad, CasSwap, CasRetry, Config, WriteKubeconfig
  <2>2. UNCHANGED <<spc, sinst>>
    BY <2>1, Zenon DEF instVars, startFrame
  <2> QED
    BY <1>2, <2>2, Zenon
<1>3. CASE \/ StartAlready(t) \/ StartLock(t) \/ StartPublish(t) \/ StartConsume(t)
           \/ \E i \in Instances : StartCall(t, i)
  <2>1. spc'[t] \in {"done", "no", "lock", "launch"} /\ spc[t] # "verify"
    BY <1>1, <1>3, Zenon DEF StartAlready, StartReturns, StartLock, StartPublish, StartConsume, StartCall
  <2> QED
    BY <2>1, Zenon
<1>5. CASE /\ NoCacheChange \/ \E i \in Instances : ExtractAndClear(t, i)
           /\ \/ \E i \in Instances : StopUnpublish(t, i) \/ StopClosePurge(t, i) \/ StopKill(t, i)
              \/ \E i \in Instances : StopExtract(t, i) \/ StopCall(t, {i})
              \/ StopConsume(t)
  <2>1. UNCHANGED <<spc, sinst, sref>>
    BY <1>5, Zenon DEF StopUnpublish, StopClosePurge, StopKill, StopCall, StopConsume, StopExtract, startFrame
  <2>2. UNCHANGED <<cpc, cinst, addr, old, tries>>
    BY <1>5, Zenon DEF NoCacheChange, ExtractAndClear, cacheFrame
  <2>3. SameThread(t)
    BY <2>1, <2>2, Zenon DEF SameThread
  <2> QED
    BY <2>1, <2>3, Zenon
<1>6. CASE PlainStep(t) /\ NoCacheChange
  BY <1>3, <1>5, <1>6, ZenonT(30) DEF PlainStep
<1>7. CASE LaunchAndWait(t)
  <2>1. spc'[t] = "verify" /\ sinst' = sinst /\ spc[t] = "launch"
    BY <1>1, <1>7, Zenon DEF LaunchAndWait, Launched
  <2> QED
    BY <1>7, <2>1, Zenon
<1>8. CASE LaunchFails(t)
  <2>1. spc'[t] = "done" /\ spc[t] = "launch"
    BY <1>1, <1>8, Zenon DEF LaunchFails, StartLaunchErr, StartReturns
  <2> QED
    BY <2>1, Zenon
<1>11. CASE VerifyAndInstall(t)
  <2>1. spc'[t] = "publish"
    BY <1>1, <1>11, Zenon DEF VerifyAndInstall, StartInstall
  <2> QED
    BY <1>11, <2>1, Zenon
<1>9. CASE TeardownAttempt(t)
  <2>1. StartTeardown(t)
    BY <1>9, Zenon DEF TeardownAttempt
  <2>2. sinst' = sinst /\ spc'[t] # "verify"
    BY <1>1, <2>1, Zenon DEF StartTeardown, StartReturns
  <2> QED
    BY <1>9, <2>2, Zenon
<1>10. CASE \E i \in Instances : ExtractAndClear(t, i)
  BY <1>5, <1>10, Zenon DEF ExtractAndClear
<1> QED
  BY <1>2, <1>6, <1>7, <1>8, <1>9, <1>10, <1>11, Zenon DEF CacheStep

(* A Config call on i finds its config cached, unless late.                *)
LEMMA OwnConfig ==
    ASSUME CacheInv, NEW t \in Threads,
           CacheStep(t), NEW i \in Instances, ~late[i], ~late'[i], cinst'[t] = i
    PROVE  started[i] /\ stack[i] # None /\ cpc'[t] = "cfgLoad"
<1>1. /\ cpc \in [Threads -> CachePC] /\ cinst \in [Threads -> Instances \cup {NoInst}]
      /\ late \in [Instances -> BOOLEAN] /\ i # NoInst
  BY InstNames, Zenon DEF CacheInv, CacheTypeOK, InstTypeOK
<1>2. /\ FrameOK(t)
      /\ cinst[t] = i => started[i] /\ stack[i] # None /\ cpc[t] = "cfgLoad"
      /\ stack[i] # None => clients[i] = [config |-> stack[i], clientset |-> stack[i]]
  BY Zenon DEF CacheInv, ThreadOK, Current
<1>3. stack[i] # None => clients[i].config # None
  <2>1. [config |-> stack[i], clientset |-> stack[i]].config = stack[i]
    BY Zenon
  <2> QED
    BY <1>2, <2>1, Zenon
<1>4. ~CacheReturn(t)
  BY <1>1, Zenon DEF CacheReturn
<1>5. ASSUME NEW j \in Instances, Config(t, j)
      PROVE  started[i] /\ stack[i] # None /\ cpc'[t] = "cfgLoad"
  <2>1. j = i /\ cpc'[t] = "cfgLoad"
    BY <1>1, <1>5, Zenon DEF Config, CacheGoto
  <2>2. started[i] /\ late' = [late EXCEPT ![i] = @ \/ \E u \in Threads : Clearing(u, i)]
    BY <1>5, <2>1, Zenon DEF Config
  <2>3. late'[i] = (late[i] \/ \E u \in Threads : Clearing(u, i))
    BY <1>1, <2>2, Zenon
  <2>4. started[i] => stack[i] # None \/ \E u \in Threads : Clearing(u, i)
    BY InstProperties, Zenon DEF CacheInv, StartedComplete
  <2> QED
    BY <2>1, <2>2, <2>3, <2>4, Zenon
<1>6. CASE UNCHANGED <<cpc, cinst>>
  BY <1>2, <1>6, Zenon
<1>7. CASE cinst' = cinst /\ cpc[t] # "cfgLoad"
  BY <1>2, <1>7, Zenon
<1>8. CASE InternalClient(t) \/ BuildConfig(t) \/ WriteKubeconfig(t)
  <2>1. cinst' = cinst /\ (cpc' = cpc \/ cpc[t] # "cfgLoad")
    BY <1>8, Zenon DEF InternalClient, BuildConfig, WriteKubeconfig
  <2> QED
    BY <1>6, <1>7, <2>1, Zenon
<1>9. CASE RestConfigHit(t) \/ RestConfigMiss(t)
  <2>1. cinst[t] = i /\ clients[Inst(t)].config = None
    <3>1. CASE RestConfigMiss(t)
      BY <3>1, Zenon DEF RestConfigMiss
    <3>2. CASE RestConfigHit(t)
      <4>1. ~InConfig(t) /\ cinst' = cinst
        BY <1>4, <3>2, Zenon DEF RestConfigHit
      <4> QED
        BY <1>1, <4>1, Zenon DEF InConfig
    <3> QED
      BY <1>9, <3>1, <3>2, Zenon
  <2>2. Inst(t) = i
    BY <1>1, <2>1, Zenon DEF Inst, InConfig
  <2> QED
    BY <1>2, <1>3, <2>1, <2>2, Zenon
<1>10. CASE BuildErr(t)
  <2>1. cinst' = cinst /\ cpc[t] # "cfgLoad"
    BY <1>4, <1>10, Zenon DEF BuildErr, CacheFail
  <2> QED
    BY <1>7, <2>1, Zenon
<1>11. ASSUME NEW f \in {"config", "clientset"}, CasLoad(t, f) \/ CasSwap(t, f) \/ CasRetry(t, f)
       PROVE  started[i] /\ stack[i] # None /\ cpc'[t] = "cfgLoad"
  <2>1. cinst' = cinst
    BY <1>4, <1>11, Zenon DEF CasLoad, CasSwap, CasRetry, Have, CacheFail
  <2>2. cpc[t] # "cfgLoad"
    BY <1>11, CasPlaces, Zenon DEF CasLoad, CasSwap, CasRetry
  <2> QED
    BY <1>7, <2>1, <2>2, Zenon
<1>12. CASE LaunchAndWait(t) \/ LaunchFails(t)
  <2>1. cinst' = cinst /\ spc[t] # "no"
    BY <1>12, Zenon DEF LaunchAndWait, Launched, LaunchFails, StartLaunchErr
  <2> QED
    BY <1>1, <1>2, <2>1, Zenon DEF FrameOK, InConfig
<1>13. CASE VerifyAndInstall(t) \/ TeardownAttempt(t)
  BY <1>4, <1>13, Zenon DEF VerifyAndInstall, TeardownAttempt
<1>14. CASE NoCacheChange \/ \E j \in Instances : ExtractAndClear(t, j)
  BY <1>6, <1>14, Zenon DEF NoCacheChange, ExtractAndClear, cacheFrame
<1> QED
  BY <1>5, <1>8, <1>9, <1>10, <1>11, <1>12, <1>13, <1>14, ZenonT(30) DEF CacheStep, ClientStep

LEMMA CurrentStep ==
    ASSUME CacheInv, CacheTypeOK', NEW t \in Threads, CacheStep(t), NEW i \in Instances
    PROVE  Current(i)'
<1>1. /\ CacheTypeOK /\ InstInv /\ InstTypeOK /\ MuOK /\ FramesOK /\ Phase(i) /\ Current(i)
      /\ ThreadOK(t)
  BY Zenon DEF CacheInv, InstInv
<1>2. \A u \in Threads : u # t => SameThread(u)
  BY <1>1, SameOther, Zenon
<1> DEFINE Tears == sinst[t] = i /\ TeardownAttempt(t)
           Stops == \E j \in Instances : i = j /\ ExtractAndClear(t, j)
<1>3. started'[i] \/ stack'[i] # None => kubeconfig'[i] # None
  <2>1. CASE sinst[t] = i /\ VerifyAndInstall(t)
    <3>1. kubeconfig' = kubeconfig /\ spc[t] = "verify"
      BY <2>1, Zenon DEF VerifyAndInstall, StartInstall
    <3>2. sref[t] # None
      BY <1>1, <3>1, Zenon DEF FramesOK
    <3> QED
      BY <1>1, <2>1, <3>1, <3>2, Zenon DEF ThreadOK, KubeOK
  <2>2. CASE ~(sinst[t] = i /\ VerifyAndInstall(t))
    <3>1. sinst[t] = i /\ StartPublish(t) => stack[i] # None
      BY <1>1, Zenon DEF StartPublish, StartHolds, Phase
    <3>2. started'[i] \/ stack'[i] # None => started[i] \/ stack[i] # None
      BY <1>1, <2>2, <3>1, InstMoves, Zenon
    <3>3. kubeconfig'[i] = kubeconfig[i] \/ kubeconfig'[i] \in Stacks
      BY <1>1, FileMoves, Zenon
    <3>4. started[i] \/ stack[i] # None => kubeconfig[i] # None
      BY <1>1, Zenon DEF Current
    <3> QED
      BY <3>2, <3>3, <3>4, InstNames, Zenon
  <2> QED
    BY <2>1, <2>2, Zenon
<1>4. CASE late'[i]
  BY <1>3, <1>4, Zenon DEF Current
<1>5. CASE ~late'[i] /\ (Tears \/ Stops)
  <2> HIDE DEF Tears, Stops
  <2> QED
    BY <1>1, <1>3, <1>5, ClearedStep, Zenon DEF Tears, Stops
<1>6. CASE ~late'[i] /\ ~Tears /\ ~Stops
  <2>1. /\ ~late[i]
        /\ \/ clients'[i] = clients[i]
           \/ Inst(t) = i /\ \E f \in {"config", "clientset"} : CasSwap(t, f)
    <3> HIDE DEF Tears, Stops
    <3> QED
      BY <1>1, <1>6, CacheMoves, Zenon DEF Tears, Stops
  <2>2. /\ \A u \in Threads : cinst[u] = i => started[i] /\ stack[i] # None /\ cpc[u] = "cfgLoad"
        /\ stack[i] # None => clients[i] = [config |-> stack[i], clientset |-> stack[i]]
        /\ stack[i] = None /\ (\A u \in Threads : ~Verifying(u, i)) => clients[i] = NoClients
        /\ \A u \in Threads : Verifying(u, i) => Stage(u, i)
    BY <1>1, <2>1, Zenon DEF Current
  <2>3. /\ \/ started'[i] = started[i] /\ stack'[i] = stack[i]
           \/ sinst[t] = i /\ VerifyAndInstall(t) /\ started'[i] = started[i] /\ stack'[i] = sref[t]
           \/ started'[i] = TRUE /\ stack'[i] = stack[i]
           \/ StopUnpublish(t, i) /\ stack'[i] = stack[i]
    <3> HIDE DEF Tears, Stops
    <3> QED
      BY <1>1, <1>6, InstMoves, Zenon DEF Tears, Stops
  <2>4. ASSUME sinst[t] = i, VerifyAndInstall(t)
        PROVE  Stage(t, i) /\ cpc[t] = "poll" /\ stack'[i] = sref[t] /\ sref[t] # None
    <3>1. spc[t] = "verify" /\ cpc[t] = "poll" /\ stack' = [stack EXCEPT ![i] = sref[t]]
      BY <2>4, Zenon DEF VerifyAndInstall, StartInstall
    <3>2. stack'[i] = sref[t]
      BY <1>1, <3>1, Zenon DEF InstTypeOK
    <3>3. sref[t] # None
      BY <1>1, <3>1, Zenon DEF FramesOK
    <3> QED
      BY <2>2, <2>4, <3>1, <3>2, <3>3, Zenon DEF Verifying
  <2>5. \A u \in Threads : cinst'[u] = i => started'[i] /\ stack'[i] # None /\ cpc'[u] = "cfgLoad"
    <3>1. started[i] /\ stack[i] # None => started'[i] /\ stack'[i] # None
      <4>1. StopUnpublish(t, i) => stack[i] = None
        BY <1>1, Zenon DEF StopUnpublish, Clearing, Phase
      <4> QED
        BY <2>3, <2>4, <4>1, Zenon
    <3>2. ASSUME NEW u \in Threads, u # t, cinst'[u] = i
          PROVE  started[i] /\ stack[i] # None /\ cpc'[u] = "cfgLoad"
      BY <1>2, <2>2, <3>2, Zenon DEF SameThread
    <3>3. cinst'[t] = i => started[i] /\ stack[i] # None /\ cpc'[t] = "cfgLoad"
      BY <1>6, <2>1, OwnConfig, Zenon
    <3> QED
      BY <3>1, <3>2, <3>3, Zenon
  <2>6. CASE Inst(t) = i /\ \E f \in {"config", "clientset"} : CasSwap(t, f)
    <3>1. PICK f \in {"config", "clientset"} : CasSwap(t, f)
      BY <2>6, Zenon
    <3>2. cpc[t] = "configSwap" \/ cpc[t] = "clientsetSwap"
      BY <3>1, CasPlaces, Zenon DEF CasSwap
    <3>3. spc[t] = "verify" /\ sinst[t] = i /\ ClientStep(t)
      <4>1. cinst[t] # i
        BY <2>2, <3>2, Zenon
      <4>2. cpc[t] # "no" /\ FrameOK(t)
        BY <1>1, <3>2, Zenon DEF ThreadOK
      <4>3. InConfig(t) \/ spc[t] = "verify"
        BY <1>1, <4>2, InstKnown, Zenon
      <4>4. ClientStep(t)
        BY <3>1, Zenon DEF ClientStep
      <4> QED
        BY <2>6, <4>1, <4>3, <4>4, Zenon DEF Inst
    <3>4. Stage(t, i)' /\ UNCHANGED <<started, stack>>
      BY <2>1, <3>3, OwnStage, Zenon
    <3>5. StartHolds(t, i)
      BY <3>3, Zenon DEF StartHolds
    <3>6. stack'[i] = None
      BY <1>1, <3>3, <3>4, <3>5, Zenon DEF Phase
    <3>7. UNCHANGED <<spc, sinst>>
      BY <3>1, Zenon DEF CasSwap, instVars, startFrame
    <3>8. Verifying(t, i)'
      BY <3>3, <3>7, Zenon DEF Verifying
    <3>9. ASSUME NEW u \in Threads, Verifying(u, i)' PROVE u = t
      <4>1. StartHolds(u, i)
        BY <3>7, <3>9, Zenon DEF Verifying, StartHolds
      <4> QED
        BY <1>1, <3>5, <4>1, MuHeld, Zenon
    <3> QED
      BY <1>3, <2>5, <3>4, <3>6, <3>8, <3>9, Zenon DEF Current
  <2>7. CASE clients'[i] = clients[i]
    <3>1. stack'[i] # None => clients'[i] = [config |-> stack'[i], clientset |-> stack'[i]]
      <4>1. CASE stack'[i] = stack[i]
        BY <2>2, <2>7, <4>1, Zenon
      <4>2. CASE sinst[t] = i /\ VerifyAndInstall(t)
        BY <2>4, <2>7, <4>2, Zenon DEF Stage
      <4> QED
        BY <2>3, <4>1, <4>2, Zenon
    <3>2. ASSUME stack'[i] = None, \A u \in Threads : ~Verifying(u, i)'
          PROVE  clients'[i] = NoClients
      <4>1. ~(sinst[t] = i /\ VerifyAndInstall(t))
        BY <2>4, <3>2, Zenon
      <4>2. stack[i] = None
        BY <2>3, <3>2, <4>1, Zenon
      <4>3. ASSUME NEW u \in Threads, Verifying(u, i) PROVE FALSE
        <5>1. CASE u # t
          BY <1>2, <3>2, <4>3, <5>1, Zenon DEF SameThread, Verifying
        <5>2. CASE u = t
          <6>1. spc[t] = "verify" /\ sinst[t] = i
            BY <4>3, <5>2, Zenon DEF Verifying
          <6>2. spc'[t] = "verify" /\ sinst'[t] = i
            BY <1>6, <4>1, <6>1, OwnFrame, Zenon
          <6> QED
            BY <3>2, <6>2, Zenon DEF Verifying
        <5> QED
          BY <5>1, <5>2, Zenon
      <4> QED
        BY <2>2, <2>7, <4>2, <4>3, Zenon
    <3>3. ASSUME NEW u \in Threads, Verifying(u, i)' PROVE Stage(u, i)'
      <4>1. spc'[u] = "verify" /\ sinst'[u] = i
        BY <3>3, Zenon DEF Verifying
      <4>2. CASE SameThread(u)
        <5>1. Stage(u, i)
          BY <2>2, <4>1, <4>2, Zenon DEF SameThread, Verifying
        <5> QED
          BY <2>7, <4>2, <5>1, Zenon DEF SameThread, Stage
      <4>3. CASE u = t
        <5>1. /\ sinst[t] = i
              /\ \/ spc[t] = "verify" /\ (ClientStep(t) \/ SameThread(t))
                 \/ LaunchAndWait(t)
          BY <4>1, <4>3, OwnFrame, Zenon
        <5>2. CASE spc[t] = "verify" /\ ClientStep(t)
          BY <2>1, <4>3, <5>1, <5>2, OwnStage, Zenon
        <5>3. CASE LaunchAndWait(t)
          <6>1. spc[t] = "launch" /\ cpc' = [cpc EXCEPT ![t] = "cliLoad"] /\ cpc \in [Threads -> CachePC]
            BY <1>1, <5>3, Zenon DEF LaunchAndWait, Launched, CacheGoto, CacheTypeOK
          <6>2. cpc'[t] = "cliLoad"
            BY <6>1, Zenon
          <6>3. StartHolds(t, i)
            BY <5>1, <6>1, Zenon DEF StartHolds
          <6>4. stack[i] = None
            BY <1>1, <6>1, <6>3, Zenon DEF Phase
          <6>5. ASSUME NEW v \in Threads, Verifying(v, i) PROVE FALSE
            <7>1. StartHolds(v, i) /\ spc[v] = "verify"
              BY <6>5, Zenon DEF Verifying, StartHolds
            <7>2. v = t
              BY <1>1, <6>3, <7>1, MuHeld, Zenon
            <7> QED
              BY <6>1, <7>1, <7>2, Zenon
          <6>6. clients'[i] = NoClients
            BY <2>2, <2>7, <6>4, <6>5, Zenon
          <6> QED
            BY <4>3, <6>2, <6>6, Zenon DEF Stage
        <5> QED
          BY <4>2, <4>3, <5>1, <5>2, <5>3, Zenon
      <4> QED
        BY <1>2, <4>2, <4>3, Zenon
    <3> QED
      BY <1>3, <2>5, <3>1, <3>2, <3>3, Zenon DEF Current
  <2> QED
    BY <2>1, <2>6, <2>7, Zenon
<1> QED
  BY <1>4, <1>5, <1>6, Zenon

-----------------------------------------------------------------------------
LEMMA CacheInitially == CacheInit => CacheInv
<1>1. SUFFICES ASSUME CacheInit PROVE CacheInv
  BY Zenon
<1>2. InstInv /\ InstTypeOK
  BY <1>1, InstInitially, Zenon DEF CacheInit, InstInv
<1>3. CacheTypeOK
  <2>1. tries \in [Threads -> 0 .. MaxCASRetries - 1]
    BY <1>1, CASRetriesAssumption DEF CacheInit
  <2>2. clients \in [Instances -> Cache] /\ old \in [Threads -> Cache]
    BY <1>1, CacheFields, Zenon DEF CacheInit
  <2> QED
    BY <1>1, <1>2, <2>1, <2>2, CachePlaces, Zenon DEF CacheInit, CacheTypeOK
<1>4. \A t \in Threads : ThreadOK(t)
  BY <1>1, Zenon DEF CacheInit, InstInit, ThreadOK, FrameOK, KubeOK, Converge, InConfig
<1>5. \A i \in Instances : Current(i)
  BY <1>1, InstNames, Zenon DEF CacheInit, InstInit, Current, Verifying
<1> QED
  BY <1>2, <1>3, <1>4, <1>5, Zenon DEF CacheInv

LEMMA CacheInvStep ==
    ASSUME CacheInv, [CacheNext]_cacheVars
    PROVE  CacheInv'
<1>1. ASSUME NEW t \in Threads, CacheStep(t) PROVE CacheInv'
  <2>1. CacheTypeOK /\ InstInv /\ ThreadOK(t) /\ FrameOK(t)
    BY Zenon DEF CacheInv, ThreadOK
  <2>2. InstInv' /\ InstTypeOK'
    BY <1>1, <2>1, CacheInstStep, InstInvStep, InstInvStutter, Zenon DEF InstInv
  <2>3. CacheTypeOK'
    BY <1>1, <2>1, <2>2, CacheTypesStep, Zenon
  <2>4. ThreadOK(t)'
    BY <1>1, <2>3, OwnThread, Zenon
  <2>5. ASSUME NEW u \in Threads, u # t PROVE ThreadOK(u)'
    BY <1>1, <2>1, <2>3, <2>5, SameOther, OtherThread, Zenon
  <2>6. ASSUME NEW i \in Instances PROVE Current(i)'
    BY <1>1, <2>3, <2>6, CurrentStep, Zenon
  <2> QED
    BY <2>2, <2>3, <2>4, <2>5, <2>6, Zenon DEF CacheInv
<1>2. CASE CacheNext
  BY <1>1, <1>2, CacheSteps, Zenon
<1>3. CASE UNCHANGED cacheVars
  <2>1. /\ UNCHANGED instVars
        /\ UNCHANGED <<kubeconfig, clients, cpc, cinst, addr, old, tries, late>>
    BY <1>3, Zenon DEF cacheVars, cacheFrame
  <2>2. UNCHANGED <<started, stack, startMu, running, spc, sinst, sref>>
    BY <2>1, Zenon DEF instVars, startFrame
  <2>3. InstInv' /\ InstTypeOK'
    BY <2>1, InstInvStutter, Zenon DEF CacheInv, InstInv
  <2>4. CacheTypeOK'
    BY <2>1, <2>3, Zenon DEF CacheInv, CacheTypeOK
  <2>5. ASSUME NEW t \in Threads PROVE ThreadOK(t)'
    <3>1. ThreadOK(t)
      BY Zenon DEF CacheInv
    <3> QED
      BY <2>1, <2>2, <3>1, Zenon DEF ThreadOK, FrameOK, KubeOK, Converge, InConfig
  <2>6. ASSUME NEW i \in Instances PROVE Current(i)'
    <3>1. Current(i)
      BY Zenon DEF CacheInv
    <3> QED
      BY <2>1, <2>2, <3>1, Zenon DEF Current, Stage, Verifying
  <2> QED
    BY <2>3, <2>4, <2>5, <2>6, Zenon DEF CacheInv
<1> QED
  BY <1>2, <1>3, Zenon

LEMMA CacheAlways == CacheSpec => []CacheInv
<1>1. CacheInit => CacheInv
  BY CacheInitially, Zenon
<1>2. CacheInv /\ [CacheNext]_cacheVars => CacheInv'
  BY CacheInvStep, Zenon
<1> QED
  BY <1>1, <1>2, PTL DEF CacheSpec

(* Instances and their clients are typed in every reachable state; the     *)
(* retries of casClientCache never pass maxCASRetries.                     *)
THEOREM CacheTypeCorrect == CacheSpec => []CacheTypeOK
<1>1. CacheInv => CacheTypeOK
  BY Zenon DEF CacheInv
<1> QED
  BY <1>1, CacheAlways, PTL

(* No process is orphaned, whatever calls of Start and Stop overlap and    *)
(* whichever attempts fail.                                                *)
THEOREM StacksAreOwned == CacheSpec => []StackOwned
<1>1. CacheInv => StackOwned
  BY InstProperties, Zenon DEF CacheInv
<1> QED
  BY <1>1, CacheAlways, PTL

(* Two Stops never stop the same stack, and none stops a stack that is     *)
(* installed or that a Start still verifies.                               *)
THEOREM OwnersAreSingle == CacheSpec => []SingleOwner
<1>1. CacheInv => SingleOwner
  BY InstProperties, Zenon DEF CacheInv
<1> QED
  BY <1>1, CacheAlways, PTL

(* What started tells a reader without startMu: set, it means an installed *)
(* stack with its purge handle, except between the two stores of a Stop;   *)
(* not set, it means none, except just before a Start sets it.  With       *)
(* startMu free the two agree, and no purge handle leaks.                  *)
THEOREM StartedIsComplete == CacheSpec => []StartedComplete
<1>1. CacheInv => StartedComplete
  BY InstProperties, Zenon DEF CacheInv
<1> QED
  BY <1>1, CacheAlways, PTL

(* A started instance has both clients cached, for its installed stack (or *)
(* neither while a Stop has taken the stack), and Start polls only what it *)
(* launched, unless a Config call overlapped the last clearing or began    *)
(* in that Stop before started was cleared.                                *)
THEOREM ClientsAreCurrent == CacheSpec => []ClientsCurrent
<1>1. ASSUME CacheInv PROVE ClientsCurrent
  <2>1. ASSUME NEW i \in Instances, ~late[i]
        PROVE  /\ started[i] => clients[i] = [config |-> stack[i], clientset |-> stack[i]]
               /\ \A t \in Threads : Verifying(t, i) /\ cpc[t] = "poll" => addr[t] = sref[t]
    <3>1. Current(i) /\ MuOK /\ Phase(i) /\ StartedComplete
      BY <1>1, InstProperties, Zenon DEF CacheInv, InstInv
    <3>2. ASSUME started[i], stack[i] = None
          PROVE  clients[i] = [config |-> stack[i], clientset |-> stack[i]]
      <4>1. PICK u \in Threads : Clearing(u, i)
        BY <3>1, <3>2, Zenon DEF StartedComplete
      <4>2. ASSUME NEW t \in Threads, Verifying(t, i) PROVE FALSE
        <5>1. StartHolds(t, i)
          BY <4>2, Zenon DEF Verifying, StartHolds
        <5> QED
          BY <3>1, <3>2, <5>1, Zenon DEF Phase
      <4>3. clients[i] = NoClients
        BY <2>1, <3>1, <3>2, <4>2, Zenon DEF Current
      <4> QED
        BY <3>2, <4>3, Zenon DEF NoClients
    <3> QED
      BY <2>1, <3>1, <3>2, Zenon DEF Current, Stage
  <2> QED
    BY <2>1, Zenon DEF ClientsCurrent
<1> QED
  BY <1>1, CacheAlways, PTL

(* casClientCache of a Start needs one retry at most, however many Config  *)
(* calls contend with it.                                                  *)
THEOREM StartDoesConverge == CacheSpec => []StartConverges
<1>1. CacheInv => StartConverges
  BY Zenon DEF CacheInv, ThreadOK, Converge, StartConverges
<1> QED
  BY <1>1, CacheAlways, PTL

(* No update of the cache is lost: casClientCache sets fields that are     *)
(* nil, and only a clearing of the whole cache takes them back.            *)
THEOREM FieldsAreKept == CacheSpec => FieldsKept
<1> DEFINE Kept == \A i \in Instances, f \in DOMAIN NoClients :
                      clients[i][f] # None => \/ clients'[i][f] = clients[i][f]
                                              \/ clients'[i] = NoClients
<1>1. ASSUME CacheInv, [CacheNext]_cacheVars PROVE [Kept]_cacheVars
  <2>1. CASE UNCHANGED cacheVars
    BY <2>1, Zenon
  <2>2. CASE CacheNext
    <3>1. PICK t \in Threads : CacheStep(t)
      BY <2>2, CacheSteps, Zenon
    <3>2. CacheTypeOK /\ InstInv /\ FrameOK(t)
      BY <1>1, Zenon DEF CacheInv, ThreadOK
    <3>3. ASSUME NEW i \in Instances, NEW f \in {"config", "clientset"}, clients[i][f] # None
          PROVE  clients'[i][f] = clients[i][f] \/ clients'[i] = NoClients
      <4>1. CASE clients'[i] = clients[i] \/ Cleared(i)
        BY <4>1, Zenon DEF Cleared
      <4>2. ASSUME Inst(t) = i, NEW g \in {"config", "clientset"}, CasSwap(t, g)
            PROVE  clients'[i][f] = clients[i][f]
        <5>1. /\ clients[i] \in Cache /\ clients'[i] \in Cache
              /\ g = "config" => /\ clients[i].config = None
                                 /\ clients'[i].clientset = clients[i].clientset
              /\ g = "clientset" => /\ clients[i].clientset = None
                                    /\ clients'[i].config = clients[i].config
          BY <3>2, <4>2, SwapEffect, Zenon
        <5>2. /\ clients[i]["config"] = clients[i].config
              /\ clients[i]["clientset"] = clients[i].clientset
              /\ clients'[i]["config"] = clients'[i].config
              /\ clients'[i]["clientset"] = clients'[i].clientset
          BY <5>1, CacheFields, Zenon
        <5> QED
          BY <3>3, <5>1, <5>2, Zenon
      <4>3. \/ clients'[i] = clients[i]
            \/ Cleared(i)
            \/ Inst(t) = i /\ \E g \in {"config", "clientset"} : CasSwap(t, g)
        BY <3>1, <3>2, CacheMoves, Zenon
      <4> QED
        BY <4>1, <4>2, <4>3, Zenon
    <3> QED
      BY <3>3, Fields, Zenon
  <2> QED
    BY <1>1, <2>1, <2>2, Zenon
<1>2. CacheSpec => [][Kept]_cacheVars
  <2> HIDE DEF Kept
  <2> QED
    BY <1>1, CacheAlways, PTL DEF CacheSpec
<1> QED
  BY <1>2, Zenon DEF FieldsKept

-----------------------------------------------------------------------------
(* The CRD cache (module CrdCache).                                        *)

EnsurePC == {"idle", "ok", "err", "crashed"} \cup Running

CrdTypes ==
    /\ dir \in Contents
    /\ cache \in [Hashes -> DB \cup {NoDB}]
    /\ lockFile \in [Hashes -> Inodes \cup {0}]
    /\ fd \in [Binaries -> Inodes \cup {0}]
    /\ locked \subseteq Binaries
    /\ pc \in [Binaries -> EnsurePC]
    /\ calls \in [Binaries -> Nat]
    /\ list \in [Binaries -> SUBSET Files]
    /\ files \in [Binaries -> Contents]
    /\ kine \in [Binaries -> BOOLEAN]
    /\ objs \in [Binaries -> Contents]
    /\ est \in [Binaries -> SUBSET CRDs]
    /\ temp \in [Binaries -> DB \cup {NoDB}]

(* The file system decides about the lock; a binary that has it builds.    *)
Locking == {"recheck"} \cup Building
Opened == {"lock"} \cup Locking
Filled == {"wait", "stop", "copy", "rename"}
Applying == {"crds", "others"} \cup Filled

(* A database that holds the documents h, all definitions established.     *)
Sound(d, h) == d.objs = h /\ d.est = CRDs \cap Present(h) /\ d.whole

(* The place of b, its lock and its stack agree: it has locked the inode   *)
(* that the path of its lock file names, and what it has applied so far is *)
(* what it has hashed.                                                     *)
LockOK(b) ==
    /\ pc[b] \in Hashed => files[b] # Empty
    /\ b \in locked <=> pc[b] \in Locking
    /\ pc[b] \in Opened => fd[b] = lockFile[files[b]] /\ fd[b] # 0

BuildOK(b) ==
    /\ pc[b] \in Applying =>
          /\ \A f \in Files : objs[b][f] \in {NoFile, files[b][f]}
          /\ est[b] \subseteq CRDs \cap Present(objs[b])
    /\ pc[b] \in Filled => objs[b] = files[b]
    /\ pc[b] \in {"stop", "copy", "rename"} => est[b] = CRDs \cap Present(objs[b])
    /\ kine[b] <=> pc[b] \in {"crds", "others", "wait", "stop"}
    /\ pc[b] = "rename" => temp[b] # NoDB /\ Sound(temp[b], files[b])

(* Nobody has made the cache that b builds under the lock; the one that b  *)
(* has made, or has found, is there.                                       *)
FileOK(b) ==
    /\ pc[b] \in Building \ {"created"} => cache[files[b]] = NoDB
    /\ pc[b] \in {"created", "ok"} => cache[files[b]] # NoDB

(* No two binaries have locked the same inode.                             *)
LocksApart == \A b, c \in locked : fd[b] = fd[c] => b = c

BinaryStep(b) == Call(b) \/ Step(b) \/ Establish(b) \/ Fail(b) \/ Crash(b)

-----------------------------------------------------------------------------
LEMMA Indexes ==
    /\ \A x : x \in Contents <=> x \in [Files -> Versions \cup {NoFile}]
    /\ \A h : h \in Hashes <=> h \in Contents /\ h # Empty
    /\ Empty \in Contents
BY Zenon DEF Contents, Hashes, Empty

LEMMA EnsurePlaces ==
    {"idle", "ok", "err", "crashed", "walk", "read", "stat", "open", "lock", "recheck", "build",
     "crds", "others", "wait", "stop", "copy", "rename", "created"} \subseteq EnsurePC
BY Zenon DEF EnsurePC, Running, Building

LEMMA WrittenFile ==
    ASSUME NEW g \in [Binaries -> Contents], NEW b \in Binaries, NEW f, NEW v,
           f \in Files => v \in Versions \cup {NoFile}
    PROVE  [g EXCEPT ![b][f] = v] \in [Binaries -> Contents]
BY Zenon DEF Contents

LEMMA SnapshotType ==
    ASSUME CrdTypes, NEW b \in Binaries
    PROVE  Snapshot(b) \in DB
BY Zenon DEF CrdTypes, Snapshot, DB

LEMMA TypesInit == Init => CrdTypes
<1>1. SUFFICES ASSUME Init PROVE CrdTypes
  BY Zenon
<1>2. dir \in Contents /\ Empty \in Contents
  BY <1>1, DirsAssumption, Indexes, Zenon DEF Init
<1> QED
  BY <1>1, <1>2, EnsurePlaces, Zenon DEF Init, CrdTypes

LEMMA TypesStep ==
    ASSUME CrdTypes, NEW b \in Binaries, LockOK(b), BinaryStep(b)
    PROVE  CrdTypes'
<1>1. /\ dir \in Contents /\ cache \in [Hashes -> DB \cup {NoDB}]
      /\ lockFile \in [Hashes -> Inodes \cup {0}] /\ fd \in [Binaries -> Inodes \cup {0}]
      /\ locked \subseteq Binaries /\ pc \in [Binaries -> EnsurePC]
      /\ calls \in [Binaries -> Nat] /\ list \in [Binaries -> SUBSET Files]
      /\ files \in [Binaries -> Contents] /\ kine \in [Binaries -> BOOLEAN]
      /\ objs \in [Binaries -> Contents] /\ est \in [Binaries -> SUBSET CRDs]
      /\ temp \in [Binaries -> DB \cup {NoDB}]
  BY Zenon DEF CrdTypes
<1>2. \A c \in Contents : \A f \in Files : c[f] \in Versions \cup {NoFile}
  BY Zenon DEF Contents
<1>3. \A place \in EnsurePC : To(b, place) => pc' \in [Binaries -> EnsurePC]
  BY <1>1, Zenon DEF To
<1>4. Empty \in Contents
  BY Indexes, Zenon
<1>5. ASSUME releaseFileLock(b) \/ UNCHANGED lockVars
      PROVE  /\ lockFile' \in [Hashes -> Inodes \cup {0}]
             /\ fd' \in [Binaries -> Inodes \cup {0}]
             /\ locked' \subseteq Binaries
  BY <1>1, <1>5, Zenon DEF releaseFileLock, lockVars
<1>6. CASE Call(b)
  <2>1. calls' \in [Binaries -> Nat]
    BY <1>1, <1>6 DEF Call
  <2>2. files' \in [Binaries -> Contents]
    BY <1>1, <1>4, <1>6, Zenon DEF Call
  <2>3. UNCHANGED <<dir, cache, lockFile, fd, locked, list, kine, objs, est, temp>>
    BY <1>6, ZenonT(30) DEF Call, dirVars, lockVars, stackVars
  <2>4. pc' \in [Binaries -> EnsurePC]
    BY <1>3, EnsurePlaces, <1>6, Zenon DEF Call
  <2> QED
    BY <1>1, <2>1, <2>2, <2>3, <2>4, Zenon DEF CrdTypes
<1>7. CASE Walk(b)
  <2>1. Present(dir) \subseteq Files
    BY Zenon DEF Present
  <2>2. list' \in [Binaries -> SUBSET Files]
    BY <1>1, <1>7, <2>1, Zenon DEF Walk
  <2> QED
    BY <1>1, <1>3, EnsurePlaces, <1>7, <2>2, Zenon DEF Walk, CrdTypes, dirVars, lockVars, stackVars
<1>8. CASE ReadFile(b)
  <2>1. PICK f : files' = [files EXCEPT ![b][f] = dir[f]]
    BY <1>8, Zenon DEF ReadFile
  <2>2. files' \in [Binaries -> Contents]
    BY <1>1, <1>2, <2>1, WrittenFile, Zenon
  <2>3. list' \in [Binaries -> SUBSET Files]
    BY <1>1, <1>8, Zenon DEF ReadFile
  <2>4. \E place \in EnsurePC : To(b, place)
    BY <1>8, EnsurePlaces, Zenon DEF ReadFile
  <2> QED
    BY <1>1, <1>3, EnsurePlaces, <1>8, <2>2, <2>3, <2>4, Zenon DEF ReadFile, CrdTypes, dirVars, lockVars, stackVars
<1>9. CASE Stat(b) \/ ApplyWait(b) \/ ApplyDone(b) \/ WaitEstablished(b)
  BY <1>1, <1>3, EnsurePlaces, <1>9, Zenon DEF Stat, ApplyWait, ApplyDone, WaitEstablished, CrdTypes,
     dirVars, lockVars, hashVars, stackVars
<1>10. CASE OpenLock(b)
  <2>1. PICK n \in Inodes \cup {0} :
           /\ lockFile' = [lockFile EXCEPT ![files[b]] = n]
           /\ fd' = [fd EXCEPT ![b] = n]
    <3>1. files[b] \in Hashes
      BY <1>1, <1>10, Indexes, Zenon DEF OpenLock, LockOK, Hashed
    <3>2. lockFile[files[b]] \in Inodes \cup {0}
      BY <1>1, <3>1, Zenon
    <3>3. FreeInodes # {} => (CHOOSE i \in FreeInodes : TRUE) \in Inodes
      BY Zenon DEF FreeInodes
    <3> QED
      BY <1>10, <3>2, <3>3, Zenon DEF OpenLock
  <2>2. lockFile' \in [Hashes -> Inodes \cup {0}] /\ fd' \in [Binaries -> Inodes \cup {0}]
    BY <1>1, <2>1, Zenon
  <2> QED
    BY <1>1, <1>3, EnsurePlaces, <1>10, <2>2, Zenon DEF OpenLock, CrdTypes, dirVars, hashVars, stackVars
<1>11. CASE TryLock(b)
  <2>1. locked' \subseteq Binaries
    BY <1>1, <1>11, Zenon DEF TryLock
  <2> QED
    BY <1>1, <1>3, EnsurePlaces, <1>11, <2>1, Zenon DEF TryLock, CrdTypes, dirVars, hashVars, stackVars
<1>12. CASE Recheck(b) \/ Created(b)
  <2>1. releaseFileLock(b) \/ UNCHANGED lockVars
    BY <1>12, Zenon DEF Recheck, Created
  <2> QED
    BY <1>1, <1>3, EnsurePlaces, <1>5, <1>12, <2>1, Zenon DEF Recheck, Created, CrdTypes, dirVars,
       hashVars, stackVars
<1>13. CASE StartStack(b) \/ StopStack(b)
  <2>1. CASE StartStack(b)
    BY <1>1, <1>3, EnsurePlaces, <1>4, <2>1, Zenon DEF StartStack, CrdTypes, dirVars, lockVars, hashVars
  <2>2. CASE StopStack(b)
    BY <1>1, <1>3, EnsurePlaces, <1>4, <2>2, Zenon DEF StopStack, CrdTypes, dirVars, lockVars, hashVars
  <2> QED
    BY <1>13, <2>1, <2>2, Zenon
<1>14. CASE ApplyCRD(b) \/ ApplyOther(b)
  <2>1. PICK f : objs' = [objs EXCEPT ![b][f] = files[b][f]]
    BY <1>14, Zenon DEF ApplyCRD, ApplyOther, applyParsedDocument
  <2>2. files[b] \in Contents
    BY <1>1, Zenon
  <2>3. objs' \in [Binaries -> Contents]
    BY <1>1, <1>2, <2>1, <2>2, WrittenFile, Zenon
  <2> QED
    BY <1>1, <1>14, <2>3, Zenon DEF ApplyCRD, ApplyOther, CrdTypes, dirVars, lockVars, hashVars
<1>15. CASE Establish(b)
  <2>1. est' \in [Binaries -> SUBSET CRDs]
    BY <1>1, <1>15 DEF Establish
  <2> QED
    BY <1>1, <1>15, <2>1, Zenon DEF Establish, CrdTypes, dirVars, lockVars, hashVars
<1>16. CASE CopyData(b)
  BY <1>1, <1>3, EnsurePlaces, <1>16, SnapshotType, Zenon DEF CopyData, CrdTypes, dirVars, lockVars,
     hashVars, stackVars
<1>17. CASE Rename(b)
  <2>1. temp[b] \in DB \cup {NoDB}
    BY <1>1, Zenon
  <2>2. cache' \in [Hashes -> DB \cup {NoDB}] /\ temp' \in [Binaries -> DB \cup {NoDB}]
    BY <1>1, <1>17, <2>1, Zenon DEF Rename
  <2> QED
    BY <1>1, <1>3, EnsurePlaces, <1>17, <2>2, Zenon DEF Rename, CrdTypes, dirVars, lockVars, hashVars, stackVars
<1>18. CASE Fail(b) \/ Crash(b)
  <2>1. releaseFileLock(b) /\ \E place \in EnsurePC : To(b, place)
    BY <1>18, EnsurePlaces, Zenon DEF Fail, Crash, FailTo, releaseFileLock
  <2>2. kine' \in [Binaries -> BOOLEAN] /\ temp' \in [Binaries -> DB \cup {NoDB}]
    BY <1>1, <1>18, Zenon DEF Fail, Crash
  <2>3. list' \in [Binaries -> SUBSET Files]
    BY <1>1, <1>18, Zenon DEF Fail, Crash
  <2> QED
    BY <1>1, <1>3, EnsurePlaces, <1>5, <1>18, <2>1, <2>2, <2>3, Zenon DEF Fail, Crash, CrdTypes, dirVars
<1> QED
  BY <1>6, <1>7, <1>8, <1>9, <1>10, <1>11, <1>12, <1>13, <1>14, <1>15, <1>16, <1>17, <1>18,
     ZenonT(30) DEF BinaryStep, Step, BuildStep

LEMMA TypesEdit ==
    ASSUME CrdTypes, Edit
    PROVE  CrdTypes'
<1>1. PICK f \in Files, v \in Versions \cup {NoFile} : dir' = [dir EXCEPT ![f] = v]
  BY Zenon DEF Edit
<1>2. dir' \in Contents
  BY <1>1, Zenon DEF CrdTypes, Contents
<1> QED
  BY <1>2, Zenon DEF Edit, CrdTypes, lockVars, hashVars, stackVars

-----------------------------------------------------------------------------
(* A step of one binary changes nothing of the others but the cache files  *)
(* and the lock files.                                                     *)
SameBinary(u) ==
    /\ pc'[u] = pc[u] /\ files'[u] = files[u] /\ objs'[u] = objs[u] /\ est'[u] = est[u]
    /\ kine'[u] = kine[u] /\ temp'[u] = temp[u] /\ fd'[u] = fd[u]
    /\ u \in locked' <=> u \in locked

LEMMA OthersSame ==
    ASSUME CrdTypes, NEW b \in Binaries, BinaryStep(b), NEW u \in Binaries, u # b
    PROVE  SameBinary(u)
<1>1. /\ fd \in [Binaries -> Inodes \cup {0}] /\ pc \in [Binaries -> EnsurePC]
      /\ files \in [Binaries -> Contents] /\ kine \in [Binaries -> BOOLEAN]
      /\ objs \in [Binaries -> Contents] /\ est \in [Binaries -> SUBSET CRDs]
      /\ temp \in [Binaries -> DB \cup {NoDB}]
  BY Zenon DEF CrdTypes
<1>2. CASE Call(b)
  <2>1. /\ files' = [files EXCEPT ![b] = Empty] /\ To(b, "walk")
        /\ UNCHANGED <<fd, locked, kine, objs, est, temp>>
    BY <1>2, Zenon DEF Call, lockVars, stackVars
  <2> QED
    BY <1>1, <2>1, Zenon DEF To, SameBinary
<1>3. CASE Walk(b) \/ Stat(b) \/ ApplyWait(b) \/ ApplyDone(b) \/ WaitEstablished(b)
  BY <1>1, <1>3, Zenon DEF Walk, Stat, ApplyWait, ApplyDone, WaitEstablished, To, SameBinary,
     lockVars, hashVars, stackVars
<1>4. CASE ReadFile(b)
  <2>1. PICK f, place : /\ files' = [files EXCEPT ![b][f] = dir[f]]
                        /\ To(b, place)
                        /\ UNCHANGED <<fd, locked, kine, objs, est, temp>>
    BY <1>4, Zenon DEF ReadFile, lockVars, stackVars
  <2> QED
    BY <1>1, <2>1, Zenon DEF To, SameBinary
<1>5. CASE OpenLock(b)
  <2>1. PICK n : /\ fd' = [fd EXCEPT ![b] = n]
                 /\ To(b, "lock")
                 /\ UNCHANGED <<locked, files, kine, objs, est, temp>>
    BY <1>5, Zenon DEF OpenLock, hashVars, stackVars
  <2> QED
    BY <1>1, <2>1, Zenon DEF To, SameBinary
<1>6. CASE TryLock(b)
  BY <1>1, <1>6, Zenon DEF TryLock, To, SameBinary, hashVars, stackVars
<1>7. CASE Recheck(b) \/ Created(b)
  BY <1>1, <1>7, Zenon DEF Recheck, Created, releaseFileLock, To, SameBinary, lockVars, hashVars, stackVars
<1>8. CASE StartStack(b) \/ StopStack(b)
  BY <1>1, <1>8, Zenon DEF StartStack, StopStack, To, SameBinary, lockVars, hashVars
<1>9. CASE ApplyCRD(b) \/ ApplyOther(b)
  <2>1. PICK f : /\ objs' = [objs EXCEPT ![b][f] = files[b][f]]
                 /\ UNCHANGED <<fd, locked, pc, files, kine, est, temp>>
    BY <1>9, Zenon DEF ApplyCRD, ApplyOther, applyParsedDocument, lockVars, hashVars
  <2> QED
    BY <1>1, <2>1, Zenon DEF SameBinary
<1>10. CASE Establish(b)
  BY <1>1, <1>10, Zenon DEF Establish, SameBinary, lockVars, hashVars
<1>11. CASE CopyData(b) \/ Rename(b)
  BY <1>1, <1>11, Zenon DEF CopyData, Rename, To, SameBinary, lockVars, hashVars, stackVars
<1>12. CASE Fail(b) \/ Crash(b)
  BY <1>1, <1>12, Zenon DEF Fail, Crash, FailTo, releaseFileLock, To, SameBinary
<1> QED
  BY <1>2, <1>3, <1>4, <1>5, <1>6, <1>7, <1>8, <1>9, <1>10, <1>11, <1>12,
     ZenonT(30) DEF BinaryStep, Step, BuildStep

(* The two kinds of step that change a shared file.                        *)
LEMMA SharedFiles ==
    ASSUME NEW b \in Binaries, BinaryStep(b)
    PROVE  /\ Rename(b) \/ cache' = cache
           /\ OpenLock(b) \/ lockFile' = lockFile
<1>1. CASE Call(b) \/ Walk(b) \/ ReadFile(b) \/ Stat(b) \/ OpenLock(b) \/ TryLock(b)
  BY <1>1, Zenon DEF Call, Walk, ReadFile, Stat, OpenLock, TryLock, lockVars
<1>2. CASE Recheck(b) \/ Created(b) \/ Fail(b) \/ Crash(b)
  BY <1>2, Zenon DEF Recheck, Created, Fail, Crash, releaseFileLock, lockVars
<1>3. CASE StartStack(b) \/ StopStack(b) \/ ApplyCRD(b) \/ ApplyOther(b) \/ Establish(b)
           \/ ApplyWait(b) \/ ApplyDone(b) \/ WaitEstablished(b) \/ CopyData(b) \/ Rename(b)
  BY <1>3, Zenon DEF StartStack, StopStack, ApplyCRD, ApplyOther, Establish, ApplyWait,
     ApplyDone, WaitEstablished, CopyData, Rename, lockVars
<1> QED
  BY <1>1, <1>2, <1>3, ZenonT(30) DEF BinaryStep, Step, BuildStep

(* A lock file that exists keeps its inode.                                *)
LEMMA LockFileStays ==
    ASSUME CrdTypes, NEW b \in Binaries, LockOK(b), BinaryStep(b),
           NEW h \in Hashes, lockFile[h] # 0
    PROVE  lockFile'[h] = lockFile[h]
<1>1. lockFile \in [Hashes -> Inodes \cup {0}] /\ files \in [Binaries -> Contents]
  BY Zenon DEF CrdTypes
<1>2. CASE OpenLock(b)
  <2>1. PICK n : /\ lockFile' = [lockFile EXCEPT ![files[b]] = n]
                 /\ lockFile[files[b]] # 0 => n = lockFile[files[b]]
    BY <1>2, Zenon DEF OpenLock
  <2> QED
    BY <1>1, <2>1, Zenon
<1> QED
  BY <1>2, SharedFiles, Zenon

LEMMA OwnLock ==
    ASSUME CrdTypes, NEW b \in Binaries, LockOK(b), BinaryStep(b)
    PROVE  LockOK(b)'
<1>1. /\ fd \in [Binaries -> Inodes \cup {0}] /\ pc \in [Binaries -> EnsurePC]
      /\ files \in [Binaries -> Contents] /\ lockFile \in [Hashes -> Inodes \cup {0}]
      /\ list \in [Binaries -> SUBSET Files]
  BY Zenon DEF CrdTypes
<1>2. ASSUME UNCHANGED <<lockFile, fd, locked, files>>,
             \/ pc'[b] = pc[b]
             \/ pc[b] \in Building /\ pc'[b] \in Building
      PROVE  LockOK(b)'
  BY <1>2, Zenon DEF LockOK, Hashed, Locking, Opened
<1>3. ASSUME UNCHANGED <<lockFile, fd, locked>>, pc[b] \notin Locking, pc'[b] \notin Hashed
      PROVE  LockOK(b)'
  BY <1>3, Zenon DEF LockOK, Hashed, Locking, Opened
<1>4. ASSUME releaseFileLock(b), pc'[b] \notin Hashed \/ (pc'[b] = "ok" /\ files'[b] # Empty)
      PROVE  LockOK(b)'
  BY <1>4, Zenon DEF releaseFileLock, LockOK, Hashed, Locking, Opened, Building
<1>5. CASE Call(b)
  <2>1. pc[b] \in {"idle", "err", "crashed"} /\ To(b, "walk") /\ UNCHANGED <<lockFile, fd, locked>>
    BY <1>5, Zenon DEF Call, lockVars
  <2> QED
    BY <1>1, <1>3, <2>1, Zenon DEF To, Hashed, Locking, Building
<1>6. CASE Walk(b)
  <2>1. pc[b] = "walk" /\ pc'[b] \in {"err", "read"} /\ UNCHANGED <<lockFile, fd, locked>>
    BY <1>1, <1>6, Zenon DEF Walk, To, lockVars
  <2> QED
    BY <1>3, <2>1, Zenon DEF Hashed, Locking, Building
<1>7. CASE ReadFile(b)
  <2>1. PICK f : /\ files' = [files EXCEPT ![b][f] = dir[f]]
                 /\ To(b, IF dir[f] = NoFile THEN "err" ELSE IF list[b] = {f} THEN "stat" ELSE "read")
                 /\ pc[b] = "read"
                 /\ UNCHANGED <<lockFile, fd, locked>>
    BY <1>7, Zenon DEF ReadFile, lockVars
  <2>2. CASE dir[f] = NoFile \/ list[b] # {f}
    BY <1>1, <1>3, <2>1, <2>2, Zenon DEF To, Hashed, Locking, Building
  <2>3. CASE dir[f] # NoFile /\ list[b] = {f}
    <3>1. f \in Files /\ files[b] \in [Files -> Versions \cup {NoFile}]
      BY <1>1, <2>3, Zenon DEF Contents
    <3>2. files'[b][f] = dir[f] /\ pc'[b] = "stat"
      BY <1>1, <2>1, <2>3, <3>1, Zenon DEF To
    <3>3. files'[b] # Empty
      BY <2>3, <3>1, <3>2, Zenon DEF Empty
    <3> QED
      BY <2>1, <3>2, <3>3, Zenon DEF LockOK, Hashed, Locking, Opened, Building
  <2> QED
    BY <2>2, <2>3, Zenon
<1>8. CASE Stat(b)
  <2>1. pc[b] = "stat" /\ pc'[b] \in {"ok", "open"} /\ UNCHANGED <<lockFile, fd, locked, files>>
    BY <1>1, <1>8, Zenon DEF Stat, To, lockVars, hashVars
  <2> QED
    BY <2>1, Zenon DEF LockOK, Hashed, Locking, Opened, Building
<1>9. CASE OpenLock(b)
  <2>1. PICK n : /\ lockFile' = [lockFile EXCEPT ![files[b]] = n]
                 /\ fd' = [fd EXCEPT ![b] = n]
                 /\ \/ n = lockFile[files[b]] /\ lockFile[files[b]] # 0
                    \/ n \in Inodes
    <3>1. FreeInodes # {} => (CHOOSE i \in FreeInodes : TRUE) \in Inodes
      BY Zenon DEF FreeInodes
    <3> QED
      BY <1>9, <3>1, Zenon DEF OpenLock
  <2>2. pc[b] = "open" /\ pc'[b] = "lock" /\ UNCHANGED <<files, locked>>
    BY <1>1, <1>9, Zenon DEF OpenLock, To, hashVars
  <2>3. files[b] \in Hashes
    BY <1>1, <2>2, Indexes, Zenon DEF LockOK, Hashed
  <2>4. fd'[b] = n /\ lockFile'[files[b]] = n /\ n # 0
    BY <1>1, <2>1, <2>3, AbsentAssumption, Zenon
  <2> QED
    BY <2>2, <2>3, <2>4, Indexes, Zenon DEF LockOK, Hashed, Locking, Opened, Building
<1>10. CASE TryLock(b)
  <2>1. /\ pc[b] = "lock" /\ pc'[b] = "recheck" /\ locked' = locked \cup {b}
        /\ UNCHANGED <<lockFile, fd, files>>
    BY <1>1, <1>10, Zenon DEF TryLock, To, hashVars
  <2> QED
    BY <2>1, Zenon DEF LockOK, Hashed, Locking, Opened, Building
<1>11. CASE Recheck(b)
  <2>1. /\ pc[b] = "recheck" /\ UNCHANGED files
        /\ \/ pc'[b] = "ok" /\ releaseFileLock(b)
           \/ pc'[b] = "build" /\ UNCHANGED <<lockFile, fd, locked>>
    BY <1>1, <1>11, Zenon DEF Recheck, To, lockVars, hashVars
  <2>2. files[b] # Empty
    BY <2>1, Zenon DEF LockOK, Hashed
  <2> QED
    BY <1>4, <2>1, <2>2, Zenon DEF LockOK, Hashed, Locking, Opened, Building
<1>12. CASE Created(b)
  <2>1. pc[b] = "created" /\ pc'[b] = "ok" /\ releaseFileLock(b) /\ UNCHANGED files
    BY <1>1, <1>12, Zenon DEF Created, To, hashVars
  <2>2. files[b] # Empty
    BY <2>1, Zenon DEF LockOK, Hashed, Building
  <2> QED
    BY <1>4, <2>1, <2>2, Zenon
<1>13. CASE StartStack(b) \/ StopStack(b) \/ ApplyWait(b) \/ ApplyDone(b) \/ WaitEstablished(b)
            \/ CopyData(b) \/ Rename(b)
  <2>1. pc[b] \in Building /\ UNCHANGED <<lockFile, fd, locked, files>>
    BY <1>13, Zenon DEF StartStack, StopStack, ApplyWait, ApplyDone, WaitEstablished, CopyData,
       Rename, lockVars, hashVars, Building
  <2>2. pc'[b] \in Building
    BY <1>1, <1>13, Zenon DEF StartStack, StopStack, ApplyWait, ApplyDone, WaitEstablished, CopyData,
       Rename, To, Building
  <2> QED
    BY <1>2, <2>1, <2>2, Zenon
<1>14. CASE ApplyCRD(b) \/ ApplyOther(b) \/ Establish(b)
  <2>1. UNCHANGED <<lockFile, fd, locked, files, pc>>
    BY <1>14, Zenon DEF ApplyCRD, ApplyOther, Establish, lockVars, hashVars
  <2> QED
    BY <1>2, <2>1, Zenon
<1>15. CASE Fail(b) \/ Crash(b)
  <2>1. releaseFileLock(b) /\ pc'[b] \in {"err", "crashed"}
    BY <1>1, <1>15, Zenon DEF Fail, Crash, FailTo, To, releaseFileLock
  <2> QED
    BY <1>4, <2>1, Zenon DEF Hashed, Building
<1> QED
  BY <1>5, <1>6, <1>7, <1>8, <1>9, <1>10, <1>11, <1>12, <1>13, <1>14, <1>15,
     ZenonT(30) DEF BinaryStep, Step, BuildStep

(* What b has applied is what it has hashed, whatever happens to dir.      *)
LEMMA OwnBuild ==
    ASSUME CrdTypes, NEW b \in Binaries, LockOK(b), BuildOK(b), BinaryStep(b)
    PROVE  BuildOK(b)'
<1>1. /\ pc \in [Binaries -> EnsurePC] /\ files \in [Binaries -> Contents]
      /\ kine \in [Binaries -> BOOLEAN] /\ objs \in [Binaries -> Contents]
      /\ est \in [Binaries -> SUBSET CRDs] /\ temp \in [Binaries -> DB \cup {NoDB}]
  BY Zenon DEF CrdTypes
<1>2. /\ files[b] \in [Files -> Versions \cup {NoFile}]
      /\ objs[b] \in [Files -> Versions \cup {NoFile}]
  BY <1>1, Zenon DEF Contents
<1>3. ASSUME kine'[b] = kine[b], pc[b] \notin Applying, pc'[b] \notin Applying
      PROVE  BuildOK(b)'
  BY <1>3, Zenon DEF BuildOK, Applying, Filled
<1>4. CASE Call(b) \/ Walk(b) \/ ReadFile(b) \/ Stat(b) \/ OpenLock(b) \/ TryLock(b)
           \/ Recheck(b) \/ Created(b)
  <2>1. kine' = kine
    BY <1>4, ZenonT(30) DEF Call, Walk, ReadFile, Stat, OpenLock, TryLock, Recheck, Created, stackVars
  <2>2. pc[b] \notin Applying
    BY <1>4, Zenon DEF Call, Walk, ReadFile, Stat, OpenLock, TryLock, Recheck, Created, Applying, Filled
  <2>3. \E place \in {"walk", "err", "read", "stat", "ok", "open", "lock", "recheck", "build"} :
            To(b, place)
    BY <1>4, ZenonT(30) DEF Call, Walk, ReadFile, Stat, OpenLock, TryLock, Recheck, Created
  <2>4. pc'[b] \notin Applying
    BY <1>1, <2>3, Zenon DEF To, Applying, Filled
  <2> QED
    BY <1>3, <2>1, <2>2, <2>4, Zenon
<1>5. CASE StartStack(b)
  <2>1. /\ pc'[b] = "crds" /\ kine'[b] = TRUE /\ objs'[b] = Empty /\ est'[b] = {}
    BY <1>1, <1>5, Zenon DEF StartStack, To
  <2>2. \A f \in Files : objs'[b][f] = NoFile
    BY <2>1, Zenon DEF Empty
  <2> QED
    BY <2>1, <2>2, Zenon DEF BuildOK, Applying, Filled
<1>6. CASE ApplyCRD(b) \/ ApplyOther(b)
  <2>1. PICK f : /\ objs' = [objs EXCEPT ![b][f] = files[b][f]]
                 /\ pc[b] \in {"crds", "others"}
                 /\ UNCHANGED <<pc, files, kine, est, temp>>
    BY <1>6, Zenon DEF ApplyCRD, ApplyOther, applyParsedDocument, hashVars
  <2>2. \A g \in Files : objs'[b][g] = IF g = f THEN files[b][g] ELSE objs[b][g]
    BY <1>1, <1>2, <2>1, Zenon
  <2>3. /\ \A g \in Files : objs[b][g] \in {NoFile, files[b][g]}
        /\ est[b] \subseteq CRDs \cap Present(objs[b])
    BY <2>1, Zenon DEF BuildOK, Applying
  <2>4. Present(objs[b]) \subseteq Present(objs'[b])
    BY <2>2, <2>3, Zenon DEF Present
  <2> QED
    BY <2>1, <2>2, <2>3, <2>4, ZenonT(30) DEF BuildOK, Applying, Filled
<1>7. CASE ApplyWait(b)
  <2>1. pc[b] = "crds" /\ pc'[b] = "others" /\ UNCHANGED <<files, kine, objs, est, temp>>
    BY <1>1, <1>7, Zenon DEF ApplyWait, To, hashVars, stackVars
  <2> QED
    BY <2>1, Zenon DEF BuildOK, Applying, Filled
<1>8. CASE ApplyDone(b)
  <2>1. /\ pc[b] = "others" /\ pc'[b] = "wait" /\ Present(files[b]) \subseteq Present(objs[b])
        /\ UNCHANGED <<files, kine, objs, est, temp>>
    BY <1>1, <1>8, Zenon DEF ApplyDone, Unapplied, To, hashVars, stackVars
  <2>2. \A f \in Files : objs[b][f] = files[b][f]
    BY <2>1, Zenon DEF BuildOK, Applying, Present
  <2>3. objs[b] = files[b]
    BY <1>2, <2>2
  <2> QED
    BY <2>1, <2>3, Zenon DEF BuildOK, Applying, Filled
<1>9. CASE Establish(b)
  <2>1. PICK f \in CRDs \cap Present(objs[b]) :
           /\ f \notin est[b]
           /\ est'[b] = est[b] \cup {f}
           /\ kine[b]
           /\ UNCHANGED <<pc, files, kine, objs, temp>>
    BY <1>1, <1>9, Zenon DEF Establish, hashVars
  <2>2. pc[b] \in {"crds", "others", "wait"}
    BY <2>1, Zenon DEF BuildOK
  <2> QED
    BY <2>1, <2>2, Zenon DEF BuildOK, Applying, Filled
<1>10. CASE WaitEstablished(b)
  <2>1. /\ pc[b] = "wait" /\ pc'[b] = "stop" /\ CRDs \cap Present(objs[b]) \subseteq est[b]
        /\ UNCHANGED <<files, kine, objs, est, temp>>
    BY <1>1, <1>10, Zenon DEF WaitEstablished, To, hashVars, stackVars
  <2>2. est[b] = CRDs \cap Present(objs[b])
    BY <2>1, Zenon DEF BuildOK, Applying, Filled
  <2> QED
    BY <2>1, <2>2, Zenon DEF BuildOK, Applying, Filled
<1>11. CASE StopStack(b)
  <2>1. /\ pc[b] = "stop" /\ pc'[b] = "copy" /\ kine'[b] = FALSE
        /\ UNCHANGED <<files, objs, est, temp>>
    BY <1>1, <1>11, Zenon DEF StopStack, To, hashVars
  <2> QED
    BY <2>1, Zenon DEF BuildOK, Applying, Filled
<1>12. CASE CopyData(b)
  <2>1. /\ pc[b] = "copy" /\ pc'[b] = "rename" /\ temp'[b] = Snapshot(b)
        /\ UNCHANGED <<files, kine, objs, est>>
    BY <1>1, <1>12, Zenon DEF CopyData, To, hashVars, stackVars
  <2>2. ~kine[b] /\ objs[b] = files[b] /\ est[b] = CRDs \cap Present(objs[b])
    BY <2>1, Zenon DEF BuildOK, Filled
  <2>3. Snapshot(b) # NoDB /\ Sound(Snapshot(b), files[b])
    BY <2>2, SnapshotType, AbsentAssumption, Zenon DEF Sound, Snapshot
  <2> QED
    BY <2>1, <2>3, Zenon DEF BuildOK, Applying, Filled, Sound
<1>13. CASE Rename(b)
  <2>1. pc[b] = "rename" /\ pc'[b] = "created" /\ kine' = kine
    BY <1>1, <1>13, Zenon DEF Rename, To, stackVars
  <2> QED
    BY <2>1, Zenon DEF BuildOK, Applying, Filled
<1>14. CASE Fail(b) \/ Crash(b)
  <2>1. pc'[b] \in {"err", "crashed"} /\ kine'[b] = FALSE
    BY <1>1, <1>14, Zenon DEF Fail, Crash, FailTo, To
  <2> QED
    BY <2>1, Zenon DEF BuildOK, Applying, Filled
<1> QED
  BY <1>4, <1>5, <1>6, <1>7, <1>8, <1>9, <1>10, <1>11, <1>12, <1>13, <1>14,
     ZenonT(30) DEF BinaryStep, Step, BuildStep

LEMMA OthersLock ==
    ASSUME CrdTypes, NEW b \in Binaries, LockOK(b), BinaryStep(b),
           NEW u \in Binaries, u # b, LockOK(u)
    PROVE  LockOK(u)'
<1>1. SameBinary(u)
  BY OthersSame, Zenon
<1>2. files[u] \in Contents
  BY Zenon DEF CrdTypes
<1>3. pc[u] \in Opened => lockFile'[files[u]] = lockFile[files[u]]
  <2>1. SUFFICES ASSUME pc[u] \in Opened PROVE lockFile'[files[u]] = lockFile[files[u]]
    BY Zenon
  <2>2. files[u] \in Hashes /\ lockFile[files[u]] # 0
    BY <1>2, <2>1, Indexes, Zenon DEF LockOK, Opened, Locking, Hashed, Building
  <2> QED
    BY <2>2, LockFileStays, Zenon
<1> QED
  BY <1>1, <1>3, Zenon DEF LockOK, SameBinary

LEMMA OthersBuild ==
    ASSUME CrdTypes, NEW b \in Binaries, BinaryStep(b), NEW u \in Binaries, u # b, BuildOK(u)
    PROVE  BuildOK(u)'
<1>1. SameBinary(u)
  BY OthersSame, Zenon
<1> QED
  BY <1>1, Zenon DEF BuildOK, SameBinary, Sound

(* Two binaries that have the lock have hashed different contents: each    *)
(* has locked the inode its own path names.                                *)
LEMMA BuildersApart ==
    ASSUME LocksApart, NEW b \in Binaries, NEW u \in Binaries, u # b, LockOK(b), LockOK(u),
           pc[b] \in Locking, pc[u] \in Locking
    PROVE  files[u] # files[b]
BY Zenon DEF LockOK, LocksApart, Opened

LEMMA ApartStep ==
    ASSUME CrdTypes, LocksApart, NEW b \in Binaries, LockOK(b), BinaryStep(b)
    PROVE  LocksApart'
<1>1. locked \subseteq Binaries /\ fd \in [Binaries -> Inodes \cup {0}] /\ pc \in [Binaries -> EnsurePC]
  BY Zenon DEF CrdTypes
<1>2. /\ \A c \in locked' \ {b} : c \in locked /\ fd'[c] = fd[c]
      /\ b \in locked' => /\ fd'[b] = fd[b]
                          /\ b \in locked \/ \A c \in locked : fd[c] # fd[b]
  <2>1. \A c \in Binaries \ {b} : SameBinary(c)
    BY OthersSame, Zenon
  <2>2. locked' \subseteq Binaries
    BY TypesStep, Zenon DEF CrdTypes
  <2>3. CASE TryLock(b)
    BY <1>1, <2>1, <2>2, <2>3, Zenon DEF TryLock, SameBinary
  <2>4. CASE OpenLock(b)
    <3>1. b \notin locked /\ locked' = locked
      BY <2>4, Zenon DEF OpenLock, LockOK, Locking, Building
    <3> QED
      BY <2>1, <2>2, <3>1, Zenon DEF SameBinary
  <2>5. CASE Recheck(b) \/ Created(b) \/ Fail(b) \/ Crash(b)
    <3>1. releaseFileLock(b) \/ UNCHANGED lockVars
      BY <2>5, Zenon DEF Recheck, Created, Fail, Crash, releaseFileLock
    <3> QED
      BY <2>1, <2>2, <3>1, Zenon DEF releaseFileLock, lockVars, SameBinary
  <2>6. CASE Call(b) \/ Walk(b) \/ ReadFile(b) \/ Stat(b) \/ Establish(b) \/ StartStack(b)
             \/ ApplyCRD(b) \/ ApplyWait(b) \/ ApplyOther(b) \/ ApplyDone(b)
             \/ WaitEstablished(b) \/ StopStack(b) \/ CopyData(b) \/ Rename(b)
    <3>1. UNCHANGED lockVars
      BY <2>6, ZenonT(30) DEF Call, Walk, ReadFile, Stat, Establish, StartStack, ApplyCRD,
         ApplyWait, ApplyOther, ApplyDone, WaitEstablished, StopStack, CopyData, Rename
    <3> QED
      BY <3>1, Zenon DEF lockVars
  <2> QED
    BY <2>3, <2>4, <2>5, <2>6, ZenonT(30) DEF BinaryStep, Step, BuildStep
<1>3. SUFFICES ASSUME NEW c \in locked', NEW d \in locked', fd'[c] = fd'[d] PROVE c = d
  BY Zenon DEF LocksApart
<1> QED
  BY <1>2, <1>3, Zenon DEF LocksApart

LEMMA OwnFile ==
    ASSUME CrdTypes, NEW b \in Binaries, LockOK(b), BuildOK(b), FileOK(b), BinaryStep(b)
    PROVE  FileOK(b)'
<1>1. /\ pc \in [Binaries -> EnsurePC] /\ files \in [Binaries -> Contents]
      /\ cache \in [Hashes -> DB \cup {NoDB}]
  BY Zenon DEF CrdTypes
<1>2. CASE Call(b) \/ Walk(b) \/ ReadFile(b) \/ OpenLock(b) \/ TryLock(b) \/ Fail(b) \/ Crash(b)
  <2>1. \E place \in {"walk", "err", "read", "stat", "lock", "recheck", "crashed"} : To(b, place)
    BY <1>2, ZenonT(30) DEF Call, Walk, ReadFile, OpenLock, TryLock, Fail, Crash, FailTo
  <2>2. pc'[b] \in {"walk", "err", "read", "stat", "lock", "recheck", "crashed"}
    BY <1>1, <2>1, Zenon DEF To
  <2> QED
    BY <2>2, Zenon DEF FileOK, Building
<1>3. CASE Stat(b) \/ Recheck(b)
  <2>1. UNCHANGED <<cache, files>>
    BY <1>3, Zenon DEF Stat, Recheck, hashVars
  <2>2. \/ pc'[b] = "ok" /\ cache[files[b]] # NoDB
        \/ pc'[b] = "open"
        \/ pc'[b] = "build" /\ cache[files[b]] = NoDB
    BY <1>1, <1>3, Zenon DEF Stat, Recheck, To
  <2> QED
    BY <2>1, <2>2, Zenon DEF FileOK, Building
<1>4. CASE StartStack(b) \/ ApplyWait(b) \/ ApplyDone(b) \/ WaitEstablished(b) \/ StopStack(b)
           \/ CopyData(b)
  <2>1. pc[b] \in Building \ {"created"} /\ UNCHANGED <<cache, files>>
    BY <1>4, Zenon DEF StartStack, ApplyWait, ApplyDone, WaitEstablished, StopStack, CopyData, hashVars,
       Building
  <2>2. pc'[b] \in Building \ {"created"}
    BY <1>1, <1>4, Zenon DEF StartStack, ApplyWait, ApplyDone, WaitEstablished, StopStack, CopyData, To,
       Building
  <2> QED
    BY <2>1, <2>2, Zenon DEF FileOK, Building
<1>5. CASE ApplyCRD(b) \/ ApplyOther(b) \/ Establish(b)
  <2>1. UNCHANGED <<cache, files, pc>>
    BY <1>5, Zenon DEF ApplyCRD, ApplyOther, Establish, hashVars
  <2> QED
    BY <2>1, Zenon DEF FileOK
<1>6. CASE Rename(b)
  <2>1. /\ pc[b] = "rename" /\ pc'[b] = "created" /\ UNCHANGED files
        /\ cache' = [cache EXCEPT ![files[b]] = temp[b]]
    BY <1>1, <1>6, Zenon DEF Rename, To, hashVars
  <2>2. temp[b] # NoDB /\ files[b] \in Hashes
    BY <1>1, <2>1, Indexes, Zenon DEF BuildOK, LockOK, Hashed, Building
  <2> QED
    BY <1>1, <2>1, <2>2, Zenon DEF FileOK, Building
<1>7. CASE Created(b)
  <2>1. pc[b] = "created" /\ pc'[b] = "ok" /\ UNCHANGED <<cache, files>>
    BY <1>1, <1>7, Zenon DEF Created, To, hashVars
  <2> QED
    BY <2>1, Zenon DEF FileOK, Building
<1> QED
  BY <1>2, <1>3, <1>4, <1>5, <1>6, <1>7, ZenonT(30) DEF BinaryStep, Step, BuildStep

LEMMA OthersFile ==
    ASSUME CrdTypes, LocksApart, NEW b \in Binaries, LockOK(b), BuildOK(b), BinaryStep(b),
           NEW u \in Binaries, u # b, LockOK(u), FileOK(u)
    PROVE  FileOK(u)'
<1>1. SameBinary(u)
  BY OthersSame, Zenon
<1>2. cache \in [Hashes -> DB \cup {NoDB}] /\ files \in [Binaries -> Contents]
  BY Zenon DEF CrdTypes
<1>3. CASE cache' = cache
  BY <1>1, <1>3, Zenon DEF SameBinary, FileOK
<1>4. CASE Rename(b)
  <2>1. pc[b] = "rename" /\ cache' = [cache EXCEPT ![files[b]] = temp[b]]
    BY <1>4, Zenon DEF Rename
  <2>2. temp[b] # NoDB
    BY <2>1, Zenon DEF BuildOK
  <2>3. pc[u] \in Hashed => files[u] \in Hashes
    BY <1>2, Indexes, Zenon DEF LockOK
  <2>4. CASE pc[u] \in Building
    <3>1. files[u] # files[b]
      BY <2>1, <2>4, BuildersApart, Zenon DEF Locking, Building
    <3>2. cache'[files[u]] = cache[files[u]]
      BY <1>2, <2>1, <2>3, <2>4, <3>1, Zenon DEF Hashed
    <3> QED
      BY <1>1, <3>2, Zenon DEF SameBinary, FileOK
  <2>5. CASE pc[u] \notin Building
    <3>1. pc[u] = "ok" => cache'[files[u]] # NoDB
      BY <1>2, <2>1, <2>2, <2>3, Zenon DEF FileOK, Hashed
    <3> QED
      BY <1>1, <2>5, <3>1, Zenon DEF SameBinary, FileOK, Building
  <2> QED
    BY <2>4, <2>5, Zenon
<1> QED
  BY <1>3, <1>4, SharedFiles, Zenon

-----------------------------------------------------------------------------
EnsureInv ==
    /\ CrdTypes
    /\ LocksApart
    /\ \A b \in Binaries : LockOK(b) /\ BuildOK(b) /\ FileOK(b)
    /\ CacheSound

LEMMA EnsureInit == Init => EnsureInv
<1>1. SUFFICES ASSUME Init PROVE EnsureInv
  BY Zenon
<1>2. CrdTypes
  BY <1>1, TypesInit, Zenon
<1>3. LocksApart
  BY <1>1, Zenon DEF Init, LocksApart
<1>4. ASSUME NEW b \in Binaries PROVE LockOK(b) /\ BuildOK(b) /\ FileOK(b)
  <2>1. pc[b] = "idle" /\ b \notin locked /\ kine[b] = FALSE
    BY <1>1, Zenon DEF Init
  <2> QED
    BY <2>1, Zenon DEF LockOK, BuildOK, FileOK, Hashed, Locking, Opened, Applying, Filled, Building
<1>5. CacheSound
  BY <1>1, Zenon DEF Init, CacheSound
<1> QED
  BY <1>2, <1>3, <1>4, <1>5, Zenon DEF EnsureInv

(* A cache file changes only from nothing to a sound database.             *)
LEMMA CacheChange ==
    ASSUME EnsureInv, NEW b \in Binaries, BinaryStep(b), NEW h \in Hashes
    PROVE  \/ cache'[h] = cache[h]
           \/ cache[h] = NoDB /\ Sound(cache'[h], h)
<1>1. cache \in [Hashes -> DB \cup {NoDB}] /\ BuildOK(b) /\ FileOK(b)
  BY Zenon DEF EnsureInv, CrdTypes
<1>2. CASE Rename(b)
  <2>1. pc[b] = "rename" /\ cache' = [cache EXCEPT ![files[b]] = temp[b]]
    BY <1>2, Zenon DEF Rename
  <2>2. Sound(temp[b], files[b]) /\ cache[files[b]] = NoDB
    BY <1>1, <2>1, Zenon DEF BuildOK, FileOK, Building
  <2>3. h = files[b] => cache'[h] = temp[b]
    BY <1>1, <2>1, Zenon
  <2>4. h # files[b] => cache'[h] = cache[h]
    BY <1>1, <2>1, Zenon
  <2> QED
    BY <2>2, <2>3, <2>4, Zenon
<1> QED
  BY <1>2, SharedFiles, Zenon

LEMMA EnsureBinary ==
    ASSUME EnsureInv, NEW b \in Binaries, BinaryStep(b)
    PROVE  EnsureInv'
<1>1. CrdTypes /\ LocksApart /\ CacheSound /\ LockOK(b) /\ BuildOK(b) /\ FileOK(b)
  BY Zenon DEF EnsureInv
<1>2. CrdTypes'
  BY <1>1, TypesStep, Zenon
<1>3. LocksApart'
  BY <1>1, ApartStep, Zenon
<1>4. ASSUME NEW u \in Binaries PROVE LockOK(u)' /\ BuildOK(u)' /\ FileOK(u)'
  <2>1. LockOK(u) /\ BuildOK(u) /\ FileOK(u)
    BY Zenon DEF EnsureInv
  <2>2. CASE u = b
    BY <1>1, <2>2, OwnLock, OwnBuild, OwnFile, Zenon
  <2>3. CASE u # b
    BY <1>1, <2>1, <2>3, OthersLock, OthersBuild, OthersFile, Zenon
  <2> QED
    BY <2>2, <2>3, Zenon
<1>5. CacheSound'
  <2>1. SUFFICES ASSUME NEW h \in Hashes, cache'[h] # NoDB PROVE Sound(cache'[h], h)
    BY Zenon DEF CacheSound, Sound
  <2>2. cache[h] # NoDB => Sound(cache[h], h)
    BY <1>1, Zenon DEF CacheSound, Sound
  <2>3. CASE cache'[h] = cache[h]
    BY <2>1, <2>2, <2>3, Zenon
  <2> QED
    BY <2>3, CacheChange, Zenon
<1> QED
  BY <1>2, <1>3, <1>4, <1>5, Zenon DEF EnsureInv

LEMMA EnsureStep == EnsureInv /\ [Next]_vars => EnsureInv'
<1>1. SUFFICES ASSUME EnsureInv, [Next]_vars PROVE EnsureInv'
  BY Zenon
<1>2. ASSUME UNCHANGED <<cache, lockFile, fd, locked, pc, files, kine, objs, est, temp>>, CrdTypes'
      PROVE  EnsureInv'
  <2>1. LocksApart' /\ CacheSound'
    BY <1>1, <1>2, Zenon DEF EnsureInv, LocksApart, CacheSound
  <2>2. ASSUME NEW u \in Binaries PROVE LockOK(u)' /\ BuildOK(u)' /\ FileOK(u)'
    <3>1. LockOK(u) /\ BuildOK(u) /\ FileOK(u)
      BY <1>1, Zenon DEF EnsureInv
    <3>2. LockOK(u)' /\ FileOK(u)'
      BY <1>2, <3>1, Zenon DEF LockOK, FileOK
    <3>3. BuildOK(u)'
      BY <1>2, <3>1, Zenon DEF BuildOK, Sound
    <3> QED
      BY <3>2, <3>3, Zenon
  <2> QED
    BY <1>2, <2>1, <2>2, Zenon DEF EnsureInv
<1>3. CASE \E b \in Binaries : BinaryStep(b)
  BY <1>1, <1>3, EnsureBinary, Zenon
<1>4. CASE Edit
  <2>1. CrdTypes'
    BY <1>1, <1>4, TypesEdit, Zenon DEF EnsureInv
  <2> QED
    BY <1>2, <1>4, <2>1, Zenon DEF Edit, lockVars, hashVars, stackVars
<1>5. CASE UNCHANGED vars
  <2>1. UNCHANGED <<dir, cache, lockFile, fd, locked, pc, calls, list, files, kine, objs, est, temp>>
    BY <1>5, Zenon DEF vars, dirVars, lockVars, hashVars, stackVars
  <2>2. CrdTypes'
    BY <1>1, <2>1, Zenon DEF EnsureInv, CrdTypes
  <2> QED
    BY <1>2, <2>1, <2>2, Zenon
<1> QED
  BY <1>1, <1>3, <1>4, <1>5, Zenon DEF Next, BinaryStep

LEMMA EnsureInvariant == Spec => []EnsureInv
BY EnsureInit, EnsureStep, PTL DEF Spec

(* Every file at a cache path is a finished copy of a database that holds  *)
(* the documents of its name and nothing else: createCache works on the    *)
(* contents computeDirHash has read, and renames last.                     *)
THEOREM CacheIsSound == Spec => []CacheSound
<1>1. EnsureInv => CacheSound
  BY Zenon DEF EnsureInv
<1> QED
  BY <1>1, EnsureInvariant, PTL

(* EnsureCache returns a path only when a cache file is there, found by    *)
(* the first or the second os.Stat or made by createCache; nobody removes  *)
(* one afterwards.                                                         *)
THEOREM ResultIsUsable == Spec => []ResultUsable
<1>1. EnsureInv => ResultUsable
  BY Zenon DEF EnsureInv, FileOK, ResultUsable
<1> QED
  BY <1>1, EnsureInvariant, PTL

(* A cache file is never replaced once it exists: the second os.Stat of    *)
(* EnsureCache is made under the lock, and the lock file is never removed, *)
(* so that no other binary of the same hash builds meanwhile.              *)
THEOREM CacheIsStable == Spec => CacheStable
<1>1. EnsureInv /\ [Next]_vars => [\A h \in Hashes : cache[h] # NoDB => cache'[h] = cache[h]]_vars
  <2>1. SUFFICES ASSUME EnsureInv, Next
                 PROVE  \A h \in Hashes : cache[h] # NoDB => cache'[h] = cache[h]
    BY Zenon
  <2>2. CASE \E b \in Binaries : BinaryStep(b)
    BY <2>1, <2>2, CacheChange, Zenon
  <2>3. CASE Edit
    BY <2>3, Zenon DEF Edit
  <2> QED
    BY <2>1, <2>2, <2>3, Zenon DEF Next, BinaryStep
<1> QED
  BY <1>1, EnsureInvariant, PTL DEF Spec, CacheStable

=============================================================================
