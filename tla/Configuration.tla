---------------------------- MODULE Configuration ----------------------------
(***************************************************************************)
(* The configuration of the server and everything that is ordered by the    *)
(* lock around it (crates/pet/src/jsonrpc.rs): `configure` requests that    *)
(* push a new configuration into the shared locators and then publish it    *)
(* under a new generation, refreshes that report through the                *)
(* generation-guarded reporter and copy what they found into the shared     *)
(* locators, and `find` requests, which hold the lock for a whole search.   *)
(* Of the RefreshCoordinator there is what orders refreshes: one runs, the   *)
(* others join it or wait and then start over.                              *)
(*                                                                         *)
(* The configuration that a request asks for is identified with the         *)
(* request.  The RwLock prefers writers, as the standard library's does on  *)
(* Linux: a reader waits while a writer holds the lock or waits for it.     *)
(* A section under the lock that cannot block is one action.                *)
(***************************************************************************)
EXTENDS Naturals

CONSTANTS Configures,       \* configure requests, each with its thread
          Refreshes,        \* refresh requests, with thread and follow-up
          Finds,            \* threads of find requests for a directory
          CachingConfigures,\* the configure requests that name a cache directory
          NumLocators,      \* length of the locator list
          MaxReporters,     \* threads of one refresh that report at a time
          Default           \* the configuration of a server never configured

ASSUME ConfigurationAssumption ==
  /\ CachingConfigures \subseteq Configures
  /\ NumLocators \in Nat \ {0}
  /\ MaxReporters \in Nat
  /\ Default \notin Configures

LocatorIndex == 1 .. NumLocators
Configs == Configures \cup {Default}

VARIABLES
  config, generation,   \* ConfigurationState, under the RwLock
  mutex,                \* configure_in_progress: its holder, or Default
  cpc,                  \* configure threads
  previous, next,       \* previous_config and next_generation of each
  count,                \* locators it has called, and then has to roll back
  undone,               \* locators it has rolled back
  locConfig, cacheDir,  \* configuration of each shared locator; CACHE's, set once
  aborted,              \* process::abort was called
  rpc, gen,             \* refreshes and the generation of their snapshots
  idleAt,               \* history: the generation when its last wait ended
  emitting,             \* their notifications that are being sent
  synced, locState,     \* locators it has synced; the refresh generation that
                        \* the state of each shared locator comes from
  fpc,                  \* find threads
  acked                 \* history: latest generation a client was told of

stateVars == <<config, generation>>
configureVars == <<mutex, cpc, previous, next, count, undone, locConfig,
                   cacheDir, aborted, acked>>
refreshVars == <<rpc, gen, idleAt, emitting, synced, locState>>
vars == <<stateVars, configureVars, refreshVars, fpc>>

Init ==
  /\ config = Default /\ generation = 0
  /\ mutex = Default
  /\ cpc = [c \in Configures |-> "new"]
  /\ previous = [c \in Configures |-> Default]
  /\ next = [c \in Configures |-> 0]
  /\ count = [c \in Configures |-> 0]
  /\ undone = [c \in Configures |-> 0]
  /\ locConfig = [l \in LocatorIndex |-> Default]
  /\ cacheDir = Default
  /\ aborted = FALSE
  /\ rpc = [r \in Refreshes |-> "new"]
  /\ gen = [r \in Refreshes |-> 0]
  /\ idleAt = [r \in Refreshes |-> 0]
  /\ emitting = [r \in Refreshes |-> 0]
  /\ synced = [r \in Refreshes |-> 0]
  /\ locState = [l \in LocatorIndex |-> 0]
  /\ fpc = [f \in Finds |-> "idle"]
  /\ acked = 0

(* RwLock::read waits for the writer, RwLock::write for every reader.       *)
CanRead == \A c \in Configures : cpc[c] # "publish"

CanWrite ==
  /\ \A r \in Refreshes : emitting[r] = 0 /\ rpc[r] # "syncing"
  /\ \A f \in Finds : fpc[f] # "searching"

GotoC(c, label) == cpc' = [cpc EXCEPT ![c] = label]
GotoR(r, label) == rpc' = [rpc EXCEPT ![r] = label]

-----------------------------------------------------------------------------
(* handle_configure and apply_configure_options.                            *)

(* The thread starts; glob patterns are expanded before any lock is taken.  *)
ReceiveConfigure(c) ==
  /\ cpc[c] = "new"
  /\ GotoC(c, "lock")
  /\ UNCHANGED <<stateVars, mutex, previous, next, count, undone, locConfig,
                 cacheDir, aborted, acked, refreshVars, fpc>>

(* The options do not parse: the error is sent without a thread.            *)
RejectConfigure(c) ==
  /\ cpc[c] = "new"
  /\ GotoC(c, "failed")
  /\ UNCHANGED <<stateVars, mutex, previous, next, count, undone, locConfig,
                 cacheDir, aborted, acked, refreshVars, fpc>>

FaultyLockConfigure(c) ==       \* configure_in_progress left out
  /\ cpc[c] = "lock"
  /\ mutex' = c
  /\ GotoC(c, "prepare")
  /\ UNCHANGED <<stateVars, previous, next, count, undone, locConfig, cacheDir,
                 aborted, acked, refreshVars, fpc>>

LockConfigure(c) ==
  /\ cpc[c] = "lock"
  /\ mutex = Default
  /\ mutex' = c
  /\ GotoC(c, "prepare")
  /\ UNCHANGED <<stateVars, previous, next, count, undone, locConfig, cacheDir,
                 aborted, acked, refreshVars, fpc>>

(* Phase A: the snapshot of the current state, under the read lock.         *)
Prepare(c) ==
  /\ cpc[c] = "prepare"
  /\ CanRead
  /\ previous' = [previous EXCEPT ![c] = config]
  /\ next' = [next EXCEPT ![c] = generation + 1]
  /\ GotoC(c, "locators")
  /\ UNCHANGED <<stateVars, mutex, count, undone, locConfig, cacheDir, aborted,
                 acked, refreshVars, fpc>>

(* Phase B: configure(next_config) of the next locator, with no lock.       *)
ConfigureLocator(c) ==
  /\ cpc[c] = "locators"
  /\ locConfig' = [locConfig EXCEPT ![count[c] + 1] = c]
  /\ count' = [count EXCEPT ![c] = @ + 1]
  /\ GotoC(c, IF count[c] + 1 = NumLocators THEN "cache" ELSE "locators")
  /\ UNCHANGED <<stateVars, mutex, previous, next, undone, cacheDir, aborted,
                 acked, refreshVars, fpc>>

(* The locator's configure panics, before or after it took the new value.   *)
LocatorTakes(c, l, value) ==
  /\ value \in {locConfig[l], c}
  /\ locConfig' = [locConfig EXCEPT ![l] = value]

FaultyLocatorPanics(c) ==       \* rolls back only the ones that returned
  /\ cpc[c] = "locators"
  /\ \E value \in Configs : LocatorTakes(c, count[c] + 1, value)
  /\ GotoC(c, IF count[c] = 0 THEN "unlockFailed" ELSE "rollback")
  /\ UNCHANGED <<stateVars, mutex, previous, next, count, undone, cacheDir,
                 aborted, acked, refreshVars, fpc>>

(* It is rolled back together with the ones before it.                      *)
LocatorPanics(c) ==
  /\ cpc[c] = "locators"
  /\ \E value \in Configs : LocatorTakes(c, count[c] + 1, value)
  /\ count' = [count EXCEPT ![c] = @ + 1]
  /\ GotoC(c, "rollback")
  /\ UNCHANGED <<stateVars, mutex, previous, next, undone, cacheDir, aborted,
                 acked, refreshVars, fpc>>

(* set_cache_directory: only the first call has an effect.                  *)
SetCacheDirectory(c) ==
  /\ cpc[c] = "cache"
  /\ cacheDir' = IF c \in CachingConfigures /\ cacheDir = Default
                   THEN c ELSE cacheDir
  /\ GotoC(c, "publish")
  /\ UNCHANGED <<stateVars, mutex, previous, next, count, undone, locConfig,
                 aborted, acked, refreshVars, fpc>>

(* It panics on a poisoned lock, before the directory is set.               *)
CacheDirectoryPanics(c) ==
  /\ cpc[c] = "cache"
  /\ c \in CachingConfigures
  /\ GotoC(c, "rollback")
  /\ UNCHANGED <<stateVars, mutex, previous, next, count, undone, locConfig,
                 cacheDir, aborted, acked, refreshVars, fpc>>

FaultyPublish(c) ==             \* the write lock does not wait for readers
  /\ cpc[c] = "publish"
  /\ config' = c
  /\ generation' = next[c]
  /\ GotoC(c, "unlock")
  /\ UNCHANGED <<mutex, previous, next, count, undone, locConfig, cacheDir,
                 aborted, acked, refreshVars, fpc>>

(* Phase C: configuration and generation, under the write lock.  (The reset *)
(* of the missing-environment slot is in MissingEnvReporting.)              *)
Publish(c) ==
  /\ cpc[c] = "publish"
  /\ CanWrite
  /\ config' = c
  /\ generation' = next[c]
  /\ GotoC(c, "unlock")
  /\ UNCHANGED <<mutex, previous, next, count, undone, locConfig, cacheDir,
                 aborted, acked, refreshVars, fpc>>

(* rollback_locator_config: the previous configuration, first to last.      *)
RollbackLocator(c) ==
  /\ cpc[c] = "rollback"
  /\ locConfig' = [locConfig EXCEPT ![undone[c] + 1] = previous[c]]
  /\ undone' = [undone EXCEPT ![c] = @ + 1]
  /\ GotoC(c, IF undone[c] + 1 = count[c] THEN "unlockFailed" ELSE "rollback")
  /\ UNCHANGED <<stateVars, mutex, previous, next, count, cacheDir, aborted,
                 acked, refreshVars, fpc>>

(* A panic in the rollback: process::abort.                                 *)
RollbackPanics(c) ==
  /\ cpc[c] = "rollback"
  /\ aborted' = TRUE
  /\ UNCHANGED <<stateVars, mutex, cpc, previous, next, count, undone,
                 locConfig, cacheDir, acked, refreshVars, fpc>>

(* apply_configure_options returns and drops the mutex guard ...            *)
UnlockConfigure(c) ==
  /\ cpc[c] \in {"unlock", "unlockFailed"}
  /\ mutex' = Default
  /\ GotoC(c, IF cpc[c] = "unlock" THEN "reply" ELSE "error")
  /\ UNCHANGED <<stateVars, previous, next, count, undone, locConfig, cacheDir,
                 aborted, acked, refreshVars, fpc>>

(* ... and only then is the reply or the error sent.                        *)
AnswerConfigure(c) ==
  /\ cpc[c] \in {"reply", "error"}
  /\ acked' = IF cpc[c] = "reply" /\ next[c] > acked THEN next[c] ELSE acked
  /\ GotoC(c, IF cpc[c] = "reply" THEN "replied" ELSE "failed")
  /\ UNCHANGED <<stateVars, mutex, previous, next, count, undone, locConfig,
                 cacheDir, aborted, refreshVars, fpc>>

ConfigureStep(c) ==
  \/ LockConfigure(c) \/ Prepare(c) \/ ConfigureLocator(c) \/ LocatorPanics(c)
  \/ SetCacheDirectory(c) \/ CacheDirectoryPanics(c) \/ Publish(c)
  \/ RollbackLocator(c) \/ RollbackPanics(c)
  \/ UnlockConfigure(c) \/ AnswerConfigure(c)

-----------------------------------------------------------------------------
(* A refresh and its follow-up.  The coordinator is Running or Completing     *)
(* while one of them is in these places.                                     *)
Active == {r \in Refreshes : rpc[r] \in {"finding", "syncing", "completing", "failing"}}

(* The loop of handle_refresh: a clone of the configuration state ...        *)
SnapshotConfiguration(r) ==
  /\ rpc[r] = "new"
  /\ CanRead
  /\ gen' = [gen EXCEPT ![r] = generation]
  /\ GotoR(r, "register")
  /\ UNCHANGED <<stateVars, configureVars, idleAt, emitting, synced,
                 locState, fpc>>

(* ... and register_request with the generation of that clone, whatever has  *)
(* been published since.  A refresh joins a run of its key, that is of its   *)
(* generation and its options, which are left out here.                      *)
RegisterRequest(r) ==
  /\ rpc[r] = "register"
  /\ \/ Active = {} /\ GotoR(r, "finding")
     \/ (\E s \in Active : gen[s] = gen[r]) /\ GotoR(r, "joined")
     \/ Active # {} /\ GotoR(r, "waiting")
  /\ UNCHANGED <<stateVars, configureVars, gen, idleAt, emitting, synced,
                 locState, fpc>>

FaultyWaitUntilIdle(r) ==       \* registers with the old clone
  /\ rpc[r] = "waiting"
  /\ Active = {}
  /\ idleAt' = [idleAt EXCEPT ![r] = generation]
  /\ GotoR(r, "register")
  /\ UNCHANGED <<stateVars, configureVars, gen, emitting, synced, locState, fpc>>

(* wait_until_idle, after which the loop starts over.                        *)
WaitUntilIdle(r) ==
  /\ rpc[r] = "waiting"
  /\ Active = {}
  /\ idleAt' = [idleAt EXCEPT ![r] = generation]
  /\ GotoR(r, "new")
  /\ UNCHANGED <<stateVars, configureVars, gen, emitting, synced, locState, fpc>>

(* GenerationGuardedReporter::report_if_current takes the read lock; with a  *)
(* current generation it keeps it while the notification is written, else   *)
(* the notification is dropped.  The search reports from several threads.   *)
ReportIfCurrent(r) ==
  /\ rpc[r] \in {"finding", "following"}
  /\ emitting[r] < MaxReporters
  /\ CanRead
  /\ emitting' = [emitting EXCEPT ![r] = IF generation = gen[r] THEN @ + 1 ELSE @]
  /\ UNCHANGED <<stateVars, configureVars, rpc, gen, idleAt, synced, locState, fpc>>

NotificationWritten(r) ==
  /\ emitting[r] > 0
  /\ emitting' = [emitting EXCEPT ![r] = @ - 1]
  /\ UNCHANGED <<stateVars, configureVars, rpc, gen, idleAt, synced, locState,
                 fpc>>

FaultyBeginSync(r) ==           \* the generation is not compared
  /\ rpc[r] = "finding"
  /\ emitting[r] = 0
  /\ CanRead
  /\ GotoR(r, "syncing")
  /\ UNCHANGED <<stateVars, configureVars, gen, idleAt, emitting, synced,
                 locState, fpc>>

(* find_and_report_envs has joined its threads;                              *)
(* sync_refresh_locator_state_if_current takes the read lock and keeps it   *)
(* for the sync of every locator, or skips the sync.                        *)
BeginSync(r) ==
  /\ rpc[r] = "finding"
  /\ emitting[r] = 0
  /\ CanRead
  /\ GotoR(r, IF generation = gen[r] THEN "syncing" ELSE "completing")
  /\ UNCHANGED <<stateVars, configureVars, gen, idleAt, emitting, synced,
                 locState, fpc>>

FaultySyncLocator(r) ==         \* each sync takes the read lock once more
  /\ rpc[r] = "syncing"
  /\ CanRead
  /\ locState' = [locState EXCEPT ![synced[r] + 1] = gen[r]]
  /\ synced' = [synced EXCEPT ![r] = @ + 1]
  /\ GotoR(r, IF synced[r] + 1 = NumLocators THEN "completing" ELSE "syncing")
  /\ UNCHANGED <<stateVars, configureVars, gen, idleAt, emitting, fpc>>

(* sync_refresh_locator_state: locator by locator, without another look at   *)
(* the configuration.                                                       *)
SyncLocator(r) ==
  /\ rpc[r] = "syncing"
  /\ locState' = [locState EXCEPT ![synced[r] + 1] = gen[r]]
  /\ synced' = [synced EXCEPT ![r] = @ + 1]
  /\ GotoR(r, IF synced[r] + 1 = NumLocators THEN "completing" ELSE "syncing")
  /\ UNCHANGED <<stateVars, configureVars, gen, idleAt, emitting, fpc>>

(* A panic in the search or in the sync is caught by handle_refresh; it      *)
(* drops the read guard.                                                    *)
RefreshPanics(r) ==
  /\ rpc[r] \in {"finding", "syncing"}
  /\ emitting[r] = 0
  /\ GotoR(r, "failing")
  /\ UNCHANGED <<stateVars, configureVars, gen, idleAt, emitting, synced,
                 locState, fpc>>

(* The replies are sent and the coordinator is idle again; a follow-up comes *)
(* only after a success.                                                     *)
CompleteRefresh(r) ==
  /\ rpc[r] \in {"completing", "failing"}
  /\ GotoR(r, IF rpc[r] = "completing" THEN "following" ELSE "done")
  /\ UNCHANGED <<stateVars, configureVars, gen, idleAt, emitting, synced,
                 locState, fpc>>

(* The follow-up and its worker thread are through.                          *)
FinishFollowUp(r) ==
  /\ rpc[r] = "following"
  /\ emitting[r] = 0
  /\ GotoR(r, "done")
  /\ UNCHANGED <<stateVars, configureVars, gen, idleAt, emitting, synced,
                 locState, fpc>>

RefreshStep(r) ==
  \/ SnapshotConfiguration(r) \/ RegisterRequest(r) \/ WaitUntilIdle(r)
  \/ NotificationWritten(r) \/ BeginSync(r) \/ SyncLocator(r)
  \/ CompleteRefresh(r) \/ FinishFollowUp(r)

-----------------------------------------------------------------------------
(* handle_find with a directory: the read guard is a temporary of the call's *)
(* argument and lives until the search returns.  There is no end of find     *)
(* requests.                                                                 *)
BeginFind(f) ==
  /\ fpc[f] = "idle"
  /\ CanRead
  /\ fpc' = [fpc EXCEPT ![f] = "searching"]
  /\ UNCHANGED <<stateVars, configureVars, refreshVars>>

EndFind(f) ==
  /\ fpc[f] = "searching"
  /\ fpc' = [fpc EXCEPT ![f] = "idle"]
  /\ UNCHANGED <<stateVars, configureVars, refreshVars>>

(* Nothing is left to do; the server waits for the next request.             *)
Quiescent ==
  /\ \A c \in Configures : cpc[c] \in {"replied", "failed"}
  /\ \A r \in Refreshes : rpc[r] \in {"joined", "done"}
  /\ \A f \in Finds : fpc[f] = "idle"
  /\ UNCHANGED vars

Aborted == aborted /\ UNCHANGED vars

Next ==
  \/ ~aborted /\ \E c \in Configures :
       ReceiveConfigure(c) \/ RejectConfigure(c) \/ ConfigureStep(c)
  \/ ~aborted /\ \E r \in Refreshes :
       RefreshStep(r) \/ ReportIfCurrent(r) \/ RefreshPanics(r)
  \/ ~aborted /\ \E f \in Finds : BeginFind(f) \/ EndFind(f)
  \/ Quiescent
  \/ Aborted

Fairness ==
  /\ \A c \in Configures : WF_vars(~aborted /\ ConfigureStep(c))
  /\ \A r \in Refreshes : WF_vars(~aborted /\ RefreshStep(r))
  /\ \A f \in Finds : WF_vars(~aborted /\ EndFind(f))

Spec == Init /\ [][Next]_vars
FairSpec == Spec /\ Fairness

-----------------------------------------------------------------------------
ConfigurePlaces == {"new", "lock", "prepare", "locators", "cache", "publish",
                    "rollback", "unlock", "unlockFailed", "reply", "error",
                    "replied", "failed"}
RefreshPlaces == {"new", "register", "waiting", "joined", "finding", "syncing", "completing",
                  "failing", "following", "done"}

(* Every value has its type; no loop over the locators leaves their list.     *)
TypeOK ==
  /\ config \in Configs /\ generation \in Nat
  /\ mutex \in Configs
  /\ cpc \in [Configures -> ConfigurePlaces]
  /\ previous \in [Configures -> Configs]
  /\ next \in [Configures -> Nat]
  /\ count \in [Configures -> 0 .. NumLocators]
  /\ undone \in [Configures -> 0 .. NumLocators]
  /\ locConfig \in [LocatorIndex -> Configs]
  /\ cacheDir \in CachingConfigures \cup {Default}
  /\ aborted \in BOOLEAN
  /\ rpc \in [Refreshes -> RefreshPlaces]
  /\ gen \in [Refreshes -> Nat] /\ idleAt \in [Refreshes -> Nat]
  /\ emitting \in [Refreshes -> 0 .. MaxReporters]
  /\ synced \in [Refreshes -> 0 .. NumLocators]
  /\ locState \in [LocatorIndex -> Nat]
  /\ fpc \in [Finds -> {"idle", "searching"}]
  /\ acked \in Nat

(* Once a client has been told that its configuration is in force, it never  *)
(* again receives a notification that was computed under an older one: the   *)
(* notification is written under the lock that publication excludes.         *)
NoStaleNotification == \A r \in Refreshes : emitting[r] > 0 => gen[r] >= acked

(* What a refresh puts into a shared locator was found under the published   *)
(* configuration, also when it read its snapshot before a newer refresh and  *)
(* starts after that one has synced; and when its sync is through, no locator *)
(* is left with the state of another configuration.                          *)
SyncNeverGoesBack ==
  [][/\ \A l \in LocatorIndex : locState'[l] # locState[l] => locState'[l] = generation
     /\ \A r \in Refreshes : rpc[r] = "syncing" /\ rpc'[r] = "completing" =>
          \A l \in LocatorIndex : locState'[l] = generation]_vars

(* A refresh that had to wait for another one, and may have read its first   *)
(* snapshot long ago, runs under a configuration that is not older than the  *)
(* one in force when the wait was over, and joins no run under an older one. *)
WaitedRefreshIsCurrent ==
  \A r \in Refreshes :
    rpc[r] \notin {"new", "register", "waiting"} => gen[r] >= idleAt[r]

(* Each shared locator has the published configuration or that of the one    *)
(* configure that is under way; a configure that failed in the middle has    *)
(* given every locator its old configuration back.                           *)
LocatorsMatchConfiguration ==
  \A l \in LocatorIndex :
    locConfig[l] # config =>
      /\ locConfig[l] = mutex
      /\ cpc[mutex] \in {"locators", "cache", "publish", "rollback"}

(* Publication, not time of receipt, orders configurations: each one has a   *)
(* generation of its own, though next_generation was computed under a lock   *)
(* that was released long before.                                            *)
GenerationsIdentifyConfigurations ==
  [][config' # config \/ generation' # generation =>
       config' # config /\ generation' = generation + 1]_vars

(* A configure request that was answered with an error left no trace: not in *)
(* the configuration, in no locator and not in the cache directory, which    *)
(* could never be changed again.                                             *)
FailedConfigureIsInvisible ==
  \A c \in Configures :
    cpc[c] \in {"error", "failed"} =>
      /\ config # c /\ cacheDir # c
      /\ \A l \in LocatorIndex : locConfig[l] # c

(* Readers and writers never wait for each other in a circle: every          *)
(* configure request is answered, unless its rollback aborts the process.    *)
EveryConfigureAnswered ==
  \A c \in Configures :
    cpc[c] = "lock" ~> cpc[c] \in {"replied", "failed"} \/ aborted

(* The inductive invariant behind these properties.                          *)
Holding == {"prepare", "locators", "cache", "publish", "rollback", "unlock",
            "unlockFailed"}
Preparing == {"locators", "cache", "publish", "rollback"}

(* configure_in_progress has at most one holder.                             *)
MutexHasOneHolder ==
  /\ \A c \in Configures : cpc[c] \in Holding => mutex = c
  /\ mutex # Default => cpc[mutex] \in Holding

(* While a configure prepares, what it read in phase A stays true.           *)
SnapshotIsCurrent ==
  \A c \in Configures :
    /\ cpc[c] \in Preparing => previous[c] = config /\ next[c] = generation + 1
    /\ cpc[c] \in {"unlock", "reply"} => next[c] <= generation

(* Only a configure that reached phase C is published or sets the cache      *)
(* directory.                                                                *)
PublishedByPhaseC ==
  /\ config # Default => cpc[config] \in {"unlock", "reply", "replied"}
  /\ cacheDir # Default => cpc[cacheDir] \in {"publish", "unlock", "reply", "replied"}

(* How far the loops over the locators are.                                  *)
LoopsAreInRange ==
  /\ \A c \in Configures :
       /\ cpc[c] \in {"new", "lock", "prepare"} => count[c] = 0
       /\ cpc[c] \in {"new", "lock", "prepare"} \cup {"locators", "cache", "publish"}
            => undone[c] = 0
       /\ cpc[c] = "locators" => count[c] < NumLocators
       /\ cpc[c] \in {"cache", "publish"} => count[c] = NumLocators
       /\ cpc[c] = "rollback" => undone[c] < count[c]
  /\ \A r \in Refreshes :
       /\ rpc[r] \in {"new", "register", "waiting", "joined", "finding"} => synced[r] = 0
       /\ rpc[r] = "syncing" => synced[r] < NumLocators

(* Which locators have been configured, and which rolled back.               *)
LocatorsFollowLoops ==
  \A l \in LocatorIndex :
    /\ mutex = Default \/ cpc[mutex] \notin Preparing => locConfig[l] = config
    /\ mutex # Default /\ cpc[mutex] \in {"locators", "cache", "publish"} =>
         locConfig[l] = IF l <= count[mutex] THEN mutex ELSE config
    /\ mutex # Default /\ cpc[mutex] = "rollback" =>
         /\ locConfig[l] \in {config, mutex}
         /\ l <= undone[mutex] \/ l > count[mutex] => locConfig[l] = config

(* Whoever keeps the read lock has seen the generation that is published.    *)
ReadersAreCurrent ==
  /\ \A r \in Refreshes :
       /\ gen[r] <= generation
       /\ emitting[r] > 0 \/ rpc[r] = "syncing" => gen[r] = generation
  /\ acked <= generation
  /\ \A l \in LocatorIndex : locState[l] <= generation

(* A clone of the configuration is taken after the wait that precedes it, and *)
(* a sync that is under way has brought every locator behind it up to date.  *)
RefreshesKeepUp ==
  \A r \in Refreshes :
    /\ idleAt[r] <= generation
    /\ rpc[r] # "new" => idleAt[r] <= gen[r]
    /\ rpc[r] = "syncing" =>
         \A l \in LocatorIndex : l <= synced[r] => locState[l] = generation

IInv ==
  /\ TypeOK
  /\ MutexHasOneHolder
  /\ SnapshotIsCurrent
  /\ PublishedByPhaseC
  /\ LoopsAreInRange
  /\ LocatorsFollowLoops
  /\ ReadersAreCurrent
  /\ RefreshesKeepUp
=============================================================================
