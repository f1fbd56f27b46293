---------------------------- MODULE CondaDiscovery ----------------------------
(***************************************************************************)
(* The Conda locator during one refresh (crates/pet-conda/src/lib.rs).      *)
(*                                                                         *)
(* The refresh has a transient locator: Conda::find runs a thread per       *)
(* environment on it while threads of the other phases of the search call   *)
(* try_from on it.  Resolve requests call try_from on the shared locator,   *)
(* into which the refresh is synced at its end.  Both locators share the    *)
(* cache of environment details, whose entries are keyed by a fingerprint   *)
(* of conda-meta and conda-meta/history.  Conda changes environments all    *)
(* the while.                                                               *)
(*                                                                         *)
(* LocatorCache operations are atomic here; LocatorCache.tla is about them. *)
(***************************************************************************)
EXTENDS Naturals

CONSTANTS Prefixes,
          Install,      \* conda_dir of each environment, or None
          HasManager,   \* installs CondaManager::from accepts
          HasMamba,     \* installs with a mamba beside conda
          OnPath,       \* environments that another phase comes upon
          Resolved,     \* environments that are resolved by requests
          ConfiguredMamba,   \* installs of a configured mamba executable
          MaxChanges,   \* bound on the changes Conda makes
          None

ASSUME CondaAssumption ==
  /\ MaxChanges \in Nat
  /\ OnPath \subseteq Prefixes /\ Resolved \subseteq Prefixes
  /\ None \notin Prefixes
  /\ HasMamba \subseteq HasManager

(* States of conda-meta: how often its records and its history changed.  Both *)
(* numbers are 0 only in a fingerprint, for a file that is not there.         *)
Versions == [meta : Nat, history : Nat]
CachedDetails == [fingerprint : Versions, details : Versions]

ASSUME NoneIsNoVersion == None \notin Versions \cup CachedDetails

Finders == {"find"} \X Prefixes           \* threads of Conda::find
Identifiers == {"path"} \X OnPath         \* of the other phases
Resolvers == {"resolve"} \X Resolved      \* of resolve requests
Threads == Finders \cup Identifiers \cup Resolvers

VARIABLES
  exists, meta, history,   \* conda-meta of each environment: there or not, and
                           \* how often its records and its history changed
  changes,
  infoCache,               \* environment_info_cache, shared by the locators
  environments, managers, mambas,       \* caches, by locator
  reported, reportedMambas,             \* what the client is told of
  refresh, scope,          \* the thread of Conda::find and of the sync
  pc,
  before, read, after,     \* fingerprints and details a thread has read
  start                    \* history: what was there when it began to read

diskVars == <<exists, meta, history, changes>>
cacheVars == <<environments, managers, mambas>>
reportVars == <<reported, reportedMambas>>
readVars == <<before, read, after, start>>
vars == <<diskVars, infoCache, cacheVars, reportVars, refresh, scope, pc, readVars>>

Locator(t) == IF t[1] = "resolve" THEN "shared" ELSE "transient"
Prefix(t) == t[2]
Goto(t, label) == pc' = [pc EXCEPT ![t] = label]

(* get_environment_details and what was made of it go out of scope.          *)
Forget(t, label) ==
  /\ Goto(t, label)
  /\ before' = [before EXCEPT ![t] = None]
  /\ read' = [read EXCEPT ![t] = None]
  /\ after' = [after EXCEPT ![t] = None]
  /\ start' = [start EXCEPT ![t] = None]

(* What earlier refreshes left in the shared locator is older than anything. *)
Leftover == [meta |-> 0, history |-> 0]

Init ==
  /\ exists = [p \in Prefixes |-> TRUE]
  /\ meta = [p \in Prefixes |-> 1]
  /\ history = [p \in Prefixes |-> 1]
  /\ changes = 0
  /\ infoCache = [p \in Prefixes |-> None]
  /\ \E old \in {None, Leftover} :
       environments = [shared |-> [p \in Prefixes |-> old],
                       transient |-> [p \in Prefixes |-> None]]
  /\ managers = [shared |-> {}, transient |-> {}]
  /\ mambas = [shared |-> {}, transient |-> {}]
  /\ reported = {} /\ reportedMambas = {}
  /\ refresh = "start" /\ scope = None
  /\ pc = [t \in Threads |-> IF t[1] = "find" THEN "unborn" ELSE "cache"]
  /\ before = [t \in Threads |-> None]
  /\ read = [t \in Threads |-> None]
  /\ after = [t \in Threads |-> None]
  /\ start = [t \in Threads |-> None]

-----------------------------------------------------------------------------
(* Conda writes package records, then its history.                           *)
Change == changes < MaxChanges /\ changes' = changes + 1

WriteRecords(p) ==
  /\ Change
  /\ exists' = [exists EXCEPT ![p] = TRUE]
  /\ meta' = [meta EXCEPT ![p] = @ + 1]
  /\ UNCHANGED <<history, infoCache, cacheVars, reportVars, refresh, scope, pc, readVars>>

WriteHistory(p) ==
  /\ exists[p]
  /\ Change
  /\ history' = [history EXCEPT ![p] = @ + 1]
  /\ UNCHANGED <<exists, meta, infoCache, cacheVars, reportVars, refresh, scope, pc, readVars>>

RemoveEnvironment(p) ==
  /\ exists[p]
  /\ Change
  /\ exists' = [exists EXCEPT ![p] = FALSE]
  /\ meta' = [meta EXCEPT ![p] = @ + 1]
  /\ UNCHANGED <<history, infoCache, cacheVars, reportVars, refresh, scope, pc, readVars>>

-----------------------------------------------------------------------------
(* try_from: nothing for what is no Conda environment, then the cache.  A    *)
(* path thread reports what try_from returns.                                *)
LookInCache(t) ==
  LET p == Prefix(t) IN
  /\ pc[t] = "cache"
  /\ CASE ~exists[p] -> Goto(t, "none") /\ UNCHANGED reportVars
       [] exists[p] /\ environments[Locator(t)][p] # None ->
            /\ reported' = IF t[1] = "path" THEN reported \cup {p} ELSE reported
            /\ Goto(t, "done")
            /\ UNCHANGED reportedMambas
       [] OTHER -> Goto(t, "before") /\ UNCHANGED reportVars
  /\ UNCHANGED <<diskVars, infoCache, cacheVars, refresh, scope, readVars>>

(* CondaEnvironmentFingerprint::from_prefix stats history, then conda-meta.  *)
FingerprintHistory(t) ==
  LET p == Prefix(t) IN
  /\ pc[t] = "before"
  /\ before' = [before EXCEPT ![t] = [meta |-> 0, history |-> IF exists[p] THEN history[p] ELSE 0]]
  /\ start' = [start EXCEPT ![t] = [meta |-> meta[p], history |-> history[p]]]
  /\ Goto(t, "before_meta")
  /\ UNCHANGED <<diskVars, infoCache, cacheVars, reportVars, refresh, scope, read, after>>

FingerprintMeta(t) ==
  LET p == Prefix(t) IN
  /\ pc[t] = "before_meta"
  /\ before' = [before EXCEPT ![t] = IF exists[p] THEN [@ EXCEPT !.meta = meta[p]] ELSE None]
  /\ Goto(t, "lookup")
  /\ UNCHANGED <<diskVars, infoCache, cacheVars, reportVars, refresh, scope, read, after, start>>

(* get_or_load_environment_details: a cached entry with this fingerprint.    *)
LookUpDetails(t) ==
  LET cached == infoCache[Prefix(t)] IN
  /\ pc[t] = "lookup"
  /\ IF before[t] # None /\ cached # None /\ cached.fingerprint = before[t]
       THEN /\ read' = [read EXCEPT ![t] = cached.details]
            /\ before' = [before EXCEPT ![t] = None]
            /\ Goto(t, "details")
       ELSE Goto(t, "load") /\ UNCHANGED <<read, before>>
  /\ UNCHANGED <<diskVars, infoCache, cacheVars, reportVars, refresh, scope, after, start>>

(* get_conda_environment_info reads the history and then the records ...     *)
LoadHistory(t) ==
  LET p == Prefix(t) IN
  /\ pc[t] = "load"
  /\ IF exists[p]
       THEN /\ read' = [read EXCEPT ![t] = [meta |-> 0, history |-> history[p]]]
            /\ Goto(t, "load_records")
            /\ UNCHANGED <<infoCache, before, after, start>>
       ELSE /\ infoCache' = [infoCache EXCEPT ![p] = None]
            /\ Forget(t, "none")
  /\ UNCHANGED <<diskVars, cacheVars, reportVars, refresh, scope>>

(* ... even if the environment is removed by then.                           *)
LoadRecords(t) ==
  /\ pc[t] = "load_records"
  /\ read' = [read EXCEPT ![t].meta = meta[Prefix(t)]]
  /\ Goto(t, "after")
  /\ UNCHANGED <<diskVars, infoCache, cacheVars, reportVars, refresh, scope, before, after, start>>

FingerprintHistoryAgain(t) ==
  LET p == Prefix(t) IN
  /\ pc[t] = "after"
  /\ after' = [after EXCEPT ![t] = [meta |-> 0, history |-> IF exists[p] THEN history[p] ELSE 0]]
  /\ Goto(t, "after_meta")
  /\ UNCHANGED <<diskVars, infoCache, cacheVars, reportVars, refresh, scope, before, read, start>>

FingerprintMetaAgain(t) ==
  LET p == Prefix(t) IN
  /\ pc[t] = "after_meta"
  /\ after' = [after EXCEPT ![t] = IF exists[p] THEN [@ EXCEPT !.meta = meta[p]] ELSE None]
  /\ Goto(t, "keep")
  /\ UNCHANGED <<diskVars, infoCache, cacheVars, reportVars, refresh, scope, before, read, start>>

FaultyKeepDetails(t) ==             \* fingerprints only once, after loading
  /\ pc[t] = "keep"
  /\ infoCache' = [infoCache EXCEPT ![Prefix(t)] =
       IF after[t] # None THEN [fingerprint |-> after[t], details |-> read[t]] ELSE None]
  /\ before' = [before EXCEPT ![t] = None]
  /\ after' = [after EXCEPT ![t] = None]
  /\ Goto(t, "details")
  /\ UNCHANGED <<diskVars, cacheVars, reportVars, refresh, scope, read, start>>

(* The details are kept if nothing changed while they were read.             *)
KeepDetails(t) ==
  /\ pc[t] = "keep"
  /\ infoCache' = [infoCache EXCEPT ![Prefix(t)] =
       IF before[t] # None /\ before[t] = after[t]
         THEN [fingerprint |-> after[t], details |-> read[t]] ELSE None]
  /\ before' = [before EXCEPT ![t] = None]
  /\ after' = [after EXCEPT ![t] = None]
  /\ Goto(t, "details")
  /\ UNCHANGED <<diskVars, cacheVars, reportVars, refresh, scope, read, start>>

-----------------------------------------------------------------------------
(* find skips an environment that is in the cache: whoever put it there      *)
(* reports it.                                                               *)
SkipKnown(t) ==
  LET p == Prefix(t) IN
  /\ pc[t] = "details"
  /\ IF t[1] = "find" /\ Install[p] # None /\ environments.transient[p] # None
       THEN Forget(t, "done") ELSE Goto(t, "insert") /\ UNCHANGED readVars
  /\ UNCHANGED <<diskVars, infoCache, cacheVars, reportVars, refresh, scope>>

FaultyInsertEnvironment(t) ==       \* find leaves the reporting to others
  LET p == Prefix(t)
      i == Locator(t) IN
  /\ pc[t] = "insert"
  /\ environments' = [environments EXCEPT ![i][p] = read[t]]
  /\ managers' = [managers EXCEPT ![i] = @ \cup ({Install[p]} \cap HasManager)]
  /\ reported' = IF t[1] = "path" THEN reported \cup {p} ELSE reported
  /\ Forget(t, IF t[1] = "find" /\ Install[p] \in HasManager THEN "mamba" ELSE "done")
  /\ UNCHANGED <<diskVars, infoCache, mambas, reportedMambas, refresh, scope>>

(* The manager is looked for, the environment inserted and reported: by find *)
(* itself, or by the thread that called try_from in a search.  A resolve      *)
(* request reports nothing.                                                  *)
InsertEnvironment(t) ==
  LET p == Prefix(t)
      i == Locator(t) IN
  /\ pc[t] = "insert"
  /\ environments' = [environments EXCEPT ![i][p] = read[t]]
  /\ managers' = [managers EXCEPT ![i] = @ \cup ({Install[p]} \cap HasManager)]
  /\ reported' = IF t[1] = "resolve" THEN reported ELSE reported \cup {p}
  /\ Forget(t, IF t[1] = "find" /\ Install[p] \in HasManager THEN "mamba" ELSE "done")
  /\ UNCHANGED <<diskVars, infoCache, mambas, reportedMambas, refresh, scope>>

(* A mamba beside conda is reported by the first thread that looks for it.   *)
FindMamba(t) ==
  LET found == {Install[Prefix(t)]} \cap HasMamba IN
  /\ pc[t] = "mamba"
  /\ reportedMambas' = reportedMambas \cup (found \ mambas.transient)
  /\ mambas' = [mambas EXCEPT !.transient = @ \cup found]
  /\ Goto(t, "done")
  /\ UNCHANGED <<diskVars, infoCache, environments, managers, reported, refresh, scope, readVars>>

ThreadStep(t) ==
  \/ LookInCache(t) \/ FingerprintHistory(t) \/ FingerprintMeta(t) \/ LookUpDetails(t)
  \/ LoadHistory(t) \/ LoadRecords(t) \/ FingerprintHistoryAgain(t)
  \/ FingerprintMetaAgain(t) \/ KeepDetails(t) \/ SkipKnown(t)
  \/ InsertEnvironment(t) \/ FindMamba(t)

-----------------------------------------------------------------------------
RefreshGoes(from, to) == refresh = from /\ refresh' = to

(* A refresh of a workspace, or for other kinds, does not call Conda::find.  *)
SkipFind ==
  /\ RefreshGoes("start", "join")
  /\ scope' = "Workspace"
  /\ UNCHANGED <<diskVars, infoCache, cacheVars, reportVars, pc, readVars>>

(* Conda::find clears the caches of its locator ...                          *)
Clear ==
  /\ RefreshGoes("start", "spawn")
  /\ environments' = [environments EXCEPT !.transient = [p \in Prefixes |-> None]]
  /\ managers' = [managers EXCEPT !.transient = {}]
  /\ mambas' = [mambas EXCEPT !.transient = {}]
  /\ UNCHANGED <<diskVars, infoCache, reportVars, scope, pc, readVars>>

(* ... reports a configured mamba, spawns a thread for each environment that  *)
(* get_conda_environment_paths lists ...                                      *)
SpawnThreads ==
  /\ RefreshGoes("spawn", IF \A p \in Prefixes : exists[p] THEN "join" ELSE "retain")
  /\ pc' = [t \in Threads |->
       IF t \in Finders /\ exists[Prefix(t)] THEN "before" ELSE pc[t]]
  /\ mambas' = [mambas EXCEPT !.transient = @ \cup ConfiguredMamba]
  /\ reportedMambas' = reportedMambas \cup ConfiguredMamba
  /\ UNCHANGED <<diskVars, infoCache, environments, managers, reported, scope, readVars>>

(* ... and forgets details of all others, while the threads run; if there    *)
(* are no others, retain changes nothing and is no step here.                *)
RetainActive ==
  /\ RefreshGoes("retain", "join")
  /\ infoCache' = [p \in Prefixes |-> IF pc[<<"find", p>>] = "unborn" THEN None ELSE infoCache[p]]
  /\ UNCHANGED <<diskVars, cacheVars, reportVars, scope, pc, readVars>>

Ended(t) == pc[t] \in {"unborn", "none", "done"}

(* The threads of find, and those of the other phases, are joined.  The       *)
(* refresh was of all kinds or of Conda environments.                         *)
JoinThreads ==
  /\ RefreshGoes("join", "sync")
  /\ \A t \in Finders \cup Identifiers : Ended(t)
  /\ scope' \in IF scope = None THEN {"Full", "Filtered"} ELSE {scope}
  /\ UNCHANGED <<diskVars, infoCache, cacheVars, reportVars, pc, readVars>>

(* sync_refresh_state_from: a full refresh replaces the caches one by one,   *)
(* and resolve requests may find the first of them empty ...                 *)
SyncClears ==
  /\ RefreshGoes("sync", "insert")
  /\ scope = "Full"
  /\ environments' = [environments EXCEPT !.shared = [p \in Prefixes |-> None]]
  /\ UNCHANGED <<diskVars, infoCache, managers, mambas, reportVars, scope, pc, readVars>>

(* ... a filtered one merges, any other leaves them alone.                   *)
SyncSkipsClear ==
  /\ scope # "Full"
  /\ RefreshGoes("sync", IF scope = "Filtered" THEN "insert" ELSE "end")
  /\ UNCHANGED <<diskVars, infoCache, cacheVars, reportVars, scope, pc, readVars>>

SyncInserts ==
  /\ RefreshGoes("insert", "end")
  /\ environments' = [environments EXCEPT !.shared = [p \in Prefixes |->
       IF environments.transient[p] # None THEN environments.transient[p] ELSE @[p]]]
  /\ managers' = [managers EXCEPT !.shared =
       managers.transient \cup IF scope = "Full" THEN {} ELSE @]
  /\ mambas' = [mambas EXCEPT !.shared =
       mambas.transient \cup IF scope = "Full" THEN {} ELSE @]
  /\ UNCHANGED <<diskVars, infoCache, reportVars, scope, pc, readVars>>

Quiescent ==
  /\ refresh = "end" /\ \A t \in Threads : Ended(t)
  /\ UNCHANGED vars

Next ==
  \/ \E p \in Prefixes : WriteRecords(p) \/ WriteHistory(p) \/ RemoveEnvironment(p)
  \/ \E t \in Threads : ThreadStep(t)
  \/ SkipFind \/ Clear \/ SpawnThreads \/ RetainActive \/ JoinThreads
  \/ SyncClears \/ SyncSkipsClear \/ SyncInserts
  \/ Quiescent

Spec == Init /\ [][Next]_vars

-----------------------------------------------------------------------------
(* Cached details are those of the state their fingerprint stands for, even   *)
(* if Conda writes between any two reads of the thread that loads them.       *)
CachedDetailsMatchFingerprint ==
  \A p \in Prefixes : infoCache[p] # None => infoCache[p].details = infoCache[p].fingerprint

(* get_environment_details never returns anything older than the environment  *)
(* was when the call began, whoever filled the cache.                         *)
DetailsAreFresh ==
  \A t \in Threads : pc[t] = "details" =>
    read[t].meta >= start[t].meta /\ read[t].history >= start[t].history

(* At the end of a search every environment that find has details of was      *)
(* reported, also the ones it skipped because another thread was first.       *)
FoundIsReported ==
  refresh \in {"sync", "insert", "end"} =>
    \A t \in Finders : pc[t] = "done" => Prefix(t) \in reported

-----------------------------------------------------------------------------
(* The inductive invariant: what a thread knows at each of its steps.         *)
Reading == {"before_meta", "lookup", "load", "load_records", "after", "after_meta", "keep"}
Labels == Reading \cup {"unborn", "cache", "before", "details", "insert", "mamba", "none", "done"}

TypeOK ==
  /\ exists \in [Prefixes -> BOOLEAN]
  /\ meta \in [Prefixes -> Nat] /\ history \in [Prefixes -> Nat \ {0}]
  /\ changes \in 0..MaxChanges
  /\ infoCache \in [Prefixes -> CachedDetails \cup {None}]
  /\ environments \in [shared : [Prefixes -> Versions \cup {None}],
                       transient : [Prefixes -> Versions \cup {None}]]
  /\ managers \in [shared : SUBSET HasManager, transient : SUBSET HasManager]
  /\ mambas \in [shared : SUBSET (HasMamba \cup ConfiguredMamba),
                 transient : SUBSET (HasMamba \cup ConfiguredMamba)]
  /\ reported \subseteq Prefixes /\ reportedMambas \subseteq HasMamba \cup ConfiguredMamba
  /\ refresh \in {"start", "spawn", "retain", "join", "sync", "insert", "end"}
  /\ scope \in {None, "Workspace", "Full", "Filtered"}
  /\ pc \in [Threads -> Labels]
  /\ before \in [Threads -> Versions \cup {None}]
  /\ read \in [Threads -> Versions \cup {None}]
  /\ after \in [Threads -> Versions \cup {None}]
  /\ start \in [Threads -> Versions \cup {None}]

(* A thread began to read in the past.                                        *)
StartIsPast(t) ==
  pc[t] \in Reading \cup {"details"} =>
    /\ start[t] # None
    /\ start[t].meta <= meta[Prefix(t)]
    /\ 0 < start[t].history /\ start[t].history <= history[Prefix(t)]

(* The first fingerprint lies between that moment and now, and the environment *)
(* is there while its conda-meta is as it was for the fingerprint.             *)
BeforeIsPast(t) ==
  /\ pc[t] = "before_meta" => before[t] # None
  /\ pc[t] \in Reading /\ before[t] # None => before[t].history \in {0, start[t].history}
  /\ pc[t] \in Reading \ {"before_meta"} /\ before[t] # None =>
       /\ start[t].meta <= before[t].meta
       /\ before[t].meta <= meta[Prefix(t)]
       /\ before[t].meta = meta[Prefix(t)] => exists[Prefix(t)]

(* What was loaded lies between the first fingerprint and now.                 *)
ReadIsBetween(t) ==
  /\ pc[t] \in {"load_records", "after", "after_meta", "keep"} =>
       /\ read[t] # None
       /\ start[t].history <= read[t].history
       /\ read[t].history <= history[Prefix(t)]
  /\ pc[t] \in {"after", "after_meta", "keep"} =>
       /\ start[t].meta <= read[t].meta
       /\ read[t].meta <= meta[Prefix(t)]
       /\ before[t] # None => before[t].meta <= read[t].meta

(* The second fingerprint is no older than what was loaded.  If it found no    *)
(* history, conda-meta was not there and has changed since the first one.      *)
AfterIsLast(t) ==
  /\ pc[t] = "after_meta" =>
       /\ after[t] # None
       /\ after[t].history = 0 /\ before[t] # None => before[t].meta < meta[Prefix(t)]
  /\ pc[t] = "keep" /\ after[t] # None =>
       /\ read[t].meta <= after[t].meta
       /\ after[t].history = 0 /\ before[t] # None => before[t].meta < after[t].meta
  /\ pc[t] \in {"after_meta", "keep"} /\ after[t] # None =>
       after[t].history = 0 \/ read[t].history <= after[t].history

ReturnedIsFresh(t) ==
  pc[t] = "details" =>
    /\ read[t] # None
    /\ read[t].meta >= start[t].meta
    /\ read[t].history >= start[t].history

(* A fingerprint without a history is never the fingerprint of an entry.       *)
CacheIsSound ==
  \A p \in Prefixes : infoCache[p] # None =>
    /\ infoCache[p].details = infoCache[p].fingerprint
    /\ infoCache[p].fingerprint.history # 0

(* What find may skip, and what it has dealt with, was reported.               *)
KnownIsReported ==
  /\ \A p \in Prefixes : environments.transient[p] # None => p \in reported
  /\ \A t \in Finders : /\ pc[t] # "cache"
                        /\ pc[t] \in {"mamba", "done"} => Prefix(t) \in reported

ThreadInv(t) ==
  StartIsPast(t) /\ BeforeIsPast(t) /\ ReadIsBetween(t) /\ AfterIsLast(t) /\ ReturnedIsFresh(t)

IInv == TypeOK /\ CacheIsSound /\ KnownIsReported /\ \A t \in Threads : ThreadInv(t)

(* "verify both Conda and Mamba managers are reported": a search that finds   *)
(* an environment of an install with both reports both.                       *)
BothManagersAreReported ==
  refresh \in {"sync", "insert", "end"} =>
    \A t \in Finders : pc[t] = "done" => {Install[Prefix(t)]} \cap HasMamba \subseteq reportedMambas
=============================================================================
