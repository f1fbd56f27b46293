# TLA+ models of python-environment-tools (pet)

`pet` finds the Python environments of a machine.  It is a Rust workspace of
small crates; an editor starts it as a JSON-RPC server on stdin and stdout and
sends it `configure`, `refresh`, `resolve`, `find`, `clear` and `condaInfo`
requests.  Two things are hard to get right.  One is the server: every request
runs on a thread of its own, a search runs dozens of threads, a configuration can
be replaced at any moment, results are shared and cached in memory and on disk,
and panics in any locator are survived.  The other is recognition: some twenty
locators look at the same files and paths in a fixed order, an environment has
several paths, and what one locator leaves to the next is nowhere written down.
There is a group of modules for each (section 2).

All paths below are relative to `src/`; `jsonrpc.rs` is `crates/pet/src/jsonrpc.rs`.

## 1. Inventory

| Part | State | Operations | Talks to |
|---|---|---|---|
| Refresh coordinator (`jsonrpc.rs` 59-374, 1172-1256) | mutex around Idle / Running / Completing with the joined request ids; condition variable; `NEXT_REFRESH_ID` | register (start, join, wait), wait_until_idle, begin_completion, drain, complete, force_complete by two drop guards | search, stdout |
| Missing-environment reporting (`jsonrpc.rs` 485-488, 944-1026, 1132-1170) | one `AtomicU64`: available, claimed by a generation, completed | claim, release if stale, complete, reset by configure | configuration generation, conda and poetry processes |
| Configuration (`jsonrpc.rs` 376-468, 611-857, 894-924, 1326-1389) | `RwLock<ConfigurationState>` with a generation; configure mutex; configuration of every locator; the once-only cache directory | configure in three phases with rollback, generation-guarded reporting, sync of refresh state, find under the read lock | all locators, refreshes, interpreter cache |
| Search (`crates/pet/src/find.rs`, `locators.rs`, `pet-reporter`) | work of each thread, tables of what was reported | four phases, a thread per locator or directory, identification, de-duplication, progress | locators, stdout |
| LocatorCache (`crates/pet-core/src/cache.rs`) | map, in-flight map, entry with result and condition variable | get_or_insert_with, insert, insert_many, clear | used by the Conda locator and others |
| Interpreter cache (`crates/pet-python-utils/src/{env,cache,fs_cache}.rs`, `resolve.rs`) | table of entries behind mutexes, cache files, the once-only directory | get, spawn, store, track_symlinks, clear | file system, other servers on the same directory |
| Conda locator (`crates/pet-conda/src`) | three LocatorCaches per locator, a details cache that all locators share | find, try_from, find_and_report, sync | Conda itself, which changes environments |
| Locators with state: Hatch, Poetry, pyenv, Linux global, Windows registry, Windows Store, WinPython | Hatch: generation, workspaces, parsed entries; the others: a search result or a table of what was found | configure, find, try_from, sync | file system, registry, Conda, tools |
| Locators without: pipenv, uv, pixi, venv, virtualenv, virtualenvwrapper, Homebrew, macOS ×3 | configured workspaces | find, try_from | file system |
| Identification and resolve (`locators.rs`, `find.rs`, `resolve.rs`) | none | ask the locators in order, run Python as last resort, merge | all locators |
| Files of Pythons (`pet-python-utils`, `pet-core`, `pet-fs`) | none | executables of a directory, versions, pyvenv.cfg, links, case, globs | all locators |
| JSON-RPC transport, CLI | none or trivial | framing, parsing, formatting | |

What is hard here: two actors on one lock, atomic or file in an order nobody
tested; values that were checked under a lock and used after it; a configuration
replaced in the middle of a refresh; panics in locators, on a closed stdout and
under locks (poisoning); waiters that depend on every path to notify; a cache
that answers for a file that has changed; a server killed while it writes; an
environment that is one thing by one of its paths and another by the next; files
that describe an interpreter as it was when they were written.
`PROJECT.json` lists each of these at its line under `hazards`, with the
properties that would notice it going wrong.

## 2. Modules

| Module | Models | Run through | Proofs |
|---|---|---|---|
| `RefreshService` | abstract: what the server promises about refreshes | refinement of the next | |
| `RefreshCoordinator` | coordinator, guards and the thread of `handle_refresh` | `MCRefreshCoordinator` | `RefreshServer_proofs` |
| `MissingEnvReporting` | the slot that elects the follow-up worker | itself | `MissingEnvReporting_proofs` |
| `RefreshServer` | the two together over one generation | `MCRefreshServer` | `RefreshServer_proofs` |
| `Configuration` | configure, guarded reporter, sync, find | itself | `Configuration_proofs` |
| `SingleFlightCache` | abstract: what the cache promises its callers | refinement of the next | |
| `LocatorCache` | the cache with its locks, in-flight entries and condition variables | itself | `LocatorCache_proofs` |
| `InterpreterCache` | memory and file cache of interpreter details | `MCInterpreterCache` | `InterpreterCache_proofs` |
| `Search` | `find_and_report_envs` and the reporters | `MCSearch` | `Search_proofs` |
| `CondaDiscovery` | the Conda locator during a refresh | `MCCondaDiscovery` | `CondaDiscovery_proofs` |
| `FileSystem` | a machine's disk with links, `pet-fs` (paths, globs) | `MCLocators` | |
| `PythonFiles` | executables, versions, pyvenv.cfg, the builder of an environment | `MCLocators` | |
| `VirtualEnvironments` | venv, virtualenv, virtualenvwrapper, pipenv, uv | `MCLocators` | |
| `ProjectEnvironments` | Hatch and Poetry | `MCLocators` | |
| `GlobalPythons` | pyenv, Homebrew, Linux, macOS ×3, search path lists | `MCLocators` | |
| `WindowsPythons` | registry, Store, WinPython | `MCLocators` | |
| `CondaFiles` | what Conda and Pixi read, and what `conda info` adds | `MCLocators` | |
| `Identification` | order of the locators, search of everything, resolve, comparison | `MCLocators` | |
| `Locators` | threads that use the locators, what these remember, configure and sync | `MCLocators` | `Locators_proofs` |

The last nine are one tower of EXTENDS.  The eight below `Locators` have no
variables: each is a set of operators over a machine and a configuration.

Granularity: an action is a section under one lock, one atomic access, one file
operation or one call of foreign code (a locator, Python).  Where a section
cannot block and only touches state under the same lock it is a single action.
Operators named `Faulty...` stand before the definition they distort; they are
plausible bugs that show each property can fail and are not part of any
specification.  In `Locators` and below they are named for what they do wrong
(`KeepExecutable`, `FromPyVenvCfg`, `CondaRcDirectoriesOnly`, `ReplayWalk`,
`NeverStale`, `AlwaysStale`, `LaterWalkWins`).

### Refreshes: RefreshService, RefreshCoordinator
A request and its thread are one element of `Requests`; `pc[r]` is the place in
`handle_refresh`.  `state` is `RefreshCoordinatorState` with its `ActiveRefresh`;
`request_ids` is a set because an id registers once.  `Receive`, `Snapshot`,
`RegisterStart/Joined/Wait`, `WaitUntilIdle`, `ExecuteRefresh`, `BeginCompletion`,
`DrainRequestIds`, `SendReply`, `SendDone`, `CompleteRequest` and `FollowUp` are
the steps of that thread in the order of the code.  A panic of the search makes
`ExecuteRefresh` end with an error outcome (`RefreshSafetyGuard`); a panic of a
write is `SendPanics` (`RefreshCompletionGuard`, `force_complete_request`).
`aborted` stands for a panic while the coordinator's mutex is held, which would
poison it for everyone; `NeverAborts` shows that the panicking match arms of
`begin_completion`, `drain_completing_request_ids` and `complete_request` cannot
be reached.  `RefreshService` has no threads: requests, members of the one run,
its outcome, answers.

### Missing environments: MissingEnvReporting, RefreshServer
`slot` is the atomic.  Loads, compare-exchanges and generation checks are
separate actions.  `RefreshServer` runs a follow-up for every thread of the
coordinator that sent its replies, over the same published generation.

### Configuration
`configure` requests take the mutex, read the previous state (phase A), configure
locators one by one and set the cache directory (phase B, any of which may panic,
after or before the value was taken), publish under the write lock and reset the
slot (phase C), or roll back.  A panic in rollback aborts the process.  A refresh
clones the configuration state (`SnapshotConfiguration`) and registers with the
generation of that clone in a later step (`RegisterRequest`), whatever was published
or synced in between: it starts, joins a run of its generation, or waits
(`WaitUntilIdle`) and starts over with another clone.  Options are left out, so that a
refresh of the same generation may also wait.  Refreshes
report through `report_if_current` and sync under the read lock; `find` holds the
read lock for its whole search, again and again.  `idleAt` is a history variable: the
generation in force when the last wait of a refresh ended.  The lock prefers writers, as the standard
library's does on Linux.  A configuration is identified with its request.

### LocatorCache, SingleFlightCache
One element of `Calls` per call of `get_or_insert_with`; an in-flight entry and a
computed value are identified with the call that owns them.  Computations return
a value or nothing, or panic.  `InsertMany` covers `insert`.  `SingleFlightCache` is
the same cache without its mechanism: a call hits, starts a closure when its key has
no value and no closure runs for it, or follows another call that is under way, and
a closure fails or succeeds in one step.  The mapping is by place (`PhaseOf`): a call
is open until it computes, runs until its value is stored and is decided from then
until it has woken its waiters; `leader` is `waitsOn`.

### InterpreterCache
A binary's version stands for its mtime and ctime and for what it prints.  Links
have the stamps of their target.  Calls hold the mutex of the entry from `get` to
`store`, as the code does.  Several paths may share a
cache file (16 hex digits name it).  `epoch` counts the clears of a process's table;
a kill loses all of the process's memory and a restart repeats its requests.

The mutexes are those of a process, so that two servers (or two entries of one, after
a clear or for two paths with one file name) may have the same cache file open.
`File::create` truncates it, and `to_writer_pretty` then writes token by token without
a buffer.  The content of a file is a function from its `NumWrites` parts to the
details that were written there last, `Torn` where nothing is written yet, and
`WriteFile` writes one part at the writer's own position.  A file with a torn part does
not parse.  One in which several calls wrote may: it then gives each field of the
details as the part that holds it has it (`WriteOf`, `Deserialized`).  `mixed` is a
history variable that remembers which details came out of such a file.  Parts keep
their places, which over-approximates the code: there the fields of two calls must
have the same lengths for the result to parse, as those of two versions of one
interpreter often have.

### Search
What is on the machine (what locators find and claim, which directories hold
Pythons) is given by constants; the control of `find.rs` is kept: which phases and
locators run for which request (`build_refresh_config`, categories), thread per
locator or directory, preferred paths and subdirectories of a workspace in order,
first matching locator, spawn as last resort, manager before environment, read
lock then write lock in `CacheReporter`, generation guard, kind filter, scoped
joins with their panics, poisoned tables.  A sequence of work items stands for the
rest of a thread's program: an executable to identify (`None` where the code finds
no executable in a directory and goes on), a manager to report or an environment to
report.

### CondaDiscovery
The transient locator of a refresh (find's workers and the other phases' calls of
`try_from`), the shared locator (resolve requests), the details cache both use and
the sync between them.  `meta` and `history` count the changes of `conda-meta` and
`conda-meta/history`; a fingerprint is a pair of counts and so are details: a
change that leaves both modification time and length as they were is not
modelled.  LocatorCache operations are atomic here (section LocatorCache is about
them), and so are `clear` of the three maps and the insert-and-report of one
environment.

### Machines: FileSystem to CondaFiles
A machine is a record: operating system, disk (path to directory, file or link),
environment variables, registry, proper spelling of names.  A path is the sequence
of its components.  Parsing is input: the contents of a file is the record of what
the parser would give, or `None` when it does not parse; `pyvenv.cfg` keeps its
lines, because their order decides.  The contents of an executable is what Python
prints when it runs.  One operator stands for one function of the code, with its
name; early returns are conjuncts of the guard and fall-backs are alternatives in
the order of the code.  Glob expansion, the search for `conda-meta` upwards,
chains of links and `.condarc` merging are written out; sequences where the code
depends on the order (directories tried for a version, locators asked), sets where
it does not.

### Identification
`LocatorOrder` is `create_locators` for each platform, `Identify` asks each
locator's `try_from`, then runs Python, then gives the unknown kind.  `Reports` is
what a search of everything reports: every locator's find and every executable of
PATH, of global virtual environments, of the workspaces and configured directories.
`ResolveEnvironment` is a resolve request and `Inaccuracies` the comparison that
telemetry makes after it.

### Locators
Two graphs of locators, the shared one and that of a refresh.  A thread of
`find`, of the path search (`probe`) or of a resolve request walks the locators in
order; the stateful ones look at their cache, search without a lock and write, as
separate steps.  Hatch re-checks its generation and starts over; the registry keeps
a walk only if it was complete and first; Poetry and the Store write
unconditionally.  `Configure` tells the shared locators one by one and publishes;
the sync of a refresh goes locator by locator within its scope and only if the
configuration has not changed.  `ChangeMachine` is an installation, upgrade or
removal at any moment.  Conda's caches are atomic here; `CondaDiscovery` is about
them.

## 3. Runs

Every passing run also checks for deadlock.

| Run | Bounds | Shows |
|---|---|---|
| `coordinator_liveness` | 3 requests, 1 option set, 2 generations | every request is answered while the client reads; the coordinator becomes idle again; `RefreshService` is implemented |
| `missing_env` | 3 follow-ups, 3 generations | one worker per generation; claims are kept while current, and are settled |
| `server_safety` | 3 requests, 2 option sets, 2 generations, symmetry | runs never overlap; no request lost, answered twice or by a run with another key; no panic under the mutex; follow-ups only of answered runs |
| `refresh_server_report_again` | 2 requests, 2 generations | **violated**, finding 1 |
| `configuration` | 2 configures, 2 refreshes, 1 find, 2 locators, 1 reporting thread each | a refresh that waited is current; a refresh with an old snapshot syncs nothing; see the hazards of `jsonrpc.rs` 376-857; also that every configure is answered |
| `locator_cache` | 3 calls, 1 key | `SingleFlightCache` is implemented: one closure at a time for a key and none in vain, waiters fare as an owner under way; no blocked key, no lost wake-up, every call returns |
| `interpreter_safety` | 2 calls, 2 servers, 3 paths in one cache file, a file of 2 parts, 2 events (upgrades, removals, clears, kills), symmetry of the servers | no foreign answer but from a file that two calls wrote at once; stale only by the race of finding 2 or from such a file |
| `interpreter_stale` | the same | **violated**, finding 2 |
| `search` | 3 searches on one machine, 2 locators, one panicking thread, one reconfiguration, client may go | environments reported once and after their manager; completed phases are complete; nothing after the end; the search ends |
| `conda` | 1 environment, a worker of find, a path thread, a resolve request, 2 changes | details belong to their fingerprint and are fresh; skipped is reported |
| `conda_mamba` | the same | **violated**, finding 3 |
| `locators` | 1090 machines at rest (up to 3 things beside a base system, of 3 platforms) and 9 busy ones, each with 2 states, up to 2 configures, a refresh and one or two resolves | every reported path resolves to the same environment; discovery agrees with the interpreter; `conda info` knows nothing more; one report per registry walk; Hatch's entries are current; a sync is not undone; every call returns |

Why the bounds are enough to be interesting: three requests are the least with
which one runs, one joins and one waits; a reconfiguration makes a request
re-read its key; three follow-ups over three generations contain an old
worker, an old claimant and a current one; two configures allow one to fail
between another's phases; three calls on a key are owner, waiter and the one that
arrives between store and removal; two changes by Conda are one between
fingerprint and read and one after; two refreshes are one that registers late with an
old snapshot and one that has synced under a newer configuration; two parts of a file,
the executable with what it printed and the symlinks with the times, are the least in
which old details meet new times, and one executable the symlinks of another.  Keys, environments and locators do not
interact with others of their kind, so one or two stand for all.  `MaxGeneration`,
`MaxReporters`, `MaxEvents` and `MaxChanges` bound counters in the guards.  The
safety of the coordinator is checked in its composition with the slot, with one
reconfiguration; `SingleFlight`, `AnsweredOnce`, `AnsweredByMatchingRun`, `NoRequestLost`
and `NoLostWakeup` are proved for any number of both.

In `locators` a thing is an environment or installation with its files (a venv, a
uv project, a Poetry, Hatch or Pipenv project, an upgraded system Python, pyenv, a
Conda install with its `.condarc`, Homebrew, Xcode, the command line tools,
python.org, a registry key, a Store package, WinPython, ...).  Two locators can only
confuse an environment if both see their marks near it, so pairs and triples show
what an arrangement of more would.  `MaxLinks` and `MaxBraceExpansions` bound the
length of a chain of links and the braces of a pattern (the code stops at its own
limits).

Five of its properties have exceptions, each stated in the formula:
* `IdentifiedByEveryPath` leaves out the Python of the macOS command line tools,
  whose key depends on the path that was asked for;
* `DiscoveryMatchesInterpreter` lets Uv, Hatch and pyenv virtual environments differ
  in the version, which they take from a `pyvenv.cfg` that an upgrade does not touch;
* `RegistryReportedOnce` has a find out of the scope of its refresh report nothing;
* `SyncedCachesAreLatest` (a shared locator remembers what a search would find) is
  about locators with which the refresh found something, on a machine and under a
  configuration that have not changed since it began; it excepts Poetry and the Store when a resolve was searching
  during the sync;
* `CondaInfoListsNothingMore` excepts environments in directories
  that only the `.condarc` of an install names.

### Fairness
Weak fairness of each thread's own steps: the operating system runs runnable
threads.  Nothing is assumed of clients, of changes on disk, of panics or of
spurious wake-ups.  A step that runs foreign code (the search, a closure, a
locator) is assumed to end in one of its outcomes; the code has a time limit on
spawned Pythons, and for the rest this is an assumption.  For
`EveryRequestAnswered` the number of requests is finite: the condition variable
has no queue, so an endless stream of newcomers may overtake a waiter for ever.
In `Locators` something happens as long as anything is left to do, which is less
than fairness of each thread, and enough for `EveryLocatorCallReturns`.

## 4. Findings

1. *Missing environments are not reported again.*  The comment at
   `jsonrpc.rs:829` says that configure resets the reporting "so that the next
   refresh after reconfiguration can trigger it again".  A worker that passed its
   last generation check (1161) completes with a compare-exchange from its
   generation.  If configure published and reset in between and another follow-up
   of the old generation, which had read everything before, claimed the slot with
   that same value, the exchange succeeds and the slot stays completed under the
   new generation.
2. *Details of a replaced executable.*  `env.rs:78` promises cached details only if
   no time has changed since the spawn.  `store` (`cache.rs:216`) reads the times
   after the spawn, so an upgrade in between is recorded as what the old details
   belong to.  `StaleOnlyByRace` shows that the only other way to a stale answer is a
   file in which two calls wrote at the same time (see below).
3. *Mamba beside Conda.*  The test at `crates/pet-conda/tests/ci_test.rs:340`
   expects both managers.  A worker of `find` returns at `lib.rs:482` if another
   phase inserted the environment first, before it looks for mamba.
4. *The `.condarc` of an install.*  `crates/pet-conda/README.md:10` says that the
   environments found include "locations in `.condarc` file(s)".  For the file in a
   Conda install `get_environments` (`environment_locations.rs:248-251`) returns the
   directories it names as if they were environments and does not look into them.
   `CondaInfoListsNothingMore` states this as its exception; with `event.missing = {}`
   in its place the run `locators` ends at a machine with such an install.

Smaller observations.  Two calls that write one cache file at the same time, of two
servers or after a clear, can leave a file that parses, with the details of the one and
the times of the other: an answer from it can be stale for good, or, if two names
collide, about another executable (`fs_cache.rs:105-108`; TLC reaches both, and the
properties of `interpreter_safety` except them).  With no run: a removed symlink counts as unchanged in memory and
as invalid in the file check; `JSONRPC.md:363` calls `clear` a no-op without a cache
directory while it does empty the table; ids are truncated to 32 bits and string
ids are treated as notifications in `pet-jsonrpc/src/server.rs`; the reading loop
goes on for ever at the end of stdin; `wait_with_output` has no limit once the child
has exited; output of Python that is not UTF-8 panics under the entry's mutex; a
`clear` of a LocatorCache does not stop a computation under way; a resolve that
read an environment before a full sync may put it back after it; duplicates are
removed before the kind filter, so that an environment identified under another
kind first is not reported under the requested one; Conda's fingerprint does not
cover the existence of the install directory.

Of the locators: the executable (and so the key) of a command line tools Python
depends on the path it is asked with (`pet-mac-commandlinetools/src/lib.rs`); a
Poetry or Store search of a resolve request writes its result over what a refresh
synced meanwhile (`pet-poetry/src/lib.rs:229`; no text of the repository rules this out);
the Linux global locator's table is never cleared in the
shared graph, so an upgraded system Python keeps its old version there; Poetry's
config (`config.rs:90-97`) loses `virtualenvs.in-project` of one file when the other
exists; uv's link in `~/.local/bin` is
reported a second time as a global Python; a Store package folder without a version
ends the listing; a registry walk that lost a company to a panic is dropped, so that
an older walk of a resolve request is the one that is kept.

## 5. Proofs

Checked by TLAPS for all values of the constants that satisfy the named
assumptions (constants that mark "none" differ from proper values; bounds are
natural numbers).  In each module `IInv` is the inductive invariant; there is a
lemma per action, and the theorems follow from `Spec => []IInv`.

* `RefreshServer_proofs`, in three parts.  The coordinator: types, single flight with
  unreachable panics, answered once, answered by a matching run, no request lost, no
  wake-up lost, distinct ids.  Single flight alone is not inductive: `Ownership` ties
  the state to the one thread whose program counter says it owns it, and the freshness
  conjuncts say that a refresh id or key is not used before it is given out.
  The refinement of `RefreshService` by the coordinator: initial states map to initial
  states; each step is a step of the service or a stutter.  The outcome of a run maps to
  the result of the owning thread, which single flight makes unique.  The composition:
  a step of the server is a step of the coordinator, or leaves it alone
  (`ServerIsCoordinator`), so that the coordinator's safety and the service hold of the
  server; and seen through slot, generation and follow-ups it is a step of
  `MissingEnvReporting` (`ServerIsReporting`), so that one worker per generation holds of
  it too.  Neither component alone can say that a follow-up comes after the answers:
  `ServerInv` does.  `SentOwnResult` is the part that is not obvious: the own id of a run
  is among the pending or drained ids until it has been sent the run's result, through
  however many rounds of draining.
* `MissingEnvReporting_proofs`: one worker per generation, claims have owners and
  are kept while current.  `CurrentClaimHoldsSlot` carries the argument.
* `Configuration_proofs`: no stale notification, locators match the configuration
  and failures leave no trace, generations are consecutive, refreshes that waited are
  current, syncs move forward whatever the age of the snapshots.
  `SnapshotIsCurrent` (what phase A read is true in phase C, because of the mutex),
  `LocatorsFollowLoops`, `ReadersAreCurrent` and `RefreshesKeepUp` (a snapshot is not
  older than the wait before it; the locators behind a sync are up to date) are the
  strengthening.  That refreshes do not overlap is not needed for the sync: two that
  hold the read lock have the same generation.
* `LocatorCache_proofs`: single flight, no blocked key, returned values were cached.
  `OwnersAreInFlight` with `EntriesHaveOwners` equates the in-flight map with the
  program counters.  Then `CacheRefinement`: every step is a step of `SingleFlightCache`
  or is not seen.  A claim that finds an entry is a `Follow`, and its owner is under way
  because entries have owners; a second look that finds nothing is a `Start`, allowed
  because two owners of a key would be the same entry; a waiter that wakes is a `Share`,
  because an entry holds what its owner is going to return (`EntriesHoldResults`).
* `InterpreterCache_proofs`: a foreign answer only from a file that two calls wrote at
  once, and a stale answer only from such a file or by the race of
  finding 2, for any number of parts of a file and any cut of it.  Both speak of the answer of a call; the strengthening says the same of
  every place an answer passes through: the table of each server, every part of the
  files, what a call has read and what it is about to write.  For
  staleness each of them either is in `raced` or `mixed` or is `Backed`: among the times kept
  with it are those of the executable that printed it.  Versions only grow, so times
  that match mean the same file.  `Proper` says that all symlinks of an answer lead
  to its binary, which is what makes a colliding cache file harmless.  A file whose parts
  all come from one call reads as what that call wrote, so that the exceptions do not
  spread to it.
* `CondaDiscovery_proofs`: details belong to their fingerprint, are not older than the
  call, and what is skipped is reported.  Details are kept only if the fingerprint
  before and after the read agree; as counts never decrease, that pins the state
  between the two reads.  The invariant carries, for each thread at each of its steps,
  that start, first fingerprint, details and second fingerprint followed each other
  and lie in the past; the awkward case is a fingerprint taken while `conda-meta` was
  missing (`AfterIsLast`).  For the last: what the transient locator knows has been
  reported (`KnownIsReported`), so a worker that finds an environment there may skip it.
* `Search_proofs`: reported once, manager before environment, completed phases are
  reported, nothing after the end, for any locators, directories, files and searches.
  "Reported once" needs the look under the write lock to agree with what was sent
  (`SentIsReported`).  "Manager first" is an invariant of each thread's remaining
  program against the table of managers (`ManagersComeFirst`) and needs lemmas on
  head, tail and concatenation of work.  "Completed" needs that nothing is dropped: each
  discovery of a phase is in the program of a living thread, or accounted for in the
  table (`NothingIsDropped`), that a key in the table was sent or was of another
  kind (`ReportedIsAccounted`), and that a phase completes after its threads
  (`ThreadsAreJoined`).
* `Locators_proofs`: one report per registry walk, Hatch's entries are current, and a
  sync hands over the latest, for any machines, changes, configures, refreshes and
  resolves, whatever the locators compute (what `HatchWorkspaceEntry` and `Compute` give
  is never looked into).  The three are about caches; between two steps a thread holds
  what it is going to write into them, so the strengthening says of every thread at
  every step where it is in the refresh (`Placed`), which locator it asks (`Asks`), what
  it has reported (`ReportsOnce`), that an entry of Hatch read without the lock is
  current if the generation still is (`HoldsEntry`), and that a result about to be
  written is what a search found since the refresh began (`HoldsResult`).  Of the caches:
  what the refresh's locators remember was found in it (`TransientIsFound`), and what was
  handed over stays (`HandedIsKept`): for good where a locator keeps the first complete
  result; for Poetry and the Store only as long as nothing changed and no thread that
  searched before the handover writes after it (`overtaken`, `late`).  That a thread only
  asks locators of the machine's platform needs the order of the locators and the
  position of the thread in it.

Assumptions beside "none differs from proper values" and bounds in `Nat`:
`InterpreterAssumption` types the maps between paths, binaries and cache files, and
`CondaAssumption` those between prefixes.  `Search` assumes that the given functions
have their types, that the executables of a search are finitely many, and of the
locators that `find` reports a manager before an environment of it, as those of Conda,
pyenv, Poetry, Pipenv and the registry do, and that a broken venv has no manager
(`pet/src/find.rs` builds it without one).  The last two are what
`ManagersAreReportedFirst` rests on.  `Locators` assumes that a server stays on one
operating system and that the locators that find are locators of it (`MachineAssumption`;
`create_locators` is compiled per platform), that a configure request results in a
configuration and that the options of a refresh have their two fields
(`RequestAssumption`).  Each is evaluated by the run of its module.

The type invariants, and the ownership facts `ClaimHasOwner` and `WaitersAreWoken`, are
conjuncts of `IInv` and proved; the runs check what follows from them.  `IInv` itself
was checked by TLC on the instance of each run before it was proved.

Only model-checked:
* all liveness (`EveryRequestAnswered`, `CoordinatorReturnsToIdle`, `ClaimIsSettled`,
  `EveryConfigureAnswered`, `EveryCallReturns`, `SearchEnds`,
  `EveryLocatorCallReturns`) and deadlock freedom: the prover has neither fairness
  nor `ENABLED`;
* `IdentifiedByEveryPath`, `DiscoveryMatchesInterpreter` and
  `CondaInfoListsNothingMore`: they are about concrete machines and do not hold of
  arbitrary ones (files can be arranged so that two locators disagree), so that there
  is no theorem to prove, only machines to check;
* what the recursive definitions and folds compute (globs, chains of links, parents of a
  path).  Induction over naturals is possible where its hypothesis can be written as a
  set of numbers (`LeastNumber` in `Search_proofs` and `Locators_proofs`, from the
  library's well-foundedness, gives the first locator that claims an executable or has
  a cache); over paths and chains of links it has not been done.

## 6. Not modelled

* JSON-RPC framing and dispatch (`pet-jsonrpc`), the command line and its summary
  (`pet/src/lib.rs`, `main.rs`, `pet-reporter/src/stdio.rs`): byte streams and text.
* Text: parsing of TOML, YAML, JSON and of version strings; prefixes such as
  `\\?\` of Windows paths; a machine's files hold what the parsers give.
* `environment_locations_spawn.rs` and `telemetry.rs` of Poetry, which run poetry to
  compare and only feed telemetry; the event types of `pet-core/src/telemetry`.
* The memo table of `norm_case`; sorting and printing of environments.
* A directory's listing is read in one step; a directory that changes while it is
  listed is not modelled, except by `ChangeMachine` between two steps of a thread.
* Pipes held open by grandchildren of a spawned Python.

## 7. Plan

Done: coordinator and its service, slot, composition, configuration, single-flight
cache, interpreter cache, search, Conda; then files, the locators, identification,
resolve, and the locators' own state with configure and sync.

Proofs cover the coordinator and its service, the composed server, the slot, the
configuration, the single-flight cache and its specification, the interpreter cache,
Conda's discovery, the search and the locators' state: every property of a passing run
but the liveness properties and the three about concrete machines.

Next:
1. Lemmas about `FileSystem`: normalised paths are fixed points, resolved links exist.
2. `Search` with `MissingEnvReporting`'s reporter: what a follow-up reports beside a
   search of the next refresh.
3. JSON-RPC: the reading loop, its handlers and the end of stdin.
