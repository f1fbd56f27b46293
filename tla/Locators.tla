------------------------------- MODULE Locators -------------------------------
(***************************************************************************)
(* The locators at work: threads that ask them, the results they remember,   *)
(* and how a refresh hands over what it found.                               *)
(*                                                                         *)
(* There are two locator graphs.  The shared one lives as long as the server *)
(* and answers resolve requests; a refresh builds a transient one, searches  *)
(* with it and copies some of its results into the shared one                *)
(* (crates/pet/src/jsonrpc.rs).  A thread either finds with one locator or    *)
(* identifies one executable with all of them in turn.  Where a locator      *)
(* looks at its cache, searches without a lock and then writes, these are    *)
(* steps of their own.                                                       *)
(*                                                                         *)
(* Scenarios maps names to scenarios.  A scenario is a machine and what      *)
(* happens on it: its states one after the other (machines), the             *)
(* configurations that are sent, the paths that are resolved, the options of *)
(* a refresh (None: there is no refresh), the locators that find and the     *)
(* executables that are probed in it, and the companies whose keys of the    *)
(* registry may make their thread panic.                                     *)
(***************************************************************************)
EXTENDS Identification

CONSTANT Scenarios

VARIABLES
  scenario,      \* its name
  now,           \* the current state of the machine
  published,     \* the configuration: its generation and what it says
  next,          \* the one that a configure request brings, or None
  configuring,   \* shared locators that still have to be told of it
  input,         \* Poetry's configuration, by graph
  hatch,         \* Hatch's state, by graph
  caches,        \* what the other locators remember, by graph
  thread,        \* the threads
  refresh,       \* the refresh
  reports,       \* what a search of everything has reported, or None
  told,          \* history: the state of the machine when Hatch was configured
  overtaken,     \* history: threads that held a result while a refresh synced
  late           \* history: locators such a thread has written to since

configurationVars == <<published, next, configuring, input, told>>
vars == <<scenario, now, configurationVars, hatch, caches, thread, refresh, reports, overtaken, late>>

The == Scenarios[scenario]
Current == The.machines[now]
Graphs == {"shared", "transient"}
Synced == {"WindowsStore", "WindowsRegistry", "WinPython", "Poetry"}
Remembering == StatefulLocators \ {"Hatch"}
WindowsLocators == {"WindowsStore", "WindowsRegistry", "WinPython"}

(* The locators of Synced, in the order of create_locators.                  *)
SyncOrder(m) ==
  (IF Windows(m) THEN <<"WindowsStore", "WindowsRegistry", "WinPython">> ELSE <<>>) \o <<"Poetry">>

(* What try_from makes of an executable without a look at the cache.         *)
Empty ==
  [locator \in StatefulLocators |->
     CASE locator \in {"WindowsStore", "WinPython"} -> {}
       [] locator = "WindowsRegistry" -> [environments |-> {}, condaDirs |-> {}, hadPanic |-> FALSE]
       [] locator = "PyEnv" -> [manager |-> None, versions |-> None]
       [] locator = "Poetry" -> [managers |-> {}, environments |-> {}]
       [] OTHER -> Nothing]

NewCaches == [locator \in Remembering |-> IF locator = "LinuxGlobal" THEN Nothing ELSE None]

-----------------------------------------------------------------------------
(* handle_configure: directories that the patterns match.                    *)
ExpandConfigureDirectoryPatterns(m, patterns) ==
  {p \in ExpandGlobPatterns(m, patterns) : IsDirectory(m, p)}

ConfigureOptions(m, options) ==
  [options EXCEPT !.workspaces = ExpandConfigureDirectoryPatterns(m, @),
                  !.environmentDirectories = ExpandConfigureDirectoryPatterns(m, @)]

CanonicalizeRefreshOptions(m, options) ==
  [options EXCEPT !.paths = IF @ = None THEN None
                            ELSE {NormCase(m, p) : p \in ExpandGlobPatterns(m, @)}]

(* build_refresh_config: search paths take the place of the workspaces.      *)
BuildRefreshConfig(m, options, config) ==
  IF options.paths = None THEN config
  ELSE [config EXCEPT !.workspaces = {p \in options.paths : IsDirectory(m, p)},
                      !.executables = {p \in options.paths : IsFile(m, p)}]

(* refresh_state_sync_scope                                                  *)
SyncScope(options) ==
  CASE options.paths # None -> "Workspace"
    [] options.paths = None /\ options.kind # None -> options.kind
    [] OTHER -> "Full"

(* supported_categories, of the locators with a cache.                       *)
SupportedCategories(locator) ==
  CASE locator = "WindowsRegistry" -> {"WindowsRegistry", "Conda"}
    [] locator = "PyEnv" -> {"Pyenv", "PyenvVirtualEnv", "Conda"}
    [] OTHER -> {locator}

Covers(scope, locator) == scope = "Full" \/ scope \in SupportedCategories(locator)

HatchConfigured(state, config) ==
  [generation |-> state.generation + 1, workspaces |-> config.workspaces, parsed |-> Nothing]
NewHatch == [generation |-> 0, workspaces |-> {}, parsed |-> Nothing]

NewThread ==
  [pc |-> "idle", position |-> 0, e |-> None, resolved |-> None, held |-> None, walked |-> FALSE,
   todo |-> {}, entries |-> Nothing, generation |-> 0, answer |-> None, reported |-> <<>>]

Threads(s) ==
  {<<"resolve", p>> : p \in s.resolves}
    \cup (IF s.refresh = None THEN {}
          ELSE {<<"find", locator>> : locator \in s.finders} \cup {<<"probe", p>> : p \in s.probes})

(* A server stays on its operating system, and the locators that find there  *)
(* are locators of it.                                                       *)
ASSUME MachineAssumption ==
  \A name \in DOMAIN Scenarios : LET s == Scenarios[name] IN
    /\ Len(s.machines) \in Nat \ {0}
    /\ \A i, j \in 1..Len(s.machines) : s.machines[i].os = s.machines[j].os
    /\ s.finders \subseteq StatefulLocators
    /\ s.finders \cap WindowsLocators # {} => Windows(s.machines[1])
ASSUME RequestAssumption ==
  \A name \in DOMAIN Scenarios : LET s == Scenarios[name] IN
    /\ Len(s.configurations) \in Nat
    /\ \A i \in 1..Len(s.machines), j \in 1..Len(s.configurations) :
         ConfigureOptions(s.machines[i], s.configurations[j]) # None
    /\ s.refresh # None => DOMAIN s.refresh = {"kind", "paths"}

(* The server has been configured once.                                      *)
Init ==
  /\ scenario \in DOMAIN Scenarios
  /\ now = 1
  /\ published = [generation |-> 1,
                  config |-> ConfigureOptions(The.machines[1], The.configurations[1])]
  /\ next = None /\ configuring = <<>>
  /\ input = [g \in Graphs |-> published.config]
  /\ hatch = [g \in Graphs |-> HatchConfigured(NewHatch, published.config)]
  /\ caches = [g \in Graphs |-> NewCaches]
  /\ thread = [t \in Threads(The) |-> NewThread]
  /\ refresh = [phase |-> "none", generation |-> 0, since |-> 0, sync |-> <<>>, merging |-> None]
  /\ reports = None /\ told = 1 /\ overtaken = {} /\ late = {}

-----------------------------------------------------------------------------
(* The machine changes under the server.                                     *)
ChangeMachine ==
  /\ now < Len(The.machines)
  /\ now' = now + 1
  /\ UNCHANGED <<scenario, configurationVars, hatch, caches, thread, refresh, overtaken, late, reports>>

(* apply_configure_options: the shared locators are told one by one without  *)
(* a lock; the write lock at the end waits for a refresh that syncs.         *)
ReceiveConfigure ==
  /\ next = None
  /\ published.generation < Len(The.configurations)
  /\ next' = ConfigureOptions(Current, The.configurations[published.generation + 1])
  /\ configuring' = <<"Poetry", "Hatch">>
  /\ UNCHANGED <<scenario, now, published, input, told, hatch, caches, thread, refresh, overtaken, late, reports>>

(* Poetry keeps what it has found.                                           *)
ConfigurePoetry ==
  /\ configuring # <<>> /\ Head(configuring) = "Poetry"
  /\ input' = [input EXCEPT !["shared"] = next]
  /\ configuring' = Tail(configuring)
  /\ UNCHANGED <<scenario, now, published, next, told, hatch, caches, thread, refresh, overtaken, late, reports>>

ConfigureHatch ==
  /\ configuring # <<>> /\ Head(configuring) = "Hatch"
  /\ hatch' = [hatch EXCEPT !["shared"] = HatchConfigured(@, next)]
  /\ told' = now
  /\ configuring' = Tail(configuring)
  /\ UNCHANGED <<scenario, now, published, next, input, caches, thread, refresh, overtaken, late, reports>>

Publish ==
  /\ next # None /\ configuring = <<>>
  /\ refresh.phase # "syncing"
  /\ published' = [generation |-> published.generation + 1, config |-> next]
  /\ next' = None
  /\ UNCHANGED <<scenario, now, configuring, input, told, hatch, caches, thread, refresh, overtaken, late, reports>>

Configure == ReceiveConfigure \/ ConfigurePoetry \/ ConfigureHatch \/ Publish

-----------------------------------------------------------------------------
(* Threads.                                                                  *)
GraphOf(t) == IF t[1] = "resolve" THEN "shared" ELSE "transient"
Finds(t) == t[1] = "find"
Asking(t, th) == IF Finds(t) THEN t[2] ELSE LocatorOrder(Current)[th.position]
LocatorAt(t) == Asking(t, thread[t])
At(t, pc) == thread[t].pc = pc
Cached(t) == caches[GraphOf(t)][LocatorAt(t)]

(* The locators that look at their cache for e; try_from of the others needs *)
(* none.                                                                     *)
LooksAtCache(m, e, locator) ==
  CASE locator = "WindowsStore" -> ~IsVirtualEnv(m, e)
    [] locator = "WindowsRegistry" -> ~IsVirtualEnv(m, e) /\ ~(e.prefix # None /\ IsCondaEnv(m, e.prefix))
    [] locator = "PyEnv" -> ~InCondaEnv(m, e)
    [] locator = "Poetry" -> IsVirtualEnv(m, e)
    [] locator = "Hatch" ->
         ~MatchesDefaultStorageLayout(m, IF e.prefix # None THEN e.prefix ELSE Parent(Parent(e.executable)))
    [] locator = "LinuxGlobal" -> ~IsVirtualEnv(m, e) /\ e.version # None
    [] OTHER -> FALSE

Uncached(m, e, locator) ==
  TryFrom(m, locator, e, IF locator \in StatefulLocators THEN Empty[locator] ELSE None)

(* The next locator that knows the executable, or has to look whether it     *)
(* does; one past the last if there is none.                                 *)
NextToAsk(m, e, position) ==
  LET order == LocatorOrder(m)
  IN  Min({i \in (position + 1)..Len(order) :
             LooksAtCache(m, e, order[i]) \/ Uncached(m, e, order[i]) # None} \cup {Len(order) + 1})

Begin(t) ==
  /\ At(t, "idle")
  /\ t[1] # "resolve" => refresh.phase = "searching"
  /\ thread' = [thread EXCEPT ![t] =
       IF Finds(t) THEN [@ EXCEPT !.pc = "clear", !.todo = hatch["transient"].workspaces]
       ELSE [@ EXCEPT !.pc = "next", !.e = PythonEnv(Current, ExecutableToResolve(Current, t[2]), None, None)]]
  /\ UNCHANGED <<scenario, now, configurationVars, hatch, caches, refresh, overtaken, late, reports>>

(* When all have been asked the executable is run, and they are asked again  *)
(* about what it says of itself.                                             *)
AfterTheLast(th, resolved) ==
  CASE th.resolved # None ->
         [th EXCEPT !.pc = "done", !.answer = CreateUnknownEnv(Current, th.e.executable, th.resolved,
                                                SearchPathsFromEnvVariables(Current))]
    [] th.resolved = None /\ resolved = None -> [th EXCEPT !.pc = "done"]
    [] OTHER -> [th EXCEPT !.position = 0, !.resolved = resolved, !.e = ToPythonEnv(Current, resolved)]

Ask(th, i, state) ==
  LET locator == LocatorOrder(Current)[i]
  IN  IF LooksAtCache(Current, th.e, locator)
        THEN [th EXCEPT !.pc = "look", !.position = i, !.entries = Nothing, !.todo = state.workspaces]
        ELSE [th EXCEPT !.pc = "use", !.position = i,
                        !.held = IF locator \in StatefulLocators THEN Empty[locator] ELSE None]

Continue(t) ==
  /\ At(t, "next")
  /\ \E i \in {NextToAsk(Current, thread[t].e, thread[t].position)} :
       thread' = [thread EXCEPT ![t] =
         IF i > Len(LocatorOrder(Current)) THEN AfterTheLast(@, Spawn(Current, @.e.executable))
         ELSE Ask(@, i, hatch[GraphOf(t)])]
  /\ UNCHANGED <<scenario, now, configurationVars, hatch, caches, refresh, overtaken, late, reports>>

(* What a thread does with the result of its locator: it reports it, or goes *)
(* on if that does not know the executable.                                  *)
Holding(t, found) == [thread[t] EXCEPT !.pc = "use", !.held = found]

Answered(th, env) ==
  [th EXCEPT !.pc = IF env # None THEN "done" ELSE "next", !.answer = env, !.held = None]

Reporting(t) ==
  [thread[t] EXCEPT !.pc = "done", !.held = None, !.reported = Append(@, thread[t].held)]

Use(t) ==
  /\ At(t, "use")
  /\ thread' = [thread EXCEPT ![t] =
       IF Finds(t) THEN Reporting(t)
       ELSE Answered(@, TryFrom(Current, LocatorAt(t), @.e, @.held))]
  /\ UNCHANGED <<scenario, now, configurationVars, hatch, caches, refresh, overtaken, late, reports>>

(* find clears what is there; WindowsRegistry does not, and Hatch has        *)
(* nothing of the kind.                                                      *)
ClearsBeforeFind(locator) == locator \notin {"WindowsRegistry", "Hatch"}

Clear(t) ==
  /\ At(t, "clear")
  /\ caches' = IF ClearsBeforeFind(t[2]) THEN [caches EXCEPT !["transient"][t[2]] = NewCaches[t[2]]] ELSE caches
  /\ thread' = [thread EXCEPT ![t].pc = "look"]
  /\ UNCHANGED <<scenario, now, configurationVars, hatch, refresh, overtaken, late, reports>>

(* find_with_cache of Poetry, WindowsStore, WinPython and WindowsRegistry:   *)
(* look, search, write.                                                      *)
LookAtCache(t) ==
  /\ At(t, "look") /\ LocatorAt(t) \in Synced
  /\ thread' = [thread EXCEPT ![t] = IF Cached(t) = None THEN [@ EXCEPT !.pc = "search"] ELSE Holding(t, Cached(t))]
  /\ UNCHANGED <<scenario, now, configurationVars, hatch, caches, refresh, overtaken, late, reports>>

Search(t) ==
  /\ At(t, "search") /\ LocatorAt(t) \in Synced \ {"WindowsRegistry"}
  /\ thread' = [thread EXCEPT ![t].pc = "write",
                              ![t].held = Compute(Current, input[GraphOf(t)], LocatorAt(t))]
  /\ UNCHANGED <<scenario, now, configurationVars, hatch, caches, refresh, overtaken, late, reports>>

(* The walk reports to the thread that finds while it goes on.               *)
SearchRegistry(t) ==
  /\ At(t, "search") /\ LocatorAt(t) = "WindowsRegistry"
  /\ \E panicking \in SUBSET (The.panics \cap Companies(Current)) :
       LET walk == RegistryWalk(Current, panicking)
       IN  thread' = [thread EXCEPT ![t].pc = "write", ![t].held = walk, ![t].walked = TRUE,
                                    ![t].reported = IF Finds(t) THEN Append(@, walk) ELSE @]
  /\ UNCHANGED <<scenario, now, configurationVars, hatch, caches, refresh, overtaken, late, reports>>

(* The result replaces whatever has been written since the look.             *)
Write(t) ==
  /\ At(t, "write") /\ LocatorAt(t) \in Synced \ {"WindowsRegistry"}
  /\ caches' = [caches EXCEPT ![GraphOf(t)][LocatorAt(t)] = thread[t].held]
  /\ late' = IF t \in overtaken THEN late \cup {LocatorAt(t)} ELSE late
  /\ thread' = [thread EXCEPT ![t].pc = "use"]
  /\ UNCHANGED <<scenario, now, configurationVars, hatch, refresh, overtaken, reports>>

(* Mutant: the later walk wins.                                              *)
LaterWalkWins(existing, walk) == IF walk.hadPanic THEN existing ELSE walk

(* A walk that lost a company is not remembered, and one that somebody else  *)
(* has written in the meantime stays.                                        *)
RegistryKeeps(existing, walk) ==
  IF walk.hadPanic \/ existing # None THEN existing ELSE walk

(* Mutant: a find reports its own walk a second time.                        *)
ReplayWalk(t, walk) == Holding(t, walk)

(* What has been reported during the walk is not reported again.             *)
UseWalk(t, walk) ==
  IF Finds(t) THEN [thread[t] EXCEPT !.pc = "done", !.held = None] ELSE Holding(t, walk)

WriteRegistry(t) ==
  /\ At(t, "write") /\ LocatorAt(t) = "WindowsRegistry"
  /\ LET kept == RegistryKeeps(Cached(t), thread[t].held)
     IN  /\ caches' = [caches EXCEPT ![GraphOf(t)]["WindowsRegistry"] = kept]
         /\ thread' = [thread EXCEPT ![t] =
              UseWalk(t, IF thread[t].held.hadPanic THEN thread[t].held ELSE kept)]
  /\ UNCHANGED <<scenario, now, configurationVars, hatch, refresh, overtaken, late, reports>>

(* get_manager_versions_dir: under its locks, and again and again as long as *)
(* one of the two is missing.                                                *)
PyenvMemo(memo, info) == IF memo # None /\ memo.manager # None /\ memo.versions # None THEN memo ELSE info

LookForPyenv(t) ==
  /\ At(t, "look") /\ LocatorAt(t) = "PyEnv"
  /\ \E info \in {PyenvMemo(Cached(t), PyenvInfo(Current))} :
       /\ caches' = [caches EXCEPT ![GraphOf(t)]["PyEnv"] = info]
       /\ thread' = [thread EXCEPT ![t] = Holding(t, info)]
  /\ UNCHANGED <<scenario, now, configurationVars, hatch, refresh, overtaken, late, reports>>

(* The cache of LinuxGlobalPython, which only ever grows on a graph.         *)
AskLinux(t) ==
  /\ At(t, "look") /\ LocatorAt(t) = "LinuxGlobal" /\ ~Finds(t)
  /\ \E asked \in {LinuxTryFrom(Current, thread[t].e, Cached(t))} :
       /\ caches' = [caches EXCEPT ![GraphOf(t)]["LinuxGlobal"] = asked.cache]
       /\ thread' = [thread EXCEPT ![t] = Answered(@, asked.env)]
  /\ UNCHANGED <<scenario, now, configurationVars, hatch, refresh, overtaken, late, reports>>

FillLinux(t) ==
  /\ At(t, "look") /\ LocatorAt(t) = "LinuxGlobal" /\ Finds(t)
  /\ \E filled \in {LinuxFindCached(Current, Cached(t))} :
       /\ caches' = [caches EXCEPT !["transient"]["LinuxGlobal"] = filled]
       /\ thread' = [thread EXCEPT ![t] = Holding(t, filled)]
  /\ UNCHANGED <<scenario, now, configurationVars, hatch, refresh, overtaken, late, reports>>

-----------------------------------------------------------------------------
(* Hatch: workspace_entry for one workspace after the other; the files are   *)
(* read without the lock.                                                    *)
NextWorkspace(workspaces) == CHOOSE w \in workspaces : TRUE
Workspace(t) == NextWorkspace(thread[t].todo)

(* try_from stops at the first workspace that owns the environment.          *)
WithWorkspace(th, w, entry) ==
  [th EXCEPT !.todo = @ \ {w}, !.pc = "look", !.held = None,
     !.entries = [v \in DOMAIN @ \cup {w} |-> IF v = w THEN entry ELSE @[v]]]

OwnedBy(th, env) == IF env # None THEN [th EXCEPT !.pc = "done", !.answer = env] ELSE th

Entered(t, th) ==
  IF Finds(t) THEN th ELSE OwnedBy(th, HatchTryFrom(Current, th.e, th.entries))

WithEntry(t, entry) == Entered(t, WithWorkspace(thread[t], Workspace(t), entry))

LookForWorkspace(t) ==
  /\ At(t, "look") /\ LocatorAt(t) = "Hatch" /\ thread[t].todo # {}
  /\ LET state == hatch[GraphOf(t)]
     IN  thread' = [thread EXCEPT ![t] =
           IF Workspace(t) \in DOMAIN state.parsed THEN WithEntry(t, state.parsed[Workspace(t)])
           ELSE [@ EXCEPT !.pc = "search", !.generation = state.generation]]
  /\ UNCHANGED <<scenario, now, configurationVars, hatch, caches, refresh, overtaken, late, reports>>

ParseWorkspace(t) ==
  /\ At(t, "search") /\ LocatorAt(t) = "Hatch"
  /\ thread' = [thread EXCEPT ![t].pc = "write", ![t].held = HatchWorkspaceEntry(Current, Workspace(t))]
  /\ UNCHANGED <<scenario, now, configurationVars, hatch, caches, refresh, overtaken, late, reports>>

(* Mutants: no check of the generation, and one that is always true.         *)
NeverStale(state, generation) == FALSE
AlwaysStale(state, generation) == state.generation >= generation

(* After a configure the files are read again.  The entry of a workspace     *)
(* that is no longer configured is used and not kept.                        *)
EntryIsStale(state, generation) == state.generation # generation
EntryIsKept(state, w) == w \in state.workspaces

WriteWorkspace(t) ==
  LET g == GraphOf(t)
      w == Workspace(t)
      state == hatch[g]
      entry == IF w \in DOMAIN state.parsed THEN state.parsed[w] ELSE thread[t].held
      keep == ~EntryIsStale(state, thread[t].generation) /\ EntryIsKept(state, w)
  IN  /\ At(t, "write") /\ LocatorAt(t) = "Hatch"
      /\ hatch' = IF keep
           THEN [hatch EXCEPT ![g].parsed =
                   [v \in DOMAIN @ \cup {w} |-> IF v = w THEN entry ELSE @[v]]]
           ELSE hatch
      /\ thread' = [thread EXCEPT ![t] =
           IF EntryIsStale(state, thread[t].generation) THEN [@ EXCEPT !.pc = "look"]
           ELSE WithEntry(t, IF keep THEN entry ELSE thread[t].held)]
      /\ UNCHANGED <<scenario, now, configurationVars, caches, refresh, overtaken, late, reports>>

UseWorkspaces(t) ==
  /\ At(t, "look") /\ LocatorAt(t) = "Hatch" /\ thread[t].todo = {}
  /\ thread' = [thread EXCEPT ![t] = Holding(t, thread[t].entries)]
  /\ UNCHANGED <<scenario, now, configurationVars, hatch, caches, refresh, overtaken, late, reports>>

Step(t) ==
  \/ Continue(t) \/ Use(t) \/ Clear(t)
  \/ LookAtCache(t) \/ Search(t) \/ Write(t)
  \/ SearchRegistry(t) \/ WriteRegistry(t)
  \/ LookForPyenv(t) \/ AskLinux(t) \/ FillLinux(t)
  \/ LookForWorkspace(t) \/ ParseWorkspace(t) \/ WriteWorkspace(t) \/ UseWorkspaces(t)

-----------------------------------------------------------------------------
(* A refresh: a graph of its own, with the configuration of the moment; the  *)
(* locators that do not find in its scope keep still.                        *)
StartRefresh ==
  /\ The.refresh # None /\ refresh.phase = "none"
  /\ LET config == BuildRefreshConfig(Current, CanonicalizeRefreshOptions(Current, The.refresh),
                                      published.config)
         scope == SyncScope(The.refresh)
     IN  /\ input' = [input EXCEPT !["transient"] = config]
         /\ hatch' = [hatch EXCEPT !["transient"] = HatchConfigured(NewHatch, config)]
         /\ caches' = [caches EXCEPT !["transient"] = NewCaches]
         /\ thread' = [t \in DOMAIN thread |->
              IF Finds(t) /\ ~Covers(scope, t[2]) THEN [thread[t] EXCEPT !.pc = "done"] ELSE thread[t]]
         /\ refresh' = [refresh EXCEPT !.phase = "searching", !.generation = published.generation,
                                       !.since = now]
  /\ UNCHANGED <<scenario, now, published, next, configuring, told, overtaken, late, reports>>

(* sync_refresh_locator_state_if_current: once all threads have come back.   *)
BeginSync ==
  /\ refresh.phase = "searching"
  /\ \A t \in DOMAIN thread : GraphOf(t) = "transient" => At(t, "done")
  /\ refresh' = IF refresh.generation # published.generation THEN [refresh EXCEPT !.phase = "skipped"]
                ELSE [refresh EXCEPT !.phase = "syncing",
                                         !.sync = SyncOrder(Current)]
  /\ UNCHANGED <<scenario, now, configurationVars, hatch, caches, thread, overtaken, late, reports>>

(* sync_refresh_locator_state: locator by locator.  Only Poetry takes part   *)
(* when search paths were given: it reads what it has and writes the union.  *)
SyncLocator ==
  /\ refresh.phase = "syncing" /\ refresh.sync # <<>>
  /\ LET locator == Head(refresh.sync)
         replaces == Covers(SyncScope(The.refresh), locator)
         merges == SyncScope(The.refresh) = "Workspace" /\ locator = "Poetry"
                     /\ caches["transient"]["Poetry"] # None
     IN  IF merges /\ refresh.merging = None
           THEN /\ refresh' = [refresh EXCEPT !.merging =
                     MergeSearchResults(caches["shared"]["Poetry"], caches["transient"]["Poetry"])]
                /\ UNCHANGED <<caches, overtaken, late>>
           ELSE /\ caches' = [caches EXCEPT !["shared"][locator] =
                     CASE merges -> refresh.merging
                       [] replaces -> caches["transient"][locator]
                       [] OTHER -> @]
                /\ overtaken' = overtaken \cup
                     {t \in DOMAIN thread : GraphOf(t) = "shared" /\ At(t, "write") /\ LocatorAt(t) = locator}
                /\ late' = late \ {locator}
                /\ refresh' = [refresh EXCEPT !.sync = Tail(@), !.merging = None]
  /\ UNCHANGED <<scenario, now, configurationVars, hatch, thread, reports>>

EndSync ==
  /\ refresh.phase = "syncing" /\ refresh.sync = <<>>
  /\ refresh' = [refresh EXCEPT !.phase = "synced"]
  /\ UNCHANGED <<scenario, now, configurationVars, hatch, caches, thread, overtaken, late, reports>>

Refresh == StartRefresh \/ BeginSync \/ SyncLocator \/ EndSync

(* find_and_report_envs with nobody else at work; which thread of it does    *)
(* what, and when, is the subject of module Search.                          *)
SearchEverything ==
  /\ DOMAIN thread = {} /\ reports = None
  /\ reports' = Reports(Current, published.config, FreshCaches(Current, published.config))
  /\ UNCHANGED <<scenario, now, configurationVars, hatch, caches, thread, refresh, overtaken, late>>

(* Every call has returned, and nothing more happens.                        *)
Over ==
  /\ \A t \in DOMAIN thread : At(t, "done")
  /\ The.refresh # None => refresh.phase \in {"synced", "skipped"}
  /\ next = None
  /\ DOMAIN thread = {} => reports # None

Quiescent == Over /\ UNCHANGED vars

Next ==
  \/ ChangeMachine
  \/ Configure
  \/ Refresh
  \/ SearchEverything
  \/ \E t \in DOMAIN thread : Begin(t) \/ Step(t)
  \/ Quiescent

Spec == Init /\ [][Next]_vars

(* The server goes on as long as something is left to do.  This is weak      *)
(* fairness of Next, which is enabled until everything is over (TLC checks   *)
(* that for deadlock): nothing is assumed of the order of the threads.       *)
FairSpec == Spec /\ ([]<><<TRUE>>_vars \/ <>[]Over)
-----------------------------------------------------------------------------
(* Properties.                                                               *)

(* The answer to a resolve request is about this environment.                *)
SameEnvironment(env, answer) ==
  /\ answer # None
  /\ EnvironmentKey(Current, answer.discovered) = EnvironmentKey(Current, env)
  /\ \A field \in {"kind", "prefix", "version"} : answer.discovered[field] = env[field]

(* Whatever path a client uses for an environment that a search reported, a  *)
(* resolve request identifies the same environment: every path that the      *)
(* report lists and that exists leads the locators (identify_python_         *)
(* environment_using_locators) to the same kind, executable, prefix and      *)
(* version.  The exception is the Python of the command line tools, whose    *)
(* executable depends on the path that is asked for                          *)
(* (crates/pet-mac-commandlinetools/src/lib.rs).                             *)
IdentifiedByEveryPath ==
  reports # None =>
    \A fresh \in {FreshCaches(Current, published.config)} :
      \A env \in reports : env.kind # "MacCommandLineTools" =>
        \A p \in {q \in env.symlinks : Exists(Current, q)} :
          SameEnvironment(env, ResolveEnvironment(Current, p, fresh))

TakesVersionFromFile == {"Uv", "UvWorkspace", "Hatch", "PyenvVirtualEnv"}

NoInaccuracy(env, resolved) ==
  resolved # None =>
    Inaccuracies(Current, env, resolved)
      \subseteq (IF env.kind \in TakesVersionFromFile THEN {"version"} ELSE {})

(* What a search reports from the files alone is what the interpreter says   *)
(* of itself when a resolve request runs it, so that report_inaccuracies_    *)
(* identified_after_resolving has nothing to report.  Four locators take the *)
(* version of a virtual environment from its pyvenv.cfg, which an upgrade of *)
(* the interpreter it was created with does not touch.                       *)
DiscoveryMatchesInterpreter ==
  reports # None => \A env \in reports : NoInaccuracy(env, Resolution(Current, env).resolved)

(* Directories of environments that the .condarc of an install names.        *)
NamedByInstall(m, known) ==
  UNION {CondaRcFromPath(m, p).envDirs : p \in {q \in known : IsCondaInstall(m, q)}}

NothingMissed(event, known) ==
  /\ \A p \in event.missing : Parent(p) \in NamedByInstall(Current, known)
  /\ ~event.rootPrefixNotFound /\ ~event.condaPrefixNotFound /\ ~event.condaManagerNotFound
  /\ \A group \in {event.sys, event.user, event.other} : group.rcs = {}

NothingMissedOf(info, environments) ==
  info # None => NothingMissed(MissingCondaEnvironments(Current, info, environments),
                               {env.prefix : env \in environments})

(* A search finds without running conda what `conda info` tells: its         *)
(* environments, its root and its prefix with a manager, and every file of   *)
(* its configuration, so that find_and_report_missing_envs has nothing to    *)
(* report.  The exception are environments in a directory that only the      *)
(* .condarc of an install names: get_environments appends its env_dirs to    *)
(* what it returns and does not look into them.                              *)
CondaInfoListsNothingMore ==
  reports # None =>
    NothingMissedOf(InfoOfCondaOrMamba(Current, published.config.condaExecutable),
                    {env \in reports : env.kind = "Conda"})

(* A find of WindowsRegistry reports what it found once: during its own walk *)
(* or, if another thread has walked since, from the cache; a walk that lost  *)
(* a company to a panic is reported and never kept for others (did_walk and  *)
(* had_panic of find_with_cache).  Out of the scope of the refresh it        *)
(* reports nothing.                                                          *)
RegistryReportedOnce ==
  /\ \A t \in DOMAIN thread :
       Finds(t) /\ t[2] = "WindowsRegistry" /\ At(t, "done") =>
         Len(thread[t].reported) = IF Covers(SyncScope(The.refresh), t[2]) THEN 1 ELSE 0
  /\ \A g \in Graphs :
       caches[g]["WindowsRegistry"] # None => ~caches[g]["WindowsRegistry"].hadPanic

(* When Hatch's locator of a graph was configured.                           *)
Since(g) == IF g = "shared" THEN told ELSE refresh.since
ReadSince(g, w, entry) ==
  \E k \in Since(g)..now : entry = HatchWorkspaceEntry(The.machines[k], w)

(* Hatch never keeps what it read before the last configure: an entry        *)
(* belongs to a configured workspace, and is what the files of that          *)
(* workspace said at some moment since (the generation check of              *)
(* workspace_entry).                                                         *)
HatchEntriesAreCurrent ==
  \A g \in Graphs : \A w \in DOMAIN hatch[g].parsed :
    w \in hatch[g].workspaces /\ ReadSince(g, w, hatch[g].parsed[w])

(* The machine has not changed since the refresh began, and there was no     *)
(* configure in between.                                                     *)
Settled ==
  refresh.since = now /\ refresh.generation = published.generation /\ next = None

(* When a refresh has synced, and nothing has changed, a shared locator in   *)
(* its scope remembers what a search finds, if the refresh had something to  *)
(* hand over.  The exceptions are Poetry and WindowsStore when               *)
(* a resolve request was searching while the refresh synced: it writes what  *)
(* it found over it (sync_refresh_state_from and find_with_cache).           *)
SyncedCachesAreLatest ==
  refresh.phase = "synced" /\ Settled =>
    \A locator \in Synced :
      \/ ~Covers(SyncScope(The.refresh), locator)
      \/ caches["transient"][locator] = None
      \/ caches["shared"][locator] = Compute(Current, published.config, locator)
      \/ locator \in late \cap {"Poetry", "WindowsStore"}

(* Every call of a locator returns, and a configure with it: no sequence of  *)
(* configures, panics, syncs and changes of the machine makes a thread look, *)
(* search and look again without end (the loop of workspace_entry).          *)
EveryLocatorCallReturns ==
  <>[](next = None /\ \A t \in DOMAIN thread : At(t, "done"))

-----------------------------------------------------------------------------
(* The inductive invariant behind RegistryReportedOnce,                      *)
(* HatchEntriesAreCurrent and SyncedCachesAreLatest.                         *)
Fields == DOMAIN NewThread
Labels == {"idle", "clear", "look", "search", "write", "use", "next", "done"}

Shape ==
  /\ scenario \in DOMAIN Scenarios
  /\ now \in 1..Len(The.machines) /\ told \in 1..now
  /\ published.generation \in Nat /\ DOMAIN input = Graphs
  /\ DOMAIN hatch = Graphs
  /\ \A g \in Graphs : DOMAIN hatch[g] = DOMAIN NewHatch /\ hatch[g].generation \in Nat
  /\ DOMAIN caches = Graphs /\ \A g \in Graphs : DOMAIN caches[g] = Remembering
  /\ DOMAIN thread = Threads(The)
  /\ DOMAIN refresh = {"phase", "generation", "since", "sync", "merging"}
  /\ refresh.phase \in {"none", "searching", "syncing", "synced", "skipped"}
  /\ refresh.generation \in Nat /\ refresh.since \in Nat /\ refresh.sync \in Seq(Synced)

(* Poetry's configuration is the published one or the next one.              *)
InputIsConfiguration ==
  /\ configuring \in {<<>>, <<"Hatch">>, <<"Poetry", "Hatch">>}
  /\ next = None => configuring = <<>> /\ input["shared"] = published.config
  /\ next # None /\ configuring # <<"Poetry", "Hatch">> => input["shared"] = next

(* A refresh has the configuration that it began with.                       *)
RefreshHasConfiguration ==
  refresh.phase # "none" =>
    /\ The.refresh # None
    /\ refresh.since \in 1..now /\ refresh.generation <= published.generation
    /\ refresh.generation = published.generation /\ The.refresh.paths = None
         => input["transient"] = published.config
    /\ refresh.phase = "synced" => refresh.sync = <<>>

(* What a search of the refresh has found.                                   *)
FoundByRefresh(locator, found) ==
  \E k \in refresh.since..now : found = Compute(The.machines[k], input["transient"], locator)

(* A locator has been handed over.                                           *)
Handed(locator) ==
  /\ refresh.phase \in {"syncing", "synced"}
  /\ \A i \in DOMAIN refresh.sync : refresh.sync[i] # locator
  /\ Covers(SyncScope(The.refresh), locator)

OnMachine(locator) == locator \in WindowsLocators => Windows(Current)

(* What a thread knows at each of its steps.  First its place in the refresh. *)
Placed(t, th) ==
  /\ DOMAIN th = Fields /\ th.pc \in Labels /\ th.position \in Nat /\ th.generation \in Nat
  /\ th.pc # (IF Finds(t) THEN "next" ELSE "clear")
  /\ GraphOf(t) = "transient" =>
       /\ refresh.phase = "none" => th.pc = "idle"
       /\ refresh.phase \notin {"none", "searching"} => th.pc = "done"
  /\ Finds(t) /\ th.pc \notin {"idle", "done"} => Covers(SyncScope(The.refresh), t[2])
  /\ Finds(t) /\ th.pc = "idle" => refresh.phase = "none" \/ Covers(SyncScope(The.refresh), t[2])

(* It looks at the caches of locators of the machine, and WinPython's is      *)
(* only used by find.                                                        *)
Asks(t, th) ==
  th.pc \in {"clear", "look", "search", "write"} =>
    OnMachine(Asking(t, th)) /\ (Asking(t, th) = "WinPython" => Finds(t))

(* The registry is reported during the walk or after a look.                 *)
ReportsOnce(t, th) ==
  Finds(t) /\ t[2] = "WindowsRegistry" =>
    IF th.pc = "write" \/ (th.pc = "done" /\ Covers(SyncScope(The.refresh), t[2]))
      THEN Len(th.reported) = 1 ELSE th.reported = <<>>

(* Hatch: what it read without the lock is current if the generation is.     *)
HoldsEntry(t, th) ==
  th.pc \in {"search", "write"} /\ Asking(t, th) = "Hatch" =>
    /\ th.generation <= hatch[GraphOf(t)].generation
    /\ th.pc = "write" /\ th.generation = hatch[GraphOf(t)].generation =>
         ReadSince(GraphOf(t), NextWorkspace(th.todo), th.held)

(* The others: what is to be written is what a search found, in a refresh     *)
(* since it began, and otherwise if nothing changed since the handover.       *)
HoldsResult(t, th) ==
  th.pc = "write" /\ Asking(t, th) \in Synced =>
    /\ GraphOf(t) = "transient" /\ (Asking(t, th) = "WindowsRegistry" => ~th.held.hadPanic)
         => FoundByRefresh(Asking(t, th), th.held)
    /\ GraphOf(t) = "shared" /\ Asking(t, th) # "WindowsRegistry"
         /\ Handed(Asking(t, th)) /\ Settled /\ t \notin overtaken
         => th.held = Compute(Current, published.config, Asking(t, th))

Sound(t, th) ==
  /\ Placed(t, th) /\ Asks(t, th) /\ ReportsOnce(t, th)
  /\ HoldsEntry(t, th) /\ HoldsResult(t, th)

ThreadsAreSound == \A t \in DOMAIN thread : Sound(t, thread[t])

(* What the locators of a refresh remember was found in it.                   *)
TransientIsFound ==
  \A locator \in Synced : caches["transient"][locator] # None =>
    OnMachine(locator) /\ FoundByRefresh(locator, caches["transient"][locator])

RegistryIsComplete ==
  \A g \in Graphs : caches[g]["WindowsRegistry"] # None => ~caches[g]["WindowsRegistry"].hadPanic

(* What was handed over stays: of two locators for good, of the others as     *)
(* long as nothing changes and no thread was overtaken.                       *)
HandedIsKept ==
  \A locator \in Synced : Handed(locator) /\ caches["transient"][locator] # None =>
    IF locator \in {"Poetry", "WindowsStore"}
      THEN Settled => \/ caches["shared"][locator] = Compute(Current, published.config, locator)
                      \/ locator \in late
      ELSE caches["shared"][locator] = caches["transient"][locator]

IInv ==
  /\ Shape /\ InputIsConfiguration /\ RefreshHasConfiguration /\ ThreadsAreSound
  /\ TransientIsFound /\ RegistryIsComplete /\ HandedIsKept /\ HatchEntriesAreCurrent
=============================================================================
