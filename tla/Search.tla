-------------------------------- MODULE Search --------------------------------
(***************************************************************************)
(* One search of a refresh: find_and_report_envs (crates/pet/src/find.rs)   *)
(* runs four phases at once, each phase runs a thread per locator or        *)
(* directory, and every thread reports what it finds through one reporter   *)
(* (crates/pet-reporter), built by execute_refresh as                       *)
(*   CacheReporter(GenerationGuardedReporter(JsonRpcReporter)).             *)
(*                                                                         *)
(* What is on the machine is constant.  A search may be overtaken by a new  *)
(* configuration, code of a locator may panic, and the client may go away,  *)
(* upon which every write panics.                                           *)
(***************************************************************************)
EXTENDS Naturals, FiniteSets, Sequences, SequencesExt

CONSTANTS
  PythonEnvs,          \* the Python executables a search may come upon
  EnvPrefixes, Kinds, Managers,
  LocatorOrder,        \* the locators, as create_locators orders them
  Supports,            \* supported_categories() of each locator
  Finds,               \* what find() of each locator reports, in order
  Searches,            \* what searches there are to be: see below
  EnvironmentDirectories,
  Directories, Files,  \* what is a directory and what is a file
  FindExecutable,      \* the Python of a directory, or None
  FindExecutables,     \* all of them
  BrokenVenv,          \* the environment of a venv that lost its Python
  PreferredPaths,      \* .venv, .conda, ... and .pixi/envs/* of a directory
  Subdirectories,
  Searchable,          \* should_search_for_environments_in_path
  IsEnvironment,       \* directories that are environments themselves
  TryFrom,             \* what a locator makes of a PythonEnv, or None
  Resolve,             \* the PythonEnv an executable says it is, or None
  Parents,             \* the directories of the symlinks of a PythonEnv
  BinPython,           \* <prefix>/bin/python
  Fragile,             \* threads in which code of a locator may panic
  None

Phases == {"Locators", "Path", "GlobalVirtualEnvs", "Workspaces"}
Locators == ToSet(LocatorOrder)

PythonEnvironments ==
  [executable : PythonEnvs \cup {None}, prefix : EnvPrefixes \cup {None},
   kind : Kinds \cup {None}, manager : Managers \cup {None}]

(* A search is of the refresh options (paths and kind, None if not given),    *)
(* the configuration (folders and executables) and the environment variables  *)
(* (searchPaths of PATH, virtualEnvPaths of VIRTUAL_ENV and the like).        *)
VARIABLES
  options,             \* the search
  phase,               \* of each phase's thread
  pc, todo,            \* of each worker thread: where it is, what is left
  reported, reportedManagers,   \* the tables of CacheReporter
  poisoned,            \* which of their locks are poisoned
  current,             \* the search's generation is still the published one
  clientGone,
  sent, sentManagers,  \* notifications written: environments, with the
                       \* number of earlier ones for the key, and managers
  completed,           \* phases whose Completed progress was written
  outcome              \* of find_and_report_envs

reporterVars == <<reported, reportedManagers, poisoned, sent, sentManagers>>
vars == <<options, phase, pc, todo, reporterVars, current, clientGone,
          completed, outcome>>

-----------------------------------------------------------------------------
(* build_refresh_config: explicit paths replace the folders of the           *)
(* configuration and confine the search to them.                             *)
Folders(o) == IF o.paths = None THEN o.folders ELSE o.paths \cap Directories
GivenExecutables(o) == IF o.paths = None THEN o.executables ELSE o.paths \cap Files
SearchGlobal(o) == o.paths = None
SearchKind(o) == IF o.paths = None THEN o.kind ELSE None

(* The threads of a phase.  The executables of the configuration are         *)
(* identified by the thread of the phase itself, beside those of the folders. *)
Workers(o, p) ==
  CASE p = "Locators" ->
         {<<p, l>> : l \in {k \in Locators : SearchKind(o) = None
                                               \/ SearchKind(o) \in Supports[k]}}
    [] p = "Path" -> {<<p, d>> : d \in o.searchPaths}
    [] p = "GlobalVirtualEnvs" -> {<<p, d>> : d \in o.virtualEnvPaths}
    [] p = "Workspaces" -> {<<p, d>> : d \in Folders(o)}
                             \cup {<<p, x>> : x \in {"executables"}}

ActiveWorkers ==
  [o \in Searches |-> [p \in Phases |->
     IF p = "Workspaces" \/ SearchGlobal(o) THEN Workers(o, p) ELSE {}]]

Threads == UNION {ActiveWorkers[o][p] : o \in Searches, p \in Phases}

(* identify_python_environment_using_locators: the first locator in order    *)
(* that claims the executable; if none does, Python is asked what it is.     *)
FirstMatch(x) ==
  LET claims == {i \in DOMAIN LocatorOrder : TryFrom[LocatorOrder[i]][x] # None}
  IN  IF claims = {} THEN None ELSE TryFrom[LocatorOrder[Min(claims)]][x]

UnknownEnvironment(x, searchPaths) ==
  [executable |-> Resolve[x], prefix |-> None, manager |-> None,
   kind |-> IF (Parents[x] \cup Parents[Resolve[x]]) \cap searchPaths # {}
              THEN "GlobalPaths" ELSE None]

Identify(x, searchPaths) ==
  IF x = None THEN None
  ELSE IF FirstMatch(x) # None THEN FirstMatch(x)
  ELSE IF Resolve[x] = None THEN None
  ELSE IF FirstMatch(Resolve[x]) # None THEN FirstMatch(Resolve[x])
  ELSE UnknownEnvironment(x, searchPaths)

(* Work of a thread: an executable to identify, if there is one, or something *)
(* to report.                                                                *)
Executable(x, searchPaths) == [work |-> "identify", executable |-> x, paths |-> searchPaths]
Manager(m) == [work |-> "manager", manager |-> m]
Environment(e) == [work |-> "environment", env |-> e]
Items ==
  [work : {"identify"}, executable : PythonEnvs \cup {None}, paths : SUBSET Directories]
    \cup [work : {"manager"}, manager : Managers]
    \cup [work : {"environment"}, env : PythonEnvironments]

(* identify_python_executables_using_locators, for one executable.           *)
Reports(e) ==
  IF e = None THEN <<>>
  ELSE (IF e.manager = None THEN <<>> ELSE <<Manager(e.manager)>>) \o <<Environment(e)>>

(* find_python_environments_in_paths_with_locators, for one directory.       *)
InWorkspace(d, searchPaths) ==
  IF FindExecutable[d] = None /\ BrokenVenv[d] # None
    THEN Environment(BrokenVenv[d])
    ELSE Executable(FindExecutable[d], searchPaths)

InGlobal(d, searchPaths) ==
  [i \in DOMAIN FindExecutables[d] |-> Executable(FindExecutables[d][i], searchPaths)]

(* find_python_environments_in_workspace_folder_recursive; it passes no      *)
(* search paths on to the subdirectories, and skips those it has seen or does *)
(* not search.                                                               *)
InFolder(f, searchPaths) ==
  LET first == <<f>> \o PreferredPaths[f]
      rest == IF f \in IsEnvironment THEN <<>> ELSE Subdirectories[f]
      entered(d) == /\ d \in EnvironmentDirectories \cup Searchable
                    /\ d \notin ToSet(first)
  IN  [i \in DOMAIN first |-> InWorkspace(first[i], searchPaths)]
        \o [i \in DOMAIN rest |-> IF entered(rest[i]) THEN InWorkspace(rest[i], {})
                                                      ELSE Executable(None, {})]

Work(o, w) ==
  CASE w[1] = "Locators" -> Finds[w[2]]
    [] w[1] \in {"Path", "GlobalVirtualEnvs"} -> InGlobal(w[2], o.searchPaths)
    [] w[1] = "Workspaces" /\ w[2] # "executables" -> InFolder(w[2], o.searchPaths)
    [] OTHER -> LET given == SetToSeq(GivenExecutables(o))
                IN  [i \in DOMAIN given |-> Executable(given[i], o.searchPaths)]

(* Every environment in the sequence has its manager before it, or among the *)
(* known ones.                                                               *)
ManagersFirst(work, known) ==
  \A i \in DOMAIN work :
    work[i].work = "environment" /\ work[i].env.manager # None =>
      \/ work[i].env.manager \in known
      \/ \E j \in 1 .. i - 1 : work[j] = Manager(work[i].env.manager)

(* What is on the machine.  Each find() reports a manager before it reports  *)
(* an environment of it, and a broken venv has none.                         *)
ASSUME NoneAssumption ==
  None \notin PythonEnvs /\ None \notin PythonEnvironments
ASSUME LocatorAssumption ==
  /\ LocatorOrder \in Seq(Locators)
  /\ TryFrom \in [Locators -> [PythonEnvs -> PythonEnvironments \cup {None}]]
  /\ Finds \in [Locators -> Seq(Items)]
  /\ \A l \in Locators : ManagersFirst(Finds[l], {})
ASSUME FileAssumption ==
  /\ FindExecutable \in [Directories -> PythonEnvs \cup {None}]
  /\ FindExecutables \in [Directories -> Seq(PythonEnvs)]
  /\ BrokenVenv \in [Directories -> PythonEnvironments \cup {None}]
  /\ \A d \in Directories : BrokenVenv[d] # None => BrokenVenv[d].manager = None
  /\ PreferredPaths \in [Directories -> Seq(Directories)]
  /\ Subdirectories \in [Directories -> Seq(Directories)]
  /\ Resolve \in [PythonEnvs -> PythonEnvs \cup {None}]
  /\ "GlobalPaths" \in Kinds
ASSUME SearchAssumption ==
  \A o \in Searches :
    /\ o.searchPaths \subseteq Directories /\ o.virtualEnvPaths \subseteq Directories
    /\ Folders(o) \subseteq Directories
    /\ GivenExecutables(o) \subseteq PythonEnvs /\ IsFiniteSet(GivenExecutables(o))

-----------------------------------------------------------------------------
(* get_environment_key                                                       *)
Key(e) ==
  CASE e.executable # None -> e.executable
    [] e.executable = None /\ e.prefix # None ->
         IF e.kind = "Conda" THEN BinPython[e.prefix] ELSE e.prefix
    [] OTHER -> None

(* JsonRpcReporter: should_report_environment                                *)
Wanted(o, e) == o.kind = None \/ e.kind = o.kind

Init ==
  /\ options \in Searches
  /\ phase = [p \in Phases |-> "spawned"]
  /\ pc = [w \in Threads |-> "none"]
  /\ todo = [w \in Threads |-> <<>>]
  /\ reported = {} /\ reportedManagers = {} /\ poisoned = {}
  /\ current = TRUE /\ clientGone = FALSE
  /\ sent = {} /\ sentManagers = {}
  /\ completed = {}
  /\ outcome = "running"

(* What GenerationGuardedReporter lets through is written, or panics.        *)
WriteSucceeds == ~(current /\ clientGone)

Goto(w, label) == pc' = [pc EXCEPT ![w] = label]
Panic(w) == Goto(w, "panicked") /\ todo' = [todo EXCEPT ![w] = <<>>]

(* A phase reports that it has started and spawns its threads.               *)
StartPhase(p) ==
  /\ phase[p] = "spawned"
  /\ IF WriteSucceeds
       THEN /\ phase' = [phase EXCEPT ![p] = "running"]
            /\ pc' = [w \in Threads |->
                        IF w \notin ActiveWorkers[options][p] THEN pc[w]
                        ELSE IF p = "Locators" THEN "spawned" ELSE "ready"]
            /\ todo' = [w \in Threads |->
                          IF w \in ActiveWorkers[options][p] THEN Work(options, w) ELSE todo[w]]
       ELSE /\ phase' = [phase EXCEPT ![p] = "panicked"]
            /\ UNCHANGED <<pc, todo>>
  /\ UNCHANGED <<options, reporterVars, current, clientGone, completed, outcome>>

(* The thread of a locator reports that the locator has started.             *)
StartWorker(w) ==
  /\ pc[w] = "spawned"
  /\ IF WriteSucceeds THEN Goto(w, "ready") /\ UNCHANGED todo ELSE Panic(w)
  /\ UNCHANGED <<options, phase, reporterVars, current, clientGone, completed, outcome>>

IdentifyExecutable(w) ==
  /\ pc[w] = "ready" /\ todo[w] # <<>>
  /\ Head(todo[w]).work = "identify"
  /\ todo' = [todo EXCEPT ![w] =
       Reports(Identify(Head(@).executable, Head(@).paths)) \o Tail(@)]
  /\ UNCHANGED <<options, phase, pc, reporterVars, current, clientGone,
                 completed, outcome>>

(* Code of a locator panics, in find or in try_from.                         *)
LocatorPanics(w) ==
  /\ w \in Fragile
  /\ pc[w] = "ready" /\ todo[w] # <<>>
  /\ Panic(w)
  /\ UNCHANGED <<options, phase, reporterVars, current, clientGone, completed, outcome>>

Known(item) ==
  IF item.work = "manager" THEN item.manager \in reportedManagers
                           ELSE Key(item.env) \in reported \cup {None}

(* CacheReporter: look under the read lock ...                               *)
CheckReported(w) ==
  /\ pc[w] = "ready" /\ todo[w] # <<>>
  /\ Head(todo[w]).work \in {"manager", "environment"}
  /\ IF Head(todo[w]).work \in poisoned
       THEN Panic(w)
       ELSE IF Known(Head(todo[w]))
         THEN todo' = [todo EXCEPT ![w] = Tail(@)] /\ UNCHANGED pc
         ELSE Goto(w, "insert") /\ UNCHANGED todo
  /\ UNCHANGED <<options, phase, reporterVars, current, clientGone, completed, outcome>>

(* ... then look again, insert and report under the write lock.              *)
FaultyInsertManager(m) ==           \* a manager is reported on the next look
  /\ reportedManagers' = reportedManagers \cup {m}
  /\ UNCHANGED <<reported, sent, sentManagers>>

InsertManager(m) ==
  /\ reportedManagers' = reportedManagers \cup {m}
  /\ sentManagers' = IF current /\ ~clientGone THEN sentManagers \cup {m} ELSE sentManagers
  /\ UNCHANGED <<reported, sent>>

InsertEnvironment(e) ==
  /\ reported' = reported \cup {Key(e)}
  /\ sent' = IF current /\ ~clientGone /\ Wanted(options, e)
             THEN sent \cup {<<Cardinality({s \in sent : Key(s[2]) = Key(e)}), e>>}
             ELSE sent
  /\ UNCHANGED <<reportedManagers, sentManagers>>

FaultyInsert(w) ==                  \* does not look again under the write lock
  LET item == Head(todo[w])
      writes == item.work = "manager" \/ Wanted(options, item.env) IN
  /\ pc[w] = "insert"
  /\ item.work \notin poisoned
  /\ IF item.work = "manager" THEN InsertManager(item.manager)
                              ELSE InsertEnvironment(item.env)
  /\ Goto(w, IF writes /\ ~WriteSucceeds THEN "panicked" ELSE "ready")
  /\ todo' = [todo EXCEPT ![w] = Tail(@)]
  /\ UNCHANGED <<poisoned, options, phase, current, clientGone, completed, outcome>>

Insert(w) ==
  LET item == Head(todo[w])
      writes == item.work = "manager" \/ Wanted(options, item.env) IN
  /\ pc[w] = "insert"
  /\ CASE item.work \in poisoned ->
            Panic(w) /\ UNCHANGED reporterVars
       [] item.work \notin poisoned /\ Known(item) ->
            /\ Goto(w, "ready")
            /\ todo' = [todo EXCEPT ![w] = Tail(@)]
            /\ UNCHANGED reporterVars
       [] OTHER ->
            /\ IF item.work = "manager" THEN InsertManager(item.manager)
                                        ELSE InsertEnvironment(item.env)
            /\ IF writes /\ ~WriteSucceeds
                 THEN /\ Panic(w)
                      /\ poisoned' = poisoned \cup {item.work}
                 ELSE /\ Goto(w, "ready")
                      /\ todo' = [todo EXCEPT ![w] = Tail(@)]
                      /\ UNCHANGED poisoned
  /\ UNCHANGED <<options, phase, current, clientGone, completed, outcome>>

(* A locator's thread reports that the locator has completed.                *)
FinishWorker(w) ==
  /\ pc[w] = "ready" /\ todo[w] = <<>>
  /\ Goto(w, IF w[1] = "Locators" /\ ~WriteSucceeds THEN "panicked" ELSE "done")
  /\ UNCHANGED <<options, phase, todo, reporterVars, current, clientGone,
                 completed, outcome>>

FaultyCompletePhase(p) ==           \* does not join its threads
  LET threads == ActiveWorkers[options][p] IN
  /\ phase[p] = "running"
  /\ phase' = [phase EXCEPT ![p] = IF WriteSucceeds THEN "done" ELSE "panicked"]
  /\ completed' = IF current /\ WriteSucceeds THEN completed \cup {p} ELSE completed
  /\ UNCHANGED <<options, pc, todo, reporterVars, current, clientGone, outcome>>

FaultyWaitForDone(p) ==             \* waits for a message a panic never sends
  /\ phase[p] = "running"
  /\ \A w \in ActiveWorkers[options][p] : pc[w] = "done"
  /\ phase' = [phase EXCEPT ![p] = IF WriteSucceeds THEN "done" ELSE "panicked"]
  /\ completed' = IF current /\ WriteSucceeds THEN completed \cup {p} ELSE completed
  /\ UNCHANGED <<options, pc, todo, reporterVars, current, clientGone, outcome>>

(* thread::scope joins every thread and then panics if one of them did; a    *)
(* phase that does not panic reports that it has completed.                  *)
CompletePhase(p) ==
  LET threads == ActiveWorkers[options][p] IN
  /\ phase[p] = "running"
  /\ \A w \in threads : pc[w] \in {"done", "panicked"}
  /\ IF WriteSucceeds /\ \A w \in threads : pc[w] = "done"
       THEN /\ phase' = [phase EXCEPT ![p] = "done"]
            /\ completed' = IF current THEN completed \cup {p} ELSE completed
       ELSE /\ phase' = [phase EXCEPT ![p] = "panicked"]
            /\ UNCHANGED completed
  /\ UNCHANGED <<options, pc, todo, reporterVars, current, clientGone, outcome>>

FaultyReturn ==                     \* gives up at the first panic
  /\ outcome = "running"
  /\ \/ \E p \in Phases : phase[p] = "panicked"
     \/ \A p \in Phases : phase[p] = "done"
  /\ outcome' = IF \A p \in Phases : phase[p] = "done" THEN "returned" ELSE "panicked"
  /\ UNCHANGED <<options, phase, pc, todo, reporterVars, current, clientGone, completed>>

(* The outer thread::scope joins the phases.                                 *)
Return ==
  /\ outcome = "running"
  /\ \A p \in Phases : phase[p] \in {"done", "panicked"}
  /\ outcome' = IF \A p \in Phases : phase[p] = "done" THEN "returned" ELSE "panicked"
  /\ UNCHANGED <<options, phase, pc, todo, reporterVars, current, clientGone, completed>>

-----------------------------------------------------------------------------
(* A configure publishes a new generation; the client closes its end, which  *)
(* a search that writes no more does not notice.                             *)
Reconfigure ==
  /\ current /\ outcome = "running"
  /\ current' = FALSE
  /\ UNCHANGED <<options, phase, pc, todo, reporterVars, clientGone, completed, outcome>>

ClientGoes ==
  /\ ~clientGone /\ current /\ outcome = "running"
  /\ clientGone' = TRUE
  /\ UNCHANGED <<options, phase, pc, todo, reporterVars, current, completed, outcome>>

Ended == outcome # "running" /\ UNCHANGED vars

WorkerStep(w) ==
  \/ StartWorker(w) \/ IdentifyExecutable(w) \/ CheckReported(w)
  \/ Insert(w) \/ FinishWorker(w)

Next ==
  \/ \E p \in Phases : StartPhase(p) \/ CompletePhase(p)
  \/ \E w \in Threads : WorkerStep(w) \/ LocatorPanics(w)
  \/ Return
  \/ Reconfigure \/ ClientGoes
  \/ Ended

Spec == Init /\ [][Next]_vars

(* Threads run; nothing obliges a locator to panic or a client to act.       *)
FairSpec ==
  /\ Spec
  /\ \A p \in Phases : WF_vars(StartPhase(p)) /\ WF_vars(CompletePhase(p))
  /\ \A w \in Threads : WF_vars(WorkerStep(w))
  /\ WF_vars(Return)

-----------------------------------------------------------------------------
Found(item) ==
  IF item.work = "identify" THEN {Identify(item.executable, item.paths)} \ {None}
  ELSE IF item.work = "environment" THEN {item.env} ELSE {}
Environments(work) == UNION {Found(work[i]) : i \in DOMAIN work}

(* What the threads of a phase come upon.                                     *)
Discoveries ==
  [o \in Searches |-> [p \in Phases |->
     UNION {Environments(Work(o, w)) : w \in ActiveWorkers[o][p]}]]

(* "ensures we do not report the same env/manager more than once": whichever  *)
(* threads come upon an executable, one notification is written for its key.  *)
ReportedOnce == \A s \in sent : s[1] = 0

(* A client that is told of an environment has been told of its manager, even *)
(* when another thread was first to report the manager, when the search was   *)
(* overtaken by a new configuration, and when writes fail.                    *)
ManagerPrecedesEnvironment ==
  \A s \in sent : s[2].manager # None => s[2].manager \in sentManagers

(* When the client reads that a phase has completed, it has been notified of  *)
(* every environment the phase came upon, unless a thread that identified it  *)
(* as another kind than the requested one took its key.                       *)
CompletedPhaseIsReported ==
  \A p \in completed : \A e \in Discoveries[options][p] :
    Key(e) # None => \/ \E s \in sent : Key(s[2]) = Key(e)
                     \/ \E q \in Phases : \E f \in Discoveries[options][q] :
                          Key(f) = Key(e) /\ ~Wanted(options, f)

(* find_and_report_envs returns, or panics, only when no thread of it is left *)
(* to report anything: the reply to the refresh is the last word.             *)
NothingAfterEnd ==
  [][outcome # "running" => UNCHANGED <<reporterVars, completed>>]_vars

(* The search ends: no panic of a locator, no failed write and no poisoned    *)
(* table leaves it waiting for a thread.                                      *)
SearchEnds == <>(outcome # "running")

(* The inductive invariant behind the safety properties.                      *)
Busy == {"spawned", "ready", "insert"}

TypeOK ==
  /\ options \in Searches
  /\ phase \in [Phases -> {"spawned", "running", "done", "panicked"}]
  /\ pc \in [Threads -> Busy \cup {"none", "done", "panicked"}]
  /\ todo \in [Threads -> Seq(Items)]
  /\ current \in BOOLEAN /\ clientGone \in BOOLEAN
  /\ completed \subseteq Phases
  /\ outcome \in {"running", "returned", "panicked"}

(* A thread is only at work while its phase waits for it, has something in    *)
(* hand when it holds the write lock, and nothing left when it is done.       *)
ThreadsAreJoined ==
  /\ \A w \in Threads : pc[w] \in Busy =>
       w \in ActiveWorkers[options][w[1]] /\ phase[w[1]] = "running"
  /\ outcome # "running" => \A p \in Phases : phase[p] \in {"done", "panicked"}
  /\ \A w \in Threads : pc[w] = "done" => todo[w] = <<>>
  /\ \A w \in Threads : pc[w] = "insert" =>
       todo[w] # <<>> /\ Head(todo[w]).work \in {"manager", "environment"}

(* Every notification was the first of its key.                               *)
SentIsReported == \A s \in sent : s[1] = 0 /\ Key(s[2]) \in reported

(* A manager in the table was written, if writes have succeeded; one that is  *)
(* not is still to be reported before the environments that name it.          *)
ManagersAreWritten == current /\ ~clientGone => reportedManagers \subseteq sentManagers
ManagersComeFirst == \A w \in Threads : ManagersFirst(todo[w], reportedManagers)

(* What a thread has come upon is in the table or still to be reported, and   *)
(* what is in the table was written or taken as another kind.                 *)
NothingIsDropped ==
  \A w \in Threads : pc[w] \in Busy \cup {"done"} =>
    \A e \in Environments(Work(options, w)) :
      Key(e) # None => e \in Environments(todo[w]) \/ Key(e) \in reported
TodoIsDiscovered ==
  \A w \in Threads : Environments(todo[w])
                        \subseteq UNION {Discoveries[options][q] : q \in Phases}
Accounted(k) ==
  \/ \E s \in sent : Key(s[2]) = k
  \/ \E q \in Phases : \E f \in Discoveries[options][q] :
       Key(f) = k /\ ~Wanted(options, f)
ReportedIsAccounted == current /\ ~clientGone => \A k \in reported : Accounted(k)

IInv ==
  /\ TypeOK /\ ThreadsAreJoined /\ SentIsReported
  /\ ManagersAreWritten /\ ManagersComeFirst /\ ManagerPrecedesEnvironment
  /\ NothingIsDropped /\ TodoIsDiscovered /\ ReportedIsAccounted
  /\ CompletedPhaseIsReported
=============================================================================
