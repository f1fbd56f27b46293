---------------------------- MODULE Identification ----------------------------
(***************************************************************************)
(* How the locators work together: the order in which they are asked what an *)
(* executable belongs to (crates/pet/src/locators.rs), where a search looks  *)
(* for executables (crates/pet/src/find.rs), what a resolve request makes of *)
(* one (crates/pet/src/resolve.rs) and how its answer is compared with what  *)
(* was discovered (crates/pet-telemetry).                                    *)
(*                                                                         *)
(* m is the machine, c the configuration that the locators were given:       *)
(* [workspaces, environmentDirectories, executables, condaExecutable,        *)
(* pipenvExecutable, poetryExecutable].  caches is what the locators         *)
(* remember: a function of the locators of StatefulLocators.                 *)
(***************************************************************************)
EXTENDS ProjectEnvironments, WindowsPythons, CondaFiles

(* create_locators                                                           *)
LocatorOrder(m) ==
  (IF Windows(m) THEN <<"WindowsStore", "WindowsRegistry", "WinPython">> ELSE <<>>)
  \o <<"PyEnv", "Pixi", "Conda", "Uv", "Poetry", "PipEnv", "Hatch", "VirtualEnvWrapper",
       "Venv", "VirtualEnv">>
  \o (IF Windows(m) THEN <<>> ELSE <<"Homebrew">>)
  \o (IF m.os = "macos" THEN <<"MacXCode", "MacCommandLineTools", "MacPythonOrg">> ELSE <<>>)
  \o (IF m.os = "linux" THEN <<"LinuxGlobal">> ELSE <<>>)

(* Conda's cache is the subject of CondaDiscovery.                           *)
StatefulLocators ==
  {"WindowsStore", "WindowsRegistry", "WinPython", "PyEnv", "Poetry", "Hatch", "LinuxGlobal"}

Nothing == [p \in {} |-> None]

(* What a locator that has nothing in its cache finds out.                   *)
Compute(m, c, locator) ==
  CASE locator = "WindowsStore" -> ListStorePythons(m)
    [] locator = "WindowsRegistry" -> RegistryWalk(m, {})
    [] locator = "WinPython" -> DiscoverWinPythons(m)
    [] locator = "PyEnv" -> PyenvInfo(m)
    [] locator = "Poetry" -> PoetrySearch(m, c)
    [] locator = "Hatch" -> [w \in c.workspaces |-> HatchWorkspaceEntry(m, w)]
    [] locator = "LinuxGlobal" -> Nothing

FreshCaches(m, c) == [locator \in StatefulLocators |-> Compute(m, c, locator)]

(* Locator::try_from                                                         *)
TryFrom(m, locator, e, cached) ==
  CASE locator = "WindowsStore" -> StoreTryFrom(m, e, cached)
    [] locator = "WindowsRegistry" -> RegistryTryFrom(m, e, cached)
    [] locator = "WinPython" -> WinPythonTryFrom(m, e)
    [] locator = "PyEnv" -> PyenvTryFrom(m, e, cached)
    [] locator = "Pixi" -> PixiTryFrom(m, e)
    [] locator = "Conda" -> CondaTryFrom(m, e)
    [] locator = "Uv" -> UvTryFrom(m, e)
    [] locator = "Poetry" -> PoetryTryFrom(m, e, cached.environments)
    [] locator = "PipEnv" -> PipenvTryFrom(m, e)
    [] locator = "Hatch" -> HatchTryFrom(m, e, cached)
    [] locator = "VirtualEnvWrapper" -> VirtualEnvWrapperTryFrom(m, e)
    [] locator = "Venv" -> VenvTryFrom(m, e)
    [] locator = "VirtualEnv" -> VirtualEnvTryFrom(m, e)
    [] locator = "Homebrew" -> HomebrewTryFrom(m, e)
    [] locator = "MacXCode" -> XCodeTryFrom(m, e)
    [] locator = "MacCommandLineTools" -> CommandLineToolsTryFrom(m, e)
    [] locator = "MacPythonOrg" -> PythonOrgTryFrom(m, e)
    [] locator = "LinuxGlobal" -> LinuxTryFrom(m, e, cached).env

(* Locator::find; the locators that are not listed find nothing.             *)
OfTwo(a, b) == [managers |-> a.managers \cup b.managers, environments |-> a.environments \cup b.environments]
WithCondaDirs(m, found) ==
  FoldSet(LAMBDA dir, all : OfTwo(all, CondaFindIn(m, dir)),
          [managers |-> found.managers, environments |-> found.environments], found.condaDirs)
Environments(all) == [managers |-> {}, environments |-> all]

Find(m, c, locator, cached) ==
  CASE locator = "WindowsStore" -> Environments(cached)
    [] locator = "WindowsRegistry" ->
         WithCondaDirs(m, [managers |-> {}, environments |-> cached.environments,
                           condaDirs |-> cached.condaDirs])
    [] locator = "WinPython" -> Environments(cached)
    [] locator = "PyEnv" -> WithCondaDirs(m, PyenvFind(m, cached))
    [] locator = "Conda" -> CondaFind(m, c.condaExecutable)
    [] locator = "Uv" -> UvFind(m, c)
    [] locator = "Poetry" -> cached
    [] locator = "PipEnv" -> PipenvFind(m, c)
    [] locator = "Hatch" -> HatchFind(m, cached)
    [] locator = "Homebrew" -> HomebrewFind(m)
    [] locator = "MacCommandLineTools" -> CommandLineToolsFind(m)
    [] locator = "MacPythonOrg" -> PythonOrgFind(m)
    [] locator = "LinuxGlobal" -> LinuxFind(m)
    [] OTHER -> Environments({})

-----------------------------------------------------------------------------
(* identify_python_environment_using_locators                                *)
CacheOf(caches, locator) == IF locator \in StatefulLocators THEN caches[locator] ELSE None

FirstClaim(m, e, caches) ==
  FoldLeft(LAMBDA env, locator :
             IF env # None THEN env ELSE TryFrom(m, locator, e, CacheOf(caches, locator)),
           None, LocatorOrder(m))

(* find_symlinks: executables beside it that are the same file.              *)
FindSymlinks(m, executable) ==
  LET bin == Parent(executable)
  IN  IF Windows(m) \/ ~InBin(bin) THEN {}
      ELSE {p \in PythonsOf(m, bin) : RealExecutable(m, p) = RealExecutable(m, executable)}

(* create_unknown_env, with the kind that the places of its paths give.      *)
CreateUnknownEnv(m, x, resolved, searchPaths) ==
  Build(m, [Builder(IF \E p \in resolved.symlinks \cup {resolved.executable, x} : Parent(p) \in searchPaths
                      THEN "GlobalPaths" ELSE None) EXCEPT
         !.symlinks = resolved.symlinks \cup FindSymlinks(m, resolved.executable),
         !.executable = resolved.executable, !.prefix = resolved.prefix,
         !.arch = Arch(resolved.is64), !.version = resolved.version])

(* An executable that no locator knows is run; what it says of itself may be *)
(* known.                                                                    *)
KnownOr(claim, otherwise) == IF claim # None THEN claim ELSE otherwise

IdentifyAgain(m, x, resolved, caches, searchPaths) ==
  IF resolved = None THEN None
  ELSE KnownOr(FirstClaim(m, ToPythonEnv(m, resolved), caches),
               CreateUnknownEnv(m, x, resolved, searchPaths))

IdentifyEnv(m, e, caches, searchPaths) ==
  KnownOr(FirstClaim(m, e, caches),
          IdentifyAgain(m, e.executable, Spawn(m, e.executable), caches, searchPaths))

Identify(m, x, caches, searchPaths) == IdentifyEnv(m, PythonEnv(m, x, None, None), caches, searchPaths)

-----------------------------------------------------------------------------
(* find.rs: the directories of the phases and the executables in them.       *)
ExecutablesIn(m, paths) ==
  UNION {PythonsOf(m, p) : p \in paths}
    \ (IF m.os = "macos" THEN {<<"usr", "bin", "python2">>} ELSE {})

PathExecutables(m) == ExecutablesIn(m, SearchPathsFromEnvVariables(m))

GlobalVirtualEnvExecutables(m, c) ==
  ExecutablesIn(m, ListGlobalVirtualEnvsPaths(m)
                     \cup UNION {Directories(m, d) : d \in c.environmentDirectories})

(* find_python_environments_in_workspace_folder_recursive                    *)
PreferredPaths(m, folder) ==
  {folder} \cup {Append(folder, name) : name \in {".venv", ".conda", ".virtualenv", "venv"}}
    \cup Directories(m, folder \o <<".pixi", "envs">>)

WorkspaceFolders(m, c, folder) ==
  LET wanted(p) == \/ \E d \in c.environmentDirectories : StartsWith(p, d)
                   \/ ShouldSearch(p)
  IN  IF IsVirtualEnvDir(m, folder) \/ IsCondaEnv(m, folder) \/ IsPixiEnv(m, folder) THEN {}
      ELSE {p \in Directories(m, folder) \ PreferredPaths(m, folder) : wanted(p)}

WorkspacePaths(m, c) == UNION {PreferredPaths(m, w) \cup WorkspaceFolders(m, c, w) : w \in c.workspaces}

PythonOfEach(m, paths) == {PythonOf(m, p) : p \in paths} \ {None}

(* Where a workspace has no Python, a venv that lost it is reported.         *)
BrokenVenvs(m, c) ==
  {VenvFromDirectory(m, p) : p \in {q \in WorkspacePaths(m, c) :
                                      PythonOf(m, q) = None /\ VenvFromDirectory(m, q) # None}}

Identified(m, executables, caches, searchPaths) ==
  {Identify(m, x, caches, searchPaths) : x \in executables} \ {None}

(* The folders of a workspace are searched without the search paths.         *)
SearchedExecutables(m, c) ==
  PathExecutables(m) \cup GlobalVirtualEnvExecutables(m, c)
    \cup PythonOfEach(m, UNION {PreferredPaths(m, w) : w \in c.workspaces}) \cup c.executables

FolderExecutables(m, c) == PythonOfEach(m, UNION {WorkspaceFolders(m, c, w) : w \in c.workspaces})

(* find_and_report_envs: all that a search of everything reports.            *)
Found(m, c, caches) ==
  UNION {Find(m, c, locator, CacheOf(caches, locator)).environments : locator \in ToSet(LocatorOrder(m))}

Reports(m, c, caches) ==
  Identified(m, SearchedExecutables(m, c), caches, SearchPathsFromEnvVariables(m))
    \cup Identified(m, FolderExecutables(m, c), caches, {})
    \cup Found(m, c, caches) \cup BrokenVenvs(m, c)

-----------------------------------------------------------------------------
(* resolve.rs: resolve_environment                                           *)
ExecutableToResolve(m, path) ==
  IF IsDirectory(m, path) /\ PythonOf(m, path) # None THEN PythonOf(m, path) ELSE path

Complete(m, env, info) ==
  Build(m, [env EXCEPT
    !.executable = info.executable, !.prefix = info.prefix, !.version = info.version,
    !.arch = Arch(info.is64), !.symlinks = @ \cup {info.executable} \cup info.symlinks])

Completed(m, env, info) == IF info = None THEN None ELSE Complete(m, env, info)

Resolution(m, env) ==
  IF env = None THEN None
  ELSE [discovered |-> env,
        resolved |-> IF env.executable = None THEN None
                     ELSE Completed(m, env, Spawn(m, env.executable))]

ResolveEnvironment(m, path, caches) ==
  Resolution(m, Identify(m, ExecutableToResolve(m, path), caches, SearchPathsFromEnvVariables(m)))

-----------------------------------------------------------------------------
(* pet-telemetry: report_inaccuracies_identified_after_resolving.            *)
AreVersionsDifferent(actual, expected) ==
  /\ expected # None /\ Len(expected) >= 3 /\ Len(actual) >= 3
  /\ SubSeq(actual, 1, 3) # SubSeq(expected, 1, 3)

Inaccuracies(m, env, resolved) ==
  LET real(p) == NormCase(m, FirstSet(<<Canonicalize(m, p), p>>))
      executables == {resolved.executable, NormCase(m, resolved.executable)}
  IN  {what \in {"executable", "symlinks", "prefix", "arch", "version"} :
         CASE what = "executable" -> env.executable # None /\ env.executable \notin executables
           [] what = "symlinks" -> env.executable # None /\ env.symlinks \cap executables = {}
           [] what = "prefix" -> env.prefix # None /\ real(env.prefix) # real(resolved.prefix)
           [] what = "arch" -> env.arch # None /\ env.arch # resolved.arch
           [] what = "version" -> AreVersionsDifferent(resolved.version, env.version)}
=============================================================================
