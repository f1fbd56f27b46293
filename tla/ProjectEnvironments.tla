-------------------------- MODULE ProjectEnvironments -------------------------
(***************************************************************************)
(* The locators that start from a project: Hatch and Poetry                  *)
(* (crates/pet-hatch, crates/pet-poetry).  What they remember between calls  *)
(* is the state of module Locators; here it is an argument.                  *)
(*                                                                         *)
(* Contents of the files that are read:                                      *)
(*   pyproject.toml  its project and poetry tables by their names, its       *)
(*                   backend, and hatch |-> the sections of hatch.toml       *)
(*   hatch.toml      [virtual, envs]: a path or None, a set of names         *)
(*   poetry.toml, config.toml   [path, inProject, cacheDir]                  *)
(***************************************************************************)
EXTENDS VirtualEnvironments

-----------------------------------------------------------------------------
(* crates/pet-hatch                                                          *)
StartsWithTilde(p) == p # <<>> /\ Head(p) = "~"

PlatformDefaultDataDir(m) ==
  CASE m.os = "linux" ->
         FirstSet(<<Below(m.vars["XDG_DATA_HOME"], <<"hatch">>),
                    Below(UserHome(m), <<".local", "share", "hatch">>)>>)
    [] m.os = "macos" -> Below(UserHome(m), <<"Library", "Application Support", "hatch">>)
    [] OTHER -> FirstSet(<<Below(m.vars["LOCALAPPDATA"], <<"hatch">>),
                           Below(UserHome(m), <<"AppData", "Local", "hatch">>)>>)

(* get_default_virtual_dir: HATCH_DATA_DIR or nothing, if it is set.         *)
HatchStorageIn(m, dataDir) ==
  IF dataDir = None \/ (m.vars["HATCH_DATA_DIR"] # None /\ StartsWithTilde(dataDir)) THEN None
  ELSE NormCase(m, dataDir \o <<"env", "virtual">>)

HatchDefaultVirtualDir(m) ==
  HatchStorageIn(m, IF m.vars["HATCH_DATA_DIR"] # None THEN ExpandPath(m, m.vars["HATCH_DATA_DIR"])
                    ELSE PlatformDefaultDataDir(m))

(* read_workspace_hatch_sections: those that are there.                      *)
HatchSections(m, workspace) ==
  {IF PyProject(m, workspace) = None THEN None ELSE PyProject(m, workspace).hatch,
   Read(m, Append(workspace, "hatch.toml"))} \ {None}

(* resolve_workspace_hatch_config: where the environments of a workspace are *)
(* and what they are called.                                                 *)
HatchVirtualDirs(m, workspace) ==
  LET raw == {s.virtual : s \in HatchSections(m, workspace)} \ {None, <<>>}
      expanded == {ExpandPath(m, p) : p \in raw}
      absolute(p) == Head(p) \in {"home", "work", "C:"}
  IN  {NormCase(m, IF absolute(p) THEN p ELSE workspace \o p)
         : p \in {q \in expanded : ~StartsWithTilde(q)}}

HatchEnvNames(m, workspace) ==
  {"default"} \cup UNION {s.envs : s \in HatchSections(m, workspace)}

HatchWorkspaceEntry(m, workspace) ==
  [virtualDirs |-> HatchVirtualDirs(m, workspace), names |-> HatchEnvNames(m, workspace)]

(* EnvNameMatcher: a declared name, or one of its variants.                  *)
HatchNameMatches(names, leaf) ==
  \E n \in names : leaf = n \/ TextStartsWith(leaf, n \o ".")

(* build_env                                                                 *)
HatchEnvironment(m, prefix, name, project, executable) ==
  LET prompt == PyVenvCfg(m, prefix).prompt
  IN  Build(m, [Builder("Hatch") EXCEPT
        !.executable = executable, !.prefix = prefix, !.version = PyVenvCfg(m, prefix).version,
        !.name = IF prompt # None THEN prompt ELSE name,
        !.symlinks = PythonsOf(m, prefix), !.project = project])

InHatchStorage(storage, p) == storage # None /\ StartsWith(p, storage) /\ Len(p) = Len(storage) + 3
MatchesDefaultStorageLayout(m, prefix) == InHatchStorage(HatchDefaultVirtualDir(m), NormCase(m, prefix))

(* entries are the entries of the workspaces, as they are remembered.        *)
HatchOwned(m, executable, prefix, owners, inStorage) ==
  IF (~inStorage /\ owners = {}) \/ PyVenvCfg(m, prefix) = None THEN None
  ELSE HatchEnvironment(m, prefix, FileName(prefix),
         IF inStorage THEN None ELSE CHOOSE w \in owners : TRUE, executable)

HatchIn(m, executable, prefix, entries) ==
  HatchOwned(m, executable, prefix,
    {w \in DOMAIN entries : /\ NormCase(m, Parent(prefix)) \in entries[w].virtualDirs
                            /\ HatchNameMatches(entries[w].names, FileName(prefix))},
    MatchesDefaultStorageLayout(m, prefix))

HatchTryFrom(m, e, entries) ==
  HatchIn(m, e.executable, IF e.prefix # None THEN e.prefix ELSE Parent(Parent(e.executable)), entries)

(* build_env_from_prefix                                                     *)
HatchFromPrefix(m, prefix, project) ==
  IF PyVenvCfg(m, prefix) = None \/ PythonOf(m, prefix) = None THEN None
  ELSE HatchEnvironment(m, prefix, FileName(prefix), project, PythonOf(m, prefix))

Directories(m, p) == {d \in ReadDirectory(m, p) : IsDirectory(m, d)}

FindEnvsInDefaultStorage(m, storage) ==
  {HatchFromPrefix(m, p, None) :
     p \in UNION {Directories(m, id) : id \in
             UNION {Directories(m, project) : project \in Directories(m, storage)}}} \ {None}

FindEnvsInFlatDir(m, dir, workspace, names) ==
  {HatchFromPrefix(m, p, workspace) :
     p \in {d \in Directories(m, dir) : HatchNameMatches(names, FileName(d))}} \ {None}

HatchFind(m, entries) ==
  LET storage == HatchDefaultVirtualDir(m)
  IN  [managers |-> {},
       environments |->
         (IF storage # None /\ IsDirectory(m, storage) THEN FindEnvsInDefaultStorage(m, storage) ELSE {})
           \cup UNION {UNION {FindEnvsInFlatDir(m, d, w, entries[w].names) : d \in entries[w].virtualDirs}
                         : w \in DOMAIN entries}]

-----------------------------------------------------------------------------
(* crates/pet-poetry: config.rs                                              *)

(* parse_contents: a cache directory implies where the environments are.     *)
ParsePoetryConfig(m, file) ==
  LET t == IF file = None THEN None ELSE Read(m, file)
  IN  IF t = None THEN [path |-> None, inProject |-> None, cacheDir |-> None]
      ELSE [t EXCEPT !.path = IF @ = None THEN Below(t.cacheDir, <<"virtualenvs">>) ELSE @]

PoetryCacheDir(m, cfg) ==
  FirstOf(SelectSeq(<<m.vars["POETRY_CACHE_DIR"], cfg.cacheDir>>,
                    LAMBDA p : p # None /\ IsDirectory(m, p))
          \o <<UserCacheDir(m, "pypoetry")>>)

ResolveVirtualenvsPath(p, cacheDir) ==
  IF p # None /\ p # <<>> /\ Head(p) = "{cache-dir}" /\ cacheDir # None THEN cacheDir \o Tail(p) ELSE p

(* create_config: the path of the variable, of the file, or of the cache.    *)
(* With the last, what the file says of virtualenvs.in-project is lost.      *)
ConfigWith(m, file, cfg, cacheDir, variable) ==
  LET config(path, inProject) ==
        [file |-> file, path |-> path, cacheDir |-> cacheDir, inProject |-> inProject]
  IN  CASE cfg.path # None ->
             config(FirstSet(<<variable, ResolveVirtualenvsPath(cfg.path, cacheDir)>>), cfg.inProject)
        [] cfg.path = None /\ variable # None /\ Exists(m, variable) -> config(variable, cfg.inProject)
        [] OTHER -> IF cacheDir = None THEN None ELSE config(cacheDir \o <<"virtualenvs">>, None)

ConfigIn(m, file, cfg, cacheDir) ==
  ConfigWith(m, file, cfg, cacheDir, ResolveVirtualenvsPath(m.vars["POETRY_VIRTUALENVS_PATH"], cacheDir))

ConfigOf(m, file, cfg) == ConfigIn(m, file, cfg, PoetryCacheDir(m, cfg))
CreateConfig(m, file) == ConfigOf(m, file, ParsePoetryConfig(m, file))

PoetryConfigDir(m) ==
  LET dir == m.vars["POETRY_CONFIG_DIR"]
  IN  IF dir # None /\ IsDirectory(m, dir) THEN dir ELSE UserConfigPath(m, "pypoetry", TRUE)

FindGlobalConfig(m) ==
  LET file == Below(PoetryConfigDir(m), <<"config.toml">>)
  IN  CreateConfig(m, IF file # None /\ Exists(m, file) THEN file ELSE None)

FindLocalConfig(m, dir) ==
  LET file == Append(dir, "poetry.toml")
  IN  IF IsFile(m, file) THEN CreateConfig(m, file) ELSE None

-----------------------------------------------------------------------------
(* manager.rs                                                                *)
PoetryHome(m) ==
  LET home == UserHome(m)
      value == m.vars["POETRY_HOME"]
  IN  IF home = None \/ value = None THEN None
      ELSE IF StartsWithTilde(value) THEN home \o Tail(value) ELSE value

(* The release that Homebrew's Cellar has in the path.                       *)
PoetryVersionFromPath(m, executable) ==
  LET real == FirstSet(<<ResolveAnySymlink(m, executable), executable>>)
      at == {i \in 1..(Len(real) - 2) : real[i] = "Cellar" /\ real[i + 1] = "poetry"}
  IN  IF at = {} THEN None ELSE real[(CHOOSE i \in at : TRUE) + 2]

PoetrySearchPaths(m) ==
  LET home == UserHome(m)
      poetryHome == PoetryHome(m)
      appData == m.vars["APPDATA"]
      under(base, rests) == IF base = None THEN <<>> ELSE [i \in DOMAIN rests |-> base \o rests[i]]
  IN  under(home, << <<".poetry", "bin", "poetry">>,
                     <<".local", "pipx", "venvs", "poetry", "bin", "poetry">> >>)
      \o (IF Windows(m) THEN under(poetryHome, << <<"bin", "poetry.exe">>, <<"venv", "bin", "poetry.exe">> >>)
                        ELSE <<>>)
      \o under(poetryHome, << <<"bin", "poetry">>, <<"venv", "bin", "poetry">> >>)
      \o CASE Windows(m) ->
                under(appData, << <<"pypoetry", "venv", "Scripts", "poetry.exe">>,
                                  <<"Roaming", "Python", "Scripts", "poetry.exe">>,
                                  <<"pypoetry", "venv", "Scripts", "poetry">>,
                                  <<"Python", "scripts", "poetry.exe">>, <<"Python", "scripts", "poetry">> >>)
                \o under(home, << <<".local", "bin", "poetry">> >>)
           [] m.os = "macos" ->
                under(home, << <<"Library", "Application Support", "pypoetry", "venv", "bin", "poetry">>,
                               <<".local", "bin", "poetry">> >>)
           [] OTHER ->
                under(home, << <<".local", "share", "pypoetry", "venv", "bin", "poetry">>,
                               <<".local", "bin", "poetry">> >>)

(* PoetryManager::find                                                       *)
PoetryManager(m, executable) ==
  LET path == IF m.vars["PATH"] = None THEN <<>> ELSE m.vars["PATH"]
      onPath == FlattenSeq([i \in DOMAIN path |->
                  <<Append(path[i], "poetry")>>
                    \o (IF Windows(m) THEN <<Append(path[i], "poetry.exe")>> ELSE <<>>)])
      candidates == (IF executable = None THEN <<>> ELSE <<executable>>)
                      \o (IF UserHome(m) = None THEN <<>> ELSE PoetrySearchPaths(m) \o onPath)
      found == FirstOf(SelectSeq(candidates, LAMBDA p : IsFile(m, p)))
  IN  IF found = None THEN None
      ELSE [tool |-> "Poetry", executable |-> found, version |-> PoetryVersionFromPath(m, found)]

-----------------------------------------------------------------------------
(* environment.rs, pyproject_toml.rs, environment_locations.rs               *)
PoetryEnvWith(m, prefix, project, manager, pythons) ==
  IF ~Exists(m, prefix) \/ pythons = {} THEN None
  ELSE Build(m, [Builder("Poetry") EXCEPT
         !.executable = CHOOSE p \in pythons : TRUE, !.prefix = prefix,
         !.version = VersionFromCreator(m, prefix), !.manager = manager, !.project = project,
         !.symlinks = pythons])

CreatePoetryEnv(m, prefix, project, manager) ==
  PoetryEnvWith(m, prefix, project, manager, PythonsOf(m, prefix))

(* The name in [tool.poetry] before the one in [project].                    *)
PoetryProjectName(m, dir) ==
  IF PyProject(m, dir) = None THEN None
  ELSE FirstSet(<<PyProject(m, dir).poetry, PyProject(m, dir).project>>)

(* The hash that Poetry takes of the directory of a project; different for   *)
(* different directories.                                                    *)
PathHash(p) == FoldLeft(LAMBDA s, name : s \o name, "", p)
GenerateEnvName(m, name, dir) == name \o "-" \o PathHash(NormCase(m, dir)) \o "-py"

ListAllEnvironmentsFromConfig(m, config) ==
  IF config = None THEN {} ELSE Directories(m, config.path)

(* Project before environment variable before global configuration.          *)
ShouldUseLocalVenvAsPoetryEnv(m, global, local) ==
  LET inProject(config) == IF config = None THEN None ELSE config.inProject
      setting == FirstSet(<<inProject(local), m.vars["POETRY_VIRTUALENVS_IN_PROJECT"],
                            inProject(global)>>)
  IN  setting # None /\ setting

EnvironmentsWith(m, global, local, venv) ==
  ListAllEnvironmentsFromConfig(m, local)
    \cup (IF ShouldUseLocalVenvAsPoetryEnv(m, global, local) /\ IsDirectory(m, venv) THEN {venv} ELSE {})

ListAllEnvironmentsFromProjectConfig(m, global, dir) ==
  EnvironmentsWith(m, global, FindLocalConfig(m, dir), Append(dir, ".venv"))

PoetryEnvironmentsOf(m, global, w, name, manager) ==
  IF name = None THEN {}
  ELSE {CreatePoetryEnv(m, p, w, manager) :
          p \in {q \in ListAllEnvironmentsFromProjectConfig(m, global, w)
                          \cup ListAllEnvironmentsFromConfig(m, global) :
                   \/ TextStartsWith(FileName(q), GenerateEnvName(m, name, w))
                   \/ TextStartsWith(FileName(q), ".venv")}} \ {None}

PoetryListEnvironments(m, global, workspaces, manager) ==
  UNION {PoetryEnvironmentsOf(m, global, w, PoetryProjectName(m, w), manager) : w \in workspaces}

(* What find_with_cache computes when nothing is cached.                     *)
PoetryFoundWith(m, c, manager) ==
  [managers |-> {manager} \ {None},
   environments |-> PoetryListEnvironments(m, FindGlobalConfig(m), c.workspaces, manager)]

PoetrySearch(m, c) == PoetryFoundWith(m, c, PoetryManager(m, c.poetryExecutable))

(* Names of the form <name>-<8 characters>-py<version>.                      *)
PoetryEnvNames == {"app-homeapp-py3.12", "app-worklib-py3.12"}

IsPoetryCacheEnvironment(p) ==
  /\ \E i, j \in DOMAIN p : i < j /\ p[i] = "pypoetry" /\ p[j] = "virtualenvs"
  /\ FileName(p) \in PoetryEnvNames

IsInProjectPoetryEnvironment(m, p) ==
  LET toml == PyProject(m, Parent(p))
  IN  /\ EndsWith(p, ".venv")
      /\ \/ IsFile(m, Append(Parent(p), "poetry.toml"))
         \/ toml # None /\ (toml.poetry # None \/ toml.backend = "poetry-core")

(* found are the environments of the cached search.                          *)
PoetryProjectOf(m, prefix) ==
  CASE IsPoetryCacheEnvironment(prefix) -> prefix
    [] ~IsPoetryCacheEnvironment(prefix) /\ IsInProjectPoetryEnvironment(m, prefix) -> Parent(prefix)
    [] OTHER -> None

PoetryEnvAt(m, prefix, project) ==
  IF project = None THEN None ELSE CreatePoetryEnv(m, prefix, project, None)

PoetryTryFrom(m, e, found) ==
  LET known == {env \in found : e.executable \in env.symlinks}
  IN  IF ~IsVirtualEnv(m, e) THEN None
      ELSE CASE known # {} -> CHOOSE env \in known : TRUE
             [] known = {} /\ e.prefix # None -> PoetryEnvAt(m, e.prefix, PoetryProjectOf(m, e.prefix))
             [] OTHER -> None

(* merge_search_result_from                                                  *)
MergeSearchResults(mine, source) ==
  IF source = None THEN mine
  ELSE [managers |-> source.managers \cup (IF mine = None THEN {} ELSE mine.managers),
        environments |-> source.environments \cup (IF mine = None THEN {} ELSE mine.environments)]
=============================================================================
