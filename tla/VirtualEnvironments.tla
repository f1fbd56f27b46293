-------------------------- MODULE VirtualEnvironments -------------------------
(***************************************************************************)
(* The locators of virtual environments: Venv, VirtualEnv,                   *)
(* VirtualEnvWrapper, PipEnv and Uv (crates/pet-venv, pet-virtualenv,        *)
(* pet-virtualenvwrapper, pet-pipenv, pet-uv), what they make of a PythonEnv *)
(* and what they find on a machine.                                          *)
(*                                                                         *)
(* Contents of the files that are read beside those of PythonFiles:          *)
(*   .project        the path of the project                                 *)
(*   pyproject.toml  [project, poetry, backend, workspace, hatch], the        *)
(*                   tables that matter, None when there is no such table     *)
(* c is the configuration of the locators: [workspaces, pipenvExecutable,    *)
(* ...].                                                                     *)
(***************************************************************************)
EXTENDS PythonFiles

InBin(p) == EndsWith(p, "bin") \/ EndsWith(p, "Scripts")

-----------------------------------------------------------------------------
(* crates/pet-venv                                                           *)
IsVenv(m, e) ==
  \/ PyVenvCfg(m, Parent(e.executable)) # None
  \/ e.prefix # None /\ PyVenvCfg(m, e.prefix) # None

VersionOf(m, e, prefix) ==
  CASE e.version # None -> e.version
    [] e.version = None /\ prefix # None -> VersionFromCreator(m, prefix)
    [] OTHER -> None

VenvTryFrom(m, e) ==
  LET prefix == IF e.prefix = None THEN Parent(Parent(e.executable)) ELSE e.prefix
      atExecutable == PyVenvCfg(m, Parent(e.executable))
      cfg == IF atExecutable # None THEN atExecutable ELSE PyVenvCfg(m, e.prefix)
  IN  IF ~IsVenv(m, e) THEN None
      ELSE Build(m, [Builder("Venv") EXCEPT
             !.executable = e.executable, !.prefix = prefix, !.name = cfg.prompt,
             !.version = VersionOf(m, e, prefix), !.symlinks = PythonsOf(m, prefix)])

(* try_environment_from_venv_dir: a venv whose Python is gone is reported    *)
(* with an error.                                                            *)
VenvFromDirectory(m, path) ==
  LET cfg == PyVenvCfg(m, path)
      python == FindExecutableOrBroken(m, path)
  IN  IF cfg = None THEN None
      ELSE Build(m, [Builder("Venv") EXCEPT
             !.executable = python.path, !.prefix = path, !.name = cfg.prompt,
             !.version = FirstSet(<<VersionFromCreator(m, path), cfg.version>>),
             !.symlinks = IF python.found = "Found" THEN PythonsOf(m, path) ELSE {},
             !.error = python.found # "Found"])

-----------------------------------------------------------------------------
(* crates/pet-virtualenv                                                     *)
ActivateNames == {"activate", "activate.bat", "activate.ps1"}

IsVirtualEnvDirImpl(m, path, bin) ==
  LET dir == IF InBin(path) THEN path ELSE Append(path, bin)
  IN  /\ dir \notin {<<"bin">>, <<"usr", "bin">>, <<"usr", "local", "bin">>}
      /\ \E name \in ActivateNames : Exists(m, Append(dir, name))

IsVirtualEnvDir(m, path) ==
  \/ IsVirtualEnvDirImpl(m, path, "bin")
  \/ Windows(m) /\ IsVirtualEnvDirImpl(m, path, "Scripts")

IsVirtualEnv(m, e) ==
  /\ e.prefix = None => InBin(Parent(e.executable))
  /\ IsVirtualEnvDir(m, Parent(e.executable))

VirtualEnvTryFrom(m, e) ==
  IF ~IsVirtualEnv(m, e) THEN None
  ELSE Build(m, [Builder("VirtualEnv") EXCEPT
         !.executable = e.executable, !.prefix = e.prefix,
         !.version = VersionOf(m, e, e.prefix),
         !.symlinks = IF e.prefix = None THEN {} ELSE PythonsOf(m, e.prefix)])

-----------------------------------------------------------------------------
(* crates/pet-virtualenvwrapper                                              *)
FirstExisting(m, paths) == FirstOf(SelectSeq(paths, LAMBDA p : Exists(m, p)))

DefaultVirtualEnvWrapperPath(m) ==
  LET home == UserHome(m)
      dir == FirstExisting(m, IF Windows(m)
               THEN <<Append(home, "Envs"), Append(home, ".virtualenvs"), Append(home, "virtualenvs")>>
               ELSE <<Append(home, ".virtualenvs")>>)
  IN  IF home = None \/ dir = None THEN None ELSE NormCase(m, dir)

WorkOnHomePath(m) ==
  LET workOnHome == m.vars["WORKON_HOME"]
  IN  IF workOnHome # None /\ Exists(m, NormCase(m, workOnHome)) THEN NormCase(m, workOnHome)
                                                    ELSE DefaultVirtualEnvWrapperPath(m)

IsUnderWorkOnHome(m, executable, dir) ==
  \/ StartsWith(executable, dir)
  \/ /\ Canonicalize(m, executable) # None /\ Canonicalize(m, dir) # None
     /\ StartsWith(NormCase(m, Canonicalize(m, executable)), NormCase(m, Canonicalize(m, dir)))

IsVirtualEnvWrapper(m, e) ==
  /\ e.prefix # None
  /\ WorkOnHomePath(m) # None
  /\ IsUnderWorkOnHome(m, e.executable, WorkOnHomePath(m))
  /\ IsVirtualEnv(m, e)

(* get_project: only a project that is still there.                          *)
WrapperProject(m, e) ==
  LET project == Read(m, Append(e.prefix, ".project"))
  IN  IF project # None /\ Exists(m, NormCase(m, project)) THEN NormCase(m, project) ELSE None

VirtualEnvWrapperTryFrom(m, e) ==
  IF ~IsVirtualEnvWrapper(m, e) THEN None
  ELSE Build(m, [Builder("VirtualEnvWrapper") EXCEPT
         !.executable = e.executable, !.prefix = e.prefix, !.name = FileName(e.prefix),
         !.version = VersionOf(m, e, e.prefix), !.project = WrapperProject(m, e),
         !.symlinks = PythonsOf(m, e.prefix)])

-----------------------------------------------------------------------------
(* crates/pet-pipenv                                                         *)
PipfileName(m) == IF m.vars["PIPENV_PIPFILE"] = None THEN "Pipfile" ELSE m.vars["PIPENV_PIPFILE"]

PipenvVirtualEnvDirs(m) ==
  LET home == UserHome(m)
      places == {m.vars["WORKON_HOME"], Below(m.vars["XDG_DATA_HOME"], <<"virtualenvs">>),
                 Below(home, <<".local", "share", "virtualenvs">>),
                 Below(home, <<".venvs">>), Below(home, <<".virtualenvs">>)} \ {None}
  IN  {NormCase(m, p) : p \in {q \in places : Exists(m, q)}}

(* Names of the form <project>-<8 characters>.                               *)
PipenvEnvNames == {"app-abcd1234"}

PrefixFromExecutable(e) ==
  IF e.prefix # None THEN e.prefix
  ELSE IF InBin(Parent(e.executable)) THEN Parent(Parent(e.executable)) ELSE None

IsInPipenvCentralizedDir(m, e) ==
  LET prefix == PrefixFromExecutable(e)
  IN  /\ prefix # None
      /\ NormCase(m, Parent(prefix)) \in PipenvVirtualEnvDirs(m)
      /\ Exists(m, Append(prefix, ".project")) \/ FileName(prefix) \in PipenvEnvNames

(* The directory of the environment, seen from the executable.               *)
VenvDirectory(e) ==
  IF InBin(Parent(e.executable)) THEN Parent(Parent(e.executable)) ELSE Parent(e.executable)

ProjectsWithPipfile(m, e) ==
  {Parent(d) : d \in {d \in {e.prefix, VenvDirectory(e)} \ {None} :
                        Exists(m, Append(Parent(d), "Pipfile"))}}

PipenvProjectFromPrefix(m, prefix) ==
  LET project == Read(m, Append(prefix, ".project"))
  IN  IF project = None THEN None ELSE NormCase(m, project)

PipenvProject(m, e) ==
  LET pipfileAbove(d) == IF d # None /\ Exists(m, Append(Parent(d), "Pipfile")) THEN Parent(d) ELSE None
  IN  FirstSet(<<IF e.prefix = None THEN None ELSE PipenvProjectFromPrefix(m, e.prefix),
                 pipfileAbove(e.prefix), pipfileAbove(VenvDirectory(e)),
                 PipenvProjectFromPrefix(m, VenvDirectory(e))>>)

IsPipenvFromProject(m, e) == ProjectsWithPipfile(m, e) # {}

IsPipenv(m, e) ==
  \/ IsInPipenvCentralizedDir(m, e)
  \/ PipenvProject(m, e) # None /\ Exists(m, Append(PipenvProject(m, e), PipfileName(m)))
  \/ IsPipenvFromProject(m, e)

PipenvTryFrom(m, e) ==
  IF ~IsPipenv(m, e) THEN None
  ELSE Build(m, [Builder("Pipenv") EXCEPT
         !.executable = e.executable, !.prefix = PrefixFromExecutable(e),
         !.project = PipenvProject(m, e),
         !.version = VersionOf(m, e, PrefixFromExecutable(e)),
         !.symlinks = PythonsOf(m, Parent(e.executable))])

(* get_virtualenvs_dir: one directory, where try_from knows several.         *)
PipenvVirtualEnvsDir(m) ==
  LET default == Below(UserHome(m), IF Windows(m) THEN <<".virtualenvs">>
                                                  ELSE <<".local", "share", "virtualenvs">>)
  IN  FirstOf(SelectSeq(<<m.vars["WORKON_HOME"], default>>,
                        LAMBDA p : p # None /\ IsDirectory(m, p)))

PipenvListEnvironments(m) ==
  LET dir == PipenvVirtualEnvsDir(m)
      bin == IF Windows(m) THEN "Scripts" ELSE "bin"
      python(p) == p \o <<bin, IF Windows(m) THEN "python.exe" ELSE "python">>
      project(p) == PipenvProjectFromPrefix(m, p)
      environments == {p \in IF dir = None THEN {} ELSE ReadDirectory(m, dir) :
                         /\ IsDirectory(m, p)
                         /\ project(p) # None
                         /\ Exists(m, Append(project(p), PipfileName(m)))
                         /\ IsFile(m, python(p))}
  IN  {Build(m, [Builder("Pipenv") EXCEPT
         !.executable = NormCase(m, python(p)), !.prefix = NormCase(m, p), !.project = project(p),
         !.version = VersionFromCreator(m, p), !.symlinks = PythonsOf(m, Append(p, bin))])
         : p \in environments}

(* PipenvManager::find                                                       *)
PipenvManager(m, executable) ==
  LET home == UserHome(m)
      unixPlaces == << <<".local", "bin", "pipenv">>,
                       <<".local", "pipx", "venvs", "pipenv", "bin", "pipenv">> >>
      windowsPlaces == << <<"AppData", "Roaming", "Python", "Scripts", "pipenv.exe">>,
                          <<"AppData", "Local", "Programs", "Python", "Scripts", "pipenv.exe">>,
                          <<".local", "pipx", "venvs", "pipenv", "Scripts", "pipenv.exe">> >>
      places == IF Windows(m) THEN unixPlaces \o windowsPlaces ELSE unixPlaces
      path == IF m.vars["PATH"] = None THEN <<>> ELSE m.vars["PATH"]
      onPath == FlattenSeq([i \in DOMAIN path |->
                  <<Append(path[i], "pipenv")>>
                    \o (IF Windows(m) THEN <<Append(path[i], "pipenv.exe")>> ELSE <<>>)])
      candidates == (IF executable = None THEN <<>> ELSE <<executable>>)
                      \o (IF home = None THEN <<>>
                          ELSE [i \in DOMAIN places |-> home \o places[i]] \o onPath)
      found == FirstOf(SelectSeq(candidates, LAMBDA p : IsFile(m, p)))
  IN  IF found = None THEN None ELSE [tool |-> "Pipenv", executable |-> found, version |-> None]

PipenvFind(m, c) ==
  [managers |-> {PipenvManager(m, c.pipenvExecutable)} \ {None},
   environments |-> PipenvListEnvironments(m)]

-----------------------------------------------------------------------------
(* crates/pet-uv                                                             *)

(* UvVenv::maybe_from_file: the last value of each key, until all three have *)
(* been seen.  A pyvenv.cfg without uv or version_info is not uv's.          *)
UvLines(lines) ==
  LET complete == {i \in DOMAIN lines :
                     {"uv", "version_info", "prompt"} \subseteq {lines[j].key : j \in 1..i}}
  IN  IF complete = {} THEN lines ELSE SubSeq(lines, 1, Min(complete))

LastValue(lines, key) ==
  LET of == SelectSeq(lines, LAMBDA l : l.key = key)
  IN  IF of = <<>> THEN None ELSE Last(of).value

UvVenvOf(lines) ==
  IF LastValue(lines, "uv") = None \/ LastValue(lines, "version_info") = None THEN None
  ELSE [version |-> LastValue(lines, "version_info"), prompt |-> LastValue(lines, "prompt")]

UvVenv(m, file) == IF Read(m, file) = None THEN None ELSE UvVenvOf(UvLines(Read(m, file)))

PyProject(m, dir) == Read(m, Append(dir, "pyproject.toml"))
UvWorkspaceOf(m, dir) == IF PyProject(m, dir) = None THEN None ELSE PyProject(m, dir).workspace

(* Directory names <implementation>-<version>-<platform>: the parts of the   *)
(* version, numeric or at least starting with a digit, and whether there is  *)
(* a platform.                                                               *)
Number(n) == [numeric |-> TRUE, digitFirst |-> TRUE, part |-> n]
UvDirectoryParts(name) ==
  CASE name = "cpython-3.12.1-linux" -> [version |-> <<Number(3), Number(12), Number(1)>>, platform |-> TRUE]
    [] name = "cpython-3.12-linux" -> [version |-> <<Number(3), Number(12)>>, platform |-> TRUE]
    [] OTHER -> [version |-> <<>>, platform |-> FALSE]

ParseVersionFromUvDirName(name) ==
  LET parts == UvDirectoryParts(name)
      n == Len(parts.version)
  IN  IF /\ parts.platform /\ n >= 2
         /\ \A i \in 1..n : parts.version[i].numeric \/ (i > 2 /\ i = n /\ parts.version[i].digitFirst)
        THEN [i \in 1..n |-> parts.version[i].part] ELSE None

UvPythonInstallDir(m) ==
  LET default == IF Windows(m) THEN Below(m.vars["APPDATA"], <<"uv", "python">>)
                 ELSE Below(UserHome(m), <<".local", "share", "uv", "python">>)
      xdg == IF Windows(m) THEN None ELSE Below(m.vars["XDG_DATA_HOME"], <<"uv", "python">>)
      dir == FirstOf(SelectSeq(<<m.vars["UV_PYTHON_INSTALL_DIR"], xdg, default>>,
                               LAMBDA p : p # None /\ IsDirectory(m, p)))
  IN  IF dir = None THEN None ELSE NormCase(m, dir)

UvManagedInstall(m, prefix, executable) ==
  Build(m, [Builder("Uv") EXCEPT
    !.executable = executable, !.prefix = prefix,
    !.version = ParseVersionFromUvDirName(FileName(prefix)), !.symlinks = PythonsOf(m, prefix)])

UvTryFromManagedInstall(m, e) ==
  LET dir == UvPythonInstallDir(m)
      prefix == SubSeq(e.executable, 1, Len(dir) + 1)
  IN  IF /\ dir # None /\ StartsWith(e.executable, dir) /\ Len(e.executable) > Len(dir)
         /\ ParseVersionFromUvDirName(FileName(prefix)) # None
         /\ ~IsLink(m, prefix)
        THEN UvManagedInstall(m, prefix, e.executable) ELSE None

FindManagedPythonInstalls(m) ==
  LET dir == UvPythonInstallDir(m)
  IN  IF dir = None THEN {}
      ELSE {UvManagedInstall(m, p, PythonOf(m, p)) :
              p \in {q \in ReadDirectory(m, dir) :
                       /\ IsDirectory(m, q) /\ ~IsLink(m, q)
                       /\ ParseVersionFromUvDirName(FileName(q)) # None
                       /\ PythonOf(m, q) # None}}

UvEnvironment(m, kind, prefix, executable, uvVenv) ==
  IF uvVenv = None THEN None
  ELSE Build(m, [Builder(kind) EXCEPT
         !.executable = executable, !.prefix = prefix, !.name = uvVenv.prompt,
         !.version = uvVenv.version, !.symlinks = PythonsOf(m, prefix)])

UvEnvironmentAt(m, e, prefix, cfg) ==
  IF cfg = None THEN None
  ELSE UvEnvironment(m, IF UvWorkspaceOf(m, Parent(prefix)) # None THEN "UvWorkspace" ELSE "Uv",
                     prefix, e.executable, UvVenv(m, cfg.file))

UvTryFromVenv(m, e) ==
  UvEnvironmentAt(m, e, IF e.prefix # None THEN e.prefix ELSE Parent(Parent(e.executable)),
    FirstSet(<<PyVenvCfg(m, Parent(e.executable)), IF e.prefix = None THEN None ELSE PyVenvCfg(m, e.prefix)>>))

UvTryFrom(m, e) == FirstSet(<<UvTryFromManagedInstall(m, e), UvTryFromVenv(m, e)>>)

(* The workspace's own directory is a member, whatever the patterns.         *)
IsWorkspaceMember(root, project, workspace) ==
  LET relative == SubSeq(project, Len(root) + 1, Len(project))
      matches(patterns) == \E p \in patterns : Matches(p, relative)
  IN  /\ StartsWith(project, root)
      /\ \/ relative = <<>>
         \/ ~matches(workspace.exclude) /\ (workspace.members = {} \/ matches(workspace.members))

UvEnvironmentIn(m, dir, kind) ==
  LET prefix == Append(dir, ".venv")
  IN  UvEnvironment(m, kind, prefix,
        FirstExisting(m, <<prefix \o <<"bin", "python">>, prefix \o <<"Scripts", "python.exe">> >>),
        UvVenv(m, Append(prefix, "pyvenv.cfg")))

(* find_workspace_for_project: the nearest workspace above decides.          *)
WorkspaceForProject(m, project) ==
  LET above == {i \in 0..Len(project) : UvWorkspaceOf(m, SubSeq(project, 1, i)) # None}
      root == SubSeq(project, 1, CHOOSE i \in above : \A j \in above : j <= i)
  IN  IF above # {} /\ IsWorkspaceMember(root, project, UvWorkspaceOf(m, root))
        THEN UvEnvironmentIn(m, root, "UvWorkspace") ELSE None

UvListEnvsInDirectory(m, dir) ==
  CASE PyProject(m, dir) = None -> {}
    [] UvWorkspaceOf(m, dir) # None -> {UvEnvironmentIn(m, dir, "UvWorkspace")} \ {None}
    [] PyProject(m, dir) # None /\ UvWorkspaceOf(m, dir) = None ->
         IF PyProject(m, dir).project = None THEN {}
         ELSE {UvEnvironmentIn(m, dir, "Uv"), WorkspaceForProject(m, dir)} \ {None}

UvFind(m, c) ==
  [managers |-> {},
   environments |-> FindManagedPythonInstalls(m)
                      \cup UNION {UvListEnvsInDirectory(m, w) : w \in c.workspaces}]
=============================================================================
