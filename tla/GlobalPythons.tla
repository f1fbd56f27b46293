----------------------------- MODULE GlobalPythons ----------------------------
(***************************************************************************)
(* The locators of interpreters that are not virtual environments, on Linux  *)
(* and macOS: PyEnv, Homebrew, LinuxGlobalPython, MacCmdLineTools, MacXCode  *)
(* and MacPythonOrg, and the lists of places that are searched               *)
(* (pet-env-var-path, pet-global-virtualenvs).                               *)
(*                                                                         *)
(* The contents of a Python executable is what it prints when it is run:     *)
(* [executable, prefix, version, is64], executable None for its own path;    *)
(* None when running it fails.                                               *)
(***************************************************************************)
EXTENDS VirtualEnvironments

(* Names that are versions, or begin with one.                               *)
VersionName(name) ==
  CASE name = "3.12.4" -> <<3, 12, 4>>
    [] name = "3.11.9_1" -> <<3, 11, 9>>
    [] name = "3.13-dev" -> <<3, 13, "dev">>
    [] OTHER -> None

(* ResolvedPythonEnv::from, without its cache, and to_python_env.  Python     *)
(* takes its prefix from a pyvenv.cfg beside or above the path it was started *)
(* with.                                                                     *)
Spawn(m, p) ==
  LET info == Read(m, p)
      executable == IF info.executable = None THEN p ELSE info.executable
      venv == SelectSeq(<<Parent(executable), Parent(Parent(executable))>>,
                        LAMBDA d : IsFile(m, Append(d, "pyvenv.cfg")))
  IN  IF info = None THEN None
      ELSE [executable |-> executable, version |-> info.version,
            prefix |-> IF venv = <<>> THEN info.prefix ELSE Head(venv),
            is64 |-> info.is64, symlinks |-> {p, executable}]

ToPythonEnv(m, r) ==
  [PythonEnv(m, r.executable, r.prefix, r.version) EXCEPT !.symlinks = r.symlinks]

Arch(is64) == IF is64 THEN "x64" ELSE "x86"

IsCondaEnv(m, p) ==
  IsDirectory(m, Append(p, "conda-meta")) /\ ~IsFile(m, p \o <<"conda-meta", "pixi">>)

InCondaEnv(m, e) ==
  \/ e.prefix # None /\ IsCondaEnv(m, e.prefix)
  \/ IsCondaEnv(m, Parent(e.executable))
  \/ IsCondaEnv(m, Parent(Parent(e.executable)))

(* resolve_symlink, or else canonicalize.                                    *)
RealExecutable(m, p) == FirstSet(<<ResolveSymlink(m, p), Canonicalize(m, p)>>)

-----------------------------------------------------------------------------
(* Search paths: os_environment.rs, pet-env-var-path, pet-global-virtualenvs *)
UnixSearchLocations ==
  LET in(parent, names) == [i \in 1..Len(names) |-> parent \o names[i]]
      usr == <<<<"bin">>, <<"games">>, <<"include">>, <<"lib">>, <<"lib", "x86_64-linux-gnu">>,
               <<"lib64">>, <<"libexec">>, <<"local">>, <<"local", "bin">>, <<"local", "etc">>,
               <<"local", "games">>, <<"local", "lib">>, <<"local", "sbin">>, <<"sbin">>, <<"share">>>>
      bins == <<<<"bin">>, <<"sbin">>>>
  IN  <<<<"bin">>, <<"etc">>, <<"lib">>, <<"lib", "x86_64-linux-gnu">>, <<"lib64">>, <<"sbin">>,
        <<"snap", "bin">>>> \o in(<<"usr">>, usr) \o in(<<"home">>, bins)
      \o <<<<"opt">>>> \o in(<<"opt">>, bins)

(* get_know_global_search_locations: the PATH first.                         *)
KnownGlobalSearchLocations(m) ==
  LET path == IF m.vars["PATH"] = None THEN <<>> ELSE m.vars["PATH"]
      rest == SelectSeq(UnixSearchLocations, LAMBDA p : p \notin ToSet(path))
      local == IF UserHome(m) = None THEN <<>> ELSE <<UserHome(m) \o <<".local", "bin">> >>
  IN  SelectSeq(IF Windows(m) THEN path ELSE path \o rest \o local, LAMBDA p : Exists(m, p))

IsWindowsAppsPath(m, p) ==
  LET apps == <<"AppData", "Local", "Microsoft", "WindowsApps">>
  IN  \/ UserHome(m) # None /\ StartsWith(p, UserHome(m) \o apps)
      \/ \E i \in 0..(Len(p) - 4) : SubSeq(p, i + 1, i + 4) = apps

SearchPathsFromEnvVariables(m) ==
  LET normalize(p) == IF Windows(m) THEN NormCase(m, p) ELSE FirstSet(<<Canonicalize(m, p), p>>)
      all == {normalize(p) : p \in ToSet(KnownGlobalSearchLocations(m))}
  IN  {p \in all : ~IsWindowsAppsPath(m, p)}

GlobalVirtualEnvDirs(m) ==
  LET home == UserHome(m)
      workOnHome == IF m.vars["WORKON_HOME"] = None THEN None
                    ELSE NormCase(m, ExpandPath(m, m.vars["WORKON_HOME"]))
      underHome == {<<"envs">>, <<".direnv">>, <<".venvs">>, <<".virtualenvs">>,
                    <<".local", "share", "virtualenvs">>}
                     \cup (IF m.os = "linux" THEN {<<"Envs">>} ELSE {})
      all == {workOnHome, Below(m.vars["XDG_DATA_HOME"], <<"virtualenvs">>)}
               \cup {Below(home, d) : d \in underHome}
  IN  {p \in all \ {None} : Exists(m, p)}

ListGlobalVirtualEnvsPaths(m) ==
  LET active == IF m.vars["VIRTUAL_ENV"] = None THEN None
                ELSE NormCase(m, ExpandPath(m, m.vars["VIRTUAL_ENV"]))
  IN  (IF active # None /\ Exists(m, active) THEN {active} ELSE {})
      \cup UNION {{p \in ReadDirectory(m, d) : ~IsCondaEnv(m, p)} : d \in GlobalVirtualEnvDirs(m)}

-----------------------------------------------------------------------------
(* crates/pet-pyenv                                                          *)
HomePyenvDir(m) ==
  IF UserHome(m) = None THEN None
  ELSE NormCase(m, UserHome(m) \o (IF Windows(m) THEN <<".pyenv", "pyenv-win">> ELSE <<".pyenv">>))

PyenvDir(m) == FirstSet(<<m.vars["PYENV_ROOT"], m.vars["PYENV"]>>)

PyenvFromKnownPaths(m) ==
  LET places == KnownGlobalSearchLocations(m)
      name == IF Windows(m) THEN "pyenv.bat" ELSE "pyenv"
      found == FirstOf(SelectSeq([i \in DOMAIN places |-> Append(places[i], name)],
                                 LAMBDA p : IsFile(m, p)))
  IN  IF found = None THEN None ELSE NormCase(m, found)

(* The version of pyenv: of the file .version on Windows, of the target of   *)
(* the link in Homebrew's Cellar elsewhere.                                  *)
PyenvManagerVersion(m, executable) ==
  LET dir == FirstSet(<<PyenvDir(m), IF HomePyenvDir(m) = None THEN None ELSE Parent(HomePyenvDir(m))>>)
      file == FirstExisting(m, <<Append(dir, ".version"), Append(Parent(dir), ".version")>>)
      target == m.disk[Entry(m, executable)].target
      at == {i \in 2..Len(target) : target[i - 1] = "pyenv" /\ VersionName(target[i]) # None}
  IN  CASE Windows(m) -> IF dir = None \/ file = None THEN None ELSE Read(m, file)
        [] ~Windows(m) /\ IsLink(m, executable) ->
             IF at = {} THEN None ELSE VersionName(target[CHOOSE i \in at : TRUE])
        [] OTHER -> None

(* get_pyenv_info                                                            *)
PyenvInfo(m) ==
  LET existing(p) == IF p # None /\ Exists(m, p) THEN p ELSE None
      executable == FirstSet(<<PyenvFromKnownPaths(m),
                               existing(Below(PyenvDir(m), <<"bin", "pyenv">>)),
                               existing(Below(HomePyenvDir(m), <<"bin", "pyenv">>))>>)
  IN  [manager |-> IF executable = None THEN None
                   ELSE [tool |-> "Pyenv", executable |-> executable,
                         version |-> PyenvManagerVersion(m, executable)],
       versions |-> FirstSet(<<existing(Below(PyenvDir(m), <<"versions">>)),
                               existing(Below(HomePyenvDir(m), <<"versions">>))>>)]

PyenvEnvironment(m, executable, path, manager) ==
  LET virtual == FromPyVenvCfg(m, path)
  IN  Build(m, [Builder(IF virtual # None THEN "PyenvVirtualEnv" ELSE "Pyenv") EXCEPT
        !.executable = executable, !.prefix = path, !.manager = manager,
        !.version = FirstSet(<<virtual, HeadersVersion(m, path), VersionName(FileName(path))>>),
        !.symlinks = PythonsOf(m, path)])

(* info is what get_manager_versions_dir has cached.                         *)
PyenvTryFrom(m, e, info) ==
  IF /\ ~InCondaEnv(m, e)
     /\ info.versions # None /\ StartsWith(e.executable, info.versions)
     /\ e.prefix # None
    THEN PyenvEnvironment(m, e.executable, e.prefix, info.manager) ELSE None

(* Conda environments among the versions are left to the Conda locator.      *)
PyenvFind(m, info) ==
  LET paths == IF info.versions = None THEN {}
               ELSE {p \in ReadDirectory(m, info.versions) : PythonOf(m, p) # None}
  IN  [managers |-> {info.manager} \ {None},
       environments |-> {PyenvEnvironment(m, PythonOf(m, p), p, info.manager)
                           : p \in {q \in paths : ~IsCondaEnv(m, q)}},
       condaDirs |-> {p \in paths : IsCondaEnv(m, p)}]

-----------------------------------------------------------------------------
(* crates/pet-homebrew                                                       *)
OptHomebrew == <<"opt", "homebrew">>
LinuxBrew == <<"home", "linuxbrew", ".linuxbrew">>
UsrLocal == <<"usr", "local">>
Cellar == <<"usr", "local", "Cellar">>

IsHomebrewPython(p) == \E root \in {OptHomebrew, Cellar, LinuxBrew} : StartsWith(p, root)

(* Whether a path has /python@<version>/ in it, and the version.             *)
FormulaVersion(p) ==
  LET at == {i \in 1..(Len(p) - 1) : Len(p[i]) >= 7 /\ SubSeq(p[i], 1, 7) = "python@"}
  IN  IF at = {} THEN None ELSE LET name == p[CHOOSE i \in at : TRUE] IN SubSeq(name, 8, Len(name))

HomebrewVersion(p) ==
  LET at == {i \in DOMAIN p : VersionName(p[i]) # None}
  IN  IF at = {} THEN None ELSE p[CHOOSE i \in at : \A j \in at : i <= j]

(* get_known_symlinks_impl: the well known places that lead to the           *)
(* executable.                                                               *)
Opts(root, formulas, names) == {root \o <<"opt", f, "bin", n>> : f \in formulas, n \in names}

KnownPlaces(resolved, v, full, python, formula) ==
  LET framework == <<"Frameworks", "Python.framework", "Versions">>
  IN  CASE StartsWith(resolved, OptHomebrew) ->
             {OptHomebrew \o <<"bin", n>> : n \in {"python", "python3", python}}
             \cup Opts(OptHomebrew, {formula, "python", "python@3"}, {"python3", python})
             \cup Opts(OptHomebrew, {"python3"}, {python})
             \cup Opts(UsrLocal, {formula, "python@3"}, {"python3", python})
             \cup {OptHomebrew \o <<"Cellar", formula, full, "bin", python>>}
             \cup {OptHomebrew \o <<"Cellar", formula, full>> \o framework \o <<d, "bin", python>>
                     : d \in {v, "Current"}}
             \cup {OptHomebrew \o framework \o <<d, "bin", python>> : d \in {v, "Current"}}
        [] StartsWith(resolved, Cellar) ->
             {UsrLocal \o <<"bin", n>> : n \in {"python", "python3", python}}
             \cup Opts(UsrLocal, {formula, "python@3"}, {"python3", python})
             \cup {Cellar \o <<formula, full, "bin", python>>,
                   Cellar \o <<formula, full>> \o framework \o <<v, "bin", python>>}
        [] OTHER ->
             {LinuxBrew \o <<"bin", n>> : n \in {"python3", python}}
             \cup {LinuxBrew \o <<"Cellar", formula, full, "bin", n>> : n \in {"python3", python}}
             \cup Opts(LinuxBrew, {formula, "python3", "python@3"}, {"python3", python})
             \cup {UsrLocal \o <<"bin", n>> : n \in {"python", "python3", python}}

KnownSymlinksOf(m, resolved, v, full) ==
  IF v = None THEN {}
  ELSE {resolved} \cup
       {p \in KnownPlaces(resolved, v, full, "python" \o v, "python@" \o v) :
          resolved = IF StartsWith(resolved, Cellar) THEN ResolveSymlink(m, p) ELSE RealExecutable(m, p)}

(* get_known_symlinks: and the executables beside them that lead there too.  *)
WithPythonsBeside(m, known) ==
  known \cup UNION {{p \in PythonsOf(m, Parent(s)) : ResolveSymlink(m, p) \in known} : s \in known}

KnownSymlinks(m, resolved, full) ==
  WithPythonsBeside(m, KnownSymlinksOf(m, resolved, FormulaVersion(resolved), full))

(* get_python_info                                                           *)
HomebrewPythonInfo(m, inBin, resolved) ==
  LET version == HomebrewVersion(resolved)
      bin == Parent(inBin)
  IN  Build(m, [Builder("Homebrew") EXCEPT
        !.executable = inBin, !.version = IF version = None THEN None ELSE VersionName(version),
        !.symlinks = {inBin, resolved}
          \cup (IF version = None THEN {} ELSE KnownSymlinks(m, resolved, version))
          \cup {p \in {Append(bin, "python"), Append(bin, "python3")} : ResolveSymlink(m, p) = resolved}])

HomebrewRoot(resolved) ==
  CASE StartsWith(resolved, OptHomebrew) -> OptHomebrew
    [] StartsWith(resolved, LinuxBrew) -> LinuxBrew
    [] OTHER -> UsrLocal

HomebrewFor(m, executable, resolved) ==
  IF ~IsHomebrewPython(resolved) THEN None
  ELSE HomebrewPythonInfo(m, HomebrewRoot(resolved) \o <<"bin", FileName(executable)>>, resolved)

HomebrewTryFrom(m, e) ==
  LET real == RealExecutable(m, e.executable)
  IN  IF IsVirtualEnv(m, e) \/ InCondaEnv(m, e) THEN None
      ELSE HomebrewFor(m, e.executable,
             IF real # None /\ IsHomebrewPython(real) THEN real
             ELSE FirstSet(<<ResolveSymlink(m, e.executable), e.executable>>))

HomebrewPrefixBins(m) ==
  {p \in {LinuxBrew \o <<"bin">>, OptHomebrew \o <<"bin">>, UsrLocal \o <<"bin">>,
          Below(m.vars["HOMEBREW_PREFIX"], <<"bin">>)} \ {None} : Exists(m, p)}

HomebrewFind(m) ==
  LET files == UNION {{p \in PythonsOf(m, bin) : FileName(p) \notin {"python", "python3"}}
                        : bin \in HomebrewPrefixBins(m)}
  IN  [managers |-> {},
       environments |-> {HomebrewTryFrom(m, PythonEnv(m, p, None, None)) : p \in files} \ {None}]

-----------------------------------------------------------------------------
(* crates/pet-linux-global-python.  cache is reported_executables.           *)
LinuxBinDirs == {<<"bin">>, <<"usr", "bin">>, <<"usr", "local", "bin">>}

(* get_python_in_bin: executables of the same directory that are the same    *)
(* file, there or elsewhere.                                                 *)
PythonInBin(m, e, is64) ==
  LET bin == Parent(e.executable)
      real == {RealExecutable(m, e.executable), Canonicalize(m, e.executable)} \ {None}
      there == {p \in real : StartsWith(p, bin)}
      known == e.symlinks \cup {e.executable} \cup there
      same == {p \in PythonsOf(m, bin) :
                 \/ StartsWith(RealExecutable(m, p), bin) /\ RealExecutable(m, p) \in known
                 \/ RealExecutable(m, p) \in real \ there}
  IN  IF e.version = None \/ e.prefix = None THEN None
      ELSE Build(m, [Builder("LinuxGlobal") EXCEPT
             !.executable = e.executable, !.version = e.version, !.arch = Arch(is64),
             !.prefix = e.prefix, !.symlinks = known \cup same])

(* The keys of the cache are all paths of the environments in it.            *)
Remember(cache, paths, env) ==
  [p \in DOMAIN cache \cup paths |-> IF p \in paths THEN env ELSE cache[p]]

RememberPython(m, exe, known, env) ==
  IF exe \in DOMAIN known \/ env = None THEN known
  ELSE Remember(known, env.symlinks \cup {env.executable}, env)

SpawnedInBin(m, resolved) ==
  IF resolved = None THEN None ELSE PythonInBin(m, ToPythonEnv(m, resolved), resolved.is64)

LinuxFindCached(m, cache) ==
  IF m.os # "linux" THEN cache
  ELSE FoldSet(LAMBDA exe, known : RememberPython(m, exe, known, SpawnedInBin(m, Spawn(m, exe))), cache,
               UNION {PythonsOf(m, FirstSet(<<Canonicalize(m, p), p>>)) : p \in LinuxBinDirs})

(* The environment, and the cache with the executable under which it was     *)
(* asked for.                                                                *)
LookUp(executable, canonical, cache) ==
  LET found == [cache[canonical] EXCEPT !.symlinks = @ \cup {executable}]
  IN  CASE executable \in DOMAIN cache -> [env |-> cache[executable], cache |-> cache]
        [] executable \notin DOMAIN cache /\ canonical \in DOMAIN cache ->
             [env |-> found, cache |-> Remember(cache, {canonical, executable}, found)]
        [] OTHER -> [env |-> None, cache |-> cache]

LinuxTryFrom(m, e, before) ==
  LET canonical == Canonicalize(m, e.executable)
      inBin(p) == p # None /\ \E bin \in LinuxBinDirs : StartsWith(p, bin)
  IN  IF \/ m.os # "linux" \/ IsVirtualEnv(m, e) \/ e.version = None
         \/ ~(inBin(e.executable) \/ inBin(canonical))
        THEN [env |-> None, cache |-> before]
        ELSE LookUp(e.executable, canonical, LinuxFindCached(m, before))

LinuxFind(m) ==
  LET cache == LinuxFindCached(m, [p \in {} |-> None])
  IN  [managers |-> {}, environments |-> {cache[p] : p \in DOMAIN cache}]

-----------------------------------------------------------------------------
(* macOS: names of executables and of versions of a framework.               *)
MacPythonNames == {"python", "python3", "python3.11", "python3.12"}
FrameworkVersions == {"Current", "3.11", "3.12"}
UsrBinPython3 == <<"usr", "bin", "python3">>

IsFrameworkPython(p, versions) ==
  /\ StartsWith(p, versions) /\ Len(p) = Len(versions) + 3
  /\ p[Len(p) - 2] \in FrameworkVersions /\ p[Len(p) - 1] = "bin" /\ FileName(p) \in MacPythonNames

IsToolsPython(p, root) ==
  \/ Parent(p) = root \o <<"usr", "bin">> /\ FileName(p) \in MacPythonNames
  \/ IsFrameworkPython(p, root \o <<"Library", "Frameworks", "Python3.framework", "Versions">>)

SameAs(m, paths, symlinks) == {p \in paths : ResolveSymlink(m, p) \in symlinks}

(* /usr/bin/python3 is not a link: it has to be run to know that it is one   *)
(* of symlinks.                                                              *)
UsrBinPython(m, symlinks) ==
  LET resolved == Spawn(m, UsrBinPython3)
  IN  IF UsrBinPython3 \notin symlinks /\ resolved # None /\ resolved.executable \in symlinks
        THEN resolved ELSE None

(* python3 beside an executable of the framework.                            *)
FrameworkPython3(m, symlinks, frameworks) ==
  LET inFramework == {p \in symlinks : StartsWith(p, frameworks)}
      python3 == Append(Parent(CHOOSE p \in inFramework : TRUE), "python3")
  IN  IF inFramework = {} THEN {} ELSE SameAs(m, {python3}, symlinks)

(* Version and prefix of what was run, of the caller, of the headers, or at  *)
(* last of the executable itself.                                            *)
ToolsEnvironmentOf(m, kind, executable, symlinks, version, prefix, source) ==
  Build(m, [Builder(kind) EXCEPT
    !.executable = executable, !.symlinks = symlinks, !.version = version, !.prefix = prefix,
    !.arch = IF source = None THEN None ELSE Arch(source.is64)])

ToolsEnvironmentOrRun(m, kind, e, symlinks, version, prefix, run) ==
  IF (version = None \/ prefix = None) /\ run # None
    THEN ToolsEnvironmentOf(m, kind, e.executable, symlinks, run.version, run.prefix, run)
    ELSE ToolsEnvironmentOf(m, kind, e.executable, symlinks, version, prefix, None)

ToolsEnvironment(m, kind, e, symlinks, usrBin, prefix) ==
  IF usrBin # None
    THEN ToolsEnvironmentOf(m, kind, e.executable, symlinks, usrBin.version, usrBin.prefix, usrBin)
    ELSE ToolsEnvironmentOrRun(m, kind, e, symlinks,
           CASE e.version # None -> e.version
             [] e.version = None /\ prefix # None -> HeadersVersion(m, prefix)
             [] OTHER -> None,
           prefix, Spawn(m, e.executable))

(* What has been found so far and, if it is one of them, /usr/bin/python3    *)
(* and the python3 of the framework.                                         *)
WithUsrBin(m, known, usrBin, frameworks) ==
  LET spawned == known \cup (IF usrBin = None THEN {} ELSE {UsrBinPython3})
  IN  spawned \cup FrameworkPython3(m, spawned, frameworks)

(* crates/pet-mac-commandlinetools                                           *)
CommandLineTools == <<"Library", "Developer", "CommandLineTools">>

CommandLineToolsBin == CommandLineTools \o <<"usr", "bin">>
CommandLineToolsFrameworks == CommandLineTools \o <<"Library", "Frameworks">>

CommandLineToolsPrefix(e, symlinks) ==
  LET inFramework == {p \in symlinks :
        StartsWith(p, CommandLineToolsFrameworks \o <<"Python3.framework", "Versions">>)}
  IN  IF e.prefix # None \/ inFramework = {} THEN e.prefix
      ELSE Parent(Parent(CHOOSE p \in inFramework : TRUE))

CommandLineToolsFrom(m, e, symlinks, usrBin) ==
  ToolsEnvironment(m, "MacCommandLineTools", e, symlinks, usrBin, CommandLineToolsPrefix(e, symlinks))

(* The links of usr/bin, once more now that more paths are known.            *)
CommandLineToolsLinked(m, e, linked, usrBin) ==
  CommandLineToolsFrom(m, e, linked \cup SameAs(m, PythonsOf(m, CommandLineToolsBin), linked), usrBin)

CommandLineToolsKnown(m, e, known, usrBin) ==
  CommandLineToolsLinked(m, e, WithUsrBin(m, known, usrBin, CommandLineToolsFrameworks), usrBin)

CommandLineToolsGiven(m, e, given) ==
  LET known == given \cup
        (IF StartsWith(e.executable, CommandLineToolsBin)
              /\ ResolveSymlink(m, Append(CommandLineToolsBin, "python3")) \in given
           THEN SameAs(m, PythonsOf(m, CommandLineToolsBin), given) ELSE {})
  IN  CommandLineToolsKnown(m, e, known, UsrBinPython(m, known))

CommandLineToolsTryFrom(m, e) ==
  IF m.os # "macos" \/ IsVirtualEnv(m, e) \/ ~IsToolsPython(e.executable, CommandLineTools) THEN None
  ELSE CommandLineToolsGiven(m, e,
         {e.executable} \cup e.symlinks \cup ({ResolveSymlink(m, e.executable)} \ {None}))

CommandLineToolsFind(m) ==
  LET files == {p \in PythonsOf(m, CommandLineTools \o <<"usr">>) : FileName(p) \notin {"python", "python3"}}
      target(p) == {ResolveSymlink(m, p)} \ {None}
      beside(p) == {Append(Parent(p), "python"), Append(Parent(p), "python3")}
      env(p) == [PythonEnv(m, p, None, None) EXCEPT
                   !.symlinks = target(p) \cup SameAs(m, beside(p), target(p))]
  IN  [managers |-> {},
       environments |-> IF m.os # "macos" THEN {}
                        ELSE {CommandLineToolsTryFrom(m, env(p)) : p \in files} \ {None}]

(* crates/pet-mac-xcode: finds nothing by itself.                            *)
XCodeApps == {"Xcode.app", "Xcode_15.0.1.app"}
XCodeRoot(p) == SubSeq(p, 1, 2) \o <<"Contents", "Developer">>

IsXCodePythonPath(p) ==
  /\ Len(p) > 2 /\ p[1] = "Applications" /\ p[2] \in XCodeApps
  /\ IsToolsPython(p, XCodeRoot(p))

XCodeKnown(m, e, root, known, usrBin) ==
  ToolsEnvironment(m, "MacXCode", e, WithUsrBin(m, known, usrBin, root \o <<"Library", "Frameworks">>),
                   usrBin, e.prefix)

XCodeGiven(m, e, root, given) ==
  LET bin == root \o <<"usr", "bin">>
      known == given \cup (IF ResolveSymlink(m, Append(bin, "python3")) \in given
                             THEN {Append(bin, "python3")} \cup PythonsOf(m, bin) ELSE {})
  IN  XCodeKnown(m, e, root, known, UsrBinPython(m, known))

XCodeTryFrom(m, e) ==
  LET target == ResolveSymlink(m, e.executable)
  IN  IF m.os # "macos" \/ IsVirtualEnv(m, e) \/ ~IsXCodePythonPath(e.executable) THEN None
      ELSE XCodeGiven(m, e, XCodeRoot(e.executable), {e.executable} \cup e.symlinks
             \cup (IF target = None THEN {} ELSE {target} \cup PythonsOf(m, Parent(target))))

(* crates/pet-mac-python-org                                                 *)
PythonOrgVersions == <<"Library", "Frameworks", "Python.framework", "Versions">>
CurrentBin == PythonOrgVersions \o <<"Current", "bin">>

(* The Python that Current stands for, if that is the resolved one.          *)
CurrentPython(resolved, current) ==
  IF /\ current # None
     /\ IF StartsWith(resolved, Front(CurrentBin))
          THEN StartsWith(current, PythonOrgVersions) /\ ~StartsWith(current, Front(CurrentBin))
          ELSE current = resolved
    THEN current ELSE None

(* The other names of the executable, in one directory after the other.      *)
WithSame(m, known, executables) == known \cup SameAs(m, executables, known)

PythonOrgSymlinks(m, given, bin, current) ==
  WithSame(m, WithSame(m, WithSame(m, given, PythonsOf(m, bin)), PythonsOf(m, <<"usr", "local", "bin">>)),
           PythonsOf(m, CurrentBin))
    \cup (IF current # None THEN PythonsOf(m, CurrentBin) ELSE {})

PythonOrgEnvironment(m, executable, version, symlinks) ==
  IF version = None THEN None
  ELSE Build(m, [Builder("MacPythonOrg") EXCEPT
         !.executable = executable, !.version = version, !.prefix = Parent(Parent(executable)),
         !.symlinks = symlinks])

PythonOrgOf(m, e, resolved, current) ==
  IF ~IsFrameworkPython(resolved, PythonOrgVersions) THEN None
  ELSE LET executable == FirstSet(<<current, resolved>>)
           given == {resolved, e.executable}
                      \cup (IF current # None THEN {current, Append(CurrentBin, "python3")} ELSE {})
       IN  PythonOrgEnvironment(m, executable, HeadersVersion(m, Parent(Parent(executable))),
                                PythonOrgSymlinks(m, given, Parent(executable), current))

PythonOrgFrom(m, e, resolved) ==
  PythonOrgOf(m, e, resolved, CurrentPython(resolved, ResolveSymlink(m, Append(CurrentBin, "python3"))))

PythonOrgTryFrom(m, e) ==
  IF m.os # "macos" \/ IsVirtualEnv(m, e) THEN None
  ELSE PythonOrgFrom(m, e, FirstSet(<<ResolveSymlink(m, e.executable), e.executable>>))

PythonOrgFind(m) ==
  LET prefixes == {p \in ReadDirectory(m, PythonOrgVersions) : FileName(p) # "Current"}
      env(p) == PythonEnv(m, p \o <<"bin", "python3">>, p, HeadersVersion(m, p))
  IN  [managers |-> {},
       environments |-> IF m.os # "macos" THEN {}
                        ELSE {PythonOrgTryFrom(m, env(p)) : p \in prefixes} \ {None}]
=============================================================================
