------------------------------ MODULE CondaFiles ------------------------------
(***************************************************************************)
(* What the Conda and Pixi locators read off a machine (crates/pet-conda     *)
(* without its caches, which are module CondaDiscovery; crates/pet-pixi).    *)
(*                                                                         *)
(* Contents of the files that are read:                                      *)
(*   conda-meta/history     [creator, named, lines]: the executable of the   *)
(*                          command that created the environment and the     *)
(*                          name it gave (None), and the packages added and  *)
(*                          removed: [added, package, record]                *)
(*   conda-meta/*.json      a package record: [package, version, is64]       *)
(*   .condarc and the like  [envsDirs]                                       *)
(*   environments.txt       a set of paths                                   *)
(*   conda, mamba           what `info --json` prints: [envs, rootPrefix,    *)
(*                          condaPrefix, sysRc, userRc, configFiles]         *)
(* m.wsl tells the Windows Subsystem for Linux.                              *)
(***************************************************************************)
EXTENDS GlobalPythons

-----------------------------------------------------------------------------
(* utils.rs                                                                  *)
LooksLikeInstall(m, p) ==
  /\ Exists(m, Append(p, "condabin")) \/ Exists(m, Append(p, "envs"))
  /\ Exists(m, Append(p, "conda-meta"))

(* The grandparent of a directory.                                           *)
Above(p) == IF Len(p) < 2 THEN None ELSE Parent(Parent(p))

IsCondaInstall(m, p) ==
  LooksLikeInstall(m, p) /\ ~(Above(p) # None /\ LooksLikeInstall(m, Above(p)))

-----------------------------------------------------------------------------
(* package.rs                                                                *)
History(m, p) == Read(m, p \o <<"conda-meta", "history">>)

(* The last line that adds the package says which record is right.           *)
PackageInfoFromHistory(m, p, package) ==
  LET lines == SelectSeq(History(m, p).lines, LAMBDA l : l.added /\ l.package = package)
      record == Read(m, p \o <<"conda-meta", Last(lines).record>>)
  IN  IF History(m, p) = None \/ lines = <<>> \/ record = None \/ record.version = None THEN None
      ELSE [version |-> record.version, arch |-> IF record.is64 = None THEN None ELSE Arch(record.is64)]

(* Names of package records, and what they tell by themselves.               *)
RecordName(name) ==
  CASE name = "python-3.12.4-h1.json" -> [package |-> "python", version |-> <<3, 12, 4>>]
    [] name = "python-3.11.9-h1.json" -> [package |-> "python", version |-> <<3, 11, 9>>]
    [] name = "conda-24.5.0-py312.json" -> [package |-> "conda", version |-> <<24, 5, 0>>]
    [] OTHER -> [package |-> None, version |-> None]

PackageInfoFromPackageJson(m, p, package) ==
  LET records == {r \in ReadDirectory(m, Append(p, "conda-meta")) : RecordName(FileName(r)).package = package}
      record == CHOOSE r \in records : TRUE
      contents == Read(m, record)
  IN  IF records = {} THEN None
      ELSE [version |-> RecordName(FileName(record)).version,
            arch |-> IF contents = None \/ contents.is64 = None THEN None ELSE Arch(contents.is64)]

CondaPackageInfo(m, p, package) ==
  FirstSet(<<PackageInfoFromHistory(m, p, package), PackageInfoFromPackageJson(m, p, package)>>)

-----------------------------------------------------------------------------
(* conda_rc.rs                                                               *)
UnixCondaRcs ==
  {<<"etc", d, f>> : d \in {"conda", "miniconda", "miniconda3"},
                     f \in {".condarc", "condarc", "condarc.d", "mambarc"}}
  \cup {<<"var", "lib", d, f>> : d \in {"conda", "miniconda", "miniconda3"},
                                 f \in {".condarc", "condarc", "condarc.d", ".mambarc"}}
WindowsCondaRcs ==
  {<<"C:", "ProgramData", d, f>> : d \in {"conda", "miniconda", "miniconda3"},
                                   f \in {".condarc", "condarc", "condarc.d"}}
  \cup {<<"C:", "ProgramData", "conda", ".mambarc">>}

CondaRcSearchPaths(m) ==
  LET expanded(variable) == IF m.vars[variable] = None THEN None ELSE ExpandPath(m, m.vars[variable])
      in(base, files) == IF base = None THEN {} ELSE {base \o f : f \in files}
      usual == {<<".condarc">>, <<"condarc">>}
  IN  (IF Windows(m) THEN WindowsCondaRcs ELSE UnixCondaRcs)
      \cup in(expanded("CONDA_ROOT"), usual \cup {<<".condarc.d">>, <<".mambarc">>})
      \cup in(m.vars["XDG_CONFIG_HOME"], usual \cup {<<".condarc.d">>, <<".mambarc">>})
      \cup in(UserHome(m), {d \o f : d \in {<<".config", "conda">>, <<".conda">>, <<>>},
                                     f \in usual \cup {<<"condarc.d">>}} \cup {<<".mambarc">>})
      \cup in(expanded("CONDA_PREFIX"), usual \cup {<<".condarc.d">>, <<".mamabarc">>})
      \cup in(expanded("CONDA_DIR"), usual \cup {<<".condarc.d">>})
      \cup in(expanded("CONDARC"), {<<>>})
      \cup in(expanded("MAMBARC"), {<<>>})

IsCondaRcName(name) == name \in {".condarc", "condarc", ".condarc.d", "envs.yml", "my-condarc"}

(* get_conda_conda_rc_from_path: a file, or the files of a directory.        *)
CondaRcFromPath(m, p) ==
  LET files == CASE IsFile(m, p) -> {p}
                 [] IsDirectory(m, p) ->
                      {f \in ReadDirectory(m, p) : IsFile(m, f) /\ IsCondaRcName(FileName(f))}
                 [] OTHER -> {}
      parsed == {Read(m, f) : f \in files} \ {None}
  IN  [files |-> files,
       envDirs |-> {ExpandPath(m, d) : d \in UNION {rc.envsDirs : rc \in parsed} \ {<<>>}}]

-----------------------------------------------------------------------------
(* manager.rs                                                                *)
OneOf(m, dir, relative) == FirstExisting(m, [i \in DOMAIN relative |-> dir \o relative[i]])

CondaExecutable(m, dir) ==
  OneOf(m, dir, IF Windows(m) THEN << <<"Scripts", "conda.exe">>, <<"Scripts", "conda.bat">>,
                                      <<"bin", "conda.exe">>, <<"bin", "conda.bat">> >>
                ELSE << <<"bin", "conda">> >>)

MambaNames(m) ==
  IF Windows(m) THEN <<"mamba.exe", "mamba.bat", "micromamba.exe", "micromamba.bat">>
  ELSE <<"mamba", "micromamba">>

MambaExecutable(m, dir) ==
  LET bins == IF Windows(m) THEN <<"Scripts", "bin">> ELSE <<"bin">>
  IN  OneOf(m, dir, FlattenSeq([i \in DOMAIN bins |->
                      [j \in DOMAIN MambaNames(m) |-> <<bins[i], MambaNames(m)[j]>>]]))

OnPath(m, names) ==
  LET path == IF m.vars["PATH"] = None THEN <<>> ELSE m.vars["PATH"]
      all == FlattenSeq([i \in DOMAIN path |-> [j \in DOMAIN names |-> Append(path[i], names[j])]])
  IN  FirstOf(SelectSeq(all, LAMBDA p : IsFile(m, p) \/ IsLink(m, p)))

FindCondaBinary(m) == OnPath(m, IF Windows(m) THEN <<"conda.exe", "conda.bat">> ELSE <<"conda">>)
FindMambaBinary(m) == OnPath(m, MambaNames(m))

GetCondaManager(m, dir) ==
  IF CondaExecutable(m, dir) = None \/ CondaPackageInfo(m, dir, "conda") = None THEN None
  ELSE [tool |-> "Conda", executable |-> CondaExecutable(m, dir), condaDir |-> dir,
        version |-> CondaPackageInfo(m, dir, "conda").version]

GetMambaManager(m, dir) ==
  IF MambaExecutable(m, dir) = None THEN None
  ELSE [tool |-> "Mamba", executable |-> MambaExecutable(m, dir), condaDir |-> dir, version |-> None]

IsMambaExecutable(p) ==
  FileName(p) \in {"mamba", "mamba.exe", "mamba.bat", "micromamba", "micromamba.exe", "micromamba.bat"}

ManagerIn(m, dir) == FirstSet(<<GetCondaManager(m, dir), GetMambaManager(m, dir)>>)
ToManager(manager) ==
  [tool |-> manager.tool, executable |-> manager.executable, version |-> manager.version]

-----------------------------------------------------------------------------
(* environments.rs                                                           *)

(* get_conda_dir_from_cmd: from the conda executable, or from a script in    *)
(* its site-packages.                                                        *)
CondaDirAbove(dir) ==
  LET libs == {i \in DOMAIN dir : dir[i] = "lib"}
  IN  CASE InBin(dir) \/ EndsWith(dir, "condabin") -> Parent(dir)
        [] ~(InBin(dir) \/ EndsWith(dir, "condabin")) /\ "site-packages" \in ToSet(dir) /\ libs # {} ->
             SubSeq(dir, 1, Max(libs) - 1)
        [] OTHER -> dir

CondaDirFromCmd(m, executable) ==
  NormCase(m, CondaDirAbove(Parent(FirstSet(<<ResolveSymlink(m, executable), executable>>))))

(* get_conda_installation_used_to_create_conda_env                           *)
WithParent(dir) == IF dir = <<>> THEN <<dir>> ELSE <<dir, Parent(dir)>>

CondaInstallationOf(m, p) ==
  LET history == History(m, p)
  IN  FirstOf(SelectSeq((IF Above(p) = None THEN <<>> ELSE <<Above(p)>>)
                          \o (IF history = None \/ history.creator = None THEN <<>>
                              ELSE WithParent(CondaDirFromCmd(m, history.creator)))
                          \o <<p>>,
                        LAMBDA d : IsCondaInstall(m, d)))

(* CondaManager::from                                                        *)
ManagerOfInstall(m, p, above, install) ==
  CASE above # None -> above
    [] above = None /\ install # None -> ManagerIn(m, install)
    [] OTHER -> IF Len(p) > 2 /\ SubSeq(p, Len(p) - 2, Len(p) - 1) = <<".conda", "envs">> THEN None
                ELSE ManagerIn(m, p)

CondaManagerFrom(m, p) ==
  IF ~IsCondaEnv(m, p) THEN None
  ELSE ManagerOfInstall(m, p,
         IF Above(p) # None /\ IsCondaInstall(m, Above(p)) THEN ManagerIn(m, Above(p)) ELSE None,
         CondaInstallationOf(m, p))

CondaEnvName(m, p, condaDir) ==
  LET history == History(m, p)
  IN  CASE condaDir # None /\ ~StartsWith(p, condaDir) ->
             IF history # None /\ history.creator # None /\ history.named = FileName(p) THEN FileName(p) ELSE None
        [] OTHER -> IF IsCondaInstall(m, p) THEN "base" ELSE FileName(p)

(* get_conda_environment_info; without a Python there is no version.         *)
CondaEnvironmentAt(m, p, executable, package, condaDir) ==
  [prefix |-> p, executable |-> executable, condaDir |-> condaDir,
   version |-> IF package = None THEN None ELSE package.version,
   arch |-> IF package = None THEN None ELSE package.arch,
   name |-> CondaEnvName(m, p, condaDir)]

ExistingOrNone(m, p) == IF p # None /\ Exists(m, p) THEN p ELSE None

CondaEnvironmentInfo(m, p, manager) ==
  IF ~IsCondaEnv(m, p) THEN None
  ELSE CondaEnvironmentAt(m, p, PythonOf(m, p),
         IF PythonOf(m, p) = None THEN None ELSE CondaPackageInfo(m, p, "python"),
         ExistingOrNone(m, FirstSet(<<CondaInstallationOf(m, p),
                                      IF manager = None THEN None ELSE manager.condaDir>>)))

CondaToPythonEnvironment(m, info, manager) ==
  Build(m, [Builder("Conda") EXCEPT
    !.executable = info.executable, !.version = info.version, !.prefix = info.prefix,
    !.arch = info.arch, !.symlinks = PythonsOf(m, info.prefix), !.name = info.name,
    !.manager = IF manager = None THEN None ELSE ToManager(manager)])

-----------------------------------------------------------------------------
(* environment_locations.rs                                                  *)
IsWslWindowsDrivePath(m, p) == m.wsl /\ Len(p) >= 2 /\ p[1] = "mnt" /\ p[2] \in {"c", "d"}

CondaEnvsIn(m, dir) == {p \in ReadDirectory(m, dir) : IsCondaEnv(m, p)}

(* The directories of the .condarc of an install go to the result as they    *)
(* are; those of other .condarc files are searched.                          *)
InstallEnvironments(m, dir) ==
  {dir} \cup CondaEnvsIn(m, Append(dir, "envs")) \cup CondaRcFromPath(m, dir).envDirs

GetEnvironments(m, dir) ==
  CASE IsCondaInstall(m, dir) -> InstallEnvironments(m, dir)
    [] ~IsCondaInstall(m, dir) /\ IsCondaEnv(m, dir) ->
         {dir} \cup (IF Above(dir) # None /\ EndsWith(Parent(dir), "envs") /\ IsCondaInstall(m, Above(dir))
                       THEN InstallEnvironments(m, Above(dir)) ELSE {})
    [] OTHER -> CondaEnvsIn(m, IF Exists(m, Append(dir, "envs")) THEN Append(dir, "envs") ELSE dir)

EnvsFromEnvironmentTxt(m) ==
  LET paths == IF UserHome(m) = None THEN None
               ELSE Read(m, UserHome(m) \o <<".conda", "environments.txt">>)
  IN  IF paths = None THEN {} ELSE {p \in {NormCase(m, q) : q \in paths} : Exists(m, p)}

(* Mutant: the directories that the files name are forgotten.                *)
CondaRcDirectoriesOnly(m) == {Parent(p) : p \in {q \in CondaRcSearchPaths(m) : Exists(m, q)}}

(* The directories of the files are searched as well.                        *)
EnvironmentPathsFromCondaRc(m) ==
  LET rcs == {p \in CondaRcSearchPaths(m) : Exists(m, p)}
  IN  UNION {CondaRcFromPath(m, p).envDirs : p \in rcs}
      \cup {IF IsDirectory(m, p) THEN p ELSE Parent(p) : p \in rcs}

EnvironmentPathsFromKnownPaths(m) ==
  LET home == UserHome(m)
      list(variable) == IF m.vars[variable] = None THEN {} ELSE {ExpandPath(m, p) : p \in m.vars[variable]}
      known == {home \o d : d \in {<<".conda", "envs">>, <<"AppData", "Local", "conda", "envs">>,
                                   <<"AppData", "Local", "conda", "conda", "envs">>,
                                   <<"envs">>, <<"my-envs">>}}
               \cup {<<"opt", "conda", "envs">>,
                     (IF Windows(m) THEN <<>> ELSE home) \o <<"C:", "Anaconda", "envs">>}
               \cup ({Below(UserDataDir(m, "conda", FALSE), <<"envs">>)} \ {None})
               \cup list("CONDA_ENVS_PATH") \cup list("ANACONDA_PROJECT_ENVS_PATH")
               \cup (IF m.vars["PROJECT_DIR"] = None THEN {} ELSE {ExpandPath(m, m.vars["PROJECT_DIR"])})
  IN  (IF home = None THEN {}
       ELSE UNION {{p \in ReadDirectory(m, d) : IsDirectory(m, p)} : d \in known})
      \cup {p \in ToSet(KnownGlobalSearchLocations(m)) : Exists(m, p)}

(* get_conda_dir_from_exe: the file's directory or the one above; a          *)
(* directory may be given as well.                                           *)
CondaDirFromExe(m, executable) ==
  LET dir == IF IsFile(m, executable) THEN Parent(executable) ELSE executable
  IN  IF executable = None THEN None
      ELSE FirstOf(SelectSeq(<<dir>> \o (IF dir = <<>> THEN <<>> ELSE <<Parent(dir)>>),
                             LAMBDA d : IsCondaEnv(m, d)))

InstallNames == {"anaconda", "anaconda3", "miniconda", "miniconda3", "miniforge3", "micromamba"}

(* get_known_conda_install_locations, of Windows and of Unix.                *)
WindowsInstallLocations(m) ==
  LET home == UserHome(m)
      localAppData == {m.vars["LOCALAPPDATA"]} \ {None}
      profiles == {m.vars[v] : v \in {"PROGRAMDATA", "ALLUSERSPROFILE", "USERPROFILE"}} \ {None}
      bases == {home, home \o <<".conda">>, home \o <<".local">>, <<"C:", "ProgramData">>, <<"C:">>}
                 \cup localAppData
  IN  {Append(p, n) : p \in profiles, n \in {"anaconda3", "miniconda3", "miniforge3", "micromamba"}}
      \cup {Append(d, n) : d \in {m.vars["HOMEDRIVE"]} \ {None},
                           n \in {"anaconda3", "miniconda", "miniforge3", "micromamba"}}
      \cup (IF home = None THEN {}
            ELSE {Append(b, n) : b \in bases, n \in InstallNames}
                 \cup {d \o <<"conda", "conda">> :
                         d \in {<<"C:", "ProgramData">>, home \o <<"AppData", "Local">>} \cup localAppData}
                 \cup {home \o <<".conda">>, home \o <<".local">>})

UnixInstallLocations(m) ==
  LET home == UserHome(m)
      bases == {home, home \o <<"opt">>, home \o <<".conda">>, home \o <<".local">>, <<"opt">>,
                <<"usr", "share">>, <<"usr", "local">>, <<"usr">>,
                IF m.os = "macos" THEN OptHomebrew ELSE LinuxBrew}
  IN  {<<n>> : n \in InstallNames \cup {"miniforge"}}
      \cup (IF home = None THEN {}
            ELSE {Append(b, n) : b \in bases, n \in InstallNames}
                 \cup {<<"opt", "conda">>, home \o <<".conda">>, home \o <<".local">>})

(* Conda on the PATH counts if none is configured.                           *)
KnownCondaInstallLocations(m, executable) ==
  LET variables == {"CONDA_ROOT", "CONDA_PREFIX", "CONDA_DIR", "CONDA"}
                     \cup (IF Windows(m) THEN {} ELSE {"MAMBA_ROOT_PREFIX"})
      given == {ExpandPath(m, m.vars[v]) : v \in {w \in variables : m.vars[w] # None}}
      found == {CondaDirFromExe(m, executable),
                IF executable = None THEN CondaDirFromExe(m, FindCondaBinary(m)) ELSE None,
                CondaDirFromExe(m, FindMambaBinary(m))} \ {None}
  IN  given \cup found \cup (IF Windows(m) THEN WindowsInstallLocations(m) ELSE UnixInstallLocations(m))

CondaEnvironmentPaths(m, executable) ==
  LET sources == EnvsFromEnvironmentTxt(m) \cup EnvironmentPathsFromCondaRc(m)
                   \cup EnvironmentPathsFromKnownPaths(m) \cup KnownCondaInstallLocations(m, executable)
      paths == {NormCase(m, p) : p \in sources}
  IN  UNION {GetEnvironments(m, p) :
               p \in {q \in paths : Exists(m, q) /\ ~IsWslWindowsDrivePath(m, q)}}

-----------------------------------------------------------------------------
(* lib.rs, as it is without what other threads have cached.                  *)

(* try_from                                                                  *)
CondaPrefixOf(m, e) ==
  LET dir == Parent(e.executable)
  IN  CASE e.prefix # None -> e.prefix
        [] e.prefix = None /\ IsCondaEnv(m, dir) -> dir
        [] e.prefix = None /\ ~IsCondaEnv(m, dir) /\ InBin(dir) /\ IsCondaEnv(m, Parent(dir)) -> Parent(dir)
        [] OTHER -> None

ManagerOf(m, info) == IF info.condaDir = None THEN None ELSE CondaManagerFrom(m, info.condaDir)

CondaEnvironmentWith(m, info) ==
  IF info = None THEN None ELSE CondaToPythonEnvironment(m, info, ManagerOf(m, info))

CondaTryFrom(m, e) ==
  IF CondaPrefixOf(m, e) = None THEN None
  ELSE CondaEnvironmentWith(m, CondaEnvironmentInfo(m, CondaPrefixOf(m, e), None))

(* find: the managers of the installs that made the environments, and a      *)
(* mamba beside them.                                                        *)
ManagersWithMamba(m, managers, dirs) ==
  {ToManager(manager) : manager \in managers \cup ({GetMambaManager(m, d) : d \in dirs} \ {None})}

CondaFound(m, infos, executable) ==
  LET configured == IF executable # None /\ IsMambaExecutable(executable)
                      THEN {CondaDirFromExe(m, executable)} \ {None} ELSE {}
      managed == {d \in {info.condaDir : info \in infos} \ {None} : CondaManagerFrom(m, d) # None}
  IN  [environments |-> {CondaEnvironmentWith(m, info) : info \in infos},
       managers |-> ManagersWithMamba(m, {CondaManagerFrom(m, d) : d \in managed}, managed \cup configured)]

CondaFind(m, executable) ==
  CondaFound(m, {CondaEnvironmentInfo(m, p, None) : p \in CondaEnvironmentPaths(m, executable)} \ {None},
             executable)

(* find_and_report: what another locator came upon.                          *)
CondaFoundBy(m, manager) ==
  LET infos == {CondaEnvironmentInfo(m, p, manager) : p \in GetEnvironments(m, manager.condaDir)} \ {None}
      found == {<<info, FirstSet(<<ManagerOf(m, info), manager>>)>> : info \in infos}
  IN  [environments |-> {CondaToPythonEnvironment(m, f[1], f[2]) : f \in found},
       managers |-> ManagersWithMamba(m, {f[2] : f \in found}, {manager.condaDir})]

CondaFindIn(m, dir) ==
  IF ~IsCondaInstall(m, dir) \/ CondaManagerFrom(m, dir) = None THEN [environments |-> {}, managers |-> {}]
  ELSE CondaFoundBy(m, CondaManagerFrom(m, dir))

-----------------------------------------------------------------------------
(* conda_info.rs and telemetry.rs: what only Conda itself can tell, the one  *)
(* on the PATH if none is given.                                             *)
CondaInfo(m, executable) ==
  LET conda == IF executable = None THEN FindCondaBinary(m) ELSE executable
  IN  IF conda = None THEN None
      ELSE Read(m, IF Windows(m) THEN conda ELSE FirstSet(<<ResolveSymlink(m, conda), conda>>))

(* find_and_report_missing_envs: those of `conda info` that the search did   *)
(* not find and that are Conda environments; known are the prefixes found.   *)
InfoOfCondaOrMamba(m, executable) ==
  FirstSet(<<CondaInfo(m, executable), CondaInfo(m, FindMambaBinary(m))>>)

MissingCondaEnvs(m, info, known) ==
  IF info = None THEN {}
  ELSE {p \in info.envs \ known :
          CondaEnvironmentInfo(m, p, [condaDir |-> info.condaPrefix]) # None}

(* get_all_known_conda_rc                                                    *)
KnownCondaRcs(m, known) ==
  {CondaRcFromPath(m, p) : p \in CondaRcSearchPaths(m) \cup {q \in known : IsCondaInstall(m, q)}}

(* count_missing_envs: of the files that Conda reads those that exist and    *)
(* that the search does not read, and the directories they name.             *)
UnknownRcs(m, files, discovered) == {f \in files \ {None} : Exists(m, f) /\ f \notin discovered}

CountMissingEnvs(m, files, envDirs, missing) ==
  LET named == {d \in UNION {CondaRcFromPath(m, f).envDirs : f \in files} : Exists(m, d)}
  IN  [rcs |-> files, envDirs |-> named \ envDirs,
       missing |-> {p \in missing : \E d \in named : StartsWith(p, d)}]

(* report_missing_envs; a file of one group does not count in the next.      *)
MissingCondaEnvironments(m, info, environments) ==
  LET known == {env.prefix : env \in environments} \ {None}
      missing == MissingCondaEnvs(m, info, known)
      discovered == UNION {rc.files : rc \in KnownCondaRcs(m, known)}
      envDirs == UNION {rc.envDirs : rc \in KnownCondaRcs(m, known)}
      sys == UnknownRcs(m, {info.sysRc}, discovered)
      user == UnknownRcs(m, {info.userRc}, discovered \cup sys)
      other == UnknownRcs(m, info.configFiles, discovered \cup sys \cup user)
  IN  [missing |-> missing,
       rootPrefixNotFound |-> info.rootPrefix # None /\ info.rootPrefix \notin known,
       condaPrefixNotFound |-> info.condaPrefix # None /\ info.condaPrefix \notin known,
       condaManagerNotFound |-> \A env \in environments : env.manager = None,
       sys |-> CountMissingEnvs(m, sys, envDirs, missing),
       user |-> CountMissingEnvs(m, user, envDirs, missing),
       other |-> CountMissingEnvs(m, other, envDirs, missing)]

-----------------------------------------------------------------------------
(* crates/pet-pixi                                                           *)
IsPixiEnv(m, p) == IsFile(m, p \o <<"conda-meta", "pixi">>)

PixiPrefix(m, e) ==
  LET dir == Parent(e.executable)
  IN  CASE e.prefix # None -> e.prefix
        [] e.prefix = None /\ IsPixiEnv(m, dir) -> dir
        [] e.prefix = None /\ ~IsPixiEnv(m, dir) /\ InBin(dir) /\ IsPixiEnv(m, Parent(dir)) -> Parent(dir)
        [] OTHER -> None

PixiTryFrom(m, e) ==
  LET prefix == PixiPrefix(m, e)
      package == CondaPackageInfo(m, prefix, "python")
  IN  IF prefix = None \/ ~IsPixiEnv(m, prefix) THEN None
      ELSE Build(m, [Builder("Pixi") EXCEPT
             !.executable = e.executable, !.name = FileName(prefix), !.prefix = prefix,
             !.symlinks = PythonsOf(m, prefix),
             !.version = IF package = None THEN None ELSE package.version])
=============================================================================
