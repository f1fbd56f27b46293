------------------------------ MODULE PythonFiles -----------------------------
(***************************************************************************)
(* What the locators read off the files of a Python installation            *)
(* (crates/pet-python-utils, crates/pet-core), and the PythonEnv and         *)
(* PythonEnvironment they build from it.                                     *)
(*                                                                         *)
(* A version is the sequence of its parts.  The contents of the files that   *)
(* are read:                                                                 *)
(*   pyvenv.cfg          the sequence of its lines, [key, value]             *)
(*   patchlevel.h        the version it defines                              *)
(*   build-details.json  [schema, version, level, serial]                    *)
(* Contents that do not parse are None.                                      *)
(***************************************************************************)
EXTENDS FileSystem

(* Names of library directories and the version they tell, in the order in    *)
(* which find_file tries them for one version.                               *)
StdlibDirectories ==
  <<[name |-> "python3.11", version |-> <<3, 11>>], [name |-> "python3.12", version |-> <<3, 12>>],
    [name |-> "python3.12t", version |-> <<3, 12>>], [name |-> "pypy3.11", version |-> <<3, 11>>]>>

Release(version) == SubSeq(version, 1, 2)

-----------------------------------------------------------------------------
(* crates/pet-core/src/pyvenv_cfg.rs                                         *)
FindPyVenvCfgFile(m, p) ==
  LET here == Append(p, "pyvenv.cfg")
      above == Append(Parent(p), "pyvenv.cfg")
  IN  CASE Exists(m, here) -> here
        [] /\ ~Exists(m, here)
           /\ EndsWith(p, "bin") \/ (Windows(m) /\ EndsWith(p, "Scripts"))
           /\ Exists(m, above) -> above
        [] OTHER -> None

(* The first version or version_info and the first prompt that is not empty; *)
(* without them the file still marks an environment.                         *)
ParsePyVenvCfg(m, file) ==
  LET first(keys) ==
        LET lines == SelectSeq(Read(m, file), LAMBDA l : l.key \in keys /\ l.value # None)
        IN  IF lines = <<>> THEN None ELSE Head(lines).value
  IN  IF Read(m, file) = None THEN None
      ELSE [version |-> first({"version", "version_info"}), prompt |-> first({"prompt"}),
            file |-> file]

PyVenvCfg(m, p) ==
  LET file == FindPyVenvCfgFile(m, p)
  IN  IF file = None THEN None ELSE ParsePyVenvCfg(m, file)

-----------------------------------------------------------------------------
(* crates/pet-python-utils/src/headers.rs.  Directories are read in no       *)
(* particular order.                                                         *)
ValidVersionFromHeader(m, header, release) ==
  LET version == Read(m, header)
  IN  IF version # None /\ (release = None \/ Release(version) = release) THEN version ELSE None

HeaderVersionBelow(m, headers, release) ==
  LET direct == ValidVersionFromHeader(m, Append(headers, "patchlevel.h"), release)
      below == {d \in ReadDirectory(m, headers) :
                  /\ ~IsLink(m, d) /\ IsDirectory(m, d)
                  /\ ValidVersionFromHeader(m, Append(d, "patchlevel.h"), release) # None}
  IN  CASE direct # None -> direct
        [] direct = None /\ below # {} ->
             ValidVersionFromHeader(m, Append(CHOOSE d \in below : TRUE, "patchlevel.h"), release)
        [] OTHER -> None

HeadersGetVersion(m, sysPrefix, release) ==
  FirstSet(<<HeaderVersionBelow(m, Append(sysPrefix, "Headers"), release),
             HeaderVersionBelow(m, Append(sysPrefix, "include"), release)>>)

(* Headers::get_version.  A prefix with a Scripts directory on Windows is    *)
(* searched in that directory.                                               *)
HeadersVersion(m, prefix) ==
  LET start == IF Windows(m) /\ Exists(m, Append(prefix, "Scripts"))
                 THEN Append(prefix, "Scripts") ELSE prefix
  IN  HeadersGetVersion(m, IF EndsWith(start, "bin") THEN Parent(start) ELSE start, None)

-----------------------------------------------------------------------------
(* crates/pet-python-utils/src/build_details.rs                              *)
StripBin(p) == IF EndsWith(p, "bin") \/ EndsWith(p, "Scripts") THEN Parent(p) ELSE p

NewestIn(directories) ==
  SelectSeq(directories, LAMBDA d : \A e \in ToSet(directories) :
    d.version[1] > e.version[1] \/ (d.version[1] = e.version[1] /\ d.version[2] >= e.version[2]))

DetailsIn(prefix, directory) == prefix \o <<"lib", directory.name, "build-details.json">>

(* The directory of the version that is wanted, or else the newest one.      *)
PreferredDetails(prefix, directories, release) ==
  LET hinted == SelectSeq(directories, LAMBDA d : d.version = release)
  IN  IF directories = <<>> THEN None
      ELSE DetailsIn(prefix, Head(IF hinted # <<>> THEN hinted ELSE NewestIn(directories)))

BuildDetailsBelow(m, prefix, release) ==
  LET windowsFile == prefix \o <<"Lib", "build-details.json">>
  IN  IF IsFile(m, windowsFile) THEN windowsFile
      ELSE PreferredDetails(prefix,
             SelectSeq(StdlibDirectories, LAMBDA d : IsFile(m, DetailsIn(prefix, d))), release)

FindBuildDetailsFile(m, path, release) == BuildDetailsBelow(m, StripBin(path), release)

(* version_string                                                            *)
VersionString(details) ==
  CASE details.level = "alpha" -> details.version \o <<"a", details.serial>>
    [] details.level = "beta" -> details.version \o <<"b", details.serial>>
    [] details.level = "candidate" -> details.version \o <<"rc", details.serial>>
    [] OTHER -> details.version

ParseBuildDetails(details) ==
  IF details = None \/ details.schema # 1 THEN None ELSE VersionString(details)

BuildDetailsVersion(m, prefix, release) ==
  ParseBuildDetails(Read(m, FindBuildDetailsFile(m, prefix, release)))

-----------------------------------------------------------------------------
(* crates/pet-python-utils/src/version.rs                                    *)
FromPyVenvCfg(m, prefix) ==
  IF PyVenvCfg(m, prefix) = None THEN None ELSE PyVenvCfg(m, prefix).version

GetPythonExeUsedToCreateVenv(m, executable) ==
  LET bin == Parent(executable)
      target == ResolveSymlink(m, executable)
  IN  IF /\ EndsWith(bin, "bin") \/ (Windows(m) /\ EndsWith(bin, "Scripts"))
         /\ target # None
         /\ IsFile(m, target)
        THEN target ELSE None

(* pyvenv.cfg and Scripts\python.exe were written within a minute.           *)
CreatedTogether(m, prefix) ==
  LET bin == IF Exists(m, Append(prefix, "Scripts")) THEN "Scripts" ELSE "bin"
  IN  /\ Exists(m, Append(prefix, "pyvenv.cfg"))
      /\ Exists(m, prefix \o <<bin, "python.exe">>)
      /\ prefix \notin m.upgraded

(* from_creator_for_virtual_env: the version of the Python that the          *)
(* executable is a link to.                                                  *)
VersionFromSysRoot(m, creator, bin, release) ==
  IF creator = None \/ ~EndsWith(Parent(creator), bin) THEN None
  ELSE FirstSet(<<BuildDetailsVersion(m, Parent(Parent(creator)), release),
                  HeadersGetVersion(m, Parent(Parent(creator)), release)>>)

VersionFromLink(m, prefix, bin, target, cfg) ==
  CASE target # None ->
         VersionFromSysRoot(m, IF StartsWith(target, prefix) THEN ResolveSymlink(m, target) ELSE target, bin,
           IF cfg # None /\ cfg.version # None THEN Release(cfg.version) ELSE None)
    [] target = None /\ Windows(m) /\ cfg # None -> IF CreatedTogether(m, prefix) THEN cfg.version ELSE None
    [] OTHER -> None

VersionFromBin(m, prefix, bin) ==
  VersionFromLink(m, prefix, bin,
    GetPythonExeUsedToCreateVenv(m, prefix \o <<bin, IF bin = "bin" THEN "python" ELSE "python.exe">>),
    PyVenvCfg(m, prefix))

VersionFromCreator(m, prefix) ==
  FirstSet(<<HeadersVersion(m, prefix),
             VersionFromBin(m, prefix, IF Windows(m) /\ ~Exists(m, prefix \o <<"bin", "python">>)
                                         THEN "Scripts" ELSE "bin")>>)

-----------------------------------------------------------------------------
(* crates/pet-python-utils/src/executable.rs                                 *)
ExecutableCandidates(m, env) ==
  LET names == IF Windows(m) THEN <<"python.exe", "python3.exe">> ELSE <<"python", "python3">>
      places == IF Windows(m) THEN << <<"Scripts">>, <<"bin">>, <<>> >> ELSE << <<"bin">>, <<>> >>
  IN  FlattenSeq([i \in DOMAIN places |->
        [j \in DOMAIN names |-> Append(env \o places[i], names[j])]])

FirstOf(candidates) == IF candidates = <<>> THEN None ELSE Head(candidates)

PythonOf(m, env) == FirstOf(SelectSeq(ExecutableCandidates(m, env), LAMBDA p : IsFile(m, p)))

IsBrokenSymlink(m, p) == IsLink(m, p) /\ ~Exists(m, p)

FindExecutableOrBroken(m, env) ==
  LET broken == FirstOf(SelectSeq(ExecutableCandidates(m, env), LAMBDA p : IsBrokenSymlink(m, p)))
  IN  CASE PythonOf(m, env) # None -> [found |-> "Found", path |-> PythonOf(m, env)]
        [] PythonOf(m, env) = None /\ broken # None -> [found |-> "Broken", path |-> broken]
        [] OTHER -> [found |-> "NotFound", path |-> None]

IsPythonExecutableName(name) == name \in PythonNames

PyenvNames == {".pyenv", "pyenv", "pyenv-win"}
IsPyenvShims(p) == EndsWith(p, "shims") /\ \E n \in PyenvNames : EndsWith(Parent(p), n)

(* find_executables, as a set: the callers collect it into symlinks.         *)
PythonsOf(m, env) ==
  LET scripts == IF Windows(m) /\ Exists(m, Append(env, "Scripts")) THEN Append(env, "Scripts") ELSE env
      bin == IF Exists(m, Append(scripts, "bin")) THEN Append(scripts, "bin") ELSE scripts
      names == IF Windows(m) THEN {"python.exe", "python3.exe"} ELSE {"python", "python3"}
  IN  IF ~IsPyenvShims(env)
         /\ (EndsWith(bin, "bin") \/ \E n \in names : Exists(m, Append(bin, n)))
        THEN {p \in ReadDirectory(m, bin) : IsFile(m, p) /\ IsPythonExecutableName(FileName(p))}
        ELSE {}

FoldersToIgnore ==
  {"node_modules", ".cargo", ".devcontainer", ".github", ".git", ".tox", ".nox",
   ".hypothesis", ".ipynb_checkpoints", ".eggs", ".coverage", ".cache", ".pyre", ".ptype",
   ".pytest_cache", ".vscode", "__pycache__", "__pypackages__", ".mypy_cache",
   "cython_debug", "env.bak", "venv.bak", "Scripts", "bin"}
ShouldSearch(p) == ~\E folder \in FoldersToIgnore : EndsWith(p, folder)

-----------------------------------------------------------------------------
(* crates/pet-python-utils/src/platform_dirs.rs                              *)
Below(base, rest) == IF base = None THEN None ELSE base \o rest

AppData(m, variable, folder) ==
  FirstSet(<<m.vars[variable], Below(m.vars["USERPROFILE"], <<"AppData", folder>>)>>)

UserCacheDir(m, app) ==
  CASE Windows(m) -> Below(AppData(m, "CSIDL_LOCAL_APPDATA", "Local"), <<app, "Cache">>)
    [] m.os = "macos" -> Below(m.vars["HOME"], <<"Library", "Caches", app>>)
    [] OTHER -> Below(FirstSet(<<m.vars["XDG_CACHE_HOME"], Below(m.vars["HOME"], <<".cache">>)>>), <<app>>)

UserDataDir(m, app, roaming) ==
  CASE Windows(m) ->
         Below(IF roaming THEN AppData(m, "CSIDL_APPDATA", "Roaming")
                          ELSE AppData(m, "CSIDL_LOCAL_APPDATA", "Local"), <<app>>)
    [] m.os = "macos" -> Below(m.vars["HOME"], <<"Library", "Application Support", app>>)
    [] OTHER -> Below(FirstSet(<<m.vars["XDG_DATA_HOME"],
                                 Below(m.vars["HOME"], <<".local", "share">>)>>), <<app>>)

UserConfigPath(m, app, roaming) ==
  IF m.os \in {"windows", "macos"} THEN UserDataDir(m, app, roaming)
  ELSE Below(FirstSet(<<m.vars["XDG_CONFIG_HOME"], Below(m.vars["HOME"], <<".config">>)>>), <<app>>)

-----------------------------------------------------------------------------
(* crates/pet-core/src/env.rs: PythonEnv::new                                *)
PythonEnv(m, executable, prefix, version) ==
  LET above == Parent(Parent(executable))
      guess == IF /\ Parent(executable) # <<>> /\ Last(Parent(executable)) \in {"Scripts", "bin"}
                  /\ PyVenvCfg(m, above) # None
               THEN above ELSE None
  IN  [executable |-> NormCase(m, executable),
       prefix |-> IF prefix # None THEN NormCase(m, prefix) ELSE guess,
       version |-> version, symlinks |-> {}]

(* crates/pet-core/src/python_environment.rs                                 *)
Builder(kind) ==
  [kind |-> kind, executable |-> None, prefix |-> None, version |-> None, manager |-> None,
   project |-> None, name |-> None, arch |-> None, symlinks |-> {}, error |-> FALSE]

(* Names of the form Python3.12.exe, which the Store's executable must have. *)
InWindowsApps(p) ==
  /\ {"AppData", "Local", "Microsoft", "WindowsApps"} \subseteq ToSet(p)
  /\ EndsWith(Parent(p), "WindowsApps")
  /\ FileName(p) \in {"python3.12.exe"}

(* The shortest path in characters.  Of several the code takes the first in   *)
(* its list; here it is a fixed one of them.                                  *)
ShortestExecutable(kind, executables) ==
  LET shortest == {p \in executables : \A q \in executables : PathLength(p) <= PathLength(q)}
      store == {p \in executables : InWindowsApps(p)}
  IN  IF kind = "WindowsStore" /\ store # {} THEN CHOOSE p \in store : TRUE
                                             ELSE CHOOSE p \in shortest : TRUE

(* Mutant: the executable stays the one that was found.                      *)
KeepExecutable(m, env) ==
  [env EXCEPT !.symlinks = @ \cup ({env.executable} \ {None})]

Build(m, env) ==
  LET executable == IF env.executable = None THEN None
                    ELSE Append(NormCase(m, Parent(env.executable)), FileName(env.executable))
      all == env.symlinks \cup ({executable} \ {None})
  IN  [env EXCEPT
         !.executable = IF executable = None THEN None ELSE ShortestExecutable(env.kind, all),
         !.symlinks = all,
         !.prefix = IF @ = None THEN None ELSE NormCase(m, @),
         !.project = IF @ = None THEN None ELSE NormCase(m, @)]

(* get_environment_key                                                       *)
EnvironmentKey(m, env) ==
  CASE env.executable # None -> env.executable
    [] env.executable = None /\ env.prefix # None ->
         IF env.kind = "Conda"
           THEN env.prefix \o (IF Windows(m) THEN <<"python.exe">> ELSE <<"bin", "python">>)
           ELSE env.prefix
    [] OTHER -> None
=============================================================================
