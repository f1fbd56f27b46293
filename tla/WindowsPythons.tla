---------------------------- MODULE WindowsPythons ----------------------------
(***************************************************************************)
(* The locators of interpreters that are not virtual environments, on        *)
(* Windows: WindowsRegistry, WindowsStore and WinPython                      *)
(* (crates/pet-windows-registry, pet-windows-store, pet-winpython).  Their   *)
(* caches are the state of module Locators.                                  *)
(*                                                                         *)
(* The registry of a machine:                                                *)
(*   m.registry.pythons   the keys Software\Python\<company>\<install> with  *)
(*                        an InstallPath: [company, installPath,             *)
(*                        executable, version, is64], None what is not set   *)
(*   m.registry.packages  the packages of the Store by the name of their     *)
(*                        folder: [root, is64]                               *)
(* The first component of a path is its drive.                               *)
(***************************************************************************)
EXTENDS GlobalPythons

WindowsApps == <<"AppData", "Local", "Microsoft", "WindowsApps">>

(* is_windows_app_folder_in_program_files                                    *)
IsStoreFolder(p) == Len(p) >= 3 /\ SubSeq(p, 2, 3) = <<"Program Files", "WindowsApps">>

-----------------------------------------------------------------------------
(* crates/pet-windows-registry: environments.rs                              *)

(* get_registry_pythons_from_key_for_company, for one installation.          *)
RegistryEnvironment(m, key) ==
  LET prefix == NormCase(m, key.installPath)
      executable == NormCase(m, key.executable)
  IN  IF key.executable = None \/ ~Exists(m, executable) THEN None
      ELSE Build(m, [Builder("WindowsRegistry") EXCEPT
             !.executable = executable, !.version = key.version,
             !.prefix = IF Exists(m, prefix) THEN prefix ELSE None, !.arch = Arch(key.is64)])

CompanyWalk(m, company) ==
  LET keys == {k \in m.registry.pythons :
                 /\ k.company = company
                 /\ k.installPath # None
                 /\ ~IsStoreFolder(NormCase(m, k.installPath))}
      conda == {k \in keys : IsCondaEnv(m, NormCase(m, k.installPath))}
  IN  [environments |-> {RegistryEnvironment(m, k) : k \in keys \ conda} \ {None},
       condaDirs |-> {NormCase(m, k.installPath) : k \in conda}]

(* get_registry_pythons: one thread per company; one that panics loses what  *)
(* it found, and only that.                                                  *)
Companies(m) == {k.company : k \in m.registry.pythons}
RegistryWalk(m, panicking) ==
  LET walks == {CompanyWalk(m, company) : company \in Companies(m) \ panicking}
  IN  [environments |-> UNION {w.environments : w \in walks},
       condaDirs |-> UNION {w.condaDirs : w \in walks},
       hadPanic |-> panicking # {}]

(* walk is what find_with_cache returns.                                     *)
RegistryTryFrom(m, e, walk) ==
  LET found == {env \in walk.environments : env.executable = e.executable}
  IN  IF \/ ~Windows(m) \/ IsVirtualEnv(m, e)
         \/ e.prefix # None /\ IsCondaEnv(m, e.prefix)
         \/ found = {} THEN None
      ELSE CHOOSE env \in found : TRUE

-----------------------------------------------------------------------------
(* crates/pet-windows-store: environments.rs, environment_locations.rs       *)
StoreSearchLocation(m) == Below(UserHome(m), WindowsApps)

(* Folders PythonSoftwareFoundation.Python.* and the versions in their names *)
(* and in the names of the executables beside them.                          *)
IsPackageFolder(name) ==
  name \in {"PythonSoftwareFoundation.Python.3.12_q", "PythonSoftwareFoundation.Python.next_q"}
PackageVersion(name) == IF name = "PythonSoftwareFoundation.Python.3.12_q" THEN "3.12" ELSE None
ExecutableVersion(name) == IF name = "python3.12.exe" THEN "3.12" ELSE None

(* find_symlinks: looks beside the WindowsApps folder.                       *)
StoreSymlinks(m, found, version) ==
  LET dir == Parent(Parent(found))
      exe == Append(dir, "python" \o version \o ".exe")
      all == PythonsOf(m, dir)
      versioned == {p \in all : ExecutableVersion(FileName(p)) # None}
  IN  IF EndsWith(dir, "WindowsApp") THEN {}
      ELSE (IF Exists(m, exe) THEN {exe} ELSE {}) \cup (IF Cardinality(versioned) = 1 THEN all ELSE {})

(* to_python_environment                                                     *)
StoreEnvironment(m, folder, executable, version) ==
  LET package == m.registry.packages[FileName(folder)]
      root == NormCase(m, package.root)
      names == {"python" \o version \o ".exe", "python3.exe", "python.exe"}
  IN  IF FileName(folder) \notin DOMAIN m.registry.packages THEN None
      ELSE Build(m, [Builder("WindowsStore") EXCEPT
             !.executable = executable, !.prefix = root,
             !.arch = IF package.is64 THEN "x64" ELSE None,
             !.symlinks = {Append(dir, n) : dir \in {Parent(folder), folder, root}, n \in names}
                            \cup StoreSymlinks(m, folder, version)])

(* A folder without a version in its name ends the search with nothing.      *)
ListStorePythons(m) ==
  LET apps == StoreSearchLocation(m)
      entries == IF apps = None THEN {} ELSE ReadDirectory(m, apps)
      folders == {p \in entries : IsPackageFolder(FileName(p))}
      executables == {p \in entries : ExecutableVersion(FileName(p)) # None}
      pairs == {p \in folders \X executables :
                  PackageVersion(FileName(p[1])) = ExecutableVersion(FileName(p[2]))}
  IN  IF \E f \in folders : PackageVersion(FileName(f)) = None THEN {}
      ELSE {StoreEnvironment(m, p[1], p[2], PackageVersion(FileName(p[1]))) : p \in pairs} \ {None}

StoreTryFrom(m, e, found) ==
  LET given == {NormCase(m, p) : p \in {e.executable} \cup e.symlinks}
      same == {env \in found : {NormCase(m, p) : p \in env.symlinks} \cap given # {}}
  IN  IF ~Windows(m) \/ IsVirtualEnv(m, e) \/ same = {} THEN None
      ELSE LET env == CHOOSE env \in same : TRUE
           IN  Build(m, [env EXCEPT !.symlinks = @ \cup e.symlinks])

-----------------------------------------------------------------------------
(* crates/pet-winpython                                                      *)
IsWinPythonRoot(m, p) == Exists(m, Append(p, ".winpython")) \/ Exists(m, Append(p, "winpython.ini"))
IsWinPythonDirName(name) == TextStartsWith(name, "WPy64-")

(* Folders python-<version>[.<arch>].                                        *)
VersionFromFolderName(name) == IF name = "python-3.12.4.amd64" THEN <<3, 12, 4>> ELSE None
IsPythonFolderName(name) == VersionFromFolderName(name) # None

FindPythonFolderInWinPython(m, root) ==
  LET folders == {p \in ReadDirectory(m, root) :
                    /\ IsDirectory(m, p)
                    /\ IsPythonFolderName(FileName(p))
                    /\ Exists(m, Append(p, "python.exe"))}
  IN  IF folders = {} THEN None ELSE CHOOSE p \in folders : TRUE

(* find_winpython_root: the nearest of five directories above.               *)
WinPythonFolderOf(m, executable) ==
  LET above == SetToSortSeq({i \in 0..(Len(executable) - 1) : i >= Len(executable) - 5}, >)
      marked(p) == IsWinPythonRoot(m, p) \/ (p # <<>> /\ IsWinPythonDirName(FileName(p)))
      folder(i) == LET p == SubSeq(executable, 1, above[i])
                   IN  IF marked(p) THEN FindPythonFolderInWinPython(m, p) ELSE None
  IN  FirstSet([i \in DOMAIN above |-> folder(i)])

(* build_environment                                                         *)
WinPythonEnvironment(m, e, folder) ==
  LET scripts == Append(folder, "Scripts")
  IN  Build(m, [Builder("WinPython") EXCEPT
        !.executable = NormCase(m, e.executable), !.prefix = folder,
        !.version = FirstSet(<<VersionFromFolderName(FileName(folder)), e.version>>),
        !.symlinks = {NormCase(m, p) : p \in e.symlinks \cup PythonsOf(m, folder)
                        \cup (IF Exists(m, scripts) THEN PythonsOf(m, scripts) ELSE {})}])

WinPythonTryFrom(m, e) ==
  LET folder == WinPythonFolderOf(m, e.executable)
  IN  IF ~Windows(m) \/ IsVirtualEnv(m, e) \/ folder = None THEN None
      ELSE WinPythonEnvironment(m, e, folder)

WinPythonSearchPaths(m) ==
  {NormCase(m, p) : p \in
     ({Below(m.vars["USERPROFILE"], <<"WinPython">>)} \ {None})
       \cup (IF m.vars["WINPYTHON_HOME"] = None THEN {} ELSE m.vars["WINPYTHON_HOME"])}

(* discover_environments_in and collect_install                              *)
DiscoverWinPythons(m) ==
  LET marked(p) == IsWinPythonRoot(m, p) \/ IsWinPythonDirName(FileName(p))
      roots(p) == IF marked(p) THEN {p} ELSE {d \in ReadDirectory(m, p) : IsDirectory(m, d) /\ marked(d)}
      folders == {FindPythonFolderInWinPython(m, r) : r \in
                    UNION {roots(p) : p \in {q \in WinPythonSearchPaths(m) : Exists(m, q)}}} \ {None}
  IN  {WinPythonTryFrom(m, PythonEnv(m, Append(f, "python.exe"), f, None)) : f \in folders} \ {None}
=============================================================================
