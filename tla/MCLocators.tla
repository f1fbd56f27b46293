------------------------------ MODULE MCLocators ------------------------------
(***************************************************************************)
(* Small machines, each a base installation with a few of the things below   *)
(* on it, and the scenarios of module Locators on them.                      *)
(***************************************************************************)
EXTENDS Locators, TLC

VariableNames ==
  {"HOME", "USERPROFILE", "WORKON_HOME", "XDG_DATA_HOME", "XDG_CACHE_HOME", "XDG_CONFIG_HOME",
   "PIPENV_PIPFILE", "PATH", "APPDATA", "LOCALAPPDATA", "CSIDL_LOCAL_APPDATA", "CSIDL_APPDATA",
   "UV_PYTHON_INSTALL_DIR", "HATCH_DATA_DIR", "POETRY_CACHE_DIR", "POETRY_CONFIG_DIR",
   "POETRY_HOME", "POETRY_VIRTUALENVS_PATH", "POETRY_VIRTUALENVS_IN_PROJECT", "PYENV_ROOT",
   "PYENV", "HOMEBREW_PREFIX", "VIRTUAL_ENV", "WINPYTHON_HOME", "CONDA_ROOT", "CONDA_PREFIX",
   "CONDA_DIR", "CONDA", "CONDARC", "MAMBARC", "MAMBA_ROOT_PREFIX", "CONDA_ENVS_PATH",
   "ANACONDA_PROJECT_ENVS_PATH", "PROJECT_DIR", "PROGRAMDATA", "ALLUSERSPROFILE", "HOMEDRIVE"}

WithParents(disk) ==
  LET parents == UNION {{SubSeq(p, 1, i) : i \in 0..(Len(p) - 1)} : p \in DOMAIN disk}
  IN  disk @@ [p \in parents |-> Directory]

Merge(fragments) == FoldSet(LAMBDA f, all : all @@ f, [p \in {} |-> None], fragments)

V124 == <<3, 12, 4>>
Python(prefix, version) ==
  File([executable |-> None, prefix |-> prefix, version |-> version, is64 |-> TRUE])
Line(key, value) == [key |-> key, value |-> value]
Cfg(lines) == File(lines)
Toml(project, poetry, workspace, hatchSection) ==
  File([project |-> project, poetry |-> poetry, backend |-> None, workspace |-> workspace,
        hatch |-> hatchSection])

Home == <<"home", "u">>
App == <<"work", "app">>
Usr == <<"usr">>
UsrPython == <<"usr", "bin", "python3.12">>

(* A virtual environment of the system's Python.                             *)
VenvAt(prefix, lines) ==
  (prefix \o <<"bin", "python">>) :> Link(UsrPython)
  @@ (prefix \o <<"bin", "python3">>) :> Link(UsrPython)
  @@ (prefix \o <<"bin", "activate">>) :> File(None)
  @@ (prefix \o <<"pyvenv.cfg">>) :> Cfg(lines)
Plain == <<Line("version", V124)>>

LinuxBase ==
  UsrPython :> Python(Usr, V124)
  @@ <<"usr", "bin", "python3">> :> Link(UsrPython)
  @@ <<"bin">> :> Link(<<"usr", "bin">>)
  @@ <<"usr", "include", "python3.12", "patchlevel.h">> :> File(V124)
  @@ Home :> Directory
  @@ App :> Directory

CondaAt(prefix, name, version) ==
  (prefix \o <<"bin", "python3.12">>) :> Python(prefix, version)
  @@ (prefix \o <<"bin", "python">>) :> Link(prefix \o <<"bin", "python3.12">>)
  @@ (prefix \o <<"conda-meta", "python-3.12.4-h1.json">>) :>
        File([package |-> "python", version |-> version, is64 |-> TRUE])
  @@ (prefix \o <<"conda-meta", "history">>) :>
        File([creator |-> None, named |-> None,
              lines |-> <<[added |-> TRUE, package |-> "python", record |-> "python-3.12.4-h1.json"]>>])

Miniconda == Home \o <<"miniconda3">>

LinuxThing(t) ==
  CASE t = "venv" -> VenvAt(App \o <<".venv">>, Plain)
    [] t = "uv" -> VenvAt(App \o <<".venv">>, <<Line("uv", "0.5"), Line("version_info", V124), Line("prompt", "app")>>)
                   @@ (App \o <<"pyproject.toml">>) :> Toml("app", None, None, None)
    [] t = "poetry" -> VenvAt(Home \o <<".cache", "pypoetry", "virtualenvs", "app-homeapp-py3.12">>, Plain)
                   @@ <<"home", "app", "pyproject.toml">> :> Toml(None, "app", None, None)
    [] t = "pipenv" -> VenvAt(Home \o <<".local", "share", "virtualenvs", "app-abcd1234">>, Plain)
                   @@ (Home \o <<".local", "share", "virtualenvs", "app-abcd1234", ".project">>) :> File(App)
                   @@ (App \o <<"Pipfile">>) :> File(None)
    [] t = "wrapper" -> VenvAt(Home \o <<".virtualenvs", "w">>, Plain)
    [] t = "hatchflat" -> VenvAt(App \o <<".hatch", "default">>, Plain)
                   @@ (App \o <<"hatch.toml">>) :> File([virtual |-> <<".hatch">>, envs |-> {"test"}])
    [] t = "hatch" -> VenvAt(Home \o <<".local", "share", "hatch", "env", "virtual", "app", "h1", "app">>, Plain)
    [] t = "pyenv" -> (Home \o <<".pyenv", "versions", "3.12.4", "bin", "python3.12">>) :>
                         Python(Home \o <<".pyenv", "versions", "3.12.4">>, V124)
                   @@ (Home \o <<".pyenv", "versions", "3.12.4", "bin", "python">>) :>
                         Link(Home \o <<".pyenv", "versions", "3.12.4", "bin", "python3.12">>)
                   @@ (Home \o <<".pyenv", "bin", "pyenv">>) :> File(None)
    [] t = "conda" -> CondaAt(Miniconda, "base", V124)
                   @@ (Miniconda \o <<"condabin">>) :> Directory
                   @@ <<"usr", "bin", "conda">> :> Link(Miniconda \o <<"bin", "conda">>)
                   @@ (Miniconda \o <<"conda-meta", "conda-24.5.0-py312.json">>) :>
                        File([package |-> "conda", version |-> <<24, 5, 0>>, is64 |-> TRUE])
                   @@ CondaAt(Miniconda \o <<"envs", "e1">>, "e1", V124)
    [] t = "condarc" -> CondaAt(Home \o <<"cenvs", "e2">>, "e2", V124)
                   @@ (Home \o <<".condarc">>) :> File([envsDirs |-> {Home \o <<"cenvs">>}])
    [] t = "condatxt" -> CondaAt(<<"data", "e3">>, "e3", V124)
                   @@ (Home \o <<".conda", "environments.txt">>) :> File({<<"data", "e3">>})
    [] t = "installrc" -> CondaAt(Home \o <<"denvs", "e4">>, "e4", V124)
                   @@ (Miniconda \o <<".condarc">>) :> File([envsDirs |-> {Home \o <<"denvs">>}])
    [] t = "pixi" -> CondaAt(App \o <<".pixi", "envs", "default">>, "default", V124)
                   @@ (App \o <<".pixi", "envs", "default", "conda-meta", "pixi">>) :> File(None)
    [] t = "virtualenv" -> (Home \o <<"envs", "old", "bin", "python">>) :> Link(UsrPython)
                   @@ (Home \o <<"envs", "old", "bin", "activate">>) :> File(None)
    [] t = "brew" -> (LinuxBrew \o <<"Cellar", "python@3.12", "3.12.4", "bin", "python3.12">>) :>
                        Python(LinuxBrew \o <<"Cellar", "python@3.12", "3.12.4">>, V124)
                   @@ (LinuxBrew \o <<"bin", "python3.12">>) :>
                        Link(LinuxBrew \o <<"Cellar", "python@3.12", "3.12.4", "bin", "python3.12">>)
                   @@ (LinuxBrew \o <<"bin", "python3">>) :>
                        Link(LinuxBrew \o <<"Cellar", "python@3.12", "3.12.4", "bin", "python3.12">>)
    [] t = "uvmanaged" -> (Home \o <<".local", "share", "uv", "python", "cpython-3.12.1-linux", "bin", "python3.12">>) :>
                             Python(Home \o <<".local", "share", "uv", "python", "cpython-3.12.1-linux">>, <<3, 12, 1>>)
                   @@ (Home \o <<".local", "share", "uv", "python", "cpython-3.12.1-linux", "bin", "python">>) :>
                             Link(Home \o <<".local", "share", "uv", "python", "cpython-3.12.1-linux", "bin", "python3.12">>)
                   @@ (Home \o <<".local", "bin", "python3.12">>) :>
                             Link(Home \o <<".local", "share", "uv", "python", "cpython-3.12.1-linux", "bin", "python3.12">>)
    [] t = "upgraded" -> UsrPython :> Python(Usr, <<3, 12, 5>>)
                   @@ <<"usr", "include", "python3.12", "patchlevel.h">> :> File(<<3, 12, 5>>)
    [] t = "broken" -> (App \o <<"venv", "bin", "python">>) :> Link(<<"usr", "bin", "python3.9">>)
                   @@ (App \o <<"venv", "bin", "activate">>) :> File(None)
                   @@ (App \o <<"venv", "pyvenv.cfg">>) :> Cfg(<<Line("version", <<3, 9, 1>>)>>)

LinuxThings == {"venv", "uv", "poetry", "pipenv", "wrapper", "hatchflat", "hatch", "pyenv", "conda",
                "condarc", "condatxt", "installrc", "pixi",
                "virtualenv", "brew", "uvmanaged", "broken", "upgraded"}

NoRegistry == [pythons |-> {}, packages |-> [f \in {} |-> None]]

Machine(os, disk, home, path, registry) ==
  [os |-> os, disk |-> WithParents(disk), real |-> RealPaths(WithParents(disk)),
   vars |-> [v \in VariableNames |->
               CASE v = (IF os = "windows" THEN "USERPROFILE" ELSE "HOME") -> home
                 [] v = "PATH" -> path
                 [] OTHER -> None],
   proper |-> [n \in {"users"} |-> "Users"], upgraded |-> {}, registry |-> registry, wsl |-> FALSE]

(* What `conda info` says: Conda reads all of its files.                     *)
CondaBinary(things) ==
  LET under(t, what) == IF t \in things THEN {what} ELSE {}
  IN  (Miniconda \o <<"bin", "conda">>) :>
        File([condaPrefix |-> Miniconda, rootPrefix |-> Miniconda,
              envs |-> {Miniconda, Miniconda \o <<"envs", "e1">>}
                         \cup under("condarc", Home \o <<"cenvs", "e2">>)
                         \cup under("condatxt", <<"data", "e3">>)
                         \cup under("installrc", Home \o <<"denvs", "e4">>),
              sysRc |-> Miniconda \o <<".condarc">>, userRc |-> Home \o <<".condarc">>,
              configFiles |-> {Home \o <<".condarc">>, Miniconda \o <<".condarc">>}])

Linux(things) ==
  Machine("linux", Merge({LinuxThing(t) : t \in things})
                     @@ (IF "conda" \in things THEN CondaBinary(things) ELSE Nothing) @@ LinuxBase, Home,
          << <<"usr", "bin">>, <<"bin">> >>, NoRegistry)

-----------------------------------------------------------------------------
(* macOS: the shim /usr/bin/python3 starts the Python of the tools.          *)
ToolsAt(root) ==
  LET framework == root \o <<"Library", "Frameworks", "Python3.framework", "Versions">>
      python == framework \o <<"3.12", "bin", "python3.12">>
  IN  python :> Python(framework \o <<"3.12">>, V124)
      @@ (framework \o <<"3.12", "bin", "python3">>) :> Link(python)
      @@ (framework \o <<"Current">>) :> Link(framework \o <<"3.12">>)
      @@ (framework \o <<"3.12", "Headers", "patchlevel.h">>) :> File(V124)
      @@ (root \o <<"usr", "bin", "python3">>) :> Link(python)
      @@ (root \o <<"usr", "bin", "python3.12">>) :> Link(python)
      @@ UsrBinPython3 :> File([executable |-> root \o <<"usr", "bin", "python3">>,
                                prefix |-> framework \o <<"3.12">>, version |-> V124, is64 |-> TRUE])

BrewCellar == OptHomebrew \o <<"Cellar", "python@3.12", "3.12.4">>
BrewPython == BrewCellar \o <<"Frameworks", "Python.framework", "Versions", "3.12", "bin", "python3.12">>
OrgPython == PythonOrgVersions \o <<"3.12", "bin", "python3.12">>

MacThing(t) ==
  CASE t = "tools" -> ToolsAt(CommandLineTools)
    [] t = "xcode" -> ToolsAt(<<"Applications", "Xcode.app", "Contents", "Developer">>)
    [] t = "org" -> OrgPython :> Python(Parent(Parent(OrgPython)), V124)
                    @@ Append(Parent(OrgPython), "python3") :> Link(OrgPython)
                    @@ Append(PythonOrgVersions, "Current") :> Link(Append(PythonOrgVersions, "3.12"))
                    @@ (PythonOrgVersions \o <<"3.12", "Headers", "patchlevel.h">>) :> File(V124)
                    @@ <<"usr", "local", "bin", "python3">> :> Link(OrgPython)
                    @@ <<"usr", "local", "bin", "python3.12">> :> Link(OrgPython)
    [] t = "brew" -> BrewPython :> Python(Parent(Parent(BrewPython)), V124)
                    @@ (BrewCellar \o <<"bin", "python3.12">>) :> Link(BrewPython)
                    @@ (OptHomebrew \o <<"bin", "python3.12">>) :> Link(BrewCellar \o <<"bin", "python3.12">>)
                    @@ (OptHomebrew \o <<"bin", "python3">>) :> Link(BrewCellar \o <<"bin", "python3.12">>)
    [] t = "venv" -> (App \o <<".venv", "bin", "python">>) :> Link(BrewPython)
                    @@ (App \o <<".venv", "bin", "python3">>) :> Link(BrewPython)
                    @@ (App \o <<".venv", "bin", "activate">>) :> File(None)
                    @@ (App \o <<".venv", "pyvenv.cfg">>) :> Cfg(Plain)
MacThings == {"tools", "xcode", "org", "brew", "venv"}

Mac(things) ==
  Machine("macos", Home :> Directory @@ App :> Directory @@ Merge({MacThing(t) : t \in things}), Home,
          << <<"usr", "local", "bin">>, <<"usr", "bin">>, OptHomebrew \o <<"bin">> >>, NoRegistry)

-----------------------------------------------------------------------------
WinHome == <<"C:", "Users", "u">>
WinApp == <<"C:", "work", "app">>
WinApps == WinHome \o WindowsApps
StorePackage == "PythonSoftwareFoundation.Python.3.12_q"
StoreRoot == <<"C:", "Program Files", "WindowsApps", StorePackage>>
CorePython == <<"C:", "Python312">>
WinConda == <<"C:", "ProgramData", "miniconda3">>
WinPythonFolder == WinHome \o <<"WinPython", "WPy64-31240", "python-3.12.4.amd64">>
WinPyenv == WinHome \o <<".pyenv", "pyenv-win", "versions", "3.12.4">>
StoreExecutable == File([executable |-> Append(WinApps \o <<StorePackage>>, "python.exe"),
                         prefix |-> StoreRoot, version |-> V124, is64 |-> TRUE])

WinVenvAt(prefix) ==
  (prefix \o <<"Scripts", "python.exe">>) :> Python(prefix, V124)
  @@ (prefix \o <<"Scripts", "activate.bat">>) :> File(None)
  @@ (prefix \o <<"pyvenv.cfg">>) :> Cfg(Plain)

WinThing(t) ==
  CASE t = "core" -> (CorePython \o <<"python.exe">>) :> Python(CorePython, V124)
                     @@ (CorePython \o <<"Scripts", "pip.exe">>) :> File(None)
    [] t = "conda" -> (WinConda \o <<"python.exe">>) :> Python(WinConda, V124)
                     @@ (WinConda \o <<"condabin">>) :> Directory
                     @@ (WinConda \o <<"Scripts", "conda.exe">>) :> File(None)
                     @@ (WinConda \o <<"conda-meta", "python-3.12.4-h1.json">>) :>
                          File([package |-> "python", version |-> V124, is64 |-> TRUE])
                     @@ (WinConda \o <<"conda-meta", "conda-24.5.0-py312.json">>) :>
                          File([package |-> "conda", version |-> <<24, 5, 0>>, is64 |-> TRUE])
    [] t = "store" -> Merge({Append(d, n) :> StoreExecutable : d \in {WinApps, Append(WinApps, StorePackage), StoreRoot},
                                                            n \in {"python.exe", "python3.exe", "python3.12.exe"}})
    [] t = "next" -> (WinApps \o <<"PythonSoftwareFoundation.Python.next_q", "python.exe">>) :> File(None)
    [] t = "winpython" -> (WinPythonFolder \o <<"python.exe">>) :> Python(WinPythonFolder, V124)
    [] t = "venv" -> WinVenvAt(WinApp \o <<".venv">>)
    [] t = "pyenv" -> (WinPyenv \o <<"python.exe">>) :> Python(WinPyenv, V124)
    [] t = "poetry" -> WinVenvAt(WinHome \o <<"AppData", "Local", "pypoetry", "Cache", "virtualenvs", "app-homeapp-py3.12">>)
WinThings == {"core", "conda", "store", "next", "winpython", "venv", "pyenv", "poetry"}

Key(company, path, executable) ==
  [company |-> company, installPath |-> path, executable |-> executable, version |-> V124, is64 |-> TRUE]

Win(things) ==
  Machine("windows", WinHome :> Directory @@ WinApp :> Directory @@ Merge({WinThing(t) : t \in things}), WinHome,
          <<CorePython, WinApps>>,
          [pythons |-> (IF "core" \in things THEN {Key("PythonCore", CorePython, Append(CorePython, "python.exe"))} ELSE {})
             \cup (IF "conda" \in things THEN {Key("ContinuumAnalytics", WinConda, Append(WinConda, "python.exe"))} ELSE {})
             \cup (IF "store" \in things THEN {Key("PythonCore", StoreRoot, Append(StoreRoot, "python.exe"))} ELSE {}),
           packages |-> IF "store" \in things THEN StorePackage :> [root |-> StoreRoot, is64 |-> TRUE]
                                              ELSE [f \in {} |-> None]])

-----------------------------------------------------------------------------
WorkspacePatterns ==
  {<<Braces(<<Name("work"), Name("home")>>), Name("app")>>, <<Name("C:"), Name("work"), Star>>}
Configured(patterns) ==
  [workspaces |-> patterns, environmentDirectories |-> {<<Name("home"), StarStar, Name("envs")>>},
   executables |-> {}, condaExecutable |-> None, pipenvExecutable |-> None, poetryExecutable |-> None]

Scenario(machines, configurations) ==
  [machines |-> machines, configurations |-> configurations, resolves |-> {}, refresh |-> None,
   finders |-> {}, probes |-> {}, panics |-> {}]
Everything == [kind |-> None, paths |-> None]

(* Nobody does anything: what the machine holds is reported and identified.  *)
Untouched(machine) == Scenario(<<machine>>, <<Configured(WorkspacePatterns)>>)
Subsets(things, size) == {s \in SUBSET things : Cardinality(s) <= size}

LinuxChoices == {s \in Subsets(LinuxThings, 3) : ~({"venv", "uv"} \subseteq s)}

(* The files of Hatch change, and so do the workspaces.                      *)
HatchChanged ==
  [Linux({"hatchflat"}) EXCEPT !.disk[App \o <<"hatch.toml">>] =
     File([virtual |-> <<".venvs">>, envs |-> {}])]
HatchScenario ==
  [Scenario(<<Linux({"hatchflat"}), HatchChanged>>,
            <<Configured(WorkspacePatterns), Configured({<<Name("work"), Star>>})>>) EXCEPT
     !.resolves = {App \o <<".hatch", "default">>}, !.refresh = Everything, !.finders = {"Hatch"}]

(* An environment of Poetry appears.                                         *)
PoetryScenario(options, finders, probes) ==
  [Scenario(<<Linux({"venv"}), Linux({"venv", "poetry"})>>,
            <<Configured(WorkspacePatterns), Configured({<<Name("work"), Star>>})>>) EXCEPT
     !.resolves = {App \o <<".venv", "bin", "python">>}, !.refresh = options,
     !.finders = finders, !.probes = probes]

(* The system's Python is upgraded.                                          *)
LinuxScenario ==
  [Scenario(<<Linux({"pyenv"}), Linux({"pyenv", "upgraded"})>>, <<Configured({})>>) EXCEPT
     !.resolves = {UsrPython}, !.refresh = Everything, !.finders = {"LinuxGlobal", "PyEnv"}]

(* A Python is installed on Windows.                                         *)
WindowsScenario(finders, probes, panics) ==
  [Scenario(<<Win({"winpython"}), Win({"winpython", "core"})>>, <<Configured({})>>) EXCEPT
     !.resolves = {Append(CorePython, "python.exe")}, !.refresh = Everything,
     !.finders = finders, !.probes = probes, !.panics = panics]

AllScenarios ==
  LET untouched == {<<"linux", s>> : s \in LinuxChoices} \cup {<<"macos", s>> : s \in Subsets(MacThings, 3)}
                     \cup {<<"windows", s>> : s \in Subsets(WinThings, 3)}
      busy == {<<s, {}>> : s \in {"hatch", "poetry", "poetry only", "poetry paths", "upgrade",
                                  "registry", "registry twice", "registry probed", "store"}}
  IN [name \in untouched \cup busy
   |-> CASE name[1] = "linux" -> Untouched(Linux(name[2]))
         [] name[1] = "macos" -> Untouched(Mac(name[2]))
         [] name[1] = "windows" -> Untouched(Win(name[2]))
         [] name[1] = "hatch" -> HatchScenario
         [] name[1] = "poetry" -> PoetryScenario(Everything, {"Poetry"}, {})
         [] name[1] = "poetry only" -> PoetryScenario([kind |-> "Poetry", paths |-> None], {"Poetry"}, {})
         [] name[1] = "poetry paths" ->
              PoetryScenario([kind |-> None, paths |-> {<<Name("home"), Name("app")>>}], {},
                             {App \o <<".venv", "bin", "python">>})
         [] name[1] = "upgrade" -> LinuxScenario
         [] name[1] = "registry" ->
              WindowsScenario({"WindowsRegistry"}, {}, {"PythonCore"})
         [] name[1] = "registry probed" ->
              [WindowsScenario({"WindowsRegistry"}, {Append(CorePython, "python.exe")}, {"PythonCore"})
                 EXCEPT !.resolves = {}]
         [] name[1] = "registry twice" ->
              [WindowsScenario({"WindowsRegistry"}, {}, {})
                 EXCEPT !.resolves = @ \cup {Append(WinPythonFolder, "python.exe")}]
         [] name[1] = "store" -> WindowsScenario({"WindowsStore", "WinPython"}, {}, {})]

MCScenarios == LET all == AllScenarios IN all
=============================================================================
