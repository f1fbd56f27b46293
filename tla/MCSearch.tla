------------------------------- MODULE MCSearch -------------------------------
(* A machine for Search.  The bin directory of Conda's base environment is on  *)
(* PATH; Conda also has an environment without Python.  x2 is a Conda          *)
(* environment below WORKON_HOME that a pipenv project adopted: find() of      *)
(* PipEnv and the order of the locators disagree about it.  No locator knows   *)
(* x3.  The workspace has a broken venv in a preferred place and x2 again      *)
(* below it.                                                                   *)
EXTENDS Search

Env(x, prefix, kind, manager) ==
  [executable |-> x, prefix |-> prefix, kind |-> kind, manager |-> manager]

Base == Env("x1", "base", "Conda", "conda")

TheOrder == <<"Conda", "PipEnv">>
TheSupports == [Conda |-> {"Conda"}, PipEnv |-> {"Pipenv"}]
TheFinds ==
  [Conda |-> <<Manager("conda"), Environment(Env(None, "empty", "Conda", "conda"))>>,
   PipEnv |-> <<Environment(Env("x2", None, "Pipenv", None))>>]
(* A search of everything on a machine without workspace; one for Pipenv       *)
(* environments; and one of given paths.                                       *)
TheSearches ==
  {[paths |-> None, kind |-> None, folders |-> {}, executables |-> {},
    searchPaths |-> {"bin"}, virtualEnvPaths |-> {"virtualenvs"}],
   [paths |-> None, kind |-> "Pipenv", folders |-> {"workspace"}, executables |-> {},
    searchPaths |-> {}, virtualEnvPaths |-> {"virtualenvs"}],
   [paths |-> {"workspace", "x1", "x3"}, kind |-> None, folders |-> {}, executables |-> {},
    searchPaths |-> {"bin"}, virtualEnvPaths |-> {}]}

TheDirectories == {"bin", "virtualenvs", "workspace", "workspace/.venv", "workspace/project"}
TheFindExecutable ==
  [d \in TheDirectories |-> IF d = "workspace/project" THEN "x2" ELSE None]
TheFindExecutables ==
  [d \in TheDirectories |-> CASE d = "bin" -> <<"x1">>
                              [] d = "virtualenvs" -> <<"x2">>
                              [] OTHER -> <<>>]
TheBrokenVenv ==
  [d \in TheDirectories |-> IF d = "workspace/.venv" THEN Env(None, d, "Venv", None) ELSE None]
ThePreferred ==
  [d \in TheDirectories |-> IF d = "workspace" THEN <<"workspace/.venv">> ELSE <<>>]
TheSubdirectories ==
  [d \in TheDirectories |->
     IF d = "workspace" THEN <<"workspace/.venv", "workspace/project">> ELSE <<>>]

ThePythonEnvs == {"x1", "x2", "x3", "y3"}
TheTryFrom ==
  [Conda |-> [x \in ThePythonEnvs |-> CASE x = "x1" -> Base
                                     [] x = "x2" -> Env(x, "x2", "Conda", "conda")
                                     [] OTHER -> None],
   PipEnv |-> [x \in ThePythonEnvs |->
                 IF x = "x2" THEN Env(x, None, "Pipenv", None) ELSE None]]
TheResolve == [x \in ThePythonEnvs |-> IF x = "x3" THEN "y3" ELSE None]
TheParents == [x \in ThePythonEnvs |-> IF x \in {"x1", "x3"} THEN {"bin"} ELSE {}]
TheBinPython == [p \in {"empty"} |-> "x5"]
TheFragile == {<<"Workspaces", "workspace">>}
=============================================================================
