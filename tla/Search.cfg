SPECIFICATION FairSpec
CONSTANTS
  PythonEnvs <- ThePythonEnvs
  EnvPrefixes = {"base", "empty", "x2", "workspace/.venv"}
  Kinds = {"Conda", "Pipenv", "Venv", "GlobalPaths"}
  Managers = {"conda"}
  LocatorOrder <- TheOrder
  Supports <- TheSupports
  Finds <- TheFinds
  Searches <- TheSearches
  EnvironmentDirectories = {}
  Directories <- TheDirectories
  Files = {"x1", "x3"}
  FindExecutable <- TheFindExecutable
  FindExecutables <- TheFindExecutables
  BrokenVenv <- TheBrokenVenv
  PreferredPaths <- ThePreferred
  Subdirectories <- TheSubdirectories
  Searchable = {"workspace/project"}
  IsEnvironment = {}
  TryFrom <- TheTryFrom
  Resolve <- TheResolve
  Parents <- TheParents
  BinPython <- TheBinPython
  Fragile <- TheFragile
  None = None
INVARIANTS
  ReportedOnce
  ManagerPrecedesEnvironment
  CompletedPhaseIsReported
PROPERTIES
  NothingAfterEnd
  SearchEnds
