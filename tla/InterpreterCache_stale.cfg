SPECIFICATION Spec
CONSTANTS
  c1 = c1
  python = python
  python3 = python3
  other = other
  Calls = {c1, c2}
  Processes = {s1, s2}
  Paths = {python, python3, other}
  Resolvers = {c1}
  Requests <- TheRequests
  Binaries = {"bPython", "bOther"}
  Target <- TheTarget
  SysExecutable <- TheSysExecutable
  Links <- TheLinks
  Files = {"file"}
  CacheFile <- TheCacheFile
  NumWrites = 2
  WriteOf <- TheWriteOf
  MaxEvents = 2
  Torn = Torn
  None = None
SYMMETRY Symmetry
INVARIANTS
  CachedInfoIsCurrent
