SPECIFICATION FairSpec
CONSTANTS
  None = None
  MaxLinks = 4
  MaxBraceExpansions = 4
  Scenarios <- MCScenarios
INVARIANT IdentifiedByEveryPath
INVARIANT DiscoveryMatchesInterpreter
INVARIANT CondaInfoListsNothingMore
INVARIANT RegistryReportedOnce
INVARIANT HatchEntriesAreCurrent
INVARIANT SyncedCachesAreLatest
PROPERTY EveryLocatorCallReturns
