SPECIFICATION Spec
CONSTANTS
  Prefixes = {"base"}
  Install <- TheInstall
  HasManager = {"conda"}
  HasMamba = {"conda"}
  OnPath = {"base"}
  Resolved = {"base"}
  ConfiguredMamba = {"mamba"}
  MaxChanges = 2
  None = None
INVARIANTS
  CachedDetailsMatchFingerprint
  DetailsAreFresh
  FoundIsReported
