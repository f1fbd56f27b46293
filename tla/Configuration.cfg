SPECIFICATION FairSpec
CONSTANTS
  Configures = {c1, c2}
  CachingConfigures = {c1}
  Refreshes = {r1, r2}
  Finds = {f1}
  NumLocators = 2
  MaxReporters = 1
  Default = Default
INVARIANTS NoStaleNotification LocatorsMatchConfiguration FailedConfigureIsInvisible WaitedRefreshIsCurrent
PROPERTIES SyncNeverGoesBack GenerationsIdentifyConfigurations EveryConfigureAnswered
