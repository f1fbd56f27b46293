SPECIFICATION FairSpec
CONSTANTS
  Runs = {f1, f2, f3}
  MaxGeneration = 2
INVARIANTS
  OneWorkerPerGeneration
PROPERTIES
  CurrentClaimIsKept
  ClaimIsSettled
