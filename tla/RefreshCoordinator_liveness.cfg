SPECIFICATION FairSpec
CONSTANTS
  r1 = r1
  r2 = r2
  r3 = r3
  o1 = o1
  Requests = {r1, r2, r3}
  Options = {o1}
  MaxGeneration = 1
  NoKey = NoKey
  NoOutcome = NoOutcome
PROPERTIES
  EveryRequestAnswered
  CoordinatorReturnsToIdle
  ImplementsService
