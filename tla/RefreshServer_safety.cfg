SPECIFICATION ServerSpec
CONSTANTS
  r1 = r1
  r2 = r2
  r3 = r3
  o1 = o1
  o2 = o2
  Requests = {r1, r2, r3}
  Options = {o1, o2}
  MaxGeneration = 1
  NoKey = NoKey
  NoOutcome = NoOutcome
SYMMETRY Symmetry
INVARIANTS
  SingleFlight
  NeverAborts
  AnsweredOnce
  AnsweredByMatchingRun
  NoRequestLost
  FollowUpOfAnsweredRun
