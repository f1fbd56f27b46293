SPECIFICATION ServerSpec
CONSTANTS
  r1 = r1
  r2 = r2
  o1 = o1
  Requests = {r1, r2}
  Options = {o1}
  MaxGeneration = 1
  NoKey = NoKey
  NoOutcome = NoOutcome
SYMMETRY Symmetry
INVARIANTS
  NextRefreshCanReport
