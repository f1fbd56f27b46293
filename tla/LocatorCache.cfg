SPECIFICATION FairSpec
CONSTANTS
  Calls = {t1, t2, t3}
  Keys = {k1}
  External = External
  Absent = Absent
  Panicked = Panicked
  NoCall = NoCall
INVARIANTS
  EntriesHaveOwners
  NoRedundantComputation
PROPERTIES
  ImplementsSingleFlight
  EveryCallReturns
