SPECIFICATION Spec
CONSTANTS
  Runs = {r1, r2}
  PlanLength = 2
  a = a
  b = b
  Ids <- MCIds
  ResultLists <- MCUnscoredList
  NoId = NoId
  None = None
INVARIANT PersistedIfAvailable
