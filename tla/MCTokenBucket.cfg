SPECIFICATION Spec
CONSTANTS
  Tasks <- MCTasks
  RequestsPerMinute = 2
  Minute = 3
  MaxLate = 1
  Horizon = 4
INVARIANTS
  TypeOK
  RateBounded
  NoOversleep
PROPERTY WaitersServed
