SPECIFICATION Spec
CONSTANTS
  Runs = {r1, r2}
  PlanLength = 2
  a = a
  b = b
  Ids <- MCIds
  ResultLists <- MCResultLists
  NoId = NoId
  None = None
INVARIANTS
  TypeOK
  CompletedRunIsWhole
  StagesVisible
  FiledUnderOwnAnswer
  ReportAgrees
  RejectedForCause
PROPERTY RecordSettles
