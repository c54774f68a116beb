CONSTANTS
  b1 = b1
  b2 = b2
  f1 = f1
  f2 = f2
  r1 = r1
  r2 = r2
  Bootstraps = {b1, b2}
  MaxStops = 1
  Rows = {r1, r2}
  Backfills = {f1, f2}
  Lists <- MCLists
  Reports <- MCReports
  MaxFaults = 1
SPECIFICATION Spec
INVARIANTS TypeOK MigrationsWhole BackfillStands ReadyIsEarned
