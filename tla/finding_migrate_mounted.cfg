SPECIFICATION Spec
CONSTANTS
  Runners = {r1}
  FileCount = 1
  Repeatable = {}
  MaxRuns = 1
  MaxFaults = 0
INVARIANTS
  MigrateSucceeds
