SPECIFICATION FairSpec
CONSTANTS
  Runners = {r1, r2, r3}
  FileCount = 2
  Repeatable = {2}
  MaxRuns = 4
  MaxFaults = 2
INVARIANTS
  TypeOK
  LedgerIsSchema
  LedgerIsPrefix
PROPERTIES
  RunsEnd
