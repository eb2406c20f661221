SPECIFICATION FairSpec
CONSTANTS
  Req = {r1, r2}
  Ops = {"authenticate", "process", "reconcile", "retry", "get"}
  FaultSets = {{"slow"}, {"crash", "error"}}
  MaxAttempts = 1
  BaseDelay = 4
  MaxDelay = 16
  MaxAudit = 4
INVARIANTS
  TypeOK
  AuditReplaysRow
  NothingInvented
  AuditEntriesLegal
  RetriesTraced
  EventsAccounted
  OneProcessor
  ChargesAccounted
PROPERTIES
  FrozenForGood
  LockReleased
  ProcessingSettles
