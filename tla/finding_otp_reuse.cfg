SPECIFICATION Spec
CONSTANTS
  Req = {r1, r2}
  Ops = {"authenticate", "process", "reconcile", "retry"}
  FaultSets = {{}}
  MaxAttempts = 1
  BaseDelay = 4
  MaxDelay = 16
  MaxAudit = 5
INVARIANTS
  OtpConsumedOnce
