SPECIFICATION Spec
CONSTANTS
  Req = {r1}
  Ops = {"authenticate", "process", "reconcile", "retry", "get"}
  FaultSets = {{}, {"crash", "error", "slow"}}
  MaxAttempts = 3
  BaseDelay = 4
  MaxDelay = 16
  MaxAudit = 12
INVARIANTS
  OtpConsumedOnce
  CacheCoherentBetweenCalls
PROPERTIES
  ImplementsLifecycle
  FrozenForGood
