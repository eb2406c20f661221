SPECIFICATION CheckoutFairSpec
CONSTANTS
  Req = {t1, t2}
  Slots = {r1, r2}
  Faults = {"crash", "error", "ttl"}
  MaxAttempts = 1
  BaseDelay = 2
  MaxDelay = 4
  Patience = {TRUE, FALSE}
  MaxFailures = 1
  MaxAudit = 20
INVARIANTS
  CheckoutTypeOK
  OneTransactionPerKey
  OtpHandedOutOnce
  CacheHoldsNoOtp
  ChargedOnce
  HeldCodeVerifies
PROPERTIES
  ImplementsService
  CheckoutEnds
