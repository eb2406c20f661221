SPECIFICATION FairSpec
CONSTANTS
  w1 = w1
  w2 = w2
  w3 = w3
  Writers = {w1, w2, w3}
  Readers = {q1}
  Writes <- MCWrites
  Sessions = {k1, k2, k3}
  NoSession = none
  PoolMax = 2
  MaxAttempts = 1
  MaxFaults = 1
  MaxSignals = 2
CHECK_DEADLOCK FALSE
INVARIANTS
  TypeOK
  PoolClean
  OutcomeKnown
PROPERTIES
  ImplementsStore
  CallsEnd
  ShutdownEnds
