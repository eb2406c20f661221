SPECIFICATION FairSpec
CONSTANTS
  Events = {e1}
  Hooks = {h1, h2}
  Workers = {w1, w2}
  Jobs = {j1}
  RetryLimits = {0, 5}
  BatchLimit = 1
  PlaceholderAnswers = {"other", "error"}
  MaxFaults = 1
INVARIANTS
  TypeOK
  NoSecondAttempt
  ReceivedAtMostOnce
  SuccessWasReceived
PROPERTIES
  PendingSettles
