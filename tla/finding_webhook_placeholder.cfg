SPECIFICATION Spec
CONSTANTS
  Events = {e1}
  Hooks = {h1}
  Workers = {w1}
  Jobs = {j1}
  RetryLimits = {5}
  BatchLimit = 50
  PlaceholderAnswers = {"2xx", "other", "error"}
  MaxFaults = 1
INVARIANTS
  RetryIsDelivery
