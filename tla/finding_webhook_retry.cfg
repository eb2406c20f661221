SPECIFICATION FairSpec
CONSTANTS
  Events = {e1}
  Hooks = {h1}
  Workers = {w1}
  Jobs = {j1}
  RetryLimits = {5}
  BatchLimit = 50
  PlaceholderAnswers = {"error"}
  MaxFaults = 0
PROPERTIES
  FailedIsRetried
