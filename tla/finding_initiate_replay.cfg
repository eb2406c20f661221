SPECIFICATION Spec
CONSTANTS
  Req = {r1, r2}
  Faults = {}
INVARIANTS
  IdenticalResponses
