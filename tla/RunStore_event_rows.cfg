SPECIFICATION Spec
CONSTANTS
  r1 = r1
  r2 = r2
  c1 = c1
  c2 = c2
  d1 = d1
  Requests = {}
  Kind <- MCKind
  Restarts = 0
  Failures = 0
INVARIANTS EveryEventHasItsRow
CHECK_DEADLOCK FALSE
