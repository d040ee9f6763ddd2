SPECIFICATION FairSpec
CONSTANTS
  r1 = r1
  r2 = r2
  c1 = c1
  c2 = c2
  d1 = d1
  Requests = {c1, d1}
  Kind <- MCKind
  Restarts = 1
  Failures = 1
INVARIANTS RowAgreesAtRest OutcomeIsTrue
PROPERTIES KeepsRow DeletedForGood EveryRowEnds
CHECK_DEADLOCK FALSE
