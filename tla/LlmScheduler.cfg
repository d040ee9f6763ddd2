SPECIFICATION FairSpec
CONSTANTS
  a = a
  b = b
  c = c
  d = d
  Calls = {a, b, c, d}
  Keys <- MCKeys
  Key <- MCKey
  Limit <- MCLimit
INVARIANTS LimitsRespected NoIdleCapacity PositionsTrue CancelledRejected
PROPERTIES ImplementsSlots InTurn EveryCallSettles
CHECK_DEADLOCK FALSE
