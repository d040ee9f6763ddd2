SPECIFICATION FairSpec
CONSTANTS
  Runs = {r1}
  Deductions = {}
  Gifts = {}
  Orders = {o1}
  Callbacks = {c1, c2}
  Queries = {q1}
  BonusSize = 1
  GiftSize = 1
  PackSize = 1
  NoSource = NoSource
INVARIANTS PaidMeansGranted
PROPERTIES PaidStaysPaid EveryPaymentLands
CHECK_DEADLOCK FALSE
