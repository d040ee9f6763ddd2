SPECIFICATION Spec
CONSTANTS
  Runs = {r1, r2, r3}
  Deductions = {d1}
  Gifts = {g1}
  Orders = {}
  Callbacks = {}
  Queries = {}
  BonusSize = 2
  GiftSize = 1
  PackSize = 1
  NoSource = NoSource
INVARIANTS BalanceIsSpendable
PROPERTIES FreshReadsSpendWithinSource
CHECK_DEADLOCK FALSE
