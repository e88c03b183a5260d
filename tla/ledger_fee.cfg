\* One settlement with a fee.
SPECIFICATION Spec
CONSTANTS
  p1 = p1  p2 = p2  c1 = c1  c2 = c2  b1 = b1  b2 = b2
  Payments = {p1}
  Books = {b1}
  BookOf <- OneBook
  Amount <- Amounts
  Calls = {c1}
  PayOf <- Apart
  PoolSize = 3
  MaxTries = 1
  NoCall = NoCall
INVARIANT TrialBalance
\* The settlement may have ended.
CHECK_DEADLOCK FALSE
