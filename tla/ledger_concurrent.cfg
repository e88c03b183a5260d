\* Two settlements on one book while its accounts are still being provisioned,
\* rolled back anywhere and tried again.
SPECIFICATION FairSpec
CONSTANTS
  p1 = p1  p2 = p2  c1 = c1  c2 = c2  b1 = b1  b2 = b2
  Payments = {p1, p2}
  Books = {b1}
  BookOf <- OneBook
  Amount <- Amounts
  Calls = {c1, c2}
  PayOf <- Apart
  PoolSize = 3
  MaxTries = 2
  NoCall = NoCall
INVARIANTS BalancesAreSums AllOrNothing
PROPERTIES ImplementsBook EverySettlementEnds
\* Every settlement may have ended.
CHECK_DEADLOCK FALSE
