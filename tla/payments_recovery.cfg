\* Reconciliation and the expiry cron against one job; the cron closes overdue intents.
SPECIFICATION FairSpec
CONSTANTS
  p1 = p1  p2 = p2  h1 = h1  h2 = h2  h3 = h3  j1 = j1  j2 = j2
  Payments = {p1}
  Hashes = {h1, h2}
  Jobs = {j1}
  Requests = {}
  Refunds = {}
  Reconcilers = {k1}
  Sweepers = {s1}
  NoPayment = NoPayment
  NoTx = NoTx
  MaxFaults = 1
  Wallet <- OneWallet
  Amount <- AmountOf5
  Transfers <- FullThenShort
  TransferOf <- JobsFullThenShort
INVARIANT SettledIsFunded
PROPERTY OverdueIsClosed
CHECK_DEADLOCK FALSE
