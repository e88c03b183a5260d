\* A reconciliation adds up three parts for two intents.
SPECIFICATION Spec
CONSTANTS
  p1 = p1  p2 = p2  h1 = h1  h2 = h2  h3 = h3  j1 = j1  j2 = j2
  Payments = {p1, p2}
  Hashes = {h1, h2, h3}
  Jobs = {}
  Requests = {}
  Refunds = {}
  Reconcilers = {k1}
  Sweepers = {}
  NoPayment = NoPayment
  NoTx = NoTx
  MaxFaults = 0
  Wallet <- OneWallet
  Amount <- AmountOf5
  Transfers <- Parts
  TransferOf <- NoJobs
INVARIANT NothingCountsTwice
CHECK_DEADLOCK FALSE
