\* Two jobs, a manual confirmation and a refund on two intents of one address, one fault.
SPECIFICATION Spec
CONSTANTS
  p1 = p1  p2 = p2  h1 = h1  h2 = h2  h3 = h3  j1 = j1  j2 = j2
  Payments = {p1, p2}
  Hashes = {h1}
  Jobs = {j1, j2}
  Requests = {r1}
  Refunds = {f1}
  Reconcilers = {}
  Sweepers = {}
  NoPayment = NoPayment
  NoTx = NoTx
  MaxFaults = 1
  Wallet <- OneWallet
  Amount <- AmountOf5
  Transfers <- FullAndShort
  TransferOf <- JobsFullAndShort
SYMMETRY AnyOrder
INVARIANTS
  SettledIsFunded TrailExplainsRow SettledHasLedger AnnouncedIsSettled
  SettledOnceUnlessRaced TransfersCountOnce
PROPERTIES ImplementsLifecycle LegalUnlessRaced
CHECK_DEADLOCK FALSE
