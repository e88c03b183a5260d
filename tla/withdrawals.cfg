\* Two jobs and an HTTP call under one key, both providers, two faults.
SPECIFICATION FairSpec
CONSTANTS
  k1 = k1
  NoKey = NoKey
  Keys = {k1}
  Amount <- OneAmount
  j1 = j1  j2 = j2  c1 = c1  s1 = s1
  Jobs = {j1, j2}
  Calls = {c1}
  Syncs = {s1}
  Providers = {"fireblocks", "local"}
  MaxAttempts = 2
  MaxStalls = 1
  Concurrency = 2
  Funds = 1
  MaxFunds = 2
  MaxFaults = 2
INVARIANTS PaidOnce MarkedIsAnswered FailuresAreReported
PROPERTY JobsEnd
CHECK_DEADLOCK FALSE
