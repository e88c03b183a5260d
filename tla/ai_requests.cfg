\* Two requests that share a user, a replica, a call or the model, one fault.
SPECIFICATION FairSpec
CONSTANTS
  r1 = r1  r2 = r2  u1 = u1  u2 = u2  A = A  B = B
  Requests = {r1, r2}
  Users = {u1, u2}
  Replicas = {A, B}
  Mixes <- Pairs
  Threshold = 1
  MaxSlots <- Tiers
  GlobalLimit = 1
  MaxDepth = 1
  MaxRetries = 1
  MaxTurns = 2
  MaxFaults = 1
INVARIANTS OneRequestPerUser LimitsHold CounterHasLease
PROPERTY RequestsEnd
CHECK_DEADLOCK FALSE
