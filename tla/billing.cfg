\* A subscription at each provider, an order, two intents; two calls, one fault.
SPECIFICATION FairSpec
CONSTANTS
  x1 = x1  x2 = x2  c1 = c1  c2 = c2  pro = pro  ultimate = ultimate
  None = None
  Sources = {x1, x2}
  Mixes <- Pairs
  Plans = {pro, ultimate}
  PlanOf <- ProFirst
  Calls = {c1, c2}
  MaxEvents <- Webhooks
  MaxFaults = 1
INVARIANTS RowAgrees IntentsAreSpentOnce
PROPERTY EndedIsDropped
\* Everything bought may have ended.
CHECK_DEADLOCK FALSE
