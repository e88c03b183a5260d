\* Two replicas and a transfer, before or after the first start; two faults anywhere.
SPECIFICATION FairSpec
CONSTANTS
  l1 = l1  l2 = l2  t1 = t1  A = A  B = B
  NoProcess = NoProcess
  Listeners = {l1, l2}
  ProcessOf <- Apart
  Transfers = {t1}
  MaxFaults = 2
  FirstBlock = 2
  MaxBlock = 3
  MaxSlots = 2
  Chunk = 2
  Lookback = 2
  Rewind = 2
  Required = 1
INVARIANTS AddedOnce SeenIsQueued ReplayIsThorough AnchorIsQueued
PROPERTY IngestionSettles
CHECK_DEADLOCK FALSE
