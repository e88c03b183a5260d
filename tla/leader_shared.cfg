\* Both listener services of a process use its one instanceId.
SPECIFICATION ElectionFairSpec
CONSTANTS
  event1 = event1  payment1 = payment1  event2 = event2  payment2 = payment2
  A = A  B = B
  NoProcess = NoProcess
  Listeners = {event1, payment1, event2, payment2}
  ProcessOf <- OneIdentityEach
  MaxFaults = 2
PROPERTY OneLeaderInTheEnd
CHECK_DEADLOCK FALSE
