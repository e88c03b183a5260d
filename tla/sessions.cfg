\* Two tabs, three requests in five mixes, one failure.
SPECIFICATION FairSpec
CONSTANTS
  t1 = t1  t2 = t2  r1 = r1  r2 = r2  r3 = r3
  Tabs = {t1, t2}
  Requests = {r1, r2, r3}
  TabOf <- TwoAndOne
  Mixes <- FewMixes
  MaxSecond = 3
  MaxFaults = 1
INVARIANTS SessionsDontFork NoFalseAlarm SignedOut ResetEndsSessions
PROPERTIES RequestsAreAnswered
\* Every request may have ended.
CHECK_DEADLOCK FALSE
