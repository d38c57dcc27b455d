CONSTANTS
  a1 = a1 a2 = a2 r1 = r1 x1 = x1 x2 = x2
  Acquirers = {a1, a2}
  Releasers = {r1}
  Waiters = {x1, x2}
  Initial = 2
  Amounts = {1, 2}
  MaxCalls = 2
SPECIFICATION FairSpec
CHECK_DEADLOCK FALSE
INVARIANTS NoLostWaiter CompletedOnce
PROPERTIES DrainedCompletes
