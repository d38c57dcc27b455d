CONSTANTS
  s1 = s1 s2 = s2 w1 = w1 w2 = w2 d1 = d1
  Senders = {s1, s2}
  Workers = {w1, w2}
  Destroyers = {d1}
  MailboxCount = 2
  Capacity <- TwoUnbounded
  Allowed <- Both
  MaxPerActivation = 1
  CounterMod = 8
  MaxSends = 1
  PushRacesDestroy = FALSE
SPECIFICATION FairSpec
CHECK_DEADLOCK FALSE
INVARIANTS
  DestroyedWhenJoined
PROPERTIES
  EventuallyExecuted DestroyReturns
