CONSTANTS
  s1 = s1 s2 = s2 w1 = w1 w2 = w2 d1 = d1
  Senders = {s1, s2}
  Workers = {w1, w2}
  Destroyers = {}
  MailboxCount = 2
  Capacity <- TwoUnbounded
  Allowed <- OnlySecond
  MaxPerActivation = 2
  CounterMod = 8
  MaxSends = 1
  PushRacesDestroy = TRUE
SPECIFICATION Spec
CHECK_DEADLOCK FALSE
INVARIANTS
  NoStrandedMessage
