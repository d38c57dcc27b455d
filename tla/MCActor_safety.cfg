CONSTANTS
  s1 = s1 s2 = s2 w1 = w1 w2 = w2 d1 = d1
  Senders = {s1, s2}
  Workers = {w1, w2}
  Destroyers = {d1}
  MailboxCount = 1
  Capacity <- OneBounded
  Allowed <- OnlyFirst
  MaxPerActivation = 2
  CounterMod = 8
  MaxSends = 2
  PushRacesDestroy = TRUE
SYMMETRY Threads
SPECIFICATION Spec
CHECK_DEADLOCK FALSE
INVARIANTS
  SingleExecutor HandlerSeesLiveInstance SenderOrder
  PendingExact NoStrandedMessage NothingRunsAfterJoin SlotExclusive
