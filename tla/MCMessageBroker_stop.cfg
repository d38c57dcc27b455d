CONSTANTS
  p1 = p1 p2 = p2 q1 = q1 x1 = x1
  Peers = {p1}
  ContactPeers = {}
  Timeout = 2
  TimeMod = 16
  Fanout = 1
  Cooldown = 1
  Incoming = {q1}
  From <- FromFirst
  NestedCalls = TRUE
  Waiters = {}
  Required <- NeedsFirst
  WaitTime = 1
  MaxBacklog = 1
  Scenarios <- StopScenarios
  MaxRequests = 1
SPECIFICATION FairSpec
CHECK_DEADLOCK FALSE
PROPERTIES
  StopReturns
