CONSTANTS
  p1 = p1 p2 = p2 q1 = q1 x1 = x1
  Peers = {p1, p2}
  ContactPeers = {p1}
  Timeout = 2
  TimeMod = 16
  Fanout = 1
  Cooldown = 1
  Incoming = {q1}
  From <- FromFirst
  NestedCalls = TRUE
  Waiters = {x1}
  Required <- NeedsFirst
  WaitTime = 1
  MaxBacklog = 1
  Scenarios <- MCScenarios
  MaxRequests = 2
SPECIFICATION FairSpec
CHECK_DEADLOCK FALSE
INVARIANTS
  SocketsMatchStates OutstandingIsWatched
  HandledIsReplied
PROPERTIES
  DropsOnlySilentPeers OutcomeIsFinal UnmetAgreesWithState
  SilentPeerFailsRequests WaitReturns StopReturnsUnlessNested
