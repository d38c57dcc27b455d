CONSTANTS
  c = c m = m n = n
  Addresses = {c, m, n}
  ContactNode = c
  GossipInterval = 3
  Timeout = 8
  Fanout = 3
  MaxStarts = 2
  Deployments <- MCDeployments
SPECIFICATION FairSpec
CHECK_DEADLOCK FALSE
PROPERTIES
  Converges RequestEnds
