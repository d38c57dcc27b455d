CONSTANTS
  gossip = gossip heartbeat = heartbeat
  Tasks = {gossip, heartbeat}
  Interval <- BrokerIntervals
  MaxMessages = 2
SPECIFICATION FairSpec
CHECK_DEADLOCK FALSE
INVARIANTS
  NothingAfterStop
PROPERTIES
  ThreadsDeliver StopReturns
