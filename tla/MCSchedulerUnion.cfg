CONSTANTS
  o1 = o1 o2 = o2 o3 = o3 caller = caller
  Operations = {o1, o2, o3}
  Configurations <- MCConfigurations
  Priority <- MCPriority
  Core <- MCCore
  Callers = {caller}
  ShareThreads = 2 WeakThreads = 2 PriorityThreads = 2 CoreThreads = 2
  ConfigSubQueues = 0 kMaxPriorityLevels = 2
SPECIFICATION FairSpec
CHECK_DEADLOCK FALSE
INVARIANTS
  EachOwedOnce TokensAccounted
PROPERTIES
  StartedIsExecuted DestructorReturns
