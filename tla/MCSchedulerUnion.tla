-------------------------- MODULE MCSchedulerUnion --------------------------
EXTENDS SchedulerUnion, TLC
CONSTANTS o1, o2, o3, caller

MCPriority == o1 :> 1 @@ o2 :> 1 @@ o3 :> 0
MCCore == o1 :> 0 @@ o2 :> 3 @@ o3 :> 1
\* Each pool alone, the mix of the scheduler tests, and an index that is out of range.
MCConfigurations ==
  {[o \in Operations |-> p] : p \in Pools}
    \cup {o1 :> 0 @@ o2 :> 2 @@ o3 :> 0, o1 :> 4 @@ o2 :> 3 @@ o3 :> 0}
=============================================================================
