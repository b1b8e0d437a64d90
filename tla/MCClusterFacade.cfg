CONSTANTS
    Nodes = {1, 2, 3}
    Local = 2
    Incompatible = {3}
    MinContactPoints = 2
    FailureTimeout = 1
    DownAfter = 1
    Threads = {t1, t2}
    Seeds <- SeedList
    CounterAge = 2
    Capacity = 2
    MaxUpdates = 3
SYMMETRY CallerSymmetry
SPECIFICATION Spec
INVARIANT SubscriberCatchesUp
CHECK_DEADLOCK FALSE
