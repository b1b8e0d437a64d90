CONSTANTS
    Workers = {"a", "b"}
    NoWorker = "nobody"
    MaxAttempts = 2
    MaxFaults = 2
    OverrunCost = 2
SPECIFICATION Spec
INVARIANT RefusalIsTrue
CHECK_DEADLOCK FALSE
