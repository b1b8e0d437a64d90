CONSTANTS
    Workers = {"a", "b"}
    NoWorker = "nobody"
    MaxAttempts = 2
    MaxFaults = 2
    OverrunCost = 2
SPECIFICATION FairSpec
INVARIANTS ExecutedAtMostOnce WordIsTrue
PROPERTIES ResolvedStaysPut OutcomeArrives
CHECK_DEADLOCK FALSE
