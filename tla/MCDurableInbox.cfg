CONSTANTS
    Workers = {"a", "b"}
    Commands = {11, 12}
    Effects = {1, 2}
    KeyOf <- Keys
    NoKey = "none"
    MaxAttempts = 2
    Settings <- Deployments
SPECIFICATION FairSpec
INVARIANTS AcceptedIsDurable OneEntryPerKey OutboxIsTruthful MarkedBeforeSent
PROPERTIES FinishedStays EffectsSettle
CHECK_DEADLOCK FALSE
