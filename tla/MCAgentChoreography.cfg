CONSTANTS
    Entities = {"A", "B"}
    Hosts = {"a1", "b1"}
    EntityOf <- HostsOf
    Ops = {"register", "ask", "tell"}
    From <- Initiators
    To <- Targets
    Roots = {"register", "ask"}
    Verdicts <- Answers
    OwesOnApply <- AppliedOwes
    OwesOnSettle <- SettledOwes
    Registrations = {"register"}
    EndsOnApply = {"tell"}
    EndsOnSettle = {"tell"}
    LogCapacities = {1, 2}
    PendingCapacity = 2
    MaxFaults = 1
SPECIFICATION FairSpec
INVARIANTS OneTransition OneResult NothingForgotten OwedUntilSettled
PROPERTIES SagaSpec OwedSettles
CHECK_DEADLOCK FALSE
