CONSTANTS
    Attempts = 1
    TaskBudget = 2
    RunRequest = 1
    MaxAssignments = 2
    MaxRejections = 2
    ChildCapacity = 2
    Forgettable = {}
    MaxForgets = 0
    Promotions = FALSE
SPECIFICATION FairSpec
PROPERTY CancellationTerminates
CHECK_DEADLOCK FALSE
