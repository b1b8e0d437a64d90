CONSTANTS
    Attempts = 1
    TaskBudget = 3
    RunRequest = 1
    MaxAssignments = 2
    MaxRejections = 2
    ChildCapacity = 2
    Forgettable = {"Assignment", "RunCancel", "Proposal", "TopUp", "Settlement", "Return"}
    MaxForgets = 1
    Promotions = TRUE
SPECIFICATION FairSpec
INVARIANTS OutcomesAgree CancelledIsQuiescent EscrowConserved BooksAgree
PROPERTIES EscrowReturns CancellationConverges
CHECK_DEADLOCK FALSE
