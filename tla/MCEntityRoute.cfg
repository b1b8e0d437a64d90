CONSTANTS
    MaxMsgs = 3
    MaxCalls = 1
    Settings <- Routes
SPECIFICATION FairSpec
INVARIANTS NoOrphanIncarnation PassivationLosesNothing
PROPERTIES HandledInOrder NoSpawnAfterTransfer TransferStopsEntity AcceptedIsResolved IdleEntityStops
CHECK_DEADLOCK FALSE
