CONSTANTS
    Nodes = {1, 2}
    OwnerMaps <- Maps
    NoOwners <- EmptyMap
    Reconcile <- Modulo
    Views <- SmallViews
    Leasing = {"none", "kept"}
    FencedStore = TRUE
    Faults = {"lost", "refused"}
    MaxRegions = 2
    MaxRevision = 2
    MaxFence = 2
SPECIFICATION CoordinationSpec
INVARIANTS RevisionsAgree PublishedWasDurable HolderNotFencedOut
PROPERTY FencedTakeover
CHECK_DEADLOCK FALSE
