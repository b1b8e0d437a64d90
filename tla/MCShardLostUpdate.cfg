CONSTANTS
    Nodes = {1, 2}
    OwnerMaps <- Maps
    NoOwners <- EmptyMap
    Reconcile <- Modulo
    Views <- SmallViews
    Leasing = {"kept"}
    FencedStore = TRUE
    Faults = {}
    MaxRegions = 1
    MaxRevision = 3
    MaxFence = 3
SPECIFICATION CoordinationSpec
PROPERTY NoLostUpdate
CHECK_DEADLOCK FALSE
