CONSTANTS
    Hosts = {1, 2, 3}
    NumShards = 5
    Threshold = 1
    MaxMoves = 1
    MaxChanges = 2
SPECIFICATION RebalanceSpec
INVARIANT NoOrphans
PROPERTIES BoundedMoves PassesConverge
