CONSTANTS
    Nodes = {1, 2, 3}
    Local = 2
    Incompatible = {}
    MinContactPoints = 2
    FailureTimeout = 1
    DownAfter = 1
    Mortal = {1}
    MaxLag = 0
    MaxRevision = 3
SPECIFICATION FairSpec
PROPERTIES RevisionsTrackChanges NoResurrection SilentLeavesMembership
CHECK_DEADLOCK FALSE
