SPECIFICATION Spec
CONSTANTS
    Host = {1, 2}
    Count <- InitiatorTwice
    Initiator = 1
    SnapshotAfter = 1
    Reached = {1, 2}
INVARIANT ConsistentCut
CHECK_DEADLOCK FALSE
