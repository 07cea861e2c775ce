SPECIFICATION Spec
CONSTANTS
    Host = {1, 2}
    Count <- OneEach
    Initiator = 1
    SnapshotAfter = 1
    Reached = {1, 2}
INVARIANT TypeOK
INVARIANT InitiatorStateComplete
 
INVARIANT SnapshotInv
CHECK_DEADLOCK FALSE
