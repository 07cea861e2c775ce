SPECIFICATION FairSpec
CONSTANTS
    Host = {1, 2, 3}
    Count <- InitiatorTwice
    Initiator = 1
    SnapshotAfter = 1
    Reached = {2}
CHECK_DEADLOCK FALSE
INVARIANTS
    FinishedHeardAll
    SnapshotGoesOn
PROPERTIES
    StateRecordedOnce
    EventuallyFinished
