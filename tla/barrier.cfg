SPECIFICATION FairSpec
CONSTANTS
    Host = {1, 2, 3}
    UninitLens <- NoWorker
    MaxLostHi = 1
    MaxLostAck = 1
CHECK_DEADLOCK FALSE
INVARIANTS
    TypeOK
    ReadyAfterAll
    CountsEachPeerOnce
    NoneLeftBehind
PROPERTIES
    ReadyUnlessAbandoned
    ImplementsBarrier
