SPECIFICATION FairSpec
CONSTANTS
    Host = {1, 2}
    UninitLens <- FirstWorker
    MaxLostHi = 0
    MaxLostAck = 0
CHECK_DEADLOCK FALSE
PROPERTIES
    EventuallyReady
