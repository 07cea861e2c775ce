SPECIFICATION FairSpec
CONSTANTS
    Host = {1, 2}
    UninitLens <- NoWorker
    MaxLostHi = 0
    MaxLostAck = 1
CHECK_DEADLOCK FALSE
PROPERTIES
    EventuallyReady
