SPECIFICATION FairSpec
CONSTANTS
    Host = {1, 2}
    NumMsgToSend <- TwoSenders
    WATCHDOG_RESEND_CAP = 1
    RECV_CAP = 5
    Capped = TRUE
    MaxDrops = 1
CHECK_DEADLOCK FALSE
INVARIANTS
    TypeOK
    ExactlyOnce
    WatchdogsStopWhenDone
    IndInv
    UndeliveredIsPursued
    PacketsSurviveTheWire
PROPERTIES
    
    EventualDelivery
