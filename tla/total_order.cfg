SPECIFICATION Spec
CONSTANTS
    Host = {1, 2}
    NumMsgToSend <- OneSender
    WATCHDOG_RESEND_CAP = 1
    RECV_CAP = 2
    Capped = FALSE
    MaxDrops = 0
CHECK_DEADLOCK FALSE
INVARIANTS
    TotalOrder
