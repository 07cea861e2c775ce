SPECIFICATION Spec
CONSTANTS
    Me = 2
    hostNames <- TwoHosts
    NumMsgToSend = 1
    Foreign <- FromOne
    PeerProposal <- PeerAhead
    WATCHDOG_RESEND_CAP = 1
    RECV_CAP = 3
CHECK_DEADLOCK FALSE
INVARIANTS
    TypeOK
    NoCircularWait
    NoDataRace
    NoExit
    AnsweredIsHeld
    FinalIsApplied
PROPERTIES
    OvertakenOnlyByRace
