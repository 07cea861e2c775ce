SPECIFICATION Spec
CONSTANTS
    Me = 3
    hostNames <- ThreeHosts
    NumMsgToSend = 1
    Foreign <- FromOne
    PeerProposal <- CrossedProposals
    WATCHDOG_RESEND_CAP = 0
    RECV_CAP = 3
CHECK_DEADLOCK FALSE
PROPERTIES
    NeverOvertaken
