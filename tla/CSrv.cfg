CONSTANTS
    Session <- MCSession
    MaxSessions = 2
    Timeout = 1
    Fd <- MCFd
    MaxChunks = 2
    MaxLines = 2
    LineCap = 4
    RecvMax = 3
    Options <- MCOptions

SPECIFICATION FairSpec
INVARIANTS SessionsAreCounted NoSocketLeaks NoRequestLost ReadyMeansConnected
PROPERTIES TunnelsKept TunnelEnds
CHECK_DEADLOCK FALSE
