\* Two clients for one descriptor, all the ways the server may end
CONSTANTS
    Peer = {p1, p2}
    Fd <- MCFds1
    Client <- MCFds1
    Timeout <- MCTimeouts
    Deadline <- MCDeadlines
    TimeMax <- MCTimeMax
    BufferSize = 4
    ChunkSize = 2
    ClientTimeout = 2
    MaxEvents = 4
    SocketCap = 2
    MaxSend = 2
    MaxTime = 0
    LastActivity = 0
    MaxLag = 0
    PeerMoves <- MCAllMoves
    Polite = {p1}
    SignalSent = TRUE
SPECIFICATION FairSpec
\* the server may wait for ever, or have ended
CHECK_DEADLOCK FALSE
INVARIANTS
    EventsFit
    EventsFresh
PROPERTIES
    SignalStops
    EchoCompletes
