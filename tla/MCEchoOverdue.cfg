\* One second passes while the server is at work
CONSTANTS
    Peer = {p1, p2}
    Fd <- MCFds2
    Client <- MCFds2
    Timeout <- MCTimeouts
    Deadline <- MCDeadlines
    TimeMax <- MCTimeMax
    BufferSize = 3
    ChunkSize = 1
    ClientTimeout = 2
    MaxEvents = 6
    SocketCap = 2
    MaxSend = 1
    MaxTime = 5
    LastActivity = 3
    MaxLag = 1
    PeerMoves <- MCNoMoves
    Polite = {}
    SignalSent = FALSE
SPECIFICATION FairSpec
\* the server may wait for ever, or have ended
CHECK_DEADLOCK FALSE
PROPERTIES
    LazyDropped
