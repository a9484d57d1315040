\* A client that only writes
CONSTANTS
    Peer = {p1}
    Fd <- MCFds1
    Client <- MCFds1
    Timeout <- MCTimeouts
    Deadline <- MCDeadlines
    TimeMax <- MCTimeMax
    BufferSize = 3
    ChunkSize = 1
    ClientTimeout = 2
    MaxEvents = 6
    SocketCap = 2
    MaxSend = 3
    MaxTime = 0
    LastActivity = 0
    MaxLag = 0
    PeerMoves <- MCNoMoves
    Polite = {}
    SignalSent = FALSE
SPECIFICATION Spec
\* the server may wait for ever, or have ended
CHECK_DEADLOCK FALSE
INVARIANTS
    OnlySignalStops
