\* Two clients in one second
CONSTANTS
    Peer = {p1, p2}
    Fd <- MCFds2
    Client <- MCFds2
    Timeout <- MCTimeouts
    Deadline <- MCDeadlines
    TimeMax <- MCTimeMax
    BufferSize = 3
    ChunkSize = 1
    ClientTimeout = 2
    MaxEvents = 6
    SocketCap = 2
    MaxSend = 0
    MaxTime = 0
    LastActivity = 0
    MaxLag = 0
    PeerMoves <- MCNoMoves
    Polite = {}
    SignalSent = FALSE
SPECIFICATION Spec
\* the server may wait for ever, or have ended
CHECK_DEADLOCK FALSE
PROPERTIES
    DeadlinePrecondition
