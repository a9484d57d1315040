\* One client, every size of message and of partial write
CONSTANTS
    Peer = {p1}
    Fd <- MCFds1
    Client <- MCFds1
    Timeout <- MCTimeouts
    Deadline <- MCDeadlines
    TimeMax <- MCTimeMax
    BufferSize = 4
    ChunkSize = 2
    ClientTimeout = 2
    MaxEvents = 4
    SocketCap = 3
    MaxSend = 11
    MaxTime = 0
    LastActivity = 0
    MaxLag = 0
    PeerMoves <- MCAllMoves
    Polite = {}
    SignalSent = FALSE
SPECIFICATION Spec
\* the server may wait for ever, or have ended
CHECK_DEADLOCK FALSE
INVARIANTS
    BufferFits
PROPERTIES
    ImplementsEchoService
