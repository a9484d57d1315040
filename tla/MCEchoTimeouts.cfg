\* Two clients that may fall silent, at most one second that passes while the server
\* works, a signal at any time
CONSTANTS
    Peer = {p1, p2}
    Fd <- MCFds2
    Client <- MCFds2
    Timeout <- MCTimeouts
    Deadline <- MCDeadlines
    TimeMax <- MCTimeMax
    BufferSize = 3
    ChunkSize = 1
    ClientTimeout = 2
    MaxEvents = 6
    SocketCap = 2
    MaxSend = 1
    MaxTime = 4
    LastActivity = 2
    MaxLag = 1
    PeerMoves <- MCShutdown
    Polite = {}
    SignalSent = TRUE
SPECIFICATION FairSpec
\* the server may wait for ever, or have ended
CHECK_DEADLOCK FALSE
INVARIANTS
    TypeOK
    SourceOfTruth
    DeadlinesInOrder
    NoneOverdue
    CleanStop
PROPERTIES
    NoEarlyExpiry
    ExpiryComplete
    LazyDroppedIfPrompt
