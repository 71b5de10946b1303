SPECIFICATION Spec
CONSTANTS
    w1 = w1
    w2 = w2
    w3 = w3
    w4 = w4
    s1 = s1
    s2 = s2
    h1 = h1
    h2 = h2
    NoSocket = NoSocket
    NoHandle = NoHandle
    Sockets <- FourSockets
    SessionIds <- TwoSessions
    Handles <- NoHandles
    SESSION_TTL = 3
    RECONNECT_GRACE = 2
    JOIN_RETRY = 1
    MAX_RELAY_SESSIONS = 1
    MAX_RELAY_CONNECTIONS = 3
    PREMIUM_MAX_CONCURRENT_CHATS = 1
    MaxTime = 5
    MaxJoinRetries = 2
SYMMETRY Symmetric
VIEW Stored
INVARIANTS TypeOK TwoSeats EmptyIffDoomed WithinCaps
PROPERTIES FullIsHonest ServedInTime ImplementsLifecycle
CHECK_DEADLOCK FALSE
