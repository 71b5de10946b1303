SPECIFICATION ViewSpec
CONSTANTS
    w1 = w1
    w2 = w2
    w3 = w3
    w4 = w4
    s1 = s1
    s2 = s2
    h1 = h1
    h2 = h2
    NoSocket = NoSocket
    NoHandle = NoHandle
    Sockets <- ThreeSockets
    SessionIds <- TwoSessions
    Handles <- TwoHandles
    SESSION_TTL = 2
    RECONNECT_GRACE = 1
    JOIN_RETRY = 1
    MAX_RELAY_SESSIONS = 2
    MAX_RELAY_CONNECTIONS = 3
    PREMIUM_MAX_CONCURRENT_CHATS = 1
    MaxTime = 3
    MaxJoinRetries = 1
SYMMETRY Symmetric
VIEW Observed
INVARIANTS OneSeat HandleTablesAgree InboundAreLive OwnersConnected ToldTheTruth
PROPERTIES ClaimsAreNotStolen
CHECK_DEADLOCK FALSE
