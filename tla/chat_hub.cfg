SPECIFICATION FairSpec
CONSTANTS
    a = a
    b = b
    t1 = t1
    t2 = t2
    None = None
    Chats <- MCChats
    Tasks <- MCTasks
    MaxClients = 2
    MaxEvents = 1
    MaxCalls = 3
    CONNECT_ATTEMPTS = 2
    MAX_CHATS = 1
INVARIANTS NoOrphans WithinCap StoreFollowsHub
CHECK_DEADLOCK FALSE
PROPERTIES CallsEnd
