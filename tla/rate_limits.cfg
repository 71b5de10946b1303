SPECIFICATION DoorSpec
CONSTANTS
    ip1 = ip1
    IPs <- OneAddress
    Metered <- ThreeKinds
    Creating <- TwoKinds
    RATE_LIMIT_WINDOW = 2
    RATE_LIMIT_MAX_ACTIONS = 2
    SESSION_CREATION_WINDOW = 3
    MAX_SESSIONS_PER_IP = 2
    MaxTime = 3
    Ids <- MCIds
    Names <- MCNames
    Pages <- MCPages
    Texts <- MCTexts
    OtherFrames <- MCOtherFrames
INVARIANTS LinksLeadHome AppsAreUnderstood AtMostTwiceTheLimit SessionsPerAddress
PROPERTIES SweepIsInvisible
CHECK_DEADLOCK FALSE
