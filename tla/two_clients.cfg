SPECIFICATION FairSpec
CONSTANTS
    host = host
    guest = guest
    Clients <- MCClients
    Host = host
    Provider <- MCProvider
    MaxConnections = 2
    MaxFaults = 1
    MaxMessages <- MCMessages
INVARIANTS SameSecret FingerprintsAreOfTheSecret OffersAFreeSeat BelievesWhatIsSo LiveIsHeard
PROPERTIES InOrder HandshakeCompletes
CHECK_DEADLOCK FALSE
