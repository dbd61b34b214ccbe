SPECIFICATION FairSpec
CONSTANTS
    Programs = {"writer", "listener", "monitor"}
    ReconnectAfter = 2
    EndpointResetAfter = 1
    CooldownBroadcasts = 3
INVARIANT TypeOK
PROPERTIES NoEchoReconnect ReaderReturns
