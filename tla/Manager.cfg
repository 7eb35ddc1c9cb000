SPECIFICATION FairSpec
CONSTANTS
    Devices = {d1, d2}
    IdMod = 64
    UiThread = TRUE
    PortCount = 1
    ChannelCount = 256
    LevelCount = 8
    MaxRequests = 2
    MaxOps = 1
    MasterMayRefuse = TRUE
INVARIANT TypeOK
INVARIANT PendingUnderLastId
INVARIANT OnlyAcknowledged
INVARIANT NoAcceptedLost
INVARIANT EncryptionHasKey
PROPERTY IsRegistry
PROPERTY RegistrationCompletes
CHECK_DEADLOCK FALSE
