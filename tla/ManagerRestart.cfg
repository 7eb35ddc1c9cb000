SPECIFICATION Spec
CONSTANTS
    Devices = {d1, d2}
    IdMod = 64
    UiThread = TRUE
    PortCount = 1
    ChannelCount = 256
    LevelCount = 8
    MaxRequests = 1
    MaxOps = 2
    MasterMayRefuse = TRUE
INVARIANT PingFindsDevice
CHECK_DEADLOCK FALSE
