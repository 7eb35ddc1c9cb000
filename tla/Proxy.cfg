SPECIFICATION FairSpec
CONSTANTS
    p1 = p1
    p2 = p2
    d1 = d1
    d2 = d2
    HostResolves = TRUE
    None = None
    Panels = {p1, p2}
    DeviceNumbers = {d1, d2}
    Configured <- TwoDevices
    Query <- OneQuery
INVARIANT TypeOK
INVARIANT ChosenWasFree
PROPERTY PanelServed
PROPERTY DisposedRests
CHECK_DEADLOCK FALSE
