SPECIFICATION FairSpec
CONSTANTS
    p1 = p1
    p2 = p2
    d1 = d1
    d2 = d2
    HostResolves = TRUE
    None = None
    Panels = {p1}
    DeviceNumbers = {d1, d2}
    Configured <- TwoDevices
    Query <- OneQuery
CHECK_DEADLOCK FALSE
PROPERTY ClosedPanelRests
