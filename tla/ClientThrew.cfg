SPECIFICATION FairSpec
CONSTANTS
    Null = Null
    Sockets = {s1, s2}
    Callers = {c1}
    Hosts = {"window"}
    Packets = {"data", "bad"}
    MaxInbox = 1
PROPERTY DisconnectIsNoticed
CHECK_DEADLOCK FALSE
