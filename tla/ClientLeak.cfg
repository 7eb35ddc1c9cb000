SPECIFICATION Spec
CONSTANTS
    Null = Null
    Sockets = {s1, s2, s3}
    Callers = {c1}
    Hosts = {"pool"}
    Packets = {"data"}
    MaxInbox = 1
INVARIANT AtMostOneOpen
CHECK_DEADLOCK FALSE
