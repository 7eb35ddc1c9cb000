SPECIFICATION FairSpec
CONSTANTS
    Null = Null
    Sockets = {s1, s2}
    Callers = {c1, c2}
    Hosts = {"pool", "window"}
    Packets = {"auth", "bad"}
    MaxInbox = 1
INVARIANT TypeOK
INVARIANT ConnectedIsRead
INVARIANT WindowHasOneOpen
INVARIANT OneLoopPerStream
INVARIANT EncryptionMatchesSession
PROPERTY PeerCloseNoticed
CHECK_DEADLOCK FALSE
