SPECIFICATION FairSpec
CONSTANTS
    Width = 3
    Senders = {s1, s2}
    Reader = reader
    Threads <- AllThreads
    Key <- OneKey
    Salts <- TwoSalts
    SaltLength = 1
    ReceiveBufferSize = 12
    Payloads <- EmptyAndOne
    Sessions <- Safe
    FirstIds = {7}
    MaxIn = 2
    MaxOut = 2
INVARIANT TypeOK
INVARIANT SentReadable
PROPERTY DeliveredInOrder
PROPERTY ActsPerCall
PROPERTY AllDelivered
CHECK_DEADLOCK FALSE
