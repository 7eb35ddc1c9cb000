SPECIFICATION Spec
CONSTANTS
    Width = 3
    Senders = {s1, s2}
    Reader = reader
    Threads <- AllThreads
    Key <- OneKey
    Salts <- TwoSalts
    SaltLength = 1
    ReceiveBufferSize = 12
    Payloads <- EmptyAndOne
    Sessions <- Pool
    FirstIds = {7}
    MaxIn = 1
    MaxOut = 1
PROPERTY DeliveredInOrder
CHECK_DEADLOCK FALSE
